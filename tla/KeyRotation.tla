---------------------------- MODULE KeyRotation ----------------------------
(***************************************************************************)
(* Rotation of the master key, and what it leaves on disk, in the database *)
(* and in the cloud at every point where it may stop.                      *)
(*                                                                         *)
(* The cloud keyring is three files written one after another:             *)
(* _recovery.json (the master under the recovery phrase), _content.json    *)
(* (the content keys under the master) and _meta.json, the commit marker.  *)
(* A device keeps its own copy twice: in the plaintext boot file, which    *)
(* unlocks it, and in the settings of its database.  Keys are numbers, a   *)
(* fingerprint is the key itself and a wrapped key names what opens it.    *)
(***************************************************************************)
EXTENDS Integers, Sequences, FiniteSets

CONSTANTS
  Devices,
  MaxMasters,      \* bound: master keys minted after the first
  MaxFaults,       \* bound: crashes and failed calls
  Passwords,       \* what a user may choose
  Overlap          \* two devices may be between check and commit at once

ASSUME RotationAssumption ==
  /\ MaxMasters \in Nat
  /\ MaxFaults \in Nat
  /\ Overlap \in BOOLEAN

VARIABLES
  meta,    \* _meta.json: epoch, fp (master), ce (content epoch)
  slot,    \* _recovery.json: master, and the phrase that opens it
  content, \* _content.json: the keys and the master they are wrapped under
  boot,    \* boot[d]: password, master, content list, recovery slot
  db,      \* db[d]: settings rows of the database
  jobs,    \* jobs[d]: rotation_job rows neither done nor aborted, by id
  stash,   \* stash[d]: {} or the job's two masters, under the password
  words,   \* words[d]: {} or the phrase stashed for the job
  mem,     \* mem[d]: {} when locked, else the keys in use, and whether the
           \* window asks to resume a rotation
  pc,      \* pc[d]: step of the one key operation that runs on d
  op,      \* op[d]: its locals
  minted,  \* master keys minted so far
  known,   \* recovery phrases shown to the user
  faults

vars == <<meta, slot, content, boot, db, jobs, stash, words, mem, pc, op,
          minted, known, faults>>

-----------------------------------------------------------------------------
(* Values. *)

Masters == 0..MaxMasters
Phrases == Masters                   \* a reset mints a phrase with its master
Epochs  == 1..(MaxMasters + 1)
Key     == [epoch : Epochs, key : Masters]
List    == [under : Masters, keys : SUBSET Key]
Slot    == [master : Masters, phrase : Phrases]
Meta    == [epoch : Epochs, fp : Masters, ce : Epochs]
Boot    == [pw : Passwords, master : Masters, list : List,
            rec : SUBSET Slot]
Db      == [pw : Passwords, fp : Masters, epoch : Epochs, rw : Slot,
            list : List, flag : BOOLEAN, dirty : BOOLEAN]
Job     == [state : {"commit_local", "publish_keyring"}, epoch : Epochs, new : Masters]
Stash   == [old : Masters, new : Masters, pw : Passwords]
Memory  == [master : Masters, keys : SUBSET Key, prompt : BOOLEAN]
Op      == [kind : {"none", "rotate", "reset", "resume", "finalize", "repair", "password"},
            seen : Meta, slot : Slot, list : List]

Committing == {"boot", "tx", "load"}
Publishing == {"check", "recovery", "content", "meta"}
Finalizing == {"settings", "unstash", "done", "return"}
Pairing    == {"identity", "list", "file", "adopt", "recheck", "bump", "clear"}
Resetting  == {"pwboot", "gate", "reboot"}
Uploading  == {"upcontent", "uprecovery", "upmeta"}
PCs == {"idle"} \cup Committing \cup Publishing \cup Finalizing \cup Pairing
         \cup Resetting \cup Uploading

Latest(keys) == CHOOSE e \in Epochs : /\ \E k \in keys : k.epoch = e
                                      /\ \A k \in keys : k.epoch <= e
Later(a, b) == IF a > b THEN a ELSE b

\* The keys a reader of _meta.json can rely on.
Committed == {k \in content.keys : k.epoch <= meta.ce}

TypeOK ==
  /\ meta \in Meta /\ slot \in Slot /\ content \in List
  /\ boot \in [Devices -> Boot]
  /\ db \in [Devices -> Db]
  /\ jobs \in [Devices -> Seq(Job)]
  /\ stash \in [Devices -> SUBSET Stash] /\ words \in [Devices -> SUBSET Phrases]
  /\ mem \in [Devices -> SUBSET Memory]
  /\ pc \in [Devices -> PCs] /\ op \in [Devices -> Op]
  /\ minted \in Masters /\ known \subseteq Phrases /\ faults \in 0..MaxFaults

List0 == [under |-> 0, keys |-> {[epoch |-> 1, key |-> 0]}]
Slot0 == [master |-> 0, phrase |-> 0]
Meta0 == [epoch |-> 1, fp |-> 0, ce |-> 1]
NoOp  == [kind |-> "none", seen |-> Meta0, slot |-> Slot0, list |-> List0]

\* Every device is set up, paired and unlocked.
Init ==
  /\ meta = Meta0 /\ slot = Slot0 /\ content = List0
  /\ \E p \in Passwords :
       /\ boot = [d \in Devices |-> [pw |-> p, master |-> 0, list |-> List0, rec |-> {Slot0}]]
       /\ db = [d \in Devices |-> [pw |-> p, fp |-> 0, epoch |-> 1, rw |-> Slot0,
                                   list |-> List0, flag |-> FALSE, dirty |-> FALSE]]
  /\ op = [d \in Devices |-> NoOp]
  /\ jobs = [d \in Devices |-> <<>>]
  /\ stash = [d \in Devices |-> {}] /\ words = [d \in Devices |-> {}]
  /\ mem = [d \in Devices |-> {[master |-> 0, keys |-> List0.keys, prompt |-> FALSE]}]
  /\ pc = [d \in Devices |-> "idle"]
  /\ minted = 0 /\ known = {0} /\ faults = 0

-----------------------------------------------------------------------------
(* Steps of the operation on d. *)

Cloud == <<meta, slot, content>>
Local == <<boot, db, jobs, stash, words, mem>>

Goto(d, step) == pc' = [pc EXCEPT ![d] = step] /\ UNCHANGED op
Stop(d) == pc' = [pc EXCEPT ![d] = "idle"] /\ op' = [op EXCEPT ![d] = NoOp]
Ready(d) == pc[d] = "idle" /\ mem[d] # {}

\* ForceRePairScreen takes the whole window while the flag is up, and
\* RotationResumeModal blocks the rest until the rotation it asks for ends.
Prompted(d) == \E m \in mem[d] : m.prompt
MayResume(d) == ~db[d].flag /\ Prompted(d)
MayCommand(d) == ~db[d].flag /\ ~Prompted(d)

Begin(d, step, locals) ==
  /\ Ready(d)
  /\ pc' = [pc EXCEPT ![d] = step]
  /\ op' = [op EXCEPT ![d] = locals]
As(kind) == [NoOp EXCEPT !.kind = kind]

Active(d) == jobs[d] # <<>>
Newest(d) == jobs[d][Len(jobs[d])]  \* find_active_rotation_job: the highest id
Closed(d) == jobs' = [jobs EXCEPT ![d] = SubSeq(@, 1, Len(@) - 1)]

\* Between reading _meta.json and replacing it nothing excludes another
\* device; Overlap = FALSE leaves that to chance.
Window == {"recovery", "content", "meta", "bump"} \cup Uploading
Alone(d) == Overlap \/ \A e \in Devices \ {d} : pc[e] \notin Window

-----------------------------------------------------------------------------
(* Starting a rotation, and the local commit. *)

\* rotate_master_key and revoke_device take the phrase and prove it opens the
\* cloud slot; reset_recovery_phrase mints one and proves the master instead.
Proved(d, kind) ==
  IF kind = "reset" THEN \E m \in mem[d] : m.master = meta.fp
                    ELSE slot.phrase \in known /\ slot.master = meta.fp

\* Mutant: the new epoch is counted twice.
ExtendedTwice(keys, key) ==
  keys \cup {[epoch |-> Later(Latest(keys), meta.ce) + 2, key |-> key]}

\* The keys of a list with a new one for the next content epoch.
Extended(keys, key) ==
  keys \cup {[epoch |-> Later(Latest(keys), meta.ce) + 1, key |-> key]}

Rotate(d, kind) ==
  \E m \in mem[d] :
    LET new == minted + 1 IN
    /\ MayCommand(d)
    /\ Begin(d, "boot", As(kind))
    /\ minted < MaxMasters
    /\ Proved(d, kind)
    /\ db[d].fp = meta.fp
    /\ db[d].list.under = m.master
    /\ minted' = new
    /\ jobs' = [jobs EXCEPT ![d] =
                  Append(@, [state |-> "commit_local", epoch |-> meta.epoch, new |-> new])]
    /\ stash' = [stash EXCEPT ![d] =
                  {[old |-> m.master, new |-> new, pw |-> db[d].pw]}]
    /\ words' = [words EXCEPT ![d] = {IF kind = "reset" THEN new ELSE slot.phrase}]
    /\ db' = [db EXCEPT ![d].list.keys = Extended(@, new)]
    /\ UNCHANGED <<Cloud, boot, mem, known, faults>>

\* The boot file first, in one atomic rename.  The recovery slot would open
\* the old master and is dropped.
NewBoot(d, s) ==
  [pw |-> db[d].pw, master |-> s.new, rec |-> {},
   list |-> [under |-> s.new, keys |-> db[d].list.keys]]

CommitBoot(d) ==
  /\ pc[d] = "boot"
  /\ \E s \in stash[d] :
       IF db[d].list.under \in {s.old, s.new}
       THEN boot' = [boot EXCEPT ![d] = NewBoot(d, s)] /\ Goto(d, "tx")
       ELSE Stop(d) /\ UNCHANGED boot
  /\ UNCHANGED <<Cloud, db, jobs, stash, words, mem, minted, known, faults>>

\* Mutant: the list is left for later.
CommitStateOnly(d) ==
  /\ pc[d] = "tx"
  /\ jobs' = [jobs EXCEPT ![d][Len(jobs[d])].state = "publish_keyring"]
  /\ Goto(d, IF op[d].kind = "resume" THEN "check" ELSE "load")
  /\ UNCHANGED <<Cloud, boot, db, stash, words, mem, minted, known, faults>>

\* Then the list and the state of the job, in one transaction.
CommitSettings(d) ==
  /\ pc[d] = "tx"
  /\ db' = [db EXCEPT ![d].list = boot[d].list]
  /\ jobs' = [jobs EXCEPT ![d][Len(jobs[d])].state = "publish_keyring"]
  /\ Goto(d, IF op[d].kind = "resume" THEN "check" ELSE "load")
  /\ UNCHANGED <<Cloud, boot, stash, words, mem, minted, known, faults>>

\* rotate_keys puts the new master to use before it publishes.
AsStored(d) == [master |-> db[d].list.under, keys |-> db[d].list.keys, prompt |-> FALSE]
Loaded(d) == mem' = [mem EXCEPT ![d] = {AsStored(d)}]

Load(d) ==
  /\ pc[d] = "load"
  /\ Loaded(d)
  /\ Goto(d, "check")
  /\ UNCHANGED <<Cloud, boot, db, jobs, stash, words, minted, known, faults>>

-----------------------------------------------------------------------------
(* Publishing: three files, the commit marker last. *)

\* Mutant: the epoch is not compared again.
CheckNothing(d) ==
  /\ pc[d] = "check" /\ Alone(d)
  /\ pc' = [pc EXCEPT ![d] = "recovery"]
  /\ op' = [op EXCEPT ![d].seen = meta]
  /\ UNCHANGED <<Cloud, boot, db, jobs, stash, words, mem, minted, known, faults>>

\* A rotation that another device overtook is given up.
CheckEpoch(d) ==
  /\ pc[d] = "check"
  /\ IF meta.epoch = Newest(d).epoch
     THEN /\ Alone(d)
          /\ pc' = [pc EXCEPT ![d] = "recovery"]
          /\ op' = [op EXCEPT ![d].seen = meta]
          /\ UNCHANGED jobs
     ELSE Closed(d) /\ Stop(d)
  /\ UNCHANGED <<Cloud, boot, db, stash, words, mem, minted, known, faults>>

\* Mutant: the commit marker is written before the content keys.
WriteRecoveryMetaNext(d) ==
  /\ pc[d] = "recovery"
  /\ \E s \in stash[d], w \in words[d] :
       /\ slot' = [master |-> s.new, phrase |-> w]
       /\ op' = [op EXCEPT ![d].slot = slot']
  /\ pc' = [pc EXCEPT ![d] = "meta"]
  /\ UNCHANGED <<meta, content, Local, minted, known, faults>>

WriteRecovery(d) ==
  /\ pc[d] = "recovery"
  /\ \E s \in stash[d], w \in words[d] :
       /\ slot' = [master |-> s.new, phrase |-> w]
       /\ op' = [op EXCEPT ![d].slot = slot']
  /\ pc' = [pc EXCEPT ![d] = "content"]
  /\ UNCHANGED <<meta, content, Local, minted, known, faults>>

WriteContent(d) ==
  /\ pc[d] = "content"
  /\ IF db[d].list.under = Newest(d).new
     THEN /\ content' = IF Latest(db[d].list.keys) > op[d].seen.ce
                        THEN db[d].list ELSE content
          /\ Goto(d, "meta")
     ELSE Stop(d) /\ UNCHANGED content
  /\ UNCHANGED <<meta, slot, Local, minted, known, faults>>

PublishedMeta(d) ==
  [epoch |-> Newest(d).epoch + 1, fp |-> Newest(d).new,
   ce |-> Later(Latest(db[d].list.keys), op[d].seen.ce)]

WriteMeta(d) ==
  /\ pc[d] = "meta"
  /\ meta' = PublishedMeta(d)
  /\ Goto(d, "settings")
  /\ UNCHANGED <<slot, content, Local, minted, known, faults>>

-----------------------------------------------------------------------------
(* The local tail of a rotation. *)

\* Fingerprint, epoch and recovery slot, in one transaction.
FinalizeSettings(d) ==
  /\ pc[d] = "settings"
  /\ db' = [db EXCEPT ![d].fp = Newest(d).new, ![d].epoch = Newest(d).epoch + 1,
                      ![d].rw = op[d].slot]
  /\ Goto(d, "unstash")
  /\ UNCHANGED <<Cloud, boot, jobs, stash, words, mem, minted, known, faults>>

ClearStash(d) ==
  /\ pc[d] = "unstash"
  /\ stash' = [stash EXCEPT ![d] = {}]
  /\ Goto(d, "done")
  /\ UNCHANGED <<Cloud, boot, db, jobs, words, mem, minted, known, faults>>

\* The stashed phrase goes with the job, in one transaction.
MarkDone(d) ==
  /\ pc[d] = "done"
  /\ Closed(d)
  /\ words' = [words EXCEPT ![d] = {}]
  /\ Goto(d, "return")
  /\ UNCHANGED <<Cloud, boot, db, stash, mem, minted, known, faults>>

\* Mutant: memory keeps the keys it had.
ReturnStale(d) ==
  /\ pc[d] = "return"
  /\ known' = IF op[d].kind = "reset" THEN known \cup {op[d].slot.phrase} ELSE known
  /\ mem' = [mem EXCEPT ![d] = {[m EXCEPT !.prompt = FALSE] : m \in @}]
  /\ Stop(d)
  /\ UNCHANGED <<Cloud, boot, db, jobs, stash, words, minted, faults>>

\* A reset hands out its phrase; a resumed rotation brings memory up to date,
\* unless it only finalized.
Return(d) ==
  /\ pc[d] = "return"
  /\ known' = IF op[d].kind = "reset" THEN known \cup {op[d].slot.phrase} ELSE known
  /\ mem' = [mem EXCEPT ![d] =
       IF op[d].kind = "resume" THEN {AsStored(d)} ELSE {[m EXCEPT !.prompt = FALSE] : m \in @}]
  /\ Stop(d)
  /\ UNCHANGED <<Cloud, boot, db, jobs, stash, words, minted, faults>>

-----------------------------------------------------------------------------
(* Taking an interrupted rotation up again. *)

Published(d) ==
  /\ Newest(d).state = "publish_keyring"
  /\ meta.epoch = Newest(d).epoch + 1 /\ meta.fp = Newest(d).new

\* With the commit marker in place only the local tail is left; the slot it
\* stores is the one the settings hold already.
ResumeFinalize(d) ==
  /\ MayResume(d) /\ Active(d) /\ Published(d)
  /\ Begin(d, "settings", [As("finalize") EXCEPT !.slot = db[d].rw])
  /\ UNCHANGED <<Cloud, Local, minted, known, faults>>

Resume(d) ==
  /\ MayResume(d) /\ Active(d) /\ ~Published(d)
  /\ \E s \in stash[d] : s.pw = db[d].pw
  /\ Begin(d, IF Newest(d).state = "commit_local" THEN "boot" ELSE "check", As("resume"))
  /\ UNCHANGED <<Cloud, Local, minted, known, faults>>

\* The rotation asked for was given up meanwhile.
Dismiss(d) ==
  /\ MayResume(d) /\ ~Active(d) /\ Ready(d)
  /\ mem' = [mem EXCEPT ![d] = {[m EXCEPT !.prompt = FALSE] : m \in @}]
  /\ UNCHANGED <<Cloud, boot, db, jobs, stash, words, pc, op, minted, known, faults>>

-----------------------------------------------------------------------------
(* Unlocking, and the check that the keyring did not move. *)

\* The boot file alone decides.  A missing recovery slot is filled in from the
\* settings when their fingerprint is that of the live master.  Then an
\* unpublished job without a stash is dropped, and any other is asked about.
Orphaned(d) == Active(d) /\ Newest(d).state = "commit_local" /\ stash[d] = {}

Unlock(d) ==
  /\ pc[d] = "idle" /\ mem[d] = {}
  /\ boot[d].list.under = boot[d].master
  /\ IF Orphaned(d) THEN Closed(d) ELSE UNCHANGED jobs
  /\ mem' = [mem EXCEPT ![d] = {[master |-> boot[d].master, keys |-> boot[d].list.keys,
                                prompt |-> jobs'[d] # <<>>]}]
  /\ boot' = IF boot[d].rec = {} /\ db[d].fp = boot[d].master
             THEN [boot EXCEPT ![d].rec = {db[d].rw}] ELSE boot
  /\ UNCHANGED <<Cloud, db, stash, words, pc, op, minted, known, faults>>

Lock(d) ==
  /\ Ready(d)
  /\ mem' = [mem EXCEPT ![d] = {}]
  /\ UNCHANGED <<Cloud, boot, db, jobs, stash, words, pc, op, minted, known, faults>>

Mismatch(d) == db[d].fp # meta.fp \/ db[d].epoch # meta.epoch

\* At unlock, in the background, and at the start of each sync.
Detect(d) ==
  /\ mem[d] # {} /\ Mismatch(d) /\ ~db[d].flag
  /\ db' = [db EXCEPT ![d].flag = TRUE]
  /\ UNCHANGED <<Cloud, boot, jobs, stash, words, mem, pc, op, minted, known, faults>>

Recheck(d) ==
  /\ Ready(d) /\ db[d].flag /\ ~Mismatch(d)
  /\ db' = [db EXCEPT ![d].flag = FALSE]
  /\ UNCHANGED <<Cloud, boot, jobs, stash, words, mem, pc, op, minted, known, faults>>

-----------------------------------------------------------------------------
(* Re-pairing a device whose vault another device rotated. *)

RePair(d) ==
  /\ db[d].flag
  /\ slot.phrase \in known /\ slot.master = meta.fp /\ content.under = slot.master
  /\ Begin(d, "identity", [kind |-> "repair", seen |-> meta, slot |-> slot, list |-> content])
  /\ UNCHANGED <<Cloud, Local, minted, known, faults>>

\* Settings rows one by one, up to the fingerprint and slot, then the list.
PairIdentity(d) ==
  /\ pc[d] = "identity"
  /\ \E p \in Passwords :
       db' = [db EXCEPT ![d].pw = p, ![d].epoch = op[d].seen.epoch,
                        ![d].fp = op[d].list.under, ![d].rw = op[d].slot]
  /\ Goto(d, "list")
  /\ UNCHANGED <<Cloud, boot, jobs, stash, words, mem, minted, known, faults>>

PairList(d) ==
  /\ pc[d] = "list"
  /\ db' = [db EXCEPT ![d].list = op[d].list]
  /\ Goto(d, "file")
  /\ UNCHANGED <<Cloud, boot, jobs, stash, words, mem, minted, known, faults>>

\* The boot file, and the database re-keyed to the key it names.
PairBoot(d) ==
  /\ pc[d] = "file"
  /\ boot' = [boot EXCEPT ![d] = [pw |-> db[d].pw, master |-> op[d].list.under,
                                  list |-> op[d].list, rec |-> {op[d].slot}]]
  /\ Goto(d, "adopt")
  /\ UNCHANGED <<Cloud, db, jobs, stash, words, mem, minted, known, faults>>

\* Mutant: the re-paired device goes on with the keys it had.
PairKeepMemory(d) ==
  /\ pc[d] = "adopt"
  /\ Goto(d, "recheck")
  /\ UNCHANGED <<Cloud, Local, minted, known, faults>>

PairAdopt(d) ==
  /\ pc[d] = "adopt"
  /\ Loaded(d)
  /\ Goto(d, "recheck")
  /\ UNCHANGED <<Cloud, boot, db, jobs, stash, words, minted, known, faults>>

\* A vault that moved meanwhile ends the re-pair; the flag stays.
PairRecheck(d) ==
  /\ pc[d] = "recheck"
  /\ IF meta = op[d].seen THEN Alone(d) /\ Goto(d, "bump") ELSE Stop(d)
  /\ UNCHANGED <<Cloud, Local, minted, known, faults>>

\* _meta.json is written back with a new updated_at.
PairBump(d) ==
  /\ pc[d] = "bump"
  /\ meta' = op[d].seen
  /\ Goto(d, "clear")
  /\ UNCHANGED <<slot, content, Local, minted, known, faults>>

PairClear(d) ==
  /\ pc[d] = "clear"
  /\ db' = [db EXCEPT ![d].flag = FALSE]
  /\ Stop(d)
  /\ UNCHANGED <<Cloud, boot, jobs, stash, words, mem, minted, known, faults>>

-----------------------------------------------------------------------------
(* Passwords: the settings first, then the boot file. *)

ChangePassword(d) ==
  /\ MayCommand(d)
  /\ \E p \in Passwords \ {db[d].pw} : db' = [db EXCEPT ![d].pw = p]
  /\ Begin(d, "pwboot", As("password"))
  /\ UNCHANGED <<Cloud, boot, jobs, stash, words, mem, minted, known, faults>>

\* The master comes from memory; the list is carried over as it stands.
PasswordBoot(d) ==
  /\ pc[d] = "pwboot"
  /\ \E m \in mem[d] : boot' = [boot EXCEPT ![d].pw = db[d].pw, ![d].master = m.master]
  /\ Goto(d, "gate")
  /\ UNCHANGED <<Cloud, db, jobs, stash, words, mem, minted, known, faults>>

\* Not connected: nothing to publish.
KeepOffline(d) ==
  /\ pc[d] = "gate"
  /\ Stop(d)
  /\ UNCHANGED <<Cloud, Local, minted, known, faults>>

\* The phrase opens the boot file's recovery slot on a locked device.
Recover(d) ==
  /\ pc[d] = "idle" /\ mem[d] = {}
  /\ \E r \in boot[d].rec : r.phrase \in known /\ r.master = boot[d].list.under
  /\ \E p \in Passwords : db' = [db EXCEPT ![d].pw = p]
  /\ pc' = [pc EXCEPT ![d] = "reboot"]
  /\ UNCHANGED <<Cloud, boot, jobs, stash, words, mem, op, minted, known, faults>>

RecoverBoot(d) ==
  /\ pc[d] = "reboot"
  /\ boot' = [boot EXCEPT ![d].pw = db[d].pw, ![d].master = boot[d].list.under]
  /\ mem' = [mem EXCEPT ![d] = {[master |-> boot[d].list.under, keys |-> boot[d].list.keys,
                                prompt |-> FALSE]}]
  /\ Stop(d)
  /\ UNCHANGED <<Cloud, db, jobs, stash, words, minted, known, faults>>

-----------------------------------------------------------------------------
(* Re-publishing the keyring from local settings, with no check of epochs. *)

EpochsOf(keys) == {k.epoch : k \in keys}
MayUpload(d) ==
  /\ ~Active(d) /\ ~db[d].flag
  /\ \E m \in mem[d] : EpochsOf(db[d].list.keys) \subseteq EpochsOf(m.keys)

\* A password change publishes at once and leaves what it could not to a sync.
Republish(d) ==
  /\ pc[d] = "gate"
  /\ IF MayUpload(d) THEN Alone(d) /\ Goto(d, "upcontent") /\ UNCHANGED db
                     ELSE Stop(d) /\ db' = [db EXCEPT ![d].dirty = TRUE]
  /\ UNCHANGED <<Cloud, boot, jobs, stash, words, mem, minted, known, faults>>

\* A sync looks for a rotation first.
RepublishDirty(d) ==
  /\ db[d].dirty /\ ~Mismatch(d) /\ MayUpload(d) /\ Alone(d)
  /\ Begin(d, "upcontent", As("password"))
  /\ UNCHANGED <<Cloud, Local, minted, known, faults>>

UploadContent(d) ==
  /\ pc[d] = "upcontent"
  /\ content' = db[d].list
  /\ Goto(d, "uprecovery")
  /\ UNCHANGED <<meta, slot, Local, minted, known, faults>>

UploadRecovery(d) ==
  /\ pc[d] = "uprecovery"
  /\ slot' = db[d].rw
  /\ Goto(d, "upmeta")
  /\ UNCHANGED <<meta, content, Local, minted, known, faults>>

UploadMeta(d) ==
  /\ pc[d] = "upmeta"
  /\ meta' = [epoch |-> db[d].epoch, fp |-> db[d].fp, ce |-> Latest(db[d].list.keys)]
  /\ db' = [db EXCEPT ![d].dirty = FALSE]
  /\ Stop(d)
  /\ UNCHANGED <<slot, content, boot, jobs, stash, words, mem, minted, known, faults>>

-----------------------------------------------------------------------------
(* Failures. *)

\* A cloud call or the write of the boot file fails: the command returns.
Fail(d) ==
  /\ pc[d] \in {"boot", "recheck"} \cup Publishing \cup Uploading
  /\ faults < MaxFaults /\ faults' = faults + 1
  /\ db' = IF pc[d] \in Uploading THEN [db EXCEPT ![d].dirty = TRUE] ELSE db
  /\ Stop(d)
  /\ UNCHANGED <<Cloud, boot, jobs, stash, words, mem, minted, known>>

\* The process dies between two steps.
Crash(d) ==
  /\ pc[d] # "idle"
  /\ faults < MaxFaults /\ faults' = faults + 1
  /\ mem' = [mem EXCEPT ![d] = {}]
  /\ Stop(d)
  /\ UNCHANGED <<Cloud, boot, db, jobs, stash, words, minted, known>>

-----------------------------------------------------------------------------
(* The specification.  Core leaves out what breaks a property below and is *)
(* shown to: a keyring published again after a password change, and a crash *)
(* between the local writes of a re-pair.                                   *)

Step(d) ==
  \/ CommitBoot(d) \/ CommitSettings(d) \/ Load(d)
  \/ CheckEpoch(d) \/ WriteRecovery(d) \/ WriteContent(d) \/ WriteMeta(d)
  \/ FinalizeSettings(d) \/ ClearStash(d) \/ MarkDone(d) \/ Return(d)
  \/ PairIdentity(d) \/ PairList(d) \/ PairBoot(d) \/ PairAdopt(d)
  \/ PairRecheck(d) \/ PairBump(d) \/ PairClear(d)
  \/ PasswordBoot(d) \/ KeepOffline(d) \/ RecoverBoot(d)

Command(d) ==
  \/ Rotate(d, "rotate") \/ Rotate(d, "reset")
  \/ ResumeFinalize(d) \/ Resume(d)
  \/ Unlock(d) \/ Lock(d) \/ Detect(d) \/ Recheck(d) \/ RePair(d)
  \/ ChangePassword(d) \/ Recover(d)

Core == \E d \in Devices :
  \/ Step(d) \/ Command(d) \/ Fail(d)
  \/ pc[d] \notin Pairing /\ Crash(d)

Next == \E d \in Devices :
  \/ Step(d) \/ Command(d) \/ Fail(d) \/ Crash(d) \/ Dismiss(d)
  \/ Republish(d) \/ RepublishDirty(d)
  \/ UploadContent(d) \/ UploadRecovery(d) \/ UploadMeta(d)

CoreSpec == Init /\ [][Core]_vars
Spec == Init /\ [][Next]_vars

-----------------------------------------------------------------------------
(* Properties. *)

\* begin_push_entry lets the device write entries now: no flag, no job, and no
\* command that holds the guard.  Nothing is compared with the cloud.
MayPush(d) ==
  /\ mem[d] # {} /\ ~Active(d) /\ ~db[d].flag
  /\ op[d].kind \notin {"rotate", "reset", "resume", "finalize"}

\* The cloud is an epoch ahead: the next check that gets an answer tells.
Overtaken(d) == db[d].epoch < meta.epoch

PushKeyCommitted(d) ==
  \A m \in mem[d] : \E k \in m.keys : k.epoch = Latest(m.keys) /\ k \in Committed

\* A job can still turn the keyring of the cloud into its own.
Publishes(d) ==
  Active(d) /\ Newest(d).state = "publish_keyring" /\ Newest(d).epoch = meta.epoch

\* The three files of the keyring belong together, unless a job that can be
\* resumed has written some of them (publish_keyring writes _meta.json last).
CloudWhole ==
  \/ /\ slot.master = meta.fp /\ content.under = meta.fp
     /\ meta.ce = Latest(content.keys)
  \/ \E d \in Devices : Publishes(d)

\* A device that may push, and whose settings are at the epoch of the cloud,
\* encrypts with a key every other device can obtain from the committed
\* keyring.  Only a device that a rotation has overtaken may push under a key of
\* its own that came to nothing (publish_keyring aborts its job, raises no flag
\* and leaves the key in memory).
OnlyOvertakenPushStray == \A d \in Devices : MayPush(d) => PushKeyCommitted(d) \/ Overtaken(d)

\* A job no other rotation has overtaken finds on disk what resume_rotation
\* needs: the stashed masters, and a content list one of them opens.
JobsCanResume ==
  \A d \in Devices :
    Active(d) /\ Newest(d).epoch = meta.epoch =>
      \E s \in stash[d] :
        /\ s.new = Newest(d).new
        /\ db[d].list.under = IF Newest(d).state = "commit_local" THEN s.old ELSE s.new

\* The password opens the boot file: the master it wraps opens the list beside it.
BootFileOpens == \A d \in Devices : boot[d].list.under = boot[d].master

Vault == INSTANCE Vault WITH
  epoch <- meta.epoch, master <- meta.fp, keys <- Committed,
  at <- [d \in Devices |-> db[d].epoch]

\* Seen through _meta.json, every rotation is one atomic step that keeps all
\* content keys, whatever crashes and however often it is resumed; and no
\* device goes back to an older epoch.
ImplementsVault == Vault!VaultSpec

\* A committed content key stays available and the epoch never falls: what
\* the sync calls "must be detected before the re-upload" (sync.rs).
CommittedKeysStay == [][Committed \subseteq Committed' /\ meta'.epoch >= meta.epoch]_vars

\* "The fingerprint always identifies the master the recovery slot currently
\* wraps" (initialize_encryption): the slot of the boot file opens its master.
SlotOpensMaster ==
  \A d \in Devices : \A r \in boot[d].rec : r.master = boot[d].master

\* "job-row-exists => stash-exists" (rotate_master_key): a job that has begun
\* to publish finds the phrase it publishes under.
JobHasPhrase ==
  \A d \in Devices :
    Active(d) /\ Newest(d).state = "publish_keyring" => words[d] # {}

\* "Crash-resume is identical" (reset_recovery_phrase): once nothing is under
\* way, the phrase that opens the vault has been shown to somebody.
PhraseIsKnown ==
  (\A d \in Devices : pc[d] = "idle" /\ ~Active(d)) => slot.phrase \in known

\* What one would like of the guard of the push paths, and it does not give: what
\* may be pushed can be read by every device that shares the keyring.  It fails
\* after a publication that another device overtook.
PushesUseCommittedKeys == \A d \in Devices : MayPush(d) => PushKeyCommitted(d)

=============================================================================
