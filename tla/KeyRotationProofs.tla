------------------------- MODULE KeyRotationProofs -------------------------
(***************************************************************************)
(* Theorems about KeyRotation, for any devices, passwords and bounds, when *)
(* no two devices are between check and commit at once: the types, and the *)
(* refinement of Vault.                                                    *)
(***************************************************************************)
EXTENDS KeyRotation, SequenceTheorems, TLAPS

JobsOf(d) == {jobs[d][i] : i \in 1..Len(jobs[d])}
Live(d) == {j \in JobsOf(d) : j.epoch = meta.epoch}

CommittedMasters == {k.key : k \in Committed}

\* The keys hold all committed ones; the others are newer and came with
\* masters that are not committed.
Over(keys, ce, committed) ==
  /\ {k \in keys : k.epoch <= ce} = committed
  /\ \A k \in keys, c \in committed : k.epoch > ce => k.key # c.key
Extends(keys) == Over(keys, meta.ce, Committed)

HasLatest(keys) == \E k \in keys : \A j \in keys : j.epoch <= k.epoch
KeyBound(keys, last) == \A k \in keys : k.epoch <= k.key + 1 /\ k.key <= last
Listed(keys) == HasLatest(keys) /\ KeyBound(keys, minted)

CloudInv ==
  /\ Extends(content.keys) /\ Listed(content.keys)
  /\ meta.fp \in CommittedMasters
  /\ meta.epoch <= meta.fp + 1 /\ meta.ce <= minted + 1

\* A live job has its key in the list, and its device knows the master it
\* replaces.
JobInv(d) ==
  /\ \A j \in JobsOf(d) :
       /\ j.new <= minted /\ j.epoch <= meta.epoch
       /\ j.new = meta.fp => j.epoch + 1 = meta.epoch /\ Extends(db[d].list.keys)
  /\ \A j \in Live(d) :
       /\ db[d].fp = meta.fp /\ ~db[d].flag /\ j.new > meta.fp
       /\ \E k \in db[d].list.keys : k.epoch > meta.ce /\ k.key = j.new

\* No two jobs mint the same master.
Minting(d, e) ==
  \A i \in JobsOf(d), j \in JobsOf(e) : i.new = j.new => d = e /\ i.epoch = j.epoch

\* A device that knows the current master has the committed keys; in a
\* re-pair it learns the one before the others.
SyncInv(d) ==
  /\ Listed(db[d].list.keys)
  /\ db[d].fp \in CommittedMasters /\ db[d].epoch <= meta.epoch
  /\ db[d].fp = meta.fp =>
       /\ db[d].epoch = meta.epoch
       /\ pc[d] # "list" => Extends(db[d].list.keys)

PairInv(d) ==
  pc[d] \in Pairing =>
    /\ db[d].flag
    /\ Listed(op[d].list.keys)
    /\ op[d].list.under = op[d].seen.fp /\ op[d].seen.fp \in CommittedMasters
    /\ op[d].seen.epoch <= meta.epoch
    /\ op[d].seen.fp = meta.fp =>
         op[d].seen.epoch = meta.epoch /\ Extends(op[d].list.keys)
    /\ (\E j \in JobsOf(d) : j.new = meta.fp) => op[d].seen.fp = meta.fp
    /\ pc[d] = "identity" => db[d].epoch <= op[d].seen.epoch
    /\ pc[d] = "list" => db[d].fp = op[d].seen.fp
    /\ pc[d] = "bump" => op[d].seen = meta

Rotating == Committing \cup Publishing \cup {"settings", "unstash", "done"}

RunInv(d) ==
  /\ pc[d] \in Rotating => jobs[d] # <<>>
  /\ pc[d] = "tx" => boot[d].list.keys = db[d].list.keys
  /\ pc[d] \in {"recovery", "content", "meta"} =>
       op[d].seen = meta /\ Newest(d).epoch = meta.epoch
  /\ pc[d] = "meta" => content.keys = db[d].list.keys
  /\ pc[d] = "settings" =>
       /\ Newest(d).epoch + 1 <= meta.epoch /\ db[d].epoch <= Newest(d).epoch + 1
       /\ Newest(d).new \in CommittedMasters
       /\ Live(d) = {} \/ Newest(d).new = meta.fp
  /\ pc[d] \notin Uploading

DevInv(d) == JobInv(d) /\ SyncInv(d) /\ PairInv(d) /\ RunInv(d)

Exclusive == \A d, e \in Devices : pc[d] \in Window /\ pc[e] \in Window => d = e

IInv ==
  /\ TypeOK /\ CloudInv /\ Exclusive
  /\ \A d \in Devices : DevInv(d)
  /\ \A d, e \in Devices : Minting(d, e)

-----------------------------------------------------------------------------
(* Sets of keys and of jobs. *)

\* The latest epoch of a set of keys is that of its newest key.
LEMMA LatestIsMax ==
  ASSUME NEW keys \in SUBSET Key, HasLatest(keys)
  PROVE  \E k \in keys : Latest(keys) = k.epoch /\ \A j \in keys : j.epoch <= k.epoch
<1>1. PICK k \in keys : \A j \in keys : j.epoch <= k.epoch BY DEF HasLatest
<1>2. k.epoch \in Epochs BY DEF Key
<1>3. PICK j \in keys : j.epoch = Latest(keys) /\ \A i \in keys : i.epoch <= Latest(keys)
  BY <1>1, <1>2 DEF Latest
<1> QED BY <1>1, <1>3

LEMMA JobTypes ==
  ASSUME TypeOK, NEW d \in Devices, NEW j \in JobsOf(d)
  PROVE  j.new \in Nat /\ j.epoch \in Nat
<1>1. jobs[d] \in Seq(Job) BY DEF TypeOK
<1>2. PICK i \in 1..Len(jobs[d]) : j = jobs[d][i] BY DEF JobsOf
<1>3. j \in Job BY <1>1, <1>2
<1> QED BY <1>3, RotationAssumption DEF Job, Masters, Epochs

\* Appending a job adds it to the set of jobs.
LEMMA AppendedJobs ==
  ASSUME NEW d \in Devices, jobs \in [Devices -> Seq(Job)], NEW new \in Job,
         jobs' = [jobs EXCEPT ![d] = Append(@, new)]
  PROVE  /\ jobs' \in [Devices -> Seq(Job)] /\ jobs'[d] # <<>>
         /\ JobsOf(d)' = JobsOf(d) \cup {new}
<1>1. jobs[d] \in Seq(Job) /\ jobs'[d] = Append(jobs[d], new) OBVIOUS
<1>2. /\ jobs'[d] \in Seq(Job) /\ Len(jobs'[d]) = Len(jobs[d]) + 1
      /\ jobs'[d][Len(jobs[d]) + 1] = new
      /\ \A i \in 1..Len(jobs[d]) : jobs'[d][i] = jobs[d][i]
  BY <1>1
<1>3. jobs' \in [Devices -> Seq(Job)] BY <1>2
<1>4. JobsOf(d)' = JobsOf(d) \cup {new} BY <1>1, <1>2 DEF JobsOf
<1> QED BY <1>2, <1>3, <1>4

\* Closing the newest job takes at most that one from the set.
LEMMA ClosedJobs ==
  ASSUME NEW d \in Devices, jobs \in [Devices -> Seq(Job)], Active(d), Closed(d)
  PROVE  jobs' \in [Devices -> Seq(Job)] /\ JobsOf(d)' \subseteq JobsOf(d)
<1> DEFINE n == Len(jobs[d]) - 1
<1>1. jobs[d] \in Seq(Job) /\ n \in Nat /\ \A i \in 1..n : jobs[d][i] \in Job
  BY DEF Active
<1>2. jobs'[d] = SubSeq(jobs[d], 1, n) BY DEF Closed
<1>3. /\ jobs'[d] \in Seq(Job) /\ Len(jobs'[d]) = n
      /\ \A i \in 1..n : jobs'[d][i] = jobs[d][i]
  <2> HIDE DEF n
  <2> QED BY <1>1, <1>2, SubSeqProperties
<1>4. jobs' \in [Devices -> Seq(Job)] BY <1>3 DEF Closed
<1> QED BY <1>1, <1>3, <1>4 DEF JobsOf

\* The newest job is one of the jobs.
LEMMA NewestJob ==
  ASSUME NEW d \in Devices, jobs \in [Devices -> Seq(Job)], jobs[d] # <<>>
  PROVE  Newest(d) \in JobsOf(d) /\ Newest(d) \in Job
<1>1. jobs[d] \in Seq(Job) /\ Len(jobs[d]) \in Nat /\ Len(jobs[d]) > 0 OBVIOUS
<1> QED BY <1>1 DEF Newest, JobsOf

\* A job that begins to publish keeps its epoch and its master.
LEMMA PublishingJobs ==
  ASSUME NEW d \in Devices, jobs \in [Devices -> Seq(Job)], jobs[d] # <<>>,
         jobs' = [jobs EXCEPT ![d][Len(jobs[d])].state = "publish_keyring"]
  PROVE  /\ jobs' \in [Devices -> Seq(Job)] /\ jobs'[d] # <<>>
         /\ \A i \in JobsOf(d)' : \E j \in JobsOf(d) : i.new = j.new /\ i.epoch = j.epoch
<1> DEFINE n == Len(jobs[d])
<1>1. jobs[d] \in Seq(Job) /\ n \in Nat /\ n > 0 OBVIOUS
<1>2. jobs[d][n] \in Job BY <1>1
<1>3. jobs'[d] = [jobs[d] EXCEPT ![n] = [jobs[d][n] EXCEPT !.state = "publish_keyring"]]
  BY <1>1
<1>4. [jobs[d][n] EXCEPT !.state = "publish_keyring"] \in Job BY <1>2 DEF Job
<1>5. /\ jobs'[d] \in Seq(Job) /\ Len(jobs'[d]) = n
      /\ \A i \in 1..n : jobs'[d][i] = IF i = n THEN [jobs[d][n] EXCEPT !.state = "publish_keyring"]
                                                ELSE jobs[d][i]
  BY <1>1, <1>3, <1>4
<1>6. jobs' \in [Devices -> Seq(Job)] BY <1>5
<1>7. \A i \in JobsOf(d)' : \E j \in JobsOf(d) : i.new = j.new /\ i.epoch = j.epoch
  <2> SUFFICES ASSUME NEW i \in JobsOf(d)'
               PROVE  \E j \in JobsOf(d) : i.new = j.new /\ i.epoch = j.epoch
    OBVIOUS
  <2>1. PICK m \in 1..n : i = jobs'[d][m] BY <1>5 DEF JobsOf
  <2>2. jobs[d][m] \in JobsOf(d) /\ jobs[d][m] \in Job BY <1>1 DEF JobsOf
  <2>3. i.new = jobs[d][m].new /\ i.epoch = jobs[d][m].epoch
    BY <1>1, <1>2, <1>5, <2>1, <2>2 DEF Job
  <2> QED BY <2>2, <2>3
<1> QED BY <1>1, <1>5, <1>6, <1>7

-----------------------------------------------------------------------------
(* Types *)

\* The three ways a step moves the program counter.
LEMMA StopType ==
  ASSUME TypeOK, NEW d \in Devices, Stop(d)
  PROVE  pc' \in [Devices -> PCs] /\ op' \in [Devices -> Op]
<1>1. NoOp \in Op
  BY RotationAssumption DEF NoOp, Op, Meta0, Slot0, List0, Meta, Slot, List, Key,
     Masters, Phrases, Epochs
<1> QED BY <1>1 DEF Stop, TypeOK, PCs

LEMMA GotoType ==
  ASSUME TypeOK, NEW d \in Devices, NEW step \in PCs, Goto(d, step)
  PROVE  pc' \in [Devices -> PCs] /\ op' \in [Devices -> Op]
BY DEF Goto, TypeOK

LEMMA BeginType ==
  ASSUME TypeOK, NEW d \in Devices, NEW step \in PCs, NEW locals \in Op,
         Begin(d, step, locals)
  PROVE  pc' \in [Devices -> PCs] /\ op' \in [Devices -> Op]
BY DEF Begin, TypeOK

LEMMA AsType ==
  ASSUME NEW kind \in {"none", "rotate", "reset", "resume", "finalize", "repair", "password"}
  PROVE  As(kind) \in Op
BY RotationAssumption DEF As, NoOp, Op, Meta0, Slot0, List0, Meta, Slot, List, Key,
     Masters, Phrases, Epochs

LEMMA InitTypeOK == Init => TypeOK
<1> SUFFICES ASSUME Init PROVE TypeOK OBVIOUS
<1>1. List0 \in List /\ Slot0 \in Slot /\ Meta0 \in Meta /\ 0 \in Masters
  BY RotationAssumption DEF List0, Slot0, Meta0, List, Slot, Meta, Key, Masters, Phrases, Epochs
<1>2. NoOp \in Op BY <1>1 DEF NoOp, Op
<1>3. PICK p \in Passwords :
        /\ boot = [d \in Devices |-> [pw |-> p, master |-> 0, list |-> List0, rec |-> {Slot0}]]
        /\ db = [d \in Devices |-> [pw |-> p, fp |-> 0, epoch |-> 1, rw |-> Slot0,
                                    list |-> List0, flag |-> FALSE, dirty |-> FALSE]]
  BY DEF Init
<1>4. boot \in [Devices -> Boot] BY <1>1, <1>3 DEF Boot
<1>5. db \in [Devices -> Db] BY <1>1, <1>3, RotationAssumption DEF Db, Epochs
<1>6. jobs \in [Devices -> Seq(Job)] BY DEF Init
<1>7. mem \in [Devices -> SUBSET Memory]
  BY <1>1 DEF Init, Memory, List0, List
<1>8. pc \in [Devices -> PCs] /\ op \in [Devices -> Op] BY <1>2 DEF Init, PCs
<1>9. stash \in [Devices -> SUBSET Stash] /\ words \in [Devices -> SUBSET Phrases]
  BY DEF Init
<1>10. meta \in Meta /\ slot \in Slot /\ content \in List BY <1>1 DEF Init
<1>11. minted \in Masters /\ known \subseteq Phrases /\ faults \in 0..MaxFaults
  BY <1>1, RotationAssumption DEF Init, Phrases
<1> QED BY <1>4, <1>5, <1>6, <1>7, <1>8, <1>9, <1>10, <1>11 DEF TypeOK

\* What is stored in the settings may be loaded, and be written to the boot file.
LEMMA StoredType ==
  ASSUME TypeOK, NEW d \in Devices
  PROVE  /\ AsStored(d) \in Memory
         /\ \A s \in stash[d] : NewBoot(d, s) \in Boot
BY DEF TypeOK, AsStored, Memory, NewBoot, Boot, Db, List, Stash

\* Bounds that types need, from the invariant.
LEMMA KeyEpochs ==
  ASSUME IInv, NEW keys \in SUBSET Key, Listed(keys)
  PROVE  Latest(keys) \in Epochs /\ Latest(keys) <= minted + 1
<1>1. PICK k \in keys : Latest(keys) = k.epoch BY LatestIsMax DEF Listed
<1>2. k \in Key /\ k.epoch <= k.key + 1 /\ k.key <= minted BY <1>1 DEF Listed, KeyBound
<1> QED BY <1>1, <1>2, RotationAssumption DEF Key, Epochs, Masters, IInv, TypeOK

LEMMA StepType ==
  ASSUME IInv, NEW d \in Devices, Step(d)
  PROVE  TypeOK'
<1>0. TypeOK /\ DevInv(d) /\ RunInv(d) BY DEF IInv, DevInv
<1> USE DEF Cloud, Local
<1>1. CASE CommitBoot(d)
  <2>1. boot' \in [Devices -> Boot]
    <3>1. PICK s \in stash[d] :
            \/ boot' = [boot EXCEPT ![d] = NewBoot(d, s)]
            \/ boot' = boot
      BY <1>1 DEF CommitBoot
    <3>2. NewBoot(d, s) \in Boot BY <1>0, StoredType
    <3>3. boot \in [Devices -> Boot] BY <1>0 DEF TypeOK
    <3> QED BY <3>1, <3>2, <3>3
  <2>2. pc' \in [Devices -> PCs] /\ op' \in [Devices -> Op]
    BY <1>0, <1>1, StopType, GotoType DEF CommitBoot, PCs, Committing
  <2> QED BY <1>0, <1>1, <2>1, <2>2 DEF CommitBoot, TypeOK
<1>2. CASE CommitSettings(d)
  <2>1. db' \in [Devices -> Db]
    <3>1. db[d] \in Db /\ boot[d].list \in List /\ db \in [Devices -> Db]
      BY <1>0 DEF TypeOK, Boot
    <3>2. [db[d] EXCEPT !.list = boot[d].list] \in Db BY <3>1 DEF Db
    <3>3. db' = [db EXCEPT ![d] = [db[d] EXCEPT !.list = boot[d].list]]
      BY <1>2, <3>1 DEF CommitSettings
    <3> QED BY <3>1, <3>2, <3>3
  <2>2. jobs' \in [Devices -> Seq(Job)]
    BY <1>0, <1>2, PublishingJobs DEF CommitSettings, TypeOK, RunInv, Rotating, Committing
  <2>3. pc' \in [Devices -> PCs] /\ op' \in [Devices -> Op]
    BY <1>0, <1>2, GotoType DEF CommitSettings, PCs, Committing, Publishing
  <2> QED BY <1>0, <1>2, <2>1, <2>2, <2>3 DEF CommitSettings, TypeOK
<1>3. CASE Load(d)
  <2>1. mem' \in [Devices -> SUBSET Memory] BY <1>0, <1>3, StoredType DEF Load, Loaded, TypeOK
  <2>2. pc' \in [Devices -> PCs] /\ op' \in [Devices -> Op]
    BY <1>0, <1>3, GotoType DEF Load, PCs, Publishing
  <2> QED BY <1>0, <1>3, <2>1, <2>2 DEF Load, TypeOK
<1>4. CASE CheckEpoch(d)
  <2>1. jobs' \in [Devices -> Seq(Job)]
    BY <1>0, <1>4, ClosedJobs DEF CheckEpoch, TypeOK, RunInv, Rotating, Publishing, Active
  <2>2. pc' \in [Devices -> PCs] /\ op' \in [Devices -> Op]
    <3>1. CASE meta.epoch = Newest(d).epoch
      <4>1. [op[d] EXCEPT !.seen = meta] \in Op BY <1>0 DEF TypeOK, Op
      <4>2. op' = [op EXCEPT ![d] = [op[d] EXCEPT !.seen = meta]] /\ pc' = [pc EXCEPT ![d] = "recovery"]
        BY <1>0, <1>4, <3>1 DEF CheckEpoch, TypeOK
      <4> QED BY <1>0, <4>1, <4>2 DEF TypeOK, PCs, Publishing
    <3>2. CASE meta.epoch # Newest(d).epoch
      BY <1>0, <1>4, <3>2, StopType DEF CheckEpoch
    <3> QED BY <3>1, <3>2
  <2> QED BY <1>0, <1>4, <2>1, <2>2 DEF CheckEpoch, TypeOK
<1>5. CASE WriteRecovery(d)
  <2>4. PICK s \in stash[d], w \in words[d] : slot' = [master |-> s.new, phrase |-> w]
    BY <1>5 DEF WriteRecovery
  <2>5. s.new \in Masters /\ w \in Phrases BY <1>0 DEF TypeOK, Stash
  <2>1. slot' \in Slot BY <2>4, <2>5 DEF Slot
  <2>2. op' \in [Devices -> Op]
    <3>1. op[d] \in Op /\ op \in [Devices -> Op] BY <1>0 DEF TypeOK
    <3>2. [op[d] EXCEPT !.slot = slot'] \in Op BY <2>1, <3>1 DEF Op
    <3>3. op' = [op EXCEPT ![d] = [op[d] EXCEPT !.slot = slot']] BY <1>5, <3>1 DEF WriteRecovery
    <3> QED BY <3>1, <3>2, <3>3
  <2>3. pc' \in [Devices -> PCs] BY <1>0, <1>5 DEF WriteRecovery, TypeOK, PCs, Publishing
  <2> QED BY <1>0, <1>5, <2>1, <2>2, <2>3 DEF WriteRecovery, TypeOK
<1>6. CASE WriteContent(d)
  <2>1. content' \in List
    <3>1. content \in List /\ db[d].list \in List BY <1>0 DEF TypeOK, Db
    <3>2. content' = content \/ content' = db[d].list BY <1>6 DEF WriteContent
    <3> QED BY <3>1, <3>2
  <2>2. pc' \in [Devices -> PCs] /\ op' \in [Devices -> Op]
    BY <1>0, <1>6, StopType, GotoType DEF WriteContent, PCs, Publishing
  <2> QED BY <1>0, <1>6, <2>1, <2>2 DEF WriteContent, TypeOK
<1>7. CASE WriteMeta(d)
  <2>1. jobs[d] # <<>> /\ op[d].seen = meta /\ Newest(d).epoch = meta.epoch
    BY <1>0, <1>7 DEF WriteMeta, RunInv, Rotating, Publishing
  <2>2. Newest(d) \in Live(d) /\ Newest(d) \in Job
    BY <1>0, <2>1, NewestJob DEF Live, TypeOK
  <2>3. Newest(d).new > meta.fp BY <1>0, <2>2 DEF DevInv, JobInv
  <2>4. db[d].list.keys \in SUBSET Key /\ Listed(db[d].list.keys)
    BY <1>0 DEF TypeOK, Db, List, DevInv, SyncInv
  <2>5. Latest(db[d].list.keys) \in Epochs BY <2>4, KeyEpochs
  <2>6. meta' = PublishedMeta(d) BY <1>7 DEF WriteMeta
  <2>7. meta'.epoch = meta.epoch + 1 /\ meta'.fp = Newest(d).new
    BY <2>1, <2>6 DEF PublishedMeta
  <2>8. meta.epoch <= meta.fp + 1 /\ meta \in Meta BY <1>0 DEF IInv, CloudInv, TypeOK
  <2>9. meta.epoch + 1 \in Epochs
    BY <2>2, <2>3, <2>8, RotationAssumption DEF Meta, Job, Epochs, Masters
  <2>12. Later(Latest(db[d].list.keys), op[d].seen.ce) \in Epochs
    BY <2>1, <2>5, <2>8 DEF Meta, Later
  <2>13. Newest(d).new \in Masters BY <2>2 DEF Job
  <2>10. meta' \in Meta
    BY <2>1, <2>6, <2>9, <2>12, <2>13 DEF PublishedMeta, Meta
  <2>11. pc' \in [Devices -> PCs] /\ op' \in [Devices -> Op]
    BY <1>0, <1>7, GotoType DEF WriteMeta, PCs, Finalizing
  <2> QED BY <1>0, <1>7, <2>10, <2>11 DEF WriteMeta, TypeOK
<1>8. CASE FinalizeSettings(d)
  <2>1. jobs[d] # <<>> /\ Newest(d).epoch + 1 <= meta.epoch
    BY <1>0, <1>8 DEF FinalizeSettings, RunInv, Rotating
  <2>2. Newest(d) \in Job BY <1>0, <2>1, NewestJob DEF TypeOK
  <2>3. Newest(d).epoch + 1 \in Epochs /\ Newest(d).new \in Masters /\ op[d].slot \in Slot
    BY <1>0, <2>1, <2>2, RotationAssumption DEF TypeOK, Meta, Job, Epochs, Op
  <2>4. db' \in [Devices -> Db]
    <3>1. [db[d] EXCEPT !.fp = Newest(d).new, !.epoch = Newest(d).epoch + 1,
                        !.rw = op[d].slot] \in Db
      <4>1. db[d] \in Db BY <1>0 DEF TypeOK
      <4> QED BY <2>3, <4>1 DEF Db
    <3>2. db' = [db EXCEPT ![d] = [db[d] EXCEPT !.fp = Newest(d).new,
                              !.epoch = Newest(d).epoch + 1, !.rw = op[d].slot]]
      BY <1>0, <1>8 DEF FinalizeSettings, TypeOK
    <3> QED BY <1>0, <3>1, <3>2 DEF TypeOK
  <2>5. pc' \in [Devices -> PCs] /\ op' \in [Devices -> Op]
    BY <1>0, <1>8, GotoType DEF FinalizeSettings, PCs, Finalizing
  <2> QED BY <1>0, <1>8, <2>4, <2>5 DEF FinalizeSettings, TypeOK
<1>9. CASE ClearStash(d)
  <2>1. pc' \in [Devices -> PCs] /\ op' \in [Devices -> Op]
    BY <1>0, <1>9, GotoType DEF ClearStash, PCs, Finalizing
  <2> QED BY <1>0, <1>9, <2>1 DEF ClearStash, TypeOK
<1>10. CASE MarkDone(d)
  <2>1. jobs' \in [Devices -> Seq(Job)]
    BY <1>0, <1>10, ClosedJobs DEF MarkDone, TypeOK, RunInv, Rotating, Active
  <2>2. pc' \in [Devices -> PCs] /\ op' \in [Devices -> Op]
    BY <1>0, <1>10, GotoType DEF MarkDone, PCs, Finalizing
  <2> QED BY <1>0, <1>10, <2>1, <2>2 DEF MarkDone, TypeOK
<1>11. CASE Return(d)
  <2>1. known' \subseteq Phrases BY <1>0, <1>11 DEF Return, TypeOK, Op, Slot
  <2>2. mem' \in [Devices -> SUBSET Memory]
    <3>1. {[m EXCEPT !.prompt = FALSE] : m \in mem[d]} \subseteq Memory
      <4> SUFFICES ASSUME NEW m \in mem[d] PROVE [m EXCEPT !.prompt = FALSE] \in Memory
        OBVIOUS
      <4>1. m \in Memory BY <1>0 DEF TypeOK
      <4> QED BY <4>1 DEF Memory
    <3>2. AsStored(d) \in Memory BY <1>0, StoredType
    <3> QED BY <1>0, <1>11, <3>1, <3>2 DEF Return, TypeOK
  <2>3. pc' \in [Devices -> PCs] /\ op' \in [Devices -> Op]
    BY <1>0, <1>11, StopType DEF Return
  <2> QED BY <1>0, <1>11, <2>1, <2>2, <2>3 DEF Return, TypeOK
<1>12. CASE PairIdentity(d)
  <2>1. PICK p \in Passwords :
          db' = [db EXCEPT ![d].pw = p, ![d].epoch = op[d].seen.epoch,
                           ![d].fp = op[d].list.under, ![d].rw = op[d].slot]
    BY <1>12 DEF PairIdentity
  <2>3. [db[d] EXCEPT !.pw = p, !.epoch = op[d].seen.epoch,
                      !.fp = op[d].list.under, !.rw = op[d].slot] \in Db
    <3>1. db[d] \in Db /\ op[d] \in Op BY <1>0 DEF TypeOK
    <3>2. op[d].seen.epoch \in Epochs /\ op[d].list.under \in Masters /\ op[d].slot \in Slot
      BY <3>1 DEF Op, Meta, List
    <3> QED BY <3>1, <3>2 DEF Db
  <2>4. db' = [db EXCEPT ![d] = [db[d] EXCEPT !.pw = p, !.epoch = op[d].seen.epoch,
                                   !.fp = op[d].list.under, !.rw = op[d].slot]]
    BY <1>0, <2>1 DEF TypeOK
  <2>5. db' \in [Devices -> Db] BY <1>0, <2>3, <2>4 DEF TypeOK
  <2>2. pc' \in [Devices -> PCs] /\ op' \in [Devices -> Op]
    BY <1>0, <1>12, GotoType DEF PairIdentity, PCs, Pairing
  <2> QED BY <1>0, <1>12, <2>2, <2>5 DEF PairIdentity, TypeOK
<1>13. CASE PairList(d)
  <2>1. db' \in [Devices -> Db]
    <3>1. db[d] \in Db /\ op[d].list \in List /\ db \in [Devices -> Db]
      BY <1>0 DEF TypeOK, Op
    <3>2. [db[d] EXCEPT !.list = op[d].list] \in Db BY <3>1 DEF Db
    <3>3. db' = [db EXCEPT ![d] = [db[d] EXCEPT !.list = op[d].list]]
      BY <1>13, <3>1 DEF PairList
    <3> QED BY <3>1, <3>2, <3>3
  <2>2. pc' \in [Devices -> PCs] /\ op' \in [Devices -> Op]
    BY <1>0, <1>13, GotoType DEF PairList, PCs, Pairing
  <2> QED BY <1>0, <1>13, <2>1, <2>2 DEF PairList, TypeOK
<1>14. CASE PairBoot(d)
  <2>1. boot' \in [Devices -> Boot]
    <3>1. boot[d] \in Boot /\ db[d] \in Db /\ op[d] \in Op /\ boot \in [Devices -> Boot]
      BY <1>0 DEF TypeOK
    <3>2. db[d].pw \in Passwords /\ op[d].list \in List /\ op[d].list.under \in Masters
          /\ op[d].slot \in Slot
      BY <3>1 DEF Db, Op, List
    <3>3. [pw |-> db[d].pw, master |-> op[d].list.under,
           list |-> op[d].list, rec |-> {op[d].slot}] \in Boot
      BY <3>2 DEF Boot
    <3>4. boot' = [boot EXCEPT ![d] = [pw |-> db[d].pw, master |-> op[d].list.under,
                                       list |-> op[d].list, rec |-> {op[d].slot}]]
      BY <1>14 DEF PairBoot
    <3> QED BY <3>1, <3>3, <3>4
  <2>2. pc' \in [Devices -> PCs] /\ op' \in [Devices -> Op]
    BY <1>0, <1>14, GotoType DEF PairBoot, PCs, Pairing
  <2> QED BY <1>0, <1>14, <2>1, <2>2 DEF PairBoot, TypeOK
<1>15. CASE PairAdopt(d)
  <2>1. mem' \in [Devices -> SUBSET Memory]
    BY <1>0, <1>15, StoredType DEF PairAdopt, Loaded, TypeOK
  <2>2. pc' \in [Devices -> PCs] /\ op' \in [Devices -> Op]
    BY <1>0, <1>15, GotoType DEF PairAdopt, PCs, Pairing
  <2> QED BY <1>0, <1>15, <2>1, <2>2 DEF PairAdopt, TypeOK
<1>16. CASE PairRecheck(d)
  <2>1. pc' \in [Devices -> PCs] /\ op' \in [Devices -> Op]
    BY <1>0, <1>16, GotoType, StopType DEF PairRecheck, PCs, Pairing
  <2> QED BY <1>0, <1>16, <2>1 DEF PairRecheck, TypeOK
<1>17. CASE PairBump(d)
  <2>1. pc' \in [Devices -> PCs] /\ op' \in [Devices -> Op]
    BY <1>0, <1>17, GotoType DEF PairBump, PCs, Pairing
  <2> QED BY <1>0, <1>17, <2>1 DEF PairBump, TypeOK, Op
<1>18. CASE PairClear(d)
  <2>1. db' \in [Devices -> Db] BY <1>0, <1>18 DEF PairClear, TypeOK, Db
  <2>2. pc' \in [Devices -> PCs] /\ op' \in [Devices -> Op]
    BY <1>0, <1>18, StopType DEF PairClear
  <2> QED BY <1>0, <1>18, <2>1, <2>2 DEF PairClear, TypeOK
<1>19. CASE PasswordBoot(d)
  <2>1. PICK m \in mem[d] : boot' = [boot EXCEPT ![d].pw = db[d].pw, ![d].master = m.master]
    BY <1>19 DEF PasswordBoot
  <2>3. [boot[d] EXCEPT !.pw = db[d].pw, !.master = m.master] \in Boot
    <3>1. boot[d] \in Boot /\ db[d] \in Db /\ m \in Memory BY <1>0 DEF TypeOK
    <3>2. db[d].pw \in Passwords /\ m.master \in Masters BY <3>1 DEF Db, Memory
    <3> QED BY <3>1, <3>2 DEF Boot
  <2>4. boot' = [boot EXCEPT ![d] = [boot[d] EXCEPT !.pw = db[d].pw, !.master = m.master]]
    BY <1>0, <2>1 DEF TypeOK
  <2>5. boot' \in [Devices -> Boot] BY <1>0, <2>3, <2>4 DEF TypeOK
  <2>2. pc' \in [Devices -> PCs] /\ op' \in [Devices -> Op]
    BY <1>0, <1>19, GotoType DEF PasswordBoot, PCs, Resetting
  <2> QED BY <1>0, <1>19, <2>2, <2>5 DEF PasswordBoot, TypeOK
<1>20. CASE KeepOffline(d)
  <2>1. pc' \in [Devices -> PCs] /\ op' \in [Devices -> Op]
    BY <1>0, <1>20, StopType DEF KeepOffline
  <2> QED BY <1>0, <1>20, <2>1 DEF KeepOffline, TypeOK
<1>21. CASE RecoverBoot(d)
  <2>1. boot' \in [Devices -> Boot]
    <3>1. [boot[d] EXCEPT !.pw = db[d].pw, !.master = boot[d].list.under] \in Boot
      <4>1. boot[d] \in Boot /\ db[d] \in Db BY <1>0 DEF TypeOK
      <4>2. db[d].pw \in Passwords /\ boot[d].list.under \in Masters BY <4>1 DEF Boot, Db, List
      <4> QED BY <4>1, <4>2 DEF Boot
    <3>2. boot' = [boot EXCEPT ![d] = [boot[d] EXCEPT !.pw = db[d].pw,
                                                      !.master = boot[d].list.under]]
      BY <1>0, <1>21 DEF RecoverBoot, TypeOK
    <3> QED BY <1>0, <3>1, <3>2 DEF TypeOK
  <2>2. mem' \in [Devices -> SUBSET Memory]
    BY <1>0, <1>21 DEF RecoverBoot, TypeOK, Boot, List, Memory
  <2>3. pc' \in [Devices -> PCs] /\ op' \in [Devices -> Op]
    BY <1>0, <1>21, StopType DEF RecoverBoot
  <2> QED BY <1>0, <1>21, <2>1, <2>2, <2>3 DEF RecoverBoot, TypeOK
<1> QED
  BY <1>1, <1>2, <1>3, <1>4, <1>5, <1>6, <1>7, <1>8, <1>9, <1>10, <1>11, <1>12, 
     <1>13, <1>14, <1>15, <1>16, <1>17, <1>18, <1>19, <1>20, <1>21 DEF Step

\* A new key fits the types and is the newest one.
LEMMA NewKey ==
  ASSUME IInv, NEW d \in Devices, minted < MaxMasters
  PROVE  LET k == [epoch |-> Later(Latest(db[d].list.keys), meta.ce) + 1, key |-> minted + 1]
         IN /\ Extended(db[d].list.keys, minted + 1) = db[d].list.keys \cup {k}
            /\ k \in Key /\ k.epoch > meta.ce /\ k.epoch <= minted + 2
            /\ \A j \in db[d].list.keys : j.epoch < k.epoch
<1>1. db[d].list.keys \in SUBSET Key /\ Listed(db[d].list.keys)
  BY DEF IInv, TypeOK, Db, List, DevInv, SyncInv
<1>2. /\ Latest(db[d].list.keys) \in Epochs /\ Latest(db[d].list.keys) <= minted + 1
      /\ \A j \in db[d].list.keys : j.epoch \in Epochs /\ j.epoch <= Latest(db[d].list.keys)
  BY <1>1, KeyEpochs, LatestIsMax DEF Listed, Key
<1>3. meta.ce \in Epochs /\ meta.ce <= minted + 1 /\ minted \in Masters
  BY DEF IInv, CloudInv, TypeOK, Meta
<1> QED BY <1>2, <1>3, RotationAssumption DEF Extended, Later, Key, Epochs, Masters

LEMMA RotateType ==
  ASSUME IInv, NEW d \in Devices, NEW kind \in {"rotate", "reset"}, Rotate(d, kind)
  PROVE  TypeOK'
<1> USE DEF Cloud
<1>0. TypeOK BY DEF IInv
<1>1. PICK m \in mem[d] :
        /\ Begin(d, "boot", As(kind)) /\ minted < MaxMasters /\ minted' = minted + 1
        /\ jobs' = [jobs EXCEPT ![d] =
             Append(@, [state |-> "commit_local", epoch |-> meta.epoch, new |-> minted + 1])]
        /\ stash' = [stash EXCEPT ![d] =
             {[old |-> m.master, new |-> minted + 1, pw |-> db[d].pw]}]
        /\ words' = [words EXCEPT ![d] = {IF kind = "reset" THEN minted + 1 ELSE slot.phrase}]
        /\ db' = [db EXCEPT ![d].list.keys = Extended(@, minted + 1)]
        /\ UNCHANGED <<Cloud, boot, mem, known, faults>>
  BY DEF Rotate
<1>2. minted + 1 \in Masters BY <1>0, <1>1, RotationAssumption DEF TypeOK, Masters
<1>3. pc' \in [Devices -> PCs] /\ op' \in [Devices -> Op]
  BY <1>0, <1>1, AsType, BeginType DEF PCs, Committing
<1>4. jobs' \in [Devices -> Seq(Job)]
  <2>1. [state |-> "commit_local", epoch |-> meta.epoch, new |-> minted + 1] \in Job
    BY <1>0, <1>2 DEF TypeOK, Meta, Job
  <2> QED BY <1>0, <1>1, <2>1, AppendedJobs DEF TypeOK
<1>5. stash' \in [Devices -> SUBSET Stash]
  <2>1. [old |-> m.master, new |-> minted + 1, pw |-> db[d].pw] \in Stash
    BY <1>0, <1>2 DEF TypeOK, Stash, Memory, Db
  <2> QED BY <1>0, <1>1, <2>1 DEF TypeOK
<1>6. words' \in [Devices -> SUBSET Phrases]
  BY <1>0, <1>1, <1>2 DEF TypeOK, Slot, Phrases
<1>7. db' \in [Devices -> Db]
  <2>1. Extended(db[d].list.keys, minted + 1) \in SUBSET Key
    <3> DEFINE k == [epoch |-> Later(Latest(db[d].list.keys), meta.ce) + 1, key |-> minted + 1]
    <3>1. Extended(db[d].list.keys, minted + 1) = db[d].list.keys \cup {k} /\ k \in Key
      BY <1>1, NewKey
    <3>2. db[d].list.keys \in SUBSET Key BY <1>0 DEF TypeOK, Db, List
    <3> QED BY <3>1, <3>2
  <2>2. [db[d] EXCEPT !.list.keys = Extended(@, minted + 1)] \in Db
    <3>1. db[d] \in Db /\ db[d].list \in List BY <1>0 DEF TypeOK, Db
    <3>2. [db[d].list EXCEPT !.keys = Extended(@, minted + 1)] \in List
      BY <2>1, <3>1 DEF List
    <3>3. [db[d] EXCEPT !.list.keys = Extended(@, minted + 1)] =
          [db[d] EXCEPT !.list = [db[d].list EXCEPT !.keys = Extended(@, minted + 1)]]
      BY <3>1 DEF Db
    <3> HIDE DEF List
    <3> QED BY <3>1, <3>2, <3>3 DEF Db
  <2>3. db' = [db EXCEPT ![d] = [db[d] EXCEPT !.list.keys = Extended(@, minted + 1)]]
    BY <1>0, <1>1 DEF TypeOK
  <2> QED BY <1>0, <2>2, <2>3 DEF TypeOK
<1> QED BY <1>0, <1>1, <1>2, <1>3, <1>4, <1>5, <1>6, <1>7 DEF TypeOK

\* Writing one row of the settings.
LEMMA FlagType ==
  ASSUME TypeOK, NEW d \in Devices
  PROVE  /\ \A b \in BOOLEAN : [db EXCEPT ![d].flag = b] \in [Devices -> Db]
         /\ \A b \in BOOLEAN : [db EXCEPT ![d].dirty = b] \in [Devices -> Db]
         /\ \A p \in Passwords : [db EXCEPT ![d].pw = p] \in [Devices -> Db]
<1>1. db[d] \in Db BY DEF TypeOK
<1>2. /\ \A b \in BOOLEAN : [db[d] EXCEPT !.flag = b] \in Db
      /\ \A b \in BOOLEAN : [db[d] EXCEPT !.dirty = b] \in Db
      /\ \A p \in Passwords : [db[d] EXCEPT !.pw = p] \in Db
  BY <1>1 DEF Db
<1> QED BY <1>2 DEF TypeOK

LEMMA CommandType ==
  ASSUME IInv, NEW d \in Devices, Command(d)
  PROVE  TypeOK'
<1>0. TypeOK BY DEF IInv
<1> USE DEF Cloud, Local
<1>1. CASE Rotate(d, "rotate") \/ Rotate(d, "reset") BY <1>1, RotateType
<1>2. CASE ResumeFinalize(d)
  <2>1. [As("finalize") EXCEPT !.slot = db[d].rw] \in Op
    <3>1. As("finalize") \in Op /\ db[d].rw \in Slot BY <1>0, AsType DEF TypeOK, Db
    <3> QED BY <3>1 DEF Op
  <2>2. pc' \in [Devices -> PCs] /\ op' \in [Devices -> Op]
    BY <1>0, <1>2, <2>1, BeginType DEF ResumeFinalize, PCs, Finalizing
  <2> QED BY <1>0, <1>2, <2>2 DEF ResumeFinalize, TypeOK
<1>3. CASE Resume(d)
  <2>1. pc' \in [Devices -> PCs] /\ op' \in [Devices -> Op]
    BY <1>0, <1>3, AsType, BeginType DEF Resume, PCs, Committing, Publishing
  <2> QED BY <1>0, <1>3, <2>1 DEF Resume, TypeOK
<1>4. CASE Unlock(d)
  <2>1. jobs' \in [Devices -> Seq(Job)]
    BY <1>0, <1>4, ClosedJobs DEF Unlock, Orphaned, TypeOK
  <2>2. mem' \in [Devices -> SUBSET Memory]
    <3>1. [master |-> boot[d].master, keys |-> boot[d].list.keys,
           prompt |-> jobs'[d] # <<>>] \in Memory
      BY <1>0 DEF TypeOK, Boot, List, Memory
    <3> QED BY <1>0, <1>4, <3>1 DEF Unlock, TypeOK
  <2>3. boot' \in [Devices -> Boot]
    <3>1. boot[d] \in Boot /\ db[d].rw \in Slot BY <1>0 DEF TypeOK, Db
    <3>2. [boot[d] EXCEPT !.rec = {db[d].rw}] \in Boot BY <3>1 DEF Boot
    <3>3. boot' = [boot EXCEPT ![d] = [boot[d] EXCEPT !.rec = {db[d].rw}]] \/ boot' = boot
      BY <1>0, <1>4 DEF Unlock, TypeOK
    <3> QED BY <1>0, <3>2, <3>3 DEF TypeOK
  <2> QED BY <1>0, <1>4, <2>1, <2>2, <2>3 DEF Unlock, TypeOK
<1>5. CASE Lock(d) BY <1>0, <1>5 DEF Lock, TypeOK
<1>6. CASE Detect(d)
  <2>1. db' \in [Devices -> Db] BY <1>0, <1>6, FlagType DEF Detect, TypeOK
  <2> QED BY <1>0, <1>6, <2>1 DEF Detect, TypeOK
<1>7. CASE Recheck(d)
  <2>1. db' \in [Devices -> Db] BY <1>0, <1>7, FlagType DEF Recheck, TypeOK
  <2> QED BY <1>0, <1>7, <2>1 DEF Recheck, TypeOK
<1>8. CASE RePair(d)
  <2>1. [kind |-> "repair", seen |-> meta, slot |-> slot, list |-> content] \in Op
    BY <1>0 DEF TypeOK, Op
  <2>2. pc' \in [Devices -> PCs] /\ op' \in [Devices -> Op]
    BY <1>0, <1>8, <2>1, BeginType DEF RePair, PCs, Pairing
  <2> QED BY <1>0, <1>8, <2>2 DEF RePair, TypeOK
<1>9. CASE ChangePassword(d)
  <2>1. db' \in [Devices -> Db] BY <1>0, <1>9, FlagType DEF ChangePassword, TypeOK
  <2>2. pc' \in [Devices -> PCs] /\ op' \in [Devices -> Op]
    BY <1>0, <1>9, AsType, BeginType DEF ChangePassword, PCs, Resetting
  <2> QED BY <1>0, <1>9, <2>1, <2>2 DEF ChangePassword, TypeOK
<1>10. CASE Recover(d)
  <2>1. db' \in [Devices -> Db] BY <1>0, <1>10, FlagType DEF Recover, TypeOK
  <2>2. pc' \in [Devices -> PCs] BY <1>0, <1>10 DEF Recover, TypeOK, PCs, Resetting
  <2> QED BY <1>0, <1>10, <2>1, <2>2 DEF Recover, TypeOK
<1> QED
  BY <1>1, <1>2, <1>3, <1>4, <1>5, <1>6, <1>7, <1>8, <1>9, <1>10 DEF Command

LEMMA FaultType ==
  ASSUME IInv, NEW d \in Devices, Fail(d) \/ Crash(d)
  PROVE  TypeOK'
<1>0. TypeOK BY DEF IInv
<1> USE DEF Cloud, Local
<1>1. pc' \in [Devices -> PCs] /\ op' \in [Devices -> Op]
  BY <1>0, StopType DEF Fail, Crash
<1>2. faults' \in 0..MaxFaults BY <1>0, RotationAssumption DEF TypeOK, Fail, Crash
<1>3. db' \in [Devices -> Db] /\ mem' \in [Devices -> SUBSET Memory]
  BY <1>0, FlagType DEF TypeOK, Fail, Crash
<1> QED BY <1>0, <1>1, <1>2, <1>3 DEF Fail, Crash, TypeOK

-----------------------------------------------------------------------------
(* What a step leaves alone *)

Move(d) == Step(d) \/ Command(d) \/ Fail(d) \/ (pc[d] \notin Pairing /\ Crash(d))

\* The state of another device.
Same(e) ==
  /\ boot'[e] = boot[e] /\ db'[e] = db[e] /\ jobs'[e] = jobs[e]
  /\ stash'[e] = stash[e] /\ words'[e] = words[e] /\ mem'[e] = mem[e]
  /\ pc'[e] = pc[e] /\ op'[e] = op[e]

\* A step of one device writes nothing of another.
LEMMA OthersStay ==
  ASSUME NEW d \in Devices, NEW e \in Devices, e # d, TypeOK, Move(d)
  PROVE  Same(e)
<1> USE DEF Same, Cloud, Local, TypeOK, Goto, Stop, Begin, Closed, Loaded
<1>1. CASE Step(d)
  <2>1. CASE CommitBoot(d) \/ CommitSettings(d) \/ Load(d) \/ CheckEpoch(d)
    BY <2>1 DEF CommitBoot, CommitSettings, Load, CheckEpoch
  <2>2. CASE WriteRecovery(d) \/ WriteContent(d) \/ WriteMeta(d) \/ FinalizeSettings(d)
    BY <2>2 DEF WriteRecovery, WriteContent, WriteMeta, FinalizeSettings
  <2>3. CASE ClearStash(d) \/ MarkDone(d) \/ Return(d) \/ PairIdentity(d) \/ PairList(d)
    BY <2>3 DEF ClearStash, MarkDone, Return, PairIdentity, PairList
  <2>4. CASE PairBoot(d) \/ PairAdopt(d) \/ PairRecheck(d) \/ PairBump(d) \/ PairClear(d)
    BY <2>4 DEF PairBoot, PairAdopt, PairRecheck, PairBump, PairClear
  <2>5. CASE PasswordBoot(d) \/ KeepOffline(d) \/ RecoverBoot(d)
    BY <2>5 DEF PasswordBoot, KeepOffline, RecoverBoot
  <2> QED BY <1>1, <2>1, <2>2, <2>3, <2>4, <2>5 DEF Step
<1>2. CASE Command(d)
  <2>1. CASE Rotate(d, "rotate") \/ Rotate(d, "reset") BY <2>1 DEF Rotate
  <2>2. CASE ResumeFinalize(d) \/ Resume(d) \/ Unlock(d) \/ Lock(d)
    BY <2>2 DEF ResumeFinalize, Resume, Unlock, Lock
  <2>3. CASE Detect(d) \/ Recheck(d) \/ RePair(d) \/ ChangePassword(d) \/ Recover(d)
    BY <2>3 DEF Detect, Recheck, RePair, ChangePassword, Recover
  <2> QED BY <1>2, <2>1, <2>2, <2>3 DEF Command
<1>3. CASE Fail(d) \/ Crash(d) BY <1>3 DEF Fail, Crash
<1> QED BY <1>1, <1>2, <1>3 DEF Move

\* A step that changes neither _meta.json nor the committed keys.
Calm == meta' = meta /\ Committed' = Committed /\ minted' \in Nat /\ minted <= minted'

\* Under such a step the invariant of every other device holds on.
LEMMA OtherCalm ==
  ASSUME IInv, NEW d \in Devices, NEW e \in Devices, e # d, Same(e), Calm,
         content' = content \/ pc[d] = "content"
  PROVE  DevInv(e)'
<1>0. DevInv(e) /\ TypeOK BY DEF IInv
<1>1. JobsOf(e)' = JobsOf(e) BY DEF JobsOf, Same
<1>2. Live(e)' = Live(e) BY <1>1 DEF Live, Calm
<1>3. CommittedMasters' = CommittedMasters BY DEF Calm, CommittedMasters
<1>4. JobInv(e)'
  <2>1. JobInv(e) BY <1>0 DEF DevInv
  <2>2. \A j \in JobsOf(e) : j.new \in Nat BY <1>0, JobTypes
  <2> QED BY <1>0, <1>1, <1>2, <2>1, <2>2 DEF JobInv, Calm, Same, Extends, TypeOK, Masters
<1>5. SyncInv(e)'
  <2>1. SyncInv(e) BY <1>0 DEF DevInv
  <2>2. KeyBound(db[e].list.keys, minted)'
    BY <1>0, <2>1 DEF SyncInv, Listed, KeyBound, Calm, Same, TypeOK, Db, List, Key, Masters
  <2> QED BY <1>3, <2>1, <2>2 DEF SyncInv, Listed, HasLatest, Calm, Same, Extends
<1>6. PairInv(e)'
  <2>1. PairInv(e) BY <1>0 DEF DevInv
  <2>2. pc[e] \in Pairing => KeyBound(op[e].list.keys, minted)'
    BY <1>0, <2>1 DEF PairInv, Listed, KeyBound, Calm, Same, TypeOK, Op, List, Key, Masters
  <2> QED BY <1>1, <1>3, <2>1, <2>2 DEF PairInv, Listed, HasLatest, Calm, Same, Extends
<1>7. RunInv(e)'
  <2>1. RunInv(e) BY <1>0 DEF DevInv
  <2>2. pc[e] = "meta" => content' = content
    BY DEF IInv, Exclusive, Window
  <2> QED BY <1>2, <1>3, <2>1, <2>2 DEF RunInv, Calm, Same, Newest
<1> QED BY <1>4, <1>5, <1>6, <1>7 DEF DevInv

\* The jobs of d are jobs it had; their state may differ.
JobsKept(d) ==
  \A i \in JobsOf(d)' : \E j \in JobsOf(d) : i.new = j.new /\ i.epoch = j.epoch

\* On the device itself, when the keys and the epoch it knows stay the same.
LEMMA JobCalm ==
  ASSUME IInv, NEW d \in Devices, Calm, JobsKept(d),
         db'[d].fp = db[d].fp, db'[d].list.keys = db[d].list.keys,
         db'[d].flag => db[d].flag \/ Live(d) = {}
  PROVE  JobInv(d)'
<1>0. JobInv(d) /\ TypeOK BY DEF IInv, DevInv
<1>1. ASSUME NEW i \in JobsOf(d)'
      PROVE  /\ i.new <= minted' /\ i.epoch <= meta'.epoch
             /\ i.new = meta'.fp => i.epoch + 1 = meta'.epoch /\ Extends(db[d].list.keys)'
  <2>1. PICK j \in JobsOf(d) : i.new = j.new /\ i.epoch = j.epoch BY <1>1 DEF JobsKept
  <2>2. j.new \in Nat BY <1>0, JobTypes
  <2> QED BY <1>0, <2>1, <2>2 DEF JobInv, Calm, Extends, TypeOK, Masters
<1>2. ASSUME NEW i \in Live(d)'
      PROVE  /\ db'[d].fp = meta'.fp /\ ~db'[d].flag /\ i.new > meta'.fp
             /\ \E k \in db'[d].list.keys : k.epoch > meta'.ce /\ k.key = i.new
  <2>1. i \in JobsOf(d)' /\ i.epoch = meta.epoch BY <1>2 DEF Live, Calm
  <2>2. PICK j \in JobsOf(d) : i.new = j.new /\ i.epoch = j.epoch BY <2>1 DEF JobsKept
  <2>3. j \in Live(d) BY <2>1, <2>2 DEF Live
  <2> QED BY <1>0, <2>2, <2>3 DEF JobInv, Calm
<1> QED BY <1>1, <1>2 DEF JobInv

LEMMA SyncCalm ==
  ASSUME IInv, NEW d \in Devices, Calm,
         db'[d].fp = db[d].fp, db'[d].epoch = db[d].epoch, db'[d].list.keys = db[d].list.keys,
         pc[d] = "list" => pc'[d] = "list"
  PROVE  SyncInv(d)'
<1>0. SyncInv(d) /\ TypeOK BY DEF IInv, DevInv
<1>1. CommittedMasters' = CommittedMasters BY DEF Calm, CommittedMasters
<1>2. KeyBound(db[d].list.keys, minted)'
  BY <1>0 DEF SyncInv, Listed, KeyBound, Calm, TypeOK, Db, List, Key, Masters
<1> QED BY <1>0, <1>1, <1>2 DEF SyncInv, Listed, HasLatest, Calm, Extends

\* What most steps come to.
LEMMA Routine ==
  ASSUME IInv, NEW d \in Devices, Calm, JobsKept(d), RunInv(d)',
         db'[d].fp = db[d].fp, db'[d].epoch = db[d].epoch, db'[d].list.keys = db[d].list.keys,
         db'[d].flag => db[d].flag, pc[d] # "list", pc'[d] \notin Pairing
  PROVE  DevInv(d)'
BY JobCalm, SyncCalm DEF DevInv, PairInv

-----------------------------------------------------------------------------
(* The device that takes the step *)

\* Jobs, keys and epochs unchanged.
LEMMA SameJobs ==
  ASSUME NEW d \in Devices, jobs' = jobs
  PROVE  JobsKept(d) /\ JobsOf(d)' = JobsOf(d) /\ Newest(d)' = Newest(d)
BY DEF JobsKept, JobsOf, Newest

LEMMA CalmCloud ==
  ASSUME TypeOK, meta' = meta, content' = content, minted' = minted
  PROVE  Calm
BY DEF Calm, Committed, TypeOK, Masters

LEMMA CommitInv ==
  ASSUME IInv, NEW d \in Devices, CommitBoot(d) \/ CommitSettings(d) \/ Load(d)
  PROVE  DevInv(d)' /\ Calm /\ content' = content /\ JobsKept(d)
<1>0. TypeOK /\ RunInv(d) BY DEF IInv, DevInv
<1> USE DEF Cloud
<1>1. Calm /\ content' = content
  BY <1>0, CalmCloud DEF CommitBoot, CommitSettings, Load
<1>2. CASE CommitBoot(d)
  <2>1. JobsKept(d) BY <1>2, SameJobs DEF CommitBoot
  <2>2. pc'[d] \in {"tx", "idle"} /\ (pc'[d] = "tx" => boot'[d].list.keys = db'[d].list.keys)
    BY <1>0, <1>2 DEF CommitBoot, Goto, Stop, NewBoot, TypeOK
  <2>3. RunInv(d)' BY <1>0, <1>2, <2>2
    DEF CommitBoot, RunInv, Rotating, Committing, Publishing, Uploading
  <2> QED BY <1>0, <1>1, <1>2, <2>1, <2>2, <2>3, Routine DEF CommitBoot, Pairing
<1>3. CASE CommitSettings(d)
  <2>1. JobsKept(d) /\ jobs'[d] # <<>>
    BY <1>0, <1>3, PublishingJobs
       DEF JobsKept, CommitSettings, TypeOK, RunInv, Rotating, Committing
  <2>2. pc'[d] \in {"check", "load"} BY <1>0, <1>3 DEF CommitSettings, Goto, TypeOK
  <2>3. RunInv(d)' BY <2>1, <2>2 DEF RunInv, Rotating, Committing, Publishing, Uploading
  <2>4. db'[d] = [db[d] EXCEPT !.list = boot[d].list] /\ boot[d].list.keys = db[d].list.keys
    BY <1>0, <1>3 DEF CommitSettings, TypeOK, RunInv
  <2>5. db[d] \in Db BY <1>0 DEF TypeOK
  <2>6. /\ db'[d].fp = db[d].fp /\ db'[d].epoch = db[d].epoch /\ db'[d].flag = db[d].flag
        /\ db'[d].list.keys = db[d].list.keys
    BY <2>4, <2>5 DEF Db
  <2>7. pc[d] = "tx" BY <1>3 DEF CommitSettings
  <2> QED BY <1>1, <2>1, <2>2, <2>3, <2>6, <2>7, Routine DEF Pairing
<1>4. CASE Load(d)
  <2>1. JobsKept(d) BY <1>4, SameJobs DEF Load
  <2>2. pc'[d] = "check" /\ pc[d] = "load" BY <1>0, <1>4 DEF Load, Goto, TypeOK
  <2>3. RunInv(d)'
    BY <1>0, <1>4, <2>2 DEF Load, RunInv, Rotating, Committing, Publishing, Uploading
  <2> QED BY <1>1, <1>4, <2>1, <2>2, <2>3, Routine DEF Load, Pairing
<1> QED BY <1>1, <1>2, <1>3, <1>4

LEMMA CheckInv ==
  ASSUME IInv, NEW d \in Devices, CheckEpoch(d) \/ WriteRecovery(d)
  PROVE  DevInv(d)' /\ Calm /\ content' = content /\ JobsKept(d)
<1>0. TypeOK /\ RunInv(d) BY DEF IInv, DevInv
<1> USE DEF Cloud, Local
<1>1. Calm /\ content' = content /\ db' = db
  BY <1>0, CalmCloud DEF CheckEpoch, WriteRecovery
<1>2. CASE CheckEpoch(d) /\ meta.epoch = Newest(d).epoch
  <2>1. JobsKept(d) /\ Newest(d)' = Newest(d) BY <1>2, SameJobs DEF CheckEpoch
  <2>2. pc[d] = "check" /\ pc'[d] = "recovery" /\ op'[d].seen = meta
    BY <1>0, <1>2 DEF CheckEpoch, TypeOK, Op
  <2>3. RunInv(d)'
    BY <1>0, <1>1, <1>2, <2>1, <2>2
       DEF CheckEpoch, RunInv, Rotating, Committing, Publishing, Uploading, Calm
  <2> QED BY <1>1, <2>1, <2>2, <2>3, Routine DEF Pairing
<1>3. CASE CheckEpoch(d) /\ meta.epoch # Newest(d).epoch
  <2>1. JobsKept(d)
    BY <1>0, <1>3, ClosedJobs
       DEF JobsKept, CheckEpoch, TypeOK, RunInv, Rotating, Publishing, Active
  <2>2. pc[d] = "check" /\ pc'[d] = "idle" BY <1>0, <1>3 DEF CheckEpoch, Stop, TypeOK
  <2>3. RunInv(d)' BY <2>2 DEF RunInv, Rotating, Committing, Publishing, Uploading
  <2> QED BY <1>1, <2>1, <2>2, <2>3, Routine DEF Pairing
<1>4. CASE WriteRecovery(d)
  <2>1. JobsKept(d) /\ Newest(d)' = Newest(d) BY <1>4, SameJobs DEF WriteRecovery
  <2>2. pc[d] = "recovery" /\ pc'[d] = "content" /\ op'[d].seen = op[d].seen
    BY <1>0, <1>4 DEF WriteRecovery, TypeOK, Op
  <2>3. RunInv(d)'
    BY <1>0, <1>1, <1>4, <2>1, <2>2
       DEF WriteRecovery, RunInv, Rotating, Committing, Publishing, Uploading, Calm
  <2> QED BY <1>1, <2>1, <2>2, <2>3, Routine DEF Pairing
<1> QED BY <1>1, <1>2, <1>3, <1>4

\* A device that writes to the cloud has the committed keys and its own on top.
LEMMA Publisher ==
  ASSUME IInv, NEW d \in Devices, pc[d] \in {"recovery", "content", "meta"}
  PROVE  /\ jobs[d] # <<>> /\ Newest(d) \in Live(d) /\ Newest(d) \in Job
         /\ op[d].seen = meta /\ db[d].list.keys \in SUBSET Key
         /\ Listed(db[d].list.keys) /\ Extends(db[d].list.keys)
         /\ Latest(db[d].list.keys) \in Epochs /\ Latest(db[d].list.keys) > meta.ce
         /\ Latest(db[d].list.keys) <= minted + 1
         /\ \A k \in db[d].list.keys : k.epoch <= Latest(db[d].list.keys)
         /\ \E k \in db[d].list.keys : k.epoch > meta.ce /\ k.key = Newest(d).new
<1>0. TypeOK /\ RunInv(d) /\ JobInv(d) /\ SyncInv(d) BY DEF IInv, DevInv
<1>1. jobs[d] # <<>> /\ op[d].seen = meta /\ Newest(d).epoch = meta.epoch
  BY <1>0 DEF RunInv, Rotating, Publishing
<1>2. Newest(d) \in Live(d) /\ Newest(d) \in Job BY <1>0, <1>1, NewestJob DEF Live, TypeOK
<1>3. db[d].list.keys \in SUBSET Key BY <1>0 DEF TypeOK, Db, List
<1>4. Listed(db[d].list.keys) BY <1>0 DEF SyncInv
<1>5. db[d].fp = meta.fp BY <1>0, <1>2 DEF JobInv
<1>6. Extends(db[d].list.keys) BY <1>0, <1>5 DEF SyncInv
<1>7. PICK k \in db[d].list.keys : k.epoch > meta.ce /\ k.key = Newest(d).new
  BY <1>0, <1>2 DEF JobInv
<1>8. /\ Latest(db[d].list.keys) \in Epochs /\ Latest(db[d].list.keys) <= minted + 1
      /\ \A j \in db[d].list.keys : j.epoch <= Latest(db[d].list.keys)
  BY <1>3, <1>4, KeyEpochs, LatestIsMax DEF Listed
<1>9. k.epoch \in Nat /\ meta.ce \in Nat
  BY <1>0, <1>3, RotationAssumption DEF Key, Epochs, TypeOK, Meta
<1>10. Latest(db[d].list.keys) > meta.ce
  BY <1>7, <1>8, <1>9, RotationAssumption DEF Epochs
<1> QED BY <1>1, <1>2, <1>3, <1>4, <1>6, <1>7, <1>8, <1>10

LEMMA ContentInv ==
  ASSUME IInv, NEW d \in Devices, WriteContent(d)
  PROVE  DevInv(d)' /\ Calm /\ CloudInv' /\ JobsKept(d)
<1>0. TypeOK /\ RunInv(d) /\ CloudInv BY DEF IInv, DevInv
<1> USE DEF Cloud, Local
<1>1. meta' = meta /\ minted' = minted /\ db' = db /\ jobs' = jobs /\ pc[d] = "content"
  BY DEF WriteContent
<1>2. JobsKept(d) /\ Newest(d)' = Newest(d) BY <1>1, SameJobs
<1>3. op[d].seen = meta /\ Extends(db[d].list.keys) /\ Listed(db[d].list.keys)
  BY <1>1, Publisher
<1>4. content' = content \/ content' = db[d].list BY DEF WriteContent
<1>5. Committed' = Committed
  BY <1>0, <1>1, <1>3, <1>4 DEF Extends, Over, Committed
<1>6. Calm BY <1>0, <1>1, <1>5 DEF Calm, TypeOK, Masters
<1>7. CloudInv'
  BY <1>0, <1>1, <1>3, <1>4, <1>5
     DEF CloudInv, Extends, Listed, HasLatest, KeyBound, CommittedMasters
<1>8. op[d].seen.ce = meta.ce /\ Latest(db[d].list.keys) > meta.ce BY <1>1, Publisher
<1>9. \/ pc'[d] = "idle"
      \/ pc'[d] = "meta" /\ content' = db[d].list /\ op' = op
  BY <1>0, <1>1, <1>8 DEF WriteContent, Goto, Stop, TypeOK
<1>10. RunInv(d)'
  BY <1>0, <1>1, <1>2, <1>3, <1>9
     DEF RunInv, Rotating, Committing, Publishing, Uploading
<1> QED BY <1>1, <1>2, <1>6, <1>7, <1>9, <1>10, Routine DEF Pairing

\* The keys of the rotation that commits become the committed ones.
LEMMA MetaCommits ==
  ASSUME IInv, NEW d \in Devices, WriteMeta(d)
  PROVE  /\ meta'.epoch = meta.epoch + 1 /\ meta'.fp = Newest(d).new
         /\ meta'.ce = Latest(db[d].list.keys)
         /\ Committed' = db[d].list.keys /\ Committed \subseteq Committed'
         /\ meta'.fp \notin CommittedMasters /\ meta'.fp \in CommittedMasters'
         /\ Newest(d) \in JobsOf(d) /\ Newest(d).epoch = meta.epoch
         /\ \A e \in Devices : \A j \in JobsOf(e) :
              j.new = meta'.fp => e = d /\ j.epoch = meta.epoch
<1>0. TypeOK /\ RunInv(d) BY DEF IInv, DevInv
<1>1. pc[d] = "meta" /\ content' = content /\ db' = db /\ meta' = PublishedMeta(d)
  BY DEF WriteMeta, Local
<1>2. content.keys = db[d].list.keys BY <1>0, <1>1 DEF RunInv
<1>3. op[d].seen = meta /\ Newest(d) \in Live(d) /\ Latest(db[d].list.keys) > meta.ce
  BY <1>1, Publisher
<1>4. Newest(d) \in JobsOf(d) /\ Newest(d).epoch = meta.epoch BY <1>3 DEF Live
<1>5. /\ meta'.epoch = meta.epoch + 1 /\ meta'.fp = Newest(d).new
      /\ meta'.ce = Later(Latest(db[d].list.keys), op[d].seen.ce)
  BY <1>1, <1>4 DEF PublishedMeta
<1>6. meta'.ce = Latest(db[d].list.keys) BY <1>3, <1>5 DEF Later
<1>7. Committed' = db[d].list.keys
  <2>1. \A k \in db[d].list.keys : k.epoch <= Latest(db[d].list.keys) BY <1>1, Publisher
  <2> QED BY <1>1, <1>2, <1>6, <2>1 DEF Committed
<1>8. Over(db[d].list.keys, meta.ce, Committed) BY <1>1, Publisher DEF Extends
<1>9. PICK k \in db[d].list.keys : k.epoch > meta.ce /\ k.key = Newest(d).new
  BY <1>1, Publisher
<1>10. meta'.fp \notin CommittedMasters BY <1>5, <1>8, <1>9 DEF Over, CommittedMasters
<1>11. meta'.fp \in CommittedMasters' BY <1>5, <1>7, <1>9 DEF CommittedMasters
<1>12. \A e \in Devices : \A j \in JobsOf(e) :
         j.new = meta'.fp => e = d /\ j.epoch = meta.epoch
  <2> SUFFICES ASSUME NEW e \in Devices, NEW j \in JobsOf(e), j.new = Newest(d).new
               PROVE  e = d /\ j.epoch = meta.epoch
    BY <1>5
  <2>1. Minting(e, d) BY DEF IInv
  <2> QED BY <1>4, <2>1 DEF Minting
<1> QED
  BY <1>4, <1>5, <1>6, <1>7, <1>8, <1>10, <1>11, <1>12 DEF Over

LEMMA MetaInv ==
  ASSUME IInv, NEW d \in Devices, WriteMeta(d)
  PROVE  /\ CloudInv' /\ JobsKept(d)
         /\ \A e \in Devices : DevInv(e)'
<1>0. TypeOK /\ CloudInv /\ DevInv(d) BY DEF IInv
<1> USE DEF Cloud, Local
<1>1. /\ pc[d] = "meta" /\ content' = content /\ minted' = minted /\ db' = db
      /\ jobs' = jobs /\ op' = op /\ pc' = [pc EXCEPT ![d] = "settings"]
  BY DEF WriteMeta, Goto
<1>2. /\ meta'.epoch = meta.epoch + 1 /\ meta'.fp = Newest(d).new
      /\ meta'.ce = Latest(db[d].list.keys)
      /\ Committed' = db[d].list.keys /\ Committed \subseteq Committed'
      /\ meta'.fp \notin CommittedMasters /\ meta'.fp \in CommittedMasters'
      /\ Newest(d) \in JobsOf(d) /\ Newest(d).epoch = meta.epoch
      /\ \A e \in Devices : \A j \in JobsOf(e) :
           j.new = meta'.fp => e = d /\ j.epoch = meta.epoch
  BY MetaCommits
<1>3. /\ Listed(db[d].list.keys) /\ Latest(db[d].list.keys) \in Nat
      /\ Latest(db[d].list.keys) <= minted + 1
      /\ \A k \in db[d].list.keys : k.epoch \in Nat /\ k.epoch <= Latest(db[d].list.keys)
  BY <1>1, Publisher, RotationAssumption DEF Epochs, Key
<1>4. Over(db[d].list.keys, meta'.ce, Committed') BY <1>2, <1>3 DEF Over
<1>5. CommittedMasters \subseteq CommittedMasters' BY <1>2 DEF CommittedMasters
<1>6. \A e \in Devices : JobsOf(e)' = JobsOf(e) /\ Newest(e)' = Newest(e) /\ JobsKept(e)
  BY <1>1, SameJobs
<1>7. meta.epoch \in Nat /\ meta.fp \in Nat
  BY <1>0, RotationAssumption DEF TypeOK, Meta, Epochs, Masters
<1>8. \A e \in Devices : Live(e)' = {}
  <2> SUFFICES ASSUME NEW e \in Devices, NEW j \in JobsOf(e), j.epoch = meta'.epoch
               PROVE  FALSE
    BY <1>6 DEF Live
  <2>1. j.epoch <= meta.epoch /\ j.epoch \in Nat BY <1>0, JobTypes DEF IInv, DevInv, JobInv
  <2> QED BY <1>2, <1>7, <2>1
<1>9. CloudInv'
  <2>1. content.keys = db[d].list.keys BY <1>0, <1>1 DEF DevInv, RunInv
  <2>2. Newest(d).new > meta.fp /\ Newest(d).new \in Nat
    BY <1>0, <1>1, Publisher DEF DevInv, JobInv, Job, Masters
  <2>3. meta'.epoch <= meta'.fp + 1 BY <1>0, <1>2, <1>7, <2>2 DEF CloudInv
  <2> QED BY <1>1, <1>2, <1>3, <1>4, <2>1, <2>3
    DEF CloudInv, Extends, Listed, HasLatest, KeyBound
<1>10. ASSUME NEW e \in Devices PROVE JobInv(e)'
  <2>1. JobInv(e) BY DEF IInv, DevInv
  <2>2. ASSUME NEW j \in JobsOf(e)
        PROVE  /\ j.new <= minted /\ j.epoch <= meta'.epoch
               /\ j.new = meta'.fp => j.epoch + 1 = meta'.epoch /\ Extends(db[e].list.keys)'
    <3>1. j.new <= minted /\ j.epoch <= meta.epoch /\ j.epoch \in Nat
      BY <1>0, <2>1, JobTypes DEF JobInv
    <3>2. CASE j.new = meta'.fp
      <4>1. e = d /\ j.epoch = meta.epoch BY <1>2, <3>2
      <4>2. Extends(db[e].list.keys)' BY <1>1, <1>4, <4>1 DEF Extends
      <4> QED BY <1>2, <1>7, <3>1, <4>1, <4>2
    <3> QED BY <1>2, <1>7, <3>1, <3>2
  <2> QED BY <1>1, <1>6, <1>8, <2>2 DEF JobInv
<1>11. ASSUME NEW e \in Devices PROVE SyncInv(e)'
  <2>1. SyncInv(e) BY DEF IInv, DevInv
  <2>2. db[e].epoch \in Nat BY <1>0, RotationAssumption DEF TypeOK, Db, Epochs
  <2>3. Listed(db[e].list.keys)'
    BY <1>1, <2>1 DEF SyncInv, Listed, HasLatest, KeyBound
  <2>4. db[e].fp \in CommittedMasters BY <2>1 DEF SyncInv
  <2>5. db[e].fp # meta'.fp BY <1>2, <2>4
  <2>6. db[e].epoch <= meta'.epoch BY <1>2, <1>7, <2>1, <2>2 DEF SyncInv
  <2> QED BY <1>1, <1>5, <2>3, <2>4, <2>5, <2>6 DEF SyncInv
<1>12. ASSUME NEW e \in Devices PROVE PairInv(e)'
  <2>1. pc'[e] \in Pairing => pc'[e] = pc[e] BY <1>0, <1>1 DEF TypeOK, Pairing
  <2>2. SUFFICES ASSUME pc[e] \in Pairing, pc'[e] = pc[e] PROVE PairInv(e)'
    BY <2>1 DEF PairInv
  <2>3. PairInv(e) BY DEF IInv, DevInv
  <2>4. op[e].seen.epoch \in Nat BY <1>0, RotationAssumption DEF TypeOK, Op, Meta, Epochs
  <2>5. Listed(op[e].list.keys)'
    BY <1>1, <2>2, <2>3 DEF PairInv, Listed, HasLatest, KeyBound
  <2>6. op[e].seen.fp # meta'.fp BY <1>2, <2>2, <2>3 DEF PairInv
  <2>7. pc[e] # "bump" BY <1>1, <2>2 DEF IInv, Exclusive, Window, Pairing
  <2>8. e # d BY <1>1, <2>2 DEF Pairing
  <2>9. \A j \in JobsOf(e) : j.new # meta'.fp BY <1>2, <2>8
  <2>10. op[e].seen.epoch <= meta'.epoch BY <1>2, <1>7, <2>2, <2>3, <2>4 DEF PairInv
  <2> QED BY <1>1, <1>5, <1>6, <2>2, <2>3, <2>5, <2>6, <2>7, <2>9, <2>10 DEF PairInv
<1>13. RunInv(d)'
  <2>1. pc'[d] = "settings" BY <1>0, <1>1 DEF TypeOK
  <2>2. jobs'[d] # <<>> BY <1>1, Publisher
  <2>3. Newest(d).epoch + 1 <= meta'.epoch BY <1>2, <1>7
  <2>4. db[d].epoch <= Newest(d).epoch + 1
    <3>1. db[d].epoch <= meta.epoch /\ db[d].epoch \in Nat
      BY <1>0, RotationAssumption DEF DevInv, SyncInv, TypeOK, Db, Epochs
    <3> QED BY <1>2, <1>7, <3>1
  <2> QED BY <1>1, <1>2, <1>6, <1>8, <2>1, <2>2, <2>3, <2>4
    DEF RunInv, Rotating, Committing, Publishing, Uploading
<1>14. ASSUME NEW e \in Devices, e # d PROVE RunInv(e)'
  <2>1. RunInv(e) BY DEF IInv, DevInv
  <2>2. pc'[e] = pc[e] BY <1>0, <1>1, <1>14 DEF TypeOK
  <2>3. pc[e] \notin {"recovery", "content", "meta"}
    BY <1>1, <1>14 DEF IInv, Exclusive, Window
  <2>4. pc[e] = "settings" => Newest(e).epoch + 1 <= meta'.epoch
    <3> SUFFICES ASSUME pc[e] = "settings" PROVE Newest(e).epoch + 1 <= meta'.epoch OBVIOUS
    <3>1. jobs[e] # <<>> BY <2>1 DEF RunInv, Rotating
    <3>2. Newest(e) \in JobsOf(e) BY <1>0, <3>1, NewestJob DEF TypeOK
    <3>3. Newest(e).epoch \in Nat /\ Newest(e).epoch + 1 <= meta.epoch
      BY <1>0, <2>1, <3>2, JobTypes DEF RunInv
    <3> QED BY <1>2, <1>7, <3>3
  <2>5. Newest(e)' = Newest(e) /\ jobs' = jobs /\ db' = db /\ boot' = boot
    BY <1>1, SameJobs DEF WriteMeta
  <2>6. pc[e] = "settings" =>
          /\ db[e].epoch <= Newest(e).epoch + 1
          /\ Newest(e).new \in CommittedMasters'
    BY <1>5, <2>1 DEF RunInv
  <2> QED BY <1>8, <2>1, <2>2, <2>3, <2>4, <2>5, <2>6 DEF RunInv
<1> QED BY <1>6, <1>9, <1>10, <1>11, <1>12, <1>13, <1>14 DEF DevInv

LEMMA FinalizeInv ==
  ASSUME IInv, NEW d \in Devices, FinalizeSettings(d)
  PROVE  /\ DevInv(d)' /\ Calm /\ content' = content /\ JobsKept(d)
         /\ db[d].epoch <= db'[d].epoch /\ db'[d].epoch <= meta.epoch
<1>0. TypeOK /\ DevInv(d) BY DEF IInv
<1> USE DEF Cloud
<1>1. Calm /\ content' = content /\ jobs' = jobs /\ pc[d] = "settings"
  BY <1>0, CalmCloud DEF FinalizeSettings
<1>2. JobsKept(d) /\ JobsOf(d)' = JobsOf(d) BY <1>1, SameJobs
<1>3. /\ jobs[d] # <<>> /\ Newest(d).epoch + 1 <= meta.epoch
      /\ db[d].epoch <= Newest(d).epoch + 1 /\ Newest(d).new \in CommittedMasters
      /\ Live(d) = {} \/ Newest(d).new = meta.fp
  BY <1>0, <1>1 DEF DevInv, RunInv, Rotating
<1>4. Newest(d) \in JobsOf(d) BY <1>0, <1>3, NewestJob DEF TypeOK
<1>5. /\ db'[d].fp = Newest(d).new /\ db'[d].epoch = Newest(d).epoch + 1
      /\ db'[d].list = db[d].list /\ db'[d].flag = db[d].flag
  <2>1. db[d] \in Db BY <1>0 DEF TypeOK
  <2>2. db'[d] = [db[d] EXCEPT !.fp = Newest(d).new, !.epoch = Newest(d).epoch + 1,
                              !.rw = op[d].slot]
    BY <1>0 DEF FinalizeSettings, TypeOK
  <2> QED BY <2>1, <2>2 DEF Db
<1>6. pc'[d] = "unstash" BY <1>0 DEF FinalizeSettings, Goto, TypeOK
<1>7. CommittedMasters' = CommittedMasters BY <1>1 DEF Calm, CommittedMasters
<1>8. Live(d)' = Live(d) BY <1>1, <1>2 DEF Live, Calm
<1>9. minted' = minted BY DEF FinalizeSettings
<1>10. JobInv(d)'
  BY <1>0, <1>1, <1>2, <1>3, <1>5, <1>8, <1>9 DEF DevInv, JobInv, Calm, Extends
<1>11. SyncInv(d)'
  <2>1. Listed(db[d].list.keys) BY <1>0 DEF DevInv, SyncInv
  <2>2. Newest(d).new = meta.fp =>
          Newest(d).epoch + 1 = meta.epoch /\ Extends(db[d].list.keys)
    BY <1>0, <1>4 DEF DevInv, JobInv
  <2> QED BY <1>1, <1>3, <1>5, <1>7, <1>9, <2>1, <2>2
    DEF SyncInv, Listed, HasLatest, KeyBound, Calm, Extends
<1>12. PairInv(d)' BY <1>6 DEF PairInv, Pairing
<1>13. RunInv(d)'
  BY <1>1, <1>3, <1>6 DEF RunInv, Rotating, Committing, Publishing, Uploading
<1> QED BY <1>1, <1>2, <1>3, <1>5, <1>10, <1>11, <1>12, <1>13 DEF DevInv

LEMMA TailInv ==
  ASSUME IInv, NEW d \in Devices, ClearStash(d) \/ MarkDone(d) \/ Return(d)
  PROVE  DevInv(d)' /\ Calm /\ content' = content /\ JobsKept(d)
<1>0. TypeOK /\ RunInv(d) BY DEF IInv, DevInv
<1> USE DEF Cloud
<1>1. Calm /\ content' = content /\ db' = db
  BY <1>0, CalmCloud DEF ClearStash, MarkDone, Return
<1>2. pc[d] # "list" /\ pc'[d] \in {"done", "return", "idle"}
  BY <1>0 DEF ClearStash, MarkDone, Return, Goto, Stop, TypeOK
<1>3. JobsKept(d)
  <2>1. CASE MarkDone(d)
    BY <1>0, <2>1, ClosedJobs DEF JobsKept, MarkDone, RunInv, Rotating, Active, TypeOK
  <2>2. CASE ClearStash(d) \/ Return(d) BY <2>2, SameJobs DEF ClearStash, Return
  <2> QED BY <2>1, <2>2
<1>4. pc'[d] = "done" => jobs'[d] # <<>>
  BY <1>0 DEF ClearStash, MarkDone, Return, Goto, Stop, TypeOK, RunInv, Rotating
<1>5. RunInv(d)' BY <1>2, <1>4 DEF RunInv, Rotating, Committing, Publishing, Uploading
<1> QED BY <1>1, <1>2, <1>3, <1>5, Routine DEF Pairing

LEMMA PasswordInv ==
  ASSUME IInv, NEW d \in Devices,
         \/ PasswordBoot(d) \/ KeepOffline(d) \/ RecoverBoot(d)
         \/ ChangePassword(d) \/ Recover(d)
  PROVE  DevInv(d)' /\ Calm /\ content' = content /\ JobsKept(d)
<1>0. TypeOK BY DEF IInv
<1> USE DEF Cloud, Local
<1>1. Calm /\ content' = content
  BY <1>0, CalmCloud DEF PasswordBoot, KeepOffline, RecoverBoot, ChangePassword, Recover
<1>2. JobsKept(d)
  BY SameJobs DEF PasswordBoot, KeepOffline, RecoverBoot, ChangePassword, Recover
<1>3. pc[d] # "list" /\ pc'[d] \in {"gate", "idle", "pwboot", "reboot"}
  BY <1>0 DEF PasswordBoot, KeepOffline, RecoverBoot, ChangePassword, Recover,
              Goto, Stop, Begin, Ready, TypeOK
<1>4. /\ db'[d].fp = db[d].fp /\ db'[d].epoch = db[d].epoch
      /\ db'[d].list = db[d].list /\ db'[d].flag = db[d].flag
  <2>1. db[d] \in Db BY <1>0 DEF TypeOK
  <2>2. db'[d] = db[d] \/ \E p \in Passwords : db'[d] = [db[d] EXCEPT !.pw = p]
    BY <1>0 DEF PasswordBoot, KeepOffline, RecoverBoot, ChangePassword, Recover, TypeOK
  <2> QED BY <2>1, <2>2 DEF Db
<1>5. RunInv(d)' BY <1>3 DEF RunInv, Rotating, Committing, Publishing, Uploading
<1> QED BY <1>1, <1>2, <1>3, <1>4, <1>5, Routine DEF Pairing

LEMMA FaultInv ==
  ASSUME IInv, NEW d \in Devices, Fail(d) \/ (pc[d] \notin Pairing /\ Crash(d))
  PROVE  DevInv(d)' /\ Calm /\ content' = content /\ JobsKept(d) /\ db' = db
<1>0. TypeOK /\ RunInv(d) BY DEF IInv, DevInv
<1> USE DEF Cloud
<1>1. Calm /\ content' = content BY <1>0, CalmCloud DEF Fail, Crash
<1>2. JobsKept(d) BY SameJobs DEF Fail, Crash
<1>3. pc[d] # "list" /\ pc'[d] = "idle"
  BY <1>0 DEF Fail, Crash, Stop, TypeOK, Publishing, Uploading, Pairing
<1>4. db' = db BY <1>0 DEF Fail, Crash, RunInv
<1>5. RunInv(d)' BY <1>3 DEF RunInv, Rotating, Committing, Publishing, Uploading
<1> QED BY <1>1, <1>2, <1>3, <1>4, <1>5, Routine DEF Pairing

LEMMA PairIdentityInv ==
  ASSUME IInv, NEW d \in Devices, PairIdentity(d)
  PROVE  /\ DevInv(d)' /\ Calm /\ content' = content /\ JobsKept(d)
         /\ db[d].epoch <= db'[d].epoch /\ db'[d].epoch <= meta.epoch
<1>0. TypeOK /\ DevInv(d) BY DEF IInv
<1> USE DEF Cloud
<1>1. /\ Calm /\ content' = content /\ jobs' = jobs /\ minted' = minted /\ op' = op
      /\ pc[d] = "identity" /\ pc'[d] = "list"
  BY <1>0, CalmCloud DEF PairIdentity, Goto, TypeOK
<1>2. JobsKept(d) /\ JobsOf(d)' = JobsOf(d) BY <1>1, SameJobs
<1>3. /\ db'[d].fp = op[d].seen.fp /\ db'[d].epoch = op[d].seen.epoch
      /\ db'[d].list = db[d].list /\ db'[d].flag = db[d].flag
  <2>1. db[d] \in Db BY <1>0 DEF TypeOK
  <2>2. PICK p \in Passwords :
          db'[d] = [db[d] EXCEPT !.pw = p, !.epoch = op[d].seen.epoch,
                                 !.fp = op[d].list.under, !.rw = op[d].slot]
    BY <1>0 DEF PairIdentity, TypeOK
  <2>3. op[d].list.under = op[d].seen.fp BY <1>0, <1>1 DEF DevInv, PairInv, Pairing
  <2> QED BY <2>1, <2>2, <2>3 DEF Db
<1>4. PairInv(d) /\ pc[d] \in Pairing BY <1>0, <1>1 DEF DevInv, Pairing
<1>5. db[d].flag /\ Live(d) = {} BY <1>0, <1>4 DEF DevInv, PairInv, JobInv
<1>6. CommittedMasters' = CommittedMasters BY <1>1 DEF Calm, CommittedMasters
<1>7. JobInv(d)'
  <2>1. Live(d)' = {} BY <1>1, <1>2, <1>5 DEF Live, Calm
  <2> QED BY <1>0, <1>1, <1>2, <1>3, <2>1 DEF DevInv, JobInv, Calm, Extends
<1>8. SyncInv(d)'
  <2>1. Listed(db[d].list.keys)' BY <1>0, <1>1, <1>3
    DEF DevInv, SyncInv, Listed, HasLatest, KeyBound
  <2> QED BY <1>1, <1>3, <1>4, <1>6, <2>1 DEF PairInv, SyncInv, Calm
<1>9. PairInv(d)'
  BY <1>1, <1>2, <1>3, <1>4, <1>6 DEF PairInv, Calm, Extends, Listed, HasLatest, KeyBound
<1>10. RunInv(d)' BY <1>1 DEF RunInv, Rotating, Committing, Publishing, Uploading
<1>11. db[d].epoch <= db'[d].epoch /\ db'[d].epoch <= meta.epoch
  BY <1>1, <1>3, <1>4 DEF PairInv
<1> QED BY <1>1, <1>2, <1>7, <1>8, <1>9, <1>10, <1>11 DEF DevInv

LEMMA PairListInv ==
  ASSUME IInv, NEW d \in Devices, PairList(d)
  PROVE  DevInv(d)' /\ Calm /\ content' = content /\ JobsKept(d)
<1>0. TypeOK /\ DevInv(d) BY DEF IInv
<1> USE DEF Cloud
<1>1. /\ Calm /\ content' = content /\ jobs' = jobs /\ minted' = minted /\ op' = op
      /\ pc[d] = "list" /\ pc'[d] = "file"
  BY <1>0, CalmCloud DEF PairList, Goto, TypeOK
<1>2. JobsKept(d) /\ JobsOf(d)' = JobsOf(d) BY <1>1, SameJobs
<1>3. /\ db'[d].fp = db[d].fp /\ db'[d].epoch = db[d].epoch
      /\ db'[d].list = op[d].list /\ db'[d].flag = db[d].flag
  <2>1. db[d] \in Db BY <1>0 DEF TypeOK
  <2>2. db'[d] = [db[d] EXCEPT !.list = op[d].list] BY <1>0 DEF PairList, TypeOK
  <2> QED BY <2>1, <2>2 DEF Db
<1>4. PairInv(d) /\ pc[d] \in Pairing BY <1>0, <1>1 DEF DevInv, Pairing
<1>5. db[d].flag /\ Live(d) = {} BY <1>0, <1>4 DEF DevInv, PairInv, JobInv
<1>6. CommittedMasters' = CommittedMasters BY <1>1 DEF Calm, CommittedMasters
<1>7. JobInv(d)'
  <2>1. Live(d)' = {} BY <1>1, <1>2, <1>5 DEF Live, Calm
  <2>2. ASSUME NEW j \in JobsOf(d), j.new = meta.fp PROVE Extends(op[d].list.keys)
    BY <1>4, <2>2 DEF PairInv
  <2> QED BY <1>0, <1>1, <1>2, <1>3, <2>1, <2>2 DEF DevInv, JobInv, Calm, Extends
<1>8. SyncInv(d)'
  <2>1. Listed(op[d].list.keys)' BY <1>1, <1>4 DEF PairInv, Listed, HasLatest, KeyBound
  <2>2. db[d].fp = meta.fp => Extends(op[d].list.keys) BY <1>1, <1>4 DEF PairInv
  <2> QED BY <1>0, <1>1, <1>3, <1>6, <2>1, <2>2 DEF DevInv, SyncInv, Calm, Extends
<1>9. PairInv(d)'
  BY <1>1, <1>2, <1>3, <1>4, <1>6 DEF PairInv, Calm, Extends, Listed, HasLatest, KeyBound
<1>10. RunInv(d)' BY <1>1 DEF RunInv, Rotating, Committing, Publishing, Uploading
<1> QED BY <1>1, <1>2, <1>7, <1>8, <1>9, <1>10 DEF DevInv

LEMMA PairRestInv ==
  ASSUME IInv, NEW d \in Devices,
         \/ PairBoot(d) \/ PairAdopt(d) \/ PairRecheck(d) \/ PairBump(d) \/ PairClear(d)
  PROVE  DevInv(d)' /\ Calm /\ content' = content /\ JobsKept(d)
<1>0. TypeOK /\ DevInv(d) BY DEF IInv
<1> USE DEF Cloud, Local
<1>1. PairInv(d) /\ pc[d] \in Pairing /\ pc[d] \notin {"identity", "list"}
  BY <1>0 DEF DevInv, PairBoot, PairAdopt, PairRecheck, PairBump, PairClear, Pairing
<1>2. /\ meta' = meta /\ content' = content /\ jobs' = jobs /\ minted' = minted
  BY <1>1 DEF PairBoot, PairAdopt, PairRecheck, PairBump, PairClear, PairInv
<1>3. Calm BY <1>0, <1>2, CalmCloud
<1>4. JobsKept(d) /\ JobsOf(d)' = JobsOf(d) BY <1>2, SameJobs
<1>5. /\ db'[d].fp = db[d].fp /\ db'[d].epoch = db[d].epoch /\ db'[d].list = db[d].list
      /\ db'[d].flag => db[d].flag
  <2>1. db[d] \in Db BY <1>0 DEF TypeOK
  <2>2. db'[d] = db[d] \/ db'[d] = [db[d] EXCEPT !.flag = FALSE]
    BY <1>0 DEF PairBoot, PairAdopt, PairRecheck, PairBump, PairClear, TypeOK
  <2> QED BY <2>1, <2>2 DEF Db
<1>6. \/ pc'[d] = "idle"
      \/ /\ pc'[d] \in {"adopt", "recheck", "bump", "clear"} /\ op' = op /\ db' = db
         /\ pc'[d] = "bump" => op[d].seen = meta
  BY <1>0 DEF PairBoot, PairAdopt, PairRecheck, PairBump, PairClear, TypeOK, Goto, Stop
<1>7. CommittedMasters' = CommittedMasters BY <1>3 DEF Calm, CommittedMasters
<1>8. PairInv(d)'
  <2>1. CASE pc'[d] = "idle" BY <2>1 DEF PairInv, Pairing
  <2>2. CASE pc'[d] # "idle"
    BY <1>1, <1>2, <1>3, <1>4, <1>6, <1>7, <2>2
       DEF PairInv, Calm, Extends, Listed, HasLatest, KeyBound
  <2> QED BY <2>1, <2>2
<1>9. RunInv(d)' BY <1>6 DEF RunInv, Rotating, Committing, Publishing, Uploading
<1>10. JobInv(d)' BY <1>3, <1>4, <1>5, JobCalm
<1>11. SyncInv(d)' BY <1>1, <1>3, <1>5, SyncCalm
<1> QED BY <1>2, <1>3, <1>4, <1>8, <1>9, <1>10, <1>11 DEF DevInv

\* Another command but a rotation leaves keys and epoch.
LEMMA ResumeInv ==
  ASSUME IInv, NEW d \in Devices,
         ResumeFinalize(d) \/ Resume(d) \/ Unlock(d) \/ Lock(d) \/ Recheck(d)
  PROVE  DevInv(d)' /\ Calm /\ content' = content /\ JobsKept(d)
<1>0. TypeOK /\ DevInv(d) BY DEF IInv
<1> USE DEF Cloud, Local
<1>1. Calm /\ content' = content
  BY <1>0, CalmCloud DEF ResumeFinalize, Resume, Unlock, Lock, Recheck
<1>2. JobsKept(d)
  <2>1. CASE Unlock(d) /\ Orphaned(d)
    BY <1>0, <2>1, ClosedJobs DEF JobsKept, Unlock, Orphaned, TypeOK
  <2>2. jobs' = jobs \/ (Unlock(d) /\ Orphaned(d))
    BY DEF ResumeFinalize, Resume, Unlock, Lock, Recheck
  <2> QED BY <2>1, <2>2, SameJobs
<1>3. /\ db'[d].fp = db[d].fp /\ db'[d].epoch = db[d].epoch /\ db'[d].list = db[d].list
      /\ db'[d].flag => db[d].flag
  <2>1. db[d] \in Db BY <1>0 DEF TypeOK
  <2>2. db'[d] = db[d] \/ db'[d] = [db[d] EXCEPT !.flag = FALSE]
    BY <1>0 DEF ResumeFinalize, Resume, Unlock, Lock, Recheck, TypeOK
  <2> QED BY <2>1, <2>2 DEF Db
<1>4. pc[d] = "idle" BY DEF ResumeFinalize, Resume, Unlock, Lock, Recheck, Begin, Ready
<1>5. RunInv(d)' /\ pc'[d] \notin Pairing
  <2>1. CASE Unlock(d) \/ Lock(d) \/ Recheck(d)
    BY <1>4, <2>1
       DEF Unlock, Lock, Recheck, RunInv, Rotating, Committing, Publishing, Uploading, Pairing
  <2>2. CASE Resume(d)
    <3>1. pc'[d] \in {"boot", "check"} /\ jobs'[d] # <<>>
      BY <1>0, <2>2 DEF Resume, Active, Begin, TypeOK
    <3> QED BY <3>1 DEF RunInv, Rotating, Committing, Publishing, Uploading, Pairing
  <2>3. CASE ResumeFinalize(d)
    <3>1. /\ pc'[d] = "settings" /\ jobs' = jobs /\ jobs[d] # <<>> /\ db' = db
          /\ meta.epoch = Newest(d).epoch + 1 /\ meta.fp = Newest(d).new
      BY <1>0, <2>3 DEF ResumeFinalize, Active, Published, Begin, TypeOK
    <3>2. Newest(d)' = Newest(d) BY <3>1, SameJobs
    <3>3. db[d].epoch <= meta.epoch BY <1>0 DEF DevInv, SyncInv
    <3>4. Newest(d).epoch + 1 <= meta.epoch
      BY <1>0, <3>1, RotationAssumption DEF TypeOK, Meta, Epochs
    <3>5. meta.fp \in CommittedMasters /\ CommittedMasters' = CommittedMasters
      BY <1>1 DEF IInv, CloudInv, Calm, CommittedMasters
    <3> QED BY <1>1, <3>1, <3>2, <3>3, <3>4, <3>5
      DEF RunInv, Rotating, Committing, Publishing, Uploading, Pairing, Calm
  <2> QED BY <2>1, <2>2, <2>3
<1> QED BY <1>1, <1>2, <1>3, <1>4, <1>5, Routine

\* A device whose rotation may still commit sees no mismatch.
LEMMA DetectInv ==
  ASSUME IInv, NEW d \in Devices, Detect(d)
  PROVE  DevInv(d)' /\ Calm /\ content' = content /\ JobsKept(d)
<1>0. TypeOK /\ DevInv(d) BY DEF IInv
<1> USE DEF Cloud
<1>1. /\ Calm /\ content' = content /\ jobs' = jobs /\ pc' = pc /\ op' = op /\ boot' = boot
      /\ minted' = minted /\ meta' = meta
  BY <1>0, CalmCloud DEF Detect
<1>2. JobsKept(d) /\ JobsOf(d)' = JobsOf(d) /\ Newest(d)' = Newest(d) BY <1>1, SameJobs
<1>3. /\ db'[d].fp = db[d].fp /\ db'[d].epoch = db[d].epoch /\ db'[d].list = db[d].list
  <2>1. db[d] \in Db BY <1>0 DEF TypeOK
  <2>2. db'[d] = [db[d] EXCEPT !.flag = TRUE] BY <1>0 DEF Detect, TypeOK
  <2> QED BY <2>1, <2>2 DEF Db
<1>4. Live(d) = {}
  BY <1>0 DEF DevInv, JobInv, SyncInv, Detect, Mismatch
<1>5. JobInv(d)' /\ SyncInv(d)' BY <1>1, <1>2, <1>3, <1>4, JobCalm, SyncCalm
<1>6. pc[d] \notin Pairing BY <1>0 DEF DevInv, PairInv, Detect
<1>7. Live(d)' = Live(d) BY <1>1, <1>2 DEF Live
<1>8. CommittedMasters' = CommittedMasters BY <1>1 DEF Calm, CommittedMasters
<1>9. RunInv(d)' BY <1>0, <1>1, <1>2, <1>3, <1>7, <1>8 DEF DevInv, RunInv
<1> QED BY <1>1, <1>2, <1>5, <1>6, <1>9 DEF DevInv, PairInv

LEMMA RePairInv ==
  ASSUME IInv, NEW d \in Devices, RePair(d)
  PROVE  DevInv(d)' /\ Calm /\ content' = content /\ JobsKept(d)
<1>0. TypeOK /\ DevInv(d) /\ CloudInv BY DEF IInv
<1> USE DEF Cloud, Local
<1>1. /\ Calm /\ content' = content /\ jobs' = jobs /\ db' = db /\ minted' = minted
      /\ db[d].flag /\ content.under = meta.fp
      /\ pc[d] = "idle" /\ pc'[d] = "identity"
      /\ op'[d] = [kind |-> "repair", seen |-> meta, slot |-> slot, list |-> content]
  BY <1>0, CalmCloud DEF RePair, Begin, Ready, TypeOK
<1>2. JobsKept(d) /\ JobsOf(d)' = JobsOf(d) BY <1>1, SameJobs
<1>3. JobInv(d)' /\ SyncInv(d)' BY <1>1, <1>2, JobCalm, SyncCalm
<1>4. RunInv(d)' BY <1>1 DEF RunInv, Rotating, Committing, Publishing, Uploading
<1>5. CommittedMasters' = CommittedMasters BY <1>1 DEF Calm, CommittedMasters
<1>6. Listed(content.keys)' BY <1>0, <1>1 DEF CloudInv, Listed, HasLatest, KeyBound
<1>7. Extends(content.keys)' BY <1>0, <1>1 DEF CloudInv, Extends, Calm
<1>8. meta.epoch \in Nat BY <1>0, RotationAssumption DEF TypeOK, Meta, Epochs
<1>9. db[d].epoch <= meta.epoch BY <1>0 DEF DevInv, SyncInv
<1>10. PairInv(d)'
  <2>1. op'[d].list.keys = content.keys /\ op'[d].seen = meta /\ op'[d].list.under = meta.fp
    BY <1>1
  <2>2. Listed(op[d].list.keys)' BY <1>6, <1>1, <2>1 DEF Listed
  <2>3. Extends(op[d].list.keys)' BY <1>7, <1>1, <2>1 DEF Extends
  <2> QED BY <1>0, <1>1, <1>5, <1>8, <1>9, <2>1, <2>2, <2>3 DEF PairInv, CloudInv, Calm
<1> QED BY <1>1, <1>2, <1>3, <1>4, <1>10 DEF DevInv

LEMMA RotateInv ==
  ASSUME IInv, NEW d \in Devices, NEW kind \in {"rotate", "reset"}, Rotate(d, kind)
  PROVE  /\ DevInv(d)' /\ Calm /\ content' = content
         /\ \A i \in JobsOf(d)' :
              \/ i.new = minted + 1 /\ i.epoch = meta.epoch
              \/ i \in JobsOf(d)
<1>0. TypeOK /\ DevInv(d) /\ CloudInv BY DEF IInv
<1> USE DEF Cloud, Local
<1> DEFINE job == [state |-> "commit_local", epoch |-> meta.epoch, new |-> minted + 1]
           k == [epoch |-> Later(Latest(db[d].list.keys), meta.ce) + 1, key |-> minted + 1]
<1>1. /\ meta' = meta /\ content' = content /\ boot' = boot /\ op' = [op EXCEPT ![d] = As(kind)]
      /\ minted' = minted + 1 /\ minted < MaxMasters /\ db[d].fp = meta.fp /\ ~db[d].flag
      /\ jobs' = [jobs EXCEPT ![d] = Append(@, job)]
      /\ db' = [db EXCEPT ![d].list.keys = Extended(@, minted + 1)]
      /\ pc'[d] = "boot" /\ pc[d] = "idle"
  BY <1>0 DEF Rotate, Begin, Ready, MayCommand, TypeOK
<1>2. minted \in Nat /\ meta \in Meta /\ meta.fp \in Nat /\ meta.ce \in Nat /\ meta.epoch \in Nat
  BY <1>0, RotationAssumption DEF TypeOK, Masters, Meta, Epochs
<1>3. Calm BY <1>1, <1>2 DEF Calm, Committed
<1>4. job \in Job
  BY <1>0, <1>1, RotationAssumption DEF TypeOK, Meta, Job, Masters
<1>5. jobs'[d] # <<>> /\ JobsOf(d)' = JobsOf(d) \cup {job}
  BY <1>0, <1>1, <1>4, AppendedJobs DEF TypeOK
<1>6. /\ Extended(db[d].list.keys, minted + 1) = db[d].list.keys \cup {k}
      /\ k.key = minted + 1 /\ k.epoch \in Nat /\ k.epoch > meta.ce /\ k.epoch <= minted + 2
      /\ \A j \in db[d].list.keys : j.epoch < k.epoch
  <2>1. k \in Key BY <1>1, NewKey
  <2>2. k.epoch \in Nat BY <2>1, RotationAssumption DEF Key, Epochs
  <2> QED BY <1>1, <2>2, NewKey
<1>7. /\ db'[d].fp = db[d].fp /\ db'[d].epoch = db[d].epoch /\ db'[d].flag = db[d].flag
      /\ db'[d].list.keys = db[d].list.keys \cup {k}
  <2>1. db[d] \in Db /\ db[d].list \in List BY <1>0 DEF TypeOK, Db
  <2>2. db'[d] = [db[d] EXCEPT !.list.keys = Extended(@, minted + 1)]
    BY <1>0, <1>1 DEF TypeOK
  <2>3. /\ db'[d].fp = db[d].fp /\ db'[d].epoch = db[d].epoch /\ db'[d].flag = db[d].flag
        /\ db'[d].list.keys = Extended(db[d].list.keys, minted + 1)
    BY <2>1, <2>2 DEF Db, List
  <2> QED BY <1>6, <2>3
<1> HIDE DEF k
<1>8. \A c \in Committed : c.key \in Nat /\ c.key <= minted
  <2>1. \A c \in content.keys : c.key \in Nat BY <1>0 DEF TypeOK, List, Key, Masters
  <2> QED BY <1>0, <2>1 DEF Committed, CloudInv, Listed, KeyBound
<1>9. meta.fp <= minted /\ meta.fp \in CommittedMasters
  BY <1>0, <1>8 DEF CloudInv, CommittedMasters
<1>10. \A j \in db[d].list.keys : j.key \in Nat /\ j.epoch \in Nat
  BY <1>0, RotationAssumption DEF TypeOK, Db, List, Key, Masters, Epochs
<1>11. Listed(db[d].list.keys) /\ Over(db[d].list.keys, meta.ce, Committed)
  BY <1>0, <1>1 DEF DevInv, SyncInv, Extends
<1>12. Over(db[d].list.keys \cup {k}, meta.ce, Committed)
  BY <1>2, <1>6, <1>8, <1>11 DEF Over
<1>13. HasLatest(db[d].list.keys \cup {k}) /\ KeyBound(db[d].list.keys \cup {k}, minted + 1)
  <2>1. HasLatest(db[d].list.keys \cup {k})
    BY <1>6, <1>10 DEF HasLatest
  <2>2. KeyBound(db[d].list.keys \cup {k}, minted + 1)
    BY <1>2, <1>6, <1>10, <1>11 DEF Listed, KeyBound
  <2> QED BY <2>1, <2>2
<1>14. JobInv(d)'
  <2>1. JobInv(d) BY <1>0 DEF DevInv
  <2>2. ASSUME NEW j \in JobsOf(d)'
        PROVE  /\ j.new <= minted' /\ j.epoch <= meta'.epoch
               /\ j.new = meta'.fp => j.epoch + 1 = meta'.epoch
    <3>1. CASE j = job BY <1>1, <1>2, <1>9, <3>1
    <3>2. CASE j \in JobsOf(d)
      BY <1>0, <1>1, <1>2, <2>1, <3>2, JobTypes DEF JobInv
    <3> QED BY <1>5, <3>1, <3>2
  <2>3. Extends(db[d].list.keys)' BY <1>1, <1>3, <1>7, <1>12 DEF Extends, Calm
  <2>4. ASSUME NEW j \in Live(d)'
        PROVE  j.new > meta'.fp /\ \E i \in db'[d].list.keys : i.epoch > meta'.ce /\ i.key = j.new
    <3>1. j \in JobsOf(d)' /\ j.epoch = meta.epoch BY <1>1 DEF Live
    <3>2. CASE j = job BY <1>1, <1>2, <1>6, <1>7, <1>9, <3>2
    <3>3. CASE j \in JobsOf(d)
      <4>1. j \in Live(d) BY <3>1, <3>3 DEF Live
      <4> QED BY <1>1, <1>7, <2>1, <4>1 DEF JobInv
    <3> QED BY <1>5, <3>1, <3>2, <3>3
  <2> QED BY <1>1, <1>7, <2>2, <2>3, <2>4 DEF JobInv
<1>15. SyncInv(d)'
  <2>1. CommittedMasters' = CommittedMasters BY <1>3 DEF Calm, CommittedMasters
  <2>2. Extends(db[d].list.keys)' BY <1>1, <1>3, <1>7, <1>12 DEF Extends, Calm
  <2>3. Listed(db[d].list.keys)' BY <1>1, <1>7, <1>13 DEF Listed
  <2>4. SyncInv(d) BY <1>0 DEF DevInv
  <2> QED BY <1>1, <1>7, <2>1, <2>2, <2>3, <2>4 DEF SyncInv
<1>16. PairInv(d)' /\ RunInv(d)'
  BY <1>1, <1>5 DEF PairInv, Pairing, RunInv, Rotating, Committing, Publishing, Uploading
<1> QED BY <1>1, <1>3, <1>5, <1>14, <1>15, <1>16 DEF DevInv

-----------------------------------------------------------------------------
(* The invariant *)

\* Every step but the commit of a rotation is calm.
LEMMA CalmStep ==
  ASSUME IInv, NEW d \in Devices, Move(d), ~WriteMeta(d)
  PROVE  /\ DevInv(d)' /\ Calm /\ CloudInv'
         /\ content' = content \/ pc[d] = "content"
         /\ \/ JobsKept(d)
            \/ /\ minted' = minted + 1
               /\ \A i \in JobsOf(d)' :
                    \/ i.new = minted + 1 /\ i.epoch = meta.epoch
                    \/ i \in JobsOf(d)
<1>1. CASE WriteContent(d) BY <1>1, ContentInv DEF WriteContent
<1>2. CASE ~WriteContent(d)
  <2>1. DevInv(d)' /\ Calm /\ content' = content /\
         \/ JobsKept(d)
         \/ /\ minted' = minted + 1
            /\ \A i \in JobsOf(d)' :
                 \/ i.new = minted + 1 /\ i.epoch = meta.epoch
                 \/ i \in JobsOf(d)
    <3>1. CASE Step(d)
      BY <1>2, <3>1, CommitInv, CheckInv, FinalizeInv, TailInv, PasswordInv,
         PairIdentityInv, PairListInv, PairRestInv DEF Step
    <3>2. CASE Rotate(d, "rotate") \/ Rotate(d, "reset")
      BY <3>2, RotateInv DEF Rotate
    <3>3. CASE Command(d) /\ ~(Rotate(d, "rotate") \/ Rotate(d, "reset"))
      BY <3>3, ResumeInv, DetectInv, RePairInv, PasswordInv DEF Command
    <3>4. CASE Fail(d) \/ (pc[d] \notin Pairing /\ Crash(d)) BY <3>4, FaultInv
    <3> QED BY <3>1, <3>2, <3>3, <3>4 DEF Move
  <2>2. CloudInv'
    <3>1. CloudInv /\ TypeOK BY DEF IInv
    <3>2. \A k \in content.keys : k.key \in Nat
      BY <3>1 DEF TypeOK, List, Key, Masters
    <3>3. KeyBound(content.keys, minted')
      BY <2>1, <3>1, <3>2 DEF CloudInv, Listed, KeyBound, Calm, TypeOK, Masters
    <3>4. meta.ce <= minted' + 1
      BY <2>1, <3>1, RotationAssumption DEF CloudInv, Calm, TypeOK, Masters, Meta, Epochs
    <3>5. CommittedMasters' = CommittedMasters BY <2>1 DEF Calm, CommittedMasters
    <3> QED BY <2>1, <3>1, <3>3, <3>4, <3>5 DEF CloudInv, Listed, Extends, Calm
  <2> QED BY <2>1, <2>2
<1> QED BY <1>1, <1>2

\* Nobody enters the window while another device is in it.
LEMMA StaysExclusive ==
  ASSUME IInv, Overlap = FALSE, NEW d \in Devices, Move(d)
  PROVE  Exclusive'
<1>0. TypeOK /\ Exclusive BY DEF IInv
<1>1. pc'[d] \in Window => pc[d] \in Window \/ Alone(d)
  <2> USE <1>0 DEF TypeOK, Window, Uploading, Goto, Stop, Begin, Alone, Local, Cloud
  <2>1. CASE Step(d)
    <3>1. CASE CommitBoot(d) \/ CommitSettings(d) \/ Load(d) \/ CheckEpoch(d)
      BY <3>1 DEF CommitBoot, CommitSettings, Load, CheckEpoch
    <3>2. CASE WriteRecovery(d) \/ WriteContent(d) \/ WriteMeta(d) \/ FinalizeSettings(d)
      BY <3>2 DEF WriteRecovery, WriteContent, WriteMeta, FinalizeSettings
    <3>3. CASE ClearStash(d) \/ MarkDone(d) \/ Return(d) \/ PairIdentity(d) \/ PairList(d)
      BY <3>3 DEF ClearStash, MarkDone, Return, PairIdentity, PairList
    <3>4. CASE PairBoot(d) \/ PairAdopt(d) \/ PairRecheck(d) \/ PairBump(d) \/ PairClear(d)
      BY <3>4 DEF PairBoot, PairAdopt, PairRecheck, PairBump, PairClear
    <3>5. CASE PasswordBoot(d) \/ KeepOffline(d) \/ RecoverBoot(d)
      BY <3>5 DEF PasswordBoot, KeepOffline, RecoverBoot
    <3> QED BY <2>1, <3>1, <3>2, <3>3, <3>4, <3>5 DEF Step
  <2>2. CASE Command(d)
    <3>1. CASE Rotate(d, "rotate") \/ Rotate(d, "reset") BY <3>1 DEF Rotate
    <3>2. CASE ResumeFinalize(d) \/ Resume(d) \/ Unlock(d) \/ Lock(d)
      BY <3>2 DEF ResumeFinalize, Resume, Unlock, Lock
    <3>3. CASE Detect(d) \/ Recheck(d) \/ RePair(d) \/ ChangePassword(d) \/ Recover(d)
      BY <3>3 DEF Detect, Recheck, RePair, ChangePassword, Recover
    <3> QED BY <2>2, <3>1, <3>2, <3>3 DEF Command
  <2>3. CASE Fail(d) \/ Crash(d) BY <2>3 DEF Fail, Crash
  <2> QED BY <2>1, <2>2, <2>3 DEF Move
<1>2. \A e \in Devices : e # d => pc'[e] = pc[e]
  BY <1>0, OthersStay DEF Same
<1> QED BY <1>0, <1>1, <1>2 DEF Exclusive, Alone

\* A new master is one no job has.
LEMMA MintsApart ==
  ASSUME IInv, NEW d \in Devices, Move(d)
  PROVE  \A e, f \in Devices : Minting(e, f)'
<1>0. TypeOK BY DEF IInv
<1>1. \A e \in Devices : e # d => JobsOf(e)' = JobsOf(e)
  BY <1>0, OthersStay DEF Same, JobsOf
<1>2. \A e, f \in Devices : \A i \in JobsOf(e), j \in JobsOf(f) :
         i.new = j.new => e = f /\ i.epoch = j.epoch
  BY DEF IInv, Minting
<1>3. CASE JobsKept(d)
  <2> SUFFICES ASSUME NEW e \in Devices, NEW f \in Devices,
                      NEW i \in JobsOf(e)', NEW j \in JobsOf(f)', i.new = j.new
               PROVE  e = f /\ i.epoch = j.epoch
    BY DEF Minting
  <2>1. PICK i0 \in JobsOf(e) : i0.new = i.new /\ i0.epoch = i.epoch
    BY <1>1, <1>3 DEF JobsKept
  <2>2. PICK j0 \in JobsOf(f) : j0.new = j.new /\ j0.epoch = j.epoch
    BY <1>1, <1>3 DEF JobsKept
  <2> QED BY <1>2, <2>1, <2>2
<1>4. CASE ~JobsKept(d)
  <2>1. ~WriteMeta(d) BY <1>4, MetaInv
  <2>2. \A i \in JobsOf(d)' : \/ i.new = minted + 1 /\ i.epoch = meta.epoch
                              \/ i \in JobsOf(d)
    BY <1>4, <2>1, CalmStep
  <2>3. \A e \in Devices : \A i \in JobsOf(e) : i.new # minted + 1
    <3> SUFFICES ASSUME NEW e \in Devices, NEW i \in JobsOf(e) PROVE i.new # minted + 1
      OBVIOUS
    <3>1. i.new <= minted /\ i.new \in Nat /\ minted \in Nat
      BY <1>0, JobTypes DEF IInv, DevInv, JobInv, TypeOK, Masters
    <3> QED BY <3>1
  <2> SUFFICES ASSUME NEW e \in Devices, NEW f \in Devices,
                      NEW i \in JobsOf(e)', NEW j \in JobsOf(f)', i.new = j.new
               PROVE  e = f /\ i.epoch = j.epoch
    BY DEF Minting
  <2>4. (e = d /\ i.new = minted + 1 /\ i.epoch = meta.epoch) \/ i \in JobsOf(e)
    BY <1>1, <2>2
  <2>5. (f = d /\ j.new = minted + 1 /\ j.epoch = meta.epoch) \/ j \in JobsOf(f)
    BY <1>1, <2>2
  <2> QED BY <1>2, <2>3, <2>4, <2>5
<1> QED BY <1>3, <1>4

LEMMA MoveInv ==
  ASSUME IInv, Overlap = FALSE, NEW d \in Devices, Move(d)
  PROVE  IInv'
<1>1. TypeOK' BY StepType, CommandType, FaultType DEF Move
<1>2. CloudInv' BY CalmStep, MetaInv
<1>3. \A e \in Devices : DevInv(e)'
  <2>1. CASE WriteMeta(d) BY <2>1, MetaInv
  <2>2. CASE ~WriteMeta(d)
    <3>1. DevInv(d)' /\ Calm /\ (content' = content \/ pc[d] = "content") BY <2>2, CalmStep
    <3>2. ASSUME NEW e \in Devices, e # d PROVE DevInv(e)'
      BY <3>1, <3>2, OthersStay, OtherCalm DEF IInv
    <3> QED BY <3>1, <3>2
  <2> QED BY <2>1, <2>2
<1>4. Exclusive' BY StaysExclusive
<1>5. \A e, f \in Devices : Minting(e, f)' BY MintsApart
<1> QED BY <1>1, <1>2, <1>3, <1>4, <1>5 DEF IInv

LEMMA InitInv == Init => IInv
<1> SUFFICES ASSUME Init PROVE IInv OBVIOUS
<1> DEFINE k == [epoch |-> 1, key |-> 0]
<1>1. TypeOK BY InitTypeOK
<1>2. /\ content.keys = {k} /\ meta.epoch = 1 /\ meta.fp = 0 /\ meta.ce = 1 /\ minted = 0
  BY DEF Init, List0, Meta0
<1>3. Committed = {k} /\ CommittedMasters = {0}
  <2>1. {c \in {k} : c.epoch <= 1} = {k} /\ {c.key : c \in {k}} = {0} OBVIOUS
  <2>2. Committed = {k} BY <1>2, <2>1 DEF Committed
  <2> QED BY <2>1, <2>2 DEF CommittedMasters
<1>4. Listed({k}) /\ Extends({k})
  BY <1>2, <1>3 DEF Listed, HasLatest, KeyBound, Extends, Over
<1>5. ASSUME NEW d \in Devices PROVE DevInv(d) /\ pc[d] = "idle" /\ JobsOf(d) = {}
  <2>1. /\ db[d].list.keys = {k} /\ db[d].fp = 0 /\ db[d].epoch = 1
        /\ pc[d] = "idle" /\ jobs[d] = <<>>
    BY DEF Init, List0
  <2>2. JobsOf(d) = {} BY <2>1 DEF JobsOf
  <2>3. JobInv(d) BY <2>2 DEF JobInv, Live
  <2>4. SyncInv(d) BY <1>2, <1>3, <1>4, <2>1 DEF SyncInv
  <2>5. PairInv(d) /\ RunInv(d)
    BY <2>1 DEF PairInv, Pairing, RunInv, Rotating, Committing, Publishing, Uploading
  <2> QED BY <2>1, <2>2, <2>3, <2>4, <2>5 DEF DevInv
<1>6. CloudInv BY <1>2, <1>3, <1>4 DEF CloudInv
<1>7. Exclusive BY <1>5 DEF Exclusive, Window, Uploading
<1>8. \A d, e \in Devices : Minting(d, e) BY <1>5 DEF Minting
<1> QED BY <1>1, <1>5, <1>6, <1>7, <1>8 DEF IInv

LEMMA StutterInv == IInv /\ UNCHANGED vars => IInv'
<1> SUFFICES ASSUME IInv, UNCHANGED vars PROVE IInv' OBVIOUS
<1>1. TypeOK' BY DEF IInv, TypeOK, vars
<1>2. Committed' = Committed /\ CommittedMasters' = CommittedMasters
  BY DEF vars, Committed, CommittedMasters
<1>3. CloudInv'
  BY <1>2 DEF IInv, CloudInv, Extends, Listed, HasLatest, KeyBound, vars
<1>4. Calm BY <1>2 DEF Calm, vars, IInv, TypeOK, Masters
<1>5. ASSUME NEW d \in Devices PROVE DevInv(d)' /\ JobsOf(d)' = JobsOf(d)
  <2>1. JobsKept(d) /\ JobsOf(d)' = JobsOf(d) /\ Newest(d)' = Newest(d)
    BY SameJobs DEF vars
  <2>2. JobInv(d)' /\ SyncInv(d)' BY <1>4, <2>1, JobCalm, SyncCalm DEF vars
  <2>3. Live(d)' = Live(d) BY <2>1 DEF Live, vars
  <2>4. PairInv(d)'
    BY <1>2, <1>4, <2>1 DEF IInv, DevInv, PairInv, vars, Calm, Extends, Listed, HasLatest, KeyBound
  <2>5. RunInv(d)' BY <1>2, <2>1, <2>3 DEF IInv, DevInv, RunInv, vars
  <2> QED BY <2>1, <2>2, <2>4, <2>5 DEF DevInv
<1>6. Exclusive' BY DEF IInv, Exclusive, vars
<1>7. \A d, e \in Devices : Minting(d, e)' 
  <2>1. ASSUME NEW d \in Devices, NEW e \in Devices PROVE Minting(d, e)'
    <3>1. JobsOf(d)' = JobsOf(d) /\ JobsOf(e)' = JobsOf(e) BY <1>5
    <3>2. Minting(d, e) BY DEF IInv
    <3> QED BY <3>1, <3>2 DEF Minting
  <2> QED BY <2>1
<1> QED BY <1>1, <1>3, <1>5, <1>6, <1>7 DEF IInv

LEMMA CoreMoves ==
  ASSUME Core
  PROVE  \E d \in Devices : Move(d)
BY DEF Core, Move

\* The invariant of the rotation holds throughout, whatever crashes or is
\* resumed, when publications do not overlap.
THEOREM RotationInvariant == Overlap = FALSE => (CoreSpec => []IInv)
<1> SUFFICES ASSUME Overlap = FALSE PROVE CoreSpec => []IInv OBVIOUS
<1>1. Init => IInv BY InitInv
<1>2. IInv /\ [Core]_vars => IInv' BY MoveInv, StutterInv, CoreMoves
<1> QED BY <1>1, <1>2, PTL DEF CoreSpec

\* The types: no epoch, key or job outside its range, for any bounds.
THEOREM RotationTypes == Overlap = FALSE => (CoreSpec => []TypeOK)
<1> SUFFICES ASSUME Overlap = FALSE PROVE CoreSpec => []TypeOK OBVIOUS
<1>1. CoreSpec => []IInv BY RotationInvariant
<1>2. IInv => TypeOK BY DEF IInv
<1> QED BY <1>1, <1>2, PTL

-----------------------------------------------------------------------------
(* The refinement of Vault *)

LEMMA InitVault == Init => Vault!VaultInit
<1> SUFFICES ASSUME Init PROVE Vault!VaultInit OBVIOUS
<1>1. meta.epoch = 1 /\ meta.fp = 0 /\ Committed = {[epoch |-> 1, key |-> 0]}
  BY DEF Init, Meta0, List0, Committed
<1>2. [d \in Devices |-> db[d].epoch] = [d \in Devices |-> 1] BY DEF Init
<1> QED BY <1>1, <1>2 DEF Vault!VaultInit

\* A device that learns a later epoch adopts it; another step of it is none
\* of the vault.
LEMMA EpochsKept ==
  ASSUME IInv, NEW d \in Devices, Move(d), ~FinalizeSettings(d), ~PairIdentity(d)
  PROVE  db'[d].epoch = db[d].epoch
<1>0. TypeOK /\ RunInv(d) /\ db[d] \in Db BY DEF IInv, DevInv, TypeOK
<1> USE DEF Local, Cloud
<1>1. CASE Step(d)
  <2>1. CASE CommitBoot(d) \/ Load(d) \/ CheckEpoch(d)
    BY <2>1 DEF CommitBoot, Load, CheckEpoch
  <2>2. CASE CommitSettings(d)
    <3>1. db'[d] = [db[d] EXCEPT !.list = boot[d].list] BY <1>0, <2>2 DEF CommitSettings, TypeOK
    <3> QED BY <1>0, <3>1 DEF Db
  <2>3. CASE WriteRecovery(d) \/ WriteContent(d) \/ WriteMeta(d)
    BY <2>3 DEF WriteRecovery, WriteContent, WriteMeta
  <2>4. CASE ClearStash(d) \/ MarkDone(d) \/ Return(d)
    BY <2>4 DEF ClearStash, MarkDone, Return
  <2>5. CASE PairList(d)
    <3>1. db'[d] = [db[d] EXCEPT !.list = op[d].list] BY <1>0, <2>5 DEF PairList, TypeOK
    <3> QED BY <1>0, <3>1 DEF Db
  <2>6. CASE PairBoot(d) \/ PairAdopt(d) \/ PairRecheck(d) \/ PairBump(d)
    BY <2>6 DEF PairBoot, PairAdopt, PairRecheck, PairBump
  <2>7. CASE PairClear(d)
    <3>1. db'[d] = [db[d] EXCEPT !.flag = FALSE] BY <1>0, <2>7 DEF PairClear, TypeOK
    <3> QED BY <1>0, <3>1 DEF Db
  <2>8. CASE PasswordBoot(d) \/ KeepOffline(d) \/ RecoverBoot(d)
    BY <2>8 DEF PasswordBoot, KeepOffline, RecoverBoot
  <2> QED BY <1>1, <2>1, <2>2, <2>3, <2>4, <2>5, <2>6, <2>7, <2>8 DEF Step
<1>2. CASE Command(d)
  <2>1. CASE Rotate(d, "rotate") \/ Rotate(d, "reset")
    <3>1. db'[d] = [db[d] EXCEPT !.list.keys = Extended(@, minted + 1)]
      BY <1>0, <2>1 DEF Rotate, TypeOK
    <3> QED BY <1>0, <3>1 DEF Db
  <2>2. CASE ResumeFinalize(d) \/ Resume(d) \/ Unlock(d) \/ Lock(d) \/ RePair(d)
    BY <2>2 DEF ResumeFinalize, Resume, Unlock, Lock, RePair
  <2>3. CASE Detect(d) \/ Recheck(d) \/ ChangePassword(d) \/ Recover(d)
    <3>1. \/ \E b \in BOOLEAN : db'[d] = [db[d] EXCEPT !.flag = b]
          \/ \E p \in Passwords : db'[d] = [db[d] EXCEPT !.pw = p]
      BY <1>0, <2>3 DEF Detect, Recheck, ChangePassword, Recover, TypeOK
    <3> QED BY <1>0, <3>1 DEF Db
  <2> QED BY <1>2, <2>1, <2>2, <2>3 DEF Command
<1>3. CASE Fail(d) \/ (pc[d] \notin Pairing /\ Crash(d)) BY <1>3, FaultInv
<1> QED BY <1>1, <1>2, <1>3 DEF Move

\* The commit is the rotation of the vault.
LEMMA CommitRotates ==
  ASSUME IInv, NEW d \in Devices, WriteMeta(d)
  PROVE  Vault!Rotate
<1>1. pc[d] = "meta" /\ db' = db BY DEF WriteMeta, Local
<1>2. /\ meta'.epoch = meta.epoch + 1 /\ meta'.fp = Newest(d).new
      /\ Committed' = db[d].list.keys /\ Committed \subseteq Committed'
  BY MetaCommits
<1>3. Over(db[d].list.keys, meta.ce, Committed) BY <1>1, Publisher DEF Extends
<1>4. \E k \in db[d].list.keys : k.epoch > meta.ce /\ k.key = Newest(d).new
  BY <1>1, Publisher
<1>5. db[d].list.keys \subseteq Key /\ meta.ce \in Nat /\ \A k \in Key : k.epoch \in Nat
  BY RotationAssumption DEF IInv, TypeOK, Db, List, Key, Meta, Epochs
<1>6. \A k \in Committed : k.epoch <= meta.ce BY DEF Committed
<1>7. \A new \in Committed' \ Committed : new.epoch > meta.ce
  BY <1>2, <1>3, <1>5 DEF Over
<1>8. \A new \in Committed' \ Committed, k \in Committed :
         new.epoch > k.epoch /\ new.key # k.key
  BY <1>2, <1>3, <1>5, <1>6, <1>7 DEF Over
<1>9. \E new \in Committed' \ Committed : new.key = meta'.fp
  BY <1>2, <1>4, <1>5, <1>6
<1>10. [e \in Devices |-> db[e].epoch]' = [e \in Devices |-> db[e].epoch] BY <1>1
<1> QED BY <1>2, <1>8, <1>9, <1>10 DEF Vault!Rotate

LEMMA MoveImplements ==
  ASSUME IInv, NEW d \in Devices, Move(d)
  PROVE  [Vault!VaultNext]_(Vault!vaultVars)
<1>0. TypeOK BY DEF IInv
<1> DEFINE at == [e \in Devices |-> db[e].epoch]
<1>1. CASE WriteMeta(d) BY <1>1, CommitRotates DEF Vault!VaultNext
<1>2. CASE ~WriteMeta(d)
  <2>1. meta' = meta /\ Committed' = Committed BY <1>2, CalmStep DEF Calm
  <2>2. \A e \in Devices : e # d => db'[e] = db[e] BY <1>0, OthersStay DEF Same
  <2>3. CASE db'[d].epoch = db[d].epoch
    <3>1. at' = at BY <2>2, <2>3
    <3> QED BY <2>1, <3>1 DEF Vault!vaultVars
  <2>4. CASE db'[d].epoch # db[d].epoch
    <3>1. FinalizeSettings(d) \/ PairIdentity(d) BY <2>4, EpochsKept
    <3>2. db[d].epoch <= db'[d].epoch /\ db'[d].epoch <= meta.epoch
      BY <3>1, FinalizeInv, PairIdentityInv
    <3>3. db[d].epoch \in Nat /\ db'[d].epoch \in Nat /\ meta.epoch \in Nat
      <4>1. TypeOK' BY StepType, CommandType, FaultType DEF Move
      <4> QED BY <1>0, <4>1, RotationAssumption DEF TypeOK, Db, Meta, Epochs
    <3>4. db'[d].epoch \in at[d] + 1 .. meta.epoch BY <2>4, <3>2, <3>3
    <3>5. at' = [at EXCEPT ![d] = db'[d].epoch] BY <2>2
    <3>6. Vault!Adopt(d) BY <2>1, <3>4, <3>5 DEF Vault!Adopt
    <3> QED BY <3>6 DEF Vault!VaultNext
  <2> QED BY <2>3, <2>4
<1> QED BY <1>1, <1>2

\* Seen through _meta.json a rotation is atomic and loses no content key, for
\* any number of devices, rotations, crashes and resumptions.
THEOREM RotationRefinement == Overlap = FALSE => (CoreSpec => ImplementsVault)
<1> SUFFICES ASSUME Overlap = FALSE PROVE CoreSpec => Vault!VaultSpec
  BY DEF ImplementsVault
<1>1. CoreSpec => []IInv BY RotationInvariant
<1>2. Init => Vault!VaultInit BY InitVault
<1>3. IInv /\ [Core]_vars => [Vault!VaultNext]_(Vault!vaultVars)
  <2>1. ASSUME UNCHANGED vars PROVE UNCHANGED Vault!vaultVars
    <3>1. meta' = meta /\ Committed' = Committed /\ db' = db
      BY <2>1 DEF vars, Committed
    <3> QED BY <3>1 DEF Vault!vaultVars
  <2> QED BY <2>1, MoveImplements, CoreMoves
<1> QED BY <1>1, <1>2, <1>3, PTL DEF CoreSpec, Vault!VaultSpec

=============================================================================
