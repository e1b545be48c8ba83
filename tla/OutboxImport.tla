---------------------------- MODULE OutboxImport ----------------------------
(***************************************************************************)
(* Edits made in the browser, and their import by the desktops.            *)
(*                                                                         *)
(* The web companion never writes a file that desktops synchronise.  It    *)
(* keeps one draft per entry, uploads it to its own outbox folder, and     *)
(* drops it once the desktops' manifests and acks say what became of it.   *)
(* Every desktop reads the same outbox file in its own sync cycle and      *)
(* decides each field change on its own, by stamps and never by clocks; it *)
(* publishes the row, and then what it decided.                            *)
(*                                                                         *)
(* One entry and one browser.  A desktop write of a field stores a fresh   *)
(* positive number, change s of the web stores -s, and the body is the set *)
(* of web changes merged into it.                                          *)
(***************************************************************************)
EXTENDS Integers, FiniteSets

CONSTANTS
  Starts,        \* whether the entry exists at first (TRUE, FALSE or both)
  Desktops,      \* ids; the greater one wins a tie
  Fields,        \* fields of an entry, in the order an import decides them
  MaxSeq,        \* bound: saves on the web
  MaxEdits,      \* bound: writes on desktops
  MaxFaults,     \* bound: crashes and failed uploads
  MaxRequeues,   \* MAX_REQUEUES
  Synchronised,  \* clocks agree, and no two writes fall in one second
  MidApply,      \* a crash may cut an import in two
  Patient,       \* nobody writes until such an import is taken up again
  Wipes          \* a desktop may be wiped and keep its device id

ASSUME OutboxAssumption ==
  /\ Desktops \subseteq Nat /\ Desktops # {} /\ Fields \subseteq Nat \ {0}
  /\ IsFiniteSet(Desktops) /\ IsFiniteSet(Fields)
  /\ MaxSeq \in Nat /\ MaxEdits \in Nat /\ MaxFaults \in Nat /\ MaxRequeues \in Nat
  /\ Starts \subseteq BOOLEAN
  /\ {Synchronised, MidApply, Patient, Wipes} \subseteq BOOLEAN

VARIABLES
  row,      \* row[d]: the entry in d's database
  rec,      \* rec[d]: its row of web_outbox_imports
  cloud,    \* cloud[d]: what d's manifest and entry file say
  acks,     \* acks[d]: d's outbox-acks.bin
  pc,       \* pc[d]: step of d's sync cycle
  file,     \* the outbox file; its revision on the provider is a checksum, here ver
  draft,    \* the draft in the browser, and whether it is marked pushed
  synced,   \* what the browser last pulled, and whether a tombstone was in it
  resolved, \* the draft's changes that are settled
  notices,  \* the changes the user was told were replaced by a desktop
  last,     \* auxiliary: the stamp of the last write or wipe on a desktop
  cut,      \* auxiliary: a crash has cut an import in two
  seq, ver, requeues, edits, faults

web  == <<file, draft, synced, resolved, notices, seq, ver, requeues>>
vars == <<row, rec, cloud, acks, pc, web, edits, last, cut, faults>>

-----------------------------------------------------------------------------
(* Values. *)

Val  == (-MaxSeq)..MaxEdits
Web(s) == -s
States == {"none", "live", "trash", "purged"}

\* own: d wrote the entry, so its manifest lists it.
\* desk: auxiliary, the stamp of the last desktop write the row holds.
Row == [st : States, at : Nat, desk : Nat, own : BOOLEAN,
        val : [Fields -> Val], text : SUBSET (1..MaxSeq)]
NoRow == [st |-> "none", at |-> 0, desk |-> 0, own |-> FALSE,
          val |-> [f \in Fields |-> 0], text |-> {}]

Change   == [f : Fields, seq : 1..MaxSeq, base : Val, baseAt : Nat]
Decision == [f : Fields, seq : 1..MaxSeq, dec : {"applied", "reflected", "refused"}, at : Nat]
\* applied_from_updated_at, last_applied_updated_at and the fingerprint.
Edge  == [from : Nat, to : Nat, val : [Fields -> Val]]
Reasons == {"", "absent", "trashed", "target"}
Rec   == [out : {"none", "pending", "applied", "refused"}, rev : Nat, hash : Nat,
          edge : SUBSET Edge, decided : SUBSET Decision, plan : SUBSET Nat,
          made : BOOLEAN, why : Reasons]
NoRec == [out |-> "none", rev |-> 0, hash |-> 0, edge |-> {}, decided |-> {},
          plan |-> {}, made |-> FALSE, why |-> ""]
Ack   == [hash : Nat, upd : BOOLEAN, decided : SUBSET Decision, made : BOOLEAN,
          why : Reasons]
NoAck == [hash |-> 0, upd |-> FALSE, decided |-> {}, made |-> FALSE, why |-> ""]
Draft == [ver : Nat, made : BOOLEAN, chs : SUBSET Change, text : SUBSET (1..MaxSeq),
          pushed : BOOLEAN]
NoDraft == [ver |-> 0, made |-> FALSE, chs |-> {}, text |-> {}, pushed |-> FALSE]

TypeOK ==
  /\ row \in [Desktops -> Row] /\ cloud \in [Desktops -> Row]
  /\ rec \in [Desktops -> Rec] /\ acks \in [Desktops -> Ack]
  /\ pc \in [Desktops -> {"idle", "import", "publish", "acks"}]
  /\ file \in Draft /\ draft \in Draft
  /\ synced \in [row : Row, hard : BOOLEAN]
  /\ resolved \subseteq Change /\ notices \subseteq Change
  /\ seq \in 0..MaxSeq /\ ver \in Nat /\ requeues \in 0..MaxRequeues
  /\ edits \in 0..MaxEdits /\ last \in Nat /\ cut \in BOOLEAN /\ faults \in 0..MaxFaults

Later(a, b) == IF a > b THEN a ELSE b
Least(S) == CHOOSE x \in S : \A y \in S : x <= y

\* The entry is on every desktop and published by one of them, or nowhere.
Init ==
  /\ \E r \in {IF b THEN [NoRow EXCEPT !.st = "live", !.at = 1, !.desk = 1] ELSE NoRow :
                b \in Starts} :
       /\ row = [d \in Desktops |-> [r EXCEPT !.own = r.st = "live" /\ d = Least(Desktops)]]
       /\ cloud = [d \in Desktops |-> IF row[d].own THEN row[d] ELSE NoRow]
       /\ synced = [row |-> [cloud[Least(Desktops)] EXCEPT !.own = FALSE], hard |-> FALSE]
  /\ rec = [d \in Desktops |-> NoRec] /\ acks = [d \in Desktops |-> NoAck]
  /\ pc = [d \in Desktops |-> "idle"]
  /\ file = NoDraft /\ draft = NoDraft
  /\ resolved = {} /\ notices = {}
  /\ seq = 0 /\ ver = 0 /\ requeues = 0 /\ edits = 0 /\ last = 0 /\ cut = FALSE
  /\ faults = 0

Goto(d, step) == pc' = [pc EXCEPT ![d] = step]
Fault == faults < MaxFaults /\ faults' = faults + 1

-----------------------------------------------------------------------------
(* Stamps: updated_at = max(updated_at + k, now). *)

Stamps == {row[d].at : d \in Desktops} \cup {cloud[d].at : d \in Desktops}
            \cup {synced.row.at}
Latest == {x \in Stamps : \A y \in Stamps : y <= x}
Clock  == IF Synchronised THEN {x + 1 : x \in Latest} ELSE UNION {0..(x + 1) : x \in Stamps}

\* Writes on a desktop.
DesktopWrite(d, r) ==
  /\ edits < MaxEdits
  /\ Patient => \A e \in Desktops : rec[e].out # "pending"
  /\ row' = [row EXCEPT ![d] = [r EXCEPT !.own = TRUE, !.desk = r.at]]
  /\ edits' = edits + 1 /\ last' = Later(last, r.at)
  /\ UNCHANGED <<rec, cloud, acks, pc, web, cut, faults>>

EditField(d) == \E f \in Fields, now \in Clock :
  /\ row[d].st = "live"
  /\ DesktopWrite(d, [row[d] EXCEPT !.at = Later(@ + 1, now), !.val[f] = edits + 1])
Trash(d) == \E now \in Clock :
  /\ row[d].st = "live"
  /\ DesktopWrite(d, [row[d] EXCEPT !.at = Later(@ + 1, now), !.st = "trash"])
Restore(d) == \E now \in Clock :
  /\ row[d].st = "trash"
  /\ DesktopWrite(d, [row[d] EXCEPT !.at = Later(@ + 2, now), !.st = "live"])
Purge(d) ==
  /\ row[d].st = "trash"
  /\ DesktopWrite(d, [row[d] EXCEPT !.at = @ + 1, !.st = "purged"])

\* An archive replaces everything: entries and import records go, the acks
\* file in the cloud stays.
Wipe(d) ==
  /\ Wipes /\ pc[d] = "idle" /\ row[d] # NoRow /\ edits < MaxEdits
  /\ row' = [row EXCEPT ![d] = NoRow] /\ rec' = [rec EXCEPT ![d] = NoRec]
  /\ edits' = edits + 1 /\ last' \in {x + 1 : x \in Latest}
  /\ UNCHANGED <<cloud, acks, pc, web, cut, faults>>

-----------------------------------------------------------------------------
(* A sync cycle of desktop d: push and pull, import, push again, acks. *)

Listed(d) == IF row[d].own THEN row[d] ELSE NoRow

\* Only a strictly newer line is pulled; the bodies merge.
Pulled(r, other) ==
  IF other.at > r.at /\ (r.st = "none" => other.st # "purged")
  THEN [other EXCEPT !.own = r.own, !.text = @ \cup r.text]
  ELSE r

Sync(d) ==
  /\ pc[d] = "idle"
  /\ cloud' = [cloud EXCEPT ![d] = Listed(d)]
  /\ \E e \in Desktops :
       /\ \A x \in Desktops : cloud'[x].at <= cloud'[e].at
       /\ row' = [row EXCEPT ![d] = Pulled(@, cloud'[e])]
  /\ Goto(d, "import")
  /\ UNCHANGED <<rec, acks, web, edits, last, cut, faults>>

\* Mutant: the acks are rebuilt from the table alone.
AckedFromTable(d) ==
  [hash |-> rec[d].hash, upd |-> rec[d].edge # {}, decided |-> rec[d].decided,
   made |-> rec[d].made, why |-> rec[d].why]

\* What d says of the file: its record, over an earlier "created".
Acked(d) ==
  [hash |-> rec[d].hash, upd |-> rec[d].edge # {}, decided |-> rec[d].decided,
   made |-> rec[d].made \/ acks[d].made, why |-> rec[d].why]

AcksNow(d) ==
  CASE rec[d].out \in {"applied", "refused"}   -> Acked(d)
    [] rec[d].out = "pending" /\ ~acks[d].made -> NoAck
    [] OTHER                                   -> acks[d]

\* To the acks, which are not written when they say nothing new.
ToAcks(d) == Goto(d, IF AcksNow(d) = acks[d] THEN "idle" ELSE "acks")

\* A pull with errors defers every intent; an unreadable acks file stops the
\* acks too.
Defer(d) ==
  /\ pc[d] = "import" /\ Fault
  /\ ToAcks(d) \/ Goto(d, "idle")
  /\ UNCHANGED <<row, rec, cloud, acks, web, edits, last, cut>>

\* Nothing new: read_file_if_changed, unless the record is pending.
Unchanged(d) == file.ver = 0 \/ (rec[d].out # "pending" /\ rec[d].rev = file.ver)

Skip(d) ==
  /\ pc[d] = "import" /\ Unchanged(d)
  /\ ToAcks(d)
  /\ UNCHANGED <<row, rec, cloud, acks, web, edits, last, cut, faults>>

\* A pending file is read whatever its revision, and keeps the recorded one.
Revision(d) == IF rec[d].out = "pending" THEN rec[d].rev ELSE file.ver

KnownLive == \E e \in Desktops : cloud[e].st \in {"live", "trash"}
KnownDead == ~KnownLive /\ \E e \in Desktops : cloud[e].st = "purged"

\* Why the whole revision is refused, "" when it is not.
Refusal(d) ==
  CASE row[d].st = "trash"  -> "trashed"
    [] row[d].st = "purged" -> "target"
    [] row[d].st = "none" /\ (\/ KnownDead
                              \/ ~file.made
                              \/ rec[d].made
                              \/ acks[d].made) -> "absent"
    [] OTHER -> ""

Refuse(d) ==
  /\ pc[d] = "import" /\ ~Unchanged(d)
  /\ Refusal(d) # ""
  /\ row[d].st = "none" => ~KnownLive
  /\ rec' = [rec EXCEPT ![d] =
       [NoRec EXCEPT !.out = "refused", !.rev = Revision(d), !.hash = file.ver,
                     !.decided = rec[d].decided, !.why = Refusal(d),
                     !.made = rec[d].made \/ (row[d].st = "none" /\ file.made
                                                /\ ~KnownDead)]]
  /\ Goto(d, "acks")
  /\ UNCHANGED <<row, cloud, acks, web, edits, last, cut, faults>>

\* A peer has the entry and this desktop does not yet.
AwaitPull(d) ==
  /\ pc[d] = "import" /\ ~Unchanged(d)
  /\ row[d].st = "none" /\ KnownLive
  /\ ToAcks(d)
  /\ UNCHANGED <<row, rec, cloud, acks, web, edits, last, cut, faults>>

-----------------------------------------------------------------------------
(* Applying a draft to a live row, field by field. *)

\* The stamp the bases are compared with: the pending plan's after a crash.
Before(d) == IF rec[d].out = "pending" THEN Least(rec[d].plan) ELSE row[d].at

\* The web's own applies explain every change of the row from base to now.
Edges(d) == IF rec[d].out \in {"applied", "pending"} THEN rec[d].edge ELSE {}
Clean(d) == \A g \in rec[d].edge : g.to = Before(d) => g.val = row[d].val
OwnPrior(d, base) ==
  /\ Clean(d)
  /\ \E g \in Edges(d) : g.from <= base /\ base <= g.to /\ g.to = Before(d)

\* Mutant: any base the web has once applied on still chains.
ChainsByStart(d, base) ==
  base = Before(d) \/ \E g \in Edges(d) : g.from <= base

Chains(d, base) == base = Before(d) \/ OwnPrior(d, base)

Untouched(d) == \E g \in rec[d].edge : g.to = Before(d) /\ g.val = row[d].val

\* Mutant: a field the desktop changed since is overwritten.
WebWins(d, ch) ==
  IF row[d].val[ch.f] = Web(ch.seq) THEN "reflected" ELSE "applied"

\* evaluate_field
Decide(d, ch) ==
  CASE row[d].val[ch.f] = Web(ch.seq)                -> "reflected"
    [] row[d].val[ch.f] # Web(ch.seq) /\ Chains(d, ch.baseAt) -> "applied"
    [] row[d].val[ch.f] = ch.base /\ ~Chains(d, ch.baseAt) /\ Untouched(d) -> "applied"
    [] OTHER                                         -> "refused"

Undecided(d) == {ch \in file.chs :
  \A x \in rec[d].decided : <<x.f, x.seq>> # <<ch.f, ch.seq>>}
Applied(d) == {ch \in Undecided(d) : Decide(d, ch) = "applied"}
NewText(d) == file.text \ row[d].text

\* row r after the changes chs and the text were written, each write a commit
\* of its own that moves the stamp.
Written(r, chs, text, now) ==
  LET writes == Cardinality(chs) + IF text \subseteq r.text THEN 0 ELSE 1
      Val2(f) == IF \E ch \in chs : ch.f = f
                 THEN Web((CHOOSE ch \in chs : ch.f = f).seq) ELSE r.val[f]
  IN  IF writes = 0 THEN r
      ELSE [r EXCEPT !.at = Later(@ + 1, now) + writes - 1, !.own = TRUE,
                     !.val = [f \in Fields |-> Val2(f)], !.text = @ \cup text]

Decisions(d, now) == rec[d].decided \cup
  {[f |-> ch.f, seq |-> ch.seq, dec |-> Decide(d, ch), at |-> now] : ch \in Undecided(d)}

\* Where the new edge starts: the least base that was applied by its stamp, or
\* the previous start while the chain still holds.
Start(d) ==
  LET bases == {ch.baseAt : ch \in {x \in Applied(d) : Chains(d, x.baseAt)}}
      prev  == {g.from : g \in {x \in Edges(d) : Chains(d, x.from)}}
  IN  IF bases \cup prev = {} THEN Before(d) ELSE Least(bases \cup prev)

AppliedRec(d, r, from, decided) ==
  [out |-> "applied", rev |-> Revision(d), hash |-> file.ver,
   edge |-> {[from |-> from, to |-> r.at, val |-> r.val]},
   decided |-> decided, plan |-> {}, made |-> rec[d].made \/ file.made, why |-> ""]

Imported(d, now) == Written(row[d], Applied(d), file.text, now)

Apply(d) == \E now \in Clock :
  /\ pc[d] = "import" /\ ~Unchanged(d)
  /\ row[d].st = "live"
  /\ row' = [row EXCEPT ![d] = Imported(d, now)]
  /\ rec' = [rec EXCEPT ![d] =
       AppliedRec(d, Imported(d, now), Start(d), Decisions(d, now))]
  /\ Goto(d, "publish")
  /\ UNCHANGED <<cloud, acks, web, edits, last, cut, faults>>

\* The row the web asked for, inserted at now and given its body after.
Created(now) ==
  [Written([NoRow EXCEPT !.st = "live"], file.chs, {}, 0) EXCEPT
     !.at = now + 1, !.own = TRUE, !.text = file.text]

CanCreate(d) ==
  /\ pc[d] = "import" /\ ~Unchanged(d)
  /\ row[d].st = "none" /\ ~KnownLive /\ Refusal(d) = ""

Create(d) == \E now \in Clock :
  /\ CanCreate(d)
  /\ row' = [row EXCEPT ![d] = Created(now)]
  /\ rec' = [rec EXCEPT ![d] = AppliedRec(d, Created(now), 0, rec[d].decided \cup
       {[f |-> ch.f, seq |-> ch.seq, dec |-> "applied", at |-> now] :
          ch \in file.chs})]
  /\ Goto(d, "publish")
  /\ UNCHANGED <<cloud, acks, web, edits, last, cut, faults>>

\* A crash in the middle: the pending record was committed first, then the
\* body, then some of the fields in order.
Pending(d, plan, edge) ==
  rec' = [rec EXCEPT ![d].out = "pending", ![d].hash = file.ver,
                     ![d].plan = {plan}, ![d].edge = edge, ![d].why = ""]

Cut(d) ==
  /\ MidApply /\ Fault
  /\ pc[d] = "import" /\ ~Unchanged(d)
  /\ \/ /\ row[d].st = "live"
        /\ \E now \in Clock, k \in Fields \cup {0}, t \in {{}, file.text} :
             /\ k # 0 => t = file.text
             /\ row' = [row EXCEPT ![d] =
                  Written(@, {ch \in Applied(d) : ch.f <= k}, t, now)]
        /\ Pending(d, Before(d), rec[d].edge)
     \/ /\ CanCreate(d)
        /\ \E now \in Clock :
             row' \in {row, [row EXCEPT ![d] = Created(now)],
                       [row EXCEPT ![d] = [Created(now) EXCEPT
                          !.at = now, !.own = FALSE, !.text = {}]]}
        /\ Pending(d, 0, {})
  /\ Goto(d, "idle")
  /\ cut' = TRUE /\ UNCHANGED <<cloud, acks, web, edits, last>>

\* Rows that were applied go out before the acks do; the acks follow whatever
\* became of them.
Publish(d) ==
  /\ pc[d] = "publish"
  /\ \/ /\ cloud' = [cloud EXCEPT ![d] = Listed(d)]
        /\ UNCHANGED faults
     \/ Fault /\ UNCHANGED cloud
  /\ Goto(d, "acks")
  /\ UNCHANGED <<row, rec, acks, web, edits, last, cut>>

WriteAcks(d) ==
  /\ pc[d] = "acks"
  /\ acks' = [acks EXCEPT ![d] = AcksNow(d)]
  /\ Goto(d, "idle")
  /\ UNCHANGED <<row, rec, cloud, web, edits, last, cut, faults>>

Crash(d) ==
  /\ pc[d] # "idle" /\ Fault
  /\ Goto(d, "idle")
  /\ UNCHANGED <<row, rec, cloud, acks, web, edits, last, cut>>

-----------------------------------------------------------------------------
(* The browser.  The desktops' files are read as they are. *)

Desk == <<row, rec, cloud, acks, pc, edits, last, cut, faults>>

\* The base of an unsettled change is kept until it settles.
Base(f) ==
  LET prior == {ch \in draft.chs \ resolved : ch.f = f}
  IN  IF prior = {} THEN [base |-> synced.row.val[f], at |-> synced.row.at]
      ELSE LET ch == CHOOSE x \in prior : TRUE IN [base |-> ch.base, at |-> ch.baseAt]

\* Saving seals a new revision, unpushed, without the settled changes.
Save(made, chs, text) ==
  /\ ver' = ver + 1
  /\ draft' = [ver |-> ver + 1, made |-> made, chs |-> chs, text |-> text, pushed |-> FALSE]
  /\ resolved' = {}
  /\ UNCHANGED <<file, synced, notices, requeues, Desk>>

NextSeq == seq < MaxSeq /\ seq' = seq + 1

\* A new entry has fields only; its body is typed afterwards.
WebCreate ==
  /\ NextSeq /\ ver = 0 /\ \A d \in Desktops : row[d] = NoRow
  /\ Save(TRUE, {[f |-> f, seq |-> seq', base |-> 0, baseAt |-> 0] : f \in Fields}, {})

\* A write needs a visible entry: pulled and live, or created here.
Writable == synced.row.st = "live" \/ (synced.row.st = "none" /\ draft.made)

WebEdit == \E f \in Fields :
  /\ NextSeq /\ Writable
  /\ Save(draft.made,
          {ch \in draft.chs \ resolved : ch.f # f} \cup
            {[f |-> f, seq |-> seq', base |-> Base(f).base, baseAt |-> Base(f).at]},
          draft.text)

WebType ==
  /\ NextSeq /\ Writable
  /\ Save(draft.made, draft.chs \ resolved, draft.text \cup {seq'})

\* The upload and the mark are two steps; a page closed in between repeats it.
WebPush ==
  /\ draft.ver # 0 /\ ~draft.pushed
  /\ file' = draft
  /\ \/ draft' = [draft EXCEPT !.pushed = TRUE] /\ UNCHANGED faults
     \/ Fault /\ UNCHANGED draft
  /\ UNCHANGED <<row, rec, cloud, acks, pc, edits, last, cut, synced, resolved, notices, seq, ver, requeues>>

\* lwwWinner: the newer row, then the trashed one, then the greater device.
Winner(e) == \A d \in Desktops :
  \/ cloud[d].at < cloud[e].at
  \/ /\ cloud[d].at = cloud[e].at
     /\ \/ cloud[e].st = "trash" /\ cloud[d].st # "trash"
        \/ (cloud[e].st = "trash") = (cloud[d].st = "trash") /\ d <= e

HardDeleted == \E d \in Desktops : cloud[d].st = "purged"

WebPull ==
  /\ \E e \in Desktops : Winner(e) /\
       synced' = [row |-> [cloud[e] EXCEPT !.own = FALSE], hard |-> HardDeleted]
  /\ synced' # synced
  /\ UNCHANGED <<file, draft, resolved, notices, seq, ver, requeues, Desk>>

Decided(ch) == {p \in Desktops \X UNION {acks[d].decided : d \in Desktops} :
                  p[2] \in acks[p[1]].decided /\ p[2].f = ch.f /\ p[2].seq = ch.seq}
Landing(ch) == {p[2].at : p \in {q \in Decided(ch) : q[2].dec \in {"applied", "reflected"}}}

AllDecided(ch) == \A d \in Desktops : \E p \in Decided(ch) : p[1] = d

Reflected(ch) == synced.row.val[ch.f] = Web(ch.seq)

\* Mutant: a change in flight is reported as replaced.
ReplacedAtOnce(ch) == Landing(ch) # {} \/ AllDecided(ch)

\* Mutant: a refusal settles nothing.
ReplacedIfLanded(ch) ==
  Landing(ch) # {} /\ \A at \in Landing(ch) : synced.row.at >= at

\* Superseded after it was applied, or refused by every desktop for a change
\* the browser has seen.
Replaced(ch) ==
  IF Landing(ch) # {} THEN \A at \in Landing(ch) : synced.row.at >= at
  ELSE AllDecided(ch) /\ synced.row.at # ch.baseAt

\* resolveField, for the changes that are not settled yet
Open == draft.chs \ resolved
Replacing == IF synced.row.st = "none" THEN {}
             ELSE {ch \in Open : ~Reflected(ch) /\ Replaced(ch)}
Settling  == Replacing \cup {ch \in Open : synced.row.st # "none" /\ Reflected(ch)}

CreateRefused ==
  /\ draft.made /\ draft.pushed
  /\ \A d \in Desktops : acks[d].hash = draft.ver /\ acks[d].why # "" /\ ~acks[d].made

\* Mutant: the text of the draft is not compared.
SettledFields == draft.chs \subseteq resolved \cup Settling

Settled ==
  /\ synced.row.st = "live"
  /\ draft.chs \subseteq resolved \cup Settling
  /\ draft.text \subseteq synced.row.text

Silent == synced.row.st = "trash" /\ ~synced.hard
DropDraft == synced.hard \/ (~Silent /\ (CreateRefused \/ Settled))

Told == IF synced.hard \/ Silent \/ CreateRefused THEN {} ELSE Replacing

\* The file was refused because the entry was in Trash, and it is back.
RefusedTrashed ==
  /\ \E d \in Desktops : acks[d].hash = draft.ver /\ acks[d].why = "trashed"
  /\ \A d \in Desktops : acks[d].hash = draft.ver => ~acks[d].upd

Rebased(ch) == IF synced.row.val[ch.f] = ch.base
               THEN [ch EXCEPT !.baseAt = synced.row.at] ELSE ch

\* Mutant: no count of requeues.
RequeuesAnyway == draft.pushed /\ synced.row.st = "live" /\ RefusedTrashed

MayRequeue ==
  /\ draft.pushed /\ synced.row.st = "live" /\ RefusedTrashed
  /\ requeues < MaxRequeues

WebDrop ==
  /\ draft.pushed /\ DropDraft
  /\ draft' = NoDraft /\ resolved' = {} /\ requeues' = 0
  /\ notices' = notices \cup Told
  /\ UNCHANGED <<file, synced, seq, ver, Desk>>

WebSettle ==
  /\ draft.ver # 0 /\ ~(draft.pushed /\ DropDraft)
  /\ ~synced.hard /\ ~Silent
  /\ notices' = notices \cup Replacing
  /\ IF MayRequeue
     THEN /\ draft' = [draft EXCEPT !.ver = ver + 1, !.pushed = FALSE,
                         !.chs = {Rebased(ch) : ch \in @ \ (resolved \cup Settling)}]
          /\ ver' = ver + 1 /\ requeues' = requeues + 1 /\ resolved' = {}
     ELSE /\ resolved' = resolved \cup Settling
          /\ UNCHANGED <<draft, ver, requeues>>
  /\ <<draft', resolved'>> # <<draft, resolved>>
  /\ UNCHANGED <<file, synced, seq, Desk>>

-----------------------------------------------------------------------------

Cycle(d) ==
  \/ Sync(d) \/ Skip(d) \/ Refuse(d) \/ AwaitPull(d) \/ Apply(d) \/ Create(d)
  \/ Publish(d) \/ WriteAcks(d)
Break(d) == Defer(d) \/ Cut(d) \/ Crash(d)
Edit(d)  == EditField(d) \/ Trash(d) \/ Restore(d) \/ Purge(d) \/ Wipe(d)
Retention == WebPush \/ WebPull \/ WebDrop \/ WebSettle

Next == \/ \E d \in Desktops : Cycle(d) \/ Break(d) \/ Edit(d)
        \/ WebCreate \/ WebEdit \/ WebType \/ Retention

Spec == /\ Init /\ [][Next]_vars
        /\ \A d \in Desktops : WF_vars(Cycle(d))
        /\ WF_vars(WebPush) /\ WF_vars(WebPull) /\ WF_vars(WebDrop) /\ WF_vars(WebSettle)

-----------------------------------------------------------------------------
(* Properties. *)

\* An import overwrites what a desktop wrote only with a change the browser
\* made on that value, or on a version of the entry newer than that write
\* (apply_intent_full, chain_reaches).
DesktopEditsWin ==
  [][\A d \in Desktops, f \in Fields :
       pc[d] = "import" /\ row'[d].val[f] < 0 /\ row'[d].val[f] # row[d].val[f]
         => \/ row[d].val[f] < 0
            \/ \E ch \in file.chs :
                 /\ ch.f = f /\ Web(ch.seq) = row'[d].val[f]
                 /\ ch.base = row[d].val[f] \/ row[d].desk <= ch.baseAt]_vars

\* An entry a desktop reported as created is never created there again, not
\* even after its database was replaced (the own acks keep the mark).
CreatedOnce ==
  [][\A d \in Desktops : acks[d].made =>
       acks'[d].made /\ (pc[d] = "import" /\ row[d].st = "none" => row'[d].st = "none")]_vars

\* Text typed in the browser stays in the draft or in some database, unless the
\* entry was purged, its creation refused or a desktop wiped (saveEntryContent,
\* contentReflected, the merge of apply_intent_full).  A wiped desktop lacks the
\* entry although one was written.
Held == draft.text \cup UNION {row[d].text : d \in Desktops}
Wiped == Wipes /\ \E d \in Desktops : row[d] = NoRow /\ last > 0
TextIsKept ==
  [][synced.hard \/ CreateRefused \/ Wiped \/ Wiped' \/ Held \subseteq Held']_vars

\* A change is reported as replaced by a desktop only when one has written the
\* entry, or was wiped, after the version the change was made on (resolveField),
\* unless an import was cut in two: the next revision is compared with the stamp
\* the cut one kept.
NoticesAreTrue == [][\A ch \in notices' \ notices : cut \/ last > ch.baseAt]_vars

\* Unless a crash cuts an import in two, every draft is in the end dropped, or
\* waits for an entry that is in Trash or was wiped, or has used up its requeues
\* (runRetention).
DraftsSettle ==
  [](\A d \in Desktops : rec[d].out # "pending")
    => <>[](draft.ver = 0 \/ synced.row.st \in {"none", "trash"} \/ requeues = MaxRequeues)
=============================================================================
