------------------------- MODULE OutboxImportProofs -------------------------
(***************************************************************************)
(* Theorems about OutboxImport, for any desktops, fields and bounds: the   *)
(* types, that an entry is created once, when no crash cuts an import in   *)
(* two that desktop edits win, and when no desktop is wiped that text the  *)
(* user typed is kept.                                                     *)
(***************************************************************************)
EXTENDS OutboxImport, FiniteSetTheorems, WellFoundedInduction, TLAPS

\* Every nonempty set of numbers has a least one.
LEMMA LeastOfNat ==
  ASSUME NEW S \in SUBSET Nat, S # {}
  PROVE  Least(S) \in S /\ \A y \in S : Least(S) <= y
<1>1. IsWellFoundedOn(OpToRel(<, Nat), Nat) BY NatLessThanWellFounded
<1>2. PICK x \in S : \A y \in S : ~ (<<y, x>> \in OpToRel(<, Nat))
  BY <1>1, WFMin
<1>3. \A y \in S : ~(y < x) BY <1>2 DEF OpToRel
<1>4. \A y \in S : x <= y BY <1>3
<1> QED BY <1>4 DEF Least

-----------------------------------------------------------------------------
(* Once reported as created, an entry is not created again. *)

Shape == DOMAIN row = Desktops /\ DOMAIN acks = Desktops

LEMMA ShapeKept == Shape /\ [Next]_vars => Shape'
<1> SUFFICES ASSUME Shape, [Next]_vars PROVE Shape' OBVIOUS
<1> USE DEF Shape
<1>1. CASE UNCHANGED vars BY <1>1 DEF vars
<1>2. ASSUME NEW d \in Desktops, Cycle(d) PROVE Shape'
  BY <1>2 DEF Cycle, Sync, Skip, Refuse, AwaitPull, Apply, Create, Publish, WriteAcks
<1>3. ASSUME NEW d \in Desktops, Break(d) PROVE Shape'
  <2>1. CASE Cut(d)
    <3>1. \E x, y, z : row' \in {row, [row EXCEPT ![d] = x], [row EXCEPT ![d] = y],
                                [row EXCEPT ![d] = z]}
      BY <2>1 DEF Cut
    <3> QED BY <2>1, <3>1 DEF Cut
  <2> QED BY <1>3, <2>1 DEF Break, Defer, Crash
<1>4. ASSUME NEW d \in Desktops, Edit(d) PROVE Shape'
  BY <1>4 DEF Edit, EditField, Trash, Restore, Purge, Wipe, DesktopWrite
<1>5. CASE WebCreate \/ WebEdit \/ WebType \/ Retention
  BY <1>5 DEF WebCreate, WebEdit, WebType, Retention, WebPush, WebPull, WebDrop,
     WebSettle, Save, Desk
<1> QED BY <1>1, <1>2, <1>3, <1>4, <1>5 DEF Next

\* What a step of one desktop, or of the browser, does to d.
Again(d) ==
  /\ acks'[d].made
  /\ pc[d] = "import" /\ row[d].st = "none" => row'[d].st = "none"

\* The acks of a created entry go on saying so, and keep CanCreate away.
LEMMA AcksKeepCreated ==
  ASSUME Shape, [Next]_vars, NEW d \in Desktops, acks[d].made
  PROVE  Again(d)
<1> USE DEF Shape, Again
<1>0. AcksNow(d).made BY DEF AcksNow, Acked
<1>1. ~CanCreate(d) BY DEF CanCreate, Refusal
<1>2. CASE UNCHANGED vars BY <1>2 DEF vars
<1>3. ASSUME NEW e \in Desktops, Cycle(e) PROVE Again(d)
  BY <1>0, <1>1, <1>3 DEF Cycle, Sync, Skip, Refuse, AwaitPull, Apply, Create, Publish, WriteAcks
<1>4. ASSUME NEW e \in Desktops, Break(e) PROVE Again(d)
  <2>1. CASE Cut(e)
    <3>1. acks' = acks BY <2>1 DEF Cut
    <3>2. CASE row[e].st = "live"
      <4>1. \E x : row' = [row EXCEPT ![e] = x] \/ row' = row BY <2>1, <3>2 DEF Cut, CanCreate
      <4> QED BY <3>1, <3>2, <4>1
    <3>3. CASE CanCreate(e)
      <4>1. e # d BY <1>1, <3>3
      <4>2. \E x, y : row' \in {row, [row EXCEPT ![e] = x], [row EXCEPT ![e] = y]}
        BY <2>1, <3>3 DEF Cut, CanCreate
      <4> QED BY <3>1, <4>1, <4>2
    <3> QED BY <2>1, <3>2, <3>3 DEF Cut
  <2> QED BY <1>4, <2>1 DEF Break, Defer, Crash
<1>5. ASSUME NEW e \in Desktops, Edit(e) PROVE Again(d)
  BY <1>5 DEF Edit, EditField, Trash, Restore, Purge, Wipe, DesktopWrite
<1>6. CASE WebCreate \/ WebEdit \/ WebType \/ Retention
  BY <1>6 DEF WebCreate, WebEdit, WebType, Retention, WebPush, WebPull, WebDrop,
     WebSettle, Save, Desk
<1> QED BY <1>2, <1>3, <1>4, <1>5, <1>6 DEF Next

\* CreatedOnce for any number of desktops, whatever is cut, wiped or lost.
THEOREM CreatedOnlyOnce == Spec => CreatedOnce
<1>1. Init => Shape BY DEF Init, Shape
<1>2. Shape /\ [Next]_vars => Shape' BY ShapeKept
<1>3. Shape /\ [Next]_vars =>
        [\A d \in Desktops : acks[d].made =>
           acks'[d].made /\ (pc[d] = "import" /\ row[d].st = "none" => row'[d].st = "none")]_vars
  BY AcksKeepCreated DEF Again
<1> QED BY <1>1, <1>2, <1>3, PTL DEF Spec, CreatedOnce

-----------------------------------------------------------------------------
(* Types. *)

\* Types, and what the stamps of an import rely on: changes are finitely many
\* and a pending record has the stamp it started from.
TInv ==
  /\ TypeOK
  /\ IsFiniteSet(file.chs) /\ IsFiniteSet(draft.chs)
  /\ \A d \in Desktops : rec[d].out = "pending" => rec[d].plan # {}

LEMMA EmptyValues ==
  /\ NoRow \in Row /\ NoRec \in Rec /\ NoAck \in Ack /\ NoDraft \in Draft
  /\ NoRow.at = 0 /\ NoRow.desk = 0 /\ NoRow.st = "none" /\ NoRow.own = FALSE
  /\ NoDraft.chs = {} /\ NoRec.out = "none" /\ NoRec.edge = {}
BY OutboxAssumption DEF NoRow, Row, NoRec, Rec, NoAck, Ack, NoDraft, Draft, Val, States, Reasons

LEMMA Values ==
  /\ Val \subseteq Int /\ 0 \in Val
  /\ \A n \in 1..MaxSeq : Web(n) \in Val /\ Web(n) < 0
  /\ \A n \in 1..MaxEdits : n \in Val
BY OutboxAssumption DEF Val, Web

LEMMA ClockType ==
  ASSUME TypeOK
  PROVE  Clock \subseteq Nat /\ {x + 1 : x \in Latest} \subseteq Nat
<1>1. Stamps \subseteq Nat BY DEF TypeOK, Row, Stamps
<1> QED BY <1>1 DEF Clock, Latest

\* Written moves the stamp of the row it changes, and no other of these.
LEMMA WrittenRow ==
  ASSUME NEW r \in Row, NEW chs \in SUBSET Change, IsFiniteSet(chs),
         NEW text \in SUBSET (1..MaxSeq), NEW now \in Nat
  PROVE  LET w == Written(r, chs, text, now)
         IN  /\ w \in Row /\ w.st = r.st /\ w.desk = r.desk
             /\ w = r \/ w.at > r.at
<1> DEFINE writes == Cardinality(chs) + IF text \subseteq r.text THEN 0 ELSE 1
           V2(f) == IF \E ch \in chs : ch.f = f
                    THEN Web((CHOOSE ch \in chs : ch.f = f).seq) ELSE r.val[f]
           at2 == Later(r.at + 1, now) + writes - 1
<1>1. writes \in Nat BY FS_CardinalityType
<1>2. \A f \in Fields : V2(f) \in Val
  <2>1. TAKE f \in Fields
  <2>2. CASE \E ch \in chs : ch.f = f
    <3>1. (CHOOSE ch \in chs : ch.f = f) \in chs BY <2>2
    <3>2. (CHOOSE ch \in chs : ch.f = f).seq \in 1..MaxSeq BY <3>1 DEF Change
    <3> QED BY <2>2, <3>2, Values
  <2> QED BY <2>2 DEF Row
<1>3. r.at \in Nat /\ r.text \subseteq 1..MaxSeq BY DEF Row
<1>4. writes # 0 => at2 \in Nat /\ at2 > r.at BY <1>1, <1>3 DEF Later
<1>5. [f \in Fields |-> V2(f)] \in [Fields -> Val] BY <1>2
<1> HIDE DEF V2, at2
<1> DEFINE w2 == [r EXCEPT !.at = at2, !.own = TRUE,
                           !.val = [f \in Fields |-> V2(f)], !.text = @ \cup text]
<1>6. writes # 0 => /\ w2 \in Row /\ w2.st = r.st /\ w2.desk = r.desk /\ w2.at = at2
  BY <1>3, <1>4, <1>5 DEF Row
<1>7. Written(r, chs, text, now) = IF writes = 0 THEN r ELSE w2
  BY DEF Written, V2, at2
<1> HIDE DEF writes, w2
<1> QED BY <1>4, <1>6, <1>7

LEMMA BeforeType ==
  ASSUME TInv, NEW d \in Desktops
  PROVE  Before(d) \in Nat
<1>1. row[d] \in Row /\ rec[d] \in Rec BY DEF TInv, TypeOK
<1>2. rec[d].plan \in SUBSET Nat /\ row[d].at \in Nat BY <1>1 DEF Row, Rec
<1>3. CASE rec[d].out = "pending"
  <2>1. rec[d].plan # {} BY <1>3 DEF TInv
  <2> QED BY <1>2, <1>3, <2>1, LeastOfNat DEF Before
<1> QED BY <1>2, <1>3 DEF Before

\* What an import reads and what it makes of it.
LEMMA ImportTypes ==
  ASSUME TInv, NEW d \in Desktops
  PROVE  /\ row[d] \in Row /\ rec[d] \in Rec /\ file \in Draft
         /\ file.chs \subseteq Change /\ file.text \subseteq 1..MaxSeq /\ file.ver \in Nat
         /\ \A chs \in SUBSET file.chs : IsFiniteSet(chs)
         /\ Undecided(d) \subseteq file.chs /\ Applied(d) \subseteq file.chs
         /\ Revision(d) \in Nat
         /\ rec[d].decided \subseteq Decision /\ rec[d].edge \subseteq Edge
         /\ rec[d].made \in BOOLEAN /\ file.made \in BOOLEAN
<1>1. row[d] \in Row /\ rec[d] \in Rec /\ file \in Draft BY DEF TInv, TypeOK
<1>2. file.chs \subseteq Change /\ file.text \subseteq 1..MaxSeq /\ file.ver \in Nat
      /\ file.made \in BOOLEAN
  BY <1>1 DEF Draft
<1>3. \A chs \in SUBSET file.chs : IsFiniteSet(chs) BY FS_Subset DEF TInv
<1>4. rec[d].decided \subseteq Decision /\ rec[d].edge \subseteq Edge
      /\ rec[d].made \in BOOLEAN /\ rec[d].rev \in Nat
  BY <1>1 DEF Rec
<1>5. Undecided(d) \subseteq file.chs BY DEF Undecided
<1>6. Applied(d) \subseteq file.chs BY <1>5 DEF Applied
<1>7. Revision(d) \in Nat BY <1>2, <1>4 DEF Revision
<1> QED BY <1>1, <1>2, <1>3, <1>4, <1>5, <1>6, <1>7

LEMMA DecisionsType ==
  ASSUME TInv, NEW d \in Desktops, NEW now \in Nat
  PROVE  /\ Decisions(d, now) \subseteq Decision
         /\ {[f |-> ch.f, seq |-> ch.seq, dec |-> "applied", at |-> now] : ch \in file.chs}
              \subseteq Decision
<1>1. \A ch \in file.chs : ch.f \in Fields /\ ch.seq \in 1..MaxSeq
  BY ImportTypes DEF Change
<1>2. \A ch : Decide(d, ch) \in {"applied", "reflected", "refused"} BY DEF Decide
<1> QED BY <1>1, <1>2, ImportTypes DEF Decisions, Decision

\* The edge of an import starts at a base it accepted, or where it stood.
LEMMA StartIs ==
  ASSUME TInv, NEW d \in Desktops
  PROVE  /\ Start(d) \in Nat
         /\ \/ Start(d) = Before(d)
            \/ Chains(d, Start(d))
<1> DEFINE bases == {ch.baseAt : ch \in {x \in Applied(d) : Chains(d, x.baseAt)}}
           prev  == {g.from : g \in {x \in Edges(d) : Chains(d, x.from)}}
<1>1. bases \subseteq Nat /\ \A x \in bases : Chains(d, x)
  <2>1. \A ch \in Applied(d) : ch.baseAt \in Nat BY ImportTypes DEF Change
  <2> QED BY <2>1
<1>2. prev \subseteq Nat /\ \A x \in prev : Chains(d, x)
  <2>1. \A g \in Edges(d) : g.from \in Nat BY ImportTypes DEF Edges, Edge
  <2> QED BY <2>1
<1>3. Start(d) = IF bases \cup prev = {} THEN Before(d) ELSE Least(bases \cup prev)
  BY DEF Start
<1> HIDE DEF bases, prev
<1>4. CASE bases \cup prev = {} BY <1>3, <1>4, BeforeType
<1>5. CASE bases \cup prev # {}
  <2>1. Least(bases \cup prev) \in bases \cup prev BY <1>1, <1>2, <1>5, LeastOfNat
  <2> QED BY <1>1, <1>2, <1>3, <1>5, <2>1
<1> QED BY <1>4, <1>5

LEMMA AppliedRecType ==
  ASSUME TInv, NEW d \in Desktops, NEW r \in Row, NEW from \in Nat,
         NEW decided \in SUBSET Decision
  PROVE  LET new == AppliedRec(d, r, from, decided)
         IN  /\ new \in Rec /\ new.out = "applied"
             /\ \A g \in new.edge : g.from = from /\ g.to = r.at
<1>1. [from |-> from, to |-> r.at, val |-> r.val] \in Edge BY DEF Row, Edge
<1> DEFINE e == [from |-> from, to |-> r.at, val |-> r.val]
<1>2. {e} \in SUBSET Edge /\ \A g \in {e} : g.from = from /\ g.to = r.at BY <1>1
<1>3. AppliedRec(d, r, from, decided) =
        [out |-> "applied", rev |-> Revision(d), hash |-> file.ver, edge |-> {e},
         decided |-> decided, plan |-> {}, made |-> rec[d].made \/ file.made, why |-> ""]
  BY DEF AppliedRec
<1>4. Revision(d) \in Nat /\ file.ver \in Nat /\ (rec[d].made \/ file.made) \in BOOLEAN
  BY ImportTypes
<1> DEFINE made == rec[d].made \/ file.made
<1>5. made \in BOOLEAN BY <1>4
<1>6. AppliedRec(d, r, from, decided) =
        [out |-> "applied", rev |-> Revision(d), hash |-> file.ver, edge |-> {e},
         decided |-> decided, plan |-> {}, made |-> made, why |-> ""]
  BY <1>3, Zenon
<1> HIDE DEF e, made
<1>7. \A b \in BOOLEAN : [out |-> "applied", rev |-> Revision(d), hash |-> file.ver,
         edge |-> {e}, decided |-> decided, plan |-> {}, made |-> b, why |-> ""] \in Rec
  BY <1>2, <1>4 DEF Rec, Reasons
<1>8. AppliedRec(d, r, from, decided) \in Rec BY <1>5, <1>6, <1>7, Zenon
<1>9. AppliedRec(d, r, from, decided).edge = {e} BY DEF AppliedRec, e
<1>10. AppliedRec(d, r, from, decided).out = "applied" BY DEF AppliedRec
<1> QED BY <1>2, <1>8, <1>9, <1>10

\* A created row is live and no desktop has written it.
LEMMA CreatedRow ==
  ASSUME TInv, NEW now \in Nat
  PROVE  /\ Created(now) \in Row /\ Created(now).st = "live"
         /\ Created(now).desk = 0 /\ Created(now).at = now + 1
         /\ [Created(now) EXCEPT !.at = now, !.own = FALSE, !.text = {}] \in Row
<1> DEFINE r0 == [NoRow EXCEPT !.st = "live"]
           w == Written(r0, file.chs, {}, 0)
<1>1. r0 \in Row /\ r0.st = "live" /\ r0.desk = 0 BY EmptyValues DEF Row, States
<1>2. file.chs \in SUBSET Change /\ file.text \subseteq 1..MaxSeq
  BY DEF TInv, TypeOK, Draft
<1>3. IsFiniteSet(file.chs) BY DEF TInv
<1> HIDE DEF r0
<1>4. w \in Row /\ w.st = "live" /\ w.desk = 0 BY <1>1, <1>2, <1>3, WrittenRow
<1>5. Created(now) = [w EXCEPT !.at = now + 1, !.own = TRUE, !.text = file.text]
  BY DEF Created, r0
<1> HIDE DEF w
<1>6. /\ Created(now) \in Row /\ Created(now).st = "live" /\ Created(now).desk = 0
      /\ Created(now).at = now + 1
  <2>1. file.text \in SUBSET (1..MaxSeq) /\ now + 1 \in Nat BY <1>2
  <2> QED BY <2>1, <1>4, <1>5 DEF Row
<1> QED BY <1>6 DEF Row

LEMMA AcksNowType ==
  ASSUME TypeOK, NEW d \in Desktops
  PROVE  AcksNow(d) \in Ack
<1>1. rec[d] \in Rec /\ acks[d] \in Ack BY DEF TypeOK
<1>2. Acked(d) \in Ack BY <1>1 DEF Acked, Ack, Rec
<1> QED BY <1>1, <1>2, EmptyValues DEF AcksNow

\* A row taken from a file keeps a type.
LEMMA PulledRow ==
  ASSUME NEW r \in Row, NEW other \in Row
  PROVE  /\ Pulled(r, other) \in Row
         /\ \/ Pulled(r, other) = r
            \/ /\ Pulled(r, other).at = other.at /\ other.at > r.at
               /\ Pulled(r, other).desk = other.desk /\ Pulled(r, other).st = other.st
BY DEF Pulled, Row

-----------------------------------------------------------------------------
(* Types are kept. *)

Steps == {"idle", "import", "publish", "acks"}
PcType == pc \in [Desktops -> Steps]

LEMMA GotoType ==
  ASSUME TInv, NEW d \in Desktops, NEW step \in Steps, Goto(d, step)
  PROVE  PcType'
BY DEF TInv, TypeOK, Goto, PcType, Steps

LEMMA ToAcksType ==
  ASSUME TInv, NEW d \in Desktops, ToAcks(d)
  PROVE  PcType'
<1>1. \E step \in Steps : Goto(d, step) BY DEF ToAcks, Steps
<1> QED BY <1>1, GotoType

LEMMA FaultType ==
  ASSUME TInv, Fault
  PROVE  faults' \in 0..MaxFaults
BY OutboxAssumption DEF TInv, TypeOK, Fault

LEMMA DesktopWriteType ==
  ASSUME TInv, NEW d \in Desktops, NEW r \in Row, DesktopWrite(d, r)
  PROVE  TInv' /\ row'[d].desk = r.at /\ row'[d].at = r.at /\ row'[d].st = r.st
         /\ row'[d].val = r.val
<1>1. [r EXCEPT !.own = TRUE, !.desk = r.at] \in Row BY DEF Row
<1>2. row' \in [Desktops -> Row] BY <1>1 DEF TInv, TypeOK, DesktopWrite
<1>3. edits' \in 0..MaxEdits BY OutboxAssumption DEF TInv, TypeOK, DesktopWrite
<1>4. last' \in Nat BY DEF TInv, TypeOK, DesktopWrite, Later, Row
<1>5. row'[d] = [r EXCEPT !.own = TRUE, !.desk = r.at]
  BY DEF TInv, TypeOK, DesktopWrite
<1>6. row'[d].desk = r.at /\ row'[d].at = r.at /\ row'[d].st = r.st /\ row'[d].val = r.val
  BY <1>5 DEF Row
<1>7. UNCHANGED <<rec, cloud, acks, pc, cut, faults>> /\ UNCHANGED web BY DEF DesktopWrite
<1>8. TypeOK'
  <2>1. TypeOK BY DEF TInv
  <2> QED BY <1>2, <1>3, <1>4, <1>7, <2>1 DEF TypeOK, web
<1>9. UNCHANGED <<rec, file, draft>> BY <1>7 DEF web
<1> QED BY <1>6, <1>8, <1>9 DEF TInv

\* A write on a desktop moves the stamp of the row and stores no web change.
EditedRow(d) ==
  /\ row'[d].desk = row'[d].at /\ row'[d].at > row[d].at /\ row'[d].st # "none"
  /\ \A f \in Fields : row'[d].val[f] = row[d].val[f] \/ row'[d].val[f] > 0

LEMMA EditType ==
  ASSUME TInv, NEW d \in Desktops, Edit(d)
  PROVE  TInv' /\ (EditedRow(d) \/ Wipe(d))
<1>0. row[d] \in Row /\ row[d].at \in Nat BY DEF TInv, TypeOK, Row
<1>c. Clock \subseteq Nat BY ClockType DEF TInv
<1>1. CASE EditField(d)
  <2>1. PICK f \in Fields, now \in Clock :
          DesktopWrite(d, [row[d] EXCEPT !.at = Later(@ + 1, now), !.val[f] = edits + 1])
    BY <1>1 DEF EditField
  <2> DEFINE r == [row[d] EXCEPT !.at = Later(@ + 1, now), !.val[f] = edits + 1]
  <2>2. edits \in Nat /\ edits < MaxEdits BY <2>1, OutboxAssumption DEF DesktopWrite, TInv, TypeOK
  <2>3. edits + 1 \in Val BY <2>2, Values, OutboxAssumption
  <2>4. Later(row[d].at + 1, now) \in Nat /\ Later(row[d].at + 1, now) > row[d].at
    BY <1>0, <1>c DEF Later
  <2>5. r \in Row /\ r.at = Later(row[d].at + 1, now) /\ r.st = row[d].st
        /\ r.val = [row[d].val EXCEPT ![f] = edits + 1]
    BY <1>0, <2>3, <2>4 DEF Row
  <2>6. row[d].val \in [Fields -> Val] BY <1>0 DEF Row
  <2> HIDE DEF r
  <2>7. TInv' /\ row'[d].desk = r.at /\ row'[d].at = r.at /\ row'[d].st = r.st
        /\ row'[d].val = r.val
    BY <2>1, <2>5, DesktopWriteType DEF r
  <2>8. row[d].st = "live" BY <1>1 DEF EditField
  <2> QED BY <2>2, <2>4, <2>5, <2>6, <2>7, <2>8 DEF EditedRow
<1>2. CASE Trash(d)
  <2>1. PICK now \in Clock :
          DesktopWrite(d, [row[d] EXCEPT !.at = Later(@ + 1, now), !.st = "trash"])
    BY <1>2 DEF Trash
  <2> DEFINE r == [row[d] EXCEPT !.at = Later(@ + 1, now), !.st = "trash"]
  <2>2. Later(row[d].at + 1, now) \in Nat /\ Later(row[d].at + 1, now) > row[d].at
    BY <1>0, <1>c DEF Later
  <2>3. r \in Row /\ r.at > row[d].at /\ r.st = "trash" /\ r.val = row[d].val
    BY <1>0, <2>2 DEF Row, States
  <2> HIDE DEF r
  <2>4. TInv' /\ row'[d].desk = r.at /\ row'[d].at = r.at /\ row'[d].st = r.st
        /\ row'[d].val = r.val
    BY <2>1, <2>3, DesktopWriteType DEF r
  <2> QED BY <2>3, <2>4 DEF EditedRow
<1>3. CASE Restore(d)
  <2>1. PICK now \in Clock :
          DesktopWrite(d, [row[d] EXCEPT !.at = Later(@ + 2, now), !.st = "live"])
    BY <1>3 DEF Restore
  <2> DEFINE r == [row[d] EXCEPT !.at = Later(@ + 2, now), !.st = "live"]
  <2>2. Later(row[d].at + 2, now) \in Nat /\ Later(row[d].at + 2, now) > row[d].at
    BY <1>0, <1>c DEF Later
  <2>3. r \in Row /\ r.at > row[d].at /\ r.st = "live" /\ r.val = row[d].val
    BY <1>0, <2>2 DEF Row, States
  <2> HIDE DEF r
  <2>4. TInv' /\ row'[d].desk = r.at /\ row'[d].at = r.at /\ row'[d].st = r.st
        /\ row'[d].val = r.val
    BY <2>1, <2>3, DesktopWriteType DEF r
  <2> QED BY <2>3, <2>4 DEF EditedRow
<1>4. CASE Purge(d)
  <2> DEFINE r == [row[d] EXCEPT !.at = @ + 1, !.st = "purged"]
  <2>1. DesktopWrite(d, r) BY <1>4 DEF Purge
  <2>a. row[d].at + 1 \in Nat /\ row[d].at + 1 > row[d].at /\ "purged" \in States
    BY <1>0 DEF States
  <2>2. r \in Row /\ r.at > row[d].at /\ r.st = "purged" /\ r.val = row[d].val
    BY <1>0, <2>a DEF Row
  <2> HIDE DEF r
  <2>3. TInv' /\ row'[d].desk = r.at /\ row'[d].at = r.at /\ row'[d].st = r.st
        /\ row'[d].val = r.val
    BY <2>1, <2>2, DesktopWriteType
  <2> QED BY <2>2, <2>3 DEF EditedRow
<1>5. CASE Wipe(d)
  <2>1. row' \in [Desktops -> Row] /\ rec' \in [Desktops -> Rec]
    BY <1>5, EmptyValues DEF Wipe, TInv, TypeOK
  <2>2. edits' \in 0..MaxEdits BY <1>5, OutboxAssumption DEF Wipe, TInv, TypeOK
  <2>3. last' \in Nat BY <1>5, ClockType DEF Wipe, TInv
  <2>4. UNCHANGED <<cloud, acks, pc, cut, faults>> /\ UNCHANGED web BY <1>5 DEF Wipe
  <2>5. TypeOK'
    <3>1. TypeOK BY DEF TInv
    <3> QED BY <2>1, <2>2, <2>3, <2>4, <3>1 DEF TypeOK, web
  <2>6. UNCHANGED <<file, draft>> BY <2>4 DEF web
  <2>7. \A e \in Desktops : rec'[e].out = "pending" => rec'[e].plan # {}
    <3>1. \A e \in Desktops : rec'[e] = IF e = d THEN NoRec ELSE rec[e]
      BY <1>5 DEF Wipe, TInv, TypeOK
    <3> QED BY <3>1, EmptyValues DEF TInv
  <2> QED BY <1>5, <2>5, <2>6, <2>7 DEF TInv
<1> QED BY <1>1, <1>2, <1>3, <1>4, <1>5 DEF Edit

\* What a step of the sync cycle leaves alone, and what its types then need.
Others == <<file, draft, synced, resolved, notices, seq, ver, requeues, edits, last>>
StepTypes ==
  /\ row' \in [Desktops -> Row] /\ rec' \in [Desktops -> Rec]
  /\ cloud' \in [Desktops -> Row] /\ acks' \in [Desktops -> Ack]
  /\ PcType' /\ faults' \in 0..MaxFaults /\ cut' \in BOOLEAN
  /\ \A d \in Desktops : rec'[d].out = "pending" => rec'[d].plan # {}

LEMMA StepKeeps ==
  ASSUME TInv, StepTypes, UNCHANGED Others
  PROVE  TInv'
<1>1. TypeOK'
  <2>1. TypeOK BY DEF TInv
  <2> QED BY <2>1 DEF TypeOK, StepTypes, PcType, Steps, Others
<1> QED BY <1>1 DEF TInv, StepTypes, Others

LEMMA ListedType ==
  ASSUME TInv, NEW d \in Desktops
  PROVE  Listed(d) \in Row /\ Listed(d) \in {row[d], NoRow}
BY EmptyValues DEF TInv, TypeOK, Listed

LEMMA SyncType ==
  ASSUME TInv, NEW d \in Desktops, Sync(d)
  PROVE  /\ TInv' /\ cloud' = [cloud EXCEPT ![d] = Listed(d)]
         /\ \E other \in {cloud'[x] : x \in Desktops} :
              row' = [row EXCEPT ![d] = Pulled(@, other)]
<1>1. cloud' = [cloud EXCEPT ![d] = Listed(d)] /\ cloud' \in [Desktops -> Row]
  BY ListedType DEF Sync, TInv, TypeOK
<1>2. PICK e \in Desktops : row' = [row EXCEPT ![d] = Pulled(@, cloud'[e])]
  BY DEF Sync
<1>3. row \in [Desktops -> Row] BY DEF TInv, TypeOK
<1>4. Pulled(row[d], cloud'[e]) \in Row BY <1>1, <1>3, PulledRow
<1>5. row' \in [Desktops -> Row] BY <1>2, <1>3, <1>4
<1>6. PcType' BY GotoType DEF Sync, Steps
<1>7. UNCHANGED <<rec, acks, faults>> /\ cut' = cut /\ UNCHANGED Others BY DEF Sync, web, Others
<1>8. StepTypes BY <1>1, <1>5, <1>6, <1>7 DEF StepTypes, TInv, TypeOK
<1> QED BY <1>1, <1>2, <1>7, <1>8, StepKeeps

\* The new record of d, and the rest of the cycle's steps.
LEMMA RecType ==
  ASSUME TInv, NEW d \in Desktops, NEW r \in Rec, rec' = [rec EXCEPT ![d] = r],
         r.out = "pending" => r.plan # {}
  PROVE  rec' \in [Desktops -> Rec]
         /\ \A e \in Desktops : rec'[e].out = "pending" => rec'[e].plan # {}
<1>1. rec \in [Desktops -> Rec] BY DEF TInv, TypeOK
<1>2. rec' \in [Desktops -> Rec] BY <1>1
<1>3. \A e \in Desktops : rec'[e] = IF e = d THEN r ELSE rec[e] BY <1>1
<1> QED BY <1>2, <1>3 DEF TInv

LEMMA RefuseType ==
  ASSUME TInv, NEW d \in Desktops, Refuse(d)
  PROVE  /\ TInv' /\ row' = row /\ cloud' = cloud
         /\ \E r \in Rec : rec' = [rec EXCEPT ![d] = r] /\ r.out = "refused" /\ r.edge = {}
<1> DEFINE made == rec[d].made \/ (row[d].st = "none" /\ file.made /\ ~KnownDead)
           r == [NoRec EXCEPT !.out = "refused", !.rev = Revision(d), !.hash = file.ver,
                     !.decided = rec[d].decided, !.why = Refusal(d), !.made = made]
<1>1. made \in BOOLEAN OBVIOUS
<1>2. rec' = [rec EXCEPT ![d] = r] BY DEF Refuse
<1>3. Refusal(d) \in Reasons BY DEF Refusal, Reasons
<1> HIDE DEF made
<1>4. r \in Rec /\ r.out = "refused" /\ r.edge = {}
  BY <1>1, <1>3, ImportTypes, EmptyValues DEF Rec
<1> HIDE DEF r
<1>5. rec' \in [Desktops -> Rec]
      /\ \A e \in Desktops : rec'[e].out = "pending" => rec'[e].plan # {}
  BY <1>2, <1>4, RecType
<1>6. PcType' BY GotoType DEF Refuse, Steps
<1>7. UNCHANGED <<row, cloud, acks, faults>> /\ cut' = cut /\ UNCHANGED Others BY DEF Refuse, web, Others
<1>8. StepTypes BY <1>5, <1>6, <1>7 DEF StepTypes, TInv, TypeOK
<1> QED BY <1>2, <1>4, <1>7, <1>8, StepKeeps

LEMMA RestType ==
  ASSUME TInv, NEW d \in Desktops,
         Skip(d) \/ AwaitPull(d) \/ Publish(d) \/ WriteAcks(d) \/ Defer(d) \/ Crash(d)
  PROVE  /\ TInv' /\ row' = row /\ rec' = rec
         /\ cloud' = cloud \/ cloud' = [cloud EXCEPT ![d] = Listed(d)]
<1>1. row' = row /\ rec' = rec /\ cut' = cut /\ UNCHANGED Others
  BY DEF Skip, AwaitPull, Publish, WriteAcks, Defer, Crash, web, Others
<1>2. cloud' = cloud \/ cloud' = [cloud EXCEPT ![d] = Listed(d)]
  BY DEF Skip, AwaitPull, Publish, WriteAcks, Defer, Crash
<1>3. cloud' \in [Desktops -> Row] BY <1>2, ListedType DEF TInv, TypeOK
<1>4. acks' \in [Desktops -> Ack]
  <2>1. acks' = acks \/ acks' = [acks EXCEPT ![d] = AcksNow(d)]
    BY DEF Skip, AwaitPull, Publish, WriteAcks, Defer, Crash
  <2> QED BY <2>1, AcksNowType DEF TInv, TypeOK
<1>5. PcType'
  <2>1. \/ ToAcks(d)
        \/ \E step \in Steps : Goto(d, step)
    BY DEF Skip, AwaitPull, Publish, WriteAcks, Defer, Crash, Steps
  <2> QED BY <2>1, ToAcksType, GotoType
<1>6. faults' \in 0..MaxFaults
  <2>1. faults' = faults \/ Fault
    BY DEF Skip, AwaitPull, Publish, WriteAcks, Defer, Crash
  <2> QED BY <2>1, FaultType DEF TInv, TypeOK
<1>7. StepTypes BY <1>1, <1>3, <1>4, <1>5, <1>6 DEF StepTypes, TInv, TypeOK
<1> QED BY <1>1, <1>2, <1>7, StepKeeps

\* An import: row and record of d.
LEMMA ImportStep ==
  ASSUME TInv, NEW d \in Desktops, NEW r \in Row, NEW new \in Rec,
         new.out = "pending" => new.plan # {},
         row' = [row EXCEPT ![d] = r], rec' = [rec EXCEPT ![d] = new],
         PcType', faults' \in 0..MaxFaults, cloud' = cloud, acks' = acks, UNCHANGED web,
         edits' = edits, last' = last, cut' \in BOOLEAN
  PROVE  TInv'
<1>1. row' \in [Desktops -> Row] BY DEF TInv, TypeOK
<1>2. rec' \in [Desktops -> Rec]
      /\ \A e \in Desktops : rec'[e].out = "pending" => rec'[e].plan # {}
  BY RecType
<1>3. UNCHANGED Others BY DEF web, Others
<1>4. StepTypes BY <1>1, <1>2 DEF StepTypes, TInv, TypeOK
<1> QED BY <1>3, <1>4, StepKeeps

LEMMA ImportedRow ==
  ASSUME TInv, NEW d \in Desktops, NEW now \in Nat
  PROVE  /\ Imported(d, now) \in Row /\ Imported(d, now).st = row[d].st
         /\ Imported(d, now).desk = row[d].desk
         /\ Imported(d, now) = row[d] \/ Imported(d, now).at > row[d].at
BY ImportTypes, WrittenRow DEF Imported

LEMMA ApplyType ==
  ASSUME TInv, NEW d \in Desktops, Apply(d)
  PROVE  /\ TInv' /\ cloud' = cloud
         /\ \E now \in Nat, new \in Rec :
              /\ row' = [row EXCEPT ![d] = Imported(d, now)]
              /\ rec' = [rec EXCEPT ![d] = new]
              /\ new.out = "applied"
              /\ \A g \in new.edge : g.from = Start(d) /\ g.to = Imported(d, now).at
<1>1. PICK now \in Clock :
        /\ row' = [row EXCEPT ![d] = Imported(d, now)]
        /\ rec' = [rec EXCEPT ![d] =
             AppliedRec(d, Imported(d, now), Start(d), Decisions(d, now))]
        /\ Goto(d, "publish")
        /\ UNCHANGED <<cloud, acks, web, edits, last, cut, faults>>
  BY DEF Apply
<1> DEFINE new == AppliedRec(d, Imported(d, now), Start(d), Decisions(d, now))
<1>2. now \in Nat BY ClockType DEF TInv
<1>3. Imported(d, now) \in Row BY <1>2, ImportedRow
<1>4. new \in Rec /\ new.out = "applied"
      /\ \A g \in new.edge : g.from = Start(d) /\ g.to = Imported(d, now).at
  BY <1>2, <1>3, StartIs, DecisionsType, AppliedRecType
<1>5. rec' = [rec EXCEPT ![d] = new] BY <1>1
<1> HIDE DEF new
<1>6. PcType' BY <1>1, GotoType DEF Steps
<1>7. faults' \in 0..MaxFaults /\ cut' \in BOOLEAN BY <1>1 DEF TInv, TypeOK
<1>8. TInv' BY <1>1, <1>3, <1>4, <1>5, <1>6, <1>7, ImportStep
<1> QED BY <1>1, <1>2, <1>4, <1>5, <1>8

LEMMA CreateType ==
  ASSUME TInv, NEW d \in Desktops, Create(d)
  PROVE  /\ TInv' /\ cloud' = cloud
         /\ \E now \in Nat, new \in Rec :
              /\ row' = [row EXCEPT ![d] = Created(now)]
              /\ rec' = [rec EXCEPT ![d] = new]
              /\ new.out = "applied"
              /\ \A g \in new.edge : g.from = 0 /\ g.to = Created(now).at
<1> DEFINE decided(now) == rec[d].decided \cup
             {[f |-> ch.f, seq |-> ch.seq, dec |-> "applied", at |-> now] : ch \in file.chs}
<1>1. PICK now \in Clock :
        /\ row' = [row EXCEPT ![d] = Created(now)]
        /\ rec' = [rec EXCEPT ![d] = AppliedRec(d, Created(now), 0, decided(now))]
        /\ Goto(d, "publish")
        /\ UNCHANGED <<cloud, acks, web, edits, last, cut, faults>>
  BY DEF Create
<1> DEFINE new == AppliedRec(d, Created(now), 0, decided(now))
<1>2. now \in Nat BY ClockType DEF TInv
<1>3. Created(now) \in Row BY <1>2, CreatedRow
<1>4. decided(now) \in SUBSET Decision BY <1>2, DecisionsType, ImportTypes
<1> HIDE DEF decided
<1>5. new \in Rec /\ new.out = "applied"
      /\ \A g \in new.edge : g.from = 0 /\ g.to = Created(now).at
  BY <1>3, <1>4, AppliedRecType
<1>6. rec' = [rec EXCEPT ![d] = new] BY <1>1
<1> HIDE DEF new
<1>7. PcType' BY <1>1, GotoType DEF Steps
<1>8. faults' \in 0..MaxFaults /\ cut' \in BOOLEAN BY <1>1 DEF TInv, TypeOK
<1>9. TInv' BY <1>1, <1>3, <1>5, <1>6, <1>7, <1>8, ImportStep
<1> QED BY <1>1, <1>2, <1>5, <1>6, <1>9

LEMMA CutType ==
  ASSUME TInv, NEW d \in Desktops, Cut(d)
  PROVE  TInv'
<1>1. PcType' /\ faults' \in 0..MaxFaults
  BY GotoType, FaultType DEF Cut, Steps
<1>2. cloud' = cloud /\ acks' = acks /\ UNCHANGED web /\ edits' = edits /\ last' = last
      /\ cut' \in BOOLEAN
  BY DEF Cut
<1>3. ASSUME NEW plan \in Nat, NEW edge \in SUBSET Edge, Pending(d, plan, edge)
      PROVE  \E new \in Rec : rec' = [rec EXCEPT ![d] = new] /\ new.plan # {}
  <2> DEFINE new == [rec[d] EXCEPT !.out = "pending", !.hash = file.ver,
                                   !.plan = {plan}, !.edge = edge, !.why = ""]
  <2>1. rec' = [rec EXCEPT ![d] = new] BY <1>3 DEF Pending, TInv, TypeOK
  <2>2. new \in Rec /\ new.plan = {plan} BY ImportTypes DEF Rec, Reasons
  <2> QED BY <2>1, <2>2
<1>4. ASSUME row[d].st = "live",
             NEW now \in Clock, NEW k, NEW t \in {{}, file.text},
             row' = [row EXCEPT ![d] = Written(@, {ch \in Applied(d) : ch.f <= k}, t, now)],
             Pending(d, Before(d), rec[d].edge)
      PROVE  TInv'
  <2> DEFINE chs == {ch \in Applied(d) : ch.f <= k}
  <2>1. chs \subseteq Change /\ IsFiniteSet(chs)
    <3>1. chs \in SUBSET file.chs BY ImportTypes
    <3> QED BY <3>1, ImportTypes
  <2>2. now \in Nat BY ClockType DEF TInv
  <2>3. t \in SUBSET (1..MaxSeq) BY ImportTypes
  <2>4. row' = [row EXCEPT ![d] = Written(row[d], chs, t, now)] BY <1>4
  <2> HIDE DEF chs
  <2>5. Written(row[d], chs, t, now) \in Row BY <2>1, <2>2, <2>3, ImportTypes, WrittenRow
  <2>6. PICK new \in Rec : rec' = [rec EXCEPT ![d] = new] /\ new.plan # {}
    BY <1>3, <1>4, BeforeType, ImportTypes
  <2> QED BY <1>1, <1>2, <2>4, <2>5, <2>6, ImportStep
<1>5. ASSUME NEW now \in Clock, Pending(d, 0, {}),
             row' \in {row, [row EXCEPT ![d] = Created(now)],
                       [row EXCEPT ![d] = [Created(now) EXCEPT
                          !.at = now, !.own = FALSE, !.text = {}]]}
      PROVE  TInv'
  <2>1. now \in Nat BY ClockType DEF TInv
  <2>2. row[d] \in Row /\ row = [row EXCEPT ![d] = row[d]] BY DEF TInv, TypeOK
  <2>3. PICK r \in Row : row' = [row EXCEPT ![d] = r] BY <1>5, <2>1, <2>2, CreatedRow
  <2>4. PICK new \in Rec : rec' = [rec EXCEPT ![d] = new] /\ new.plan # {} BY <1>3, <1>5
  <2> QED BY <1>1, <1>2, <2>3, <2>4, ImportStep
<1> QED
  <2>1. CASE row[d].st = "live"
    <3>1. \E now \in Clock, k \in Fields \cup {0}, t \in {{}, file.text} :
            row' = [row EXCEPT ![d] = Written(@, {ch \in Applied(d) : ch.f <= k}, t, now)]
      BY <2>1 DEF Cut, CanCreate
    <3>2. Pending(d, Before(d), rec[d].edge) BY <2>1 DEF Cut, CanCreate
    <3> QED BY <1>4, <2>1, <3>1, <3>2
  <2>2. CASE row[d].st # "live"
    <3>1. Pending(d, 0, {}) /\ \E now \in Clock :
            row' \in {row, [row EXCEPT ![d] = Created(now)],
                      [row EXCEPT ![d] = [Created(now) EXCEPT
                         !.at = now, !.own = FALSE, !.text = {}]]}
      BY <2>2 DEF Cut
    <3> QED BY <1>5, <3>1
  <2> QED BY <2>1, <2>2

\* The browser.
LEMMA ImageIsFinite ==
  ASSUME NEW S, IsFiniteSet(S), NEW g, DOMAIN g = S
  PROVE  IsFiniteSet({g[x] : x \in S})
<1> DEFINE T == {g[x] : x \in S}
           h == [x \in S |-> g[x]]
<1>1. h \in Surjection(S, T) BY DEF Surjection
<1> QED BY <1>1, FS_Surjection

\* What a step of the browser may change.
DraftTypes ==
  /\ file' \in Draft /\ draft' \in Draft /\ IsFiniteSet(file'.chs) /\ IsFiniteSet(draft'.chs)
  /\ synced' \in [row : Row, hard : BOOLEAN]
  /\ resolved' \subseteq Change /\ notices' \subseteq Change
  /\ seq' \in 0..MaxSeq /\ ver' \in Nat /\ requeues' \in 0..MaxRequeues
  /\ faults' \in 0..MaxFaults

LEMMA DraftKeeps ==
  ASSUME TInv, DraftTypes, UNCHANGED <<row, rec, cloud, acks, pc, edits, last, cut>>
  PROVE  TInv'
<1>1. TypeOK'
  <2>1. TypeOK BY DEF TInv
  <2> QED BY <2>1 DEF TypeOK, DraftTypes
<1> QED BY <1>1 DEF TInv, DraftTypes

LEMMA DraftParts ==
  ASSUME TInv
  PROVE  /\ file \in Draft /\ draft \in Draft /\ IsFiniteSet(file.chs) /\ IsFiniteSet(draft.chs)
         /\ draft.chs \subseteq Change /\ draft.text \subseteq 1..MaxSeq
         /\ draft.made \in BOOLEAN
         /\ Settling \subseteq draft.chs /\ Replacing \subseteq draft.chs
         /\ seq \in 0..MaxSeq /\ ver \in Nat /\ requeues \in 0..MaxRequeues
         /\ faults \in 0..MaxFaults /\ resolved \subseteq Change /\ notices \subseteq Change
         /\ synced \in [row : Row, hard : BOOLEAN]
<1>1. draft \in Draft BY DEF TInv, TypeOK
<1>2. draft.chs \subseteq Change /\ draft.text \subseteq 1..MaxSeq /\ draft.made \in BOOLEAN
  BY <1>1 DEF Draft
<1>3. Settling \subseteq draft.chs /\ Replacing \subseteq draft.chs
  BY DEF Settling, Replacing, Open
<1> QED BY <1>1, <1>2, <1>3 DEF TInv, TypeOK

LEMMA SaveType ==
  ASSUME TInv, NEW made \in BOOLEAN, NEW chs \in SUBSET Change, IsFiniteSet(chs),
         NEW text \in SUBSET (1..MaxSeq), NextSeq, Save(made, chs, text)
  PROVE  TInv'
<1> DEFINE new == [ver |-> ver + 1, made |-> made, chs |-> chs, text |-> text, pushed |-> FALSE]
<1>1. new \in Draft /\ new.chs = chs BY DraftParts DEF Draft
<1>2. draft' = new /\ ver' = ver + 1 /\ resolved' = {}
      /\ UNCHANGED <<file, synced, notices, requeues, row, rec, cloud, acks, pc, edits, last, cut, faults>>
  BY DEF Save, Desk
<1> HIDE DEF new
<1>3. seq' \in 0..MaxSeq BY DraftParts, OutboxAssumption DEF NextSeq
<1>4. DraftTypes BY <1>1, <1>2, <1>3, DraftParts DEF DraftTypes
<1> QED BY <1>2, <1>4, DraftKeeps

LEMMA WebWriteType ==
  ASSUME TInv, WebCreate \/ WebEdit \/ WebType
  PROVE  TInv'
<1>0. NextSeq BY DEF WebCreate, WebEdit, WebType
<1>1. NextSeq /\ seq' \in 1..MaxSeq
  <2>1. seq \in 0..MaxSeq /\ seq < MaxSeq /\ seq' = seq + 1 BY <1>0, DraftParts DEF NextSeq
  <2> QED BY <1>0, <2>1, OutboxAssumption
<1>2. CASE WebCreate
  <2> DEFINE g == [f \in Fields |-> [f |-> f, seq |-> seq', base |-> 0, baseAt |-> 0]]
             chs == {[f |-> f, seq |-> seq', base |-> 0, baseAt |-> 0] : f \in Fields}
  <2>1. chs = {g[f] : f \in Fields} OBVIOUS
  <2>2. chs \subseteq Change BY <1>1, Values DEF Change
  <2> HIDE DEF g
  <2>3. IsFiniteSet(chs)
    <3>1. DOMAIN g = Fields BY DEF g
    <3>2. IsFiniteSet({g[f] : f \in Fields}) BY <3>1, ImageIsFinite, OutboxAssumption
    <3> QED BY <2>1, <3>2, Zenon
  <2>4. Save(TRUE, chs, {}) BY <1>2 DEF WebCreate
  <2> HIDE DEF chs
  <2> QED BY <1>1, <2>2, <2>3, <2>4, SaveType
<1>3. CASE WebEdit
  <2>1. PICK f \in Fields :
          Save(draft.made,
               {ch \in draft.chs \ resolved : ch.f # f} \cup
                 {[f |-> f, seq |-> seq', base |-> Base(f).base, baseAt |-> Base(f).at]},
               draft.text)
    BY <1>3 DEF WebEdit
  <2> DEFINE old == {ch \in draft.chs \ resolved : ch.f # f}
             one == [f |-> f, seq |-> seq', base |-> Base(f).base, baseAt |-> Base(f).at]
  <2>2. Base(f).base \in Val /\ Base(f).at \in Nat
    <3> DEFINE prior == {ch \in draft.chs \ resolved : ch.f = f}
    <3>1. CASE prior = {}
      <4>1. synced.row \in Row BY DraftParts
      <4>2. synced.row.val[f] \in Val /\ synced.row.at \in Nat BY <4>1 DEF Row
      <4>3. Base(f) = [base |-> synced.row.val[f], at |-> synced.row.at] BY <3>1 DEF Base
      <4> QED BY <4>2, <4>3
    <3>2. CASE prior # {}
      <4>1. (CHOOSE x \in prior : TRUE) \in prior BY <3>2
      <4>2. (CHOOSE x \in prior : TRUE) \in Change BY <4>1, DraftParts
      <4>3. Base(f) = [base |-> (CHOOSE x \in prior : TRUE).base,
                       at |-> (CHOOSE x \in prior : TRUE).baseAt]
        BY <3>2 DEF Base
      <4> HIDE DEF prior
      <4> QED BY <4>2, <4>3 DEF Change
    <3> QED BY <3>1, <3>2
  <2>3. one \in Change BY <1>1, <2>2 DEF Change
  <2>4. old \subseteq Change /\ IsFiniteSet(old)
    <3>1. old \in SUBSET draft.chs OBVIOUS
    <3> QED BY <3>1, DraftParts, FS_Subset
  <2>5. IsFiniteSet(old \cup {one}) BY <2>4, FS_AddElement
  <2>6. Save(draft.made, old \cup {one}, draft.text) BY <2>1
  <2> HIDE DEF old, one
  <2> QED BY <1>1, <2>3, <2>4, <2>5, <2>6, DraftParts, SaveType
<1>4. CASE WebType
  <2> DEFINE chs == draft.chs \ resolved
  <2>1. chs \in SUBSET draft.chs OBVIOUS
  <2>2. chs \subseteq Change /\ IsFiniteSet(chs) BY <2>1, DraftParts, FS_Subset
  <2>3. draft.text \cup {seq'} \in SUBSET (1..MaxSeq) BY <1>1, DraftParts
  <2>4. Save(draft.made, chs, draft.text \cup {seq'}) BY <1>4 DEF WebType
  <2> HIDE DEF chs
  <2> QED BY <1>1, <2>2, <2>3, <2>4, DraftParts, SaveType
<1> QED BY <1>2, <1>3, <1>4

LEMMA RetentionType ==
  ASSUME TInv, Retention
  PROVE  TInv'
<1>1. CASE WebPush
  <2>1. faults' \in 0..MaxFaults BY <1>1, FaultType, DraftParts DEF WebPush
  <2>2. [draft EXCEPT !.pushed = TRUE] \in Draft
        /\ [draft EXCEPT !.pushed = TRUE].chs = draft.chs
    BY DraftParts DEF Draft
  <2>3. draft' \in Draft /\ draft'.chs = draft.chs BY <1>1, <2>2, DraftParts DEF WebPush
  <2>4. file' = draft
        /\ UNCHANGED <<row, rec, cloud, acks, pc, edits, last, cut, synced, resolved, notices, seq, ver, requeues>>
    BY <1>1 DEF WebPush
  <2>5. DraftTypes BY <2>1, <2>3, <2>4, DraftParts DEF DraftTypes
  <2> QED BY <2>4, <2>5, DraftKeeps
<1>2. CASE WebPull
  <2>1. PICK e \in Desktops :
          synced' = [row |-> [cloud[e] EXCEPT !.own = FALSE], hard |-> HardDeleted]
    BY <1>2 DEF WebPull
  <2>2. [cloud[e] EXCEPT !.own = FALSE] \in Row BY DEF TInv, TypeOK, Row
  <2>3. HardDeleted \in BOOLEAN BY DEF HardDeleted
  <2>4. synced' \in [row : Row, hard : BOOLEAN] BY <2>1, <2>2, <2>3
  <2>5. UNCHANGED <<file, draft, resolved, notices, seq, ver, requeues>>
        /\ UNCHANGED <<row, rec, cloud, acks, pc, edits, last, cut, faults>>
    BY <1>2 DEF WebPull, Desk
  <2>6. DraftTypes BY <2>4, <2>5, DraftParts DEF DraftTypes
  <2> QED BY <2>5, <2>6, DraftKeeps
<1>3. CASE WebDrop
  <2>1. notices' \subseteq Change BY <1>3, DraftParts DEF WebDrop, Told
  <2>2. draft' = NoDraft /\ resolved' = {} /\ requeues' = 0 /\ UNCHANGED <<file, synced, seq, ver>>
        /\ UNCHANGED <<row, rec, cloud, acks, pc, edits, last, cut, faults>>
    BY <1>3 DEF WebDrop, Desk
  <2>3. DraftTypes
    BY <2>1, <2>2, EmptyValues, DraftParts, FS_EmptySet, OutboxAssumption DEF DraftTypes
  <2> QED BY <2>2, <2>3, DraftKeeps
<1>4. CASE WebSettle
  <2>1. notices' \subseteq Change BY <1>4, DraftParts DEF WebSettle
  <2>2. UNCHANGED <<file, synced, seq>>
        /\ UNCHANGED <<row, rec, cloud, acks, pc, edits, last, cut, faults>>
    BY <1>4 DEF WebSettle, Desk
  <2>3. CASE MayRequeue
    <3> DEFINE left == draft.chs \ (resolved \cup Settling)
               g == [ch \in left |-> Rebased(ch)]
               chs == {Rebased(ch) : ch \in left}
               new == [draft EXCEPT !.ver = ver + 1, !.pushed = FALSE, !.chs = chs]
    <3>1. draft' = new /\ ver' = ver + 1 /\ requeues' = requeues + 1 /\ resolved' = {}
      BY <1>4, <2>3 DEF WebSettle
    <3>2. left \subseteq Change /\ IsFiniteSet(left)
      <4>1. left \in SUBSET draft.chs OBVIOUS
      <4> QED BY <4>1, DraftParts, FS_Subset
    <3>3. \A ch \in Change : Rebased(ch) \in Change
      <4>1. synced.row.at \in Nat BY DraftParts DEF Row
      <4> QED BY <4>1 DEF Rebased, Change
    <3>4. chs \subseteq Change BY <3>2, <3>3
    <3>5. IsFiniteSet(chs)
      <4>1. DOMAIN g = left /\ chs = {g[ch] : ch \in left} OBVIOUS
      <4> HIDE DEF g, chs, left
      <4> QED BY <3>2, <4>1, ImageIsFinite
    <3> HIDE DEF chs
    <3>a. ver + 1 \in Nat BY DraftParts
    <3>6. new \in Draft /\ new.chs = chs BY <3>4, <3>a, DraftParts DEF Draft
    <3> HIDE DEF new
    <3>7. requeues' \in 0..MaxRequeues BY <2>3, <3>1, DraftParts, OutboxAssumption DEF MayRequeue
    <3>8. DraftTypes BY <2>1, <2>2, <3>1, <3>5, <3>6, <3>7, DraftParts DEF DraftTypes
    <3> QED BY <2>2, <3>8, DraftKeeps
  <2>4. CASE ~MayRequeue
    <3>1. resolved' = resolved \cup Settling /\ UNCHANGED <<draft, ver, requeues>>
      BY <1>4, <2>4 DEF WebSettle
    <3>2. DraftTypes BY <2>1, <2>2, <3>1, DraftParts DEF DraftTypes
    <3> QED BY <2>2, <3>1, <3>2, DraftKeeps
  <2> QED BY <2>3, <2>4
<1> QED BY <1>1, <1>2, <1>3, <1>4 DEF Retention

LEMMA InitRows ==
  ASSUME Init
  PROVE  /\ row \in [Desktops -> Row] /\ cloud \in [Desktops -> Row]
         /\ synced \in [row : Row, hard : BOOLEAN]
         /\ \A d \in Desktops : /\ row[d].desk = row[d].at
                                /\ row[d].st = "none" => row[d].at = 0
                                /\ cloud[d] \in {row[d], NoRow}
<1>1. PICK r \in {IF b THEN [NoRow EXCEPT !.st = "live", !.at = 1, !.desk = 1] ELSE NoRow :
                    b \in Starts} :
       /\ row = [d \in Desktops |-> [r EXCEPT !.own = r.st = "live" /\ d = Least(Desktops)]]
       /\ cloud = [d \in Desktops |-> IF row[d].own THEN row[d] ELSE NoRow]
       /\ synced = [row |-> [cloud[Least(Desktops)] EXCEPT !.own = FALSE], hard |-> FALSE]
  BY DEF Init
<1>2. r \in Row /\ r.desk = r.at /\ (r.st = "none" => r.at = 0)
  <2> DEFINE live == [NoRow EXCEPT !.st = "live", !.at = 1, !.desk = 1]
  <2>1. r = live \/ r = NoRow BY <1>1
  <2>2. live \in Row /\ live.desk = 1 /\ live.at = 1 /\ live.st = "live"
    <3>1. "live" \in States /\ 1 \in Nat BY DEF States
    <3> QED BY <3>1, EmptyValues DEF Row
  <2> HIDE DEF live
  <2> QED BY <2>1, <2>2, EmptyValues
<1>3. \A b \in BOOLEAN : /\ [r EXCEPT !.own = b] \in Row
                         /\ [r EXCEPT !.own = b].desk = r.desk
                         /\ [r EXCEPT !.own = b].at = r.at /\ [r EXCEPT !.own = b].st = r.st
  BY <1>2 DEF Row
<1> DEFINE own(d) == r.st = "live" /\ d = Least(Desktops)
<1>4. \A d \in Desktops : own(d) \in BOOLEAN OBVIOUS
<1>5. row = [d \in Desktops |-> [r EXCEPT !.own = own(d)]] BY <1>1
<1> HIDE DEF own
<1>6. \A d \in Desktops : row[d] \in Row /\ row[d].desk = r.desk /\ row[d].at = r.at
                          /\ row[d].st = r.st
  BY <1>3, <1>4, <1>5
<1>7. row \in [Desktops -> Row] BY <1>5, <1>6
<1>8. cloud \in [Desktops -> Row] /\ \A d \in Desktops : cloud[d] \in {row[d], NoRow}
  BY <1>1, <1>6, EmptyValues
<1>9. Least(Desktops) \in Desktops BY LeastOfNat, OutboxAssumption
<1>10. [cloud[Least(Desktops)] EXCEPT !.own = FALSE] \in Row BY <1>8, <1>9 DEF Row
<1>11. synced \in [row : Row, hard : BOOLEAN] BY <1>1, <1>10
<1> QED BY <1>2, <1>6, <1>7, <1>8, <1>11

LEMMA InitType == Init => TInv
<1> SUFFICES ASSUME Init PROVE TInv OBVIOUS
<1>1. rec = [d \in Desktops |-> NoRec] /\ acks = [d \in Desktops |-> NoAck]
      /\ pc = [d \in Desktops |-> "idle"] /\ file = NoDraft /\ draft = NoDraft
      /\ resolved = {} /\ notices = {} /\ seq = 0 /\ ver = 0 /\ requeues = 0
      /\ edits = 0 /\ last = 0 /\ cut = FALSE /\ faults = 0
  BY DEF Init
<1>2. rec \in [Desktops -> Rec] /\ acks \in [Desktops -> Ack] /\ file \in Draft
      /\ draft \in Draft /\ pc \in [Desktops -> {"idle", "import", "publish", "acks"}]
  BY <1>1, EmptyValues
<1>3. TypeOK
  <2>1. /\ resolved \subseteq Change /\ notices \subseteq Change
        /\ seq \in 0..MaxSeq /\ ver \in Nat /\ requeues \in 0..MaxRequeues
        /\ edits \in 0..MaxEdits /\ last \in Nat /\ faults \in 0..MaxFaults
    BY <1>1, OutboxAssumption
  <2>2. cut \in BOOLEAN BY <1>1
  <2> QED BY <1>2, <2>1, <2>2, InitRows DEF TypeOK
<1>4. IsFiniteSet(file.chs) /\ IsFiniteSet(draft.chs) BY <1>1, EmptyValues, FS_EmptySet
<1>5. \A d \in Desktops : rec[d].out = "none" BY <1>1, EmptyValues
<1> QED BY <1>3, <1>4, <1>5 DEF TInv

LEMMA StepType ==
  ASSUME TInv, [Next]_vars
  PROVE  TInv'
<1>1. CASE UNCHANGED vars
  <2>1. UNCHANGED <<row, rec, cloud, acks, pc, edits, last, cut, faults>> /\ UNCHANGED web
    BY <1>1 DEF vars
  <2>2. TypeOK'
    <3>1. TypeOK BY DEF TInv
    <3> QED BY <2>1, <3>1 DEF TypeOK, web
  <2> QED BY <2>1, <2>2 DEF TInv, web
<1>2. ASSUME NEW d \in Desktops, Cycle(d) PROVE TInv'
  BY <1>2, SyncType, RefuseType, ApplyType, CreateType, RestType DEF Cycle
<1>3. ASSUME NEW d \in Desktops, Break(d) PROVE TInv'
  BY <1>3, RestType, CutType DEF Break
<1>4. ASSUME NEW d \in Desktops, Edit(d) PROVE TInv'
  BY <1>4, EditType
<1>5. CASE WebCreate \/ WebEdit \/ WebType \/ Retention
  BY <1>5, WebWriteType, RetentionType
<1> QED BY <1>1, <1>2, <1>3, <1>4, <1>5 DEF Next

\* The types: no stamp, change or record outside its range, for any bounds.
THEOREM OutboxTypes == Spec => []TypeOK
<1>1. Init => TInv BY InitType
<1>2. TInv /\ [Next]_vars => TInv' BY StepType
<1>3. TInv => TypeOK BY DEF TInv
<1> QED BY <1>1, <1>2, <1>3, PTL DEF Spec

-----------------------------------------------------------------------------
(* Desktop edits win, when no crash cuts an import in two. *)

Sound(r) == r.desk <= r.at /\ (r.st = "none" => r.at = 0)

\* An edge that still ends at the row starts after the last desktop write of
\* it: whatever base it explains was seen with that write.
EdgeInv(d) ==
  \A g \in rec[d].edge :
    g.to <= row[d].at /\ (g.to = row[d].at => row[d].desk <= g.from)

WinInv ==
  /\ TInv
  /\ \A d \in Desktops :
       rec[d].out # "pending" /\ Sound(row[d]) /\ Sound(cloud[d]) /\ EdgeInv(d)

\* A base that chains is not older than the last desktop write.
LEMMA ChainedAfterDesk ==
  ASSUME WinInv, NEW d \in Desktops, NEW base \in Nat, Chains(d, base)
  PROVE  row[d].desk <= base
<1>1. TInv /\ Sound(row[d]) /\ EdgeInv(d) /\ rec[d].out # "pending" BY DEF WinInv
<1>2. Before(d) = row[d].at BY <1>1 DEF Before
<1>3. row[d].desk \in Nat /\ row[d].at \in Nat BY <1>1, ImportTypes DEF Row
<1>4. CASE base = Before(d) BY <1>1, <1>2, <1>4 DEF Sound
<1>5. CASE OwnPrior(d, base)
  <2>1. PICK g \in Edges(d) : g.from <= base /\ g.to = Before(d) BY <1>5 DEF OwnPrior
  <2>2. g \in rec[d].edge BY <2>1 DEF Edges
  <2>3. g.from \in Nat BY <1>1, <2>2, ImportTypes DEF Edge
  <2> QED BY <1>1, <1>2, <1>3, <2>1, <2>2, <2>3 DEF EdgeInv
<1> QED BY <1>4, <1>5 DEF Chains

LEMMA StartAfterDesk ==
  ASSUME WinInv, NEW d \in Desktops
  PROVE  Start(d) \in Nat /\ row[d].desk <= Start(d)
<1>1. TInv /\ Sound(row[d]) /\ rec[d].out # "pending" BY DEF WinInv
<1>2. Before(d) = row[d].at BY <1>1 DEF Before
<1> QED BY <1>1, <1>2, StartIs, ChainedAfterDesk DEF Sound

\* What a step on d may do to its row and record, and to its files.
WinStep(d) ==
  /\ rec'[d].out # "pending" /\ Sound(row'[d]) /\ Sound(cloud'[d])
  /\ \A g \in rec'[d].edge :
       g.to <= row'[d].at /\ (g.to = row'[d].at => row'[d].desk <= g.from)

Elsewhere(d) ==
  \A e \in Desktops \ {d} :
    row'[e] = row[e] /\ rec'[e] = rec[e] /\ cloud'[e] = cloud[e]

LEMMA WinKeeps ==
  ASSUME WinInv, TInv', NEW d \in Desktops, WinStep(d), Elsewhere(d)
  PROVE  WinInv'
<1>1. ASSUME NEW e \in Desktops \ {d} PROVE WinStep(e)
  BY <1>1 DEF WinInv, Elsewhere, WinStep, EdgeInv
<1>2. \A e \in Desktops : WinStep(e) BY <1>1
<1>3. \A e \in Desktops : rec'[e].out # "pending" /\ Sound(row'[e]) /\ Sound(cloud'[e])
                          /\ EdgeInv(e)'
  BY <1>2 DEF WinStep, EdgeInv
<1> QED BY <1>3 DEF WinInv, Sound

\* Facts of d in the invariant, for the lemmas of the steps.
LEMMA WinFacts ==
  ASSUME WinInv, NEW d \in Desktops
  PROVE  /\ TInv /\ Sound(row[d]) /\ Sound(cloud[d]) /\ EdgeInv(d) /\ rec[d].out # "pending"
         /\ row \in [Desktops -> Row] /\ cloud \in [Desktops -> Row]
         /\ rec \in [Desktops -> Rec]
         /\ row[d].at \in Nat /\ row[d].desk \in Nat
         /\ \A g \in rec[d].edge : g.to \in Nat /\ g.from \in Nat
         /\ Sound(NoRow)
<1>1. TInv /\ Sound(row[d]) /\ Sound(cloud[d]) /\ EdgeInv(d) /\ rec[d].out # "pending"
  BY DEF WinInv
<1>2. row \in [Desktops -> Row] /\ cloud \in [Desktops -> Row] /\ rec \in [Desktops -> Rec]
  BY <1>1 DEF TInv, TypeOK
<1>3. row[d].at \in Nat /\ row[d].desk \in Nat BY <1>2 DEF Row
<1>4. \A g \in rec[d].edge : g.to \in Nat /\ g.from \in Nat BY <1>1, ImportTypes DEF Edge
<1> QED BY <1>1, <1>2, <1>3, <1>4, EmptyValues DEF Sound

LEMMA SyncWins ==
  ASSUME WinInv, NEW d \in Desktops, Sync(d)
  PROVE  WinInv'
<1>1. TInv' /\ cloud' = [cloud EXCEPT ![d] = Listed(d)] BY SyncType, WinFacts
<1>2. PICK x \in Desktops : row' = [row EXCEPT ![d] = Pulled(@, cloud'[x])]
  BY DEF Sync
<1>3. rec' = rec BY DEF Sync
<1>4. Sound(cloud'[d])
  <2>1. cloud'[d] \in {row[d], NoRow} BY <1>1, WinFacts, ListedType
  <2> QED BY <2>1, WinFacts
<1>5. \A e \in Desktops \ {d} : cloud'[e] = cloud[e] /\ row'[e] = row[e]
  BY <1>1, <1>2, WinFacts
<1>6. cloud'[x] \in Row /\ Sound(cloud'[x])
  <2>1. Sound(cloud[x]) BY DEF WinInv
  <2> QED BY <1>1, <1>4, <1>5, <2>1 DEF TInv, TypeOK
<1>7. row'[d] = Pulled(row[d], cloud'[x]) BY <1>2, WinFacts
<1>8. row'[d] = row[d] \/ (/\ row'[d].at > row[d].at /\ row'[d].at = cloud'[x].at
                          /\ row'[d].desk = cloud'[x].desk /\ row'[d].st = cloud'[x].st)
  BY <1>6, <1>7, WinFacts, PulledRow
<1>9. cloud'[x].at \in Nat BY <1>6 DEF Row
<1>10. WinStep(d)
  <2>1. CASE row'[d] = row[d] BY <1>3, <1>4, <2>1, WinFacts DEF WinStep, EdgeInv
  <2>2. CASE row'[d] # row[d]
    <3>1. Sound(row'[d]) BY <1>6, <1>8, <2>2 DEF Sound
    <3>2. \A g \in rec[d].edge : g.to < row'[d].at
      BY <1>8, <1>9, <2>2, WinFacts DEF EdgeInv
    <3>3. \A g \in rec[d].edge :
            g.to <= row'[d].at /\ (g.to = row'[d].at => row'[d].desk <= g.from)
      BY <1>8, <1>9, <2>2, <3>2, WinFacts
    <3> QED BY <1>3, <1>4, <3>1, <3>3, WinFacts DEF WinStep
  <2> QED BY <2>1, <2>2
<1> QED BY <1>1, <1>3, <1>5, <1>10, WinKeeps DEF Elsewhere

LEMMA RestWins ==
  ASSUME WinInv, NEW d \in Desktops,
         Skip(d) \/ AwaitPull(d) \/ Publish(d) \/ WriteAcks(d) \/ Defer(d) \/ Crash(d)
  PROVE  WinInv'
<1>1. TInv' /\ row' = row /\ rec' = rec /\ (cloud' = cloud \/ cloud' = [cloud EXCEPT ![d] = Listed(d)])
  BY RestType, WinFacts
<1>2. cloud'[d] \in {cloud[d], row[d], NoRow} BY <1>1, WinFacts, ListedType
<1>3. WinStep(d) BY <1>1, <1>2, WinFacts DEF WinStep, EdgeInv
<1>4. Elsewhere(d) BY <1>1, WinFacts DEF Elsewhere
<1> QED BY <1>1, <1>3, <1>4, WinKeeps

LEMMA RefuseWins ==
  ASSUME WinInv, NEW d \in Desktops, Refuse(d)
  PROVE  WinInv'
<1>1. TInv' /\ row' = row /\ cloud' = cloud BY RefuseType, WinFacts
<1>2. PICK r \in Rec : rec' = [rec EXCEPT ![d] = r] /\ r.out = "refused" /\ r.edge = {}
  BY RefuseType, WinFacts
<1>3. rec'[d] = r BY <1>2, WinFacts
<1>4. WinStep(d) BY <1>1, <1>2, <1>3, WinFacts DEF WinStep
<1>5. Elsewhere(d) BY <1>1, <1>2, WinFacts DEF Elsewhere
<1> QED BY <1>1, <1>4, <1>5, WinKeeps

LEMMA ApplyWins ==
  ASSUME WinInv, NEW d \in Desktops, Apply(d)
  PROVE  WinInv'
<1>1. TInv' /\ cloud' = cloud BY ApplyType, WinFacts
<1>2. PICK now \in Nat, new \in Rec :
        /\ row' = [row EXCEPT ![d] = Imported(d, now)]
        /\ rec' = [rec EXCEPT ![d] = new]
        /\ new.out = "applied"
        /\ \A g \in new.edge : g.from = Start(d) /\ g.to = Imported(d, now).at
  BY ApplyType, WinFacts
<1>3. row'[d] = Imported(d, now) /\ rec'[d] = new BY <1>2, WinFacts
<1>a. Imported(d, now) \in Row /\ Imported(d, now).at \in Nat
  BY WinFacts, ImportedRow DEF Row
<1>4. row'[d].desk = row[d].desk /\ row'[d].st = row[d].st /\ row'[d].at >= row[d].at
      /\ row'[d] \in Row
  BY <1>3, <1>a, WinFacts, ImportedRow
<1>5. row'[d].at \in Nat BY <1>4 DEF Row
<1>6. row[d].st = "live" BY DEF Apply
<1>7. Sound(row'[d]) BY <1>4, <1>5, <1>6, WinFacts DEF Sound
<1>8. WinStep(d) BY <1>1, <1>2, <1>3, <1>4, <1>5, <1>7, WinFacts, StartAfterDesk DEF WinStep
<1>9. Elsewhere(d) BY <1>1, <1>2, WinFacts DEF Elsewhere
<1> QED BY <1>1, <1>8, <1>9, WinKeeps

LEMMA CreateWins ==
  ASSUME WinInv, NEW d \in Desktops, Create(d)
  PROVE  WinInv'
<1>1. TInv' /\ cloud' = cloud BY CreateType, WinFacts
<1>2. PICK now \in Nat, new \in Rec :
        /\ row' = [row EXCEPT ![d] = Created(now)]
        /\ rec' = [rec EXCEPT ![d] = new]
        /\ new.out = "applied"
        /\ \A g \in new.edge : g.from = 0 /\ g.to = Created(now).at
  BY CreateType, WinFacts
<1>3. row'[d] = Created(now) /\ rec'[d] = new BY <1>2, WinFacts
<1>4. row'[d].desk = 0 /\ row'[d].st = "live" /\ row'[d].at = now + 1
  BY <1>3, WinFacts, CreatedRow
<1>5. Sound(row'[d]) BY <1>4 DEF Sound
<1>6. WinStep(d) BY <1>1, <1>2, <1>3, <1>4, <1>5, WinFacts DEF WinStep
<1>7. Elsewhere(d) BY <1>1, <1>2, WinFacts DEF Elsewhere
<1> QED BY <1>1, <1>6, <1>7, WinKeeps

LEMMA EditWins ==
  ASSUME WinInv, NEW d \in Desktops, Edit(d)
  PROVE  WinInv'
<1>1. TInv' /\ (EditedRow(d) \/ Wipe(d)) BY EditType, WinFacts
<1>2. cloud' = cloud BY DEF Edit, EditField, Trash, Restore, Purge, DesktopWrite, Wipe
<1>3. CASE Wipe(d)
  <2>1. row' = [row EXCEPT ![d] = NoRow] /\ rec' = [rec EXCEPT ![d] = NoRec]
    BY <1>3 DEF Wipe
  <2>2. row'[d] = NoRow /\ rec'[d] = NoRec BY <2>1, WinFacts
  <2>3. WinStep(d) BY <1>2, <2>2, WinFacts, EmptyValues DEF WinStep
  <2>4. Elsewhere(d) BY <1>2, <2>1, WinFacts DEF Elsewhere
  <2> QED BY <1>1, <2>3, <2>4, WinKeeps
<1>4. CASE ~Wipe(d)
  <2>1. rec' = rec /\ \E r : row' = [row EXCEPT ![d] = r]
    BY <1>4 DEF Edit, EditField, Trash, Restore, Purge, DesktopWrite
  <2>2. EditedRow(d) BY <1>1, <1>4
  <2>3. row'[d].at \in Nat
    <3>1. row'[d] \in Row BY <1>1 DEF TInv, TypeOK
    <3> QED BY <3>1 DEF Row
  <2>4. Sound(row'[d]) BY <2>2, <2>3 DEF EditedRow, Sound
  <2>5. \A g \in rec[d].edge : g.to < row'[d].at
    BY <2>2, <2>3, WinFacts DEF EditedRow, EdgeInv
  <2>6. \A g \in rec[d].edge :
          g.to <= row'[d].at /\ (g.to = row'[d].at => row'[d].desk <= g.from)
    BY <2>3, <2>5, WinFacts
  <2>7. WinStep(d) BY <1>2, <2>1, <2>4, <2>6, WinFacts DEF WinStep
  <2>8. Elsewhere(d) BY <1>2, <2>1, WinFacts DEF Elsewhere
  <2> QED BY <1>1, <2>7, <2>8, WinKeeps
<1> QED BY <1>3, <1>4

LEMMA StepWins ==
  ASSUME ~MidApply, WinInv, [Next]_vars
  PROVE  WinInv'
<1>1. TInv' BY StepType DEF WinInv
<1>2. CASE UNCHANGED vars \/ WebCreate \/ WebEdit \/ WebType \/ Retention
  <2>1. row' = row /\ rec' = rec /\ cloud' = cloud
    BY <1>2 DEF vars, WebCreate, WebEdit, WebType, Retention, WebPush, WebPull, WebDrop,
       WebSettle, Save, Desk
  <2> QED BY <1>1, <2>1 DEF WinInv, EdgeInv, Sound
<1>3. ASSUME NEW d \in Desktops, Cycle(d) PROVE WinInv'
  BY <1>3, SyncWins, RefuseWins, ApplyWins, CreateWins, RestWins DEF Cycle
<1>4. ASSUME NEW d \in Desktops, Break(d) PROVE WinInv'
  BY <1>4, RestWins DEF Break, Cut
<1>5. ASSUME NEW d \in Desktops, Edit(d) PROVE WinInv'
  BY <1>5, EditWins
<1> QED BY <1>2, <1>3, <1>4, <1>5 DEF Next

\* The fields an import writes are those of its changes.
LEMMA WrittenVal ==
  ASSUME NEW r \in Row, NEW chs, NEW text, NEW now, NEW f \in Fields
  PROVE  LET v == Written(r, chs, text, now).val[f]
         IN  v = r.val[f] \/ \E ch \in chs : ch.f = f /\ v = Web(ch.seq)
<1> DEFINE writes == Cardinality(chs) + IF text \subseteq r.text THEN 0 ELSE 1
           V2(g) == IF \E ch \in chs : ch.f = g
                    THEN Web((CHOOSE ch \in chs : ch.f = g).seq) ELSE r.val[g]
           val2 == [g \in Fields |-> V2(g)]
           at2 == Later(r.at + 1, now) + writes - 1
           w2 == [r EXCEPT !.at = at2, !.own = TRUE, !.val = val2, !.text = @ \cup text]
<1>1. Written(r, chs, text, now) = IF writes = 0 THEN r ELSE w2 BY DEF Written
<1>2. V2(f) = r.val[f] \/ \E ch \in chs : ch.f = f /\ V2(f) = Web(ch.seq)
  <2>1. CASE \E ch \in chs : ch.f = f
    <3>1. (CHOOSE ch \in chs : ch.f = f) \in chs /\ (CHOOSE ch \in chs : ch.f = f).f = f
      BY <2>1
    <3> QED BY <2>1, <3>1
  <2> QED BY <2>1
<1>3. val2[f] = V2(f) OBVIOUS
<1> HIDE DEF val2, at2, V2, writes
<1>4. w2.val = val2 BY DEF Row
<1> QED BY <1>1, <1>2, <1>3, <1>4

\* f of d is overwritten as DesktopEditsWin allows it, or not at all.
Rightly(d, f) ==
  pc[d] = "import" /\ row'[d].val[f] < 0 /\ row'[d].val[f] # row[d].val[f]
    => \/ row[d].val[f] < 0
       \/ \E ch \in file.chs :
            /\ ch.f = f /\ Web(ch.seq) = row'[d].val[f]
            /\ ch.base = row[d].val[f] \/ row[d].desk <= ch.baseAt

LEMMA ApplyRightly ==
  ASSUME WinInv, NEW d \in Desktops, NEW f \in Fields, Apply(d)
  PROVE  Rightly(d, f)
<1>1. PICK now \in Nat : row' = [row EXCEPT ![d] = Imported(d, now)]
  BY ApplyType, WinFacts
<1>2. row'[d] = Written(row[d], Applied(d), file.text, now) BY <1>1, WinFacts DEF Imported
<1>3. row[d] \in Row BY WinFacts
<1>4. row'[d].val[f] = row[d].val[f]
        \/ \E ch \in Applied(d) : ch.f = f /\ row'[d].val[f] = Web(ch.seq)
  BY <1>2, <1>3, WrittenVal
<1>5. ASSUME NEW ch \in Applied(d), ch.f = f, row'[d].val[f] = Web(ch.seq)
      PROVE  Rightly(d, f)
  <2>1. ch \in file.chs /\ ch.baseAt \in Nat BY ImportTypes, WinFacts DEF Change
  <2>2. Decide(d, ch) = "applied" BY DEF Applied
  <2>3. row[d].val[f] = ch.base \/ Chains(d, ch.baseAt) BY <1>5, <2>2 DEF Decide
  <2>4. ch.base = row[d].val[f] \/ row[d].desk <= ch.baseAt BY <2>1, <2>3, ChainedAfterDesk
  <2> QED BY <1>5, <2>1, <2>4 DEF Rightly
<1> QED BY <1>4, <1>5 DEF Rightly

LEMMA CreateRightly ==
  ASSUME WinInv, NEW d \in Desktops, NEW f \in Fields, Create(d)
  PROVE  Rightly(d, f)
<1> DEFINE r0 == [NoRow EXCEPT !.st = "live"]
           w == Written(r0, file.chs, {}, 0)
<1>1. PICK now \in Nat : row' = [row EXCEPT ![d] = Created(now)]
  BY CreateType, WinFacts
<1>2. r0 \in Row /\ r0.val[f] = 0 BY EmptyValues DEF NoRow, Row, States
<1>3. w \in Row
  <2>1. file.chs \in SUBSET Change /\ IsFiniteSet(file.chs) BY WinFacts DEF TInv, TypeOK, Draft
  <2> HIDE DEF r0
  <2> QED BY <1>2, <2>1, WrittenRow
<1> HIDE DEF r0
<1>4. w.val[f] = 0 \/ \E ch \in file.chs : ch.f = f /\ w.val[f] = Web(ch.seq)
  BY <1>2, WrittenVal
<1>5. Created(now) = [w EXCEPT !.at = now + 1, !.own = TRUE, !.text = file.text]
  BY DEF Created, r0
<1> HIDE DEF w
<1>6. row'[d].val[f] = w.val[f] BY <1>1, <1>3, <1>5, WinFacts DEF Row
<1>7. row[d].desk = 0
  <2>1. row[d].st = "none" BY DEF Create, CanCreate
  <2> QED BY <2>1, WinFacts DEF Sound
<1>8. \A ch \in file.chs : ch.baseAt \in Nat BY ImportTypes, WinFacts DEF Change
<1> QED BY <1>4, <1>6, <1>7, <1>8 DEF Rightly

LEMMA StepRightly ==
  ASSUME ~MidApply, WinInv, [Next]_vars, NEW d \in Desktops, NEW f \in Fields
  PROVE  Rightly(d, f)
<1>1. CASE row'[d] = row[d] BY <1>1 DEF Rightly
<1>2. CASE UNCHANGED vars \/ WebCreate \/ WebEdit \/ WebType \/ Retention
  <2>1. row' = row
    BY <1>2 DEF vars, WebCreate, WebEdit, WebType, Retention, WebPush, WebPull, WebDrop,
       WebSettle, Save, Desk
  <2> QED BY <1>1, <2>1
<1>3. ASSUME NEW e \in Desktops, Cycle(e) \/ Break(e) PROVE Rightly(d, f)
  <2>1. CASE Apply(e) \/ Create(e)
    <3>1. CASE e = d BY <2>1, <3>1, ApplyRightly, CreateRightly
    <3>2. CASE e # d
      <4>1. \E r : row' = [row EXCEPT ![e] = r] BY <2>1 DEF Apply, Create
      <4> QED BY <1>1, <3>2, <4>1, WinFacts
    <3> QED BY <3>1, <3>2
  <2>2. CASE Sync(e)
    <3>1. \E r : row' = [row EXCEPT ![e] = r] BY <2>2, SyncType, WinFacts
    <3>2. pc[e] = "idle" BY <2>2 DEF Sync
    <3> QED BY <1>1, <3>1, <3>2, WinFacts DEF Rightly
  <2>3. CASE Refuse(e) BY <1>1, <2>3 DEF Refuse
  <2>4. CASE Skip(e) \/ AwaitPull(e) \/ Publish(e) \/ WriteAcks(e) \/ Defer(e) \/ Crash(e)
    BY <1>1, <2>4, RestType, WinFacts
  <2> QED BY <1>3, <2>1, <2>2, <2>3, <2>4 DEF Cycle, Break, Cut
<1>4. ASSUME NEW e \in Desktops, Edit(e) PROVE Rightly(d, f)
  <2>1. CASE Wipe(e)
    <3>1. \E r : row' = [row EXCEPT ![e] = r] BY <2>1 DEF Wipe
    <3>2. pc[e] = "idle" BY <2>1 DEF Wipe
    <3> QED BY <1>1, <3>1, <3>2, WinFacts DEF Rightly
  <2>2. CASE EditedRow(e) /\ ~Wipe(e)
    <3>1. \E r : row' = [row EXCEPT ![e] = r]
      BY <1>4, <2>2 DEF Edit, EditField, Trash, Restore, Purge, DesktopWrite
    <3>2. CASE e = d
      <4>1. row'[d].val[f] = row[d].val[f] \/ row'[d].val[f] > 0
        BY <2>2, <3>2 DEF EditedRow
      <4>2. row'[d].val[f] \in Int
        <5>1. row'[d] \in Row BY <1>4, EditType, WinFacts DEF TInv, TypeOK
        <5> QED BY <5>1, Values DEF Row
      <4> QED BY <4>1, <4>2 DEF Rightly
    <3>3. CASE e # d BY <1>1, <3>1, <3>3, WinFacts
    <3> QED BY <3>2, <3>3
  <2> QED BY <1>4, <2>1, <2>2, EditType, WinFacts
<1> QED BY <1>2, <1>3, <1>4 DEF Next

LEMMA InitWins == Init => WinInv
<1> SUFFICES ASSUME Init PROVE WinInv OBVIOUS
<1>1. TInv BY InitType
<1>2. \A d \in Desktops : rec[d] = NoRec BY DEF Init
<1>3. \A d \in Desktops : row[d].at \in Nat BY <1>1 DEF TInv, TypeOK, Row
<1>4. \A d \in Desktops : Sound(row[d]) BY <1>3, InitRows DEF Sound
<1>5. Sound(NoRow) BY EmptyValues DEF Sound
<1>6. \A d \in Desktops : Sound(cloud[d]) BY <1>4, <1>5, InitRows
<1> QED BY <1>1, <1>2, <1>4, <1>6, EmptyValues DEF WinInv, EdgeInv

\* DesktopEditsWin for any desktops, fields, clocks and bounds, as long as no
\* crash cuts an import in two: a change that overwrites a desktop's value was
\* made on that value or after it was seen.
THEOREM DesktopsWin == ~MidApply => (Spec => DesktopEditsWin)
<1> SUFFICES ASSUME ~MidApply PROVE Spec => DesktopEditsWin OBVIOUS
<1>1. Init => WinInv BY InitWins
<1>2. WinInv /\ [Next]_vars => WinInv' BY StepWins
<1>3. WinInv /\ [Next]_vars =>
        [\A d \in Desktops, f \in Fields :
           pc[d] = "import" /\ row'[d].val[f] < 0 /\ row'[d].val[f] # row[d].val[f]
             => \/ row[d].val[f] < 0
                \/ \E ch \in file.chs :
                     /\ ch.f = f /\ Web(ch.seq) = row'[d].val[f]
                     /\ ch.base = row[d].val[f] \/ row[d].desk <= ch.baseAt]_vars
  BY StepRightly DEF Rightly
<1> QED BY <1>1, <1>2, <1>3, PTL DEF Spec, DesktopEditsWin

-----------------------------------------------------------------------------
(* Text typed in the browser is kept, when no desktop is wiped. *)

Texts == UNION {row[d].text : d \in Desktops}

\* A row that says nothing has no stamp to be pulled by, and no text to lose.
Hollow(r) == r.st = "none" => r.at = 0 /\ r.text = {}

\* What d published it still has.
Kept(d) == cloud[d].text \subseteq row[d].text /\ Hollow(row[d]) /\ Hollow(cloud[d])

\* What the browser compares its draft with is in some database: the text it
\* last pulled was published by a desktop, which has it still.
KeptInv ==
  /\ TInv
  /\ ver = 0 => draft.text = {}
  /\ synced.row.text \subseteq Texts
  /\ \A d \in Desktops : Kept(d)

\* Facts of d in the invariant, for the lemmas of the steps.
LEMMA KeptFacts ==
  ASSUME KeptInv, NEW d \in Desktops
  PROVE  /\ TInv /\ Kept(d) /\ row[d].at \in Nat
         /\ row \in [Desktops -> Row] /\ cloud \in [Desktops -> Row]
         /\ NoRow.text = {} /\ Hollow(NoRow)
<1>1. TInv /\ Kept(d) BY DEF KeptInv
<1>2. row \in [Desktops -> Row] /\ cloud \in [Desktops -> Row] BY <1>1 DEF TInv, TypeOK
<1>3. row[d].at \in Nat BY <1>2 DEF Row
<1>4. NoRow.text = {} BY DEF NoRow
<1> QED BY <1>1, <1>2, <1>3, <1>4, EmptyValues DEF Hollow

\* An import adds to the text of the row and takes nothing from it.
LEMMA WrittenText ==
  ASSUME NEW r \in Row, NEW chs, NEW text, NEW now
  PROVE  r.text \subseteq Written(r, chs, text, now).text
<1> DEFINE writes == Cardinality(chs) + IF text \subseteq r.text THEN 0 ELSE 1
           V2(g) == IF \E ch \in chs : ch.f = g
                    THEN Web((CHOOSE ch \in chs : ch.f = g).seq) ELSE r.val[g]
           val2 == [g \in Fields |-> V2(g)]
           at2 == Later(r.at + 1, now) + writes - 1
           w2 == [r EXCEPT !.at = at2, !.own = TRUE, !.val = val2, !.text = @ \cup text]
<1>1. Written(r, chs, text, now) = IF writes = 0 THEN r ELSE w2 BY DEF Written
<1> HIDE DEF val2, at2, writes
<1>2. w2.text = r.text \cup text BY DEF Row
<1> HIDE DEF w2
<1> QED BY <1>1, <1>2

\* What a step on d does to its texts, and that it does nothing else.
KeptStep(d) ==
  /\ row[d].text \subseteq row'[d].text /\ cloud'[d].text \subseteq row'[d].text
  /\ Hollow(row'[d]) /\ Hollow(cloud'[d])
Apart(d) ==
  \A e \in Desktops \ {d} : row'[e] = row[e] /\ cloud'[e] = cloud[e]

LEMMA SyncKeeps ==
  ASSUME KeptInv, NEW d \in Desktops, Sync(d)
  PROVE  KeptStep(d) /\ Apart(d)
<1>1. cloud' = [cloud EXCEPT ![d] = Listed(d)] BY SyncType, KeptFacts
<1>2. PICK x \in Desktops : row' = [row EXCEPT ![d] = Pulled(@, cloud'[x])]
  BY DEF Sync
<1>3. Apart(d) BY <1>1, <1>2, KeptFacts DEF Apart
<1>4. cloud'[d] \in {row[d], NoRow} BY <1>1, KeptFacts, ListedType
<1>5. cloud'[x] \in Row /\ Hollow(cloud'[x])
  <2>1. CASE x = d BY <1>4, <2>1, KeptFacts, EmptyValues DEF Kept
  <2>2. CASE x # d BY <1>1, <2>2, KeptFacts DEF Kept
  <2> QED BY <2>1, <2>2
<1>6. row'[d] = Pulled(row[d], cloud'[x]) BY <1>2, KeptFacts
<1>7. row[d] \in Row BY KeptFacts
<1>8. row[d].text \subseteq row'[d].text
  BY <1>5, <1>6, <1>7 DEF Pulled, Row
<1>9. Hollow(row'[d])
  <2>1. CASE row'[d] = row[d] BY <2>1, KeptFacts DEF Kept
  <2>2. CASE row'[d].st = cloud'[x].st /\ cloud'[x].at > row[d].at
    BY <1>5, <2>2, KeptFacts DEF Hollow
  <2> QED BY <1>5, <1>6, <1>7, <2>1, <2>2, PulledRow
<1>10. cloud'[d].text \subseteq row'[d].text /\ Hollow(cloud'[d])
  BY <1>4, <1>8, KeptFacts DEF Kept
<1> QED BY <1>3, <1>8, <1>9, <1>10 DEF KeptStep

\* The row of d after an import, for any of the rows it may write.
LEMMA ImportKeeps ==
  ASSUME KeptInv, NEW d \in Desktops, NEW r, row' = [row EXCEPT ![d] = r],
         cloud' = cloud, row[d].text \subseteq r.text, Hollow(r)
  PROVE  KeptStep(d) /\ Apart(d)
<1>1. row'[d] = r /\ Apart(d) BY KeptFacts DEF Apart
<1> QED BY <1>1, KeptFacts DEF KeptStep, Kept

LEMMA CutKeeps ==
  ASSUME KeptInv, NEW d \in Desktops, Cut(d)
  PROVE  KeptStep(d) /\ Apart(d)
<1>1. cloud' = cloud BY DEF Cut
<1>2. row[d] \in Row /\ row = [row EXCEPT ![d] = row[d]] /\ Hollow(row[d])
  BY KeptFacts DEF Kept
<1>3. CASE row[d].st = "live"
  <2>1. PICK now \in Clock, k \in Fields \cup {0}, t \in {{}, file.text} :
          row' = [row EXCEPT ![d] = Written(@, {ch \in Applied(d) : ch.f <= k}, t, now)]
    BY <1>3 DEF Cut, CanCreate
  <2> DEFINE chs == {ch \in Applied(d) : ch.f <= k}
  <2>2. chs \in SUBSET Change /\ IsFiniteSet(chs)
    <3>1. chs \in SUBSET file.chs BY ImportTypes, KeptFacts
    <3> QED BY <3>1, ImportTypes, KeptFacts
  <2>3. now \in Nat /\ t \in SUBSET (1..MaxSeq)
    BY ClockType, ImportTypes, KeptFacts DEF TInv
  <2>4. row' = [row EXCEPT ![d] = Written(row[d], chs, t, now)] BY <2>1
  <2> HIDE DEF chs
  <2>5. Written(row[d], chs, t, now).st = "live" BY <1>2, <1>3, <2>2, <2>3, WrittenRow
  <2>6. row[d].text \subseteq Written(row[d], chs, t, now).text BY <1>2, WrittenText
  <2> QED BY <1>1, <2>4, <2>5, <2>6, ImportKeeps DEF Hollow
<1>4. CASE row[d].st # "live"
  <2>1. CanCreate(d) BY <1>4 DEF Cut
  <2>2. row[d].text = {} BY <1>2, <2>1 DEF CanCreate, Hollow
  <2>3. PICK now \in Clock :
          row' \in {row, [row EXCEPT ![d] = Created(now)],
                    [row EXCEPT ![d] = [Created(now) EXCEPT
                       !.at = now, !.own = FALSE, !.text = {}]]}
    BY <1>4 DEF Cut
  <2>4. now \in Nat BY ClockType, KeptFacts DEF TInv
  <2>5. Created(now) \in Row /\ Created(now).st = "live" BY <2>4, CreatedRow, KeptFacts
  <2>6. [Created(now) EXCEPT !.at = now, !.own = FALSE, !.text = {}].st = "live"
    BY <2>5 DEF Row
  <2>7. CASE row' = row BY <1>1, <1>2, <2>7, ImportKeeps
  <2>8. CASE row' = [row EXCEPT ![d] = Created(now)]
    BY <1>1, <2>2, <2>5, <2>8, ImportKeeps DEF Hollow
  <2>9. CASE row' = [row EXCEPT ![d] = [Created(now) EXCEPT
                       !.at = now, !.own = FALSE, !.text = {}]]
    BY <1>1, <2>2, <2>6, <2>9, ImportKeeps DEF Hollow
  <2> QED BY <2>3, <2>7, <2>8, <2>9
<1> QED BY <1>3, <1>4

LEMMA EditKeeps ==
  ASSUME KeptInv, ~Wipes, NEW d \in Desktops, Edit(d)
  PROVE  KeptStep(d) /\ Apart(d)
<1>1. EditedRow(d) BY EditType, KeptFacts DEF Wipe
<1>2. PICK r : DesktopWrite(d, r) /\ r.text = row[d].text
  <2>1. row[d] \in Row BY KeptFacts
  <2>2. CASE EditField(d)
    <3>1. PICK f \in Fields, now \in Clock :
            DesktopWrite(d, [row[d] EXCEPT !.at = Later(@ + 1, now), !.val[f] = edits + 1])
      BY <2>2 DEF EditField
    <3>2. [row[d] EXCEPT !.at = Later(@ + 1, now), !.val[f] = edits + 1].text = row[d].text
      BY <2>1 DEF Row
    <3> QED BY <3>1, <3>2
  <2>3. CASE Trash(d)
    <3>1. PICK now \in Clock :
            DesktopWrite(d, [row[d] EXCEPT !.at = Later(@ + 1, now), !.st = "trash"])
      BY <2>3 DEF Trash
    <3>2. [row[d] EXCEPT !.at = Later(@ + 1, now), !.st = "trash"].text = row[d].text
      BY <2>1 DEF Row
    <3> QED BY <3>1, <3>2
  <2>4. CASE Restore(d)
    <3>1. PICK now \in Clock :
            DesktopWrite(d, [row[d] EXCEPT !.at = Later(@ + 2, now), !.st = "live"])
      BY <2>4 DEF Restore
    <3>2. [row[d] EXCEPT !.at = Later(@ + 2, now), !.st = "live"].text = row[d].text
      BY <2>1 DEF Row
    <3> QED BY <3>1, <3>2
  <2>5. CASE Purge(d)
    <3>1. DesktopWrite(d, [row[d] EXCEPT !.at = @ + 1, !.st = "purged"])
      BY <2>5 DEF Purge
    <3>2. [row[d] EXCEPT !.at = @ + 1, !.st = "purged"].text = row[d].text
      BY <2>1 DEF Row
    <3> QED BY <3>1, <3>2
  <2> QED BY <2>2, <2>3, <2>4, <2>5 DEF Edit, Wipe
<1> DEFINE new == [r EXCEPT !.own = TRUE, !.desk = r.at]
<1>3. row' = [row EXCEPT ![d] = new] /\ cloud' = cloud BY <1>2 DEF DesktopWrite
<1>4. new.text = r.text OBVIOUS
<1> HIDE DEF new
<1>5. row'[d] = new BY <1>3, KeptFacts
<1>6. Hollow(new) BY <1>1, <1>5 DEF EditedRow, Hollow
<1> QED BY <1>2, <1>3, <1>4, <1>6, ImportKeeps

\* No step of a desktop takes text from a database.
LEMMA DeskKeeps ==
  ASSUME KeptInv, ~Wipes, NEW d \in Desktops, Cycle(d) \/ Break(d) \/ Edit(d)
  PROVE  KeptStep(d) /\ Apart(d)
<1>1. CASE Sync(d) BY <1>1, SyncKeeps
<1>2. CASE Apply(d)
  <2>1. PICK now \in Nat : row' = [row EXCEPT ![d] = Imported(d, now)]
    BY <1>2, ApplyType, KeptFacts
  <2>2. cloud' = cloud /\ row[d].st = "live" BY <1>2 DEF Apply
  <2>3. Imported(d, now).st = "live" BY <2>2, ImportedRow, KeptFacts
  <2>4. row[d].text \subseteq Imported(d, now).text BY WrittenText, KeptFacts DEF Imported
  <2> QED BY <2>1, <2>2, <2>3, <2>4, ImportKeeps DEF Hollow
<1>3. CASE Create(d)
  <2>1. PICK now \in Nat : row' = [row EXCEPT ![d] = Created(now)]
    BY <1>3, CreateType, KeptFacts
  <2>2. cloud' = cloud /\ row[d].st = "none" BY <1>3 DEF Create, CanCreate
  <2>3. row[d].text = {} BY <2>2, KeptFacts DEF Kept, Hollow
  <2>4. Created(now).st = "live" BY CreatedRow, KeptFacts
  <2> QED BY <2>1, <2>2, <2>3, <2>4, ImportKeeps DEF Hollow
<1>4. CASE Refuse(d)
  <2>1. row' = row /\ cloud' = cloud BY <1>4 DEF Refuse
  <2> QED BY <2>1, KeptFacts DEF KeptStep, Apart, Kept
<1>5. CASE Skip(d) \/ AwaitPull(d) \/ Publish(d) \/ WriteAcks(d) \/ Defer(d) \/ Crash(d)
  <2>1. row' = row /\ (cloud' = cloud \/ cloud' = [cloud EXCEPT ![d] = Listed(d)])
    BY <1>5, RestType, KeptFacts
  <2>2. cloud'[d] \in {cloud[d], row[d], NoRow} BY <2>1, KeptFacts, ListedType
  <2>3. Apart(d) BY <2>1, KeptFacts DEF Apart
  <2>4. KeptStep(d) BY <2>1, <2>2, KeptFacts DEF KeptStep, Kept
  <2> QED BY <2>3, <2>4
<1>6. CASE Cut(d) BY <1>6, CutKeeps
<1>7. CASE Edit(d) BY <1>7, EditKeeps
<1> QED BY <1>1, <1>2, <1>3, <1>4, <1>5, <1>6, <1>7 DEF Cycle, Break

LEMMA DeskTexts ==
  ASSUME KeptInv, ~Wipes, NEW d \in Desktops, Cycle(d) \/ Break(d) \/ Edit(d)
  PROVE  \A e \in Desktops : row[e].text \subseteq row'[e].text /\ Kept(e)'
<1>1. KeptStep(d) /\ Apart(d) BY DeskKeeps
<1> QED BY <1>1, KeptFacts DEF KeptStep, Apart, Kept, Hollow

\* A draft gains text with every save and keeps it, until it is dropped.
LEMMA WebTexts ==
  ASSUME KeptInv, WebCreate \/ WebEdit \/ WebType \/ Retention
  PROVE  /\ row' = row /\ cloud' = cloud
         /\ draft.text \subseteq draft'.text \/ WebDrop
         /\ ver' = 0 => draft'.text = {}
         /\ synced'.row.text \subseteq Texts
<1>0. ver \in Nat /\ TInv BY DraftParts DEF KeptInv
<1>1. row' = row /\ cloud' = cloud
  BY DEF WebCreate, WebEdit, WebType, Retention, WebPush, WebPull, WebDrop, WebSettle,
     Save, Desk
<1>2. CASE WebCreate \/ WebEdit \/ WebType
  <2>1. ver' # 0 /\ synced' = synced
    BY <1>0, <1>2 DEF WebCreate, WebEdit, WebType, Save
  <2>2. draft.text \subseteq draft'.text
    BY <1>2 DEF KeptInv, WebCreate, WebEdit, WebType, Save
  <2> QED BY <1>1, <2>1, <2>2 DEF KeptInv
<1>3. CASE WebPush
  <2>1. draft' \in {draft, [draft EXCEPT !.pushed = TRUE]} /\ UNCHANGED <<ver, synced>>
    BY <1>3 DEF WebPush
  <2>2. draft \in Draft BY <1>0, DraftParts
  <2>3. draft'.text = draft.text BY <2>1, <2>2 DEF Draft
  <2> QED BY <1>1, <2>1, <2>3 DEF KeptInv
<1>4. CASE WebPull
  <2>1. PICK e \in Desktops :
          synced' = [row |-> [cloud[e] EXCEPT !.own = FALSE], hard |-> HardDeleted]
    BY <1>4 DEF WebPull
  <2>2. cloud[e] \in Row /\ cloud[e].text \subseteq row[e].text
    BY KeptFacts DEF Kept
  <2>3. synced'.row.text = cloud[e].text BY <2>1, <2>2 DEF Row
  <2>4. UNCHANGED <<draft, ver>> BY <1>4 DEF WebPull
  <2> QED BY <1>1, <2>2, <2>3, <2>4 DEF KeptInv, Texts
<1>5. CASE WebDrop
  <2>1. UNCHANGED <<ver, synced>> /\ draft'.text = {} BY <1>5 DEF WebDrop, NoDraft
  <2> QED BY <1>1, <1>5, <2>1 DEF KeptInv
<1>6. CASE WebSettle
  <2>1. draft \in Draft BY <1>0, DraftParts
  <2>2. draft'.text = draft.text /\ synced' = synced /\ (ver' = ver \/ ver' = ver + 1)
    BY <1>6, <2>1 DEF WebSettle, Draft
  <2>3. ver' = 0 => ver = 0 BY <1>0, <2>2
  <2> QED BY <1>1, <2>2, <2>3 DEF KeptInv
<1> QED BY <1>2, <1>3, <1>4, <1>5, <1>6 DEF Retention

LEMMA StepKeepsText ==
  ASSUME ~Wipes, KeptInv, [Next]_vars
  PROVE  KeptInv'
<1>1. TInv' BY StepType DEF KeptInv
<1>2. CASE UNCHANGED vars
  <2>1. UNCHANGED <<row, cloud, draft, synced, ver>> BY <1>2 DEF vars, web
  <2> QED BY <1>1, <2>1 DEF KeptInv, Kept, Hollow, Texts
<1>3. ASSUME NEW d \in Desktops, Cycle(d) \/ Break(d) \/ Edit(d) PROVE KeptInv'
  <2>1. \A e \in Desktops : row[e].text \subseteq row'[e].text /\ Kept(e)'
    BY <1>3, DeskTexts
  <2>2. UNCHANGED <<draft, synced, ver>>
    BY <1>3 DEF Cycle, Sync, Skip, Refuse, AwaitPull, Apply, Create, Publish, WriteAcks,
       Break, Defer, Cut, Crash, Edit, EditField, Trash, Restore, Purge, Wipe,
       DesktopWrite, web
  <2>3. Texts \subseteq Texts' BY <2>1 DEF Texts
  <2> QED BY <1>1, <2>1, <2>2, <2>3 DEF KeptInv
<1>4. CASE WebCreate \/ WebEdit \/ WebType \/ Retention
  <2>1. /\ row' = row /\ cloud' = cloud /\ (ver' = 0 => draft'.text = {})
        /\ synced'.row.text \subseteq Texts
    BY <1>4, WebTexts
  <2> QED BY <1>1, <2>1 DEF KeptInv, Kept, Hollow, Texts
<1> QED BY <1>2, <1>3, <1>4 DEF Next

\* A draft is dropped with text only for what it was compared with.
LEMMA DroppedHeld ==
  ASSUME KeptInv, WebDrop, ~synced.hard, ~CreateRefused
  PROVE  draft.text \subseteq Texts
<1>1. Settled BY DEF WebDrop, DropDraft
<1> QED BY <1>1 DEF Settled, KeptInv

LEMMA StepHolds ==
  ASSUME ~Wipes, KeptInv, [Next]_vars, ~synced.hard, ~CreateRefused
  PROVE  Held \subseteq Held'
<1>1. CASE UNCHANGED vars BY <1>1 DEF vars, web, Held
<1>2. ASSUME NEW d \in Desktops, Cycle(d) \/ Break(d) \/ Edit(d)
      PROVE  Held \subseteq Held'
  <2>1. \A e \in Desktops : row[e].text \subseteq row'[e].text BY <1>2, DeskTexts
  <2>2. draft' = draft
    BY <1>2 DEF Cycle, Sync, Skip, Refuse, AwaitPull, Apply, Create, Publish, WriteAcks,
       Break, Defer, Cut, Crash, Edit, EditField, Trash, Restore, Purge, Wipe,
       DesktopWrite, web
  <2> QED BY <2>1, <2>2 DEF Held
<1>3. CASE WebCreate \/ WebEdit \/ WebType \/ Retention
  <2>1. row' = row /\ (draft.text \subseteq draft'.text \/ WebDrop) BY <1>3, WebTexts
  <2>2. draft.text \subseteq draft'.text \cup Texts BY <2>1, DroppedHeld
  <2> QED BY <2>1, <2>2 DEF Held, Texts
<1> QED BY <1>1, <1>2, <1>3 DEF Next

LEMMA InitKept == Init => KeptInv
<1> SUFFICES ASSUME Init PROVE KeptInv OBVIOUS
<1>1. TInv BY InitType
<1>2. PICK r \in {IF b THEN [NoRow EXCEPT !.st = "live", !.at = 1, !.desk = 1] ELSE NoRow :
                    b \in Starts} :
       /\ row = [d \in Desktops |-> [r EXCEPT !.own = r.st = "live" /\ d = Least(Desktops)]]
       /\ synced = [row |-> [cloud[Least(Desktops)] EXCEPT !.own = FALSE], hard |-> FALSE]
  BY DEF Init
<1>3. r \in Row /\ r.text = {}
  <2> DEFINE live == [NoRow EXCEPT !.st = "live", !.at = 1, !.desk = 1]
  <2>1. r = live \/ r = NoRow BY <1>2
  <2>2. NoRow.text = {} /\ "live" \in States /\ 1 \in Nat BY DEF NoRow, States
  <2>3. live \in Row /\ live.text = {} BY <2>2, EmptyValues DEF Row
  <2> HIDE DEF live
  <2> QED BY <2>1, <2>2, <2>3, EmptyValues
<1>4. \A d \in Desktops : row[d].text = {}
  <2>1. \A b : [r EXCEPT !.own = b].text = {} BY <1>3 DEF Row
  <2> QED BY <1>2, <2>1
<1>5. NoRow.text = {} BY DEF NoRow
<1>6. \A d \in Desktops : cloud[d].text = {} BY <1>4, <1>5, InitRows
<1>7. \A d \in Desktops : Hollow(row[d]) /\ Hollow(cloud[d])
  BY <1>4, <1>5, InitRows, EmptyValues DEF Hollow
<1>8. synced.row.text = {}
  <2>1. Least(Desktops) \in Desktops BY LeastOfNat, OutboxAssumption
  <2>2. cloud[Least(Desktops)] \in Row BY <2>1, InitRows
  <2> QED BY <1>2, <1>6, <2>1, <2>2 DEF Row
<1>9. draft.text = {} BY DEF Init, NoDraft
<1> QED BY <1>1, <1>4, <1>6, <1>7, <1>8, <1>9 DEF KeptInv, Kept

\* TextIsKept for any desktops, clocks and bounds, whatever is cut, crashes or
\* fails to upload, as long as no desktop loses its database: what was typed
\* stays in the draft until some desktop has it.
THEOREM TextAlwaysKept == ~Wipes => (Spec => TextIsKept)
<1> SUFFICES ASSUME ~Wipes PROVE Spec => TextIsKept OBVIOUS
<1>1. Init => KeptInv BY InitKept
<1>2. KeptInv /\ [Next]_vars => KeptInv' BY StepKeepsText
<1>3. KeptInv /\ [Next]_vars =>
        [synced.hard \/ CreateRefused \/ Wiped \/ Wiped' \/ Held \subseteq Held']_vars
  BY StepHolds
<1> QED BY <1>1, <1>2, <1>3, PTL DEF Spec, TextIsKept

=============================================================================
