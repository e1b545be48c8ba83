-------------------------- MODULE EntrySyncProofs --------------------------
(***************************************************************************)
(* Theorems about EntrySync for every set of devices and entries and every *)
(* bound: its types, the order in which rows move, and that body text is    *)
(* neither dropped nor left unpublished.                                    *)
(*                                                                         *)
(* The proofs go through two facts about every step: what it may do to a    *)
(* row (RowStep) and what it may do to the copies of entries elsewhere, the *)
(* blobs, the ledger and the locals of an operation (CopyStep).             *)
(***************************************************************************)
EXTENDS EntrySync, TLAPS

-----------------------------------------------------------------------------
(* Types                                                                    *)

\* The default values of rows, ledgers, manifests and operation locals are typed.
LEMMA ValueTypes ==
  /\ Absent \in Row /\ Original \in Row
  /\ NoLedger \in Ledger
  /\ NoLines \in Lines
  /\ NoPush \in Push
  /\ NoPull \in Pull
<1>0. 0 \in Stamps /\ 1 \in Stamps /\ 0 \in Ops
  BY BoundsAssumption DEF Stamps, Ops
<1>1. Absent \in Row /\ Original \in Row
  BY <1>0 DEF Absent, Original, Row, States
<1>2. NoLines \in Lines
  BY <1>0 DEF NoLines, Unlisted, Lines, Line, States
<1>3. NoPush \in Push
  BY <1>1, <1>2 DEF NoPush, Push
<1>4. NoPull \in Pull
  BY <1>1, <1>2 DEF NoPull, Pull
<1> QED BY <1>1, <1>2, <1>3, <1>4 DEF NoLedger, Ledger

\* A device's manifest summary and diff view are manifest lines.
LEMMA SummaryType == ASSUME TypeOK, NEW d \in Devices
                     PROVE  Summary(d) \in Lines /\ LocalView(d) \in Lines
<1>1. 0 \in Stamps BY BoundsAssumption DEF Stamps
<1>2. Unlisted \in Line BY <1>1 DEF Unlisted, Line, States
<1>3. row[d] \in [Entries -> Row] /\ ledger[d] \in [Entries -> Ledger]
  BY DEF TypeOK
<1> QED BY <1>2, <1>3 DEF Summary, LocalView, Lines, Line, Row, Ledger

\* Merging two rows gives a row.
LEMMA MergeType ==
  ASSUME NEW d \in Devices, NEW p \in Devices, NEW local \in Row,
         NEW remote \in Row, NEW owned \in BOOLEAN
  PROVE  Merge(d, p, local, remote, owned) \in Row
BY DEF Merge, MergedDoc, Row

\* Marking pending, queueing again and stamping give ledger rows.
LEMMA LedgerTypes ==
  ASSUME NEW l \in Ledger
  PROVE  /\ MarkedPending(l) \in Ledger
         /\ \A b : Requeued(l, b) \in Ledger
         /\ \A v : Stamped(l, v) \in Ledger
<1>1. /\ [l EXCEPT !.pending = TRUE] \in Ledger
      /\ [l EXCEPT !.pending = FALSE] \in Ledger
  BY DEF Ledger
<1>2. MarkedPending(l) \in Ledger BY DEF MarkedPending, Ledger
<1> QED BY <1>1, <1>2 DEF Requeued, Stamped

\* The tombstone of a row within the stamp bound is a row.
LEMMA PurgedType ==
  ASSUME NEW r \in Row, NEW n \in Ops, r.ts < MaxStamp
  PROVE  Purged(r, n) \in Row
<1>1. r.ts + 1 \in Stamps BY BoundsAssumption DEF Row, Stamps
<1> QED BY <1>1 DEF Purged, Row, States

\* The updates of the push locals stay typed.
LEMMA PushTypes ==
  ASSUME NEW p \in Push
  PROVE  /\ \A S \in SUBSET Entries : [p EXCEPT !.queue = S] \in Push
         /\ \A x \in Lines : [p EXCEPT !.draft = x] \in Push
         /\ \A e \in Entries, r \in Row, v \in Nat :
              [p EXCEPT !.now = {e}, !.snap = r, !.ver = v] \in Push
<1>1. ASSUME NEW S \in SUBSET Entries PROVE [p EXCEPT !.queue = S] \in Push
  BY DEF Push
<1>2. ASSUME NEW x \in Lines PROVE [p EXCEPT !.draft = x] \in Push
  BY DEF Push
<1>3. ASSUME NEW e \in Entries, NEW r \in Row, NEW v \in Nat
      PROVE  [p EXCEPT !.now = {e}, !.snap = r, !.ver = v] \in Push
  BY DEF Push
<1> QED BY <1>1, <1>2, <1>3

\* The initial states are typed.
LEMMA InitType == Init => TypeOK
<1> SUFFICES ASSUME Init PROVE TypeOK OBVIOUS
<1>1. row \in [Devices -> [Entries -> Row]] /\ blob \in [Devices -> [Entries -> Row]]
  BY ValueTypes DEF Init
<1>2. ledger \in [Devices -> [Entries -> Ledger]]
  BY ValueTypes DEF Init, Ledger
<1>3. \A d \in Devices : Summary(d) \in Lines
  <2> TAKE d \in Devices
  <2>1. 0 \in Stamps BY BoundsAssumption DEF Stamps
  <2> QED BY <1>1, <1>2, <2>1 DEF Summary, Unlisted, Lines, Line, Row, Ledger, States
<1>4. manifest \in [Devices -> [rev : Nat, up : BOOLEAN, lines : Lines]]
      /\ pushHash \in [Devices -> SUBSET Lines]
  BY <1>3 DEF Init
<1>5. written \in [Entries -> SUBSET Write]
  BY ValueTypes DEF Init, WriteOf, Write, Row
<1>6. pc \in [Devices -> PCs] /\ push \in [Devices -> Push] /\ pull \in [Devices -> Pull]
  BY ValueTypes DEF Init, PCs
<1> QED BY <1>1, <1>2, <1>4, <1>5, <1>6, BoundsAssumption DEF Init, TypeOK

\* The transaction of a user write keeps rows, ledgers and history typed.
LEMMA SaveType ==
  ASSUME TypeOK, NEW d \in Devices, NEW e \in Entries, NEW r \in Row,
         Save(d, e, r)
  PROVE  /\ row' \in [Devices -> [Entries -> Row]]
         /\ ledger' \in [Devices -> [Entries -> Ledger]]
         /\ written' \in [Entries -> SUBSET Write]
         /\ nops' \in 0..MaxOps
<1>1. row' \in [Devices -> [Entries -> Row]]
  BY DEF Save, TypeOK
<1>2. ledger' \in [Devices -> [Entries -> Ledger]]
  <2>1. ledger[d][e] \in Ledger BY DEF TypeOK
  <2>2. MarkedPending(ledger[d][e]) \in Ledger BY <2>1, LedgerTypes
  <2> QED BY <2>2 DEF Save, TypeOK
<1>3. written' \in [Entries -> SUBSET Write]
  <2>1. WriteOf(r) \in Write BY DEF WriteOf, Write, Row
  <2> QED BY <2>1 DEF Save, TypeOK
<1>4. nops' \in 0..MaxOps BY BoundsAssumption DEF Save, TypeOK
<1> QED BY <1>1, <1>2, <1>3, <1>4

\* User writes keep every type.
LEMMA UserWriteType ==
  ASSUME TypeOK, NEW d \in Devices, UserWrite(d)
  PROVE  TypeOK'
<1>1. PICK e \in Entries :
        \/ Create(d, e) \/ EditBody(d, e) \/ EditFields(d, e)
        \/ Trash(d, e)  \/ Restore(d, e)  \/ Purge(d, e)
  BY DEF UserWrite
<1>2. /\ row[d][e] \in Row
      /\ 0 \in Ops
      /\ nops < MaxOps => nops + 1 \in Ops
  BY BoundsAssumption DEF TypeOK, Ops
<1>3. \A r \in Row : Save(d, e, r) =>
        /\ row' \in [Devices -> [Entries -> Row]]
        /\ ledger' \in [Devices -> [Entries -> Ledger]]
        /\ written' \in [Entries -> SUBSET Write]
        /\ nops' \in 0..MaxOps
  BY SaveType
<1>4. \E r \in Row : Save(d, e, r)
  <2>1. CASE Create(d, e)
    BY <1>2, <2>1 DEF Create, Save, Row, States
  <2>2. CASE EditBody(d, e)
    BY <1>2, <2>2 DEF EditBody, Save, Row, NewStamps
  <2>3. CASE EditFields(d, e)
    BY <1>2, <2>3 DEF EditFields, Save, Row, NewStamps
  <2>4. CASE Trash(d, e)
    BY <1>2, <2>4 DEF Trash, Save, Row, States, NewStamps
  <2>5. CASE Restore(d, e)
    BY <1>2, <2>5 DEF Restore, Save, Row, States, NewStamps
  <2>6. CASE Purge(d, e)
    BY <1>2, <2>6, PurgedType DEF Purge, Save
  <2> QED BY <1>1, <2>1, <2>2, <2>3, <2>4, <2>5, <2>6
<1>5. /\ UNCHANGED <<pushHash, pullRev, cloud, pc, push, pull, faults>>
      /\ reconciled' \in [Devices -> BOOLEAN]
  BY <1>1 DEF Create, EditBody, EditFields, Trash, Restore, Purge, TypeOK, cloud
<1> QED BY <1>3, <1>4, <1>5 DEF TypeOK, cloud

\* Starting an operation and the push half keep every type.
LEMMA PushStepType ==
  ASSUME TypeOK, NEW d \in Devices,
         StartSync(d) \/ PushStep(d) \/ \E e \in Entries : PushEntry(d, e)
  PROVE  TypeOK'
<1> USE DEF db, cloud, count, Goto
<1>0. NoPush \in Push /\ NoPull \in Pull BY ValueTypes
<1>0a. Summary(d) \in Lines BY SummaryType
<1>0b. push[d] \in Push BY DEF TypeOK
<1>0c. [NoPull EXCEPT !.todo = Devices \ {d}] \in Pull
  BY <1>0 DEF Pull
<1>1. CASE StartSync(d)
  BY <1>1 DEF TypeOK, StartSync, PCs
<1>1a. CASE ListOwnFolder(d)
  <2> DEFINE seen == {e \in Entries : Present(blob[d][e])}
  <2>1. push' = [push EXCEPT ![d] =
          [push[d] EXCEPT !.listed = seen, !.up = manifest[d].up]]
    BY <1>1a, <1>0b DEF ListOwnFolder, TypeOK, Push
  <2>2. seen \in SUBSET Entries /\ manifest[d].up \in BOOLEAN BY DEF TypeOK
  <2> HIDE DEF seen
  <2>3. [push[d] EXCEPT !.listed = seen, !.up = manifest[d].up] \in Push
    BY <1>0b, <2>2 DEF Push
  <2>4. push' \in [Devices -> Push] BY <2>1, <2>3 DEF TypeOK
  <2> QED BY <1>1a, <2>4 DEF TypeOK, ListOwnFolder, PCs
<1>2. CASE RequeueMissing(d)
  <2>1. \A e \in Entries : Requeued(ledger[d][e], e \in push[d].listed) \in Ledger
    BY LedgerTypes DEF TypeOK
  <2>2. ledger' \in [Devices -> [Entries -> Ledger]]
    BY <1>2, <2>1 DEF RequeueMissing, TypeOK
  <2>3. push' \in [Devices -> Push] BY <1>0, <1>2 DEF RequeueMissing, TypeOK
  <2> QED BY <1>2, <2>2, <2>3 DEF TypeOK, RequeueMissing, PCs
<1>2a. CASE MarkReconciled(d)
  BY <1>2a DEF TypeOK, MarkReconciled, PCs
<1>3. CASE ListPending(d)
  <2>1. push' \in [Devices -> Push]
    BY <1>3, <1>0b DEF ListPending, Pending, TypeOK, Push
  <2> QED BY <1>3, <2>1 DEF TypeOK, ListPending, PCs
<1>4. ASSUME NEW e \in Entries, NEW p \in Push, TakeSnapshot(d, e, p)
      PROVE  TypeOK'
  <2>1. push' \in [Devices -> Push]
    <3>1. row[d][e] \in Row /\ ledger[d][e].ver \in Nat
      BY DEF TypeOK, Ledger
    <3>2. [p EXCEPT !.now = {e}, !.snap = row[d][e], !.ver = ledger[d][e].ver] \in Push
      BY <3>1, PushTypes
    <3> QED BY <1>4, <3>2 DEF TakeSnapshot, TypeOK
  <2> QED BY <1>4, <2>1 DEF TypeOK, TakeSnapshot, PCs
<1>5. CASE Snapshot(d)
  <2>1. PICK e \in push[d].queue : TakeSnapshot(d, e, [push[d] EXCEPT !.queue = @ \ {e}])
    BY <1>5 DEF Snapshot
  <2>2. e \in Entries /\ [push[d] EXCEPT !.queue = @ \ {e}] \in Push
    BY <2>1, <1>0b DEF Push
  <2> QED BY <1>4, <2>1, <2>2
<1>6. CASE \E e \in Entries : PushEntry(d, e)
  <2>1. [NoPush EXCEPT !.single = TRUE] \in Push BY <1>0 DEF Push
  <2> QED BY <1>4, <1>6, <2>1 DEF PushEntry
<1>7. CASE Upload(d)
  <2>1. blob' \in [Devices -> [Entries -> Row]]
    BY <1>7, <1>0b DEF Upload, UploadBlob, TypeOK, Push
  <2> QED BY <1>7, <2>1 DEF TypeOK, Upload, PCs
<1>8. CASE Stamp(d)
  <2>1. \A e \in Entries : Stamped(ledger[d][e], push[d].ver) \in Ledger
    BY LedgerTypes DEF TypeOK
  <2>2. ledger' \in [Devices -> [Entries -> Ledger]]
    BY <1>8, <2>1 DEF Stamp, TypeOK
  <2>3. push' \in [Devices -> Push] /\ pc' \in [Devices -> PCs]
    BY <1>0, <1>0b, <1>8 DEF Stamp, EndOfEntry, TypeOK, Push, PCs
  <2> QED BY <1>8, <2>2, <2>3 DEF TypeOK, Stamp
<1>9. CASE BuildManifest(d)
  <2>0. [push[d] EXCEPT !.draft = Summary(d)] \in Push
    BY <1>0a, <1>0b, PushTypes
  <2>1. push' \in [Devices -> Push]
    BY <1>0, <2>0, <1>9 DEF BuildManifest, StartPull, TypeOK
  <2>2. pull' \in [Devices -> Pull]
    BY <1>0c, <1>9 DEF BuildManifest, StartPull, TypeOK
  <2> QED BY <1>9, <2>1, <2>2 DEF TypeOK, BuildManifest, StartPull, PCs
<1>10. CASE WriteManifest(d)
  <2>1. manifest' \in [Devices -> [rev : Nat, up : BOOLEAN, lines : Lines]]
    BY <1>0b, <1>10 DEF WriteManifest, UploadManifest, TypeOK, Push
  <2>2. push' \in [Devices -> Push] /\ pull' \in [Devices -> Pull]
    BY <1>0, <1>0c, <1>10 DEF WriteManifest, StartPull, TypeOK
  <2>3. pushHash' \in [Devices -> SUBSET Lines]
    BY <1>0b, <1>10 DEF WriteManifest, TypeOK, Push
  <2> QED BY <1>10, <2>1, <2>2, <2>3 DEF TypeOK, WriteManifest, StartPull, PCs
<1> QED
  BY <1>1, <1>1a, <1>2, <1>2a, <1>3, <1>5, <1>6, <1>7, <1>8, <1>9, <1>10
     DEF PushStep

\* Going on with the next chunk keeps the pull locals typed.
LEMMA NextChunkType ==
  ASSUME TypeOK, NEW d \in Devices, NEW p \in Devices, NEW w \in Pull,
         NEW left \in SUBSET Entries, NextChunk(d, p, w, left)
  PROVE  pull' \in [Devices -> Pull] /\ pc' \in [Devices -> PCs]
<1>1. PICK c \in SUBSET left :
        /\ pull' = [pull EXCEPT ![d] =
             [w EXCEPT !.from = {p}, !.left = left \ c, !.chunk = c,
                       !.got = [e \in Entries |-> Absent]]]
        /\ Goto(d, IF c = {} THEN "tombstones" ELSE "read")
  BY DEF NextChunk, Chunks
<1>2. [e \in Entries |-> Absent] \in [Entries -> Row] BY ValueTypes
<1>3. [w EXCEPT !.from = {p}, !.left = left \ c, !.chunk = c,
                !.got = [e \in Entries |-> Absent]] \in Pull
  BY <1>2 DEF Pull
<1> QED BY <1>1, <1>3 DEF TypeOK, Goto, PCs

\* Giving up on a peer keeps the pull locals typed.
LEMMA DropPeerType ==
  ASSUME TypeOK, NEW d \in Devices, DropPeer(d)
  PROVE  pull' \in [Devices -> Pull] /\ pc' \in [Devices -> PCs]
<1>1. [e \in Entries |-> Absent] \in [Entries -> Row] BY ValueTypes
<1>2. pull[d] \in Pull BY DEF TypeOK
<1>3. pull[d].from \in SUBSET Devices /\ pull[d].bad \in SUBSET Devices
  BY <1>2 DEF Pull
<1> DEFINE bad == pull[d].bad \cup pull[d].from
           got == [e \in Entries |-> Absent]
<1>4. bad \in SUBSET Devices /\ got \in [Entries -> Row]
  BY <1>1, <1>3
<1>5. pull' = [pull EXCEPT ![d] =
        [pull[d] EXCEPT !.from = {}, !.left = {}, !.clean = FALSE,
                        !.bad = bad, !.got = got]]
  BY <1>2 DEF DropPeer, TypeOK, Pull
<1> HIDE DEF bad, got
<1>6. [pull[d] EXCEPT !.from = {}, !.left = {}, !.clean = FALSE,
                      !.bad = bad, !.got = got] \in Pull
  BY <1>2, <1>4 DEF Pull
<1>7. pull' \in [Devices -> Pull] BY <1>5, <1>6 DEF TypeOK
<1> QED BY <1>7 DEF DropPeer, Goto, TypeOK, PCs

\* Ingesting a chunk keeps rows and the pull locals typed.
LEMMA IngestType ==
  ASSUME TypeOK, NEW d \in Devices, NEW failed \in SUBSET Entries,
         IngestChunk(d, failed)
  PROVE  /\ row' \in [Devices -> [Entries -> Row]]
         /\ pull' \in [Devices -> Pull] /\ pc' \in [Devices -> PCs]
<1>1. pull[d] \in Pull BY DEF TypeOK
<1>2. PICK p \in pull[d].from :
       /\ row' = [row EXCEPT ![d] = [e \in Entries |->
            IF e \in Got(d) \ failed
            THEN Merge(d, p, row[d][e], pull[d].got[e], ledger[d][e].ver > 0)
            ELSE row[d][e]]]
       /\ NextChunk(d, p,
            IF failed = {} THEN pull[d]
            ELSE [pull[d] EXCEPT !.clean = FALSE, !.bad = @ \cup {p}],
            pull[d].left)
  BY DEF IngestChunk
<1>3. p \in Devices /\ pull[d].left \in SUBSET Entries BY <1>1 DEF Pull
<1>4. \A e \in Entries :
        Merge(d, p, row[d][e], pull[d].got[e], ledger[d][e].ver > 0) \in Row
  <2> TAKE e \in Entries
  <2>1. row[d][e] \in Row /\ pull[d].got[e] \in Row
    BY <1>1 DEF TypeOK, Pull
  <2>2. (ledger[d][e].ver > 0) \in BOOLEAN OBVIOUS
  <2> QED BY <1>3, <2>1, <2>2, MergeType
<1>5. row' \in [Devices -> [Entries -> Row]] BY <1>2, <1>4 DEF TypeOK
<1>6. [pull[d] EXCEPT !.clean = FALSE, !.bad = @ \cup {p}] \in Pull
  BY <1>1, <1>3 DEF Pull
<1> QED BY <1>1, <1>2, <1>3, <1>5, <1>6, NextChunkType

\* The pull half and the sweep keep every type.
LEMMA PullStepType ==
  ASSUME TypeOK, NEW d \in Devices, PullStep(d)
  PROVE  TypeOK'
<1> USE DEF db, cloud, count, Goto
<1>0. pull[d] \in Pull BY DEF TypeOK
<1>0a. NoPull \in Pull /\ [e \in Entries |-> Absent] \in [Entries -> Row] BY ValueTypes
<1>1. ASSUME NEW p \in Devices, FetchManifest(d, p) PROVE TypeOK'
  <2>1. CASE ~manifest[p].up
    <3>0. pullRev' = [pullRev EXCEPT ![d][p] = 0]
      BY <1>1, <2>1 DEF FetchManifest
    <3>1. pullRev' \in [Devices -> [Devices -> Nat]]
      BY <3>0 DEF TypeOK
    <3>2. [pull[d] EXCEPT !.todo = @ \ {p}] \in Pull BY <1>0 DEF Pull
    <3>3. pull' \in [Devices -> Pull]
      BY <1>1, <2>1, <3>2 DEF FetchManifest, TypeOK
    <3> QED BY <1>1, <3>1, <3>3 DEF FetchManifest, TypeOK
  <2>2. CASE manifest[p].up
    <3> DEFINE changed == pullRev[d][p] # manifest[p].rev
               used    == changed \/ p \in MemoryPeers
               todo    == pull[d].todo \ {p}
               work    == IF used THEN pull[d].work \cup {p} ELSE pull[d].work
               man     == [pull[d].man EXCEPT ![p] = IF used THEN manifest[p].lines ELSE @]
               rev     == [pull[d].rev EXCEPT ![p] = IF changed THEN manifest[p].rev ELSE 0]
    <3>1. manifest[p].lines \in Lines /\ manifest[p].rev \in Nat BY DEF TypeOK
    <3>2. /\ todo \in SUBSET Devices /\ work \in SUBSET Devices
          /\ man \in [Devices -> Lines] /\ rev \in [Devices -> Nat]
      BY <1>0, <3>1 DEF Pull
    <3> HIDE DEF todo, work, man, rev
    <3>3. [pull[d] EXCEPT !.todo = todo, !.work = work, !.man = man, !.rev = rev] \in Pull
      BY <1>0, <3>2 DEF Pull
    <3>4. pull' = [pull EXCEPT ![d] =
            [pull[d] EXCEPT !.todo = todo, !.work = work, !.man = man, !.rev = rev]]
      BY <1>0, <1>1, <2>2 DEF FetchManifest, TypeOK, Pull, todo, work, man, rev
    <3>5. pull' \in [Devices -> Pull] BY <3>3, <3>4 DEF TypeOK
    <3> QED BY <1>1, <2>2, <3>5 DEF FetchManifest, TypeOK
  <2> QED BY <2>1, <2>2
<1>2. ASSUME NEW p \in Devices, NextPeer(d, p) PROVE TypeOK'
  <2>1. [pull[d] EXCEPT !.work = @ \ {p}] \in Pull BY <1>0 DEF Pull
  <2>2. ToPull(pull[d].view, pull[d].man[p]) \in SUBSET Entries BY DEF ToPull
  <2>3. pull' \in [Devices -> Pull] /\ pc' \in [Devices -> PCs]
    BY <1>2, <2>1, <2>2, NextChunkType DEF NextPeer
  <2> QED BY <1>2, <2>3 DEF NextPeer, TypeOK
<1>3. ASSUME NEW e \in Entries, ReadBlob(d, e) PROVE TypeOK'
  <2>1. PICK p \in pull[d].from :
          pull' = [pull EXCEPT
            ![d].chunk  = @ \ {e},
            ![d].got[e] = blob[p][e],
            ![d].bad    = IF Present(blob[p][e]) THEN @ ELSE @ \cup {p}]
    BY <1>3 DEF ReadBlob
  <2> DEFINE chunk == pull[d].chunk \ {e}
             got   == [pull[d].got EXCEPT ![e] = blob[p][e]]
             bad   == IF Present(blob[p][e]) THEN pull[d].bad ELSE pull[d].bad \cup {p}
  <2>2. p \in Devices BY <1>0 DEF Pull
  <2>3. /\ chunk \in SUBSET Entries /\ bad \in SUBSET Devices
        /\ got \in [Entries -> Row]
    BY <1>0, <2>2 DEF Pull, TypeOK
  <2> HIDE DEF chunk, got, bad
  <2>4. [pull[d] EXCEPT !.chunk = chunk, !.got = got, !.bad = bad] \in Pull
    BY <1>0, <2>3 DEF Pull
  <2>5. pull' = [pull EXCEPT ![d] =
          [pull[d] EXCEPT !.chunk = chunk, !.got = got, !.bad = bad]]
    BY <1>0, <2>1 DEF TypeOK, Pull, chunk, got, bad
  <2>6. pull' \in [Devices -> Pull] BY <2>4, <2>5 DEF TypeOK
  <2> QED BY <1>3, <2>6 DEF ReadBlob, TypeOK
<1>4. CASE BuildView(d)
  <2>1. LocalView(d) \in Lines BY SummaryType
  <2>2. [pull[d] EXCEPT !.view = LocalView(d)] \in Pull BY <1>0, <2>1 DEF Pull
  <2>3. pull' \in [Devices -> Pull] BY <1>4, <2>2 DEF BuildView, TypeOK
  <2> QED BY <1>4, <2>3 DEF BuildView, TypeOK, PCs
<1>5. CASE Ingest(d)
  <2>1. /\ row' \in [Devices -> [Entries -> Row]]
        /\ pull' \in [Devices -> Pull] /\ pc' \in [Devices -> PCs]
    BY <1>5, IngestType DEF Ingest
  <2> QED BY <1>5, <2>1 DEF Ingest, IngestChunk, TypeOK
<1>6. CASE ApplyTombstones(d)
  <2>1. \A r \in Row, l \in Line : Tombstoned(r, l) \in Row
    BY DEF Tombstoned, Row, Line, States
  <2>2. PICK p \in pull[d].from :
       row' = [row EXCEPT ![d] = [e \in Entries |->
         IF e \in ToDelete(pull[d].view, pull[d].man[p])
         THEN Tombstoned(row[d][e], pull[d].man[p][e]) ELSE row[d][e]]]
    BY <1>6 DEF ApplyTombstones
  <2>3. \A e \in Entries : row[d][e] \in Row /\ pull[d].man[p][e] \in Line
    BY <1>0 DEF TypeOK, Pull, Lines
  <2>4. row' \in [Devices -> [Entries -> Row]]
    BY <2>1, <2>2, <2>3 DEF TypeOK
  <2>5. [pull[d] EXCEPT !.from = {}] \in Pull BY <1>0 DEF Pull
  <2>6. pull' \in [Devices -> Pull] BY <1>6, <2>5 DEF ApplyTombstones, TypeOK
  <2> QED BY <1>6, <2>4, <2>6 DEF ApplyTombstones, TypeOK, PCs
<1>7. CASE FinishPull(d)
  <2>1. \A p \in Devices :
          Cached(pullRev[d][p], pull[d].rev[p], p \notin pull[d].bad) \in Nat
    BY <1>0 DEF Cached, TypeOK, Pull
  <2>2. pullRev' \in [Devices -> [Devices -> Nat]]
    BY <1>7, <2>1 DEF FinishPull, TypeOK
  <2>3. pull' \in [Devices -> Pull] BY <1>0a, <1>7 DEF FinishPull, TypeOK
  <2> QED BY <1>7, <2>2, <2>3 DEF FinishPull, TypeOK, PCs
<1>8. CASE Sweep(d)
  <2>1. PICK due \in SUBSET {e \in Entries : /\ row[d][e].st = "trashed"
                                             /\ row[d][e].ts < MaxStamp} :
       LET purged == [e \in Entries |->
                        IF e \in due THEN Purged(row[d][e], nops + 1)
                        ELSE row[d][e]]
       IN  IF due = {} THEN UNCHANGED <<row, ledger, reconciled, written, nops>>
           ELSE /\ nops < MaxOps
                /\ nops' = nops + 1
                /\ row' = [row EXCEPT ![d] = purged]
                /\ ledger' = [ledger EXCEPT ![d] = [e \in Entries |->
                     IF e \in due THEN MarkedPending(ledger[d][e])
                     ELSE ledger[d][e]]]
                /\ written' = [e \in Entries |->
                     IF e \in due THEN written[e] \cup {WriteOf(purged[e])}
                     ELSE written[e]]
                /\ reconciled' = [reconciled EXCEPT ![d] = FALSE]
    BY <1>8 DEF Sweep
  <2>2. /\ UNCHANGED <<pushHash, pullRev, cloud, push, pull, faults>>
        /\ pc' \in [Devices -> PCs]
    BY <1>8 DEF Sweep, TypeOK, PCs
  <2>3. CASE due = {}
    BY <2>1, <2>2, <2>3 DEF TypeOK
  <2>4. CASE due # {}
    <3> DEFINE purged == [e \in Entries |->
                            IF e \in due THEN Purged(row[d][e], nops + 1)
                            ELSE row[d][e]]
    <3>1. nops < MaxOps /\ nops' = nops + 1 BY <2>1, <2>4
    <3>2. nops + 1 \in Ops /\ nops' \in 0..MaxOps
      BY <3>1, BoundsAssumption DEF TypeOK, Ops
    <3>3. purged \in [Entries -> Row]
      <4>1. \A e \in Entries : row[d][e] \in Row BY DEF TypeOK
      <4>2. \A e \in due : Purged(row[d][e], nops + 1) \in Row
        BY <3>2, <4>1, PurgedType
      <4> QED BY <4>1, <4>2
    <3>4. row' \in [Devices -> [Entries -> Row]]
      <4>1. row' = [row EXCEPT ![d] = purged] BY <2>1, <2>4, Zenon DEF purged
      <4> HIDE DEF purged
      <4> QED BY <3>3, <4>1 DEF TypeOK
    <3>5. \A e \in Entries : /\ ledger[d][e] \in Ledger
                             /\ MarkedPending(ledger[d][e]) \in Ledger
      BY LedgerTypes DEF TypeOK
    <3>6. ledger' \in [Devices -> [Entries -> Ledger]]
      <4> DEFINE marked == [e \in Entries |->
                              IF e \in due THEN MarkedPending(ledger[d][e])
                              ELSE ledger[d][e]]
      <4>1. marked \in [Entries -> Ledger] BY <3>5
      <4>2. ledger' = [ledger EXCEPT ![d] = marked] BY <2>1, <2>4, Zenon
      <4> HIDE DEF marked
      <4> QED BY <4>1, <4>2 DEF TypeOK
    <3>7. \A e \in Entries : WriteOf(purged[e]) \in Write
      BY <3>3 DEF WriteOf, Write, Row
    <3> HIDE DEF purged
    <3>8. written' = [e \in Entries |->
                     IF e \in due THEN written[e] \cup {WriteOf(purged[e])}
                     ELSE written[e]]
      BY <2>1, <2>4 DEF purged
    <3>9. written' \in [Entries -> SUBSET Write]
      BY <3>7, <3>8 DEF TypeOK
    <3>10. reconciled' \in [Devices -> BOOLEAN] BY <2>1, <2>4 DEF TypeOK
    <3> QED BY <2>2, <3>2, <3>4, <3>6, <3>9, <3>10 DEF TypeOK
  <2> QED BY <2>3, <2>4
<1> QED BY <1>1, <1>2, <1>3, <1>4, <1>5, <1>6, <1>7, <1>8 DEF PullStep

\* Failures and restarts keep every type.
LEMMA SyncFaultType ==
  ASSUME TypeOK, NEW d \in Devices, SyncFault(d)
  PROVE  TypeOK'
<1> USE DEF db, cloud, Goto
<1>0. pull[d] \in Pull /\ push[d] \in Push BY DEF TypeOK
<1>0a. NoPush \in Push /\ NoPull \in Pull BY ValueTypes
<1>0b. [NoPull EXCEPT !.todo = Devices \ {d}] \in Pull
  BY <1>0a DEF Pull
<1>0c. Fault => faults' \in 0..MaxFaults
  BY BoundsAssumption DEF Fault, TypeOK
<1>1. CASE ReconcileFail(d)
  <2>1. push' \in [Devices -> Push] /\ pull' \in [Devices -> Pull]
    BY <1>0a, <1>0b, <1>1 DEF ReconcileFail, StartPull, TypeOK
  <2> QED BY <1>0c, <1>1, <2>1 DEF ReconcileFail, StartPull, TypeOK, PCs
<1>1a. CASE PruneFail(d)
  BY <1>0c, <1>1a DEF PruneFail, TypeOK, PCs
<1>2. CASE UploadFail(d)
  <2>0. push[d].snap \in Row BY <1>0 DEF Push
  <2>1. blob' \in [Devices -> [Entries -> Row]]
    <3>1. CASE blob' = blob BY <3>1 DEF TypeOK
    <3>2. CASE UploadBlob(d)
      <4>1. PICK e \in push[d].now : blob' = [blob EXCEPT ![d][e] = push[d].snap]
        BY <3>2 DEF UploadBlob
      <4> QED BY <2>0, <4>1 DEF TypeOK
    <3> QED BY <1>2, <3>1, <3>2 DEF UploadFail
  <2>2. push' \in [Devices -> Push] /\ pc' \in [Devices -> PCs]
    BY <1>0, <1>0a, <1>2 DEF UploadFail, EndOfEntry, TypeOK, Push, PCs
  <2> QED BY <1>0c, <1>2, <2>1, <2>2 DEF UploadFail, TypeOK
<1>3. CASE WriteManifestFail(d)
  <2>0. /\ push[d].draft \in Lines
        /\ [rev |-> manifest[d].rev + 1, up |-> TRUE, lines |-> push[d].draft]
             \in [rev : Nat, up : BOOLEAN, lines : Lines]
    BY <1>0 DEF Push, TypeOK
  <2>1. manifest' \in [Devices -> [rev : Nat, up : BOOLEAN, lines : Lines]]
    BY <2>0, <1>3 DEF WriteManifestFail, UploadManifest, TypeOK
  <2>2. push' \in [Devices -> Push] /\ pull' \in [Devices -> Pull]
    BY <1>0a, <1>0b, <1>3 DEF WriteManifestFail, StartPull, TypeOK
  <2> QED BY <1>0c, <1>3, <2>1, <2>2 DEF WriteManifestFail, StartPull, TypeOK, PCs
<1>4. ASSUME NEW p \in Devices, FetchError(d, p) PROVE TypeOK'
  <2>1. [pull[d] EXCEPT !.todo = pull[d].todo \ {p}, !.clean = FALSE] \in Pull
    BY <1>0 DEF Pull
  <2>2. pull' = [pull EXCEPT ![d] =
          [pull[d] EXCEPT !.todo = pull[d].todo \ {p}, !.clean = FALSE]]
    BY <1>0, <1>4 DEF FetchError, TypeOK, Pull
  <2>3. pull' \in [Devices -> Pull] BY <2>1, <2>2 DEF TypeOK
  <2> QED BY <1>0c, <1>4, <2>3 DEF FetchError, TypeOK
<1>5. ASSUME NEW p \in Devices, ChannelError(d, p) PROVE TypeOK'
  <2>1. [pull[d] EXCEPT !.bad = pull[d].bad \cup {p}, !.clean = FALSE] \in Pull
    BY <1>0 DEF Pull
  <2>2. pull' = [pull EXCEPT ![d] =
          [pull[d] EXCEPT !.bad = pull[d].bad \cup {p}, !.clean = FALSE]]
    BY <1>0, <1>5 DEF ChannelError, TypeOK, Pull
  <2>3. pull' \in [Devices -> Pull] BY <2>1, <2>2 DEF TypeOK
  <2> QED BY <1>0c, <1>5, <2>3 DEF ChannelError, TypeOK
<1>6. ASSUME NEW e \in Entries, ReadError(d, e) PROVE TypeOK'
  <2> DEFINE chunk == pull[d].chunk \ {e}
             bad   == pull[d].bad \cup pull[d].from
  <2>1. chunk \in SUBSET Entries /\ bad \in SUBSET Devices BY <1>0 DEF Pull
  <2>2. pull' = [pull EXCEPT ![d] =
          [pull[d] EXCEPT !.chunk = chunk, !.clean = FALSE, !.bad = bad]]
    BY <1>0, <1>6 DEF ReadError, TypeOK, Pull
  <2> HIDE DEF chunk, bad
  <2>3. [pull[d] EXCEPT !.chunk = chunk, !.clean = FALSE, !.bad = bad] \in Pull
    BY <1>0, <2>1 DEF Pull
  <2>4. pull' \in [Devices -> Pull] BY <2>2, <2>3 DEF TypeOK
  <2> QED BY <1>0c, <1>6, <2>4 DEF ReadError, TypeOK
<1>7. CASE IngestError(d)
  <2>1. PICK failed \in SUBSET Got(d) : IngestChunk(d, failed)
    BY <1>7 DEF IngestError
  <2>2. failed \in SUBSET Entries BY DEF Got
  <2>3. /\ row' \in [Devices -> [Entries -> Row]]
        /\ pull' \in [Devices -> Pull] /\ pc' \in [Devices -> PCs]
    BY <2>1, <2>2, IngestType
  <2> QED BY <1>0c, <1>7, <2>1, <2>3 DEF IngestError, IngestChunk, TypeOK
<1>8. CASE IngestFatal(d)
  <2>1. pull' \in [Devices -> Pull] /\ pc' \in [Devices -> PCs]
    BY <1>8, DropPeerType DEF IngestFatal
  <2> QED BY <1>0c, <1>8, <2>1 DEF IngestFatal, TypeOK
<1>9. CASE TombstonesFail(d)
  <2>1. pull' \in [Devices -> Pull] /\ pc' \in [Devices -> PCs]
    BY <1>9, DropPeerType DEF TombstonesFail
  <2> QED BY <1>0c, <1>9, <2>1 DEF TombstonesFail, TypeOK
<1>10. CASE Interrupt(d)
  <2>1. push' \in [Devices -> Push] /\ pull' \in [Devices -> Pull]
    BY <1>0a, <1>10 DEF Interrupt, TypeOK
  <2> QED BY <1>0c, <1>10, <2>1 DEF Interrupt, TypeOK, PCs
<1> QED
  BY <1>1, <1>1a, <1>2, <1>3, <1>4, <1>5, <1>6, <1>7, <1>8, <1>9, <1>10
     DEF SyncFault

\* Losing a file from the cloud keeps every type.
LEMMA ExternalLossType ==
  ASSUME TypeOK, NEW d \in Devices, ExternalLoss(d)
  PROVE  TypeOK'
<1> USE DEF db, cloud
<1>0. Fault => faults' \in 0..MaxFaults
  BY BoundsAssumption DEF Fault, TypeOK
<1>1. CASE LoseManifest(d)
  <2>1. [manifest[d] EXCEPT !.up = FALSE] \in [rev : Nat, up : BOOLEAN, lines : Lines]
    BY DEF TypeOK
  <2>2. manifest' \in [Devices -> [rev : Nat, up : BOOLEAN, lines : Lines]]
    BY <1>1, <2>1 DEF LoseManifest, TypeOK
  <2> QED BY <1>0, <1>1, <2>2 DEF LoseManifest, TypeOK
<1>2. ASSUME NEW e \in Entries, LoseBlob(d, e) PROVE TypeOK'
  <2>1. blob' \in [Devices -> [Entries -> Row]]
    BY <1>2, ValueTypes DEF LoseBlob, TypeOK
  <2> QED BY <1>0, <1>2, <2>1 DEF LoseBlob, TypeOK
<1> QED BY <1>1, <1>2 DEF ExternalLoss

\* TypeOK is inductive.
LEMMA NextType == TypeOK /\ [Next]_vars => TypeOK'
<1> SUFFICES ASSUME TypeOK, [Next]_vars PROVE TypeOK' OBVIOUS
<1>1. CASE UNCHANGED vars BY <1>1 DEF vars, TypeOK
<1>2. ASSUME NEW d \in Editors, UserWrite(d) PROVE TypeOK'
  BY <1>2, DevicesAssumption, UserWriteType
<1>3. ASSUME NEW d \in Devices,
             StartSync(d) \/ PushStep(d) \/ \E e \in Entries : PushEntry(d, e)
      PROVE  TypeOK'
  BY <1>3, PushStepType
<1>4. ASSUME NEW d \in Devices, PullStep(d) PROVE TypeOK'
  BY <1>4, PullStepType
<1>5. ASSUME NEW d \in Devices, SyncFault(d) PROVE TypeOK'
  BY <1>5, SyncFaultType
<1>6. ASSUME NEW d \in Devices, ExternalLoss(d) PROVE TypeOK'
  BY <1>6, ExternalLossType
<1> QED BY <1>1, <1>2, <1>3, <1>4, <1>5, <1>6 DEF Next

\* Every variable keeps its type, whatever the devices, entries and bounds.
THEOREM TypeCorrect == Spec => []TypeOK
<1>1. Init => TypeOK BY InitType
<1>2. TypeOK /\ [Next]_vars => TypeOK' BY NextType
<1> QED BY <1>1, <1>2, PTL DEF Spec

-----------------------------------------------------------------------------
(* What a step may do to a row: nothing, a write of its own device, the     *)
(* merge of a pulled blob, or a tombstone.                                  *)

Saved(d, e) ==
  /\ ledger'[d][e] = MarkedPending(ledger[d][e])
  /\ Present(row'[d][e])
  /\ \/ ~Present(row[d][e]) /\ (EmptyBodies \/ 0 \in row'[d][e].doc)
     \/ /\ Present(row[d][e])
        /\ row'[d][e].ts > row[d][e].ts
        /\ row[d][e].doc \subseteq row'[d][e].doc
Merged(d, e) ==
  /\ pc[d] = "read" /\ Present(pull[d].got[e]) /\ pull[d].got[e] \in Row
  /\ \E p \in pull[d].from :
       row'[d][e] = Merge(d, p, row[d][e], pull[d].got[e], ledger[d][e].ver > 0)
Buried(d, e) ==
  /\ pc[d] = "tombstones" /\ Present(row[d][e])
  /\ \E p \in Devices, line \in Line :
       /\ line = pull[d].man[p][e] /\ line.ver > 0 /\ line.st = "purged"
       /\ row'[d][e] = Tombstoned(row[d][e], line)

RowStep(d, e) ==
  row'[d][e] = row[d][e] \/ Saved(d, e) \/ Merged(d, e) \/ Buried(d, e)

\* A user's write of an entry is stamped later than what the device shows.
Fresh(d, e, r) ==
  /\ Present(r)
  /\ \/ ~Present(row[d][e]) /\ (EmptyBodies \/ 0 \in r.doc)
     \/ /\ Present(row[d][e])
        /\ r.ts > row[d][e].ts
        /\ row[d][e].doc \subseteq r.doc

LEMMA UserSaves ==
  ASSUME TypeOK, NEW d \in Devices, UserWrite(d)
  PROVE  \E e \in Entries : \E r : Save(d, e, r) /\ Fresh(d, e, r)
<1>1. PICK e0 \in Entries :
        \/ Create(d, e0) \/ EditBody(d, e0) \/ EditFields(d, e0)
        \/ Trash(d, e0)  \/ Restore(d, e0)  \/ Purge(d, e0)
  BY DEF UserWrite
<1>2. row[d][e0] \in Row /\ row[d][e0].ts \in Int
  BY DEF TypeOK, Row, Stamps
<1>3. \E r : Save(d, e0, r) /\ Fresh(d, e0, r)
  <2>1. CASE Create(d, e0)
    <3> DEFINE body == IF EmptyBodies THEN {} ELSE {0}
    <3>1. PICK t \in Stamps \ {0} :
            Save(d, e0, [st |-> "live", ts |-> t, meta |-> nops + 1, doc |-> body])
      BY <2>1 DEF Create
    <3>2. ~Present(row[d][e0]) BY <2>1 DEF Create
    <3> DEFINE r == [st |-> "live", ts |-> t, meta |-> nops + 1, doc |-> body]
    <3>3. Present(r) /\ (EmptyBodies \/ 0 \in r.doc) BY DEF Present
    <3> HIDE DEF r
    <3> QED BY <3>1, <3>2, <3>3 DEF r, Fresh
  <2>2. CASE EditBody(d, e0)
    <3>1. PICK t \in NewStamps(row[d][e0].ts, 1) : Save(d, e0, [row[d][e0] EXCEPT !.ts = t, !.meta = nops + 1,
                              !.doc = @ \cup {nops + 1}])
      BY <2>2 DEF EditBody
    <3> DEFINE r == [row[d][e0] EXCEPT !.ts = t, !.meta = nops + 1,
                              !.doc = @ \cup {nops + 1}]
    <3>2. Present(row[d][e0]) BY <2>2 DEF EditBody, Present
    <3>3. t > row[d][e0].ts BY <1>2 DEF NewStamps, Stamps
    <3>4. Present(r) /\ r.ts = t /\ row[d][e0].doc \subseteq r.doc
      BY <1>2, <2>2, <3>1 DEF EditBody, Present, Row
    <3> HIDE DEF r
    <3> QED BY <3>1, <3>2, <3>3, <3>4 DEF r, Fresh
  <2>3. CASE EditFields(d, e0)
    <3>1. PICK t \in NewStamps(row[d][e0].ts, 1) : Save(d, e0, [row[d][e0] EXCEPT !.ts = t, !.meta = nops + 1])
      BY <2>3 DEF EditFields
    <3> DEFINE r == [row[d][e0] EXCEPT !.ts = t, !.meta = nops + 1]
    <3>2. Present(row[d][e0]) BY <2>3 DEF EditFields, Present
    <3>3. t > row[d][e0].ts BY <1>2 DEF NewStamps, Stamps
    <3>4. Present(r) /\ r.ts = t /\ row[d][e0].doc \subseteq r.doc
      BY <1>2, <2>3, <3>1 DEF EditFields, Present, Row
    <3> HIDE DEF r
    <3> QED BY <3>1, <3>2, <3>3, <3>4 DEF r, Fresh
  <2>4. CASE Trash(d, e0)
    <3>1. PICK t \in NewStamps(row[d][e0].ts, 1) : Save(d, e0, [row[d][e0] EXCEPT !.st = "trashed", !.ts = t,
                              !.meta = nops + 1])
      BY <2>4 DEF Trash
    <3> DEFINE r == [row[d][e0] EXCEPT !.st = "trashed", !.ts = t,
                              !.meta = nops + 1]
    <3>2. Present(row[d][e0]) BY <2>4 DEF Trash, Present
    <3>3. t > row[d][e0].ts BY <1>2 DEF NewStamps, Stamps
    <3>4. Present(r) /\ r.ts = t /\ row[d][e0].doc \subseteq r.doc
      BY <1>2, <2>4, <3>1 DEF Trash, Present, Row
    <3> HIDE DEF r
    <3> QED BY <3>1, <3>2, <3>3, <3>4 DEF r, Fresh
  <2>5. CASE Restore(d, e0)
    <3>1. PICK t \in NewStamps(row[d][e0].ts, 2) : Save(d, e0, [row[d][e0] EXCEPT !.st = "live", !.ts = t,
                              !.meta = nops + 1])
      BY <2>5 DEF Restore
    <3> DEFINE r == [row[d][e0] EXCEPT !.st = "live", !.ts = t,
                              !.meta = nops + 1]
    <3>2. Present(row[d][e0]) BY <2>5 DEF Restore, Present
    <3>3. t > row[d][e0].ts BY <1>2 DEF NewStamps, Stamps
    <3>4. Present(r) /\ r.ts = t /\ row[d][e0].doc \subseteq r.doc
      BY <1>2, <2>5, <3>1 DEF Restore, Present, Row
    <3> HIDE DEF r
    <3> QED BY <3>1, <3>2, <3>3, <3>4 DEF r, Fresh
  <2>6. CASE Purge(d, e0)
    <3> DEFINE r == Purged(row[d][e0], nops + 1)
    <3>1. Save(d, e0, r) BY <2>6 DEF Purge
    <3>2. Present(row[d][e0]) BY <2>6 DEF Purge, Present
    <3>3. Present(r) /\ r.ts > row[d][e0].ts /\ r.doc = row[d][e0].doc
      BY <1>2 DEF Purged, Present, Row
    <3> HIDE DEF r
    <3> QED BY <3>1, <3>2, <3>3 DEF r, Fresh
  <2> QED BY <1>1, <2>1, <2>2, <2>3, <2>4, <2>5, <2>6
<1> QED BY <1>3

\* A user write changes one row, as a write of its own device.
LEMMA UserWriteRows ==
  ASSUME TypeOK, NEW d \in Devices, UserWrite(d)
  PROVE  \A x \in Devices, e \in Entries : RowStep(x, e)
<1>1. PICK e0 \in Entries : \E r : Save(d, e0, r) /\ Fresh(d, e0, r)
  BY UserSaves
<1>2. PICK r : Save(d, e0, r) /\ Fresh(d, e0, r) BY <1>1
<1>3. row' = [row EXCEPT ![d][e0] = r] /\ ledger' = [ledger EXCEPT ![d][e0] = MarkedPending(@)]
  BY <1>2 DEF Save
<1>4. row'[d][e0] = r /\ ledger'[d][e0] = MarkedPending(ledger[d][e0])
  BY <1>3 DEF TypeOK
<1>5. Saved(d, e0)
  BY <1>2, <1>4 DEF Saved, Fresh
<1>6. ASSUME NEW x \in Devices, NEW e \in Entries, ~(x = d /\ e = e0)
      PROVE  row'[x][e] = row[x][e]
  BY <1>3, <1>6 DEF TypeOK
<1> QED BY <1>5, <1>6 DEF RowStep

\* Ingesting changes a row only by merging the blob read for it.
LEMMA IngestRows ==
  ASSUME TypeOK, NEW d \in Devices, NEW failed, IngestChunk(d, failed)
  PROVE  \A x \in Devices, e \in Entries : RowStep(x, e)
<1>1. PICK p \in pull[d].from :
        row' = [row EXCEPT ![d] = [e \in Entries |->
            IF e \in Got(d) \ failed
            THEN Merge(d, p, row[d][e], pull[d].got[e], ledger[d][e].ver > 0)
            ELSE row[d][e]]]
  BY DEF IngestChunk
<1>2. ASSUME NEW x \in Devices, NEW e \in Entries, x # d
      PROVE  row'[x][e] = row[x][e]
  BY <1>1, <1>2 DEF TypeOK
<1>3. ASSUME NEW e \in Entries, e \notin Got(d) \ failed
      PROVE  row'[d][e] = row[d][e]
  BY <1>1, <1>3 DEF TypeOK
<1>4. ASSUME NEW e \in Entries, e \in Got(d) \ failed
      PROVE  Merged(d, e)
  <2>1. row'[d][e] = Merge(d, p, row[d][e], pull[d].got[e], ledger[d][e].ver > 0)
    BY <1>1, <1>4 DEF TypeOK
  <2>2. pull[d].got[e] \in Row BY DEF TypeOK, Pull
  <2>3. pc[d] = "read" /\ Present(pull[d].got[e])
    BY <1>4 DEF IngestChunk, Got
  <2> QED BY <2>1, <2>2, <2>3 DEF Merged
<1> QED BY <1>2, <1>3, <1>4 DEF RowStep

\* A peer's tombstones change a row only by burying it.
LEMMA TombstoneRows ==
  ASSUME TypeOK, NEW d \in Devices, ApplyTombstones(d)
  PROVE  \A x \in Devices, e \in Entries : RowStep(x, e)
<1>1. PICK p \in pull[d].from :
        row' = [row EXCEPT ![d] = [e \in Entries |->
          IF e \in ToDelete(pull[d].view, pull[d].man[p])
          THEN Tombstoned(row[d][e], pull[d].man[p][e]) ELSE row[d][e]]]
  BY DEF ApplyTombstones
<1>2. pc[d] = "tombstones" BY DEF ApplyTombstones
<1>3. ASSUME NEW x \in Devices, NEW e \in Entries, x # d
      PROVE  row'[x][e] = row[x][e]
  BY <1>1, <1>3 DEF TypeOK
<1>4. ASSUME NEW e \in Entries, row'[d][e] # row[d][e]
      PROVE  Buried(d, e)
  <2>1. row'[d][e] = Tombstoned(row[d][e], pull[d].man[p][e])
    BY <1>1, <1>4 DEF TypeOK
  <2>2. Present(row[d][e]) BY <1>4, <2>1 DEF Tombstoned
  <2>3. p \in Devices /\ pull[d].man[p][e] \in Line
    <3>1. pull[d] \in Pull BY DEF TypeOK
    <3>2. p \in Devices BY <3>1 DEF Pull
    <3>3. pull[d].man[p] \in Lines BY <3>1, <3>2 DEF Pull
    <3> QED BY <3>2, <3>3 DEF Lines
  <2>4. pull[d].man[p][e].ver > 0 /\ pull[d].man[p][e].st = "purged"
    <3>1. e \in ToDelete(pull[d].view, pull[d].man[p]) BY <1>1, <1>4 DEF TypeOK
    <3> QED BY <3>1 DEF ToDelete
  <2> QED BY <1>2, <2>1, <2>2, <2>3, <2>4 DEF Buried
<1> QED BY <1>3, <1>4 DEF RowStep

\* The sweep's purges are writes of the device.
LEMMA SweepRows ==
  ASSUME TypeOK, NEW d \in Devices, Sweep(d)
  PROVE  \A x \in Devices, e \in Entries : RowStep(x, e)
<1>1. PICK due \in SUBSET {e \in Entries : /\ row[d][e].st = "trashed"
                                           /\ row[d][e].ts < MaxStamp} :
        \/ row' = row
        \/ /\ row' = [row EXCEPT ![d] = [e \in Entries |->
                 IF e \in due THEN Purged(row[d][e], nops + 1) ELSE row[d][e]]]
           /\ ledger' = [ledger EXCEPT ![d] = [e \in Entries |->
                 IF e \in due THEN MarkedPending(ledger[d][e])
                 ELSE ledger[d][e]]]
  BY Zenon DEF Sweep
<1>2. CASE row' = row BY <1>2 DEF RowStep
<1>3. CASE /\ row' = [row EXCEPT ![d] = [e \in Entries |->
                 IF e \in due THEN Purged(row[d][e], nops + 1) ELSE row[d][e]]]
           /\ ledger' = [ledger EXCEPT ![d] = [e \in Entries |->
                 IF e \in due THEN MarkedPending(ledger[d][e])
                 ELSE ledger[d][e]]]
  <2>1. ASSUME NEW x \in Devices, NEW e \in Entries, ~(x = d /\ e \in due)
        PROVE  row'[x][e] = row[x][e]
    BY <1>3, <2>1 DEF TypeOK
  <2>2. ASSUME NEW e \in due PROVE Saved(d, e)
    <3>1. /\ row'[d][e] = Purged(row[d][e], nops + 1)
          /\ ledger'[d][e] = MarkedPending(ledger[d][e])
      BY <1>3 DEF TypeOK
    <3>2. row[d][e] \in Row /\ row[d][e].st = "trashed" BY DEF TypeOK
    <3>3. /\ Present(row[d][e]) /\ Present(row'[d][e])
          /\ row'[d][e].ts > row[d][e].ts
          /\ row'[d][e].doc = row[d][e].doc
      BY <3>1, <3>2 DEF Present, Purged, Row, Stamps
    <3> QED BY <3>1, <3>3 DEF Saved
  <2> QED BY <2>1, <2>2 DEF RowStep
<1> QED BY <1>1, <1>2, <1>3

\* Every step does one of the four things to every row.
LEMMA NextRows ==
  ASSUME TypeOK, Next
  PROVE  \A x \in Devices, e \in Entries : RowStep(x, e)
<1> USE DEF db
<1>1. ASSUME NEW d \in Editors, UserWrite(d)
      PROVE  \A x \in Devices, e \in Entries : RowStep(x, e)
  BY <1>1, DevicesAssumption, UserWriteRows
<1>2. ASSUME NEW d \in Devices,
             StartSync(d) \/ PushStep(d) \/ \E e \in Entries : PushEntry(d, e)
      PROVE  row' = row
  BY <1>2 DEF StartSync, PushStep, PushEntry, TakeSnapshot, ListOwnFolder,
     RequeueMissing, MarkReconciled, ListPending, Snapshot, Upload, Stamp, BuildManifest, WriteManifest
<1>3. ASSUME NEW d \in Devices, PullStep(d)
      PROVE  \A x \in Devices, e \in Entries : RowStep(x, e)
  <2>1. CASE Ingest(d) BY <2>1, IngestRows DEF Ingest
  <2>2. CASE ApplyTombstones(d) BY <2>2, TombstoneRows
  <2>3. CASE Sweep(d) BY <2>3, SweepRows
  <2>4. CASE \/ \E p \in Devices : FetchManifest(d, p) \/ NextPeer(d, p)
             \/ \E e \in Entries : ReadBlob(d, e)
             \/ BuildView(d) \/ FinishPull(d)
    <3>1. row' = row
      BY <2>4 DEF FetchManifest, NextPeer, ReadBlob, BuildView, FinishPull
    <3> QED BY <3>1 DEF RowStep
  <2> QED BY <1>3, <2>1, <2>2, <2>3, <2>4 DEF PullStep
<1>4. ASSUME NEW d \in Devices, SyncFault(d)
      PROVE  \A x \in Devices, e \in Entries : RowStep(x, e)
  <2>1. CASE IngestError(d)
    <3>1. PICK failed \in SUBSET Got(d) : IngestChunk(d, failed)
      BY <2>1 DEF IngestError
    <3> QED BY <3>1, IngestRows
  <2>2. CASE ~IngestError(d)
    <3>1. row' = row
      BY <1>4, <2>2 DEF SyncFault, ReconcileFail, PruneFail, UploadFail,
         WriteManifestFail, FetchError, ChannelError, ReadError, IngestFatal, TombstonesFail, Interrupt
    <3> QED BY <3>1 DEF RowStep
  <2> QED BY <2>1, <2>2
<1>5. ASSUME NEW d \in Devices, ExternalLoss(d) PROVE row' = row
  BY <1>5 DEF ExternalLoss, LoseManifest, LoseBlob
<1> QED BY <1>1, <1>2, <1>3, <1>4, <1>5 DEF Next, RowStep

\* None of the four moves a row back or loses it.
LEMMA StepForward ==
  ASSUME TypeOK, AbsentRows, NEW d \in Devices, NEW e \in Entries, RowStep(d, e),
         row'[d][e] \in Row
  PROVE  LET old == row[d][e]
             new == row'[d][e]
         IN  /\ new.ts >= old.ts
             /\ Present(old) => Present(new)
             /\ Present(new) \/ new = Absent
             /\ new.ts = old.ts =>
                  \/ WriteOf(new) = WriteOf(old)
                  \/ ~Present(old)
                  \/ \E p \in pull[d].from : p > d
<1> DEFINE old == row[d][e]
           new == row'[d][e]
<1>1. /\ old \in Row /\ new \in Row
      /\ old.ts \in Nat /\ new.ts \in Nat
      /\ ~Present(old) => old = Absent
  BY BoundsAssumption DEF TypeOK, AbsentRows, Row, Stamps
<1>2. Present(old) \/ old.ts = 0
  BY <1>1 DEF Absent
<1>3. CASE new = old
  BY <1>1, <1>3
<1>4. CASE Saved(d, e)
  BY <1>1, <1>2, <1>4 DEF Saved
<1>5. CASE Merged(d, e)
  <2>1. PICK p \in pull[d].from :
          new = Merge(d, p, old, pull[d].got[e], ledger[d][e].ver > 0)
    BY <1>5 DEF Merged
  <2>2. CASE ~Present(old)
    BY <1>1, <1>2, <1>5, <2>1, <2>2 DEF Merge, Merged
  <2>3. CASE Present(old)
    <3> DEFINE got    == pull[d].got[e]
               wins   == RemoteWins(d, p, old, got)
               winner == IF wins THEN got ELSE old
    <3>1. got \in Row /\ Present(got) /\ got.ts \in Nat
      BY <1>5, BoundsAssumption DEF Merged, Row, Stamps
    <3>2. new.st = winner.st /\ new.ts = winner.ts /\ new.meta = winner.meta
      BY <1>1, <2>1, <2>3, <3>1 DEF Merge, Row
    <3>3. CASE wins
      <4>1. \/ got.ts > old.ts
            \/ got.ts = old.ts /\ p > d
        BY <3>3 DEF RemoteWins
      <4> QED BY <1>1, <2>3, <3>1, <3>2, <3>3, <4>1 DEF Present
    <3>4. CASE ~wins
      BY <1>1, <2>3, <3>2, <3>4 DEF Present, WriteOf
    <3> QED BY <3>3, <3>4
  <2> QED BY <2>2, <2>3
<1>6. CASE Buried(d, e)
  <2>1. PICK line \in Line : new = Tombstoned(old, line)
    BY <1>6 DEF Buried
  <2>2. line.ts \in Nat BY BoundsAssumption DEF Line, Stamps
  <2>3. CASE Present(old) /\ old.ts < line.ts
    <3>1. new.ts = line.ts /\ new.st = "purged"
      BY <1>1, <2>1, <2>3 DEF Tombstoned, Row
    <3> QED BY <1>1, <2>2, <2>3, <3>1 DEF Present
  <2>4. CASE ~(Present(old) /\ old.ts < line.ts)
    <3>1. new = old BY <2>1, <2>4 DEF Tombstoned
    <3> QED BY <1>3, <3>1
  <2> QED BY <2>3, <2>4
<1> QED BY <1>3, <1>4, <1>5, <1>6 DEF RowStep

\* Absent rows hold nothing, and every step moves rows forward.
LEMMA AbsentStep ==
  TypeOK /\ AbsentRows /\ [Next]_vars => AbsentRows' /\ [MovesForward]_row
<1> SUFFICES ASSUME TypeOK, AbsentRows, [Next]_vars
             PROVE  AbsentRows' /\ [MovesForward]_row
  OBVIOUS
<1>1. CASE Next
  <2>1. TypeOK' BY <1>1, NextType
  <2>2. ASSUME NEW d \in Devices, NEW e \in Entries
        PROVE  RowStep(d, e) /\ row'[d][e] \in Row
    BY <1>1, <2>1, NextRows DEF TypeOK
  <2>3. AbsentRows' BY <2>2, StepForward DEF AbsentRows
  <2>4. MovesForward BY <2>2, StepForward DEF MovesForward
  <2> QED BY <2>3, <2>4
<1>2. CASE UNCHANGED vars
  BY <1>2 DEF vars, AbsentRows
<1> QED BY <1>1, <1>2

\* On no device does the stamp of an entry go back, and its fields or Trash
\* state change only with a newer stamp or, at an equal one, from a peer with a
\* greater id (compute_diff, remote_wins_lww and the tombstone guard).
THEOREM RowsNeverGoBack == Spec => RowsMoveForward
<1>1. Init => TypeOK /\ AbsentRows
  BY InitType DEF Init, AbsentRows, Present, Original
<1>2. TypeOK /\ AbsentRows /\ [Next]_vars => (TypeOK /\ AbsentRows)'
  BY NextType, AbsentStep
<1>3. TypeOK /\ AbsentRows /\ [Next]_vars => [MovesForward]_row
  BY AbsentStep
<1> QED BY <1>1, <1>2, <1>3, PTL DEF Spec, RowsMoveForward

-----------------------------------------------------------------------------
(* What a step of device d may do to the copies of entries outside its rows:  *)
(* its blobs, its ledger, its push in flight and the blobs it has read.       *)

BlobStep(d, e) ==
  \/ blob'[d][e] = blob[d][e]
  \/ CloudLoss /\ blob'[d][e] = Absent
  \/ pc[d] = "upload" /\ e \in push[d].now /\ blob'[d][e] = push[d].snap
GotStep(d, e) ==
  \/ pull'[d].got[e] \in {pull[d].got[e], Absent}
  \/ \E p \in Devices : pull'[d].got[e] = blob[p][e]
LedgerStep(d, e) ==
  \/ ledger'[d][e] \in {ledger[d][e], MarkedPending(ledger[d][e])}
  \/ ledger'[d][e].ver = ledger[d][e].ver /\ ledger'[d][e].pending
  \/ /\ pc[d] = "stamp" /\ e \in push[d].now
     /\ ledger'[d][e] = Stamped(ledger[d][e], push[d].ver)

PushIdle(d) ==
  /\ pc'[d] \notin {"upload", "stamp"}
  /\ push'[d].snap \in {push[d].snap, Absent}
PushKept(d) ==
  /\ pc'[d] = pc[d] /\ push'[d] = push[d]
  /\ CloudLoss \/ blob'[d] = blob[d]
PushTaken(d) ==
  /\ pc'[d] = "upload"
  /\ \E e \in Entries : /\ push'[d].now = {e}
                        /\ push'[d].snap = row[d][e]
                        /\ push'[d].ver = ledger[d][e].ver
  /\ row'[d] = row[d] /\ ledger'[d] = ledger[d] /\ blob'[d] = blob[d]
PushSent(d) ==
  /\ pc[d] = "upload" /\ pc'[d] = "stamp" /\ push'[d] = push[d]
  /\ row'[d] = row[d] /\ ledger'[d] = ledger[d]
  /\ \E e \in push[d].now : blob'[d] = [blob[d] EXCEPT ![e] = push[d].snap]

CopyStep(d) ==
  /\ \A e \in Entries : BlobStep(d, e) /\ GotStep(d, e) /\ LedgerStep(d, e)
  /\ PushIdle(d) \/ PushKept(d) \/ PushTaken(d) \/ PushSent(d)

Local(d) ==
  \A x \in Devices \ {d} :
    /\ ledger'[x] = ledger[x] /\ blob'[x] = blob[x]
    /\ pc'[x] = pc[x] /\ push'[x] = push[x] /\ pull'[x] = pull[x]

\* A local step that is a copy step for its device is one for all.
LEMMA LocalCopies ==
  ASSUME NEW d \in Devices, Local(d), CopyStep(d)
  PROVE  \A x \in Devices : CopyStep(x)
BY DEF Local, CopyStep, BlobStep, GotStep, LedgerStep, PushKept

\* User writes touch copies only by marking an entry pending.
LEMMA UserWriteCopies ==
  ASSUME TypeOK, NEW d \in Devices, UserWrite(d)
  PROVE  \A x \in Devices : CopyStep(x)
<1>1. /\ UNCHANGED <<blob, pc, push, pull>>
      /\ \E e \in Entries : \E r : Save(d, e, r)
  BY DEF UserWrite, Create, EditBody, EditFields, Trash, Restore, Purge, cloud
<1>2. PICK e0 \in Entries : ledger' = [ledger EXCEPT ![d][e0] = MarkedPending(@)]
  BY <1>1 DEF Save
<1>3. \A e \in Entries : LedgerStep(d, e) BY <1>2 DEF LedgerStep, TypeOK
<1>4. Local(d) BY <1>1, <1>2 DEF Local, TypeOK
<1>5. CopyStep(d)
  BY <1>1, <1>3 DEF CopyStep, BlobStep, GotStep, PushKept
<1> QED BY <1>4, <1>5, LocalCopies

\* A step that leaves blobs and ledgers alone and is not in the middle of a push.
Aside(d) ==
  /\ UNCHANGED <<blob, ledger>>
  /\ \A x \in Devices \ {d} :
       pc'[x] = pc[x] /\ push'[x] = push[x] /\ pull'[x] = pull[x]
  /\ PushIdle(d)
  /\ \A e \in Entries : GotStep(d, e)

\* A step aside is a copy step.
LEMMA AsideCopies ==
  ASSUME NEW d \in Devices, Aside(d)
  PROVE  \A x \in Devices : CopyStep(x)
<1>1. Local(d) BY DEF Aside, Local
<1>2. CopyStep(d) BY DEF Aside, CopyStep, BlobStep, LedgerStep
<1> QED BY <1>1, <1>2, LocalCopies

\* Starting an operation and every step of the push half are copy steps.
LEMMA PushStepCopies ==
  ASSUME TypeOK, NEW d \in Devices,
         StartSync(d) \/ PushStep(d) \/ \E e \in Entries : PushEntry(d, e)
  PROVE  \A x \in Devices : CopyStep(x)
<1> USE DEF db, cloud, count, Goto
<1>0. push[d] \in Push BY DEF TypeOK
<1>1. CASE StartSync(d)
  <2>1. Aside(d) BY <1>1 DEF StartSync, Aside, PushIdle, GotStep, TypeOK
  <2> QED BY <2>1, AsideCopies
<1>1a. CASE ListOwnFolder(d)
  <2>1. push' = [push EXCEPT ![d] =
          [push[d] EXCEPT !.listed = {e \in Entries : Present(blob[d][e])},
                          !.up = manifest[d].up]]
    BY <1>1a, <1>0 DEF ListOwnFolder, TypeOK, Push
  <2>2. push'[d].snap = push[d].snap BY <1>0, <2>1 DEF TypeOK, Push
  <2>3. Aside(d)
    BY <1>1a, <2>1, <2>2 DEF ListOwnFolder, Aside, PushIdle, GotStep, TypeOK
  <2> QED BY <2>3, AsideCopies
<1>2. CASE RequeueMissing(d)
  <2>1. ledger' = [ledger EXCEPT ![d] = [e \in Entries |->
                 Requeued(ledger[d][e], e \in push[d].listed)]]
        /\ UNCHANGED <<blob, pull>> /\ pc' = [pc EXCEPT ![d] = "prune"]
        /\ push' = [push EXCEPT ![d] = NoPush]
    BY <1>2 DEF RequeueMissing
  <2>2. ASSUME NEW e \in Entries PROVE LedgerStep(d, e)
    <3>1. ledger'[d][e] = Requeued(ledger[d][e], e \in push[d].listed)
      BY <2>1 DEF TypeOK
    <3>2. ledger[d][e] \in Ledger BY DEF TypeOK
    <3> QED BY <3>1, <3>2 DEF Requeued, LedgerStep, Ledger
  <2>3. Local(d) BY <2>1 DEF Local, TypeOK
  <2>4. PushIdle(d) BY <2>1 DEF PushIdle, NoPush, TypeOK
  <2>5. CopyStep(d)
    BY <2>1, <2>2, <2>4 DEF CopyStep, BlobStep, GotStep
  <2> QED BY <2>3, <2>5, LocalCopies
<1>2a. CASE MarkReconciled(d)
  <2>1. Aside(d) BY <1>2a DEF MarkReconciled, Aside, PushIdle, GotStep, TypeOK
  <2> QED BY <2>1, AsideCopies
<1>3. CASE ListPending(d)
  <2>1. push' = [push EXCEPT ![d] = [push[d] EXCEPT !.queue = Pending(d)]]
    BY <1>3 DEF ListPending, TypeOK, Push
  <2>2. push'[d].snap = push[d].snap BY <1>0, <2>1 DEF TypeOK, Push
  <2>3. Aside(d)
    BY <1>3, <2>1, <2>2 DEF ListPending, Aside, PushIdle, GotStep, TypeOK
  <2> QED BY <2>3, AsideCopies
<1>4. ASSUME NEW e \in Entries, NEW p \in Push, TakeSnapshot(d, e, p)
      PROVE  \A x \in Devices : CopyStep(x)
  <2>1. /\ push' = [push EXCEPT ![d] = [p EXCEPT !.now = {e}, !.snap = row[d][e],
                                           !.ver = ledger[d][e].ver]]
        /\ pc' = [pc EXCEPT ![d] = "upload"]
        /\ UNCHANGED <<row, ledger, blob, pull>>
    BY <1>4 DEF TakeSnapshot
  <2>2. PushTaken(d)
    BY <2>1 DEF PushTaken, TypeOK, Push
  <2>3. Local(d) BY <2>1 DEF Local, TypeOK
  <2>4. CopyStep(d) BY <2>1, <2>2 DEF CopyStep, BlobStep, GotStep, LedgerStep
  <2> QED BY <2>3, <2>4, LocalCopies
<1>5. CASE Snapshot(d)
  <2>1. PICK e \in push[d].queue : TakeSnapshot(d, e, [push[d] EXCEPT !.queue = @ \ {e}])
    BY <1>5 DEF Snapshot
  <2>2. e \in Entries /\ [push[d] EXCEPT !.queue = @ \ {e}] \in Push
    BY <2>1, <1>0 DEF Push
  <2> QED BY <1>4, <2>1, <2>2
<1>6. CASE \E e \in Entries : PushEntry(d, e)
  <2>1. [NoPush EXCEPT !.single = TRUE] \in Push BY ValueTypes DEF Push
  <2> QED BY <1>4, <1>6, <2>1 DEF PushEntry
<1>7. CASE Upload(d)
  <2>1. PICK e \in push[d].now : blob' = [blob EXCEPT ![d][e] = push[d].snap]
    BY <1>7 DEF Upload, UploadBlob
  <2>2. /\ pc[d] = "upload" /\ pc' = [pc EXCEPT ![d] = "stamp"]
        /\ UNCHANGED <<row, ledger, push, pull>>
    BY <1>7 DEF Upload
  <2>3. blob'[d] = [blob[d] EXCEPT ![e] = push[d].snap]
    BY <2>1 DEF TypeOK
  <2>4. PushSent(d) BY <2>1, <2>2, <2>3 DEF PushSent, TypeOK
  <2>5. \A f \in Entries : BlobStep(d, f)
    BY <2>1, <2>2, <2>3 DEF BlobStep, TypeOK
  <2>6. Local(d) BY <2>1, <2>2 DEF Local, TypeOK
  <2>7. CopyStep(d) BY <2>2, <2>4, <2>5 DEF CopyStep, GotStep, LedgerStep
  <2> QED BY <2>6, <2>7, LocalCopies
<1>8. CASE Stamp(d)
  <2>1. ledger' = [ledger EXCEPT ![d] = [e \in Entries |->
          IF e \in push[d].now THEN Stamped(ledger[d][e], push[d].ver)
          ELSE ledger[d][e]]]
    BY <1>8 DEF Stamp
  <2>2. /\ pc[d] = "stamp" /\ EndOfEntry(d) /\ UNCHANGED <<row, blob, pull>>
    BY <1>8 DEF Stamp
  <2>3. \A e \in Entries : LedgerStep(d, e)
    BY <2>1, <2>2 DEF LedgerStep, TypeOK
  <2>4. PushIdle(d) BY <2>2, <1>0, ValueTypes DEF PushIdle, EndOfEntry, TypeOK, NoPush
  <2>5. Local(d) BY <2>1, <2>2 DEF Local, EndOfEntry, TypeOK
  <2>6. CopyStep(d) BY <2>2, <2>3, <2>4 DEF CopyStep, BlobStep, GotStep
  <2> QED BY <2>5, <2>6, LocalCopies
<1>9. ASSUME StartPull(d), UNCHANGED <<blob, ledger>>
      PROVE  Aside(d)
  <2>1. push'[d].snap = Absent BY <1>9 DEF StartPull, TypeOK, NoPush
  <2>2. \A e \in Entries : pull'[d].got[e] = Absent
    BY <1>9 DEF StartPull, TypeOK, NoPull
  <2>3. pc'[d] = "fetch" BY <1>9 DEF StartPull, TypeOK
  <2> QED BY <1>9, <2>1, <2>2, <2>3 DEF StartPull, Aside, PushIdle, GotStep, TypeOK
<1>10. CASE BuildManifest(d)
  <2>1. CASE pushHash[d] = {Summary(d)}
    BY <1>9, <1>10, <2>1, AsideCopies DEF BuildManifest
  <2>2. CASE pushHash[d] # {Summary(d)}
    <3>1. push' = [push EXCEPT ![d] = [push[d] EXCEPT !.draft = Summary(d)]]
      BY <1>10, <2>2 DEF BuildManifest, TypeOK, Push
    <3>2. push'[d].snap = push[d].snap BY <1>0, <3>1 DEF TypeOK, Push
    <3>3. Aside(d)
      BY <1>10, <2>2, <3>1, <3>2 DEF BuildManifest, Aside, PushIdle, GotStep, TypeOK
    <3> QED BY <3>3, AsideCopies
  <2> QED BY <2>1, <2>2
<1>11. CASE WriteManifest(d)
  BY <1>9, <1>11, AsideCopies DEF WriteManifest
<1> QED
  BY <1>1, <1>1a, <1>2, <1>2a, <1>3, <1>5, <1>6, <1>7, <1>8, <1>10, <1>11
     DEF PushStep

\* A step of the pull half: it leaves the push half of d alone.
PullAside(d) ==
  /\ UNCHANGED <<blob, ledger, push>>
  /\ \E s \in PCs \ {"upload", "stamp"} : pc' = [pc EXCEPT ![d] = s]
  /\ \E w : pull' = [pull EXCEPT ![d] = w]
  /\ \A e \in Entries : GotStep(d, e)

\* A step of the pull half is a step aside.
LEMMA PullAsideCopies ==
  ASSUME TypeOK, NEW d \in Devices, PullAside(d)
  PROVE  \A x \in Devices : CopyStep(x)
<1>1. Aside(d) BY DEF PullAside, Aside, PushIdle, TypeOK
<1> QED BY <1>1, AsideCopies

\* Going on with the next chunk only empties what was read.
LEMMA NextChunkAside ==
  ASSUME TypeOK, NEW d \in Devices, NEW p, NEW w \in Pull, NEW left,
         NextChunk(d, p, w, left), UNCHANGED <<blob, ledger, push>>
  PROVE  PullAside(d)
<1>1. PICK c :
        /\ pull' = [pull EXCEPT ![d] =
             [w EXCEPT !.from = {p}, !.left = left \ c, !.chunk = c,
                       !.got = [e \in Entries |-> Absent]]]
        /\ Goto(d, IF c = {} THEN "tombstones" ELSE "read")
  BY DEF NextChunk
<1>2. pull'[d].got = [e \in Entries |-> Absent]
  BY <1>1 DEF TypeOK, Pull
<1>3. \A e \in Entries : GotStep(d, e) BY <1>2 DEF GotStep
<1>4. \E s \in PCs \ {"upload", "stamp"} : pc' = [pc EXCEPT ![d] = s]
  BY <1>1 DEF Goto, PCs
<1> QED BY <1>1, <1>3, <1>4 DEF PullAside

\* Ingesting a chunk only empties what was read.
LEMMA IngestAside ==
  ASSUME TypeOK, NEW d \in Devices, NEW failed, IngestChunk(d, failed)
  PROVE  PullAside(d)
<1>1. pull[d] \in Pull BY DEF TypeOK
<1>2. PICK p \in pull[d].from :
        NextChunk(d, p,
            IF failed = {} THEN pull[d]
            ELSE [pull[d] EXCEPT !.clean = FALSE, !.bad = @ \cup {p}],
            pull[d].left)
  BY DEF IngestChunk
<1>3. p \in Devices BY <1>1 DEF Pull
<1>4. [pull[d] EXCEPT !.clean = FALSE, !.bad = @ \cup {p}] \in Pull
  BY <1>1, <1>3 DEF Pull
<1>5. UNCHANGED <<blob, ledger, push>> BY DEF IngestChunk, cloud
<1> QED BY <1>1, <1>2, <1>4, <1>5, NextChunkAside

\* Giving up on a peer only empties what was read.
LEMMA DropPeerAside ==
  ASSUME TypeOK, NEW d \in Devices, DropPeer(d), UNCHANGED <<blob, ledger, push>>
  PROVE  PullAside(d)
<1>1. pull'[d].got = [e \in Entries |-> Absent]
  BY DEF DropPeer, TypeOK, Pull
<1>2. \A e \in Entries : GotStep(d, e) BY <1>1 DEF GotStep
<1> QED BY <1>2 DEF DropPeer, PullAside, Goto, PCs

\* A step that changes other fields of the pull than the blobs it has read.
LEMMA SameGotAside ==
  ASSUME TypeOK, NEW d \in Devices, UNCHANGED <<blob, ledger, push>>,
         NEW s \in PCs \ {"upload", "stamp"}, pc' = [pc EXCEPT ![d] = s],
         NEW w, pull' = [pull EXCEPT ![d] = w], w.got \in {pull[d].got, NoPull.got}
  PROVE  PullAside(d)
<1>1. pull'[d].got \in {pull[d].got, [e \in Entries |-> Absent]}
  BY DEF TypeOK, NoPull
<1>2. \A e \in Entries : GotStep(d, e) BY <1>1 DEF GotStep
<1> QED BY <1>2 DEF PullAside

\* Every step of the pull half is a copy step.
LEMMA PullStepCopies ==
  ASSUME TypeOK, NEW d \in Devices, PullStep(d)
  PROVE  \A x \in Devices : CopyStep(x)
<1> USE DEF db, cloud, count
<1>0. pull[d] \in Pull /\ pc[d] \in PCs BY DEF TypeOK
<1>0a. pc = [pc EXCEPT ![d] = pc[d]] BY DEF TypeOK
<1>1. ASSUME NEW p \in Devices, FetchManifest(d, p) PROVE PullAside(d)
  <2>1. /\ UNCHANGED <<blob, ledger, push>> /\ pc' = pc /\ pc[d] = "fetch"
    BY <1>1 DEF FetchManifest
  <2>2. pull'[d].got = pull[d].got
    BY <1>0, <1>1 DEF FetchManifest, TypeOK, Pull
  <2>3. \E w : pull' = [pull EXCEPT ![d] = w]
    BY <1>1 DEF FetchManifest
  <2>4. \A e \in Entries : GotStep(d, e) BY <2>2 DEF GotStep
  <2> QED BY <1>0, <1>0a, <2>1, <2>3, <2>4 DEF PullAside
<1>2. ASSUME NEW p \in Devices, NextPeer(d, p) PROVE PullAside(d)
  <2>1. [pull[d] EXCEPT !.work = @ \ {p}] \in Pull BY <1>0 DEF Pull
  <2> QED BY <1>2, <2>1, NextChunkAside DEF NextPeer
<1>3. ASSUME NEW e \in Entries, ReadBlob(d, e) PROVE PullAside(d)
  <2>1. PICK p \in pull[d].from :
          pull' = [pull EXCEPT
            ![d].chunk  = @ \ {e},
            ![d].got[e] = blob[p][e],
            ![d].bad    = IF Present(blob[p][e]) THEN @ ELSE @ \cup {p}]
    BY <1>3 DEF ReadBlob
  <2>2. p \in Devices BY <1>0 DEF Pull
  <2>3. pull'[d].got = [pull[d].got EXCEPT ![e] = blob[p][e]]
    BY <1>0, <2>1 DEF TypeOK, Pull
  <2>4. \A f \in Entries : GotStep(d, f)
    BY <1>0, <2>2, <2>3 DEF GotStep, Pull
  <2>5. \E w : pull' = [pull EXCEPT ![d] = w]
    <3> DEFINE w == [pull[d] EXCEPT !.chunk = @ \ {e}, !.got[e] = blob[p][e],
                      !.bad = IF Present(blob[p][e]) THEN @ ELSE @ \cup {p}]
    <3>1. pull' = [pull EXCEPT ![d] = w] BY <1>0, <2>1 DEF TypeOK, Pull
    <3> HIDE DEF w
    <3> QED BY <3>1
  <2>6. UNCHANGED <<blob, ledger, push>> /\ pc' = pc /\ pc[d] = "read"
    BY <1>3 DEF ReadBlob
  <2> QED BY <1>0, <1>0a, <2>4, <2>5, <2>6 DEF PullAside
<1>4. CASE BuildView(d)
  <2>1. pull' = [pull EXCEPT ![d] = [pull[d] EXCEPT !.view = LocalView(d)]]
    BY <1>4 DEF BuildView, TypeOK, Pull
  <2>2. [pull[d] EXCEPT !.view = LocalView(d)].got = pull[d].got
    BY <1>0 DEF Pull
  <2> QED BY <1>4, <2>1, <2>2, SameGotAside, PullAsideCopies DEF BuildView, Goto, PCs
<1>5. CASE Ingest(d)
  BY <1>5, IngestAside, PullAsideCopies DEF Ingest
<1>6. CASE ApplyTombstones(d)
  <2>1. pull' = [pull EXCEPT ![d] = [pull[d] EXCEPT !.from = {}]]
    BY <1>6 DEF ApplyTombstones, TypeOK, Pull
  <2>2. [pull[d] EXCEPT !.from = {}].got = pull[d].got
    BY <1>0 DEF Pull
  <2> QED BY <1>6, <2>1, <2>2, SameGotAside, PullAsideCopies DEF ApplyTombstones, Goto, PCs
<1>7. CASE FinishPull(d)
  BY <1>7, SameGotAside, PullAsideCopies DEF FinishPull, Goto, PCs
<1>8. CASE Sweep(d)
  <2>1. UNCHANGED <<blob, push, pull>> /\ pc' = [pc EXCEPT ![d] = "idle"]
    BY <1>8 DEF Sweep, Goto
  <2>2. \/ ledger' = ledger
        \/ \E due : ledger' = [ledger EXCEPT ![d] = [e \in Entries |->
             IF e \in due THEN MarkedPending(ledger[d][e]) ELSE ledger[d][e]]]
    BY <1>8, Zenon DEF Sweep
  <2>3. \A e \in Entries : LedgerStep(d, e)
    BY <2>2 DEF LedgerStep, TypeOK
  <2>4. Local(d) BY <2>1, <2>2 DEF Local, TypeOK
  <2>5. CopyStep(d)
    BY <2>1, <2>3 DEF CopyStep, BlobStep, GotStep, PushIdle, TypeOK
  <2> QED BY <2>4, <2>5, LocalCopies
<1> QED
  BY <1>1, <1>2, <1>3, <1>4, <1>5, <1>6, <1>7, <1>8, PullAsideCopies DEF PullStep

\* Every failure and restart is a copy step.
LEMMA SyncFaultCopies ==
  ASSUME TypeOK, NEW d \in Devices, SyncFault(d)
  PROVE  \A x \in Devices : CopyStep(x)
<1> USE DEF db, cloud, Goto
<1>0. pull[d] \in Pull /\ push[d] \in Push /\ pc[d] \in PCs BY DEF TypeOK
<1>0a. pc = [pc EXCEPT ![d] = pc[d]] BY DEF TypeOK
<1>0b. ASSUME StartPull(d), UNCHANGED <<blob, ledger>>
       PROVE  Aside(d)
  <2>1. push'[d].snap = Absent BY <1>0b DEF StartPull, TypeOK, NoPush
  <2>2. \A e \in Entries : pull'[d].got[e] = Absent
    BY <1>0b DEF StartPull, TypeOK, NoPull
  <2>3. pc'[d] = "fetch" BY <1>0b DEF StartPull, TypeOK
  <2> QED BY <1>0b, <2>1, <2>2, <2>3 DEF StartPull, Aside, PushIdle, GotStep, TypeOK
<1>1. CASE ReconcileFail(d)
  BY <1>0b, <1>1, AsideCopies DEF ReconcileFail
<1>1a. CASE PruneFail(d)
  <2>1. Aside(d) BY <1>1a DEF PruneFail, Aside, PushIdle, GotStep, TypeOK
  <2> QED BY <2>1, AsideCopies
<1>2. CASE UploadFail(d)
  <2>1. /\ pc[d] = "upload" /\ EndOfEntry(d) /\ UNCHANGED <<row, ledger, pull>>
        /\ blob' = blob \/ UploadBlob(d)
    BY <1>2 DEF UploadFail
  <2>2. PushIdle(d)
    BY <1>0, <2>1, ValueTypes DEF PushIdle, EndOfEntry, TypeOK, NoPush
  <2>3. \A e \in Entries : BlobStep(d, e)
    <3>1. CASE blob' = blob BY <3>1 DEF BlobStep
    <3>2. CASE UploadBlob(d) BY <2>1, <3>2 DEF UploadBlob, BlobStep, TypeOK
    <3> QED BY <2>1, <3>1, <3>2
  <2>4. Local(d)
    <3>1. \A x \in Devices \ {d} : blob'[x] = blob[x]
      BY <2>1 DEF UploadBlob, TypeOK
    <3> QED BY <2>1, <3>1 DEF Local, EndOfEntry, TypeOK
  <2>5. CopyStep(d) BY <2>1, <2>2, <2>3 DEF CopyStep, GotStep, LedgerStep
  <2> QED BY <2>4, <2>5, LocalCopies
<1>3. CASE WriteManifestFail(d)
  BY <1>0b, <1>3, AsideCopies DEF WriteManifestFail
<1>4. ASSUME NEW p \in Devices, FetchError(d, p) PROVE PullAside(d)
  <2>1. pull'[d].got = pull[d].got BY <1>0, <1>4 DEF FetchError, TypeOK, Pull
  <2>2. \A e \in Entries : GotStep(d, e) BY <2>1 DEF GotStep
  <2>3. \E w : pull' = [pull EXCEPT ![d] = w] BY <1>4 DEF FetchError
  <2> QED BY <1>0, <1>0a, <1>4, <2>2, <2>3 DEF FetchError, PullAside
<1>5. ASSUME NEW p \in Devices, ChannelError(d, p) PROVE PullAside(d)
  <2>1. pull'[d].got = pull[d].got BY <1>0, <1>5 DEF ChannelError, TypeOK, Pull
  <2>2. \A e \in Entries : GotStep(d, e) BY <2>1 DEF GotStep
  <2>3. \E w : pull' = [pull EXCEPT ![d] = w] BY <1>5 DEF ChannelError
  <2> QED BY <1>0, <1>0a, <1>5, <2>2, <2>3 DEF ChannelError, PullAside
<1>6. ASSUME NEW e \in Entries, ReadError(d, e) PROVE PullAside(d)
  <2>1. pull'[d].got = pull[d].got BY <1>0, <1>6 DEF ReadError, TypeOK, Pull
  <2>2. \A f \in Entries : GotStep(d, f) BY <2>1 DEF GotStep
  <2>3. \E w : pull' = [pull EXCEPT ![d] = w] BY <1>6 DEF ReadError
  <2> QED BY <1>0, <1>0a, <1>6, <2>2, <2>3 DEF ReadError, PullAside
<1>7. CASE IngestError(d)
  BY <1>7, IngestAside, PullAsideCopies DEF IngestError
<1>8. CASE IngestFatal(d) \/ TombstonesFail(d)
  BY <1>8, DropPeerAside, PullAsideCopies DEF IngestFatal, TombstonesFail
<1>9. CASE Interrupt(d)
  <2>1. push'[d].snap = Absent BY <1>9 DEF Interrupt, TypeOK, NoPush
  <2>2. \A e \in Entries : pull'[d].got[e] = Absent
    BY <1>9 DEF Interrupt, TypeOK, NoPull
  <2>3. Aside(d)
    BY <1>9, <2>1, <2>2 DEF Interrupt, Aside, PushIdle, GotStep, TypeOK
  <2> QED BY <2>3, AsideCopies
<1> QED
  BY <1>1, <1>1a, <1>2, <1>3, <1>4, <1>5, <1>6, <1>7, <1>8, <1>9,
     PullAsideCopies DEF SyncFault

\* A loss from the cloud is a copy step.
LEMMA LossCopies ==
  ASSUME TypeOK, NEW d \in Devices, ExternalLoss(d)
  PROVE  \A x \in Devices : CopyStep(x)
<1> USE DEF db, cloud
<1>1. CASE LoseManifest(d)
  BY <1>1 DEF LoseManifest, CopyStep, BlobStep, GotStep, LedgerStep, PushKept
<1>2. ASSUME NEW e \in Entries, LoseBlob(d, e)
      PROVE  \A x \in Devices : CopyStep(x)
  <2>1. /\ CloudLoss /\ blob' = [blob EXCEPT ![d][e] = Absent]
        /\ UNCHANGED <<ledger, pc, push, pull>>
    BY <1>2 DEF LoseBlob
  <2>2. \A f \in Entries : BlobStep(d, f) BY <2>1 DEF BlobStep, TypeOK
  <2>3. Local(d) BY <2>1 DEF Local, TypeOK
  <2>4. CopyStep(d) BY <2>1, <2>2 DEF CopyStep, GotStep, LedgerStep, PushKept
  <2> QED BY <2>3, <2>4, LocalCopies
<1> QED BY <1>1, <1>2 DEF ExternalLoss

\* Every step of the system is a copy step on every device.
LEMMA NextCopies ==
  ASSUME TypeOK, Next
  PROVE  \A x \in Devices : CopyStep(x)
BY DevicesAssumption, UserWriteCopies, PushStepCopies, PullStepCopies,
   SyncFaultCopies, LossCopies DEF Next

-----------------------------------------------------------------------------
(* Body text is never dropped.                                              *)

\* With one lineage a row only gains text, by its own writes or from what it read.
LEMMA TextStep ==
  ASSUME ~EmptyBodies, TypeOK, AbsentRows, OneLineage,
         NEW d \in Devices, NEW e \in Entries, RowStep(d, e), row'[d][e] \in Row
  PROVE  /\ row[d][e].doc \subseteq row'[d][e].doc
         /\ HasBody(row'[d][e])
         /\ \/ Saved(d, e)
            \/ row'[d][e].doc = row[d][e].doc
            \/ /\ pc[d] = "read"
               /\ row'[d][e].doc \subseteq row[d][e].doc \cup pull[d].got[e].doc
<1> DEFINE old == row[d][e]
           new == row'[d][e]
           got == pull[d].got[e]
<1>1. /\ old \in Row /\ new \in Row
      /\ HasBody(old) /\ HasBody(got)
      /\ ~Present(old) => old.doc = {}
  BY DEF TypeOK, OneLineage, AbsentRows, Absent
<1>2. CASE new = old BY <1>1, <1>2
<1>3. CASE Saved(d, e)
  <2>1. old.doc \subseteq new.doc BY <1>1, <1>3 DEF Saved
  <2>2. HasBody(new) BY <1>1, <1>3, <2>1 DEF Saved, HasBody
  <2> QED BY <1>3, <2>1, <2>2
<1>4. CASE Merged(d, e)
  <2>1. PICK p \in pull[d].from :
          new = Merge(d, p, old, got, ledger[d][e].ver > 0)
    BY <1>4 DEF Merged
  <2>2. pc[d] = "read" /\ Present(got) /\ got \in Row BY <1>4 DEF Merged
  <2>3. CASE ~Present(old)
    <3>1. new = got BY <2>1, <2>3 DEF Merge
    <3> QED BY <1>1, <2>2, <2>3, <3>1
  <2>4. CASE Present(old)
    <3>1. 0 \in old.doc /\ 0 \in got.doc BY <1>1, <2>2, <2>4 DEF HasBody
    <3>2. new.doc = old.doc \cup got.doc
      <4>1. ~Disjoint(old.doc, got.doc) BY <3>1 DEF Disjoint
      <4>2. MergedDoc(old, got, RemoteWins(d, p, old, got), ledger[d][e].ver > 0)
              = old.doc \cup got.doc
        BY <3>1, <4>1 DEF MergedDoc
      <4> QED BY <1>1, <2>1, <2>2, <2>4, <4>2 DEF Merge, Row
    <3> QED BY <2>2, <3>1, <3>2 DEF HasBody
  <2> QED BY <2>3, <2>4
<1>5. CASE Buried(d, e)
  <2>1. Present(old) /\ new.doc = old.doc
    BY <1>1, <1>5 DEF Buried, Tombstoned, Row
  <2> QED BY <1>1, <2>1 DEF HasBody
<1> QED BY <1>2, <1>3, <1>4, <1>5 DEF RowStep

\* One lineage per entry is inductive, and no step drops text.
LEMMA LineageStep ==
  ASSUME ~EmptyBodies, TypeOK, AbsentRows, OneLineage, [Next]_vars
  PROVE  OneLineage' /\ [KeepsText]_row
<1>0. HasBody(Absent) BY DEF HasBody, Present, Absent
<1>1. CASE Next
  <2>1. TypeOK' BY <1>1, NextType
  <2>2. ASSUME NEW d \in Devices, NEW e \in Entries
        PROVE  /\ row[d][e].doc \subseteq row'[d][e].doc
               /\ HasBody(row'[d][e])
    <3>1. RowStep(d, e) /\ row'[d][e] \in Row
      BY <1>1, <2>1, NextRows DEF TypeOK
    <3> QED BY <3>1, TextStep
  <2>3. ASSUME NEW d \in Devices, NEW e \in Entries
        PROVE  /\ HasBody(blob'[d][e]) /\ HasBody(pull'[d].got[e])
               /\ HasBody(push'[d].snap)
    <3>1. CopyStep(d) BY <1>1, NextCopies
    <3>2. HasBody(blob'[d][e])
      BY <1>0, <3>1 DEF CopyStep, BlobStep, OneLineage
    <3>3. HasBody(pull'[d].got[e])
      BY <1>0, <3>1 DEF CopyStep, GotStep, OneLineage
    <3>4. HasBody(push'[d].snap)
      BY <1>0, <3>1
         DEF CopyStep, PushIdle, PushKept, PushTaken, PushSent, OneLineage
    <3> QED BY <3>2, <3>3, <3>4
  <2>4. OneLineage' BY <2>2, <2>3 DEF OneLineage, HasBody, Present
  <2>5. KeepsText BY <2>2 DEF KeepsText
  <2> QED BY <2>4, <2>5
<1>2. CASE UNCHANGED vars
  BY <1>2 DEF vars, OneLineage, HasBody, Present
<1> QED BY <1>1, <1>2

\* Initially every copy holds the creation body.
LEMMA LineageInit ==
  Init /\ ~EmptyBodies => AbsentRows /\ OneLineage
<1> SUFFICES ASSUME Init, ~EmptyBodies PROVE AbsentRows /\ OneLineage OBVIOUS
<1>1. HasBody(Absent) /\ HasBody(Original)
  BY DEF HasBody, Present, Absent, Original
<1>2. AbsentRows BY DEF Init, AbsentRows, Present, Original
<1>3. ASSUME NEW d \in Devices, NEW e \in Entries
      PROVE  /\ HasBody(row[d][e]) /\ HasBody(blob[d][e])
             /\ HasBody(pull[d].got[e]) /\ HasBody(push[d].snap)
  BY <1>1 DEF Init, NoPull, NoPush
<1> QED BY <1>2, <1>3 DEF OneLineage

\* In a vault whose entries are created with a body, no step of any device
\* drops body text from a row, whichever side wins the other fields
\* (ingest_entry_in_pull merges documents, it never takes a winner).
THEOREM TextIsKept ==
  ASSUME ~EmptyBodies
  PROVE  Spec => TextNeverDropped
<1> DEFINE Inv == TypeOK /\ AbsentRows /\ OneLineage
<1>1. Init => Inv BY InitType, LineageInit
<1>2. Inv /\ [Next]_vars => Inv' /\ [KeepsText]_row
  BY NextType, AbsentStep, LineageStep
<1> QED BY <1>1, <1>2, PTL DEF Spec, TextNeverDropped

-----------------------------------------------------------------------------
(* Text that is not in the cloud is pending.                                *)

\* When no blob loses text, neither does the cloud.
LEMMA CloudGrows ==
  ASSUME \A d \in Devices, e \in Entries : blob[d][e].doc \subseteq blob'[d][e].doc,
         NEW e \in Entries
  PROVE  /\ CloudText(e) \subseteq CloudText(e)'
         /\ \A d \in Devices : blob[d][e].doc \subseteq CloudText(e)
         /\ \A d \in Devices : blob'[d][e].doc \subseteq CloudText(e)'
BY DEF CloudText

\* TextInv is inductive.
LEMMA TextInvStep ==
  ASSUME ~EmptyBodies, ~CloudLoss, TypeOK, TextInv, Next
  PROVE  TextInv'
<1>1. TypeOK' BY NextType
<1>2. AbsentRows' BY AbsentStep DEF TextInv
<1>3. OneLineage' BY LineageStep DEF TextInv
<1>4. ASSUME NEW d \in Devices, NEW e \in Entries
      PROVE  /\ row[d][e].doc \subseteq row'[d][e].doc
             /\ \/ Saved(d, e)
                \/ row'[d][e].doc = row[d][e].doc
                \/ /\ pc[d] = "read"
                   /\ row'[d][e].doc \subseteq row[d][e].doc \cup pull[d].got[e].doc
  <2>1. RowStep(d, e) /\ row'[d][e] \in Row
    BY <1>1, NextRows DEF TypeOK
  <2> QED BY <2>1, TextStep DEF TextInv
<1>5. ASSUME NEW d \in Devices PROVE CopyStep(d)
  BY NextCopies
<1>6. ASSUME NEW d \in Devices, NEW e \in Entries
      PROVE  blob[d][e].doc \subseteq blob'[d][e].doc
             /\ blob'[d][e].doc \subseteq row[d][e].doc
  BY <1>5 DEF CopyStep, BlobStep, TextInv, PushInFlight, TextComesFromRows
<1>7. ASSUME NEW e \in Entries
      PROVE  /\ CloudText(e) \subseteq CloudText(e)'
             /\ \A d \in Devices : blob[d][e].doc \subseteq CloudText(e)
             /\ \A d \in Devices : blob'[d][e].doc \subseteq CloudText(e)'
  BY <1>6, CloudGrows
<1>8. TextComesFromRows'
  <2>1. ASSUME NEW d \in Devices, NEW e \in Entries
        PROVE  blob'[d][e].doc \subseteq row'[d][e].doc
    BY <1>4, <1>6
  <2>2. ASSUME NEW d \in Devices, NEW e \in Entries
        PROVE  pull'[d].got[e].doc \subseteq CloudText(e)'
    <3>1. GotStep(d, e) BY <1>5 DEF CopyStep
    <3>2. pull[d].got[e].doc \subseteq CloudText(e)
      BY DEF TextInv, TextComesFromRows
    <3>3. CASE pull'[d].got[e] = pull[d].got[e] BY <1>7, <3>2, <3>3
    <3>4. CASE pull'[d].got[e] = Absent BY <3>4 DEF Absent
    <3>5. CASE \E p \in Devices : pull'[d].got[e] = blob[p][e]
      BY <1>7, <3>5
    <3> QED BY <3>1, <3>3, <3>4, <3>5 DEF GotStep
  <2> QED BY <2>1, <2>2 DEF TextComesFromRows
<1>9. PushInFlight'
  <2> SUFFICES ASSUME NEW d \in Devices, pc'[d] \in {"upload", "stamp"}
               PROVE  /\ \A e, f \in push'[d].now : e = f
                      /\ \A e \in push'[d].now :
                           /\ blob'[d][e].doc \subseteq push'[d].snap.doc
                           /\ push'[d].snap.doc \subseteq row'[d][e].doc
                           /\ push'[d].ver <= ledger'[d][e].ver
                           /\ push'[d].ver = ledger'[d][e].ver =>
                                row'[d][e].doc = push'[d].snap.doc
                           /\ pc'[d] = "stamp" => push'[d].snap.doc = blob'[d][e].doc
    BY DEF PushInFlight
  <2>0. push[d] \in Push /\ push'[d] \in Push BY <1>1 DEF TypeOK
  <2>1. CASE PushKept(d)
    <3>1. pc[d] \in {"upload", "stamp"} /\ push'[d] = push[d] /\ blob'[d] = blob[d]
          /\ pc'[d] = pc[d]
      BY <2>1 DEF PushKept
    <3>2. \A e, f \in push[d].now : e = f
      BY <3>1 DEF TextInv, PushInFlight
    <3>3. ASSUME NEW e \in push[d].now
          PROVE  /\ blob'[d][e].doc \subseteq push'[d].snap.doc
                 /\ push'[d].snap.doc \subseteq row'[d][e].doc
                 /\ push'[d].ver <= ledger'[d][e].ver
                 /\ push'[d].ver = ledger'[d][e].ver =>
                      row'[d][e].doc = push'[d].snap.doc
                 /\ pc'[d] = "stamp" => push'[d].snap.doc = blob'[d][e].doc
      <4>1. e \in Entries /\ push[d].ver \in Nat BY <2>0 DEF Push
      <4>2. /\ blob[d][e].doc \subseteq push[d].snap.doc
            /\ push[d].snap.doc \subseteq row[d][e].doc
            /\ push[d].ver <= ledger[d][e].ver
            /\ push[d].ver = ledger[d][e].ver => row[d][e].doc = push[d].snap.doc
            /\ pc[d] = "stamp" => push[d].snap.doc = blob[d][e].doc
        BY <3>1 DEF TextInv, PushInFlight
      <4>3. ledger[d][e].ver \in Nat /\ ledger'[d][e].ver \in Nat
        BY <1>1, <4>1 DEF TypeOK, Ledger
      <4>4. \/ ledger'[d][e].ver = ledger[d][e].ver
            \/ ledger'[d][e].ver = ledger[d][e].ver + 1
        <5>1. LedgerStep(d, e) BY <1>5, <4>1 DEF CopyStep
        <5>2. ledger[d][e] \in Ledger BY <4>1 DEF TypeOK
        <5> QED BY <5>1, <5>2 DEF LedgerStep, MarkedPending, Stamped, Ledger
      <4>5. \/ ledger'[d][e].ver = ledger[d][e].ver + 1
            \/ row'[d][e].doc = row[d][e].doc
        <5>1. pc[d] # "read" BY <3>1
        <5>2. Saved(d, e) => ledger'[d][e].ver = ledger[d][e].ver + 1
          BY DEF Saved, MarkedPending
        <5> QED BY <1>4, <4>1, <5>1, <5>2
      <4>6. row[d][e].doc \subseteq row'[d][e].doc BY <1>4, <4>1
      <4> QED BY <3>1, <4>1, <4>2, <4>3, <4>4, <4>5, <4>6
    <3> QED BY <3>1, <3>2, <3>3
  <2>2. CASE PushTaken(d)
    <3>1. PICK e \in Entries : /\ push'[d].now = {e}
                               /\ push'[d].snap = row[d][e]
                               /\ push'[d].ver = ledger[d][e].ver
      BY <2>2 DEF PushTaken
    <3>2. /\ pc'[d] = "upload"
          /\ row'[d] = row[d] /\ ledger'[d] = ledger[d] /\ blob'[d] = blob[d]
      BY <2>2 DEF PushTaken
    <3>3. ledger[d][e].ver \in Nat BY DEF TypeOK, Ledger
    <3>4. blob[d][e].doc \subseteq row[d][e].doc
      BY DEF TextInv, TextComesFromRows
    <3> QED BY <3>1, <3>2, <3>3, <3>4
  <2>3. CASE PushSent(d)
    <3>1. PICK f \in push[d].now : blob'[d] = [blob[d] EXCEPT ![f] = push[d].snap]
      BY <2>3 DEF PushSent
    <3>2. /\ pc[d] = "upload" /\ push'[d] = push[d]
          /\ row'[d] = row[d] /\ ledger'[d] = ledger[d]
      BY <2>3 DEF PushSent
    <3>3. /\ \A e, g \in push[d].now : e = g
          /\ \A e \in push[d].now :
              /\ push[d].snap.doc \subseteq row[d][e].doc
              /\ push[d].ver <= ledger[d][e].ver
              /\ push[d].ver = ledger[d][e].ver => row[d][e].doc = push[d].snap.doc
      BY <3>2 DEF TextInv, PushInFlight
    <3>4. f \in Entries BY <2>0 DEF Push
    <3>5. blob'[d][f] = push[d].snap BY <3>1, <3>4 DEF TypeOK
    <3> QED BY <3>2, <3>3, <3>5
  <2> QED BY <1>5, <2>1, <2>2, <2>3 DEF CopyStep, PushIdle
<1>10. OnlyPendingTextIsLocal'
  <2> SUFFICES ASSUME NEW d \in Devices, NEW e \in Entries, ~ledger'[d][e].pending
               PROVE  row'[d][e].doc \subseteq CloudText(e)'
    BY DEF OnlyPendingTextIsLocal
  <2>1. ledger[d][e] \in Ledger /\ push[d] \in Push BY DEF TypeOK
  <2>2. ~Saved(d, e) BY DEF Saved, MarkedPending
  <2>3. pull[d].got[e].doc \subseteq CloudText(e)
    BY DEF TextInv, TextComesFromRows
  <2>4. row[d][e].doc \subseteq CloudText(e)'
    <3>1. CASE ~ledger[d][e].pending
      BY <1>7, <3>1 DEF TextInv, OnlyPendingTextIsLocal
    <3>2. CASE ledger[d][e].pending
      <4>1. /\ pc[d] = "stamp" /\ e \in push[d].now
            /\ ledger[d][e].ver = push[d].ver
        <5>1. LedgerStep(d, e) BY <1>5 DEF CopyStep
        <5> QED BY <2>1, <3>2, <5>1 DEF LedgerStep, MarkedPending, Stamped, Ledger
      <4>2. row[d][e].doc = blob[d][e].doc
        BY <4>1 DEF TextInv, PushInFlight
      <4> QED BY <1>7, <4>2
    <3> QED BY <3>1, <3>2
  <2>5. \/ row'[d][e].doc = row[d][e].doc
        \/ row'[d][e].doc \subseteq row[d][e].doc \cup pull[d].got[e].doc
    BY <1>4, <2>2
  <2> QED BY <1>7, <2>3, <2>4, <2>5
<1> QED BY <1>2, <1>3, <1>8, <1>9, <1>10 DEF TextInv

\* TextInv holds initially.
LEMMA TextInvInit == Init /\ ~EmptyBodies => TextInv
<1> SUFFICES ASSUME Init, ~EmptyBodies PROVE TextInv OBVIOUS
<1>1. AbsentRows /\ OneLineage BY LineageInit
<1>2. TextComesFromRows
  BY DEF Init, TextComesFromRows, NoPull, Absent
<1>3. PushInFlight BY DEF Init, PushInFlight
<1>4. OnlyPendingTextIsLocal
  <2> SUFFICES ASSUME NEW d \in Devices, NEW e \in Entries
               PROVE  row[d][e].doc \subseteq CloudText(e)
    BY DEF OnlyPendingTextIsLocal
  <2>1. CASE e \in Shared
    <3>1. row[d][e] = Original /\ blob[Owner][e] = Original
      BY <2>1, DevicesAssumption DEF Init
    <3> QED BY <3>1, DevicesAssumption DEF CloudText
  <2>2. CASE e \notin Shared
    <3>1. row[d][e] = Absent BY <2>2 DEF Init
    <3> QED BY <3>1 DEF Absent
  <2> QED BY <2>1, <2>2
<1> QED BY <1>1, <1>2, <1>3, <1>4 DEF TextInv

\* In a vault whose entries are created with a body and whose cloud loses
\* nothing, every copy of an entry descends from its creation body and holds no
\* text its row has not, the snapshot of a push under way lies between blob and
\* row, and stands for the row's text until the version moves (push_single_entry).
THEOREM TextInvariant ==
  ASSUME ~EmptyBodies, ~CloudLoss
  PROVE  Spec => []TextInv
<1>1. Init => TypeOK /\ TextInv BY InitType, TextInvInit
<1>2. TypeOK /\ TextInv /\ [Next]_vars => (TypeOK /\ TextInv)'
  <2> SUFFICES ASSUME TypeOK, TextInv, [Next]_vars PROVE (TypeOK /\ TextInv)'
    OBVIOUS
  <2>1. CASE Next BY <2>1, NextType, TextInvStep
  <2>2. CASE UNCHANGED vars
    <3>1. TypeOK' BY NextType
    <3>2. TextInv'
      BY <2>2 DEF vars, TextInv, AbsentRows, OneLineage, HasBody, Present,
         TextComesFromRows, PushInFlight, OnlyPendingTextIsLocal, CloudText
    <3> QED BY <3>1, <3>2
  <2> QED BY <2>1, <2>2
<1> QED BY <1>1, <1>2, PTL DEF Spec

\* In such a vault text that is on no cloud folder is only in rows marked
\* pending: no interleaving of saves, uploads, version-checked stamps, failures
\* and restarts leaves text that no later push would send.
THEOREM LocalTextIsPending ==
  ASSUME ~EmptyBodies, ~CloudLoss
  PROVE  Spec => []OnlyPendingTextIsLocal
<1>1. TextInv => OnlyPendingTextIsLocal BY DEF TextInv
<1> QED BY <1>1, TextInvariant, PTL

=============================================================================
