------------------------ MODULE EntrySyncPullProofs ------------------------
(***************************************************************************)
(* Theorems about what a pull brings to a device of EntrySync, for any     *)
(* devices, entries, faults and losses: nothing but what some user wrote,  *)
(* nothing less than what the manifests it has cached list, and in the end *)
(* the same on every device.                                               *)
(***************************************************************************)
EXTENDS EntrySyncProofs, FiniteSetTheorems

-----------------------------------------------------------------------------
(* Copies of an entry are copies of writes                                  *)

Recorded(e, r) == r.st \in {"live", "trashed"} => WriteOf(r) \in written[e]

\* Whatever of an entry is on its way between devices was written by a user.
WritesInv ==
  \A d \in Devices, e \in Entries :
    /\ Recorded(e, row[d][e]) /\ Recorded(e, blob[d][e]) /\ Recorded(e, pull[d].got[e])
    /\ pc[d] = "upload" /\ e \in push[d].now => Recorded(e, push[d].snap)

LEMMA MergeWrites ==
  ASSUME NEW d, NEW p, NEW owned, NEW local \in Row, NEW remote \in Row
  PROVE  WriteOf(Merge(d, p, local, remote, owned)) \in {WriteOf(local), WriteOf(remote)}
BY DEF Merge, WriteOf, Row

\* Steps that write no entry leave the record of writes alone.
Silent == written' = written /\ ledger' = ledger

LEMMA SilentRows ==
  ASSUME TypeOK, Silent, NEW d \in Devices, NEW e \in Entries, RowStep(d, e)
  PROVE  row'[d][e] = row[d][e] \/ Merged(d, e) \/ Buried(d, e)
<1>1. ledger[d][e] \in Ledger BY DEF TypeOK
<1>2. ~Saved(d, e) BY <1>1 DEF Saved, MarkedPending, Silent, Ledger
<1> QED BY <1>2 DEF RowStep

\* A row changes by a write that is recorded, by a merge or by a tombstone.
Noted(d, e) ==
  \/ row'[d][e] = row[d][e] \/ WriteOf(row'[d][e]) \in written'[e]
  \/ Merged(d, e) \/ Buried(d, e)

LEMMA UserWriteNoted ==
  ASSUME TypeOK, NEW d \in Devices, UserWrite(d)
  PROVE  \A e \in Entries : written[e] \subseteq written'[e] /\ \A x \in Devices : Noted(x, e)
<1>1. PICK e0 \in Entries : \E r : Save(d, e0, r)
  BY DEF UserWrite, Create, EditBody, EditFields, Trash, Restore, Purge
<1>2. PICK r : /\ row' = [row EXCEPT ![d][e0] = r]
               /\ written' = [written EXCEPT ![e0] = @ \cup {WriteOf(r)}]
  BY <1>1 DEF Save
<1> QED BY <1>2 DEF TypeOK, Noted

LEMMA SweepNoted ==
  ASSUME TypeOK, NEW d \in Devices, Sweep(d)
  PROVE  \A e \in Entries : written[e] \subseteq written'[e] /\ \A x \in Devices : Noted(x, e)
<1>1. CASE row' = row /\ written' = written BY <1>1 DEF Noted
<1>2. CASE ~(row' = row /\ written' = written)
  <2>1. PICK due \in SUBSET Entries :
          /\ row' = [row EXCEPT ![d] = [e \in Entries |->
                IF e \in due THEN Purged(row[d][e], nops + 1) ELSE row[d][e]]]
          /\ written' = [e \in Entries |->
                IF e \in due
                THEN written[e] \cup {WriteOf([x \in Entries |->
                       IF x \in due THEN Purged(row[d][x], nops + 1) ELSE row[d][x]][e])}
                ELSE written[e]]
    BY <1>2 DEF Sweep
  <2>2. ASSUME NEW e \in Entries
        PROVE  written[e] \subseteq written'[e] /\ \A x \in Devices : Noted(x, e)
    <3>1. CASE e \in due
      <4>1. written'[e] = written[e] \cup {WriteOf(Purged(row[d][e], nops + 1))}
        BY <2>1, <3>1
      <4>2. row'[d][e] = Purged(row[d][e], nops + 1) BY <2>1, <3>1 DEF TypeOK
      <4>3. \A x \in Devices \ {d} : row'[x][e] = row[x][e] BY <2>1 DEF TypeOK
      <4> QED BY <4>1, <4>2, <4>3 DEF Noted
    <3>2. CASE e \notin due
      BY <2>1, <3>2 DEF TypeOK, Noted
    <3> QED BY <3>1, <3>2
  <2> QED BY <2>2
<1> QED BY <1>1, <1>2

LEMMA NextNoted ==
  ASSUME TypeOK, Next
  PROVE  \A e \in Entries : written[e] \subseteq written'[e] /\ \A x \in Devices : Noted(x, e)
<1> USE DEF db, cloud, count
<1>0. \A x \in Devices, e \in Entries : RowStep(x, e) BY NextRows
<1>1. ASSUME Silent
      PROVE  \A e \in Entries : written[e] \subseteq written'[e] /\ \A x \in Devices : Noted(x, e)
  BY <1>0, <1>1, SilentRows DEF Noted, Silent
<1>2. ASSUME written' = written, row' = row
      PROVE  \A e \in Entries : written[e] \subseteq written'[e] /\ \A x \in Devices : Noted(x, e)
  BY <1>2 DEF Noted
<1>3. ASSUME NEW d \in Editors, UserWrite(d)
      PROVE  \A e \in Entries : written[e] \subseteq written'[e] /\ \A x \in Devices : Noted(x, e)
  BY <1>3, DevicesAssumption, UserWriteNoted
<1>4. ASSUME NEW d \in Devices,
             StartSync(d) \/ PushStep(d) \/ \E e \in Entries : PushEntry(d, e)
      PROVE  written' = written /\ row' = row
  BY <1>4 DEF StartSync, PushStep, PushEntry, TakeSnapshot, ListOwnFolder,
     RequeueMissing, MarkReconciled, ListPending, Snapshot, Upload, Stamp, BuildManifest, WriteManifest
<1>5. ASSUME NEW d \in Devices, PullStep(d), ~Sweep(d)
      PROVE  Silent
  BY <1>5 DEF PullStep, FetchManifest, NextPeer, ReadBlob, BuildView, Ingest, IngestChunk,
     ApplyTombstones, FinishPull, Silent
<1>6. ASSUME NEW d \in Devices, SyncFault(d) PROVE Silent
  BY <1>6 DEF SyncFault, ReconcileFail, PruneFail, UploadFail, WriteManifestFail, FetchError,
     ChannelError, ReadError, IngestError, IngestChunk, IngestFatal, TombstonesFail, Interrupt, Silent
<1>7. ASSUME NEW d \in Devices, ExternalLoss(d) PROVE Silent
  BY <1>7 DEF ExternalLoss, LoseManifest, LoseBlob, Silent
<1> QED BY <1>1, <1>2, <1>3, <1>4, <1>5, <1>6, <1>7, SweepNoted DEF Next

LEMMA WritesStep == TypeOK /\ WritesInv /\ [Next]_vars => WritesInv'
<1> SUFFICES ASSUME TypeOK, WritesInv, [Next]_vars PROVE WritesInv' OBVIOUS
<1>1. CASE UNCHANGED vars
  BY <1>1 DEF vars, WritesInv, Recorded
<1>2. CASE Next
  <2>1. \A e \in Entries : written[e] \subseteq written'[e] /\ \A x \in Devices : Noted(x, e)
    BY <1>2, NextNoted
  <2>2. \A x \in Devices : CopyStep(x) BY <1>2, NextCopies
  <2> SUFFICES ASSUME NEW d \in Devices, NEW e \in Entries
               PROVE  /\ Recorded(e, row[d][e])' /\ Recorded(e, blob[d][e])'
                      /\ Recorded(e, pull[d].got[e])'
                      /\ pc'[d] = "upload" /\ e \in push'[d].now => Recorded(e, push[d].snap)'
    BY DEF WritesInv
  <2> DEFINE Rec(r) == r.st \in {"live", "trashed"} => WriteOf(r) \in written'[e]
  <2>3. \A r : Recorded(e, r) => Rec(r) BY <2>1 DEF Recorded
  <2>4. /\ Rec(row[d][e]) /\ Rec(pull[d].got[e]) /\ \A p \in Devices : Rec(blob[p][e])
        /\ pc[d] = "upload" /\ e \in push[d].now => Rec(push[d].snap)
    <3> HIDE DEF Rec
    <3> QED BY <2>3 DEF WritesInv
  <2>5. Rec(Absent) BY DEF Absent
  <2>6. Rec(row'[d][e])
    <3>1. CASE Merged(d, e)
      <4>1. PICK p \in pull[d].from :
              row'[d][e] = Merge(d, p, row[d][e], pull[d].got[e], ledger[d][e].ver > 0)
        BY <3>1 DEF Merged
      <4>2. row[d][e] \in Row /\ pull[d].got[e] \in Row BY <3>1 DEF TypeOK, Merged
      <4>3. WriteOf(row'[d][e]) \in {WriteOf(row[d][e]), WriteOf(pull[d].got[e])}
        BY <4>1, <4>2, MergeWrites
      <4>4. \A r : WriteOf(r).st = r.st BY DEF WriteOf
      <4>5. WriteOf(row'[d][e]).st = row'[d][e].st BY <4>4
      <4>6. \A r : WriteOf(row'[d][e]) = WriteOf(r) => row'[d][e].st = r.st BY <4>4, <4>5
      <4> QED BY <2>4, <4>3, <4>6
    <3>2. CASE Buried(d, e)
      <4>1. row[d][e] \in Row BY DEF TypeOK
      <4>2. row'[d][e] = row[d][e] \/ row'[d][e].st = "purged"
        BY <3>2, <4>1 DEF Buried, Tombstoned, Row
      <4> QED BY <2>4, <4>2
    <3> QED BY <2>1, <2>4, <3>1, <3>2 DEF Noted
  <2>7. Rec(blob'[d][e])
    <3>1. BlobStep(d, e) BY <2>2 DEF CopyStep
    <3> HIDE DEF Rec
    <3> QED BY <2>4, <2>5, <3>1 DEF BlobStep
  <2>8. Rec(pull'[d].got[e])
    <3>1. GotStep(d, e) BY <2>2 DEF CopyStep
    <3> HIDE DEF Rec
    <3> QED BY <2>4, <2>5, <3>1 DEF GotStep
  <2>9. ASSUME pc'[d] = "upload", e \in push'[d].now PROVE Rec(push'[d].snap)
    <3>1. CASE PushIdle(d) BY <2>9, <3>1 DEF PushIdle
    <3>2. CASE PushKept(d) BY <2>4, <2>9, <3>2 DEF PushKept
    <3>3. CASE PushTaken(d)
      <4>1. PICK f \in Entries : push'[d].now = {f} /\ push'[d].snap = row[d][f]
        BY <3>3 DEF PushTaken
      <4>2. f = e BY <2>9, <4>1
      <4> QED BY <2>4, <4>1, <4>2
    <3>4. CASE PushSent(d) BY <2>9, <3>4 DEF PushSent
    <3> QED BY <2>2, <3>1, <3>2, <3>3, <3>4 DEF CopyStep
  <2> QED BY <2>6, <2>7, <2>8, <2>9 DEF Recorded
<1> QED BY <1>1, <1>2

LEMMA WritesInit == Init => WritesInv
<1> SUFFICES ASSUME Init PROVE WritesInv OBVIOUS
<1>1. \A e \in Entries : Recorded(e, Absent) BY DEF Recorded, Absent
<1>2. \A e \in Shared : Recorded(e, Original)
  BY EntriesAssumption DEF Init, Recorded
<1>3. \A d \in Devices, e \in Entries :
        /\ row[d][e] \in {Absent, Original} /\ (row[d][e] = Original => e \in Shared)
        /\ blob[d][e] \in {Absent, Original} /\ (blob[d][e] = Original => e \in Shared)
        /\ pull[d].got[e] = Absent /\ pc[d] = "idle"
  BY DEF Init, NoPull, Absent, Original
<1> QED BY <1>1, <1>2, <1>3 DEF WritesInv

\* Merging never invents a state: what a device shows of an entry it has not
\* purged, Trash state, stamp and fields together, is what one user write made
\* it (merge_metadata_lww takes one side whole), whatever fails or is lost.
THEOREM RowsAlwaysWritten == Spec => []RowsAreWrites
<1>1. Init => TypeOK /\ WritesInv BY InitType, WritesInit
<1>2. TypeOK /\ WritesInv /\ [Next]_vars => (TypeOK /\ WritesInv)'
  BY NextType, WritesStep
<1>3. WritesInv => RowsAreWrites BY DEF WritesInv, RowsAreWrites, Recorded
<1> QED BY <1>1, <1>2, <1>3, PTL DEF Spec

-----------------------------------------------------------------------------
(* A manifest whose revision is cached has been taken in                    *)

\* A revision stands for one content of a manifest, and devices know no later
\* one than was written.
RevInv ==
  \A d, p \in Devices :
    /\ manifest[p].rev > 0 /\ pullRev[d][p] <= manifest[p].rev
    /\ pull[d].rev[p] <= manifest[p].rev
    /\ pull[d].rev[p] = manifest[p].rev => pull[d].man[p] = manifest[p].lines

\* Where the wanted entries of a fetched peer are: in the rows already, or in
\* what the pull has yet to take in, or missed, and then the peer is bad.
Reached(d, p, e) ==
  \/ Present(row[d][e])
  \/ pc[d] = "read" /\ p \in pull[d].from /\ e \in pull[d].left \cup pull[d].chunk \cup Got(d)

FetchInv(d) ==
  pc[d] = "fetch" => \A p \in Devices : pull[d].rev[p] > 0 => p \in pull[d].work \ pull[d].todo

PeerInv(d) ==
  /\ \A p, q \in pull[d].from : p = q
  /\ pc[d] \in {"peer", "read", "tombstones"} =>
       /\ \A e \in Entries : Present(pull[d].view[e]) => Present(row[d][e])
       /\ \A p \in Devices :
            pull[d].rev[p] > 0 /\ p \notin pull[d].work \cup pull[d].bad =>
              \A e \in ToPull(pull[d].view, pull[d].man[p]) : Reached(d, p, e)

SeenInv ==
  RevInv /\ CachedMeansSeen /\ \A d \in Devices : FetchInv(d) /\ PeerInv(d)

\* What one step does for the cached revisions of device d: a revision it reads
\* is the current one, and it caches only one whose entries are all there.
RowsStay == \A d \in Devices, e \in Entries : Present(row[d][e]) => Present(row'[d][e])

TakenIn(d, p) ==
  \A e \in Entries :
    pull[d].man[p][e].ver > 0 /\ pull[d].man[p][e].st # "purged" => Present(row[d][e])

FetchStep(d, p) ==
  \/ pull'[d].rev[p] = 0
  \/ pull'[d].rev[p] = pull[d].rev[p] /\ pull'[d].man[p] = pull[d].man[p]
  \/ /\ pull'[d].rev[p] = manifest[p].rev /\ pull'[d].man[p] = manifest[p].lines
     /\ manifest' = manifest

CacheStep(d, p) ==
  \/ pullRev'[d][p] \in {0, pullRev[d][p]}
  \/ pullRev'[d][p] = pull[d].rev[p] /\ TakenIn(d, p)

SeenStep(d) ==
  /\ \A p \in Devices : FetchStep(d, p) /\ CacheStep(d, p)
  /\ FetchInv(d)' /\ PeerInv(d)'

Others(d) ==
  \A x \in Devices \ {d} :
    pc'[x] = pc[x] /\ pull'[x] = pull[x] /\ pullRev'[x] = pullRev[x]

\* A device whose pull does not move keeps what it has.
LEMMA RestingPull ==
  ASSUME SeenInv, RowsStay, NEW d \in Devices,
         pc'[d] = pc[d], pull'[d] = pull[d], pullRev'[d] = pullRev[d]
  PROVE  SeenStep(d)
<1>1. \A p \in Devices : FetchStep(d, p) /\ CacheStep(d, p)
  BY DEF FetchStep, CacheStep
<1>2. FetchInv(d)' BY DEF SeenInv, FetchInv
<1>3. PeerInv(d)'
  <2>1. \A p \in Devices, e \in Entries : Reached(d, p, e) => Reached(d, p, e)'
    BY DEF Reached, RowsStay, Got
  <2>2. PeerInv(d) BY DEF SeenInv
  <2>3. CASE pc[d] \in {"peer", "read", "tombstones"}
    <3>1. \A e \in Entries : Present(pull[d].view[e]) => Present(row'[d][e])
      BY <2>2, <2>3 DEF PeerInv, RowsStay
    <3>2. ASSUME NEW p \in Devices, pull[d].rev[p] > 0, p \notin pull[d].work \cup pull[d].bad,
                 NEW e \in ToPull(pull[d].view, pull[d].man[p])
          PROVE  Reached(d, p, e)'
      <4>1. Reached(d, p, e) BY <2>2, <2>3, <3>2 DEF PeerInv
      <4> QED BY <2>1, <4>1 DEF ToPull
    <3> QED BY <2>2, <3>1, <3>2 DEF PeerInv
  <2>4. CASE pc[d] \notin {"peer", "read", "tombstones"}
    BY <2>2, <2>4 DEF PeerInv
  <2> QED BY <2>3, <2>4
<1> QED BY <1>1, <1>2, <1>3 DEF SeenStep

\* A device outside its pull has nothing fetched.
LEMMA OutsidePull ==
  ASSUME SeenInv, NEW d \in Devices, pc'[d] \notin {"fetch", "peer", "read", "tombstones"},
         pull'[d] = pull[d] \/ pull'[d] = NoPull, pullRev'[d] = pullRev[d]
  PROVE  SeenStep(d)
<1>1. \A p \in Devices : NoPull.rev[p] = 0 BY DEF NoPull
<1>2. NoPull.from = {} BY DEF NoPull
<1>3. \A p \in Devices : FetchStep(d, p) /\ CacheStep(d, p)
  BY <1>1 DEF FetchStep, CacheStep
<1>4. PeerInv(d)' BY <1>2 DEF SeenInv, PeerInv
<1>5. FetchInv(d)' BY DEF FetchInv
<1> QED BY <1>3, <1>4, <1>5 DEF SeenStep

LEMMA StartsPull ==
  ASSUME TypeOK, NEW d \in Devices, StartPull(d), pullRev'[d] = pullRev[d]
  PROVE  SeenStep(d) /\ \A x \in Devices \ {d} : pc'[x] = pc[x] /\ pull'[x] = pull[x]
<1>1. /\ pc'[d] = "fetch" /\ pull'[d].from = {}
      /\ \A p \in Devices : pull'[d].rev[p] = 0
  BY DEF StartPull, Goto, TypeOK, NoPull
<1>2. \A x \in Devices \ {d} : pc'[x] = pc[x] /\ pull'[x] = pull[x]
  BY DEF StartPull, Goto, TypeOK
<1>3. \A p \in Devices : FetchStep(d, p) /\ CacheStep(d, p)
  BY <1>1 DEF FetchStep, CacheStep
<1>4. FetchInv(d)' BY <1>1 DEF FetchInv
<1>5. PeerInv(d)' BY <1>1 DEF PeerInv
<1> QED BY <1>2, <1>3, <1>4, <1>5 DEF SeenStep

LEMMA FetchManifestSeen ==
  ASSUME TypeOK, SeenInv, NEW d \in Devices, NEW p \in Devices, FetchManifest(d, p)
  PROVE  SeenStep(d) /\ Others(d)
<1>0. pull[d] \in Pull BY DEF TypeOK
<1>1. /\ pc[d] = "fetch" /\ pc' = pc /\ p \in pull[d].todo /\ manifest' = manifest
  BY DEF FetchManifest, cloud
<1>2. CASE ~manifest[p].up
  <2>1. /\ pullRev' = [pullRev EXCEPT ![d][p] = 0]
        /\ pull' = [pull EXCEPT ![d].todo = @ \ {p}]
    BY <1>2 DEF FetchManifest
  <2>2. /\ pull'[d].todo = pull[d].todo \ {p} /\ pull'[d].work = pull[d].work
        /\ pull'[d].rev = pull[d].rev /\ pull'[d].man = pull[d].man
        /\ pull'[d].from = pull[d].from
    BY <1>0, <2>1 DEF TypeOK, Pull
  <2>3. \A q \in Devices : pullRev'[d][q] \in {0, pullRev[d][q]}
    BY <2>1 DEF TypeOK
  <2>4. Others(d) BY <1>1, <2>1 DEF Others, TypeOK
  <2>5. \A q \in Devices : FetchStep(d, q) /\ CacheStep(d, q)
    BY <2>2, <2>3 DEF FetchStep, CacheStep
  <2>6. FetchInv(d)' BY <1>1, <2>2 DEF FetchInv, SeenInv
  <2>7. PeerInv(d)' BY <1>1, <2>2 DEF PeerInv, SeenInv
  <2> QED BY <2>4, <2>5, <2>6, <2>7 DEF SeenStep
<1>3. CASE manifest[p].up
  <2> DEFINE changed == pullRev[d][p] # manifest[p].rev
             used    == changed \/ p \in MemoryPeers
  <2>1. /\ pullRev' = pullRev
        /\ pull' = [pull EXCEPT
             ![d].todo   = @ \ {p},
             ![d].work   = IF used THEN @ \cup {p} ELSE @,
             ![d].man[p] = IF used THEN manifest[p].lines ELSE @,
             ![d].rev[p] = IF changed THEN manifest[p].rev ELSE 0]
    BY <1>3 DEF FetchManifest
  <2>2. /\ pull'[d].todo = pull[d].todo \ {p}
        /\ pull'[d].work = IF used THEN pull[d].work \cup {p} ELSE pull[d].work
        /\ pull'[d].man = [pull[d].man EXCEPT ![p] = IF used THEN manifest[p].lines ELSE @]
        /\ pull'[d].rev = [pull[d].rev EXCEPT ![p] = IF changed THEN manifest[p].rev ELSE 0]
        /\ pull'[d].from = pull[d].from
    BY <1>0, <2>1 DEF TypeOK, Pull
  <2>3. /\ \A q \in Devices \ {p} : /\ pull'[d].rev[q] = pull[d].rev[q]
                                    /\ pull'[d].man[q] = pull[d].man[q]
        /\ pull'[d].rev[p] = 0 \/ /\ pull'[d].rev[p] = manifest[p].rev
                                  /\ pull'[d].man[p] = manifest[p].lines
                                  /\ p \in pull'[d].work
    BY <1>0, <2>2 DEF Pull
  <2>4. Others(d) BY <1>1, <2>1 DEF Others, TypeOK
  <2>5. \A q \in Devices : FetchStep(d, q) /\ CacheStep(d, q)
    BY <1>1, <2>1, <2>3 DEF FetchStep, CacheStep
  <2>6. FetchInv(d)'
    <3>1. \A q \in Devices : pull[d].rev[q] > 0 => q \in pull[d].work \ pull[d].todo
      BY <1>1 DEF SeenInv, FetchInv
    <3>2. pull'[d].todo = pull[d].todo \ {p} /\ pull[d].work \subseteq pull'[d].work
      BY <2>2
    <3>3. ASSUME NEW q \in Devices, pull'[d].rev[q] > 0
          PROVE  q \in pull'[d].work \ pull'[d].todo
      <4>1. CASE q = p BY <2>3, <3>2, <3>3, <4>1
      <4>2. CASE q # p BY <2>3, <3>1, <3>2, <3>3, <4>2
      <4> QED BY <4>1, <4>2
    <3> QED BY <3>3 DEF FetchInv
  <2>7. PeerInv(d)' BY <1>1, <2>2 DEF PeerInv, SeenInv
  <2> QED BY <2>4, <2>5, <2>6, <2>7 DEF SeenStep
<1> QED BY <1>2, <1>3

\* While a peer is taken in, what was fetched and the view stay; what is left
\* to show is where the wanted entries are.
Taking(d) == pc[d] \in {"peer", "read", "tombstones"}

Wanted(d, p) == ToPull(pull[d].view, pull[d].man[p])

LEMMA TakingStep ==
  ASSUME SeenInv, RowsStay, NEW d \in Devices, Taking(d), Taking(d)',
         pull'[d].rev = pull[d].rev, pull'[d].man = pull[d].man, pull'[d].view = pull[d].view,
         pullRev'[d] = pullRev[d], \A p, q \in pull'[d].from : p = q,
         \A p \in Devices : pull[d].rev[p] > 0 /\ p \notin pull'[d].work \cup pull'[d].bad =>
           \A e \in Wanted(d, p) : Reached(d, p, e)'
  PROVE  SeenStep(d)
<1>1. \A p \in Devices : FetchStep(d, p) /\ CacheStep(d, p)
  BY DEF FetchStep, CacheStep
<1>2. FetchInv(d)' BY DEF Taking, FetchInv
<1>3. \A e \in Entries : Present(pull'[d].view[e]) => Present(row'[d][e])
  BY DEF SeenInv, PeerInv, RowsStay, Taking
<1>4. ASSUME NEW p \in Devices, pull'[d].rev[p] > 0, p \notin pull'[d].work \cup pull'[d].bad,
             NEW e \in ToPull(pull'[d].view, pull'[d].man[p])
      PROVE  Reached(d, p, e)'
  <2>1. e \in Wanted(d, p) BY <1>4 DEF Wanted, ToPull
  <2> QED BY <1>4, <2>1
<1>5. PeerInv(d)' BY <1>3, <1>4 DEF PeerInv
<1> QED BY <1>1, <1>2, <1>5 DEF SeenStep

\* What is known of the wanted entries of a peer that is not bad.
LEMMA WantedReached ==
  ASSUME SeenInv, NEW d \in Devices, Taking(d), NEW p \in Devices, pull[d].rev[p] > 0,
         p \notin pull[d].work \cup pull[d].bad, NEW e \in Wanted(d, p)
  PROVE  Reached(d, p, e) /\ e \in Entries
BY DEF SeenInv, PeerInv, Taking, Wanted, ToPull

LEMMA FetchErrorSeen ==
  ASSUME TypeOK, SeenInv, NEW d \in Devices, NEW p \in Devices, FetchError(d, p)
  PROVE  SeenStep(d) /\ Others(d)
<1>0. pull[d] \in Pull BY DEF TypeOK
<1>1. /\ pc[d] = "fetch" /\ pc' = pc /\ pullRev' = pullRev
      /\ pull' = [pull EXCEPT ![d].todo = @ \ {p}, ![d].clean = FALSE]
  BY DEF FetchError, db
<1>2. /\ pull'[d].todo = pull[d].todo \ {p} /\ pull'[d].work = pull[d].work
      /\ pull'[d].rev = pull[d].rev /\ pull'[d].man = pull[d].man
      /\ pull'[d].from = pull[d].from
  BY <1>0, <1>1 DEF TypeOK, Pull
<1>3. Others(d) BY <1>1 DEF Others, TypeOK
<1>4. \A q \in Devices : FetchStep(d, q) /\ CacheStep(d, q)
  BY <1>1, <1>2 DEF FetchStep, CacheStep
<1>5. FetchInv(d)' BY <1>1, <1>2 DEF FetchInv, SeenInv
<1>6. PeerInv(d)' BY <1>1, <1>2 DEF PeerInv, SeenInv
<1> QED BY <1>3, <1>4, <1>5, <1>6 DEF SeenStep

LEMMA BuildViewSeen ==
  ASSUME TypeOK, SeenInv, NEW d \in Devices, BuildView(d)
  PROVE  SeenStep(d) /\ Others(d)
<1>0. pull[d] \in Pull BY DEF TypeOK
<1>1. /\ pc[d] = "fetch" /\ pc' = [pc EXCEPT ![d] = "peer"] /\ pullRev' = pullRev
      /\ pull[d].todo = {} /\ row' = row
      /\ pull' = [pull EXCEPT ![d].view = LocalView(d)]
  BY DEF BuildView, db, Goto
<1>2. /\ pull'[d].work = pull[d].work /\ pull'[d].bad = pull[d].bad
      /\ pull'[d].rev = pull[d].rev /\ pull'[d].man = pull[d].man
      /\ pull'[d].from = pull[d].from /\ pull'[d].view = LocalView(d) /\ pc'[d] = "peer"
  BY <1>0, <1>1 DEF TypeOK, Pull
<1>3. Others(d) BY <1>1 DEF Others, TypeOK
<1>4. \A q \in Devices : FetchStep(d, q) /\ CacheStep(d, q)
  BY <1>1, <1>2 DEF FetchStep, CacheStep
<1>5. FetchInv(d)' BY <1>2 DEF FetchInv
<1>6. \A e \in Entries : Present(pull'[d].view[e]) => Present(row'[d][e])
  BY <1>1, <1>2 DEF LocalView, Present
<1>7. \A p \in Devices : pull[d].rev[p] > 0 => p \in pull[d].work
  BY <1>1 DEF SeenInv, FetchInv
<1>8. PeerInv(d)' BY <1>2, <1>6, <1>7 DEF PeerInv, SeenInv
<1> QED BY <1>3, <1>4, <1>5, <1>8 DEF SeenStep

LEMMA ChannelErrorSeen ==
  ASSUME TypeOK, SeenInv, RowsStay, NEW d \in Devices, NEW p \in Devices, ChannelError(d, p)
  PROVE  SeenStep(d) /\ Others(d)
<1>0. pull[d] \in Pull BY DEF TypeOK
<1>1. /\ pc[d] = "peer" /\ pc' = pc /\ pullRev' = pullRev
      /\ pull' = [pull EXCEPT ![d].bad = @ \cup {p}, ![d].clean = FALSE]
  BY DEF ChannelError, db
<1>2. /\ pull'[d].work = pull[d].work /\ pull'[d].bad = pull[d].bad \cup {p}
      /\ pull'[d].rev = pull[d].rev /\ pull'[d].man = pull[d].man
      /\ pull'[d].from = pull[d].from /\ pull'[d].view = pull[d].view
  BY <1>0, <1>1 DEF TypeOK, Pull
<1>3. Others(d) BY <1>1 DEF Others, TypeOK
<1>4. Taking(d) /\ Taking(d)' BY <1>1 DEF Taking
<1>5. \A q, r \in pull'[d].from : q = r BY <1>2 DEF SeenInv, PeerInv
<1>6. ASSUME NEW q \in Devices, pull[d].rev[q] > 0, q \notin pull'[d].work \cup pull'[d].bad,
             NEW e \in Wanted(d, q)
      PROVE  Reached(d, q, e)'
  <2>1. Reached(d, q, e) /\ e \in Entries BY <1>2, <1>4, <1>6, WantedReached
  <2> QED BY <1>1, <2>1 DEF Reached, RowsStay
<1>7. SeenStep(d) BY <1>1, <1>2, <1>4, <1>5, <1>6, TakingStep
<1> QED BY <1>3, <1>7

LEMMA ReadErrorSeen ==
  ASSUME TypeOK, SeenInv, RowsStay, NEW d \in Devices, NEW e \in Entries, ReadError(d, e)
  PROVE  SeenStep(d) /\ Others(d)
<1>0. pull[d] \in Pull BY DEF TypeOK
<1>1. /\ pc[d] = "read" /\ pc' = pc /\ pullRev' = pullRev
      /\ pull' = [pull EXCEPT ![d].chunk = @ \ {e}, ![d].clean = FALSE,
                              ![d].bad = @ \cup pull[d].from]
  BY DEF ReadError, db
<1>2. /\ pull'[d].work = pull[d].work /\ pull'[d].bad = pull[d].bad \cup pull[d].from
      /\ pull'[d].rev = pull[d].rev /\ pull'[d].man = pull[d].man
      /\ pull'[d].from = pull[d].from /\ pull'[d].view = pull[d].view
  BY <1>0, <1>1 DEF TypeOK, Pull
<1>3. Others(d) BY <1>1 DEF Others, TypeOK
<1>4. Taking(d) /\ Taking(d)' BY <1>1 DEF Taking
<1>5. \A q, r \in pull'[d].from : q = r BY <1>2 DEF SeenInv, PeerInv
<1>6. ASSUME NEW q \in Devices, pull[d].rev[q] > 0, q \notin pull'[d].work \cup pull'[d].bad,
             NEW f \in Wanted(d, q)
      PROVE  Reached(d, q, f)'
  <2>1. Reached(d, q, f) /\ f \in Entries BY <1>2, <1>4, <1>6, WantedReached
  <2>2. q \notin pull[d].from BY <1>2, <1>6
  <2> QED BY <2>1, <2>2 DEF Reached, RowsStay
<1>7. SeenStep(d) BY <1>1, <1>2, <1>4, <1>5, <1>6, TakingStep
<1> QED BY <1>3, <1>7

LEMMA ReadBlobSeen ==
  ASSUME TypeOK, SeenInv, RowsStay, NEW d \in Devices, NEW e \in Entries, ReadBlob(d, e)
  PROVE  SeenStep(d) /\ Others(d)
<1>0. pull[d] \in Pull BY DEF TypeOK
<1>1. pc[d] = "read" /\ pc' = pc /\ pullRev' = pullRev
  BY DEF ReadBlob, db
<1>2. PICK p \in pull[d].from :
        pull' = [pull EXCEPT
          ![d].chunk  = @ \ {e},
          ![d].got[e] = blob[p][e],
          ![d].bad    = IF Present(blob[p][e]) THEN @ ELSE @ \cup {p}]
  BY DEF ReadBlob
<1>3. /\ pull'[d].work = pull[d].work /\ pull'[d].chunk = pull[d].chunk \ {e}
      /\ pull'[d].left = pull[d].left
      /\ pull'[d].got = [pull[d].got EXCEPT ![e] = blob[p][e]]
      /\ pull'[d].bad = IF Present(blob[p][e]) THEN pull[d].bad ELSE pull[d].bad \cup {p}
      /\ pull'[d].rev = pull[d].rev /\ pull'[d].man = pull[d].man
      /\ pull'[d].from = pull[d].from /\ pull'[d].view = pull[d].view
  BY <1>0, <1>2 DEF TypeOK, Pull
<1>4. Others(d) BY <1>1, <1>2 DEF Others, TypeOK
<1>5. Taking(d) /\ Taking(d)' BY <1>1 DEF Taking
<1>6. \A q, r \in pull[d].from : q = r BY DEF SeenInv, PeerInv
<1>7. ASSUME NEW q \in Devices, pull[d].rev[q] > 0, q \notin pull'[d].work \cup pull'[d].bad,
             NEW f \in Wanted(d, q)
      PROVE  Reached(d, q, f)'
  <2>1. q \notin pull[d].work \cup pull[d].bad BY <1>3, <1>7
  <2>2. Reached(d, q, f) /\ f \in Entries BY <1>5, <1>7, <2>1, WantedReached
  <2>3. CASE Present(row[d][f]) BY <2>2, <2>3 DEF Reached, RowsStay
  <2>4. CASE q \in pull[d].from /\ f \in pull[d].left \cup pull[d].chunk \cup Got(d)
    <3>1. q = p BY <1>6, <2>4
    <3>2. Present(blob[p][e]) BY <1>3, <1>7, <3>1
    <3>3. \A g \in Entries : pull'[d].got[g] = IF g = e THEN blob[p][e] ELSE pull[d].got[g]
      BY <1>0, <1>3 DEF Pull
    <3>4. f \in pull'[d].left \cup pull'[d].chunk \cup Got(d)'
      BY <1>3, <2>2, <2>4, <3>2, <3>3 DEF Got
    <3> QED BY <1>1, <1>3, <2>4, <3>4 DEF Reached
  <2> QED BY <2>2, <2>3, <2>4 DEF Reached
<1>8. SeenStep(d) BY <1>1, <1>3, <1>5, <1>6, <1>7, TakingStep
<1> QED BY <1>4, <1>8

\* A chunk is empty only when nothing is left.
LEMMA EmptyChunk ==
  ASSUME IsFiniteSet(Entries), NEW left \in SUBSET Entries, NEW lines,
         NEW c \in Chunks(lines, left), c = {}
  PROVE  left = {}
<1>1. IsFiniteSet(left) BY FS_Subset
<1>2. Cardinality(left) \in Nat /\ (Cardinality(left) = 0 <=> left = {})
  BY <1>1, FS_CardinalityType, FS_EmptySet
<1>3. Cardinality(c) = 0 BY FS_EmptySet
<1>4. Cardinality(c) = IF Cardinality(left) < ChunkSize THEN Cardinality(left) ELSE ChunkSize
  BY DEF Chunks
<1> QED BY <1>2, <1>3, <1>4, BoundsAssumption

\* The next chunk of a peer: all that was left is left or in the chunk.
LEMMA NextChunkMoves ==
  ASSUME TypeOK, IsFiniteSet(Entries), NEW d \in Devices, NEW p \in Devices, NEW w \in Pull,
         NEW left \in SUBSET Entries, NextChunk(d, p, w, left)
  PROVE  /\ pull'[d].rev = w.rev /\ pull'[d].man = w.man /\ pull'[d].view = w.view
         /\ pull'[d].work = w.work /\ pull'[d].bad = w.bad /\ pull'[d].from = {p}
         /\ left = pull'[d].left \cup pull'[d].chunk
         /\ pc'[d] \in {"read", "tombstones"} /\ (pc'[d] = "tombstones" => left = {})
         /\ \A x \in Devices \ {d} : pc'[x] = pc[x] /\ pull'[x] = pull[x]
<1>1. PICK c \in Chunks(w.man[p], left) :
        /\ pull' = [pull EXCEPT ![d] =
             [w EXCEPT !.from = {p}, !.left = left \ c, !.chunk = c,
                       !.got = [e \in Entries |-> Absent]]]
        /\ Goto(d, IF c = {} THEN "tombstones" ELSE "read")
  BY DEF NextChunk
<1>2. pull'[d] = [w EXCEPT !.from = {p}, !.left = left \ c, !.chunk = c,
                           !.got = [e \in Entries |-> Absent]]
  BY <1>1 DEF TypeOK
<1>3. /\ pull'[d].rev = w.rev /\ pull'[d].man = w.man /\ pull'[d].view = w.view
      /\ pull'[d].work = w.work /\ pull'[d].bad = w.bad /\ pull'[d].from = {p}
      /\ pull'[d].left = left \ c /\ pull'[d].chunk = c
  BY <1>2 DEF Pull
<1>4. c \subseteq left BY DEF Chunks
<1>5. c = {} => left = {} BY EmptyChunk
<1>6. pc'[d] = IF c = {} THEN "tombstones" ELSE "read" BY <1>1 DEF Goto, TypeOK
<1>7. \A x \in Devices \ {d} : pc'[x] = pc[x] /\ pull'[x] = pull[x]
  BY <1>1 DEF Goto, TypeOK
<1> QED BY <1>3, <1>4, <1>5, <1>6, <1>7

LEMMA NextPeerSeen ==
  ASSUME TypeOK, IsFiniteSet(Entries), SeenInv, RowsStay,
         NEW d \in Devices, NEW p \in Devices, NextPeer(d, p)
  PROVE  SeenStep(d) /\ Others(d)
<1>0. pull[d] \in Pull BY DEF TypeOK
<1> DEFINE w == [pull[d] EXCEPT !.work = @ \ {p}]
<1>1. /\ pc[d] = "peer" /\ pullRev' = pullRev
      /\ NextChunk(d, p, w, Wanted(d, p))
  BY DEF NextPeer, db, Wanted
<1>2. /\ w \in Pull /\ w.work = pull[d].work \ {p} /\ w.bad = pull[d].bad
      /\ w.rev = pull[d].rev /\ w.man = pull[d].man /\ w.view = pull[d].view
  BY <1>0 DEF Pull
<1>3. Wanted(d, p) \in SUBSET Entries BY DEF Wanted, ToPull
<1> HIDE DEF w
<1>4. /\ pull'[d].rev = w.rev /\ pull'[d].man = w.man /\ pull'[d].view = w.view
      /\ pull'[d].work = w.work /\ pull'[d].bad = w.bad /\ pull'[d].from = {p}
      /\ Wanted(d, p) = pull'[d].left \cup pull'[d].chunk
      /\ pc'[d] \in {"read", "tombstones"} /\ (pc'[d] = "tombstones" => Wanted(d, p) = {})
      /\ \A x \in Devices \ {d} : pc'[x] = pc[x] /\ pull'[x] = pull[x]
  BY <1>1, <1>2, <1>3, NextChunkMoves
<1>5. Others(d) BY <1>1, <1>4 DEF Others
<1>6. Taking(d) /\ Taking(d)' BY <1>1, <1>4 DEF Taking
<1>7. ASSUME NEW q \in Devices, pull[d].rev[q] > 0, q \notin pull'[d].work \cup pull'[d].bad,
             NEW e \in Wanted(d, q)
      PROVE  Reached(d, q, e)'
  <2>1. CASE q = p
    BY <1>4, <1>7, <2>1 DEF Reached
  <2>2. CASE q # p
    <3>1. Reached(d, q, e) /\ e \in Entries
      BY <1>2, <1>4, <1>6, <1>7, <2>2, WantedReached
    <3> QED BY <1>1, <3>1 DEF Reached, RowsStay
  <2> QED BY <2>1, <2>2
<1>8. SeenStep(d) BY <1>1, <1>2, <1>4, <1>6, <1>7, TakingStep
<1> QED BY <1>5, <1>8

LEMMA IngestSeen ==
  ASSUME TypeOK, IsFiniteSet(Entries), SeenInv, RowsStay,
         NEW d \in Devices, NEW failed \in SUBSET Entries, IngestChunk(d, failed)
  PROVE  SeenStep(d) /\ Others(d)
<1>0. pull[d] \in Pull BY DEF TypeOK
<1>1. PICK p \in pull[d].from :
       /\ row' = [row EXCEPT ![d] = [e \in Entries |->
            IF e \in Got(d) \ failed
            THEN Merge(d, p, row[d][e], pull[d].got[e], ledger[d][e].ver > 0)
            ELSE row[d][e]]]
       /\ NextChunk(d, p,
            IF failed = {} THEN pull[d]
            ELSE [pull[d] EXCEPT !.clean = FALSE, !.bad = @ \cup {p}],
            pull[d].left)
  BY DEF IngestChunk
<1>2. pc[d] = "read" /\ pull[d].chunk = {} /\ pullRev' = pullRev BY DEF IngestChunk
<1> DEFINE w == IF failed = {} THEN pull[d]
                ELSE [pull[d] EXCEPT !.clean = FALSE, !.bad = @ \cup {p}]
<1>3. /\ p \in Devices /\ w \in Pull /\ w.work = pull[d].work
      /\ w.bad = IF failed = {} THEN pull[d].bad ELSE pull[d].bad \cup {p}
      /\ w.rev = pull[d].rev /\ w.man = pull[d].man /\ w.view = pull[d].view
      /\ pull[d].left \in SUBSET Entries
  BY <1>0, <1>1 DEF Pull
<1>4. NextChunk(d, p, w, pull[d].left) BY <1>1
<1> HIDE DEF w
<1>5. /\ pull'[d].rev = w.rev /\ pull'[d].man = w.man /\ pull'[d].view = w.view
      /\ pull'[d].work = w.work /\ pull'[d].bad = w.bad /\ pull'[d].from = {p}
      /\ pull[d].left = pull'[d].left \cup pull'[d].chunk
      /\ pc'[d] \in {"read", "tombstones"} /\ (pc'[d] = "tombstones" => pull[d].left = {})
      /\ \A x \in Devices \ {d} : pc'[x] = pc[x] /\ pull'[x] = pull[x]
  BY <1>3, <1>4, NextChunkMoves
<1>6. Others(d) BY <1>2, <1>5 DEF Others
<1>7. Taking(d) /\ Taking(d)' BY <1>2, <1>5 DEF Taking
<1>8. \A q, r \in pull[d].from : q = r BY DEF SeenInv, PeerInv
<1>9. \A local, remote \in Row, owned \in BOOLEAN :
        Present(remote) => Present(Merge(d, p, local, remote, owned))
  BY DEF Merge, Present, Row
<1>10. ASSUME failed = {}, NEW e \in Got(d) PROVE Present(row'[d][e])
  <2>1. e \in Entries /\ Present(pull[d].got[e]) BY <1>10 DEF Got
  <2>2. row'[d][e] = Merge(d, p, row[d][e], pull[d].got[e], ledger[d][e].ver > 0)
    BY <1>1, <1>10, <2>1 DEF TypeOK
  <2>3. row[d][e] \in Row /\ pull[d].got[e] \in Row /\ (ledger[d][e].ver > 0) \in BOOLEAN
    BY <1>0, <2>1 DEF TypeOK, Pull
  <2> QED BY <1>9, <2>1, <2>2, <2>3
<1>11. ASSUME NEW q \in Devices, pull[d].rev[q] > 0, q \notin pull'[d].work \cup pull'[d].bad,
             NEW e \in Wanted(d, q)
      PROVE  Reached(d, q, e)'
  <2>1. q \notin pull[d].work \cup pull[d].bad /\ (failed # {} => q # p)
    BY <1>3, <1>5, <1>11
  <2>2. Reached(d, q, e) /\ e \in Entries BY <1>7, <1>11, <2>1, WantedReached
  <2>3. CASE Present(row[d][e]) BY <2>2, <2>3 DEF Reached, RowsStay
  <2>4. CASE q \in pull[d].from /\ e \in pull[d].left \cup Got(d)
    <3>1. q = p /\ failed = {} BY <1>8, <2>1, <2>4
    <3>2. CASE e \in Got(d) BY <1>10, <3>1, <3>2 DEF Reached
    <3>3. CASE e \in pull[d].left BY <1>5, <3>1, <3>3 DEF Reached
    <3> QED BY <2>4, <3>2, <3>3
  <2> QED BY <1>2, <2>2, <2>3, <2>4 DEF Reached
<1>12. SeenStep(d) BY <1>2, <1>3, <1>5, <1>7, <1>11, TakingStep
<1> QED BY <1>6, <1>12

LEMMA DropPeerSeen ==
  ASSUME TypeOK, SeenInv, RowsStay, NEW d \in Devices, Taking(d), DropPeer(d),
         pullRev' = pullRev
  PROVE  SeenStep(d) /\ Others(d)
<1>0. pull[d] \in Pull BY DEF TypeOK
<1>1. pc' = [pc EXCEPT ![d] = "peer"] BY DEF DropPeer, Goto
<1>2. /\ pull'[d].work = pull[d].work /\ pull'[d].bad = pull[d].bad \cup pull[d].from
      /\ pull'[d].rev = pull[d].rev /\ pull'[d].man = pull[d].man
      /\ pull'[d].from = {} /\ pull'[d].view = pull[d].view
      /\ \A x \in Devices \ {d} : pull'[x] = pull[x]
  BY <1>0 DEF DropPeer, TypeOK, Pull
<1>3. Others(d) BY <1>1, <1>2 DEF Others, TypeOK
<1>4. Taking(d)' BY <1>1 DEF Taking, TypeOK
<1>5. ASSUME NEW q \in Devices, pull[d].rev[q] > 0, q \notin pull'[d].work \cup pull'[d].bad,
             NEW e \in Wanted(d, q)
      PROVE  Reached(d, q, e)'
  <2>1. Reached(d, q, e) /\ e \in Entries BY <1>2, <1>5, WantedReached
  <2>2. q \notin pull[d].from BY <1>2, <1>5
  <2> QED BY <2>1, <2>2 DEF Reached, RowsStay
<1>6. SeenStep(d) BY <1>2, <1>4, <1>5, TakingStep
<1> QED BY <1>3, <1>6

LEMMA TombstonesSeen ==
  ASSUME TypeOK, SeenInv, RowsStay, NEW d \in Devices, ApplyTombstones(d)
  PROVE  SeenStep(d) /\ Others(d)
<1>0. pull[d] \in Pull BY DEF TypeOK
<1>1. /\ pc[d] = "tombstones" /\ pc' = [pc EXCEPT ![d] = "peer"] /\ pullRev' = pullRev
      /\ pull' = [pull EXCEPT ![d].from = {}]
  BY DEF ApplyTombstones, Goto
<1>2. /\ pull'[d].work = pull[d].work /\ pull'[d].bad = pull[d].bad
      /\ pull'[d].rev = pull[d].rev /\ pull'[d].man = pull[d].man
      /\ pull'[d].from = {} /\ pull'[d].view = pull[d].view
  BY <1>0, <1>1 DEF TypeOK, Pull
<1>3. Others(d) BY <1>1 DEF Others, TypeOK
<1>4. Taking(d) /\ Taking(d)' BY <1>1 DEF Taking, TypeOK
<1>5. ASSUME NEW q \in Devices, pull[d].rev[q] > 0, q \notin pull'[d].work \cup pull'[d].bad,
             NEW e \in Wanted(d, q)
      PROVE  Reached(d, q, e)'
  <2>1. Reached(d, q, e) /\ e \in Entries BY <1>2, <1>4, <1>5, WantedReached
  <2> QED BY <1>1, <2>1 DEF Reached, RowsStay
<1>6. SeenStep(d) BY <1>1, <1>2, <1>4, <1>5, TakingStep
<1> QED BY <1>3, <1>6

LEMMA FinishPullSeen ==
  ASSUME TypeOK, SeenInv, NEW d \in Devices, FinishPull(d)
  PROVE  SeenStep(d) /\ Others(d)
<1>1. /\ pc[d] = "peer" /\ pull[d].work = {}
      /\ pullRev' = [pullRev EXCEPT ![d] = [p \in Devices |->
           Cached(pullRev[d][p], pull[d].rev[p], p \notin pull[d].bad)]]
      /\ pc' = [pc EXCEPT ![d] = IF pull[d].clean THEN "sweep" ELSE "idle"]
      /\ pull' = [pull EXCEPT ![d] = NoPull]
  BY DEF FinishPull, Goto
<1>2. /\ pc'[d] \in {"sweep", "idle"} /\ pull'[d].from = {}
      /\ \A p \in Devices : pull'[d].rev[p] = 0
  BY <1>1 DEF TypeOK, NoPull
<1>3. Others(d) BY <1>1 DEF Others, TypeOK
<1>4. ASSUME NEW p \in Devices PROVE CacheStep(d, p)
  <2>1. pullRev'[d][p] = Cached(pullRev[d][p], pull[d].rev[p], p \notin pull[d].bad)
    BY <1>1 DEF TypeOK
  <2>2. CASE pull[d].rev[p] = 0 \/ p \in pull[d].bad
    BY <2>1, <2>2 DEF Cached, CacheStep
  <2>3. CASE pull[d].rev[p] # 0 /\ p \notin pull[d].bad
    <3>1. pullRev'[d][p] = pull[d].rev[p] BY <2>1, <2>3 DEF Cached
    <3>2. pull[d].rev[p] > 0 BY <2>3 DEF TypeOK, Pull
    <3>3. Taking(d) BY <1>1 DEF Taking
    <3>4. \A e \in Wanted(d, p) : Present(row[d][e])
      <4> SUFFICES ASSUME NEW e \in Wanted(d, p) PROVE Present(row[d][e]) OBVIOUS
      <4>1. Reached(d, p, e) BY <1>1, <2>3, <3>2, <3>3, WantedReached
      <4> QED BY <1>1, <4>1 DEF Reached
    <3>5. \A e \in Entries : Present(pull[d].view[e]) => Present(row[d][e])
      BY <3>3 DEF SeenInv, PeerInv, Taking
    <3>6. TakenIn(d, p)
      BY <3>4, <3>5 DEF TakenIn, Wanted, ToPull, Present
    <3> QED BY <3>1, <3>6 DEF CacheStep
  <2> QED BY <2>2, <2>3
<1>5. \A p \in Devices : FetchStep(d, p) BY <1>2 DEF FetchStep
<1>6. FetchInv(d)' /\ PeerInv(d)' BY <1>2 DEF FetchInv, PeerInv
<1> QED BY <1>3, <1>4, <1>5, <1>6 DEF SeenStep

LEMMA PullStepSeen ==
  ASSUME TypeOK, IsFiniteSet(Entries), SeenInv, RowsStay, NEW d \in Devices, PullStep(d)
  PROVE  SeenStep(d) /\ Others(d)
<1>1. CASE Ingest(d) BY <1>1, IngestSeen DEF Ingest
<1>2. CASE Sweep(d)
  <2>1. pc' = [pc EXCEPT ![d] = "idle"] /\ pull' = pull /\ pullRev' = pullRev
    BY <1>2 DEF Sweep, Goto
  <2>2. Others(d) BY <2>1 DEF Others, TypeOK
  <2>3. pc'[d] = "idle" BY <2>1 DEF TypeOK
  <2> QED BY <2>1, <2>2, <2>3, OutsidePull
<1> QED BY <1>1, <1>2, FetchManifestSeen, NextPeerSeen, ReadBlobSeen, BuildViewSeen,
           TombstonesSeen, FinishPullSeen DEF PullStep

LEMMA SyncFaultSeen ==
  ASSUME TypeOK, IsFiniteSet(Entries), SeenInv, RowsStay, NEW d \in Devices, SyncFault(d)
  PROVE  SeenStep(d) /\ Others(d)
<1> USE DEF db
<1>1. CASE ReconcileFail(d) \/ WriteManifestFail(d)
  <2>1. StartPull(d) /\ pullRev' = pullRev
    BY <1>1 DEF ReconcileFail, WriteManifestFail
  <2> QED BY <2>1, StartsPull DEF Others
<1>2. CASE PruneFail(d) \/ UploadFail(d)
  <2>1. /\ pull' = pull /\ pullRev' = pullRev
        /\ \E s \in {"list", "idle", "push"} : pc' = [pc EXCEPT ![d] = s]
    BY <1>2 DEF PruneFail, UploadFail, EndOfEntry, Goto
  <2>2. Others(d) BY <2>1 DEF Others, TypeOK
  <2>3. pc'[d] \in {"list", "idle", "push"} BY <2>1 DEF TypeOK
  <2> QED BY <2>1, <2>2, <2>3, OutsidePull
<1>3. CASE IngestError(d)
  <2>1. PICK failed \in SUBSET Got(d) : IngestChunk(d, failed) BY <1>3 DEF IngestError
  <2>2. failed \in SUBSET Entries BY DEF Got
  <2> QED BY <2>1, <2>2, IngestSeen
<1>4. CASE IngestFatal(d) \/ TombstonesFail(d)
  <2>1. DropPeer(d) /\ pullRev' = pullRev /\ Taking(d)
    BY <1>4 DEF IngestFatal, TombstonesFail, Taking
  <2> QED BY <2>1, DropPeerSeen
<1>5. CASE Interrupt(d)
  <2>1. /\ pc' = [pc EXCEPT ![d] = "idle"] /\ pull' = [pull EXCEPT ![d] = NoPull]
        /\ pullRev' = pullRev
    BY <1>5 DEF Interrupt, Goto
  <2>2. Others(d) BY <2>1 DEF Others, TypeOK
  <2>3. pc'[d] = "idle" /\ pull'[d] = NoPull BY <2>1 DEF TypeOK
  <2> QED BY <2>1, <2>2, <2>3, OutsidePull
<1> QED BY <1>1, <1>2, <1>3, <1>4, <1>5, FetchErrorSeen, ChannelErrorSeen, ReadErrorSeen
        DEF SyncFault

LEMMA PushStepSeen ==
  ASSUME TypeOK, SeenInv, NEW d \in Devices,
         StartSync(d) \/ PushStep(d) \/ \E e \in Entries : PushEntry(d, e)
  PROVE  SeenStep(d) /\ Others(d)
<1> USE DEF db
<1>1. CASE StartPull(d) /\ pullRev' = pullRev
  BY <1>1, StartsPull DEF Others
<1>2. CASE /\ pull' = pull /\ pullRev' = pullRev
           /\ \E s \in {"reconcile", "list", "requeue", "prune", "push", "upload", "stamp",
                        "idle", "manifest"} : pc' = [pc EXCEPT ![d] = s]
  <2>1. Others(d) BY <1>2 DEF Others, TypeOK
  <2>2. pc'[d] \in {"reconcile", "list", "requeue", "prune", "push", "upload", "stamp",
                    "idle", "manifest"}
    BY <1>2 DEF TypeOK
  <2> QED BY <1>2, <2>1, <2>2, OutsidePull
<1>3. CASE BuildManifest(d) \/ WriteManifest(d)
  <2>1. pullRev' = pullRev BY <1>3 DEF BuildManifest, WriteManifest
  <2>2. \/ StartPull(d)
        \/ pull' = pull /\ pc' = [pc EXCEPT ![d] = "manifest"]
    BY <1>3 DEF BuildManifest, WriteManifest, Goto
  <2> QED BY <1>1, <1>2, <2>1, <2>2
<1>4. CASE StartSync(d)
  BY <1>2, <1>4 DEF StartSync, Goto
<1>5. CASE ListOwnFolder(d) \/ RequeueMissing(d) \/ MarkReconciled(d) \/ ListPending(d)
  BY <1>2, <1>5 DEF ListOwnFolder, RequeueMissing, MarkReconciled, ListPending, Goto
<1>6. CASE Snapshot(d) \/ \E e \in Entries : PushEntry(d, e)
  BY <1>2, <1>6 DEF Snapshot, PushEntry, TakeSnapshot, Goto
<1>7. CASE Upload(d) \/ Stamp(d)
  BY <1>2, <1>7 DEF Upload, Stamp, EndOfEntry, Goto
<1> QED BY <1>3, <1>4, <1>5, <1>6, <1>7 DEF PushStep

LEMMA NextSeen ==
  ASSUME TypeOK, IsFiniteSet(Entries), SeenInv, RowsStay, Next
  PROVE  \A x \in Devices : SeenStep(x)
<1>1. ASSUME UNCHANGED <<pc, pull, pullRev>> PROVE \A x \in Devices : SeenStep(x)
  BY <1>1, RestingPull
<1>2. ASSUME NEW d \in Devices, SeenStep(d) /\ Others(d)
      PROVE  \A x \in Devices : SeenStep(x)
  <2> SUFFICES ASSUME NEW x \in Devices \ {d} PROVE SeenStep(x) BY <1>2
  <2> QED BY <1>2, RestingPull DEF Others
<1>3. ASSUME NEW d \in Editors, UserWrite(d) PROVE UNCHANGED <<pc, pull, pullRev>>
  BY <1>3 DEF UserWrite, Create, EditBody, EditFields, Trash, Restore, Purge
<1>4. ASSUME NEW d \in Devices, ExternalLoss(d) PROVE UNCHANGED <<pc, pull, pullRev>>
  BY <1>4 DEF ExternalLoss, LoseManifest, LoseBlob, db
<1> QED BY <1>1, <1>2, <1>3, <1>4, PullStepSeen, PushStepSeen, SyncFaultSeen DEF Next

\* A manifest is replaced by one of a later revision, or lost.
ManifestStep(p) ==
  \/ manifest'[p] = manifest[p]
  \/ manifest'[p].rev > manifest[p].rev
  \/ /\ manifest'[p].rev = manifest[p].rev /\ manifest'[p].lines = manifest[p].lines
     /\ ~manifest'[p].up

LEMMA NextManifest ==
  ASSUME TypeOK, Next
  PROVE  \A p \in Devices : ManifestStep(p)
<1> USE DEF db, cloud
<1>1. ASSUME NEW d \in Devices, UploadManifest(d) PROVE \A p \in Devices : ManifestStep(p)
  <2>1. manifest[d].rev \in Nat BY DEF TypeOK
  <2>2. manifest'[d].rev = manifest[d].rev + 1 BY <1>1 DEF UploadManifest, TypeOK
  <2>3. \A p \in Devices \ {d} : manifest'[p] = manifest[p]
    BY <1>1 DEF UploadManifest, TypeOK
  <2> QED BY <2>1, <2>2, <2>3 DEF ManifestStep
<1>2. ASSUME NEW d \in Devices, LoseManifest(d) PROVE \A p \in Devices : ManifestStep(p)
  <2>1. manifest' = [manifest EXCEPT ![d].up = FALSE] BY <1>2 DEF LoseManifest
  <2>2. \A p \in Devices \ {d} : manifest'[p] = manifest[p] BY <2>1 DEF TypeOK
  <2>3. manifest'[d] = [manifest[d] EXCEPT !.up = FALSE] BY <2>1 DEF TypeOK
  <2>4. manifest[d] \in [rev : Nat, up : BOOLEAN, lines : Lines] BY DEF TypeOK
  <2>5. /\ manifest'[d].rev = manifest[d].rev /\ manifest'[d].lines = manifest[d].lines
        /\ ~manifest'[d].up
    BY <2>3, <2>4
  <2> QED BY <2>2, <2>5 DEF ManifestStep
<1>3. ASSUME manifest' = manifest PROVE \A p \in Devices : ManifestStep(p)
  BY <1>3 DEF ManifestStep
<1>4. ASSUME NEW d \in Editors, UserWrite(d) PROVE manifest' = manifest
  BY <1>4 DEF UserWrite, Create, EditBody, EditFields, Trash, Restore, Purge
<1>5. ASSUME NEW d \in Devices, PullStep(d) PROVE manifest' = manifest
  BY <1>5 DEF PullStep, FetchManifest, NextPeer, ReadBlob, BuildView, Ingest, IngestChunk,
     ApplyTombstones, FinishPull, Sweep
<1>6. ASSUME NEW d \in Devices,
             StartSync(d) \/ PushStep(d) \/ \E e \in Entries : PushEntry(d, e)
      PROVE  manifest' = manifest \/ UploadManifest(d)
  BY <1>6 DEF StartSync, PushStep, PushEntry, TakeSnapshot, ListOwnFolder,
     RequeueMissing, MarkReconciled, ListPending, Snapshot, Upload, Stamp, BuildManifest, WriteManifest
<1>7. ASSUME NEW d \in Devices, SyncFault(d) PROVE manifest' = manifest \/ UploadManifest(d)
  BY <1>7 DEF SyncFault, ReconcileFail, PruneFail, UploadFail, WriteManifestFail, FetchError,
     ChannelError, ReadError, IngestError, IngestChunk, IngestFatal, TombstonesFail, Interrupt
<1>8. ASSUME NEW d \in Devices, ExternalLoss(d) PROVE manifest' = manifest \/ LoseManifest(d)
  BY <1>8 DEF ExternalLoss, LoseBlob
<1> QED BY <1>1, <1>2, <1>3, <1>4, <1>5, <1>6, <1>7, <1>8 DEF Next

LEMMA SeenInvStep ==
  ASSUME IsFiniteSet(Entries)
  PROVE  TypeOK /\ AbsentRows /\ SeenInv /\ [Next]_vars => SeenInv'
<1> SUFFICES ASSUME TypeOK, AbsentRows, SeenInv, [Next]_vars PROVE SeenInv' OBVIOUS
<1>1. CASE UNCHANGED vars
  BY <1>1 DEF vars, SeenInv, RevInv, CachedMeansSeen, FetchInv, PeerInv, Reached, Got
<1>2. CASE Next
  <2>1. RowsStay
    <3>1. [MovesForward]_row BY AbsentStep
    <3> QED BY <3>1 DEF MovesForward, RowsStay
  <2>2. \A d \in Devices : SeenStep(d) BY <1>2, <2>1, NextSeen
  <2>3. \A p \in Devices : ManifestStep(p) BY <1>2, NextManifest
  <2>4. TypeOK' BY <1>2, NextType
  <2>5. ASSUME NEW d \in Devices, NEW p \in Devices
        PROVE  /\ manifest[p].rev \in Nat /\ manifest'[p].rev \in Nat
               /\ pullRev[d][p] \in Nat /\ pull[d].rev[p] \in Nat
    BY <2>4 DEF TypeOK, Pull
  <2>6. RevInv BY DEF SeenInv
  <2>7. ASSUME NEW d \in Devices, NEW p \in Devices
        PROVE  /\ manifest'[p].rev > 0 /\ pullRev'[d][p] <= manifest'[p].rev
               /\ pull'[d].rev[p] <= manifest'[p].rev
               /\ pull'[d].rev[p] = manifest'[p].rev => pull'[d].man[p] = manifest'[p].lines
    <3>1. /\ manifest[p].rev > 0 /\ pullRev[d][p] <= manifest[p].rev
          /\ pull[d].rev[p] <= manifest[p].rev
          /\ pull[d].rev[p] = manifest[p].rev => pull[d].man[p] = manifest[p].lines
      BY <2>6 DEF RevInv
    <3>2. CacheStep(d, p) /\ FetchStep(d, p) BY <2>2 DEF SeenStep
    <3>3. /\ manifest'[p].rev >= manifest[p].rev
          /\ manifest'[p].rev = manifest[p].rev => manifest'[p].lines = manifest[p].lines
      BY <2>3, <2>5 DEF ManifestStep
    <3>4. pullRev'[d][p] <= manifest'[p].rev
      BY <2>5, <3>1, <3>2, <3>3 DEF CacheStep
    <3>5. /\ pull'[d].rev[p] <= manifest'[p].rev
          /\ pull'[d].rev[p] = manifest'[p].rev => pull'[d].man[p] = manifest'[p].lines
      BY <2>5, <3>1, <3>2, <3>3 DEF FetchStep
    <3> QED BY <2>5, <3>1, <3>3, <3>4, <3>5
  <2>8. ASSUME NEW d \in Devices, NEW p \in Devices, NEW e \in Entries,
               manifest'[p].up, pullRev'[d][p] = manifest'[p].rev,
               manifest'[p].lines[e].ver > 0, manifest'[p].lines[e].st # "purged"
        PROVE  Present(row'[d][e])
    <3>1. /\ manifest[p].rev > 0 /\ pullRev[d][p] <= manifest[p].rev
          /\ pull[d].rev[p] <= manifest[p].rev
          /\ pull[d].rev[p] = manifest[p].rev => pull[d].man[p] = manifest[p].lines
      BY <2>6 DEF RevInv
    <3>2. CacheStep(d, p) BY <2>2 DEF SeenStep
    <3>3. pullRev'[d][p] <= manifest[p].rev
      BY <2>5, <3>1, <3>2 DEF CacheStep
    <3>4. manifest'[p] = manifest[p]
      BY <2>3, <2>5, <2>8, <3>3 DEF ManifestStep
    <3>5. CASE pullRev'[d][p] = pullRev[d][p]
      BY <2>1, <2>8, <3>4, <3>5 DEF SeenInv, CachedMeansSeen, RowsStay
    <3>6. CASE pullRev'[d][p] = pull[d].rev[p] /\ TakenIn(d, p)
      <4>1. pull[d].man[p] = manifest[p].lines BY <2>8, <3>1, <3>4, <3>6
      <4> QED BY <2>1, <2>8, <3>4, <3>6, <4>1 DEF TakenIn, RowsStay
    <3>7. pullRev'[d][p] # 0 BY <2>5, <2>8, <3>1, <3>4
    <3> QED BY <3>2, <3>5, <3>6, <3>7 DEF CacheStep
  <2>9. RevInv' BY <2>7 DEF RevInv
  <2>10. CachedMeansSeen' BY <2>8 DEF CachedMeansSeen
  <2> QED BY <2>2, <2>9, <2>10 DEF SeenInv, SeenStep
<1> QED BY <1>1, <1>2

\* When the revision of a peer's current manifest is cached, every live or
\* trashed entry it lists is present: no failed read, lost blob or restart lets
\* commit_manifest_rev skip one.
THEOREM CachedAlwaysSeen ==
  ASSUME IsFiniteSet(Entries)
  PROVE  Spec => []CachedMeansSeen
<1>1. Init => TypeOK /\ AbsentRows /\ SeenInv
  <2> SUFFICES ASSUME Init PROVE AbsentRows /\ SeenInv BY InitType
  <2>1. AbsentRows BY DEF Init, AbsentRows, Present, Original
  <2>2. ASSUME NEW d \in Devices
        PROVE  /\ manifest[d].rev = 1 /\ pc[d] = "idle" /\ pull[d] = NoPull
               /\ manifest[d].lines = Summary(d)
               /\ \A p \in Devices : pullRev[d][p] \in {0, 1}
    BY DEF Init
  <2>3. NoPull.from = {} /\ \A p \in Devices : NoPull.rev[p] = 0 BY DEF NoPull
  <2>4. RevInv BY <2>2, <2>3 DEF RevInv
  <2>5. \A d \in Devices : FetchInv(d) /\ PeerInv(d)
    BY <2>2, <2>3 DEF FetchInv, PeerInv
  <2>6. \A d, p \in Devices, e \in Entries :
          manifest[p].lines[e].ver > 0 => Present(row[d][e])
    <3> SUFFICES ASSUME NEW d \in Devices, NEW p \in Devices, NEW e \in Entries,
                        manifest[p].lines[e].ver > 0
                 PROVE  Present(row[d][e])
      OBVIOUS
    <3>0. Summary(p)[e].ver > 0 BY <2>2
    <3>1. ledger[p][e].ver # 0 BY <3>0 DEF Summary, Unlisted
    <3>2. e \in Shared BY <3>1 DEF Init, NoLedger
    <3>3. row[d][e] = Original BY <3>2 DEF Init
    <3>4. Present(Original) BY DEF Present, Original
    <3> QED BY <3>3, <3>4
  <2>7. CachedMeansSeen BY <2>6 DEF CachedMeansSeen
  <2> QED BY <2>1, <2>4, <2>5, <2>7 DEF SeenInv
<1>2. TypeOK /\ AbsentRows /\ SeenInv /\ [Next]_vars => (TypeOK /\ AbsentRows /\ SeenInv)'
  BY NextType, AbsentStep, SeenInvStep
<1>3. SeenInv => CachedMeansSeen BY DEF SeenInv
<1> QED BY <1>1, <1>2, <1>3, PTL DEF Spec

-----------------------------------------------------------------------------
(* Settled devices agree                                                    *)

\* Some device that publishes e holds it at stamp t or later.
Authored(e, t) ==
  \E w \in Devices : ledger[w][e].ver > 0 /\ Present(row[w][e]) /\ row[w][e].ts >= t

PurgeWritten(e, t) == \E a \in written[e] : a.st = "purged" /\ a.ts = t

Backed(e, st, t) == Authored(e, t) /\ (st = "purged" => PurgeWritten(e, t))

BackedCopy(e, r) == Present(r) => Backed(e, r.st, r.ts)
BackedLine(e, l) == l.ver > 0 /\ l.st = "purged" => Backed(e, l.st, l.ts)

\* Nothing on its way between devices is newer than what its author holds, and
\* every tombstone is a purge some user or sweep wrote.
CopiesInv ==
  \A d \in Devices, e \in Entries :
    /\ BackedCopy(e, row[d][e]) /\ BackedCopy(e, blob[d][e])
    /\ BackedCopy(e, pull[d].got[e])
    /\ pc[d] = "upload" /\ e \in push[d].now => BackedCopy(e, push[d].snap)

LinesInv ==
  \A d \in Devices, e \in Entries :
    /\ BackedLine(e, manifest[d].lines[e]) /\ BackedLine(e, push[d].draft[e])
    /\ \A p \in Devices : BackedLine(e, pull[d].man[p][e])

AgreeInv == CopiesInv /\ LinesInv

\* Where the lines of a device come from.
LinesStep(d) ==
  /\ manifest'[d].lines \in {manifest[d].lines, push[d].draft}
  /\ push'[d].draft \in {push[d].draft, Summary(d), NoLines}
  /\ \A p \in Devices :
       pull'[d].man[p] \in {pull[d].man[p], manifest[p].lines, NoLines}

LEMMA SameLines ==
  ASSUME NEW d \in Devices, manifest'[d] = manifest[d], push'[d] = push[d], pull'[d] = pull[d]
  PROVE  LinesStep(d)
BY DEF LinesStep

\* A step of one device that leaves its manifest and its push alone.
LEMMA PulledLines ==
  ASSUME NEW d \in Devices, manifest' = manifest, push' = push,
         \A x \in Devices \ {d} : pull'[x] = pull[x],
         \A p \in Devices : pull'[d].man[p] \in {pull[d].man[p], manifest[p].lines, NoLines}
  PROVE  \A x \in Devices : LinesStep(x)
BY DEF LinesStep

LEMMA NextChunkLines ==
  ASSUME TypeOK, NEW d \in Devices, NEW p \in Devices, NEW w \in Pull, NEW left,
         NextChunk(d, p, w, left)
  PROVE  pull'[d].man = w.man /\ \A x \in Devices \ {d} : pull'[x] = pull[x]
<1>1. PICK c \in Chunks(w.man[p], left) :
        pull' = [pull EXCEPT ![d] =
             [w EXCEPT !.from = {p}, !.left = left \ c, !.chunk = c,
                       !.got = [e \in Entries |-> Absent]]]
  BY DEF NextChunk
<1> QED BY <1>1 DEF TypeOK, Pull

LEMMA DropPeerLines ==
  ASSUME TypeOK, NEW d \in Devices, DropPeer(d)
  PROVE  pull'[d].man = pull[d].man /\ \A x \in Devices \ {d} : pull'[x] = pull[x]
<1>1. pull[d] \in Pull BY DEF TypeOK
<1> QED BY <1>1 DEF DropPeer, TypeOK, Pull

LEMMA IngestLines ==
  ASSUME TypeOK, NEW d \in Devices, NEW failed, IngestChunk(d, failed)
  PROVE  \A x \in Devices : LinesStep(x)
<1>0. pull[d] \in Pull BY DEF TypeOK
<1>1. PICK p \in pull[d].from :
        NextChunk(d, p,
            IF failed = {} THEN pull[d]
            ELSE [pull[d] EXCEPT !.clean = FALSE, !.bad = @ \cup {p}],
            pull[d].left)
  BY DEF IngestChunk
<1> DEFINE w == IF failed = {} THEN pull[d]
                ELSE [pull[d] EXCEPT !.clean = FALSE, !.bad = @ \cup {p}]
<1>2. p \in Devices /\ w \in Pull /\ w.man = pull[d].man BY <1>0, <1>1 DEF Pull
<1>3. NextChunk(d, p, w, pull[d].left) BY <1>1
<1> HIDE DEF w
<1>4. pull'[d].man = pull[d].man /\ \A x \in Devices \ {d} : pull'[x] = pull[x]
  BY <1>2, <1>3, NextChunkLines
<1>5. manifest' = manifest /\ push' = push BY DEF IngestChunk, cloud
<1> QED BY <1>4, <1>5, PulledLines

LEMMA PullStepLines ==
  ASSUME TypeOK, NEW d \in Devices, PullStep(d)
  PROVE  \A x \in Devices : LinesStep(x)
<1>0. pull[d] \in Pull BY DEF TypeOK
<1>1. CASE Ingest(d) BY <1>1, IngestLines DEF Ingest
<1>2. ASSUME NEW p \in Devices, FetchManifest(d, p)
      PROVE  \A x \in Devices : LinesStep(x)
  <2>1. manifest' = manifest /\ push' = push BY <1>2 DEF FetchManifest, cloud
  <2>2. CASE ~manifest[p].up
    <3>1. pull' = [pull EXCEPT ![d].todo = @ \ {p}] BY <1>2, <2>2 DEF FetchManifest
    <3>2. pull'[d].man = pull[d].man /\ \A x \in Devices \ {d} : pull'[x] = pull[x]
      BY <1>0, <3>1 DEF TypeOK, Pull
    <3> QED BY <2>1, <3>2, PulledLines
  <2>3. CASE manifest[p].up
    <3> DEFINE changed == pullRev[d][p] # manifest[p].rev
               used    == changed \/ p \in MemoryPeers
    <3>1. pull' = [pull EXCEPT
             ![d].todo   = @ \ {p},
             ![d].work   = IF used THEN @ \cup {p} ELSE @,
             ![d].man[p] = IF used THEN manifest[p].lines ELSE @,
             ![d].rev[p] = IF changed THEN manifest[p].rev ELSE 0]
      BY <1>2, <2>3 DEF FetchManifest
    <3>2. /\ pull'[d].man = [pull[d].man EXCEPT ![p] = IF used THEN manifest[p].lines ELSE @]
          /\ \A x \in Devices \ {d} : pull'[x] = pull[x]
      BY <1>0, <3>1 DEF TypeOK, Pull
    <3> HIDE DEF used
    <3>3. \A q \in Devices : pull'[d].man[q] \in {pull[d].man[q], manifest[q].lines, NoLines}
      BY <1>0, <3>2 DEF Pull
    <3>4. \A x \in Devices \ {d} : pull'[x] = pull[x] BY <3>2
    <3> QED BY <2>1, <3>3, <3>4, PulledLines
  <2> QED BY <2>2, <2>3
<1>3. ASSUME NEW p \in Devices, NextPeer(d, p)
      PROVE  \A x \in Devices : LinesStep(x)
  <2> DEFINE w == [pull[d] EXCEPT !.work = @ \ {p}]
  <2>1. NextChunk(d, p, w, ToPull(pull[d].view, pull[d].man[p])) BY <1>3 DEF NextPeer
  <2>2. w \in Pull /\ w.man = pull[d].man BY <1>0 DEF Pull
  <2> HIDE DEF w
  <2>3. pull'[d].man = pull[d].man /\ \A x \in Devices \ {d} : pull'[x] = pull[x]
    BY <2>1, <2>2, NextChunkLines
  <2>4. manifest' = manifest /\ push' = push BY <1>3 DEF NextPeer, cloud
  <2> QED BY <2>3, <2>4, PulledLines
<1>4. ASSUME NEW e \in Entries, ReadBlob(d, e)
      PROVE  \A x \in Devices : LinesStep(x)
  <2>1. PICK p \in pull[d].from :
          pull' = [pull EXCEPT
            ![d].chunk  = @ \ {e},
            ![d].got[e] = blob[p][e],
            ![d].bad    = IF Present(blob[p][e]) THEN @ ELSE @ \cup {p}]
    BY <1>4 DEF ReadBlob
  <2>2. pull'[d].man = pull[d].man /\ \A x \in Devices \ {d} : pull'[x] = pull[x]
    BY <1>0, <2>1 DEF TypeOK, Pull
  <2>3. manifest' = manifest /\ push' = push BY <1>4 DEF ReadBlob, cloud
  <2> QED BY <2>2, <2>3, PulledLines
<1>5. CASE BuildView(d) \/ ApplyTombstones(d)
  <2>1. pull'[d].man = pull[d].man /\ \A x \in Devices \ {d} : pull'[x] = pull[x]
    BY <1>0, <1>5 DEF BuildView, ApplyTombstones, TypeOK, Pull
  <2>2. manifest' = manifest /\ push' = push BY <1>5 DEF BuildView, ApplyTombstones, cloud
  <2> QED BY <2>1, <2>2, PulledLines
<1>6. CASE FinishPull(d) \/ Sweep(d)
  <2>1. \/ pull' = pull
        \/ pull' = [pull EXCEPT ![d] = NoPull]
    BY <1>6 DEF FinishPull, Sweep
  <2>2. /\ \A p \in Devices : pull'[d].man[p] \in {pull[d].man[p], NoLines}
        /\ \A x \in Devices \ {d} : pull'[x] = pull[x]
    BY <2>1 DEF TypeOK, NoPull
  <2>3. manifest' = manifest /\ push' = push BY <1>6 DEF FinishPull, Sweep, cloud
  <2> QED BY <2>2, <2>3, PulledLines
<1> QED BY <1>1, <1>2, <1>3, <1>4, <1>5, <1>6 DEF PullStep

\* The push half: what ends an entry, and what starts the pull.
LEMMA PushedLines ==
  ASSUME TypeOK, NEW d \in Devices, pull' = pull, manifest' = manifest,
         push' = push \/ EndOfEntry(d)
  PROVE  \A x \in Devices : LinesStep(x)
<1>1. CASE EndOfEntry(d)
  <2>1. push' = [push EXCEPT ![d] = [NoPush EXCEPT !.queue = push[d].queue]]
    BY <1>1 DEF EndOfEntry
  <2>2. push'[d].draft = NoLines /\ \A x \in Devices \ {d} : push'[x] = push[x]
    BY <2>1 DEF TypeOK, NoPush
  <2> QED BY <2>2 DEF LinesStep
<1>2. CASE push' = push BY <1>2, SameLines
<1> QED BY <1>1, <1>2

LEMMA StartPullLines ==
  ASSUME TypeOK, NEW d \in Devices, StartPull(d), manifest' = manifest \/ UploadManifest(d)
  PROVE  \A x \in Devices : LinesStep(x)
<1>1. /\ push'[d].draft = NoLines
      /\ \A p \in Devices : pull'[d].man[p] = NoLines
      /\ \A x \in Devices \ {d} : push'[x] = push[x] /\ pull'[x] = pull[x]
  BY DEF StartPull, TypeOK, NoPush, NoPull
<1>2. /\ manifest'[d].lines \in {manifest[d].lines, push[d].draft}
      /\ \A x \in Devices \ {d} : manifest'[x] = manifest[x]
  BY DEF UploadManifest, TypeOK
<1> QED BY <1>1, <1>2 DEF LinesStep

LEMMA PushStepLines ==
  ASSUME TypeOK, NEW d \in Devices,
         StartSync(d) \/ PushStep(d) \/ \E e \in Entries : PushEntry(d, e)
  PROVE  \A x \in Devices : LinesStep(x)
<1> USE DEF db, cloud
<1>0. push[d] \in Push BY DEF TypeOK
<1>1. ASSUME push'[d].draft \in {push[d].draft, Summary(d), NoLines},
             \A x \in Devices \ {d} : push'[x] = push[x], pull' = pull, manifest' = manifest
      PROVE  \A x \in Devices : LinesStep(x)
  BY <1>1 DEF LinesStep
<1>2. CASE StartSync(d) \/ MarkReconciled(d) \/ Upload(d) \/ Stamp(d)
  <2>1. pull' = pull /\ manifest' = manifest /\ (push' = push \/ EndOfEntry(d))
    BY <1>2 DEF StartSync, MarkReconciled, Upload, Stamp
  <2> QED BY <2>1, PushedLines
<1>3. CASE ListOwnFolder(d) \/ ListPending(d)
  <2>1. push'[d].draft = push[d].draft /\ \A x \in Devices \ {d} : push'[x] = push[x]
    BY <1>0, <1>3 DEF ListOwnFolder, ListPending, TypeOK, Push
  <2> QED BY <1>1, <1>3, <2>1 DEF ListOwnFolder, ListPending
<1>4. CASE RequeueMissing(d)
  <2>1. push' = [push EXCEPT ![d] = NoPush] BY <1>4 DEF RequeueMissing
  <2>2. push'[d].draft = NoLines /\ \A x \in Devices \ {d} : push'[x] = push[x]
    BY <2>1 DEF TypeOK, NoPush
  <2> QED BY <1>1, <1>4, <2>2 DEF RequeueMissing
<1>5. ASSUME NEW e \in Entries, NEW p \in Push, p.draft \in {push[d].draft, NoLines},
             TakeSnapshot(d, e, p)
      PROVE  \A x \in Devices : LinesStep(x)
  <2>1. push' = [push EXCEPT ![d] = [p EXCEPT !.now = {e}, !.snap = row[d][e],
                                              !.ver = ledger[d][e].ver]]
    BY <1>5 DEF TakeSnapshot
  <2>2. push'[d].draft = p.draft /\ \A x \in Devices \ {d} : push'[x] = push[x]
    BY <2>1 DEF TypeOK, Push
  <2> QED BY <1>1, <1>5, <2>2 DEF TakeSnapshot
<1>5a. CASE Snapshot(d)
  <2>1. PICK e \in push[d].queue : TakeSnapshot(d, e, [push[d] EXCEPT !.queue = @ \ {e}])
    BY <1>5a DEF Snapshot
  <2>2. /\ e \in Entries /\ [push[d] EXCEPT !.queue = @ \ {e}] \in Push
        /\ [push[d] EXCEPT !.queue = @ \ {e}].draft = push[d].draft
    BY <1>0 DEF Push
  <2> QED BY <1>5, <2>1, <2>2
<1>5b. ASSUME NEW e \in Entries, PushEntry(d, e)
       PROVE  \A x \in Devices : LinesStep(x)
  <2>1. NoPush \in Push BY ValueTypes
  <2>2. [NoPush EXCEPT !.single = TRUE] \in Push
    BY <2>1 DEF Push
  <2>3. [NoPush EXCEPT !.single = TRUE].draft = NoLines BY DEF NoPush
  <2> QED BY <1>5, <1>5b, <2>2, <2>3 DEF PushEntry
<1>6. CASE BuildManifest(d)
  <2>1. CASE StartPull(d)
    BY <1>6, <2>1, StartPullLines DEF BuildManifest
  <2>2. CASE ~StartPull(d)
    <3>1. push' = [push EXCEPT ![d].draft = Summary(d)] /\ pull' = pull /\ manifest' = manifest
      BY <1>6, <2>2 DEF BuildManifest
    <3>2. push'[d].draft = Summary(d) /\ \A x \in Devices \ {d} : push'[x] = push[x]
      BY <1>0, <3>1 DEF TypeOK, Push
    <3> QED BY <1>1, <3>1, <3>2
  <2> QED BY <2>1, <2>2
<1>7. CASE WriteManifest(d)
  BY <1>7, StartPullLines DEF WriteManifest
<1> QED BY <1>2, <1>3, <1>4, <1>5a, <1>5b, <1>6, <1>7 DEF PushStep

LEMMA SyncFaultLines ==
  ASSUME TypeOK, NEW d \in Devices, SyncFault(d)
  PROVE  \A x \in Devices : LinesStep(x)
<1> USE DEF db, cloud
<1>0. pull[d] \in Pull /\ push[d] \in Push BY DEF TypeOK
<1>1. CASE ReconcileFail(d) \/ WriteManifestFail(d)
  <2>1. StartPull(d) /\ (manifest' = manifest \/ UploadManifest(d))
    BY <1>1 DEF ReconcileFail, WriteManifestFail
  <2> QED BY <2>1, StartPullLines
<1>2. CASE PruneFail(d) \/ UploadFail(d)
  <2>1. pull' = pull /\ manifest' = manifest /\ (push' = push \/ EndOfEntry(d))
    BY <1>2 DEF PruneFail, UploadFail
  <2> QED BY <2>1, PushedLines
<1>3. CASE IngestError(d)
  <2>1. PICK failed \in SUBSET Got(d) : IngestChunk(d, failed) BY <1>3 DEF IngestError
  <2> QED BY <2>1, IngestLines
<1>4. CASE IngestFatal(d) \/ TombstonesFail(d)
  <2>1. DropPeer(d) /\ manifest' = manifest /\ push' = push
    BY <1>4 DEF IngestFatal, TombstonesFail
  <2> QED BY <2>1, DropPeerLines, PulledLines
<1>5. CASE Interrupt(d)
  <2>1. /\ pull' = [pull EXCEPT ![d] = NoPull] /\ push' = [push EXCEPT ![d] = NoPush]
        /\ manifest' = manifest
    BY <1>5 DEF Interrupt
  <2>2. /\ \A p \in Devices : pull'[d].man[p] = NoLines
        /\ push'[d].draft = NoLines
        /\ \A x \in Devices \ {d} : pull'[x] = pull[x] /\ push'[x] = push[x]
    BY <2>1 DEF TypeOK, NoPull, NoPush
  <2> QED BY <2>1, <2>2 DEF LinesStep
<1>6. CASE \/ \E p \in Devices : FetchError(d, p) \/ ChannelError(d, p)
           \/ \E e \in Entries : ReadError(d, e)
  <2>1. pull'[d].man = pull[d].man /\ \A x \in Devices \ {d} : pull'[x] = pull[x]
    <3>1. ASSUME NEW p \in Devices, FetchError(d, p)
          PROVE  pull'[d].man = pull[d].man /\ \A x \in Devices \ {d} : pull'[x] = pull[x]
      BY <1>0, <3>1 DEF FetchError, TypeOK, Pull
    <3>2. ASSUME NEW p \in Devices, ChannelError(d, p)
          PROVE  pull'[d].man = pull[d].man /\ \A x \in Devices \ {d} : pull'[x] = pull[x]
      BY <1>0, <3>2 DEF ChannelError, TypeOK, Pull
    <3>3. ASSUME NEW e \in Entries, ReadError(d, e)
          PROVE  pull'[d].man = pull[d].man /\ \A x \in Devices \ {d} : pull'[x] = pull[x]
      BY <1>0, <3>3 DEF ReadError, TypeOK, Pull
    <3> QED BY <1>6, <3>1, <3>2, <3>3
  <2>2. manifest' = manifest /\ push' = push BY <1>6 DEF FetchError, ChannelError, ReadError
  <2> QED BY <2>1, <2>2, PulledLines
<1> QED BY <1>1, <1>2, <1>3, <1>4, <1>5, <1>6 DEF SyncFault

LEMMA NextLines ==
  ASSUME TypeOK, Next
  PROVE  \A x \in Devices : LinesStep(x)
<1> USE DEF db, cloud
<1>1. ASSUME NEW d \in Editors, UserWrite(d) PROVE \A x \in Devices : LinesStep(x)
  <2>1. UNCHANGED <<manifest, push, pull>>
    BY <1>1 DEF UserWrite, Create, EditBody, EditFields, Trash, Restore, Purge
  <2> QED BY <2>1, SameLines
<1>2. ASSUME NEW d \in Devices, ExternalLoss(d) PROVE \A x \in Devices : LinesStep(x)
  <2>1. CASE LoseManifest(d)
    <3>1. manifest' = [manifest EXCEPT ![d].up = FALSE] /\ push' = push /\ pull' = pull
      BY <2>1 DEF LoseManifest
    <3>2. manifest[d] \in [rev : Nat, up : BOOLEAN, lines : Lines] BY DEF TypeOK
    <3>3. \A x \in Devices : manifest'[x].lines = manifest[x].lines
      BY <3>1, <3>2 DEF TypeOK
    <3> QED BY <3>1, <3>3 DEF LinesStep
  <2>2. CASE \E e \in Entries : LoseBlob(d, e)
    <3>1. UNCHANGED <<manifest, push, pull>> BY <2>2 DEF LoseBlob
    <3> QED BY <3>1, SameLines
  <2> QED BY <1>2, <2>1, <2>2 DEF ExternalLoss
<1> QED BY <1>1, <1>2, PullStepLines, PushStepLines, SyncFaultLines DEF Next

\* A row changes by a recorded write of its own device, by a merge or by a
\* tombstone.
LEMMA NextSaves ==
  ASSUME TypeOK, AbsentRows, Next, NEW d \in Devices, NEW e \in Entries
  PROVE  \/ row'[d][e] = row[d][e]
         \/ Saved(d, e) /\ WriteOf(row'[d][e]) \in written'[e]
         \/ Merged(d, e) \/ Buried(d, e)
<1>1. RowStep(d, e) BY NextRows
<1>2. Noted(d, e) BY NextNoted
<1> QED BY <1>1, <1>2 DEF RowStep, Noted

LEMMA AgreeStep == TypeOK /\ AbsentRows /\ AgreeInv /\ [Next]_vars => AgreeInv'
<1> SUFFICES ASSUME TypeOK, AbsentRows, AgreeInv, [Next]_vars PROVE AgreeInv' OBVIOUS
<1>1. CASE UNCHANGED vars
  BY <1>1 DEF vars, AgreeInv, CopiesInv, LinesInv, BackedCopy, BackedLine, Backed, Authored,
     PurgeWritten
<1>2. CASE Next
  <2>1. \A e \in Entries : written[e] \subseteq written'[e] BY <1>2, NextNoted
  <2>2. \A x \in Devices : CopyStep(x) BY <1>2, NextCopies
  <2>3. \A x \in Devices : LinesStep(x) BY <1>2, NextLines
  <2>4. MovesForward \/ row' = row BY AbsentStep
  <2>5. TypeOK' BY <1>2, NextType
  <2> SUFFICES ASSUME NEW d \in Devices, NEW e \in Entries
               PROVE  /\ BackedCopy(e, row[d][e])' /\ BackedCopy(e, blob[d][e])'
                      /\ BackedCopy(e, pull[d].got[e])'
                      /\ pc'[d] = "upload" /\ e \in push'[d].now => BackedCopy(e, push[d].snap)'
                      /\ BackedLine(e, manifest[d].lines[e])' /\ BackedLine(e, push[d].draft[e])'
                      /\ \A p \in Devices : BackedLine(e, pull[d].man[p][e])'
    BY DEF AgreeInv, CopiesInv, LinesInv
  <2> DEFINE Now(st, t) ==
               /\ \E w \in Devices : /\ ledger'[w][e].ver > 0 /\ Present(row'[w][e])
                                     /\ row'[w][e].ts >= t
               /\ st = "purged" => \E a \in written'[e] : a.st = "purged" /\ a.ts = t
             Rec(r) == Present(r) => Now(r.st, r.ts)
             Lin(l) == l.ver > 0 /\ l.st = "purged" => Now(l.st, l.ts)
  <2>6. ASSUME NEW st, NEW t \in Int, Backed(e, st, t) PROVE Now(st, t)
    <3>1. PICK w \in Devices : /\ ledger[w][e].ver > 0 /\ Present(row[w][e])
                               /\ row[w][e].ts >= t
      BY <2>6 DEF Backed, Authored
    <3>2. Present(row'[w][e]) /\ row'[w][e].ts >= row[w][e].ts
      BY <2>4, <3>1 DEF MovesForward, TypeOK, Row, Stamps
    <3>3. row[w][e].ts \in Int /\ row'[w][e].ts \in Int
      BY <2>5 DEF TypeOK, Row, Stamps
    <3>4. ledger'[w][e].ver > 0
      <4>1. LedgerStep(w, e) BY <2>2 DEF CopyStep
      <4>2. ledger[w][e] \in Ledger BY DEF TypeOK
      <4> QED BY <3>1, <4>1, <4>2 DEF LedgerStep, MarkedPending, Stamped, Ledger
    <3>5. row'[w][e].ts >= t BY <3>1, <3>2, <3>3
    <3>6. st = "purged" => \E a \in written'[e] : a.st = "purged" /\ a.ts = t
      BY <2>1, <2>6 DEF Backed, PurgeWritten
    <3> QED BY <3>2, <3>4, <3>5, <3>6
  <2> HIDE DEF Now
  <2>7. \A r \in Row : BackedCopy(e, r) => Rec(r)
    BY <2>6 DEF BackedCopy, Row, Stamps
  <2>8. \A l \in Line : BackedLine(e, l) => Lin(l)
    BY <2>6 DEF BackedLine, Line, Stamps
  <2>9. \A p \in Devices :
          /\ pull[d].got[e] \in Row /\ row[p][e] \in Row /\ blob[p][e] \in Row
          /\ push[d].snap \in Row
          /\ manifest[p].lines[e] \in Line /\ pull[d].man[p][e] \in Line
          /\ push[d].draft[e] \in Line
    <3>1. pull[d] \in Pull /\ push[d] \in Push BY DEF TypeOK
    <3>2. \A p \in Devices : manifest[p].lines \in Lines /\ pull[d].man[p] \in Lines
      BY <3>1 DEF TypeOK, Pull
    <3> QED BY <3>1, <3>2 DEF TypeOK, Pull, Push, Lines
  <2>10. /\ Rec(row[d][e]) /\ Rec(pull[d].got[e]) /\ \A p \in Devices : Rec(blob[p][e])
         /\ pc[d] = "upload" /\ e \in push[d].now => Rec(push[d].snap)
    <3> HIDE DEF Rec
    <3> QED BY <2>7, <2>9 DEF AgreeInv, CopiesInv
  <2>11. /\ Lin(push[d].draft[e])
         /\ \A p \in Devices : Lin(manifest[p].lines[e]) /\ Lin(pull[d].man[p][e])
    <3> HIDE DEF Lin
    <3> QED BY <2>8, <2>9 DEF AgreeInv, LinesInv
  <2>12. Rec(Absent) /\ Lin(Unlisted) BY DEF Absent, Present, Unlisted
  <2>13. Rec(row'[d][e])
    <3>1. CASE Saved(d, e) /\ WriteOf(row'[d][e]) \in written'[e]
      <4>1. ledger[d][e] \in Ledger /\ row'[d][e].ts \in Int
        BY <2>5 DEF TypeOK, Row, Stamps
      <4>2. ledger'[d][e].ver > 0 /\ Present(row'[d][e])
        BY <3>1, <4>1 DEF Saved, MarkedPending, Ledger
      <4>3. row'[d][e].st = "purged" =>
              \E a \in written'[e] : a.st = "purged" /\ a.ts = row'[d][e].ts
        BY <3>1 DEF WriteOf
      <4> QED BY <4>1, <4>2, <4>3 DEF Now
    <3>2. CASE Merged(d, e)
      <4>1. PICK p \in pull[d].from :
              row'[d][e] = Merge(d, p, row[d][e], pull[d].got[e], ledger[d][e].ver > 0)
        BY <3>2 DEF Merged
      <4>2. WriteOf(row'[d][e]) \in {WriteOf(row[d][e]), WriteOf(pull[d].got[e])}
        BY <2>9, <4>1, MergeWrites
      <4>3. \A r : WriteOf(r).st = r.st /\ WriteOf(r).ts = r.ts BY DEF WriteOf
      <4>4. \A r : WriteOf(row'[d][e]) = WriteOf(r) =>
              row'[d][e].st = r.st /\ row'[d][e].ts = r.ts
        BY <4>3
      <4> QED BY <2>10, <4>2, <4>4 DEF Present
    <3>3. CASE Buried(d, e)
      <4>1. PICK p \in Devices, line \in Line :
              /\ line = pull[d].man[p][e] /\ line.ver > 0 /\ line.st = "purged"
              /\ row'[d][e] = Tombstoned(row[d][e], line)
        BY <3>3 DEF Buried
      <4>2. \/ row'[d][e] = row[d][e]
            \/ row'[d][e].st = "purged" /\ row'[d][e].ts = line.ts
        BY <2>9, <4>1 DEF Tombstoned, Row
      <4>3. Now("purged", line.ts) BY <2>11, <4>1
      <4> QED BY <2>10, <4>2, <4>3
    <3> QED BY <1>2, <2>10, <3>1, <3>2, <3>3, NextSaves
  <2>14. Rec(blob'[d][e])
    <3>1. BlobStep(d, e) BY <2>2 DEF CopyStep
    <3> HIDE DEF Rec
    <3> QED BY <2>10, <2>12, <3>1 DEF BlobStep
  <2>15. Rec(pull'[d].got[e])
    <3>1. GotStep(d, e) BY <2>2 DEF CopyStep
    <3> HIDE DEF Rec
    <3> QED BY <2>10, <2>12, <3>1 DEF GotStep
  <2>16. ASSUME pc'[d] = "upload", e \in push'[d].now PROVE Rec(push'[d].snap)
    <3>1. CASE PushIdle(d) BY <2>16, <3>1 DEF PushIdle
    <3>2. CASE PushKept(d) BY <2>10, <2>16, <3>2 DEF PushKept
    <3>3. CASE PushTaken(d)
      <4>1. PICK f \in Entries : push'[d].now = {f} /\ push'[d].snap = row[d][f]
        BY <3>3 DEF PushTaken
      <4>2. f = e BY <2>16, <4>1
      <4> QED BY <2>10, <4>1, <4>2
    <3>4. CASE PushSent(d) BY <2>16, <3>4 DEF PushSent
    <3> QED BY <2>2, <3>1, <3>2, <3>3, <3>4 DEF CopyStep
  <2>17. Lin(Summary(d)[e])
    <3>1. \/ Summary(d)[e] = Unlisted
          \/ Summary(d)[e].st = row[d][e].st /\ Summary(d)[e].ts = row[d][e].ts
      BY DEF Summary
    <3>2. row[d][e].st = "purged" => Now(row[d][e].st, row[d][e].ts)
      BY <2>10 DEF Present
    <3> QED BY <2>12, <3>1, <3>2
  <2>18. NoLines[e] = Unlisted BY DEF NoLines
  <2>19. /\ Lin(manifest'[d].lines[e]) /\ Lin(push'[d].draft[e])
         /\ \A p \in Devices : Lin(pull'[d].man[p][e])
    <3>1. LinesStep(d) BY <2>3
    <3> HIDE DEF Lin
    <3> QED BY <2>11, <2>12, <2>17, <2>18, <3>1 DEF LinesStep
  <2> QED BY <2>13, <2>14, <2>15, <2>16, <2>19
          DEF BackedCopy, BackedLine, Backed, Authored, PurgeWritten, Now
<1> QED BY <1>1, <1>2

\* When nothing is left to do, whoever shows an entry agrees with everybody.
LEMMA SettledAgreement ==
  ASSUME TypeOK, WritesInv, AgreeInv, Devices \subseteq MemoryPeers,
         Settled, NEW e \in Entries, NoTie(e),
         NEW d \in Devices, NEW p \in Devices, ~Gone(row[d][e])
  PROVE  WriteOf(row[d][e]) = WriteOf(row[p][e])
<1>1. ASSUME NEW x \in Devices, NEW w \in Devices, ledger[w][e].ver > 0, Present(row[w][e])
      PROVE  /\ row[w][e].st # "purged" => Present(row[x][e])
             /\ row[w][e].st # "purged" \/ ~Gone(row[x][e]) => row[w][e].ts <= row[x][e].ts
  <2>1. CASE x = w
    BY <1>1, <2>1 DEF TypeOK, Row, Stamps
  <2>2. CASE x # w
    <3>1. /\ ToPull(LocalView(x), manifest[w].lines) = {}
          /\ ToDelete(LocalView(x), manifest[w].lines) = {}
          /\ manifest[w].lines = Summary(w)
      BY <2>2 DEF Settled, Quiet, Drained
    <3>2. LocalView(x)[e].st = row[x][e].st /\ LocalView(x)[e].ts = row[x][e].ts
      BY DEF LocalView
    <3>3. manifest[w].lines[e] =
            [ver |-> ledger[w][e].ver, st |-> row[w][e].st, ts |-> row[w][e].ts]
      <4>1. ledger[w][e].ver # 0 BY <1>1 DEF TypeOK, Ledger
      <4> QED BY <3>1, <4>1 DEF Summary
    <3>4. row[w][e].ts \in Int /\ row[x][e].ts \in Int BY DEF TypeOK, Row, Stamps
    <3>5. CASE row[w][e].st # "purged"
      BY <1>1, <3>1, <3>2, <3>3, <3>4, <3>5 DEF ToPull, Present
    <3>6. CASE row[w][e].st = "purged" /\ ~Gone(row[x][e])
      BY <1>1, <3>1, <3>2, <3>3, <3>4, <3>6 DEF ToDelete, Gone
    <3> QED BY <3>5, <3>6
  <2> QED BY <2>1, <2>2
<1>2. ASSUME NEW x \in Devices, Present(row[x][e])
      PROVE  /\ \E w \in Devices : /\ ledger[w][e].ver > 0 /\ Present(row[w][e])
                                   /\ row[w][e].ts >= row[x][e].ts
             /\ row[x][e].st = "purged" => PurgeWritten(e, row[x][e].ts)
  BY <1>2 DEF AgreeInv, CopiesInv, BackedCopy, Backed, Authored
<1>3. ASSUME NEW x \in Devices, row[x][e].ts = row[d][e].ts, Present(row[x][e])
      PROVE  row[x][e].st # "purged" /\ WriteOf(row[d][e]) = WriteOf(row[x][e])
  <2>1. WriteOf(row[d][e]) \in written[e] /\ row[d][e].st # "purged"
    <3>1. row[d][e].st \in {"live", "trashed"} BY DEF Gone, TypeOK, Row, States
    <3> QED BY <3>1 DEF WritesInv, Recorded
  <2>2. \A r : WriteOf(r).ts = r.ts /\ WriteOf(r).st = r.st BY DEF WriteOf
  <2>3. row[x][e].st # "purged"
    <3> SUFFICES ASSUME row[x][e].st = "purged" PROVE FALSE OBVIOUS
    <3>1. PICK a \in written[e] : a.st = "purged" /\ a.ts = row[d][e].ts
      BY <1>2, <1>3 DEF PurgeWritten
    <3>2. a = WriteOf(row[d][e]) BY <2>1, <2>2, <3>1 DEF NoTie
    <3> QED BY <2>1, <2>2, <3>1, <3>2
  <2>4. WriteOf(row[x][e]) \in written[e]
    <3>1. row[x][e].st \in {"live", "trashed"}
      BY <1>3, <2>3 DEF Present, TypeOK, Row, States
    <3> QED BY <3>1 DEF WritesInv, Recorded
  <2> QED BY <1>3, <2>1, <2>2, <2>3, <2>4 DEF NoTie
<1>4. \A x \in Devices : row[x][e].ts \in Int BY DEF TypeOK, Row, Stamps
<1>5. Present(row[d][e]) BY DEF Gone, Present
<1>6. PICK w \in Devices : /\ ledger[w][e].ver > 0 /\ Present(row[w][e])
                           /\ row[w][e].ts >= row[d][e].ts
  BY <1>2, <1>5
<1>7. row[w][e].ts = row[d][e].ts /\ row[w][e].st # "purged"
  <2>1. row[w][e].ts <= row[d][e].ts BY <1>1, <1>6
  <2> QED BY <1>3, <1>4, <1>6, <2>1
<1>8. Present(row[p][e]) /\ row[d][e].ts <= row[p][e].ts BY <1>1, <1>6, <1>7
<1>9. PICK v \in Devices : /\ ledger[v][e].ver > 0 /\ Present(row[v][e])
                           /\ row[v][e].ts >= row[p][e].ts
  BY <1>2, <1>8
<1>10. row[v][e].ts <= row[d][e].ts BY <1>1, <1>9
<1>11. row[p][e].ts = row[d][e].ts BY <1>4, <1>8, <1>9, <1>10
<1> QED BY <1>3, <1>8, <1>11

\* What every copy of an entry rests on, together.
CopyInv == TypeOK /\ AbsentRows /\ WritesInv /\ AgreeInv

LEMMA CopyInit == Init => CopyInv
<1> SUFFICES ASSUME Init PROVE AbsentRows /\ WritesInv /\ AgreeInv BY InitType DEF CopyInv
<1>1. AbsentRows BY DEF Init, AbsentRows, Present, Original
<1>2. ASSUME NEW d \in Devices
      PROVE  /\ manifest[d].lines = Summary(d) /\ pc[d] = "idle"
             /\ pull[d] = NoPull /\ push[d] = NoPush
  BY DEF Init
<1>3. /\ \A e \in Entries : NoPull.got[e] = Absent
      /\ NoPush.draft = NoLines /\ \A p \in Devices : NoPull.man[p] = NoLines
      /\ \A e \in Entries : NoLines[e] = Unlisted
  BY DEF NoPull, NoPush, NoLines
<1>4. ASSUME NEW d \in Devices, NEW e \in Entries
      PROVE  /\ row[d][e].st # "purged"
             /\ row[d][e] \in {Absent, Original} /\ (row[d][e] = Original => e \in Shared)
             /\ blob[d][e] \in {Absent, Original} /\ (blob[d][e] = Original => e \in Shared)
  BY DEF Init, Absent, Original
<1>5. ASSUME NEW e \in Entries, e \in Shared PROVE Authored(e, 1)
  <2>1. ledger[Owner][e].ver = 1 /\ row[Owner][e] = Original
    BY <1>5, DevicesAssumption DEF Init
  <2> QED BY <2>1, DevicesAssumption DEF Authored, Present, Original
<1>6. \A e \in Entries : /\ BackedCopy(e, Absent) /\ BackedLine(e, Unlisted)
                         /\ e \in Shared => BackedCopy(e, Original)
  BY <1>5 DEF BackedCopy, BackedLine, Backed, Absent, Unlisted, Original, Present
<1>7. \A d \in Devices, e \in Entries : BackedLine(e, Summary(d)[e])
  <2> SUFFICES ASSUME NEW d \in Devices, NEW e \in Entries PROVE Summary(d)[e].st # "purged"
    BY DEF BackedLine
  <2> QED BY <1>4 DEF Summary, Unlisted
<1>8. CopiesInv BY <1>2, <1>3, <1>4, <1>6 DEF CopiesInv
<1>9. LinesInv BY <1>2, <1>3, <1>6, <1>7 DEF LinesInv
<1>10. WritesInv BY WritesInit
<1> QED BY <1>1, <1>8, <1>9, <1>10 DEF AgreeInv

LEMMA CopyStays == CopyInv /\ [Next]_vars => CopyInv'
BY NextType, AbsentStep, WritesStep, AgreeStep DEF CopyInv

\* When no device has anything left to push or pull, all devices show the same
\* fields and Trash state for every entry whose writes have different stamps:
\* whatever failed, was lost or restarted on the way, and however many devices
\* there are.  Every device advertises memory, so that manifests are re-read.
THEOREM SettledAlwaysAgree ==
  ASSUME Devices \subseteq MemoryPeers
  PROVE  Spec => []SettledDevicesAgree
<1>3. CopyInv => SettledDevicesAgree
  <2> SUFFICES ASSUME TypeOK, WritesInv, AgreeInv, Settled, NEW e \in Entries, NoTie(e),
                      NEW d \in Devices, NEW p \in Devices
               PROVE  \/ Gone(row[d][e]) /\ Gone(row[p][e])
                      \/ WriteOf(row[d][e]) = WriteOf(row[p][e])
    BY DEF SettledDevicesAgree, CopyInv
  <2>1. CASE ~Gone(row[d][e]) BY <2>1, SettledAgreement
  <2>2. CASE ~Gone(row[p][e]) BY <2>2, SettledAgreement
  <2> QED BY <2>1, <2>2
<1> QED BY CopyInit, CopyStays, <1>3, PTL DEF Spec

-----------------------------------------------------------------------------
(* EntrySync implements Register                                            *)

\* A step on device d: what it writes it records, on top of what d shows.
SavedOnTop(d, e) ==
  /\ written'[e] = written[e] \cup {WriteOf(row'[d][e])}
  /\ row[d][e] = Absent \/ row'[d][e].ts > row[d][e].ts

Alone(d) == \A x \in Devices \ {d} : row'[x] = row[x]
WritesOnly(d) ==
  \A e \in Entries :
    (row'[d][e] = row[d][e] /\ written'[e] = written[e]) \/ SavedOnTop(d, e)

\* A user writes one entry of the device.
LEMMA UserWriteAlone ==
  ASSUME TypeOK, AbsentRows, NEW d \in Devices, UserWrite(d)
  PROVE  Alone(d) /\ WritesOnly(d)
<1>0. PICK e0 \in Entries : \E r : Save(d, e0, r) /\ Fresh(d, e0, r) BY UserSaves
<1>1. PICK r : Save(d, e0, r) /\ Fresh(d, e0, r) BY <1>0
<1>2. /\ row' = [row EXCEPT ![d][e0] = r]
      /\ written' = [written EXCEPT ![e0] = @ \cup {WriteOf(r)}]
  BY <1>1 DEF Save
<1>3. row'[d][e0] = r BY <1>2 DEF TypeOK
<1>4. row[d][e0] = Absent \/ r.ts > row[d][e0].ts BY <1>1 DEF Fresh, AbsentRows
<1>5. SavedOnTop(d, e0) BY <1>2, <1>3, <1>4 DEF SavedOnTop, TypeOK
<1>6. \A e \in Entries \ {e0} : row'[d][e] = row[d][e] /\ written'[e] = written[e]
  BY <1>2 DEF TypeOK
<1>7. Alone(d) BY <1>2 DEF Alone, TypeOK
<1> QED BY <1>5, <1>6, <1>7 DEF WritesOnly

\* The sweep purges any of the device's trashed entries.
LEMMA SweepAlone ==
  ASSUME TypeOK, NEW d \in Devices, Sweep(d)
  PROVE  Alone(d) /\ WritesOnly(d)
<1>1. CASE row' = row /\ written' = written BY <1>1 DEF Alone, WritesOnly
<1>2. CASE ~(row' = row /\ written' = written)
  <2>1. PICK due \in SUBSET Entries :
          /\ row' = [row EXCEPT ![d] = [e \in Entries |->
                IF e \in due THEN Purged(row[d][e], nops + 1) ELSE row[d][e]]]
          /\ written' = [e \in Entries |->
                IF e \in due
                THEN written[e] \cup {WriteOf([x \in Entries |->
                       IF x \in due THEN Purged(row[d][x], nops + 1) ELSE row[d][x]][e])}
                ELSE written[e]]
    BY <1>2 DEF Sweep
  <2>2. Alone(d) BY <2>1 DEF Alone, TypeOK
  <2>3. ASSUME NEW e \in Entries, e \in due PROVE SavedOnTop(d, e)
    <3>1. written'[e] = written[e] \cup {WriteOf(Purged(row[d][e], nops + 1))}
      BY <2>1, <2>3
    <3>2. row'[d][e] = Purged(row[d][e], nops + 1) BY <2>1, <2>3 DEF TypeOK
    <3>3. row[d][e] \in Row /\ row[d][e].ts \in Int BY DEF TypeOK, Row, Stamps
    <3>4. Purged(row[d][e], nops + 1).ts = row[d][e].ts + 1 BY <3>3 DEF Purged, Row
    <3> QED BY <3>1, <3>2, <3>3, <3>4 DEF SavedOnTop
  <2>4. ASSUME NEW e \in Entries, e \notin due
        PROVE  row'[d][e] = row[d][e] /\ written'[e] = written[e]
    BY <2>1, <2>4 DEF TypeOK
  <2> QED BY <2>2, <2>3, <2>4 DEF WritesOnly
<1> QED BY <1>1, <1>2

\* Every step changes the rows of one device, and either writes them or brings
\* them what is written already.
LEMMA NextAlone ==
  ASSUME TypeOK, AbsentRows, Next
  PROVE  \E d \in Devices : Alone(d) /\ (WritesOnly(d) \/ written' = written)
<1> USE DEF db, cloud, count
<1>1. ASSUME NEW d \in Editors, UserWrite(d)
      PROVE  d \in Devices /\ Alone(d) /\ WritesOnly(d)
  BY <1>1, DevicesAssumption, UserWriteAlone
<1>2. ASSUME NEW d \in Devices,
             StartSync(d) \/ PushStep(d) \/ \E e \in Entries : PushEntry(d, e)
      PROVE  Alone(d) /\ written' = written
  <2>1. written' = written /\ row' = row
    BY <1>2 DEF StartSync, PushStep, PushEntry, TakeSnapshot, ListOwnFolder,
       RequeueMissing, MarkReconciled, ListPending, Snapshot, Upload, Stamp, BuildManifest, WriteManifest
  <2> QED BY <2>1 DEF Alone
<1>3. ASSUME NEW d \in Devices, NEW failed, IngestChunk(d, failed)
      PROVE  Alone(d) /\ written' = written
  BY <1>3 DEF IngestChunk, Alone, TypeOK
<1>4. ASSUME NEW d \in Devices, PullStep(d), ~Sweep(d)
      PROVE  Alone(d) /\ written' = written
  <2>1. CASE Ingest(d) BY <1>3, <2>1 DEF Ingest
  <2>2. CASE ApplyTombstones(d) BY <2>2 DEF ApplyTombstones, Alone, TypeOK
  <2>3. CASE \/ \E p \in Devices : FetchManifest(d, p) \/ NextPeer(d, p)
             \/ \E e \in Entries : ReadBlob(d, e)
             \/ BuildView(d) \/ FinishPull(d)
    <3>1. written' = written /\ row' = row
      BY <2>3 DEF FetchManifest, NextPeer, ReadBlob, BuildView, FinishPull
    <3> QED BY <3>1 DEF Alone
  <2> QED BY <1>4, <2>1, <2>2, <2>3 DEF PullStep
<1>5. ASSUME NEW d \in Devices, SyncFault(d)
      PROVE  Alone(d) /\ written' = written
  <2>1. CASE IngestError(d) BY <1>3, <2>1 DEF IngestError
  <2>2. CASE ~IngestError(d)
    <3>1. written' = written /\ row' = row
      BY <1>5, <2>2 DEF SyncFault, ReconcileFail, PruneFail, UploadFail, WriteManifestFail,
         FetchError, ChannelError, ReadError, IngestFatal, TombstonesFail, Interrupt
    <3> QED BY <3>1 DEF Alone
  <2> QED BY <2>1, <2>2
<1>6. ASSUME NEW d \in Devices, ExternalLoss(d)
      PROVE  Alone(d) /\ written' = written
  BY <1>6 DEF ExternalLoss, LoseManifest, LoseBlob, Alone
<1> QED BY <1>1, <1>2, <1>4, <1>5, <1>6, SweepAlone DEF Next

\* What a device takes over from others is a write, and no older than what it
\* showed.
LEMMA LearntRow ==
  ASSUME CopyInv, CopyInv', Next, written' = written,
         NEW d \in Devices, NEW e \in Entries, row'[d][e] # row[d][e]
  PROVE  \E w \in written[e] : /\ row[d][e] = Absent \/ w.ts >= row[d][e].ts
                               /\ Register!Shown(w) = ShownOf(row'[d][e])
<1>1. row[d][e] \in Row /\ row'[d][e] \in Row BY DEF CopyInv, TypeOK
<1>2. RowStep(d, e) BY NextRows DEF CopyInv
<1>3. /\ row'[d][e].ts >= row[d][e].ts
      /\ Present(row[d][e]) => Present(row'[d][e])
      /\ Present(row'[d][e]) \/ row'[d][e] = Absent
  BY <1>1, <1>2, StepForward DEF CopyInv
<1>4. Present(row'[d][e])
  BY <1>3 DEF CopyInv, AbsentRows
<1>5. CASE row'[d][e].st = "purged"
  <2>1. BackedCopy(e, row[d][e])' BY DEF CopyInv, AgreeInv, CopiesInv
  <2>2. PICK w \in written[e] : w.st = "purged" /\ w.ts = row'[d][e].ts
    BY <1>4, <1>5, <2>1 DEF BackedCopy, Backed, PurgeWritten
  <2>3. Register!Shown(w) = ShownOf(row'[d][e])
    BY <1>5, <2>2 DEF Register!Shown, ShownOf
  <2> QED BY <1>3, <2>2, <2>3
<1>6. CASE row'[d][e].st # "purged"
  <2>1. row'[d][e].st \in {"live", "trashed"} BY <1>1, <1>4, <1>6 DEF Row, States, Present
  <2>2. Recorded(e, row[d][e])' BY DEF CopyInv, WritesInv
  <2>3. WriteOf(row'[d][e]) \in written[e] BY <2>1, <2>2 DEF Recorded
  <2>4. Register!Shown(WriteOf(row'[d][e])) = ShownOf(row'[d][e])
    BY DEF Register!Shown, ShownOf, WriteOf
  <2>5. WriteOf(row'[d][e]).ts = row'[d][e].ts BY DEF WriteOf
  <2> QED BY <1>3, <2>3, <2>4, <2>5
<1> QED BY <1>5, <1>6

LEMMA ShownAbsent == ShownOf(Absent) = Register!Nothing
BY DEF ShownOf, Absent, Register!Nothing

LEMMA NextImplements ==
  ASSUME CopyInv, CopyInv', Next
  PROVE  Register!RegisterNext
<1>1. PICK d \in Devices : Alone(d) /\ (WritesOnly(d) \/ written' = written)
  BY NextAlone DEF CopyInv
<1> DEFINE shows == [x \in Devices |-> [e \in Entries |-> ShownOf(row[x][e])]]
<1>2. \A x \in Devices \ {d} : shows'[x] = shows[x] BY <1>1 DEF Alone
<1>3. \A e \in Entries : shows[d][e] = ShownOf(row[d][e]) /\ shows'[d][e] = ShownOf(row'[d][e])
  OBVIOUS
<1>4. \A r : ShownOf(r).ts = r.ts BY DEF ShownOf
<1>5. CASE WritesOnly(d)
  <2>1. ASSUME NEW e \in Entries PROVE Register!Keep(d, e) \/ Register!Write(d, e)
    <3>1. CASE row'[d][e] = row[d][e] /\ written'[e] = written[e]
      BY <1>3, <3>1 DEF Register!Keep
    <3>2. CASE SavedOnTop(d, e)
      <4> DEFINE w == WriteOf(row'[d][e])
      <4>1. w \in written'[e] /\ written'[e] = written[e] \cup {w} BY <3>2 DEF SavedOnTop
      <4>2. Register!Shown(w) = ShownOf(row'[d][e]) /\ w.ts = row'[d][e].ts
        BY DEF Register!Shown, ShownOf, WriteOf
      <4>3. ShownOf(row[d][e]) = Register!Nothing \/ w.ts > ShownOf(row[d][e]).ts
        BY <1>4, <3>2, <4>2, ShownAbsent DEF SavedOnTop
      <4> HIDE DEF w
      <4> QED BY <1>3, <4>1, <4>2, <4>3 DEF Register!Write
    <3> QED BY <1>5, <3>1, <3>2 DEF WritesOnly
  <2> QED BY <1>2, <2>1 DEF Register!RegisterNext, Register!Step
<1>6. CASE written' = written
  <2>1. ASSUME NEW e \in Entries PROVE Register!Keep(d, e) \/ Register!Learn(d, e)
    <3>1. CASE row'[d][e] = row[d][e]
      BY <1>3, <1>6, <3>1 DEF Register!Keep
    <3>2. CASE row'[d][e] # row[d][e]
      <4>1. PICK w \in written[e] : /\ row[d][e] = Absent \/ w.ts >= row[d][e].ts
                                    /\ Register!Shown(w) = ShownOf(row'[d][e])
        BY <1>6, <3>2, LearntRow
      <4>2. ShownOf(row[d][e]) = Register!Nothing \/ w.ts >= ShownOf(row[d][e]).ts
        BY <1>4, <4>1, ShownAbsent
      <4> QED BY <1>3, <1>6, <4>1, <4>2 DEF Register!Learn
    <3> QED BY <3>1, <3>2
  <2> QED BY <1>2, <2>1 DEF Register!RegisterNext, Register!Step
<1> QED BY <1>1, <1>5, <1>6

LEMMA InitRegister == Init => Register!RegisterInit
<1> SUFFICES ASSUME Init, NEW e \in Entries
             PROVE  \/ /\ written[e] = {}
                       /\ \A d \in Devices : ShownOf(row[d][e]) = Register!Nothing
                    \/ \E w \in written[e] :
                         /\ written[e] = {w}
                         /\ \A d \in Devices : ShownOf(row[d][e]) = Register!Shown(w)
  BY DEF Register!RegisterInit
<1>1. CASE e \in Shared
  <2>1. written[e] = {WriteOf(Original)} /\ \A d \in Devices : row[d][e] = Original
    BY <1>1 DEF Init
  <2>2. ShownOf(Original) = Register!Shown(WriteOf(Original))
    BY DEF Register!Shown, ShownOf, WriteOf
  <2> QED BY <2>1, <2>2
<1>2. CASE e \notin Shared
  <2>1. written[e] = {} /\ \A d \in Devices : row[d][e] = Absent BY <1>2 DEF Init
  <2> QED BY <2>1, ShownAbsent
<1> QED BY <1>1, <1>2

\* Seen through the rows, synchronisation only ever shows whole writes and
\* never takes a device back: every step of any number of devices, with any
\* faults and losses, is one of the abstract register.
THEOREM RegisterRefinement == Spec => ImplementsRegister
<1> SUFFICES Spec => Register!RegisterSpec BY DEF ImplementsRegister
<1>1. Init => Register!RegisterInit BY InitRegister
<1>2. CopyInv /\ CopyInv' /\ [Next]_vars => [Register!RegisterNext]_(Register!registerVars)
  <2>1. ASSUME UNCHANGED vars PROVE UNCHANGED Register!registerVars
    BY <2>1 DEF vars, Register!registerVars
  <2> QED BY <2>1, NextImplements
<1> QED BY <1>1, <1>2, CopyInit, CopyStays, PTL DEF Spec, Register!RegisterSpec

=============================================================================
