----------------------------- MODULE EntrySync -----------------------------
(***************************************************************************)
(* Entry synchronisation between the devices of one vault.                 *)
(*                                                                         *)
(* Each device keeps a database row per journal entry and a ledger row     *)
(* (sync_state) for the entries it has written.  Devices never talk to     *)
(* each other: a device publishes encrypted entry blobs and one manifest   *)
(* (metadata.json) in its own cloud folder and reads the folders of its    *)
(* peers.  A sync cycle pushes the pending entries, then the manifest,     *)
(* then pulls from every peer; user writes may happen between any two      *)
(* steps of it, because every step that touches the database is one        *)
(* transaction and every cloud access happens outside the database lock.   *)
(*                                                                         *)
(* A document is the set of editor operations it holds, so the CRDT merge  *)
(* is union; operation 0 is the body an entry is created with.  All other  *)
(* fields of an entry (title, tags, location, Trash state ...) travel as   *)
(* one last-writer-wins unit, named by `meta', the write it comes from.    *)
(***************************************************************************)
EXTENDS Integers, FiniteSets

CONSTANTS
  Devices,      \* device ids; the LWW tie-break compares them
  Editors,      \* the devices whose user writes
  Entries,      \* entry ids, app-minted UUIDs
  Shared,       \* entries every device already holds when the model starts
  Owner,        \* the device that wrote and published the shared entries
  InTrash,      \* whether the shared entries start in Trash
  MemoryPeers,  \* devices whose manifest says memory_present
  EmptyBodies,  \* entries are created with no body yet (the app's own "new")
  CloudLoss,    \* files may disappear from the cloud out of band
  ChunkSize,    \* PULL_CHUNK_SIZE
  MaxStamp,     \* bound: largest updated_at stamp
  MaxOps,       \* bound: user writes
  MaxFaults,    \* bound: failures, restarts and losses
  MaxActive     \* bound: devices with a sync operation in flight

ASSUME DevicesAssumption ==
  /\ Devices \subseteq Nat \ {0}
  /\ Editors \subseteq Devices
  /\ Owner \in Devices
  /\ MemoryPeers \subseteq Devices
ASSUME EntriesAssumption == Shared \subseteq Entries
ASSUME FlagsAssumption ==
  /\ InTrash \in BOOLEAN
  /\ EmptyBodies \in BOOLEAN
  /\ CloudLoss \in BOOLEAN
ASSUME BoundsAssumption ==
  /\ ChunkSize \in Nat \ {0}
  /\ MaxStamp \in Nat \ {0}
  /\ MaxOps \in Nat
  /\ MaxFaults \in Nat
  /\ MaxActive \in Nat \ {0}

VARIABLES
  row,          \* row[d][e]: the entries table of device d
  ledger,       \* ledger[d][e]: the sync_state row, ver = 0 when there is none
  pushHash,     \* pushHash[d]: manifest content last pushed, {} when unknown
  pullRev,      \* pullRev[d][p]: cached revision of p's manifest, 0 when none
  reconciled,   \* reconciled[d]: own cloud checked in this process session
  blob,         \* blob[d][e]: {d}/entries/{e}.bin, absent when missing
  manifest,     \* manifest[d]: {d}/metadata.json and its provider revision
  pc,           \* pc[d]: step of the one sync operation d may run at a time
  push,         \* push[d]: locals of the push half
  pull,         \* pull[d]: locals of the pull half
  written,      \* auxiliary: the writes users made to each entry
  nops,         \* user writes so far
  faults        \* faults so far

db    == <<row, ledger, pushHash, pullRev>>
cloud == <<blob, manifest>>
count == <<written, nops, faults>>
vars  == <<row, ledger, pushHash, pullRev, reconciled, blob, manifest,
           pc, push, pull, written, nops, faults>>

-----------------------------------------------------------------------------
(* Values *)

Stamps == 0..MaxStamp
Ops    == 0..MaxOps

\* is_deleted / trashed_at: live (0, NULL), trashed (1, t), purged (1, NULL).
States == {"absent", "live", "trashed", "purged"}

Row       == [st : States, ts : Stamps, meta : Ops, doc : SUBSET Ops]
Absent    == [st |-> "absent", ts |-> 0, meta |-> 0, doc |-> {}]
Original  == [st |-> IF InTrash THEN "trashed" ELSE "live",
              ts |-> 1, meta |-> 0, doc |-> {0}]

Ledger    == [ver : Nat, pending : BOOLEAN]
NoLedger  == [ver |-> 0, pending |-> FALSE]

\* One line of a manifest; ver = 0 when the manifest does not list the entry.
Line      == [ver : Nat, st : States, ts : Stamps]
Unlisted  == [ver |-> 0, st |-> "absent", ts |-> 0]
Lines     == [Entries -> Line]
NoLines   == [e \in Entries |-> Unlisted]

Write     == [st : States, ts : Stamps, meta : Ops]
WriteOf(r) == [st |-> r.st, ts |-> r.ts, meta |-> r.meta]

PCs == {"idle", "reconcile", "requeue", "prune", "list", "push", "upload", "stamp", "manifest",
        "fetch", "peer", "read", "tombstones", "sweep"}

Push == [single : BOOLEAN, listed : SUBSET Entries, up : BOOLEAN,
         queue : SUBSET Entries, now : SUBSET Entries,
         snap : Row, ver : Nat, draft : Lines]
NoPush == [single |-> FALSE, listed |-> {}, up |-> FALSE, queue |-> {},
           now |-> {}, snap |-> Absent, ver |-> 0, draft |-> NoLines]

Pull == [todo : SUBSET Devices, work : SUBSET Devices,
         man : [Devices -> Lines], rev : [Devices -> Nat],
         bad : SUBSET Devices, clean : BOOLEAN, view : Lines,
         from : SUBSET Devices, left : SUBSET Entries,
         chunk : SUBSET Entries, got : [Entries -> Row]]
NoPull == [todo |-> {}, work |-> {}, man |-> [p \in Devices |-> NoLines],
           rev |-> [p \in Devices |-> 0], bad |-> {}, clean |-> TRUE,
           view |-> NoLines, from |-> {}, left |-> {}, chunk |-> {},
           got |-> [e \in Entries |-> Absent]]

-----------------------------------------------------------------------------
(* Reading the state *)

Present(r) == r.st # "absent"
Idle(d)    == pc[d] = "idle"
Pending(d) == {e \in Entries : ledger[d][e].pending}

\* What d's manifest says of its entries: only those with a ledger row.
Summary(d) ==
  [e \in Entries |->
     IF ledger[d][e].ver = 0 THEN Unlisted
     ELSE [ver |-> ledger[d][e].ver, st |-> row[d][e].st, ts |-> row[d][e].ts]]

\* The local side of the manifest diff: every row, pulled ones included.
LocalView(d) ==
  [e \in Entries |->
     [ver |-> ledger[d][e].ver, st |-> row[d][e].st, ts |-> row[d][e].ts]]

\* Mutant: the diff takes a trashed line for a deleted one.
ToPullLiveOnly(view, lines) ==
  {e \in Entries : /\ lines[e].ver > 0 /\ lines[e].st = "live"
                   /\ \/ view[e].st = "absent"
                      \/ lines[e].ts > view[e].ts}

\* compute_diff: act only on strictly newer remote lines.
ToPull(view, lines) ==
  {e \in Entries : /\ lines[e].ver > 0 /\ lines[e].st # "purged"
                   /\ \/ view[e].st = "absent"
                      \/ lines[e].ts > view[e].ts}

\* Mutant: a tombstone is not taken over a row that is in Trash.
ToDeleteLiveOnly(view, lines) ==
  {e \in Entries : /\ lines[e].ver > 0 /\ lines[e].st = "purged"
                   /\ view[e].st = "live"
                   /\ lines[e].ts > view[e].ts}

ToDelete(view, lines) ==
  {e \in Entries : /\ lines[e].ver > 0 /\ lines[e].st = "purged"
                   /\ view[e].st \notin {"absent", "purged"}
                   /\ lines[e].ts > view[e].ts}

\* The next chunk of `left': its newest entries, at most ChunkSize of them.
Chunks(lines, left) ==
  {c \in SUBSET left :
     /\ Cardinality(c) =
          IF Cardinality(left) < ChunkSize THEN Cardinality(left) ELSE ChunkSize
     /\ \A x \in c, y \in left \ c : lines[x].ts >= lines[y].ts}

-----------------------------------------------------------------------------
(* Merging a pulled blob into a row *)

\* Mutant: a tie always goes to the remote side.
TiesToRemote(d, p, local, remote) == remote.ts >= local.ts

RemoteWins(d, p, local, remote) ==
  \/ remote.ts > local.ts
  \/ remote.ts = local.ts /\ p > d

\* Two bodies built independently share no operation.
Disjoint(a, b) == a \cap b = {}

\* Mutant: the document follows the winner of the other fields.
WinnerDoc(local, remote, wins, owned) ==
  IF wins THEN remote.doc ELSE local.doc

\* The document stored by ingest_entry_in_pull on device d; `owned' is
\* whether d has a ledger row for the entry.  Two non-empty documents of
\* one lineage merge; disjoint ones are resolved by resolve_disjoint_docs
\* for an app-minted id; an empty side always yields the remote document.
MergedDoc(local, remote, wins, owned) ==
  IF local.doc = {} \/ remote.doc = {} THEN remote.doc
  ELSE IF Disjoint(local.doc, remote.doc)
       THEN IF ~wins THEN local.doc
            ELSE IF ~owned THEN remote.doc
            ELSE local.doc \cup remote.doc
       ELSE local.doc \cup remote.doc

\* Mutant: the winner is written back over the local Trash state.
MergeKeepingState(d, p, local, remote, owned) ==
  IF ~Present(local) THEN remote
  ELSE LET wins   == RemoteWins(d, p, local, remote)
           winner == IF wins THEN remote ELSE local
       IN  [winner EXCEPT !.st = local.st,
                          !.doc = MergedDoc(local, remote, wins, owned)]

Merge(d, p, local, remote, owned) ==
  IF ~Present(local) THEN remote
  ELSE LET wins   == RemoteWins(d, p, local, remote)
           winner == IF wins THEN remote ELSE local
       IN  [winner EXCEPT !.doc = MergedDoc(local, remote, wins, owned)]

-----------------------------------------------------------------------------
(* Initial states: every device is paired and has completed a clean cycle  *)
(* that brought it the shared entries.                                     *)

Init ==
  /\ row = [d \in Devices |-> [e \in Entries |->
              IF e \in Shared THEN Original ELSE Absent]]
  /\ ledger = [d \in Devices |-> [e \in Entries |->
              IF d = Owner /\ e \in Shared
              THEN [ver |-> 1, pending |-> FALSE] ELSE NoLedger]]
  /\ blob = [d \in Devices |-> [e \in Entries |->
              IF d = Owner /\ e \in Shared THEN Original ELSE Absent]]
  /\ manifest = [d \in Devices |->
              [rev |-> 1, up |-> TRUE, lines |-> Summary(d)]]
  /\ pushHash = [d \in Devices |-> {Summary(d)}]
  /\ pullRev = [d \in Devices |-> [p \in Devices |-> IF p = d THEN 0 ELSE 1]]
  /\ reconciled = [d \in Devices |-> FALSE]
  /\ pc = [d \in Devices |-> "idle"]
  /\ push = [d \in Devices |-> NoPush]
  /\ pull = [d \in Devices |-> NoPull]
  /\ written = [e \in Entries |->
              IF e \in Shared THEN {WriteOf(Original)} ELSE {}]
  /\ nops = 0
  /\ faults = 0

-----------------------------------------------------------------------------
(* User writes.  Each is one transaction that also marks the entry pending *)
(* and bumps its local version.                                            *)

\* Mutant: a write of a pending entry leaves its version alone.
MarkedOnce(l) == [ver |-> IF l.pending THEN l.ver ELSE l.ver + 1, pending |-> TRUE]

MarkedPending(l) == [ver |-> l.ver + 1, pending |-> TRUE]

\* updated_at = max(updated_at + k, now) for any reading of the clock.
NewStamps(ts, k) == {t \in Stamps : t >= ts + k}

\* One user write of e on d: the row becomes r and the entry is pending.
Save(d, e, r) ==
  /\ nops < MaxOps
  /\ nops' = nops + 1
  /\ row' = [row EXCEPT ![d][e] = r]
  /\ ledger' = [ledger EXCEPT ![d][e] = MarkedPending(@)]
  /\ written' = [written EXCEPT ![e] = @ \cup {WriteOf(r)}]

\* Create an entry: with no body (create_entry_impl), or with one, as the
\* agent interface and the importer of web writes do under one lock.
Create(d, e) ==
  /\ \A x \in Devices : ~Present(row[x][e]) /\ ~Present(blob[x][e])
  /\ written[e] = {}
  /\ \E t \in Stamps \ {0} :
       Save(d, e, [st |-> "live", ts |-> t, meta |-> nops + 1,
                   doc |-> IF EmptyBodies THEN {} ELSE {0}])
  /\ UNCHANGED <<pushHash, pullRev, reconciled, cloud, pc, push, pull, faults>>

\* Save the body; the editor holds everything the stored document holds.
EditBody(d, e) ==
  /\ row[d][e].st = "live"
  /\ \E t \in NewStamps(row[d][e].ts, 1) :
       Save(d, e, [row[d][e] EXCEPT !.ts = t, !.meta = nops + 1,
                                    !.doc = @ \cup {nops + 1}])
  /\ UNCHANGED <<pushHash, pullRev, reconciled, cloud, pc, push, pull, faults>>

\* Change the title or any other field.
EditFields(d, e) ==
  /\ row[d][e].st = "live"
  /\ \E t \in NewStamps(row[d][e].ts, 1) :
       Save(d, e, [row[d][e] EXCEPT !.ts = t, !.meta = nops + 1])
  /\ UNCHANGED <<pushHash, pullRev, reconciled, cloud, pc, push, pull, faults>>

Trash(d, e) ==
  /\ row[d][e].st = "live"
  /\ \E t \in NewStamps(row[d][e].ts, 1) :
       Save(d, e, [row[d][e] EXCEPT !.st = "trashed", !.ts = t,
                                    !.meta = nops + 1])
  /\ UNCHANGED <<pushHash, pullRev, reconciled, cloud, pc, push, pull, faults>>

Restore(d, e) ==
  /\ row[d][e].st = "trashed"
  /\ \E t \in NewStamps(row[d][e].ts, 2) :
       Save(d, e, [row[d][e] EXCEPT !.st = "live", !.ts = t,
                                    !.meta = nops + 1])
  /\ UNCHANGED <<pushHash, pullRev, reconciled, cloud, pc, push, pull, faults>>

\* Mutant: a purge takes the margin of a restore.
PurgedTwoLater(r, n) == [r EXCEPT !.st = "purged", !.ts = @ + 2, !.meta = n]

\* The tombstone of a trashed row: stamped one later, whatever the clock.
Purged(r, n) == [r EXCEPT !.st = "purged", !.ts = @ + 1, !.meta = n]

\* Delete forever; it re-arms the own-cloud check.
Purge(d, e) ==
  /\ row[d][e].st = "trashed"
  /\ row[d][e].ts < MaxStamp
  /\ Save(d, e, Purged(row[d][e], nops + 1))
  /\ reconciled' = [reconciled EXCEPT ![d] = FALSE]
  /\ UNCHANGED <<pushHash, pullRev, cloud, pc, push, pull, faults>>

UserWrite(d) ==
  \E e \in Entries : \/ Create(d, e) \/ EditBody(d, e) \/ EditFields(d, e)
                     \/ Trash(d, e)  \/ Restore(d, e)  \/ Purge(d, e)

-----------------------------------------------------------------------------
(* The push half.  One sync operation per device at a time: a sync cycle    *)
(* or the push of a single entry (SyncInProgressGuard).                     *)

Fault == faults < MaxFaults /\ faults' = faults + 1

Goto(d, step) == pc' = [pc EXCEPT ![d] = step]

\* d may begin an operation: it has none in flight, and the bound allows it.
MayStart(d) == Idle(d) /\ Cardinality({x \in Devices : ~Idle(x)}) < MaxActive

\* The pull half begins.
StartPull(d) ==
  /\ Goto(d, "fetch")
  /\ push' = [push EXCEPT ![d] = NoPush]
  /\ pull' = [pull EXCEPT ![d] = [NoPull EXCEPT !.todo = Devices \ {d}]]

\* Start a cycle: a manual one always checks the device's own cloud folder,
\* an automatic one only until that succeeded in this session.
StartSync(d) ==
  /\ MayStart(d)
  /\ \E manual \in BOOLEAN :
       Goto(d, IF manual \/ ~reconciled[d] THEN "reconcile" ELSE "list")
  /\ UNCHANGED <<db, reconciled, cloud, push, pull, count>>

\* Mutant: a missing blob is not queued again.
NotRequeued(l, listed) == l

\* A published entry whose blob was not listed becomes pending again, at the
\* version it has.
Requeued(l, listed) ==
  IF l.ver > 0 /\ ~listed THEN [l EXCEPT !.pending = TRUE] ELSE l

\* List the own folder: the entry blobs and the manifest found there.
ListOwnFolder(d) ==
  /\ pc[d] = "reconcile"
  /\ push' = [push EXCEPT ![d].listed = {e \in Entries : Present(blob[d][e])},
                          ![d].up = manifest[d].up]
  /\ Goto(d, "requeue")
  /\ UNCHANGED <<db, reconciled, cloud, pull, count>>

\* One transaction requeues every published entry whose blob was not listed
\* and forgets the pushed hash of a manifest that was not.
RequeueMissing(d) ==
  /\ pc[d] = "requeue"
  /\ ledger' = [ledger EXCEPT ![d] = [e \in Entries |->
                 Requeued(ledger[d][e], e \in push[d].listed)]]
  /\ pushHash' = IF push[d].up THEN pushHash
                 ELSE [pushHash EXCEPT ![d] = {}]
  /\ push' = [push EXCEPT ![d] = NoPush]
  /\ Goto(d, "prune")
  /\ UNCHANGED <<row, pullRev, reconciled, cloud, pull, count>>

\* A listing or the transaction fails: the whole push half is given up, the
\* pull still runs.
ReconcileFail(d) ==
  /\ pc[d] \in {"reconcile", "requeue"}
  /\ Fault
  /\ StartPull(d)
  /\ UNCHANGED <<db, reconciled, cloud, written, nops>>

\* Orphaned media are pruned from the own folder; only when all of that
\* succeeded is the check done for this session.
MarkReconciled(d) ==
  /\ pc[d] = "prune"
  /\ reconciled' = [reconciled EXCEPT ![d] = TRUE]
  /\ Goto(d, "list")
  /\ UNCHANGED <<db, cloud, push, pull, count>>

PruneFail(d) ==
  /\ pc[d] = "prune"
  /\ Fault
  /\ Goto(d, "list")
  /\ UNCHANGED <<db, reconciled, cloud, push, pull, written, nops>>

ListPending(d) ==
  /\ pc[d] = "list"
  /\ push' = [push EXCEPT ![d].queue = Pending(d)]
  /\ Goto(d, "push")
  /\ UNCHANGED <<db, reconciled, cloud, pull, count>>

\* push_single_entry reads the row and its local version in one transaction.
TakeSnapshot(d, e, p) ==
  /\ push' = [push EXCEPT ![d] = [p EXCEPT !.now = {e}, !.snap = row[d][e],
                                           !.ver = ledger[d][e].ver]]
  /\ Goto(d, "upload")
  /\ UNCHANGED <<db, reconciled, cloud, pull, count>>

Snapshot(d) ==
  /\ pc[d] = "push"
  /\ \E e \in push[d].queue :
       TakeSnapshot(d, e, [push[d] EXCEPT !.queue = @ \ {e}])

\* The push of one entry outside a cycle; it writes no manifest.
PushEntry(d, e) ==
  /\ MayStart(d)
  /\ ledger[d][e].ver > 0
  /\ TakeSnapshot(d, e, [NoPush EXCEPT !.single = TRUE])

EndOfEntry(d) ==
  /\ Goto(d, IF push[d].single THEN "idle" ELSE "push")
  /\ push' = [push EXCEPT ![d] = [NoPush EXCEPT !.queue = push[d].queue]]

UploadBlob(d) == \E e \in push[d].now : blob' = [blob EXCEPT ![d][e] = push[d].snap]

Upload(d) ==
  /\ pc[d] = "upload"
  /\ UploadBlob(d)
  /\ Goto(d, "stamp")
  /\ UNCHANGED <<db, reconciled, manifest, push, pull, count>>

\* The upload, or the stamp after it, fails: the entry stays pending and the
\* queue goes on.  The bytes may have landed all the same.
UploadFail(d) ==
  /\ pc[d] = "upload"
  /\ Fault
  /\ blob' = blob \/ UploadBlob(d)
  /\ EndOfEntry(d)
  /\ UNCHANGED <<db, reconciled, manifest, pull, written, nops>>

\* Mutants: stamp whatever was written meanwhile; compare the wrong way.
StampedAnyway(l, ver)  == [l EXCEPT !.pending = FALSE]
StampedIfNewer(l, ver) == IF l.ver > ver THEN [l EXCEPT !.pending = FALSE] ELSE l

\* The ledger row is stamped synced only if no write bumped its version
\* since version ver was read.
Stamped(l, ver) == IF l.ver = ver THEN [l EXCEPT !.pending = FALSE] ELSE l

Stamp(d) ==
  /\ pc[d] = "stamp"
  /\ ledger' = [ledger EXCEPT ![d] = [e \in Entries |->
       IF e \in push[d].now THEN Stamped(ledger[d][e], push[d].ver)
       ELSE ledger[d][e]]]
  /\ EndOfEntry(d)
  /\ UNCHANGED <<row, pushHash, pullRev, reconciled, cloud, pull, count>>

\* Build the manifest from the database as it is now and write it unless
\* the same content was already pushed (hash gate).
BuildManifest(d) ==
  /\ pc[d] = "push"
  /\ push[d].queue = {}
  /\ IF pushHash[d] = {Summary(d)}
     THEN StartPull(d)
     ELSE /\ push' = [push EXCEPT ![d].draft = Summary(d)]
          /\ Goto(d, "manifest")
          /\ UNCHANGED pull
  /\ UNCHANGED <<db, reconciled, cloud, count>>

UploadManifest(d) ==
  manifest' = [manifest EXCEPT
    ![d] = [rev |-> @.rev + 1, up |-> TRUE, lines |-> push[d].draft]]

WriteManifest(d) ==
  /\ pc[d] = "manifest"
  /\ UploadManifest(d)
  /\ pushHash' = [pushHash EXCEPT ![d] = {push[d].draft}]
  /\ StartPull(d)
  /\ UNCHANGED <<row, ledger, pullRev, reconciled, blob, count>>

\* The write, or the hash update after it, fails; the file may have landed.
WriteManifestFail(d) ==
  /\ pc[d] = "manifest"
  /\ Fault
  /\ manifest' = manifest \/ UploadManifest(d)
  /\ StartPull(d)
  /\ UNCHANGED <<db, reconciled, blob, written, nops>>

-----------------------------------------------------------------------------
(* The pull half.                                                          *)

\* Read p's manifest conditionally on the cached revision.  An unchanged
\* manifest is skipped, unless it advertises memory: then its body is used
\* but its revision is not cached again.
FetchManifest(d, p) ==
  /\ pc[d] = "fetch"
  /\ p \in pull[d].todo
  /\ IF ~manifest[p].up
     THEN /\ pullRev' = [pullRev EXCEPT ![d][p] = 0]
          /\ pull' = [pull EXCEPT ![d].todo = @ \ {p}]
     ELSE /\ UNCHANGED pullRev
          /\ LET changed == pullRev[d][p] # manifest[p].rev
                 used    == changed \/ p \in MemoryPeers
             IN  pull' = [pull EXCEPT
                   ![d].todo   = @ \ {p},
                   ![d].work   = IF used THEN @ \cup {p} ELSE @,
                   ![d].man[p] = IF used THEN manifest[p].lines ELSE @,
                   ![d].rev[p] = IF changed THEN manifest[p].rev ELSE 0]
  /\ UNCHANGED <<row, ledger, pushHash, reconciled, cloud, pc, push, count>>

FetchError(d, p) ==
  /\ pc[d] = "fetch"
  /\ p \in pull[d].todo
  /\ Fault
  /\ pull' = [pull EXCEPT ![d].todo = @ \ {p}, ![d].clean = FALSE]
  /\ UNCHANGED <<db, reconciled, cloud, pc, push, written, nops>>

\* One view of the local rows serves the whole pull.
BuildView(d) ==
  /\ pc[d] = "fetch"
  /\ pull[d].todo = {}
  /\ pull' = [pull EXCEPT ![d].view = LocalView(d)]
  /\ Goto(d, "peer")
  /\ UNCHANGED <<db, reconciled, cloud, push, count>>

\* A tags, journals, versions, chats or memory channel fails for peer p.
ChannelError(d, p) ==
  /\ pc[d] = "peer"
  /\ pull[d].rev[p] > 0
  /\ Fault
  /\ pull' = [pull EXCEPT ![d].bad = @ \cup {p}, ![d].clean = FALSE]
  /\ UNCHANGED <<db, reconciled, cloud, pc, push, written, nops>>

\* Go on with peer p of the pull w: its next chunk of `left', or its
\* tombstones when nothing is left.
NextChunk(d, p, w, left) ==
  \E c \in Chunks(w.man[p], left) :
    /\ pull' = [pull EXCEPT ![d] =
         [w EXCEPT !.from = {p}, !.left = left \ c, !.chunk = c,
                   !.got = [e \in Entries |-> Absent]]]
    /\ Goto(d, IF c = {} THEN "tombstones" ELSE "read")

NextPeer(d, p) ==
  /\ pc[d] = "peer"
  /\ p \in pull[d].work
  /\ NextChunk(d, p, [pull[d] EXCEPT !.work = @ \ {p}],
               ToPull(pull[d].view, pull[d].man[p]))
  /\ UNCHANGED <<db, reconciled, cloud, push, count>>

\* The reads of a chunk run concurrently; one of them returns.  A missing
\* blob is a warning that leaves the peer incomplete.
ReadBlob(d, e) ==
  /\ pc[d] = "read"
  /\ e \in pull[d].chunk
  /\ \E p \in pull[d].from :
       pull' = [pull EXCEPT
         ![d].chunk  = @ \ {e},
         ![d].got[e] = blob[p][e],
         ![d].bad    = IF Present(blob[p][e]) THEN @ ELSE @ \cup {p}]
  /\ UNCHANGED <<db, reconciled, cloud, pc, push, count>>

ReadError(d, e) ==
  /\ pc[d] = "read"
  /\ e \in pull[d].chunk
  /\ Fault
  /\ pull' = [pull EXCEPT ![d].chunk = @ \ {e}, ![d].clean = FALSE,
                          ![d].bad = @ \cup pull[d].from]
  /\ UNCHANGED <<db, reconciled, cloud, pc, push, written, nops>>

Got(d) == {e \in Entries : Present(pull[d].got[e])}

\* One transaction ingests what the chunk's reads returned, less the
\* entries whose own savepoint rolled back.  A pulled row gets no ledger row
\* and is not marked pending.
IngestChunk(d, failed) ==
  /\ pc[d] = "read"
  /\ pull[d].chunk = {}
  /\ \E p \in pull[d].from :
       /\ row' = [row EXCEPT ![d] = [e \in Entries |->
            IF e \in Got(d) \ failed
            THEN Merge(d, p, row[d][e], pull[d].got[e], ledger[d][e].ver > 0)
            ELSE row[d][e]]]
       /\ NextChunk(d, p,
            IF failed = {} THEN pull[d]
            ELSE [pull[d] EXCEPT !.clean = FALSE, !.bad = @ \cup {p}],
            pull[d].left)
  /\ UNCHANGED <<ledger, pushHash, pullRev, reconciled, cloud, push,
                 written, nops>>

Ingest(d) == IngestChunk(d, {}) /\ UNCHANGED faults

IngestError(d) ==
  /\ Fault
  /\ \E failed \in SUBSET Got(d) : failed # {} /\ IngestChunk(d, failed)

\* Give up on the current peer: it stays incomplete.
DropPeer(d) ==
  /\ Goto(d, "peer")
  /\ pull' = [pull EXCEPT
       ![d].from = {}, ![d].left = {}, ![d].clean = FALSE,
       ![d].bad = @ \cup pull[d].from,
       ![d].got = [e \in Entries |-> Absent]]

\* A wrong key, or the transaction itself, fails: the chunk rolls back and
\* the peer's other chunks and its tombstones are skipped.
IngestFatal(d) ==
  /\ pc[d] = "read"
  /\ pull[d].chunk = {}
  /\ Fault
  /\ DropPeer(d)
  /\ UNCHANGED <<db, reconciled, cloud, push, written, nops>>

\* Mutant: the tombstone is applied over whatever the row has become.
TombstonedAnyway(r, line) ==
  IF Present(r) THEN [r EXCEPT !.st = "purged", !.ts = line.ts] ELSE r

\* A tombstone is applied only over a row that is still older than it.  The
\* document stays in the row.
Tombstoned(r, line) ==
  IF Present(r) /\ r.ts < line.ts
  THEN [r EXCEPT !.st = "purged", !.ts = line.ts] ELSE r

\* Apply the peer's tombstones in one transaction.
ApplyTombstones(d) ==
  /\ pc[d] = "tombstones"
  /\ \E p \in pull[d].from :
       LET lines == pull[d].man[p] IN
       row' = [row EXCEPT ![d] = [e \in Entries |->
         IF e \in ToDelete(pull[d].view, lines)
         THEN Tombstoned(row[d][e], lines[e]) ELSE row[d][e]]]
  /\ Goto(d, "peer")
  /\ pull' = [pull EXCEPT ![d].from = {}]
  /\ UNCHANGED <<ledger, pushHash, pullRev, reconciled, cloud, push, count>>

TombstonesFail(d) ==
  /\ pc[d] = "tombstones"
  /\ Fault
  /\ DropPeer(d)
  /\ UNCHANGED <<db, reconciled, cloud, push, written, nops>>

\* Mutant: an incomplete peer keeps its revision.
CachedAnyway(old, rev, complete) == IF rev = 0 THEN old ELSE rev

\* What becomes of the cached revision `old' of a peer whose manifest was
\* fetched at revision rev (0: not fetched, or unchanged).
Cached(old, rev, complete) ==
  IF rev = 0 THEN old ELSE IF complete THEN rev ELSE 0

\* Cache the revision of every fetched manifest whose payloads have all
\* landed, clear it for the others.
FinishPull(d) ==
  /\ pc[d] = "peer"
  /\ pull[d].work = {}
  /\ pullRev' = [pullRev EXCEPT ![d] = [p \in Devices |->
       Cached(pullRev[d][p], pull[d].rev[p], p \notin pull[d].bad)]]
  /\ Goto(d, IF pull[d].clean THEN "sweep" ELSE "idle")
  /\ pull' = [pull EXCEPT ![d] = NoPull]
  /\ UNCHANGED <<row, ledger, pushHash, reconciled, cloud, push, count>>

\* After a clean pull the retention sweep purges the trashed entries that
\* are due (any of them, time being abstracted) and re-arms the own-cloud
\* check when it purged some.
Sweep(d) ==
  /\ pc[d] = "sweep"
  /\ \E due \in SUBSET {e \in Entries : /\ row[d][e].st = "trashed"
                                        /\ row[d][e].ts < MaxStamp} :
       LET purged == [e \in Entries |->
                        IF e \in due THEN Purged(row[d][e], nops + 1)
                        ELSE row[d][e]]
       IN  IF due = {} THEN UNCHANGED <<row, ledger, reconciled, written, nops>>
           ELSE /\ nops < MaxOps
                /\ nops' = nops + 1
                /\ row' = [row EXCEPT ![d] = purged]
                /\ ledger' = [ledger EXCEPT ![d] = [e \in Entries |->
                     IF e \in due THEN MarkedPending(ledger[d][e])
                     ELSE ledger[d][e]]]
                /\ written' = [e \in Entries |->
                     IF e \in due THEN written[e] \cup {WriteOf(purged[e])}
                     ELSE written[e]]
                /\ reconciled' = [reconciled EXCEPT ![d] = FALSE]
  /\ Goto(d, "idle")
  /\ UNCHANGED <<pushHash, pullRev, cloud, push, pull, faults>>
-----------------------------------------------------------------------------
(* Restarts, and what other programs do to the cloud folder.               *)

\* The operation is dropped where it stands: the stall guard gives up on it,
\* or the process dies (and its session memory with it).
Interrupt(d) ==
  /\ Fault
  /\ \/ ~Idle(d) /\ UNCHANGED reconciled
     \/ reconciled[d] /\ reconciled' = [reconciled EXCEPT ![d] = FALSE]
  /\ Goto(d, "idle")
  /\ push' = [push EXCEPT ![d] = NoPush]
  /\ pull' = [pull EXCEPT ![d] = NoPull]
  /\ UNCHANGED <<db, cloud, written, nops>>

LoseBlob(d, e) ==
  /\ CloudLoss
  /\ Present(blob[d][e])
  /\ Fault
  /\ blob' = [blob EXCEPT ![d][e] = Absent]
  /\ UNCHANGED <<db, reconciled, manifest, pc, push, pull, written, nops>>

LoseManifest(d) ==
  /\ CloudLoss
  /\ manifest[d].up
  /\ Fault
  /\ manifest' = [manifest EXCEPT ![d].up = FALSE]
  /\ UNCHANGED <<db, reconciled, blob, pc, push, pull, written, nops>>

-----------------------------------------------------------------------------
PushStep(d) ==
  \/ ListOwnFolder(d) \/ RequeueMissing(d) \/ MarkReconciled(d)
  \/ ListPending(d) \/ Snapshot(d) \/ Upload(d) \/ Stamp(d)
  \/ BuildManifest(d) \/ WriteManifest(d)

PullStep(d) ==
  \/ \E p \in Devices : FetchManifest(d, p) \/ NextPeer(d, p)
  \/ \E e \in Entries : ReadBlob(d, e)
  \/ BuildView(d) \/ Ingest(d) \/ ApplyTombstones(d) \/ FinishPull(d) \/ Sweep(d)

SyncFault(d) ==
  \/ ReconcileFail(d) \/ PruneFail(d) \/ UploadFail(d) \/ WriteManifestFail(d)
  \/ \E p \in Devices : FetchError(d, p) \/ ChannelError(d, p)
  \/ \E e \in Entries : ReadError(d, e)
  \/ IngestError(d) \/ IngestFatal(d) \/ TombstonesFail(d) \/ Interrupt(d)

ExternalLoss(d) == LoseManifest(d) \/ \E e \in Entries : LoseBlob(d, e)

Next ==
  \/ \E d \in Editors : UserWrite(d)
  \/ \E d \in Devices : \/ StartSync(d) \/ PushStep(d) \/ PullStep(d)
                        \/ SyncFault(d) \/ ExternalLoss(d)
                        \/ \E e \in Entries : PushEntry(d, e)

Spec == Init /\ [][Next]_vars

\* The scheduler keeps starting cycles, and a started operation goes on.
Fairness ==
  \A d \in Devices : /\ WF_vars(PushStep(d) \/ PullStep(d))
                     /\ SF_vars(StartSync(d))

FairSpec == Spec /\ Fairness

-----------------------------------------------------------------------------
(* Properties *)

\* Every variable has its type.
TypeOK ==
  /\ row \in [Devices -> [Entries -> Row]]
  /\ ledger \in [Devices -> [Entries -> Ledger]]
  /\ pushHash \in [Devices -> SUBSET Lines]
  /\ pullRev \in [Devices -> [Devices -> Nat]]
  /\ reconciled \in [Devices -> BOOLEAN]
  /\ blob \in [Devices -> [Entries -> Row]]
  /\ manifest \in [Devices -> [rev : Nat, up : BOOLEAN, lines : Lines]]
  /\ pc \in [Devices -> PCs]
  /\ push \in [Devices -> Push]
  /\ pull \in [Devices -> Pull]
  /\ written \in [Entries -> SUBSET Write]
  /\ nops \in 0..MaxOps
  /\ faults \in 0..MaxFaults

\* Merging never invents a state: whatever a device shows of an entry it
\* has not purged (its Trash state, stamp and fields together) is what one
\* user write made it, on whichever device (merge_metadata_lww takes one
\* side whole).
RowsAreWrites ==
  \A d \in Devices, e \in Entries :
    row[d][e].st \in {"live", "trashed"} => WriteOf(row[d][e]) \in written[e]

\* What a device shows of an entry: of a purge only the tombstone.
ShownOf(r) == [st |-> r.st, ts |-> r.ts, meta |-> IF r.st = "purged" THEN 0 ELSE r.meta]

Register == INSTANCE Register WITH
  writes <- written, shown <- [d \in Devices |-> [e \in Entries |-> ShownOf(row[d][e])]]

\* Seen through the rows, every step is a write on top of what the device
\* shows, or brings it whole writes of others that are not older: no pull mixes
\* two writes, buries a newer one, or shows a purge nobody made.
ImplementsRegister == Register!RegisterSpec

\* An entry's stamp never goes back on a device, and its fields or Trash
\* state change only with a newer stamp, or, at an equal stamp, by ingesting
\* the blob of a peer with a greater device id.  A frozen diff view, a stale
\* tombstone or a blob older than its manifest must not undo a newer write.
MovesForward ==
  \A d \in Devices, e \in Entries :
    LET old == row[d][e]
        new == row'[d][e]
    IN  /\ new.ts >= old.ts
        /\ Present(old) => Present(new)
        /\ new.ts = old.ts =>
             \/ WriteOf(new) = WriteOf(old)
             \/ ~Present(old)
             \/ \E p \in pull[d].from : p > d
RowsMoveForward == [][MovesForward]_row

\* No step of any device drops body text from a row: edits add to it and
\* pulls merge into it, whichever side wins the other fields.
KeepsText ==
  \A d \in Devices, e \in Entries : row[d][e].doc \subseteq row'[d][e].doc
TextNeverDropped == [][KeepsText]_row

\* All the body text an entry holds in the cloud.
CloudText(e) == UNION {blob[d][e].doc : d \in Devices}

\* Body text that exists on no cloud folder is only in rows marked pending:
\* a save during an upload, a failed upload, a restart or a merge must not
\* leave text that no later push would send.
OnlyPendingTextIsLocal ==
  \A d \in Devices, e \in Entries :
    ledger[d][e].pending \/ row[d][e].doc \subseteq CloudText(e)

\* When the revision of a peer's current manifest is cached, every live or
\* trashed entry it lists is present: nothing it describes was skipped.
CachedMeansSeen ==
  \A d, p \in Devices :
    manifest[p].up /\ pullRev[d][p] = manifest[p].rev =>
      \A e \in Entries :
        manifest[p].lines[e].ver > 0 /\ manifest[p].lines[e].st # "purged" =>
          Present(row[d][e])

\* No cycle has anything left to do.
Quiet(d) ==
  /\ Idle(d)
  /\ Pending(d) = {}
  /\ manifest[d].up
  /\ manifest[d].lines = Summary(d)
  /\ pushHash[d] = {Summary(d)}

Drained(d, p) ==
  \/ p \notin MemoryPeers /\ pullRev[d][p] = manifest[p].rev
  \/ /\ ToPull(LocalView(d), manifest[p].lines) = {}
     /\ ToDelete(LocalView(d), manifest[p].lines) = {}

Settled == \A d \in Devices : Quiet(d) /\ \A p \in Devices \ {d} : Drained(d, p)

\* No two writes to e carry one stamp.
NoTie(e) == \A a, b \in written[e] : a.ts = b.ts => a = b

Gone(r) == r.st \in {"absent", "purged"}

\* When no device has anything left to push or pull, all devices show the
\* same fields and Trash state for every entry (entries whose writes all
\* have different stamps; an entry purged before a device ever saw it may
\* be absent there).
SettledDevicesAgree ==
  Settled => \A e \in Entries : NoTie(e) =>
    \A d, p \in Devices : \/ Gone(row[d][e]) /\ Gone(row[p][e])
                          \/ WriteOf(row[d][e]) = WriteOf(row[p][e])

\* d has yet to list its own folder in this session.
MustList(d) == ~reconciled[d] /\ pc[d] \notin {"requeue", "prune"}

\* A published blob or a manifest that vanished comes back once its device
\* lists its own folder again, which the first cycle of a session and the
\* first one after a purge do.
LostFilesReturn ==
  /\ \A d \in Devices, e \in Entries :
       (MustList(d) /\ ledger[d][e].ver > 0 /\ ~Present(blob[d][e]))
         ~> Present(blob[d][e])
  /\ \A d \in Devices : (MustList(d) /\ ~manifest[d].up) ~> manifest[d].up

\* Once users and faults stop, every write is published: from some point on
\* nothing is pending.
EventuallyNothingPending == <>[](\A d \in Devices : Pending(d) = {})

\* Nothing a device has published is missing from its folder.
NothingLost ==
  \A d \in Devices :
    manifest[d].up /\ \A e \in Entries : ledger[d][e].ver > 0 => Present(blob[d][e])

\* Once users and faults stop, and if no folder still lacks a file, every
\* device gets the newest stamp of every entry that is not purged.
EventuallyDrained ==
  <>[]NothingLost =>
    <>[](\A d, p \in Devices, e \in Entries :
           \/ Gone(row[d][e]) /\ Gone(row[p][e])
           \/ row[d][e].ts = row[p][e].ts)

-----------------------------------------------------------------------------
(* The inductive invariant behind OnlyPendingTextIsLocal and               *)
(* TextNeverDropped, for vaults whose entries are created with a body and  *)
(* whose cloud loses nothing.                                              *)

\* A row that is not there holds nothing.
AbsentRows ==
  \A d \in Devices, e \in Entries : ~Present(row[d][e]) => row[d][e] = Absent

HasBody(r) == Present(r) => 0 \in r.doc

\* Every copy of an entry holds the creation body, so no two are disjoint.
OneLineage ==
  \A d \in Devices, e \in Entries :
    /\ HasBody(row[d][e]) /\ HasBody(blob[d][e]) /\ HasBody(pull[d].got[e])
    /\ HasBody(push[d].snap)

\* A device publishes only text of its own row, and pulls only cloud text.
TextComesFromRows ==
  \A d \in Devices, e \in Entries :
    /\ blob[d][e].doc \subseteq row[d][e].doc
    /\ pull[d].got[e].doc \subseteq CloudText(e)

\* The entry whose push is under way: its snapshot lies between the blob and
\* the row, and is the row's text as long as the version has not moved.
PushInFlight ==
  \A d \in Devices : pc[d] \in {"upload", "stamp"} =>
    /\ \A e, f \in push[d].now : e = f
    /\ \A e \in push[d].now :
         /\ blob[d][e].doc \subseteq push[d].snap.doc
         /\ push[d].snap.doc \subseteq row[d][e].doc
         /\ push[d].ver <= ledger[d][e].ver
         /\ push[d].ver = ledger[d][e].ver => row[d][e].doc = push[d].snap.doc
         /\ pc[d] = "stamp" => push[d].snap.doc = blob[d][e].doc

TextInv ==
  /\ AbsentRows /\ OneLineage /\ TextComesFromRows /\ PushInFlight
  /\ OnlyPendingTextIsLocal

-----------------------------------------------------------------------------
(* What comments of the code claim and the code does not give              *)

\* entry_sync.rs on empty documents: an empty remote never replaces a local
\* body.
EmptyNeverReplacesBody ==
  [][\A d \in Devices, e \in Entries :
       row[d][e].doc # {} => row'[d][e].doc # {}]_row

\* engine.rs on disjoint documents: merges being commutative, devices
\* converge.  When nothing is left to do, rows that hold the same write hold
\* the same text.
SettledTextAgrees ==
  Settled => \A e \in Entries, d, p \in Devices :
    row[d][e].st = "live" /\ WriteOf(row[d][e]) = WriteOf(row[p][e]) =>
      row[d][e].doc = row[p][e].doc

\* engine.rs on committing a manifest revision: it is cached only after
\* every payload the manifest describes has landed.
CachedMeansCurrent ==
  \A d, p \in Devices :
    manifest[p].up /\ pullRev[d][p] = manifest[p].rev =>
      \A e \in Entries :
        manifest[p].lines[e].ver > 0 /\ manifest[p].lines[e].st # "purged" =>
          row[d][e].ts >= manifest[p].lines[e].ts

\* queries.rs on purging: an edit made elsewhere after the trash wins over
\* the purge, so with nothing left to do no device shows the entry live while
\* another one has purged it.
EditsOutlivePurges ==
  Settled => \A e \in Entries, d, p \in Devices :
    ~ (row[d][e].st = "live" /\ row[p][e].st = "purged")
=============================================================================
