# Memlore synchronisation: models, checks and proofs

Memlore is a local-first, end-to-end encrypted journal (Tauri: Rust core,
React UI). Each device keeps an SQLCipher database; devices of one vault meet
only through files in a cloud or local folder. This directory models how those
devices stay in agreement.

Source paths below are relative to `src/src-tauri/src` unless they start with
`crates/` (`src/src-tauri/crates`). `PROJECT.json` maps every definition to the
lines it models.

## 1. The system

| component | source | state it keeps | operations | what makes it correct |
|---|---|---|---|---|
| entry synchronisation | `sync/engine.rs`, `sync/entry_sync.rs`, `crates/memlore-core/src/metadata.rs`, `commands/sync.rs` | cloud blobs and manifest per device; locals of one cycle | push half (own-folder check, pending entries, manifest), pull half (manifests, diff, chunks, merge, tombstones), push of one entry | no text lost, no newer write undone, everything published and pulled, devices agree |
| entry store and ledger | `db/queries.rs`, `commands/entries.rs`, `db/schema.rs` | `entries`, `sync_state`, cached push and pull revisions | create, edit, trash, restore, purge, mark pending, stamp synced | every write is pending until its version is published |
| Trash retention sweep | `commands/entries.rs` | trashed entries, clock high-water mark | trash, restore, purge; purge what expired, at unlock or after a clean pull | a jumping clock purges nothing early |
| recovery lease and jobs | `sync/recovery.rs`, `sync/sync_control.rs`, `commands/gdrive.rs` | `control.json` (generation, lease), lease marker, local job row | acquire, resume, authorize each write, finalize, release | one job rebuilds the cloud at a time and a crashed one can go on |
| conflict copies | `sync/engine.rs` (`resolve_disjoint_docs`) | entries with an import source | keep the losing body as a copy | no body lost, no endless copies |
| master key rotation | `sync/rotation/*`, `commands/rotation.rs` | `rotation_job` row, stashed masters and phrase | rotate, reset the phrase, revoke a device; local commit, publication, local tail, resume | no committed content key is lost, and a job that stopped anywhere can go on |
| keyring and pairing | `sync/keyring_v2/*`, `commands/crypto.rs` | `_recovery.json`, `_content.json`, `_meta.json`; a copy in boot file and settings | publish, detect a change, re-pair, publish again | the three files belong together; nobody encrypts with a key others cannot get |
| outbox import | `sync/outbox_import.rs`, `crates/memlore-core/src/outbox.rs` | `web_outbox_imports` rows, `outbox-acks.bin` | read, decide each field, apply, create, refuse, acknowledge | desktop edits win, an entry is created once, typed text is kept |
| web companion | `src/web/src/backend` | drafts, pushed marks, last pull, settled changes | create, edit, type, upload, pull, settle, requeue, drop | the user is told the truth; every draft settles |
| scheduler | `sync/scheduler.rs` | last edit, last clean cycle, failures and backoff window, flags | interval, debounce, launch, backoff, kick, reset | a cycle is always due again, and failing ones do not follow each other at every tick |
| providers | `sync/gdrive_provider.rs`, `sync/local_provider.rs` | folder ids, revisions | read, write, list, compare-and-swap | a write lands whole or not |
| media | `sync/media_sync.rs`, `sync/media_cache.rs`, `commands/media.rs` | media rows, upload paths, cloud files | upload, re-advertise, adopt, prune | a referenced file is never pruned |
| side channels | `sync/version_sync.rs`, `sync/index_sync.rs`, `sync/embedding_sync.rs` | versions, month index, vectors | push and pull beside entries | rebuildable |
| unlock and database encryption | `utils/boot_file.rs`, `db/conversion.rs`, `commands/crypto.rs` | boot file, database key | unlock, change password, convert | one of the two always opens the other |
| locks and vaults | `db/invisible_vaults.rs`, `commands/second_lock.rs`, `commands/invisible_lock.rs` | lock flags, session | lock, unlock, hide | visibility of queries |
| AI, importers, agent interface, UI, site | `ai/`, `commands/import.rs`, `mcp/`, `src/web`, `src/src`, `src/website` | derived or presentational | - | - |

Devices never call each other. What interacts is: the user's commands and the
sync cycle on one device (they share the database, one transaction at a time,
and the cycle holds no lock while it talks to the cloud); and the cycles of
several devices (they share the cloud folder: a device writes only its own
subfolder and reads those of its peers, at any moment of the other's cycle).
The keyring is one set of files that every device may replace, three writes with
no lock around them. The web companion is a further kind of peer: it writes only
an outbox, every desktop imports the same file on its own, and what became of it
travels back in manifests and acks.

What is hard there: a save between the read of an entry and its stamp; a diff
taken once and used for a whole pull; a manifest that describes rows newer than
the blobs beside it; caches that say "nothing to do" (the pushed manifest hash,
the pulled manifest revision, the own-folder check) and are wrong after a
failure; calls that fail after landing; restarts at every await; stamps of one
second's resolution; relays among three devices; a rotation that stops between
the files of the cloud, the boot file and the database; two of them at once; an
import that dies between its pending record, the body and the fields; decisions
that reach the browser before the rows they speak of.

## 2. Modules

    Register           what synchronisation promises: an entry is a register that only
                       moves to whole writes, forward
    EntrySync          the entry store, the ledger and the sync cycle, n devices;
                       implements Register
      EntrySyncProofs  theorems about rows and their text
      EntrySyncPullProofs  theorems about what pulls bring, and the refinement
      MCEntrySync      constants of the runs
    RecoveryLease      control.json, the lease marker, rebuild jobs and wipes, n devices
      RecoveryLeaseProofs, MCRecoveryLease
    Vault              what the keyring promises: epochs, a master, content keys
    KeyRotation        the keyring files, boot file, settings and jobs, n devices; implements Vault
      KeyRotationProofs        the cloud files, the jobs, the refinement
      KeyRotationDeviceProofs  what devices hold: boot files, stashes, sessions
      MCKeyRotation
    OutboxImport       the outbox of one browser and its import by n desktops
      OutboxImportProofs, MCOutboxImport
    TrashRetention     the retention sweep of one device whose wall clock may be wrong
      TrashRetentionProofs, MCTrashRetention
    SyncScheduler      when one device starts a cycle by itself
      SyncSchedulerProofs, MCSyncScheduler

EntrySync and RecoveryLease do not share state: while a lease is held `authorize_recovery_push`
refuses every write of a normal cycle, and after a generation change the devices
write to a new folder (`generations/g-N`). EntrySync is one generation of it.
KeyRotation hands the others a key that all devices can obtain. OutboxImport has a
sync cycle of its own, reduced to what one entry needs of EntrySync: a strictly
newer line of a manifest replaces the row, and bodies merge. TrashRetention says
when EntrySync's purge by the sweep may happen, and SyncScheduler when its cycles
start; EntrySync takes the first as possible at any time and the second as fair.

### EntrySync: state and steps

| model | code |
|---|---|
| `row[d][e]` | row of `entries`: Trash state (`is_deleted`, `trashed_at`), `updated_at`, document, all other fields as one unit |
| `ledger[d][e]` | row of `sync_state`: `local_version`, `sync_status` |
| `pushHash[d]` | hash of the manifest last pushed (`push_hashed_metadata_json`) |
| `pullRev[d][p]` | cached revision of peer p's manifest |
| `reconciled[d]` | the session flag "own cloud reconciled" |
| `blob[d][e]`, `manifest[d]` | `{d}/entries/{e}.bin`, `{d}/metadata.json` |
| `pc`, `push`, `pull` | where the device's one sync operation stands, and its locals |
| `written`, `nops`, `faults` | history of user writes; counters that bound the runs |

Every user command is one action, because it is one database transaction, and
includes the marking as pending. A cycle is split wherever the code releases the
database or awaits the cloud:

    reconcile -> requeue -> prune -> list -> push -> upload -> stamp -> (push ...)
      -> manifest -> fetch -> peer -> read ... -> tombstones -> (peer ...) -> sweep

Every cloud access has its failing variant, an upload or a manifest write that
fails may have landed, an ingest may fail for some entries of a chunk or as a
whole, `Interrupt` drops the operation at any step (a crash, or the stall guard)
and also forgets the session, and `LoseBlob`/`LoseManifest` take files away.

Data is abstracted as far as the properties allow. A document is a set of
editor operations and the CRDT merge is union; operation 0 is the body an entry
was created with, so two documents with no operation in common are the "disjoint
lineages" of `entry_sync.rs`. `meta` names the write the other fields come from,
since `merge_metadata_lww` takes one side whole. The clock is any stamp at least
the one the code's `max(updated_at + k, now)` allows, so any skew is covered.

`Register` says what a reader of one device may rely on: `writes[e]` is what users
wrote to an entry, `shown[d][e]` what d shows of it. A step writes on top of what
its device shows (`Write`, with a greater stamp) or takes over writes of others
that are no older than what it shows (`Learn`), whole, in any order. The mapping
(`ImplementsRegister`) reads the rows, without their documents, and the history
`written`; of a purge only the tombstone is shown, since nothing else of it
travels. At equal stamps `Learn` allows either write, as the tie-break depends on
whose folder a blob came from (`RowsMoveForward` says more of it).

Simplifications to know of: entry ids are minted by the app (imported ids, and
the conflict copies they cause, are not modelled); the editor holds the document it
saves over; a provider write replaces a file whole and always returns a
revision; the two reads of an unchanged manifest that advertises memory are one
step; the requeue of the own-folder check reads its two listings in one step
(only a loss could come between them); the tombstone cascade removes media and
index rows, which are not state here; ingest of a media tombstone and the
re-advertising of media, which also move `updated_at`, and the adoption of
orphaned media are not modelled; the unlock-time sweep is the sweep
after a pull.

### RecoveryLease: state and steps

| model | code |
|---|---|
| `control` | `.meta/control.json`: `recovery_generation`, `recovery_lease` |
| `marker` | `.meta/_recovery_marker.json`, a copy of the lease record |
| `payload` | the rest of the cloud folder: whole, partial (deleted or uploaded in part) or wiped |
| `job[d]`, `made[d]` | the row of `sync_recovery_jobs` that is not completed; rows created so far |
| `pc[d]`, `op[d]` | the one recovery operation that runs on the device (`SyncInProgressGuard`) and its locals |
| `overwritten` | history: an unconditional write has landed over a `control.json` other than the one it was compared with |

    rebuild   acquire -> orphan -> swap -> confirm -> mark -> create -> place -> check
                -> hold -> (fence -> delete) ... -> cleared -> upload -> uploaded
    finalize  acquire ... hold -> verify -> release -> unmark -> drop -> released -> sync
    wipe      acquire ... hold -> (fence -> delete) ... -> cleared -> release ...

Each read or write of the two cloud files is a step, `Fail` ends an operation at
any step (an error, a restart), and `CancelJob` may fall between any two, because
the command looks at the job's phase only. Each swap of `control.json` goes one of
two ways: the provider compares and writes in one request (an `If-Match` with an
ETag), or it reads the revision, compares, and writes unconditionally in a later
step, as it does when Drive sends no ETag (`gdrive_provider.rs:2891`; often,
says `:2847`) and as folder providers do between machines
(`local_keyring_v2.rs:222`). Nothing tells beforehand which it will be, so the
model leaves it open for each swap.

Simplifications to know of: the nonce of a record is dropped, since an attempt
that meets the record of its own job resumes it; the marker is read and
conditionally deleted in one step, and its creation (existence check, upload,
reconciliation of duplicates) is one step after the read of `control.json`; the
phases verify, commit and finalize are re-entered as transfer is; a job's status
failed or running changes nothing a step depends on and is left out;
`control.json` exists from the start (`bootstrap_sync_control`); a start that is
refused changes nothing and is no step; the upload is one step, checked against
the fence at its end (each of its writes is checked); the normal cycle after the
release is one step. `cloud_to_local` jobs take no lease and are not modelled.
Normal cycles of other devices are not modelled either: they check the fence and
then write (`gdrive_provider.rs:701`), so a lease may be taken in between, which no
property here speaks of.

### KeyRotation and Vault: state and steps

| model | code |
|---|---|
| `meta`, `slot`, `content` | `_meta.json` (the commit marker), `_recovery.json`, `_content.json` |
| `boot[d]` | the plaintext boot file: password, master, content list, recovery slot |
| `db[d]` | settings: password, fingerprint, vault epoch, recovery slot, content list, force-re-pair flag, dirty flag |
| `jobs[d]`, `stash[d]`, `words[d]` | open `rotation_job` rows, the stashed masters, the stashed phrase |
| `mem[d]` | the unlocked session: master, content keys, whether the resume dialog is up |
| `minted`, `known` | masters so far; phrases a user has been shown |

    rotate     boot -> tx -> load -> check -> recovery -> content -> meta
                 -> settings -> unstash -> done -> return
    resume     boot or check ... as above; finalize: settings ...
    re-pair    identity -> list -> file -> adopt -> recheck -> bump -> clear
    password   pwboot -> gate [-> upcontent -> uprecovery -> upmeta]
    recovery   reboot

Each step is one transaction, one rename or one cloud write. `Fail` makes a step
return an error, `Crash` ends the process between any two; what a restart then
finds is what the steps left on disk. A key is a number, its fingerprint is the
number, and a wrapped key names what opens it. `Vault` says what this amounts to:
an epoch, a master and content keys; a rotation is one step that adds keys and
loses none; a device's epoch never falls. The mapping reads `_meta.json` and the
keys of `_content.json` that it covers (`ImplementsVault`).

`CoreSpec` is what the passing run and the theorems are about. It leaves out four
things that `Spec` has, each because the code does not keep the properties with
it: publication of the keyring from local settings after a password change
(`Republish`, `RepublishDirty`, `Upload...`; the run `rollback`), a crash between
the settings and the boot file of a re-pair, the dismissal of a resume dialog
whose job was given up, and, by `Overlap = FALSE`, two devices that are both
between their check of the epoch and their commit marker, where no lock or
conditional write excludes the second.

Simplifications to know of: device slots hold no keys and are left out, so a
revocation is a rotation; first-time setup and the first pairing are the initial
state; the stages enumerate and re-encrypt of `rotation_job` are not reached by
the commands; the key of the database and its `PRAGMA rekey`, biometrics and the
phrase typed again when a revocation is resumed are not state.

### OutboxImport: state and steps

| model | code |
|---|---|
| `row[d]`, `cloud[d]` | the entry in d's database; d's manifest line and entry file |
| `rec[d]` | d's row of `web_outbox_imports`: outcome, revision, edge, decisions, pending plan |
| `acks[d]` | d's `outbox-acks.bin` |
| `file`, `draft` | the uploaded outbox file; the draft and its pushed mark |
| `synced`, `resolved`, `notices` | what the browser pulled; changes it has settled; those it reported as replaced |
| `last`, `row[d].desk` | auxiliary: stamp of the last desktop write, anywhere and in a row |
| `cut` | auxiliary: whether a crash has ever cut an import in two |

    desktop    idle -> (Sync) import -> Apply | Create -> publish -> acks -> idle
                                     -> Refuse -> acks;  Skip | AwaitPull | Defer -> acks or idle
    browser    WebCreate, WebEdit, WebType; WebPush; WebPull; WebDrop | WebSettle

`Apply` is the import of a whole file into a live row, with the decision for each
field (`evaluate_field`), the chain of edges by which the browser's earlier
changes explain the row (`chain_reaches`), and the record. `Cut` is the same
import ended by a crash: the pending record first, then the body, then a prefix
of the fields. A desktop value is a positive number, a web value the negative of
the number of its save, and the body the set of web changes merged into it.
Stamps are `max(updated_at + k, now)`; `Synchronised` says that clocks agree, and
otherwise `now` is anything up to one past the newest stamp.

Simplifications to know of: one browser, one tab, one entry; v1 entry intents
only; the revision of the outbox file is its content (Drive's is a checksum);
tags, media and the 30-day rules are left out, and so are the refusals for an
empty base and for a locked journal, and the read budgets; what a desktop types
into the body is not modelled, only that the browser's text is kept.

### TrashRetention: state and steps

| model | code |
|---|---|
| `real`, `offset` | the monotonic clock (`monotonic_secs_with_sleep`); what the wall clock adds to it |
| `watermark` | the setting `trash_sweep_last_run` |
| `session` | `SWEEP_SESSION`: base and start of this launch's sweeps |
| `rows[e]` | live, in Trash (with `trashed_at`), swept or purged |
| `since`, `owed` | auxiliary: when and how an entry entered Trash; how long it must stay at least |

The steps are the commands (`Trash`, `Leave`), a pull that merges a trashed row
with any stamp of a peer (`PullTrash`: clamp, merge, floor), the sweep (`Seed` the
first time, then `Sweep`), a day passing, the clock being set, and `Quit`. The
unit is the day. A sweep may run at any moment, which covers the unlock-time one
and the one after a clean pull; a wipe of the device's data, which keeps the
watermark, and a monotonic clock that cannot be read (it then counts nothing) are
left out.

### SyncScheduler: state and steps

| model | code |
|---|---|
| `quiet`, `synced`, `newer` | ages of `LastEditState` and `last_sync_at`, and which is later |
| `pending`, `unsaved` | some row is pending; auxiliary: the last edit is on no cloud |
| `retry`, `flags`, `launched` | `RetryState`, `retry_kick` and `retry_reset`, `on_launch_done` |
| `slot`, `cycle`, `outcome` | `SyncInProgressGuard`, how far its cycle is, what the loop is waiting for |
| `fires`, `stale` | auxiliary: ages of the loop's last cycles in a row of failures; a reset not yet followed by a cycle |

`Tick` is one turn of `run_loop` up to the spawned cycle, with the order reset,
sleep, kick, rules that the code has; `Report` is the rest of the turn. A cycle is
its push, its end (`Finish`, with the stamp) or its failure, so that edits, clicks,
locks and time come between. Times are kept as distances from the wall clock, cut
off at `Cap`, in ticks: the graph is finite without a bound on time, and a clock
set back makes ages fall. Sync is configured and enabled throughout; a locked
app's cycle ends at the copy of the keys, whatever the checks before it say.

## 3. Runs

Values common to the runs: devices are the numbers the tie-break compares;
device 1 has published the shared entry, if there is one, and everyone has it. Bounds: `MaxStamp`
on stamps, `MaxOps` on user writes, `MaxFaults` on failures, restarts and losses,
`MaxActive` on devices with an operation in flight. Two writes are what it takes
for a conflict, or for a save during the upload of another; three stamps leave
room for an older, an equal and a newer second write; one fault at any step
reaches every half-done state, since later steps do not depend on how many came
before.

| run | instance | shows |
|---|---|---|
| `core` | 2 devices, both writing and syncing at once | types; with nothing left to do both devices show one state; rows only move forward; no step drops text |
| `faults` | 2 devices, one creates two entries or creates one and edits it, one failure or restart anywhere, chunks of one | text that is on no cloud folder is in a pending row; a cached manifest revision hides no unread entry; the proofs' inductive invariant |
| `three` | 3 devices, an entry in Trash, one cycle at a time | every shown state is one user's write; agreement, also through relays; the rows implement `Register` |
| `live` | fair cycles, one failure or one lost file | from some point on nothing is pending and, unless a file stays lost, every device has the newest stamp; a lost blob or manifest comes back once its device lists its folder |
| `lease` | 2 devices, 2 jobs each, 2 generations, either kind of swap | the marker names the holder while it works. Until an unconditional write lands over a `control.json` it was not compared with: `control.json` names the holder too; no marker without its lease; no partial folder without a lease; a fenced job owns its lease; the lease is handed over only through release |
| `rotation` | 2 devices, 2 masters minted, 2 faults, 2 passwords | types; the keyring is whole or a job can make it so; only an overtaken device may push under a key the cloud never had; jobs can resume; the password opens the boot file; the keyring implements `Vault` |
| `rollback` | 2 devices, 1 master minted, with republication | finding, below |
| `outbox` | 2 desktops, 1 created entry, 2 saves, 1 desktop write | desktop edits win |
| `outbox_alone` | 1 desktop, entry there or created, 2 saves, 2 desktop writes or wipes, 1 fault, cut imports | as `outbox`, and: typed text is kept, notices are true unless an import was cut, created once, drafts settle |
| `outbox_crash` | 1 desktop, an edit between a cut import and its resumption | finding, below |
| `retention` | 1 entry, 4 days of retention, a clock up to 6 days off either way, old and new stamps of peers | nothing is swept before its time by the real clock; a right clock keeps everything for the retention; what is due is swept |
| `scheduler` | interval 2, first window and cooldown 3, a sleeping machine, 2 failures, the slot taken once, fair | types; Sync now leaves nothing of earlier failures; focus changes do not defeat the backoff; what is pending goes out, unless the app is locked |

Two generations are what it takes for a job to be overtaken, finished or wiped by
another device while one of its writes is still to land; two jobs, for a
cancelled one to be followed by another. With a third generation, in which the
overtaken job is taken up again, `lease` also passes (7,753,436 states, too long
to be kept). The two devices are interchangeable there (`Perms`). `lease` has no deadlock check: with no generation and
no job left there is nothing to do; neither have the rotation and outbox runs,
for the same reason. Two masters are what it takes for a rotation to be
overtaken by another and for a third epoch to start from it; two faults, for a
resumption to be interrupted. Two saves are what it takes for a change to chain
on one that is already applied, or for text beside a field; two desktop writes,
for Trash and Restore. `outbox` runs on one field; with two, `outbox_alone`
passes as well but takes too long to be kept, and with the entry there from the
start (`Starts = {TRUE}`) so does `outbox`. `outbox_alone` also passes with
`MaxSeq = 3` and `MaxRequeues = 1` (3,277,935 states, too long to be kept). In
`retention` the clock can be off
by more than the retention either way, and there are days enough for a session,
an entry's whole stay and a relaunch. In `scheduler` the cooldown is longer than
two ticks, so that a loop that honoured every kick would be seen; two failures
give the three cycles that `NoChurn` is about. Its clock is never set back,
which would make the graph too large beside the rest; with `Steps <-
TicksAndSetBacks`, `MaxSetBacks = 1`, `MaxFaults = 1`, `MaxOthers = 0`,
`OnLaunch = FALSE`, `Base`, `MaxBackoff` and `Cooldown` 1, `PendingGoesOut`
holds too, and the theorems are for any steps.

Agreement (`SettledDevicesAgree`) is stated for entries whose writes have
distinct stamps (ties are below) and for peers whose manifests are re-read every
cycle, which is what an advertised memory channel causes; without it the stale
cache below leaves devices apart. The theorem `SettledAlwaysAgree` has the same
condition (`Devices \subseteq MemoryPeers`).

Fairness (`FairSpec`): weak fairness of each device's next cycle step, since the
executor resumes a ready future, and strong fairness of `StartSync`, since the
scheduler's interval rule makes a cycle due again after every run, with capped
backoff after failures. (Strong, because the bound `MaxActive` may disable it at
times.) Nothing is assumed of users or faults.

`OutboxImport` has weak fairness of each desktop's cycle steps, taken together,
and of the browser's upload, pull, drop and settling, which its sync loop runs one
after another. `DraftsSettle` is about behaviours where no import stays cut, and
its end state allows a draft that waits for an entry in Trash or that has used up
`MAX_REQUEUES`: that is what `runRetention` leaves to the user.

`TrashRetention` has weak fairness of the sweep and of `Quit`: the app is closed
and opened again from time to time, and every launch sweeps; of the clock nothing
is assumed but what `DueIsSwept` says. `SyncScheduler` has weak fairness of the
loop's timer, of the report of a finished cycle, of the steps of a cycle (the
stall guard and the hard cap end it) and of `Give`, as everyone drops the guard.
`PendingGoesOut` discharges, for one device, what EntrySync assumes of `StartSync`.

### Where the code and its comments disagree

Each is a run that TLC finishes with a counterexample.

- `rollback`: a password change publishes the keyring again from local settings
  (`crypto.rs:447`) and compares no epochs, so a rotation of another device that
  this one has not noticed is undone, and its content key is gone from the cloud.
  `commands/sync.rs:1025` says of the same upload that a mismatch must be detected
  before it.
- `outbox_crash`: a resumed import compares bases with the stamp its pending plan
  kept (`outbox_import.rs:1158`) and never with the row, so a field the desktop
  changed after the crash passes as untouched. `src/CHANGELOG.md:233` says that
  the desktop wins conflicts. `Patient = TRUE` (nobody writes until the import is
  taken up again) is what the passing run assumes instead.

### Known deviations

Further formulas the code does not keep. None is a run of its own; each can be
seen by putting the formula into the config of the named run with the values
given. Those with a name are defined in the modules.

| formula | run, with | what happens |
|---|---|---|
| `SettledTextAgrees` (`engine.rs:6268`) | `core` | a merge at a pull neither moves the stamp nor marks the entry pending (`engine.rs:5985`), so of two concurrently edited bodies the winner's device never sees the loser's text until somebody edits again |
| `EmptyNeverReplacesBody` (`entry_sync.rs:80`) | `core`, `Shared = {}`, `EmptyBodies = TRUE`, `MaxOps = 3`, `MemoryPeers <- None` | an entry is created with no document and published before its first save; a device that pulls it over a body takes the empty one (`engine.rs:6022`) |
| `CachedMeansCurrent` | `core`, `MemoryPeers <- None`, `MaxFaults = 0` | an edit that raced its own upload is listed with its new stamp beside the old blob; the peer caches that manifest, and the hash gate keeps it once the newer blob follows (`engine.rs:1308`, `:5304`) |
| `EditsOutlivePurges` | `core`, `MaxOps = 3`, `MaxActive = 1`, `MaxFaults = 0` | a purge is stamped one second after the trash, the earliest stamp of an edit made elsewhere (`queries.rs:2653`); the two tie |
| `HolderOwnsFence` and `NoOrphanMarker` (its `MarkerHasLease`) without `overwritten` | `lease` | without an ETag the swap is a read and an unconditional write (`gdrive_provider.rs:2891`): a second device that read the lease free overwrites one that was confirmed; it is refused at the marker, which stays beside a lease it does not copy |
| `PartialCloudIsFenced` without `overwritten` | `lease` | the same at a release: the owner has compared and is about to write; the second device's overwrite lands and it starts to delete; the owner's write lands over its lease and frees it, so the folder is half deleted without a lease |
| `PushesUseCommittedKeys` (`commands/sync.rs:2425`) | `rotation` | a publication that another device overtook is aborted, raises no flag and leaves its new content key in memory (`publish.rs:113`); the push of a single entry compares nothing with the cloud (`commands/sync.rs:2434`), and the check of a cycle lets transient errors pass (`:2478`), so entries are pushed under a key that nobody can obtain, until a check succeeds and the re-pair it asks for drops that key |
| `FenceHasOwner` (`gdrive.rs:2255`) | `lease` | a rebuild holds the lease while its job is in phase `backup`, where it may be cancelled |
| `SlotOpensMaster` | `rotation`, `MaxMasters = 1`, `MaxFaults = 1` | a crash after `_meta.json` is written: the resumption only finalizes (`publish.rs:486`) and stores the old recovery slot of the settings beside the new fingerprint; the next unlock copies it into the boot file |
| `JobHasPhrase` | `rotation`, `MaxFaults = 1` | after a publication that failed the user starts a second rotation instead of resuming; it deletes the stashed phrase and masters, and the first job's row is left without its phrase |
| `PhraseIsKnown` | `rotation`, `MaxMasters = 1`, `MaxFaults = 1` | a reset that dies after its job is done, or that is resumed, never shows the phrase it minted |
| `CorrectedClockKeepsLocal` (`entries.rs:500`) | `retention`, `PeerStamps <- NoStamps`, `End = 13` | one launch stays open without a sweep for nearly the retention; an entry is trashed while the clock is behind, and the first sweep after the correction may go that far at once |
| `CorrectedClockKeepsPulled` (`engine.rs:6070`) | `retention` | the floor under a merged Trash stamp is this device's wall clock less the skew (`engine.rs:6083`), not the watermark that a local trash uses (`entries.rs:515`); if the clock is behind at the pull and the peer's stamp is too, the entry is due as soon as the clock is corrected |
| `SkippedMeansCovered` (`scheduler.rs:562`) | `scheduler` | the on-save rule takes an edit as covered when `last_sync_at` is later (`scheduler.rs:566`), but that is stamped at a cycle's end; an edit between the push and the stamp waits for the interval, 30 s of quiet or not |
| `NoticesAreTrue` | `outbox`, `Starts = {TRUE}`, `MaxSeq = 3`, `MaxEdits = 0` | two desktops: a second web edit chains on what one of them made of the first and is refused by the other, whose merge is stamped higher; the browser reports it as replaced (`outbox.ts:277`) though no desktop wrote |
| `NoticesAreTrue` without `cut` | `outbox_alone`, `MaxSeq = 3`, `MaxRequeues = 1` | a cut import leaves a plan with the old stamp; the browser pulls the half import and edits the field again on its new stamp; the resumption compares that base with the plan's stamp (`outbox_import.rs:1158`), refuses the change, and the browser reports it as replaced |
| `DesktopEditsWin` | `outbox`, `MidApply = TRUE`, `Patient = TRUE`, `MaxFaults = 1` | the cause of `outbox_crash` with nobody writing after the cut: a desktop's creation is cut before its first row, then it pulls a peer's row with an edit the peer made before; the resumption compares base 0 with the plan's 0 and overwrites it |
| `TextIsKept` | `outbox`, `Wipes = TRUE`, `MaxEdits = 2` | both desktops create the entry and publish, one without the text; the one with it acknowledges and is then wiped, and pulls the entry back without the text; the browser, which has last pulled the row with the text, drops the draft |

`OnlyOvertakenPushStray` does not survive a crash between the settings and the boot
file of a re-pair, and `BootFileOpens` not the dismissal of a resume dialog:
`Spec` of KeyRotation has both steps, `CoreSpec` has not.

Seen on the way: a pending plan of an earlier revision makes a later edit be
refused, and only the 30-day rule ends that (so `DraftsSettle` sets cut imports
aside); `decided_updated_at` is the time of the import, not the stamp of the row;
a draft that created nothing is stuck once its only desktop was wiped. After the
clock is set back, neither timed rule of the scheduler fires until the clock has
passed the last cycle's stamp again. `lib.rs:31` says every write of an entry
stamps `LastEditState`; only `save_entry_content` does, so the others wait for the
interval (`Write` of SyncScheduler).

## 4. Proofs

All theorems hold for any sets of devices and any bounds that satisfy the named
assumption of their module (numbers are naturals, the sets of desktops and fields
are finite, there is a desktop).

The inductive invariants below were first checked by TLC on the bounds of the
runs named with them, which is cheap and finds most of what a proof would stumble
on; the proofs then hold for any values.

`EntrySyncProofs` proves for all devices, entries, bounds and flags that satisfy
the module's assumptions:

- `TypeCorrect`: `Spec => []TypeOK`.
- `RowsNeverGoBack`: `Spec => RowsMoveForward`. Every step either leaves the rows
  alone or changes one device's rows by a save, a merge or a tombstone
  (`RowStep`); each of the three moves rows forward by the lemma of its name.
- `TextIsKept`, for `~EmptyBodies`, and `LocalTextIsPending` and `TextInvariant`,
  for `~EmptyBodies` and `~CloudLoss`. A pull drops text only when one side is
  empty or the two share nothing, so the inductive invariant `TextInv` carries
  `OneLineage`: every copy of an entry, in a row, a blob, an upload or a chunk,
  holds its first operation. `TextComesFromRows` says that what was pulled is on
  some cloud folder, and `PushInFlight` that an upload's snapshot lies between the
  blob and the row, and equals the row while the version has not moved: this is
  why the versioned stamp is enough. The run `faults` checks `TextInv` on a small
  instance. Both conditions are needed: an empty body is the deviation
  `EmptyNeverReplacesBody`, and text whose only blob is lost is local until its
  device lists its folder.

`EntrySyncPullProofs` goes on, with faults and losses anywhere:

- `RowsAlwaysWritten`: `Spec => []RowsAreWrites`. By itself that is not inductive,
  as a row comes from a blob, a blob from an upload's snapshot and so on;
  `WritesInv` says the same of every copy on its way.
- `CachedAlwaysSeen`: `Spec => []CachedMeansSeen`, for finitely many entries (with
  infinitely many wanted ones no chunk of `ChunkSize` would end the peer). `RevInv`
  ties a revision to one content of the manifest. `PeerInv` says of every peer
  that the pull has begun and not called bad: each entry the frozen diff wants
  from it is in the rows, or in the chunks still to come if it is the current
  peer (`Reached`). That is what lets `FinishPull` cache the revision. It needs
  that the diff's view has shown nothing the rows lack, hence that rows never go
  away (`RowsStay`).
- `SettledAlwaysAgree`: `Spec => []SettledDevicesAgree`, for
  `Devices \subseteq MemoryPeers` and any number of devices. `AgreeInv` says that
  no copy of an entry is newer than what some device that publishes the entry
  holds (`Authored`), and that every tombstone is a purge somebody wrote
  (`PurgeWritten`). A device that only relayed an entry lists it in no manifest;
  but then a publisher holds it at least as new, and with nothing left to pull
  from that publisher everybody has its stamp, so its write.
- `RegisterRefinement`: `Spec => ImplementsRegister`, step by step. User writes and
  the sweep are `Write`s (`UserWriteAlone`, `SweepAlone`); of every other step
  `LearntRow` says that a row it changes shows a write and goes no way back, by
  `RowStep` for the stamps and by `WritesInv` and `AgreeInv`, in the state after
  the step, for the write. It needs no condition on the constants.

  (`WritesInv`, `SeenInv` and `AgreeInv` by TLC: 1,310,172 states of `core`,
  1,048,044 of `faults`, 630,760 of `three`, 177,523 of `live` with losses.)

`RecoveryLeaseProofs` proves for all devices and bounds:

- `TypeCorrect`, which includes that a cancelled or completed job leaves no phase
  behind: the inductive invariant `JobSteps` ties each step of an operation to
  the phases its job can be in.
- `OneHolderAlways`, whatever lands over `control.json`: no two devices are past the
  marker check at once. The argument (`MarkerInv`) is the marker alone: it is
  created only when absent, and deleted only by its owner, who is then no longer
  a holder.
- `HolderAlwaysOwnsFence`, `NeverOrphaned` and `LeaseChangesHands`, for either kind
  of swap. What they say of `control.json` ends with the first unconditional write
  over something it was not compared with; that the holder keeps its marker does
  not. The invariant is `overwritten \/ LeaseInv`. `LeaseInv` says what an
  operation knows of the two files at each step: from its confirmation to its
  release `control.json` holds exactly its record, before a swap it has seen a
  free lease of the generation before its own, and once its marker is deleted
  there is none. A write of either kind that lands on the content it was compared
  with keeps it, so nobody else can be in those steps when the lease changes
  (`OneOwner`, `ControlSteps`); any other sets `overwritten`. So it is not the
  missing ETag that breaks the lease, but only a write between the comparison and
  the PATCH.
- `FencedJobsAlwaysHold` and `PartialCloudAlwaysFenced`, likewise. A job
  outlives its operations, so `LeaseInv`, which speaks of operations, says nothing
  of one that stopped. `WorkInv` adds what a job's phase tells of the files
  (`JobAt`): from `fenced` to `transfer` the lease is its own, and a folder
  uploaded under a lease that is still held is whole; and what each kind of
  operation has done at its steps (`OpAt`), so that a lease is given back only
  over a folder that is whole or wiped to the end. (TLC, of the properties:
  1,948,755 states of `lease`, which is what is left when the two devices are
  interchanged.)

`KeyRotationProofs` proves, for `CoreSpec` with `Overlap = FALSE`:

- `RotationInvariant`, the inductive invariant `IInv`. A job whose epoch is that
  of `_meta.json` (a live one) belongs to a device whose settings still name the
  current master, and its own key is the list's only one above the committed
  epochs with that master; every list that a device may publish extends the
  committed keys (`Extends`); no two jobs mint one master; and one device at a
  time is in `Window`, so what it checked still holds when it writes its marker.
- `RotationTypes`, from `IInv`: that the newest job, stash and list an action reads
  are there, and that epochs stay in range, needs the invariant.
- `RotationRefinement`: every step is a step of `Vault` or a stutter. `MetaCommits`
  is the heart: the marker adds exactly the job's keys, newer than all committed
  ones and under masters of their own.

`KeyRotationDeviceProofs` proves under the same condition what an interrupted
rotation, re-pair or recovery leaves behind. `DeviceInvariant` is the inductive
`DeviceInv`, `IInv` and four parts (TLC: 1,842,266 states of `rotation`), and the
rest follows from them:

- `CloudStaysWhole`, from `WholeInv`: the recovery slot is that of the committed
  master, and then so is the content list, or some live job can publish it.
- `JobsStayResumable`, from `JobsInv`: jobs are sorted by master and epoch, none
  that has yet to commit locally minted the master of the cloud, and the stash of
  a live job opens the list in the settings from the side its state names.
- `BootFileAlwaysOpens`, from `OpenInv`. The boot file and the settings are written
  apart, and the master in memory may be the one or the other while the user is
  asked to resume; `ListInv` and `MasterInv` say when they may differ, and
  `KindInv` which command a step belongs to, since only some may ask.
- `StrayPushesAreOvertaken`, from `PushInv` and `StampInv`. `PushInv`: a device whose
  fingerprint is the cloud's and that has no live job holds committed keys in
  settings, boot file and session, except between the named steps of a re-pair or
  a resumption. `StampInv`: an epoch stands for one master, so a device whose epoch
  is the cloud's has its fingerprint too. That leaves the devices whose epoch is
  behind, and those may push under a key of their own (see the deviations).

`OutboxImportProofs` proves:

- `OutboxTypes`, for the whole module, cut imports and wipes included. It carries
  that changes are finitely many and that a pending record has a plan.
- `CreatedOnlyOnce`, for the whole module: a mark in the acks file is rewritten by
  every later write of it and keeps `CanCreate` away, which no record in the
  database could do, since a wipe takes those.
- `DesktopsWin`, for `~MidApply`, any clocks, and any number of desktops. The
  inductive invariant `WinInv` says that an edge which still ends at the row's
  stamp starts no earlier than the last desktop write the row holds. Rows only
  move forward, so an edge that does not end there any more never will again; a
  new edge starts at a base that chained, which is after that write by the same
  invariant. Without `~MidApply` it is false (`outbox_crash`).
- `TextAlwaysKept`: `Spec => TextIsKept`, for `~Wipes`, cut imports included. The
  browser compares its draft with the row it last pulled, which need not be
  anybody's row any more; `KeptInv` says that each text in it is in some row,
  because a desktop keeps what it published (`Kept`). A wipe breaks exactly that,
  and with two desktops the property (see the deviations); with one, where the
  browser pulls from nobody else, `outbox_alone` checks it with wipes. (`KeptInv`
  by TLC: 686,134 states of `outbox`, 244,474 of `outbox_alone` without wipes.)

`TrashRetentionProofs` proves, for any periods, clocks and stamps of peers:
`TypeCorrect`; `LocalTrashKept`, by the invariant that whatever a sweep of this
launch or a later one can reach lies at least `owed` days short of the entry's
expiry; and `RightClocksKeep`, by the invariant that an entry that came in while
the clock was not behind bears a stamp no older than that day less the skew.

`SyncSchedulerProofs` proves, for any intervals, windows and steps of the clock:
`TypeCorrect`; `SyncNowAlwaysUnblocks`, since from the tick that sees the click the
loop is idle with a clean streak (`Unblocked`); and `FocusCannotChurn`. Its
invariant `ChurnInv` says of the last failing cycle that its window is still
open, or a kick has ended it and then the cycle before is a pause ago, and of the
kick that it is no older than the cycle before the last unless that is a pause
ago. `DoublingAssumption` (the windows do not fall below the first) is arithmetic
about powers of two that the provers have no induction for; TLC evaluates it.

Only model-checked: `NoticesAreTrue`, which holds for one desktop and clocks that
agree (without cut imports also with `MaxSeq = 4`, `MaxEdits = 1`), and would need an invariant that relates every chain of edges to the
stamps of drafts, rows and acks at once; and the liveness properties
(`EventuallyNothingPending`, `EventuallyDrained`, `LostFilesReturn`,
`DraftsSettle`, `DueIsSwept`, `PendingGoesOut`), as liveness and ENABLED are
beyond the prover. Every other property of a run is the statement of a theorem;
the conditions on constants above are those under which the runs check them too.

## 5. What is left

1. A proof of `NoticesAreTrue` for one desktop with synchronised clocks.
2. Media: upload states, re-advertising, adoption, pruning of the own folder.
3. SyncScheduler composed with EntrySync, instead of fairness on one side and a
   reduced cycle on the other.
4. Outbox intents of the later versions (tags, media), and two tabs of a browser.

## 6. Not modelled, and why

Encryption is the identity on data that the properties compare by equality, and
the modules assume it works; KeyRotation models which key opens what. Providers
are files with revisions whose calls fail or land late; tokens, folder ids and
HTTP are left out. Conflict copies of imported entries turn on the lineage of
document operations, which a library computes. Tags, settings, chats, memory,
versions, the month index and embeddings ride beside entries and are rebuilt or
appended; their failures are in EntrySync (`ChannelError`). Media rows and files
are not state, so their tombstones, which move the stamp of an entry, are missing
from EntrySync. Locks
and invisible vaults are visibility rules of single queries. AI, importers'
parsing, the agent transport, the UI and the site keep no state that several
steps or actors can bring out of order.
