--------------------------- MODULE RecoveryLease ---------------------------
(***************************************************************************)
(* The lease that lets one device wipe or rebuild the cloud folder.        *)
(*                                                                         *)
(* The cloud holds control.json (the recovery generation and the lease     *)
(* record, if any) and a marker file with a copy of the record.  A rebuild *)
(* is a durable job row on its device, taken up again after failures and   *)
(* restarts; a wipe leaves no trace but the lease itself.  Both advance    *)
(* the generation by one when they take the lease.  Each access to the two *)
(* files is a step of its own, and other devices act in between.           *)
(***************************************************************************)
EXTENDS Integers, FiniteSets

CONSTANTS
  Devices,
  MaxGen,   \* bound: recovery generations
  MaxJobs   \* bound: rebuild jobs per device

ASSUME LeaseAssumption ==
  /\ MaxGen \in Nat
  /\ MaxJobs \in Nat

VARIABLES
  control,  \* .meta/control.json: generation, and lease: {} or one record
  marker,   \* .meta/_recovery_marker.json: {} or one record
  payload,  \* everything else in the folder
  job,      \* job[d]: the row of sync_recovery_jobs that is not completed
  made,     \* made[d]: jobs d has created
  pc,       \* pc[d]: step of the one recovery operation that runs on d
  op,       \* op[d]: its locals
  overwritten  \* history: a write that was not conditional has landed over a
               \* control.json other than the one it was compared with

vars == <<control, marker, payload, job, made, pc, op, overwritten>>

-----------------------------------------------------------------------------
(* Values.  A record's nonce tells attempts of one job apart; an attempt    *)
(* that meets the record of its own job resumes it, so owner, job and       *)
(* generation identify a record.  The revision of control.json is its       *)
(* content, which does not recur while nothing is overwritten: generations  *)
(* only grow.                                                               *)

Lease   == [owner : Devices, job : 0..MaxJobs, gen : 0..MaxGen]  \* job 0: a wipe
Leases  == {{}} \cup {{l} : l \in Lease}
Control == [gen : 0..MaxGen, lease : Leases]

\* preflight counts as created; verify, commit and finalize are re-entered
\* exactly as transfer is.
Phases == {"none", "created", "backup", "fenced", "transfer", "release"}
Job    == [id : 0..MaxJobs, gen : 0..MaxGen, phase : Phases]
NoJob  == [id |-> 0, gen |-> 0, phase |-> "none"]

\* partial: deleted or uploaded in part, nothing a peer may read.
Payloads == {"whole", "partial", "wiped"}

\* want: the record to own, {} for the permit made up once the lease is gone;
\* seen: the control read the next swap is conditional on.
Kinds == {"preflight", "rebuild", "finalize", "wipe"}
Op    == [kind : Kinds, gen : 0..MaxGen, want : Leases, seen : Control]
NoOp  == [kind |-> "wipe", gen |-> 0, want |-> {},
          seen |-> [gen |-> 0, lease |-> {}]]

Acquiring == {"acquire", "orphan", "swap", "write", "confirm", "mark", "create",
              "place", "check"}
Holding   == {"hold", "fence", "delete", "cleared", "upload", "uploaded", "verify"}
Releasing == {"release", "bare", "unmark", "drop", "unlock", "released", "sync"}
PCs == {"idle", "preflight"} \cup Acquiring \cup Holding \cup Releasing

\* Types; and a job that was cancelled or completed never comes back in part.
TypeOK ==
  /\ control \in Control
  /\ marker \in Leases
  /\ payload \in Payloads
  /\ job \in [Devices -> Job]
  /\ \A d \in Devices : job[d].id = 0 <=> job[d] = NoJob
  /\ made \in [Devices -> 0..MaxJobs]
  /\ pc \in [Devices -> PCs]
  /\ op \in [Devices -> Op]
  /\ overwritten \in BOOLEAN

Init ==
  /\ control = [gen |-> 0, lease |-> {}]
  /\ marker = {}
  /\ payload = "whole"
  /\ job = [d \in Devices |-> NoJob]
  /\ made = [d \in Devices |-> 0]
  /\ pc = [d \in Devices |-> "idle"]
  /\ op = [d \in Devices |-> NoOp]
  /\ overwritten = FALSE

-----------------------------------------------------------------------------
(* Steps of an operation. *)

Cloud == <<control, marker, payload, overwritten>>
Jobs  == <<job, made>>

Begin(d, kind, gen, want, step) ==
  /\ pc[d] = "idle"
  /\ pc' = [pc EXCEPT ![d] = step]
  /\ op' = [op EXCEPT ![d] = [NoOp EXCEPT !.kind = kind, !.gen = gen, !.want = want]]

Goto(d, step) == pc' = [pc EXCEPT ![d] = step] /\ UNCHANGED op

Stop(d) ==
  /\ pc' = [pc EXCEPT ![d] = "idle"]
  /\ op' = [op EXCEPT ![d] = NoOp]

\* Go on when the check holds; every error ends the operation.
Check(d, ok, step) == IF ok THEN Goto(d, step) ELSE Stop(d)

SetPhase(d, phase) == job' = [job EXCEPT ![d].phase = phase]
Drop(d)            == job' = [job EXCEPT ![d] = NoJob]

LeaseOf(d, id, gen) == {[owner |-> d, job |-> id, gen |-> gen]}
Owned(d) == [gen |-> op[d].gen, lease |-> op[d].want]
Freed(d) == [gen |-> op[d].gen, lease |-> {}]

-----------------------------------------------------------------------------
(* Preflight: the job row and a backup; the cloud is only read. *)

\* The new generation follows the cloud's, or the device's own older one when
\* control.json could not be read.
StartPreflight(d) ==
  /\ \/ /\ job[d].phase \in {"created", "backup"}
        /\ UNCHANGED Jobs
     \/ /\ job[d] = NoJob /\ made[d] < MaxJobs
        /\ \E gen \in 1..(control.gen + 1) :
             /\ gen \in 0..MaxGen
             /\ job' = [job EXCEPT ![d] =
                          [id |-> made[d] + 1, gen |-> gen, phase |-> "created"]]
        /\ made' = [made EXCEPT ![d] = @ + 1]
  /\ Begin(d, "preflight", 0, {}, "preflight")
  /\ UNCHANGED Cloud

\* Mutant: a preflight that ends writes its phase over a job cancelled meanwhile.
FinishPreflightAnyway(d) ==
  /\ pc[d] = "preflight"
  /\ SetPhase(d, "backup")
  /\ Stop(d)
  /\ UNCHANGED <<Cloud, made>>

\* A job cancelled meanwhile is left alone.
FinishPreflight(d) ==
  /\ pc[d] = "preflight"
  /\ IF job[d].phase \in {"created", "backup"}
       THEN SetPhase(d, "backup")
       ELSE UNCHANGED job
  /\ Stop(d)
  /\ UNCHANGED <<Cloud, made>>

\* The command needs no operation to have ended, only an early phase.
CancelJob(d) ==
  /\ job[d].phase \in {"created", "backup"}
  /\ Drop(d)
  /\ UNCHANGED <<Cloud, made, pc, op>>

-----------------------------------------------------------------------------
(* Starting an operation that needs the lease.  What control.json says at   *)
(* this first read decides; a start it refuses changes nothing.             *)

StartRebuild(d) ==
  LET want == LeaseOf(d, job[d].id, job[d].gen) IN
  /\ job[d].phase \in {"backup", "fenced", "transfer", "release"}
  /\ \/ control.lease = want
     \/ control.lease = {} /\ job[d].gen = control.gen + 1
  /\ Begin(d, "rebuild", job[d].gen, want, "acquire")
  /\ UNCHANGED <<Cloud, Jobs>>

\* The lease is ours, or it was released and only the job row is left.  Verified
\* evidence is stored at phase release; without it a lost lease is an error.
StartFinalize(d) ==
  LET want == LeaseOf(d, job[d].id, job[d].gen) IN
  /\ job[d].phase \in {"transfer", "release"}
  /\ \/ /\ control.lease = want
        /\ Begin(d, "finalize", job[d].gen, want, "acquire")
     \/ /\ control = [gen |-> job[d].gen, lease |-> {}]
        /\ job[d].phase = "release"
        /\ Begin(d, "finalize", job[d].gen, {}, "release")
  /\ UNCHANGED <<Cloud, Jobs>>

\* Another recovery came and went: the job is given up.
Supersede(d) ==
  /\ pc[d] = "idle"
  /\ job[d].phase \in {"transfer", "release"}
  /\ control.lease = {} /\ control.gen # job[d].gen
  /\ Drop(d)
  /\ UNCHANGED <<Cloud, made, pc, op>>

\* A wipe resumes the lease of an earlier wipe of this device.
StartWipe(d) ==
  /\ \/ /\ control.lease = LeaseOf(d, 0, control.gen)
        /\ Begin(d, "wipe", control.gen, control.lease, "acquire")
     \/ /\ control.lease = {} /\ control.gen < MaxGen
        /\ Begin(d, "wipe", control.gen + 1, LeaseOf(d, 0, control.gen + 1), "acquire")
  /\ UNCHANGED <<Cloud, Jobs>>

-----------------------------------------------------------------------------
(* acquire_recovery_lease *)

ReadControl(d) ==
  /\ pc[d] = "acquire"
  /\ \/ /\ control.lease = op[d].want
        /\ Goto(d, "confirm")
     \/ /\ control.lease = {} /\ op[d].gen = control.gen + 1
        /\ pc' = [pc EXCEPT ![d] = "orphan"]
        /\ op' = [op EXCEPT ![d].seen = control]
     \/ /\ control.lease # op[d].want
        /\ control.lease # {} \/ op[d].gen # control.gen + 1
        /\ Stop(d)
  /\ UNCHANGED <<Cloud, Jobs>>

RefuseOrphan(d) ==
  /\ pc[d] = "orphan"
  /\ Check(d, marker = {}, "swap")
  /\ UNCHANGED <<Cloud, Jobs>>

\* compare_and_swap_control_json: one request with If-Match; or, where the
\* provider sends no ETag, a comparison and at the next step a write that is not
\* conditional.
Swap(d, compare, write, new, done) ==
  /\ \/ /\ pc[d] = compare /\ control = op[d].seen
        /\ control' = new
        /\ Goto(d, done)
        /\ UNCHANGED overwritten
     \/ /\ pc[d] = compare
        /\ Check(d, control = op[d].seen, write)
        /\ UNCHANGED <<control, overwritten>>
     \/ /\ pc[d] = write
        /\ control' = new
        /\ Goto(d, done)
        /\ overwritten' = (overwritten \/ control # op[d].seen)
  /\ UNCHANGED <<marker, payload, Jobs>>

\* Mutant: the lease is written without its precondition.
SwapLeaseBlindly(d) ==
  /\ pc[d] = "swap"
  /\ control' = Owned(d)
  /\ Goto(d, "confirm")
  /\ UNCHANGED <<marker, payload, overwritten, Jobs>>

SwapLease(d) == Swap(d, "swap", "write", Owned(d), "confirm")

ConfirmLease(d) ==
  /\ pc[d] = "confirm"
  /\ Check(d, control = Owned(d), "mark")
  /\ UNCHANGED <<Cloud, Jobs>>

ReadMarker(d) ==
  /\ pc[d] = "mark"
  /\ IF marker = {}
       THEN Goto(d, "create")
       ELSE Check(d, marker = op[d].want, "check")
  /\ UNCHANGED <<Cloud, Jobs>>

\* Only the owner named in control.json may create the marker.
CreateMarker(d) ==
  /\ pc[d] = "create"
  /\ Check(d, control.lease = op[d].want, "place")
  /\ UNCHANGED <<Cloud, Jobs>>

PlaceMarker(d) ==
  /\ pc[d] = "place"
  /\ marker' = IF marker = {} THEN op[d].want ELSE marker
  /\ Check(d, marker = {}, "check")
  /\ UNCHANGED <<control, payload, overwritten, Jobs>>

CheckMarker(d) ==
  /\ pc[d] = "check"
  /\ Check(d, marker = op[d].want, "hold")
  /\ UNCHANGED <<Cloud, Jobs>>

-----------------------------------------------------------------------------
(* Under the lease *)

\* A rebuild whose upload is done has nothing left to do.
UsePermit(d) ==
  /\ pc[d] = "hold"
  /\ \/ op[d].kind = "wipe" /\ Goto(d, "fence")
     \/ op[d].kind = "rebuild" /\ job[d].phase \in {"transfer", "release"} /\ Stop(d)
     \/ op[d].kind = "rebuild" /\ job[d].phase \notin {"transfer", "release"}
          /\ Goto(d, "fence")
     \/ op[d].kind = "finalize" /\ job[d].phase = "transfer" /\ Goto(d, "verify")
     \/ op[d].kind = "finalize" /\ job[d].phase # "transfer" /\ Goto(d, "release")
  /\ UNCHANGED <<Cloud, Jobs>>

\* The fence is read again before each deletion.
CheckFence(d) ==
  /\ pc[d] = "fence"
  /\ Check(d, control = Owned(d), "delete")
  /\ UNCHANGED <<Cloud, Jobs>>

\* Mutant: a wipe counts as cleared after its first deletions.
DeleteSomeAndGoOn(d) ==
  /\ pc[d] = "delete"
  /\ payload' = "partial"
  /\ Goto(d, IF op[d].kind = "wipe" THEN "cleared" ELSE "fence")
  /\ UNCHANGED <<control, marker, overwritten, Jobs>>

DeleteSome(d) ==
  /\ pc[d] = "delete"
  /\ payload' = "partial"
  /\ Goto(d, "fence")
  /\ UNCHANGED <<control, marker, overwritten, Jobs>>

DeleteLast(d) ==
  /\ pc[d] = "delete"
  /\ payload' = IF op[d].kind = "wipe" THEN "wiped" ELSE "partial"
  /\ Goto(d, "cleared")
  /\ UNCHANGED <<control, marker, overwritten, Jobs>>

\* A rebuild now records the phase, unless its job was cancelled; a wipe is
\* done and gives the lease back.
Cleared(d) ==
  /\ pc[d] = "cleared"
  /\ IF op[d].kind = "rebuild" /\ control = Owned(d) /\ job[d].phase \in {"backup", "fenced"}
       THEN SetPhase(d, "fenced") /\ Goto(d, "upload")
       ELSE UNCHANGED job /\ Check(d, op[d].kind = "wipe" /\ control = Owned(d), "release")
  /\ UNCHANGED <<Cloud, made>>

\* Everything is uploaded, manifest last.
Upload(d) ==
  /\ pc[d] = "upload"
  /\ payload' = IF control = Owned(d) THEN "whole" ELSE payload
  /\ Check(d, control = Owned(d), "uploaded")
  /\ UNCHANGED <<control, marker, overwritten, Jobs>>

Uploaded(d) ==
  /\ pc[d] = "uploaded"
  /\ SetPhase(d, "transfer")
  /\ Stop(d)
  /\ UNCHANGED <<Cloud, made>>

\* Mutant: the lease is given back before the phase is stored.
VerifyWithoutPhase(d) ==
  LET verified == /\ control.gen = op[d].gen /\ control.lease # {}
                  /\ marker # {} /\ payload = "whole" IN
  /\ pc[d] = "verify"
  /\ Check(d, verified, "release")
  /\ UNCHANGED <<Cloud, Jobs>>

\* Evidence is collected from the cloud and stored with the phase.
Verify(d) ==
  LET verified == /\ control.gen = op[d].gen /\ control.lease # {}
                  /\ marker # {} /\ payload = "whole" IN
  /\ pc[d] = "verify"
  /\ IF verified THEN SetPhase(d, "release") ELSE UNCHANGED job
  /\ Check(d, verified, "release")
  /\ UNCHANGED <<Cloud, made>>

-----------------------------------------------------------------------------
(* release_recovery_lease, and what a finalize does afterwards *)

StartRelease(d) ==
  /\ pc[d] = "release"
  /\ \/ /\ control.lease # {} /\ control.lease = op[d].want
        /\ pc' = [pc EXCEPT ![d] = "unmark"]
        /\ op' = [op EXCEPT ![d].seen = control]
        /\ UNCHANGED job
     \/ /\ control.lease # {} /\ control.lease # op[d].want
        /\ Stop(d)
        /\ UNCHANGED job
     \/ /\ control.lease = {} /\ control.gen = op[d].gen
        /\ Goto(d, "bare")
        /\ UNCHANGED job
     \/ /\ control.lease = {} /\ control.gen # op[d].gen
        /\ Stop(d)
        /\ IF op[d].kind = "finalize" THEN Drop(d) ELSE UNCHANGED job
  /\ UNCHANGED <<Cloud, made>>

\* Released before: no marker may be left.
CheckBare(d) ==
  /\ pc[d] = "bare"
  /\ Check(d, marker = {} /\ op[d].kind = "finalize", "sync")
  /\ UNCHANGED <<Cloud, Jobs>>

\* Mutant: the control record is released first, the marker left for later.
DeleteMarkerLater(d) ==
  /\ pc[d] = "unmark"
  /\ Goto(d, "drop")
  /\ UNCHANGED <<Cloud, Jobs>>

DeleteMarker(d) ==
  /\ pc[d] = "unmark"
  /\ marker' = IF marker = op[d].want THEN {} ELSE marker
  /\ Check(d, marker \in {{}, op[d].want}, "drop")
  /\ UNCHANGED <<control, payload, overwritten, Jobs>>

SwapRelease(d) == Swap(d, "drop", "unlock", Freed(d), "released")

\* Mutant: a finished release goes back to the step that works under the permit.
ConfirmReleaseThenVerify(d) ==
  /\ pc[d] = "released"
  /\ Check(d, control = Freed(d) /\ op[d].kind = "finalize", "verify")
  /\ UNCHANGED <<Cloud, Jobs>>

ConfirmRelease(d) ==
  /\ pc[d] = "released"
  /\ Check(d, control = Freed(d) /\ op[d].kind = "finalize", "sync")
  /\ UNCHANGED <<Cloud, Jobs>>

\* One normal cycle, allowed while no lease is held and the generation is
\* ours; it completes the job.
SyncAndComplete(d) ==
  /\ pc[d] = "sync"
  /\ IF control = Freed(d) THEN Drop(d) ELSE UNCHANGED job
  /\ Stop(d)
  /\ UNCHANGED <<Cloud, made>>

\* A call fails, or the app is closed or crashes, at any step.  A write that
\* landed although it reported an error is its step followed by this one.
Fail(d) ==
  /\ pc[d] # "idle"
  /\ Stop(d)
  /\ UNCHANGED <<Cloud, Jobs>>

-----------------------------------------------------------------------------

Acquire(d) ==
  \/ ReadControl(d) \/ RefuseOrphan(d) \/ SwapLease(d)
  \/ ConfirmLease(d) \/ ReadMarker(d) \/ CreateMarker(d) \/ PlaceMarker(d)
  \/ CheckMarker(d)

Work(d) ==
  \/ UsePermit(d) \/ CheckFence(d) \/ DeleteSome(d) \/ DeleteLast(d) \/ Cleared(d)
  \/ Upload(d) \/ Uploaded(d) \/ Verify(d)

Release(d) ==
  \/ StartRelease(d) \/ CheckBare(d) \/ DeleteMarker(d) \/ SwapRelease(d)
  \/ ConfirmRelease(d) \/ SyncAndComplete(d)

Command(d) ==
  \/ StartPreflight(d) \/ FinishPreflight(d) \/ CancelJob(d) \/ StartRebuild(d)
  \/ StartFinalize(d) \/ Supersede(d) \/ StartWipe(d) \/ Fail(d)

Next == \E d \in Devices : Command(d) \/ Acquire(d) \/ Work(d) \/ Release(d)

Spec == Init /\ [][Next]_vars

-----------------------------------------------------------------------------
(* Properties *)

\* While a device deletes, uploads or verifies under its permit, the marker
\* names its record, and control.json its record and its generation: the lease
\* is exclusive, whatever failed or was resumed before (acquire_recovery_lease,
\* release_recovery_lease).  A holder can lose control.json only to a write that
\* landed over what it was never compared with; the marker it cannot lose.
\* sync_control.rs says of control.json that it holds "an exclusive lease so
\* peers fail closed instead of racing a wipe/rebuild", with updates "usable as
\* the recovery-lease CAS".
HolderOwnsFence ==
  \A d \in Devices : pc[d] \in Holding =>
    /\ marker = op[d].want
    /\ \E l \in op[d].want : l.owner = d
    /\ overwritten \/ control = Owned(d)

\* A marker without its lease makes acquisition refuse for ever ("orphan
\* recovery marker").  Creation follows the swap, deletion precedes it, and
\* either may be cut short: only an overwrite of control.json leaves one.
MarkerHasLease == marker # {} => marker = control.lease
NoOrphanMarker == ~overwritten => MarkerHasLease

\* While the folder is deleted or rebuilt in part, a lease keeps the normal
\* cycles of all devices out (authorize_recovery_push), until an overwrite of
\* control.json.
PartialCloudIsFenced == ~overwritten /\ payload = "partial" => control.lease # {}

\* A job past the point of no return still owns the lease, so it can be
\* resumed to its end; at phase release it may have given it back.  Only an
\* overwrite of control.json takes it away.
FencedJobsHoldTheLease ==
  ~overwritten =>
    \A d \in Devices : job[d].phase \in {"fenced", "transfer"} =>
      control = [gen |-> job[d].gen, lease |-> LeaseOf(d, job[d].id, job[d].gen)]

\* The lease is taken only when free, by a record of the next generation, and
\* given up without touching the generation, until an unconditional write lands
\* over another control.json: comparing before such a write is not enough, and
\* everything else is.
LeaseHandover ==
  [][\/ overwritten'
     \/ control' = control
     \/ /\ control.lease = {}
        /\ control'.gen = control.gen + 1
        /\ \E l \in control'.lease : l.gen = control'.gen
     \/ control.lease # {} /\ control' = [control EXCEPT !.lease = {}]]_vars

\* "Fence is acquired at `fenced` ... Abandon only before that rank so we never
\* leave a live marker ownerless" (can_cancel_recovery_safely): the lease of a
\* rebuild belongs to a job that still exists.
FenceHasOwner ==
  \A l \in control.lease : l.job # 0 => job[l.owner].id = l.job

=============================================================================
