------------------------ MODULE RecoveryLeaseProofs ------------------------
(***************************************************************************)
(* Theorems about RecoveryLease, for any devices and bounds, whatever the  *)
(* provider's compare-and-swap is worth: types, one holder at a time, and  *)
(* the exclusive lease up to the step at which an unconditional write      *)
(* lands over a control.json it was not compared with.                     *)
(***************************************************************************)
EXTENDS RecoveryLease, TLAPS

\* Of two devices at most one deletes, uploads or verifies under a permit: the
\* marker file alone keeps them apart, as each must read its own record there.
OneHolder ==
  \A d, e \in Devices : pc[d] \in Holding /\ pc[e] \in Holding => d = e

\* The job of a rebuild past its fence, or of a verification, is still there.
JobSteps ==
  \A d \in Devices :
    /\ pc[d] \in {"upload", "uploaded"} => job[d].phase = "fenced"
    /\ pc[d] = "verify" => job[d].phase = "transfer"

\* Steps of a release that still owns its record.
Parting == {"unmark", "drop", "unlock"}

\* The record an operation wants is its device's own; the marker of a holder.
Wants(d) == \A l \in op[d].want : l.owner = d /\ l.gen = op[d].gen

MarkerAt(d) ==
  /\ Wants(d)
  /\ pc[d] \in Acquiring \cup Holding \cup Parting => op[d].want # {}
  /\ pc[d] \in Holding => marker = op[d].want

MarkerInv == \A d \in Devices : MarkerAt(d)

\* Steps between the confirmation of the lease and its release.
Confirmed == {"mark", "create", "place", "check"} \cup Holding \cup Parting

LeaseAt(d) ==
  /\ pc[d] \in Confirmed => control = Owned(d)
  /\ pc[d] \in {"orphan", "swap", "write"} =>
       op[d].seen.lease = {} /\ op[d].gen = op[d].seen.gen + 1
  /\ pc[d] \in Parting => op[d].seen = Owned(d)
  /\ pc[d] \in {"drop", "unlock"} => marker = {}

LeaseInv ==
  /\ \A l \in control.lease : l.gen = control.gen
  /\ MarkerHasLease
  /\ \A d \in Devices : LeaseAt(d)

\* It holds until control.json is overwritten.
LeaseUntil == overwritten \/ LeaseInv

-----------------------------------------------------------------------------
(* Types *)

LEMMA NoOpType == NoOp \in Op
BY LeaseAssumption DEF NoOp, Op, Kinds, Leases, Control

LEMMA StopType ==
  ASSUME TypeOK, NEW d \in Devices, Stop(d)
  PROVE  pc' \in [Devices -> PCs] /\ op' \in [Devices -> Op]
<1>1. "idle" \in PCs BY DEF PCs
<1> QED BY <1>1, NoOpType DEF Stop, TypeOK

LEMMA GotoType ==
  ASSUME TypeOK, NEW d \in Devices, NEW step \in PCs, Goto(d, step)
  PROVE  pc' \in [Devices -> PCs] /\ op' \in [Devices -> Op]
BY DEF Goto, TypeOK

LEMMA CheckType ==
  ASSUME TypeOK, NEW d \in Devices, NEW ok \in BOOLEAN, NEW step \in PCs,
         Check(d, ok, step)
  PROVE  pc' \in [Devices -> PCs] /\ op' \in [Devices -> Op]
BY StopType, GotoType DEF Check

LEMMA SeeType ==
  ASSUME TypeOK, NEW d \in Devices, NEW step \in PCs,
         pc' = [pc EXCEPT ![d] = step], op' = [op EXCEPT ![d].seen = control]
  PROVE  pc' \in [Devices -> PCs] /\ op' \in [Devices -> Op]
BY DEF TypeOK, Op

LEMMA OwnLease ==
  ASSUME NEW d \in Devices, NEW id \in 0..MaxJobs, NEW gen \in 0..MaxGen
  PROVE  LeaseOf(d, id, gen) \in Leases
BY DEF LeaseOf, Leases, Lease

LEMMA BeginType ==
  ASSUME TypeOK, NEW d \in Devices, NEW kind \in Kinds, NEW gen \in 0..MaxGen,
         NEW want \in Leases, NEW step \in PCs, Begin(d, kind, gen, want, step)
  PROVE  pc' \in [Devices -> PCs] /\ op' \in [Devices -> Op]
<1>1. [NoOp EXCEPT !.kind = kind, !.gen = gen, !.want = want] \in Op
  BY NoOpType DEF Op
<1> QED BY <1>1 DEF Begin, TypeOK

LEMMA ControlTypes ==
  ASSUME TypeOK, NEW d \in Devices
  PROVE  /\ Owned(d) \in Control
         /\ Freed(d) \in Control
         /\ job[d] \in Job
         /\ op[d] \in Op
         /\ op[d].want \in Leases
BY DEF Owned, Freed, Control, TypeOK, Op, Leases

\* The rows of the jobs after a step that ends one or moves one on.
LEMMA DropType ==
  ASSUME TypeOK, NEW d \in Devices, Drop(d)
  PROVE  /\ job' \in [Devices -> Job]
         /\ \A e \in Devices : job'[e].id = 0 <=> job'[e] = NoJob
<1>1. NoJob \in Job /\ NoJob.id = 0
  BY LeaseAssumption DEF NoJob, Job, Phases
<1> QED BY <1>1 DEF Drop, TypeOK

LEMMA PhaseType ==
  ASSUME TypeOK, NEW d \in Devices, NEW phase \in Phases \ {"none"},
         job[d].phase # "none", SetPhase(d, phase)
  PROVE  /\ job' \in [Devices -> Job]
         /\ \A e \in Devices : job'[e].id = 0 <=> job'[e] = NoJob
<1>1. job[d] \in Job BY DEF TypeOK
<1>2. job[d].id # 0 BY DEF TypeOK, NoJob
<1>3. job' = [job EXCEPT ![d] = [job[d] EXCEPT !.phase = phase]]
  BY DEF SetPhase, TypeOK
<1>4. [job[d] EXCEPT !.phase = phase] \in Job BY <1>1 DEF Job
<1>5. [job[d] EXCEPT !.phase = phase].id # 0 BY <1>1, <1>2 DEF Job
<1>6. [job[d] EXCEPT !.phase = phase] # NoJob BY <1>5 DEF NoJob
<1> QED BY <1>3, <1>4, <1>5, <1>6 DEF TypeOK

LEMMA CommandType ==
  ASSUME TypeOK, NEW d \in Devices, Command(d)
  PROVE  TypeOK'
<1> USE DEF Cloud, Jobs
<1>1. CASE StartPreflight(d)
  <2>1. pc' \in [Devices -> PCs] /\ op' \in [Devices -> Op]
    <3>1. 0 \in 0..MaxGen /\ {} \in Leases /\ "preflight" \in PCs \cap Kinds
      BY LeaseAssumption DEF Leases, PCs, Kinds
    <3> QED BY <1>1, <3>1, BeginType DEF StartPreflight
  <2>2. CASE UNCHANGED <<job, made>>
    BY <1>1, <2>1, <2>2 DEF StartPreflight, TypeOK
  <2>3. CASE ~UNCHANGED <<job, made>>
    <3>1. PICK gen \in 0..MaxGen :
            job' = [job EXCEPT ![d] = [id |-> made[d] + 1, gen |-> gen, phase |-> "created"]]
      BY <1>1, <2>3 DEF StartPreflight
    <3>2. made[d] < MaxJobs /\ made' = [made EXCEPT ![d] = @ + 1]
      BY <1>1, <2>3 DEF StartPreflight
    <3>3. made[d] + 1 \in 1..MaxJobs BY <3>2, LeaseAssumption DEF TypeOK
    <3>4. [id |-> made[d] + 1, gen |-> gen, phase |-> "created"] \in Job
      BY <3>3 DEF Job, Phases
    <3>5. [id |-> made[d] + 1, gen |-> gen, phase |-> "created"] # NoJob
      BY <3>3 DEF NoJob
    <3>6. \A e \in Devices : job'[e].id = 0 <=> job'[e] = NoJob
      BY <3>1, <3>3, <3>5 DEF TypeOK
    <3> QED BY <1>1, <2>1, <3>1, <3>2, <3>3, <3>4, <3>6 DEF StartPreflight, TypeOK
  <2> QED BY <2>2, <2>3
<1>2. CASE FinishPreflight(d)
  <2>1. pc' \in [Devices -> PCs] /\ op' \in [Devices -> Op]
    BY <1>2, StopType DEF FinishPreflight
  <2>2. /\ job' \in [Devices -> Job]
        /\ \A e \in Devices : job'[e].id = 0 <=> job'[e] = NoJob
    <3>1. "backup" \in Phases \ {"none"} BY DEF Phases
    <3> QED BY <1>2, <3>1, PhaseType DEF FinishPreflight, TypeOK
  <2> QED BY <1>2, <2>1, <2>2 DEF FinishPreflight, TypeOK
<1>3. CASE CancelJob(d)
  BY <1>3, DropType DEF CancelJob, TypeOK
<1>4. CASE Supersede(d)
  BY <1>4, DropType DEF Supersede, TypeOK
<1>5. CASE StartRebuild(d)
  <2>1. job[d].id \in 0..MaxJobs /\ job[d].gen \in 0..MaxGen
    BY DEF TypeOK, Job
  <2>2. "rebuild" \in Kinds /\ "acquire" \in PCs BY DEF Kinds, PCs, Acquiring
  <2>3. pc' \in [Devices -> PCs] /\ op' \in [Devices -> Op]
    BY <1>5, <2>1, <2>2, OwnLease, BeginType DEF StartRebuild
  <2> QED BY <1>5, <2>3 DEF StartRebuild, TypeOK
<1>6. CASE StartFinalize(d)
  <2>1. job[d].id \in 0..MaxJobs /\ job[d].gen \in 0..MaxGen
    BY DEF TypeOK, Job
  <2>2. "finalize" \in Kinds /\ {"acquire", "release"} \subseteq PCs /\ {} \in Leases
    BY DEF Kinds, PCs, Acquiring, Releasing, Leases
  <2>3. pc' \in [Devices -> PCs] /\ op' \in [Devices -> Op]
    BY <1>6, <2>1, <2>2, OwnLease, BeginType DEF StartFinalize
  <2> QED BY <1>6, <2>3 DEF StartFinalize, TypeOK
<1>7. CASE StartWipe(d)
  <2>1. control.gen \in 0..MaxGen /\ control.lease \in Leases
    BY DEF TypeOK, Control
  <2>2. "wipe" \in Kinds /\ "acquire" \in PCs /\ 0 \in 0..MaxJobs
    BY LeaseAssumption DEF Kinds, PCs, Acquiring
  <2>3. control.gen < MaxGen => control.gen + 1 \in 0..MaxGen
    BY <2>1, LeaseAssumption
  <2>4. pc' \in [Devices -> PCs] /\ op' \in [Devices -> Op]
    <3>1. CASE Begin(d, "wipe", control.gen, control.lease, "acquire")
      BY <2>1, <2>2, <3>1, BeginType
    <3>2. CASE /\ control.gen < MaxGen
               /\ Begin(d, "wipe", control.gen + 1, LeaseOf(d, 0, control.gen + 1), "acquire")
      <4>1. LeaseOf(d, 0, control.gen + 1) \in Leases BY <2>2, <2>3, <3>2, OwnLease
      <4> QED BY <2>2, <2>3, <3>2, <4>1, BeginType
    <3> QED BY <1>7, <3>1, <3>2 DEF StartWipe
  <2> QED BY <1>7, <2>4 DEF StartWipe, TypeOK
<1>8. CASE Fail(d)
  BY <1>8, StopType DEF Fail, TypeOK
<1> QED BY <1>1, <1>2, <1>3, <1>4, <1>5, <1>6, <1>7, <1>8 DEF Command

LEMMA SwapType ==
  ASSUME TypeOK, NEW d \in Devices, NEW step, NEW write \in PCs, NEW done \in PCs,
         NEW new \in Control, Swap(d, step, write, new, done)
  PROVE  TypeOK'
<1>1. pc' \in [Devices -> PCs] /\ op' \in [Devices -> Op]
  BY GotoType, CheckType DEF Swap
<1> QED BY <1>1 DEF Swap, TypeOK, Jobs

LEMMA AcquireType ==
  ASSUME TypeOK, NEW d \in Devices, Acquire(d)
  PROVE  TypeOK'
<1> USE DEF Cloud, Jobs
<1>0. Acquiring \cup Holding \subseteq PCs BY DEF PCs
<1>1. CASE ReadControl(d)
  <2>1. {"confirm", "orphan"} \subseteq PCs BY <1>0 DEF Acquiring
  <2>2. pc' \in [Devices -> PCs] /\ op' \in [Devices -> Op]
    BY <1>1, <2>1, GotoType, StopType, SeeType DEF ReadControl
  <2> QED BY <1>1, <2>2 DEF ReadControl, TypeOK
<1>2. CASE RefuseOrphan(d)
  <2>1. "swap" \in PCs BY <1>0 DEF Acquiring
  <2>2. pc' \in [Devices -> PCs] /\ op' \in [Devices -> Op]
    BY <1>2, <2>1, CheckType DEF RefuseOrphan
  <2> QED BY <1>2, <2>2 DEF RefuseOrphan, TypeOK
<1>3. CASE SwapLease(d)
  <2>1. {"write", "confirm"} \subseteq PCs BY <1>0 DEF Acquiring
  <2> QED BY <1>3, <2>1, ControlTypes, SwapType DEF SwapLease
<1>4. CASE ConfirmLease(d)
  <2>1. "mark" \in PCs BY <1>0 DEF Acquiring
  <2>2. pc' \in [Devices -> PCs] /\ op' \in [Devices -> Op]
    BY <1>4, <2>1, CheckType DEF ConfirmLease
  <2> QED BY <1>4, <2>2 DEF ConfirmLease, TypeOK
<1>5. CASE ReadMarker(d)
  <2>1. {"create", "check"} \subseteq PCs BY <1>0 DEF Acquiring
  <2>2. pc' \in [Devices -> PCs] /\ op' \in [Devices -> Op]
    BY <1>5, <2>1, CheckType, GotoType DEF ReadMarker
  <2> QED BY <1>5, <2>2 DEF ReadMarker, TypeOK
<1>6. CASE CreateMarker(d)
  <2>1. "place" \in PCs BY <1>0 DEF Acquiring
  <2>2. pc' \in [Devices -> PCs] /\ op' \in [Devices -> Op]
    BY <1>6, <2>1, CheckType DEF CreateMarker
  <2> QED BY <1>6, <2>2 DEF CreateMarker, TypeOK
<1>7. CASE PlaceMarker(d)
  <2>1. "check" \in PCs BY <1>0 DEF Acquiring
  <2>2. pc' \in [Devices -> PCs] /\ op' \in [Devices -> Op]
    BY <1>7, <2>1, CheckType DEF PlaceMarker
  <2> QED BY <1>7, <2>2, ControlTypes DEF PlaceMarker, TypeOK
<1>8. CASE CheckMarker(d)
  <2>1. "hold" \in PCs BY <1>0 DEF Holding
  <2>2. pc' \in [Devices -> PCs] /\ op' \in [Devices -> Op]
    BY <1>8, <2>1, CheckType DEF CheckMarker
  <2> QED BY <1>8, <2>2 DEF CheckMarker, TypeOK
<1> QED BY <1>1, <1>2, <1>3, <1>4, <1>5, <1>6, <1>7, <1>8 DEF Acquire

LEMMA WorkType ==
  ASSUME TypeOK, JobSteps, NEW d \in Devices, Work(d)
  PROVE  TypeOK'
<1> USE DEF Cloud, Jobs
<1>0. Holding \subseteq PCs /\ "release" \in PCs BY DEF PCs, Releasing
<1>1. CASE UsePermit(d)
  <2>1. {"fence", "verify"} \subseteq PCs BY <1>0 DEF Holding
  <2>2. pc' \in [Devices -> PCs] /\ op' \in [Devices -> Op]
    BY <1>0, <1>1, <2>1, GotoType, StopType DEF UsePermit
  <2> QED BY <1>1, <2>2 DEF UsePermit, TypeOK
<1>2. CASE CheckFence(d)
  <2>1. "delete" \in PCs BY <1>0 DEF Holding
  <2>2. pc' \in [Devices -> PCs] /\ op' \in [Devices -> Op]
    BY <1>2, <2>1, CheckType DEF CheckFence
  <2> QED BY <1>2, <2>2 DEF CheckFence, TypeOK
<1>3. CASE DeleteSome(d)
  <2>1. "fence" \in PCs BY <1>0 DEF Holding
  <2>2. pc' \in [Devices -> PCs] /\ op' \in [Devices -> Op]
    BY <1>3, <2>1, GotoType DEF DeleteSome
  <2> QED BY <1>3, <2>2 DEF DeleteSome, TypeOK, Payloads
<1>4. CASE DeleteLast(d)
  <2>1. "cleared" \in PCs BY <1>0 DEF Holding
  <2>2. pc' \in [Devices -> PCs] /\ op' \in [Devices -> Op]
    BY <1>4, <2>1, GotoType DEF DeleteLast
  <2> QED BY <1>4, <2>2 DEF DeleteLast, TypeOK, Payloads
<1>5. CASE Cleared(d)
  <2>1. "upload" \in PCs /\ "fenced" \in Phases \ {"none"}
    BY <1>0 DEF Holding, Phases
  <2>2. pc' \in [Devices -> PCs] /\ op' \in [Devices -> Op]
    BY <1>0, <1>5, <2>1, CheckType, GotoType DEF Cleared
  <2>3. /\ job' \in [Devices -> Job]
        /\ \A e \in Devices : job'[e].id = 0 <=> job'[e] = NoJob
    BY <1>5, <2>1, PhaseType DEF Cleared, TypeOK
  <2> QED BY <1>5, <2>2, <2>3 DEF Cleared, TypeOK
<1>6. CASE Upload(d)
  <2>1. "uploaded" \in PCs BY <1>0 DEF Holding
  <2>2. pc' \in [Devices -> PCs] /\ op' \in [Devices -> Op]
    BY <1>6, <2>1, CheckType DEF Upload
  <2> QED BY <1>6, <2>2 DEF Upload, TypeOK, Payloads
<1>7. CASE Uploaded(d)
  <2>1. job[d].phase # "none" BY <1>7 DEF JobSteps, Uploaded
  <2>2. "transfer" \in Phases \ {"none"} BY DEF Phases
  <2>3. /\ job' \in [Devices -> Job]
        /\ \A e \in Devices : job'[e].id = 0 <=> job'[e] = NoJob
    BY <1>7, <2>1, <2>2, PhaseType DEF Uploaded
  <2>4. pc' \in [Devices -> PCs] /\ op' \in [Devices -> Op]
    BY <1>7, StopType DEF Uploaded
  <2> QED BY <1>7, <2>3, <2>4 DEF Uploaded, TypeOK
<1>8. CASE Verify(d)
  <2>1. job[d].phase # "none" BY <1>8 DEF JobSteps, Verify
  <2>2. "release" \in Phases \ {"none"} BY DEF Phases
  <2>3. /\ job' \in [Devices -> Job]
        /\ \A e \in Devices : job'[e].id = 0 <=> job'[e] = NoJob
    BY <1>8, <2>1, <2>2, PhaseType DEF Verify, TypeOK
  <2>4. pc' \in [Devices -> PCs] /\ op' \in [Devices -> Op]
    BY <1>0, <1>8, CheckType DEF Verify
  <2> QED BY <1>8, <2>3, <2>4 DEF Verify, TypeOK
<1> QED BY <1>1, <1>2, <1>3, <1>4, <1>5, <1>6, <1>7, <1>8 DEF Work

LEMMA ReleaseType ==
  ASSUME TypeOK, NEW d \in Devices, Release(d)
  PROVE  TypeOK'
<1> USE DEF Cloud, Jobs
<1>0. Releasing \subseteq PCs BY DEF PCs
<1>1. CASE StartRelease(d)
  <2>1. {"unmark", "bare"} \subseteq PCs BY <1>0 DEF Releasing
  <2>2. pc' \in [Devices -> PCs] /\ op' \in [Devices -> Op]
    BY <1>1, <2>1, GotoType, StopType, SeeType DEF StartRelease
  <2>3. /\ job' \in [Devices -> Job]
        /\ \A e \in Devices : job'[e].id = 0 <=> job'[e] = NoJob
    BY <1>1, DropType DEF StartRelease, TypeOK
  <2> QED BY <1>1, <2>2, <2>3 DEF StartRelease, TypeOK
<1>2. CASE CheckBare(d)
  <2>1. "sync" \in PCs BY <1>0 DEF Releasing
  <2>2. pc' \in [Devices -> PCs] /\ op' \in [Devices -> Op]
    BY <1>2, <2>1, CheckType DEF CheckBare
  <2> QED BY <1>2, <2>2 DEF CheckBare, TypeOK
<1>3. CASE DeleteMarker(d)
  <2>1. "drop" \in PCs /\ {} \in Leases BY <1>0 DEF Releasing, Leases
  <2>2. pc' \in [Devices -> PCs] /\ op' \in [Devices -> Op]
    <3>1. (marker \in {{}, op[d].want}) \in BOOLEAN OBVIOUS
    <3>2. Check(d, marker \in {{}, op[d].want}, "drop") BY <1>3 DEF DeleteMarker
    <3> QED BY <2>1, <3>1, <3>2, CheckType
  <2> QED BY <1>3, <2>1, <2>2 DEF DeleteMarker, TypeOK
<1>4. CASE SwapRelease(d)
  <2>1. {"unlock", "released"} \subseteq PCs BY <1>0 DEF Releasing
  <2> QED BY <1>4, <2>1, ControlTypes, SwapType DEF SwapRelease
<1>5. CASE ConfirmRelease(d)
  <2>1. "sync" \in PCs BY <1>0 DEF Releasing
  <2>2. pc' \in [Devices -> PCs] /\ op' \in [Devices -> Op]
    BY <1>5, <2>1, CheckType DEF ConfirmRelease
  <2> QED BY <1>5, <2>2 DEF ConfirmRelease, TypeOK
<1>6. CASE SyncAndComplete(d)
  <2>1. pc' \in [Devices -> PCs] /\ op' \in [Devices -> Op]
    BY <1>6, StopType DEF SyncAndComplete
  <2>2. /\ job' \in [Devices -> Job]
        /\ \A e \in Devices : job'[e].id = 0 <=> job'[e] = NoJob
    BY <1>6, DropType DEF SyncAndComplete, TypeOK
  <2> QED BY <1>6, <2>1, <2>2 DEF SyncAndComplete, TypeOK
<1> QED BY <1>1, <1>2, <1>3, <1>4, <1>5, <1>6 DEF Release

-----------------------------------------------------------------------------
(* One device's step: its own place, and nobody else's *)

\* pc, op and job change for the device that moves.
LEMMA Alone ==
  ASSUME TypeOK, NEW d \in Devices, Command(d) \/ Acquire(d) \/ Work(d) \/ Release(d),
         NEW e \in Devices, e # d
  PROVE  pc'[e] = pc[e] /\ op'[e] = op[e] /\ job'[e] = job[e]
<1> USE DEF TypeOK, Goto, Stop, Check, Begin, Jobs, Cloud, Drop, SetPhase
<1>1. CASE Command(d)
  BY <1>1 DEF Command, StartPreflight, FinishPreflight, CancelJob, StartRebuild,
     StartFinalize, Supersede, StartWipe, Fail
<1>2. CASE Acquire(d)
  BY <1>2 DEF Acquire, ReadControl, RefuseOrphan, SwapLease, Swap, ConfirmLease,
     ReadMarker, CreateMarker, PlaceMarker, CheckMarker
<1>3. CASE Work(d)
  BY <1>3 DEF Work, UsePermit, CheckFence, DeleteSome, DeleteLast, Cleared, Upload,
     Uploaded, Verify
<1>4. CASE Release(d)
  BY <1>4 DEF Release, StartRelease, CheckBare, DeleteMarker, SwapRelease, Swap,
     ConfirmRelease, SyncAndComplete
<1> QED BY <1>1, <1>2, <1>3, <1>4

\* The job that an upload or a verification relies on.
LEMMA JobStep ==
  ASSUME TypeOK, JobSteps, NEW d \in Devices,
         Command(d) \/ Acquire(d) \/ Work(d) \/ Release(d)
  PROVE  JobSteps'
<1>1. ASSUME NEW e \in Devices, e # d
      PROVE  /\ pc'[e] \in {"upload", "uploaded"} => job'[e].phase = "fenced"
             /\ pc'[e] = "verify" => job'[e].phase = "transfer"
  BY <1>1, Alone DEF JobSteps
<1>2. /\ pc'[d] \in {"upload", "uploaded"} => job'[d].phase = "fenced"
      /\ pc'[d] = "verify" => job'[d].phase = "transfer"
  <2> USE DEF TypeOK, Goto, Stop, Check, Begin, Jobs, Cloud, JobSteps
  <2>1. CASE Command(d)
    BY <2>1 DEF Command, StartPreflight, FinishPreflight, CancelJob, StartRebuild,
       StartFinalize, Supersede, StartWipe, Fail
  <2>2. CASE Acquire(d)
    BY <2>2 DEF Acquire, ReadControl, RefuseOrphan, SwapLease, Swap, ConfirmLease,
       ReadMarker, CreateMarker, PlaceMarker, CheckMarker
  <2>3. CASE Work(d)
    <3>1. CASE Cleared(d)
      BY <3>1 DEF Cleared, SetPhase, Job
    <3> QED BY <2>3, <3>1 DEF Work, UsePermit, CheckFence, DeleteSome, DeleteLast,
               Upload, Uploaded, Verify
  <2>4. CASE Release(d)
    BY <2>4 DEF Release, StartRelease, CheckBare, DeleteMarker, SwapRelease, Swap,
       ConfirmRelease, SyncAndComplete
  <2> QED BY <2>1, <2>2, <2>3, <2>4
<1> QED BY <1>1, <1>2 DEF JobSteps

LEMMA TypeStep == TypeOK /\ JobSteps /\ [Next]_vars => TypeOK' /\ JobSteps'
<1> SUFFICES ASSUME TypeOK, JobSteps, [Next]_vars PROVE TypeOK' /\ JobSteps'
  OBVIOUS
<1>1. CASE UNCHANGED vars BY <1>1 DEF vars, TypeOK, JobSteps
<1>2. ASSUME NEW d \in Devices, Command(d) \/ Acquire(d) \/ Work(d) \/ Release(d)
      PROVE  TypeOK' /\ JobSteps'
  BY <1>2, CommandType, AcquireType, WorkType, ReleaseType, JobStep
<1> QED BY <1>1, <1>2 DEF Next

LEMMA TypeInit == Init => TypeOK /\ JobSteps
<1> SUFFICES ASSUME Init PROVE TypeOK /\ JobSteps
  OBVIOUS
<1>1. control \in Control /\ marker \in Leases /\ payload \in Payloads
  BY LeaseAssumption DEF Init, Control, Leases, Payloads
<1>2. job \in [Devices -> Job] /\ made \in [Devices -> 0..MaxJobs]
  BY LeaseAssumption DEF Init, NoJob, Job, Phases
<1>3. \A d \in Devices : job[d].id = 0 <=> job[d] = NoJob
  BY DEF Init, NoJob
<1>4. pc \in [Devices -> PCs] /\ op \in [Devices -> Op]
  BY NoOpType DEF Init, PCs
<1>5. overwritten \in BOOLEAN BY DEF Init
<1>6. JobSteps BY DEF Init, JobSteps
<1> QED BY <1>1, <1>2, <1>3, <1>4, <1>5, <1>6 DEF TypeOK

\* Every state is well typed, and a job that was cancelled or completed does
\* not come back in part, even under an operation that is still running for it
\* (recovery_job_may_commit_backup, advance_sync_recovery_job).
THEOREM TypeCorrect == Spec => []TypeOK
BY TypeInit, TypeStep, PTL DEF Spec

-----------------------------------------------------------------------------
(* One holder at a time *)

\* A device that stops wants nothing; one that goes on wants the same.
LEMMA StopMarker ==
  ASSUME TypeOK, NEW d \in Devices, Stop(d)
  PROVE  MarkerAt(d)'
BY DEF Stop, TypeOK, MarkerAt, Wants, NoOp, Acquiring, Holding, Parting

LEMMA GotoMarker ==
  ASSUME TypeOK, NEW d \in Devices, MarkerAt(d), NEW step, Goto(d, step),
         (step \in Acquiring \cup Holding \cup Parting) => op[d].want # {},
         (step \in Holding) => marker' = op[d].want
  PROVE  MarkerAt(d)'
BY DEF Goto, TypeOK, MarkerAt, Wants

LEMMA BeginMarker ==
  ASSUME TypeOK, NEW d \in Devices, NEW kind, NEW gen, NEW want, NEW step,
         Begin(d, kind, gen, want, step), step \notin Holding,
         \A l \in want : l.owner = d /\ l.gen = gen,
         (step \in Acquiring \cup Holding \cup Parting) => want # {}
  PROVE  MarkerAt(d)'
BY DEF Begin, TypeOK, MarkerAt, Wants, NoOp

\* The marker of a holder changes hands by no step of another device.
LEMMA MarkerKept ==
  ASSUME TypeOK, MarkerInv, NEW d \in Devices, NEW e \in Devices, e # d,
         Command(d) \/ Acquire(d) \/ Work(d) \/ Release(d), pc[e] \in Holding
  PROVE  marker' = marker
<1> USE DEF Cloud
<1>1. marker # {} /\ \A l \in marker : l.owner = e
  BY DEF MarkerInv, MarkerAt, Wants
<1>2. CASE PlaceMarker(d) BY <1>1, <1>2 DEF PlaceMarker
<1>3. CASE DeleteMarker(d)
  <2>1. op[d].want # {} /\ \A l \in op[d].want : l.owner = d
    BY <1>3 DEF DeleteMarker, MarkerInv, MarkerAt, Wants, Parting
  <2> QED BY <1>1, <1>3, <2>1 DEF DeleteMarker
<1>4. CASE Command(d)
  BY <1>4 DEF Command, StartPreflight, FinishPreflight, CancelJob, StartRebuild,
     StartFinalize, Supersede, StartWipe, Fail
<1>5. CASE Acquire(d)
  BY <1>2, <1>5 DEF Acquire, ReadControl, RefuseOrphan, SwapLease, Swap, ConfirmLease,
     ReadMarker, CreateMarker, CheckMarker
<1>6. CASE Work(d)
  BY <1>6 DEF Work, UsePermit, CheckFence, DeleteSome, DeleteLast, Cleared, Upload,
     Uploaded, Verify
<1>7. CASE Release(d)
  BY <1>3, <1>7 DEF Release, StartRelease, CheckBare, SwapRelease, Swap,
     ConfirmRelease, SyncAndComplete
<1> QED BY <1>4, <1>5, <1>6, <1>7

LEMMA CommandMarker ==
  ASSUME TypeOK, MarkerInv, NEW d \in Devices, Command(d)
  PROVE  MarkerAt(d)'
<1>0. MarkerAt(d) BY DEF MarkerInv
<1>1. "acquire" \notin Holding /\ "release" \notin Holding /\ "preflight" \notin Holding
  BY DEF Holding
<1>2. CASE StartPreflight(d)
  <2>1. "preflight" \notin Acquiring \cup Holding \cup Parting
    BY DEF Acquiring, Holding, Parting
  <2> QED BY <1>2, <2>1, BeginMarker DEF StartPreflight
<1>3. CASE FinishPreflight(d) \/ Fail(d)
  BY <1>3, StopMarker DEF FinishPreflight, Fail
<1>4. CASE CancelJob(d) \/ Supersede(d)
  BY <1>0, <1>4 DEF CancelJob, Supersede, Cloud, MarkerAt, Wants
<1>5. ASSUME NEW kind, NEW id, NEW gen, Begin(d, kind, gen, LeaseOf(d, id, gen), "acquire")
      PROVE  MarkerAt(d)'
  <2>1. LeaseOf(d, id, gen) # {} /\ \A l \in LeaseOf(d, id, gen) : l.owner = d /\ l.gen = gen
    BY DEF LeaseOf
  <2> QED BY <1>1, <1>5, <2>1, BeginMarker
<1>6. CASE StartRebuild(d)
  BY <1>5, <1>6 DEF StartRebuild
<1>7. CASE StartFinalize(d)
  <2>1. "release" \notin Acquiring \cup Holding \cup Parting
    BY DEF Acquiring, Holding, Parting
  <2>2. ASSUME Begin(d, "finalize", job[d].gen, {}, "release") PROVE MarkerAt(d)'
    BY <2>1, <2>2, BeginMarker
  <2> QED BY <1>5, <1>7, <2>2 DEF StartFinalize
<1>8. CASE StartWipe(d)
  BY <1>5, <1>8 DEF StartWipe
<1> QED BY <1>2, <1>3, <1>4, <1>6, <1>7, <1>8 DEF Command

LEMMA AcquireMarker ==
  ASSUME TypeOK, MarkerInv, NEW d \in Devices, Acquire(d)
  PROVE  MarkerAt(d)'
<1>0. MarkerAt(d) BY DEF MarkerInv
<1>1. op[d].want # {}
  BY <1>0 DEF MarkerAt, Acquire, ReadControl, RefuseOrphan, SwapLease, Swap,
     ConfirmLease, ReadMarker, CreateMarker, PlaceMarker, CheckMarker, Acquiring
<1>2. CASE ReadControl(d)
  <2>1. "confirm" \notin Holding /\ "orphan" \notin Holding BY DEF Holding
  <2>2. ASSUME pc' = [pc EXCEPT ![d] = "orphan"], op' = [op EXCEPT ![d].seen = control]
        PROVE  MarkerAt(d)'
    BY <1>0, <1>1, <2>1, <2>2 DEF MarkerAt, Wants, TypeOK, Op
  <2> QED BY <1>0, <1>1, <1>2, <2>1, <2>2, GotoMarker, StopMarker DEF ReadControl
<1>3. CASE RefuseOrphan(d)
  <2>1. "swap" \notin Holding BY DEF Holding
  <2> QED BY <1>0, <1>1, <1>3, <2>1, GotoMarker, StopMarker DEF RefuseOrphan, Check
<1>4. CASE SwapLease(d)
  <2>1. "write" \notin Holding /\ "confirm" \notin Holding BY DEF Holding
  <2> QED BY <1>0, <1>1, <1>4, <2>1, GotoMarker, StopMarker DEF SwapLease, Swap, Check
<1>5. CASE ConfirmLease(d)
  <2>1. "mark" \notin Holding BY DEF Holding
  <2> QED BY <1>0, <1>1, <1>5, <2>1, GotoMarker, StopMarker DEF ConfirmLease, Check
<1>6. CASE ReadMarker(d)
  <2>1. "create" \notin Holding /\ "check" \notin Holding BY DEF Holding
  <2> QED BY <1>0, <1>1, <1>6, <2>1, GotoMarker, StopMarker DEF ReadMarker, Check
<1>7. CASE CreateMarker(d)
  <2>1. "place" \notin Holding BY DEF Holding
  <2> QED BY <1>0, <1>1, <1>7, <2>1, GotoMarker, StopMarker DEF CreateMarker, Check
<1>8. CASE PlaceMarker(d)
  <2>1. "check" \notin Holding BY DEF Holding
  <2> QED BY <1>0, <1>1, <1>8, <2>1, GotoMarker, StopMarker DEF PlaceMarker, Check
<1>9. CASE CheckMarker(d)
  <2>1. marker' = marker BY <1>9 DEF CheckMarker, Cloud
  <2> QED BY <1>0, <1>1, <1>9, <2>1, GotoMarker, StopMarker DEF CheckMarker, Check
<1> QED BY <1>2, <1>3, <1>4, <1>5, <1>6, <1>7, <1>8, <1>9 DEF Acquire

LEMMA WorkMarker ==
  ASSUME TypeOK, MarkerInv, NEW d \in Devices, Work(d)
  PROVE  MarkerAt(d)'
<1>0. MarkerAt(d) BY DEF MarkerInv
<1>1. pc[d] \in Holding
  BY DEF Work, UsePermit, CheckFence, DeleteSome, DeleteLast, Cleared, Upload,
     Uploaded, Verify, Holding
<1>2. op[d].want # {} /\ marker = op[d].want BY <1>0, <1>1 DEF MarkerAt
<1>3. marker' = marker
  BY DEF Work, UsePermit, CheckFence, DeleteSome, DeleteLast, Cleared, Upload,
     Uploaded, Verify, Cloud
<1>4. ASSUME NEW step, Goto(d, step) PROVE MarkerAt(d)'
  BY <1>0, <1>2, <1>3, <1>4, GotoMarker
<1>5. (\E step : Goto(d, step)) \/ Stop(d)
  BY DEF Work, UsePermit, CheckFence, DeleteSome, DeleteLast, Cleared, Upload,
     Uploaded, Verify, Check
<1> QED BY <1>4, <1>5, StopMarker

LEMMA ReleaseMarker ==
  ASSUME TypeOK, MarkerInv, NEW d \in Devices, Release(d)
  PROVE  MarkerAt(d)'
<1>0. MarkerAt(d) BY DEF MarkerInv
<1>1. CASE StartRelease(d)
  <2>1. "unmark" \notin Holding /\ "bare" \notin Acquiring \cup Holding \cup Parting
    BY DEF Acquiring, Holding, Parting
  <2>2. ASSUME op[d].want # {},
               pc' = [pc EXCEPT ![d] = "unmark"], op' = [op EXCEPT ![d].seen = control]
        PROVE  MarkerAt(d)'
    BY <1>0, <2>1, <2>2 DEF MarkerAt, Wants, TypeOK, Op
  <2> QED BY <1>0, <1>1, <2>1, <2>2, GotoMarker, StopMarker DEF StartRelease
<1>2. CASE CheckBare(d)
  <2>1. "sync" \notin Acquiring \cup Holding \cup Parting
    BY DEF Acquiring, Holding, Parting
  <2> QED BY <1>0, <1>2, <2>1, GotoMarker, StopMarker DEF CheckBare, Check
<1>3. CASE DeleteMarker(d)
  <2>1. "drop" \notin Holding /\ op[d].want # {}
    BY <1>0, <1>3 DEF Holding, DeleteMarker, MarkerAt, Parting
  <2> QED BY <1>0, <1>3, <2>1, GotoMarker, StopMarker DEF DeleteMarker, Check
<1>4. CASE SwapRelease(d)
  <2>1. "released" \notin Acquiring \cup Holding \cup Parting /\ "unlock" \notin Holding
    BY DEF Acquiring, Holding, Parting
  <2>2. pc[d] \in {"drop", "unlock"} BY <1>4 DEF SwapRelease, Swap
  <2>3. op[d].want # {} BY <1>0, <2>2 DEF MarkerAt, Parting
  <2> QED BY <1>0, <1>4, <2>1, <2>3, GotoMarker, StopMarker DEF SwapRelease, Swap, Check
<1>5. CASE ConfirmRelease(d)
  <2>1. "sync" \notin Acquiring \cup Holding \cup Parting
    BY DEF Acquiring, Holding, Parting
  <2> QED BY <1>0, <1>5, <2>1, GotoMarker, StopMarker DEF ConfirmRelease, Check
<1>6. CASE SyncAndComplete(d)
  BY <1>6, StopMarker DEF SyncAndComplete
<1> QED BY <1>1, <1>2, <1>3, <1>4, <1>5, <1>6 DEF Release

LEMMA MarkerStep == TypeOK /\ MarkerInv /\ [Next]_vars => MarkerInv'
<1> SUFFICES ASSUME TypeOK, MarkerInv, [Next]_vars PROVE MarkerInv'
  OBVIOUS
<1>1. CASE UNCHANGED vars BY <1>1 DEF vars, MarkerInv, MarkerAt, Wants
<1>2. ASSUME NEW d \in Devices, Command(d) \/ Acquire(d) \/ Work(d) \/ Release(d)
      PROVE  MarkerInv'
  <2>1. MarkerAt(d)'
    BY <1>2, CommandMarker, AcquireMarker, WorkMarker, ReleaseMarker
  <2>2. ASSUME NEW e \in Devices, e # d PROVE MarkerAt(e)'
    <3>1. pc'[e] = pc[e] /\ op'[e] = op[e] BY <1>2, <2>2, Alone
    <3>2. pc[e] \in Holding => marker' = marker BY <1>2, <2>2, MarkerKept
    <3> QED BY <3>1, <3>2 DEF MarkerInv, MarkerAt, Wants
  <2> QED BY <2>1, <2>2 DEF MarkerInv
<1> QED BY <1>1, <1>2 DEF Next

\* At most one device works under a permit, even where the provider cannot swap
\* control.json in one request and a second device overwrites the lease of the
\* first.
THEOREM OneHolderAlways == Spec => []OneHolder
<1>1. Init => MarkerInv
  BY DEF Init, MarkerInv, MarkerAt, Wants, NoOp, Acquiring, Holding, Parting
<1>2. MarkerInv => OneHolder
  BY DEF MarkerInv, MarkerAt, Wants, OneHolder
<1> QED BY <1>1, <1>2, MarkerStep, TypeCorrect, PTL DEF Spec

-----------------------------------------------------------------------------
(* The exclusive lease *)

\* Two devices never both own what control.json says.
LEMMA OneOwner ==
  ASSUME MarkerInv, LeaseInv, NEW d \in Devices, NEW e \in Devices,
         pc[d] \in Confirmed, pc[e] \in Confirmed
  PROVE  d = e
<1>1. Confirmed \subseteq Acquiring \cup Holding \cup Parting
  BY DEF Confirmed, Acquiring
<1>2. op[d].want # {} /\ \A l \in op[d].want : l.owner = d
  BY <1>1 DEF MarkerInv, MarkerAt, Wants
<1>3. op[e].want # {} /\ \A l \in op[e].want : l.owner = e
  BY <1>1 DEF MarkerInv, MarkerAt, Wants
<1>4. control = Owned(d) /\ control = Owned(e) BY DEF LeaseInv, LeaseAt
<1>5. control.lease = op[d].want /\ control.lease = op[e].want BY <1>4 DEF Owned
<1> QED BY <1>2, <1>3, <1>5

\* The two steps that write control.json, and what they write it over.
Taken(d) ==
  /\ pc[d] \in {"swap", "write"}
  /\ control.lease = {} /\ marker = {}
  /\ op[d].gen = control.gen + 1
  /\ control' = Owned(d)
  /\ marker' = marker

Given(d) ==
  /\ pc[d] \in {"drop", "unlock"}
  /\ control = Owned(d) /\ op[d].want # {} /\ marker = {}
  /\ control' = Freed(d)
  /\ marker' = marker

LEMMA ControlSteps ==
  ASSUME ~overwritten', TypeOK, MarkerInv, LeaseInv, NEW d \in Devices,
         Command(d) \/ Acquire(d) \/ Work(d) \/ Release(d)
  PROVE  \/ control' = control
         \/ SwapLease(d) /\ Taken(d)
         \/ SwapRelease(d) /\ Given(d)
<1> USE DEF Cloud
<1>0. LeaseAt(d) /\ MarkerAt(d) BY DEF LeaseInv, MarkerInv
<1>1. ASSUME SwapLease(d), control' # control
      PROVE  Taken(d)
  <2>1. /\ pc[d] \in {"swap", "write"} /\ control = op[d].seen
        /\ control' = Owned(d) /\ marker' = marker
    BY <1>1 DEF SwapLease, Swap
  <2>2. control.lease = {} /\ op[d].gen = control.gen + 1 BY <1>0, <2>1 DEF LeaseAt
  <2>3. marker = {} BY <2>2 DEF LeaseInv, MarkerHasLease
  <2> QED BY <2>1, <2>2, <2>3 DEF Taken
<1>2. ASSUME SwapRelease(d), control' # control
      PROVE  Given(d)
  <2>1. pc[d] \in {"drop", "unlock"} /\ control' = Freed(d) /\ marker' = marker
    BY <1>2 DEF SwapRelease, Swap
  <2>2. control = Owned(d) /\ marker = {} BY <1>0, <2>1 DEF LeaseAt, Confirmed, Parting
  <2>3. op[d].want # {} BY <1>0, <2>1 DEF MarkerAt, Parting
  <2> QED BY <2>1, <2>2, <2>3 DEF Given
<1>3. CASE Command(d)
  BY <1>3 DEF Command, StartPreflight, FinishPreflight, CancelJob, StartRebuild,
     StartFinalize, Supersede, StartWipe, Fail
<1>4. CASE Acquire(d)
  BY <1>1, <1>4 DEF Acquire, ReadControl, RefuseOrphan, ConfirmLease, ReadMarker,
     CreateMarker, PlaceMarker, CheckMarker
<1>5. CASE Work(d)
  BY <1>5 DEF Work, UsePermit, CheckFence, DeleteSome, DeleteLast, Cleared, Upload,
     Uploaded, Verify
<1>6. CASE Release(d)
  BY <1>2, <1>6 DEF Release, StartRelease, CheckBare, DeleteMarker, ConfirmRelease,
     SyncAndComplete
<1> QED BY <1>3, <1>4, <1>5, <1>6

\* The two steps that write the marker file.
LEMMA MarkerSteps ==
  ASSUME NEW d \in Devices, Command(d) \/ Acquire(d) \/ Work(d) \/ Release(d)
  PROVE  \/ marker' = marker
         \/ PlaceMarker(d) /\ marker' = op[d].want /\ control' = control
         \/ DeleteMarker(d) /\ marker' = {} /\ control' = control
<1> USE DEF Cloud
<1>1. CASE Command(d)
  BY <1>1 DEF Command, StartPreflight, FinishPreflight, CancelJob, StartRebuild,
     StartFinalize, Supersede, StartWipe, Fail
<1>2. CASE Acquire(d)
  BY <1>2 DEF Acquire, ReadControl, RefuseOrphan, SwapLease, Swap, ConfirmLease,
     ReadMarker, CreateMarker, PlaceMarker, CheckMarker
<1>3. CASE Work(d)
  BY <1>3 DEF Work, UsePermit, CheckFence, DeleteSome, DeleteLast, Cleared, Upload,
     Uploaded, Verify
<1>4. CASE Release(d)
  BY <1>4 DEF Release, StartRelease, CheckBare, DeleteMarker, SwapRelease, Swap,
     ConfirmRelease, SyncAndComplete
<1> QED BY <1>1, <1>2, <1>3, <1>4

LEMMA StopLease ==
  ASSUME TypeOK, NEW d \in Devices, Stop(d)
  PROVE  LeaseAt(d)'
BY DEF Stop, TypeOK, LeaseAt, Confirmed, Holding, Parting

LEMMA GotoLease ==
  ASSUME TypeOK, NEW d \in Devices, NEW step, Goto(d, step),
         (step \in Confirmed) => control' = Owned(d),
         (step \in {"orphan", "swap", "write"}) =>
            op[d].seen.lease = {} /\ op[d].gen = op[d].seen.gen + 1,
         (step \in Parting) => op[d].seen = Owned(d),
         (step \in {"drop", "unlock"}) => marker' = {}
  PROVE  LeaseAt(d)'
BY DEF Goto, TypeOK, LeaseAt, Owned

\* Steps at which the device claims nothing.
LEMMA QuietLease ==
  ASSUME TypeOK, NEW d \in Devices,
         NEW step \in {"idle", "preflight", "acquire", "confirm", "release", "bare",
                       "released", "sync"},
         pc' = [pc EXCEPT ![d] = step]
  PROVE  LeaseAt(d)'
BY DEF TypeOK, LeaseAt, Confirmed, Holding, Parting

LEMMA CommandLease ==
  ASSUME TypeOK, LeaseInv, NEW d \in Devices, Command(d)
  PROVE  LeaseAt(d)'
<1>1. CASE CancelJob(d) \/ Supersede(d)
  BY <1>1 DEF CancelJob, Supersede, Cloud, LeaseInv, LeaseAt, Owned
<1>2. CASE ~(CancelJob(d) \/ Supersede(d))
  <2>1. \E step \in {"idle", "preflight", "acquire", "release"} :
          pc' = [pc EXCEPT ![d] = step]
    BY <1>2 DEF Command, StartPreflight, FinishPreflight, StartRebuild, StartFinalize,
       StartWipe, Fail, Begin, Stop
  <2> QED BY <2>1, QuietLease
<1> QED BY <1>1, <1>2

LEMMA AcquireLease ==
  ASSUME ~overwritten', TypeOK, MarkerInv, LeaseInv, NEW d \in Devices, Acquire(d)
  PROVE  LeaseAt(d)'
<1> USE DEF Cloud
<1>0. LeaseAt(d) BY DEF LeaseInv
<1>1. CASE ReadControl(d)
  <2>1. ASSUME Goto(d, "confirm") \/ Stop(d) PROVE LeaseAt(d)'
    BY <2>1, QuietLease DEF Goto, Stop
  <2>2. ASSUME control.lease = {}, op[d].gen = control.gen + 1,
               pc' = [pc EXCEPT ![d] = "orphan"], op' = [op EXCEPT ![d].seen = control]
        PROVE  LeaseAt(d)'
    BY <2>2 DEF LeaseAt, TypeOK, Op, Confirmed, Holding, Parting
  <2> QED BY <1>1, <2>1, <2>2 DEF ReadControl
<1>2. CASE RefuseOrphan(d)
  <2>1. "swap" \notin Confirmed /\ "swap" \notin Parting
    BY DEF Confirmed, Holding, Parting
  <2>2. op[d].seen.lease = {} /\ op[d].gen = op[d].seen.gen + 1
    BY <1>0, <1>2 DEF RefuseOrphan, LeaseAt
  <2> QED BY <1>2, <2>1, <2>2, GotoLease, StopLease DEF RefuseOrphan, Check
<1>3. CASE SwapLease(d)
  <2>1. Goto(d, "confirm") \/ Stop(d) \/ (pc[d] = "swap" /\ Goto(d, "write"))
    BY <1>3 DEF SwapLease, Swap, Check
  <2>2. "write" \notin Confirmed /\ "write" \notin Parting
    BY DEF Confirmed, Holding, Parting
  <2>3. pc[d] = "swap" => op[d].seen.lease = {} /\ op[d].gen = op[d].seen.gen + 1
    BY <1>0 DEF LeaseAt
  <2>4. CASE Goto(d, "confirm") \/ Stop(d) BY <2>4, QuietLease DEF Goto, Stop
  <2>5. CASE pc[d] = "swap" /\ Goto(d, "write") BY <2>2, <2>3, <2>5, GotoLease
  <2> QED BY <2>1, <2>4, <2>5
<1>4. CASE ConfirmLease(d)
  <2>1. "mark" \notin Parting BY DEF Parting
  <2> QED BY <1>4, <2>1, GotoLease, StopLease DEF ConfirmLease, Check
<1>5. ASSUME pc[d] \in Confirmed, control' = control,
             Stop(d) \/ \E step \in {"create", "place", "check", "hold"} : Goto(d, step)
      PROVE  LeaseAt(d)'
  <2>1. control' = Owned(d) BY <1>0, <1>5 DEF LeaseAt
  <2>2. {"create", "place", "check", "hold"} \cap Parting = {} BY DEF Parting
  <2> QED BY <1>5, <2>1, <2>2, GotoLease, StopLease
<1>6. CASE ReadMarker(d)
  <2>1. pc[d] \in Confirmed BY <1>6 DEF ReadMarker, Confirmed
  <2> QED BY <1>5, <1>6, <2>1 DEF ReadMarker, Check
<1>7. CASE CreateMarker(d)
  <2>1. pc[d] \in Confirmed BY <1>7 DEF CreateMarker, Confirmed
  <2> QED BY <1>5, <1>7, <2>1 DEF CreateMarker, Check
<1>8. CASE PlaceMarker(d)
  <2>1. pc[d] \in Confirmed BY <1>8 DEF PlaceMarker, Confirmed
  <2> QED BY <1>5, <1>8, <2>1 DEF PlaceMarker, Check
<1>9. CASE CheckMarker(d)
  <2>1. pc[d] \in Confirmed BY <1>9 DEF CheckMarker, Confirmed
  <2> QED BY <1>5, <1>9, <2>1 DEF CheckMarker, Check
<1> QED BY <1>1, <1>2, <1>3, <1>4, <1>6, <1>7, <1>8, <1>9 DEF Acquire

LEMMA WorkLease ==
  ASSUME TypeOK, LeaseInv, NEW d \in Devices, Work(d)
  PROVE  LeaseAt(d)'
<1>1. pc[d] \in Holding
  BY DEF Work, UsePermit, CheckFence, DeleteSome, DeleteLast, Cleared, Upload,
     Uploaded, Verify, Holding
<1>2. control = Owned(d) BY <1>1 DEF LeaseInv, LeaseAt, Confirmed
<1>3. control' = control
  BY DEF Work, UsePermit, CheckFence, DeleteSome, DeleteLast, Cleared, Upload,
     Uploaded, Verify, Cloud
<1>4. Stop(d) \/ \E step \in Holding \cup {"release"} : Goto(d, step)
  BY DEF Work, UsePermit, CheckFence, DeleteSome, DeleteLast, Cleared, Upload,
     Uploaded, Verify, Check, Holding
<1>5. ASSUME NEW step \in Holding \cup {"release"}, Goto(d, step) PROVE LeaseAt(d)'
  <2>1. step \notin {"orphan", "swap", "write", "drop", "unlock"} /\ step \notin Parting
    BY DEF Holding, Parting
  <2> QED BY <1>2, <1>3, <1>5, <2>1, GotoLease
<1> QED BY <1>4, <1>5, StopLease

LEMMA ReleaseLease ==
  ASSUME ~overwritten', TypeOK, MarkerInv, LeaseInv, NEW d \in Devices, Release(d)
  PROVE  LeaseAt(d)'
<1> USE DEF Cloud
<1>0. LeaseAt(d) /\ MarkerAt(d) BY DEF LeaseInv, MarkerInv
<1>1. CASE StartRelease(d)
  <2>1. ASSUME Stop(d) \/ Goto(d, "bare") PROVE LeaseAt(d)'
    BY <2>1, QuietLease DEF Goto, Stop
  <2>2. ASSUME control.lease # {}, control.lease = op[d].want,
               pc' = [pc EXCEPT ![d] = "unmark"], op' = [op EXCEPT ![d].seen = control]
        PROVE  LeaseAt(d)'
    <3>1. PICK l \in control.lease : l.gen = control.gen /\ l.gen = op[d].gen
      BY <1>0, <2>2 DEF LeaseInv, MarkerAt, Wants
    <3>2. control = Owned(d) BY <2>2, <3>1 DEF TypeOK, Control, Owned
    <3>3. control' = control BY <1>1 DEF StartRelease
    <3>4. op'[d].seen = control /\ Owned(d)' = Owned(d)
      BY <2>2 DEF TypeOK, Op, Owned
    <3> QED BY <2>2, <3>2, <3>3, <3>4 DEF LeaseAt, TypeOK, Parting
  <2> QED BY <1>1, <2>1, <2>2 DEF StartRelease
<1>2. CASE DeleteMarker(d)
  <2>1. control' = Owned(d) /\ op[d].seen = Owned(d)
    BY <1>0, <1>2 DEF DeleteMarker, LeaseAt, Confirmed, Parting
  <2>2. marker \in {{}, op[d].want} => marker' = {} BY <1>2 DEF DeleteMarker
  <2> QED BY <1>2, <2>1, <2>2, GotoLease, StopLease DEF DeleteMarker, Check
<1>3. CASE pc[d] = "drop" /\ Goto(d, "unlock") /\ control' = control /\ marker' = marker
  <2>1. control = Owned(d) /\ op[d].seen = Owned(d) /\ marker = {}
    BY <1>0, <1>3 DEF LeaseAt, Confirmed, Parting
  <2> QED BY <1>3, <2>1, GotoLease
<1>4. CASE ~(StartRelease(d) \/ DeleteMarker(d))
  <2>1. \/ \E step \in {"idle", "sync", "released"} : pc' = [pc EXCEPT ![d] = step]
        \/ pc[d] = "drop" /\ Goto(d, "unlock") /\ control' = control /\ marker' = marker
    BY <1>4 DEF Release, CheckBare, SwapRelease, Swap, ConfirmRelease,
       SyncAndComplete, Check, Goto, Stop
  <2> QED BY <1>3, <2>1, QuietLease
<1> QED BY <1>1, <1>2, <1>4

LEMMA LeaseStep ==
  ~overwritten' /\ TypeOK /\ MarkerInv /\ LeaseInv /\ [Next]_vars => LeaseInv'
<1> SUFFICES ASSUME ~overwritten', TypeOK, MarkerInv, LeaseInv, [Next]_vars
             PROVE  LeaseInv'
  OBVIOUS
<1>1. CASE UNCHANGED vars
  BY <1>1 DEF vars, LeaseInv, MarkerHasLease, LeaseAt, Owned
<1>2. ASSUME NEW d \in Devices, Command(d) \/ Acquire(d) \/ Work(d) \/ Release(d)
      PROVE  LeaseInv'
  <2>1. LeaseAt(d)'
    BY <1>2, CommandLease, AcquireLease, WorkLease, ReleaseLease
  <2>2. ASSUME NEW e \in Devices, e # d PROVE LeaseAt(e)'
    <3>1. pc'[e] = pc[e] /\ op'[e] = op[e] /\ Owned(e)' = Owned(e)
      BY <1>2, <2>2, Alone DEF Owned
    <3>2. LeaseAt(e) BY DEF LeaseInv
    <3>3. pc[e] \in Confirmed => control' = control
      <4>1. ASSUME pc[e] \in Confirmed PROVE ~Taken(d)
        <5>1. control.lease = op[e].want BY <3>2, <4>1 DEF LeaseAt, Owned
        <5>2. op[e].want # {}
          BY <4>1 DEF MarkerInv, MarkerAt, Confirmed, Acquiring, Parting
        <5> QED BY <5>1, <5>2 DEF Taken
      <4>2. {"drop", "unlock"} \subseteq Confirmed BY DEF Confirmed, Parting
      <4> QED BY <1>2, <2>2, <4>1, <4>2, ControlSteps, OneOwner DEF Given
    <3>4. pc[e] \in {"drop", "unlock"} => marker' = {}
      <4>1. {"drop", "unlock", "place"} \subseteq Confirmed BY DEF Confirmed, Parting
      <4>2. PlaceMarker(d) => pc[d] = "place" BY DEF PlaceMarker
      <4> QED BY <1>2, <2>2, <3>2, <4>1, <4>2, MarkerSteps, OneOwner DEF LeaseAt
    <3> QED BY <3>1, <3>2, <3>3, <3>4 DEF LeaseAt
  <2>3. \A l \in control'.lease : l.gen = control'.gen
    <3>1. CASE control' = control BY <3>1 DEF LeaseInv
    <3>2. CASE Taken(d)
      BY <3>2 DEF Taken, Owned, MarkerInv, MarkerAt, Wants
    <3>3. CASE Given(d)
      BY <3>3 DEF Given, Freed
    <3> QED BY <1>2, <3>1, <3>2, <3>3, ControlSteps
  <2>4. MarkerHasLease'
    <3>1. CASE marker' = marker
      BY <1>2, <3>1, ControlSteps DEF LeaseInv, MarkerHasLease, Taken, Given
    <3>2. CASE PlaceMarker(d) /\ marker' = op[d].want /\ control' = control
      <4>1. control = Owned(d) BY <3>2 DEF PlaceMarker, LeaseInv, LeaseAt, Confirmed
      <4> QED BY <3>2, <4>1 DEF MarkerHasLease, Owned
    <3>3. CASE marker' = {} BY <3>3 DEF MarkerHasLease
    <3> QED BY <1>2, <3>1, <3>2, <3>3, MarkerSteps
  <2> QED BY <2>1, <2>2, <2>3, <2>4 DEF LeaseInv
<1> QED BY <1>1, <1>2 DEF Next

LEMMA LeaseInit == Init => MarkerInv /\ LeaseInv
BY DEF Init, MarkerInv, MarkerAt, Wants, NoOp, Acquiring, Holding, LeaseInv,
   MarkerHasLease, LeaseAt, Confirmed, Parting

\* An overwrite is not undone.
LEMMA StaysOverwritten == overwritten /\ [Next]_vars => overwritten'
<1> SUFFICES ASSUME overwritten, [Next]_vars PROVE overwritten'
  OBVIOUS
<1> USE DEF Cloud
<1>1. CASE UNCHANGED vars BY <1>1 DEF vars
<1>2. ASSUME NEW d \in Devices, Command(d) PROVE overwritten'
  BY <1>2 DEF Command, StartPreflight, FinishPreflight, CancelJob, StartRebuild,
     StartFinalize, Supersede, StartWipe, Fail
<1>3. ASSUME NEW d \in Devices, Acquire(d) PROVE overwritten'
  BY <1>3 DEF Acquire, ReadControl, RefuseOrphan, SwapLease, Swap, ConfirmLease,
     ReadMarker, CreateMarker, PlaceMarker, CheckMarker
<1>4. ASSUME NEW d \in Devices, Work(d) PROVE overwritten'
  BY <1>4 DEF Work, UsePermit, CheckFence, DeleteSome, DeleteLast, Cleared, Upload,
     Uploaded, Verify
<1>5. ASSUME NEW d \in Devices, Release(d) PROVE overwritten'
  BY <1>5 DEF Release, StartRelease, CheckBare, DeleteMarker, SwapRelease, Swap,
     ConfirmRelease, SyncAndComplete
<1> QED BY <1>1, <1>2, <1>3, <1>4, <1>5 DEF Next

LEMMA LeaseAlways == Spec => [](TypeOK /\ MarkerInv /\ LeaseUntil)
<1>1. TypeOK /\ MarkerInv /\ LeaseUntil /\ [Next]_vars => LeaseUntil'
  BY LeaseStep, StaysOverwritten DEF LeaseUntil
<1>2. LeaseInv => LeaseUntil BY DEF LeaseUntil
<1> QED BY <1>1, <1>2, LeaseInit, MarkerStep, TypeCorrect, PTL DEF Spec

\* A device that deletes, uploads or verifies has its marker, and owns
\* control.json through any failures and resumes, whether the provider swaps in
\* one request or compares and then writes: until such a write lands over a
\* control.json other than the one compared (compare_and_swap_control_json).
THEOREM HolderAlwaysOwnsFence == Spec => []HolderOwnsFence
<1>1. MarkerInv /\ LeaseUntil => HolderOwnsFence
  <2> SUFFICES ASSUME MarkerInv, LeaseUntil, NEW d \in Devices, pc[d] \in Holding
               PROVE  /\ marker = op[d].want
                      /\ \E l \in op[d].want : l.owner = d
                      /\ overwritten \/ control = Owned(d)
    BY DEF HolderOwnsFence
  <2>1. overwritten \/ control = Owned(d)
    BY DEF LeaseUntil, LeaseInv, LeaseAt, Confirmed
  <2>2. marker = op[d].want /\ op[d].want # {} /\ \A l \in op[d].want : l.owner = d
    BY DEF MarkerInv, MarkerAt, Wants
  <2> QED BY <2>1, <2>2
<1> QED BY <1>1, LeaseAlways, PTL

\* Until then a marker never outlives its lease.
THEOREM NeverOrphaned == Spec => []NoOrphanMarker
<1>1. LeaseUntil => NoOrphanMarker BY DEF LeaseUntil, LeaseInv, NoOrphanMarker
<1> QED BY <1>1, LeaseAlways, PTL

\* And the lease changes hands only by being given up and taken, a generation
\* being used once: the only step that breaks this is an unconditional write
\* that lands over what it was not compared with.
THEOREM LeaseChangesHands == Spec => LeaseHandover
<1> DEFINE Handover ==
      \/ overwritten'
      \/ control' = control
      \/ /\ control.lease = {}
         /\ control'.gen = control.gen + 1
         /\ \E l \in control'.lease : l.gen = control'.gen
      \/ control.lease # {} /\ control' = [control EXCEPT !.lease = {}]
<1>1. TypeOK /\ MarkerInv /\ LeaseUntil /\ [Next]_vars => [Handover]_vars
  <2> SUFFICES ASSUME TypeOK, MarkerInv, LeaseUntil, Next, ~overwritten' PROVE Handover
    OBVIOUS
  <2>1. PICK d \in Devices : Command(d) \/ Acquire(d) \/ Work(d) \/ Release(d)
    BY DEF Next
  <2>2. LeaseInv BY StaysOverwritten DEF LeaseUntil
  <2>3. CASE Taken(d)
    <3>1. op[d].want # {} /\ \A l \in op[d].want : l.gen = op[d].gen
      BY <2>3 DEF Taken, MarkerInv, MarkerAt, Wants, Acquiring
    <3> QED BY <2>3, <3>1 DEF Taken, Owned
  <2>4. CASE Given(d)
    BY <2>4 DEF Given, Owned, Freed
  <2> QED BY <2>1, <2>2, <2>3, <2>4, ControlSteps
<1> QED BY <1>1, LeaseAlways, PTL DEF Spec, LeaseHandover

-----------------------------------------------------------------------------
(* The job behind the lease *)

JobRecord(d) == LeaseOf(d, job[d].id, job[d].gen)

\* A job past its fence owns the lease until it is verified, and a folder that
\* was uploaded under the lease stays whole as long as the lease is held.
JobAt(d) ==
  /\ job[d].phase \in {"fenced", "transfer", "release"} => job[d].gen <= control.gen
  /\ job[d].phase \in {"fenced", "transfer"} =>
       control = [gen |-> job[d].gen, lease |-> JobRecord(d)]
  /\ job[d].phase \in {"transfer", "release"} /\ control.lease = JobRecord(d) =>
       payload = "whole"

\* What each kind of operation knows at its steps.
WipeAt(d) ==
  op[d].kind = "wipe" /\ pc[d] # "idle" =>
    /\ pc[d] \notin {"preflight", "uploaded", "verify"}
    /\ op[d].want = LeaseOf(d, 0, op[d].gen)
    /\ pc[d] \in {"cleared", "release"} \cup Parting =>
         payload = "wiped" /\ control = Owned(d)

RebuildAt(d) ==
  op[d].kind = "rebuild" =>
    /\ pc[d] \in Acquiring \cup (Holding \ {"verify"})
    /\ job[d] = NoJob \/ (job[d].gen = op[d].gen /\ op[d].want = JobRecord(d))
    /\ pc[d] \in {"fence", "delete", "cleared", "upload", "uploaded"} =>
         job[d].phase \notin {"transfer", "release"}
    /\ pc[d] = "uploaded" => payload = "whole"

FinalizeAt(d) ==
  op[d].kind = "finalize" =>
    /\ pc[d] \in Acquiring \cup {"hold", "verify"} \cup Releasing
    /\ job[d].gen = op[d].gen
    /\ job[d].phase \in {"transfer", "release"}
    /\ op[d].want = JobRecord(d) \/ (op[d].want = {} /\ pc[d] \in Releasing)
    /\ pc[d] \in Releasing => job[d].phase = "release"

PreflightAt(d) == op[d].kind = "preflight" => pc[d] = "preflight"

OpAt(d) == WipeAt(d) /\ RebuildAt(d) /\ FinalizeAt(d) /\ PreflightAt(d)

WorkInv == \A d \in Devices : JobAt(d) /\ OpAt(d)

\* The steps that write the rest of the folder run under the lease.
LEMMA PayloadSteps ==
  ASSUME LeaseInv, NEW d \in Devices, Command(d) \/ Acquire(d) \/ Work(d) \/ Release(d)
  PROVE  \/ payload' = payload
         \/ /\ DeleteSome(d) \/ DeleteLast(d) \/ Upload(d)
            /\ pc[d] \in Confirmed /\ control = Owned(d) /\ control' = control
<1> USE DEF Cloud
<1>1. CASE Command(d)
  BY <1>1 DEF Command, StartPreflight, FinishPreflight, CancelJob, StartRebuild,
     StartFinalize, Supersede, StartWipe, Fail
<1>2. CASE Acquire(d)
  BY <1>2 DEF Acquire, ReadControl, RefuseOrphan, SwapLease, Swap, ConfirmLease,
     ReadMarker, CreateMarker, PlaceMarker, CheckMarker
<1>3. CASE Work(d)
  <2>1. CASE DeleteSome(d) \/ DeleteLast(d) \/ Upload(d)
    <3>1. pc[d] \in Confirmed /\ control' = control
      BY <2>1 DEF DeleteSome, DeleteLast, Upload, Confirmed, Holding, Parting
    <3> QED BY <2>1, <3>1 DEF LeaseInv, LeaseAt
  <2> QED BY <1>3, <2>1 DEF Work, UsePermit, CheckFence, Cleared, Uploaded, Verify
<1>4. CASE Release(d)
  BY <1>4 DEF Release, StartRelease, CheckBare, DeleteMarker, SwapRelease, Swap,
     ConfirmRelease, SyncAndComplete
<1> QED BY <1>1, <1>2, <1>3, <1>4

\* What an operation wants is a record of its own device.
LEMMA WantOwn ==
  ASSUME MarkerInv, NEW d \in Devices, pc[d] \in Confirmed
  PROVE  op[d].want # {} /\ \A l \in op[d].want : l.owner = d
BY DEF MarkerInv, MarkerAt, Wants, Confirmed, Acquiring, Parting

\* While one device's record is in control.json, the others change neither it nor
\* the folder.
LEMMA OthersKeep ==
  ASSUME ~overwritten', TypeOK, MarkerInv, LeaseInv, NEW d \in Devices,
         Command(d) \/ Acquire(d) \/ Work(d) \/ Release(d),
         NEW e \in Devices, e # d,
         control.lease # {}, \A l \in control.lease : l.owner = e
  PROVE  control' = control /\ payload' = payload
<1>1. ASSUME pc[d] \in Confirmed, control = Owned(d) PROVE FALSE
  BY <1>1, WantOwn DEF Owned
<1>2. {"drop", "unlock"} \subseteq Confirmed BY DEF Confirmed, Parting
<1>3. control' = control BY <1>1, <1>2, ControlSteps DEF Taken, Given
<1> QED BY <1>1, <1>3, PayloadSteps

\* A record that a step of another device leaves in control.json was there before.
LEMMA OthersTake ==
  ASSUME ~overwritten', TypeOK, MarkerInv, LeaseInv, NEW d \in Devices,
         Command(d) \/ Acquire(d) \/ Work(d) \/ Release(d),
         NEW e \in Devices, e # d, NEW id, NEW gen,
         control'.lease = LeaseOf(e, id, gen)
  PROVE  control' = control /\ payload' = payload
<1>1. CASE Taken(d)
  <2>1. op[d].want # {} /\ \A l \in op[d].want : l.owner = d
    BY <1>1 DEF Taken, MarkerInv, MarkerAt, Wants, Acquiring
  <2> QED BY <1>1, <2>1 DEF Taken, Owned, LeaseOf
<1>2. CASE Given(d) BY <1>2 DEF Given, Freed, LeaseOf
<1>3. CASE control' = control
  <2>1. control.lease = LeaseOf(e, id, gen) BY <1>3
  <2>2. control.lease # {} /\ \A l \in control.lease : l.owner = e
    BY <2>1 DEF LeaseOf
  <2> QED BY <2>2, OthersKeep
<1> QED BY <1>1, <1>2, <1>3, ControlSteps

\* The generation never falls.
LEMMA GenGrows ==
  ASSUME ~overwritten', TypeOK, MarkerInv, LeaseInv, NEW d \in Devices,
         Command(d) \/ Acquire(d) \/ Work(d) \/ Release(d)
  PROVE  control'.gen >= control.gen
<1>1. control.gen \in Nat BY DEF TypeOK, Control
<1> QED BY <1>1, ControlSteps DEF Taken, Given, Owned, Freed

\* Another device's step.
LEMMA OthersWork ==
  ASSUME ~overwritten', TypeOK, MarkerInv, LeaseInv, WorkInv, NEW d \in Devices,
         Command(d) \/ Acquire(d) \/ Work(d) \/ Release(d),
         NEW e \in Devices, e # d
  PROVE  JobAt(e)' /\ OpAt(e)'
<1>0. JobAt(e) /\ OpAt(e) BY DEF WorkInv
<1>1. /\ pc'[e] = pc[e] /\ op'[e] = op[e] /\ job'[e] = job[e]
      /\ JobRecord(e)' = JobRecord(e) /\ Owned(e)' = Owned(e)
  BY Alone DEF JobRecord, Owned
<1>2. JobAt(e)'
  <2>1. job[e].phase \in {"fenced", "transfer", "release"} => job[e].gen <= control'.gen
    <3>1. job[e].gen \in Nat /\ control.gen \in Nat BY DEF TypeOK, Job, Control
    <3>2. control'.gen \in Nat
      BY <3>1, ControlSteps DEF Taken, Given, Owned, Freed, TypeOK, Op
    <3> QED BY <1>0, <3>1, <3>2, GenGrows DEF JobAt
  <2>2. ASSUME job[e].phase \in {"fenced", "transfer"} PROVE control' = control
    <3>1. control.lease = JobRecord(e) BY <1>0, <2>2 DEF JobAt
    <3> QED BY <3>1, OthersKeep DEF JobRecord, LeaseOf
  <2>3. ASSUME control'.lease = JobRecord(e) PROVE control' = control /\ payload' = payload
    BY <2>3, OthersTake DEF JobRecord
  <2> QED BY <1>0, <1>1, <2>1, <2>2, <2>3 DEF JobAt
<1>3. WipeAt(e)'
  <2>1. ASSUME op[e].kind = "wipe", pc[e] \in {"cleared", "release"} \cup Parting
        PROVE  control' = control /\ payload' = payload
    <3>0. pc[e] # "idle" BY <2>1 DEF Parting
    <3>1. control.lease = LeaseOf(e, 0, op[e].gen)
      BY <1>0, <2>1, <3>0 DEF OpAt, WipeAt, Owned
    <3> QED BY <3>1, OthersKeep DEF LeaseOf
  <2> QED BY <1>0, <1>1, <2>1 DEF OpAt, WipeAt, LeaseOf
<1>4. RebuildAt(e)'
  <2>1. ASSUME pc[e] = "uploaded" PROVE payload' = payload
    <3>1. pc[e] \in Confirmed BY <2>1 DEF Confirmed, Holding, Parting
    <3>2. control = Owned(e) BY <3>1 DEF LeaseInv, LeaseAt
    <3> QED BY <3>1, <3>2, WantOwn, OthersKeep DEF Owned
  <2> QED BY <1>0, <1>1, <2>1 DEF OpAt, RebuildAt
<1>5. FinalizeAt(e)' /\ PreflightAt(e)'
  BY <1>0, <1>1 DEF OpAt, FinalizeAt, PreflightAt
<1> QED BY <1>2, <1>3, <1>4, <1>5 DEF OpAt

\* Records name their job: that of a wipe names none.
LEMMA LeaseNames ==
  ASSUME NEW d, NEW i, NEW g, NEW j, NEW h, LeaseOf(d, i, g) = LeaseOf(d, j, h)
  PROVE  i = j /\ g = h
<1>1. [owner |-> d, job |-> i, gen |-> g] = [owner |-> d, job |-> j, gen |-> h]
  BY DEF LeaseOf
<1>2. /\ [owner |-> d, job |-> i, gen |-> g].job = i
      /\ [owner |-> d, job |-> i, gen |-> g].gen = g
      /\ [owner |-> d, job |-> j, gen |-> h].job = j
      /\ [owner |-> d, job |-> j, gen |-> h].gen = h
  OBVIOUS
<1> QED BY <1>1, <1>2

LEMMA LeaseNotFree == ASSUME NEW d, NEW i, NEW g PROVE LeaseOf(d, i, g) # {}
BY DEF LeaseOf

\* A step that stops an operation, or only moves it on.
LEMMA StopOp ==
  ASSUME TypeOK, NEW d \in Devices, Stop(d)
  PROVE  OpAt(d)'
BY DEF Stop, TypeOK, NoOp, Parting, OpAt, WipeAt, RebuildAt, FinalizeAt, PreflightAt

LEMMA SameJob ==
  ASSUME NEW d \in Devices, JobAt(d), job'[d] = job[d], control' = control,
         payload' = payload
  PROVE  JobAt(d)'
BY DEF JobAt, JobRecord

\* A job of an early phase, or none, promises nothing.
LEMMA EarlyJob ==
  ASSUME NEW d \in Devices, job'[d].phase \notin {"fenced", "transfer", "release"}
  PROVE  JobAt(d)'
BY DEF JobAt

LEMMA CommandWork ==
  ASSUME TypeOK, LeaseInv, NEW d \in Devices, JobAt(d), OpAt(d), Command(d)
  PROVE  JobAt(d)' /\ OpAt(d)'
<1> USE DEF Cloud, Jobs, Parting
<1>1. control' = control /\ payload' = payload
  BY DEF Command, StartPreflight, FinishPreflight, CancelJob, StartRebuild,
     StartFinalize, Supersede, StartWipe, Fail
<1>2. CASE StartPreflight(d)
  <2>1. job'[d] = job[d] \/ job'[d].phase = "created"
    BY <1>2 DEF StartPreflight, TypeOK
  <2>2. op'[d].kind = "preflight" /\ pc'[d] = "preflight"
    BY <1>2 DEF StartPreflight, Begin, TypeOK, NoOp
  <2> QED BY <1>1, <2>1, <2>2, SameJob, EarlyJob
          DEF OpAt, WipeAt, RebuildAt, FinalizeAt, PreflightAt
<1>3. CASE FinishPreflight(d)
  <2>1. job'[d] = job[d] \/ job'[d].phase = "backup"
    BY <1>3 DEF FinishPreflight, SetPhase, TypeOK, Job
  <2> QED BY <1>1, <1>3, <2>1, SameJob, EarlyJob, StopOp DEF FinishPreflight
<1>4. CASE CancelJob(d)
  <2>1. job'[d] = NoJob /\ pc' = pc /\ op' = op BY <1>4 DEF CancelJob, Drop, TypeOK
  <2>2. NoJob.phase = "none" BY DEF NoJob
  <2>3. job[d].phase \notin {"transfer", "release"} BY <1>4 DEF CancelJob
  <2>4. JobAt(d)' BY <2>1, <2>2, EarlyJob
  <2>5. WipeAt(d)' /\ PreflightAt(d)'
    BY <1>1, <2>1 DEF OpAt, WipeAt, PreflightAt, Owned
  <2>6. op[d].kind # "finalize" BY <2>3 DEF OpAt, FinalizeAt
  <2>7. RebuildAt(d)' BY <1>1, <2>1, <2>2 DEF OpAt, RebuildAt
  <2>8. FinalizeAt(d)' BY <2>1, <2>6 DEF FinalizeAt
  <2> QED BY <2>4, <2>5, <2>7, <2>8 DEF OpAt
<1>5. CASE Supersede(d)
  <2>1. job'[d] = NoJob /\ pc' = pc /\ op' = op /\ pc[d] = "idle"
    BY <1>5 DEF Supersede, Drop, TypeOK
  <2>2. NoJob.phase = "none" BY DEF NoJob
  <2>3. JobAt(d)' BY <2>1, <2>2, EarlyJob
  <2>4. op[d].kind = "wipe"
    BY <2>1 DEF OpAt, RebuildAt, FinalizeAt, PreflightAt, Acquiring, Holding, Releasing,
       TypeOK, Op, Kinds
  <2> QED BY <2>1, <2>3, <2>4 DEF OpAt, WipeAt, RebuildAt, FinalizeAt, PreflightAt
<1>6. CASE StartRebuild(d)
  <2>1. /\ job'[d] = job[d] /\ pc'[d] = "acquire" /\ op'[d].kind = "rebuild"
        /\ op'[d].gen = job[d].gen /\ op'[d].want = JobRecord(d)
    BY <1>6 DEF StartRebuild, Begin, TypeOK, NoOp, JobRecord
  <2>2. JobRecord(d)' = JobRecord(d) BY <2>1 DEF JobRecord
  <2> QED BY <1>1, <2>1, <2>2, SameJob
          DEF OpAt, WipeAt, RebuildAt, FinalizeAt, PreflightAt, Acquiring
<1>7. CASE StartFinalize(d)
  <2>1. /\ job'[d] = job[d] /\ op'[d].kind = "finalize" /\ op'[d].gen = job[d].gen
        /\ job[d].phase \in {"transfer", "release"}
        /\ \/ pc'[d] = "acquire" /\ op'[d].want = JobRecord(d)
           \/ pc'[d] = "release" /\ op'[d].want = {} /\ job[d].phase = "release"
    BY <1>7 DEF StartFinalize, Begin, TypeOK, NoOp, JobRecord
  <2>2. JobRecord(d)' = JobRecord(d) BY <2>1 DEF JobRecord
  <2>3. "acquire" \in Acquiring /\ "acquire" \notin Releasing /\ "release" \in Releasing
    BY DEF Acquiring, Releasing
  <2> QED BY <1>1, <2>1, <2>2, <2>3, SameJob
          DEF OpAt, WipeAt, RebuildAt, FinalizeAt, PreflightAt
<1>8. CASE StartWipe(d)
  <2>1. /\ job'[d] = job[d] /\ pc'[d] = "acquire" /\ op'[d].kind = "wipe"
        /\ op'[d].want = LeaseOf(d, 0, op'[d].gen)
    <3>1. ASSUME NEW gen, Begin(d, "wipe", gen, LeaseOf(d, 0, gen), "acquire")
          PROVE  /\ pc'[d] = "acquire" /\ op'[d].kind = "wipe"
                 /\ op'[d].want = LeaseOf(d, 0, op'[d].gen)
      BY <3>1 DEF Begin, TypeOK, NoOp
    <3> QED BY <1>8, <3>1 DEF StartWipe
  <2> QED BY <1>1, <2>1, SameJob DEF OpAt, WipeAt, RebuildAt, FinalizeAt, PreflightAt, LeaseOf
<1>9. CASE Fail(d)
  BY <1>1, <1>9, SameJob, StopOp DEF Fail
<1> QED BY <1>2, <1>3, <1>4, <1>5, <1>6, <1>7, <1>8, <1>9 DEF Command

LEMMA AcquireWork ==
  ASSUME ~overwritten', TypeOK, MarkerInv, LeaseInv, NEW d \in Devices, JobAt(d), OpAt(d),
         Acquire(d)
  PROVE  JobAt(d)' /\ OpAt(d)'
<1> USE DEF Cloud, Jobs, Parting
<1>1. job' = job /\ payload' = payload
  BY DEF Acquire, ReadControl, RefuseOrphan, SwapLease, Swap, ConfirmLease,
     ReadMarker, CreateMarker, PlaceMarker, CheckMarker
<1>2. pc[d] \in Acquiring
  BY DEF Acquire, ReadControl, RefuseOrphan, SwapLease, Swap, ConfirmLease,
     ReadMarker, CreateMarker, PlaceMarker, CheckMarker, Acquiring
<1>3. JobAt(d)'
  <2>1. CASE control' = control BY <1>1, <2>1, SameJob
  <2>2. CASE Taken(d)
    <3>1. control.lease = {} /\ control'.gen = control.gen + 1 /\ control'.lease = op[d].want
      BY <2>2 DEF Taken, Owned
    <3>2. control.gen \in Nat /\ job[d].gen \in Nat BY DEF TypeOK, Control, Job
    <3>3. job[d].phase \notin {"fenced", "transfer"}
      BY <3>1, LeaseNotFree DEF JobAt, JobRecord
    <3>4. ASSUME job[d].phase = "release", control'.lease = JobRecord(d) PROVE FALSE
      <4>1. \A l \in op[d].want : l.gen = op[d].gen
        BY DEF MarkerInv, MarkerAt, Wants
      <4>2. job[d].gen = op[d].gen BY <3>1, <3>4, <4>1 DEF JobRecord, LeaseOf
      <4>3. op[d].gen = control.gen + 1 BY <2>2 DEF Taken
      <4>4. job[d].gen <= control.gen BY <3>4 DEF JobAt
      <4> QED BY <3>2, <4>2, <4>3, <4>4
    <3>5. job[d].phase = "release" => job[d].gen <= control'.gen
      BY <3>1, <3>2 DEF JobAt
    <3>6. JobRecord(d)' = JobRecord(d) BY <1>1 DEF JobRecord
    <3> QED BY <1>1, <3>3, <3>4, <3>5, <3>6 DEF JobAt
  <2>3. CASE Given(d)
    BY <1>2, <2>3 DEF Given, Acquiring
  <2> QED BY <2>1, <2>2, <2>3, ControlSteps
<1>4. \/ Stop(d)
      \/ /\ op'[d].kind = op[d].kind /\ op'[d].gen = op[d].gen /\ op'[d].want = op[d].want
         /\ pc'[d] \in Acquiring \cup {"hold"}
  BY DEF Acquire, ReadControl, RefuseOrphan, SwapLease, Swap, ConfirmLease, ReadMarker,
     CreateMarker, PlaceMarker, CheckMarker, Check, Goto, TypeOK, Op, Acquiring
<1>5. ASSUME op'[d].kind = op[d].kind, op'[d].gen = op[d].gen, op'[d].want = op[d].want,
             pc'[d] \in Acquiring \cup {"hold"}
      PROVE  OpAt(d)'
  <2>1. JobRecord(d)' = JobRecord(d) BY <1>1 DEF JobRecord
  <2>2. /\ pc[d] \notin {"idle", "preflight"} /\ pc[d] \notin Releasing
        /\ pc'[d] \notin {"idle", "preflight", "uploaded", "verify", "cleared", "release",
                          "unmark", "drop", "unlock", "fence", "delete", "upload"}
        /\ pc'[d] \notin Releasing
        /\ pc'[d] \in Acquiring \cup (Holding \ {"verify"})
    BY <1>2, <1>5 DEF Acquiring, Releasing, Holding
  <2>3. WipeAt(d)' BY <1>5, <2>2 DEF OpAt, WipeAt, LeaseOf
  <2>4. RebuildAt(d)' BY <1>1, <1>5, <2>1, <2>2 DEF OpAt, RebuildAt
  <2>5. FinalizeAt(d)' BY <1>1, <1>5, <2>1, <2>2 DEF OpAt, FinalizeAt
  <2>6. PreflightAt(d)' BY <1>5, <2>2 DEF OpAt, PreflightAt
  <2> QED BY <2>3, <2>4, <2>5, <2>6 DEF OpAt
<1> QED BY <1>3, <1>4, <1>5, StopOp

LEMMA WorkWork ==
  ASSUME TypeOK, JobSteps, MarkerInv, LeaseInv, NEW d \in Devices, JobAt(d), OpAt(d),
         Work(d)
  PROVE  JobAt(d)' /\ OpAt(d)'
<1> USE DEF Cloud, Jobs, Parting
<1>1. pc[d] \in Holding /\ pc[d] \notin {"idle", "preflight"} /\ pc[d] \notin Releasing
  BY DEF Work, UsePermit, CheckFence, DeleteSome, DeleteLast, Cleared, Upload,
     Uploaded, Verify, Holding, Releasing
<1>2. control = Owned(d) /\ op[d].want # {}
  BY <1>1, WantOwn DEF LeaseInv, LeaseAt, Confirmed
<1>3. control' = control
  BY DEF Work, UsePermit, CheckFence, DeleteSome, DeleteLast, Cleared, Upload,
     Uploaded, Verify
<1>4. op[d].kind \in {"wipe", "rebuild", "finalize"}
  BY <1>1 DEF OpAt, PreflightAt, TypeOK, Op, Kinds
<1>5. CASE UsePermit(d)
  <2>1. job' = job /\ payload' = payload BY <1>5 DEF UsePermit
  <2>2. JobAt(d)' BY <1>3, <2>1, SameJob
  <2>3. ASSUME ~Stop(d) PROVE OpAt(d)'
    <3>1. /\ op' = op /\ JobRecord(d)' = JobRecord(d)
          /\ \/ op[d].kind = "wipe" /\ pc'[d] = "fence"
             \/ /\ op[d].kind = "rebuild" /\ job[d].phase \notin {"transfer", "release"}
                /\ pc'[d] = "fence"
             \/ op[d].kind = "finalize" /\ job[d].phase = "transfer" /\ pc'[d] = "verify"
             \/ op[d].kind = "finalize" /\ job[d].phase # "transfer" /\ pc'[d] = "release"
      BY <1>5, <2>1, <2>3 DEF UsePermit, Goto, TypeOK, JobRecord
    <3>2. "fence" \in Holding /\ "verify" \notin Releasing /\ "release" \in Releasing
      BY DEF Holding, Releasing
    <3> QED BY <1>1, <2>1, <3>1, <3>2
            DEF OpAt, WipeAt, RebuildAt, FinalizeAt, PreflightAt
  <2> QED BY <2>2, <2>3, StopOp
<1>6. CASE CheckFence(d)
  <2>1. job' = job /\ payload' = payload BY <1>6 DEF CheckFence
  <2>2. JobAt(d)' BY <1>3, <2>1, SameJob
  <2>3. ASSUME ~Stop(d) PROVE OpAt(d)'
    <3>1. op' = op /\ JobRecord(d)' = JobRecord(d) /\ pc[d] = "fence" /\ pc'[d] = "delete"
      BY <1>6, <2>1, <2>3 DEF CheckFence, Check, Goto, TypeOK, JobRecord
    <3>2. "delete" \in Holding /\ "fence" \notin Acquiring \cup Releasing
      BY DEF Holding, Acquiring, Releasing
    <3> QED BY <2>1, <3>1, <3>2 DEF OpAt, WipeAt, RebuildAt, FinalizeAt, PreflightAt
  <2> QED BY <1>6, <2>2, <2>3, StopOp
<1>7. CASE DeleteSome(d) \/ DeleteLast(d)
  <2>1. /\ job' = job /\ op' = op /\ JobRecord(d)' = JobRecord(d) /\ pc[d] = "delete"
        /\ \/ pc'[d] = "fence"
           \/ pc'[d] = "cleared" /\ op[d].kind = "wipe" => payload' = "wiped"
        /\ pc'[d] \in {"fence", "cleared"}
    BY <1>7 DEF DeleteSome, DeleteLast, Goto, TypeOK, JobRecord
  <2>2. op[d].kind \in {"wipe", "rebuild"}
    BY <1>4, <2>1 DEF OpAt, FinalizeAt, Acquiring, Releasing
  <2>3. {"fence", "cleared"} \subseteq Holding /\ Owned(d)' = Owned(d)
    BY <2>1 DEF Holding, Owned
  <2>4. JobAt(d)'
    <3>1. ASSUME job[d].phase \in {"transfer", "release"}, control.lease = JobRecord(d)
          PROVE  FALSE
      <4>1. op[d].kind = "wipe" BY <2>1, <2>2, <3>1 DEF OpAt, RebuildAt
      <4>2. op[d].want = LeaseOf(d, 0, op[d].gen) BY <2>1, <4>1 DEF OpAt, WipeAt
      <4>3. job[d].id = 0 BY <1>2, <3>1, <4>2, LeaseNames DEF Owned, JobRecord
      <4>4. job[d].phase = "none" BY <4>3 DEF TypeOK, NoJob
      <4> QED BY <3>1, <4>4
    <3> QED BY <1>3, <2>1, <3>1 DEF JobAt
  <2>5. WipeAt(d)' BY <1>2, <1>3, <2>1, <2>3 DEF OpAt, WipeAt
  <2>6. RebuildAt(d)' BY <2>1, <2>3 DEF OpAt, RebuildAt
  <2> QED BY <2>1, <2>2, <2>4, <2>5, <2>6 DEF OpAt, FinalizeAt, PreflightAt
<1>8. CASE Cleared(d)
  <2>1. payload' = payload /\ pc[d] = "cleared" BY <1>8 DEF Cleared
  <2>2. op[d].kind \in {"wipe", "rebuild"}
    BY <1>4, <2>1 DEF OpAt, FinalizeAt, Acquiring, Releasing
  <2>3. CASE op[d].kind = "rebuild" /\ job[d].phase \in {"backup", "fenced"}
    <3>1. /\ job'[d] = [job[d] EXCEPT !.phase = "fenced"] /\ op' = op
          /\ pc'[d] = "upload"
      BY <1>2, <1>8, <2>3 DEF Cleared, SetPhase, Goto, TypeOK
    <3>2. job'[d].phase = "fenced" /\ job'[d].id = job[d].id /\ job'[d].gen = job[d].gen
      BY <3>1 DEF TypeOK, Job
    <3>3. JobRecord(d)' = JobRecord(d) BY <3>2 DEF JobRecord
    <3>4. job[d] # NoJob BY <2>3 DEF NoJob
    <3>5. job[d].gen = op[d].gen /\ op[d].want = JobRecord(d)
      BY <2>3, <3>4 DEF OpAt, RebuildAt
    <3>6. control' = [gen |-> job'[d].gen, lease |-> JobRecord(d)']
      BY <1>2, <1>3, <3>2, <3>3, <3>5 DEF Owned
    <3>7. job'[d].gen <= control'.gen
      <4>1. job[d].gen \in Nat BY DEF TypeOK, Job
      <4> QED BY <3>2, <3>6, <4>1
    <3>8. JobAt(d)' BY <3>2, <3>6, <3>7 DEF JobAt
    <3>9. "upload" \in Holding BY DEF Holding
    <3> QED BY <2>3, <3>1, <3>2, <3>3, <3>5, <3>8, <3>9
            DEF OpAt, WipeAt, RebuildAt, FinalizeAt, PreflightAt
  <2>4. CASE ~(op[d].kind = "rebuild" /\ job[d].phase \in {"backup", "fenced"})
    <3>1. job' = job BY <2>4, <1>8 DEF Cleared
    <3>2. JobAt(d)' BY <1>3, <2>1, <3>1, SameJob
    <3>3. Stop(d) \/ (op[d].kind = "wipe" /\ op' = op /\ pc'[d] = "release")
      BY <2>4, <1>8 DEF Cleared, Check, Goto, TypeOK
    <3>4. ASSUME op[d].kind = "wipe", op' = op, pc'[d] = "release" PROVE OpAt(d)'
      <4>1. Owned(d)' = Owned(d) BY <3>4 DEF Owned
      <4> QED BY <1>2, <1>3, <2>1, <3>4, <4>1
              DEF OpAt, WipeAt, RebuildAt, FinalizeAt, PreflightAt
    <3> QED BY <3>2, <3>3, <3>4, StopOp
  <2> QED BY <2>3, <2>4
<1>9. CASE Upload(d)
  <2>1. /\ job' = job /\ payload' = "whole" /\ pc[d] = "upload" /\ op' = op
        /\ pc'[d] = "uploaded" /\ JobRecord(d)' = JobRecord(d)
    BY <1>2, <1>9 DEF Upload, Check, Goto, TypeOK, JobRecord
  <2>2. JobAt(d)' BY <1>3, <2>1 DEF JobAt
  <2>3. op[d].kind = "rebuild"
    <3>1. job[d].phase = "fenced" BY <2>1 DEF JobSteps
    <3>2. op[d].kind # "finalize" BY <3>1 DEF OpAt, FinalizeAt
    <3>3. op[d].kind # "wipe"
      <4>1. SUFFICES ASSUME op[d].kind = "wipe" PROVE FALSE OBVIOUS
      <4>2. op[d].want = LeaseOf(d, 0, op[d].gen) BY <2>1, <4>1 DEF OpAt, WipeAt
      <4>3. op[d].want = JobRecord(d) BY <1>2, <3>1 DEF JobAt, Owned
      <4>4. job[d].id = 0 BY <4>2, <4>3, LeaseNames DEF JobRecord
      <4> QED BY <3>1, <4>4 DEF TypeOK, NoJob
    <3> QED BY <1>4, <3>2, <3>3
  <2>4. "uploaded" \in Holding BY DEF Holding
  <2> QED BY <2>1, <2>2, <2>3, <2>4 DEF OpAt, WipeAt, RebuildAt, FinalizeAt, PreflightAt
<1>10. CASE Uploaded(d)
  <2>1. /\ payload' = payload /\ pc[d] = "uploaded" /\ Stop(d)
        /\ job'[d] = [job[d] EXCEPT !.phase = "transfer"]
    BY <1>10 DEF Uploaded, SetPhase, TypeOK
  <2>2. job'[d].phase = "transfer" /\ job'[d].id = job[d].id /\ job'[d].gen = job[d].gen
    BY <2>1 DEF TypeOK, Job
  <2>3. job[d].phase = "fenced" BY <2>1 DEF JobSteps
  <2>4. JobRecord(d)' = JobRecord(d) BY <2>2 DEF JobRecord
  <2>5. op[d].kind = "rebuild"
    BY <1>4, <2>1, <2>3 DEF OpAt, WipeAt, FinalizeAt
  <2>6. payload = "whole" BY <2>1, <2>5 DEF OpAt, RebuildAt
  <2>7. JobAt(d)' BY <1>3, <2>1, <2>2, <2>3, <2>4, <2>6 DEF JobAt
  <2> QED BY <2>1, <2>7, StopOp
<1>11. CASE Verify(d)
  <2>1. payload' = payload /\ pc[d] = "verify" BY <1>11 DEF Verify
  <2>2. CASE job' = job
    <3>1. JobAt(d)' BY <1>3, <2>1, <2>2, SameJob
    <3>2. Stop(d) \/ job'[d] = [job[d] EXCEPT !.phase = "release"]
      BY <1>11 DEF Verify, Check, SetPhase, TypeOK
    <3>3. ASSUME job'[d] = [job[d] EXCEPT !.phase = "release"] PROVE FALSE
      BY <2>1, <2>2, <3>3 DEF JobSteps, TypeOK, Job
    <3> QED BY <3>1, <3>2, <3>3, StopOp
  <2>3. CASE job' # job
    <3>1. /\ job'[d] = [job[d] EXCEPT !.phase = "release"] /\ op' = op
          /\ pc'[d] = "release" /\ payload = "whole"
      BY <1>11, <2>3 DEF Verify, Check, SetPhase, Goto, TypeOK
    <3>2. job'[d].phase = "release" /\ job'[d].id = job[d].id /\ job'[d].gen = job[d].gen
      BY <3>1 DEF TypeOK, Job
    <3>3. job[d].phase = "transfer" BY <2>1 DEF JobSteps
    <3>4. JobRecord(d)' = JobRecord(d) BY <3>2 DEF JobRecord
    <3>5. JobAt(d)' BY <1>3, <2>1, <3>1, <3>2, <3>3 DEF JobAt
    <3>6. op[d].kind = "finalize" BY <1>4, <2>1 DEF OpAt, WipeAt, RebuildAt, Acquiring
    <3>7. "release" \in Releasing BY DEF Releasing
    <3> QED BY <1>1, <3>1, <3>2, <3>4, <3>5, <3>6, <3>7
            DEF OpAt, WipeAt, RebuildAt, FinalizeAt, PreflightAt
  <2> QED BY <2>2, <2>3
<1> QED BY <1>5, <1>6, <1>7, <1>8, <1>9, <1>10, <1>11 DEF Work

LEMMA ReleaseWork ==
  ASSUME ~overwritten', TypeOK, MarkerInv, LeaseInv, NEW d \in Devices, JobAt(d), OpAt(d),
         Release(d)
  PROVE  JobAt(d)' /\ OpAt(d)'
<1> USE DEF Cloud, Jobs, Parting
<1>1. payload' = payload
  BY DEF Release, StartRelease, CheckBare, DeleteMarker, SwapRelease, Swap,
     ConfirmRelease, SyncAndComplete
<1>2. pc[d] \in Releasing /\ pc[d] \notin Acquiring \cup Holding
      /\ pc[d] \notin {"idle", "preflight", "hold", "verify"}
  BY DEF Release, StartRelease, CheckBare, DeleteMarker, SwapRelease, Swap,
     ConfirmRelease, SyncAndComplete, Releasing, Acquiring, Holding, LeaseInv, LeaseAt
<1>3. op[d].kind \in {"wipe", "finalize"}
  BY <1>2 DEF OpAt, RebuildAt, PreflightAt, TypeOK, Op, Kinds
<1>4. \/ Stop(d) /\ job'[d] \in {job[d], NoJob}
      \/ /\ job'[d] = job[d]
         /\ op'[d].kind = op[d].kind /\ op'[d].gen = op[d].gen /\ op'[d].want = op[d].want
         /\ pc'[d] \in Releasing /\ pc'[d] # "release"
         /\ pc'[d] = "unlock" => pc[d] = "drop"
         /\ pc'[d] = "drop" => pc[d] = "unmark"
         /\ pc'[d] = "unmark" => pc[d] = "release"
  BY DEF Release, StartRelease, CheckBare, DeleteMarker, SwapRelease, Swap,
     ConfirmRelease, SyncAndComplete, Check, Goto, Drop, TypeOK, Op, Releasing,
     LeaseInv, LeaseAt
<1>5. NoJob.phase = "none" BY DEF NoJob
<1>6. control' # control => pc'[d] = "released" /\ Given(d)
  <2>1. ~Taken(d) BY <1>2 DEF Taken, Acquiring
  <2>2. ASSUME SwapRelease(d), control' # control
        PROVE  pc'[d] = "released"
    BY <2>2 DEF SwapRelease, Swap, Goto, TypeOK
  <2> QED BY <2>1, <2>2, ControlSteps
<1>7. JobAt(d)'
  <2>1. CASE job'[d] = NoJob BY <1>5, <2>1, EarlyJob
  <2>2. CASE job'[d] = job[d] /\ control' = control BY <1>1, <2>2, SameJob
  <2>3. CASE job'[d] = job[d] /\ control' # control
    <3>1. Given(d) BY <1>6, <2>3
    <3>2. control'.gen = control.gen /\ control'.lease = {}
      BY <3>1 DEF Given, Owned, Freed
    <3>3. control.lease = op[d].want /\ op[d].want # {} BY <3>1 DEF Given, Owned
    <3>4. job[d].phase \notin {"fenced", "transfer"}
      <4>1. CASE op[d].kind = "finalize"
        BY <1>2, <4>1 DEF OpAt, FinalizeAt
      <4>2. CASE op[d].kind = "wipe"
        <5>1. op[d].want = LeaseOf(d, 0, op[d].gen) BY <1>2, <4>2 DEF OpAt, WipeAt
        <5>2. SUFFICES ASSUME job[d].phase \in {"fenced", "transfer"} PROVE FALSE
          OBVIOUS
        <5>3. op[d].want = JobRecord(d) BY <3>3, <5>2 DEF JobAt
        <5>4. job[d].id = 0 BY <5>1, <5>3, LeaseNames DEF JobRecord
        <5> QED BY <5>2, <5>4 DEF TypeOK, NoJob
      <4> QED BY <1>3, <4>1, <4>2
    <3>5. JobRecord(d)' # {} BY LeaseNotFree DEF JobRecord
    <3> QED BY <2>3, <3>2, <3>4, <3>5 DEF JobAt
  <2> QED BY <1>4, <2>1, <2>2, <2>3
<1>8. ASSUME ~Stop(d) PROVE OpAt(d)'
  <2>1. /\ job'[d] = job[d] /\ JobRecord(d)' = JobRecord(d) /\ Owned(d)' = Owned(d)
        /\ op'[d].kind = op[d].kind /\ op'[d].gen = op[d].gen /\ op'[d].want = op[d].want
        /\ pc'[d] \in Releasing /\ pc'[d] # "release"
        /\ pc'[d] = "unlock" => pc[d] = "drop"
        /\ pc'[d] = "drop" => pc[d] = "unmark"
        /\ pc'[d] = "unmark" => pc[d] = "release"
    BY <1>4, <1>8 DEF JobRecord, Owned
  <2>2. pc'[d] \notin {"preflight", "uploaded", "verify", "cleared"}
    BY <2>1 DEF Releasing
  <2>3. pc'[d] \in Parting => control' = control
    BY <1>6
  <2>4. WipeAt(d)' BY <1>1, <1>2, <2>1, <2>2, <2>3 DEF OpAt, WipeAt
  <2>5. FinalizeAt(d)' BY <1>2, <2>1 DEF OpAt, FinalizeAt
  <2> QED BY <1>3, <2>1, <2>4, <2>5 DEF OpAt, RebuildAt, PreflightAt
<1> QED BY <1>4, <1>7, <1>8, StopOp

LEMMA WorkStep ==
  ~overwritten' /\ TypeOK /\ JobSteps /\ MarkerInv /\ LeaseInv /\ WorkInv /\ [Next]_vars
    => WorkInv'
<1> SUFFICES ASSUME ~overwritten', TypeOK, JobSteps, MarkerInv, LeaseInv, WorkInv, [Next]_vars
             PROVE  WorkInv'
  OBVIOUS
<1>1. CASE UNCHANGED vars
  BY <1>1 DEF vars, WorkInv, JobAt, OpAt, WipeAt, RebuildAt, FinalizeAt, PreflightAt,
     JobRecord, Owned
<1>2. ASSUME NEW d \in Devices, Command(d) \/ Acquire(d) \/ Work(d) \/ Release(d)
      PROVE  WorkInv'
  <2>1. JobAt(d)' /\ OpAt(d)'
    BY <1>2, CommandWork, AcquireWork, WorkWork, ReleaseWork DEF WorkInv
  <2>2. ASSUME NEW e \in Devices, e # d PROVE JobAt(e)' /\ OpAt(e)'
    BY <1>2, <2>2, OthersWork
  <2> QED BY <2>1, <2>2 DEF WorkInv
<1> QED BY <1>1, <1>2 DEF Next

LEMMA WorkInit == Init => WorkInv
BY DEF Init, NoJob, NoOp, WorkInv, JobAt, OpAt, WipeAt, RebuildAt, FinalizeAt, PreflightAt

LEMMA WorkAlways ==
  Spec => [](TypeOK /\ JobSteps /\ MarkerInv /\ (overwritten \/ (LeaseInv /\ WorkInv)))
<1> DEFINE Until == overwritten \/ (LeaseInv /\ WorkInv)
<1>1. Init => Until BY LeaseInit, WorkInit
<1>2. TypeOK /\ JobSteps /\ MarkerInv /\ Until /\ [Next]_vars => Until'
  BY LeaseStep, WorkStep, StaysOverwritten
<1> QED BY <1>1, <1>2, TypeInit, LeaseInit, TypeStep, MarkerStep, PTL DEF Spec

\* Once a rebuild is past the point of no return no failure, restart,
\* cancellation, other rebuild or wipe takes control.json away from its job at
\* phase fenced or transfer, until an unconditional write lands over a
\* control.json it was not compared with (advance_sync_recovery_job,
\* can_cancel_recovery_safely, release_recovery_lease).
THEOREM FencedJobsAlwaysHold == Spec => []FencedJobsHoldTheLease
<1>1. overwritten \/ (LeaseInv /\ WorkInv) => FencedJobsHoldTheLease
  BY DEF WorkInv, JobAt, JobRecord, FencedJobsHoldTheLease
<1> QED BY <1>1, WorkAlways, PTL

\* A step that takes, gives up or works under the lease.
LEMMA PartialStep ==
  ASSUME ~overwritten', TypeOK, JobSteps, MarkerInv, LeaseInv, WorkInv,
         PartialCloudIsFenced, ~overwritten, [Next]_vars
  PROVE  PartialCloudIsFenced'
<1> USE DEF PartialCloudIsFenced
<1>1. CASE UNCHANGED vars BY <1>1 DEF vars
<1>2. ASSUME NEW d \in Devices, Command(d) \/ Acquire(d) \/ Work(d) \/ Release(d)
      PROVE  PartialCloudIsFenced'
  <2>1. CASE payload' = payload /\ control' = control BY <2>1
  <2>2. CASE payload' # payload
    <3>1. pc[d] \in Confirmed /\ control = Owned(d) /\ control' = control
      BY <1>2, <2>2, PayloadSteps
    <3> QED BY <3>1, WantOwn DEF Owned
  <2>3. CASE payload' = payload /\ control' # control
    <3>1. CASE Taken(d)
      BY <2>3, <3>1 DEF Taken
    <3>2. CASE Given(d)
      <4>1. control.lease = op[d].want /\ op[d].want # {}
        BY <3>2 DEF Given, Owned
      <4>2. pc[d] \in Releasing /\ pc[d] \notin Acquiring \cup Holding
        BY <3>2 DEF Given, Releasing, Acquiring, Holding
      <4>3. CASE op[d].kind = "wipe"
        BY <2>3, <3>2, <4>3 DEF Given, Parting, WorkInv, OpAt, WipeAt
      <4>4. CASE op[d].kind = "finalize"
        BY <2>3, <4>1, <4>2, <4>4 DEF WorkInv, OpAt, FinalizeAt, JobAt
      <4>5. op[d].kind \in {"wipe", "finalize"}
        <5>1. pc[d] # "preflight" BY <3>2 DEF Given
        <5> QED BY <4>2, <5>1 DEF WorkInv, OpAt, RebuildAt, PreflightAt, TypeOK, Op, Kinds
      <4> QED BY <4>3, <4>4, <4>5
    <3> QED BY <1>2, <2>3, <3>1, <3>2, ControlSteps
  <2> QED BY <2>1, <2>2, <2>3
<1> QED BY <1>1, <1>2 DEF Next

\* The lease is given up only over a folder that is whole or wiped to the end, so
\* a folder deleted or rebuilt in part has a lease that keeps the normal cycles
\* of all devices out (authorize_recovery_push), until control.json is
\* overwritten.
THEOREM PartialCloudAlwaysFenced == Spec => []PartialCloudIsFenced
<1> DEFINE Until == overwritten \/ (LeaseInv /\ WorkInv)
<1>1. Init => PartialCloudIsFenced BY DEF Init, PartialCloudIsFenced
<1>2. TypeOK /\ JobSteps /\ MarkerInv /\ Until /\ PartialCloudIsFenced /\ [Next]_vars
        => PartialCloudIsFenced'
  <2> SUFFICES ASSUME TypeOK, JobSteps, MarkerInv, Until, PartialCloudIsFenced,
                      [Next]_vars, ~overwritten'
               PROVE  PartialCloudIsFenced'
    BY DEF PartialCloudIsFenced
  <2>1. ~overwritten BY StaysOverwritten
  <2> QED BY <2>1, PartialStep
<1> QED BY <1>1, <1>2, WorkAlways, PTL DEF Spec

=============================================================================
