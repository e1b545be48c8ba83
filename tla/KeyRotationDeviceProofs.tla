---------------------- MODULE KeyRotationDeviceProofs ----------------------
(***************************************************************************)
(* Theorems about KeyRotation under the same condition as the refinement   *)
(* of Vault, no two devices between check and commit at once: what an      *)
(* interrupted rotation leaves behind.  The cloud files belong together or *)
(* a job can complete them, a job finds what it needs to be resumed, the   *)
(* boot file opens, and only an overtaken device may push under a key that *)
(* was never committed.                                                    *)
(***************************************************************************)
EXTENDS KeyRotationProofs

-----------------------------------------------------------------------------
(* The invariant, on top of IInv *)

\* Later jobs carry later masters, and only the newest can be a live one.
Sorted(d) ==
  \A i, k \in 1..Len(jobs[d]) : i < k =>
    jobs[d][i].new < jobs[d][k].new /\ jobs[d][i].epoch <= jobs[d][k].epoch

\* The master of the cloud came from no job that has yet to commit locally,
\* and from none below the newest.
Unpublished(d) ==
  /\ \A i \in 1..Len(jobs[d]) : jobs[d][i].state = "commit_local" => jobs[d][i].new # meta.fp
  /\ Live(d) = {} => \A i \in 1..(Len(jobs[d]) - 1) : jobs[d][i].new # meta.fp

Resumable(d) ==
  Active(d) /\ Newest(d).epoch = meta.epoch =>
    \E s \in stash[d] :
      /\ s.new = Newest(d).new
      /\ db[d].list.under = IF Newest(d).state = "commit_local" THEN s.old ELSE s.new

Single(d) ==
  /\ \A m, n \in mem[d] : m = n
  /\ \A s, t \in stash[d] : s = t

\* Where the operation on d stands says what its job and the files hold.
StageInv(d) ==
  /\ pc[d] \in {"boot", "tx"} => Newest(d).state = "commit_local" /\ stash[d] # {}
  /\ pc[d] \in {"load", "settings", "unstash", "done"} \cup Publishing =>
       Newest(d).state = "publish_keyring"
  /\ pc[d] \in {"unstash", "done"} => Newest(d).epoch < meta.epoch
  /\ pc[d] = "tx" /\ Newest(d).epoch = meta.epoch => boot[d].list.under = Newest(d).new
  /\ pc[d] \in {"content", "meta"} => slot.master = Newest(d).new
  /\ pc[d] = "meta" => content = db[d].list /\ db[d].list.under = Newest(d).new
  /\ pc[d] = "file" => db[d].list = op[d].list

JobsInv(d) ==
  Sorted(d) /\ Unpublished(d) /\ Resumable(d) /\ Single(d) /\ StageInv(d)

WholeInv ==
  IF slot.master = meta.fp
  THEN content.under = meta.fp /\ meta.ce = Latest(content.keys)
  ELSE \E d \in Devices : Publishes(d)

\* What the window asks is what the command is for.
KindInv(d) ==
  /\ pc[d] \in {"idle", "reboot"} => op[d].kind = "none"
  /\ pc[d] = "pwboot" => op[d].kind = "password"
  /\ pc[d] \in {"boot", "tx"} \cup Publishing => op[d].kind \in {"rotate", "reset", "resume"}
  /\ pc[d] = "load" => op[d].kind \in {"rotate", "reset"}
  /\ pc[d] \in Finalizing => op[d].kind \in {"rotate", "reset", "resume", "finalize"}
  /\ pc[d] \in Pairing => op[d].kind = "repair"
  /\ op[d].kind = "resume" => \A m \in mem[d] : m.prompt
  /\ op[d].kind \in {"rotate", "reset", "password"} => \A m \in mem[d] : ~m.prompt

\* The boot file and the settings hold one list, unless a job that has not
\* committed locally, or the step that runs, accounts for the difference.
Aligned == {"load", "adopt", "recheck", "bump", "clear"} \cup Publishing \cup Finalizing
ListInv(d) ==
  \/ boot[d].list = db[d].list
  \/ pc[d] \in {"tx", "file"}
  \/ /\ Active(d) /\ Newest(d).state = "commit_local" /\ stash[d] # {}
     /\ pc[d] \notin Aligned

\* The master in memory is that of the boot file, but for a window that asks
\* to resume: there the other one may be in use, until the job is published.
MasterInv(d) ==
  \A m \in mem[d] :
    /\ ~m.prompt /\ pc[d] \notin {"tx", "load", "adopt"} => m.master = boot[d].list.under
    /\ op[d].kind = "finalize" => m.master = boot[d].list.under
    /\ Active(d) /\ Newest(d).state = "publish_keyring" /\ Newest(d).new = meta.fp
         /\ pc[d] \notin Finalizing \cup {"adopt"} => m.master = boot[d].list.under

Opens(d) == boot[d].list.under = boot[d].master

OpenInv(d) == KindInv(d) /\ ListInv(d) /\ MasterInv(d) /\ Opens(d)

\* A device that is up to date, or is about to be, has no key the cloud lacks.
Settled(d) == Live(d) = {} /\ (db[d].fp = meta.fp \/ \E j \in JobsOf(d) : j.new = meta.fp)
SettledInv(d) ==
  Settled(d) =>
    /\ pc[d] # "list" => \A k \in db[d].list.keys : k.epoch <= meta.ce
    /\ pc[d] \notin {"list", "file"} => boot[d].list.keys = db[d].list.keys
    /\ pc[d] \notin {"list", "file", "adopt"} /\ ~(op[d].kind = "resume" /\ pc[d] \in Finalizing) =>
         \A m \in mem[d] : m.keys = db[d].list.keys
KeysInv(d) ==
  /\ pc[d] \in Publishing /\ op[d].kind # "resume" =>
       \A m \in mem[d] : m.keys = db[d].list.keys
  /\ pc[d] \in Pairing /\ op[d].seen.fp = meta.fp =>
       \A k \in op[d].list.keys : k.epoch <= meta.ce

PushInv(d) == SettledInv(d) /\ KeysInv(d)

-----------------------------------------------------------------------------
(* The jobs of a device, as a sequence *)

Grown(d) ==
  /\ Len(jobs'[d]) = Len(jobs[d]) + 1
  /\ \A i \in 1..Len(jobs[d]) : jobs'[d][i] = jobs[d][i]
  /\ jobs'[d][Len(jobs[d]) + 1] = [state |-> "commit_local", epoch |-> meta.epoch, new |-> minted + 1]
Shrunk(d) ==
  /\ Active(d)
  /\ Len(jobs'[d]) = Len(jobs[d]) - 1
  /\ \A i \in 1..(Len(jobs[d]) - 1) : jobs'[d][i] = jobs[d][i]
Marked(d) ==
  /\ Active(d)
  /\ Len(jobs'[d]) = Len(jobs[d])
  /\ \A i \in 1..(Len(jobs[d]) - 1) : jobs'[d][i] = jobs[d][i]
  /\ jobs'[d][Len(jobs[d])] = [Newest(d) EXCEPT !.state = "publish_keyring"]

LEMMA GrowsJobs ==
  ASSUME TypeOK, NEW d \in Devices, NEW kind \in {"rotate", "reset"}, Rotate(d, kind)
  PROVE  Grown(d)
<1>1. jobs \in [Devices -> Seq(Job)] BY DEF TypeOK
<1>2. jobs'[d] = Append(jobs[d], [state |-> "commit_local", epoch |-> meta.epoch, new |-> minted + 1])
  BY <1>1 DEF Rotate
<1>3. jobs[d] \in Seq(Job) BY <1>1
<1> QED BY <1>2, <1>3 DEF Grown

LEMMA ShrinksJobs ==
  ASSUME TypeOK, NEW d \in Devices, Active(d), Closed(d)
  PROVE  Shrunk(d)
<1> DEFINE n == Len(jobs[d]) - 1
<1>1. jobs \in [Devices -> Seq(Job)] BY DEF TypeOK
<1>2. jobs[d] \in Seq(Job) /\ n \in Nat /\ \A i \in 1..n : jobs[d][i] \in Job
  BY <1>1 DEF Active
<1>3. jobs'[d] = SubSeq(jobs[d], 1, n) BY <1>1 DEF Closed
<1>4. Len(jobs'[d]) = n /\ \A i \in 1..n : jobs'[d][i] = jobs[d][i]
  <2> HIDE DEF n
  <2> QED BY <1>2, <1>3, SubSeqProperties
<1> QED BY <1>4 DEF Shrunk

LEMMA MarksJobs ==
  ASSUME TypeOK, NEW d \in Devices, Active(d), CommitSettings(d)
  PROVE  Marked(d)
<1> DEFINE n == Len(jobs[d])
<1>1. jobs \in [Devices -> Seq(Job)] /\ jobs[d] \in Seq(Job) BY DEF TypeOK
<1>2. n \in Nat /\ n > 0 /\ jobs[d][n] \in Job BY <1>1 DEF Active
<1>3. jobs'[d] = [jobs[d] EXCEPT ![n] = [jobs[d][n] EXCEPT !.state = "publish_keyring"]]
  BY <1>1 DEF CommitSettings
<1>4. /\ Len(jobs'[d]) = n
      /\ \A i \in 1..n : jobs'[d][i] = IF i = n THEN [jobs[d][n] EXCEPT !.state = "publish_keyring"]
                                                ELSE jobs[d][i]
  BY <1>1, <1>2, <1>3
<1> QED BY <1>2, <1>4 DEF Marked, Newest

\* The jobs of a device, their number and the types of each.
LEMMA JobSeq ==
  ASSUME TypeOK, NEW d \in Devices
  PROVE  /\ Len(jobs[d]) \in Nat
         /\ Active(d) <=> Len(jobs[d]) > 0
         /\ \A i \in 1..Len(jobs[d]) :
              /\ jobs[d][i] \in JobsOf(d) /\ jobs[d][i] \in Job
              /\ jobs[d][i].new \in Nat /\ jobs[d][i].epoch \in Nat
         /\ meta.epoch \in Nat /\ meta.fp \in Nat /\ minted \in Nat
<1>1. jobs[d] \in Seq(Job) BY DEF TypeOK
<1>2. \A i \in 1..Len(jobs[d]) : jobs[d][i] \in JobsOf(d) /\ jobs[d][i] \in Job
  BY <1>1 DEF JobsOf
<1>3. \A i \in 1..Len(jobs[d]) : jobs[d][i].new \in Nat /\ jobs[d][i].epoch \in Nat
  BY <1>2, JobTypes
<1>4. Active(d) <=> Len(jobs[d]) > 0 BY <1>1 DEF Active
<1> QED BY <1>1, <1>2, <1>3, <1>4, RotationAssumption DEF TypeOK, Meta, Epochs, Masters

\* Of a sorted list only the newest job can be live, and it is when any is.
LEMMA LiveIsNewest ==
  ASSUME IInv, NEW d \in Devices, Sorted(d)
  PROVE  /\ Live(d) # {} <=> Active(d) /\ Newest(d).epoch = meta.epoch
         /\ Active(d) => /\ Newest(d) \in JobsOf(d) /\ Newest(d).epoch <= meta.epoch
                         /\ Newest(d).epoch \in Nat /\ Newest(d).new \in Nat
                         /\ Newest(d).new <= minted
                         /\ Newest(d).epoch = meta.epoch =>
                              Newest(d).new > meta.fp /\ db[d].fp = meta.fp /\ ~db[d].flag
<1>0. TypeOK /\ JobInv(d) BY DEF IInv, DevInv
<1> DEFINE n == Len(jobs[d])
<1>1. /\ n \in Nat /\ (Active(d) <=> n > 0) /\ meta.epoch \in Nat
      /\ \A i \in 1..n : /\ jobs[d][i] \in JobsOf(d)
                         /\ jobs[d][i].new \in Nat /\ jobs[d][i].epoch \in Nat
  BY <1>0, JobSeq
<1>2. Active(d) => /\ Newest(d) = jobs[d][n] /\ Newest(d) \in JobsOf(d)
                   /\ Newest(d).epoch \in Nat /\ Newest(d).new \in Nat
  BY <1>1 DEF Newest
<1>3. \A j \in JobsOf(d) : j.epoch <= meta.epoch /\ j.new <= minted BY <1>0 DEF JobInv
<1>4. ASSUME NEW j \in Live(d) PROVE Active(d) /\ Newest(d).epoch = meta.epoch
  <2>1. PICK i \in 1..n : j = jobs[d][i] BY DEF Live, JobsOf
  <2>2. j.epoch = meta.epoch BY DEF Live
  <2>3. i = n \/ jobs[d][i].epoch <= jobs[d][n].epoch BY <1>1 DEF Sorted
  <2> QED BY <1>1, <1>2, <1>3, <2>1, <2>2, <2>3
<1>5. Active(d) /\ Newest(d).epoch = meta.epoch => Newest(d) \in Live(d)
  BY <1>2 DEF Live
<1>6. \A j \in Live(d) : db[d].fp = meta.fp /\ ~db[d].flag /\ j.new > meta.fp
  BY <1>0 DEF JobInv
<1> QED BY <1>2, <1>3, <1>4, <1>5, <1>6

\* Every step but the commit of a rotation leaves _meta.json as it is.
LEMMA MetaStays ==
  ASSUME IInv, NEW d \in Devices, Move(d), ~WriteMeta(d)
  PROVE  meta' = meta
BY CalmStep DEF Calm

Rotates(d) == \E kind \in {"rotate", "reset"} : Rotate(d, kind)

\* What a step does to the jobs of its device.
LEMMA JobMoves ==
  ASSUME IInv, NEW d \in Devices, JobsInv(d), Move(d)
  PROVE  \/ jobs'[d] = jobs[d] /\ ~CommitSettings(d) /\ ~Rotates(d)
         \/ Grown(d) /\ Rotates(d)
         \/ /\ Shrunk(d) /\ meta' = meta /\ Newest(d).epoch # meta.epoch
            /\ CheckEpoch(d) \/ MarkDone(d) \/ Unlock(d)
         \/ Marked(d) /\ CommitSettings(d)
<1>0. TypeOK /\ RunInv(d) /\ StageInv(d) BY DEF IInv, DevInv, JobsInv
<1> USE DEF Local
<1>1. CASE CommitSettings(d)
  <2>1. Active(d) BY <1>0, <1>1 DEF CommitSettings, RunInv, Rotating, Committing, Active
  <2> QED BY <1>0, <1>1, <2>1, MarksJobs
<1>2. CASE Rotates(d) BY <1>0, <1>2, GrowsJobs DEF Rotates
<1>3. CASE CheckEpoch(d) /\ ~Rotates(d)
  <2>1. CASE meta.epoch = Newest(d).epoch BY <1>3, <2>1 DEF CheckEpoch, CommitSettings
  <2>2. CASE meta.epoch # Newest(d).epoch
    <3>1. Active(d) /\ Closed(d) /\ meta' = meta
      BY <1>0, <1>3, <2>2 DEF CheckEpoch, RunInv, Rotating, Publishing, Active, Cloud
    <3> QED BY <1>0, <1>3, <2>2, <3>1, ShrinksJobs
  <2> QED BY <2>1, <2>2
<1>4. CASE MarkDone(d)
  <2>1. Active(d) /\ Closed(d) /\ meta' = meta
    BY <1>0, <1>4 DEF MarkDone, RunInv, Rotating, Active, Cloud
  <2>2. Newest(d).epoch # meta.epoch
    <3>1. Newest(d).epoch < meta.epoch BY <1>0, <1>4 DEF MarkDone, StageInv
    <3>2. Newest(d).epoch \in Nat BY <2>1, LiveIsNewest DEF JobsInv
    <3> QED BY <1>0, <3>1, <3>2, JobSeq
  <2> QED BY <1>0, <1>4, <2>1, <2>2, ShrinksJobs
<1>5. CASE Unlock(d) /\ ~Rotates(d)
  <2>1. CASE Orphaned(d)
    <3>1. Active(d) /\ Closed(d) /\ meta' = meta /\ stash[d] = {}
      BY <1>5, <2>1 DEF Unlock, Orphaned, Cloud
    <3>2. Newest(d).epoch # meta.epoch BY <3>1 DEF JobsInv, Resumable
    <3> QED BY <1>0, <1>5, <3>1, <3>2, ShrinksJobs
  <2>2. CASE ~Orphaned(d)
    <3>1. jobs' = jobs BY <1>5, <2>2 DEF Unlock
    <3>2. ~CommitSettings(d) BY <1>5 DEF Unlock, CommitSettings
    <3> QED BY <1>5, <3>1, <3>2
  <2> QED BY <2>1, <2>2
<1>6. CASE Step(d) /\ ~Rotates(d) /\ ~CommitSettings(d) /\ ~CheckEpoch(d) /\ ~MarkDone(d)
  BY <1>6
     DEF Step, CommitBoot, Load, WriteRecovery, WriteContent, WriteMeta, FinalizeSettings,
         ClearStash, Return, PairIdentity, PairList, PairBoot, PairAdopt, PairRecheck,
         PairBump, PairClear, PasswordBoot, KeepOffline, RecoverBoot
<1>7. CASE Command(d) /\ ~CommitSettings(d) /\ ~Unlock(d) /\ ~Rotates(d)
  BY <1>7 DEF Rotates, Command, ResumeFinalize, Resume, Lock, Detect, Recheck, RePair, ChangePassword, Recover
<1>8. CASE (Fail(d) \/ Crash(d)) /\ ~CommitSettings(d) /\ ~Rotates(d) BY <1>8 DEF Fail, Crash
<1> QED BY <1>1, <1>2, <1>3, <1>4, <1>5, <1>6, <1>7, <1>8 DEF Move

\* Jobs stay in the order they were minted, and the master of the cloud is
\* never that of one that has not committed or that a later one hides.
LEMMA OrderKept ==
  ASSUME IInv, NEW d \in Devices, JobsInv(d), Move(d)
  PROVE  Sorted(d)' /\ Unpublished(d)'
<1>0. TypeOK /\ Sorted(d) /\ Unpublished(d) BY DEF IInv, JobsInv
<1> DEFINE n == Len(jobs[d])
<1>1. /\ n \in Nat /\ (Active(d) <=> n > 0) /\ minted \in Nat /\ meta.epoch \in Nat /\ meta.fp \in Nat
      /\ \A i \in 1..n : /\ jobs[d][i] \in JobsOf(d) /\ jobs[d][i] \in Job
                         /\ jobs[d][i].new \in Nat /\ jobs[d][i].epoch \in Nat
  BY <1>0, JobSeq
<1>2. \A i \in 1..n : jobs[d][i].new <= minted /\ jobs[d][i].epoch <= meta.epoch
  BY <1>1 DEF IInv, DevInv, JobInv
<1>3. Live(d) # {} <=> Active(d) /\ Newest(d).epoch = meta.epoch BY <1>0, LiveIsNewest
<1>8. \A i, k \in 1..n : i < k =>
         jobs[d][i].new < jobs[d][k].new /\ jobs[d][i].epoch <= jobs[d][k].epoch
  BY <1>0 DEF Sorted
<1>9. /\ \A i \in 1..n : jobs[d][i].state = "commit_local" => jobs[d][i].new # meta.fp
      /\ Live(d) = {} => \A i \in 1..(n - 1) : jobs[d][i].new # meta.fp
  BY <1>0 DEF Unpublished
<1> HIDE DEF n
<1>4. CASE Grown(d) /\ Rotates(d)
  <2> DEFINE job == [state |-> "commit_local", epoch |-> meta.epoch, new |-> minted + 1]
  <2>1. /\ Len(jobs'[d]) = n + 1 /\ jobs'[d][n + 1] = job
        /\ \A i \in 1..n : jobs'[d][i] = jobs[d][i]
    BY <1>4 DEF Grown, n
  <2>2. meta' = meta BY <1>4 DEF Rotates, Rotate, Cloud
  <2>3. Sorted(d)'
    <3>1. ASSUME NEW i \in 1..(n + 1), NEW k \in 1..(n + 1), i < k
          PROVE  /\ jobs'[d][i].new < jobs'[d][k].new
                 /\ jobs'[d][i].epoch <= jobs'[d][k].epoch
      <4>1. i \in 1..n /\ jobs'[d][i] = jobs[d][i] BY <1>1, <2>1, <3>1
      <4>2. CASE k = n + 1 BY <1>1, <1>2, <2>1, <4>1, <4>2
      <4>3. CASE k \in 1..n BY <1>8, <2>1, <3>1, <4>1, <4>3
      <4> QED BY <1>1, <4>2, <4>3
    <3> QED BY <2>1, <3>1 DEF Sorted
  <2>4. meta.fp <= minted
    <3>1. \E k \in Committed : k.key = meta.fp BY DEF IInv, CloudInv, CommittedMasters
    <3> QED BY <3>1 DEF IInv, CloudInv, Committed, Listed, KeyBound
  <2>5. Live(d)' # {}
    <3>1. job \in JobsOf(d)' BY <1>1, <2>1 DEF JobsOf
    <3> QED BY <2>2, <3>1 DEF Live
  <2>6. \A i \in 1..(n + 1) : jobs'[d][i].state = "commit_local" => jobs'[d][i].new # meta.fp
    BY <1>1, <1>9, <2>1, <2>4
  <2>7. Unpublished(d)' BY <1>1, <2>1, <2>2, <2>5, <2>6 DEF Unpublished
  <2> QED BY <2>3, <2>7
<1>5. CASE Shrunk(d) /\ meta' = meta /\ Newest(d).epoch # meta.epoch
  <2>1. /\ n > 0 /\ Len(jobs'[d]) = n - 1
        /\ \A i \in 1..(n - 1) : jobs'[d][i] = jobs[d][i]
    BY <1>1, <1>5 DEF Shrunk, n
  <2>2. Live(d) = {} BY <1>3, <1>5
  <2>3. Sorted(d)'
    <3>1. ASSUME NEW i \in 1..(n - 1), NEW k \in 1..(n - 1), i < k
          PROVE  /\ jobs'[d][i].new < jobs'[d][k].new
                 /\ jobs'[d][i].epoch <= jobs'[d][k].epoch
      <4>1. i \in 1..n /\ k \in 1..n BY <1>1, <2>1
      <4> QED BY <1>8, <2>1, <3>1, <4>1
    <3> QED BY <2>1, <3>1 DEF Sorted
  <2>4. /\ \A i \in 1..(n - 1) : jobs'[d][i].state = "commit_local" => jobs'[d][i].new # meta.fp
        /\ \A i \in 1..(n - 2) : jobs'[d][i].new # meta.fp
    <3>1. ASSUME NEW i \in 1..(n - 1)
          PROVE  i \in 1..n /\ jobs'[d][i] = jobs[d][i] /\ jobs[d][i].new # meta.fp
      <4>1. i \in 1..n BY <1>1, <2>1
      <4> QED BY <1>9, <2>1, <2>2, <4>1
    <3>2. \A i \in 1..(n - 2) : i \in 1..(n - 1) BY <1>1, <2>1
    <3> QED BY <3>1, <3>2
  <2>5. \A i \in 1..(n - 1) : jobs'[d][i].state = "commit_local" => jobs'[d][i].new # meta'.fp
    BY <1>1, <1>5, <2>4
  <2>6. \A i \in 1..((n - 1) - 1) : jobs'[d][i].new # meta'.fp
    <3>1. (n - 1) - 1 = n - 2 BY <1>1
    <3> QED BY <1>1, <1>5, <2>4, <3>1
  <2>7. Unpublished(d)' BY <2>1, <2>5, <2>6 DEF Unpublished
  <2> QED BY <2>3, <2>7
<1>6. CASE Marked(d) /\ CommitSettings(d)
  <2>1. /\ n > 0 /\ Len(jobs'[d]) = n
        /\ \A i \in 1..(n - 1) : jobs'[d][i] = jobs[d][i]
        /\ jobs'[d][n] = [jobs[d][n] EXCEPT !.state = "publish_keyring"]
    BY <1>1, <1>6 DEF Marked, Newest, n
  <2>2. /\ jobs'[d][n].new = jobs[d][n].new /\ jobs'[d][n].epoch = jobs[d][n].epoch
        /\ jobs'[d][n].state = "publish_keyring"
    BY <1>1, <2>1 DEF Job
  <2>3. meta' = meta BY <1>6 DEF CommitSettings, Cloud
  <2>4. Sorted(d)'
    <3>1. ASSUME NEW i \in 1..n, NEW k \in 1..n, i < k
          PROVE  /\ jobs'[d][i].new < jobs'[d][k].new
                 /\ jobs'[d][i].epoch <= jobs'[d][k].epoch
      <4>1. \A j \in 1..n : j \in 1..(n - 1) \/ j = n BY <1>1
      <4>2. \A j \in 1..n : jobs'[d][j].new = jobs[d][j].new /\ jobs'[d][j].epoch = jobs[d][j].epoch
        BY <2>1, <2>2, <4>1
      <4> QED BY <1>8, <3>1, <4>2
    <3> QED BY <2>1, <3>1 DEF Sorted
  <2>5. Live(d)' = {} => Live(d) = {}
    <3> SUFFICES ASSUME Live(d) # {} PROVE Live(d)' # {} OBVIOUS
    <3>1. jobs[d][n].epoch = meta.epoch BY <1>3 DEF Newest, n
    <3>2. jobs'[d][n] \in JobsOf(d)' BY <1>1, <2>1 DEF JobsOf
    <3> QED BY <2>2, <2>3, <3>1, <3>2 DEF Live
  <2>6. \A i \in 1..n : jobs'[d][i].state = "commit_local" => jobs'[d][i].new # meta.fp
    <3>1. \A j \in 1..n : j \in 1..(n - 1) \/ j = n BY <1>1
    <3> QED BY <1>9, <2>1, <2>2, <3>1
  <2>7. Live(d) = {} => \A i \in 1..(n - 1) : jobs'[d][i].new # meta.fp
    BY <1>9, <2>1
  <2>8. Unpublished(d)' BY <2>1, <2>3, <2>5, <2>6, <2>7 DEF Unpublished
  <2> QED BY <2>4, <2>8
<1>7. CASE jobs'[d] = jobs[d]
  <2>1. Sorted(d)' BY <1>0, <1>7 DEF Sorted
  <2>2. CASE WriteMeta(d)
    <3>1. /\ meta'.fp = Newest(d).new /\ Newest(d).state = "publish_keyring"
          /\ jobs[d] # <<>>
      BY <2>2, MetaCommits, Publisher DEF WriteMeta, JobsInv, StageInv, Publishing
    <3>2. n > 0 BY <1>1, <3>1 DEF Active
    <3>3. \A i \in 1..n : i = n \/ jobs[d][i].new < jobs[d][n].new BY <1>1, <1>8, <3>2
    <3>4. \A i \in 1..n : i = n \/ jobs[d][i].new # meta'.fp
      BY <1>1, <3>1, <3>2, <3>3 DEF Newest, n
    <3>5. \A i \in 1..n : jobs[d][i].state = "commit_local" => jobs[d][i].new # meta'.fp
      BY <3>1, <3>4 DEF Newest, n
    <3>6. \A i \in 1..(n - 1) : jobs[d][i].new # meta'.fp BY <1>1, <3>4
    <3> QED BY <1>7, <2>1, <3>5, <3>6 DEF Unpublished, n
  <2>3. CASE ~WriteMeta(d)
    <3>1. meta' = meta BY <2>3, MetaStays
    <3>2. Live(d)' = Live(d) BY <1>7, <3>1 DEF Live, JobsOf
    <3> QED BY <1>0, <1>7, <2>1, <3>1, <3>2 DEF Unpublished
  <2> QED BY <2>2, <2>3
<1> QED BY <1>4, <1>5, <1>6, <1>7, JobMoves

\* The newest job after each of these steps.
LEMMA NewestMoves ==
  ASSUME TypeOK, NEW d \in Devices
  PROVE  /\ Grown(d) =>
              Active(d)' /\ Newest(d)' = [state |-> "commit_local", epoch |-> meta.epoch, new |-> minted + 1]
         /\ Shrunk(d) /\ Active(d)' /\ TypeOK' =>
              \E i \in 1..(Len(jobs[d]) - 1) : Newest(d)' = jobs[d][i] /\ Newest(d)' \in JobsOf(d)
         /\ Marked(d) /\ TypeOK' =>
              /\ Active(d) /\ Active(d)' /\ Newest(d)'.state = "publish_keyring"
              /\ Newest(d)'.epoch = Newest(d).epoch /\ Newest(d)'.new = Newest(d).new
<1> DEFINE n == Len(jobs[d])
<1>1. /\ n \in Nat /\ (Active(d) <=> n > 0)
      /\ \A i \in 1..n : jobs[d][i] \in JobsOf(d) /\ jobs[d][i] \in Job
  BY JobSeq
<1>2. ASSUME Grown(d)
      PROVE  Active(d)' /\ Newest(d)' = [state |-> "commit_local", epoch |-> meta.epoch, new |-> minted + 1]
  <2>1. Len(jobs'[d]) = n + 1 BY <1>2 DEF Grown
  <2>2. jobs'[d] # <<>> BY <1>1, <2>1
  <2> QED BY <1>2, <2>1, <2>2 DEF Grown, Newest, Active
<1>3. ASSUME Shrunk(d), Active(d)', TypeOK'
      PROVE  \E i \in 1..(n - 1) : Newest(d)' = jobs[d][i] /\ Newest(d)' \in JobsOf(d)
  <2>1. Len(jobs'[d]) = n - 1 /\ \A i \in 1..(n - 1) : jobs'[d][i] = jobs[d][i]
    BY <1>3 DEF Shrunk
  <2>2. jobs'[d] \in Seq(Job) BY <1>3 DEF TypeOK
  <2>3. n - 1 > 0 BY <1>1, <1>3, <2>1, <2>2 DEF Active
  <2>4. n - 1 \in 1..(n - 1) /\ n - 1 \in 1..n BY <1>1, <2>3
  <2>5. Newest(d)' = jobs[d][n - 1] BY <2>1, <2>4 DEF Newest
  <2> QED BY <1>1, <2>4, <2>5
<1>4. ASSUME Marked(d), TypeOK'
      PROVE  /\ Active(d) /\ Active(d)' /\ Newest(d)'.state = "publish_keyring"
             /\ Newest(d)'.epoch = Newest(d).epoch /\ Newest(d)'.new = Newest(d).new
  <2>1. n > 0 /\ Len(jobs'[d]) = n BY <1>1, <1>4 DEF Marked
  <2>2. jobs'[d] # <<>> BY <2>1
  <2>3. Newest(d)' = [jobs[d][n] EXCEPT !.state = "publish_keyring"]
    BY <1>4, <2>1 DEF Marked, Newest
  <2>4. jobs[d][n] \in Job BY <1>1, <2>1
  <2> QED BY <1>4, <2>2, <2>3, <2>4 DEF Marked, Active, Newest, Job
<1> QED BY <1>2, <1>3, <1>4

\* What a rotation writes when it starts.
LEMMA RotateWrites ==
  ASSUME IInv, NEW d \in Devices, NEW kind \in {"rotate", "reset"}, Rotate(d, kind)
  PROVE  \E m \in mem[d] :
           /\ stash'[d] = {[old |-> m.master, new |-> minted + 1, pw |-> db[d].pw]}
           /\ db[d].list.under = m.master /\ db'[d].list.under = m.master
           /\ db[d].fp = meta.fp /\ db'[d].fp = db[d].fp
           /\ kind = "rotate" => slot.master = meta.fp
           /\ kind = "reset" => \E k \in mem[d] : k.master = meta.fp
           /\ boot' = boot /\ mem' = mem /\ meta' = meta /\ slot' = slot /\ content' = content
           /\ pc[d] = "idle" /\ pc'[d] = "boot" /\ op'[d].kind = kind
           /\ \A k \in mem[d] : ~k.prompt
<1>0. TypeOK BY DEF IInv
<1>1. PICK m \in mem[d] :
        /\ MayCommand(d) /\ Begin(d, "boot", As(kind)) /\ Proved(d, kind)
        /\ db[d].fp = meta.fp /\ db[d].list.under = m.master
        /\ stash' = [stash EXCEPT ![d] = {[old |-> m.master, new |-> minted + 1, pw |-> db[d].pw]}]
        /\ db' = [db EXCEPT ![d].list.keys = Extended(@, minted + 1)]
        /\ UNCHANGED <<Cloud, boot, mem, known, faults>>
  BY DEF Rotate
<1>2. stash'[d] = {[old |-> m.master, new |-> minted + 1, pw |-> db[d].pw]}
  BY <1>0, <1>1 DEF TypeOK
<1>3. db'[d].list.under = db[d].list.under /\ db'[d].fp = db[d].fp
  <2>1. db[d] \in Db /\ db[d].list \in List BY <1>0 DEF TypeOK, Db
  <2>2. db'[d] = [db[d] EXCEPT !.list.keys = Extended(@, minted + 1)] BY <1>0, <1>1 DEF TypeOK
  <2>3. db'[d].list = [db[d].list EXCEPT !.keys = Extended(@, minted + 1)]
    BY <2>1, <2>2 DEF Db
  <2> QED BY <2>1, <2>2, <2>3 DEF Db, List
<1>4. pc[d] = "idle" /\ pc'[d] = "boot" /\ op'[d].kind = kind
  BY <1>0, <1>1 DEF Begin, Ready, TypeOK, As, NoOp
<1>5. \A k \in mem[d] : ~k.prompt BY <1>1 DEF MayCommand, Prompted
<1>6. /\ kind = "rotate" => slot.master = meta.fp
      /\ kind = "reset" => \E k \in mem[d] : k.master = meta.fp
  BY <1>1 DEF Proved
<1> QED BY <1>1, <1>2, <1>3, <1>4, <1>5, <1>6 DEF Cloud

\* Who writes what is on the disk of the device, and in its memory.
LEMMA DiskMoves ==
  ASSUME IInv, NEW d \in Devices, Move(d)
  PROVE  /\ stash'[d] = stash[d] \/ ClearStash(d) \/ Rotates(d)
         /\ db'[d].list = db[d].list \/ PairList(d) \/ CommitSettings(d) \/ Rotates(d)
         /\ boot'[d].list = boot[d].list \/ CommitBoot(d) \/ PairBoot(d)
         /\ \/ mem'[d] \in {mem[d], {}}
            \/ Load(d) \/ Return(d) \/ Unlock(d) \/ PairAdopt(d) \/ RecoverBoot(d)
<1>0. /\ TypeOK /\ db[d] \in Db /\ boot[d] \in Boot /\ RunInv(d)
      /\ stash \in [Devices -> SUBSET Stash] /\ db \in [Devices -> Db]
      /\ boot \in [Devices -> Boot] /\ mem \in [Devices -> SUBSET Memory]
  BY DEF IInv, TypeOK, DevInv
<1> USE DEF Cloud, Local
<1>1. CASE Step(d)
  <2>1. CASE CommitBoot(d) \/ CommitSettings(d) \/ Load(d) \/ CheckEpoch(d)
    BY <1>0, <2>1 DEF CommitBoot, CommitSettings, Load, CheckEpoch
  <2>2. CASE WriteRecovery(d) \/ WriteContent(d) \/ WriteMeta(d)
    BY <1>0, <2>2 DEF WriteRecovery, WriteContent, WriteMeta
  <2>3. CASE FinalizeSettings(d) \/ PairIdentity(d) \/ PairClear(d)
    <3>1. db'[d].list = db[d].list
      <4>1. CASE FinalizeSettings(d)
        <5>1. db'[d] = [db[d] EXCEPT !.fp = Newest(d).new, !.epoch = Newest(d).epoch + 1,
                                     !.rw = op[d].slot]
          BY <1>0, <4>1 DEF FinalizeSettings
        <5> QED BY <1>0, <5>1 DEF Db
      <4>2. CASE PairIdentity(d)
        <5>1. PICK p \in Passwords :
                db'[d] = [db[d] EXCEPT !.pw = p, !.epoch = op[d].seen.epoch,
                                       !.fp = op[d].list.under, !.rw = op[d].slot]
          BY <1>0, <4>2 DEF PairIdentity
        <5> QED BY <1>0, <5>1 DEF Db
      <4>3. CASE PairClear(d)
        <5>1. db'[d] = [db[d] EXCEPT !.flag = FALSE] BY <1>0, <4>3 DEF PairClear
        <5> QED BY <1>0, <5>1 DEF Db
      <4> QED BY <2>3, <4>1, <4>2, <4>3
    <3> QED BY <1>0, <2>3, <3>1 DEF FinalizeSettings, PairIdentity, PairClear
  <2>4. CASE ClearStash(d) \/ MarkDone(d) \/ Return(d) \/ PairList(d) \/ PairBoot(d)
    BY <1>0, <2>4 DEF ClearStash, MarkDone, Return, PairList, PairBoot
  <2>5. CASE PairAdopt(d) \/ PairRecheck(d) \/ PairBump(d) \/ KeepOffline(d)
    BY <1>0, <2>5 DEF PairAdopt, PairRecheck, PairBump, KeepOffline
  <2>6. CASE PasswordBoot(d) \/ RecoverBoot(d)
    <3>1. boot'[d].list = boot[d].list
      BY <1>0, <2>6 DEF PasswordBoot, RecoverBoot, Boot
    <3> QED BY <1>0, <2>6, <3>1 DEF PasswordBoot, RecoverBoot
  <2> QED BY <1>1, <2>1, <2>2, <2>3, <2>4, <2>5, <2>6 DEF Step
<1>2. CASE Command(d)
  <2>1. CASE Rotate(d, "rotate") \/ Rotate(d, "reset")
    <3>1. Rotates(d) BY <2>1 DEF Rotates
    <3>2. boot' = boot /\ mem' = mem BY <2>1 DEF Rotate
    <3> QED BY <3>1, <3>2
  <2>2. CASE ResumeFinalize(d) \/ Resume(d) \/ Lock(d) \/ RePair(d)
    BY <1>0, <2>2 DEF ResumeFinalize, Resume, Lock, RePair
  <2>3. CASE Unlock(d)
    <3>1. boot'[d].list = boot[d].list BY <1>0, <2>3 DEF Unlock, Boot
    <3> QED BY <1>0, <2>3, <3>1 DEF Unlock
  <2>4. CASE Detect(d) \/ Recheck(d) \/ ChangePassword(d) \/ Recover(d)
    <3>1. db'[d].list = db[d].list
      BY <1>0, <2>4 DEF Detect, Recheck, ChangePassword, Recover, Db
    <3> QED BY <1>0, <2>4, <3>1 DEF Detect, Recheck, ChangePassword, Recover
  <2> QED BY <1>2, <2>1, <2>2, <2>3, <2>4 DEF Command
<1>3. CASE Fail(d) \/ (pc[d] \notin Pairing /\ Crash(d))
  <2>1. db' = db BY <1>3, FaultInv
  <2> QED BY <1>0, <1>3, <2>1 DEF Fail, Crash
<1> QED BY <1>1, <1>2, <1>3 DEF Move

LEMMA NewTypes ==
  ASSUME IInv, NEW d \in Devices, Move(d)
  PROVE  TypeOK'
BY StepType, CommandType, FaultType DEF Move

\* A job that can still publish keeps what it needs.
LEMMA ResumableKept ==
  ASSUME IInv, NEW d \in Devices, JobsInv(d), Move(d)
  PROVE  Resumable(d)'
<1>0. TypeOK /\ TypeOK' /\ StageInv(d) /\ Resumable(d) /\ DevInv(d) /\ Sorted(d) /\ Single(d)
  BY NewTypes DEF IInv, JobsInv
<1>1. Active(d) => /\ Newest(d).epoch <= meta.epoch /\ Newest(d).epoch \in Nat
                   /\ Newest(d).epoch = meta.epoch => db[d].fp = meta.fp /\ ~db[d].flag
  BY <1>0, LiveIsNewest
<1>2. meta.epoch \in Nat BY <1>0, JobSeq
<1>3. Live(d) # {} <=> Active(d) /\ Newest(d).epoch = meta.epoch BY <1>0, LiveIsNewest
<1> SUFFICES ASSUME Active(d)', Newest(d)'.epoch = meta'.epoch
             PROVE  \E s \in stash'[d] :
                      /\ s.new = Newest(d)'.new
                      /\ db'[d].list.under = IF Newest(d)'.state = "commit_local" THEN s.old ELSE s.new
  BY DEF Resumable
<1>4. CASE Grown(d) /\ Rotates(d)
  <2>1. Newest(d)' = [state |-> "commit_local", epoch |-> meta.epoch, new |-> minted + 1]
    BY <1>0, <1>4, NewestMoves
  <2>2. PICK m \in mem[d] :
          /\ stash'[d] = {[old |-> m.master, new |-> minted + 1, pw |-> db[d].pw]}
          /\ db'[d].list.under = m.master
    BY <1>4, RotateWrites DEF Rotates
  <2> QED BY <2>1, <2>2
<1>5. CASE Shrunk(d) /\ meta' = meta /\ Newest(d).epoch # meta.epoch
  <2>1. Newest(d)' \in JobsOf(d) BY <1>0, <1>5, NewestMoves
  <2>2. Newest(d)' \in Live(d) BY <1>5, <2>1 DEF Live
  <2> QED BY <1>3, <1>5, <2>2
<1>6. CASE Marked(d) /\ CommitSettings(d)
  <2>1. /\ Active(d) /\ Newest(d)'.state = "publish_keyring"
        /\ Newest(d)'.epoch = Newest(d).epoch /\ Newest(d)'.new = Newest(d).new
    BY <1>0, <1>6, NewestMoves
  <2>2. meta' = meta /\ stash' = stash /\ pc[d] = "tx" BY <1>6 DEF CommitSettings, Cloud
  <2>3. db'[d].list = boot[d].list
    <3>1. db'[d] = [db[d] EXCEPT !.list = boot[d].list] /\ db[d] \in Db
      BY <1>0, <1>6 DEF CommitSettings, TypeOK
    <3> QED BY <3>1 DEF Db
  <2>4. boot[d].list.under = Newest(d).new BY <1>0, <2>1, <2>2 DEF StageInv
  <2>5. \E s \in stash[d] : s.new = Newest(d).new
    BY <1>0, <2>1, <2>2 DEF Resumable
  <2> QED BY <2>1, <2>2, <2>3, <2>4, <2>5
<1>7. CASE jobs'[d] = jobs[d] /\ ~CommitSettings(d) /\ ~Rotates(d)
  <2>1. Active(d) /\ Newest(d)' = Newest(d) BY <1>7 DEF Active, Newest
  <2>2. ~WriteMeta(d)
    <3>1. WriteMeta(d) => meta'.epoch = meta.epoch + 1 BY MetaCommits
    <3> QED BY <1>1, <1>2, <2>1, <3>1
  <2>3. meta' = meta BY <2>2, MetaStays
  <2>4. Newest(d).epoch = meta.epoch BY <2>1, <2>3
  <2>5. ~ClearStash(d)
    <3>1. ClearStash(d) => Newest(d).epoch < meta.epoch BY <1>0 DEF ClearStash, StageInv
    <3> QED BY <1>2, <2>4, <3>1
  <2>6. ~PairList(d)
    <3>1. PairList(d) => db[d].flag BY <1>0 DEF PairList, DevInv, PairInv, Pairing
    <3> QED BY <1>1, <2>1, <2>4, <3>1
  <2>7. stash'[d] = stash[d] /\ db'[d].list = db[d].list
    BY <1>7, <2>5, <2>6, DiskMoves
  <2> QED BY <1>0, <2>1, <2>4, <2>7 DEF Resumable
<1> QED BY <1>4, <1>5, <1>6, <1>7, JobMoves

\* One vault is open at most, and one pair of masters stashed.
LEMMA SingleKept ==
  ASSUME IInv, NEW d \in Devices, JobsInv(d), Move(d)
  PROVE  Single(d)'
<1>0. TypeOK /\ Single(d) BY DEF IInv, JobsInv
<1>1. \A s, t \in stash'[d] : s = t
  <2>1. CASE Rotates(d)
    <3>1. \E s : stash'[d] = {s} BY <2>1, RotateWrites DEF Rotates
    <3> QED BY <3>1
  <2>2. CASE ClearStash(d) BY <1>0, <2>2 DEF ClearStash, TypeOK
  <2>3. CASE stash'[d] = stash[d] BY <1>0, <2>3 DEF Single
  <2> QED BY <2>1, <2>2, <2>3, DiskMoves
<1>2. \A m, n \in mem'[d] : m = n
  <2>1. CASE Load(d) \/ Unlock(d) \/ PairAdopt(d) \/ RecoverBoot(d)
    <3>1. \E m : mem'[d] = {m}
      BY <1>0, <2>1 DEF Load, Loaded, Unlock, PairAdopt, RecoverBoot, TypeOK
    <3> QED BY <3>1
  <2>2. CASE Return(d)
    <3>1. \/ mem'[d] = {AsStored(d)}
          \/ mem'[d] = {[m EXCEPT !.prompt = FALSE] : m \in mem[d]}
      BY <1>0, <2>2 DEF Return, TypeOK
    <3> QED BY <1>0, <3>1 DEF Single
  <2>3. CASE mem'[d] \in {mem[d], {}} BY <1>0, <2>3 DEF Single
  <2> QED BY <2>1, <2>2, <2>3, DiskMoves
<1> QED BY <1>1, <1>2 DEF Single

Staged == {"boot", "tx", "load", "settings", "unstash", "done", "file"} \cup Publishing

\* The steps of a job find what they need, up to the commit.
LEMMA StagePublish ==
  ASSUME IInv, NEW d \in Devices, JobsInv(d),
         \/ CommitBoot(d) \/ CommitSettings(d) \/ Load(d) \/ CheckEpoch(d)
         \/ WriteRecovery(d) \/ WriteContent(d) \/ WriteMeta(d)
  PROVE  StageInv(d)'
<1>0. TypeOK /\ StageInv(d) /\ Resumable(d) /\ Single(d) /\ RunInv(d)
  BY DEF IInv, JobsInv, DevInv
<1> USE DEF Cloud, Local
<1>1. CASE CommitBoot(d)
  <2>1. /\ jobs[d] # <<>> /\ jobs' = jobs /\ stash' = stash /\ meta' = meta /\ pc[d] = "boot"
        /\ pc'[d] \in {"tx", "idle"}
        /\ pc'[d] = "tx" => \E s \in stash[d] : boot'[d] = NewBoot(d, s)
    BY <1>0, <1>1 DEF CommitBoot, Goto, Stop, TypeOK, RunInv, Rotating, Committing
  <2>2. pc'[d] = "tx" /\ Newest(d).epoch = meta.epoch => boot'[d].list.under = Newest(d).new
    <3> SUFFICES ASSUME pc'[d] = "tx", Newest(d).epoch = meta.epoch
                 PROVE  boot'[d].list.under = Newest(d).new
      OBVIOUS
    <3>1. PICK s \in stash[d] : boot'[d] = NewBoot(d, s) BY <2>1
    <3>2. boot'[d].list.under = s.new BY <3>1 DEF NewBoot
    <3>3. \E t \in stash[d] : t.new = Newest(d).new BY <1>0, <2>1 DEF Resumable, Active
    <3> QED BY <1>0, <3>2, <3>3 DEF Single
  <2>3. Newest(d)' = Newest(d) BY <2>1 DEF Newest
  <2> QED BY <1>0, <2>1, <2>2, <2>3 DEF StageInv, Publishing
<1>2. CASE CommitSettings(d)
  <2>1. Active(d) /\ pc'[d] \in {"check", "load"}
    BY <1>0, <1>2 DEF CommitSettings, Goto, TypeOK, RunInv, Rotating, Committing, Active
  <2>2. Marked(d) BY <1>0, <1>2, <2>1, MarksJobs
  <2>3. TypeOK' BY <1>2, StepType DEF Step
  <2>4. Newest(d)'.state = "publish_keyring" BY <1>0, <2>2, <2>3, NewestMoves
  <2> QED BY <2>1, <2>4 DEF StageInv
<1>3. CASE Load(d)
  <2>1. pc[d] = "load" /\ pc'[d] = "check" /\ jobs' = jobs BY <1>0, <1>3 DEF Load, Goto, TypeOK
  <2>2. Newest(d)' = Newest(d) BY <2>1 DEF Newest
  <2> QED BY <1>0, <2>1, <2>2 DEF StageInv
<1>4. CASE CheckEpoch(d)
  <2>1. CASE meta.epoch = Newest(d).epoch
    <3>1. pc[d] = "check" /\ pc'[d] = "recovery" /\ jobs' = jobs
      BY <1>0, <1>4, <2>1 DEF CheckEpoch, TypeOK
    <3>2. Newest(d)' = Newest(d) BY <3>1 DEF Newest
    <3> QED BY <1>0, <3>1, <3>2 DEF StageInv, Publishing
  <2>2. CASE meta.epoch # Newest(d).epoch
    <3>1. pc'[d] = "idle" BY <1>0, <1>4, <2>2 DEF CheckEpoch, Stop, TypeOK
    <3> QED BY <3>1 DEF StageInv, Publishing
  <2> QED BY <2>1, <2>2
<1>5. CASE WriteRecovery(d)
  <2>1. pc[d] = "recovery" /\ pc'[d] = "content" /\ jobs' = jobs
    BY <1>0, <1>5 DEF WriteRecovery, TypeOK
  <2>2. Newest(d)' = Newest(d) BY <2>1 DEF Newest
  <2>3. \E s \in stash[d] : slot'.master = s.new BY <1>5 DEF WriteRecovery
  <2>4. Active(d) /\ Newest(d).epoch = meta.epoch
    BY <2>1, Publisher DEF Active, Live
  <2>5. slot'.master = Newest(d).new BY <1>0, <2>3, <2>4 DEF Resumable, Single
  <2> QED BY <1>0, <2>1, <2>2, <2>5 DEF StageInv, Publishing
<1>6. CASE WriteContent(d)
  <2>1. pc[d] = "content" /\ jobs' = jobs /\ slot' = slot /\ db' = db
    BY <1>6 DEF WriteContent
  <2>2. Newest(d)' = Newest(d) BY <2>1 DEF Newest
  <2>3. op[d].seen.ce = meta.ce /\ Latest(db[d].list.keys) > meta.ce BY <2>1, Publisher
  <2>4. \/ pc'[d] = "idle"
        \/ pc'[d] = "meta" /\ content' = db[d].list /\ db[d].list.under = Newest(d).new
    BY <1>0, <1>6, <2>3 DEF WriteContent, Goto, Stop, TypeOK
  <2> QED BY <1>0, <2>1, <2>2, <2>4 DEF StageInv, Publishing
<1>7. CASE WriteMeta(d)
  <2>1. pc[d] = "meta" /\ pc'[d] = "settings" /\ jobs' = jobs
    BY <1>0, <1>7 DEF WriteMeta, Goto, TypeOK
  <2>2. Newest(d)' = Newest(d) BY <2>1 DEF Newest
  <2> QED BY <1>0, <2>1, <2>2 DEF StageInv, Publishing
<1> QED BY <1>1, <1>2, <1>3, <1>4, <1>5, <1>6, <1>7

\* The other steps, and the commands.
LEMMA StageKept ==
  ASSUME IInv, NEW d \in Devices, JobsInv(d), Move(d)
  PROVE  StageInv(d)'
<1>0. TypeOK /\ StageInv(d) /\ RunInv(d) /\ db[d] \in Db /\ op[d] \in Op
  BY DEF IInv, JobsInv, DevInv, TypeOK
<1> USE DEF Cloud, Local
<1>1. ASSUME pc'[d] \notin Staged PROVE StageInv(d)'
  BY <1>1 DEF StageInv, Staged, Publishing
<1>2. CASE \/ CommitBoot(d) \/ CommitSettings(d) \/ Load(d) \/ CheckEpoch(d)
           \/ WriteRecovery(d) \/ WriteContent(d) \/ WriteMeta(d)
  BY <1>2, StagePublish
<1>3. CASE FinalizeSettings(d) \/ ClearStash(d)
  <2>1. /\ \/ pc[d] = "settings" /\ pc'[d] = "unstash"
           \/ pc[d] = "unstash" /\ pc'[d] = "done"
        /\ jobs' = jobs /\ meta' = meta /\ jobs[d] # <<>>
    BY <1>0, <1>3 DEF FinalizeSettings, ClearStash, Goto, TypeOK, RunInv, Rotating
  <2>2. Newest(d)' = Newest(d) BY <2>1 DEF Newest
  <2>3. Newest(d).epoch \in Nat /\ meta.epoch \in Nat
    BY <1>0, <2>1, LiveIsNewest, JobSeq DEF JobsInv, Active
  <2>4. pc[d] = "settings" => Newest(d).epoch + 1 <= meta.epoch BY <1>0 DEF RunInv
  <2>5. Newest(d).epoch < meta.epoch BY <1>0, <2>1, <2>3, <2>4 DEF StageInv
  <2> QED BY <1>0, <2>1, <2>2, <2>5 DEF StageInv, Publishing
<1>4. CASE PairList(d)
  <2>1. pc'[d] = "file" /\ op' = op BY <1>0, <1>4 DEF PairList, Goto, TypeOK
  <2>2. db'[d] = [db[d] EXCEPT !.list = op[d].list] BY <1>0, <1>4 DEF PairList, TypeOK
  <2>3. db'[d].list = op[d].list BY <1>0, <2>2 DEF Db
  <2> QED BY <2>1, <2>3 DEF StageInv, Publishing
<1>5. CASE \/ MarkDone(d) \/ Return(d) \/ PairIdentity(d) \/ PairBoot(d) \/ PairAdopt(d)
           \/ PairRecheck(d) \/ PairBump(d) \/ PairClear(d)
           \/ PasswordBoot(d) \/ KeepOffline(d) \/ RecoverBoot(d)
  <2>1. pc'[d] \in {"return", "idle", "list", "adopt", "recheck", "bump", "clear", "gate"}
    BY <1>0, <1>5
       DEF MarkDone, Return, PairIdentity, PairBoot, PairAdopt, PairRecheck, PairBump,
           PairClear, PasswordBoot, KeepOffline, RecoverBoot, Goto, Stop, TypeOK
  <2> QED BY <1>1, <2>1 DEF Staged, Publishing
<1>6. CASE Rotates(d)
  <2>1. stash'[d] # {} /\ pc'[d] = "boot" BY <1>6, RotateWrites DEF Rotates
  <2>2. Grown(d) BY <1>0, <1>6, GrowsJobs DEF Rotates
  <2>3. Newest(d)'.state = "commit_local" BY <1>0, <2>2, NewestMoves
  <2> QED BY <2>1, <2>3 DEF StageInv, Publishing
<1>7. CASE ResumeFinalize(d)
  <2>1. pc'[d] = "settings" /\ jobs' = jobs /\ Newest(d).state = "publish_keyring"
    BY <1>0, <1>7 DEF ResumeFinalize, Begin, TypeOK, Published
  <2>2. Newest(d)' = Newest(d) BY <2>1 DEF Newest
  <2> QED BY <2>1, <2>2 DEF StageInv, Publishing
<1>8. CASE Resume(d)
  <2>1. /\ pc'[d] = (IF Newest(d).state = "commit_local" THEN "boot" ELSE "check")
        /\ jobs' = jobs /\ stash' = stash /\ stash[d] # {} /\ Active(d)
    BY <1>0, <1>8 DEF Resume, Begin, TypeOK
  <2>2. Newest(d)' = Newest(d) BY <2>1 DEF Newest
  <2>3. Newest(d) \in Job BY <1>0, <2>1, NewestJob DEF TypeOK, Active
  <2> QED BY <2>1, <2>2, <2>3 DEF StageInv, Publishing, Job
<1>9. CASE Detect(d)
  <2>1. /\ pc' = pc /\ op' = op /\ jobs' = jobs /\ stash' = stash /\ boot' = boot
        /\ meta' = meta /\ slot' = slot /\ content' = content
    BY <1>9 DEF Detect
  <2>2. db'[d].list = db[d].list
    <3>1. db'[d] = [db[d] EXCEPT !.flag = TRUE] BY <1>0, <1>9 DEF Detect, TypeOK
    <3> QED BY <1>0, <3>1 DEF Db
  <2>3. Newest(d)' = Newest(d) BY <2>1 DEF Newest
  <2> QED BY <1>0, <2>1, <2>2, <2>3 DEF StageInv
<1>10. CASE \/ Unlock(d) \/ Lock(d) \/ Recheck(d) \/ RePair(d) \/ ChangePassword(d)
            \/ Recover(d) \/ Fail(d) \/ Crash(d)
  <2>1. pc'[d] \in {"idle", "identity", "pwboot", "reboot"}
    BY <1>0, <1>10 DEF Unlock, Lock, Recheck, RePair, ChangePassword, Recover, Fail, Crash,
                       Begin, Ready, Stop, TypeOK
  <2> QED BY <1>1, <2>1 DEF Staged, Publishing
<1> QED
  BY <1>2, <1>3, <1>4, <1>5, <1>6, <1>7, <1>8, <1>9, <1>10 DEF Move, Step, Command, Rotates

LEMMA JobsKeep ==
  ASSUME IInv, NEW d \in Devices, JobsInv(d), Move(d)
  PROVE  JobsInv(d)'
BY OrderKept, ResumableKept, SingleKept, StageKept DEF JobsInv

-----------------------------------------------------------------------------
(* The other devices, and the three files *)

\* Only the device at that step writes a file of the keyring.
LEMMA CloudWriters ==
  ASSUME IInv, NEW d \in Devices, Move(d)
  PROVE  /\ slot' = slot \/ WriteRecovery(d)
         /\ content' = content \/ WriteContent(d)
         /\ meta' = meta \/ WriteMeta(d)
<1>1. content' = content \/ WriteContent(d)
  BY CalmStep DEF WriteMeta, WriteContent, Move, Step, CommitBoot, CommitSettings, Load, CheckEpoch,
     WriteRecovery, FinalizeSettings, ClearStash, MarkDone, Return, PairIdentity, PairList,
     PairBoot, PairAdopt, PairRecheck, PairBump, PairClear, PasswordBoot, KeepOffline,
     RecoverBoot, Command, Rotate, ResumeFinalize, Resume, Unlock, Lock, Detect, Recheck,
     RePair, ChangePassword, Recover, Fail, Crash, Cloud
<1>2. slot' = slot \/ WriteRecovery(d)
  BY DEF WriteMeta, WriteContent, Move, Step, CommitBoot, CommitSettings, Load, CheckEpoch,
     WriteRecovery, FinalizeSettings, ClearStash, MarkDone, Return, PairIdentity, PairList,
     PairBoot, PairAdopt, PairRecheck, PairBump, PairClear, PasswordBoot, KeepOffline,
     RecoverBoot, Command, Rotate, ResumeFinalize, Resume, Unlock, Lock, Detect, Recheck,
     RePair, ChangePassword, Recover, Fail, Crash, Cloud
<1> QED BY <1>1, <1>2, MetaStays

\* What another device does disturbs none of this.
LEMMA OtherJobs ==
  ASSUME IInv, NEW d \in Devices, NEW e \in Devices, e # d, JobsInv(e), Move(d)
  PROVE  JobsInv(e)'
<1>0. TypeOK /\ Same(e) /\ RunInv(e) BY OthersStay DEF IInv, DevInv
<1>1. /\ JobsOf(e)' = JobsOf(e) /\ Newest(e)' = Newest(e) /\ (Active(e)' <=> Active(e))
      /\ Sorted(e)' /\ Single(e)'
  BY <1>0 DEF Same, JobsOf, Newest, Active, JobsInv, Sorted, Single
<1>2. meta.epoch \in Nat /\ meta'.epoch \in Nat /\ meta.epoch <= meta'.epoch
  BY <1>0, MetaCommits, CloudWriters, JobSeq
<1>3. Active(e) => Newest(e).epoch <= meta.epoch /\ Newest(e).epoch \in Nat
  BY LiveIsNewest DEF JobsInv
<1>4. meta' = meta \/ (WriteMeta(d) /\ meta'.epoch = meta.epoch + 1)
  BY MetaCommits, CloudWriters
<1>5. Resumable(e)'
  <2>1. CASE meta' = meta
    BY <1>0, <1>1, <2>1 DEF Same, JobsInv, Resumable
  <2>2. CASE meta'.epoch = meta.epoch + 1
    BY <1>1, <1>2, <1>3, <2>2 DEF Resumable
  <2> QED BY <1>4, <2>1, <2>2
<1>6. Unpublished(e)'
  <2>1. CASE meta' = meta
    <3>1. Live(e)' = Live(e) BY <1>1, <2>1 DEF Live
    <3> QED BY <1>0, <2>1, <3>1 DEF Same, JobsInv, Unpublished
  <2>2. CASE WriteMeta(d)
    <3>1. \A j \in JobsOf(e) : j.new # meta'.fp BY <2>2, MetaCommits
    <3>2. \A i \in 1..Len(jobs[e]) : jobs[e][i] \in JobsOf(e) BY DEF JobsOf
    <3>3. Len(jobs[e]) \in Nat BY <1>0, JobSeq
    <3> QED BY <1>0, <3>1, <3>2, <3>3 DEF Same, Unpublished
  <2> QED BY <1>4, <2>1, <2>2
<1>7. pc[e] \in {"content", "meta"} => slot' = slot /\ content' = content /\ meta' = meta
  <2>1. pc[e] \in Window => pc[d] \notin Window BY DEF IInv, Exclusive
  <2> QED BY <2>1, CloudWriters DEF Window, WriteRecovery, WriteContent, WriteMeta
<1>8. StageInv(e)'
  <2>1. pc[e] \in {"unstash", "done"} => Active(e) BY <1>0 DEF RunInv, Rotating, Active
  <2>2. pc[e] = "tx" => Active(e) BY <1>0 DEF RunInv, Rotating, Committing, Active
  <2>3. pc[e] \in {"unstash", "done"} => Newest(e).epoch < meta'.epoch
    BY <1>2, <1>3, <2>1 DEF JobsInv, StageInv
  <2>4. pc[e] = "tx" /\ Newest(e).epoch = meta'.epoch => boot[e].list.under = Newest(e).new
    BY <1>2, <1>3, <1>4, <2>2 DEF JobsInv, StageInv
  <2> QED BY <1>0, <1>1, <1>7, <2>3, <2>4 DEF Same, JobsInv, StageInv
<1> QED BY <1>1, <1>5, <1>6, <1>8 DEF JobsInv

\* The files belong together until a job that can complete them writes the
\* first, and again from the commit on.
LEMMA WholeKept ==
  ASSUME IInv, \A e \in Devices : JobsInv(e), WholeInv, NEW d \in Devices, Move(d)
  PROVE  WholeInv'
<1>0. TypeOK /\ TypeOK' BY NewTypes DEF IInv
<1>1. CASE WriteRecovery(d)
  <2>1. pc[d] = "recovery" /\ jobs' = jobs /\ meta' = meta
    BY <1>1 DEF WriteRecovery, Local
  <2>2. pc'[d] = "content" BY <1>0, <1>1 DEF WriteRecovery, TypeOK
  <2>3. StageInv(d) /\ StageInv(d)' BY JobsKeep DEF JobsInv
  <2>4. Active(d) /\ Newest(d).epoch = meta.epoch /\ Newest(d).new > meta.fp
    BY <2>1, Publisher, LiveIsNewest DEF Active, Live, JobsInv
  <2>5. Publishes(d)'
    BY <2>1, <2>3, <2>4 DEF Publishes, StageInv, Publishing, Active, Newest
  <2>6. slot'.master = Newest(d).new BY <2>1, <2>2, <2>3 DEF StageInv, Newest
  <2>7. Newest(d).new \in Nat /\ meta.fp \in Nat
    BY <1>0, <2>4, LiveIsNewest, JobSeq DEF JobsInv
  <2>8. slot'.master # meta'.fp BY <2>1, <2>4, <2>6, <2>7
  <2> QED BY <2>5, <2>8 DEF WholeInv
<1>2. CASE WriteContent(d)
  <2>1. pc[d] = "content" /\ jobs' = jobs /\ meta' = meta /\ slot' = slot
    BY <1>2 DEF WriteContent, Local
  <2>2. StageInv(d) BY DEF JobsInv
  <2>3. Active(d) /\ Newest(d).epoch = meta.epoch /\ Newest(d).new > meta.fp
    BY <2>1, Publisher, LiveIsNewest DEF Active, Live, JobsInv
  <2>4. Newest(d).new \in Nat /\ meta.fp \in Nat
    BY <1>0, <2>3, LiveIsNewest, JobSeq DEF JobsInv
  <2>5. slot'.master # meta'.fp BY <2>1, <2>2, <2>3, <2>4 DEF StageInv
  <2>6. Publishes(d)'
    BY <2>1, <2>2, <2>3 DEF Publishes, StageInv, Publishing, Active, Newest
  <2> QED BY <2>5, <2>6 DEF WholeInv
<1>3. CASE WriteMeta(d)
  <2>1. pc[d] = "meta" /\ slot' = slot /\ content' = content BY <1>3 DEF WriteMeta
  <2>2. meta'.fp = Newest(d).new /\ meta'.ce = Latest(db[d].list.keys) BY <1>3, MetaCommits
  <2>3. StageInv(d) BY DEF JobsInv
  <2> QED BY <2>1, <2>2, <2>3 DEF WholeInv, StageInv
<1>4. CASE slot' = slot /\ content' = content /\ meta' = meta
  <2>1. CASE slot.master = meta.fp BY <1>4, <2>1 DEF WholeInv
  <2>2. CASE slot.master # meta.fp
    <3>1. PICK e \in Devices : Publishes(e) BY <2>2 DEF WholeInv
    <3>2. Newest(e).epoch = meta.epoch /\ Active(e) /\ Newest(e).state = "publish_keyring"
      BY <3>1 DEF Publishes
    <3>3. Publishes(e)'
      <4>1. CASE e # d
        <5>1. jobs'[e] = jobs[e] BY <1>0, <4>1, OthersStay DEF Same
        <5> QED BY <1>4, <3>1, <5>1 DEF Publishes, Active, Newest
      <4>2. CASE e = d /\ jobs'[d] = jobs[d]
        BY <1>4, <3>1, <4>2 DEF Publishes, Active, Newest
      <4>3. CASE e = d /\ Marked(d)
        <5>1. /\ Active(d)' /\ Newest(d)'.state = "publish_keyring"
              /\ Newest(d)'.epoch = Newest(d).epoch
          BY <1>0, <4>3, NewestMoves
        <5> QED BY <1>4, <3>2, <4>3, <5>1 DEF Publishes
      <4>4. CASE e = d /\ Rotates(d)
        <5>1. PICK kind \in {"rotate", "reset"} : Rotate(d, kind) BY <4>4 DEF Rotates
        <5>2. PICK m \in mem[d] :
                /\ db[d].list.under = m.master
                /\ kind = "rotate" => slot.master = meta.fp
                /\ kind = "reset" => \E k \in mem[d] : k.master = meta.fp
          BY <5>1, RotateWrites
        <5>3. db[d].list.under = meta.fp BY <2>2, <5>1, <5>2 DEF JobsInv, Single
        <5>4. db[d].list.under = Newest(d).new BY <3>2, <4>4 DEF JobsInv, Resumable
        <5>5. Newest(d).new > meta.fp /\ Newest(d).new \in Nat
          BY <3>2, <4>4, LiveIsNewest DEF JobsInv
        <5>6. meta.fp \in Nat BY <1>0, JobSeq
        <5> QED BY <5>3, <5>4, <5>5, <5>6
      <4> QED BY <3>2, <4>1, <4>2, <4>3, <4>4, JobMoves
    <3> QED BY <1>4, <2>2, <3>3 DEF WholeInv
  <2> QED BY <2>1, <2>2
<1> QED BY <1>1, <1>2, <1>3, <1>4, CloudWriters

-----------------------------------------------------------------------------
(* The boot file, the settings and the keys in memory *)

\* A command runs with the question of the window it was started for.
LEMMA KindKept ==
  ASSUME IInv, NEW d \in Devices, Single(d), KindInv(d), Move(d)
  PROVE  KindInv(d)'
<1>0. TypeOK /\ op[d] \in Op BY DEF IInv, TypeOK
<1> USE DEF Cloud, Local
<1>1. ASSUME pc'[d] \in {"idle", "reboot"}, op'[d].kind = "none" PROVE KindInv(d)'
  BY <1>1 DEF KindInv, Publishing, Finalizing, Pairing
<1>2. ASSUME Stop(d) PROVE KindInv(d)'
  <2>1. pc'[d] = "idle" /\ op'[d].kind = "none" BY <1>0, <1>2 DEF Stop, NoOp, TypeOK
  <2> QED BY <1>1, <2>1
<1>3. CASE \/ KeepOffline(d) \/ RecoverBoot(d) \/ Fail(d) \/ Crash(d) \/ PairClear(d) \/ Return(d)
  BY <1>2, <1>3 DEF KeepOffline, RecoverBoot, Fail, Crash, PairClear, Return
<1>4. CASE CommitBoot(d) \/ CommitSettings(d) \/ Load(d)
  <2>1. CASE Stop(d) BY <1>2, <2>1
  <2>2. CASE ~Stop(d)
    <3>1. op' = op /\ \/ pc[d] = "boot" /\ pc'[d] = "tx"
                      \/ /\ pc[d] = "tx" /\ pc'[d] = "check" /\ op[d].kind = "resume"
                      \/ /\ pc[d] = "tx" /\ pc'[d] = "load" /\ op[d].kind # "resume"
                      \/ pc[d] = "load" /\ pc'[d] = "check"
      BY <1>0, <1>4, <2>2 DEF CommitBoot, CommitSettings, Load, Goto, TypeOK
    <3>2. \/ mem'[d] = mem[d]
          \/ pc[d] = "load" /\ mem'[d] = {AsStored(d)}
      BY <1>0, <1>4 DEF CommitBoot, CommitSettings, Load, Loaded, TypeOK
    <3>3. ~AsStored(d).prompt BY DEF AsStored
    <3> QED BY <3>1, <3>2, <3>3 DEF KindInv, Publishing, Finalizing, Pairing
  <2> QED BY <2>1, <2>2
<1>5. CASE CheckEpoch(d) \/ WriteRecovery(d) \/ WriteContent(d) \/ WriteMeta(d)
  <2>1. CASE Stop(d) BY <1>2, <2>1
  <2>2. CASE ~Stop(d)
    <3>1. /\ op'[d].kind = op[d].kind /\ mem' = mem
          /\ pc[d] \in Publishing /\ pc'[d] \in {"recovery", "content", "meta", "settings"}
      BY <1>0, <1>5, <2>2
         DEF CheckEpoch, WriteRecovery, WriteContent, WriteMeta, Goto, TypeOK, Op, Publishing
    <3> QED BY <3>1 DEF KindInv, Publishing, Finalizing, Pairing
  <2> QED BY <2>1, <2>2
<1>6. CASE FinalizeSettings(d) \/ ClearStash(d) \/ MarkDone(d)
  <2>1. /\ op' = op /\ mem' = mem /\ pc[d] \in {"settings", "unstash", "done"}
        /\ pc'[d] \in {"unstash", "done", "return"}
    BY <1>0, <1>6 DEF FinalizeSettings, ClearStash, MarkDone, Goto, TypeOK
  <2> QED BY <2>1 DEF KindInv, Publishing, Finalizing, Pairing
<1>7. CASE \/ PairIdentity(d) \/ PairList(d) \/ PairBoot(d) \/ PairAdopt(d)
           \/ PairRecheck(d) \/ PairBump(d)
  <2>1. CASE Stop(d) BY <1>2, <2>1
  <2>2. CASE ~Stop(d)
    <3>1. /\ op' = op /\ pc[d] \in Pairing
          /\ pc'[d] \in {"list", "file", "adopt", "recheck", "bump", "clear"}
      BY <1>0, <1>7, <2>2
         DEF PairIdentity, PairList, PairBoot, PairAdopt, PairRecheck, PairBump, Goto, TypeOK, Pairing
    <3>2. op[d].kind = "repair" BY <3>1 DEF KindInv
    <3> QED BY <3>1, <3>2 DEF KindInv, Publishing, Finalizing, Pairing
  <2> QED BY <2>1, <2>2
<1>8. CASE PasswordBoot(d)
  <2>1. op' = op /\ mem' = mem /\ pc[d] = "pwboot" /\ pc'[d] = "gate"
    BY <1>0, <1>8 DEF PasswordBoot, Goto, TypeOK
  <2> QED BY <2>1 DEF KindInv, Publishing, Finalizing, Pairing
<1>9. CASE Rotates(d)
  <2>1. PICK kind \in {"rotate", "reset"} :
          /\ pc'[d] = "boot" /\ op'[d].kind = kind /\ mem' = mem /\ \A m \in mem[d] : ~m.prompt
    BY <1>9, RotateWrites DEF Rotates
  <2> QED BY <2>1 DEF KindInv, Publishing, Finalizing, Pairing
<1>10. CASE ResumeFinalize(d) \/ Resume(d)
  <2>1. /\ mem' = mem /\ \E m \in mem[d] : m.prompt
        /\ \/ pc'[d] = "settings" /\ op'[d].kind = "finalize"
           \/ pc'[d] \in {"boot", "check"} /\ op'[d].kind = "resume"
    <3>1. CASE ResumeFinalize(d)
      <4>1. pc'[d] = "settings" /\ op'[d] = [As("finalize") EXCEPT !.slot = db[d].rw]
        BY <1>0, <3>1 DEF ResumeFinalize, Begin, TypeOK
      <4>2. op'[d].kind = "finalize" BY <4>1 DEF As, NoOp
      <4> QED BY <3>1, <4>1, <4>2 DEF ResumeFinalize, MayResume, Prompted
    <3>2. CASE Resume(d)
      <4>1. pc'[d] \in {"boot", "check"} /\ op'[d] = As("resume")
        BY <1>0, <3>2 DEF Resume, Begin, TypeOK
      <4>2. op'[d].kind = "resume" BY <4>1 DEF As, NoOp
      <4> QED BY <3>2, <4>1, <4>2 DEF Resume, MayResume, Prompted
    <3> QED BY <1>10, <3>1, <3>2
  <2>2. \A m \in mem[d] : m.prompt BY <2>1 DEF Single
  <2> QED BY <2>1, <2>2 DEF KindInv, Publishing, Finalizing, Pairing
<1>11. CASE Unlock(d) \/ Lock(d) \/ Recheck(d) \/ Recover(d)
  <2>1. op' = op /\ pc[d] = "idle" /\ pc'[d] \in {"idle", "reboot"}
    BY <1>0, <1>11 DEF Unlock, Lock, Recheck, Recover, Ready, TypeOK
  <2> QED BY <1>1, <2>1 DEF KindInv
<1>12. CASE RePair(d)
  <2>1. pc'[d] = "identity" /\ op'[d].kind = "repair" BY <1>0, <1>12 DEF RePair, Begin, TypeOK
  <2> QED BY <2>1 DEF KindInv, Publishing, Finalizing, Pairing
<1>13. CASE ChangePassword(d)
  <2>1. pc'[d] = "pwboot" /\ op'[d].kind = "password" /\ mem' = mem /\ \A m \in mem[d] : ~m.prompt
    BY <1>0, <1>13 DEF ChangePassword, MayCommand, Prompted, Begin, As, NoOp, TypeOK
  <2> QED BY <2>1 DEF KindInv, Publishing, Finalizing, Pairing
<1>14. CASE Detect(d)
  <2>1. pc' = pc /\ op' = op /\ mem' = mem BY <1>14 DEF Detect
  <2> QED BY <2>1 DEF KindInv
<1> QED
  BY <1>3, <1>4, <1>5, <1>6, <1>7, <1>8, <1>9, <1>10, <1>11, <1>12, <1>13, <1>14
     DEF Move, Step, Command, Rotates

\* The two copies of the list differ only while a job accounts for it.
LEMMA ListKept ==
  ASSUME IInv, NEW d \in Devices, JobsInv(d), ListInv(d), Move(d)
  PROVE  ListInv(d)'
<1>0. TypeOK /\ StageInv(d) /\ RunInv(d) /\ db[d] \in Db /\ boot[d] \in Boot
  BY DEF IInv, JobsInv, DevInv, TypeOK
<1> USE DEF Cloud, Local
<1>1. CASE CommitBoot(d)
  <2>1. /\ pc[d] = "boot" /\ jobs' = jobs /\ stash' = stash /\ db' = db
        /\ pc'[d] = "tx" \/ (pc'[d] = "idle" /\ boot' = boot)
    BY <1>0, <1>1 DEF CommitBoot, Goto, Stop, TypeOK
  <2> QED BY <2>1 DEF ListInv, Active, Newest, Aligned, Publishing, Finalizing
<1>2. CASE CommitSettings(d)
  <2>1. db'[d] = [db[d] EXCEPT !.list = boot[d].list] BY <1>0, <1>2 DEF CommitSettings, TypeOK
  <2>2. boot'[d].list = db'[d].list BY <1>0, <1>2, <2>1 DEF CommitSettings, Db
  <2> QED BY <2>2 DEF ListInv
<1>3. CASE PairList(d)
  <2>1. pc'[d] = "file" BY <1>0, <1>3 DEF PairList, Goto, TypeOK
  <2> QED BY <2>1 DEF ListInv
<1>4. CASE PairBoot(d)
  <2>1. boot'[d].list = op[d].list /\ db' = db /\ pc[d] = "file"
    BY <1>0, <1>4 DEF PairBoot, TypeOK
  <2> QED BY <1>0, <2>1 DEF ListInv, StageInv
<1>5. CASE Rotates(d)
  <2>1. pc'[d] = "boot" /\ stash'[d] # {} BY <1>5, RotateWrites DEF Rotates
  <2>2. Grown(d) BY <1>0, <1>5, GrowsJobs DEF Rotates
  <2>3. Active(d)' /\ Newest(d)'.state = "commit_local" BY <1>0, <2>2, NewestMoves
  <2> QED BY <2>1, <2>3 DEF ListInv, Aligned, Publishing, Finalizing
<1>6. CASE ~CommitBoot(d) /\ ~CommitSettings(d) /\ ~PairList(d) /\ ~PairBoot(d) /\ ~Rotates(d)
  <2>1. db'[d].list = db[d].list /\ boot'[d].list = boot[d].list BY <1>6, DiskMoves
  <2>2. CASE boot[d].list = db[d].list BY <2>1, <2>2 DEF ListInv
  <2>3. CASE pc[d] = "tx"
    <3>1. Detect(d) \/ Crash(d)
      BY <1>6, <2>3
         DEF Move, Step, Load, CheckEpoch, WriteRecovery, WriteContent, WriteMeta, FinalizeSettings,
             ClearStash, MarkDone, Return, PairIdentity, PairAdopt, PairRecheck, PairBump,
             PairClear, PasswordBoot, KeepOffline, RecoverBoot, Command, Rotates, ResumeFinalize,
             Resume, Unlock, Lock, Recheck, RePair, ChangePassword, Recover, Begin, Ready,
             Fail, Publishing, Uploading
    <3>2. jobs' = jobs /\ stash' = stash /\ pc'[d] \in {"tx", "idle"}
      BY <1>0, <2>3, <3>1 DEF Detect, Crash, Stop, TypeOK
    <3>3. Active(d) /\ Newest(d).state = "commit_local" /\ stash[d] # {}
      BY <1>0, <2>3 DEF StageInv, RunInv, Rotating, Committing, Active
    <3> QED BY <3>2, <3>3 DEF ListInv, Active, Newest, Aligned, Publishing, Finalizing
  <2>4. CASE pc[d] = "file"
    <3>1. Detect(d)
      BY <1>6, <2>4
         DEF Move, Step, Load, CheckEpoch, WriteRecovery, WriteContent, WriteMeta, FinalizeSettings,
             ClearStash, MarkDone, Return, PairIdentity, PairAdopt, PairRecheck, PairBump,
             PairClear, PasswordBoot, KeepOffline, RecoverBoot, Command, Rotates, ResumeFinalize,
             Resume, Unlock, Lock, Recheck, RePair, ChangePassword, Recover, Begin, Ready,
             Fail, Publishing, Uploading, Pairing
    <3> QED BY <2>4, <3>1 DEF ListInv, Detect
  <2>5. CASE /\ Active(d) /\ Newest(d).state = "commit_local" /\ stash[d] # {}
             /\ pc[d] \notin Aligned /\ pc[d] \notin {"tx", "file"}
    <3>1. pc[d] \notin {"tx", "file", "unstash", "settings", "done", "return", "load", "adopt", "recheck",
                        "bump", "clear", "check", "recovery", "content", "meta"}
      BY <2>5 DEF Aligned, Publishing, Finalizing
    <3>2. pc'[d] \notin Aligned
      <4>1. CASE PairIdentity(d)
        BY <1>0, <4>1 DEF PairIdentity, Goto, TypeOK, Aligned, Publishing, Finalizing
      <4>2. CASE PasswordBoot(d) \/ KeepOffline(d) \/ RecoverBoot(d)
        BY <1>0, <4>2 DEF PasswordBoot, KeepOffline, RecoverBoot, Goto, Stop, TypeOK,
                          Aligned, Publishing, Finalizing
      <4>3. CASE Resume(d)
        BY <1>0, <2>5, <4>3 DEF Resume, Begin, TypeOK, Aligned, Publishing, Finalizing
      <4>4. CASE ResumeFinalize(d) BY <2>5, <4>4 DEF ResumeFinalize, Published
      <4>5. CASE Unlock(d) \/ Lock(d) \/ Detect(d) \/ Recheck(d)
        BY <1>0, <2>5, <4>5 DEF Unlock, Lock, Detect, Recheck
      <4>6. CASE RePair(d) \/ ChangePassword(d) \/ Recover(d)
        BY <1>0, <4>6 DEF RePair, ChangePassword, Recover, Begin, TypeOK,
                          Aligned, Publishing, Finalizing
      <4>7. CASE Fail(d) \/ Crash(d)
        BY <1>0, <4>7 DEF Fail, Crash, Stop, TypeOK, Aligned, Publishing, Finalizing
      <4> QED
        BY <1>6, <3>1, <4>1, <4>2, <4>3, <4>4, <4>5, <4>6, <4>7
           DEF Move, Step, Load, CheckEpoch, WriteRecovery, WriteContent, WriteMeta,
               FinalizeSettings, ClearStash, MarkDone, Return, PairAdopt, PairRecheck, PairBump,
               PairClear, Command, Rotates
    <3>3. stash'[d] = stash[d] BY <1>6, <3>1, DiskMoves DEF ClearStash
    <3>4. jobs'[d] = jobs[d]
      BY <1>6, <2>5, <3>1, JobMoves DEF CheckEpoch, MarkDone, Unlock, Orphaned
    <3> QED BY <2>5, <3>2, <3>3, <3>4 DEF ListInv, Active, Newest
  <2> QED BY <2>2, <2>3, <2>4, <2>5 DEF ListInv
<1> QED BY <1>1, <1>2, <1>3, <1>4, <1>5, <1>6

\* Steps that leave the memory as it is take care of their place.
LEMMA QuietPlace ==
  ASSUME IInv, NEW d \in Devices, KindInv(d), Move(d),
         ~Load(d), ~Return(d), ~Unlock(d), ~PairAdopt(d), ~RecoverBoot(d), ~Crash(d)
  PROVE  /\ pc'[d] \notin {"tx", "load", "adopt"} /\ pc[d] \in {"tx", "load", "adopt"} =>
              op[d].kind = "resume"
         /\ pc'[d] \notin Finalizing \cup {"adopt"} => pc[d] \notin Finalizing \cup {"adopt"}
         /\ op'[d].kind = "finalize" => op[d].kind = "finalize" \/ ResumeFinalize(d)
<1>0. TypeOK /\ op[d] \in Op BY DEF IInv, TypeOK
<1> USE DEF Cloud, Local
<1>1. CASE pc[d] \notin Finalizing \cup {"tx", "load", "adopt"}
  <2>1. ASSUME op'[d].kind = "finalize", op[d].kind # "finalize" PROVE ResumeFinalize(d)
    <3>1. CASE Step(d)
      <4>1. CASE Stop(d) BY <1>0, <2>1, <4>1 DEF Stop, NoOp, TypeOK
      <4>2. CASE op' = op BY <2>1, <4>2
      <4>3. CASE CheckEpoch(d) /\ ~Stop(d)
        <5>1. op' = [op EXCEPT ![d].seen = meta] BY <4>3 DEF CheckEpoch
        <5> QED BY <1>0, <2>1, <5>1 DEF TypeOK, Op
      <4>4. CASE WriteRecovery(d)
        <5>1. op' = [op EXCEPT ![d].slot = slot'] BY <4>4 DEF WriteRecovery
        <5> QED BY <1>0, <2>1, <5>1 DEF TypeOK, Op
      <4> QED
        BY <3>1, <4>1, <4>2, <4>3, <4>4
           DEF Step, CommitBoot, CommitSettings, Load, WriteContent,
               WriteMeta, FinalizeSettings, ClearStash, MarkDone, Return, PairIdentity, PairList,
               PairBoot, PairAdopt, PairRecheck, PairBump, PairClear, PasswordBoot, KeepOffline,
               RecoverBoot, Goto
    <3>2. CASE Rotates(d)
      <4>1. \E kind \in {"rotate", "reset"} : op'[d].kind = kind
        BY <3>2, RotateWrites DEF Rotates
      <4> QED BY <2>1, <4>1
    <3>3. CASE Command(d) /\ ~Rotates(d)
      BY <1>0, <2>1, <3>3
         DEF Command, Rotates, Resume, Unlock, Lock, Detect, Recheck, RePair, ChangePassword,
             Recover, Begin, As, NoOp, TypeOK
    <3>4. CASE Fail(d) \/ Crash(d) BY <1>0, <2>1, <3>4 DEF Fail, Crash, Stop, NoOp, TypeOK
    <3> QED BY <3>1, <3>2, <3>3, <3>4 DEF Move
  <2> QED BY <1>1, <2>1
<1>2. CASE pc[d] \in Finalizing \cup {"tx", "load", "adopt"}
  <2>1. CommitSettings(d) \/ FinalizeSettings(d) \/ ClearStash(d) \/ MarkDone(d) \/ Detect(d)
    BY <1>2
       DEF Move, Step, CommitBoot, CheckEpoch, WriteRecovery, WriteContent, WriteMeta,
           PairIdentity, PairList, PairBoot, PairRecheck, PairBump, PairClear, PasswordBoot,
           KeepOffline, Command, Rotate, ResumeFinalize, Resume, Lock, Recheck, RePair,
           ChangePassword, Recover, Begin, Ready, Fail, Finalizing, Publishing, Uploading
  <2>2. CASE CommitSettings(d)
    BY <1>0, <2>2 DEF CommitSettings, Goto, TypeOK, Finalizing
  <2>3. CASE FinalizeSettings(d) \/ ClearStash(d) \/ MarkDone(d)
    BY <1>0, <2>3 DEF FinalizeSettings, ClearStash, MarkDone, Goto, TypeOK, Finalizing
  <2>4. CASE Detect(d) BY <2>4 DEF Detect
  <2> QED BY <2>1, <2>2, <2>3, <2>4
<1> QED BY <1>1, <1>2

\* The master in memory opens what the boot file holds, or the window asks.
LEMMA MasterKept ==
  ASSUME IInv, NEW d \in Devices, JobsInv(d), OpenInv(d), Move(d)
  PROVE  MasterInv(d)'
<1>0. /\ TypeOK /\ TypeOK' /\ StageInv(d) /\ Sorted(d) /\ KindInv(d) /\ ListInv(d) /\ MasterInv(d)
      /\ db[d] \in Db /\ boot[d] \in Boot /\ RunInv(d)
  BY NewTypes DEF IInv, JobsInv, OpenInv, TypeOK, DevInv
<1> USE DEF Cloud, Local
<1>1. ASSUME \A m \in mem'[d] : m.master = boot'[d].list.under PROVE MasterInv(d)'
  BY <1>1 DEF MasterInv
<1>2. pc[d] \in Aligned => boot[d].list = db[d].list
  BY <1>0 DEF ListInv, Aligned, Publishing, Finalizing
<1>3. AsStored(d).master = db[d].list.under BY DEF AsStored
<1>4. CASE Load(d) \/ PairAdopt(d)
  <2>1. mem'[d] = {AsStored(d)} /\ boot' = boot /\ pc[d] \in Aligned
    BY <1>0, <1>4 DEF Load, PairAdopt, Loaded, TypeOK, Aligned
  <2> QED BY <1>1, <1>2, <1>3, <2>1
<1>5. CASE Return(d)
  <2>1. boot' = boot /\ pc[d] = "return" BY <1>5 DEF Return
  <2>2. pc[d] \in Finalizing /\ pc[d] \in Aligned BY <2>1 DEF Finalizing, Aligned
  <2>3. CASE op[d].kind = "resume"
    <3>1. mem'[d] = {AsStored(d)} BY <1>0, <1>5, <2>3 DEF Return, TypeOK
    <3> QED BY <1>1, <1>2, <1>3, <2>1, <2>2, <3>1
  <2>4. CASE op[d].kind # "resume"
    <3>1. mem'[d] = {[m EXCEPT !.prompt = FALSE] : m \in mem[d]}
      BY <1>0, <1>5, <2>4 DEF Return, TypeOK
    <3>2. op[d].kind \in {"rotate", "reset", "finalize"} BY <1>0, <2>2, <2>4 DEF KindInv
    <3>3. \A m \in mem[d] : m.master = boot[d].list.under
      BY <1>0, <2>1, <3>2 DEF KindInv, MasterInv
    <3>4. \A m \in mem[d] : m \in Memory BY <1>0 DEF TypeOK
    <3>5. \A m \in mem'[d] : m.master = boot'[d].list.under
      BY <2>1, <3>1, <3>3, <3>4 DEF Memory
    <3> QED BY <1>1, <3>5
  <2> QED BY <2>3, <2>4
<1>6. CASE Unlock(d)
  <2>1. /\ \E b \in BOOLEAN : mem'[d] = {[master |-> boot[d].master, keys |-> boot[d].list.keys,
                                          prompt |-> b]}
        /\ boot[d].list.under = boot[d].master
    BY <1>0, <1>6 DEF Unlock, TypeOK
  <2>2. boot'[d].list = boot[d].list BY <1>6, DiskMoves DEF CommitBoot, PairBoot, Unlock
  <2> QED BY <1>1, <2>1, <2>2
<1>7. CASE RecoverBoot(d)
  <2>1. mem'[d] = {[master |-> boot[d].list.under, keys |-> boot[d].list.keys, prompt |-> FALSE]}
    BY <1>0, <1>7 DEF RecoverBoot, TypeOK
  <2>2. boot'[d].list = boot[d].list BY <1>7, DiskMoves DEF CommitBoot, PairBoot, RecoverBoot
  <2> QED BY <1>1, <2>1, <2>2
<1>8. CASE mem'[d] = {} BY <1>1, <1>8
<1>9. CASE CommitBoot(d)
  <2>1. /\ pc[d] = "boot" /\ mem' = mem /\ jobs' = jobs
        /\ \/ pc'[d] = "tx" /\ op' = op
           \/ pc'[d] = "idle" /\ boot' = boot /\ op'[d].kind = "none"
    BY <1>0, <1>9 DEF CommitBoot, Goto, Stop, NoOp, TypeOK
  <2>2. Newest(d)'.state = "commit_local" BY <1>0, <2>1 DEF StageInv, Newest
  <2>3. op[d].kind # "finalize" BY <1>0, <2>1 DEF KindInv
  <2> QED BY <1>0, <2>1, <2>2, <2>3 DEF MasterInv
<1>10. CASE PairBoot(d)
  <2>1. pc[d] = "file" /\ pc'[d] = "adopt" /\ op' = op BY <1>0, <1>10 DEF PairBoot, Goto, TypeOK
  <2>2. op[d].kind # "finalize" BY <1>0, <2>1 DEF KindInv, Pairing
  <2> QED BY <2>1, <2>2 DEF MasterInv
<1>11. CASE /\ mem'[d] = mem[d] /\ boot'[d].list = boot[d].list
            /\ ~Load(d) /\ ~Return(d) /\ ~Unlock(d) /\ ~PairAdopt(d) /\ ~RecoverBoot(d) /\ ~Crash(d)
  <2>1. /\ pc'[d] \notin {"tx", "load", "adopt"} /\ pc[d] \in {"tx", "load", "adopt"} =>
             op[d].kind = "resume"
        /\ pc'[d] \notin Finalizing \cup {"adopt"} => pc[d] \notin Finalizing \cup {"adopt"}
        /\ op'[d].kind = "finalize" => op[d].kind = "finalize" \/ ResumeFinalize(d)
    BY <1>0, <1>11, QuietPlace
  <2> SUFFICES ASSUME NEW m \in mem[d]
               PROVE  /\ ~m.prompt /\ pc'[d] \notin {"tx", "load", "adopt"} => m.master = boot[d].list.under
                      /\ op'[d].kind = "finalize" => m.master = boot[d].list.under
                      /\ Active(d)' /\ Newest(d)'.state = "publish_keyring" /\ Newest(d)'.new = meta'.fp
                           /\ pc'[d] \notin Finalizing \cup {"adopt"} => m.master = boot[d].list.under
    BY <1>11 DEF MasterInv
  <2>2. ~m.prompt /\ pc'[d] \notin {"tx", "load", "adopt"} => m.master = boot[d].list.under
    BY <1>0, <2>1 DEF MasterInv, KindInv
  <2>3. op'[d].kind = "finalize" => m.master = boot[d].list.under
    <3>1. ASSUME ResumeFinalize(d) PROVE m.master = boot[d].list.under
      <4>1. pc[d] = "idle" /\ Active(d) /\ Newest(d).state = "publish_keyring" /\ Newest(d).new = meta.fp
        BY <3>1 DEF ResumeFinalize, Begin, Ready, Published
      <4> QED BY <1>0, <4>1 DEF MasterInv, Finalizing
    <3> QED BY <1>0, <2>1, <3>1 DEF MasterInv
  <2>4. ASSUME Active(d)', Newest(d)'.state = "publish_keyring", Newest(d)'.new = meta'.fp,
               pc'[d] \notin Finalizing \cup {"adopt"}
        PROVE  m.master = boot[d].list.under
    <3>1. meta' = meta
      <4>1. WriteMeta(d) => pc'[d] = "settings" BY <1>0 DEF WriteMeta, Goto, TypeOK
      <4> QED BY <2>4, <4>1, MetaStays DEF Finalizing
    <3>2. CASE Grown(d)
      <4>1. Newest(d)'.state = "commit_local" BY <1>0, <3>2, NewestMoves
      <4> QED BY <2>4, <4>1
    <3>3. CASE Marked(d) /\ CommitSettings(d)
      <4>1. Active(d) /\ Newest(d)'.new = Newest(d).new BY <1>0, <3>3, NewestMoves
      <4>2. Newest(d).state = "commit_local" BY <1>0, <3>3 DEF CommitSettings, StageInv
      <4>3. Len(jobs[d]) \in Nat /\ Len(jobs[d]) > 0 BY <1>0, <4>1, JobSeq
      <4>4. Newest(d).new # meta.fp BY <4>2, <4>3 DEF JobsInv, Unpublished, Newest
      <4> QED BY <2>4, <3>1, <4>1, <4>4
    <3>4. CASE Shrunk(d) /\ Newest(d).epoch # meta.epoch
      <4>1. PICK i \in 1..(Len(jobs[d]) - 1) : Newest(d)' = jobs[d][i]
        BY <1>0, <2>4, <3>4, NewestMoves
      <4>2. Live(d) = {} BY <1>0, <3>4, LiveIsNewest
      <4>3. Newest(d)'.new # meta.fp BY <4>1, <4>2 DEF JobsInv, Unpublished
      <4> QED BY <2>4, <3>1, <4>3
    <3>5. CASE jobs'[d] = jobs[d]
      <4>1. Active(d) /\ Newest(d)' = Newest(d) BY <2>4, <3>5 DEF Active, Newest
      <4> QED BY <1>0, <2>1, <2>4, <3>1, <4>1 DEF MasterInv
    <3> QED BY <3>2, <3>3, <3>4, <3>5, JobMoves
  <2> QED BY <2>2, <2>3, <2>4
<1>12. CASE Crash(d)
  <2>1. mem'[d] = {} BY <1>0, <1>12 DEF Crash, TypeOK
  <2> QED BY <1>8, <2>1
<1> QED BY <1>4, <1>5, <1>6, <1>7, <1>8, <1>9, <1>10, <1>11, <1>12, DiskMoves

\* The boot file is written with the master that opens its list.
LEMMA OpensKept ==
  ASSUME IInv, NEW d \in Devices, JobsInv(d), OpenInv(d), Move(d)
  PROVE  Opens(d)'
<1>0. TypeOK /\ KindInv(d) /\ MasterInv(d) /\ Opens(d) /\ boot[d] \in Boot
  BY DEF IInv, OpenInv, TypeOK
<1> USE DEF Cloud, Local
<1>1. CASE CommitBoot(d)
  <2>1. boot' = boot \/ \E s \in stash[d] : boot'[d] = NewBoot(d, s)
    BY <1>0, <1>1 DEF CommitBoot, TypeOK
  <2>2. \A s \in stash[d] : NewBoot(d, s).list.under = NewBoot(d, s).master BY DEF NewBoot
  <2> QED BY <1>0, <2>1, <2>2 DEF Opens
<1>2. CASE PairBoot(d) BY <1>0, <1>2 DEF PairBoot, TypeOK, Opens
<1>3. CASE PasswordBoot(d)
  <2>1. PICK m \in mem[d] : boot'[d] = [boot[d] EXCEPT !.pw = db[d].pw, !.master = m.master]
    BY <1>0, <1>3 DEF PasswordBoot, TypeOK
  <2>2. pc[d] = "pwboot" BY <1>3 DEF PasswordBoot
  <2>3. m.master = boot[d].list.under BY <1>0, <2>2 DEF KindInv, MasterInv
  <2> QED BY <1>0, <2>1, <2>3 DEF Opens, Boot
<1>4. CASE RecoverBoot(d)
  <2>1. boot'[d] = [boot[d] EXCEPT !.pw = db[d].pw, !.master = boot[d].list.under]
    BY <1>0, <1>4 DEF RecoverBoot, TypeOK
  <2> QED BY <1>0, <2>1 DEF Opens, Boot
<1>5. CASE Unlock(d)
  <2>1. boot' = boot \/ boot'[d] = [boot[d] EXCEPT !.rec = {db[d].rw}]
    BY <1>0, <1>5 DEF Unlock, TypeOK
  <2> QED BY <1>0, <2>1 DEF Opens, Boot
<1>6. CASE boot' = boot BY <1>0, <1>6 DEF Opens
<1> QED
  BY <1>1, <1>2, <1>3, <1>4, <1>5, <1>6
     DEF Move, Step, CommitSettings, Load, CheckEpoch, WriteRecovery, WriteContent,
         WriteMeta, FinalizeSettings, ClearStash, MarkDone, Return, PairIdentity, PairList,
         PairAdopt, PairRecheck, PairBump, PairClear, KeepOffline, Command, Rotate,
         ResumeFinalize, Resume, Lock, Detect, Recheck, RePair, ChangePassword, Recover,
         Fail, Crash

LEMMA OpenKeep ==
  ASSUME IInv, NEW d \in Devices, JobsInv(d), OpenInv(d), Move(d)
  PROVE  OpenInv(d)'
BY KindKept, ListKept, MasterKept, OpensKept DEF OpenInv, JobsInv

\* What another device does disturbs none of this either.
LEMMA OtherOpen ==
  ASSUME IInv, NEW d \in Devices, NEW e \in Devices, e # d, OpenInv(e), Move(d)
  PROVE  OpenInv(e)'
<1>0. TypeOK /\ Same(e) BY OthersStay DEF IInv
<1>1. Newest(e)' = Newest(e) /\ (Active(e)' <=> Active(e)) BY <1>0 DEF Same, Newest, Active
<1>2. KindInv(e)' /\ ListInv(e)' /\ Opens(e)'
  BY <1>0, <1>1 DEF Same, OpenInv, KindInv, ListInv, Opens
<1>3. MasterInv(e)'
  <2>1. CASE WriteMeta(d)
    <3>1. Active(e) => Newest(e) \in JobsOf(e) BY <1>0, NewestJob DEF TypeOK, Active
    <3>2. Active(e) => Newest(e).new # meta'.fp BY <2>1, <3>1, MetaCommits
    <3> QED BY <1>0, <1>1, <3>2 DEF Same, OpenInv, MasterInv
  <2>2. CASE meta' = meta BY <1>0, <1>1, <2>2 DEF Same, OpenInv, MasterInv
  <2> QED BY <2>1, <2>2, MetaStays
<1> QED BY <1>2, <1>3 DEF OpenInv

-----------------------------------------------------------------------------
(* The keys of a device that is up to date *)

\* The fingerprint a device knows is written in two places.
LEMMA FingerprintStays ==
  ASSUME IInv, NEW d \in Devices, Move(d), ~FinalizeSettings(d), ~PairIdentity(d)
  PROVE  db'[d].fp = db[d].fp
<1>0. TypeOK /\ db[d] \in Db BY DEF IInv, TypeOK
<1> USE DEF Local, Cloud
<1>1. CASE Step(d)
  <2>1. CASE CommitSettings(d)
    <3>1. db'[d] = [db[d] EXCEPT !.list = boot[d].list] BY <1>0, <2>1 DEF CommitSettings, TypeOK
    <3> QED BY <1>0, <3>1 DEF Db
  <2>2. CASE PairList(d)
    <3>1. db'[d] = [db[d] EXCEPT !.list = op[d].list] BY <1>0, <2>2 DEF PairList, TypeOK
    <3> QED BY <1>0, <3>1 DEF Db
  <2>3. CASE PairClear(d)
    <3>1. db'[d] = [db[d] EXCEPT !.flag = FALSE] BY <1>0, <2>3 DEF PairClear, TypeOK
    <3> QED BY <1>0, <3>1 DEF Db
  <2> QED
    BY <1>1, <2>1, <2>2, <2>3
       DEF Step, CommitBoot, Load, CheckEpoch, WriteRecovery, WriteContent, WriteMeta, ClearStash,
           MarkDone, Return, PairBoot, PairAdopt, PairRecheck, PairBump, PasswordBoot,
           KeepOffline, RecoverBoot
<1>2. CASE Command(d)
  <2>1. CASE Rotates(d) BY <2>1, RotateWrites DEF Rotates
  <2>2. CASE ResumeFinalize(d) \/ Resume(d) \/ Unlock(d) \/ Lock(d) \/ RePair(d)
    BY <2>2 DEF ResumeFinalize, Resume, Unlock, Lock, RePair
  <2>3. CASE Detect(d) \/ Recheck(d) \/ ChangePassword(d) \/ Recover(d)
    <3>1. \/ \E b \in BOOLEAN : db'[d] = [db[d] EXCEPT !.flag = b]
          \/ \E p \in Passwords : db'[d] = [db[d] EXCEPT !.pw = p]
      BY <1>0, <2>3 DEF Detect, Recheck, ChangePassword, Recover, TypeOK
    <3> QED BY <1>0, <3>1 DEF Db
  <2> QED BY <1>2, <2>1, <2>2, <2>3 DEF Command, Rotates
<1>3. CASE Fail(d) \/ (pc[d] \notin Pairing /\ Crash(d)) BY <1>3, FaultInv
<1> QED BY <1>1, <1>2, <1>3 DEF Move

\* A device becomes settled by a commit or by a re-pair.
LEMMA SettledBefore ==
  ASSUME IInv, NEW d \in Devices, JobsInv(d), Move(d), ~WriteMeta(d), ~PairIdentity(d), Settled(d)'
  PROVE  Settled(d) /\ ~Rotates(d)
<1>0. TypeOK /\ TypeOK' /\ meta' = meta BY NewTypes, MetaStays DEF IInv
<1>1. Live(d)' = {} BY DEF Settled
<1>2. Live(d) # {} <=> Active(d) /\ Newest(d).epoch = meta.epoch BY LiveIsNewest DEF JobsInv
<1>3. \A j \in JobsOf(d)' : j.epoch # meta.epoch BY <1>0, <1>1 DEF Live
<1>4. ~Rotates(d)
  <2> SUFFICES ASSUME Rotates(d) PROVE FALSE OBVIOUS
  <2>1. Active(d)' /\ Newest(d)'.epoch = meta.epoch
    BY <1>0, GrowsJobs, NewestMoves DEF Rotates
  <2>2. Newest(d)' \in JobsOf(d)'
    <3>1. jobs' \in [Devices -> Seq(Job)] /\ jobs'[d] # <<>> BY <1>0, <2>1 DEF TypeOK, Active
    <3>2. Len(jobs'[d]) \in 1..Len(jobs'[d])
      <4>1. jobs'[d] \in Seq(Job) BY <3>1
      <4> QED BY <3>1, <4>1
    <3> QED BY <3>2 DEF Newest, JobsOf
  <2> QED BY <1>3, <2>1, <2>2
<1>5. JobsKept(d)
  <2>1. ~(\E i \in JobsOf(d)' : i.new = minted + 1 /\ i.epoch = meta.epoch) BY <1>3
  <2> QED BY <2>1, CalmStep DEF JobsKept
<1>6. Live(d) = {}
  <2> SUFFICES ASSUME Active(d), Newest(d).epoch = meta.epoch PROVE FALSE BY <1>2
  <2>1. CASE jobs'[d] = jobs[d]
    <3>1. Newest(d) \in JobsOf(d)' BY <1>0, <2>1, NewestJob DEF TypeOK, Active, JobsOf
    <3> QED BY <1>3, <3>1
  <2>2. CASE Marked(d)
    <3>1. Active(d)' /\ Newest(d)'.epoch = meta.epoch BY <1>0, <2>2, NewestMoves
    <3>2. jobs'[d] \in Seq(Job) /\ jobs'[d] # <<>> BY <1>0, <3>1 DEF TypeOK, Active
    <3>3. Len(jobs'[d]) \in 1..Len(jobs'[d]) BY <3>2
    <3>4. Newest(d)' \in JobsOf(d)' BY <3>3 DEF Newest, JobsOf
    <3> QED BY <1>3, <3>1, <3>4
  <2> QED BY <1>4, <2>1, <2>2, JobMoves
<1>7. db[d].fp = meta.fp \/ \E j \in JobsOf(d) : j.new = meta.fp
  <2>1. CASE \E j \in JobsOf(d)' : j.new = meta.fp BY <1>5, <2>1 DEF JobsKept
  <2>2. CASE FinalizeSettings(d) /\ db'[d].fp = meta.fp
    <3>1. jobs[d] # <<>>
      BY <2>2 DEF FinalizeSettings, IInv, DevInv, RunInv, Rotating
    <3>2. Newest(d) \in JobsOf(d) BY <1>0, <3>1, NewestJob DEF TypeOK
    <3>3. db'[d].fp = Newest(d).new
      <4>1. db'[d] = [db[d] EXCEPT !.fp = Newest(d).new, !.epoch = Newest(d).epoch + 1,
                                   !.rw = op[d].slot]
        BY <1>0, <2>2 DEF FinalizeSettings, TypeOK
      <4>2. db[d] \in Db BY <1>0 DEF TypeOK
      <4> QED BY <4>1, <4>2 DEF Db
    <3> QED BY <2>2, <3>2, <3>3
  <2>3. CASE ~FinalizeSettings(d) /\ db'[d].fp = meta.fp BY <2>3, FingerprintStays
  <2> QED BY <1>0, <2>1, <2>2, <2>3 DEF Settled
<1> QED BY <1>4, <1>6, <1>7 DEF Settled

\* Steps that touch neither list nor memory take care of their place.
LEMMA QuietList ==
  ASSUME IInv, NEW d \in Devices, Move(d), ~PairList(d), ~PairBoot(d),
         ~Load(d), ~Return(d), ~Unlock(d), ~PairAdopt(d), ~RecoverBoot(d), ~Crash(d)
  PROVE  /\ pc[d] \in {"list", "file", "adopt"} => pc'[d] = pc[d]
         /\ pc[d] \in Finalizing => pc'[d] \in Finalizing /\ op' = op
<1>0. TypeOK BY DEF IInv
<1> USE DEF Cloud, Local
<1>1. CASE pc[d] \in {"list", "file", "adopt"}
  <2>1. Detect(d)
    BY <1>1
       DEF Move, Step, CommitBoot, CommitSettings, CheckEpoch, WriteRecovery, WriteContent, WriteMeta,
           FinalizeSettings, ClearStash, MarkDone, PairIdentity, PairRecheck, PairBump, PairClear,
           PasswordBoot, KeepOffline, Command, Rotate, ResumeFinalize, Resume, Lock, Recheck,
           RePair, ChangePassword, Recover, Begin, Ready, Fail, Publishing, Uploading
  <2> QED BY <1>1, <2>1 DEF Detect, Finalizing
<1>2. CASE pc[d] \in Finalizing
  <2>1. FinalizeSettings(d) \/ ClearStash(d) \/ MarkDone(d) \/ Detect(d)
    BY <1>2
       DEF Move, Step, CommitBoot, CommitSettings, CheckEpoch, WriteRecovery, WriteContent, WriteMeta,
           PairIdentity, PairRecheck, PairBump, PairClear,
           PasswordBoot, KeepOffline, Command, Rotate, ResumeFinalize, Resume, Lock, Recheck,
           RePair, ChangePassword, Recover, Begin, Ready, Fail, Publishing, Uploading, Finalizing
  <2> QED
    BY <1>0, <1>2, <2>1
       DEF FinalizeSettings, ClearStash, MarkDone, Detect, Goto, TypeOK, Finalizing
<1> QED BY <1>1, <1>2

\* A re-pair goes from one local write to the next.
LEMMA PairOrder ==
  ASSUME IInv, NEW d \in Devices, Move(d), pc[d] \in {"list", "file", "adopt"}
  PROVE  PairList(d) \/ PairBoot(d) \/ PairAdopt(d) \/ pc'[d] = pc[d]
<1>1. ~Load(d) /\ ~Return(d) /\ ~Unlock(d) /\ ~RecoverBoot(d)
  BY DEF Load, Return, Unlock, RecoverBoot
<1>2. CASE Crash(d) /\ pc[d] \notin Pairing BY <1>2 DEF Pairing
<1>3. CASE ~Crash(d) BY <1>1, <1>3, QuietList
<1>4. CASE Crash(d) /\ Move(d) /\ pc[d] \in Pairing
  BY <1>4 DEF Move, Step, CommitBoot, CommitSettings, Load, CheckEpoch, WriteRecovery, WriteContent,
     WriteMeta, FinalizeSettings, ClearStash, MarkDone, Return, PairIdentity, PairRecheck, PairBump,
     PairClear, PasswordBoot, KeepOffline, RecoverBoot, Command, Rotate, ResumeFinalize, Resume,
     Unlock, Lock, Detect, Recheck, RePair, ChangePassword, Recover, Begin, Ready,
     Fail, Publishing, Uploading
<1> QED BY <1>2, <1>3, <1>4

\* The keys of the settings, of the boot file and of the memory change
\* together, and the commit brings them into the cloud.
LEMMA SettledKept ==
  ASSUME IInv, NEW d \in Devices, JobsInv(d), OpenInv(d), PushInv(d), Move(d)
  PROVE  SettledInv(d)'
<1>0. /\ TypeOK /\ TypeOK' /\ StageInv(d) /\ ListInv(d) /\ RunInv(d) /\ PairInv(d)
      /\ SettledInv(d) /\ KeysInv(d) /\ db[d] \in Db /\ boot[d] \in Boot
  BY NewTypes DEF IInv, DevInv, JobsInv, OpenInv, PushInv, TypeOK
<1> USE DEF Cloud, Local
<1>1. CASE WriteMeta(d)
  <2>1. /\ pc[d] = "meta" /\ pc'[d] = "settings"
        /\ op' = op /\ db' = db /\ boot' = boot /\ mem' = mem
    BY <1>0, <1>1 DEF WriteMeta, Goto, TypeOK
  <2>2. \A k \in db[d].list.keys : k.epoch <= meta'.ce
    BY <1>1, <2>1, MetaCommits, Publisher
  <2>3. boot[d].list = db[d].list
    BY <1>0, <2>1 DEF ListInv, Aligned, Publishing, Finalizing
  <2>4. op[d].kind # "resume" => \A m \in mem[d] : m.keys = db[d].list.keys
    BY <1>0, <2>1 DEF KeysInv, Publishing
  <2> QED BY <2>1, <2>2, <2>3, <2>4 DEF SettledInv, Finalizing
<1>2. CASE PairIdentity(d)
  <2>1. pc'[d] = "list" BY <1>0, <1>2 DEF PairIdentity, Goto, TypeOK
  <2> QED BY <2>1 DEF SettledInv
<1>3. CASE ~WriteMeta(d) /\ ~PairIdentity(d) /\ Settled(d)'
  <2>1. meta' = meta /\ Settled(d) /\ ~Rotates(d) BY <1>3, MetaStays, SettledBefore
  <2>2. /\ pc[d] # "list" => \A k \in db[d].list.keys : k.epoch <= meta.ce
        /\ pc[d] \notin {"list", "file"} => boot[d].list.keys = db[d].list.keys
        /\ pc[d] \notin {"list", "file", "adopt"} /\ ~(op[d].kind = "resume" /\ pc[d] \in Finalizing) =>
             \A m \in mem[d] : m.keys = db[d].list.keys
    BY <1>0, <2>1 DEF SettledInv
  <2>3. CommitSettings(d) => /\ pc[d] = "tx" /\ db'[d].list = boot[d].list /\ boot' = boot /\ mem' = mem
                             /\ boot[d].list.keys = db[d].list.keys
    <3> SUFFICES ASSUME CommitSettings(d)
                 PROVE  /\ pc[d] = "tx" /\ db'[d].list = boot[d].list /\ boot' = boot /\ mem' = mem
                        /\ boot[d].list.keys = db[d].list.keys
      OBVIOUS
    <3>1. db'[d] = [db[d] EXCEPT !.list = boot[d].list] BY <1>0 DEF CommitSettings, TypeOK
    <3>2. db'[d].list = boot[d].list BY <1>0, <3>1 DEF Db
    <3> QED BY <1>0, <3>2 DEF CommitSettings, RunInv
  <2>4. PairList(d) => /\ pc[d] = "list" /\ pc'[d] = "file" /\ mem' = mem /\ db'[d].list = op[d].list
                       /\ \A k \in op[d].list.keys : k.epoch <= meta.ce
    <3> SUFFICES ASSUME PairList(d)
                 PROVE  /\ pc[d] = "list" /\ pc'[d] = "file" /\ mem' = mem /\ db'[d].list = op[d].list
                        /\ \A k \in op[d].list.keys : k.epoch <= meta.ce
      OBVIOUS
    <3>1. db'[d] = [db[d] EXCEPT !.list = op[d].list] BY <1>0 DEF PairList, TypeOK
    <3>2. db'[d].list = op[d].list BY <1>0, <3>1 DEF Db
    <3>3. pc[d] = "list" /\ pc'[d] = "file" /\ mem' = mem BY <1>0 DEF PairList, Goto, TypeOK
    <3>4. op[d].seen.fp = meta.fp BY <1>0, <2>1, <3>3 DEF PairInv, Pairing, Settled
    <3> QED BY <1>0, <3>2, <3>3, <3>4 DEF KeysInv, Pairing
  <2>5. PairBoot(d) => /\ pc[d] = "file" /\ pc'[d] = "adopt" /\ db' = db /\ mem' = mem
                       /\ boot'[d].list = db[d].list
    BY <1>0 DEF PairBoot, Goto, TypeOK, StageInv
  <2>6. CommitBoot(d) => pc[d] = "boot" /\ db' = db /\ mem' = mem /\ boot'[d].list.keys = db[d].list.keys
    <3> SUFFICES ASSUME CommitBoot(d)
                 PROVE  pc[d] = "boot" /\ db' = db /\ mem' = mem /\ boot'[d].list.keys = db[d].list.keys
      OBVIOUS
    <3>1. boot' = boot \/ \E s \in stash[d] : boot'[d] = NewBoot(d, s)
      BY <1>0 DEF CommitBoot, TypeOK
    <3>2. \A s \in stash[d] : NewBoot(d, s).list.keys = db[d].list.keys BY DEF NewBoot
    <3>3. pc[d] = "boot" /\ db' = db /\ mem' = mem BY DEF CommitBoot
    <3> QED BY <2>2, <3>1, <3>2, <3>3
  <2>7. PairList(d) \/ CommitSettings(d) \/ db'[d].list = db[d].list BY <2>1, DiskMoves
  <2>8. pc'[d] # "list" => \A k \in db'[d].list.keys : k.epoch <= meta'.ce
    <3>1. CASE PairList(d) BY <2>1, <2>4, <3>1
    <3>2. CASE CommitSettings(d) BY <2>1, <2>2, <2>3, <3>2
    <3>3. CASE ~PairList(d) /\ db'[d].list = db[d].list
      <4>1. pc[d] = "list" => pc'[d] = "list"
        BY <3>3, PairOrder DEF PairBoot, PairAdopt
      <4> QED BY <2>1, <2>2, <3>3, <4>1
    <3> QED BY <2>7, <3>1, <3>2, <3>3
  <2>9. pc'[d] \notin {"list", "file"} => boot'[d].list.keys = db'[d].list.keys
    <3>1. CASE PairList(d) BY <2>4, <3>1
    <3>2. CASE PairBoot(d) BY <2>5, <3>2
    <3>3. CASE CommitBoot(d) BY <2>6, <3>3
    <3>4. CASE CommitSettings(d) BY <2>3, <3>4
    <3>5. CASE ~PairList(d) /\ ~PairBoot(d) /\ ~CommitBoot(d) /\ ~CommitSettings(d)
      <4>1. boot'[d].list = boot[d].list /\ db'[d].list = db[d].list BY <2>7, <3>5, DiskMoves
      <4>2. pc[d] \in {"list", "file"} => pc'[d] = pc[d]
        BY <3>5, PairOrder DEF PairAdopt
      <4> QED BY <2>2, <4>1, <4>2
    <3> QED BY <3>1, <3>2, <3>3, <3>4, <3>5
  <2>10. ASSUME pc'[d] \notin {"list", "file", "adopt"}, ~(op'[d].kind = "resume" /\ pc'[d] \in Finalizing)
         PROVE  \A m \in mem'[d] : m.keys = db'[d].list.keys
    <3>1. CASE Load(d) \/ PairAdopt(d)
      <4>1. mem'[d] = {AsStored(d)} /\ db' = db
        BY <1>0, <3>1 DEF Load, PairAdopt, Loaded, TypeOK
      <4> QED BY <4>1 DEF AsStored
    <3>2. CASE Return(d)
      <4>1. db' = db /\ pc[d] = "return" BY <3>2 DEF Return
      <4>2. CASE op[d].kind = "resume"
        <5>1. mem'[d] = {AsStored(d)} BY <1>0, <3>2, <4>2 DEF Return, TypeOK
        <5> QED BY <4>1, <5>1 DEF AsStored
      <4>3. CASE op[d].kind # "resume"
        <5>1. mem'[d] = {[m EXCEPT !.prompt = FALSE] : m \in mem[d]}
          BY <1>0, <3>2, <4>3 DEF Return, TypeOK
        <5>2. \A m \in mem[d] : m.keys = db[d].list.keys /\ m \in Memory
          BY <1>0, <2>2, <4>1, <4>3 DEF TypeOK
        <5> QED BY <4>1, <5>1, <5>2 DEF Memory
      <4> QED BY <4>2, <4>3
    <3>3. CASE Unlock(d) \/ RecoverBoot(d)
      <4>1. pc[d] \in {"idle", "reboot"} /\ db' = db /\ \A m \in mem'[d] : m.keys = boot[d].list.keys
        BY <1>0, <3>3 DEF Unlock, RecoverBoot, TypeOK
      <4> QED BY <2>2, <4>1
    <3>4. CASE mem'[d] = {} BY <3>4
    <3>5. CASE CommitSettings(d)
      <4>1. pc[d] \notin {"list", "file", "adopt"} /\ pc[d] \notin Finalizing
        BY <2>3, <3>5 DEF Finalizing
      <4> QED BY <2>2, <2>3, <3>5, <4>1
    <3>6. CASE /\ ~Load(d) /\ ~PairAdopt(d) /\ ~Return(d) /\ ~Unlock(d) /\ ~RecoverBoot(d)
               /\ ~CommitSettings(d) /\ mem'[d] # {}
      <4>1. mem'[d] = mem[d] BY <3>6, DiskMoves
      <4>2. ~PairList(d) /\ ~PairBoot(d) BY <2>4, <2>5, <2>10
      <4>3. ~Crash(d) BY <1>0, <3>6 DEF Crash, TypeOK
      <4>4. /\ pc[d] \in {"list", "file", "adopt"} => pc'[d] = pc[d]
            /\ pc[d] \in Finalizing => pc'[d] \in Finalizing /\ op' = op
        BY <3>6, <4>2, <4>3, QuietList
      <4>5. db'[d].list = db[d].list BY <2>7, <3>6, <4>2
      <4> QED BY <2>2, <2>10, <4>1, <4>4, <4>5
    <3> QED BY <3>1, <3>2, <3>3, <3>4, <3>5, <3>6
  <2> QED BY <2>8, <2>9, <2>10 DEF SettledInv
<1> QED BY <1>1, <1>2, <1>3 DEF SettledInv

\* What a rotation loaded is what it publishes, and a re-pair brings no key
\* the cloud lacks.
LEMMA KeysKept ==
  ASSUME IInv, WholeInv, NEW d \in Devices, OpenInv(d), PushInv(d), Move(d)
  PROVE  KeysInv(d)'
<1>0. /\ TypeOK /\ KindInv(d) /\ KeysInv(d) /\ RunInv(d) /\ PairInv(d) /\ CloudInv
      /\ op[d] \in Op /\ db[d] \in Db
  BY DEF IInv, DevInv, OpenInv, PushInv, TypeOK
<1> USE DEF Cloud, Local
<1>1. ASSUME pc'[d] \notin Publishing \cup Pairing PROVE KeysInv(d)'
  BY <1>1 DEF KeysInv
<1>2. CASE Stop(d)
  <2>1. pc'[d] = "idle" BY <1>0, <1>2 DEF Stop, TypeOK
  <2> QED BY <1>1, <2>1 DEF Publishing, Pairing
<1>3. CASE Load(d)
  <2>1. pc'[d] = "check" /\ mem'[d] = {AsStored(d)} /\ db' = db
    BY <1>0, <1>3 DEF Load, Loaded, Goto, TypeOK
  <2> QED BY <2>1 DEF KeysInv, Publishing, Pairing, AsStored
<1>4. CASE CommitSettings(d)
  <2>1. op' = op /\ pc'[d] = IF op[d].kind = "resume" THEN "check" ELSE "load"
    BY <1>0, <1>4 DEF CommitSettings, Goto, TypeOK
  <2> QED BY <2>1 DEF KeysInv, Publishing, Pairing
<1>5. CASE (CheckEpoch(d) \/ WriteRecovery(d) \/ WriteContent(d)) /\ ~Stop(d)
  <2>1. /\ pc[d] \in Publishing /\ pc'[d] \in Publishing /\ mem' = mem /\ db' = db
        /\ op'[d].kind = op[d].kind
    BY <1>0, <1>5 DEF CheckEpoch, WriteRecovery, WriteContent, Goto, TypeOK, Publishing, Op
  <2> QED BY <1>0, <2>1 DEF KeysInv, Publishing, Pairing
<1>6. CASE Resume(d)
  <2>1. pc'[d] \in {"boot", "check"} /\ op'[d].kind = "resume"
    BY <1>0, <1>6 DEF Resume, Begin, As, NoOp, TypeOK
  <2> QED BY <2>1 DEF KeysInv, Publishing, Pairing
<1>7. CASE RePair(d)
  <2>1. /\ slot.master = meta.fp /\ meta' = meta /\ pc'[d] = "identity"
        /\ op'[d] = [kind |-> "repair", seen |-> meta, slot |-> slot, list |-> content]
    BY <1>0, <1>7 DEF RePair, Begin, TypeOK
  <2>2. op'[d].list.keys = content.keys BY <2>1
  <2>3. meta.ce = Latest(content.keys) BY <2>1 DEF WholeInv
  <2>4. content.keys \in SUBSET Key BY <1>0 DEF TypeOK, List
  <2>5. \A k \in content.keys : k.epoch <= meta.ce
    BY <1>0, <2>3, <2>4, LatestIsMax DEF CloudInv, Listed
  <2> QED BY <2>1, <2>2, <2>5 DEF KeysInv, Publishing, Pairing
<1>8. CASE \/ PairIdentity(d) \/ PairList(d) \/ PairBoot(d) \/ PairAdopt(d)
           \/ PairRecheck(d) \/ PairBump(d)
  <2>1. CASE ~Stop(d)
    <3>1. op' = op /\ pc[d] \in Pairing /\ pc'[d] \in Pairing
      BY <1>0, <1>8, <2>1
         DEF PairIdentity, PairList, PairBoot, PairAdopt, PairRecheck, PairBump, Goto, TypeOK, Pairing
    <3>2. meta' = meta BY <1>8, MetaStays DEF PairIdentity, PairList, PairBoot, PairAdopt,
                                              PairRecheck, PairBump, WriteMeta
    <3> QED BY <1>0, <3>1, <3>2 DEF KeysInv, Publishing, Pairing
  <2> QED BY <1>2, <2>1
<1>9. CASE Detect(d)
  <2>1. db'[d].list = db[d].list /\ mem' = mem /\ pc' = pc /\ op' = op /\ meta' = meta
    BY <1>0, <1>9 DEF Detect, TypeOK, Db
  <2> QED BY <1>0, <2>1 DEF KeysInv
<1>10. CASE \/ CommitBoot(d) \/ WriteMeta(d) \/ FinalizeSettings(d) \/ ClearStash(d) \/ MarkDone(d)
            \/ PasswordBoot(d)
  <2>1. CASE ~Stop(d)
    <3>1. pc'[d] \in {"tx", "settings", "unstash", "done", "return", "gate"}
      BY <1>0, <1>10, <2>1
         DEF CommitBoot, WriteMeta, FinalizeSettings, ClearStash, MarkDone, PasswordBoot, Goto, TypeOK
    <3> QED BY <1>1, <3>1 DEF Publishing, Pairing
  <2> QED BY <1>2, <2>1
<1>11. CASE Rotates(d) \/ ResumeFinalize(d) \/ ChangePassword(d)
  <2>1. CASE Rotates(d)
    <3>1. pc'[d] = "boot" BY <2>1, RotateWrites DEF Rotates
    <3> QED BY <1>1, <3>1 DEF Publishing, Pairing
  <2>2. CASE ResumeFinalize(d) \/ ChangePassword(d)
    <3>1. pc'[d] \in {"settings", "pwboot"}
      BY <1>0, <2>2 DEF ResumeFinalize, ChangePassword, Begin, TypeOK
    <3> QED BY <1>1, <3>1 DEF Publishing, Pairing
  <2> QED BY <1>11, <2>1, <2>2
<1>12. CASE Unlock(d) \/ Lock(d) \/ Recheck(d) \/ Recover(d)
  <2>1. pc'[d] \in {"idle", "reboot"}
    BY <1>0, <1>12 DEF Unlock, Lock, Recheck, Recover, Ready, TypeOK
  <2> QED BY <1>1, <2>1 DEF Publishing, Pairing
<1>13. CASE Return(d) \/ PairClear(d) \/ KeepOffline(d) \/ RecoverBoot(d) \/ Fail(d) \/ Crash(d)
  BY <1>2, <1>13 DEF Return, PairClear, KeepOffline, RecoverBoot, Fail, Crash
<1> QED
  BY <1>2, <1>3, <1>4, <1>5, <1>6, <1>7, <1>8, <1>9, <1>10, <1>11, <1>12, <1>13
     DEF Move, Step, Command, Rotates

\* The commit of another device leaves this one behind, until it re-pairs.
LEMMA OtherPush ==
  ASSUME IInv, NEW d \in Devices, NEW e \in Devices, e # d, PushInv(e), Move(d)
  PROVE  PushInv(e)'
<1>0. /\ TypeOK /\ Same(e) /\ SyncInv(e) /\ PairInv(e) /\ SettledInv(e) /\ KeysInv(e)
  BY OthersStay DEF IInv, DevInv, PushInv
<1>1. JobsOf(e)' = JobsOf(e) BY <1>0 DEF Same, JobsOf
<1>2. CASE WriteMeta(d)
  <2>1. /\ meta'.fp \notin CommittedMasters
        /\ \A j \in JobsOf(e) : j.new # meta'.fp
    BY <1>2, MetaCommits
  <2>2. ~Settled(e)' BY <1>0, <1>1, <2>1 DEF Settled, SyncInv, Same
  <2>3. pc'[e] \in Pairing => op'[e].seen.fp # meta'.fp BY <1>0, <2>1 DEF PairInv, Same
  <2> QED BY <1>0, <2>2, <2>3 DEF PushInv, SettledInv, KeysInv, Same
<1>3. CASE meta' = meta
  <2>1. Live(e)' = Live(e) BY <1>1, <1>3 DEF Live
  <2>2. Settled(e)' = Settled(e) BY <1>0, <1>1, <1>3, <2>1 DEF Settled, Same
  <2> QED BY <1>0, <1>3, <2>2 DEF PushInv, SettledInv, KeysInv, Same
<1> QED BY <1>2, <1>3, MetaStays

-----------------------------------------------------------------------------
(* The invariant *)

DeviceInv ==
  /\ IInv /\ WholeInv
  /\ \A d \in Devices : JobsInv(d) /\ OpenInv(d) /\ PushInv(d)

LEMMA InitDevice == Init => DeviceInv
<1> SUFFICES ASSUME Init PROVE DeviceInv OBVIOUS
<1> DEFINE key == [epoch |-> 1, key |-> 0]
<1>0. IInv BY InitInv
<1>1. /\ content = List0 /\ slot.master = 0 /\ meta.epoch = 1 /\ meta.fp = 0 /\ meta.ce = 1
      /\ List0.keys = {key} /\ List0.under = 0
  BY DEF Init, Slot0, Meta0, List0
<1>2. WholeInv
  <2>1. content.keys \in SUBSET Key /\ HasLatest(content.keys)
    BY <1>0 DEF IInv, TypeOK, List, CloudInv, Listed
  <2>2. PICK k \in content.keys : Latest(content.keys) = k.epoch BY <2>1, LatestIsMax
  <2>3. Latest(content.keys) = 1 BY <1>1, <2>2
  <2> QED BY <1>1, <2>3 DEF WholeInv
<1>3. ASSUME NEW d \in Devices PROVE JobsInv(d) /\ OpenInv(d) /\ PushInv(d)
  <2>1. /\ boot[d].list = List0 /\ boot[d].master = 0 /\ db[d].list = List0
        /\ jobs[d] = <<>> /\ stash[d] = {} /\ pc[d] = "idle" /\ op[d] = NoOp
        /\ mem[d] = {[master |-> 0, keys |-> List0.keys, prompt |-> FALSE]}
    BY DEF Init
  <2>2. Len(jobs[d]) = 0 /\ ~Active(d) BY <2>1 DEF Active
  <2>3. JobsInv(d)
    BY <2>1, <2>2 DEF JobsInv, Sorted, Unpublished, Resumable, Single, StageInv, Publishing
  <2>4. KindInv(d) BY <2>1 DEF KindInv, NoOp, Publishing, Finalizing, Pairing
  <2>5. ListInv(d) /\ Opens(d) BY <1>1, <2>1 DEF ListInv, Opens
  <2>6. MasterInv(d) BY <1>1, <2>1, <2>2 DEF MasterInv
  <2>7. PushInv(d)
    BY <1>1, <2>1 DEF PushInv, SettledInv, KeysInv, NoOp, Publishing, Finalizing, Pairing
  <2> QED BY <2>3, <2>4, <2>5, <2>6, <2>7 DEF OpenInv
<1> QED BY <1>0, <1>2, <1>3 DEF DeviceInv

LEMMA MoveDevice ==
  ASSUME DeviceInv, Overlap = FALSE, NEW d \in Devices, Move(d)
  PROVE  DeviceInv'
<1>1. IInv' BY MoveInv DEF DeviceInv
<1>2. WholeInv' BY WholeKept DEF DeviceInv
<1>3. JobsInv(d)' /\ OpenInv(d)' /\ PushInv(d)'
  BY JobsKeep, OpenKeep, SettledKept, KeysKept DEF DeviceInv, PushInv
<1>4. ASSUME NEW e \in Devices, e # d PROVE JobsInv(e)' /\ OpenInv(e)' /\ PushInv(e)'
  BY <1>4, OtherJobs, OtherOpen, OtherPush DEF DeviceInv
<1> QED BY <1>1, <1>2, <1>3, <1>4 DEF DeviceInv

LEMMA StutterDevice == DeviceInv /\ UNCHANGED vars => DeviceInv'
<1> SUFFICES ASSUME DeviceInv, UNCHANGED vars PROVE DeviceInv' OBVIOUS
<1>1. IInv' BY StutterInv DEF DeviceInv
<1>2. \A d \in Devices : /\ JobsOf(d)' = JobsOf(d) /\ Live(d)' = Live(d)
                         /\ Newest(d)' = Newest(d) /\ (Active(d)' <=> Active(d))
                         /\ Publishes(d)' = Publishes(d)
  BY DEF vars, JobsOf, Live, Newest, Active, Publishes
<1>3. WholeInv' BY <1>2 DEF DeviceInv, WholeInv, vars
<1>4. ASSUME NEW d \in Devices PROVE JobsInv(d)' /\ OpenInv(d)' /\ PushInv(d)'
  <2>0. JobsInv(d) /\ OpenInv(d) /\ PushInv(d) BY DEF DeviceInv
  <2>1. JobsInv(d)'
    BY <1>2, <2>0 DEF vars, JobsInv, Sorted, Unpublished, Resumable, Single, StageInv
  <2>2. KindInv(d)' /\ ListInv(d)' /\ Opens(d)'
    BY <1>2, <2>0 DEF vars, OpenInv, KindInv, ListInv, Opens
  <2>3. MasterInv(d)' BY <1>2, <2>0 DEF vars, OpenInv, MasterInv
  <2>4. PushInv(d)' BY <1>2, <2>0 DEF vars, PushInv, SettledInv, KeysInv, Settled
  <2> QED BY <2>1, <2>2, <2>3, <2>4 DEF OpenInv
<1> QED BY <1>1, <1>3, <1>4 DEF DeviceInv

\* The invariant of the devices holds throughout, whatever crashes or is
\* resumed, when publications do not overlap.
THEOREM DeviceInvariant == Overlap = FALSE => (CoreSpec => []DeviceInv)
<1> SUFFICES ASSUME Overlap = FALSE PROVE CoreSpec => []DeviceInv OBVIOUS
<1>1. Init => DeviceInv BY InitDevice
<1>2. DeviceInv /\ [Core]_vars => DeviceInv' BY MoveDevice, StutterDevice, CoreMoves
<1> QED BY <1>1, <1>2, PTL DEF CoreSpec

-----------------------------------------------------------------------------
(* The properties *)

\* _recovery.json, _content.json and _meta.json (publish_keyring) name one
\* master and one content epoch, or a job that wrote some of them can write
\* the rest: no crash leaves the cloud with files that only contradict.
THEOREM CloudStaysWhole == Overlap = FALSE => (CoreSpec => []CloudWhole)
<1> SUFFICES ASSUME Overlap = FALSE PROVE CoreSpec => []CloudWhole OBVIOUS
<1>1. CoreSpec => []DeviceInv BY DeviceInvariant
<1>2. DeviceInv => CloudWhole BY DEF DeviceInv, WholeInv, CloudWhole
<1> QED BY <1>1, <1>2, PTL

\* Wherever rotate_master_key dies, resume_rotation finds the two masters and
\* a content list that the right one of them opens, for as long as no other
\* rotation has overtaken the job.
THEOREM JobsStayResumable == Overlap = FALSE => (CoreSpec => []JobsCanResume)
<1> SUFFICES ASSUME Overlap = FALSE PROVE CoreSpec => []JobsCanResume OBVIOUS
<1>1. CoreSpec => []DeviceInv BY DeviceInvariant
<1>2. DeviceInv => JobsCanResume
  BY DEF DeviceInv, JobsInv, Resumable, JobsCanResume
<1> QED BY <1>1, <1>2, PTL

\* No order of rotation, resume, re-pair, password change and recovery leaves
\* a boot file whose master does not open the list beside it, which the next
\* unlock could not read.
THEOREM BootFileAlwaysOpens == Overlap = FALSE => (CoreSpec => []BootFileOpens)
<1> SUFFICES ASSUME Overlap = FALSE PROVE CoreSpec => []BootFileOpens OBVIOUS
<1>1. CoreSpec => []DeviceInv BY DeviceInvariant
<1>2. DeviceInv => BootFileOpens BY DEF DeviceInv, OpenInv, Opens, BootFileOpens
<1> QED BY <1>1, <1>2, PTL

\* An epoch stands for one master: in the settings, in the job that is about to
\* write them, and in a re-pair.
Stamped(d) ==
  /\ db[d].epoch = meta.epoch => db[d].fp = meta.fp
  /\ pc[d] = "settings" /\ Newest(d).epoch + 1 = meta.epoch => Newest(d).new = meta.fp
  /\ pc[d] \in Pairing /\ op[d].seen.epoch = meta.epoch => op[d].seen.fp = meta.fp
StampInv == \A d \in Devices : Stamped(d)

\* A commit leaves every other epoch behind.
LEMMA CommitStamps ==
  ASSUME IInv, NEW d \in Devices, WriteMeta(d)
  PROVE  StampInv'
<1>1. /\ meta'.epoch = meta.epoch + 1 /\ meta'.fp = Newest(d).new
      /\ pc[d] = "meta" /\ pc'[d] = "settings" /\ db' = db /\ jobs' = jobs
  BY MetaCommits DEF WriteMeta, Local, Goto, IInv, TypeOK
<1>2. SUFFICES ASSUME NEW e \in Devices PROVE Stamped(e)'
  BY DEF StampInv
<1>3. /\ db[e].epoch <= meta.epoch
      /\ pc[e] = "settings" => Newest(e).epoch + 1 <= meta.epoch
      /\ pc[e] \in Pairing => op[e].seen.epoch <= meta.epoch
  BY DEF IInv, DevInv, SyncInv, RunInv, PairInv
<1>4. /\ meta.epoch \in Nat /\ db[e].epoch \in Nat /\ op[e].seen.epoch \in Nat
  BY RotationAssumption DEF IInv, TypeOK, Meta, Db, Op, Epochs
<1>5. Newest(e)' = Newest(e) BY <1>1 DEF Newest
<1>6. db'[e].epoch # meta'.epoch BY <1>1, <1>3, <1>4
<1>7. CASE e = d
  BY <1>1, <1>5, <1>6, <1>7 DEF Stamped, Pairing
<1>8. CASE e # d
  <2>1. pc'[e] = pc[e] /\ op'[e] = op[e] BY <1>8, OthersStay DEF IInv, Same, Move, Step
  <2>2. pc[e] = "settings" => Newest(e).epoch + 1 # meta'.epoch
    BY <1>1, <1>3, <1>4
  <2>3. pc[e] \in Pairing => op[e].seen.epoch # meta'.epoch
    BY <1>1, <1>3, <1>4
  <2> QED BY <1>5, <1>6, <2>1, <2>2, <2>3 DEF Stamped
<1> QED BY <1>7, <1>8

\* The fingerprint changes only with the epoch.
LEMMA PrintsKept ==
  ASSUME IInv, NEW d \in Devices, Move(d), ~FinalizeSettings(d), ~PairIdentity(d)
  PROVE  db'[d].fp = db[d].fp
<1>0. TypeOK /\ db[d] \in Db BY DEF IInv, TypeOK
<1> USE DEF Local, Cloud
<1>1. CASE Step(d)
  <2>1. CASE CommitBoot(d) \/ Load(d) \/ CheckEpoch(d)
    BY <2>1 DEF CommitBoot, Load, CheckEpoch
  <2>2. CASE CommitSettings(d) \/ PairList(d)
    <3>1. \E l : db'[d] = [db[d] EXCEPT !.list = l]
      BY <1>0, <2>2 DEF CommitSettings, PairList, TypeOK
    <3> QED BY <1>0, <3>1 DEF Db
  <2>3. CASE WriteRecovery(d) \/ WriteContent(d) \/ WriteMeta(d)
    BY <2>3 DEF WriteRecovery, WriteContent, WriteMeta
  <2>4. CASE ClearStash(d) \/ MarkDone(d) \/ Return(d)
    BY <2>4 DEF ClearStash, MarkDone, Return
  <2>5. CASE PairBoot(d) \/ PairAdopt(d) \/ PairRecheck(d) \/ PairBump(d)
    BY <2>5 DEF PairBoot, PairAdopt, PairRecheck, PairBump
  <2>6. CASE PairClear(d)
    <3>1. db'[d] = [db[d] EXCEPT !.flag = FALSE] BY <1>0, <2>6 DEF PairClear, TypeOK
    <3> QED BY <1>0, <3>1 DEF Db
  <2>7. CASE PasswordBoot(d) \/ KeepOffline(d) \/ RecoverBoot(d)
    BY <2>7 DEF PasswordBoot, KeepOffline, RecoverBoot
  <2> QED BY <1>1, <2>1, <2>2, <2>3, <2>4, <2>5, <2>6, <2>7 DEF Step
<1>2. CASE Command(d)
  <2>1. CASE Rotate(d, "rotate") \/ Rotate(d, "reset")
    <3>1. db'[d] = [db[d] EXCEPT !.list.keys = Extended(@, minted + 1)]
      BY <1>0, <2>1 DEF Rotate, TypeOK
    <3> QED BY <1>0, <3>1 DEF Db
  <2>2. CASE ResumeFinalize(d) \/ Resume(d) \/ Unlock(d) \/ Lock(d) \/ RePair(d)
    BY <2>2 DEF ResumeFinalize, Resume, Unlock, Lock, RePair
  <2>3. CASE Detect(d) \/ Recheck(d) \/ ChangePassword(d) \/ Recover(d)
    <3>1. \/ \E b \in BOOLEAN : db'[d] = [db[d] EXCEPT !.flag = b]
          \/ \E p \in Passwords : db'[d] = [db[d] EXCEPT !.pw = p]
      BY <1>0, <2>3 DEF Detect, Recheck, ChangePassword, Recover, TypeOK
    <3> QED BY <1>0, <3>1 DEF Db
  <2> QED BY <1>2, <2>1, <2>2, <2>3 DEF Command
<1>3. CASE Fail(d) \/ (pc[d] \notin Pairing /\ Crash(d)) BY <1>3, FaultInv
<1> QED BY <1>1, <1>2, <1>3 DEF Move

\* Where a step that leaves _meta.json alone puts its device.
LEMMA StepPlaces ==
  ASSUME IInv, NEW d \in Devices, Move(d), ~WriteMeta(d)
  PROVE  /\ pc'[d] = "settings" /\ pc[d] # "settings" => ResumeFinalize(d)
         /\ pc'[d] \in Pairing => RePair(d) \/ (pc[d] \in Pairing /\ op'[d] = op[d])
<1>0. pc \in [Devices -> PCs] /\ op \in [Devices -> Op] BY DEF IInv, TypeOK
<1> USE DEF Goto, Stop, Begin, Pairing
<1>1. CASE Step(d)
  <2>1. CASE CommitBoot(d) \/ CommitSettings(d) \/ Load(d) \/ CheckEpoch(d)
    BY <1>0, <2>1 DEF CommitBoot, CommitSettings, Load, CheckEpoch
  <2>2. CASE WriteRecovery(d) \/ WriteContent(d) \/ FinalizeSettings(d)
    BY <1>0, <2>2 DEF WriteRecovery, WriteContent, FinalizeSettings
  <2>3. CASE ClearStash(d) \/ MarkDone(d) \/ Return(d)
    BY <1>0, <2>3 DEF ClearStash, MarkDone, Return
  <2>4. CASE PairIdentity(d) \/ PairList(d) \/ PairBoot(d) \/ PairAdopt(d)
    BY <1>0, <2>4 DEF PairIdentity, PairList, PairBoot, PairAdopt
  <2>5. CASE PairRecheck(d) \/ PairBump(d) \/ PairClear(d)
    BY <1>0, <2>5 DEF PairRecheck, PairBump, PairClear
  <2>6. CASE PasswordBoot(d) \/ KeepOffline(d) \/ RecoverBoot(d)
    BY <1>0, <2>6 DEF PasswordBoot, KeepOffline, RecoverBoot
  <2> QED BY <1>1, <2>1, <2>2, <2>3, <2>4, <2>5, <2>6 DEF Step
<1>2. CASE Command(d)
  <2>1. CASE Rotate(d, "rotate") \/ Rotate(d, "reset")
    BY <1>0, <2>1 DEF Rotate
  <2>2. CASE Resume(d) \/ RePair(d)
    BY <1>0, <2>2 DEF Resume, RePair, As
  <2>3. CASE ChangePassword(d) \/ Recover(d)
    BY <1>0, <2>3 DEF ChangePassword, Recover
  <2>4. CASE ResumeFinalize(d) BY <1>0, <2>4 DEF ResumeFinalize
  <2>5. CASE Unlock(d) \/ Lock(d) \/ Detect(d) \/ Recheck(d)
    <3>1. pc' = pc /\ op' = op BY <2>5 DEF Unlock, Lock, Detect, Recheck
    <3> QED BY <3>1
  <2> QED BY <1>2, <2>1, <2>2, <2>3, <2>4, <2>5 DEF Command
<1>3. CASE Fail(d) \/ Crash(d) BY <1>0, <1>3 DEF Fail, Crash
<1> QED BY <1>1, <1>2, <1>3 DEF Move

LEMMA MoveStamps ==
  ASSUME IInv, StampInv, NEW d \in Devices, Move(d), ~WriteMeta(d)
  PROVE  StampInv'
<1>0. TypeOK /\ Stamped(d) /\ PairInv(d) /\ meta' = meta
  BY CalmStep DEF IInv, DevInv, StampInv, Calm
<1>1. ASSUME NEW e \in Devices, e # d PROVE Stamped(e)'
  <2>1. Same(e) BY <1>0, <1>1, OthersStay
  <2>2. Newest(e)' = Newest(e) BY <2>1 DEF Same, Newest
  <2> QED BY <1>0, <2>1, <2>2 DEF Same, Stamped, StampInv
<1>2. CASE FinalizeSettings(d)
  <2>1. /\ pc[d] = "settings" /\ pc'[d] = "unstash"
        /\ db'[d].fp = Newest(d).new /\ db'[d].epoch = Newest(d).epoch + 1
    BY <1>0, <1>2 DEF FinalizeSettings, Goto, TypeOK, Db
  <2> QED BY <1>0, <1>1, <2>1 DEF Stamped, StampInv, Pairing
<1>3. CASE PairIdentity(d)
  <2>1. pc[d] = "identity" /\ pc'[d] = "list" /\ op' = op
    BY <1>0, <1>3 DEF PairIdentity, Goto, TypeOK
  <2>2. db'[d].epoch = op[d].seen.epoch /\ db'[d].fp = op[d].list.under
    BY <1>0, <1>3 DEF PairIdentity, TypeOK, Db
  <2>3. op[d].list.under = op[d].seen.fp BY <1>0, <2>1 DEF PairInv, Pairing
  <2> QED BY <1>0, <1>1, <2>1, <2>2, <2>3 DEF Stamped, StampInv, Pairing
<1>4. CASE ~FinalizeSettings(d) /\ ~PairIdentity(d)
  <2>1. db'[d].epoch = db[d].epoch /\ db'[d].fp = db[d].fp
    BY <1>4, EpochsKept, PrintsKept
  <2>2. jobs' = jobs \/ pc'[d] # "settings"
    <3>1. CASE pc[d] # "settings" BY <3>1, StepPlaces DEF ResumeFinalize, Local
    <3>2. CASE pc[d] = "settings"
      <4>1. Detect(d) \/ Crash(d)
        BY <1>4, <3>2 DEF Move, Step, CommitBoot, CommitSettings, Load, CheckEpoch,
           WriteRecovery, WriteContent, WriteMeta, ClearStash, MarkDone, Return, PairList,
           PairBoot, PairAdopt, PairRecheck, PairBump, PairClear, PasswordBoot, KeepOffline,
           RecoverBoot, Command, Rotate, ResumeFinalize, Resume, Unlock, Lock, Recheck,
           RePair, ChangePassword, Recover, Begin, Ready, Fail, Publishing, Uploading
      <4>2. CASE Detect(d) BY <4>2 DEF Detect
      <4>3. CASE Crash(d) BY <1>0, <4>3 DEF Crash, Stop, TypeOK
      <4> QED BY <4>1, <4>2, <4>3
    <3> QED BY <3>1, <3>2
  <2>3. ASSUME pc'[d] = "settings", Newest(d)'.epoch + 1 = meta.epoch
        PROVE  Newest(d)'.new = meta.fp
    <3>1. Newest(d)' = Newest(d) BY <2>2, <2>3 DEF Newest
    <3>2. CASE pc[d] = "settings" BY <1>0, <2>3, <3>1, <3>2 DEF Stamped
    <3>3. CASE ResumeFinalize(d) BY <3>1, <3>3 DEF ResumeFinalize, Published
    <3> QED BY <2>3, <3>2, <3>3, StepPlaces
  <2>4. ASSUME pc'[d] \in Pairing, op'[d].seen.epoch = meta.epoch
        PROVE  op'[d].seen.fp = meta.fp
    <3>1. CASE RePair(d) BY <1>0, <3>1 DEF RePair, Begin, TypeOK
    <3>2. CASE pc[d] \in Pairing /\ op'[d] = op[d]
      BY <1>0, <2>4, <3>2 DEF Stamped
    <3> QED BY <2>4, <3>1, <3>2, StepPlaces
  <2>5. Stamped(d)' BY <1>0, <2>1, <2>3, <2>4 DEF Stamped
  <2> QED BY <1>1, <2>5 DEF StampInv
<1> QED BY <1>2, <1>3, <1>4

LEMMA StampsAlways == Overlap = FALSE => (CoreSpec => []StampInv)
<1> SUFFICES ASSUME Overlap = FALSE PROVE CoreSpec => []StampInv OBVIOUS
<1>1. Init => StampInv BY DEF Init, Meta0, StampInv, Stamped, Pairing
<1>2. IInv /\ StampInv /\ [Core]_vars => StampInv'
  <2> SUFFICES ASSUME IInv, StampInv, [Core]_vars PROVE StampInv' OBVIOUS
  <2>1. CASE UNCHANGED vars BY <2>1 DEF vars, StampInv, Stamped, Newest
  <2>2. CASE Core BY <2>2, CoreMoves, CommitStamps, MoveStamps
  <2> QED BY <2>1, <2>2
<1>3. CoreSpec => []IInv BY RotationInvariant
<1> QED BY <1>1, <1>2, <1>3, PTL DEF CoreSpec

\* A device that may push and is not overtaken is settled, so what it holds in
\* memory are the keys of its settings and all of these are committed.
LEMMA StrayOvertaken == DeviceInv /\ StampInv => OnlyOvertakenPushStray
<1> SUFFICES ASSUME DeviceInv, StampInv, NEW d \in Devices, MayPush(d), ~Overtaken(d),
                    NEW m \in mem[d]
             PROVE  \E k \in m.keys : k.epoch = Latest(m.keys) /\ k \in Committed
  BY DEF OnlyOvertakenPushStray, PushKeyCommitted
<1>0. /\ TypeOK /\ SyncInv(d) /\ PairInv(d) /\ RunInv(d) /\ KindInv(d) /\ SettledInv(d)
      /\ Stamped(d)
  BY DEF DeviceInv, IInv, DevInv, OpenInv, PushInv, StampInv
<1>1. db[d].fp = meta.fp
  <2>1. db[d].epoch \in Nat /\ meta.epoch \in Nat
    BY <1>0, RotationAssumption DEF TypeOK, Db, Meta, Epochs
  <2> QED BY <1>0, <2>1 DEF SyncInv, Overtaken, Stamped
<1>2. jobs[d] = <<>> /\ ~db[d].flag /\ op[d].kind # "resume"
  BY DEF MayPush, Active
<1>3. pc[d] \notin Pairing BY <1>0, <1>2 DEF PairInv
<1>4. Settled(d) BY <1>1, <1>2 DEF Settled, Live, JobsOf
<1>5. /\ m.keys = db[d].list.keys
      /\ \A k \in db[d].list.keys : k.epoch <= meta.ce
  BY <1>0, <1>2, <1>3, <1>4 DEF SettledInv, Pairing
<1>6. Extends(db[d].list.keys) /\ HasLatest(db[d].list.keys)
  BY <1>0, <1>1, <1>3 DEF SyncInv, Listed, Pairing
<1>7. db[d].list.keys \in SUBSET Key BY <1>0 DEF TypeOK, Db, List
<1>8. PICK k \in db[d].list.keys : Latest(db[d].list.keys) = k.epoch BY <1>6, <1>7, LatestIsMax
<1>9. k \in Committed BY <1>5, <1>6 DEF Extends, Over
<1> QED BY <1>5, <1>8, <1>9

\* begin_push_entry compares nothing with the cloud.  It lets a device encrypt
\* with a key that the others cannot obtain only when a rotation has overtaken
\* it, so that its epoch is behind and the check of a cycle that reaches
\* _meta.json (check_force_re_pair_sync) raises the flag: at the epoch of the
\* cloud no rotation that was given up, resumed or cut short leaves a stray key.
THEOREM StrayPushesAreOvertaken == Overlap = FALSE => (CoreSpec => []OnlyOvertakenPushStray)
<1> SUFFICES ASSUME Overlap = FALSE PROVE CoreSpec => []OnlyOvertakenPushStray OBVIOUS
<1>1. CoreSpec => []DeviceInv BY DeviceInvariant
<1>2. CoreSpec => []StampInv BY StampsAlways
<1> QED BY <1>1, <1>2, StrayOvertaken, PTL

=============================================================================
