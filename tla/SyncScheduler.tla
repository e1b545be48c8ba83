---------------------------- MODULE SyncScheduler ----------------------------
(***************************************************************************)
(* When a device starts a sync cycle by itself.                            *)
(*                                                                         *)
(* A background loop wakes every tick and starts a cycle at launch, some   *)
(* time after the last edit, and when the last cycle is an interval ago.   *)
(* A failed cycle opens a backoff window in which the loop stays quiet;    *)
(* window focus, waking from sleep and the button "Sync now" end it.  Only *)
(* one cycle runs at a time: the button, a rotation or a recovery may hold *)
(* the slot when the loop wants it.                                        *)
(*                                                                         *)
(* EntrySync has what a cycle does, and assumes what is checked here, that *)
(* cycles start again.  Every time is kept as its distance from the wall   *)
(* clock, in ticks, so that the time of a run is not bounded: the age of   *)
(* what has happened, the time left of what has not.  An age of Cap is     *)
(* "long ago or never", a rest of -Cap "long over or never set".           *)
(***************************************************************************)
EXTENDS Integers

CONSTANTS
  Interval,    \* sync_interval_minutes
  Debounce,    \* DEBOUNCE_WINDOW
  Base,        \* ERROR_BACKOFF_MS
  MaxBackoff,  \* ERROR_BACKOFF_MAX_MS
  Cooldown,    \* KICK_COOLDOWN_MS
  Gap,         \* SLEEP_GAP_MS
  Steps,       \* what the wall clock may advance by in a tick; below 1 when set back
  OnSave,      \* the setting sync_on_save
  OnLaunch,    \* the setting sync_on_launch
  Cap,         \* bound: ages and rests are told apart up to it
  MaxFaults,   \* bound: failed cycles
  MaxSetBacks, \* bound: how often the clock is set back
  MaxOthers    \* bound: other uses of the slot

ASSUME SchedulerAssumption ==
  /\ {Interval, Debounce, Base, MaxBackoff, Cooldown} \subseteq Nat \ {0}
  /\ {Gap, Cap, MaxFaults, MaxSetBacks, MaxOthers} \subseteq Nat
  /\ Base <= MaxBackoff
  /\ Steps \subseteq Int /\ 1 \in Steps
  /\ \A d \in Steps \cup {0} : \A age \in {Debounce, Interval, Cooldown, Base, 1} :
        age - MaxSetBacks * d <= Cap
  /\ {OnSave, OnLaunch} \subseteq BOOLEAN

VARIABLES
  quiet,    \* age of the last edit (LastEditState)
  synced,   \* age of the last clean cycle (last_sync_at)
  newer,    \* the last edit is stamped after the last clean cycle
  pending,  \* some entry is not published
  unsaved,  \* auxiliary: the last edit is not published
  retry,    \* RetryState: failures, time left of the window, age of the last kick
  flags,    \* retry_kick and retry_reset
  launched, \* on_launch_done
  slot,     \* who holds SyncInProgressGuard
  cycle,    \* step of the cycle in the slot
  outcome,  \* what the loop waits for, or how its cycle ended
  locked,   \* the keys are not in memory
  fires,    \* auxiliary: ages of the last two cycles of the loop in a row of failures
  stale,    \* auxiliary: a window opened before the last "Sync now"
  faults, setBacks, others

clock == <<quiet, synced, newer>>
row   == <<pending, unsaved>>
loop  == <<retry, launched, outcome, fires>>
vars  == <<clock, row, loop, flags, slot, cycle, locked, stale, faults, setBacks, others>>

-----------------------------------------------------------------------------

Least(x, y) == IF x <= y THEN x ELSE y

\* An age, and a rest, after the clock moved by d.
Aged(a, d) == Least(a + d, Cap)
Left(w, d) == IF w - d >= -Cap THEN w - d ELSE -Cap

Open(window) == window > 0

Fresh == [failures |-> 0, window |-> -Cap, kick |-> Cap]
NoFires == [last |-> Cap, before |-> Cap]

TimesOK ==
  /\ quiet \in Int /\ synced \in Int
  /\ quiet <= Cap /\ synced <= Cap
  /\ retry \in [failures : 0..MaxFaults, window : Int, kick : Int]
  /\ fires \in [last : 0..Cap, before : 0..Cap]
  /\ faults \in 0..MaxFaults /\ setBacks \in 0..MaxSetBacks /\ others \in 0..MaxOthers

MarksOK ==
  /\ newer \in BOOLEAN /\ pending \in BOOLEAN /\ unsaved \in BOOLEAN
  /\ launched \in BOOLEAN /\ locked \in BOOLEAN /\ stale \in BOOLEAN
  /\ flags \in [kick : BOOLEAN, reset : BOOLEAN]

\* The loop waits exactly while its cycle has the slot; an edit that is not
\* published is pending.
SlotOK ==
  /\ slot \in {"free", "auto", "manual", "other"}
  /\ cycle \in {"start", "pushed"}
  /\ outcome \in {"idle", "running", "ok", "failed", "locked"}
  /\ slot = "auto" <=> outcome = "running"
  /\ unsaved => pending

TypeOK == TimesOK /\ MarksOK /\ SlotOK

Init ==
  /\ quiet = Cap
  /\ synced \in {0, Cap}
  /\ newer = FALSE
  /\ pending \in BOOLEAN
  /\ unsaved = FALSE
  /\ retry = Fresh
  /\ flags = [kick |-> FALSE, reset |-> FALSE]
  /\ launched = FALSE
  /\ slot = "free" /\ cycle = "start" /\ outcome = "idle"
  /\ locked = TRUE
  /\ fires = NoFires
  /\ stale = FALSE
  /\ faults = 0 /\ setBacks = 0 /\ others = 0

-----------------------------------------------------------------------------
(* The loop. *)

SetBack(d) ==
  /\ d < 1 => setBacks < MaxSetBacks
  /\ setBacks' = setBacks + IF d < 1 THEN 1 ELSE 0

Slept(d) == d > 1 + Gap

\* What the flags and a sleep make of the cursor when the loop wakes.
DropWindow(r) == [r EXCEPT !.window = -Cap]
\* Mutant: a kick is always honoured.
AlwaysCooled(r) == TRUE
Cooled(r) == r.kick >= Cooldown

Drifted(d) == [retry EXCEPT !.window = Left(@, d), !.kick = Aged(@, d)]
Reset(d)   == IF flags.reset THEN Fresh ELSE Drifted(d)
Woken(d)   == IF Slept(d) THEN DropWindow(Reset(d)) ELSE Reset(d)
Kicked(d)  ==
  IF flags.kick /\ Cooled(Woken(d)) THEN [DropWindow(Woken(d)) EXCEPT !.kick = 0] ELSE Woken(d)

\* The rules, at the time it is after a step of d.
Launch == ~launched /\ OnLaunch
DebounceFires(d) == OnSave /\ pending /\ newer /\ Aged(quiet, d) >= Debounce
\* Mutant: the interval is only for those who do not sync on save.
DueUnlessOnSave(d) == ~OnSave /\ Aged(synced, d) >= Interval
IntervalDue(d) == Aged(synced, d) >= Interval

Fires(d) == Launch \/ (~Open(Kicked(d).window) /\ (DebounceFires(d) \/ IntervalDue(d)))

\* The slot is taken: stay quiet for the next tick.
Hold(r) == [r EXCEPT !.window = 2]

\* The time that really passes while the clock moves by d.
Real(d) == IF d < 1 THEN 1 ELSE d
Older(f, d) == [last |-> Aged(f.last, Real(d)), before |-> Aged(f.before, Real(d))]

\* A row of failures ends when the machine sleeps or the user intervenes.
Row(d) == IF flags.reset \/ Slept(d) THEN NoFires ELSE Older(fires, d)

Tick(d) ==
  /\ outcome = "idle"
  /\ SetBack(d)
  /\ quiet' = Aged(quiet, d) /\ synced' = Aged(synced, d)
  /\ flags' = [kick |-> FALSE, reset |-> FALSE]
  /\ launched' = TRUE
  /\ \/ /\ ~Fires(d)
        /\ retry' = Kicked(d) /\ fires' = Row(d)
        /\ UNCHANGED <<slot, cycle, outcome, stale>>
     \/ /\ Fires(d) /\ slot # "free"
        /\ retry' = Hold(Kicked(d)) /\ fires' = Row(d)
        /\ UNCHANGED <<slot, cycle, outcome, stale>>
     \/ /\ Fires(d) /\ slot = "free"
        /\ retry' = Kicked(d) /\ fires' = [last |-> 0, before |-> Row(d).last]
        /\ slot' = "auto" /\ cycle' = "start" /\ outcome' = "running"
        /\ stale' = FALSE
  /\ UNCHANGED <<newer, row, locked, faults, others>>

\* Time passes while the loop waits for its cycle.
Elapse(d) ==
  /\ outcome # "idle"
  /\ SetBack(d)
  /\ quiet' = Aged(quiet, d) /\ synced' = Aged(synced, d)
  /\ retry' = Drifted(d) /\ fires' = Older(fires, d)
  /\ UNCHANGED <<newer, row, launched, outcome, flags, slot, cycle, locked, stale, faults, others>>

\* N failures in a row open a window of Base * 2^(N-1), capped.
Window(n) == Least(Base * 2^(n - 1), MaxBackoff)

\* Arithmetic that the provers have no induction for.
ASSUME DoublingAssumption == \A n \in 1..MaxFaults : Window(n) >= Base

\* The cycle has left the slot; the loop learns how it ended.
Report ==
  /\ outcome \in {"ok", "failed", "locked"}
  /\ \/ outcome = "ok" /\ retry' = Fresh /\ fires' = NoFires
     \/ outcome = "locked" /\ fires' = NoFires /\ UNCHANGED retry
     \/ /\ outcome = "failed"
        /\ retry' = [retry EXCEPT !.failures = @ + 1, !.window = Window(retry.failures + 1)]
        /\ UNCHANGED fires
  /\ outcome' = "idle"
  /\ UNCHANGED <<clock, row, launched, flags, slot, cycle, locked, stale, faults, setBacks, others>>

-----------------------------------------------------------------------------
(* A cycle, of the loop or of the user. *)

Running == slot \in {"auto", "manual"}

Release(how) ==
  /\ slot' = "free"
  /\ outcome' = IF slot = "auto" THEN how ELSE outcome

\* The keys are copied, and the push half publishes the pending entries.
Push ==
  /\ Running /\ cycle = "start" /\ ~locked
  /\ cycle' = "pushed"
  /\ pending' = FALSE /\ unsaved' = FALSE
  /\ UNCHANGED <<clock, retry, launched, outcome, fires, flags, slot, locked, stale, faults,
                 setBacks, others>>

\* There are no keys to copy.
LockedOut ==
  /\ Running /\ cycle = "start" /\ locked
  /\ Release("locked")
  /\ UNCHANGED <<clock, row, retry, launched, fires, flags, cycle, locked, stale, faults,
                 setBacks, others>>

\* A clean cycle stamps last_sync_at with the time of its end, in seconds.
Stamp ==
  /\ synced' = 0
  /\ newer' \in IF quiet = 0 THEN BOOLEAN ELSE {quiet < 0}
  /\ UNCHANGED quiet

\* The cycle ends well; if the web brought entries, it has pushed once more.
Finish ==
  /\ Running /\ cycle = "pushed"
  /\ Stamp
  /\ UNCHANGED row \/ (pending' = FALSE /\ unsaved' = FALSE)
  /\ Release("ok")
  /\ UNCHANGED <<retry, launched, fires, flags, cycle, locked, stale, faults, setBacks, others>>

\* A half fails; or both end well and that last push fails.
Fail ==
  /\ Running /\ faults < MaxFaults
  /\ faults' = faults + 1
  /\ \/ UNCHANGED <<clock, row>>
     \/ cycle = "pushed" /\ Stamp /\ pending' = TRUE /\ UNCHANGED unsaved
  /\ Release("failed")
  /\ UNCHANGED <<retry, launched, fires, flags, cycle, locked, stale, setBacks, others>>

-----------------------------------------------------------------------------
(* The user, and who else takes the slot. *)

\* Mutant: the backoff is reset by the click, not by the loop's next tick.
SyncNowAtClick ==
  /\ slot = "free"
  /\ retry' = Fresh
  /\ stale' = TRUE
  /\ slot' = "manual" /\ cycle' = "start"
  /\ UNCHANGED <<clock, row, launched, outcome, fires, flags, locked, faults, setBacks, others>>

\* "Sync now" waits for the slot, then resets the backoff and runs a cycle.
SyncNow ==
  /\ slot = "free"
  /\ flags' = [flags EXCEPT !.reset = TRUE]
  /\ stale' = TRUE
  /\ slot' = "manual" /\ cycle' = "start"
  /\ UNCHANGED <<clock, row, loop, locked, faults, setBacks, others>>

\* save_entry_content, the only write that stamps LastEditState.
Edit ==
  /\ ~locked
  /\ pending' = TRUE /\ unsaved' = TRUE
  /\ quiet' = 0
  /\ newer' = (synced >= 0)
  /\ UNCHANGED <<synced, loop, flags, slot, cycle, locked, stale, faults, setBacks, others>>

\* Any other write of an entry.
Write ==
  /\ ~locked /\ ~pending
  /\ pending' = TRUE
  /\ UNCHANGED <<clock, unsaved, loop, flags, slot, cycle, locked, stale, faults, setBacks, others>>

Focus ==
  /\ flags' = [flags EXCEPT !.kick = TRUE]
  /\ UNCHANGED <<clock, row, loop, slot, cycle, locked, stale, faults, setBacks, others>>

Lock ==
  /\ locked' = ~locked
  /\ UNCHANGED <<clock, row, loop, flags, slot, cycle, stale, faults, setBacks, others>>

\* Mutant: it does not look whether the slot is free.
TakeAnyway ==
  /\ others < MaxOthers
  /\ slot' = "other" /\ others' = others + 1
  /\ UNCHANGED <<clock, row, loop, flags, cycle, locked, stale, faults, setBacks>>

\* A rotation, a recovery, a disconnect.
Take ==
  /\ slot = "free" /\ others < MaxOthers
  /\ slot' = "other" /\ others' = others + 1
  /\ UNCHANGED <<clock, row, loop, flags, cycle, locked, stale, faults, setBacks>>

Give ==
  /\ slot = "other"
  /\ slot' = "free"
  /\ UNCHANGED <<clock, row, loop, flags, cycle, locked, stale, faults, setBacks, others>>

-----------------------------------------------------------------------------

Wake == \E d \in Steps : Tick(d)
Cycle == Push \/ LockedOut \/ Finish \/ Fail

Next ==
  \/ Wake \/ Report \/ Cycle
  \/ \E d \in Steps : Elapse(d)
  \/ SyncNow \/ Edit \/ Write \/ Focus \/ Lock \/ Take \/ Give

Spec == Init /\ [][Next]_vars

\* The loop's timer goes off, cycles end (the stall guard), and whoever takes
\* the slot leaves it.
FairSpec == Spec /\ WF_vars(Wake) /\ WF_vars(Report) /\ WF_vars(Cycle) /\ WF_vars(Give)

-----------------------------------------------------------------------------
(* Properties. *)

\* However often the window gains focus, of three cycles in a row that fail
\* the last starts no sooner than a cooldown, or the first window, after the
\* first (scheduler.rs:118).
NoChurn ==
  [][\A d \in Steps : Tick(d) /\ slot' = "auto"
       => Row(d).before >= Least(Cooldown, Base)]_vars

\* Once the loop has seen a "Sync now", nothing is left of the failures from
\* before it, not even of a cycle that failed before the click and was
\* reported after it (scheduler.rs:324).
SyncNowUnblocks == stale /\ ~flags.reset => retry.failures = 0

\* The on-save rule passes over an edit only if a cycle has published it
\* (scheduler.rs:562).  It does not: a cycle stamps its end, and an edit made
\* after its push is older than that.
SkippedMeansCovered == OnSave /\ ~newer => ~unsaved

\* What is pending is published, unless the app is locked, without anyone
\* pressing a button, as long as failures and clock changes end.
PendingGoesOut == pending ~> ~pending \/ locked

=============================================================================
