-------------------------- MODULE SyncSchedulerProofs --------------------------
(***************************************************************************)
(* Theorems about SyncScheduler, for any intervals, windows and clocks.    *)
(***************************************************************************)
EXTENDS SyncScheduler, TLAPS

-----------------------------------------------------------------------------
(* Constants, ages and rests. *)

LEMMA Constants ==
  /\ Interval \in Nat /\ Debounce \in Nat /\ Base \in Nat /\ Cooldown \in Nat /\ MaxBackoff \in Nat
  /\ Gap \in Nat /\ Cap \in Nat /\ MaxFaults \in Nat /\ MaxSetBacks \in Nat /\ MaxOthers \in Nat
  /\ Base >= 1 /\ Cooldown >= 1
  /\ Steps \subseteq Int
BY SchedulerAssumption

LEMMA CapBounds == Cooldown <= Cap /\ Base <= Cap /\ 1 <= Cap
<1>1. \A age \in {Debounce, Interval, Cooldown, Base, 1} : age - MaxSetBacks * 0 <= Cap
  BY SchedulerAssumption
<1>2. MaxSetBacks * 0 = 0 BY Constants
<1>3. \A age \in {Cooldown, Base, 1} : age - 0 <= Cap BY <1>1, <1>2
<1> QED BY <1>3, Constants

USE Constants

LEMMA AgedType ==
  ASSUME NEW a \in Int, NEW d \in Int
  PROVE  Aged(a, d) \in Int /\ Aged(a, d) <= Cap
BY DEF Aged, Least

LEMMA LeftType ==
  ASSUME NEW w \in Int, NEW d \in Int
  PROVE  Left(w, d) \in Int /\ Left(w, d) >= w - d
BY DEF Left

LEMMA RealType ==
  ASSUME NEW d \in Int
  PROVE  Real(d) \in Nat /\ Real(d) >= d /\ Real(d) >= 1
BY DEF Real

LEMMA WindowType ==
  ASSUME NEW n \in 1..MaxFaults
  PROVE  Window(n) \in Int /\ Window(n) >= Base
<1>1. Window(n) >= Base BY DoublingAssumption
<1>2. 2^(n - 1) \in Int
  <2>1. n - 1 \in Nat OBVIOUS
  <2> QED BY <2>1
<1>3. Base * 2^(n - 1) \in Int
  <2> DEFINE x == 2^(n - 1)
  <2>1. x \in Int BY <1>2
  <2> HIDE DEF x
  <2>2. Base * x \in Int BY <2>1
  <2> QED BY <2>2 DEF x
<1> QED BY <1>1, <1>3 DEF Window, Least

\* What the loop makes of its cursor is a cursor.
Cursor == [failures : 0..MaxFaults, window : Int, kick : Int]

LEMMA FreshType ==
  /\ Fresh \in Cursor /\ Fresh.failures = 0
  /\ NoFires \in [last : 0..Cap, before : 0..Cap]
BY CapBounds DEF Fresh, Cursor, NoFires

LEMMA CursorType ==
  ASSUME TypeOK, NEW d \in Steps
  PROVE  /\ Drifted(d) \in Cursor /\ Woken(d) \in Cursor /\ Kicked(d) \in Cursor
         /\ Hold(Kicked(d)) \in Cursor
         /\ Kicked(d).failures \in {0, retry.failures}
<1>1. retry \in Cursor /\ d \in Int BY DEF TypeOK, TimesOK, Cursor
<1>2. Left(retry.window, d) \in Int /\ Aged(retry.kick, d) \in Int
  BY <1>1, LeftType, AgedType DEF Cursor
<1>3. Drifted(d) \in Cursor /\ Drifted(d).failures = retry.failures
  BY <1>1, <1>2 DEF Drifted, Cursor
<1>4. Fresh \in Cursor /\ Fresh.failures = 0 BY FreshType
<1>5. Reset(d) \in Cursor /\ Reset(d).failures \in {0, retry.failures}
  BY <1>3, <1>4 DEF Reset
<1>6. \A r \in Cursor : DropWindow(r) \in Cursor /\ DropWindow(r).failures = r.failures
  BY CapBounds DEF DropWindow, Cursor
<1>7. Woken(d) \in Cursor /\ Woken(d).failures \in {0, retry.failures}
  BY <1>5, <1>6 DEF Woken
<1>8. Kicked(d) \in Cursor /\ Kicked(d).failures \in {0, retry.failures}
  <2>1. DropWindow(Woken(d)) \in Cursor /\ DropWindow(Woken(d)).failures = Woken(d).failures
    BY <1>6, <1>7
  <2> QED BY <2>1, <1>7 DEF Kicked, Cursor
<1>9. Hold(Kicked(d)) \in Cursor BY <1>8 DEF Hold, Cursor
<1> QED BY <1>3, <1>7, <1>8, <1>9

LEMMA RowType ==
  ASSUME TypeOK, NEW d \in Steps
  PROVE  /\ Older(fires, d) \in [last : 0..Cap, before : 0..Cap]
         /\ Row(d) \in [last : 0..Cap, before : 0..Cap]
BY CapBounds DEF TypeOK, TimesOK, Older, Row, NoFires, Aged, Least, Real

-----------------------------------------------------------------------------
(* Types. *)

\* Every failure that is counted, or about to be, used up one of the bounded ones.
Counted ==
  /\ retry.failures <= faults
  /\ outcome = "failed" => retry.failures + 1 <= faults

TypeInv == TypeOK /\ Counted

LEMMA TypeInit == Init => TypeInv
<1> SUFFICES ASSUME Init PROVE TypeInv OBVIOUS
<1>1. retry \in Cursor /\ retry.failures = 0 /\ fires \in [last : 0..Cap, before : 0..Cap]
  BY FreshType DEF Init
<1>2. TimesOK BY <1>1, CapBounds DEF Init, TimesOK, Cursor
<1>3. MarksOK BY DEF Init, MarksOK
<1>4. SlotOK BY DEF Init, SlotOK
<1>5. Counted BY <1>1 DEF Init, Counted
<1> QED BY <1>2, <1>3, <1>4, <1>5 DEF TypeInv, TypeOK

\* The times, step by step.
LEMMA TimesStep == TypeInv /\ [Next]_vars => TimesOK' /\ Counted'
<1> SUFFICES ASSUME TypeInv, [Next]_vars PROVE TimesOK' /\ Counted' OBVIOUS
<1>0. TypeOK /\ TimesOK /\ Counted BY DEF TypeInv, TypeOK
<1>t. \A d \in Steps : Aged(quiet, d) \in Int /\ Aged(quiet, d) <= Cap
                      /\ Aged(synced, d) \in Int /\ Aged(synced, d) <= Cap
  BY <1>0, AgedType DEF TimesOK
<1>1. CASE UNCHANGED vars BY <1>0, <1>1 DEF vars, clock, row, loop, TimesOK, Counted
<1>2. ASSUME NEW d \in Steps, Tick(d) PROVE TimesOK' /\ Counted'
  <2>1. /\ Kicked(d) \in Cursor /\ Hold(Kicked(d)) \in Cursor
        /\ Kicked(d).failures \in {0, retry.failures}
    BY <1>0, CursorType
  <2>2. Hold(Kicked(d)).failures = Kicked(d).failures BY <2>1 DEF Hold, Cursor
  <2>3. Row(d) \in [last : 0..Cap, before : 0..Cap] BY <1>0, RowType
  <2>4. retry' \in Cursor /\ retry'.failures \in {0, retry.failures}
    BY <1>2, <2>1, <2>2 DEF Tick
  <2>5. fires' \in [last : 0..Cap, before : 0..Cap]
    BY <1>2, <2>3, CapBounds DEF Tick
  <2>6. outcome' \in {"idle", "running"} BY <1>2 DEF Tick
  <2>7. setBacks' \in 0..MaxSetBacks BY <1>2, <1>0 DEF Tick, SetBack, TimesOK
  <2>8. /\ quiet' = Aged(quiet, d) /\ synced' = Aged(synced, d)
        /\ faults' = faults /\ others' = others
    BY <1>2 DEF Tick
  <2>9. Counted' BY <1>0, <2>4, <2>6, <2>8 DEF Counted, TimesOK
  <2> QED BY <1>0, <1>t, <2>4, <2>5, <2>7, <2>8, <2>9 DEF TimesOK, Cursor
<1>3. CASE Report
  <2>1. retry' \in Cursor /\ retry'.failures <= faults
    <3>1. CASE outcome = "ok" BY <1>0, <1>3, <3>1, FreshType DEF Report, TimesOK
    <3>2. CASE outcome = "locked" BY <1>0, <1>3, <3>2 DEF Report, Cursor, TimesOK, Counted
    <3>3. CASE outcome = "failed"
      <4>1. retry.failures + 1 \in 1..MaxFaults BY <1>0, <3>3 DEF TimesOK, Counted
      <4>2. Window(retry.failures + 1) \in Int BY <4>1, WindowType
      <4>3. retry' = [[retry EXCEPT !.failures = retry.failures + 1] EXCEPT
                       !.window = Window(retry.failures + 1)]
        BY <1>3, <3>3 DEF Report
      <4>4. retry.failures + 1 <= faults BY <1>0, <3>3 DEF Counted
      <4>5. retry \in Cursor BY <1>0 DEF TimesOK, Cursor
      <4>6. retry.failures + 1 \in 0..MaxFaults BY <4>1
      <4> QED BY <4>2, <4>3, <4>4, <4>5, <4>6 DEF Cursor
    <3> QED BY <1>3, <3>1, <3>2, <3>3 DEF Report
  <2>2. fires' \in [last : 0..Cap, before : 0..Cap] BY <1>0, <1>3, FreshType DEF Report, TimesOK
  <2>3. /\ outcome' = "idle"
        /\ UNCHANGED <<quiet, synced, faults, setBacks, others>>
    BY <1>3 DEF Report, clock
  <2> QED BY <1>0, <2>1, <2>2, <2>3 DEF TimesOK, Counted, Cursor
<1>4. CASE Cycle
  BY <1>0, <1>4, CapBounds DEF Cycle, Push, LockedOut, Finish, Fail, Running, Release, Stamp,
              TypeOK, TimesOK, SlotOK, Counted, clock, row
<1>5. ASSUME NEW d \in Steps, Elapse(d) PROVE TimesOK' /\ Counted'
  <2>1. Drifted(d) \in Cursor /\ Drifted(d).failures = retry.failures
    BY <1>0, CursorType DEF Drifted, TimesOK
  <2>2. Older(fires, d) \in [last : 0..Cap, before : 0..Cap] BY <1>0, RowType
  <2>3. setBacks' \in 0..MaxSetBacks BY <1>5, <1>0 DEF Elapse, SetBack, TimesOK
  <2>4. /\ retry' = Drifted(d) /\ fires' = Older(fires, d)
        /\ quiet' = Aged(quiet, d) /\ synced' = Aged(synced, d)
        /\ UNCHANGED <<outcome, faults, others>>
    BY <1>5 DEF Elapse
  <2> QED BY <1>0, <1>t, <2>1, <2>2, <2>3, <2>4 DEF TimesOK, Counted, Cursor
<1>6. CASE SyncNow \/ Write \/ Focus \/ Lock \/ Give
  BY <1>0, <1>6 DEF SyncNow, Write, Focus, Lock, Give, TimesOK, Counted, clock, row, loop
<1>7. CASE Edit \/ Take
  BY <1>0, <1>7, CapBounds DEF Edit, Take, TimesOK, Counted, clock, loop
<1> QED BY <1>1, <1>2, <1>3, <1>4, <1>5, <1>6, <1>7 DEF Next, Wake

LEMMA MarksStep == TypeInv /\ [Next]_vars => MarksOK'
<1> SUFFICES ASSUME MarksOK, TimesOK, [Next]_vars PROVE MarksOK' BY DEF TypeInv, TypeOK
<1> USE DEF MarksOK
<1>1. CASE UNCHANGED vars BY <1>1 DEF vars, clock, row, loop
<1>2. ASSUME NEW d \in Steps, Tick(d) PROVE MarksOK' BY <1>2 DEF Tick, row
<1>3. CASE Report BY <1>3 DEF Report, clock, row
<1>s. Stamp => newer' \in BOOLEAN
  <2>1. (quiet < 0) \in BOOLEAN OBVIOUS
  <2> HIDE DEF MarksOK
  <2> QED BY <2>1 DEF Stamp
<1>4. CASE Cycle
  <2>1. newer' \in BOOLEAN
    BY <1>4, <1>s DEF Cycle, Push, LockedOut, Finish, Fail, clock
  <2>2. pending' \in BOOLEAN /\ unsaved' \in BOOLEAN
    BY <1>4 DEF Cycle, Push, LockedOut, Finish, Fail, row
  <2> QED BY <1>4, <2>1, <2>2 DEF Cycle, Push, LockedOut, Finish, Fail
<1>5. ASSUME NEW d \in Steps, Elapse(d) PROVE MarksOK' BY <1>5 DEF Elapse, row
<1>6. CASE SyncNow BY <1>6 DEF SyncNow, clock, row, loop
<1>7. CASE Edit BY <1>7 DEF Edit, TimesOK, loop
<1>8. CASE Write \/ Focus \/ Lock \/ Take \/ Give
  BY <1>8 DEF Write, Focus, Lock, Take, Give, clock, row, loop
<1> QED BY <1>1, <1>2, <1>3, <1>4, <1>5, <1>6, <1>7, <1>8 DEF Next, Wake

LEMMA SlotStep == TypeInv /\ [Next]_vars => SlotOK'
<1> SUFFICES ASSUME SlotOK, MarksOK, [Next]_vars PROVE SlotOK' BY DEF TypeInv, TypeOK
<1> USE DEF SlotOK
<1>1. CASE UNCHANGED vars BY <1>1 DEF vars, clock, row, loop
<1>2. ASSUME NEW d \in Steps, Tick(d) PROVE SlotOK' BY <1>2 DEF Tick, row
<1>3. CASE Report BY <1>3 DEF Report, row
<1>4. CASE Cycle
  BY <1>4 DEF Cycle, Push, LockedOut, Finish, Fail, Running, Release, MarksOK, clock, row
<1>5. ASSUME NEW d \in Steps, Elapse(d) PROVE SlotOK' BY <1>5 DEF Elapse, row
<1>6. CASE SyncNow BY <1>6 DEF SyncNow, row, loop
<1>7. CASE Edit \/ Write BY <1>7 DEF Edit, Write, loop
<1>8. CASE Focus \/ Lock \/ Take \/ Give
  BY <1>8 DEF Focus, Lock, Take, Give, row, loop
<1> QED BY <1>1, <1>2, <1>3, <1>4, <1>5, <1>6, <1>7, <1>8 DEF Next, Wake

LEMMA TypeStep == TypeInv /\ [Next]_vars => TypeInv'
BY TimesStep, MarksStep, SlotStep DEF TypeInv, TypeOK

\* The scheduler's state is well-formed: who holds the slot and what the loop
\* waits for agree, and no more failures are counted than there were.
THEOREM TypeCorrect == Spec => []TypeOK
<1>1. TypeInv => TypeOK BY DEF TypeInv
<1> QED BY <1>1, TypeInit, TypeStep, PTL DEF Spec

-----------------------------------------------------------------------------
(* "Sync now". *)

\* From the tick that sees the click to the loop's next cycle the loop is idle
\* with a clean streak.
Unblocked == stale /\ ~flags.reset => retry.failures = 0 /\ outcome = "idle"

LEMMA UnblockedInit == Init => Unblocked
BY DEF Init, Unblocked

LEMMA UnblockedStep == TypeInv /\ Unblocked /\ [Next]_vars => Unblocked'
<1> SUFFICES ASSUME TypeInv, Unblocked, [Next]_vars PROVE Unblocked' OBVIOUS
<1>0. TypeOK /\ SlotOK /\ TimesOK /\ MarksOK BY DEF TypeInv, TypeOK
<1> USE DEF Unblocked
<1>1. CASE UNCHANGED vars BY <1>1 DEF vars, loop
<1>2. ASSUME NEW d \in Steps, Tick(d) PROVE Unblocked'
  <2>1. /\ Kicked(d) \in Cursor /\ Kicked(d).failures \in {0, retry.failures}
    BY <1>0, CursorType
  <2>2. Hold(Kicked(d)).failures = Kicked(d).failures BY <2>1 DEF Hold, Cursor
  <2>3. flags.reset => Kicked(d).failures = 0
    BY CapBounds DEF Kicked, Woken, Reset, Fresh, DropWindow
  <2>4. retry'.failures = Kicked(d).failures BY <1>2, <2>2 DEF Tick
  <2>5. CASE ~stale' BY <2>5
  <2>6. CASE stale'
    <3>1. outcome' = "idle" /\ stale BY <1>2, <2>6 DEF Tick
    <3>2. CASE flags.reset BY <3>1, <3>2, <2>3, <2>4
    <3>3. CASE ~flags.reset BY <3>1, <3>3, <2>1, <2>4
    <3> QED BY <3>2, <3>3
  <2> QED BY <2>5, <2>6
<1>3. CASE Report BY <1>3 DEF Report
<1>4. CASE Cycle
  <2>1. UNCHANGED <<stale, flags, retry>> BY <1>4 DEF Cycle, Push, LockedOut, Finish, Fail
  <2>2. slot # "auto" => outcome' = outcome
    BY <1>4 DEF Cycle, Push, LockedOut, Finish, Fail, Release
  <2>3. outcome = "idle" => slot # "auto" BY <1>0 DEF SlotOK
  <2> QED BY <2>1, <2>2, <2>3
<1>5. ASSUME NEW d \in Steps, Elapse(d) PROVE Unblocked'
  <2>1. outcome # "idle" /\ UNCHANGED <<stale, flags>> BY <1>5 DEF Elapse
  <2> QED BY <2>1
<1>6. CASE SyncNow BY <1>6, <1>0 DEF SyncNow, SlotOK
<1>7. CASE Edit \/ Write \/ Focus \/ Lock \/ Take \/ Give
  <2>1. UNCHANGED <<stale, retry, outcome>> /\ flags'.reset = flags.reset
    BY <1>7, <1>0 DEF Edit, Write, Focus, Lock, Take, Give, loop, MarksOK
  <2> QED BY <2>1
<1> QED BY <1>1, <1>2, <1>3, <1>4, <1>5, <1>6, <1>7 DEF Next, Wake

\* After "Sync now" nothing is left of earlier failures, however the click
\* falls between the end of a failing cycle and the loop's hearing of it.
THEOREM SyncNowAlwaysUnblocks == Spec => []SyncNowUnblocks
<1>1. Unblocked => SyncNowUnblocks BY DEF Unblocked, SyncNowUnblocks
<1> QED BY <1>1, TypeInit, TypeStep, UnblockedInit, UnblockedStep, PTL DEF Spec

-----------------------------------------------------------------------------
(* Focus churn. *)

Pause == Least(Cooldown, Base)

LEMMA PauseType == Pause \in Nat /\ Pause <= Cooldown /\ Pause <= Base /\ Pause <= Cap
BY CapBounds DEF Pause, Least

\* Ages of cycles come in order, and before its first wake the loop has none.
Ordered ==
  /\ fires.last <= fires.before
  /\ ~launched => outcome = "idle" /\ fires = NoFires

\* If a failing cycle began less than a pause ago, the window it opened is
\* still open, or a kick has ended it; then the kick is more recent than it,
\* and the cycle before it is a pause ago.  A kick is more recent than the
\* cycle before the last, or that is a pause ago.
KickedOnce ==
  /\ fires.before < Pause => retry.kick <= fires.before
  /\ outcome = "idle" /\ fires.last < Pause
       => \/ retry.window >= Base - fires.last
          \/ fires.before >= Pause /\ retry.kick <= fires.last

ChurnInv == Ordered /\ KickedOnce

\* When the loop wakes, before it applies a kick.
Awake(d) ==
  /\ Row(d).last <= Row(d).before
  /\ Row(d).before < Pause => Woken(d).kick <= Row(d).before
  /\ Row(d).last < Pause
       => \/ Woken(d).window >= Base - Row(d).last
          \/ Row(d).before >= Pause /\ Woken(d).kick <= Row(d).last

LEMMA OlderKeeps ==
  ASSUME TypeInv, ChurnInv, NEW d \in Steps
  PROVE  /\ Older(fires, d).last <= Older(fires, d).before
         /\ Older(fires, d).before < Pause => Drifted(d).kick <= Older(fires, d).before
         /\ Older(fires, d).last < Pause => fires.last < Pause
         /\ Older(fires, d).last < Pause /\ retry.window >= Base - fires.last
              => Drifted(d).window >= Base - Older(fires, d).last
         /\ Older(fires, d).last < Pause /\ retry.kick <= fires.last
              => Drifted(d).kick <= Older(fires, d).last
         /\ fires.before >= Pause => Older(fires, d).before >= Pause
<1> DEFINE r == Real(d)
<1>1. d \in Int /\ r \in Nat /\ r >= d /\ r >= 1 BY RealType
<1>2. /\ fires.last \in 0..Cap /\ fires.before \in 0..Cap
      /\ retry.kick \in Int /\ retry.window \in Int
  BY DEF TypeInv, TypeOK, TimesOK
<1>3. /\ Older(fires, d).last = Aged(fires.last, r)
      /\ Older(fires, d).before = Aged(fires.before, r)
  BY DEF Older
<1>4. Drifted(d).kick = Aged(retry.kick, d) /\ Drifted(d).window = Left(retry.window, d)
  BY DEF Drifted, TypeInv, TypeOK, TimesOK
<1>5. Left(retry.window, d) >= retry.window - d BY <1>1, <1>2, LeftType
<1>6. /\ fires.last <= fires.before
      /\ fires.before < Pause => retry.kick <= fires.before
  BY DEF ChurnInv, Ordered, KickedOnce
<1> HIDE DEF r
<1>7. Left(retry.window, d) \in Int BY <1>1, <1>2, LeftType
<1> QED BY <1>1, <1>2, <1>3, <1>4, <1>5, <1>6, <1>7, PauseType DEF Aged, Least

LEMMA AwakeHolds ==
  ASSUME TypeInv, ChurnInv, outcome = "idle", NEW d \in Steps
  PROVE  Awake(d)
<1>1. CASE flags.reset \/ Slept(d)
  <2>1. Row(d) = NoFires BY <1>1 DEF Row
  <2>2. Row(d).last = Cap /\ Row(d).before = Cap BY <2>1 DEF NoFires
  <2> QED BY <2>2, PauseType DEF Awake
<1>2. CASE ~flags.reset /\ ~Slept(d)
  <2>1. Row(d) = Older(fires, d) /\ Woken(d) = Drifted(d) BY <1>2 DEF Row, Woken, Reset
  <2>2. fires.last < Pause
          => \/ retry.window >= Base - fires.last
             \/ fires.before >= Pause /\ retry.kick <= fires.last
    BY DEF ChurnInv, KickedOnce
  <2> QED BY <2>1, <2>2, OlderKeeps DEF Awake
<1> QED BY <1>1, <1>2

\* What a kick makes of it: it ends a window only if the cycle before the last
\* is a pause ago.
LEMMA KickedHolds ==
  ASSUME TypeInv, NEW d \in Steps, Awake(d)
  PROVE  /\ Row(d).before < Pause => Kicked(d).kick <= Row(d).before
         /\ Row(d).last < Pause
              => \/ Kicked(d).window >= Base - Row(d).last /\ Open(Kicked(d).window)
                 \/ Row(d).before >= Pause /\ Kicked(d).kick <= Row(d).last
<1>1. Woken(d) \in Cursor BY CursorType DEF TypeInv
<1>2. Row(d) \in [last : 0..Cap, before : 0..Cap] BY RowType DEF TypeInv
<1>3. CASE flags.kick /\ Cooled(Woken(d))
  <2>1. Kicked(d).kick = 0 BY <1>1, <1>3 DEF Kicked, DropWindow, Cursor
  <2>2. Woken(d).kick >= Cooldown BY <1>3 DEF Cooled
  <2>3. Row(d).before >= Pause BY <1>1, <1>2, <2>2, PauseType DEF Awake, Cursor
  <2> QED BY <1>2, <2>1, <2>3
<1>4. CASE ~(flags.kick /\ Cooled(Woken(d)))
  <2>1. Kicked(d) = Woken(d) BY <1>4 DEF Kicked
  <2> QED BY <1>1, <1>2, <2>1, PauseType DEF Awake, Open, Cursor
<1> QED BY <1>3, <1>4

LEMMA ChurnInit == Init => ChurnInv
<1> SUFFICES ASSUME Init PROVE ChurnInv OBVIOUS
<1>1. fires.last = Cap /\ fires.before = Cap BY DEF Init, NoFires
<1> QED BY <1>1, PauseType DEF Init, ChurnInv, Ordered, KickedOnce

\* A wake that starts a cycle has the pause behind it.
LEMMA TickPauses ==
  ASSUME TypeInv, ChurnInv, NEW d \in Steps, Tick(d), slot' = "auto"
  PROVE  Row(d).before >= Pause
<1>1. outcome = "idle" /\ slot # "auto" BY DEF Tick, TypeInv, TypeOK, SlotOK
<1>2. Fires(d) BY <1>1 DEF Tick
<1>3. Row(d) \in [last : 0..Cap, before : 0..Cap] BY RowType DEF TypeInv
<1>4. CASE Launch
  <2>1. fires = NoFires BY <1>4 DEF Launch, ChurnInv, Ordered
  <2>2. d \in Int /\ Real(d) \in Nat BY RealType
  <2>3. Aged(fires.before, Real(d)) = Cap
    BY <2>1, <2>2 DEF NoFires, Aged, Least
  <2>4. Row(d).before = Cap BY <2>3 DEF Row, Older, NoFires
  <2> QED BY <2>4, PauseType
<1>5. CASE ~Open(Kicked(d).window)
  <2>1. Awake(d) BY <1>1, AwakeHolds
  <2>2. Row(d).last < Pause => Row(d).before >= Pause BY <1>5, <2>1, KickedHolds
  <2> QED BY <1>3, <2>1, <2>2, PauseType DEF Awake
<1> QED BY <1>2, <1>4, <1>5 DEF Fires

LEMMA ChurnStep == TypeInv /\ ChurnInv /\ [Next]_vars => ChurnInv'
<1> SUFFICES ASSUME TypeInv, ChurnInv, [Next]_vars PROVE ChurnInv' OBVIOUS
<1>0. /\ TypeOK /\ TimesOK /\ SlotOK /\ Ordered /\ KickedOnce
      /\ fires.last \in 0..Cap /\ fires.before \in 0..Cap
  BY DEF TypeInv, TypeOK, ChurnInv, TimesOK
<1>k. ASSUME UNCHANGED <<fires, retry, launched>>, outcome' = "idle" => outcome = "idle",
             outcome = "idle" => outcome' = "idle"
      PROVE  ChurnInv'
  BY <1>k, <1>0 DEF ChurnInv, Ordered, KickedOnce
<1>1. CASE UNCHANGED vars BY <1>1, <1>k DEF vars, loop
<1>2. ASSUME NEW d \in Steps, Tick(d) PROVE ChurnInv'
  <2>1. outcome = "idle" /\ launched' BY <1>2 DEF Tick
  <2>2. Awake(d) BY <2>1, AwakeHolds
  <2>3. /\ Row(d).before < Pause => Kicked(d).kick <= Row(d).before
        /\ Row(d).last < Pause
             => \/ Kicked(d).window >= Base - Row(d).last /\ Open(Kicked(d).window)
                \/ Row(d).before >= Pause /\ Kicked(d).kick <= Row(d).last
    BY <2>2, KickedHolds
  <2>4. /\ Row(d) \in [last : 0..Cap, before : 0..Cap] /\ Kicked(d) \in Cursor
        /\ Row(d).last <= Row(d).before
    BY <1>0, <2>2, RowType, CursorType DEF Awake
  <2>5. CASE retry' = Kicked(d) /\ fires' = Row(d)
    BY <2>1, <2>3, <2>4, <2>5 DEF ChurnInv, Ordered, KickedOnce
  <2>6. CASE Fires(d) /\ slot # "free" /\ retry' = Hold(Kicked(d)) /\ fires' = Row(d)
    <3>1. retry'.kick = Kicked(d).kick BY <2>4, <2>6 DEF Hold, Cursor
    <3>2. CASE Launch
      <4>1. fires = NoFires BY <3>2 DEF Launch, ChurnInv, Ordered
      <4>2. d \in Int /\ Real(d) \in Nat BY RealType
      <4>3. Aged(fires.last, Real(d)) = Cap BY <4>1, <4>2 DEF NoFires, Aged, Least
      <4>4. Row(d).last = Cap BY <4>3 DEF Row, Older, NoFires
      <4> QED BY <2>1, <2>3, <2>4, <2>6, <3>1, <4>4, PauseType DEF ChurnInv, Ordered, KickedOnce
    <3>3. CASE ~Open(Kicked(d).window)
      BY <2>1, <2>3, <2>4, <2>6, <3>1, <3>3 DEF ChurnInv, Ordered, KickedOnce
    <3> QED BY <2>6, <3>2, <3>3 DEF Fires
  <2>7. CASE /\ Fires(d) /\ retry' = Kicked(d) /\ fires' = [last |-> 0, before |-> Row(d).last]
             /\ outcome' = "running"
    <3>1. fires'.last = 0 /\ fires'.before = Row(d).last BY <2>7
    <3>2. Row(d).last < Pause => Kicked(d).kick <= Row(d).last
      <4>1. CASE Launch
        <5>1. fires = NoFires BY <4>1 DEF Launch, ChurnInv, Ordered
        <5>2. d \in Int /\ Real(d) \in Nat BY RealType
        <5>3. Aged(fires.last, Real(d)) = Cap BY <5>1, <5>2 DEF NoFires, Aged, Least
        <5>4. Row(d).last = Cap BY <5>3 DEF Row, Older, NoFires
        <5> QED BY <5>4, PauseType
      <4>2. CASE ~Open(Kicked(d).window) BY <2>3, <4>2
      <4> QED BY <2>7, <4>1, <4>2 DEF Fires
    <3> QED BY <2>1, <2>4, <2>7, <3>1, <3>2 DEF ChurnInv, Ordered, KickedOnce
  <2> QED BY <1>2, <2>5, <2>6, <2>7 DEF Tick
<1>3. CASE Report
  <2>1. outcome' = "idle" /\ launched' = launched /\ launched
    BY <1>3, <1>0 DEF Report, Ordered, TypeOK, MarksOK
  <2>2. CASE fires' = NoFires
    <3>1. fires'.last = Cap /\ fires'.before = Cap BY <2>2 DEF NoFires
    <3> QED BY <2>1, <3>1, PauseType DEF ChurnInv, Ordered, KickedOnce
  <2>3. CASE outcome = "failed"
    <3>1. retry.failures + 1 \in 1..MaxFaults
      BY <1>0, <2>3 DEF TypeInv, Counted, TimesOK
    <3>2. Window(retry.failures + 1) \in Int /\ Window(retry.failures + 1) >= Base
      BY <3>1, WindowType
    <3>3. /\ retry' = [[retry EXCEPT !.failures = retry.failures + 1] EXCEPT
                        !.window = Window(retry.failures + 1)]
          /\ fires' = fires
      BY <1>3, <2>3 DEF Report
    <3>4. retry'.window = Window(retry.failures + 1) /\ retry'.kick = retry.kick
      BY <1>0, <3>3 DEF TimesOK
    <3> QED BY <1>0, <2>1, <3>2, <3>3, <3>4 DEF ChurnInv, Ordered, KickedOnce
  <2> QED BY <1>3, <2>2, <2>3 DEF Report
<1>4. CASE Cycle
  <2>1. UNCHANGED <<fires, retry, launched>> BY <1>4 DEF Cycle, Push, LockedOut, Finish, Fail
  <2>2. outcome' = outcome \/ (outcome = "running" /\ outcome' \in {"ok", "failed", "locked"})
    BY <1>4, <1>0 DEF Cycle, Push, LockedOut, Finish, Fail, Release, SlotOK
  <2> QED BY <1>k, <2>1, <2>2
<1>5. ASSUME NEW d \in Steps, Elapse(d) PROVE ChurnInv'
  <2>1. /\ retry' = Drifted(d) /\ fires' = Older(fires, d)
        /\ outcome # "idle" /\ outcome' = outcome /\ launched' = launched
    BY <1>5 DEF Elapse
  <2> QED BY <1>0, <2>1, OlderKeeps DEF ChurnInv, Ordered, KickedOnce
<1>6. CASE SyncNow \/ Edit \/ Write \/ Focus \/ Lock \/ Take \/ Give
  <2>1. UNCHANGED <<fires, retry, launched, outcome>>
    BY <1>6 DEF SyncNow, Edit, Write, Focus, Lock, Take, Give, loop
  <2> QED BY <1>k, <2>1
<1> QED BY <1>1, <1>2, <1>3, <1>4, <1>5, <1>6 DEF Next, Wake

\* The focus of a window can start a cycle early once, but of three failing
\* cycles in a row the last begins a cooldown, or a first window, after the
\* first: the loop does not fall back to a request every tick.
THEOREM FocusCannotChurn == Spec => NoChurn
<1>1. TypeInv /\ ChurnInv /\ [Next]_vars
        => [\A d \in Steps : Tick(d) /\ slot' = "auto"
              => Row(d).before >= Least(Cooldown, Base)]_vars
  BY TickPauses DEF Pause
<1> QED BY <1>1, TypeInit, TypeStep, ChurnInit, ChurnStep, PTL DEF Spec, NoChurn

=============================================================================
