--------------------------- MODULE TrashRetention ---------------------------
(***************************************************************************)
(* The Trash retention sweep of one device, whose wall clock may be wrong. *)
(*                                                                         *)
(* An entry stays in Trash for Retention and is then purged for good, on   *)
(* every device.  Trash stamps are wall clock times, so a clock that jumps *)
(* ahead makes all of Trash look expired, and one that was behind leaves   *)
(* stamps that are already due once it is corrected.  The code bounds both *)
(* with a persisted watermark, the time of the last sweep, and a monotonic *)
(* clock that runs from the first sweep of a launch.                       *)
(*                                                                         *)
(* Time is in days.  EntrySync has the purge itself, its stamps and its    *)
(* propagation, and lets any entry of Trash be due.                        *)
(***************************************************************************)
EXTENDS Integers

CONSTANTS
  Entries,
  Retention,    \* TRASH_RETENTION_SECS
  MaxAdvance,   \* TRASH_SWEEP_MAX_ADVANCE_SECS
  MaxSkew,      \* MAX_CLOCK_SKEW_SECS
  Start, End,   \* bound: the real time runs from Start to End
  Offsets,      \* how far the wall clock may be off
  PeerStamps    \* trash and update stamps of entries that are pulled

ASSUME RetentionAssumption ==
  /\ {Retention, MaxAdvance, MaxSkew, Start, End} \subseteq Nat /\ Start <= End
  /\ Offsets \subseteq Int /\ 0 \in Offsets
  /\ \A o \in Offsets : Start + o > 0
  /\ PeerStamps \subseteq Nat

VARIABLES
  real,       \* the monotonic clock
  offset,     \* what the wall clock adds to it
  watermark,  \* the setting trash_sweep_last_run
  session,    \* SWEEP_SESSION: base and start of this launch's sweeps
  rows,       \* rows[e]: state of the entry, and its trashed_at
  since,      \* auxiliary: when and how e entered Trash
  owed        \* auxiliary: how long e must stay at least

vars == <<real, offset, watermark, session, rows, since, owed>>

-----------------------------------------------------------------------------

None == -1
NotThere == [at |-> Start, behind |-> FALSE, here |-> TRUE]
NoSession == [base |-> None, started |-> None]
Later(x, y)   == IF x >= y THEN x ELSE y
Earlier(x, y) == IF x <= y THEN x ELSE y

Now == real + offset
InTrash(e) == rows[e].st = "trash"
Row(st, at) == [st |-> st, at |-> at]

TypeOK ==
  /\ real \in Start..End
  /\ offset \in Offsets
  /\ watermark \in Nat \cup {None}
  /\ session \in [base : Nat, started : Start..real] \cup {NoSession}
  /\ rows \in [Entries -> [st : {"live", "trash", "swept", "purged"}, at : Nat]]
  /\ since \in [Entries -> [at : Start..real, behind : BOOLEAN, here : BOOLEAN]]
  /\ owed \in [Entries -> Nat]

Init ==
  /\ real = Start
  /\ offset \in Offsets
  /\ watermark = None
  /\ session = NoSession
  /\ rows = [e \in Entries |-> Row("live", 0)]
  /\ since = [e \in Entries |-> NotThere]
  /\ owed = [e \in Entries |-> 0]

\* An entry enters Trash, here or by a pull, while the clock is behind or not.
Entered(here) == [at |-> real, behind |-> offset < 0, here |-> here]

-----------------------------------------------------------------------------
(* The user, and a pull. *)

\* A day passes, also while the machine sleeps.
Tick ==
  /\ real < End
  /\ real' = real + 1
  /\ owed' = [e \in Entries |-> Later(owed[e] - 1, 0)]
  /\ UNCHANGED <<offset, watermark, session, rows, since>>

\* The wall clock is set, by the user, by NTP, or by a dead battery.
SetClock ==
  /\ offset' \in Offsets \ {offset}
  /\ UNCHANGED <<real, watermark, session, rows, since, owed>>

\* Mutant: the trash stamp has no floor.
TrashedAtWall == Now

\* The stamp of a local trash.
TrashStamp == IF watermark = None THEN Now ELSE Later(Now, watermark - MaxSkew)

\* What this launch's sweeps have advanced on their own since the first.
Elapsed == IF session = NoSession THEN 0 ELSE real - session.started

\* soft_delete_entry_at.
Trash(e) ==
  /\ rows[e].st = "live"
  /\ watermark' = IF watermark = None THEN Now ELSE watermark
  /\ rows' = [rows EXCEPT ![e] = Row("trash", TrashStamp)]
  /\ since' = [since EXCEPT ![e] = Entered(TRUE)]
  /\ owed' = [owed EXCEPT ![e] = Later(Retention - MaxSkew - MaxAdvance - Elapsed, 0)]
  /\ UNCHANGED <<real, offset, session>>

\* Out of Trash, or purged by hand; also when a pull brings a peer's.
Leave(e, st) ==
  /\ InTrash(e)
  /\ rows' = [rows EXCEPT ![e] = Row(st, 0)]
  /\ since' = [since EXCEPT ![e] = NotThere]
  /\ owed' = [owed EXCEPT ![e] = 0]
  /\ UNCHANGED <<real, offset, watermark, session>>

\* clamp_peer_trashed_at.
Clamp(trashed, updated) ==
  LET hi == Now + MaxSkew
      lo == Later(Earlier(updated, hi) - MaxSkew, 0)
  IN  Earlier(Later(trashed, lo), hi)

\* The row stays as long in local Trash as it was going to.
Keeps(e, trashed) == InTrash(e) /\ trashed >= rows[e].at

\* Mutant: a merged stamp has no floor.
NotFloored(e, trashed) == trashed

\* The floor under a stamp that enters Trash by a merge.
Floored(e, trashed) ==
  IF Keeps(e, trashed) THEN trashed ELSE Later(trashed, Now - MaxSkew)

\* A pull merges a trashed entry whose stamp wins; it may revive a purged one.
PullTrash(e, trashed, updated) ==
  /\ LET at == Clamp(trashed, updated) IN
       /\ rows' = [rows EXCEPT ![e] = Row("trash", Floored(e, at))]
       /\ IF Keeps(e, at) THEN UNCHANGED <<since, owed>>
          ELSE /\ since' = [since EXCEPT ![e] = Entered(FALSE)]
               /\ owed' = [owed EXCEPT ![e] = 0]
  /\ UNCHANGED <<real, offset, watermark, session>>

-----------------------------------------------------------------------------
(* The sweep, at the unlock of an app that does not sync, or after a pull. *)

\* Mutant: a session starts at the wall clock.
SessionByWall(base) == IF session = NoSession THEN [base |-> base, started |-> Now] ELSE session

\* A launch's first sweep opens its session, at the monotonic clock.
SessionAt(base) == IF session = NoSession THEN [base |-> base, started |-> real] ELSE session

\* The first sweep ever purges nothing.
Seed ==
  /\ watermark = None
  /\ watermark' = Now
  /\ session' = SessionAt(Now)
  /\ UNCHANGED <<real, offset, rows, since, owed>>

\* Mutant: a launch grants nothing beyond the time that elapsed.
ReachElapsed(s) == s.base + (real - s.started)

\* How far a sweep of session s may go.
Reach(s) == s.base + MaxAdvance + (real - s.started)
SweepAt(s) == Earlier(Now, Reach(s))

Due(e, at) == InTrash(e) /\ rows[e].at <= at - Retention

\* purge_expired_trash_in_session.
Sweep ==
  /\ watermark # None
  /\ session' = SessionAt(watermark)
  /\ LET at == SweepAt(SessionAt(watermark)) IN
       /\ watermark' = Later(watermark, at)
       /\ rows' = [e \in Entries |-> IF Due(e, at) THEN Row("swept", 0) ELSE rows[e]]
       /\ since' = [e \in Entries |-> IF Due(e, at) THEN NotThere ELSE since[e]]
       /\ owed' = [e \in Entries |-> IF Due(e, at) THEN 0 ELSE owed[e]]
  /\ UNCHANGED <<real, offset>>

\* The process ends; the next launch takes a base of its own.
Quit ==
  /\ session # NoSession
  /\ session' = NoSession
  /\ owed' = [e \in Entries |-> Later(owed[e] - MaxAdvance, 0)]
  /\ UNCHANGED <<real, offset, watermark, rows, since>>

-----------------------------------------------------------------------------

User(e) == Trash(e) \/ \E st \in {"live", "purged"} : Leave(e, st)
Pull(e) == \E t, u \in PeerStamps : t <= u /\ PullTrash(e, t, u)

Next ==
  \/ Tick \/ SetClock \/ Seed \/ Sweep \/ Quit
  \/ \E e \in Entries : User(e) \/ Pull(e)

Spec == Init /\ [][Next]_vars

\* The app is relaunched from time to time, and sweeps; nothing else is fair.
FairSpec == Spec /\ WF_vars(Seed \/ Sweep) /\ WF_vars(Quit)

-----------------------------------------------------------------------------
(* Properties. *)

Swept(e) == InTrash(e) /\ rows'[e].st = "swept"

\* Whatever the clock does, an entry trashed here is not swept before the
\* retention, less the skew and a day for every launch, has really passed
\* since the first sweep of the launch that trashed it.
LocalTrashIsKept == [][\A e \in Entries : Swept(e) => owed[e] = 0]_vars

\* An entry that entered Trash, here or by a pull, while the clock was not
\* behind, and is swept while it is not ahead, was there for the retention
\* less the skew: no stamp of a peer shortens it.
RightClocksKeepAll ==
  [][\A e \in Entries :
       Swept(e) /\ ~since[e].behind /\ offset <= 0
         => real - since[e].at >= Retention - MaxSkew]_vars

\* An entry trashed here is not due at once when a clock that was behind is
\* corrected (entries.rs:500).  It may be, when nothing was swept for long.
CorrectedClockKeepsLocal ==
  [][\A e \in Entries : Swept(e) /\ offset = 0 /\ since[e].here => real > since[e].at]_vars

\* Nor is one a peer trashed (engine.rs:6070).  It is, when the clock was
\* behind at the pull: its floor is the wrong clock, not the watermark.
CorrectedClockKeepsPulled ==
  [][\A e \in Entries : Swept(e) /\ offset = 0 /\ ~since[e].here => real > since[e].at]_vars

\* An entry is not kept for ever: when its time has come, by a clock that
\* stays there, launches catch up with it, a day at a time.
DueIsSwept ==
  \A e \in Entries :
    InTrash(e) /\ rows[e].at <= Now - Retention ~> ~InTrash(e) \/ rows[e].at > Now - Retention

=============================================================================
