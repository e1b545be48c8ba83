------------------------ MODULE TrashRetentionProofs ------------------------
(***************************************************************************)
(* Theorems about TrashRetention, for any entries, periods, clock errors   *)
(* and stamps of peers.                                                    *)
(***************************************************************************)
EXTENDS TrashRetention, TLAPS

USE RetentionAssumption

-----------------------------------------------------------------------------
(* Types. *)

LEMMA LaterEarlier ==
  \A x, y \in Int :
    /\ Later(x, y) \in {x, y} /\ Later(x, y) >= x /\ Later(x, y) >= y
    /\ Earlier(x, y) \in {x, y} /\ Earlier(x, y) <= x /\ Earlier(x, y) <= y
BY DEF Later, Earlier

\* The wall clock stays after 1970.
LEMMA NowNat == TypeOK => Now \in Nat
BY DEF TypeOK, Now

\* A pulled stamp is a time.
LEMMA ClampNat ==
  ASSUME TypeOK, NEW t \in Nat, NEW u \in Nat
  PROVE  Clamp(t, u) \in Nat
BY NowNat DEF Clamp, Later, Earlier

\* What is recorded of an entry that enters Trash.
LEMMA EnteredFields ==
  ASSUME TypeOK, NEW here \in BOOLEAN
  PROVE  /\ Entered(here) \in [at : Start..real, behind : BOOLEAN, here : BOOLEAN]
         /\ Entered(here).at = real
         /\ ~Entered(here).behind => offset >= 0
<1>1. Entered(here).behind <=> offset < 0 BY DEF Entered
<1>2. offset \in Int BY DEF TypeOK
<1>3. Entered(here).at = real BY DEF Entered
<1>4. real \in Start..real BY DEF TypeOK
<1> QED BY <1>1, <1>2, <1>3, <1>4 DEF Entered

LEMMA TypeInit == Init => TypeOK
BY DEF Init, TypeOK, None, NoSession, NotThere, Row

LEMMA TypeStep == TypeOK /\ [Next]_vars => TypeOK'
<1> SUFFICES ASSUME TypeOK, [Next]_vars PROVE TypeOK' OBVIOUS
<1>0. Now \in Nat BY NowNat
<1> USE DEF TypeOK
<1>1. CASE UNCHANGED vars BY <1>1 DEF vars
<1>2. CASE Tick BY <1>2 DEF Tick, Later
<1>3. CASE SetClock BY <1>3 DEF SetClock
<1>4. CASE Seed
  <2>1. session' \in [base : Nat, started : Start..real]
    BY <1>4, <1>0 DEF Seed, SessionAt, NoSession, None
  <2> QED BY <1>4, <1>0, <2>1 DEF Seed
<1>5. CASE Sweep
  <2> DEFINE at == SweepAt(SessionAt(watermark))
  <2>1. watermark \in Nat /\ session' \in [base : Nat, started : Start..real]
    BY <1>5 DEF Sweep, SessionAt, NoSession, None
  <2>2. at \in Int BY <1>0, <2>1, <1>5 DEF Sweep, SweepAt, Reach, Earlier
  <2>3. watermark' \in Nat BY <1>5, <2>1, <2>2 DEF Sweep, Later
  <2> HIDE DEF at
  <2>4. rows' \in [Entries -> [st : {"live", "trash", "swept", "purged"}, at : Nat]]
    BY <1>5 DEF Sweep, Row, at
  <2>5. /\ since' \in [Entries -> [at : Start..real, behind : BOOLEAN, here : BOOLEAN]]
        /\ owed' \in [Entries -> Nat]
    BY <1>5 DEF Sweep, NotThere, at
  <2> QED BY <1>5, <2>1, <2>3, <2>4, <2>5 DEF Sweep
<1>6. CASE Quit BY <1>6 DEF Quit, Later
<1>7. ASSUME NEW e \in Entries, Trash(e) PROVE TypeOK'
  <2>1. TrashStamp \in Nat BY <1>0 DEF TrashStamp, Later, None
  <2>2. Elapsed \in Int BY DEF Elapsed, NoSession
  <2> QED BY <1>7, <1>0, <2>1, <2>2 DEF Trash, Row, Entered, Later
<1>8. ASSUME NEW e \in Entries, NEW st \in {"live", "purged"}, Leave(e, st) PROVE TypeOK'
  BY <1>8 DEF Leave, Row, NotThere
<1>9. ASSUME NEW e \in Entries, NEW t \in PeerStamps, NEW u \in PeerStamps, PullTrash(e, t, u)
      PROVE TypeOK'
  <2>1. Clamp(t, u) \in Nat BY ClampNat
  <2>2. Floored(e, Clamp(t, u)) \in Nat BY <1>0, <2>1 DEF Floored, Later
  <2> HIDE DEF TypeOK
  <2>3. rows' \in [Entries -> [st : {"live", "trash", "swept", "purged"}, at : Nat]]
    BY <1>9, <2>2 DEF PullTrash, Row, TypeOK
  <2>4. /\ since' \in [Entries -> [at : Start..real, behind : BOOLEAN, here : BOOLEAN]]
        /\ owed' \in [Entries -> Nat]
    <3>1. Entered(FALSE) \in [at : Start..real, behind : BOOLEAN, here : BOOLEAN]
      BY EnteredFields
    <3>2. since' \in {since, [since EXCEPT ![e] = Entered(FALSE)]}
          /\ owed' \in {owed, [owed EXCEPT ![e] = 0]}
      BY <1>9 DEF PullTrash
    <3>3. since' \in [Entries -> [at : Start..real, behind : BOOLEAN, here : BOOLEAN]]
      BY <3>1, <3>2 DEF TypeOK
    <3>4. owed' \in [Entries -> Nat] BY <3>2 DEF TypeOK
    <3> QED BY <3>3, <3>4
  <2> QED BY <1>9, <2>3, <2>4 DEF PullTrash, TypeOK
<1> QED BY <1>1, <1>2, <1>3, <1>4, <1>5, <1>6, <1>7, <1>8, <1>9 DEF Next, User, Pull

\* Every variable keeps its type.
THEOREM TypeCorrect == Spec => []TypeOK
BY TypeInit, TypeStep, PTL DEF Spec

-----------------------------------------------------------------------------
(* How far the sweeps of this launch, and of the next, may go. *)

Frontier == IF session = NoSession THEN watermark + MaxAdvance ELSE Reach(session)

\* A session starts at the watermark, which never passes what it may reach.
Paced ==
  session # NoSession =>
    watermark # None /\ session.base <= watermark /\ watermark <= Reach(session)

\* What is owed to an entry lies between the frontier and its end.
OwedInv ==
  \A e \in Entries :
    InTrash(e) /\ owed[e] > 0 =>
      watermark # None /\ rows[e].at + Retention >= Frontier + owed[e]

\* A clock that is not behind leaves a stamp that is at most the skew early.
SinceInv ==
  \A e \in Entries :
    InTrash(e) /\ ~since[e].behind => rows[e].at >= since[e].at - MaxSkew

IInv == TypeOK /\ Paced /\ OwedInv /\ SinceInv

LEMMA IInit == Init => IInv
BY TypeInit DEF Init, IInv, Paced, OwedInv, SinceInv, InTrash, Row, NoSession, None

LEMMA IStep == IInv /\ [Next]_vars => IInv'
<1> SUFFICES ASSUME IInv, [Next]_vars PROVE Paced' /\ OwedInv' /\ SinceInv'
  BY TypeStep DEF IInv
<1>0. TypeOK /\ Now \in Nat BY NowNat DEF IInv
<1>1. CASE UNCHANGED vars
  BY <1>1 DEF IInv, vars, Paced, OwedInv, SinceInv, InTrash, Frontier, Reach
<1>2. CASE Tick
  <2>1. session # NoSession => Reach(session)' = Reach(session) + 1
    BY <1>0, <1>2 DEF Tick, Reach, TypeOK, NoSession
  <2>2. Paced' BY <1>0, <1>2, <2>1 DEF IInv, Tick, Paced, TypeOK, Reach
  <2>3. OwedInv'
    <3> SUFFICES ASSUME NEW e \in Entries, InTrash(e)', owed'[e] > 0
                 PROVE  watermark' # None /\ rows'[e].at + Retention >= Frontier' + owed'[e]
      BY DEF OwedInv
    <3>1. owed[e] > 0 /\ owed'[e] = owed[e] - 1 /\ InTrash(e)
      BY <1>0, <1>2 DEF Tick, Later, TypeOK, InTrash
    <3>2. Frontier' <= Frontier + 1 BY <1>0, <1>2, <2>1, <3>1 DEF Tick, Frontier, IInv, OwedInv, TypeOK, Reach
    <3>3. Frontier \in Int BY <1>0, <3>1 DEF IInv, OwedInv, Frontier, Reach, TypeOK, NoSession, None
    <3>4. Frontier' \in Int BY <1>0, <1>2, <2>1, <3>3 DEF Tick, Frontier, TypeOK
    <3> QED BY <1>0, <1>2, <3>1, <3>2, <3>3, <3>4 DEF IInv, OwedInv, Tick, TypeOK
  <2>4. SinceInv' BY <1>2 DEF IInv, Tick, SinceInv, InTrash
  <2> QED BY <2>2, <2>3, <2>4
<1>3. CASE SetClock
  BY <1>3 DEF IInv, SetClock, Paced, OwedInv, SinceInv, InTrash, Frontier, Reach
<1>4. CASE Seed
  <2>1. session = NoSession BY <1>4 DEF Seed, IInv, Paced
  <2>2. session' = [base |-> Now, started |-> real] BY <1>4, <2>1 DEF Seed, SessionAt
  <2>3. Paced' BY <1>0, <1>4, <2>2 DEF Seed, Paced, Reach, TypeOK, None
  <2>4. \A e \in Entries : InTrash(e)' => ~(owed'[e] > 0)
    BY <1>4 DEF Seed, IInv, OwedInv, InTrash
  <2>5. SinceInv' BY <1>4 DEF IInv, Seed, SinceInv, InTrash
  <2> QED BY <2>3, <2>4, <2>5 DEF OwedInv
<1>5. CASE Sweep
  <2> DEFINE at == SweepAt(SessionAt(watermark))
  <2>1. watermark \in Nat BY <1>0, <1>5 DEF Sweep, TypeOK
  <2>2. /\ session' \in [base : Nat, started : Start..real]
        /\ session' # NoSession
        /\ session'.base <= watermark /\ watermark <= Reach(session)'
        /\ Frontier' = Frontier /\ Frontier = Reach(session')
    <3>1. CASE session = NoSession
      <4>1. session' = [base |-> watermark, started |-> real] /\ real' = real
        BY <1>5, <3>1 DEF Sweep, SessionAt
      <4>2. session' # NoSession BY <2>1, <4>1 DEF NoSession, None
      <4>3. Reach(session)' = watermark + MaxAdvance /\ Reach(session') = watermark + MaxAdvance
        BY <1>0, <2>1, <4>1 DEF Reach, TypeOK
      <4> QED BY <1>0, <2>1, <3>1, <4>1, <4>2, <4>3 DEF Frontier, TypeOK
    <3>2. CASE session # NoSession
      <4>1. session' = session /\ real' = real BY <1>5, <3>2 DEF Sweep, SessionAt
      <4> QED BY <1>0, <2>1, <3>2, <4>1 DEF Frontier, TypeOK, IInv, Paced, Reach
    <3> QED BY <3>1, <3>2
  <2>3. at \in Int /\ at <= Reach(session)'
    BY <1>0, <1>5, <2>2 DEF Sweep, SweepAt, Earlier, Reach, TypeOK
  <2>4. watermark' = Later(watermark, at) BY <1>5 DEF Sweep
  <2>5. Reach(session)' \in Int BY <1>0, <1>5, <2>2 DEF Reach, TypeOK, Sweep
  <2>6. Paced' BY <2>1, <2>2, <2>3, <2>4, <2>5 DEF Paced, Later, None
  <2>7. \A e \in Entries : InTrash(e)' =>
          InTrash(e) /\ rows'[e] = rows[e] /\ owed'[e] = owed[e] /\ since'[e] = since[e]
    BY <1>5 DEF Sweep, InTrash, Row
  <2>8. watermark' # None BY <2>1, <2>3, <2>4 DEF Later, None
  <2>9. OwedInv' BY <2>2, <2>7, <2>8 DEF IInv, OwedInv
  <2>10. SinceInv' BY <2>7 DEF IInv, SinceInv
  <2> QED BY <2>6, <2>9, <2>10
<1>6. CASE Quit
  <2>1. watermark \in Nat /\ Frontier = Reach(session) /\ watermark <= Frontier /\ Frontier \in Int
    BY <1>0, <1>6 DEF Quit, IInv, Paced, TypeOK, Frontier, Reach, NoSession, None
  <2>2. Frontier' = watermark + MaxAdvance BY <1>6 DEF Quit, Frontier
  <2>3. Paced' BY <1>6 DEF Quit, Paced
  <2>4. OwedInv'
    <3> SUFFICES ASSUME NEW e \in Entries, InTrash(e)', owed'[e] > 0
                 PROVE  watermark' # None /\ rows'[e].at + Retention >= Frontier' + owed'[e]
      BY DEF OwedInv
    <3>1. owed[e] > 0 /\ owed'[e] = owed[e] - MaxAdvance /\ InTrash(e)
      BY <1>0, <1>6 DEF Quit, Later, TypeOK, InTrash
    <3> QED BY <1>0, <1>6, <2>1, <2>2, <3>1 DEF IInv, OwedInv, Quit, TypeOK, None
  <2>5. SinceInv' BY <1>6 DEF IInv, Quit, SinceInv, InTrash
  <2> QED BY <2>3, <2>4, <2>5
<1>7. ASSUME NEW e \in Entries, Trash(e) PROVE Paced' /\ OwedInv' /\ SinceInv'
  <2>1. watermark' \in Nat /\ TrashStamp \in Nat /\ TrashStamp >= watermark' - MaxSkew
        /\ TrashStamp >= Now
    BY <1>0, <1>7 DEF Trash, TrashStamp, Later, TypeOK, None
  <2>2. watermark # None => watermark' = watermark BY <1>7 DEF Trash
  <2>3. Paced' BY <1>7, <2>2 DEF Trash, IInv, Paced, Reach
  <2>4. /\ rows'[e].at = TrashStamp
        /\ owed'[e] = Later(Retention - MaxSkew - MaxAdvance - Elapsed, 0)
        /\ since'[e] = Entered(TRUE)
    BY <1>0, <1>7 DEF Trash, TypeOK, Row
  <2>5. \A f \in Entries \ {e} : rows'[f] = rows[f] /\ owed'[f] = owed[f] /\ since'[f] = since[f]
    BY <1>0, <1>7 DEF Trash, TypeOK
  <2>6. watermark # None => Frontier' = Frontier BY <1>7 DEF Trash, Frontier, Reach
  <2>7. owed'[e] > 0 => rows'[e].at + Retention >= Frontier' + owed'[e]
    <3>1. CASE session = NoSession
      <4>1. Frontier' = watermark' + MaxAdvance /\ Elapsed = 0
        BY <1>7, <3>1 DEF Trash, Frontier, Elapsed
      <4> QED BY <2>1, <2>4, <4>1 DEF Later
    <3>2. CASE session # NoSession
      <4>1. session \in [base : Nat, started : Start..real] /\ session.base <= watermark'
        BY <1>0, <2>2, <3>2 DEF TypeOK, IInv, Paced
      <4>2. Frontier' = session.base + MaxAdvance + Elapsed /\ Elapsed \in Nat
        BY <1>0, <1>7, <3>2, <4>1 DEF Trash, Frontier, Reach, Elapsed, TypeOK
      <4> QED BY <2>1, <2>4, <4>1, <4>2 DEF Later
    <3> QED BY <3>1, <3>2
  <2>8. OwedInv'
    <3> SUFFICES ASSUME NEW f \in Entries, InTrash(f)', owed'[f] > 0
                 PROVE  watermark' # None /\ rows'[f].at + Retention >= Frontier' + owed'[f]
      BY DEF OwedInv
    <3>1. CASE f = e BY <2>1, <2>7, <3>1 DEF None
    <3>2. CASE f # e BY <2>2, <2>5, <2>6, <3>2 DEF IInv, OwedInv, InTrash
    <3> QED BY <3>1, <3>2
  <2>9. ~since'[e].behind => rows'[e].at >= since'[e].at - MaxSkew
    <3>1. since'[e].at = real BY <1>0, <2>4, EnteredFields
    <3>2. real \in Int /\ offset \in Int /\ MaxSkew \in Nat BY <1>0 DEF TypeOK
    <3>3. rows'[e].at >= real + offset - MaxSkew /\ rows'[e].at \in Int
      <4>1. rows'[e].at = TrashStamp BY <2>4
      <4> QED BY <2>1, <3>2, <4>1 DEF Now
    <3>4. offset >= 0 => rows'[e].at >= since'[e].at - MaxSkew BY <3>1, <3>2, <3>3
    <3>5. ~since'[e].behind => offset >= 0 BY <1>0, <2>4, EnteredFields, Zenon
    <3> QED BY <3>4, <3>5, Zenon
  <2>10. SinceInv' BY <2>5, <2>9 DEF IInv, SinceInv, InTrash
  <2> QED BY <2>3, <2>8, <2>10
<1>8. ASSUME NEW e \in Entries, NEW st \in {"live", "purged"}, Leave(e, st)
      PROVE Paced' /\ OwedInv' /\ SinceInv'
  <2>1. ~InTrash(e)' BY <1>0, <1>8 DEF Leave, InTrash, Row, TypeOK
  <2>2. \A f \in Entries \ {e} : rows'[f] = rows[f] /\ owed'[f] = owed[f] /\ since'[f] = since[f]
    BY <1>0, <1>8 DEF Leave, TypeOK
  <2>3. Paced' /\ Frontier' = Frontier BY <1>8 DEF Leave, IInv, Paced, Frontier, Reach
  <2> QED BY <1>8, <2>1, <2>2, <2>3 DEF Leave, IInv, OwedInv, SinceInv, InTrash
<1>9. ASSUME NEW e \in Entries, NEW t \in PeerStamps, NEW u \in PeerStamps, PullTrash(e, t, u)
      PROVE Paced' /\ OwedInv' /\ SinceInv'
  <2> DEFINE at == Clamp(t, u)
  <2>1. at \in Nat BY <1>0, ClampNat
  <2> HIDE DEF at
  <2>2. Paced' /\ Frontier' = Frontier BY <1>9 DEF PullTrash, IInv, Paced, Frontier, Reach
  <2>3. \A f \in Entries \ {e} : rows'[f] = rows[f] /\ owed'[f] = owed[f] /\ since'[f] = since[f]
    BY <1>0, <1>9 DEF PullTrash, TypeOK
  <2>4. rows'[e].at = Floored(e, at) BY <1>0, <1>9 DEF PullTrash, TypeOK, Row, at
  <2>5. CASE Keeps(e, at)
    <3>1. InTrash(e) /\ rows'[e].at >= rows[e].at /\ since' = since /\ owed' = owed
      BY <1>9, <2>4, <2>5 DEF PullTrash, Keeps, Floored, at
    <3>2. rows'[e].at \in Nat /\ rows[e].at \in Nat BY <1>0, <2>1, <2>4, <2>5 DEF Floored, TypeOK
    <3>3. InTrash(e) /\ owed[e] > 0 => rows'[e].at + Retention >= Frontier + owed[e]
      <4>1. SUFFICES ASSUME owed[e] > 0 PROVE rows'[e].at + Retention >= Frontier + owed[e] OBVIOUS
      <4>2. watermark # None /\ rows[e].at + Retention >= Frontier + owed[e]
        BY <3>1, <4>1 DEF IInv, OwedInv
      <4>3. Frontier \in Int BY <1>0, <4>2 DEF Frontier, Reach, TypeOK, NoSession, None
      <4> QED BY <1>0, <3>1, <3>2, <4>2, <4>3 DEF TypeOK
    <3>4. OwedInv' BY <1>9, <2>2, <2>3, <3>1, <3>3 DEF PullTrash, IInv, OwedInv, InTrash
    <3>5. SinceInv'
      <4>1. ~since[e].behind => rows'[e].at >= since[e].at - MaxSkew
        BY <1>0, <3>1, <3>2 DEF IInv, SinceInv, TypeOK
      <4> QED BY <2>3, <3>1, <4>1 DEF IInv, SinceInv, InTrash
    <3> QED BY <2>2, <3>4, <3>5
  <2>6. CASE ~Keeps(e, at)
    <3>1. owed'[e] = 0 /\ since'[e] = Entered(FALSE) /\ rows'[e].at >= Now - MaxSkew
      BY <1>0, <1>9, <2>1, <2>4, <2>6, LaterEarlier DEF PullTrash, Floored, TypeOK, at
    <3>2. ~since'[e].behind => rows'[e].at >= since'[e].at - MaxSkew
      <4>1. rows'[e].at \in Int BY <1>0, <2>1, <2>4 DEF Floored, Later
      <4>2. since'[e].at = real BY <1>0, <3>1, EnteredFields
      <4>3. real \in Int /\ offset \in Int /\ MaxSkew \in Nat BY <1>0 DEF TypeOK
      <4>4. rows'[e].at >= real + offset - MaxSkew
        <5>1. rows'[e].at >= Now - MaxSkew BY <3>1
        <5> QED BY <4>3, <5>1 DEF Now
      <4>5. offset >= 0 => rows'[e].at >= since'[e].at - MaxSkew
        BY <4>4, <4>1, <4>2, <4>3
      <4>6. ~since'[e].behind => offset >= 0 BY <1>0, <3>1, EnteredFields, Zenon
      <4> QED BY <4>5, <4>6, Zenon
    <3>3. OwedInv' BY <1>9, <2>2, <2>3, <3>1 DEF PullTrash, IInv, OwedInv, InTrash
    <3>4. SinceInv' BY <2>3, <3>2 DEF IInv, SinceInv, InTrash
    <3> QED BY <2>2, <3>3, <3>4
  <2> QED BY <2>5, <2>6
<1> QED BY <1>1, <1>2, <1>3, <1>4, <1>5, <1>6, <1>7, <1>8, <1>9 DEF Next, User, Pull

-----------------------------------------------------------------------------
(* What a sweep takes. *)

\* Only a sweep takes an entry, and it is due by then.
LEMMA SweptIsDue ==
  ASSUME TypeOK, [Next]_vars, NEW e \in Entries, Swept(e)
  PROVE  Sweep /\ rows[e].at <= SweepAt(SessionAt(watermark)) - Retention
<1>1. CASE rows' = rows BY <1>1 DEF Swept, InTrash
<1>2. ASSUME NEW f \in Entries, NEW st \in {"live", "trash", "purged"}, NEW at,
             rows' = [rows EXCEPT ![f] = Row(st, at)]
      PROVE  FALSE
  BY <1>2 DEF Swept, InTrash, Row, TypeOK
<1>3. ASSUME NEW f \in Entries, User(f) \/ Pull(f) PROVE FALSE
  BY <1>2, <1>3 DEF User, Pull, Trash, Leave, PullTrash
<1>4. Sweep BY <1>1, <1>3 DEF Next, Tick, SetClock, Seed, Quit, vars
<1> QED BY <1>4 DEF Swept, Sweep, Due, InTrash

LEMMA LocalStep == IInv /\ [Next]_vars => \A e \in Entries : Swept(e) => owed[e] = 0
<1> SUFFICES ASSUME IInv, [Next]_vars, NEW e \in Entries, Swept(e) PROVE owed[e] = 0 OBVIOUS
<1> DEFINE at == SweepAt(SessionAt(watermark))
<1>0. TypeOK /\ Now \in Nat BY NowNat DEF IInv
<1>1. Sweep /\ rows[e].at <= at - Retention BY SweptIsDue, <1>0
<1>2. watermark \in Nat BY <1>0, <1>1 DEF Sweep, TypeOK
<1>3. at \in Int /\ Frontier \in Int /\ at <= Frontier
  <2>1. CASE session = NoSession
    <3>1. Reach(SessionAt(watermark)) = watermark + MaxAdvance
      BY <1>0, <1>2, <2>1 DEF SessionAt, Reach, TypeOK
    <3> QED BY <1>0, <1>2, <2>1, <3>1 DEF SweepAt, Earlier, Frontier
  <2>2. CASE session # NoSession
    <3>1. SessionAt(watermark) = session /\ Reach(session) \in Int
      BY <1>0, <2>2 DEF SessionAt, Reach, TypeOK
    <3> QED BY <1>0, <2>2, <3>1 DEF SweepAt, Earlier, Frontier
  <2> QED BY <2>1, <2>2
<1> HIDE DEF at
<1>4. ~(owed[e] > 0)
  BY <1>0, <1>1, <1>3 DEF IInv, OwedInv, Swept, TypeOK
<1> QED BY <1>0, <1>4 DEF TypeOK

\* LocalTrashIsKept: however the clock is set, an entry trashed here is kept
\* for the retention less the skew and a day per launch.
THEOREM LocalTrashKept == Spec => LocalTrashIsKept
<1>1. Spec => []IInv BY IInit, IStep, PTL DEF Spec
<1>2. IInv /\ [Next]_vars => [\A e \in Entries : Swept(e) => owed[e] = 0]_vars BY LocalStep
<1> QED BY <1>1, <1>2, PTL DEF Spec, LocalTrashIsKept

RightStep ==
  \A e \in Entries :
    Swept(e) /\ ~since[e].behind /\ offset <= 0 => real - since[e].at >= Retention - MaxSkew

LEMMA RightSteps == IInv /\ [Next]_vars => RightStep
<1> SUFFICES ASSUME IInv, [Next]_vars, NEW e \in Entries, Swept(e), ~since[e].behind, offset <= 0
             PROVE  real - since[e].at >= Retention - MaxSkew
  BY DEF RightStep
<1> DEFINE at == SweepAt(SessionAt(watermark))
<1>0. TypeOK /\ Now \in Nat BY NowNat DEF IInv
<1>1. Sweep /\ rows[e].at <= at - Retention BY SweptIsDue, <1>0
<1>2. at \in Int /\ at <= Now
  <2>1. Reach(SessionAt(watermark)) \in Int
    BY <1>0, <1>1 DEF Sweep, SessionAt, Reach, TypeOK, NoSession
  <2> QED BY <1>0, <2>1 DEF SweepAt, Earlier
<1> HIDE DEF at
<1>3. rows[e].at >= since[e].at - MaxSkew BY DEF IInv, SinceInv, Swept
<1> QED BY <1>0, <1>1, <1>2, <1>3 DEF TypeOK, Now

\* RightClocksKeepAll: with a clock that is right, no stamp of a peer makes
\* an entry leave Trash early.
THEOREM RightClocksKeep == Spec => RightClocksKeepAll
<1>1. Spec => []IInv BY IInit, IStep, PTL DEF Spec
<1>2. IInv /\ [Next]_vars => [RightStep]_vars BY RightSteps
<1>3. Spec => [][RightStep]_vars BY <1>1, <1>2, PTL DEF Spec
<1> QED BY <1>3 DEF RightClocksKeepAll, RightStep

=============================================================================
