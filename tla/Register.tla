------------------------------ MODULE Register ------------------------------
(***************************************************************************)
(* What entry synchronisation promises to a reader of one device.  An      *)
(* entry is a register: users on any device write it, and every device     *)
(* shows one of the writes.  A user writes on top of what the device       *)
(* shows; what other devices wrote arrives at any time, in any order and   *)
(* for several entries at once, but never takes a device back.             *)
(***************************************************************************)
EXTENDS Integers

CONSTANTS Devices, Entries

VARIABLES
  writes,  \* writes[e]: the writes of e so far
  shown    \* shown[d][e]: what d shows of e

registerVars == <<writes, shown>>

\* A write has a Trash state, a stamp and the fields it set; of a purge only
\* the tombstone is shown.
Nothing  == [st |-> "absent", ts |-> 0, meta |-> 0]
Shown(w) == [st |-> w.st, ts |-> w.ts, meta |-> IF w.st = "purged" THEN 0 ELSE w.meta]

RegisterInit ==
  \A e \in Entries :
    \/ writes[e] = {} /\ \A d \in Devices : shown[d][e] = Nothing
    \/ \E w \in writes[e] : writes[e] = {w} /\ \A d \in Devices : shown[d][e] = Shown(w)

Keep(d, e) == shown'[d][e] = shown[d][e] /\ writes'[e] = writes[e]

Write(d, e) == \E w \in writes'[e] :
  /\ writes'[e] = writes[e] \cup {w}
  /\ shown[d][e] = Nothing \/ w.ts > shown[d][e].ts
  /\ shown'[d][e] = Shown(w)

\* At equal stamps either write may stay; each device decides by their origin.
Learn(d, e) == \E w \in writes[e] :
  /\ shown[d][e] = Nothing \/ w.ts >= shown[d][e].ts
  /\ shown'[d][e] = Shown(w)
  /\ writes'[e] = writes[e]

\* A step of d writes entries (one, or those the sweep purges), or learns some.
Step(d) ==
  /\ \A x \in Devices \ {d} : shown'[x] = shown[x]
  /\ \/ \A e \in Entries : Keep(d, e) \/ Write(d, e)
     \/ \A e \in Entries : Keep(d, e) \/ Learn(d, e)

RegisterNext == \E d \in Devices : Step(d)

RegisterSpec == RegisterInit /\ [][RegisterNext]_registerVars

=============================================================================
