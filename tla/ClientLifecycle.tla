--------------------------- MODULE ClientLifecycle ---------------------------
(***************************************************************************)
(* What the operator promises about one app's clients in the Maskinporten  *)
(* API, whatever fails on the way: a client exists only while the resource *)
(* it was made for is held by the operator's finalizer, a client is made   *)
(* only when there is none, and the hold is given up only when none is     *)
(* left.                                                                   *)
(***************************************************************************)
CONSTANT ClientId

VARIABLES
    held,      \* the resource exists and carries the finalizer
    live       \* ids of the clients registered for the app

vars == <<held, live>>

Init == held = FALSE /\ live = {}

Acquire == ~held /\ held' = TRUE /\ UNCHANGED live

Register(id) == held /\ live = {} /\ live' = {id} /\ UNCHANGED held

\* By the operator, or by someone else: the client is not locked.
Unregister == live # {} /\ live' = {} /\ UNCHANGED held

Release == held /\ live = {} /\ held' = FALSE /\ UNCHANGED live

Next == Acquire \/ (\E id \in ClientId : Register(id)) \/ Unregister \/ Release

Spec == Init /\ [][Next]_vars

=============================================================================
