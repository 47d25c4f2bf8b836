-------------------------------- MODULE ApiCall --------------------------------
(***************************************************************************)
(* What the reconciler takes an operation of the Maskinporten API to be:   *)
(* its requests take effect in their order, each at most once and while    *)
(* the operation is under way; it succeeds only when all of them have, and *)
(* may fail whatever has.                                                  *)
(*                                                                         *)
(* An API whose 5xx answers are honest, that is, mean that nothing was     *)
(* done, is the assumption; one that is not may see a request twice.       *)
(***************************************************************************)
EXTENDS Naturals, Sequences

CONSTANTS
    Requests,   \* the requests of each operation
    Writing,    \* the requests that are to change something
    Null

VARIABLES
    op,         \* the operation under way, Null if none
    step,       \* the request of it that is under way
    effects,    \* how often that request has taken effect
    honest,     \* the API's 5xx answers are
    outcome     \* of the last operation, Null while there is none

vars == <<op, step, effects, honest, outcome>>

Init ==
    /\ op = Null /\ step = 1
    /\ effects = 0
    /\ honest \in BOOLEAN
    /\ outcome = Null

Invoke(o) ==
    /\ op = Null
    /\ op' = o
    /\ outcome' = Null
    /\ UNCHANGED <<step, effects, honest>>

TakeEffect ==
    /\ op # Null
    /\ Requests[op][step] \in Writing
    /\ honest => effects = 0
    /\ effects' = effects + 1
    /\ UNCHANGED <<op, step, honest, outcome>>

Done == Requests[op][step] \in Writing => effects > 0

Advance ==
    /\ op # Null
    /\ Done
    /\ step < Len(Requests[op])
    /\ step' = step + 1
    /\ effects' = 0
    /\ UNCHANGED <<op, honest, outcome>>

End(how) == /\ op # Null
            /\ op' = Null /\ step' = 1 /\ effects' = 0
            /\ outcome' = how
            /\ UNCHANGED honest

Succeed == op # Null /\ Done /\ step = Len(Requests[op]) /\ End("success")
Fail == End("error")

Next == (\E o \in DOMAIN Requests : Invoke(o)) \/ TakeEffect \/ Advance \/ Succeed \/ Fail

Spec == Init /\ [][Next]_vars

=============================================================================
