-------------------------------- MODULE PxCall --------------------------------
(***************************************************************************)
(* What call_from_main_thread_and_wait() promises a parallel callback      *)
(* (src/Python/pyparallel.c): the main thread calls the function once, one *)
(* function at a time, and the callback goes on when that call is over,    *)
(* not before.  In which order the callers are served is left open.        *)
(***************************************************************************)
CONSTANT Callers   \* the contexts that may ask the main thread

VARIABLE phase     \* how far the call of each caller has come

Phases == {"none", "asked", "called", "answered"}

Init == phase = [c \in Callers |-> "none"]

Moves(c, from, to) ==
    /\ phase[c] = from
    /\ phase' = [phase EXCEPT ![c] = to]

(* A callback asks for a call, and waits.                                  *)
Ask(c) == Moves(c, "none", "asked")

(* The main thread calls its function.                                     *)
Begin(c) ==
    /\ \A d \in Callers : phase[d] # "called"
    /\ Moves(c, "asked", "called")

(* The function has returned or raised, and its result is stored.          *)
Answer(c) == Moves(c, "called", "answered")

(* The callback goes on with the result.                                   *)
Resume(c) == Moves(c, "answered", "none")

Next == \E c \in Callers : Ask(c) \/ Begin(c) \/ Answer(c) \/ Resume(c)

Spec == Init /\ [][Next]_phase

=============================================================================
