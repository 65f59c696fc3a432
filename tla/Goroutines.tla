----------------------------- MODULE Goroutines -----------------------------
(***************************************************************************)
(* The goroutines of a service process: pc[g] is the step of the call that *)
(* g is in, "idle" between two calls, and calls[g] is how many it made.    *)
(***************************************************************************)
EXTENDS Integers

CONSTANTS Goroutines,
          MaxCalls     \* bound: the calls each of them makes

ASSUME MaxCallsAssumption == MaxCalls \in Nat

VARIABLES pc, calls

goVars == <<pc, calls>>

GoInit == pc = [g \in Goroutines |-> "idle"] /\ calls = [g \in Goroutines |-> 0]

Goto(g, l) == pc' = [pc EXCEPT ![g] = l] /\ UNCHANGED calls

Call(g, l) ==
    /\ pc[g] = "idle" /\ calls[g] < MaxCalls
    /\ pc' = [pc EXCEPT ![g] = l] /\ calls' = [calls EXCEPT ![g] = @ + 1]
=============================================================================
