----------------------------- MODULE RateLimit ------------------------------
(***************************************************************************)
(* What the storm controller of the l2switch application promises: "Only   *)
(* allows r.max broadcasts per 1 second" (storm_controller.go).  Written   *)
(* with the whole history of floods: a broadcast is flooded if and only if *)
(* fewer than Max floods happened within the last second.                  *)
(***************************************************************************)
EXTENDS Integers, Sequences, FiniteSets

CONSTANTS
    Max,        \* broadcasts allowed per second, at least 1
    Second      \* one second, in clock ticks

VARIABLES
    now,        \* the clock
    flooded,    \* times of all floods, oldest first
    answer      \* what became of the last broadcast

vars == <<now, flooded, answer>>

Init == now = 0 /\ flooded = <<>> /\ answer = "none"

\* The floods of the last second.
Recent == {i \in 1..Len(flooded) : now - flooded[i] <= Second}

Allow ==
    /\ Cardinality(Recent) < Max
    /\ flooded' = Append(flooded, now)
    /\ answer' = "flooded"
    /\ UNCHANGED now

Deny ==
    /\ Cardinality(Recent) >= Max
    /\ answer' = "denied"
    /\ UNCHANGED <<now, flooded>>

Tick ==
    /\ now' = now + 1
    /\ answer' = "none"
    /\ UNCHANGED flooded

Next == Allow \/ Deny \/ Tick

Spec == Init /\ [][Next]_vars
=============================================================================
