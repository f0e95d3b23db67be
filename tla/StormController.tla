--------------------------- MODULE StormController --------------------------
(***************************************************************************)
(* stormController of northbound/app/l2switch/storm_controller.go: the     *)
(* limit on broadcasts that keeps a loop in the network from flooding it.  *)
(* The sessions of all switches share one controller; broadcast holds its  *)
(* mutex throughout and reads the clock under it, so a call is one action. *)
(* Only the last max timestamps are kept.  A flood that fails has taken    *)
(* its timestamp all the same.                                             *)
(***************************************************************************)
EXTENDS Integers, Sequences, FiniteSets

CONSTANTS
    max,        \* stormController.max
    Second,     \* 1 * time.Second, in clock ticks
    MaxTime,    \* bound on the clock
    MaxFloods   \* bound on the history

ASSUME MaxPos == max \in Nat \ {0}
ASSUME TimesNat == Second \in Nat /\ MaxTime \in Nat /\ MaxFloods \in Nat

VARIABLES
    now,        \* time.Now()
    broadcasts, \* stormController.broadcasts
    flooded,    \* history: times of all calls of bcaster.flood
    answer      \* history: what became of the last broadcast

stormVars == <<now, broadcasts, flooded, answer>>

newStormController ==
    /\ now = 0
    /\ broadcasts = <<>>
    /\ flooded = <<>>
    /\ answer = "none"

-----------------------------------------------------------------------------
\* bcasts and l of broadcast.
bcasts == Append(broadcasts, now)
l == Len(bcasts)

flood ==
    /\ Len(flooded) < MaxFloods
    /\ flooded' = Append(flooded, now)
    /\ answer' = "flooded"
    /\ UNCHANGED now

\* Fewer than max timestamps so far.
BroadcastFirst ==
    /\ l <= max
    /\ broadcasts' = bcasts
    /\ flood

\* Mutant of BroadcastShrink: exactly a second is enough.
BroadcastShrink_Early ==
    /\ l > max
    /\ now - bcasts[1] >= Second
    /\ broadcasts' = SubSeq(bcasts, l - max + 1, l)
    /\ flood

\* The oldest timestamp is more than a second old: shrink.
BroadcastShrink ==
    /\ l > max
    /\ now - bcasts[1] > Second
    /\ broadcasts' = SubSeq(bcasts, l - max + 1, l)
    /\ flood

\* Mutant of BroadcastDeny: a denied broadcast takes a timestamp.
BroadcastDeny_Stamps ==
    /\ l > max
    /\ now - bcasts[1] <= Second
    /\ broadcasts' = SubSeq(bcasts, l - max + 1, l)
    /\ answer' = "denied"
    /\ UNCHANGED <<now, flooded>>

\* Deny: "r.broadcast should not be updated!"
BroadcastDeny ==
    /\ l > max
    /\ now - bcasts[1] <= Second
    /\ answer' = "denied"
    /\ UNCHANGED <<now, broadcasts, flooded>>

Tick ==
    /\ now < MaxTime
    /\ now' = now + 1
    /\ answer' = "none"
    /\ UNCHANGED <<broadcasts, flooded>>

StormNext == BroadcastFirst \/ BroadcastShrink \/ BroadcastDeny \/ Tick

StormSpec == newStormController /\ [][StormNext]_stormVars

-----------------------------------------------------------------------------
(* Properties *)

StormTypeOK ==
    /\ now \in 0..MaxTime
    /\ broadcasts \in Seq(0..MaxTime) /\ Len(broadcasts) <= max
    /\ flooded \in Seq(0..MaxTime)
    /\ answer \in {"none", "flooded", "denied"}

\* Any max + 1 floods in a row spread over more than a second, however the
\* calls are spaced and however many were denied in between.
WithinLimit ==
    \A i \in 1..Len(flooded) :
        i + max <= Len(flooded) => flooded[i + max] - flooded[i] > Second

\* The max timestamps that are kept decide as the whole history would: the
\* controller implements the rate limit, and it neither lets a broadcast
\* through nor denies one that the limit would treat differently.
RL == INSTANCE RateLimit WITH Max <- max, now <- now, flooded <- flooded, answer <- answer
Implements == RL!Spec
=============================================================================
