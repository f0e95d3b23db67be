------------------------------- MODULE Match --------------------------------
(***************************************************************************)
(* What a flow match promises to its users, whatever the version of        *)
(* OpenFlow (openflow/match.go): its getters answer what the setters were  *)
(* given.  A field of a network or transport header can be set only after  *)
(* the fields it depends on, and an address must not be empty; a call that *)
(* may not be made changes nothing but makes the match unusable.           *)
(*                                                                         *)
(* The fields are named by their setters and getters.  An IP field is an   *)
(* address and its number of network bits.                                 *)
(***************************************************************************)

CONSTANTS
    Calls,       \* the calls that are made: <<field, value>>, or <<field, Wildcard>>
    Wildcard,    \* what SetWildcard<field> is called with, and a getter's wildcard
    NoIP,        \* 0.0.0.0
    Empty        \* an address of no bytes

VARIABLES
    answer,      \* what the getter of each field answers
    err          \* Error() is not nil

IPField == {"SrcIP", "DstIP"}
PortField == {"SrcPort", "DstPort"}
Field == {"InPort", "SrcMAC", "DstMAC", "VLANID", "VLANPriority", "EtherType", "IPProtocol"}
            \cup IPField \cup PortField

Init ==
    /\ answer = [f \in Field |-> IF f \in IPField THEN <<NoIP, 0>> ELSE Wildcard]
    /\ err = FALSE

\* The fields that f depends on: "IPv4?", "TCP or UDP?"
Allowed(f) ==
    /\ f \in IPField \cup PortField \cup {"IPProtocol"} => answer["EtherType"] = "IPv4"
    /\ f \in PortField => answer["IPProtocol"] \in {"TCP", "UDP"}

Set(f, v) ==
    IF v = Wildcard \/ (v # Empty /\ Allowed(f))
    THEN answer' = [answer EXCEPT ![f] = v] /\ UNCHANGED err
    ELSE err' = TRUE /\ UNCHANGED answer

Next == \E c \in Calls : Set(c[1], c[2])

Spec == Init /\ [][Next]_<<answer, err>>
=============================================================================
