----------------------------- MODULE MatchPair ------------------------------
(***************************************************************************)
(* A match of OpenFlow 1.0 and one of 1.3, on which the same calls are     *)
(* made: the applications build a match through openflow.Factory and do    *)
(* not know the version of the switch.                                     *)
(***************************************************************************)
EXTENDS Naturals

CONSTANTS
    Wildcard, NoIP, Empty,
    MAC, IP,       \* addresses
    Tried,         \* bound: fields that are tried
    Number16,      \* port numbers and VLAN IDs that are tried
    Bits           \* bound: network bits that are tried

ASSUME Widths == (\A n \in Number16 : n \in Nat /\ n < 65536) /\ Bits \subseteq 0..32

VARIABLES wildcards, value, err10, m, err13

matchVars == <<wildcards, value, err10, m, err13>>

OF10 == INSTANCE Match10 WITH err <- err10
OF13 == INSTANCE Match13 WITH err <- err13

Values ==
    [SrcMAC |-> MAC \cup {Empty}, DstMAC |-> MAC \cup {Empty},
     SrcIP |-> (IP \X Bits) \cup {Empty}, DstIP |-> (IP \X Bits) \cup {Empty},
     EtherType |-> {"IPv4", "ARP"}, IPProtocol |-> {"TCP", "UDP", "ICMP"},
     InPort |-> Number16, VLANID |-> Number16, VLANPriority |-> {7},
     SrcPort |-> Number16, DstPort |-> Number16]

\* What means "no value" is no value.
ASSUME Distinct == Tried \subseteq OF10!Field /\ \A f \in OF10!Field : Wildcard \notin Values[f]

Calls ==
    (UNION {{f} \X Values[f] : f \in Tried})
        \cup ((Tried \cap OF10!Flag) \X {Wildcard})

NewMatches == OF10!NewMatch /\ OF13!NewMatch

SetBoth == \E c \in Calls : OF10!Set(c[1], c[2]) /\ OF13!Set(c[1], c[2])

MatchSpec == NewMatches /\ [][SetBoth]_matchVars

-----------------------------------------------------------------------------
(* Properties *)

Abstract10 == INSTANCE Match WITH answer <- OF10!Answer(wildcards, value), err <- err10
Abstract13 == INSTANCE Match WITH answer <- OF13!Answer(m), err <- err13

\* The match of OpenFlow 1.0, with its zero values and its counts of ignored
\* bits, keeps the promise of the interface (openflow/match.go): whatever
\* call is made, it does to the answers of the getters what it does there.
\* (Abstract10!Spec alone would also let a call do what another one does.)
Implements10 ==
    /\ Abstract10!Init
    /\ [][\A c \in Calls : OF10!Set(c[1], c[2]) => Abstract10!Set(c[1], c[2])]_matchVars

\* So does that of 1.3, with two map entries for each port number.
Implements13 ==
    /\ Abstract13!Init
    /\ [][\A c \in Calls : OF13!Set(c[1], c[2]) => Abstract13!Set(c[1], c[2])]_matchVars

\* What a match is sent as tells the switch, and FLOW_REMOVED tells the
\* applications, what was set (MarshalBinary, UnmarshalBinary); therefore no two
\* matches share a key of the flow cache.  A match of 1.3 with a VLAN
\* priority or an IP protocol cannot be sent.
RoundTrip ==
    /\ ~err10 => OF10!UnmarshalBinary(OF10!MarshalBinary) = OF10!Answer(wildcards, value)
    /\ ~err13 /\ ~OF13!Panics =>
        /\ OF13!Aligned(OF13!MarshalBinary)
        /\ OF13!UnmarshalBinary(OF13!MarshalBinary) = OF13!Answer(m)
=============================================================================
