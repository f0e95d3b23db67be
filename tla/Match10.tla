------------------------------ MODULE Match10 -------------------------------
(***************************************************************************)
(* The match of OpenFlow 1.0 (openflow/of10/match.go): a value for each    *)
(* field, zero when it is not used, and a word of wildcards that counts    *)
(* the ignored bits of the IP addresses.                                   *)
(***************************************************************************)
EXTENDS Naturals

CONSTANTS Wildcard, NoIP, Empty

VARIABLES
    wildcards,  \* Wildcard: a flag for each field, a bit count for the IP fields
    value,      \* the other members of Match
    err

vars == <<wildcards, value, err>>

IPField == {"SrcIP", "DstIP"}
PortField == {"SrcPort", "DstPort"}

\* The bit of each flag (OFPFW_*), and the weight of the bit counts: 1 << 8, 1 << 14
Bit == [InPort |-> 1, VLANID |-> 2, SrcMAC |-> 4, DstMAC |-> 8, EtherType |-> 16, IPProtocol |-> 32,
        SrcPort |-> 64, DstPort |-> 128, VLANPriority |-> 1048576]
OFPFW_NW_TOS == 2097152

Shift == [SrcIP |-> 256, DstIP |-> 16384]

Flag == DOMAIN Bit
Field == Flag \cup IPField

\* The zero value of a field.
Zero(f) == IF f \in IPField THEN NoIP ELSE 0

newWildcardAll == [f \in Field |-> IF f \in IPField THEN 32 ELSE TRUE]

NewMatch ==
    /\ wildcards = newWildcardAll
    /\ value = [f \in Field |-> Zero(f)]
    /\ err = FALSE

\* Numbers: the etherType and the protocol are compared with constants.
Number == [IPv4 |-> 2048, ARP |-> 2054, TCP |-> 6, UDP |-> 17, ICMP |-> 1]
Name(f, n) ==
    IF f \in {"EtherType", "IPProtocol"}
    THEN CHOOSE v \in (IF f = "EtherType" THEN {"IPv4", "ARP"} ELSE {"TCP", "UDP", "ICMP"}) : Number[v] = n
    ELSE n

\* What the setters check
Refused(f) ==
    \/ f \in IPField \cup PortField \cup {"IPProtocol"} /\ value["EtherType"] # 2048
    \/ f \in PortField /\ value["IPProtocol"] \notin {6, 17}

Error == err' = TRUE /\ UNCHANGED <<wildcards, value>>

\* SetWildcard<field>
SetWildcard(f) ==
    /\ f \notin IPField
    /\ value' = [value EXCEPT ![f] = Zero(f)]
    /\ wildcards' = [wildcards EXCEPT ![f] = TRUE]
    /\ UNCHANGED err

\* Mutant of SetIP: the network bits are taken for the ignored ones.
SetIP_Bits(f, ip) ==
    IF ip = Empty \/ Refused(f) THEN Error
    ELSE /\ value' = [value EXCEPT ![f] = ip[1]]
         /\ wildcards' = [wildcards EXCEPT ![f] = ip[2]]
         /\ UNCHANGED err

\* SetSrcIP and SetDstIP
SetIP(f, ip) ==
    IF ip = Empty \/ Refused(f) THEN Error
    ELSE /\ value' = [value EXCEPT ![f] = ip[1]]
         /\ wildcards' = [wildcards EXCEPT ![f] = IF ip[2] >= 32 THEN 0 ELSE 32 - ip[2]]
         /\ UNCHANGED err

\* The setters of the other fields; a port number is cut to 16 bits.
SetField(f, v) ==
    IF v = Empty \/ Refused(f) THEN Error
    ELSE /\ value' = [value EXCEPT ![f] = IF f = "InPort" THEN v % 65536
                                           ELSE IF f \in {"EtherType", "IPProtocol"} THEN Number[v] ELSE v]
         /\ wildcards' = [wildcards EXCEPT ![f] = FALSE]
         /\ UNCHANGED err

Set(f, v) ==
    \/ v = Wildcard /\ SetWildcard(f)
    \/ v # Wildcard /\ f \in IPField /\ SetIP(f, v)
    \/ v # Wildcard /\ f \notin IPField /\ SetField(f, v)

\* The getters
Answer(w, val) ==
    [f \in Field |-> IF f \in IPField THEN <<val[f], 32 - w[f]>>
                     ELSE IF w[f] THEN Wildcard ELSE Name(f, val[f])]

-----------------------------------------------------------------------------
(* The wire format *)

\* Wildcard.MarshalBinary: the flags, the two counts and the ToS bit, or'ed.
Word(w) ==
    LET bit(f) == IF w[f] THEN Bit[f] ELSE 0
        count(f) == w[f] * Shift[f]
    IN  bit("InPort") + bit("VLANID") + bit("SrcMAC") + bit("DstMAC") + bit("EtherType")
            + bit("IPProtocol") + bit("SrcPort") + bit("DstPort") + count("SrcIP") + count("DstIP")
            + bit("VLANPriority") + OFPFW_NW_TOS

\* Wildcard.UnmarshalBinary: six bits for a count
Unword(n) ==
    [f \in Field |-> IF f \in IPField THEN (n \div Shift[f]) % 64
                     ELSE (n \div Bit[f]) % 2 = 1]

\* Match.MarshalBinary has all the values; UnmarshalBinary reads them back.
MarshalBinary == [word |-> Word(wildcards), value |-> value]
UnmarshalBinary(data) == Answer(Unword(data.word), data.value)
=============================================================================
