------------------------------ MODULE Match13 -------------------------------
(***************************************************************************)
(* The match of OpenFlow 1.3 (openflow/of13/match.go): a map from OXM      *)
(* types to values that is sent as a list of TLVs, in the order in which   *)
(* Go iterates over the map: any order.                                    *)
(***************************************************************************)
EXTENDS Naturals, Functions

CONSTANTS Wildcard, NoIP, Empty

VARIABLES m, err

IPField == {"SrcIP", "DstIP"}
PortField == {"SrcPort", "DstPort"}

\* The OXM types, by name
TCP == [SrcPort |-> "TCP_SRC", DstPort |-> "TCP_DST"]
UDP == [SrcPort |-> "UDP_SRC", DstPort |-> "UDP_DST"]
Key == [InPort |-> "IN_PORT", DstMAC |-> "ETH_DST", SrcMAC |-> "ETH_SRC", EtherType |-> "ETH_TYPE",
        VLANID |-> "VLAN_VID", VLANPriority |-> "VLAN_PCP", IPProtocol |-> "IP_PROTO",
        SrcIP |-> "IPV4_SRC", DstIP |-> "IPV4_DST"]
Field == DOMAIN Key \cup PortField

NewMatch ==
    /\ m = [k \in {} |-> 0]
    /\ err = FALSE

Has(k) == k \in DOMAIN m
Is(k, v) == Has(k) /\ m[k] = v
With(k, v) == [j \in DOMAIN m \cup {k} |-> IF j = k THEN v ELSE m[j]]
Without(K) == Restrict(m, DOMAIN m \ K)

\* The checks of the setters
Refused(f) ==
    \/ f \in IPField \cup PortField \cup {"IPProtocol"} /\ ~Is("ETH_TYPE", "IPv4")
    \/ f \in PortField /\ ~Is("IP_PROTO", "TCP") /\ ~Is("IP_PROTO", "UDP")

\* SetSrcPort and SetDstPort: the port of the protocol replaces that of the other.
SetPort(f, p) ==
    m' = IF m["IP_PROTO"] = "TCP"
         THEN Restrict(With(TCP[f], p), (DOMAIN m \cup {TCP[f]}) \ {UDP[f]})
         ELSE Restrict(With(UDP[f], p), (DOMAIN m \cup {UDP[f]}) \ {TCP[f]})

\* Mutant of SetWildcard: the port number of TCP goes, that of UDP stays.
SetWildcard_TCP(f) ==
    /\ f \notin IPField
    /\ m' = Without(IF f \in PortField THEN {TCP[f]} ELSE {Key[f]})
    /\ UNCHANGED err

\* SetWildcard<field>
SetWildcard(f) ==
    /\ f \notin IPField
    /\ m' = Without(IF f \in PortField THEN {TCP[f], UDP[f]} ELSE {Key[f]})
    /\ UNCHANGED err

Set(f, v) ==
    \/ v = Wildcard /\ SetWildcard(f)
    \/ v # Wildcard /\ (v = Empty \/ Refused(f)) /\ err' = TRUE /\ UNCHANGED m
    \/ /\ v # Wildcard /\ v # Empty /\ ~Refused(f)
       /\ IF f \in PortField THEN SetPort(f, v) ELSE m' = With(Key[f], v)
       /\ UNCHANGED err

\* The getters of the ports; a TCP port comes first.
PortAnswer(n, f) ==
    IF TCP[f] \in DOMAIN n THEN n[TCP[f]]
    ELSE IF UDP[f] \in DOMAIN n THEN n[UDP[f]] ELSE Wildcard

\* The getters of the other fields
FieldAnswer(n, f) ==
    IF Key[f] \in DOMAIN n THEN n[Key[f]]
    ELSE IF f \in IPField THEN <<NoIP, 0>> ELSE Wildcard

Answer(n) ==
    [f \in Field |-> IF f \in PortField THEN PortAnswer(n, f) ELSE FieldAnswer(n, f)]

-----------------------------------------------------------------------------
(* The wire format *)

\* OFPXMT_OFB_*, and the size of a value
Type == [IN_PORT |-> 0, ETH_DST |-> 3, ETH_SRC |-> 4, ETH_TYPE |-> 5, VLAN_VID |-> 6, VLAN_PCP |-> 7,
         IP_PROTO |-> 10, IPV4_SRC |-> 11, IPV4_DST |-> 12, TCP_SRC |-> 13, TCP_DST |-> 14,
         UDP_SRC |-> 15, UDP_DST |-> 16]
Size == [IN_PORT |-> 4, ETH_DST |-> 6, ETH_SRC |-> 6, ETH_TYPE |-> 2, VLAN_VID |-> 2, VLAN_PCP |-> 1,
         IP_PROTO |-> 1, IPV4_SRC |-> 8, IPV4_DST |-> 8, TCP_SRC |-> 2, TCP_DST |-> 2,
         UDP_SRC |-> 2, UDP_DST |-> 2]

\* marshalUint8TLV writes behind the end of its buffer: Go panics.
Panics == \E k \in {"VLAN_PCP", "IP_PROTO"} : Has(k)

\* Mutant of HasMask: the mask of an address is not announced.
HasMask_Never(k) == 0

\* marshalIPNetTLV always sends the mask.
HasMask(k) == IF k \in {"IPV4_SRC", "IPV4_DST"} THEN 1 ELSE 0

\* marshalTLV: the lower half of the header (the upper half is the class) has
\* the type, the mask bit and the size of the value that follows.
TLV(k) == [header |-> Type[k] * 512 + HasMask(k) * 256 + Size[k], body |-> m[k], bytes |-> Size[k]]

\* What the TLVs add up to, whatever their order
Total(size(_)) ==
    size("IN_PORT") + size("ETH_DST") + size("ETH_SRC") + size("ETH_TYPE") + size("VLAN_VID")
        + size("VLAN_PCP") + size("IP_PROTO") + size("IPV4_SRC") + size("IPV4_DST")
        + size("TCP_SRC") + size("TCP_DST") + size("UDP_SRC") + size("UDP_DST")

\* MarshalBinary: a header, the TLVs and their length, which leaves out the
\* padding to a multiple of 8.
MarshalBinary ==
    LET size(k) == IF Has(k) THEN 4 + Size[k] ELSE 0
        length == 4 + Total(size)
    IN  [length |-> length, tlvs |-> {TLV(k) : k \in DOMAIN m}, padding |-> (8 - (length % 8)) % 8]

\* unmarshalTLV takes the type, the mask bit and the length out of a header;
\* an address without a mask gets 0.0.0.0.
TypeOf(t) == (t.header \div 512) % 128
MaskOf(t) == (t.header \div 256) % 2
LengthOf(t) == t.header % 256

Body(k, t) ==
    IF k \in {"IPV4_SRC", "IPV4_DST"} /\ MaskOf(t) = 0 THEN <<t.body[1], 0>> ELSE t.body

\* The TLVs in which unmarshalTLV finds a type
Sent(data, k) == {t \in data.tlvs : TypeOf(t) = Type[k]}

\* UnmarshalBinary: the TLVs follow each other up to the length.
Aligned(data) ==
    LET size(k) == IF Sent(data, k) # {} THEN 4 + (CHOOSE t \in Sent(data, k) : TRUE).bytes ELSE 0
    IN  /\ \A t \in data.tlvs : LengthOf(t) = t.bytes
        /\ \A k \in DOMAIN Type : \A t, u \in Sent(data, k) : t = u
        /\ data.length = 4 + Total(size)

UnmarshalBinary(data) ==
    LET keys == {k \in DOMAIN Type : Sent(data, k) # {}}
    IN  Answer([k \in keys |-> Body(k, CHOOSE t \in Sent(data, k) : TRUE)])
=============================================================================
