-------------------------- MODULE Handshake_proofs --------------------------
(***************************************************************************)
(* Proofs about a session and its switch, for any ports, any length of the *)
(* transceiver's channel and any number of sessions and inputs.            *)
(***************************************************************************)
EXTENDS Handshake, FiniteSetTheorems, SequenceTheorems, TLAPS

-----------------------------------------------------------------------------
(* The messages *)

State == {"up", "down"}
Reply == [type : {"FEATURES_REPLY", "PORT_DESC_REPLY"}, ports : [Port -> State]]
PortStatus == [type : {"PORT_STATUS"}, port : Port, state : State]
FlowAdd == [type : {"FLOW_ADD"}, flow : Flow]
FlowDel == [type : {"FLOW_DELETE"}, vlan : BOOLEAN, mask : BOOLEAN, to : Port \cup {AnyPort}]
Request == {"HELLO", "SET_CONFIG", "BARRIER_REQUEST", "DESC_REQUEST", "FEATURES_REQUEST", "PORT_DESC_REQUEST"}

InMsg ==
    {Msg(t) : t \in {"HELLO", "BARRIER_REPLY", "DESC_REPLY", "PACKET_IN"}} \cup Reply \cup PortStatus
OutMsg == {Msg(t) : t \in Request} \cup {LLDP(p) : p \in Port} \cup FlowAdd \cup FlowDel

TypeInv == TypeOK /\ in \in Seq(InMsg) /\ out \in Seq(OutMsg) /\ pending \in Seq(Reply)

\* The channel has a message of this type.
Coming(type) == \E i \in 1..Len(in) : in[i].type = type

-----------------------------------------------------------------------------
(* From the HELLO to the checkpoint *)

\* What OnHello writes
Prelude ==
    <<Msg("HELLO"), Msg("SET_CONFIG"), sendRemoveAllFlows, setTemporaryDrop,
      setARPSender, setLLDPSender, Msg("BARRIER_REQUEST")>>

Flushed == \A f \in table : f.gen = gen
Has(what) == \E f \in table : f.what = what /\ f.gen = gen /\ ~f.vlan
Cleared == Flushed /\ Has("arp") /\ Has("lldp")

\* The switch has handled k of the messages of OnHello, and shows it.
Handled(k) ==
    /\ Len(out) = 7 - k
    /\ \A i \in 1..(7 - k) : out[i] = Prelude[i + k]
    /\ k >= 3 => Flushed
    /\ k >= 5 => Has("arp")
    /\ k >= 6 => Has("lldp")
    /\ Coming("BARRIER_REPLY") => k = 7

Ordered ==
    /\ conn # "up" => out = <<>>
    /\ ~negotiated => out = <<>> /\ ~checkpoint /\ ~Coming("BARRIER_REPLY")
    /\ ~checkpoint =>
        /\ ~ready /\ pending = <<>>
        /\ ~Coming("FEATURES_REPLY") /\ ~Coming("DESC_REPLY") /\ ~Coming("PORT_DESC_REPLY")
    /\ negotiated /\ ~checkpoint /\ conn = "up" => \E k \in 0..7 : Handled(k)
    /\ checkpoint \/ Coming("BARRIER_REPLY") => Cleared

\* After the checkpoint nothing is on its way that could undo it.
Harmless(m) ==
    /\ m.type = "FLOW_ADD" => m.flow.what \in {"miss", "normal"}
    /\ m.type = "FLOW_DELETE" => m.vlan

\* A flow is of the session that adds it.
Generations ==
    /\ \A f \in table : f.gen <= gen
    /\ \A i \in 1..Len(out) : out[i].type = "FLOW_ADD" => out[i].flow.gen = gen
    /\ checkpoint => \A i \in 1..Len(out) : Harmless(out[i])

-----------------------------------------------------------------------------
(* The description comes before the ports *)

\* The description is not known, and is not lost.
Undescribed ==
    version = "OF13" /\ ~early /\ Msg("DESC_REPLY") \notin lost /\ flowTableID # FlowTableID

\* The description was asked for by one of the first n messages to the
\* switch, or its reply is in the channel.
Asked(n) == (\E j \in 1..Len(out) : j <= n /\ out[j].type = "DESC_REQUEST") \/ Coming("DESC_REPLY")

\* Every reply with the ports in the channel is behind one with the description.
RepliesBehind ==
    \A i \in 1..Len(in) : in[i].type = "PORT_DESC_REPLY" =>
        \E j \in 1..Len(in) : j < i /\ in[j].type = "DESC_REPLY"

\* So is every request for the ports behind the one for the description.
RequestsBehind == \A i \in 1..Len(out) : out[i].type = "PORT_DESC_REQUEST" => Asked(i)

DescriptionFirst ==
    Undescribed =>
        /\ \A p \in Port : ports[p] = "nil"
        /\ conn # "closed" => RepliesBehind
        /\ conn = "up" => RequestsBehind /\ (ready => pending # <<>> \/ Asked(Len(out)))

RightTable(f) == f.what = "normal" /\ f.gen = gen => f.tableID = FlowTableID

InTable ==
    /\ version = "OF10" => hardware = "other"
    /\ flowTableID \in {0, FlowTableID}
    /\ ~early /\ Msg("DESC_REPLY") \notin lost =>
        /\ \A f \in table : RightTable(f)
        /\ \A i \in 1..Len(out) : out[i].type = "FLOW_ADD" => RightTable(out[i].flow)

-----------------------------------------------------------------------------
(* Between two messages that say that a port is up and down, the switch    *)
(* has sent the PORT_STATUS.                                               *)

DownStatus(p) == [type |-> "PORT_STATUS", port |-> p, state |-> "down"]

IsReply(m) == m.type \in {"FEATURES_REPLY", "PORT_DESC_REPLY"}
Reports(m, p, state) ==
    \/ IsReply(m) /\ m.ports[p] = state
    \/ m.type = "PORT_STATUS" /\ m.port = p /\ m.state = state

\* The reply whose handler is running says so.
Pends(p, state) == pending # <<>> /\ Head(pending).ports[p] = state

\* Message k of the channel, or what the device has or gets, says that p is up.
UpAt(p, k) == IF k = 0 THEN ports[p] = "up" \/ Pends(p, "up") ELSE Reports(in[k], p, "up")

DownBetween(p, k, i) == \E j \in 1..Len(in) : k < j /\ j < i /\ in[j] = DownStatus(p)

DownAnnounced(p) ==
    /\ Pends(p, "down") => ports[p] # "up"
    /\ \A i \in 1..Len(in) : IsReply(in[i]) /\ in[i].ports[p] = "down" =>
        \A k \in 0..Len(in) : k < i /\ UpAt(p, k) => DownBetween(p, k, i)
    /\ conn = "up" /\ link[p] = "down" =>
        \A k \in 0..Len(in) : UpAt(p, k) => DownBetween(p, k, Len(in) + 1)

NoSilentDown == \A p \in Port \ Reserved : DownStatus(p) \notin lost => DownAnnounced(p)

-----------------------------------------------------------------------------
(* What the handlers, the writers and the switch do to the two queues      *)

LEMMA MsgKinds ==
    /\ \A t : Msg(t).type = t
    /\ \A p : LLDP(p).type = "LLDP"
    /\ \A t \in {"HELLO", "BARRIER_REPLY", "DESC_REPLY", "PACKET_IN"} : Msg(t) \in InMsg
    /\ \A t \in Request : Msg(t) \in OutMsg
    /\ \A p \in Port : LLDP(p) \in OutMsg
BY DEF Msg, LLDP, InMsg, OutMsg

LEMMA InKinds ==
    ASSUME NEW m \in InMsg
    PROVE  /\ m.type = "DESC_REPLY" => m = Msg("DESC_REPLY")
           /\ IsReply(m) => m.ports \in [Port -> State]
           /\ m.type = "PORT_STATUS" => m.port \in Port /\ m.state \in State
<1>1. CASE m \in {Msg(t) : t \in {"HELLO", "BARRIER_REPLY", "DESC_REPLY", "PACKET_IN"}}
  BY <1>1, MsgKinds DEF IsReply
<1>2. CASE m \in Reply
  BY <1>2 DEF Reply, IsReply
<1>3. CASE m \in PortStatus
  BY <1>3 DEF PortStatus, IsReply
<1> QED BY <1>1, <1>2, <1>3 DEF InMsg

LEMMA OutKinds ==
    ASSUME NEW m \in OutMsg
    PROVE  /\ m.type = "FLOW_ADD" => m.flow \in Flow
           /\ m.type = "FLOW_DELETE" => m.vlan \in BOOLEAN /\ m.mask \in BOOLEAN
<1>1. CASE m \in {Msg(t) : t \in Request} \/ m \in {LLDP(p) : p \in Port}
  BY <1>1, MsgKinds DEF Request
<1>2. CASE m \in FlowAdd
  BY <1>2 DEF FlowAdd
<1>3. CASE m \in FlowDel
  BY <1>3 DEF FlowDel
<1> QED BY <1>1, <1>2, <1>3 DEF OutMsg

\* A handler takes the first message.
Took(type) ==
    /\ Len(in) \in Nat \ {0} /\ in[1] = Head(in) /\ in[1] \in InMsg /\ in[1].type = type
    /\ in' \in Seq(InMsg) /\ Len(in') = Len(in) - 1 /\ Len(in') \in Nat
    /\ \A i \in 1..Len(in') : in'[i] = in[i + 1] /\ i + 1 \in 1..Len(in)

LEMMA Takes ==
    ASSUME TypeInv, NEW type, Receive(type)
    PROVE  Took(type)
<1>1. in \in Seq(InMsg) /\ in # <<>> /\ in' = Tail(in) /\ Head(in).type = type
  BY DEF Receive, TypeInv
<1>2. /\ Head(in) \in InMsg /\ Tail(in) \in Seq(InMsg) /\ Len(Tail(in)) = Len(in) - 1
      /\ \A i \in 1..Len(Tail(in)) : Tail(in)[i] = in[i + 1]
  BY <1>1, HeadTailProperties
<1>3. Len(in) \in Nat \ {0} /\ Head(in) = in[1]
  BY <1>1, EmptySeq
<1>4. \A i \in 1..(Len(in) - 1) : i + 1 \in 1..Len(in)
  BY <1>3
<1> QED BY <1>1, <1>2, <1>3, <1>4 DEF Took

\* A writer adds messages of S.
Adds(S) ==
    /\ out' \in Seq(OutMsg) /\ Len(out) \in Nat /\ Len(out') \in Nat /\ Len(out) <= Len(out')
    /\ \A i \in 1..Len(out) : out'[i] = out[i] /\ i \in 1..Len(out')
    /\ \A i \in 1..Len(out') : i > Len(out) => out'[i] \in S

LEMMA AddsNone ==
    ASSUME TypeInv, NEW S, out' = out
    PROVE  Adds(S)
<1>1. Len(out) \in Nat /\ out \in Seq(OutMsg)
  BY LenProperties DEF TypeInv
<1> QED BY <1>1 DEF Adds

LEMMA AddsAll ==
    ASSUME TypeInv, NEW S \in SUBSET OutMsg, NEW ms \in Seq(S), out' = out \o ms
    PROVE  Adds(S) /\ Len(out') = Len(out) + Len(ms)
<1>1. out \in Seq(OutMsg) /\ ms \in Seq(OutMsg) /\ Len(ms) \in Nat /\ Len(out) \in Nat
  BY SeqMonotonic, LenProperties DEF TypeInv
<1>2. /\ out' \in Seq(OutMsg) /\ Len(out') = Len(out) + Len(ms)
      /\ \A i \in 1..Len(out) + Len(ms) : out'[i] = IF i <= Len(out) THEN out[i] ELSE ms[i - Len(out)]
  BY <1>1, ConcatProperties
<1>3. ASSUME NEW i \in 1..Len(out'), i > Len(out) PROVE out'[i] \in S
  <2>1. i - Len(out) \in 1..Len(ms)
    BY <1>1, <1>2, <1>3
  <2>2. ms[i - Len(out)] \in S
    BY <2>1, ElementOfSeq
  <2> QED BY <1>1, <1>2, <1>3, <2>2
<1> QED BY <1>1, <1>2, <1>3 DEF Adds

LEMMA AddsOne ==
    ASSUME TypeInv, NEW m \in OutMsg, out' = Append(out, m)
    PROVE  Adds({m}) /\ Len(out') = Len(out) + 1
<1>1. out \in Seq(OutMsg) /\ Len(out) \in Nat
  BY LenProperties DEF TypeInv
<1>2. /\ out' \in Seq(OutMsg) /\ Len(out') = Len(out) + 1
      /\ \A i \in 1..Len(out) : out'[i] = out[i]
      /\ out'[Len(out) + 1] = m
  BY <1>1, AppendProperties
<1> QED BY <1>1, <1>2 DEF Adds

\* sendLLDPs: the ports are finitely many, so the frames can be put in order.
LEMMA LLDPSequence ==
    ASSUME NEW S \in SUBSET Port
    PROVE  LLDPs(S) \in Seq({LLDP(p) : p \in Port})
<1> DEFINE F == {LLDP(p) : p \in S}
           f == [p \in S |-> LLDP(p)]
<1>1. IsFiniteSet(S)
  BY FS_Subset, Bounds
<1>2. f \in Surjection(S, F)
  BY DEF Surjection
<1>3. IsFiniteSet(F)
  BY <1>1, <1>2, FS_Surjection
<1> HIDE DEF F
<1>4. Cardinality(F) \in Nat /\ ExistsBijection(1..Cardinality(F), F)
  BY <1>3, FS_CardinalityType
<1>5. \E g \in [1..Cardinality(F) -> F] : IsInjective(g)
  BY <1>4 DEF ExistsBijection, Bijection, Injection
<1>6. SetToSeq(F) \in [1..Cardinality(F) -> F]
  BY <1>5 DEF SetToSeq
<1>7. SetToSeq(F) \in Seq(F)
  BY <1>4, <1>6
<1>8. F \subseteq {LLDP(p) : p \in Port}
  BY DEF F
<1> QED BY <1>7, <1>8, SeqMonotonic DEF LLDPs, F

\* The transceiver puts m into the channel, or drops it.
Arrived(m) ==
    /\ Len(in) \in Nat /\ in' \in Seq(InMsg) /\ Len(in') = Len(in) + 1 /\ Len(in') <= Capacity
    /\ \A i \in 1..Len(in) : in'[i] = in[i] /\ i \in 1..Len(in')
    /\ in'[Len(in) + 1] = m /\ Len(in) + 1 \in 1..Len(in')
    /\ lost' = lost
Dropped(m) == in' = in /\ lost' = lost \cup {m}

LEMMA Sends ==
    ASSUME TypeInv, NEW m \in InMsg, Send(m)
    PROVE  Arrived(m) \/ Dropped(m)
<1>1. in \in Seq(InMsg) /\ Len(in) \in Nat
  BY LenProperties DEF TypeInv
<1>2. CASE Len(in) < Capacity
  <2>1. in' = Append(in, m) /\ lost' = lost
    BY <1>2 DEF Send
  <2>2. /\ in' \in Seq(InMsg) /\ Len(in') = Len(in) + 1
        /\ \A i \in 1..Len(in) : in'[i] = in[i]
        /\ in'[Len(in) + 1] = m
    BY <2>1, <1>1, AppendProperties
  <2> QED BY <2>1, <2>2, <1>1, <1>2, Bounds DEF Arrived
<1>3. CASE ~(Len(in) < Capacity)
  BY <1>3 DEF Send, Dropped
<1> QED BY <1>2, <1>3

\* The reply that m asks for
AnswerTo(m, a) ==
    \/ m.type = "BARRIER_REQUEST" /\ a = Msg("BARRIER_REPLY")
    \/ m.type = "DESC_REQUEST" /\ a = Msg("DESC_REPLY")
    \/ m.type = "FEATURES_REQUEST" /\ a = [type |-> "FEATURES_REPLY", ports |-> link]
    \/ m.type = "PORT_DESC_REQUEST" /\ a = [type |-> "PORT_DESC_REPLY", ports |-> link]
Asks(m) == m.type \in {"BARRIER_REQUEST", "DESC_REQUEST", "FEATURES_REQUEST", "PORT_DESC_REQUEST"}

LEMMA Answers ==
    ASSUME TypeInv, NEW m, Answer(m)
    PROVE  \/ ~Asks(m) /\ UNCHANGED <<in, lost>>
           \/ \E a \in InMsg : AnswerTo(m, a) /\ (Arrived(a) \/ Dropped(a))
<1>1. \A t \in {"FEATURES_REPLY", "PORT_DESC_REPLY"} : [type |-> t, ports |-> link] \in InMsg
  BY DEF InMsg, Reply, State, TypeInv, TypeOK
<1>2. Msg("BARRIER_REPLY") \in InMsg /\ Msg("DESC_REPLY") \in InMsg
  BY MsgKinds
<1>3. CASE m.type = "BARRIER_REQUEST"
  <2>1. Send(Msg("BARRIER_REPLY"))
    BY <1>3 DEF Answer
  <2> QED BY <2>1, <1>2, <1>3, Sends DEF AnswerTo
<1>4. CASE m.type = "DESC_REQUEST"
  <2>1. Send(Msg("DESC_REPLY"))
    BY <1>4 DEF Answer
  <2> QED BY <2>1, <1>2, <1>4, Sends DEF AnswerTo
<1>5. CASE m.type = "FEATURES_REQUEST"
  <2>1. Send([type |-> "FEATURES_REPLY", ports |-> link])
    BY <1>5 DEF Answer
  <2> QED BY <2>1, <1>1, <1>5, Sends DEF AnswerTo
<1>6. CASE m.type = "PORT_DESC_REQUEST"
  <2>1. Send([type |-> "PORT_DESC_REPLY", ports |-> link])
    BY <1>6 DEF Answer
  <2> QED BY <2>1, <1>1, <1>6, Sends DEF AnswerTo
<1>7. CASE ~Asks(m)
  BY <1>7 DEF Answer, Asks
<1> QED BY <1>3, <1>4, <1>5, <1>6, <1>7 DEF Asks

\* The switch takes the first message.
Read ==
    /\ Len(out) \in Nat \ {0} /\ out[1] = Head(out) /\ out[1] \in OutMsg
    /\ out' \in Seq(OutMsg) /\ Len(out') = Len(out) - 1 /\ Len(out') \in Nat
    /\ \A i \in 1..Len(out') : out'[i] = out[i + 1] /\ i + 1 \in 1..Len(out)

LEMMA Reads ==
    ASSUME TypeInv, SwitchHandles
    PROVE  Read
<1>1. out \in Seq(OutMsg) /\ out # <<>> /\ out' = Tail(out)
  BY DEF SwitchHandles, TypeInv
<1>2. /\ Head(out) \in OutMsg /\ Tail(out) \in Seq(OutMsg) /\ Len(Tail(out)) = Len(out) - 1
      /\ \A i \in 1..Len(Tail(out)) : Tail(out)[i] = out[i + 1]
  BY <1>1, HeadTailProperties
<1>3. Len(out) \in Nat \ {0} /\ Head(out) = out[1]
  BY <1>1, EmptySeq
<1>4. \A i \in 1..(Len(out) - 1) : i + 1 \in 1..Len(out)
  BY <1>3
<1> QED BY <1>1, <1>2, <1>3, <1>4 DEF Read

-----------------------------------------------------------------------------
(* What each handler writes *)

LEMMA PreludeMsgs ==
    ASSUME TypeInv
    PROVE  /\ Prelude \in Seq(OutMsg) /\ Len(Prelude) = 7
           /\ Prelude[1].type = "HELLO" /\ Prelude[2].type = "SET_CONFIG"
           /\ Prelude[3] = sendRemoveAllFlows
           /\ Prelude[4] = setTemporaryDrop /\ Prelude[5] = setARPSender /\ Prelude[6] = setLLDPSender
           /\ Prelude[7] = Msg("BARRIER_REQUEST")
<1>1. ASSUME NEW what \in {"drop", "arp", "lldp"}, NEW to \in {"drop", "controller"}
      PROVE  setSpecialFlow(what, to) \in OutMsg
  BY DEF setSpecialFlow, OutMsg, FlowAdd, Flow, TypeInv, TypeOK
<1>2. sendRemoveAllFlows \in OutMsg
  BY DEF sendRemoveAllFlows, FlowDelete, OutMsg, FlowDel, AnyPort
<1>3. Msg("HELLO") \in OutMsg /\ Msg("SET_CONFIG") \in OutMsg /\ Msg("BARRIER_REQUEST") \in OutMsg
  BY MsgKinds DEF Request
<1>4. setTemporaryDrop \in OutMsg /\ setARPSender \in OutMsg /\ setLLDPSender \in OutMsg
  BY <1>1 DEF setTemporaryDrop, setARPSender, setLLDPSender
<1> QED BY <1>2, <1>3, <1>4, MsgKinds DEF Prelude

\* What the handlers and the applications write after the checkpoint
NormalAdd(p, id) ==
    [type |-> "FLOW_ADD",
     flow |-> [what |-> "normal", vlan |-> TRUE, msb |-> FALSE, tableID |-> id, to |-> p, gen |-> gen]]

MissAdds == {setTableMiss(0, "goto"), setTableMiss(100, "goto"), setTableMiss(200, "controller"),
             setTableMiss(0, "controller")}

LEMMA LaterMsgs ==
    ASSUME TypeInv
    PROVE  /\ MissAdds \subseteq OutMsg
           /\ \A p \in Port, id \in {0, 200} : NormalAdd(p, id) \in OutMsg
           /\ \A p \in Port \cup {AnyPort} : deleteNormal(p) \in OutMsg
<1>1. ASSUME NEW id \in {0, 100, 200}, NEW to \in {"goto", "controller"}
      PROVE  setTableMiss(id, to) \in OutMsg
  BY DEF setTableMiss, OutMsg, FlowAdd, Flow, TypeInv, TypeOK
<1>2. ASSUME NEW p \in Port, NEW id \in {0, 200} PROVE NormalAdd(p, id) \in OutMsg
  BY DEF NormalAdd, OutMsg, FlowAdd, Flow, TypeInv, TypeOK
<1>3. ASSUME NEW p \in Port \cup {AnyPort} PROVE deleteNormal(p) \in OutMsg
  BY DEF deleteNormal, FlowDelete, OutMsg, FlowDel
<1> QED BY <1>1, <1>2, <1>3 DEF MissAdds

\* Messages of S are written, or the connection turns out to be broken.
Writes(S) ==
    /\ Adds(S)
    /\ conn' = conn \/ (conn = "broken" /\ conn' = "closed")
    /\ conn # "up" => out' = out

AllLLDP == {LLDP(p) : p \in Port}

LEMMA BarrierWrites ==
    ASSUME TypeInv, OnBarrierReply
    PROVE  Writes({Msg("DESC_REQUEST"), Msg("FEATURES_REQUEST")})
<1> DEFINE S == {Msg("DESC_REQUEST"), Msg("FEATURES_REQUEST")}
<1>1. S \in SUBSET OutMsg
  BY MsgKinds DEF Request
<1>2. <<Msg("DESC_REQUEST"), Msg("FEATURES_REQUEST")>> \in Seq(S) /\ <<Msg("FEATURES_REQUEST")>> \in Seq(S)
  OBVIOUS
<1>3. CASE out' = out
  BY <1>3, AddsNone DEF OnBarrierReply, Write, Fail, Writes
<1>4. ASSUME NEW ms \in Seq(S), Write(ms) PROVE Writes(S)
  BY <1>1, <1>4, AddsAll DEF Write, Writes
<1> QED BY <1>2, <1>3, <1>4 DEF OnBarrierReply, Fail

LEMMA LLDPsWritten ==
    ASSUME TypeInv, NEW reply, sendLLDPs(reply)
    PROVE  Writes(AllLLDP)
<1>1. AllLLDP \in SUBSET OutMsg
  BY MsgKinds DEF AllLLDP
<1>2. LLDPs(Up(reply)) \in Seq(AllLLDP)
  BY LLDPSequence DEF Up, AllLLDP
<1>3. CASE conn = "up"
  BY <1>1, <1>2, <1>3, AddsAll DEF sendLLDPs, Writes
<1>4. CASE conn # "up"
  BY <1>4, AddsNone DEF sendLLDPs, Writes
<1> QED BY <1>3, <1>4

LEMMA OneWritten ==
    ASSUME TypeInv, NEW m \in OutMsg, Write(<<m>>) \/ Fail
    PROVE  Writes({m}) /\ (conn' = "up" => Len(out') = Len(out) + 1)
<1>1. <<m>> \in Seq({m}) /\ Len(<<m>>) = 1
  OBVIOUS
<1>2. CASE Write(<<m>>)
  BY <1>1, <1>2, AddsAll DEF Write, Writes
<1>3. CASE Fail
  BY <1>3, AddsNone DEF Fail, Writes
<1> QED BY <1>2, <1>3

\* OpenFlow 1.3 asks for the description.
LEMMA FeaturesWrites ==
    ASSUME TypeInv, HandlerOnFeaturesReply
    PROVE  /\ version = "OF10" => Writes(AllLLDP)
           /\ version = "OF13" => /\ Writes({Msg("DESC_REQUEST")})
                                  /\ conn' = "up" => Len(out') = Len(out) + 1
<1>1. CASE version = "OF10"
  BY <1>1, LLDPsWritten DEF HandlerOnFeaturesReply
<1>2. CASE version = "OF13"
  <2>1. Msg("DESC_REQUEST") \in OutMsg
    BY MsgKinds DEF Request
  <2> QED BY <2>1, <1>2, OneWritten DEF HandlerOnFeaturesReply
<1> QED BY <1>1, <1>2

LEMMA DescWrites ==
    ASSUME TypeInv, OnDescReply
    PROVE  Writes(MissAdds \cup {Msg("PORT_DESC_REQUEST")})
<1> DEFINE S == MissAdds \cup {Msg("PORT_DESC_REQUEST")}
<1>1. S \in SUBSET OutMsg
  BY MsgKinds, LaterMsgs DEF Request
<1>2. TableMiss \o <<Msg("PORT_DESC_REQUEST")>> \in Seq(S)
  <2>1. TableMiss \in Seq(S)
    <3>1. <<setTableMiss(0, "goto"), setTableMiss(100, "goto"), setTableMiss(200, "controller")>> \in Seq(S)
      BY DEF MissAdds
    <3>2. <<>> \in Seq(S) /\ <<setTableMiss(0, "controller")>> \in Seq(S)
      BY DEF MissAdds
    <3> QED BY <3>1, <3>2 DEF TableMiss, TypeInv, TypeOK
  <2>2. <<Msg("PORT_DESC_REQUEST")>> \in Seq(S)
    OBVIOUS
  <2> QED BY <2>1, <2>2, ConcatProperties
<1> HIDE DEF S
<1>3. ASSUME out' = out PROVE Writes(S)
  BY <1>3, AddsNone DEF OnDescReply, Write, Fail, Writes
<1>4. ASSUME Write(TableMiss \o <<Msg("PORT_DESC_REQUEST")>>) PROVE Writes(S)
  BY <1>1, <1>2, <1>4, AddsAll DEF Write, Writes
<1> QED BY <1>3, <1>4 DEF OnDescReply, Fail, S

LEMMA PortDescWrites ==
    ASSUME TypeInv, OnPortDescReply
    PROVE  Writes(AllLLDP)
BY LLDPsWritten DEF OnPortDescReply

LEMMA PortStatusWrites ==
    ASSUME TypeInv, OnPortStatus
    PROVE  Writes(AllLLDP) /\ (~ready => out' = out /\ conn' = conn)
<1>1. Head(in).port \in Port
  BY Takes, InKinds DEF OnPortStatus, Took
<1>2. CASE Head(in).state = "up" /\ ready
  <2> DEFINE p == Head(in).port
  <2>1. LLDP(p) \in OutMsg /\ {LLDP(p)} \subseteq AllLLDP
    BY <1>1, MsgKinds DEF AllLLDP
  <2>2. Write(<<LLDP(p)>>) \/ Fail
    BY <1>2 DEF OnPortStatus
  <2>3. Writes({LLDP(p)})
    BY <2>1, <2>2, OneWritten
  <2> QED BY <1>2, <2>1, <2>3 DEF Writes, Adds
<1>3. CASE ~(Head(in).state = "up" /\ ready)
  <2>1. out' = out /\ conn' = conn
    BY <1>3 DEF OnPortStatus
  <2> QED BY <2>1, <1>3, AddsNone DEF Writes
<1> QED BY <1>2, <1>3

LEMMA ExplorerWrites ==
    ASSUME TypeInv, runDeviceExplorer
    PROVE  Writes({Msg(PortsRequest)}) /\ Len(out') = Len(out) + 1
<1>1. Msg(PortsRequest) \in OutMsg
  BY MsgKinds DEF PortsRequest, Request
<1> QED BY <1>1, AddsOne DEF runDeviceExplorer, Writes

LEMMA SetFlowWrites ==
    ASSUME TypeInv, NEW p \in Port, SetFlow(p)
    PROVE  Writes({NormalAdd(p, IF version = "OF10" THEN 0 ELSE flowTableID), Msg("BARRIER_REQUEST")})
<1> DEFINE a == NormalAdd(p, IF version = "OF10" THEN 0 ELSE flowTableID)
           b == Msg("BARRIER_REQUEST")
<1>1. a \in OutMsg
  BY LaterMsgs DEF TypeInv, TypeOK
<1>2. b \in OutMsg
  BY MsgKinds DEF Request
<1>3. conn = "up" /\ conn' = conn /\ out' = out \o <<a, b>>
  BY DEF SetFlow, NormalAdd
<1> HIDE DEF a, b
<1>4. <<a, b>> \in Seq({a, b})
  OBVIOUS
<1>5. Writes({a, b})
  BY <1>1, <1>2, <1>3, <1>4, AddsAll DEF Writes
<1> QED BY <1>5 DEF a, b

LEMMA RemoveWrites ==
    ASSUME TypeInv, NEW to \in Port \cup {AnyPort}, conn = "up", conn' = conn,
           out' = Append(out, deleteNormal(to))
    PROVE  Writes({deleteNormal(to)})
BY LaterMsgs, AddsOne DEF Writes

-----------------------------------------------------------------------------
(* Types *)

LEMMA FirstMessage ==
    /\ <<Msg("HELLO")>> \in Seq(InMsg) /\ <<>> \in Seq(OutMsg) /\ <<>> \in Seq(Reply)
    /\ Len(<<Msg("HELLO")>>) = 1 /\ <<Msg("HELLO")>>[1].type = "HELLO" /\ Len(<<>>) = 0
BY MsgKinds

LEMMA TypeInit == Init => TypeInv
<1> SUFFICES ASSUME Init PROVE TypeInv
  OBVIOUS
<1>1. TypeOK
  <2>1. gen \in 1..MaxSessions /\ Len(in) <= Capacity /\ Len(pending) <= 1 /\ inputs \in 0..MaxInputs
    BY Bounds, FirstMessage DEF Init
  <2>2. negotiated \in BOOLEAN /\ checkpoint \in BOOLEAN /\ ready \in BOOLEAN /\ early \in BOOLEAN
    BY DEF Init
  <2>3. /\ flowTableID \in {0, 200} /\ table \subseteq Flow
        /\ ports \in [Port -> {"nil", "up", "down"}] /\ told \in [Port -> {"nil", "up", "down"}]
    BY DEF Init
  <2> QED BY <2>1, <2>2, <2>3 DEF Init, TypeOK
<1> QED BY <1>1, FirstMessage DEF Init, TypeInv

\* The reply whose handler is running
LEMMA PendingReply ==
    ASSUME TypeInv, pending # <<>>
    PROVE  Head(pending).ports \in [Port -> State]
<1>1. Head(pending) \in Reply
  BY HeadTailProperties DEF TypeInv
<1> QED BY <1>1 DEF Reply

LEMMA ReplyTaken ==
    ASSUME TypeInv, OnFeaturesReply
    PROVE  /\ Took("FEATURES_REPLY") /\ IsReply(in[1])
           /\ pending = <<>> /\ pending' # <<>> /\ Head(pending') = in[1]
           /\ pending' \in Seq(Reply) /\ Len(pending') <= 1
<1>1. Took("FEATURES_REPLY") /\ pending = <<>> /\ pending' = <<Head(in)>>
  BY Takes DEF OnFeaturesReply, Receive
<1>2. in[1] \in InMsg /\ in[1].type = "FEATURES_REPLY" /\ in[1] = Head(in)
  BY <1>1 DEF Took
<1>3. in[1] \in Reply
  <2>1. in[1] \notin {Msg(t) : t \in {"HELLO", "BARRIER_REPLY", "DESC_REPLY", "PACKET_IN"}}
    BY <1>2, MsgKinds
  <2>2. in[1] \notin PortStatus
    BY <1>2 DEF PortStatus
  <2> QED BY <1>2, <2>1, <2>2 DEF InMsg
<1>4. pending' \in Seq(Reply) /\ Len(pending') = 1 /\ Head(pending') = in[1]
  BY <1>1, <1>2, <1>3
<1>5. pending' # <<>>
  BY <1>4
<1> QED BY <1>1, <1>2, <1>4, <1>5 DEF IsReply

LEMMA HandleTypes ==
    ASSUME TypeInv, Handle
    PROVE  TypeInv'
<1> USE DEF TypeInv
<1>1. ASSUME NEW t, Took(t) PROVE in' \in Seq(InMsg) /\ Len(in') <= Capacity
  BY <1>1, Bounds DEF Took, TypeOK
<1>2. ASSUME NEW S, Writes(S) PROVE out' \in Seq(OutMsg) /\ conn' \in {"up", "broken", "closed"}
  BY <1>2 DEF Writes, Adds, TypeOK
<1>3. CASE OnHello
  <2>1. in' \in Seq(InMsg) /\ Len(in') <= Capacity
    BY <1>1, <1>3, Takes DEF OnHello
  <2>2. out' \in Seq(OutMsg)
    <3>1. CASE out' = out
      BY <3>1
    <3>2. CASE out' = out \o Prelude
      BY <3>2, PreludeMsgs, ConcatProperties
    <3> QED BY <1>3, <3>1, <3>2 DEF OnHello, Write, Fail, Prelude
  <2>3. conn' \in {"up", "broken", "closed"} /\ negotiated' \in BOOLEAN
    BY <1>3 DEF OnHello, Write, Fail, TypeOK
  <2> QED BY <1>3, <2>1, <2>2, <2>3 DEF OnHello, TypeOK, switchVars, device, history
<1>4. CASE OnBarrierReply
  <2>1. in' \in Seq(InMsg) /\ Len(in') <= Capacity
    BY <1>1, <1>4, Takes DEF OnBarrierReply
  <2>2. out' \in Seq(OutMsg) /\ conn' \in {"up", "broken", "closed"}
    BY <1>2, <1>4, BarrierWrites
  <2>3. checkpoint' \in BOOLEAN
    BY <1>4 DEF OnBarrierReply, TypeOK
  <2> QED BY <1>4, <2>1, <2>2, <2>3 DEF OnBarrierReply, TypeOK, switchVars, device, history
<1>5. CASE OnFeaturesReply
  <2>1. Took("FEATURES_REPLY") /\ pending' \in Seq(Reply) /\ Len(pending') <= 1
    BY <1>5, ReplyTaken
  <2>2. in' \in Seq(InMsg) /\ Len(in') <= Capacity
    BY <1>1, <2>1
  <2> QED BY <1>5, <2>1, <2>2 DEF OnFeaturesReply, TypeOK, switchVars, history
<1>10. CASE HandlerOnFeaturesReply
  <2>1. pending' \in Seq(Reply) /\ Len(pending') <= 1
    BY <1>10, FirstMessage DEF HandlerOnFeaturesReply
  <2>2. out' \in Seq(OutMsg) /\ conn' \in {"up", "broken", "closed"}
    BY <1>2, <1>10, FeaturesWrites DEF TypeOK
  <2>3. ports' \in [Port -> {"nil", "up", "down"}]
    BY <1>10, PendingReply DEF HandlerOnFeaturesReply, setPort, State, TypeOK
  <2> QED BY <1>10, <2>1, <2>2, <2>3 DEF HandlerOnFeaturesReply, TypeOK, switchVars, history
<1>6. CASE OnDescReply
  <2>1. in' \in Seq(InMsg) /\ Len(in') <= Capacity
    BY <1>1, <1>6, Takes DEF OnDescReply
  <2>2. out' \in Seq(OutMsg) /\ conn' \in {"up", "broken", "closed"}
    BY <1>2, <1>6, DescWrites
  <2>3. flowTableID' \in {0, 200}
    BY <1>6 DEF OnDescReply, FlowTableID, TypeOK
  <2> QED BY <1>6, <2>1, <2>2, <2>3 DEF OnDescReply, TypeOK, switchVars, negotiation, history
<1>7. CASE OnPortDescReply
  <2>1. Took("PORT_DESC_REPLY")
    BY <1>7, Takes DEF OnPortDescReply
  <2>2. in' \in Seq(InMsg) /\ Len(in') <= Capacity
    BY <1>1, <2>1
  <2>3. out' \in Seq(OutMsg) /\ conn' \in {"up", "broken", "closed"}
    BY <1>2, <1>7, PortDescWrites
  <2>4. ports' \in [Port -> {"nil", "up", "down"}]
    BY <1>7, <2>1, InKinds DEF OnPortDescReply, setPort, Took, IsReply, State, TypeOK
  <2> QED BY <1>7, <2>2, <2>3, <2>4 DEF OnPortDescReply, TypeOK, switchVars, negotiation, history
<1>8. CASE OnPortStatus
  <2>1. Took("PORT_STATUS")
    BY <1>8, Takes DEF OnPortStatus
  <2>2. in' \in Seq(InMsg) /\ Len(in') <= Capacity
    BY <1>1, <2>1
  <2>3. out' \in Seq(OutMsg) /\ conn' \in {"up", "broken", "closed"}
    BY <1>2, <1>8, PortStatusWrites
  <2>4. Head(in).port \in Port /\ Head(in).state \in {"up", "down"}
    BY <2>1, InKinds DEF Took, State
  <2>5. ports' \in [Port -> {"nil", "up", "down"}] /\ told' \in [Port -> {"nil", "up", "down"}]
    BY <1>8, <2>4 DEF OnPortStatus, sendPortEvent, TypeOK
  <2>6. early' \in BOOLEAN
    BY <1>8 DEF OnPortStatus, TypeOK
  <2> QED BY <1>8, <2>2, <2>3, <2>5, <2>6 DEF OnPortStatus, TypeOK, switchVars, negotiation
<1>9. CASE OnPacketIn
  <2>1. in' \in Seq(InMsg) /\ Len(in') <= Capacity
    BY <1>1, <1>9, Takes DEF OnPacketIn
  <2> QED BY <1>9, <2>1 DEF OnPacketIn, TypeOK, switchVars, negotiation, device, history
<1> QED BY <1>3, <1>4, <1>5, <1>6, <1>7, <1>8, <1>9, <1>10 DEF Handle

LEMMA TypeStep == TypeInv /\ [Next]_vars => TypeInv'
<1> SUFFICES ASSUME TypeInv, [Next]_vars PROVE TypeInv'
  OBVIOUS
<1> USE DEF TypeInv, switchVars, negotiation, device, history
<1>1. CASE Handle
  BY <1>1, HandleTypes
<1>2. ASSUME NEW S, Writes(S) PROVE out' \in Seq(OutMsg)
  BY <1>2 DEF Writes, Adds
<1>3. Input => inputs' \in 0..MaxInputs
  BY Bounds DEF Input, TypeOK
<1>4. CASE runDeviceExplorer
  BY <1>2, <1>4, ExplorerWrites DEF runDeviceExplorer, TypeOK
<1>5. ASSUME NEW p \in Port, SetFlow(p) PROVE TypeInv'
  BY <1>2, <1>3, <1>5, SetFlowWrites, ZenonT(30) DEF SetFlow, TypeOK
<1>6. ASSUME NEW p \in Port, RemoveFlow(p) PROVE TypeInv'
  BY <1>2, <1>3, <1>6, RemoveWrites, ZenonT(30) DEF RemoveFlow, TypeOK
<1>7. CASE RemoveFlows
  BY <1>2, <1>3, <1>7, RemoveWrites, ZenonT(30) DEF RemoveFlows, TypeOK
<1>8. ASSUME NEW m, Arrived(m) \/ Dropped(m) PROVE in' \in Seq(InMsg) /\ Len(in') <= Capacity
  BY <1>8 DEF Arrived, Dropped, TypeOK
<1>9. CASE SwitchHandles
  <2> DEFINE m == Head(out)
  <2>1. Read
    BY <1>9, Reads
  <2>2. in' \in Seq(InMsg) /\ Len(in') <= Capacity
    <3>1. Answer(m)
      BY <1>9 DEF SwitchHandles
    <3>2. CASE UNCHANGED <<in, lost>>
      BY <3>2 DEF TypeOK
    <3> QED BY <3>1, <3>2, <1>8, Answers
  <2>3. m \in OutMsg
    BY <2>1 DEF Read
  <2>4. m.type = "FLOW_ADD" => m.flow \in Flow
    BY <2>3, OutKinds
  <2>5. table' \subseteq Flow
    BY <1>9, <2>4 DEF SwitchHandles, TypeOK
  <2> QED BY <1>9, <2>1, <2>2, <2>5 DEF SwitchHandles, Read, TypeOK
<1>10. CASE DropExpires
  BY <1>10 DEF DropExpires, TypeOK
<1>11. CASE PacketIn
  <2>1. in' \in Seq(InMsg) /\ Len(in') <= Capacity
    BY <1>8, <1>11, Sends, MsgKinds DEF PacketIn
  <2> QED BY <1>3, <1>11, <2>1 DEF PacketIn, TypeOK
<1>12. ASSUME NEW p \in Port, PortChanges(p) PROVE TypeInv'
  <2>1. link' \in [Port -> {"up", "down"}]
    BY <1>12 DEF PortChanges, TypeOK
  <2>2. [type |-> "PORT_STATUS", port |-> p, state |-> link'[p]] \in InMsg
    BY <2>1 DEF InMsg, PortStatus, State
  <2>3. in' \in Seq(InMsg) /\ Len(in') <= Capacity
    BY <1>8, <1>12, <2>2, Sends DEF PortChanges, TypeOK
  <2> QED BY <1>3, <1>12, <2>1, <2>3 DEF PortChanges, TypeOK
<1>13. CASE Break
  BY <1>13, FirstMessage DEF Break, TypeOK
<1>14. CASE Disconnect
  BY <1>14 DEF Disconnect, TypeOK
<1>15. CASE newSession
  <2>1. gen' \in 1..MaxSessions /\ Len(in') <= Capacity /\ Len(pending') <= 1
    BY <1>15, Bounds, FirstMessage DEF newSession, TypeOK
  <2> QED BY <1>15, <2>1, FirstMessage DEF newSession, TypeOK
<1>16. CASE UNCHANGED vars
  BY <1>16 DEF vars, TypeOK
<1> QED BY <1>1, <1>4, <1>5, <1>6, <1>7, <1>9, <1>10, <1>11, <1>12, <1>13, <1>14, <1>15, <1>16 DEF Next

-----------------------------------------------------------------------------
(* The special flows *)

SpecialInv == TypeInv /\ Ordered /\ Generations

LEMMA ComingTook ==
    ASSUME NEW type, Took(type)
    PROVE  Coming(type) /\ \A x : Coming(x)' => Coming(x)
BY DEF Took, Coming

LEMMA ComingArrived ==
    ASSUME NEW m, Arrived(m)
    PROVE  \A x : Coming(x)' => Coming(x) \/ m.type = x
<1> SUFFICES ASSUME NEW x, NEW i \in 1..Len(in'), in'[i].type = x
             PROVE  Coming(x) \/ m.type = x
  BY DEF Coming
<1>1. CASE i = Len(in) + 1
  BY <1>1 DEF Arrived
<1>2. CASE i # Len(in) + 1
  <2>1. i \in 1..Len(in)
    BY <1>2 DEF Arrived
  <2> QED BY <2>1 DEF Arrived, Coming
<1> QED BY <1>1, <1>2

\* Steps that write nothing, and after which nothing new is to come.
LEMMA QuietKeeps ==
    ASSUME SpecialInv, UNCHANGED <<out, gen, negotiation, ready, table>>,
           conn' = conn \/ (conn # "up" /\ conn' # "up"),
           \A x \in {"BARRIER_REPLY", "FEATURES_REPLY", "DESC_REPLY", "PORT_DESC_REPLY"} : Coming(x)' => Coming(x)
    PROVE  Ordered' /\ Generations'
<1> USE DEF negotiation
<1>1. Generations'
  BY DEF SpecialInv, Generations, Harmless
<1>2. Cleared => Cleared'
  BY DEF Cleared, Flushed, Has
<1>3. ASSUME NEW k \in 0..7, Handled(k) PROVE Handled(k)'
  <2>1. Prelude' = Prelude
    BY DEF Prelude, setTemporaryDrop, setARPSender, setLLDPSender, setSpecialFlow
  <2>2. (Flushed => Flushed') /\ (Has("arp") => Has("arp")') /\ (Has("lldp") => Has("lldp")')
    BY DEF Flushed, Has
  <2> QED BY <1>3, <2>1, <2>2 DEF Handled
<1>4. Ordered'
  BY <1>2, <1>3 DEF SpecialInv, Ordered
<1> QED BY <1>1, <1>4

\* What is written from the checkpoint on
LEMMA LaterKeeps ==
    ASSUME SpecialInv, negotiated, Cleared, checkpoint \/ out = <<>>, checkpoint',
           UNCHANGED <<gen, negotiated, table>>, NEW S, Writes(S),
           \A m \in S : Harmless(m) /\ (m.type = "FLOW_ADD" => m.flow.gen = gen)
    PROVE  Ordered' /\ Generations'
<1>1. Cleared'
  BY DEF Cleared, Flushed, Has
<1>2. conn' # "up" => out' = <<>>
  BY DEF SpecialInv, Ordered, Writes
<1>3. Ordered'
  BY <1>1, <1>2 DEF Ordered
<1>4. ASSUME NEW i \in 1..Len(out')
      PROVE  Harmless(out'[i]) /\ (out'[i].type = "FLOW_ADD" => out'[i].flow.gen = gen)
  <2>1. CASE i > Len(out)
    BY <2>1 DEF Writes, Adds
  <2>2. CASE ~(i > Len(out))
    <3>1. i \in 1..Len(out) /\ out'[i] = out[i]
      BY <2>2 DEF Writes, Adds
    <3>2. checkpoint
      BY <3>1, FirstMessage
    <3> QED BY <3>1, <3>2 DEF SpecialInv, Generations
  <2> QED BY <2>1, <2>2
<1>5. Generations'
  BY <1>4 DEF SpecialInv, Generations, Harmless
<1> QED BY <1>3, <1>5

\* The messages that the handlers write then
LEMMA HarmlessMsgs ==
    /\ \A t \in Request : Harmless(Msg(t)) /\ Msg(t).type # "FLOW_ADD"
    /\ \A m \in AllLLDP : Harmless(m) /\ m.type # "FLOW_ADD"
    /\ \A m \in MissAdds : Harmless(m) /\ m.flow.gen = gen
    /\ \A p, id : Harmless(NormalAdd(p, id)) /\ NormalAdd(p, id).flow.gen = gen
    /\ \A p : Harmless(deleteNormal(p)) /\ deleteNormal(p).type # "FLOW_ADD"
<1>1. \A t \in Request : Harmless(Msg(t)) /\ Msg(t).type # "FLOW_ADD"
  BY MsgKinds DEF Harmless, Request
<1>2. \A m \in AllLLDP : Harmless(m) /\ m.type # "FLOW_ADD"
  BY MsgKinds DEF Harmless, AllLLDP
<1>3. \A id, to : Harmless(setTableMiss(id, to)) /\ setTableMiss(id, to).flow.gen = gen
  BY DEF Harmless, setTableMiss
<1>4. \A p, id : Harmless(NormalAdd(p, id)) /\ NormalAdd(p, id).flow.gen = gen
  BY DEF Harmless, NormalAdd
<1>5. \A p : Harmless(deleteNormal(p)) /\ deleteNormal(p).type # "FLOW_ADD"
  BY DEF Harmless, deleteNormal, FlowDelete
<1> QED BY <1>1, <1>2, <1>3, <1>4, <1>5 DEF MissAdds

LEMMA HelloKeeps ==
    ASSUME SpecialInv, OnHello
    PROVE  Ordered' /\ Generations'
<1> USE DEF switchVars, device, history, negotiation
<1>1. \A x : Coming(x)' => Coming(x)
  BY Takes, ComingTook DEF SpecialInv, OnHello
<1>2. CASE negotiated
  BY <1>1, <1>2, QuietKeeps DEF OnHello
<1>3. CASE ~negotiated /\ Fail
  <2>1. out' = <<>> /\ conn' = "closed" /\ UNCHANGED <<gen, checkpoint, pending, ready, table>>
    BY <1>3 DEF OnHello, Fail, SpecialInv, Ordered
  <2>2. Cleared' <=> Cleared
    BY <2>1 DEF Cleared, Flushed, Has
  <2>3. Ordered'
    BY <1>1, <1>3, <2>1, <2>2 DEF SpecialInv, Ordered
  <2>4. Generations'
    BY <1>3, <2>1, FirstMessage DEF SpecialInv, Ordered, Generations
  <2> QED BY <2>3, <2>4
<1>4. CASE ~negotiated /\ ~Fail
  <2>1. /\ conn = "up" /\ conn' = "up" /\ negotiated' = TRUE
        /\ out' = out \o Prelude /\ UNCHANGED <<gen, checkpoint, pending, ready, table>>
    BY <1>4 DEF OnHello, Write, Prelude
  <2>2. out = <<>> /\ ~checkpoint /\ ~Coming("BARRIER_REPLY")
    BY <1>4 DEF SpecialInv, Ordered
  <2>3. Prelude \in Seq(OutMsg) /\ Len(Prelude) = 7
    BY PreludeMsgs DEF SpecialInv
  <2>4. out' = Prelude
    BY <2>1, <2>2, <2>3, ConcatEmptySeq
  <2>5. Prelude' = Prelude
    BY <2>1 DEF Prelude, setTemporaryDrop, setARPSender, setLLDPSender, setSpecialFlow
  <2>6. Handled(0)'
    <3>1. Len(out') = 7 - 0 /\ \A i \in 1..(7 - 0) : out'[i] = Prelude'[i + 0]
      BY <2>3, <2>4, <2>5
    <3>2. ~Coming("BARRIER_REPLY")'
      BY <1>1, <2>2
    <3> QED BY <3>1, <3>2 DEF Handled
  <2>7. Ordered'
    <3>1. \E k \in 0..7 : Handled(k)'
      BY <2>6
    <3> QED BY <3>1, <1>1, <2>1, <2>2 DEF SpecialInv, Ordered
  <2>8. Generations'
    <3>1. ASSUME NEW i \in 1..Len(out'), out'[i].type = "FLOW_ADD" PROVE out'[i].flow.gen = gen'
      <4>0. i \in 1..7
        BY <2>3, <2>4
      <4>1. i \in {1, 2, 3, 4, 5, 6, 7}
        BY <4>0
      <4>2. i \in {4, 5, 6}
        BY <3>1, <4>1, <2>4, PreludeMsgs, MsgKinds DEF SpecialInv, sendRemoveAllFlows, FlowDelete
      <4> QED BY <4>2, <2>1, <2>4, PreludeMsgs
              DEF SpecialInv, setTemporaryDrop, setARPSender, setLLDPSender, setSpecialFlow
    <3> QED BY <3>1, <2>1, <2>2 DEF SpecialInv, Generations
  <2> QED BY <2>7, <2>8
<1> QED BY <1>2, <1>3, <1>4

\* The table, when the switch handles message k + 1 of OnHello
LEMMA PreludeTable ==
    ASSUME SpecialInv, NEW k \in 0..6, Handled(k), SwitchHandles
    PROVE  /\ k + 1 >= 3 => Flushed'
           /\ k + 1 >= 5 => Has("arp")'
           /\ k + 1 >= 6 => Has("lldp")'
           /\ k # 6 => UNCHANGED <<in, lost>>
           /\ k = 6 => Head(out) = Msg("BARRIER_REQUEST")
<1> DEFINE m == Head(out)
<1>1. m = Prelude[k + 1] /\ gen' = gen
  <2>1. Read
    BY Reads DEF SpecialInv
  <2>2. 1 \in 1..(7 - k)
    OBVIOUS
  <2>3. out[1] = Prelude[1 + k]
    BY <2>2, Zenon DEF Handled
  <2>4. 1 + k = k + 1
    OBVIOUS
  <2>5. gen' = gen
    BY DEF SwitchHandles
  <2> QED BY <2>1, <2>3, <2>4, <2>5 DEF Read
<1>2. \/ m.type = "FLOW_ADD" /\ table' = {f \in table : ~Same(f, m.flow)} \cup {m.flow}
      \/ m.type = "FLOW_DELETE" /\ table' = {f \in table : Spared(f, m)}
      \/ m.type \notin {"FLOW_ADD", "FLOW_DELETE"} /\ table' = table
  BY DEF SwitchHandles
<1>3. ~Asks(m) => UNCHANGED <<in, lost>>
  BY DEF SwitchHandles, Answer, Asks
<1> HIDE DEF m
<1>4. CASE k \in {0, 1}
  <2>1. m.type \in {"HELLO", "SET_CONFIG"}
    BY <1>1, <1>4, PreludeMsgs DEF SpecialInv
  <2> QED BY <1>3, <1>4, <2>1 DEF Asks
<1>5. CASE k = 2
  <2>1. m = sendRemoveAllFlows
    BY <1>1, <1>5, PreludeMsgs DEF SpecialInv
  <2>2. m.type = "FLOW_DELETE" /\ \A f : ~Spared(f, m)
    BY <2>1 DEF sendRemoveAllFlows, FlowDelete, Spared
  <2> QED BY <1>2, <1>3, <1>5, <2>2 DEF Asks, Flushed
<1>6. CASE k = 3
  <2>1. m = setTemporaryDrop
    BY <1>1, <1>6, PreludeMsgs DEF SpecialInv
  <2>2. m.type = "FLOW_ADD" /\ m.flow.gen = gen
    BY <2>1 DEF setTemporaryDrop, setSpecialFlow
  <2> QED BY <1>1, <1>2, <1>3, <1>6, <2>2 DEF Asks, Handled, Flushed
<1>7. CASE k = 4
  <2>1. m = setARPSender
    BY <1>1, <1>7, PreludeMsgs DEF SpecialInv
  <2>2. m.type = "FLOW_ADD" /\ m.flow.gen = gen /\ m.flow.what = "arp" /\ ~m.flow.vlan
    BY <2>1 DEF setARPSender, setSpecialFlow
  <2>3. Has("arp")'
    BY <1>1, <1>2, <2>2 DEF Has
  <2> QED BY <1>1, <1>2, <1>3, <1>7, <2>2, <2>3 DEF Asks, Handled, Flushed
<1>8. CASE k = 5
  <2>1. m = setLLDPSender
    BY <1>1, <1>8, PreludeMsgs DEF SpecialInv
  <2>2. m.type = "FLOW_ADD" /\ m.flow.gen = gen /\ m.flow.what = "lldp" /\ ~m.flow.vlan
    BY <2>1 DEF setLLDPSender, setSpecialFlow
  <2>3. Has("lldp")'
    BY <1>1, <1>2, <2>2 DEF Has
  <2>4. Has("arp")'
    BY <1>1, <1>2, <1>8, <2>2 DEF Handled, Has, Same
  <2> QED BY <1>1, <1>2, <1>3, <1>8, <2>2, <2>3, <2>4 DEF Asks, Handled, Flushed
<1>9. CASE k = 6
  <2>1. m = Msg("BARRIER_REQUEST")
    BY <1>1, <1>9, PreludeMsgs DEF SpecialInv
  <2>2. table' = table
    BY <1>2, <2>1, MsgKinds
  <2> QED BY <1>1, <1>9, <2>1, <2>2 DEF Handled, Flushed, Has, m
<1> QED BY <1>4, <1>5, <1>6, <1>7, <1>8, <1>9

LEMMA SwitchKeeps ==
    ASSUME SpecialInv, SwitchHandles
    PROVE  Ordered' /\ Generations'
<1> DEFINE m == Head(out)
<1> USE DEF switchVars, device, negotiation
<1>1. Read /\ UNCHANGED <<conn, gen, negotiated, checkpoint, pending, ready>> /\ conn = "up"
  BY Reads DEF SpecialInv, SwitchHandles
<1>2. m \in OutMsg /\ m = out[1] /\ 1 \in 1..Len(out)
  BY <1>1 DEF Read
<1>3. negotiated
  BY DEF SpecialInv, Ordered, SwitchHandles
<1>4. \/ m.type = "FLOW_ADD" /\ table' = {f \in table : ~Same(f, m.flow)} \cup {m.flow}
      \/ m.type = "FLOW_DELETE" /\ table' = {f \in table : Spared(f, m)}
      \/ m.type \notin {"FLOW_ADD", "FLOW_DELETE"} /\ table' = table
  BY DEF SwitchHandles
<1>5. m.type = "FLOW_ADD" => m.flow.gen = gen
  BY <1>2 DEF SpecialInv, Generations
<1> HIDE DEF m
<1>6. Generations'
  <2>1. \A f \in table' : f.gen <= gen'
    <3>1. \A f \in table : f.gen <= gen
      BY DEF SpecialInv, Generations
    <3>2. gen <= gen
      BY DEF SpecialInv, TypeInv, TypeOK
    <3> QED BY <1>1, <1>4, <1>5, <3>1, <3>2
  <2>2. \A i \in 1..Len(out') : \E j \in 1..Len(out) : out'[i] = out[j]
    BY <1>1 DEF Read
  <2> QED BY <1>1, <2>1, <2>2 DEF SpecialInv, Generations, Harmless
<1>7. CASE checkpoint
  <2>1. Cleared /\ Harmless(m)
    BY <1>2, <1>7 DEF SpecialInv, Ordered, Generations
  <2>2. ASSUME NEW what \in {"arp", "lldp"}, Has(what) PROVE Has(what)'
    <3>1. PICK f \in table : f.what = what /\ f.gen = gen /\ ~f.vlan
      BY <2>2 DEF Has
    <3>2. f \in table'
      BY <1>4, <2>1, <3>1 DEF Harmless, Same, Spared
    <3> QED BY <1>1, <3>1, <3>2 DEF Has
  <2>3. Flushed'
    BY <1>1, <1>4, <1>5, <2>1 DEF Cleared, Flushed
  <2>4. Cleared'
    BY <2>1, <2>2, <2>3 DEF Cleared
  <2>5. Ordered'
    BY <1>1, <1>3, <1>7, <2>4 DEF Ordered
  <2> QED BY <1>6, <2>5
<1>8. CASE ~checkpoint
  <2>1. PICK k \in 0..7 : Handled(k)
    BY <1>1, <1>3, <1>8 DEF SpecialInv, Ordered
  <2>2. k \in 0..6
    <3>1. Len(out) = 7 - k /\ Len(out) # 0
      BY <1>1, <2>1 DEF Handled, Read
    <3> QED BY <3>1
  <2>3. /\ k + 1 >= 3 => Flushed'
        /\ k + 1 >= 5 => Has("arp")'
        /\ k + 1 >= 6 => Has("lldp")'
        /\ k # 6 => UNCHANGED <<in, lost>>
        /\ k = 6 => m = Msg("BARRIER_REQUEST")
    BY <2>1, <2>2, PreludeTable DEF m
  <2>4. \A x : Coming(x)' => Coming(x) \/ (k = 6 /\ x = "BARRIER_REPLY")
    <3>1. CASE k # 6
      BY <3>1, <2>3 DEF Coming
    <3>2. CASE k = 6
      <4>1. Answer(m) /\ m.type = "BARRIER_REQUEST"
        BY <3>2, <2>3, MsgKinds DEF SwitchHandles, m
      <4>2. Send(Msg("BARRIER_REPLY"))
        BY <4>1 DEF Answer
      <4>3. Arrived(Msg("BARRIER_REPLY")) \/ Dropped(Msg("BARRIER_REPLY"))
        BY <4>2, Sends, MsgKinds DEF SpecialInv
      <4>4. CASE Arrived(Msg("BARRIER_REPLY"))
        BY <3>2, <4>4, ComingArrived, MsgKinds
      <4>5. CASE Dropped(Msg("BARRIER_REPLY"))
        BY <4>5 DEF Dropped, Coming
      <4> QED BY <4>3, <4>4, <4>5
    <3> QED BY <3>1, <3>2
  <2>5. ~Coming("BARRIER_REPLY")
    BY <2>1, <2>2 DEF Handled
  <2>6. Handled(k + 1)'
    <3>1. Prelude' = Prelude
      BY <1>1 DEF Prelude, setTemporaryDrop, setARPSender, setLLDPSender, setSpecialFlow
    <3>2. Len(out') = 7 - (k + 1)
      BY <1>1, <2>1, <2>2 DEF Handled, Read
    <3>3. ASSUME NEW i \in 1..(7 - (k + 1)) PROVE out'[i] = Prelude'[i + (k + 1)]
      <4>1. out'[i] = out[i + 1]
        BY <1>1, <3>2 DEF Read
      <4>2. i + 1 \in 1..(7 - k) /\ (i + 1) + k = i + (k + 1)
        BY <2>2
      <4>3. out[i + 1] = Prelude[(i + 1) + k]
        BY <2>1, <4>2 DEF Handled
      <4> QED BY <3>1, <4>1, <4>2, <4>3
    <3>4. Coming("BARRIER_REPLY")' => k + 1 = 7
      BY <2>4, <2>5
    <3> QED BY <2>3, <3>2, <3>3, <3>4 DEF Handled
  <2>7. \E j \in 0..7 : Handled(j)'
    <3>1. k + 1 \in 0..7
      BY <2>2
    <3> QED BY <2>6, <3>1
  <2>8. Coming("BARRIER_REPLY")' => Cleared'
    BY <2>2, <2>3, <2>4, <2>5 DEF Cleared
  <2>9. Ordered'
    BY <1>1, <1>3, <1>8, <2>4, <2>7, <2>8 DEF SpecialInv, Ordered
  <2> QED BY <1>6, <2>9
<1> QED BY <1>7, <1>8

LEMMA DropKeeps ==
    ASSUME SpecialInv, DropExpires
    PROVE  Ordered' /\ Generations'
<1> USE DEF switchVars, device, negotiation, history
<1>1. /\ table' \subseteq table /\ \A f \in table : f.what # "drop" => f \in table'
      /\ UNCHANGED <<conn, gen, negotiated, checkpoint, pending, ready, in, out>>
  BY DEF DropExpires
<1>2. (Flushed => Flushed') /\ \A what \in {"arp", "lldp"} : Has(what) => Has(what)'
  BY <1>1 DEF Flushed, Has
<1>3. \A x : Coming(x)' <=> Coming(x)
  BY <1>1 DEF Coming
<1>4. Prelude' = Prelude
  BY <1>1 DEF Prelude, setTemporaryDrop, setARPSender, setLLDPSender, setSpecialFlow
<1>5. \A k \in 0..7 : Handled(k) => Handled(k)'
  BY <1>1, <1>2, <1>3, <1>4 DEF Handled
<1>6. Cleared => Cleared'
  BY <1>2 DEF Cleared
<1>7. Ordered'
  BY <1>1, <1>3, <1>5, <1>6 DEF SpecialInv, Ordered
<1>8. Generations'
  BY <1>1 DEF SpecialInv, Generations, Harmless
<1> QED BY <1>7, <1>8

LEMMA BreakKeeps ==
    ASSUME SpecialInv, Break
    PROVE  Ordered' /\ Generations'
<1> USE DEF switchVars, device, negotiation, history
<1>1. conn' # "up" /\ out' = <<>> /\ UNCHANGED <<gen, negotiated, checkpoint, pending, ready, in, table>>
  BY DEF Break
<1>2. (Cleared => Cleared') /\ \A x : Coming(x)' <=> Coming(x)
  BY <1>1 DEF Cleared, Flushed, Has, Coming
<1>3. Ordered'
  BY <1>1, <1>2 DEF SpecialInv, Ordered
<1>4. Generations'
  BY <1>1, FirstMessage DEF SpecialInv, Generations
<1> QED BY <1>3, <1>4

LEMMA FirstComing ==
    ASSUME in = <<Msg("HELLO")>>
    PROVE  \A x : Coming(x) => x = "HELLO"
BY FirstMessage DEF Coming

LEMMA newSessionKeeps ==
    ASSUME SpecialInv, newSession
    PROVE  Ordered' /\ Generations'
<1> USE DEF switchVars
<1>1. /\ out' = <<>> /\ in' = <<Msg("HELLO")>> /\ gen' = gen + 1 /\ table' = table
      /\ ~negotiated' /\ ~checkpoint' /\ ~ready' /\ pending' = <<>>
  BY DEF newSession
<1>2. \A x : Coming(x)' => x = "HELLO"
  BY <1>1, FirstMessage DEF Coming
<1>3. Ordered'
  BY <1>1, <1>2 DEF Ordered
<1>4. \A f \in table' : f.gen <= gen'
  BY <1>1 DEF SpecialInv, Generations, TypeInv, TypeOK, Flow
<1>5. Generations'
  BY <1>1, <1>4, FirstMessage DEF Generations
<1> QED BY <1>3, <1>5

\* What the checkpoint rests on: replies that follow it tell that it is passed.
LEMMA Passed ==
    ASSUME SpecialInv
    PROVE  /\ ready \/ pending # <<>> \/ Coming("FEATURES_REPLY") \/ Coming("DESC_REPLY") \/ Coming("PORT_DESC_REPLY") => checkpoint
           /\ checkpoint => negotiated /\ Cleared
BY DEF SpecialInv, Ordered

LEMMA HandleSpecial ==
    ASSUME SpecialInv, Handle
    PROVE  Ordered' /\ Generations'
<1> USE DEF switchVars, device, history, negotiation
<1>1. CASE OnHello
  BY <1>1, HelloKeeps
<1>2. CASE OnBarrierReply
  <2>1. Coming("BARRIER_REPLY") /\ \A x : Coming(x)' => Coming(x)
    BY <1>2, Takes, ComingTook DEF SpecialInv, OnBarrierReply
  <2>2. Cleared /\ negotiated
    BY <2>1 DEF SpecialInv, Ordered
  <2>3. CASE checkpoint \/ (~checkpoint /\ Fail /\ UNCHANGED checkpoint)
    BY <1>2, <2>1, <2>3, QuietKeeps DEF OnBarrierReply, Fail, Write
  <2>4. CASE ~checkpoint /\ ~(Fail /\ UNCHANGED checkpoint)
    <3>1. checkpoint' /\ conn = "up"
      BY <1>2, <2>4 DEF OnBarrierReply, Write
    <3>2. out = <<>>
      <4>1. PICK k \in 0..7 : Handled(k)
        BY <2>2, <2>4, <3>1 DEF SpecialInv, Ordered
      <4>2. Len(out) = 0 /\ out \in Seq(OutMsg)
        BY <2>1, <4>1 DEF Handled, SpecialInv, TypeInv
      <4> QED BY <4>2, EmptySeq
    <3>3. Writes({Msg("DESC_REQUEST"), Msg("FEATURES_REQUEST")})
      BY <1>2, BarrierWrites DEF SpecialInv
    <3>4. UNCHANGED <<gen, negotiated, table>>
      BY <1>2 DEF OnBarrierReply
    <3> QED BY <2>2, <3>1, <3>2, <3>3, <3>4, LaterKeeps, HarmlessMsgs DEF Request
  <2> QED BY <2>3, <2>4
<1>3. CASE OnFeaturesReply
  <2>1. checkpoint /\ negotiated /\ Cleared
    BY <1>3, Takes, ComingTook, Passed DEF SpecialInv, OnFeaturesReply
  <2>2. checkpoint' /\ UNCHANGED <<gen, negotiated, table>>
    BY <1>3, <2>1 DEF OnFeaturesReply
  <2>3. Writes({})
    BY <1>3, AddsNone DEF SpecialInv, OnFeaturesReply, Writes
  <2> QED BY <2>1, <2>2, <2>3, LaterKeeps
<1>8. CASE HandlerOnFeaturesReply
  <2>1. checkpoint /\ negotiated /\ Cleared
    BY <1>8, Passed DEF HandlerOnFeaturesReply
  <2>2. checkpoint' /\ UNCHANGED <<gen, negotiated, table>>
    BY <1>8, <2>1 DEF HandlerOnFeaturesReply
  <2>3. Writes(AllLLDP) \/ Writes({Msg("DESC_REQUEST")})
    BY <1>8, FeaturesWrites DEF SpecialInv, TypeInv, TypeOK
  <2> QED BY <2>1, <2>2, <2>3, LaterKeeps, HarmlessMsgs DEF Request
<1>4. CASE OnDescReply
  <2>1. checkpoint /\ negotiated /\ Cleared
    BY <1>4, Takes, ComingTook, Passed DEF SpecialInv, OnDescReply
  <2>2. checkpoint' /\ UNCHANGED <<gen, negotiated, table>>
    BY <1>4, <2>1 DEF OnDescReply
  <2>3. Writes(MissAdds \cup {Msg("PORT_DESC_REQUEST")})
    BY <1>4, DescWrites DEF SpecialInv
  <2> QED BY <2>1, <2>2, <2>3, LaterKeeps, HarmlessMsgs DEF Request
<1>5. CASE OnPortDescReply
  <2>1. checkpoint /\ negotiated /\ Cleared
    BY <1>5, Takes, ComingTook, Passed DEF SpecialInv, OnPortDescReply
  <2>2. checkpoint' /\ UNCHANGED <<gen, negotiated, table>>
    BY <1>5, <2>1 DEF OnPortDescReply
  <2>3. Writes(AllLLDP)
    BY <1>5, PortDescWrites DEF SpecialInv
  <2> QED BY <2>1, <2>2, <2>3, LaterKeeps, HarmlessMsgs
<1>6. CASE OnPortStatus
  <2>1. \A x : Coming(x)' => Coming(x)
    BY <1>6, Takes, ComingTook DEF SpecialInv, OnPortStatus
  <2>2. Writes(AllLLDP) /\ (~ready => out' = out /\ conn' = conn)
    BY <1>6, PortStatusWrites DEF SpecialInv
  <2>3. CASE ready
    <3>1. checkpoint /\ negotiated /\ Cleared
      BY <2>3, Passed
    <3>2. checkpoint' /\ UNCHANGED <<gen, negotiated, table>>
      BY <1>6, <3>1 DEF OnPortStatus
    <3> QED BY <2>2, <3>1, <3>2, LaterKeeps, HarmlessMsgs
  <2>4. CASE ~ready
    BY <1>6, <2>1, <2>2, <2>4, QuietKeeps DEF OnPortStatus
  <2> QED BY <2>3, <2>4
<1>7. CASE OnPacketIn
  <2>1. \A x : Coming(x)' => Coming(x)
    BY <1>7, Takes, ComingTook DEF SpecialInv, OnPacketIn
  <2> QED BY <1>7, <2>1, QuietKeeps DEF OnPacketIn
<1> QED BY <1>1, <1>2, <1>3, <1>4, <1>5, <1>6, <1>7, <1>8 DEF Handle

LEMMA SpecialStep == SpecialInv /\ [Next]_vars => SpecialInv'
<1> SUFFICES ASSUME SpecialInv, [Next]_vars PROVE Ordered' /\ Generations'
  BY TypeStep DEF SpecialInv
<1> USE DEF switchVars, device, history, negotiation
<1>1. CASE Handle
  BY <1>1, HandleSpecial
<1>2. ASSUME ready, UNCHANGED <<gen, negotiated, checkpoint, table>>, NEW S, Writes(S),
             \A m \in S : Harmless(m) /\ (m.type = "FLOW_ADD" => m.flow.gen = gen)
      PROVE  Ordered' /\ Generations'
  BY <1>2, Passed, LaterKeeps
<1>3. CASE runDeviceExplorer
  <2>1. Writes({Msg(PortsRequest)}) /\ PortsRequest \in Request
    BY <1>3, ExplorerWrites DEF SpecialInv, PortsRequest, Request
  <2> QED BY <1>2, <1>3, <2>1, HarmlessMsgs DEF runDeviceExplorer
<1>4. ASSUME NEW p \in Port, SetFlow(p) PROVE Ordered' /\ Generations'
  <2> DEFINE S == {NormalAdd(p, IF version = "OF10" THEN 0 ELSE flowTableID), Msg("BARRIER_REQUEST")}
  <2>1. Writes(S)
    BY <1>4, SetFlowWrites DEF SpecialInv
  <2>2. \A m \in S : Harmless(m) /\ (m.type = "FLOW_ADD" => m.flow.gen = gen)
    BY HarmlessMsgs DEF Request
  <2>3. ready /\ UNCHANGED <<gen, negotiated, checkpoint, table>>
    BY <1>4 DEF SetFlow
  <2> HIDE DEF S
  <2> QED BY <1>2, <2>1, <2>2, <2>3
<1>5. ASSUME NEW p \in Port, RemoveFlow(p) PROVE Ordered' /\ Generations'
  BY <1>2, <1>5, RemoveWrites, HarmlessMsgs DEF SpecialInv, RemoveFlow
<1>6. CASE RemoveFlows
  BY <1>2, <1>6, RemoveWrites, HarmlessMsgs DEF SpecialInv, RemoveFlows
<1>7. CASE SwitchHandles
  BY <1>7, SwitchKeeps
<1>8. CASE DropExpires
  BY <1>8, DropKeeps
<1>9. ASSUME NEW m, Arrived(m) \/ Dropped(m), m.type \in {"PACKET_IN", "PORT_STATUS"},
             NEW x \in {"BARRIER_REPLY", "FEATURES_REPLY", "DESC_REPLY", "PORT_DESC_REPLY"}
      PROVE  Coming(x)' => Coming(x)
  <2>1. CASE Arrived(m)
    BY <1>9, <2>1, ComingArrived
  <2>2. CASE Dropped(m)
    BY <2>2 DEF Dropped, Coming
  <2> QED BY <1>9, <2>1, <2>2
<1>10. CASE PacketIn
  <2>1. Arrived(Msg("PACKET_IN")) \/ Dropped(Msg("PACKET_IN"))
    BY <1>10, Sends, MsgKinds DEF SpecialInv, PacketIn
  <2>2. Msg("PACKET_IN").type = "PACKET_IN"
    BY MsgKinds
  <2> QED BY <1>9, <1>10, <2>1, <2>2, QuietKeeps DEF PacketIn
<1>11. ASSUME NEW p \in Port, PortChanges(p) PROVE Ordered' /\ Generations'
  <2> DEFINE m == [type |-> "PORT_STATUS", port |-> p, state |-> link'[p]]
  <2>1. m \in InMsg
    BY <1>11 DEF SpecialInv, TypeInv, TypeOK, PortChanges, InMsg, PortStatus, State
  <2>2. m.type = "PORT_STATUS"
    OBVIOUS
  <2>3. CASE conn = "up"
    <3>1. Send(m)
      BY <1>11, <2>3 DEF PortChanges
    <3> HIDE DEF m
    <3>2. Arrived(m) \/ Dropped(m)
      BY <2>1, <3>1, Sends DEF SpecialInv
    <3> QED BY <1>9, <1>11, <2>2, <3>2, QuietKeeps DEF PortChanges
  <2>4. CASE conn # "up"
    BY <1>11, <2>4, QuietKeeps DEF PortChanges, Coming
  <2> QED BY <2>3, <2>4
<1>12. CASE Break
  BY <1>12, BreakKeeps
<1>13. CASE Disconnect
  BY <1>13, QuietKeeps DEF Disconnect, Coming
<1>14. CASE newSession
  BY <1>14, newSessionKeeps
<1>15. CASE UNCHANGED vars
  BY <1>15, QuietKeeps DEF vars, Coming
<1> QED BY <1>1, <1>3, <1>4, <1>5, <1>6, <1>7, <1>8, <1>10, <1>11, <1>12, <1>13, <1>14, <1>15 DEF Next

LEMMA SpecialInit == Init => SpecialInv
<1> SUFFICES ASSUME Init PROVE SpecialInv
  OBVIOUS
<1>1. \A x : Coming(x) => x = "HELLO"
  BY FirstComing DEF Init
<1>2. Ordered
  BY <1>1 DEF Init, Ordered
<1>3. Generations
  BY FirstMessage DEF Init, Generations
<1> QED BY <1>2, <1>3, TypeInit DEF SpecialInv

LEMMA SpecialInvariant == Spec => []SpecialInv
BY SpecialInit, SpecialStep, PTL DEF Spec

\* The variables of the session, its device and the switch keep their types;
\* the channel never has more than its capacity.
THEOREM TypeCorrect == Spec => []TypeOK
<1>1. SpecialInv => TypeOK
  BY DEF SpecialInv, TypeInv
<1> QED BY <1>1, SpecialInvariant, PTL

\* From the first barrier reply on the switch has the ARP and LLDP flows of
\* this session and no flow of an earlier one, whichever messages the full
\* channel drops, whenever the connection breaks, and whatever RemoveFlows,
\* RemoveFlow and SetFlow are called for.
THEOREM AlwaysSpecialFlows == Spec => []SpecialFlowsStay
<1>1. SpecialInv => SpecialFlowsStay
  BY DEF SpecialInv, Ordered, SpecialFlowsStay, Cleared, Flushed, Has
<1> QED BY <1>1, SpecialInvariant, PTL

-----------------------------------------------------------------------------
(* Ports that go down *)

LEMMA DownTook ==
    ASSUME NEW type, Took(type), NEW p \in Port \ Reserved, DownAnnounced(p),
           conn' = "up" => conn = "up", link' = link, Pends(p, "down")' => ports'[p] # "up",
           UpAt(p, 0)' => (UpAt(p, 0) /\ in[1] # DownStatus(p)) \/ Reports(in[1], p, "up")
    PROVE  DownAnnounced(p)'
\* What is known to be up was so one message earlier.
<1>1. ASSUME NEW k \in 0..Len(in'), UpAt(p, k)'
      PROVE  \E l \in 0..Len(in) : UpAt(p, l) /\ (l = k + 1 \/ (k = 0 /\ l = 0 /\ in[1] # DownStatus(p)))
  <2>1. CASE k = 0
    <3>1. UpAt(p, 0)'
      BY <1>1, <2>1 DEF UpAt
    <3>2. CASE UpAt(p, 0) /\ in[1] # DownStatus(p)
      BY <2>1, <3>2 DEF Took
    <3>3. CASE Reports(in[1], p, "up")
      <4>1. 1 \in 0..Len(in) /\ UpAt(p, 1)
        BY <3>3 DEF UpAt, Took
      <4> QED BY <2>1, <4>1
    <3> QED BY <3>1, <3>2, <3>3
  <2>2. CASE k # 0
    <3>1. k \in 1..Len(in') /\ in'[k] = in[k + 1] /\ k + 1 \in 0..Len(in) /\ k + 1 # 0
      BY <2>2 DEF Took
    <3>2. UpAt(p, k + 1)
      BY <1>1, <2>2, <3>1 DEF UpAt, Reports, IsReply
    <3> QED BY <3>1, <3>2
  <2> QED BY <2>1, <2>2
<1>2. ASSUME NEW k \in 0..Len(in'), NEW l \in 0..Len(in), NEW i \in 1..(Len(in') + 1),
             l = k + 1 \/ (k = 0 /\ l = 0 /\ in[1] # DownStatus(p)), DownBetween(p, l, i + 1)
      PROVE  DownBetween(p, k, i)'
  <2>1. PICK j \in 1..Len(in) : l < j /\ j < i + 1 /\ in[j] = DownStatus(p)
    BY <1>2 DEF DownBetween
  <2>2. j # 1
    BY <1>2, <2>1
  <2>3. j - 1 \in 1..Len(in') /\ k < j - 1 /\ j - 1 < i /\ (j - 1) + 1 = j
    BY <1>2, <2>1, <2>2 DEF Took
  <2>4. in'[j - 1] = DownStatus(p)
    BY <2>1, <2>3 DEF Took
  <2> QED BY <2>3, <2>4 DEF DownBetween, DownStatus
<1>3. ASSUME NEW i \in 1..Len(in'), IsReply(in'[i]), in'[i].ports[p] = "down",
             NEW k \in 0..Len(in'), k < i, UpAt(p, k)'
      PROVE  DownBetween(p, k, i)'
  <2>1. PICK l \in 0..Len(in) : UpAt(p, l) /\ (l = k + 1 \/ (k = 0 /\ l = 0 /\ in[1] # DownStatus(p)))
    BY <1>1, <1>3
  <2>2. in'[i] = in[i + 1] /\ i + 1 \in 1..Len(in) /\ l < i + 1 /\ i \in 1..(Len(in') + 1)
    BY <1>3, <2>1 DEF Took
  <2>3. DownBetween(p, l, i + 1)
    BY <1>3, <2>1, <2>2 DEF DownAnnounced
  <2> QED BY <1>2, <2>1, <2>2, <2>3
<1>4. ASSUME conn' = "up", link'[p] = "down", NEW k \in 0..Len(in'), UpAt(p, k)'
      PROVE  \E j \in 1..Len(in') : k < j /\ j < Len(in') + 1 /\ in'[j] = DownStatus(p)
  <2>1. PICK l \in 0..Len(in) : UpAt(p, l) /\ (l = k + 1 \/ (k = 0 /\ l = 0 /\ in[1] # DownStatus(p)))
    BY <1>1, <1>4
  <2>2. DownBetween(p, l, Len(in) + 1)
    BY <1>4, <2>1 DEF DownAnnounced
  <2>3. PICK i \in 1..(Len(in') + 1) : i = Len(in') + 1 /\ i + 1 = Len(in) + 1
    BY DEF Took
  <2>4. DownBetween(p, k, i)'
    BY <1>2, <2>1, <2>2, <2>3
  <2> QED BY <2>3, <2>4 DEF DownBetween, DownStatus
<1> QED BY <1>3, <1>4 DEF DownAnnounced, DownBetween, DownStatus, IsReply

LEMMA DownArrived ==
    ASSUME NEW m, Arrived(m), NEW p \in Port \ Reserved, DownAnnounced(p), UNCHANGED <<ports, pending>>,
           IsReply(m) /\ m.ports[p] = "down" => conn = "up" /\ link[p] = "down",
           conn' = "up" /\ link'[p] = "down" =>
               ~Reports(m, p, "up") /\ (m = DownStatus(p) \/ (conn = "up" /\ link[p] = "down"))
    PROVE  DownAnnounced(p)'
<1>1. ASSUME NEW k \in 0..Len(in'), UpAt(p, k)'
      PROVE  (k \in 0..Len(in) /\ UpAt(p, k)) \/ (k = Len(in) + 1 /\ Reports(m, p, "up"))
  <2>1. CASE k = 0
    BY <1>1, <2>1 DEF UpAt, Pends, Arrived
  <2>2. CASE k \in 1..Len(in)
    <3>1. in'[k] = in[k] /\ k \in 0..Len(in) /\ k # 0
      BY <2>2 DEF Arrived
    <3> QED BY <1>1, <3>1 DEF UpAt, Reports, IsReply
  <2>3. CASE k = Len(in) + 1
    <3>1. in'[k] = m /\ k # 0
      BY <2>3 DEF Arrived
    <3> QED BY <1>1, <2>3, <3>1 DEF UpAt, Reports, IsReply
  <2> QED BY <2>1, <2>2, <2>3 DEF Arrived
<1>2. ASSUME NEW k \in 0..Len(in), NEW i \in 1..(Len(in) + 1), DownBetween(p, k, i)
      PROVE  DownBetween(p, k, i)' /\ DownBetween(p, k, i + 1)'
  <2>1. PICK j \in 1..Len(in) : k < j /\ j < i /\ in[j] = DownStatus(p)
    BY <1>2 DEF DownBetween
  <2>2. j \in 1..Len(in') /\ in'[j] = DownStatus(p) /\ j < i + 1
    BY <1>2, <2>1 DEF Arrived
  <2> QED BY <2>1, <2>2 DEF DownBetween, DownStatus
<1>3. ASSUME NEW i \in 1..Len(in'), IsReply(in'[i]), in'[i].ports[p] = "down",
             NEW k \in 0..Len(in'), k < i, UpAt(p, k)'
      PROVE  DownBetween(p, k, i)'
  <2>1. k \in 0..Len(in) /\ UpAt(p, k)
    BY <1>1, <1>3 DEF Arrived
  <2>2. CASE i = Len(in) + 1
    <3>1. conn = "up" /\ link[p] = "down"
      BY <1>3, <2>2 DEF Arrived
    <3>2. DownBetween(p, k, Len(in) + 1)
      BY <2>1, <3>1 DEF DownAnnounced
    <3> QED BY <1>2, <2>1, <2>2, <3>2
  <2>3. CASE i # Len(in) + 1
    <3>1. i \in 1..Len(in) /\ in'[i] = in[i] /\ i \in 1..(Len(in) + 1)
      BY <2>3 DEF Arrived
    <3>2. DownBetween(p, k, i)
      BY <1>3, <2>1, <3>1 DEF DownAnnounced
    <3> QED BY <1>2, <2>1, <3>1, <3>2
  <2> QED BY <2>2, <2>3
<1>4. ASSUME conn' = "up", link'[p] = "down", NEW k \in 0..Len(in'), UpAt(p, k)'
      PROVE  \E j \in 1..Len(in') : k < j /\ j < Len(in') + 1 /\ in'[j] = DownStatus(p)
  <2>1. k \in 0..Len(in) /\ UpAt(p, k)
    BY <1>1, <1>4
  <2>2. CASE m = DownStatus(p)
    <3>1. Len(in) + 1 \in 1..Len(in') /\ in'[Len(in) + 1] = DownStatus(p) /\ k < Len(in) + 1
          /\ Len(in) + 1 < Len(in') + 1
      BY <2>1, <2>2 DEF Arrived
    <3> QED BY <3>1
  <2>3. CASE conn = "up" /\ link[p] = "down"
    <3>1. DownBetween(p, k, Len(in) + 1)
      BY <2>1, <2>3 DEF DownAnnounced
    <3>2. PICK j \in 1..Len(in) : k < j /\ j < Len(in) + 1 /\ in[j] = DownStatus(p)
      BY <3>1 DEF DownBetween
    <3>3. j \in 1..Len(in') /\ in'[j] = DownStatus(p) /\ j < Len(in') + 1
      BY <3>2 DEF Arrived
    <3> QED BY <3>2, <3>3
  <2> QED BY <1>4, <2>2, <2>3
<1>5. Pends(p, "down")' => ports'[p] # "up"
  BY DEF DownAnnounced, Pends
<1> QED BY <1>3, <1>4, <1>5 DEF DownAnnounced, DownBetween, DownStatus, IsReply

LEMMA DownSame ==
    ASSUME NEW p, DownAnnounced(p), UNCHANGED in, UpAt(p, 0)' => UpAt(p, 0),
           Pends(p, "down")' => ports'[p] # "up",
           conn' = "up" /\ link'[p] = "down" => conn = "up" /\ link[p] = "down"
    PROVE  DownAnnounced(p)'
<1>1. ASSUME NEW k \in 0..Len(in), UpAt(p, k)' PROVE UpAt(p, k)
  BY <1>1 DEF UpAt, Reports, IsReply
<1> QED BY <1>1 DEF DownAnnounced, DownBetween, DownStatus, IsReply

\* What a handler makes of the ports when it takes its message
LEMMA HandledPorts ==
    ASSUME TypeInv, Handle, pending = <<>>, NEW p \in Port \ Reserved
    PROVE  /\ \E t : Took(t)
           /\ pending' # <<>> => IsReply(in[1]) /\ Head(pending') = in[1] /\ ports'[p] = ports[p] /\ in[1] # DownStatus(p)
           /\ link' = link /\ lost' = lost /\ (conn' = "up" => conn = "up")
           /\ \/ ports'[p] = ports[p] /\ in[1] # DownStatus(p)
              \/ IsReply(in[1]) /\ ports'[p] = in[1].ports[p]
              \/ in[1].type = "PORT_STATUS" /\ in[1].port = p /\ ports'[p] = in[1].state /\ told'[p] = in[1].state
<1> USE DEF switchVars, device, history, negotiation
<1>1. ASSUME NEW t \in {"HELLO", "BARRIER_REPLY", "FEATURES_REPLY", "DESC_REPLY", "PACKET_IN"}, Took(t)
      PROVE  in[1] # DownStatus(p)
  BY <1>1 DEF Took, DownStatus
<1>2. CASE OnHello
  <2>1. Took("HELLO")
    BY <1>2, Takes DEF OnHello
  <2> QED BY <1>1, <1>2, <2>1 DEF OnHello, Write, Fail
<1>3. CASE OnBarrierReply
  <2>1. Took("BARRIER_REPLY")
    BY <1>3, Takes DEF OnBarrierReply
  <2> QED BY <1>1, <1>3, <2>1 DEF OnBarrierReply, Write, Fail
<1>4. CASE OnFeaturesReply
  <2>1. Took("FEATURES_REPLY") /\ IsReply(in[1]) /\ Head(pending') = in[1]
    BY <1>4, ReplyTaken
  <2>2. in[1] # DownStatus(p)
    BY <1>1, <2>1
  <2> QED BY <1>4, <2>1, <2>2 DEF OnFeaturesReply
<1>5. CASE OnDescReply
  <2>1. Took("DESC_REPLY")
    BY <1>5, Takes DEF OnDescReply
  <2> QED BY <1>1, <1>5, <2>1 DEF OnDescReply, Write, Fail
<1>6. CASE OnPortDescReply
  <2>1. Took("PORT_DESC_REPLY")
    BY <1>6, Takes DEF OnPortDescReply
  <2>2. IsReply(in[1]) /\ in[1] = Head(in)
    BY <2>1 DEF Took, IsReply
  <2> QED BY <1>6, <2>1, <2>2 DEF OnPortDescReply, setPort, sendLLDPs
<1>7. CASE OnPortStatus
  <2>1. Took("PORT_STATUS")
    BY <1>7, Takes DEF OnPortStatus
  <2>2. in[1].type = "PORT_STATUS" /\ in[1] = Head(in) /\ in[1].port \in Port
    BY <2>1, InKinds DEF Took
  <2>3. link' = link /\ lost' = lost /\ (conn' = "up" => conn = "up")
    BY <1>7 DEF OnPortStatus, Write, Fail
  <2>6. pending' = <<>>
    BY <1>7 DEF OnPortStatus
  <2>4. CASE in[1].port = p
    <3>1. ports'[p] = in[1].state /\ told'[p] = in[1].state
      BY <1>7, <2>2, <2>4 DEF OnPortStatus, sendPortEvent, TypeInv, TypeOK
    <3> QED BY <2>1, <2>2, <2>3, <2>4, <2>6, <3>1
  <2>5. CASE in[1].port # p
    <3>1. ports'[p] = ports[p]
      BY <1>7, <2>2, <2>5 DEF OnPortStatus, TypeInv, TypeOK
    <3>2. in[1] # DownStatus(p)
      BY <2>5 DEF DownStatus
    <3> QED BY <2>1, <2>3, <2>6, <3>1, <3>2
  <2> QED BY <2>4, <2>5
<1>8. CASE OnPacketIn
  <2>1. Took("PACKET_IN")
    BY <1>8, Takes DEF OnPacketIn
  <2> QED BY <1>1, <1>8, <2>1 DEF OnPacketIn
<1>9. ~HandlerOnFeaturesReply
  BY DEF HandlerOnFeaturesReply
<1> QED BY <1>2, <1>3, <1>4, <1>5, <1>6, <1>7, <1>8, <1>9 DEF Handle

\* What OnFeaturesReply of the version's handler makes of them
LEMMA PendingHandled ==
    ASSUME TypeInv, Handle, pending # <<>>, NEW p \in Port \ Reserved
    PROVE  /\ HandlerOnFeaturesReply
           /\ link' = link /\ lost' = lost /\ in' = in /\ (conn' = "up" => conn = "up")
           /\ pending' = <<>> /\ (ports'[p] = ports[p] \/ ports'[p] = Head(pending).ports[p])
<1>1. HandlerOnFeaturesReply
  BY DEF Handle, OnHello, OnBarrierReply, OnFeaturesReply, OnDescReply, OnPortDescReply, OnPortStatus,
         OnPacketIn, Receive
<1> QED BY <1>1 DEF HandlerOnFeaturesReply, Write, Fail, setPort, sendLLDPs, switchVars, history

LEMMA DownStep == TypeInv /\ NoSilentDown /\ [Next]_vars => NoSilentDown'
<1> SUFFICES ASSUME TypeInv, NoSilentDown, [Next]_vars,
                    NEW p \in Port \ Reserved, DownStatus(p) \notin lost'
             PROVE  DownAnnounced(p)'
  BY DEF NoSilentDown, DownStatus
<1> USE DEF switchVars, device, history, negotiation
<1>1. DownStatus(p) \notin lost => DownAnnounced(p)
  BY DEF NoSilentDown
<1>2. CASE Handle /\ pending = <<>>
  <2>1. PICK t : Took(t)
    BY <1>2, HandledPorts
  <2>2. /\ pending' # <<>> => IsReply(in[1]) /\ Head(pending') = in[1] /\ ports'[p] = ports[p] /\ in[1] # DownStatus(p)
        /\ link' = link /\ lost' = lost /\ (conn' = "up" => conn = "up")
        /\ \/ ports'[p] = ports[p] /\ in[1] # DownStatus(p)
           \/ IsReply(in[1]) /\ ports'[p] = in[1].ports[p]
           \/ in[1].type = "PORT_STATUS" /\ in[1].port = p /\ ports'[p] = in[1].state
    BY <1>2, HandledPorts
  <2>3. UpAt(p, 0)' => (UpAt(p, 0) /\ in[1] # DownStatus(p)) \/ Reports(in[1], p, "up")
    BY <1>2, <2>2 DEF UpAt, Pends, Reports
  <2>4. DownAnnounced(p)
    BY <1>1, <2>2
  <2>5. Pends(p, "down")' => ports'[p] # "up"
    <3> SUFFICES ASSUME Pends(p, "down")', ports'[p] = "up" PROVE FALSE
      OBVIOUS
    <3>1. IsReply(in[1]) /\ in[1].ports[p] = "down" /\ ports[p] = "up"
      BY <2>2 DEF Pends
    <3>2. 1 \in 1..Len(in) /\ 0 \in 0..Len(in) /\ UpAt(p, 0)
      BY <2>1, <3>1 DEF Took, UpAt
    <3>3. DownBetween(p, 0, 1)
      BY <2>4, <3>1, <3>2 DEF DownAnnounced
    <3> QED BY <3>3 DEF DownBetween
  <2> QED BY <2>1, <2>2, <2>3, <2>4, <2>5, DownTook
<1>3. ASSUME UNCHANGED <<in, ports, pending>>, lost \subseteq lost',
             conn' = "up" /\ link'[p] = "down" => conn = "up" /\ link[p] = "down"
      PROVE  DownAnnounced(p)'
  <2>1. DownAnnounced(p) /\ (UpAt(p, 0)' => UpAt(p, 0)) /\ (Pends(p, "down")' => ports'[p] # "up")
    BY <1>1, <1>3 DEF DownAnnounced, UpAt, Pends
  <2> QED BY <1>3, <2>1, DownSame
<1>15. CASE Handle /\ pending # <<>>
  <2>1. /\ link' = link /\ lost' = lost /\ in' = in /\ (conn' = "up" => conn = "up")
        /\ pending' = <<>> /\ (ports'[p] = ports[p] \/ ports'[p] = Head(pending).ports[p])
    BY <1>15, PendingHandled
  <2>2. (UpAt(p, 0)' => UpAt(p, 0)) /\ ~Pends(p, "down")'
    BY <1>15, <2>1 DEF UpAt, Pends
  <2> QED BY <1>1, <2>1, <2>2, DownSame
<1>4. CASE runDeviceExplorer
  BY <1>3, <1>4 DEF runDeviceExplorer
<1>5. ASSUME NEW q \in Port, SetFlow(q) \/ RemoveFlow(q) PROVE DownAnnounced(p)'
  BY <1>3, <1>5 DEF SetFlow, RemoveFlow
<1>6. CASE RemoveFlows
  BY <1>3, <1>6 DEF RemoveFlows
<1>7. CASE SwitchHandles
  <2>1. conn = "up" /\ UNCHANGED <<ports, pending, link, conn>> /\ Answer(Head(out))
    BY <1>7 DEF SwitchHandles
  <2>2. CASE UNCHANGED <<in, lost>>
    BY <1>3, <2>1, <2>2
  <2>3. CASE \E a \in InMsg : AnswerTo(Head(out), a) /\ (Arrived(a) \/ Dropped(a))
    <3>1. PICK a \in InMsg : AnswerTo(Head(out), a) /\ (Arrived(a) \/ Dropped(a))
      BY <2>3
    <3>2. (IsReply(a) => a.ports = link) /\ a.type # "PORT_STATUS"
      BY <3>1, MsgKinds DEF AnswerTo, IsReply
    <3>3. CASE Dropped(a)
      BY <1>3, <2>1, <3>3 DEF Dropped
    <3>4. CASE Arrived(a)
      <4>1. lost' = lost
        BY <3>4 DEF Arrived
      <4>2. link[p] = "down" => ~Reports(a, p, "up")
        BY <3>2 DEF Reports
      <4>3. IsReply(a) /\ a.ports[p] = "down" => conn = "up" /\ link[p] = "down"
        BY <2>1, <3>2
      <4> QED BY <1>1, <2>1, <3>4, <4>1, <4>2, <4>3, DownArrived
    <3> QED BY <3>1, <3>3, <3>4
  <2> QED BY <2>1, <2>2, <2>3, Answers
<1>8. CASE DropExpires
  BY <1>3, <1>8 DEF DropExpires
<1>9. CASE PacketIn
  <2> DEFINE m == Msg("PACKET_IN")
  <2>1. m \in InMsg /\ m.type = "PACKET_IN"
    BY MsgKinds
  <2>2. Send(m) /\ UNCHANGED <<ports, pending, link, conn>>
    BY <1>9 DEF PacketIn
  <2> HIDE DEF m
  <2>3. CASE Dropped(m)
    BY <1>3, <2>2, <2>3 DEF Dropped
  <2>4. CASE Arrived(m)
    <3>1. lost' = lost
      BY <2>4 DEF Arrived
    <3>2. ~Reports(m, p, "up") /\ ~IsReply(m)
      BY <2>1 DEF Reports, IsReply
    <3> QED BY <1>1, <2>2, <2>4, <3>1, <3>2, DownArrived
  <2> QED BY <2>1, <2>2, <2>3, <2>4, Sends
<1>10. ASSUME NEW q \in Port, PortChanges(q) PROVE DownAnnounced(p)'
  <2> DEFINE m == [type |-> "PORT_STATUS", port |-> q, state |-> link'[q]]
  <2>1. link' \in [Port -> {"up", "down"}] /\ (q # p => link'[p] = link[p]) /\ UNCHANGED <<ports, pending, conn>>
    BY <1>10 DEF PortChanges, TypeInv, TypeOK
  <2>2. m \in InMsg
    BY <2>1 DEF InMsg, PortStatus, State
  <2>3. m.type = "PORT_STATUS" /\ m.port = q /\ m.state = link'[q]
    OBVIOUS
  <2>4. q = p /\ link'[p] = "down" => m = DownStatus(p)
    BY DEF DownStatus
  <2>5. ~IsReply(m) /\ (link'[p] = "down" => ~Reports(m, p, "up"))
    BY <2>3 DEF Reports, IsReply
  <2>6. CASE conn # "up"
    BY <1>3, <1>10, <2>1, <2>6 DEF PortChanges
  <2>7. CASE conn = "up"
    <3>1. Send(m)
      BY <1>10, <2>7 DEF PortChanges
    <3> HIDE DEF m
    <3>2. CASE Dropped(m)
      <4>1. link'[p] = "down" => q # p
        BY <2>4, <3>2 DEF Dropped
      <4> QED BY <1>3, <2>1, <2>7, <3>2, <4>1 DEF Dropped
    <3>3. CASE Arrived(m)
      <4>1. lost' = lost
        BY <3>3 DEF Arrived
      <4> QED BY <1>1, <2>1, <2>4, <2>5, <2>7, <3>3, <4>1, DownArrived
    <3> QED BY <2>2, <3>1, <3>2, <3>3, Sends
  <2> QED BY <2>6, <2>7
<1>11. CASE Break
  BY <1>3, <1>11 DEF Break
<1>12. CASE Disconnect
  BY <1>3, <1>12 DEF Disconnect
<1>13. CASE newSession
  <2>1. in' = <<Msg("HELLO")>> /\ ports'[p] = "nil" /\ pending' = <<>>
    BY <1>13 DEF newSession
  <2>2. Len(in') = 1 /\ in'[1].type = "HELLO"
    BY <2>1, FirstMessage
  <2>3. \A i \in 0..1 : i \in {0, 1}
    OBVIOUS
  <2>4. \A k \in 0..Len(in') : ~UpAt(p, k)'
    BY <2>1, <2>2, <2>3 DEF UpAt, Pends, Reports, IsReply
  <2> QED BY <2>1, <2>4 DEF DownAnnounced, Pends
<1>14. CASE UNCHANGED vars
  BY <1>3, <1>14 DEF vars
<1> QED BY <1>2, <1>4, <1>5, <1>6, <1>7, <1>8, <1>9, <1>10, <1>11, <1>12, <1>13, <1>14, <1>15 DEF Next

LEMMA DownInit == Init => NoSilentDown
<1> SUFFICES ASSUME Init, NEW p \in Port \ Reserved PROVE DownAnnounced(p)
  BY DEF NoSilentDown
<1>1. Len(in) = 1 /\ in[1].type = "HELLO" /\ ports[p] = "nil" /\ pending = <<>>
  BY FirstMessage DEF Init
<1>2. \A i \in 0..1 : i \in {0, 1}
  OBVIOUS
<1>3. \A k \in 0..Len(in) : ~UpAt(p, k)
  BY <1>1, <1>2 DEF UpAt, Pends, Reports, IsReply
<1> QED BY <1>1, <1>3 DEF DownAnnounced, Pends

\* A port that the device has and that goes down is not lost on the
\* applications: a reply to the explorer never tells of it before the
\* PORT_STATUS does, unless that was dropped at the full channel.
THEOREM AlwaysPortDownTold == Spec => PortDownTold
<1> DEFINE Told == \A p \in Port :
                     ports[p] = "up" /\ ports'[p] = "down" =>
                         told'[p] = "down" \/ [type |-> "PORT_STATUS", port |-> p, state |-> "down"] \in lost
<1>1. TypeInv /\ NoSilentDown /\ [Next]_vars => Told
  <2> SUFFICES ASSUME TypeInv, NoSilentDown, [Next]_vars, NEW p \in Port,
                      ports[p] = "up", ports'[p] = "down", DownStatus(p) \notin lost
               PROVE  told'[p] = "down"
    BY DEF DownStatus
  <2> USE DEF switchVars, device, history, negotiation
  <2>1. Handle
    BY DEF Next, vars, runDeviceExplorer, SetFlow, RemoveFlow, RemoveFlows, SwitchHandles, DropExpires,
           PacketIn, PortChanges, Break, Disconnect, newSession
  <2>2. p \notin Reserved
    BY <2>1 DEF Handle, OnHello, OnBarrierReply, OnFeaturesReply, HandlerOnFeaturesReply, OnDescReply,
                OnPortDescReply, OnPortStatus, OnPacketIn, setPort, TypeInv, TypeOK
  <2>5. pending = <<>>
    <3> SUFFICES ASSUME pending # <<>> PROVE FALSE
      OBVIOUS
    <3>1. Pends(p, "down")
      BY <2>1, <2>2, PendingHandled DEF Pends
    <3> QED BY <2>2, <3>1 DEF NoSilentDown, DownAnnounced
  <2>3. PICK t : Took(t)
    BY <2>1, <2>2, <2>5, HandledPorts
  <2>4. ~(IsReply(in[1]) /\ ports'[p] = in[1].ports[p])
    <3> SUFFICES ASSUME IsReply(in[1]), in[1].ports[p] = "down" PROVE FALSE
      OBVIOUS
    <3>1. 1 \in 1..Len(in) /\ 0 \in 0..Len(in) /\ UpAt(p, 0)
      BY <2>3 DEF Took, UpAt
    <3>2. DownAnnounced(p)
      BY <2>2 DEF NoSilentDown
    <3>3. DownBetween(p, 0, 1)
      BY <3>1, <3>2 DEF DownAnnounced
    <3> QED BY <3>3 DEF DownBetween
  <2> QED BY <2>1, <2>2, <2>4, <2>5, HandledPorts
<1>2. Spec => [](TypeInv /\ NoSilentDown)
  BY TypeInit, TypeStep, DownInit, DownStep, PTL DEF Spec
<1> QED BY <1>1, <1>2, PTL DEF Spec, PortDownTold

-----------------------------------------------------------------------------
(* The table of the normal flows *)

TableInv == SpecialInv /\ DescriptionFirst /\ InTable

\* The messages that set no normal flow
Other == {m \in OutMsg : m.type = "FLOW_ADD" => m.flow.what # "normal"}

\* Those of OnHello among them
Opening == {m \in Other : m.type # "PORT_DESC_REQUEST"}

LEMMA OtherMsgs ==
    ASSUME TypeInv
    PROVE  /\ \A t \in Request : Msg(t) \in Other
           /\ AllLLDP \subseteq Other /\ MissAdds \subseteq Other
           /\ \A p \in Port \cup {AnyPort} : deleteNormal(p) \in Other
           /\ Opening \subseteq Other /\ Prelude \in Seq(Opening)
<1>1. \A t \in Request : Msg(t) \in Other
  BY MsgKinds DEF Other, Request
<1>2. AllLLDP \subseteq Other
  BY MsgKinds DEF Other, AllLLDP
<1>3. \A id, to : setTableMiss(id, to).flow.what = "miss"
  BY DEF setTableMiss
<1>4. MissAdds \subseteq Other
  BY <1>3, LaterMsgs DEF Other, MissAdds
<1>5. \A p \in Port \cup {AnyPort} : deleteNormal(p) \in Other
  BY LaterMsgs DEF Other, deleteNormal, FlowDelete
<1>6. ASSUME NEW i \in 1..7 PROVE Prelude[i] \in Opening
  <2>1. Prelude[i] \in OutMsg
    BY PreludeMsgs, ElementOfSeq
  <2>2. i \in {1, 2, 3, 4, 5, 6, 7}
    OBVIOUS
  <2>3. Prelude[i].type = "FLOW_ADD" => i \in {4, 5, 6}
    BY <2>2, PreludeMsgs, MsgKinds DEF sendRemoveAllFlows, FlowDelete
  <2>4. i \in {4, 5, 6} => Prelude[i].flow.what # "normal"
    BY PreludeMsgs DEF setTemporaryDrop, setARPSender, setLLDPSender, setSpecialFlow
  <2>5. Prelude[i].type # "PORT_DESC_REQUEST"
    BY <2>2, PreludeMsgs, MsgKinds
       DEF sendRemoveAllFlows, FlowDelete, setTemporaryDrop, setARPSender, setLLDPSender, setSpecialFlow
  <2> QED BY <2>1, <2>3, <2>4, <2>5 DEF Other, Opening
<1>7. Prelude \in Seq(Opening)
  <2>1. Prelude \in [1..7 -> OutMsg]
    BY PreludeMsgs, LenProperties
  <2>2. PICK n \in Nat : n = 7
    OBVIOUS
  <2>3. Prelude \in [1..n -> Opening]
    BY <1>6, <2>1, <2>2
  <2> QED BY <2>3
<1> QED BY <1>1, <1>2, <1>4, <1>5, <1>7 DEF Opening

LEMMA HelloWrites ==
    ASSUME TypeInv, OnHello
    PROVE  Writes(Opening)
<1>1. Opening \in SUBSET OutMsg
  BY DEF Other, Opening
<1>2. CASE out' = out
  BY <1>2, AddsNone DEF OnHello, Write, Fail, Writes
<1>3. CASE conn = "up" /\ conn' = conn /\ out' = out \o Prelude
  BY <1>1, <1>3, OtherMsgs, AddsAll DEF Writes
<1> QED BY <1>2, <1>3 DEF OnHello, Write, Fail, Prelude

LEMMA WritesMore ==
    ASSUME NEW S, NEW T, Writes(S), S \subseteq T
    PROVE  Writes(T)
BY DEF Writes, Adds

\* No handler sets a normal flow.
LEMMA HandleWrites ==
    ASSUME TypeInv, Handle
    PROVE  Writes(Other) /\ UNCHANGED <<version, hardware, gen, table, lost>> /\ (early => early')
<1> USE DEF switchVars, device, history, negotiation
<1>1. Writes(Other)
  <2>1. ASSUME NEW t \in Request PROVE {Msg(t)} \subseteq Other
    BY OtherMsgs
  <2>2. CASE OnHello
    BY <2>2, HelloWrites, OtherMsgs, WritesMore
  <2>3. CASE OnBarrierReply
    <3>1. {Msg("DESC_REQUEST"), Msg("FEATURES_REQUEST")} \subseteq Other
      BY OtherMsgs DEF Request
    <3> QED BY <2>3, <3>1, BarrierWrites, WritesMore
  <2>9. CASE OnFeaturesReply
    BY <2>9, AddsNone DEF OnFeaturesReply, Writes
  <2>4. CASE HandlerOnFeaturesReply
    <3>1. AllLLDP \subseteq Other /\ {Msg("DESC_REQUEST")} \subseteq Other
      BY OtherMsgs DEF Request
    <3> QED BY <2>4, <3>1, FeaturesWrites, WritesMore DEF TypeInv, TypeOK
  <2>5. CASE OnDescReply
    <3>1. MissAdds \cup {Msg("PORT_DESC_REQUEST")} \subseteq Other
      BY OtherMsgs DEF Request
    <3> QED BY <2>5, <3>1, DescWrites, WritesMore
  <2>6. CASE OnPortDescReply
    BY <2>6, OtherMsgs, PortDescWrites, WritesMore
  <2>7. CASE OnPortStatus
    BY <2>7, OtherMsgs, PortStatusWrites, WritesMore
  <2>8. CASE OnPacketIn
    BY <2>8, AddsNone DEF OnPacketIn, Writes
  <2> QED BY <2>2, <2>3, <2>4, <2>5, <2>6, <2>7, <2>8, <2>9 DEF Handle
<1>2. UNCHANGED <<version, hardware, gen, table, lost>> /\ (early => early')
  <2>1. CASE OnPortStatus
    BY <2>1 DEF OnPortStatus
  <2>2. CASE ~OnPortStatus
    BY <2>2 DEF Handle, OnHello, OnBarrierReply, OnFeaturesReply, HandlerOnFeaturesReply, OnDescReply,
                OnPortDescReply, OnPacketIn
  <2> QED BY <2>1, <2>2
<1> QED BY <1>1, <1>2

\* Only OnDescReply sets the table.
LEMMA HandleTable ==
    ASSUME TypeInv, Handle
    PROVE  flowTableID' = flowTableID \/ flowTableID' = FlowTableID
BY DEF Handle, OnHello, OnBarrierReply, OnFeaturesReply, HandlerOnFeaturesReply, OnDescReply, OnPortDescReply,
       OnPortStatus, OnPacketIn, device

LEMMA FlowsWritten ==
    ASSUME InTable, NEW S, Adds(S), UNCHANGED <<version, hardware, gen, table>>,
           \A m \in S : m.type = "FLOW_ADD" /\ ~early /\ Msg("DESC_REPLY") \notin lost => RightTable(m.flow),
           lost \subseteq lost', early => early', flowTableID' \in {flowTableID, FlowTableID}
    PROVE  InTable'
<1>1. FlowTableID' = FlowTableID
  BY DEF FlowTableID
<1>2. ASSUME ~early', Msg("DESC_REPLY") \notin lost', NEW i \in 1..Len(out'), out'[i].type = "FLOW_ADD"
      PROVE  RightTable(out'[i].flow)
  <2>1. ~early /\ Msg("DESC_REPLY") \notin lost
    BY <1>2
  <2>2. CASE i > Len(out)
    BY <1>2, <2>1, <2>2 DEF Adds
  <2>3. CASE ~(i > Len(out))
    <3>1. i \in 1..Len(out) /\ out'[i] = out[i]
      BY <2>3 DEF Adds
    <3> QED BY <1>2, <2>1, <3>1 DEF InTable
  <2> QED BY <2>2, <2>3
<1>3. ASSUME ~early', Msg("DESC_REPLY") \notin lost', NEW f \in table PROVE RightTable(f)
  BY <1>3 DEF InTable
<1>4. Msg("DESC_REPLY")' = Msg("DESC_REPLY")
  BY DEF Msg
<1> QED BY <1>1, <1>2, <1>3, <1>4 DEF InTable, RightTable

LEMMA TableStep == TableInv /\ [Next]_vars => InTable'
<1> SUFFICES ASSUME TableInv, [Next]_vars PROVE InTable'
  OBVIOUS
<1> USE DEF switchVars, device, history, negotiation
<1>0. TypeInv /\ InTable
  BY DEF TableInv, SpecialInv
<1>1. ASSUME Adds(Other), UNCHANGED <<version, hardware, gen, table>>,
             lost \subseteq lost', early => early', flowTableID' \in {flowTableID, FlowTableID}
      PROVE  InTable'
  <2>1. \A m \in Other : m.type = "FLOW_ADD" => RightTable(m.flow)
    BY DEF Other, RightTable
  <2> QED BY <1>0, <1>1, <2>1, FlowsWritten
<1>2. CASE Handle
  BY <1>0, <1>1, <1>2, HandleWrites, HandleTable DEF Writes
<1>3. CASE runDeviceExplorer
  <2>1. Writes({Msg(PortsRequest)}) /\ {Msg(PortsRequest)} \subseteq Other
    BY <1>0, <1>3, ExplorerWrites, OtherMsgs DEF PortsRequest, Request
  <2> QED BY <1>1, <1>3, <2>1, WritesMore DEF runDeviceExplorer, Writes
<1>4. ASSUME NEW p \in Port, SetFlow(p) PROVE InTable'
  <2> DEFINE id == IF version = "OF10" THEN 0 ELSE flowTableID
             a == NormalAdd(p, id)
             b == Msg("BARRIER_REQUEST")
  <2>1. Writes({a, b})
    BY <1>0, <1>4, SetFlowWrites
  <2>2. ~early /\ Msg("DESC_REPLY") \notin lost => id = FlowTableID
    <3>1. CASE version = "OF10"
      BY <1>0, <3>1 DEF InTable, FlowTableID
    <3>2. CASE version # "OF10"
      <4>1. ~Undescribed
        BY <1>4 DEF SetFlow, TableInv, DescriptionFirst
      <4> QED BY <1>0, <3>2, <4>1 DEF Undescribed, TypeInv, TypeOK
    <3> QED BY <3>1, <3>2
  <2>3. a.flow.tableID = id
    BY DEF NormalAdd
  <2>4. b.type # "FLOW_ADD"
    BY MsgKinds
  <2>5. UNCHANGED <<version, hardware, gen, table, lost, early, flowTableID>>
    BY <1>4 DEF SetFlow
  <2> HIDE DEF a, b, id
  <2>6. \A m \in {a, b} : m.type = "FLOW_ADD" /\ ~early /\ Msg("DESC_REPLY") \notin lost => RightTable(m.flow)
    BY <2>2, <2>3, <2>4 DEF RightTable
  <2> QED BY <1>0, <2>1, <2>5, <2>6, FlowsWritten DEF Writes
<1>5. ASSUME NEW p \in Port, RemoveFlow(p) PROVE InTable'
  <2>1. Writes({deleteNormal(p)}) /\ {deleteNormal(p)} \subseteq Other
    BY <1>0, <1>5, RemoveWrites, OtherMsgs DEF RemoveFlow
  <2> QED BY <1>1, <1>5, <2>1, WritesMore DEF RemoveFlow, Writes
<1>6. CASE RemoveFlows
  <2>1. Writes({deleteNormal(AnyPort)}) /\ {deleteNormal(AnyPort)} \subseteq Other
    BY <1>0, <1>6, RemoveWrites, OtherMsgs DEF RemoveFlows
  <2> QED BY <1>1, <1>6, <2>1, WritesMore DEF RemoveFlows, Writes
<1>7. CASE SwitchHandles
  <2>1. Read /\ UNCHANGED <<version, hardware, gen, early, flowTableID>>
    BY <1>0, <1>7, Reads DEF SwitchHandles
  <2>2. lost \subseteq lost'
    BY <1>7 DEF SwitchHandles, Answer, Send
  <2>3. ASSUME NEW f \in table'
        PROVE  f \in table \/ (Head(out).type = "FLOW_ADD" /\ f = Head(out).flow)
    BY <1>7 DEF SwitchHandles
  <2>4. 1 \in 1..Len(out) /\ out[1] = Head(out) /\ \A i \in 1..Len(out') : out'[i] = out[i + 1] /\ i + 1 \in 1..Len(out)
    BY <2>1 DEF Read
  <2>5. FlowTableID' = FlowTableID /\ Msg("DESC_REPLY")' = Msg("DESC_REPLY")
    BY <2>1 DEF FlowTableID, Msg
  <2>6. ASSUME ~early', Msg("DESC_REPLY") \notin lost'
        PROVE  /\ \A f \in table' : RightTable(f)
               /\ \A i \in 1..Len(out') : out'[i].type = "FLOW_ADD" => RightTable(out'[i].flow)
    BY <1>0, <2>1, <2>2, <2>3, <2>4, <2>6 DEF InTable
  <2> QED BY <1>0, <2>1, <2>5, <2>6 DEF InTable, RightTable
<1>8. CASE DropExpires
  BY <1>0, <1>8 DEF DropExpires, InTable, RightTable, FlowTableID
<1>9. \A m : Send(m) => lost \subseteq lost'
  BY DEF Send
<1>10. CASE PacketIn
  BY <1>0, <1>1, <1>9, <1>10, AddsNone DEF PacketIn
<1>11. ASSUME NEW p \in Port, PortChanges(p) PROVE InTable'
  BY <1>0, <1>1, <1>9, <1>11, AddsNone DEF PortChanges
<1>12. CASE Break
  BY <1>0, <1>12, FirstMessage DEF Break, InTable, RightTable, FlowTableID
<1>13. CASE Disconnect
  BY <1>0, <1>1, <1>13, AddsNone DEF Disconnect
<1>14. CASE newSession
  <2>1. \A f \in table : f.gen # gen'
    BY <1>14 DEF newSession, TableInv, SpecialInv, Generations, TypeInv, TypeOK, Flow
  <2> QED BY <1>0, <1>14, <2>1, FirstMessage DEF newSession, InTable, RightTable, FlowTableID
<1>15. CASE UNCHANGED vars
  BY <1>0, <1>1, <1>15, AddsNone DEF vars
<1> QED BY <1>2, <1>3, <1>4, <1>5, <1>6, <1>7, <1>8, <1>10, <1>11, <1>12, <1>13, <1>14, <1>15 DEF Next

-----------------------------------------------------------------------------
(* The description is asked for, answered and handled before the ports *)

LEMMA BehindTook ==
    ASSUME NEW type, type # "DESC_REPLY", Took(type), RepliesBehind
    PROVE  RepliesBehind' /\ (Coming("DESC_REPLY") => Coming("DESC_REPLY")')
<1>1. ASSUME NEW j \in 1..Len(in), in[j].type = "DESC_REPLY"
      PROVE  j - 1 \in 1..Len(in') /\ in'[j - 1].type = "DESC_REPLY"
  <2>1. j # 1
    BY <1>1 DEF Took
  <2>2. j - 1 \in 1..Len(in') /\ (j - 1) + 1 = j
    BY <2>1 DEF Took
  <2> QED BY <1>1, <2>2 DEF Took
<1>2. ASSUME NEW i \in 1..Len(in'), in'[i].type = "PORT_DESC_REPLY"
      PROVE  \E j \in 1..Len(in') : j < i /\ in'[j].type = "DESC_REPLY"
  <2>1. in'[i] = in[i + 1] /\ i + 1 \in 1..Len(in)
    BY DEF Took
  <2>2. PICK j \in 1..Len(in) : j < i + 1 /\ in[j].type = "DESC_REPLY"
    BY <1>2, <2>1 DEF RepliesBehind
  <2>3. j - 1 < i
    BY <2>2
  <2> QED BY <1>1, <2>2, <2>3
<1> QED BY <1>1, <1>2 DEF RepliesBehind, Coming

LEMMA BehindArrived ==
    ASSUME NEW m, Arrived(m), RepliesBehind, m.type = "PORT_DESC_REPLY" => Coming("DESC_REPLY")
    PROVE  RepliesBehind' /\ (Coming("DESC_REPLY") => Coming("DESC_REPLY")')
<1>1. ASSUME NEW i \in 1..Len(in'), in'[i].type = "PORT_DESC_REPLY"
      PROVE  \E j \in 1..Len(in') : j < i /\ in'[j].type = "DESC_REPLY"
  <2>1. PICK j \in 1..Len(in) : j < i /\ in[j].type = "DESC_REPLY"
    <3>1. CASE i = Len(in) + 1
      <4>1. Coming("DESC_REPLY")
        BY <1>1, <3>1 DEF Arrived
      <4> QED BY <3>1, <4>1 DEF Coming, Arrived
    <3>2. CASE i # Len(in) + 1
      <4>1. i \in 1..Len(in) /\ in'[i] = in[i]
        BY <3>2 DEF Arrived
      <4> QED BY <1>1, <4>1 DEF RepliesBehind
    <3> QED BY <3>1, <3>2
  <2> QED BY <2>1 DEF Arrived
<1>2. Coming("DESC_REPLY") => Coming("DESC_REPLY")'
  BY DEF Arrived, Coming
<1> QED BY <1>1, <1>2 DEF RepliesBehind

\* What is written comes behind what was.
LEMMA AskedWritten ==
    ASSUME NEW S, Adds(S), Coming("DESC_REPLY") => Coming("DESC_REPLY")'
    PROVE  \A n \in Nat : Asked(n) => Asked(n)'
BY DEF Asked, Adds

LEMMA RequestsWritten ==
    ASSUME NEW S, Adds(S), RequestsBehind, Coming("DESC_REPLY") => Coming("DESC_REPLY")',
           \A m \in S : m.type = "PORT_DESC_REQUEST" => Asked(Len(out))
    PROVE  RequestsBehind' /\ (Asked(Len(out)) => Asked(Len(out))')
<1>1. ASSUME NEW n \in Nat, NEW k \in Nat, n <= k, Asked(n) PROVE Asked(k)'
  BY <1>1, AskedWritten DEF Asked, Adds
<1>2. ASSUME NEW i \in 1..Len(out'), out'[i].type = "PORT_DESC_REQUEST" PROVE Asked(i)'
  <2>1. CASE i > Len(out)
    <3>1. Asked(Len(out)) /\ Len(out) \in Nat /\ i \in Nat /\ Len(out) <= i
      BY <1>2, <2>1 DEF Adds
    <3> QED BY <1>1, <3>1
  <2>2. CASE ~(i > Len(out))
    <3>1. i \in 1..Len(out) /\ out'[i] = out[i] /\ i \in Nat /\ i <= i
      BY <2>2 DEF Adds
    <3>2. Asked(i)
      BY <1>2, <3>1 DEF RequestsBehind
    <3> QED BY <1>1, <3>1, <3>2
  <2> QED BY <2>1, <2>2
<1>3. ASSUME Asked(Len(out)) PROVE Asked(Len(out))'
  <2>1. PICK k \in Nat : k = Len(out') /\ Len(out) \in Nat /\ Len(out) <= k
    BY DEF Adds
  <2>2. Asked(k)'
    BY <1>1, <1>3, <2>1
  <2> QED BY <2>1, <2>2 DEF Asked
<1> QED BY <1>2, <1>3 DEF RequestsBehind

\* The switch answers the request for the description before the later ones.
LEMMA AskedRead ==
    ASSUME NEW n \in Nat, Asked(n + 1), Read, Coming("DESC_REPLY") => Coming("DESC_REPLY")',
           out[1].type = "DESC_REQUEST" => Coming("DESC_REPLY")'
    PROVE  Asked(n)'
<1>1. CASE Coming("DESC_REPLY")
  BY <1>1 DEF Asked
<1>2. CASE ~Coming("DESC_REPLY")
  <2>1. PICK j \in 1..Len(out) : j <= n + 1 /\ out[j].type = "DESC_REQUEST"
    BY <1>2 DEF Asked
  <2>2. CASE j = 1
    BY <2>1, <2>2 DEF Asked
  <2>3. CASE j # 1
    <3>1. j - 1 \in 1..Len(out') /\ j - 1 <= n /\ (j - 1) + 1 = j
      BY <2>1, <2>3 DEF Read
    <3>2. out'[j - 1].type = "DESC_REQUEST"
      BY <2>1, <3>1 DEF Read
    <3> QED BY <3>1, <3>2 DEF Asked
  <2> QED BY <2>2, <2>3
<1> QED BY <1>1, <1>2

LEMMA SwitchDescribes ==
    ASSUME TypeInv, SwitchHandles, RepliesBehind, RequestsBehind, Msg("DESC_REPLY") \notin lost'
    PROVE  RepliesBehind' /\ RequestsBehind' /\ (Asked(Len(out)) => Asked(Len(out))')
<1> DEFINE m == Head(out)
<1>1. Read /\ Answer(m)
  BY Reads DEF SwitchHandles
<1>2. m = out[1] /\ 1 \in 1..Len(out)
  BY <1>1 DEF Read
<1> HIDE DEF m
<1>3. m.type = "PORT_DESC_REQUEST" => Coming("DESC_REPLY")
  BY <1>2 DEF RequestsBehind, Asked
<1>4. /\ RepliesBehind' /\ (Coming("DESC_REPLY") => Coming("DESC_REPLY")')
      /\ m.type = "DESC_REQUEST" => Coming("DESC_REPLY")'
  <2>1. CASE ~Asks(m) /\ UNCHANGED <<in, lost>>
    BY <2>1 DEF RepliesBehind, Coming, Asks
  <2>2. CASE \E a \in InMsg : AnswerTo(m, a) /\ (Arrived(a) \/ Dropped(a))
    <3>1. PICK a \in InMsg : AnswerTo(m, a) /\ (Arrived(a) \/ Dropped(a))
      BY <2>2
    <3>2. /\ m.type = "DESC_REQUEST" => a = Msg("DESC_REPLY") /\ a.type = "DESC_REPLY"
          /\ a.type = "PORT_DESC_REPLY" => m.type = "PORT_DESC_REQUEST"
      BY <3>1, MsgKinds DEF AnswerTo
    <3>3. CASE Dropped(a)
      <4>1. m.type # "DESC_REQUEST"
        BY <3>2, <3>3 DEF Dropped
      <4> QED BY <3>3, <4>1 DEF Dropped, RepliesBehind, Coming
    <3>4. CASE Arrived(a)
      <4>1. RepliesBehind' /\ (Coming("DESC_REPLY") => Coming("DESC_REPLY")')
        BY <1>3, <3>2, <3>4, BehindArrived
      <4>2. a.type = "DESC_REPLY" => Coming("DESC_REPLY")'
        BY <3>4 DEF Arrived, Coming
      <4> QED BY <3>2, <4>1, <4>2
    <3> QED BY <3>1, <3>3, <3>4
  <2> QED BY <1>1, <2>1, <2>2, Answers
<1>5. ASSUME NEW i \in 1..Len(out'), out'[i].type = "PORT_DESC_REQUEST" PROVE Asked(i)'
  <2>1. i \in Nat /\ out'[i] = out[i + 1] /\ i + 1 \in 1..Len(out)
    BY <1>1 DEF Read
  <2>2. Asked(i + 1)
    BY <1>5, <2>1 DEF RequestsBehind
  <2> QED BY <1>1, <1>2, <1>4, <2>1, <2>2, AskedRead
<1>6. ASSUME Asked(Len(out)) PROVE Asked(Len(out))'
  <2>1. PICK n \in Nat : n = Len(out') /\ n + 1 = Len(out)
    BY <1>1 DEF Read
  <2>2. Asked(n + 1)
    BY <1>6, <2>1
  <2>3. Asked(n)'
    BY <1>1, <1>2, <1>4, <2>2, AskedRead
  <2> QED BY <2>1, <2>3 DEF Asked
<1> QED BY <1>4, <1>5, <1>6 DEF RequestsBehind

LEMMA HandleDescribes ==
    ASSUME TableInv, Handle, Undescribed'
    PROVE  DescriptionFirst'
<1> USE DEF switchVars, device, history, negotiation
<1>0. TypeInv /\ (Undescribed => DescriptionFirst) /\ conn # "closed"
  BY DEF TableInv, SpecialInv, Handle, OnHello, OnBarrierReply, OnFeaturesReply, HandlerOnFeaturesReply,
         OnDescReply, OnPortDescReply, OnPortStatus, OnPacketIn, Receive
<1>1. version = "OF13" /\ ~early /\ Msg("DESC_REPLY") \notin lost /\ FlowTableID' = FlowTableID
  BY <1>0, HandleWrites DEF Undescribed, FlowTableID, Msg
<1>2. Undescribed
  BY <1>0, <1>1, HandleTable DEF Undescribed
<1>3. /\ \A p \in Port : ports[p] = "nil"
      /\ RepliesBehind /\ (conn = "up" => RequestsBehind /\ (ready => pending # <<>> \/ Asked(Len(out))))
  BY <1>0, <1>2 DEF DescriptionFirst, TableInv
<1>4. ASSUME NEW t, t # "DESC_REPLY", Took(t), ports' = ports, NEW S, Writes(S),
             \A m \in S : m.type # "PORT_DESC_REQUEST",
             conn' = "up" /\ ready' => pending' # <<>> \/ Asked(Len(out))
      PROVE  DescriptionFirst'
  <2>1. RepliesBehind' /\ (Coming("DESC_REPLY") => Coming("DESC_REPLY")')
    BY <1>3, <1>4, BehindTook
  <2>2. conn' = "up" => conn = "up"
    BY <1>4 DEF Writes
  <2>3. conn' = "up" => RequestsBehind' /\ (Asked(Len(out)) => Asked(Len(out))')
    BY <1>3, <1>4, <2>1, <2>2, RequestsWritten DEF Writes
  <2> QED BY <1>3, <1>4, <2>1, <2>3 DEF DescriptionFirst
<1>5. \A m \in AllLLDP : m.type # "PORT_DESC_REQUEST"
  BY MsgKinds DEF AllLLDP
<1>6. CASE OnHello
  <2>1. Took("HELLO") /\ UNCHANGED <<ports, ready, pending>> /\ (conn' = "up" => conn = "up")
    BY <1>0, <1>6, Takes DEF OnHello, Write, Fail
  <2>2. Writes(Opening) /\ \A m \in Opening : m.type # "PORT_DESC_REQUEST"
    BY <1>0, <1>6, HelloWrites DEF Opening
  <2> QED BY <1>3, <1>4, <2>1, <2>2
<1>7. CASE OnBarrierReply
  <2>1. Took("BARRIER_REPLY") /\ UNCHANGED <<ports, ready, pending>> /\ (conn' = "up" => conn = "up")
    BY <1>0, <1>7, Takes DEF OnBarrierReply, Write, Fail
  <2>2. Writes({Msg("DESC_REQUEST"), Msg("FEATURES_REQUEST")})
    BY <1>0, <1>7, BarrierWrites
  <2>3. \A m \in {Msg("DESC_REQUEST"), Msg("FEATURES_REQUEST")} : m.type # "PORT_DESC_REQUEST"
    BY MsgKinds
  <2> QED BY <1>3, <1>4, <2>1, <2>2, <2>3
<1>8. CASE OnFeaturesReply
  <2>1. Took("FEATURES_REPLY") /\ UNCHANGED <<ports, conn, out>> /\ pending' # <<>>
    BY <1>0, <1>8, ReplyTaken DEF OnFeaturesReply
  <2>2. Writes({})
    BY <1>0, <2>1, AddsNone DEF Writes
  <2> QED BY <1>4, <2>1, <2>2
<1>13. CASE HandlerOnFeaturesReply
  <2>1. in' = in /\ ports' = ports
    BY <1>1, <1>13 DEF HandlerOnFeaturesReply
  <2>2. Writes({Msg("DESC_REQUEST")}) /\ (conn' = "up" => Len(out') = Len(out) + 1)
    BY <1>0, <1>1, <1>13, FeaturesWrites
  <2>3. conn' = "up" => Asked(Len(out))'
    <3>1. ASSUME conn' = "up"
          PROVE  \E j \in 1..Len(out') : j <= Len(out') /\ out'[j].type = "DESC_REQUEST"
      BY <2>2, <3>1, MsgKinds DEF Writes, Adds
    <3> QED BY <3>1 DEF Asked
  <2>4. \A m \in {Msg("DESC_REQUEST")} : m.type # "PORT_DESC_REQUEST"
    BY MsgKinds
  <2>5. RepliesBehind' /\ (Coming("DESC_REPLY") => Coming("DESC_REPLY")')
    BY <1>3, <2>1 DEF RepliesBehind, Coming
  <2>6. conn' = "up" => RequestsBehind'
    BY <1>3, <2>2, <2>4, <2>5, RequestsWritten DEF Writes
  <2> QED BY <1>3, <2>1, <2>3, <2>5, <2>6 DEF DescriptionFirst
<1>9. CASE OnDescReply
  <2>1. flowTableID' # FlowTableID
    BY <1>1 DEF Undescribed
  <2>2. conn' = "closed" /\ ports' = ports
    BY <1>1, <1>9, <2>1 DEF OnDescReply, Fail
  <2> QED BY <1>3, <2>2 DEF DescriptionFirst
<1>10. CASE OnPortDescReply
  <2>1. Took("PORT_DESC_REPLY")
    BY <1>0, <1>10, Takes DEF OnPortDescReply
  <2>2. 1 \in 1..Len(in) /\ in[1].type = "PORT_DESC_REPLY"
    BY <2>1 DEF Took
  <2> QED BY <1>3, <2>2 DEF RepliesBehind
<1>11. CASE OnPortStatus
  <2>1. Took("PORT_STATUS") /\ Head(in).port \in Port
    BY <1>0, <1>11, Takes, InKinds DEF OnPortStatus, Took
  <2>2. ~early'
    BY DEF Undescribed
  <2>3. UNCHANGED <<ports, ready, pending>>
    BY <1>2, <1>11, <2>2 DEF OnPortStatus, Undescribed
  <2>4. Writes(AllLLDP)
    BY <1>0, <1>11, PortStatusWrites
  <2>5. conn' = "up" => conn = "up"
    BY <2>4 DEF Writes
  <2> QED BY <1>3, <1>4, <1>5, <2>1, <2>3, <2>4, <2>5
<1>12. CASE OnPacketIn
  <2>1. Took("PACKET_IN") /\ UNCHANGED <<ports, ready, pending, conn, out>>
    BY <1>0, <1>12, Takes DEF OnPacketIn
  <2>2. Writes({})
    BY <1>0, <2>1, AddsNone DEF Writes
  <2> QED BY <1>3, <1>4, <2>1, <2>2
<1> QED BY <1>6, <1>7, <1>8, <1>9, <1>10, <1>11, <1>12, <1>13 DEF Handle

LEMMA DescribeStep == TableInv /\ [Next]_vars => DescriptionFirst'
<1> SUFFICES ASSUME TableInv, [Next]_vars, Undescribed' PROVE DescriptionFirst'
  BY DEF DescriptionFirst
<1> USE DEF switchVars, device, history, negotiation
<1>0. TypeInv /\ DescriptionFirst
  BY DEF TableInv, SpecialInv
<1>1. ASSUME UNCHANGED <<version, hardware, flowTableID>>, lost \subseteq lost', early => early'
      PROVE  Undescribed
  BY <1>1 DEF Undescribed, FlowTableID, Msg
<1>2. CASE Handle
  BY <1>2, HandleDescribes
<1>17. \A to : deleteNormal(to).type # "PORT_DESC_REQUEST"
  BY DEF deleteNormal, FlowDelete
\* The writers outside the handlers
<1>3. ASSUME UNCHANGED <<version, hardware, flowTableID, lost, conn, in, ports, ready, pending>>, ready,
             early => early', NEW S, Writes(S),
             \A m \in S : m.type = "PORT_DESC_REQUEST" => pending = <<>>
      PROVE  DescriptionFirst'
  <2>1. Undescribed
    BY <1>1, <1>3
  <2>2. Coming("DESC_REPLY") => Coming("DESC_REPLY")'
    BY <1>3 DEF Coming
  <2>3. conn = "up" => RequestsBehind' /\ (pending # <<>> \/ Asked(Len(out))')
    BY <1>0, <1>3, <2>1, <2>2, RequestsWritten DEF DescriptionFirst, Writes
  <2>4. RepliesBehind <=> RepliesBehind'
    BY <1>3 DEF RepliesBehind
  <2> QED BY <1>0, <1>3, <2>1, <2>3, <2>4 DEF DescriptionFirst
<1>4. CASE runDeviceExplorer
  <2>1. version = "OF13" /\ ~early'
    BY <1>4 DEF Undescribed, runDeviceExplorer
  <2>2. pending = <<>>
    BY <1>4, <2>1 DEF runDeviceExplorer
  <2> QED BY <1>0, <1>3, <1>4, <2>2, ExplorerWrites DEF runDeviceExplorer
<1>5. ASSUME NEW p \in Port, SetFlow(p) PROVE DescriptionFirst'
  <2> DEFINE S == {NormalAdd(p, IF version = "OF10" THEN 0 ELSE flowTableID), Msg("BARRIER_REQUEST")}
  <2>1. Writes(S)
    BY <1>0, <1>5, SetFlowWrites
  <2>2. \A m \in S : m.type # "PORT_DESC_REQUEST"
    BY MsgKinds DEF NormalAdd
  <2> HIDE DEF S
  <2> QED BY <1>3, <1>5, <2>1, <2>2 DEF SetFlow
<1>6. ASSUME NEW p \in Port, RemoveFlow(p) PROVE DescriptionFirst'
  BY <1>0, <1>3, <1>6, <1>17, RemoveWrites DEF RemoveFlow
<1>7. CASE RemoveFlows
  BY <1>0, <1>3, <1>7, <1>17, RemoveWrites DEF RemoveFlows
<1>8. CASE SwitchHandles
  <2>1. UNCHANGED <<version, hardware, flowTableID, early, conn, ports, ready, pending>> /\ conn = "up"
    BY <1>8 DEF SwitchHandles
  <2>2. lost \subseteq lost'
    BY <1>8 DEF SwitchHandles, Answer, Send
  <2>3. Undescribed /\ Msg("DESC_REPLY") \notin lost'
    BY <1>1, <2>1, <2>2 DEF Undescribed, Msg
  <2>4. RepliesBehind' /\ RequestsBehind' /\ (ready => pending # <<>> \/ Asked(Len(out))')
    BY <1>0, <1>8, <2>1, <2>3, SwitchDescribes DEF DescriptionFirst
  <2> QED BY <1>0, <2>1, <2>3, <2>4 DEF DescriptionFirst
\* The steps that write nothing and bring no reply
<1>9. ASSUME UNCHANGED <<version, hardware, flowTableID, early, out, ports, ready, pending>>,
             conn' = conn \/ (conn # "closed" /\ conn' # "up"), lost \subseteq lost',
             UNCHANGED in \/ \E m : Arrived(m) /\ m.type # "PORT_DESC_REPLY"
      PROVE  DescriptionFirst'
  <2>1. Undescribed
    BY <1>1, <1>9
  <2>2. RepliesBehind => RepliesBehind' /\ (Coming("DESC_REPLY") => Coming("DESC_REPLY")')
    <3>1. CASE UNCHANGED in
      BY <3>1 DEF RepliesBehind, Coming
    <3>2. CASE \E m : Arrived(m) /\ m.type # "PORT_DESC_REPLY"
      BY <3>2, BehindArrived
    <3> QED BY <1>9, <3>1, <3>2
  <2>3. ASSUME Coming("DESC_REPLY") => Coming("DESC_REPLY")'
        PROVE  (RequestsBehind => RequestsBehind') /\ (Asked(Len(out)) => Asked(Len(out))')
    BY <1>9, <2>3 DEF RequestsBehind, Asked
  <2>4. conn' # "closed" => RepliesBehind
    BY <1>0, <1>9, <2>1 DEF DescriptionFirst
  <2> QED BY <1>0, <1>9, <2>1, <2>2, <2>3, <2>4 DEF DescriptionFirst
<1>10. CASE DropExpires
  BY <1>9, <1>10 DEF DropExpires
<1>11. CASE PacketIn
  <2>1. Arrived(Msg("PACKET_IN")) \/ Dropped(Msg("PACKET_IN"))
    BY <1>0, <1>11, Sends, MsgKinds DEF PacketIn
  <2>2. lost \subseteq lost' /\ (UNCHANGED in \/ \E m : Arrived(m) /\ m.type # "PORT_DESC_REPLY")
    <3>1. CASE Arrived(Msg("PACKET_IN"))
      <4>1. Msg("PACKET_IN").type # "PORT_DESC_REPLY"
        BY MsgKinds
      <4> QED BY <3>1, <4>1 DEF Arrived
    <3>2. CASE Dropped(Msg("PACKET_IN"))
      BY <3>2 DEF Dropped
    <3> QED BY <2>1, <3>1, <3>2
  <2> QED BY <1>9, <1>11, <2>2 DEF PacketIn
<1>12. ASSUME NEW p \in Port, PortChanges(p) PROVE DescriptionFirst'
  <2> DEFINE m == [type |-> "PORT_STATUS", port |-> p, state |-> link'[p]]
  <2>1. m \in InMsg
    BY <1>0, <1>12 DEF TypeInv, TypeOK, PortChanges, InMsg, PortStatus, State
  <2>2. m.type # "PORT_DESC_REPLY"
    OBVIOUS
  <2>3. CASE conn = "up"
    <3>1. Send(m)
      BY <1>12, <2>3 DEF PortChanges
    <3> HIDE DEF m
    <3>2. CASE Arrived(m)
      BY <1>9, <1>12, <2>2, <3>2 DEF PortChanges, Arrived
    <3>3. CASE Dropped(m)
      BY <1>9, <1>12, <3>3 DEF PortChanges, Dropped
    <3> QED BY <1>0, <2>1, <3>1, <3>2, <3>3, Sends
  <2>4. CASE conn # "up"
    BY <1>9, <1>12, <2>4 DEF PortChanges
  <2> QED BY <2>3, <2>4
<1>13. CASE Break
  <2>1. Undescribed
    BY <1>1, <1>13 DEF Break
  <2> QED BY <1>0, <1>13, <2>1 DEF Break, DescriptionFirst, RepliesBehind
<1>14. CASE Disconnect
  BY <1>9, <1>14 DEF Disconnect
<1>15. CASE newSession
  <2>1. Len(in') = 1 /\ in'[1].type = "HELLO" /\ Len(out') = 0 /\ ~ready' /\ \A p \in Port : ports'[p] = "nil"
    BY <1>15, FirstMessage DEF newSession
  <2>2. RepliesBehind'
    BY <2>1 DEF RepliesBehind
  <2>3. RequestsBehind'
    BY <2>1 DEF RequestsBehind
  <2> QED BY <2>1, <2>2, <2>3 DEF DescriptionFirst
<1>16. CASE UNCHANGED vars
  BY <1>9, <1>16 DEF vars
<1> QED BY <1>2, <1>4, <1>5, <1>6, <1>7, <1>8, <1>10, <1>11, <1>12, <1>13, <1>14, <1>15, <1>16 DEF Next

LEMMA TableInit == Init => TableInv
<1> SUFFICES ASSUME Init PROVE TableInv
  OBVIOUS
<1>1. Len(in) = 1 /\ in[1].type = "HELLO" /\ Len(out) = 0
  BY FirstMessage DEF Init
<1>2. RepliesBehind /\ RequestsBehind
  BY <1>1 DEF RepliesBehind, RequestsBehind
<1>3. DescriptionFirst
  BY <1>2 DEF Init, DescriptionFirst
<1>4. InTable
  BY <1>1 DEF Init, InTable
<1> QED BY <1>3, <1>4, SpecialInit DEF TableInv

\* The normal flows of this session are in the table of its hardware: the
\* ports become known behind the description, whatever the explorer asks and
\* the channel drops, unless the description itself was dropped, a PORT_STATUS
\* came first, or the explorer asked while OnFeaturesReply had yet to ask for
\* the description.
THEOREM AlwaysInTable == Spec => []NormalFlowsInTable
<1>1. TableInv /\ [Next]_vars => TableInv'
  BY SpecialStep, TableStep, DescribeStep DEF TableInv
<1>2. TableInv => NormalFlowsInTable
  BY DEF TableInv, InTable, RightTable, NormalFlowsInTable
<1> QED BY <1>1, <1>2, TableInit, PTL DEF Spec
=============================================================================
