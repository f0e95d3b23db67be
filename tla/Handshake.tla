----------------------------- MODULE Handshake ------------------------------
(***************************************************************************)
(* What a session and its switch tell each other: the negotiation, the     *)
(* special flows, the ports, the LLDP frames and the flow operations       *)
(* (network/session.go, of10_session.go, of13_session.go, device.go).      *)
(*                                                                         *)
(* The handlers of a session run one after the other; the device explorer  *)
(* and the applications write to the same connection between them.  The    *)
(* transceiver drops a message of the switch when its channel is full.     *)
(* The switch keeps its flows and ports when the connection is lost, and   *)
(* connects again.  It is modelled from how the code uses it: messages are *)
(* handled in the order they were written.                                 *)
(*                                                                         *)
(* The duplicated DPID and the registries are the subject of Session, what *)
(* the applications do with an event that of Forwarding.                   *)
(***************************************************************************)
EXTENDS Naturals, FiniteSets, Sequences, SequencesExt

CONSTANTS
    Port,         \* ports of the switch
    Reserved,     \* those whose number is above OFPP_MAX
    Capacity,     \* bound: length of the transceiver's channel
    MaxSessions,  \* bound: connections of the switch
    MaxInputs     \* bound: port changes, packets and flow operations per run

ASSUME Bounds ==
    /\ IsFiniteSet(Port) /\ Reserved \subseteq Port
    /\ Capacity \in Nat \ {0} /\ MaxSessions \in Nat \ {0} /\ MaxInputs \in Nat

VARIABLES
    version, hardware,  \* of the switch
    conn,        \* "up", "broken" (writes fail) or "closed" (Device.closed)
    gen,         \* number of the session
    negotiated, checkpoint,
    pending,     \* FEATURES_REPLY whose handler is still running, if any
    ready,       \* device.isReady()
    flowTableID,
    ports,       \* device.ports: the state of a port, or "nil"
    told,        \* last port event that the applications got
    in, out,     \* messages from and to the switch
    table,       \* flows of the switch
    link,        \* state of the switch's ports
    lost,        \* history: messages of this session dropped at the full channel
    early,       \* history: a port was reported, or asked for, before the description
    inputs

switchVars == <<version, hardware, link>>
device == <<ready, flowTableID, ports, told>>
negotiation == <<negotiated, checkpoint, pending>>
history == <<lost, early>>
vars == <<switchVars, conn, gen, negotiation, device, in, out, table, history, inputs>>

-----------------------------------------------------------------------------
(* Messages.  A flow is what its match, cookie and table let a delete tell *)
(* apart: does it match on the VLAN, is the MSB of its cookie set, where   *)
(* does it lead ("controller", "drop", "goto" or a port)?                  *)

Flow == [what : {"drop", "arp", "lldp", "miss", "normal"}, vlan : BOOLEAN,
         msb : BOOLEAN, tableID : {0, 100, 200},
         to : Port \cup {"controller", "drop", "goto"}, gen : 1..MaxSessions]

\* setSpecialFlow: no VLAN, no cookie, table 0.
setSpecialFlow(what, to) ==
    [type |-> "FLOW_ADD",
     flow |-> [what |-> what, vlan |-> FALSE, msb |-> FALSE, tableID |-> 0, to |-> to, gen |-> gen]]
setTemporaryDrop == setSpecialFlow("drop", "drop")
setARPSender == setSpecialFlow("arp", "controller")
setLLDPSender == setSpecialFlow("lldp", "controller")

\* setTableMiss: "We use MSB to represent whether the flow is table miss or not"
setTableMiss(id, to) ==
    [type |-> "FLOW_ADD",
     flow |-> [what |-> "miss", vlan |-> FALSE, msb |-> TRUE, tableID |-> id, to |-> to, gen |-> gen]]

AnyPort == "any"

\* A delete: on the VLAN only, by the MSB of the cookie, of flows to a port.
FlowDelete(vlan, mask, to) == [type |-> "FLOW_DELETE", vlan |-> vlan, mask |-> mask, to |-> to]

sendRemoveAllFlows == FlowDelete(FALSE, FALSE, AnyPort)

Msg(type) == [type |-> type]
LLDP(p) == [type |-> "LLDP", port |-> p]

\* LLDP frames for the ports of S
LLDPs(S) == SetToSeq({LLDP(p) : p \in S})

Init ==
    /\ version \in {"OF10", "OF13"}
    /\ hardware \in {"HP2920", "AS4600", "other"}
    /\ version = "OF10" => hardware = "other"
    /\ link \in [Port -> {"up", "down"}]
    /\ conn = "up" /\ gen = 1
    /\ negotiated = FALSE /\ checkpoint = FALSE /\ pending = <<>>
    /\ ready = FALSE /\ flowTableID = 0
    /\ ports = [p \in Port |-> "nil"] /\ told = [p \in Port |-> "nil"]
    /\ in = <<Msg("HELLO")>> /\ out = <<>>
    /\ table = {}
    /\ lost = {} /\ early = FALSE
    /\ inputs = 0

-----------------------------------------------------------------------------
(* The session's handlers *)

\* No handler is running, and the next message is of this type.
Receive(type) ==
    /\ conn # "closed" /\ pending = <<>> /\ in # <<>>
    /\ Head(in).type = type
    /\ in' = Tail(in)

\* A handler's writes all succeed, or it fails and Run ends.
Write(msgs) == conn = "up" /\ out' = out \o msgs /\ UNCHANGED conn
Fail == conn = "broken" /\ conn' = "closed" /\ UNCHANGED out

\* OnHello: "Ignore duplicated HELLO messages".
OnHello ==
    /\ Receive("HELLO")
    /\ IF negotiated THEN UNCHANGED <<conn, out, negotiated>>
       ELSE /\ negotiated' = TRUE
            /\ \/ Write(<<Msg("HELLO"), Msg("SET_CONFIG"), sendRemoveAllFlows, setTemporaryDrop,
                          setARPSender, setLLDPSender, Msg("BARRIER_REQUEST")>>)
               \/ Fail
    /\ UNCHANGED <<switchVars, gen, checkpoint, pending, device, table, history, inputs>>

\* Mutant of OnBarrierReply: the features are not requested.
OnBarrierReply_DescOnly ==
    /\ Receive("BARRIER_REPLY")
    /\ \/ checkpoint /\ UNCHANGED <<conn, out, checkpoint>>
       \/ ~checkpoint /\ checkpoint' = TRUE /\ Write(<<Msg("DESC_REQUEST")>>)
       \/ ~checkpoint /\ Fail /\ UNCHANGED checkpoint
    /\ UNCHANGED <<switchVars, gen, negotiated, pending, device, table, history, inputs>>

\* OnBarrierReply: only the first one counts.
OnBarrierReply ==
    /\ Receive("BARRIER_REPLY")
    /\ \/ checkpoint /\ UNCHANGED <<conn, out, checkpoint>>
       \/ /\ ~checkpoint /\ checkpoint' = TRUE
          /\ Write(IF version = "OF10" THEN <<Msg("DESC_REQUEST"), Msg("FEATURES_REQUEST")>>
                   ELSE <<Msg("FEATURES_REQUEST")>>)
       \/ ~checkpoint /\ Fail /\ UNCHANGED checkpoint
    /\ UNCHANGED <<switchVars, gen, negotiated, pending, device, table, history, inputs>>

\* Mutant of setPort: the value of a known port is not replaced.
setPort_Once(reply) ==
    ports' = [p \in Port |-> IF p \in Reserved \/ ports[p] # "nil" THEN ports[p] ELSE reply[p]]

\* setPort, for the ports of a reply that are not reserved.
setPort(reply) == ports' = [p \in Port |-> IF p \in Reserved THEN ports[p] ELSE reply[p]]

Up(reply) == {p \in Port \ Reserved : reply[p] = "up"}

\* Mutant of sendLLDPs: LLDP goes to new ports only.
sendLLDPs_New(reply) ==
    /\ out' = IF conn = "up" THEN out \o LLDPs({p \in Up(reply) : ports[p] # "up"}) ELSE out
    /\ UNCHANGED conn

\* sendLLDP to the enabled ports of a reply; an error is logged.
sendLLDPs(reply) ==
    /\ out' = IF conn = "up" THEN out \o LLDPs(Up(reply)) ELSE out
    /\ UNCHANGED conn

\* OnFeaturesReply of the session.  The first one makes the device known
\* (setID); OnDeviceUp and DeviceAdded run before the version's own handler.
OnFeaturesReply ==
    /\ Receive("FEATURES_REPLY")
    /\ ready' = TRUE
    /\ pending' = <<Head(in)>>
    /\ UNCHANGED <<switchVars, conn, gen, negotiated, checkpoint, flowTableID, ports, told,
                   out, table, history, inputs>>

\* Mutant of HandlerOnFeaturesReply: the ports are asked for before the description.
HandlerOnFeaturesReply_PortsFirst ==
    /\ conn # "closed" /\ pending # <<>> /\ pending' = <<>>
    /\ \/ /\ version = "OF10"
          /\ setPort(Head(pending).ports) /\ sendLLDPs(Head(pending).ports)
       \/ /\ version = "OF13"
          /\ Write(<<Msg("PORT_DESC_REQUEST"), Msg("DESC_REQUEST")>>) \/ Fail
          /\ UNCHANGED ports
    /\ UNCHANGED <<switchVars, gen, negotiated, checkpoint, ready, flowTableID, told, in,
                   table, history, inputs>>

\* r.handler.OnFeaturesReply.  OpenFlow 1.0 has the ports in the reply; 1.3 goes
\* on to ask for the description.
HandlerOnFeaturesReply ==
    /\ conn # "closed" /\ pending # <<>> /\ pending' = <<>>
    /\ \/ /\ version = "OF10"
          /\ setPort(Head(pending).ports) /\ sendLLDPs(Head(pending).ports)
       \/ /\ version = "OF13"
          /\ Write(<<Msg("DESC_REQUEST")>>) \/ Fail
          /\ UNCHANGED ports
    /\ UNCHANGED <<switchVars, gen, negotiated, checkpoint, ready, flowTableID, told, in,
                   table, history, inputs>>

\* The table-miss flows that OnDescReply installs, and the table for the
\* others.  The AS4600 gets none.
TableMiss ==
    CASE hardware = "HP2920" -> <<setTableMiss(0, "goto"), setTableMiss(100, "goto"), setTableMiss(200, "controller")>>
      [] hardware = "AS4600" -> <<>>
      [] OTHER               -> <<setTableMiss(0, "controller")>>

FlowTableID == IF hardware = "HP2920" THEN 200 ELSE 0

\* OnDescReply.  OpenFlow 1.0 keeps the description only.
OnDescReply ==
    /\ Receive("DESC_REPLY")
    /\ \/ version = "OF10" /\ UNCHANGED <<conn, out, flowTableID>>
       \/ /\ version = "OF13"
          /\ Write(TableMiss \o <<Msg("PORT_DESC_REQUEST")>>)
          /\ flowTableID' = FlowTableID
       \/ version = "OF13" /\ Fail /\ UNCHANGED flowTableID
    /\ UNCHANGED <<switchVars, gen, negotiation, ready, ports, told, table, history, inputs>>

OnPortDescReply ==
    /\ Receive("PORT_DESC_REPLY")
    /\ setPort(Head(in).ports) /\ sendLLDPs(Head(in).ports)
    /\ UNCHANGED <<switchVars, gen, negotiation, ready, flowTableID, told, table, history, inputs>>

\* Mutant of sendPortEvent: the applications hear of ports that come up only.
sendPortEvent_UpOnly(p, state) ==
    told' = IF p \in Reserved \/ state = "down" THEN told ELSE [told EXCEPT ![p] = state]

\* sendPortEvent: for the ports that the device has.
sendPortEvent(p, state) ==
    told' = IF p \in Reserved THEN told ELSE [told EXCEPT ![p] = state]

\* OnPortStatus.  LLDP goes out of a reserved port as well.  PortRemoved, for
\* a port that is down, and also before the device is ready, is modelled by Graph.
OnPortStatus ==
    /\ Receive("PORT_STATUS")
    /\ LET p == Head(in).port
           state == Head(in).state
       IN  /\ ports' = IF p \in Reserved THEN ports ELSE [ports EXCEPT ![p] = state]
           /\ sendPortEvent(p, state)
           /\ IF state = "up" /\ ready THEN Write(<<LLDP(p)>>) \/ Fail
              ELSE UNCHANGED <<conn, out>>
           /\ early' = (early \/ (p \notin Reserved /\ flowTableID # FlowTableID))
    /\ UNCHANGED <<switchVars, gen, negotiation, ready, flowTableID, table, lost, inputs>>

\* OnPacketIn, OnError, OnFlowRemoved: nothing that is kept here.
OnPacketIn ==
    /\ Receive("PACKET_IN")
    /\ UNCHANGED <<switchVars, conn, gen, negotiation, device, out, table, history, inputs>>

Handle ==
    \/ OnHello \/ OnBarrierReply
    \/ OnFeaturesReply \/ HandlerOnFeaturesReply \/ OnDescReply
    \/ OnPortDescReply \/ OnPortStatus \/ OnPacketIn

-----------------------------------------------------------------------------
(* The other writers *)

\* runDeviceExplorer: ask for the ports once a minute, when the answer to the
\* last request has long come or been dropped.
PortsRequest == IF version = "OF10" THEN "FEATURES_REQUEST" ELSE "PORT_DESC_REQUEST"
PortsReply == IF version = "OF10" THEN "FEATURES_REPLY" ELSE "PORT_DESC_REPLY"
Answered ==
    /\ \A i \in 1..Len(out) : out[i].type # PortsRequest
    /\ \A i \in 1..Len(in) : in[i].type # PortsReply

runDeviceExplorer ==
    /\ conn = "up" /\ ready /\ Answered
    /\ out' = Append(out, Msg(PortsRequest))
    /\ early' = (early \/ (version = "OF13" /\ pending # <<>>))
    /\ UNCHANGED <<switchVars, conn, gen, negotiation, device, in, table, lost, inputs>>

Input == inputs < MaxInputs /\ inputs' = inputs + 1

\* SetFlow, for a host at a port that is known (topology.Node): a normal flow
\* with the VLAN, in flowTableID, and a barrier.
SetFlow(p) ==
    /\ conn = "up" /\ ready /\ ports[p] = "up" /\ Input
    /\ out' = out \o <<[type |-> "FLOW_ADD",
                        flow |-> [what |-> "normal", vlan |-> TRUE, msb |-> FALSE,
                                  tableID |-> IF version = "OF10" THEN 0 ELSE flowTableID,
                                  to |-> p, gen |-> gen]],
                       Msg("BARRIER_REQUEST")>>
    /\ UNCHANGED <<switchVars, conn, gen, negotiation, device, in, table, history>>

\* Mutant of deleteNormal: without the VLAN.
deleteNormal_AnyVLAN(to) == FlowDelete(FALSE, version = "OF13", to)

\* The delete of RemoveFlows, RemoveFlow and RemoveFlowByMAC: OpenFlow 1.0 has
\* no cookie mask.
deleteNormal(to) == FlowDelete(TRUE, version = "OF13", to)

\* RemoveFlows and RemoveFlowByMAC (the flows are those of one host)
RemoveFlows ==
    /\ conn = "up" /\ ready /\ Input
    /\ out' = Append(out, deleteNormal(AnyPort))
    /\ UNCHANGED <<switchVars, conn, gen, negotiation, device, in, table, history>>

\* RemoveFlow: those that lead to a port, when it is down
RemoveFlow(p) ==
    /\ conn = "up" /\ ready /\ ports[p] = "down" /\ Input
    /\ out' = Append(out, deleteNormal(p))
    /\ UNCHANGED <<switchVars, conn, gen, negotiation, device, in, table, history>>

-----------------------------------------------------------------------------
(* The switch, and the transceiver's channel *)

\* A message of the switch is dropped when the channel is full.
Send(m) ==
    IF Len(in) < Capacity THEN in' = Append(in, m) /\ UNCHANGED lost
    ELSE lost' = lost \cup {m} /\ UNCHANGED in

Answer(m) ==
    CASE m.type = "BARRIER_REQUEST"   -> Send(Msg("BARRIER_REPLY"))
      [] m.type = "DESC_REQUEST"      -> Send(Msg("DESC_REPLY"))
      [] m.type = "FEATURES_REQUEST"  -> Send([type |-> "FEATURES_REPLY", ports |-> link])
      [] m.type = "PORT_DESC_REQUEST" -> Send([type |-> "PORT_DESC_REPLY", ports |-> link])
      [] OTHER                        -> UNCHANGED <<in, lost>>

\* The flow that f replaces: same match, priority and table.
Same(f, g) == f.what = g.what /\ f.tableID = g.tableID

\* A delete does not select f.
Spared(f, m) ==
    \/ m.vlan /\ ~f.vlan
    \/ m.mask /\ f.msb
    \/ m.to # AnyPort /\ m.to # f.to

\* The switch handles the next message.
SwitchHandles ==
    /\ conn = "up" /\ out # <<>>
    /\ out' = Tail(out)
    /\ LET m == Head(out)
       IN  /\ table' = CASE m.type = "FLOW_ADD"    -> {f \in table : ~Same(f, m.flow)} \cup {m.flow}
                         [] m.type = "FLOW_DELETE" -> {f \in table : Spared(f, m)}
                         [] OTHER                  -> table
           /\ Answer(m)
    /\ UNCHANGED <<switchVars, conn, gen, negotiation, device, early, inputs>>

\* The hard timeout of the temporary flow.
DropExpires ==
    /\ \E f \in table : f.what = "drop" /\ table' = table \ {f}
    /\ UNCHANGED <<switchVars, conn, gen, negotiation, device, in, out, history, inputs>>

PortChanges(p) ==
    /\ Input
    /\ link' = [link EXCEPT ![p] = IF @ = "up" THEN "down" ELSE "up"]
    /\ IF conn = "up" THEN Send([type |-> "PORT_STATUS", port |-> p, state |-> link'[p]])
       ELSE UNCHANGED <<in, lost>>
    /\ UNCHANGED <<version, hardware, conn, gen, negotiation, device, out, table, early>>

\* A packet that some flow sends to the controller
PacketIn ==
    /\ conn = "up" /\ Input
    /\ \E f \in table : f.to = "controller"
    /\ Send(Msg("PACKET_IN"))
    /\ UNCHANGED <<switchVars, conn, gen, negotiation, device, out, table, early>>

\* The connection breaks; what the switch has not read is lost.
Break ==
    /\ conn = "up" /\ conn' = "broken"
    /\ out' = <<>>
    /\ UNCHANGED <<switchVars, gen, negotiation, device, in, table, history, inputs>>

\* The transceiver finds out: Run ends, the device is closed.
Disconnect ==
    /\ conn = "broken" /\ pending = <<>> /\ conn' = "closed"
    /\ UNCHANGED <<switchVars, gen, negotiation, device, in, out, table, history, inputs>>

\* newSession for the switch, which kept its flows
newSession ==
    /\ conn = "closed" /\ gen < MaxSessions
    /\ conn' = "up" /\ gen' = gen + 1
    /\ negotiated' = FALSE /\ checkpoint' = FALSE /\ pending' = <<>>
    /\ ready' = FALSE /\ flowTableID' = 0
    /\ ports' = [p \in Port |-> "nil"] /\ told' = [p \in Port |-> "nil"]
    /\ in' = <<Msg("HELLO")>> /\ out' = <<>>
    /\ lost' = {} /\ early' = FALSE
    /\ UNCHANGED <<switchVars, table, inputs>>

Next ==
    \/ Handle
    \/ runDeviceExplorer
    \/ RemoveFlows \/ (\E p \in Port : SetFlow(p) \/ RemoveFlow(p))
    \/ SwitchHandles \/ DropExpires
    \/ PacketIn \/ (\E p \in Port : PortChanges(p))
    \/ Break \/ Disconnect \/ newSession

\* Messages are read and handled, and the explorer's ticker ticks.
Spec ==
    /\ Init /\ [][Next]_vars
    /\ WF_vars(Handle) /\ WF_vars(SwitchHandles)
    /\ WF_vars(runDeviceExplorer)

-----------------------------------------------------------------------------
(* Properties *)

TypeOK ==
    /\ version \in {"OF10", "OF13"} /\ hardware \in {"HP2920", "AS4600", "other"}
    /\ conn \in {"up", "broken", "closed"} /\ gen \in 1..MaxSessions
    /\ negotiated \in BOOLEAN /\ checkpoint \in BOOLEAN /\ ready \in BOOLEAN
    /\ flowTableID \in {0, 200}
    /\ ports \in [Port -> {"nil", "up", "down"}] /\ told \in [Port -> {"nil", "up", "down"}]
    /\ Len(in) <= Capacity /\ Len(pending) <= 1
    /\ table \subseteq Flow
    /\ link \in [Port -> {"up", "down"}]
    /\ early \in BOOLEAN /\ inputs \in 0..MaxInputs

\* "True after we get the first barrier reply that means all the previously
\* installed flows on the device have been removed, and then the ACL flow for
\* ARP packes has been installed" (of10_session.go, of13_session.go), and
\* "RemoveFlows removes all the normal flows except special ones" (device.go):
\* from the checkpoint on, the switch has the ARP and LLDP flows of this
\* session, whatever the applications remove, and no flow of an earlier one.
SpecialFlowsStay ==
    checkpoint =>
        /\ \A what \in {"arp", "lldp"} : \E f \in table : f.what = what /\ f.gen = gen
        /\ \A f \in table : f.gen = gen

\* "Table IDs that we install flows" (device.go): the normal flows are in the
\* table of the hardware.  The device is known before its description, so
\* there are three exceptions: a PORT_STATUS came before the description, the
\* explorer asked for the ports before OnFeaturesReply asked for the
\* description, or the description was dropped.
NormalFlowsInTable ==
    ~early /\ Msg("DESC_REPLY") \notin lost => \A f \in table : f.what = "normal" /\ f.gen = gen => f.tableID = FlowTableID

\* A port the device has goes down: the applications are told in the same
\* step, even if the explorer asks at the same moment, unless the
\* PORT_STATUS was dropped (OnPortStatus, runDeviceExplorer).
PortDownTold ==
    [][\A p \in Port :
        ports[p] = "up" /\ ports'[p] = "down" =>
            told'[p] = "down" \/ [type |-> "PORT_STATUS", port |-> p, state |-> "down"] \in lost]_vars

\* A reply of the handshake was dropped: nobody asks again.
HandshakeLost ==
    \E m \in lost : m.type \in {"BARRIER_REPLY", "FEATURES_REPLY"} \cup
                               IF version = "OF13" THEN {"DESC_REPLY"} ELSE {}

\* The device is ready, its ports are known and the table-miss flows are set.
SetUp ==
    /\ ready /\ \A p \in Port \ Reserved : ports[p] # "nil"
    /\ version = "OF13" => \A m \in Range(TableMiss) : m.flow \in table

\* The handshake ends, also when the reply with the ports is dropped, unless
\* one of the replies before it is.
SetUpUnlessLost == (conn = "up") ~> (SetUp \/ HandshakeLost \/ conn # "up")

\* "Query switch ports information" (runDeviceExplorer): the ports of the
\* device become those of the switch even if every PORT_STATUS was dropped.
PortsConverge ==
    <>[](conn = "up" /\ ~HandshakeLost) =>
        <>[](\A p \in Port \ Reserved : ports[p] = link[p])

\* "LLDP will also be delivered to the ports in the query reply handlers": a
\* port that is up sends LLDP again and again, so its link is not taken for
\* a stale one.
LLDPAgain ==
    \A p \in Port \ Reserved :
        <>[](conn = "up" /\ ~HandshakeLost /\ link[p] = "up") =>
            []<>(out # <<>> /\ Head(out) = LLDP(p))
=============================================================================
