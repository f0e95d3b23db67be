------------------------------ MODULE Session -------------------------------
(***************************************************************************)
(* The life of a switch connection (network/session.go), from accept to    *)
(* teardown, and the two registries it keeps up to date: the topology's    *)
(* devices and graph vertices (network/topology.go), and the ARP sender of *)
(* every device (northbound/app/discovery/discovery.go).                   *)
(*                                                                         *)
(* Sessions are goroutines that share the registries.  Each registry has   *)
(* its own mutex, so a step below is what a session does under one lock:   *)
(* the check for a duplicated DPID, stopARPSender, runARPSender and        *)
(* DeviceAdded of OnFeaturesReply are four of them.  The messages of one   *)
(* connection are handled one after the other.                             *)
(*                                                                         *)
(* Left out: ports, and FEATURES_REPLYs of a session that is ready, which  *)
(* change nothing else.  No application's OnDeviceUp returns an error.     *)
(***************************************************************************)
EXTENDS Integers, FiniteSets

CONSTANTS
    Session,   \* bound: the connections ever accepted
    DPID,      \* datapath IDs of the switches
    None       \* no session (a nil device, a missing map entry)

ASSUME NoneIsNoSession == None \notin Session

VARIABLES
    pc,         \* where the goroutine of a session is
    dpid,       \* the DPID of the switch at the other end
    checkpoint, \* BARRIER_REPLY was handled, the features are requested
    ready,      \* device.isReady(): its ID is set
    devices,    \* topology.devices
    vertexies,  \* topology.graph: the device a vertex was made of
    canceller,  \* processor.canceller of discovery, as the session it stops
    sender,     \* sessions whose ARP sender runs
    raced       \* history: two sessions of one switch were initialised at once

own == <<dpid, checkpoint, ready, raced>>
topo == <<devices, vertexies>>
arp == <<canceller, sender>>
vars == <<pc, own, topo, arp>>

Init ==
    /\ pc = [s \in Session |-> "new"]
    /\ dpid \in [Session -> DPID]
    /\ checkpoint = [s \in Session |-> FALSE]
    /\ ready = [s \in Session |-> FALSE]
    /\ devices = [d \in DPID |-> None]
    /\ vertexies = [d \in DPID |-> None]
    /\ canceller = [d \in DPID |-> None]
    /\ sender = {}
    /\ raced = FALSE

Goto(s, l) == pc' = [pc EXCEPT ![s] = l]

-----------------------------------------------------------------------------
(* Connection and handshake *)

\* AddConnection: newSession and go Run.
AddConnection(s) ==
    /\ pc[s] = "new"
    /\ Goto(s, "connected")
    /\ UNCHANGED <<own, topo, arp>>

\* The first HELLO (a later one is ignored): the handler of the version is
\* set, flows are cleared and a barrier is requested.
OnHello(s) ==
    /\ pc[s] = "connected"
    /\ Goto(s, "run")
    /\ UNCHANGED <<own, topo, arp>>

\* The first BARRIER_REPLY: the features are requested.
OnBarrierReply(s) ==
    /\ pc[s] = "run" /\ ~checkpoint[s]
    /\ checkpoint' = [checkpoint EXCEPT ![s] = TRUE]
    /\ UNCHANGED <<pc, dpid, ready, raced, topo, arp>>

\* Between the check and DeviceAdded; is another session of the switch there?
Initialising(s) == pc[s] \in {"checked", "stopped", "started"}
Contended(s) == \E t \in Session \ {s} : dpid[t] = dpid[s] /\ Initialising(t)

\* The first FEATURES_REPLY (a switch answers requests only).  "Already
\* connected device?" is asked of finder.Device, under the topology's lock.
Checks(s) == pc[s] = "run" /\ checkpoint[s] /\ ~ready[s]

\* Mutant of CheckNew: the DPID is not checked.
CheckNew_Any(s) ==
    /\ Checks(s)
    /\ Goto(s, "checked")
    /\ raced' = (raced \/ Contended(s))
    /\ UNCHANGED <<dpid, checkpoint, ready, topo, arp>>

CheckNew(s) ==
    /\ Checks(s)
    /\ devices[dpid[s]] = None
    /\ Goto(s, "checked")
    /\ raced' = (raced \/ Contended(s))
    /\ UNCHANGED <<dpid, checkpoint, ready, topo, arp>>

\* "duplicated device DPID": the handler fails, which ends Run.
CheckDuplicated(s) ==
    /\ Checks(s)
    /\ devices[dpid[s]] # None
    /\ Goto(s, "closing")
    /\ UNCHANGED <<own, topo, arp>>

\* Mutant of stopARPSender: the goroutine is not cancelled.
stopARPSender_NoCancel(d) ==
    /\ canceller' = [canceller EXCEPT ![d] = None]
    /\ UNCHANGED sender

\* stopARPSender: cancel what the map holds, if anything.
stopARPSender(d) ==
    /\ sender' = sender \ {canceller[d]}
    /\ canceller' = [canceller EXCEPT ![d] = None]

\* setID, and OnDeviceUp of discovery up to stopARPSender.
SetID(s) ==
    /\ pc[s] = "checked"
    /\ ready' = [ready EXCEPT ![s] = TRUE]
    /\ stopARPSender(dpid[s])
    /\ Goto(s, "stopped")
    /\ UNCHANGED <<dpid, checkpoint, raced, topo>>

runARPSender(s) ==
    /\ pc[s] = "stopped"
    /\ sender' = sender \cup {s}
    /\ canceller' = [canceller EXCEPT ![dpid[s]] = s]
    /\ Goto(s, "started")
    /\ UNCHANGED <<own, topo>>

\* The device map is overwritten; AddVertex leaves a known vertex alone.
DeviceAdded(s) ==
    /\ pc[s] = "started"
    /\ devices' = [devices EXCEPT ![dpid[s]] = s]
    /\ vertexies' = [vertexies EXCEPT ![dpid[s]] = IF @ = None THEN s ELSE @]
    /\ Goto(s, "run")
    /\ UNCHANGED <<own, arp>>

-----------------------------------------------------------------------------
(* Teardown *)

\* transceiver.Run ends between two messages: the switch is gone, or did not
\* answer in time, or a handler failed.
Disconnect(s) ==
    /\ pc[s] \in {"connected", "run"}
    /\ Goto(s, "closing")
    /\ UNCHANGED <<own, topo, arp>>

\* Mutants of Close: a session that is not ready is deregistered, too; none
\* is deregistered.
Close_Always(s) ==
    /\ pc[s] = "closing"
    /\ Goto(s, "down")
    /\ UNCHANGED <<own, topo, arp>>
Close_Never(s) ==
    /\ pc[s] = "closing"
    /\ Goto(s, "end")
    /\ UNCHANGED <<own, topo, arp>>

\* transceiver.Close and device.Close; a session that never became ready is
\* finished with that.
Close(s) ==
    /\ pc[s] = "closing"
    /\ Goto(s, IF ready[s] THEN "down" ELSE "end")
    /\ UNCHANGED <<own, topo, arp>>

\* OnDeviceDown of discovery.
OnDeviceDown(s) ==
    /\ pc[s] = "down"
    /\ stopARPSender(dpid[s])
    /\ Goto(s, "remove")
    /\ UNCHANGED <<own, topo>>

\* Mutant of DeviceRemoved: it waits until no ARP sender of the device runs.
DeviceRemoved_Waits(s) ==
    /\ pc[s] = "remove"
    /\ \A t \in sender : dpid[t] # dpid[s]
    /\ devices' = [devices EXCEPT ![dpid[s]] = None]
    /\ vertexies' = [vertexies EXCEPT ![dpid[s]] = None]
    /\ Goto(s, "end")
    /\ UNCHANGED <<own, arp>>

\* Device and vertex are removed by ID.
DeviceRemoved(s) ==
    /\ pc[s] = "remove"
    /\ devices' = [devices EXCEPT ![dpid[s]] = None]
    /\ vertexies' = [vertexies EXCEPT ![dpid[s]] = None]
    /\ Goto(s, "end")
    /\ UNCHANGED <<own, arp>>

-----------------------------------------------------------------------------
\* Steps of the code alone; the others wait for the switch.
Internal(s) ==
    \/ SetID(s) \/ runARPSender(s) \/ DeviceAdded(s)
    \/ Close(s) \/ OnDeviceDown(s) \/ DeviceRemoved(s)

Next ==
    \E s \in Session :
        \/ AddConnection(s) \/ OnHello(s) \/ OnBarrierReply(s)
        \/ CheckNew(s) \/ CheckDuplicated(s)
        \/ Disconnect(s) \/ Internal(s)

\* Go schedules every runnable goroutine.  Nothing is assumed of switches.
Spec == Init /\ [][Next]_vars /\ \A s \in Session : WF_vars(Internal(s))

-----------------------------------------------------------------------------
(* Properties *)

TypeOK ==
    /\ pc \in [Session -> {"new", "connected", "run", "checked", "stopped", "started",
                           "closing", "down", "remove", "end"}]
    /\ dpid \in [Session -> DPID]
    /\ checkpoint \in [Session -> BOOLEAN]
    /\ ready \in [Session -> BOOLEAN]
    /\ devices \in [DPID -> Session \cup {None}]
    /\ vertexies \in [DPID -> Session \cup {None}]
    /\ canceller \in [DPID -> Session \cup {None}]
    /\ sender \in SUBSET Session
    /\ raced \in BOOLEAN

\* The registry never leads to a session that has ended, even when sessions
\* of one switch are initialised and torn down at the same time.
NoGhost == \A d \in DPID : devices[d] # None => pc[devices[d]] # "end"

\* "duplicated device DPID (aux. connection is not supported yet)": a switch
\* has one initialised session at most (session.go).
OneSession ==
    \A s, t \in Session :
        /\ ready[s] /\ pc[s] # "end"
        /\ ready[t] /\ pc[t] # "end"
        /\ dpid[s] = dpid[t]
        => s = t

\* A ready session that serves its switch is the one the topology knows, in
\* the device map and in the graph, and its ARP sender can be stopped.
Served ==
    \A s \in Session :
        pc[s] = "run" /\ ready[s] =>
            /\ devices[dpid[s]] = s
            /\ vertexies[dpid[s]] = s
            /\ s \in sender /\ canceller[dpid[s]] = s

\* "Make sure that there is only one ARP sender for a device." (discovery.go)
OneARPSender == \A s, t \in sender : dpid[s] = dpid[t] => s = t

\* No goroutine keeps sending ARP probes for a session that has ended.
NoLeakedSender == \A s \in sender : pc[s] # "end"

\* The duplicate check keeps sessions of one switch apart, through rejections,
\* disconnects and reconnects, unless two of them are initialised at once.
OneSessionUnlessRaced == ~raced => OneSession

\* No rejected duplicate and no teardown of another session takes the
\* registration of a serving session away, unless there was such a race.
ServedUnlessRaced == ~raced => Served

\* A device has one ARP sender, which ends with its session, unless there was
\* such a race.
SendersUnlessRaced == ~raced => OneARPSender /\ NoLeakedSender

\* A switch that is gone is deregistered, and can connect again.
Deregistered ==
    \A s \in Session :
        pc[s] = "closing" ~> pc[s] = "end" /\ devices[dpid[s]] # s
=============================================================================
