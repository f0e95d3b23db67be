------------------------- MODULE Connection_proofs --------------------------
(***************************************************************************)
(* Proofs about the connections of the switches.  Session: the registries, *)
(* for any number of sessions and switches: what holds under every         *)
(* interleaving, and what holds until two sessions of one switch are       *)
(* initialised at the same time.  Transceiver, on which every session      *)
(* runs: for every size of the channel, of the stream and of the timeouts. *)
(***************************************************************************)
EXTENDS Session, Transceiver, TLAPS

-----------------------------------------------------------------------------
(* Session *)

\* Where a session is tells whether its ID is set.
ReadyByPc ==
    \A s \in Session :
        /\ pc[s] \in {"new", "connected", "checked"} => ~ready[s]
        /\ pc[s] \in {"stopped", "started", "down", "remove"} => ready[s]

\* Sessions that are past DeviceAdded and not yet past DeviceRemoved.
Member(s) == ready[s] /\ pc[s] \in {"run", "closing", "down", "remove"}

\* The registries hold sessions under their own DPID, and only members.
Registered ==
    \A d \in DPID :
        /\ devices[d] # None => Member(devices[d]) /\ dpid[devices[d]] = d
        /\ canceller[d] # None => dpid[canceller[d]] = d

Inv == TypeOK /\ ReadyByPc /\ Registered

-----------------------------------------------------------------------------
\* One step of any session keeps the invariant.
LEMMA InvStep == Inv /\ [Next]_vars => Inv'
<1> SUFFICES ASSUME Inv, [Next]_vars PROVE Inv'
  OBVIOUS
<1> USE NoneIsNoSession DEF Inv, TypeOK, ReadyByPc, Registered, Member, own, topo, arp, Goto
<1>1. ASSUME NEW s \in Session, AddConnection(s) PROVE Inv'
  BY <1>1 DEF AddConnection
<1>2. ASSUME NEW s \in Session, OnHello(s) PROVE Inv'
  BY <1>2 DEF OnHello
<1>3. ASSUME NEW s \in Session, OnBarrierReply(s) PROVE Inv'
  BY <1>3 DEF OnBarrierReply
<1>4. ASSUME NEW s \in Session, CheckNew(s) PROVE Inv'
  BY <1>4 DEF CheckNew, Checks
<1>5. ASSUME NEW s \in Session, CheckDuplicated(s) PROVE Inv'
  BY <1>5 DEF CheckDuplicated, Checks
<1>6. ASSUME NEW s \in Session, SetID(s) PROVE Inv'
  BY <1>6 DEF SetID, stopARPSender
<1>7. ASSUME NEW s \in Session, runARPSender(s) PROVE Inv'
  BY <1>7 DEF runARPSender
<1>8. ASSUME NEW s \in Session, DeviceAdded(s) PROVE Inv'
  BY <1>8 DEF DeviceAdded
<1>9. ASSUME NEW s \in Session, Disconnect(s) PROVE Inv'
  BY <1>9 DEF Disconnect
<1>10. ASSUME NEW s \in Session, Close(s) PROVE Inv'
  BY <1>10 DEF Close
<1>11. ASSUME NEW s \in Session, OnDeviceDown(s) PROVE Inv'
  BY <1>11 DEF OnDeviceDown, stopARPSender
<1>12. ASSUME NEW s \in Session, DeviceRemoved(s) PROVE Inv'
  BY <1>12 DEF DeviceRemoved
<1>13. CASE UNCHANGED vars
  BY <1>13 DEF vars
<1> QED BY <1>1, <1>2, <1>3, <1>4, <1>5, <1>6, <1>7, <1>8, <1>9, <1>10, <1>11, <1>12,
           <1>13 DEF Next, Internal

\* The invariant that needs no assumption on the environment.
LEMMA Invariant == Spec => []Inv
<1>1. Init => Inv
  BY NoneIsNoSession DEF Init, Inv, TypeOK, ReadyByPc, Registered, Member
<1> QED BY <1>1, InvStep, PTL DEF Spec

\* The registry never leads to a session that has ended, whatever the
\* interleaving of initialisations and teardowns.
THEOREM NoGhostThm == Spec => []NoGhost
<1>1. Inv => NoGhost
  BY DEF Inv, Registered, Member, NoGhost
<1> QED BY <1>1, Invariant, PTL

-----------------------------------------------------------------------------
(* Until sessions of one switch are initialised at once *)

\* Between its check and DeviceAdded a session has its DPID to itself.
Alone ==
    /\ \A s, t \in Session :
          Initialising(s) /\ Initialising(t) /\ dpid[s] = dpid[t] => s = t
    /\ \A s \in Session : Initialising(s) => devices[dpid[s]] = None

\* Every member is registered; vertices are made of the registered devices.
MembersRegistered ==
    /\ \A s \in Session : Member(s) => devices[dpid[s]] = s
    /\ \A d \in DPID : vertexies[d] = devices[d]

\* Senders belong to sessions between runARPSender and OnDeviceDown, all of
\* which have one, and each can be cancelled.
Sends(s) == ready[s] /\ pc[s] \in {"started", "run", "closing", "down"}
SendersKnown ==
    /\ sender = {s \in Session : Sends(s)}
    /\ \A s \in sender : canceller[dpid[s]] = s

Excl == ~raced => Alone /\ MembersRegistered /\ SendersKnown

\* One step keeps sessions of one switch apart.
LEMMA ExclStep == Inv /\ Excl /\ [Next]_vars => Excl'
<1> SUFFICES ASSUME Inv, Excl, [Next]_vars PROVE Excl'
  OBVIOUS
<1> USE NoneIsNoSession
    DEF Inv, TypeOK, ReadyByPc, Registered, Member, own, topo, arp, Goto,
        Excl, Alone, MembersRegistered, SendersKnown, Sends, Initialising
<1>1. ASSUME NEW s \in Session, AddConnection(s) PROVE Excl'
  BY <1>1 DEF AddConnection
<1>2. ASSUME NEW s \in Session, OnHello(s) PROVE Excl'
  BY <1>2 DEF OnHello
<1>3. ASSUME NEW s \in Session, OnBarrierReply(s) PROVE Excl'
  BY <1>3 DEF OnBarrierReply
<1>4. ASSUME NEW s \in Session, CheckNew(s) PROVE Excl'
  BY <1>4 DEF CheckNew, Checks, Contended
<1>5. ASSUME NEW s \in Session, CheckDuplicated(s) PROVE Excl'
  BY <1>5 DEF CheckDuplicated, Checks
<1>6. ASSUME NEW s \in Session, SetID(s) PROVE Excl'
  <2>1. ~raced => \A t \in sender : dpid[t] # dpid[s]
    BY <1>6 DEF SetID
  <2> QED BY <1>6, <2>1 DEF SetID, stopARPSender
<1>7. ASSUME NEW s \in Session, runARPSender(s) PROVE Excl'
  BY <1>7 DEF runARPSender
<1>8. ASSUME NEW s \in Session, DeviceAdded(s) PROVE Excl'
  BY <1>8 DEF DeviceAdded
<1>9. ASSUME NEW s \in Session, Disconnect(s) PROVE Excl'
  BY <1>9 DEF Disconnect
<1>10. ASSUME NEW s \in Session, Close(s) PROVE Excl'
  BY <1>10 DEF Close
<1>11. ASSUME NEW s \in Session, OnDeviceDown(s) PROVE Excl'
  BY <1>11 DEF OnDeviceDown, stopARPSender
<1>12. ASSUME NEW s \in Session, DeviceRemoved(s) PROVE Excl'
  BY <1>12 DEF DeviceRemoved
<1>13. CASE UNCHANGED vars
  BY <1>13 DEF vars
<1> QED BY <1>1, <1>2, <1>3, <1>4, <1>5, <1>6, <1>7, <1>8, <1>9, <1>10, <1>11, <1>12,
           <1>13 DEF Next, Internal

\* The invariant behind the next three theorems.
LEMMA ExclInvariant == Spec => [](Inv /\ Excl)
<1>1. Init => Excl
  BY DEF Init, Excl, Alone, MembersRegistered, SendersKnown, Sends, Initialising, Member
<1> QED BY <1>1, ExclStep, Invariant, PTL DEF Spec

\* The duplicate check does what it is for, until sessions of one switch are
\* initialised at the same time.
THEOREM OneSessionThm == Spec => []OneSessionUnlessRaced
<1>1. Inv /\ Excl => OneSessionUnlessRaced
  BY NoneIsNoSession
  DEF Inv, TypeOK, ReadyByPc, Excl, Alone, MembersRegistered, Initialising, Member,
      OneSession, OneSessionUnlessRaced
<1> QED BY <1>1, ExclInvariant, PTL

\* A ready session stays registered for as long as it serves its switch: no
\* rejected duplicate and no teardown of another session takes it away.
THEOREM ServedThm == Spec => []ServedUnlessRaced
<1>1. Inv /\ Excl => ServedUnlessRaced
  BY DEF Inv, TypeOK, Excl, MembersRegistered, SendersKnown, Sends, Member, Served,
         ServedUnlessRaced
<1> QED BY <1>1, ExclInvariant, PTL

\* A device has one ARP sender, and none survives its session.
THEOREM SendersThm == Spec => []SendersUnlessRaced
<1>1. Inv /\ Excl => SendersUnlessRaced
  BY DEF Excl, SendersKnown, Sends, OneARPSender, NoLeakedSender, SendersUnlessRaced
<1> QED BY <1>1, ExclInvariant, PTL

-----------------------------------------------------------------------------
(* Transceiver *)

\* The factory is chosen before the first ping, so a crash leaves no count.
NoPingBeforeFactory == ~factory => pingCounter = 0

\* Before negotiate has found a message, the first one the switch sent is at
\* the head of the channel; or nothing was forwarded yet, and it is the first
\* in the stream that will be.
FirstAt(i) ==
    /\ inbox[i] = first /\ first \in Forwarded
    /\ \A j \in 1..Len(inbox) : j < i => inbox[j] \notin Forwarded
Greeting ==
    dispatcher = "negotiate" =>
        IF channel # <<>> THEN Head(channel) = first /\ first \in Forwarded
        ELSE IF first = "none" THEN \A i \in 1..Len(inbox) : inbox[i] \notin Forwarded
        ELSE \E i \in 1..Len(inbox) : FirstAt(i)

StreamInv == StreamTypeOK /\ PingsAccounted /\ NoPingBeforeFactory /\ Greeting

-----------------------------------------------------------------------------
(* The replies in the stream, when a message is sent and when one is read. *)

\* A message that the switch sends hides no reply that is under way.
LEMMA RepliesSent ==
    ASSUME StreamTypeOK, NEW m \in Message, inbox' = Append(inbox, m), Replies' = {}
    PROVE  Replies = {} /\ m # "ECHO_REPLY"
<1> USE DEF StreamTypeOK
<1>1. Len(inbox') = Len(inbox) + 1 /\ inbox'[Len(inbox) + 1] = m
    BY DEF Message
<1>2. \A i \in 1..Len(inbox) : inbox'[i] = inbox[i] /\ i \in 1..Len(inbox')
    BY <1>1
<1>3. Len(inbox) + 1 \in 1..Len(inbox')
    BY <1>1
<1> QED BY <1>1, <1>2, <1>3 DEF Replies

\* Reading takes one message: if no reply is left, none was behind the head.
LEMMA RepliesRead ==
    ASSUME StreamTypeOK, inbox # <<>>, inbox' = Tail(inbox), Replies' = {},
           Head(inbox) # "ECHO_REPLY"
    PROVE  Replies = {}
<1> USE DEF StreamTypeOK
<1>1. Len(inbox) \in Nat \ {0} /\ Len(inbox') = Len(inbox) - 1 /\ Head(inbox) = inbox[1]
    OBVIOUS
<1>2. \A i \in 1..Len(inbox') : inbox'[i] = inbox[i + 1]
    BY <1>1
<1>3. SUFFICES ASSUME NEW i \in 1..Len(inbox), inbox[i] = "ECHO_REPLY" PROVE FALSE
    BY DEF Replies
<1>4. i # 1 /\ i - 1 \in 1..Len(inbox')
    BY <1>1, <1>3
<1>5. inbox'[i - 1] = "ECHO_REPLY"
    BY <1>1, <1>2, <1>3, <1>4
<1>6. i - 1 \in Replies'
    BY <1>4, <1>5 DEF Replies
<1> QED BY <1>6

-----------------------------------------------------------------------------
\* The invariant holds at first.
LEMMA StreamInvInit == StreamInit => StreamInv
<1> SUFFICES ASSUME StreamInit PROVE StreamInv
    OBVIOUS
<1>1. StreamTypeOK
    <2>1. inbox \in Seq(Message) /\ channel \in Seq(Forwarded) /\ Len(inbox) = 0 /\ Len(channel) = 0
        BY DEF StreamInit
    <2>2. factory \in BOOLEAN /\ ctxDone \in BOOLEAN /\ crashed \in BOOLEAN /\ greeted \in BOOLEAN
        BY Zenon DEF StreamInit
    <2> QED BY <2>1, <2>2, Sizes DEF StreamInit, StreamTypeOK
<1>2. PingsAccounted /\ NoPingBeforeFactory
    BY DEF StreamInit, PingsAccounted, NoPingBeforeFactory
<1>3. Greeting
    BY DEF StreamInit, Greeting
<1> QED BY <1>1, <1>2, <1>3 DEF StreamInv

\* Every step preserves the types.
LEMMA StreamTypeStep == ASSUME StreamTypeOK, [StreamNext]_streamVars PROVE StreamTypeOK'
<1> USE Sizes DEF StreamTypeOK, Forwarded
<1>1. ASSUME NEW m \in Message, Send(m) PROVE StreamTypeOK'
    BY <1>1 DEF Send, MaySend, Message, readerVars, dispatcherVars
<1>2. ASSUME Leave("dead") \/ Leave("hungup") PROVE StreamTypeOK'
    BY <1>2 DEF Leave, readerVars, dispatcherVars
<1>3. CASE Shutdown
    BY <1>3 DEF Shutdown, switchVars, readerVars, dispatcherVars
<1>4. CASE ReaderEnds
    BY <1>4 DEF ReaderEnds, StopReader, switchVars, dispatcherVars
<1>5. CASE Read
    <2>1. inbox' \in Seq(Message) /\ Len(inbox') <= MaxInbox
        BY <1>5 DEF Read, Message
    <2>2. CASE Head(inbox) \in Forwarded
        <3>0. forward(Head(inbox))
            BY <1>5, <2>2 DEF Read
        <3>1. channel' \in Seq(Forwarded) /\ Len(channel') <= Buffer
            <4>1. CASE Len(channel) < Buffer
                BY <2>2, <3>0, <4>1 DEF forward
            <4>2. CASE ~(Len(channel) < Buffer)
                BY <3>0, <4>2 DEF forward
            <4> QED BY <4>1, <4>2
        <3>2. UNCHANGED <<peer, greeted, first, pending, reader, pingCounter, dispatcher, waited, factory, ctxDone, crashed>>
            BY <1>5, <3>0 DEF Read, forward, dispatcherVars
        <3>3. idle' = 0
            BY <1>5 DEF Read
        <3> QED BY <2>1, <3>1, <3>2, <3>3
    <2>3. CASE Head(inbox) \in {"ECHO_REQUEST", "ECHO_REPLY"}
        <3>1. UNCHANGED <<peer, greeted, first, pending, channel, dispatcher, waited, factory, ctxDone>>
            BY <1>5, <2>3 DEF Read, dispatcherVars
        <3>2. idle' = 0 /\ handleEcho(Head(inbox))
            BY <1>5, <2>3 DEF Read
        <3>3. pingCounter' \in {0, pingCounter} /\ reader' \in {reader, "closed"}
            BY <3>2 DEF handleEcho
        <3>4. crashed' \in BOOLEAN
            BY <3>2, Zenon DEF handleEcho
        <3> QED BY <2>1, <3>1, <3>2, <3>3, <3>4
    <2>4. CASE Head(inbox) = "INVALID"
        BY <1>5, <2>1, <2>4 DEF Read, StopReader, dispatcherVars
    <2> QED BY <1>5, <2>2, <2>3, <2>4 DEF Read
<1>6. CASE ReadTimeout
    <2>1. CASE Idle
        <3>1. UNCHANGED <<peer, greeted, inbox, dispatcher, factory, first, ctxDone>> /\ waited' \in 0..HelloTimeout
            BY <1>6 DEF ReadTimeout
        <3>2. sendEchoRequest
            BY <1>6, <2>1 DEF ReadTimeout
        <3>3. /\ pingCounter' \in 0..(MaxPings + 1) /\ pending' \in 0..(MaxPings + 1)
              /\ UNCHANGED <<idle, channel>> /\ reader' \in {"run", "closed"}
            BY <3>2 DEF sendEchoRequest, StopReader
        <3>4. crashed' \in BOOLEAN
            BY <3>2, Zenon DEF sendEchoRequest, StopReader
        <3> QED BY <3>1, <3>3, <3>4
    <2>2. CASE ~Idle
        BY <1>6, <2>2 DEF ReadTimeout, Idle
    <2> QED BY <2>1, <2>2
<1>7. CASE NegotiateFails
    BY <1>7 DEF NegotiateFails, End, switchVars, readerVars
<1>8. CASE negotiate
    <2>1. UNCHANGED <<switchVars, readerVars, ctxDone, crashed>>
        BY <1>8 DEF negotiate
    <2>2. channel' \in Seq(Forwarded) /\ Len(channel') <= Buffer
        BY <1>8 DEF negotiate
    <2>3. dispatcher' \in {"negotiate", "loop", "done", "closed"} /\ waited' = waited
        BY <1>8 DEF negotiate, dispatch, End
    <2>4. factory' \in BOOLEAN
        BY <1>8, Zenon DEF negotiate, End
    <2> QED BY <2>1, <2>2, <2>3, <2>4 DEF switchVars, readerVars
<1>9. CASE Dispatch
    BY <1>9 DEF Dispatch, dispatch, switchVars, readerVars, Message
<1>10. CASE LoopEnds
    BY <1>10 DEF LoopEnds, End, switchVars, readerVars
<1>11. CASE CloseStream
    BY <1>11 DEF CloseStream, switchVars, readerVars
<1>12. CASE UNCHANGED streamVars
    BY <1>12 DEF streamVars, switchVars, readerVars, dispatcherVars
<1> QED
    BY <1>1, <1>2, <1>3, <1>4, <1>5, <1>6, <1>7, <1>8, <1>9, <1>10, <1>11, <1>12 DEF StreamNext, Reader, Run

\* Every step preserves the account of the pings.
LEMMA PingStep ==
    ASSUME StreamTypeOK, PingsAccounted, NoPingBeforeFactory, [StreamNext]_streamVars
    PROVE  PingsAccounted' /\ NoPingBeforeFactory'
<1> USE Sizes DEF PingsAccounted, NoPingBeforeFactory, Forwarded
<1>1. ASSUME NEW m \in Message, Send(m) PROVE PingsAccounted' /\ NoPingBeforeFactory'
    BY <1>1, RepliesSent DEF Send, readerVars, dispatcherVars
<1>2. CASE Read
    <2>1. CASE Head(inbox) = "ECHO_REPLY"
        BY <1>2, <2>1 DEF Read, handleEcho, dispatcherVars, StreamTypeOK
    <2>2. CASE Head(inbox) # "ECHO_REPLY"
        <3>1. Replies' = {} => Replies = {}
            BY <1>2, <2>2, RepliesRead DEF Read
        <3>2. pingCounter' = pingCounter /\ pending' = pending /\ factory' = factory
            BY <1>2, <2>2 DEF Read, handleEcho, forward, StopReader, dispatcherVars
        <3> QED BY <1>2, <3>1, <3>2 DEF Read
    <2> QED BY <2>1, <2>2
<1>3. CASE ReadTimeout
    <2>1. Replies' = Replies /\ factory' = factory
        BY <1>3 DEF ReadTimeout, Replies
    <2>2. CASE Idle
        BY <1>3, <2>1, <2>2 DEF ReadTimeout, sendEchoRequest, StopReader, StreamTypeOK
    <2>3. CASE ~Idle
        BY <1>3, <2>1, <2>3 DEF ReadTimeout
    <2> QED BY <2>2, <2>3
<1>4. ASSUME UNCHANGED <<inbox, pending, pingCounter>>, factory => factory', reader' # "run" \/ reader' = reader
      PROVE  PingsAccounted' /\ NoPingBeforeFactory'
    BY <1>4 DEF Replies
<1>5. CASE Leave("dead") \/ Leave("hungup") \/ Shutdown \/ ReaderEnds
    BY <1>4, <1>5 DEF Leave, Shutdown, ReaderEnds, StopReader, switchVars, readerVars, dispatcherVars
<1>6. CASE Run
    BY <1>4, <1>6 DEF Run, NegotiateFails, negotiate, Dispatch, LoopEnds, CloseStream, dispatch, End,
                      switchVars, readerVars
<1>7. CASE UNCHANGED streamVars
    BY <1>4, <1>7 DEF streamVars, switchVars, readerVars, dispatcherVars
<1> QED BY <1>1, <1>2, <1>3, <1>5, <1>6, <1>7 DEF StreamNext, Reader

\* Every step keeps the first message first, on its way from the stream to
\* negotiate: the reader drops a message only when the channel is full, so
\* never the one that is to be its head.
LEMMA GreetingStep ==
    ASSUME StreamTypeOK, Greeting, [StreamNext]_streamVars
    PROVE  Greeting'
<1> SUFFICES ASSUME dispatcher' = "negotiate" PROVE Greeting'
    BY DEF Greeting
<1>0. dispatcher = "negotiate" \/ UNCHANGED dispatcher
    BY DEF StreamNext, Run, Reader, Send, Leave, Shutdown, ReaderEnds, Read, ReadTimeout, NegotiateFails,
           negotiate, Dispatch, LoopEnds, CloseStream, dispatch, End, dispatcherVars, streamVars
<1>1. dispatcher = "negotiate"
    BY <1>0
<1>2. ASSUME NEW m \in Message, Send(m) PROVE Greeting'
    <2>1. inbox' = Append(inbox, m) /\ channel' = channel
          /\ first' = IF first = "none" /\ m \in Forwarded THEN m ELSE first
        BY <1>2 DEF Send
    <2>2. /\ Len(inbox') = Len(inbox) + 1 /\ inbox'[Len(inbox) + 1] = m /\ Len(inbox) \in Nat
          /\ \A i \in 1..Len(inbox) : inbox'[i] = inbox[i]
        BY <2>1 DEF StreamTypeOK
    <2>3. CASE channel # <<>>
        BY <1>1, <2>1, <2>3 DEF Greeting, Forwarded
    <2>4. CASE channel = <<>> /\ first = "none" /\ m \notin Forwarded
        BY <1>1, <2>1, <2>2, <2>4 DEF Greeting
    <2>5. CASE channel = <<>> /\ first = "none" /\ m \in Forwarded
        <3>1. \A j \in 1..Len(inbox) : inbox[j] \notin Forwarded
            BY <1>1, <2>5 DEF Greeting
        <3>2. PICK n \in Nat : n = Len(inbox) + 1
            BY <2>2
        <3>3. FirstAt(n)'
            BY <2>1, <2>2, <2>5, <3>1, <3>2 DEF FirstAt
        <3>4. n \in 1..Len(inbox') /\ first' # "none"
            BY <2>1, <2>2, <2>5, <3>2 DEF Forwarded
        <3> QED BY <2>1, <2>5, <3>3, <3>4 DEF Greeting
    <2>6. CASE channel = <<>> /\ first # "none"
        <3>1. PICK i \in 1..Len(inbox) : FirstAt(i)
            BY <1>1, <2>6 DEF Greeting
        <3>2. FirstAt(i)' /\ i \in 1..Len(inbox')
            BY <2>1, <2>2, <2>6, <3>1 DEF FirstAt
        <3> QED BY <2>1, <2>6, <3>2 DEF Greeting
    <2> QED BY <2>3, <2>4, <2>5, <2>6
<1>3. CASE Read
    <2>1. inbox # <<>> /\ inbox' = Tail(inbox) /\ first' = first
        BY <1>3 DEF Read
    <2>2. /\ Len(inbox) \in Nat \ {0} /\ Len(inbox') = Len(inbox) - 1 /\ Head(inbox) = inbox[1]
          /\ \A i \in 1..Len(inbox') : inbox'[i] = inbox[i + 1]
        BY <2>1 DEF StreamTypeOK
    <2>3. CASE channel # <<>>
        <3>1. channel' # <<>> /\ Head(channel') = Head(channel)
            BY <1>3, <2>3, SMTT(30) DEF Read, forward, StopReader, StreamTypeOK, Forwarded
        <3> QED BY <1>1, <2>1, <2>3, <3>1 DEF Greeting
    <2>4. CASE channel = <<>> /\ Head(inbox) \notin Forwarded
        <3>1. channel' = <<>>
            BY <1>3, <2>4 DEF Read, StopReader
        <3>2. CASE first = "none"
            BY <1>1, <2>1, <2>2, <2>4, <3>1, <3>2 DEF Greeting
        <3>3. CASE first # "none"
            <4>1. PICK i \in 1..Len(inbox) : FirstAt(i)
                BY <1>1, <2>4, <3>3 DEF Greeting
            <4>2. i # 1
                BY <2>2, <2>4, <4>1 DEF FirstAt
            <4>3. i - 1 \in 1..Len(inbox') /\ inbox'[i - 1] = inbox[i]
                BY <2>2, <4>2
            <4>4. FirstAt(i - 1)'
                BY <2>1, <2>2, <4>1, <4>3 DEF FirstAt
            <4> QED BY <2>1, <3>1, <3>3, <4>3, <4>4 DEF Greeting
        <3> QED BY <3>2, <3>3
    <2>5. CASE channel = <<>> /\ Head(inbox) \in Forwarded
        <3>1. first = Head(inbox)
            <4>1. 1 \in 1..Len(inbox)
                BY <2>2
            <4>2. PICK i \in 1..Len(inbox) : FirstAt(i)
                BY <1>1, <2>2, <2>5, <4>1 DEF Greeting
            <4> QED BY <2>2, <2>5, <4>1, <4>2 DEF FirstAt
        <3>2. Len(channel) < Buffer
            BY <2>5, Sizes
        <3>3. channel' = <<Head(inbox)>>
            BY <1>3, <2>5, <3>2 DEF Read, forward, Forwarded
        <3> QED BY <2>1, <2>5, <3>1, <3>3 DEF Greeting
    <2> QED BY <2>3, <2>4, <2>5
<1>4. CASE UNCHANGED <<inbox, channel, first>>
    BY <1>1, <1>4 DEF Greeting, FirstAt
<1>5. CASE ReaderEnds \/ ReadTimeout
    BY <1>4, <1>5 DEF ReaderEnds, ReadTimeout, StopReader, sendEchoRequest, switchVars
<1>6. ASSUME Leave("dead") \/ Leave("hungup") \/ Shutdown PROVE Greeting'
    BY <1>4, <1>6 DEF Leave, Shutdown, switchVars
<1>7. CASE UNCHANGED streamVars
    BY <1>4, <1>7 DEF streamVars, switchVars
<1>8. ~Run
    BY <1>1 DEF Run, NegotiateFails, negotiate, Dispatch, LoopEnds, CloseStream, dispatch, End
<1> QED BY <1>2, <1>3, <1>5, <1>6, <1>7, <1>8 DEF StreamNext, Reader

\* The invariant is inductive.
LEMMA StreamInvStep == StreamInv /\ [StreamNext]_streamVars => StreamInv'
BY StreamTypeStep, PingStep, GreetingStep DEF StreamInv

\* StreamSpec => []StreamInv, from which the theorems follow.
LEMMA StreamInvariant == StreamSpec => []StreamInv
BY StreamInvInit, StreamInvStep, PTL DEF StreamSpec

-----------------------------------------------------------------------------
\* The variables of transceiver.go stay within their types: in particular the
\* channel never holds more than its capacity, nor an echo.
THEOREM StreamTypeCorrect == StreamSpec => []StreamTypeOK
<1>1. StreamInv => StreamTypeOK BY DEF StreamInv
<1> QED BY <1>1, StreamInvariant, PTL

\* sendEchoRequest gives a switch up only after it left more than MaxPings
\* pings unanswered, whenever late replies arrive.
THEOREM PingsThm == StreamSpec => []PingsAccounted
<1>1. StreamInv => PingsAccounted BY DEF StreamInv
<1> QED BY <1>1, StreamInvariant, PTL

\* negotiate finds the first message the switch sent, whatever the sizes of the
\* channel and of a burst that overflows it: a switch that greets first is not
\* turned away.
THEOREM GreetingThm == StreamSpec => []GreetingKept
<1>1. StreamInv => GreetingKept
  BY DEF StreamInv, Greeting, GreetingKept
<1> QED BY <1>1, StreamInvariant, PTL
=============================================================================
