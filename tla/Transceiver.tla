---------------------------- MODULE Transceiver -----------------------------
(***************************************************************************)
(* openflow/transceiver/transceiver.go: the two goroutines that serve a    *)
(* switch connection.  The reader takes messages off the stream, answers   *)
(* and counts echoes, pings an idle switch and forwards everything else to *)
(* a bounded channel, dropping what does not fit.  The dispatcher waits    *)
(* for the HELLO, chooses the protocol version and hands messages to the   *)
(* session.  They share factory (nil until the version is chosen) and the  *)
(* stream, and end each other through the channel and a context.           *)
(*                                                                         *)
(* Using the nil factory is a panic, which ends the controller.            *)
(***************************************************************************)
EXTENDS Integers, Sequences

CONSTANTS
    MaxIdle,      \* maxIdleTime, in read timeouts
    HelloTimeout, \* the 30 seconds of negotiate, in read timeouts
    MaxPings,     \* 2: pings sent while pingCounter <= MaxPings
    Buffer,       \* capacity of the channel
    MaxInbox      \* bound: messages in the stream

ASSUME Sizes ==
    /\ MaxIdle \in Nat /\ HelloTimeout \in Nat /\ MaxPings \in Nat
    /\ Buffer \in Nat \ {0} /\ MaxInbox \in Nat \ {0}

\* INVALID stands for a header with a bad length or an unknown version.
Message == {"HELLO", "ECHO_REQUEST", "ECHO_REPLY", "OTHER", "INVALID"}

\* What the reader does not deal with itself.
Forwarded == {"HELLO", "OTHER"}

VARIABLES
    peer,        \* the switch: "up", "dead" (silent) or "hungup"
    greeted,     \* has the switch sent its HELLO?
    inbox,       \* messages in the stream
    first,       \* history: the first message sent that is no echo
    pending,     \* pings the switch has not answered, counted up to MaxPings + 1
    reader,      \* the reader goroutine: "run" or "closed"
    idle,        \* time since lastActivated, counted up to MaxIdle + 1
    pingCounter, \* Transceiver.pingCounter
    channel,     \* the channel between the two
    dispatcher,  \* Run: "negotiate", "loop", "done", or "closed" after Close
    waited,      \* time in negotiate, counted up to HelloTimeout
    factory,     \* Transceiver.factory # nil
    ctxDone,     \* the context of the controller is cancelled
    crashed      \* a goroutine panicked

switchVars == <<peer, greeted, inbox, first, pending>>
readerVars == <<reader, idle, pingCounter>>
dispatcherVars == <<dispatcher, waited, factory>>
streamVars == <<switchVars, readerVars, channel, dispatcherVars, ctxDone, crashed>>

StreamInit ==
    /\ peer = "up" /\ greeted = FALSE /\ inbox = <<>> /\ first = "none" /\ pending = 0
    /\ reader = "run" /\ idle = 0 /\ pingCounter = 0
    /\ channel = <<>>
    /\ dispatcher = "negotiate" /\ waited = 0 /\ factory = FALSE
    /\ ctxDone = FALSE
    /\ crashed = FALSE

-----------------------------------------------------------------------------
(* The switch.  It greets before it sends echoes; it may fall silent.      *)

MaySend(m) ==
    \/ m = "HELLO" /\ ~greeted
    \/ m \in {"OTHER", "INVALID"}
    \/ m = "ECHO_REQUEST" /\ greeted
    \/ m = "ECHO_REPLY" /\ pending > 0

Send(m) ==
    /\ peer = "up" /\ MaySend(m) /\ Len(inbox) < MaxInbox
    /\ inbox' = Append(inbox, m)
    /\ greeted' = (greeted \/ m = "HELLO")
    /\ first' = IF first = "none" /\ m \in Forwarded THEN m ELSE first
    /\ pending' = IF m = "ECHO_REPLY" THEN pending - 1 ELSE pending
    /\ UNCHANGED <<peer, readerVars, channel, dispatcherVars, ctxDone, crashed>>

Leave(how) ==
    /\ peer = "up"
    /\ peer' = how
    /\ UNCHANGED <<greeted, inbox, first, pending, readerVars, channel, dispatcherVars, ctxDone, crashed>>

Shutdown ==
    /\ ~ctxDone
    /\ ctxDone' = TRUE
    /\ UNCHANGED <<switchVars, readerVars, channel, dispatcherVars, crashed>>

-----------------------------------------------------------------------------
(* runReader *)

\* The context is cancelled by the controller or by Run's return.
Cancelled == ctxDone \/ dispatcher \in {"done", "closed"}

StopReader == reader' = "closed" /\ UNCHANGED <<pingCounter, channel, crashed>>

\* The context is done, or the read fails: end of stream, or closed by us.
ReaderEnds ==
    /\ reader = "run"
    /\ Cancelled \/ dispatcher = "closed" \/ (peer = "hungup" /\ inbox = <<>>)
    /\ StopReader
    /\ UNCHANGED <<switchVars, idle, dispatcherVars, ctxDone>>

\* Mutant of handleEcho: a reply does not reset the counter.
handleEcho_NoReset(m) ==
    IF ~factory
    THEN crashed' = TRUE /\ UNCHANGED <<reader, pingCounter>>
    ELSE UNCHANGED <<reader, pingCounter, crashed>>

\* handleEcho: an echo needs the factory.  It may be malformed, and the reply
\* to a request may fail to be written.
handleEcho(m) ==
    \/ ~factory /\ crashed' = TRUE /\ UNCHANGED <<reader, pingCounter>>
    \/ factory /\ reader' = "closed" /\ UNCHANGED <<pingCounter, crashed>>
    \/ /\ factory
       /\ pingCounter' = IF m = "ECHO_REPLY" THEN 0 ELSE pingCounter
       /\ UNCHANGED <<reader, crashed>>

\* Mutant of forward: the full channel loses its oldest message.
forward_DropsOldest(m) ==
    /\ channel' = Append(IF Len(channel) < Buffer THEN channel ELSE Tail(channel), m)
    /\ UNCHANGED <<reader, pingCounter, crashed>>

\* Anything else is forwarded, or dropped when the channel is full.
forward(m) ==
    /\ channel' = IF Len(channel) < Buffer THEN Append(channel, m) ELSE channel
    /\ UNCHANGED <<reader, pingCounter, crashed>>

Read ==
    /\ reader = "run" /\ dispatcher # "closed"
    /\ inbox # <<>>
    /\ inbox' = Tail(inbox)
    /\ idle' = 0   \* of no account once the reader ends
    /\ LET m == Head(inbox)
       IN  \/ m = "INVALID" /\ StopReader
           \/ m \in {"ECHO_REQUEST", "ECHO_REPLY"} /\ handleEcho(m) /\ UNCHANGED channel
           \/ m \in Forwarded /\ forward(m)
    /\ UNCHANGED <<peer, greeted, first, pending, dispatcherVars, ctxDone>>

\* Mutant of sendEchoRequest: the pings are not limited.
sendEchoRequest_Forever ==
    IF factory
    THEN /\ pending' = IF pending <= MaxPings THEN pending + 1 ELSE pending
         /\ UNCHANGED <<reader, idle, pingCounter, channel, crashed>>
    ELSE crashed' = TRUE /\ UNCHANGED <<reader, idle, pingCounter, pending, channel>>

\* sendEchoRequest: three unanswered pings are enough.
sendEchoRequest ==
    \/ pingCounter > MaxPings /\ StopReader /\ UNCHANGED <<idle, pending>>
    \/ /\ pingCounter <= MaxPings /\ ~factory
       /\ crashed' = TRUE
       /\ UNCHANGED <<reader, idle, pingCounter, pending, channel>>
    \/ /\ pingCounter <= MaxPings /\ factory
       /\ pingCounter' = pingCounter + 1
       /\ pending' = IF pending <= MaxPings THEN pending + 1 ELSE pending
       /\ UNCHANGED <<reader, idle, channel, crashed>>
    \/ pingCounter <= MaxPings /\ factory /\ StopReader /\ UNCHANGED <<idle, pending>>

Idle == idle > MaxIdle

\* A read timeout passes without a message: the reader looks at the idle
\* time, and time goes by for negotiate too.
ReadTimeout ==
    /\ reader = "run" /\ dispatcher # "closed"
    /\ inbox = <<>> /\ peer # "hungup"
    /\ waited' = IF dispatcher = "negotiate" /\ waited < HelloTimeout THEN waited + 1 ELSE waited
    /\ IF Idle
       THEN sendEchoRequest
       ELSE idle' = idle + 1 /\ UNCHANGED <<reader, pingCounter, pending, channel, crashed>>
    /\ UNCHANGED <<peer, greeted, inbox, first, dispatcher, factory, ctxDone>>

-----------------------------------------------------------------------------
(* Run *)

End == dispatcher' = "done" /\ UNCHANGED <<waited, factory>>

\* Mutant of NothingToRead: a closed channel is not noticed.
NothingToRead_Open == ctxDone

\* The channel is closed and drained, or the context is done.
NothingToRead == (reader = "closed" /\ channel = <<>>) \/ ctxDone

NegotiateFails ==
    /\ dispatcher = "negotiate"
    /\ NothingToRead \/ waited >= HelloTimeout
    /\ End
    /\ UNCHANGED <<switchVars, readerVars, channel, ctxDone, crashed>>

\* dispatch: a message of another version ends Run, and so does a handler
\* that fails, unless its error is temporary.
dispatch == dispatcher' \in {"loop", "done"}

\* "The first message should be HELLO."
negotiate ==
    /\ dispatcher = "negotiate"
    /\ channel # <<>>
    /\ channel' = Tail(channel)
    /\ IF Head(channel) = "HELLO"
       THEN factory' = TRUE /\ dispatch /\ UNCHANGED waited
       ELSE End
    /\ UNCHANGED <<switchVars, readerVars, ctxDone, crashed>>

Dispatch ==
    /\ dispatcher = "loop"
    /\ channel # <<>>
    /\ channel' = Tail(channel)
    /\ dispatch
    /\ UNCHANGED <<switchVars, readerVars, waited, factory, ctxDone, crashed>>

LoopEnds ==
    /\ dispatcher = "loop"
    /\ NothingToRead
    /\ End
    /\ UNCHANGED <<switchVars, readerVars, channel, ctxDone, crashed>>

\* session.Run closes the stream when Run has returned.
CloseStream ==
    /\ dispatcher = "done"
    /\ dispatcher' = "closed"
    /\ UNCHANGED <<switchVars, readerVars, channel, waited, factory, ctxDone, crashed>>

-----------------------------------------------------------------------------
Reader == ReaderEnds \/ Read \/ ReadTimeout
Run == NegotiateFails \/ negotiate \/ Dispatch \/ LoopEnds \/ CloseStream

StreamNext ==
    /\ ~crashed
    /\ \/ \E m \in Message : Send(m)
       \/ Leave("dead") \/ Leave("hungup")
       \/ Shutdown
       \/ Reader
       \/ Run

\* Both goroutines are scheduled, and reads time out.  A cancelled context is
\* noticed at the next turn of the reader's loop.
StreamSpec ==
    /\ StreamInit /\ [][StreamNext]_streamVars
    /\ WF_streamVars(~crashed /\ Reader) /\ WF_streamVars(~crashed /\ ReaderEnds)
    /\ WF_streamVars(~crashed /\ Run)

-----------------------------------------------------------------------------
(* Properties *)

StreamTypeOK ==
    /\ peer \in {"up", "dead", "hungup"} /\ greeted \in BOOLEAN
    /\ inbox \in Seq(Message) /\ Len(inbox) <= MaxInbox
    /\ first \in Forwarded \cup {"none"}
    /\ pending \in 0..(MaxPings + 1)
    /\ reader \in {"run", "closed"} /\ idle \in 0..(MaxIdle + 1)
    /\ pingCounter \in 0..(MaxPings + 1)
    /\ channel \in Seq(Forwarded) /\ Len(channel) <= Buffer
    /\ dispatcher \in {"negotiate", "loop", "done", "closed"}
    /\ waited \in 0..HelloTimeout
    /\ factory \in BOOLEAN
    /\ ctxDone \in BOOLEAN /\ crashed \in BOOLEAN

Replies == {i \in 1..Len(inbox) : inbox[i] = "ECHO_REPLY"}

\* A switch is given up for dead only if it left more than MaxPings pings in
\* a row unanswered: the counter never runs ahead of the pings whose answers
\* are missing.
PingsAccounted == reader = "run" /\ Replies = {} => pingCounter <= pending

\* A switch that greets first is never turned away with "missing HELLO message":
\* what negotiate finds is the first message the switch sent, although a burst
\* before Run is scheduled overflows the channel and messages are dropped.
GreetingKept == dispatcher = "negotiate" /\ channel # <<>> => Head(channel) = first

\* A switch that falls silent, whenever it does, is disconnected.
DeadPeerDetected == peer = "dead" ~> dispatcher = "closed" \/ crashed

\* The goroutines end together: neither outlives the connection.
EndTogether ==
    /\ reader = "closed" ~> dispatcher = "closed" \/ crashed
    /\ dispatcher = "done" ~> reader = "closed" \/ crashed

\* A switch that is inactive before its HELLO is turned away with the error
\* "inactive for too long" (transceiver.go), and the controller goes on.
NeverCrashes == ~crashed
=============================================================================
