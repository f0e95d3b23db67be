---------------------------- MODULE Flows_proofs ----------------------------
(***************************************************************************)
(* Proofs about flows.  Forwarding: why a flow that contradicts the route  *)
(* of its host does not stay, for any network, any host and any number of  *)
(* goroutines.  MatchPair: why the matches of both versions of OpenFlow    *)
(* answer what was set, for any addresses and numbers.                     *)
(***************************************************************************)
EXTENDS Forwarding, MatchPair, SequenceTheorems, TLAPS

-----------------------------------------------------------------------------
(* The work of a goroutine *)

\* modifyFlows and processPacket have read a location.
Aimed(k) == k.op = "modify" => k.at \in End

\* The lists of tasks that a goroutine has at any time: t serves device t, or
\* is the timer or the flow manager.
Shape(t, s) ==
    \/ s = <<>>
    \/ \E k \in Task : k.op \in {"all", "byMAC", "modify"} /\ Aimed(k) /\ s = <<k>>
    \/ \E k \in Task : k.op = "reset" /\ s = <<k, All("all", Unknown)>>
    \/ \E d \in Device :
        \/ s = <<One("removeFlows", d, NoPort)>>
        \/ \E k \in Task : k.op = "all" /\ s = <<One("removeFlows", d, NoPort), k>>
    \/ \E d \in Device, p \in Port :
        \/ s = <<One("set", d, p)>>
        \/ \E k \in Task : k.op = "modify" /\ Aimed(k) /\ s = <<One("set", d, p), k>>
    \/ /\ t \in Device
       /\ \E p \in Port :
            \/ s = <<One("resetPort", t, p), One("byPort", t, p), One("portRemoved", t, p)>>
            \/ s = <<One("byPort", t, p), One("portRemoved", t, p)>>
            \/ s = <<One("portRemoved", t, p)>>
            \/ s = <<One("locate", t, p)>>

\* The end of a session, during which its device is closed and still listed.
Ending(t, s) ==
    /\ t \in Device
    /\ \/ s = <<One("resetDevice", t, NoPort), One("deviceRemoved", t, NoPort)>>
       \/ s = <<One("deviceRemoved", t, NoPort)>>

List(t, s) == Shape(t, s) \/ (Ending(t, s) /\ t \in devices /\ conn[t] = "closed")

\* The devices that a task lists have connected.
Known(s) == \A i \in 1..Len(s) : s[i].listed => \A d \in s[i].devs : conn[d] # "new"

Lists == \A t \in Thread : List(t, todo[t]) /\ Known(todo[t])

\* The life of a device: its switch starts without flows.
Lives ==
    \A d \in Device :
        /\ d \in devices => conn[d] # "new"
        /\ d \notin devices => conn[d] \in {"new", "closed"}
        /\ conn[d] = "new" => table[d] = NoPort

Types ==
    /\ loc \in End \cup {Unknown}
    /\ links \subseteq Link /\ devices \subseteq Device
    /\ conn \in [Device -> {"new", "up", "broken", "closed"}]
    /\ table \in [Device -> Port \cup {NoPort}]
    /\ stale \in [Device -> BOOLEAN]
    /\ todo \in [Thread -> Seq(Task)]

-----------------------------------------------------------------------------
(* The removals that can be relied upon *)

\* A task of the list will remove the host's flow from d.
Covers(k, d) == k.op \in {"byMAC", "all", "removeFlows"} /\ (~k.listed \/ d \in k.devs)
Has(s, d) == \E i \in 1..Len(s) : Covers(s[i], d)

\* OnPortDown of L2Switch is next (behind resetPort it may be skipped).
PortNext(s, d) == s # <<>> /\ Head(s).op = "byPort" /\ d \in Head(s).devs /\ Head(s).port = table[d]

\* removeAllFlows is about to write to a device that is gone, and to give up.
GivesUp(s) == s # <<>> /\ Head(s).op = "removeFlows" /\ ~(Head(s).devs \subseteq devices)

Due(t, d) == ~GivesUp(todo[t]) /\ (Has(todo[t], d) \/ PortNext(todo[t], d))

Explained(d) == Justified(d) \/ stale[d] \/ RemovalAhead \/ \E t \in Thread : Due(t, d)

AllExplained == \A d \in devices : conn[d] = "up" => Explained(d)

FlowInv == Types /\ Lists /\ Lives /\ AllExplained

-----------------------------------------------------------------------------
(* Tasks and lists of tasks *)

LEMMA OneTask ==
    ASSUME NEW op \in Op, NEW d \in Device, NEW p \in Port \cup {NoPort}
    PROVE  /\ One(op, d, p) \in Task
           /\ One(op, d, p).op = op /\ One(op, d, p).listed
           /\ One(op, d, p).devs = {d} /\ One(op, d, p).port = p
BY DEF One, Task

LEMMA AllTask ==
    ASSUME NEW op \in Op, NEW at \in End \cup {Unknown}
    PROVE  All(op, at) \in Task /\ All(op, at).op = op /\ ~All(op, at).listed
BY DEF All, Task

\* The task with the devices that are left
Trimmed(k, D) == [k EXCEPT !.listed = TRUE, !.devs = D]

LEMMA TrimmedTask ==
    ASSUME NEW k \in Task, NEW D \in SUBSET Device
    PROVE  /\ Trimmed(k, D) \in Task
           /\ Trimmed(k, D).op = k.op /\ Trimmed(k, D).listed /\ Trimmed(k, D).devs = D
           /\ Trimmed(k, D).at = k.at
BY DEF Trimmed, Task

LEMMA OneLong ==
    ASSUME NEW k \in Task
    PROVE  /\ <<k>> \in Seq(Task) /\ <<k>> # <<>> /\ Head(<<k>>) = k /\ Tail(<<k>>) = <<>>
           /\ <<k>> \o <<>> = <<k>>
OBVIOUS

LEMMA TwoLong ==
    ASSUME NEW k \in Task, NEW j \in Task
    PROVE  /\ <<k, j>> \in Seq(Task) /\ <<k, j>> # <<>> /\ Head(<<k, j>>) = k /\ Tail(<<k, j>>) = <<j>>
           /\ <<k>> \o <<j>> = <<k, j>>
<1>1. <<k, j>> \in Seq(Task) /\ <<k, j>> # <<>> /\ Head(<<k, j>>) = k
  OBVIOUS
<1>2. Tail(<<k, j>>) = <<j>>
  OBVIOUS
<1>3. <<k>> \o <<j>> = <<k, j>>
  <2> DEFINE c == <<k>> \o <<j>>
             e == <<k, j>>
  <2>1. <<k>> \in Seq(Task) /\ <<j>> \in Seq(Task) /\ Len(<<k>>) = 1 /\ Len(<<j>>) = 1
        /\ e \in Seq(Task) /\ Len(e) = 2 /\ e[1] = k /\ e[2] = j
    OBVIOUS
  <2>2. c \in Seq(Task) /\ Len(c) = 2
    BY <2>1, ConcatProperties
  <2>3. c[1] = k
    BY <2>1, ConcatProperties
  <2>4. c[2] = <<j>>[2 - 1]
    BY <2>1, ConcatProperties
  <2>5. \A i \in 1..2 : c[i] = e[i]
    BY <2>1, <2>3, <2>4
  <2> HIDE DEF c, e
  <2>6. c = e
    BY <2>1, <2>2, <2>5, SeqEqual
  <2> QED BY <2>6 DEF c, e
<1> QED BY <1>1, <1>2, <1>3

LEMMA ThreeLong ==
    ASSUME NEW k \in Task, NEW i \in Task, NEW j \in Task
    PROVE  /\ <<k, i, j>> \in Seq(Task) /\ <<k, i, j>> # <<>>
           /\ Head(<<k, i, j>>) = k /\ Tail(<<k, i, j>>) = <<i, j>>
           /\ <<k, i>> \o <<j>> = <<k, i, j>>
<1>1. <<k, i, j>> \in Seq(Task) /\ <<k, i, j>> # <<>> /\ Head(<<k, i, j>>) = k
  OBVIOUS
<1>2. Tail(<<k, i, j>>) = <<i, j>>
  OBVIOUS
<1>3. <<k, i>> \o <<j>> = <<k, i, j>>
  <2> DEFINE c == <<k, i>> \o <<j>>
             e == <<k, i, j>>
  <2>1. <<k, i>> \in Seq(Task) /\ <<j>> \in Seq(Task) /\ Len(<<k, i>>) = 2 /\ Len(<<j>>) = 1
        /\ e \in Seq(Task) /\ Len(e) = 3 /\ e[1] = k /\ e[2] = i /\ e[3] = j
    OBVIOUS
  <2>2. c \in Seq(Task) /\ Len(c) = 3
    BY <2>1, ConcatProperties
  <2>3. c[1] = k /\ c[2] = i
    BY <2>1, ConcatProperties
  <2>4. c[3] = <<j>>[3 - 2]
    BY <2>1, ConcatProperties
  <2>5. \A n \in 1..3 : c[n] = e[n]
    BY <2>1, <2>3, <2>4
  <2> HIDE DEF c, e
  <2>6. c = e
    BY <2>1, <2>2, <2>5, SeqEqual
  <2> QED BY <2>6 DEF c, e
<1> QED BY <1>1, <1>2, <1>3

LEMMA HasParts ==
    ASSUME NEW s \in Seq(Task), NEW d
    PROVE  /\ s = <<>> => ~Has(s, d)
           /\ s # <<>> => (Has(s, d) <=> Covers(Head(s), d) \/ Has(Tail(s), d))
<1>1. CASE s = <<>>
  BY <1>1 DEF Has
<1>2. CASE s # <<>>
  <2>1. /\ Len(s) \in Nat \ {0} /\ Head(s) = s[1] /\ Len(Tail(s)) = Len(s) - 1
        /\ \A i \in 1..Len(Tail(s)) : Tail(s)[i] = s[i + 1]
    BY <1>2, EmptySeq, HeadTailProperties
  <2>2. ASSUME Has(s, d) PROVE Covers(Head(s), d) \/ Has(Tail(s), d)
    <3>1. PICK i \in 1..Len(s) : Covers(s[i], d)
      BY <2>2 DEF Has
    <3>2. CASE i = 1
      BY <2>1, <3>1, <3>2
    <3>3. CASE i # 1
      <4>1. i - 1 \in 1..Len(Tail(s)) /\ (i - 1) + 1 = i
        BY <2>1, <3>3
      <4>2. Tail(s)[i - 1] = s[i]
        BY <2>1, <4>1
      <4> QED BY <3>1, <4>1, <4>2 DEF Has
    <3> QED BY <3>2, <3>3
  <2>3. Covers(Head(s), d) => Has(s, d)
    BY <2>1 DEF Has
  <2>4. ASSUME Has(Tail(s), d) PROVE Has(s, d)
    <3>1. PICK i \in 1..Len(Tail(s)) : Covers(Tail(s)[i], d)
      BY <2>4 DEF Has
    <3>2. i + 1 \in 1..Len(s) /\ Tail(s)[i] = s[i + 1]
      BY <2>1
    <3> QED BY <3>1, <3>2 DEF Has
  <2> QED BY <1>2, <2>2, <2>3, <2>4
<1> QED BY <1>1, <1>2

LEMMA HasOne ==
    ASSUME NEW k \in Task, NEW e
    PROVE  ~Has(<<>>, e) /\ (Has(<<k>>, e) <=> Covers(k, e))
<1>1. ~Has(<<>>, e)
  BY DEF Has
<1>2. <<k>> \in Seq(Task) /\ <<k>> # <<>> /\ Head(<<k>>) = k /\ Tail(<<k>>) = <<>>
  BY OneLong
<1>3. Has(<<k>>, e) <=> Covers(Head(<<k>>), e) \/ Has(Tail(<<k>>), e)
  BY <1>2, HasParts
<1> QED BY <1>1, <1>2, <1>3

LEMMA HasTwo ==
    ASSUME NEW k \in Task, NEW j \in Task, NEW e
    PROVE  Has(<<k, j>>, e) <=> Covers(k, e) \/ Covers(j, e)
<1>1. <<k, j>> \in Seq(Task) /\ <<k, j>> # <<>> /\ Head(<<k, j>>) = k /\ Tail(<<k, j>>) = <<j>>
  BY TwoLong
<1>2. Has(<<k, j>>, e) <=> Covers(Head(<<k, j>>), e) \/ Has(Tail(<<k, j>>), e)
  BY <1>1, HasParts
<1> QED BY <1>1, <1>2, HasOne

\* What a goroutine that is at work has on its list
LEMMA AtWork ==
    ASSUME Types, Lists, NEW t \in Thread, todo[t] # <<>>
    PROVE  LET s == todo[t]
               h == Head(s)
           IN  /\ h \in Task /\ Tail(s) \in Seq(Task) /\ s \in Seq(Task)
               /\ h.op \in {"all", "byMAC", "modify"} => Tail(s) = <<>> /\ Aimed(h)
               /\ h.op = "reset" => Tail(s) = <<All("all", Unknown)>>
               /\ h.op = "removeFlows" =>
                    /\ \E d \in Device : h = One("removeFlows", d, NoPort)
                    /\ Tail(s) = <<>> \/ \E k \in Task : k.op = "all" /\ Tail(s) = <<k>>
               /\ h.op = "set" =>
                    /\ \E d \in Device, p \in Port : h = One("set", d, p)
                    /\ Tail(s) = <<>> \/ \E k \in Task : k.op = "modify" /\ Aimed(k) /\ Tail(s) = <<k>>
               /\ h.op = "resetPort" => t \in Device /\ \E p \in Port :
                    h = One("resetPort", t, p) /\ Tail(s) = <<One("byPort", t, p), One("portRemoved", t, p)>>
               /\ h.op = "byPort" => t \in Device /\ \E p \in Port :
                    h = One("byPort", t, p) /\ Tail(s) = <<One("portRemoved", t, p)>>
               /\ h.op = "portRemoved" => t \in Device /\ \E p \in Port :
                    h = One("portRemoved", t, p) /\ Tail(s) = <<>>
               /\ h.op = "locate" => t \in Device /\ \E p \in Port :
                    h = One("locate", t, p) /\ Tail(s) = <<>>
               /\ h.op \in {"resetDevice", "deviceRemoved"} =>
                    t \in Device /\ t \in devices /\ conn[t] = "closed" /\ h = One(h.op, t, NoPort)
               /\ h.op = "resetDevice" => Tail(s) = <<One("deviceRemoved", t, NoPort)>>
               /\ h.op = "deviceRemoved" => Tail(s) = <<>>
<1> DEFINE s == todo[t]
           h == Head(s)
<1>0. s \in Seq(Task) /\ s # <<>> /\ List(t, s)
  BY DEF Types, Lists
<1>1. h \in Task /\ Tail(s) \in Seq(Task)
  BY <1>0, HeadTailProperties
<1>2. All("all", Unknown) \in Task /\ All("all", Unknown).op = "all"
  BY AllTask DEF Op
<1>3. ASSUME NEW op \in Op, NEW d \in Device, NEW p \in Port \cup {NoPort}
      PROVE  One(op, d, p) \in Task /\ One(op, d, p).op = op
  BY OneTask
<1> HIDE DEF s, h
<1>4. CASE \E k \in Task : k.op \in {"all", "byMAC", "modify"} /\ Aimed(k) /\ s = <<k>>
  <2>1. h.op \in {"all", "byMAC", "modify"} /\ Tail(s) = <<>> /\ Aimed(h)
    BY <1>4, OneLong, TwoLong, ThreeLong DEF h
  <2> QED BY <1>0, <1>1, <2>1 DEF s, h
<1>5. CASE \E k \in Task : k.op = "reset" /\ s = <<k, All("all", Unknown)>>
  <2>1. h.op = "reset" /\ Tail(s) = <<All("all", Unknown)>>
    BY <1>2, <1>5, OneLong, TwoLong, ThreeLong DEF h
  <2> QED BY <1>0, <1>1, <2>1 DEF s, h
<1>6. CASE \E d \in Device :
             \/ s = <<One("removeFlows", d, NoPort)>>
             \/ \E k \in Task : k.op = "all" /\ s = <<One("removeFlows", d, NoPort), k>>
  <2>1. PICK d \in Device :
             \/ s = <<One("removeFlows", d, NoPort)>>
             \/ \E k \in Task : k.op = "all" /\ s = <<One("removeFlows", d, NoPort), k>>
    BY <1>6
  <2>2. One("removeFlows", d, NoPort) \in Task /\ One("removeFlows", d, NoPort).op = "removeFlows"
    BY <1>3 DEF Op
  <2>3. h = One("removeFlows", d, NoPort) /\ (Tail(s) = <<>> \/ \E k \in Task : k.op = "all" /\ Tail(s) = <<k>>)
    <3>1. CASE s = <<One("removeFlows", d, NoPort)>>
      BY <2>2, <3>1, OneLong DEF h
    <3>2. ASSUME NEW k \in Task, k.op = "all", s = <<One("removeFlows", d, NoPort), k>>
          PROVE  h = One("removeFlows", d, NoPort) /\ Tail(s) = <<k>>
      BY <2>2, <3>2, TwoLong DEF h
    <3> QED BY <2>1, <3>1, <3>2
  <2> QED BY <1>0, <1>1, <2>2, <2>3 DEF s, h
<1>7. CASE \E d \in Device, p \in Port :
             \/ s = <<One("set", d, p)>>
             \/ \E k \in Task : k.op = "modify" /\ Aimed(k) /\ s = <<One("set", d, p), k>>
  <2>1. PICK d \in Device, p \in Port :
             \/ s = <<One("set", d, p)>>
             \/ \E k \in Task : k.op = "modify" /\ Aimed(k) /\ s = <<One("set", d, p), k>>
    BY <1>7
  <2>2. One("set", d, p) \in Task /\ One("set", d, p).op = "set"
    BY <1>3 DEF Op
  <2>3. h = One("set", d, p) /\ (Tail(s) = <<>> \/ \E k \in Task : k.op = "modify" /\ Aimed(k) /\ Tail(s) = <<k>>)
    <3>1. CASE s = <<One("set", d, p)>>
      BY <2>2, <3>1, OneLong DEF h
    <3>2. ASSUME NEW k \in Task, k.op = "modify", Aimed(k), s = <<One("set", d, p), k>>
          PROVE  h = One("set", d, p) /\ Tail(s) = <<k>>
      BY <2>2, <3>2, TwoLong DEF h
    <3> QED BY <2>1, <3>1, <3>2
  <2> QED BY <1>0, <1>1, <2>2, <2>3 DEF s, h
<1>8. CASE /\ t \in Device
           /\ \E p \in Port :
                \/ s = <<One("resetPort", t, p), One("byPort", t, p), One("portRemoved", t, p)>>
                \/ s = <<One("byPort", t, p), One("portRemoved", t, p)>>
                \/ s = <<One("portRemoved", t, p)>>
                \/ s = <<One("locate", t, p)>>
  <2>1. PICK p \in Port :
                \/ s = <<One("resetPort", t, p), One("byPort", t, p), One("portRemoved", t, p)>>
                \/ s = <<One("byPort", t, p), One("portRemoved", t, p)>>
                \/ s = <<One("portRemoved", t, p)>>
                \/ s = <<One("locate", t, p)>>
    BY <1>8
  <2>2. \A op \in {"resetPort", "byPort", "portRemoved", "locate"} : One(op, t, p) \in Task /\ One(op, t, p).op = op
    BY <1>3, <1>8 DEF Op
  <2>3. \/ h = One("resetPort", t, p) /\ Tail(s) = <<One("byPort", t, p), One("portRemoved", t, p)>>
        \/ h = One("byPort", t, p) /\ Tail(s) = <<One("portRemoved", t, p)>>
        \/ h = One("portRemoved", t, p) /\ Tail(s) = <<>>
        \/ h = One("locate", t, p) /\ Tail(s) = <<>>
    <3>1. CASE s = <<One("resetPort", t, p), One("byPort", t, p), One("portRemoved", t, p)>>
      BY <2>2, <3>1, ThreeLong DEF h
    <3>2. CASE s = <<One("byPort", t, p), One("portRemoved", t, p)>>
      BY <2>2, <3>2, TwoLong DEF h
    <3>3. CASE s = <<One("portRemoved", t, p)>>
      BY <2>2, <3>3, OneLong DEF h
    <3>4. CASE s = <<One("locate", t, p)>>
      BY <2>2, <3>4, OneLong DEF h
    <3> QED BY <2>1, <3>1, <3>2, <3>3, <3>4
  <2> QED BY <1>0, <1>1, <1>8, <2>2, <2>3 DEF s, h
<1>9. CASE /\ t \in Device /\ t \in devices /\ conn[t] = "closed"
           /\ \/ s = <<One("resetDevice", t, NoPort), One("deviceRemoved", t, NoPort)>>
              \/ s = <<One("deviceRemoved", t, NoPort)>>
  <2>1. \A op \in {"resetDevice", "deviceRemoved"} : One(op, t, NoPort) \in Task /\ One(op, t, NoPort).op = op
    BY <1>3, <1>9 DEF Op
  <2>2. \/ h = One("resetDevice", t, NoPort) /\ Tail(s) = <<One("deviceRemoved", t, NoPort)>>
        \/ h = One("deviceRemoved", t, NoPort) /\ Tail(s) = <<>>
    <3>1. CASE s = <<One("resetDevice", t, NoPort), One("deviceRemoved", t, NoPort)>>
      BY <2>1, <3>1, TwoLong DEF h
    <3>2. CASE s = <<One("deviceRemoved", t, NoPort)>>
      BY <2>1, <3>2, OneLong DEF h
    <3> QED BY <1>9, <3>1, <3>2
  <2> QED BY <1>0, <1>1, <1>9, <2>1, <2>2 DEF s, h
<1> QED BY <1>0, <1>4, <1>5, <1>6, <1>7, <1>8, <1>9 DEF List, Shape, Ending

\* What is left of the list when the first task is done for d
LEMMA AfterTasks ==
    ASSUME Types, Lists, NEW t \in Thread, todo[t] # <<>>, NEW d \in Left(t)
    PROVE  LET s == todo[t]
               rest == Left(t) \ {d}
           IN  /\ Left(t) \subseteq Device /\ rest \in SUBSET Device
               /\ rest = {} => After(t, d) = Tail(s)
               /\ rest # {} => After(t, d) = <<Trimmed(Head(s), rest)>> \o Tail(s)
<1>1. Head(todo[t]) \in Task
  BY AtWork
<1>2. Left(t) \subseteq Device
  BY <1>1 DEF Left, Task, Types
<1> QED BY <1>2 DEF After, Trimmed

\* The same by the kind of the task
LEMMA AfterShape ==
    ASSUME Types, Lists, NEW t \in Thread, todo[t] # <<>>, NEW d \in Left(t)
    PROVE  LET s == todo[t]
               h == Head(s)
               rest == Left(t) \ {d}
           IN  /\ h.op \in {"all", "byMAC", "modify"} =>
                    After(t, d) = IF rest = {} THEN <<>> ELSE <<Trimmed(h, rest)>>
               /\ h.op = "reset" =>
                    After(t, d) = IF rest = {} THEN <<All("all", Unknown)>>
                                  ELSE <<Trimmed(h, rest), All("all", Unknown)>>
               /\ h.op \in {"removeFlows", "set", "byPort", "portRemoved"} => After(t, d) = Tail(s)
<1> DEFINE s == todo[t]
           h == Head(s)
           rest == Left(t) \ {d}
<1>1. h \in Task /\ rest \in SUBSET Device
  BY AtWork, AfterTasks
<1>2. Trimmed(h, rest) \in Task /\ All("all", Unknown) \in Task
  BY <1>1, TrimmedTask, AllTask DEF Op
<1>3. CASE h.op \in {"all", "byMAC", "modify"}
  <2>1. Tail(s) = <<>>
    BY <1>3, AtWork
  <2>2. rest # {} => After(t, d) = <<Trimmed(h, rest)>> \o <<>>
    BY <2>1, AfterTasks
  <2> QED BY <1>2, <1>3, <2>1, <2>2, AfterTasks, OneLong
<1>4. CASE h.op = "reset"
  <2>1. Tail(s) = <<All("all", Unknown)>>
    BY <1>4, AtWork
  <2>2. rest # {} => After(t, d) = <<Trimmed(h, rest)>> \o <<All("all", Unknown)>>
    BY <2>1, AfterTasks
  <2> QED BY <1>2, <1>4, <2>1, <2>2, AfterTasks, TwoLong
<1>5. CASE h.op \in {"removeFlows", "set", "byPort", "portRemoved"}
  <2>1. PICK op \in Op, e \in Device, p \in Port \cup {NoPort} : h = One(op, e, p)
    <3>1. CASE h.op = "removeFlows"
      BY <3>1, AtWork DEF Op
    <3>2. CASE h.op = "set"
      BY <3>2, AtWork DEF Op
    <3>3. CASE h.op \in {"byPort", "portRemoved"}
      BY <3>3, AtWork DEF Op
    <3> QED BY <1>5, <3>1, <3>2, <3>3
  <2>2. h.listed /\ h.devs = {e}
    BY <2>1, OneTask
  <2>3. rest = {}
    BY <2>2 DEF Left
  <2> QED BY <1>5, <2>3, AfterTasks
<1> QED BY <1>3, <1>4, <1>5

LEMMA KnownOne ==
    ASSUME NEW k \in Task, k.listed => \A d \in k.devs : conn[d] # "new"
    PROVE  Known(<<k>>)
BY DEF Known

LEMMA KnownTwo ==
    ASSUME NEW k \in Task, k.listed => \A d \in k.devs : conn[d] # "new",
           NEW j \in Task, j.listed => \A d \in j.devs : conn[d] # "new"
    PROVE  Known(<<k, j>>)
BY DEF Known

\* The devices that are left have connected, and so have those of the tail.
LEMMA LeftKnown ==
    ASSUME Types, Lists, Lives, NEW t \in Thread, todo[t] # <<>>
    PROVE  /\ \A d \in Left(t) : d \in Device /\ conn[d] # "new"
           /\ Known(Tail(todo[t]))
<1> DEFINE s == todo[t]
<1>1. s \in Seq(Task) /\ s # <<>> /\ Known(s)
  BY DEF Types, Lists
<1>2. /\ Len(s) \in Nat \ {0} /\ Head(s) = s[1] /\ Len(Tail(s)) = Len(s) - 1
      /\ \A i \in 1..Len(Tail(s)) : Tail(s)[i] = s[i + 1]
  BY <1>1, EmptySeq, HeadTailProperties
<1>3. Head(s) \in Task
  BY AtWork
<1>4. ASSUME NEW d \in Left(t) PROVE d \in Device /\ conn[d] # "new"
  <2>1. 1 \in 1..Len(s)
    BY <1>2
  <2>2. Head(s).listed => \A e \in Head(s).devs : conn[e] # "new"
    BY <1>1, <1>2, <2>1 DEF Known
  <2>3. Head(s).devs \subseteq Device
    BY <1>3 DEF Task
  <2> QED BY <2>2, <2>3 DEF Left, Types, Lives
<1>5. ASSUME NEW i \in 1..Len(Tail(s)) PROVE i + 1 \in 1..Len(s) /\ Tail(s)[i] = s[i + 1]
  BY <1>2
<1>6. Known(Tail(s))
  BY <1>1, <1>5 DEF Known
<1> QED BY <1>4, <1>6

\* The rest of the work is again a list of tasks.
LEMMA AfterList ==
    ASSUME Types, Lists, Lives, NEW t \in Thread, todo[t] # <<>>, NEW d \in Left(t),
           Head(todo[t]).op \in {"all", "byMAC", "modify", "reset", "removeFlows", "set", "byPort"}
    PROVE  /\ After(t, d) \in Seq(Task)
           /\ Shape(t, After(t, d)) /\ Known(After(t, d))
<1> DEFINE s == todo[t]
           h == Head(s)
           rest == Left(t) \ {d}
           k == Trimmed(h, rest)
           all == All("all", Unknown)
<1>1. h \in Task /\ rest \in SUBSET Device
  BY AtWork, AfterTasks
<1>2. k \in Task /\ k.op = h.op /\ k.at = h.at /\ k.listed /\ k.devs = rest
  BY <1>1, TrimmedTask
<1>3. all \in Task /\ all.op = "all" /\ ~all.listed
  BY AllTask DEF Op
<1>4. \A e \in rest : conn[e] # "new"
  BY LeftKnown
<1> HIDE DEF k, all
<1>5. CASE h.op \in {"all", "byMAC", "modify"}
  <2>1. After(t, d) = <<>> \/ After(t, d) = <<k>>
    BY <1>5, AfterShape DEF k
  <2>2. Known(<<>>) /\ Known(<<k>>)
    BY <1>2, <1>4, KnownOne DEF Known
  <2>3. Shape(t, <<>>) /\ Shape(t, <<k>>)
    <3>1. Aimed(h)
      BY <1>5, AtWork
    <3>2. Aimed(k)
      BY <1>2, <3>1 DEF Aimed
    <3> QED BY <1>2, <1>5, <3>2 DEF Shape
  <2>4. <<>> \in Seq(Task) /\ <<k>> \in Seq(Task)
    BY <1>2
  <2> QED BY <2>1, <2>2, <2>3, <2>4
<1>6. CASE h.op = "reset"
  <2>1. After(t, d) = <<all>> \/ After(t, d) = <<k, all>>
    BY <1>6, AfterShape DEF k, all
  <2>2. Known(<<all>>) /\ Known(<<k, all>>)
    BY <1>2, <1>3, <1>4, KnownOne, KnownTwo
  <2>3. Shape(t, <<all>>) /\ Shape(t, <<k, all>>)
    BY <1>2, <1>3, <1>6 DEF Shape, Aimed, all
  <2> QED BY <1>2, <1>3, <2>1, <2>2, <2>3, OneLong, TwoLong
<1>7. CASE h.op \in {"removeFlows", "set", "byPort"}
  <2>1. After(t, d) = Tail(s) /\ Tail(s) \in Seq(Task)
    BY <1>7, AfterShape, AtWork
  <2>2. Known(Tail(s))
    BY LeftKnown
  <2>3. Shape(t, Tail(s))
    <3>1. CASE h.op = "removeFlows"
      BY <3>1, AtWork DEF Shape, Aimed
    <3>2. CASE h.op = "set"
      BY <3>2, AtWork DEF Shape
    <3>3. CASE h.op = "byPort"
      BY <3>3, AtWork DEF Shape
    <3> QED BY <1>7, <3>1, <3>2, <3>3
  <2> QED BY <2>1, <2>2, <2>3
<1> QED BY <1>5, <1>6, <1>7

\* What was due on another device stays due.
LEMMA AfterDue ==
    ASSUME Types, Lists, NEW t \in Thread, todo[t] # <<>>, NEW d \in Left(t),
           Head(todo[t]).op \in {"all", "byMAC", "modify", "reset", "removeFlows", "set", "byPort"}
    PROVE  /\ \A e \in devices : e # d /\ Has(todo[t], e) => Has(After(t, d), e)
           /\ \A e : Has(Tail(todo[t]), e) => Has(After(t, d), e)
           /\ After(t, d) # <<>> => Head(After(t, d)).op \notin {"removeFlows", "byPort"}
<1> DEFINE s == todo[t]
           h == Head(s)
           rest == Left(t) \ {d}
           k == Trimmed(h, rest)
           all == All("all", Unknown)
<1>1. h \in Task /\ rest \in SUBSET Device /\ s \in Seq(Task) /\ Tail(s) \in Seq(Task)
  BY AtWork, AfterTasks
<1>2. k \in Task /\ k.op = h.op /\ k.listed /\ k.devs = rest
  BY <1>1, TrimmedTask
<1>3. all \in Task /\ all.op = "all" /\ ~all.listed
  BY AllTask DEF Op
<1> HIDE DEF k, all
<1>4. ASSUME NEW e \in devices, e # d, Covers(h, e) PROVE rest # {} /\ Covers(k, e)
  <2>1. e \in Left(t)
    BY <1>4 DEF Covers, Left
  <2>2. e \in rest
    BY <1>4, <2>1
  <2> HIDE DEF rest
  <2> QED BY <1>2, <1>4, <2>2 DEF Covers
<1>5. CASE h.op \in {"all", "byMAC", "modify"}
  <2>1. After(t, d) = IF rest = {} THEN <<>> ELSE <<k>>
    BY <1>5, AfterShape DEF k
  <2>2. Tail(s) = <<>>
    BY <1>5, AtWork
  <2>3. \A e : ~Has(Tail(s), e)
    BY <1>1, <2>2, HasParts
  <2>4. \A e : Has(s, e) => Covers(h, e)
    BY <1>1, <2>3, HasParts
  <2>5. \A e : Covers(k, e) => Has(<<k>>, e)
    BY <1>2, OneLong, HasParts
  <2> QED BY <1>2, <1>4, <1>5, <2>1, <2>3, <2>4, <2>5, OneLong
<1>6. CASE h.op = "reset"
  <2>1. After(t, d) = IF rest = {} THEN <<all>> ELSE <<k, all>>
    BY <1>6, AfterShape DEF k, all
  <2>2. \A e : Covers(all, e)
    BY <1>3 DEF Covers
  <2>3. \A e : Has(<<all>>, e)
    BY <1>3, <2>2, OneLong, HasParts
  <2>4. \A e : Has(<<k, all>>, e)
    <3>1. <<k, all>> \in Seq(Task) /\ <<k, all>> # <<>> /\ Tail(<<k, all>>) = <<all>>
      BY <1>2, <1>3, TwoLong
    <3> QED BY <2>3, <3>1, HasParts
  <2> QED BY <1>2, <1>3, <1>6, <2>1, <2>3, <2>4, OneLong, TwoLong
<1>7. CASE h.op \in {"removeFlows", "set", "byPort"}
  <2>1. After(t, d) = Tail(s)
    BY <1>7, AfterShape
  <2>2. \A e \in devices : e # d => ~Covers(h, e)
    <3>1. rest = {}
      <4>1. PICK op \in Op, e \in Device, p \in Port \cup {NoPort} : h = One(op, e, p)
        <5>1. CASE h.op = "removeFlows"
          BY <5>1, AtWork DEF Op
        <5>2. CASE h.op = "set"
          BY <5>2, AtWork DEF Op
        <5>3. CASE h.op = "byPort"
          BY <5>3, AtWork DEF Op
        <5> QED BY <1>7, <5>1, <5>2, <5>3
      <4> QED BY <4>1, OneTask DEF Left
    <3> QED BY <1>4, <3>1
  <2>3. \A e \in devices : e # d /\ Has(s, e) => Has(Tail(s), e)
    BY <1>1, <2>2, HasParts
  <2>4. Tail(s) # <<>> => Head(Tail(s)).op \notin {"removeFlows", "byPort"}
    <3>1. CASE h.op = "removeFlows"
      BY <3>1, AtWork, OneLong
    <3>2. CASE h.op = "set"
      BY <3>2, AtWork, OneLong
    <3>3. CASE h.op = "byPort"
      <4>1. PICK p \in Port : t \in Device /\ Tail(s) = <<One("portRemoved", t, p)>>
        BY <3>3, AtWork
      <4>2. One("portRemoved", t, p) \in Task /\ One("portRemoved", t, p).op = "portRemoved"
        BY <4>1, OneTask DEF Op
      <4> QED BY <4>1, <4>2, OneLong
    <3> QED BY <1>7, <3>1, <3>2, <3>3
  <2> QED BY <2>1, <2>3, <2>4
<1> QED BY <1>5, <1>6, <1>7

-----------------------------------------------------------------------------
(* What a step leaves alone *)

\* A step of t changes its own list.
LEMMA ListsKept ==
    ASSUME Types, Lists, NEW t \in Thread, NEW s \in Seq(Task), todo' = [todo EXCEPT ![t] = s],
           \A d \in Device : conn[d] # "new" => conn'[d] # "new",
           \A d \in Device \ {t} : d \in devices /\ conn[d] = "closed" => d \in devices' /\ conn'[d] = "closed",
           Shape(t, s) \/ (Ending(t, s) /\ t \in devices' /\ conn'[t] = "closed"),
           Known(s)'
    PROVE  Lists' /\ todo' \in [Thread -> Seq(Task)]
<1>1. todo' \in [Thread -> Seq(Task)] /\ todo'[t] = s
  BY DEF Types
<1>2. ASSUME NEW u \in Thread PROVE List(u, todo[u])' /\ Known(todo[u])'
  <2>1. CASE u = t
    BY <1>1, <2>1 DEF List, Known
  <2>2. CASE u # t
    <3>1. todo'[u] = todo[u] /\ todo[u] \in Seq(Task)
      BY <2>2 DEF Types
    <3>2. List(u, todo[u]) /\ Known(todo[u])
      BY DEF Lists
    <3>3. PICK r \in Seq(Task) : r = todo[u]
      BY <3>1
    <3>4. List(u, r)'
      BY <2>2, <3>2, <3>3 DEF List, Ending
    <3>5. \A i \in 1..Len(r) : r[i] \in Task
      OBVIOUS
    <3>6. \A i \in 1..Len(r) : r[i].devs \subseteq Device
      BY <3>5 DEF Task
    <3>7. Known(r)'
      BY <3>2, <3>3, <3>6 DEF Known
    <3> QED BY <3>1, <3>3, <3>4, <3>7 DEF List, Known
  <2> QED BY <2>1, <2>2
<1> QED BY <1>1, <1>2 DEF Lists

\* A step that changes no list
LEMMA ListsSame ==
    ASSUME Types, Lists, todo' = todo, devices' = devices,
           \A d \in Device : conn[d] # "new" => conn'[d] # "new",
           \A d \in Device : conn[d] = "closed" => conn'[d] = "closed"
    PROVE  Lists'
<1>1. "timer" \in Thread
  BY DEF Thread
<1>2. PICK s \in Seq(Task) : s = todo["timer"]
  BY <1>1 DEF Types
<1>3. todo' = [todo EXCEPT !["timer"] = s]
  BY <1>1, <1>2 DEF Types
<1>4. "timer" \notin Device
  BY Network
<1>5. Shape("timer", s) /\ Known(s)
  BY <1>1, <1>2, <1>4 DEF Lists, List, Ending
<1>6. \A i \in 1..Len(s) : s[i] \in Task
  OBVIOUS
<1>7. \A i \in 1..Len(s) : s[i].devs \subseteq Device
  BY <1>6 DEF Task
<1>8. Known(s)'
  BY <1>5, <1>7 DEF Known
<1> QED BY <1>1, <1>3, <1>5, <1>8, ListsKept

\* A goroutine that waits, or whose list has nothing of the kind, has no
\* removal to do.
LEMMA NothingDue ==
    ASSUME Types, Lists, NEW t \in Thread,
           \/ todo[t] = <<>>
           \/ Head(todo[t]).op \in {"modify", "set", "resetPort", "portRemoved", "locate", "resetDevice",
                                    "deviceRemoved"},
           NEW e
    PROVE  ~Due(t, e) /\ ~Has(todo[t], e)
<1> DEFINE s == todo[t]
           h == Head(s)
<1>1. s \in Seq(Task)
  BY DEF Types
<1>2. CASE s = <<>>
  BY <1>1, <1>2, HasParts DEF Due, PortNext
<1>3. CASE s # <<>> /\ h.op \in {"modify", "set", "resetPort", "portRemoved", "locate", "resetDevice", "deviceRemoved"}
  <2>1. h \in Task /\ Tail(s) \in Seq(Task)
    BY <1>3, AtWork
  <2>2. ASSUME NEW k \in Task, k.op \notin {"byMAC", "all", "removeFlows"} PROVE ~Has(<<k>>, e)
    BY <2>2, HasOne DEF Covers
  <2>3. ASSUME NEW op \in Op \ {"byMAC", "all", "removeFlows"}, NEW d \in Device, NEW p \in Port \cup {NoPort}
        PROVE  One(op, d, p) \in Task /\ ~Covers(One(op, d, p), e) /\ ~Has(<<One(op, d, p)>>, e)
    BY <2>2, OneTask DEF Covers
  <2>4. ~Has(Tail(s), e)
    <3>0. ~Has(<<>>, e)
      BY DEF Has
    <3>1. CASE h.op = "modify"
      BY <1>3, <3>0, <3>1, AtWork
    <3>2. CASE h.op = "set"
      BY <1>3, <2>2, <3>0, <3>2, AtWork
    <3>3. CASE h.op = "resetPort"
      <4>1. PICK p \in Port : t \in Device /\ Tail(s) = <<One("byPort", t, p), One("portRemoved", t, p)>>
        BY <1>3, <3>3, AtWork
      <4>2. /\ One("byPort", t, p) \in Task /\ ~Covers(One("byPort", t, p), e)
            /\ One("portRemoved", t, p) \in Task /\ ~Has(<<One("portRemoved", t, p)>>, e)
        BY <2>3, <4>1 DEF Op
      <4>3. Tail(s) # <<>> /\ Head(Tail(s)) = One("byPort", t, p) /\ Tail(Tail(s)) = <<One("portRemoved", t, p)>>
        BY <4>1, <4>2, TwoLong
      <4> QED BY <2>1, <4>2, <4>3, HasParts
    <3>4. CASE h.op \in {"portRemoved", "locate"}
      BY <1>3, <3>0, <3>4, AtWork
    <3>5. CASE h.op = "resetDevice"
      <4>1. t \in Device /\ Tail(s) = <<One("deviceRemoved", t, NoPort)>>
        BY <1>3, <3>5, AtWork
      <4>2. "deviceRemoved" \in Op \ {"byMAC", "all", "removeFlows"} /\ NoPort \in Port \cup {NoPort}
        BY DEF Op
      <4>3. ~Has(<<One("deviceRemoved", t, NoPort)>>, e)
        BY <2>3, <4>1, <4>2
      <4> QED BY <4>1, <4>3
    <3>6. CASE h.op = "deviceRemoved"
      BY <1>3, <3>0, <3>6, AtWork
    <3> QED BY <1>3, <3>1, <3>2, <3>3, <3>4, <3>5, <3>6
  <2>5. ~Covers(h, e)
    BY <1>3 DEF Covers
  <2>6. ~Has(s, e)
    BY <1>1, <1>3, <2>4, <2>5, HasParts
  <2> QED BY <1>3, <2>6 DEF Due, PortNext
<1> QED BY <1>2, <1>3

\* A step of t that leaves the network and the flow of e alone
LEMMA QuietStep ==
    ASSUME Types, UNCHANGED <<loc, links, devices>>, RemovalAhead => RemovalAhead',
           NEW t \in Thread, \A u \in Thread \ {t} : todo'[u] = todo[u],
           NEW e \in devices, table'[e] = table[e], stale'[e] = stale[e],
           Explained(e), Due(t, e) => Explained(e)'
    PROVE  Explained(e)'
<1>1. CASE Justified(e)
  BY <1>1 DEF Explained, Justified, Located, Location, Route, Egress, Path, Edges
<1>2. CASE stale[e] \/ RemovalAhead
  BY <1>2 DEF Explained
<1>3. ASSUME NEW u \in Thread, Due(u, e) PROVE Explained(e)'
  <2>1. CASE u = t
    BY <1>3, <2>1
  <2>2. CASE u # t
    <3>1. todo'[u] = todo[u]
      BY <2>2
    <3>2. Due(u, e)'
      BY <1>3, <3>1 DEF Due, Has, PortNext, GivesUp
    <3> QED BY <3>2 DEF Explained
  <2> QED BY <2>1, <2>2
<1> QED BY <1>1, <1>2, <1>3 DEF Explained

\* The tasks that reach every device
LEMMA Everyone ==
    ASSUME NEW t \in Thread, NEW s \in Seq(Task), todo'[t] = s,
           \/ s = <<All("byMAC", Unknown)>> \/ s = <<All("all", Unknown)>>
           \/ \E k \in Task : k.op = "reset" /\ s = <<k, All("all", Unknown)>>
    PROVE  AllExplained'
<1> DEFINE mac == All("byMAC", Unknown)
           all == All("all", Unknown)
<1>1. /\ mac \in Task /\ mac.op = "byMAC" /\ ~mac.listed
      /\ all \in Task /\ all.op = "all" /\ ~all.listed
  BY AllTask DEF Op
<1>2. \A e : Covers(mac, e) /\ Covers(all, e)
  BY <1>1 DEF Covers
<1> HIDE DEF mac, all
<1>3. s # <<>> /\ Head(s).op # "removeFlows"
  BY <1>1, OneLong, TwoLong DEF mac, all
<1>4. ASSUME NEW e PROVE Due(t, e)'
  <2>1. Covers(mac, e) /\ Covers(all, e)
    BY <1>2
  <2>2. Has(s, e)
    BY <1>1, <2>1, HasOne, HasTwo DEF mac, all
  <2> QED BY <1>3, <2>2 DEF Due, GivesUp
<1> QED BY <1>4 DEF AllExplained, Explained

\* sendEvent is a list of tasks that reaches every device.
LEMMA sendEventList ==
    ASSUME NEW t \in Thread
    PROVE  /\ sendEvent \in Seq(Task) /\ Shape(t, sendEvent) /\ Known(sendEvent)'
           /\ \E k \in Task : k.op = "reset" /\ sendEvent = <<k, All("all", Unknown)>>
<1> DEFINE k == All("reset", Unknown)
           all == All("all", Unknown)
<1>1. k \in Task /\ k.op = "reset" /\ ~k.listed /\ all \in Task /\ ~all.listed
  BY AllTask DEF Op
<1>2. sendEvent = <<k, all>>
  BY DEF sendEvent
<1> HIDE DEF k, all
<1>3. Shape(t, <<k, all>>)
  BY <1>1 DEF Shape, all
<1>4. Known(<<k, all>>)'
  BY <1>1 DEF Known
<1> QED BY <1>1, <1>2, <1>3, <1>4, TwoLong DEF all

-----------------------------------------------------------------------------
(* What starts a goroutine's work *)

\* The steps of t that end in a topology event
LEMMA EventStep ==
    ASSUME Types, Lists, NEW t \in Thread, todo' = [todo EXCEPT ![t] = sendEvent],
           \A d \in Device : conn[d] # "new" => conn'[d] # "new",
           \A d \in Device \ {t} : d \in devices /\ conn[d] = "closed" => d \in devices' /\ conn'[d] = "closed"
    PROVE  Lists' /\ todo' \in [Thread -> Seq(Task)] /\ AllExplained'
<1>1. PICK s \in Seq(Task) : s = sendEvent
  BY sendEventList
<1>2. todo' = [todo EXCEPT ![t] = s] /\ todo'[t] = s
  BY <1>1 DEF Types
<1>3. Shape(t, s) /\ Known(s)' /\ \E k \in Task : k.op = "reset" /\ s = <<k, All("all", Unknown)>>
  BY <1>1, sendEventList DEF Known
<1>4. Lists' /\ todo' \in [Thread -> Seq(Task)]
  BY <1>2, <1>3, ListsKept
<1>5. AllExplained'
  BY <1>2, <1>3, Everyone
<1> QED BY <1>4, <1>5

LEMMA AddedStep == ASSUME FlowInv, NEW d \in Device, DeviceAdded(d) PROVE FlowInv'
<1> USE DEF FlowInv
<1>1. d \in Thread
  BY DEF Thread
<1>2. conn' = [conn EXCEPT ![d] = "up"] /\ conn[d] = "new" /\ devices' = devices \cup {d}
      /\ todo' = [todo EXCEPT ![d] = sendEvent] /\ UNCHANGED <<loc, links, table, stale>>
  BY DEF DeviceAdded, flowVars
<1>3. Lists' /\ todo' \in [Thread -> Seq(Task)] /\ AllExplained'
  BY <1>1, <1>2, EventStep DEF Types
<1>4. Types' /\ Lives'
  BY <1>2, <1>3 DEF Types, Lives
<1> QED BY <1>3, <1>4

LEMMA LinkedStep ==
    ASSUME FlowInv, NEW d \in Device, NEW l \in Link, DeviceLinked(d, l) PROVE FlowInv'
<1> USE DEF FlowInv
<1>1. d \in Thread
  BY DEF Thread
<1>2. links' = links \cup {l} /\ todo' = [todo EXCEPT ![d] = sendEvent]
      /\ UNCHANGED <<loc, devices, conn, table, stale>>
  BY DEF DeviceLinked, flowVars
<1>3. Lists' /\ todo' \in [Thread -> Seq(Task)] /\ AllExplained'
  BY <1>1, <1>2, EventStep DEF Types
<1>4. Types' /\ Lives'
  BY <1>2, <1>3 DEF Types, Lives
<1> QED BY <1>3, <1>4

LEMMA ExpiryStep ==
    ASSUME FlowInv, NEW S \in SUBSET Link, LinksExpire(S) PROVE FlowInv'
<1> USE DEF FlowInv
<1>1. "timer" \in Thread
  BY DEF Thread
<1>2. links' = links \ S /\ todo' = [todo EXCEPT !["timer"] = sendEvent]
      /\ UNCHANGED <<loc, devices, conn, table, stale>>
  BY DEF LinksExpire, flowVars
<1>3. Lists' /\ todo' \in [Thread -> Seq(Task)] /\ AllExplained'
  BY <1>1, <1>2, EventStep DEF Types
<1>4. Types' /\ Lives'
  BY <1>2, <1>3 DEF Types, Lives
<1> QED BY <1>3, <1>4

\* A goroutine that had no removal to do gets a list of tasks.
LEMMA StartStep ==
    ASSUME FlowInv, NEW t \in Thread, \A e : ~Due(t, e),
           NEW s \in Seq(Task), Shape(t, s), Known(s), todo' = [todo EXCEPT ![t] = s],
           UNCHANGED <<loc, links, devices, conn, table, stale>>
    PROVE  FlowInv'
<1> USE DEF FlowInv
<1>1. Known(s)'
  BY DEF Known
<1>2. Lists' /\ todo' \in [Thread -> Seq(Task)]
  BY <1>1, ListsKept
<1>3. Types' /\ Lives'
  BY <1>2 DEF Types, Lives
<1>4. ASSUME NEW e \in devices, conn[e] = "up" PROVE Explained(e)'
  <2>1. Explained(e)
    BY <1>4 DEF AllExplained
  <2>2. \A u \in Thread \ {t} : todo'[u] = todo[u]
    BY DEF Types
  <2>3. RemovalAhead => RemovalAhead'
    BY DEF RemovalAhead
  <2>4. ~Due(t, e)
    OBVIOUS
  <2> QED BY <2>1, <2>2, <2>3, <2>4, QuietStep
<1>5. AllExplained'
  BY <1>4 DEF AllExplained
<1> QED BY <1>2, <1>3, <1>5

LEMMA PortDownStep ==
    ASSUME FlowInv, NEW d \in Device, NEW p \in Port, PortDown(d, p) PROVE FlowInv'
<1> USE DEF FlowInv
<1>1. d \in Thread /\ todo[d] = <<>> /\ d \in devices
  BY DEF Thread, PortDown, Serves, Idle
<1>2. \A e : ~Due(d, e)
  BY <1>1, NothingDue
<1> DEFINE a == One("resetPort", d, p)
           b == One("byPort", d, p)
           c == One("portRemoved", d, p)
<1>3. a \in Task /\ b \in Task /\ c \in Task /\ a.devs = {d} /\ b.devs = {d} /\ c.devs = {d}
  BY OneTask DEF Op
<1>4. todo' = [todo EXCEPT ![d] = <<a, b>> \o <<c>>]
  BY DEF PortDown, OnPortDown
<1> HIDE DEF a, b, c
<1>5. <<a, b>> \o <<c>> = <<a, b, c>> /\ <<a, b, c>> \in Seq(Task)
  BY <1>3, ThreeLong
<1>6. Shape(d, <<a, b, c>>)
  BY DEF Shape, a, b, c
<1>7. conn[d] # "new"
  BY <1>1 DEF Lives
<1>8. Known(<<a, b, c>>)
  BY <1>3, <1>7 DEF Known
<1>9. UNCHANGED <<loc, links, devices, conn, table, stale>>
  BY DEF PortDown, topoVars, flowVars
<1> QED BY <1>1, <1>2, <1>4, <1>5, <1>6, <1>8, <1>9, StartStep

LEMMA PacketStep ==
    ASSUME FlowInv, NEW d \in Device, processPacket(d) PROVE FlowInv'
<1> USE DEF FlowInv
<1>1. d \in Thread /\ todo[d] = <<>> /\ d \in devices
  BY DEF Thread, processPacket, Serves, Idle
<1>2. \A e : ~Due(d, e)
  BY <1>1, NothingDue
<1> DEFINE j == One("modify", d, NoPort)
           k == [j EXCEPT !.at = loc]
<1>3. j \in Task /\ j.op = "modify" /\ j.devs = {d}
  BY OneTask DEF Op
<1>4. k \in Task /\ k.op = "modify" /\ k.devs = {d} /\ k.at = loc
  BY <1>3 DEF Task, Types
<1>5. todo' = [todo EXCEPT ![d] = <<k>>]
  BY DEF processPacket
<1> HIDE DEF j, k
<1>6. PICK s \in Seq(Task) : s = <<k>>
  BY <1>4, OneLong
<1>7. Shape(d, s)
  <2>1. loc \in End
    BY DEF processPacket, Located, Location, Types
  <2> QED BY <1>4, <1>6, <2>1 DEF Shape, Aimed
<1>8. Known(s)
  BY <1>1, <1>4, <1>6, KnownOne DEF Lives
<1>9. UNCHANGED <<loc, links, devices, conn, table, stale>>
  BY DEF processPacket, topoVars, flowVars
<1> QED BY <1>1, <1>2, <1>5, <1>6, <1>7, <1>8, <1>9, StartStep

LEMMA ManagerStep ==
    ASSUME FlowInv, modifyFlows PROVE FlowInv'
<1> USE DEF FlowInv
<1>1. "manager" \in Thread /\ todo["manager"] = <<>>
  BY DEF Thread, modifyFlows, Idle
<1>2. \A e : ~Due("manager", e)
  BY <1>1, NothingDue
<1> DEFINE k == All("modify", loc)
<1>3. k \in Task /\ k.op = "modify" /\ ~k.listed /\ k.at = loc
  BY AllTask DEF Op, Types, All
<1>5. todo' = [todo EXCEPT !["manager"] = <<k>>]
  BY DEF modifyFlows
<1> HIDE DEF k
<1>6. PICK s \in Seq(Task) : s = <<k>>
  BY <1>3, OneLong
<1>7. Shape("manager", s)
  <2>1. loc \in End
    BY DEF modifyFlows, Located, Location, Types
  <2> QED BY <1>3, <1>6, <2>1 DEF Shape, Aimed
<1>8. Known(s)
  BY <1>3, <1>6, KnownOne
<1>9. UNCHANGED <<loc, links, devices, conn, table, stale>>
  BY DEF modifyFlows, topoVars, flowVars
<1> QED BY <1>1, <1>2, <1>5, <1>6, <1>7, <1>8, <1>9, StartStep

\* A step that concerns neither the flows nor the goroutines
LEMMA IdleStep ==
    ASSUME FlowInv, UNCHANGED <<loc, links, devices, conn, table, stale, todo>>
    PROVE  FlowInv'
<1> USE DEF FlowInv
<1>1. Types' /\ Lives'
  BY DEF Types, Lives
<1>2. Lists'
  BY ListsSame
<1>3. ASSUME NEW e \in devices, conn[e] = "up" PROVE Explained(e)'
  <2>1. Explained(e)
    BY <1>3 DEF AllExplained
  <2>2. "timer" \in Thread
    BY DEF Thread
  <2>3. RemovalAhead => RemovalAhead'
    BY DEF RemovalAhead
  <2>4. Due("timer", e) => Explained(e)'
    BY <2>2 DEF Explained, Due, Has, PortNext, GivesUp
  <2> QED BY <2>1, <2>2, <2>3, <2>4, QuietStep
<1>4. AllExplained'
  BY <1>3 DEF AllExplained
<1> QED BY <1>1, <1>2, <1>4

LEMMA ReplyStep ==
    ASSUME FlowInv, NEW d \in Device, NEW p \in Port, processARPReply(d, p) PROVE FlowInv'
<1> USE DEF FlowInv
<1>1. d \in Thread /\ todo[d] = <<>> /\ d \in devices
  BY DEF Thread, processARPReply, Serves, Idle
<1>2. \A e : ~Due(d, e)
  BY <1>1, NothingDue
<1> DEFINE k == One("locate", d, p)
<1>3. k \in Task /\ k.devs = {d}
  BY OneTask DEF Op
<1>4. todo' = [todo EXCEPT ![d] = <<k>>]
  BY DEF processARPReply
<1> HIDE DEF k
<1>5. PICK s \in Seq(Task) : s = <<k>>
  BY <1>3, OneLong
<1>6. Shape(d, s)
  BY <1>5 DEF Shape, k
<1>7. Known(s)
  BY <1>1, <1>3, <1>5, KnownOne DEF Lives
<1>8. UNCHANGED <<loc, links, devices, conn, table, stale>>
  BY DEF processARPReply, topoVars, flowVars
<1> QED BY <1>1, <1>2, <1>4, <1>5, <1>6, <1>7, <1>8, StartStep

\* The device will be removed, and then all flows are.
LEMMA BreakStep == ASSUME FlowInv, NEW d \in Device, Break(d) PROVE FlowInv'
<1> USE DEF FlowInv
<1>1. conn[d] = "up" /\ conn' = [conn EXCEPT ![d] = "broken"]
      /\ UNCHANGED <<loc, links, devices, table, stale, todo>>
  BY DEF Break, topoVars, flowVars
<1>2. d \in devices
  BY <1>1 DEF Lives
<1>3. Types' /\ Lives'
  BY <1>1, <1>2 DEF Types, Lives
<1>4. Lists'
  BY <1>1, ListsSame DEF Types
<1>5. RemovalAhead'
  BY <1>1, <1>2 DEF RemovalAhead, Types
<1> QED BY <1>3, <1>4, <1>5 DEF AllExplained, Explained

LEMMA DisconnectStep == ASSUME FlowInv, NEW d \in Device, Disconnect(d) PROVE FlowInv'
<1> USE DEF FlowInv
<1> DEFINE a == One("resetDevice", d, NoPort)
           b == One("deviceRemoved", d, NoPort)
<1>1. conn[d] = "broken" /\ conn' = [conn EXCEPT ![d] = "closed"] /\ d \in devices
      /\ todo' = [todo EXCEPT ![d] = <<a, b>>] /\ UNCHANGED <<loc, links, devices, table, stale>>
  BY DEF Disconnect, Serves, topoVars, flowVars
<1>2. a \in Task /\ b \in Task /\ a.devs = {d} /\ b.devs = {d}
  BY OneTask DEF Op
<1> HIDE DEF a, b
<1>3. PICK s \in Seq(Task) : s = <<a, b>>
  BY <1>2, TwoLong
<1>4. d \in Thread /\ Ending(d, s)
  BY <1>3 DEF Thread, Ending, a, b
<1>5. conn'[d] = "closed"
  BY <1>1 DEF Types
<1>6. Known(s)'
  BY <1>2, <1>3, <1>5 DEF Known
<1>7. Lists' /\ todo' \in [Thread -> Seq(Task)]
  BY <1>1, <1>3, <1>4, <1>5, <1>6, ListsKept DEF Types
<1>8. Types' /\ Lives'
  BY <1>1, <1>7 DEF Types, Lives
<1>9. RemovalAhead'
  BY <1>1, <1>5 DEF RemovalAhead
<1> QED BY <1>7, <1>8, <1>9 DEF AllExplained, Explained

-----------------------------------------------------------------------------
(* The tasks *)

\* A step of t that works on its list and on the flow of d: the flows of the
\* others are explained as before.
LEMMA TaskStep ==
    ASSUME FlowInv, NEW t \in Thread, NEW d \in Device,
           NEW s \in Seq(Task), Shape(t, s), Known(s), todo' = [todo EXCEPT ![t] = s],
           UNCHANGED <<loc, links, devices, conn>>,
           table' \in [Device -> Port \cup {NoPort}], stale' \in [Device -> BOOLEAN],
           \A e \in Device \ {d} : table'[e] = table[e] /\ stale'[e] = stale[e],
           conn[d] = "new" => table'[d] = table[d],
           \A e \in devices \ {d} : conn[e] = "up" /\ Due(t, e) => Explained(e)',
           d \in devices /\ conn[d] = "up" => Explained(d)'
    PROVE  FlowInv'
<1> USE DEF FlowInv
<1>1. Known(s)'
  BY DEF Known
<1>2. Lists' /\ todo' \in [Thread -> Seq(Task)]
  BY <1>1, ListsKept
<1>3. Types'
  BY <1>2 DEF Types
<1>4. Lives'
  BY DEF Lives
<1>5. ASSUME NEW e \in devices, conn[e] = "up", e # d PROVE Explained(e)'
  <2>1. Explained(e) /\ e \in Device
    BY <1>5 DEF AllExplained, Types
  <2>2. \A u \in Thread \ {t} : todo'[u] = todo[u]
    BY DEF Types
  <2>3. RemovalAhead => RemovalAhead'
    BY DEF RemovalAhead
  <2>4. Due(t, e) => Explained(e)'
    BY <1>5
  <2>5. table'[e] = table[e] /\ stale'[e] = stale[e]
    BY <1>5, <2>1
  <2> QED BY <2>1, <2>2, <2>3, <2>4, <2>5, QuietStep
<1>6. AllExplained'
  BY <1>5 DEF AllExplained
<1> QED BY <1>2, <1>3, <1>4, <1>6

\* The flow of d is as it was, and t had not to remove it.
LEMMA SameFlow ==
    ASSUME FlowInv, NEW t \in Thread, NEW d \in devices, conn[d] = "up", ~Due(t, d),
           \A u \in Thread \ {t} : todo'[u] = todo[u],
           UNCHANGED <<loc, links, devices, conn>>, table'[d] = table[d], stale'[d] = stale[d]
    PROVE  Explained(d)'
<1>1. Explained(d)
  BY DEF FlowInv, AllExplained
<1>2. RemovalAhead => RemovalAhead'
  BY DEF RemovalAhead
<1> QED BY <1>1, <1>2, QuietStep DEF FlowInv

\* What t had to do on e it still has to do after d.
LEMMA StillDue ==
    ASSUME Types, Lists, NEW t \in Thread, todo[t] # <<>>, NEW d \in Left(t),
           Head(todo[t]).op \in {"all", "byMAC", "modify", "reset", "removeFlows", "set", "byPort"},
           NEW s \in Seq(Task), s = After(t, d), todo'[t] = s,
           NEW e \in devices, e # d, Due(t, e)
    PROVE  Explained(e)'
<1> DEFINE h == Head(todo[t])
<1>1. Has(todo[t], e)
  <2>1. SUFFICES ASSUME PortNext(todo[t], e) PROVE FALSE
    BY DEF Due
  <2>2. PICK p \in Port : t \in Device /\ h = One("byPort", t, p)
    BY <2>1, AtWork DEF PortNext
  <2>3. h.listed /\ h.devs = {t}
    BY <2>2, OneTask DEF Op
  <2>4. d = t /\ e = t
    BY <2>1, <2>3 DEF PortNext, Left
  <2> QED BY <2>4
<1>2. Has(s, e) /\ (s # <<>> => Head(s).op # "removeFlows")
  BY <1>1, AfterDue
<1>3. Due(t, e)'
  BY <1>2 DEF Due, GivesUp
<1> QED BY <1>3 DEF Explained

LEMMA NoDevicesStep == ASSUME FlowInv, NEW t \in Thread, NoDevices(t) PROVE FlowInv'
<1> USE DEF FlowInv
<1> DEFINE h == Head(todo[t])
<1>1. todo[t] # <<>> /\ Left(t) = {} /\ todo' = [todo EXCEPT ![t] = Tail(todo[t])]
      /\ UNCHANGED <<loc, links, devices, conn, table, stale>>
  BY DEF NoDevices, Go, topoVars, flowVars
<1>2. h \in Task /\ Tail(todo[t]) \in Seq(Task) /\ todo[t] \in Seq(Task)
  BY <1>1, AtWork
<1>3. PICK s \in Seq(Task) : s = Tail(todo[t])
  BY <1>2
<1>4. Known(s)
  BY <1>1, <1>3, LeftKnown
<1>5. h.op \in {"all", "byMAC", "modify", "reset"}
  <2>1. ASSUME NEW op \in Op, NEW d \in Device, NEW p \in Port \cup {NoPort} PROVE h # One(op, d, p)
    <3>1. SUFFICES ASSUME h = One(op, d, p) PROVE FALSE
      OBVIOUS
    <3>2. h.listed /\ h.devs = {d}
      BY <3>1, OneTask
    <3> QED BY <1>1, <3>2 DEF Left
  <2>2. h.op \in Op
    BY <1>2 DEF Task
  <2>3. h.op # "removeFlows"
    BY <1>1, <2>1, AtWork DEF Op
  <2>4. h.op # "set"
    BY <1>1, <2>1, AtWork DEF Op
  <2>5. h.op \notin {"resetPort", "byPort", "portRemoved", "locate"}
    BY <1>1, <2>1, AtWork DEF Op
  <2>6. h.op \notin {"resetDevice", "deviceRemoved"}
    BY <1>1, <2>1, AtWork DEF Op
  <2> QED BY <2>2, <2>3, <2>4, <2>5, <2>6 DEF Op
<1>6. Shape(t, s)
  <2>1. CASE h.op \in {"all", "byMAC", "modify"}
    BY <1>1, <1>3, <2>1, AtWork DEF Shape
  <2>2. CASE h.op = "reset"
    <3>1. s = <<All("all", Unknown)>>
      BY <1>1, <1>3, <2>2, AtWork
    <3>2. All("all", Unknown) \in Task /\ All("all", Unknown).op = "all"
      BY AllTask DEF Op
    <3> QED BY <3>1, <3>2 DEF Shape, Aimed
  <2> QED BY <1>5, <2>1, <2>2
<1>7. ASSUME NEW e \in devices, conn[e] = "up", Due(t, e) PROVE Explained(e)'
  <2>1. Has(todo[t], e)
    BY <1>5, <1>7 DEF Due, PortNext
  <2>2. ~Covers(h, e)
    BY <1>1 DEF Covers, Left
  <2>3. Has(s, e)
    BY <1>1, <1>2, <1>3, <2>1, <2>2, HasParts
  <2>4. s # <<>> => Head(s).op # "removeFlows"
    <3>1. CASE h.op \in {"all", "byMAC", "modify"}
      BY <1>1, <1>3, <3>1, AtWork
    <3>2. CASE h.op = "reset"
      <4>1. s = <<All("all", Unknown)>>
        BY <1>1, <1>3, <3>2, AtWork
      <4>2. All("all", Unknown) \in Task /\ All("all", Unknown).op = "all"
        BY AllTask DEF Op
      <4> QED BY <4>1, <4>2, OneLong
    <3> QED BY <1>5, <3>1, <3>2
  <2>5. todo'[t] = s
    BY <1>1, <1>3 DEF Types
  <2>6. Due(t, e)'
    BY <2>3, <2>4, <2>5 DEF Due, GivesUp
  <2> QED BY <2>6 DEF Explained
<1>8. Known(s)'
  BY <1>1, <1>4 DEF Known
<1>9. Lists' /\ todo' \in [Thread -> Seq(Task)]
  BY <1>1, <1>3, <1>6, <1>8, ListsKept
<1>10. Types' /\ Lives'
  BY <1>1, <1>9 DEF Types, Lives
<1>11. ASSUME NEW e \in devices, conn[e] = "up" PROVE Explained(e)'
  <2>1. Explained(e)
    BY <1>11 DEF AllExplained
  <2>2. \A u \in Thread \ {t} : todo'[u] = todo[u]
    BY <1>1 DEF Types
  <2>3. RemovalAhead => RemovalAhead'
    BY <1>1 DEF RemovalAhead
  <2> QED BY <1>1, <1>7, <1>11, <2>1, <2>2, <2>3, QuietStep
<1>12. AllExplained'
  BY <1>1, <1>11 DEF AllExplained
<1> QED BY <1>9, <1>10, <1>12

\* What a task for d has on its list
LEMMA DoingTask ==
    ASSUME Types, Lists, Lives, NEW t \in Thread, NEW op \in Op, NEW d \in Device, Doing(t, op, d),
           op \in {"all", "byMAC", "modify", "reset", "removeFlows", "set", "byPort"}
    PROVE  /\ todo[t] # <<>> /\ Head(todo[t]).op = op /\ d \in Left(t)
           /\ \E s \in Seq(Task) : s = After(t, d) /\ Shape(t, s) /\ Known(s)
<1>1. todo[t] # <<>> /\ Head(todo[t]).op = op /\ d \in Left(t)
  BY DEF Doing
<1>2. After(t, d) \in Seq(Task) /\ Shape(t, After(t, d)) /\ Known(After(t, d))
  BY <1>1, AfterList
<1> QED BY <1>1, <1>2

LEMMA ChooseStep ==
    ASSUME FlowInv, NEW t \in Thread, NEW d \in Device, Choose(t, d) PROVE FlowInv'
<1> USE DEF FlowInv
<1> DEFINE h == Head(todo[t])
           q == Egress(d, h.at)
           set == One("set", d, q)
<1>1. UNCHANGED <<loc, links, devices, conn, table, stale>>
  BY DEF Choose, topoVars, flowVars
<1>2. Doing(t, "modify", d) /\ "modify" \in Op
  BY DEF Choose, Op
<1>3. todo[t] # <<>> /\ h.op = "modify" /\ d \in Left(t)
      /\ \E s \in Seq(Task) : s = After(t, d) /\ Shape(t, s) /\ Known(s)
  BY <1>2, DoingTask
<1>4. PICK a \in Seq(Task) : a = After(t, d) /\ Shape(t, a) /\ Known(a)
  BY <1>3
<1>5. \A e : ~Due(t, e)
  BY <1>3, NothingDue
<1>6. CASE todo' = [todo EXCEPT ![t] = a]
  BY <1>1, <1>4, <1>5, <1>6, StartStep
<1>7. CASE q # NoPort /\ todo' = [todo EXCEPT ![t] = <<set>> \o a]
  <2>1. h.at \in End
    BY <1>3, AtWork DEF Aimed
  <2>2. q \in Port
    <3>1. h.at[1] \in Device /\ h.at[2] \in Port
      BY <2>1 DEF End
    <3>2. Path(d, h.at[1]) \in Port \cup {NoPort}
      <4>1. links \in SUBSET Link /\ <<d, h.at[1]>> \in Device \X Device
        BY <3>1 DEF Types
      <4>2. Hop[links] \in [Device \X Device -> Port \cup {NoPort}]
        BY <4>1, Network
      <4> QED BY <4>1, <4>2 DEF Path
    <3> QED BY <1>7, <3>1, <3>2 DEF Egress
  <2>3. set \in Task /\ set.devs = {d}
    BY <2>2, OneTask DEF Op
  <2>4. conn[d] # "new"
    BY <1>3, LeftKnown
  <2>5. h \in Task /\ Aimed(h) /\ Left(t) \ {d} \in SUBSET Device
    BY <1>3, AtWork, AfterTasks
  <2> DEFINE k == Trimmed(h, Left(t) \ {d})
  <2>6. k \in Task /\ k.op = "modify" /\ Aimed(k) /\ k.devs = Left(t) \ {d}
    BY <1>3, <2>5, TrimmedTask DEF Aimed
  <2>7. a = <<>> \/ a = <<k>>
    BY <1>3, <1>4, AfterShape
  <2>8. \A e \in k.devs : conn[e] # "new"
    BY <1>3, <2>6, LeftKnown
  <2>9. PICK p \in Port : p = q
    BY <2>2
  <2> HIDE DEF k, set, q
  <2>10. CASE a = <<>>
    <3>1. <<set>> \o a = <<set>> /\ <<set>> \in Seq(Task)
      BY <2>3, <2>10, OneLong
    <3>2. Shape(t, <<set>>)
      BY <2>9 DEF Shape, set
    <3>3. Known(<<set>>)
      BY <2>3, <2>4, KnownOne
    <3>4. PICK s \in Seq(Task) : s = <<set>>
      BY <3>1
    <3> QED BY <1>1, <1>5, <1>7, <3>1, <3>2, <3>3, <3>4, StartStep
  <2>11. CASE a = <<k>>
    <3>1. <<set>> \o a = <<set, k>> /\ <<set, k>> \in Seq(Task)
      BY <2>3, <2>6, <2>11, TwoLong
    <3>2. Shape(t, <<set, k>>)
      BY <2>6, <2>9 DEF Shape, set
    <3>3. Known(<<set, k>>)
      BY <2>3, <2>4, <2>6, <2>8, KnownTwo
    <3>4. PICK s \in Seq(Task) : s = <<set, k>>
      BY <3>1
    <3> QED BY <1>1, <1>5, <1>7, <3>1, <3>2, <3>3, <3>4, StartStep
  <2> QED BY <2>7, <2>10, <2>11
<1> QED BY <1>4, <1>6, <1>7 DEF Choose, Go

LEMMA SetFlowStep ==
    ASSUME FlowInv, NEW t \in Thread, NEW d \in Device, SetFlow(t, d) PROVE FlowInv'
<1> USE DEF FlowInv
<1> DEFINE h == Head(todo[t])
           p == PortOf(t)
<1>1. UNCHANGED <<loc, links, devices, conn>> /\ todo' = [todo EXCEPT ![t] = After(t, d)]
  BY DEF SetFlow, topoVars, Go
<1>2. Doing(t, "set", d) /\ "set" \in Op
  BY DEF SetFlow, Op
<1>3. todo[t] # <<>> /\ h.op = "set" /\ d \in Left(t)
      /\ \E s \in Seq(Task) : s = After(t, d) /\ Shape(t, s) /\ Known(s)
  BY <1>2, DoingTask
<1>4. PICK s \in Seq(Task) : s = After(t, d) /\ Shape(t, s) /\ Known(s)
  BY <1>3
<1>5. \A e : ~Due(t, e)
  BY <1>3, NothingDue
<1>6. p \in Port \cup {NoPort}
  BY <1>3, AtWork DEF PortOf, Task
<1>7. CASE UNCHANGED flowVars
  <2>1. UNCHANGED <<table, stale>>
    BY <1>7 DEF flowVars
  <2> QED BY <1>1, <1>4, <1>5, <2>1, StartStep
<1>8. CASE /\ conn[d] = "up"
           /\ table' = [table EXCEPT ![d] = p]
           /\ stale' = [stale EXCEPT ![d] = p # Route(d)]
  <2>1. /\ table' \in [Device -> Port \cup {NoPort}] /\ table'[d] = p
        /\ stale' \in [Device -> BOOLEAN] /\ stale'[d] = (p # Route(d))
        /\ \A e \in Device \ {d} : table'[e] = table[e] /\ stale'[e] = stale[e]
    BY <1>6, <1>8 DEF Types
  <2>2. Route(d)' = Route(d) /\ (Located' <=> Located)
    BY <1>1 DEF Route, Located, Location, Egress, Path
  <2>3. Explained(d)'
    <3>1. CASE p # Route(d)
      BY <2>1, <3>1 DEF Explained
    <3>2. CASE p = Route(d) /\ Located
      BY <2>1, <2>2, <3>2 DEF Explained, Justified
    <3>3. CASE p = Route(d) /\ ~Located
      <4>1. p = NoPort
        BY <3>3 DEF Route
      <4> QED BY <2>1, <4>1 DEF Explained, Justified
    <3> QED BY <3>1, <3>2, <3>3
  <2> HIDE DEF p, h
  <2> QED BY <1>1, <1>4, <1>5, <1>8, <2>1, <2>3, TaskStep
<1> QED BY <1>7, <1>8 DEF SetFlow

\* The flow of d is removed.
LEMMA Cleared ==
    ASSUME Types, NEW d \in Device, Clear(d)
    PROVE  /\ table' \in [Device -> Port \cup {NoPort}] /\ table'[d] = NoPort
           /\ stale' \in [Device -> BOOLEAN]
           /\ \A e \in Device \ {d} : table'[e] = table[e] /\ stale'[e] = stale[e]
           /\ Explained(d)'
<1>1. /\ table' \in [Device -> Port \cup {NoPort}] /\ table'[d] = NoPort
      /\ stale' \in [Device -> BOOLEAN]
      /\ \A e \in Device \ {d} : table'[e] = table[e] /\ stale'[e] = stale[e]
  BY DEF Clear, Types
<1>2. Explained(d)'
  BY <1>1 DEF Explained, Justified
<1> QED BY <1>1, <1>2

\* t is done with d, whose flow it has removed, which is not "up", or which t
\* had nothing to remove from.
LEMMA RemovalStep ==
    ASSUME FlowInv, NEW t \in Thread, NEW op \in Op, NEW d \in Device, Doing(t, op, d),
           op \in {"all", "byMAC", "removeFlows", "byPort"},
           todo' = [todo EXCEPT ![t] = After(t, d)], UNCHANGED <<loc, links, devices, conn>>,
           \/ conn[d] = "up" /\ Clear(d)
           \/ (conn[d] = "up" => ~Due(t, d)) /\ UNCHANGED <<table, stale>>
    PROVE  FlowInv'
<1> USE DEF FlowInv
<1>1. todo[t] # <<>> /\ Head(todo[t]).op = op /\ d \in Left(t)
      /\ \E s \in Seq(Task) : s = After(t, d) /\ Shape(t, s) /\ Known(s)
  BY DoingTask
<1>2. PICK s \in Seq(Task) : s = After(t, d) /\ Shape(t, s) /\ Known(s)
  BY <1>1
<1>3. todo' = [todo EXCEPT ![t] = s] /\ todo'[t] = s /\ \A u \in Thread \ {t} : todo'[u] = todo[u]
  BY <1>2 DEF Types
<1>4. \A e \in devices \ {d} : conn[e] = "up" /\ Due(t, e) => Explained(e)'
  BY <1>1, <1>2, <1>3, StillDue
<1>5. CASE conn[d] = "up" /\ Clear(d)
  BY <1>2, <1>3, <1>4, <1>5, Cleared, TaskStep
<1>6. CASE (conn[d] = "up" => ~Due(t, d)) /\ UNCHANGED <<table, stale>>
  <2>1. table' \in [Device -> Port \cup {NoPort}] /\ stale' \in [Device -> BOOLEAN]
    BY <1>6 DEF Types
  <2>2. d \in devices /\ conn[d] = "up" => Explained(d)'
    BY <1>3, <1>6, SameFlow
  <2> QED BY <1>2, <1>3, <1>4, <1>6, <2>1, <2>2, TaskStep
<1> QED BY <1>5, <1>6

\* A host that moved has its flows removed from all devices.
LEMMA LocateStep ==
    ASSUME FlowInv, NEW t \in Thread, NEW d \in Device, UpdateHostLocation(t, d) PROVE FlowInv'
<1> USE DEF FlowInv
<1>1. /\ todo[t] # <<>> /\ Head(todo[t]).op = "locate"
      /\ UNCHANGED <<links, devices, conn, table, stale>>
      /\ \/ loc' = <<d, PortOf(t)>>
            /\ todo' = [todo EXCEPT ![t] = IF loc # loc' THEN <<All("byMAC", Unknown)>> ELSE <<>>]
         \/ loc' = loc /\ todo' = [todo EXCEPT ![t] = <<>>]
  BY DEF UpdateHostLocation, Doing, Go, topoVars, flowVars
<1>2. PICK p \in Port : Head(todo[t]) = One("locate", t, p)
  BY <1>1, AtWork
<1>3. PortOf(t) \in Port
  BY <1>2 DEF PortOf, One
<1>4. CASE loc' = loc
  <2>1. todo' = [todo EXCEPT ![t] = <<>>]
    BY <1>1, <1>4
  <2>2. \A e : ~Due(t, e)
    BY <1>1, NothingDue
  <2>0. <<>> \in Seq(Task)
    OBVIOUS
  <2>3. PICK s \in Seq(Task) : s = <<>>
    BY <2>0
  <2>4. Shape(t, s) /\ Known(s)
    BY <2>3 DEF Shape, Known
  <2> QED BY <1>1, <1>4, <2>1, <2>2, <2>3, <2>4, StartStep
<1>5. CASE loc' # loc
  <2> DEFINE k == All("byMAC", Unknown)
  <2>1. k \in Task /\ k.op = "byMAC" /\ ~k.listed
    BY AllTask DEF Op
  <2> HIDE DEF k
  <2>2. loc' \in End /\ todo' = [todo EXCEPT ![t] = <<k>>]
    BY <1>1, <1>3, <1>5 DEF k, End
  <2>3. PICK s \in Seq(Task) : s = <<k>>
    BY <2>1, OneLong
  <2>4. Shape(t, s) /\ Known(s)'
    BY <2>1, <2>3 DEF Shape, Aimed, Known
  <2>5. todo' = [todo EXCEPT ![t] = s] /\ todo'[t] = s
    BY <2>2, <2>3 DEF Types
  <2>6. Lists' /\ todo' \in [Thread -> Seq(Task)]
    BY <1>1, <2>4, <2>5, ListsKept
  <2>7. AllExplained'
    BY <2>3, <2>5, Everyone DEF k
  <2>8. Types' /\ Lives'
    BY <1>1, <2>2, <2>6 DEF Types, Lives
  <2> QED BY <2>6, <2>7, <2>8
<1> QED BY <1>4, <1>5

LEMMA ByMACStep ==
    ASSUME FlowInv, NEW t \in Thread, NEW d \in Device, RemoveFlowByMAC(t, d) PROVE FlowInv'
<1>1. /\ Doing(t, "byMAC", d) /\ todo' = [todo EXCEPT ![t] = After(t, d)]
      /\ UNCHANGED <<loc, links, devices, conn>>
      /\ IF conn[d] = "up" THEN Clear(d) ELSE UNCHANGED <<table, stale>>
  BY DEF RemoveFlowByMAC, Go, topoVars
<1> QED BY <1>1, RemovalStep DEF Op

LEMMA RemoveFlowStep ==
    ASSUME FlowInv, NEW t \in Thread, NEW d \in Device, RemoveFlow(t, d) PROVE FlowInv'
<1>1. /\ Doing(t, "byPort", d) /\ todo' = [todo EXCEPT ![t] = After(t, d)]
      /\ UNCHANGED <<loc, links, devices, conn>>
      /\ IF conn[d] = "up" /\ table[d] = PortOf(t) THEN Clear(d) ELSE UNCHANGED <<table, stale>>
  BY DEF RemoveFlow, Go, topoVars
<1>2. CASE conn[d] = "up" /\ table[d] = PortOf(t)
  BY <1>1, <1>2, RemovalStep DEF Op
<1>3. CASE ~(conn[d] = "up" /\ table[d] = PortOf(t))
  <2>1. ASSUME conn[d] = "up" PROVE ~Due(t, d)
    <3> DEFINE s == todo[t]
    <3>1. s # <<>> /\ Head(s).op = "byPort" /\ s \in Seq(Task) /\ Types /\ Lists
      BY <1>1 DEF Doing, FlowInv, Types
    <3>2. ~PortNext(s, d)
      BY <1>3, <2>1 DEF PortNext, PortOf
    <3>3. PICK p \in Port : t \in Device /\ Tail(s) = <<One("portRemoved", t, p)>>
      BY <3>1, AtWork
    <3>4. One("portRemoved", t, p) \in Task /\ One("portRemoved", t, p).op = "portRemoved"
      BY <3>3, OneTask DEF Op
    <3>5. ~Has(Tail(s), d)
      BY <3>3, <3>4, HasOne DEF Covers
    <3>6. ~Has(s, d)
      BY <3>1, <3>5, HasParts DEF Covers
    <3> QED BY <3>2, <3>6 DEF Due
  <2> QED BY <1>1, <1>3, <2>1, RemovalStep DEF Op
<1> QED BY <1>2, <1>3

LEMMA RemoveAllStep ==
    ASSUME FlowInv, NEW t \in Thread, NEW d \in Device, removeAllFlows(t, d) PROVE FlowInv'
<1> USE DEF FlowInv
<1> DEFINE h == Head(todo[t])
           rm == One("removeFlows", d, NoPort)
           k == Trimmed(h, Left(t) \ {d})
<1>1. /\ Doing(t, "all", d) /\ "all" \in Op
      /\ todo' = [todo EXCEPT ![t] = IF conn[d] = "closed" THEN After(t, d) ELSE <<rm>> \o After(t, d)]
      /\ UNCHANGED <<loc, links, devices, conn, table, stale>>
  BY DEF removeAllFlows, Go, topoVars, flowVars, Op
<1>2. CASE conn[d] = "closed"
  BY <1>1, <1>2, RemovalStep
<1>3. CASE conn[d] # "closed"
  <2>1. todo[t] # <<>> /\ h.op = "all" /\ d \in Left(t)
        /\ \E s \in Seq(Task) : s = After(t, d) /\ Shape(t, s) /\ Known(s)
    BY <1>1, DoingTask
  <2>2. PICK a \in Seq(Task) : a = After(t, d) /\ Shape(t, a) /\ Known(a)
    BY <2>1
  <2>3. h \in Task /\ Left(t) \ {d} \in SUBSET Device
    BY <2>1, AtWork, AfterTasks
  <2>4. k \in Task /\ k.op = "all" /\ k.devs = Left(t) \ {d}
    BY <2>1, <2>3, TrimmedTask
  <2>5. a = <<>> \/ a = <<k>>
    BY <2>1, <2>2, AfterShape
  <2>6. conn[d] # "new" /\ \A e \in k.devs : conn[e] # "new"
    BY <2>1, <2>4, LeftKnown
  <2>7. d \in devices
    BY <1>3, <2>6 DEF Lives, Types
  <2>8. rm \in Task /\ rm.op = "removeFlows" /\ rm.devs = {d}
    BY OneTask DEF Op
  <2> HIDE DEF k, rm
  <2>9. PICK s \in Seq(Task) : s = <<rm>> \o a /\ (s = <<rm>> \/ s = <<rm, k>>)
    BY <2>4, <2>5, <2>8, OneLong, TwoLong
  <2>10. s # <<>> /\ Head(s) = rm /\ Tail(s) = a
    BY <2>4, <2>5, <2>8, <2>9, OneLong, TwoLong
  <2>11. Shape(t, s) /\ Known(s)
    <3>1. CASE s = <<rm>>
      BY <2>6, <2>8, <3>1, KnownOne DEF Shape, rm
    <3>2. CASE s = <<rm, k>>
      BY <2>4, <2>6, <2>8, <3>2, KnownTwo DEF Shape, rm
    <3> QED BY <2>9, <3>1, <3>2
  <2>12. todo' = [todo EXCEPT ![t] = s] /\ todo'[t] = s
    BY <1>1, <1>3, <2>2, <2>9 DEF Types
  <2>13. ~GivesUp(s)'
    BY <1>1, <2>7, <2>8, <2>10 DEF GivesUp
  <2>14. Explained(d)'
    <3>1. Has(s, d)
      BY <2>8, <2>10, HasParts DEF Covers, rm, One
    <3> QED BY <2>12, <2>13, <3>1 DEF Explained, Due, GivesUp
  <2>15. ASSUME NEW e \in devices \ {d}, Due(t, e) PROVE Explained(e)'
    <3>1. Has(todo[t], e)
      BY <2>1, <2>15 DEF Due, PortNext
    <3>2. Has(a, e)
      BY <2>1, <2>2, <3>1, AfterDue
    <3>3. Has(s, e)
      BY <2>10, <3>2, HasParts
    <3> QED BY <2>12, <2>13, <3>3 DEF Explained, Due, GivesUp
  <2>16. table' \in [Device -> Port \cup {NoPort}] /\ stale' \in [Device -> BOOLEAN]
    BY <1>1 DEF Types
  <2> QED BY <1>1, <2>11, <2>12, <2>14, <2>15, <2>16, TaskStep
<1> QED BY <1>2, <1>3

LEMMA RemoveFlowsStep ==
    ASSUME FlowInv, NEW t \in Thread, NEW d \in Device, RemoveFlows(t, d) PROVE FlowInv'
<1> USE DEF FlowInv
<1> DEFINE h == Head(todo[t])
<1>1. /\ Doing(t, "removeFlows", d) /\ "removeFlows" \in Op
      /\ UNCHANGED <<loc, links, devices, conn>>
  BY DEF RemoveFlows, topoVars, Op
<1>2. CASE conn[d] = "up"
  <2>1. todo' = [todo EXCEPT ![t] = After(t, d)] /\ Clear(d)
    BY <1>2 DEF RemoveFlows, Go
  <2> QED BY <1>1, <1>2, <2>1, RemovalStep
<1>3. CASE conn[d] # "up"
  <2>1. todo' = [todo EXCEPT ![t] = <<>>] /\ UNCHANGED <<table, stale>>
    BY <1>3 DEF RemoveFlows, Go, flowVars
  <2>2. <<>> \in Seq(Task) /\ Shape(t, <<>>) /\ Known(<<>>)
    BY DEF Shape, Known
  <2>3. todo[t] # <<>> /\ h.op = "removeFlows" /\ d \in Left(t)
    BY <1>1 DEF Doing
  <2>4. CASE GivesUp(todo[t])
    <3>1. \A e : ~Due(t, e)
      BY <2>4 DEF Due
    <3> QED BY <1>1, <2>1, <2>2, <3>1, StartStep
  <2>5. CASE ~GivesUp(todo[t])
    <3>1. PICK c \in Device : h = One("removeFlows", c, NoPort)
      BY <2>3, AtWork
    <3>2. h.listed /\ h.devs = {c}
      BY <3>1, OneTask DEF Op
    <3>3. d \in h.devs
      BY <2>3, <3>2 DEF Left
    <3>4. d \in devices
      BY <2>3, <2>5, <3>3 DEF GivesUp
    <3>5. conn[d] \in {"broken", "closed"}
      BY <1>3, <3>4 DEF Lives, Types
    <3>6. RemovalAhead'
      BY <1>1, <3>4, <3>5 DEF RemovalAhead
    <3>7. \A e : Explained(e)'
      BY <3>6 DEF Explained
    <3>8. table' \in [Device -> Port \cup {NoPort}] /\ stale' \in [Device -> BOOLEAN]
      BY <2>1 DEF Types
    <3> QED BY <1>1, <2>1, <2>2, <3>7, <3>8, TaskStep
  <2> QED BY <2>4, <2>5
<1> QED BY <1>2, <1>3

\* removeAllFlows follows.
LEMMA ResetEdgesStep ==
    ASSUME FlowInv, NEW t \in Thread, NEW d \in Device, ResetEdges(t, d) PROVE FlowInv'
<1> USE DEF FlowInv
<1> DEFINE k == Trimmed(Head(todo[t]), Left(t) \ {d})
<1>1. /\ Doing(t, "reset", d) /\ "reset" \in Op /\ loc' \in {loc, Unknown}
      /\ todo' = [todo EXCEPT ![t] = After(t, d)]
      /\ UNCHANGED <<links, devices, conn, table, stale>>
  BY DEF ResetEdges, Reset, Go, topoVars, flowVars, Op
<1>2. todo[t] # <<>> /\ Head(todo[t]).op = "reset" /\ d \in Left(t)
      /\ \E s \in Seq(Task) : s = After(t, d) /\ Shape(t, s) /\ Known(s)
  BY <1>1, DoingTask
<1>3. PICK s \in Seq(Task) : s = After(t, d) /\ Shape(t, s) /\ Known(s)
  BY <1>2
<1>4. k \in Task /\ k.op = "reset"
  BY <1>2, AtWork, AfterTasks, TrimmedTask
<1>5. s = <<All("all", Unknown)>> \/ s = <<k, All("all", Unknown)>>
  BY <1>2, <1>3, AfterShape
<1> HIDE DEF k
<1>6. todo' = [todo EXCEPT ![t] = s] /\ todo'[t] = s
  BY <1>1, <1>3 DEF Types
<1>7. AllExplained'
  BY <1>4, <1>5, <1>6, Everyone
<1>8. Known(s)'
  BY <1>1, <1>3 DEF Known
<1>9. Lists' /\ todo' \in [Thread -> Seq(Task)]
  BY <1>1, <1>3, <1>6, <1>8, ListsKept
<1>10. Types' /\ Lives'
  BY <1>1, <1>9 DEF Types, Lives
<1> QED BY <1>7, <1>9, <1>10

\* The location is forgotten: OnPortDown of L2Switch removes the flow that
\* leads to the port, and those of the other devices lead over the edges.
LEMMA ResetPortStep ==
    ASSUME FlowInv, NEW t \in Thread, NEW d \in Device, ResetPort(t, d) PROVE FlowInv'
<1> USE DEF FlowInv
<1>1. /\ todo[t] # <<>> /\ Head(todo[t]).op = "resetPort" /\ d \in Left(t)
      /\ UNCHANGED <<links, devices, conn, table, stale>>
  BY DEF ResetPort, Doing, topoVars, flowVars
<1>2. PICK p \in Port : t \in Device /\ Head(todo[t]) = One("resetPort", t, p)
                        /\ Tail(todo[t]) = <<One("byPort", t, p), One("portRemoved", t, p)>>
  BY <1>1, AtWork
<1> DEFINE b == One("byPort", t, p)
           r == One("portRemoved", t, p)
<1>3. PortOf(t) = p /\ d = t
  <2>1. Head(todo[t]).listed /\ Head(todo[t]).devs = {t} /\ Head(todo[t]).port = p
    BY <1>2, OneTask DEF Op
  <2> QED BY <1>1, <2>1 DEF PortOf, Left
<1>4. /\ b \in Task /\ b.op = "byPort" /\ b.devs = {t} /\ b.port = p
      /\ r \in Task /\ r.devs = {t}
  BY <1>2, OneTask DEF Op
<1>5. \A e : ~Due(t, e)
  BY <1>1, NothingDue
<1>6. Known(Tail(todo[t]))
  BY <1>1, LeftKnown
<1>7. conn[t] # "new"
  BY <1>1, <1>3, LeftKnown
<1>8. Shape(t, <<b, r>>) /\ Shape(t, <<r>>)
  BY <1>2 DEF Shape
<1>9. Tail(todo[t]) = <<b, r>>
  BY <1>2
<1> HIDE DEF b, r
<1>10. PICK s \in Seq(Task) : s = <<b, r>> /\ s # <<>> /\ Head(s) = b
  BY <1>4, TwoLong
<1>11. CASE loc' = loc /\ todo' = [todo EXCEPT ![t] = Tail(Tail(todo[t]))]
  <2>1. Tail(Tail(todo[t])) = <<r>>
    BY <1>4, <1>9, TwoLong
  <2>2. PICK q \in Seq(Task) : q = <<r>>
    BY <1>4, OneLong
  <2>3. Known(q)
    BY <1>4, <1>7, <2>2, KnownOne
  <2> QED BY <1>1, <1>5, <1>8, <1>11, <2>1, <2>2, <2>3, StartStep
<1>12. CASE loc' = loc /\ todo' = [todo EXCEPT ![t] = Tail(todo[t])]
  BY <1>1, <1>5, <1>6, <1>8, <1>9, <1>10, <1>12, StartStep
<1>13. CASE loc = <<t, p>> /\ loc' = Unknown /\ todo' = [todo EXCEPT ![t] = Tail(todo[t])]
  <2>1. todo' = [todo EXCEPT ![t] = s] /\ todo'[t] = s /\ \A u \in Thread \ {t} : todo'[u] = todo[u]
    BY <1>9, <1>10, <1>13 DEF Types
  <2>2. Known(s)'
    BY <1>1, <1>6, <1>9, <1>10 DEF Known
  <2>3. Lists' /\ todo' \in [Thread -> Seq(Task)]
    BY <1>1, <1>8, <1>10, <2>1, <2>2, ListsKept
  <2>4. Types' /\ Lives'
    BY <1>1, <1>13, <2>3 DEF Types, Lives
  <2>5. ~Located' /\ Edges' = Edges
    BY <1>1, <1>13 DEF Located, Location, Edges
  <2>6. table[t] = p => Due(t, t)'
    BY <1>1, <1>4, <1>10, <2>1 DEF Due, PortNext, GivesUp
  <2>7. ASSUME NEW e \in devices, conn[e] = "up" PROVE Explained(e)'
    <3>1. Explained(e) /\ e \in Device
      BY <2>7 DEF AllExplained, Types
    <3>2. CASE table[e] = NoPort
      BY <1>1, <3>2 DEF Explained, Justified
    <3>3. CASE <<e, table[e]>> \in Edges
      BY <1>1, <2>5, <3>3 DEF Explained, Justified
    <3>4. CASE e = t /\ table[e] = p
      BY <2>6, <3>4 DEF Explained
    <3>5. CASE table[e] # NoPort /\ Located /\ table[e] = Route(e)
      <4>1. CASE e = t
        <5>1. Route(e) = p
          BY <1>13, <3>5, <4>1 DEF Route, Egress
        <5> QED BY <3>4, <3>5, <4>1, <5>1
      <4>2. CASE e # t
        <5>1. Route(e) = Hop[links][e, t]
          BY <1>13, <3>5, <4>2 DEF Route, Egress, Path
        <5>2. links \in SUBSET Link
          BY DEF Types
        <5>3. <<e, Hop[links][e, t]>> \in UNION links
          BY <1>2, <3>1, <3>5, <5>1, <5>2, Network
        <5> QED BY <3>3, <3>5, <5>1, <5>3 DEF Edges
      <4> QED BY <4>1, <4>2
    <3>6. CASE <<e, table[e]>> = loc
      BY <1>13, <3>4, <3>6
    <3>7. CASE stale[e]
      BY <1>1, <3>7 DEF Explained
    <3>8. CASE RemovalAhead
      BY <1>1, <3>8 DEF Explained, RemovalAhead
    <3>9. ASSUME NEW u \in Thread, Due(u, e) PROVE Explained(e)'
      <4>1. todo'[u] = todo[u]
        BY <1>5, <2>1, <3>9
      <4>2. Due(u, e)'
        BY <1>1, <3>9, <4>1 DEF Due, Has, PortNext, GivesUp
      <4> QED BY <4>2 DEF Explained
    <3> QED BY <3>1, <3>2, <3>3, <3>5, <3>6, <3>7, <3>8, <3>9 DEF Explained, Justified
  <2> QED BY <1>1, <2>3, <2>4, <2>7 DEF AllExplained
<1> QED BY <1>3, <1>11, <1>12, <1>13 DEF ResetPort, Reset, Go

LEMMA PortRemovedStep ==
    ASSUME FlowInv, NEW t \in Thread, NEW d \in Device, PortRemoved(t, d) PROVE FlowInv'
<1> USE DEF FlowInv
<1> DEFINE p == PortOf(t)
<1>1. /\ todo[t] # <<>> /\ Head(todo[t]).op = "portRemoved"
      /\ links' = {l \in links : <<d, p>> \notin l}
      /\ UNCHANGED <<loc, devices, conn, table, stale>>
  BY DEF PortRemoved, Doing, flowVars
<1>2. CASE <<d, p>> \in Edges
  <2>1. todo' = [todo EXCEPT ![t] = sendEvent]
    BY <1>2 DEF PortRemoved, Go
  <2>2. Lists' /\ todo' \in [Thread -> Seq(Task)] /\ AllExplained'
    BY <1>1, <2>1, EventStep
  <2>3. Types' /\ Lives'
    BY <1>1, <2>2 DEF Types, Lives
  <2> QED BY <2>2, <2>3
<1>3. CASE <<d, p>> \notin Edges
  <2>1. todo' = [todo EXCEPT ![t] = <<>>]
    BY <1>3 DEF PortRemoved, Go
  <2>2. links' = links
    BY <1>1, <1>3 DEF Edges
  <2>3. \A e : ~Due(t, e)
    BY <1>1, NothingDue
  <2>4. <<>> \in Seq(Task) /\ Shape(t, <<>>) /\ Known(<<>>)
    BY DEF Shape, Known
  <2> QED BY <1>1, <2>1, <2>2, <2>3, <2>4, StartStep
<1> QED BY <1>2, <1>3

\* The device is closed and about to be removed.
LEMMA ResetDeviceStep ==
    ASSUME FlowInv, NEW t \in Thread, NEW d \in Device, ResetDevice(t, d) PROVE FlowInv'
<1> USE DEF FlowInv
<1> DEFINE r == One("deviceRemoved", t, NoPort)
<1>1. /\ todo[t] # <<>> /\ Head(todo[t]).op = "resetDevice" /\ loc' \in {loc, Unknown}
      /\ todo' = [todo EXCEPT ![t] = Tail(todo[t])]
      /\ UNCHANGED <<links, devices, conn, table, stale>>
  BY DEF ResetDevice, Doing, Reset, Go, topoVars, flowVars
<1>2. t \in Device /\ t \in devices /\ conn[t] = "closed" /\ Tail(todo[t]) = <<r>>
  BY <1>1, AtWork
<1>3. r \in Task
  BY <1>2, OneTask DEF Op
<1>4. Ending(t, <<r>>) /\ Known(<<r>>)
  BY <1>1, <1>2, LeftKnown DEF Ending
<1> HIDE DEF r
<1>5. PICK s \in Seq(Task) : s = <<r>>
  BY <1>3, OneLong
<1>6. Known(s)'
  BY <1>1, <1>4, <1>5 DEF Known
<1>7. Lists' /\ todo' \in [Thread -> Seq(Task)]
  BY <1>1, <1>2, <1>4, <1>5, <1>6, ListsKept
<1>8. Types' /\ Lives'
  BY <1>1, <1>7 DEF Types, Lives
<1>9. RemovalAhead'
  BY <1>1, <1>2 DEF RemovalAhead
<1> QED BY <1>7, <1>8, <1>9 DEF AllExplained, Explained

LEMMA DeviceRemovedStep ==
    ASSUME FlowInv, NEW t \in Thread, NEW d \in Device, DeviceRemoved(t, d) PROVE FlowInv'
<1> USE DEF FlowInv
<1>1. /\ todo[t] # <<>> /\ Head(todo[t]).op = "deviceRemoved" /\ d \in Left(t)
      /\ devices' = devices \ {d} /\ links' = {l \in links : \A e \in l : e[1] # d}
      /\ todo' = [todo EXCEPT ![t] = sendEvent] /\ UNCHANGED <<loc, conn, table, stale>>
  BY DEF DeviceRemoved, Doing, Go, flowVars
<1>2. t \in Device /\ t \in devices /\ conn[t] = "closed" /\ Head(todo[t]) = One("deviceRemoved", t, NoPort)
  BY <1>1, AtWork
<1>3. Head(todo[t]).listed /\ Head(todo[t]).devs = {t}
  BY <1>2, OneTask DEF Op
<1>4. d = t
  BY <1>1, <1>3 DEF Left
<1>5. Lists' /\ todo' \in [Thread -> Seq(Task)] /\ AllExplained'
  BY <1>1, <1>4, EventStep
<1>6. Types' /\ Lives'
  BY <1>1, <1>2, <1>4, <1>5 DEF Types, Lives
<1> QED BY <1>5, <1>6

-----------------------------------------------------------------------------
(* The theorem *)

LEMMA FlowInit == Init => FlowInv
<1> SUFFICES ASSUME Init PROVE FlowInv
  OBVIOUS
<1>0. HostEnd \subseteq End
  BY Network, Zenon
<1>1. Types /\ Lives
  BY <1>0 DEF Init, Types, Lives
<1>2. ASSUME NEW t \in Thread PROVE List(t, todo[t]) /\ Known(todo[t])
  BY DEF Init, List, Shape, Known
<1>3. AllExplained
  BY <1>1 DEF Init, Types, AllExplained, Explained, Justified
<1> QED BY <1>1, <1>2, <1>3 DEF FlowInv, Lists

LEMMA FlowStep == FlowInv /\ [Next]_vars => FlowInv'
<1> SUFFICES ASSUME FlowInv, [Next]_vars PROVE FlowInv'
  OBVIOUS
<1>1. ASSUME NEW d \in Device, DeviceAdded(d) \/ Break(d) \/ Disconnect(d) \/ processPacket(d)
      PROVE  FlowInv'
  BY <1>1, AddedStep, BreakStep, DisconnectStep, PacketStep
<1>2. ASSUME NEW d \in Device, NEW l \in Link, DeviceLinked(d, l) PROVE FlowInv'
  BY <1>2, LinkedStep
<1>3. ASSUME NEW S \in SUBSET Link, LinksExpire(S) PROVE FlowInv'
  BY <1>3, ExpiryStep
<1>4. ASSUME NEW d \in Device, NEW p \in Port, PortDown(d, p) \/ processARPReply(d, p) PROVE FlowInv'
  BY <1>4, PortDownStep, ReplyStep
<1>5. ASSUME NEW d \in Device, NEW p \in Port, PortUp(d, p) \/ Expire(d, p) PROVE FlowInv'
  BY <1>5, IdleStep DEF PortUp, Expire, topoVars, flowVars
<1>6. CASE modifyFlows
  BY <1>6, ManagerStep
<1>7. ASSUME NEW t \in Thread, Work(t) PROVE FlowInv'
  <2>1. CASE NoDevices(t)
    BY <2>1, NoDevicesStep
  <2>2. ASSUME NEW d \in Device, Choose(t, d) \/ SetFlow(t, d) PROVE FlowInv'
    BY <2>2, ChooseStep, SetFlowStep
  <2>3. ASSUME NEW d \in Device, UpdateHostLocation(t, d) \/ RemoveFlowByMAC(t, d) \/ RemoveFlow(t, d)
        PROVE  FlowInv'
    BY <2>3, LocateStep, ByMACStep, RemoveFlowStep
  <2>4. ASSUME NEW d \in Device, removeAllFlows(t, d) \/ RemoveFlows(t, d) PROVE FlowInv'
    BY <2>4, RemoveAllStep, RemoveFlowsStep
  <2>5. ASSUME NEW d \in Device, ResetEdges(t, d) \/ ResetPort(t, d) \/ PortRemoved(t, d) PROVE FlowInv'
    BY <2>5, ResetEdgesStep, ResetPortStep, PortRemovedStep
  <2>6. ASSUME NEW d \in Device, ResetDevice(t, d) \/ DeviceRemoved(t, d) PROVE FlowInv'
    BY <2>6, ResetDeviceStep, DeviceRemovedStep
  <2> QED BY <1>7, <2>1, <2>2, <2>3, <2>4, <2>5, <2>6 DEF Work
<1>8. CASE UNCHANGED vars
  BY <1>8, IdleStep DEF vars, topoVars, flowVars
<1> QED BY <1>1, <1>2, <1>3, <1>4, <1>5, <1>6, <1>7, <1>8 DEF Next

LEMMA FlowExplained == FlowInv => WrongFlowExplained
<1> SUFFICES ASSUME FlowInv, NEW d \in devices, conn[d] = "up", NEW t \in Thread, Due(t, d)
             PROVE  RemovalDue(d)
  BY DEF FlowInv, AllExplained, Explained, WrongFlowExplained
<1>1. CASE Has(todo[t], d)
  BY <1>1 DEF Has, Covers, RemovalDue
<1>2. CASE PortNext(todo[t], d)
  <2>1. todo[t] \in Seq(Task) /\ todo[t] # <<>>
    BY <1>2 DEF FlowInv, Types, PortNext
  <2>2. 1 \in 1..Len(todo[t]) /\ Head(todo[t]) = todo[t][1]
    BY <2>1, EmptySeq, HeadTailProperties
  <2> QED BY <1>2, <2>2 DEF PortNext, RemovalDue
<1> QED BY <1>1, <1>2 DEF Due

\* A flow that contradicts the present route of the host is about to be
\* removed, also when removeAllFlows gives up half-way, unless it was set by a
\* goroutine that had decided before the change: for every network.
THEOREM AlwaysExplained == Spec => []WrongFlowExplained
<1>1. Init => FlowInv
  BY FlowInit
<1>2. FlowInv /\ [Next]_vars => FlowInv'
  BY FlowStep
<1>3. FlowInv => WrongFlowExplained
  BY FlowExplained
<1> QED BY <1>1, <1>2, <1>3, PTL DEF Spec

-----------------------------------------------------------------------------
(* The flow caches *)

\* What the argument about the flows does not need.
RestTypes ==
    /\ down \subseteq End
    /\ cache \in [Device -> SUBSET Port]
    /\ inputs \in 0..MaxInputs

LEMMA InputCounted == ASSUME inputs \in 0..MaxInputs, Input PROVE inputs' \in 0..MaxInputs
<1>1. MaxInputs \in Nat
  BY Network, Zenon
<1> QED BY <1>1 DEF Input

\* A flow is cached under the port of its rule, never under NoPort.
LEMMA CacheStep ==
    ASSUME FlowInv, RestTypes, NEW t \in Thread, NEW d \in Device, SetFlow(t, d)
    PROVE  cache' \in [Device -> SUBSET Port]
<1>1. todo[t] # <<>> /\ Head(todo[t]).op = "set"
  BY DEF SetFlow, Doing
<1>2. PICK e \in Device, p \in Port : Head(todo[t]) = One("set", e, p)
  BY <1>1, AtWork DEF FlowInv
<1>3. PortOf(t) \in Port
  BY <1>2 DEF PortOf, One
<1>4. cache' = cache \/ cache' = [cache EXCEPT ![d] = @ \cup {PortOf(t)}]
  BY DEF SetFlow, Add, flowVars
<1> QED BY <1>3, <1>4 DEF RestTypes

LEMMA RestStep == FlowInv /\ RestTypes /\ [Next]_vars => RestTypes'
<1> SUFFICES ASSUME FlowInv, RestTypes, [Next]_vars PROVE RestTypes'
  OBVIOUS
<1> USE DEF RestTypes
<1>1. ASSUME NEW d \in Device, DeviceAdded(d) \/ Break(d) \/ processPacket(d) PROVE RestTypes'
  BY <1>1, InputCounted DEF DeviceAdded, Break, processPacket, flowVars
<1>2. ASSUME NEW d \in Device, Disconnect(d) PROVE RestTypes'
  BY <1>2 DEF Disconnect, flowVars
<1>3. ASSUME NEW d \in Device, NEW l \in Link, DeviceLinked(d, l) PROVE RestTypes'
  BY <1>3, InputCounted DEF DeviceLinked, flowVars
<1>4. ASSUME NEW S \in SUBSET Link, LinksExpire(S) PROVE RestTypes'
  BY <1>4, InputCounted DEF LinksExpire, flowVars
<1>5. ASSUME NEW d \in Device, NEW p \in Port, PortDown(d, p) \/ PortUp(d, p) PROVE RestTypes'
  BY <1>5, InputCounted DEF PortDown, PortUp, flowVars, End
<1>6. ASSUME NEW d \in Device, NEW p \in Port, processARPReply(d, p) PROVE RestTypes'
  BY <1>6, InputCounted DEF processARPReply, flowVars
<1>7. ASSUME NEW d \in Device, NEW p \in Port, Expire(d, p) PROVE RestTypes'
  BY <1>7 DEF Expire
<1>8. CASE modifyFlows
  BY <1>8 DEF modifyFlows, flowVars
<1>9. ASSUME NEW t \in Thread, Work(t) PROVE RestTypes'
  <2>1. CASE NoDevices(t)
    BY <2>1 DEF NoDevices, flowVars
  <2>2. ASSUME NEW d \in Device, Choose(t, d) PROVE RestTypes'
    BY <2>2 DEF Choose, flowVars
  <2>3. ASSUME NEW d \in Device, SetFlow(t, d) PROVE RestTypes'
    BY <2>3, CacheStep DEF SetFlow
  <2>4. ASSUME NEW d \in Device, UpdateHostLocation(t, d) \/ RemoveFlowByMAC(t, d) \/ RemoveFlow(t, d)
        PROVE  RestTypes'
    BY <2>4 DEF UpdateHostLocation, RemoveFlowByMAC, RemoveFlow, flowVars
  <2>5. ASSUME NEW d \in Device, removeAllFlows(t, d) PROVE RestTypes'
    BY <2>5 DEF removeAllFlows, flowVars
  <2>6. ASSUME NEW d \in Device, RemoveFlows(t, d) PROVE RestTypes'
    BY <2>6 DEF RemoveFlows, RemoveAll, flowVars
  <2>7. ASSUME NEW d \in Device, ResetEdges(t, d) \/ ResetPort(t, d) \/ PortRemoved(t, d) PROVE RestTypes'
    BY <2>7 DEF ResetEdges, ResetPort, PortRemoved, flowVars
  <2>8. ASSUME NEW d \in Device, ResetDevice(t, d) \/ DeviceRemoved(t, d) PROVE RestTypes'
    BY <2>8 DEF ResetDevice, DeviceRemoved, flowVars
  <2> QED BY <1>9, <2>1, <2>2, <2>3, <2>4, <2>5, <2>6, <2>7, <2>8 DEF Work
<1>10. CASE UNCHANGED vars
  BY <1>10 DEF vars, flowVars
<1> QED BY <1>1, <1>2, <1>3, <1>4, <1>5, <1>6, <1>7, <1>8, <1>9, <1>10 DEF Next

\* Type correctness of the flow operations: every goroutine works through
\* well-formed tasks, whatever the others change in between, and the flow
\* caches only have ports of the devices.
THEOREM TypeCorrectFlows == Spec => []TypeOK
<1>1. Init => FlowInv /\ RestTypes
  <2>1. ASSUME Init PROVE RestTypes
    <3>1. MaxInputs \in Nat
      BY Network, Zenon
    <3> QED BY <2>1, <3>1 DEF Init, RestTypes
  <2> QED BY <2>1, FlowInit
<1>2. FlowInv /\ RestTypes /\ [Next]_vars => (FlowInv /\ RestTypes)'
  BY FlowStep, RestStep
<1>3. FlowInv /\ RestTypes => TypeOK
  BY DEF FlowInv, Types, RestTypes, TypeOK
<1> QED BY <1>1, <1>2, <1>3, PTL DEF Spec

-----------------------------------------------------------------------------
(* The match of OpenFlow 1.3 *)

\* Every field has keys of its own.
LEMMA Keys ==
    /\ \A f, g \in DOMAIN OF13!Key : f # g => OF13!Key[f] # OF13!Key[g]
    /\ \A f \in DOMAIN OF13!Key, g \in OF13!PortField : OF13!Key[f] \notin {OF13!TCP[g], OF13!UDP[g]}
    /\ \A f, g \in OF13!PortField : f # g =>
          {OF13!TCP[f], OF13!UDP[f]} \cap {OF13!TCP[g], OF13!UDP[g]} = {}
    /\ \A f \in OF13!PortField : OF13!TCP[f] # OF13!UDP[f]
BY DEF OF13!Key, OF13!PortField, OF13!TCP, OF13!UDP

\* The answers are those of the fields.
LEMMA Fields13 ==
    /\ OF13!Field = Abstract13!Field
    /\ OF13!Field = (DOMAIN OF13!Key) \cup OF13!PortField
    /\ (DOMAIN OF13!Key) \cap OF13!PortField = {}
    /\ OF13!IPField \subseteq DOMAIN OF13!Key
    /\ OF10!Field = OF13!Field
    /\ {"EtherType", "IPProtocol"} \subseteq DOMAIN OF13!Key
    /\ OF13!Key["EtherType"] = "ETH_TYPE" /\ OF13!Key["IPProtocol"] = "IP_PROTO"
BY DEF OF13!Field, OF13!Key, OF13!PortField, OF13!IPField, OF10!Field, OF10!Flag, OF10!Bit, OF10!IPField,
       Abstract13!Field, Abstract13!IPField, Abstract13!PortField

\* The values and the wildcard are told apart.
LEMMA Call ==
    ASSUME NEW c \in Calls
    PROVE  /\ c[1] \in OF10!Field
           /\ \/ (c[2] \in Values[c[1]] /\ c[2] # Wildcard)
              \/ (c[2] = Wildcard /\ c[1] \in OF10!Flag)
<1>1. CASE c \in UNION {{f} \X Values[f] : f \in Tried}
  <2>1. PICK f \in Tried : c \in {f} \X Values[f]
    BY <1>1
  <2>2. c[1] = f /\ c[2] \in Values[f] /\ f \in OF10!Field /\ Wildcard \notin Values[f]
    BY <2>1, Distinct
  <2> QED BY <2>2
<1>2. CASE c \in (Tried \cap OF10!Flag) \X {Wildcard}
  <2>1. c[1] \in Tried /\ c[1] \in OF10!Flag /\ c[2] = Wildcard
    BY <1>2
  <2> QED BY <2>1, Distinct
<1>3. Calls = (UNION {{f} \X Values[f] : f \in Tried}) \cup ((Tried \cap OF10!Flag) \X {Wildcard})
  BY DEF Calls
<1>4. c \in UNION {{f} \X Values[f] : f \in Tried} \/ c \in (Tried \cap OF10!Flag) \X {Wildcard}
  BY <1>3, Zenon
<1> QED BY <1>1, <1>2, <1>4

LEMMA NamesDistinct == Wildcard \notin {"IPv4", "ARP", "TCP", "UDP", "ICMP"}
<1>1. "EtherType" \in OF10!Field /\ "IPProtocol" \in OF10!Field
  BY DEF OF10!Field, OF10!Flag, OF10!Bit
<1>2. Values["EtherType"] = {"IPv4", "ARP"} /\ Values["IPProtocol"] = {"TCP", "UDP", "ICMP"}
  BY DEF Values
<1> QED BY <1>1, <1>2, Distinct

\* The setters of the two check the same.
LEMMA Allowed13 ==
    ASSUME NEW f \in OF13!Field
    PROVE  Abstract13!Allowed(f) <=> ~OF13!Refused(f)
<1>1. /\ OF13!Answer(m)["EtherType"] = IF "ETH_TYPE" \in DOMAIN m THEN m["ETH_TYPE"] ELSE Wildcard
      /\ OF13!Answer(m)["IPProtocol"] = IF "IP_PROTO" \in DOMAIN m THEN m["IP_PROTO"] ELSE Wildcard
  <2>1. /\ {"EtherType", "IPProtocol"} \subseteq OF13!Field
        /\ {"EtherType", "IPProtocol"} \cap (OF13!PortField \cup OF13!IPField) = {}
    BY DEF OF13!Field, OF13!Key, OF13!PortField, OF13!IPField
  <2> QED BY <2>1, Fields13 DEF OF13!Answer, OF13!FieldAnswer
<1>2. OF13!IPField = Abstract13!IPField /\ OF13!PortField = Abstract13!PortField
  BY DEF OF13!IPField, OF13!PortField, Abstract13!IPField, Abstract13!PortField
<1>3. OF13!Answer(m)["EtherType"] = "IPv4" <=> OF13!Is("ETH_TYPE", "IPv4")
  BY <1>1, NamesDistinct DEF OF13!Is, OF13!Has
<1>4. OF13!Answer(m)["IPProtocol"] \in {"TCP", "UDP"}
        <=> OF13!Is("IP_PROTO", "TCP") \/ OF13!Is("IP_PROTO", "UDP")
  BY <1>1, NamesDistinct DEF OF13!Is, OF13!Has
<1> QED BY <1>2, <1>3, <1>4 DEF Abstract13!Allowed, OF13!Refused

\* A call changes the answer of its own getter.
LEMMA Set13 ==
    ASSUME NEW f \in OF13!Field, NEW v, v = Wildcard => f \notin OF13!IPField, OF13!Set(f, v)
    PROVE  Abstract13!Set(f, v)
<1>1. CASE v = Wildcard
  <2>1. /\ m' = OF13!Without(IF f \in OF13!PortField THEN {OF13!TCP[f], OF13!UDP[f]} ELSE {OF13!Key[f]})
        /\ err13' = err13
    BY <1>1 DEF OF13!Set, OF13!SetWildcard
  <2>2. ASSUME NEW g \in OF13!Field
        PROVE  OF13!Answer(m')[g] = IF g = f THEN Wildcard ELSE OF13!Answer(m)[g]
    <3>1. CASE f \in OF13!PortField
      <4>1. m' = [k \in DOMAIN m \ {OF13!TCP[f], OF13!UDP[f]} |-> m[k]]
        BY <2>1, <3>1 DEF OF13!Without, OF13!Restrict
      <4>2. CASE g \in OF13!PortField
        BY <3>1, <4>1, <4>2, Keys DEF OF13!Answer, OF13!PortAnswer
      <4>3. CASE g \notin OF13!PortField
        BY <3>1, <4>1, <4>3, Keys, Fields13 DEF OF13!Answer, OF13!FieldAnswer
      <4> QED BY <4>2, <4>3
    <3>2. CASE f \notin OF13!PortField
      <4>1. m' = [k \in DOMAIN m \ {OF13!Key[f]} |-> m[k]]
        BY <2>1, <3>2 DEF OF13!Without, OF13!Restrict
      <4>2. CASE g \in OF13!PortField
        BY <3>2, <4>1, <4>2, Keys, Fields13 DEF OF13!Answer, OF13!PortAnswer
      <4>3. CASE g \notin OF13!PortField
        BY <1>1, <3>2, <4>1, <4>3, Keys, Fields13 DEF OF13!Answer, OF13!FieldAnswer
      <4> QED BY <4>2, <4>3
    <3> QED BY <3>1, <3>2
  <2>3. OF13!Answer(m') = [OF13!Answer(m) EXCEPT ![f] = v]
    BY <1>1, <2>2 DEF OF13!Answer
  <2> QED BY <1>1, <2>1, <2>3 DEF Abstract13!Set
<1>2. CASE v # Wildcard /\ (v = Empty \/ OF13!Refused(f))
  <2>1. err13' = TRUE /\ m' = m
    BY <1>2 DEF OF13!Set
  <2>2. v = Empty \/ ~Abstract13!Allowed(f)
    BY <1>2, Allowed13
  <2> QED BY <1>2, <2>1, <2>2 DEF Abstract13!Set
<1>3. CASE v # Wildcard /\ v # Empty /\ ~OF13!Refused(f)
  <2>1. /\ IF f \in OF13!PortField THEN OF13!SetPort(f, v) ELSE m' = OF13!With(OF13!Key[f], v)
        /\ err13' = err13
    BY <1>3 DEF OF13!Set
  <2>2. ASSUME NEW g \in OF13!Field
        PROVE  OF13!Answer(m')[g] = IF g = f THEN v ELSE OF13!Answer(m)[g]
    <3>1. ASSUME f \in OF13!PortField, NEW new, NEW old, {new, old} = {OF13!TCP[f], OF13!UDP[f]}, new # old,
                 m' = OF13!Restrict(OF13!With(new, v), (DOMAIN m \cup {new}) \ {old})
          PROVE  OF13!Answer(m')[g] = IF g = f THEN v ELSE OF13!Answer(m)[g]
      <4>1. m' = [k \in (DOMAIN m \cup {new}) \ {old} |-> IF k = new THEN v ELSE m[k]]
        BY <3>1 DEF OF13!With, OF13!Restrict
      <4>2. CASE g \in OF13!PortField
        BY <3>1, <4>1, <4>2, Keys DEF OF13!Answer, OF13!PortAnswer
      <4>3. CASE g \notin OF13!PortField
        BY <3>1, <4>1, <4>3, Keys, Fields13 DEF OF13!Answer, OF13!FieldAnswer
      <4> QED BY <4>2, <4>3
    <3>2. CASE f \in OF13!PortField
      <4>1. OF13!TCP[f] # OF13!UDP[f]
        BY <3>2, Keys
      <4>2. CASE m["IP_PROTO"] = "TCP"
        <5>1. m' = OF13!Restrict(OF13!With(OF13!TCP[f], v), (DOMAIN m \cup {OF13!TCP[f]}) \ {OF13!UDP[f]})
          BY <2>1, <3>2, <4>2 DEF OF13!SetPort
        <5> QED BY <3>1, <3>2, <4>1, <5>1
      <4>3. CASE m["IP_PROTO"] # "TCP"
        <5>1. m' = OF13!Restrict(OF13!With(OF13!UDP[f], v), (DOMAIN m \cup {OF13!UDP[f]}) \ {OF13!TCP[f]})
          BY <2>1, <3>2, <4>3 DEF OF13!SetPort
        <5>2. {OF13!UDP[f], OF13!TCP[f]} = {OF13!TCP[f], OF13!UDP[f]}
          OBVIOUS
        <5> QED BY <3>1, <3>2, <4>1, <5>1, <5>2
      <4> QED BY <4>2, <4>3
    <3>3. CASE f \notin OF13!PortField
      <4>1. m' = [k \in DOMAIN m \cup {OF13!Key[f]} |-> IF k = OF13!Key[f] THEN v ELSE m[k]]
        BY <2>1, <3>3 DEF OF13!With
      <4>2. CASE g \in OF13!PortField
        BY <3>3, <4>1, <4>2, Keys, Fields13 DEF OF13!Answer, OF13!PortAnswer
      <4>3. CASE g \notin OF13!PortField
        BY <3>3, <4>1, <4>3, Keys, Fields13 DEF OF13!Answer, OF13!FieldAnswer
      <4> QED BY <4>2, <4>3
    <3> QED BY <3>2, <3>3
  <2>3. OF13!Answer(m') = [OF13!Answer(m) EXCEPT ![f] = v]
    BY <2>2 DEF OF13!Answer
  <2>4. Abstract13!Allowed(f)
    BY <1>3, Allowed13
  <2> QED BY <1>3, <2>1, <2>3, <2>4 DEF Abstract13!Set
<1> QED BY <1>1, <1>2, <1>3

\* The match of OpenFlow 1.3 keeps the promise of the interface.
THEOREM Implements13Thm == MatchSpec => Implements13
<1>1. NewMatches => Abstract13!Init
  <2> SUFFICES ASSUME NewMatches PROVE Abstract13!Init
    OBVIOUS
  <2>1. DOMAIN m = {} /\ err13 = FALSE
    BY DEF NewMatches, OF13!NewMatch
  <2>2. OF13!IPField = Abstract13!IPField /\ OF13!IPField \cap OF13!PortField = {}
    BY DEF OF13!IPField, OF13!PortField, Abstract13!IPField
  <2>3. OF13!Answer(m) = [f \in Abstract13!Field |-> IF f \in Abstract13!IPField THEN <<NoIP, 0>> ELSE Wildcard]
    BY <2>1, <2>2, Fields13 DEF OF13!Answer, OF13!PortAnswer, OF13!FieldAnswer
  <2> QED BY <2>1, <2>3 DEF Abstract13!Init
<1>2. ASSUME NEW c \in Calls, OF13!Set(c[1], c[2]) PROVE Abstract13!Set(c[1], c[2])
  <2>1. OF10!Flag \cap OF13!IPField = {}
    BY DEF OF10!Flag, OF10!Bit, OF13!IPField
  <2>2. c[1] \in OF13!Field /\ (c[2] = Wildcard => c[1] \notin OF13!IPField)
    BY <2>1, Call, Fields13
  <2> QED BY <1>2, <2>2, Set13
<1>3. [SetBoth]_matchVars
        => [\A c \in Calls : OF13!Set(c[1], c[2]) => Abstract13!Set(c[1], c[2])]_matchVars
  BY <1>2
<1> QED BY <1>1, <1>3, PTL DEF MatchSpec, Implements13

-----------------------------------------------------------------------------
(* The match of OpenFlow 1.0 *)

\* The zero values and the flags agree where a setter looks at the value.
EtherAgrees ==
    \/ wildcards["EtherType"] /\ value["EtherType"] = 0
    \/ ~wildcards["EtherType"] /\ value["EtherType"] \in {2048, 2054}
ProtocolAgrees ==
    \/ wildcards["IPProtocol"] /\ value["IPProtocol"] = 0
    \/ ~wildcards["IPProtocol"] /\ value["IPProtocol"] \in {6, 17, 1}

\* What fits into the word of wildcards: flags, and counts of up to 32 bits
Fits(f, w) == IF f \in OF10!IPField THEN w \in 0..32 ELSE w \in BOOLEAN

Inv10 ==
    /\ DOMAIN wildcards = OF10!Field /\ DOMAIN value = OF10!Field
    /\ EtherAgrees /\ ProtocolAgrees
    /\ \A f \in OF10!Field : Fits(f, wildcards[f])

LEMMA Fields10 ==
    /\ OF10!Field = Abstract10!Field
    /\ OF10!IPField = Abstract10!IPField /\ OF10!PortField = Abstract10!PortField
    /\ OF10!IPField \subseteq OF10!Field
    /\ OF10!IPField \cap {"EtherType", "IPProtocol"} = {}
    /\ OF10!Flag \cap OF10!IPField = {}
    /\ {"EtherType", "IPProtocol"} \subseteq OF10!Field
BY DEF OF10!Field, OF10!Flag, OF10!Bit, OF10!IPField, OF10!PortField,
       Abstract10!Field, Abstract10!IPField, Abstract10!PortField

\* The names of the numbers
LEMMA Names ==
    /\ \A v \in {"IPv4", "ARP"} : OF10!Name("EtherType", OF10!Number[v]) = v
    /\ \A v \in {"TCP", "UDP", "ICMP"} : OF10!Name("IPProtocol", OF10!Number[v]) = v
    /\ OF10!Number["IPv4"] = 2048 /\ OF10!Number["ARP"] = 2054
    /\ OF10!Number["TCP"] = 6 /\ OF10!Number["UDP"] = 17 /\ OF10!Number["ICMP"] = 1
BY DEF OF10!Name, OF10!Number

LEMMA Init10 == NewMatches => Inv10 /\ Abstract10!Init
<1> SUFFICES ASSUME NewMatches PROVE Inv10 /\ Abstract10!Init
  OBVIOUS
<1>1. /\ wildcards = [f \in OF10!Field |-> IF f \in OF10!IPField THEN 32 ELSE TRUE]
      /\ value = [f \in OF10!Field |-> IF f \in OF10!IPField THEN NoIP ELSE 0]
      /\ err10 = FALSE
  BY DEF NewMatches, OF10!NewMatch, OF10!newWildcardAll, OF10!Zero
<1>2. Inv10
  <2>1. DOMAIN wildcards = OF10!Field /\ DOMAIN value = OF10!Field
    BY <1>1
  <2>2. wildcards["EtherType"] /\ wildcards["IPProtocol"]
    BY <1>1, Fields10
  <2>3. value["EtherType"] = 0 /\ value["IPProtocol"] = 0
    BY <1>1, Fields10
  <2>4. \A f \in OF10!Field : Fits(f, wildcards[f])
    BY <1>1 DEF Fits
  <2> QED BY <2>1, <2>2, <2>3, <2>4 DEF Inv10, EtherAgrees, ProtocolAgrees
<1>3. OF10!Answer(wildcards, value)
        = [f \in Abstract10!Field |-> IF f \in Abstract10!IPField THEN <<NoIP, 0>> ELSE Wildcard]
  BY <1>1, Fields10 DEF OF10!Answer
<1> QED BY <1>1, <1>2, <1>3 DEF Abstract10!Init

LEMMA Allowed10 ==
    ASSUME Inv10, NEW f \in OF10!Field
    PROVE  Abstract10!Allowed(f) <=> ~OF10!Refused(f)
<1>1. /\ OF10!Answer(wildcards, value)["EtherType"] =
            IF wildcards["EtherType"] THEN Wildcard ELSE OF10!Name("EtherType", value["EtherType"])
      /\ OF10!Answer(wildcards, value)["IPProtocol"] =
            IF wildcards["IPProtocol"] THEN Wildcard ELSE OF10!Name("IPProtocol", value["IPProtocol"])
  BY Fields10 DEF OF10!Answer
<1>2. OF10!Answer(wildcards, value)["EtherType"] = "IPv4" <=> value["EtherType"] = 2048
  BY <1>1, Names, NamesDistinct DEF Inv10, EtherAgrees
<1>3. OF10!Answer(wildcards, value)["IPProtocol"] \in {"TCP", "UDP"} <=> value["IPProtocol"] \in {6, 17}
  BY <1>1, Names, NamesDistinct DEF Inv10, ProtocolAgrees
<1> QED BY <1>2, <1>3, Fields10 DEF Abstract10!Allowed, OF10!Refused

\* What is stored for f stands for v.
Stands(f, v) ==
    IF f \in OF10!IPField THEN <<value[f], 32 - wildcards[f]>> = v
    ELSE IF wildcards[f] THEN v = Wildcard ELSE v = OF10!Name(f, value[f])

LEMMA Set10 ==
    ASSUME Inv10, NEW c \in Calls, OF10!Set(c[1], c[2])
    PROVE  Abstract10!Set(c[1], c[2]) /\ Inv10'
<1>1. PICK f, v : f = c[1] /\ v = c[2]
  OBVIOUS
<1>2. /\ f \in OF10!Field
      /\ (v \in Values[f] /\ v # Wildcard) \/ (v = Wildcard /\ f \notin OF10!IPField)
  <2>1. /\ c[1] \in OF10!Field
        /\ (c[2] \in Values[c[1]] /\ c[2] # Wildcard) \/ (c[2] = Wildcard /\ c[1] \in OF10!Flag)
    BY Call
  <2>2. c[1] \in OF10!Flag => c[1] \notin OF10!IPField
    BY Fields10
  <2> QED BY <1>1, <2>1, <2>2
<1>3. OF10!Set(f, v)
  BY <1>1
<1>4. ASSUME NEW w, NEW n, wildcards' = [wildcards EXCEPT ![f] = w], value' = [value EXCEPT ![f] = n]
      PROVE  /\ DOMAIN wildcards' = OF10!Field /\ DOMAIN value' = OF10!Field
             /\ \A g \in OF10!Field \ {f} : wildcards'[g] = wildcards[g] /\ value'[g] = value[g]
             /\ value'[f] = n /\ wildcards'[f] = w
  BY <1>2, <1>4 DEF Inv10
<1>5. ASSUME DOMAIN wildcards' = OF10!Field, DOMAIN value' = OF10!Field,
             \A g \in OF10!Field \ {f} : wildcards'[g] = wildcards[g] /\ value'[g] = value[g],
             err10' = err10, Stands(f, v)', v = Wildcard \/ (v # Empty /\ ~OF10!Refused(f)), Fits(f, wildcards'[f]),
             f = "EtherType" => EtherAgrees', f = "IPProtocol" => ProtocolAgrees'
      PROVE  Abstract10!Set(f, v) /\ Inv10'
  <2>1. ASSUME NEW g \in OF10!Field
        PROVE  OF10!Answer(wildcards', value')[g]
                 = IF g = f THEN v ELSE OF10!Answer(wildcards, value)[g]
    <3>1. CASE g = f
      BY <1>5, <3>1 DEF OF10!Answer, Stands
    <3>2. CASE g # f
      <4>1. wildcards'[g] = wildcards[g] /\ value'[g] = value[g]
        BY <1>5, <3>2
      <4> QED BY <3>2, <4>1 DEF OF10!Answer
    <3> QED BY <3>1, <3>2
  <2>2. OF10!Answer(wildcards', value') = [OF10!Answer(wildcards, value) EXCEPT ![f] = v]
    BY <2>1 DEF OF10!Answer
  <2>3. v = Wildcard \/ (v # Empty /\ Abstract10!Allowed(f))
    BY <1>2, <1>5, Allowed10
  <2>4. Abstract10!Set(f, v)
    BY <1>5, <2>2, <2>3 DEF Abstract10!Set
  <2>5. EtherAgrees'
    <3>1. CASE f = "EtherType"
      BY <1>5, <3>1
    <3>2. CASE f # "EtherType"
      <4>1. wildcards'["EtherType"] = wildcards["EtherType"] /\ value'["EtherType"] = value["EtherType"]
        BY <1>5, <3>2, Fields10
      <4> QED BY <4>1 DEF Inv10, EtherAgrees
    <3> QED BY <3>1, <3>2
  <2>6. ProtocolAgrees'
    <3>1. CASE f = "IPProtocol"
      BY <1>5, <3>1
    <3>2. CASE f # "IPProtocol"
      <4>1. wildcards'["IPProtocol"] = wildcards["IPProtocol"] /\ value'["IPProtocol"] = value["IPProtocol"]
        BY <1>5, <3>2, Fields10
      <4> QED BY <4>1 DEF Inv10, ProtocolAgrees
    <3> QED BY <3>1, <3>2
  <2>7. \A g \in OF10!Field : Fits(g, wildcards'[g])
    <3>1. \A g \in OF10!Field : Fits(g, wildcards[g])
      BY DEF Inv10
    <3> QED BY <1>5, <3>1
  <2> QED BY <1>5, <2>4, <2>5, <2>6, <2>7 DEF Inv10
<1>6. CASE v = Wildcard
  <2>1. /\ wildcards' = [wildcards EXCEPT ![f] = TRUE] /\ value' = [value EXCEPT ![f] = 0]
        /\ err10' = err10 /\ f \notin OF10!IPField
    BY <1>2, <1>3, <1>6 DEF OF10!Set, OF10!SetWildcard, OF10!Zero
  <2>2. wildcards'[f] /\ value'[f] = 0
    BY <1>2, <2>1 DEF Inv10
  <2>3. Stands(f, v)'
    BY <1>6, <2>1, <2>2 DEF Stands
  <2>4. (f = "EtherType" => EtherAgrees') /\ (f = "IPProtocol" => ProtocolAgrees')
    BY <2>2 DEF EtherAgrees, ProtocolAgrees
  <2>5. Fits(f, wildcards'[f])
    <3>1. wildcards'[f] = TRUE
      BY <1>4, <2>1
    <3> QED BY <2>1, <3>1 DEF Fits
  <2> QED BY <1>1, <1>4, <1>5, <1>6, <2>1, <2>3, <2>4, <2>5
<1>7. CASE v # Wildcard /\ (v = Empty \/ OF10!Refused(f))
  <2>1. err10' = TRUE /\ wildcards' = wildcards /\ value' = value
    BY <1>3, <1>7, SMT DEF OF10!Set, OF10!SetIP, OF10!SetField, OF10!Error
  <2>2. v = Empty \/ ~Abstract10!Allowed(f)
    BY <1>2, <1>7, Allowed10
  <2>3. Abstract10!Set(f, v)
    BY <1>7, <2>1, <2>2 DEF Abstract10!Set
  <2>4. Inv10'
    BY <2>1 DEF Inv10, EtherAgrees, ProtocolAgrees, Fits
  <2> QED BY <1>1, <2>3, <2>4
<1>8. CASE v # Wildcard /\ v # Empty /\ ~OF10!Refused(f) /\ f \in OF10!IPField
  <2>1. /\ wildcards' = [wildcards EXCEPT ![f] = IF v[2] >= 32 THEN 0 ELSE 32 - v[2]]
        /\ value' = [value EXCEPT ![f] = v[1]] /\ err10' = err10
    BY <1>3, <1>8 DEF OF10!Set, OF10!SetIP
  <2>2. v \in IP \X Bits
    <3>1. Values["SrcIP"] = (IP \X Bits) \cup {Empty} /\ Values["DstIP"] = (IP \X Bits) \cup {Empty}
      BY DEF Values
    <3> QED BY <1>2, <1>8, <3>1 DEF OF10!IPField
  <2>3. v = <<v[1], v[2]>>
    BY <2>2
  <2>4. v[2] \in 0..32
    <3>1. \A b \in Bits : b \in 0..32
      BY Widths, SMT
    <3>2. v[2] \in Bits
      BY <2>2
    <3> QED BY <3>1, <3>2
  <2>5. wildcards'[f] = (IF v[2] >= 32 THEN 0 ELSE 32 - v[2]) /\ value'[f] = v[1]
    BY <1>4, <2>1
  <2>6. 32 - wildcards'[f] = v[2]
    BY <2>4, <2>5
  <2>7. Stands(f, v)'
    BY <1>8, <2>3, <2>5, <2>6 DEF Stands
  <2>8. f # "EtherType" /\ f # "IPProtocol"
    BY <1>8, Fields10
  <2>9. Fits(f, wildcards'[f])
    BY <1>8, <2>4, <2>5 DEF Fits
  <2> QED BY <1>1, <1>4, <1>5, <1>8, <2>1, <2>7, <2>8, <2>9
<1>9. CASE v # Wildcard /\ v # Empty /\ ~OF10!Refused(f) /\ f \notin OF10!IPField
  <2> DEFINE n == IF f = "InPort" THEN v % 65536
                  ELSE IF f \in {"EtherType", "IPProtocol"} THEN OF10!Number[v] ELSE v
  <2>1. /\ wildcards' = [wildcards EXCEPT ![f] = FALSE] /\ value' = [value EXCEPT ![f] = n]
        /\ err10' = err10
    BY <1>3, <1>9, SMT DEF OF10!Set, OF10!SetField
  <2>2. v \in Values[f]
    BY <1>2, <1>9
  <2>3. v = OF10!Name(f, n) /\ (f = "EtherType" => n \in {2048, 2054}) /\ (f = "IPProtocol" => n \in {6, 17, 1})
    <3>1. CASE f = "EtherType"
      <4>1. Values["EtherType"] = {"IPv4", "ARP"}
        BY DEF Values
      <4>2. v \in {"IPv4", "ARP"} /\ n = OF10!Number[v]
        BY <2>2, <3>1, <4>1, SMT
      <4> HIDE DEF n
      <4> QED BY <3>1, <4>2, Names
    <3>2. CASE f = "IPProtocol"
      <4>1. Values["IPProtocol"] = {"TCP", "UDP", "ICMP"}
        BY DEF Values
      <4>2. v \in {"TCP", "UDP", "ICMP"} /\ n = OF10!Number[v]
        BY <2>2, <3>2, <4>1, SMT
      <4> HIDE DEF n
      <4> QED BY <3>2, <4>2, Names
    <3>3. CASE f \notin {"EtherType", "IPProtocol"}
      <4>1. CASE f = "InPort"
        <5>1. Values["InPort"] = Number16
          BY DEF Values
        <5>2. v \in Number16
          BY <2>2, <4>1, <5>1
        <5>3. v \in Nat /\ v < 65536
          BY <5>2, Widths, SMT
        <5>4. v % 65536 = v
          BY <5>3, SMT
        <5>5. n = v
          BY <4>1, <5>4, SMT
        <5> HIDE DEF n
        <5> QED BY <3>3, <5>5 DEF OF10!Name
      <4>2. CASE f # "InPort"
        <5>1. n = v
          BY <3>3, <4>2, SMT
        <5> HIDE DEF n
        <5> QED BY <3>3, <5>1 DEF OF10!Name
      <4> QED BY <4>1, <4>2
    <3> QED BY <3>1, <3>2, <3>3
  <2> HIDE DEF n
  <2>4. ~wildcards'[f] /\ value'[f] = n
    BY <1>2, <2>1 DEF Inv10
  <2>5. Stands(f, v)'
    BY <1>9, <2>3, <2>4 DEF Stands
  <2>6. (f = "EtherType" => EtherAgrees') /\ (f = "IPProtocol" => ProtocolAgrees')
    BY <2>3, <2>4 DEF EtherAgrees, ProtocolAgrees
  <2>7. Fits(f, wildcards'[f])
    <3>1. wildcards'[f] = FALSE
      BY <1>4, <2>1
    <3> QED BY <1>9, <3>1 DEF Fits
  <2> QED BY <1>1, <1>4, <1>5, <1>9, <2>1, <2>5, <2>6, <2>7
<1> QED BY <1>7, <1>8, <1>9, <1>6

LEMMA Inv10Step == Inv10 /\ [SetBoth]_matchVars => Inv10'
<1> SUFFICES ASSUME Inv10, [SetBoth]_matchVars PROVE Inv10'
  OBVIOUS
<1>1. CASE SetBoth
  BY <1>1, Set10 DEF SetBoth
<1>2. CASE UNCHANGED matchVars
  BY <1>2 DEF matchVars, Inv10, EtherAgrees, ProtocolAgrees, Fits
<1> QED BY <1>1, <1>2

\* The match of OpenFlow 1.0, with its zero values and its counts of ignored
\* bits, keeps the promise of the interface.
THEOREM Implements10Thm == MatchSpec => Implements10
<1>1. NewMatches => Inv10 /\ Abstract10!Init
  BY Init10
<1>2. Inv10 /\ [SetBoth]_matchVars => Inv10'
  BY Inv10Step
<1>3. Inv10 /\ [SetBoth]_matchVars
        => [\A c \in Calls : OF10!Set(c[1], c[2]) => Abstract10!Set(c[1], c[2])]_matchVars
  BY Set10
<1> QED BY <1>1, <1>2, <1>3, PTL DEF MatchSpec, Implements10

-----------------------------------------------------------------------------
(* The word of wildcards of OpenFlow 1.0 *)

\* The word, of its flags as numbers and its counts
Packed(a, b, c, d, e, f, g, h, s, t, i) ==
    a * 1 + b * 2 + c * 4 + d * 8 + e * 16 + f * 32 + g * 64 + h * 128 + s * 256 + t * 16384
        + i * 1048576 + 2097152

Unpacks(n, a, b, c, d, e, f, g, h, s, t, i) ==
    /\ (n \div 1) % 2 = a /\ (n \div 2) % 2 = b /\ (n \div 4) % 2 = c /\ (n \div 8) % 2 = d
    /\ (n \div 16) % 2 = e /\ (n \div 32) % 2 = f /\ (n \div 64) % 2 = g /\ (n \div 128) % 2 = h
    /\ (n \div 256) % 64 = s /\ (n \div 16384) % 64 = t /\ (n \div 1048576) % 2 = i

\* Every field of the word is read where it was written: above it q is left,
\* and what is below it is less than one of it.
LEMMA WordBits ==
    ASSUME NEW a \in 0..1, NEW b \in 0..1, NEW c \in 0..1, NEW d \in 0..1, NEW e \in 0..1, NEW f \in 0..1,
           NEW g \in 0..1, NEW h \in 0..1, NEW i \in 0..1, NEW s \in 0..32, NEW t \in 0..32
    PROVE  Unpacks(Packed(a, b, c, d, e, f, g, h, s, t, i), a, b, c, d, e, f, g, h, s, t, i)
<1> DEFINE n == Packed(a, b, c, d, e, f, g, h, s, t, i)
           q20 == i + 2
           q14 == t + 64 * q20
           q8 == s + 64 * q14
           q7 == h + 2 * q8
           q6 == g + 2 * q7
           q5 == f + 2 * q6
           q4 == e + 2 * q5
           q3 == d + 2 * q4
           q2 == c + 2 * q3
           q1 == b + 2 * q2
<1>1. /\ q1 \in Nat /\ q2 \in Nat /\ q3 \in Nat /\ q4 \in Nat /\ q5 \in Nat /\ q6 \in Nat
      /\ q7 \in Nat /\ q8 \in Nat /\ q14 \in Nat /\ q20 \in Nat
  BY SMT
<1>2. /\ n = a + 2 * q1 /\ q1 = b + 2 * q2 /\ q2 = c + 2 * q3 /\ q3 = d + 2 * q4 /\ q4 = e + 2 * q5
      /\ q5 = f + 2 * q6 /\ q6 = g + 2 * q7 /\ q7 = h + 2 * q8 /\ q8 = s + 64 * q14
      /\ q14 = t + 64 * q20 /\ q20 = i + 2
  BY SMT DEF Packed
<1> HIDE DEF n, q1, q2, q3, q4, q5, q6, q7, q8, q14, q20
<1>3. n \div 1 = n /\ n \div 2 = q1 /\ n \div 4 = q2 /\ n \div 8 = q3
  BY <1>1, <1>2, SMT
<1>4. n \div 16 = q4 /\ n \div 32 = q5
  BY <1>1, <1>2, SMT
<1>5. n \div 64 = q6 /\ n \div 128 = q7
  BY <1>1, <1>2, SMT
<1>6. n \div 256 = q8
  BY <1>1, <1>2, SMT
<1>7. n \div 16384 = q14
  BY <1>1, <1>2, SMT
<1>8. n \div 1048576 = q20
  BY <1>1, <1>2, SMT
<1>9. /\ n % 2 = a /\ q1 % 2 = b /\ q2 % 2 = c /\ q3 % 2 = d /\ q4 % 2 = e /\ q5 % 2 = f /\ q6 % 2 = g
      /\ q7 % 2 = h /\ q8 % 64 = s /\ q14 % 64 = t /\ q20 % 2 = i
  BY <1>1, <1>2, SMT
<1> QED BY <1>3, <1>4, <1>5, <1>6, <1>7, <1>8, <1>9, SMT DEF Unpacks, n

\* Wildcard.UnmarshalBinary undoes Wildcard.MarshalBinary.
LEMMA WordBack ==
    ASSUME Inv10
    PROVE  \A f \in OF10!Field : OF10!Unword(OF10!Word(wildcards))[f] = wildcards[f]
<1> DEFINE bit(f) == IF wildcards[f] THEN 1 ELSE 0
           n == OF10!Word(wildcards)
<1>1. n = Packed(bit("InPort"), bit("VLANID"), bit("SrcMAC"), bit("DstMAC"), bit("EtherType"),
                 bit("IPProtocol"), bit("SrcPort"), bit("DstPort"), wildcards["SrcIP"], wildcards["DstIP"],
                 bit("VLANPriority"))
  BY SMT DEF Packed, OF10!Word, OF10!Bit, OF10!Shift, OF10!OFPFW_NW_TOS
<1>2. wildcards["SrcIP"] \in 0..32 /\ wildcards["DstIP"] \in 0..32
  BY Fields10 DEF Inv10, Fits, OF10!IPField
<1>3. \A f \in OF10!Flag : bit(f) \in 0..1 /\ (wildcards[f] <=> bit(f) = 1) /\ wildcards[f] \in BOOLEAN
  <2>1. \A f \in OF10!Flag : wildcards[f] \in BOOLEAN
    BY Fields10 DEF Inv10, Fits, OF10!Field
  <2> QED BY <2>1
<1>4. OF10!Flag = {"InPort", "VLANID", "SrcMAC", "DstMAC", "EtherType", "IPProtocol", "SrcPort",
                   "DstPort", "VLANPriority"}
  BY SMT DEF OF10!Flag, OF10!Bit
<1> HIDE DEF n, bit
<1>5. /\ bit("InPort") \in 0..1 /\ bit("VLANID") \in 0..1 /\ bit("SrcMAC") \in 0..1 /\ bit("DstMAC") \in 0..1
      /\ bit("EtherType") \in 0..1 /\ bit("IPProtocol") \in 0..1 /\ bit("SrcPort") \in 0..1
      /\ bit("DstPort") \in 0..1 /\ bit("VLANPriority") \in 0..1
  BY <1>3, <1>4, SMT
<1>6. /\ (n \div 1) % 2 = bit("InPort") /\ (n \div 2) % 2 = bit("VLANID") /\ (n \div 4) % 2 = bit("SrcMAC")
      /\ (n \div 8) % 2 = bit("DstMAC") /\ (n \div 16) % 2 = bit("EtherType")
      /\ (n \div 32) % 2 = bit("IPProtocol") /\ (n \div 64) % 2 = bit("SrcPort")
      /\ (n \div 128) % 2 = bit("DstPort") /\ (n \div 1048576) % 2 = bit("VLANPriority")
      /\ (n \div 256) % 64 = wildcards["SrcIP"] /\ (n \div 16384) % 64 = wildcards["DstIP"]
  <2>1. Unpacks(n, bit("InPort"), bit("VLANID"), bit("SrcMAC"), bit("DstMAC"), bit("EtherType"),
                bit("IPProtocol"), bit("SrcPort"), bit("DstPort"), wildcards["SrcIP"], wildcards["DstIP"],
                bit("VLANPriority"))
    BY <1>1, <1>2, <1>5, WordBits, Zenon
  <2> QED BY <2>1, SMT DEF Unpacks
<1>7. ASSUME NEW f \in OF10!Flag PROVE ((n \div OF10!Bit[f]) % 2 = 1) = wildcards[f]
  BY <1>3, <1>4, <1>6, SMT DEF OF10!Bit
<1>8. ASSUME NEW f \in OF10!IPField PROVE (n \div OF10!Shift[f]) % 64 = wildcards[f]
  BY <1>6, SMT DEF OF10!Shift, OF10!IPField
<1>9. ASSUME NEW f \in OF10!Field PROVE OF10!Unword(n)[f] = wildcards[f]
  <2>1. CASE f \in OF10!IPField
    BY <1>8, <2>1, SMT DEF OF10!Unword
  <2>2. CASE f \notin OF10!IPField
    <3>1. f \in OF10!Flag
      BY <2>2, SMT DEF OF10!Field
    <3> QED BY <1>7, <2>2, <3>1, SMT DEF OF10!Unword
  <2> QED BY <2>1, <2>2, SMT
<1> QED BY <1>9, SMT DEF n

-----------------------------------------------------------------------------
(* The TLVs of OpenFlow 1.3 *)

Inv13 == DOMAIN m \subseteq DOMAIN OF13!Type

\* The numbers fit into the bits of the header, and no two types are the same.
LEMMA Headers ==
    ASSUME NEW k \in DOMAIN OF13!Type
    PROVE  /\ OF13!Type[k] \in 0..16 /\ OF13!Size[k] \in 0..8 /\ OF13!HasMask(k) \in 0..1
           /\ \A j \in DOMAIN OF13!Type : j # k => OF13!Type[j] # OF13!Type[k]
BY DEF OF13!Type, OF13!Size, OF13!HasMask

\* unmarshalTLV undoes marshalTLV.
LEMMA HeaderBits ==
    ASSUME NEW a \in 0..16, NEW b \in 0..1, NEW c \in 0..8
    PROVE  LET n == a * 512 + b * 256 + c
           IN  /\ (n \div 512) % 128 = a /\ (n \div 256) % 2 = b /\ n % 256 = c
OBVIOUS

LEMMA TLVBack ==
    ASSUME NEW k \in DOMAIN OF13!Type
    PROVE  LET t == OF13!TLV(k)
           IN  /\ OF13!TypeOf(t) = OF13!Type[k] /\ OF13!LengthOf(t) = t.bytes
               /\ OF13!Body(k, t) = m[k]
<1> DEFINE t == OF13!TLV(k)
<1>1. /\ t.header = OF13!Type[k] * 512 + OF13!HasMask(k) * 256 + OF13!Size[k]
      /\ t.body = m[k] /\ t.bytes = OF13!Size[k]
  BY DEF OF13!TLV
<1> HIDE DEF t
<1>2. /\ OF13!TypeOf(t) = OF13!Type[k] /\ OF13!MaskOf(t) = OF13!HasMask(k)
      /\ OF13!LengthOf(t) = OF13!Size[k]
  BY <1>1, Headers, HeaderBits DEF OF13!TypeOf, OF13!MaskOf, OF13!LengthOf
<1>3. OF13!Body(k, t) = m[k]
  BY <1>1, <1>2 DEF OF13!Body, OF13!HasMask
<1> QED BY <1>1, <1>2, <1>3 DEF t

\* The TLVs are found where the one before ends, and each says what was set.
LEMMA MatchBack ==
    ASSUME Inv13
    PROVE  /\ OF13!Aligned(OF13!MarshalBinary)
           /\ OF13!UnmarshalBinary(OF13!MarshalBinary) = OF13!Answer(m)
<1> DEFINE data == OF13!MarshalBinary
           sent(k) == OF13!Sent(data, k)
           size(k) == IF OF13!Has(k) THEN 4 + OF13!Size[k] ELSE 0
           found(k) == IF sent(k) # {} THEN 4 + (CHOOSE t \in sent(k) : TRUE).bytes ELSE 0
           keys == {k \in DOMAIN OF13!Type : sent(k) # {}}
           n == [k \in keys |-> OF13!Body(k, CHOOSE t \in sent(k) : TRUE)]
<1>1. data.tlvs = {OF13!TLV(k) : k \in DOMAIN m} /\ data.length = 4 + OF13!Total(size)
  BY DEF OF13!MarshalBinary
<1> HIDE DEF data
<1>2. ASSUME NEW t \in data.tlvs PROVE OF13!LengthOf(t) = t.bytes
  BY <1>1, TLVBack DEF Inv13
<1>3. ASSUME NEW k \in DOMAIN OF13!Type
      PROVE  sent(k) = IF k \in DOMAIN m THEN {OF13!TLV(k)} ELSE {}
  <2>1. ASSUME NEW t \in sent(k) PROVE k \in DOMAIN m /\ t = OF13!TLV(k)
    <3>1. PICK j \in DOMAIN m : t = OF13!TLV(j)
      BY <1>1 DEF OF13!Sent
    <3>2. j \in DOMAIN OF13!Type /\ OF13!TypeOf(t) = OF13!Type[j]
      BY <3>1, TLVBack DEF Inv13
    <3>3. OF13!Type[j] = OF13!Type[k]
      BY <3>2 DEF OF13!Sent
    <3>4. j = k
      BY <3>2, <3>3, Headers
    <3> QED BY <3>1, <3>4
  <2>2. k \in DOMAIN m => OF13!TLV(k) \in sent(k)
    BY <1>1, TLVBack DEF OF13!Sent
  <2> HIDE DEF sent
  <2> QED BY <2>1, <2>2
<1> HIDE DEF sent
<1>4. keys = DOMAIN m
  BY <1>3 DEF Inv13
<1>5. ASSUME NEW k \in DOMAIN m PROVE n[k] = m[k]
  <2>1. k \in DOMAIN OF13!Type /\ sent(k) = {OF13!TLV(k)}
    BY <1>3 DEF Inv13
  <2>2. (CHOOSE t \in sent(k) : TRUE) = OF13!TLV(k)
    BY <2>1
  <2>3. OF13!Body(k, OF13!TLV(k)) = m[k]
    BY <2>1, TLVBack
  <2>4. n[k] = OF13!Body(k, CHOOSE t \in sent(k) : TRUE)
    BY <1>4
  <2> QED BY <2>2, <2>3, <2>4
<1>6. DOMAIN n = DOMAIN m
  BY <1>4
<1>7. OF13!UnmarshalBinary(data) = OF13!Answer(n)
  BY DEF OF13!UnmarshalBinary, sent
<1> HIDE DEF n, keys
<1>8. OF13!Answer(n) = OF13!Answer(m)
  <2>1. ASSUME NEW f \in OF13!Field
        PROVE  /\ OF13!PortAnswer(n, f) = OF13!PortAnswer(m, f)
               /\ OF13!FieldAnswer(n, f) = OF13!FieldAnswer(m, f)
    BY <1>5, <1>6 DEF OF13!PortAnswer, OF13!FieldAnswer
  <2> QED BY <2>1 DEF OF13!Answer
<1>9. ASSUME NEW k \in DOMAIN OF13!Type PROVE found(k) = size(k)
  <2>1. OF13!TLV(k).bytes = OF13!Size[k]
    BY DEF OF13!TLV
  <2>2. CASE k \in DOMAIN m
    <3>1. sent(k) = {OF13!TLV(k)}
      BY <1>3, <2>2
    <3>2. (CHOOSE t \in sent(k) : TRUE) = OF13!TLV(k)
      BY <3>1
    <3> QED BY <2>1, <2>2, <3>1, <3>2 DEF OF13!Has
  <2>3. CASE k \notin DOMAIN m
    BY <1>3, <2>3 DEF OF13!Has
  <2> QED BY <2>2, <2>3
<1> HIDE DEF found, size
<1>10. OF13!Total(found) = OF13!Total(size)
  <2>1. DOMAIN OF13!Type = {"IN_PORT", "ETH_DST", "ETH_SRC", "ETH_TYPE", "VLAN_VID", "VLAN_PCP", "IP_PROTO",
                            "IPV4_SRC", "IPV4_DST", "TCP_SRC", "TCP_DST", "UDP_SRC", "UDP_DST"}
    BY DEF OF13!Type
  <2> QED BY <1>9, <2>1 DEF OF13!Total
<1>11. OF13!Aligned(data)
  <2>1. \A k \in DOMAIN OF13!Type : \A t, u \in sent(k) : t = u
    BY <1>3
  <2>2. data.length = 4 + OF13!Total(found)
    BY <1>1, <1>10
  <2> QED BY <1>2, <2>1, <2>2 DEF OF13!Aligned, found, sent
<1> QED BY <1>7, <1>8, <1>11 DEF data

LEMMA Inv13Init == NewMatches => Inv13
BY DEF NewMatches, OF13!NewMatch, Inv13

LEMMA Inv13Step == Inv13 /\ [SetBoth]_matchVars => Inv13'
<1> SUFFICES ASSUME Inv13, [SetBoth]_matchVars PROVE Inv13'
  OBVIOUS
<1>1. ASSUME NEW c \in Calls, OF13!Set(c[1], c[2]) PROVE Inv13'
  <2>1. PICK f, v : f = c[1] /\ v = c[2] /\ f \in OF13!Field
    BY Call, Fields13
  <2>2. /\ f \in OF13!PortField => {OF13!TCP[f], OF13!UDP[f]} \subseteq DOMAIN OF13!Type
        /\ f \notin OF13!PortField => OF13!Key[f] \in DOMAIN OF13!Type
    BY <2>1 DEF OF13!Field, OF13!Key, OF13!PortField, OF13!TCP, OF13!UDP, OF13!Type
  <2>3. \/ DOMAIN m' \subseteq DOMAIN m
        \/ f \in OF13!PortField /\ DOMAIN m' \subseteq DOMAIN m \cup {OF13!TCP[f], OF13!UDP[f]}
        \/ f \notin OF13!PortField /\ DOMAIN m' = DOMAIN m \cup {OF13!Key[f]}
    BY <1>1, <2>1 DEF OF13!Set, OF13!SetWildcard, OF13!SetPort, OF13!With, OF13!Without, OF13!Restrict
  <2> QED BY <2>2, <2>3 DEF Inv13
<1>2. CASE UNCHANGED matchVars
  BY <1>2 DEF matchVars, Inv13
<1> QED BY <1>1, <1>2 DEF SetBoth

\* Whatever calls built a match, what is sent of it tells the switch what was
\* set, in both versions of OpenFlow (MarshalBinary, UnmarshalBinary).
THEOREM RoundTripThm == MatchSpec => []RoundTrip
<1>1. NewMatches => Inv10 /\ Inv13
  BY Init10, Inv13Init
<1>2. Inv10 /\ Inv13 /\ [SetBoth]_matchVars => Inv10' /\ Inv13'
  BY Inv10Step, Inv13Step
<1>3. Inv10 /\ Inv13 => RoundTrip
  <2> SUFFICES ASSUME Inv10, Inv13 PROVE RoundTrip
    OBVIOUS
  <2>1. OF10!UnmarshalBinary(OF10!MarshalBinary) = OF10!Answer(wildcards, value)
    <3>1. OF10!UnmarshalBinary(OF10!MarshalBinary) = OF10!Answer(OF10!Unword(OF10!Word(wildcards)), value)
      BY SMT DEF OF10!UnmarshalBinary, OF10!MarshalBinary
    <3> QED BY <3>1, WordBack DEF OF10!Answer
  <2> QED BY <2>1, MatchBack DEF RoundTrip
<1> QED BY <1>1, <1>2, <1>3, PTL DEF MatchSpec
=============================================================================
