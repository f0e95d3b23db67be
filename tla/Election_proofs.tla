-------------------------- MODULE Election_proofs ---------------------------
(***************************************************************************)
(* Proofs about the election, for any number of controllers.               *)
(***************************************************************************)
EXTENDS Election, TLAPS

-----------------------------------------------------------------------------
(* Locks: holds in every environment *)

Locks ==
    /\ \A c \in lock : pc[c] \in {"decide", "commit"}
    /\ \A c, d \in lock : c = d
    /\ \A c \in gap : pc[c] = "decide"
    /\ \A c \in Controller : pc[c] = "commit" => c \in lock
    /\ \A c \in Controller : pc[c] = "decide" => c \in lock \cup gap
    /\ \A c \in Controller : written[c] => pc[c] \in {"commit", "return"}
    /\ lock # {} \/ row # NoRow => gap = {}

\* What a transaction that wrote found stays true until it commits, because
\* it holds the row's lock.
Granted ==
    \A c \in Controller :
        pc[c] = "commit" /\ written[c] =>
            row = NoRow \/ row = uid(c) \/ rowAge + Skew > Expiration

TxInv == TypeOK /\ Locks /\ Granted

\* Type correctness of one step.
LEMMA TypeStep == TypeOK /\ [Next]_vars => TypeOK'
<1> SUFFICES ASSUME TypeOK, [Next]_vars PROVE TypeOK'
  OBVIOUS
<1> USE Timing, Bounds DEF TypeOK, dbVars, txVars, connVars, Uid, uid, Horizon
<1>1. ASSUME NEW c \in Controller, Elect(c) PROVE TypeOK'
  BY <1>1 DEF Elect
<1>2. ASSUME NEW c \in Controller, Select(c) PROVE TypeOK'
  BY <1>2 DEF Select
<1>3. ASSUME NEW c \in Controller, Write(c) PROVE TypeOK'
  BY <1>3 DEF Write
<1>4. ASSUME NEW c \in Controller, Yield(c) PROVE TypeOK'
  BY <1>4 DEF Yield
<1>5. ASSUME NEW c \in Controller, Commit(c) PROVE TypeOK'
  BY <1>5 DEF Commit
<1>6. ASSUME NEW c \in Controller, Retry(c) PROVE TypeOK'
  BY <1>6 DEF Retry, Release
<1>7. ASSUME NEW c \in Controller, SetMaster(c) PROVE TypeOK'
  BY <1>7 DEF SetMaster, Forget
<1>8. ASSUME NEW c \in Controller, Exit(c) PROVE TypeOK'
  BY <1>8 DEF Exit, Release, Forget
<1>9. ASSUME NEW c \in Controller, Restart(c) PROVE TypeOK'
  BY <1>9 DEF Restart
<1>10. ASSUME NEW c \in Controller, Accept(c) PROVE TypeOK'
  BY <1>10 DEF Accept
<1>11. ASSUME NEW c \in Controller, Fetch(c) PROVE TypeOK'
  BY <1>11 DEF Fetch
<1>12. ASSUME NEW c \in Controller, Disconnect(c) PROVE TypeOK'
  BY <1>12 DEF Disconnect
<1>13. CASE Tick
  BY <1>13 DEF Tick, Older
<1>14. CASE UNCHANGED vars
  BY <1>14 DEF vars
<1> QED BY <1>1, <1>2, <1>3, <1>4, <1>5, <1>6, <1>7, <1>8, <1>9, <1>10, <1>11, <1>12,
           <1>13, <1>14 DEF Next, Step, GiveUp, Crash

\* Locking discipline of one step: the row's lock excludes, and the gap locks
\* are gone once there is a row.
LEMMA LocksStep == TypeOK /\ Locks /\ [Next]_vars => Locks'
<1> SUFFICES ASSUME TypeOK, Locks, [Next]_vars PROVE Locks'
  OBVIOUS
<1> USE NoRowIsNoUid DEF TypeOK, Locks, dbVars, txVars, connVars
<1>1. ASSUME NEW c \in Controller, Elect(c) PROVE Locks'
  BY <1>1 DEF Elect
<1>2. ASSUME NEW c \in Controller, Select(c) PROVE Locks'
  BY <1>2 DEF Select
<1>3. ASSUME NEW c \in Controller, Write(c) PROVE Locks'
  BY <1>3 DEF Write
<1>4. ASSUME NEW c \in Controller, Yield(c) PROVE Locks'
  BY <1>4 DEF Yield
<1>5. ASSUME NEW c \in Controller, Commit(c) PROVE Locks'
  BY <1>5 DEF Commit
<1>6. ASSUME NEW c \in Controller, Retry(c) PROVE Locks'
  BY <1>6 DEF Retry, Release, DeadlockError
<1>7. ASSUME NEW c \in Controller, SetMaster(c) PROVE Locks'
  BY <1>7 DEF SetMaster, Forget
<1>8. ASSUME NEW c \in Controller, Exit(c) PROVE Locks'
  BY <1>8 DEF Exit, Release, Forget
<1>9. ASSUME NEW c \in Controller, Restart(c) PROVE Locks'
  BY <1>9 DEF Restart
<1>10. ASSUME NEW c \in Controller, Accept(c) \/ Fetch(c) \/ Disconnect(c) PROVE Locks'
  BY <1>10 DEF Accept, Fetch, Disconnect
<1>11. CASE Tick
  BY <1>11 DEF Tick
<1>12. CASE UNCHANGED vars
  BY <1>12 DEF vars
<1> QED BY <1>1, <1>2, <1>3, <1>4, <1>5, <1>6, <1>7, <1>8, <1>9, <1>10, <1>11, <1>12
        DEF Next, Step, GiveUp, Crash

\* A transaction's reason to write survives the steps of everybody else:
\* they cannot commit while it holds the lock, and rows only get older.
LEMMA GrantedStep == TxInv /\ [Next]_vars => Granted'
<1> SUFFICES ASSUME TxInv, [Next]_vars PROVE Granted'
  OBVIOUS
<1> USE Timing DEF TxInv, TypeOK, Locks, Granted, dbVars, txVars, connVars, uid
<1>1. ASSUME NEW c \in Controller, Elect(c) PROVE Granted'
  BY <1>1 DEF Elect
<1>2. ASSUME NEW c \in Controller, Select(c) PROVE Granted'
  BY <1>2 DEF Select
<1>3. ASSUME NEW c \in Controller, Write(c) PROVE Granted'
  <2> SUFFICES ASSUME NEW d \in Controller, pc'[d] = "commit", written'[d]
               PROVE  row' = NoRow \/ row' = uid(d)' \/ rowAge' + Skew > Expiration
    BY DEF Granted
  <2>1. CASE d = c
    <3>1. c \in gap => row = NoRow
      OBVIOUS
    <3>2. ASSUME NEW t \in -Skew..Skew, MayTake(c, t)
          PROVE  row = uid(c) \/ rowAge + Skew > Expiration
      BY <3>2 DEF MayTake, Horizon
    <3> QED BY <1>3, <2>1, <3>1, <3>2 DEF Write
  <2>2. CASE d # c
    BY <1>3, <2>2 DEF Write
  <2> QED BY <2>1, <2>2
<1>4. ASSUME NEW c \in Controller, Yield(c) PROVE Granted'
  <2>1. Horizon \in Nat /\ rowAge \in Nat
    BY DEF Horizon
  <2>2. ~written[c]
    BY <1>4 DEF Yield
  <2> QED BY <1>4, <2>1, <2>2 DEF Yield
<1>5. ASSUME NEW c \in Controller, Commit(c) PROVE Granted'
  BY <1>5 DEF Commit
<1>6. ASSUME NEW c \in Controller, Retry(c) PROVE Granted'
  BY <1>6 DEF Retry, Release
<1>7. ASSUME NEW c \in Controller, SetMaster(c) PROVE Granted'
  BY <1>7 DEF SetMaster, Forget
<1>8. ASSUME NEW c \in Controller, Exit(c) PROVE Granted'
  BY <1>8 DEF Exit, Release, Forget
<1>9. ASSUME NEW c \in Controller, Restart(c) PROVE Granted'
  BY <1>9 DEF Restart
<1>10. ASSUME NEW c \in Controller, Accept(c) \/ Fetch(c) \/ Disconnect(c) PROVE Granted'
  BY <1>10 DEF Accept, Fetch, Disconnect
<1>11. CASE Tick
  BY <1>11 DEF Tick, Older, Horizon
<1>12. CASE UNCHANGED vars
  BY <1>12 DEF vars
<1> QED BY <1>1, <1>2, <1>3, <1>4, <1>5, <1>6, <1>7, <1>8, <1>9, <1>10, <1>11, <1>12
        DEF Next, Step, GiveUp, Crash

\* The transaction invariant holds in every environment.
LEMMA TxInvariant == Spec => []TxInv
<1>1. Init => TxInv
  BY Timing, Bounds
  DEF Init, TxInv, TypeOK, Locks, Granted, Horizon, Uid
<1>2. TxInv /\ [Next]_vars => TxInv'
  BY TypeStep, LocksStep, GrantedStep DEF TxInv
<1> QED BY <1>1, <1>2, PTL DEF Spec

\* Type correctness of the election, in particular that retries stay within
\* maxDeadlockRetry.
THEOREM TypeCorrect == Spec => []TypeOK
<1>1. TxInv => TypeOK
  BY DEF TxInv
<1> QED BY <1>1, TxInvariant, PTL

\* The row names a new master only when the lease of the old one has run out,
\* for any number of controllers, any stall and any deadlock errors: the
\* staleness that the SELECT saw still holds when the transaction commits.
THEOREM LeaseThm == Spec => LeaseRespected
<1> DEFINE Respected == row # NoRow /\ row' # row => rowAge + Skew > Expiration
<1>1. TxInv /\ [Next]_vars => [Respected]_vars
  <2> SUFFICES ASSUME TxInv, Next, row # NoRow, row' # row
               PROVE  rowAge + Skew > Expiration
    OBVIOUS
  <2>1. PICK c \in Controller : Commit(c)
    BY DEF Next, Step, Elect, Select, Write, Yield, Retry, GiveUp, SetMaster, Exit, Release,
           Crash, Restart, Accept, Fetch, Disconnect, Tick, dbVars
  <2>2. written[c] /\ row' = uid(c) /\ pc[c] = "commit"
    BY <2>1 DEF Commit
  <2> QED BY <2>2 DEF TxInv, Granted
<1> QED BY <1>1, TxInvariant, PTL DEF Spec, LeaseRespected

-----------------------------------------------------------------------------
(* The cached flag, when rows are renewed in time *)

\* What the deployment has to guarantee for the cached flag to be safe: rows
\* are renewed before anybody may take them for stale.
Safe == Skew + MaxStall <= Expiration

\* A transaction that wrote made elected true.  A controller that takes itself
\* for the master, and not for what was rolled back, owns a fresh row; its
\* current transaction, retried or not, can only renew it; and only such a
\* controller, or one that was misled before, holds connections.
MasterInv ==
    \A c \in Controller :
        /\ written[c] => elected[c]
        /\ pc[c] = "commit" /\ written[c] => stmtAge[c] <= MaxStall
        /\ pc[c] = "down" => ~master[c]
        /\ pc[c] = "return" /\ written[c] => row = uid(c) /\ rowAge <= MaxStall
        /\ Honest(c) => row = uid(c) /\ rowAge <= MaxStall
        /\ Honest(c) /\ pc[c] \in {"commit", "return"} => written[c]
        /\ misled[c] = "never" /\ (backlog[c] > 0 \/ serving[c] > 0) => master[c]

\* One step keeps the owner of the row the only believer: nobody else finds
\* the row stale, and the owner itself always may renew it.
LEMMA MasterStep == Safe /\ TxInv /\ MasterInv /\ [Next]_vars => MasterInv'
<1> SUFFICES ASSUME Safe, TxInv, MasterInv, [Next]_vars PROVE MasterInv'
  OBVIOUS
<1> USE Timing, Bounds, NoRowIsNoUid
    DEF TxInv, TypeOK, Locks, MasterInv, Honest, dbVars, txVars, connVars, uid
<1>0. Horizon \in Nat /\ MaxStall < Horizon
  BY DEF Horizon
<1>1. ASSUME NEW c \in Controller, Elect(c) PROVE MasterInv'
  BY <1>1 DEF Elect
<1>2. ASSUME NEW c \in Controller, Select(c) PROVE MasterInv'
  BY <1>2 DEF Select
<1>3. ASSUME NEW c \in Controller, Write(c) PROVE MasterInv'
  BY <1>3, <1>0 DEF Write
<1>4. ASSUME NEW c \in Controller, Yield(c) PROVE MasterInv'
  BY <1>4 DEF Yield, MayTake
<1>5. ASSUME NEW c \in Controller, Commit(c) PROVE MasterInv'
  <2>1. ASSUME written[c], NEW d \in Controller, d # c
        PROVE  ~Honest(d) /\ ~(pc[d] = "return" /\ written[d])
    <3> SUFFICES ASSUME Honest(d) \/ (pc[d] = "return" /\ written[d]) PROVE FALSE
      OBVIOUS
    <3>1. row = uid(d) /\ rowAge <= MaxStall
      OBVIOUS
    <3>2. row # NoRow
      BY <3>1 DEF Uid
    <3>3. rowAge + Skew > Expiration
      BY <1>5, <2>1, <3>1, <3>2 DEF Commit, Granted
    <3> QED BY <3>1, <3>3, <1>0 DEF Safe
  <2>2. CASE written[c]
    BY <1>5, <2>1, <2>2 DEF Commit
  <2>3. CASE ~written[c]
    BY <1>5, <2>3 DEF Commit
  <2> QED BY <2>2, <2>3
<1>6. ASSUME NEW c \in Controller, Retry(c) PROVE MasterInv'
  BY <1>6 DEF Retry, DeadlockError, Release
<1>7. ASSUME NEW c \in Controller, SetMaster(c) PROVE MasterInv'
  BY <1>7 DEF SetMaster, Forget
<1>8. ASSUME NEW c \in Controller, Exit(c) PROVE MasterInv'
  BY <1>8 DEF Exit, Release, Forget
<1>9. ASSUME NEW c \in Controller, Restart(c) PROVE MasterInv'
  BY <1>9 DEF Restart
<1>10. ASSUME NEW c \in Controller, Accept(c) PROVE MasterInv'
  BY <1>10 DEF Accept
<1>11. ASSUME NEW c \in Controller, Fetch(c) PROVE MasterInv'
  BY <1>11 DEF Fetch
<1>12. ASSUME NEW c \in Controller, Disconnect(c) PROVE MasterInv'
  BY <1>12 DEF Disconnect
<1>13. CASE Tick
  BY <1>13, <1>0 DEF Tick, Older, Timely, Believes
<1>14. CASE UNCHANGED vars
  BY <1>14 DEF vars
<1> QED BY <1>1, <1>2, <1>3, <1>4, <1>5, <1>6, <1>7, <1>8, <1>9, <1>10, <1>11, <1>12,
           <1>13, <1>14 DEF Next, Step, GiveUp, Crash

\* The invariant behind the next two theorems.
LEMMA MasterInvariant == Safe => (Spec => [](TxInv /\ MasterInv))
<1> SUFFICES ASSUME Safe PROVE Spec => [](TxInv /\ MasterInv)
  OBVIOUS
<1>1. Init => MasterInv
  BY DEF Init, MasterInv, Honest
<1>2. TxInv /\ MasterInv /\ [Next]_vars => MasterInv'
  BY MasterStep
<1> QED BY <1>1, <1>2, TxInvariant, PTL DEF Spec

\* Two controllers never answer IsMaster with true at once, whatever the
\* retries, provided that a row is renewed before clock skew and expiration let
\* somebody else take it; but for those that answer so because a try of Elect
\* was rolled back after it had written.
THEOREM OneMasterThm == Safe => (Spec => []AtMostOneMaster)
<1> SUFFICES ASSUME Safe PROVE Spec => []AtMostOneMaster
  OBVIOUS
<1>1. MasterInv => AtMostOneMaster
  BY DEF MasterInv, AtMostOneMaster, uid
<1> QED BY <1>1, MasterInvariant, PTL

-----------------------------------------------------------------------------
(* The lease *)

\* What module Lease sees of the controllers
Masters == {uid(c) : c \in {d \in Controller : Honest(d)}}
Serving == {uid(c) : c \in {d \in Controller : serving[d] > 0 /\ misled[d] = "never"}}

LEMMA SameUid ==
    ASSUME NEW c, NEW d, uid(c) = uid(d)
    PROVE  c = d
BY DEF uid

\* Processes are told apart by the number of the start.
LEMMA UidRunning ==
    ASSUME TypeOK, NEW c \in Controller
    PROVE  uid(c) \in Uid /\ (pc[c] # "down" => uid(c) \notin Ended)
BY Bounds DEF TypeOK, uid, Uid, Ended

LEMMA LeaseInit == Init => Mandate!Init
<1> SUFFICES ASSUME Init PROVE Mandate!Init
  OBVIOUS
<1>1. Masters = {} /\ Serving = {}
  BY DEF Init, Masters, Serving, Honest
<1>2. Ended = {}
  BY Bounds DEF Init, Ended, Uid
<1> QED BY <1>1, <1>2 DEF Init, Mandate!Init, Masters, Serving

\* The steps that neither touch the row nor a flag nor a session.
LEMMA LeaseSame ==
    ASSUME TypeOK, row' = row, starts' = starts, master' = master, serving' = serving, misled' = misled,
           \A c \in Controller : pc'[c] = "down" <=> pc[c] = "down"
    PROVE  UNCHANGED <<row, Masters, Serving, Ended>>
<1>1. \A c : uid(c)' = uid(c)
  BY DEF uid
<1>2. Masters' = Masters /\ Serving' = Serving
  BY <1>1 DEF Masters, Serving, Honest
<1>3. Ended' = Ended
  BY DEF Ended, Uid
<1> QED BY <1>2, <1>3

\* Every step of the election is one of the lease, or none.
LEMMA LeaseStep ==
    ASSUME Safe, TxInv, MasterInv, [Next]_vars
    PROVE  [Mandate!Next]_Mandate!vars
<1> DEFINE Same == UNCHANGED <<row, Masters, Serving, Ended>>
           Moves(u) == \/ Mandate!Grant(u) \/ Mandate!Accede(u) \/ Mandate!Serve(u)
                       \/ Mandate!Leave(u) \/ Mandate!End(u)
<1> SUFFICES Same \/ \E u \in Uid : Moves(u)
  BY DEF Mandate!Next, Mandate!vars, Masters, Serving
<1> USE DEF dbVars, txVars, connVars
<1>0. TypeOK
  BY DEF TxInv
<1>1. ASSUME NEW c \in Controller, Elect(c) \/ Select(c) \/ Write(c) \/ Yield(c) \/ Retry(c) \/ Accept(c)
      PROVE  Same
  <2>1. row' = row /\ starts' = starts /\ master' = master /\ serving' = serving /\ misled' = misled
    BY <1>1 DEF Elect, Select, Write, Yield, Retry, Release, Accept
  <2>2. \A d \in Controller : pc'[d] = "down" <=> pc[d] = "down"
    BY <1>0, <1>1 DEF TypeOK, Elect, Select, Write, Yield, Retry, DeadlockError, Accept
  <2> QED BY <1>0, <2>1, <2>2, LeaseSame
<1>2. ASSUME NEW c \in Controller, NEW u, u = uid(c), Commit(c)
      PROVE  Same \/ Mandate!Grant(u)
  <2>1. /\ starts' = starts /\ master' = master /\ serving' = serving /\ misled' = misled
        /\ pc[c] = "commit"
    BY <1>2 DEF Commit
  <2>2. \A d \in Controller : pc'[d] = "down" <=> pc[d] = "down"
    BY <1>0, <1>2 DEF TypeOK, Commit
  <2>3. CASE ~written[c]
    <3>1. row' = row
      BY <1>2, <2>3 DEF Commit
    <3> QED BY <1>0, <2>1, <2>2, <3>1, LeaseSame
  <2>4. CASE written[c]
    <3>1. \A d : uid(d)' = uid(d)
      BY <2>1 DEF uid
    <3>2. Masters' = Masters /\ Serving' = Serving
      BY <2>1, <3>1 DEF Masters, Serving, Honest
    <3>3. Ended' = Ended
      BY <2>1, <2>2 DEF Ended, Uid
    <3>4. Masters \subseteq {uid(c)}
      <4> SUFFICES ASSUME NEW d \in Controller, Honest(d), d # c PROVE FALSE
        BY DEF Masters
      <4>1. row = uid(d) /\ rowAge <= MaxStall
        BY DEF MasterInv
      <4>2. row # NoRow /\ row # uid(c)
        BY <1>0, <4>1, UidRunning, SameUid, NoRowIsNoUid
      <4>3. rowAge + Skew > Expiration
        BY <2>1, <2>4, <4>2 DEF TxInv, Granted
      <4>4. rowAge \in Nat
        BY <1>0, Timing DEF TypeOK, Horizon
      <4> QED BY <4>1, <4>3, <4>4, Timing DEF Safe
    <3>5. uid(c) \notin Ended
      BY <1>0, <2>1, UidRunning
    <3>6. row' = uid(c)
      BY <1>2, <2>4 DEF Commit
    <3> QED BY <1>2, <3>2, <3>3, <3>4, <3>5, <3>6 DEF Mandate!Grant, Masters, Serving
  <2> QED BY <2>3, <2>4
<1>3. ASSUME NEW c \in Controller, NEW u, u = uid(c), SetMaster(c)
      PROVE  Same \/ Mandate!Accede(u)
  <2>1. /\ row' = row /\ starts' = starts /\ serving' = serving /\ pc[c] = "return"
        /\ master' = [master EXCEPT ![c] = elected[c]]
        /\ misled' = [misled EXCEPT ![c] = IF elected[c] /\ ~written[c] THEN "now"
                                          ELSE IF @ = "now" THEN "once" ELSE @]
    BY <1>3 DEF SetMaster
  <2>2. \A d \in Controller : pc'[d] = "down" <=> pc[d] = "down"
    BY <1>0, <1>3 DEF TypeOK, SetMaster
  <2>3. \A d : uid(d)' = uid(d)
    BY <2>1 DEF uid
  <2>4. Ended' = Ended
    BY <2>1, <2>2 DEF Ended, Uid
  <2>5. Serving' = Serving
    <3>1. \A d \in Controller : serving[d] > 0 /\ misled[d] = "never" => misled'[d] = "never"
      <4> SUFFICES ASSUME serving[c] > 0, misled[c] = "never" PROVE misled'[c] = "never"
        BY <1>0, <2>1 DEF TypeOK
      <4>1. written[c]
        BY <2>1 DEF MasterInv, Honest
      <4> QED BY <1>0, <2>1, <4>1 DEF TypeOK
    <3>2. \A d \in Controller : misled'[d] = "never" => misled[d] = "never"
      BY <1>0, <2>1 DEF TypeOK
    <3> QED BY <2>1, <2>3, <3>1, <3>2 DEF Serving
  <2>6. CASE ~written[c]
    <3>1. ~Honest(c)
      BY <2>1, <2>6 DEF MasterInv
    <3>2. \A d \in Controller : Honest(d)' <=> Honest(d)
      BY <1>0, <2>1, <2>6, <3>1 DEF TypeOK, Honest
    <3>3. Masters' = Masters
      BY <2>3, <3>2 DEF Masters
    <3> QED BY <2>1, <2>4, <2>5, <3>3
  <2>7. CASE written[c]
    <3>1. elected[c] /\ row = uid(c)
      BY <2>1, <2>7 DEF MasterInv
    <3>2. \A d \in Controller : Honest(d)' <=> d = c \/ Honest(d)
      BY <1>0, <2>1, <2>7, <3>1 DEF TypeOK, Honest
    <3>3. Masters' = Masters \cup {uid(c)}
      BY <2>3, <3>2 DEF Masters
    <3>4. uid(c) \notin Ended
      BY <1>0, <2>1, UidRunning
    <3> QED BY <1>3, <2>1, <2>4, <2>5, <3>1, <3>3, <3>4 DEF Mandate!Accede, Masters, Serving
  <2> QED BY <2>6, <2>7
<1>4. ASSUME NEW c \in Controller, NEW u, u = uid(c), Exit(c), pc[c] # "down" PROVE Mandate!End(u)
  <2>1. /\ row' = row /\ starts' = starts /\ pc' = [pc EXCEPT ![c] = "down"]
        /\ master' = [master EXCEPT ![c] = FALSE] /\ serving' = [serving EXCEPT ![c] = 0]
        /\ misled' = [misled EXCEPT ![c] = "never"]
    BY <1>4 DEF Exit, Release
  <2>2. \A d : uid(d)' = uid(d)
    BY <2>1 DEF uid
  <2>3. Masters' = Masters \ {uid(c)}
    <3>1. \A d \in Controller : Honest(d)' <=> d # c /\ Honest(d)
      BY <1>0, <2>1 DEF TypeOK, Honest
    <3> QED BY <2>2, <3>1, SameUid DEF Masters
  <2>4. Serving' = Serving \ {uid(c)}
    <3>1. \A d \in Controller : serving'[d] > 0 /\ misled'[d] = "never"
                                  <=> d # c /\ serving[d] > 0 /\ misled[d] = "never"
      BY <1>0, <2>1 DEF TypeOK
    <3> QED BY <2>2, <3>1, SameUid DEF Serving
  <2>5. Ended' = Ended \cup {uid(c)}
    <3>1. uid(c) \in Uid
      BY <1>0, UidRunning
    <3>2. ASSUME NEW x \in Uid PROVE x \in Ended' <=> x \in Ended \/ x = uid(c)
      <4>1. x = <<x[1], x[2]>> /\ x[1] \in Controller /\ x[2] \in Nat
        BY Bounds DEF Uid
      <4>2. CASE x[1] = c
        BY <1>0, <2>1, <4>1, <4>2 DEF Ended, uid, TypeOK
      <4>3. CASE x[1] # c
        BY <1>0, <2>1, <4>1, <4>3 DEF Ended, uid, TypeOK
      <4> QED BY <4>2, <4>3
    <3> QED BY <3>1, <3>2 DEF Ended
  <2> QED BY <1>4, <2>1, <2>3, <2>4, <2>5 DEF Mandate!End, Masters, Serving
<1>5. ASSUME NEW c \in Controller, Restart(c) PROVE Same
  <2>1. /\ row' = row /\ master' = master /\ serving' = serving /\ misled' = misled /\ pc[c] = "down"
        /\ starts' = [starts EXCEPT ![c] = @ + 1] /\ pc' = [pc EXCEPT ![c] = "wait"]
    BY <1>5 DEF Restart
  <2>2. ~Honest(c) /\ ~(serving[c] > 0 /\ misled[c] = "never")
    BY <2>1 DEF MasterInv, Honest
  <2>3. \A d \in Controller : d # c => uid(d)' = uid(d)
    BY <1>0, <2>1 DEF TypeOK, uid
  <2>4. Masters' = Masters
    BY <2>1, <2>2, <2>3 DEF Masters, Honest
  <2>5. Serving' = Serving
    BY <2>1, <2>2, <2>3 DEF Serving
  <2>6. Ended' = Ended
    <3>1. ASSUME NEW u \in Uid PROVE u \in Ended' <=> u \in Ended
      <4>1. u = <<u[1], u[2]>> /\ u[1] \in Controller /\ u[2] \in Nat
        BY Bounds DEF Uid
      <4>2. CASE u[1] = c
        <5>1. starts'[c] = starts[c] + 1 /\ pc'[c] = "wait" /\ starts[c] \in Nat
          BY <1>0, <2>1, Bounds DEF TypeOK
        <5> QED BY <2>1, <4>1, <4>2, <5>1 DEF Ended
      <4>3. CASE u[1] # c
        BY <1>0, <2>1, <4>1, <4>3 DEF Ended, TypeOK
      <4> QED BY <4>2, <4>3
    <3> QED BY <3>1 DEF Ended
  <2> QED BY <2>1, <2>4, <2>5, <2>6
<1>6. ASSUME NEW c \in Controller, NEW u, u = uid(c), Fetch(c) PROVE Same \/ Mandate!Serve(u)
  <2>1. /\ row' = row /\ starts' = starts /\ pc' = pc /\ master' = master /\ misled' = misled
        /\ serving' = [serving EXCEPT ![c] = @ + 1] /\ backlog[c] > 0
    BY <1>6 DEF Fetch
  <2>2. \A d : uid(d)' = uid(d)
    BY <2>1 DEF uid
  <2>3. Masters' = Masters /\ Ended' = Ended
    BY <2>1, <2>2 DEF Masters, Ended, Honest
  <2>4. \A d \in Controller : serving'[d] > 0 <=> d = c \/ serving[d] > 0
    BY <1>0, <2>1, Bounds DEF TypeOK
  <2>5. CASE misled[c] = "never"
    <3>1. uid(c) \in Masters
      BY <2>1, <2>5 DEF MasterInv, Masters, Honest
    <3>2. Serving' = Serving \cup {uid(c)}
      BY <2>1, <2>2, <2>4, <2>5 DEF Serving
    <3> QED BY <1>6, <2>1, <2>3, <3>1, <3>2 DEF Mandate!Serve, Masters, Serving
  <2>6. CASE misled[c] # "never"
    <3>1. Serving' = Serving
      BY <2>1, <2>2, <2>4, <2>6 DEF Serving
    <3> QED BY <2>1, <2>3, <3>1
  <2> QED BY <2>5, <2>6
<1>7. ASSUME NEW c \in Controller, NEW u, u = uid(c), Disconnect(c)
      PROVE  Same \/ Mandate!Leave(u)
  <2>1. /\ row' = row /\ starts' = starts /\ pc' = pc /\ master' = master /\ misled' = misled
        /\ serving' = [serving EXCEPT ![c] = @ - 1] /\ serving[c] > 0
    BY <1>7 DEF Disconnect
  <2>2. \A d : uid(d)' = uid(d)
    BY <2>1 DEF uid
  <2>3. Masters' = Masters /\ Ended' = Ended
    BY <2>1, <2>2 DEF Masters, Ended, Honest
  <2>4. CASE serving[c] > 1
    <3>1. \A d \in Controller : serving'[d] > 0 <=> serving[d] > 0
      BY <1>0, <2>1, <2>4, Bounds DEF TypeOK
    <3>2. Serving' = Serving
      BY <2>1, <2>2, <3>1 DEF Serving
    <3> QED BY <2>1, <2>3, <3>2
  <2>5. CASE ~(serving[c] > 1)
    <3>1. \A d \in Controller : serving'[d] > 0 <=> d # c /\ serving[d] > 0
      BY <1>0, <2>1, <2>5, Bounds DEF TypeOK
    <3>2. Serving' = Serving \ {uid(c)}
      BY <2>1, <2>2, <3>1, SameUid DEF Serving
    <3> QED BY <1>7, <2>1, <2>3, <3>2 DEF Mandate!Leave, Masters, Serving
  <2> QED BY <2>4, <2>5
<1>8. CASE Tick
  <2>1. /\ row' = row /\ starts' = starts /\ master' = master /\ serving' = serving
        /\ misled' = misled /\ pc' = pc
    BY <1>8 DEF Tick
  <2> QED BY <1>0, <2>1, LeaseSame
<1>9. CASE UNCHANGED vars
  <2>1. /\ row' = row /\ starts' = starts /\ master' = master /\ serving' = serving
        /\ misled' = misled /\ pc' = pc
    BY <1>9 DEF vars
  <2> QED BY <1>0, <2>1, LeaseSame
<1>10. ASSUME NEW c \in Controller, NEW u, u = uid(c), GiveUp(c) \/ Crash(c) PROVE Mandate!End(u)
  <2>1. Exit(c) /\ pc[c] # "down"
    BY <1>10 DEF GiveUp, Crash, DeadlockError
  <2> QED BY <1>4, <1>10, <2>1
<1>11. \A c \in Controller : uid(c) \in Uid
  BY <1>0, UidRunning
<1>12. ASSUME NEW c \in Controller, NEW u, u = uid(c),
              Step(c) \/ Crash(c) \/ Restart(c) \/ Accept(c) \/ Fetch(c) \/ Disconnect(c)
       PROVE  Same \/ Moves(u)
  <2> HIDE DEF Same
  <2> QED BY <1>1, <1>2, <1>3, <1>5, <1>6, <1>7, <1>10, <1>12 DEF Step
<1> HIDE DEF Same
<1>13. CASE \E c \in Controller :
             Step(c) \/ Crash(c) \/ Restart(c) \/ Accept(c) \/ Fetch(c) \/ Disconnect(c)
  <2>1. PICK c \in Controller :
            Step(c) \/ Crash(c) \/ Restart(c) \/ Accept(c) \/ Fetch(c) \/ Disconnect(c)
    BY <1>13
  <2>2. PICK u \in Uid : u = uid(c)
    BY <1>11
  <2>3. Same \/ Moves(u)
    BY <1>12, <2>1, <2>2
  <2> QED BY <2>2, <2>3
<1> QED BY <1>8, <1>9, <1>13 DEF Next

\* The controllers and their database implement the lease, for any number of
\* controllers and of restarts, provided that rows are renewed in time: the
\* mandate passes on only when nobody acts on it, and whoever is the master
\* remains it until its process ends, whatever the deadlock errors of its own
\* later transactions.  What a rolled back try made of a process is left aside.
THEOREM LeaseImplemented == Safe => (Spec => ImplementsLease)
<1> SUFFICES ASSUME Safe PROVE Spec => ImplementsLease
  OBVIOUS
<1>1. TxInv /\ MasterInv /\ [Next]_vars => [Mandate!Next]_Mandate!vars
  BY LeaseStep
<1> QED BY <1>1, LeaseInit, MasterInvariant, PTL DEF Spec, ImplementsLease, Mandate!Spec
=============================================================================
