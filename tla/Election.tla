------------------------------ MODULE Election ------------------------------
(***************************************************************************)
(* Master election among controllers that share a MySQL database:          *)
(* election.Observer (election/election.go), MySQL.Elect and the retry     *)
(* loop of MySQL.query (database/mysql.go), and the two places of main.go  *)
(* that depend on the result: the accept loop of listen, and the exit of   *)
(* the process when Elect fails.                                           *)
(*                                                                         *)
(* The database is external: a row `MASTER` that SELECT ... FOR UPDATE     *)
(* locks, gap locks that several transactions hold together while there is *)
(* no row, and deadlock errors that roll a transaction back.               *)
(***************************************************************************)
EXTENDS Integers, FiniteSets

CONSTANTS
    Controller,       \* controller processes
    NoRow,            \* value of row while the table is empty
    Expiration,       \* 5 * interval, in ticks
    Skew,             \* how much older, or younger, than it is a controller
                      \* may take the row to be: the clocks differ, and the
                      \* column has whole seconds only
    MaxStall,         \* environment: see Tick
    MaxDeadlockRetry, \* maxDeadlockRetry
    MaxStarts,        \* bound: process starts per controller
    MaxConn           \* bound: switch connections per controller

ASSUME Timing == Expiration \in Nat /\ Skew \in Nat /\ MaxStall \in Nat \ {0}
ASSUME Bounds == MaxDeadlockRetry \in Nat /\ MaxStarts \in Nat \ {0} /\ MaxConn \in Nat
Uid == Controller \X (1..MaxStarts)

ASSUME NoRowIsNoUid == NoRow \notin Uid

VARIABLES
    row,      \* name in the row MASTER: a uid, or NoRow
    rowAge,   \* ticks since its timestamp, at most Horizon
    lock,     \* transactions that hold the row's lock (at most one)
    gap,      \* transactions that hold the gap lock of the missing row
    starts,   \* how often the process has been started; makes its uid unique
    pc,       \* where Observer.Run is
    elected,  \* result variable of Elect, shared by all tries
    written,  \* has the current transaction written the row?
    stmtAge,  \* ticks since the NOW() it wrote, at most Horizon
    retry,    \* deadlockRetry
    master,   \* Observer.master, what IsMaster returns
    backlog,  \* connections accepted, not yet fetched by the main loop
    serving,  \* connections with a running session
    misled    \* history: was the process told that it is elected by a try that
              \* was rolled back? "now" it is, "once" it was, or "never"

dbVars == <<row, rowAge, lock, gap>>
txVars == <<elected, written, stmtAge, retry>>
connVars == <<backlog, serving>>
vars == <<dbVars, starts, pc, txVars, master, connVars, misled>>

\* Ages beyond which nothing changes.
Horizon == Expiration + Skew + MaxStall + 1

\* generateRandomUID: a new one at every start.
uid(c) == <<c, starts[c]>>

Init ==
    /\ row = NoRow
    /\ rowAge = 0
    /\ lock = {}
    /\ gap = {}
    /\ starts = [c \in Controller |-> 1]
    /\ pc = [c \in Controller |-> "wait"]
    /\ elected = [c \in Controller |-> FALSE]
    /\ written = [c \in Controller |-> FALSE]
    /\ stmtAge = [c \in Controller |-> 0]
    /\ retry = [c \in Controller |-> 0]
    /\ master = [c \in Controller |-> FALSE]
    /\ backlog = [c \in Controller |-> 0]
    /\ serving = [c \in Controller |-> 0]
    /\ misled = [c \in Controller |-> "never"]

-----------------------------------------------------------------------------
(* Observer.Run and Elect *)

\* The ticker fires and Elect is called: its result variable is still false.
Elect(c) ==
    /\ pc[c] = "wait"
    /\ pc' = [pc EXCEPT ![c] = "select"]
    /\ UNCHANGED <<dbVars, starts, txVars, master, connVars, misled>>

\* SELECT ... FOR UPDATE: waits for the row's lock; without a row it takes
\* the gap lock, which does not wait.
Select(c) ==
    /\ pc[c] = "select"
    /\ lock = {}
    /\ pc' = [pc EXCEPT ![c] = "decide"]
    /\ IF row = NoRow
       THEN gap' = gap \cup {c} /\ UNCHANGED lock
       ELSE lock' = {c} /\ UNCHANGED gap
    /\ UNCHANGED <<row, rowAge, starts, txVars, master, connVars, misled>>

\* Mutants of MayTake: the age is not looked at; a stale row is not taken.
MayTake_Always(c, s) == TRUE
MayTake_Never(c, s) == row = uid(c)

\* "Already elected or another stale master?", by a clock that is s ahead.
MayTake(c, s) == row = uid(c) \/ rowAge + s > Expiration

\* INSERT (no row; it waits for the other gap locks) or UPDATE.
Write(c) ==
    /\ pc[c] = "decide"
    /\ \/ c \in gap /\ gap = {c} /\ lock = {} /\ lock' = {c} /\ gap' = {}
       \/ /\ c \in lock
          /\ \E s \in -Skew..Skew : MayTake(c, s)
          /\ UNCHANGED <<lock, gap>>
    /\ written' = [written EXCEPT ![c] = TRUE]
    /\ stmtAge' = [stmtAge EXCEPT ![c] = 0]
    /\ elected' = [elected EXCEPT ![c] = TRUE]
    /\ pc' = [pc EXCEPT ![c] = "commit"]
    /\ UNCHANGED <<row, rowAge, starts, retry, master, connVars, misled>>

\* Another, live master: nothing to write.
Yield(c) ==
    /\ pc[c] = "decide"
    /\ c \in lock
    /\ \E s \in -Skew..Skew : ~MayTake(c, s)
    /\ pc' = [pc EXCEPT ![c] = "commit"]
    /\ UNCHANGED <<dbVars, starts, txVars, master, connVars, misled>>

\* tx.Commit succeeds and Elect returns.
Commit(c) ==
    /\ pc[c] = "commit"
    /\ pc' = [pc EXCEPT ![c] = "return"]
    /\ lock' = lock \ {c}
    /\ IF written[c]
       THEN row' = uid(c) /\ rowAge' = stmtAge[c]
       ELSE UNCHANGED <<row, rowAge>>
    /\ stmtAge' = [stmtAge EXCEPT ![c] = 0]
    /\ UNCHANGED <<gap, starts, elected, written, retry, master, connVars, misled>>

\* The transaction's locks are dropped, and what it wrote is undone.
Release(c) ==
    /\ lock' = lock \ {c}
    /\ gap' = gap \ {c}
    /\ written' = [written EXCEPT ![c] = FALSE]
    /\ stmtAge' = [stmtAge EXCEPT ![c] = 0]
    /\ UNCHANGED <<row, rowAge>>

\* The variables of a call of Elect end with it.
Forget(c) ==
    /\ elected' = [elected EXCEPT ![c] = FALSE]
    /\ retry' = [retry EXCEPT ![c] = 0]

\* Two transactions that hold the gap lock and want to insert wait for each
\* other, and the database fails one of them.  "Commit also may raise an
\* error": in a cluster it finds the conflict with another node's transaction.
DeadlockError(c) ==
    \/ pc[c] = "decide" /\ c \in gap /\ gap # {c}
    \/ pc[c] = "commit"

\* query: rollback, sleep and re-execute.  `elected` keeps its value.
Retry(c) ==
    /\ DeadlockError(c)
    /\ retry[c] < MaxDeadlockRetry
    /\ Release(c)
    /\ retry' = [retry EXCEPT ![c] = @ + 1]
    /\ pc' = [pc EXCEPT ![c] = "select"]
    /\ UNCHANGED <<starts, elected, master, connVars, misled>>

\* setMaster(elected): with the result of a try that was rolled back, if the
\* try that was committed wrote nothing.
SetMaster(c) ==
    /\ pc[c] = "return"
    /\ master' = [master EXCEPT ![c] = elected[c]]
    /\ misled' = [misled EXCEPT ![c] =
                    IF elected[c] /\ ~written[c] THEN "now" ELSE IF @ = "now" THEN "once" ELSE @]
    /\ pc' = [pc EXCEPT ![c] = "wait"]
    /\ Forget(c)
    /\ written' = [written EXCEPT ![c] = FALSE]
    /\ UNCHANGED <<dbVars, starts, stmtAge, connVars>>

\* The end of the process, with all its connections; the database rolls the
\* open transaction back.
Exit(c) ==
    /\ Release(c)
    /\ Forget(c)
    /\ pc' = [pc EXCEPT ![c] = "down"]
    /\ master' = [master EXCEPT ![c] = FALSE]
    /\ backlog' = [backlog EXCEPT ![c] = 0]
    /\ serving' = [serving EXCEPT ![c] = 0]
    /\ misled' = [misled EXCEPT ![c] = "never"]
    /\ UNCHANGED starts

\* query gives up, Elect and Run return the error, main calls Fatalf.
GiveUp(c) == DeadlockError(c) /\ retry[c] >= MaxDeadlockRetry /\ Exit(c)

\* Any other database error ends in Fatalf too; and processes crash.
Crash(c) == pc[c] # "down" /\ starts[c] < MaxStarts /\ Exit(c)

Restart(c) ==
    /\ pc[c] = "down"
    /\ starts[c] < MaxStarts
    /\ starts' = [starts EXCEPT ![c] = @ + 1]
    /\ pc' = [pc EXCEPT ![c] = "wait"]
    /\ UNCHANGED <<dbVars, txVars, master, connVars, misled>>

-----------------------------------------------------------------------------
(* listen *)

\* Mutant of Accept: IsMaster is not asked.
Accept_Anybody(c) ==
    /\ pc[c] # "down"
    /\ backlog[c] + serving[c] < MaxConn
    /\ backlog' = [backlog EXCEPT ![c] = @ + 1]
    /\ UNCHANGED <<dbVars, starts, pc, txVars, master, serving, misled>>

\* The accept goroutine asks IsMaster and queues the connection.
Accept(c) ==
    /\ pc[c] # "down"
    /\ master[c]
    /\ backlog[c] + serving[c] < MaxConn
    /\ backlog' = [backlog EXCEPT ![c] = @ + 1]
    /\ UNCHANGED <<dbVars, starts, pc, txVars, master, serving, misled>>

\* The main loop fetches it and starts a session.
Fetch(c) ==
    /\ backlog[c] > 0
    /\ backlog' = [backlog EXCEPT ![c] = @ - 1]
    /\ serving' = [serving EXCEPT ![c] = @ + 1]
    /\ UNCHANGED <<dbVars, starts, pc, txVars, master, misled>>

\* A switch closes its connection.
Disconnect(c) ==
    /\ serving[c] > 0
    /\ serving' = [serving EXCEPT ![c] = @ - 1]
    /\ UNCHANGED <<dbVars, starts, pc, txVars, master, backlog, misled>>

-----------------------------------------------------------------------------
(* Time *)

Older(n) == IF n < Horizon THEN n + 1 ELSE n

\* c takes itself for the master, or is about to.
Believes(c) == master[c] \/ (pc[c] = "return" /\ elected[c])

\* The environment assumption: a controller that relies on its row renews it
\* before the row is MaxStall ticks old, and a write is committed within
\* MaxStall ticks.  MaxStall > Expiration lets controllers, or the database,
\* be as slow as it takes.
Timely(c) ==
    /\ Believes(c) /\ row = uid(c) => rowAge < MaxStall
    /\ pc[c] = "commit" /\ written[c] => stmtAge[c] < MaxStall

Tick ==
    /\ \A c \in Controller : Timely(c)
    /\ rowAge' = IF row = NoRow THEN rowAge ELSE Older(rowAge)
    /\ stmtAge' = [c \in Controller |-> IF pc[c] = "commit" /\ written[c] THEN Older(stmtAge[c])
                                                                      ELSE stmtAge[c]]
    /\ UNCHANGED <<row, lock, gap, starts, pc, elected, written, retry, master, connVars, misled>>

Step(c) ==
    \/ Elect(c) \/ Select(c) \/ Write(c) \/ Yield(c) \/ Commit(c)
    \/ Retry(c) \/ GiveUp(c) \/ SetMaster(c)

Next ==
    \/ \E c \in Controller :
          \/ Step(c) \/ Crash(c) \/ Restart(c)
          \/ Accept(c) \/ Fetch(c) \/ Disconnect(c)
    \/ Tick

\* Observer.Run is a ticker loop and the database answers; lock waits are
\* served in turn (strong fairness for Select).  Time passes.
Fairness ==
    /\ WF_vars(Tick)
    /\ \A c \in Controller :
          WF_vars(Step(c)) /\ SF_vars(Select(c)) /\ SF_vars(Write(c))

Spec == Init /\ [][Next]_vars /\ Fairness

-----------------------------------------------------------------------------
(* Properties *)

TypeOK ==
    /\ row \in Uid \cup {NoRow}
    /\ rowAge \in 0..Horizon
    /\ lock \in SUBSET Controller /\ gap \in SUBSET Controller
    /\ starts \in [Controller -> 1..MaxStarts]
    /\ pc \in [Controller -> {"wait", "select", "decide", "commit", "return", "down"}]
    /\ elected \in [Controller -> BOOLEAN]
    /\ written \in [Controller -> BOOLEAN]
    /\ stmtAge \in [Controller -> 0..Horizon]
    /\ retry \in [Controller -> 0..MaxDeadlockRetry]
    /\ master \in [Controller -> BOOLEAN]
    /\ backlog \in [Controller -> 0..MaxConn]
    /\ serving \in [Controller -> 0..MaxConn]
    /\ \A c \in Controller : backlog[c] + serving[c] <= MaxConn
    /\ misled \in [Controller -> {"never", "now", "once"}]

\* c answers IsMaster with true, and not for what was rolled back.
Honest(c) == master[c] /\ misled[c] # "now"

\* At most one controller takes itself for the master (IsMaster), provided it
\* renews its row in time; the masters by the result of a try that was rolled
\* back, which ElectTruthful is about, are left aside while they are.
AtMostOneMaster == \A c, d \in Controller : Honest(c) /\ Honest(d) => c = d

\* The row changes hands only after the lease of its holder has run out,
\* whatever the interleaving of transactions, retries and crashes.
LeaseRespected == [][row # NoRow /\ row' # row => rowAge + Skew > Expiration]_vars

\* "elected will be true if this uid has been elected as the new master or
\* was already elected" (election.go, mysql.go): when Elect returns true, the
\* row it committed names the caller.
ElectTruthful ==
    [][\A c \in Controller :
          pc[c] = "commit" /\ pc'[c] = "return" /\ elected'[c] => row' = uid(c)]_vars

\* If a controller dies, another takes over: as long as some controller keeps
\* running, there is again and again a master whom the row names.
MasterAgain ==
    \/ []<>(\E c \in Controller : master[c] /\ row = uid(c))
    \/ []<>(\A c \in Controller : pc[c] = "down")

\* The processes that have ended, the earlier starts of a controller included.
Ended == {u \in Uid : u[2] < starts[u[1]] \/ (u[2] = starts[u[1]] /\ pc[u[1]] = "down")}

\* The row, the cached flags and the sessions of all controllers together give
\* the mandate of module Lease: it passes on only when nobody acts on it, only
\* its holder accedes and serves, and a master remains one until it ends.  Left
\* aside are the masters, and the sessions of processes, that were misled.
Mandate == INSTANCE Lease WITH
    Process <- Uid, Nobody <- NoRow, holder <- row, gone <- Ended,
    masters <- {uid(c) : c \in {d \in Controller : Honest(d)}},
    serving <- {uid(c) : c \in {d \in Controller : serving[d] > 0 /\ misled[d] = "never"}}
ImplementsLease == Mandate!Spec
=============================================================================
