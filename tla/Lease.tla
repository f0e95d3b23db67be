------------------------------- MODULE Lease --------------------------------
(***************************************************************************)
(* What the election promises (election.go, and "Only the master           *)
(* controller can serve the connections!" in main.go): one mandate at a    *)
(* time, which a process keeps until it ends.  There is neither a database *)
(* nor time here.                                                          *)
(***************************************************************************)
CONSTANTS
    Process,    \* controller processes; a restart is another process
    Nobody

VARIABLES
    holder,     \* who has the mandate
    masters,    \* processes that take themselves for the master
    serving,    \* processes with switch sessions
    gone        \* processes that have ended

vars == <<holder, masters, serving, gone>>

Init == holder = Nobody /\ masters = {} /\ serving = {} /\ gone = {}

\* The mandate is given to a running process if no other one acts on it.
Grant(u) ==
    /\ u \notin gone
    /\ masters \subseteq {u}
    /\ holder' = u
    /\ UNCHANGED <<masters, serving, gone>>

\* The holder learns of its mandate.
Accede(u) ==
    /\ u = holder /\ u \notin gone
    /\ masters' = masters \cup {u}
    /\ UNCHANGED <<holder, serving, gone>>

Serve(u) ==
    /\ u \in masters
    /\ serving' = serving \cup {u}
    /\ UNCHANGED <<holder, masters, gone>>

\* The last switch leaves.
Leave(u) ==
    /\ serving' = serving \ {u}
    /\ UNCHANGED <<holder, masters, gone>>

\* Only with the process its mastership ends.
End(u) ==
    /\ masters' = masters \ {u}
    /\ serving' = serving \ {u}
    /\ gone' = gone \cup {u}
    /\ UNCHANGED holder

Next == \E u \in Process : Grant(u) \/ Accede(u) \/ Serve(u) \/ Leave(u) \/ End(u)

Spec == Init /\ [][Next]_vars
=============================================================================
