---------------------------- MODULE TcpConnector ----------------------------
(***************************************************************************)
(* src/src/dpdk/net/tcp_connector.hh: connect() opens a socket, registers  *)
(* for its write event and starts a timer; what comes first, the event or  *)
(* the timer, triggers the flow of the caller with a session or with the   *)
(* timeout.  Several attempts run on one event loop (engine.hh).           *)
(*                                                                         *)
(* The flow of an attempt is submitted where connect() is called, as in    *)
(* all callers, so that no event can come in between.                      *)
(***************************************************************************)
EXTENDS Naturals, FiniteSets

CONSTANTS
    Attempt     \* calls of connect

ASSUME ConnectorConstants == IsFiniteSet(Attempt)

VARIABLES
    sock,       \* the socket: "none", "connecting", "up", "refused" or "closed"
    filter,     \* whose callback its write filter has: "none", "connector", "session"
    called,     \* sp_flow->called()
    result,     \* what the flow was triggered with
    timer,      \* "off", "set", "due" or "done"
    batch,      \* events of the poll that wait for their callback
    phase       \* where the loop is; "dead" when an exception left it

vars == <<sock, filter, called, result, timer, batch, phase>>

Init ==
    /\ sock = [a \in Attempt |-> "none"]
    /\ filter = [a \in Attempt |-> "none"]
    /\ called = [a \in Attempt |-> FALSE]
    /\ result = [a \in Attempt |-> "none"]
    /\ timer = [a \in Attempt |-> "off"]
    /\ batch = {}
    /\ phase = "stack"

\* flow_implent::trigge: only the first call counts.
Trigge(a, r) ==
    /\ called' = [called EXCEPT ![a] = TRUE]
    /\ result' = IF called[a] THEN result ELSE [result EXCEPT ![a] = r]

-----------------------------------------------------------------------------
(* connect(), called by a task. *)

\* ff_connect fails at once: the flow throws.  The socket is left as it is.
ConnectFails(a) ==
    /\ phase = "tasks" /\ sock[a] = "none"
    /\ sock' = [sock EXCEPT ![a] = "refused"]
    /\ Trigge(a, "error")
    /\ UNCHANGED <<filter, timer, batch, phase>>

\* EINPROGRESS, or a connection that is there at once.
Connect(a) ==
    /\ phase = "tasks" /\ sock[a] = "none"
    /\ sock' = [sock EXCEPT ![a] = "connecting"]
    /\ filter' = [filter EXCEPT ![a] = "connector"]
    /\ timer' = [timer EXCEPT ![a] = "set"]
    /\ UNCHANGED <<called, result, batch, phase>>

-----------------------------------------------------------------------------
(* The stack, between two turns of the loop, and time. *)

Answer(a, s) ==
    /\ phase = "stack" /\ sock[a] = "connecting"
    /\ sock' = [sock EXCEPT ![a] = s]
    /\ UNCHANGED <<filter, called, result, timer, batch, phase>>

\* handle_timeout takes the time once, so what falls due during it counts as later.
Expire(a) ==
    /\ phase \notin {"timers", "dead"} /\ timer[a] = "set"
    /\ timer' = [timer EXCEPT ![a] = "due"]
    /\ UNCHANGED <<sock, filter, called, result, batch, phase>>

-----------------------------------------------------------------------------
(* The loop. *)

Poll ==
    /\ phase = "stack"
    /\ batch' = {a \in Attempt : filter[a] = "connector" /\ sock[a] \in {"up", "refused"}}
    /\ phase' = "events"
    /\ UNCHANGED <<sock, filter, called, result, timer>>

DeleteFilter(f, a) == [f EXCEPT ![a] = "none"]
AddFilter(f, a)    == [f EXCEPT ![a] = "session"]

\* Mutated form: the connector removes the filter after it has called the handler.
RemovedLast(f, a) == DeleteFilter(AddFilter(f, a), a)

\* The connector removes its filter; the session that is made then adds its own.
HandedOver(f, a) == AddFilter(DeleteFilter(f, a), a)

\* Mutated form: available() is not asked.
AvailableAlways(a) == TRUE

Available(a) == ~called[a]

\* The callback of a socket that is up.
OnUp(a) ==
    /\ phase = "events" /\ a \in batch /\ sock[a] = "up"
    /\ batch' = batch \ {a}
    /\ \/ /\ Available(a)
          /\ filter' = HandedOver(filter, a)
          /\ Trigge(a, "session")
       \/ /\ ~Available(a)
          /\ filter' = DeleteFilter(filter, a)
          /\ UNCHANGED <<called, result>>
    /\ UNCHANGED <<sock, timer, phase>>

\* EV_EOF.  The handler rethrows the exception it is given instead of passing it
\* to the flow, out of the callback and of the loop.
OnRefused(a) ==
    /\ phase = "events" /\ a \in batch /\ sock[a] = "refused"
    /\ filter' = DeleteFilter(filter, a)
    /\ sock' = [sock EXCEPT ![a] = "closed"]
    /\ batch' = batch \ {a}
    /\ phase' = IF Available(a) THEN "dead" ELSE phase
    /\ UNCHANGED <<called, result, timer>>

StartTimers ==
    /\ phase = "events" /\ batch = {}
    /\ phase' = "timers"
    /\ UNCHANGED <<sock, filter, called, result, timer, batch>>

OnTimer(a) ==
    /\ phase = "timers" /\ timer[a] = "due"
    /\ timer' = [timer EXCEPT ![a] = "done"]
    /\ Trigge(a, "timeout")
    /\ UNCHANGED <<sock, filter, batch, phase>>

\* Mutated form: timers that are due may be left for later.
AnyTime == TRUE

NoneDue == \A a \in Attempt : timer[a] # "due"

StartTasks ==
    /\ phase = "timers" /\ NoneDue
    /\ phase' = "tasks"
    /\ UNCHANGED <<sock, filter, called, result, timer, batch>>

EndTasks ==
    /\ phase = "tasks"
    /\ phase' = "stack"
    /\ UNCHANGED <<sock, filter, called, result, timer, batch>>

\* The process is gone.
Dead == phase = "dead" /\ UNCHANGED vars

Loop == \/ Poll \/ StartTimers \/ StartTasks \/ EndTasks
        \/ \E a \in Attempt : OnUp(a) \/ OnRefused(a) \/ OnTimer(a)

Next == \/ Loop \/ Dead
        \/ \E a \in Attempt : \/ ConnectFails(a) \/ Connect(a) \/ Expire(a)
                              \/ \E s \in {"up", "refused"} : Answer(a, s)

Spec == Init /\ [][Next]_vars

\* ff_run goes on with the loop, and time passes.
FairSpec == Spec /\ WF_vars(Loop) /\ \A a \in Attempt : SF_vars(Expire(a))

-----------------------------------------------------------------------------

TypeOK ==
    /\ sock \in [Attempt -> {"none", "connecting", "up", "refused", "closed"}]
    /\ filter \in [Attempt -> {"none", "connector", "session"}]
    /\ called \in [Attempt -> BOOLEAN]
    /\ result \in [Attempt -> {"none", "session", "timeout", "error"}]
    /\ \A a \in Attempt : called[a] <=> result[a] # "none"
    /\ timer \in [Attempt -> {"off", "set", "due", "done"}]
    /\ batch \subseteq Attempt
    /\ phase \in {"stack", "events", "timers", "tasks", "dead"}

(***************************************************************************)
(* Who looks after a socket that is open: the connector, which still gets  *)
(* its event, or the session.  Nobody does only after ff_connect failed at *)
(* once or after a timeout, where the code closes nothing                  *)
(* (tcp_connector.hh:53-56, 71-75).                                        *)
(***************************************************************************)
OpenSocketAccounted ==
    \A a \in Attempt : sock[a] \in {"connecting", "up", "refused"} =>
        \/ filter[a] = "connector"
        \/ filter[a] = "session" /\ sock[a] = "up" /\ result[a] = "session"
        \/ result[a] \in {"error", "timeout"}

(***************************************************************************)
(* A session is made if and only if the caller gets it, however the event, *)
(* the timer and the deletion of the filter are ordered: a caller that was *)
(* told of a timeout has no session behind its back, and one that has a    *)
(* session has the write filter the session relies on.                     *)
(***************************************************************************)
SessionIffDelivered ==
    \A a \in Attempt : filter[a] = "session" <=> result[a] = "session"

(***************************************************************************)
(* Every attempt is answered, at the latest by its timer                   *)
(* (tcp_connector.hh:91-93), unless a refused connection has ended the     *)
(* loop (tcp_connector.hh:50-51, 87).                                      *)
(***************************************************************************)
EveryAttemptAnswered ==
    \A a \in Attempt : (sock[a] # "none") ~> (called[a] \/ phase = "dead")

=============================================================================
