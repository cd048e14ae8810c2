-------------------------------- MODULE Flow --------------------------------
(***************************************************************************)
(* src/src/reactor/flow.hh and schedule.hh: chains of continuations, the   *)
(* two runners that execute them, and the loop of engine.hh that drives    *)
(* them (events, timers, task center).                                     *)
(*                                                                         *)
(* A flow is a chain built with then(): node <<f, i>> is the i-th          *)
(* flow_implent, with the i-th function as its _act_func_.  Node           *)
(* <<f, Depth + 1>> is the flow_implent behind the last then(): if f was   *)
(* returned by a function of another chain, its _act_func_ is the lambda   *)
(* that passes the result to the next node of that chain; otherwise it has *)
(* none.  The user's functions are arbitrary: they return, throw, return   *)
(* an inner flow, or submit an independent one.                            *)
(*                                                                         *)
(* A flow lives as long as something refers to it (the shared_ptrs in      *)
(* event sources, timers, queued tasks, running functions and the nodes    *)
(* that precede it); its identity is used again after that.                *)
(***************************************************************************)
EXTENDS Naturals, Sequences

CONSTANTS
    Flow,       \* identities of flows that may live at the same time
    Depth,      \* functions chained with then() in each flow
    None        \* no node

ASSUME FlowConstants ==
    /\ Depth \in Nat \ {0}
    /\ None \notin Flow \X (1..(Depth + 1))

VARIABLES
    live,       \* the flows that have been built and not destroyed
    parent,     \* the node an inner flow reports to, or None
    runner,     \* the flow_runner of each flow
    called,     \* of each node
    value,      \* the argument a node was activated with
    runs,       \* history: how often the _act_func_ of each node was called
    tasks,      \* global_task_center::waiting_tasks
    running,    \* the first task is being executed
    budget,     \* len of global_task_center::run
    stack,      \* functions being executed, the innermost last
    pend,       \* event sources and timers that hold a flow
    phase       \* where the engine's loop is

nodeVars == <<called, value, runs>>
flowVars == <<live, parent, runner>>
vars == <<live, parent, runner, called, value, runs, tasks, running, budget,
          stack, pend, phase>>

Node == Flow \X (1..(Depth + 1))

Values == {"none", "val", "exc"}

\* How flows are built in src/: where submit() takes them, and their runner
\* after an optional to_schedule.  "io": a handler registered for an event
\* (wait_connect, send_packet, wait_packet); "both": a handler and a timer
\* (wait_packet and connect with a timeout).
Kinds == {"immediate", "io", "both"} \X {"immediate", "center"}
         \cup {<<"center", "center">>}

Sources(src) == CASE src = "io"   -> {"io"}
                  [] src = "both" -> {"io", "timer"}
                  [] OTHER        -> {}

Next1(n) == <<n[1], n[2] + 1>>

IsForward(n) == n[2] = Depth + 1

HasAct(n) == n[2] <= Depth \/ parent[n[1]] # None

Trig(n) == [kind |-> "trig", node |-> n]
Act(n)  == [kind |-> "act",  node |-> n]

Frame(n) == [node |-> n, spawned |-> FALSE]

Pop(st) == SubSeq(st, 1, Len(st) - 1)

Top == stack[Len(stack)]

OnStack(n) == \E i \in 1..Len(stack) : stack[i].node = n

\* What still refers to a flow.
Referenced(f) ==
    \/ \E i \in 1..Len(stack) : stack[i].node[1] = f
    \/ \E i \in 1..Len(tasks) : tasks[i].node[1] = f
    \/ \E p \in pend : p[1] = f
    \/ \E g \in live : parent[g] # None /\ parent[g][1] = f

(***************************************************************************)
(* flow_implent::trigge and the three forms of active: the first call      *)
(* wins.  st is the call stack that the caller leaves behind; the          *)
(* immediate runner calls the function at once, the task center queues it. *)
(***************************************************************************)
\* Mutated form: the flag is not looked at.
NeverCalled(n) == FALSE

AlreadyCalled(n) == called[n]

Trigge(n, v, st) ==
    \/ /\ AlreadyCalled(n)
       /\ stack' = st /\ UNCHANGED tasks
       /\ UNCHANGED nodeVars
    \/ /\ ~AlreadyCalled(n)
       /\ called' = [called EXCEPT ![n] = TRUE]
       /\ \/ /\ ~HasAct(n)
             /\ stack' = st /\ UNCHANGED tasks
             /\ UNCHANGED <<value, runs>>
          \/ /\ HasAct(n) /\ runner[n[1]] = "immediate"
             /\ value' = [value EXCEPT ![n] = v]
             /\ runs' = [runs EXCEPT ![n] = @ + 1]
             /\ stack' = Append(st, Frame(n)) /\ UNCHANGED tasks
          \/ /\ HasAct(n) /\ runner[n[1]] = "center"
             /\ value' = [value EXCEPT ![n] = v]
             /\ tasks' = Append(tasks, Act(n)) /\ stack' = st
             /\ UNCHANGED runs

\* at_schedule, then, to_schedule, submit: flow g is built for node p (None if
\* nobody waits for its result) and given to its source.
Submit(g, p, kind, st) ==
    /\ live' = live \cup {g}
    /\ parent' = [parent EXCEPT ![g] = p]
    /\ runner' = [runner EXCEPT ![g] = kind[2]]
    /\ pend' = pend \cup ({g} \X Sources(kind[1]))
    /\ \/ /\ kind[1] = "immediate"
          /\ called' = [called EXCEPT ![<<g, 1>>] = TRUE]
          /\ value' = [value EXCEPT ![<<g, 1>>] = "val"]
          /\ \/ /\ kind[2] = "immediate"
                /\ runs' = [runs EXCEPT ![<<g, 1>>] = @ + 1]
                /\ stack' = Append(st, Frame(<<g, 1>>))
                /\ UNCHANGED tasks
             \/ /\ kind[2] = "center"
                /\ tasks' = Append(tasks, Act(<<g, 1>>))
                /\ stack' = st
                /\ UNCHANGED runs
       \/ /\ kind[1] = "center"
          /\ tasks' = Append(tasks, Trig(<<g, 1>>))
          /\ stack' = st
          /\ UNCHANGED nodeVars
       \/ /\ kind[1] \in {"io", "both"}
          /\ stack' = st
          /\ UNCHANGED <<nodeVars, tasks>>

\* main has submitted a flow that waits for an event, then calls engine_run.
Init ==
    /\ \E f \in Flow :
        /\ live = {f}
        /\ pend = {<<f, "io">>}
    /\ parent = [f \in Flow |-> None]
    /\ runner = [f \in Flow |-> "center"]
    /\ called = [n \in Node |-> FALSE]
    /\ value = [n \in Node |-> "none"]
    /\ runs = [n \in Node |-> 0]
    /\ tasks = << >> /\ running = FALSE /\ budget = 0
    /\ stack = << >>
    /\ phase = "events"

-----------------------------------------------------------------------------
(* The function on top of the call stack. *)

\* The lambda behind an inner flow passes its result on.
Forward ==
    /\ stack # << >> /\ IsForward(Top.node)
    /\ Trigge(parent[Top.node[1]], value[Top.node], Pop(stack))
    /\ UNCHANGED <<flowVars, running, budget, pend, phase>>

\* A user's function returns or throws: the next node is activated with its
\* value or with the exception.
Finish(v) ==
    /\ stack # << >> /\ ~IsForward(Top.node)
    /\ Trigge(Next1(Top.node), v, Pop(stack))
    /\ UNCHANGED <<flowVars, running, budget, pend, phase>>

\* A user's function returns an inner flow, which is submitted at once.
FinishInner(g, kind) ==
    /\ stack # << >> /\ ~IsForward(Top.node)
    /\ g \notin live
    /\ Submit(g, Next1(Top.node), kind, Pop(stack))
    /\ UNCHANGED <<running, budget, phase>>

\* A user's function submits an independent flow and goes on; bound: once.
Spawn(g, kind) ==
    /\ stack # << >> /\ ~IsForward(Top.node)
    /\ ~Top.spawned
    /\ g \notin live
    /\ Submit(g, None, kind, Append(Pop(stack), [Top EXCEPT !.spawned = TRUE]))
    /\ UNCHANGED <<running, budget, phase>>

\* The last reference to a flow is gone and it is destroyed.
Destroy(f) ==
    /\ f \in live /\ ~Referenced(f)
    /\ live' = live \ {f}
    /\ parent' = [parent EXCEPT ![f] = None]
    /\ runner' = [runner EXCEPT ![f] = "center"]
    /\ called' = [n \in Node |-> IF n[1] = f THEN FALSE ELSE called[n]]
    /\ value' = [n \in Node |-> IF n[1] = f THEN "none" ELSE value[n]]
    /\ runs' = [n \in Node |-> IF n[1] = f THEN 0 ELSE runs[n]]
    /\ UNCHANGED <<tasks, running, budget, stack, pend, phase>>

-----------------------------------------------------------------------------
(* The engine's loop. *)

\* A handler is called for its event, with a value or with an error.
FireIo(f, v) ==
    /\ phase = "events" /\ stack = << >>
    /\ <<f, "io">> \in pend
    /\ pend' = pend \ {<<f, "io">>}
    /\ Trigge(<<f, 1>>, v, stack)
    /\ UNCHANGED <<flowVars, running, budget, phase>>

\* Time passes and a timer becomes due.
Expire(f) ==
    /\ phase = "events" /\ stack = << >>
    /\ <<f, "timer">> \in pend
    /\ pend' = (pend \ {<<f, "timer">>}) \cup {<<f, "due">>}
    /\ UNCHANGED <<flowVars, nodeVars, tasks, running, budget, stack, phase>>

StartTimers ==
    /\ phase = "events" /\ stack = << >>
    /\ phase' = "timers"
    /\ UNCHANGED <<flowVars, nodeVars, tasks, running, budget, stack, pend>>

FireTimer(f) ==
    /\ phase = "timers" /\ stack = << >>
    /\ <<f, "due">> \in pend
    /\ pend' = pend \ {<<f, "due">>}
    /\ Trigge(<<f, 1>>, "val", stack)
    /\ UNCHANGED <<flowVars, running, budget, phase>>

Length == Len(tasks)
NothingDue == \A f \in Flow : <<f, "due">> \notin pend

\* handle_timeout has fired all that was due; run() takes the list's length.
StartTasks ==
    /\ phase = "timers" /\ stack = << >>
    /\ NothingDue
    /\ phase' = "tasks" /\ budget' = Length
    /\ UNCHANGED <<flowVars, nodeVars, tasks, running, stack, pend>>

\* Mutated form of the loop's condition in run(): until the list is empty.
MoreWhileAny == tasks # << >>

More == budget > 0 /\ tasks # << >>

\* The first task is called: the submission of a flow, or a queued function.
RunTask ==
    /\ phase = "tasks" /\ stack = << >> /\ ~running
    /\ More
    /\ budget' = IF budget > 0 THEN budget - 1 ELSE 0
    /\ running' = TRUE
    /\ \/ /\ Head(tasks).kind = "trig"
          /\ Trigge(Head(tasks).node, "val", stack)
       \/ /\ Head(tasks).kind = "act"
          /\ stack' = << Frame(Head(tasks).node) >>
          /\ runs' = [runs EXCEPT ![Head(tasks).node] = @ + 1]
          /\ UNCHANGED <<called, value, tasks>>
    /\ UNCHANGED <<flowVars, pend, phase>>

\* Mutated form: the wrong end of the list is removed.
Popped == Pop(tasks)

Rest == Tail(tasks)

\* The task has returned (nothing escapes it) and is removed from the list.
PopTask ==
    /\ running /\ stack = << >>
    /\ tasks' = Rest
    /\ running' = FALSE
    /\ UNCHANGED <<flowVars, nodeVars, budget, stack, pend, phase>>

EndTasks ==
    /\ phase = "tasks" /\ stack = << >> /\ ~running
    /\ ~More
    /\ phase' = "events" /\ budget' = 0
    /\ UNCHANGED <<flowVars, nodeVars, tasks, running, stack, pend>>

-----------------------------------------------------------------------------

User ==
    \/ \E v \in {"val", "exc"} : Finish(v)
    \/ \E g \in Flow, k \in Kinds : FinishInner(g, k) \/ Spawn(g, k)

Loop ==
    \/ StartTimers \/ StartTasks \/ RunTask \/ PopTask \/ EndTasks
    \/ \E f \in Flow : FireTimer(f)

Next ==
    \/ Forward \/ User \/ Loop
    \/ \E f \in Flow : Destroy(f) \/ Expire(f) \/ FireIo(f, "val") \/ FireIo(f, "exc")

Spec == Init /\ [][Next]_vars

\* The loop runs for ever and every user's function returns; time passes, so a
\* timer that is pending in infinitely many turns becomes due.  Nothing is
\* assumed of events.
FairSpec ==
    /\ Spec
    /\ WF_vars(Loop) /\ WF_vars(Forward)
    /\ WF_vars(\E v \in {"val", "exc"} : Finish(v))
    /\ \A f \in Flow : SF_vars(Expire(f))

-----------------------------------------------------------------------------
(* Properties. *)

TypeOK ==
    /\ live \subseteq Flow
    /\ parent \in [Flow -> Node \cup {None}]
    /\ runner \in [Flow -> {"immediate", "center"}]
    /\ called \in [Node -> BOOLEAN]
    /\ value \in [Node -> Values]
    /\ runs \in [Node -> Nat]
    /\ tasks \in Seq([kind : {"trig", "act"}, node : Node])
    /\ running \in BOOLEAN
    /\ budget \in Nat
    /\ stack \in Seq([node : Node, spawned : BOOLEAN])
    /\ pend \subseteq Flow \X {"io", "timer", "due"}
    /\ phase \in {"events", "timers", "tasks"}

\* No continuation runs twice, whoever triggers it and however often: an event
\* and a timer that race for the same flow, both runners, inner flows.
RunsAtMostOnce == \A n \in Node : runs[n] <= 1

\* A node that has been triggered and has a function either ran it or is in
\* the task list: a continuation is never forgotten between the two.
NoLostContinuation ==
    \A n \in Node :
        called[n] /\ HasAct(n) =>
            runs[n] = 1 \/ \E i \in 1..Len(tasks) : tasks[i] = Act(n)

\* When the last reference to a flow goes, every function of it has run: no
\* chain is destroyed half-way, whatever throws or returns inner flows.
NoHalfDoneFlow ==
    \A f \in live :
        ~Referenced(f) => \A n \in {f} \X (1..(Depth + 1)) : HasAct(n) => runs[n] = 1

\* A chain runs in order: a function is not triggered before the one in front
\* of it has run and returned, and the result of an inner flow is not passed on
\* before its last function has run (flow.hh:308-364), whichever runners the
\* chains have and however flows are nested.
ChainInOrder ==
    /\ \A n \in Node :
        ~IsForward(n) /\ called[Next1(n)] => runs[n] = 1 /\ ~OnStack(n)
    /\ \A g \in live :
        parent[g] # None /\ called[parent[g]] => runs[<<g, Depth + 1>>] = 1

\* The first result of a race is the one the continuation sees: a later event
\* or timeout does not replace the stored argument.
FirstResultStays ==
    [][\A n \in Node : called[n] /\ n[1] \in live' => value'[n] = value[n]]_vars

\* run() is bounded by the list it found: whatever its tasks submit, the loop
\* gets back to the events.
LoopReturns == []<>(phase = "events")

\* Once triggered, a continuation runs.
TriggeredRuns ==
    \A n \in Node : called[n] /\ HasAct(n) ~> runs[n] = 1 \/ n[1] \notin live

=============================================================================
