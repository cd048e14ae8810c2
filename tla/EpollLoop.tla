------------------------------ MODULE EpollLoop ------------------------------
(***************************************************************************)
(* src/src/epoll/task_proc.hh, run_at: the event loop of the epoll engine. *)
(* A turn handles the timers that are due, works out from the next timer   *)
(* how long it may sleep, runs the task center (epoll/global/              *)
(* global_task_center.hh) and then waits in epoll_wait.  Timer callbacks,  *)
(* tasks and event handlers may add timers and queue tasks.                *)
(*                                                                         *)
(* The timers are a set here: module TimeSet has the heap and the order of *)
(* its operations.  Tasks are counted: module Flow has their order.        *)
(***************************************************************************)
EXTENDS Integers, FiniteSetsExt

CONSTANTS
    Timer,      \* timers that may be pending together
    Delays,     \* delays that programs ask for, in ms, at least one
    MaxClock,   \* bound: time at which the last timers are due
    MaxTasks,   \* bound: length of the task list
    IntLimit    \* 2^31, the first value a C int does not have

ASSUME EpollConstants ==
    /\ Delays \subseteq Nat \ {0}
    /\ MaxClock \in Nat /\ MaxTasks \in Nat
    /\ IntLimit \in Nat \ {0}

VARIABLES
    clock,      \* now_tick()
    timestamp,  \* when each timer is due, or Unset
    tasks,      \* number of waiting_tasks
    phase,      \* where the loop is
    inUser,     \* a callback, a task or a handler is being executed
    now,        \* argument of handle_timeout, and then of nearest_delay
    len,        \* len of epoll_global_task_center::run
    wait_timer, \* argument of epoll_wait
    since,      \* when epoll_wait was called
    unseen      \* timers added since nearest_delay in this turn

vars == <<clock, timestamp, tasks, phase, inUser, now, len, wait_timer, since, unseen>>

Unset == -1

Pending == {t \in Timer : timestamp[t] # Unset}

Init ==
    /\ clock = 0
    /\ timestamp = [t \in Timer |-> Unset]
    /\ tasks \in 0..MaxTasks
    /\ phase = "turn" /\ inUser = FALSE
    /\ now = 0 /\ len = 0 /\ wait_timer = 0 /\ since = 0
    /\ unseen = {}

-----------------------------------------------------------------------------
(* Time, and what the code of the programs does. *)

\* Time passes at any moment; beyond MaxClock only during the sleep, so that a
\* sleep that began before it can end.
Tick ==
    /\ clock < IF phase = "sleep" THEN 2 * MaxClock ELSE MaxClock
    /\ clock' = clock + 1
    /\ UNCHANGED <<timestamp, tasks, phase, inUser, now, len, wait_timer, since, unseen>>

AddTimer(t, d) ==
    /\ inUser
    /\ timestamp[t] = Unset /\ clock + d <= MaxClock
    /\ timestamp' = [timestamp EXCEPT ![t] = clock + d]
    /\ unseen' = IF phase = "tasks" THEN unseen \cup {t} ELSE unseen
    /\ UNCHANGED <<clock, tasks, phase, inUser, now, len, wait_timer, since>>

AddTask ==
    /\ inUser
    /\ tasks < MaxTasks
    /\ tasks' = tasks + 1
    /\ UNCHANGED <<clock, timestamp, phase, inUser, now, len, wait_timer, since, unseen>>

Return ==
    /\ inUser
    /\ inUser' = FALSE
    /\ UNCHANGED <<clock, timestamp, tasks, phase, now, len, wait_timer, since, unseen>>

-----------------------------------------------------------------------------
(* The loop. *)

HandleTimeout ==
    /\ phase = "turn"
    /\ phase' = "timers" /\ now' = clock
    /\ UNCHANGED <<clock, timestamp, tasks, inUser, len, wait_timer, since, unseen>>

DueNow == {t \in Pending : timestamp[t] <= now}

Fire(t) ==
    /\ phase = "timers" /\ ~inUser
    /\ t \in DueNow
    /\ \A u \in DueNow : timestamp[t] <= timestamp[u]
    /\ timestamp' = [timestamp EXCEPT ![t] = Unset]
    /\ inUser' = TRUE
    /\ UNCHANGED <<clock, tasks, phase, now, len, wait_timer, since, unseen>>

\* Mutated form: the heap has the latest timer on top.
Latest(S) == Max(S)

Top(S) == Min(S)

\* time_set::nearest_delay for a set of timers that is not empty.
NearestDelay(n) ==
    LET tic == Top({timestamp[t] : t \in Pending})
    IN  IF tic <= n THEN 0 ELSE tic - n

\* static_cast<int> of an unsigned 64-bit number.
ToInt(x) == ((x + IntLimit) % (2 * IntLimit)) - IntLimit

ComputeWait ==
    /\ phase = "timers" /\ ~inUser /\ DueNow = {}
    /\ now' = clock
    /\ wait_timer' = IF Pending = {} THEN -1 ELSE ToInt(NearestDelay(clock))
    /\ unseen' = {}
    /\ phase' = "tasks" /\ len' = tasks
    /\ UNCHANGED <<clock, timestamp, tasks, inUser, since>>

More == len > 0 /\ tasks > 0

RunTask ==
    /\ phase = "tasks" /\ ~inUser /\ More
    /\ len' = len - 1 /\ tasks' = tasks - 1
    /\ inUser' = TRUE
    /\ UNCHANGED <<clock, timestamp, phase, now, wait_timer, since, unseen>>

\* Mutated form: tasks that are left do not keep the loop from sleeping.
KeepsWait == wait_timer

WaitUnlessTasks == IF tasks > 0 THEN 0 ELSE wait_timer

EpollWait ==
    /\ phase = "tasks" /\ ~inUser /\ ~More
    /\ wait_timer' = WaitUnlessTasks
    /\ since' = clock
    /\ phase' = "sleep"
    /\ UNCHANGED <<clock, timestamp, tasks, inUser, now, len, unseen>>

\* epoll_wait returns without events; a negative argument means for ever.
WakeByTime ==
    /\ phase = "sleep"
    /\ wait_timer >= 0 /\ clock >= since + wait_timer
    /\ phase' = "turn"
    /\ UNCHANGED <<clock, timestamp, tasks, inUser, now, len, wait_timer, since, unseen>>

\* epoll_wait returns an event, or the loop goes on to the next one it returned.
Event ==
    /\ phase \in {"sleep", "events"} /\ ~inUser
    /\ phase' = "events" /\ inUser' = TRUE
    /\ UNCHANGED <<clock, timestamp, tasks, now, len, wait_timer, since, unseen>>

EndEvents ==
    /\ phase = "events" /\ ~inUser
    /\ phase' = "turn"
    /\ UNCHANGED <<clock, timestamp, tasks, inUser, now, len, wait_timer, since, unseen>>

User == AddTask \/ \E t \in Timer, d \in Delays : AddTimer(t, d)

Loop == \/ HandleTimeout \/ ComputeWait \/ RunTask \/ EpollWait \/ WakeByTime \/ EndEvents
        \/ \E t \in Timer : Fire(t)

Next == Tick \/ User \/ Return \/ Loop \/ Event

Spec == Init /\ [][Next]_vars

\* The thread is scheduled, functions return and time goes on.  No event need
\* ever come, and a batch of events is finite.
FairSpec == Spec /\ WF_vars(Loop) /\ WF_vars(Return) /\ WF_vars(Tick) /\ SF_vars(EndEvents)

-----------------------------------------------------------------------------

TypeOK ==
    /\ clock \in 0..(2 * MaxClock)
    /\ timestamp \in [Timer -> 0..MaxClock \cup {Unset}]
    /\ tasks \in 0..MaxTasks
    /\ phase \in {"turn", "timers", "tasks", "sleep", "events"}
    /\ inUser \in BOOLEAN
    /\ now \in 0..(2 * MaxClock) /\ since \in 0..(2 * MaxClock)
    /\ len \in 0..MaxTasks
    /\ wait_timer \in -IntLimit..(IntLimit - 1)
    /\ unseen \subseteq Timer

(***************************************************************************)
(* The loop does not sleep past a timer by more than the time that the     *)
(* tasks of this turn took, except past the timers that these tasks added  *)
(* (task_proc.hh:43-50: nearest_delay is called before run) and past those *)
(* that are too far away for an int.                                       *)
(***************************************************************************)
SleepBounded ==
    phase = "sleep" =>
        \A t \in Pending \ unseen :
            timestamp[t] - now < IntLimit =>
                /\ wait_timer >= 0
                /\ since + wait_timer <= Max({timestamp[t], now}) + (since - now)

(***************************************************************************)
(* A timer that a callback or an event handler adds fires, without any     *)
(* event, if its delay fits an int.  (For timers that tasks add this is    *)
(* not so: the loop may be in epoll_wait(-1).)                             *)
(***************************************************************************)
SeenTimerFires ==
    \A t \in Timer :
        (/\ phase \in {"timers", "events"} /\ t \in Pending
         /\ timestamp[t] - clock < IntLimit) ~> (t \notin Pending)

(***************************************************************************)
(* A queued task does not wait for an event: the loop polls with timeout 0 *)
(* while the list is not empty (task_proc.hh:48-49).                       *)
(***************************************************************************)
QueuedTaskRuns == (tasks > 0) ~> (phase = "tasks" /\ inUser)

=============================================================================
