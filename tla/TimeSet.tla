------------------------------- MODULE TimeSet -------------------------------
(***************************************************************************)
(* src/src/timer/time_set.hh: one-shot timers in a priority queue, fired   *)
(* by handle_timeout(now_tick()), which the engine's loop calls in every   *)
(* turn.                                                                   *)
(*                                                                         *)
(* handle_timeout calls the callback of the top entry and removes the top  *)
(* entry only after the callback has returned.  A callback may add timers, *)
(* and now_tick() is gettimeofday, which the administrator or a time       *)
(* daemon may set back at any moment.                                      *)
(***************************************************************************)
EXTENDS Integers, FiniteSets

CONSTANTS
    Timer,      \* identities of timer_obj
    Delays,     \* the delays callers ask for, in ms
    MaxClock,   \* bound: the clock and the deadlines stay below it
    None        \* no timer

ASSUME TimerConstants ==
    /\ Delays \subseteq Nat
    /\ MaxClock \in Nat
    /\ None \notin Timer

VARIABLES
    clock,      \* what gettimeofday returns, in ms
    timestamp,  \* of each timer that has been added
    heap,       \* the timers in _q
    root,       \* _q.top(), None if the queue is empty
    pc,         \* "idle", or inside handle_timeout: "scan", "callback"
    now,        \* the argument of handle_timeout
    added,      \* history: timers ever added
    fired,      \* history: how often each callback was called
    fresh,      \* history: timers added with a delay during this handle_timeout
    stepped     \* history: the clock has been set back

vars == <<clock, timestamp, heap, root, pc, now, added, fired, fresh, stepped>>

\* The entries that may be on top of a heap with entries h: std::pop_heap
\* breaks ties by position, which callers cannot see.
Tops(h) == {t \in h : \A u \in h : timestamp[t] <= timestamp[u]}

Init ==
    /\ clock = 0 /\ now = 0
    /\ timestamp = [t \in Timer |-> 0]
    /\ heap = {} /\ root = None
    /\ pc = "idle"
    /\ added = {} /\ fresh = {}
    /\ fired = [t \in Timer |-> 0]
    /\ stepped = FALSE

-----------------------------------------------------------------------------
(* The clock. *)

Tick ==
    /\ clock < MaxClock
    /\ clock' = clock + 1
    /\ UNCHANGED <<timestamp, heap, root, pc, now, added, fired, fresh, stepped>>

\* Once, to keep the model small; one step back already shows what it does.
StepBack ==
    /\ ~stepped /\ clock > 0
    /\ clock' \in 0..(clock - 1)
    /\ stepped' = TRUE
    /\ UNCHANGED <<timestamp, heap, root, pc, now, added, fired, fresh>>

-----------------------------------------------------------------------------
(* add_timer, from the loop's other callbacks or from a timer's callback. *)

\* Mutated form: timer_obj::operator< with >= for >.
DisplacesOnTie(ts) == root = None \/ timestamp[root] >= ts

\* Mutated form: the entry is pushed at the end without std::push_heap.
DisplacesNone(ts) == root = None

\* std::push_heap moves the new entry above its parent only if the parent is
\* less, that is, if the parent's timestamp is greater.
Displaces(ts) == root = None \/ timestamp[root] > ts

ComputeTimestamp(delay) == clock + delay

AddTimer(t, delay) ==
    /\ pc \in {"idle", "callback"}
    /\ t \notin added
    /\ clock + delay <= MaxClock
    /\ timestamp' = [timestamp EXCEPT ![t] = ComputeTimestamp(delay)]
    /\ heap' = heap \cup {t}
    /\ root' = IF Displaces(ComputeTimestamp(delay)) THEN t ELSE root
    /\ added' = added \cup {t}
    /\ fresh' = IF pc = "callback" /\ delay > 0 THEN fresh \cup {t} ELSE fresh
    /\ UNCHANGED <<clock, pc, now, fired, stepped>>

-----------------------------------------------------------------------------
(* handle_timeout. *)

HandleTimeout ==
    /\ pc = "idle"
    /\ pc' = "scan"
    /\ now' = clock
    /\ fresh' = {}
    /\ UNCHANGED <<clock, timestamp, heap, root, added, fired, stepped>>

\* Mutated form: the clock is read again for every timer.
DueByClock == heap # {} /\ timestamp[root] <= clock

\* The loop's condition: the top entry is due.
Due == heap # {} /\ timestamp[root] <= now

\* The callback of the top entry is called.
Fire ==
    /\ pc = "scan" /\ Due
    /\ fired' = [fired EXCEPT ![root] = @ + 1]
    /\ pc' = "callback"
    /\ UNCHANGED <<clock, timestamp, heap, root, now, added, fresh, stepped>>

\* The callback has returned: the entry that is now on top is removed.
Pop ==
    /\ pc = "callback"
    /\ heap' = heap \ {root}
    /\ IF heap' = {} THEN root' = None ELSE root' \in Tops(heap')
    /\ pc' = "scan"
    /\ UNCHANGED <<clock, timestamp, now, added, fired, fresh, stepped>>

Return ==
    /\ pc = "scan" /\ ~Due
    /\ pc' = "idle"
    /\ UNCHANGED <<clock, timestamp, heap, root, now, added, fired, fresh, stepped>>

-----------------------------------------------------------------------------

Handle == HandleTimeout \/ Fire \/ Pop \/ Return

Next ==
    \/ Tick \/ StepBack
    \/ \E t \in Timer, d \in Delays : AddTimer(t, d)
    \/ Handle

Spec == Init /\ [][Next]_vars

\* The loop calls handle_timeout for ever and callbacks return; time passes.
FairSpec == Spec /\ WF_vars(Handle) /\ WF_vars(Tick)

-----------------------------------------------------------------------------
(* Properties. *)

TypeOK ==
    /\ clock \in Nat /\ now \in Nat
    /\ timestamp \in [Timer -> Nat]
    /\ heap \subseteq Timer /\ added \subseteq Timer /\ fresh \subseteq Timer
    /\ root \in Timer \cup {None}
    /\ pc \in {"idle", "scan", "callback"}
    /\ fired \in [Timer -> Nat]
    /\ stepped \in BOOLEAN

\* As long as the clock is not set back, no callback is called twice: the entry
\* removed after a callback is the one that was called, although the callback
\* may have added timers that were due at once.
FiresOnce == ~stepped => \A t \in Timer : fired[t] <= 1

\* ... and no timer is lost: it is in the queue until its callback is called.
NotLost == ~stepped => \A t \in added : t \in heap \/ fired[t] = 1

\* A timer added with a delay from a callback waits for the next turn of the
\* loop, even if time passes meanwhile: a callback that re-arms itself cannot
\* keep handle_timeout from returning.
NextTurn == [][\A t \in fresh : fired'[t] = fired[t] \/ stepped]_vars

\* handle_timeout leaves nothing on the queue that was due when it was called,
\* timers that its callbacks added included, and even if the clock was set back.
NothingDueLeft ==
    [][pc = "scan" /\ pc' = "idle" => \A t \in heap : timestamp[t] > now]_vars

\* Every timer fires (if the clock is not set back).
EveryTimerFires ==
    \A t \in Timer : t \in added ~> fired[t] > 0 \/ stepped

=============================================================================
