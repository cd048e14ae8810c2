# A TLA+ model of pump

pump is a C++17 framework for servers: programs are chains of continuations
("flows") that one thread per core runs from an event loop, on top of F-Stack
(FreeBSD's TCP on DPDK) or of epoll. The repository also holds the programs
built on it: an echo server, an MQTT server and a Redis agent. This directory
models the framework's core, the echo server, the MQTT server and the Redis
agent's connection to a Redis server, checks them with TLC and proves the central
safety properties with TLAPS. The repository's own code is about 6,000 lines
(`src/`, `app/`); everything under `3rd/` is vendored (FreeBSD, DPDK, F-Stack) and
appears in the models only as the calls that the own code makes.

## 1. The system

| part | source | state | operations | what makes it correct |
|---|---|---|---|---|
| flows and runners | `reactor/flow.hh`, `reactor/schedule.hh` | per node: `called`, `_act_func_`, `_value_`, runner; the task center's list | `then`, `to_schedule`, `submit`, `trigge`, `active`, `run` | a continuation runs at most once and is not forgotten, with the first result; the loop stays responsive |
| timers | `timer/time_set.hh` | a heap of deadlines and callbacks | `add_timer`, `handle_timeout`, `nearest_delay` | each timer fires once, none is lost, none starves the loop |
| engine loop | `dpdk/engine.hh` | events of a batch | poll, dispatch, timers, tasks; start of the processes | every source is served in every turn |
| listener | `dpdk/net/tcp_listener.hh` | `waiting_tasks`, `waiting_connections` | `schedule`, event callback | sessions and callers are paired in order and at once |
| session | `dpdk/net/tcp_session.hh`, `net/unsent_data.hh`, `common/packet_buffer.hh` | `state`, the two lists of handlers, ring buffer, write filter | `wait_packet`, `send_packet`, `close`, `on_recv_event`, `on_send_event` | streams arrive and leave intact; nobody waits for what is there; write events are armed when needed |
| connector | `dpdk/net/tcp_connector.hh` | a flow, an event, a timer | `connect` | one result; no descriptor left open |
| channel | `dpdk/channel/dpdk_channel.hh` | rings between cores, waiting flows | `send_msg`, `wait_msg`, `pull_msg` | messages neither lost nor leaked |
| epoll engine | `epoll/` | edge-triggered session, poller, task loop | as above | no wake-up is missed |
| echo server | `app/echo/main.cc` | one chain per session | `echo_proc` | sends back what it gets |
| MQTT server | `app/mqtt/` | per session: where its chain is, the lengths being decoded, the packet a handler has; for all: sessions by id, subscribers by topic | packet reader, packet constructors, handlers, `subscribe`, `unsubscribe` | a chain goes on once and ends with its session; requests are done as a whole; a silent peer is dropped |
| Redis agent | `app/redis_agent/` | queues of commands, RESP decoder, hash ring | command, reply, decode | replies go to their commands |

How they interact: the listener's and the session's event callbacks are called
by the engine loop; they call `trigge` on flows, which run the continuation at
once (immediate runner) or queue it in the task center; continuations call back
into the session (`wait_packet`, `send_packet`, `close`), the listener
(`wait_connect`) and the timers (`wait_packet` with a timeout). Nothing in the
single-core part is preempted. What is hard is the order: events of one batch,
timers and tasks that meet in one turn, functions that run inside the handler
that called them, lists that change while they are walked, handlers left behind
by timeouts, a session that is closed under its own loop.

`PROJECT.json` lists all parts under "components", with the ones that are not
modelled and why, and under "hazards" the places where the code is exposed. Where
a hazard is what the code does and no text of the repository promises otherwise, the
properties exempt the case and bound the rest; the note of the hazard then says that
they do not catch it.

## 2. The modules

* **`Rendezvous`**: abstract specification of a listener, and of a Redis session's
  commands and replies: the k-th caller gets the k-th session (the k-th command the
  k-th reply), at the step at which the second of the two arrives.
* **`TcpListener`**: the listener with the accept loop of the programs
  (`wait_connect_proc`) and the part of the engine loop that drives both.
  `Schedule` is `tcp_listener::schedule`, `OnAccept` one iteration of the
  callback's loop, `OnEof` its other branch, `RunServed` and `RunAgain` the two
  functions of `wait_connect_proc`. A failed `ff_accept` (external) yields a
  session on a bad descriptor, as in the code. `ImplementsRendezvous` is the
  refinement, with `offered` mapped to the number of sessions constructed.
* **`TimeSet`**: `time_set`. `AddTimer` may happen between and during
  callbacks; `Fire` and `Pop` are the two halves of an iteration, because the
  callback runs before `pop()`. Ties on the heap are broken arbitrarily, except
  that a new entry moves above the top only if it is strictly earlier, which is
  what `std::push_heap` guarantees and the code needs.
* **`Flow`**: chains of continuations. A node is a `flow_implent`; the call
  stack is explicit, so that the immediate runner nests functions and the task
  center does not. `Trigge` is `trigge` and the three forms of `active`; `Submit`
  is `at_schedule` ... `submit`; `Finish`, `FinishInner` and `Forward` are the
  branches of `assemble_act_func_`; `RunTask`, `PopTask`, `More` are
  `global_task_center::run`. Functions of the user are arbitrary. `Destroy`
  frees a flow that nothing refers to, so that its identity can be used again
  and behaviours are not bounded in the number of flows.
* **`TcpSession`**: one session with its socket. The ring buffer is modelled
  with its memory: `Fill` writes where `ff_read` is told to write, `Peek` reads
  where the program reads. The loops of `on_recv_event` and `on_send_event` are
  `frame`; the program's function that a handler has called is `turn`. The
  application does anything (wait for any length with or without timeout, on
  either runner, send, consume, close), with one restriction that all programs
  in the repository obey: one reader per session, which waits again only when
  its previous wait is over. F-Stack is external: it changes the socket only
  between two turns of the loop, events are level-triggered, `EV_EOF` is
  reported after the peer's FIN even if data is unread, `ff_read` of 0 bytes
  returns 0, `ff_write` accepts any part that fits.
* **`EchoServer`** extends `TcpSession` with `echo_proc` in place of the
  arbitrary application: one action per function of the chain.
* **`TcpConnector`**: several calls of `connect` on one loop. `OnUp` and
  `OnRefused` are the two branches of the connector's callback, with the handler
  that the flow installed (it rethrows an exception, which leaves the loop:
  phase "dead"); `OnTimer` is the timer of the attempt. `filter` says whose
  callback the kqueue filter of the socket has.
* **`EngineStart`**: `wait_engine_initialled`, run by one process per core. Each
  call of DPDK is a step, as the processes run beside each other and share its
  memory. `Others` is the mask with the width of its operand. `early` is a
  history variable: which searches met a core between its two creations.
* **`EpollLoop`**: `run_at`, the loop of the epoll engine, with `nearest_delay`,
  the cut to `int` (`ToInt`) and the task center. The timers are a set, as
  `TimeSet` has the heap; callbacks, tasks and handlers add timers and tasks.
  Delays are at least 1 ms: with 0 a callback that re-arms itself is due again
  in the same call of `handle_timeout` (`TimeSet` has that case).
* **`RespLines`**: the part of `decode` that needs no recursion, as operators, one per
  function of the class: lines, and bulks for the size that `strtol` gives. Theorems are
  about this module.
* **`RespDecoder`** extends it with `strtol`, the arrays and the choice between the types.
  `Encode` is the reference grammar. The module is recursive, so for TLC only.
* **`RedisSession`**: `redis_session`, with the decoder as a parameter. `Receive` puts a
  segment of a stream of replies into the buffer, `DecodeAndUpdateReply` is the function
  of that name and what `read_proc` makes of its result, `SendCommand` is `send_command`
  from the point where its bytes are sent. `left` is the byte behind the received ones,
  which the decoder may read. `RepliesImplementRendezvous` is a refinement, with `sent`
  for `asked` and `decoded` for `offered`.
* **`RedisDecoding`**: the two together, the session reading with the decoder of
  `RespDecoder` (the cfg of the run gives it as the parameter), and what `decode` makes of every cut.
* **`Subscriptions`**: abstract specification of a broker's subscriptions: a relation
  between topics and clients, and for each session at most one request, done in one
  step.
* **`TopicCache`**: `mqtt_topic.hh` on the table of `cache.hh`. Keys are hash codes,
  as `operator==` compares nothing else.
* **`MqttServer`** extends it with the chain of a session. `ReadCommand`,
  `ReadRemaining` and `Dispatch` are the functions of `mqtt_session.hh` and the
  switches of `mqtt_proc.hh`; `BuildConnect`, `BuildPublish` and `BuildTopics` are the
  constructors of `mqtt_packet.hh` by the number of bytes they take from the ring
  buffer, and `Overrun` is a constructor that wants more than there are. `Submit`
  and `Hop` are the two queueings of `make_task_flow`, `Handle` the four handlers,
  `Sent` and `SendFails` the end of the reply, `GoOn` and `GiveUp` the last function of
  the chain. Of the session below it uses what the run `session` shows: waits are served inside
  the event that satisfies them or time out, and a session that is closed tells
  nobody (`TcpCloses`), unless a write event of the session lies behind the closing one
  in the same batch: `on_send_event` then fails the reply that waits (the second
  outcome of `SendFails`). A reply that is queued after the close waits for ever.
  The handlers call `pump::reactor::make_task_flow` (as does `keep_doing.hh`), which
  only the unused `bak/flow.hh` defines, so that `app/mqtt` does not compile as it
  stands; the model takes `pump::dpdk::global::make_task_flow`
  (`dpdk/global/global_task_center.hh`) for it. `Abstract` is the refinement mapping to `Subscriptions`:
  `subs` are the pairs of code and client with a count above 0, `pending` the packets
  that a handler has not done.
* **`MC*`**: instances for TLC, where a cfg file alone does not give them. **`*Proofs`**: theorems.

Operators whose comment begins with "Mutated form" are not part of the
specification: each is a plausible wrong version of the definition after it, and
"mutants" in `PROJECT.json` says which property detects it.

## 3. The runs

| run | bounds | what it shows |
|---|---|---|
| `listener` | 2 accept loops, 4 connections, 6 sessions, 2 descriptors | accept loops conserved, refinement of `Rendezvous`, every connection handled unless an accept failed. Two loops and four connections make both lists grow and empty; two descriptors make accepts fail, and sessions that close give them back. |
| `timers` | 3 timers, delays 0..2, clock to 4 | once, nothing due left behind, next turn, every timer fires; ties, zero delays, timers added in callbacks and one step back of the clock all occur. |
| `flow` | 2 flows at a time, 2 functions each | at most once, no chain destroyed half-way, functions in order, first result stays, the loop returns to the events, triggered functions run. Two flows give an inner flow in a chain, or two independent chains, again and again. |
| `session` | ring of 2, send buffer of 1, 3 bytes in, 2 out in packets of 1 or 2, 2 waits for 0 or 2 bytes, both runners | see section 1; the ring wraps and fills, packets are split or find the send buffer full, handlers time out and stay in the list. |
| `echo` | ring of 3, send buffer of 2, 5 bytes in, 4 waits | the chain never forks or dies, no empty packet, input echoed unless overrun, every byte answered or the session ended. |
| `echo_overrun` | as `echo` | **violation**: section 5. |
| `engine_start` | 3 cores, the primary's beyond the width of the mask's operand (2 bits for 32), 2 rounds of the search | rings complete, pools missing only in the window, no two processes give up on each other. |
| `epoll_loop` | 2 timers, delays 1 and 4, clock to 5, 2 tasks, `int` up to 2 | sleeps are bounded, timers seen by `nearest_delay` fire, queued tasks run. Delay 4 does not fit the int, 1 does. |
| `connector` | 3 attempts | sockets accounted for, sessions exactly for callers that have them, every attempt answered. Attempts meet in one batch and one of them may end the loop. |
| `redis` | 226 replies first: every kind, bulks of up to 3 bytes, arrays, arrays of arrays; 2 sequences behind it, 3 left bytes, 2 commands | every prefix of every first reply is decoded as it should be (with the exceptions that the properties state), and replies and commands are paired in order, whichever comes first, as a refinement of `Rendezvous`. An array that has an empty array before its last element is not among the replies: the decoder leaves the offset one byte short there (`resp_decoder.hh:295`). |
| `resp_truncated` | as `redis` | **violation**: section 5. |
| `mqtt` | one session in full, the others by what their handlers do (`OtherHandles`); ring of 8, names, numbers and topics of 1 byte, 3 topics of which two have one code, a packet adds to empty lists only | chains kept and ended, served after the connack, refinement of `Subscriptions`, silent peers dropped. A ring of 8 is large enough for a packet with two topics and small enough that packets run out of bytes. Packets with two topics of one code put a client into a list twice, so `unsubscribe` has more than one entry to remove. |

Fairness. `ff_run` calls the loop for ever and user functions are assumed to
return: weak fairness of the loop and of returning. Time passes: a timer that is
pending for ever becomes due (strong fairness where it can only be noticed in
one phase of the loop). In `session` and `echo` the peer acknowledges
what it is sent (strong fairness of `PeerAcks`, which the stack does between
turns); nothing is assumed of events, of data or of the application's requests.
In `epoll_loop` the thread runs, time goes on and a batch of events
is finite (strong fairness of `EndEvents`); no event need ever come.
In `mqtt` the loop turns (weak fairness of the functions and tasks), timers fire and
the peer's TCP takes or refuses a reply while the session is open (strong fairness,
as both happen only between events); the peer need not send anything.

Invariants and liveness are checked together, under the fair specification where there is one, and
without symmetry. Deadlock is checked in every run but `mqtt`, `redis` and `resp_truncated`, where
the process may fail an assertion (`aborted`) or a reader recurse for ever (`spin`),
after which nothing happens.

## 4. The proofs

All theorems hold for every value of the constants that satisfies the named
assumptions (`ListenerConstants`, `TimerConstants`, `FlowConstants`,
`StartConstants`, `ConnectorConstants`, `EpollConstants`, `MqttConstants`,
`SessionConstants`, `EchoConstants`). The last one says that no byte of the timeout message
counts as a byte of the peer, so that the echo can be told from it on the wire.

* `TcpListenerProofs`: `TypeCorrect`, `NoIdlePair`, `InOrder`, `AcceptCovered`,
  `Refinement`, `LoopsStay`. The pairing is not inductive by itself: the invariant says that
  the queue of callers is the interval of numbers after the matched ones
  (likewise the sessions), that one of the queues is empty, and that matched,
  queued and asked add up. From it each step of the listener is a step or a
  stutter of `Rendezvous`.
* `TimeSetProofs`: `TypeCorrect`, `OnceAndNotLost`, `NotInSameTurn`, `TurnIsThorough`. While the
  clock has not been set back, everything on the heap is unfired except the top
  during its callback; the clock is at or after `now`, so a timer added in the
  callback has a deadline at or after the top's and does not displace it.
  `TurnIsThorough` (`handle_timeout` returns only when nothing on the heap was due when it
  was called) needs only that the top is least (`RootLeast`), which holds whatever the clock does.
* `FlowProofs`: `TypeCorrect`, `AtMostOnce`, `NeverLost`, `FirstResultWins`, `NoneHalfDone`,
  `ChainsRunInOrder`.
  "At most once" needs the queue: a queued function belongs to a node that is
  marked, has not run, and is queued once; the first entry is exempt while it is
  executed (it is popped only after it returns). Flows that have been destroyed
  are untouched and nothing refers to them, so an identity that is used again
  starts afresh. The operations (`TriggeKeeps`, `SubmitKeeps`) rest on four lemmas about
  how the queue may change (`KeepQueue`, `MarkCalled`, `CallNow`, `QueueTask`).
  `NoneHalfDone` needs two more facts: the first node of a live flow is triggered or
  something that holds the flow will trigger it (`Started`), and a function that has ended
  triggered the next node or left it to an inner flow that lives (`HandedOn`). If a flow
  that nothing refers to had a node that is not triggered, take the first one: the node
  before it has run, off the stack, and can have handed on only to an inner flow, whose
  parent would refer to the flow (`AllTriggered`). `ChainsRunInOrder` rests on
  `OrderPart`: a function is on the stack once and counts as run, submissions are of first
  nodes, at most one flow reports to a node, and the function in front of that node has
  returned (`InnerAfter`). So a function that ends finds the node behind it untriggered and
  nobody else who could trigger it, and an inner flow that passes its result on is the only
  one that reports there. `OrderGrows` states what all steps but `Destroy` have in common:
  what has run stays so, and what has returned does not come back.
* `SessionProofs`, for `TcpSession` under the arbitrary application: `SessionTypes`,
  `WritesArmed`, `NoneStarved`, `DataStays`, `StreamStaysIntact`, `WireStaysInOrder`.
  `NoneStarved` rests on the one reader: all handlers in the list but the last have been
  called (`RecvOne`). `StreamIntact` speaks of what was consumed; the invariant
  `StreamInv` also says what the memory of the ring holds, at every offset from the head
  modulo its size, and that consumed and buffered bytes are all that was read. `WireInv`
  says that the packets in the queue are the last submitted bytes in a row, that only
  the first one is partly sent, and that up to that point each byte is on the wire
  or lost.
* `SessionProofs`, for `EchoServer`: `EchoChainAlive`, `EchoSendsSomething`,
  `EchoesEveryByte`. All functions of the echo server come from the task center
  (`CenterOnly`), so one of them runs only in the phase of the tasks, when no loop over handlers is
  under way. `EchoInv` relates three counts as long as nothing has overrun: bytes consumed,
  bytes echoed on the wire, and the position in the packet under way, which is a timeout message
  or ends with the last consumed byte. The module is long because each lemma says
  what one action does to queues, ring and wire by their fields and lengths, the form in which the
  provers need it.
* `EngineStartProofs`: `TypeCorrect`, `RingsComplete`, `PoolWindow`,
  `LaterFindsEarlier`. A core that a searching process waits for is in its mask
  or among the rings it found, and these exist. For the last theorem the
  invariant orders the creations: a process that searches has its ring, and if it
  still misses another's after a round then that ring did not exist when the round
  passed it, hence the other one's search, which comes later, finds this one's.
* `ClientProofs` has the client side, on which `connect_redis` makes a Redis session from a
  connect. For `TcpConnector`: `TypeCorrect`, `SocketsAccounted`, `NoHiddenSession`. The
  invariant adds that an event in the batch belongs to a socket whose filter is
  still the connector's, that while it is only the timer can have called the
  flow, and that a timer runs only for an attempt that was made.
* `ClientProofs`, for `RedisSession` with any decoder: `RepliesPaired`,
  `RepliesRendezvous`. `PairsInv` is the listener's argument again: the queues hold
  consecutive numbers after the matched ones, one of them is empty, and the counts add up.
  Nothing is assumed of the decoder, so the pairing holds whatever it makes of the
  bytes.
* `ClientProofs`, for `RespLines`: `StringsDecoded`, `IntegersDecoded`, `BulksDecoded`. For
  a line or a bulk of any length, followed by anything: a part is incomplete, the whole is
  complete and ends where it ends; a null or empty bulk needs one byte more. The lemma
  behind them finds the first character at which the loop stops. `BulksDecoded`
  assumes that `strtol` returns the number that the line spells.
* `EpollLoopProofs`: `NoOversleep`. From `nearest_delay` on, the argument of
  `epoll_wait` is right for every timer that `nearest_delay` saw and whose delay the
  cast to `int` keeps; functions that run later only add to the timers it did not see,
  and none runs during the sleep. The smallest deadline exists because the natural
  numbers are well-founded.
* `MqttServerProofs`: `ChainsKept`, `ConnackFirst`, `Refinement`, for any number of
  sessions in full detail (the run has one). A lemma first reduces every step to what
  it does to a chain, whatever bytes it takes: `Unnoticed`, `ReadsOn`, `Ends`,
  `Submits`, or an action of the task center and the replies. The invariant adds that a
  request before the session is served is its connect packet, that a reply under way
  means that a connect packet was handled, and that only codes with an entry have
  subscribers, without which `unsubscribe` would not have the effect of the request.

Proved and not in a run, as they are of little interest at a small size or another property of the run covers them: the type invariants
of `TcpListener`, `TimeSet`, `Flow`, `EngineStart`, `TcpConnector` and `TcpSession`, `MatchedInOrder` and
`NobodyWaitsForNothing` (which `ImplementsRendezvous` covers), `PairedByPosition` (which
`RepliesImplementRendezvous` covers), `NoLostContinuation` (which `TriggeredRuns` covers), `BacklogCoversLoop` (the callback of a listener
never accepts more often than the event says) and `NotLost` (which `EveryTimerFires`
covers).

Only model-checked:

* liveness, all of it (`EveryTimerFires`, `TimedWaitEnds`, `SendsEnd`, `EveryByteAnswered`, ...):
  the prover has no rule for fairness;
* `PartNeverComplete` and `WholeComplete`: they say what the recursive decoder computes for
  every reply and every prefix, an induction over data. Their cases without recursion,
  lines and bulks, are proved for any length; arrays and `strtol` are not.

## 5. Two disagreements, and what else the models show

`on_recv_event` passes `read_head()` to `ff_read` (`tcp_session.hh:105`). When the
buffer is empty that is also where `write_head()` is. When it is not, the new
bytes are written over unread ones and `commit` extends the readable range over
memory that was not written. The echo server of the README meets this with a peer
that merely sends its next segments without waiting for the answers (run
`echo_overrun`): one segment is read in the batch that also writes a reply;
`echo_proc` then finds it in the buffer and queues the function for it, behind the
tasks that `run()` counted when it started; the read of the next turn overwrites the
segment before that function runs. A reply that waits for the peer's window while
two segments are read has the same effect. `EchoesInputUnlessOverrun` and `StreamIntact` say that
nothing else disturbs the streams.

`decide_decode_type` reads the type of an element before it knows that the byte has
been received (`resp_decoder.hh:118`). An array that is cut just before an element
is therefore a decode error, unless the byte left behind the received ones happens to
be a type character, while the decoder's test (`resp_test.hh:25`) expects a cut
array to be incomplete (run `resp_truncated`). `PartNeverComplete` says that this is
the only place where a part is an error and that it is never taken for a whole.

What the models show and no text of the repository contradicts:

* a null or empty bulk is recognised only when one more byte is there;
* `decode_and_update_reply` takes `offset+1` bytes (`redis_session.hh:37`): a reply that
  ends the buffer fails the assertion of `consume`, and any other costs the next reply its first
  byte; an incomplete reply makes `read_proc` call itself for ever, because
  `wait_packet()` returns at once while the buffer is not empty; a decode error ends
  the reader and leaves the commands waiting;
* the multiplier of an MQTT remaining length starts at 0 (`mqtt_session.hh:92`), so every
  remaining length is 0 and its limit is never reached; a packet is built from the
  bytes that happen to be there, and one that has not arrived whole fails the same
  assertion;
* the wait for a packet's body is a wait for 0 bytes, which is served only when
  something is in the buffer: a ping is answered when the next packet begins;
* the constructor of a connect packet throws when `from_buf` succeeds
  (`mqtt_packet.hh:186`): the sessions that are served are those whose connect packet
  `from_buf` rejects. `check_connect_flags` (line 129) is inverted as well, so a
  well-formed packet, whose reserved flag is 0, is rejected and thereby served, with its
  keep-alive and its id left in the ring buffer as the beginning of the next packet.
  All that are served have the empty id, so their subscriptions are one client's;
* a subscribe or unsubscribe packet ends when `read_head()` is no longer above its start,
  which takes a wrap of the ring buffer;
* a refused connection ends the event loop; a connection that comes up after its
  timeout stays open; a timer that a task of the epoll loop adds may wait for an event;
  cores from 32 on are not waited for.

## 6. Not modelled, and the plan

Not modelled, because there is no behaviour of the program to compare a model with:

* the inter-core channel: no program sends a message, the engine's call of `pull_msg`
  (`engine.hh:216`) is commented out;
* the edge-triggered session of the epoll engine (it has no operation that registers a handler)
  and the front end in `net/`, which no program instantiates;
* the agent's side of the Redis agent (`agent_session.hh`: the function that would
  hand over a command is commented out, line 81) and consistent hashing, one call of
  `lower_bound` that this side would make;
* the flow pool and `task_runner_apply.hh`: unused.

Not modelled, because it is no state of the system: `dpdk/init` (sequential
configuration), `maybe_rehash` of the cache (what is found stays the same) and its
`erase` (no caller), the command classes of Redis (formatting), vendored code.

Not modelled, because it lies below the level of the models: object lifetimes under
`shared_ptr`. Two places depend on them: a timer's callback is executed inside the heap's vector
(`time_set.hh:72`), which grows when the callback adds timers, and a session's callback owns the
data that holds it (`tcp_session.hh:158`), so that a session is never freed. Also left out: a
descriptor that is used again by a connection accepted in the same batch, and a
caller of `wait_connect` on the immediate runner, which no program is (it would be called before
its session is removed from the list, `tcp_listener.hh:34`).

Every invariant, action property and refinement of the runs is proved except those listed at
the end of section 4. What is left is out of the prover's reach: liveness, and the decoder on
arrays of any depth. A next step that stays within it would be the action-level facts behind the
liveness properties (a step that can be taken stays possible until it is taken).
