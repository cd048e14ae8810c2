---------------------------- MODULE Subscriptions ----------------------------
(***************************************************************************)
(* What an MQTT server promises of its subscriptions: they are a relation  *)
(* between topics and clients; a session has at most one request at a      *)
(* time, and a request is done in one step that changes the relation for   *)
(* its client and its topics, however often the client has subscribed, and *)
(* for nobody else.                                                        *)
(***************************************************************************)

CONSTANTS Session, Topic, Client, NoRequest

VARIABLES subs, pending

Request == [kind : {"subscribe", "unsubscribe"}, topics : SUBSET Topic, client : Client]

Init == subs = {} /\ pending = [s \in Session |-> NoRequest]

Effect(r) == IF r.kind = "subscribe"
             THEN subs \cup (r.topics \X {r.client})
             ELSE subs \ (r.topics \X {r.client})

Ask(s) ==
    /\ pending[s] = NoRequest
    /\ \E r \in Request : pending' = [pending EXCEPT ![s] = r]
    /\ UNCHANGED subs

Do(s) ==
    /\ pending[s] # NoRequest
    /\ subs' = Effect(pending[s])
    /\ pending' = [pending EXCEPT ![s] = NoRequest]

\* A request of a session that is not among Session.
DoElsewhere == UNCHANGED pending /\ \E r \in Request : subs' = Effect(r)

Next == DoElsewhere \/ \E s \in Session : Ask(s) \/ Do(s)

Spec == Init /\ [][Next]_<<subs, pending>>

=============================================================================
