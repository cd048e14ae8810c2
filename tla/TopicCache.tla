----------------------------- MODULE TopicCache -----------------------------
(***************************************************************************)
(* src/app/mqtt/mqtt_topic.hh on the hash table of cache.hh: the topics    *)
(* that have been subscribed to, each with the list of its subscribers.    *)
(*                                                                         *)
(* Two keys of the table are equal when their hash codes are: operator==   *)
(* compares the codes and then r._view with itself.  So an entry belongs   *)
(* to a code, not to a topic.  Nothing looks at the order of a list, so a  *)
(* list is the number of times each client is in it.  The number of        *)
(* buckets, which does not change what find() finds, is left out.          *)
(***************************************************************************)
EXTENDS Naturals, Sequences, FiniteSets

CONSTANTS
    Topic,      \* topics that clients name
    Client,     \* client identifiers
    Hash        \* std::hash, as a function of topics

VARIABLES
    known,      \* codes with an entry in topic_cache
    count       \* count[h][c]: how often client c is in the list of code h

topicVars == <<known, count>>

Code == {Hash[t] : t \in Topic}

\* The codes of a list of topics.
Codes(T) == {Hash[T[i]] : i \in 1..Len(T)}

\* How many topics of the list have code h.
Times(T, h) == Cardinality({i \in 1..Len(T) : Hash[T[i]] = h})

TopicInit ==
    /\ known = {}
    /\ count = [h \in Code |-> [c \in Client |-> 0]]

\* subscribe, for each topic of a packet: a list is made or found, and the client
\* is appended whether it is there or not.
Subscribe(T, c) ==
    /\ known' = known \cup Codes(T)
    /\ count' = [h \in Code |-> [count[h] EXCEPT ![c] = @ + Times(T, h)]]

\* Mutated form: the first entry of the client is removed, not all.
UnsubscribeOne(T, c) ==
    /\ UNCHANGED known
    /\ count' = [h \in Code |->
                    IF h \in known \cap Codes(T) /\ count[h][c] > 0
                    THEN [count[h] EXCEPT ![c] = @ - 1] ELSE count[h]]

\* unsubscribe, for each topic of a packet: remove_if; an empty list stays.
Unsubscribe(T, c) ==
    /\ UNCHANGED known
    /\ count' = [h \in Code |-> IF h \in known \cap Codes(T)
                                THEN [count[h] EXCEPT ![c] = 0] ELSE count[h]]

-----------------------------------------------------------------------------

TopicTypeOK ==
    /\ known \subseteq Code
    /\ count \in [Code -> [Client -> Nat]]

\* Only topics with an entry have subscribers.
CountedIsKnown == \A h \in Code, c \in Client : count[h][c] > 0 => h \in known

\* The relation that the lists stand for.
Subscribed == {hc \in Code \X Client : count[hc[1]][hc[2]] > 0}

=============================================================================
