----------------------------- MODULE Rendezvous -----------------------------
(***************************************************************************)
(* What a listener promises its callers, and a Redis session its commands: *)
(* the k-th caller that waits gets the k-th session that is accepted (the  *)
(* k-th command the k-th reply), exactly once, and at the very step at     *)
(* which the second of the two is there - nobody waits while something is  *)
(* on offer.                                                               *)
(***************************************************************************)
EXTENDS Naturals, Sequences

VARIABLES
    asked,      \* how many callers have asked for a session
    offered,    \* how many sessions have been offered
    matched     \* the pairs <<caller, session>> made so far, in order

vars == <<asked, offered, matched>>

\* Callers may be waiting already when the first session is offered.
Init == asked \in Nat /\ offered = 0 /\ matched = << >>

\* A new caller is served at once if a session is left over.
Ask ==
    /\ asked' = asked + 1
    /\ matched' = IF offered > asked
                  THEN Append(matched, <<asked + 1, asked + 1>>)
                  ELSE matched
    /\ UNCHANGED offered

\* A new session is handed out at once if a caller is left over.
Offer ==
    /\ offered' = offered + 1
    /\ matched' = IF asked > offered
                  THEN Append(matched, <<offered + 1, offered + 1>>)
                  ELSE matched
    /\ UNCHANGED asked

Next == Ask \/ Offer

Spec == Init /\ [][Next]_vars

=============================================================================
