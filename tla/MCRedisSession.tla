---- MODULE MCRedisSession ----
(* Replies for TLC: every kind, arrays of them, and arrays in arrays. *)
EXTENDS RedisDecoding

Str(k, t) == [kind |-> k, text |-> t]
Arr(ps) == [kind |-> "array", parts |-> ps]

Scalars == {Str("string", << >>), Str("string", <<"X", "$">>), Str("error", <<"X">>),
            Str("integer", <<"-", "1">>), Str("bulk", << >>), Str("bulk", <<"X">>),
            Str("bulk", <<CR, LF, "+">>), Str("null", << >>)}

Flat == {Arr(<<a>>) : a \in Scalars} \cup {Arr(<<a, b>>) : a, b \in Scalars}

MCReplies == Scalars \cup Flat \cup {Arr(<< >>), Arr(<<Arr(<< >>)>>)}
              \cup {Arr(<<f>>) : f \in Flat}
              \cup {Arr(<<f, Str("null", << >>)>>) : f \in Flat}

MCFollow == {<<Str("bulk", <<"X">>)>>, <<Arr(<< >>), Str("string", <<"X">>)>>}

MCConversations == {<<r>> \o f : r \in MCReplies, f \in MCFollow}

MCLeft == {"+", "*", "X"}
====
