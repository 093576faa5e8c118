----------------------------- MODULE PairStore -----------------------------
(***************************************************************************)
(* What a table of pairs promises while its server lives: a key has the    *)
(* value of the last put with what was appended since, until it is         *)
(* removed.  A value is the sequence of the pieces it was made of, and the *)
(* empty one says that the key is not there.                               *)
(***************************************************************************)
EXTENDS Sequences

CONSTANTS
  Keys,    \* keys
  Vals     \* what a put or an append carries

VARIABLE
  pairs    \* pairs[k]: the pieces of k's value

Init == pairs = [k \in Keys |-> <<>>]

Put(k, v) == pairs' = [pairs EXCEPT ![k] = <<v>>]

Extend(k, v) == pairs' = [pairs EXCEPT ![k] = Append(@, v)]

Drop(k) == pairs' = [pairs EXCEPT ![k] = <<>>]

Next ==
  \E k \in Keys :
    \/ \E v \in Vals : Put(k, v) \/ Extend(k, v)
    \/ Drop(k)

Spec == Init /\ [][Next]_pairs
=============================================================================
