------------------------------- MODULE Numbering -------------------------------
(***************************************************************************)
(* Loops that go through numbers or through a list in order: the k-th they *)
(* come by, and the elements they keep.                                    *)
(***************************************************************************)
EXTENDS Integers, Sequences, FiniteSets

\* The k-th number of a set of numbers.
Nth(S, k) == CHOOSE n \in S : Cardinality({m \in S : m <= n}) = k

\* The elements of a sequence that are in a set, in their order.
Kept(s, S) ==
  LET kept == {i \in DOMAIN s : s[i] \in S} IN
  [k \in 1..Cardinality(kept) |-> s[Nth(kept, k)]]

=============================================================================
