---------------------------------- MODULE Lists ----------------------------------
(***************************************************************************)
(* Python's list comprehension with a test, and its stable sort, on        *)
(* sequences.  Both come down to putting positions in order, and are       *)
(* defined without recursion so that they can be reasoned about for lists  *)
(* of any length (ListsProofs).                                            *)
(***************************************************************************)
EXTENDS Integers, Sequences, FiniteSets

\* before, a set of pairs, is a strict total order on P.
Orders(before, P) ==
  /\ \A j \in P : <<j, j>> \notin before
  /\ \A j, k \in P : j # k => <<j, k>> \in before \/ <<k, j>> \in before
  /\ \A i, j, k \in P : <<i, j>> \in before /\ <<j, k>> \in before => <<i, k>> \in before

\* The elements of a finite set P, in order.
InOrder(P, before) ==
  CHOOSE at \in [1..Cardinality(P) -> P] :
    \A q, r \in DOMAIN at : q < r => <<at[q], at[r]>> \in before

Ascending(P) == {p \in P \X P : p[1] < p[2]}

\* [x for x in s if x in S]
Select(s, S) ==
  LET P  == {k \in DOMAIN s : s[k] \in S}
      at == InOrder(P, Ascending(P))
  IN  [r \in DOMAIN at |-> s[at[r]]]

\* sorted(s), when the order on the positions of s is the one the key and the
\* stability of the sort make.
Sorted(s, before) ==
  LET at == InOrder(DOMAIN s, before) IN [r \in DOMAIN s |-> s[at[r]]]
=============================================================================
