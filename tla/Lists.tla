-------------------------------- MODULE Lists --------------------------------
(***************************************************************************)
(* Lists with some of their members taken out, and sets put in order: what *)
(* the loops over a std::list with an erase, and the priority queues,      *)
(* leave.  Both operators give the members ranks and place each by its     *)
(* rank, so that what they return follows from the sizes of finite sets.   *)
(***************************************************************************)
EXTENDS Integers, Sequences, FiniteSets

\* How many members of S precede x in the order R, a set of pairs.
RankIn(S, R, x) == Cardinality({y \in S : <<y, x>> \in R})

\* The members of S in the order R.
Ranked(S, R) == [k \in 1..Cardinality(S) |-> CHOOSE x \in S : RankIn(S, R, x) = k - 1]

\* The natural order of positions, and the positions of a list that hold a member of K.
Earlier(n) == {p \in (1..n) \X (1..n) : p[1] < p[2]}
Places(s, K) == {i \in 1..Len(s) : s[i] \in K}

\* What is left of list s when all but the members of K are erased from it.
Keep(s, K) ==
  LET at == Ranked(Places(s, K), Earlier(Len(s))) IN [k \in DOMAIN at |-> s[at[k]]]
==============================================================================
