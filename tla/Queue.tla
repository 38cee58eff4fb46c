------------------------------- MODULE Queue -------------------------------
(***************************************************************************)
(* Removal from the tail queues of sys/queue.h and from the lists that     *)
(* kern_timeout.c links by itself, and what moving one list after another  *)
(* to the tail of a queue adds up to.                                      *)
(***************************************************************************)
EXTENDS Naturals, FiniteSets, SequencesExt

\* The sequence s after TAILQ_REMOVE() of the elements of X: the k-th of those
\* that stay is the one with k of them up to it.  SelectSeq() is the same, by
\* a recursion that the provers do not look into.
Without(s, X) ==
  LET Stay  == {i \in DOMAIN s : s[i] \notin X}
      At(k) == CHOOSE i \in Stay : Cardinality({j \in Stay : j <= i}) = k
  IN  [k \in 1..Cardinality(Stay) |-> s[At(k)]]

\* The lists q[0], ..., q[n - 1], one after another.  FlattenSeq() is the same,
\* by recursion.
Joined(q, n) ==
  LET Places == UNION {{b} \X DOMAIN q[b] : b \in 0..(n - 1)}
      Upto(p) == {r \in Places : r[1] < p[1] \/ (r[1] = p[1] /\ r[2] <= p[2])}
      At(k) == CHOOSE p \in Places : Cardinality(Upto(p)) = k
  IN  [k \in 1..Cardinality(Places) |-> q[At(k)[1]][At(k)[2]]]
=============================================================================
