------------------------------ MODULE MCTaskq ------------------------------
(***************************************************************************)
(* The kinds of task queues in the tree: threads that share the kernel     *)
(* lock, and a single one that does without it.                            *)
(***************************************************************************)
EXTENDS Taskq

MCQueues == {[nthreads |-> 2, mpsafe |-> FALSE], [nthreads |-> 1, mpsafe |-> TRUE]}
\* Without() removes what SelectSeq() would.
ASSUME WithoutSelects ==
  \A s \in SeqOf(1..3, 4), X \in SUBSET (1..3) :
    Without(s, X) = SelectSeq(s, LAMBDA u : u \notin X)
=============================================================================
