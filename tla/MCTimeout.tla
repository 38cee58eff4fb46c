----------------------------- MODULE MCTimeout -----------------------------
(***************************************************************************)
(* Small wheels: four buckets a level reach all four levels with one       *)
(* timeout; two leave room for two timeouts.                               *)
(***************************************************************************)
EXTENDS Timeout

\* Joined() puts lists together as FlattenSeq() does.
ASSUME JoinedFlattens ==
  \A s, u, v \in SeqOf({0, 1}, 2) :
    Joined([b \in 0..2 |-> <<s, u, v>>[b + 1]], 3) = FlattenSeq(<<s, u, v>>)
=============================================================================
