------------------------------ MODULE MCLockf -------------------------------
(* Small instances of Lockf: two processes with one thread each, and a file *)
(* that is locked as a whole.                                               *)
EXTENDS Lockf, TLC

CONSTANTS p1, p2, f1, t1, t2, t3

posix(p, op, type, s, l, wait) ==
    [op |-> op, id |-> p, type |-> type, whence |-> "SEEK_SET", l_start |-> s, l_len |-> l,
     wait |-> wait]

flock(f, op, type) == posix(f, op, type, 0, 0, TRUE)

(* The first process asks for ranges that give all cases of an overlap; the *)
(* second for some, once without F_WAIT and once relative to the end, and   *)
(* for two that end before they start; the file is locked shared and        *)
(* exclusive.                                                               *)
Ranges == {<<0, 1>>, <<1, 1>>, <<0, 2>>, <<1, 2>>, <<0, 0>>, <<1, 0>>}
MCRequests ==
    t1 :> {posix(p1, "F_SETLK", m, r[1], r[2], TRUE) : m \in {"F_RDLCK", "F_WRLCK"}, r \in Ranges}
          \cup {posix(p1, "F_UNLCK", "F_RDLCK", r[1], r[2], TRUE) : r \in Ranges}
    @@ t2 :> {posix(p2, "F_SETLK", "F_WRLCK", 0, 1, TRUE),
              posix(p2, "F_SETLK", "F_RDLCK", 1, 2, FALSE),
              posix(p2, "F_SETLK", "F_RDLCK", 1, -1, FALSE),
              posix(p2, "F_SETLK", "F_RDLCK", 1, -2, FALSE),
              [posix(p2, "F_SETLK", "F_WRLCK", -1, 0, TRUE) EXCEPT !.whence = "SEEK_END"]}
    @@ t3 :> {flock(f1, "F_SETLK", m) : m \in {"F_RDLCK", "F_WRLCK"}}

(* Two processes that lock two bytes. *)
TwoBytes ==
    t1 :> {posix(p1, "F_SETLK", "F_WRLCK", b, 1, TRUE) : b \in {0, 1}}
    @@ t2 :> {posix(p2, "F_SETLK", "F_WRLCK", b, 1, TRUE) : b \in {0, 1}}

(* Two threads that share a file. *)
OneFile ==
    t1 :> {flock(f1, "F_SETLK", "F_WRLCK")} @@ t2 :> {flock(f1, "F_UNLCK", "F_RDLCK")}
    @@ t3 :> {posix(p1, "F_SETLK", "F_WRLCK", 0, 1, TRUE)}
=============================================================================
