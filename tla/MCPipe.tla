------------------------------- MODULE MCPipe -------------------------------
(* Small instances of Pipe: a buffer of 3 bytes, 4 when it is big. *)
EXTENDS Pipe, TLC

CONSTANTS r, w1, w2

rd(n, nb) == [op |-> "read", end |-> "a", n |-> n, nb |-> nb, ev |-> {}]
wr(n, nb) == [op |-> "write", end |-> "b", n |-> n, nb |-> nb, ev |-> {}]
poll(e, ev) == [op |-> "poll", end |-> e, n |-> 0, nb |-> FALSE, ev |-> ev]

(* A reader that also polls, a writer of atomic writes that blocks or does *)
(* not, a writer whose writes fill the pipe and make it big, and a knote   *)
(* that waits for space.                                                   *)
MCCalls == r :> {rd(2, FALSE), poll("a", {"POLLIN"})}
           @@ w1 :> {wr(2, FALSE), wr(2, TRUE)}
           @@ w2 :> {wr(4, FALSE)}
MCNotes == {<<"b", "EVFILT_WRITE">>}
=============================================================================
