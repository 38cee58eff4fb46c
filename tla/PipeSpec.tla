------------------------------ MODULE PipeSpec ------------------------------
(***************************************************************************)
(* What a pipe promises to the threads that use it: the bytes of an end    *)
(* are taken in the order in which they were given, each one once and by   *)
(* one reader, none is lost before the end is closed, and the bytes of a   *)
(* write of at most Atomic bytes go in together.                           *)
(***************************************************************************)
EXTENDS Naturals, Sequences

CONSTANTS Threads,   \* the threads that read and write
          Ends,      \* the two ends of the pipe
          Sizes,     \* the sizes of the writes
          Atomic     \* a write of at most this many bytes is atomic

VARIABLES open,      \* the ends that are open
          stream,    \* stream[e]: the bytes that a reader of end e will find
          want,      \* want[t]: the size of the write that t is in, or 0
          given,     \* given[t]: how many of those bytes t has given
          got        \* got[t]: the bytes that t has taken in its read

svars == <<open, stream, want, given, got>>

(* The bytes from the (i+1)th to the jth of a write of thread t. *)
Bytes(t, i, j) == [k \in 1 .. j - i |-> <<t, i + k>>]

Init == /\ open = Ends
        /\ stream = [e \in Ends |-> << >>]
        /\ want = [t \in Threads |-> 0]
        /\ given = [t \in Threads |-> 0]
        /\ got = [t \in Threads |-> << >>]

(* Thread t begins a write of n bytes. *)
Begin(t, n) == /\ want[t] = 0
               /\ want' = [want EXCEPT ![t] = n]
               /\ UNCHANGED <<open, stream, given, got>>

(* Thread t gives the next bytes of its write, up to the jth, to end e. *)
Give(t, e, j) ==
    /\ e \in open
    /\ j \in given[t] + 1 .. want[t]
    /\ want[t] <= Atomic => given[t] = 0 /\ j = want[t]
    /\ stream' = [stream EXCEPT ![e] = @ \o Bytes(t, given[t], j)]
    /\ given' = [given EXCEPT ![t] = j]
    /\ UNCHANGED <<open, want, got>>

(* Thread t takes the first m bytes of end e. *)
Take(t, e, m) ==
    /\ m \in 1 .. Len(stream[e])
    /\ got' = [got EXCEPT ![t] = @ \o SubSeq(stream[e], 1, m)]
    /\ stream' = [stream EXCEPT ![e] = SubSeq(@, m + 1, Len(@))]
    /\ UNCHANGED <<open, want, given>>

(* The call of thread t returns. *)
Return(t) == /\ want' = [want EXCEPT ![t] = 0]
             /\ given' = [given EXCEPT ![t] = 0]
             /\ got' = [got EXCEPT ![t] = << >>]
             /\ UNCHANGED <<open, stream>>

(* End e is closed: what nobody can read any more is dropped. *)
Shut(e) == /\ open' = open \ {e}
           /\ stream' = [stream EXCEPT ![e] = << >>]
           /\ UNCHANGED <<want, given, got>>

(* A new pipe, once both ends of the old one are closed. *)
Open == /\ open = {}
        /\ open' = Ends
        /\ UNCHANGED <<stream, want, given, got>>

Next == \/ \E t \in Threads :
             \/ \E n \in Sizes : Begin(t, n)
             \/ \E e \in Ends : \E j \in 1 .. want[t] : Give(t, e, j)
             \/ \E e \in Ends : \E m \in 1 .. Len(stream[e]) : Take(t, e, m)
             \/ Return(t)
        \/ \E e \in Ends : Shut(e)
        \/ Open

Spec == Init /\ [][Next]_svars
=============================================================================
