-------------------------------- MODULE Pipe --------------------------------
(***************************************************************************)
(* Pipes: src/kern/sys_pipe.c, src/sys/pipe.h.                             *)
(*                                                                         *)
(* A pipe is two struct pipe, one for each end, that point to each other   *)
(* through pipe_peer.  A read of an end takes from its own buffer, a write *)
(* puts into the peer's.  All of it runs under the kernel lock, so that a  *)
(* thread is only overtaken where it sleeps: in pipelock(), in the tsleep()*)
(* of pipe_read(), pipe_write() and pipeclose(), and in uiomove() and      *)
(* km_alloc(), which it calls with PIPE_LOCK held.  An action is what runs *)
(* from one such place to the next.                                        *)
(*                                                                         *)
(* All sleeps are on the address of the struct pipe: "sleepers" are the    *)
(* threads in its sleep queue, and wakeup() empties it.  A thread in a     *)
(* sleep that is no longer a sleeper has been woken and will run.          *)
(*                                                                         *)
(* A byte is <<t, k>>, the kth byte of a write of thread t.  The bytes of  *)
(* buffer that nobody may read any more are set to Junk.                   *)
(*                                                                         *)
(* Left out: times, SIGIO (PIPE_ASYNC, pipe_pgid), pipe_ioctl() and        *)
(* pipe_stat(), which only copy a field; uiomove() of several iovecs.      *)
(***************************************************************************)
EXTENDS Naturals, Sequences, FiniteSets

CONSTANTS Threads,          \* threads inside system calls
          Calls,            \* Calls[t]: the calls that thread t may make
          Notes,            \* the knotes that may be attached: <<end, filter>>
          PIPE_SIZE, BIG_PIPE_SIZE, PIPE_BUF, LIMITBIGPIPES,
          SerialBig,        \* bound: a write of > PIPE_SIZE bytes overlaps another
                            \* only as far as it waits for the lock to resize
          LateResize        \* may memory be had for a pipe no longer empty?

Ends == {"a", "b"}

(* What a thread may call on an end: a read or a write of n bytes, with    *)
(* FNONBLOCK or not, or a poll for the events ev.                          *)
Call == [op : {"read", "write", "poll"}, end : Ends, n : Nat, nb : BOOLEAN,
         ev : SUBSET {"POLLIN", "POLLOUT"}]

ASSUME PipeAssumption ==
    /\ Calls \in [Threads -> SUBSET Call]
    /\ Notes \subseteq Ends \X {"EVFILT_READ", "EVFILT_WRITE"}
    /\ IsFiniteSet(Threads)
    /\ {PIPE_SIZE, BIG_PIPE_SIZE, PIPE_BUF, LIMITBIGPIPES} \subseteq Nat
    /\ 0 < PIPE_BUF /\ PIPE_BUF <= PIPE_SIZE /\ PIPE_BUF + PIPE_SIZE \div 3 <= PIPE_SIZE + 1
    /\ 0 < PIPE_SIZE /\ PIPE_SIZE < BIG_PIPE_SIZE
    /\ {SerialBig, LateResize} \subseteq BOOLEAN
    /\ Ends \cap Threads = {}

VARIABLES pipe,      \* pipe[e]: the struct pipe of end e
          th,        \* th[t]: where thread t is in its call, and its locals
          closing,   \* closing[e]: pipe_close() of end e: open, asleep, freed
          nbigpipe   \* the number of big pipes

vars == <<pipe, th, closing, nbigpipe>>

NULL == "NULL"
Junk == <<"junk", 0>>
MINPIPESIZE == PIPE_SIZE \div 3
other(e) == IF e = "a" THEN "b" ELSE "a"
least(m, n) == IF m <= n THEN m ELSE n

Idle == [pc |-> "user"]

(* pipe_create() and pipespace(): a new struct pipe, with its peer. *)
pipe_create(e) ==
    [size |-> PIPE_SIZE, in |-> 0, out |-> 0, cnt |-> 0,
     buffer |-> [i \in 0 .. PIPE_SIZE - 1 |-> Junk],
     state |-> {}, peer |-> other(e), busy |-> 0,
     sleepers |-> {}, sel |-> {}, notes |-> {}, active |-> {}]

Init == /\ pipe = [e \in Ends |-> pipe_create(e)]
        /\ th = [t \in Threads |-> Idle]
        /\ closing = [e \in Ends |-> "open"]
        /\ nbigpipe = 0

-----------------------------------------------------------------------------
(* Operations on one struct pipe, P, that do not sleep.                    *)

flag(P, f) == [P EXCEPT !.state = @ \cup f]
unflag(P, f) == [P EXCEPT !.state = @ \ f]
space(P) == P.size - P.cnt

wakeup(P) == [P EXCEPT !.sleepers = {}]
tsleep(P, t) == [P EXCEPT !.sleepers = @ \cup {t}]

(* Wake everybody if somebody waits for this, and forget that he does. *)
wakewant(P, f) == IF f \in P.state THEN wakeup(unflag(P, {f})) ELSE P

pipeunlock_quiet(P) == unflag(P, {"LOCK"})
pipeunlock(P) == wakewant(unflag(P, {"LOCK"}), "LWANT")

(* pipelock(): one that has to wait asks to be woken, and sleeps. *)
Locked_never(P) == FALSE
Locked(P) == "LOCK" \in P.state
pipelock(P) == flag(P, {"LOCK"})
lockwait(P, t) == tsleep(flag(P, {"LWANT"}), t)

(* The peer of P has gone, or is at end of file. *)
peereof(P) == P.peer \in {e \in Ends : "EOF" \in pipe[e].state} \cup {NULL}

(* The filters of the knotes that hang on P: of reads of its own end and   *)
(* of writes to it through the other end.                                  *)
filt_pipe(P, f, peof) ==
    \/ f = "EVFILT_READ" /\ (P.cnt > 0 \/ "EOF" \in P.state \/ peof)
    \/ f = "EVFILT_WRITE" /\ ("EOF" \in P.state \/ space(P) >= PIPE_BUF)

(* Wake the pollers, if there are some; run the filters of the knotes,     *)
(* which selwakeup() does too.                                             *)
selwake(P, peof) ==
    LET Q == IF "SEL" \in P.state THEN [unflag(P, {"SEL"}) EXCEPT !.sel = {}] ELSE P
    IN  [Q EXCEPT !.active = @ \cup {f \in Q.notes : filt_pipe(Q, f, peof)}]

pipeselwakeup(P) == selwake(P, peereof(P))

(* A call is counted in pipe_busy. *)
enter_uncounted(P) == P
enter(P) == [P EXCEPT !.busy = @ + 1]

(* The end of a call that was counted in pipe_busy: let pipeclose() go on, *)
(* if it waits for this, or else wake the other side if it can go on.      *)
rundown_unwanted(P, want, ready) ==
    LET Q == [P EXCEPT !.busy = @ - 1]
    IN  IF ready THEN wakewant(Q, want) ELSE Q

rundown(P, want, ready) ==
    LET Q == [P EXCEPT !.busy = @ - 1]
    IN  IF Q.busy = 0 /\ "WANT" \in Q.state
        THEN wakeup(unflag(Q, {"WANT", want}))
        ELSE IF ready THEN wakewant(Q, want) ELSE Q

(* Take n bytes, which do not wrap, out of the ring buffer. *)
segment(P, n) == [k \in 1 .. n |-> P.buffer[P.out + k - 1]]

advance(P, n) ==
    LET empty == P.cnt = n
    IN  [P EXCEPT !.cnt = @ - n,
                  !.out = IF empty \/ @ + n >= P.size THEN 0 ELSE @ + n,
                  !.in = IF empty THEN 0 ELSE @,
                  !.buffer = [j \in DOMAIN @ |->
                      IF j \in P.out .. P.out + n - 1 THEN Junk ELSE @[j]]]

(* Put the bytes s in, in two segments if they wrap. *)
fill(P, s) ==
    LET n == Len(s)
        segsize == least(P.size - P.in, n)
    IN  [P EXCEPT !.cnt = @ + n,
                  !.in = IF @ + n >= P.size THEN n - segsize ELSE @ + n,
                  !.buffer = [j \in DOMAIN @ |->
                      IF j \in P.in .. P.in + segsize - 1 THEN s[j - P.in + 1]
                      ELSE IF j < n - segsize THEN s[segsize + j + 1]
                      ELSE @[j]]]

-----------------------------------------------------------------------------
(* A step of thread t leaves the pipe it works on, th[t].p, as P, and its  *)
(* locals as L.                                                            *)
Step(t, P, L) == /\ pipe' = [pipe EXCEPT ![L.p] = P]
                 /\ th' = [th EXCEPT ![t] = L]
                 /\ UNCHANGED closing

At(L, pc) == [L EXCEPT !.pc = pc]

(* The locals of a call that works on the pipe of end e. *)
Frame(c, e) == [pc |-> "call", call |-> c, p |-> e, resid |-> c.n, size |-> 0,
                got |-> << >>]

(* The file of end e still has references. *)
Usable(e) == closing[e] = "open"

(* Thread t is in the sleep pc, and has been woken. *)
Woken(t, pc) == th[t].pc = pc /\ t \notin pipe[th[t].p].sleepers

(* P without t in its sleep queue. *)
unsleep(P, t) == [P EXCEPT !.sleepers = @ \ {t}]

Return(t) == /\ th[t].pc = "return"
             /\ th' = [th EXCEPT ![t] = Idle]
             /\ UNCHANGED <<pipe, closing, nbigpipe>>

-----------------------------------------------------------------------------
(* pipe_read(). *)

(* From the label unlocked_error to the return. *)
ReadEnd(t, P, L) ==
    LET Q == rundown(P, "WANTW", P.cnt < MINPIPESIZE)
    IN  Step(t, IF space(Q) >= PIPE_BUF THEN pipeselwakeup(Q) ELSE Q, At(L, "return"))

(* From the head of the loop, with the pipe locked, to the next sleep. *)
ReadLoop(t, P, L) ==
    LET Q == pipeunlock(wakewant(P, "WANTW"))
    IN  CASE L.resid > 0 /\ P.cnt > 0 ->
               Step(t, P, [L EXCEPT !.pc = "rd_uiomove",
                   !.size = least(least(P.size - P.out, P.cnt), L.resid)])
          [] L.resid = 0 \/ (P.cnt = 0 /\ "EOF" \in P.state) ->
               ReadEnd(t, pipeunlock(P), L)
          [] OTHER ->
               IF L.got # << >> \/ L.call.nb
               THEN ReadEnd(t, Q, L)
               ELSE Step(t, tsleep(flag(Q, {"WANTR"}), t), At(L, "piperd"))

(* pipelock() and then the loop. *)
ReadLock(t, P, L, pc) == IF Locked(P) THEN Step(t, lockwait(P, t), At(L, pc))
                                      ELSE ReadLoop(t, pipelock(P), L)

(* The first pipelock() comes before the call is counted. *)
ReadEnter(t, P, L) == IF Locked(P)
                      THEN Step(t, lockwait(P, t), At(L, "rd_pipelk"))
                      ELSE ReadLoop(t, pipelock(enter(P)), L)

pipe_read(t) == \E c \in Calls[t] :
    /\ th[t].pc = "user" /\ c.op = "read" /\ Usable(c.end)
    /\ ReadEnter(t, pipe[c.end], Frame(c, c.end))
    /\ UNCHANGED nbigpipe

pipe_read_locked(t) ==
    /\ Woken(t, "rd_pipelk")
    /\ ReadEnter(t, pipe[th[t].p], th[t])
    /\ UNCHANGED nbigpipe

(* uiomove() copies, or fails with EFAULT. *)
pipe_read_moved(t) ==
    LET P == pipe[th[t].p]
        L == th[t]
    IN  /\ L.pc = "rd_uiomove"
        /\ \/ ReadLoop(t, advance(P, L.size), [L EXCEPT !.resid = @ - L.size,
                                                 !.got = @ \o segment(P, L.size)])
           \/ ReadEnd(t, pipeunlock(P), L)
        /\ UNCHANGED nbigpipe

(* Awake from "piperd", or from the pipelock() that follows it. *)
pipe_read_woken(t) ==
    /\ Woken(t, "piperd") \/ Woken(t, "rd_relock")
    /\ ReadLock(t, pipe[th[t].p], th[t], "rd_relock")
    /\ UNCHANGED nbigpipe

(* A signal ends a sleep of pipe_read(). *)
pipe_read_caught(t) ==
    LET P == unsleep(pipe[th[t].p], t)
    IN  /\ \/ th[t].pc = "rd_pipelk" /\ Step(t, P, At(th[t], "return"))
           \/ th[t].pc \in {"piperd", "rd_relock"} /\ ReadEnd(t, P, th[t])
        /\ UNCHANGED nbigpipe

-----------------------------------------------------------------------------
(* pipe_write(). *)

(* From the end of the loop to the return. *)
WriteEnd(t, P, L) ==
    LET Q == rundown(P, "WANTR", P.cnt > 0)
    IN  Step(t, IF Q.cnt > 0 THEN pipeselwakeup(Q) ELSE Q, At(L, "return"))

(* The transfer of at most n bytes, up to uiomove(). *)
Transfer(t, P, L, n) == Step(t, pipelock(P), [L EXCEPT !.pc = "wr_uiomove",
                                                       !.size = least(n, L.resid)])

(* The space that a write can use: none if it is atomic and does not fit. *)
room_torn(P, L) == space(P)
room(P, L) == IF space(P) < L.resid /\ L.call.n <= PIPE_BUF THEN 0 ELSE space(P)

(* From the head of the loop to the next sleep. *)
WriteLoop(t, P, L) ==
    LET n == room(P, L)
        Q == wakewant(P, "WANTR")
    IN  CASE L.resid = 0 \/ "EOF" \in P.state -> WriteEnd(t, P, L)
          [] L.resid > 0 /\ "EOF" \notin P.state /\ n > 0 ->
               IF Locked(P)
               THEN Step(t, lockwait(P, t), [L EXCEPT !.pc = "wr_pipelk", !.size = n])
               ELSE Transfer(t, P, L, n)
          [] OTHER ->
               IF L.call.nb
               THEN WriteEnd(t, Q, L)
               ELSE Step(t, tsleep(flag(pipeselwakeup(Q), {"WANTW"}), t),
                         At(L, "pipewr"))

(* It is advantageous to resize the buffer. *)
Resizes(P, n) == /\ n > PIPE_SIZE
                 /\ nbigpipe < LIMITBIGPIPES
                 /\ P.size <= PIPE_SIZE
                 /\ P.cnt = 0

ResizeLock(t, P, L) == IF Locked(P)
                       THEN Step(t, lockwait(P, t), At(L, "rs_pipelk"))
                       ELSE Step(t, pipelock(P), At(L, "km_alloc"))

(* SerialBig: a bound on what the threads do, nothing the code ensures. *)
Serial(P, n) ==
    \A u \in Threads :
        th[u].pc # "user" /\ th[u].call.op = "write" =>
            /\ th[u].call.n <= PIPE_SIZE
            /\ n <= PIPE_SIZE \/ (Resizes(P, n) /\ Locked(P))

pipe_write(t) == \E c \in Calls[t] :
    LET e == pipe[c.end].peer
        P == enter(pipe[e])
    IN  /\ th[t].pc = "user" /\ c.op = "write" /\ Usable(c.end)
        /\ ~ peereof(pipe[c.end])
        /\ SerialBig => Serial(P, c.n)
        /\ IF Resizes(P, c.n) THEN ResizeLock(t, P, Frame(c, e))
                              ELSE WriteLoop(t, P, Frame(c, e))
        /\ UNCHANGED nbigpipe

(* pipe_write() on an end whose peer has gone returns EPIPE. *)
pipe_write_epipe(t) == \E c \in Calls[t] :
    /\ th[t].pc = "user" /\ c.op = "write" /\ Usable(c.end)
    /\ peereof(pipe[c.end])
    /\ th' = [th EXCEPT ![t] = At(Frame(c, c.end), "return")]
    /\ UNCHANGED <<pipe, closing, nbigpipe>>

pipe_write_resize(t) ==
    /\ Woken(t, "rs_pipelk")
    /\ ResizeLock(t, pipe[th[t].p], th[t])
    /\ UNCHANGED nbigpipe

(* pipespace() gets memory, frees the old buffer and starts with an empty  *)
(* one; or it gets none, and keeps the old one.                            *)
pipespace(P, n) == [P EXCEPT !.size = n, !.in = 0, !.out = 0, !.cnt = 0,
                             !.buffer = [i \in 0 .. n - 1 |-> Junk]]

big(P) == IF P.size > PIPE_SIZE THEN 1 ELSE 0

pipe_write_alloc(t) ==
    LET P == pipe[th[t].p]
    IN  /\ th[t].pc = "km_alloc"
        /\ \/ /\ LateResize \/ P.cnt = 0
              /\ WriteLoop(t, pipeunlock(pipespace(P, BIG_PIPE_SIZE)), th[t])
              /\ nbigpipe' = nbigpipe - big(P) + 1
           \/ /\ WriteLoop(t, pipeunlock(P), th[t])
              /\ UNCHANGED nbigpipe

(* The lock is free: but the space may not be what it was. *)
pipe_write_locked(t) ==
    LET P == pipe[th[t].p]
        L == th[t]
    IN  /\ Woken(t, "wr_pipelk")
        /\ IF Locked(P) THEN Step(t, lockwait(P, t), L)
           ELSE IF L.size > space(P) THEN WriteLoop(t, pipeunlock(pipelock(P)), L)
           ELSE Transfer(t, P, L, L.size)
        /\ UNCHANGED nbigpipe

(* uiomove() copies both segments, or fails with EFAULT. *)
pipe_write_moved(t) ==
    LET P == pipe[th[t].p]
        L == th[t]
        done == L.call.n - L.resid
    IN  /\ L.pc = "wr_uiomove"
        /\ \/ WriteLoop(t, pipeunlock(fill(P, [k \in 1 .. L.size |-> <<t, done + k>>])),
                        [L EXCEPT !.resid = @ - L.size])
           \/ WriteEnd(t, pipeunlock(P), L)
        /\ UNCHANGED nbigpipe

(* Awake from "pipewr": the loop looks at PIPE_EOF again at its head. *)
pipe_write_woken(t) ==
    /\ Woken(t, "pipewr")
    /\ WriteLoop(t, pipe[th[t].p], th[t])
    /\ UNCHANGED nbigpipe

(* A signal ends a sleep of pipe_write(). *)
pipe_write_caught(t) ==
    LET P == unsleep(pipe[th[t].p], t)
    IN  /\ \/ th[t].pc = "rs_pipelk" /\ Step(t, rundown(P, "WANTR", FALSE), At(th[t], "return"))
           \/ th[t].pc \in {"wr_pipelk", "pipewr"} /\ WriteEnd(t, P, th[t])
        /\ UNCHANGED nbigpipe

-----------------------------------------------------------------------------
(* pipe_poll(), as poll(2) calls it: it returns events, or the thread is   *)
(* recorded and sleeps until selwakeup(); then it looks again.             *)
Revents(e, ev) ==
    \/ "POLLIN" \in ev /\ (pipe[e].cnt > 0 \/ "EOF" \in pipe[e].state)
    \/ "EOF" \in pipe[e].state \/ peereof(pipe[e])
    \/ "POLLOUT" \in ev /\ space(pipe[pipe[e].peer]) >= PIPE_BUF

(* The pipes on which a poll of end e for the events ev is recorded. *)
selrecord(e, ev) == {f \in Ends : \/ f = e /\ "POLLIN" \in ev
                                  \/ f # e /\ "POLLOUT" \in ev}

Polled(t, c) ==
    /\ th' = [th EXCEPT ![t] = At(Frame(c, c.end),
                 IF Revents(c.end, c.ev) THEN "return" ELSE "selwait")]
    /\ pipe' = [e \in Ends |->
         IF ~ Revents(c.end, c.ev) /\ e \in selrecord(c.end, c.ev)
         THEN [flag(pipe[e], {"SEL"}) EXCEPT !.sel = @ \cup {t}]
         ELSE [pipe[e] EXCEPT !.sel = @ \ {t}]]
    /\ UNCHANGED <<closing, nbigpipe>>

pipe_poll(t) == \E c \in Calls[t] :
    th[t].pc = "user" /\ c.op = "poll" /\ Usable(c.end) /\ Polled(t, c)

(* poll(2) ends for another reason: a signal, or its timeout. *)
pipe_poll_ends(t) ==
    /\ th[t].pc = "selwait"
    /\ th' = [th EXCEPT ![t].pc = "return"]
    /\ pipe' = [e \in Ends |-> [pipe[e] EXCEPT !.sel = @ \ {t}]]
    /\ UNCHANGED <<closing, nbigpipe>>

(* poll(2) has no reference to the file while it sleeps: it may be closed, *)
(* and poll(2) then returns POLLNVAL.                                      *)
pipe_poll_woken(t) ==
    LET c == th[t].call
    IN  /\ th[t].pc = "selwait"
        /\ \E e \in selrecord(c.end, c.ev) : t \notin pipe[e].sel
        /\ IF Usable(c.end) THEN Polled(t, c) ELSE pipe_poll_ends(t)

(* The pipe on which a knote hangs: one for writes hangs on the peer. *)
notepipe(n) == IF n[2] = "EVFILT_READ" THEN n[1] ELSE pipe[n[1]].peer

attached(n) == notepipe(n) # NULL /\ n[2] \in pipe[notepipe(n)].notes

(* pipe_kqfilter() attaches a knote; kqueue_register() then runs its filter. *)
pipe_kqfilter(n) ==
    LET e == notepipe(n)
        P == [pipe[e] EXCEPT !.notes = @ \cup {n[2]}]
    IN  /\ Usable(n[1]) /\ e # NULL /\ ~ attached(n)
        /\ pipe' = [pipe EXCEPT ![e] = [P EXCEPT !.active = @ \cup
                      {f \in {n[2]} : filt_pipe(P, f, peereof(P))}]]
        /\ UNCHANGED <<th, closing, nbigpipe>>

filt_pipedetach(n) ==
    /\ attached(n)
    /\ pipe' = [pipe EXCEPT ![notepipe(n)].notes = @ \ {n[2]},
                            ![notepipe(n)].active = @ \ {n[2]}]
    /\ UNCHANGED <<th, closing, nbigpipe>>

(* kqueue_scan() delivers an event whose filter still holds, and forgets   *)
(* one whose filter does not.                                              *)
kqueue_scan == \E e \in Ends : \E f \in pipe[e].active :
    /\ ~ filt_pipe(pipe[e], f, peereof(pipe[e]))
    /\ pipe' = [pipe EXCEPT ![e].active = @ \ {f}]
    /\ UNCHANGED <<th, closing, nbigpipe>>

-----------------------------------------------------------------------------
(* pipe_close() of end e, when the last reference to its file goes: no     *)
(* call but poll(2) is in progress on this end, and knote_fdclose() has    *)
(* detached its knotes.                                                    *)

(* The loop of pipeclose(), and what follows it, for the pipe P of end e. *)
CloseLoop(e, P) ==
    IF P.busy > 0
    THEN /\ pipe' = [pipe EXCEPT ![e] = tsleep(flag(wakeup(P), {"WANT"}), e)]
         /\ closing' = [closing EXCEPT ![e] = "asleep"]
         /\ UNCHANGED nbigpipe
    ELSE LET pp == wakeup(flag(selwake(pipe[P.peer], TRUE), {"EOF"}))
         IN  /\ pipe' = [f \in Ends |-> IF f = e THEN pipespace([pipe_create(e) EXCEPT !.peer = NULL], 0)
                           ELSE IF f = P.peer THEN [pp EXCEPT !.peer = NULL]
                           ELSE pipe[f]]
             /\ closing' = [closing EXCEPT ![e] = "freed"]
             /\ nbigpipe' = nbigpipe - big(P)

pipe_close(e) ==
    /\ Usable(e)
    /\ \A t \in Threads : th[t].pc \notin {"user", "selwait"} => th[t].call.end # e
    /\ \A n \in Notes : n[1] = e => ~ attached(n)
    /\ CloseLoop(e, flag(pipeselwakeup(pipe[e]), {"EOF"}))
    /\ UNCHANGED th

pipeclose_woken(e) ==
    /\ closing[e] = "asleep" /\ e \notin pipe[e].sleepers
    /\ CloseLoop(e, pipe[e])
    /\ UNCHANGED th

(* dopipe(): a new pipe. *)
dopipe ==
    /\ \A e \in Ends : closing[e] = "freed"
    /\ pipe' = [e \in Ends |-> pipe_create(e)]
    /\ closing' = [e \in Ends |-> "open"]
    /\ UNCHANGED <<th, nbigpipe>>

-----------------------------------------------------------------------------
ReadStep(t) == pipe_read_locked(t) \/ pipe_read_moved(t) \/ pipe_read_woken(t)
WriteStep(t) == \/ pipe_write_resize(t) \/ pipe_write_alloc(t) \/ pipe_write_locked(t)
                \/ pipe_write_moved(t) \/ pipe_write_woken(t)

(* What a thread does inside a call without anybody's help. *)
Run(t) == ReadStep(t) \/ WriteStep(t) \/ pipe_poll_woken(t) \/ Return(t)

Next == \/ \E t \in Threads :
             \/ Run(t)
             \/ pipe_read(t) \/ pipe_read_caught(t)
             \/ pipe_write(t) \/ pipe_write_epipe(t) \/ pipe_write_caught(t)
             \/ pipe_poll(t) \/ pipe_poll_ends(t)
        \/ \E e \in Ends : pipe_close(e) \/ pipeclose_woken(e)
        \/ \E n \in Notes : pipe_kqfilter(n) \/ filt_pipedetach(n)
        \/ kqueue_scan \/ dopipe

Spec == Init /\ [][Next]_vars

(* A thread that can run does, page faults and allocations end, and so     *)
(* does pipeclose() once it is woken.  Nobody has to call anything.        *)
FairSpec == /\ Spec
            /\ \A t \in Threads : WF_vars(Run(t))
            /\ \A e \in Ends : WF_vars(pipeclose_woken(e))

-----------------------------------------------------------------------------
(* The bytes in the buffer, in the order in which a reader will get them. *)
contents(P) == [k \in 1 .. P.cnt |-> P.buffer[(P.out + k - 1) % P.size]]

(* The ring buffer is sound, and PIPE_LOCK is held by exactly one thread   *)
(* whenever it is held: the counters that one computes before uiomove()    *)
(* or km_alloc() sleeps are still right when it returns.                   *)
RingSound == \A e \in Ends :
    LET P == pipe[e]
        holders == {t \in Threads : /\ th[t].pc \in {"rd_uiomove", "wr_uiomove", "km_alloc"}
                                    /\ th[t].p = e}
    IN  /\ P.cnt \in 0 .. P.size
        /\ closing[e] # "freed" => P.in = (P.out + P.cnt) % P.size
        /\ Cardinality(holders) = IF Locked(P) THEN 1 ELSE 0
        /\ \A t \in holders :
             /\ th[t].pc = "rd_uiomove" => /\ th[t].size \in 1 .. P.cnt
                                           /\ P.out + th[t].size <= P.size
             /\ th[t].pc = "wr_uiomove" => th[t].size \in 1 .. space(P)

(* The threads that are inside a call on the pipe of end e, and counted. *)
Inside(e) == {t \in Threads : /\ th[t].pc \notin {"user", "return", "selwait", "rd_pipelk"}
                              /\ th[t].p = e}

(* pipeclose() frees nothing that is in use: pipe_busy counts the threads   *)
(* inside, a thread inside a call, asleep or not, works on a pipe that is   *)
(* there, every pipe_peer points to one, and nbigpipe counts the big pipes. *)
NoUseAfterFree ==
    /\ \A e \in Ends : pipe[e].busy = Cardinality(Inside(e))
    /\ \A t \in Threads : th[t].pc \notin {"user", "return", "selwait"} => closing[th[t].p] # "freed"
    /\ \A e \in Ends : pipe[e].peer # NULL => closing[pipe[e].peer] # "freed"
    /\ nbigpipe = Cardinality({e \in Ends : pipe[e].size > PIPE_SIZE})

(* Somebody is in a call that works on the pipe of end e, and is not        *)
(* waiting in it for data, for space or for events.                         *)
Moving(e) == \E t \in Threads :
    /\ th[t].pc \notin {"user", "return", "selwait"} /\ th[t].p = e
    /\ th[t].pc \in {"piperd", "pipewr"} => t \notin pipe[e].sleepers

(* A pipeclose() has set PIPE_EOF and has yet to tell the other end. *)
ToClose == \E e \in Ends : closing[e] = "asleep"

(* Nobody sleeps through an event: a reader with data or at end of file, a  *)
(* writer with an empty buffer or without a reader, a poller with an event  *)
(* and a knote with an event (but for the end of file of a knote for        *)
(* writes) has been woken, or somebody is still to leave the pipe; and      *)
(* pipeclose() sleeps only while somebody inside is bound to wake it.       *)
(* pipe_poll() records a poll for no event nowhere, so that it sleeps       *)
(* through a hangup; a pipeclose() that sleeps has set PIPE_EOF, and tells  *)
(* the pollers and the readers' knotes of the other end when it goes on.    *)
NobodyForgotten ==
    /\ \A t \in Threads : LET P == pipe[th[t].p] IN
         /\ th[t].pc \notin {"user", "return", "selwait"} /\ t \in P.sleepers =>
              \/ Moving(th[t].p) /\ (th[t].pc \in {"piperd", "pipewr"} \/ Locked(P))
              \/ th[t].pc = "piperd" /\ P.cnt = 0 /\ "EOF" \notin P.state
              \/ th[t].pc = "pipewr" /\ P.cnt >= MINPIPESIZE /\ "EOF" \notin P.state
         /\ th[t].pc = "selwait" =>
              LET c == th[t].call IN
              \/ c.ev = {} \/ ToClose
              \/ \E e \in selrecord(c.end, c.ev) : t \notin pipe[e].sel \/ Moving(e)
              \/ ~ Revents(c.end, c.ev)
    /\ \A e \in Ends : \A f \in pipe[e].notes :
         \/ f \in pipe[e].active \/ Moving(e)
         \/ IF f = "EVFILT_WRITE" THEN "EOF" \in pipe[e].state ELSE ToClose
         \/ ~ filt_pipe(pipe[e], f, peereof(pipe[e]))
    /\ \A e \in Ends : closing[e] = "asleep" /\ e \in pipe[e].sleepers =>
         "WANT" \in pipe[e].state /\ Inside(e) # {}

(* Refuted (MCPipeKnote.cfg): a knote that waits for space is told when the *)
(* reader goes.  pipeclose() runs the knotes before it sets PIPE_EOF, so    *)
(* the filter of one on a full pipe does not hold yet, and nothing runs it  *)
(* again.                                                                   *)
EofTold == \A e \in Ends : "EVFILT_WRITE" \in pipe[e].notes /\ "EOF" \in pipe[e].state
                            => "EVFILT_WRITE" \in pipe[e].active

(* The pipe of end e is a stream of bytes: see PipeSpec. *)
Writing(t) == th[t].pc # "user" /\ th[t].call.op = "write"
Stream == INSTANCE PipeSpec WITH
    Sizes <- {c.n : c \in UNION {Calls[t] : t \in Threads}},
    Atomic <- PIPE_BUF,
    open <- {e \in Ends : closing[e] # "freed"},
    stream <- [e \in Ends |-> contents(pipe[e])],
    want <- [t \in Threads |-> IF Writing(t) THEN th[t].call.n ELSE 0],
    given <- [t \in Threads |-> IF Writing(t) THEN th[t].call.n - th[t].resid ELSE 0],
    got <- [t \in Threads |-> IF th[t].pc = "user" THEN << >> ELSE th[t].got]

(* Bytes come out in the order in which they went in, each once; none is    *)
(* lost, and a write of at most PIPE_BUF bytes is never torn.               *)
ImplementsStream == Stream!Spec

(* pipeclose() ends: the writers that it waits for see PIPE_EOF and leave,  *)
(* and the last of them wakes it.                                           *)
CloseEnds == \A e \in Ends : closing[e] = "asleep" ~> closing[e] = "freed"
=============================================================================
