----------------------------- MODULE PipeProof -----------------------------
(***************************************************************************)
(* The ring buffer of a pipe is sound, pipeclose() frees nothing that is   *)
(* in use, and the pipe is the byte stream of PipeSpec, for any number of  *)
(* threads and any sizes of buffers, reads and writes. The invariant IInv  *)
(* says what a thread has computed about a pipe and still relies on when   *)
(* it wakes up, and who keeps the others from changing it; WInv says what  *)
(* those who wait have left behind, and who is on his way to wake them.    *)
(***************************************************************************)
EXTENDS Pipe, FiniteSetTheorems, SequenceTheorems, TLAPS

Flags   == {"LOCK", "LWANT", "WANT", "WANTR", "WANTW", "SEL", "EOF"}
Filters == {"EVFILT_READ", "EVFILT_WRITE"}
Byte    == (Threads \X Nat) \cup {Junk}

PipeType ==
    [size : Nat, in : Nat, out : Nat, cnt : Nat,
     buffer : UNION {[0 .. n - 1 -> Byte] : n \in Nat},
     state : SUBSET Flags, peer : Ends \cup {NULL}, busy : Nat,
     sleepers : SUBSET (Threads \cup Ends), sel : SUBSET Threads,
     notes : SUBSET Filters, active : SUBSET Filters]

(* Where a thread may be. *)
Owning  == {"rd_uiomove", "wr_uiomove", "km_alloc"}     \* with PIPE_LOCK
Reading == {"rd_pipelk", "rd_uiomove", "piperd", "rd_relock"}
Writes  == {"rs_pipelk", "km_alloc", "wr_pipelk", "wr_uiomove", "pipewr"}
Counted == (Reading \cup Writes) \ {"rd_pipelk"}
Away    == {"return", "selwait"}

FrameType ==
    [pc : Reading \cup Writes \cup Away, call : Call, p : Ends, resid : Nat, size : Nat,
     got : Seq(Byte)]

TypeOK ==
    /\ pipe \in [Ends -> PipeType]
    /\ th \in [Threads -> {Idle} \cup FrameType]
    /\ closing \in [Ends -> {"open", "asleep", "freed"}]
    /\ nbigpipe \in Nat

(* The ring buffer of a pipe that is not freed. *)
Ring(P) ==
    /\ P.buffer \in [0 .. P.size - 1 -> Byte]
    /\ 0 < P.size /\ P.cnt <= P.size /\ P.out < P.size
    /\ P.in = IF P.out + P.cnt < P.size THEN P.out + P.cnt ELSE P.out + P.cnt - P.size

(* What a thread has computed about the pipe P before it sleeps. *)
Computed(P, L) ==
    /\ L.pc = "rd_uiomove" => /\ L.size \in 1 .. P.cnt /\ P.out + L.size <= P.size
                              /\ L.size <= L.resid
    /\ L.pc = "wr_uiomove" => /\ L.size \in 1 .. space(P) /\ L.size <= L.resid
                              /\ L.call.n <= PIPE_BUF => L.size = L.resid
    /\ L.pc = "wr_pipelk" => /\ 0 < L.size /\ 0 < L.resid
                             /\ L.call.n <= PIPE_BUF => L.resid <= L.size
    /\ L.pc \in Writes => /\ L.call.op = "write" /\ L.p = other(L.call.end)
                          /\ L.resid <= L.call.n
                          /\ L.call.n <= PIPE_BUF => L.resid \in {0, L.call.n}
    /\ L.pc \in Reading => L.call.op = "read" /\ L.p = L.call.end
    /\ L.pc = "selwait" => L.call.op = "poll" /\ L.got = << >>

(* PIPE_LOCK is set while one thread, and no other, is where it holds it. *)
Lock(e) ==
    /\ Locked(pipe[e]) <=> \E t \in Threads : th[t].pc \in Owning /\ th[t].p = e
    /\ \A t, u \in Threads :
         th[t].pc \in Owning /\ th[t].p = e /\ th[u].pc \in Owning /\ th[u].p = e => t = u

Thread(t) == th[t].pc # "user" =>
    /\ Computed(pipe[th[t].p], th[t])
    /\ th[t].pc \notin Away => closing[th[t].call.end] = "open" /\ closing[th[t].p] # "freed"

End(e) ==
    /\ closing[e] # "freed" => Ring(pipe[e])
    /\ closing[e] = "freed" => pipe[e].size = 0 /\ pipe[e].cnt = 0
    /\ closing[e] # "freed" => pipe[e].peer = IF closing[other(e)] = "freed" THEN NULL ELSE other(e)
    /\ closing[e] = "freed" => pipe[e].peer = NULL
    /\ pipe[e].busy = Cardinality(Inside(e))
    /\ Lock(e)

IInv ==
    /\ TypeOK
    /\ \A t \in Threads : Thread(t)
    /\ \A e \in Ends : End(e)
    /\ nbigpipe = big(pipe["a"]) + big(pipe["b"])

-----------------------------------------------------------------------------
(* What the operations on a struct pipe leave alone. *)

Kept(P, Q) ==
    /\ Q \in PipeType
    /\ Q.size = P.size /\ Q.in = P.in /\ Q.out = P.out /\ Q.cnt = P.cnt /\ Q.buffer = P.buffer
    /\ Q.peer = P.peer

(* Nothing but who waits, and for what. *)
Alike(P, Q) == Kept(P, Q) /\ Q.busy = P.busy /\ (Locked(Q) <=> Locked(P))

LEMMA AlikeTrans ==
  ASSUME NEW P, NEW Q, NEW R, Alike(P, Q), Alike(Q, R)
  PROVE  Alike(P, R)
  BY DEF Alike, Kept

LEMMA FlagAlike ==
  ASSUME NEW P \in PipeType, NEW f \in SUBSET (Flags \ {"LOCK"})
  PROVE  Alike(P, flag(P, f)) /\ Alike(P, unflag(P, f))
  BY DEF PipeType, Alike, Kept, Locked, flag, unflag, Flags

LEMMA QueueAlike ==
  ASSUME NEW P \in PipeType, NEW t \in Threads \cup Ends
  PROVE  Alike(P, wakeup(P)) /\ Alike(P, tsleep(P, t)) /\ Alike(P, unsleep(P, t))
  BY DEF PipeType, Alike, Kept, Locked, wakeup, tsleep, unsleep

LEMMA WakewantAlike ==
  ASSUME NEW P \in PipeType, NEW f \in Flags \ {"LOCK"}
  PROVE  Alike(P, wakewant(P, f))
<1>1. Alike(P, unflag(P, {f})) /\ unflag(P, {f}) \in PipeType
  BY FlagAlike DEF Alike, Kept
<1>2. Alike(unflag(P, {f}), wakeup(unflag(P, {f})))
  BY <1>1, QueueAlike DEF Ends
<1>3. Alike(P, wakeup(unflag(P, {f})))
  BY <1>1, <1>2, AlikeTrans
<1>4. Alike(P, P)
  BY DEF Alike, Kept
<1> QED BY <1>3, <1>4 DEF wakewant

LEMMA SelwakeAlike ==
  ASSUME NEW P \in PipeType, NEW b
  PROVE  Alike(P, selwake(P, b))
<1> DEFINE U == unflag(P, {"SEL"})
           V == [U EXCEPT !.sel = {}]
           Q == IF "SEL" \in P.state THEN V ELSE P
           A == {f \in Q.notes : filt_pipe(Q, f, b)}
           R == [Q EXCEPT !.active = @ \cup A]
<1>1. Alike(P, U) /\ U \in PipeType
  BY FlagAlike DEF Alike, Kept, Flags
<1>2. Alike(U, V)
  <2> HIDE DEF U
  <2> QED BY <1>1 DEF PipeType, Alike, Kept, Locked
<1>3. Alike(P, Q)
  <2>1. Alike(P, V)
    BY <1>1, <1>2, AlikeTrans
  <2>2. Alike(P, P)
    BY DEF Alike, Kept
  <2> HIDE DEF V
  <2> QED BY <2>1, <2>2
<1>4. Q \in PipeType
  BY <1>3 DEF Alike, Kept
<1> HIDE DEF Q
<1>5. A \subseteq Filters
  BY <1>4 DEF PipeType
<1> HIDE DEF A
<1>6. Alike(Q, R)
  BY <1>4, <1>5 DEF PipeType, Alike, Kept, Locked
<1>7. selwake(P, b) = R
  BY DEF selwake, R, A, Q, V, U
<1> QED BY <1>3, <1>6, <1>7, AlikeTrans

LEMMA UnlockKept ==
  ASSUME NEW P \in PipeType
  PROVE  /\ Kept(P, pipeunlock(P)) /\ pipeunlock(P).busy = P.busy
         /\ ~ Locked(pipeunlock(P))
<1> DEFINE U == unflag(P, {"LOCK"})
<1>1. Kept(P, U) /\ U.busy = P.busy /\ ~ Locked(U) /\ U \in PipeType
  BY DEF PipeType, Kept, Locked, unflag
<1> HIDE DEF U
<1>2. Alike(U, wakewant(U, "LWANT"))
  BY <1>1, WakewantAlike DEF Flags
<1> QED BY <1>1, <1>2 DEF Alike, Kept, pipeunlock, U

LEMMA LockKept ==
  ASSUME NEW P \in PipeType
  PROVE  /\ Kept(P, pipelock(P)) /\ pipelock(P).busy = P.busy /\ Locked(pipelock(P))
  BY DEF PipeType, Kept, Locked, pipelock, flag, Flags

LEMMA LockwaitAlike ==
  ASSUME NEW P \in PipeType, NEW t \in Threads
  PROVE  Alike(P, lockwait(P, t))
<1> DEFINE F == flag(P, {"LWANT"})
<1>1. Alike(P, F) /\ F \in PipeType
  BY FlagAlike DEF Alike, Kept, Flags
<1> HIDE DEF F
<1>2. Alike(F, tsleep(F, t))
  BY <1>1, QueueAlike
<1> QED BY <1>1, <1>2, AlikeTrans DEF lockwait, F

LEMMA Counters ==
  ASSUME NEW P \in PipeType
  PROVE  /\ P.cnt \in Nat /\ P.size \in Nat /\ P.in \in Nat /\ P.out \in Nat /\ P.busy \in Nat
         /\ space(P) \in Int /\ space(P) = P.size - P.cnt
<1>1. P.cnt \in Nat /\ P.size \in Nat /\ P.in \in Nat /\ P.out \in Nat /\ P.busy \in Nat
  BY DEF PipeType
<1> QED BY <1>1 DEF space

LEMMA EnterKept ==
  ASSUME NEW P \in PipeType
  PROVE  Kept(P, enter(P)) /\ enter(P).busy = P.busy + 1 /\ (Locked(enter(P)) <=> Locked(P))
<1> DEFINE b == P.busy + 1
           Q == [P EXCEPT !.busy = b]
<1>1. b \in Nat /\ enter(P) = Q
  BY Counters DEF enter
<1> HIDE DEF b
<1>2. Kept(P, Q) /\ Q.busy = b /\ (Locked(Q) <=> Locked(P))
  BY <1>1 DEF PipeType, Kept, Locked
<1> QED BY <1>1, <1>2 DEF b

LEMMA RundownKept ==
  ASSUME NEW P \in PipeType, 0 < P.busy, NEW w \in {"WANTR", "WANTW"}, NEW r
  PROVE  /\ Kept(P, rundown(P, w, r)) /\ rundown(P, w, r).busy = P.busy - 1
         /\ Locked(rundown(P, w, r)) <=> Locked(P)
<1> DEFINE Q == [P EXCEPT !.busy = @ - 1]
<1>1. Kept(P, Q) /\ Q.busy = P.busy - 1 /\ (Locked(Q) <=> Locked(P)) /\ Q \in PipeType
  <2> DEFINE b == P.busy - 1
             R == [P EXCEPT !.busy = b]
  <2>1. b \in Nat /\ Q = R
    BY Counters
  <2> HIDE DEF b, Q
  <2>2. Kept(P, R) /\ R.busy = b /\ (Locked(R) <=> Locked(P)) /\ R \in PipeType
    BY <2>1 DEF PipeType, Kept, Locked
  <2> QED BY <2>1, <2>2 DEF b
<1>2. rundown(P, w, r) = IF Q.busy = 0 /\ "WANT" \in Q.state
                         THEN wakeup(unflag(Q, {"WANT", w}))
                         ELSE IF r THEN wakewant(Q, w) ELSE Q
  BY DEF rundown
<1> HIDE DEF Q
<1>3. Alike(Q, unflag(Q, {"WANT", w})) /\ unflag(Q, {"WANT", w}) \in PipeType
  BY <1>1, FlagAlike DEF Flags, Alike, Kept
<1>4. Alike(unflag(Q, {"WANT", w}), wakeup(unflag(Q, {"WANT", w})))
  BY <1>3, QueueAlike DEF Ends
<1>5. Alike(Q, wakeup(unflag(Q, {"WANT", w})))
  BY <1>3, <1>4, AlikeTrans
<1>6. Alike(Q, wakewant(Q, w))
  BY <1>1, WakewantAlike DEF Flags
<1>7. Alike(Q, Q)
  BY <1>1 DEF Alike, Kept
<1>8. Alike(Q, rundown(P, w, r))
  BY <1>2, <1>5, <1>6, <1>7
<1> QED BY <1>1, <1>8 DEF Alike, Kept

(* The indices of a ring of size z, with c bytes from o on. *)
Index(z, o, c) == IF o + c < z THEN o + c ELSE o + c - z

LEMMA AdvanceIndex ==
  ASSUME NEW z \in Nat, NEW o \in Nat, NEW c \in Nat, NEW n \in 1 .. c,
         c <= z, o < z, o + n <= z
  PROVE  /\ (IF c = n \/ o + n >= z THEN 0 ELSE o + n) < z
         /\ (IF c = n THEN 0 ELSE Index(z, o, c)) =
              Index(z, IF c = n \/ o + n >= z THEN 0 ELSE o + n, c - n)
<1>1. CASE c = n
  BY <1>1 DEF Index
<1>2. CASE c # n /\ o + n >= z
  BY <1>2 DEF Index
<1>3. CASE c # n /\ o + n < z
  BY <1>3 DEF Index
<1> QED BY <1>1, <1>2, <1>3

LEMMA FillIndex ==
  ASSUME NEW z \in Nat, NEW o \in Nat, NEW c \in Nat, NEW n \in Nat \ {0},
         c + n <= z, o < z
  PROVE  LET i == Index(z, o, c)
         IN  (IF i + n >= z THEN n - least(z - i, n) ELSE i + n) = Index(z, o, c + n)
<1>1. CASE o + c < z /\ o + c + n < z
  BY <1>1 DEF Index, least
<1>2. CASE o + c < z /\ o + c + n >= z
  BY <1>2 DEF Index, least
<1>3. CASE o + c >= z
  BY <1>3 DEF Index, least
<1> QED BY <1>1, <1>2, <1>3

(* The ring buffer goes round. *)
LEMMA AdvanceRing ==
  ASSUME NEW P \in PipeType, Ring(P), NEW n \in 1 .. P.cnt, P.out + n <= P.size
  PROVE  /\ advance(P, n) \in PipeType /\ Ring(advance(P, n))
         /\ advance(P, n).size = P.size /\ advance(P, n).peer = P.peer
         /\ advance(P, n).busy = P.busy /\ advance(P, n).state = P.state
         /\ advance(P, n).cnt = P.cnt - n
<1> DEFINE empty == P.cnt = n
           C == P.cnt - n
           O == IF empty \/ P.out + n >= P.size THEN 0 ELSE P.out + n
           I == IF empty THEN 0 ELSE P.in
           B == [j \in DOMAIN P.buffer |-> IF j \in P.out .. P.out + n - 1 THEN Junk ELSE P.buffer[j]]
<1>1. advance(P, n) = [P EXCEPT !.cnt = C, !.out = O, !.in = I, !.buffer = B]
  BY DEF advance
<1>2. /\ P.size \in Nat /\ P.in \in Nat /\ P.out \in Nat /\ P.cnt \in Nat
      /\ P.buffer \in [0 .. P.size - 1 -> Byte]
  BY DEF PipeType, Ring
<1>3. C \in Nat /\ O \in Nat /\ I \in Nat
  BY <1>2
<1>4. B \in [0 .. P.size - 1 -> Byte]
  BY <1>2 DEF Byte
<1>5. /\ C <= P.size /\ O < P.size
      /\ I = IF O + C < P.size THEN O + C ELSE O + C - P.size
  <2>1. P.cnt <= P.size /\ P.out < P.size /\ P.in = Index(P.size, P.out, P.cnt)
    BY DEF Ring, Index
  <2>2. O < P.size /\ I = Index(P.size, O, C)
    <3>1. PICK z \in Nat, o \in Nat, c \in Nat : z = P.size /\ o = P.out /\ c = P.cnt
      BY <1>2
    <3>2. /\ (IF c = n \/ o + n >= z THEN 0 ELSE o + n) < z
          /\ (IF c = n THEN 0 ELSE Index(z, o, c)) =
              Index(z, IF c = n \/ o + n >= z THEN 0 ELSE o + n, c - n)
      BY <2>1, <3>1, AdvanceIndex, SMTT(30)
    <3> QED BY <2>1, <3>1, <3>2
  <2>3. C <= P.size
    BY <1>2, <2>1
  <2> QED BY <2>2, <2>3 DEF Index
<1> HIDE DEF C, O, I, B
<1>6. advance(P, n) \in PipeType
  <2>1. B \in UNION {[0 .. m - 1 -> Byte] : m \in Nat}
    BY <1>2, <1>4
  <2> QED BY <1>1, <1>3, <2>1 DEF PipeType
<1>7. /\ advance(P, n).cnt = C /\ advance(P, n).out = O /\ advance(P, n).in = I
      /\ advance(P, n).buffer = B /\ advance(P, n).size = P.size /\ advance(P, n).peer = P.peer
      /\ advance(P, n).busy = P.busy /\ advance(P, n).state = P.state
  BY <1>1 DEF PipeType
<1>8. Ring(advance(P, n))
  BY <1>4, <1>5, <1>7 DEF Ring
<1> QED BY <1>6, <1>7, <1>8 DEF C

LEMMA FillRing ==
  ASSUME NEW P \in PipeType, Ring(P), NEW s \in Seq(Byte), Len(s) \in 1 .. space(P)
  PROVE  /\ fill(P, s) \in PipeType /\ Ring(fill(P, s))
         /\ fill(P, s).size = P.size /\ fill(P, s).peer = P.peer
         /\ fill(P, s).busy = P.busy /\ fill(P, s).state = P.state
         /\ fill(P, s).cnt = P.cnt + Len(s)
<1> DEFINE n == Len(s)
           seg == least(P.size - P.in, n)
           C == P.cnt + n
           I == IF P.in + n >= P.size THEN n - seg ELSE P.in + n
           B == [j \in DOMAIN P.buffer |->
                   IF j \in P.in .. P.in + seg - 1 THEN s[j - P.in + 1]
                   ELSE IF j < n - seg THEN s[seg + j + 1]
                   ELSE P.buffer[j]]
<1>1. fill(P, s) = [P EXCEPT !.cnt = C, !.in = I, !.buffer = B]
  BY DEF fill
<1>2. /\ P.size \in Nat /\ P.in \in Nat /\ P.out \in Nat /\ P.cnt \in Nat
      /\ P.buffer \in [0 .. P.size - 1 -> Byte] /\ P.in < P.size
  BY DEF PipeType, Ring
<1>3. n \in Nat /\ n >= 1 /\ P.cnt + n <= P.size
  BY <1>2 DEF space
<1>4. seg \in Nat /\ seg <= n /\ seg <= P.size - P.in /\ (seg = n \/ seg = P.size - P.in)
  BY <1>2, <1>3 DEF least
<1> HIDE DEF seg
<1>5. C \in Nat /\ I \in Nat
  BY <1>2, <1>3, <1>4
<1>6. /\ C <= P.size
      /\ I = IF P.out + C < P.size THEN P.out + C ELSE P.out + C - P.size
  <2>1. P.out < P.size /\ P.in = Index(P.size, P.out, P.cnt)
    BY DEF Ring, Index
  <2>2. I = Index(P.size, P.out, C)
    BY <1>2, <1>3, <2>1, FillIndex DEF seg
  <2> QED BY <1>3, <2>2 DEF Index
<1>7. B \in [0 .. P.size - 1 -> Byte]
  <2> SUFFICES ASSUME NEW j \in 0 .. P.size - 1
               PROVE  (IF j \in P.in .. P.in + seg - 1 THEN s[j - P.in + 1]
                       ELSE IF j < n - seg THEN s[seg + j + 1] ELSE P.buffer[j]) \in Byte
    BY <1>2
  <2>1. \A k \in 1 .. n : s[k] \in Byte
    OBVIOUS
  <2>2. P.buffer[j] \in Byte
    BY <1>2
  <2>3. j \in P.in .. P.in + seg - 1 => j - P.in + 1 \in 1 .. n
    BY <1>2, <1>3, <1>4, SMTT(30)
  <2>4. j < n - seg => seg + j + 1 \in 1 .. n
    BY <1>3, <1>4
  <2> HIDE DEF n
  <2> QED BY <2>1, <2>2, <2>3, <2>4
<1> HIDE DEF C, I, B, n
<1>8. fill(P, s) \in PipeType
  <2>1. B \in UNION {[0 .. m - 1 -> Byte] : m \in Nat}
    BY <1>2, <1>7
  <2> QED BY <1>1, <1>5, <2>1 DEF PipeType
<1>9. /\ fill(P, s).cnt = C /\ fill(P, s).out = P.out /\ fill(P, s).in = I
      /\ fill(P, s).buffer = B /\ fill(P, s).size = P.size /\ fill(P, s).peer = P.peer
      /\ fill(P, s).busy = P.busy /\ fill(P, s).state = P.state
  BY <1>1 DEF PipeType
<1>10. Ring(fill(P, s))
  BY <1>6, <1>7, <1>9 DEF Ring
<1> QED BY <1>8, <1>9, <1>10 DEF C, n

LEMMA SpaceRing ==
  ASSUME NEW P \in PipeType, NEW n \in Nat
  PROVE  /\ pipespace(P, n) \in PipeType /\ (0 < n => Ring(pipespace(P, n)))
         /\ pipespace(P, n).size = n /\ pipespace(P, n).cnt = 0
         /\ pipespace(P, n).peer = P.peer
         /\ pipespace(P, n).busy = P.busy /\ pipespace(P, n).state = P.state
<1> DEFINE B == [i \in 0 .. n - 1 |-> Junk]
<1>1. B \in [0 .. n - 1 -> Byte] /\ B \in UNION {[0 .. m - 1 -> Byte] : m \in Nat}
  BY DEF Byte
<1>2. pipespace(P, n) = [P EXCEPT !.size = n, !.in = 0, !.out = 0, !.cnt = 0, !.buffer = B]
  BY DEF pipespace
<1> HIDE DEF B
<1>3. pipespace(P, n) \in PipeType
  <2> DEFINE Buf == UNION {[0 .. m - 1 -> Byte] : m \in Nat}
  <2>1. B \in Buf /\ n \in Nat /\ 0 \in Nat
    BY <1>1
  <2> HIDE DEF Buf
  <2>2. P \in [size : Nat, in : Nat, out : Nat, cnt : Nat, buffer : Buf,
                state : SUBSET Flags, peer : Ends \cup {NULL}, busy : Nat,
                sleepers : SUBSET (Threads \cup Ends), sel : SUBSET Threads,
                notes : SUBSET Filters, active : SUBSET Filters]
    BY DEF PipeType, Buf
  <2> QED BY <1>2, <2>1, <2>2 DEF PipeType, Buf
<1>4. /\ pipespace(P, n).size = n /\ pipespace(P, n).in = 0 /\ pipespace(P, n).out = 0
      /\ pipespace(P, n).cnt = 0 /\ pipespace(P, n).buffer = B /\ pipespace(P, n).peer = P.peer
      /\ pipespace(P, n).busy = P.busy /\ pipespace(P, n).state = P.state
  BY <1>2 DEF PipeType
<1> QED BY <1>1, <1>3, <1>4 DEF Ring

LEMMA CreateRing ==
  ASSUME NEW e \in Ends
  PROVE  /\ pipe_create(e) \in PipeType /\ Ring(pipe_create(e))
         /\ pipe_create(e).size = PIPE_SIZE /\ pipe_create(e).peer = other(e)
         /\ pipe_create(e).busy = 0 /\ pipe_create(e).state = {}
<1> DEFINE B == [i \in 0 .. PIPE_SIZE - 1 |-> Junk]
<1>1. PIPE_SIZE \in Nat /\ 0 < PIPE_SIZE
  BY PipeAssumption
<1>2. B \in [0 .. PIPE_SIZE - 1 -> Byte] /\ B \in UNION {[0 .. m - 1 -> Byte] : m \in Nat}
  BY <1>1 DEF Byte
<1>3. pipe_create(e) = [size |-> PIPE_SIZE, in |-> 0, out |-> 0, cnt |-> 0, buffer |-> B,
                        state |-> {}, peer |-> other(e), busy |-> 0,
                        sleepers |-> {}, sel |-> {}, notes |-> {}, active |-> {}]
  BY DEF pipe_create
<1> HIDE DEF B
<1>4. other(e) \in Ends \cup {NULL}
  BY DEF other, Ends
<1>5. pipe_create(e) \in PipeType
  BY <1>1, <1>2, <1>3, <1>4 DEF PipeType
<1> QED BY <1>1, <1>2, <1>3, <1>5 DEF Ring

-----------------------------------------------------------------------------
(* What a step of a thread may do: from the pipe P and the locals L, in the *)
(* middle of a call, to Q and M.                                            *)

LocalType ==
    [pc : Reading \cup Writes \cup Away \cup {"call"}, call : Call, p : Ends, resid : Nat,
     size : Nat, got : Seq(Byte)]

Goes(t, P, L, Q, M) ==
    /\ Step(t, Q, M)
    /\ M \in FrameType /\ M.p = L.p /\ M.call = L.call /\ M.resid = L.resid /\ M.got = L.got
    /\ Kept(P, Q)

(* The call returns. *)
Leaves(t, P, L, Q, M) ==
    /\ Goes(t, P, L, Q, M) /\ M.pc = "return"
    /\ Q.busy = P.busy - 1 /\ (Locked(Q) <=> Locked(P))

LEMMA AtType ==
  ASSUME NEW L \in LocalType, NEW pc \in Reading \cup Writes \cup Away
  PROVE  /\ At(L, pc) \in FrameType /\ At(L, pc).p = L.p /\ At(L, pc).call = L.call
         /\ At(L, pc).resid = L.resid /\ At(L, pc).got = L.got /\ At(L, pc).size = L.size
         /\ At(L, pc).pc = pc
  BY DEF LocalType, FrameType, At

(* The locals L, on the way to a transfer of n bytes. *)
Sized(L, pc, n) == [L EXCEPT !.pc = pc, !.size = n]

LEMMA SizedType ==
  ASSUME NEW L \in LocalType, NEW pc \in Reading \cup Writes, NEW n \in Nat
  PROVE  /\ Sized(L, pc, n) \in FrameType /\ Sized(L, pc, n).p = L.p
         /\ Sized(L, pc, n).call = L.call /\ Sized(L, pc, n).resid = L.resid
         /\ Sized(L, pc, n).got = L.got /\ Sized(L, pc, n).size = n /\ Sized(L, pc, n).pc = pc
  BY DEF LocalType, FrameType, Sized

LEMMA KeptTrans ==
  ASSUME NEW P, NEW Q, NEW R, Kept(P, Q), Kept(Q, R)
  PROVE  Kept(P, R)
  BY DEF Kept

LEMMA ReadEndGoes ==
  ASSUME NEW t \in Threads, NEW P \in PipeType, 0 < P.busy, NEW L \in LocalType, ReadEnd(t, P, L)
  PROVE  \E Q \in PipeType, M \in FrameType : Leaves(t, P, L, Q, M)
<1> DEFINE Q == rundown(P, "WANTW", P.cnt < MINPIPESIZE)
           R == IF space(Q) >= PIPE_BUF THEN pipeselwakeup(Q) ELSE Q
           M == At(L, "return")
<1>1. Step(t, R, M)
  BY DEF ReadEnd
<1>2. Kept(P, Q) /\ Q.busy = P.busy - 1 /\ (Locked(Q) <=> Locked(P)) /\ Q \in PipeType
  BY RundownKept DEF Kept
<1> HIDE DEF Q
<1>3. Alike(Q, Q) /\ Alike(Q, pipeselwakeup(Q))
  BY <1>2, SelwakeAlike DEF Alike, Kept, pipeselwakeup
<1>4. Alike(Q, R)
  BY <1>3
<1> HIDE DEF R
<1>5. M \in FrameType /\ M.p = L.p /\ M.call = L.call /\ M.resid = L.resid /\ M.got = L.got
      /\ M.pc = "return"
  BY AtType DEF Away
<1> HIDE DEF M
<1>6. Kept(P, R) /\ R.busy = P.busy - 1 /\ (Locked(R) <=> Locked(P)) /\ R \in PipeType
  BY <1>2, <1>4 DEF Alike, Kept
<1> QED BY <1>1, <1>5, <1>6 DEF Leaves, Goes

LEMMA WriteEndGoes ==
  ASSUME NEW t \in Threads, NEW P \in PipeType, 0 < P.busy, NEW L \in LocalType, WriteEnd(t, P, L)
  PROVE  \E Q \in PipeType, M \in FrameType : Leaves(t, P, L, Q, M)
<1> DEFINE Q == rundown(P, "WANTR", P.cnt > 0)
           R == IF Q.cnt > 0 THEN pipeselwakeup(Q) ELSE Q
           M == At(L, "return")
<1>1. Step(t, R, M)
  BY DEF WriteEnd
<1>2. Kept(P, Q) /\ Q.busy = P.busy - 1 /\ (Locked(Q) <=> Locked(P)) /\ Q \in PipeType
  BY RundownKept DEF Kept
<1> HIDE DEF Q
<1>3. Alike(Q, Q) /\ Alike(Q, pipeselwakeup(Q))
  BY <1>2, SelwakeAlike DEF Alike, Kept, pipeselwakeup
<1>4. Alike(Q, R)
  BY <1>3
<1> HIDE DEF R
<1>5. M \in FrameType /\ M.p = L.p /\ M.call = L.call /\ M.resid = L.resid /\ M.got = L.got
      /\ M.pc = "return"
  BY AtType DEF Away
<1> HIDE DEF M
<1>6. Kept(P, R) /\ R.busy = P.busy - 1 /\ (Locked(R) <=> Locked(P)) /\ R \in PipeType
  BY <1>2, <1>4 DEF Alike, Kept
<1> QED BY <1>1, <1>5, <1>6 DEF Leaves, Goes

(* The loop of pipe_read(), entered with PIPE_LOCK: it copies, returns or   *)
(* sleeps, without the lock in the last two.                                *)
ReadGoes(t, P, L, Q, M) ==
    /\ Goes(t, P, L, Q, M)
    /\ \/ /\ M.pc = "rd_uiomove" /\ Locked(Q) /\ Q.busy = P.busy
          /\ M.size \in 1 .. Q.cnt /\ Q.out + M.size <= Q.size /\ M.size <= M.resid
       \/ M.pc = "return" /\ ~ Locked(Q) /\ Q.busy = P.busy - 1
       \/ M.pc = "piperd" /\ ~ Locked(Q) /\ Q.busy = P.busy

LEMMA ReadLoopGoes ==
  ASSUME NEW t \in Threads, NEW P \in PipeType, Ring(P), Locked(P), 0 < P.busy,
         NEW L \in LocalType, ReadLoop(t, P, L)
  PROVE  \E Q \in PipeType, M \in FrameType : ReadGoes(t, P, L, Q, M)
<1> DEFINE W == wakewant(P, "WANTW")
           Q == pipeunlock(W)
           copy == L.resid > 0 /\ P.cnt > 0
           eof == L.resid = 0 \/ (P.cnt = 0 /\ "EOF" \in P.state)
           n == least(least(P.size - P.out, P.cnt), L.resid)
<1>1. /\ P.size \in Nat /\ P.out \in Nat /\ P.cnt \in Nat /\ P.busy \in Nat /\ L.resid \in Nat
      /\ P.out < P.size
  BY DEF PipeType, LocalType, Ring
<1>2. /\ copy => Step(t, P, [L EXCEPT !.pc = "rd_uiomove", !.size = n])
      /\ eof => ReadEnd(t, pipeunlock(P), L)
      /\ ~ copy /\ ~ eof => \/ ReadEnd(t, Q, L)
                           \/ Step(t, tsleep(flag(Q, {"WANTR"}), t), At(L, "piperd"))
  <2>1. ~ (copy /\ eof)
    BY <1>1
  <2> QED BY <2>1 DEF ReadLoop
<1>3. Kept(P, Q) /\ Q.busy = P.busy /\ ~ Locked(Q) /\ Q \in PipeType
  <2>1. Alike(P, W) /\ W \in PipeType
    BY WakewantAlike DEF Flags, Alike, Kept
  <2> HIDE DEF W
  <2> QED BY <2>1, UnlockKept DEF Alike, Kept
<1> HIDE DEF Q
<1>4. ASSUME NEW R \in PipeType, Kept(P, R), R.busy = P.busy, ~ Locked(R), ReadEnd(t, R, L)
      PROVE  \E S \in PipeType, M \in FrameType : ReadGoes(t, P, L, S, M)
  <2>1. PICK S \in PipeType, M \in FrameType : Leaves(t, R, L, S, M)
    BY <1>4, ReadEndGoes
  <2>2. ReadGoes(t, P, L, S, M)
    BY <1>4, <2>1 DEF Leaves, Goes, ReadGoes, Kept
  <2> QED BY <2>2
<1>5. CASE copy
  <2> DEFINE M == Sized(L, "rd_uiomove", n)
  <2>1. n \in Nat /\ n > 0 /\ n <= P.size - P.out /\ n <= P.cnt /\ n <= L.resid
    <3>1. P.size - P.out \in Nat /\ P.size - P.out > 0
      BY <1>1
    <3>2. /\ least(P.size - P.out, P.cnt) \in Nat /\ least(P.size - P.out, P.cnt) > 0
          /\ least(P.size - P.out, P.cnt) <= P.size - P.out /\ least(P.size - P.out, P.cnt) <= P.cnt
      BY <1>1, <1>5, <3>1 DEF least
    <3> QED BY <1>1, <1>5, <3>1, <3>2 DEF least
  <2> HIDE DEF n
  <2>2. M \in FrameType /\ M.p = L.p /\ M.call = L.call /\ M.resid = L.resid /\ M.got = L.got
        /\ M.pc = "rd_uiomove" /\ M.size = n
    BY <2>1, SizedType DEF Reading
  <2>3. Step(t, P, M) /\ Kept(P, P)
    BY <1>2, <1>5 DEF Kept, Sized
  <2> HIDE DEF M
  <2>4. M.size \in 1 .. P.cnt /\ P.out + M.size <= P.size /\ M.size <= M.resid
    BY <1>1, <2>1, <2>2
  <2>5. ReadGoes(t, P, L, P, M)
    BY <2>2, <2>3, <2>4 DEF ReadGoes, Goes
  <2> QED BY <2>2, <2>5
<1>6. CASE eof
  BY <1>2, <1>4, <1>6, UnlockKept DEF Kept
<1>7. CASE ReadEnd(t, Q, L)
  BY <1>3, <1>4, <1>7
<1>8. CASE Step(t, tsleep(flag(Q, {"WANTR"}), t), At(L, "piperd"))
  <2> DEFINE F == flag(Q, {"WANTR"})
             S == tsleep(F, t)
             M == At(L, "piperd")
  <2>1. Alike(Q, F) /\ F \in PipeType
    BY <1>3, FlagAlike DEF Flags, Alike, Kept
  <2> HIDE DEF F
  <2>2. Alike(F, S) /\ S \in PipeType
    BY <2>1, QueueAlike DEF Alike, Kept
  <2> HIDE DEF S
  <2>3. M \in FrameType /\ M.p = L.p /\ M.call = L.call /\ M.resid = L.resid /\ M.got = L.got
        /\ M.pc = "piperd"
    BY AtType DEF Reading
  <2> HIDE DEF M
  <2>4. ReadGoes(t, P, L, S, M)
    BY <1>3, <1>8, <2>1, <2>2, <2>3 DEF Alike, Kept, Goes, ReadGoes, S, F, M
  <2> QED BY <2>2, <2>3, <2>4
<1> QED BY <1>2, <1>5, <1>6, <1>7, <1>8

(* The loop of pipe_write(), entered without PIPE_LOCK, though another may  *)
(* hold it.                                                                 *)
WriteGoes(t, P, L, Q, M) ==
    /\ Goes(t, P, L, Q, M)
    /\ \/ /\ M.pc = "wr_uiomove" /\ ~ Locked(P) /\ Locked(Q) /\ Q.busy = P.busy
          /\ M.size \in 1 .. space(Q) /\ M.size <= M.resid
          /\ M.call.n <= PIPE_BUF => M.size = M.resid
       \/ /\ M.pc = "wr_pipelk" /\ (Locked(Q) <=> Locked(P)) /\ Q.busy = P.busy
          /\ 0 < M.size /\ 0 < M.resid
          /\ M.call.n <= PIPE_BUF => M.resid <= M.size
       \/ M.pc = "return" /\ (Locked(Q) <=> Locked(P)) /\ Q.busy = P.busy - 1
       \/ M.pc = "pipewr" /\ (Locked(Q) <=> Locked(P)) /\ Q.busy = P.busy

LEMMA TransferGoes ==
  ASSUME NEW t \in Threads, NEW P \in PipeType, Ring(P), ~ Locked(P), NEW L \in LocalType,
         NEW n \in 1 .. space(P), 0 < L.resid, L.call.n <= PIPE_BUF => L.resid <= n,
         Transfer(t, P, L, n)
  PROVE  \E Q \in PipeType, M \in FrameType : WriteGoes(t, P, L, Q, M)
<1> DEFINE m == least(n, L.resid)
           Q == pipelock(P)
           M == Sized(L, "wr_uiomove", m)
<1>1. P.size \in Nat /\ P.cnt \in Nat /\ L.resid \in Nat /\ space(P) \in Nat
  BY DEF PipeType, LocalType, Ring, space
<1>2. m \in Nat /\ 0 < m /\ m <= space(P) /\ m <= L.resid /\ (m = n \/ m = L.resid)
  BY <1>1 DEF least
<1>3. Kept(P, Q) /\ Q.busy = P.busy /\ Locked(Q) /\ Q \in PipeType
  BY LockKept DEF Kept
<1>4. Step(t, Q, M)
  BY DEF Transfer, Sized
<1> HIDE DEF Q, m
<1>5. M \in FrameType /\ M.p = L.p /\ M.call = L.call /\ M.resid = L.resid /\ M.got = L.got
      /\ M.pc = "wr_uiomove" /\ M.size = m
  BY <1>2, SizedType DEF Writes
<1> HIDE DEF M
<1>6. space(Q) = space(P)
  BY <1>3 DEF Kept, space
<1>7. L.call.n <= PIPE_BUF => m = L.resid
  BY <1>1, <1>2
<1>8. M.size \in 1 .. space(Q) /\ M.size <= M.resid
  BY <1>1, <1>2, <1>5, <1>6
<1>9. WriteGoes(t, P, L, Q, M)
  BY <1>3, <1>4, <1>5, <1>7, <1>8 DEF WriteGoes, Goes
<1> QED BY <1>3, <1>5, <1>9

LEMMA WriteLoopGoes ==
  ASSUME NEW t \in Threads, NEW P \in PipeType, Ring(P), 0 < P.busy,
         NEW L \in LocalType, WriteLoop(t, P, L)
  PROVE  \E Q \in PipeType, M \in FrameType : WriteGoes(t, P, L, Q, M)
<1> DEFINE n == room(P, L)
           Q == wakewant(P, "WANTR")
           end == L.resid = 0 \/ "EOF" \in P.state
           give == L.resid > 0 /\ "EOF" \notin P.state /\ n > 0
<1>1. /\ P.size \in Nat /\ P.cnt \in Nat /\ P.busy \in Nat /\ L.resid \in Nat /\ L.call.n \in Nat
      /\ space(P) \in Nat
  BY DEF PipeType, LocalType, Ring, space, Call
<1>2. n \in Nat /\ n <= space(P) /\ (n > 0 /\ L.call.n <= PIPE_BUF => L.resid <= n)
  BY <1>1 DEF room
<1> HIDE DEF n
<1>3. /\ end => WriteEnd(t, P, L)
      /\ give => IF Locked(P)
                 THEN Step(t, lockwait(P, t), [L EXCEPT !.pc = "wr_pipelk", !.size = n])
                 ELSE Transfer(t, P, L, n)
      /\ ~ end /\ ~ give =>
           \/ WriteEnd(t, Q, L)
           \/ Step(t, tsleep(flag(pipeselwakeup(Q), {"WANTW"}), t), At(L, "pipewr"))
  <2>1. ~ (end /\ give)
    BY <1>1
  <2> QED BY <2>1 DEF WriteLoop, n
<1>4. Alike(P, Q) /\ Q \in PipeType
  BY WakewantAlike DEF Flags, Alike, Kept
<1> HIDE DEF Q
<1>5. ASSUME NEW R \in PipeType, Alike(P, R), WriteEnd(t, R, L)
      PROVE  \E S \in PipeType, M \in FrameType : WriteGoes(t, P, L, S, M)
  <2>1. PICK S \in PipeType, M \in FrameType : Leaves(t, R, L, S, M)
    BY <1>5, WriteEndGoes DEF Alike
  <2>2. WriteGoes(t, P, L, S, M)
    BY <1>5, <2>1 DEF Leaves, Goes, WriteGoes, Alike, Kept
  <2> QED BY <2>2
<1>6. CASE end
  <2>1. Alike(P, P)
    BY DEF Alike, Kept
  <2> QED BY <1>3, <1>5, <1>6, <2>1
<1>7. CASE give /\ Locked(P)
  <2> DEFINE M == Sized(L, "wr_pipelk", n)
             S == lockwait(P, t)
  <2>1. M \in FrameType /\ M.p = L.p /\ M.call = L.call /\ M.resid = L.resid /\ M.got = L.got
        /\ M.pc = "wr_pipelk" /\ M.size = n
    BY <1>2, SizedType DEF Writes
  <2>2. Alike(P, S) /\ S \in PipeType
    BY LockwaitAlike DEF Alike, Kept
  <2>3. Step(t, S, M)
    BY <1>3, <1>7 DEF Sized
  <2> HIDE DEF M, S
  <2>4. 0 < M.size /\ 0 < M.resid /\ (M.call.n <= PIPE_BUF => M.resid <= M.size)
    BY <1>1, <1>2, <1>7, <2>1
  <2>5. WriteGoes(t, P, L, S, M)
    BY <2>1, <2>2, <2>3, <2>4 DEF WriteGoes, Goes, Alike
  <2> QED BY <2>1, <2>2, <2>5
<1>8. CASE give /\ ~ Locked(P)
  <2>1. n \in 1 .. space(P) /\ 0 < L.resid /\ Transfer(t, P, L, n)
    BY <1>1, <1>2, <1>3, <1>8
  <2> QED BY <1>2, <1>8, <2>1, TransferGoes
<1>9. CASE WriteEnd(t, Q, L)
  BY <1>4, <1>5, <1>9
<1>10. CASE Step(t, tsleep(flag(pipeselwakeup(Q), {"WANTW"}), t), At(L, "pipewr"))
  <2> DEFINE G == pipeselwakeup(Q)
             F == flag(G, {"WANTW"})
             S == tsleep(F, t)
             M == At(L, "pipewr")
  <2>1. Alike(Q, G) /\ G \in PipeType
    BY <1>4, SelwakeAlike DEF Alike, Kept, pipeselwakeup
  <2> HIDE DEF G
  <2>2. Alike(G, F) /\ F \in PipeType
    BY <2>1, FlagAlike DEF Flags, Alike, Kept
  <2> HIDE DEF F
  <2>3. Alike(F, S) /\ S \in PipeType
    BY <2>2, QueueAlike DEF Alike, Kept
  <2> HIDE DEF S
  <2>4. Alike(P, S)
    BY <1>4, <2>1, <2>2, <2>3, AlikeTrans
  <2>5. M \in FrameType /\ M.p = L.p /\ M.call = L.call /\ M.resid = L.resid /\ M.got = L.got
        /\ M.pc = "pipewr"
    BY AtType DEF Writes
  <2>6. Step(t, S, M)
    BY <1>10 DEF S, F, G
  <2> HIDE DEF M
  <2>7. WriteGoes(t, P, L, S, M)
    BY <2>4, <2>5, <2>6 DEF WriteGoes, Goes, Alike
  <2> QED BY <2>3, <2>5, <2>7
<1> QED BY <1>3, <1>6, <1>7, <1>8, <1>9, <1>10

-----------------------------------------------------------------------------

In(L) == L.pc \in Counted
Owns(L) == L.pc \in Owning

(* A step of thread t that leaves the pipe of end e as Q and its locals as  *)
(* M: one that may change the ring, as t has PIPE_LOCK or finds it free, or *)
(* one that changes only who waits.                                         *)
Moves(t, e, Q, M) ==
    /\ th[t].pc = "user" \/ (th[t].pc \in Reading \cup Writes /\ th[t].p = e)
    /\ closing[e] # "freed" /\ closing' = closing
    /\ pipe' = [pipe EXCEPT ![e] = Q] /\ th' = [th EXCEPT ![t] = M]
    /\ nbigpipe' = nbigpipe - big(pipe[e]) + big(Q)
    /\ Q \in PipeType /\ Ring(Q) /\ Q.peer = pipe[e].peer
    /\ M \in FrameType /\ M.p = e /\ Computed(Q, M) /\ M.pc # "selwait"
    /\ M.pc # "return" => closing[M.call.end] = "open"
    /\ Q.busy = pipe[e].busy + (IF In(M) THEN 1 ELSE 0) - (IF In(th[t]) THEN 1 ELSE 0)
    /\ \/ /\ Owns(th[t]) \/ ~ Locked(pipe[e])
          /\ Locked(Q) <=> Owns(M)
       \/ /\ ~ Owns(th[t]) /\ ~ Owns(M) /\ (Locked(Q) <=> Locked(pipe[e]))
          /\ Q.cnt = pipe[e].cnt /\ Q.size = pipe[e].size /\ Q.out = pipe[e].out

LEMMA InsideIs ==
  ASSUME TypeOK, NEW e \in Ends
  PROVE  /\ Inside(e) = {u \in Threads : In(th[u]) /\ th[u].p = e}
         /\ IsFiniteSet(Inside(e)) /\ Cardinality(Inside(e)) \in Nat
<1>1. \A u \in Threads :
        In(th[u]) <=> th[u].pc \notin {"user", "return", "selwait", "rd_pipelk"}
  BY DEF TypeOK, FrameType, Idle, In, Counted, Reading, Writes, Away
<1>2. Inside(e) = {u \in Threads : In(th[u]) /\ th[u].p = e}
  BY <1>1 DEF Inside
<1>3. Inside(e) \subseteq Threads
  BY DEF Inside
<1>4. IsFiniteSet(Inside(e))
  BY <1>3, PipeAssumption, FS_Subset
<1> QED BY <1>2, <1>4, FS_CardinalityType

LEMMA MovesType ==
  ASSUME IInv, NEW t \in Threads, NEW e \in Ends, NEW Q, NEW M, Moves(t, e, Q, M)
  PROVE  TypeOK' /\ nbigpipe' = big(pipe'["a"]) + big(pipe'["b"])
<1>1. TypeOK /\ nbigpipe = big(pipe["a"]) + big(pipe["b"]) /\ Q \in PipeType /\ M \in FrameType
  BY DEF IInv, Moves
<1>2. pipe' \in [Ends -> PipeType] /\ th' \in [Threads -> {Idle} \cup FrameType] /\ closing' = closing
  BY <1>1 DEF Moves, TypeOK
<1>3. \A P : big(P) \in {0, 1}
  BY DEF big
<1>4. nbigpipe' = big(pipe'["a"]) + big(pipe'["b"])
  <2>1. nbigpipe' = nbigpipe - big(pipe[e]) + big(Q) /\ pipe' = [pipe EXCEPT ![e] = Q]
    BY DEF Moves
  <2>2. CASE e = "a"
    <3>1. pipe'["a"] = Q /\ pipe'["b"] = pipe["b"]
      BY <1>1, <2>1, <2>2 DEF TypeOK, Ends
    <3> QED BY <1>1, <1>3, <2>1, <2>2, <3>1
  <2>3. CASE e = "b"
    <3>1. pipe'["b"] = Q /\ pipe'["a"] = pipe["a"]
      BY <1>1, <2>1, <2>3 DEF TypeOK, Ends
    <3> QED BY <1>1, <1>3, <2>1, <2>3, <3>1
  <2> QED BY <2>2, <2>3 DEF Ends
<1>5. nbigpipe' \in Nat
  BY <1>3, <1>4
<1> QED BY <1>1, <1>2, <1>4, <1>5 DEF TypeOK

LEMMA MovesInv ==
  ASSUME IInv, NEW t \in Threads, NEW e \in Ends, NEW Q, NEW M, Moves(t, e, Q, M)
  PROVE  IInv'
<1>1. /\ TypeOK /\ TypeOK' /\ (\A u \in Threads : Thread(u)) /\ (\A f \in Ends : End(f))
      /\ nbigpipe' = big(pipe'["a"]) + big(pipe'["b"])
  BY MovesType DEF IInv
<1>2. /\ th'[t] = M /\ pipe'[e] = Q /\ closing' = closing
      /\ \A u \in Threads \ {t} : th'[u] = th[u]
      /\ \A f \in Ends \ {e} : pipe'[f] = pipe[f]
  BY <1>1 DEF Moves, TypeOK
<1>3. ASSUME NEW u \in Threads \ {t}, th[u].pc # "user", th[u].p = e
      PROVE  Computed(Q, th[u])
  <2>1. Computed(pipe[e], th[u])
    BY <1>1, <1>3 DEF Thread
  <2>2. CASE Q.cnt = pipe[e].cnt /\ Q.size = pipe[e].size /\ Q.out = pipe[e].out
    BY <2>1, <2>2 DEF Computed, space
  <2>3. CASE Owns(th[t]) \/ ~ Locked(pipe[e])
    <3>1. Lock(e) /\ (Owns(th[t]) => th[t].p = e)
      BY <1>1 DEF End, Moves, Owns, Owning
    <3>2. ~ Owns(th[u])
      BY <1>3, <2>3, <3>1 DEF Lock, Owns
    <3> QED BY <2>1, <3>2 DEF Computed, Owns, Owning
  <2> QED BY <2>2, <2>3 DEF Moves
<1>4. ASSUME NEW u \in Threads PROVE Thread(u)'
  <2>1. CASE u = t
    BY <1>1, <1>2, <2>1 DEF Thread, Moves, Away
  <2>2. CASE u # t /\ th[u].pc # "user" /\ th[u].p = e
    BY <1>1, <1>2, <1>3, <2>2 DEF Thread
  <2>3. CASE u # t /\ th[u].pc # "user" /\ th[u].p # e
    <3>1. th[u].p \in Ends
      BY <1>1, <2>3 DEF TypeOK, FrameType, Idle
    <3> QED BY <1>1, <1>2, <2>3, <3>1 DEF Thread
  <2>4. CASE u # t /\ th[u].pc = "user"
    BY <1>2, <2>4 DEF Thread
  <2> QED BY <2>1, <2>2, <2>3, <2>4
<1>5. ASSUME NEW f \in Ends PROVE (pipe[f].busy = Cardinality(Inside(f)))'
  <2>1. /\ IsFiniteSet(Inside(f)) /\ pipe[f].busy = Cardinality(Inside(f))
        /\ Cardinality(Inside(f)) \in Nat
    BY <1>1, InsideIs DEF End
  <2>2. Inside(f) = {u \in Threads : In(th[u]) /\ th[u].p = f}
    BY <1>1, InsideIs
  <2>3. Inside(f)' = {u \in Threads : In(th'[u]) /\ th'[u].p = f}
    <3>1. \A u \in Threads :
            In(th'[u]) <=> th'[u].pc \notin {"user", "return", "selwait", "rd_pipelk"}
      BY <1>1 DEF TypeOK, FrameType, Idle, In, Counted, Reading, Writes, Away
    <3> QED BY <3>1 DEF Inside
  <2>4. CASE f # e
    <3>1. Inside(f)' = Inside(f)
      BY <1>2, <2>2, <2>3, <2>4 DEF Moves, In, Counted, Reading, Writes
    <3> QED BY <1>2, <2>1, <2>4, <3>1
  <2>5. CASE f = e /\ In(th[t]) /\ In(M)
    <3>1. Inside(f)' = Inside(f)
      BY <1>2, <2>2, <2>3, <2>5 DEF Moves, In, Counted, Reading, Writes
    <3> QED BY <1>2, <2>1, <2>5, <3>1 DEF Moves
  <2>6. CASE f = e /\ ~ In(th[t]) /\ ~ In(M)
    <3>1. Inside(f)' = Inside(f)
      BY <1>2, <2>2, <2>3, <2>6
    <3> QED BY <1>2, <2>1, <2>6, <3>1 DEF Moves
  <2>7. CASE f = e /\ ~ In(th[t]) /\ In(M)
    <3>1. Inside(f)' = Inside(f) \cup {t} /\ t \notin Inside(f)
      BY <1>2, <2>2, <2>3, <2>7 DEF Moves
    <3>2. Cardinality(Inside(f)') = Cardinality(Inside(f)) + 1
      BY <2>1, <3>1, FS_AddElement
    <3> QED BY <1>2, <2>1, <2>7, <3>2 DEF Moves
  <2>8. CASE f = e /\ In(th[t]) /\ ~ In(M)
    <3>1. Inside(f)' = Inside(f) \ {t} /\ t \in Inside(f)
      BY <1>2, <2>2, <2>3, <2>8 DEF Moves, In, Counted, Reading, Writes
    <3>2. Cardinality(Inside(f)') = Cardinality(Inside(f)) - 1
      BY <2>1, <3>1, FS_RemoveElement
    <3> QED BY <1>2, <2>1, <2>8, <3>2 DEF Moves
  <2> QED BY <2>4, <2>5, <2>6, <2>7, <2>8
<1>6. ASSUME NEW f \in Ends PROVE Lock(f)'
  <2>1. Lock(f)
    BY <1>1 DEF End
  <2>2. CASE f # e
    BY <1>2, <2>1, <2>2 DEF Lock, Moves, Locked, Owning, Reading, Writes
  <2>3. CASE f = e /\ (Owns(th[t]) \/ ~ Locked(pipe[e])) /\ (Locked(Q) <=> Owns(M))
    <3>1. M.p = e /\ (Owns(th[t]) => th[t].p = e)
      BY DEF Moves, Owns, Owning
    <3>2. \A u \in Threads \ {t} : ~ (th'[u].pc \in Owning /\ th'[u].p = e)
      BY <1>2, <2>1, <2>3, <3>1 DEF Lock, Owns
    <3> QED BY <1>2, <2>3, <3>1, <3>2 DEF Lock, Locked, Owns
  <2>4. CASE f = e /\ ~ Owns(th[t]) /\ ~ Owns(M) /\ (Locked(Q) <=> Locked(pipe[e]))
    BY <1>2, <2>1, <2>4 DEF Lock, Locked, Owns
  <2> QED BY <2>2, <2>3, <2>4 DEF Moves
<1>7. ASSUME NEW f \in Ends PROVE End(f)'
  <2>1. /\ (closing[f] # "freed" => Ring(pipe[f]))'
        /\ (closing[f] = "freed" => pipe[f].size = 0 /\ pipe[f].cnt = 0)'
        /\ (closing[f] # "freed" =>
              pipe[f].peer = IF closing[other(f)] = "freed" THEN NULL ELSE other(f))'
        /\ (closing[f] = "freed" => pipe[f].peer = NULL)'
    <3>1. CASE f = e
      BY <1>1, <1>2, <3>1 DEF End, Moves, Ring
    <3>2. CASE f # e
      BY <1>1, <1>2, <3>2 DEF End, Ring
    <3> QED BY <3>1, <3>2
  <2> QED BY <1>5, <1>6, <2>1 DEF End
<1> QED BY <1>1, <1>4, <1>7 DEF IInv, big

(* The data that a step takes along: from P and L to Q and M nothing is     *)
(* put into the ring or taken out of it.                                    *)
Carries(P, L, Q, M) ==
    Kept(P, Q) /\ M.call = L.call /\ M.resid = L.resid /\ M.got = L.got

(* A thread inside a call is counted. *)
LEMMA InsideBusy ==
  ASSUME IInv, NEW t \in Threads, In(th[t])
  PROVE  0 < pipe[th[t].p].busy /\ th[t].p \in Ends
<1>1. th[t].p \in Ends
  BY DEF IInv, TypeOK, FrameType, Idle, In, Counted, Reading, Writes
<1> DEFINE X == Inside(th[t].p)
<1>2. t \in X /\ IsFiniteSet(X) /\ Cardinality(X) \in Nat
  BY <1>1, InsideIs DEF IInv
<1>3. pipe[th[t].p].busy = Cardinality(X)
  BY <1>1 DEF IInv, End
<1> HIDE DEF X
<1>4. Cardinality(X) # 0
  BY <1>2, FS_EmptySet
<1> QED BY <1>1, <1>2, <1>3, <1>4

LEMMA ReadMoves ==
  ASSUME IInv, NEW t \in Threads, NEW e \in Ends, closing[e] = "open",
         th[t].pc = "user" \/ (th[t].pc \in Reading /\ th[t].p = e),
         NEW P \in PipeType, Ring(P), Locked(P), P.peer = pipe[e].peer, P.size = pipe[e].size,
         P.busy = pipe[e].busy + (IF In(th[t]) THEN 0 ELSE 1),
         Owns(th[t]) \/ ~ Locked(pipe[e]),
         NEW L \in LocalType, L.p = e, L.call.end = e, L.call.op = "read",
         ReadLoop(t, P, L), UNCHANGED nbigpipe
  PROVE  \E Q, M : Moves(t, e, Q, M) /\ Carries(P, L, Q, M)
<1>1. pipe[e].busy \in Nat /\ nbigpipe \in Nat /\ pipe[e] \in PipeType
  BY DEF IInv, TypeOK, PipeType
<1>2. 0 < P.busy /\ P.busy \in Nat
  <2>1. CASE In(th[t])
    <3>1. th[t].p = e
      BY <2>1 DEF In, Counted, Reading, Writes
    <3> QED BY <1>1, <2>1, <3>1, InsideBusy
  <2>2. CASE ~ In(th[t])
    BY <1>1, <2>2
  <2> QED BY <2>1, <2>2
<1>3. PICK Q \in PipeType, M \in FrameType : ReadGoes(t, P, L, Q, M)
  BY <1>2, ReadLoopGoes
<1>4. /\ Kept(P, Q) /\ M.p = e /\ M.call = L.call /\ M.resid = L.resid /\ M.got = L.got
      /\ Step(t, Q, M)
  BY <1>3 DEF ReadGoes, Goes
<1>5. Ring(Q) /\ Q.peer = pipe[e].peer /\ Q.size = pipe[e].size
  BY <1>4 DEF Kept, Ring
<1>6. nbigpipe' = nbigpipe - big(pipe[e]) + big(Q)
  BY <1>1, <1>5 DEF big
<1>7. pipe' = [pipe EXCEPT ![e] = Q] /\ th' = [th EXCEPT ![t] = M] /\ closing' = closing
  BY <1>4 DEF Step
<1>8. /\ M.pc \in {"rd_uiomove", "piperd", "return"}
      /\ Locked(Q) <=> Owns(M)
      /\ Q.busy = P.busy - (IF In(M) THEN 0 ELSE 1)
      /\ Computed(Q, M)
  <2>1. M.pc \in {"rd_uiomove", "piperd", "return"}
    BY <1>3 DEF ReadGoes
  <2>2. Locked(Q) <=> Owns(M)
    BY <1>3 DEF ReadGoes, Owns, Owning
  <2>3. Q.busy = P.busy - (IF In(M) THEN 0 ELSE 1)
    <3>1. /\ M.pc \in {"rd_uiomove", "piperd"} => In(M) /\ Q.busy = P.busy
          /\ M.pc = "return" => ~ In(M) /\ Q.busy = P.busy - 1
      BY <1>3 DEF ReadGoes, In, Counted, Reading, Writes
    <3> QED BY <1>2, <2>1, <3>1
  <2>4. Computed(Q, M)
    BY <1>3, <1>4, <2>1 DEF ReadGoes, Computed, Reading, Writes
  <2> QED BY <2>1, <2>2, <2>3, <2>4
<1>9. Q.busy = pipe[e].busy + (IF In(M) THEN 1 ELSE 0) - (IF In(th[t]) THEN 1 ELSE 0)
  BY <1>1, <1>8
<1>10. Moves(t, e, Q, M)
  BY <1>4, <1>5, <1>6, <1>7, <1>8, <1>9 DEF Moves
<1> QED BY <1>4, <1>10 DEF Carries

LEMMA WriteMoves ==
  ASSUME IInv, NEW t \in Threads, NEW e \in Ends, closing[e] # "freed",
         th[t].pc = "user" \/ (th[t].pc \in Writes /\ th[t].p = e),
         NEW P \in PipeType, Ring(P), P.peer = pipe[e].peer,
         nbigpipe' = nbigpipe - big(pipe[e]) + big(P),
         P.busy = pipe[e].busy + (IF In(th[t]) THEN 0 ELSE 1),
         \/ Owns(th[t]) /\ ~ Locked(P)
         \/ /\ ~ Owns(th[t]) /\ (Locked(P) <=> Locked(pipe[e]))
            /\ P.cnt = pipe[e].cnt /\ P.size = pipe[e].size /\ P.out = pipe[e].out,
         NEW L \in LocalType, L.p = e, e = other(L.call.end), L.call.op = "write",
         closing[L.call.end] = "open", L.resid <= L.call.n,
         L.call.n <= PIPE_BUF => L.resid \in {0, L.call.n},
         \E Q \in PipeType, M \in FrameType : WriteGoes(t, P, L, Q, M)
  PROVE  \E Q, M : Moves(t, e, Q, M) /\ Carries(P, L, Q, M)
<1>1. pipe[e].busy \in Nat /\ nbigpipe \in Nat /\ pipe[e] \in PipeType
  BY DEF IInv, TypeOK, PipeType
<1>3. PICK Q \in PipeType, M \in FrameType : WriteGoes(t, P, L, Q, M)
  OBVIOUS
<1>4. /\ Kept(P, Q) /\ M.p = e /\ M.call = L.call /\ M.resid = L.resid /\ M.got = L.got
      /\ Step(t, Q, M)
  BY <1>3 DEF WriteGoes, Goes
<1>5. Ring(Q) /\ Q.peer = pipe[e].peer /\ Q.size = P.size /\ Q.cnt = P.cnt /\ Q.out = P.out
  BY <1>4 DEF Kept, Ring
<1>6. nbigpipe' = nbigpipe - big(pipe[e]) + big(Q)
  BY <1>5 DEF big
<1>7. pipe' = [pipe EXCEPT ![e] = Q] /\ th' = [th EXCEPT ![t] = M] /\ closing' = closing
  BY <1>4 DEF Step
<1>8. M.pc \in {"wr_uiomove", "wr_pipelk", "pipewr", "return"}
  BY <1>3 DEF WriteGoes
<1>9. Q.busy = P.busy - (IF In(M) THEN 0 ELSE 1)
  <2>1. /\ M.pc \in {"wr_uiomove", "wr_pipelk", "pipewr"} => In(M) /\ Q.busy = P.busy
        /\ M.pc = "return" => ~ In(M) /\ Q.busy = P.busy - 1
    BY <1>3 DEF WriteGoes, In, Counted, Reading, Writes
  <2>2. P.busy \in Nat
    BY DEF PipeType
  <2> QED BY <1>8, <2>1, <2>2
<1>10. Computed(Q, M)
  BY <1>3, <1>4, <1>8 DEF WriteGoes, Computed, Reading, Writes
<1>11. IF Owns(M) THEN ~ Locked(P) /\ Locked(Q) ELSE Locked(Q) <=> Locked(P)
  BY <1>3 DEF WriteGoes, Owns, Owning
<1>12. Q.busy = pipe[e].busy + (IF In(M) THEN 1 ELSE 0) - (IF In(th[t]) THEN 1 ELSE 0)
  BY <1>1, <1>9
<1>13. Moves(t, e, Q, M)
  BY <1>4, <1>5, <1>6, <1>7, <1>8, <1>10, <1>11, <1>12 DEF Moves
<1> QED BY <1>4, <1>13 DEF Carries

LEMMA LeaveMoves ==
  ASSUME IInv, NEW t \in Threads, NEW e \in Ends, In(th[t]), th[t].p = e,
         NEW P \in PipeType, Kept(pipe[e], P), P.busy = pipe[e].busy,
         \/ Owns(th[t]) /\ ~ Locked(P)
         \/ ~ Owns(th[t]) /\ (Locked(P) <=> Locked(pipe[e])),
         NEW L \in LocalType, L.p = e,
         \E Q \in PipeType, M \in FrameType : Leaves(t, P, L, Q, M), UNCHANGED nbigpipe
  PROVE  \E Q, M : Moves(t, e, Q, M) /\ Carries(P, L, Q, M)
<1>1. pipe[e].busy \in Nat /\ nbigpipe \in Nat /\ pipe[e] \in PipeType
  BY DEF IInv, TypeOK, PipeType
<1>2. PICK Q \in PipeType, M \in FrameType : Leaves(t, P, L, Q, M)
  OBVIOUS
<1>3. /\ Kept(P, Q) /\ M.p = e /\ M.call = L.call /\ M.resid = L.resid /\ M.got = L.got
      /\ Step(t, Q, M) /\ M.pc = "return" /\ Q.busy = pipe[e].busy - 1 /\ (Locked(Q) <=> Locked(P))
  BY <1>2 DEF Leaves, Goes
<1>4. closing[e] # "freed" /\ th[t].pc \in Reading \cup Writes
  BY DEF IInv, Thread, In, Counted, Reading, Writes, Away
<1>5. Kept(pipe[e], Q) /\ Ring(pipe[e])
  BY <1>3, <1>4, KeptTrans DEF IInv, End
<1>6. Ring(Q) /\ Q.peer = pipe[e].peer /\ Q.size = pipe[e].size /\ Q.cnt = pipe[e].cnt
      /\ Q.out = pipe[e].out
  BY <1>5 DEF Kept, Ring
<1>7. nbigpipe' = nbigpipe - big(pipe[e]) + big(Q)
  BY <1>1, <1>6 DEF big
<1>8. pipe' = [pipe EXCEPT ![e] = Q] /\ th' = [th EXCEPT ![t] = M] /\ closing' = closing
  BY <1>3 DEF Step
<1>9. ~ In(M) /\ ~ Owns(M) /\ Computed(Q, M)
  BY <1>3 DEF In, Counted, Owns, Owning, Computed, Reading, Writes
<1>10. Moves(t, e, Q, M)
  BY <1>1, <1>3, <1>4, <1>6, <1>7, <1>8, <1>9 DEF Moves
<1> QED BY <1>3, <1>10 DEF Carries

(* A step that only waits, or takes PIPE_LOCK to allocate. *)
LEMMA WaitMoves ==
  ASSUME IInv, NEW t \in Threads, NEW e \in Ends, closing[e] # "freed", ~ Owns(th[t]),
         th[t].pc = "user" \/ (th[t].pc \in Reading \cup Writes /\ th[t].p = e),
         NEW Q \in PipeType, Kept(pipe[e], Q), NEW M \in FrameType, M.p = e, Computed(Q, M),
         M.pc # "selwait", M.pc # "return" => closing[M.call.end] = "open",
         Q.busy = pipe[e].busy + (IF In(M) THEN 1 ELSE 0) - (IF In(th[t]) THEN 1 ELSE 0),
         \/ ~ Locked(pipe[e]) /\ (Locked(Q) <=> Owns(M))
         \/ ~ Owns(M) /\ (Locked(Q) <=> Locked(pipe[e])),
         Step(t, Q, M), UNCHANGED nbigpipe
  PROVE  Moves(t, e, Q, M)
<1>1. nbigpipe \in Nat /\ Ring(pipe[e])
  BY DEF IInv, TypeOK, End
<1>2. Ring(Q) /\ Q.peer = pipe[e].peer /\ Q.size = pipe[e].size /\ Q.cnt = pipe[e].cnt
      /\ Q.out = pipe[e].out
  BY <1>1 DEF Kept, Ring
<1>3. nbigpipe' = nbigpipe - big(pipe[e]) + big(Q)
  BY <1>1, <1>2 DEF big
<1>4. pipe' = [pipe EXCEPT ![e] = Q] /\ th' = [th EXCEPT ![t] = M] /\ closing' = closing
  BY DEF Step
<1> QED BY <1>2, <1>3, <1>4 DEF Moves

-----------------------------------------------------------------------------
(* What each action of a thread does to the ring. *)

(* Nothing is put in or taken out: the thread begins a call or goes on. *)
Stays(t, e, Q, M) ==
    /\ Kept(pipe[e], Q)
    /\ \/ /\ th[t].pc = "user"
          /\ \E c \in Calls[t] : M.call = c /\ M.resid = c.n /\ M.got = << >>
       \/ th[t].pc # "user" /\ Carries(pipe[e], th[t], Q, M)

Took(t, e, Q, M) ==
    /\ th[t].pc = "rd_uiomove" /\ Kept(advance(pipe[e], th[t].size), Q)
    /\ M.call = th[t].call /\ M.resid = th[t].resid - th[t].size
    /\ M.got = th[t].got \o segment(pipe[e], th[t].size)

(* The next n bytes of the write that the locals L are of. *)
nextbytes(t, L) == [k \in 1 .. L.size |-> <<t, L.call.n - L.resid + k>>]

Gave(t, e, Q, M) ==
    /\ th[t].pc = "wr_uiomove" /\ Kept(fill(pipe[e], nextbytes(t, th[t])), Q)
    /\ M.call = th[t].call /\ M.resid = th[t].resid - th[t].size /\ M.got = th[t].got

Resized(t, e, Q, M) ==
    /\ th[t].pc = "km_alloc" /\ (LateResize \/ pipe[e].cnt = 0)
    /\ Kept(pipespace(pipe[e], BIG_PIPE_SIZE), Q)
    /\ M.call = th[t].call /\ M.resid = th[t].resid /\ M.got = th[t].got

Acts(t) == \E e \in Ends : \E Q, M :
    Moves(t, e, Q, M) /\ (Stays(t, e, Q, M) \/ Took(t, e, Q, M) \/ Gave(t, e, Q, M)
                          \/ Resized(t, e, Q, M))

LEMMA FrameFacts ==
  ASSUME NEW c \in Call, NEW e \in Ends
  PROVE  /\ Frame(c, e) \in LocalType /\ Frame(c, e).p = e /\ Frame(c, e).call = c
         /\ Frame(c, e).resid = c.n /\ Frame(c, e).got = << >>
  BY DEF Frame, LocalType, Call

LEMMA LocalFacts ==
  ASSUME IInv, NEW t \in Threads, th[t].pc # "user"
  PROVE  /\ th[t] \in FrameType /\ th[t] \in LocalType /\ th[t].p \in Ends /\ th[t].call \in Call
         /\ th[t].resid \in Nat /\ th[t].size \in Nat /\ th[t].got \in Seq(Byte)
         /\ th[t].call.end \in Ends /\ th[t].call.n \in Nat
         /\ pipe[th[t].p] \in PipeType /\ Computed(pipe[th[t].p], th[t])
         /\ th[t].pc \notin Away => /\ closing[th[t].call.end] = "open"
                                    /\ closing[th[t].p] # "freed" /\ Ring(pipe[th[t].p])
<1>1. th[t] \in FrameType
  BY DEF IInv, TypeOK, Idle
<1>2. th[t] \in LocalType
  BY <1>1 DEF FrameType, LocalType
<1>3. th[t].p \in Ends /\ th[t].call \in Call
  BY <1>1 DEF FrameType
<1>4. th[t].call.end \in Ends /\ th[t].call.n \in Nat
  BY <1>3 DEF Call
<1>5. Thread(t) /\ End(th[t].p) /\ pipe[th[t].p] \in PipeType
  BY <1>3 DEF IInv, TypeOK
<1>6. th[t].resid \in Nat /\ th[t].size \in Nat /\ th[t].got \in Seq(Byte)
  BY <1>1 DEF FrameType
<1> QED BY <1>1, <1>2, <1>3, <1>4, <1>5, <1>6 DEF Thread, End

LEMMA ReadEnterMoves ==
  ASSUME IInv, NEW t \in Threads, NEW e \in Ends, closing[e] = "open",
         th[t].pc = "user" \/ (th[t].pc = "rd_pipelk" /\ th[t].p = e),
         NEW L \in LocalType, L.p = e, L.call.end = e, L.call.op = "read",
         ReadEnter(t, pipe[e], L), UNCHANGED nbigpipe
  PROVE  \E Q, M : Moves(t, e, Q, M) /\ Carries(pipe[e], L, Q, M)
<1>1. pipe[e] \in PipeType /\ pipe[e].busy \in Nat /\ Ring(pipe[e])
  BY DEF IInv, TypeOK, PipeType, End
<1>2. ~ In(th[t]) /\ ~ Owns(th[t]) /\ th[t].pc \in {"user"} \cup Reading
  BY DEF In, Counted, Reading, Writes, Owns, Owning
<1>3. CASE Locked(pipe[e])
  <2> DEFINE Q == lockwait(pipe[e], t)
             M == At(L, "rd_pipelk")
  <2>1. Alike(pipe[e], Q) /\ Q \in PipeType
    BY <1>1, LockwaitAlike DEF Alike, Kept
  <2>2. M \in FrameType /\ M.p = e /\ M.call = L.call /\ M.resid = L.resid /\ M.got = L.got
        /\ M.pc = "rd_pipelk"
    BY AtType DEF Reading
  <2>3. Step(t, Q, M)
    BY <1>3 DEF ReadEnter
  <2> HIDE DEF Q, M
  <2>4. ~ In(M) /\ ~ Owns(M) /\ Computed(Q, M)
    BY <2>2 DEF In, Counted, Owns, Owning, Computed, Reading, Writes
  <2>5. Q.busy = pipe[e].busy + (IF In(M) THEN 1 ELSE 0) - (IF In(th[t]) THEN 1 ELSE 0)
    BY <1>1, <1>2, <2>1, <2>4 DEF Alike
  <2>6. Moves(t, e, Q, M)
    BY <1>2, <2>1, <2>2, <2>3, <2>4, <2>5, WaitMoves DEF Alike
  <2> QED BY <2>1, <2>2, <2>6 DEF Carries, Alike
<1>4. CASE ~ Locked(pipe[e])
  <2> DEFINE E == enter(pipe[e])
             P == pipelock(E)
  <2>1. Kept(pipe[e], E) /\ E.busy = pipe[e].busy + 1 /\ E \in PipeType
    BY <1>1, EnterKept DEF Kept
  <2>2. ReadLoop(t, P, L)
    BY <1>4 DEF ReadEnter
  <2> HIDE DEF E
  <2>3. Kept(E, P) /\ P.busy = E.busy /\ Locked(P) /\ P \in PipeType
    BY <2>1, LockKept DEF Kept
  <2> HIDE DEF P
  <2>4. Kept(pipe[e], P) /\ P.busy = pipe[e].busy + (IF In(th[t]) THEN 0 ELSE 1)
    BY <1>2, <2>1, <2>3, KeptTrans
  <2>5. Ring(P) /\ P.peer = pipe[e].peer /\ P.size = pipe[e].size
    BY <1>1, <2>4 DEF Kept, Ring
  <2>6. PICK Q, M : Moves(t, e, Q, M) /\ Carries(P, L, Q, M)
    BY <1>2, <1>4, <2>2, <2>3, <2>4, <2>5, ReadMoves
  <2> QED BY <2>4, <2>6, KeptTrans DEF Carries
<1> QED BY <1>3, <1>4

LEMMA Acts_pipe_read ==
  ASSUME IInv, NEW t \in Threads, pipe_read(t)
  PROVE  Acts(t)
<1>1. PICK c \in Calls[t] : /\ th[t].pc = "user" /\ c.op = "read" /\ Usable(c.end)
                            /\ ReadEnter(t, pipe[c.end], Frame(c, c.end)) /\ UNCHANGED nbigpipe
  BY DEF pipe_read
<1>2. c \in Call /\ c.end \in Ends
  BY PipeAssumption DEF Call
<1> DEFINE L == Frame(c, c.end)
<1>3. L \in LocalType /\ L.p = c.end /\ L.call = c /\ L.resid = c.n /\ L.got = << >>
  BY <1>2, FrameFacts
<1> HIDE DEF L
<1>4. PICK Q, M : Moves(t, c.end, Q, M) /\ Carries(pipe[c.end], L, Q, M)
  BY <1>1, <1>2, <1>3, ReadEnterMoves DEF Usable, L
<1>5. Stays(t, c.end, Q, M)
  BY <1>1, <1>3, <1>4 DEF Stays, Carries
<1> QED BY <1>2, <1>4, <1>5 DEF Acts

LEMMA Acts_pipe_read_locked ==
  ASSUME IInv, NEW t \in Threads, pipe_read_locked(t)
  PROVE  Acts(t)
<1>1. th[t].pc = "rd_pipelk" /\ ReadEnter(t, pipe[th[t].p], th[t]) /\ UNCHANGED nbigpipe
  BY DEF pipe_read_locked, Woken
<1>2. /\ th[t] \in LocalType /\ th[t].p \in Ends /\ th[t].call.end = th[t].p
      /\ th[t].call.op = "read" /\ closing[th[t].p] = "open"
  BY <1>1, LocalFacts DEF Computed, Reading, Away
<1>3. PICK Q, M : Moves(t, th[t].p, Q, M) /\ Carries(pipe[th[t].p], th[t], Q, M)
  BY <1>1, <1>2, ReadEnterMoves
<1>4. Stays(t, th[t].p, Q, M)
  BY <1>1, <1>3 DEF Stays, Carries
<1> QED BY <1>2, <1>3, <1>4 DEF Acts

LEMMA Acts_pipe_read_moved ==
  ASSUME IInv, NEW t \in Threads, pipe_read_moved(t)
  PROVE  Acts(t)
<1> DEFINE e == th[t].p
           n == th[t].size
           P == advance(pipe[e], n)
           L == [th[t] EXCEPT !.resid = @ - n, !.got = @ \o segment(pipe[e], n)]
<1>1. /\ th[t].pc = "rd_uiomove" /\ UNCHANGED nbigpipe
      /\ ReadLoop(t, P, L) \/ ReadEnd(t, pipeunlock(pipe[e]), th[t])
  BY DEF pipe_read_moved
<1>2. /\ th[t] \in LocalType /\ e \in Ends /\ th[t].call.end = e
      /\ th[t].call.op = "read" /\ closing[e] = "open" /\ pipe[e] \in PipeType /\ Ring(pipe[e])
      /\ n \in 1 .. pipe[e].cnt /\ pipe[e].out + n <= pipe[e].size /\ n <= th[t].resid
      /\ th[t].resid \in Nat /\ th[t].got \in Seq(Byte) /\ th[t].size \in Nat
  BY <1>1, LocalFacts DEF Computed, Reading, Away
<1>3. In(th[t]) /\ Owns(th[t]) /\ th[t].pc \in Reading /\ Locked(pipe[e])
  BY <1>1, <1>2 DEF In, Counted, Reading, Owns, Owning, IInv, End, Lock
<1>4. CASE ReadLoop(t, P, L)
  <2>1. /\ P \in PipeType /\ Ring(P) /\ P.size = pipe[e].size /\ P.peer = pipe[e].peer
        /\ P.busy = pipe[e].busy /\ P.state = pipe[e].state
    BY <1>2, AdvanceRing
  <2>2. segment(pipe[e], n) \in Seq(Byte)
    <3>1. \A k \in 1 .. n : pipe[e].buffer[pipe[e].out + k - 1] \in Byte
      <4>1. /\ pipe[e].buffer \in [0 .. pipe[e].size - 1 -> Byte] /\ pipe[e].out \in Nat
            /\ pipe[e].size \in Nat
        BY <1>2 DEF Ring, PipeType
      <4>2. \A k \in 1 .. n : pipe[e].out + k - 1 \in 0 .. pipe[e].size - 1
        BY <1>2, <4>1
      <4> QED BY <4>1, <4>2
    <3> QED BY <1>2, <3>1 DEF segment
  <2>3. L \in LocalType /\ L.p = e /\ L.call = th[t].call /\ L.resid = th[t].resid - n
        /\ L.got = th[t].got \o segment(pipe[e], n)
    <3>1. th[t].resid - n \in Nat /\ th[t].got \o segment(pipe[e], n) \in Seq(Byte)
      BY <1>2, <2>2
    <3> QED BY <1>2, <3>1 DEF LocalType
  <2> HIDE DEF P, L
  <2>4. Locked(P) /\ P.busy = pipe[e].busy + (IF In(th[t]) THEN 0 ELSE 1)
    BY <1>2, <1>3, <2>1 DEF Locked, PipeType
  <2>5. PICK Q, M : Moves(t, e, Q, M) /\ Carries(P, L, Q, M)
    BY <1>1, <1>2, <1>3, <1>4, <2>1, <2>3, <2>4, ReadMoves
  <2>6. Took(t, e, Q, M)
    BY <1>1, <2>3, <2>5 DEF Took, Carries, P
  <2> QED BY <1>2, <2>5, <2>6 DEF Acts
<1>5. CASE ReadEnd(t, pipeunlock(pipe[e]), th[t])
  <2> DEFINE R == pipeunlock(pipe[e])
  <2>1. Kept(pipe[e], R) /\ R.busy = pipe[e].busy /\ ~ Locked(R) /\ R \in PipeType
    BY <1>2, UnlockKept DEF Kept
  <2> HIDE DEF R
  <2>2. 0 < R.busy
    BY <1>3, <2>1, InsideBusy
  <2>3. \E Q \in PipeType, M \in FrameType : Leaves(t, R, th[t], Q, M)
    BY <1>2, <1>5, <2>1, <2>2, ReadEndGoes DEF R
  <2>4. PICK Q, M : Moves(t, e, Q, M) /\ Carries(R, th[t], Q, M)
    BY <1>1, <1>2, <1>3, <2>1, <2>3, LeaveMoves
  <2>5. Stays(t, e, Q, M)
    BY <1>1, <2>1, <2>4, KeptTrans DEF Stays, Carries
  <2> QED BY <1>2, <2>4, <2>5 DEF Acts
<1> QED BY <1>1, <1>4, <1>5

LEMMA Acts_pipe_read_woken ==
  ASSUME IInv, NEW t \in Threads, pipe_read_woken(t)
  PROVE  Acts(t)
<1> DEFINE e == th[t].p
<1>1. /\ th[t].pc \in {"piperd", "rd_relock"} /\ UNCHANGED nbigpipe
      /\ ReadLock(t, pipe[e], th[t], "rd_relock")
  BY DEF pipe_read_woken, Woken
<1>2. /\ th[t] \in LocalType /\ e \in Ends /\ th[t].call.end = e
      /\ th[t].call.op = "read" /\ closing[e] = "open" /\ pipe[e] \in PipeType /\ Ring(pipe[e])
  BY <1>1, LocalFacts DEF Computed, Reading, Away
<1>3. In(th[t]) /\ ~ Owns(th[t]) /\ th[t].pc \in Reading /\ th[t].pc # "user"
  BY <1>1 DEF In, Counted, Reading, Owns, Owning
<1>4. pipe[e].busy \in Nat
  BY <1>2 DEF PipeType
<1>5. CASE Locked(pipe[e])
  <2> DEFINE Q == lockwait(pipe[e], t)
             M == At(th[t], "rd_relock")
  <2>1. Alike(pipe[e], Q) /\ Q \in PipeType
    BY <1>2, LockwaitAlike DEF Alike, Kept
  <2>2. M \in FrameType /\ M.p = e /\ M.call = th[t].call /\ M.resid = th[t].resid
        /\ M.got = th[t].got /\ M.pc = "rd_relock"
    BY <1>2, AtType DEF Reading
  <2>3. Step(t, Q, M)
    BY <1>1, <1>5 DEF ReadLock
  <2> HIDE DEF Q, M
  <2>4. In(M) /\ ~ Owns(M) /\ Computed(Q, M)
    BY <1>2, <2>2 DEF In, Counted, Owns, Owning, Computed, Reading, Writes
  <2>5. Q.busy = pipe[e].busy + (IF In(M) THEN 1 ELSE 0) - (IF In(th[t]) THEN 1 ELSE 0)
    BY <1>3, <1>4, <2>1, <2>4 DEF Alike
  <2>6. closing[M.call.end] = "open" /\ closing[e] # "freed" /\ M.pc # "selwait"
    BY <1>2, <2>2
  <2>7. Moves(t, e, Q, M)
    BY <1>1, <1>2, <1>3, <2>1, <2>2, <2>3, <2>4, <2>5, <2>6, WaitMoves DEF Alike
  <2>8. Stays(t, e, Q, M)
    BY <1>3, <2>1, <2>2 DEF Stays, Carries, Alike
  <2> QED BY <1>2, <2>7, <2>8 DEF Acts
<1>6. CASE ~ Locked(pipe[e])
  <2> DEFINE P == pipelock(pipe[e])
  <2>1. Kept(pipe[e], P) /\ P.busy = pipe[e].busy /\ Locked(P) /\ P \in PipeType
    BY <1>2, LockKept DEF Kept
  <2>2. ReadLoop(t, P, th[t])
    BY <1>1, <1>6 DEF ReadLock
  <2> HIDE DEF P
  <2>3. Ring(P) /\ P.peer = pipe[e].peer /\ P.size = pipe[e].size
    BY <1>2, <2>1 DEF Kept, Ring
  <2>4. P.busy = pipe[e].busy + (IF In(th[t]) THEN 0 ELSE 1)
    BY <1>3, <1>4, <2>1
  <2>5. PICK Q, M : Moves(t, e, Q, M) /\ Carries(P, th[t], Q, M)
    BY <1>1, <1>2, <1>3, <1>6, <2>1, <2>2, <2>3, <2>4, ReadMoves
  <2>6. Stays(t, e, Q, M)
    BY <1>3, <2>1, <2>5, KeptTrans DEF Stays, Carries
  <2> QED BY <1>2, <2>5, <2>6 DEF Acts
<1> QED BY <1>5, <1>6

LEMMA Acts_pipe_read_caught ==
  ASSUME IInv, NEW t \in Threads, pipe_read_caught(t)
  PROVE  Acts(t)
<1> DEFINE e == th[t].p
           P == unsleep(pipe[e], t)
<1>1. /\ UNCHANGED nbigpipe
      /\ \/ th[t].pc = "rd_pipelk" /\ Step(t, P, At(th[t], "return"))
         \/ th[t].pc \in {"piperd", "rd_relock"} /\ ReadEnd(t, P, th[t])
  BY DEF pipe_read_caught
<1>2. th[t].pc \in Reading /\ th[t].pc # "user" /\ ~ Owns(th[t])
  BY <1>1 DEF Reading, Owns, Owning
<1>3. /\ th[t] \in LocalType /\ e \in Ends /\ closing[e] # "freed" /\ pipe[e] \in PipeType
  BY <1>2, LocalFacts DEF Reading, Away
<1>4. Alike(pipe[e], P) /\ P \in PipeType
  BY <1>3, QueueAlike DEF Alike, Kept
<1> HIDE DEF P
<1>5. pipe[e].busy \in Nat
  BY <1>3 DEF PipeType
<1>6. CASE th[t].pc = "rd_pipelk" /\ Step(t, P, At(th[t], "return"))
  <2> DEFINE M == At(th[t], "return")
  <2>1. M \in FrameType /\ M.p = e /\ M.call = th[t].call /\ M.resid = th[t].resid
        /\ M.got = th[t].got /\ M.pc = "return"
    BY <1>3, AtType DEF Away
  <2> HIDE DEF M
  <2>2. ~ In(M) /\ ~ Owns(M) /\ Computed(P, M) /\ ~ In(th[t])
    BY <1>6, <2>1 DEF In, Counted, Owns, Owning, Computed, Reading, Writes
  <2>3. P.busy = pipe[e].busy + (IF In(M) THEN 1 ELSE 0) - (IF In(th[t]) THEN 1 ELSE 0)
    BY <1>4, <1>5, <2>2 DEF Alike
  <2>4. Moves(t, e, P, M)
    BY <1>1, <1>2, <1>3, <1>4, <1>6, <2>1, <2>2, <2>3, WaitMoves DEF Alike, M
  <2>5. Stays(t, e, P, M)
    BY <1>2, <1>4, <2>1 DEF Stays, Carries, Alike
  <2> QED BY <1>3, <2>4, <2>5 DEF Acts
<1>7. CASE th[t].pc \in {"piperd", "rd_relock"} /\ ReadEnd(t, P, th[t])
  <2>1. In(th[t])
    BY <1>7 DEF In, Counted, Reading
  <2>2. 0 < P.busy
    BY <1>4, <2>1, InsideBusy DEF Alike
  <2>3. \E Q \in PipeType, M \in FrameType : Leaves(t, P, th[t], Q, M)
    BY <1>3, <1>4, <1>7, <2>2, ReadEndGoes
  <2>4. PICK Q, M : Moves(t, e, Q, M) /\ Carries(P, th[t], Q, M)
    BY <1>1, <1>2, <1>3, <1>4, <2>1, <2>3, LeaveMoves DEF Alike
  <2>5. Stays(t, e, Q, M)
    BY <1>2, <1>4, <2>4, KeptTrans DEF Stays, Carries, Alike
  <2> QED BY <1>3, <2>4, <2>5 DEF Acts
<1> QED BY <1>1, <1>6, <1>7

(* A writer that resizes the buffer first. *)
LEMMA ResizeMoves ==
  ASSUME IInv, NEW t \in Threads, NEW e \in Ends, closing[e] # "freed",
         th[t].pc = "user" \/ (th[t].pc = "rs_pipelk" /\ th[t].p = e),
         NEW P \in PipeType, Kept(pipe[e], P), Locked(P) <=> Locked(pipe[e]),
         P.busy = pipe[e].busy + (IF In(th[t]) THEN 0 ELSE 1),
         NEW L \in LocalType, L.p = e, e = other(L.call.end), L.call.op = "write",
         closing[L.call.end] = "open", L.resid <= L.call.n,
         L.call.n <= PIPE_BUF => L.resid \in {0, L.call.n},
         ResizeLock(t, P, L), UNCHANGED nbigpipe
  PROVE  \E Q, M : Moves(t, e, Q, M) /\ Carries(P, L, Q, M)
<1>1. pipe[e].busy \in Nat /\ L.call.n \in Nat
  BY DEF IInv, TypeOK, PipeType, LocalType, Call
<1>2. ~ Owns(th[t]) /\ th[t].pc \in {"user"} \cup Writes
  BY DEF Writes, Owns, Owning
<1>3. ASSUME NEW Q \in PipeType, Kept(P, Q), Q.busy = P.busy, NEW pc \in {"rs_pipelk", "km_alloc"},
             Step(t, Q, At(L, pc)), pc = "km_alloc" => ~ Locked(P) /\ Locked(Q),
             pc = "rs_pipelk" => (Locked(Q) <=> Locked(P))
      PROVE  \E M : Moves(t, e, Q, M) /\ Carries(P, L, Q, M)
  <2> DEFINE M == At(L, pc)
  <2>1. M \in FrameType /\ M.p = e /\ M.call = L.call /\ M.resid = L.resid
        /\ M.got = L.got /\ M.pc = pc
    BY AtType DEF Writes
  <2>2. Step(t, Q, M)
    BY <1>3
  <2> HIDE DEF M
  <2>3. In(M) /\ (Owns(M) <=> pc = "km_alloc") /\ pc \in Writes /\ pc \notin Reading
        /\ pc \notin {"selwait", "return", "wr_uiomove", "wr_pipelk", "rd_uiomove"}
    BY <2>1 DEF In, Counted, Owns, Owning, Reading, Writes
  <2>4. Computed(Q, M)
    BY <1>1, <2>1, <2>3 DEF Computed
  <2>5. Q.busy = pipe[e].busy + (IF In(M) THEN 1 ELSE 0) - (IF In(th[t]) THEN 1 ELSE 0)
    BY <1>1, <1>3, <2>3
  <2>6. Kept(pipe[e], Q)
    BY <1>3, KeptTrans
  <2>7. \/ ~ Locked(pipe[e]) /\ (Locked(Q) <=> Owns(M))
        \/ ~ Owns(M) /\ (Locked(Q) <=> Locked(pipe[e]))
    BY <1>3, <2>3
  <2>8. M.pc # "selwait" /\ closing[M.call.end] = "open"
    BY <2>1, <2>3
  <2>9. th[t].pc = "user" \/ (th[t].pc \in Reading \cup Writes /\ th[t].p = e)
    BY <1>2
  <2>10. Moves(t, e, Q, M)
    BY <1>2, <2>1, <2>2, <2>4, <2>5, <2>6, <2>7, <2>8, <2>9, WaitMoves
  <2> QED BY <1>3, <2>1, <2>10 DEF Carries
<1>4. CASE Locked(P)
  BY <1>3, <1>4, LockwaitAlike DEF ResizeLock, Alike, Kept
<1>5. CASE ~ Locked(P)
  <2>1. Kept(P, pipelock(P)) /\ pipelock(P).busy = P.busy /\ Locked(pipelock(P))
        /\ pipelock(P) \in PipeType
    BY LockKept DEF Kept
  <2> QED BY <1>3, <1>5, <2>1 DEF ResizeLock
<1> QED BY <1>4, <1>5

LEMMA Acts_pipe_write ==
  ASSUME IInv, NEW t \in Threads, pipe_write(t)
  PROVE  Acts(t)
<1>1. PICK c \in Calls[t] :
        /\ th[t].pc = "user" /\ c.op = "write" /\ closing[c.end] = "open"
        /\ ~ peereof(pipe[c.end]) /\ UNCHANGED nbigpipe
        /\ \/ ResizeLock(t, enter(pipe[pipe[c.end].peer]), Frame(c, pipe[c.end].peer))
           \/ WriteLoop(t, enter(pipe[pipe[c.end].peer]), Frame(c, pipe[c.end].peer))
  BY DEF pipe_write, Usable
<1>2. c \in Call /\ c.end \in Ends /\ c.n \in Nat
  BY PipeAssumption DEF Call
<1> DEFINE e == pipe[c.end].peer
           P == enter(pipe[e])
           L == Frame(c, e)
<1>3. e = other(c.end) /\ e \in Ends /\ closing[e] # "freed"
  <2>1. e = IF closing[other(c.end)] = "freed" THEN NULL ELSE other(c.end)
    BY <1>1, <1>2 DEF IInv, End
  <2>2. e # NULL
    BY <1>1 DEF peereof
  <2> QED BY <2>1, <2>2 DEF other, Ends
<1>4. pipe[e] \in PipeType /\ Ring(pipe[e]) /\ pipe[e].busy \in Nat /\ nbigpipe \in Nat
  BY <1>3 DEF IInv, TypeOK, End, PipeType
<1>5. Kept(pipe[e], P) /\ P.busy = pipe[e].busy + 1 /\ P \in PipeType
      /\ (Locked(P) <=> Locked(pipe[e]))
  BY <1>4, EnterKept DEF Kept
<1>6. L \in LocalType /\ L.p = e /\ L.call = c /\ L.resid = c.n /\ L.got = << >>
  BY <1>2, <1>3, FrameFacts
<1>7. ResizeLock(t, P, L) \/ WriteLoop(t, P, L)
  BY <1>1
<1> HIDE DEF P, L, e
<1>8. ~ In(th[t]) /\ ~ Owns(th[t])
  BY <1>1 DEF In, Counted, Reading, Writes, Owns, Owning
<1>9. P.busy = pipe[e].busy + (IF In(th[t]) THEN 0 ELSE 1)
  BY <1>5, <1>8
<1>10. /\ Ring(P) /\ P.peer = pipe[e].peer /\ P.size = pipe[e].size /\ P.cnt = pipe[e].cnt
       /\ P.out = pipe[e].out
  BY <1>4, <1>5 DEF Kept, Ring
<1>11. \E Q, M : Moves(t, e, Q, M) /\ Carries(P, L, Q, M)
  <2>1. CASE ResizeLock(t, P, L)
    BY <1>1, <1>2, <1>3, <1>5, <1>6, <1>9, <2>1, ResizeMoves
  <2>2. CASE WriteLoop(t, P, L)
    <3>1. nbigpipe' = nbigpipe - big(pipe[e]) + big(P)
      BY <1>1, <1>4, <1>10 DEF big
    <3>2. \E Q \in PipeType, M \in FrameType : WriteGoes(t, P, L, Q, M)
      BY <1>4, <1>5, <1>6, <1>10, <2>2, WriteLoopGoes
    <3>3. L.resid <= L.call.n /\ L.resid \in {0, L.call.n}
      BY <1>2, <1>6
    <3> QED BY <1>1, <1>3, <1>5, <1>6, <1>8, <1>9, <1>10, <3>1, <3>2, <3>3, WriteMoves
  <2> QED BY <1>7, <2>1, <2>2
<1>12. PICK Q, M : Moves(t, e, Q, M) /\ Carries(P, L, Q, M)
  BY <1>11
<1>13. Stays(t, e, Q, M)
  BY <1>1, <1>5, <1>6, <1>12, KeptTrans DEF Stays, Carries
<1> QED BY <1>3, <1>12, <1>13 DEF Acts

LEMMA WriterFacts ==
  ASSUME IInv, NEW t \in Threads, th[t].pc \in Writes
  PROVE  /\ th[t] \in LocalType /\ th[t].p \in Ends /\ th[t].p = other(th[t].call.end)
         /\ th[t].call.op = "write" /\ th[t].resid \in Nat /\ th[t].call.n \in Nat
         /\ th[t].resid <= th[t].call.n
         /\ th[t].call.n <= PIPE_BUF => th[t].resid \in {0, th[t].call.n}
         /\ closing[th[t].call.end] = "open" /\ closing[th[t].p] # "freed"
         /\ pipe[th[t].p] \in PipeType /\ Ring(pipe[th[t].p])
         /\ 0 < pipe[th[t].p].busy /\ pipe[th[t].p].busy \in Nat /\ nbigpipe \in Nat
         /\ In(th[t]) /\ th[t].pc # "user"
<1>1. th[t].pc # "user" /\ th[t].pc \notin Away /\ In(th[t])
  BY DEF Writes, Away, In, Counted, Reading
<1>2. pipe[th[t].p].busy \in Nat /\ nbigpipe \in Nat
  BY <1>1, LocalFacts DEF PipeType, IInv, TypeOK
<1> QED BY <1>1, <1>2, LocalFacts, InsideBusy DEF Computed

(* A writer goes on from P, which has the ring of the pipe it works on. *)
LEMMA WriterGoesOn ==
  ASSUME IInv, NEW t \in Threads, th[t].pc \in Writes, NEW P, Kept(pipe[th[t].p], P),
         P.busy = pipe[th[t].p].busy, UNCHANGED nbigpipe,
         IF Owns(th[t]) THEN ~ Locked(P) ELSE Locked(P) <=> Locked(pipe[th[t].p]),
         \/ WriteLoop(t, P, th[t]) \/ WriteEnd(t, P, th[t])
         \/ \E Q \in PipeType, M \in FrameType : WriteGoes(t, P, th[t], Q, M)
  PROVE  Acts(t)
<1> DEFINE e == th[t].p
<1>1. /\ th[t] \in LocalType /\ e \in Ends /\ e = other(th[t].call.end)
      /\ th[t].call.op = "write" /\ th[t].resid <= th[t].call.n
      /\ th[t].call.n <= PIPE_BUF => th[t].resid \in {0, th[t].call.n}
      /\ closing[th[t].call.end] = "open" /\ closing[e] # "freed"
      /\ pipe[e] \in PipeType /\ Ring(pipe[e]) /\ 0 < pipe[e].busy
      /\ pipe[e].busy \in Nat /\ nbigpipe \in Nat /\ In(th[t]) /\ th[t].pc # "user"
  BY WriterFacts
<1> HIDE DEF e
<1>2. /\ P \in PipeType /\ Ring(P) /\ P.peer = pipe[e].peer /\ P.size = pipe[e].size
      /\ P.cnt = pipe[e].cnt /\ P.out = pipe[e].out
  BY <1>1 DEF Kept, Ring, e
<1>3. \E Q, M : Moves(t, e, Q, M) /\ Carries(P, th[t], Q, M)
  <2>1. CASE WriteEnd(t, P, th[t])
    <3>1. \E Q \in PipeType, M \in FrameType : Leaves(t, P, th[t], Q, M)
      BY <1>1, <1>2, <2>1, WriteEndGoes DEF e
    <3> QED BY <1>1, <1>2, <3>1, LeaveMoves DEF e
  <2>2. CASE \/ WriteLoop(t, P, th[t])
             \/ \E Q \in PipeType, M \in FrameType : WriteGoes(t, P, th[t], Q, M)
    <3>1. \E Q \in PipeType, M \in FrameType : WriteGoes(t, P, th[t], Q, M)
      BY <1>1, <1>2, <2>2, WriteLoopGoes DEF e
    <3>2. nbigpipe' = nbigpipe - big(pipe[e]) + big(P)
      BY <1>1, <1>2 DEF big
    <3>3. P.busy = pipe[e].busy + (IF In(th[t]) THEN 0 ELSE 1)
      BY <1>1 DEF e
    <3> QED BY <1>1, <1>2, <3>1, <3>2, <3>3, WriteMoves DEF e
  <2> QED BY <2>1, <2>2
<1>4. PICK Q, M : Moves(t, e, Q, M) /\ Carries(P, th[t], Q, M)
  BY <1>3
<1>5. Stays(t, e, Q, M)
  BY <1>1, <1>4, KeptTrans DEF Stays, Carries, e
<1> QED BY <1>1, <1>4, <1>5 DEF Acts

LEMMA Acts_pipe_write_resize ==
  ASSUME IInv, NEW t \in Threads, pipe_write_resize(t)
  PROVE  Acts(t)
<1> DEFINE e == th[t].p
<1>1. th[t].pc = "rs_pipelk" /\ ResizeLock(t, pipe[e], th[t]) /\ UNCHANGED nbigpipe
  BY DEF pipe_write_resize, Woken
<1>2. th[t].pc \in Writes
  BY <1>1 DEF Writes
<1>3. /\ th[t] \in LocalType /\ e \in Ends /\ e = other(th[t].call.end)
      /\ th[t].call.op = "write" /\ th[t].resid <= th[t].call.n
      /\ th[t].call.n <= PIPE_BUF => th[t].resid \in {0, th[t].call.n}
      /\ closing[th[t].call.end] = "open" /\ closing[e] # "freed"
      /\ pipe[e] \in PipeType /\ pipe[e].busy \in Nat /\ In(th[t]) /\ th[t].pc # "user"
  BY <1>2, WriterFacts
<1>4. Kept(pipe[e], pipe[e]) /\ pipe[e].busy = pipe[e].busy + (IF In(th[t]) THEN 0 ELSE 1)
  BY <1>3 DEF Kept
<1>5. PICK Q, M : Moves(t, e, Q, M) /\ Carries(pipe[e], th[t], Q, M)
  BY <1>1, <1>3, <1>4, ResizeMoves
<1>6. Stays(t, e, Q, M)
  BY <1>3, <1>5 DEF Stays, Carries
<1> QED BY <1>3, <1>5, <1>6 DEF Acts

LEMMA Acts_pipe_write_alloc ==
  ASSUME IInv, NEW t \in Threads, pipe_write_alloc(t)
  PROVE  Acts(t)
<1> DEFINE e == th[t].p
           S == pipespace(pipe[e], BIG_PIPE_SIZE)
<1>1. /\ th[t].pc = "km_alloc"
      /\ \/ /\ LateResize \/ pipe[e].cnt = 0
            /\ WriteLoop(t, pipeunlock(S), th[t])
            /\ nbigpipe' = nbigpipe - big(pipe[e]) + 1
         \/ /\ WriteLoop(t, pipeunlock(pipe[e]), th[t])
            /\ UNCHANGED nbigpipe
  BY DEF pipe_write_alloc
<1>2. th[t].pc \in Writes /\ Owns(th[t])
  BY <1>1 DEF Writes, Owns, Owning
<1>3. /\ th[t] \in LocalType /\ e \in Ends /\ e = other(th[t].call.end)
      /\ th[t].call.op = "write" /\ th[t].resid <= th[t].call.n
      /\ th[t].call.n <= PIPE_BUF => th[t].resid \in {0, th[t].call.n}
      /\ closing[th[t].call.end] = "open" /\ closing[e] # "freed"
      /\ pipe[e] \in PipeType /\ Ring(pipe[e]) /\ 0 < pipe[e].busy
      /\ pipe[e].busy \in Nat /\ nbigpipe \in Nat /\ In(th[t]) /\ th[t].pc # "user"
  BY <1>2, WriterFacts
<1>4. CASE WriteLoop(t, pipeunlock(pipe[e]), th[t]) /\ UNCHANGED nbigpipe
  <2> DEFINE R == pipeunlock(pipe[e])
  <2>1. Kept(pipe[e], R) /\ R.busy = pipe[e].busy /\ ~ Locked(R)
    BY <1>3, UnlockKept
  <2>2. WriteLoop(t, R, th[t])
    BY <1>4
  <2> HIDE DEF R
  <2> QED BY <1>2, <1>4, <2>1, <2>2, WriterGoesOn
<1>5. CASE /\ LateResize \/ pipe[e].cnt = 0
           /\ WriteLoop(t, pipeunlock(S), th[t])
           /\ nbigpipe' = nbigpipe - big(pipe[e]) + 1
  <2>1. BIG_PIPE_SIZE \in Nat /\ 0 < BIG_PIPE_SIZE /\ BIG_PIPE_SIZE > PIPE_SIZE /\ PIPE_SIZE \in Nat
    BY PipeAssumption
  <2>2. /\ S \in PipeType /\ Ring(S) /\ S.size = BIG_PIPE_SIZE /\ S.peer = pipe[e].peer
        /\ S.busy = pipe[e].busy
    BY <1>3, <2>1, SpaceRing
  <2> DEFINE R == pipeunlock(S)
  <2>3. WriteLoop(t, R, th[t])
    BY <1>5
  <2> HIDE DEF S
  <2>4. Kept(S, R) /\ R.busy = S.busy /\ ~ Locked(R) /\ R \in PipeType
    BY <2>2, UnlockKept DEF Kept
  <2> HIDE DEF R
  <2>5. Ring(R) /\ R.peer = pipe[e].peer /\ R.size = BIG_PIPE_SIZE
    BY <2>2, <2>4 DEF Kept, Ring
  <2>6. nbigpipe' = nbigpipe - big(pipe[e]) + big(R)
    BY <1>5, <2>1, <2>5 DEF big
  <2>7. R.busy = pipe[e].busy + (IF In(th[t]) THEN 0 ELSE 1) /\ 0 < R.busy
    BY <1>3, <2>2, <2>4
  <2>8. \E Q \in PipeType, M \in FrameType : WriteGoes(t, R, th[t], Q, M)
    BY <1>3, <2>3, <2>4, <2>5, <2>7, WriteLoopGoes
  <2>9. PICK Q, M : Moves(t, e, Q, M) /\ Carries(R, th[t], Q, M)
    BY <1>2, <1>3, <2>4, <2>5, <2>6, <2>7, <2>8, WriteMoves
  <2>10. Resized(t, e, Q, M)
    BY <1>1, <1>5, <2>4, <2>9, KeptTrans DEF Resized, Carries, S
  <2> QED BY <1>3, <2>9, <2>10 DEF Acts
<1> QED BY <1>1, <1>4, <1>5

LEMMA Acts_pipe_write_locked ==
  ASSUME IInv, NEW t \in Threads, pipe_write_locked(t)
  PROVE  Acts(t)
<1> DEFINE e == th[t].p
           P == pipe[e]
           n == th[t].size
<1>1. /\ th[t].pc = "wr_pipelk" /\ UNCHANGED nbigpipe
      /\ IF Locked(P) THEN Step(t, lockwait(P, t), th[t])
         ELSE IF n > space(P) THEN WriteLoop(t, pipeunlock(pipelock(P)), th[t])
         ELSE Transfer(t, P, th[t], n)
  BY DEF pipe_write_locked, Woken
<1>2. th[t].pc \in Writes /\ ~ Owns(th[t])
  BY <1>1 DEF Writes, Owns, Owning
<1>3. /\ th[t] \in LocalType /\ e \in Ends /\ P \in PipeType /\ Ring(P) /\ In(th[t])
      /\ P.busy \in Nat /\ th[t].pc # "user"
      /\ closing[e] # "freed" /\ closing[th[t].call.end] = "open"
  BY <1>2, WriterFacts
<1>4. /\ n \in Nat /\ 0 < n /\ 0 < th[t].resid /\ (th[t].call.n <= PIPE_BUF => th[t].resid <= n)
      /\ Computed(P, th[t]) /\ th[t] \in FrameType
  BY <1>1, LocalFacts DEF Computed
<1> HIDE DEF P
<1>5. space(P) \in Nat
  BY <1>3 DEF space, PipeType, Ring
<1>6. CASE Locked(P)
  <2> DEFINE Q == lockwait(P, t)
  <2>1. Alike(P, Q) /\ Q \in PipeType
    BY <1>3, LockwaitAlike DEF Alike, Kept
  <2>2. Step(t, Q, th[t])
    BY <1>1, <1>6
  <2> HIDE DEF Q
  <2>3. Computed(Q, th[t])
    BY <1>4, <2>1 DEF Computed, Alike, Kept, space
  <2>4. Q.busy = P.busy + (IF In(th[t]) THEN 1 ELSE 0) - (IF In(th[t]) THEN 1 ELSE 0)
    BY <1>3, <2>1 DEF Alike
  <2>5. Moves(t, e, Q, th[t])
    BY <1>1, <1>2, <1>3, <1>4, <2>1, <2>2, <2>3, <2>4, WaitMoves DEF Alike, P
  <2>6. Stays(t, e, Q, th[t])
    BY <1>3, <2>1 DEF Stays, Carries, Alike, P
  <2> QED BY <1>3, <2>5, <2>6 DEF Acts
<1>7. CASE ~ Locked(P) /\ n > space(P)
  <2> DEFINE K == pipelock(P)
             R == pipeunlock(K)
  <2>1. Kept(P, K) /\ K.busy = P.busy /\ K \in PipeType
    BY <1>3, LockKept DEF Kept
  <2>2. WriteLoop(t, R, th[t])
    BY <1>1, <1>7
  <2> HIDE DEF K
  <2>3. Kept(K, R) /\ R.busy = K.busy /\ ~ Locked(R)
    BY <2>1, UnlockKept
  <2> HIDE DEF R
  <2>4. Kept(P, R) /\ R.busy = P.busy
    BY <2>1, <2>3, KeptTrans
  <2> QED BY <1>1, <1>2, <1>7, <2>2, <2>3, <2>4, WriterGoesOn DEF P
<1>8. CASE ~ Locked(P) /\ n <= space(P)
  <2>1. Transfer(t, P, th[t], n) /\ n \in 1 .. space(P)
    BY <1>1, <1>4, <1>5, <1>8
  <2>2. \E Q \in PipeType, M \in FrameType : WriteGoes(t, P, th[t], Q, M)
    BY <1>3, <1>4, <1>8, <2>1, TransferGoes
  <2>3. Kept(P, P)
    BY <1>3 DEF Kept
  <2> QED BY <1>1, <1>2, <2>2, <2>3, WriterGoesOn DEF P
<1> QED BY <1>4, <1>5, <1>6, <1>7, <1>8

LEMMA Acts_pipe_write_moved ==
  ASSUME IInv, NEW t \in Threads, pipe_write_moved(t)
  PROVE  Acts(t)
<1> DEFINE e == th[t].p
           n == th[t].size
           s == nextbytes(t, th[t])
           F == fill(pipe[e], s)
           L == [th[t] EXCEPT !.resid = @ - n]
<1>1. /\ th[t].pc = "wr_uiomove" /\ UNCHANGED nbigpipe
      /\ WriteLoop(t, pipeunlock(F), L) \/ WriteEnd(t, pipeunlock(pipe[e]), th[t])
  BY DEF pipe_write_moved, nextbytes
<1>2. th[t].pc \in Writes /\ Owns(th[t])
  BY <1>1 DEF Writes, Owns, Owning
<1>3. /\ th[t] \in LocalType /\ e \in Ends /\ e = other(th[t].call.end)
      /\ th[t].call.op = "write" /\ th[t].resid <= th[t].call.n
      /\ th[t].call.n <= PIPE_BUF => th[t].resid \in {0, th[t].call.n}
      /\ closing[th[t].call.end] = "open" /\ closing[e] # "freed"
      /\ pipe[e] \in PipeType /\ Ring(pipe[e]) /\ 0 < pipe[e].busy
      /\ pipe[e].busy \in Nat /\ nbigpipe \in Nat /\ In(th[t]) /\ th[t].pc # "user"
      /\ th[t].resid \in Nat /\ th[t].call.n \in Nat
  BY <1>2, WriterFacts
<1>4. /\ n \in 1 .. space(pipe[e]) /\ n <= th[t].resid /\ n \in Nat
      /\ th[t].call.n <= PIPE_BUF => n = th[t].resid
  BY <1>1, LocalFacts DEF Computed
<1>5. CASE WriteEnd(t, pipeunlock(pipe[e]), th[t])
  <2> DEFINE R == pipeunlock(pipe[e])
  <2>1. Kept(pipe[e], R) /\ R.busy = pipe[e].busy /\ ~ Locked(R)
    BY <1>3, UnlockKept
  <2>2. WriteEnd(t, R, th[t])
    BY <1>5
  <2> HIDE DEF R
  <2> QED BY <1>1, <1>2, <2>1, <2>2, WriterGoesOn
<1>6. CASE WriteLoop(t, pipeunlock(F), L)
  <2>1. s \in Seq(Byte) /\ Len(s) = n
    <3>1. \A k \in 1 .. n : <<t, th[t].call.n - th[t].resid + k>> \in Byte
      BY <1>3, <1>4 DEF Byte
    <3> QED BY <1>4, <3>1 DEF nextbytes
  <2> HIDE DEF s
  <2>2. /\ F \in PipeType /\ Ring(F) /\ F.size = pipe[e].size /\ F.peer = pipe[e].peer
        /\ F.busy = pipe[e].busy
    BY <1>3, <1>4, <2>1, FillRing
  <2> DEFINE R == pipeunlock(F)
  <2>3. WriteLoop(t, R, L)
    BY <1>6
  <2> HIDE DEF F
  <2>4. Kept(F, R) /\ R.busy = F.busy /\ ~ Locked(R) /\ R \in PipeType
    BY <2>2, UnlockKept DEF Kept
  <2> HIDE DEF R
  <2>5. Ring(R) /\ R.peer = pipe[e].peer /\ R.size = pipe[e].size
    BY <2>2, <2>4 DEF Kept, Ring
  <2>6. nbigpipe' = nbigpipe - big(pipe[e]) + big(R)
    BY <1>1, <1>3, <2>5 DEF big
  <2>7. R.busy = pipe[e].busy + (IF In(th[t]) THEN 0 ELSE 1) /\ 0 < R.busy
    BY <1>3, <2>2, <2>4
  <2>8. L \in LocalType /\ L.p = e /\ L.call = th[t].call /\ L.resid = th[t].resid - n
        /\ L.got = th[t].got
    <3>1. th[t].resid - n \in Nat
      BY <1>3, <1>4
    <3> QED BY <1>3, <3>1 DEF LocalType
  <2> HIDE DEF L
  <2>9. L.resid <= L.call.n /\ (L.call.n <= PIPE_BUF => L.resid \in {0, L.call.n})
    BY <1>3, <1>4, <2>8
  <2>10. \E Q \in PipeType, M \in FrameType : WriteGoes(t, R, L, Q, M)
    BY <2>3, <2>4, <2>5, <2>7, <2>8, WriteLoopGoes
  <2>11. PICK Q, M : Moves(t, e, Q, M) /\ Carries(R, L, Q, M)
    BY <1>2, <1>3, <2>4, <2>5, <2>6, <2>7, <2>8, <2>9, <2>10, WriteMoves
  <2>12. Gave(t, e, Q, M)
    BY <1>1, <2>4, <2>8, <2>11, KeptTrans DEF Gave, Carries, F, s
  <2> QED BY <1>3, <2>11, <2>12 DEF Acts
<1> QED BY <1>1, <1>5, <1>6

LEMMA Acts_pipe_write_woken ==
  ASSUME IInv, NEW t \in Threads, pipe_write_woken(t)
  PROVE  Acts(t)
<1>1. th[t].pc = "pipewr" /\ WriteLoop(t, pipe[th[t].p], th[t]) /\ UNCHANGED nbigpipe
  BY DEF pipe_write_woken, Woken
<1>2. th[t].pc \in Writes /\ ~ Owns(th[t])
  BY <1>1 DEF Writes, Owns, Owning
<1>3. Kept(pipe[th[t].p], pipe[th[t].p])
  BY <1>2, WriterFacts DEF Kept
<1> QED BY <1>1, <1>2, <1>3, WriterGoesOn

LEMMA Acts_pipe_write_caught ==
  ASSUME IInv, NEW t \in Threads, pipe_write_caught(t)
  PROVE  Acts(t)
<1> DEFINE e == th[t].p
           P == unsleep(pipe[e], t)
<1>1. /\ UNCHANGED nbigpipe
      /\ \/ /\ th[t].pc = "rs_pipelk"
            /\ Step(t, rundown(P, "WANTR", FALSE), At(th[t], "return"))
         \/ th[t].pc \in {"wr_pipelk", "pipewr"} /\ WriteEnd(t, P, th[t])
  BY DEF pipe_write_caught
<1>2. th[t].pc \in Writes /\ ~ Owns(th[t])
  BY <1>1 DEF Writes, Owns, Owning
<1>3. /\ th[t] \in LocalType /\ e \in Ends /\ pipe[e] \in PipeType /\ 0 < pipe[e].busy
      /\ In(th[t]) /\ th[t].pc # "user"
  BY <1>2, WriterFacts
<1>4. Alike(pipe[e], P) /\ P \in PipeType
  <2>1. Alike(pipe[e], P)
    BY <1>3, QueueAlike
  <2> QED BY <2>1 DEF Alike, Kept
<1> HIDE DEF P
<1>5. CASE WriteEnd(t, P, th[t])
  BY <1>1, <1>2, <1>4, <1>5, WriterGoesOn DEF Alike
<1>6. CASE Step(t, rundown(P, "WANTR", FALSE), At(th[t], "return"))
  <2> DEFINE Q == rundown(P, "WANTR", FALSE)
             M == At(th[t], "return")
  <2>1. Kept(P, Q) /\ Q.busy = P.busy - 1 /\ (Locked(Q) <=> Locked(P)) /\ Q \in PipeType
    <3>1. 0 < P.busy
      BY <1>3, <1>4 DEF Alike
    <3>2. Kept(P, Q) /\ Q.busy = P.busy - 1 /\ (Locked(Q) <=> Locked(P))
      BY <1>4, <3>1, RundownKept
    <3> HIDE DEF Q
    <3> QED BY <3>2 DEF Kept
  <2>2. M \in FrameType /\ M.p = e /\ M.call = th[t].call /\ M.resid = th[t].resid
        /\ M.got = th[t].got /\ M.pc = "return"
    BY <1>3, AtType DEF Away
  <2>3. Step(t, Q, M)
    BY <1>6
  <2> HIDE DEF Q, M
  <2>4. Leaves(t, P, th[t], Q, M)
    BY <2>1, <2>2, <2>3 DEF Leaves, Goes
  <2>5. PICK R, N : Moves(t, e, R, N) /\ Carries(P, th[t], R, N)
    BY <1>1, <1>2, <1>3, <1>4, <2>1, <2>2, <2>4, LeaveMoves DEF Alike
  <2>6. Stays(t, e, R, N)
    BY <1>3, <1>4, <2>5, KeptTrans DEF Stays, Carries, Alike
  <2> QED BY <1>3, <2>5, <2>6 DEF Acts
<1> QED BY <1>1, <1>5, <1>6

-----------------------------------------------------------------------------
(* The other actions. *)

(* A step that changes only who waits for what, and the locals of threads   *)
(* that are outside.                                                        *)
Out == Away \cup {"user"}

Polls(L) == L.pc = "selwait" => L.call.op = "poll" /\ L.got = << >>

SettledStep ==
    /\ TypeOK' /\ closing' = closing /\ nbigpipe' = nbigpipe
    /\ \A e \in Ends : Alike(pipe[e], pipe'[e])
    /\ \A u \in Threads : \/ th'[u] = th[u]
                          \/ th[u].pc \in Out /\ th'[u].pc \in Out /\ Polls(th'[u])

LEMMA BesideInv ==
  ASSUME IInv, SettledStep
  PROVE  IInv'
<1>a. /\ TypeOK' /\ closing' = closing /\ nbigpipe' = nbigpipe
      /\ \A e \in Ends : Alike(pipe[e], pipe'[e])
      /\ \A u \in Threads : \/ th'[u] = th[u]
                            \/ th[u].pc \in Out /\ th'[u].pc \in Out /\ Polls(th'[u])
  BY DEF SettledStep
<1>1. TypeOK /\ (\A u \in Threads : Thread(u)) /\ (\A e \in Ends : End(e))
  BY DEF IInv
<1>2. \A u \in Threads : In(th'[u]) /\ ~ (th[u] = th'[u]) => FALSE
  BY <1>a DEF In, Counted, Reading, Writes, Out, Away
<1>3. ASSUME NEW u \in Threads PROVE Thread(u)'
  <2>1. CASE th'[u] = th[u] /\ th[u].pc # "user"
    <3>1. th[u].p \in Ends
      BY <1>1, <2>1 DEF TypeOK, FrameType, Idle
    <3>2. Alike(pipe[th[u].p], pipe'[th[u].p]) /\ Thread(u)
      BY <1>a, <1>1, <3>1
    <3> QED BY <1>a, <2>1, <3>2 DEF Thread, Computed, Alike, Kept, space
  <2>2. CASE th'[u].pc \in Out /\ Polls(th'[u])
    BY <1>a, <2>2 DEF Thread, Computed, Out, Away, Reading, Writes, Polls
  <2>3. CASE th'[u] = th[u] /\ th[u].pc = "user"
    BY <1>a, <2>3 DEF Thread
  <2> QED BY <1>a, <2>1, <2>2, <2>3
<1>4. ASSUME NEW e \in Ends PROVE End(e)'
  <2>1. Alike(pipe[e], pipe'[e]) /\ End(e)
    BY <1>a, <1>1
  <2>2. Inside(e)' = Inside(e)
    BY <1>a DEF Inside, Out, Away
  <2>3. Lock(e)'
    BY <1>a, <2>1 DEF End, Lock, Alike, Locked, Owning, Out, Away
  <2> QED BY <1>a, <2>1, <2>2, <2>3 DEF End, Alike, Kept, Ring
<1>5. (nbigpipe = big(pipe["a"]) + big(pipe["b"]))'
  BY <1>a DEF IInv, Alike, Kept, big, Ends
<1> QED BY <1>a, <1>3, <1>4, <1>5 DEF IInv

LEMMA AlikeSelf ==
  ASSUME IInv, NEW e \in Ends
  PROVE  pipe[e] \in PipeType /\ Alike(pipe[e], pipe[e])
  BY DEF IInv, TypeOK, Alike, Kept

(* The poller t is entered in the list of P, or taken out. *)
LEMMA SelAlike ==
  ASSUME NEW P \in PipeType, NEW t \in Threads
  PROVE  /\ Alike(P, [flag(P, {"SEL"}) EXCEPT !.sel = @ \cup {t}])
         /\ Alike(P, [P EXCEPT !.sel = @ \ {t}])
<1> DEFINE F == flag(P, {"SEL"})
<1>1. Alike(P, F) /\ F \in PipeType
  BY FlagAlike DEF Alike, Kept, Flags
<1> HIDE DEF F
<1>2. Alike(F, [F EXCEPT !.sel = @ \cup {t}])
  BY <1>1 DEF PipeType, Alike, Kept, Locked
<1>3. Alike(P, [P EXCEPT !.sel = @ \ {t}])
  BY DEF PipeType, Alike, Kept, Locked
<1> QED BY <1>1, <1>2, <1>3, AlikeTrans DEF F

(* A step of a thread outside: the pipes stay Alike, it stays outside, and  *)
(* what it carries is of a call that it begins or goes on with.             *)
Beside(t) ==
    /\ UNCHANGED <<closing, nbigpipe>> /\ TypeOK'
    /\ \A e \in Ends : Alike(pipe[e], pipe'[e])
    /\ th[t].pc \in Out
    /\ \E M \in {Idle} \cup FrameType :
         /\ th' = [th EXCEPT ![t] = M] /\ M.pc \in Out /\ Polls(M)
         /\ \/ M = Idle
            \/ /\ th[t].pc = "user"
               /\ \E c \in Calls[t] : M.call = c /\ M.resid = c.n /\ M.got = << >>
            \/ /\ th[t].pc = "selwait" /\ Polls(th[t])
               /\ M.call = th[t].call /\ M.got = << >>

LEMMA Beside_Return ==
  ASSUME IInv, NEW t \in Threads, Return(t)
  PROVE  Beside(t)
<1>1. /\ th[t].pc = "return" /\ th' = [th EXCEPT ![t] = Idle]
      /\ UNCHANGED <<pipe, closing, nbigpipe>>
  BY DEF Return
<1>2. TypeOK'
  BY <1>1 DEF IInv, TypeOK
<1>3. \A e \in Ends : Alike(pipe[e], pipe'[e])
  BY <1>1, AlikeSelf
<1> QED BY <1>1, <1>2, <1>3 DEF Beside, Out, Away, Idle, Polls

LEMMA Beside_pipe_write_epipe ==
  ASSUME IInv, NEW t \in Threads, pipe_write_epipe(t)
  PROVE  Beside(t)
<1>1. PICK c \in Calls[t] : /\ th[t].pc = "user"
                            /\ th' = [th EXCEPT ![t] = At(Frame(c, c.end), "return")]
                            /\ UNCHANGED <<pipe, closing, nbigpipe>>
  BY DEF pipe_write_epipe
<1>2. c \in Call /\ c.end \in Ends
  BY PipeAssumption DEF Call
<1> DEFINE L == Frame(c, c.end)
           M == At(L, "return")
<1>3. L \in LocalType /\ L.p = c.end /\ L.call = c /\ L.resid = c.n /\ L.got = << >>
  BY <1>2, FrameFacts
<1>4. th' = [th EXCEPT ![t] = M]
  BY <1>1
<1> HIDE DEF L
<1>5. M \in FrameType /\ M.call = c /\ M.resid = c.n /\ M.got = << >> /\ M.pc = "return"
  BY <1>3, AtType DEF Away
<1> HIDE DEF M
<1>6. TypeOK'
  BY <1>1, <1>4, <1>5 DEF IInv, TypeOK
<1>7. \A e \in Ends : Alike(pipe[e], pipe'[e])
  BY <1>1, AlikeSelf
<1> QED BY <1>1, <1>4, <1>5, <1>6, <1>7 DEF Beside, Out, Away, Polls

LEMMA PolledIs ==
  ASSUME IInv, NEW t \in Threads, NEW c \in Call, c.op = "poll", Polled(t, c)
  PROVE  /\ TypeOK' /\ UNCHANGED <<closing, nbigpipe>>
         /\ \A e \in Ends : Alike(pipe[e], pipe'[e])
         /\ \E M \in FrameType : /\ th' = [th EXCEPT ![t] = M] /\ M.pc \in Out /\ Polls(M)
                                 /\ M.call = c /\ M.resid = c.n /\ M.got = << >>
<1> DEFINE L == Frame(c, c.end)
           pc == IF Revents(c.end, c.ev) THEN "return" ELSE "selwait"
           M == At(L, pc)
<1>1. c.end \in Ends
  BY DEF Call
<1>2. L \in LocalType /\ L.p = c.end /\ L.call = c /\ L.resid = c.n /\ L.got = << >>
  BY <1>1, FrameFacts
<1>3. th' = [th EXCEPT ![t] = M] /\ UNCHANGED <<closing, nbigpipe>>
  BY DEF Polled
<1>4. pc \in Away
  BY DEF Away
<1> HIDE DEF L, pc
<1>5. M \in FrameType /\ M.call = c /\ M.resid = c.n /\ M.got = << >> /\ M.pc = pc
  BY <1>2, <1>4, AtType
<1> HIDE DEF M
<1>6. ASSUME NEW e \in Ends
      PROVE  Alike(pipe[e], pipe'[e])
  <2>1. pipe[e] \in PipeType
    BY AlikeSelf
  <2>2. \/ pipe'[e] = [flag(pipe[e], {"SEL"}) EXCEPT !.sel = @ \cup {t}]
        \/ pipe'[e] = [pipe[e] EXCEPT !.sel = @ \ {t}]
    BY DEF Polled
  <2> QED BY <2>1, <2>2, SelAlike
<1>7. pipe' \in [Ends -> PipeType]
  <2>1. \A e \in Ends : pipe'[e] \in PipeType
    BY <1>6 DEF Alike, Kept
  <2>2. \E F : pipe' = [e \in Ends |-> F[e]]
    <3>1. pipe' = [e \in Ends |-> pipe'[e]]
      BY DEF Polled
    <3> QED BY <3>1
  <2> QED BY <2>1, <2>2
<1>8. TypeOK'
  BY <1>3, <1>5, <1>7 DEF IInv, TypeOK
<1> QED BY <1>3, <1>4, <1>5, <1>6, <1>8 DEF Out, Polls

LEMMA Beside_pipe_poll ==
  ASSUME IInv, NEW t \in Threads, pipe_poll(t)
  PROVE  Beside(t)
<1>1. PICK c \in Calls[t] : th[t].pc = "user" /\ c.op = "poll" /\ Polled(t, c)
  BY DEF pipe_poll
<1>2. c \in Call
  BY PipeAssumption
<1> QED BY <1>1, <1>2, PolledIs DEF Beside, Out

LEMMA Beside_pipe_poll_ends ==
  ASSUME IInv, NEW t \in Threads, pipe_poll_ends(t)
  PROVE  Beside(t)
<1> DEFINE M == At(th[t], "return")
<1>1. /\ th[t].pc = "selwait" /\ th' = [th EXCEPT ![t] = M]
      /\ pipe' = [e \in Ends |-> [pipe[e] EXCEPT !.sel = @ \ {t}]]
      /\ UNCHANGED <<closing, nbigpipe>>
  BY DEF pipe_poll_ends, At
<1>2. th[t] \in LocalType /\ th[t].got = << >> /\ th[t].call.op = "poll"
  BY <1>1, LocalFacts DEF Computed
<1>3. M \in FrameType /\ M.call = th[t].call /\ M.got = << >> /\ M.pc = "return"
  BY <1>2, AtType DEF Away
<1> HIDE DEF M
<1>4. \A e \in Ends : Alike(pipe[e], pipe'[e])
  BY <1>1, AlikeSelf, SelAlike
<1>5. TypeOK'
  <2>1. pipe' \in [Ends -> PipeType]
    BY <1>1, <1>4 DEF Alike, Kept
  <2> QED BY <1>1, <1>3, <2>1 DEF IInv, TypeOK
<1> QED BY <1>1, <1>2, <1>3, <1>4, <1>5 DEF Beside, Out, Away, Polls

LEMMA Beside_pipe_poll_woken ==
  ASSUME IInv, NEW t \in Threads, pipe_poll_woken(t)
  PROVE  Beside(t)
<1>1. th[t].pc = "selwait" /\ (Polled(t, th[t].call) \/ pipe_poll_ends(t))
  BY DEF pipe_poll_woken
<1>2. th[t].call \in Call /\ th[t].call.op = "poll" /\ th[t].got = << >>
  BY <1>1, LocalFacts DEF Computed
<1>3. CASE Polled(t, th[t].call)
  BY <1>1, <1>2, <1>3, PolledIs DEF Beside, Out, Away, Polls
<1> QED BY <1>1, <1>3, Beside_pipe_poll_ends

LEMMA BesideSteps ==
  ASSUME IInv, NEW t \in Threads, Beside(t)
  PROVE  IInv'
<1>1. \A u \in Threads : \/ th'[u] = th[u]
                         \/ th[u].pc \in Out /\ th'[u].pc \in Out /\ Polls(th'[u])
  BY DEF Beside, IInv, TypeOK
<1>2. /\ TypeOK' /\ closing' = closing /\ nbigpipe' = nbigpipe
      /\ \A e \in Ends : Alike(pipe[e], pipe'[e])
  BY DEF Beside
<1>3. SettledStep
  <2>1. TypeOK'
    BY <1>2
  <2>2. closing' = closing /\ nbigpipe' = nbigpipe
    BY <1>2
  <2>3. \A e \in Ends : Alike(pipe[e], pipe'[e])
    BY <1>2
  <2> QED BY <1>1, <2>1, <2>2, <2>3, Zenon DEF SettledStep
<1> QED BY <1>3, BesideInv

(* The knotes of the pipe of end e change, and nothing else. *)
NotesChange ==
    /\ UNCHANGED <<th, closing, nbigpipe>>
    /\ \E e \in Ends : \E Q : pipe' = [pipe EXCEPT ![e] = Q] /\ Alike(pipe[e], Q)

LEMMA NotesAlike ==
  ASSUME NEW P \in PipeType, NEW N \in SUBSET Filters, NEW A \in SUBSET Filters
  PROVE  Alike(P, [P EXCEPT !.notes = N, !.active = A])
  BY DEF PipeType, Alike, Kept, Locked

LEMMA NotepipeIs ==
  ASSUME IInv, NEW n \in Notes
  PROVE  notepipe(n) \in Ends \cup {NULL} /\ n[1] \in Ends /\ n[2] \in Filters
<1>1. n[1] \in Ends /\ n[2] \in Filters
  BY PipeAssumption DEF Filters
<1>2. pipe[n[1]].peer \in Ends \cup {NULL}
  BY <1>1 DEF IInv, TypeOK, PipeType
<1> QED BY <1>1, <1>2 DEF notepipe

LEMMA Notes_pipe_kqfilter ==
  ASSUME IInv, NEW n \in Notes, pipe_kqfilter(n)
  PROVE  NotesChange
<1> DEFINE e == notepipe(n)
           P == [pipe[e] EXCEPT !.notes = @ \cup {n[2]}]
           X == {f \in {n[2]} : filt_pipe(P, f, peereof(P))}
           N == pipe[e].notes \cup {n[2]}
           A == pipe[e].active \cup X
           Q == [pipe[e] EXCEPT !.notes = N, !.active = A]
<1>1. e \in Ends /\ n[2] \in Filters
  BY NotepipeIs DEF pipe_kqfilter
<1>2. pipe[e] \in PipeType /\ pipe[e].notes \subseteq Filters /\ pipe[e].active \subseteq Filters
  BY <1>1 DEF IInv, TypeOK, PipeType
<1>3. pipe' = [pipe EXCEPT ![e] = [P EXCEPT !.active = @ \cup X]]
      /\ UNCHANGED <<th, closing, nbigpipe>>
  BY DEF pipe_kqfilter
<1>4. X \subseteq Filters
  BY <1>1
<1> HIDE DEF X
<1>5. [P EXCEPT !.active = @ \cup X] = Q
  BY <1>1, <1>2 DEF PipeType
<1>6. N \in SUBSET Filters /\ A \in SUBSET Filters
  BY <1>1, <1>2, <1>4
<1> HIDE DEF N, A, P
<1>7. Alike(pipe[e], Q)
  BY <1>2, <1>6, NotesAlike
<1> QED BY <1>1, <1>3, <1>5, <1>7 DEF NotesChange

LEMMA Notes_filt_pipedetach ==
  ASSUME IInv, NEW n \in Notes, filt_pipedetach(n)
  PROVE  NotesChange
<1> DEFINE e == notepipe(n)
           N == pipe[e].notes \ {n[2]}
           A == pipe[e].active \ {n[2]}
           Q == [pipe[e] EXCEPT !.notes = N, !.active = A]
<1>1. e \in Ends
  BY NotepipeIs DEF filt_pipedetach, attached
<1>2. /\ pipe[e] \in PipeType /\ pipe[e].notes \subseteq Filters /\ pipe[e].active \subseteq Filters
      /\ pipe \in [Ends -> PipeType]
  BY <1>1 DEF IInv, TypeOK, PipeType
<1>3. /\ pipe' = [pipe EXCEPT ![e].notes = @ \ {n[2]}, ![e].active = @ \ {n[2]}]
      /\ UNCHANGED <<th, closing, nbigpipe>>
  BY DEF filt_pipedetach
<1>4. pipe' = [pipe EXCEPT ![e] = Q]
  <2> HIDE DEF e
  <2> QED BY <1>1, <1>2, <1>3 DEF PipeType
<1>5. N \in SUBSET Filters /\ A \in SUBSET Filters
  BY <1>2
<1> HIDE DEF N, A
<1>6. Alike(pipe[e], Q)
  BY <1>2, <1>5, NotesAlike
<1> QED BY <1>1, <1>3, <1>4, <1>6 DEF NotesChange

LEMMA Notes_kqueue_scan ==
  ASSUME IInv, kqueue_scan
  PROVE  NotesChange
<1>a. PICK e \in Ends : \E f \in pipe[e].active :
        pipe' = [pipe EXCEPT ![e].active = @ \ {f}] /\ UNCHANGED <<th, closing, nbigpipe>>
  BY DEF kqueue_scan
<1>1. PICK f \in pipe[e].active :
        pipe' = [pipe EXCEPT ![e].active = @ \ {f}] /\ UNCHANGED <<th, closing, nbigpipe>>
  BY <1>a
<1> DEFINE A == pipe[e].active \ {f}
           Q == [pipe[e] EXCEPT !.active = A]
<1>2. pipe[e] \in PipeType /\ A \in SUBSET Filters
  BY DEF IInv, TypeOK, PipeType
<1>3. pipe' = [pipe EXCEPT ![e] = Q]
  BY <1>1
<1> HIDE DEF A
<1>4. Alike(pipe[e], Q)
  BY <1>2 DEF PipeType, Alike, Kept, Locked
<1> QED BY <1>1, <1>3, <1>4 DEF NotesChange

LEMMA NotesSteps ==
  ASSUME IInv, NotesChange
  PROVE  IInv' /\ \A e \in Ends : Alike(pipe[e], pipe'[e])
<1>a. PICK e \in Ends : \E Q : pipe' = [pipe EXCEPT ![e] = Q] /\ Alike(pipe[e], Q)
  BY DEF NotesChange
<1>1. PICK Q : pipe' = [pipe EXCEPT ![e] = Q] /\ Alike(pipe[e], Q)
  BY <1>a
<1>2. pipe \in [Ends -> PipeType] /\ Q \in PipeType
  BY <1>1 DEF IInv, TypeOK, Alike, Kept
<1>3. \A f \in Ends : Alike(pipe[f], pipe'[f])
  BY <1>1, <1>2, AlikeSelf
<1>4. TypeOK'
  BY <1>1, <1>2 DEF IInv, TypeOK, NotesChange
<1>5. (\A u \in Threads : th'[u] = th[u]) /\ closing' = closing /\ nbigpipe' = nbigpipe
  BY DEF NotesChange
<1>6. IInv'
  <2>1. SettledStep
    BY <1>3, <1>4, <1>5 DEF SettledStep
  <2> QED BY <2>1, BesideInv
<1> QED BY <1>3, <1>6

-----------------------------------------------------------------------------
(* pipeclose(). *)

(* It goes to sleep, as somebody is inside. *)
Closes(e) ==
    /\ closing' = [closing EXCEPT ![e] = "asleep"] /\ nbigpipe' = nbigpipe /\ th' = th
    /\ pipe' \in [Ends -> PipeType] /\ \A f \in Ends : Alike(pipe[f], pipe'[f])

(* The same ring, with the same threads inside. *)
Twin(P, Q) ==
    /\ Q \in PipeType
    /\ Q.size = P.size /\ Q.in = P.in /\ Q.out = P.out /\ Q.cnt = P.cnt /\ Q.buffer = P.buffer
    /\ Q.busy = P.busy /\ (Locked(Q) <=> Locked(P))

(* It frees the buffer, and tells the peer. *)
Frees(e) ==
    /\ pipe[e].busy = 0
    /\ closing' = [closing EXCEPT ![e] = "freed"] /\ nbigpipe' = nbigpipe - big(pipe[e])
    /\ th' = th /\ pipe' \in [Ends -> PipeType]
    /\ pipe'[e].size = 0 /\ pipe'[e].cnt = 0 /\ pipe'[e].busy = 0 /\ pipe'[e].peer = NULL
    /\ ~ Locked(pipe'[e])
    /\ Twin(pipe[other(e)], pipe'[other(e)]) /\ pipe'[other(e)].peer = NULL

(* Nobody is in a call that was made on end e. *)
Unused(e) == \A t \in Threads : th[t].pc \notin Out => th[t].call.end # e

LEMMA CloseLoopDoes ==
  ASSUME IInv, NEW e \in Ends, closing[e] # "freed", NEW P, Alike(pipe[e], P),
         CloseLoop(e, P), UNCHANGED th
  PROVE  Closes(e) \/ Frees(e)
<1>1. /\ pipe \in [Ends -> PipeType] /\ P \in PipeType /\ P.busy = pipe[e].busy
      /\ P.busy \in Nat /\ P.size = pipe[e].size /\ P.peer = pipe[e].peer /\ nbigpipe \in Nat
  BY DEF IInv, TypeOK, Alike, Kept, PipeType
<1>2. CASE P.busy > 0
  <2> DEFINE W == wakeup(P)
             F == flag(W, {"WANT"})
             Q == tsleep(F, e)
  <2>1. /\ pipe' = [pipe EXCEPT ![e] = Q] /\ closing' = [closing EXCEPT ![e] = "asleep"]
        /\ nbigpipe' = nbigpipe /\ th' = th
    BY <1>2 DEF CloseLoop
  <2>2. Alike(P, W) /\ W \in PipeType
    BY <1>1, QueueAlike DEF Alike, Kept
  <2> HIDE DEF W
  <2>3. Alike(W, F) /\ F \in PipeType
    BY <2>2, FlagAlike DEF Flags, Alike, Kept
  <2> HIDE DEF F
  <2>4. Alike(F, Q) /\ Q \in PipeType
    <3>1. Alike(F, Q)
      BY <2>3, QueueAlike
    <3> QED BY <3>1 DEF Alike, Kept
  <2> HIDE DEF Q
  <2>5. Alike(pipe[e], Q)
    BY <2>2, <2>3, <2>4, AlikeTrans
  <2>6. \A f \in Ends : Alike(pipe[f], pipe'[f])
    BY <1>1, <2>1, <2>5, AlikeSelf
  <2> QED BY <1>1, <2>1, <2>4, <2>6 DEF Closes
<1>3. CASE P.busy = 0
  <2> DEFINE C == [pipe_create(e) EXCEPT !.peer = NULL]
             E == pipespace(C, 0)
             f == other(e)
             S == selwake(pipe[P.peer], TRUE)
             F == flag(S, {"EOF"})
             W == wakeup(F)
             N == [W EXCEPT !.peer = NULL]
  <2>1. /\ pipe' = [g \in Ends |-> IF g = e THEN E ELSE IF g = P.peer THEN N ELSE pipe[g]]
        /\ closing' = [closing EXCEPT ![e] = "freed"] /\ nbigpipe' = nbigpipe - big(P) /\ th' = th
    <3>1. ~ (P.busy > 0)
      BY <1>3
    <3> QED BY <3>1, Zenon DEF CloseLoop
  <2>2. /\ E \in PipeType /\ E.size = 0 /\ E.cnt = 0 /\ E.peer = NULL /\ E.busy = 0 /\ ~ Locked(E)
    <3>1. C \in PipeType /\ C.busy = 0 /\ C.peer = NULL /\ C.state = {}
      <4>1. pipe_create(e) \in PipeType /\ pipe_create(e).busy = 0 /\ pipe_create(e).state = {}
        BY CreateRing
      <4> HIDE DEF PipeType
      <4> QED BY <4>1 DEF PipeType
    <3> HIDE DEF C
    <3> QED BY <3>1, SpaceRing DEF Locked
  <2>3. f \in Ends /\ f # e /\ Ends = {e, f}
    BY DEF other, Ends
  <2>4. P.peer = IF closing[f] = "freed" THEN NULL ELSE f
    BY <1>1 DEF IInv, End
  <2>5. closing[f] # "freed" => N \in PipeType /\ N.peer = NULL /\ Twin(pipe[f], N)
    <3> SUFFICES ASSUME closing[f] # "freed" PROVE N \in PipeType /\ N.peer = NULL /\ Twin(pipe[f], N)
      OBVIOUS
    <3>1. pipe[P.peer] = pipe[f] /\ pipe[f] \in PipeType
      BY <1>1, <2>3, <2>4
    <3>2. Alike(pipe[f], S) /\ S \in PipeType
      <4>1. S = selwake(pipe[f], TRUE)
        BY <3>1
      <4>2. Alike(pipe[f], selwake(pipe[f], TRUE))
        BY <3>1, SelwakeAlike
      <4> HIDE DEF S
      <4> QED BY <4>1, <4>2 DEF Alike, Kept
    <3> HIDE DEF S
    <3>3. Alike(S, F) /\ F \in PipeType
      BY <3>2, FlagAlike DEF Flags, Alike, Kept
    <3> HIDE DEF F
    <3>4. Alike(F, W) /\ W \in PipeType
      BY <3>3, QueueAlike DEF Alike, Kept
    <3> HIDE DEF W
    <3>5. N \in PipeType /\ N.peer = NULL /\ Twin(W, N)
      BY <3>4 DEF PipeType, Twin, Locked
    <3> HIDE DEF N
    <3>6. Twin(pipe[f], N)
      BY <3>2, <3>3, <3>4, <3>5 DEF Alike, Kept, Twin
    <3> QED BY <3>5, <3>6
  <2>6. closing[f] = "freed" => pipe[f].peer = NULL
    BY <2>3 DEF IInv, End
  <2>7. pipe[f] \in PipeType /\ Twin(pipe[f], pipe[f])
    BY <1>1, <2>3 DEF Twin
  <2> HIDE DEF E, N
  <2>8. pipe'[e] = E /\ pipe'[f] = IF closing[f] = "freed" THEN pipe[f] ELSE N
    <3>1. f # NULL
      BY <2>3 DEF Ends, NULL
    <3> HIDE DEF f
    <3> QED BY <2>1, <2>3, <2>4, <3>1
  <2>9. pipe' \in [Ends -> PipeType]
    <3>1. pipe'[e] \in PipeType /\ pipe'[f] \in PipeType
      BY <2>2, <2>5, <2>7, <2>8
    <3>2. \E G : pipe' = [g \in Ends |-> G[g]]
      <4>1. pipe' = [g \in Ends |-> pipe'[g]]
        BY <2>1
      <4> QED BY <4>1
    <3> HIDE DEF f
    <3> QED BY <2>3, <3>1, <3>2
  <2>10. big(P) = big(pipe[e])
    BY <1>1 DEF big
  <2>11. Twin(pipe[f], pipe'[f]) /\ pipe'[f].peer = NULL
    BY <2>5, <2>6, <2>7, <2>8
  <2> QED BY <1>1, <1>3, <2>1, <2>2, <2>8, <2>9, <2>10, <2>11 DEF Frees
<1> QED BY <1>1, <1>2, <1>3

LEMMA ClosesInv ==
  ASSUME IInv, NEW e \in Ends, closing[e] # "freed", Unused(e), Closes(e)
  PROVE  IInv'
<1>1. /\ TypeOK /\ (\A t \in Threads : Thread(t)) /\ (\A f \in Ends : End(f))
      /\ closing' = [closing EXCEPT ![e] = "asleep"] /\ nbigpipe' = nbigpipe /\ th' = th
      /\ pipe' \in [Ends -> PipeType] /\ \A f \in Ends : Alike(pipe[f], pipe'[f])
  BY DEF IInv, Closes
<1>2. closing'[e] = "asleep" /\ \A f \in Ends \ {e} : closing'[f] = closing[f]
  BY <1>1 DEF TypeOK
<1>3. ASSUME NEW t \in Threads PROVE Thread(t)'
  <2>1. CASE th[t].pc = "user"
    BY <1>1, <2>1 DEF Thread
  <2>2. CASE th[t].pc # "user"
    <3>1. th[t].p \in Ends /\ Computed(pipe[th[t].p], th[t]) /\ th[t].call.end \in Ends
      BY <2>2, LocalFacts
    <3>2. Computed(pipe'[th[t].p], th[t])
      BY <1>1, <3>1 DEF Computed, Alike, Kept, space
    <3>3. th[t].pc \notin Away => closing[th[t].call.end] = "open" /\ closing[th[t].p] # "freed"
                                 /\ th[t].call.end # e
      BY <1>1, <2>2 DEF Thread, Unused, Out
    <3>4. th[t].pc \notin Away => closing'[th[t].call.end] = "open" /\ closing'[th[t].p] # "freed"
      BY <1>2, <3>1, <3>3
    <3> QED BY <1>1, <3>2, <3>4 DEF Thread
  <2> QED BY <2>1, <2>2
<1>4. ASSUME NEW f \in Ends PROVE End(f)'
  <2>1. Alike(pipe[f], pipe'[f]) /\ End(f)
    BY <1>1
  <2>2. Inside(f)' = Inside(f) /\ Lock(f)'
    BY <1>1, <2>1 DEF Inside, End, Lock, Alike, Locked
  <2>3. (closing'[f] = "freed" <=> closing[f] = "freed")
        /\ (closing'[other(f)] = "freed" <=> closing[other(f)] = "freed")
    BY <1>2 DEF other, Ends
  <2> QED BY <2>1, <2>2, <2>3 DEF End, Alike, Kept, Ring
<1>5. TypeOK'
  BY <1>1 DEF TypeOK
<1>6. (nbigpipe = big(pipe["a"]) + big(pipe["b"]))'
  BY <1>1 DEF IInv, Alike, Kept, big, Ends
<1> QED BY <1>3, <1>4, <1>5, <1>6 DEF IInv

LEMMA FreesInv ==
  ASSUME IInv, NEW e \in Ends, closing[e] # "freed", Unused(e), Frees(e)
  PROVE  IInv'
<1> DEFINE f == other(e)
<1>1. /\ TypeOK /\ (\A t \in Threads : Thread(t)) /\ (\A g \in Ends : End(g))
      /\ closing' = [closing EXCEPT ![e] = "freed"] /\ nbigpipe' = nbigpipe - big(pipe[e])
      /\ th' = th /\ pipe' \in [Ends -> PipeType]
  BY DEF IInv, Frees
<1>2. f \in Ends /\ f # e /\ Ends = {e, f} /\ other(f) = e
  BY DEF other, Ends
<1>3. closing'[e] = "freed" /\ closing'[f] = closing[f]
  BY <1>1, <1>2 DEF TypeOK
<1>4. Inside(e) = {}
  <2>1. Cardinality(Inside(e)) = 0 /\ IsFiniteSet(Inside(e))
    BY <1>1, InsideIs DEF Frees, End
  <2> QED BY <2>1, FS_EmptySet
<1>5. \A t \in Threads : th[t].pc \notin Out => th[t].p # e /\ th[t].p = f
  <2> SUFFICES ASSUME NEW t \in Threads, th[t].pc \notin Out
               PROVE  th[t].p # e /\ th[t].p = f
    OBVIOUS
  <2>1. th[t].p \in Ends /\ Computed(pipe[th[t].p], th[t]) /\ th[t].pc \in Reading \cup Writes
    BY LocalFacts DEF Out, FrameType
  <2>2. CASE th[t].pc = "rd_pipelk"
    <3>1. th[t].p # e
      BY <2>1, <2>2 DEF Computed, Reading, Unused
    <3> QED BY <1>2, <2>1, <3>1
  <2>3. CASE th[t].pc # "rd_pipelk"
    <3>1. th[t].p # e
      BY <1>1, <1>4, <2>1, <2>3, InsideIs DEF In, Counted
    <3> QED BY <1>2, <2>1, <3>1
  <2> QED BY <2>2, <2>3
<1>6. /\ pipe'[e].size = 0 /\ pipe'[e].cnt = 0 /\ pipe'[e].busy = 0 /\ pipe'[e].peer = NULL
      /\ ~ Locked(pipe'[e]) /\ Twin(pipe[f], pipe'[f]) /\ pipe'[f].peer = NULL
  BY DEF Frees
<1> HIDE DEF f
<1>7. ASSUME NEW t \in Threads PROVE Thread(t)'
  <2>1. CASE th[t].pc \in Out
    <3>1. th[t].pc = "selwait" => th[t].call.op = "poll" /\ th[t].got = << >>
      BY LocalFacts DEF Computed
    <3> QED BY <1>1, <2>1, <3>1 DEF Thread, Computed, Out, Away, Reading, Writes
  <2>2. CASE th[t].pc \notin Out
    <3>1. /\ th[t].p = f /\ Computed(pipe[f], th[t]) /\ closing[th[t].call.end] = "open"
          /\ closing[f] # "freed" /\ th[t].call.end \in Ends /\ th[t].call.end # e
      BY <1>5, <2>2, LocalFacts DEF Out, Unused
    <3>2. Computed(pipe'[f], th[t])
      BY <1>6, <3>1 DEF Computed, Twin, space
    <3> QED BY <1>1, <1>2, <1>3, <3>1, <3>2 DEF Thread
  <2> QED BY <2>1, <2>2
<1>8. \A g \in Ends : Inside(g)' = Inside(g)
  BY <1>1 DEF Inside
<1>9. End(e)'
  <2>1. \A t \in Threads : ~ (th'[t].pc \in Owning /\ th'[t].p = e)
    BY <1>1, <1>5 DEF Owning, Out, Away
  <2>2. Lock(e)'
    BY <1>6, <2>1 DEF Lock, Locked
  <2>3. Cardinality({}) = 0
    BY FS_EmptySet
  <2> QED BY <1>3, <1>4, <1>6, <1>8, <2>2, <2>3 DEF End
<1>10. End(f)'
  <2>1. End(f)
    BY <1>1, <1>2
  <2>2. Lock(f)'
    BY <1>1, <1>6, <2>1 DEF Lock, Locked, Twin, End
  <2> QED BY <1>2, <1>3, <1>6, <1>8, <2>1, <2>2 DEF End, Twin, Ring
<1>11. nbigpipe' = big(pipe'["a"]) + big(pipe'["b"]) /\ nbigpipe' \in Nat
  <2>1. nbigpipe = big(pipe[e]) + big(pipe[f])
    <3>1. nbigpipe = big(pipe["a"]) + big(pipe["b"]) /\ big(pipe["a"]) \in Nat /\ big(pipe["b"]) \in Nat
      BY DEF IInv, big
    <3>2. (e = "a" /\ f = "b") \/ (e = "b" /\ f = "a")
      BY DEF f, other, Ends
    <3> QED BY <3>1, <3>2
  <2>2. big(pipe'[e]) = 0 /\ big(pipe'[f]) = big(pipe[f])
    BY <1>6, PipeAssumption DEF big, Twin
  <2>3. big(pipe[e]) \in Nat /\ big(pipe[f]) \in Nat
    BY DEF big
  <2>4. nbigpipe' = big(pipe'[e]) + big(pipe'[f])
    BY <1>1, <2>1, <2>2, <2>3
  <2>5. (e = "a" /\ f = "b") \/ (e = "b" /\ f = "a")
    BY DEF f, other, Ends
  <2> QED BY <2>2, <2>3, <2>4, <2>5
<1>12. TypeOK'
  BY <1>1, <1>11 DEF TypeOK
<1> QED BY <1>2, <1>7, <1>9, <1>10, <1>11, <1>12 DEF IInv, big

LEMMA CloseDoes ==
  ASSUME IInv, NEW e \in Ends, pipe_close(e) \/ pipeclose_woken(e)
  PROVE  closing[e] # "freed" /\ Unused(e) /\ (Closes(e) \/ Frees(e))
<1>1. pipe[e] \in PipeType /\ Alike(pipe[e], pipe[e])
  BY AlikeSelf
<1>2. CASE pipe_close(e)
  <2> DEFINE S == pipeselwakeup(pipe[e])
             P == flag(S, {"EOF"})
  <2>1. Alike(pipe[e], S) /\ S \in PipeType
    BY <1>1, SelwakeAlike DEF pipeselwakeup, Alike, Kept
  <2>2. CloseLoop(e, P) /\ UNCHANGED th /\ closing[e] = "open"
    BY <1>2 DEF pipe_close, Usable
  <2> HIDE DEF S
  <2>3. Alike(S, P)
    BY <2>1, FlagAlike DEF Flags
  <2>4. Alike(pipe[e], P)
    BY <2>1, <2>3, AlikeTrans
  <2> HIDE DEF P
  <2>5. Closes(e) \/ Frees(e)
    BY <2>2, <2>4, CloseLoopDoes
  <2>6. Unused(e)
    BY <1>2 DEF pipe_close, Unused, Out, Away
  <2> QED BY <2>2, <2>5, <2>6
<1>3. CASE pipeclose_woken(e)
  <2>1. closing[e] = "asleep" /\ CloseLoop(e, pipe[e]) /\ UNCHANGED th
    BY <1>3 DEF pipeclose_woken
  <2>2. Closes(e) \/ Frees(e)
    BY <1>1, <2>1, CloseLoopDoes
  <2>3. Unused(e)
    BY <2>1, LocalFacts DEF Unused, Out
  <2> QED BY <2>1, <2>2, <2>3
<1> QED BY <1>2, <1>3

(* Nobody is inside a call on a pipe that has gone. *)
LEMMA NobodyInside ==
  ASSUME IInv, \A e \in Ends : closing[e] = "freed"
  PROVE  \A t \in Threads : th[t].pc \in Out
  BY LocalFacts DEF Out

(* A pipe as it is created, with nobody inside. *)
LEMMA CreatedInv ==
  ASSUME NEW p, p = [e \in Ends |-> pipe_create(e)]
  PROVE  /\ p \in [Ends -> PipeType] /\ big(p["a"]) = 0 /\ big(p["b"]) = 0
         /\ \A e \in Ends : /\ Ring(p[e]) /\ p[e].peer = other(e) /\ p[e].busy = 0
                            /\ p[e].state = {}
<1>1. \A e \in Ends : /\ p[e] = pipe_create(e) /\ p[e] \in PipeType /\ Ring(p[e])
                      /\ p[e].peer = other(e) /\ p[e].busy = 0 /\ p[e].state = {}
                      /\ p[e].size = PIPE_SIZE
  BY CreateRing
<1>2. p \in [Ends -> PipeType]
  BY <1>1
<1>3. big(p["a"]) = 0 /\ big(p["b"]) = 0
  BY <1>1, PipeAssumption DEF big, Ends
<1> QED BY <1>1, <1>2, <1>3

LEMMA dopipeInv ==
  ASSUME IInv, dopipe
  PROVE  IInv'
<1>1. /\ (\A e \in Ends : closing[e] = "freed") /\ pipe' = [e \in Ends |-> pipe_create(e)]
      /\ closing' = [e \in Ends |-> "open"] /\ UNCHANGED <<th, nbigpipe>>
      /\ TypeOK /\ \A e \in Ends : End(e)
  BY DEF dopipe, IInv
<1>2. \A t \in Threads : th[t].pc \in Out /\ Thread(t)
  BY <1>1, NobodyInside DEF IInv
<1>3. /\ pipe' \in [Ends -> PipeType] /\ big(pipe'["a"]) = 0 /\ big(pipe'["b"]) = 0
      /\ \A e \in Ends : /\ Ring(pipe'[e]) /\ pipe'[e].peer = other(e) /\ pipe'[e].busy = 0
                         /\ pipe'[e].state = {}
  BY <1>1, CreatedInv
<1>4. ASSUME NEW e \in Ends PROVE End(e)'
  <2>1. Inside(e)' = {}
    BY <1>1, <1>2 DEF Inside, Out, Away
  <2>2. Lock(e)'
    BY <1>1, <1>2, <1>3 DEF Lock, Locked, Owning, Out, Away
  <2>3. Cardinality({}) = 0
    BY FS_EmptySet
  <2>4. closing'[e] = "open" /\ closing'[other(e)] = "open"
    BY <1>1 DEF other, Ends
  <2> QED BY <1>3, <2>1, <2>2, <2>3, <2>4 DEF End
<1>5. nbigpipe' = 0 /\ nbigpipe \in Nat
  <2>1. pipe["a"].size = 0 /\ pipe["b"].size = 0
    BY <1>1 DEF End, Ends
  <2> QED BY <1>1, <2>1, PipeAssumption DEF IInv, big, TypeOK
<1>6. ASSUME NEW t \in Threads PROVE Thread(t)'
  <2>1. th[t].pc = "selwait" => th[t].call.op = "poll" /\ th[t].got = << >>
    BY LocalFacts DEF Computed
  <2> QED BY <1>1, <1>2, <2>1 DEF Thread, Computed, Out, Away, Reading, Writes
<1>7. TypeOK'
  BY <1>1, <1>3 DEF TypeOK
<1> QED BY <1>3, <1>4, <1>5, <1>6, <1>7 DEF IInv

LEMMA Initial ==
  ASSUME Init
  PROVE  IInv
<1>1. /\ pipe = [e \in Ends |-> pipe_create(e)] /\ th = [t \in Threads |-> Idle]
      /\ closing = [e \in Ends |-> "open"] /\ nbigpipe = 0
  BY DEF Init
<1>2. /\ pipe \in [Ends -> PipeType] /\ big(pipe["a"]) = 0 /\ big(pipe["b"]) = 0
      /\ \A e \in Ends : /\ Ring(pipe[e]) /\ pipe[e].peer = other(e) /\ pipe[e].busy = 0
                         /\ pipe[e].state = {}
  BY <1>1, CreatedInv
<1>3. \A t \in Threads : th[t].pc = "user"
  BY <1>1 DEF Idle
<1>4. ASSUME NEW e \in Ends PROVE End(e)
  <2>1. Inside(e) = {}
    BY <1>3 DEF Inside
  <2>2. Lock(e)
    BY <1>2, <1>3 DEF Lock, Locked, Owning
  <2>3. Cardinality({}) = 0
    BY FS_EmptySet
  <2>4. closing[e] = "open" /\ closing[other(e)] = "open"
    BY <1>1 DEF other, Ends
  <2> QED BY <1>2, <2>1, <2>2, <2>3, <2>4 DEF End
<1>5. TypeOK
  BY <1>1, <1>2 DEF TypeOK
<1>6. \A t \in Threads : Thread(t)
  BY <1>3 DEF Thread
<1> QED BY <1>1, <1>2, <1>4, <1>5, <1>6 DEF IInv

-----------------------------------------------------------------------------
(* A step of the specification is one of these. *)
Steps ==
    \/ \E t \in Threads : Acts(t) \/ Beside(t)
    \/ NotesChange
    \/ \E e \in Ends : closing[e] # "freed" /\ Unused(e) /\ (Closes(e) \/ Frees(e))
    \/ dopipe
    \/ UNCHANGED vars

LEMMA NextSteps ==
  ASSUME IInv, [Next]_vars
  PROVE  Steps
<1>1. ASSUME NEW t \in Threads, ReadStep(t) \/ pipe_read(t) \/ pipe_read_caught(t)
      PROVE  Acts(t)
  BY <1>1, Acts_pipe_read, Acts_pipe_read_locked, Acts_pipe_read_moved, Acts_pipe_read_woken,
     Acts_pipe_read_caught DEF ReadStep
<1>2. ASSUME NEW t \in Threads, WriteStep(t) \/ pipe_write(t) \/ pipe_write_caught(t)
      PROVE  Acts(t)
  BY <1>2, Acts_pipe_write, Acts_pipe_write_resize, Acts_pipe_write_alloc,
     Acts_pipe_write_locked, Acts_pipe_write_moved, Acts_pipe_write_woken,
     Acts_pipe_write_caught DEF WriteStep
<1>3. ASSUME NEW t \in Threads,
             \/ pipe_poll_woken(t) \/ Return(t) \/ pipe_write_epipe(t)
             \/ pipe_poll(t) \/ pipe_poll_ends(t)
      PROVE  Beside(t)
  BY <1>3, Beside_Return, Beside_pipe_write_epipe, Beside_pipe_poll, Beside_pipe_poll_ends,
     Beside_pipe_poll_woken
<1>4. ASSUME NEW n \in Notes, pipe_kqfilter(n) \/ filt_pipedetach(n)
      PROVE  NotesChange
  BY <1>4, Notes_pipe_kqfilter, Notes_filt_pipedetach
<1>5. kqueue_scan => NotesChange
  BY Notes_kqueue_scan
<1>6. ASSUME NEW e \in Ends, pipe_close(e) \/ pipeclose_woken(e)
      PROVE  closing[e] # "freed" /\ Unused(e) /\ (Closes(e) \/ Frees(e))
  BY <1>6, CloseDoes
<1> QED BY <1>1, <1>2, <1>3, <1>4, <1>5, <1>6 DEF Next, Run, Steps

LEMMA Inductive ==
  ASSUME IInv, Steps
  PROVE  IInv'
<1>1. ASSUME NEW t \in Threads, Acts(t) PROVE IInv'
  <2>1. PICK e \in Ends : \E Q, M : Moves(t, e, Q, M)
    BY <1>1 DEF Acts
  <2>2. PICK Q, M : Moves(t, e, Q, M)
    BY <2>1
  <2> QED BY <2>2, MovesInv
<1>2. ASSUME UNCHANGED vars PROVE IInv'
  <2>1. pipe' = pipe /\ th' = th /\ closing' = closing /\ nbigpipe' = nbigpipe
    BY <1>2 DEF vars
  <2>2. TypeOK'
    BY <2>1 DEF IInv, TypeOK
  <2>3. SettledStep
    BY <2>1, <2>2, AlikeSelf DEF SettledStep
  <2> QED BY <2>3, BesideInv
<1> QED BY <1>1, <1>2, BesideSteps, NotesSteps, ClosesInv, FreesInv, dopipeInv DEF Steps

(* What a thread in pipe_read() or pipe_write() has computed before it slept *)
(* holds when it goes on, and PIPE_LOCK, pipe_busy, pipe_peer and nbigpipe   *)
(* agree with the threads and the ends.                                      *)
THEOREM Invariance == Spec => []IInv
<1>1. Init => IInv
  BY Initial
<1>2. IInv /\ [Next]_vars => IInv'
  BY NextSteps, Inductive
<1> QED BY <1>1, <1>2, PTL DEF Spec

(* The remainder of an index that has gone round at most once. *)
LEMMA Wraps ==
  ASSUME NEW z \in Nat, 0 < z, NEW x \in Nat, x < z + z
  PROVE  x % z = IF x < z THEN x ELSE x - z
  OBVIOUS

LEMMA RingIsSound ==
  ASSUME IInv
  PROVE  RingSound
<1> SUFFICES ASSUME NEW e \in Ends
    PROVE  LET P == pipe[e]
               holders == {t \in Threads : /\ th[t].pc \in Owning /\ th[t].p = e}
           IN  /\ P.cnt \in 0 .. P.size
               /\ closing[e] # "freed" => P.in = (P.out + P.cnt) % P.size
               /\ Cardinality(holders) = IF Locked(P) THEN 1 ELSE 0
               /\ \A t \in holders :
                    /\ th[t].pc = "rd_uiomove" => /\ th[t].size \in 1 .. P.cnt
                                                  /\ P.out + th[t].size <= P.size
                    /\ th[t].pc = "wr_uiomove" => th[t].size \in 1 .. space(P)
  BY DEF RingSound, Owning
<1> DEFINE P == pipe[e]
           holders == {t \in Threads : /\ th[t].pc \in Owning /\ th[t].p = e}
<1>1. End(e) /\ Lock(e) /\ P \in PipeType
  BY DEF IInv, End, TypeOK
<1>2. P.cnt \in Nat /\ P.size \in Nat /\ P.out \in Nat /\ P.in \in Nat
  BY <1>1 DEF PipeType
<1>3. P.cnt \in 0 .. P.size
  BY <1>1, <1>2 DEF End, Ring
<1>4. closing[e] # "freed" => P.in = (P.out + P.cnt) % P.size
  <2> SUFFICES ASSUME closing[e] # "freed" PROVE P.in = (P.out + P.cnt) % P.size
    OBVIOUS
  <2>1. /\ 0 < P.size /\ P.cnt <= P.size /\ P.out < P.size
        /\ P.in = IF P.out + P.cnt < P.size THEN P.out + P.cnt ELSE P.out + P.cnt - P.size
    BY <1>1 DEF End, Ring
  <2>2. P.out + P.cnt \in Nat /\ P.out + P.cnt < P.size + P.size
    BY <1>2, <2>1
  <2>3. PICK z \in Nat, x \in Nat : z = P.size /\ x = P.out + P.cnt
    BY <1>2, <2>2
  <2>4. x % z = IF x < z THEN x ELSE x - z
    BY <2>1, <2>2, <2>3, Wraps
  <2>5. P.in = IF x < z THEN x ELSE x - z
    BY <1>2, <2>1, <2>2, <2>3
  <2>6. P.in = x % z
    BY <2>4, <2>5
  <2> QED BY <2>3, <2>6, Zenon
<1>5. Cardinality(holders) = IF Locked(P) THEN 1 ELSE 0
  <2>1. CASE Locked(P)
    <3>1. PICK t \in Threads : th[t].pc \in Owning /\ th[t].p = e
      BY <1>1, <2>1 DEF Lock
    <3>2. holders = {t}
      BY <1>1, <3>1 DEF Lock
    <3> QED BY <2>1, <3>2, FS_Singleton
  <2>2. CASE ~ Locked(P)
    <3>1. holders = {}
      BY <1>1, <2>2 DEF Lock
    <3> QED BY <2>2, <3>1, FS_EmptySet
  <2> QED BY <2>1, <2>2
<1>6. ASSUME NEW t \in holders
      PROVE  /\ th[t].pc = "rd_uiomove" => /\ th[t].size \in 1 .. P.cnt
                                           /\ P.out + th[t].size <= P.size
             /\ th[t].pc = "wr_uiomove" => th[t].size \in 1 .. space(P)
  <2>1. th[t].pc # "user" /\ th[t].p = e /\ t \in Threads
    BY DEF Owning
  <2>2. Computed(P, th[t])
    BY <2>1 DEF IInv, Thread
  <2> QED BY <2>2 DEF Computed
<1> HIDE DEF P, holders
<1>7. \A t \in holders :
        /\ th[t].pc = "rd_uiomove" => /\ th[t].size \in 1 .. P.cnt
                                      /\ P.out + th[t].size <= P.size
        /\ th[t].pc = "wr_uiomove" => th[t].size \in 1 .. space(P)
  BY <1>6
<1> QED BY <1>3, <1>4, <1>5, <1>7 DEF P, holders

LEMMA NothingFreedIsUsed ==
  ASSUME IInv
  PROVE  NoUseAfterFree
<1>1. \A e \in Ends : pipe[e].busy = Cardinality(Inside(e))
  BY DEF IInv, End
<1>2. \A t \in Threads : th[t].pc \notin {"user", "return", "selwait"} => closing[th[t].p] # "freed"
  BY DEF IInv, Thread, Away
<1>3. \A e \in Ends : pipe[e].peer # NULL => closing[pipe[e].peer] # "freed"
  BY DEF IInv, End
<1>4. nbigpipe = Cardinality({e \in Ends : pipe[e].size > PIPE_SIZE})
  <2> DEFINE A == pipe["a"].size > PIPE_SIZE
             B == pipe["b"].size > PIPE_SIZE
             S == {e \in Ends : pipe[e].size > PIPE_SIZE}
  <2>1. nbigpipe = big(pipe["a"]) + big(pipe["b"])
    BY DEF IInv
  <2>2. /\ big(pipe["a"]) = IF A THEN 1 ELSE 0
        /\ big(pipe["b"]) = IF B THEN 1 ELSE 0
    BY DEF big
  <2>3. CASE A /\ B
    <3>1. S = {"a"} \cup {"b"} /\ "b" \notin {"a"}
      BY <2>3 DEF Ends
    <3>2. IsFiniteSet({"a"}) /\ Cardinality({"a"}) = 1
      BY FS_Singleton
    <3>3. Cardinality({"a"} \cup {"b"}) = 1 + 1
      BY <3>1, <3>2, FS_AddElement
    <3>4. Cardinality(S) = 1 + 1
      BY <3>1, <3>3
    <3> QED BY <2>1, <2>2, <2>3, <3>4
  <2>4. CASE A /\ ~ B
    <3>1. S = {"a"}
      BY <2>4 DEF Ends
    <3>2. Cardinality(S) = 1
      BY <3>1, FS_Singleton
    <3> QED BY <2>1, <2>2, <2>4, <3>2
  <2>5. CASE ~ A /\ B
    <3>1. S = {"b"}
      BY <2>5 DEF Ends
    <3>2. Cardinality(S) = 1
      BY <3>1, FS_Singleton
    <3> QED BY <2>1, <2>2, <2>5, <3>2
  <2>6. CASE ~ A /\ ~ B
    <3>1. S = {}
      BY <2>6 DEF Ends
    <3>2. Cardinality(S) = 0
      BY <3>1, FS_EmptySet
    <3> QED BY <2>1, <2>2, <2>6, <3>2
  <2> QED BY <2>3, <2>4, <2>5, <2>6
<1> QED BY <1>1, <1>2, <1>3, <1>4 DEF NoUseAfterFree

(* The counters of the ring buffer agree, PIPE_LOCK has one holder whenever *)
(* it is set, and what the holder computed before uiomove() or km_alloc()   *)
(* slept still holds when it returns.                                       *)
THEOREM RingCorrect == Spec => []RingSound
  BY Invariance, RingIsSound, PTL

(* pipeclose() frees nothing that is in use: pipe_busy counts the threads   *)
(* inside, and neither they nor a pipe_peer refer to a pipe that is freed.  *)
THEOREM CloseCorrect == Spec => []NoUseAfterFree
  BY Invariance, NothingFreedIsUsed, PTL

-----------------------------------------------------------------------------
(* The bytes of the ring are a sequence: what is taken goes from its front, *)
(* and what is put in goes to its end.                                      *)

(* Where the kth byte of a ring of size z is, when the first is at o. *)
Slot(z, o, k) == IF o + k - 1 < z THEN o + k - 1 ELSE o + k - 1 - z

LEMMA AdvanceSlot ==
  ASSUME NEW z \in Nat, NEW o \in Nat, NEW c \in Nat, NEW n \in 1 .. c,
         c <= z, o < z, o + n <= z, NEW k \in 1 .. c - n
  PROVE  LET p == IF c = n \/ o + n >= z THEN 0 ELSE o + n
         IN  /\ Slot(z, p, k) = Slot(z, o, n + k) /\ Slot(z, o, n + k) \in 0 .. z - 1
             /\ Slot(z, o, n + k) \notin o .. o + n - 1
<1>1. CASE o + n >= z
  BY <1>1 DEF Slot
<1>2. CASE o + n < z /\ o + n + k - 1 < z
  BY <1>2 DEF Slot
<1>3. CASE o + n < z /\ o + n + k - 1 >= z
  BY <1>3 DEF Slot
<1> QED BY <1>1, <1>2, <1>3

(* The kth byte, in slot j, is an old one that stays, or one of the first g *)
(* new bytes, which go to slot i and the following ones, or one of those    *)
(* that go round to the front.                                              *)
Filled(z, c, n, k, i, g, j) ==
    /\ j \in 0 .. z - 1
    /\ k <= c => j \notin i .. i + g - 1 /\ ~ (j < n - g)
    /\ k > c => \/ j \in i .. i + g - 1 /\ j - i + 1 = k - c
                \/ j \notin i .. i + g - 1 /\ j < n - g /\ g + j + 1 = k - c

LEMMA FillSlot ==
  ASSUME NEW z \in Nat, NEW o \in Nat, NEW c \in Nat, NEW n \in Nat \ {0},
         c + n <= z, o < z, NEW k \in 1 .. c + n,
         NEW i, i = Index(z, o, c), NEW g, g = least(z - i, n), NEW j, j = Slot(z, o, k)
  PROVE  Filled(z, c, n, k, i, g, j)
<1>1. CASE o + c < z /\ o + c + n <= z
  BY <1>1 DEF Index, least, Slot, Filled
<1>2. CASE o + c < z /\ o + c + n > z
  BY <1>2 DEF Index, least, Slot, Filled
<1>3. CASE o + c >= z
  BY <1>3 DEF Index, least, Slot, Filled
<1> QED BY <1>1, <1>2, <1>3

LEMMA ContentsIs ==
  ASSUME NEW P \in PipeType, Ring(P)
  PROVE  /\ contents(P) = [k \in 1 .. P.cnt |-> P.buffer[Slot(P.size, P.out, k)]]
         /\ contents(P) \in Seq(Byte) /\ Len(contents(P)) = P.cnt
<1>1. /\ P.cnt \in Nat /\ P.size \in Nat /\ P.out \in Nat /\ 0 < P.size /\ P.cnt <= P.size
      /\ P.out < P.size /\ P.buffer \in [0 .. P.size - 1 -> Byte]
  BY DEF PipeType, Ring
<1>2. PICK z \in Nat, o \in Nat, c \in Nat : z = P.size /\ o = P.out /\ c = P.cnt
  BY <1>1
<1>3. ASSUME NEW k \in 1 .. c
      PROVE  (o + k - 1) % z = Slot(z, o, k) /\ Slot(z, o, k) \in 0 .. z - 1
  <2>1. 0 < z /\ o < z /\ c <= z
    BY <1>1, <1>2
  <2>2. PICK x \in Nat : x = o + k - 1 /\ x < z + z
    BY <2>1
  <2>3. x % z = IF x < z THEN x ELSE x - z
    BY <2>1, <2>2, Wraps
  <2> QED BY <2>1, <2>2, <2>3 DEF Slot
<1>4. contents(P) = [k \in 1 .. c |-> P.buffer[(o + k - 1) % z]]
  BY <1>2 DEF contents
<1>5. contents(P) = [k \in 1 .. c |-> P.buffer[Slot(z, o, k)]]
  BY <1>3, <1>4
<1>6. \A k \in 1 .. c : P.buffer[Slot(z, o, k)] \in Byte
  BY <1>1, <1>2, <1>3
<1>7. contents(P) \in Seq(Byte) /\ Len(contents(P)) = c
  BY <1>5, <1>6
<1> QED BY <1>2, <1>5, <1>7

LEMMA ContentsKept ==
  ASSUME NEW P, NEW Q, Kept(P, Q) \/ Twin(P, Q)
  PROVE  contents(Q) = contents(P)
  BY DEF Kept, Twin, contents

LEMMA ContentsEmpty ==
  ASSUME NEW P, P.cnt = 0
  PROVE  contents(P) = << >>
  BY DEF contents

LEMMA AdvanceContents ==
  ASSUME NEW P \in PipeType, Ring(P), NEW n \in 1 .. P.cnt, P.out + n <= P.size
  PROVE  /\ segment(P, n) = SubSeq(contents(P), 1, n)
         /\ contents(advance(P, n)) = SubSeq(contents(P), n + 1, Len(contents(P)))
<1>1. PICK z \in Nat, o \in Nat, c \in Nat : z = P.size /\ o = P.out /\ c = P.cnt
  BY DEF PipeType
<1>2. c <= z /\ o < z /\ o + n <= z /\ n \in 1 .. c /\ 0 < z /\ n \in Nat
  BY <1>1 DEF Ring
<1> DEFINE C == contents(P)
           A == advance(P, n)
           p == IF c = n \/ o + n >= z THEN 0 ELSE o + n
           B == [j \in DOMAIN P.buffer |-> IF j \in o .. o + n - 1 THEN Junk ELSE P.buffer[j]]
<1>3. C = [k \in 1 .. c |-> P.buffer[Slot(z, o, k)]] /\ C \in Seq(Byte) /\ Len(C) = c
  BY <1>1, ContentsIs
<1> HIDE DEF C
<1>4. /\ A \in PipeType /\ Ring(A) /\ A.size = z /\ A.cnt = c - n /\ A.out = p /\ A.buffer = B
  <2>1. A \in PipeType /\ Ring(A) /\ A.size = z /\ A.cnt = c - n
    BY <1>1, AdvanceRing
  <2>2. A.out = p /\ A.buffer = B
    BY <1>1 DEF advance, PipeType
  <2> QED BY <2>1, <2>2
<1> HIDE DEF A
<1>5. segment(P, n) = SubSeq(C, 1, n)
  <2>1. \A i \in 1 .. n : C[i] \in Byte
    BY <1>2, <1>3
  <2>2. /\ SubSeq(C, 1, n) \in Seq(Byte) /\ Len(SubSeq(C, 1, n)) = n
        /\ \A i \in 1 .. n : SubSeq(C, 1, n)[i] = C[i]
    <3>1. /\ SubSeq(C, 1, n) \in Seq(Byte)
          /\ Len(SubSeq(C, 1, n)) = IF 1 <= n THEN n - 1 + 1 ELSE 0
          /\ \A i \in 1 .. n - 1 + 1 : SubSeq(C, 1, n)[i] = C[1 + i - 1]
      BY <1>2, <2>1, SubSeqProperties
    <3> QED BY <1>2, <3>1
  <2>3. segment(P, n) = [k \in 1 .. n |-> P.buffer[o + k - 1]]
    BY <1>1 DEF segment
  <2>4. \A k \in 1 .. n : C[k] = P.buffer[o + k - 1]
    <3> SUFFICES ASSUME NEW k \in 1 .. n PROVE C[k] = P.buffer[o + k - 1]
      OBVIOUS
    <3>1. k \in 1 .. c /\ Slot(z, o, k) = o + k - 1
      BY <1>2 DEF Slot
    <3> QED BY <1>3, <3>1
  <2>5. segment(P, n) \in Seq(Byte) /\ Len(segment(P, n)) = n
    <3>1. \A k \in 1 .. n : P.buffer[o + k - 1] \in Byte
      BY <2>1, <2>4
    <3> QED BY <1>2, <2>3, <3>1
  <2>6. \A i \in 1 .. n : segment(P, n)[i] = SubSeq(C, 1, n)[i]
    BY <2>2, <2>3, <2>4
  <2> QED BY <2>2, <2>5, <2>6, SeqEqual
<1>6. contents(A) = SubSeq(C, n + 1, c)
  <2>1. /\ contents(A) = [k \in 1 .. c - n |-> B[Slot(z, p, k)]]
        /\ contents(A) \in Seq(Byte) /\ Len(contents(A)) = c - n
    <3> HIDE DEF B, p
    <3> QED BY <1>4, ContentsIs
  <2>2. \A i \in n + 1 .. c : C[i] \in Byte
    BY <1>2, <1>3
  <2>3. /\ SubSeq(C, n + 1, c) \in Seq(Byte) /\ Len(SubSeq(C, n + 1, c)) = c - n
        /\ \A i \in 1 .. c - n : SubSeq(C, n + 1, c)[i] = C[n + i]
    <3>1. /\ SubSeq(C, n + 1, c) \in Seq(Byte)
          /\ Len(SubSeq(C, n + 1, c)) = IF n + 1 <= c THEN c - (n + 1) + 1 ELSE 0
          /\ \A i \in 1 .. c - (n + 1) + 1 : SubSeq(C, n + 1, c)[i] = C[(n + 1) + i - 1]
      BY <1>2, <2>2, SubSeqProperties
    <3>2. c - (n + 1) + 1 = c - n /\ \A i \in 1 .. c - n : (n + 1) + i - 1 = n + i
      BY <1>2
    <3> QED BY <1>2, <3>1, <3>2
  <2>4. \A k \in 1 .. c - n : B[Slot(z, p, k)] = C[n + k]
    <3> SUFFICES ASSUME NEW k \in 1 .. c - n PROVE B[Slot(z, p, k)] = C[n + k]
      OBVIOUS
    <3>1. /\ Slot(z, p, k) = Slot(z, o, n + k) /\ Slot(z, o, n + k) \in 0 .. z - 1
          /\ Slot(z, o, n + k) \notin o .. o + n - 1
      BY <1>2, AdvanceSlot
    <3>2. n + k \in 1 .. c
      BY <1>2
    <3>3. DOMAIN P.buffer = 0 .. z - 1
      BY <1>1 DEF Ring
    <3>4. B[Slot(z, o, n + k)] = P.buffer[Slot(z, o, n + k)]
      BY <3>1, <3>3
    <3> HIDE DEF B, p
    <3> QED BY <1>3, <3>1, <3>2, <3>4
  <2> HIDE DEF B, p
  <2>5. \A i \in 1 .. c - n : contents(A)[i] = SubSeq(C, n + 1, c)[i]
    BY <2>1, <2>3, <2>4
  <2> QED BY <2>1, <2>3, <2>5, SeqEqual
<1> QED BY <1>3, <1>5, <1>6 DEF A, C

LEMMA FillContents ==
  ASSUME NEW P \in PipeType, Ring(P), NEW s \in Seq(Byte), Len(s) \in 1 .. space(P)
  PROVE  contents(fill(P, s)) = contents(P) \o s
<1>1. PICK z \in Nat, o \in Nat, c \in Nat, n \in Nat \ {0} :
        z = P.size /\ o = P.out /\ c = P.cnt /\ n = Len(s)
  BY DEF PipeType
<1>2. c + n <= z /\ o < z /\ P.in = Index(z, o, c) /\ n \in Nat
  BY <1>1 DEF Ring, space, Index
<1> DEFINE C == contents(P)
           F == fill(P, s)
           i == Index(z, o, c)
           g == least(z - i, n)
           B == [j \in DOMAIN P.buffer |->
                   IF j \in i .. i + g - 1 THEN s[j - i + 1]
                   ELSE IF j < n - g THEN s[g + j + 1]
                   ELSE P.buffer[j]]
<1>3. C = [k \in 1 .. c |-> P.buffer[Slot(z, o, k)]] /\ C \in Seq(Byte) /\ Len(C) = c
  BY <1>1, ContentsIs
<1> HIDE DEF C
<1>4. /\ F \in PipeType /\ Ring(F) /\ F.size = z /\ F.cnt = c + n /\ F.out = o /\ F.buffer = B
  <2>1. F \in PipeType /\ Ring(F) /\ F.size = z /\ F.cnt = c + n
    BY <1>1, FillRing
  <2>2. F.out = o
    BY <1>1 DEF fill, PipeType
  <2>3. F.buffer = B
    BY <1>1, <1>2 DEF fill, PipeType
  <2> QED BY <2>1, <2>2, <2>3
<1> HIDE DEF F
<1>5. /\ contents(F) = [k \in 1 .. c + n |-> B[Slot(z, o, k)]]
      /\ contents(F) \in Seq(Byte) /\ Len(contents(F)) = c + n
  <2> HIDE DEF B
  <2> QED BY <1>4, ContentsIs
<1>6. /\ C \o s \in Seq(Byte) /\ Len(C \o s) = c + n
      /\ \A k \in 1 .. c + n : (C \o s)[k] = IF k <= c THEN C[k] ELSE s[k - c]
  BY <1>1, <1>3, ConcatProperties
<1>7. ASSUME NEW k \in 1 .. c + n
      PROVE  B[Slot(z, o, k)] = IF k <= c THEN C[k] ELSE s[k - c]
  <2> DEFINE j == Slot(z, o, k)
  <2>0. i = Index(z, o, c) /\ g = least(z - i, n) /\ j = Slot(z, o, k)
    OBVIOUS
  <2>2. DOMAIN P.buffer = 0 .. z - 1
    BY <1>1 DEF Ring
  <2>3. k <= c => C[k] = P.buffer[j]
    BY <1>3
  <2> HIDE DEF j, i, g
  <2>1. /\ j \in 0 .. z - 1
        /\ k <= c => j \notin i .. i + g - 1 /\ ~ (j < n - g)
        /\ k > c => \/ j \in i .. i + g - 1 /\ j - i + 1 = k - c
                    \/ j \notin i .. i + g - 1 /\ j < n - g /\ g + j + 1 = k - c
    <3>1. Filled(z, c, n, k, i, g, j)
      BY <1>2, <2>0, FillSlot
    <3> QED BY <3>1 DEF Filled
  <2>4. B[j] = IF j \in i .. i + g - 1 THEN s[j - i + 1]
               ELSE IF j < n - g THEN s[g + j + 1] ELSE P.buffer[j]
    BY <2>1, <2>2
  <2> HIDE DEF B
  <2>5. k <= c => B[j] = C[k]
    BY <2>1, <2>3, <2>4
  <2>6. k > c => B[j] = s[k - c]
    BY <2>1, <2>4
  <2> QED BY <2>5, <2>6 DEF j
<1> HIDE DEF B
<1>8. \A k \in 1 .. c + n : contents(F)[k] = (C \o s)[k]
  BY <1>5, <1>6, <1>7
<1> QED BY <1>5, <1>6, <1>8, SeqEqual DEF C, F

-----------------------------------------------------------------------------
(* The stream that the pipe implements. *)

Opened == {e \in Ends : closing[e] # "freed"}
Streams == [e \in Ends |-> contents(pipe[e])]
Want == [t \in Threads |-> IF Writing(t) THEN th[t].call.n ELSE 0]
Given == [t \in Threads |-> IF Writing(t) THEN th[t].call.n - th[t].resid ELSE 0]
Got == [t \in Threads |-> IF th[t].pc = "user" THEN << >> ELSE th[t].got]

(* The same, of the locals L. *)
want(L) == IF L.pc # "user" /\ L.call.op = "write" THEN L.call.n ELSE 0
given(L) == IF L.pc # "user" /\ L.call.op = "write" THEN L.call.n - L.resid ELSE 0
got(L) == IF L.pc = "user" THEN << >> ELSE L.got

(* Two functions that differ at t, or nowhere. *)
LEMMA MapExcept ==
  ASSUME NEW S, NEW F, NEW G, NEW t \in S, NEW v,
         F = [u \in S |-> F[u]], G = [u \in S |-> G[u]],
         G[t] = v, \A u \in S \ {t} : G[u] = F[u]
  PROVE  G = [F EXCEPT ![t] = v]
<1>1. [F EXCEPT ![t] = v] = [u \in S |-> IF u = t THEN v ELSE F[u]]
  OBVIOUS
<1>2. \A u \in S : G[u] = IF u = t THEN v ELSE F[u]
  OBVIOUS
<1> QED BY <1>1, <1>2

LEMMA ExceptSame ==
  ASSUME NEW S, NEW F, NEW t \in S, F = [u \in S |-> F[u]], NEW v, v = F[t]
  PROVE  [F EXCEPT ![t] = v] = F
  OBVIOUS

LEMMA Maps ==
  /\ Want = [t \in Threads |-> Want[t]] /\ Want' = [t \in Threads |-> Want'[t]]
  /\ Given = [t \in Threads |-> Given[t]] /\ Given' = [t \in Threads |-> Given'[t]]
  /\ Got = [t \in Threads |-> Got[t]] /\ Got' = [t \in Threads |-> Got'[t]]
  /\ Streams = [e \in Ends |-> Streams[e]] /\ Streams' = [e \in Ends |-> Streams'[e]]
<1>1. Want = [t \in Threads |-> Want[t]] /\ Want' = [t \in Threads |-> Want'[t]]
  BY DEF Want
<1>2. Given = [t \in Threads |-> Given[t]] /\ Given' = [t \in Threads |-> Given'[t]]
  BY DEF Given
<1>3. Got = [t \in Threads |-> Got[t]] /\ Got' = [t \in Threads |-> Got'[t]]
  BY DEF Got
<1>4. Streams = [e \in Ends |-> Streams[e]] /\ Streams' = [e \in Ends |-> Streams'[e]]
  BY DEF Streams
<1> QED BY <1>1, <1>2, <1>3, <1>4

LEMMA ThreadMapped ==
  ASSUME IInv, NEW t \in Threads, NEW M, th' = [th EXCEPT ![t] = M]
  PROVE  /\ Want[t] = want(th[t]) /\ Given[t] = given(th[t]) /\ Got[t] = got(th[t])
         /\ Want' = [Want EXCEPT ![t] = want(M)]
         /\ Given' = [Given EXCEPT ![t] = given(M)]
         /\ Got' = [Got EXCEPT ![t] = got(M)]
<1>1. th'[t] = M /\ \A u \in Threads \ {t} : th'[u] = th[u]
  BY DEF IInv, TypeOK
<1>2. Want[t] = want(th[t]) /\ Given[t] = given(th[t]) /\ Got[t] = got(th[t])
  BY DEF Want, Given, Got, want, given, got, Writing
<1>3. Want' = [Want EXCEPT ![t] = want(M)]
  <2>1. Want'[t] = want(M) /\ \A u \in Threads \ {t} : Want'[u] = Want[u]
    BY <1>1 DEF Want, want, Writing
  <2> QED BY <2>1, Maps, MapExcept
<1>4. Given' = [Given EXCEPT ![t] = given(M)]
  <2>1. Given'[t] = given(M) /\ \A u \in Threads \ {t} : Given'[u] = Given[u]
    BY <1>1 DEF Given, given, Writing
  <2> QED BY <2>1, Maps, MapExcept
<1>5. Got' = [Got EXCEPT ![t] = got(M)]
  <2>1. Got'[t] = got(M) /\ \A u \in Threads \ {t} : Got'[u] = Got[u]
    BY <1>1 DEF Got, got
  <2> QED BY <2>1, Maps, MapExcept
<1> QED BY <1>2, <1>3, <1>4, <1>5

LEMMA ThreadSame ==
  ASSUME th' = th
  PROVE  Want' = Want /\ Given' = Given /\ Got' = Got
  BY DEF Want, Given, Got, Writing

(* A thread that keeps what it has. *)
LEMMA ThreadKeeps ==
  ASSUME IInv, NEW t \in Threads, NEW M, th' = [th EXCEPT ![t] = M],
         want(M) = want(th[t]), given(M) = given(th[t]), got(M) = got(th[t])
  PROVE  Want' = Want /\ Given' = Given /\ Got' = Got
<1>1. /\ Want[t] = want(th[t]) /\ Given[t] = given(th[t]) /\ Got[t] = got(th[t])
      /\ Want' = [Want EXCEPT ![t] = want(M)]
      /\ Given' = [Given EXCEPT ![t] = given(M)]
      /\ Got' = [Got EXCEPT ![t] = got(M)]
  BY ThreadMapped
<1> QED BY <1>1, Maps, ExceptSame

LEMMA StreamMapped ==
  ASSUME IInv, NEW e \in Ends, NEW Q, pipe' = [pipe EXCEPT ![e] = Q]
  PROVE  Streams[e] = contents(pipe[e]) /\ Streams' = [Streams EXCEPT ![e] = contents(Q)]
<1>1. pipe'[e] = Q /\ \A f \in Ends \ {e} : pipe'[f] = pipe[f]
  BY DEF IInv, TypeOK
<1>2. Streams[e] = contents(pipe[e]) /\ Streams'[e] = contents(Q)
      /\ \A f \in Ends \ {e} : Streams'[f] = Streams[f]
  BY <1>1 DEF Streams
<1> QED BY <1>2, Maps, MapExcept

LEMMA StreamSame ==
  ASSUME \A e \in Ends : contents(pipe'[e]) = contents(pipe[e])
  PROVE  Streams' = Streams
  BY DEF Streams

Same == /\ Opened' = Opened /\ Streams' = Streams
        /\ Want' = Want /\ Given' = Given /\ Got' = Got

LEMMA SameStutters ==
  ASSUME Same
  PROVE  UNCHANGED Stream!svars
  BY DEF Same, Stream!svars, Opened, Streams, Want, Given, Got

(* Thread t begins a call. *)
LEMMA BeginRefines ==
  ASSUME IInv, NEW t \in Threads, th[t].pc = "user", NEW M, th' = [th EXCEPT ![t] = M],
         M.pc # "user", NEW c \in Calls[t], M.call = c, M.resid = c.n, M.got = << >>,
         Streams' = Streams, closing' = closing
  PROVE  [Stream!Next]_(Stream!svars)
<1>1. /\ Want[t] = want(th[t]) /\ Given[t] = given(th[t]) /\ Got[t] = got(th[t])
      /\ Want' = [Want EXCEPT ![t] = want(M)]
      /\ Given' = [Given EXCEPT ![t] = given(M)]
      /\ Got' = [Got EXCEPT ![t] = got(M)]
  BY ThreadMapped
<1>2. c \in Call /\ c.n \in Nat
  BY PipeAssumption DEF Call
<1>3. want(th[t]) = 0 /\ given(th[t]) = 0 /\ got(th[t]) = << >>
      /\ given(M) = 0 /\ got(M) = << >> /\ want(M) = IF c.op = "write" THEN c.n ELSE 0
  BY <1>2 DEF want, given, got
<1>4. Given' = Given /\ Got' = Got /\ Opened' = Opened
  <2>1. Given[t] = given(M) /\ Got[t] = got(M)
    BY <1>1, <1>3
  <2>2. Given = [u \in Threads |-> Given[u]] /\ Got = [u \in Threads |-> Got[u]]
    BY Maps
  <2>3. [Given EXCEPT ![t] = given(M)] = Given
    BY <2>1, <2>2, ExceptSame
  <2>4. [Got EXCEPT ![t] = got(M)] = Got
    BY <2>1, <2>2, ExceptSame
  <2> QED BY <1>1, <2>3, <2>4 DEF Opened
<1>5. CASE c.op = "write"
  <2>1. Stream!Begin(t, c.n)
    BY <1>1, <1>3, <1>4, <1>5 DEF Stream!Begin, Want, Given, Got, Opened, Streams
  <2>2. c.n \in {d.n : d \in UNION {Calls[u] : u \in Threads}}
    OBVIOUS
  <2> QED BY <2>1, <2>2 DEF Stream!Next
<1>6. CASE c.op # "write"
  <2>1. Want' = Want
    <3>1. Want[t] = want(M)
      BY <1>1, <1>3, <1>6
    <3>2. Want = [u \in Threads |-> Want[u]]
      BY Maps
    <3>3. [Want EXCEPT ![t] = want(M)] = Want
      BY <3>1, <3>2, ExceptSame
    <3> QED BY <1>1, <3>3
  <2>2. Same
    BY <1>4, <2>1 DEF Same
  <2> QED BY <2>2, SameStutters
<1> QED BY <1>5, <1>6

LEMMA ActsRefines ==
  ASSUME IInv, ~ LateResize, NEW t \in Threads, Acts(t)
  PROVE  [Stream!Next]_(Stream!svars)
<1>1. PICK e \in Ends : \E Q, M :
        Moves(t, e, Q, M) /\ (Stays(t, e, Q, M) \/ Took(t, e, Q, M) \/ Gave(t, e, Q, M)
                              \/ Resized(t, e, Q, M))
  BY DEF Acts
<1>2. PICK Q, M :
        Moves(t, e, Q, M) /\ (Stays(t, e, Q, M) \/ Took(t, e, Q, M) \/ Gave(t, e, Q, M)
                              \/ Resized(t, e, Q, M))
  BY <1>1
<1>3. /\ pipe' = [pipe EXCEPT ![e] = Q] /\ th' = [th EXCEPT ![t] = M] /\ closing' = closing
      /\ M.pc # "user" /\ closing[e] # "freed"
      /\ th[t].pc # "user" => th[t].p = e
  BY <1>2 DEF Moves, FrameType, Reading, Writes, Away
<1>4. Opened' = Opened
  BY <1>3 DEF Opened
<1>5. Streams[e] = contents(pipe[e]) /\ Streams' = [Streams EXCEPT ![e] = contents(Q)]
  BY <1>3, StreamMapped
<1>6. /\ Want[t] = want(th[t]) /\ Given[t] = given(th[t]) /\ Got[t] = got(th[t])
      /\ Want' = [Want EXCEPT ![t] = want(M)]
      /\ Given' = [Given EXCEPT ![t] = given(M)]
      /\ Got' = [Got EXCEPT ![t] = got(M)]
  BY <1>3, ThreadMapped
<1>7. pipe[e] \in PipeType /\ Ring(pipe[e])
  BY <1>3 DEF IInv, TypeOK, End
<1>8. contents(Q) = contents(pipe[e]) => Streams' = Streams
  BY <1>5 DEF Streams
<1>9. ASSUME th[t].pc # "user", contents(Q) = contents(pipe[e]),
             M.call = th[t].call, M.resid = th[t].resid, M.got = th[t].got
      PROVE  Same
  <2>1. want(M) = want(th[t]) /\ given(M) = given(th[t]) /\ got(M) = got(th[t])
    BY <1>3, <1>9 DEF want, given, got
  <2>2. Want' = Want /\ Given' = Given /\ Got' = Got
    BY <1>3, <2>1, ThreadKeeps
  <2> QED BY <1>4, <1>8, <1>9, <2>2 DEF Same
<1>10. CASE Stays(t, e, Q, M)
  <2>1. contents(Q) = contents(pipe[e])
    BY <1>10, ContentsKept DEF Stays
  <2>2. CASE th[t].pc = "user"
    <3>1. PICK c \in Calls[t] : M.call = c /\ M.resid = c.n /\ M.got = << >>
      BY <1>10, <2>2 DEF Stays
    <3> QED BY <1>3, <1>8, <2>1, <2>2, <3>1, BeginRefines
  <2>3. CASE th[t].pc # "user"
    <3>1. Same
      BY <1>9, <1>10, <2>1, <2>3 DEF Stays, Carries
    <3> QED BY <3>1, SameStutters
  <2> QED BY <2>2, <2>3
<1>11. CASE Resized(t, e, Q, M)
  <2>1. pipe[e].cnt = 0 /\ th[t].pc # "user"
    BY <1>11 DEF Resized
  <2>2. BIG_PIPE_SIZE \in Nat
    BY PipeAssumption
  <2>3. Q.cnt = 0
    BY <1>7, <1>11, <2>2, SpaceRing DEF Resized, Kept
  <2>4. contents(Q) = contents(pipe[e])
    BY <2>1, <2>3, ContentsEmpty
  <2>5. Same
    BY <1>9, <1>11, <2>1, <2>4 DEF Resized
  <2> QED BY <2>5, SameStutters
<1>12. CASE Took(t, e, Q, M)
  <2> DEFINE n == th[t].size
             C == contents(pipe[e])
  <2>1. th[t].pc = "rd_uiomove" /\ th[t].p = e /\ th[t].pc # "user"
    BY <1>3, <1>12 DEF Took
  <2>2. /\ n \in 1 .. pipe[e].cnt /\ pipe[e].out + n <= pipe[e].size /\ th[t].call.op = "read"
    BY <2>1, LocalFacts DEF Computed, Reading
  <2>3. /\ segment(pipe[e], n) = SubSeq(C, 1, n)
        /\ contents(advance(pipe[e], n)) = SubSeq(C, n + 1, Len(C)) /\ Len(C) = pipe[e].cnt
    BY <1>7, <2>2, AdvanceContents, ContentsIs
  <2>4. contents(Q) = SubSeq(C, n + 1, Len(C))
    BY <1>12, <2>3, ContentsKept DEF Took
  <2>5. want(M) = want(th[t]) /\ given(M) = given(th[t])
        /\ got(M) = got(th[t]) \o SubSeq(C, 1, n)
    BY <1>3, <1>12, <2>1, <2>2, <2>3 DEF want, given, got, Took
  <2>6. Want' = Want /\ Given' = Given
    BY <1>6, <2>5, Maps, ExceptSame
  <2>7. Got' = [Got EXCEPT ![t] = @ \o SubSeq(Streams[e], 1, n)]
    BY <1>5, <1>6, <2>5
  <2>8. Streams' = [Streams EXCEPT ![e] = SubSeq(@, n + 1, Len(@))]
    BY <1>5, <2>4
  <2>9. n \in 1 .. Len(Streams[e])
    BY <1>5, <2>2, <2>3
  <2> HIDE DEF C, n
  <2>10. PICK m : m = n
    OBVIOUS
  <2>11. Stream!Take(t, e, m)
    BY <1>4, <2>6, <2>7, <2>8, <2>9, <2>10 DEF Stream!Take, Want, Given, Got, Opened, Streams
  <2>12. m \in 1 .. Len([f \in Ends |-> contents(pipe[f])][e])
    BY <2>9, <2>10 DEF Streams
  <2>13. \E k \in 1 .. Len([f \in Ends |-> contents(pipe[f])][e]) : Stream!Take(t, e, k)
    BY <2>11, <2>12
  <2> QED BY <2>13 DEF Stream!Next
<1>13. CASE Gave(t, e, Q, M)
  <2> DEFINE n == th[t].size
             i == th[t].call.n - th[t].resid
             j == i + n
             w == th[t].call.n
             s == nextbytes(t, th[t])
  <2>1. th[t].pc = "wr_uiomove" /\ th[t].p = e /\ th[t].pc # "user"
    BY <1>3, <1>13 DEF Gave
  <2>2. /\ n \in 1 .. space(pipe[e]) /\ n <= th[t].resid /\ th[t].call.op = "write"
        /\ th[t].resid <= w /\ th[t].resid \in Nat /\ w \in Nat /\ n \in Nat
        /\ w <= PIPE_BUF => n = th[t].resid /\ th[t].resid \in {0, w}
    BY <2>1, LocalFacts DEF Computed, Writes
  <2>3. s \in Seq(Byte) /\ Len(s) = n
    <3>1. \A k \in 1 .. n : <<t, i + k>> \in Byte
      BY <2>2 DEF Byte
    <3> QED BY <2>2, <3>1 DEF nextbytes
  <2>4. s = [k \in 1 .. j - i |-> <<t, i + k>>]
    <3>1. j - i = n
      BY <2>2
    <3> QED BY <3>1 DEF nextbytes
  <2> HIDE DEF s
  <2>5. contents(fill(pipe[e], s)) = contents(pipe[e]) \o s
    BY <1>7, <2>2, <2>3, FillContents
  <2>6. contents(Q) = contents(pipe[e]) \o s
    BY <1>13, <2>5, ContentsKept DEF Gave, s
  <2>7. /\ want(M) = w /\ want(th[t]) = w /\ given(th[t]) = i /\ given(M) = j
        /\ got(M) = got(th[t])
    <3>1. w - (th[t].resid - n) = j
      BY <2>2
    <3> QED BY <1>3, <1>13, <2>1, <2>2, <3>1 DEF want, given, got, Gave
  <2>8. Want' = Want /\ Got' = Got
    <3>1. Want[t] = want(M) /\ Got[t] = got(M)
      BY <1>6, <2>7
    <3>2. Want' = Want
      BY <1>6, <3>1, Maps, ExceptSame
    <3>3. Got' = Got
      BY <1>6, <3>1, Maps, ExceptSame
    <3> QED BY <3>2, <3>3
  <2>9. Given' = [Given EXCEPT ![t] = j] /\ Given[t] = i /\ Want[t] = w
    BY <1>6, <2>7
  <2>10. j \in i + 1 .. w /\ (w <= PIPE_BUF => i = 0 /\ j = w) /\ j \in 1 .. w
    BY <2>2
  <2> HIDE DEF i, j, w, n
  <2>11. Stream!Bytes(t, i, j) = s
    BY <2>4 DEF Stream!Bytes
  <2>12. Streams' = [Streams EXCEPT ![e] = @ \o Stream!Bytes(t, Given[t], j)]
    BY <1>5, <2>6, <2>9, <2>11
  <2>13. e \in Opened
    BY <1>3 DEF Opened
  <2>14. j \in Given[t] + 1 .. Want[t] /\ (Want[t] <= PIPE_BUF => Given[t] = 0 /\ j = Want[t])
    BY <2>9, <2>10
  <2>15. PICK k : k = j
    OBVIOUS
  <2>16. Stream!Give(t, e, k)
    BY <1>4, <2>8, <2>9, <2>12, <2>13, <2>14, <2>15
       DEF Stream!Give, Want, Given, Got, Opened, Streams
  <2>17. k \in 1 .. [u \in Threads |-> IF Writing(u) THEN th[u].call.n ELSE 0][t]
    BY <2>9, <2>10, <2>15 DEF Want
  <2>18. \E l \in 1 .. [u \in Threads |-> IF Writing(u) THEN th[u].call.n ELSE 0][t] :
           Stream!Give(t, e, l)
    BY <2>16, <2>17
  <2> QED BY <2>18 DEF Stream!Next
<1> QED BY <1>2, <1>10, <1>11, <1>12, <1>13

LEMMA BesideRefines ==
  ASSUME IInv, NEW t \in Threads, Beside(t)
  PROVE  [Stream!Next]_(Stream!svars)
<1>1. /\ closing' = closing /\ \A e \in Ends : contents(pipe'[e]) = contents(pipe[e])
  BY ContentsKept DEF Beside, Alike
<1>2. Streams' = Streams /\ Opened' = Opened
  BY <1>1, StreamSame DEF Opened
<1>3. PICK M \in {Idle} \cup FrameType :
         /\ th' = [th EXCEPT ![t] = M] /\ M.pc \in Out /\ Polls(M)
         /\ \/ M = Idle
            \/ /\ th[t].pc = "user"
               /\ \E c \in Calls[t] : M.call = c /\ M.resid = c.n /\ M.got = << >>
            \/ /\ th[t].pc = "selwait" /\ Polls(th[t])
               /\ M.call = th[t].call /\ M.got = << >>
  BY DEF Beside
<1>4. CASE M = Idle
  <2>1. want(M) = 0 /\ given(M) = 0 /\ got(M) = << >>
    BY <1>4 DEF want, given, got, Idle
  <2>2. /\ Want' = [Want EXCEPT ![t] = 0] /\ Given' = [Given EXCEPT ![t] = 0]
        /\ Got' = [Got EXCEPT ![t] = << >>]
    <3>1. /\ Want' = [Want EXCEPT ![t] = want(M)] /\ Given' = [Given EXCEPT ![t] = given(M)]
          /\ Got' = [Got EXCEPT ![t] = got(M)]
      BY <1>3, ThreadMapped
    <3> QED BY <2>1, <3>1
  <2>3. Stream!Return(t)
    BY <1>2, <2>2 DEF Stream!Return, Want, Given, Got, Opened, Streams
  <2> QED BY <2>3 DEF Stream!Next
<1>5. CASE M # Idle /\ th[t].pc = "user"
  <2>1. PICK c \in Calls[t] : M.call = c /\ M.resid = c.n /\ M.got = << >>
    BY <1>3, <1>5
  <2>2. M.pc # "user"
    BY <1>3, <1>5 DEF FrameType, Reading, Writes, Away
  <2> QED BY <1>1, <1>2, <1>3, <1>5, <2>1, <2>2, BeginRefines
<1>6. CASE M # Idle /\ th[t].pc = "selwait"
  <2>1. M.pc # "user" /\ M.call = th[t].call /\ M.got = << >> /\ th[t].got = << >>
        /\ th[t].call.op = "poll"
    BY <1>3, <1>6 DEF FrameType, Reading, Writes, Away, Polls
  <2>2. want(M) = want(th[t]) /\ given(M) = given(th[t]) /\ got(M) = got(th[t])
    BY <1>6, <2>1 DEF want, given, got
  <2>3. Same
    BY <1>2, <1>3, <2>2, ThreadKeeps DEF Same
  <2> QED BY <2>3, SameStutters
<1> QED BY <1>3, <1>4, <1>5, <1>6

LEMMA FreesRefines ==
  ASSUME IInv, NEW e \in Ends, Frees(e)
  PROVE  [Stream!Next]_(Stream!svars)
<1>1. th' = th /\ closing' = [closing EXCEPT ![e] = "freed"]
  BY DEF Frees
<1>2. Opened' = Opened \ {e}
  BY <1>1 DEF Opened, IInv, TypeOK
<1>3. contents(pipe'[e]) = << >> /\ contents(pipe'[other(e)]) = contents(pipe[other(e)])
  BY ContentsKept, ContentsEmpty DEF Frees
<1>4. Streams' = [Streams EXCEPT ![e] = << >>]
  BY <1>3 DEF Streams, other, Ends
<1>5. Want' = Want /\ Given' = Given /\ Got' = Got
  BY <1>1, ThreadSame
<1>6. Stream!Shut(e)
  BY <1>2, <1>4, <1>5 DEF Stream!Shut, Want, Given, Got, Opened, Streams
<1> QED BY <1>6 DEF Stream!Next

LEMMA dopipeRefines ==
  ASSUME IInv, dopipe
  PROVE  [Stream!Next]_(Stream!svars)
<1>1. /\ \A e \in Ends : closing[e] = "freed" /\ closing'[e] = "open"
      /\ th' = th /\ pipe' = [e \in Ends |-> pipe_create(e)]
  BY DEF dopipe
<1>2. Opened = {} /\ Opened' = Ends
  BY <1>1 DEF Opened
<1>3. \A e \in Ends : contents(pipe'[e]) = contents(pipe[e])
  <2>1. \A e \in Ends : pipe'[e].cnt = 0 /\ pipe[e].cnt = 0
    BY <1>1 DEF IInv, End, pipe_create
  <2> QED BY <2>1, ContentsEmpty
<1>4. Streams' = Streams
  BY <1>3, StreamSame
<1>5. Want' = Want /\ Given' = Given /\ Got' = Got
  BY <1>1, ThreadSame
<1>6. Stream!Open
  BY <1>2, <1>4, <1>5 DEF Stream!Open, Want, Given, Got, Opened, Streams
<1> QED BY <1>6 DEF Stream!Next

LEMMA StepRefines ==
  ASSUME IInv, ~ LateResize, Steps
  PROVE  [Stream!Next]_(Stream!svars)
<1>1. CASE NotesChange
  <2>1. \A e \in Ends : contents(pipe'[e]) = contents(pipe[e])
    BY <1>1, NotesSteps, ContentsKept DEF Alike
  <2>2. th' = th /\ closing' = closing
    BY <1>1 DEF NotesChange
  <2>3. Same
    BY <2>1, <2>2, StreamSame, ThreadSame DEF Same, Opened
  <2> QED BY <2>3, SameStutters
<1>2. ASSUME NEW e \in Ends, closing[e] # "freed", Closes(e)
      PROVE  [Stream!Next]_(Stream!svars)
  <2>1. \A f \in Ends : contents(pipe'[f]) = contents(pipe[f])
    BY <1>2, ContentsKept DEF Closes, Alike
  <2>2. th' = th /\ Opened' = Opened
    BY <1>2 DEF Closes, Opened, IInv, TypeOK
  <2>3. Same
    BY <2>1, <2>2, StreamSame, ThreadSame DEF Same
  <2> QED BY <2>3, SameStutters
<1>3. CASE UNCHANGED vars
  <2>1. Same
    BY <1>3 DEF vars, Same, Opened, Streams, Want, Given, Got, Writing
  <2> QED BY <2>1, SameStutters
<1> QED BY <1>1, <1>2, <1>3, ActsRefines, BesideRefines, FreesRefines, dopipeRefines DEF Steps

(* If no memory is had for a pipe that is no longer empty, a pipe is a      *)
(* stream of bytes: pipe_read() takes them in the order in which            *)
(* pipe_write() gave them, each once, and none of a write of at most        *)
(* PIPE_BUF bytes comes between those of another.                           *)
THEOREM Refinement ==
  ASSUME ~ LateResize
  PROVE  Spec => ImplementsStream
<1>1. Init => Stream!Init
  <2> SUFFICES ASSUME Init PROVE Stream!Init
    OBVIOUS
  <2>1. /\ pipe = [e \in Ends |-> pipe_create(e)] /\ th = [t \in Threads |-> Idle]
        /\ closing = [e \in Ends |-> "open"]
    BY DEF Init
  <2>2. \A e \in Ends : contents(pipe[e]) = << >>
    BY <2>1, ContentsEmpty DEF pipe_create
  <2>3. \A t \in Threads : th[t].pc = "user"
    BY <2>1 DEF Idle
  <2> QED BY <2>1, <2>2, <2>3 DEF Stream!Init, Writing
<1>2. IInv /\ [Next]_vars => [Stream!Next]_(Stream!svars)
  BY NextSteps, StepRefines
<1> QED BY <1>1, <1>2, Invariance, PTL DEF Spec, ImplementsStream, Stream!Spec

-----------------------------------------------------------------------------
(* Nobody is forgotten.                                                     *)
(*                                                                          *)
(* All sleep on one address.  A sleeper has left a flag that says what he   *)
(* waits for, and whoever clears the flag wakes everybody.  Data that a     *)
(* reader has not been told of are there only while a writer that will tell *)
(* him is on its way (Filling), and so is space while a reader is           *)
(* (Draining).                                                              *)

LockWaits == {"rd_pipelk", "rd_relock", "rs_pipelk", "wr_pipelk"}
Wants     == {"LWANT", "WANT", "WANTR", "WANTW"}

Fills(L)  == L.pc \in {"wr_pipelk", "wr_uiomove"}
Drains(L) == L.pc = "rd_uiomove"

Filling(e)  == \E u \in Threads : Fills(th[u]) /\ th[u].p = e
Draining(e) == \E u \in Threads : Drains(th[u]) /\ th[u].p = e

(* What those who wait for data, for enough space to wake a writer, and for *)
(* space to write to can rely on while nobody has told them.                *)
NoData(e)  == pipe[e].cnt = 0 \/ Filling(e)
NoSpace(e) == pipe[e].cnt >= MINPIPESIZE \/ Draining(e)
NoRoom(e)  == space(pipe[e]) < PIPE_BUF \/ Draining(e)

Sleeper(t, e) ==
    LET P == pipe[e] IN
    /\ th[t].pc \in LockWaits \cup {"piperd", "pipewr"} /\ th[t].p = e
    /\ th[t].pc \in LockWaits => "LWANT" \in P.state /\ Locked(P)
    /\ th[t].pc = "piperd" => "WANTR" \in P.state /\ "EOF" \notin P.state /\ NoData(e)
    /\ th[t].pc = "pipewr" => "WANTW" \in P.state /\ "EOF" \notin P.state /\ NoSpace(e)

Closer(e) == closing[e] = "asleep" /\ e \in pipe[e].sleepers =>
    "WANT" \in pipe[e].state /\ 0 < pipe[e].busy

Pollers(e) == LET P == pipe[e] IN P.sel # {} =>
    /\ "SEL" \in P.state /\ "EOF" \notin P.state
    /\ closing[e] # "freed" /\ closing[other(e)] # "freed"

Poller(t, e) ==
    /\ th[t].pc = "selwait"
    /\ th[t].call.end = e => NoData(e)
    /\ th[t].call.end # e => NoRoom(e)

Knotes(e) == LET P == pipe[e] IN
    /\ "EVFILT_READ" \in P.notes => <<e, "EVFILT_READ">> \in Notes
    /\ "EVFILT_READ" \in P.notes \ P.active =>
         "EOF" \notin P.state /\ closing[other(e)] # "freed" /\ NoData(e)
    /\ "EVFILT_WRITE" \in P.notes \ P.active => "EOF" \in P.state \/ NoRoom(e)

(* PIPE_EOF is set by a pipeclose() that waits, or is over. *)
Eof(e) ==
    /\ "EOF" \in pipe[e].state => closing[e] = "asleep" \/ closing[other(e)] = "freed"
    /\ closing[e] = "asleep" => "EOF" \in pipe[e].state
    /\ IF closing[e] = "freed" THEN pipe[e].notes = {} ELSE PIPE_SIZE <= pipe[e].size

Awaits(e) ==
    /\ \A t \in Threads : t \in pipe[e].sleepers => Sleeper(t, e)
    /\ \A t \in pipe[e].sel : Poller(t, e)
    /\ Closer(e) /\ Pollers(e) /\ Knotes(e) /\ Eof(e)

WInv == \A e \in Ends : Awaits(e)

(* P becomes Q: nobody but t falls asleep, and the flags that the others    *)
(* have left stay, or all of them are woken; those who poll stay recorded,  *)
(* or none does.                                                            *)
Calm(t, P, Q) ==
    /\ "EOF" \in Q.state <=> "EOF" \in P.state
    /\ \/ Q.sleepers \subseteq {t}
       \/ /\ Q.sleepers \subseteq P.sleepers \cup {t} /\ P.state \cap Wants \subseteq Q.state
          /\ "LWANT" \in P.state /\ Locked(P) => Locked(Q)
          /\ "WANT" \in P.state /\ 0 < P.busy => 0 < Q.busy
    /\ Q.sel = {} \/ (Q.sel = P.sel /\ ("SEL" \in P.state => "SEL" \in Q.state))
    /\ Q.notes = P.notes /\ P.active \subseteq Q.active

LEMMA CalmTrans ==
  ASSUME NEW t, NEW P, NEW Q, NEW R, Calm(t, P, Q), Calm(t, Q, R)
  PROVE  Calm(t, P, R)
  BY DEF Calm, Wants

LEMMA CalmSelf ==
  ASSUME NEW t, NEW P
  PROVE  Calm(t, P, P)
  BY DEF Calm

LEMMA FlagCalm ==
  ASSUME NEW t, NEW P \in PipeType, NEW f \in SUBSET (Flags \ {"EOF"})
  PROVE  /\ Calm(t, P, flag(P, f)) /\ flag(P, f).sleepers = P.sleepers
         /\ flag(P, f).state = P.state \cup f /\ flag(P, f).sel = P.sel
         /\ flag(P, f).notes = P.notes /\ flag(P, f).active = P.active
  BY DEF PipeType, Calm, Locked, flag, Flags

LEMMA QueueCalm ==
  ASSUME NEW t, NEW P \in PipeType
  PROVE  /\ Calm(t, P, wakeup(P)) /\ wakeup(P).sleepers = {} /\ wakeup(P).state = P.state
         /\ Calm(t, P, tsleep(P, t)) /\ tsleep(P, t).state = P.state
         /\ tsleep(P, t).sel = P.sel /\ tsleep(P, t).notes = P.notes
         /\ tsleep(P, t).active = P.active
         /\ Calm(t, P, unsleep(P, t)) /\ unsleep(P, t).sleepers = P.sleepers \ {t}
         /\ unsleep(P, t).state = P.state
  BY DEF PipeType, Calm, Locked, wakeup, tsleep, unsleep

LEMMA WakewantCalm ==
  ASSUME NEW t, NEW P \in PipeType, NEW f \in Wants
  PROVE  /\ Calm(t, P, wakewant(P, f)) /\ wakewant(P, f).sleepers \subseteq P.sleepers
         /\ f \in P.state => wakewant(P, f).sleepers = {}
         /\ f \notin P.state => wakewant(P, f) = P
<1> DEFINE U == unflag(P, {f})
<1>1. U \in PipeType /\ U.state = P.state \ {f} /\ U.sel = P.sel /\ U.notes = P.notes
      /\ U.active = P.active
  BY DEF unflag, PipeType, Flags
<1> HIDE DEF U
<1>2. wakeup(U).sleepers = {} /\ wakeup(U).state = P.state \ {f} /\ wakeup(U).sel = P.sel
      /\ wakeup(U).notes = P.notes /\ wakeup(U).active = P.active
  BY <1>1 DEF wakeup, PipeType
<1>3. Calm(t, P, wakeup(U))
  BY <1>2 DEF Calm, Wants
<1> QED BY <1>2, <1>3, CalmSelf DEF wakewant, U

LEMMA UnlockCalm ==
  ASSUME NEW t, NEW P \in PipeType
  PROVE  Calm(t, P, pipeunlock(P)) /\ pipeunlock(P).sleepers \subseteq P.sleepers
<1> DEFINE U == unflag(P, {"LOCK"})
<1>1. U \in PipeType /\ U.state = P.state \ {"LOCK"} /\ U.sel = P.sel /\ U.notes = P.notes
      /\ U.active = P.active /\ U.sleepers = P.sleepers /\ U.busy = P.busy
  BY DEF unflag, PipeType
<1>2. pipeunlock(P) = wakewant(U, "LWANT")
  BY DEF pipeunlock
<1> HIDE DEF U
<1>3. /\ Calm(t, U, wakewant(U, "LWANT")) /\ wakewant(U, "LWANT").sleepers \subseteq U.sleepers
      /\ "LWANT" \in U.state => wakewant(U, "LWANT").sleepers = {}
      /\ "LWANT" \notin U.state => wakewant(U, "LWANT") = U
  BY <1>1, WakewantCalm DEF Wants
<1>4. CASE "LWANT" \in U.state
  BY <1>1, <1>2, <1>3, <1>4 DEF Calm, Wants
<1>5. CASE "LWANT" \notin U.state
  BY <1>1, <1>2, <1>3, <1>5 DEF Calm, Wants
<1> QED BY <1>4, <1>5

(* The knotes whose filter holds are active, and nobody polls any more. *)
Told(P, f) == "SEL" \notin P.state /\ (f \in P.notes => f \in P.active)

LEMMA SelwakeCalm ==
  ASSUME NEW t, NEW P \in PipeType, NEW b
  PROVE  /\ Calm(t, P, selwake(P, b)) /\ selwake(P, b).sleepers = P.sleepers
         /\ selwake(P, b).state = P.state \ {"SEL"}
         /\ \A f : filt_pipe(P, f, b) => Told(selwake(P, b), f)
<1> DEFINE U == unflag(P, {"SEL"})
           V == [U EXCEPT !.sel = {}]
           Q == IF "SEL" \in P.state THEN V ELSE P
           A == {f \in Q.notes : filt_pipe(Q, f, b)}
           R == [Q EXCEPT !.active = @ \cup A]
<1>1. /\ U \in PipeType /\ U.state = P.state \ {"SEL"} /\ U.notes = P.notes
      /\ U.active = P.active /\ U.sleepers = P.sleepers /\ U.busy = P.busy
      /\ U.cnt = P.cnt /\ U.size = P.size
  BY DEF unflag, PipeType, Flags
<1> HIDE DEF U
<1>2. /\ V \in PipeType /\ V.state = P.state \ {"SEL"} /\ V.notes = P.notes /\ V.sel = {}
      /\ V.active = P.active /\ V.sleepers = P.sleepers /\ V.busy = P.busy
      /\ V.cnt = P.cnt /\ V.size = P.size
  BY <1>1 DEF PipeType
<1> HIDE DEF V
<1>3. /\ Q \in PipeType /\ Q.state = P.state \ {"SEL"} /\ Q.notes = P.notes
      /\ Q.sel = {} \/ (Q.sel = P.sel /\ "SEL" \notin P.state)
      /\ Q.active = P.active /\ Q.sleepers = P.sleepers /\ Q.busy = P.busy
      /\ Q.cnt = P.cnt /\ Q.size = P.size
  BY <1>2 DEF PipeType
<1> HIDE DEF Q
<1>4. \A f : filt_pipe(Q, f, b) <=> filt_pipe(P, f, b)
  BY <1>3 DEF filt_pipe, space
<1> HIDE DEF A
<1>5. /\ R.state = P.state \ {"SEL"} /\ R.notes = P.notes /\ R.sel = Q.sel
      /\ R.active = P.active \cup A /\ R.sleepers = P.sleepers /\ R.busy = P.busy
  BY <1>3 DEF PipeType
<1> HIDE DEF R
<1>6. Calm(t, P, R)
  BY <1>3, <1>5 DEF Calm, Wants, Locked
<1>7. \A f : filt_pipe(P, f, b) => Told(R, f)
  BY <1>3, <1>4, <1>5 DEF Told, A
<1>8. selwake(P, b) = R
  BY DEF selwake, R, A, Q, V, U
<1> QED BY <1>5, <1>6, <1>7, <1>8

LEMMA EnterCalm ==
  ASSUME NEW t, NEW P \in PipeType
  PROVE  Calm(t, P, enter(P)) /\ enter(P).sleepers = P.sleepers
  BY DEF PipeType, Calm, Locked, enter

LEMMA RundownCalm ==
  ASSUME NEW t, NEW P \in PipeType, 0 < P.busy, NEW w \in {"WANTR", "WANTW"}, NEW r \in BOOLEAN
  PROVE  /\ Calm(t, P, rundown(P, w, r)) /\ rundown(P, w, r).sleepers \subseteq P.sleepers
         /\ r => w \notin P.state \/ rundown(P, w, r).sleepers = {}
<1> DEFINE Q == [P EXCEPT !.busy = @ - 1]
           U == unflag(Q, {"WANT", w})
<1>1. /\ Q \in PipeType /\ Q.busy = P.busy - 1 /\ Q.state = P.state /\ Q.notes = P.notes
      /\ Q.active = P.active /\ Q.sleepers = P.sleepers /\ Q.sel = P.sel
  BY DEF PipeType
<1>2. rundown(P, w, r) = IF Q.busy = 0 /\ "WANT" \in Q.state THEN wakeup(U)
                         ELSE IF r THEN wakewant(Q, w) ELSE Q
  BY DEF rundown
<1>3. P.busy \in Nat
  BY DEF PipeType
<1> HIDE DEF Q
<1>4. CASE Q.busy = 0 /\ "WANT" \in Q.state
  <2>1. /\ U \in PipeType /\ U.state = P.state \ {"WANT", w} /\ U.notes = P.notes
        /\ U.active = P.active /\ U.sel = P.sel
    BY <1>1 DEF unflag, PipeType, Flags
  <2> HIDE DEF U
  <2>2. /\ wakeup(U).state = P.state \ {"WANT", w} /\ wakeup(U).notes = P.notes
        /\ wakeup(U).active = P.active /\ wakeup(U).sel = P.sel /\ wakeup(U).sleepers = {}
    BY <2>1 DEF wakeup, PipeType
  <2> QED BY <1>2, <1>4, <2>2 DEF Calm, Wants
<1>5. CASE ~ (Q.busy = 0 /\ "WANT" \in Q.state)
  <2>1. Calm(t, P, Q)
    BY <1>1, <1>3, <1>5 DEF Calm, Locked
  <2>2. /\ Calm(t, Q, wakewant(Q, w)) /\ wakewant(Q, w).sleepers \subseteq Q.sleepers
        /\ w \in Q.state => wakewant(Q, w).sleepers = {}
    BY <1>1, WakewantCalm DEF Wants
  <2>3. Calm(t, P, wakewant(Q, w))
    BY <2>1, <2>2, CalmTrans
  <2> QED BY <1>1, <1>2, <1>5, <2>1, <2>2, <2>3
<1> QED BY <1>4, <1>5

(* What the loops of pipe_read() and pipe_write() do for those who wait. *)

(* The thread with the locals M is right to sleep on Q. *)
Asleep(Q, M) ==
    \/ M.pc \in LockWaits /\ "LWANT" \in Q.state /\ Locked(Q)
    \/ M.pc = "piperd" /\ "WANTR" \in Q.state /\ "EOF" \notin Q.state /\ Q.cnt = 0
    \/ M.pc = "pipewr" /\ "WANTW" \in Q.state /\ "EOF" \notin Q.state /\ Q.cnt >= MINPIPESIZE

(* Those who had left the flag w on P, but for t, are awake. *)
Woke(t, P, w, Q) == w \notin P.state \/ Q.sleepers \subseteq {t}

Lands(t, P, L, Q, M) ==
    /\ Step(t, Q, M) /\ M.p = L.p /\ M.pc \notin {"user", "selwait"}
    /\ Calm(t, P, Q) /\ Kept(P, Q) /\ (t \in Q.sleepers => Asleep(Q, M))

ReadLands(t, P, L, Q, M) ==
    /\ Lands(t, P, L, Q, M) /\ ~ Fills(M)
    /\ Drains(M) \/ Q.cnt >= MINPIPESIZE \/ Woke(t, P, "WANTW", Q)
    /\ \/ Drains(M) \/ space(Q) < PIPE_BUF \/ Told(Q, "EVFILT_WRITE")
       \/ M.pc = "piperd" /\ L.got = << >>

WriteLands(t, P, L, Q, M) ==
    /\ Lands(t, P, L, Q, M) /\ ~ Drains(M)
    /\ Fills(M) \/ Q.cnt = 0 \/ (Woke(t, P, "WANTR", Q) /\ Told(Q, "EVFILT_READ"))

LEMMA Numbers ==
  /\ PIPE_SIZE \in Nat /\ BIG_PIPE_SIZE \in Nat /\ PIPE_BUF \in Nat /\ MINPIPESIZE \in Nat
  /\ 0 < PIPE_BUF /\ PIPE_BUF <= PIPE_SIZE /\ PIPE_BUF + MINPIPESIZE <= PIPE_SIZE + 1
  /\ MINPIPESIZE <= PIPE_SIZE /\ PIPE_SIZE < BIG_PIPE_SIZE
<1>1. /\ PIPE_SIZE \in Nat /\ BIG_PIPE_SIZE \in Nat /\ PIPE_BUF \in Nat
      /\ 0 < PIPE_BUF /\ PIPE_BUF <= PIPE_SIZE /\ PIPE_BUF + PIPE_SIZE \div 3 <= PIPE_SIZE + 1
      /\ PIPE_SIZE < BIG_PIPE_SIZE
  BY PipeAssumption
<1>2. PIPE_SIZE \div 3 \in Nat
  BY <1>1
<1> QED BY <1>1, <1>2 DEF MINPIPESIZE

LEMMA ReadEndLands ==
  ASSUME NEW t \in Threads, NEW P \in PipeType, 0 < P.busy, NEW L \in LocalType,
         t \notin P.sleepers, ReadEnd(t, P, L)
  PROVE  \E Q, M : ReadLands(t, P, L, Q, M) /\ M.pc = "return"
<1> DEFINE r == P.cnt < MINPIPESIZE
           Q == rundown(P, "WANTW", r)
           S == pipeselwakeup(Q)
           R == IF space(Q) >= PIPE_BUF THEN S ELSE Q
           M == At(L, "return")
<1>1. Step(t, R, M)
  BY DEF ReadEnd
<1>2. /\ Kept(P, Q) /\ Q \in PipeType /\ Calm(t, P, Q) /\ Q.sleepers \subseteq P.sleepers
      /\ r => "WANTW" \notin P.state \/ Q.sleepers = {}
  <2>1. r \in BOOLEAN
    OBVIOUS
  <2> HIDE DEF r
  <2>2. Kept(P, Q) /\ Q \in PipeType
    BY RundownKept DEF Kept
  <2>3. /\ Calm(t, P, Q) /\ Q.sleepers \subseteq P.sleepers
        /\ r => "WANTW" \notin P.state \/ Q.sleepers = {}
    BY <2>1, RundownCalm
  <2> QED BY <2>2, <2>3
<1> HIDE DEF Q
<1>3. /\ Kept(Q, S) /\ Calm(t, Q, S) /\ S.sleepers = Q.sleepers
      /\ \A f : filt_pipe(Q, f, peereof(Q)) => Told(S, f)
  BY <1>2, SelwakeAlike, SelwakeCalm DEF Alike, pipeselwakeup
<1>4. space(Q) >= PIPE_BUF => filt_pipe(Q, "EVFILT_WRITE", peereof(Q))
  BY DEF filt_pipe
<1> HIDE DEF S
<1>5. Kept(Q, Q)
  BY <1>2 DEF Kept
<1>6. /\ Kept(P, R) /\ Calm(t, P, R) /\ R.sleepers \subseteq P.sleepers
      /\ r => "WANTW" \notin P.state \/ R.sleepers = {}
      /\ space(Q) >= PIPE_BUF => Told(R, "EVFILT_WRITE")
  BY <1>2, <1>3, <1>4, CalmTrans, KeptTrans
<1> HIDE DEF R
<1>7. M.p = L.p /\ M.pc = "return"
  BY AtType DEF Away
<1> HIDE DEF M
<1>8. R.cnt = P.cnt /\ space(R) = space(Q) /\ space(Q) \in Int /\ P.cnt \in Nat
  BY <1>2, <1>6 DEF Kept, space, PipeType
<1>9. R.cnt >= MINPIPESIZE \/ Woke(t, P, "WANTW", R)
  BY <1>6, <1>8, Numbers DEF Woke
<1>10. space(R) < PIPE_BUF \/ Told(R, "EVFILT_WRITE")
  BY <1>6, <1>8, Numbers
<1>11. Lands(t, P, L, R, M)
  BY <1>1, <1>6, <1>7 DEF Lands
<1> QED BY <1>7, <1>9, <1>10, <1>11 DEF ReadLands, Fills

LEMMA WriteEndLands ==
  ASSUME NEW t \in Threads, NEW P \in PipeType, 0 < P.busy, NEW L \in LocalType,
         t \notin P.sleepers, WriteEnd(t, P, L)
  PROVE  \E Q, M : WriteLands(t, P, L, Q, M)
<1> DEFINE r == P.cnt > 0
           Q == rundown(P, "WANTR", r)
           S == pipeselwakeup(Q)
           R == IF Q.cnt > 0 THEN S ELSE Q
           M == At(L, "return")
<1>1. Step(t, R, M)
  BY DEF WriteEnd
<1>2. /\ Kept(P, Q) /\ Q \in PipeType /\ Calm(t, P, Q) /\ Q.sleepers \subseteq P.sleepers
      /\ r => "WANTR" \notin P.state \/ Q.sleepers = {}
  <2>1. r \in BOOLEAN
    OBVIOUS
  <2> HIDE DEF r
  <2>2. Kept(P, Q) /\ Q \in PipeType
    BY RundownKept DEF Kept
  <2>3. /\ Calm(t, P, Q) /\ Q.sleepers \subseteq P.sleepers
        /\ r => "WANTR" \notin P.state \/ Q.sleepers = {}
    BY <2>1, RundownCalm
  <2> QED BY <2>2, <2>3
<1> HIDE DEF Q
<1>3. /\ Kept(Q, S) /\ Calm(t, Q, S) /\ S.sleepers = Q.sleepers
      /\ \A f : filt_pipe(Q, f, peereof(Q)) => Told(S, f)
  BY <1>2, SelwakeAlike, SelwakeCalm DEF Alike, pipeselwakeup
<1>4. Q.cnt > 0 => filt_pipe(Q, "EVFILT_READ", peereof(Q))
  BY DEF filt_pipe
<1> HIDE DEF S
<1>5. Kept(Q, Q)
  BY <1>2 DEF Kept
<1>6. /\ Kept(P, R) /\ Calm(t, P, R) /\ R.sleepers \subseteq P.sleepers
      /\ r => "WANTR" \notin P.state \/ R.sleepers = {}
      /\ Q.cnt > 0 => Told(R, "EVFILT_READ")
  BY <1>2, <1>3, <1>4, CalmTrans, KeptTrans
<1> HIDE DEF R
<1>7. M.p = L.p /\ M.pc = "return"
  BY AtType DEF Away
<1> HIDE DEF M
<1>8. R.cnt = P.cnt /\ Q.cnt = P.cnt /\ P.cnt \in Nat
  BY <1>2, <1>6 DEF Kept, PipeType
<1>9. R.cnt = 0 \/ (Woke(t, P, "WANTR", R) /\ Told(R, "EVFILT_READ"))
  BY <1>6, <1>8 DEF Woke
<1>11. Lands(t, P, L, R, M)
  BY <1>1, <1>6, <1>7 DEF Lands
<1> QED BY <1>7, <1>9, <1>11 DEF WriteLands, Drains

LEMMA ReadLoopLands ==
  ASSUME NEW t \in Threads, NEW P \in PipeType, Ring(P), 0 < P.busy,
         NEW L \in LocalType, t \notin P.sleepers, ReadLoop(t, P, L)
  PROVE  \E Q, M : ReadLands(t, P, L, Q, M)
<1> DEFINE W == wakewant(P, "WANTW")
           Q == pipeunlock(W)
           copy == L.resid > 0 /\ P.cnt > 0
           eof == L.resid = 0 \/ (P.cnt = 0 /\ "EOF" \in P.state)
           n == least(least(P.size - P.out, P.cnt), L.resid)
<1>1. /\ P.size \in Nat /\ P.out \in Nat /\ P.cnt \in Nat /\ P.busy \in Nat /\ L.resid \in Nat
      /\ P.out < P.size
  BY DEF PipeType, LocalType, Ring
<1>2. /\ copy => Step(t, P, [L EXCEPT !.pc = "rd_uiomove", !.size = n])
      /\ eof => ReadEnd(t, pipeunlock(P), L)
      /\ ~ copy /\ ~ eof =>
           IF L.got # << >> \/ L.call.nb THEN ReadEnd(t, Q, L)
           ELSE Step(t, tsleep(flag(Q, {"WANTR"}), t), At(L, "piperd"))
  <2>1. ~ (copy /\ eof)
    BY <1>1
  <2> QED BY <2>1 DEF ReadLoop
<1>3. /\ Kept(P, Q) /\ Q.busy = P.busy /\ Q \in PipeType /\ Calm(t, P, Q)
      /\ Q.sleepers \subseteq P.sleepers /\ Woke(t, P, "WANTW", Q)
  <2>1. /\ Alike(P, W) /\ W \in PipeType /\ Calm(t, P, W) /\ W.sleepers \subseteq P.sleepers
        /\ "WANTW" \in P.state => W.sleepers = {}
    BY WakewantAlike, WakewantCalm DEF Flags, Wants, Alike, Kept
  <2> HIDE DEF W
  <2>2. /\ Kept(W, Q) /\ Q.busy = W.busy /\ Calm(t, W, Q) /\ Q.sleepers \subseteq W.sleepers
    BY <2>1, UnlockKept, UnlockCalm
  <2> HIDE DEF Q
  <2>3. Calm(t, P, Q) /\ Kept(P, Q)
    BY <2>1, <2>2, CalmTrans, KeptTrans DEF Alike
  <2> QED BY <2>1, <2>2, <2>3 DEF Alike, Kept, Woke
<1> HIDE DEF Q
<1>4. ASSUME NEW R \in PipeType, Kept(P, R), R.busy = P.busy, Calm(t, P, R),
             R.sleepers \subseteq P.sleepers, ReadEnd(t, R, L)
      PROVE  \E S, M : ReadLands(t, P, L, S, M)
  <2>1. PICK S, M : ReadLands(t, R, L, S, M)
    BY <1>4, ReadEndLands
  <2>2. Calm(t, P, S) /\ Kept(P, S)
    BY <1>4, <2>1, CalmTrans, KeptTrans DEF ReadLands, Lands
  <2>3. Woke(t, R, "WANTW", S) => Woke(t, P, "WANTW", S)
    <3>1. Calm(t, P, R) /\ Calm(t, R, S)
      BY <1>4, <2>1 DEF ReadLands, Lands
    <3> QED BY <3>1 DEF Woke, Calm, Wants
  <2>4. ReadLands(t, P, L, S, M)
    BY <2>1, <2>2, <2>3 DEF ReadLands, Lands
  <2> QED BY <2>4
<1>5. CASE copy
  <2> DEFINE M == Sized(L, "rd_uiomove", n)
  <2>1. n \in Nat
    <3>1. P.size - P.out \in Nat
      BY <1>1
    <3>2. least(P.size - P.out, P.cnt) \in Nat
      BY <1>1, <3>1 DEF least
    <3> QED BY <1>1, <3>2 DEF least
  <2> HIDE DEF n
  <2>2. M.p = L.p /\ M.pc = "rd_uiomove"
    BY <2>1, SizedType DEF Reading
  <2>3. Step(t, P, M) /\ Kept(P, P) /\ Calm(t, P, P)
    BY <1>2, <1>5, CalmSelf DEF Kept, Sized
  <2> HIDE DEF M
  <2>4. ReadLands(t, P, L, P, M)
    BY <2>2, <2>3 DEF ReadLands, Lands, Drains, Fills
  <2> QED BY <2>4
<1>6. CASE eof
  <2>1. /\ Kept(P, pipeunlock(P)) /\ pipeunlock(P).busy = P.busy /\ Calm(t, P, pipeunlock(P))
        /\ pipeunlock(P).sleepers \subseteq P.sleepers
    BY UnlockKept, UnlockCalm
  <2> QED BY <1>2, <1>4, <1>6, <2>1 DEF Kept
<1>7. CASE ReadEnd(t, Q, L)
  BY <1>3, <1>4, <1>7
<1>8. CASE /\ ~ copy /\ ~ eof /\ L.got = << >>
           /\ Step(t, tsleep(flag(Q, {"WANTR"}), t), At(L, "piperd"))
  <2> DEFINE F == flag(Q, {"WANTR"})
             S == tsleep(F, t)
             M == At(L, "piperd")
  <2>1. Alike(Q, F) /\ F \in PipeType /\ Calm(t, Q, F) /\ F.sleepers = Q.sleepers
        /\ F.state = Q.state \cup {"WANTR"}
    <3>1. {"WANTR"} \in SUBSET (Flags \ {"LOCK"}) /\ {"WANTR"} \in SUBSET (Flags \ {"EOF"})
      BY DEF Flags
    <3>2. Alike(Q, F) /\ F \in PipeType
      BY <1>3, <3>1, FlagAlike DEF Alike, Kept
    <3> QED BY <1>3, <3>1, <3>2, FlagCalm
  <2> HIDE DEF F
  <2>2. Alike(F, S) /\ Calm(t, F, S) /\ S.state = F.state
    BY <2>1, QueueAlike, QueueCalm
  <2>3. S.sleepers \subseteq F.sleepers \cup {t}
    BY <2>1 DEF tsleep, PipeType
  <2>4. Step(t, S, M)
    BY <1>8 DEF F
  <2> HIDE DEF S
  <2>5. M.p = L.p /\ M.pc = "piperd"
    BY AtType DEF Reading
  <2> HIDE DEF M
  <2>6. Calm(t, P, S) /\ Kept(P, S)
    <3>1. Calm(t, P, F) /\ Kept(P, F)
      BY <1>3, <2>1, CalmTrans, KeptTrans DEF Alike
    <3> QED BY <2>2, <3>1, CalmTrans, KeptTrans DEF Alike
  <2>7. S.cnt = 0 /\ "EOF" \notin S.state
    <3>1. P.cnt = 0 /\ "EOF" \notin P.state
      BY <1>1, <1>8
    <3> QED BY <2>6, <3>1 DEF Calm, Kept
  <2>8. Asleep(S, M)
    BY <2>1, <2>2, <2>5, <2>7 DEF Asleep
  <2>9. Woke(t, P, "WANTW", S)
    BY <1>3, <2>1, <2>3 DEF Woke
  <2>10. ReadLands(t, P, L, S, M)
    BY <1>8, <2>4, <2>5, <2>6, <2>8, <2>9 DEF ReadLands, Lands, Fills
  <2> QED BY <2>10
<1> QED BY <1>2, <1>5, <1>6, <1>7, <1>8

LEMMA LockCalm ==
  ASSUME NEW t, NEW P \in PipeType
  PROVE  Calm(t, P, pipelock(P)) /\ pipelock(P).sleepers = P.sleepers
<1>1. {"LOCK"} \in SUBSET (Flags \ {"EOF"})
  BY DEF Flags
<1> QED BY <1>1, FlagCalm DEF pipelock

LEMMA LockwaitCalm ==
  ASSUME NEW t \in Threads, NEW P \in PipeType, Locked(P)
  PROVE  /\ Calm(t, P, lockwait(P, t)) /\ Kept(P, lockwait(P, t))
         /\ "LWANT" \in lockwait(P, t).state /\ Locked(lockwait(P, t))
<1> DEFINE F == flag(P, {"LWANT"})
<1>1. {"LWANT"} \in SUBSET (Flags \ {"EOF"}) /\ {"LWANT"} \in SUBSET (Flags \ {"LOCK"})
  BY DEF Flags
<1>2. F \in PipeType /\ Calm(t, P, F) /\ F.state = P.state \cup {"LWANT"}
  <2>1. F \in PipeType
    BY <1>1, FlagAlike DEF Alike, Kept
  <2> QED BY <1>1, <2>1, FlagCalm
<1>3. lockwait(P, t) = tsleep(F, t)
  BY DEF lockwait
<1> HIDE DEF F
<1>4. Calm(t, F, tsleep(F, t)) /\ tsleep(F, t).state = F.state
  BY <1>2, QueueCalm
<1>5. Calm(t, P, tsleep(F, t))
  BY <1>2, <1>4, CalmTrans
<1> QED BY <1>2, <1>3, <1>4, <1>5, LockwaitAlike DEF Alike, Locked

LEMMA TransferLands ==
  ASSUME NEW t \in Threads, NEW P \in PipeType, NEW L \in LocalType, NEW n \in Nat,
         t \notin P.sleepers, Transfer(t, P, L, n)
  PROVE  \E Q, M : WriteLands(t, P, L, Q, M)
<1> DEFINE m == least(n, L.resid)
           Q == pipelock(P)
           M == Sized(L, "wr_uiomove", m)
<1>1. m \in Nat
  BY DEF least, LocalType
<1>2. Kept(P, Q) /\ Calm(t, P, Q) /\ Q.sleepers = P.sleepers
  BY LockKept, LockCalm
<1>3. Step(t, Q, M)
  BY DEF Transfer, Sized
<1> HIDE DEF m, Q
<1>4. M.p = L.p /\ M.pc = "wr_uiomove"
  BY <1>1, SizedType DEF Writes
<1> HIDE DEF M
<1>5. WriteLands(t, P, L, Q, M)
  BY <1>2, <1>3, <1>4 DEF WriteLands, Lands, Drains, Fills
<1> QED BY <1>5

(* A writer finds no room only in a pipe that has data, and enough of them  *)
(* for it to be woken when they go.                                         *)
LEMMA NoRoomIs ==
  ASSUME NEW P \in PipeType, Ring(P), PIPE_SIZE <= P.size, NEW L \in LocalType,
         L.resid <= L.call.n, ~ (room(P, L) > 0)
  PROVE  P.cnt > 0 /\ P.cnt >= MINPIPESIZE
<1>1. /\ P.size \in Nat /\ P.cnt \in Nat /\ P.cnt <= P.size /\ L.resid \in Nat /\ L.call.n \in Nat
  BY DEF PipeType, Ring, LocalType, Call
<1>2. space(P) = P.size - P.cnt
  BY DEF space
<1>3. space(P) = 0 \/ space(P) < PIPE_BUF
  BY <1>1, <1>2, Numbers DEF room
<1> QED BY <1>1, <1>2, <1>3, Numbers

LEMMA WriteLoopLands ==
  ASSUME NEW t \in Threads, NEW P \in PipeType, Ring(P), 0 < P.busy, PIPE_SIZE <= P.size,
         NEW L \in LocalType, L.resid <= L.call.n, t \notin P.sleepers, WriteLoop(t, P, L)
  PROVE  \E Q, M : WriteLands(t, P, L, Q, M)
<1> DEFINE n == room(P, L)
           Q == wakewant(P, "WANTR")
           end == L.resid = 0 \/ "EOF" \in P.state
           give == L.resid > 0 /\ "EOF" \notin P.state /\ n > 0
<1>1. P.busy \in Nat /\ L.resid \in Nat /\ L.call.n \in Nat /\ space(P) \in Nat
  BY DEF PipeType, LocalType, Ring, space, Call
<1>2. n \in Nat
  BY <1>1 DEF room
<1>a. ~ (n > 0) => P.cnt > 0 /\ P.cnt >= MINPIPESIZE
  BY NoRoomIs
<1> HIDE DEF n
<1>3. /\ end => WriteEnd(t, P, L)
      /\ give => IF Locked(P)
                 THEN Step(t, lockwait(P, t), [L EXCEPT !.pc = "wr_pipelk", !.size = n])
                 ELSE Transfer(t, P, L, n)
      /\ ~ end /\ ~ give =>
           \/ WriteEnd(t, Q, L)
           \/ Step(t, tsleep(flag(pipeselwakeup(Q), {"WANTW"}), t), At(L, "pipewr"))
  <2>1. ~ (end /\ give)
    BY <1>1
  <2> QED BY <2>1 DEF WriteLoop, n
<1>4. /\ Alike(P, Q) /\ Q \in PipeType /\ Calm(t, P, Q) /\ Q.sleepers \subseteq P.sleepers
      /\ Woke(t, P, "WANTR", Q)
  <2>1. /\ Alike(P, Q) /\ Calm(t, P, Q) /\ Q.sleepers \subseteq P.sleepers
        /\ "WANTR" \in P.state => Q.sleepers = {}
    BY WakewantAlike, WakewantCalm DEF Flags, Wants
  <2> HIDE DEF Q
  <2> QED BY <2>1 DEF Alike, Kept, Woke
<1> HIDE DEF Q
<1>5. ASSUME NEW R \in PipeType, Alike(P, R), Calm(t, P, R), R.sleepers \subseteq P.sleepers,
             WriteEnd(t, R, L)
      PROVE  \E S, M : WriteLands(t, P, L, S, M)
  <2>1. PICK S, M : WriteLands(t, R, L, S, M)
    BY <1>5, WriteEndLands DEF Alike
  <2>2. Calm(t, P, S) /\ Kept(P, S)
    BY <1>5, <2>1, CalmTrans, KeptTrans DEF WriteLands, Lands, Alike
  <2>3. Woke(t, R, "WANTR", S) => Woke(t, P, "WANTR", S)
    <3>1. Calm(t, P, R) /\ Calm(t, R, S)
      BY <1>5, <2>1 DEF WriteLands, Lands
    <3> QED BY <3>1 DEF Woke, Calm, Wants
  <2>4. WriteLands(t, P, L, S, M)
    BY <2>1, <2>2, <2>3 DEF WriteLands, Lands
  <2> QED BY <2>4
<1>6. CASE end
  <2>1. Alike(P, P) /\ Calm(t, P, P)
    BY CalmSelf DEF Alike, Kept
  <2> QED BY <1>3, <1>5, <1>6, <2>1
<1>7. CASE give /\ Locked(P)
  <2> DEFINE M == Sized(L, "wr_pipelk", n)
             S == lockwait(P, t)
  <2>1. M.p = L.p /\ M.pc = "wr_pipelk"
    BY <1>2, SizedType DEF Writes
  <2>2. Kept(P, S) /\ Calm(t, P, S) /\ "LWANT" \in S.state /\ Locked(S)
    BY <1>7, LockwaitCalm
  <2>3. Step(t, S, M)
    BY <1>3, <1>7 DEF Sized
  <2> HIDE DEF M, S
  <2>4. WriteLands(t, P, L, S, M)
    BY <2>1, <2>2, <2>3 DEF WriteLands, Lands, Asleep, LockWaits, Drains, Fills
  <2> QED BY <2>4
<1>8. CASE give /\ ~ Locked(P)
  BY <1>2, <1>3, <1>8, TransferLands
<1>9. CASE WriteEnd(t, Q, L)
  BY <1>4, <1>5, <1>9
<1>10. CASE /\ ~ end /\ ~ give
            /\ Step(t, tsleep(flag(pipeselwakeup(Q), {"WANTW"}), t), At(L, "pipewr"))
  <2> DEFINE G == pipeselwakeup(Q)
             F == flag(G, {"WANTW"})
             S == tsleep(F, t)
             M == At(L, "pipewr")
  <2>a. P.cnt > 0 /\ P.cnt >= MINPIPESIZE /\ "EOF" \notin P.state /\ Q.cnt = P.cnt
    BY <1>1, <1>a, <1>4, <1>10 DEF Alike, Kept
  <2>1. /\ Kept(Q, G) /\ G \in PipeType /\ Calm(t, Q, G) /\ G.sleepers = Q.sleepers
        /\ Told(G, "EVFILT_READ")
    <3>1. Alike(Q, G) /\ Calm(t, Q, G) /\ G.sleepers = Q.sleepers
          /\ \A f : filt_pipe(Q, f, peereof(Q)) => Told(G, f)
      BY <1>4, SelwakeAlike, SelwakeCalm DEF pipeselwakeup
    <3>2. filt_pipe(Q, "EVFILT_READ", peereof(Q))
      BY <2>a DEF filt_pipe
    <3> HIDE DEF G
    <3> QED BY <3>1, <3>2 DEF Alike, Kept
  <2> HIDE DEF G
  <2>2. /\ Kept(G, F) /\ F \in PipeType /\ Calm(t, G, F) /\ F.sleepers = G.sleepers
        /\ F.state = G.state \cup {"WANTW"} /\ F.notes = G.notes /\ F.active = G.active
    <3>1. {"WANTW"} \in SUBSET (Flags \ {"LOCK"}) /\ {"WANTW"} \in SUBSET (Flags \ {"EOF"})
      BY DEF Flags
    <3>2. Kept(G, F) /\ F \in PipeType
      BY <2>1, <3>1, FlagAlike DEF Alike, Kept
    <3> QED BY <2>1, <3>1, <3>2, FlagCalm
  <2> HIDE DEF F
  <2>3. /\ Kept(F, S) /\ Calm(t, F, S) /\ S.state = F.state /\ S.notes = F.notes
        /\ S.active = F.active
    BY <2>2, QueueAlike, QueueCalm DEF Alike
  <2>4. S.sleepers \subseteq F.sleepers \cup {t}
    BY <2>2 DEF tsleep, PipeType
  <2>5. Step(t, S, M)
    BY <1>10 DEF F, G
  <2> HIDE DEF S
  <2>6. M.p = L.p /\ M.pc = "pipewr"
    BY AtType DEF Writes
  <2> HIDE DEF M
  <2>7. Calm(t, P, S) /\ Kept(P, S)
    <3>1. Calm(t, P, G) /\ Kept(P, G)
      BY <1>4, <2>1, CalmTrans, KeptTrans DEF Alike
    <3>2. Calm(t, P, F) /\ Kept(P, F)
      BY <2>2, <3>1, CalmTrans, KeptTrans
    <3> QED BY <2>3, <3>2, CalmTrans, KeptTrans
  <2>8. Asleep(S, M)
    <3>1. "EOF" \notin S.state /\ S.cnt = P.cnt
      BY <2>a, <2>7 DEF Calm, Kept
    <3> QED BY <2>a, <2>2, <2>3, <2>6, <3>1 DEF Asleep
  <2>9. Told(S, "EVFILT_READ")
    BY <2>1, <2>2, <2>3 DEF Told
  <2>10. Woke(t, P, "WANTR", S)
    BY <1>4, <2>1, <2>2, <2>4 DEF Woke
  <2>11. WriteLands(t, P, L, S, M)
    BY <2>5, <2>6, <2>7, <2>8, <2>9, <2>10 DEF WriteLands, Lands, Drains
  <2> QED BY <2>11
<1> QED BY <1>3, <1>6, <1>7, <1>8, <1>9, <1>10

(* A step of thread t that leaves the pipe of end e as Q and its locals as  *)
(* M, and keeps faith with those who wait: if there are data, somebody is   *)
(* on his way to tell the readers, or it has told them, or there were data  *)
(* before and it was not t who had to tell; and so for space.               *)
KeepsFaith(t, e, Q, M) ==
    LET P == pipe[e]
        L == th[t]
    IN  /\ L.pc = "user" \/ (L.pc # "selwait" /\ L.p = e)
        /\ pipe' = [pipe EXCEPT ![e] = Q] /\ th' = [th EXCEPT ![t] = M] /\ closing' = closing
        /\ M.p = e /\ M.pc \notin {"user", "selwait"}
        /\ Calm(t, P, Q) /\ (t \in Q.sleepers => Asleep(Q, M)) /\ PIPE_SIZE <= Q.size
        /\ \/ Q.cnt = 0 \/ Fills(M) \/ (P.cnt # 0 /\ ~ Fills(L))
           \/ Woke(t, P, "WANTR", Q) /\ Told(Q, "EVFILT_READ")
        /\ \/ Q.cnt >= MINPIPESIZE \/ Drains(M) \/ (~ (P.cnt >= MINPIPESIZE) /\ ~ Drains(L))
           \/ Woke(t, P, "WANTW", Q)
        /\ \/ space(Q) < PIPE_BUF \/ Drains(M) \/ (~ (space(P) < PIPE_BUF) /\ ~ Drains(L))
           \/ Told(Q, "EVFILT_WRITE")

LEMMA FaithInv ==
  ASSUME TypeOK, WInv, NEW t \in Threads, NEW e \in Ends, NEW Q, NEW M, KeepsFaith(t, e, Q, M)
  PROVE  WInv'
<1> DEFINE P == pipe[e]
           L == th[t]
<1>1. /\ L.pc = "user" \/ (L.pc # "selwait" /\ L.p = e)
      /\ pipe' = [pipe EXCEPT ![e] = Q] /\ th' = [th EXCEPT ![t] = M] /\ closing' = closing
      /\ M.p = e /\ M.pc \notin {"user", "selwait"}
      /\ Calm(t, P, Q) /\ (t \in Q.sleepers => Asleep(Q, M)) /\ PIPE_SIZE <= Q.size
  BY DEF KeepsFaith
<1>2. /\ pipe'[e] = Q /\ \A f \in Ends \ {e} : pipe'[f] = pipe[f]
      /\ th'[t] = M /\ \A u \in Threads \ {t} : th'[u] = th[u]
  BY <1>1 DEF TypeOK
<1>3. t \notin Ends /\ e \notin Threads
  BY PipeAssumption
<1>4. NoData(e) => NoData(e)' \/ (Woke(t, P, "WANTR", Q) /\ Told(Q, "EVFILT_READ"))
  BY <1>1, <1>2 DEF KeepsFaith, NoData, Filling, Fills
<1>5. NoSpace(e) => NoSpace(e)' \/ Woke(t, P, "WANTW", Q)
  BY <1>1, <1>2 DEF KeepsFaith, NoSpace, Draining, Drains
<1>6. NoRoom(e) => NoRoom(e)' \/ Told(Q, "EVFILT_WRITE")
  BY <1>1, <1>2 DEF KeepsFaith, NoRoom, Draining, Drains
<1>7. Awaits(e)
  BY DEF WInv
<1>8. Q.sel # {} => "SEL" \in Q.state /\ Q.sel = P.sel
  BY <1>1, <1>7 DEF Calm, Awaits, Pollers
<1>9. Awaits(e)'
  <2>1. ASSUME NEW u \in Threads, u \in Q.sleepers PROVE Sleeper(u, e)'
    <3>1. CASE u = t
      BY <1>1, <1>2, <2>1, <3>1 DEF Asleep, Sleeper, NoData, NoSpace, LockWaits
    <3>2. CASE u # t
      <4>1. /\ u \in P.sleepers /\ P.state \cap Wants \subseteq Q.state
            /\ "LWANT" \in P.state /\ Locked(P) => Locked(Q)
            /\ "EOF" \in Q.state <=> "EOF" \in P.state
            /\ ~ (Q.sleepers \subseteq {t})
        BY <1>1, <2>1, <3>2 DEF Calm
      <4>2. Sleeper(u, e) /\ th'[u] = th[u]
        BY <1>2, <1>7, <3>2, <4>1 DEF Awaits
      <4>3. /\ "WANTR" \in P.state => (NoData(e) => NoData(e)')
            /\ "WANTW" \in P.state => (NoSpace(e) => NoSpace(e)')
        BY <1>4, <1>5, <4>1 DEF Woke
      <4> QED BY <1>2, <4>1, <4>2, <4>3 DEF Sleeper, Wants
    <3> QED BY <3>1, <3>2
  <2>2. ASSUME NEW u \in Q.sel PROVE Poller(u, e)'
    <3>1. Poller(u, e) /\ "SEL" \in Q.state /\ u \in Threads
      BY <1>7, <1>8 DEF Awaits, TypeOK, PipeType
    <3>2. th'[u] = th[u]
      BY <1>1, <1>2, <3>1 DEF Poller
    <3>3. (NoData(e) => NoData(e)') /\ (NoRoom(e) => NoRoom(e)')
      BY <1>4, <1>6, <3>1 DEF Told
    <3> QED BY <3>1, <3>2, <3>3 DEF Poller
  <2>3. Closer(e)'
    BY <1>1, <1>2, <1>3, <1>7 DEF Closer, Awaits, Calm, Wants
  <2>4. Pollers(e)'
    BY <1>1, <1>2, <1>7, <1>8 DEF Pollers, Awaits, Calm
  <2>5. Knotes(e)'
    <3>1. /\ Q.notes = P.notes /\ P.active \subseteq Q.active
          /\ "EOF" \in Q.state <=> "EOF" \in P.state
      BY <1>1 DEF Calm
    <3>2. /\ "EVFILT_READ" \in Q.notes \ Q.active => (NoData(e) => NoData(e)')
          /\ "EVFILT_WRITE" \in Q.notes \ Q.active => (NoRoom(e) => NoRoom(e)')
      BY <1>4, <1>6 DEF Told
    <3> QED BY <1>1, <1>2, <1>7, <3>1, <3>2 DEF Knotes, Awaits
  <2>6. Eof(e)'
    BY <1>1, <1>2, <1>7 DEF Eof, Awaits, Calm
  <2> QED BY <1>2, <2>1, <2>2, <2>3, <2>4, <2>5, <2>6 DEF Awaits
<1>10. ASSUME NEW f \in Ends, f # e PROVE Awaits(f)'
  <2>1. Awaits(f) /\ pipe'[f] = pipe[f]
    BY <1>2, <1>10 DEF WInv
  <2>2. /\ NoData(f) => NoData(f)'
        /\ NoSpace(f) => NoSpace(f)'
        /\ NoRoom(f) => NoRoom(f)'
    BY <1>1, <1>2, <1>10, <2>1 DEF NoData, NoSpace, NoRoom, Filling, Draining, Fills, Drains
  <2>3. ASSUME NEW u \in Threads, u \in pipe[f].sleepers PROVE Sleeper(u, f)'
    <3>1. Sleeper(u, f)
      BY <2>1, <2>3 DEF Awaits
    <3>2. th'[u] = th[u]
      BY <1>1, <1>2, <1>10, <3>1 DEF Sleeper, LockWaits
    <3> QED BY <2>1, <2>2, <3>1, <3>2 DEF Sleeper
  <2>4. ASSUME NEW u \in pipe[f].sel PROVE Poller(u, f)'
    <3>1. Poller(u, f) /\ u \in Threads
      BY <2>1 DEF Awaits, TypeOK, PipeType
    <3>2. th'[u] = th[u]
      BY <1>1, <1>2, <3>1 DEF Poller
    <3> QED BY <2>1, <2>2, <3>1, <3>2 DEF Poller
  <2>5. Closer(f)' /\ Pollers(f)' /\ Eof(f)'
    BY <1>1, <2>1 DEF Awaits, Closer, Pollers, Eof
  <2>6. Knotes(f)'
    BY <1>1, <2>1, <2>2 DEF Awaits, Knotes
  <2> QED BY <2>1, <2>3, <2>4, <2>5, <2>6 DEF Awaits
<1> QED BY <1>9, <1>10 DEF WInv

(* The thread t works on the pipe of end e, or begins to. *)
Engaged(t, e) ==
    /\ th[t].pc = "user" \/ (th[t].pc # "selwait" /\ th[t].p = e)
    /\ closing[e] # "freed"

Faithful(t) == \E e \in Ends : \E Q, M : KeepsFaith(t, e, Q, M)

LEMMA LandsFaith ==
  ASSUME WInv, NEW t \in Threads, NEW e \in Ends, Engaged(t, e),
         NEW P, Calm(t, pipe[e], P), NEW L, L.p = e, NEW Q, NEW M, Lands(t, P, L, Q, M)
  PROVE  /\ th[t].pc = "user" \/ (th[t].pc # "selwait" /\ th[t].p = e)
         /\ pipe' = [pipe EXCEPT ![e] = Q] /\ th' = [th EXCEPT ![t] = M] /\ closing' = closing
         /\ M.p = e /\ M.pc \notin {"user", "selwait"}
         /\ Calm(t, pipe[e], Q) /\ (t \in Q.sleepers => Asleep(Q, M))
         /\ Q.cnt = P.cnt /\ Q.size = P.size /\ space(Q) = space(P)
         /\ PIPE_SIZE <= pipe[e].size
         /\ \A w \in Wants : Woke(t, P, w, Q) => Woke(t, pipe[e], w, Q)
<1>1. Calm(t, P, Q) /\ Step(t, Q, M) /\ M.p = e /\ Kept(P, Q)
  BY DEF Lands
<1>2. Calm(t, pipe[e], Q)
  BY <1>1, CalmTrans
<1>3. \A w \in Wants : Woke(t, P, w, Q) => Woke(t, pipe[e], w, Q)
  BY <1>1 DEF Woke, Calm, Wants
<1>4. PIPE_SIZE <= pipe[e].size
  BY DEF WInv, Awaits, Eof, Engaged
<1> QED BY <1>1, <1>2, <1>3, <1>4 DEF Lands, Step, Kept, space, Engaged

(* A step that changes neither the data nor who is on his way to tell. *)
LEMMA WaitFaith ==
  ASSUME IInv, WInv, NEW t \in Threads, NEW e \in Ends, Engaged(t, e),
         NEW P, Calm(t, pipe[e], P), Kept(pipe[e], P), NEW L, L.p = e,
         ~ Fills(th[t]), ~ Drains(th[t]), \E Q, M : Lands(t, P, L, Q, M)
  PROVE  Faithful(t)
<1>1. PICK Q, M : Lands(t, P, L, Q, M)
  OBVIOUS
<1>2. /\ th[t].pc = "user" \/ (th[t].pc # "selwait" /\ th[t].p = e)
      /\ pipe' = [pipe EXCEPT ![e] = Q] /\ th' = [th EXCEPT ![t] = M] /\ closing' = closing
      /\ M.p = e /\ M.pc \notin {"user", "selwait"}
      /\ Calm(t, pipe[e], Q) /\ (t \in Q.sleepers => Asleep(Q, M))
      /\ Q.cnt = P.cnt /\ Q.size = P.size /\ space(Q) = space(P) /\ PIPE_SIZE <= pipe[e].size
  BY <1>1, LandsFaith
<1>3. Q.cnt = pipe[e].cnt /\ Q.size = pipe[e].size /\ space(Q) = space(pipe[e])
  BY <1>2 DEF Kept, space
<1>4. KeepsFaith(t, e, Q, M)
  BY <1>2, <1>3 DEF KeepsFaith
<1> QED BY <1>4 DEF Faithful

LEMMA ReadFaith ==
  ASSUME IInv, WInv, NEW t \in Threads, NEW e \in Ends, Engaged(t, e),
         NEW P \in PipeType, Calm(t, pipe[e], P), P.size = pipe[e].size, NEW L, L.p = e,
         P.cnt = pipe[e].cnt \/ (Drains(th[t]) /\ P.cnt <= pipe[e].cnt),
         ~ Fills(th[t]),
         \E Q, M : /\ ReadLands(t, P, L, Q, M)
                   /\ M.pc = "piperd" /\ L.got = << >> => ~ Drains(th[t])
  PROVE  Faithful(t)
<1>1. PICK Q, M : /\ ReadLands(t, P, L, Q, M)
                  /\ M.pc = "piperd" /\ L.got = << >> => ~ Drains(th[t])
  OBVIOUS
<1>2. /\ th[t].pc = "user" \/ (th[t].pc # "selwait" /\ th[t].p = e)
      /\ pipe' = [pipe EXCEPT ![e] = Q] /\ th' = [th EXCEPT ![t] = M] /\ closing' = closing
      /\ M.p = e /\ M.pc \notin {"user", "selwait"}
      /\ Calm(t, pipe[e], Q) /\ (t \in Q.sleepers => Asleep(Q, M))
      /\ Q.cnt = P.cnt /\ Q.size = P.size /\ space(Q) = space(P) /\ PIPE_SIZE <= pipe[e].size
      /\ Woke(t, P, "WANTW", Q) => Woke(t, pipe[e], "WANTW", Q)
  BY <1>1, LandsFaith DEF ReadLands, Wants
<1>3. Q.cnt = 0 \/ (pipe[e].cnt # 0 /\ ~ Fills(th[t]))
  <2>1. pipe[e].cnt \in Nat /\ P.cnt \in Nat
    BY DEF IInv, TypeOK, PipeType
  <2> QED BY <1>2, <2>1
<1>4. \/ space(Q) < PIPE_BUF \/ Drains(M) \/ Told(Q, "EVFILT_WRITE")
      \/ ~ (space(pipe[e]) < PIPE_BUF) /\ ~ Drains(th[t])
  BY <1>1, <1>2 DEF ReadLands, space
<1>5. KeepsFaith(t, e, Q, M)
  BY <1>1, <1>2, <1>3, <1>4 DEF KeepsFaith, ReadLands
<1> QED BY <1>5 DEF Faithful

LEMMA WriteFaith ==
  ASSUME IInv, WInv, NEW t \in Threads, NEW e \in Ends, Engaged(t, e),
         NEW P \in PipeType, Calm(t, pipe[e], P), PIPE_SIZE <= P.size, NEW L, L.p = e,
         pipe[e].cnt <= P.cnt,
         space(P) <= space(pipe[e]) \/ PIPE_BUF <= space(pipe[e]),
         ~ Drains(th[t]), \E Q, M : WriteLands(t, P, L, Q, M)
  PROVE  Faithful(t)
<1>1. PICK Q, M : WriteLands(t, P, L, Q, M)
  OBVIOUS
<1>2. /\ th[t].pc = "user" \/ (th[t].pc # "selwait" /\ th[t].p = e)
      /\ pipe' = [pipe EXCEPT ![e] = Q] /\ th' = [th EXCEPT ![t] = M] /\ closing' = closing
      /\ M.p = e /\ M.pc \notin {"user", "selwait"}
      /\ Calm(t, pipe[e], Q) /\ (t \in Q.sleepers => Asleep(Q, M))
      /\ Q.cnt = P.cnt /\ Q.size = P.size /\ space(Q) = space(P)
      /\ Woke(t, P, "WANTR", Q) => Woke(t, pipe[e], "WANTR", Q)
  BY <1>1, LandsFaith DEF WriteLands, Wants
<1>3. /\ pipe[e].cnt \in Nat /\ P.cnt \in Nat /\ space(P) \in Int /\ space(pipe[e]) \in Int
      /\ MINPIPESIZE \in Nat /\ PIPE_BUF \in Nat
  <2>1. pipe[e] \in PipeType
    BY DEF IInv, TypeOK
  <2> QED BY <2>1, Counters, Numbers
<1>4. Q.cnt >= MINPIPESIZE \/ ~ (pipe[e].cnt >= MINPIPESIZE)
  BY <1>2, <1>3
<1>5. space(Q) < PIPE_BUF \/ ~ (space(pipe[e]) < PIPE_BUF)
  BY <1>2, <1>3
<1>6. KeepsFaith(t, e, Q, M)
  BY <1>1, <1>2, <1>4, <1>5 DEF KeepsFaith, WriteLands
<1> QED BY <1>6 DEF Faithful

LEMMA Awake ==
  ASSUME WInv, NEW t \in Threads, NEW e \in Ends,
         th[t].pc \notin LockWaits \cup {"piperd", "pipewr"}
  PROVE  t \notin pipe[e].sleepers
  BY DEF WInv, Awaits, Sleeper

LEMMA AtLands ==
  ASSUME NEW t \in Threads, NEW P, NEW L \in LocalType, NEW Q,
         NEW pc \in Reading \cup Writes \cup {"return"},
         Step(t, Q, At(L, pc)), Calm(t, P, Q), Kept(P, Q), t \in Q.sleepers => Asleep(Q, At(L, pc))
  PROVE  Lands(t, P, L, Q, At(L, pc)) /\ At(L, pc).pc = pc
<1>1. At(L, pc).p = L.p /\ At(L, pc).pc = pc
  BY AtType DEF Away
<1>2. pc \notin {"user", "selwait"}
  BY DEF Reading, Writes
<1> HIDE DEF At
<1> QED BY <1>1, <1>2 DEF Lands

(* Somebody waits for PIPE_LOCK. *)
LEMMA LockwaitLands ==
  ASSUME NEW t \in Threads, NEW P \in PipeType, Locked(P), NEW L \in LocalType,
         NEW pc \in LockWaits, Step(t, lockwait(P, t), At(L, pc))
  PROVE  \E Q, M : Lands(t, P, L, Q, M)
<1>1. pc \in Reading \cup Writes /\ At(L, pc).pc = pc
  <2>1. pc \in Reading \cup Writes
    BY DEF LockWaits, Reading, Writes
  <2> QED BY <2>1, AtType
<1>2. Asleep(lockwait(P, t), At(L, pc))
  BY <1>1, LockwaitCalm DEF Asleep
<1> QED BY <1>1, <1>2, LockwaitCalm, AtLands

-----------------------------------------------------------------------------
(* Every action of a thread keeps faith. *)

LEMMA ReadEnterFaith ==
  ASSUME IInv, WInv, NEW t \in Threads, NEW e \in Ends, closing[e] # "freed",
         th[t].pc = "user" \/ (th[t].pc = "rd_pipelk" /\ th[t].p = e), t \notin pipe[e].sleepers,
         NEW L \in LocalType, L.p = e, ReadEnter(t, pipe[e], L)
  PROVE  Faithful(t)
<1>1. pipe[e] \in PipeType /\ pipe[e].busy \in Nat /\ Ring(pipe[e])
  BY DEF IInv, TypeOK, PipeType, End
<1>2. Engaged(t, e) /\ ~ Fills(th[t]) /\ ~ Drains(th[t])
  BY DEF Engaged, Fills, Drains
<1>3. CASE Locked(pipe[e])
  <2>1. Step(t, lockwait(pipe[e], t), At(L, "rd_pipelk")) /\ "rd_pipelk" \in LockWaits
    BY <1>3 DEF ReadEnter, LockWaits
  <2>2. \E Q, M : Lands(t, pipe[e], L, Q, M)
    BY <1>1, <1>3, <2>1, LockwaitLands
  <2>3. Calm(t, pipe[e], pipe[e]) /\ Kept(pipe[e], pipe[e])
    BY <1>1, CalmSelf DEF Kept
  <2> QED BY <1>2, <2>2, <2>3, WaitFaith
<1>4. CASE ~ Locked(pipe[e])
  <2> DEFINE E == enter(pipe[e])
             P == pipelock(E)
  <2>1. /\ Kept(pipe[e], E) /\ E.busy = pipe[e].busy + 1 /\ E \in PipeType
        /\ Calm(t, pipe[e], E) /\ E.sleepers = pipe[e].sleepers
    BY <1>1, EnterKept, EnterCalm DEF Kept
  <2>2. ReadLoop(t, P, L)
    BY <1>4 DEF ReadEnter
  <2> HIDE DEF E
  <2>3. /\ Kept(E, P) /\ P.busy = E.busy /\ P \in PipeType
        /\ Calm(t, E, P) /\ P.sleepers = E.sleepers
    BY <2>1, LockKept, LockCalm DEF Kept
  <2> HIDE DEF P
  <2>4. Kept(pipe[e], P) /\ Calm(t, pipe[e], P) /\ 0 < P.busy
    BY <1>1, <2>1, <2>3, KeptTrans, CalmTrans
  <2>5. Ring(P) /\ P.cnt = pipe[e].cnt /\ P.size = pipe[e].size
    BY <1>1, <2>4 DEF Kept, Ring
  <2>6. \E Q, M : ReadLands(t, P, L, Q, M)
    BY <2>1, <2>2, <2>3, <2>4, <2>5, ReadLoopLands
  <2> QED BY <1>2, <2>3, <2>4, <2>5, <2>6, ReadFaith
<1> QED BY <1>3, <1>4

LEMMA Faithful_pipe_read ==
  ASSUME IInv, WInv, NEW t \in Threads, pipe_read(t)
  PROVE  Faithful(t)
<1>1. PICK c \in Calls[t] : /\ th[t].pc = "user" /\ closing[c.end] = "open"
                            /\ ReadEnter(t, pipe[c.end], Frame(c, c.end))
  BY DEF pipe_read, Usable
<1>2. c \in Call /\ c.end \in Ends
  BY PipeAssumption DEF Call
<1>3. Frame(c, c.end) \in LocalType /\ Frame(c, c.end).p = c.end
  BY <1>2, FrameFacts
<1>4. t \notin pipe[c.end].sleepers
  BY <1>1, <1>2, Awake DEF LockWaits
<1> QED BY <1>1, <1>2, <1>3, <1>4, ReadEnterFaith

LEMMA Faithful_pipe_read_locked ==
  ASSUME IInv, WInv, NEW t \in Threads, pipe_read_locked(t)
  PROVE  Faithful(t)
<1>1. /\ th[t].pc = "rd_pipelk" /\ t \notin pipe[th[t].p].sleepers
      /\ ReadEnter(t, pipe[th[t].p], th[t])
  BY DEF pipe_read_locked, Woken
<1>2. th[t] \in LocalType /\ th[t].p \in Ends /\ closing[th[t].p] # "freed"
  BY <1>1, LocalFacts DEF Away
<1> QED BY <1>1, <1>2, ReadEnterFaith

(* A reader leaves the loop, or is caught in a sleep. *)
LEMMA ReadEndFaith ==
  ASSUME IInv, WInv, NEW t \in Threads, th[t].pc \in Reading \ {"rd_pipelk"},
         NEW P, Kept(pipe[th[t].p], P), P.busy = pipe[th[t].p].busy, Calm(t, pipe[th[t].p], P),
         t \notin P.sleepers, ReadEnd(t, P, th[t])
  PROVE  Faithful(t)
<1>1. th[t].pc # "user" /\ th[t].pc \notin Away /\ In(th[t]) /\ ~ Fills(th[t])
  BY DEF Reading, Away, In, Counted, Fills
<1>2. th[t] \in LocalType /\ th[t].p \in Ends /\ closing[th[t].p] # "freed"
  BY <1>1, LocalFacts
<1>3. Engaged(t, th[t].p)
  BY <1>1, <1>2 DEF Engaged, Away
<1>4. P \in PipeType /\ P.cnt = pipe[th[t].p].cnt /\ P.size = pipe[th[t].p].size /\ 0 < P.busy
  BY <1>1, InsideBusy DEF Kept
<1>5. PICK Q, M : ReadLands(t, P, th[t], Q, M) /\ M.pc = "return"
  BY <1>2, <1>4, ReadEndLands
<1> QED BY <1>1, <1>2, <1>3, <1>4, <1>5, ReadFaith

LEMMA LongerIs ==
  ASSUME NEW s \in Seq(Byte), NEW r \in Seq(Byte), Len(r) # 0
  PROVE  s \o r # << >>
<1>1. Len(s \o r) = Len(s) + Len(r) /\ Len(s) \in Nat /\ Len(r) \in Nat
  OBVIOUS
<1>2. Len(s \o r) # 0
  BY <1>1
<1>3. Len(<< >>) = 0
  OBVIOUS
<1> QED BY <1>2, <1>3, Zenon

LEMMA Faithful_pipe_read_moved ==
  ASSUME IInv, WInv, NEW t \in Threads, pipe_read_moved(t)
  PROVE  Faithful(t)
<1> DEFINE e == th[t].p
           n == th[t].size
           P == advance(pipe[e], n)
           L == [th[t] EXCEPT !.resid = @ - n, !.got = @ \o segment(pipe[e], n)]
<1>1. /\ th[t].pc = "rd_uiomove"
      /\ ReadLoop(t, P, L) \/ ReadEnd(t, pipeunlock(pipe[e]), th[t])
  BY DEF pipe_read_moved
<1>2. /\ th[t] \in LocalType /\ e \in Ends /\ closing[e] # "freed"
      /\ pipe[e] \in PipeType /\ Ring(pipe[e])
      /\ n \in 1 .. pipe[e].cnt /\ pipe[e].out + n <= pipe[e].size /\ n <= th[t].resid
      /\ th[t].resid \in Nat /\ th[t].got \in Seq(Byte) /\ th[t].size \in Nat
      /\ pipe[e].cnt \in Nat
  BY <1>1, LocalFacts DEF Computed, Away, PipeType
<1>3. t \notin pipe[e].sleepers
  BY <1>1, <1>2, Awake DEF LockWaits
<1>4. In(th[t]) /\ ~ Fills(th[t]) /\ Drains(th[t]) /\ Engaged(t, e)
  BY <1>1, <1>2 DEF In, Counted, Reading, Fills, Drains, Engaged
<1>5. CASE ReadLoop(t, P, L)
  <2>1. /\ P \in PipeType /\ Ring(P) /\ P.size = pipe[e].size
        /\ P.busy = pipe[e].busy /\ P.state = pipe[e].state /\ P.cnt = pipe[e].cnt - n
    BY <1>2, AdvanceRing
  <2>2. P.sleepers = pipe[e].sleepers /\ P.sel = pipe[e].sel /\ P.notes = pipe[e].notes
        /\ P.active = pipe[e].active
    BY <1>2 DEF advance, PipeType
  <2>3. segment(pipe[e], n) \in Seq(Byte) /\ Len(segment(pipe[e], n)) = n
    <3>1. \A k \in 1 .. n : pipe[e].buffer[pipe[e].out + k - 1] \in Byte
      <4>1. /\ pipe[e].buffer \in [0 .. pipe[e].size - 1 -> Byte] /\ pipe[e].out \in Nat
            /\ pipe[e].size \in Nat
        BY <1>2 DEF Ring, PipeType
      <4>2. \A k \in 1 .. n : pipe[e].out + k - 1 \in 0 .. pipe[e].size - 1
        BY <1>2, <4>1, SMTT(30)
      <4> QED BY <4>1, <4>2
    <3> QED BY <1>2, <3>1 DEF segment
  <2>4. L \in LocalType /\ L.p = e /\ L.got = th[t].got \o segment(pipe[e], n)
    <3>1. th[t].resid - n \in Nat /\ th[t].got \o segment(pipe[e], n) \in Seq(Byte)
      BY <1>2, <2>3
    <3> QED BY <1>2, <3>1 DEF LocalType
  <2>5. L.got # << >>
    <3>1. n # 0
      BY <1>2
    <3> HIDE DEF n, L
    <3> QED BY <1>2, <2>3, <2>4, <3>1, LongerIs
  <2> HIDE DEF P, L
  <2>6. 0 < P.busy
    BY <1>4, <2>1, InsideBusy
  <2>7. Calm(t, pipe[e], P)
    BY <2>1, <2>2 DEF Calm, Locked
  <2>8. PICK Q, M : ReadLands(t, P, L, Q, M)
    BY <1>3, <1>5, <2>1, <2>2, <2>4, <2>6, ReadLoopLands
  <2>9. P.cnt <= pipe[e].cnt
    BY <1>2, <2>1
  <2> QED BY <1>2, <1>4, <2>1, <2>4, <2>5, <2>7, <2>8, <2>9, ReadFaith
<1>6. CASE ReadEnd(t, pipeunlock(pipe[e]), th[t])
  <2>1. /\ Kept(pipe[e], pipeunlock(pipe[e])) /\ pipeunlock(pipe[e]).busy = pipe[e].busy
        /\ Calm(t, pipe[e], pipeunlock(pipe[e])) /\ t \notin pipeunlock(pipe[e]).sleepers
    BY <1>2, <1>3, UnlockKept, UnlockCalm
  <2>2. th[t].pc \in Reading \ {"rd_pipelk"}
    BY <1>1 DEF Reading
  <2> QED BY <1>6, <2>1, <2>2, ReadEndFaith
<1> QED BY <1>1, <1>5, <1>6

LEMMA Faithful_pipe_read_woken ==
  ASSUME IInv, WInv, NEW t \in Threads, pipe_read_woken(t)
  PROVE  Faithful(t)
<1> DEFINE e == th[t].p
<1>1. /\ th[t].pc \in {"piperd", "rd_relock"} /\ t \notin pipe[e].sleepers
      /\ ReadLock(t, pipe[e], th[t], "rd_relock")
  BY DEF pipe_read_woken, Woken
<1>2. /\ th[t] \in LocalType /\ e \in Ends /\ closing[e] # "freed"
      /\ pipe[e] \in PipeType /\ Ring(pipe[e])
  BY <1>1, LocalFacts DEF Away
<1>3. In(th[t]) /\ ~ Fills(th[t]) /\ ~ Drains(th[t]) /\ Engaged(t, e)
  BY <1>1, <1>2 DEF In, Counted, Reading, Fills, Drains, Engaged
<1>4. CASE Locked(pipe[e])
  <2>1. Step(t, lockwait(pipe[e], t), At(th[t], "rd_relock")) /\ "rd_relock" \in LockWaits
    BY <1>1, <1>4 DEF ReadLock, LockWaits
  <2>2. \E Q, M : Lands(t, pipe[e], th[t], Q, M)
    BY <1>2, <1>4, <2>1, LockwaitLands
  <2>3. Calm(t, pipe[e], pipe[e]) /\ Kept(pipe[e], pipe[e])
    BY <1>2, CalmSelf DEF Kept
  <2> QED BY <1>2, <1>3, <2>2, <2>3, WaitFaith
<1>5. CASE ~ Locked(pipe[e])
  <2> DEFINE P == pipelock(pipe[e])
  <2>1. /\ Kept(pipe[e], P) /\ P.busy = pipe[e].busy /\ P \in PipeType
        /\ Calm(t, pipe[e], P) /\ P.sleepers = pipe[e].sleepers
    BY <1>2, LockKept, LockCalm DEF Kept
  <2>2. ReadLoop(t, P, th[t])
    BY <1>1, <1>5 DEF ReadLock
  <2> HIDE DEF P
  <2>3. Ring(P) /\ P.cnt = pipe[e].cnt /\ P.size = pipe[e].size
    BY <1>2, <2>1 DEF Kept, Ring
  <2>4. 0 < P.busy
    BY <1>3, <2>1, InsideBusy
  <2>5. \E Q, M : ReadLands(t, P, th[t], Q, M)
    BY <1>1, <1>2, <2>1, <2>2, <2>3, <2>4, ReadLoopLands
  <2> QED BY <1>2, <1>3, <2>1, <2>3, <2>5, ReadFaith
<1> QED BY <1>4, <1>5

LEMMA Faithful_pipe_read_caught ==
  ASSUME IInv, WInv, NEW t \in Threads, pipe_read_caught(t)
  PROVE  Faithful(t)
<1> DEFINE e == th[t].p
           P == unsleep(pipe[e], t)
<1>1. \/ th[t].pc = "rd_pipelk" /\ Step(t, P, At(th[t], "return"))
      \/ th[t].pc \in {"piperd", "rd_relock"} /\ ReadEnd(t, P, th[t])
  BY DEF pipe_read_caught
<1>2. th[t] \in LocalType /\ e \in Ends /\ closing[e] # "freed" /\ pipe[e] \in PipeType
  BY <1>1, LocalFacts DEF Away
<1>3. /\ Alike(pipe[e], P) /\ Calm(t, pipe[e], P) /\ t \notin P.sleepers
  <2>1. Alike(pipe[e], P)
    BY <1>2, QueueAlike
  <2>2. Calm(t, pipe[e], P) /\ P.sleepers = pipe[e].sleepers \ {t}
    BY <1>2, QueueCalm
  <2> QED BY <2>1, <2>2
<1> HIDE DEF P
<1>4. CASE th[t].pc = "rd_pipelk" /\ Step(t, P, At(th[t], "return"))
  <2>1. Lands(t, pipe[e], th[t], P, At(th[t], "return"))
    BY <1>2, <1>3, <1>4, AtLands DEF Alike
  <2>2. ~ Fills(th[t]) /\ ~ Drains(th[t]) /\ Engaged(t, e)
    BY <1>2, <1>4 DEF Fills, Drains, Engaged
  <2>3. Calm(t, pipe[e], pipe[e]) /\ Kept(pipe[e], pipe[e])
    BY <1>2, CalmSelf DEF Kept
  <2> QED BY <1>2, <2>1, <2>2, <2>3, WaitFaith
<1>5. CASE th[t].pc \in {"piperd", "rd_relock"} /\ ReadEnd(t, P, th[t])
  <2>1. th[t].pc \in Reading \ {"rd_pipelk"}
    BY <1>5 DEF Reading
  <2> QED BY <1>3, <1>5, <2>1, ReadEndFaith DEF Alike
<1> QED BY <1>1, <1>4, <1>5

LEMMA ResizeLands ==
  ASSUME NEW t \in Threads, NEW P \in PipeType, t \notin P.sleepers, NEW L \in LocalType,
         ResizeLock(t, P, L)
  PROVE  \E Q, M : Lands(t, P, L, Q, M)
<1>1. CASE Locked(P)
  <2>1. Step(t, lockwait(P, t), At(L, "rs_pipelk")) /\ "rs_pipelk" \in LockWaits
    BY <1>1 DEF ResizeLock, LockWaits
  <2> QED BY <1>1, <2>1, LockwaitLands
<1>2. CASE ~ Locked(P)
  <2>1. Step(t, pipelock(P), At(L, "km_alloc")) /\ "km_alloc" \in Writes
    BY <1>2 DEF ResizeLock, Writes
  <2>2. Kept(P, pipelock(P)) /\ Calm(t, P, pipelock(P)) /\ t \notin pipelock(P).sleepers
    BY LockKept, LockCalm
  <2> QED BY <2>1, <2>2, AtLands
<1> QED BY <1>1, <1>2

LEMMA Faithful_pipe_write ==
  ASSUME IInv, WInv, NEW t \in Threads, pipe_write(t)
  PROVE  Faithful(t)
<1>1. PICK c \in Calls[t] :
        /\ th[t].pc = "user" /\ closing[c.end] = "open" /\ ~ peereof(pipe[c.end])
        /\ \/ ResizeLock(t, enter(pipe[pipe[c.end].peer]), Frame(c, pipe[c.end].peer))
           \/ WriteLoop(t, enter(pipe[pipe[c.end].peer]), Frame(c, pipe[c.end].peer))
  BY DEF pipe_write, Usable
<1>2. c \in Call /\ c.end \in Ends /\ c.n \in Nat
  BY PipeAssumption DEF Call
<1> DEFINE e == pipe[c.end].peer
           P == enter(pipe[e])
           L == Frame(c, e)
<1>3. e \in Ends /\ closing[e] # "freed"
  <2>1. e = IF closing[other(c.end)] = "freed" THEN NULL ELSE other(c.end)
    BY <1>1, <1>2 DEF IInv, End
  <2>2. e # NULL
    BY <1>1 DEF peereof
  <2> QED BY <2>1, <2>2 DEF other, Ends
<1>4. /\ pipe[e] \in PipeType /\ Ring(pipe[e]) /\ pipe[e].busy \in Nat
      /\ PIPE_SIZE <= pipe[e].size
  <2>1. pipe[e] \in PipeType /\ Ring(pipe[e])
    BY <1>3 DEF IInv, TypeOK, End
  <2>2. PIPE_SIZE <= pipe[e].size
    BY <1>3 DEF WInv, Awaits, Eof
  <2> QED BY <2>1, <2>2 DEF PipeType
<1>5. /\ Kept(pipe[e], P) /\ P.busy = pipe[e].busy + 1 /\ P \in PipeType
      /\ Calm(t, pipe[e], P) /\ P.sleepers = pipe[e].sleepers
  BY <1>4, EnterKept, EnterCalm DEF Kept
<1>6. L \in LocalType /\ L.p = e /\ L.call = c /\ L.resid = c.n
  BY <1>2, <1>3, FrameFacts
<1>7. ResizeLock(t, P, L) \/ WriteLoop(t, P, L)
  BY <1>1
<1>8. t \notin pipe[e].sleepers
  BY <1>1, <1>3, Awake DEF LockWaits
<1> HIDE DEF P, L, e
<1>9. Engaged(t, e) /\ ~ Fills(th[t]) /\ ~ Drains(th[t])
  BY <1>1, <1>3 DEF Engaged, Fills, Drains
<1>10. Ring(P) /\ P.size = pipe[e].size /\ P.cnt = pipe[e].cnt /\ space(P) = space(pipe[e])
  BY <1>4, <1>5 DEF Kept, Ring, space
<1>11. CASE ResizeLock(t, P, L)
  <2>1. \E Q, M : Lands(t, P, L, Q, M)
    BY <1>5, <1>6, <1>8, <1>11, ResizeLands
  <2> QED BY <1>3, <1>5, <1>6, <1>9, <2>1, WaitFaith
<1>12. CASE WriteLoop(t, P, L)
  <2>1. L.resid <= L.call.n
    BY <1>2, <1>6
  <2>2. 0 < P.busy
    BY <1>4, <1>5
  <2>3. \E Q, M : WriteLands(t, P, L, Q, M)
    BY <1>4, <1>5, <1>6, <1>8, <1>10, <1>12, <2>1, <2>2, WriteLoopLands
  <2>4. pipe[e].cnt <= P.cnt /\ space(P) <= space(pipe[e])
    BY <1>4, <1>10 DEF PipeType, space
  <2> QED BY <1>3, <1>4, <1>5, <1>6, <1>9, <1>10, <2>3, <2>4, WriteFaith
<1> QED BY <1>7, <1>11, <1>12

LEMMA WriterEngaged ==
  ASSUME IInv, WInv, NEW t \in Threads, th[t].pc \in Writes
  PROVE  /\ th[t] \in LocalType /\ th[t].p \in Ends /\ th[t].resid <= th[t].call.n
         /\ pipe[th[t].p] \in PipeType /\ Ring(pipe[th[t].p]) /\ 0 < pipe[th[t].p].busy
         /\ PIPE_SIZE <= pipe[th[t].p].size /\ Engaged(t, th[t].p) /\ ~ Drains(th[t])
<1>1. /\ th[t] \in LocalType /\ th[t].p \in Ends /\ th[t].resid <= th[t].call.n
      /\ pipe[th[t].p] \in PipeType /\ Ring(pipe[th[t].p]) /\ 0 < pipe[th[t].p].busy
      /\ closing[th[t].p] # "freed"
  BY WriterFacts
<1>2. PIPE_SIZE <= pipe[th[t].p].size
  BY <1>1 DEF WInv, Awaits, Eof
<1>3. Engaged(t, th[t].p) /\ ~ Drains(th[t])
  BY <1>1 DEF Engaged, Drains, Writes
<1> QED BY <1>1, <1>2, <1>3

(* A writer goes on from P, which has the ring of the pipe it works on. *)
LEMMA WriterFaith ==
  ASSUME IInv, WInv, NEW t \in Threads, th[t].pc \in Writes, NEW P, Kept(pipe[th[t].p], P),
         P.busy = pipe[th[t].p].busy, Calm(t, pipe[th[t].p], P), t \notin P.sleepers,
         \/ WriteLoop(t, P, th[t]) \/ WriteEnd(t, P, th[t])
         \/ \E Q, M : WriteLands(t, P, th[t], Q, M)
  PROVE  Faithful(t)
<1>1. /\ th[t] \in LocalType /\ th[t].p \in Ends /\ th[t].resid <= th[t].call.n
      /\ pipe[th[t].p] \in PipeType /\ Ring(pipe[th[t].p]) /\ 0 < pipe[th[t].p].busy
      /\ PIPE_SIZE <= pipe[th[t].p].size /\ Engaged(t, th[t].p) /\ ~ Drains(th[t])
  BY WriterEngaged
<1>2. /\ P \in PipeType /\ Ring(P) /\ 0 < P.busy /\ P.cnt = pipe[th[t].p].cnt
      /\ PIPE_SIZE <= P.size /\ space(P) = space(pipe[th[t].p])
  BY <1>1 DEF Kept, Ring, space
<1>3. \E Q, M : WriteLands(t, P, th[t], Q, M)
  BY <1>1, <1>2, WriteLoopLands, WriteEndLands
<1>4. pipe[th[t].p].cnt <= P.cnt /\ space(P) <= space(pipe[th[t].p])
  BY <1>1, <1>2, Counters
<1> QED BY <1>1, <1>2, <1>3, <1>4, WriteFaith

LEMMA Faithful_pipe_write_resize ==
  ASSUME IInv, WInv, NEW t \in Threads, pipe_write_resize(t)
  PROVE  Faithful(t)
<1> DEFINE e == th[t].p
<1>1. th[t].pc = "rs_pipelk" /\ t \notin pipe[e].sleepers /\ ResizeLock(t, pipe[e], th[t])
  BY DEF pipe_write_resize, Woken
<1>2. th[t].pc \in Writes /\ ~ Fills(th[t])
  BY <1>1 DEF Writes, Fills
<1>3. th[t] \in LocalType /\ e \in Ends /\ pipe[e] \in PipeType /\ Engaged(t, e) /\ ~ Drains(th[t])
  BY <1>2, WriterEngaged
<1>4. Kept(pipe[e], pipe[e]) /\ Calm(t, pipe[e], pipe[e])
  BY <1>3, CalmSelf DEF Kept
<1>5. \E Q, M : Lands(t, pipe[e], th[t], Q, M)
  BY <1>1, <1>3, ResizeLands
<1> QED BY <1>2, <1>3, <1>4, <1>5, WaitFaith

LEMMA Faithful_pipe_write_alloc ==
  ASSUME ~ LateResize, IInv, WInv, NEW t \in Threads, pipe_write_alloc(t)
  PROVE  Faithful(t)
<1> DEFINE e == th[t].p
           S == pipespace(pipe[e], BIG_PIPE_SIZE)
<1>1. /\ th[t].pc = "km_alloc"
      /\ \/ pipe[e].cnt = 0 /\ WriteLoop(t, pipeunlock(S), th[t])
         \/ WriteLoop(t, pipeunlock(pipe[e]), th[t])
  BY DEF pipe_write_alloc
<1>2. th[t].pc \in Writes
  BY <1>1 DEF Writes
<1>3. /\ th[t] \in LocalType /\ e \in Ends /\ th[t].resid <= th[t].call.n
      /\ pipe[e] \in PipeType /\ Ring(pipe[e]) /\ 0 < pipe[e].busy
      /\ PIPE_SIZE <= pipe[e].size /\ Engaged(t, e) /\ ~ Drains(th[t])
  BY <1>2, WriterEngaged
<1>4. t \notin pipe[e].sleepers
  BY <1>1, <1>3, Awake DEF LockWaits
<1>5. CASE WriteLoop(t, pipeunlock(pipe[e]), th[t])
  <2>1. /\ Kept(pipe[e], pipeunlock(pipe[e])) /\ pipeunlock(pipe[e]).busy = pipe[e].busy
        /\ Calm(t, pipe[e], pipeunlock(pipe[e])) /\ t \notin pipeunlock(pipe[e]).sleepers
    BY <1>3, <1>4, UnlockKept, UnlockCalm
  <2> QED BY <1>2, <1>5, <2>1, WriterFaith
<1>6. CASE pipe[e].cnt = 0 /\ WriteLoop(t, pipeunlock(S), th[t])
  <2>1. /\ S \in PipeType /\ Ring(S) /\ S.size = BIG_PIPE_SIZE /\ S.busy = pipe[e].busy
        /\ S.cnt = 0
    <3>1. S \in PipeType /\ Ring(S) /\ S.size = BIG_PIPE_SIZE /\ S.busy = pipe[e].busy
      BY <1>3, Numbers, SpaceRing
    <3>2. S.cnt = 0
      BY <1>3 DEF pipespace, PipeType
    <3> QED BY <3>1, <3>2
  <2>2. S.state = pipe[e].state /\ S.sleepers = pipe[e].sleepers /\ S.sel = pipe[e].sel
        /\ S.notes = pipe[e].notes /\ S.active = pipe[e].active
    BY <1>3 DEF pipespace, PipeType
  <2> DEFINE R == pipeunlock(S)
  <2>3. WriteLoop(t, R, th[t])
    BY <1>6
  <2> HIDE DEF S
  <2>4. /\ Kept(S, R) /\ R.busy = S.busy /\ Calm(t, S, R) /\ R.sleepers \subseteq S.sleepers
    BY <2>1, UnlockKept, UnlockCalm
  <2> HIDE DEF R
  <2>5. R \in PipeType /\ Ring(R) /\ R.size = BIG_PIPE_SIZE /\ R.cnt = 0 /\ 0 < R.busy
        /\ t \notin R.sleepers
    BY <1>3, <1>4, <2>1, <2>2, <2>4 DEF Kept, Ring
  <2>6. Calm(t, pipe[e], R)
    <3>1. Calm(t, pipe[e], S)
      BY <2>1, <2>2 DEF Calm, Locked
    <3> QED BY <2>4, <3>1, CalmTrans
  <2>7. PIPE_SIZE <= R.size /\ PIPE_BUF <= space(pipe[e]) /\ pipe[e].cnt <= R.cnt
    <3>1. pipe[e].size \in Nat /\ pipe[e].cnt \in Nat
      BY <1>3 DEF PipeType
    <3>2. space(pipe[e]) = pipe[e].size - pipe[e].cnt
      BY DEF space
    <3> HIDE DEF e
    <3> QED BY <1>3, <1>6, <2>5, <3>1, <3>2, Numbers
  <2>8. \E Q, M : WriteLands(t, R, th[t], Q, M)
    BY <1>3, <2>3, <2>5, <2>7, WriteLoopLands
  <2> QED BY <1>3, <2>5, <2>6, <2>7, <2>8, WriteFaith
<1> QED BY <1>1, <1>5, <1>6

LEMMA Faithful_pipe_write_locked ==
  ASSUME IInv, WInv, NEW t \in Threads, pipe_write_locked(t)
  PROVE  Faithful(t)
<1> DEFINE e == th[t].p
           P == pipe[e]
           n == th[t].size
<1>1. /\ th[t].pc = "wr_pipelk" /\ t \notin P.sleepers
      /\ IF Locked(P) THEN Step(t, lockwait(P, t), th[t])
         ELSE IF n > space(P) THEN WriteLoop(t, pipeunlock(pipelock(P)), th[t])
         ELSE Transfer(t, P, th[t], n)
  BY DEF pipe_write_locked, Woken
<1>2. th[t].pc \in Writes
  BY <1>1 DEF Writes
<1>3. /\ th[t] \in LocalType /\ P \in PipeType /\ n \in Nat
  BY <1>2, WriterEngaged DEF LocalType
<1>4. Kept(P, P) /\ Calm(t, P, P)
  BY <1>3, CalmSelf DEF Kept
<1> HIDE DEF P
<1>5. CASE Locked(P)
  <2>1. Step(t, lockwait(P, t), th[t])
    BY <1>1, <1>5
  <2>2. /\ Kept(P, lockwait(P, t)) /\ Calm(t, P, lockwait(P, t))
        /\ "LWANT" \in lockwait(P, t).state /\ Locked(lockwait(P, t))
    BY <1>3, <1>5, LockwaitCalm
  <2>3. WriteLands(t, P, th[t], lockwait(P, t), th[t])
    BY <1>1, <2>1, <2>2 DEF WriteLands, Lands, Asleep, LockWaits, Drains, Fills
  <2> QED BY <1>1, <1>2, <1>4, <2>3, WriterFaith DEF P
<1>6. CASE ~ Locked(P) /\ n > space(P)
  <2> DEFINE K == pipelock(P)
             R == pipeunlock(K)
  <2>1. /\ Kept(P, K) /\ K.busy = P.busy /\ K \in PipeType /\ Calm(t, P, K)
        /\ K.sleepers = P.sleepers
    BY <1>3, LockKept, LockCalm DEF Kept
  <2>2. WriteLoop(t, R, th[t])
    BY <1>1, <1>6
  <2> HIDE DEF K
  <2>3. Kept(K, R) /\ R.busy = K.busy /\ Calm(t, K, R) /\ R.sleepers \subseteq K.sleepers
    BY <2>1, UnlockKept, UnlockCalm
  <2> HIDE DEF R
  <2>4. Kept(P, R) /\ R.busy = P.busy /\ Calm(t, P, R) /\ t \notin R.sleepers
    BY <1>1, <2>1, <2>3, KeptTrans, CalmTrans
  <2> QED BY <1>2, <2>2, <2>4, WriterFaith DEF P
<1>7. CASE ~ Locked(P) /\ ~ (n > space(P))
  <2>1. \E Q, M : WriteLands(t, P, th[t], Q, M)
    BY <1>1, <1>3, <1>7, TransferLands
  <2> QED BY <1>1, <1>2, <1>4, <2>1, WriterFaith DEF P
<1> QED BY <1>5, <1>6, <1>7

LEMMA Faithful_pipe_write_moved ==
  ASSUME IInv, WInv, NEW t \in Threads, pipe_write_moved(t)
  PROVE  Faithful(t)
<1> DEFINE e == th[t].p
           n == th[t].size
           s == nextbytes(t, th[t])
           F == fill(pipe[e], s)
           L == [th[t] EXCEPT !.resid = @ - n]
<1>1. /\ th[t].pc = "wr_uiomove"
      /\ WriteLoop(t, pipeunlock(F), L) \/ WriteEnd(t, pipeunlock(pipe[e]), th[t])
  BY DEF pipe_write_moved, nextbytes
<1>2. th[t].pc \in Writes
  BY <1>1 DEF Writes
<1>3. /\ th[t] \in LocalType /\ e \in Ends /\ th[t].resid <= th[t].call.n
      /\ pipe[e] \in PipeType /\ Ring(pipe[e]) /\ 0 < pipe[e].busy
      /\ PIPE_SIZE <= pipe[e].size /\ Engaged(t, e) /\ ~ Drains(th[t])
      /\ th[t].resid \in Nat /\ th[t].call.n \in Nat
  BY <1>2, WriterEngaged, WriterFacts
<1>4. n \in 1 .. space(pipe[e]) /\ n <= th[t].resid /\ n \in Nat
  BY <1>1, LocalFacts DEF Computed
<1>5. t \notin pipe[e].sleepers
  BY <1>1, <1>3, Awake DEF LockWaits
<1>6. CASE WriteEnd(t, pipeunlock(pipe[e]), th[t])
  <2>1. /\ Kept(pipe[e], pipeunlock(pipe[e])) /\ pipeunlock(pipe[e]).busy = pipe[e].busy
        /\ Calm(t, pipe[e], pipeunlock(pipe[e])) /\ t \notin pipeunlock(pipe[e]).sleepers
    BY <1>3, <1>5, UnlockKept, UnlockCalm
  <2> QED BY <1>2, <1>6, <2>1, WriterFaith
<1>7. CASE WriteLoop(t, pipeunlock(F), L)
  <2>1. s \in Seq(Byte) /\ Len(s) = n
    <3>1. \A k \in 1 .. n : <<t, th[t].call.n - th[t].resid + k>> \in Byte
      BY <1>3, <1>4 DEF Byte
    <3> QED BY <1>4, <3>1 DEF nextbytes
  <2> HIDE DEF s
  <2>2. /\ F \in PipeType /\ Ring(F) /\ F.size = pipe[e].size /\ F.state = pipe[e].state
        /\ F.busy = pipe[e].busy /\ F.cnt = pipe[e].cnt + n
    BY <1>3, <1>4, <2>1, FillRing
  <2>3. F.sleepers = pipe[e].sleepers /\ F.sel = pipe[e].sel /\ F.notes = pipe[e].notes
        /\ F.active = pipe[e].active
    BY <1>3 DEF fill, PipeType
  <2> DEFINE R == pipeunlock(F)
  <2>4. WriteLoop(t, R, L)
    BY <1>7
  <2> HIDE DEF F
  <2>5. /\ Kept(F, R) /\ R.busy = F.busy /\ Calm(t, F, R) /\ R.sleepers \subseteq F.sleepers
    BY <2>2, UnlockKept, UnlockCalm
  <2> HIDE DEF R
  <2>6. /\ R \in PipeType /\ Ring(R) /\ R.size = pipe[e].size /\ R.cnt = pipe[e].cnt + n
        /\ 0 < R.busy /\ t \notin R.sleepers
    BY <1>3, <1>5, <2>2, <2>3, <2>5 DEF Kept, Ring
  <2>7. Calm(t, pipe[e], R)
    <3>1. Calm(t, pipe[e], F)
      BY <2>2, <2>3 DEF Calm, Locked
    <3> QED BY <2>5, <3>1, CalmTrans
  <2>8. L \in LocalType /\ L.p = e /\ L.call = th[t].call /\ L.resid = th[t].resid - n
    <3>1. th[t].resid - n \in Nat
      BY <1>3, <1>4
    <3> QED BY <1>3, <3>1 DEF LocalType
  <2> HIDE DEF L
  <2>9. L.resid <= L.call.n /\ PIPE_SIZE <= R.size
    BY <1>3, <1>4, <2>6, <2>8
  <2>10. \E Q, M : WriteLands(t, R, L, Q, M)
    BY <2>4, <2>6, <2>8, <2>9, WriteLoopLands
  <2>11. pipe[e].cnt <= R.cnt /\ space(R) <= space(pipe[e])
    <3>1. pipe[e].size \in Nat /\ pipe[e].cnt \in Nat
      BY <1>3 DEF PipeType
    <3>2. space(pipe[e]) = pipe[e].size - pipe[e].cnt /\ space(R) = R.size - R.cnt
      BY DEF space
    <3> HIDE DEF e, n
    <3> QED BY <1>4, <2>6, <3>1, <3>2
  <2> QED BY <1>3, <2>6, <2>7, <2>8, <2>9, <2>10, <2>11, WriteFaith
<1> QED BY <1>1, <1>6, <1>7

LEMMA Faithful_pipe_write_woken ==
  ASSUME IInv, WInv, NEW t \in Threads, pipe_write_woken(t)
  PROVE  Faithful(t)
<1>1. /\ th[t].pc = "pipewr" /\ t \notin pipe[th[t].p].sleepers
      /\ WriteLoop(t, pipe[th[t].p], th[t])
  BY DEF pipe_write_woken, Woken
<1>2. th[t].pc \in Writes
  BY <1>1 DEF Writes
<1>3. Kept(pipe[th[t].p], pipe[th[t].p]) /\ Calm(t, pipe[th[t].p], pipe[th[t].p])
  BY <1>2, WriterEngaged, CalmSelf DEF Kept
<1> QED BY <1>1, <1>2, <1>3, WriterFaith

LEMMA Faithful_pipe_write_caught ==
  ASSUME IInv, WInv, NEW t \in Threads, pipe_write_caught(t)
  PROVE  Faithful(t)
<1> DEFINE e == th[t].p
           P == unsleep(pipe[e], t)
<1>1. \/ /\ th[t].pc = "rs_pipelk"
         /\ Step(t, rundown(P, "WANTR", FALSE), At(th[t], "return"))
      \/ th[t].pc \in {"wr_pipelk", "pipewr"} /\ WriteEnd(t, P, th[t])
  BY DEF pipe_write_caught
<1>2. th[t].pc \in Writes
  BY <1>1 DEF Writes
<1>3. /\ th[t] \in LocalType /\ e \in Ends /\ pipe[e] \in PipeType /\ 0 < pipe[e].busy
      /\ Engaged(t, e) /\ ~ Drains(th[t])
  BY <1>2, WriterEngaged
<1>4. Alike(pipe[e], P) /\ P \in PipeType /\ Calm(t, pipe[e], P) /\ t \notin P.sleepers
  <2>1. Alike(pipe[e], P)
    BY <1>3, QueueAlike
  <2>2. Calm(t, pipe[e], P) /\ P.sleepers = pipe[e].sleepers \ {t}
    BY <1>3, QueueCalm
  <2> QED BY <2>1, <2>2 DEF Alike, Kept
<1> HIDE DEF P
<1>5. CASE th[t].pc \in {"wr_pipelk", "pipewr"} /\ WriteEnd(t, P, th[t])
  BY <1>2, <1>4, <1>5, WriterFaith DEF Alike
<1>6. CASE th[t].pc = "rs_pipelk" /\ Step(t, rundown(P, "WANTR", FALSE), At(th[t], "return"))
  <2> DEFINE Q == rundown(P, "WANTR", FALSE)
  <2>1. Kept(P, Q) /\ Calm(t, P, Q) /\ Q.sleepers \subseteq P.sleepers
    BY <1>3, <1>4, RundownKept, RundownCalm DEF Alike
  <2>2. Step(t, Q, At(th[t], "return"))
    BY <1>6
  <2> HIDE DEF Q
  <2>3. Lands(t, P, th[t], Q, At(th[t], "return"))
    BY <1>3, <1>4, <2>1, <2>2, AtLands
  <2>4. ~ Fills(th[t])
    BY <1>6 DEF Fills
  <2> QED BY <1>3, <1>4, <2>3, <2>4, WaitFaith DEF Alike
<1> QED BY <1>1, <1>5, <1>6

-----------------------------------------------------------------------------
(* So do the other actions. *)

(* A thread outside begins or ends to poll. *)
PollChange(t, M) ==
    /\ th[t].pc \in Out /\ M.pc \in Out /\ th' = [th EXCEPT ![t] = M] /\ closing' = closing
    /\ \A e \in Ends : LET P == pipe[e]
                           Q == pipe'[e] IN
         /\ Q.cnt = P.cnt /\ Q.size = P.size /\ Q.busy = P.busy /\ Q.sleepers = P.sleepers
         /\ Q.notes = P.notes /\ Q.active = P.active
         /\ \/ Q.sel \subseteq P.sel \ {t} /\ Q.state = P.state
            \/ /\ Q.sel = P.sel \cup {t} /\ Q.state = P.state \cup {"SEL"}
               /\ "EOF" \notin P.state /\ closing[e] # "freed" /\ closing[other(e)] # "freed"
               /\ M.pc = "selwait" /\ (IF M.call.end = e THEN P.cnt = 0 ELSE space(P) < PIPE_BUF)

LEMMA PollFaith ==
  ASSUME TypeOK, WInv, NEW t \in Threads, NEW M, PollChange(t, M)
  PROVE  WInv'
<1>1. th[t].pc \in Out /\ M.pc \in Out /\ th' = [th EXCEPT ![t] = M] /\ closing' = closing
  BY DEF PollChange
<1>2. th'[t] = M /\ \A u \in Threads \ {t} : th'[u] = th[u]
  BY <1>1 DEF TypeOK
<1> SUFFICES ASSUME NEW e \in Ends PROVE Awaits(e)'
  BY DEF WInv
<1> DEFINE P == pipe[e]
           Q == pipe'[e]
<1>3. /\ Q.cnt = P.cnt /\ Q.size = P.size /\ Q.busy = P.busy /\ Q.sleepers = P.sleepers
      /\ Q.notes = P.notes /\ Q.active = P.active
      /\ \/ Q.sel \subseteq P.sel \ {t} /\ Q.state = P.state
         \/ /\ Q.sel = P.sel \cup {t} /\ Q.state = P.state \cup {"SEL"}
            /\ "EOF" \notin P.state /\ closing[e] # "freed" /\ closing[other(e)] # "freed"
            /\ M.pc = "selwait" /\ (IF M.call.end = e THEN P.cnt = 0 ELSE space(P) < PIPE_BUF)
  BY DEF PollChange
<1>4. Awaits(e)
  BY DEF WInv
<1>5. /\ NoData(e) => NoData(e)'
      /\ NoSpace(e) => NoSpace(e)'
      /\ NoRoom(e) => NoRoom(e)'
  <2>1. (Filling(e) => Filling(e)') /\ (Draining(e) => Draining(e)')
    BY <1>1, <1>2 DEF Filling, Draining, Fills, Drains, Out, Away
  <2> QED BY <1>3, <2>1 DEF NoData, NoSpace, NoRoom, space
<1>6. "EOF" \in Q.state <=> "EOF" \in P.state
  BY <1>3
<1>7. ASSUME NEW u \in Threads, u \in Q.sleepers PROVE Sleeper(u, e)'
  <2>1. Sleeper(u, e)
    BY <1>3, <1>4, <1>7 DEF Awaits
  <2>2. th'[u] = th[u]
    BY <1>1, <1>2, <2>1 DEF Sleeper, LockWaits, Out, Away
  <2>3. P.state \subseteq Q.state
    BY <1>3
  <2> QED BY <1>5, <1>6, <2>1, <2>2, <2>3 DEF Sleeper, Locked
<1>8. ASSUME NEW u \in Q.sel PROVE Poller(u, e)'
  <2>1. CASE u # t
    <3>1. u \in P.sel /\ u \in Threads
      BY <1>3, <1>8, <2>1 DEF TypeOK, PipeType
    <3>2. Poller(u, e) /\ th'[u] = th[u]
      BY <1>2, <1>4, <2>1, <3>1 DEF Awaits
    <3> QED BY <1>5, <3>2 DEF Poller
  <2>2. CASE u = t
    <3>1. M.pc = "selwait" /\ (IF M.call.end = e THEN P.cnt = 0 ELSE space(P) < PIPE_BUF)
      BY <1>3, <1>8, <2>2
    <3>2. Q.cnt = P.cnt /\ space(Q) = space(P)
      BY <1>3 DEF space
    <3> QED BY <1>2, <2>2, <3>1, <3>2 DEF Poller, NoData, NoRoom
  <2> QED BY <2>1, <2>2
<1>9. Closer(e)'
  BY <1>1, <1>3, <1>4 DEF Awaits, Closer
<1>10. Pollers(e)'
  BY <1>1, <1>3, <1>4 DEF Awaits, Pollers
<1>11. Knotes(e)'
  BY <1>1, <1>3, <1>4, <1>5, <1>6 DEF Awaits, Knotes
<1>12. Eof(e)'
  BY <1>1, <1>3, <1>4, <1>6 DEF Awaits, Eof
<1> QED BY <1>7, <1>8, <1>9, <1>10, <1>11, <1>12 DEF Awaits

LEMMA NotPolling ==
  ASSUME WInv, NEW t \in Threads, th[t].pc # "selwait", NEW e \in Ends
  PROVE  t \notin pipe[e].sel
  BY DEF WInv, Awaits, Poller

LEMMA Poll_Return ==
  ASSUME IInv, WInv, NEW t \in Threads, Return(t) \/ pipe_write_epipe(t)
  PROVE  \E M : PollChange(t, M)
<1>1. PICK M : /\ th[t].pc \in {"return", "user"} /\ M.pc \in {"return", "user"}
               /\ th' = [th EXCEPT ![t] = M] /\ pipe' = pipe /\ closing' = closing
  <2>1. CASE Return(t)
    BY <2>1 DEF Return, Idle
  <2>2. CASE pipe_write_epipe(t)
    <3>1. PICK c \in Calls[t] : /\ th[t].pc = "user" /\ pipe' = pipe /\ closing' = closing
                                /\ th' = [th EXCEPT ![t] = At(Frame(c, c.end), "return")]
      BY <2>2 DEF pipe_write_epipe
    <3>2. At(Frame(c, c.end), "return").pc = "return"
      BY DEF At, Frame
    <3> QED BY <3>1, <3>2
  <2> QED BY <2>1, <2>2
<1>2. \A e \in Ends : t \notin pipe[e].sel
  BY <1>1, NotPolling
<1> QED BY <1>1, <1>2 DEF PollChange, Out, Away

LEMMA Poll_pipe_poll_ends ==
  ASSUME IInv, WInv, NEW t \in Threads, pipe_poll_ends(t)
  PROVE  \E M : PollChange(t, M)
<1> DEFINE M == At(th[t], "return")
<1>1. /\ th[t].pc = "selwait" /\ th' = [th EXCEPT ![t] = M] /\ closing' = closing
      /\ pipe' = [e \in Ends |-> [pipe[e] EXCEPT !.sel = @ \ {t}]]
  BY DEF pipe_poll_ends, At
<1>2. M.pc = "return"
  <2>1. th[t] \in LocalType
    BY <1>1, LocalFacts
  <2> QED BY <2>1, AtType DEF Away
<1> HIDE DEF M
<1>3. ASSUME NEW e \in Ends
      PROVE  LET P == pipe[e]
                 Q == pipe'[e] IN
             /\ Q.cnt = P.cnt /\ Q.size = P.size /\ Q.busy = P.busy /\ Q.sleepers = P.sleepers
             /\ Q.notes = P.notes /\ Q.active = P.active
             /\ Q.sel \subseteq P.sel \ {t} /\ Q.state = P.state
  <2>1. pipe[e] \in PipeType /\ pipe'[e] = [pipe[e] EXCEPT !.sel = @ \ {t}]
    BY <1>1 DEF IInv, TypeOK
  <2> QED BY <2>1 DEF PipeType
<1> QED BY <1>1, <1>2, <1>3 DEF PollChange, Out, Away

LEMMA PolledFaith ==
  ASSUME IInv, WInv, NEW t \in Threads, th[t].pc \in Out, NEW c \in Call, closing[c.end] = "open",
         Polled(t, c)
  PROVE  \E M : PollChange(t, M)
<1> DEFINE r == Revents(c.end, c.ev)
           pc == IF r THEN "return" ELSE "selwait"
           M == At(Frame(c, c.end), pc)
<1>1. c.end \in Ends /\ other(c.end) \in Ends /\ other(c.end) # c.end
      /\ \A e \in Ends : e # c.end => e = other(c.end) /\ other(e) = c.end
  BY DEF Call, other, Ends
<1>2. th' = [th EXCEPT ![t] = M] /\ closing' = closing
  BY DEF Polled
<1>3. M.pc = pc /\ M.call = c
  BY DEF At, Frame
<1>4. ASSUME NEW e \in Ends
      PROVE  pipe'[e] = IF ~ r /\ e \in selrecord(c.end, c.ev)
                        THEN [flag(pipe[e], {"SEL"}) EXCEPT !.sel = @ \cup {t}]
                        ELSE [pipe[e] EXCEPT !.sel = @ \ {t}]
  BY DEF Polled
<1> HIDE DEF M, r
<1>5. ~ r => /\ "EOF" \notin pipe[c.end].state /\ "EOF" \notin pipe[other(c.end)].state
             /\ closing[other(c.end)] # "freed"
             /\ "POLLIN" \in c.ev => pipe[c.end].cnt = 0
             /\ "POLLOUT" \in c.ev => space(pipe[other(c.end)]) < PIPE_BUF
  <2> SUFFICES ASSUME ~ r
               PROVE  /\ "EOF" \notin pipe[c.end].state /\ "EOF" \notin pipe[other(c.end)].state
                      /\ closing[other(c.end)] # "freed"
                      /\ "POLLIN" \in c.ev => pipe[c.end].cnt = 0
                      /\ "POLLOUT" \in c.ev => space(pipe[other(c.end)]) < PIPE_BUF
    OBVIOUS
  <2>1. /\ "EOF" \notin pipe[c.end].state /\ ~ peereof(pipe[c.end])
        /\ "POLLIN" \in c.ev => ~ (pipe[c.end].cnt > 0)
        /\ "POLLOUT" \in c.ev => ~ (space(pipe[pipe[c.end].peer]) >= PIPE_BUF)
    BY DEF r, Revents
  <2>2. /\ pipe[c.end].peer = other(c.end) /\ closing[other(c.end)] # "freed"
        /\ "EOF" \notin pipe[other(c.end)].state
    <3>1. pipe[c.end].peer = IF closing[other(c.end)] = "freed" THEN NULL ELSE other(c.end)
      BY <1>1 DEF IInv, End
    <3>2. pipe[c.end].peer # NULL
      BY <2>1 DEF peereof
    <3>3. pipe[c.end].peer = other(c.end) /\ closing[other(c.end)] # "freed"
      BY <3>1, <3>2
    <3>4. "EOF" \notin pipe[other(c.end)].state
      <4> HIDE DEF other
      <4> QED BY <1>1, <2>1, <3>3 DEF peereof
    <3> QED BY <3>3, <3>4
  <2>3. /\ pipe[c.end].cnt \in Nat /\ space(pipe[other(c.end)]) \in Int
    <3>1. pipe[c.end] \in PipeType /\ pipe[other(c.end)] \in PipeType
      BY <1>1 DEF IInv, TypeOK
    <3> QED BY <3>1, Counters
  <2> HIDE DEF other
  <2>4. "POLLIN" \in c.ev => pipe[c.end].cnt = 0
    BY <2>1, <2>3
  <2>5. "POLLOUT" \in c.ev => space(pipe[other(c.end)]) < PIPE_BUF
    BY <2>1, <2>2, <2>3, Numbers
  <2> QED BY <2>1, <2>2, <2>4, <2>5
<1>6. ASSUME NEW e \in Ends
      PROVE  LET P == pipe[e]
                 Q == pipe'[e] IN
             /\ Q.cnt = P.cnt /\ Q.size = P.size /\ Q.busy = P.busy /\ Q.sleepers = P.sleepers
             /\ Q.notes = P.notes /\ Q.active = P.active
             /\ \/ Q.sel \subseteq P.sel \ {t} /\ Q.state = P.state
                \/ /\ Q.sel = P.sel \cup {t} /\ Q.state = P.state \cup {"SEL"}
                   /\ "EOF" \notin P.state /\ closing[e] # "freed" /\ closing[other(e)] # "freed"
                   /\ M.pc = "selwait"
                   /\ IF M.call.end = e THEN P.cnt = 0 ELSE space(P) < PIPE_BUF
  <2>1. pipe[e] \in PipeType
    BY DEF IInv, TypeOK
  <2>2. CASE ~ (~ r /\ e \in selrecord(c.end, c.ev))
    <3>1. pipe'[e] = [pipe[e] EXCEPT !.sel = @ \ {t}]
      BY <1>4, <2>2
    <3> QED BY <2>1, <3>1 DEF PipeType
  <2>3. CASE ~ r /\ e \in selrecord(c.end, c.ev)
    <3> DEFINE F == flag(pipe[e], {"SEL"})
               Q == [F EXCEPT !.sel = @ \cup {t}]
    <3>1. pipe'[e] = Q
      BY <1>4, <2>3
    <3>2. /\ F \in PipeType /\ F.cnt = pipe[e].cnt /\ F.size = pipe[e].size
          /\ F.busy = pipe[e].busy /\ F.sleepers = pipe[e].sleepers
          /\ F.notes = pipe[e].notes /\ F.active = pipe[e].active /\ F.sel = pipe[e].sel
          /\ F.state = pipe[e].state \cup {"SEL"}
      BY <2>1 DEF flag, PipeType, Flags
    <3> HIDE DEF F
    <3>3. /\ Q.cnt = pipe[e].cnt /\ Q.size = pipe[e].size
          /\ Q.busy = pipe[e].busy /\ Q.sleepers = pipe[e].sleepers
          /\ Q.notes = pipe[e].notes /\ Q.active = pipe[e].active
          /\ Q.sel = pipe[e].sel \cup {t} /\ Q.state = pipe[e].state \cup {"SEL"}
      BY <3>2 DEF PipeType
    <3> HIDE DEF Q
    <3>4. M.pc = "selwait" /\ M.call.end = c.end
      BY <1>3, <2>3
    <3>5. CASE e = c.end
      <4>1. "POLLIN" \in c.ev
        BY <2>3, <3>5 DEF selrecord
      <4> HIDE DEF other
      <4> QED BY <1>5, <2>3, <3>1, <3>3, <3>4, <3>5, <4>1
    <3>6. CASE e # c.end
      <4>1. "POLLOUT" \in c.ev /\ e = other(c.end) /\ other(e) = c.end
        BY <1>1, <2>3, <3>6 DEF selrecord
      <4> HIDE DEF other
      <4> QED BY <1>5, <2>3, <3>1, <3>3, <3>4, <3>6, <4>1
    <3> QED BY <3>5, <3>6
  <2> QED BY <2>2, <2>3
<1>7. M.pc \in Out
  BY <1>3 DEF Out, Away
<1>8. PollChange(t, M)
  <2> HIDE DEF pc, other
  <2> QED BY <1>2, <1>6, <1>7 DEF PollChange
<1> QED BY <1>8

LEMMA Poll_pipe_poll ==
  ASSUME IInv, WInv, NEW t \in Threads, pipe_poll(t) \/ pipe_poll_woken(t)
  PROVE  \E M : PollChange(t, M)
<1>1. CASE pipe_poll(t)
  <2>1. PICK c \in Calls[t] : th[t].pc = "user" /\ closing[c.end] = "open" /\ Polled(t, c)
    BY <1>1 DEF pipe_poll, Usable
  <2>2. c \in Call
    BY PipeAssumption
  <2> QED BY <2>1, <2>2, PolledFaith DEF Out
<1>2. CASE pipe_poll_woken(t)
  <2>1. /\ th[t].pc = "selwait"
        /\ \/ closing[th[t].call.end] = "open" /\ Polled(t, th[t].call)
           \/ pipe_poll_ends(t)
    BY <1>2 DEF pipe_poll_woken, Usable
  <2>2. th[t].call \in Call
    BY <2>1, LocalFacts
  <2> QED BY <2>1, <2>2, PolledFaith, Poll_pipe_poll_ends DEF Out, Away
<1> QED BY <1>1, <1>2

(* The knotes of the pipe of end e change, and nothing else. *)
NotesStep(e, Q) ==
    LET P == pipe[e]
    IN  /\ th' = th /\ closing' = closing /\ pipe' = [pipe EXCEPT ![e] = Q]
        /\ Q.cnt = P.cnt /\ Q.size = P.size /\ Q.busy = P.busy /\ Q.sleepers = P.sleepers
        /\ Q.sel = P.sel /\ Q.state = P.state
        /\ closing[e] = "freed" => Q.notes = {}
        /\ Knotes(e)'

(* Who waits for data or space depends on the ring and on the threads. *)
LEMMA SameWaits ==
  ASSUME th' = th, NEW e \in Ends, pipe'[e].cnt = pipe[e].cnt, pipe'[e].size = pipe[e].size
  PROVE  /\ NoData(e)' <=> NoData(e)
         /\ NoSpace(e)' <=> NoSpace(e)
         /\ NoRoom(e)' <=> NoRoom(e)
  BY DEF NoData, NoSpace, NoRoom, Filling, Draining, space

LEMMA NotesFaith ==
  ASSUME TypeOK, WInv, NEW e \in Ends, NEW Q, NotesStep(e, Q)
  PROVE  WInv'
<1>1. /\ th' = th /\ closing' = closing
      /\ pipe'[e] = Q /\ \A f \in Ends \ {e} : pipe'[f] = pipe[f]
  BY DEF TypeOK, NotesStep
<1> SUFFICES ASSUME NEW f \in Ends PROVE Awaits(f)'
  BY DEF WInv
<1>2. /\ pipe'[f].cnt = pipe[f].cnt /\ pipe'[f].size = pipe[f].size /\ pipe'[f].busy = pipe[f].busy
      /\ pipe'[f].sleepers = pipe[f].sleepers /\ pipe'[f].sel = pipe[f].sel
      /\ pipe'[f].state = pipe[f].state /\ Awaits(f)
  BY <1>1 DEF NotesStep, WInv
<1>3. /\ NoData(f)' <=> NoData(f)
      /\ NoSpace(f)' <=> NoSpace(f)
      /\ NoRoom(f)' <=> NoRoom(f)
  BY <1>1, <1>2, SameWaits
<1>4. \A u \in Threads : u \in pipe'[f].sleepers => Sleeper(u, f)'
  BY <1>1, <1>2, <1>3 DEF Awaits, Sleeper, Locked
<1>5. \A u \in pipe'[f].sel : Poller(u, f)'
  BY <1>1, <1>2, <1>3 DEF Awaits, Poller
<1>6. Closer(f)' /\ Pollers(f)'
  BY <1>1, <1>2 DEF Awaits, Closer, Pollers
<1>7. Knotes(f)'
  <2>1. CASE f = e
    BY <2>1 DEF NotesStep
  <2>2. CASE f # e
    <3>1. pipe'[f] = pipe[f]
      BY <1>1, <2>2
    <3> QED BY <1>1, <1>2, <1>3, <3>1 DEF Awaits, Knotes
  <2> QED BY <2>1, <2>2
<1>8. Eof(f)'
  <2>1. CASE f = e
    BY <1>1, <1>2, <2>1 DEF Awaits, Eof, NotesStep
  <2>2. CASE f # e
    BY <1>1, <1>2, <2>2 DEF Awaits, Eof
  <2> QED BY <2>1, <2>2
<1> QED BY <1>4, <1>5, <1>6, <1>7, <1>8 DEF Awaits

(* A filter that does not hold: its event is still to come. *)
LEMMA FilterIs ==
  ASSUME IInv, NEW e \in Ends, closing[e] # "freed", NEW f,
         ~ filt_pipe(pipe[e], f, peereof(pipe[e]))
  PROVE  /\ f = "EVFILT_READ" => /\ "EOF" \notin pipe[e].state /\ closing[other(e)] # "freed"
                                 /\ pipe[e].cnt = 0
         /\ f = "EVFILT_WRITE" => space(pipe[e]) < PIPE_BUF
<1>1. pipe[e].peer = IF closing[other(e)] = "freed" THEN NULL ELSE other(e)
  BY DEF IInv, End
<1>2. pipe[e].cnt \in Nat /\ space(pipe[e]) \in Int
  <2>1. pipe[e] \in PipeType
    BY DEF IInv, TypeOK
  <2> QED BY <2>1, Counters
<1>3. pipe[e].peer = NULL => peereof(pipe[e])
  BY DEF peereof
<1> QED BY <1>1, <1>2, <1>3, Numbers DEF filt_pipe

LEMMA Kn_pipe_kqfilter ==
  ASSUME IInv, WInv, NEW n \in Notes, pipe_kqfilter(n)
  PROVE  \E e \in Ends : \E Q : NotesStep(e, Q)
<1>a. PICK e \in Ends : e = notepipe(n)
  BY NotepipeIs DEF pipe_kqfilter
<1> DEFINE f == n[2]
           P == [pipe[e] EXCEPT !.notes = @ \cup {f}]
           X == {g \in {f} : filt_pipe(P, g, peereof(P))}
           Q == [P EXCEPT !.active = @ \cup X]
<1>1. e \in Ends /\ n[1] \in Ends /\ f \in {"EVFILT_READ", "EVFILT_WRITE"} /\ closing[n[1]] = "open"
      /\ n = <<n[1], f>>
  <2>1. n = <<n[1], f>>
    BY PipeAssumption
  <2> QED BY <2>1, NotepipeIs DEF pipe_kqfilter, Usable, Filters
<1>2. pipe' = [pipe EXCEPT ![e] = Q] /\ th' = th /\ closing' = closing
  BY <1>a DEF pipe_kqfilter
<1>3. closing[e] # "freed" /\ (f = "EVFILT_READ" => e = n[1])
  <2>1. CASE f = "EVFILT_READ"
    BY <1>a, <1>1, <2>1 DEF notepipe
  <2>2. CASE f = "EVFILT_WRITE"
    <3>1. e = pipe[n[1]].peer
      BY <1>a, <2>2 DEF notepipe
    <3>2. pipe[n[1]].peer = IF closing[other(n[1])] = "freed" THEN NULL ELSE other(n[1])
      BY <1>1 DEF IInv, End
    <3>3. e # NULL
      BY <1>1 DEF Ends, NULL
    <3> QED BY <2>2, <3>1, <3>2, <3>3
  <2> QED BY <1>1, <2>1, <2>2
<1>4. pipe[e] \in PipeType /\ pipe \in [Ends -> PipeType]
  BY <1>1 DEF IInv, TypeOK
<1>5. /\ P \in PipeType /\ P.cnt = pipe[e].cnt /\ P.size = pipe[e].size /\ P.busy = pipe[e].busy
      /\ P.sleepers = pipe[e].sleepers /\ P.sel = pipe[e].sel /\ P.state = pipe[e].state
      /\ P.peer = pipe[e].peer /\ P.notes = pipe[e].notes \cup {f} /\ P.active = pipe[e].active
  BY <1>1, <1>4 DEF PipeType, Filters
<1>6. filt_pipe(P, f, peereof(P)) <=> filt_pipe(pipe[e], f, peereof(pipe[e]))
  <2> HIDE DEF P
  <2>1. peereof(P) <=> peereof(pipe[e])
    BY <1>5 DEF peereof
  <2> QED BY <1>5, <2>1 DEF filt_pipe, space
<1> HIDE DEF P
<1>7. ~ filt_pipe(pipe[e], f, peereof(pipe[e])) \/ f \in X
  BY <1>6
<1> HIDE DEF X
<1>8. /\ Q.cnt = pipe[e].cnt /\ Q.size = pipe[e].size /\ Q.busy = pipe[e].busy
      /\ Q.sleepers = pipe[e].sleepers /\ Q.sel = pipe[e].sel /\ Q.state = pipe[e].state
      /\ Q.notes = pipe[e].notes \cup {f} /\ Q.active = pipe[e].active \cup X
  BY <1>5 DEF PipeType
<1> HIDE DEF Q
<1>9. Knotes(e)'
  <2>1. pipe'[e] = Q
    BY <1>1, <1>2, <1>4
  <2>2. Knotes(e)
    BY <1>1 DEF WInv, Awaits
  <2>3. (NoData(e)' <=> NoData(e)) /\ (NoRoom(e)' <=> NoRoom(e))
    BY <1>1, <1>2, <1>8, <2>1, SameWaits
  <2>4. f \notin X => /\ f = "EVFILT_READ" => /\ "EOF" \notin pipe[e].state
                                              /\ closing[other(e)] # "freed" /\ NoData(e)
                      /\ f = "EVFILT_WRITE" => NoRoom(e)
    BY <1>1, <1>3, <1>7, FilterIs DEF NoData, NoRoom
  <2>5. "EVFILT_READ" \in Q.notes => <<e, "EVFILT_READ">> \in Notes
    <3>1. CASE f = "EVFILT_READ"
      BY <1>1, <1>3, <3>1
    <3>2. CASE f # "EVFILT_READ"
      BY <1>8, <2>2, <3>2 DEF Knotes
    <3> QED BY <3>1, <3>2
  <2>6. "EVFILT_READ" \in Q.notes \ Q.active =>
          "EOF" \notin Q.state /\ closing[other(e)] # "freed" /\ NoData(e)
    <3>1. CASE f = "EVFILT_READ"
      BY <1>8, <2>4, <3>1
    <3>2. CASE f # "EVFILT_READ"
      BY <1>8, <2>2, <3>2 DEF Knotes
    <3> QED BY <3>1, <3>2
  <2>7. "EVFILT_WRITE" \in Q.notes \ Q.active => "EOF" \in Q.state \/ NoRoom(e)
    <3>1. CASE f = "EVFILT_WRITE"
      BY <1>8, <2>4, <3>1
    <3>2. CASE f # "EVFILT_WRITE"
      BY <1>8, <2>2, <3>2 DEF Knotes
    <3> QED BY <3>1, <3>2
  <2> QED BY <1>2, <2>1, <2>3, <2>5, <2>6, <2>7 DEF Knotes
<1>10. NotesStep(e, Q)
  BY <1>2, <1>3, <1>8, <1>9 DEF NotesStep
<1> QED BY <1>1, <1>10

LEMMA Kn_filt_pipedetach ==
  ASSUME IInv, WInv, NEW n \in Notes, filt_pipedetach(n)
  PROVE  \E e \in Ends : \E Q : NotesStep(e, Q)
<1>1. PICK e \in Ends : e = notepipe(n)
  BY NotepipeIs DEF filt_pipedetach, attached
<1> DEFINE N == pipe[e].notes \ {n[2]}
           A == pipe[e].active \ {n[2]}
           Q == [pipe[e] EXCEPT !.notes = N, !.active = A]
<1>2. pipe[e] \in PipeType /\ pipe \in [Ends -> PipeType]
  BY <1>1 DEF IInv, TypeOK
<1>3. /\ pipe' = [pipe EXCEPT ![e].notes = @ \ {n[2]}, ![e].active = @ \ {n[2]}]
      /\ th' = th /\ closing' = closing
  BY <1>1 DEF filt_pipedetach
<1>4. pipe' = [pipe EXCEPT ![e] = Q]
  BY <1>1, <1>2, <1>3 DEF PipeType
<1>5. /\ Q.cnt = pipe[e].cnt /\ Q.size = pipe[e].size /\ Q.busy = pipe[e].busy
      /\ Q.sleepers = pipe[e].sleepers /\ Q.sel = pipe[e].sel /\ Q.state = pipe[e].state
      /\ Q.notes = pipe[e].notes \ {n[2]} /\ Q.active = pipe[e].active \ {n[2]}
  BY <1>2 DEF PipeType
<1> HIDE DEF Q
<1>6. Knotes(e) /\ Eof(e) /\ pipe'[e] = Q
  BY <1>1, <1>2, <1>4 DEF WInv, Awaits
<1>7. (NoData(e)' <=> NoData(e)) /\ (NoRoom(e)' <=> NoRoom(e))
  BY <1>1, <1>3, <1>5, <1>6, SameWaits
<1>8. Knotes(e)'
  BY <1>3, <1>5, <1>6, <1>7 DEF Knotes
<1>9. NotesStep(e, Q)
  BY <1>3, <1>4, <1>5, <1>6, <1>8 DEF NotesStep, Eof
<1> QED BY <1>1, <1>9

LEMMA Kn_kqueue_scan ==
  ASSUME IInv, WInv, kqueue_scan
  PROVE  \E e \in Ends : \E Q : NotesStep(e, Q)
<1>a. PICK e \in Ends : \E f \in pipe[e].active :
        /\ ~ filt_pipe(pipe[e], f, peereof(pipe[e]))
        /\ pipe' = [pipe EXCEPT ![e].active = @ \ {f}] /\ th' = th /\ closing' = closing
  BY DEF kqueue_scan
<1>1. PICK f \in pipe[e].active :
        /\ ~ filt_pipe(pipe[e], f, peereof(pipe[e]))
        /\ pipe' = [pipe EXCEPT ![e].active = @ \ {f}] /\ th' = th /\ closing' = closing
  BY <1>a
<1> DEFINE Q == [pipe[e] EXCEPT !.active = @ \ {f}]
<1>2. pipe[e] \in PipeType /\ pipe \in [Ends -> PipeType]
  BY DEF IInv, TypeOK
<1>3. pipe' = [pipe EXCEPT ![e] = Q]
  BY <1>1
<1>4. /\ Q.cnt = pipe[e].cnt /\ Q.size = pipe[e].size /\ Q.busy = pipe[e].busy
      /\ Q.sleepers = pipe[e].sleepers /\ Q.sel = pipe[e].sel /\ Q.state = pipe[e].state
      /\ Q.notes = pipe[e].notes /\ Q.active = pipe[e].active \ {f}
  BY <1>2 DEF PipeType
<1> HIDE DEF Q
<1>5. Knotes(e) /\ Eof(e) /\ pipe'[e] = Q
  BY <1>2, <1>3 DEF WInv, Awaits
<1>6. (NoData(e)' <=> NoData(e)) /\ (NoRoom(e)' <=> NoRoom(e))
  BY <1>1, <1>4, <1>5, SameWaits
<1>7. Knotes(e)'
  <2>1. CASE closing[e] = "freed"
    BY <1>1, <1>4, <1>5, <2>1 DEF Knotes, Eof
  <2>2. CASE closing[e] # "freed"
    <3>1. /\ f = "EVFILT_READ" => /\ "EOF" \notin pipe[e].state /\ closing[other(e)] # "freed"
                                  /\ NoData(e)
          /\ f = "EVFILT_WRITE" => NoRoom(e)
      BY <1>1, <2>2, FilterIs DEF NoData, NoRoom
    <3> QED BY <1>1, <1>4, <1>5, <1>6, <3>1 DEF Knotes
  <2> QED BY <2>1, <2>2
<1>8. NotesStep(e, Q)
  BY <1>1, <1>3, <1>4, <1>5, <1>7 DEF NotesStep, Eof
<1> QED BY <1>8

(* pipeclose() sleeps: it has told all who wait at its end, and will tell  *)
(* those at the other end.                                                 *)
Parks(e, Q) ==
    LET P == pipe[e]
    IN  /\ th' = th /\ pipe' = [pipe EXCEPT ![e] = Q]
        /\ closing[e] # "freed" /\ closing' = [closing EXCEPT ![e] = "asleep"]
        /\ Q.cnt = P.cnt /\ Q.size = P.size /\ 0 < Q.busy /\ Q.sleepers = {e} /\ Q.sel = {}
        /\ {"WANT", "EOF"} \subseteq Q.state
        /\ Q.notes = P.notes /\ ("EVFILT_READ" \in Q.notes => "EVFILT_READ" \in Q.active)

(* pipeclose() frees the pipe, and tells those at the other end. *)
Buries(e) ==
    LET f == other(e)
        P == pipe[f]
        Q == pipe'[f]
    IN  /\ th' = th /\ closing' = [closing EXCEPT ![e] = "freed"]
        /\ pipe'[e].sleepers = {} /\ pipe'[e].sel = {} /\ pipe'[e].notes = {} /\ pipe'[e].state = {}
        /\ \/ closing[f] = "freed" /\ Q = P
           \/ /\ closing[f] # "freed" /\ Q.size = P.size /\ Q.sleepers = {} /\ Q.sel = {}
              /\ "EOF" \in Q.state
              /\ Q.notes = P.notes /\ ("EVFILT_READ" \in Q.notes => "EVFILT_READ" \in Q.active)

LEMMA ParksFaith ==
  ASSUME TypeOK, WInv, NEW e \in Ends, NEW Q, Parks(e, Q)
  PROVE  WInv'
<1> DEFINE f == other(e)
<1>1. f \in Ends /\ f # e /\ Ends = {e, f} /\ other(f) = e
  BY DEF other, Ends
<1>2. /\ th' = th /\ closing'[e] = "asleep" /\ closing'[f] = closing[f]
      /\ pipe'[e] = Q /\ pipe'[f] = pipe[f] /\ closing[e] # "freed"
  BY <1>1 DEF TypeOK, Parks
<1> HIDE DEF f
<1>3. Awaits(e) /\ Awaits(f)
  BY <1>1 DEF WInv
<1>4. Awaits(e)'
  <2>1. \A t \in Threads : t \notin Q.sleepers
    BY PipeAssumption DEF Parks
  <2>2. \A t \in Q.sel : Poller(t, e)'
    BY DEF Parks
  <2>3. Closer(e)' /\ Pollers(e)'
    BY <1>2 DEF Closer, Pollers, Parks
  <2>4. Knotes(e)'
    BY <1>2, <1>3 DEF Knotes, Parks, Awaits
  <2>5. Eof(e)'
    BY <1>2, <1>3 DEF Eof, Parks, Awaits
  <2> QED BY <1>2, <2>1, <2>2, <2>3, <2>4, <2>5 DEF Awaits
<1>5. Awaits(f)'
  <2>1. /\ NoData(f)' <=> NoData(f)
        /\ NoSpace(f)' <=> NoSpace(f)
        /\ NoRoom(f)' <=> NoRoom(f)
    BY <1>1, <1>2, SameWaits
  <2>2. \A t \in Threads : t \in pipe'[f].sleepers => Sleeper(t, f)'
    BY <1>2, <1>3, <2>1 DEF Awaits, Sleeper
  <2>3. \A t \in pipe'[f].sel : Poller(t, f)'
    BY <1>2, <1>3, <2>1 DEF Awaits, Poller
  <2>4. Closer(f)' /\ Pollers(f)'
    BY <1>1, <1>2, <1>3 DEF Awaits, Closer, Pollers
  <2>5. Knotes(f)'
    BY <1>1, <1>2, <1>3, <2>1 DEF Awaits, Knotes
  <2>6. Eof(f)'
    BY <1>1, <1>2, <1>3 DEF Awaits, Eof
  <2> QED BY <2>2, <2>3, <2>4, <2>5, <2>6 DEF Awaits
<1> QED BY <1>1, <1>4, <1>5 DEF WInv

LEMMA BuriesFaith ==
  ASSUME TypeOK, WInv, NEW e \in Ends, Buries(e)
  PROVE  WInv'
<1> DEFINE f == other(e)
           P == pipe[f]
           Q == pipe'[f]
<1>1. f \in Ends /\ f # e /\ Ends = {e, f} /\ other(f) = e
  BY DEF other, Ends
<1>2. /\ th' = th /\ closing'[e] = "freed" /\ closing'[f] = closing[f]
      /\ pipe'[e].sleepers = {} /\ pipe'[e].sel = {} /\ pipe'[e].notes = {} /\ pipe'[e].state = {}
      /\ \/ closing[f] = "freed" /\ Q = P
         \/ /\ closing[f] # "freed" /\ Q.size = P.size /\ Q.sleepers = {} /\ Q.sel = {}
            /\ "EOF" \in Q.state
            /\ Q.notes = P.notes /\ ("EVFILT_READ" \in Q.notes => "EVFILT_READ" \in Q.active)
  BY <1>1 DEF TypeOK, Buries
<1> HIDE DEF f
<1>3. Awaits(f)
  BY <1>1 DEF WInv
<1>4. Awaits(e)'
  BY <1>2 DEF Awaits, Closer, Pollers, Knotes, Eof
<1>5. Awaits(f)'
  <2>1. CASE closing[f] = "freed"
    <3>1. Q = P
      BY <1>2, <2>1
    <3>2. NoData(f)' <=> NoData(f)
      BY <1>1, <1>2, <3>1, SameWaits
    <3>3. NoSpace(f)' <=> NoSpace(f)
      BY <1>1, <1>2, <3>1, SameWaits
    <3>4. \A t \in Threads : t \in Q.sleepers => Sleeper(t, f)'
      BY <1>2, <1>3, <3>1, <3>2, <3>3 DEF Awaits, Sleeper
    <3>5. P.sel = {} /\ P.notes = {}
      BY <1>3, <2>1 DEF Awaits, Pollers, Eof
    <3>6. Closer(f)' /\ Pollers(f)' /\ Knotes(f)' /\ Eof(f)'
      BY <1>1, <1>2, <2>1, <3>1, <3>5 DEF Closer, Pollers, Knotes, Eof
    <3> QED BY <3>1, <3>4, <3>5, <3>6 DEF Awaits
  <2>2. CASE closing[f] # "freed"
    BY <1>1, <1>2, <1>3, <2>2 DEF Awaits, Closer, Pollers, Knotes, Eof
  <2> QED BY <2>1, <2>2
<1> QED BY <1>1, <1>4, <1>5 DEF WInv

LEMMA CloseLoopFaith ==
  ASSUME IInv, WInv, NEW e \in Ends, closing[e] # "freed", NEW P \in PipeType, Alike(pipe[e], P),
         P.sel = {}, "EOF" \in P.state, P.notes = pipe[e].notes,
         "EVFILT_READ" \in P.notes => "EVFILT_READ" \in P.active,
         CloseLoop(e, P), th' = th
  PROVE  WInv'
<1>1. /\ pipe \in [Ends -> PipeType] /\ P.busy \in Nat /\ P.cnt = pipe[e].cnt
      /\ P.size = pipe[e].size /\ P.peer = pipe[e].peer /\ TypeOK
  BY DEF IInv, TypeOK, Alike, Kept, PipeType
<1>2. CASE P.busy > 0
  <2> DEFINE W == wakeup(P)
             F == flag(W, {"WANT"})
             Q == tsleep(F, e)
  <2>1. pipe' = [pipe EXCEPT ![e] = Q] /\ closing' = [closing EXCEPT ![e] = "asleep"]
    BY <1>2 DEF CloseLoop
  <2>2. /\ W \in PipeType /\ W.cnt = P.cnt /\ W.size = P.size /\ W.busy = P.busy
        /\ W.sleepers = {} /\ W.sel = {} /\ W.state = P.state /\ W.notes = P.notes
        /\ W.active = P.active
    BY DEF wakeup, PipeType
  <2> HIDE DEF W
  <2>3. /\ F \in PipeType /\ F.cnt = P.cnt /\ F.size = P.size /\ F.busy = P.busy
        /\ F.sleepers = {} /\ F.sel = {} /\ F.state = P.state \cup {"WANT"} /\ F.notes = P.notes
        /\ F.active = P.active
    BY <2>2 DEF flag, PipeType, Flags
  <2> HIDE DEF F
  <2>4. /\ Q.cnt = P.cnt /\ Q.size = P.size /\ Q.busy = P.busy
        /\ Q.sleepers = {e} /\ Q.sel = {} /\ Q.state = P.state \cup {"WANT"} /\ Q.notes = P.notes
        /\ Q.active = P.active
    BY <2>3 DEF tsleep, PipeType
  <2> HIDE DEF Q
  <2>5. Parks(e, Q)
    BY <1>1, <1>2, <2>1, <2>4 DEF Parks
  <2> QED BY <1>1, <2>5, ParksFaith
<1>3. CASE P.busy = 0
  <2> DEFINE C == pipe_create(e)
             D == [C EXCEPT !.peer = NULL]
             E == pipespace(D, 0)
             f == other(e)
             S == selwake(pipe[f], TRUE)
             F == flag(S, {"EOF"})
             W == wakeup(F)
             N == [W EXCEPT !.peer = NULL]
  <2>1. f \in Ends /\ f # e /\ Ends = {e, f} /\ f # NULL
    BY DEF other, Ends, NULL
  <2>2. P.peer = IF closing[f] = "freed" THEN NULL ELSE f
    BY <1>1 DEF IInv, End
  <2>3. closing' = [closing EXCEPT ![e] = "freed"] /\ pipe'[e] = E
        /\ pipe'[f] = IF closing[f] = "freed" THEN pipe[f] ELSE N
    <3> DEFINE NN == [wakeup(flag(selwake(pipe[P.peer], TRUE), {"EOF"})) EXCEPT !.peer = NULL]
    <3>1. ~ (P.busy > 0)
      BY <1>3
    <3>2. /\ pipe' = [g \in Ends |-> IF g = e THEN E ELSE IF g = P.peer THEN NN ELSE pipe[g]]
          /\ closing' = [closing EXCEPT ![e] = "freed"]
      BY <3>1, Zenon DEF CloseLoop
    <3>3. P.peer = f => NN = N
      OBVIOUS
    <3> HIDE DEF E, f, N, NN
    <3> QED BY <2>1, <2>2, <3>2, <3>3
  <2>4. E.sleepers = {} /\ E.sel = {} /\ E.notes = {} /\ E.state = {}
    <3>1. C \in PipeType /\ C.state = {}
      BY CreateRing
    <3>2. C.sleepers = {} /\ C.sel = {} /\ C.notes = {}
      BY DEF pipe_create
    <3> HIDE DEF C
    <3>3. D \in PipeType /\ D.sleepers = {} /\ D.sel = {} /\ D.notes = {} /\ D.state = {}
      BY <3>1, <3>2 DEF PipeType
    <3> HIDE DEF D
    <3> QED BY <3>3 DEF pipespace, PipeType
  <2>5. /\ S \in PipeType /\ S.size = pipe[f].size /\ S.notes = pipe[f].notes /\ S.sel = {}
        /\ "EVFILT_READ" \in S.notes => "EVFILT_READ" \in S.active
    <3>1. pipe[f] \in PipeType /\ Pollers(f)
      BY <1>1, <2>1 DEF WInv, Awaits
    <3>2. /\ Alike(pipe[f], S) /\ Calm(e, pipe[f], S) /\ S.state = pipe[f].state \ {"SEL"}
          /\ \A g : filt_pipe(pipe[f], g, TRUE) => Told(S, g)
      BY <3>1, SelwakeAlike, SelwakeCalm
    <3>3. filt_pipe(pipe[f], "EVFILT_READ", TRUE)
      BY DEF filt_pipe
    <3> HIDE DEF S, f
    <3> QED BY <3>1, <3>2, <3>3 DEF Told, Calm, Alike, Kept, Pollers
  <2> HIDE DEF S
  <2>6. /\ F \in PipeType /\ F.size = pipe[f].size /\ F.notes = pipe[f].notes /\ F.sel = {}
        /\ F.active = S.active /\ "EOF" \in F.state
    BY <2>5 DEF flag, PipeType, Flags
  <2> HIDE DEF F
  <2>7. /\ W \in PipeType /\ W.size = pipe[f].size /\ W.notes = pipe[f].notes /\ W.sel = {}
        /\ W.active = S.active /\ "EOF" \in W.state /\ W.sleepers = {}
    BY <2>6 DEF wakeup, PipeType
  <2> HIDE DEF W
  <2>8. /\ N.size = pipe[f].size /\ N.notes = pipe[f].notes /\ N.sel = {}
        /\ N.active = S.active /\ "EOF" \in N.state /\ N.sleepers = {}
    BY <2>7 DEF PipeType
  <2> HIDE DEF N, E
  <2>9. Buries(e)
    BY <2>3, <2>4, <2>5, <2>8 DEF Buries
  <2> QED BY <1>1, <2>9, BuriesFaith
<1> QED BY <1>1, <1>2, <1>3

LEMMA CloseFaith ==
  ASSUME IInv, WInv, NEW e \in Ends, pipe_close(e) \/ pipeclose_woken(e)
  PROVE  WInv'
<1>1. pipe[e] \in PipeType /\ Alike(pipe[e], pipe[e]) /\ Awaits(e)
  BY AlikeSelf DEF WInv
<1>2. CASE pipe_close(e)
  <2> DEFINE S == pipeselwakeup(pipe[e])
             P == flag(S, {"EOF"})
  <2>1. CloseLoop(e, P) /\ th' = th /\ closing[e] = "open"
    BY <1>2 DEF pipe_close, Usable
  <2>2. "EVFILT_READ" \notin pipe[e].notes
    <3>1. SUFFICES ASSUME "EVFILT_READ" \in pipe[e].notes PROVE FALSE
      OBVIOUS
    <3>2. <<e, "EVFILT_READ">> \in Notes
      BY <1>1, <3>1 DEF Awaits, Knotes
    <3>3. attached(<<e, "EVFILT_READ">>)
      BY <3>1 DEF attached, notepipe, Ends, NULL
    <3> QED BY <1>2, <3>2, <3>3 DEF pipe_close
  <2>3. /\ Alike(pipe[e], S) /\ S \in PipeType /\ S.sel = {} /\ S.notes = pipe[e].notes
    <3>1. Alike(pipe[e], S) /\ Calm(e, pipe[e], S) /\ S.state = pipe[e].state \ {"SEL"}
      BY <1>1, SelwakeAlike, SelwakeCalm DEF pipeselwakeup
    <3> HIDE DEF S
    <3> QED BY <1>1, <3>1 DEF Alike, Kept, Calm, Awaits, Pollers
  <2> HIDE DEF S
  <2>4. Alike(S, P)
    BY <2>3, FlagAlike DEF Flags
  <2>5. Alike(pipe[e], P) /\ P \in PipeType
    BY <2>3, <2>4, AlikeTrans DEF Alike, Kept
  <2>6. P.sel = {} /\ P.notes = pipe[e].notes /\ "EOF" \in P.state
    BY <2>3 DEF flag, PipeType
  <2> HIDE DEF P
  <2> QED BY <2>1, <2>2, <2>5, <2>6, CloseLoopFaith
<1>3. CASE pipeclose_woken(e)
  <2>1. closing[e] = "asleep" /\ CloseLoop(e, pipe[e]) /\ th' = th
    BY <1>3 DEF pipeclose_woken
  <2>2. "EOF" \in pipe[e].state
    BY <1>1, <2>1 DEF Awaits, Eof
  <2>3. pipe[e].sel = {} /\ ("EVFILT_READ" \in pipe[e].notes => "EVFILT_READ" \in pipe[e].active)
    BY <1>1, <2>2 DEF Awaits, Pollers, Knotes
  <2> QED BY <1>1, <2>1, <2>2, <2>3, CloseLoopFaith
<1> QED BY <1>2, <1>3

(* Nobody waits on a new pipe. *)
LEMMA CreatedFaith ==
  ASSUME pipe = [e \in Ends |-> pipe_create(e)], closing = [e \in Ends |-> "open"]
  PROVE  WInv
<1> SUFFICES ASSUME NEW e \in Ends PROVE Awaits(e)
  BY DEF WInv
<1>1. /\ pipe[e].state = {} /\ pipe[e].sleepers = {} /\ pipe[e].sel = {} /\ pipe[e].notes = {}
      /\ pipe[e].size = PIPE_SIZE /\ closing[e] = "open"
  BY DEF pipe_create
<1>2. PIPE_SIZE <= pipe[e].size
  BY <1>1, PipeAssumption
<1> QED BY <1>1, <1>2 DEF Awaits, Closer, Pollers, Knotes, Eof

LEMMA StutterFaith ==
  ASSUME WInv, UNCHANGED vars
  PROVE  WInv'
<1>1. pipe' = pipe /\ th' = th /\ closing' = closing
  BY DEF vars
<1> SUFFICES ASSUME NEW e \in Ends PROVE Awaits(e)'
  BY DEF WInv
<1>2. Awaits(e)
  BY DEF WInv
<1>3. /\ NoData(e)' <=> NoData(e)
      /\ NoSpace(e)' <=> NoSpace(e)
      /\ NoRoom(e)' <=> NoRoom(e)
  BY <1>1, SameWaits
<1>4. \A t \in Threads : t \in pipe'[e].sleepers => Sleeper(t, e)'
  BY <1>1, <1>2, <1>3 DEF Awaits, Sleeper
<1>5. \A t \in pipe'[e].sel : Poller(t, e)'
  BY <1>1, <1>2, <1>3 DEF Awaits, Poller
<1>6. Closer(e)' /\ Pollers(e)' /\ Eof(e)'
  BY <1>1, <1>2 DEF Awaits, Closer, Pollers, Eof
<1>7. Knotes(e)'
  BY <1>1, <1>2, <1>3 DEF Awaits, Knotes
<1> QED BY <1>4, <1>5, <1>6, <1>7 DEF Awaits

LEMMA dopipeFaith ==
  ASSUME dopipe
  PROVE  WInv'
<1>1. pipe' = [e \in Ends |-> pipe_create(e)] /\ closing' = [e \in Ends |-> "open"]
  BY DEF dopipe
<1> SUFFICES ASSUME NEW e \in Ends PROVE Awaits(e)'
  BY DEF WInv
<1>2. /\ pipe'[e].state = {} /\ pipe'[e].sleepers = {} /\ pipe'[e].sel = {} /\ pipe'[e].notes = {}
      /\ pipe'[e].size = PIPE_SIZE /\ closing'[e] = "open"
  BY <1>1 DEF pipe_create
<1>3. PIPE_SIZE <= pipe'[e].size
  BY <1>2, PipeAssumption
<1> QED BY <1>2, <1>3 DEF Awaits, Closer, Pollers, Knotes, Eof

LEMMA NextFaith ==
  ASSUME ~ LateResize, IInv, WInv, [Next]_vars
  PROVE  WInv'
<1>1. ASSUME NEW t \in Threads, ReadStep(t) \/ pipe_read(t) \/ pipe_read_caught(t)
      PROVE  Faithful(t)
  BY <1>1, Faithful_pipe_read, Faithful_pipe_read_locked, Faithful_pipe_read_moved,
     Faithful_pipe_read_woken, Faithful_pipe_read_caught DEF ReadStep
<1>2. ASSUME NEW t \in Threads, WriteStep(t) \/ pipe_write(t) \/ pipe_write_caught(t)
      PROVE  Faithful(t)
  BY <1>2, Faithful_pipe_write, Faithful_pipe_write_resize, Faithful_pipe_write_alloc,
     Faithful_pipe_write_locked, Faithful_pipe_write_moved, Faithful_pipe_write_woken,
     Faithful_pipe_write_caught DEF WriteStep
<1>3. ASSUME NEW t \in Threads, Faithful(t) PROVE WInv'
  <2>1. PICK e \in Ends : \E Q, M : KeepsFaith(t, e, Q, M)
    BY <1>3 DEF Faithful
  <2>2. PICK Q, M : KeepsFaith(t, e, Q, M)
    BY <2>1
  <2> QED BY <2>2, FaithInv DEF IInv
<1>4. ASSUME NEW t \in Threads,
             \/ pipe_poll_woken(t) \/ Return(t) \/ pipe_write_epipe(t)
             \/ pipe_poll(t) \/ pipe_poll_ends(t)
      PROVE  WInv'
  <2>1. PICK M : PollChange(t, M)
    BY <1>4, Poll_Return, Poll_pipe_poll, Poll_pipe_poll_ends
  <2> QED BY <2>1, PollFaith DEF IInv
<1>5. ASSUME (\E n \in Notes : pipe_kqfilter(n) \/ filt_pipedetach(n)) \/ kqueue_scan
      PROVE  WInv'
  <2>1. PICK e \in Ends : \E Q : NotesStep(e, Q)
    BY <1>5, Kn_pipe_kqfilter, Kn_filt_pipedetach, Kn_kqueue_scan
  <2>2. PICK Q : NotesStep(e, Q)
    BY <2>1
  <2> QED BY <2>2, NotesFaith DEF IInv
<1>6. ASSUME NEW e \in Ends, pipe_close(e) \/ pipeclose_woken(e) PROVE WInv'
  BY <1>6, CloseFaith
<1> QED BY <1>1, <1>2, <1>3, <1>4, <1>5, <1>6, dopipeFaith, StutterFaith DEF Next, Run

-----------------------------------------------------------------------------
(* Who moves, and who is told. *)

LEMMA MovingIs ==
  ASSUME NEW e \in Ends, ~ Moving(e)
  PROVE  ~ Filling(e) /\ ~ Draining(e)
  BY DEF Moving, Filling, Draining, Fills, Drains

LEMMA SleepersRight ==
  ASSUME IInv, WInv, NEW t \in Threads, th[t].pc \notin {"user", "return", "selwait"},
         t \in pipe[th[t].p].sleepers
  PROVE  LET P == pipe[th[t].p] IN
         \/ Moving(th[t].p) /\ (th[t].pc \in {"piperd", "pipewr"} \/ Locked(P))
         \/ th[t].pc = "piperd" /\ P.cnt = 0 /\ "EOF" \notin P.state
         \/ th[t].pc = "pipewr" /\ P.cnt >= MINPIPESIZE /\ "EOF" \notin P.state
<1> DEFINE e == th[t].p
<1>1. e \in Ends
  BY LocalFacts
<1>2. Sleeper(t, e)
  BY <1>1 DEF WInv, Awaits
<1>3. CASE th[t].pc \in LockWaits
  BY <1>2, <1>3 DEF Sleeper, Moving, LockWaits
<1>4. CASE th[t].pc \in {"piperd", "pipewr"}
  <2> HIDE DEF e
  <2>1. CASE Moving(e)
    BY <1>4, <2>1 DEF e
  <2>2. CASE ~ Moving(e)
    <3>1. ~ Filling(e) /\ ~ Draining(e)
      BY <1>1, <2>2, MovingIs
    <3> QED BY <1>2, <1>4, <3>1 DEF Sleeper, NoData, NoSpace, e
  <2> QED BY <2>1, <2>2
<1> QED BY <1>2, <1>3, <1>4 DEF Sleeper

(* No pipeclose() is on its way, and neither end is freed: no end of file. *)
LEMMA NoEof ==
  ASSUME IInv, WInv, ~ ToClose, NEW e \in Ends, closing[e] # "freed", closing[other(e)] # "freed"
  PROVE  /\ "EOF" \notin pipe[e].state /\ "EOF" \notin pipe[other(e)].state
         /\ ~ peereof(pipe[e])
<1>1. other(e) \in Ends /\ other(other(e)) = e /\ other(e) # NULL
  BY DEF other, Ends, NULL
<1>2. Eof(e) /\ Eof(other(e)) /\ closing[e] # "asleep" /\ closing[other(e)] # "asleep"
  BY <1>1 DEF WInv, Awaits, ToClose
<1>3. pipe[e].peer = other(e)
  BY DEF IInv, End
<1> HIDE DEF other
<1>4. "EOF" \notin pipe[e].state /\ "EOF" \notin pipe[other(e)].state
  BY <1>1, <1>2 DEF Eof
<1> QED BY <1>1, <1>3, <1>4 DEF peereof

LEMMA PollersRight ==
  ASSUME IInv, WInv, NEW t \in Threads, th[t].pc = "selwait"
  PROVE  LET c == th[t].call IN
         \/ c.ev = {} \/ ToClose
         \/ \E e \in selrecord(c.end, c.ev) : t \notin pipe[e].sel \/ Moving(e)
         \/ ~ Revents(c.end, c.ev)
<1> DEFINE c == th[t].call
           e == c.end
<1>1. e \in Ends /\ c.ev \subseteq {"POLLIN", "POLLOUT"} /\ other(e) \in Ends /\ other(e) # e
      /\ other(other(e)) = e
  <2>1. e \in Ends /\ c \in Call
    BY LocalFacts
  <2> QED BY <2>1 DEF Call, other, Ends
<1>2. /\ "POLLIN" \in c.ev => e \in selrecord(e, c.ev)
      /\ "POLLOUT" \in c.ev => other(e) \in selrecord(e, c.ev)
  BY <1>1 DEF selrecord
<1> SUFFICES ASSUME c.ev # {}, ~ ToClose,
                    \A f \in selrecord(e, c.ev) : t \in pipe[f].sel /\ ~ Moving(f)
             PROVE  ~ Revents(e, c.ev)
  OBVIOUS
<1> HIDE DEF other
<1>3. /\ "POLLIN" \in c.ev => t \in pipe[e].sel /\ ~ Moving(e)
      /\ "POLLOUT" \in c.ev => t \in pipe[other(e)].sel /\ ~ Moving(other(e))
  BY <1>2
<1>4. closing[e] # "freed" /\ closing[other(e)] # "freed"
  <2>1. Pollers(e) /\ Pollers(other(e))
    BY <1>1 DEF WInv, Awaits
  <2>2. t \in pipe[e].sel \/ t \in pipe[other(e)].sel
    BY <1>1, <1>3
  <2> QED BY <1>1, <2>1, <2>2 DEF Pollers
<1>5. /\ "EOF" \notin pipe[e].state /\ ~ peereof(pipe[e]) /\ pipe[e].peer = other(e)
  <2>1. pipe[e].peer = other(e)
    BY <1>1, <1>4 DEF IInv, End
  <2> QED BY <1>1, <1>4, <2>1, NoEof
<1>6. "POLLIN" \in c.ev => ~ (pipe[e].cnt > 0)
  <2>1. "POLLIN" \in c.ev => Poller(t, e) /\ ~ Filling(e)
    BY <1>1, <1>3, MovingIs DEF WInv, Awaits
  <2> QED BY <2>1 DEF Poller, NoData
<1>7. "POLLOUT" \in c.ev => ~ (space(pipe[other(e)]) >= PIPE_BUF)
  <2>1. "POLLOUT" \in c.ev => Poller(t, other(e)) /\ ~ Draining(other(e))
    BY <1>1, <1>3, MovingIs DEF WInv, Awaits
  <2>2. space(pipe[other(e)]) \in Int
    <3>1. pipe[other(e)] \in PipeType
      BY <1>1 DEF IInv, TypeOK
    <3> QED BY <3>1 DEF PipeType, space
  <2> QED BY <1>1, <2>1, <2>2, Numbers DEF Poller, NoRoom
<1> HIDE DEF e, c
<1> QED BY <1>5, <1>6, <1>7 DEF Revents

LEMMA KnotesRight ==
  ASSUME IInv, WInv, NEW e \in Ends, NEW f \in pipe[e].notes
  PROVE  \/ f \in pipe[e].active \/ Moving(e)
         \/ IF f = "EVFILT_WRITE" THEN "EOF" \in pipe[e].state ELSE ToClose
         \/ ~ filt_pipe(pipe[e], f, peereof(pipe[e]))
<1>1. f \in {"EVFILT_READ", "EVFILT_WRITE"} /\ pipe[e].cnt \in Nat /\ space(pipe[e]) \in Int
  <2>1. pipe[e] \in PipeType
    BY DEF IInv, TypeOK
  <2> QED BY <2>1 DEF PipeType, Filters, space
<1>2. Knotes(e) /\ Eof(e)
  BY DEF WInv, Awaits
<1> SUFFICES ASSUME f \notin pipe[e].active, ~ Moving(e),
                    IF f = "EVFILT_WRITE" THEN "EOF" \notin pipe[e].state ELSE ~ ToClose
             PROVE  ~ filt_pipe(pipe[e], f, peereof(pipe[e]))
  OBVIOUS
<1>3. ~ Filling(e) /\ ~ Draining(e)
  BY MovingIs
<1>4. CASE f = "EVFILT_WRITE"
  BY <1>1, <1>2, <1>3, <1>4, Numbers DEF Knotes, NoRoom, filt_pipe
<1>5. CASE f = "EVFILT_READ"
  <2>1. "EOF" \notin pipe[e].state /\ closing[other(e)] # "freed" /\ pipe[e].cnt = 0
    BY <1>2, <1>3, <1>5 DEF Knotes, NoData
  <2>2. closing[e] # "freed"
    BY <1>2 DEF Eof
  <2>3. ~ peereof(pipe[e])
    BY <1>5, <2>1, <2>2, NoEof
  <2> QED BY <1>5, <2>1, <2>3 DEF filt_pipe
<1> QED BY <1>1, <1>4, <1>5

LEMMA NobodyIs ==
  ASSUME IInv, WInv
  PROVE  NobodyForgotten
<1>1. ASSUME NEW e \in Ends, closing[e] = "asleep" /\ e \in pipe[e].sleepers
      PROVE  "WANT" \in pipe[e].state /\ Inside(e) # {}
  <2>1. "WANT" \in pipe[e].state /\ 0 < pipe[e].busy
    BY <1>1 DEF WInv, Awaits, Closer
  <2>2. pipe[e].busy = Cardinality(Inside(e)) /\ Cardinality({}) = 0
    BY FS_EmptySet DEF IInv, End
  <2> QED BY <2>1, <2>2
<1> QED BY <1>1, SleepersRight, PollersRight, KnotesRight DEF NobodyForgotten

(* Whoever sleeps in pipe_read(), pipe_write() or pipeclose(), polls or     *)
(* waits with a knote has left a flag for the one who has to wake him, and  *)
(* what he waits for has not come or somebody is on his way to tell him, as *)
(* long as a pipe does not get its big buffer after data have come in.      *)
THEOREM WaitersInvariance == ASSUME ~ LateResize PROVE Spec => []WInv
<1>1. Init => WInv
  BY CreatedFaith DEF Init
<1>2. IInv /\ WInv /\ [Next]_vars => WInv'
  BY NextFaith
<1> QED BY <1>1, <1>2, Invariance, PTL DEF Spec

(* NobodyForgotten: nobody sleeps through an event of a pipe, and          *)
(* pipeclose() sleeps only while somebody inside will wake it, for any     *)
(* threads, calls, knotes and sizes of a pipe.                             *)
THEOREM NobodyIsForgotten == ASSUME ~ LateResize PROVE Spec => []NobodyForgotten
  BY WaitersInvariance, Invariance, NobodyIs, PTL
=============================================================================
