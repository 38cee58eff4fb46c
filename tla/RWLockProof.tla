---------------------------- MODULE RWLockProof ----------------------------
(***************************************************************************)
(* Proofs about RWLock, and at the end about RRWLock, for any finite set   *)
(* of threads, any flags and any signals.  The invariants are proved       *)
(* together: that the word matches the holders is not inductive without    *)
(* what each thread remembers of it (LocalsOK) and where on the sleep      *)
(* queue it may be (SleepOK).                                              *)
(***************************************************************************)
EXTENDS RRWLock, FiniteSetTheorems, TLAPS

\* Where a thread holds nothing, and where it is on its way out of the lock.
EnterLocs == {"enter_read", "diag", "sleep", "cursig", "asleep", "woken", "intr"}
ExitLocs  == {"exit", "exit_load", "exit_cas"}

\* What thread p's program counter says about what it holds and remembers.
LocalOK(p) ==
  /\ pc[p] \in EnterLocs => held[p] = "none" /\ op[p] # "RW_DOWNGRADE"
  /\ pc[p] \in {"retry", "cas"} =>
       held[p] = IF op[p] = "RW_DOWNGRADE" THEN "write" ELSE "none"
  /\ pc[p] = "enter_read" => ~o[p].wrlock
  /\ pc[p] \in {"diag", "sleep", "cursig"} => check(op[p], o[p])
  /\ pc[p] = "cas" => ~check(op[p], o[p])
  /\ pc[p] = "exit_read" => held[p] = "read"
  /\ pc[p] = "exit_write" => held[p] = "write"
  /\ pc[p] \in ExitLocs => held[p] # "none"
  /\ pc[p] \in {"exit_load", "exit_cas"} => (wrlock[p] <=> held[p] = "write")

\* Only a thread inside rw_enter()'s sleep is on the queue or not running.
SleepOK(p) ==
  /\ p_wchan[p] => p_stat[p] # "SRUN"
  /\ p_stat[p] # "SRUN" => pc[p] \in {"asleep", "cursig"}
  /\ p_stat[p] = "SSLEEP" => p_wchan[p]
  /\ "stop" \notin Signals => pc[p] # "cursig" /\ p_stat[p] # "SSTOP"

IInv ==
  /\ TypeOK
  /\ WordMatchesHolders
  /\ MarksOnlyWhileHeld
  /\ NoPanic
  /\ \A p \in Procs : LocalOK(p)
  /\ \A p \in Procs : SleepOK(p)
  /\ QueuedAnnounced

(***************************************************************************)
(* Facts about the word and its holders.                                   *)
(***************************************************************************)

\* The readers are finitely many, and fewer than any thread's address.
LEMMA ReadersBounded ==
  ASSUME TypeOK
  PROVE  /\ IsFiniteSet(Readers)
         /\ Cardinality(Readers) \in Nat
         /\ \A p \in Procs : Cardinality(Readers) < p
         /\ \A p \in Procs : held[p] = "read" => Cardinality(Readers) > 0
         /\ Cardinality(Readers) = 0 => \A p \in Procs : held[p] # "read"
<1>1. Readers \in SUBSET Procs
  BY DEF Readers
<1>2. IsFiniteSet(Readers) /\ Cardinality(Readers) <= Cardinality(Procs)
  BY <1>1, FS_Subset, ProcsAssumption
<1>3. Cardinality(Readers) \in Nat /\ Cardinality(Procs) \in Nat
  BY <1>2, FS_CardinalityType, ProcsAssumption
<1>4. \A p \in Procs : p \in Nat /\ p > Cardinality(Procs)
  BY ProcsAssumption
<1>5. Cardinality(Readers) = 0 <=> Readers = {}
  BY <1>2, FS_EmptySet
<1> QED
  BY <1>2, <1>3, <1>4, <1>5 DEF Readers

\* What a thread can conclude from the word about itself, and the converse.
LEMMA HolderFacts ==
  ASSUME TypeOK, WordMatchesHolders, NEW p \in Procs
  PROVE  /\ held[p] = "read" => ~rwl_owner.wrlock /\ rwl_owner.hi > 0
         /\ held[p] = "write" => /\ rwl_owner.wrlock /\ rwl_owner.hi = p
                                 /\ \A q \in Procs \ {p} : held[q] = "none"
         /\ held[p] # "write" => rwl_owner.hi # p
         /\ p > 0
         /\ rwl_owner.wrlock => rwl_owner.hi > 0
         /\ rwl_owner = Zero => \A q \in Procs : held[q] = "none"
<1>1. \A q \in Procs : q \in Nat /\ q > 0 /\ Cardinality(Readers) < q
  <2>1. \A q \in Procs : Cardinality(Readers) < q /\ Cardinality(Readers) \in Nat
    BY ReadersBounded
  <2> QED
    BY <2>1, ProcsAssumption
<1>2. held \in [Procs -> {"none", "read", "write"}] /\ rwl_owner \in Word
  BY DEF TypeOK
<1>3. CASE rwl_owner.wrlock
  <2>1. PICK w \in Procs : /\ rwl_owner.hi = w /\ held[w] = "write"
                           /\ \A q \in Procs \ {w} : held[q] = "none"
    BY <1>3 DEF WordMatchesHolders
  <2> QED
    BY <1>1, <1>2, <1>3, <2>1 DEF Zero
<1>4. CASE ~rwl_owner.wrlock
  <2>1. rwl_owner.hi = Cardinality(Readers) /\ \A q \in Procs : held[q] # "write"
    BY <1>4 DEF WordMatchesHolders
  <2>2. rwl_owner = Zero => Cardinality(Readers) = 0
    BY <2>1 DEF Zero
  <2> QED
    BY <1>1, <1>2, <1>4, <2>1, <2>2, ReadersBounded
<1> QED
  BY <1>3, <1>4

\* The free lock.
LEMMA ZeroFacts ==
  Zero \in Word /\ Zero.hi = 0 /\ ~Zero.wait /\ ~Zero.wrwant /\ ~Zero.wrlock
BY DEF Word, Zero

\* What inc adds to the word, operation by operation.
LEMMA IncRead ==
  ASSUME NEW w \in Word, NEW p
  PROVE  /\ inc("RW_READ", p, w) \in Word
         /\ inc("RW_READ", p, w).hi = w.hi + 1
         /\ inc("RW_READ", p, w).wrlock = w.wrlock
         /\ inc("RW_READ", p, w).wait = w.wait /\ inc("RW_READ", p, w).wrwant = w.wrwant
<1>1. inc("RW_READ", p, w) = [w EXCEPT !.hi = w.hi + 1, !.wrlock = w.wrlock]
  BY DEF inc
<1>2. w.hi + 1 \in Nat /\ w.wrlock \in BOOLEAN
  BY DEF Word
<1> QED
  BY <1>1, <1>2 DEF Word

LEMMA IncWrite ==
  ASSUME NEW p \in Nat
  PROVE  /\ inc("RW_WRITE", p, Zero) \in Word
         /\ inc("RW_WRITE", p, Zero).hi = p
         /\ inc("RW_WRITE", p, Zero).wrlock = TRUE
         /\ inc("RW_WRITE", p, Zero).wait = FALSE /\ inc("RW_WRITE", p, Zero).wrwant = FALSE
<1>1. inc("RW_WRITE", p, Zero) = [Zero EXCEPT !.hi = Zero.hi + p, !.wrlock = TRUE]
  BY DEF inc
<1>2. Zero.hi + p = p
  BY ZeroFacts
<1> QED
  BY <1>1, <1>2, ZeroFacts DEF Word

LEMMA IncDowngrade ==
  ASSUME NEW w \in Word, NEW p \in Nat, w.hi = p
  PROVE  /\ inc("RW_DOWNGRADE", p, w) \in Word
         /\ inc("RW_DOWNGRADE", p, w).hi = 1
         /\ inc("RW_DOWNGRADE", p, w).wrlock = FALSE
         /\ inc("RW_DOWNGRADE", p, w).wait = w.wait
         /\ inc("RW_DOWNGRADE", p, w).wrwant = w.wrwant
<1> DEFINE u == inc("RW_DOWNGRADE", p, w)
<1>1. w.hi + 1 - p = 1
  OBVIOUS
<1>2. u = [w EXCEPT !.hi = 1, !.wrlock = FALSE]
  BY <1>1 DEF inc
<1> HIDE DEF u
<1>3. u \in Word /\ u.hi = 1
  BY <1>2 DEF Word
<1>4. u.wrlock = FALSE /\ u.wait = w.wait /\ u.wrwant = w.wrwant
  BY <1>2 DEF Word
<1> QED
  BY <1>3, <1>4 DEF u

\* A reader's release, with and without clearing the marks.
LEMMA ExitFacts ==
  ASSUME NEW w \in Word, w.hi > 0
  PROVE  /\ exit_set(FALSE, w) \in Word
         /\ exit_set(FALSE, w).hi = w.hi - 1
         /\ exit_set(FALSE, w).wrlock = w.wrlock
         /\ exit_set(FALSE, w).wait = FALSE /\ exit_set(FALSE, w).wrwant = FALSE
         /\ [w EXCEPT !.hi = @ - 1] \in Word
         /\ [w EXCEPT !.hi = @ - 1].hi = w.hi - 1
         /\ [w EXCEPT !.hi = @ - 1].wrlock = w.wrlock
         /\ [w EXCEPT !.hi = @ - 1].wait = w.wait
         /\ [w EXCEPT !.hi = @ - 1].wrwant = w.wrwant
<1>1. w.hi - 1 \in Nat
  BY DEF Word
<1> QED
  BY <1>1 DEF exit_set, Word


\* One reader more.
LEMMA ReaderEnters ==
  ASSUME TypeOK, WordMatchesHolders, NEW p \in Procs,
         held[p] = "none", ~rwl_owner.wrlock, held' = [held EXCEPT ![p] = "read"],
         ~rwl_owner'.wrlock, rwl_owner'.hi = rwl_owner.hi + 1
  PROVE  WordMatchesHolders'
<1>1. rwl_owner.hi = Cardinality(Readers) /\ \A q \in Procs : held[q] # "write"
  BY DEF WordMatchesHolders
<1>2. Readers' = Readers \cup {p} /\ p \notin Readers
  BY DEF Readers, TypeOK
<1>3. Cardinality(Readers') = Cardinality(Readers) + 1
  BY <1>2, ReadersBounded, FS_AddElement
<1> QED
  BY <1>1, <1>3 DEF WordMatchesHolders, TypeOK

\* One reader less.
LEMMA ReaderExits ==
  ASSUME TypeOK, WordMatchesHolders, NEW p \in Procs,
         held[p] = "read", ~rwl_owner.wrlock, held' = [held EXCEPT ![p] = "none"],
         ~rwl_owner'.wrlock, rwl_owner'.hi = rwl_owner.hi - 1
  PROVE  WordMatchesHolders'
<1>1. rwl_owner.hi = Cardinality(Readers) /\ \A q \in Procs : held[q] # "write"
  BY DEF WordMatchesHolders
<1>2. Readers' = Readers \ {p} /\ p \in Readers
  BY DEF Readers, TypeOK
<1>3. Cardinality(Readers') = Cardinality(Readers) - 1
  BY <1>2, ReadersBounded, FS_RemoveElement
<1> QED
  BY <1>1, <1>3 DEF WordMatchesHolders, TypeOK

\* The first writer.
LEMMA WriterEnters ==
  ASSUME TypeOK, WordMatchesHolders, NEW p \in Procs,
         rwl_owner = Zero, held' = [held EXCEPT ![p] = "write"],
         rwl_owner'.wrlock, rwl_owner'.hi = p
  PROVE  WordMatchesHolders'
<1>1. \A q \in Procs : held[q] = "none"
  BY HolderFacts
<1>2. held'[p] = "write" /\ \A q \in Procs \ {p} : held'[q] = "none"
  BY <1>1 DEF TypeOK
<1> QED
  BY <1>2 DEF WordMatchesHolders

\* The writer leaves: nobody holds the lock.
LEMMA WriterExits ==
  ASSUME TypeOK, WordMatchesHolders, NEW p \in Procs,
         held[p] = "write", held' = [held EXCEPT ![p] = "none"], rwl_owner' = Zero
  PROVE  WordMatchesHolders'
<1>1. \A q \in Procs : held'[q] = "none"
  BY HolderFacts DEF TypeOK
<1>2. Readers' = {}
  BY <1>1 DEF Readers
<1>3. Cardinality(Readers') = 0
  BY <1>2, FS_EmptySet
<1> QED
  BY <1>1, <1>3 DEF WordMatchesHolders, Zero

\* The writer becomes the only reader.
LEMMA WriterDowngrades ==
  ASSUME TypeOK, WordMatchesHolders, NEW p \in Procs,
         held[p] = "write", held' = [held EXCEPT ![p] = "read"],
         ~rwl_owner'.wrlock, rwl_owner'.hi = 1
  PROVE  WordMatchesHolders'
<1>1. held'[p] = "read" /\ \A q \in Procs \ {p} : held'[q] = "none"
  BY HolderFacts DEF TypeOK
<1>2. Readers' = {p}
  BY <1>1 DEF Readers
<1>3. Cardinality(Readers') = 1
  BY <1>2, FS_Singleton
<1> QED
  BY <1>1, <1>3 DEF WordMatchesHolders

\* Marks do not count.
LEMMA WordUntouched ==
  ASSUME WordMatchesHolders, held' = held,
         rwl_owner'.wrlock = rwl_owner.wrlock, rwl_owner'.hi = rwl_owner.hi
  PROVE  WordMatchesHolders'
BY DEF WordMatchesHolders, Readers

(***************************************************************************)
(* Preservation.                                                           *)
(***************************************************************************)

\* A running thread p moves to loc.  Whatever it does to the word, the other
\* threads' locals stay true, and nobody on the queue is forgotten as long as
\* clearing the WAIT bit leads to a wakeup.
LEMMA LocalStep ==
  ASSUME IInv, NEW p \in Procs, p_stat[p] = "SRUN", UNCHANGED sleepq,
         pc[p] \notin {"exit_wake", "downgrade_wake"},
         NEW loc \in Locs \ {"panic", "asleep", "cursig"}, pc' = [pc EXCEPT ![p] = loc],
         TypeOK', WordMatchesHolders', MarksOnlyWhileHeld', LocalOK(p)',
         \A q \in Procs \ {p} : /\ o'[q] = o[q] /\ wrlock'[q] = wrlock[q]
                                 /\ op'[q] = op[q] /\ held'[q] = held[q],
         rwl_owner.wait => rwl_owner'.wait \/ loc \in {"exit_wake", "downgrade_wake"}
  PROVE  IInv'
<1>1. \A q \in Procs \ {p} : pc'[q] = pc[q]
  BY DEF IInv, TypeOK
<1>2. pc'[p] = loc
  BY DEF IInv, TypeOK
<1>3. NoPanic'
  BY <1>1, <1>2 DEF IInv, NoPanic
<1>4. ASSUME NEW q \in Procs PROVE LocalOK(q)'
  BY <1>1 DEF IInv, LocalOK, check
<1>5. ASSUME NEW q \in Procs PROVE SleepOK(q)'
  BY <1>1, <1>2 DEF IInv, SleepOK, sleepq
<1>6. QueuedAnnounced'
  BY <1>1, <1>2 DEF IInv, QueuedAnnounced, WakeupPending, sleepq
<1> QED
  BY <1>3, <1>4, <1>5, <1>6 DEF IInv

\* The same when p leaves the word and its hold alone.
LEMMA QuietStep ==
  ASSUME IInv, NEW p \in Procs, p_stat[p] = "SRUN", UNCHANGED <<rwl_owner, held, sleepq>>,
         pc[p] \notin {"exit_wake", "downgrade_wake"},
         NEW loc \in Locs \ {"panic", "asleep", "cursig"}, pc' = [pc EXCEPT ![p] = loc],
         LocalOK(p)',
         o' \in [Procs -> Word], wrlock' \in [Procs -> BOOLEAN], op' \in [Procs -> Ops],
         flags' \in [Procs -> SUBSET {"NOSLEEP", "INTR", "SLEEPFAIL"}],
         \A q \in Procs \ {p} : /\ o'[q] = o[q] /\ wrlock'[q] = wrlock[q]
                                 /\ op'[q] = op[q]
  PROVE  IInv'
<1>1. TypeOK'
  BY DEF IInv, TypeOK, sleepq
<1>2. WordMatchesHolders' /\ MarksOnlyWhileHeld'
  BY DEF IInv, WordMatchesHolders, MarksOnlyWhileHeld, Readers
<1> QED
  BY <1>1, <1>2, LocalStep

\* The CAS that leaves the marks changes nothing but them.
LEMMA MarkStep ==
  ASSUME IInv, NEW p \in Procs, check(op[p], o[p]), mark(p), UNCHANGED held
  PROVE  /\ rwl_owner' \in Word
         /\ WordMatchesHolders' /\ MarksOnlyWhileHeld'
         /\ rwl_owner.wait => rwl_owner'.wait
         /\ rwl_owner = o[p] => rwl_owner'.wait
<1>1. TypeOK /\ WordMatchesHolders /\ MarksOnlyWhileHeld
  BY DEF IInv
<1>2. CASE rwl_owner # o[p]
  <2>1. rwl_owner' = rwl_owner
    BY <1>2 DEF mark
  <2> QED
    BY <1>1, <1>2, <2>1, WordUntouched DEF MarksOnlyWhileHeld, TypeOK
<1>3. CASE rwl_owner = o[p]
  <2>1. rwl_owner' = [rwl_owner EXCEPT !.wait = TRUE,
                                       !.wrwant = @ \/ op[p] = "RW_WRITE"]
    BY <1>3 DEF mark, wait_set
  <2>2. /\ rwl_owner' \in Word /\ rwl_owner'.wait
        /\ rwl_owner'.hi = rwl_owner.hi /\ rwl_owner'.wrlock = rwl_owner.wrlock
    BY <1>1, <2>1 DEF TypeOK, Word
  <2>3. WordMatchesHolders'
    BY <1>1, <2>2, WordUntouched
  <2>4. rwl_owner.hi # 0
    <3>1. CASE rwl_owner.wrlock
      BY <1>1, <3>1, HolderFacts DEF TypeOK, Word
    <3>2. CASE ~rwl_owner.wrlock
      <4>1. rwl_owner # Zero
        BY <1>3, <3>2 DEF check
      <4> QED
        BY <1>1, <3>2, <4>1 DEF TypeOK, Word, Zero, MarksOnlyWhileHeld
    <3> QED
      BY <3>1, <3>2
  <2> QED
    BY <2>2, <2>3, <2>4 DEF MarksOnlyWhileHeld
<1> QED
  BY <1>2, <1>3

LEMMA ReturnFacts ==
  ASSUME TypeOK, NEW p \in Procs, Return(p)
  PROVE  /\ pc' = [pc EXCEPT ![p] = "idle"]
         /\ pc'[p] = "idle"
         /\ o' \in [Procs -> Word] /\ wrlock' \in [Procs -> BOOLEAN]
         /\ op' \in [Procs -> Ops] /\ pc' \in [Procs -> Locs]
         /\ flags' \in [Procs -> SUBSET {"NOSLEEP", "INTR", "SLEEPFAIL"}]
         /\ \A q \in Procs \ {p} : /\ o'[q] = o[q] /\ wrlock'[q] = wrlock[q]
                                     /\ op'[q] = op[q]
         /\ LocalOK(p)'
<1>1. Zero \in Word
  BY DEF Zero, Word
<1>2. /\ pc' = [pc EXCEPT ![p] = "idle"]
      /\ o'      = [o EXCEPT ![p] = Zero]
      /\ wrlock' = [wrlock EXCEPT ![p] = FALSE]
      /\ op'     = [op EXCEPT ![p] = "RW_READ"]
      /\ flags'  = [flags EXCEPT ![p] = {}]
  BY DEF Return, Goto
<1>3. pc'[p] = "idle"
  BY <1>2 DEF TypeOK
<1>4. LocalOK(p)'
  BY <1>3 DEF LocalOK, EnterLocs, ExitLocs
<1> QED
  BY <1>1, <1>2, <1>3, <1>4 DEF TypeOK, Locs, Ops

LEMMA DropFacts ==
  ASSUME TypeOK, NEW p \in Procs, NEW loc \in Locs, Drop(p, loc)
  PROVE  /\ pc' = [pc EXCEPT ![p] = loc]
         /\ pc'[p] = loc /\ o'[p] = Zero
         /\ o' \in [Procs -> Word] /\ wrlock' \in [Procs -> BOOLEAN]
         /\ op' \in [Procs -> Ops] /\ pc' \in [Procs -> Locs]
         /\ flags' \in [Procs -> SUBSET {"NOSLEEP", "INTR", "SLEEPFAIL"}]
         /\ \A q \in Procs \ {p} : /\ o'[q] = o[q] /\ wrlock'[q] = wrlock[q]
                                     /\ op'[q] = op[q]
         /\ op' = op /\ wrlock' = wrlock
<1>1. Zero \in Word
  BY DEF Zero, Word
<1> QED
  BY <1>1 DEF TypeOK, Drop, Goto

(***************************************************************************)
(* One lemma per group of actions.                                         *)
(***************************************************************************)

\* rw_enter_read() and its CAS.
LEMMA EnterReadPreserves ==
  ASSUME IInv, NEW p \in Procs, rw_enter_read(p) \/ rw_enter_read_cas(p)
  PROVE  IInv'
<1> USE DEF At
<1>0. TypeOK /\ WordMatchesHolders /\ MarksOnlyWhileHeld /\ LocalOK(p)
  BY DEF IInv
<1>1. CASE rw_enter_read(p)
  <2>1. op' \in [Procs -> Ops] /\ op'[p] = "RW_READ" /\ \A q \in Procs \ {p} : op'[q] = op[q]
    BY <1>0, <1>1 DEF rw_enter_read, TypeOK, Ops
  <2>2. CASE rwl_owner.wrlock
    <3>1. pc' = [pc EXCEPT ![p] = "retry"] /\ pc'[p] = "retry" /\ o' = o
      BY <1>0, <1>1, <2>2 DEF rw_enter_read, Goto, TypeOK
    <3>2. LocalOK(p)'
      BY <1>1, <2>1, <3>1 DEF rw_enter_read, LocalOK, EnterLocs, ExitLocs
    <3> QED
      BY <1>0, <1>1, <2>1, <3>1, <3>2, QuietStep DEF rw_enter_read, Locs, TypeOK
  <2>3. CASE ~rwl_owner.wrlock
    <3>1. /\ pc' = [pc EXCEPT ![p] = "enter_read"] /\ pc'[p] = "enter_read"
          /\ o' = [o EXCEPT ![p] = rwl_owner] /\ o'[p] = rwl_owner
      BY <1>0, <1>1, <2>3 DEF rw_enter_read, Goto, TypeOK
    <3>2. LocalOK(p)'
      BY <1>1, <2>1, <2>3, <3>1 DEF rw_enter_read, LocalOK, EnterLocs, ExitLocs
    <3> QED
      BY <1>0, <1>1, <2>1, <3>1, <3>2, QuietStep DEF rw_enter_read, Locs, TypeOK
  <2> QED
    BY <2>2, <2>3
<1>2. CASE rw_enter_read_cas(p)
  <2>1. CASE rwl_owner = o[p]
    <3>1. /\ held[p] = "none" /\ ~rwl_owner.wrlock
          /\ held' = [held EXCEPT ![p] = "read"] /\ Return(p)
          /\ rwl_owner' = inc("RW_READ", p, rwl_owner) /\ p \in Nat
      BY <1>0, <1>2, <2>1, ProcsAssumption DEF rw_enter_read_cas, LocalOK, EnterLocs
    <3>2. /\ rwl_owner' \in Word /\ ~rwl_owner'.wrlock
          /\ rwl_owner'.wait = rwl_owner.wait /\ rwl_owner'.wrwant = rwl_owner.wrwant
          /\ rwl_owner'.hi = rwl_owner.hi + 1 /\ rwl_owner'.hi # 0
      <4>1. rwl_owner \in Word /\ rwl_owner.hi \in Nat
        BY <1>0 DEF TypeOK, Word
      <4> QED
        BY <3>1, <4>1, IncRead
    <3>3. WordMatchesHolders' /\ MarksOnlyWhileHeld'
      BY <1>0, <3>1, <3>2, ReaderEnters DEF MarksOnlyWhileHeld
    <3>4. TypeOK'
      BY <1>0, <1>2, <3>1, <3>2, ReturnFacts DEF TypeOK, rw_enter_read_cas, sleepq
    <3> QED
      BY <1>0, <1>2, <3>1, <3>2, <3>3, <3>4, ReturnFacts, LocalStep
         DEF rw_enter_read_cas, Locs, TypeOK
  <2>2. CASE rwl_owner # o[p]
    <3>1. Drop(p, "retry") /\ UNCHANGED <<rwl_owner, held, sleepq>> /\ "retry" \in Locs
      BY <1>2, <2>2 DEF rw_enter_read_cas, Locs
    <3>2. LocalOK(p)'
      BY <1>0, <1>2, <3>1, DropFacts DEF rw_enter_read_cas, LocalOK, EnterLocs, ExitLocs
    <3> QED
      BY <1>0, <1>2, <3>1, <3>2, DropFacts, QuietStep DEF rw_enter_read_cas
  <2> QED
    BY <2>1, <2>2
<1> QED
  BY <1>1, <1>2

\* rw_enter_write() and the call of rw_enter().
LEMMA EnterCallPreserves ==
  ASSUME IInv, NEW p \in Procs,
         rw_enter_write(p) \/ \E a \in Ops, f \in Flags : rw_enter(p, a, f)
  PROVE  IInv'
<1> USE DEF At
<1>0. TypeOK /\ WordMatchesHolders /\ MarksOnlyWhileHeld /\ LocalOK(p)
  BY DEF IInv
<1>1. CASE rw_enter_write(p) /\ rwl_owner = Zero
  <2>1. /\ held' = [held EXCEPT ![p] = "write"] /\ UNCHANGED <<pc, locals, sleepq>>
        /\ rwl_owner' = inc("RW_WRITE", p, Zero)
        /\ pc[p] = "idle" /\ p_stat[p] = "SRUN"
    BY <1>1 DEF rw_enter_write
  <2>2. p \in Nat /\ p > 0
    BY <1>0, HolderFacts, ProcsAssumption
  <2>3. /\ rwl_owner' \in Word /\ rwl_owner'.wrlock /\ rwl_owner'.hi = p
        /\ ~rwl_owner.wait /\ ~rwl_owner'.wait /\ ~rwl_owner'.wrwant
    BY <1>1, <2>1, <2>2, IncWrite, ZeroFacts
  <2>4. WordMatchesHolders' /\ MarksOnlyWhileHeld'
    <3>1. WordMatchesHolders'
      BY <1>0, <1>1, <2>1, <2>3, WriterEnters
    <3>2. MarksOnlyWhileHeld'
      BY <2>2, <2>3 DEF MarksOnlyWhileHeld
    <3> QED
      BY <3>1, <3>2
  <2>5. TypeOK' /\ pc' = [pc EXCEPT ![p] = "idle"] /\ pc'[p] = "idle"
    BY <1>0, <2>1, <2>3 DEF TypeOK, locals, sleepq
  <2>6. LocalOK(p)'
    BY <2>5 DEF LocalOK, EnterLocs, ExitLocs
  <2> QED
    BY <1>0, <2>1, <2>3, <2>4, <2>5, <2>6, LocalStep DEF Locs, locals, TypeOK
<1>2. CASE rw_enter_write(p) /\ rwl_owner # Zero
  <2>1. /\ op' = [op EXCEPT ![p] = "RW_WRITE"] /\ pc' = [pc EXCEPT ![p] = "retry"]
        /\ UNCHANGED <<rwl_owner, held, sleepq>> /\ UNCHANGED <<o, wrlock, flags>>
        /\ held[p] = "none" /\ pc[p] = "idle" /\ p_stat[p] = "SRUN"
    BY <1>2 DEF rw_enter_write, Goto
  <2>2. op' \in [Procs -> Ops] /\ op'[p] = "RW_WRITE" /\ \A q \in Procs \ {p} : op'[q] = op[q]
    BY <1>0, <2>1 DEF TypeOK, Ops
  <2>3. pc'[p] = "retry"
    BY <1>0, <2>1 DEF TypeOK
  <2>4. LocalOK(p)'
    BY <2>1, <2>2, <2>3 DEF LocalOK, EnterLocs, ExitLocs
  <2> QED
    BY <1>0, <2>1, <2>2, <2>4, QuietStep DEF Locs, TypeOK
<1>3. CASE \E a \in Ops, f \in Flags : rw_enter(p, a, f)
  <2>1. PICK a \in Ops, f \in Flags : rw_enter(p, a, f)
    BY <1>3
  <2>2. f \in SUBSET {"NOSLEEP", "INTR", "SLEEPFAIL"}
    BY FlagsAssumption
  <2>3. /\ op' = [op EXCEPT ![p] = a] /\ pc' = [pc EXCEPT ![p] = "retry"]
        /\ flags' = [flags EXCEPT ![p] = f] /\ pc[p] = "idle" /\ p_stat[p] = "SRUN"
        /\ UNCHANGED <<rwl_owner, held, sleepq>> /\ UNCHANGED <<o, wrlock>>
        /\ held[p] = IF a = "RW_DOWNGRADE" THEN "write" ELSE "none"
    BY <2>1 DEF rw_enter, Goto
  <2>4. op' \in [Procs -> Ops] /\ op'[p] = a /\ \A q \in Procs \ {p} : op'[q] = op[q]
    BY <1>0, <2>3 DEF TypeOK
  <2>5. flags' \in [Procs -> SUBSET {"NOSLEEP", "INTR", "SLEEPFAIL"}] /\ pc'[p] = "retry"
    BY <1>0, <2>2, <2>3 DEF TypeOK
  <2>6. LocalOK(p)'
    BY <2>3, <2>4, <2>5 DEF LocalOK, EnterLocs, ExitLocs
  <2> QED
    BY <1>0, <2>3, <2>4, <2>5, <2>6, QuietStep DEF Locs, TypeOK
<1> QED
  BY <1>1, <1>2, <1>3

\* rw_enter()'s loads, checks and returns.
LEMMA EnterLoopPreserves ==
  ASSUME IInv, NEW p \in Procs,
         \/ rw_enter_load(p) \/ rw_enter_diag(p) \/ rw_enter_resume(p)
         \/ rw_enter_woken(p) \/ rw_enter_intr(p)
  PROVE  IInv'
<1> USE DEF At
<1>0. TypeOK /\ WordMatchesHolders /\ MarksOnlyWhileHeld /\ LocalOK(p)
  BY DEF IInv
<1>1. CASE rw_enter_load(p)
  <2> DEFINE loc == IF check(op[p], rwl_owner) THEN "diag" ELSE "cas"
  <2>1. /\ pc' = [pc EXCEPT ![p] = loc] /\ o' = [o EXCEPT ![p] = rwl_owner]
        /\ UNCHANGED <<rwl_owner, held, sleepq>> /\ UNCHANGED <<wrlock, op, flags>>
        /\ pc[p] = "retry" /\ p_stat[p] = "SRUN"
    BY <1>1 DEF rw_enter_load, Goto
  <2>2. pc'[p] = loc /\ o'[p] = rwl_owner /\ op'[p] = op[p] /\ held'[p] = held[p]
    BY <1>0, <2>1 DEF TypeOK
  <2>3. check(op[p], rwl_owner) => op[p] # "RW_DOWNGRADE"
    BY DEF check
  <2>4. LocalOK(p)'
    BY <1>0, <2>1, <2>2, <2>3 DEF LocalOK, EnterLocs, ExitLocs, check
  <2> QED
    BY <1>0, <2>1, <2>4, QuietStep DEF Locs, TypeOK
<1>2. CASE rw_enter_diag(p)
  <2>1. pc[p] = "diag" /\ p_stat[p] = "SRUN" /\ UNCHANGED <<rwl_owner, held, sleepq>>
    BY <1>2 DEF rw_enter_diag
  <2>2. rwl_owner.hi # p
    BY <1>0, <2>1, HolderFacts DEF LocalOK, EnterLocs
  <2>3. CASE Return(p)
    BY <1>0, <2>1, <2>3, ReturnFacts, QuietStep DEF Locs
  <2>4. CASE Goto(p, "sleep") /\ UNCHANGED locals
    <3>1. pc' = [pc EXCEPT ![p] = "sleep"] /\ pc'[p] = "sleep"
      BY <1>0, <2>4 DEF Goto, TypeOK
    <3>2. LocalOK(p)'
      BY <1>0, <2>1, <2>4, <3>1 DEF LocalOK, EnterLocs, ExitLocs, locals, check
    <3> QED
      BY <1>0, <2>1, <2>4, <3>1, <3>2, QuietStep DEF Locs, TypeOK, locals
  <2> QED
    BY <1>2, <2>2, <2>3, <2>4 DEF rw_enter_diag
<1>3. CASE rw_enter_resume(p)
  <2>1. /\ pc[p] = "asleep" /\ p_stat[p] = "SRUN" /\ UNCHANGED <<rwl_owner, held, sleepq>>
        /\ pc' = [pc EXCEPT ![p] = "woken"] /\ UNCHANGED <<o, wrlock, op, flags>>
    BY <1>3 DEF rw_enter_resume, Goto, locals
  <2>2. pc'[p] = "woken"
    BY <1>0, <2>1 DEF TypeOK
  <2>3. LocalOK(p)'
    BY <1>0, <2>1, <2>2 DEF LocalOK, EnterLocs, ExitLocs
  <2> QED
    BY <1>0, <2>1, <2>3, QuietStep DEF Locs, TypeOK
<1>4. CASE rw_enter_woken(p) \/ rw_enter_intr(p)
  <2>1. /\ pc[p] \in {"woken", "intr"} /\ p_stat[p] = "SRUN"
        /\ UNCHANGED <<rwl_owner, held, sleepq>> /\ (Return(p) \/ Drop(p, "retry"))
    BY <1>4 DEF rw_enter_woken, rw_enter_intr, after_sleep
  <2>2. CASE Return(p)
    BY <1>0, <2>1, <2>2, ReturnFacts, QuietStep DEF Locs
  <2>3. CASE Drop(p, "retry")
    <3>0. "retry" \in Locs
      BY DEF Locs
    <3>1. LocalOK(p)'
      BY <1>0, <2>1, <2>3, <3>0, DropFacts DEF LocalOK, EnterLocs, ExitLocs
    <3> QED
      BY <1>0, <2>1, <2>3, <3>0, <3>1, DropFacts, QuietStep
  <2> QED
    BY <2>1, <2>2, <2>3
<1> QED
  BY <1>1, <1>2, <1>3, <1>4

\* Going to sleep: the marks, and the step onto the queue.
LEMMA SleepPreserves ==
  ASSUME IInv, NEW p \in Procs,
         \/ rw_enter_sleep(p) \/ rw_enter_sleep_signal(p)
         \/ rw_enter_sleep_stop(p) \/ rw_enter_cursig(p)
  PROVE  IInv'
<1> USE DEF At
<1>0. TypeOK /\ WordMatchesHolders /\ MarksOnlyWhileHeld /\ LocalOK(p)
  BY DEF IInv
<1>1. p_stat[p] = "SRUN" /\ pc[p] \in {"sleep", "cursig"} /\ UNCHANGED held
  BY DEF rw_enter_sleep, rw_enter_sleep_signal, rw_enter_sleep_stop, rw_enter_cursig
<1>2. check(op[p], o[p]) /\ held[p] = "none" /\ op[p] # "RW_DOWNGRADE"
  BY <1>0, <1>1 DEF LocalOK, EnterLocs
<1>3. ASSUME mark(p), UNCHANGED sleepq, Return(p)
      PROVE  IInv'
  <2>1. TypeOK'
    BY <1>0, <1>1, <1>2, <1>3, MarkStep, ReturnFacts DEF TypeOK, sleepq
  <2> QED
    BY <1>0, <1>1, <1>2, <1>3, <2>1, MarkStep, ReturnFacts, LocalStep DEF Locs
<1>4. ASSUME mark(p), UNCHANGED sleepq, NEW loc \in {"intr", "retry", "woken"}, Drop(p, loc)
      PROVE  IInv'
  <2>0. loc \in Locs /\ loc \notin {"panic", "asleep", "cursig"}
    BY DEF Locs
  <2>1. TypeOK'
    BY <1>0, <1>1, <1>2, <1>4, <2>0, MarkStep, DropFacts DEF TypeOK, sleepq
  <2>2. LocalOK(p)'
    BY <1>0, <1>1, <1>2, <1>4, <2>0, DropFacts DEF LocalOK, EnterLocs, ExitLocs
  <2> QED
    BY <1>0, <1>1, <1>2, <1>4, <2>0, <2>1, <2>2, MarkStep, DropFacts, LocalStep
<1>5. CASE rw_enter_sleep(p) /\ rwl_owner # o[p]
  BY <1>4, <1>5 DEF rw_enter_sleep
<1>6. CASE rw_enter_sleep(p) /\ rwl_owner = o[p]
  <2>1. /\ mark(p) /\ Drop(p, "asleep") /\ "asleep" \in Locs
        /\ p_wchan' = [p_wchan EXCEPT ![p] = TRUE]
        /\ p_stat'  = [p_stat EXCEPT ![p] = "SSLEEP"]
    BY <1>6 DEF rw_enter_sleep, Locs
  <2>2. TypeOK'
    BY <1>0, <1>1, <1>2, <2>1, MarkStep, DropFacts DEF TypeOK
  <2>3. rwl_owner'.wait /\ WordMatchesHolders' /\ MarksOnlyWhileHeld'
    BY <1>1, <1>2, <1>6, <2>1, MarkStep
  <2>4. \A q \in Procs \ {p} : /\ pc'[q] = pc[q] /\ held'[q] = held[q]
                                /\ p_wchan'[q] = p_wchan[q] /\ p_stat'[q] = p_stat[q]
    BY <1>0, <1>1, <2>1, DropFacts DEF TypeOK
  <2>5. pc'[p] = "asleep" /\ p_wchan'[p] /\ p_stat'[p] = "SSLEEP"
    BY <1>0, <2>1, DropFacts DEF TypeOK
  <2>6. NoPanic'
    BY <2>4, <2>5 DEF IInv, NoPanic
  <2>7. LocalOK(p)'
    BY <1>0, <1>1, <1>2, <2>1, <2>5, DropFacts DEF LocalOK, EnterLocs, ExitLocs
  <2>8. \A q \in Procs \ {p} : o'[q] = o[q] /\ wrlock'[q] = wrlock[q] /\ op'[q] = op[q]
    BY <1>0, <2>1, DropFacts
  <2>9. ASSUME NEW q \in Procs PROVE LocalOK(q)'
    BY <2>4, <2>7, <2>8 DEF IInv, LocalOK, check
  <2>10. ASSUME NEW q \in Procs PROVE SleepOK(q)'
    BY <2>4, <2>5 DEF IInv, SleepOK
  <2>11. QueuedAnnounced'
    BY <2>3 DEF QueuedAnnounced
  <2> QED
    BY <2>2, <2>3, <2>6, <2>9, <2>10, <2>11 DEF IInv
<1>7. CASE rw_enter_sleep_signal(p)
  BY <1>4, <1>7 DEF rw_enter_sleep_signal
<1>8. CASE rw_enter_cursig(p)
  BY <1>3, <1>4, <1>8 DEF rw_enter_cursig, after_sleep
<1>9. CASE rw_enter_sleep_stop(p)
  <2>1. /\ p_wchan' = [p_wchan EXCEPT ![p] = TRUE] /\ p_stat' = [p_stat EXCEPT ![p] = "SSTOP"]
        /\ pc' = [pc EXCEPT ![p] = "cursig"] /\ "stop" \in Signals
        /\ UNCHANGED <<rwl_owner, held>> /\ UNCHANGED <<o, wrlock, op, flags>>
    BY <1>9 DEF rw_enter_sleep_stop, Goto, locals
  <2>2. TypeOK'
    BY <1>0, <2>1 DEF TypeOK, Locs
  <2>3. WordMatchesHolders' /\ MarksOnlyWhileHeld'
    BY <1>0, <2>1 DEF WordMatchesHolders, MarksOnlyWhileHeld, Readers
  <2>4. \A q \in Procs \ {p} : /\ pc'[q] = pc[q]
                                /\ p_wchan'[q] = p_wchan[q] /\ p_stat'[q] = p_stat[q]
    BY <1>0, <2>1 DEF TypeOK
  <2>5. pc'[p] = "cursig" /\ p_wchan'[p] /\ p_stat'[p] = "SSTOP"
    BY <1>0, <2>1 DEF TypeOK
  <2>6. NoPanic'
    BY <2>4, <2>5 DEF IInv, NoPanic
  <2>7. ASSUME NEW q \in Procs PROVE LocalOK(q)'
    BY <1>2, <2>1, <2>4, <2>5 DEF IInv, LocalOK, check, EnterLocs, ExitLocs
  <2>8. ASSUME NEW q \in Procs PROVE SleepOK(q)'
    BY <2>1, <2>4, <2>5 DEF IInv, SleepOK
  <2>9. QueuedAnnounced'
    BY <1>1, <2>1, <2>4, <2>5 DEF IInv, QueuedAnnounced, WakeupPending
  <2> QED
    BY <2>2, <2>3, <2>6, <2>7, <2>8, <2>9 DEF IInv
<1> QED
  BY <1>5, <1>6, <1>7, <1>8, <1>9

\* The CAS that takes or downgrades the lock.
LEMMA EnterCasPreserves ==
  ASSUME IInv, NEW p \in Procs, rw_enter_cas(p)
  PROVE  IInv'
<1> USE DEF At
<1>0. TypeOK /\ WordMatchesHolders /\ MarksOnlyWhileHeld /\ LocalOK(p)
  BY DEF IInv
<1>1. /\ pc[p] = "cas" /\ p_stat[p] = "SRUN" /\ UNCHANGED sleepq /\ ~check(op[p], o[p])
      /\ held[p] = IF op[p] = "RW_DOWNGRADE" THEN "write" ELSE "none"
  BY <1>0 DEF rw_enter_cas, LocalOK
<1>2. CASE rwl_owner # o[p]
  <2>1. Drop(p, "retry") /\ UNCHANGED <<rwl_owner, held>> /\ "retry" \in Locs
    BY <1>2 DEF rw_enter_cas, Locs
  <2>2. LocalOK(p)'
    BY <1>0, <1>1, <2>1, DropFacts DEF LocalOK, EnterLocs, ExitLocs
  <2> QED
    BY <1>0, <1>1, <2>1, <2>2, DropFacts, QuietStep
<1>3. CASE rwl_owner = o[p]
  <2>1. /\ rwl_owner' = inc(op[p], p, rwl_owner)
        /\ held' = [held EXCEPT ![p] = granted(op[p])]
        /\ \/ o[p].wrlock /\ o[p].wait /\ Drop(p, "downgrade_wake")
           \/ ~(o[p].wrlock /\ o[p].wait) /\ Return(p)
    BY <1>3 DEF rw_enter_cas
  <2>2. p \in Nat /\ p > 0 /\ rwl_owner \in Word /\ rwl_owner.hi \in Nat /\ op[p] \in Ops
    BY <1>0, HolderFacts, ProcsAssumption DEF TypeOK, Word
  <2>3. /\ rwl_owner' \in Word /\ WordMatchesHolders' /\ MarksOnlyWhileHeld'
        /\ rwl_owner.wait => rwl_owner'.wait
    <3>1. CASE op[p] = "RW_READ"
      <4>1. ~rwl_owner.wrlock /\ held[p] = "none" /\ held' = [held EXCEPT ![p] = "read"]
        BY <1>1, <1>3, <2>1, <3>1 DEF check, granted
      <4>2. /\ rwl_owner' \in Word /\ rwl_owner'.hi = rwl_owner.hi + 1 /\ ~rwl_owner'.wrlock
            /\ rwl_owner'.wait = rwl_owner.wait /\ rwl_owner'.wrwant = rwl_owner.wrwant
        BY <2>1, <2>2, <3>1, <4>1, IncRead
      <4>3. WordMatchesHolders'
        BY <1>0, <4>1, <4>2, ReaderEnters
      <4> QED
        BY <1>0, <2>2, <4>2, <4>3 DEF MarksOnlyWhileHeld
    <3>2. CASE op[p] = "RW_WRITE"
      <4>1. rwl_owner = Zero /\ held' = [held EXCEPT ![p] = "write"]
        BY <1>1, <1>3, <2>1, <3>2 DEF check, granted
      <4>2. /\ rwl_owner' \in Word /\ rwl_owner'.hi = p /\ rwl_owner'.wrlock
            /\ ~rwl_owner'.wait /\ ~rwl_owner'.wrwant
        BY <2>1, <2>2, <3>2, <4>1, IncWrite
      <4>3. WordMatchesHolders'
        BY <1>0, <4>1, <4>2, WriterEnters
      <4>4. ~rwl_owner.wait
        BY <4>1, ZeroFacts
      <4> QED
        BY <4>2, <4>3, <4>4 DEF MarksOnlyWhileHeld
    <3>3. CASE op[p] = "RW_DOWNGRADE"
      <4>1. held[p] = "write" /\ held' = [held EXCEPT ![p] = "read"] /\ rwl_owner.hi = p
        BY <1>0, <1>1, <2>1, <3>3, HolderFacts DEF granted
      <4>2. /\ rwl_owner' \in Word /\ rwl_owner'.hi = 1 /\ ~rwl_owner'.wrlock
            /\ rwl_owner'.wait = rwl_owner.wait /\ rwl_owner'.wrwant = rwl_owner.wrwant
        <5>1. rwl_owner' = inc("RW_DOWNGRADE", p, rwl_owner)
          BY <2>1, <3>3
        <5>2. /\ inc("RW_DOWNGRADE", p, rwl_owner) \in Word
              /\ inc("RW_DOWNGRADE", p, rwl_owner).hi = 1
              /\ inc("RW_DOWNGRADE", p, rwl_owner).wrlock = FALSE
              /\ inc("RW_DOWNGRADE", p, rwl_owner).wait = rwl_owner.wait
              /\ inc("RW_DOWNGRADE", p, rwl_owner).wrwant = rwl_owner.wrwant
          BY <2>2, <4>1, IncDowngrade
        <5> QED
          BY <5>1, <5>2
      <4>3. WordMatchesHolders'
        BY <1>0, <4>1, <4>2, WriterDowngrades
      <4> QED
        BY <1>0, <4>2, <4>3 DEF MarksOnlyWhileHeld
    <3> QED
      BY <2>2, <3>1, <3>2, <3>3 DEF Ops
  <2>5. held' \in [Procs -> {"none", "read", "write"}] /\ \A q \in Procs \ {p} : held'[q] = held[q]
    BY <1>0, <2>1 DEF TypeOK, granted
  <2>6. CASE Return(p)
    <3>1. TypeOK'
      BY <1>0, <1>1, <2>3, <2>5, <2>6, ReturnFacts DEF TypeOK, sleepq
    <3> QED
      BY <1>0, <1>1, <2>3, <2>5, <2>6, <3>1, ReturnFacts, LocalStep DEF Locs
  <2>7. CASE Drop(p, "downgrade_wake")
    <3>0. "downgrade_wake" \in Locs
      BY DEF Locs
    <3>1. TypeOK'
      BY <1>0, <1>1, <2>3, <2>5, <2>7, <3>0, DropFacts DEF TypeOK, sleepq
    <3>2. LocalOK(p)'
      BY <1>0, <2>7, <3>0, DropFacts DEF LocalOK, EnterLocs, ExitLocs
    <3> QED
      BY <1>0, <1>1, <2>3, <2>5, <2>7, <3>0, <3>1, <3>2, DropFacts, LocalStep
  <2> QED
    BY <2>1, <2>6, <2>7
<1> QED
  BY <1>2, <1>3

\* The releases, up to their CAS.
LEMMA ExitLoadPreserves ==
  ASSUME IInv, NEW p \in Procs,
         rw_exit_fast(p) \/ rw_exit_call(p) \/ rw_exit(p) \/ rw_exit_load(p)
  PROVE  IInv'
<1> USE DEF At
<1>0. TypeOK /\ WordMatchesHolders /\ MarksOnlyWhileHeld /\ LocalOK(p)
  BY DEF IInv
<1>1. CASE rw_exit_fast(p)
  <2> DEFINE loc == IF held[p] = "read" THEN "exit_read" ELSE "exit_write"
  <2>1. /\ pc' = [pc EXCEPT ![p] = loc] /\ o' = [o EXCEPT ![p] = rwl_owner]
        /\ UNCHANGED <<rwl_owner, held, sleepq>> /\ UNCHANGED <<wrlock, op, flags>>
        /\ pc[p] = "idle" /\ p_stat[p] = "SRUN" /\ held[p] # "none"
    BY <1>1 DEF rw_exit_fast, Goto
  <2>2. pc'[p] = loc /\ held[p] \in {"read", "write"}
    BY <1>0, <2>1 DEF TypeOK
  <2>3. LocalOK(p)'
    BY <2>1, <2>2 DEF LocalOK, EnterLocs, ExitLocs
  <2> QED
    BY <1>0, <2>1, <2>3, QuietStep DEF Locs, TypeOK
<1>2. CASE rw_exit_call(p)
  <2>1. /\ pc' = [pc EXCEPT ![p] = "exit"] /\ UNCHANGED <<o, wrlock, op, flags>>
        /\ UNCHANGED <<rwl_owner, held, sleepq>>
        /\ pc[p] = "idle" /\ p_stat[p] = "SRUN" /\ held[p] # "none"
    BY <1>2 DEF rw_exit_call, Goto, locals
  <2>2. pc'[p] = "exit"
    BY <1>0, <2>1 DEF TypeOK
  <2>3. LocalOK(p)'
    BY <2>1, <2>2 DEF LocalOK, EnterLocs, ExitLocs
  <2> QED
    BY <1>0, <2>1, <2>3, QuietStep DEF Locs, TypeOK
<1>3. CASE rw_exit(p)
  <2>1. pc[p] = "exit" /\ p_stat[p] = "SRUN" /\ held[p] \in {"read", "write"}
    BY <1>0, <1>3 DEF rw_exit, LocalOK, ExitLocs, TypeOK
  <2>2. /\ rwl_owner.wrlock <=> held[p] = "write"
        /\ rwl_owner.wrlock => rwl_owner.hi = p
        /\ ~rwl_owner.wrlock => rwl_owner.hi # 0
    BY <1>0, <2>1, HolderFacts DEF TypeOK, Word
  <2>3. /\ pc' = [pc EXCEPT ![p] = "exit_load"]
        /\ wrlock' = [wrlock EXCEPT ![p] = rwl_owner.wrlock]
        /\ UNCHANGED <<rwl_owner, held, sleepq>> /\ UNCHANGED <<o, op, flags>>
    BY <1>3, <2>2 DEF rw_exit, Goto, rw_assert_wrlock, rw_assert_rdlock
  <2>4. /\ pc'[p] = "exit_load" /\ wrlock'[p] = rwl_owner.wrlock
        /\ wrlock' \in [Procs -> BOOLEAN]
    BY <1>0, <2>3 DEF TypeOK, Word
  <2>5. LocalOK(p)'
    BY <2>1, <2>2, <2>3, <2>4 DEF LocalOK, EnterLocs, ExitLocs
  <2> QED
    BY <1>0, <2>1, <2>3, <2>4, <2>5, QuietStep DEF Locs, TypeOK
<1>4. CASE rw_exit_load(p)
  <2>1. /\ pc' = [pc EXCEPT ![p] = "exit_cas"] /\ o' = [o EXCEPT ![p] = rwl_owner]
        /\ UNCHANGED <<rwl_owner, held, sleepq>> /\ UNCHANGED <<wrlock, op, flags>>
        /\ pc[p] = "exit_load" /\ p_stat[p] = "SRUN"
    BY <1>4 DEF rw_exit_load, Goto
  <2>2. pc'[p] = "exit_cas"
    BY <1>0, <2>1 DEF TypeOK
  <2>3. LocalOK(p)'
    BY <1>0, <2>1, <2>2 DEF LocalOK, EnterLocs, ExitLocs
  <2> QED
    BY <1>0, <2>1, <2>3, QuietStep DEF Locs, TypeOK
<1> QED
  BY <1>1, <1>2, <1>3, <1>4

\* The release itself, fast or slow: p gives up its hold, and if the WAIT bit
\* was set it goes on to the wakeup.
LEMMA Releases ==
  ASSUME IInv, NEW p \in Procs, p_stat[p] = "SRUN", UNCHANGED sleepq,
         pc[p] \notin {"exit_wake", "downgrade_wake"},
         held' = [held EXCEPT ![p] = "none"],
         \/ held[p] = "write" /\ rwl_owner' = Zero
         \/ held[p] = "read" /\ rwl_owner' = exit_set(FALSE, rwl_owner)
         \/ held[p] = "read" /\ rwl_owner' = [rwl_owner EXCEPT !.hi = @ - 1] /\ ~rwl_owner.wait,
         \/ Return(p) /\ ~rwl_owner.wait
         \/ Drop(p, "exit_wake")
  PROVE  IInv'
<1>0. TypeOK /\ WordMatchesHolders /\ MarksOnlyWhileHeld
  BY DEF IInv
<1>1. rwl_owner \in Word /\ rwl_owner.hi \in Nat
  BY <1>0 DEF TypeOK, Word
<1>2. rwl_owner' \in Word /\ WordMatchesHolders' /\ MarksOnlyWhileHeld'
  <2>1. CASE held[p] = "write" /\ rwl_owner' = Zero
    <3>1. WordMatchesHolders'
      BY <1>0, <2>1, WriterExits
    <3> QED
      BY <2>1, <3>1, ZeroFacts DEF MarksOnlyWhileHeld
  <2>2. CASE held[p] = "read" /\ rwl_owner' = exit_set(FALSE, rwl_owner)
    <3>1. ~rwl_owner.wrlock /\ rwl_owner.hi > 0
      BY <1>0, <2>2, HolderFacts
    <3>2. /\ rwl_owner' \in Word /\ rwl_owner'.hi = rwl_owner.hi - 1 /\ ~rwl_owner'.wrlock
          /\ ~rwl_owner'.wait /\ ~rwl_owner'.wrwant
      BY <1>1, <2>2, <3>1, ExitFacts
    <3>3. WordMatchesHolders'
      BY <1>0, <2>2, <3>1, <3>2, ReaderExits
    <3> QED
      BY <3>2, <3>3 DEF MarksOnlyWhileHeld
  <2>3. CASE held[p] = "read" /\ rwl_owner' = [rwl_owner EXCEPT !.hi = @ - 1] /\ ~rwl_owner.wait
    <3>1. ~rwl_owner.wrlock /\ rwl_owner.hi > 0
      BY <1>0, <2>3, HolderFacts
    <3>2. /\ rwl_owner' \in Word /\ rwl_owner'.hi = rwl_owner.hi - 1 /\ ~rwl_owner'.wrlock
          /\ ~rwl_owner'.wait /\ ~rwl_owner'.wrwant
      BY <1>0, <1>1, <2>3, <3>1, ExitFacts DEF MarksOnlyWhileHeld
    <3>3. WordMatchesHolders'
      BY <1>0, <2>3, <3>1, <3>2, ReaderExits
    <3> QED
      BY <3>2, <3>3 DEF MarksOnlyWhileHeld
  <2> QED
    BY <2>1, <2>2, <2>3
<1>3. held' \in [Procs -> {"none", "read", "write"}] /\ \A q \in Procs \ {p} : held'[q] = held[q]
  BY <1>0 DEF TypeOK
<1>4. CASE Return(p) /\ ~rwl_owner.wait
  <2>1. TypeOK'
    BY <1>0, <1>2, <1>3, <1>4, ReturnFacts DEF TypeOK, sleepq
  <2> QED
    BY <1>0, <1>2, <1>3, <1>4, <2>1, ReturnFacts, LocalStep DEF Locs
<1>5. CASE Drop(p, "exit_wake")
  <2>0. "exit_wake" \in Locs
    BY DEF Locs
  <2>1. TypeOK'
    BY <1>0, <1>2, <1>3, <1>5, <2>0, DropFacts DEF TypeOK, sleepq
  <2>2. LocalOK(p)'
    BY <1>0, <1>5, <2>0, DropFacts DEF LocalOK, EnterLocs, ExitLocs
  <2> QED
    BY <1>0, <1>2, <1>3, <1>5, <2>0, <2>1, <2>2, DropFacts, LocalStep
<1> QED
  BY <1>4, <1>5

\* The CASes that release.
LEMMA ExitCasPreserves ==
  ASSUME IInv, NEW p \in Procs, rw_exit_fast_cas(p) \/ rw_exit_cas(p)
  PROVE  IInv'
<1> USE DEF At
<1>0. TypeOK /\ WordMatchesHolders /\ MarksOnlyWhileHeld /\ LocalOK(p)
  BY DEF IInv
<1>1. /\ p_stat[p] = "SRUN" /\ UNCHANGED sleepq
      /\ pc[p] \in {"exit_read", "exit_write", "exit_cas"}
  BY DEF rw_exit_fast_cas, rw_exit_cas
<1>2. held[p] \in {"read", "write"}
  BY <1>0, <1>1 DEF LocalOK, ExitLocs, TypeOK
<1>3. ASSUME NEW loc \in {"exit", "exit_load"}, Drop(p, loc), UNCHANGED <<rwl_owner, held>>,
             loc = "exit_load" => pc[p] = "exit_cas"
      PROVE  IInv'
  <2>0. loc \in Locs /\ loc \notin {"panic", "asleep", "cursig"}
    BY DEF Locs
  <2>1. LocalOK(p)'
    BY <1>0, <1>1, <1>2, <1>3, <2>0, DropFacts DEF LocalOK, EnterLocs, ExitLocs
  <2> QED
    BY <1>0, <1>1, <1>3, <2>0, <2>1, DropFacts, QuietStep
<1>4. CASE rw_exit_fast_cas(p)
  <2>1. pc[p] \in {"exit_read", "exit_write"}
    BY <1>4 DEF rw_exit_fast_cas
  <2>2. /\ pc[p] = "exit_read" => held[p] = "read" /\ rw_assert_rdlock
        /\ pc[p] # "exit_read" => held[p] = "write" /\ rw_assert_wrlock(p)
    BY <1>0, <2>1, HolderFacts DEF LocalOK, rw_assert_rdlock, rw_assert_wrlock, TypeOK, Word
  <2>3. \/ Drop(p, "exit") /\ UNCHANGED <<rwl_owner, held>>
        \/ /\ ~o[p].wait /\ rwl_owner = o[p]
           /\ rwl_owner' = IF pc[p] = "exit_read" THEN [o[p] EXCEPT !.hi = @ - 1] ELSE Zero
           /\ held' = [held EXCEPT ![p] = "none"]
           /\ Return(p)
    BY <1>4, <2>1, <2>2 DEF rw_exit_fast_cas
  <2>4. CASE Drop(p, "exit") /\ UNCHANGED <<rwl_owner, held>>
    BY <1>3, <2>4
  <2>5. CASE /\ ~o[p].wait /\ rwl_owner = o[p]
             /\ rwl_owner' = IF pc[p] = "exit_read" THEN [o[p] EXCEPT !.hi = @ - 1] ELSE Zero
             /\ held' = [held EXCEPT ![p] = "none"]
             /\ Return(p)
    <3>1. ~rwl_owner.wait
      BY <2>5
    <3>2. \/ held[p] = "write" /\ rwl_owner' = Zero
          \/ held[p] = "read" /\ rwl_owner' = [rwl_owner EXCEPT !.hi = @ - 1]
      BY <2>2, <2>5
    <3> QED
      BY <1>1, <2>5, <3>1, <3>2, Releases
  <2> QED
    BY <2>3, <2>4, <2>5
<1>5. CASE rw_exit_cas(p)
  <2>1. pc[p] = "exit_cas" /\ (wrlock[p] <=> held[p] = "write")
    BY <1>0, <1>5 DEF rw_exit_cas, LocalOK
  <2>2. CASE rwl_owner # o[p]
    BY <1>3, <1>5, <2>1, <2>2 DEF rw_exit_cas
  <2>3. CASE rwl_owner = o[p]
    <3>1. /\ rwl_owner' = exit_set(wrlock[p], rwl_owner)
          /\ held' = [held EXCEPT ![p] = "none"]
          /\ (Return(p) /\ ~rwl_owner.wait) \/ Drop(p, "exit_wake")
      BY <1>5, <2>3 DEF rw_exit_cas
    <3>2. CASE held[p] = "write"
      <4>1. rwl_owner' = Zero
        BY <2>1, <3>1, <3>2 DEF exit_set
      <4> QED
        BY <1>1, <3>1, <3>2, <4>1, Releases
    <3>3. CASE held[p] = "read"
      <4>1. wrlock[p] = FALSE
        BY <1>0, <2>1, <3>3 DEF TypeOK
      <4>2. rwl_owner' = exit_set(FALSE, rwl_owner)
        BY <3>1, <4>1
      <4> QED
        BY <1>1, <3>1, <3>3, <4>2, Releases
    <3> QED
      BY <1>2, <3>2, <3>3
  <2> QED
    BY <2>2, <2>3
<1> QED
  BY <1>4, <1>5

\* wakeup(): nobody stays on the queue.
LEMMA WakeupPreserves ==
  ASSUME IInv, NEW p \in Procs, rw_enter_wakeup(p) \/ rw_exit_wakeup(p)
  PROVE  IInv'
<1> USE DEF At
<1>0. TypeOK /\ WordMatchesHolders /\ MarksOnlyWhileHeld /\ LocalOK(p)
  BY DEF IInv
<1>1. /\ wakeup /\ Return(p) /\ UNCHANGED <<rwl_owner, held>>
      /\ pc[p] \in {"exit_wake", "downgrade_wake"}
  BY DEF rw_enter_wakeup, rw_exit_wakeup
<1>2. /\ p_wchan' = [q \in Procs |-> FALSE]
      /\ p_stat' \in [Procs -> {"SRUN", "SSLEEP", "SSTOP"}]
      /\ \A q \in Procs : p_stat'[q] \in {p_stat[q], "SRUN"}
      /\ \A q \in Procs : p_wchan[q] => p_stat'[q] # "SSLEEP"
  BY <1>0, <1>1 DEF wakeup, TypeOK
<1>3. TypeOK'
  BY <1>0, <1>1, <1>2, ReturnFacts DEF TypeOK
<1>4. WordMatchesHolders' /\ MarksOnlyWhileHeld'
  BY <1>0, <1>1 DEF WordMatchesHolders, MarksOnlyWhileHeld, Readers
<1>5. pc'[p] = "idle" /\ \A q \in Procs \ {p} : pc'[q] = pc[q]
  BY <1>0, <1>1, ReturnFacts DEF TypeOK
<1>6. NoPanic'
  BY <1>5 DEF IInv, NoPanic
<1>7. \A q \in Procs \ {p} : o'[q] = o[q] /\ wrlock'[q] = wrlock[q] /\ op'[q] = op[q]
  BY <1>0, <1>1, ReturnFacts
<1>8. LocalOK(p)'
  BY <1>0, <1>1, ReturnFacts
<1>9. ASSUME NEW q \in Procs PROVE LocalOK(q)'
  BY <1>1, <1>5, <1>7, <1>8 DEF IInv, LocalOK, check
<1>10. ASSUME NEW q \in Procs PROVE SleepOK(q)'
  BY <1>1, <1>2, <1>5 DEF IInv, SleepOK
<1>11. QueuedAnnounced'
  BY <1>2 DEF QueuedAnnounced
<1> QED
  BY <1>3, <1>4, <1>6, <1>9, <1>10, <1>11 DEF IInv

\* Signals touch the scheduler's state only.
LEMMA SignalPreserves ==
  ASSUME IInv, NEW p \in Procs, Signal(p)
  PROVE  IInv'
<1>0. TypeOK /\ WordMatchesHolders /\ MarksOnlyWhileHeld /\ SleepOK(p)
  BY DEF IInv
<1>1. UNCHANGED <<rwl_owner, pc, held>> /\ UNCHANGED <<o, wrlock, op, flags>>
  BY DEF Signal, ptsignal_intr, ptsignal_stop, ptsignal_cont, locals
<1>2. /\ p_wchan' \in [Procs -> BOOLEAN] /\ p_stat' \in [Procs -> {"SRUN", "SSLEEP", "SSTOP"}]
      /\ \A q \in Procs \ {p} : p_wchan'[q] = p_wchan[q] /\ p_stat'[q] = p_stat[q]
  BY <1>0 DEF Signal, ptsignal_intr, ptsignal_stop, ptsignal_cont, TypeOK
<1>3. SleepOK(p)' /\ (p_wchan'[p] => p_wchan[p])
  BY <1>0, <1>1
     DEF Signal, ptsignal_intr, ptsignal_stop, ptsignal_cont, TypeOK, SleepOK, Interruptible
<1>4. TypeOK' /\ WordMatchesHolders' /\ MarksOnlyWhileHeld' /\ NoPanic'
  BY <1>0, <1>1, <1>2
     DEF IInv, TypeOK, WordMatchesHolders, MarksOnlyWhileHeld, Readers, NoPanic
<1>5. ASSUME NEW q \in Procs PROVE LocalOK(q)' /\ SleepOK(q)'
  BY <1>1, <1>2, <1>3 DEF IInv, LocalOK, SleepOK, check
<1>6. QueuedAnnounced'
  BY <1>1, <1>2, <1>3 DEF IInv, QueuedAnnounced, WakeupPending
<1> QED
  BY <1>4, <1>5, <1>6 DEF IInv

(***************************************************************************)
(* The theorems.                                                           *)
(***************************************************************************)

\* The inductive invariant holds initially ...
LEMMA InitIInv == Init => IInv
<1> SUFFICES ASSUME Init PROVE IInv
  OBVIOUS
<1>1. TypeOK
  BY ZeroFacts DEF Init, TypeOK, Locs, Ops
<1>2. Readers = {}
  BY DEF Init, Readers
<1>3. WordMatchesHolders
  BY <1>2, FS_EmptySet, ZeroFacts DEF Init, WordMatchesHolders
<1>4. MarksOnlyWhileHeld /\ NoPanic /\ QueuedAnnounced
  BY ZeroFacts DEF Init, MarksOnlyWhileHeld, NoPanic, QueuedAnnounced
<1>5. ASSUME NEW p \in Procs PROVE LocalOK(p) /\ SleepOK(p)
  BY DEF Init, LocalOK, SleepOK, EnterLocs, ExitLocs
<1> QED
  BY <1>1, <1>3, <1>4, <1>5 DEF IInv

\* ... and no step of any thread, and no signal, invalidates it.
LEMMA NextIInv == IInv /\ [Next]_vars => IInv'
<1> SUFFICES ASSUME IInv, [Next]_vars PROVE IInv'
  OBVIOUS
<1>1. CASE UNCHANGED vars
  BY <1>1 DEF vars, locals, sleepq, IInv, TypeOK, WordMatchesHolders, Readers,
     MarksOnlyWhileHeld, NoPanic, LocalOK, SleepOK, QueuedAnnounced, WakeupPending, check
<1>2. ASSUME NEW p \in Procs, Call(p) \/ Release(p) PROVE IInv'
  BY <1>2, EnterReadPreserves, EnterCallPreserves, ExitLoadPreserves DEF Call, Release
<1>3. ASSUME NEW p \in Procs, Step(p) PROVE IInv'
  BY <1>3, EnterReadPreserves, EnterLoopPreserves, SleepPreserves, EnterCasPreserves,
     WakeupPreserves, ExitLoadPreserves, ExitCasPreserves DEF Step
<1> QED
  BY <1>1, <1>2, <1>3, SignalPreserves DEF Next

\* kern_rwlock.c keeps its word, its threads' locals and the sleep queue
\* consistent, for any number of threads and any signals.
THEOREM Invariance == Spec => []IInv
BY InitIInv, NextIInv, PTL DEF Spec

\* Type correctness.
THEOREM TypeCorrect == Spec => []TypeOK
<1>1. IInv => TypeOK
  BY DEF IInv
<1> QED
  BY <1>1, Invariance, PTL

\* The lock word always names the writer or counts the readers.
THEOREM WordCorrect == Spec => []WordMatchesHolders
<1>1. IInv => WordMatchesHolders
  BY DEF IInv
<1> QED
  BY <1>1, Invariance, PTL

\* The marks never outlive the holders (rwlock.h's claim).
THEOREM MarksCorrect == Spec => []MarksOnlyWhileHeld
<1>1. IInv => MarksOnlyWhileHeld
  BY DEF IInv
<1> QED
  BY <1>1, Invariance, PTL

\* None of the DIAGNOSTIC panics can fire.
THEOREM NeverPanics == Spec => []NoPanic
<1>1. IInv => NoPanic
  BY DEF IInv
<1> QED
  BY <1>1, Invariance, PTL

\* A thread that has switched away on the lock's queue will be woken by the
\* next release, whatever signals stop and continue it.
THEOREM NoLostWakeup == Spec => []QueuedAnnounced
<1>1. IInv => QueuedAnnounced
  BY DEF IInv
<1> QED
  BY <1>1, Invariance, PTL

\* Without stop signals that covers every sleeping thread.
THEOREM NoLostWakeupUnlessStopped ==
  ASSUME "stop" \notin Signals
  PROVE  Spec => []SleeperAnnounced
<1>1. IInv => SleeperAnnounced
  BY DEF IInv, SleeperAnnounced, QueuedAnnounced, SleepOK
<1> QED
  BY <1>1, Invariance, PTL

\* rw_status() tells holders the truth.
THEOREM StatusCorrect == Spec => []StatusTruthful
<1>1. ASSUME IInv, NEW p \in Procs
      PROVE  /\ held[p] = "write" <=> rw_status(p) = "RW_WRITE"
             /\ held[p] = "read" => rw_status(p) = "RW_READ"
  <2>1. TypeOK /\ WordMatchesHolders
    BY <1>1 DEF IInv
  <2>2. held[p] = "read" => rwl_owner # Zero
    BY <2>1, HolderFacts, ZeroFacts DEF TypeOK
  <2> QED
    BY <2>1, <2>2, HolderFacts DEF rw_status
<1>2. IInv => StatusTruthful
  BY <1>1 DEF StatusTruthful
<1> QED
  BY <1>2, Invariance, PTL

\* Every step of kern_rwlock.c is a step of the abstract lock or changes
\* nobody's hold.
LEMMA StepRefines ==
  ASSUME IInv, NEW p \in Procs, Call(p) \/ Release(p) \/ Step(p) \/ Signal(p)
  PROVE  [Lock!Next]_held
<1> USE DEF At
<1>0. TypeOK /\ WordMatchesHolders /\ LocalOK(p)
  BY DEF IInv
<1>1. ASSUME held[p] = "none", ~rwl_owner.wrlock, held' = [held EXCEPT ![p] = "read"]
      PROVE  Lock!Next
  <2>1. \A q \in Procs : held[q] # "write"
    BY <1>0, <1>1 DEF WordMatchesHolders
  <2> QED
    BY <1>1, <2>1 DEF Lock!Next, Lock!Read
<1>2. ASSUME rwl_owner = Zero, held' = [held EXCEPT ![p] = "write"]
      PROVE  Lock!Next
  <2>1. \A q \in Procs : held[q] = "none"
    BY <1>0, <1>2, HolderFacts
  <2> QED
    BY <1>2, <2>1 DEF Lock!Next, Lock!Write
<1>3. ASSUME held[p] = "write", held' = [held EXCEPT ![p] = "read"]
      PROVE  Lock!Next
  BY <1>3 DEF Lock!Next, Lock!Downgrade
<1>4. ASSUME held[p] # "none", held' = [held EXCEPT ![p] = "none"]
      PROVE  Lock!Next
  BY <1>4 DEF Lock!Next, Lock!Exit
<1>5. CASE rw_enter_read_cas(p)
  BY <1>0, <1>1, <1>5 DEF rw_enter_read_cas, LocalOK, EnterLocs
<1>6. CASE rw_enter_write(p)
  BY <1>2, <1>6 DEF rw_enter_write
<1>7. CASE rw_enter_cas(p)
  <2>1. CASE rwl_owner # o[p]
    BY <1>7, <2>1 DEF rw_enter_cas
  <2>2. CASE rwl_owner = o[p]
    <3>1. /\ held' = [held EXCEPT ![p] = granted(op[p])] /\ ~check(op[p], rwl_owner)
          /\ held[p] = IF op[p] = "RW_DOWNGRADE" THEN "write" ELSE "none"
      BY <1>0, <1>7, <2>2 DEF rw_enter_cas, LocalOK
    <3>2. op[p] \in Ops
      BY <1>0 DEF TypeOK
    <3> QED
      BY <1>1, <1>2, <1>3, <3>1, <3>2 DEF Ops, granted, check
  <2> QED
    BY <2>1, <2>2
<1>8. CASE rw_exit_fast_cas(p)
  <2>1. held[p] # "none"
    BY <1>0, <1>8 DEF rw_exit_fast_cas, LocalOK
  <2> QED
    BY <1>4, <1>8, <2>1 DEF rw_exit_fast_cas
<1>9. CASE rw_exit_cas(p)
  <2>1. held[p] # "none"
    BY <1>0, <1>9 DEF rw_exit_cas, LocalOK, ExitLocs
  <2> QED
    BY <1>4, <1>9, <2>1 DEF rw_exit_cas
<1>10. CASE \/ rw_enter_read(p) \/ \E a \in Ops, f \in Flags : rw_enter(p, a, f)
            \/ Release(p) \/ Signal(p)
  BY <1>10 DEF rw_enter_read, rw_enter, Release, rw_exit_fast, rw_exit_call,
     Signal, ptsignal_intr, ptsignal_stop, ptsignal_cont
<1>11. CASE \/ rw_enter_load(p) \/ rw_enter_diag(p)
            \/ rw_enter_sleep(p) \/ rw_enter_sleep_signal(p) \/ rw_enter_sleep_stop(p)
            \/ rw_enter_cursig(p) \/ rw_enter_resume(p) \/ rw_enter_woken(p)
            \/ rw_enter_intr(p) \/ rw_enter_wakeup(p)
            \/ rw_exit(p) \/ rw_exit_load(p) \/ rw_exit_wakeup(p)
  BY <1>11 DEF rw_enter_load, rw_enter_diag, rw_enter_sleep, rw_enter_sleep_signal,
     rw_enter_sleep_stop, rw_enter_cursig, rw_enter_resume, rw_enter_woken,
     rw_enter_intr, rw_enter_wakeup, rw_exit, rw_exit_load, rw_exit_wakeup
<1> QED
  BY <1>5, <1>6, <1>7, <1>8, <1>9, <1>10, <1>11 DEF Call, Step

\* kern_rwlock.c implements the readers/writer lock of RWLockSpec.
THEOREM Refinement == Spec => ImplementsLock
<1>1. Init => Lock!Init
  BY DEF Init, Lock!Init
<1>2. IInv /\ [Next]_vars => [Lock!Next]_held
  <2>1. CASE UNCHANGED vars
    BY <2>1 DEF vars
  <2> QED
    BY <2>1, StepRefines DEF Next
<1> QED
  BY <1>1, <1>2, Invariance, PTL DEF Spec, ImplementsLock, Lock!Spec

-----------------------------------------------------------------------------
(***************************************************************************)
(* RRWLock: recursive use of the lock is only a user of kern_rwlock.c,     *)
(* which therefore keeps everything shown of it above, and the writer's    *)
(* nesting is counted right although rrwl_wcnt is shared by everyone who   *)
(* passes.                                                                 *)
(***************************************************************************)

\* Where a thread is that is not inside rw_enter(): with its caller, or on its
\* way out of the lock.
OutsideLocs == {"idle", "exit", "exit_load", "exit_cas", "exit_wake"}

\* The variables of this module have their types.
RRTypeOK ==
  /\ rrwl_wcnt \in Int
  /\ entering \in SUBSET Procs
  /\ depth \in [Procs -> Nat]

\* With lockmgr() a thread enters the lock only from rrw_enter(), and by the
\* time it is in the wakeup of rw_exit() it holds nothing: so the step that
\* brings it back to its caller from there never makes it a writer.
Outside ==
  \A p \in Procs : recursive /\ p \notin entering =>
    /\ pc[p] \in OutsideLocs
    /\ pc[p] = "exit_wake" => held[p] = "none"

RRInv == IInv /\ RRTypeOK /\ Outside /\ RecursionBalanced

\* Whatever a caller of lockmgr() does is, for the rwlock inside, a call of
\* rw_enter() or of rw_exit(), or nothing.
LEMMA RRStepIsStep == RRNext => [Next]_vars
<1> SUFFICES ASSUME RRNext PROVE [Next]_vars
  OBVIOUS
<1>1. ASSUME NEW p \in Procs, Call(p) \/ Release(p) \/ Step(p) \/ Signal(p)
      PROVE  Next
  BY <1>1 DEF Next
<1>2. ASSUME NEW p \in Procs, rrw_enter(p) PROVE UNCHANGED vars
  BY <1>2 DEF rrw_enter
<1>3. ASSUME NEW p \in Procs, rrw_exit(p) PROVE UNCHANGED vars \/ Release(p)
  BY <1>3 DEF rrw_exit, Release
<1>4. ASSUME NEW p \in Procs, NEW lk \in Requests, lockmgr(p, lk)
      PROVE  UNCHANGED vars \/ Call(p)
  <2>1. rwop(lk) \in Ops /\ rwflags(lk) \in Flags
    BY RequestsAssumption DEF rwop, rwflags, Ops
  <2>2. UNCHANGED vars \/ rw_enter(p, rwop(lk), rwflags(lk))
    BY <1>4 DEF lockmgr
  <2> QED
    BY <2>1, <2>2 DEF Call
<1> QED
  BY <1>1, <1>2, <1>3, <1>4 DEF RRNext

\* The steps of one thread inside kern_rwlock.c leave the others where they
\* are and what they hold to them.
LEMMA StepFrame ==
  ASSUME TypeOK, NEW p \in Procs, Step(p)
  PROVE  \A q \in Procs \ {p} : pc'[q] = pc[q] /\ held'[q] = held[q]
<1>1. \/ pc' = pc
      \/ \E loc \in Locs : pc' = [pc EXCEPT ![p] = loc]
  BY DEF Step, rw_enter_read_cas, rw_enter_load, rw_enter_diag, rw_enter_sleep,
     rw_enter_sleep_signal, rw_enter_sleep_stop, rw_enter_cursig, rw_enter_resume,
     rw_enter_woken, rw_enter_intr, rw_enter_cas, rw_enter_wakeup, rw_exit_fast_cas,
     rw_exit, rw_exit_load, rw_exit_cas, rw_exit_wakeup, after_sleep, Drop, Return,
     Goto, Locs
<1>2. \/ held' = held
      \/ held' = [held EXCEPT ![p] = "none"]
      \/ held' = [held EXCEPT ![p] = "read"]
      \/ held' = [held EXCEPT ![p] = granted(op[p])]
  BY DEF Step, rw_enter_read_cas, rw_enter_load, rw_enter_diag, rw_enter_sleep,
     rw_enter_sleep_signal, rw_enter_sleep_stop, rw_enter_cursig, rw_enter_resume,
     rw_enter_woken, rw_enter_intr, rw_enter_cas, rw_enter_wakeup, rw_exit_fast_cas,
     rw_exit, rw_exit_load, rw_exit_cas, rw_exit_wakeup
<1> QED
  BY <1>1, <1>2 DEF TypeOK

\* A thread on its way out stays there until it is back with its caller, and
\* then it holds nothing.
LEMMA ExitPath ==
  ASSUME IInv, NoPanic', NEW p \in Procs, Step(p), pc[p] \in OutsideLocs,
         pc[p] = "exit_wake" => held[p] = "none"
  PROVE  /\ pc'[p] \in OutsideLocs
         /\ pc'[p] \in {"idle", "exit_wake"} => held'[p] = "none"
<1> USE DEF At
<1>0. TypeOK
  BY DEF IInv
<1>1. \/ rw_exit(p) \/ rw_exit_load(p) \/ rw_exit_cas(p) \/ rw_exit_wakeup(p)
  BY DEF Step, OutsideLocs, rw_enter_read_cas, rw_enter_load, rw_enter_diag,
     rw_enter_sleep, rw_enter_sleep_signal, rw_enter_sleep_stop, rw_enter_cursig,
     rw_enter_resume, rw_enter_woken, rw_enter_intr, rw_enter_cas, rw_enter_wakeup,
     rw_exit_fast_cas
<1>2. CASE rw_exit(p)
  <2>1. pc'[p] \in {"exit_load", "panic"}
    BY <1>0, <1>2 DEF rw_exit, Goto, TypeOK
  <2> QED
    BY <2>1 DEF NoPanic, OutsideLocs
<1>3. CASE rw_exit_load(p)
  BY <1>0, <1>3 DEF rw_exit_load, Goto, TypeOK, OutsideLocs
<1>4. CASE rw_exit_cas(p)
  BY <1>0, <1>4 DEF rw_exit_cas, Drop, Return, Goto, TypeOK, OutsideLocs
<1>5. CASE rw_exit_wakeup(p)
  BY <1>0, <1>5 DEF rw_exit_wakeup, Return, Goto, TypeOK, OutsideLocs
<1> QED
  BY <1>1, <1>2, <1>3, <1>4, <1>5

\* The recursion invariant holds initially.
LEMMA InitRRInv == RRInit => RRInv
<1> SUFFICES ASSUME RRInit PROVE RRInv
  OBVIOUS
<1>1. IInv
  BY InitIInv DEF RRInit
<1>2. RRTypeOK
  BY DEF RRInit, RRTypeOK
<1>3. Outside /\ RecursionBalanced
  BY DEF RRInit, Init, Outside, OutsideLocs, RecursionBalanced
<1> QED
  BY <1>1, <1>2, <1>3 DEF RRInv

\* The steps of the rwlock itself: only the thread that takes the step can come
\* back to its caller, and not as a writer.
LEMMA StepRRInv ==
  ASSUME RRInv, IInv', NEW p \in Procs, Step(p),
         UNCHANGED <<recursive, rrwl_wcnt, entering, depth>>
  PROVE  RRTypeOK' /\ Outside' /\ RecursionBalanced'
<1>0. TypeOK /\ NoPanic'
  BY DEF RRInv, IInv
<1>1. \A q \in Procs \ {p} : pc'[q] = pc[q] /\ held'[q] = held[q]
  BY <1>0, StepFrame
<1>2. recursive /\ p \notin entering =>
         /\ pc'[p] \in OutsideLocs
         /\ pc'[p] \in {"idle", "exit_wake"} => held'[p] = "none"
  BY <1>0, ExitPath DEF RRInv, Outside
<1>3. RRTypeOK'
  BY DEF RRInv, RRTypeOK
<1>4. Outside'
  BY <1>1, <1>2 DEF RRInv, Outside
<1>5. RecursionBalanced'
  <2>1. \A q \in Procs : pc'[q] # "idle" \/ q = p \/ At(q, "idle")
    BY <1>1 DEF RRInv, IInv, SleepOK, At
  <2> QED
    BY <1>1, <1>2, <2>1 DEF RRInv, RecursionBalanced, At
<1> QED
  BY <1>3, <1>4, <1>5

\* rw_enter() has returned: a reader's store to rrwl_wcnt cannot disturb a
\* writer, since there is none.
LEMMA EnterRRInv ==
  ASSUME RRInv, NEW p \in Procs, rrw_enter(p)
  PROVE  RRTypeOK' /\ Outside' /\ RecursionBalanced'
<1>0. TypeOK /\ WordMatchesHolders
  BY DEF RRInv, IInv
<1>1. /\ rrwl_wcnt' = IF held[p] # "none" THEN 1 ELSE rrwl_wcnt
      /\ depth' = [depth EXCEPT ![p] = IF held[p] # "none" THEN 1 ELSE 0]
      /\ entering' = entering \ {p} /\ UNCHANGED <<pc, held, p_stat, recursive>>
      /\ pc[p] = "idle"
  BY DEF rrw_enter, count, At, vars, sleepq
<1>2. RRTypeOK'
  BY <1>1 DEF RRInv, RRTypeOK
<1>3. Outside'
  BY <1>1 DEF RRInv, Outside, OutsideLocs
<1>4. ASSUME NEW q \in Procs, q # p, held[q] = "write"
      PROVE  rrwl_wcnt' = rrwl_wcnt /\ depth'[q] = depth[q]
  <2>1. held[p] = "none"
    BY <1>0, <1>4, HolderFacts
  <2> QED
    BY <1>1, <1>4, <2>1 DEF RRInv, RRTypeOK
<1>5. held[p] = "write" => rrwl_wcnt' = 1 /\ depth'[p] = 1
  BY <1>1 DEF RRInv, RRTypeOK
<1>6. RecursionBalanced'
  BY <1>1, <1>4, <1>5 DEF RRInv, RecursionBalanced, At
<1> QED
  BY <1>2, <1>3, <1>6

\* A release: the writer counts down, and leaves when nothing is left.
LEMMA ExitRRInv ==
  ASSUME RRInv, NEW p \in Procs, rrw_exit(p)
  PROVE  RRTypeOK' /\ Outside' /\ RecursionBalanced'
<1>0. TypeOK /\ WordMatchesHolders
  BY DEF RRInv, IInv
<1>1. /\ recursive /\ At(p, "idle") /\ p \notin entering /\ depth[p] > 0
      /\ depth' = [depth EXCEPT ![p] = depth[p] - 1]
      /\ rrwl_wcnt' = IF owns(p) THEN rrwl_wcnt - 1 ELSE rrwl_wcnt
      /\ UNCHANGED <<recursive, entering, held, p_stat>>
  BY DEF rrw_exit, rw_exit_call, vars, sleepq
<1>2. \/ UNCHANGED pc /\ owns(p) /\ rrwl_wcnt' # 0
      \/ pc' = [pc EXCEPT ![p] = "exit"]
  BY DEF rrw_exit, rw_exit_call, vars, Goto
<1>3. RRTypeOK'
  BY <1>1 DEF RRInv, RRTypeOK
<1>4. Outside'
  BY <1>0, <1>1, <1>2 DEF RRInv, Outside, OutsideLocs, TypeOK, At
<1>5. ASSUME NEW q \in Procs, q # p, held[q] = "write"
      PROVE  rrwl_wcnt' = rrwl_wcnt /\ depth'[q] = depth[q] /\ pc'[q] = pc[q]
  <2>1. ~owns(p)
    BY <1>0, <1>5, HolderFacts DEF owns
  <2> QED
    BY <1>0, <1>1, <1>2, <1>5, <2>1 DEF RRInv, RRTypeOK, TypeOK
<1>6. held[p] = "write" /\ pc'[p] = "idle" => rrwl_wcnt' = depth'[p] /\ depth'[p] > 0
  <2>1. held[p] = "write" => rrwl_wcnt = depth[p]
    BY <1>1 DEF RRInv, RecursionBalanced
  <2>2. depth'[p] = depth[p] - 1 /\ depth[p] \in Nat
    BY <1>1 DEF RRInv, RRTypeOK
  <2>3. pc'[p] = "idle" => owns(p) /\ rrwl_wcnt' # 0
    BY <1>0, <1>2 DEF TypeOK
  <2> QED
    BY <1>1, <2>1, <2>2, <2>3
<1>7. RecursionBalanced'
  BY <1>1, <1>5, <1>6 DEF RRInv, RecursionBalanced, At
<1> QED
  BY <1>3, <1>4, <1>7

\* A request: the writer counts up, and anyone else calls rw_enter().
LEMMA LockmgrRRInv ==
  ASSUME RRInv, NEW p \in Procs, NEW lk \in Requests, lockmgr(p, lk)
  PROVE  RRTypeOK' /\ Outside' /\ RecursionBalanced'
<1>0. TypeOK /\ WordMatchesHolders
  BY DEF RRInv, IInv
<1>1. /\ At(p, "idle") /\ p \notin entering
      /\ UNCHANGED <<recursive, held, p_stat>>
  BY DEF lockmgr, rw_enter, vars, sleepq
<1>2. CASE owns(p)
  <2>1. /\ UNCHANGED <<pc, entering>>
        /\ \/ rrwl_wcnt' = rrwl_wcnt + 1 /\ depth' = [depth EXCEPT ![p] = depth[p] + 1]
           \/ UNCHANGED <<rrwl_wcnt, depth>>
    BY <1>2 DEF lockmgr, vars
  <2>2. \A q \in Procs \ {p} : held[q] # "write"
    BY <1>0, <1>2, HolderFacts DEF owns
  <2>3. RRTypeOK' /\ Outside'
    BY <1>1, <2>1 DEF RRInv, RRTypeOK, Outside
  <2>4. ASSUME recursive, held[p] = "write" PROVE rrwl_wcnt' = depth'[p] /\ depth'[p] > 0
    <3>1. rrwl_wcnt = depth[p] /\ depth[p] > 0 /\ depth \in [Procs -> Nat]
      BY <1>1, <2>4 DEF RRInv, RecursionBalanced, RRTypeOK
    <3> QED
      BY <2>1, <3>1
  <2>5. RecursionBalanced'
    BY <1>1, <2>1, <2>2, <2>4 DEF RecursionBalanced, At
  <2> QED
    BY <2>3, <2>5
<1>3. CASE ~owns(p)
  <2>1. /\ UNCHANGED <<rrwl_wcnt, depth>> /\ entering' = entering \cup {p}
        /\ \A q \in Procs \ {p} : pc'[q] = pc[q]
    BY <1>0, <1>3 DEF lockmgr, rw_enter, Goto, TypeOK
  <2> QED
    BY <1>1, <2>1 DEF RRInv, RRTypeOK, Outside, RecursionBalanced, At
<1> QED
  BY <1>2, <1>3

\* ... and no step invalidates it.
LEMMA NextRRInv == RRInv /\ [RRNext]_rrvars => RRInv'
<1> SUFFICES ASSUME RRInv, [RRNext]_rrvars PROVE RRInv'
  OBVIOUS
<1>1. IInv'
  BY RRStepIsStep, NextIInv DEF RRInv, rrvars
<1> SUFFICES RRTypeOK' /\ Outside' /\ RecursionBalanced'
  BY <1>1 DEF RRInv
<1>2. CASE UNCHANGED rrvars
  BY <1>2 DEF rrvars, vars, sleepq, RRInv, RRTypeOK, Outside, RecursionBalanced, At
<1>3. ASSUME NEW p \in Procs, ~recursive, UNCHANGED <<recursive, rrwl_wcnt, entering, depth>>
      PROVE  RRTypeOK' /\ Outside' /\ RecursionBalanced'
  BY <1>3 DEF RRInv, RRTypeOK, Outside, RecursionBalanced
<1>4. ASSUME NEW p \in Procs, Signal(p), UNCHANGED <<recursive, rrwl_wcnt, entering, depth>>
      PROVE  RRTypeOK' /\ Outside' /\ RecursionBalanced'
  <2>1. UNCHANGED <<pc, held>>
    BY <1>4 DEF Signal, ptsignal_intr, ptsignal_stop, ptsignal_cont
  <2>2. \A q \in Procs : pc[q] = "idle" => p_stat[q] = "SRUN"
    BY DEF RRInv, IInv, SleepOK
  <2> QED
    BY <1>4, <2>1, <2>2 DEF RRInv, RRTypeOK, Outside, RecursionBalanced, At
<1>5. ASSUME NEW p \in Procs, Step(p), UNCHANGED <<recursive, rrwl_wcnt, entering, depth>>
      PROVE  RRTypeOK' /\ Outside' /\ RecursionBalanced'
  BY <1>1, <1>5, StepRRInv
<1> QED
  BY <1>2, <1>3, <1>4, <1>5, EnterRRInv, ExitRRInv, LockmgrRRInv DEF RRNext

\* A lock that is used by lockmgr() is used as kern_rwlock.c expects: every
\* behaviour is one of RWLock.
THEOREM RecursiveUse == RRSpec => Spec
<1>1. RRInit => Init
  BY DEF RRInit
<1>2. [RRNext]_rrvars => [Next]_vars
  BY RRStepIsStep DEF rrvars
<1> QED
  BY <1>1, <1>2, PTL DEF RRSpec, Spec

\* The word, the marks, the queue and the panics, for locks of either kind.
THEOREM RRInvariance == RRSpec => []IInv
BY RecursiveUse, Invariance, PTL

\* rrw_enter() and rrw_exit() leave the abstract lock what it is.
THEOREM RRRefinement == RRSpec => ImplementsLock
BY RecursiveUse, Refinement, PTL

\* While a thread has the lock LK_EXCLUSIVE, rrwl_wcnt counts its requests,
\* for any number of threads that pass by the same counter.
THEOREM RecursionCorrect == RRSpec => []RecursionBalanced
<1>1. RRInv => RecursionBalanced
  BY DEF RRInv
<1> QED
  BY <1>1, InitRRInv, NextRRInv, PTL DEF RRSpec
=============================================================================
