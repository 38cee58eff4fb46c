------------------------------- MODULE RWLock -------------------------------
(***************************************************************************)
(* The multiple-reader, single-writer sleeping lock of kern/kern_rwlock.c. *)
(*                                                                         *)
(* One lock word, rwl_owner, is changed only by compare-and-swap.  A       *)
(* thread that cannot take the lock marks the word (WAIT, WRWANT), goes to *)
(* sleep on the lock's address and is woken by whoever clears the marks.   *)
(* Every load of the word, every CAS and every wakeup is a step of its     *)
(* own; what happens between sleep_setup() and the context switch is one   *)
(* step, because it runs under SCHED_LOCK and touches the word only once.  *)
(***************************************************************************)
EXTENDS Integers, FiniteSets

CONSTANTS
  Procs,      \* addresses of struct proc, divided by 8 (RW_PROC strips 3 bits)
  Flags,      \* the sets of flags callers pass to rw_enter()
  Signals     \* which signals may reach a thread: "intr", "stop"

ASSUME ProcsAssumption ==
  /\ IsFiniteSet(Procs)
  /\ Procs \subseteq Nat
  \* a kernel address is never small enough to be mistaken for a reader count
  /\ \A p \in Procs : p > Cardinality(Procs)

ASSUME FlagsAssumption ==
  /\ Flags \subseteq SUBSET {"NOSLEEP", "INTR", "SLEEPFAIL"}
  /\ Signals \subseteq {"intr", "stop"}

VARIABLES
  rwl_owner,  \* the lock word
  pc,         \* where each thread is in kern_rwlock.c
  o,          \* each thread's last load of the word ("o" / "owner")
  wrlock,     \* rw_exit()'s local of that name
  op,         \* the operation asked of rw_enter()
  flags,      \* its RW_NOSLEEP / RW_INTR / RW_SLEEPFAIL flags
  held,       \* what the thread's caller holds (history of the calls)
  p_stat,     \* scheduler state; SRUN also stands for SONPROC
  p_wchan     \* is the thread on the sleep queue of the lock?

locals   == <<o, wrlock, op, flags>>
sleepq   == <<p_stat, p_wchan>>
vars     == <<rwl_owner, pc, locals, held, sleepq>>

Ops  == {"RW_WRITE", "RW_READ", "RW_DOWNGRADE"}
Locs == {"idle", "enter_read", "retry", "diag", "sleep", "cursig", "asleep",
         "woken", "intr", "cas", "downgrade_wake", "exit_read", "exit_write",
         "exit", "exit_load", "exit_cas", "exit_wake", "panic"}

(***************************************************************************)
(* The lock word: [ owner or count of readers | wrlock | wrwant | wait ].  *)
(***************************************************************************)
Word == [hi : Nat, wrlock : BOOLEAN, wrwant : BOOLEAN, wait : BOOLEAN]
Zero == [hi |-> 0, wrlock |-> FALSE, wrwant |-> FALSE, wait |-> FALSE]

\* Mutant: a writer only looks for another writer.
check_ignores_readers(a, w) == w.wrlock

\* rw_ops[].check: the bits that keep the operation from succeeding.
check(a, w) ==
  \/ a = "RW_WRITE" /\ w # Zero
  \/ a = "RW_READ"  /\ w.wrlock

\* rw_ops[].wait_set: the marks left in the word by a thread that will sleep.
wait_set(a, w) == [w EXCEPT !.wait = TRUE, !.wrwant = @ \/ a = "RW_WRITE"]

\* Mutants: the owner is not recorded; a downgrade leaves RWLOCK_WRLOCK set.
inc_forgets_owner(a, p, w) ==
  [w EXCEPT !.hi = CASE a = "RW_WRITE"     -> @
                     [] a = "RW_READ"      -> @ + 1
                     [] a = "RW_DOWNGRADE" -> @ + 1 - p,
            !.wrlock = (a = "RW_WRITE") \/ (@ /\ a = "RW_READ")]
inc_keeps_wrlock(a, p, w) ==
  [w EXCEPT !.hi = CASE a = "RW_WRITE"     -> @ + p
                     [] a = "RW_READ"      -> @ + 1
                     [] a = "RW_DOWNGRADE" -> @ + 1 - p,
            !.wrlock = @ \/ a = "RW_WRITE"]

\* rw_ops[].inc + RW_PROC(curproc) * rw_ops[].proc_mult, added to the word.
inc(a, p, w) ==
  [w EXCEPT !.hi = CASE a = "RW_WRITE"     -> @ + p
                     [] a = "RW_READ"      -> @ + 1
                     [] a = "RW_DOWNGRADE" -> @ + 1 - p,
            !.wrlock = CASE a = "RW_WRITE"     -> TRUE
                         [] a = "RW_READ"      -> @
                         [] a = "RW_DOWNGRADE" -> FALSE]

\* The word rw_exit() installs.
exit_set(wr, w) ==
  IF wr THEN Zero ELSE [w EXCEPT !.hi = @ - 1, !.wait = FALSE, !.wrwant = FALSE]

\* rw_status(): what thread p is told about the lock.
rw_status(p) ==
  CASE rwl_owner.wrlock /\ rwl_owner.hi = p -> "RW_WRITE"
    [] rwl_owner.wrlock /\ rwl_owner.hi # p -> "RW_WRITE_OTHER"
    [] ~rwl_owner.wrlock /\ rwl_owner # Zero -> "RW_READ"
    [] OTHER -> "0"

(***************************************************************************)
(* Control.                                                                *)
(***************************************************************************)
At(p, loc) == pc[p] = loc /\ p_stat[p] = "SRUN"
Goto(p, loc) == pc' = [pc EXCEPT ![p] = loc]

\* Mutant: nobody is woken.
wakeup_nobody == UNCHANGED sleepq

\* wakeup(rwl): empties the sleep queue; stopped threads stay stopped.
wakeup ==
  /\ p_wchan' = [q \in Procs |-> FALSE]
  /\ p_stat'  = [q \in Procs |-> IF p_wchan[q] /\ p_stat[q] = "SSLEEP"
                                  THEN "SRUN" ELSE p_stat[q]]

Init ==
  /\ rwl_owner = Zero                                             \* rw_init()
  /\ pc      = [p \in Procs |-> "idle"]
  /\ o       = [p \in Procs |-> Zero]
  /\ wrlock  = [p \in Procs |-> FALSE]
  /\ op      = [p \in Procs |-> "RW_READ"]
  /\ flags   = [p \in Procs |-> {}]
  /\ held    = [p \in Procs |-> "none"]
  /\ p_stat  = [p \in Procs |-> "SRUN"]
  /\ p_wchan = [p \in Procs |-> FALSE]

\* The caller has the lock, in the mode the operation grants.
granted(a) == IF a = "RW_WRITE" THEN "write" ELSE "read"

\* Back to the caller; the locals die with the stack frame.
Return(p) ==
  /\ Goto(p, "idle")
  /\ o'      = [o EXCEPT ![p] = Zero]
  /\ wrlock' = [wrlock EXCEPT ![p] = FALSE]
  /\ op'     = [op EXCEPT ![p] = "RW_READ"]
  /\ flags'  = [flags EXCEPT ![p] = {}]

\* Go on at loc, where the last load of the word is not used any more.
Drop(p, loc) ==
  /\ Goto(p, loc)
  /\ o' = [o EXCEPT ![p] = Zero]
  /\ UNCHANGED <<wrlock, op, flags>>

\* rw_enter_read(): load the word; a write-locked one takes the slow path.
rw_enter_read(p) ==
  /\ At(p, "idle") /\ held[p] = "none"
  /\ \/ rwl_owner.wrlock /\ Goto(p, "retry") /\ UNCHANGED o
     \/ ~rwl_owner.wrlock /\ Goto(p, "enter_read") /\ o' = [o EXCEPT ![p] = rwl_owner]
  /\ op' = [op EXCEPT ![p] = "RW_READ"]
  /\ UNCHANGED <<rwl_owner, wrlock, flags, held, sleepq>>

\* ... and its CAS: one more reader, or the slow path.
rw_enter_read_cas(p) ==
  /\ At(p, "enter_read")
  /\ \/ /\ rwl_owner = o[p]
        /\ rwl_owner' = inc("RW_READ", p, o[p])
        /\ held' = [held EXCEPT ![p] = "read"]
        /\ Return(p)
     \/ /\ rwl_owner # o[p]
        /\ Drop(p, "retry")
        /\ UNCHANGED <<rwl_owner, held>>
  /\ UNCHANGED sleepq

\* rw_enter_write(): one CAS from the empty word, or the slow path.
rw_enter_write(p) ==
  /\ At(p, "idle") /\ held[p] = "none"
  /\ \/ /\ rwl_owner = Zero
        /\ rwl_owner' = inc("RW_WRITE", p, Zero)
        /\ held' = [held EXCEPT ![p] = "write"]
        /\ UNCHANGED <<pc, locals>>
     \/ /\ rwl_owner # Zero
        /\ op' = [op EXCEPT ![p] = "RW_WRITE"]
        /\ Goto(p, "retry")
        /\ UNCHANGED <<rwl_owner, held, o, wrlock, flags>>
  /\ UNCHANGED sleepq

\* rw_enter(rwl, flags) called directly; RW_DOWNGRADE by the write holder.
rw_enter(p, a, f) ==
  /\ At(p, "idle")
  /\ held[p] = (IF a = "RW_DOWNGRADE" THEN "write" ELSE "none")
  /\ op'    = [op EXCEPT ![p] = a]
  /\ flags' = [flags EXCEPT ![p] = f]
  /\ Goto(p, "retry")
  /\ UNCHANGED <<rwl_owner, o, wrlock, held, sleepq>>

\* retry: load the word and test it against op->check.
rw_enter_load(p) ==
  /\ At(p, "retry")
  /\ o' = [o EXCEPT ![p] = rwl_owner]
  /\ Goto(p, IF check(op[p], rwl_owner) THEN "diag" ELSE "cas")
  /\ UNCHANGED <<rwl_owner, wrlock, op, flags, held, sleepq>>

\* rw_enter_diag() looks at the word again; then RW_NOSLEEP gives up.
rw_enter_diag(p) ==
  /\ At(p, "diag")
  /\ \/ /\ rwl_owner.hi = p               \* "locking against myself"
        /\ Goto(p, "panic")
        /\ UNCHANGED locals
     \/ /\ rwl_owner.hi # p
        /\ "NOSLEEP" \in flags[p]         \* EBUSY
        /\ Return(p)
     \/ /\ rwl_owner.hi # p
        /\ "NOSLEEP" \notin flags[p]
        /\ Goto(p, "sleep")
        /\ UNCHANGED locals
  /\ UNCHANGED <<rwl_owner, held, sleepq>>

\* The CAS that leaves the wait marks; the thread sleeps only if it succeeds.
mark(p) == rwl_owner' = IF rwl_owner = o[p] THEN wait_set(op[p], o[p]) ELSE rwl_owner

\* The end of the loop body: RW_SLEEPFAIL gives up, anyone else retries.
after_sleep(p) ==
  \/ "SLEEPFAIL" \in flags[p] /\ Return(p)                       \* EAGAIN
  \/ "SLEEPFAIL" \notin flags[p] /\ Drop(p, "retry")

\* sleep_setup(), sleep_setup_signal() without a signal, the CAS, sleep_finish().
rw_enter_sleep(p) ==
  /\ At(p, "sleep")
  /\ mark(p)
  /\ IF rwl_owner = o[p]
       THEN /\ p_wchan' = [p_wchan EXCEPT ![p] = TRUE]
            /\ p_stat'  = [p_stat EXCEPT ![p] = "SSLEEP"]
            /\ Drop(p, "asleep")
       ELSE /\ Drop(p, "woken")           \* unsleep(p)
            /\ UNCHANGED sleepq
  /\ UNCHANGED held

\* sleep_setup_signal() finds a signal: it undoes the sleep, the CAS still runs.
rw_enter_sleep_signal(p) ==
  /\ At(p, "sleep") /\ "INTR" \in flags[p] /\ "intr" \in Signals
  /\ mark(p)
  /\ Drop(p, "intr")
  /\ UNCHANGED <<held, sleepq>>

\* sleep_setup_signal() finds a stop signal: CURSIG() stops the thread there,
\* on the sleep queue and before the CAS.
rw_enter_sleep_stop(p) ==
  /\ At(p, "sleep") /\ "INTR" \in flags[p] /\ "stop" \in Signals
  /\ p_wchan' = [p_wchan EXCEPT ![p] = TRUE]
  /\ p_stat'  = [p_stat EXCEPT ![p] = "SSTOP"]
  /\ Goto(p, "cursig")
  /\ UNCHANGED <<rwl_owner, locals, held>>

\* CURSIG() returns after a stop.  The thread is off the queue by now, so it
\* does not sleep; it tries to leave its marks all the same.
rw_enter_cursig(p) ==
  /\ At(p, "cursig")
  /\ mark(p)
  /\ \/ "intr" \in Signals /\ Drop(p, "intr")
     \/ after_sleep(p)                    \* sls_catch = 0: no error
  /\ UNCHANGED <<held, sleepq>>

\* mi_switch() returns in sleep_finish().
rw_enter_resume(p) ==
  /\ At(p, "asleep")
  /\ Goto(p, "woken")
  /\ UNCHANGED <<rwl_owner, locals, held, sleepq>>

\* sleep_finish_signal() may find a signal now; then the end of the loop body.
rw_enter_woken(p) ==
  /\ At(p, "woken")
  /\ \/ "INTR" \in flags[p] /\ "intr" \in Signals /\ Return(p)   \* EINTR, ERESTART
     \/ after_sleep(p)
  /\ UNCHANGED <<rwl_owner, held, sleepq>>

\* The signal found by sleep_setup_signal() is returned as an error.
rw_enter_intr(p) ==
  /\ At(p, "intr")
  /\ Return(p)
  /\ UNCHANGED <<rwl_owner, held, sleepq>>

\* The CAS that takes the lock (or downgrades it).
rw_enter_cas(p) ==
  /\ At(p, "cas")
  /\ \/ /\ rwl_owner # o[p]
        /\ Drop(p, "retry")
        /\ UNCHANGED <<rwl_owner, held>>
     \/ /\ rwl_owner = o[p]
        /\ rwl_owner' = inc(op[p], p, o[p])
        /\ held' = [held EXCEPT ![p] = granted(op[p])]
        /\ IF o[p].wrlock /\ o[p].wait
             THEN Drop(p, "downgrade_wake")
             ELSE Return(p)
  /\ UNCHANGED sleepq

\* A downgrade wakes everyone so that waiting readers can retry.
rw_enter_wakeup(p) ==
  /\ At(p, "downgrade_wake")
  /\ wakeup
  /\ Return(p)
  /\ UNCHANGED <<rwl_owner, held>>

\* rw_exit_read() / rw_exit_write(): load, assert, then a fast-path CAS.
rw_exit_fast(p) ==
  /\ At(p, "idle") /\ held[p] # "none"
  /\ o' = [o EXCEPT ![p] = rwl_owner]
  /\ Goto(p, IF held[p] = "read" THEN "exit_read" ELSE "exit_write")
  /\ UNCHANGED <<rwl_owner, wrlock, op, flags, held, sleepq>>

rw_assert_rdlock == rwl_owner.hi # 0 /\ ~rwl_owner.wrlock
rw_assert_wrlock(p) == rwl_owner.wrlock /\ rwl_owner.hi = p

rw_exit_fast_cas(p) ==
  /\ pc[p] \in {"exit_read", "exit_write"} /\ p_stat[p] = "SRUN"
  /\ LET rd == pc[p] = "exit_read"
         ok == IF rd THEN rw_assert_rdlock ELSE rw_assert_wrlock(p)
     IN \/ ~ok /\ Goto(p, "panic") /\ UNCHANGED <<rwl_owner, locals, held>>
        \/ /\ ok /\ (o[p].wait \/ rwl_owner # o[p])
           /\ Drop(p, "exit")
           /\ UNCHANGED <<rwl_owner, held>>
        \/ /\ ok /\ ~o[p].wait /\ rwl_owner = o[p]
           /\ rwl_owner' = IF rd THEN [o[p] EXCEPT !.hi = @ - 1] ELSE Zero
           /\ held' = [held EXCEPT ![p] = "none"]
           /\ Return(p)
  /\ UNCHANGED sleepq

\* rw_exit() called directly by a holder that does not care which mode it is.
rw_exit_call(p) ==
  /\ At(p, "idle") /\ held[p] # "none"
  /\ Goto(p, "exit")
  /\ UNCHANGED <<rwl_owner, locals, held, sleepq>>

\* rw_exit(): its mode comes from the word; then the assertion.
rw_exit(p) ==
  /\ At(p, "exit")
  /\ wrlock' = [wrlock EXCEPT ![p] = rwl_owner.wrlock]
  /\ LET ok == IF rwl_owner.wrlock THEN rw_assert_wrlock(p) ELSE rw_assert_rdlock
     IN Goto(p, IF ok THEN "exit_load" ELSE "panic")
  /\ UNCHANGED <<rwl_owner, o, op, flags, held, sleepq>>

rw_exit_load(p) ==
  /\ At(p, "exit_load")
  /\ o' = [o EXCEPT ![p] = rwl_owner]
  /\ Goto(p, "exit_cas")
  /\ UNCHANGED <<rwl_owner, wrlock, op, flags, held, sleepq>>

rw_exit_cas(p) ==
  /\ At(p, "exit_cas")
  /\ \/ /\ rwl_owner # o[p]
        /\ Drop(p, "exit_load")
        /\ UNCHANGED <<rwl_owner, held>>
     \/ /\ rwl_owner = o[p]
        /\ rwl_owner' = exit_set(wrlock[p], o[p])
        /\ held' = [held EXCEPT ![p] = "none"]
        /\ IF o[p].wait THEN Drop(p, "exit_wake")
                        ELSE Return(p)
  /\ UNCHANGED sleepq

rw_exit_wakeup(p) ==
  /\ At(p, "exit_wake")
  /\ wakeup
  /\ Return(p)
  /\ UNCHANGED <<rwl_owner, held>>

(***************************************************************************)
(* Signals, as ptsignal() treats a thread in an interruptible sleep.       *)
(***************************************************************************)
Interruptible(p) == pc[p] \in {"asleep", "cursig"} /\ "INTR" \in flags[p]

\* A caught signal: a sleeping thread runs, a stopped one leaves the queue.
ptsignal_intr(p) ==
  /\ "intr" \in Signals /\ Interruptible(p) /\ p_wchan[p]
  /\ p_wchan' = [p_wchan EXCEPT ![p] = FALSE]                     \* unsleep()
  /\ p_stat'  = [p_stat EXCEPT ![p] = IF @ = "SSLEEP" THEN "SRUN" ELSE @]
  /\ UNCHANGED <<rwl_owner, pc, locals, held>>

\* A stop signal: proc_stop(p, 0), still on the sleep queue.
ptsignal_stop(p) ==
  /\ "stop" \in Signals /\ Interruptible(p) /\ p_stat[p] = "SSLEEP"
  /\ p_stat' = [p_stat EXCEPT ![p] = "SSTOP"]
  /\ UNCHANGED <<rwl_owner, pc, locals, held, p_wchan>>

\* SIGCONT, default action: back to sleep if still on the queue, else run.
ptsignal_cont(p) ==
  /\ "stop" \in Signals /\ p_stat[p] = "SSTOP"
  /\ p_stat' = [p_stat EXCEPT ![p] = IF p_wchan[p] THEN "SSLEEP" ELSE "SRUN"]
  /\ UNCHANGED <<rwl_owner, pc, locals, held, p_wchan>>

Call(p) ==
  \/ rw_enter_read(p)
  \/ rw_enter_write(p)
  \/ \E a \in Ops, f \in Flags : rw_enter(p, a, f)

\* A holder eventually releases, one way or another.
Release(p) == rw_exit_fast(p) \/ rw_exit_call(p)

Step(p) ==
  \/ rw_enter_read_cas(p) \/ rw_enter_load(p) \/ rw_enter_diag(p)
  \/ rw_enter_sleep(p) \/ rw_enter_sleep_signal(p) \/ rw_enter_sleep_stop(p)
  \/ rw_enter_cursig(p) \/ rw_enter_resume(p) \/ rw_enter_woken(p)
  \/ rw_enter_intr(p) \/ rw_enter_cas(p) \/ rw_enter_wakeup(p)
  \/ rw_exit_fast_cas(p) \/ rw_exit(p) \/ rw_exit_load(p) \/ rw_exit_cas(p)
  \/ rw_exit_wakeup(p)

Signal(p) == ptsignal_intr(p) \/ ptsignal_stop(p) \/ ptsignal_cont(p)

Next == \E p \in Procs : Call(p) \/ Release(p) \/ Step(p) \/ Signal(p)

Spec == Init /\ [][Next]_vars

(***************************************************************************)
(* Properties.                                                             *)
(***************************************************************************)

\* Every variable has its type.
TypeOK ==
  /\ rwl_owner \in Word
  /\ pc \in [Procs -> Locs]
  /\ o \in [Procs -> Word]
  /\ wrlock \in [Procs -> BOOLEAN]
  /\ op \in [Procs -> Ops]
  /\ flags \in [Procs -> SUBSET {"NOSLEEP", "INTR", "SLEEPFAIL"}]
  /\ held \in [Procs -> {"none", "read", "write"}]
  /\ p_stat \in [Procs -> {"SRUN", "SSLEEP", "SSTOP"}]
  /\ p_wchan \in [Procs -> BOOLEAN]

Readers == {p \in Procs : held[p] = "read"}

\* The lock word tells the truth about the holders, whatever loads, CASes and
\* marks were interleaved: write-locked by p exactly when p alone holds it,
\* and otherwise counting exactly the threads that hold it for reading.
WordMatchesHolders ==
  IF rwl_owner.wrlock
  THEN \E p \in Procs : /\ rwl_owner.hi = p
                        /\ held[p] = "write"
                        /\ \A q \in Procs \ {p} : held[q] = "none"
  ELSE /\ rwl_owner.hi = Cardinality(Readers)
       /\ \A p \in Procs : held[p] # "write"

\* rwlock.h: "it's not possible to have owner/read count unset and waiter bits
\* set", on which the single CAS from 0 in rw_enter_write() relies; and WRWANT
\* never outlives WAIT, so that the fast path of rw_exit_read() leaves no mark.
MarksOnlyWhileHeld ==
  /\ rwl_owner.wait => rwl_owner.hi # 0
  /\ rwl_owner.wrwant => rwl_owner.wait

\* None of the DIAGNOSTIC panics of kern_rwlock.c fires for callers that only
\* release what they hold and do not lock recursively.
NoPanic == \A p \in Procs : pc[p] # "panic"

WakeupPending == \E q \in Procs : pc[q] \in {"exit_wake", "downgrade_wake"}

\* No lost wakeup: a thread asleep on the lock is announced by the WAIT bit, so
\* that the next release wakes it, or a wakeup is already on its way.
SleeperAnnounced ==
  \A p \in Procs : p_stat[p] = "SSLEEP" => rwl_owner.wait \/ WakeupPending

\* The same for threads that have gone through the context switch, whatever
\* signals stop and continue them: once its marks are in the word, a thread on
\* the queue, asleep or stopped there, will get the next release's wakeup.
QueuedAnnounced ==
  \A p \in Procs : pc[p] = "asleep" /\ p_wchan[p] => rwl_owner.wait \/ WakeupPending

\* rw_status() tells a holder what it holds, and tells everyone else apart from
\* the writer that somebody else has it.
StatusTruthful ==
  \A p \in Procs :
    /\ held[p] = "write" <=> rw_status(p) = "RW_WRITE"
    /\ held[p] = "read" => rw_status(p) = "RW_READ"

\* kern_rwlock.c: "RW_READ  RWLOCK_WRLOCK|RWLOCK_WRWANT may not be set": no
\* thread becomes a reader while a writer has announced that it wants the lock.
ReadersYieldToWriters ==
  [][\A p \in Procs : held[p] = "none" /\ held'[p] = "read" => ~rwl_owner.wrwant]_vars

\* The abstract lock this code implements.
Lock == INSTANCE RWLockSpec WITH holds <- held
ImplementsLock == Lock!Spec
=============================================================================
