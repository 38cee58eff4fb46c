---------------------------- MODULE MCKernSynch ----------------------------
EXTENDS KernSynch, TLC

CONSTANTS i1, i2

OneQueue == [i \in Idents |-> 1]
Kernel   == [i \in Idents |-> "kernel"]
Mutex    == [i \in Idents |-> "mutex"]
Mixed    == (i1 :> "kernel") @@ (i2 :> "none")

Sleep(i, catch, timo, giant, norelock) ==
  [ident |-> i, catch |-> catch, timo |-> timo, giant |-> giant, norelock |-> norelock]

\* tsleep() under the kernel lock, with and without PCATCH and a timeout, and
\* sleep_setup() on another ident.
TsleepCalls == {Sleep(i1, c, t, TRUE, FALSE) : c, t \in BOOLEAN}
SleepCalls == TsleepCalls \cup {Sleep(i2, FALSE, FALSE, g, FALSE) : g \in BOOLEAN}

\* msleep() with PNORELOCK, and interruptible ones with a timeout.
MsleepCalls == {Sleep(i1, FALSE, FALSE, FALSE, TRUE), Sleep(i1, TRUE, TRUE, TRUE, FALSE)}

\* msleep() with a timeout and without the kernel lock.
UnlockedCalls == {Sleep(i1, FALSE, TRUE, FALSE, FALSE)}

\* tsleep() with PCATCH and a timeout.
TimedCalls == {Sleep(i1, TRUE, TRUE, TRUE, FALSE)}

\* msleep() with PCATCH.
CatchCalls == {Sleep(i1, TRUE, FALSE, TRUE, FALSE)}

Symmetry == Permutations(Threads)
=============================================================================
