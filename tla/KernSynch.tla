----------------------------- MODULE KernSynch -----------------------------
(***************************************************************************)
(* The sleep queues of kern/kern_synch.c: tsleep(), msleep() and           *)
(* sleep_setup()/sleep_finish() on one side, wakeup_n(), endtsleep() and   *)
(* ptsignal() on the other.                                                *)
(*                                                                         *)
(* A thread waits for the event of an ident, in the loop its kind of lock  *)
(* calls for: tsleep() under the kernel lock, msleep() under a mutex, or   *)
(* sleep_setup(), a look at the event and sleep_finish(), without a lock.  *)
(* The scheduler lock is held from sleep_setup() until the thread switches *)
(* away in mi_switch().                                                    *)
(***************************************************************************)
EXTENDS Integers, Queue

CONSTANTS
  Threads,
  Wakers,       \* who makes events happen, and calls wakeup_n()
  Idents,
  LOOKUP,       \* the hash queue of each ident
  Protect,      \* what protects the event of an ident: "kernel", "mutex", "none"
  Calls,        \* the sleeps of the threads: ident, PCATCH, a timeout, the
                \* kernel lock held, PNORELOCK
  Signals,      \* subset of {"intr", "stop"}
  First,        \* the one with the lower number
  WakeOne,      \* the idents woken by wakeup_one(), not wakeup()
  Softclock,
  Sender,       \* of signals
  NONE

ASSUME KernSynchAssumption ==
  /\ Signals \subseteq {"intr", "stop"} /\ First \in {"intr", "stop"}
  /\ WakeOne \subseteq Idents /\ Protect \in [Idents -> {"kernel", "mutex", "none"}]
  /\ NONE \notin Threads \cup Idents \cup {Softclock, Sender}
  /\ NONE \notin Threads \X {"intr", "stop", "cont"}
  /\ Softclock \notin Threads /\ Sender \notin Threads \cup {Softclock}
  /\ Calls \subseteq [ident : Idents, catch : BOOLEAN, timo : BOOLEAN, giant : BOOLEAN,
                      norelock : BOOLEAN]
  /\ \A c \in Calls :
       /\ Protect[c.ident] = "kernel" => c.giant
       /\ Protect[c.ident] = "none" => ~c.catch /\ ~c.timo
       /\ c.norelock => Protect[c.ident] = "mutex"

VARIABLES
  slpque,       \* each a sequence of threads
  p_wchan, p_stat,
  p_sintr,      \* threads with P_SINTR
  p_timeout,    \* threads with P_TIMEOUT
  p_siglist,    \* pending signals
  p_sleep_to,   \* threads whose p_sleep_to is on the timeout wheel
  at,           \* where each thread is
  call,         \* its sleep
  sls,          \* its struct sleep_state
  error,        \* what it returns
  happened,     \* the events
  waker,        \* the ident that each waker still has to wake
  kick,         \* the thread and signal that ptsignal() has posted and will act on
  clock,        \* the thread that softclock() is calling endtsleep() for
  kernel_lock, sched_lock, mutex,
  woken,        \* history: wakeup_n() has ended this sleep
  expired       \* history: the timeout of this sleep has run out

proc  == <<slpque, p_wchan, p_stat, p_sintr, p_timeout, p_siglist, p_sleep_to>>
local == <<at, call, sls, error>>
env   == <<happened, waker, kick, clock>>
locks == <<kernel_lock, sched_lock, mutex>>
ghost == <<woken, expired>>
vars  == <<proc, local, env, locks, ghost>>

NoCall == [ident |-> NONE, catch |-> FALSE, timo |-> FALSE, giant |-> FALSE, norelock |-> FALSE]
NoState == [catch |-> FALSE, do_sleep |-> FALSE, sig |-> FALSE]
Queues == {LOOKUP[i] : i \in Idents}

Init ==
  /\ slpque = [b \in Queues |-> <<>>]
  /\ p_wchan = [t \in Threads |-> NONE]
  /\ p_stat = [t \in Threads |-> "SONPROC"]
  /\ p_sintr = {} /\ p_timeout = {} /\ p_sleep_to = {}
  /\ p_siglist = [t \in Threads |-> {}]
  /\ at = [t \in Threads |-> "user"]
  /\ call = [t \in Threads |-> NoCall]
  /\ sls = [t \in Threads |-> NoState]
  /\ error = [t \in Threads |-> "0"]
  /\ happened = [i \in Idents |-> FALSE]
  /\ waker = [w \in Wakers |-> NONE]
  /\ kick = NONE /\ clock = NONE
  /\ kernel_lock = NONE /\ sched_lock = NONE /\ mutex = NONE
  /\ woken = {} /\ expired = {}

(***************************************************************************)
(* Operations on the queues.                                               *)
(***************************************************************************)
ident(t) == call[t].ident
By(t, kind) == Protect[ident(t)] = kind

\* Mutant: the thread stays on the queue.
unsleep_linked(ts) ==
  /\ UNCHANGED slpque
  /\ p_wchan' = [u \in Threads |-> IF u \in ts THEN NONE ELSE p_wchan[u]]

\* unsleep() of the threads ts, all on the queue of one ident or on none.
unsleep(ts) ==
  /\ slpque' = [b \in Queues |-> Without(slpque[b], ts)]
  /\ p_wchan' = [u \in Threads |-> IF u \in ts THEN NONE ELSE p_wchan[u]]

\* setrunnable() of those of ts that sleep; it unsleeps them, too.
setrunnable(ts) ==
  p_stat' = [u \in Threads |-> IF u \in ts /\ p_stat[u] = "SSLEEP" THEN "SRUN" ELSE p_stat[u]]

\* mi_switch() lets go of both big locks.
mi_switch(t) ==
  /\ sched_lock' = NONE
  /\ kernel_lock' = IF kernel_lock = t THEN NONE ELSE kernel_lock

\* The signal that issignal() takes.
ffs(sigs) == IF First \in sigs THEN {First} ELSE sigs

(***************************************************************************)
(* The waiting thread and its loop.                                        *)
(***************************************************************************)
enter(t, c) ==
  /\ at[t] = "user"
  /\ c.giant => kernel_lock = NONE
  /\ kernel_lock' = IF c.giant THEN t ELSE kernel_lock
  /\ call' = [call EXCEPT ![t] = c]
  /\ at' = [at EXCEPT ![t] = IF Protect[c.ident] = "mutex" THEN "lock" ELSE "check"]
  /\ UNCHANGED <<proc, sls, error, env, sched_lock, mutex, ghost>>

mtx_enter(t) ==
  /\ at[t] = "lock" /\ mutex = NONE
  /\ mutex' = t
  /\ at' = [at EXCEPT ![t] = "check"]
  /\ UNCHANGED <<proc, call, sls, error, env, kernel_lock, sched_lock, ghost>>

\* Back to the caller of the loop, which lets go of its locks; the rest are
\* locals that end here.
leave(t) ==
  /\ at' = [at EXCEPT ![t] = "user"]
  /\ call' = [call EXCEPT ![t] = NoCall]
  /\ kernel_lock' = IF kernel_lock = t THEN NONE ELSE kernel_lock
  /\ mutex' = IF mutex = t THEN NONE ELSE mutex
  /\ sls' = [sls EXCEPT ![t] = NoState]
  /\ error' = [error EXCEPT ![t] = "0"]
  /\ woken' = woken \ {t} /\ expired' = expired \ {t}

\* The event has happened: the loop ends.
consume(t) ==
  /\ at[t] = "check" /\ ~By(t, "none") /\ happened[ident(t)]
  /\ happened' = [happened EXCEPT ![ident(t)] = FALSE]
  /\ leave(t)
  /\ UNCHANGED <<proc, waker, kick, clock, sched_lock>>

\* Mutants: p_wchan is the queue; the timeout is not set.
wchan_hashed(t) == LOOKUP[ident(t)]
sleep_setup_timeout_never(t) == p_sleep_to

wchan(t) == ident(t)
sleep_setup_timeout(t) == IF call[t].timo THEN p_sleep_to \cup {t} ELSE p_sleep_to

\* sleep_setup() and sleep_setup_timeout().
sleep_setup(t) ==
  /\ at[t] = "check" /\ (By(t, "none") \/ ~happened[ident(t)])
  /\ sched_lock = NONE
  /\ sched_lock' = t
  /\ sls' = [sls EXCEPT ![t] = [catch |-> FALSE, do_sleep |-> TRUE, sig |-> TRUE]]
  /\ p_wchan' = [p_wchan EXCEPT ![t] = wchan(t)]
  /\ slpque' = [slpque EXCEPT ![LOOKUP[ident(t)]] = Append(@, t)]
  /\ p_sleep_to' = sleep_setup_timeout(t)
  /\ at' = [at EXCEPT ![t] = "setup_signal"]
  /\ woken' = woken \ {t} /\ expired' = expired \ {t}
  /\ UNCHANGED <<p_stat, p_sintr, p_timeout, p_siglist, call, error, env, kernel_lock, mutex>>

\* sleep_setup_signal() without PCATCH.
sleep_setup_nosignal(t) ==
  /\ at[t] = "setup_signal" /\ ~call[t].catch
  /\ at' = [at EXCEPT ![t] = "finish"]
  /\ UNCHANGED <<proc, call, sls, error, env, locks, ghost>>

\* CURSIG() finds nothing.
sleep_setup_signal(t) ==
  /\ at[t] = "setup_signal" /\ call[t].catch /\ p_siglist[t] = {}
  /\ p_sintr' = p_sintr \cup {t}
  /\ sls' = [sls EXCEPT ![t] = IF p_wchan[t] = NONE
                                 THEN NoState
                                 ELSE [catch |-> TRUE, do_sleep |-> TRUE, sig |-> FALSE]]
  /\ at' = [at EXCEPT ![t] = "finish"]
  /\ UNCHANGED <<slpque, p_wchan, p_stat, p_timeout, p_siglist, p_sleep_to, call, error,
                 env, locks, ghost>>

\* CURSIG() finds a signal to deliver.
sleep_setup_signal_intr(t) ==
  /\ at[t] = "setup_signal" /\ call[t].catch /\ "intr" \in ffs(p_siglist[t])
  /\ p_sintr' = p_sintr \cup {t}
  /\ sls' = [sls EXCEPT ![t] = [catch |-> TRUE, do_sleep |-> FALSE, sig |-> TRUE]]
  /\ unsleep({t})
  /\ at' = [at EXCEPT ![t] = "finish"]
  /\ UNCHANGED <<p_stat, p_timeout, p_siglist, p_sleep_to, call, error, env, locks, ghost>>

\* CURSIG() stops: proc_stop(p, 1), and looks again afterwards.
sleep_setup_signal_stop(t) ==
  /\ at[t] = "setup_signal" /\ call[t].catch /\ "stop" \in ffs(p_siglist[t])
  /\ p_sintr' = p_sintr \cup {t}
  /\ p_siglist' = [p_siglist EXCEPT ![t] = @ \ {"stop"}]
  /\ p_stat' = [p_stat EXCEPT ![t] = "SSTOP"]
  /\ mi_switch(t)
  /\ at' = [at EXCEPT ![t] = "stopped"]
  /\ UNCHANGED <<slpque, p_wchan, p_timeout, p_sleep_to, call, sls, error, env, mutex, ghost>>

\* Mutant: sleep_finish() ignores its argument.
do_sleep_always(t) == TRUE

\* msleep()'s mtx_leave() and sleep_finish(), up to the switch; or, if
\* there is nothing to sleep for, to its end.
do_sleep(t) == By(t, "none") => ~happened[ident(t)]

sleep_finish(t) ==
  /\ at[t] = "finish" /\ sls[t].do_sleep /\ do_sleep(t)
  /\ p_stat' = [p_stat EXCEPT ![t] = "SSLEEP"]
  /\ mutex' = IF mutex = t THEN NONE ELSE mutex
  /\ mi_switch(t)
  /\ at' = [at EXCEPT ![t] = "asleep"]
  /\ UNCHANGED <<slpque, p_wchan, p_sintr, p_timeout, p_siglist, p_sleep_to,
                 call, sls, error, env, ghost>>

sleep_finish_awake(t) ==
  /\ at[t] = "finish" /\ ~sls[t].do_sleep
  /\ p_sintr' = p_sintr \ {t}
  /\ mutex' = IF mutex = t THEN NONE ELSE mutex
  /\ sched_lock' = NONE
  /\ at' = [at EXCEPT ![t] = "finish_timeout"]
  /\ UNCHANGED <<slpque, p_wchan, p_stat, p_timeout, p_siglist, p_sleep_to,
                 call, sls, error, env, kernel_lock, ghost>>

sleep_finish_unsleep(t) ==
  /\ at[t] = "finish" /\ ~do_sleep(t)
  /\ unsleep({t})
  /\ sched_lock' = NONE
  /\ happened' = [happened EXCEPT ![ident(t)] = FALSE]
  /\ leave(t)
  /\ UNCHANGED <<p_stat, p_sintr, p_timeout, p_siglist, p_sleep_to, waker, kick, clock>>

Away == {"asleep", "stopped", "stopped_late"}

\* The scheduler runs the thread again, which takes the kernel lock again ...
mi_switch_run(t) ==
  /\ at[t] \in Away /\ p_stat[t] = "SRUN"
  /\ call[t].giant => kernel_lock = NONE
  /\ kernel_lock' = IF call[t].giant THEN t ELSE kernel_lock
  /\ p_stat' = [p_stat EXCEPT ![t] = "SONPROC"]
  /\ UNCHANGED <<slpque, p_wchan, p_sintr, p_timeout, p_siglist, p_sleep_to, local, env,
                 sched_lock, mutex, ghost>>

\* ... and the scheduler lock, which sleep_finish() then releases, and
\* sleep_setup_signal() keeps.
mi_switch_resume(t) ==
  /\ at[t] \in Away /\ p_stat[t] = "SONPROC" /\ sched_lock = NONE
  /\ sched_lock' = IF at[t] = "stopped" THEN t ELSE NONE
  /\ p_sintr' = IF at[t] = "asleep" THEN p_sintr \ {t} ELSE p_sintr
  /\ at' = [at EXCEPT ![t] = CASE @ = "asleep" -> IF By(t, "none") THEN "check" ELSE "finish_timeout"
                               [] @ = "stopped" -> "setup_signal"
                               [] @ = "stopped_late" -> "finish_signal"]
  /\ UNCHANGED <<slpque, p_wchan, p_stat, p_timeout, p_siglist, p_sleep_to, call, sls, error,
                 env, kernel_lock, mutex, ghost>>

\* Mutant: no timeout_del().
timeout_del_never(t) == p_sleep_to

timeout_del(t) == p_sleep_to \ {t}

sleep_finish_timeout(t) ==
  /\ at[t] = "finish_timeout"
  /\ IF t \in p_timeout
       THEN /\ p_timeout' = p_timeout \ {t}
            /\ error' = [error EXCEPT ![t] = "EWOULDBLOCK"]
            /\ UNCHANGED p_sleep_to
       ELSE /\ p_sleep_to' = timeout_del(t)
            /\ error' = [error EXCEPT ![t] = "0"]
            /\ UNCHANGED p_timeout
  /\ at' = [at EXCEPT ![t] = "finish_signal"]
  /\ UNCHANGED <<slpque, p_wchan, p_stat, p_sintr, p_siglist, call, sls, env, locks, ghost>>

sleep_finish_signal(t) ==
  /\ at[t] = "finish_signal"
  /\ \/ ~sls[t].catch /\ UNCHANGED error
     \/ sls[t].catch /\ ~sls[t].sig /\ p_siglist[t] = {} /\ UNCHANGED error
     \/ /\ sls[t].catch /\ (sls[t].sig \/ "intr" \in ffs(p_siglist[t]))
        /\ error' = [error EXCEPT ![t] = "EINTR"]
  /\ at' = [at EXCEPT ![t] = "return"]
  /\ UNCHANGED <<proc, call, sls, env, locks, ghost>>

\* CURSIG() stops, now with the scheduler lock only.
sleep_finish_signal_stop(t) ==
  /\ at[t] = "finish_signal" /\ sls[t].catch /\ ~sls[t].sig /\ "stop" \in ffs(p_siglist[t])
  /\ sched_lock = NONE
  /\ p_siglist' = [p_siglist EXCEPT ![t] = @ \ {"stop"}]
  /\ p_stat' = [p_stat EXCEPT ![t] = "SSTOP"]
  /\ mi_switch(t)
  /\ at' = [at EXCEPT ![t] = "stopped_late"]
  /\ UNCHANGED <<slpque, p_wchan, p_sintr, p_timeout, p_sleep_to, call, sls, error, env,
                 mutex, ghost>>

\* tsleep() and msleep() return: the caller goes round its loop, or gives up.
relock(t) == By(t, "mutex") /\ ~call[t].norelock

return(t) ==
  /\ at[t] = "return" /\ (relock(t) => mutex = NONE)
  /\ IF error[t] = "0" /\ ~call[t].norelock
       THEN /\ at' = [at EXCEPT ![t] = "check"]
            /\ mutex' = IF relock(t) THEN t ELSE mutex
            /\ UNCHANGED <<call, sls, error, kernel_lock, ghost>>
       ELSE leave(t)
  /\ UNCHANGED <<proc, env, sched_lock>>

\* userret() delivers what is pending; a stop there is of no concern here.
userret(t) ==
  /\ at[t] = "user" /\ p_siglist[t] # {} /\ kernel_lock = NONE
  /\ p_siglist' = [p_siglist EXCEPT ![t] = {}]
  /\ UNCHANGED <<slpque, p_wchan, p_stat, p_sintr, p_timeout, p_sleep_to, local, env, locks, ghost>>

(***************************************************************************)
(* Wakeups.                                                                *)
(***************************************************************************)
\* The event happens, under the lock that protects it.
happen(w, i) ==
  /\ waker[w] = NONE /\ ~happened[i]
  /\ Protect[i] = "kernel" => kernel_lock = NONE
  /\ Protect[i] = "mutex" => mutex = NONE
  /\ happened' = [happened EXCEPT ![i] = TRUE]
  /\ waker' = [waker EXCEPT ![w] = i]
  /\ UNCHANGED <<proc, local, kick, clock, locks, ghost>>

\* The places in the queue of i of those that sleep on i.
sleepers(i) == {k \in DOMAIN slpque[LOOKUP[i]] : p_wchan[slpque[LOOKUP[i]][k]] = i}
earlier(i, k) == Cardinality({j \in sleepers(i) : j < k})

\* Mutant: the head of the queue is skipped.
first_next(i, n) ==
  {slpque[LOOKUP[i]][k] : k \in {j \in sleepers(i) : earlier(i, j) > 0}}

\* The first n threads of the queue that sleep on i; all of them if n is -1.
first(i, n) ==
  {slpque[LOOKUP[i]][k] : k \in {j \in sleepers(i) : n = -1 \/ earlier(i, j) < n}}

wakeup_n(w, n) ==
  /\ waker[w] # NONE /\ sched_lock = NONE
  /\ LET ts == first(waker[w], n)
     IN  unsleep(ts) /\ setrunnable(ts) /\ woken' = woken \cup ts
  /\ waker' = [waker EXCEPT ![w] = NONE]
  /\ UNCHANGED <<p_sintr, p_timeout, p_siglist, p_sleep_to, local, happened, kick, clock,
                 locks, expired>>

wakeup(w) == wakeup_n(w, IF waker[w] \in WakeOne THEN 1 ELSE -1)

(***************************************************************************)
(* Timeouts.  softclock() runs under the kernel lock.                      *)
(***************************************************************************)
softclock(t) ==
  /\ clock = NONE /\ kernel_lock = NONE /\ t \in p_sleep_to
  /\ kernel_lock' = Softclock
  /\ clock' = t
  /\ p_sleep_to' = p_sleep_to \ {t}
  /\ expired' = expired \cup {t}
  /\ UNCHANGED <<slpque, p_wchan, p_stat, p_sintr, p_timeout, p_siglist, local, happened, waker,
                 kick, sched_lock, mutex, woken>>

endtsleep ==
  /\ clock # NONE /\ sched_lock = NONE
  /\ IF p_wchan[clock] # NONE
       THEN unsleep({clock}) /\ setrunnable({clock}) /\ p_timeout' = p_timeout \cup {clock}
       ELSE UNCHANGED <<slpque, p_wchan, p_stat, p_timeout>>
  /\ clock' = NONE /\ kernel_lock' = NONE
  /\ UNCHANGED <<p_sintr, p_siglist, p_sleep_to, local, happened, waker, kick, sched_lock,
                 mutex, ghost>>

(***************************************************************************)
(* Signals: ptsignal(), under the kernel lock, posts one, then acts on it  *)
(* under the scheduler lock.                                               *)
(***************************************************************************)
ptsignal_post(t, s) ==
  /\ kernel_lock = NONE
  /\ kernel_lock' = Sender
  /\ p_siglist' = [p_siglist EXCEPT ![t] = IF s = "cont" THEN @ \ {"stop"} ELSE @ \cup {s}]
  /\ kick' = <<t, s>>
  /\ UNCHANGED <<slpque, p_wchan, p_stat, p_sintr, p_timeout, p_sleep_to, local, happened,
                 waker, clock, sched_lock, mutex, ghost>>

\* What is left alone by every case of the switch over p_stat.
acted(t, s) ==
  /\ kick = <<t, s>> /\ sched_lock = NONE
  /\ kick' = NONE /\ kernel_lock' = NONE
  /\ UNCHANGED <<p_sintr, p_timeout, p_sleep_to, local, happened, waker, clock, sched_lock,
                 mutex, ghost>>

\* Mutant: a stopped thread stays on the queue.
interrupted_asleep(t) == t \in p_sintr /\ p_stat[t] = "SSLEEP"

interrupted(t) == t \in p_sintr /\ p_stat[t] \in {"SSLEEP", "SSTOP"}

\* An interruptible sleep ends; a stopped thread is only taken off the queue.
ptsignal_intr(t) ==
  /\ acted(t, "intr")
  /\ IF interrupted(t)
       THEN unsleep({t}) /\ setrunnable({t})
       ELSE UNCHANGED <<slpque, p_wchan, p_stat>>
  /\ UNCHANGED p_siglist

\* An interruptible sleep becomes a stop, on the queue; a stop goes on.
ptsignal_stop(t) ==
  /\ acted(t, "stop")
  /\ IF \/ p_stat[t] = "SSLEEP" /\ t \in p_sintr
        \/ p_stat[t] = "SSTOP"
       THEN /\ p_stat' = [p_stat EXCEPT ![t] = "SSTOP"]
            /\ p_siglist' = [p_siglist EXCEPT ![t] = @ \ {"stop"}]
       ELSE UNCHANGED <<p_stat, p_siglist>>
  /\ UNCHANGED <<slpque, p_wchan>>

\* Mutant: back to sleep in any case.
continued_asleep(t) == "SSLEEP"

continued(t) == IF p_wchan[t] = NONE THEN "SRUN" ELSE "SSLEEP"

\* SIGCONT, default action: back to sleep, unless woken meanwhile.
ptsignal_cont(t) ==
  /\ acted(t, "cont")
  /\ p_stat' = [p_stat EXCEPT ![t] = IF @ # "SSTOP" THEN @ ELSE continued(t)]
  /\ UNCHANGED <<slpque, p_wchan, p_siglist>>

Sent == Signals \cup (IF "stop" \in Signals THEN {"cont"} ELSE {})

-----------------------------------------------------------------------------

Locking(t) == mtx_enter(t) \/ return(t)
Thread(t) ==
  \/ consume(t) \/ sleep_setup(t)
  \/ sleep_setup_nosignal(t) \/ sleep_setup_signal(t) \/ sleep_setup_signal_intr(t)
  \/ sleep_setup_signal_stop(t)
  \/ sleep_finish(t) \/ sleep_finish_awake(t) \/ sleep_finish_unsleep(t)
  \/ mi_switch_run(t) \/ mi_switch_resume(t)
  \/ sleep_finish_timeout(t) \/ sleep_finish_signal(t) \/ sleep_finish_signal_stop(t)

Signal(t) == ptsignal_intr(t) \/ ptsignal_stop(t) \/ ptsignal_cont(t)

Next ==
  \/ \E t \in Threads : Locking(t) \/ Thread(t) \/ Signal(t) \/ userret(t)
  \/ \E t \in Threads, c \in Calls : enter(t, c)
  \/ \E t \in Threads, s \in Sent : ptsignal_post(t, s)
  \/ \E w \in Wakers, i \in Idents : happen(w, i)
  \/ \E w \in Wakers : wakeup(w)
  \/ \E t \in Threads : softclock(t)
  \/ endtsleep

Spec == Init /\ [][Next]_vars

\* Runnable threads are run, timeouts are called and whoever has begun a
\* wakeup or a signal ends it.  The kernel lock and the scheduler lock are
\* taken in the order of tickets (__mp_lock()), hence SF; a mutex is not.
Fairness ==
  /\ \A t \in Threads : WF_vars(Locking(t)) /\ SF_vars(Thread(t))
  /\ \A t \in Threads : SF_vars(Signal(t)) /\ SF_vars(softclock(t))
  /\ \A w \in Wakers : SF_vars(wakeup(w))
  /\ SF_vars(endtsleep)
FairSpec == Spec /\ Fairness

(***************************************************************************)
(* Properties.                                                             *)
(***************************************************************************)

\* Every variable has its type.
TypeOK ==
  /\ slpque \in [Queues -> Seq(Threads)]
  /\ p_wchan \in [Threads -> Idents \cup {NONE}]
  /\ p_stat \in [Threads -> {"SONPROC", "SRUN", "SSLEEP", "SSTOP"}]
  /\ p_sintr \subseteq Threads /\ p_timeout \subseteq Threads /\ p_sleep_to \subseteq Threads
  /\ p_siglist \in [Threads -> SUBSET {"intr", "stop"}]
  /\ call \in [Threads -> Calls \cup {NoCall}]
  /\ error \in [Threads -> {"0", "EWOULDBLOCK", "EINTR"}]
  /\ happened \in [Idents -> BOOLEAN]
  /\ waker \in [Wakers -> Idents \cup {NONE}]
  /\ clock \in Threads \cup {NONE}
  /\ kernel_lock \in Threads \cup {Softclock, Sender, NONE}
  /\ sched_lock \in Threads \cup {NONE} /\ mutex \in Threads \cup {NONE}

\* p_wchan and the queues agree: a thread is once on the queue of its
\* p_wchan and on no other, although wakeups, timeouts and signals all take
\* threads off.
QueuesAgree ==
  /\ \A b \in Queues : IsInjective(slpque[b])
  /\ \A t \in Threads, b \in Queues :
       (\E k \in DOMAIN slpque[b] : slpque[b][k] = t)
         <=> p_wchan[t] # NONE /\ LOOKUP[p_wchan[t]] = b

\* The panics of wakeup_n(), setrunnable(), sleep_setup() and sleep_finish()
\* do not happen: whoever is on a queue while the scheduler lock is free is
\* asleep or stopped, and whoever runs in sleep_*() is SONPROC.
NoPanic ==
  \A t \in Threads :
    /\ sched_lock = NONE /\ p_wchan[t] # NONE => p_stat[t] \in {"SSLEEP", "SSTOP"}
    /\ at[t] \notin Away => p_stat[t] = "SONPROC"
    /\ p_stat[t] = "SSLEEP" => p_wchan[t] # NONE

WillLook(u) ==
  \/ u \in woken \/ at[u] = "check"
  \/ at[u] \in {"setup_signal", "finish"} /\ By(u, "none")

\* No wakeup is lost: if a thread has switched away on the queue of an event
\* that has happened, the wakeup is still to come, or one thread is on its
\* way to see it.
NoLostWakeup ==
  \A t \in Threads :
    at[t] \in Away /\ p_wchan[t] # NONE /\ happened[p_wchan[t]] =>
      \/ \E w \in Wakers : waker[w] = p_wchan[t]
      \/ p_wchan[t] \in WakeOne /\ \E u \in Threads : WillLook(u) /\ ident(u) = p_wchan[t]

\* A signal does not find a PCATCH sleep and leave it asleep.
NoSignalSlept ==
  \A t \in p_sintr : \A s \in p_siglist[t] :
    p_stat[t] = "SSLEEP" => kick = <<t, s>>

\* tsleep(): "Returns 0 if awakened, EWOULDBLOCK if the timeout expires":
\* by a wakeup of this sleep, or the timeout of this sleep.
ReturnsTruth ==
  \A t \in Threads : at[t] = "return" =>
    /\ error[t] = "0" => t \in woken
    /\ error[t] = "EWOULDBLOCK" => call[t].timo /\ t \in expired

\* msleep(): "once we've entered the sleep queue we drop the mutex": nobody
\* who has switched away holds it.
NoMutexAway == \A t \in Threads : at[t] \in Away /\ p_stat[t] # "SONPROC" => mutex # t

\* A sleep with a timeout ends, unless it is stopped.
TimedSleepEnds ==
  \A t \in Threads : at[t] = "asleep" /\ call[t].timo ~> at[t] # "asleep" \/ p_stat[t] = "SSTOP"

\* A sleep whose event stays is ended by its wakeup.
EventWakes ==
  \A t \in Threads, i \in Idents :
    p_stat[t] = "SSLEEP" /\ p_wchan[t] = i /\ happened[i] ~> p_wchan[t] # i \/ ~happened[i]
=============================================================================
