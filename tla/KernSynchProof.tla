--------------------------- MODULE KernSynchProof ---------------------------
(***************************************************************************)
(* The sleep queues stay consistent, whatever the threads, idents and      *)
(* calls are: what each place in the code of a sleeping thread says of its *)
(* queue, its state and its locks (IInv). Above it, three invariants of    *)
(* their own: why a thread left its queue (TimedInv), which signals it has *)
(* not seen (SignalInv) and which events it has not (WakeInv).             *)
(***************************************************************************)
EXTENDS KernSynch, QueueProof

Held   == {"setup_signal", "finish"}       \* under the scheduler lock
Queued == Held \cup {"asleep", "stopped"}  \* where a thread may be on a queue
Places == Queued \cup {"user", "lock", "check", "stopped_late", "finish_timeout",
                       "finish_signal", "return"}

\* What TypeOK leaves out.
LocalType ==
  /\ at \in [Threads -> Places]
  /\ sls \in [Threads -> [catch : BOOLEAN, do_sleep : BOOLEAN, sig : BOOLEAN]]
  /\ kick \in (Threads \X {"intr", "stop", "cont"}) \cup {NONE}

\* The locks a thread holds: the kernel lock comes back before it runs.
Locks(t) ==
  /\ sched_lock = t <=> at[t] \in Held
  /\ kernel_lock = t <=> call[t].giant /\ (at[t] \in Away => p_stat[t] = "SONPROC")

\* A thread and its state: only mi_switch() takes it off the processor.
Stat(t) ==
  /\ at[t] \notin Away => p_stat[t] = "SONPROC"
  /\ p_wchan[t] # NONE /\ at[t] \in Away => p_stat[t] \in {"SSLEEP", "SSTOP"}
  /\ p_stat[t] = "SSLEEP" => p_wchan[t] # NONE

\* A thread and its queue: do_sleep is set until it is taken off.
Wchan(t) ==
  /\ p_wchan[t] # NONE => at[t] \in Queued /\ p_wchan[t] = ident(t)
  /\ at[t] = "setup_signal" /\ ~call[t].catch => p_wchan[t] # NONE /\ sls[t].do_sleep
  /\ at[t] = "finish" => (sls[t].do_sleep <=> p_wchan[t] # NONE)
  /\ at[t] = "finish" /\ ~call[t].catch => sls[t].do_sleep

\* A thread and its call.
Call(t) ==
  /\ at[t] = "user" => call[t] = NoCall
  /\ at[t] # "user" => call[t] \in Calls
  /\ at[t] \in {"stopped", "stopped_late"} \/ sls[t].catch => call[t].catch
  /\ t \in p_sintr => call[t].catch /\ at[t] \in Queued

TInv(t) == Locks(t) /\ Stat(t) /\ Wchan(t) /\ Call(t)

\* Softclock and the sender of signals work under the kernel lock.
Outside ==
  /\ kick # NONE => kernel_lock = Sender
  /\ clock # NONE => kernel_lock = Softclock

\* QueuesAgree, with the queues as sets.
OnQueue ==
  /\ \A b \in Queues : IsInjective(slpque[b])
  /\ \A t \in Threads, b \in Queues :
       t \in ToSet(slpque[b]) <=> p_wchan[t] # NONE /\ LOOKUP[p_wchan[t]] = b

\* The inductive invariant.
IInv == TypeOK /\ LocalType /\ (\A t \in Threads : TInv(t)) /\ Outside /\ OnQueue

-----------------------------------------------------------------------------

\* The fields of a call and of a struct sleep_state.
LEMMA Fields ==
  ASSUME TypeOK, LocalType, NEW t \in Threads
  PROVE  /\ call[t].catch \in BOOLEAN /\ call[t].timo \in BOOLEAN /\ call[t].giant \in BOOLEAN
         /\ call[t].norelock \in BOOLEAN /\ ident(t) \in Idents \cup {NONE}
         /\ sls[t].catch \in BOOLEAN /\ sls[t].do_sleep \in BOOLEAN /\ sls[t].sig \in BOOLEAN
         /\ call[t] \in Calls =>
              /\ ident(t) \in Idents
              /\ By(t, "none") => ~call[t].catch /\ ~call[t].timo
         /\ call[t] = NoCall => ~call[t].giant /\ ~call[t].timo /\ ident(t) = NONE
<1>1. /\ NoCall.catch = FALSE /\ NoCall.timo = FALSE /\ NoCall.giant = FALSE
      /\ NoCall.norelock = FALSE /\ NoCall.ident = NONE
  BY DEF NoCall
<1>2. call[t] \in Calls \cup {NoCall}
  BY DEF TypeOK
<1>3. ASSUME NEW c \in Calls
      PROVE  /\ c.catch \in BOOLEAN /\ c.timo \in BOOLEAN /\ c.giant \in BOOLEAN
             /\ c.norelock \in BOOLEAN /\ c.ident \in Idents
             /\ Protect[c.ident] = "none" => ~c.catch /\ ~c.timo
  BY KernSynchAssumption
<1>4. /\ sls[t].catch \in BOOLEAN /\ sls[t].do_sleep \in BOOLEAN /\ sls[t].sig \in BOOLEAN
  BY DEF LocalType
<1> HIDE DEF NoCall
<1> QED BY <1>1, <1>2, <1>3, <1>4 DEF ident, By

\* A step does not concern thread u.
Same(u) ==
  /\ at'[u] = at[u] /\ call'[u] = call[u] /\ sls'[u] = sls[u] /\ error'[u] = error[u]
  /\ p_wchan'[u] = p_wchan[u] /\ p_stat'[u] = p_stat[u] /\ p_siglist'[u] = p_siglist[u]
  /\ u \in p_sintr' <=> u \in p_sintr
  /\ u \in p_timeout' <=> u \in p_timeout
  /\ u \in p_sleep_to' <=> u \in p_sleep_to
  /\ u \in woken' <=> u \in woken
  /\ u \in expired' <=> u \in expired
  /\ kernel_lock' = u <=> kernel_lock = u
  /\ sched_lock' = u <=> sched_lock = u
  /\ mutex' = u <=> mutex = u
  /\ clock' = u <=> clock = u
  /\ \A x \in {"intr", "stop", "cont"} : kick' = <<u, x>> <=> kick = <<u, x>>

\* wakeup_n() takes a thread that has switched away off its queue, and makes
\* it runnable if it sleeps.
Woken(u) ==
  /\ at'[u] = at[u] /\ call'[u] = call[u] /\ sls'[u] = sls[u] /\ error'[u] = error[u]
  /\ p_wchan'[u] = NONE /\ p_siglist'[u] = p_siglist[u]
  /\ p_stat'[u] = IF p_stat[u] = "SSLEEP" THEN "SRUN" ELSE p_stat[u]
  /\ p_wchan[u] # NONE /\ sched_lock = NONE /\ u \in woken'
  /\ UNCHANGED <<p_sintr, p_timeout, p_sleep_to, expired, locks, clock, kick>>

\* What thread t does, or softclock and ptsignal() do to it.
Does(t) ==
  \/ Locking(t) \/ Thread(t) \/ Signal(t) \/ userret(t)
  \/ \E c \in Calls : enter(t, c)
  \/ \E s \in Sent : ptsignal_post(t, s)
  \/ softclock(t)
  \/ clock = t /\ endtsleep

\* A step that does not concern a thread keeps what its place says of it.
LEMMA Frame ==
  ASSUME NEW u \in Threads, TInv(u), Same(u)
  PROVE  TInv(u)'
  BY DEF TInv, Locks, Stat, Wchan, Call, Same, ident

\* What the cases of ptsignal() have in common.
LEMMA Acted ==
  ASSUME IInv, NEW t \in Threads, NEW s \in {"intr", "stop", "cont"}, acted(t, s)
  PROVE  /\ sched_lock = NONE /\ kernel_lock = Sender /\ clock = NONE
         /\ LocalType' /\ Outside'
         /\ UNCHANGED <<at, call, sls, p_sintr, sched_lock>>
         /\ \A u \in Threads : kernel_lock # u /\ kernel_lock' # u
<1>1. kick # NONE
  BY KernSynchAssumption DEF acted, IInv, LocalType
<1>2. kernel_lock = Sender /\ clock = NONE
  BY <1>1, KernSynchAssumption DEF IInv, Outside
<1>3. LocalType'
  BY DEF acted, IInv, LocalType, local
<1> QED BY <1>2, <1>3, KernSynchAssumption DEF acted, Outside, local

\* No step but wakeup_n() concerns two threads.
LEMMA Others ==
  ASSUME IInv, NEW t \in Threads, Does(t), NEW u \in Threads \ {t}
  PROVE  Same(u)
<1> USE KernSynchAssumption DEF Same, proc, local, env, locks, ghost
<1>1. TypeOK /\ LocalType /\ Outside /\ TInv(t)
  BY DEF IInv
<1>2. CASE mtx_enter(t)
  BY <1>2 DEF mtx_enter
<1>3. CASE return(t)
  BY <1>1, <1>3 DEF return, leave, TypeOK, LocalType
<1>4. CASE consume(t)
  BY <1>4 DEF consume, leave
<1>5. CASE sleep_setup(t)
  BY <1>5 DEF sleep_setup, sleep_setup_timeout
<1>6. CASE sleep_setup_nosignal(t)
  BY <1>6 DEF sleep_setup_nosignal
<1>7. CASE sleep_setup_signal(t)
  BY <1>7 DEF sleep_setup_signal
<1>8. CASE sleep_setup_signal_intr(t)
  BY <1>8 DEF sleep_setup_signal_intr, unsleep
<1>9. CASE sleep_setup_signal_stop(t)
  BY <1>1, <1>9 DEF sleep_setup_signal_stop, mi_switch, TInv, Locks, Held
<1>10. CASE sleep_finish(t)
  BY <1>1, <1>10 DEF sleep_finish, mi_switch, TInv, Locks, Held
<1>11. CASE sleep_finish_awake(t)
  BY <1>1, <1>11 DEF sleep_finish_awake, TInv, Locks, Held
<1>12. CASE sleep_finish_unsleep(t)
  BY <1>1, <1>12 DEF sleep_finish_unsleep, leave, unsleep, TInv, Locks, Held
<1>13. CASE mi_switch_run(t)
  BY <1>13 DEF mi_switch_run
<1>14. CASE mi_switch_resume(t)
  BY <1>14 DEF mi_switch_resume
<1>15. CASE sleep_finish_timeout(t)
  BY <1>1, <1>15 DEF sleep_finish_timeout, timeout_del, TypeOK
<1>16. CASE sleep_finish_signal(t)
  BY <1>1, <1>16 DEF sleep_finish_signal, TypeOK
<1>17. CASE sleep_finish_signal_stop(t)
  BY <1>17 DEF sleep_finish_signal_stop, mi_switch
<1>18. CASE ptsignal_intr(t)
  <2>1. acted(t, "intr")
    BY <1>18 DEF ptsignal_intr
  <2>2. /\ UNCHANGED <<at, call, sls, p_sintr, sched_lock>>
        /\ kernel_lock # u /\ kernel_lock' # u
    BY <2>1, Acted
  <2> QED BY <1>18, <2>2 DEF ptsignal_intr, acted, unsleep, setrunnable
<1>19. CASE ptsignal_stop(t)
  <2>1. acted(t, "stop")
    BY <1>19 DEF ptsignal_stop
  <2>2. /\ UNCHANGED <<at, call, sls, p_sintr, sched_lock>>
        /\ kernel_lock # u /\ kernel_lock' # u
    BY <2>1, Acted
  <2> QED BY <1>1, <1>19, <2>2 DEF ptsignal_stop, acted, TypeOK
<1>20. CASE ptsignal_cont(t)
  <2>1. acted(t, "cont")
    BY <1>20 DEF ptsignal_cont
  <2>2. /\ UNCHANGED <<at, call, sls, p_sintr, sched_lock>>
        /\ kernel_lock # u /\ kernel_lock' # u
    BY <2>1, Acted
  <2> QED BY <1>20, <2>2 DEF ptsignal_cont, acted
<1>21. CASE userret(t)
  BY <1>21 DEF userret
<1>22. CASE softclock(t)
  BY <1>22 DEF softclock
<1>23. ASSUME NEW c \in Calls, enter(t, c) PROVE Same(u)
  BY <1>23 DEF enter
<1>24. ASSUME NEW s \in Sent, ptsignal_post(t, s) PROVE Same(u)
  BY <1>1, <1>24 DEF ptsignal_post, Outside
<1>25. CASE clock = t /\ endtsleep
  <2>1. kernel_lock = Softclock /\ kick = NONE
    BY <1>1, <1>25 DEF Outside
  <2>2. \/ unsleep({t}) /\ setrunnable({t}) /\ p_timeout' = p_timeout \cup {t}
        \/ UNCHANGED <<slpque, p_wchan, p_stat, p_timeout>>
    BY <1>25 DEF endtsleep
  <2>3. p_wchan'[u] = p_wchan[u] /\ p_stat'[u] = p_stat[u] /\ (u \in p_timeout' <=> u \in p_timeout)
    BY <2>2 DEF unsleep, setrunnable
  <2> QED BY <1>25, <2>1, <2>3 DEF endtsleep
<1> QED BY <1>2, <1>3, <1>4, <1>5, <1>6, <1>7, <1>8, <1>9, <1>10, <1>11, <1>12, <1>13,
           <1>14, <1>15, <1>16, <1>17, <1>18, <1>19, <1>20, <1>21, <1>22, <1>23, <1>24,
           <1>25 DEF Does, Locking, Thread, Signal

\* QueuesAgree and OnQueue are the same.
LEMMA Agree == OnQueue <=> QueuesAgree
  BY DEF OnQueue, QueuesAgree, ToSet

\* unsleep() keeps queues and p_wchan in agreement.
LEMMA UnsleepAgrees ==
  ASSUME IInv, NEW ts, unsleep(ts)
  PROVE  OnQueue' /\ slpque' \in [Queues -> Seq(Threads)]
<1>1. ASSUME NEW b \in Queues
      PROVE  /\ slpque'[b] \in Seq(Threads)
             /\ ToSet(slpque'[b]) = ToSet(slpque[b]) \ ts
             /\ IsInjective(slpque'[b])
  <2>1. slpque[b] \in Seq(Threads) /\ IsInjective(slpque[b])
    BY DEF IInv, TypeOK, OnQueue
  <2>2. slpque'[b] = Without(slpque[b], ts)
    BY DEF unsleep
  <2> QED BY <2>1, <2>2, WithoutProperties
<1>2. \A t \in Threads : p_wchan'[t] = IF t \in ts THEN NONE ELSE p_wchan[t]
  BY DEF unsleep
<1>3. slpque' \in [Queues -> Seq(Threads)]
  BY <1>1 DEF unsleep
<1>4. OnQueue'
  BY <1>1, <1>2 DEF IInv, OnQueue
<1> QED BY <1>3, <1>4

\* One lemma per action: it keeps IInv.
LEMMA Step_mtx_enter ==
  ASSUME IInv, NEW t \in Threads, mtx_enter(t)
  PROVE  IInv'
<1> USE DEF Held, Queued, Away, Places
<1>0. TypeOK /\ LocalType /\ TInv(t) /\ Outside
  BY DEF IInv
<1>1. TypeOK'
  BY <1>0 DEF mtx_enter, TypeOK, proc, env
<1>2. LocalType'
  BY <1>0 DEF mtx_enter, LocalType, env
<1>3. TInv(t)'
  BY <1>0 DEF mtx_enter, TInv, Locks, Stat, Wchan, Call, proc
<1>4. ASSUME NEW u \in Threads \ {t} PROVE Same(u)
  BY Others DEF Does, Locking
<1>5. Outside'
  BY <1>0 DEF mtx_enter, Outside, env
<1>6. OnQueue'
  BY DEF mtx_enter, IInv, OnQueue, proc
<1> QED BY <1>1, <1>2, <1>3, <1>4, <1>5, <1>6, Frame DEF IInv

LEMMA Step_consume ==
  ASSUME IInv, NEW t \in Threads, consume(t)
  PROVE  IInv'
<1> USE DEF Held, Queued, Away, Places
<1>0. TypeOK /\ LocalType /\ TInv(t) /\ Outside
  BY DEF IInv
<1>1. TypeOK'
  BY <1>0, Fields, KernSynchAssumption
     DEF consume, leave, TypeOK, LocalType, NoCall, NoState, vars, proc, local, env, locks,
         ghost
<1>2. LocalType'
  BY <1>0 DEF consume, leave, LocalType, NoState
<1>3. TInv(t)'
  BY <1>0, KernSynchAssumption
     DEF consume, leave, TypeOK, LocalType, NoCall, NoState, TInv, Locks, Stat, Wchan, Call,
         proc
<1>4. ASSUME NEW u \in Threads \ {t} PROVE Same(u)
  BY Others DEF Does, Thread
<1>5. Outside'
  BY <1>0, KernSynchAssumption DEF consume, leave, Outside
<1>6. OnQueue'
  BY DEF consume, IInv, OnQueue, proc
<1> QED BY <1>1, <1>2, <1>3, <1>4, <1>5, <1>6, Frame DEF IInv

LEMMA Step_sleep_setup ==
  ASSUME IInv, NEW t \in Threads, sleep_setup(t)
  PROVE  IInv'
<1> USE DEF Held, Queued, Away, Places
<1>0. TypeOK /\ LocalType /\ TInv(t) /\ Outside
  BY DEF IInv
<1> DEFINE b == LOOKUP[ident(t)]
<1>a. ident(t) \in Idents /\ b \in Queues /\ p_wchan[t] = NONE
  BY <1>0, Fields DEF sleep_setup, TInv, Call, Wchan, Queues
<1>b. slpque[b] \in Seq(Threads) /\ IsInjective(slpque[b]) /\ t \notin ToSet(slpque[b])
  BY <1>a DEF IInv, OnQueue, TypeOK
<1>c. /\ slpque' = [slpque EXCEPT ![b] = Append(slpque[b], t)]
      /\ p_wchan' = [p_wchan EXCEPT ![t] = ident(t)]
  BY DEF sleep_setup, wchan
<1>d. /\ Append(slpque[b], t) \in Seq(Threads)
      /\ ToSet(Append(slpque[b], t)) = ToSet(slpque[b]) \cup {t}
      /\ IsInjective(Append(slpque[b], t))
  BY <1>b, AppendOnce
<1>1. TypeOK'
  <2>1. slpque' \in [Queues -> Seq(Threads)]
    BY <1>0, <1>a, <1>c DEF TypeOK
  <2>2. p_wchan' \in [Threads -> Idents \cup {NONE}]
    BY <1>0, <1>a, <1>c DEF TypeOK
  <2> QED BY <1>0, <2>1, <2>2 DEF sleep_setup, sleep_setup_timeout, TypeOK, env
<1>2. LocalType'
  BY <1>0 DEF sleep_setup, LocalType, env
<1>3. TInv(t)'
  BY <1>0, KernSynchAssumption
     DEF sleep_setup, wchan, TypeOK, LocalType, TInv, Locks, Stat, Wchan, Call, ident
<1>4. ASSUME NEW u \in Threads \ {t} PROVE Same(u)
  BY Others DEF Does, Thread
<1>5. Outside'
  BY <1>0 DEF sleep_setup, Outside, env
<1>6. OnQueue'
  <2>1. \A e \in Queues : slpque'[e] = IF e = b THEN Append(slpque[b], t) ELSE slpque[e]
    BY <1>0, <1>a, <1>c DEF TypeOK
  <2>2. \A u \in Threads : p_wchan'[u] = IF u = t THEN ident(t) ELSE p_wchan[u]
    BY <1>0, <1>c DEF TypeOK
  <2>3. ident(t) # NONE
    BY <1>a, KernSynchAssumption
  <2>4. ASSUME NEW e \in Queues PROVE IsInjective(slpque'[e])
    BY <1>d, <2>1 DEF IInv, OnQueue
  <2>5. ASSUME NEW u \in Threads, NEW e \in Queues
        PROVE  u \in ToSet(slpque'[e]) <=> p_wchan'[u] # NONE /\ LOOKUP[p_wchan'[u]] = e
    BY <1>a, <1>d, <2>1, <2>2, <2>3 DEF IInv, OnQueue
  <2> QED BY <2>4, <2>5 DEF OnQueue, Queues
<1> QED BY <1>1, <1>2, <1>3, <1>4, <1>5, <1>6, Frame DEF IInv

LEMMA Step_sleep_setup_nosignal ==
  ASSUME IInv, NEW t \in Threads, sleep_setup_nosignal(t)
  PROVE  IInv'
<1> USE DEF Held, Queued, Away, Places
<1>0. TypeOK /\ LocalType /\ TInv(t) /\ Outside
  BY DEF IInv
<1>1. TypeOK'
  BY <1>0 DEF sleep_setup_nosignal, TypeOK, proc, env, locks
<1>2. LocalType'
  BY <1>0 DEF sleep_setup_nosignal, LocalType, env
<1>3. TInv(t)'
  BY <1>0 DEF sleep_setup_nosignal, TInv, Locks, Stat, Wchan, Call, proc, locks, ident
<1>4. ASSUME NEW u \in Threads \ {t} PROVE Same(u)
  BY Others DEF Does, Thread
<1>5. Outside'
  BY <1>0 DEF sleep_setup_nosignal, Outside, env, locks
<1>6. OnQueue'
  BY DEF sleep_setup_nosignal, IInv, OnQueue, proc
<1> QED BY <1>1, <1>2, <1>3, <1>4, <1>5, <1>6, Frame DEF IInv

LEMMA Step_sleep_setup_signal ==
  ASSUME IInv, NEW t \in Threads, sleep_setup_signal(t)
  PROVE  IInv'
<1> USE DEF Held, Queued, Away, Places
<1>0. TypeOK /\ LocalType /\ TInv(t) /\ Outside
  BY DEF IInv
<1>1. TypeOK'
  BY <1>0 DEF sleep_setup_signal, TypeOK, env, locks
<1>2. LocalType'
  BY <1>0 DEF sleep_setup_signal, LocalType, NoState, env
<1>3. TInv(t)'
  BY <1>0
     DEF sleep_setup_signal, LocalType, NoState, TInv, Locks, Stat, Wchan, Call, locks,
         ident
<1>4. ASSUME NEW u \in Threads \ {t} PROVE Same(u)
  BY Others DEF Does, Thread
<1>5. Outside'
  BY <1>0 DEF sleep_setup_signal, Outside, env, locks
<1>6. OnQueue'
  BY DEF sleep_setup_signal, IInv, OnQueue
<1> QED BY <1>1, <1>2, <1>3, <1>4, <1>5, <1>6, Frame DEF IInv

LEMMA Step_sleep_setup_signal_intr ==
  ASSUME IInv, NEW t \in Threads, sleep_setup_signal_intr(t)
  PROVE  IInv'
<1> USE DEF Held, Queued, Away, Places
<1>0. TypeOK /\ LocalType /\ TInv(t) /\ Outside
  BY DEF IInv
<1>1. TypeOK'
  <2>1. slpque' \in [Queues -> Seq(Threads)]
    BY UnsleepAgrees DEF sleep_setup_signal_intr
  <2>2. p_wchan' \in [Threads -> Idents \cup {NONE}]
    BY <1>0 DEF sleep_setup_signal_intr, unsleep, TypeOK
  <2> QED BY <1>0, <2>1, <2>2 DEF sleep_setup_signal_intr, TypeOK, env, locks
<1>2. LocalType'
  BY <1>0 DEF sleep_setup_signal_intr, LocalType, env
<1>3. TInv(t)'
  BY <1>0
     DEF sleep_setup_signal_intr, unsleep, LocalType, TInv, Locks, Stat, Wchan, Call, locks
<1>4. ASSUME NEW u \in Threads \ {t} PROVE Same(u)
  BY Others DEF Does, Thread
<1>5. Outside'
  BY <1>0 DEF sleep_setup_signal_intr, Outside, env, locks
<1>6. OnQueue'
  BY UnsleepAgrees DEF sleep_setup_signal_intr
<1> QED BY <1>1, <1>2, <1>3, <1>4, <1>5, <1>6, Frame DEF IInv

LEMMA Step_sleep_setup_signal_stop ==
  ASSUME IInv, NEW t \in Threads, sleep_setup_signal_stop(t)
  PROVE  IInv'
<1> USE DEF Held, Queued, Away, Places
<1>0. TypeOK /\ LocalType /\ TInv(t) /\ Outside
  BY DEF IInv
<1>1. TypeOK'
  BY <1>0 DEF sleep_setup_signal_stop, mi_switch, TypeOK, env
<1>2. LocalType'
  BY <1>0 DEF sleep_setup_signal_stop, LocalType, env
<1>3. TInv(t)'
  BY <1>0, KernSynchAssumption
     DEF sleep_setup_signal_stop, mi_switch, TypeOK, LocalType, TInv, Locks, Stat, Wchan,
         Call, ident
<1>4. ASSUME NEW u \in Threads \ {t} PROVE Same(u)
  BY Others DEF Does, Thread
<1>5. Outside'
  BY <1>0, KernSynchAssumption DEF sleep_setup_signal_stop, mi_switch, Outside, env
<1>6. OnQueue'
  BY DEF sleep_setup_signal_stop, IInv, OnQueue
<1> QED BY <1>1, <1>2, <1>3, <1>4, <1>5, <1>6, Frame DEF IInv

LEMMA Step_sleep_finish ==
  ASSUME IInv, NEW t \in Threads, sleep_finish(t)
  PROVE  IInv'
<1> USE DEF Held, Queued, Away, Places
<1>0. TypeOK /\ LocalType /\ TInv(t) /\ Outside
  BY DEF IInv
<1>1. TypeOK'
  BY <1>0 DEF sleep_finish, mi_switch, TypeOK, env
<1>2. LocalType'
  BY <1>0 DEF sleep_finish, LocalType, env
<1>3. TInv(t)'
  BY <1>0, KernSynchAssumption
     DEF sleep_finish, mi_switch, TypeOK, LocalType, TInv, Locks, Stat, Wchan, Call, ident
<1>4. ASSUME NEW u \in Threads \ {t} PROVE Same(u)
  BY Others DEF Does, Thread
<1>5. Outside'
  BY <1>0, KernSynchAssumption DEF sleep_finish, mi_switch, Outside, env
<1>6. OnQueue'
  BY DEF sleep_finish, IInv, OnQueue
<1> QED BY <1>1, <1>2, <1>3, <1>4, <1>5, <1>6, Frame DEF IInv

LEMMA Step_sleep_finish_awake ==
  ASSUME IInv, NEW t \in Threads, sleep_finish_awake(t)
  PROVE  IInv'
<1> USE DEF Held, Queued, Away, Places
<1>0. TypeOK /\ LocalType /\ TInv(t) /\ Outside
  BY DEF IInv
<1>1. TypeOK'
  BY <1>0 DEF sleep_finish_awake, TypeOK, env
<1>2. LocalType'
  BY <1>0 DEF sleep_finish_awake, LocalType, env
<1>3. TInv(t)'
  BY <1>0, KernSynchAssumption
     DEF sleep_finish_awake, LocalType, TInv, Locks, Stat, Wchan, Call
<1>4. ASSUME NEW u \in Threads \ {t} PROVE Same(u)
  BY Others DEF Does, Thread
<1>5. Outside'
  BY <1>0 DEF sleep_finish_awake, Outside, env
<1>6. OnQueue'
  BY DEF sleep_finish_awake, IInv, OnQueue
<1> QED BY <1>1, <1>2, <1>3, <1>4, <1>5, <1>6, Frame DEF IInv

LEMMA Step_sleep_finish_unsleep ==
  ASSUME IInv, NEW t \in Threads, sleep_finish_unsleep(t)
  PROVE  IInv'
<1> USE DEF Held, Queued, Away, Places
<1>0. TypeOK /\ LocalType /\ TInv(t) /\ Outside
  BY DEF IInv
<1>1. TypeOK'
  <2>1. slpque' \in [Queues -> Seq(Threads)]
    BY UnsleepAgrees DEF sleep_finish_unsleep
  <2>2. p_wchan' \in [Threads -> Idents \cup {NONE}]
    BY <1>0 DEF sleep_finish_unsleep, unsleep, TypeOK
  <2> QED BY <1>0, <2>1, <2>2
             DEF sleep_finish_unsleep, leave, TypeOK, NoCall, proc, local, env, locks, ghost
<1>2. LocalType'
  BY <1>0 DEF sleep_finish_unsleep, leave, LocalType, NoState
<1>3. TInv(t)'
  BY <1>0, Fields, KernSynchAssumption
     DEF sleep_finish_unsleep, leave, unsleep, TypeOK, LocalType, NoCall, NoState, TInv,
         Locks, Stat, Wchan, Call, do_sleep
<1>4. ASSUME NEW u \in Threads \ {t} PROVE Same(u)
  BY Others DEF Does, Thread
<1>5. Outside'
  BY <1>0, KernSynchAssumption DEF sleep_finish_unsleep, leave, Outside
<1>6. OnQueue'
  BY UnsleepAgrees DEF sleep_finish_unsleep
<1> QED BY <1>1, <1>2, <1>3, <1>4, <1>5, <1>6, Frame DEF IInv

LEMMA Step_mi_switch_run ==
  ASSUME IInv, NEW t \in Threads, mi_switch_run(t)
  PROVE  IInv'
<1> USE DEF Held, Queued, Away, Places
<1>0. TypeOK /\ LocalType /\ TInv(t) /\ Outside
  BY DEF IInv
<1>1. TypeOK'
  BY <1>0 DEF mi_switch_run, TypeOK, local, env
<1>2. LocalType'
  BY <1>0 DEF mi_switch_run, LocalType, local, env
<1>3. TInv(t)'
  BY <1>0 DEF mi_switch_run, TypeOK, TInv, Locks, Stat, Wchan, Call, local
<1>4. ASSUME NEW u \in Threads \ {t} PROVE Same(u)
  BY Others DEF Does, Thread
<1>5. Outside'
  BY <1>0, KernSynchAssumption DEF mi_switch_run, Outside, env
<1>6. OnQueue'
  BY DEF mi_switch_run, IInv, OnQueue
<1> QED BY <1>1, <1>2, <1>3, <1>4, <1>5, <1>6, Frame DEF IInv

LEMMA Step_mi_switch_resume ==
  ASSUME IInv, NEW t \in Threads, mi_switch_resume(t)
  PROVE  IInv'
<1> USE DEF Held, Queued, Away, Places
<1>0. TypeOK /\ LocalType /\ TInv(t) /\ Outside
  BY DEF IInv
<1>1. TypeOK'
  BY <1>0 DEF mi_switch_resume, TypeOK, env
<1>2. LocalType'
  BY <1>0 DEF mi_switch_resume, LocalType, env
<1>3. TInv(t)'
  BY <1>0 DEF mi_switch_resume, LocalType, TInv, Locks, Stat, Wchan, Call
<1>4. ASSUME NEW u \in Threads \ {t} PROVE Same(u)
  BY Others DEF Does, Thread
<1>5. Outside'
  BY <1>0 DEF mi_switch_resume, Outside, env
<1>6. OnQueue'
  BY DEF mi_switch_resume, IInv, OnQueue
<1> QED BY <1>1, <1>2, <1>3, <1>4, <1>5, <1>6, Frame DEF IInv

LEMMA Step_sleep_finish_timeout ==
  ASSUME IInv, NEW t \in Threads, sleep_finish_timeout(t)
  PROVE  IInv'
<1> USE DEF Held, Queued, Away, Places
<1>0. TypeOK /\ LocalType /\ TInv(t) /\ Outside
  BY DEF IInv
<1>1. TypeOK'
  <2>1. CASE t \in p_timeout
    BY <1>0, <2>1 DEF sleep_finish_timeout, TypeOK, env, locks
  <2>2. CASE t \notin p_timeout
    BY <1>0 DEF sleep_finish_timeout, timeout_del, TypeOK, env, locks
  <2> QED BY <2>1, <2>2
<1>2. LocalType'
  BY <1>0 DEF sleep_finish_timeout, LocalType, env
<1>3. TInv(t)'
  BY <1>0 DEF sleep_finish_timeout, TInv, Locks, Stat, Wchan, Call, locks
<1>4. ASSUME NEW u \in Threads \ {t} PROVE Same(u)
  BY Others DEF Does, Thread
<1>5. Outside'
  BY <1>0 DEF sleep_finish_timeout, Outside, env, locks
<1>6. OnQueue'
  BY DEF sleep_finish_timeout, IInv, OnQueue
<1> QED BY <1>1, <1>2, <1>3, <1>4, <1>5, <1>6, Frame DEF IInv

LEMMA Step_sleep_finish_signal ==
  ASSUME IInv, NEW t \in Threads, sleep_finish_signal(t)
  PROVE  IInv'
<1> USE DEF Held, Queued, Away, Places
<1>0. TypeOK /\ LocalType /\ TInv(t) /\ Outside
  BY DEF IInv
<1>1. TypeOK'
  BY <1>0 DEF sleep_finish_signal, TypeOK, proc, env, locks
<1>2. LocalType'
  BY <1>0 DEF sleep_finish_signal, LocalType, env
<1>3. TInv(t)'
  BY <1>0 DEF sleep_finish_signal, TInv, Locks, Stat, Wchan, Call, proc, locks
<1>4. ASSUME NEW u \in Threads \ {t} PROVE Same(u)
  BY Others DEF Does, Thread
<1>5. Outside'
  BY <1>0 DEF sleep_finish_signal, Outside, env, locks
<1>6. OnQueue'
  BY DEF sleep_finish_signal, IInv, OnQueue, proc
<1> QED BY <1>1, <1>2, <1>3, <1>4, <1>5, <1>6, Frame DEF IInv

LEMMA Step_sleep_finish_signal_stop ==
  ASSUME IInv, NEW t \in Threads, sleep_finish_signal_stop(t)
  PROVE  IInv'
<1> USE DEF Held, Queued, Away, Places
<1>0. TypeOK /\ LocalType /\ TInv(t) /\ Outside
  BY DEF IInv
<1>1. TypeOK'
  BY <1>0 DEF sleep_finish_signal_stop, mi_switch, TypeOK, env
<1>2. LocalType'
  BY <1>0 DEF sleep_finish_signal_stop, LocalType, env
<1>3. TInv(t)'
  BY <1>0
     DEF sleep_finish_signal_stop, mi_switch, TypeOK, LocalType, TInv, Locks, Stat, Wchan,
         Call
<1>4. ASSUME NEW u \in Threads \ {t} PROVE Same(u)
  BY Others DEF Does, Thread
<1>5. Outside'
  BY <1>0, KernSynchAssumption DEF sleep_finish_signal_stop, mi_switch, Outside, env
<1>6. OnQueue'
  BY DEF sleep_finish_signal_stop, IInv, OnQueue
<1> QED BY <1>1, <1>2, <1>3, <1>4, <1>5, <1>6, Frame DEF IInv

LEMMA Step_return ==
  ASSUME IInv, NEW t \in Threads, return(t)
  PROVE  IInv'
<1> USE DEF Held, Queued, Away, Places
<1>0. TypeOK /\ LocalType /\ TInv(t) /\ Outside
  BY DEF IInv
<1> DEFINE again == error[t] = "0" /\ ~call[t].norelock
<1>1. TypeOK'
  <2>1. CASE again
    BY <1>0, <2>1 DEF return, TypeOK, proc, env
  <2>2. CASE ~again
    BY <1>0, <2>2 DEF return, leave, TypeOK, NoCall, proc, env
  <2> QED BY <2>1, <2>2
<1>2. LocalType'
  <2>1. CASE again
    BY <1>0, <2>1 DEF return, LocalType, env
  <2>2. CASE ~again
    <3>1. leave(t) /\ kick' = kick
      BY <2>2 DEF return, env
    <3> QED BY <1>0, <3>1 DEF leave, LocalType, NoState
  <2> QED BY <2>1, <2>2
<1>3. TInv(t)'
  BY <1>0, <1>1, KernSynchAssumption
     DEF return, leave, TypeOK, LocalType, NoCall, NoState, TInv, Locks, Stat, Wchan, Call,
         proc
<1>4. ASSUME NEW u \in Threads \ {t} PROVE Same(u)
  BY Others DEF Does, Locking
<1>5. Outside'
  BY <1>0, KernSynchAssumption DEF return, leave, Outside, env
<1>6. OnQueue'
  BY DEF return, IInv, OnQueue, proc
<1> QED BY <1>1, <1>2, <1>3, <1>4, <1>5, <1>6, Frame DEF IInv

LEMMA Step_userret ==
  ASSUME IInv, NEW t \in Threads, userret(t)
  PROVE  IInv'
<1> USE DEF Held, Queued, Away, Places
<1>0. TypeOK /\ LocalType /\ TInv(t) /\ Outside
  BY DEF IInv
<1>1. TypeOK'
  BY <1>0 DEF userret, TypeOK, local, env, locks
<1>2. LocalType'
  BY <1>0 DEF userret, LocalType, local, env
<1>3. TInv(t)'
  BY <1>0 DEF userret, TInv, Locks, Stat, Wchan, Call, local, locks
<1>4. ASSUME NEW u \in Threads \ {t} PROVE Same(u)
  BY Others DEF Does
<1>5. Outside'
  BY <1>0 DEF userret, Outside, env, locks
<1>6. OnQueue'
  BY DEF userret, IInv, OnQueue
<1> QED BY <1>1, <1>2, <1>3, <1>4, <1>5, <1>6, Frame DEF IInv

LEMMA Step_enter ==
  ASSUME IInv, NEW t \in Threads, NEW c \in Calls, enter(t, c)
  PROVE  IInv'
<1> USE DEF Held, Queued, Away, Places
<1>0. TypeOK /\ LocalType /\ TInv(t) /\ Outside
  BY DEF IInv
<1>1. TypeOK'
  BY <1>0 DEF enter, TypeOK, proc, env
<1>2. LocalType'
  BY <1>0 DEF enter, LocalType, env
<1>3. TInv(t)'
  BY <1>0 DEF enter, TypeOK, LocalType, NoCall, TInv, Locks, Stat, Wchan, Call, proc
<1>4. ASSUME NEW u \in Threads \ {t} PROVE Same(u)
  BY Others DEF Does
<1>5. Outside'
  BY <1>0, KernSynchAssumption DEF enter, Outside, env
<1>6. OnQueue'
  BY DEF enter, IInv, OnQueue, proc
<1> QED BY <1>1, <1>2, <1>3, <1>4, <1>5, <1>6, Frame DEF IInv

LEMMA Step_happen ==
  ASSUME IInv, NEW w \in Wakers, NEW i \in Idents, happen(w, i)
  PROVE  IInv'
<1>0. TypeOK /\ LocalType /\ Outside
  BY DEF IInv
<1>1. TypeOK'
  BY <1>0 DEF happen, TypeOK, proc, local, locks
<1>2. LocalType'
  BY <1>0 DEF happen, LocalType, local
<1>3. ASSUME NEW u \in Threads PROVE Same(u)
  BY DEF happen, Same, proc, local, locks, ghost
<1>4. Outside' /\ OnQueue'
  BY DEF happen, IInv, Outside, OnQueue, locks, proc
<1> QED BY <1>1, <1>2, <1>3, <1>4, Frame DEF IInv

\* A thread that has switched away is taken off its queue, and made runnable
\* if it sleeps.
Off(u) ==
  /\ at'[u] = at[u] /\ call'[u] = call[u] /\ sls'[u] = sls[u]
  /\ p_wchan'[u] = NONE
  /\ p_stat'[u] = IF p_stat[u] = "SSLEEP" THEN "SRUN" ELSE p_stat[u]
  /\ u \in p_sintr' <=> u \in p_sintr
  /\ kernel_lock' = u <=> kernel_lock = u
  /\ sched_lock' = u <=> sched_lock = u

LEMMA FrameOff ==
  ASSUME NEW u \in Threads, TInv(u), sched_lock = NONE, Off(u)
  PROVE  TInv(u)'
  BY KernSynchAssumption DEF TInv, Locks, Stat, Wchan, Call, Off, Held

\* wakeup_n() concerns those on the queue of its ident.
LEMMA Wakeups ==
  ASSUME IInv, NEW w \in Wakers, wakeup(w), NEW u \in Threads
  PROVE  Same(u) \/ (Woken(u) /\ p_wchan[u] = waker[w])
<1>1. PICK n : wakeup_n(w, n)
  BY DEF wakeup
<1> DEFINE ts == first(waker[w], n)
<1>2. /\ unsleep(ts) /\ setrunnable(ts) /\ woken' = woken \cup ts /\ waker[w] # NONE
  BY <1>1 DEF wakeup_n
<1>3. u \in ts => p_wchan[u] = waker[w]
  BY DEF first, sleepers
<1> HIDE DEF ts
<1>4. CASE u \in ts
  BY <1>1, <1>2, <1>3, <1>4 DEF Woken, wakeup_n, unsleep, setrunnable, local
<1>5. CASE u \notin ts
  BY <1>1, <1>2, <1>5 DEF Same, wakeup_n, unsleep, setrunnable, local, locks
<1> QED BY <1>4, <1>5

LEMMA Step_wakeup ==
  ASSUME IInv, NEW w \in Wakers, wakeup(w)
  PROVE  IInv'
<1>1. PICK n : wakeup_n(w, n)
  BY DEF wakeup
<1>2. PICK ts : unsleep(ts) /\ setrunnable(ts)
  BY <1>1 DEF wakeup_n
<1>3. TypeOK /\ LocalType /\ Outside
  BY DEF IInv
<1>4. TypeOK'
  <2>1. slpque' \in [Queues -> Seq(Threads)]
    BY <1>2, UnsleepAgrees
  <2>2. /\ p_wchan' \in [Threads -> Idents \cup {NONE}]
        /\ p_stat' \in [Threads -> {"SONPROC", "SRUN", "SSLEEP", "SSTOP"}]
    BY <1>2, <1>3 DEF unsleep, setrunnable, TypeOK
  <2>3. waker' \in [Wakers -> Idents \cup {NONE}]
    BY <1>1, <1>3 DEF wakeup_n, TypeOK
  <2> QED BY <1>1, <1>3, <2>1, <2>2 DEF wakeup_n, TypeOK, local, locks
<1>5. LocalType'
  BY <1>1, <1>3 DEF wakeup_n, LocalType, local
<1>6. ASSUME NEW u \in Threads PROVE TInv(u)'
  <2>1. CASE Same(u)
    BY <2>1, Frame DEF IInv
  <2>2. CASE Woken(u)
    BY <2>2, FrameOff DEF IInv, Woken, Off, locks
  <2> QED BY <2>1, <2>2, Wakeups
<1>7. Outside'
  BY <1>1, <1>3 DEF wakeup_n, Outside, locks
<1>8. OnQueue'
  BY <1>2, UnsleepAgrees
<1> QED BY <1>4, <1>5, <1>6, <1>7, <1>8 DEF IInv

LEMMA Step_softclock ==
  ASSUME IInv, NEW t \in Threads, softclock(t)
  PROVE  IInv'
<1>0. TypeOK /\ LocalType /\ Outside
  BY DEF IInv
<1>1. TypeOK'
  BY <1>0 DEF softclock, TypeOK, local
<1>2. LocalType'
  BY <1>0 DEF softclock, LocalType, local
<1>3. ASSUME NEW u \in Threads \ {t} PROVE TInv(u)'
  BY Others, Frame DEF Does, IInv
<1>4. TInv(t)'
  BY KernSynchAssumption DEF softclock, local, IInv, TInv, Locks, Stat, Wchan, Call, ident
<1>5. Outside' /\ OnQueue'
  BY KernSynchAssumption DEF softclock, IInv, Outside, OnQueue
<1> QED BY <1>1, <1>2, <1>3, <1>4, <1>5 DEF IInv

LEMMA Step_endtsleep ==
  ASSUME IInv, endtsleep
  PROVE  IInv'
<1>1. TypeOK /\ LocalType /\ Outside
  BY DEF IInv
<1>2. PICK t \in Threads : t = clock
  BY <1>1 DEF endtsleep, TypeOK
<1>10. kernel_lock = Softclock /\ sched_lock = NONE /\ kick = NONE
  BY <1>1, KernSynchAssumption DEF endtsleep, Outside
<1>3. \/ unsleep({t}) /\ setrunnable({t}) /\ p_timeout' = p_timeout \cup {t}
      \/ UNCHANGED <<slpque, p_wchan, p_stat, p_timeout>>
  BY <1>2 DEF endtsleep
<1>4. TypeOK'
  <2>1. slpque' \in [Queues -> Seq(Threads)]
    BY <1>1, <1>3, UnsleepAgrees DEF TypeOK
  <2>2. /\ p_wchan' \in [Threads -> Idents \cup {NONE}]
        /\ p_stat' \in [Threads -> {"SONPROC", "SRUN", "SSLEEP", "SSTOP"}]
        /\ p_timeout' \subseteq Threads
    BY <1>1, <1>3 DEF unsleep, setrunnable, TypeOK
  <2> QED BY <1>1, <2>1, <2>2 DEF endtsleep, TypeOK, local
<1>5. LocalType'
  BY <1>1 DEF endtsleep, LocalType, local
<1>6. ASSUME NEW u \in Threads \ {t} PROVE TInv(u)'
  BY <1>2, Others, Frame DEF Does, IInv
<1>7. TInv(t)'
  <2>1. /\ UNCHANGED <<at, call, sls, p_sintr, sched_lock>>
        /\ kernel_lock' # t /\ kernel_lock # t
    BY <1>10, KernSynchAssumption DEF endtsleep, local
  <2>2. TInv(t)
    BY DEF IInv
  <2>3. CASE unsleep({t}) /\ setrunnable({t})
    <3>1. Off(t)
      BY <2>1, <2>3 DEF Off, unsleep, setrunnable
    <3> QED BY <1>10, <2>2, <3>1, FrameOff
  <2>4. CASE UNCHANGED <<p_wchan, p_stat>>
    BY <2>1, <2>2, <2>4 DEF TInv, Locks, Stat, Wchan, Call, ident
  <2> QED BY <1>3, <2>3, <2>4
<1>8. Outside'
  BY <1>10 DEF endtsleep, Outside
<1>9. OnQueue'
  BY <1>3, UnsleepAgrees DEF IInv, OnQueue
<1> QED BY <1>4, <1>5, <1>6, <1>7, <1>8, <1>9 DEF IInv

LEMMA Step_ptsignal_post ==
  ASSUME IInv, NEW t \in Threads, NEW s \in Sent, ptsignal_post(t, s)
  PROVE  IInv'
<1>0. TypeOK /\ LocalType /\ Outside /\ s \in {"intr", "stop", "cont"}
  BY KernSynchAssumption DEF IInv, Sent
<1>1. TypeOK'
  BY <1>0 DEF ptsignal_post, TypeOK, local
<1>2. LocalType'
  BY <1>0 DEF ptsignal_post, LocalType, local
<1>3. ASSUME NEW u \in Threads \ {t} PROVE TInv(u)'
  BY Others, Frame DEF Does, IInv
<1>4. TInv(t)'
  BY KernSynchAssumption
     DEF ptsignal_post, local, IInv, TInv, Locks, Stat, Wchan, Call, ident
<1>5. Outside' /\ OnQueue'
  BY KernSynchAssumption DEF ptsignal_post, IInv, Outside, OnQueue
<1> QED BY <1>1, <1>2, <1>3, <1>4, <1>5 DEF IInv

LEMMA Step_ptsignal_intr ==
  ASSUME IInv, NEW t \in Threads, ptsignal_intr(t)
  PROVE  IInv'
<1>1. acted(t, "intr")
  BY DEF ptsignal_intr
<1>2. \/ unsleep({t}) /\ setrunnable({t})
      \/ UNCHANGED <<slpque, p_wchan, p_stat>>
  BY DEF ptsignal_intr
<1>3. TypeOK'
  <2>1. slpque' \in [Queues -> Seq(Threads)]
    BY <1>2, UnsleepAgrees DEF IInv, TypeOK
  <2>2. /\ p_wchan' \in [Threads -> Idents \cup {NONE}]
        /\ p_stat' \in [Threads -> {"SONPROC", "SRUN", "SSLEEP", "SSTOP"}]
    BY <1>2 DEF unsleep, setrunnable, IInv, TypeOK
  <2> QED BY <2>1, <2>2 DEF ptsignal_intr, acted, IInv, TypeOK, local
<1>4. ASSUME NEW u \in Threads \ {t} PROVE TInv(u)'
  BY Others, Frame DEF Does, Signal, IInv
<1>5. TInv(t)'
  <2>1. UNCHANGED <<at, call, sls, p_sintr, sched_lock>> /\ kernel_lock # t /\ kernel_lock' # t
    BY <1>1, Acted
  <2>2. TInv(t)
    BY DEF IInv
  <2>3. CASE unsleep({t}) /\ setrunnable({t})
    <3>1. Off(t)
      BY <2>1, <2>3 DEF Off, unsleep, setrunnable
    <3> QED BY <1>1, <2>2, <3>1, Acted, FrameOff
  <2>4. CASE UNCHANGED <<p_wchan, p_stat>>
    BY <2>1, <2>2, <2>4 DEF TInv, Locks, Stat, Wchan, Call, ident
  <2> QED BY <1>2, <2>3, <2>4
<1>6. OnQueue'
  BY <1>2, UnsleepAgrees DEF IInv, OnQueue
<1> QED BY <1>1, <1>3, <1>4, <1>5, <1>6, Acted DEF IInv

LEMMA Step_ptsignal_stat ==
  ASSUME IInv, NEW t \in Threads, ptsignal_stop(t) \/ ptsignal_cont(t)
  PROVE  IInv'
<1>1. PICK s \in {"intr", "stop", "cont"} : acted(t, s)
  BY DEF ptsignal_stop, ptsignal_cont
<1>2. UNCHANGED <<slpque, p_wchan>>
  BY DEF ptsignal_stop, ptsignal_cont
<1>3. /\ p_stat' \in [Threads -> {"SONPROC", "SRUN", "SSLEEP", "SSTOP"}]
      /\ p_siglist' \in [Threads -> SUBSET {"intr", "stop"}]
      /\ \A u \in Threads \ {t} : p_stat'[u] = p_stat[u]
  <2>1. CASE ptsignal_stop(t)
    <3>1. \/ /\ p_stat' = [p_stat EXCEPT ![t] = "SSTOP"]
             /\ p_siglist' = [p_siglist EXCEPT ![t] = @ \ {"stop"}]
          \/ UNCHANGED <<p_stat, p_siglist>>
      BY <2>1 DEF ptsignal_stop
    <3>2. /\ p_stat \in [Threads -> {"SONPROC", "SRUN", "SSLEEP", "SSTOP"}]
          /\ p_siglist \in [Threads -> SUBSET {"intr", "stop"}]
      BY DEF IInv, TypeOK
    <3>3. p_siglist' \in [Threads -> SUBSET {"intr", "stop"}]
      BY <3>1, <3>2
    <3> QED BY <3>1, <3>2, <3>3
  <2>2. CASE ptsignal_cont(t)
    BY <2>2 DEF ptsignal_cont, continued, IInv, TypeOK
  <2> QED BY <2>1, <2>2
<1>4. TypeOK'
  BY <1>1, <1>2, <1>3 DEF acted, IInv, TypeOK, local
<1>5. ASSUME NEW u \in Threads \ {t} PROVE TInv(u)'
  BY Others, Frame DEF Does, Signal, IInv
<1>6. TInv(t)'
  <2>1. \/ p_stat'[t] = p_stat[t]
        \/ p_stat[t] = "SSTOP" /\ p_stat'[t] = IF p_wchan[t] = NONE THEN "SRUN" ELSE "SSLEEP"
        \/ p_stat[t] \in {"SSLEEP", "SSTOP"} /\ p_stat'[t] = "SSTOP"
    BY DEF ptsignal_stop, ptsignal_cont, continued, IInv, TypeOK
  <2>2. TInv(t) /\ p_wchan'[t] = p_wchan[t]
    BY <1>2 DEF IInv
  <2>3. UNCHANGED <<at, call, sls, p_sintr, sched_lock>> /\ kernel_lock # t /\ kernel_lock' # t
    BY <1>1, Acted
  <2> QED BY <2>1, <2>2, <2>3 DEF TInv, Locks, Stat, Wchan, Call, ident
<1>7. OnQueue'
  BY <1>2 DEF IInv, OnQueue
<1> QED BY <1>1, <1>4, <1>5, <1>6, <1>7, Acted DEF IInv

LEMMA Initial == Init => IInv
<1> SUFFICES ASSUME Init PROVE IInv
  OBVIOUS
<1>1. TypeOK
  BY DEF Init, TypeOK
<1>2. LocalType
  BY DEF Init, LocalType, NoState, Places
<1>3. ASSUME NEW t \in Threads PROVE TInv(t)
  BY KernSynchAssumption DEF Init, TInv, Locks, Stat, Wchan, Call, NoCall, NoState, Held
<1>4. Outside
  BY DEF Init, Outside
<1>5. OnQueue
  BY DEF Init, OnQueue, IsInjective, ToSet
<1> QED BY <1>1, <1>2, <1>3, <1>4, <1>5 DEF IInv

\* Every step keeps the invariant.
LEMMA Inductive == IInv /\ [Next]_vars => IInv'
<1> SUFFICES ASSUME IInv, [Next]_vars PROVE IInv'
  OBVIOUS
<1>1. ASSUME NEW t \in Threads, Locking(t) PROVE IInv'
  BY <1>1, Step_mtx_enter, Step_return DEF Locking
<1>2. ASSUME NEW t \in Threads, Thread(t) PROVE IInv'
  BY <1>2, Step_consume, Step_sleep_setup, Step_sleep_setup_nosignal,
     Step_sleep_setup_signal, Step_sleep_setup_signal_intr, Step_sleep_setup_signal_stop,
     Step_sleep_finish, Step_sleep_finish_awake, Step_sleep_finish_unsleep,
     Step_mi_switch_run, Step_mi_switch_resume, Step_sleep_finish_timeout,
     Step_sleep_finish_signal, Step_sleep_finish_signal_stop DEF Thread
<1>3. ASSUME NEW t \in Threads, Signal(t) PROVE IInv'
  BY <1>3, Step_ptsignal_intr, Step_ptsignal_stat DEF Signal
<1>4. CASE UNCHANGED vars
  <2>1. ASSUME NEW u \in Threads PROVE TInv(u)'
    <3>1. Same(u)
      BY <1>4 DEF Same, vars, proc, local, env, locks, ghost
    <3> QED BY <3>1, Frame DEF IInv
  <2>2. TypeOK' /\ LocalType' /\ Outside' /\ OnQueue'
    BY <1>4 DEF IInv, TypeOK, LocalType, Outside, OnQueue, vars, proc, local, env, locks
  <2> QED BY <2>1, <2>2 DEF IInv
<1> QED BY <1>1, <1>2, <1>3, <1>4, Step_userret, Step_enter, Step_ptsignal_post,
           Step_happen, Step_wakeup, Step_softclock, Step_endtsleep DEF Next

\* A step concerns one thread, or is a wakeup, or concerns none.
LEMMA Steps ==
  ASSUME IInv, [Next]_vars
  PROVE  \/ \E t \in Threads : Does(t)
         \/ \A u \in Threads : Same(u) \/ Woken(u)
<1>1. CASE UNCHANGED vars
  BY <1>1 DEF Same, vars, proc, local, env, locks, ghost
<1>2. ASSUME NEW w \in Wakers, NEW i \in Idents, happen(w, i) PROVE \A u \in Threads : Same(u)
  BY <1>2 DEF happen, Same, proc, local, locks, ghost
<1>3. ASSUME NEW w \in Wakers, wakeup(w) PROVE \A u \in Threads : Same(u) \/ Woken(u)
  BY <1>3, Wakeups
<1>4. ASSUME endtsleep PROVE \E t \in Threads : Does(t)
  <2>1. clock \in Threads
    BY <1>4 DEF endtsleep, IInv, TypeOK
  <2> QED BY <1>4, <2>1 DEF Does
<1> QED BY <1>1, <1>2, <1>3, <1>4 DEF Next, Does

\* What the places of sleep_setup(), mi_switch() and sleep_finish() say of the
\* queue, the state and the locks of a thread holds throughout.
THEOREM Invariance == Spec => []IInv
  BY Initial, Inductive, PTL DEF Spec

\* The queues, wait channels, states and locks of kern_synch.c keep their types.
THEOREM TypeCorrect == Spec => []TypeOK
<1>1. IInv => TypeOK
  BY DEF IInv
<1> QED BY <1>1, Invariance, PTL

\* A thread is on the queue of its p_wchan, once, and on no other: sleep_setup(),
\* unsleep() and wakeup_n() never leave TAILQ and p_wchan apart.
THEOREM QueuesCorrect == Spec => []QueuesAgree
<1>1. IInv => QueuesAgree
  BY Agree DEF IInv
<1> QED BY <1>1, Invariance, PTL

\* The panics and assertions of wakeup_n(), mi_switch() and unsleep() are never
\* met, whichever of wakeup, timeout and signal comes first.
THEOREM PanicFree == Spec => []NoPanic
<1>1. IInv => NoPanic
  <2> SUFFICES ASSUME IInv, NEW t \in Threads
               PROVE  /\ sched_lock = NONE /\ p_wchan[t] # NONE => p_stat[t] \in {"SSLEEP", "SSTOP"}
                      /\ at[t] \notin Away => p_stat[t] = "SONPROC"
                      /\ p_stat[t] = "SSLEEP" => p_wchan[t] # NONE
    BY DEF NoPanic
  <2> QED BY KernSynchAssumption DEF IInv, TInv, Locks, Stat, Wchan, Queued, Away
<1> QED BY <1>1, Invariance, PTL

-----------------------------------------------------------------------------

\* Every timed sleep holds the kernel lock; msleep() does not ask for it, and
\* without it endtsleep() may run before the thread has gone to sleep.
Timed == \A c \in Calls : c.timo => c.giant

\* Where the timeout of a thread may be pending, running or have run.
Timer(t) ==
  /\ t \in p_sleep_to => call[t].timo /\ at[t] \in Queued \cup {"finish_timeout"}
  /\ t \in p_timeout =>
       /\ call[t].timo /\ t \in expired /\ t \notin p_sleep_to /\ p_wchan[t] = NONE
       /\ at[t] \in Queued \cup {"finish_timeout"}
  /\ clock = t =>
       /\ call[t].timo /\ t \in expired /\ t \notin p_sleep_to
       /\ at[t] \in {"asleep", "stopped"} /\ p_stat[t] # "SONPROC"

\* Why a thread is no longer on its queue.
Pending(t) == "intr" \in p_siglist[t]

Reason(t) ==
  /\ at[t] \in {"finish", "asleep"} /\ call[t].catch /\ sls[t].do_sleep => sls[t].catch
  /\ at[t] = "asleep" => sls[t].do_sleep
  /\ kick = <<t, "intr">> => Pending(t)
  /\ at[t] \in {"setup_signal", "stopped"} /\ p_wchan[t] = NONE =>
       t \in woken \/ t \in p_timeout \/ Pending(t)
  /\ at[t] \in {"finish", "asleep", "finish_timeout"} /\ p_wchan[t] = NONE =>
       t \in woken \/ t \in p_timeout \/ (Pending(t) /\ sls[t].catch)
  /\ at[t] \in {"finish_signal", "stopped_late"} =>
       /\ error[t] = "0" => t \in woken \/ (Pending(t) /\ sls[t].catch)
       /\ error[t] = "EWOULDBLOCK" => call[t].timo /\ t \in expired
  /\ at[t] = "return" =>
       /\ error[t] = "0" => t \in woken
       /\ error[t] = "EWOULDBLOCK" => call[t].timo /\ t \in expired

TimedInv == \A t \in Threads : Timer(t) /\ Reason(t)

\* Nor does it change why a thread left its queue; a wakeup is a reason.
LEMMA TimedFrame ==
  ASSUME NEW u \in Threads, Timer(u), Reason(u), Same(u) \/ Woken(u), TInv(u)
  PROVE  Timer(u)' /\ Reason(u)'
<1>1. CASE Same(u)
  BY <1>1 DEF Timer, Reason, Pending, Same
<1>2. CASE Woken(u)
  BY <1>2 DEF Timer, Reason, Pending, Woken
<1> QED BY <1>1, <1>2

\* What a thread does leaves its timeout where Timer says.
LEMMA TimerDoes ==
  ASSUME Timed, IInv, IInv', NEW t \in Threads, Timer(t), Does(t)
  PROVE  Timer(t)'
<1> USE KernSynchAssumption DEF Timer, ident, By, proc, local, env, locks, ghost
<1>1. TypeOK /\ LocalType /\ Outside /\ TInv(t) /\ TypeOK' /\ LocalType' /\ TInv(t)'
  BY DEF IInv
<1>2. call[t].timo => call[t].giant
  BY <1>1, Fields DEF Timed, TypeOK
<1>3. CASE mtx_enter(t)
  BY <1>3 DEF mtx_enter, Held, Queued
<1>4. CASE return(t)
  BY <1>4 DEF return, Held, Queued
<1>5. CASE consume(t)
  BY <1>5 DEF consume, Held, Queued
<1>6. CASE sleep_setup(t)
  BY <1>1, <1>6 DEF sleep_setup, sleep_setup_timeout, TInv, Locks, Queued
<1>7. CASE sleep_setup_nosignal(t)
  BY <1>7 DEF sleep_setup_nosignal, Held, Queued
<1>8. CASE sleep_setup_signal(t)
  BY <1>8 DEF sleep_setup_signal, Held, Queued
<1>9. CASE sleep_setup_signal_intr(t)
  BY <1>9 DEF sleep_setup_signal_intr, unsleep, Held, Queued
<1>10. CASE sleep_setup_signal_stop(t)
  BY <1>10 DEF sleep_setup_signal_stop, Queued
<1>11. CASE sleep_finish(t)
  BY <1>11 DEF sleep_finish, Queued
<1>12. CASE sleep_finish_awake(t)
  BY <1>12 DEF sleep_finish_awake
<1>13. CASE sleep_finish_unsleep(t)
  BY <1>1, <1>13, Fields DEF sleep_finish_unsleep, do_sleep, TypeOK
<1>14. CASE mi_switch_run(t)
  BY <1>1, <1>2, <1>14 DEF mi_switch_run, Outside
<1>15. CASE mi_switch_resume(t)
  BY <1>1, <1>15, Fields DEF mi_switch_resume, TypeOK, Held, Queued, Away
<1>16. CASE sleep_finish_timeout(t)
  BY <1>16 DEF sleep_finish_timeout, timeout_del
<1>17. CASE sleep_finish_signal(t)
  BY <1>17 DEF sleep_finish_signal, Held, Queued
<1>18. CASE sleep_finish_signal_stop(t)
  BY <1>18 DEF sleep_finish_signal_stop, Held, Queued
<1>19. CASE ptsignal_intr(t)
  BY <1>19 DEF ptsignal_intr, acted, unsleep, setrunnable
<1>20. CASE ptsignal_stop(t)
  BY <1>1, <1>2, <1>20 DEF ptsignal_stop, acted, TInv, Locks
<1>21. CASE ptsignal_cont(t)
  BY <1>1, <1>21 DEF ptsignal_cont, acted, Outside
<1>22. CASE userret(t)
  BY <1>22 DEF userret
<1>23. CASE softclock(t)
  BY <1>1, <1>2, <1>23 DEF softclock, TInv, Locks, Held, Queued, Away
<1>24. ASSUME NEW c \in Calls, enter(t, c) PROVE Timer(t)'
  BY <1>24 DEF enter, Held, Queued
<1>25. ASSUME NEW s \in Sent, ptsignal_post(t, s) PROVE Timer(t)'
  BY <1>25 DEF ptsignal_post
<1>26. CASE clock = t /\ endtsleep
  BY <1>26 DEF endtsleep, unsleep, Queued
<1> QED BY <1>3, <1>4, <1>5, <1>6, <1>7, <1>8, <1>9, <1>10, <1>11, <1>12, <1>13, <1>14,
           <1>15, <1>16, <1>17, <1>18, <1>19, <1>20, <1>21, <1>22, <1>23, <1>24, <1>25,
           <1>26 DEF Does, Locking, Thread, Signal

\* It leaves its queue for a reason that sleep_finish() then reports.
LEMMA ReasonDoes ==
  ASSUME Timed, IInv, IInv', NEW t \in Threads, Timer(t), Reason(t), Does(t)
  PROVE  Reason(t)'
<1> USE KernSynchAssumption DEF Reason, Pending, Timer, ident, By, proc, local, env, locks, ghost
<1>1. TypeOK /\ LocalType /\ Outside /\ TInv(t) /\ TypeOK' /\ LocalType' /\ TInv(t)'
  BY DEF IInv
<1>2. call[t].timo => call[t].giant
  BY <1>1, Fields DEF Timed, TypeOK
<1>3. CASE mtx_enter(t)
  BY <1>3 DEF mtx_enter
<1>4. CASE return(t)
  BY <1>1, <1>4 DEF return, leave, LocalType
<1>5. CASE consume(t)
  BY <1>5 DEF consume, leave
<1>6. CASE sleep_setup(t)
  BY <1>1, <1>6 DEF sleep_setup, wchan, TypeOK, TInv, Call
<1>7. CASE sleep_setup_nosignal(t)
  BY <1>1, <1>7 DEF sleep_setup_nosignal, TInv, Wchan
<1>8. CASE sleep_setup_signal(t)
  BY <1>1, <1>8 DEF sleep_setup_signal, LocalType, TInv, Wchan
<1>9. CASE sleep_setup_signal_intr(t)
  BY <1>1, <1>9 DEF sleep_setup_signal_intr, ffs, LocalType
<1>10. CASE sleep_setup_signal_stop(t)
  BY <1>10 DEF sleep_setup_signal_stop
<1>11. CASE sleep_finish(t)
  BY <1>11 DEF sleep_finish
<1>12. CASE sleep_finish_awake(t)
  BY <1>12 DEF sleep_finish_awake
<1>13. CASE sleep_finish_unsleep(t)
  BY <1>1, <1>13 DEF sleep_finish_unsleep, leave, LocalType
<1>14. CASE mi_switch_run(t)
  BY <1>14 DEF mi_switch_run
<1>15. CASE mi_switch_resume(t)
  BY <1>15 DEF mi_switch_resume, Away
<1>16. CASE sleep_finish_timeout(t)
  BY <1>1, <1>16 DEF sleep_finish_timeout, TypeOK, LocalType, TInv, Wchan, Held, Queued
<1>17. CASE sleep_finish_signal(t)
  BY <1>1, <1>17 DEF sleep_finish_signal, TypeOK
<1>18. CASE sleep_finish_signal_stop(t)
  BY <1>18 DEF sleep_finish_signal_stop
<1>19. CASE ptsignal_intr(t)
  BY <1>1, <1>19 DEF ptsignal_intr, acted, interrupted, TInv, Wchan, Call, Held, Queued
<1>20. CASE ptsignal_stop(t)
  BY <1>1, <1>20 DEF ptsignal_stop, acted, TypeOK
<1>21. CASE ptsignal_cont(t)
  BY <1>21 DEF ptsignal_cont, acted
<1>22. CASE userret(t)
  BY <1>1, <1>22 DEF userret, Outside
<1>23. CASE softclock(t)
  BY <1>23 DEF softclock
<1>24. ASSUME NEW c \in Calls, enter(t, c) PROVE Reason(t)'
  BY <1>24 DEF enter
<1>25. ASSUME NEW s \in Sent, ptsignal_post(t, s) PROVE Reason(t)'
  BY <1>1, <1>25 DEF ptsignal_post, TypeOK
<1>26. CASE clock = t /\ endtsleep
  BY <1>26 DEF endtsleep
<1> QED BY <1>3, <1>4, <1>5, <1>6, <1>7, <1>8, <1>9, <1>10, <1>11, <1>12, <1>13, <1>14,
           <1>15, <1>16, <1>17, <1>18, <1>19, <1>20, <1>21, <1>22, <1>23, <1>24, <1>25,
           <1>26 DEF Does, Locking, Thread, Signal

LEMMA TimedStep ==
  ASSUME Timed, IInv, TimedInv, [Next]_vars
  PROVE  TimedInv'
<1>1. IInv'
  BY Inductive
<1>2. ASSUME NEW t \in Threads, Does(t) PROVE TimedInv'
  <2>1. Timer(t)' /\ Reason(t)'
    BY <1>1, <1>2, TimerDoes, ReasonDoes DEF TimedInv
  <2>2. ASSUME NEW u \in Threads \ {t} PROVE Timer(u)' /\ Reason(u)'
    BY <1>2, Others, TimedFrame DEF IInv, TimedInv
  <2> QED BY <2>1, <2>2 DEF TimedInv
<1>3. ASSUME NEW u \in Threads, Same(u) \/ Woken(u) PROVE Timer(u)' /\ Reason(u)'
  BY <1>3, TimedFrame DEF IInv, TimedInv
<1> QED BY <1>2, <1>3, Steps DEF TimedInv

\* tsleep() returns 0 only to a thread that was woken and EWOULDBLOCK only to
\* one whose timeout ran, when timed sleeps hold the kernel lock: softclock
\* cannot then run between timeout_add() and timeout_del() of a running thread.
THEOREM TruthTold == Timed /\ Spec => []ReturnsTruth
<1> SUFFICES ASSUME Timed PROVE Spec => []ReturnsTruth
  OBVIOUS
<1>1. Init => TimedInv
  BY KernSynchAssumption DEF Init, TimedInv, Timer, Reason
<1>2. IInv /\ TimedInv /\ [Next]_vars => TimedInv'
  BY TimedStep
<1>3. TimedInv => ReturnsTruth
  BY DEF TimedInv, Reason, ReturnsTruth
<1> QED BY <1>1, <1>2, <1>3, Invariance, PTL DEF Spec

\* Signals that a thread asleep, or about to be, has not seen.
Sleeping(t) ==
  \/ at[t] = "finish" /\ sls[t].do_sleep
  \/ at[t] \in Away /\ p_wchan[t] # NONE

Unseen(t) ==
  /\ t \in p_sintr /\ Pending(t) /\ Sleeping(t) => kick = <<t, "intr">>
  /\ t \in p_sintr /\ "stop" \in p_siglist[t] /\ Sleeping(t) => kick = <<t, "stop">>
  /\ p_stat[t] = "SSTOP" /\ "stop" \in p_siglist[t] => kick = <<t, "stop">>
  /\ kick = <<t, "cont">> => "stop" \notin p_siglist[t]

SignalInv == \A t \in Threads : Unseen(t)

LEMMA UnseenFrame ==
  ASSUME NEW u \in Threads, Unseen(u), Same(u) \/ Woken(u), TInv(u)
  PROVE  Unseen(u)'
<1>1. CASE Same(u)
  BY <1>1 DEF Unseen, Pending, Sleeping, Same
<1>2. CASE Woken(u)
  BY <1>2 DEF Unseen, Pending, Sleeping, Woken
<1> QED BY <1>1, <1>2

\* A thread looks for signals after it has set P_SINTR and before it sleeps.
LEMMA UnseenDoes ==
  ASSUME First = "intr", IInv, IInv', NEW t \in Threads, Unseen(t), Does(t)
  PROVE  Unseen(t)'
<1> USE KernSynchAssumption DEF Unseen, Pending, Sleeping, ident, By, proc, local, env, locks, ghost
<1>1. TypeOK /\ LocalType /\ Outside /\ TInv(t) /\ TypeOK' /\ LocalType' /\ TInv(t)'
  BY DEF IInv
<1>3. CASE mtx_enter(t)
  BY <1>3 DEF mtx_enter, Away
<1>4. CASE return(t)
  BY <1>1, <1>4 DEF return, leave, LocalType, TInv, Stat
<1>5. CASE consume(t)
  BY <1>5 DEF consume, leave, Away
<1>6. CASE sleep_setup(t)
  BY <1>6 DEF sleep_setup, Away
<1>7. CASE sleep_setup_nosignal(t)
  BY <1>1, <1>7 DEF sleep_setup_nosignal, TInv, Call
<1>8. CASE sleep_setup_signal(t)
  BY <1>8 DEF sleep_setup_signal
<1>9. CASE sleep_setup_signal_intr(t)
  BY <1>1, <1>9 DEF sleep_setup_signal_intr, unsleep, LocalType
<1>10. CASE sleep_setup_signal_stop(t)
  BY <1>1, <1>10 DEF sleep_setup_signal_stop, ffs, TypeOK
<1>11. CASE sleep_finish(t)
  BY <1>11 DEF sleep_finish
<1>12. CASE sleep_finish_awake(t)
  BY <1>12 DEF sleep_finish_awake
<1>13. CASE sleep_finish_unsleep(t)
  BY <1>13 DEF sleep_finish_unsleep, leave, unsleep, NoState
<1>14. CASE mi_switch_run(t)
  BY <1>14 DEF mi_switch_run
<1>15. CASE mi_switch_resume(t)
  BY <1>15 DEF mi_switch_resume, Away
<1>16. CASE sleep_finish_timeout(t)
  BY <1>16 DEF sleep_finish_timeout, Away
<1>17. CASE sleep_finish_signal(t)
  BY <1>17 DEF sleep_finish_signal, Away
<1>18. CASE sleep_finish_signal_stop(t)
  BY <1>1, <1>18 DEF sleep_finish_signal_stop, ffs, TypeOK
<1>19. CASE ptsignal_intr(t)
  BY <1>1, <1>19 DEF ptsignal_intr, acted, unsleep, interrupted, TInv, Locks, Stat, Held
<1>20. CASE ptsignal_stop(t)
  BY <1>1, <1>20 DEF ptsignal_stop, acted, TypeOK, TInv, Locks, Stat, Held
<1>21. CASE ptsignal_cont(t)
  BY <1>21 DEF ptsignal_cont, acted
<1>22. CASE userret(t)
  BY <1>22 DEF userret
<1>23. CASE softclock(t)
  BY <1>23 DEF softclock
<1>24. ASSUME NEW c \in Calls, enter(t, c) PROVE Unseen(t)'
  BY <1>24 DEF enter, Away
<1>25. ASSUME NEW s \in Sent, ptsignal_post(t, s) PROVE Unseen(t)'
  BY <1>1, <1>25 DEF ptsignal_post, TypeOK, Outside
<1>26. CASE clock = t /\ endtsleep
  BY <1>26 DEF endtsleep, setrunnable
<1> QED BY <1>3, <1>4, <1>5, <1>6, <1>7, <1>8, <1>9, <1>10, <1>11, <1>12, <1>13, <1>14,
           <1>15, <1>16, <1>17, <1>18, <1>19, <1>20, <1>21, <1>22, <1>23, <1>24, <1>25,
           <1>26 DEF Does, Locking, Thread, Signal

LEMMA SignalStep ==
  ASSUME First = "intr", IInv, SignalInv, [Next]_vars
  PROVE  SignalInv'
<1>1. IInv'
  BY Inductive
<1>2. ASSUME NEW t \in Threads, Does(t) PROVE SignalInv'
  <2>1. Unseen(t)'
    BY <1>1, <1>2, UnseenDoes DEF SignalInv
  <2>2. ASSUME NEW u \in Threads \ {t} PROVE Unseen(u)'
    BY <1>2, Others, UnseenFrame DEF IInv, SignalInv
  <2> QED BY <2>1, <2>2 DEF SignalInv
<1>3. ASSUME NEW u \in Threads, Same(u) \/ Woken(u) PROVE Unseen(u)'
  BY <1>3, UnseenFrame DEF IInv, SignalInv
<1> QED BY <1>2, <1>3, Steps DEF SignalInv

\* No interruptible sleep goes on with a signal that ptsignal() has finished
\* sending, as long as CURSIG() finds the interrupting signal first.
THEOREM SignalsSeen == First = "intr" /\ Spec => []NoSignalSlept
<1> SUFFICES ASSUME First = "intr" PROVE Spec => []NoSignalSlept
  OBVIOUS
<1>1. Init => SignalInv
  BY DEF Init, SignalInv, Unseen, Pending
<1>2. IInv /\ SignalInv /\ [Next]_vars => SignalInv'
  BY SignalStep
<1>3. IInv /\ SignalInv => NoSignalSlept
  BY DEF IInv, TypeOK, SignalInv, Unseen, Pending, Sleeping, NoSignalSlept, TInv, Stat
<1> QED BY <1>1, <1>2, <1>3, Invariance, PTL DEF Spec

\* Where wakeup_one() is used the sleep ends by a wakeup, and the thread looks
\* at its event again.
OnePlain == \A c \in Calls : c.ident \in WakeOne => ~c.catch /\ ~c.timo /\ ~c.norelock

\* The lock of an event covers the time from looking at it to mi_switch().
Looked(t) ==
  /\ at[t] \in {"check", "setup_signal", "finish", "stopped"} /\ By(t, "mutex") => mutex = t
  /\ at[t] \in Held /\ p_wchan[t] # NONE /\ ~By(t, "none") => ~happened[ident(t)]
  /\ error[t] # "0" => at[t] \in {"finish_signal", "stopped_late", "return"}
                       /\ ident(t) \notin WakeOne

WakeInv == (\A t \in Threads : Looked(t)) /\ NoLostWakeup

\* wakeup_one() wakes someone if there is one, wakeup() all.
LEMMA FirstWakes ==
  ASSUME IInv, NEW i \in Idents, NEW t \in Threads, p_wchan[t] = i
  PROVE  /\ t \in first(i, -1)
         /\ \E u \in Threads : u \in first(i, 1)
<1> DEFINE q == slpque[LOOKUP[i]]
           I == sleepers(i)
<1>1. q \in Seq(Threads)
  BY DEF IInv, TypeOK, Queues
<1>2. Len(q) \in Nat /\ DOMAIN q = 1..Len(q) /\ \A k \in DOMAIN q : q[k] \in Threads
  BY <1>1
<1>3. I \in SUBSET (1..Len(q))
  BY <1>2 DEF sleepers
<1>4. PICK k \in DOMAIN q : q[k] = t
  <2>1. LOOKUP[i] \in Queues /\ i # NONE
    BY KernSynchAssumption DEF Queues
  <2> QED BY <2>1 DEF IInv, OnQueue, ToSet
<1>5. k \in I
  BY <1>4 DEF sleepers
<1>6. t \in first(i, -1)
  BY <1>4, <1>5 DEF first
<1>7. PICK m \in I : Cardinality({j \in I : j <= m}) = 1
  <2> HIDE DEF I
  <2>1. /\ IsFiniteSet(I) /\ Cardinality(I) \in Nat
        /\ \A e \in 1..Cardinality(I) : \E m \in I : Cardinality({j \in I : j <= m}) = e
    BY <1>2, <1>3, Ranks
  <2>2. Cardinality(I) # 0
    BY <1>5, <2>1, FS_EmptySet
  <2>3. 1 \in 1..Cardinality(I)
    BY <2>1, <2>2
  <2> QED BY <2>1, <2>3
<1>8. earlier(i, m) = 0
  <2> HIDE DEF I
  <2> DEFINE L == {j \in I : j < m}
  <2>1. IsFiniteSet(I)
    BY <1>2, <1>3, Ranks
  <2>2. L \in SUBSET I /\ m \notin L
    BY <1>3
  <2>3. {j \in I : j <= m} = L \cup {m}
    <3>1. \A j \in I : j <= m <=> j < m \/ j = m
      BY <1>3
    <3> QED BY <1>7, <3>1
  <2>4. IsFiniteSet(L)
    BY <2>1, <2>2, FS_Subset
  <2> HIDE DEF L
  <2>5. Cardinality(L \cup {m}) = Cardinality(L) + 1
    BY <2>2, <2>4, FS_AddElement
  <2>6. Cardinality(L) \in Nat
    BY <2>4, FS_CardinalityType
  <2>7. Cardinality(L) = 0
    BY <1>7, <2>3, <2>5, <2>6
  <2> QED BY <2>7 DEF L, I, earlier
<1>9. q[m] \in first(i, 1)
  BY <1>8 DEF first
<1>10. q[m] \in Threads
  BY <1>2, <1>3
<1> QED BY <1>6, <1>9, <1>10

LEMMA LookedFrame ==
  ASSUME NEW u \in Threads, Looked(u), Same(u) \/ Woken(u), TInv(u),
         \A i \in Idents : happened'[i] => happened[i], TypeOK, LocalType
  PROVE  Looked(u)'
<1>1. CASE Same(u)
  BY <1>1, Fields DEF Looked, Same, ident, By, TInv, Wchan
<1>2. CASE Woken(u)
  BY <1>2 DEF Looked, Woken, ident, By, locks
<1> QED BY <1>1, <1>2

\* A thread looks at its event under the lock that it keeps until it sleeps.
LEMMA LookedDoes ==
  ASSUME Timed, OnePlain, IInv, IInv', NEW t \in Threads, Timer(t), Looked(t), Does(t)
  PROVE  Looked(t)'
<1> USE KernSynchAssumption DEF Looked, Timer, ident, By, proc, local, env, locks, ghost
<1>1. TypeOK /\ LocalType /\ Outside /\ TInv(t) /\ TypeOK' /\ LocalType' /\ TInv(t)'
  BY DEF IInv
<1>2. ident(t) \in WakeOne => ~call[t].catch /\ ~call[t].timo /\ ~call[t].norelock
  BY <1>1, Fields DEF OnePlain, TypeOK
<1>3. CASE mtx_enter(t)
  BY <1>3 DEF mtx_enter, Held
<1>4. CASE return(t)
  BY <1>1, <1>4 DEF return, leave, relock, TypeOK, LocalType, Held
<1>5. CASE consume(t)
  BY <1>1, <1>5 DEF consume, leave, LocalType, TInv, Locks
<1>6. CASE sleep_setup(t)
  BY <1>6 DEF sleep_setup
<1>7. CASE sleep_setup_nosignal(t)
  BY <1>7 DEF sleep_setup_nosignal, Held
<1>8. CASE sleep_setup_signal(t)
  BY <1>8 DEF sleep_setup_signal, Held
<1>9. CASE sleep_setup_signal_intr(t)
  BY <1>9 DEF sleep_setup_signal_intr, unsleep
<1>10. CASE sleep_setup_signal_stop(t)
  BY <1>10 DEF sleep_setup_signal_stop, Held
<1>11. CASE sleep_finish(t)
  BY <1>1, <1>11 DEF sleep_finish, mi_switch, LocalType, TInv, Locks
<1>12. CASE sleep_finish_awake(t)
  BY <1>1, <1>12 DEF sleep_finish_awake, LocalType, TInv, Wchan
<1>13. CASE sleep_finish_unsleep(t)
  BY <1>1, <1>13 DEF sleep_finish_unsleep, leave, LocalType, TInv, Locks
<1>14. CASE mi_switch_run(t)
  BY <1>14 DEF mi_switch_run
<1>15. CASE mi_switch_resume(t)
  BY <1>1, <1>15 DEF mi_switch_resume, TInv, Stat, Away
<1>16. CASE sleep_finish_timeout(t)
  BY <1>1, <1>2, <1>16 DEF sleep_finish_timeout, TypeOK, LocalType, TInv, Locks
<1>17. CASE sleep_finish_signal(t)
  BY <1>1, <1>2, <1>17 DEF sleep_finish_signal, TInv, Locks, Call
<1>18. CASE sleep_finish_signal_stop(t)
  BY <1>18 DEF sleep_finish_signal_stop, Held
<1>19. CASE ptsignal_intr(t)
  BY <1>19 DEF ptsignal_intr, acted, unsleep
<1>20. CASE ptsignal_stop(t)
  BY <1>20 DEF ptsignal_stop, acted
<1>21. CASE ptsignal_cont(t)
  BY <1>21 DEF ptsignal_cont, acted
<1>22. CASE userret(t)
  BY <1>22 DEF userret
<1>23. CASE softclock(t)
  BY <1>23 DEF softclock
<1>24. ASSUME NEW c \in Calls, enter(t, c) PROVE Looked(t)'
  BY <1>1, <1>24 DEF enter, TypeOK, Held
<1>25. ASSUME NEW s \in Sent, ptsignal_post(t, s) PROVE Looked(t)'
  BY <1>25 DEF ptsignal_post
<1>26. CASE clock = t /\ endtsleep
  BY <1>26 DEF endtsleep
<1> QED BY <1>3, <1>4, <1>5, <1>6, <1>7, <1>8, <1>9, <1>10, <1>11, <1>12, <1>13, <1>14,
           <1>15, <1>16, <1>17, <1>18, <1>19, <1>20, <1>21, <1>22, <1>23, <1>24, <1>25,
           <1>26 DEF Does, Locking, Thread, Signal

\* A thread that wakeup_one() chose consumes the event or still will look.
LEMMA LookDoes ==
  ASSUME OnePlain, IInv, IInv', NEW t \in Threads, WillLook(t), Looked(t),
         NEW i \in WakeOne, ident(t) = i, happened'[i], Does(t)
  PROVE  WillLook(t)' /\ call'[t].ident = i
<1> USE KernSynchAssumption DEF WillLook, Looked, ident, By, proc, local, env, locks, ghost
<1>1. TypeOK /\ LocalType /\ Outside /\ TInv(t) /\ TypeOK' /\ LocalType' /\ TInv(t)'
  BY DEF IInv
<1>2. ~call[t].catch /\ ~call[t].timo /\ ~call[t].norelock /\ i \in Idents /\ i # NONE
  BY <1>1, Fields DEF OnePlain, TypeOK
<1>3. CASE mtx_enter(t)
  BY <1>3 DEF mtx_enter
<1>4. CASE return(t)
  BY <1>2, <1>4 DEF return
<1>5. CASE consume(t)
  BY <1>1, <1>5 DEF consume, TypeOK
<1>6. CASE sleep_setup(t)
  BY <1>6 DEF sleep_setup
<1>7. CASE sleep_setup_nosignal(t)
  BY <1>7 DEF sleep_setup_nosignal
<1>8. CASE sleep_setup_signal(t)
  BY <1>8 DEF sleep_setup_signal
<1>9. CASE sleep_setup_signal_intr(t)
  BY <1>9 DEF sleep_setup_signal_intr
<1>10. CASE sleep_setup_signal_stop(t)
  BY <1>2, <1>10 DEF sleep_setup_signal_stop
<1>11. CASE sleep_finish(t)
  BY <1>11 DEF sleep_finish, do_sleep
<1>12. CASE sleep_finish_awake(t)
  BY <1>1, <1>12, Fields DEF sleep_finish_awake, TypeOK, TInv, Wchan
<1>13. CASE sleep_finish_unsleep(t)
  BY <1>1, <1>13 DEF sleep_finish_unsleep, TypeOK
<1>14. CASE mi_switch_run(t)
  BY <1>14 DEF mi_switch_run
<1>15. CASE mi_switch_resume(t)
  BY <1>15 DEF mi_switch_resume, Away
<1>16. CASE sleep_finish_timeout(t)
  BY <1>16 DEF sleep_finish_timeout
<1>17. CASE sleep_finish_signal(t)
  BY <1>17 DEF sleep_finish_signal
<1>18. CASE sleep_finish_signal_stop(t)
  BY <1>18 DEF sleep_finish_signal_stop
<1>19. CASE ptsignal_intr(t)
  BY <1>19 DEF ptsignal_intr, acted
<1>20. CASE ptsignal_stop(t)
  BY <1>20 DEF ptsignal_stop, acted
<1>21. CASE ptsignal_cont(t)
  BY <1>21 DEF ptsignal_cont, acted
<1>22. CASE userret(t)
  BY <1>22 DEF userret
<1>23. CASE softclock(t)
  BY <1>23 DEF softclock
<1>24. ASSUME NEW c \in Calls, enter(t, c) PROVE WillLook(t)' /\ call'[t].ident = i
  BY <1>1, <1>24 DEF enter, TInv, Call, NoCall
<1>25. ASSUME NEW s \in Sent, ptsignal_post(t, s) PROVE WillLook(t)' /\ call'[t].ident = i
  BY <1>25 DEF ptsignal_post
<1>26. CASE clock = t /\ endtsleep
  BY <1>26 DEF endtsleep
<1> QED BY <1>3, <1>4, <1>5, <1>6, <1>7, <1>8, <1>9, <1>10, <1>11, <1>12, <1>13, <1>14,
           <1>15, <1>16, <1>17, <1>18, <1>19, <1>20, <1>21, <1>22, <1>23, <1>24, <1>25,
           <1>26 DEF Does, Locking, Thread, Signal

\* Nothing but happen() makes an event happen, and nothing but wakeup_n()
\* ends a wakeup.
LEMMA Events ==
  ASSUME IInv, NEW t \in Threads, Does(t)
  PROVE  waker' = waker /\ \A i \in Idents : happened'[i] => happened[i]
<1>1. happened \in [Idents -> BOOLEAN]
  BY DEF IInv, TypeOK
<1>2. CASE happened' = [happened EXCEPT ![ident(t)] = FALSE] /\ waker' = waker
  BY <1>1, <1>2
<1>3. \/ UNCHANGED <<happened, waker>>
      \/ happened' = [happened EXCEPT ![ident(t)] = FALSE] /\ waker' = waker
  BY DEF Does, Locking, Thread, Signal, userret, enter, ptsignal_post, softclock, endtsleep,
         mtx_enter, return, consume, sleep_setup, sleep_setup_nosignal, sleep_setup_signal,
         sleep_setup_signal_intr, sleep_setup_signal_stop, sleep_finish, sleep_finish_awake,
         sleep_finish_unsleep, mi_switch_run, mi_switch_resume, sleep_finish_timeout,
         sleep_finish_signal, sleep_finish_signal_stop, ptsignal_intr, ptsignal_stop,
         ptsignal_cont, acted, env
<1> QED BY <1>2, <1>3

\* NoLostWakeup, for one thread.
Missed(t) == at[t] \in Away /\ p_wchan[t] # NONE /\ happened[p_wchan[t]]
Coming(i) ==
  \/ \E w \in Wakers : waker[w] = i
  \/ i \in WakeOne /\ \E u \in Threads : WillLook(u) /\ ident(u) = i

\* A thread does not switch away on the queue of an event that has happened.
LEMMA MissedBefore ==
  ASSUME IInv, IInv', NEW t \in Threads, Looked(t), Missed(t)', Does(t)
  PROVE  Missed(t) /\ p_wchan'[t] = p_wchan[t]
<1> USE KernSynchAssumption DEF Missed, Looked, ident, By, proc, local, env, locks, ghost
<1>1. TypeOK /\ LocalType /\ Outside /\ TInv(t) /\ TypeOK' /\ LocalType' /\ TInv(t)'
  BY DEF IInv
<1>2. (\A i \in Idents : happened'[i] => happened[i]) /\ p_wchan'[t] \in Idents
  BY <1>1, Events DEF Missed, TypeOK
<1>3. CASE mtx_enter(t)
  BY <1>3 DEF mtx_enter, Away
<1>4. CASE return(t)
  BY <1>1, <1>4 DEF return, leave, LocalType, Away
<1>5. CASE consume(t)
  BY <1>5 DEF consume, leave, Away
<1>6. CASE sleep_setup(t)
  BY <1>6 DEF sleep_setup, Away
<1>7. CASE sleep_setup_nosignal(t)
  BY <1>7 DEF sleep_setup_nosignal, Away
<1>8. CASE sleep_setup_signal(t)
  BY <1>8 DEF sleep_setup_signal, Away
<1>9. CASE sleep_setup_signal_intr(t)
  BY <1>9 DEF sleep_setup_signal_intr, unsleep
<1>10. CASE sleep_setup_signal_stop(t)
  BY <1>1, <1>10 DEF sleep_setup_signal_stop, TInv, Wchan, Call, Held
<1>11. CASE sleep_finish(t)
  BY <1>1, <1>11 DEF sleep_finish, do_sleep, TInv, Wchan, Held
<1>12. CASE sleep_finish_awake(t)
  BY <1>12 DEF sleep_finish_awake, Away
<1>13. CASE sleep_finish_unsleep(t)
  BY <1>13 DEF sleep_finish_unsleep, unsleep
<1>14. CASE mi_switch_run(t)
  BY <1>14 DEF mi_switch_run
<1>15. CASE mi_switch_resume(t)
  BY <1>15 DEF mi_switch_resume
<1>16. CASE sleep_finish_timeout(t)
  BY <1>16 DEF sleep_finish_timeout, Away
<1>17. CASE sleep_finish_signal(t)
  BY <1>17 DEF sleep_finish_signal, Away
<1>18. CASE sleep_finish_signal_stop(t)
  BY <1>1, <1>18 DEF sleep_finish_signal_stop, TInv, Wchan, Call, Queued
<1>19. CASE ptsignal_intr(t)
  BY <1>19 DEF ptsignal_intr, acted, unsleep
<1>20. CASE ptsignal_stop(t)
  BY <1>20 DEF ptsignal_stop, acted
<1>21. CASE ptsignal_cont(t)
  BY <1>21 DEF ptsignal_cont, acted
<1>22. CASE userret(t)
  BY <1>22 DEF userret
<1>23. CASE softclock(t)
  BY <1>23 DEF softclock
<1>24. ASSUME NEW c \in Calls, enter(t, c) PROVE Missed(t) /\ p_wchan'[t] = p_wchan[t]
  BY <1>24 DEF enter, Away
<1>25. ASSUME NEW s \in Sent, ptsignal_post(t, s) PROVE Missed(t) /\ p_wchan'[t] = p_wchan[t]
  BY <1>25 DEF ptsignal_post
<1>26. CASE clock = t /\ endtsleep
  BY <1>26 DEF endtsleep, unsleep
<1> QED BY <1>3, <1>4, <1>5, <1>6, <1>7, <1>8, <1>9, <1>10, <1>11, <1>12, <1>13, <1>14,
           <1>15, <1>16, <1>17, <1>18, <1>19, <1>20, <1>21, <1>22, <1>23, <1>24, <1>25,
           <1>26 DEF Does, Locking, Thread, Signal

LEMMA WakeStep ==
  ASSUME Timed, OnePlain, IInv, TimedInv, WakeInv, [Next]_vars
  PROVE  WakeInv'
<1>1. IInv'
  BY Inductive
<1>2. /\ \A t \in Threads : Looked(t)
      /\ \A t \in Threads : Missed(t) => Coming(p_wchan[t])
  BY DEF WakeInv, NoLostWakeup, Missed, Coming
<1>3. ASSUME \A t \in Threads : Looked(t)',
             \A t \in Threads : Missed(t)' => Coming(p_wchan[t])'
      PROVE  WakeInv'
  BY <1>3 DEF WakeInv, NoLostWakeup, Missed, Coming
<1>4. ASSUME NEW u \in Threads, Same(u) \/ Woken(u), WillLook(u)
      PROVE  WillLook(u)' /\ call'[u].ident = ident(u)
  BY <1>4 DEF WillLook, Same, Woken, ident, By
<1>5. ASSUME NEW t \in Threads, Does(t) PROVE WakeInv'
  <2>1. waker' = waker /\ \A i \in Idents : happened'[i] => happened[i]
    BY <1>5, Events
  <2>2. \A u \in Threads \ {t} : Same(u)
    BY <1>5, Others
  <2>3. ASSUME NEW u \in Threads PROVE Looked(u)'
    <3>1. CASE u = t
      BY <1>1, <1>2, <1>5, <3>1, LookedDoes DEF TimedInv
    <3>2. CASE u # t
      BY <1>2, <2>1, <2>2, <3>2, LookedFrame DEF IInv
    <3> QED BY <3>1, <3>2
  <2>4. ASSUME NEW i \in Idents, Coming(i), happened'[i] PROVE Coming(i)'
    <3>1. CASE \E w \in Wakers : waker[w] = i
      BY <2>1, <3>1 DEF Coming
    <3>2. ASSUME i \in WakeOne, NEW u \in Threads, WillLook(u), ident(u) = i PROVE Coming(i)'
      <4>1. CASE u = t
        BY <1>1, <1>2, <1>5, <2>4, <3>2, <4>1, LookDoes DEF Coming, ident
      <4>2. CASE u # t
        BY <1>4, <2>2, <3>2, <4>2 DEF Coming, ident
      <4> QED BY <4>1, <4>2
    <3> QED BY <2>4, <3>1, <3>2 DEF Coming
  <2>5. ASSUME NEW u \in Threads, Missed(u)' PROVE Coming(p_wchan[u])'
    <3>1. Missed(u) /\ p_wchan'[u] = p_wchan[u]
      <4>1. CASE u = t
        BY <1>1, <1>2, <1>5, <2>5, <4>1, MissedBefore
      <4>2. CASE u # t
        BY <2>1, <2>2, <2>5, <4>2 DEF Missed, Same, IInv, TypeOK
      <4> QED BY <4>1, <4>2
    <3>2. p_wchan[u] \in Idents /\ happened'[p_wchan[u]]
      BY <2>5, <3>1 DEF Missed, IInv, TypeOK
    <3>3. PICK i \in Idents : i = p_wchan[u]
      BY <3>2
    <3>4. Coming(i)'
      BY <1>2, <2>4, <3>1, <3>2, <3>3
    <3> QED BY <3>1, <3>3, <3>4 DEF Coming
  <2> QED BY <1>3, <2>3, <2>5
<1>6. ASSUME NEW w \in Wakers, NEW i \in Idents, happen(w, i) PROVE WakeInv'
  <2>1. \A u \in Threads : Same(u)
    BY <1>6 DEF happen, Same, proc, local, locks, ghost
  <2>2. /\ waker[w] = NONE /\ waker' = [waker EXCEPT ![w] = i]
        /\ happened' = [happened EXCEPT ![i] = TRUE]
        /\ Protect[i] = "kernel" => kernel_lock = NONE
        /\ Protect[i] = "mutex" => mutex = NONE
        /\ UNCHANGED <<proc, local, locks>>
    BY <1>6 DEF happen
  <2>3. ASSUME NEW u \in Threads PROVE Looked(u)'
    <3>1. Looked(u) /\ TInv(u) /\ TypeOK /\ LocalType
      BY <1>2 DEF IInv
    <3>2. ASSUME at[u] \in Held, ~By(u, "none"), ident(u) = i PROVE FALSE
      <4>1. call[u].giant => kernel_lock = u
        BY <3>1, <3>2 DEF TInv, Locks, Held, Away
      <4>2. call[u] \in Calls
        BY <3>1, <3>2 DEF TInv, Call, Held
      <4>3. Protect[i] \in {"kernel", "mutex", "none"}
        BY KernSynchAssumption
      <4> QED BY <2>2, <3>1, <3>2, <4>1, <4>2, KernSynchAssumption
                 DEF Looked, By, ident, Held
    <3>3. ident(u) \in Idents \cup {NONE}
      BY <3>1, Fields
    <3>4. at[u] \in Held => ident(u) \in Idents
      BY <3>1, Fields DEF TInv, Call, Held
    <3>5. at[u] \in Held /\ ~By(u, "none") => happened'[ident(u)] = happened[ident(u)]
      BY <2>2, <3>1, <3>2, <3>4 DEF TypeOK
    <3> QED BY <2>2, <3>1, <3>5 DEF Looked, By, ident, proc, local, locks
  <2>4. ASSUME NEW u \in Threads, Missed(u)' PROVE Coming(p_wchan[u])'
    <3>1. p_wchan' = p_wchan /\ at' = at /\ p_wchan[u] \in Idents
      BY <2>2, <2>4 DEF Missed, proc, local, IInv, TypeOK
    <3>2. waker \in [Wakers -> Idents \cup {NONE}] /\ happened \in [Idents -> BOOLEAN]
      BY DEF IInv, TypeOK
    <3>3. CASE p_wchan[u] = i
      BY <2>2, <3>1, <3>2, <3>3 DEF Coming
    <3>4. CASE p_wchan[u] # i
      <4>1. Coming(p_wchan[u])
        BY <1>2, <2>2, <2>4, <3>1, <3>4 DEF Missed
      <4>2. ASSUME NEW x \in Wakers, waker[x] = p_wchan[u] PROVE waker'[x] = p_wchan'[u]
        BY <2>2, <3>1, <4>2, KernSynchAssumption
      <4> QED BY <1>4, <2>1, <3>1, <4>1, <4>2 DEF Coming, ident
    <3> QED BY <3>3, <3>4
  <2> QED BY <1>3, <2>3, <2>4
<1>7. ASSUME NEW w \in Wakers, wakeup(w) PROVE WakeInv'
  <2> DEFINE n == IF waker[w] \in WakeOne THEN 1 ELSE -1
             ts == first(waker[w], n)
  <2>1. /\ UNCHANGED <<happened, local>> /\ waker[w] \in Idents
        /\ waker' = [waker EXCEPT ![w] = NONE] /\ waker \in [Wakers -> Idents \cup {NONE}]
        /\ woken' = woken \cup ts
        /\ p_wchan' = [u \in Threads |-> IF u \in ts THEN NONE ELSE p_wchan[u]]
    BY <1>7 DEF wakeup, wakeup_n, unsleep, IInv, TypeOK
  <2>2. \A u \in Threads : Same(u) \/ Woken(u)
    BY <1>7, Wakeups
  <2>3. ASSUME NEW u \in Threads PROVE Looked(u)'
    BY <1>2, <2>1, <2>2, LookedFrame DEF IInv
  <2>4. ASSUME NEW u \in Threads, Missed(u)' PROVE Coming(p_wchan[u])'
    <3>1. u \notin ts /\ p_wchan'[u] = p_wchan[u] /\ Missed(u) /\ p_wchan[u] \in Idents
      BY <2>1, <2>4 DEF Missed, local, IInv, TypeOK
    <3>2. Coming(p_wchan[u])
      BY <1>2, <3>1
    <3>3. CASE \E x \in Wakers : x # w /\ waker[x] = p_wchan[u]
      BY <2>1, <3>1, <3>3 DEF Coming
    <3>4. CASE waker[w] = p_wchan[u]
      <4>1. n = 1 /\ waker[w] \in WakeOne
        BY <3>1, <3>4, FirstWakes
      <4>2. PICK v \in Threads : v \in ts
        BY <3>1, <3>4, <4>1, FirstWakes
      <4>3. p_wchan[v] = waker[w]
        BY <4>2 DEF first, sleepers
      <4>4. ident(v) = p_wchan[u] /\ v \in woken'
        BY <2>1, <3>4, <4>2, <4>3, KernSynchAssumption DEF IInv, TInv, Wchan
      <4> QED BY <2>1, <3>4, <4>1, <4>4 DEF Coming, WillLook, ident, local
    <3>5. CASE p_wchan[u] \in WakeOne /\ \E v \in Threads : WillLook(v) /\ ident(v) = p_wchan[u]
      BY <1>4, <2>2, <3>1, <3>5 DEF Coming, ident
    <3> QED BY <3>2, <3>3, <3>4, <3>5 DEF Coming
  <2> QED BY <1>3, <2>3, <2>4
<1>8. CASE UNCHANGED vars
  BY <1>8
     DEF WakeInv, Looked, NoLostWakeup, WillLook, By, ident, vars, proc, local, env, locks,
         ghost
<1>9. ASSUME endtsleep PROVE \E t \in Threads : Does(t)
  <2>1. clock \in Threads
    BY <1>9 DEF endtsleep, IInv, TypeOK
  <2> QED BY <1>9, <2>1 DEF Does
<1> QED BY <1>5, <1>6, <1>7, <1>8, <1>9 DEF Next, Does

\* An event is never missed: whoever sleeps on an ident whose event happened
\* has a wakeup coming, or a thread that wakeup_one() chose will look at it;
\* when the calls on idents of wakeup_one() cannot give up and look again.
THEOREM WakeupsArrive == Timed /\ OnePlain /\ Spec => []NoLostWakeup
<1> SUFFICES ASSUME Timed, OnePlain PROVE Spec => []NoLostWakeup
  OBVIOUS
<1>1. Init => TimedInv
  BY KernSynchAssumption DEF Init, TimedInv, Timer, Reason
<1>2. IInv /\ TimedInv /\ [Next]_vars => TimedInv'
  BY TimedStep
<1>3. Init => WakeInv
  BY DEF Init, WakeInv, Looked, NoLostWakeup
<1>4. IInv /\ TimedInv /\ WakeInv /\ [Next]_vars => WakeInv'
  BY WakeStep
<1>5. WakeInv => NoLostWakeup
  BY DEF WakeInv
<1> QED BY <1>1, <1>2, <1>3, <1>4, <1>5, Invariance, PTL DEF Spec
=============================================================================
