------------------------------- MODULE Taskq -------------------------------
(***************************************************************************)
(* The task queues of kern/kern_task.c: tasks put on a list by anybody,    *)
(* and called by the queue's threads, through the life of one queue from   *)
(* taskq_create() to taskq_destroy().                                      *)
(*                                                                         *)
(* What is done under tq_mtx is one step; the steps between are those at   *)
(* which the code has dropped it.  Threads of a queue that is not          *)
(* TASKQ_MPSAFE hold the kernel lock except while they sleep, and so does  *)
(* taskq_create_thread(), which loses it when kthread_create() sleeps.     *)
(***************************************************************************)
EXTENDS Integers, Queue

CONSTANTS
  Tasks,
  Callers,      \* contexts that call task_add() and task_del()
  Threads,      \* threads kthread_create() can still make
  Queues,       \* what taskq_create() is called with: nthreads, TASKQ_MPSAFE
  Creator, Destroyer, None

ASSUME TaskqAssumption ==
  /\ Queues \subseteq [nthreads : Nat \ {0}, mpsafe : BOOLEAN]
  /\ \A q \in Queues : q.mpsafe => q.nthreads = 1   \* as all of the tree has it
  /\ IsFiniteSet(Threads)
  /\ Creator # Destroyer /\ Threads \cap Callers = {}
  /\ {Creator, Destroyer} \cap (Threads \cup Callers) = {}
  /\ None \notin Threads \cup {Creator, Destroyer}

VARIABLES
  tq_attr,      \* tq_nthreads and tq_flags, set for good by taskq_create()
  tq_state, tq_running, tq_worklist,
  t_flags,      \* the tasks with TASK_ONQUEUE
  freed,        \* has the queue been freed?
  klock,        \* the holder of the kernel lock
  pc,           \* where each thread, caller, the creator and the destroyer is
  work,         \* the task of each thread or caller
  owed          \* history: tasks with a task_add() that no call has honoured

tq == <<tq_attr, tq_state, tq_running, freed>>
vars == <<tq, tq_worklist, t_flags, klock, pc, work, owed>>

Procs == Threads \cup Callers \cup {Creator, Destroyer}
at(p, l) == pc[p] = l
goto(p, l) == pc' = [pc EXCEPT ![p] = l]

\* taskq_create(): taskq_create_thread() is deferred.
Init ==
  /\ tq_attr \in Queues
  /\ tq_state = "CREATED" /\ tq_running = 0 /\ tq_worklist = <<>>
  /\ t_flags = {} /\ freed = FALSE /\ klock = None /\ owed = {}
  /\ pc = [p \in Procs |-> IF p = Creator THEN "deferred"
                           ELSE IF p \in Threads THEN "none" ELSE "idle"]
  /\ work = [p \in Threads \cup Callers |-> None]

(***************************************************************************)
(* Sleep queues and the kernel lock (kern_synch.c, kern_lock.c).           *)
(***************************************************************************)
Bored == {w \in Threads : at(w, "bored")}
DestroyerSleeps == at(Destroyer, "tqdestroy")

\* Mutant: nobody is woken.
wakeup_nobody(p, l) == goto(p, l)

\* wakeup_one(tq) by p, which then goes to l.
wakeup_one_tq(p, l) ==
  IF Bored = {} THEN goto(p, l)
  ELSE \E w \in Bored : pc' = [pc EXCEPT ![p] = l, ![w] = "woken"]

\* wakeup_one(&tq->tq_running) by p.
wakeup_one_running(p, l) ==
  pc' = [pc EXCEPT ![p] = l,
                   ![Destroyer] = IF DestroyerSleeps THEN "destroy" ELSE @]

KERNEL_LOCK(p) == klock = None /\ klock' = p
KERNEL_UNLOCK == klock' = None
\* A sleeping thread gives up the kernel lock if it has it.
drop(p) == klock' = IF klock = p THEN None ELSE klock

(***************************************************************************)
(* taskq_destroy().                                                        *)
(***************************************************************************)
Calling == {c \in Callers : pc[c] \in {"add", "del"}}

\* The loop in the mutex: tell the threads and sleep, or free the queue.
taskq_destroy_loop ==
  IF tq_running > 0
    THEN /\ pc' = [p \in Procs |-> IF p = Destroyer THEN "tqdestroy"
                                   ELSE IF p \in Bored THEN "woken" ELSE pc[p]]
         /\ UNCHANGED freed
    ELSE freed' = TRUE /\ goto(Destroyer, "done")

\* Mutant: the deferred taskq_create_thread() is forgotten.
still_deferred_never == FALSE

\* taskq_create_thread() is still to come.
still_deferred == tq_state = "CREATED"

\* The owner destroys a queue nobody else will add to any more.  A queue that
\* is still to get its thread is left to taskq_create_thread().
taskq_destroy ==
  /\ at(Destroyer, "idle") /\ Calling = {}
  /\ tq_state' = "DESTROYED"
  /\ IF still_deferred
       THEN UNCHANGED freed /\ goto(Destroyer, "done")
       ELSE taskq_destroy_loop
  /\ UNCHANGED <<tq_attr, tq_running, tq_worklist, t_flags, klock, work, owed>>

taskq_destroy_woken ==
  /\ at(Destroyer, "destroy")
  /\ taskq_destroy_loop
  /\ UNCHANGED <<tq_attr, tq_state, tq_running, tq_worklist, t_flags, klock, work, owed>>

(***************************************************************************)
(* taskq_create_thread().                                                  *)
(***************************************************************************)
\* Mutant: a thread is counted only when it is made.
counted_late == UNCHANGED tq_running

\* A thread is counted before kthread_create() makes it.
counted == tq_running' = tq_running + 1

taskq_create_thread ==
  /\ at(Creator, "deferred") /\ klock = None
  /\ \/ /\ tq_state = "DESTROYED"
        /\ freed' = TRUE
        /\ goto(Creator, "done")
        /\ UNCHANGED <<tq_state, tq_running>>
     \/ /\ tq_state = "CREATED"
        /\ tq_state' = "RUNNING" /\ counted
        /\ goto(Creator, "create")
        /\ UNCHANGED freed
  /\ UNCHANGED <<tq_attr, tq_worklist, t_flags, klock, work, owed>>

Unborn == {w \in Threads : at(w, "none")}

\* kthread_create() may have slept; now it has the kernel lock again.
kthread_create ==
  /\ at(Creator, "create") /\ KERNEL_LOCK(Creator)
  /\ \/ /\ Unborn # {}
        /\ pc' = [pc EXCEPT ![CHOOSE w \in Unborn : TRUE] = "start", ![Creator] = "created"]
     \/ goto(Creator, "failed")
  /\ UNCHANGED <<tq, tq_worklist, t_flags, work, owed>>

taskq_create_thread_more ==
  /\ at(Creator, "created")
  /\ IF tq_running < tq_attr.nthreads
       THEN counted /\ goto(Creator, "create")
       ELSE tq_running' = tq_running /\ goto(Creator, "done")
  /\ KERNEL_UNLOCK
  /\ UNCHANGED <<tq_attr, tq_state, freed, tq_worklist, t_flags, work, owed>>

taskq_create_thread_failed ==
  /\ at(Creator, "failed")
  /\ tq_running' = tq_running - 1
  /\ IF tq_state = "DESTROYED" /\ tq_running' = 0
       THEN wakeup_one_running(Creator, "done")
       ELSE goto(Creator, "done")
  /\ KERNEL_UNLOCK
  /\ UNCHANGED <<tq_attr, tq_state, freed, tq_worklist, t_flags, work, owed>>

(***************************************************************************)
(* task_add() and task_del().                                              *)
(***************************************************************************)
InUse == at(Destroyer, "idle")

\* The flag is read before the mutex is taken.
task_add(c, t) ==
  /\ at(c, "idle") /\ InUse
  /\ owed' = owed \cup {t}
  /\ work' = [work EXCEPT ![c] = IF t \in t_flags THEN None ELSE t]
  /\ goto(c, IF t \in t_flags THEN "idle" ELSE "add")
  /\ UNCHANGED <<tq, tq_worklist, t_flags, klock>>

\* Mutant: the flag is not read again.
on_queue_unread(c) == FALSE

\* TASK_ONQUEUE, read again under the mutex.
on_queue(c) == work[c] \in t_flags

task_add_locked(c) ==
  /\ at(c, "add")
  /\ IF on_queue(c)
       THEN UNCHANGED <<tq_worklist, t_flags>> /\ goto(c, "idle")
       ELSE /\ tq_worklist' = Append(tq_worklist, work[c])
            /\ t_flags' = t_flags \cup {work[c]}
            /\ goto(c, "wakeup")
  /\ work' = [work EXCEPT ![c] = None]
  /\ UNCHANGED <<tq, klock, owed>>

task_add_wakeup(c) ==
  /\ at(c, "wakeup")
  /\ wakeup_one_tq(c, "idle")
  /\ UNCHANGED <<tq, tq_worklist, t_flags, klock, work, owed>>

task_del(c, t) ==
  /\ at(c, "idle") /\ InUse
  /\ t \in t_flags
  /\ work' = [work EXCEPT ![c] = t]
  /\ goto(c, "del")
  /\ UNCHANGED <<tq, tq_worklist, t_flags, klock, owed>>

task_del_locked(c) ==
  /\ at(c, "del")
  /\ IF on_queue(c)
       THEN /\ tq_worklist' = Without(tq_worklist, {work[c]})
            /\ t_flags' = t_flags \ {work[c]}
            /\ owed' = owed \ {work[c]}
       ELSE UNCHANGED <<tq_worklist, t_flags, owed>>
  /\ work' = [work EXCEPT ![c] = None]
  /\ goto(c, "idle")
  /\ UNCHANGED <<tq, klock>>

(***************************************************************************)
(* taskq_thread(), taskq_next_work().                                      *)
(***************************************************************************)
taskq_thread(w) ==
  /\ at(w, "start") /\ klock = None
  /\ klock' = IF tq_attr.mpsafe THEN None ELSE w
  /\ goto(w, "next")
  /\ UNCHANGED <<tq, tq_worklist, t_flags, work, owed>>

taskq_next_work(w) ==
  /\ at(w, "next") /\ tq_worklist # <<>>
  /\ work' = [work EXCEPT ![w] = Head(tq_worklist)]
  /\ tq_worklist' = Tail(tq_worklist)
  /\ t_flags' = t_flags \ {Head(tq_worklist)}
  /\ goto(w, IF Tail(tq_worklist) # <<>> THEN "wakeup" ELSE "run")
  /\ UNCHANGED <<tq, klock, owed>>

taskq_next_work_wakeup(w) ==
  /\ at(w, "wakeup")
  /\ wakeup_one_tq(w, "run")
  /\ UNCHANGED <<tq, tq_worklist, t_flags, klock, work, owed>>

taskq_next_work_sleep(w) ==
  /\ at(w, "next") /\ tq_worklist = <<>> /\ tq_state = "RUNNING"
  /\ drop(w)
  /\ goto(w, "bored")
  /\ UNCHANGED <<tq, tq_worklist, t_flags, work, owed>>

taskq_next_work_woken(w) ==
  /\ at(w, "woken")
  /\ IF tq_attr.mpsafe THEN UNCHANGED klock ELSE KERNEL_LOCK(w)
  /\ goto(w, "next")
  /\ UNCHANGED <<tq, tq_worklist, t_flags, work, owed>>

\* (*work.t_func)(work.t_arg) starts; it, or sched_pause(), may sleep.
taskq_thread_run(w) ==
  /\ at(w, "run")
  /\ owed' = owed \ {work[w]}
  /\ drop(w)
  /\ goto(w, "woken")
  /\ work' = [work EXCEPT ![w] = None]
  /\ UNCHANGED <<tq, tq_worklist, t_flags>>

\* Mutant: a thread leaves as soon as the queue is destroyed.
finished_early == tq_state # "RUNNING"

\* taskq_next_work() has nothing more to give.
finished == tq_worklist = <<>> /\ tq_state # "RUNNING"

\* taskq_next_work() returns 0; the thread counts itself out.  It has not
\* slept since, so it still holds the kernel lock if it is not MPSAFE.
taskq_thread_exit(w) ==
  /\ at(w, "next") /\ finished
  /\ tq_running' = tq_running - 1
  /\ goto(w, IF tq_running' = 0 THEN "last" ELSE "left")
  /\ UNCHANGED <<tq_attr, tq_state, freed, tq_worklist, t_flags, klock, work, owed>>

\* It reads tq_flags, takes the kernel lock if MPSAFE, reads tq_flags again,
\* wakes the destroyer if it was the last, and exits.
taskq_thread_last(w) ==
  /\ pc[w] \in {"last", "left"}
  /\ klock \in {None, w}
  /\ IF at(w, "last") THEN wakeup_one_running(w, "dead") ELSE goto(w, "dead")
  /\ KERNEL_UNLOCK
  /\ UNCHANGED <<tq, tq_worklist, t_flags, work, owed>>

Thread(w) ==
  \/ taskq_thread(w) \/ taskq_next_work(w) \/ taskq_next_work_wakeup(w)
  \/ taskq_next_work_sleep(w) \/ taskq_next_work_woken(w) \/ taskq_thread_run(w)
  \/ taskq_thread_exit(w) \/ taskq_thread_last(w)

CallerReturns(c) == task_add_locked(c) \/ task_add_wakeup(c) \/ task_del_locked(c)

Owner ==
  \/ taskq_create_thread \/ kthread_create
  \/ taskq_create_thread_more \/ taskq_create_thread_failed
  \/ taskq_destroy_woken

Next ==
  \/ \E c \in Callers : CallerReturns(c)
  \/ \E c \in Callers, t \in Tasks : task_add(c, t) \/ task_del(c, t)
  \/ \E w \in Threads : Thread(w)
  \/ taskq_destroy \/ Owner

Spec == Init /\ [][Next]_vars

\* Every thread that can run is run, and gets the kernel lock in the end.
Fairness ==
  /\ \A w \in Threads : SF_vars(Thread(w))
  /\ \A c \in Callers : WF_vars(CallerReturns(c))
  /\ SF_vars(Owner)
FairSpec == Spec /\ Fairness

(***************************************************************************)
(* Properties.                                                             *)
(***************************************************************************)

\* Every variable has its type.
TypeOK ==
  /\ tq_attr \in Queues
  /\ tq_state \in {"CREATED", "RUNNING", "DESTROYED"}
  /\ tq_running \in Nat
  /\ tq_worklist \in Seq(Tasks)
  /\ t_flags \subseteq Tasks /\ owed \subseteq Tasks
  /\ freed \in BOOLEAN
  /\ klock \in Threads \cup {Creator, Destroyer, None}
  /\ work \in [Threads \cup Callers -> Tasks \cup {None}]

\* TASK_ONQUEUE tells which tasks are on the list, and none is on it twice,
\* although task_add() and task_del() first read it without the mutex.
FlagsMatchList == IsInjective(tq_worklist) /\ ToSet(tq_worklist) = t_flags

\* Nobody who will still look into the queue is left when it is freed: not
\* the threads on their way out, nor taskq_create_thread().
Referenced ==
  \/ at(Creator, "deferred") \/ at(Creator, "create") \/ at(Creator, "created")
  \/ at(Creator, "failed") \/ at(Destroyer, "destroy") \/ at(Destroyer, "tqdestroy")
  \/ Calling # {}
  \/ \E w \in Threads : pc[w] \notin {"none", "dead"}
NoUseAfterFree == freed => ~Referenced

\* Once the queue has a thread, every task_add() leads to a call that starts
\* after it, or the task is deleted.
Started == \E w \in Threads : pc[w] # "none"
AddLeadsToCall == \A t \in Tasks : t \in owed /\ Started ~> t \notin owed

\* A queue that had a thread is not freed with tasks still on it.
DrainedFirst ==
  [][freed' /\ ~freed /\ Started => tq_worklist = <<>>]_vars

\* A destroyed queue is freed.
DestroyEnds == tq_state = "DESTROYED" ~> freed
=============================================================================
