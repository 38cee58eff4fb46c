----------------------------- MODULE TaskqProof -----------------------------
(***************************************************************************)
(* The queue of kern_task.c is not used after it is freed, for any number  *)
(* of threads, callers and tasks.                                          *)
(*                                                                         *)
(* taskq_destroy() goes by tq_running, so the proof is about what that     *)
(* counts (Counting), and about the threads it no longer counts but that   *)
(* still look into the queue.  What saves those is not the counter but the *)
(* kernel lock (Holders): whoever could count down to 0 after them has to  *)
(* have it.  A TASKQ_MPSAFE queue does without it, and is safe because it  *)
(* has a single thread (OneMpsafe).                                        *)
(***************************************************************************)
EXTENDS Taskq, QueueProof

\* Where everybody can be.
Places ==
  /\ DOMAIN pc = Procs
  /\ \A w \in Threads : pc[w] \in {"none", "start", "next", "wakeup", "run", "bored",
                                   "woken", "last", "left", "dead"}
  /\ \A c \in Callers : pc[c] \in {"idle", "add", "del", "wakeup"}
  /\ pc[Creator] \in {"deferred", "create", "created", "failed", "done"}
  /\ pc[Destroyer] \in {"idle", "tqdestroy", "destroy", "done"}

\* A caller in the mutex has a task.
HasTask == \A c \in Callers : pc[c] \in {"add", "del"} => work[c] \in Tasks

\* tq_running counts the threads from before they are made until they leave.
Counted == {w \in Threads : pc[w] \notin {"none", "last", "left", "dead"}}
Pending == IF pc[Creator] \in {"create", "failed"} THEN 1 ELSE 0
Counting == tq_running = Cardinality(Counted) + Pending

\* The last to leave leaves nobody behind.
LastIsLast == \A w \in Threads : at(w, "last") => tq_running = 0

\* tq_state follows the creator and the destroyer.
States ==
  /\ tq_state = "DESTROYED" <=> ~at(Destroyer, "idle")
  /\ tq_state = "RUNNING" => ~at(Creator, "deferred")
  /\ tq_state = "CREATED" => at(Creator, "deferred")
  /\ at(Creator, "deferred") => Unborn = Threads
  /\ pc[Destroyer] \in {"tqdestroy", "destroy"} => ~at(Creator, "deferred")
  /\ ~at(Destroyer, "idle") => Calling = {}

\* Threads leave a destroyed queue, when its list is empty.
Left == {w \in Threads : pc[w] \in {"last", "left", "dead"}}
LeftEmpty == Left # {} => ~at(Destroyer, "idle") /\ tq_worklist = <<>>

\* The kernel lock.
Holders ==
  /\ klock = Creator <=> pc[Creator] \in {"created", "failed"}
  /\ at(Creator, "created") => \E w \in Threads : at(w, "start")
  /\ ~tq_attr.mpsafe =>
       \A w \in Threads : pc[w] \in {"next", "wakeup", "run", "last", "left"} => klock = w

\* A TASKQ_MPSAFE queue has one thread, and that has no need of the lock.
OneMpsafe ==
  tq_attr.mpsafe =>
    /\ klock \in {None, Creator}
    /\ pc[Creator] \in {"deferred", "create", "failed"} => Unborn = Threads
    /\ \A w, x \in Threads : w \notin Unborn /\ x \notin Unborn => w = x

\* taskq_destroy() is woken when nobody is on the way out any more.
Leaving == {w \in Threads : pc[w] \in {"last", "left"}}
WokenLast == at(Destroyer, "destroy") => tq_running = 0 /\ Leaving = {}

\* Once the queue is freed all have come to their end.
Quiet ==
  freed => /\ at(Creator, "done") /\ at(Destroyer, "done")
           /\ \A w \in Threads : pc[w] \in {"none", "dead"}

Lifetime ==
  /\ Counting /\ LastIsLast /\ States /\ LeftEmpty /\ Holders /\ OneMpsafe
  /\ WokenLast /\ Quiet

IInv == TypeOK /\ Places /\ HasTask /\ FlagsMatchList /\ Lifetime
-----------------------------------------------------------------------------

(***************************************************************************)
(* Steps, seen through pc.                                                 *)
(***************************************************************************)

\* p goes to l, and may have woken threads.
Moved(p, l) ==
  /\ DOMAIN pc' = Procs
  /\ pc'[p] = l
  /\ \A q \in Procs \ {p} :
       pc'[q] = pc[q] \/ (q \in Threads /\ pc[q] = "bored" /\ pc'[q] = "woken")

\* The processes are all different, and threads can be counted.
LEMMA Distinct ==
  /\ Creator \in Procs /\ Destroyer \in Procs /\ Creator # Destroyer
  /\ Creator \notin Threads \cup Callers /\ Destroyer \notin Threads \cup Callers
  /\ Threads \subseteq Procs /\ Callers \subseteq Procs
  /\ \A w \in Threads : w \notin Callers
BY TaskqAssumption DEF Procs

LEMMA Goto ==
  ASSUME Places, NEW p \in Procs, NEW l, goto(p, l)
  PROVE  Moved(p, l) /\ \A q \in Procs \ {p} : pc'[q] = pc[q]
BY DEF Places, goto, Moved

LEMMA WakeupOne ==
  ASSUME Places, NEW p \in Procs, NEW l, pc[p] # "bored", wakeup_one_tq(p, l)
  PROVE  Moved(p, l)
<1>1. CASE Bored = {}
  BY <1>1, Goto DEF wakeup_one_tq
<1>2. CASE Bored # {}
  <2>1. PICK w \in Bored : pc' = [pc EXCEPT ![p] = l, ![w] = "woken"]
    BY <1>2 DEF wakeup_one_tq
  <2>2. w \in Procs /\ w \in Threads /\ pc[w] = "bored" /\ w # p
    BY Distinct DEF Bored, at
  <2> QED BY <2>1, <2>2 DEF Places, Moved
<1> QED BY <1>1, <1>2

\* The sets of threads are finite.
LEMMA FiniteCounted == IsFiniteSet(Counted) /\ Cardinality(Counted) \in Nat
<1>1. Counted \in SUBSET Threads
  BY DEF Counted
<1> QED BY <1>1, TaskqAssumption, FS_Subset, FS_CardinalityType

\* One more, one less.
LEMMA CountedMore ==
  ASSUME NEW w \in Threads, w \notin Counted, Counted' = Counted \cup {w}
  PROVE  Cardinality(Counted') = Cardinality(Counted) + 1
BY FiniteCounted, FS_AddElement

LEMMA CountedLess ==
  ASSUME NEW w \in Threads, w \in Counted, Counted' = Counted \ {w}
  PROVE  Cardinality(Counted') = Cardinality(Counted) - 1
BY FiniteCounted, FS_RemoveElement

\* Whoever is counted shows in tq_running.
LEMMA CountedShows ==
  ASSUME Counting
  PROVE  /\ \A w \in Threads : w \in Counted => tq_running > 0
         /\ pc[Creator] \in {"create", "failed"} => tq_running > 0
         /\ tq_running = 0 => Counted = {} /\ pc[Creator] \notin {"create", "failed"}
         /\ tq_running \in Nat
<1>1. Counted # {} => Cardinality(Counted) > 0
  BY FiniteCounted, FS_EmptySet
<1> QED BY <1>1, FiniteCounted DEF Counting, Pending

\* Somebody moves among the places that are told apart by nothing else here.
LEMMA Frame ==
  ASSUME Places, Lifetime,
         UNCHANGED <<tq_attr, tq_running, freed, tq_state, klock>>,
         tq_worklist' = tq_worklist \/ Left = {},
         ~at(Destroyer, "idle") => Calling' = {},
         NEW p \in Procs, NEW l, Moved(p, l),
         \/ p \in Callers
         \/ /\ p \in Threads
            /\ pc[p] \in {"next", "wakeup", "run"} /\ l \in {"next", "wakeup", "run"}
  PROVE  Lifetime'
<1> USE Distinct
<1>1. Counted' = Counted /\ Unborn' = Unborn /\ Left' = Left /\ Leaving' = Leaving
  BY DEF Moved, Counted, Unborn, Left, Leaving, at
<1>2. pc'[Creator] = pc[Creator] /\ pc'[Destroyer] = pc[Destroyer]
  BY DEF Moved
<1>3. Counting' /\ WokenLast'
  BY <1>1, <1>2 DEF Lifetime, Counting, Pending, WokenLast, at
<1>4. LastIsLast'
  BY DEF Lifetime, LastIsLast, Moved, at
<1>5. States' /\ LeftEmpty'
  BY <1>1, <1>2 DEF Lifetime, States, LeftEmpty, at
<1>6. Holders'
  BY <1>2 DEF Lifetime, Holders, Moved, at
<1>7. OneMpsafe' /\ Quiet'
  BY <1>1, <1>2 DEF Lifetime, OneMpsafe, Quiet, Moved, at
<1> QED BY <1>3, <1>4, <1>5, <1>6, <1>7 DEF Lifetime
(***************************************************************************)
(* Lifetime, action by action.                                             *)
(***************************************************************************)
LEMMA CallerLife ==
  ASSUME IInv, NEW c \in Callers,
         CallerReturns(c) \/ \E t \in Tasks : task_add(c, t) \/ task_del(c, t)
  PROVE  Lifetime'
<1> USE Distinct
<1>1. PICK l \in {"idle", "add", "del", "wakeup"} :
        Moved(c, l) /\ (l \in {"add", "del"} => at(Destroyer, "idle"))
  <2>1. CASE task_add_locked(c)
    BY <2>1, Goto DEF IInv, task_add_locked
  <2>2. CASE task_add_wakeup(c)
    BY <2>2, WakeupOne DEF IInv, task_add_wakeup, at
  <2>3. CASE task_del_locked(c)
    BY <2>3, Goto DEF IInv, task_del_locked
  <2>4. CASE \E t \in Tasks : task_add(c, t)
    BY <2>4, Goto DEF IInv, task_add, InUse
  <2>5. CASE \E t \in Tasks : task_del(c, t)
    BY <2>5, Goto DEF IInv, task_del, InUse
  <2> QED BY <2>1, <2>2, <2>3, <2>4, <2>5 DEF CallerReturns
<1>2. UNCHANGED <<tq_attr, tq_running, freed, tq_state, klock>>
  BY DEF CallerReturns, task_add_locked, task_add_wakeup, task_del_locked, task_add, task_del, tq
<1>3. tq_worklist' = tq_worklist \/ c \in Calling
  BY DEF CallerReturns, task_add_locked, task_add_wakeup, task_del_locked, task_add, task_del,
         Calling, at
<1>4. tq_worklist' = tq_worklist \/ Left = {}
  BY <1>3 DEF IInv, Lifetime, States, LeftEmpty
<1>5. ~at(Destroyer, "idle") => Calling' = {}
  BY <1>1 DEF IInv, Lifetime, States, Moved, Calling
<1> QED BY <1>1, <1>2, <1>4, <1>5, Frame DEF IInv

LEMMA TakenLife ==
  ASSUME IInv, NEW w \in Threads, taskq_next_work(w) \/ taskq_next_work_wakeup(w)
  PROVE  Lifetime'
<1> USE Distinct
<1>1. PICK l \in {"wakeup", "run"} : Moved(w, l)
  BY Goto, WakeupOne DEF IInv, taskq_next_work, taskq_next_work_wakeup, at
<1>2. UNCHANGED <<tq_attr, tq_running, freed, tq_state, klock>>
  BY DEF taskq_next_work, taskq_next_work_wakeup, tq
<1>3. pc[w] \in {"next", "wakeup"}
  BY DEF taskq_next_work, taskq_next_work_wakeup, at
<1>4. ~at(Destroyer, "idle") => Calling' = {}
  BY <1>1 DEF IInv, Lifetime, States, Moved, Calling
<1>5. tq_worklist' = tq_worklist \/ Left = {}
  BY DEF IInv, Lifetime, LeftEmpty, taskq_next_work, taskq_next_work_wakeup
<1> QED BY <1>1, <1>2, <1>3, <1>4, <1>5, Frame DEF IInv

\* A thread that is counted before and after takes the kernel lock, or drops it.
LEMMA LockingLife ==
  ASSUME IInv, NEW w \in Threads,
         \/ taskq_thread(w) \/ taskq_next_work_sleep(w)
         \/ taskq_next_work_woken(w) \/ taskq_thread_run(w)
  PROVE  Lifetime'
<1> USE Distinct
<1> DEFINE l == IF at(w, "run") THEN "woken"
                ELSE IF at(w, "next") THEN "bored" ELSE "next"
<1>1. goto(w, l)
  BY DEF taskq_thread, taskq_next_work_sleep, taskq_next_work_woken, taskq_thread_run, at
<1>2. Moved(w, l) /\ \A q \in Procs \ {w} : pc'[q] = pc[q]
  BY <1>1, Goto DEF IInv
<1>3. UNCHANGED <<tq_attr, tq_running, freed, tq_state, tq_worklist>>
  BY DEF taskq_thread, taskq_next_work_sleep, taskq_next_work_woken, taskq_thread_run, tq
<1>4. pc[w] \in {"start", "next", "woken", "run"}
  BY DEF taskq_thread, taskq_next_work_sleep, taskq_next_work_woken, taskq_thread_run, at
<1>5. Counted' = Counted /\ Unborn' = Unborn /\ Left' = Left /\ Leaving' = Leaving
  BY <1>2, <1>4 DEF Moved, Counted, Unborn, Left, Leaving, at
<1>6. pc'[Creator] = pc[Creator] /\ pc'[Destroyer] = pc[Destroyer] /\ Calling' = Calling
  BY <1>2 DEF Calling
<1>7. Counting' /\ WokenLast'
  BY <1>3, <1>5, <1>6 DEF IInv, Lifetime, Counting, Pending, WokenLast, at
<1>8. LastIsLast'
  BY <1>2, <1>3 DEF IInv, Lifetime, LastIsLast, Moved, at
<1>9. States' /\ LeftEmpty'
  BY <1>3, <1>5, <1>6 DEF IInv, Lifetime, States, LeftEmpty, at
<1>10. Holders' /\ (tq_attr.mpsafe => klock' \in {None, Creator})
  <2>1. klock # w => (klock = None /\ klock' \in {None, w}) \/ klock' = klock
    BY DEF taskq_thread, taskq_next_work_sleep, taskq_next_work_woken, taskq_thread_run,
           drop, KERNEL_LOCK
  <2>2. klock = w => klock' \in {None, w}
    BY DEF taskq_thread, taskq_next_work_sleep, taskq_next_work_woken, taskq_thread_run,
           drop, KERNEL_LOCK
  <2>3. tq_attr.mpsafe => klock' = klock
    BY TaskqAssumption
       DEF IInv, Lifetime, OneMpsafe, taskq_thread, taskq_next_work_sleep,
           taskq_next_work_woken, taskq_thread_run, drop, KERNEL_LOCK
  <2>4. ~tq_attr.mpsafe /\ l = "next" => klock' = w /\ klock = None
    BY DEF taskq_thread, taskq_next_work_sleep, taskq_next_work_woken, taskq_thread_run,
           drop, KERNEL_LOCK, at
  <2>5. klock' = Creator <=> pc'[Creator] \in {"created", "failed"}
    BY <1>6, <2>1, <2>2, TaskqAssumption DEF IInv, Lifetime, Holders
  <2>6. pc'[Creator] = "created" => \E x \in Threads : pc'[x] = "start"
    <3> SUFFICES ASSUME at(Creator, "created") PROVE \E x \in Threads : pc'[x] = "start"
      BY <1>6 DEF at
    <3>1. PICK x \in Threads : pc[x] = "start"
      BY DEF IInv, Lifetime, Holders, at
    <3>2. klock = Creator /\ klock # None
      BY TaskqAssumption DEF IInv, Lifetime, Holders, at
    <3>3. pc[w] # "start"
      BY <3>2 DEF taskq_thread, taskq_next_work_sleep, taskq_next_work_woken,
                  taskq_thread_run, at
    <3> QED BY <1>2, <3>1, <3>3
  <2>7. ~tq_attr.mpsafe => \A x \in Threads :
          pc'[x] \in {"next", "wakeup", "run", "last", "left"} => klock' = x
    BY <1>2, <2>1, <2>2, <2>4, TaskqAssumption DEF IInv, Lifetime, Holders, Moved
  <2> QED BY <1>3, <2>3, <2>5, <2>6, <2>7 DEF Holders, at, IInv, Lifetime, OneMpsafe
<1>11. OneMpsafe' /\ Quiet'
  BY <1>2, <1>3, <1>4, <1>5, <1>6, <1>10 DEF IInv, Lifetime, OneMpsafe, Quiet, Moved, at
<1> QED BY <1>7, <1>8, <1>9, <1>10, <1>11 DEF Lifetime
\* A thread counts itself out.
LEMMA ExitLife ==
  ASSUME IInv, NEW w \in Threads, taskq_thread_exit(w)
  PROVE  Lifetime'
<1> USE Distinct
<1> DEFINE l == IF tq_running' = 0 THEN "last" ELSE "left"
<1>1. Moved(w, l) /\ \A q \in Procs \ {w} : pc'[q] = pc[q]
  BY Goto DEF IInv, taskq_thread_exit
<1>2. UNCHANGED <<tq_attr, freed, tq_state, tq_worklist, klock>> /\ tq_running' = tq_running - 1
  BY DEF taskq_thread_exit
<1>3. pc[w] = "next" /\ tq_worklist = <<>> /\ tq_state # "RUNNING"
  BY DEF taskq_thread_exit, finished, at
<1>4. pc'[Creator] = pc[Creator] /\ pc'[Destroyer] = pc[Destroyer] /\ Calling' = Calling
  BY <1>1 DEF Calling
<1>5. w \in Counted /\ Counted' = Counted \ {w} /\ Unborn' = Unborn /\ Unborn # Threads
  BY <1>1, <1>3 DEF Moved, Counted, Unborn, at
<1>6. Counting'
  <2>1. Cardinality(Counted') = Cardinality(Counted) - 1
    BY <1>5, CountedLess
  <2>2. Pending' = Pending /\ Pending \in Nat
    BY <1>4 DEF Pending
  <2> QED BY <1>2, <2>1, <2>2, FiniteCounted DEF IInv, Lifetime, Counting
<1>7. ~at(Creator, "deferred") /\ ~at(Destroyer, "idle")
  BY <1>3, <1>5 DEF IInv, Lifetime, States, TypeOK
<1>8. tq_running > 0
  BY <1>5, CountedShows DEF IInv, Lifetime
<1>9. LastIsLast' /\ WokenLast'
  BY <1>1, <1>4, <1>8 DEF IInv, Lifetime, LastIsLast, WokenLast, Moved, at
<1>10. States' /\ LeftEmpty'
  BY <1>2, <1>3, <1>4, <1>5, <1>7 DEF IInv, Lifetime, States, LeftEmpty, at
<1>11. Holders'
  BY <1>1, <1>2, <1>3, <1>4 DEF IInv, Lifetime, Holders, Moved, at
<1>12. OneMpsafe' /\ Quiet'
  BY <1>1, <1>2, <1>3, <1>4, <1>5 DEF IInv, Lifetime, OneMpsafe, Quiet, Moved, at
<1> QED BY <1>6, <1>9, <1>10, <1>11, <1>12 DEF Lifetime

\* wakeup_one(&tq->tq_running) of p.
LEMMA WakeupRunning ==
  ASSUME Places, NEW p \in Procs \ {Destroyer}, NEW l, wakeup_one_running(p, l)
  PROVE  /\ DOMAIN pc' = Procs /\ pc'[p] = l
         /\ \A q \in Procs \ {p, Destroyer} : pc'[q] = pc[q]
         /\ pc'[Destroyer] = IF pc[Destroyer] = "tqdestroy" THEN "destroy" ELSE pc[Destroyer]
BY Distinct DEF Places, wakeup_one_running, DestroyerSleeps, at

\* The last to leave is alone.
LEMMA AloneLeaving ==
  ASSUME IInv, NEW w \in Threads, at(w, "last")
  PROVE  Leaving = {w}
<1>1. w \in Leaving /\ w \notin Unborn
  BY DEF Leaving, Unborn, at
<1>2. \A x \in Leaving : x \in Threads /\ x \notin Unborn
  BY DEF Leaving, Unborn, at
<1>3. CASE tq_attr.mpsafe
  BY <1>1, <1>2, <1>3 DEF IInv, Lifetime, OneMpsafe
<1>4. CASE ~tq_attr.mpsafe
  BY <1>1, <1>4 DEF IInv, Lifetime, Holders, Leaving
<1> QED BY <1>3, <1>4

\* It wakes the destroyer, and is gone.
LEMMA LastLife ==
  ASSUME IInv, NEW w \in Threads, taskq_thread_last(w)
  PROVE  Lifetime'
<1> USE Distinct
<1>1. /\ DOMAIN pc' = Procs /\ pc'[w] = "dead"
      /\ \A q \in Procs \ {w, Destroyer} : pc'[q] = pc[q]
      /\ pc'[Destroyer] = IF at(w, "last") /\ pc[Destroyer] = "tqdestroy" THEN "destroy"
                          ELSE pc[Destroyer]
  <2>1. CASE at(w, "last")
    BY <2>1, WakeupRunning DEF IInv, taskq_thread_last
  <2>2. CASE ~at(w, "last")
    BY <2>2, Goto DEF IInv, taskq_thread_last, Moved
  <2> QED BY <2>1, <2>2
<1>2. UNCHANGED <<tq_attr, tq_running, freed, tq_state, tq_worklist>> /\ klock' = None
  BY DEF taskq_thread_last, KERNEL_UNLOCK, tq
<1>3. pc[w] \in {"last", "left"} /\ klock \in {None, w}
  BY DEF taskq_thread_last
<1>4. Counted' = Counted /\ Unborn' = Unborn /\ Left' = Left /\ Leaving' = Leaving \ {w}
  BY <1>1, <1>3 DEF Counted, Unborn, Left, Leaving, at
<1>5. pc'[Creator] = pc[Creator] /\ Calling' = Calling
  BY <1>1 DEF Calling
<1>6. Counting'
  BY <1>2, <1>4, <1>5 DEF IInv, Lifetime, Counting, Pending
<1>7. LastIsLast'
  BY <1>1, <1>2 DEF IInv, Lifetime, LastIsLast, at
<1>8. WokenLast'
  <2> SUFFICES ASSUME pc'[Destroyer] = "destroy" PROVE tq_running = 0 /\ Leaving' = {}
    BY <1>2 DEF WokenLast, at
  <2>1. CASE at(w, "last")
    BY <1>4, <2>1, AloneLeaving DEF IInv, Lifetime, LastIsLast
  <2>2. CASE ~at(w, "last")
    BY <1>1, <1>4, <2>2 DEF IInv, Lifetime, WokenLast, at
  <2> QED BY <2>1, <2>2
<1>9. States' /\ LeftEmpty'
  BY <1>1, <1>2, <1>4, <1>5 DEF IInv, Lifetime, States, LeftEmpty, at
<1>10. Holders'
  BY <1>1, <1>2, <1>3, <1>5, TaskqAssumption DEF IInv, Lifetime, Holders, at
<1>11. ~freed
  BY <1>3 DEF IInv, Lifetime, Quiet
<1>12. OneMpsafe' /\ Quiet'
  BY <1>2, <1>4, <1>5, <1>11 DEF IInv, Lifetime, OneMpsafe, Quiet, at
<1> QED BY <1>6, <1>7, <1>8, <1>9, <1>10, <1>12 DEF Lifetime

\* taskq_create_thread() frees the queue that was destroyed before it ran, or
\* counts the first thread.
LEMMA CreateLife ==
  ASSUME IInv, taskq_create_thread
  PROVE  Lifetime'
<1> USE Distinct
<1> DEFINE l == IF tq_state = "DESTROYED" THEN "done" ELSE "create"
<1>1. goto(Creator, l) /\ at(Creator, "deferred") /\ klock = None
  BY DEF taskq_create_thread
<1>2. Moved(Creator, l) /\ \A q \in Procs \ {Creator} : pc'[q] = pc[q]
  BY <1>1, Goto DEF IInv
<1>3. UNCHANGED <<tq_attr, tq_worklist, klock>>
  BY DEF taskq_create_thread
<1>4. Counted' = Counted /\ Unborn' = Unborn /\ Left' = Left /\ Leaving' = Leaving
      /\ Calling' = Calling
  BY <1>2 DEF Counted, Unborn, Left, Leaving, Calling, at
<1>5. Unborn = Threads /\ Left = {} /\ Leaving = {} /\ Counted = {}
  BY <1>1 DEF IInv, Lifetime, States, Unborn, Counted, Left, Leaving, at
<1>6. Holders' /\ OneMpsafe' /\ LastIsLast' /\ LeftEmpty'
  BY <1>1, <1>2, <1>3, <1>4, <1>5, TaskqAssumption
     DEF IInv, Lifetime, Holders, OneMpsafe, LastIsLast, LeftEmpty, Left, Unborn, Moved, at
<1>7. pc[Destroyer] \notin {"destroy", "tqdestroy"} /\ pc'[Destroyer] = pc[Destroyer]
  BY <1>1, <1>2 DEF IInv, Lifetime, States
<1>8. CASE tq_state = "DESTROYED"
  <2>1. freed' = TRUE /\ UNCHANGED <<tq_state, tq_running>>
    BY <1>8 DEF taskq_create_thread
  <2>2. Counting'
    BY <1>1, <1>2, <1>4, <1>8, <2>1 DEF IInv, Lifetime, Counting, Pending, Moved, at
  <2>3. States' /\ WokenLast'
    BY <1>2, <1>4, <1>5, <1>7, <1>8, <2>1 DEF IInv, Lifetime, States, WokenLast, Moved, at
  <2>4. Quiet'
    <3>1. at(Destroyer, "done")
      BY <1>7, <1>8 DEF IInv, Places, Lifetime, States, at
    <3>2. \A w \in Threads : pc'[w] = "none"
      BY <1>4, <1>5 DEF Unborn, at
    <3> QED BY <1>2, <1>7, <1>8, <3>1, <3>2 DEF Quiet, Moved, at
  <2> QED BY <1>6, <2>2, <2>3, <2>4 DEF Lifetime
<1>9. CASE tq_state # "DESTROYED"
  <2>1. tq_state' = "RUNNING" /\ tq_running' = tq_running + 1 /\ UNCHANGED freed
    BY <1>9 DEF taskq_create_thread, counted
  <2>2. Counting'
    BY <1>1, <1>2, <1>4, <1>9, <2>1, FiniteCounted
       DEF IInv, Lifetime, Counting, Pending, Moved, at
  <2>3. States' /\ WokenLast' /\ Quiet'
    BY <1>1, <1>2, <1>4, <1>5, <1>7, <1>9, <2>1
       DEF IInv, Lifetime, States, WokenLast, Quiet, Moved, at
  <2> QED BY <1>6, <2>2, <2>3 DEF Lifetime
<1> QED BY <1>8, <1>9
\* kthread_create() makes a thread, or fails.
LEMMA KthreadLife ==
  ASSUME IInv, kthread_create
  PROVE  Lifetime'
<1> USE Distinct
<1>1. at(Creator, "create") /\ klock = None /\ klock' = Creator
  BY DEF kthread_create, KERNEL_LOCK
<1>2. UNCHANGED <<tq_attr, tq_running, freed, tq_state, tq_worklist>>
  BY DEF kthread_create, tq
<1>3. ~freed
  BY <1>1 DEF IInv, Lifetime, Quiet, at
<1>4. CASE \E w \in Unborn : pc' = [pc EXCEPT ![w] = "start", ![Creator] = "created"]
  <2>1. PICK w \in Unborn : pc' = [pc EXCEPT ![w] = "start", ![Creator] = "created"]
    BY <1>4
  <2>2. w \in Threads /\ pc[w] = "none"
    BY DEF Unborn, at
  <2>3. /\ pc'[w] = "start" /\ pc'[Creator] = "created" /\ pc'[Destroyer] = pc[Destroyer]
        /\ \A q \in Procs \ {w, Creator} : pc'[q] = pc[q]
    BY <2>1, <2>2 DEF IInv, Places
  <2>4. /\ w \notin Counted /\ Counted' = Counted \cup {w} /\ Unborn' = Unborn \ {w}
        /\ Left' = Left /\ Leaving' = Leaving /\ Calling' = Calling
    BY <2>2, <2>3 DEF Counted, Unborn, Left, Leaving, Calling, at
  <2>5. Counting'
    <3>1. Cardinality(Counted') = Cardinality(Counted) + 1
      BY <2>2, <2>4, CountedMore
    <3>2. Pending = 1 /\ Pending' = 0
      BY <1>1, <2>3 DEF Pending, at
    <3> QED BY <1>2, <3>1, <3>2, FiniteCounted DEF IInv, Lifetime, Counting
  <2>6. LastIsLast' /\ WokenLast' /\ States' /\ LeftEmpty' /\ Quiet'
    BY <1>1, <1>2, <1>3, <2>3, <2>4
       DEF IInv, Lifetime, LastIsLast, WokenLast, States, LeftEmpty, Quiet, at
  <2>7. Holders'
    BY <1>1, <1>2, <2>2, <2>3, TaskqAssumption DEF IInv, Lifetime, Holders, at
  <2>8. OneMpsafe'
    BY <1>1, <1>2, <2>2, <2>3, <2>4 DEF IInv, Lifetime, OneMpsafe, at
  <2> QED BY <2>5, <2>6, <2>7, <2>8 DEF Lifetime
<1>5. CASE goto(Creator, "failed")
  <2>1. Moved(Creator, "failed") /\ \A q \in Procs \ {Creator} : pc'[q] = pc[q]
    BY <1>5, Goto DEF IInv
  <2>2. /\ Counted' = Counted /\ Unborn' = Unborn
        /\ Left' = Left /\ Leaving' = Leaving /\ Calling' = Calling
    BY <2>1 DEF Counted, Unborn, Left, Leaving, Calling, at
  <2>3. Counting'
    BY <1>1, <1>2, <2>1, <2>2 DEF IInv, Lifetime, Counting, Pending, Moved, at
  <2>4. LastIsLast' /\ WokenLast' /\ States' /\ LeftEmpty' /\ Quiet'
    BY <1>1, <1>2, <1>3, <2>1, <2>2
       DEF IInv, Lifetime, LastIsLast, WokenLast, States, LeftEmpty, Quiet, Moved, at
  <2>5. Holders' /\ OneMpsafe'
    BY <1>1, <1>2, <2>1, <2>2, TaskqAssumption
       DEF IInv, Lifetime, Holders, OneMpsafe, Moved, at
  <2> QED BY <2>3, <2>4, <2>5 DEF Lifetime
<1> QED
  <2>1. Unborn # {} => (CHOOSE w \in Unborn : TRUE) \in Unborn
    OBVIOUS
  <2> QED BY <1>4, <1>5, <2>1 DEF kthread_create

\* The creator goes on to the next thread, or is done.
LEMMA MoreLife ==
  ASSUME IInv, taskq_create_thread_more
  PROVE  Lifetime'
<1> USE Distinct
<1>1. at(Creator, "created") /\ klock = Creator /\ klock' = None
  BY DEF IInv, Lifetime, Holders, taskq_create_thread_more, KERNEL_UNLOCK, at
<1>2. UNCHANGED <<tq_attr, freed, tq_state, tq_worklist>>
  BY DEF taskq_create_thread_more
<1>3. PICK l \in {"create", "done"} :
        /\ goto(Creator, l)
        /\ l = "create" => tq_running' = tq_running + 1 /\ tq_running < tq_attr.nthreads
        /\ l = "done" => tq_running' = tq_running
  BY DEF taskq_create_thread_more, counted
<1>4. Moved(Creator, l) /\ \A q \in Procs \ {Creator} : pc'[q] = pc[q]
  BY <1>3, Goto DEF IInv
<1>5. /\ Counted' = Counted /\ Unborn' = Unborn
      /\ Left' = Left /\ Leaving' = Leaving /\ Calling' = Calling
  BY <1>4 DEF Counted, Unborn, Left, Leaving, Calling, at
<1>6. tq_running \in Nat /\ tq_running > 0
  <2>1. PICK w \in Threads : pc[w] = "start"
    BY <1>1 DEF IInv, Lifetime, Holders, at
  <2>2. w \in Counted
    BY <2>1 DEF Counted
  <2> QED BY <2>2, CountedShows DEF IInv, Lifetime
<1>7. Counting'
  BY <1>1, <1>3, <1>4, <1>5, FiniteCounted DEF IInv, Lifetime, Counting, Pending, Moved, at
<1>8. ~freed
  BY <1>1 DEF IInv, Lifetime, Quiet, at
<1>9. LastIsLast' /\ WokenLast' /\ States' /\ LeftEmpty' /\ Quiet'
  BY <1>1, <1>2, <1>4, <1>5, <1>6, <1>8
     DEF IInv, Lifetime, LastIsLast, WokenLast, States, LeftEmpty, Quiet, Moved, at
<1>10. Holders'
  BY <1>1, <1>2, <1>4, TaskqAssumption DEF IInv, Lifetime, Holders, Moved, at
<1>11. tq_attr.mpsafe => l = "done"
  BY <1>3, <1>6, TaskqAssumption DEF IInv, TypeOK
<1>12. OneMpsafe'
  BY <1>1, <1>2, <1>4, <1>5, <1>11 DEF IInv, Lifetime, OneMpsafe, Moved, at
<1> QED BY <1>7, <1>9, <1>10, <1>12 DEF Lifetime

\* The creator gives up, and may be the one the destroyer waits for.
LEMMA FailedLife ==
  ASSUME IInv, taskq_create_thread_failed
  PROVE  Lifetime'
<1> USE Distinct
<1>1. at(Creator, "failed") /\ klock = Creator /\ klock' = None
  BY DEF IInv, Lifetime, Holders, taskq_create_thread_failed, KERNEL_UNLOCK, at
<1>2. UNCHANGED <<tq_attr, freed, tq_state, tq_worklist>> /\ tq_running' = tq_running - 1
  BY DEF taskq_create_thread_failed
<1>3. /\ DOMAIN pc' = Procs /\ pc'[Creator] = "done"
      /\ \A q \in Procs \ {Creator, Destroyer} : pc'[q] = pc[q]
      /\ \/ pc'[Destroyer] = pc[Destroyer]
         \/ pc[Destroyer] = "tqdestroy" /\ pc'[Destroyer] = "destroy" /\ tq_running' = 0
  <2>1. CASE tq_state = "DESTROYED" /\ tq_running' = 0
    BY <2>1, WakeupRunning DEF IInv, taskq_create_thread_failed
  <2>2. CASE ~(tq_state = "DESTROYED" /\ tq_running' = 0)
    BY <2>2, Goto DEF IInv, taskq_create_thread_failed, Moved
  <2> QED BY <2>1, <2>2
<1>4. /\ Counted' = Counted /\ Unborn' = Unborn
      /\ Left' = Left /\ Leaving' = Leaving /\ Calling' = Calling
  BY <1>3 DEF Counted, Unborn, Left, Leaving, Calling, at
<1>5. tq_running \in Nat /\ tq_running > 0
  BY <1>1, CountedShows DEF IInv, Lifetime, at
<1>6. Counting'
  BY <1>1, <1>2, <1>3, <1>4, FiniteCounted DEF IInv, Lifetime, Counting, Pending, at
<1>7. Leaving = {}
  <2>1. \A w \in Leaving : w \in Threads /\ w \notin Unborn /\ pc[w] \in {"last", "left"}
    BY DEF Leaving, Unborn, at
  <2>2. CASE tq_attr.mpsafe
    BY <1>1, <2>1, <2>2 DEF IInv, Lifetime, OneMpsafe, at
  <2>3. CASE ~tq_attr.mpsafe
    BY <1>1, <2>1, <2>3 DEF IInv, Lifetime, Holders
  <2> QED BY <2>2, <2>3
<1>8. ~freed
  BY <1>1 DEF IInv, Lifetime, Quiet, at
<1>9. LastIsLast' /\ WokenLast'
  BY <1>3, <1>4, <1>5, <1>7 DEF IInv, Lifetime, LastIsLast, WokenLast, Leaving, at
<1>10. States' /\ LeftEmpty' /\ Quiet'
  BY <1>1, <1>2, <1>3, <1>4, <1>8 DEF IInv, Lifetime, States, LeftEmpty, Quiet, at
<1>11. Holders' /\ OneMpsafe'
  BY <1>1, <1>2, <1>3, <1>4, TaskqAssumption DEF IInv, Lifetime, Holders, OneMpsafe, at
<1> QED BY <1>6, <1>9, <1>10, <1>11 DEF Lifetime
\* When tq_running is 0 nobody is left.
LEMMA LoopLife ==
  ASSUME IInv, taskq_destroy_loop, tq_state # "CREATED", Calling = {},
         pc[Destroyer] \in {"idle", "destroy"}, tq_state' = "DESTROYED",
         UNCHANGED <<tq_attr, tq_running, tq_worklist, klock>>
  PROVE  /\ Lifetime'
         /\ freed' /\ ~freed /\ Started => tq_worklist = <<>>
<1> USE Distinct
<1>1. ~at(Creator, "deferred") /\ ~freed
  BY DEF IInv, Lifetime, States, Quiet, TypeOK, at
<1>2. tq_running \in Nat
  BY CountedShows DEF IInv, Lifetime
<1>3. CASE tq_running > 0
  <2>1. /\ DOMAIN pc' = Procs /\ pc'[Destroyer] = "tqdestroy" /\ freed' = freed
        /\ \A q \in Procs \ {Destroyer} :
             pc'[q] = pc[q] \/ (q \in Threads /\ pc[q] = "bored" /\ pc'[q] = "woken")
    BY <1>3 DEF taskq_destroy_loop, Bored, at
  <2>2. /\ Counted' = Counted /\ Unborn' = Unborn /\ Left' = Left /\ Leaving' = Leaving
        /\ Calling' = Calling /\ pc'[Creator] = pc[Creator]
    BY <2>1 DEF Counted, Unborn, Left, Leaving, Calling, at
  <2>3. Counting' /\ LastIsLast' /\ WokenLast' /\ LeftEmpty' /\ Quiet'
    BY <1>1, <2>1, <2>2 DEF IInv, Lifetime, Counting, Pending, LastIsLast, WokenLast,
                            LeftEmpty, Quiet, at
  <2>4. States' /\ OneMpsafe'
    BY <1>1, <2>1, <2>2 DEF IInv, Lifetime, States, OneMpsafe, at
  <2>5. Holders'
    BY <2>1, <2>2 DEF IInv, Lifetime, Holders, at
  <2> QED BY <1>1, <2>1, <2>3, <2>4, <2>5 DEF Lifetime
<1>4. CASE tq_running = 0
  <2>1. freed' = TRUE /\ goto(Destroyer, "done")
    BY <1>4 DEF taskq_destroy_loop
  <2>2. Moved(Destroyer, "done") /\ \A q \in Procs \ {Destroyer} : pc'[q] = pc[q]
    BY <2>1, Goto DEF IInv
  <2>3. /\ Counted' = Counted /\ Unborn' = Unborn /\ Left' = Left /\ Leaving' = Leaving
        /\ Calling' = Calling /\ pc'[Creator] = pc[Creator]
    BY <2>2 DEF Counted, Unborn, Left, Leaving, Calling, at
  <2>4. Counted = {} /\ pc[Creator] \notin {"create", "failed"}
    BY <1>4, CountedShows DEF IInv, Lifetime
  <2>5. pc[Creator] = "done"
    BY <1>1, <2>4 DEF IInv, Places, Lifetime, Holders, Counted, at
  <2>6. Leaving = {}
    BY DEF IInv, Lifetime, LeftEmpty, WokenLast, Left, Leaving, at
  <2>7. \A w \in Threads : pc[w] \in {"none", "dead"}
    BY <2>4, <2>6 DEF IInv, Places, Counted, Leaving
  <2>8. Started => tq_worklist = <<>>
    BY <2>7 DEF Started, IInv, Lifetime, LeftEmpty, Left
  <2>9. Counting' /\ LastIsLast' /\ WokenLast' /\ LeftEmpty' /\ Quiet'
    BY <2>2, <2>3, <2>5, <2>7 DEF IInv, Lifetime, Counting, Pending, LastIsLast, WokenLast,
                                  LeftEmpty, Quiet, Moved, at
  <2>10. States' /\ OneMpsafe'
    BY <1>1, <2>2, <2>3 DEF IInv, Lifetime, States, OneMpsafe, Moved, at
  <2>11. Holders'
    BY <2>2, <2>3 DEF IInv, Lifetime, Holders, at
  <2> QED BY <2>8, <2>9, <2>10, <2>11 DEF Lifetime
<1> QED BY <1>2, <1>3, <1>4

LEMMA DestroyLife ==
  ASSUME IInv, taskq_destroy \/ taskq_destroy_woken
  PROVE  Lifetime'
<1> USE Distinct
<1>1. CASE taskq_destroy_woken
  <2>1. tq_state = "DESTROYED" /\ Calling = {}
    BY <1>1 DEF IInv, Lifetime, States, taskq_destroy_woken, at
  <2> QED BY <1>1, <2>1, LoopLife DEF taskq_destroy_woken, at
<1>2. CASE taskq_destroy /\ ~still_deferred
  BY <1>2, LoopLife DEF taskq_destroy, still_deferred, at
<1>3. CASE taskq_destroy /\ still_deferred
  <2>1. /\ tq_state = "CREATED" /\ tq_state' = "DESTROYED" /\ at(Destroyer, "idle")
        /\ Calling = {} /\ goto(Destroyer, "done")
        /\ UNCHANGED <<freed, tq_attr, tq_running, tq_worklist, klock>>
    BY <1>3 DEF taskq_destroy, still_deferred
  <2>2. Moved(Destroyer, "done") /\ \A q \in Procs \ {Destroyer} : pc'[q] = pc[q]
    BY <2>1, Goto DEF IInv
  <2>3. /\ Counted' = Counted /\ Unborn' = Unborn /\ Left' = Left /\ Leaving' = Leaving
        /\ Calling' = Calling /\ pc'[Creator] = pc[Creator]
    BY <2>2 DEF Counted, Unborn, Left, Leaving, Calling, at
  <2>4. ~freed
    BY <2>1 DEF IInv, Lifetime, Quiet, at
  <2>5. Counting' /\ LastIsLast' /\ WokenLast' /\ LeftEmpty' /\ Quiet'
    BY <2>1, <2>2, <2>3, <2>4 DEF IInv, Lifetime, Counting, Pending, LastIsLast, WokenLast,
                                  LeftEmpty, Quiet, Moved, at
  <2>6. States' /\ OneMpsafe'
    BY <2>1, <2>2, <2>3 DEF IInv, Lifetime, States, OneMpsafe, Moved, at
  <2>7. Holders'
    BY <2>1, <2>2, <2>3 DEF IInv, Lifetime, Holders, at
  <2> QED BY <2>5, <2>6, <2>7 DEF Lifetime
<1> QED BY <1>1, <1>2, <1>3

(***************************************************************************)
(* The list and the flags.                                                 *)
(***************************************************************************)
Listed == tq_worklist \in Seq(Tasks) /\ t_flags \subseteq Tasks /\ FlagsMatchList

LEMMA ListedKept ==
  ASSUME IInv, Next
  PROVE  Listed'
<1>1. Listed
  BY DEF IInv, TypeOK, Listed
<1>2. CASE UNCHANGED <<tq_worklist, t_flags>>
  BY <1>1, <1>2 DEF Listed, FlagsMatchList
<1>3. ASSUME NEW c \in Callers, task_add_locked(c) PROVE Listed'
  <2>1. work[c] \in Tasks
    BY <1>3 DEF IInv, HasTask, task_add_locked, at
  <2>2. CASE work[c] \in t_flags
    BY <1>2, <1>3, <2>2 DEF task_add_locked, on_queue
  <2>3. CASE work[c] \notin t_flags
    <3>1. tq_worklist' = Append(tq_worklist, work[c]) /\ t_flags' = t_flags \cup {work[c]}
      BY <1>3, <2>3 DEF task_add_locked, on_queue
    <3>2. /\ tq_worklist' \in Seq(Tasks) /\ IsInjective(tq_worklist')
          /\ ToSet(tq_worklist') = ToSet(tq_worklist) \cup {work[c]}
      BY <1>1, <2>1, <2>3, <3>1, AppendOnce DEF Listed, FlagsMatchList
    <3> QED BY <1>1, <2>1, <3>1, <3>2 DEF Listed, FlagsMatchList
  <2> QED BY <2>2, <2>3
<1>4. ASSUME NEW c \in Callers, task_del_locked(c) PROVE Listed'
  <2>1. CASE ~on_queue(c)
    BY <1>2, <1>4, <2>1 DEF task_del_locked
  <2>2. CASE on_queue(c)
    <3>1. tq_worklist' = Without(tq_worklist, {work[c]}) /\ t_flags' = t_flags \ {work[c]}
      BY <1>4, <2>2 DEF task_del_locked
    <3>2. /\ tq_worklist' \in Seq(Tasks) /\ IsInjective(tq_worklist')
          /\ ToSet(tq_worklist') = ToSet(tq_worklist) \ {work[c]}
      BY <1>1, <3>1, WithoutProperties DEF Listed, FlagsMatchList
    <3> QED BY <1>1, <3>1, <3>2 DEF Listed, FlagsMatchList
  <2> QED BY <2>1, <2>2
<1>5. ASSUME NEW w \in Threads, taskq_next_work(w) PROVE Listed'
  <2>1. tq_worklist # <<>> /\ tq_worklist' = Tail(tq_worklist)
        /\ t_flags' = t_flags \ {Head(tq_worklist)}
    BY <1>5 DEF taskq_next_work
  <2>2. /\ tq_worklist' \in Seq(Tasks) /\ IsInjective(tq_worklist')
        /\ ToSet(tq_worklist') = ToSet(tq_worklist) \ {Head(tq_worklist)}
    BY <1>1, <2>1, TailOnce DEF Listed, FlagsMatchList
  <2> QED BY <1>1, <2>1, <2>2 DEF Listed, FlagsMatchList
<1>6. CASE taskq_destroy \/ Owner
  BY <1>2, <1>6 DEF taskq_destroy, Owner, taskq_create_thread, kthread_create,
        taskq_create_thread_more, taskq_create_thread_failed, taskq_destroy_woken
<1>7. ASSUME NEW w \in Threads, Thread(w), ~taskq_next_work(w) PROVE Listed'
  BY <1>2, <1>7 DEF Thread, taskq_thread, taskq_next_work_wakeup, taskq_next_work_sleep,
        taskq_next_work_woken, taskq_thread_run, taskq_thread_exit, taskq_thread_last
<1>8. ASSUME NEW c \in Callers, NEW t \in Tasks, task_add(c, t) \/ task_del(c, t)
      PROVE  Listed'
  BY <1>2, <1>8 DEF task_add, task_del
<1>9. ASSUME NEW c \in Callers, task_add_wakeup(c) PROVE Listed'
  BY <1>2, <1>9 DEF task_add_wakeup
<1> QED BY <1>3, <1>4, <1>5, <1>6, <1>7, <1>8, <1>9 DEF Next, CallerReturns
(***************************************************************************)
(* Places and types.                                                       *)
(***************************************************************************)
Placed == Places /\ HasTask /\ work \in [Threads \cup Callers -> Tasks \cup {None}]
Rest ==
  /\ tq_attr \in Queues /\ tq_state \in {"CREATED", "RUNNING", "DESTROYED"}
  /\ owed \subseteq Tasks /\ freed \in BOOLEAN
  /\ klock \in Threads \cup {Creator, Destroyer, None}

LEMMA PlacedByCaller ==
  ASSUME IInv, NEW c \in Callers,
         CallerReturns(c) \/ \E t \in Tasks : task_add(c, t) \/ task_del(c, t)
  PROVE  Placed' /\ Rest'
<1> USE Distinct
<1>1. /\ work \in [Threads \cup Callers -> Tasks \cup {None}]
      /\ Places /\ HasTask /\ Rest
  BY DEF IInv, TypeOK, Rest
<1>2. ASSUME NEW t \in Tasks, task_add(c, t) PROVE Placed' /\ Rest'
  <2>1. PICK l \in {"idle", "add"} :
          Moved(c, l) /\ (l = "add" => work' = [work EXCEPT ![c] = t])
                      /\ (l = "idle" => work' = [work EXCEPT ![c] = None])
    BY <1>1, <1>2, Goto DEF task_add
  <2>2. Places'
    BY <1>1, <2>1 DEF Places, Moved
  <2>3. HasTask' /\ work' \in [Threads \cup Callers -> Tasks \cup {None}]
    BY <1>1, <2>1 DEF HasTask, Moved
  <2>4. Rest'
    BY <1>1, <1>2 DEF Rest, task_add, tq
  <2> QED BY <2>2, <2>3, <2>4 DEF Placed
<1>3. ASSUME NEW t \in Tasks, task_del(c, t) PROVE Placed' /\ Rest'
  <2>1. Moved(c, "del") /\ work' = [work EXCEPT ![c] = t]
    BY <1>1, <1>3, Goto DEF task_del
  <2>2. Places'
    BY <1>1, <2>1 DEF Places, Moved
  <2>3. HasTask' /\ work' \in [Threads \cup Callers -> Tasks \cup {None}]
    BY <1>1, <2>1 DEF HasTask, Moved
  <2>4. Rest'
    BY <1>1, <1>3 DEF Rest, task_del, tq
  <2> QED BY <2>2, <2>3, <2>4 DEF Placed
<1>4. CASE CallerReturns(c)
  <2>1. PICK l \in {"idle", "wakeup"} :
          Moved(c, l) /\ (work' = work \/ work' = [work EXCEPT ![c] = None])
    <3>1. CASE task_add_wakeup(c)
      BY <1>1, <3>1, WakeupOne DEF task_add_wakeup, at
    <3>2. CASE task_add_locked(c) \/ task_del_locked(c)
      BY <1>1, <3>2, Goto DEF task_add_locked, task_del_locked
    <3> QED BY <1>4, <3>1, <3>2 DEF CallerReturns
  <2>2. Places'
    BY <1>1, <2>1 DEF Places, Moved
  <2>3. HasTask' /\ work' \in [Threads \cup Callers -> Tasks \cup {None}]
    BY <1>1, <2>1 DEF HasTask, Moved
  <2>4. Rest'
    BY <1>1, <1>4 DEF Rest, CallerReturns, task_add_wakeup, task_add_locked, task_del_locked, tq
  <2> QED BY <2>2, <2>3, <2>4 DEF Placed
<1> QED BY <1>2, <1>3, <1>4

LEMMA PlacedByThread ==
  ASSUME IInv, NEW w \in Threads, Thread(w)
  PROVE  Placed' /\ Rest'
<1> USE Distinct
<1>1. /\ work \in [Threads \cup Callers -> Tasks \cup {None}]
      /\ Places /\ HasTask /\ Rest
  BY DEF IInv, TypeOK, Rest
<1>2. CASE taskq_thread_last(w)
  <2>1. /\ DOMAIN pc' = Procs /\ pc'[w] = "dead"
        /\ \A q \in Procs \ {w, Destroyer} : pc'[q] = pc[q]
        /\ pc'[Destroyer] \in {"destroy", pc[Destroyer]}
    <3>1. CASE at(w, "last")
      BY <1>1, <1>2, <3>1, WakeupRunning DEF taskq_thread_last
    <3>2. CASE ~at(w, "last")
      BY <1>1, <1>2, <3>2, Goto DEF taskq_thread_last, Moved
    <3> QED BY <3>1, <3>2
  <2>2. Places'
    BY <1>1, <2>1 DEF Places
  <2>3. HasTask' /\ work' = work
    BY <1>1, <1>2, <2>1 DEF HasTask, taskq_thread_last
  <2>4. Rest'
    BY <1>1, <1>2 DEF Rest, taskq_thread_last, KERNEL_UNLOCK, tq
  <2> QED BY <1>1, <2>2, <2>3, <2>4 DEF Placed
<1>3. CASE ~taskq_thread_last(w)
  <2>1. \E l \in {"next", "wakeup", "run", "bored", "woken", "last", "left"} : Moved(w, l)
    <3>1. CASE taskq_next_work_wakeup(w)
      BY <1>1, <3>1, WakeupOne DEF taskq_next_work_wakeup, at
    <3>2. CASE taskq_thread(w) \/ taskq_next_work(w) \/ taskq_next_work_sleep(w)
      BY <1>1, <3>2, Goto DEF taskq_thread, taskq_next_work, taskq_next_work_sleep
    <3>3. CASE taskq_next_work_woken(w) \/ taskq_thread_run(w) \/ taskq_thread_exit(w)
      BY <1>1, <3>3, Goto DEF taskq_next_work_woken, taskq_thread_run, taskq_thread_exit
    <3> QED BY <1>3, <3>1, <3>2, <3>3 DEF Thread
  <2>2. Places'
    BY <1>1, <2>1 DEF Places, Moved
  <2>3. \E t \in Tasks \cup {None} : work' = work \/ work' = [work EXCEPT ![w] = t]
    <3>1. CASE taskq_next_work(w)
      <4>1. Head(tq_worklist) \in Tasks
        BY <3>1 DEF IInv, TypeOK, taskq_next_work
      <4> QED BY <3>1, <4>1 DEF taskq_next_work
    <3>2. CASE ~taskq_next_work(w)
      BY <1>3, <3>2 DEF Thread, taskq_thread, taskq_next_work_wakeup, taskq_next_work_sleep,
            taskq_next_work_woken, taskq_thread_run, taskq_thread_exit
    <3> QED BY <3>1, <3>2
  <2>4. HasTask' /\ work' \in [Threads \cup Callers -> Tasks \cup {None}]
    BY <1>1, <2>1, <2>3 DEF HasTask, Moved
  <2>5. Rest'
    BY <1>1, <1>3 DEF Rest, Thread, taskq_thread, taskq_next_work, taskq_next_work_wakeup,
          taskq_next_work_sleep, taskq_next_work_woken, taskq_thread_run, taskq_thread_exit,
          KERNEL_LOCK, drop, tq
  <2> QED BY <2>2, <2>4, <2>5 DEF Placed
<1> QED BY <1>2, <1>3

LEMMA PlacedByOwner ==
  ASSUME IInv, taskq_destroy \/ Owner
  PROVE  Placed' /\ Rest'
<1> USE Distinct
<1>1. /\ work \in [Threads \cup Callers -> Tasks \cup {None}]
      /\ Places /\ HasTask /\ Rest
  BY DEF IInv, TypeOK, Rest
<1>2. work' = work /\ owed' = owed
  BY DEF taskq_destroy, Owner, taskq_create_thread, kthread_create, taskq_create_thread_more,
         taskq_create_thread_failed, taskq_destroy_woken
<1>3. Rest'
  BY <1>1, <1>2
     DEF Rest, taskq_destroy, Owner, taskq_create_thread, kthread_create,
         taskq_create_thread_more, taskq_create_thread_failed, taskq_destroy_woken,
         taskq_destroy_loop, KERNEL_LOCK, KERNEL_UNLOCK, tq
<1>4. Places' /\ \A c \in Callers : pc'[c] = pc[c]
  <2>1. CASE taskq_destroy \/ taskq_destroy_woken
    <3>1. \E l \in {"tqdestroy", "done"} : Moved(Destroyer, l)
      <4>1. CASE taskq_destroy_loop /\ tq_running > 0
        BY <4>1 DEF taskq_destroy_loop, Bored, at, Moved
      <4>2. CASE goto(Destroyer, "done")
        BY <1>1, <4>2, Goto
      <4> QED BY <2>1, <4>1, <4>2 DEF taskq_destroy, taskq_destroy_woken, taskq_destroy_loop
    <3> QED BY <1>1, <3>1 DEF Places, Moved
  <2>2. CASE taskq_create_thread \/ taskq_create_thread_more
    <3>1. \E l \in {"create", "done"} : Moved(Creator, l)
      BY <1>1, <2>2, Goto DEF taskq_create_thread, taskq_create_thread_more
    <3> QED BY <1>1, <3>1 DEF Places, Moved
  <2>3. CASE kthread_create
    <3>1. CASE Unborn # {} /\ pc' = [pc EXCEPT ![CHOOSE w \in Unborn : TRUE] = "start",
                                               ![Creator] = "created"]
      <4>1. PICK w \in Unborn : pc' = [pc EXCEPT ![w] = "start", ![Creator] = "created"]
        BY <3>1
      <4>2. w \in Threads
        BY DEF Unborn
      <4> QED BY <1>1, <4>1, <4>2 DEF Places
    <3>2. CASE goto(Creator, "failed")
      BY <1>1, <3>2, Goto DEF Places, Moved
    <3> QED BY <2>3, <3>1, <3>2 DEF kthread_create
  <2>4. CASE taskq_create_thread_failed
    <3>1. CASE wakeup_one_running(Creator, "done")
      BY <1>1, <3>1, WakeupRunning DEF Places
    <3>2. CASE goto(Creator, "done")
      BY <1>1, <3>2, Goto DEF Places, Moved
    <3> QED BY <2>4, <3>1, <3>2 DEF taskq_create_thread_failed
  <2> QED BY <2>1, <2>2, <2>3, <2>4 DEF Owner
<1>5. HasTask'
  BY <1>1, <1>2, <1>4 DEF HasTask
<1> QED BY <1>1, <1>2, <1>3, <1>4, <1>5 DEF Placed

(***************************************************************************)
(* The theorems.                                                           *)
(***************************************************************************)
LEMMA InvInit == Init => IInv
<1> SUFFICES ASSUME Init PROVE IInv
  OBVIOUS
<1> USE Distinct
<1>1. /\ \A w \in Threads : pc[w] = "none"
      /\ \A c \in Callers : pc[c] = "idle"
      /\ pc[Creator] = "deferred" /\ pc[Destroyer] = "idle" /\ DOMAIN pc = Procs
  BY DEF Init
<1>2. TypeOK /\ Places /\ HasTask /\ FlagsMatchList
  <2>1. TypeOK
    <3>1. tq_worklist \in Seq(Tasks) /\ tq_running \in Nat
      BY DEF Init
    <3>2. freed \in BOOLEAN
      BY Zenon DEF Init
    <3>3. work \in [Threads \cup Callers -> Tasks \cup {None}]
      BY DEF Init
    <3> QED BY <3>1, <3>2, <3>3 DEF Init, TypeOK
  <2>2. Places /\ HasTask
    BY <1>1 DEF Places, HasTask
  <2>3. FlagsMatchList
    BY DEF Init, FlagsMatchList, IsInjective, ToSet
  <2> QED BY <2>1, <2>2, <2>3
<1>3. Counted = {} /\ Unborn = Threads /\ Left = {} /\ Leaving = {} /\ Calling = {}
  BY <1>1 DEF Counted, Unborn, Left, Leaving, Calling, at
<1>4. Counting
  BY <1>1, <1>3, FS_EmptySet DEF Counting, Pending, Init
<1>5. LastIsLast /\ States /\ LeftEmpty /\ Holders /\ OneMpsafe /\ WokenLast /\ Quiet
  BY <1>1, <1>3, TaskqAssumption
     DEF Init, LastIsLast, States, LeftEmpty, Holders, OneMpsafe, WokenLast, Quiet, at
<1> QED BY <1>2, <1>4, <1>5 DEF IInv, Lifetime

LEMMA InvNext == IInv /\ [Next]_vars => IInv'
<1> SUFFICES ASSUME IInv, [Next]_vars PROVE IInv'
  OBVIOUS
<1>1. CASE Next
  <2>1. Lifetime'
    <3>1. ASSUME NEW w \in Threads, Thread(w) PROVE Lifetime'
      BY <3>1, TakenLife, LockingLife, ExitLife, LastLife DEF Thread
    <3>2. CASE taskq_destroy \/ Owner
      BY <3>2, CreateLife, KthreadLife, MoreLife, FailedLife, DestroyLife DEF Owner
    <3> QED BY <1>1, <3>1, <3>2, CallerLife DEF Next
  <2>2. Placed' /\ Rest'
    BY <1>1, PlacedByCaller, PlacedByThread, PlacedByOwner DEF Next
  <2>3. Listed'
    BY <1>1, ListedKept
  <2>4. Counting'
    BY <2>1 DEF Lifetime
  <2>5. (tq_running \in Nat)'
    BY <2>4, CountedShows, PTL
  <2> QED BY <2>1, <2>2, <2>3, <2>5 DEF IInv, Placed, Rest, Listed, TypeOK
<1>2. CASE UNCHANGED vars
  BY <1>2 DEF vars, tq, IInv, TypeOK, Places, HasTask, FlagsMatchList, Lifetime, Counting,
        Pending, Counted, LastIsLast, States, Unborn, Calling, LeftEmpty, Left, Holders,
        OneMpsafe, WokenLast, Leaving, Quiet, at
<1> QED BY <1>1, <1>2

\* The inductive invariant.
THEOREM Invariance == Spec => []IInv
BY InvInit, InvNext, PTL DEF Spec

\* Every variable keeps its type; in particular tq_running, which counts down
\* at three places, does not wrap.
THEOREM TypeCorrect == Spec => []TypeOK
<1>1. IInv => TypeOK
  BY DEF IInv
<1> QED BY <1>1, Invariance, PTL

\* TASK_ONQUEUE and the list agree for any number of callers that look at the
\* flag before they take the mutex.
THEOREM FlagsCorrect == Spec => []FlagsMatchList
<1>1. IInv => FlagsMatchList
  BY DEF IInv
<1> QED BY <1>1, Invariance, PTL

\* taskq_destroy() and taskq_create_thread() free a queue only when neither
\* they nor any thread will look into it again.
THEOREM FreedUnused == Spec => []NoUseAfterFree
<1>1. IInv => NoUseAfterFree
  <2> SUFFICES ASSUME IInv, freed PROVE ~Referenced
    BY DEF NoUseAfterFree
  <2>1. Quiet /\ States /\ Calling = {}
    BY DEF IInv, Lifetime, Quiet, States, at
  <2> QED BY <2>1 DEF Quiet, Referenced, at
<1> QED BY <1>1, Invariance, PTL

\* The queue is freed by its last user, and then nothing is left on the list,
\* unless it never had a thread.
THEOREM FreedDrained == Spec => DrainedFirst
<1>1. IInv /\ [Next]_vars => [freed' /\ ~freed /\ Started => tq_worklist = <<>>]_vars
  <2> SUFFICES ASSUME IInv, Next, freed', ~freed, Started PROVE tq_worklist = <<>>
    OBVIOUS
  <2>1. CASE taskq_create_thread
    BY <2>1 DEF IInv, Lifetime, States, taskq_create_thread, Started, Unborn, at
  <2>2. CASE taskq_destroy_woken
    <3>1. tq_state = "DESTROYED" /\ Calling = {}
      BY <2>2 DEF IInv, Lifetime, States, taskq_destroy_woken, at
    <3> QED BY <2>2, <3>1, LoopLife DEF taskq_destroy_woken, at
  <2>3. CASE taskq_destroy
    BY <2>3, LoopLife DEF taskq_destroy, still_deferred, at
  <2>4. CASE ~(taskq_create_thread \/ taskq_destroy_woken \/ taskq_destroy)
    BY <2>4 DEF Next, CallerReturns, task_add_locked, task_add_wakeup, task_del_locked,
          task_add, task_del, Thread, taskq_thread, taskq_next_work, taskq_next_work_wakeup,
          taskq_next_work_sleep, taskq_next_work_woken, taskq_thread_run, taskq_thread_exit,
          taskq_thread_last, Owner, kthread_create, taskq_create_thread_more,
          taskq_create_thread_failed, tq
  <2> QED BY <2>1, <2>2, <2>3, <2>4
<1> QED BY <1>1, Invariance, PTL DEF Spec, DrainedFirst
=============================================================================
