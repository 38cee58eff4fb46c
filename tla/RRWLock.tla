------------------------------ MODULE RRWLock ------------------------------
(***************************************************************************)
(* The recursive locks of kern/kern_rwlock.c (rrw_enter(), rrw_exit()) and *)
(* lockmgr() of kern/kern_lock.c, the only user of them, on top of the     *)
(* rwlock they contain.  A behaviour is that of one lock: either a plain   *)
(* rwlock, or one inside a struct lock that is only used by lockmgr().     *)
(*                                                                         *)
(* rrwl_wcnt is not protected by anything but the rwlock, and readers      *)
(* store to it as well.                                                    *)
(***************************************************************************)
EXTENDS RWLock

CONSTANTS
  Requests,   \* the sets of flags callers pass to lockmgr() to get the lock
  MaxDepth    \* bound: how deep exclusive requests nest

ASSUME RequestsAssumption ==
  /\ \A lk \in Requests :
       /\ lk \subseteq {"SHARED", "EXCLUSIVE", "DRAIN", "RECURSEFAIL", "NOWAIT"}
       /\ "SHARED" \in lk <=> lk \cap {"EXCLUSIVE", "DRAIN"} = {}
  /\ {{}, {"NOSLEEP"}} \subseteq Flags
  /\ MaxDepth \in Nat \ {0}

VARIABLES
  recursive,  \* is this the rwlock in a struct lock?
  rrwl_wcnt,
  entering,   \* the threads between the call of rw_enter() in rrw_enter() and
              \* the store to rrwl_wcnt
  depth       \* history: requests granted to each thread and not released

rrvars == <<vars, recursive, rrwl_wcnt, entering, depth>>

RRInit ==
  /\ Init
  /\ recursive \in BOOLEAN
  /\ rrwl_wcnt = 0                                               \* lockinit()
  /\ entering = {}
  /\ depth = [p \in Procs |-> 0]

\* RWLOCK_OWNER(&rrwl->rrwl_lock) == RW_PROC(curproc)
owns(p) == rwl_owner.hi = p

\* lockmgr()'s translation of its flags.
rwop(lk)    == IF "SHARED" \in lk THEN "RW_READ" ELSE "RW_WRITE"
rwflags(lk) == IF "NOWAIT" \in lk THEN {"NOSLEEP"} ELSE {}

\* lockmgr(lkp, lk) to get the lock: rrw_enter() counts up for the writer,
\* whatever it asks for, and calls rw_enter() for anyone else.  A thread that
\* has the lock LK_SHARED does not ask again: it could wait for itself.
lockmgr(p, lk) ==
  /\ recursive /\ At(p, "idle") /\ p \notin entering /\ held[p] # "read"
  /\ \/ /\ owns(p) /\ "RECURSEFAIL" \notin lk /\ depth[p] < MaxDepth
        /\ rrwl_wcnt' = rrwl_wcnt + 1
        /\ depth' = [depth EXCEPT ![p] = @ + 1]
        /\ UNCHANGED <<vars, entering>>
     \/ /\ owns(p) /\ "RECURSEFAIL" \in lk                       \* EDEADLK
        /\ UNCHANGED <<vars, entering, rrwl_wcnt, depth>>
     \/ /\ ~owns(p)
        /\ rw_enter(p, rwop(lk), rwflags(lk))
        /\ entering' = entering \cup {p}
        /\ UNCHANGED <<rrwl_wcnt, depth>>
  /\ UNCHANGED recursive

\* Mutant: the count is set even if rw_enter() has failed.
count_anyway(p) == 1

\* The count after rw_enter() has returned to p.
count(p) == IF held[p] # "none" THEN 1 ELSE rrwl_wcnt

\* rw_enter() returns to rrw_enter().
rrw_enter(p) ==
  /\ p \in entering /\ At(p, "idle")
  /\ rrwl_wcnt' = count(p)
  /\ depth' = [depth EXCEPT ![p] = IF held[p] # "none" THEN 1 ELSE 0]
  /\ entering' = entering \ {p}
  /\ UNCHANGED <<vars, recursive>>

\* lockmgr(lkp, LK_RELEASE): rrw_exit().
rrw_exit(p) ==
  /\ recursive /\ At(p, "idle") /\ p \notin entering /\ depth[p] > 0
  /\ depth' = [depth EXCEPT ![p] = @ - 1]
  /\ rrwl_wcnt' = IF owns(p) THEN rrwl_wcnt - 1 ELSE rrwl_wcnt
  /\ IF owns(p) /\ rrwl_wcnt' # 0 THEN UNCHANGED vars ELSE rw_exit_call(p)
  /\ UNCHANGED <<recursive, entering>>

RRNext ==
  \/ \E p \in Procs :
       \/ ~recursive /\ (Call(p) \/ Release(p)) /\ UNCHANGED <<recursive, rrwl_wcnt, entering, depth>>
       \/ (Step(p) \/ Signal(p)) /\ UNCHANGED <<recursive, rrwl_wcnt, entering, depth>>
       \/ rrw_enter(p) \/ rrw_exit(p)
  \/ \E p \in Procs, lk \in Requests : lockmgr(p, lk)

RRSpec == RRInit /\ [][RRNext]_rrvars

\* Runnable threads run, and whoever holds the lock gives it up: the caller of
\* lockmgr() may nest requests as long as it likes, but not for ever.
RRFairness ==
  \A p \in Procs :
    /\ WF_rrvars(Step(p) /\ UNCHANGED <<recursive, rrwl_wcnt, entering, depth>>)
    /\ WF_rrvars(~recursive /\ Release(p) /\ UNCHANGED <<recursive, rrwl_wcnt, entering, depth>>)
    /\ WF_rrvars(rrw_enter(p))
    /\ WF_rrvars(rrw_exit(p)) /\ SF_rrvars(depth[p] = 1 /\ rrw_exit(p))
RRFairSpec == RRSpec /\ RRFairness

(***************************************************************************)
(* Properties.                                                             *)
(***************************************************************************)

\* While a thread has the lock LK_EXCLUSIVE, rrwl_wcnt is the number of its
\* requests that are not released (so that the KASSERT in rrw_exit() holds and
\* only the last release gives the lock up), although every reader, and every
\* thread whose request comes back, passes by the same counter.
RecursionBalanced ==
  \A p \in Procs : recursive /\ held[p] = "write" /\ p \notin entering /\ At(p, "idle")
                     => rrwl_wcnt = depth[p] /\ depth[p] > 0

\* A thread that has gone to sleep on the lock, whatever signals stop and
\* continue it there, is taken off the sleep queue, if holders release.
QueuedWakes ==
  \A p \in Procs : pc[p] = "asleep" /\ p_wchan[p] ~> ~p_wchan[p]
=============================================================================
