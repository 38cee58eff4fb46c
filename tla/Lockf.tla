------------------------------- MODULE Lockf --------------------------------
(***************************************************************************)
(* Advisory locks on a file: src/kern/vfs_lockf.c, src/sys/lockf.h, and    *)
(* the calls that use them, fcntl(), flock() and close(), of               *)
(* src/kern/kern_descrip.c and src/kern/vfs_vnops.c.                       *)
(*                                                                         *)
(* The locks of a file are a list, of all owners: a process, that is its   *)
(* struct filedesc, for fcntl(), a struct file for flock().  A thread that *)
(* is blocked is in the blocked list of one lock, blk, where the code has  *)
(* its struct lockf, whose lf_next then points to the lock that blocks it; *)
(* it sleeps for as long as it is there.  All of this runs under the       *)
(* kernel lock, and sleeps only in the tsleep() of lf_setlock(); an action *)
(* is what runs up to it, or to the return.                                *)
(*                                                                         *)
(* Left out: lf_getlock(), which only reads; root, who has no limit;       *)
(* pool_get() that sleeps; the order of a blocked list, which is always    *)
(* woken as a whole.  Offsets do not overflow.                             *)
(***************************************************************************)
EXTENDS Integers, Queue

CONSTANTS Threads, Procs, Files,
          Requests,         \* Requests[t]: the requests that thread t may make
          FileSize,         \* for SEEK_END
          maxlocksperuid,   \* all locks are of one user
          maxlockdepth,
          IdIsProc,         \* is lf_id a struct proc?  FALSE: see EDEADLK
          LastByte              \* bytes 0 .. LastByte are told apart

Owners == Procs \cup Files
EOF_ == -1

(* A request: F_SETLK or F_UNLCK, by a process or a file, in a mode, of a  *)
(* struct flock, with or without F_WAIT.                                   *)
Request == [op : {"F_SETLK", "F_UNLCK"}, id : Owners, type : {"F_RDLCK", "F_WRLCK"},
            whence : {"SEEK_SET", "SEEK_END"}, l_start : Int, l_len : Int, wait : BOOLEAN]

ASSUME LockfAssumption ==
    /\ Procs \cap Files = {}
    /\ Requests \in [Threads -> SUBSET Request]
    /\ \A t \in Threads : \A r \in Requests[t] :     \* flock() locks all of the file
         r.id \in Files => r.whence = "SEEK_SET" /\ r.l_start = 0 /\ r.l_len = 0
    /\ {FileSize, maxlocksperuid, maxlockdepth, LastByte} \subseteq Nat
    /\ IdIsProc \in BOOLEAN

VARIABLES locks,     \* the list of locks of the file
          th,        \* th[t]: the request that thread t sleeps in
          isopen,    \* the processes and files that have the file open
          haslock    \* the files with FIF_HASLOCK

vars == <<locks, th, isopen, haslock>>

Idle == [pc |-> "user"]

(* The i_lockf of a new inode is NULL. *)
Init == /\ locks = << >>
        /\ th = [t \in Threads |-> Idle]
        /\ isopen = Owners
        /\ haslock = {}

-----------------------------------------------------------------------------
(* Ranges of bytes. *)

(* l_whence, l_start and l_len make a start and an end, or EINVAL. *)
start(r) == IF r.whence = "SEEK_END" THEN FileSize + r.l_start ELSE r.l_start
end(r) == IF r.l_len = 0 THEN EOF_ ELSE start(r) + r.l_len - 1
valid(r) == start(r) >= 0 /\ (r.l_len # 0 => end(r) >= start(r))

(* The range a reaches as far as byte b, or b is after its end; lf_end of  *)
(* -1 is after all bytes.                                                  *)
reaches(a, b) == a.end = EOF_ \/ (b # EOF_ /\ b <= a.end)

Overlap(a, b) == reaches(a, b.start) /\ reaches(b, a.start)

(* The cases of lf_findoverlap() that are not 0, for two locks, f on the    *)
(* list and lock, that overlap.                                             *)
ovcase(f, lock) ==
    IF f.start = lock.start /\ f.end = lock.end THEN 1
    ELSE IF f.start <= lock.start /\ reaches(f, lock.end) THEN 2
    ELSE IF lock.start <= f.start /\ reaches(lock, f.end) THEN 3
    ELSE IF f.start < lock.start THEN 4
    ELSE 5

(* lf_findoverlap(SELF) stops at a lock of the owner after the range. *)
beyond(f, lock) == lock.end # EOF_ /\ f.start > lock.end

Conflict_admits(f, lock) == /\ f.id # lock.id
                            /\ Overlap(f, lock)
                            /\ lock.type = "F_WRLCK"
Conflict(f, lock) == /\ f.id # lock.id
                     /\ Overlap(f, lock)
                     /\ "F_WRLCK" \in {f.type, lock.type}

(* lf_getblock(): the place of the first lock that blocks, or 0. *)
lf_getblock(list, lock) ==
    LET B == {i \in DOMAIN list : Conflict(list[i], lock)}
    IN  IF B = {} THEN 0 ELSE CHOOSE i \in B : \A j \in B : i <= j

wake(f) == [f EXCEPT !.blk = {}]

(* The parts of f on both sides of lock, which it contains: lf_split(). *)
left(f, lock) == IF f.start = lock.start THEN << >> ELSE <<[f EXCEPT !.end = lock.start - 1]>>
right_shared(f, lock) == IF f.end = lock.end THEN << >> ELSE <<[f EXCEPT !.start = lock.end]>>
right(f, lock) == IF f.end = lock.end THEN << >> ELSE <<[f EXCEPT !.start = lock.end + 1]>>

-----------------------------------------------------------------------------
(* The loops of lf_clearlock() and of the end of lf_setlock() go along the *)
(* locks of the owner.  Case 1, 2 or 5, or a lock beyond the range, is the  *)
(* last one they look at; seen() is that the loop gets as far as list[i].   *)
last(f, lock) == IF Overlap(f, lock) THEN ovcase(f, lock) \in {1, 2, 5} ELSE beyond(f, lock)

seen(list, lock, i) ==
    /\ list[i].id = lock.id
    /\ \A j \in DOMAIN list : j < i /\ list[j].id = lock.id => ~ last(list[j], lock)

(* lf_clearlock(): the owner loses the range.  What it leaves of one lock,  *)
(* and of the list.                                                         *)
ClearOne(f, lock) ==
    CASE ~ Overlap(f, lock) -> <<f>>
      [] Overlap(f, lock) /\ ovcase(f, lock) \in {1, 3} -> << >>
      [] Overlap(f, lock) /\ ovcase(f, lock) = 2 -> left(wake(f), lock) \o right(wake(f), lock)
      [] Overlap(f, lock) /\ ovcase(f, lock) = 4 -> left(wake(f), lock)
      [] Overlap(f, lock) /\ ovcase(f, lock) = 5 -> right(wake(f), lock)

lf_clearlock(list, lock) ==
    Joined([b \in 0 .. Len(list) - 1 |->
               IF seen(list, lock, b + 1) THEN ClearOne(list[b + 1], lock) ELSE <<list[b + 1]>>],
           Len(list))

(* lf_setlock() once nothing blocks: the owner gets the range, and what it *)
(* had there before is replaced.  The lock is linked at the first lock of  *)
(* the owner in or beyond the range, or at the end of the list; it is      *)
(* freed if the lock found there will do.  It takes the blocked lists of   *)
(* the locks that it replaces.                                             *)
downgrade_never(f, lock) == FALSE
downgrade(f, lock) == lock.type = "F_RDLCK" /\ f.type = "F_WRLCK"

(* What becomes of a lock, with "new" linked there. *)
SetOne(f, lock, new) ==
    CASE ~ Overlap(f, lock) -> IF beyond(f, lock) THEN new \o <<f>> ELSE <<f>>
      [] Overlap(f, lock) /\ ovcase(f, lock) = 1 ->
           <<[(IF downgrade(f, lock) THEN wake(f) ELSE f) EXCEPT !.type = lock.type]>>
      [] Overlap(f, lock) /\ ovcase(f, lock) = 2 ->
           IF f.type = lock.type THEN <<f>>
           ELSE left(wake(f), lock) \o new \o right(wake(f), lock)
      [] Overlap(f, lock) /\ ovcase(f, lock) = 3 -> new
      [] Overlap(f, lock) /\ ovcase(f, lock) = 4 -> left(wake(f), lock) \o new
      [] Overlap(f, lock) /\ ovcase(f, lock) = 5 -> new \o right(wake(f), lock)

links(list, lock) == {i \in DOMAIN list : /\ list[i].id = lock.id
                                          /\ Overlap(list[i], lock) \/ beyond(list[i], lock)}

waiters(list, lock) == UNION {list[i].blk : i \in {j \in DOMAIN list :
    /\ seen(list, lock, j)
    /\ Overlap(list[j], lock) /\ ovcase(list[j], lock) = 3 /\ ~ downgrade(list[j], lock)}}

addlock(list, lock) ==
    LET new == <<[lock EXCEPT !.blk = waiters(list, lock)]>>
        at == IF links(list, lock) = {} THEN Len(list) + 1 ELSE Min(links(list, lock))
        here(i) == IF i = at THEN new ELSE << >>
    IN  Joined([b \in 0 .. Len(list) |->
                   IF b = Len(list) THEN here(b + 1)
                   ELSE IF seen(list, lock, b + 1) THEN SetOne(list[b + 1], lock, here(b + 1))
                   ELSE <<list[b + 1]>>],
               Len(list) + 1)

-----------------------------------------------------------------------------
(* lf_alloc(): ui_lockcnt counts the struct lockf, of locks and requests.  *)
(* It fails over the limit for locks, over twice the limit for unlocks;    *)
(* thread t, if it is one that asks, does not hold a request meanwhile.    *)
ui_lockcnt(list, t) == Len(list) + Cardinality({u \in Threads \ {t} : th[u].pc # "user"})
ENOLCK(n, list, t) == ui_lockcnt(list, t) > n * maxlocksperuid

lf(r) == [id |-> r.id, type |-> r.type, start |-> start(r), end |-> end(r), blk |-> {}]

(* All of the file, for owner o. *)
whole(o) == [id |-> o, type |-> "F_WRLCK", start |-> 0, end |-> EOF_, blk |-> {}]

(* The lock that thread t sleeps on, if it does: it is in its list. *)
BlockedAt(list, t) == {i \in DOMAIN list : t \in list[i].blk}

Asleep(t) == BlockedAt(locks, t) # {}

(* Deadlock detection.  From the owner of the lock that blocks, it follows *)
(* the wait channels of struct procs, up to maxlockdepth of them, to the   *)
(* owner of the request.  But lf_id is a struct filedesc, since fcntl()    *)
(* passes p_fd, so that what it reads as p_wmesg is never "lockf" and the  *)
(* search ends at once; IdIsProc is the program in which it would be one.  *)
NextOwner(o) ==
    LET W == {t \in Threads : Asleep(t) /\ th[t].req.id = o}
    IN  IF W = {} \/ o \in Files THEN o
        ELSE locks[CHOOSE i \in BlockedAt(locks, CHOOSE t \in W : TRUE) : TRUE].id

Follow(o) == LET f[n \in 0 .. maxlockdepth] == IF n = 0 THEN o ELSE NextOwner(f[n - 1])
             IN  {f[n] : n \in 1 .. maxlockdepth}

EDEADLK(lock, block) == /\ IdIsProc
                        /\ {lock.id, block.id} \subseteq Procs
                        /\ lock.id \in Follow(block.id)

(* What fcntl() does when F_SETLK returns: if close() has come in between, *)
(* all locks of the process go.                                            *)
Race_ignored(list, t, o, lost) == list
Race(list, t, o, lost) == IF lost /\ ~ ENOLCK(2, list, t) THEN lf_clearlock(list, whole(o)) ELSE list

(* lf_setlock(), from the loop to tsleep() or to the return. *)
SetLock(t, r, lost) ==
    LET lock == lf(r)
        block == lf_getblock(locks, lock)
        flock == r.id \in Files /\ r.type = "F_WRLCK"
        list == IF flock THEN lf_clearlock(locks, lock) ELSE locks
    IN  IF block = 0
        THEN /\ locks' = Race(addlock(locks, lock), t, r.id, lost)
             /\ th' = [th EXCEPT ![t] = Idle]
        ELSE IF ~ r.wait \/ EDEADLK(lock, locks[block])
        THEN /\ locks' = Race(locks, t, r.id, lost)
             /\ th' = [th EXCEPT ![t] = Idle]
        ELSE /\ locks' = [list EXCEPT ![lf_getblock(list, lock)].blk = @ \cup {t}]
             /\ th' = [th EXCEPT ![t] = [pc |-> "lockf", req |-> r, lost |-> lost]]

(* FIF_HASLOCK: flock() sets it before it knows whether it gets the lock,   *)
(* and clears it before it unlocks.                                         *)
sys_flock(r) == IF r.op = "F_UNLCK" THEN haslock \ {r.id} ELSE haslock \cup ({r.id} \cap Files)

(* F_SETLK, of fcntl() or flock(). *)
lf_setlock(t) == \E r \in Requests[t] :
    /\ th[t].pc = "user" /\ r.op = "F_SETLK" /\ r.id \in isopen
    /\ valid(r)
    /\ IF ENOLCK(1, locks, t) THEN UNCHANGED <<locks, th>> ELSE SetLock(t, r, FALSE)
    /\ haslock' = sys_flock(r)
    /\ UNCHANGED isopen

(* Woken: look again for a lock that blocks. *)
lf_setlock_woken(t) ==
    /\ th[t].pc = "lockf" /\ ~ Asleep(t)
    /\ SetLock(t, th[t].req, th[t].lost)
    /\ UNCHANGED <<isopen, haslock>>

(* A signal ends tsleep(): leave the blocked list, and return. *)
lf_setlock_caught(t) ==
    LET list == [i \in DOMAIN locks |-> [locks[i] EXCEPT !.blk = @ \ {t}]]
    IN  /\ th[t].pc = "lockf"
        /\ locks' = Race(list, t, th[t].req.id, th[t].lost)
        /\ th' = [th EXCEPT ![t] = Idle]
        /\ UNCHANGED <<isopen, haslock>>

(* F_UNLCK, of fcntl() or flock(). *)
lf_unlock(t) == \E r \in Requests[t] :
    /\ th[t].pc = "user" /\ r.op = "F_UNLCK" /\ r.id \in isopen
    /\ valid(r)
    /\ locks' = IF ENOLCK(2, locks, t) THEN locks ELSE lf_clearlock(locks, lf(r))
    /\ haslock' = sys_flock(r)
    /\ UNCHANGED <<th, isopen>>

(* closef() of a process's descriptor: its locks go, and an fcntl() in     *)
(* progress has lost the race.                                             *)
closef(p) ==
    /\ p \in isopen \cap Procs
    /\ isopen' = isopen \ {p}
    /\ locks' = IF ENOLCK(2, locks, p) THEN locks ELSE lf_clearlock(locks, whole(p))
    /\ th' = [t \in Threads |-> IF th[t].pc = "lockf" /\ th[t].req.id = p
                                THEN [th[t] EXCEPT !.lost = TRUE] ELSE th[t]]
    /\ UNCHANGED haslock

(* vn_closefile() of a file that nobody uses any more. *)
vn_closefile(f) ==
    /\ f \in isopen \cap Files
    /\ \A t \in Threads : th[t].pc = "lockf" => th[t].req.id # f
    /\ isopen' = isopen \ {f}
    /\ locks' = IF f \in haslock /\ ~ ENOLCK(2, locks, f) THEN lf_clearlock(locks, whole(f)) ELSE locks
    /\ haslock' = haslock \ {f}
    /\ UNCHANGED th

open(o) == /\ o \in Owners \ isopen
           /\ isopen' = isopen \cup {o}
           /\ UNCHANGED <<locks, th, haslock>>

Next == \/ \E t \in Threads : \/ lf_setlock(t) \/ lf_setlock_woken(t)
                              \/ lf_setlock_caught(t) \/ lf_unlock(t)
        \/ \E p \in Procs : closef(p)
        \/ \E f \in Files : vn_closefile(f)
        \/ \E o \in Owners : open(o)

Spec == Init /\ [][Next]_vars

-----------------------------------------------------------------------------
(* The list is what lf_findoverlap(SELF) takes it for, which stops at the   *)
(* first lock of the owner beyond the range: the locks of one owner are in  *)
(* the order of their bytes and do not overlap.                             *)
ListSound == \A i \in DOMAIN locks :
    /\ locks[i].start >= 0 /\ reaches(locks[i], locks[i].start)
    /\ \A j \in DOMAIN locks : i < j /\ locks[i].id = locks[j].id =>
         locks[i].end # EOF_ /\ locks[i].end < locks[j].start

(* Nobody sleeps for nothing: a thread that is blocked is blocked once, by  *)
(* a lock that does conflict with its request.  Every change of a lock that *)
(* others wait for has woken them or kept them with what still blocks them. *)
NobodySleepsFree == \A t \in Threads : \A i \in BlockedAt(locks, t) :
    /\ th[t].pc = "lockf"
    /\ Conflict(locks[i], lf(th[t].req))
    /\ BlockedAt(locks, t) = {i}

(* Byte by byte, the list says who holds what as LockfSpec wants it.        *)
holding(list, o, b) == LET L == {i \in DOMAIN list : /\ list[i].id = o
                                                      /\ list[i].start <= b /\ reaches(list[i], b)}
                       IN  IF L = {} THEN "F_UNLCK" ELSE list[CHOOSE i \in L : TRUE].type

held == [o \in Owners |-> [b \in 0 .. LastByte |-> holding(locks, o, b)]]

Locks == INSTANCE LockfSpec

ImplementsLocks == Locks!Spec

(* A process that has closed the file, or a file that has been closed,      *)
(* holds no lock: the fcntl() that lost the race against close() has given  *)
(* back what it got.                                                        *)
ClosedHoldsNothing == \A i \in DOMAIN locks : locks[i].id \in isopen

(* Nobody waits for itself, through locks of fcntl(): no set of processes   *)
(* such that each has a thread that waits for a lock of another of them.    *)
WaitsFor(p, q) == \E t \in Threads : /\ Asleep(t) /\ th[t].req.id = p
                                     /\ \E i \in BlockedAt(locks, t) : locks[i].id = q
NoDeadlock == \A S \in SUBSET Procs \ {{}} : \E p \in S : \A q \in S : ~ WaitsFor(p, q)

=============================================================================
