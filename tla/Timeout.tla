------------------------------ MODULE Timeout ------------------------------
(***************************************************************************)
(* The timeouts of kern/kern_timeout.c: a hierarchical timing wheel of     *)
(* four levels, turned by hardclock() and emptied by softclock().          *)
(*                                                                         *)
(* Every entry point runs under timeout_mutex and is one step; softclock() *)
(* releases the mutex while it calls a timeout's function, and anything    *)
(* may happen then: the function itself may add or delete any timeout.     *)
(* An int has as many values as four levels of WHEELSIZE buckets cover, so *)
(* that the code's relation between the wheel and the wrapping of ticks is *)
(* kept.                                                                   *)
(***************************************************************************)
EXTENDS Integers, Queue

CONSTANTS
  Timeouts,     \* struct timeouts
  WHEELSIZE,    \* buckets of a level: 1 << WHEELBITS, 256 in the kernel
  Requests,     \* delays callers ask for, before they are clipped to an int
  Adjustments,  \* tick counts tc_setclock() may skip
  MaxLag,       \* bound: the clock waits for softclock() that far behind
  None          \* not a timeout

ASSUME WheelAssumption ==
  /\ WHEELSIZE \in Nat \ {0} /\ WHEELSIZE % 2 = 0
  /\ Requests \subseteq Nat
  /\ None \notin Timeouts /\ {"idle", "locked"} \cap Timeouts = {}

\* 1 << (n*WHEELBITS): the ticks that a bucket of level n stands for.
span(n) ==
  CASE n = 0 -> 1
    [] n = 1 -> WHEELSIZE
    [] n = 2 -> WHEELSIZE * WHEELSIZE
    [] n = 3 -> WHEELSIZE * WHEELSIZE * WHEELSIZE
    [] n = 4 -> WHEELSIZE * WHEELSIZE * WHEELSIZE * WHEELSIZE

BUCKETS   == 4 * WHEELSIZE
TODO      == BUCKETS              \* timeout_todo, after the buckets
INT_MAX   == (span(4) \div 2) - 1

ASSUME AdjustAssumption == Adjustments \subseteq 0..INT_MAX /\ MaxLag \in 1..INT_MAX

VARIABLES
  ticks,
  to_time,        \* per timeout; forgotten (0) when it leaves its queue
  to_flags,       \* per timeout
  circq,          \* timeout_wheel and, at index TODO, timeout_todo
  softclock_si,   \* is the soft interrupt scheduled?
  sc              \* softclock(): "idle", "locked" (holding the mutex) or the
                  \* timeout whose function it calls

vars == <<ticks, to_time, to_flags, circq, softclock_si, sc>>

(***************************************************************************)
(* Arithmetic on ints.                                                     *)
(***************************************************************************)
\* Mutant: an int that does not wrap.
int_unbounded(x) == x

int(x) == ((x + INT_MAX + 1) % (2 * (INT_MAX + 1))) - (INT_MAX + 1)

\* to->to_time - ticks
rel(t) == int(to_time[t] - ticks)

\* timeout_add_tv(), _ts(), _bt(), _sec(), _msec(): a long long, clipped.
clip(n) == IF n > INT_MAX THEN INT_MAX ELSE n

MASKWHEEL(wheel, time) == (time \div span(wheel)) % WHEELSIZE

\* The wheel for a timeout that is due in r ticks.
level(r) ==
  IF r <= span(2)
    THEN IF r <= span(1) THEN 0 ELSE 1
    ELSE IF r <= span(3) THEN 2 ELSE 3

BUCKET(r, abs) == MASKWHEEL(level(r), abs) + level(r)*WHEELSIZE

(***************************************************************************)
(* Queues.                                                                 *)
(***************************************************************************)
\* Mutant: nothing is unlinked.
CIRCQ_REMOVE_never(t, q) == q

CIRCQ_REMOVE(t, q) == [b \in DOMAIN q |-> Without(q[b], {t})]

\* Mutant: insertion at the head.
CIRCQ_INSERT_first(t, b, q) == [q EXCEPT ![b] = <<t>> \o @]

CIRCQ_INSERT(t, b, q) == [q EXCEPT ![b] = Append(@, t)]

OnQueue(t) == "ONQUEUE" \in to_flags[t]
mtx_free == sc # "locked"

Init ==
  /\ ticks = 0
  /\ to_time = [t \in Timeouts |-> 0]
  /\ to_flags = [t \in Timeouts |-> {}]
  /\ circq = [b \in 0..TODO |-> <<>>]                   \* timeout_startup()
  /\ softclock_si = FALSE
  /\ sc = "idle"

\* timeout_set(): the caller does not touch a scheduled timeout.
timeout_set(t) ==
  /\ ~OnQueue(t)
  /\ to_flags' = [to_flags EXCEPT ![t] = {"INITIALIZED"}]
  /\ UNCHANGED <<ticks, to_time, circq, softclock_si, sc>>

\* Mutant: a timeout that is moved earlier stays where it is.
earlier_never(t, new) == FALSE

earlier(t, new) == int(new - ticks) < rel(t)

\* timeout_add(): a timeout moved earlier goes back to the work list, one
\* moved later stays in its bucket.
timeout_add(t, n) ==
  /\ mtx_free /\ "INITIALIZED" \in to_flags[t]
  /\ LET new == int(ticks + clip(n))
     IN /\ to_time' = [to_time EXCEPT ![t] = new]
        /\ circq' = IF OnQueue(t) /\ ~earlier(t, new)
                      THEN circq
                      ELSE CIRCQ_INSERT(t, TODO, CIRCQ_REMOVE(t, circq))
  /\ to_flags' = [to_flags EXCEPT ![t] = (@ \ {"TRIGGERED"}) \cup {"ONQUEUE"}]
  /\ UNCHANGED <<ticks, softclock_si, sc>>

\* timeout_del().
timeout_del(t) ==
  /\ mtx_free
  /\ to_flags' = [to_flags EXCEPT ![t] = @ \ {"TRIGGERED", "ONQUEUE"}]
  /\ circq' = IF OnQueue(t) THEN CIRCQ_REMOVE(t, circq) ELSE circq
  /\ to_time' = [to_time EXCEPT ![t] = 0]
  /\ UNCHANGED <<ticks, softclock_si, sc>>

\* MOVEBUCKET(wheel, time), done when every lower wheel is at its start.
turned(wheel, time) == \A w \in 0..(wheel - 1) : MASKWHEEL(w, time) = 0
moved(wheel, time) == MASKWHEEL(wheel, time) + wheel*WHEELSIZE
MOVEBUCKET(wheel, time) ==
  IF turned(wheel, time) THEN circq[moved(wheel, time)] ELSE <<>>

\* The clock moves bucket b to the work list when it gets to time.
moves(b, time) == \E w \in 0..3 : turned(w, time) /\ b = moved(w, time)

\* Bound: the clock waits for softclock() once it is MaxLag ticks behind.
softclock_pending == softclock_si \/ sc # "idle"
keeps_up == \A t \in ToSet(circq[TODO]) : rel(t) > -MaxLag

\* hardclock() on the primary CPU: turn the wheel, wake softclock().
timeout_hardclock_update ==
  /\ mtx_free
  /\ softclock_pending => keeps_up
  /\ ticks' = int(ticks + 1)
  /\ circq' = [b \in 0..TODO |->
                 IF b = TODO
                   THEN circq[TODO] \o MOVEBUCKET(0, ticks') \o MOVEBUCKET(1, ticks')
                                    \o MOVEBUCKET(2, ticks') \o MOVEBUCKET(3, ticks')
                 ELSE IF moves(b, ticks') THEN <<>> ELSE circq[b]]
  /\ softclock_si' = (softclock_si \/ circq'[TODO] # <<>>)
  /\ UNCHANGED <<to_time, to_flags, sc>>

\* softintr_dispatch() calls softclock(), which takes the mutex.
softclock ==
  /\ sc = "idle" /\ softclock_si
  /\ softclock_si' = FALSE
  /\ sc' = "locked"
  /\ UNCHANGED <<ticks, to_time, to_flags, circq>>

\* Mutant: due in the tick before.
due_early(t) == rel(t) <= 1

due(t) == rel(t) <= 0

\* One turn of its loop: file the first timeout of the work list ...
softclock_file ==
  /\ sc = "locked" /\ circq[TODO] # <<>>
  /\ LET t == Head(circq[TODO])
     IN /\ ~due(t)
        /\ circq' = CIRCQ_INSERT(t, BUCKET(rel(t), to_time[t]), CIRCQ_REMOVE(t, circq))
  /\ UNCHANGED <<ticks, to_time, to_flags, softclock_si, sc>>

\* ... or, if it is due, release the mutex and call its function.
softclock_call ==
  /\ sc = "locked" /\ circq[TODO] # <<>>
  /\ LET t == Head(circq[TODO])
     IN /\ due(t)
        /\ circq' = CIRCQ_REMOVE(t, circq)
        /\ to_flags' = [to_flags EXCEPT ![t] = (@ \ {"ONQUEUE"}) \cup {"TRIGGERED"}]
        /\ to_time' = [to_time EXCEPT ![t] = 0]
        /\ sc' = t
  /\ UNCHANGED <<ticks, softclock_si>>

softclock_return ==
  /\ sc \in Timeouts
  /\ sc' = "locked"
  /\ UNCHANGED <<ticks, to_time, to_flags, circq, softclock_si>>

softclock_done ==
  /\ sc = "locked" /\ circq[TODO] = <<>>
  /\ sc' = "idle"
  /\ UNCHANGED <<ticks, to_time, to_flags, circq, softclock_si>>

\* timeout_adjust_ticks(), called by tc_setclock() after a suspend: empties
\* the wheel into the work list; what fell due meanwhile is due now.
timeout_adjust_ticks(adj) ==
  /\ mtx_free /\ adj > 0 /\ keeps_up
  /\ LET wheel == Joined(circq, BUCKETS)
     IN /\ circq' = [b \in 0..TODO |-> IF b = TODO THEN circq[TODO] \o wheel ELSE <<>>]
        /\ to_time' = [t \in Timeouts |->
                         IF t \in ToSet(wheel) /\ rel(t) < adj
                           THEN int(ticks + adj) ELSE to_time[t]]
  /\ ticks' = int(ticks + adj)
  /\ UNCHANGED <<to_flags, softclock_si, sc>>

Caller(t) ==
  timeout_set(t) \/ timeout_del(t) \/ \E n \in Requests : timeout_add(t, n)

Softclock ==
  softclock \/ softclock_file \/ softclock_call \/ softclock_return \/ softclock_done

Next ==
  \/ \E t \in Timeouts : Caller(t)
  \/ timeout_hardclock_update
  \/ Softclock
  \/ \E adj \in Adjustments : timeout_adjust_ticks(adj)

Spec == Init /\ [][Next]_vars

\* The clock interrupt keeps coming, and softclock() runs when scheduled.
Fairness == WF_vars(timeout_hardclock_update) /\ WF_vars(Softclock)
FairSpec == Spec /\ Fairness

(***************************************************************************)
(* Properties.                                                             *)
(***************************************************************************)

\* Every variable has its type.
TypeOK ==
  /\ ticks \in (-INT_MAX - 1)..INT_MAX
  /\ to_time \in [Timeouts -> (-INT_MAX - 1)..INT_MAX]
  /\ to_flags \in [Timeouts -> SUBSET {"INITIALIZED", "ONQUEUE", "TRIGGERED"}]
  /\ circq \in [0..TODO -> Seq(Timeouts)]
  /\ softclock_si \in BOOLEAN
  /\ sc \in {"idle", "locked"} \cup Timeouts

\* Each timeout is on one queue, once, exactly when TIMEOUT_ONQUEUE says so
\* (else CIRCQ_REMOVE would unlink garbage), and is never both scheduled and
\* marked as having run.
On(t, b) == t \in ToSet(circq[b])
QueuesConsistent ==
  /\ \A b \in 0..TODO : IsInjective(circq[b])
  /\ \A t \in Timeouts :
       /\ OnQueue(t) <=> \E b \in 0..TODO : On(t, b)
       /\ \A a, b \in 0..TODO : On(t, a) /\ On(t, b) => a = b
       /\ ~{"ONQUEUE", "TRIGGERED"} \subseteq to_flags[t]

\* No timeout is filed too late: the clock moves its bucket to the work list
\* no later than at the tick it is due, across re-schedulings, overflows
\* between the levels and the wrapping of ticks.
BucketInTime ==
  \A b \in 0..(BUCKETS - 1) : \A t \in ToSet(circq[b]) :
    \E n \in 1..rel(t) : moves(b, int(ticks + n))

\* The wheel implements the countdown that timeout.h describes.
max0(n) == IF n > 0 THEN n ELSE 0
remaining == [t \in Timeouts |-> IF OnQueue(t) THEN max0(rel(t)) ELSE -1]
running == IF sc \in Timeouts THEN sc ELSE None
now == ticks % (2*(INT_MAX + 1))
Timers == INSTANCE TimeoutSpec WITH MaxTicks <- INT_MAX
ImplementsTimers == Timers!Spec

\* A timeout that is due is called, unless it is deleted or put off, even if
\* others keep scheduling themselves for at once.
DueRuns ==
  \A t \in Timeouts :
    OnQueue(t) /\ rel(t) <= 0 ~> ~OnQueue(t) \/ rel(t) > 0

\* What the comment above timeout_startup() says of "to->to_time - ticks": it
\* is 0 or negative for a due timeout, until that is run, moved or deleted.
DueStaysDue ==
  [][\A t \in Timeouts :
       OnQueue(t) /\ rel(t) <= 0 /\ OnQueue(t)' /\ to_time'[t] = to_time[t]
         => rel(t)' <= 0]_vars
=============================================================================
