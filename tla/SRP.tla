-------------------------------- MODULE SRP --------------------------------
(***************************************************************************)
(* Shared reference pointers, kern/kern_srp.c: readers publish what they   *)
(* look at in hazard records of their CPU, and take no lock; whoever       *)
(* replaces a value destroys it if no record names it, and has a timeout   *)
(* look again otherwise.                                                   *)
(*                                                                         *)
(* Every load and store of shared memory is a step.  With TSO, the stores  *)
(* of a reader wait in the store buffer of its CPU, as on amd64, where     *)
(* membar_consumer() does not empty it; otherwise they are seen at once.   *)
(* srp_update() is an atomic exchange and empties its CPU's buffer.        *)
(***************************************************************************)
EXTENDS Integers, Sequences, FiniteSets

CONSTANTS
  Srps,         \* struct srps, updated by srp_update() with one srp_gc
  Inside,       \* the value each srp is part of, or NULL: a list's se_next
  Vals,         \* what they may refer to
  Readers,      \* CPUs
  NUM,          \* SRP_HAZARD_NUM
  Writers,      \* callers of srp_update()
  Softclock,    \* the timeout thread
  NULL,
  TSO,
  MaxStores     \* bound: room in a store buffer

ASSUME SRPAssumption ==
  /\ Inside \in [Srps -> Vals \cup {NULL}]
  /\ IsFiniteSet(Vals)
  /\ NUM \in Nat \ {0} /\ MaxStores \in Nat \ {0} /\ TSO \in BOOLEAN
  /\ NULL \notin Vals \cup Srps \cup (Readers \X (1..NUM)) /\ Softclock \notin Writers

VARIABLES
  ref,          \* srp->ref
  hazard,       \* the hazard records as other CPUs see them
  own,          \* ... and as their own CPU does
  buf,          \* each CPU's store buffer
  rd,           \* what each reader is doing in srp_v()
  held,         \* what srp_v() returned, by record, until srp_leave()
  scan,         \* what each updater, and srp_v_gc(), looks for
  ticks,        \* the contexts whose timeout is set: pairs of srp and value
  destroyed,    \* the values that are destroyed, or not made yet
  refs,         \* srp_gc_refcnt
  waker,        \* who is between refcnt_rele() and wakeup_one()
  fin           \* srp_finalize(): "none", "queued", "asleep", "done"

readers == <<hazard, own, buf, rd, held>>
gc == <<scan, ticks, destroyed, refs, waker, fin>>
vars == <<ref, readers, gc>>

Records  == Readers \X (1..NUM)
Scanners == Writers \cup {Softclock}
Idle     == [at |-> "idle", srp |-> NULL, v |-> NULL, i |-> 0]
NoScan   == [srp |-> NULL, v |-> NULL, todo |-> {}, hit |-> NULL]

Init ==
  /\ ref = [s \in Srps |-> NULL]
  /\ hazard = [x \in Records |-> [sh_p |-> NULL, sh_v |-> NULL]]
  /\ own = hazard
  /\ buf = [r \in Readers |-> <<>>]
  /\ rd = [r \in Readers |-> Idle]
  /\ held = [x \in Records |-> NULL]
  /\ scan = [s \in Scanners |-> NoScan]
  /\ ticks = {} /\ destroyed = Vals /\ refs = 1 /\ waker = {} /\ fin = "none"

(***************************************************************************)
(* Stores of a reader's CPU.                                               *)
(***************************************************************************)
room(r) == Len(buf[r]) < MaxStores

\* The record becomes h.  A buffered store carries the whole record, of which
\* it changes one field: the other has its value by then, stores being seen
\* in order.
store(r, i, h) ==
  /\ own' = [own EXCEPT ![<<r, i>>] = h]
  /\ IF TSO
       THEN room(r) /\ buf' = [buf EXCEPT ![r] = Append(@, <<i, h>>)] /\ UNCHANGED hazard
       ELSE hazard' = [hazard EXCEPT ![<<r, i>>] = h] /\ UNCHANGED buf

set_sh_p(r, i, s) == store(r, i, [sh_p |-> s, sh_v |-> own[<<r, i>>].sh_v])
set_sh_v(r, i, v) == store(r, i, [sh_p |-> own[<<r, i>>].sh_p, sh_v |-> v])

\* The oldest buffered store reaches memory.
drain(r) ==
  /\ buf[r] # <<>>
  /\ hazard' = [hazard EXCEPT ![<<r, Head(buf[r])[1]>>] = Head(buf[r])[2]]
  /\ buf' = [buf EXCEPT ![r] = Tail(@)]
  /\ UNCHANGED <<ref, own, rd, held, gc>>

(***************************************************************************)
(* Readers.                                                                *)
(***************************************************************************)
\* srp_enter() takes the first free record, up to "hzrd->sh_p = srp".
srp_enter(r, s) ==
  /\ rd[r].at = "idle" /\ Inside[s] = NULL
  /\ \E i \in 1..NUM :
       /\ own[<<r, i>>].sh_p = NULL /\ \A k \in 1..(i - 1) : own[<<r, k>>].sh_p # NULL
       /\ rd' = [rd EXCEPT ![r] = [at |-> "load", srp |-> s, v |-> NULL, i |-> i]]
       /\ set_sh_p(r, i, s)
  /\ UNCHANGED <<ref, held, gc>>

\* The loop of srp_v(): load, publish, load again and compare.
srp_v_load(r) ==
  /\ rd[r].at = "load"
  /\ rd' = [rd EXCEPT ![r].at = "store", ![r].v = ref[rd[r].srp]]
  /\ UNCHANGED <<ref, hazard, own, buf, held, gc>>

srp_v_store(r) ==
  /\ rd[r].at = "store"
  /\ set_sh_v(r, rd[r].i, rd[r].v)
  /\ rd' = [rd EXCEPT ![r].at = "check"]
  /\ UNCHANGED <<ref, held, gc>>

\* Mutant: the value is not compared again.
srp_v_check_once(r) ==
  /\ rd[r].at = "check"
  /\ rd' = [rd EXCEPT ![r] = Idle]
  /\ held' = [held EXCEPT ![<<r, rd[r].i>>] = rd[r].v]
  /\ UNCHANGED <<ref, hazard, own, buf, gc>>

srp_v_check(r) ==
  /\ rd[r].at = "check"
  /\ IF ref[rd[r].srp] = rd[r].v
       THEN /\ rd' = [rd EXCEPT ![r] = Idle]
            /\ held' = [held EXCEPT ![<<r, rd[r].i>>] = rd[r].v]
       ELSE rd' = [rd EXCEPT ![r].at = "load"] /\ UNCHANGED held
  /\ UNCHANGED <<ref, hazard, own, buf, gc>>

\* srp_follow() and srp_leave() find the last record with that srp and value;
\* the caller has entered them.
found(r, i, s, v) ==
  /\ own[<<r, i>>] = [sh_p |-> s, sh_v |-> v]
  /\ \A k \in (i + 1)..NUM : own[<<r, k>>] # own[<<r, i>>]

\* srp_follow(s, v, n), where n is part of v: the record of v is used for n.
srp_follow(r, i, s, v, n) ==
  /\ rd[r].at = "idle" /\ found(r, i, s, v) /\ Inside[n] = v
  /\ rd' = [rd EXCEPT ![r] = [at |-> "load", srp |-> n, v |-> NULL, i |-> i]]
  /\ held' = [held EXCEPT ![<<r, i>>] = NULL]
  /\ set_sh_p(r, i, n)
  /\ UNCHANGED <<ref, gc>>

srp_leave(r, i, s, v) ==
  /\ rd[r].at = "idle" /\ found(r, i, s, v)
  /\ held' = [held EXCEPT ![<<r, i>>] = NULL]
  /\ set_sh_p(r, i, NULL)
  /\ UNCHANGED <<ref, rd, gc>>

(***************************************************************************)
(* Updates and garbage collection.                                         *)
(***************************************************************************)
Removed == Vals \ ({ref[s] : s \in Srps} \cup destroyed)
look(s, v) == [srp |-> s, v |-> v, todo |-> Records, hit |-> NULL]

\* Mutant: the collector's count is not taken.
refcnt_take_never(nv) == refs

\* refcnt_take() for a new value.
refcnt_take(nv) == IF nv # NULL THEN refs + 1 ELSE refs

\* srp_update(): refcnt_take(), the exchange, and srp_v_gc_start().  The new
\* value may be one that was destroyed and allocated again.
srp_update(w, s, nv) ==
  /\ scan[w] = NoScan /\ w \notin waker /\ fin = "none"
  /\ nv \in destroyed \cup {NULL} /\ nv # ref[s]
  /\ refs' = refcnt_take(nv)
  /\ ref' = [ref EXCEPT ![s] = nv]
  /\ scan' = IF ref[s] = NULL THEN scan ELSE [scan EXCEPT ![w] = look(s, ref[s])]
  /\ destroyed' = destroyed \ {nv}
  /\ UNCHANGED <<readers, ticks, waker, fin>>

\* srp_v_gc(): the timeout of one context.
srp_v_gc ==
  /\ scan[Softclock] = NoScan /\ Softclock \notin waker
  /\ \E c \in ticks :
       /\ ticks' = ticks \ {c}
       /\ scan' = [scan EXCEPT ![Softclock] = look(c[1], c[2])]
  /\ UNCHANGED <<ref, readers, destroyed, refs, waker, fin>>

\* srp_v_referenced(): the sh_p of one more record ...
srp_v_referenced_p(x) ==
  /\ scan[x] # NoScan /\ scan[x].hit = NULL
  /\ \E h \in scan[x].todo :
       scan' = [scan EXCEPT ![x].todo = @ \ {h},
                            ![x].hit = IF hazard[h].sh_p = scan[x].srp THEN h ELSE NULL]
  /\ UNCHANGED <<ref, readers, ticks, destroyed, refs, waker, fin>>

\* Mutant: nobody looks again.
srp_v_referenced_v_once(x) ==
  /\ scan[x].hit # NULL
  /\ scan' = IF hazard[scan[x].hit].sh_v = scan[x].v
               THEN [scan EXCEPT ![x] = NoScan] ELSE [scan EXCEPT ![x].hit = NULL]
  /\ UNCHANGED <<ref, readers, ticks, destroyed, refs, waker, fin>>

\* ... and, if that is the srp, the sh_v.  In use: try later.
srp_v_referenced_v(x) ==
  /\ scan[x].hit # NULL
  /\ IF hazard[scan[x].hit].sh_v = scan[x].v
       THEN /\ ticks' = ticks \cup {<<scan[x].srp, scan[x].v>>}
            /\ scan' = [scan EXCEPT ![x] = NoScan]
       ELSE scan' = [scan EXCEPT ![x].hit = NULL] /\ UNCHANGED ticks
  /\ UNCHANGED <<ref, readers, destroyed, refs, waker, fin>>

\* Mutant: refcnt_rele() without the wakeup.
srp_v_dtor_silent(x) ==
  /\ scan[x] # NoScan /\ scan[x].hit = NULL /\ scan[x].todo = {}
  /\ destroyed' = destroyed \cup {scan[x].v}
  /\ scan' = [scan EXCEPT ![x] = NoScan]
  /\ refs' = refs - 1
  /\ UNCHANGED <<ref, readers, ticks, waker, fin>>

\* srp_v_dtor(): the destructor, then refcnt_rele().
srp_v_dtor(x) ==
  /\ scan[x] # NoScan /\ scan[x].hit = NULL /\ scan[x].todo = {}
  /\ destroyed' = destroyed \cup {scan[x].v}
  /\ scan' = [scan EXCEPT ![x] = NoScan]
  /\ refs' = refs - 1
  /\ waker' = IF refs' = 0 THEN waker \cup {x} ELSE waker
  /\ UNCHANGED <<ref, readers, ticks, fin>>

\* ... and wakeup_one().
refcnt_rele_wake(x) ==
  /\ x \in waker
  /\ waker' = waker \ {x}
  /\ fin' = IF fin = "asleep" THEN "queued" ELSE fin
  /\ UNCHANGED <<ref, readers, scan, ticks, destroyed, refs>>

\* srp_finalize(), by the owner, once the srps are empty.
srp_finalize ==
  /\ fin = "none" /\ \A s \in Srps : ref[s] = NULL
  /\ refs' = refs - 1
  /\ fin' = IF refs' = 0 THEN "done" ELSE "queued"
  /\ UNCHANGED <<ref, readers, scan, ticks, destroyed, waker>>

\* Mutant: the count is not looked at again.
refcnt_finalize_once ==
  /\ fin = "queued"
  /\ fin' = "done"
  /\ UNCHANGED <<ref, readers, scan, ticks, destroyed, refs, waker>>

\* refcnt_finalize() is on the sleep queue when it reads the count.
refcnt_finalize ==
  /\ fin = "queued"
  /\ fin' = IF refs = 0 THEN "done" ELSE "asleep"
  /\ UNCHANGED <<ref, readers, scan, ticks, destroyed, refs, waker>>

Reader(r) ==
  \/ srp_v_load(r) \/ srp_v_store(r) \/ srp_v_check(r)
  \/ \E i \in 1..NUM, s \in Srps, v \in Vals \cup {NULL} : srp_leave(r, i, s, v)
Scanner(x) ==
  srp_v_referenced_p(x) \/ srp_v_referenced_v(x) \/ srp_v_dtor(x) \/ refcnt_rele_wake(x)

Next ==
  \/ \E r \in Readers : Reader(r)
  \/ \E r \in Readers, s \in Srps : srp_enter(r, s)
  \/ \E r \in Readers, i \in 1..NUM, s, n \in Srps, v \in Vals : srp_follow(r, i, s, v, n)
  \/ \E x \in Scanners : Scanner(x)
  \/ \E w \in Writers, s \in Srps, nv \in Vals \cup {NULL} : srp_update(w, s, nv)
  \/ srp_v_gc
  \/ srp_finalize \/ refcnt_finalize

Spec == Init /\ [][Next]_vars

\* With store buffers; the specification for TSO = TRUE.
TSONext == Next \/ \E r \in Readers : drain(r)
TSOSpec == Init /\ [][TSONext]_vars

\* CPUs go on, a reader leaves what it entered, timeouts are run.
Fairness ==
  /\ \A r \in Readers : WF_vars(Reader(r))
  /\ \A x \in Scanners : WF_vars(Scanner(x))
  /\ WF_vars(srp_v_gc) /\ WF_vars(refcnt_finalize)
FairSpec == Spec /\ Fairness

(***************************************************************************)
(* Properties.                                                             *)
(***************************************************************************)

\* Every variable has its type.
TypeOK ==
  /\ ref \in [Srps -> Vals \cup {NULL}]
  /\ \A h \in Records : hazard[h].sh_p \in Srps \cup {NULL} /\ hazard[h].sh_v \in Vals \cup {NULL}
  /\ held \in [Records -> Vals \cup {NULL}]
  /\ ticks \subseteq Srps \X Vals
  /\ destroyed \subseteq Vals
  /\ refs \in Nat
  /\ waker \subseteq Scanners
  /\ fin \in {"none", "queued", "asleep", "done"}

\* What srp_enter() or srp_follow() returned is not destroyed before
\* srp_leave(), as the comment in srp_v() promises.
HeldAlive == \A h \in Records : held[h] \notin destroyed

\* srp_v() does not read an srp that is part of a destroyed value.
FollowedAlive ==
  \A r \in Readers : rd[r].at \in {"load", "check"} => Inside[rd[r].srp] \notin destroyed

\* When srp_finalize() returns the destructor has been called for everything
\* and is not called again.
FinalizeWaits == fin = "done" => Removed = {}

\* srp_finalize() does not sleep past the last release.
FinalizeWoken == fin = "asleep" /\ refs = 0 => waker # {}

\* A value that was replaced is destroyed in the end, if the readers stop
\* entering, however their entries raced with the scans before.
Quiet == \A h \in Records : own[h].sh_p = NULL
Reclaimed == \A v \in Vals : (<>[]Quiet) => (v \in Removed ~> v \notin Removed)
=============================================================================
