---------------------------- MODULE TimeoutSpec ----------------------------
(***************************************************************************)
(* What sys/timeout.h promises: a scheduled timeout counts down the ticks  *)
(* it was asked for as the clock advances, a second timeout_add() replaces *)
(* the first, and its function is called once the count is used up, never  *)
(* before, and never after timeout_del() has taken it back.  The clock     *)
(* wraps; the countdown must not notice.                                   *)
(***************************************************************************)
EXTENDS Integers

CONSTANTS
  Timeouts,
  MaxTicks,             \* the longest delay, and the longest jump of the clock
  None                  \* no timeout

VARIABLES
  now,                  \* the clock, modulo 2*(MaxTicks + 1)
  remaining,            \* ticks to go, or Idle
  running               \* the timeout whose function is being called

Idle == -1
less(n, k) == IF n >= k THEN n - k ELSE 0

Init == now = 0 /\ remaining = [t \in Timeouts |-> Idle] /\ running = None

Add(t) ==
  /\ UNCHANGED <<now, running>>
  /\ remaining'[t] \in 0..MaxTicks
  /\ \A u \in Timeouts \ {t} : remaining'[u] = remaining[u]

Del(t) ==
  /\ UNCHANGED <<now, running>>
  /\ remaining' = [remaining EXCEPT ![t] = Idle]

\* Time passes for everyone who is scheduled.
elapsed == (now' - now) % (2*(MaxTicks + 1))
Advance ==
  /\ elapsed \in 1..MaxTicks
  /\ remaining' = [t \in Timeouts |->
                     IF remaining[t] = Idle THEN Idle ELSE less(remaining[t], elapsed)]
  /\ UNCHANGED running

Fire(t) ==
  /\ running = None /\ remaining[t] = 0
  /\ running' = t
  /\ remaining' = [remaining EXCEPT ![t] = Idle]
  /\ UNCHANGED now

Return == running # None /\ running' = None /\ UNCHANGED <<now, remaining>>

Next ==
  \/ \E t \in Timeouts : Del(t) \/ Add(t) \/ Fire(t)
  \/ Return
  \/ Advance

Spec == Init /\ [][Next]_<<now, remaining, running>>
=============================================================================
