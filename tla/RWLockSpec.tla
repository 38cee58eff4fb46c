----------------------------- MODULE RWLockSpec -----------------------------
(***************************************************************************)
(* What a readers/writer lock promises its callers (sys/rwlock.h): many    *)
(* readers or one writer, and a downgrade that turns the writer into a     *)
(* reader without letting anybody else write in between.                   *)
(***************************************************************************)
CONSTANT Procs
VARIABLE holds

Init == holds = [p \in Procs |-> "none"]

Read(p) ==
  /\ holds[p] = "none"
  /\ \A q \in Procs : holds[q] # "write"
  /\ holds' = [holds EXCEPT ![p] = "read"]

Write(p) ==
  /\ \A q \in Procs : holds[q] = "none"
  /\ holds' = [holds EXCEPT ![p] = "write"]

Downgrade(p) ==
  /\ holds[p] = "write"
  /\ holds' = [holds EXCEPT ![p] = "read"]

Exit(p) ==
  /\ holds[p] # "none"
  /\ holds' = [holds EXCEPT ![p] = "none"]

Next == \E p \in Procs : Read(p) \/ Write(p) \/ Downgrade(p) \/ Exit(p)

Spec == Init /\ [][Next]_holds
=============================================================================
