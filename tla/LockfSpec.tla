----------------------------- MODULE LockfSpec ------------------------------
(***************************************************************************)
(* What advisory locks promise, byte by byte: an owner gets a range of     *)
(* bytes only if nobody else holds one of them in a mode that conflicts,   *)
(* it then holds all of that range in the mode it asked for and the rest   *)
(* as before, and it loses a byte only when it gives it up.                *)
(***************************************************************************)
EXTENDS Naturals

CONSTANTS Owners,   \* who can hold a lock
          LastByte      \* the bytes are 0 .. LastByte, and LastByte stands for all that follow

VARIABLE held       \* held[o][b]: how owner o holds byte b

Modes == {"F_RDLCK", "F_WRLCK"}
Range == {r \in (0 .. LastByte) \X (0 .. LastByte) : r[1] <= r[2]}

Init == held = [o \in Owners |-> [b \in 0 .. LastByte |-> "F_UNLCK"]]

Put(o, m, r) ==
    held' = [held EXCEPT ![o] = [b \in 0 .. LastByte |-> IF b \in r[1] .. r[2] THEN m ELSE @[b]]]

Set(o, m, r) ==
    /\ \A u \in Owners \ {o} : \A b \in r[1] .. r[2] :
         m = "F_WRLCK" => held[u][b] = "F_UNLCK"
    /\ \A u \in Owners \ {o} : \A b \in r[1] .. r[2] : held[u][b] # "F_WRLCK"
    /\ Put(o, m, r)

Clear(o, r) == Put(o, "F_UNLCK", r)

Next == \E o \in Owners : \E r \in Range : Clear(o, r) \/ \E m \in Modes : Set(o, m, r)

Spec == Init /\ [][Next]_held
=============================================================================
