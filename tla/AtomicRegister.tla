--------------------------- MODULE AtomicRegister ---------------------------
(***************************************************************************)
(* What a caller of GetPTIMERTime wants: a register that something else    *)
(* changes all the time, read in one piece.  The call takes time, and the  *)
(* value it returns is one the register held at some moment of the call.   *)
(***************************************************************************)
CONSTANT Value

VARIABLES register,
          held,      \* what the register has held since the call began; {}: no call
          result     \* what the last call returned

Init == register \in Value /\ held = {} /\ result \in Value

Change ==
    /\ register' \in Value
    /\ held' = IF held = {} THEN {} ELSE held \cup {register'}
    /\ UNCHANGED result

Call ==
    /\ held = {}
    /\ held' = {register}
    /\ UNCHANGED <<register, result>>

Return ==
    /\ result' \in held
    /\ held' = {}
    /\ UNCHANGED register

Next == Change \/ Call \/ Return

Spec == Init /\ [][Next]_<<register, held, result>>
=============================================================================
