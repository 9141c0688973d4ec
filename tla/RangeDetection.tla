--------------------------- MODULE RangeDetection ---------------------------
(***************************************************************************)
(* What the debouncing of a device is for: the device is in range from a   *)
(* poll that reaches it until Limit polls in a row have missed it.  A      *)
(* poll may take several steps; it shows when it is over.                  *)
(***************************************************************************)
EXTENDS Naturals

CONSTANTS Devices,
          Limit          \* polls in a row that may miss a device in range

VARIABLES missed,        \* polls in a row that missed the device, up to Limit
          inRange

vars == <<missed, inRange>>

Init == /\ missed = [d \in Devices |-> Limit]
        /\ inRange = [d \in Devices |-> FALSE]

Reached(d) == /\ missed' = [missed EXCEPT ![d] = 0]
              /\ inRange' = [inRange EXCEPT ![d] = TRUE]

Missed(d) == /\ missed' = [missed EXCEPT ![d] = IF @ < Limit THEN @ + 1 ELSE @]
             /\ inRange' = [inRange EXCEPT ![d] = @ /\ missed[d] + 1 < Limit]

Next == \E d \in Devices : Reached(d) \/ Missed(d)

Spec == Init /\ [][Next]_vars

=============================================================================
