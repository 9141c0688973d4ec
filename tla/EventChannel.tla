---------------------------- MODULE EventChannel ----------------------------
(***************************************************************************)
(* What a chain of bounded queues promises when nobody looks at the result *)
(* of Push: numbered events come out in the order in which they went in,   *)
(* each at most once, and an event disappears only behind Load others that *)
(* are still on their way, or because it means nothing to the receiver.    *)
(***************************************************************************)
EXTENDS Naturals, Sequences

CONSTANTS Load,        \* a channel with fewer events on their way loses none
          Meaningless  \* events that are dropped on purpose

VARIABLES offered,     \* how many events went in
          transit,     \* the events on their way, oldest first
          received     \* the last event that came out, 0 before the first

vars == <<offered, transit, received>>

Init == offered = 0 /\ transit = <<>> /\ received = 0

Offer == /\ offered' = offered + 1
         /\ transit' = Append(transit, offered + 1)
         /\ UNCHANGED received

Refuse == /\ Len(transit) >= Load
          /\ offered' = offered + 1
          /\ UNCHANGED <<transit, received>>

\* The i-th event on its way disappears.
Drop(i) == /\ i > Load \/ transit[i] \in Meaningless
           /\ transit' = [j \in 1 .. Len(transit) - 1 |->
                             IF j < i THEN transit[j] ELSE transit[j + 1]]
           /\ UNCHANGED <<offered, received>>

Deliver == /\ transit # <<>>
           /\ received' = Head(transit)
           /\ transit' = Tail(transit)
           /\ UNCHANGED offered

Next == Offer \/ Refuse \/ (\E i \in 1 .. Len(transit) : Drop(i)) \/ Deliver

Spec == Init /\ [][Next]_vars

=============================================================================
