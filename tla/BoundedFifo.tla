---------------------------- MODULE BoundedFifo -----------------------------
(***************************************************************************)
(* What Queue.h promises ("returns >0 if there is a element available",    *)
(* "one thread to Push elements and another thread to Pop Elements"): a    *)
(* first-in first-out queue of Size elements, one producer, one consumer.  *)
(* A push takes effect in one step, at its call or later; it is refused    *)
(* only at a moment at which Size elements are stored.                     *)
(***************************************************************************)
EXTENDS MessageQueue

CONSTANTS ElemtType,   \* the elements
          Size,        \* how many the user asked for
          Blank        \* a variable nothing was stored in yet

VARIABLES queue,       \* what was pushed and not yet popped, oldest first
          NewElement,  \* the argument of the producer's latest Push
          pushRet,     \* what that Push returned, "pending" until it did
          received     \* the element the latest Pop returned

vars == <<queue, NewElement, pushRet, received>>

Init == /\ queue = <<>>
        /\ NewElement = Blank
        /\ pushRet = "OK"
        /\ received = Blank

Call(e) == /\ pushRet # "pending"
           /\ NewElement' = e
           /\ pushRet' = "pending"
           /\ UNCHANGED <<queue, received>>

Return == /\ pushRet = "pending"
          /\ queue' = Push(queue, Size, NewElement)
          /\ pushRet' = PushResult(queue, Size)
          /\ UNCHANGED <<NewElement, received>>

Pop == /\ ~IsEmpty(queue)
       /\ received' = Head(queue)
       /\ queue' = Tail(queue)
       /\ UNCHANGED <<NewElement, pushRet>>

Next == (\E e \in ElemtType : Call(e)) \/ Return \/ Pop

Spec == Init /\ [][Next]_vars

=============================================================================
