---------------------------- MODULE MessageQueue ----------------------------
(***************************************************************************)
(* Queue::Queue<ElemtType, Size> as its clients see it: a sequence of at   *)
(* most Size elements.  BoundedFifo gives these operators their behaviour  *)
(* over time, SpscQueue shows that the ring buffer of Queue.h implements   *)
(* it; the modules of the threads that own queues use the operators.       *)
(***************************************************************************)
EXTENDS Naturals, Sequences

IsEmpty(queue) == queue = <<>>

\* Mutant: one element too many.
HasSpaceOffByOne(queue, Size) == Len(queue) <= Size

HasSpace(queue, Size) == Len(queue) < Size

\* What Push leaves in the queue: a full queue refuses the element.
Push(queue, Size, NewElement) ==
    IF HasSpace(queue, Size) THEN Append(queue, NewElement) ELSE queue

\* What Push returns.
PushResult(queue, Size) ==
    IF HasSpace(queue, Size) THEN "OK" ELSE "QUEUE_FULL"

=============================================================================
