------------------------------ MODULE BoundedFifo ------------------------------
(***************************************************************************)
(* What the queue of concurrency/spsc-queue promises: a first-in-first-out *)
(* buffer of a fixed capacity whose operations are atomic and never wait.  *)
(***************************************************************************)
EXTENDS Naturals, Sequences

CONSTANTS Item, Capacity

\* contents: what has been produced and not consumed, oldest first.
\* event:    the last operation that took effect, with its item.
VARIABLES contents, event

vars == <<contents, event>>

Init ==
  /\ contents = <<>>
  /\ event = <<"none">>

\* produce: the item goes to the end, or back to the caller if there is no room.
Produce(item) ==
  IF Len(contents) < Capacity
  THEN /\ contents' = Append(contents, item)
       /\ event' = <<"produced", item>>
  ELSE /\ event' = <<"full", item>>
       /\ UNCHANGED contents

\* consume: the oldest item, or nothing.
Consume ==
  IF contents # <<>>
  THEN /\ contents' = Tail(contents)
       /\ event' = <<"consumed", Head(contents)>>
  ELSE /\ event' = <<"empty">>
       /\ UNCHANGED contents

Next == Consume \/ \E item \in Item : Produce(item)

Spec == Init /\ [][Next]_vars

================================================================================
