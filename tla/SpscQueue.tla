------------------------------- MODULE SpscQueue -------------------------------
(***************************************************************************)
(* The single-producer single-consumer queue of concurrency/spsc-queue: a  *)
(* ring of cells, an atomic head that only the producer stores and an      *)
(* atomic tail that only the consumer stores.  Each side loads the index   *)
(* of the other, works on one cell without a lock, and stores its own      *)
(* index.  The three are separate steps of two threads.                    *)
(***************************************************************************)
EXTENDS Naturals, Sequences

CONSTANTS
  Item,   \* what can be queued
  None,   \* no item: the content of an empty cell
  Size    \* cells in the ring: sizeUint32, 32 in the code

ASSUME QueueConstants == Size \in Nat \ {0, 1} /\ None \notin Item

VARIABLES
  cells,      \* the ring
  head,       \* the atomic index of the cell to fill next
  tail,       \* the atomic index of the cell to empty next
  producer,   \* pc and item of the producing call
  consumer,   \* pc and item of the consuming call
  event       \* the last operation that took effect, with its item

qvars == <<cells, head, tail, producer, consumer, event>>

Index == 0 .. Size - 1

NoCall == [pc |-> "idle", item |-> None]

QInit ==
  /\ cells = [i \in Index |-> None]
  /\ head = 0 /\ tail = 0
  /\ producer = NoCall /\ consumer = NoCall
  /\ event = <<"none">>

\* The place after i in the ring.
Successor(i) == (i + 1) % Size

--------------------------------------------------------------------------------
\* One cell stays empty, so that a full ring and an empty one differ.
\* Faulty variant: all the cells are used.
HasRoom_AllCells(tail_value) == head # tail_value \/ cells[head] = None

HasRoom(tail_value) == Successor(head) # tail_value

\* produce, the load of the tail: with no room the item is handed back.
ProduceLoad(item) ==
  /\ producer.pc = "idle"
  /\ IF HasRoom(tail)
     THEN producer' = [pc |-> "write", item |-> item] /\ UNCHANGED event
     ELSE event' = <<"full", item>> /\ UNCHANGED producer
  /\ UNCHANGED <<cells, head, tail, consumer>>

\* produce, the write to the cell.
ProduceWrite ==
  /\ producer.pc = "write"
  /\ cells' = [cells EXCEPT ![head] = producer.item]
  /\ producer' = [producer EXCEPT !.pc = "publish"]
  /\ UNCHANGED <<head, tail, consumer, event>>

\* produce, the store of the new head, which shows the cell to the consumer.
ProduceStore ==
  /\ producer.pc = "publish"
  /\ head' = Successor(head)
  /\ event' = <<"produced", producer.item>>
  /\ producer' = NoCall
  /\ UNCHANGED <<cells, tail, consumer>>

--------------------------------------------------------------------------------
\* Faulty variant: a cell is taken for full once the producer is at work on it.
HasItem_Early(head_value) == head_value # tail \/ producer.pc = "write"

HasItem(head_value) == head_value # tail

\* consume, the load of the head.
ConsumeLoad ==
  /\ consumer.pc = "idle"
  /\ IF HasItem(head)
     THEN consumer' = [pc |-> "read", item |-> None] /\ UNCHANGED event
     ELSE event' = <<"empty">> /\ UNCHANGED consumer
  /\ UNCHANGED <<cells, head, tail, producer>>

\* consume, the read of the cell, which moves the item out of it.
ConsumeRead ==
  /\ consumer.pc = "read"
  /\ consumer' = [pc |-> "release", item |-> cells[tail]]
  /\ cells' = [cells EXCEPT ![tail] = None]
  /\ UNCHANGED <<head, tail, producer, event>>

\* consume, the store of the new tail, which gives the cell to the producer.
ConsumeStore ==
  /\ consumer.pc = "release"
  /\ tail' = Successor(tail)
  /\ event' = <<"consumed", consumer.item>>
  /\ consumer' = NoCall
  /\ UNCHANGED <<cells, head, producer>>

QNext ==
  \/ \E item \in Item : ProduceLoad(item)
  \/ ProduceWrite
  \/ ProduceStore
  \/ ConsumeLoad
  \/ ConsumeRead
  \/ ConsumeStore

QSpec == QInit /\ [][QNext]_qvars

--------------------------------------------------------------------------------
\* The indices stay in the ring and the calls at their program points.
IndicesOK ==
  /\ head \in Index
  /\ tail \in Index
  /\ producer.pc \in {"idle", "write", "publish"}
  /\ consumer.pc \in {"idle", "read", "release"}

\* Producer and consumer never work on the same cell: cells are not atomic, and
\* produce (line 342) and consume (line 187) touch them outside any atomic
\* block.  Each side acts on an index of the other that may be old by then.
NoRace == ~(producer.pc # "idle" /\ consumer.pc # "idle" /\ head = tail)

\* The queued items: the cells from tail to head, where the item the consumer
\* has read is still queued until the new tail gives its cell back.
Contents ==
  LET length == (head + Size - tail) % Size
      At(i)  == IF i = tail /\ consumer.pc = "release" THEN consumer.item ELSE cells[i]
  IN  [k \in 1 .. length |-> At((tail + k - 1) % Size)]

Fifo == INSTANCE BoundedFifo WITH contents <- Contents, Capacity <- Size - 1

\* The queue implements an atomic bounded first-in-first-out buffer of one item
\* less than it has cells: nothing is lost, repeated or reordered, "full" is only
\* said of a full buffer and "empty" of an empty one.
RefinesFifo == Fifo!Spec

================================================================================
