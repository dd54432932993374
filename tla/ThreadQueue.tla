---------------------------- MODULE ThreadQueue ----------------------------
(***************************************************************************)
(* ThreadQueue of distribution.h: the ring of QUEUE_SIZE transfer          *)
(* descriptors through which the placement worker hands received expert    *)
(* weights to the inference thread.  A queue is a record                   *)
(*   [front, rear, size, desc]                                             *)
(* holding mCurDescFront, mCurDescRear, currentSize and mTransDescQueue.   *)
(* A descriptor is a record with at least the field pos, the               *)
(* localExpertPositionOfsset the transfer is for.                          *)
(***************************************************************************)
EXTENDS Integers, Sequences

CONSTANT QUEUE_SIZE

ASSUME QueueSizeAssumption == QUEUE_SIZE \in Nat \ {0}

Slot == 0 .. QUEUE_SIZE - 1

(* The rings of descriptors from D.                                        *)
Ring(D) == [front : Slot, rear : Slot \cup {-1}, size : 0 .. QUEUE_SIZE, desc : [Slot -> D]]

(* The ring as constructed; every slot holds the blank descriptor d.       *)
NewQueue(d) ==
    [front |-> 0, rear |-> -1, size |-> 0, desc |-> [s \in Slot |-> d]]

IsFull(q)  == q.size = QUEUE_SIZE
IsEmpty(q) == q.size = 0

(* getEnqueueIdx: the slot the next Enqueue will fill.                     *)
EnqueueIdx(q) == (q.rear + 1) % QUEUE_SIZE

Enqueue(q, d) ==
    [q EXCEPT !.rear = EnqueueIdx(q),
              !.desc[EnqueueIdx(q)] = d,
              !.size = @ + 1]

(* Faulty: the front does not wrap around.                                 *)
DequeueUnwrapped(q) == [q EXCEPT !.front = @ + 1, !.size = @ - 1]

Dequeue(q) ==
    [q EXCEPT !.front = (@ + 1) % QUEUE_SIZE, !.size = @ - 1]

GetFront(q) == q.desc[q.front]

(* The i-th descriptor counted from the front.                             *)
Entry(q, i) == q.desc[(q.front + i) % QUEUE_SIZE]

(* GetRear scans from front to rear and keeps the last match for position  *)
(* p.  RearIndices is empty when the code returns nullptr.                 *)
RearIndices(q, p) == {i \in 0 .. q.size - 1 : Entry(q, i).pos = p}

GetRear(q, p) ==
    LET found == RearIndices(q, p)
    IN  Entry(q, CHOOSE i \in found : \A j \in found : j <= i)
=============================================================================
