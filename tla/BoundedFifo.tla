------------------------------ MODULE BoundedFifo ------------------------------
(***************************************************************************)
(* What the callers of phOsal_Queue rely on: a bounded first-in first-out  *)
(* queue of heap blocks whose every operation is one step.  A thread holds *)
(* at most one block, and only a block that is neither held nor queued can *)
(* be allocated, so no block is ever in two places and none that was       *)
(* queued disappears before a consumer has it.                             *)
(***************************************************************************)
EXTENDS Naturals, Sequences, Functions

CONSTANTS Capacity, Threads, Objects, NULL

VARIABLES
  queue,   \* the queued blocks, oldest first
  inHand   \* the block that a thread holds, or NULL

fifoVars == <<queue, inHand>>

InUse == Range(queue) \cup Range(inHand)

FifoInit ==
  /\ queue = <<>>
  /\ inHand = [t \in Threads |-> NULL]

(* A producer allocates the block it is about to offer.                    *)
Allocate(t) ==
  /\ inHand[t] = NULL
  /\ \E o \in Objects \ InUse : inHand' = [inHand EXCEPT ![t] = o]
  /\ UNCHANGED queue

(* It is accepted only when the queue has room.                            *)
Offer(t) ==
  /\ inHand[t] # NULL
  /\ Len(queue) < Capacity
  /\ queue' = Append(queue, inHand[t])
  /\ inHand' = [inHand EXCEPT ![t] = NULL]

Take(t) ==
  /\ inHand[t] = NULL
  /\ queue # <<>>
  /\ inHand' = [inHand EXCEPT ![t] = Head(queue)]
  /\ queue' = Tail(queue)

(* A consumer is done with its block, or a producer gives up.              *)
Discard(t) ==
  /\ inHand[t] # NULL
  /\ inHand' = [inHand EXCEPT ![t] = NULL]
  /\ UNCHANGED queue

FifoNext == \E t \in Threads : Allocate(t) \/ Offer(t) \/ Take(t) \/ Discard(t)

FifoSpec == FifoInit /\ [][FifoNext]_fifoVars
=============================================================================
