------------------------------- MODULE OsalQueue -------------------------------
(***************************************************************************)
(* The blocking queue of dtaPlatform/phInfra (phOsal_Queue.c), the only    *)
(* channel between the NFC stack's callback thread, the DTA thread, the    *)
(* integration thread and the user interface's thread.                     *)
(*                                                                         *)
(* A queue is two counting semaphores around a linked list guarded by one  *)
(* mutex: semPush counts empty slots, semPull counts queued objects.  A    *)
(* call is not atomic, so it is modelled by one action per step at which   *)
(* another thread can run: the semaphore wait, the mutex, the list update, *)
(* the semaphore post and the return.                                      *)
(*                                                                         *)
(* An object is a heap block.  A caller of Push allocates it and hands it  *)
(* to the queue when Push succeeds.  What happens to the block of a Push   *)
(* that failed, and to one that was pulled, depends on the caller: some    *)
(* free it, others drop it, and then it stays allocated for good.  free is *)
(* the allocator's set of blocks that no one has allocated.                *)
(***************************************************************************)
EXTENDS Naturals, Sequences, FiniteSets

CONSTANTS
  QLength,       (* phOsal_QueueCreateParams_t.wQLength                    *)
  Mode,          (* phOsal_QueueCreateParams_t.eOverwriteMode              *)
  Pushers,       (* threads that call phOsal_QueuePush                     *)
  Pullers,       (* threads that call phOsal_QueuePull                     *)
  Flushers,      (* threads that call phOsal_QueueFlush                    *)
  Objects,       (* heap blocks                                            *)
  NULL,
  PushTimeouts,  (* kinds of timeout that the callers of Push pass         *)
  PullTimeouts,  (* kinds of timeout that the callers of Pull pass         *)
  Interrupts     (* may a signal handler interrupt an untimed sem_wait?    *)

Threads == Pushers \cup Pullers \cup Flushers

Modes == {"NO_OVERWRITE", "OVERWRITE_OLDEST", "OVERWRITE_NEWEST"}

(* A timeout of 0 is infinite.  The others differ in what the deadline's   *)
(* nanoseconds become: a multiple of a second leaves them as they are.     *)
Timeouts == {"infinite", "seconds", "millis"}

ASSUME QueueAssumption ==
  /\ QLength \in Nat \ {0}
  /\ Mode \in Modes
  /\ IsFiniteSet(Threads)
  /\ NULL \notin Objects
  /\ NULL \notin Threads
  /\ PushTimeouts \subseteq Timeouts
  /\ PullTimeouts \subseteq Timeouts
  /\ Interrupts \in BOOLEAN

VARIABLES
  semPush,   \* slots that a Push may take
  semPull,   \* objects that a Pull may take
  qMutex,    \* the thread that holds the mutex, or NULL
  list,      \* the linked list, oldest object first
  free,      \* blocks that are not allocated
  pc,        \* the step at which a thread is
  status,    \* dwStatus of the call a thread is in
  tmo,       \* the kind of timeout of the call a thread is in
  obj,       \* the object that a thread owns, or NULL
  flushing,  \* is the thread's Pull the one inside phOsal_QueueFlush?
  badFree    \* has a Flush freed a pointer that no Pull gave it?  What
             \* the allocator does after that is not modelled.

vars == <<semPush, semPull, qMutex, list, free, pc, status, tmo, obj,
          flushing, badFree>>

Steps == {"idle",
          "push_wait", "push_lock", "push_body", "push_post", "push_unlock",
          "pull_wait", "pull_lock", "pull_body", "pull_post", "pull_unlock",
          "pulled"}

Statuses == {"SUCCESS", "FAILED", "INVALID_PARAMS", "SEM_TIMEOUT",
             "Q_OVERFLOW", "Q_UNDERFLOW"}

TypeOK ==
  /\ semPush \in Nat
  /\ semPull \in Nat
  /\ qMutex \in Threads \cup {NULL}
  /\ list \in Seq(Objects)
  /\ free \in SUBSET Objects
  /\ pc \in [Threads -> Steps]
  /\ status \in [Threads -> Statuses]
  /\ tmo \in [Threads -> Timeouts]
  /\ obj \in [Threads -> Objects \cup {NULL}]
  /\ flushing \in [Threads -> BOOLEAN]
  /\ badFree \in BOOLEAN

(* phOsal_QueueCreate: every slot is empty.                                *)
Init ==
  /\ semPush = QLength
  /\ semPull = 0
  /\ qMutex = NULL
  /\ list = <<>>
  /\ free = Objects
  /\ pc = [t \in Threads |-> "idle"]
  /\ status = [t \in Threads |-> "SUCCESS"]
  /\ tmo = [t \in Threads |-> "infinite"]
  /\ obj = [t \in Threads |-> NULL]
  /\ flushing = [t \in Threads |-> FALSE]
  /\ badFree = FALSE

-----------------------------------------------------------------------------
(***************************************************************************)
(* Helpers.                                                                *)
(***************************************************************************)
Goto(t, from, to) ==
  /\ pc[t] = from
  /\ pc' = [pc EXCEPT ![t] = to]

SetStatus(t, s) == status' = [status EXCEPT ![t] = s]

(* phOsal_SemaphoreWait.  The deadline of a timed wait is the clock plus   *)
(* the timeout, without carrying nanoseconds into seconds, so a timeout    *)
(* with a fraction of a second may give an invalid deadline: the wait then *)
(* fails at once when it would have to block.  An untimed wait that a      *)
(* signal interrupts is not restarted.                                     *)
SemaphoreWait(sem, semNext, timeout, result) ==
  \/ sem > 0 /\ semNext = sem - 1 /\ result = "SUCCESS"
  \/ sem = 0 /\ timeout # "infinite" /\ semNext = sem /\ result = "SEM_TIMEOUT"
  \/ sem = 0 /\ timeout = "millis" /\ semNext = sem /\ result = "FAILED"
  \/ /\ sem = 0 /\ timeout = "infinite" /\ Interrupts
     /\ semNext = sem /\ result = "INVALID_PARAMS"

MutexLock(t) == qMutex = NULL /\ qMutex' = t
MutexUnlock(t) == qMutex = t /\ qMutex' = NULL

-----------------------------------------------------------------------------
(***************************************************************************)
(* Faulty variants of the steps below, one mistake each.  No specification *)
(* uses them: with one in the place of the step it varies, TLC must find a *)
(* property violated.                                                      *)
(***************************************************************************)
(* A wait that timed out is taken for a granted one.                       *)
PushWaitAlwaysGrants(t) ==
  /\ Goto(t, "push_wait", "push_lock")
  /\ \E s \in {"SUCCESS", "SEM_TIMEOUT", "INVALID_PARAMS"} :
       SemaphoreWait(semPush, semPush', tmo[t], s) /\ SetStatus(t, "SUCCESS")
  /\ UNCHANGED <<semPull, qMutex, list, free, tmo, obj, flushing, badFree>>

(* The object becomes the oldest.                                          *)
PushInsertAtHead(t) ==
  /\ status[t] = "SUCCESS"
  /\ Goto(t, "push_body", "push_post")
  /\ list' = <<obj[t]>> \o list
  /\ obj' = [obj EXCEPT ![t] = NULL]
  /\ UNCHANGED <<semPush, semPull, qMutex, free, status, tmo, flushing, badFree>>

(* The caller frees the object that it has handed over.                    *)
PushInsertKeepsObject(t) ==
  /\ status[t] = "SUCCESS"
  /\ Goto(t, "push_body", "push_post")
  /\ list' = Append(list, obj[t])
  /\ UNCHANGED <<semPush, semPull, qMutex, free, status, tmo, obj, flushing, badFree>>

(* No post for the consumers.                                              *)
PushPostMissing(t) ==
  /\ Goto(t, "push_post", "push_unlock")
  /\ UNCHANGED <<semPush, semPull, qMutex, list, free, status, tmo, obj, flushing, badFree>>

(* A Push that overwrote an object goes on to post semPull.                *)
PushOverwritePosts(t) ==
  /\ status[t] = "SEM_TIMEOUT"
  /\ Mode \in {"OVERWRITE_OLDEST", "OVERWRITE_NEWEST"}
  /\ Goto(t, "push_body", "push_post")
  /\ list' = IF list = <<>> THEN <<obj[t]>> ELSE Append(Tail(list), obj[t])
  /\ SetStatus(t, "SUCCESS")
  /\ obj' = [obj EXCEPT ![t] = NULL]
  /\ UNCHANGED <<semPush, semPull, qMutex, free, tmo, flushing, badFree>>

(* The underflow's return path forgets the mutex.                          *)
PullUnderflowKeepsMutex(t) ==
  /\ status[t] # "SUCCESS"
  /\ Goto(t, "pull_body", "pulled")
  /\ SetStatus(t, "Q_UNDERFLOW")
  /\ UNCHANGED <<semPush, semPull, qMutex, list, free, tmo, obj, flushing, badFree>>

(* No post for the producers.                                              *)
PullPostMissing(t) ==
  /\ Goto(t, "pull_post", "pull_unlock")
  /\ UNCHANGED <<semPush, semPull, qMutex, list, free, status, tmo, obj, flushing, badFree>>

(* A wait in the place of the post.                                        *)
PullPostWaits(t) ==
  /\ Goto(t, "pull_post", "pull_unlock")
  /\ semPush' = semPush - 1
  /\ UNCHANGED <<semPull, qMutex, list, free, status, tmo, obj, flushing, badFree>>

-----------------------------------------------------------------------------
(***************************************************************************)
(* phOsal_QueuePush                                                        *)
(***************************************************************************)
PushCall(t, o, timeout) ==
  /\ t \in Pushers
  /\ o \in free
  /\ timeout \in PushTimeouts
  /\ Goto(t, "idle", "push_wait")
  /\ free' = free \ {o}
  /\ obj' = [obj EXCEPT ![t] = o]
  /\ tmo' = [tmo EXCEPT ![t] = timeout]
  /\ UNCHANGED <<semPush, semPull, qMutex, list, status, flushing, badFree>>

(* The caller is done with the object in its hand, if it has one: it frees *)
(* the block or drops the only pointer to it.                              *)
LetGo(t) ==
  /\ free' \in {free, free \cup ({obj[t]} \ {NULL})}
  /\ obj' = [obj EXCEPT ![t] = NULL]

(* The caller of a Push that failed still owns its object.  The library's  *)
(* own callback and DeInit free it; its LLCP callback and the callbacks of *)
(* the middleware only log the failure.                                    *)
PushFails(t, s) ==
  /\ pc' = [pc EXCEPT ![t] = "idle"]
  /\ SetStatus(t, s)
  /\ LetGo(t)

PushWaitFails(t) ==
  /\ pc[t] = "push_wait"
  /\ SemaphoreWait(semPush, semPush', tmo[t], "FAILED")
  /\ PushFails(t, "FAILED")
  /\ UNCHANGED <<semPull, qMutex, list, tmo, flushing, badFree>>

PushWait(t) ==
  /\ Goto(t, "push_wait", "push_lock")
  /\ \E s \in {"SUCCESS", "SEM_TIMEOUT", "INVALID_PARAMS"} :
       SemaphoreWait(semPush, semPush', tmo[t], s) /\ SetStatus(t, s)
  /\ UNCHANGED <<semPull, qMutex, list, free, tmo, obj, flushing, badFree>>

PushLock(t) ==
  /\ Goto(t, "push_lock", "push_body")
  /\ MutexLock(t)
  /\ UNCHANGED <<semPush, semPull, list, free, status, tmo, obj, flushing, badFree>>

(* A slot was empty: the object becomes the newest of the list.            *)
PushInsert(t) ==
  /\ status[t] = "SUCCESS"
  /\ Goto(t, "push_body", "push_post")
  /\ list' = Append(list, obj[t])
  /\ obj' = [obj EXCEPT ![t] = NULL]
  /\ UNCHANGED <<semPush, semPull, qMutex, free, status, tmo, flushing, badFree>>

PushPost(t) ==
  /\ Goto(t, "push_post", "push_unlock")
  /\ semPull' = semPull + 1
  /\ UNCHANGED <<semPush, qMutex, list, free, status, tmo, obj, flushing, badFree>>

(* Overflow of a queue that does not overwrite.                            *)
PushOverflow(t) ==
  /\ pc[t] = "push_body"
  /\ status[t] = "SEM_TIMEOUT"
  /\ Mode = "NO_OVERWRITE"
  /\ MutexUnlock(t)
  /\ PushFails(t, "Q_OVERFLOW")
  /\ UNCHANGED <<semPush, semPull, list, tmo, flushing, badFree>>

(* What is left of the list when one object made room.                     *)
Overwritten ==
  CASE list = <<>> -> <<>>
    [] list # <<>> /\ Mode = "OVERWRITE_OLDEST" -> Tail(list)
    [] OTHER -> SubSeq(list, 1, Len(list) - 1)

(* Overflow of a queue that overwrites: an object is removed at the head   *)
(* or at the tail and the new one inserted, without any semaphore post.    *)
(* Nothing refers to the removed object any more: it is neither queued,    *)
(* nor in a hand, nor free.  If the list is empty by now the removal       *)
(* fails, the insertion does not, and Push returns the failure.            *)
PushOverwrite(t) ==
  /\ status[t] = "SEM_TIMEOUT"
  /\ Mode \in {"OVERWRITE_OLDEST", "OVERWRITE_NEWEST"}
  /\ Goto(t, "push_body", "push_unlock")
  /\ list' = Append(Overwritten, obj[t])
  /\ SetStatus(t, IF list = <<>> THEN "INVALID_PARAMS" ELSE "SUCCESS")
  /\ obj' = [obj EXCEPT ![t] = IF list = <<>> THEN @ ELSE NULL]
  /\ UNCHANGED <<semPush, semPull, qMutex, free, tmo, flushing, badFree>>

(* Any other status of the wait: return without unlocking.                 *)
PushError(t) ==
  /\ pc[t] = "push_body"
  /\ status[t] = "INVALID_PARAMS"
  /\ PushFails(t, "FAILED")
  /\ UNCHANGED <<semPush, semPull, qMutex, list, tmo, flushing, badFree>>

PushUnlock(t) ==
  /\ pc[t] = "push_unlock"
  /\ MutexUnlock(t)
  /\ PushFails(t, status[t])
  /\ UNCHANGED <<semPush, semPull, list, tmo, flushing, badFree>>

Push(t) ==
  \/ \E o \in free, timeout \in PushTimeouts : PushCall(t, o, timeout)
  \/ PushWaitFails(t) \/ PushWait(t) \/ PushLock(t) \/ PushInsert(t) \/ PushPost(t)
  \/ PushOverflow(t) \/ PushOverwrite(t) \/ PushError(t) \/ PushUnlock(t)

-----------------------------------------------------------------------------
(***************************************************************************)
(* phOsal_QueuePull                                                        *)
(***************************************************************************)
PullCall(t, timeout) ==
  /\ t \in Pullers
  /\ timeout \in PullTimeouts
  /\ Goto(t, "idle", "pull_wait")
  /\ tmo' = [tmo EXCEPT ![t] = timeout]
  /\ UNCHANGED <<semPush, semPull, qMutex, list, free, status, obj, flushing, badFree>>

PullWaitFails(t) ==
  /\ Goto(t, "pull_wait", "pulled")
  /\ SemaphoreWait(semPull, semPull', tmo[t], "FAILED")
  /\ SetStatus(t, "FAILED")
  /\ UNCHANGED <<semPush, qMutex, list, free, tmo, obj, flushing, badFree>>

PullWait(t) ==
  /\ Goto(t, "pull_wait", "pull_lock")
  /\ \E s \in {"SUCCESS", "SEM_TIMEOUT", "INVALID_PARAMS"} :
       SemaphoreWait(semPull, semPull', tmo[t], s) /\ SetStatus(t, s)
  /\ UNCHANGED <<semPush, qMutex, list, free, tmo, obj, flushing, badFree>>

PullLock(t) ==
  /\ Goto(t, "pull_lock", "pull_body")
  /\ MutexLock(t)
  /\ UNCHANGED <<semPush, semPull, list, free, status, tmo, obj, flushing, badFree>>

PullUnderflow(t) ==
  /\ status[t] # "SUCCESS"
  /\ Goto(t, "pull_body", "pulled")
  /\ MutexUnlock(t)
  /\ SetStatus(t, "Q_UNDERFLOW")
  /\ UNCHANGED <<semPush, semPull, list, free, tmo, obj, flushing, badFree>>

(* A token was taken: the oldest object is removed.  If                    *)
(* phOsal_ListRemoveNode finds no node its status is returned as it is.    *)
PullRemove(t) ==
  /\ status[t] = "SUCCESS"
  /\ IF list = <<>>
     THEN /\ Goto(t, "pull_body", "pulled")
          /\ MutexUnlock(t)
          /\ SetStatus(t, "INVALID_PARAMS")
          /\ UNCHANGED <<list, obj>>
     ELSE /\ Goto(t, "pull_body", "pull_post")
          /\ list' = Tail(list)
          /\ obj' = [obj EXCEPT ![t] = Head(list)]
          /\ UNCHANGED <<qMutex, status>>
  /\ UNCHANGED <<semPush, semPull, free, tmo, flushing, badFree>>

PullPost(t) ==
  /\ Goto(t, "pull_post", "pull_unlock")
  /\ semPush' = semPush + 1
  /\ UNCHANGED <<semPull, qMutex, list, free, status, tmo, obj, flushing, badFree>>

PullUnlock(t) ==
  /\ Goto(t, "pull_unlock", "pulled")
  /\ MutexUnlock(t)
  /\ UNCHANGED <<semPush, semPull, list, free, status, tmo, obj, flushing, badFree>>

(* The waits of the middleware free every event they pull; the handlers of *)
(* the event loop, HCE-F and LLCP free some and drop others, the UICC's    *)
(* handler drops them all.                                                 *)
Consume(t) ==
  /\ ~flushing[t]
  /\ Goto(t, "pulled", "idle")
  /\ LetGo(t)
  /\ UNCHANGED <<semPush, semPull, qMutex, list, status, tmo, flushing, badFree>>

Pull(t) ==
  \/ \E timeout \in PullTimeouts : PullCall(t, timeout)
  \/ PullWaitFails(t) \/ PullWait(t) \/ PullLock(t) \/ PullUnderflow(t)
  \/ PullRemove(t) \/ PullPost(t) \/ PullUnlock(t) \/ Consume(t)

-----------------------------------------------------------------------------
(***************************************************************************)
(* phOsal_QueueFlush: Pull with a timeout of one millisecond until it      *)
(* reports an underflow, freeing what was pulled.                          *)
(***************************************************************************)
FlushCall(t) ==
  /\ t \in Flushers
  /\ Goto(t, "idle", "pull_wait")
  /\ tmo' = [tmo EXCEPT ![t] = "millis"]
  /\ flushing' = [flushing EXCEPT ![t] = TRUE]
  /\ UNCHANGED <<semPush, semPull, qMutex, list, free, status, obj, badFree>>

(* Pull reported anything but an underflow: free what pvQueueData holds    *)
(* and pull again.  A Pull that failed did not set pvQueueData: the        *)
(* pointer is indeterminate in the first round (it may happen to be NULL)  *)
(* and the object freed before in the later ones.                          *)
FlushNext(t) ==
  /\ flushing[t]
  /\ status[t] # "Q_UNDERFLOW"
  /\ Goto(t, "pulled", "pull_wait")
  /\ free' = free \cup ({obj[t]} \ {NULL})
  /\ obj' = [obj EXCEPT ![t] = NULL]
  /\ badFree' \in IF status[t] = "FAILED" THEN {badFree, TRUE} ELSE {badFree}
  /\ UNCHANGED <<semPush, semPull, qMutex, list, status, tmo, flushing>>

FlushReturn(t) ==
  /\ flushing[t]
  /\ status[t] = "Q_UNDERFLOW"
  /\ Goto(t, "pulled", "idle")
  /\ flushing' = [flushing EXCEPT ![t] = FALSE]
  /\ UNCHANGED <<semPush, semPull, qMutex, list, free, status, tmo, obj, badFree>>

Flush(t) == FlushCall(t) \/ FlushNext(t) \/ FlushReturn(t)

-----------------------------------------------------------------------------
Next == \E t \in Threads : Push(t) \/ Pull(t) \/ Flush(t)

Spec == Init /\ [][Next]_vars

(* The scheduler runs every thread that can run; a semaphore or a mutex    *)
(* that is available again and again is obtained in the end.  Fairness is  *)
(* asked of the steps inside a call and of the puller's loop, never of the *)
(* calls to Push and Flush: nothing obliges a producer to produce.         *)
InsidePush(t) == PushInsert(t) \/ PushPost(t) \/ PushOverflow(t) \/ PushUnlock(t)

InsidePull(t) ==
  \/ PullWait(t) \/ PullUnderflow(t) \/ PullRemove(t) \/ PullPost(t) \/ PullUnlock(t)
  \/ Consume(t) \/ FlushNext(t) \/ FlushReturn(t)

FairSpec ==
  /\ Spec
  /\ \A t \in Pushers : SF_vars(PushWait(t)) /\ SF_vars(PushLock(t)) /\ WF_vars(InsidePush(t))
  /\ \A t \in Pullers \cup Flushers : SF_vars(PullLock(t)) /\ WF_vars(InsidePull(t))
  /\ \A t \in Pullers : WF_vars(\E timeout \in PullTimeouts : PullCall(t, timeout))

-----------------------------------------------------------------------------
(***************************************************************************)
(* Properties.                                                             *)
(***************************************************************************)
(* Threads that took a token of semPush and have not filled the slot yet,  *)
(* or have emptied one and not posted it yet.                              *)
HoldingSlot ==
  {t \in Threads : \/ pc[t] \in {"push_lock", "push_body"} /\ status[t] = "SUCCESS"
                   \/ pc[t] = "pull_post"}

(* Threads that took a token of semPull and have not removed their object  *)
(* yet, or have inserted one and not posted it yet.                        *)
HoldingObject ==
  {t \in Threads : \/ pc[t] \in {"pull_lock", "pull_body"} /\ status[t] = "SUCCESS"
                   \/ pc[t] = "push_post"}

(* Every slot is accounted for, whatever the interleaving: it is free,     *)
(* reserved by a Push, holds an object or is about to be released by a     *)
(* Pull; and every queued object is offered to, claimed by or about to be  *)
(* published for a Pull.  So the two semaphores never drift from the list  *)
(* that the mutex guards (phOsal_QueuePush and phOsal_QueuePull update     *)
(* them at different moments, the waits outside the mutex).                *)
TokenAccounting ==
  /\ semPush + Cardinality(HoldingSlot) + Len(list) = QLength
  /\ semPull + Cardinality(HoldingObject) = Len(list)

(* In every overwrite mode, a Pull to which the semaphore granted a token  *)
(* finds an object: the overwriting Push, which touches no semaphore,      *)
(* never leaves fewer objects than tokens, so phOsal_QueuePull never       *)
(* returns the failure of phOsal_ListRemoveNode.                           *)
GrantedPullFinds ==
  semPull + Cardinality(HoldingObject) <= Len(list)

(* A block has one owner: it is free, at one place of the list, or held by *)
(* one thread.  Otherwise the caller of phOsal_QueuePush frees an object   *)
(* that was queued, or two threads free the same one.  (Once a Flush has   *)
(* freed a pointer that no Pull gave it, nothing is claimed.)              *)
Unshared ==
  /\ \A i, j \in DOMAIN list : list[i] = list[j] => i = j
  /\ \A t, u \in Threads : obj[t] # NULL /\ obj[t] = obj[u] => t = u
  /\ \A o \in free : (\A i \in DOMAIN list : list[i] # o) /\ (\A t \in Threads : obj[t] # o)
  /\ \A t \in Threads, i \in DOMAIN list : obj[t] # list[i]

SingleOwner == ~badFree => Unshared

(* The mutex is held exactly by a thread inside the critical section of    *)
(* Push or Pull: every return path has unlocked it.                        *)
Critical == {"push_body", "push_post", "push_unlock",
             "pull_body", "pull_post", "pull_unlock"}

MutexInsideOnly == \A t \in Threads : (qMutex = t) <=> (pc[t] \in Critical)

(* The queue's header (phOsal_Queue.h, phOsal_QueuePull) documents         *)
(* OSALSTATUS_Q_UNDERFLOW as "No objects in Q even after timeout".  When   *)
(* no other call is in progress, a Pull times out only on an empty queue.  *)
TimeoutFindsEmpty ==
  \A t \in Threads :
    /\ pc[t] = "pull_wait" /\ pc'[t] = "pull_lock" /\ status'[t] # "SUCCESS"
    /\ \A u \in Threads \ {t} : pc[u] = "idle"
    => list = <<>>

UnderflowMeansEmpty == [][TimeoutFindsEmpty]_vars

(* The queue implements the atomic bounded FIFO of BoundedFifo.            *)
Fifo == INSTANCE BoundedFifo WITH Capacity <- QLength, queue <- list, inHand <- obj

ImplementsFifo == Fifo!FifoSpec

(* A Push with an infinite timeout returns, although the queue may be full *)
(* and the mutex taken when it is called: the consumers' loop makes room.  *)
PushReturns == \A t \in Pushers : pc[t] = "push_wait" ~> pc[t] = "idle"

(* An object in the queue is eventually taken, by a consumer or a Flush.   *)
Delivered ==
  \A o \in Objects : (\E i \in DOMAIN list : list[i] = o)
                         ~> (\E t \in Pullers \cup Flushers : obj[t] = o)
=============================================================================
