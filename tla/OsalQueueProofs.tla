---------------------------- MODULE OsalQueueProofs ----------------------------
(***************************************************************************)
(* Proofs about OsalQueue for any number of threads and blocks, any length *)
(* of the queue, any timeouts, with or without interrupted waits.          *)
(***************************************************************************)
EXTENDS OsalQueue, FiniteSetTheorems, SequenceTheorems, TLAPS

(* What a semaphore wait did and what it returned.                         *)
LEMMA WaitResult ==
  ASSUME NEW sem \in Nat, NEW semNext, NEW timeout, NEW result,
         SemaphoreWait(sem, semNext, timeout, result)
  PROVE  /\ semNext \in Nat
         /\ result \in Statuses
         /\ result = "SUCCESS" => sem = semNext + 1
         /\ result # "SUCCESS" => semNext = sem
BY DEF SemaphoreWait, Statuses

-----------------------------------------------------------------------------
(***************************************************************************)
(* Type correctness needs to know who holds an object: a Push appends its  *)
(* object to the list.  HandShape says it: a thread holds one in a Push    *)
(* that has not inserted it yet and in a Pull that has removed it.         *)
(***************************************************************************)
HandShape ==
  \A t \in Threads :
    /\ pc[t] \in {"push_wait", "push_lock", "push_body"} => obj[t] # NULL
    /\ pc[t] \in {"idle", "push_post", "pull_wait", "pull_lock", "pull_body"}
         => obj[t] = NULL
    /\ pc[t] \in {"pull_post", "pull_unlock"} => status[t] = "SUCCESS"
    /\ pc[t] = "pulled" /\ status[t] # "SUCCESS" => obj[t] = NULL

Shape == TypeOK /\ HandShape

LEMMA ShapeInit == Init => Shape
<1> SUFFICES ASSUME Init PROVE Shape
  OBVIOUS
<1> USE QueueAssumption DEF Init
<1>1. list \in Seq(Objects)
  BY EmptySeq
<1>2. /\ pc \in [Threads -> Steps] /\ status \in [Threads -> Statuses]
      /\ tmo \in [Threads -> Timeouts] /\ obj \in [Threads -> Objects \cup {NULL}]
      /\ flushing \in [Threads -> BOOLEAN]
  BY DEF Steps, Statuses, Timeouts
<1>3. TypeOK
  BY <1>1, <1>2 DEF TypeOK
<1>4. HandShape
  BY DEF HandShape
<1> QED
  BY <1>3, <1>4 DEF Shape

LEMMA ShapeStep == Shape /\ [Next]_vars => Shape'
<1> SUFFICES ASSUME Shape, [Next]_vars PROVE Shape'
  OBVIOUS
<1> USE QueueAssumption DEF Shape, TypeOK, HandShape, Steps, Statuses, Timeouts
<1>0. CASE UNCHANGED vars
  BY <1>0 DEF vars
<1>1. ASSUME NEW t \in Threads, Push(t) PROVE Shape'
  <2>1. ASSUME NEW o \in free, NEW timeout \in PushTimeouts, PushCall(t, o, timeout)
        PROVE  Shape'
    BY <2>1 DEF PushCall, Goto
  <2>2. CASE PushWaitFails(t)
    BY <2>2, WaitResult DEF PushWaitFails, PushFails, LetGo, SetStatus
  <2>3. CASE PushWait(t)
    BY <2>3, WaitResult DEF PushWait, Goto, SetStatus
  <2>4. CASE PushLock(t)
    BY <2>4 DEF PushLock, Goto, MutexLock
  <2>5. CASE PushInsert(t)
    <3>1. obj[t] \in Objects
      BY <2>5 DEF PushInsert, Goto
    <3> QED
      BY <2>5, <3>1 DEF PushInsert, Goto
  <2>6. CASE PushPost(t)
    BY <2>6 DEF PushPost, Goto
  <2>7. CASE PushOverflow(t)
    BY <2>7 DEF PushOverflow, PushFails, LetGo, SetStatus, MutexUnlock
  <2>8. CASE PushOverwrite(t)
    <3>1. obj[t] \in Objects
      BY <2>8 DEF PushOverwrite, Goto
    <3>2. Overwritten \in Seq(Objects)
      <4>1. CASE list = <<>>
        BY <4>1 DEF Overwritten
      <4>2. CASE list # <<>> /\ Mode = "OVERWRITE_OLDEST"
        BY <4>2, HeadTailProperties DEF Overwritten
      <4>3. CASE list # <<>> /\ Mode # "OVERWRITE_OLDEST"
        BY <4>3, SubSeqProperties, LenProperties DEF Overwritten
      <4> QED
        BY <4>1, <4>2, <4>3
    <3>3. list' \in Seq(Objects)
      BY <2>8, <3>1, <3>2 DEF PushOverwrite
    <3> QED
      BY <2>8, <3>1, <3>3 DEF PushOverwrite, Goto, SetStatus
  <2>9. CASE PushError(t)
    BY <2>9 DEF PushError, PushFails, LetGo, SetStatus
  <2>10. CASE PushUnlock(t)
    BY <2>10 DEF PushUnlock, PushFails, LetGo, SetStatus, MutexUnlock
  <2> QED
    BY <1>1, <2>1, <2>2, <2>3, <2>4, <2>5, <2>6, <2>7, <2>8, <2>9, <2>10 DEF Push
<1>2. ASSUME NEW t \in Threads, Pull(t) PROVE Shape'
  <2>1. ASSUME NEW timeout \in PullTimeouts, PullCall(t, timeout) PROVE Shape'
    BY <2>1 DEF PullCall, Goto
  <2>2. CASE PullWaitFails(t)
    BY <2>2, WaitResult DEF PullWaitFails, Goto, SetStatus
  <2>3. CASE PullWait(t)
    BY <2>3, WaitResult DEF PullWait, Goto, SetStatus
  <2>4. CASE PullLock(t)
    BY <2>4 DEF PullLock, Goto, MutexLock
  <2>5. CASE PullUnderflow(t)
    BY <2>5 DEF PullUnderflow, Goto, SetStatus, MutexUnlock
  <2>6. CASE PullRemove(t)
    <3>1. CASE list = <<>>
      BY <2>6, <3>1 DEF PullRemove, Goto, SetStatus, MutexUnlock
    <3>2. CASE list # <<>>
      <4>1. Head(list) \in Objects /\ Tail(list) \in Seq(Objects)
        BY <3>2, HeadTailProperties
      <4>2. /\ pc[t] = "pull_body" /\ pc' = [pc EXCEPT ![t] = "pull_post"]
            /\ status[t] = "SUCCESS" /\ status' = status
            /\ list' = Tail(list) /\ obj' = [obj EXCEPT ![t] = Head(list)]
            /\ UNCHANGED <<semPush, semPull, qMutex, free, tmo, flushing, badFree>>
        BY <2>6, <3>2 DEF PullRemove, Goto
      <4>3. TypeOK'
        BY <4>1, <4>2
      <4>4. HandShape'
        BY <4>2
      <4> QED
        BY <4>3, <4>4
    <3> QED
      BY <3>1, <3>2
  <2>7. CASE PullPost(t)
    BY <2>7 DEF PullPost, Goto
  <2>8. CASE PullUnlock(t)
    BY <2>8 DEF PullUnlock, Goto, MutexUnlock
  <2>9. CASE Consume(t)
    BY <2>9 DEF Consume, LetGo, Goto
  <2> QED
    BY <1>2, <2>1, <2>2, <2>3, <2>4, <2>5, <2>6, <2>7, <2>8, <2>9 DEF Pull
<1>3. ASSUME NEW t \in Threads, Flush(t) PROVE Shape'
  <2>1. CASE FlushCall(t)
    BY <2>1 DEF FlushCall, Goto
  <2>2. CASE FlushNext(t)
    BY <2>2 DEF FlushNext, Goto
  <2>3. CASE FlushReturn(t)
    BY <2>3 DEF FlushReturn, Goto
  <2> QED
    BY <1>3, <2>1, <2>2, <2>3 DEF Flush
<1> QED
  BY <1>0, <1>1, <1>2, <1>3 DEF Next

LEMMA ShapeAlways == Spec => []Shape
BY ShapeInit, ShapeStep, PTL DEF Spec

(* The queue and the calls in progress are well formed, in every overwrite *)
(* mode and however the waits end (phOsal_Queue.c:180-392).                *)
THEOREM TypesCorrect == Spec => []TypeOK
BY ShapeAlways, PTL DEF Shape

-----------------------------------------------------------------------------
(***************************************************************************)
(* Token accounting.  A step concerns one thread, so it is enough that the *)
(* step keeps the balance between the semaphores, the list and what that   *)
(* thread itself has reserved, published, claimed or is releasing.         *)
(***************************************************************************)
One(t, S) == IF t \in S THEN 1 ELSE 0

LEMMA Counting ==
  ASSUME NEW S \in SUBSET Threads, NEW t \in Threads
  PROVE  /\ Cardinality(S) \in Nat
         /\ Cardinality(S \ {t}) \in Nat
         /\ Cardinality(S) = Cardinality(S \ {t}) + One(t, S)
<1>1. IsFiniteSet(S)
  BY QueueAssumption, FS_Subset
<1>2. IsFiniteSet(S \ {t})
  BY <1>1, FS_RemoveElement
<1>3. Cardinality(S \ {t}) \in Nat /\ Cardinality(S) \in Nat
  BY <1>1, <1>2, FS_CardinalityType
<1>4. CASE t \in S
  <2>1. Cardinality(S \ {t}) = Cardinality(S) - 1
    BY <1>1, <1>4, FS_RemoveElement
  <2>2. One(t, S) = 1
    BY <1>4 DEF One
  <2> QED
    BY <1>3, <2>1, <2>2
<1>5. CASE t \notin S
  <2>1. S \ {t} = S
    BY <1>5
  <2> QED
    BY <1>3, <1>5, <2>1 DEF One
<1> QED
  BY <1>3, <1>4, <1>5

LEMMA Change ==
  ASSUME NEW S \in SUBSET Threads, NEW T \in SUBSET Threads, NEW t \in Threads,
         S \ {t} = T \ {t}
  PROVE  /\ Cardinality(S) \in Nat /\ Cardinality(T) \in Nat
         /\ Cardinality(T) + One(t, S) = Cardinality(S) + One(t, T)
<1>1. /\ Cardinality(S) \in Nat /\ Cardinality(T) \in Nat /\ Cardinality(S \ {t}) \in Nat
      /\ Cardinality(S) = Cardinality(S \ {t}) + One(t, S)
      /\ Cardinality(T) = Cardinality(S \ {t}) + One(t, T)
  BY Counting
<1>2. One(t, S) \in Int /\ One(t, T) \in Int
  BY DEF One
<1> QED
  BY <1>1, <1>2

(* The step makes the list d objects longer.                               *)
Grows(d) == Len(list') = Len(list) + d

LEMMA Balance ==
  ASSUME TokenAccounting, Shape, Shape', NEW t \in Threads, NEW d \in Int, Grows(d),
         \A u \in Threads \ {t} : pc'[u] = pc[u] /\ status'[u] = status[u],
         semPush' + One(t, HoldingSlot') = semPush + One(t, HoldingSlot) - d,
         semPull' + One(t, HoldingObject') = semPull + One(t, HoldingObject) + d
  PROVE  TokenAccounting'
<1> DEFINE n  == Len(list)
           n1 == Len(list')
<1>1. /\ semPush \in Nat /\ semPull \in Nat /\ semPush' \in Nat /\ semPull' \in Nat
      /\ n \in Nat /\ n1 \in Nat /\ QLength \in Nat
  BY QueueAssumption, LenProperties DEF Shape, TypeOK
<1>2. n1 = n + d
  BY DEF Grows
<1>3. /\ semPush + Cardinality(HoldingSlot) + n = QLength
      /\ semPull + Cardinality(HoldingObject) = n
  BY DEF TokenAccounting
<1>4. /\ HoldingSlot \ {t} = HoldingSlot' \ {t}
      /\ HoldingObject \ {t} = HoldingObject' \ {t}
  BY DEF HoldingSlot, HoldingObject
<1>5. /\ HoldingSlot \in SUBSET Threads /\ HoldingSlot' \in SUBSET Threads
      /\ HoldingObject \in SUBSET Threads /\ HoldingObject' \in SUBSET Threads
  BY DEF HoldingSlot, HoldingObject
<1>6. /\ One(t, HoldingSlot) \in Int /\ One(t, HoldingSlot') \in Int
      /\ One(t, HoldingObject) \in Int /\ One(t, HoldingObject') \in Int
  BY DEF One
<1>7. /\ Cardinality(HoldingSlot) \in Nat /\ Cardinality(HoldingSlot') \in Nat
      /\ Cardinality(HoldingSlot') + One(t, HoldingSlot)
           = Cardinality(HoldingSlot) + One(t, HoldingSlot')
  BY <1>4, <1>5, Change
<1>8. /\ Cardinality(HoldingObject) \in Nat /\ Cardinality(HoldingObject') \in Nat
      /\ Cardinality(HoldingObject') + One(t, HoldingObject)
           = Cardinality(HoldingObject) + One(t, HoldingObject')
  BY <1>4, <1>5, Change
<1> HIDE DEF n, n1
<1>9. semPush' + Cardinality(HoldingSlot') + n1 = QLength
  <2>1. semPush' + Cardinality(HoldingSlot') = semPush + Cardinality(HoldingSlot) - d
    BY <1>1, <1>6, <1>7
  <2> QED
    BY <1>1, <1>2, <1>3, <1>7, <2>1
<1>10. semPull' + Cardinality(HoldingObject') = n1
  <2>1. semPull' + Cardinality(HoldingObject') = semPull + Cardinality(HoldingObject) + d
    BY <1>1, <1>6, <1>8
  <2> QED
    BY <1>1, <1>2, <1>3, <1>8, <2>1
<1> QED
  BY <1>9, <1>10 DEF TokenAccounting, n1

LEMMA Stays == ASSUME TypeOK, list' = list PROVE Grows(0)
BY LenProperties DEF Grows, TypeOK

(* A puller that holds a token of semPull finds the list non-empty.        *)
LEMMA ClaimFinds ==
  ASSUME TokenAccounting, TypeOK, NEW t \in HoldingObject
  PROVE  list # <<>>
<1>1. t \in Threads /\ HoldingObject \in SUBSET Threads
  BY DEF HoldingObject
<1>2. /\ Cardinality(HoldingObject \ {t}) \in Nat
      /\ Cardinality(HoldingObject) = Cardinality(HoldingObject \ {t}) + 1
  BY <1>1, Counting DEF One
<1>3. Len(list) # 0
  BY <1>2 DEF TokenAccounting, TypeOK
<1> QED
  BY <1>3, EmptySeq

LEMMA TokenInit == Init => TokenAccounting
<1> SUFFICES ASSUME Init PROVE TokenAccounting
  OBVIOUS
<1>1. HoldingSlot = {} /\ HoldingObject = {}
  BY DEF Init, HoldingSlot, HoldingObject
<1> QED
  BY <1>1, FS_EmptySet, EmptySeq, QueueAssumption DEF TokenAccounting, Init

LEMMA TokenStep ==
  ASSUME Mode = "NO_OVERWRITE"
  PROVE  Shape /\ TokenAccounting /\ [Next]_vars => TokenAccounting'
<1> SUFFICES ASSUME Shape, Shape', TokenAccounting, [Next]_vars PROVE TokenAccounting'
  BY ShapeStep
<1> USE DEF Shape, TypeOK, One, HoldingSlot, HoldingObject
<1>0. CASE UNCHANGED vars
  BY <1>0 DEF vars, TokenAccounting
<1>1. ASSUME NEW t \in Threads, Push(t) PROVE TokenAccounting'
  <2>1. ASSUME NEW o \in free, NEW timeout \in PushTimeouts, PushCall(t, o, timeout)
        PROVE  TokenAccounting'
    BY <2>1, Stays, Balance DEF PushCall, Goto
  <2>2. CASE PushWaitFails(t)
    <3>1. semPush' = semPush
      BY <2>2, WaitResult DEF PushWaitFails
    <3> QED
      BY <2>2, <3>1, Stays, Balance DEF PushWaitFails, PushFails, LetGo, SetStatus
  <2>3. CASE PushWait(t)
    <3>1. PICK s \in {"SUCCESS", "SEM_TIMEOUT", "INVALID_PARAMS"} :
               SemaphoreWait(semPush, semPush', tmo[t], s) /\ SetStatus(t, s)
      BY <2>3 DEF PushWait
    <3>2. semPush' = semPush - One(s, {"SUCCESS"})
      BY <3>1, WaitResult DEF SetStatus
    <3> QED
      BY <2>3, <3>1, <3>2, Stays, Balance DEF PushWait, Goto, SetStatus
  <2>4. CASE PushLock(t)
    BY <2>4, Stays, Balance DEF PushLock, Goto, MutexLock
  <2>5. CASE PushInsert(t)
    <3>1. obj[t] \in Objects
      BY <2>5 DEF PushInsert, Goto, HandShape
    <3>2. Grows(1)
      BY <2>5, <3>1, LenProperties DEF PushInsert, Grows
    <3> QED
      BY <2>5, <3>2, Balance DEF PushInsert, Goto
  <2>6. CASE PushPost(t)
    BY <2>6, Stays, Balance DEF PushPost, Goto
  <2>7. CASE PushOverflow(t)
    BY <2>7, Stays, Balance DEF PushOverflow, PushFails, LetGo, SetStatus, MutexUnlock
  <2>8. CASE PushOverwrite(t)
    BY <2>8 DEF PushOverwrite
  <2>9. CASE PushError(t)
    BY <2>9, Stays, Balance DEF PushError, PushFails, LetGo, SetStatus
  <2>10. CASE PushUnlock(t)
    BY <2>10, Stays, Balance DEF PushUnlock, PushFails, LetGo, SetStatus, MutexUnlock
  <2> QED
    BY <1>1, <2>1, <2>2, <2>3, <2>4, <2>5, <2>6, <2>7, <2>8, <2>9, <2>10 DEF Push
<1>2. ASSUME NEW t \in Threads, Pull(t) PROVE TokenAccounting'
  <2>1. ASSUME NEW timeout \in PullTimeouts, PullCall(t, timeout)
        PROVE  TokenAccounting'
    BY <2>1, Stays, Balance DEF PullCall, Goto
  <2>2. CASE PullWaitFails(t)
    <3>1. semPull' = semPull
      BY <2>2, WaitResult DEF PullWaitFails
    <3> QED
      BY <2>2, <3>1, Stays, Balance DEF PullWaitFails, Goto, SetStatus
  <2>3. CASE PullWait(t)
    <3>1. PICK s \in {"SUCCESS", "SEM_TIMEOUT", "INVALID_PARAMS"} :
               SemaphoreWait(semPull, semPull', tmo[t], s) /\ SetStatus(t, s)
      BY <2>3 DEF PullWait
    <3>2. semPull' = semPull - One(s, {"SUCCESS"})
      BY <3>1, WaitResult DEF SetStatus
    <3> QED
      BY <2>3, <3>1, <3>2, Stays, Balance DEF PullWait, Goto, SetStatus
  <2>4. CASE PullLock(t)
    BY <2>4, Stays, Balance DEF PullLock, Goto, MutexLock
  <2>5. CASE PullUnderflow(t)
    BY <2>5, Stays, Balance DEF PullUnderflow, Goto, SetStatus, MutexUnlock
  <2>6. CASE PullRemove(t)
    <3>1. list # <<>>
      BY <2>6, ClaimFinds DEF PullRemove, Goto
    <3>2. Grows(-1)
      BY <2>6, <3>1, HeadTailProperties, LenProperties DEF PullRemove, Grows
    <3> QED
      BY <2>6, <3>1, <3>2, Balance DEF PullRemove, Goto
  <2>7. CASE PullPost(t)
    <3>1. /\ One(t, HoldingSlot) = 1 /\ One(t, HoldingSlot') = 0
          /\ One(t, HoldingObject) = 0 /\ One(t, HoldingObject') = 0
      BY <2>7 DEF PullPost, Goto
    <3>2. semPush' + 0 = semPush + 1 - 0 /\ semPull' + 0 = semPull + 0 + 0
      BY <2>7 DEF PullPost
    <3>3. /\ semPush' + One(t, HoldingSlot') = semPush + One(t, HoldingSlot) - 0
          /\ semPull' + One(t, HoldingObject') = semPull + One(t, HoldingObject) + 0
      BY <3>1, <3>2
    <3> QED
      BY <2>7, <3>3, Stays, Balance DEF PullPost, Goto
  <2>8. CASE PullUnlock(t)
    BY <2>8, Stays, Balance DEF PullUnlock, Goto, MutexUnlock
  <2>9. CASE Consume(t)
    BY <2>9, Stays, Balance DEF Consume, LetGo, Goto
  <2> QED
    BY <1>2, <2>1, <2>2, <2>3, <2>4, <2>5, <2>6, <2>7, <2>8, <2>9 DEF Pull
<1>3. ASSUME NEW t \in Threads, Flush(t) PROVE TokenAccounting'
  <2>1. CASE FlushCall(t)
    BY <2>1, Stays, Balance DEF FlushCall, Goto
  <2>2. CASE FlushNext(t)
    BY <2>2, Stays, Balance DEF FlushNext, Goto
  <2>3. CASE FlushReturn(t)
    BY <2>3, Stays, Balance DEF FlushReturn, Goto
  <2> QED
    BY <1>3, <2>1, <2>2, <2>3 DEF Flush
<1> QED
  BY <1>0, <1>1, <1>2, <1>3 DEF Next

(* In a queue that does not overwrite, every slot and every object is      *)
(* accounted for by the semaphores and the calls in progress.              *)
THEOREM TokensCorrect ==
  ASSUME Mode = "NO_OVERWRITE"
  PROVE  Spec => []TokenAccounting
<1>1. Init => Shape /\ TokenAccounting
  BY ShapeInit, TokenInit
<1>2. Shape /\ TokenAccounting /\ [Next]_vars => (Shape /\ TokenAccounting)'
  BY ShapeStep, TokenStep
<1> QED
  BY <1>1, <1>2, PTL DEF Spec

-----------------------------------------------------------------------------
(***************************************************************************)
(* Granted Pulls, in every mode: an overwriting Push posts no semaphore,   *)
(* and leaves the list as long as it was or longer.                        *)
(***************************************************************************)
(* The step leaves as many more objects as it grants tokens, or more.      *)
Covers(t) ==
  semPull' + One(t, HoldingObject') + Len(list) <= semPull + One(t, HoldingObject) + Len(list')

LEMMA Surplus ==
  ASSUME GrantedPullFinds, Shape, Shape', NEW t \in Threads,
         \A u \in Threads \ {t} : pc'[u] = pc[u] /\ status'[u] = status[u],
         Covers(t)
  PROVE  GrantedPullFinds'
<1> DEFINE n  == Len(list)
           n1 == Len(list')
<1>1. semPull \in Nat /\ semPull' \in Nat /\ n \in Nat /\ n1 \in Nat
  BY LenProperties DEF Shape, TypeOK
<1>2. /\ HoldingObject \ {t} = HoldingObject' \ {t}
      /\ HoldingObject \in SUBSET Threads /\ HoldingObject' \in SUBSET Threads
  BY DEF HoldingObject
<1>3. /\ Cardinality(HoldingObject) \in Nat /\ Cardinality(HoldingObject') \in Nat
      /\ Cardinality(HoldingObject') + One(t, HoldingObject)
           = Cardinality(HoldingObject) + One(t, HoldingObject')
  BY <1>2, Change
<1>4. One(t, HoldingObject) \in Int /\ One(t, HoldingObject') \in Int
  BY DEF One
<1>5. /\ semPull + Cardinality(HoldingObject) <= n
      /\ semPull' + One(t, HoldingObject') + n <= semPull + One(t, HoldingObject) + n1
  BY DEF GrantedPullFinds, Covers
<1> HIDE DEF n, n1
<1>6. semPull' + Cardinality(HoldingObject') <= n1
  <2>1. PICK c \in Nat, c1 \in Nat :
          c = Cardinality(HoldingObject) /\ c1 = Cardinality(HoldingObject')
    BY <1>3
  <2>2. PICK o \in Int, o1 \in Int : o = One(t, HoldingObject) /\ o1 = One(t, HoldingObject')
    BY <1>4
  <2>3. PICK p \in Int, p1 \in Int, m \in Int, m1 \in Int :
          p = semPull /\ p1 = semPull' /\ m = n /\ m1 = n1
    BY <1>1
  <2>4. c1 + o = c + o1
    BY <1>3, <2>1, <2>2
  <2>5. p + c <= m /\ p1 + o1 + m <= p + o + m1
    BY <1>5, <2>1, <2>2, <2>3
  <2>6. p1 + c1 <= m1
    BY <2>4, <2>5
  <2> QED
    BY <2>1, <2>3, <2>6
<1> QED
  BY <1>6 DEF GrantedPullFinds, n1

(* A step that touches neither, and gives its thread no token.             *)
LEMMA Undisturbed ==
  ASSUME GrantedPullFinds, Shape, Shape', NEW t \in Threads,
         \A u \in Threads \ {t} : pc'[u] = pc[u] /\ status'[u] = status[u],
         UNCHANGED <<semPull, list>>, t \notin HoldingObject'
  PROVE  GrantedPullFinds'
<1>1. One(t, HoldingObject') = 0 /\ One(t, HoldingObject) \in {0, 1}
  BY DEF One
<1>2. semPull \in Nat /\ Len(list) \in Nat
  BY LenProperties DEF Shape, TypeOK
<1>3. Covers(t)
  BY <1>1, <1>2 DEF Covers
<1> QED
  BY <1>3, Surplus

LEMMA GrantedFinds ==
  ASSUME GrantedPullFinds, TypeOK, NEW t \in HoldingObject
  PROVE  list # <<>>
<1>1. t \in Threads /\ HoldingObject \in SUBSET Threads
  BY DEF HoldingObject
<1>2. /\ Cardinality(HoldingObject \ {t}) \in Nat
      /\ Cardinality(HoldingObject) = Cardinality(HoldingObject \ {t}) + 1
  BY <1>1, Counting DEF One
<1>3. Len(list) # 0
  BY <1>2 DEF GrantedPullFinds, TypeOK
<1> QED
  BY <1>3, EmptySeq

LEMMA OverwriteGrows ==
  ASSUME Shape, NEW t \in Threads, PushOverwrite(t)
  PROVE  Len(list') >= Len(list)
<1> DEFINE n == Len(list)
<1>1. obj[t] \in Objects /\ list \in Seq(Objects) /\ n \in Nat
  BY LenProperties DEF PushOverwrite, Goto, Shape, TypeOK, HandShape
<1>2. list = <<>> => n = 0
  BY EmptySeq
<1>3. Overwritten \in Seq(Objects) /\ Len(Overwritten) >= n - 1
  <2>1. CASE list = <<>>
    BY <1>2, <2>1, EmptySeq DEF Overwritten
  <2>2. CASE list # <<>> /\ Mode = "OVERWRITE_OLDEST"
    BY <1>1, <2>2, HeadTailProperties DEF Overwritten
  <2>3. CASE list # <<>> /\ Mode # "OVERWRITE_OLDEST"
    <3>1. n # 0
      BY <1>1, <2>3, EmptySeq
    <3>2. SubSeq(list, 1, n - 1) \in Seq(Objects) /\ Len(SubSeq(list, 1, n - 1)) = n - 1
      <4>1. 1 \in Int /\ n - 1 \in Int /\ \A i \in 1..(n - 1) : list[i] \in Objects
        BY <1>1
      <4>2. /\ SubSeq(list, 1, n - 1) \in Seq(Objects)
            /\ Len(SubSeq(list, 1, n - 1)) = IF 1 <= n - 1 THEN (n - 1) - 1 + 1 ELSE 0
        BY <4>1, SubSeqProperties
      <4>3. n \in Nat \ {0}
        BY <1>1, <3>1
      <4>4. (IF 1 <= n - 1 THEN (n - 1) - 1 + 1 ELSE 0) = n - 1
        BY <4>3
      <4> QED
        BY <4>2, <4>4
    <3> QED
      BY <2>3, <3>2 DEF Overwritten
  <2> QED
    BY <2>1, <2>2, <2>3
<1>4. Len(list') = Len(Overwritten) + 1
  BY <1>1, <1>3, AppendProperties DEF PushOverwrite
<1> QED
  BY <1>1, <1>3, <1>4

LEMMA GrantedStep == Shape /\ GrantedPullFinds /\ [Next]_vars => GrantedPullFinds'
<1> SUFFICES ASSUME Shape, Shape', GrantedPullFinds, [Next]_vars PROVE GrantedPullFinds'
  BY ShapeStep
<1> USE DEF Shape, TypeOK, One, HoldingObject, Covers
<1>n. Len(list) \in Nat /\ semPull \in Nat
  BY LenProperties
<1>0. CASE UNCHANGED vars
  BY <1>0 DEF vars, GrantedPullFinds
<1>1. ASSUME NEW t \in Threads, Push(t) PROVE GrantedPullFinds'
  <2>1. ASSUME NEW o \in free, NEW timeout \in PushTimeouts, PushCall(t, o, timeout)
        PROVE  GrantedPullFinds'
    BY <2>1, Undisturbed DEF PushCall, Goto
  <2>2. CASE PushWaitFails(t) \/ PushError(t)
    BY <2>2, Undisturbed DEF PushWaitFails, PushError, PushFails, LetGo, SetStatus
  <2>3. CASE PushWait(t)
    BY <2>3, Undisturbed DEF PushWait, Goto, SetStatus
  <2>4. CASE PushLock(t)
    BY <2>4, Undisturbed DEF PushLock, Goto
  <2>5. CASE PushInsert(t)
    <3>1. Len(list') = Len(list) + 1
      BY <2>5, LenProperties DEF PushInsert, Goto, HandShape
    <3>2. /\ semPull' = semPull /\ One(t, HoldingObject') = 1 /\ One(t, HoldingObject) = 0
          /\ \A u \in Threads \ {t} : pc'[u] = pc[u] /\ status'[u] = status[u]
      BY <2>5 DEF PushInsert, Goto
    <3> QED
      BY <1>n, <3>1, <3>2, Surplus
  <2>6. CASE PushPost(t)
    BY <1>n, <2>6, Surplus DEF PushPost, Goto
  <2>7. CASE PushOverflow(t) \/ PushUnlock(t)
    BY <2>7, Undisturbed DEF PushOverflow, PushUnlock, PushFails, LetGo, SetStatus
  <2>8. CASE PushOverwrite(t)
    <3>1. Len(list') >= Len(list) /\ Len(list') \in Nat
      BY <2>8, OverwriteGrows, LenProperties
    <3>2. /\ semPull' = semPull /\ One(t, HoldingObject') = 0
          /\ \A u \in Threads \ {t} : pc'[u] = pc[u] /\ status'[u] = status[u]
      BY <2>8 DEF PushOverwrite, Goto, SetStatus
    <3>3. One(t, HoldingObject) = 0
      BY <2>8 DEF PushOverwrite, Goto
    <3> QED
      BY <1>n, <3>1, <3>2, <3>3, Surplus
  <2> QED
    BY <1>1, <2>1, <2>2, <2>3, <2>4, <2>5, <2>6, <2>7, <2>8 DEF Push
<1>2. ASSUME NEW t \in Threads, Pull(t) PROVE GrantedPullFinds'
  <2>1. ASSUME NEW timeout \in PullTimeouts, PullCall(t, timeout) PROVE GrantedPullFinds'
    BY <2>1, Undisturbed DEF PullCall, Goto
  <2>2. CASE PullWaitFails(t)
    <3>1. semPull' = semPull
      BY <2>2, WaitResult DEF PullWaitFails
    <3> QED
      BY <1>n, <2>2, <3>1, Surplus DEF PullWaitFails, Goto, SetStatus
  <2>3. CASE PullWait(t)
    <3>1. PICK s \in {"SUCCESS", "SEM_TIMEOUT", "INVALID_PARAMS"} :
               SemaphoreWait(semPull, semPull', tmo[t], s) /\ SetStatus(t, s)
      BY <2>3 DEF PullWait
    <3>2. semPull' = semPull - One(s, {"SUCCESS"})
      <4>1. CASE s = "SUCCESS"
        BY <1>n, <3>1, <4>1, WaitResult
      <4>2. CASE s # "SUCCESS"
        BY <1>n, <3>1, <4>2, WaitResult
      <4> QED
        BY <4>1, <4>2
    <3>3. /\ One(t, HoldingObject) = 0 /\ UNCHANGED list
          /\ One(t, HoldingObject') = One(s, {"SUCCESS"})
      BY <2>3, <3>1 DEF PullWait, Goto, SetStatus
    <3> HIDE DEF One, HoldingObject
    <3>4. PICK d \in Int : d = One(s, {"SUCCESS"})
      BY DEF One
    <3>5. Covers(t)
      BY <1>n, <3>2, <3>3, <3>4
    <3> QED
      BY <2>3, <3>1, <3>5, Surplus DEF PullWait, Goto, SetStatus
  <2>4. CASE PullLock(t)
    BY <1>n, <2>4, Surplus DEF PullLock, Goto
  <2>5. CASE PullUnderflow(t)
    BY <2>5, Undisturbed DEF PullUnderflow, Goto, SetStatus
  <2>6. CASE PullRemove(t)
    <3>1. list # <<>>
      BY <2>6, GrantedFinds DEF PullRemove, Goto
    <3>2. Len(list') = Len(list) - 1
      BY <2>6, <3>1, HeadTailProperties DEF PullRemove
    <3> QED
      BY <1>n, <2>6, <3>1, <3>2, Surplus DEF PullRemove, Goto
  <2>7. CASE PullPost(t) \/ PullUnlock(t)
    BY <2>7, Undisturbed DEF PullPost, PullUnlock, Goto
  <2>8. CASE Consume(t)
    BY <2>8, Undisturbed DEF Consume, LetGo, Goto
  <2> QED
    BY <1>2, <2>1, <2>2, <2>3, <2>4, <2>5, <2>6, <2>7, <2>8 DEF Pull
<1>3. ASSUME NEW t \in Threads, Flush(t) PROVE GrantedPullFinds'
  BY <1>3, Undisturbed DEF Flush, FlushCall, FlushNext, FlushReturn, Goto
<1> QED
  BY <1>0, <1>1, <1>2, <1>3 DEF Next

(* In every overwrite mode, with timed, interrupted and flushing Pulls, a  *)
(* Pull that the semaphore granted a token finds an object to remove       *)
(* (phOsal_Queue.c:180-392).                                               *)
THEOREM GrantedCorrect == Spec => []GrantedPullFinds
<1>1. Init => GrantedPullFinds
  <2> SUFFICES ASSUME Init PROVE GrantedPullFinds
    OBVIOUS
  <2>1. HoldingObject = {}
    BY DEF Init, HoldingObject
  <2> QED
    BY <2>1, FS_EmptySet, EmptySeq DEF GrantedPullFinds, Init
<1> QED
  BY <1>1, ShapeAlways, GrantedStep, PTL DEF Spec

-----------------------------------------------------------------------------
LEMMA TimeoutStep ==
  TypeOK /\ TokenAccounting /\ [Next]_vars => [TimeoutFindsEmpty]_vars
<1> SUFFICES ASSUME TypeOK, TokenAccounting, Next, NEW t \in Threads,
                    pc[t] = "pull_wait", pc'[t] = "pull_lock", status'[t] # "SUCCESS",
                    \A u \in Threads \ {t} : pc[u] = "idle"
             PROVE  list = <<>>
  BY DEF TimeoutFindsEmpty
<1> USE DEF TypeOK
<1>1. semPull = 0
  <2>1. ASSUME NEW u \in Threads, Push(u) PROVE FALSE
    BY <2>1 DEF Push, PushCall, PushWaitFails, PushWait, PushLock, PushInsert, PushPost,
                PushOverflow, PushOverwrite, PushError, PushUnlock, PushFails, LetGo, Goto
  <2>2. ASSUME NEW u \in Threads, Pull(u), ~PullWait(u) PROVE FALSE
    BY <2>2 DEF Pull, PullCall, PullWaitFails, PullLock, PullUnderflow, PullRemove,
                PullPost, PullUnlock, Consume, LetGo, Goto
  <2>3. ASSUME NEW u \in Threads, Flush(u) PROVE FALSE
    BY <2>3 DEF Flush, FlushCall, FlushNext, FlushReturn, Goto
  <2>4. ASSUME NEW u \in Threads, PullWait(u) PROVE semPull = 0
    <3>1. u = t
      BY <2>4 DEF PullWait, Goto
    <3> QED
      BY <2>4, <3>1 DEF PullWait, Goto, SetStatus, SemaphoreWait
  <2> QED
    BY <2>1, <2>2, <2>3, <2>4 DEF Next
<1>2. HoldingObject = {}
  BY DEF HoldingObject
<1>3. Len(list) = 0
  BY <1>1, <1>2, FS_EmptySet DEF TokenAccounting
<1> QED
  BY <1>3, EmptySeq

(* A Pull that times out while no other call is in progress found the      *)
(* queue empty.                                                            *)
THEOREM UnderflowCorrect ==
  ASSUME Mode = "NO_OVERWRITE"
  PROVE  Spec => UnderflowMeansEmpty
<1>1. Init => Shape /\ TokenAccounting
  BY ShapeInit, TokenInit
<1>2. Shape /\ TokenAccounting /\ [Next]_vars => (Shape /\ TokenAccounting)'
  BY ShapeStep, TokenStep
<1>3. Shape /\ TokenAccounting /\ [Next]_vars => [TimeoutFindsEmpty]_vars
  BY TimeoutStep DEF Shape
<1> QED
  BY <1>1, <1>2, <1>3, PTL DEF Spec, UnderflowMeansEmpty

-----------------------------------------------------------------------------
(***************************************************************************)
(* Ownership of the blocks.                                                *)
(***************************************************************************)
LEMMA OwnersInit == Init => Unshared
<1> SUFFICES ASSUME Init PROVE Unshared
  OBVIOUS
<1>1. DOMAIN list = {}
  BY EmptySeq DEF Init
<1>2. \A t \in Threads : obj[t] = NULL
  BY DEF Init
<1> QED
  BY <1>1, <1>2, QueueAssumption DEF Init, Unshared

(* A step that moves no block.                                             *)
LEMMA OwnersStay == Unshared /\ UNCHANGED <<list, obj, free>> => Unshared'
BY DEF Unshared

(* A step by which thread t frees or drops what it holds.                  *)
LEMMA OwnersFree ==
  ASSUME TypeOK, Unshared, NEW t \in Threads, UNCHANGED list, LetGo(t)
  PROVE  Unshared'
BY QueueAssumption DEF TypeOK, Unshared, LetGo

LEMMA OwnersStep ==
  ASSUME Mode = "NO_OVERWRITE"
  PROVE  Shape /\ Unshared /\ [Next]_vars => Unshared'
<1> SUFFICES ASSUME Shape, Unshared, [Next]_vars PROVE Unshared'
  OBVIOUS
<1> USE QueueAssumption DEF Shape
<1>0. CASE UNCHANGED vars
  BY <1>0, OwnersStay DEF vars
<1>1. ASSUME NEW t \in Threads, Push(t) PROVE Unshared'
  <2>1. ASSUME NEW o \in free, NEW timeout \in PushTimeouts, PushCall(t, o, timeout)
        PROVE  Unshared'
    <3>1. obj[t] = NULL /\ o \in Objects
      BY <2>1 DEF PushCall, Goto, HandShape, TypeOK
    <3>2. free' = free \ {o} /\ obj' = [obj EXCEPT ![t] = o] /\ list' = list
      BY <2>1 DEF PushCall
    <3> QED
      BY <3>1, <3>2 DEF Unshared, TypeOK
  <2>2. CASE PushWaitFails(t) \/ PushOverflow(t) \/ PushError(t) \/ PushUnlock(t)
    BY <2>2, OwnersFree DEF PushWaitFails, PushOverflow, PushError, PushUnlock, PushFails
  <2>3. CASE PushWait(t) \/ PushLock(t) \/ PushPost(t)
    BY <2>3, OwnersStay DEF PushWait, PushLock, PushPost
  <2>4. CASE PushInsert(t)
    <3>1. obj[t] \in Objects
      BY <2>4 DEF PushInsert, Goto, HandShape, TypeOK
    <3>2. list' = Append(list, obj[t]) /\ obj' = [obj EXCEPT ![t] = NULL] /\ free' = free
      BY <2>4 DEF PushInsert
    <3>3. /\ DOMAIN list = 1 .. Len(list) /\ Len(list) \in Nat
          /\ DOMAIN list' = 1 .. Len(list) + 1
          /\ \A i \in 1 .. Len(list) : list'[i] = list[i]
          /\ list'[Len(list) + 1] = obj[t]
      BY <3>1, <3>2, LenProperties DEF TypeOK
    <3> QED
      BY <3>1, <3>2, <3>3 DEF Unshared, TypeOK
  <2>5. CASE PushOverwrite(t)
    BY <2>5 DEF PushOverwrite
  <2> QED
    BY <1>1, <2>1, <2>2, <2>3, <2>4, <2>5 DEF Push
<1>2. ASSUME NEW t \in Threads, Pull(t) PROVE Unshared'
  <2>1. ASSUME NEW timeout \in PullTimeouts, PullCall(t, timeout) PROVE Unshared'
    BY <2>1, OwnersStay DEF PullCall
  <2>2. CASE \/ PullWaitFails(t) \/ PullWait(t) \/ PullLock(t) \/ PullUnderflow(t)
             \/ PullPost(t) \/ PullUnlock(t)
    BY <2>2, OwnersStay
    DEF PullWaitFails, PullWait, PullLock, PullUnderflow, PullPost, PullUnlock
  <2>3. CASE PullRemove(t)
    <3>1. CASE list = <<>>
      BY <2>3, <3>1, OwnersStay DEF PullRemove
    <3>2. CASE list # <<>>
      <4>1. obj[t] = NULL
        BY <2>3, <3>2 DEF PullRemove, Goto, HandShape
      <4>2. list' = Tail(list) /\ obj' = [obj EXCEPT ![t] = Head(list)] /\ free' = free
        BY <2>3, <3>2 DEF PullRemove
      <4>3. /\ DOMAIN list = 1 .. Len(list) /\ Len(list) \in Nat \ {0}
            /\ DOMAIN list' = 1 .. Len(list) - 1
            /\ \A i \in 1 .. Len(list) - 1 : list'[i] = list[i + 1]
            /\ obj'[t] = list[1] /\ list[1] \in Objects
        BY <3>2, <4>2, EmptySeq, LenProperties, HeadTailProperties DEF TypeOK
      <4> QED
        BY <4>1, <4>2, <4>3 DEF Unshared, TypeOK
    <3> QED
      BY <3>1, <3>2
  <2>4. CASE Consume(t)
    BY <2>4, OwnersFree DEF Consume
  <2> QED
    BY <1>2, <2>1, <2>2, <2>3, <2>4 DEF Pull
<1>3. ASSUME NEW t \in Threads, Flush(t) PROVE Unshared'
  <2>1. CASE FlushCall(t) \/ FlushReturn(t)
    BY <2>1, OwnersStay DEF FlushCall, FlushReturn
  <2>2. CASE FlushNext(t)
    BY <2>2, OwnersFree DEF FlushNext, LetGo
  <2> QED
    BY <1>3, <2>1, <2>2 DEF Flush
<1> QED
  BY <1>0, <1>1, <1>2, <1>3 DEF Next

LEMMA OwnersAlways ==
  ASSUME Mode = "NO_OVERWRITE"
  PROVE  Spec => []Unshared
<1>1. Init => Shape /\ Unshared
  BY ShapeInit, OwnersInit
<1>2. Shape /\ Unshared /\ [Next]_vars => (Shape /\ Unshared)'
  BY ShapeStep, OwnersStep
<1> QED
  BY <1>1, <1>2, PTL DEF Spec

(* In a queue that does not overwrite no block ever has two owners: what   *)
(* is queued is not freed, and no two threads free the same block.         *)
THEOREM OwnersCorrect ==
  ASSUME Mode = "NO_OVERWRITE"
  PROVE  Spec => []SingleOwner
<1>1. Unshared => SingleOwner
  BY DEF SingleOwner
<1> QED
  BY <1>1, OwnersAlways, PTL

-----------------------------------------------------------------------------
(***************************************************************************)
(* The mutex, when no signal interrupts a wait: then a Push is past its    *)
(* wait only with a token or after a timeout, and PushError is not taken.  *)
(***************************************************************************)
Waited ==
  \A t \in Threads :
    pc[t] \in {"push_lock", "push_body"} => status[t] \in {"SUCCESS", "SEM_TIMEOUT"}

Guarded == MutexInsideOnly /\ Waited

LEMMA GuardedInit == Init => Guarded
BY QueueAssumption DEF Init, Guarded, MutexInsideOnly, Waited, Critical

LEMMA GuardedStep ==
  ASSUME ~Interrupts
  PROVE  TypeOK /\ Guarded /\ [Next]_vars => Guarded'
<1> SUFFICES ASSUME TypeOK, Guarded, [Next]_vars PROVE Guarded'
  OBVIOUS
<1> USE QueueAssumption DEF TypeOK, Guarded, MutexInsideOnly, Waited, Critical
<1>0. CASE UNCHANGED vars
  BY <1>0 DEF vars
<1>1. ASSUME NEW t \in Threads, Push(t) PROVE Guarded'
  <2>1. ASSUME NEW o \in free, NEW timeout \in PushTimeouts, PushCall(t, o, timeout)
        PROVE  Guarded'
    BY <2>1 DEF PushCall, Goto
  <2>2. CASE PushWaitFails(t)
    BY <2>2 DEF PushWaitFails, PushFails, LetGo, SetStatus
  <2>3. CASE PushWait(t)
    <3>1. PICK s \in {"SUCCESS", "SEM_TIMEOUT", "INVALID_PARAMS"} :
               SemaphoreWait(semPush, semPush', tmo[t], s) /\ SetStatus(t, s)
      BY <2>3 DEF PushWait
    <3>2. s # "INVALID_PARAMS"
      BY <3>1 DEF SemaphoreWait
    <3> QED
      BY <2>3, <3>1, <3>2 DEF PushWait, Goto, SetStatus
  <2>4. CASE PushLock(t)
    BY <2>4 DEF PushLock, Goto, MutexLock
  <2>5. CASE PushInsert(t)
    BY <2>5 DEF PushInsert, Goto
  <2>6. CASE PushPost(t)
    BY <2>6 DEF PushPost, Goto
  <2>7. CASE PushOverflow(t)
    BY <2>7 DEF PushOverflow, PushFails, LetGo, SetStatus, MutexUnlock
  <2>8. CASE PushOverwrite(t)
    BY <2>8 DEF PushOverwrite, Goto, SetStatus
  <2>9. CASE PushError(t)
    BY <2>9 DEF PushError
  <2>10. CASE PushUnlock(t)
    BY <2>10 DEF PushUnlock, PushFails, LetGo, SetStatus, MutexUnlock
  <2> QED
    BY <1>1, <2>1, <2>2, <2>3, <2>4, <2>5, <2>6, <2>7, <2>8, <2>9, <2>10 DEF Push
<1>2. ASSUME NEW t \in Threads, Pull(t) PROVE Guarded'
  <2>1. ASSUME NEW timeout \in PullTimeouts, PullCall(t, timeout) PROVE Guarded'
    BY <2>1 DEF PullCall, Goto
  <2>2. CASE PullWaitFails(t)
    BY <2>2 DEF PullWaitFails, Goto, SetStatus
  <2>3. CASE PullWait(t)
    BY <2>3 DEF PullWait, Goto, SetStatus
  <2>4. CASE PullLock(t)
    BY <2>4 DEF PullLock, Goto, MutexLock
  <2>5. CASE PullUnderflow(t)
    BY <2>5 DEF PullUnderflow, Goto, SetStatus, MutexUnlock
  <2>6. CASE PullRemove(t)
    <3>1. CASE list = <<>>
      BY <2>6, <3>1 DEF PullRemove, Goto, SetStatus, MutexUnlock
    <3>2. CASE list # <<>>
      BY <2>6, <3>2 DEF PullRemove, Goto
    <3> QED
      BY <3>1, <3>2
  <2>7. CASE PullPost(t)
    BY <2>7 DEF PullPost, Goto
  <2>8. CASE PullUnlock(t)
    BY <2>8 DEF PullUnlock, Goto, MutexUnlock
  <2>9. CASE Consume(t)
    BY <2>9 DEF Consume, LetGo, Goto
  <2> QED
    BY <1>2, <2>1, <2>2, <2>3, <2>4, <2>5, <2>6, <2>7, <2>8, <2>9 DEF Pull
<1>3. ASSUME NEW t \in Threads, Flush(t) PROVE Guarded'
  BY <1>3 DEF Flush, FlushCall, FlushNext, FlushReturn, Goto
<1> QED
  BY <1>0, <1>1, <1>2, <1>3 DEF Next

(* Without interrupted waits the mutex is held by exactly the thread that  *)
(* is inside the critical section: every return path has unlocked it.      *)
THEOREM MutexCorrect ==
  ASSUME ~Interrupts
  PROVE  Spec => []MutexInsideOnly
<1>1. Init => Shape /\ Guarded
  BY ShapeInit, GuardedInit
<1>2. Shape /\ Guarded /\ [Next]_vars => (Shape /\ Guarded)'
  BY ShapeStep, GuardedStep DEF Shape
<1>3. Guarded => MutexInsideOnly
  BY DEF Guarded
<1> QED
  BY <1>1, <1>2, <1>3, PTL DEF Spec

-----------------------------------------------------------------------------
(***************************************************************************)
(* The queue implements the atomic bounded FIFO.  The list update is the   *)
(* step that takes effect; the tokens show that the list has room for it.  *)
(***************************************************************************)
LEMMA RoomToInsert ==
  ASSUME TypeOK, TokenAccounting, NEW t \in HoldingSlot
  PROVE  Len(list) < QLength
<1> DEFINE n == Len(list)
<1>1. HoldingSlot \in SUBSET Threads /\ t \in Threads
  BY DEF HoldingSlot
<1>2. /\ Cardinality(HoldingSlot \ {t}) \in Nat
      /\ Cardinality(HoldingSlot) = Cardinality(HoldingSlot \ {t}) + 1
  BY <1>1, Counting DEF One
<1>3. n \in Nat /\ semPush \in Nat /\ QLength \in Nat
  BY QueueAssumption, LenProperties DEF TypeOK
<1>4. semPush + Cardinality(HoldingSlot) + n = QLength
  BY DEF TokenAccounting
<1> HIDE DEF n
<1>5. n < QLength
  BY <1>2, <1>3, <1>4
<1> QED
  BY <1>5 DEF n

(* Giving up or being done with a block.                                   *)
LEMMA DiscardOrStutter ==
  ASSUME NEW t \in Threads, obj' = [obj EXCEPT ![t] = NULL], list' = list, TypeOK
  PROVE  [Fifo!FifoNext]_Fifo!fifoVars
<1>1. CASE obj[t] = NULL
  BY <1>1 DEF Fifo!fifoVars, TypeOK
<1>2. CASE obj[t] # NULL
  BY <1>2 DEF Fifo!FifoNext, Fifo!Discard
<1> QED
  BY <1>1, <1>2

LEMMA FifoInitial == Init => Fifo!FifoInit
BY DEF Init, Fifo!FifoInit

LEMMA FifoStep ==
  ASSUME Mode = "NO_OVERWRITE"
  PROVE  Shape /\ TokenAccounting /\ Unshared /\ [Next]_vars
           => [Fifo!FifoNext]_Fifo!fifoVars
<1> SUFFICES ASSUME Shape, TokenAccounting, Unshared, [Next]_vars
             PROVE  [Fifo!FifoNext]_Fifo!fifoVars
  OBVIOUS
<1> USE DEF Shape
<1>0. CASE UNCHANGED vars
  BY <1>0 DEF vars, Fifo!fifoVars
<1>1. ASSUME NEW t \in Threads, Push(t) PROVE [Fifo!FifoNext]_Fifo!fifoVars
  <2>1. ASSUME NEW o \in free, NEW timeout \in PushTimeouts, PushCall(t, o, timeout)
        PROVE  Fifo!Allocate(t)
    <3>1. obj[t] = NULL /\ o \in Objects
      BY <2>1 DEF PushCall, Goto, HandShape, TypeOK
    <3>2. o \notin Fifo!InUse
      BY DEF Fifo!InUse, Fifo!Range, Unshared, TypeOK
    <3> QED
      BY <2>1, <3>1, <3>2 DEF PushCall, Fifo!Allocate
  <2>2. CASE PushWaitFails(t) \/ PushOverflow(t) \/ PushError(t) \/ PushUnlock(t)
    BY <2>2, DiscardOrStutter
    DEF PushWaitFails, PushOverflow, PushError, PushUnlock, PushFails, LetGo
  <2>3. CASE PushWait(t) \/ PushLock(t) \/ PushPost(t)
    BY <2>3 DEF PushWait, PushLock, PushPost, Fifo!fifoVars
  <2>4. CASE PushInsert(t)
    <3>1. obj[t] # NULL /\ t \in HoldingSlot
      BY <2>4 DEF PushInsert, Goto, HandShape, HoldingSlot
    <3>2. Len(list) < QLength
      BY <3>1, RoomToInsert
    <3>3. Fifo!Offer(t)
      BY <2>4, <3>1, <3>2 DEF PushInsert, Fifo!Offer
    <3> QED
      BY <3>3 DEF Fifo!FifoNext
  <2>5. CASE PushOverwrite(t)
    BY <2>5 DEF PushOverwrite
  <2> QED
    BY <1>1, <2>1, <2>2, <2>3, <2>4, <2>5 DEF Push, Fifo!FifoNext
<1>2. ASSUME NEW t \in Threads, Pull(t) PROVE [Fifo!FifoNext]_Fifo!fifoVars
  <2>1. ASSUME NEW timeout \in PullTimeouts, PullCall(t, timeout)
        PROVE  UNCHANGED <<list, obj>>
    BY <2>1 DEF PullCall
  <2>2. CASE \/ PullWaitFails(t) \/ PullWait(t) \/ PullLock(t) \/ PullUnderflow(t)
             \/ PullPost(t) \/ PullUnlock(t)
    BY <2>2
    DEF PullWaitFails, PullWait, PullLock, PullUnderflow, PullPost, PullUnlock, Fifo!fifoVars
  <2>3. CASE PullRemove(t)
    <3>1. list # <<>> /\ obj[t] = NULL
      <4>1. t \in HoldingObject /\ obj[t] = NULL
        BY <2>3 DEF PullRemove, Goto, HandShape, HoldingObject
      <4> QED
        BY <4>1, ClaimFinds
    <3>2. Fifo!Take(t)
      BY <2>3, <3>1 DEF PullRemove, Fifo!Take
    <3> QED
      BY <3>2 DEF Fifo!FifoNext
  <2>4. CASE Consume(t)
    BY <2>4, DiscardOrStutter DEF Consume, LetGo
  <2> QED
    BY <1>2, <2>1, <2>2, <2>3, <2>4 DEF Pull, Fifo!fifoVars
<1>3. ASSUME NEW t \in Threads, Flush(t) PROVE [Fifo!FifoNext]_Fifo!fifoVars
  <2>1. CASE FlushCall(t) \/ FlushReturn(t)
    BY <2>1 DEF FlushCall, FlushReturn, Fifo!fifoVars
  <2>2. CASE FlushNext(t)
    BY <2>2, DiscardOrStutter DEF FlushNext
  <2> QED
    BY <1>3, <2>1, <2>2 DEF Flush
<1> QED
  BY <1>0, <1>1, <1>2, <1>3 DEF Next

(* Push, Pull and Flush of a queue that does not overwrite implement the   *)
(* atomic operations of BoundedFifo, whatever the interleaving.            *)
THEOREM FifoCorrect ==
  ASSUME Mode = "NO_OVERWRITE"
  PROVE  Spec => ImplementsFifo
<1>1. Init => Shape /\ TokenAccounting /\ Unshared /\ Fifo!FifoInit
  BY ShapeInit, TokenInit, OwnersInit, FifoInitial
<1>2. Shape /\ TokenAccounting /\ Unshared /\ [Next]_vars
        => (Shape /\ TokenAccounting /\ Unshared)'
  BY ShapeStep, TokenStep, OwnersStep
<1>3. Shape /\ TokenAccounting /\ Unshared /\ [Next]_vars
        => [Fifo!FifoNext]_Fifo!fifoVars
  BY FifoStep
<1> QED
  BY <1>1, <1>2, <1>3, PTL DEF Spec, ImplementsFifo, Fifo!FifoSpec
=============================================================================
