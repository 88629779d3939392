----------------------------- MODULE OsalLinkList -----------------------------
(***************************************************************************)
(* The singly linked list under phOsal_Queue (phOsal_LinkList.c), node by  *)
(* node: what its pointers hold after every call, and whether a call reads *)
(* a node that has been freed.  OsalQueue takes the list for a sequence;   *)
(* this module shows when it may.                                          *)
(***************************************************************************)
EXTENDS Naturals, Sequences, SequencesExt, FiniteSets

CONSTANTS
  Nodes,          (* blocks that MemAllocCb can return                     *)
  Data, NULL,
  Positions,      (* the positions that callers pass                       *)
  InsertFollows   (* is a removal at the tail followed by an insertion at  *)
                  (* the tail, as in phOsal_QueuePush?                     *)

AllPositions == {"HEAD", "TAIL", "CUR", "NEXT", "PREV"}

ASSUME ListAssumption ==
  /\ IsFiniteSet(Nodes) /\ NULL \notin Nodes \cup Data
  /\ Positions \subseteq AllPositions
  /\ InsertFollows \in BOOLEAN

VARIABLES
  psHead, psTail, dwNumNodes,   \* phOsal_ListCtxt_t
  allocated,                    \* nodes that are allocated
  ps_next, pvData,              \* the fields of every node
  got,                          \* *ppvData of the last removal
  owed,                         \* does the caller owe an insertion at the tail?
  badRead                       \* has a call read a freed node?

vars == <<psHead, psTail, dwNumNodes, allocated, ps_next, pvData, got, owed, badRead>>

TypeOK ==
  /\ psHead \in Nodes \cup {NULL} /\ psTail \in Nodes \cup {NULL}
  /\ dwNumNodes \in 0 .. Cardinality(Nodes)
  /\ allocated \in SUBSET Nodes
  /\ ps_next \in [Nodes -> Nodes \cup {NULL}] /\ pvData \in [Nodes -> Data \cup {NULL}]
  /\ got \in Data \cup {NULL}
  /\ owed \in BOOLEAN /\ badRead \in BOOLEAN

(* phOsal_ListCreate                                                       *)
Init ==
  /\ psHead = NULL /\ psTail = NULL /\ dwNumNodes = 0
  /\ allocated = {}
  /\ ps_next = [n \in Nodes |-> NULL] /\ pvData = [n \in Nodes |-> NULL]
  /\ got = NULL /\ owed = FALSE /\ badRead = FALSE

-----------------------------------------------------------------------------
(* The nodes that a traversal from n meets, up to the one whose ps_next is *)
(* NULL.  A traversal of more nodes than there are reads a freed one, or   *)
(* for ever.                                                               *)
Walk(n) ==
  LET walk[k \in 0 .. Cardinality(Nodes)] ==
        IF k = 0 THEN <<n>>
        ELSE IF ps_next[Last(walk[k - 1])] = NULL THEN walk[k - 1]
        ELSE Append(walk[k - 1], ps_next[Last(walk[k - 1])])
  IN  walk[Cardinality(Nodes)]

(* A call that reads these nodes.  What it does after reading a freed one  *)
(* is undefined, and nothing is claimed of it.                             *)
Reads(ns) == badRead' = (badRead \/ ~(ns \subseteq allocated))

(* Faulty variants of the calls below, one mistake each, which no          *)
(* specification uses: with one in the place of the call it varies, TLC    *)
(* must find a property violated.                                          *)
(* The first node does not become the tail.                                *)
InsertHeadKeepsTail(n, d) ==
  /\ ~owed
  /\ n \in Nodes \ allocated
  /\ allocated' = allocated \cup {n}
  /\ pvData' = [pvData EXCEPT ![n] = d]
  /\ psHead' = n
  /\ ps_next' = [ps_next EXCEPT ![n] = psHead]
  /\ dwNumNodes' = dwNumNodes + 1
  /\ UNCHANGED <<psTail, got, owed, badRead>>

(* The only node is freed and remains the tail.                            *)
RemoveOnlyKeepsTail ==
  /\ ~owed
  /\ psHead # NULL /\ ps_next[psHead] = NULL
  /\ got' = pvData[psHead]
  /\ psHead' = NULL
  /\ allocated' = allocated \ {psHead}
  /\ dwNumNodes' = dwNumNodes - 1
  /\ UNCHANGED <<psTail, ps_next, pvData, owed, badRead>>

(* The node is not freed.                                                  *)
RemoveHeadLeaks ==
  /\ ~owed
  /\ psHead # NULL /\ ps_next[psHead] # NULL
  /\ got' = pvData[psHead]
  /\ psHead' = ps_next[psHead]
  /\ dwNumNodes' = dwNumNodes - 1
  /\ UNCHANGED <<psTail, allocated, ps_next, pvData, owed, badRead>>

(* The count is not reset.                                                 *)
FlushKeepsCount ==
  /\ ~owed
  /\ allocated' = allocated \ (IF psHead = NULL THEN {} ELSE ToSet(Walk(psHead)))
  /\ psHead' = NULL /\ psTail' = NULL
  /\ UNCHANGED <<dwNumNodes, ps_next, pvData, got, owed, badRead>>

(* phOsal_ListInsertNode at the tail and at the head.                      *)
NewNode(n, d) ==
  /\ n \in Nodes \ allocated
  /\ allocated' = allocated \cup {n}
  /\ pvData' = [pvData EXCEPT ![n] = d]

InsertTail(n, d) ==
  /\ NewNode(n, d)
  /\ psTail' = n
  /\ psHead' = IF psTail = NULL THEN n ELSE psHead
  /\ ps_next' = [m \in Nodes |-> IF m = n THEN NULL
                                 ELSE IF m = psTail THEN n ELSE ps_next[m]]
  /\ Reads({psTail} \ {NULL})
  /\ dwNumNodes' = dwNumNodes + 1
  /\ owed' = FALSE
  /\ UNCHANGED got

InsertHead(n, d) ==
  /\ ~owed
  /\ NewNode(n, d)
  /\ psHead' = n
  /\ psTail' = IF psHead = NULL THEN n ELSE psTail
  /\ ps_next' = [ps_next EXCEPT ![n] = psHead]
  /\ dwNumNodes' = dwNumNodes + 1
  /\ UNCHANGED <<got, owed, badRead>>

(* The other positions are refused after the node has been allocated.      *)
InsertUnsupported(n, d) ==
  /\ ~owed
  /\ NewNode(n, d)
  /\ ps_next' = [ps_next EXCEPT ![n] = NULL]
  /\ UNCHANGED <<psHead, psTail, dwNumNodes, got, owed, badRead>>

(* phOsal_ListRemoveNode                                                   *)
RemoveFromEmpty ==
  /\ ~owed
  /\ psHead = NULL
  /\ got' = NULL
  /\ UNCHANGED <<psHead, psTail, dwNumNodes, allocated, ps_next, pvData, owed, badRead>>

RemoveOnly ==
  /\ ~owed
  /\ psHead # NULL /\ ps_next[psHead] = NULL
  /\ got' = pvData[psHead]
  /\ psHead' = NULL /\ psTail' = NULL
  /\ Reads({psHead})
  /\ allocated' = allocated \ {psHead}
  /\ dwNumNodes' = dwNumNodes - 1
  /\ UNCHANGED <<ps_next, pvData, owed>>

RemoveHead ==
  /\ ~owed
  /\ psHead # NULL /\ ps_next[psHead] # NULL
  /\ got' = pvData[psHead]
  /\ psHead' = ps_next[psHead]
  /\ Reads({psHead})
  /\ allocated' = allocated \ {psHead}
  /\ dwNumNodes' = dwNumNodes - 1
  /\ UNCHANGED <<psTail, ps_next, pvData, owed>>

(* The list is traversed to its last node; the last but one becomes the    *)
(* tail, and its ps_next still is the node that is freed.                  *)
RemoveTail ==
  /\ ~owed
  /\ psHead # NULL /\ ps_next[psHead] # NULL
  /\ LET path == Walk(psHead)
     IN  /\ got' = pvData[Last(path)]
         /\ psTail' = Last(Front(path))
         /\ Reads(ToSet(path))
         /\ allocated' = allocated \ {Last(path)}
  /\ dwNumNodes' = dwNumNodes - 1
  /\ owed' = InsertFollows
  /\ UNCHANGED <<psHead, ps_next, pvData>>

(* phOsal_ListFlush: every node from the head on is freed.                 *)
Flush ==
  /\ ~owed
  /\ LET path == IF psHead = NULL THEN {} ELSE ToSet(Walk(psHead))
     IN  Reads(path) /\ allocated' = allocated \ path
  /\ psHead' = NULL /\ psTail' = NULL /\ dwNumNodes' = 0
  /\ UNCHANGED <<ps_next, pvData, got, owed>>

Next ==
  /\ ~badRead
  /\ \/ \E n \in Nodes, d \in Data :
          \/ "TAIL" \in Positions /\ InsertTail(n, d)
          \/ "HEAD" \in Positions /\ InsertHead(n, d)
          \/ Positions \cap {"CUR", "NEXT", "PREV"} # {} /\ InsertUnsupported(n, d)
     \/ RemoveFromEmpty \/ RemoveOnly
     \/ "HEAD" \in Positions /\ RemoveHead
     \/ "TAIL" \in Positions /\ RemoveTail
     \/ Flush

Spec == Init /\ [][Next]_vars

-----------------------------------------------------------------------------
(* The nodes of the list: from the head to the tail.                       *)
Chain ==
  IF psHead = NULL THEN <<>>
  ELSE LET path == Walk(psHead)
       IN  IF owed THEN Front(path) ELSE path

(* The list behaves like the sequence that phOsal_Queue.c takes it for:    *)
(* every call adds or removes exactly the object at its end, and hands     *)
(* that object out.                                                        *)
Sequence ==
  INSTANCE ListSequence WITH contents <- [i \in DOMAIN Chain |-> pvData[Chain[i]]]

ImplementsSequence == Sequence!SeqSpec

(* phOsal_LinkList.h says of phOsal_ListRemoveNode that it "remove node    *)
(* from linkedlist": no later call meets the removed node again.           *)
NoFreedNodeRead == ~badRead

(* A node that leaves the list has been freed by the call that removed it: *)
(* no call of the queue's callers drops a node it can no longer reach.     *)
NoNodeLeak ==
  [][ToSet(Chain) \ ToSet(Chain') \subseteq Nodes \ allocated']_vars
=============================================================================
