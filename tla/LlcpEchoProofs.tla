---------------------------- MODULE LlcpEchoProofs ----------------------------
(***************************************************************************)
(* Proofs about LlcpEcho, for queues of any length and any number of PDUs, *)
(* congestions and links.                                                  *)
(***************************************************************************)
EXTENDS LlcpEcho, SequenceTheorems, TLAPS

(* The stack reports one event at a time, or the two that end a link.      *)
OutShape ==
  \/ out = <<>>
  \/ \E k \in Kinds : out = <<k>>
  \/ out = <<"DISCONNECTED", "DEACTIVATED">>

Pdu == 1..MaxPdus

(* The types, those of the stack's variables apart.                        *)
StackShape ==
  /\ link \in 0..MaxLinks /\ up \in BOOLEAN /\ server \in BOOLEAN /\ jam \in BOOLEAN
  /\ client \in {"new", "connected", "left"}
  /\ jams \in 0..MaxJams /\ pdus \in 0..MaxPdus
  /\ rx \in Seq(Pdu)

CallbackShape ==
  /\ congested \in BOOLEAN /\ disconnected \in BOOLEAN
  /\ out \in Seq(Kinds) /\ OutShape
  /\ stage \in {"idle", "new", "push"} /\ (stage = "idle" <=> out = <<>>)

QueueShape == dtaq \in Seq(Kinds) /\ Len(dtaq) <= DtaLength

ThreadShape ==
  /\ backlog \in Seq(Pdu) /\ Len(backlog) <= BacklogLength
  /\ sent \in Seq(Pdu) /\ hand \in 0..MaxPdus
  /\ pc \in Pcs
  /\ hand # NoPdu <=> pc \in {"received", "queueing", "delay", "send", "resend"}

Shape == StackShape /\ CallbackShape /\ QueueShape /\ ThreadShape

LEMMA Bounds ==
  /\ DtaLength \in Nat \ {0} /\ BacklogLength \in Nat \ {0}
  /\ MaxPdus \in Nat /\ MaxJams \in Nat /\ MaxLinks \in Nat
BY EchoAssumption

LEMMA ShapeIsType == Shape => TypeOK
BY DEF Shape, StackShape, CallbackShape, QueueShape, ThreadShape, TypeOK, Pdu

LEMMA ShapeInit == Init => Shape
<1> SUFFICES ASSUME Init PROVE Shape
  OBVIOUS
<1>1. <<>> \in Seq(Pdu) /\ <<>> \in Seq(Kinds) /\ Len(<<>>) = 0
  BY EmptySeq
<1>2. StackShape
  <2>1. link \in 0..MaxLinks /\ jams \in 0..MaxJams /\ pdus \in 0..MaxPdus
    BY Bounds DEF Init
  <2>2. up \in BOOLEAN /\ server \in BOOLEAN /\ jam \in BOOLEAN
    BY DEF Init
  <2>3. rx \in Seq(Pdu) /\ client \in {"new", "connected", "left"}
    BY <1>1 DEF Init
  <2> QED
    BY <2>1, <2>2, <2>3 DEF StackShape
<1>3. CallbackShape
  BY <1>1 DEF Init, CallbackShape, OutShape
<1>4. QueueShape
  BY <1>1, Bounds DEF Init, QueueShape
<1>5. ThreadShape
  BY <1>1, Bounds DEF Init, ThreadShape, Pcs, NoPdu
<1> QED
  BY <1>2, <1>3, <1>4, <1>5 DEF Shape

(* A report of the stack, and what the callback makes of it.               *)
LEMMA ReportShape ==
  ASSUME Shape, UNCHANGED flags,
         \/ \E k \in Kinds : Report(<<k>>)
         \/ Report(<<"DISCONNECTED", "DEACTIVATED">>)
  PROVE  CallbackShape'
<1>1. UNCHANGED <<congested, disconnected>> /\ out' # <<>> /\ stage' = "new"
  BY DEF Report, flags
<1>2. OutShape'
  BY DEF Report, OutShape
<1>3. out' \in Seq(Kinds)
  <2>1. \A k \in Kinds : <<k>> \in Seq(Kinds)
    OBVIOUS
  <2>2. <<"DISCONNECTED", "DEACTIVATED">> \in Seq(Kinds)
    BY DEF Kinds
  <2> QED
    BY <2>1, <2>2 DEF Report
<1> QED
  BY <1>1, <1>2, <1>3 DEF Shape, CallbackShape

LEMMA StackStep == Shape /\ Stack => Shape'
<1> SUFFICES ASSUME Shape, Stack PROVE Shape'
  OBVIOUS
<1>1. UNCHANGED <<flags, dtaq, backlog, pc, hand, sent>>
  BY DEF Stack, LinkUp, Connect, Receive, Disconnect, Jam, Unjam, LinkDown, Library, flags
<1>2. QueueShape' /\ ThreadShape'
  BY <1>1 DEF Shape, QueueShape, ThreadShape
<1>3. CallbackShape'
  <2>1. \/ \E k \in Kinds : Report(<<k>>)
        \/ Report(<<"DISCONNECTED", "DEACTIVATED">>)
    BY DEF Stack, LinkUp, Connect, Receive, Disconnect, Jam, Unjam, LinkDown, Kinds
  <2> QED
    BY <1>1, <2>1, ReportShape
<1>4. StackShape'
  <2> USE Bounds DEF Shape, StackShape, Pdu
  <2>1. CASE LinkUp
    BY <2>1 DEF LinkUp
  <2>2. CASE Connect
    BY <2>2 DEF Connect
  <2>3. CASE Receive
    <3>1. pdus' \in Pdu
      BY <2>3 DEF Receive
    <3> QED
      BY <2>3, <3>1, AppendProperties DEF Receive
  <2>4. CASE Disconnect
    BY <2>4, EmptySeq DEF Disconnect
  <2>5. CASE Jam
    BY <2>5 DEF Jam
  <2>6. CASE Unjam
    BY <2>6 DEF Unjam
  <2>7. CASE LinkDown
    BY <2>7, EmptySeq DEF LinkDown
  <2> QED
    BY <2>1, <2>2, <2>3, <2>4, <2>5, <2>6, <2>7 DEF Stack
<1> QED
  BY <1>2, <1>3, <1>4 DEF Shape

LEMMA ReportedShape ==
  ASSUME Shape, out # <<>>
  PROVE  /\ Event \in Kinds
         /\ Tail(out) = <<>> \/ Tail(out) = <<"DEACTIVATED">>
         /\ Reported => /\ out' \in Seq(Kinds) /\ OutShape'
                        /\ stage' \in {"idle", "new"} /\ (stage' = "idle" <=> out' = <<>>)
<1> USE DEF Shape, CallbackShape
<1>1. Event \in Kinds /\ Tail(out) \in Seq(Kinds)
  BY HeadTailProperties DEF Event
<1>2. Tail(out) = <<>> \/ Tail(out) = <<"DEACTIVATED">>
  <2>1. \A k \in Kinds : Tail(<<k>>) = <<>>
    OBVIOUS
  <2>2. Tail(<<"DISCONNECTED", "DEACTIVATED">>) = <<"DEACTIVATED">>
    OBVIOUS
  <2> QED
    BY <2>1, <2>2 DEF OutShape
<1> QED
  BY <1>1, <1>2 DEF Reported, OutShape, Kinds

LEMMA CallbackStep == Shape /\ LlcpEvtCb => Shape'
<1> SUFFICES ASSUME Shape, LlcpEvtCb PROVE Shape'
  OBVIOUS
<1>1. UNCHANGED <<link, up, client, server, jam, jams, rx, pdus, backlog, pc, hand, sent>>
  BY DEF LlcpEvtCb, SetFlags, PushEvent, External
<1>2. StackShape' /\ ThreadShape'
  BY <1>1 DEF Shape, StackShape, ThreadShape
<1>3. out # <<>>
  BY DEF LlcpEvtCb, SetFlags, PushEvent, Shape, CallbackShape
<1>4. CASE SetFlags
  <2>1. congested' \in BOOLEAN /\ disconnected' \in BOOLEAN
    BY <1>4 DEF SetFlags, Shape, CallbackShape
  <2>2. CASE Event = "CONGESTED"
    BY <1>2, <1>3, <1>4, <2>1, <2>2, ReportedShape DEF SetFlags, Shape, CallbackShape, QueueShape
  <2>3. CASE Event # "CONGESTED"
    BY <1>2, <1>3, <1>4, <2>1, <2>3 DEF SetFlags, Shape, CallbackShape, QueueShape, OutShape
  <2> QED
    BY <2>2, <2>3
<1>5. CASE PushEvent
  <2>1. QueueShape'
    BY <1>3, <1>5, ReportedShape, AppendProperties, Bounds
       DEF PushEvent, Shape, QueueShape
  <2>2. CallbackShape'
    BY <1>3, <1>5, ReportedShape DEF PushEvent, Shape, CallbackShape, flags
  <2> QED
    BY <1>2, <2>1, <2>2 DEF Shape
<1> QED
  BY <1>4, <1>5 DEF LlcpEvtCb

(* An event leaves the DTA queue.                                          *)
LEMMA PullShape ==
  ASSUME Shape, NEW kind, NEW next, Pull(kind, next)
  PROVE  QueueShape'
BY HeadTailProperties, Bounds DEF Shape, QueueShape, Pull

LEMMA ThreadStep == Shape /\ DtaThread => Shape'
<1> SUFFICES ASSUME Shape, DtaThread PROVE Shape'
  OBVIOUS
<1> USE DEF Shape
<1>a. UNCHANGED <<stackVars, flags>> => StackShape' /\ CallbackShape'
  BY DEF stackVars, flags, StackShape, CallbackShape, OutShape
<1>b. UNCHANGED <<out, stage, flags>> => CallbackShape'
  BY DEF flags, CallbackShape, OutShape
<1>c. UNCHANGED dtaq => QueueShape'
  BY DEF QueueShape
<1>1. CASE HandleActivated
  BY <1>a, <1>1, PullShape DEF HandleActivated, ThreadShape, Pcs, Pull
<1>2. CASE HandleConnReq
  <2>1. StackShape'
    BY <1>2 DEF HandleConnReq, StackShape
  <2> QED
    BY <1>b, <1>2, <2>1, PullShape DEF HandleConnReq, ThreadShape, Pcs, Pull
<1>3. CASE HandleData
  BY <1>a, <1>3, PullShape DEF HandleData, ThreadShape, Pcs, Pull
<1>4. CASE RecvData
  <2>1. rx # <<>> => Head(rx) \in Pdu /\ Tail(rx) \in Seq(Pdu)
    BY HeadTailProperties DEF StackShape
  <2>2. /\ (hand' = 0 /\ pc' = "pull") \/ (hand' \in Pdu /\ pc' = "received")
        /\ rx' \in Seq(Pdu) /\ pdus' \in 0..MaxPdus
        /\ UNCHANGED <<link, up, client, server, jam, jams, backlog, sent>>
    <3>1. pdus < MaxPdus => pdus + 1 \in Pdu /\ pdus + 1 \in 0..MaxPdus
      BY Bounds DEF StackShape, Pdu
    <3>2. rx \in Seq(Pdu) /\ pdus \in 0..MaxPdus
      BY DEF StackShape
    <3>3. hand = 0
      BY <1>4 DEF RecvData, ThreadShape, NoPdu
    <3> QED
      BY <1>4, <2>1, <3>1, <3>2, <3>3 DEF RecvData
  <2>3. StackShape'
    BY <2>2 DEF StackShape
  <2>4. ThreadShape'
    BY <2>2, Bounds DEF ThreadShape, Pcs, Pdu, NoPdu
  <2> QED
    BY <1>b, <1>c, <1>4, <2>3, <2>4 DEF RecvData
<1>5. CASE CheckCongested
  BY <1>a, <1>c, <1>5, Bounds DEF CheckCongested, ThreadShape, Pcs, NoPdu
<1>6. CASE QueueCongestData
  <2>1. hand \in Pdu
    BY <1>6, Bounds DEF QueueCongestData, ThreadShape, Pdu, NoPdu
  <2>2. Append(backlog, hand) \in Seq(Pdu) /\ Len(Append(backlog, hand)) = Len(backlog) + 1
    BY <2>1, AppendProperties DEF ThreadShape
  <2>3. ThreadShape'
    BY <1>6, <2>2, Bounds DEF QueueCongestData, ThreadShape, Pcs, NoPdu
  <2> QED
    BY <1>a, <1>c, <1>6, <2>3 DEF QueueCongestData
<1>7. CASE CheckDisconnected
  BY <1>a, <1>c, <1>7, Bounds DEF CheckDisconnected, ThreadShape, Pcs, NoPdu
<1>8. CASE EchoData
  <2>1. hand \in Pdu
    BY <1>8, Bounds DEF EchoData, ThreadShape, Pdu, NoPdu
  <2>2. Append(sent, hand) \in Seq(Pdu)
    BY <2>1, AppendProperties DEF ThreadShape
  <2>3. hand' = 0 /\ sent' \in Seq(Pdu) /\ pc' \in {"pull", "drain"} /\ UNCHANGED backlog
    BY <1>8, <2>2 DEF EchoData, SendData, ThreadShape, NoPdu
  <2>4. ThreadShape'
    BY <2>3, Bounds DEF ThreadShape, Pcs, NoPdu
  <2> QED
    BY <1>a, <1>c, <1>8, <2>4 DEF EchoData, SendData
<1>9. CASE HandleUncongested
  BY <1>a, <1>9, PullShape DEF HandleUncongested, ThreadShape, Pcs, Pull
<1>10. CASE PullBacklog
  <2>1. backlog # <<>> => /\ Head(backlog) \in Pdu /\ Tail(backlog) \in Seq(Pdu)
                          /\ Len(Tail(backlog)) <= BacklogLength
    BY HeadTailProperties, Bounds DEF ThreadShape
  <2>2. CASE congested \/ backlog = <<>>
    BY <1>a, <1>c, <1>10, <2>2 DEF PullBacklog, ThreadShape, Pcs, NoPdu
  <2>3. CASE ~(congested \/ backlog = <<>>)
    <3>1. /\ hand' \in Pdu /\ pc' = "resend" /\ UNCHANGED sent
          /\ backlog' \in Seq(Pdu) /\ Len(backlog') <= BacklogLength
      BY <1>10, <2>1, <2>3 DEF PullBacklog
    <3>2. ThreadShape'
      BY <3>1, Bounds DEF ThreadShape, Pcs, NoPdu, Pdu
    <3> QED
      BY <1>a, <1>c, <1>10, <3>2 DEF PullBacklog
  <2> QED
    BY <2>2, <2>3
<1>11. CASE Resend
  <2>1. hand \in Pdu
    BY <1>11, Bounds DEF Resend, ThreadShape, Pdu, NoPdu
  <2>2. Append(sent, hand) \in Seq(Pdu)
    BY <2>1, AppendProperties DEF ThreadShape
  <2>3. hand' = 0 /\ sent' \in Seq(Pdu) /\ pc' \in {"pull", "drain"} /\ UNCHANGED backlog
    BY <1>11, <2>2 DEF Resend, SendData, ThreadShape, NoPdu
  <2>4. ThreadShape'
    BY <2>3, Bounds DEF ThreadShape, Pcs, NoPdu
  <2> QED
    BY <1>a, <1>c, <1>11, <2>4 DEF Resend, SendData
<1>12. CASE HandleDisconnected
  <2>1. StackShape'
    BY <1>12 DEF HandleDisconnected, StackShape
  <2> QED
    BY <1>b, <1>12, <2>1, PullShape DEF HandleDisconnected, ThreadShape, Pcs, Pull
<1>13. CASE HandleDeactivated
  BY <1>a, <1>13, PullShape, EmptySeq, Bounds DEF HandleDeactivated, ThreadShape, Pcs, Pull
<1> QED
  BY <1>1, <1>2, <1>3, <1>4, <1>5, <1>6, <1>7, <1>8, <1>9, <1>10, <1>11, <1>12, <1>13
     DEF DtaThread

LEMMA ShapeStep == Shape /\ [Next]_vars => Shape'
<1> SUFFICES ASSUME Shape, [Next]_vars PROVE Shape'
  OBVIOUS
<1>1. CASE UNCHANGED vars
  BY <1>1 DEF Shape, StackShape, CallbackShape, QueueShape, ThreadShape, OutShape, vars,
              stackVars, flags
<1> QED
  BY <1>1, StackStep, CallbackStep, ThreadStep DEF Next

LEMMA ShapeAlways == Spec => []Shape
BY ShapeInit, ShapeStep, PTL DEF Spec

(* The variables of LlcpEcho have their types: the queues never exceed     *)
(* their capacity, and the DTA thread holds a PDU exactly between reading  *)
(* it and sending, queueing or dropping it (phDTA_LLCPTest.c:194-248).     *)
THEOREM EchoTypes == Spec => []TypeOK
BY ShapeAlways, ShapeIsType, PTL

-----------------------------------------------------------------------------
(***************************************************************************)
(* Sequences without duplicates.                                           *)
(***************************************************************************)
LEMMA AppendSet ==
  ASSUME NEW S, NEW s \in Seq(S), NEW e \in S
  PROVE  /\ ToSet(Append(s, e)) = ToSet(s) \cup {e}
         /\ IsInjective(s) /\ e \notin ToSet(s) => IsInjective(Append(s, e))
BY AppendProperties, LenProperties DEF ToSet, IsInjective

LEMMA TailSet ==
  ASSUME NEW S, NEW s \in Seq(S), s # <<>>
  PROVE  /\ Head(s) \in ToSet(s) /\ ToSet(s) = {Head(s)} \cup ToSet(Tail(s))
         /\ IsInjective(s) => IsInjective(Tail(s)) /\ Head(s) \notin ToSet(Tail(s))
<1> DEFINE t == Tail(s)
<1>1. /\ Len(s) \in Nat \ {0} /\ DOMAIN s = 1..Len(s)
  BY LenProperties, EmptySeq
<1>2. /\ t \in Seq(S) /\ Len(t) = Len(s) - 1 /\ DOMAIN t = 1..(Len(s) - 1)
      /\ \A i \in 1..(Len(s) - 1) : t[i] = s[i + 1]
  BY HeadTailProperties, LenProperties
<1>3. Head(s) = s[1]
  OBVIOUS
<1> HIDE DEF t
<1>4. Head(s) \in ToSet(s)
  BY <1>1, <1>3 DEF ToSet
<1>5. ToSet(t) \subseteq ToSet(s)
  BY <1>1, <1>2 DEF ToSet
<1>6. ASSUME NEW e \in ToSet(s), e # Head(s) PROVE e \in ToSet(t)
  <2>1. PICK i \in 1..Len(s) : e = s[i]
    BY <1>1 DEF ToSet
  <2>2. i # 1 /\ i - 1 \in 1..(Len(s) - 1) /\ t[i - 1] = e
    BY <1>1, <1>2, <1>3, <1>6, <2>1
  <2> QED
    BY <1>2, <2>2 DEF ToSet
<1>7. ASSUME IsInjective(s) PROVE IsInjective(t) /\ Head(s) \notin ToSet(t)
  <2>1. \A i, j \in 1..Len(s) : s[i] = s[j] => i = j
    BY <1>1, <1>7 DEF IsInjective
  <2>2. \A i \in 1..(Len(s) - 1) : i + 1 \in 1..Len(s) /\ 1 \in 1..Len(s) /\ i + 1 # 1
    BY <1>1
  <2>3. \A i, j \in 1..(Len(s) - 1) : t[i] = t[j] => i + 1 = j + 1
    BY <1>2, <2>1, <2>2
  <2>4. \A i \in 1..(Len(s) - 1) : t[i] # Head(s)
    BY <1>2, <1>3, <2>1, <2>2
  <2>5. \A i, j \in 1..(Len(s) - 1) : i + 1 = j + 1 => i = j
    BY <1>1
  <2>6. IsInjective(t)
    BY <1>2, <2>3, <2>5 DEF IsInjective
  <2> QED
    BY <1>2, <2>4, <2>6 DEF ToSet
<1> QED
  BY <1>4, <1>5, <1>6, <1>7 DEF t

LEMMA ConcatSet ==
  ASSUME NEW S, NEW s \in Seq(S), NEW t \in Seq(S)
  PROVE  /\ ToSet(s \o t) = ToSet(s) \cup ToSet(t)
         /\ IsInjective(s) /\ IsInjective(t) /\ ToSet(s) \cap ToSet(t) = {}
              => IsInjective(s \o t)
<1> DEFINE u == s \o t
<1>1. /\ Len(s) \in Nat /\ DOMAIN s = 1..Len(s) /\ Len(t) \in Nat /\ DOMAIN t = 1..Len(t)
  BY LenProperties
<1>2. /\ u \in Seq(S) /\ Len(u) = Len(s) + Len(t) /\ DOMAIN u = 1..(Len(s) + Len(t))
      /\ \A i \in 1..Len(s) : u[i] = s[i]
      /\ \A i \in 1..(Len(s) + Len(t)) : i > Len(s) => u[i] = t[i - Len(s)]
  BY ConcatProperties, LenProperties
<1> HIDE DEF u
<1>3. ToSet(u) \subseteq ToSet(s) \cup ToSet(t)
  <2> SUFFICES ASSUME NEW i \in 1..(Len(s) + Len(t)) PROVE u[i] \in ToSet(s) \cup ToSet(t)
    BY <1>2 DEF ToSet
  <2>1. CASE i <= Len(s)
    BY <1>1, <1>2, <2>1 DEF ToSet
  <2>2. CASE i > Len(s)
    <3>1. i - Len(s) \in 1..Len(t) /\ u[i] = t[i - Len(s)]
      BY <1>1, <1>2, <2>2
    <3> QED
      BY <1>1, <3>1 DEF ToSet
  <2> QED
    BY <1>1, <2>1, <2>2
<1>4. ToSet(s) \subseteq ToSet(u)
  BY <1>1, <1>2 DEF ToSet
<1>5. ASSUME NEW j \in 1..Len(t) PROVE t[j] \in ToSet(u)
  <2>1. /\ Len(s) + j \in 1..(Len(s) + Len(t)) /\ Len(s) + j > Len(s)
        /\ (Len(s) + j) - Len(s) = j
    BY <1>1
  <2>2. u[Len(s) + j] = t[j]
    BY <1>2, <2>1
  <2> QED
    BY <1>2, <2>1, <2>2 DEF ToSet
<1>6. ToSet(t) \subseteq ToSet(u)
  BY <1>1, <1>5 DEF ToSet
<1>7. ASSUME IsInjective(s), IsInjective(t), ToSet(s) \cap ToSet(t) = {}
      PROVE  IsInjective(u)
  <2> SUFFICES ASSUME NEW i \in 1..(Len(s) + Len(t)), NEW j \in 1..(Len(s) + Len(t)),
                      u[i] = u[j]
               PROVE  i = j
    BY <1>2 DEF IsInjective
  <2>1. CASE i <= Len(s) /\ j <= Len(s)
    <3>1. i \in 1..Len(s) /\ j \in 1..Len(s) /\ s[i] = s[j]
      BY <1>1, <1>2, <2>1
    <3> QED
      BY <1>1, <1>7, <3>1 DEF IsInjective
  <2>2. CASE i > Len(s) /\ j > Len(s)
    <3>1. /\ i - Len(s) \in 1..Len(t) /\ j - Len(s) \in 1..Len(t)
          /\ t[i - Len(s)] = t[j - Len(s)]
      BY <1>1, <1>2, <2>2
    <3>2. i - Len(s) = j - Len(s)
      BY <1>1, <1>7, <3>1 DEF IsInjective
    <3> QED
      BY <1>1, <3>2
  <2>3. ASSUME NEW a \in 1..Len(s), NEW b \in 1..(Len(s) + Len(t)), b > Len(s)
        PROVE  u[a] # u[b]
    <3>1. b - Len(s) \in 1..Len(t)
      BY <1>1, <2>3
    <3>2. u[a] \in ToSet(s) /\ u[b] \in ToSet(t)
      BY <1>1, <1>2, <2>3, <3>1 DEF ToSet
    <3> QED
      BY <1>7, <3>2
  <2>4. CASE i <= Len(s) /\ j > Len(s)
    BY <1>1, <2>3, <2>4
  <2>5. CASE i > Len(s) /\ j <= Len(s)
    BY <1>1, <2>3, <2>5
  <2> QED
    BY <1>1, <2>1, <2>2, <2>4, <2>5
<1> QED
  BY <1>3, <1>4, <1>6, <1>7 DEF u

LEMMA NoneSet == ToSet(<<>>) = {} /\ IsInjective(<<>>)
BY DEF ToSet, IsInjective

-----------------------------------------------------------------------------
(***************************************************************************)
(* Every PDU is in one place: EchoedOnce, place by place.                  *)
(***************************************************************************)
Placed == ToSet(sent) \cup ToSet(backlog) \cup ToSet(rx)

Apart ==
  /\ IsInjective(sent) /\ IsInjective(backlog) /\ IsInjective(rx)
  /\ ToSet(sent) \cap ToSet(backlog) = {}
  /\ ToSet(sent) \cap ToSet(rx) = {}
  /\ ToSet(backlog) \cap ToSet(rx) = {}
  /\ hand # NoPdu => hand \notin Placed
  /\ Placed \subseteq 1..pdus /\ hand <= pdus

LEMMA ApartIsOnce == Shape /\ Apart => EchoedOnce
<1> SUFFICES ASSUME Shape, Apart PROVE EchoedOnce
  OBVIOUS
<1> DEFINE held == IF hand = NoPdu THEN <<>> ELSE <<hand>>
<1>1. sent \in Seq(Pdu) /\ backlog \in Seq(Pdu) /\ rx \in Seq(Pdu)
  BY DEF Shape, StackShape, ThreadShape
<1>2. held \in Seq(Pdu) /\ IsInjective(held) /\ ToSet(held) \cap Placed = {}
  <2>1. CASE hand = NoPdu
    BY <2>1, NoneSet, EmptySeq
  <2>2. CASE hand # NoPdu
    <3>1. hand \in Pdu
      BY <2>2, Bounds DEF Shape, ThreadShape, Pdu, NoPdu
    <3>2. <<hand>> \in Seq(Pdu) /\ IsInjective(<<hand>>) /\ ToSet(<<hand>>) = {hand}
      BY <3>1 DEF IsInjective, ToSet
    <3> QED
      BY <2>2, <3>2 DEF Apart
  <2> QED
    BY <2>1, <2>2
<1> HIDE DEF held
<1> DEFINE both == sent \o backlog
<1>3. /\ both \in Seq(Pdu) /\ IsInjective(both)
      /\ ToSet(both) = ToSet(sent) \cup ToSet(backlog)
  BY <1>1, ConcatSet, ConcatProperties DEF Apart
<1> DEFINE all == both \o rx
<1> HIDE DEF both
<1>4. all \in Seq(Pdu) /\ IsInjective(all) /\ ToSet(all) = Placed
  <2>1. ToSet(both) \cap ToSet(rx) = {} /\ IsInjective(rx)
    BY <1>3 DEF Apart
  <2>2. all \in Seq(Pdu)
    BY <1>1, <1>3, ConcatProperties
  <2>3. IsInjective(all) /\ ToSet(all) = ToSet(both) \cup ToSet(rx)
    BY <1>1, <1>3, <2>1, ConcatSet
  <2> QED
    BY <1>3, <2>2, <2>3 DEF Placed
<1> HIDE DEF all
<1>5. IsInjective(all \o held)
  BY <1>2, <1>4, ConcatSet
<1>6. held = IF hand = NoPdu THEN <<>> ELSE <<hand>>
  BY DEF held
<1>7. sent \o backlog \o rx \o held = all \o held
  BY DEF all, both
<1> QED
  BY <1>5, <1>6, <1>7 DEF EchoedOnce

LEMMA ApartInit == Init => Apart
BY NoneSet DEF Init, Apart, Placed, NoPdu

(* What a step may do to the PDUs, but for a new one.                      *)
Moves ==
  \/ UNCHANGED <<sent, backlog, rx, hand>>
  \/ rx' = <<>> /\ UNCHANGED <<sent, backlog, hand>>
  \/ backlog' = <<>> /\ UNCHANGED <<sent, rx, hand>>
  \/ hand' = NoPdu /\ UNCHANGED <<sent, backlog, rx>>
  \/ rx # <<>> /\ hand' = Head(rx) /\ rx' = Tail(rx) /\ UNCHANGED <<sent, backlog>>
  \/ /\ backlog # <<>> /\ hand' = Head(backlog) /\ backlog' = Tail(backlog)
     /\ UNCHANGED <<sent, rx>>
  \/ /\ hand # NoPdu /\ hand' = NoPdu /\ backlog' = Append(backlog, hand)
     /\ UNCHANGED <<sent, rx>>
  \/ /\ hand # NoPdu /\ hand' = NoPdu /\ sent' = Append(sent, hand)
     /\ UNCHANGED <<backlog, rx>>

LEMMA MovesKeepApart == Shape /\ Apart /\ Moves /\ UNCHANGED pdus => Apart'
<1> SUFFICES ASSUME Shape, Apart, Moves, UNCHANGED pdus PROVE Apart'
  OBVIOUS
<1>1. /\ sent \in Seq(Pdu) /\ backlog \in Seq(Pdu) /\ rx \in Seq(Pdu)
      /\ pdus \in Nat /\ hand \in Nat /\ (hand # NoPdu => hand \in Pdu)
  BY Bounds DEF Shape, StackShape, ThreadShape, Pdu, NoPdu
<1> USE DEF Apart, Placed
<1>2. CASE UNCHANGED <<sent, backlog, rx, hand>>
  BY <1>2
<1>3. CASE rx' = <<>> /\ UNCHANGED <<sent, backlog, hand>>
  BY <1>3, NoneSet
<1>4. CASE backlog' = <<>> /\ UNCHANGED <<sent, rx, hand>>
  BY <1>4, NoneSet
<1>5. CASE hand' = NoPdu /\ UNCHANGED <<sent, backlog, rx>>
  BY <1>1, <1>5 DEF NoPdu
<1>6. CASE rx # <<>> /\ hand' = Head(rx) /\ rx' = Tail(rx) /\ UNCHANGED <<sent, backlog>>
  BY <1>1, <1>6, TailSet DEF NoPdu
<1>7. CASE /\ backlog # <<>> /\ hand' = Head(backlog) /\ backlog' = Tail(backlog)
           /\ UNCHANGED <<sent, rx>>
  BY <1>1, <1>7, TailSet DEF NoPdu
<1>8. CASE /\ hand # NoPdu /\ hand' = NoPdu /\ backlog' = Append(backlog, hand)
           /\ UNCHANGED <<sent, rx>>
  <2>1. /\ ToSet(backlog') = ToSet(backlog) \cup {hand} /\ IsInjective(backlog')
        /\ hand \in 1..pdus
    BY <1>1, <1>8, AppendSet DEF NoPdu
  <2> QED
    BY <1>1, <1>8, <2>1 DEF NoPdu
<1>9. CASE /\ hand # NoPdu /\ hand' = NoPdu /\ sent' = Append(sent, hand)
           /\ UNCHANGED <<backlog, rx>>
  <2>1. /\ ToSet(sent') = ToSet(sent) \cup {hand} /\ IsInjective(sent')
        /\ hand \in 1..pdus
    BY <1>1, <1>9, AppendSet DEF NoPdu
  <2> QED
    BY <1>1, <1>9, <2>1 DEF NoPdu
<1> QED
  BY <1>2, <1>3, <1>4, <1>5, <1>6, <1>7, <1>8, <1>9 DEF Moves

LEMMA ReceiveKeepsApart == Shape /\ Apart /\ Receive => Apart'
<1> SUFFICES ASSUME Shape, Apart, Receive PROVE Apart'
  OBVIOUS
<1>1. pdus \in Nat /\ pdus + 1 \in Pdu /\ rx \in Seq(Pdu) /\ hand \in Nat
  BY Bounds DEF Shape, StackShape, ThreadShape, Receive, Pdu
<1>2. /\ pdus' = pdus + 1 /\ rx' = Append(rx, pdus + 1)
      /\ UNCHANGED <<sent, backlog, hand>>
  BY DEF Receive, Library
<1>3. pdus + 1 \notin Placed /\ hand # pdus + 1
  BY <1>1 DEF Apart
<1>4. ToSet(rx') = ToSet(rx) \cup {pdus + 1} /\ IsInjective(rx')
  BY <1>1, <1>2, <1>3, AppendSet DEF Apart, Placed
<1>5. Placed' = Placed \cup {pdus + 1} /\ Placed' \subseteq 1..pdus' /\ hand' <= pdus'
  BY <1>1, <1>2, <1>4 DEF Apart, Placed
<1> QED
  BY <1>2, <1>3, <1>4, <1>5 DEF Apart, Placed

(* What the DTA thread takes for a PDU where it read nothing.              *)
Unread == pdus' = pdus + 1 /\ hand' = pdus + 1 /\ UNCHANGED <<sent, backlog, rx>>

LEMMA UnreadKeepsApart == Shape /\ Apart /\ Unread => Apart'
<1> SUFFICES ASSUME Shape, Apart, Unread PROVE Apart'
  OBVIOUS
<1>1. pdus \in Nat
  BY DEF Shape, StackShape
<1>2. pdus + 1 \notin Placed
  BY <1>1 DEF Apart
<1>3. Placed' = Placed /\ Placed' \subseteq 1..pdus'
  BY <1>1 DEF Apart, Placed, Unread
<1> QED
  BY <1>1, <1>2, <1>3 DEF Apart, Unread

LEMMA StepMoves ==
  Shape /\ [Next]_vars => Receive \/ Unread \/ (Moves /\ UNCHANGED pdus)
<1> SUFFICES ASSUME Shape, [Next]_vars, ~Receive, ~Unread PROVE Moves /\ UNCHANGED pdus
  OBVIOUS
<1> USE DEF Moves
<1>1. CASE UNCHANGED vars
  BY <1>1 DEF vars, stackVars
<1>2. CASE Stack
  BY <1>2 DEF Stack, LinkUp, Connect, Disconnect, Jam, Unjam, LinkDown, Library
<1>3. CASE LlcpEvtCb
  BY <1>3 DEF LlcpEvtCb, SetFlags, PushEvent, External
<1>4. CASE HandleActivated \/ HandleData \/ HandleUncongested \/ CheckCongested
  BY <1>4 DEF HandleActivated, HandleData, HandleUncongested, CheckCongested, stackVars
<1>5. CASE HandleConnReq \/ HandleDisconnected \/ HandleDeactivated
  BY <1>5 DEF HandleConnReq, HandleDisconnected, HandleDeactivated, stackVars
<1>6. CASE RecvData \/ CheckDisconnected
  BY <1>6 DEF RecvData, CheckDisconnected, Unread, stackVars
<1>7. CASE QueueCongestData \/ EchoData \/ Resend
  BY <1>7 DEF QueueCongestData, EchoData, Resend, SendData, stackVars, Shape, ThreadShape
<1>8. CASE PullBacklog
  BY <1>8 DEF PullBacklog, stackVars
<1> QED
  BY <1>1, <1>2, <1>3, <1>4, <1>5, <1>6, <1>7, <1>8 DEF Next, DtaThread

(* A PDU goes to the remote server at most once, whatever its way through  *)
(* the congested queue and however congestion, disconnection and the end   *)
(* of the link race with the DTA thread (phDTA_LLCPTest.c:194-248).        *)
THEOREM EchoedOnceCorrect == Spec => []EchoedOnce
<1>1. Shape /\ Apart /\ [Next]_vars => Apart'
  BY StepMoves, MovesKeepApart, ReceiveKeepsApart, UnreadKeepsApart
<1> QED
  BY <1>1, ApartInit, ApartIsOnce, ShapeAlways, PTL DEF Spec

-----------------------------------------------------------------------------
(***************************************************************************)
(* The order of events on their way to the DTA thread, of which part is    *)
(* still with the callback.                                                *)
(***************************************************************************)
Events == dtaq \o out

Ends(q) == "DEACTIVATED" \in ToSet(q)

(* A link ends after the PDUs received on it, before each connection, and  *)
(* between a PDU and a later connection.                                   *)
DataEnds(q) ==
  \A i \in 1..Len(q) : q[i] = "DATA" =>
    \E k \in 1..Len(q) : i < k /\ q[k] = "DEACTIVATED"
NewEnds(q) ==
  \A j \in 1..Len(q) : q[j] = "CONN_REQ" =>
    \E k \in 1..Len(q) : k < j /\ q[k] = "DEACTIVATED"
DataApart(q) ==
  \A i, j \in 1..Len(q) : i < j /\ q[i] = "DATA" /\ q[j] = "CONN_REQ" =>
    \E k \in 1..Len(q) : i < k /\ k < j /\ q[k] = "DEACTIVATED"

LEMMA AppendOrder ==
  ASSUME NEW q \in Seq(Kinds), NEW e \in Kinds
  PROVE  /\ Ends(Append(q, e)) <=> Ends(q) \/ e = "DEACTIVATED"
         /\ e = "DEACTIVATED" \/ (DataEnds(q) /\ e # "DATA") => DataEnds(Append(q, e))
         /\ e = "CONGESTED" /\ DataEnds(Append(q, e)) => DataEnds(q)
         /\ NewEnds(q) /\ (e = "CONN_REQ" => Ends(q)) => NewEnds(Append(q, e))
         /\ NewEnds(Append(q, e)) => NewEnds(q)
         /\ DataApart(q) /\ (e = "CONN_REQ" => DataEnds(q)) => DataApart(Append(q, e))
         /\ DataApart(Append(q, e)) => DataApart(q)
<1> DEFINE r == Append(q, e)
           n == Len(q)
<1>1. /\ n \in Nat /\ Len(r) = n + 1 /\ r[n + 1] = e /\ \A i \in 1..n : r[i] = q[i]
      /\ DOMAIN q = 1..n
  BY AppendProperties, LenProperties
<1>2. Ends(r) <=> Ends(q) \/ e = "DEACTIVATED"
  BY AppendSet DEF Ends
<1>3. Ends(q) <=> \E k \in 1..n : q[k] = "DEACTIVATED"
  BY <1>1 DEF Ends, ToSet
<1> HIDE DEF r, n
<1>4. \A i \in 1..(n + 1) : i \in 1..n \/ i = n + 1
  BY <1>1
<1>5. \A i \in 1..n : i \in 1..(n + 1) /\ i < n + 1
  BY <1>1
<1>6. n + 1 \in 1..(n + 1) /\ \A i \in 1..(n + 1) : ~(n + 1 < i)
  BY <1>1
<1>n. n = Len(q)
  BY DEF n
<1>7. e = "DEACTIVATED" \/ (DataEnds(q) /\ e # "DATA") => DataEnds(r)
  BY <1>1, <1>4, <1>5, <1>6, <1>n DEF DataEnds
<1>8. e = "CONGESTED" /\ DataEnds(r) => DataEnds(q)
  BY <1>1, <1>4, <1>5, <1>6, <1>n DEF DataEnds
<1>9. NewEnds(q) /\ (e = "CONN_REQ" => Ends(q)) => NewEnds(r)
  BY <1>1, <1>3, <1>4, <1>5, <1>n DEF NewEnds
<1>10. NewEnds(r) => NewEnds(q)
  BY <1>1, <1>4, <1>5, <1>6, <1>n DEF NewEnds
<1>11. DataApart(q) /\ (e = "CONN_REQ" => DataEnds(q)) => DataApart(r)
  BY <1>1, <1>4, <1>5, <1>6, <1>n DEF DataApart, DataEnds
<1>12. DataApart(r) => DataApart(q)
  BY <1>1, <1>4, <1>5, <1>6, <1>n DEF DataApart
<1> QED
  BY <1>2, <1>7, <1>8, <1>9, <1>10, <1>11, <1>12 DEF r

LEMMA TailOrder ==
  ASSUME NEW q \in Seq(Kinds), q # <<>>
  PROVE  /\ Ends(q) => Head(q) = "DEACTIVATED" \/ Ends(Tail(q))
         /\ DataEnds(q) => DataEnds(Tail(q)) /\ (Head(q) = "DATA" => Ends(Tail(q)))
         /\ NewEnds(q) => Head(q) # "CONN_REQ"
         /\ NewEnds(q) /\ Head(q) # "DEACTIVATED" => NewEnds(Tail(q))
         /\ DataApart(q) => DataApart(Tail(q)) /\ (Head(q) = "DATA" => NewEnds(Tail(q)))
<1> DEFINE t == Tail(q)
           n == Len(q)
<1>1. /\ n \in Nat \ {0} /\ DOMAIN q = 1..n /\ Head(q) = q[1]
      /\ Len(t) = n - 1 /\ DOMAIN t = 1..(n - 1) /\ \A i \in 1..(n - 1) : t[i] = q[i + 1]
  BY LenProperties, EmptySeq, HeadTailProperties
<1>2. Ends(q) => Head(q) = "DEACTIVATED" \/ Ends(t)
  BY TailSet DEF Ends
<1>n. n = Len(q)
  OBVIOUS
<1> HIDE DEF t, n
<1>3. \A i \in 1..(n - 1) : i + 1 \in 1..n /\ 1 < i + 1
  BY <1>1
<1>4. \A k \in 1..n : k # 1 => k - 1 \in 1..(n - 1) /\ (k - 1) + 1 = k /\ t[k - 1] = q[k]
  BY <1>1
<1>5. \A k \in 1..n : \A i \in 1..(n - 1) : /\ i + 1 < k => i < k - 1 /\ k # 1
                                         /\ k < i + 1 => k - 1 < i
  BY <1>1
<1>6. \A i, j \in 1..(n - 1) : i < j => i + 1 < j + 1
  BY <1>1
<1>7. 1 \in 1..n /\ \A k \in 1..n : ~(k < 1) /\ (1 < k => k # 1)
  BY <1>1
<1>8. DataEnds(q) => DataEnds(t)
  BY <1>1, <1>3, <1>4, <1>5, <1>n DEF DataEnds
<1>9. DataEnds(q) /\ Head(q) = "DATA" => Ends(t)
  BY <1>1, <1>4, <1>7, <1>n DEF DataEnds, Ends, ToSet
<1>10. NewEnds(q) => Head(q) # "CONN_REQ"
  BY <1>1, <1>7, <1>n DEF NewEnds
<1>11. NewEnds(q) /\ Head(q) # "DEACTIVATED" => NewEnds(t)
  BY <1>1, <1>3, <1>4, <1>5, <1>n DEF NewEnds
<1>12. DataApart(q) => DataApart(t)
  BY <1>1, <1>3, <1>4, <1>5, <1>6, <1>n DEF DataApart
<1>13. DataApart(q) /\ Head(q) = "DATA" => NewEnds(t)
  BY <1>1, <1>3, <1>4, <1>5, <1>7, <1>n DEF DataApart, NewEnds
<1> QED
  BY <1>2, <1>8, <1>9, <1>10, <1>11, <1>12, <1>13 DEF t

-----------------------------------------------------------------------------
(***************************************************************************)
(* What a step does to the events: a report of the stack appends, a pull   *)
(* removes the first, and the callback drops a congestion.                 *)
(***************************************************************************)
LEMMA EventsType ==
  ASSUME Shape
  PROVE  /\ Events \in Seq(Kinds) /\ dtaq \in Seq(Kinds) /\ out \in Seq(Kinds)
         /\ ToSet(Events) = ToSet(dtaq) \cup ToSet(out)
BY ConcatProperties, ConcatSet DEF Events, Shape, QueueShape, CallbackShape

LEMMA PendingIsEvent == Shape => \A k : Pending(k) <=> k \in ToSet(Events)
BY EventsType DEF Pending

LEMMA ReportEvents ==
  ASSUME Shape, UNCHANGED dtaq
  PROVE  /\ \A k \in Kinds : Report(<<k>>) => Events' = Append(Events, k)
         /\ Report(<<"DISCONNECTED", "DEACTIVATED">>)
              => Events' = Append(Append(Events, "DISCONNECTED"), "DEACTIVATED")
<1>1. dtaq \in Seq(Kinds)
  BY DEF Shape, QueueShape
<1>2. out = <<>> => Events = dtaq
  BY <1>1, ConcatEmptySeq DEF Events
<1>3. ASSUME NEW k \in Kinds, Report(<<k>>) PROVE Events' = Append(Events, k)
  BY <1>1, <1>2, <1>3, AppendIsConcat DEF Report, Events
<1>4. ASSUME Report(<<"DISCONNECTED", "DEACTIVATED">>)
      PROVE  Events' = Append(Append(Events, "DISCONNECTED"), "DEACTIVATED")
  <2>1. {"DISCONNECTED", "DEACTIVATED"} \subseteq Kinds
    BY DEF Kinds
  <2>2. Append(dtaq, "DISCONNECTED") \in Seq(Kinds)
    BY <1>1, <2>1, AppendProperties
  <2>3. Append(Append(dtaq, "DISCONNECTED"), "DEACTIVATED")
          = (dtaq \o <<"DISCONNECTED">>) \o <<"DEACTIVATED">>
    BY <1>1, <2>1, <2>2, AppendIsConcat
  <2>4. (dtaq \o <<"DISCONNECTED">>) \o <<"DEACTIVATED">>
          = dtaq \o (<<"DISCONNECTED">> \o <<"DEACTIVATED">>)
    <3>1. <<"DISCONNECTED">> \in Seq(Kinds) /\ <<"DEACTIVATED">> \in Seq(Kinds)
      BY <2>1
    <3> QED
      BY <1>1, <3>1, ConcatAssociative
  <2>5. <<"DISCONNECTED">> \o <<"DEACTIVATED">> = <<"DISCONNECTED", "DEACTIVATED">>
    <3> DEFINE a == <<"DISCONNECTED">> \o <<"DEACTIVATED">>
               b == <<"DISCONNECTED", "DEACTIVATED">>
    <3>1. /\ <<"DISCONNECTED">> \in Seq(Kinds) /\ <<"DEACTIVATED">> \in Seq(Kinds)
          /\ Len(<<"DISCONNECTED">>) = 1 /\ Len(<<"DEACTIVATED">>) = 1
      BY <2>1
    <3>2. /\ a \in Seq(Kinds) /\ Len(a) = 2
          /\ \A i \in 1..2 : a[i] = IF i <= 1 THEN <<"DISCONNECTED">>[i]
                                              ELSE <<"DEACTIVATED">>[i - 1]
      BY <3>1, ConcatProperties
    <3>3. /\ b \in Seq(Kinds) /\ Len(b) = 2
          /\ b[1] = "DISCONNECTED" /\ b[2] = "DEACTIVATED"
      BY <2>1
    <3>4. a[1] = "DISCONNECTED" /\ a[2] = "DEACTIVATED"
      BY <3>2
    <3> HIDE DEF a, b
    <3>5. \A i \in 1..2 : a[i] = b[i]
      BY <3>3, <3>4
    <3>6. a = b
      BY <3>2, <3>3, <3>5, SeqEqual
    <3> QED
      BY <3>6 DEF a, b
  <2>6. Events = dtaq /\ Events' = dtaq \o <<"DISCONNECTED", "DEACTIVATED">>
    BY <1>2, <1>4 DEF Report, Events
  <2> QED
    BY <2>3, <2>4, <2>5, <2>6
<1> QED
  BY <1>3, <1>4

LEMMA CallbackEvents ==
  ASSUME Shape, LlcpEvtCb
  PROVE  \/ Events' = Events
         \/ Events = Append(Events', "CONGESTED") /\ Events' \in Seq(Kinds) /\ congested'
<1>1. /\ dtaq \in Seq(Kinds) /\ out \in Seq(Kinds) /\ out # <<>>
  BY DEF LlcpEvtCb, SetFlags, PushEvent, Shape, QueueShape, CallbackShape
<1>2. CASE PushEvent
  <2>1. Event \in Kinds /\ Tail(out) \in Seq(Kinds) /\ out = <<Event>> \o Tail(out)
    BY <1>1, HeadTailProperties DEF Event
  <2>2. dtaq' = dtaq \o <<Event>> /\ out' = Tail(out)
    BY <1>1, <1>2, <2>1, AppendIsConcat DEF PushEvent, Reported
  <2>3. <<Event>> \in Seq(Kinds)
    BY <2>1
  <2>4. (dtaq \o <<Event>>) \o Tail(out) = dtaq \o (<<Event>> \o Tail(out))
    BY <1>1, <2>1, <2>3, ConcatAssociative
  <2> QED
    BY <2>1, <2>2, <2>4 DEF Events
<1>3. CASE SetFlags /\ Event # "CONGESTED"
  BY <1>3 DEF SetFlags, Events
<1>4. CASE SetFlags /\ Event = "CONGESTED"
  <2>1. out = <<"CONGESTED">>
    BY <1>1, <1>4 DEF Shape, CallbackShape, OutShape, Event
  <2>2. out' = <<>> /\ dtaq' = dtaq /\ congested'
    <3>1. Reported /\ dtaq' = dtaq
      BY <1>4 DEF SetFlags
    <3>2. Tail(<<"CONGESTED">>) = <<>>
      OBVIOUS
    <3>3. congested' = (Event = "CONGESTED")
      BY <1>4 DEF SetFlags
    <3> QED
      BY <1>4, <2>1, <3>1, <3>2, <3>3 DEF Reported
  <2>3. Events' = dtaq /\ Events = dtaq \o <<"CONGESTED">>
    BY <1>1, <2>1, <2>2, ConcatEmptySeq DEF Events
  <2>4. "CONGESTED" \in Kinds
    BY DEF Kinds
  <2> QED
    BY <1>1, <2>2, <2>3, <2>4, AppendIsConcat
<1> QED
  BY <1>2, <1>3, <1>4 DEF LlcpEvtCb

LEMMA PullEvents ==
  ASSUME Shape, NEW kind, NEW next, Pull(kind, next), UNCHANGED out
  PROVE  Events # <<>> /\ Head(Events) = kind /\ Events' = Tail(Events)
<1>1. dtaq \in Seq(Kinds) /\ out \in Seq(Kinds) /\ dtaq # <<>>
  BY DEF Shape, QueueShape, CallbackShape, Pull
<1>2. /\ Head(dtaq) \in Kinds /\ Tail(dtaq) \in Seq(Kinds)
      /\ dtaq = <<Head(dtaq)>> \o Tail(dtaq)
  BY <1>1, HeadTailProperties
<1>3. <<Head(dtaq)>> \in Seq(Kinds)
  BY <1>2
<1>4. Events = <<Head(dtaq)>> \o (Tail(dtaq) \o out)
  BY <1>1, <1>2, <1>3, ConcatAssociative DEF Events
<1>5. Tail(dtaq) \o out \in Seq(Kinds)
  BY <1>1, <1>2, ConcatProperties
<1>6. ASSUME NEW e \in Kinds, NEW q \in Seq(Kinds)
      PROVE  <<e>> \o q # <<>> /\ Head(<<e>> \o q) = e /\ Tail(<<e>> \o q) = q
  OBVIOUS
<1>7. Events # <<>> /\ Head(Events) = Head(dtaq) /\ Tail(Events) = Tail(dtaq) \o out
  BY <1>2, <1>4, <1>5, <1>6
<1>8. Events' = Tail(dtaq) \o out /\ kind = Head(dtaq)
  BY DEF Events, Pull
<1> QED
  BY <1>7, <1>8

-----------------------------------------------------------------------------
(***************************************************************************)
(* No PDU outlives its link: whoever holds one has the end of its link     *)
(* before any new connection, and before it knows that the link is down.   *)
(***************************************************************************)
Holding ==
  backlog # <<>> \/ pc \in {"recv", "received", "queueing", "delay", "send"}

Order ==
  /\ client = "connected" => up
  /\ DataApart(Events)
  /\ Holding => NewEnds(Events)
  /\ ~up \/ client = "new" => DataEnds(Events) /\ (Holding => Ends(Events))

LEMMA OrderInit == Init => Order
<1> SUFFICES ASSUME Init PROVE Order
  OBVIOUS
<1>1. <<>> \o <<>> = <<>>
  BY EmptySeq, ConcatEmptySeq
<1>2. Events = <<>>
  BY <1>1 DEF Init, Events
<1> QED
  BY <1>2 DEF Init, Order, Holding, DataApart, DataEnds

LEMMA StackOrder == Shape /\ Order /\ Stack => Order'
<1> SUFFICES ASSUME Shape, Order, Stack PROVE Order'
  OBVIOUS
<1>1. UNCHANGED <<dtaq, backlog, pc>> /\ (Holding' <=> Holding)
  BY DEF Stack, LinkUp, Connect, Receive, Disconnect, Jam, Unjam, LinkDown, Library, Holding
<1>2. Events \in Seq(Kinds)
  BY EventsType
<1>3. \A k \in Kinds : Report(<<k>>) => Events' = Append(Events, k)
  BY <1>1, ReportEvents
<1>4. \A k \in Kinds : Append(Events, k) \in Seq(Kinds)
  BY <1>2, AppendProperties
<1>5. {"ACTIVATED", "DEACTIVATED", "CONN_REQ", "DATA", "DISCONNECTED", "CONGESTED",
       "UNCONGESTED"} \subseteq Kinds
  BY DEF Kinds
<1> USE DEF Order
<1>6. CASE LinkUp
  <2>1. Events' = Append(Events, "ACTIVATED") /\ ~up /\ client' = "new"
    BY <1>3, <1>5, <1>6 DEF LinkUp
  <2> QED
    BY <1>1, <1>2, <1>5, <2>1, AppendOrder
<1>7. CASE Connect
  <2>1. Events' = Append(Events, "CONN_REQ") /\ up /\ client = "new" /\ up' /\ client' = "connected"
    BY <1>3, <1>5, <1>7 DEF Connect
  <2> QED
    BY <1>1, <1>2, <1>5, <2>1, AppendOrder
<1>8. CASE Receive
  <2>1. Events' = Append(Events, "DATA") /\ client = "connected" /\ UNCHANGED <<up, client>>
    BY <1>3, <1>5, <1>8 DEF Receive
  <2> QED
    BY <1>1, <1>2, <1>5, <2>1, AppendOrder
<1>9. CASE Disconnect
  <2>1. /\ Events' = Append(Events, "DISCONNECTED")
        /\ client = "connected" /\ client' = "left" /\ up' = up
    BY <1>3, <1>5, <1>9 DEF Disconnect
  <2> QED
    BY <1>1, <1>2, <1>5, <2>1, AppendOrder
<1>10. CASE Jam \/ Unjam
  <2>1. \E e \in {"CONGESTED", "UNCONGESTED"} : Events' = Append(Events, e)
    BY <1>3, <1>5, <1>10 DEF Jam, Unjam
  <2>2. UNCHANGED <<up, client>>
    BY <1>10 DEF Jam, Unjam
  <2> QED
    BY <1>1, <1>2, <1>5, <2>1, <2>2, AppendOrder
<1>11. CASE LinkDown
  <2>1. PICK q \in {Events, Append(Events, "DISCONNECTED")} : Events' = Append(q, "DEACTIVATED")
    BY <1>1, <1>3, <1>5, <1>11, ReportEvents DEF LinkDown
  <2>2. q \in Seq(Kinds) /\ DataApart(q) /\ (Holding => NewEnds(q))
    BY <1>2, <1>4, <1>5, <2>1, AppendOrder
  <2>3. client' = "left"
    BY <1>11 DEF LinkDown
  <2> QED
    BY <1>1, <1>5, <2>1, <2>2, <2>3, AppendOrder
<1> QED
  BY <1>6, <1>7, <1>8, <1>9, <1>10, <1>11 DEF Stack

LEMMA CallbackOrder == Shape /\ Order /\ LlcpEvtCb => Order'
<1> SUFFICES ASSUME Shape, Order, LlcpEvtCb PROVE Order'
  OBVIOUS
<1>1. UNCHANGED <<up, client, backlog, pc>>
  BY DEF LlcpEvtCb, SetFlags, PushEvent, External
<1>2. CASE Events' = Events
  BY <1>1, <1>2 DEF Order, Holding
<1>3. CASE Events = Append(Events', "CONGESTED") /\ Events' \in Seq(Kinds)
  <2>1. "CONGESTED" \in Kinds /\ "CONGESTED" # "DEACTIVATED"
    BY DEF Kinds
  <2> QED
    BY <1>1, <1>3, <2>1, AppendOrder DEF Order, Holding
<1> QED
  BY <1>2, <1>3, CallbackEvents

LEMMA ThreadOrder == Shape /\ Order /\ DtaThread => Order'
<1> SUFFICES ASSUME Shape, Order, DtaThread PROVE Order'
  OBVIOUS
<1>1. Events \in Seq(Kinds)
  BY EventsType
<1> USE DEF Order
<1>2. CASE \/ HandleActivated \/ HandleData \/ HandleUncongested
           \/ HandleConnReq \/ HandleDisconnected
  <2>1. PICK kind \in Kinds \ {"DEACTIVATED"} :
          \E next : Pull(kind, next) /\ (kind = "DATA" \/ ~(next \in {"recv", "received", "queueing", "delay", "send"}))
    BY <1>2 DEF Kinds, HandleActivated, HandleData, HandleUncongested, HandleConnReq,
                HandleDisconnected
  <2>2. UNCHANGED <<up, backlog, out>> /\ client' \in {client, "left"}
    BY <1>2 DEF HandleActivated, HandleData, HandleUncongested, HandleConnReq,
                HandleDisconnected, stackVars
  <2>3. Events # <<>> /\ Head(Events) = kind /\ Events' = Tail(Events)
    BY <2>1, <2>2, PullEvents
  <2>4. Holding' => Holding \/ kind = "DATA"
    BY <2>1, <2>2 DEF Holding, Pull
  <2> QED
    BY <1>1, <2>1, <2>2, <2>3, <2>4, TailOrder
<1>3. CASE HandleDeactivated
  <2>1. Pull("DEACTIVATED", "pull") /\ UNCHANGED <<up, client, out>> /\ backlog' = <<>>
    BY <1>3 DEF HandleDeactivated, stackVars
  <2>2. Events # <<>> /\ Events' = Tail(Events)
    BY <2>1, PullEvents
  <2>3. ~Holding'
    BY <2>1 DEF Holding, Pull
  <2> QED
    BY <1>1, <2>1, <2>2, <2>3, TailOrder
<1>4. CASE \/ RecvData \/ CheckCongested \/ QueueCongestData \/ CheckDisconnected
           \/ EchoData \/ PullBacklog \/ Resend
  <2>1. UNCHANGED <<up, client, dtaq, out>>
    BY <1>4 DEF RecvData, CheckCongested, QueueCongestData, CheckDisconnected, EchoData,
                PullBacklog, Resend, SendData, stackVars
  <2>2. Holding' => Holding
    BY <1>4 DEF RecvData, CheckCongested, QueueCongestData, CheckDisconnected, EchoData,
                PullBacklog, Resend, SendData, Holding
  <2> QED
    BY <2>1, <2>2 DEF Events
<1> QED
  BY <1>2, <1>3, <1>4 DEF DtaThread

LEMMA OrderStep == Shape /\ Order /\ [Next]_vars => Order'
<1>1. Order /\ UNCHANGED vars => Order'
  BY DEF Order, Holding, Events, vars, stackVars
<1> QED
  BY <1>1, StackOrder, CallbackOrder, ThreadOrder DEF Next

(* Once the end of a link is handled (phDtaLibi_LlcpHandleDeactivatedEvent,*)
(* phDTA_LLCPTest.c:427-447) no PDU of it is left, however far the         *)
(* callback and the link ran ahead of the DTA thread.                      *)
THEOREM BacklogOfThisLinkCorrect == Spec => []BacklogOfThisLink
<1>1. Shape /\ Order => BacklogOfThisLink
  BY PendingIsEvent DEF Order, Holding, Ends, BacklogOfThisLink
<1> QED
  BY <1>1, OrderInit, OrderStep, ShapeAlways, PTL DEF Spec

-----------------------------------------------------------------------------
(***************************************************************************)
(* No lost wakeup: the test of the flag and the push to the congested      *)
(* queue are one window, in which the clearing of the flag is pending.     *)
(***************************************************************************)
Wakes(q) == {"UNCONGESTED", "DEACTIVATED"} \cap ToSet(q) # {}

Awake ==
  (backlog # <<>> \/ pc = "queueing") /\ ~congested /\ ~jam /\ server
    => Wakes(Events) \/ pc \in {"drain", "resend"}

LEMMA WakesAppend ==
  ASSUME NEW q \in Seq(Kinds), NEW e \in Kinds
  PROVE  Wakes(Append(q, e)) <=> Wakes(q) \/ e \in {"UNCONGESTED", "DEACTIVATED"}
BY AppendSet DEF Wakes

LEMMA WakesTail ==
  ASSUME NEW q \in Seq(Kinds), q # <<>>, Wakes(q),
         Head(q) \notin {"UNCONGESTED", "DEACTIVATED"}
  PROVE  Wakes(Tail(q))
BY TailSet DEF Wakes

LEMMA AwakeStep == Shape /\ Order /\ Awake /\ [Next]_vars => Awake'
<1> SUFFICES ASSUME Shape, Order, Awake, [Next]_vars PROVE Awake'
  OBVIOUS
<1>1. Events \in Seq(Kinds)
  BY EventsType
<1>2. CASE UNCHANGED vars
  BY <1>2 DEF Awake, Events, vars, stackVars, flags
<1>3. CASE Stack
  <2>1. UNCHANGED <<backlog, pc, congested, dtaq>>
    BY <1>3 DEF Stack, LinkUp, Connect, Receive, Disconnect, Jam, Unjam, LinkDown, Library,
                flags
  <2>2. CASE LinkUp \/ Connect \/ Receive \/ Disconnect
    <3>1. PICK e \in {"ACTIVATED", "CONN_REQ", "DATA", "DISCONNECTED"} : Report(<<e>>)
      BY <2>2 DEF LinkUp, Connect, Receive, Disconnect
    <3>2. e \in Kinds /\ Events' = Append(Events, e)
      BY <2>1, <3>1, ReportEvents DEF Kinds
    <3>3. UNCHANGED <<jam, server>>
      BY <2>2 DEF LinkUp, Connect, Receive, Disconnect
    <3> QED
      BY <1>1, <2>1, <3>2, <3>3, WakesAppend DEF Awake
  <2>3. CASE Unjam
    <3>1. Report(<<"UNCONGESTED">>)
      BY <2>3 DEF Unjam
    <3>2. "UNCONGESTED" \in Kinds /\ Events' = Append(Events, "UNCONGESTED")
      BY <2>1, <3>1, ReportEvents DEF Kinds
    <3> QED
      BY <1>1, <3>2, WakesAppend DEF Awake
  <2>4. CASE Jam \/ LinkDown
    BY <2>4 DEF Jam, LinkDown, Awake
  <2> QED
    BY <1>3, <2>2, <2>3, <2>4 DEF Stack
<1>4. CASE LlcpEvtCb
  <2>1. UNCHANGED <<backlog, pc, jam, server>>
    BY <1>4 DEF LlcpEvtCb, SetFlags, PushEvent, External
  <2>2. CASE congested'
    BY <2>2 DEF Awake
  <2>3. CASE ~congested' /\ congested
    <3>1. SetFlags /\ Event = "UNCONGESTED" /\ stage' = "push" /\ out' = out
      BY <1>4, <2>3 DEF LlcpEvtCb, SetFlags, PushEvent, flags
    <3>2. out # <<>> /\ Event \in ToSet(out)
      BY <3>1, TailSet DEF SetFlags, Shape, CallbackShape, Event
    <3>3. "UNCONGESTED" \in ToSet(Events) /\ Events' = Events
      BY <3>1, <3>2, EventsType DEF Events, SetFlags
    <3> QED
      BY <3>3 DEF Awake, Wakes
  <2>4. CASE ~congested' /\ ~congested
    BY <1>4, <2>1, <2>4, CallbackEvents DEF Awake
  <2> QED
    BY <2>2, <2>3, <2>4
<1>5. CASE HandleActivated \/ HandleData
  <2>1. PICK kind \in {"ACTIVATED", "DATA"} : \E next : Pull(kind, next)
    BY <1>5 DEF HandleActivated, HandleData
  <2>2. UNCHANGED <<backlog, congested, jam, server, out>> /\ pc = "pull" /\ pc' # "queueing"
    BY <1>5 DEF HandleActivated, HandleData, Pull, stackVars, flags
  <2>3. Events # <<>> /\ Head(Events) = kind /\ Events' = Tail(Events)
    BY <2>1, <2>2, PullEvents
  <2> QED
    BY <1>1, <2>1, <2>2, <2>3, WakesTail DEF Awake
<1>6. CASE HandleConnReq
  <2>1. Pull("CONN_REQ", "pull") /\ UNCHANGED <<backlog, out>>
    BY <1>6 DEF HandleConnReq
  <2>2. Events # <<>> /\ Head(Events) = "CONN_REQ"
    BY <2>1, PullEvents
  <2>3. ~Holding
    BY <1>1, <2>2, TailOrder DEF Order
  <2> QED
    BY <2>1, <2>3 DEF Awake, Holding, Pull
<1>7. CASE RecvData \/ CheckDisconnected \/ EchoData
  <2>1. /\ UNCHANGED <<backlog, congested, jam, server, dtaq, out>>
        /\ pc' # "queueing" /\ pc \notin {"drain", "resend"}
    BY <1>7 DEF RecvData, CheckDisconnected, EchoData, SendData, stackVars, flags
  <2> QED
    BY <2>1 DEF Awake, Events
<1>8. CASE CheckCongested
  <2>1. /\ UNCHANGED <<backlog, congested, jam, server, dtaq, out>>
        /\ pc = "received" /\ pc' = IF congested THEN "queueing" ELSE "delay"
    BY <1>8 DEF CheckCongested, stackVars, flags
  <2> QED
    BY <2>1 DEF Awake, Events
<1>9. CASE QueueCongestData
  <2>1. /\ UNCHANGED <<congested, jam, server, dtaq, out>>
        /\ pc = "queueing"
    BY <1>9 DEF QueueCongestData, stackVars, flags
  <2> QED
    BY <2>1 DEF Awake, Events
<1>10. CASE HandleUncongested
  BY <1>10 DEF HandleUncongested, Pull, Awake
<1>11. CASE PullBacklog
  BY <1>11 DEF PullBacklog, Awake, stackVars, flags
<1>12. CASE Resend
  BY <1>12 DEF Resend, SendData, Awake, stackVars
<1>13. CASE HandleDeactivated
  BY <1>13 DEF HandleDeactivated, Pull, Awake
<1>14. CASE HandleDisconnected
  <2>1. CASE ~server'
    BY <2>1 DEF Awake
  <2>2. CASE server'
    <3>1. /\ Pull("DISCONNECTED", "pull") /\ UNCHANGED <<backlog, congested, jam, server, out>>
          /\ pc = "pull" /\ pc' = "pull"
      BY <1>14, <2>2 DEF HandleDisconnected, Pull, flags
    <3>2. Events # <<>> /\ Head(Events) = "DISCONNECTED" /\ Events' = Tail(Events)
      BY <3>1, PullEvents
    <3> QED
      BY <1>1, <3>1, <3>2, WakesTail DEF Awake
  <2> QED
    BY <2>1, <2>2
<1> QED
  BY <1>2, <1>3, <1>4, <1>5, <1>6, <1>7, <1>8, <1>9, <1>10, <1>11, <1>12, <1>13, <1>14
     DEF Next, DtaThread

(* The flag is tested (phDTA_LLCPTest.c:205) before the push (:212), and   *)
(* another thread may clear it in between: a PDU that waits on an open     *)
(* link that is no longer congested still has someone to send it.          *)
THEOREM NoLostWakeupCorrect == Spec => []NoLostWakeup
<1>1. Init => Awake
  BY DEF Init, Awake
<1>2. Shape /\ Awake => NoLostWakeup
  BY PendingIsEvent DEF Awake, Wakes, NoLostWakeup
<1> QED
  BY <1>1, <1>2, OrderInit, OrderStep, AwakeStep, ShapeAlways, PTL DEF Spec
=============================================================================
