-------------------------- MODULE DtaEventLoopProofs --------------------------
(***************************************************************************)
(* Proofs about DtaEventLoop, for queues of any length, any protocols, and *)
(* any number of activations and frames.                                   *)
(***************************************************************************)
EXTENDS DtaEventLoop, SequenceTheorems, TLAPS

LEMMA Bounds ==
  /\ DtaLength \in Nat \ {0} /\ MwLength \in Nat \ {0}
  /\ MaxSessions \in Nat /\ MaxFrames \in Nat
  /\ Protocols \subseteq AllProtocols
BY LoopAssumption

-----------------------------------------------------------------------------
(***************************************************************************)
(* Types, in four parts.                                                   *)
(***************************************************************************)
(* A card emulation is activated with a protocol that a host or a UICC     *)
(* answers.                                                                *)
Emulated == AllProtocols \ {"NFC_DEP"}
LoopEvents == {e \in Events : e.kind = "CE_ACTIVATED" => e.detail \in Emulated}

LEMMA EventIs ==
  ASSUME NEW e \in LoopEvents
  PROVE  /\ e = [kind |-> e.kind, detail |-> e.detail, session |-> e.session]
         /\ e.kind \in Kinds /\ e.detail \in Details /\ e.session \in 0..MaxSessions
         /\ e.kind = "CE_ACTIVATED" => e.detail \in Emulated
BY DEF LoopEvents, Events

Requests == {"CONFIG", "START", "STOP", "SEND", "DISABLE"}

StackShape ==
  /\ rf \in AllProtocols \cup {"off", "disc", "gone"}
  /\ session \in 0..MaxSessions /\ frames \in 0..MaxFrames /\ owed \in BOOLEAN
  /\ reqs \in Seq(Requests)

CallbackShape ==
  /\ out \in Seq(LoopEvents)
  /\ stage \in {"new", "mwq", "dtaq", "idle"} /\ (stage = "idle" <=> out = <<>>)
  /\ devState \in {"IDLE", "DISC", "ACTIVE"} /\ dataLast \in BOOLEAN

QueueShape ==
  /\ mwq \in Seq(LoopEvents) /\ Len(mwq) <= MwLength
  /\ dtaq \in Seq(LoopEvents) /\ Len(dtaq) <= DtaLength

ThreadShape ==
  /\ pc \in [Threads -> DtaPcs \cup AppPcs] /\ pc["dta"] \in DtaPcs /\ pc["app"] \in AppPcs
  /\ own \in 0..MaxSessions /\ mwUp \in BOOLEAN

Shape == StackShape /\ CallbackShape /\ QueueShape /\ ThreadShape

LEMMA ShapeIsType == Shape => TypeOK
<1>1. LoopEvents \subseteq Events
  BY DEF LoopEvents
<1>2. \A s \in Seq(LoopEvents) : s \in Seq(Events)
  BY <1>1
<1> QED
  BY <1>2 DEF Shape, StackShape, CallbackShape, QueueShape, ThreadShape, TypeOK, Requests

LEMMA ShapeInit == Init => Shape
<1> SUFFICES ASSUME Init PROVE Shape
  OBVIOUS
<1>1. \A S : <<>> \in Seq(S)
  BY EmptySeq
<1>2. Len(<<>>) = 0
  OBVIOUS
<1>3. 0 \in 0..MaxSessions /\ 0 \in 0..MaxFrames
  BY Bounds
<1>4. StackShape
  BY <1>1, <1>3 DEF Init, StackShape
<1>5. CallbackShape
  BY <1>1 DEF Init, CallbackShape
<1>6. QueueShape
  BY <1>1, <1>2, Bounds DEF Init, QueueShape
<1>7. ThreadShape
  BY <1>3 DEF Init, ThreadShape, Threads, DtaPcs, AppPcs
<1> QED
  BY <1>4, <1>5, <1>6, <1>7 DEF Shape

LEMMA EventType ==
  ASSUME Shape, NEW k \in Kinds, k # "CE_ACTIVATED", NEW d \in Details
  PROVE  Event(k, d) \in LoopEvents
BY DEF Shape, StackShape, Event, Events, LoopEvents

LEMMA Pair ==
  ASSUME NEW S, NEW a \in S, NEW b \in S
  PROVE  <<a>> \o <<b>> = <<a, b>> /\ <<>> \o <<b>> = <<b>>
<1> DEFINE c == <<a>> \o <<b>>
           d == <<a, b>>
<1>1. /\ <<a>> \in Seq(S) /\ Len(<<a>>) = 1 /\ <<a>>[1] = a
      /\ <<b>> \in Seq(S) /\ Len(<<b>>) = 1 /\ <<b>>[1] = b
  OBVIOUS
<1>2. c \in Seq(S) /\ Len(c) = 2 /\ c[1] = a /\ c[2] = b
  <2>1. \A i \in 1..2 : c[i] = IF i <= 1 THEN <<a>>[i] ELSE <<b>>[i - 1]
    BY <1>1, ConcatProperties
  <2> QED
    BY <1>1, <2>1, ConcatProperties
<1>3. d \in Seq(S) /\ Len(d) = 2 /\ d[1] = a /\ d[2] = b
  OBVIOUS
<1> HIDE DEF c, d
<1>4. \A i \in 1..2 : c[i] = d[i]
  BY <1>2, <1>3
<1>5. c = d
  BY <1>2, <1>3, <1>4, SeqEqual
<1>6. <<>> \o <<b>> = <<b>>
  BY <1>1, ConcatEmptySeq
<1> QED
  BY <1>5, <1>6 DEF c, d

(* The events a step of the stack reports.                                 *)
LEMMA StackReports ==
  ASSUME Shape, Nfa
  PROVE  /\ out = <<>>
         /\ \/ out' = out /\ stage' = stage
            \/ /\ stage' = "new"
               /\ \/ \E a \in LoopEvents : out' = <<a>>
                  \/ \E a, b \in LoopEvents : out' = <<a, b>>
<1> USE DEF NfaIdle, Report, Requested
<1>1. \A k \in Kinds, d \in Details : k # "CE_ACTIVATED" => Event(k, d) \in LoopEvents
  BY EventType
<1>2. /\ {"CE_DATA", "CONFIGURED", "STARTED", "STOPPED", "DISABLED", "ACTIVATED",
           "CE_ACTIVATED", "CE_DEACTIVATED", "DEACTIVATED"} \subseteq Kinds
      /\ {"-", "IDLE", "DISCOVERY"} \subseteq Details /\ AllProtocols \subseteq Details
  BY DEF Kinds, Details, Answers, Deactivations
<1>3. \A type \in {"IDLE", "DISCOVERY"} : Deactivation(type) \in LoopEvents
  BY <1>1, <1>2 DEF Deactivation
<1>4. CASE Activate
  <2>1. session + 1 \in 0..MaxSessions
    BY <1>4, Bounds DEF Activate, Shape, StackShape
  <2>2. PICK p \in Protocols :
          out' = <<[kind |-> IF p = "NFC_DEP" THEN "ACTIVATED" ELSE "CE_ACTIVATED",
                    detail |-> p, session |-> session + 1]>>
    BY <1>4 DEF Activate
  <2>3. [kind |-> IF p = "NFC_DEP" THEN "ACTIVATED" ELSE "CE_ACTIVATED",
         detail |-> p, session |-> session + 1] \in LoopEvents
    BY <1>2, <2>1, Bounds DEF Events, LoopEvents, Emulated
  <2> QED
    BY <1>4, <2>2, <2>3 DEF Activate
<1>5. CASE ReaderFrame
  BY <1>1, <1>2, <1>5 DEF ReaderFrame
<1>6. CASE RemoteLeaves
  BY <1>3, <1>6 DEF RemoteLeaves
<1>7. CASE NfaConfig \/ NfaStart
  BY <1>1, <1>2, <1>7 DEF NfaConfig, NfaStart
<1>8. CASE NfaStop
  <2>1. Event("STOPPED", "-") \in LoopEvents /\ Deactivation("IDLE") \in LoopEvents
    BY <1>1, <1>2, <1>3
  <2>2. /\ <<Deactivation("IDLE")>> \o <<Event("STOPPED", "-")>>
              = <<Deactivation("IDLE"), Event("STOPPED", "-")>>
        /\ <<>> \o <<Event("STOPPED", "-")>> = <<Event("STOPPED", "-")>>
    BY <2>1, Pair
  <2>3. CASE Active
    BY <1>8, <2>1, <2>2, <2>3 DEF NfaStop
  <2>4. CASE ~Active
    BY <1>8, <2>1, <2>2, <2>4 DEF NfaStop
  <2> QED
    BY <2>3, <2>4
<1>9. CASE NfaSend
  BY <1>9 DEF NfaSend
<1>10. CASE NfaDisable
  <2>1. Deactivations \subseteq Kinds \ {"CE_ACTIVATED"} /\ "DEACTIVATED" \in Deactivations
    BY <1>2 DEF Deactivations
  <2>2. \/ Report(<<Event("DISABLED", "-")>>)
        \/ \E k \in Kinds \ {"CE_ACTIVATED"} : Report(<<Event(k, "IDLE"), Event("DISABLED", "-")>>)
    BY <1>10, <2>1 DEF NfaDisable
  <2>3. out = <<>>
    BY <1>10 DEF NfaDisable
  <2> QED
    BY <1>1, <1>2, <2>2, <2>3
<1> QED
  BY <1>4, <1>5, <1>6, <1>7, <1>8, <1>9, <1>10 DEF Nfa

LEMMA StackStepShape == Shape /\ Nfa => Shape'
<1> SUFFICES ASSUME Shape, Nfa PROVE Shape'
  OBVIOUS
<1>1. UNCHANGED <<mwif, mwq, dtaq, pc, own, mwUp>>
  BY DEF Nfa, Activate, ReaderFrame, RemoteLeaves, NfaConfig, NfaStart, NfaStop, NfaSend,
         NfaDisable
<1>2. QueueShape' /\ ThreadShape'
  BY <1>1 DEF Shape, QueueShape, ThreadShape
<1>3. CallbackShape'
  <2>1. CASE out' = out /\ stage' = stage
    BY <1>1, <2>1 DEF Shape, CallbackShape, mwif
  <2>2. ASSUME NEW a \in LoopEvents, out' = <<a>>, stage' = "new" PROVE CallbackShape'
    <3>1. out' \in Seq(LoopEvents) /\ out' # <<>>
      BY <2>2
    <3> QED
      BY <1>1, <2>2, <3>1 DEF Shape, CallbackShape, mwif
  <2>3. ASSUME NEW a \in LoopEvents, NEW b \in LoopEvents, out' = <<a, b>>, stage' = "new"
        PROVE  CallbackShape'
    <3>1. out' \in Seq(LoopEvents) /\ out' # <<>>
      BY <2>3
    <3> QED
      BY <1>1, <2>3, <3>1 DEF Shape, CallbackShape, mwif
  <2> QED
    BY <2>1, <2>2, <2>3, StackReports
<1>4. StackShape'
  <2> USE Bounds DEF Shape, StackShape
  <2>1. reqs # <<>> => Tail(reqs) \in Seq(Requests)
    BY HeadTailProperties
  <2>2. CASE Activate
    <3>1. PICK p \in Protocols : rf' = p
      BY <2>2 DEF Activate
    <3>2. session' = session + 1 /\ session < MaxSessions /\ frames' = 0 /\ owed' = FALSE
          /\ UNCHANGED reqs
      BY <2>2 DEF Activate
    <3>3. session' \in 0..MaxSessions /\ frames' \in 0..MaxFrames
      BY <3>2
    <3> QED
      BY <3>1, <3>2, <3>3
  <2>3. CASE ReaderFrame
    BY <2>3 DEF ReaderFrame
  <2>4. CASE RemoteLeaves
    BY <2>4 DEF RemoteLeaves
  <2>5. CASE NfaConfig \/ NfaStart \/ NfaStop
    BY <2>1, <2>5 DEF NfaConfig, NfaStart, NfaStop, Requested
  <2>6. CASE NfaSend \/ NfaDisable
    BY <2>1, <2>6 DEF NfaSend, NfaDisable, Requested
  <2> QED
    BY <2>2, <2>3, <2>4, <2>5, <2>6 DEF Nfa
<1> QED
  BY <1>2, <1>3, <1>4 DEF Shape

LEMMA CallbackStepShape == Shape /\ Callback => Shape'
<1> SUFFICES ASSUME Shape, Callback PROVE Shape'
  OBVIOUS
<1>1. UNCHANGED <<rf, session, frames, owed, reqs, pc, own, mwUp>>
  BY DEF Callback, NotifyState, PushMw, EvtCb
<1>2. StackShape' /\ ThreadShape'
  BY <1>1 DEF Shape, StackShape, ThreadShape
<1>3. out # <<>>
  BY DEF Callback, NotifyState, PushMw, EvtCb, Shape, CallbackShape
<1>4. Head(out) \in LoopEvents /\ Tail(out) \in Seq(LoopEvents)
  BY <1>3, HeadTailProperties DEF Shape, CallbackShape
<1>5. Reported => /\ out' \in Seq(LoopEvents)
                  /\ stage' \in {"new", "idle"} /\ (stage' = "idle" <=> out' = <<>>)
  BY <1>4 DEF Reported
<1>6. CASE NotifyState
  <2>1. devState' \in {"IDLE", "DISC", "ACTIVE"}
    BY <1>6 DEF NotifyState, DeviceState, Shape, CallbackShape
  <2>2. dataLast' \in BOOLEAN /\ stage' \in {"mwq", "dtaq"} /\ UNCHANGED <<out, mwq, dtaq>>
    BY <1>6 DEF NotifyState
  <2> QED
    BY <1>2, <1>3, <2>1, <2>2 DEF Shape, CallbackShape, QueueShape
<1>7. CASE PushMw
  <2>1. mwq' \in Seq(LoopEvents) /\ Len(mwq') <= MwLength
    BY <1>4, <1>7, Bounds, AppendProperties DEF PushMw, Shape, QueueShape
  <2>2. UNCHANGED <<devState, dataLast, dtaq>>
    BY <1>7 DEF PushMw, mwif
  <2>3. (stage' = "dtaq" /\ out' = out) \/ Reported
    BY <1>7 DEF PushMw
  <2> QED
    BY <1>2, <1>3, <1>5, <2>1, <2>2, <2>3 DEF Shape, CallbackShape, QueueShape
<1>8. CASE EvtCb
  <2>1. dtaq' \in Seq(LoopEvents) /\ Len(dtaq') <= DtaLength
    BY <1>4, <1>8, Bounds, AppendProperties DEF EvtCb, Shape, QueueShape
  <2>2. UNCHANGED <<devState, dataLast, mwq>> /\ Reported
    BY <1>8 DEF EvtCb, mwif
  <2> QED
    BY <1>2, <1>5, <2>1, <2>2 DEF Shape, CallbackShape, QueueShape
<1> QED
  BY <1>6, <1>7, <1>8 DEF Callback

(* What a step of a thread leaves to be shown of the types.                *)
LEMMA ThreadKeepsShape ==
  ASSUME Shape, UNCHANGED nfaVars,
         reqs' = reqs \/ \E r \in Requests : reqs' = Append(reqs, r),
         devState' \in {devState, "DISC"}, UNCHANGED dataLast,
         mwq' = mwq \/ mwq' = <<>> \/ (mwq # <<>> /\ mwq' = Tail(mwq)),
         \/ dtaq' = dtaq \/ (dtaq # <<>> /\ dtaq' = Tail(dtaq))
         \/ Len(dtaq) < DtaLength /\ dtaq' = Append(dtaq, Event("THREAD_DELETE", "-")),
         ThreadShape'
  PROVE  Shape'
<1>1. reqs' \in Seq(Requests)
  BY AppendProperties DEF Shape, StackShape
<1>2. StackShape'
  BY <1>1 DEF Shape, StackShape, nfaVars
<1>3. CallbackShape'
  BY DEF Shape, CallbackShape, nfaVars
<1>4. mwq' \in Seq(LoopEvents) /\ Len(mwq') <= MwLength
  <2> USE Bounds DEF Shape, QueueShape
  <2>1. CASE mwq' = mwq
    BY <2>1
  <2>2. CASE mwq' = <<>>
    <3>1. Len(mwq') = 0
      BY <2>2
    <3> QED
      BY <2>2, <3>1
  <2>3. CASE mwq # <<>> /\ mwq' = Tail(mwq)
    BY <2>3, HeadTailProperties
  <2> QED
    BY <2>1, <2>2, <2>3
<1>5. dtaq' \in Seq(LoopEvents) /\ Len(dtaq') <= DtaLength
  <2>1. Event("THREAD_DELETE", "-") \in LoopEvents
    BY EventType DEF Kinds, Details
  <2> USE Bounds DEF Shape, QueueShape
  <2>2. CASE dtaq' = dtaq
    BY <2>2
  <2>3. CASE dtaq # <<>> /\ dtaq' = Tail(dtaq)
    BY <2>3, HeadTailProperties
  <2>4. CASE Len(dtaq) < DtaLength /\ dtaq' = Append(dtaq, Event("THREAD_DELETE", "-"))
    BY <2>1, <2>4, AppendProperties
  <2> QED
    BY <2>2, <2>3, <2>4
<1> QED
  BY <1>2, <1>3, <1>4, <1>5 DEF Shape, QueueShape

LEMMA GotoShape ==
  ASSUME Shape, NEW t \in Threads, NEW to, Goto(t, to),
         to \in IF t = "dta" THEN DtaPcs ELSE AppPcs
  PROVE  /\ pc' \in [Threads -> DtaPcs \cup AppPcs]
         /\ pc'["dta"] \in DtaPcs /\ pc'["app"] \in AppPcs
         /\ \A u \in Threads : pc'[u] = IF u = t THEN to ELSE pc[u]
BY DEF Shape, ThreadShape, Goto, Threads

LEMMA AfterWaitShape ==
  ASSUME Shape, NEW t \in Threads, NEW ok \in BOOLEAN, Waiting(t)
  PROVE  AfterWait(t, ok) \in IF t = "dta"
           THEN {"reply", "enabling", "resetting", "starting", "started", "pull"}
           ELSE {"disabling", "destroying", "pushing"}
<1>1. pc[t] \in {"recv", "drain", "xcv", "stop", "unconfig", "config", "start", "limit",
                "disable"}
  BY DEF Waiting, Waits
<1>2. CASE t = "dta"
  <2>1. pc[t] \in {"recv", "drain", "xcv", "stop", "unconfig", "config", "start"}
    BY <1>1, <1>2 DEF Shape, ThreadShape, DtaPcs
  <2> QED
    BY <1>2, <2>1 DEF AfterWait
<1>3. CASE t = "app"
  <2>1. pc[t] \in {"limit", "disable"}
    BY <1>1, <1>3 DEF Shape, ThreadShape, AppPcs
  <2> QED
    BY <1>3, <2>1 DEF AfterWait
<1> QED
  BY <1>2, <1>3 DEF Threads

(* A wait changes where its thread is and takes events of its queue.       *)
LEMMA WaitStep ==
  ASSUME Shape, NEW t \in Threads, Wait(t)
  PROVE  /\ UNCHANGED <<nfaVars, reqs, mwif, dtaq, own, mwUp>>
         /\ mwq' = mwq \/ (mwq # <<>> /\ mwq' = Tail(mwq))
         /\ Waiting(t)
         /\ UNCHANGED pc \/ \E ok \in BOOLEAN : Goto(t, AfterWait(t, ok))
BY DEF Wait, WaitGot, WaitDrop, WaitAbort, WaitTimeout, WaitPull

LEMMA WaitShape == Shape /\ (\E t \in Threads : Wait(t)) => Shape'
<1> SUFFICES ASSUME Shape, NEW t \in Threads, Wait(t) PROVE Shape'
  OBVIOUS
<1>1. ThreadShape'
  <2>1. CASE UNCHANGED pc
    BY <2>1, WaitStep DEF Shape, ThreadShape
  <2>2. ASSUME NEW ok \in BOOLEAN, Goto(t, AfterWait(t, ok)) PROVE ThreadShape'
    <3>1. AfterWait(t, ok) \in IF t = "dta" THEN DtaPcs ELSE AppPcs
      BY AfterWaitShape, WaitStep DEF DtaPcs, AppPcs
    <3> HIDE DEF AfterWait
    <3> QED
      BY <2>2, <3>1, GotoShape, WaitStep DEF Shape, ThreadShape
  <2> QED
    BY <2>1, <2>2, WaitStep
<1> QED
  BY <1>1, ThreadKeepsShape, WaitStep DEF mwif

(* Every other step of a thread: from one place to another, with at most   *)
(* one request, one event pulled, or one pushed.                           *)
LEMMA ThreadSteps ==
  ASSUME Shape,
         CbMsgHandleThrd \/ CardEmulation \/ Discovery \/ App
  PROVE  /\ UNCHANGED nfaVars /\ UNCHANGED dataLast /\ devState' \in {devState, "DISC"}
         /\ reqs' = reqs \/ \E r \in Requests : reqs' = Append(reqs, r)
         /\ mwq' = mwq \/ mwq' = <<>>
         /\ \/ dtaq' = dtaq \/ (dtaq # <<>> /\ dtaq' = Tail(dtaq))
            \/ Len(dtaq) < DtaLength /\ dtaq' = Append(dtaq, Event("THREAD_DELETE", "-"))
<1> USE DEF Requests, Request, LoopFrame, Pull, mwif
<1>1. CASE CbMsgHandleThrd
  BY <1>1 DEF CbMsgHandleThrd, HandleThreadDelete, HandleOther, HandleDeactivated,
              HandleCeDeactivated, HandleCeActivated
<1>2. CASE CardEmulation
  BY <1>2 DEF CardEmulation, HceDisconnected, HceReply, HceReceive, HceFSuccess, HceFIdle,
              HceFReply, HceFDisconnected, HceFSkip, UiccDeactivated, UiccSkip
<1>3. CASE Discovery
  BY <1>3 DEF Discovery, StopIdle, StopDiscovery, ResetDiscoveryConfig, SetDiscoveryConfig,
              DiscoveryStart, EnableDiscovery
<1>4. CASE App
  BY <1>4 DEF App, DeInit, StackDeInit, MwIfDestroy, PushThreadDelete, ThreadDelete
<1> QED
  BY <1>1, <1>2, <1>3, <1>4

(* Where the DTA thread may go.                                            *)
LEMMA DtaGoes ==
  ASSUME Shape, CbMsgHandleThrd \/ CardEmulation \/ Discovery
  PROVE  /\ UNCHANGED mwUp /\ own' \in {own, Event1.session}
         /\ own' # own => dtaq # <<>>
         /\ UNCHANGED pc \/ \E to \in DtaPcs : Goto("dta", to)
<1> USE DEF Request, LoopFrame, Pull, DtaPcs
<1>1. CASE HandleCeActivated
  <2>1. dtaq # <<>> /\ own' = Event1.session /\ UNCHANGED mwUp
    BY <1>1 DEF HandleCeActivated
  <2>2. Event1 \in LoopEvents
    BY <2>1, HeadTailProperties DEF Shape, QueueShape, Event1
  <2>3. Event1.detail \in {"T3T", "UNKNOWN", "ISO_DEP"}
    BY <1>1, <2>2, EventIs DEF HandleCeActivated, Emulated, AllProtocols
  <2>4. \E to \in DtaPcs : Goto("dta", to)
    BY <1>1, <2>3 DEF HandleCeActivated
  <2> QED
    BY <2>1, <2>4
<1>2. CASE HandleThreadDelete \/ HandleOther \/ HandleDeactivated \/ HandleCeDeactivated
  BY <1>2 DEF HandleThreadDelete, HandleOther, HandleDeactivated, HandleCeDeactivated
<1>3. CASE CardEmulation
  BY <1>3 DEF CardEmulation, HceDisconnected, HceReply, HceReceive, HceFSuccess, HceFIdle,
              HceFReply, HceFDisconnected, HceFSkip, UiccDeactivated, UiccSkip
<1>4. CASE Discovery
  BY <1>4 DEF Discovery, StopIdle, StopDiscovery, ResetDiscoveryConfig, SetDiscoveryConfig,
              DiscoveryStart, EnableDiscovery
<1> QED
  BY <1>1, <1>2, <1>3, <1>4 DEF CbMsgHandleThrd

LEMMA AppGoes ==
  ASSUME Shape, App
  PROVE  /\ mwUp' \in BOOLEAN /\ UNCHANGED own
         /\ \E to \in AppPcs : Goto("app", to)
BY DEF App, DeInit, StackDeInit, MwIfDestroy, PushThreadDelete, ThreadDelete, Request, AppPcs,
       Shape, ThreadShape

LEMMA ThreadStepShape ==
  ASSUME Shape, CbMsgHandleThrd \/ CardEmulation \/ Discovery \/ App
  PROVE  Shape'
<1>1. ThreadShape'
  <2>1. CASE CbMsgHandleThrd \/ CardEmulation \/ Discovery
    <3>1. dtaq # <<>> => Event1.session \in 0..MaxSessions
      BY HeadTailProperties, EventIs DEF Shape, QueueShape, Event1
    <3>2. mwUp' \in BOOLEAN /\ own' \in 0..MaxSessions
      BY <2>1, <3>1, DtaGoes DEF Shape, ThreadShape
    <3>3. CASE UNCHANGED pc
      BY <3>2, <3>3 DEF Shape, ThreadShape
    <3>4. ASSUME NEW to \in DtaPcs, Goto("dta", to) PROVE ThreadShape'
      BY <3>2, <3>4, GotoShape DEF Threads, ThreadShape
    <3> QED
      BY <2>1, <3>3, <3>4, DtaGoes
  <2>2. CASE App
    <3>1. PICK to \in AppPcs : Goto("app", to)
      BY <2>2, AppGoes
    <3> QED
      BY <2>2, <3>1, AppGoes, GotoShape DEF Threads, Shape, ThreadShape
  <2> QED
    BY <2>1, <2>2
<1> QED
  BY <1>1, ThreadSteps, ThreadKeepsShape

LEMMA ShapeStep == Shape /\ [Next]_vars => Shape'
<1> SUFFICES ASSUME Shape, [Next]_vars PROVE Shape'
  OBVIOUS
<1>1. CASE UNCHANGED vars
  BY <1>1 DEF Shape, StackShape, CallbackShape, QueueShape, ThreadShape, vars, nfaVars, mwif
<1>2. CASE Nfa
  BY <1>2, StackStepShape
<1>3. CASE Callback
  BY <1>3, CallbackStepShape
<1>4. CASE CbMsgHandleThrd \/ CardEmulation \/ Discovery \/ App
  BY <1>4, ThreadStepShape
<1>5. CASE Wait("dta") \/ Wait("app")
  BY <1>5, WaitShape DEF Threads
<1> QED
  BY <1>1, <1>2, <1>3, <1>4, <1>5 DEF Next, DtaThread, AppThread

LEMMA ShapeAlways == Spec => []Shape
BY ShapeInit, ShapeStep, PTL DEF Spec

(* The variables of the event loop have their types: neither queue ever    *)
(* exceeds the capacity it was created with, and each thread is where its  *)
(* code lets it be (phDTALib.c:118 and 861, phMwIfAndroid.cpp:178).            *)
THEOREM LoopTypes == Spec => []TypeOK
BY ShapeAlways, ShapeIsType, PTL

-----------------------------------------------------------------------------
(***************************************************************************)
(* The discovery is restarted: whoever stopped it is on the way to start   *)
(* it again, or the request to do so is behind the one to stop it.         *)
(***************************************************************************)
Restarting == {"stop", "resetting", "unconfig", "enabling", "config", "starting"}

Restarts(s) == \E j \in 1..Len(s) : s[j] = "START"

StopsRestarted(s) ==
  \A i \in 1..Len(s) : s[i] = "STOP" => \E j \in (i + 1)..Len(s) : s[j] = "START"

Restart ==
  \/ pc["dta"] \in Restarting
  \/ StopsRestarted(reqs) /\ (rf = "off" => Restarts(reqs))

LEMMA RestartIsQuiet == Restart => QuietMeansDiscovering
<1> SUFFICES ASSUME Restart, Quiet, rf = "off" PROVE FALSE
  BY DEF QuietMeansDiscovering
<1>1. pc["dta"] = "pull" /\ reqs = <<>>
  BY DEF Quiet
<1>2. Restarts(reqs)
  BY <1>1 DEF Restart, Restarting
<1> QED
  BY <1>1, <1>2 DEF Restarts

LEMMA RestartInit == Init => Restart
BY DEF Init, Restart, StopsRestarted

LEMMA RestartsAppend ==
  ASSUME NEW s \in Seq(Requests), NEW r \in Requests
  PROVE  /\ Restarts(s) => Restarts(Append(s, r))
         /\ r = "START" => Restarts(Append(s, r)) /\ StopsRestarted(Append(s, r))
         /\ r # "STOP" /\ StopsRestarted(s) => StopsRestarted(Append(s, r))
<1> DEFINE a == Append(s, r)
<1>1. /\ Len(a) = Len(s) + 1 /\ Len(s) \in Nat /\ a[Len(s) + 1] = r
      /\ \A i \in 1..Len(s) : a[i] = s[i]
  BY AppendProperties
<1> HIDE DEF a
<1>2. Restarts(s) => Restarts(a)
  BY <1>1 DEF Restarts
<1>3. r = "START" => Restarts(a)
  BY <1>1 DEF Restarts
<1>4. r = "START" => StopsRestarted(a)
  <2> SUFFICES ASSUME r = "START", NEW i \in 1..Len(a), a[i] = "STOP"
               PROVE  Len(a) \in (i + 1)..Len(a) /\ a[Len(a)] = "START"
    BY DEF StopsRestarted
  <2> QED
    BY <1>1
<1>5. r # "STOP" /\ StopsRestarted(s) => StopsRestarted(a)
  <2> SUFFICES ASSUME r # "STOP", StopsRestarted(s), NEW i \in 1..Len(a), a[i] = "STOP"
               PROVE  \E j \in (i + 1)..Len(a) : a[j] = "START"
    BY DEF StopsRestarted
  <2>1. i \in 1..Len(s) /\ s[i] = "STOP"
    BY <1>1
  <2>2. PICK j \in (i + 1)..Len(s) : s[j] = "START"
    BY <2>1 DEF StopsRestarted
  <2> QED
    BY <1>1, <2>1, <2>2
<1> QED
  BY <1>2, <1>3, <1>4, <1>5 DEF a

LEMMA RestartsTail ==
  ASSUME NEW s \in Seq(Requests), s # <<>>, StopsRestarted(s)
  PROVE  /\ StopsRestarted(Tail(s))
         /\ Head(s) = "STOP" => Restarts(Tail(s))
         /\ Head(s) # "START" /\ Restarts(s) => Restarts(Tail(s))
<1> DEFINE r == Tail(s)
<1>1. /\ Len(s) \in Nat \ {0} /\ Len(r) = Len(s) - 1 /\ Head(s) = s[1]
      /\ \A i \in 1..Len(r) : r[i] = s[i + 1]
  BY HeadTailProperties
<1> HIDE DEF r
<1>2. \A j \in 2..Len(s) : s[j] = "START" => j - 1 \in 1..Len(r) /\ r[j - 1] = "START"
  BY <1>1
<1>3. StopsRestarted(r)
  <2> SUFFICES ASSUME NEW i \in 1..Len(r), r[i] = "STOP"
               PROVE  \E j \in (i + 1)..Len(r) : r[j] = "START"
    BY DEF StopsRestarted
  <2>1. i + 1 \in 1..Len(s) /\ s[i + 1] = "STOP"
    BY <1>1
  <2>2. PICK j \in (i + 2)..Len(s) : s[j] = "START"
    BY <2>1, <1>1 DEF StopsRestarted
  <2>3. j - 1 \in (i + 1)..Len(r) /\ r[j - 1] = "START"
    BY <1>1, <1>2, <2>2
  <2> QED
    BY <2>3
<1>4. Head(s) = "STOP" => Restarts(r)
  <2> SUFFICES ASSUME s[1] = "STOP" PROVE Restarts(r)
    BY <1>1
  <2>1. PICK j \in 2..Len(s) : s[j] = "START"
    BY <1>1 DEF StopsRestarted
  <2> QED
    BY <1>2, <2>1 DEF Restarts
<1>5. Head(s) # "START" /\ Restarts(s) => Restarts(r)
  <2> SUFFICES ASSUME s[1] # "START", NEW j \in 1..Len(s), s[j] = "START" PROVE Restarts(r)
    BY <1>1 DEF Restarts
  <2>1. j \in 2..Len(s)
    BY <1>1
  <2> QED
    BY <1>2, <2>1 DEF Restarts
<1> QED
  BY <1>3, <1>4, <1>5 DEF r

LEMMA StackRestart == Shape /\ Restart /\ Nfa => Restart'
<1> SUFFICES ASSUME Shape, Restart, Nfa PROVE Restart'
  OBVIOUS
<1>1. UNCHANGED pc
  BY DEF Nfa, Activate, ReaderFrame, RemoteLeaves, NfaConfig, NfaStart, NfaStop, NfaSend,
         NfaDisable
<1>2. CASE pc["dta"] \in Restarting
  BY <1>1, <1>2 DEF Restart
<1>3. CASE pc["dta"] \notin Restarting
  <2>1. StopsRestarted(reqs) /\ (rf = "off" => Restarts(reqs))
    BY <1>3 DEF Restart
  <2>2. reqs \in Seq(Requests)
    BY DEF Shape, StackShape
  <2>3. reqs # <<>> => /\ StopsRestarted(Tail(reqs))
                       /\ Head(reqs) = "STOP" => Restarts(Tail(reqs))
                       /\ Head(reqs) # "START" /\ Restarts(reqs) => Restarts(Tail(reqs))
    BY <2>1, <2>2, RestartsTail
  <2>4. CASE Activate
    <3>1. PICK p \in Protocols : rf' = p
      BY <2>4 DEF Activate
    <3>2. rf' # "off" /\ UNCHANGED reqs
      BY <2>4, <3>1, Bounds DEF Activate, AllProtocols
    <3> QED
      BY <2>1, <3>2 DEF Restart
  <2>5. CASE ReaderFrame \/ RemoteLeaves
    BY <2>1, <2>5 DEF ReaderFrame, RemoteLeaves, Restart
  <2>6. CASE NfaConfig \/ NfaSend
    BY <2>1, <2>3, <2>6 DEF NfaConfig, NfaSend, Requested, Restart
  <2>7. CASE NfaStart
    BY <2>1, <2>3, <2>7 DEF NfaStart, Requested, Restart
  <2>8. CASE NfaStop
    BY <2>1, <2>3, <2>8 DEF NfaStop, Requested, Restart
  <2>9. CASE NfaDisable
    <3>1. rf' = "gone" /\ reqs # <<>> /\ reqs' = Tail(reqs)
      BY <2>9 DEF NfaDisable, Requested
    <3> QED
      BY <2>3, <3>1 DEF Restart
  <2> QED
    BY <2>4, <2>5, <2>6, <2>7, <2>8, <2>9 DEF Nfa
<1> QED
  BY <1>2, <1>3

(* A step that leaves the controller alone and neither asks for a stop nor *)
(* takes the DTA thread off its way.                                       *)
LEMMA RestartKept ==
  ASSUME Shape, Restart, UNCHANGED rf,
         reqs' = reqs \/ \E r \in Requests \ {"STOP"} : reqs' = Append(reqs, r),
         pc["dta"] \in Restarting => pc'["dta"] \in Restarting
  PROVE  Restart'
<1>1. reqs \in Seq(Requests)
  BY DEF Shape, StackShape
<1>2. StopsRestarted(reqs) => StopsRestarted(reqs')
  BY <1>1, RestartsAppend
<1>3. Restarts(reqs) => Restarts(reqs')
  BY <1>1, RestartsAppend
<1> QED
  BY <1>2, <1>3 DEF Restart

LEMMA GotoDta ==
  ASSUME Shape, NEW to
  PROVE  /\ Goto("dta", to) => pc'["dta"] = to
         /\ Goto("app", to) => pc'["dta"] = pc["dta"]
BY DEF Goto, Shape, ThreadShape, Threads

LEMMA WaitRestart == Shape /\ Restart /\ (Wait("dta") \/ Wait("app")) => Restart'
<1> SUFFICES ASSUME Shape, Restart, NEW t \in Threads, Wait(t) PROVE Restart'
  BY DEF Threads
<1>1. UNCHANGED <<rf, reqs>>
  BY WaitStep DEF nfaVars
<1>2. pc["dta"] \in Restarting => pc'["dta"] \in Restarting
  <2>1. CASE UNCHANGED pc
    BY <2>1
  <2>2. ASSUME NEW ok \in BOOLEAN, Goto(t, AfterWait(t, ok)), pc["dta"] \in Restarting
        PROVE  pc'["dta"] \in Restarting
    <3>1. CASE t = "app"
      <4> HIDE DEF AfterWait
      <4> QED
        BY <2>2, <3>1, GotoDta
    <3>2. CASE t = "dta"
      <4>1. pc["dta"] \in {"stop", "unconfig", "config"}
        BY <2>2, <3>2, WaitStep DEF Waiting, Waits, Restarting
      <4>2. AfterWait("dta", ok) \in Restarting
        BY <4>1 DEF AfterWait, Restarting
      <4> HIDE DEF AfterWait
      <4> QED
        BY <2>2, <3>2, <4>2, GotoDta
    <3> QED
      BY <3>1, <3>2 DEF Threads
  <2> QED
    BY <2>1, <2>2, WaitStep
<1> QED
  BY <1>1, <1>2, RestartKept

LEMMA DiscoveryRestart == Shape /\ Restart /\ Discovery => Restart'
<1> SUFFICES ASSUME Shape, Restart, Discovery PROVE Restart'
  OBVIOUS
<1> USE GotoDta DEF Request, Requests, Restarting
<1>1. UNCHANGED rf
  BY DEF Discovery, StopIdle, StopDiscovery, ResetDiscoveryConfig, SetDiscoveryConfig,
         DiscoveryStart, EnableDiscovery, nfaVars
<1>2. CASE StopIdle
  BY <1>2 DEF StopIdle, Restart
<1>3. CASE StopDiscovery
  BY <1>3 DEF StopDiscovery, Restart
<1>4. CASE ResetDiscoveryConfig
  BY <1>4 DEF ResetDiscoveryConfig, Restart
<1>5. CASE SetDiscoveryConfig
  BY <1>5 DEF SetDiscoveryConfig, Restart
<1>6. CASE DiscoveryStart
  <2>1. reqs' = Append(reqs, "START") /\ reqs \in Seq(Requests)
    BY <1>6 DEF DiscoveryStart, Shape, StackShape
  <2>2. Restarts(reqs') /\ StopsRestarted(reqs')
    BY <2>1, RestartsAppend
  <2> QED
    BY <2>2 DEF Restart
<1>7. CASE EnableDiscovery
  <2>1. UNCHANGED reqs /\ pc["dta"] \notin Restarting
    BY <1>7 DEF EnableDiscovery
  <2> QED
    BY <1>1, <2>1 DEF Restart
<1> QED
  BY <1>2, <1>3, <1>4, <1>5, <1>6, <1>7 DEF Discovery

LEMMA RestartStep == Shape /\ Restart /\ [Next]_vars => Restart'
<1> SUFFICES ASSUME Shape, Restart, [Next]_vars PROVE Restart'
  OBVIOUS
<1>1. CASE UNCHANGED vars
  BY <1>1 DEF vars, nfaVars, Restart
<1>2. CASE Nfa
  BY <1>2, StackRestart
<1>3. CASE Callback
  BY <1>3 DEF Callback, NotifyState, PushMw, EvtCb, Restart
<1>4. CASE CbMsgHandleThrd
  BY <1>4, RestartKept DEF CbMsgHandleThrd, HandleThreadDelete, HandleOther, HandleDeactivated,
     HandleCeDeactivated, HandleCeActivated, Pull, LoopFrame, nfaVars, Restarting
<1>5. CASE CardEmulation
  <2>1. UNCHANGED rf
    BY <1>5 DEF CardEmulation, HceDisconnected, HceReply, HceReceive, HceFSuccess, HceFIdle,
       HceFReply, HceFDisconnected, HceFSkip, UiccDeactivated, UiccSkip, Request, LoopFrame, nfaVars
  <2>2. reqs' = reqs \/ reqs' = Append(reqs, "SEND")
    BY <1>5 DEF CardEmulation, HceDisconnected, HceReply, HceReceive, HceFSuccess, HceFIdle,
       HceFReply, HceFDisconnected, HceFSkip, UiccDeactivated, UiccSkip, Request, LoopFrame
  <2>3. pc["dta"] \notin Restarting
    BY <1>5 DEF CardEmulation, HceDisconnected, HceReply, HceReceive, HceFSuccess, HceFIdle,
       HceFReply, HceFDisconnected, HceFSkip, UiccDeactivated, UiccSkip, Request, Pull, Restarting
  <2> QED
    BY <2>1, <2>2, <2>3, RestartKept DEF Requests
<1>6. CASE Discovery
  BY <1>6, DiscoveryRestart
<1>7. CASE App
  <2>1. UNCHANGED rf /\ pc'["dta"] = pc["dta"]
    BY <1>7, AppGoes, GotoDta DEF App, DeInit, StackDeInit, MwIfDestroy, PushThreadDelete,
       ThreadDelete, Request, nfaVars
  <2>2. reqs' = reqs \/ \E r \in Requests \ {"STOP"} : reqs' = Append(reqs, r)
    BY <1>7 DEF App, DeInit, StackDeInit, MwIfDestroy, PushThreadDelete, ThreadDelete, Request,
       Requests
  <2> QED
    BY <2>1, <2>2, RestartKept
<1>8. CASE Wait("dta") \/ Wait("app")
  BY <1>8, WaitRestart
<1> QED
  BY <1>1, <1>2, <1>3, <1>4, <1>5, <1>6, <1>7, <1>8 DEF Next, DtaThread, AppThread

(* Whatever happened - activations, departures, requests given up - when   *)
(* every event is handled the discovery runs: each stop of it is followed  *)
(* by a start (bDiscStopReqd and bDiscStartReqd, phDTALib.c:1201-1225).     *)
THEOREM QuietMeansDiscoveringCorrect == Spec => []QuietMeansDiscovering
<1>1. Spec => []Restart
  BY ShapeAlways, RestartInit, RestartStep, PTL DEF Spec
<1> QED
  BY <1>1, RestartIsQuiet, PTL

-----------------------------------------------------------------------------
(***************************************************************************)
(* Sessions stay apart.  An activation of protocol p and session s that    *)
(* stands at place i of the DTA queue - 0 for the one whose card emulation *)
(* the thread runs - is Open: behind it the end of the card emulation      *)
(* comes before anything of another session, and either the session lasts, *)
(* or the stack still has its end to report, or the end is in the queue.   *)
(***************************************************************************)
Nested == {"T3T", "UNKNOWN"}
Loop(p) == IF p = "T3T" THEN "hcef" ELSE "uicc"

End(e, p) ==
  IF p = "T3T"
    THEN e.kind = "CE_DEACTIVATED" \/ (e.kind = "DEACTIVATED" /\ e.detail = "IDLE")
    ELSE e.kind = "DEACTIVATED"

Ended(q, i, p) == \E k \in (i + 1)..Len(q) : End(q[k], p)

Separated(q, i, p, s) ==
  \A j \in (i + 1)..Len(q) :
    q[j].kind # "THREAD_DELETE" /\ q[j].session # s
      => \E k \in (i + 1)..(j - 1) : End(q[k], p)

Lasts(p, s) ==
  s = session /\ (rf \in {p, "gone"} \/ \E k \in 1..Len(out) : End(out[k], p))

Open(q, i, p, s) == Separated(q, i, p, s) /\ (Lasts(p, s) \/ Ended(q, i, p))

(* What the stack reports belongs to the current session.                  *)
Reports ==
  \A k \in 1..Len(out) :
    out[k].session = session /\ (out[k].kind = "CE_ACTIVATED" => out[k].detail = rf)

Queued ==
  \A i \in 1..Len(dtaq) :
    dtaq[i].kind = "CE_ACTIVATED" /\ dtaq[i].detail \in Nested
      => Open(dtaq, i, dtaq[i].detail, dtaq[i].session)

Running == \A p \in Nested : pc["dta"] = Loop(p) => Open(dtaq, 0, p, own)

Separate == Reports /\ Queued /\ Running

LEMMA SeparateIsSeparation == Shape /\ Separate => SessionSeparation
<1> SUFFICES ASSUME Shape, Separate, pc["dta"] \in {"hcef", "uicc"}, dtaq # <<>>,
                    Head(dtaq).kind # "THREAD_DELETE"
             PROVE  Head(dtaq).session = own
  BY DEF SessionSeparation
<1>1. PICK p \in Nested : pc["dta"] = Loop(p)
  BY DEF Nested, Loop
<1>2. Separated(dtaq, 0, p, own)
  BY <1>1 DEF Separate, Running, Open
<1>3. Len(dtaq) \in Nat \ {0} /\ Head(dtaq) = dtaq[1]
  BY HeadTailProperties DEF Shape, QueueShape
<1> QED
  BY <1>2, <1>3 DEF Separated

LEMMA SeparateInit == Init => Separate
<1>1. Len(<<>>) = 0
  OBVIOUS
<1> QED
  BY <1>1 DEF Init, Separate, Reports, Queued, Running, Loop

(* Events that come to the end of the queue, and leave its head.           *)
LEMMA OpenAppend ==
  ASSUME NEW q \in Seq(LoopEvents), NEW e \in LoopEvents, NEW p, NEW s,
         NEW i \in 0..Len(q)
  PROVE  /\ Ended(q, i, p) \/ End(e, p) => Ended(Append(q, e), i, p)
         /\ Separated(q, i, p, s)
              /\ (e.kind = "THREAD_DELETE" \/ e.session = s \/ Ended(q, i, p))
              => Separated(Append(q, e), i, p, s)
<1> DEFINE a == Append(q, e)
<1>1. /\ Len(a) = Len(q) + 1 /\ Len(q) \in Nat /\ a[Len(q) + 1] = e
      /\ \A j \in 1..Len(q) : a[j] = q[j]
  BY AppendProperties
<1> HIDE DEF a
<1>2. Ended(q, i, p) => Ended(a, i, p)
  BY <1>1 DEF Ended
<1>3. End(e, p) => Ended(a, i, p)
  BY <1>1 DEF Ended
<1>4. ASSUME Separated(q, i, p, s),
             e.kind = "THREAD_DELETE" \/ e.session = s \/ Ended(q, i, p)
      PROVE  Separated(a, i, p, s)
  <2> SUFFICES ASSUME NEW j \in (i + 1)..Len(a), a[j].kind # "THREAD_DELETE", a[j].session # s
               PROVE  \E k \in (i + 1)..(j - 1) : End(a[k], p)
    BY DEF Separated
  <2>1. CASE j \in (i + 1)..Len(q)
    <3>1. a[j] = q[j]
      BY <1>1, <2>1
    <3>2. PICK k \in (i + 1)..(j - 1) : End(q[k], p)
      BY <1>4, <2>1, <3>1 DEF Separated
    <3>3. a[k] = q[k]
      BY <1>1, <2>1, <3>2
    <3> QED
      BY <3>2, <3>3
  <2>2. CASE j = Len(q) + 1
    <3>1. Ended(q, i, p)
      BY <1>1, <1>4, <2>2
    <3>2. PICK k \in (i + 1)..Len(q) : End(q[k], p)
      BY <3>1 DEF Ended
    <3>3. a[k] = q[k] /\ k \in (i + 1)..(j - 1)
      BY <1>1, <2>2, <3>2
    <3> QED
      BY <3>2, <3>3
  <2> QED
    BY <1>1, <2>1, <2>2
<1> QED
  BY <1>2, <1>3, <1>4 DEF a

LEMMA OpenTail ==
  ASSUME NEW q \in Seq(LoopEvents), q # <<>>, NEW p, NEW s, NEW i \in 0..Len(q),
         i = 0 => ~End(Head(q), p)
  PROVE  LET n == IF i = 0 THEN 0 ELSE i - 1
         IN  /\ Ended(q, i, p) => Ended(Tail(q), n, p)
             /\ Separated(q, i, p, s) => Separated(Tail(q), n, p, s)
<1> DEFINE r == Tail(q)
           n == IF i = 0 THEN 0 ELSE i - 1
<1>1. /\ Len(q) \in Nat \ {0} /\ Len(r) = Len(q) - 1 /\ Head(q) = q[1]
      /\ \A j \in 1..Len(r) : r[j] = q[j + 1]
  BY HeadTailProperties
<1> HIDE DEF r
<1>2. n \in Nat /\ n + 1 \in {i, i + 1}
  OBVIOUS
<1>3. ASSUME NEW k \in (i + 1)..Len(q), End(q[k], p)
      PROVE  k - 1 \in (n + 1)..Len(r) /\ r[k - 1] = q[k]
  <2>1. CASE i = 0
    <3>1. k # 1
      BY <1>1, <1>3, <2>1
    <3> QED
      BY <1>1, <2>1, <3>1
  <2>2. CASE i # 0
    BY <1>1, <2>2
  <2> QED
    BY <2>1, <2>2
<1>4. Ended(q, i, p) => Ended(r, n, p)
  <2> SUFFICES ASSUME NEW k \in (i + 1)..Len(q), End(q[k], p) PROVE Ended(r, n, p)
    BY DEF Ended
  <2>1. k - 1 \in (n + 1)..Len(r) /\ r[k - 1] = q[k]
    BY <1>3
  <2> HIDE DEF n
  <2> QED
    BY <2>1 DEF Ended
<1>5. Separated(q, i, p, s) => Separated(r, n, p, s)
  <2> SUFFICES ASSUME Separated(q, i, p, s), NEW j \in (n + 1)..Len(r),
                      r[j].kind # "THREAD_DELETE", r[j].session # s
               PROVE  \E k \in (n + 1)..(j - 1) : End(r[k], p)
    BY DEF Separated
  <2>1. j + 1 \in (i + 1)..Len(q) /\ r[j] = q[j + 1]
    BY <1>1, <1>2
  <2>2. PICK k \in (i + 1)..((j + 1) - 1) : End(q[k], p)
    BY <2>1 DEF Separated
  <2>3. k \in (i + 1)..Len(q) /\ k <= j
    BY <2>1, <2>2
  <2>4. k - 1 \in (n + 1)..Len(r) /\ r[k - 1] = q[k]
    BY <1>3, <2>2, <2>3
  <2>5. k - 1 \in (n + 1)..(j - 1)
    BY <1>1, <2>1, <2>3, <2>4
  <2> QED
    BY <2>2, <2>4, <2>5
<1> QED
  BY <1>4, <1>5 DEF r

LEMMA StackCurrent == Shape /\ Nfa => Reports'
<1> SUFFICES ASSUME Shape, Nfa PROVE Reports'
  OBVIOUS
<1> USE DEF Report
<1>1. \A k, d : k # "CE_ACTIVATED" => /\ Event(k, d).session = session
                                      /\ Event(k, d).kind # "CE_ACTIVATED"
  BY DEF Event
<1>2. \A d : Deactivation(d).session = session /\ Deactivation(d).kind # "CE_ACTIVATED"
  BY DEF Deactivation, Event
<1>3. Len(<<>>) = 0 /\ out = <<>>
  BY StackReports
<1>4. CASE Activate
  <2>1. PICK p \in Protocols : /\ rf' = p
          /\ out' = <<[kind |-> IF p = "NFC_DEP" THEN "ACTIVATED" ELSE "CE_ACTIVATED",
                       detail |-> p, session |-> session + 1]>>
    BY <1>4 DEF Activate
  <2>2. session' = session + 1
    BY <1>4 DEF Activate
  <2> QED
    BY <2>1, <2>2 DEF Reports
<1>5. CASE ReaderFrame \/ NfaConfig \/ NfaStart
  <2>1. UNCHANGED session /\ \E k \in {"CE_DATA", "CONFIGURED", "STARTED"} :
                                out' = <<Event(k, "-")>>
    BY <1>5 DEF ReaderFrame, NfaConfig, NfaStart
  <2> QED
    BY <1>1, <2>1 DEF Reports
<1>6. CASE RemoteLeaves
  BY <1>2, <1>6 DEF RemoteLeaves, Reports
<1>7. CASE NfaStop
  <2>1. Event("STOPPED", "-") \in LoopEvents /\ Deactivation("IDLE") \in LoopEvents
    BY EventType DEF Deactivation, Kinds, Details, Answers, Deactivations
  <2>2. /\ <<Deactivation("IDLE")>> \o <<Event("STOPPED", "-")>>
              = <<Deactivation("IDLE"), Event("STOPPED", "-")>>
        /\ <<>> \o <<Event("STOPPED", "-")>> = <<Event("STOPPED", "-")>>
    BY <2>1, Pair
  <2>3. UNCHANGED session
    BY <1>7 DEF NfaStop
  <2>4. CASE Active
    <3>1. out' = <<Deactivation("IDLE"), Event("STOPPED", "-")>>
      BY <1>7, <2>2, <2>4 DEF NfaStop
    <3> QED
      BY <1>1, <1>2, <2>3, <3>1 DEF Reports
  <2>5. CASE ~Active
    <3>1. out' = <<Event("STOPPED", "-")>>
      BY <1>7, <2>2, <2>5 DEF NfaStop
    <3> QED
      BY <1>1, <2>3, <3>1 DEF Reports
  <2> QED
    BY <2>4, <2>5
<1>8. CASE NfaSend
  BY <1>3, <1>8 DEF NfaSend, Reports
<1>9. CASE NfaDisable
  <2>1. UNCHANGED session
    BY <1>9 DEF NfaDisable
  <2>2. CASE Report(<<Event("DISABLED", "-")>>)
    BY <1>1, <2>1, <2>2 DEF Reports
  <2>3. ASSUME NEW k \in Deactivations,
               Report(<<Event(k, "IDLE"), Event("DISABLED", "-")>>)
        PROVE  Reports'
    <3>1. k # "CE_ACTIVATED"
      BY DEF Deactivations
    <3> QED
      BY <1>1, <2>1, <2>3, <3>1 DEF Reports
  <2> QED
    BY <1>9, <2>2, <2>3 DEF NfaDisable, Deactivations
<1> QED
  BY <1>4, <1>5, <1>6, <1>7, <1>8, <1>9 DEF Nfa

(* The stack never ends a session without reporting its end, except when   *)
(* it is disabled: then no other session follows.                          *)
LEMMA StackLasts ==
  ASSUME Shape, Nfa, NEW p \in Nested, NEW s, Lasts(p, s)
  PROVE  Lasts(p, s)'
<1> USE DEF Report
<1>1. Len(<<>>) = 0 /\ out = <<>>
  BY StackReports
<1>2. s = session /\ rf \in {p, "gone"}
  BY <1>1 DEF Lasts
<1>3. p \in {"T3T", "UNKNOWN"}
  BY DEF Nested
<1>4. \A d : rf = p => End(Deactivation(d), p)
  BY <1>3 DEF End, Deactivation, IsHost, Event
<1>5. CASE Activate
  BY <1>2, <1>3, <1>5 DEF Activate
<1>6. CASE ReaderFrame \/ NfaConfig \/ NfaSend
  BY <1>2, <1>6 DEF ReaderFrame, NfaConfig, NfaSend, Lasts
<1>7. CASE NfaStart
  BY <1>2, <1>3, <1>7 DEF NfaStart, Lasts
<1>8. CASE RemoteLeaves
  <2>1. rf = p /\ out' = <<Deactivation("DISCOVERY")>> /\ UNCHANGED session
    BY <1>2, <1>8 DEF RemoteLeaves, Active, AllProtocols
  <2>2. Len(out') = 1 /\ out'[1] = Deactivation("DISCOVERY")
    BY <2>1
  <2>3. 1 \in 1..Len(out') /\ End(out'[1], p)
    BY <1>4, <2>1, <2>2
  <2> QED
    BY <1>2, <2>1, <2>3 DEF Lasts
<1>9. CASE NfaStop
  <2>1. rf = p /\ Active /\ UNCHANGED session
    BY <1>2, <1>3, <1>9 DEF NfaStop, Requested, Active, AllProtocols
  <2>2. Event("STOPPED", "-") \in LoopEvents /\ Deactivation("IDLE") \in LoopEvents
    BY EventType DEF Deactivation, Kinds, Details, Answers, Deactivations
  <2>3. out' = <<Deactivation("IDLE"), Event("STOPPED", "-")>>
    BY <1>9, <2>1, <2>2, Pair DEF NfaStop
  <2>4. Len(out') = 2 /\ out'[1] = Deactivation("IDLE")
    BY <2>3
  <2>5. 1 \in 1..Len(out') /\ End(out'[1], p)
    BY <1>4, <2>1, <2>4
  <2> QED
    BY <1>2, <2>1, <2>5 DEF Lasts
<1>10. CASE NfaDisable
  <2>1. rf' = "gone" /\ UNCHANGED session
    BY <1>10 DEF NfaDisable
  <2> QED
    BY <1>2, <2>1 DEF Lasts
<1> QED
  BY <1>5, <1>6, <1>7, <1>8, <1>9, <1>10 DEF Nfa

LEMMA StackSeparate == Shape /\ Separate /\ Nfa => Separate'
<1> SUFFICES ASSUME Shape, Separate, Nfa PROVE Separate'
  OBVIOUS
<1>1. UNCHANGED <<dtaq, pc, own>>
  BY DEF Nfa, Activate, ReaderFrame, RemoteLeaves, NfaConfig, NfaStart, NfaStop, NfaSend,
         NfaDisable
<1>2. \A p \in Nested : \A i, s : Open(dtaq, i, p, s) =>
        Separated(dtaq, i, p, s) /\ (Lasts(p, s)' \/ Ended(dtaq, i, p))
  BY StackLasts DEF Open
<1>3. Queued'
  <2> SUFFICES ASSUME NEW i \in 1..Len(dtaq), dtaq[i].kind = "CE_ACTIVATED",
                      dtaq[i].detail \in Nested
               PROVE  Open(dtaq, i, dtaq[i].detail, dtaq[i].session)'
    BY <1>1 DEF Queued
  <2>1. Open(dtaq, i, dtaq[i].detail, dtaq[i].session)
    BY DEF Separate, Queued
  <2> QED
    BY <1>1, <1>2, <2>1 DEF Open
<1>4. Running'
  <2> SUFFICES ASSUME NEW p \in Nested, pc'["dta"] = Loop(p) PROVE Open(dtaq, 0, p, own)'
    BY DEF Running
  <2>1. Open(dtaq, 0, p, own)
    BY <1>1 DEF Separate, Running
  <2> QED
    BY <1>1, <1>2, <2>1 DEF Open
<1> QED
  BY <1>3, <1>4, StackCurrent DEF Separate

(* The callback takes the first of the reported events away: an end among  *)
(* them is that one, or is still there.                                    *)
LEMMA ReportedLasts ==
  ASSUME Shape, Reports, out # <<>>, out' = Tail(out), UNCHANGED <<rf, session>>
  PROVE  /\ Reports'
         /\ \A p, s : Lasts(p, s) => Lasts(p, s)' \/ End(Head(out), p)
<1>1. /\ Len(out) \in Nat \ {0} /\ Len(out') = Len(out) - 1 /\ Head(out) = out[1]
      /\ \A k \in 1..Len(out') : out'[k] = out[k + 1]
  BY HeadTailProperties DEF Shape, CallbackShape
<1>2. Reports'
  BY <1>1 DEF Reports
<1>3. ASSUME NEW p, NEW s, Lasts(p, s), ~End(Head(out), p)
      PROVE  Lasts(p, s)'
  <2>1. CASE rf \in {p, "gone"}
    BY <1>3, <2>1 DEF Lasts
  <2>2. CASE rf \notin {p, "gone"}
    <3>1. PICK k \in 1..Len(out) : End(out[k], p)
      BY <1>3, <2>2 DEF Lasts
    <3>2. k # 1
      BY <1>1, <1>3, <3>1
    <3>3. k - 1 \in 1..Len(out') /\ out'[k - 1] = out[k]
      BY <1>1, <3>1, <3>2
    <3> QED
      BY <1>3, <3>1, <3>3 DEF Lasts
  <2> QED
    BY <2>1, <2>2
<1> QED
  BY <1>2, <1>3

LEMMA CallbackSeparate == Shape /\ Separate /\ Callback => Separate'
<1> SUFFICES ASSUME Shape, Separate, Callback PROVE Separate'
  OBVIOUS
<1>1. UNCHANGED <<rf, session, pc, own>>
  BY DEF Callback, NotifyState, PushMw, EvtCb
<1>2. out # <<>>
  BY DEF Callback, NotifyState, PushMw, EvtCb, Shape, CallbackShape
<1>3. CASE UNCHANGED <<out, dtaq>>
  BY <1>1, <1>3 DEF Separate, Reports, Queued, Running, Open, Lasts
<1>4. CASE out' = Tail(out) /\ Head(out).kind \in Answers /\ UNCHANGED dtaq
  <2>1. \A p : ~End(Head(out), p)
    BY <1>4 DEF End, Answers
  <2>2. Reports' /\ \A p, s : Lasts(p, s) => Lasts(p, s)'
    BY <1>1, <1>2, <1>4, <2>1, ReportedLasts DEF Separate
  <2>3. \A i, p, s : Open(dtaq, i, p, s) => Open(dtaq, i, p, s)'
    BY <1>4, <2>2 DEF Open
  <2>4. Queued'
    <3> SUFFICES ASSUME NEW i \in 1..Len(dtaq), dtaq[i].kind = "CE_ACTIVATED",
                        dtaq[i].detail \in Nested
                 PROVE  Open(dtaq, i, dtaq[i].detail, dtaq[i].session)'
      BY <1>4 DEF Queued
    <3>1. Open(dtaq, i, dtaq[i].detail, dtaq[i].session)
      BY DEF Separate, Queued
    <3> QED
      BY <1>4, <2>2, <3>1 DEF Open
  <2>5. Running'
    BY <1>1, <1>4, <2>2 DEF Separate, Running, Open
  <2> QED
    BY <2>2, <2>4, <2>5 DEF Separate
<1>5. CASE out' = Tail(out) /\ dtaq' = Append(dtaq, Head(out))
  <2> DEFINE e == Head(out)
  <2>1. dtaq \in Seq(LoopEvents) /\ Len(dtaq) \in Nat
    BY DEF Shape, QueueShape
  <2>2. e \in LoopEvents /\ e.session = session /\ (e.kind = "CE_ACTIVATED" => e.detail = rf)
    BY <1>2, HeadTailProperties DEF Shape, CallbackShape, Separate, Reports
  <2>3. Reports' /\ \A p, s : Lasts(p, s) => Lasts(p, s)' \/ End(e, p)
    BY <1>1, <1>2, <1>5, ReportedLasts DEF Separate
  <2> HIDE DEF e
  <2>4. dtaq' = Append(dtaq, e)
    BY <1>5 DEF e
  <2>5. ASSUME NEW i \in 0..Len(dtaq), NEW p, NEW s, Open(dtaq, i, p, s)
        PROVE  Separated(dtaq', i, p, s) /\ (Lasts(p, s)' \/ Ended(dtaq', i, p))
    <3>1. e.session = s \/ Ended(dtaq, i, p)
      BY <2>2, <2>5 DEF Open, Lasts
    <3>2. Separated(dtaq', i, p, s)
      BY <2>1, <2>2, <2>4, <2>5, <3>1, OpenAppend DEF Open
    <3>3. Ended(dtaq, i, p) \/ End(e, p) => Ended(dtaq', i, p)
      BY <2>1, <2>2, <2>4, OpenAppend
    <3> QED
      BY <2>3, <2>5, <3>2, <3>3 DEF Open
  <2>6. Queued'
    <3> SUFFICES ASSUME NEW i \in 1..Len(dtaq'), dtaq'[i].kind = "CE_ACTIVATED",
                        dtaq'[i].detail \in Nested
                 PROVE  Open(dtaq, i, dtaq[i].detail, dtaq[i].session)'
      BY DEF Queued
    <3>1. /\ Len(dtaq') = Len(dtaq) + 1 /\ dtaq'[Len(dtaq) + 1] = e
          /\ \A j \in 1..Len(dtaq) : dtaq'[j] = dtaq[j]
      BY <2>1, <2>2, <2>4, AppendProperties
    <3>2. CASE i \in 1..Len(dtaq)
      <4>1. dtaq'[i] = dtaq[i]
        BY <3>1, <3>2
      <4>2. Open(dtaq, i, dtaq[i].detail, dtaq[i].session)
        BY <3>2, <4>1 DEF Separate, Queued
      <4> QED
        BY <2>5, <3>2, <4>1, <4>2 DEF Open
    <3>3. CASE i = Len(dtaq) + 1
      <4>1. dtaq'[i] = e
        BY <3>1, <3>3
      <4>2. \A p, s : Separated(dtaq', i, p, s)
        BY <2>1, <3>1, <3>3 DEF Separated
      <4>3. PICK p, s : p = e.detail /\ s = e.session
        OBVIOUS
      <4>4. Lasts(p, s)'
        BY <1>1, <2>2, <4>1, <4>3 DEF Lasts
      <4> QED
        BY <4>1, <4>2, <4>3, <4>4 DEF Open
    <3> QED
      BY <2>1, <3>1, <3>2, <3>3
  <2>7. Running'
    <3> SUFFICES ASSUME NEW p \in Nested, pc'["dta"] = Loop(p) PROVE Open(dtaq, 0, p, own)'
      BY DEF Running
    <3>1. Open(dtaq, 0, p, own) /\ 0 \in 0..Len(dtaq)
      BY <1>1, <2>1 DEF Separate, Running
    <3> QED
      BY <1>1, <2>5, <3>1 DEF Open
  <2> QED
    BY <2>3, <2>6, <2>7 DEF Separate
<1>6. CASE NotifyState
  BY <1>3, <1>6 DEF NotifyState
<1>7. CASE PushMw
  <2>1. CASE CallbackReqd(Head(out))
    BY <1>3, <1>7, <2>1 DEF PushMw
  <2>2. CASE ~CallbackReqd(Head(out))
    BY <1>4, <1>7, <2>2 DEF PushMw, CallbackReqd, Reported
  <2> QED
    BY <2>1, <2>2
<1>8. CASE EvtCb
  BY <1>5, <1>8 DEF EvtCb, Reported
<1> QED
  BY <1>6, <1>7, <1>8 DEF Callback

(* The card emulation of p goes on: the step did not take its end.         *)
Continues(p) ==
  /\ pc["dta"] = Loop(p) /\ UNCHANGED own
  /\ dtaq # <<>> /\ dtaq' = Tail(dtaq) => ~End(Head(dtaq), p)

(* What a step of a thread does to the queue leaves each activation open,  *)
(* and that of the card emulation that goes on.                            *)
LEMMA ThreadSeparate ==
  ASSUME Shape, Separate, UNCHANGED nfaVars,
         \/ UNCHANGED dtaq
         \/ dtaq # <<>> /\ dtaq' = Tail(dtaq)
         \/ Len(dtaq) < DtaLength /\ dtaq' = Append(dtaq, Event("THREAD_DELETE", "-"))
  PROVE  /\ Reports' /\ Queued'
         /\ (\A p \in Nested : pc'["dta"] = Loop(p) => Continues(p)) => Running'
<1>1. UNCHANGED <<rf, session, out>>
  BY DEF nfaVars
<1>2. Reports' /\ \A p, s : Lasts(p, s) => Lasts(p, s)'
  BY <1>1 DEF Separate, Reports, Lasts
<1>3. dtaq \in Seq(LoopEvents) /\ Len(dtaq) \in Nat
  BY DEF Shape, QueueShape
<1>4. ASSUME NEW p \in Nested, Continues(p)
      PROVE  UNCHANGED own /\ Separated(dtaq, 0, p, own) /\ (Lasts(p, own)' \/ Ended(dtaq, 0, p))
  BY <1>2, <1>4 DEF Continues, Separate, Running, Open
<1>5. CASE UNCHANGED dtaq
  <2>1. Queued'
    <3> SUFFICES ASSUME NEW i \in 1..Len(dtaq), dtaq[i].kind = "CE_ACTIVATED",
                        dtaq[i].detail \in Nested
                 PROVE  Open(dtaq, i, dtaq[i].detail, dtaq[i].session)'
      BY <1>5 DEF Queued
    <3>1. Open(dtaq, i, dtaq[i].detail, dtaq[i].session)
      BY DEF Separate, Queued
    <3> QED
      BY <1>2, <1>5, <3>1 DEF Open
  <2>2. (\A p \in Nested : pc'["dta"] = Loop(p) => Continues(p)) => Running'
    BY <1>4, <1>5 DEF Running, Open
  <2> QED
    BY <1>2, <2>1, <2>2
<1>6. CASE dtaq # <<>> /\ dtaq' = Tail(dtaq)
  <2>1. Queued'
    <3> SUFFICES ASSUME NEW i \in 1..Len(dtaq'), dtaq'[i].kind = "CE_ACTIVATED",
                        dtaq'[i].detail \in Nested
                 PROVE  Open(dtaq, i, dtaq[i].detail, dtaq[i].session)'
      BY DEF Queued
    <3>0. PICK p, s : p = dtaq'[i].detail /\ s = dtaq'[i].session
      OBVIOUS
    <3>1. i + 1 \in 1..Len(dtaq) /\ dtaq'[i] = dtaq[i + 1] /\ i + 1 # 0 /\ (i + 1) - 1 = i
      BY <1>3, <1>6, HeadTailProperties
    <3>2. Open(dtaq, i + 1, p, s)
      BY <3>0, <3>1 DEF Separate, Queued
    <3>3. i + 1 \in 0..Len(dtaq)
      BY <3>1
    <3>4. /\ Ended(dtaq, i + 1, p) => Ended(Tail(dtaq), i, p)
          /\ Separated(dtaq, i + 1, p, s) => Separated(Tail(dtaq), i, p, s)
      BY <1>3, <1>6, <3>1, <3>3, OpenTail
    <3>5. Separated(dtaq', i, p, s) /\ (Lasts(p, s)' \/ Ended(dtaq', i, p))
      BY <1>2, <1>6, <3>2, <3>4 DEF Open
    <3> QED
      BY <3>0, <3>5 DEF Open
  <2>2. (\A p \in Nested : pc'["dta"] = Loop(p) => Continues(p)) => Running'
    <3> SUFFICES ASSUME NEW p \in Nested, Continues(p) PROVE Open(dtaq, 0, p, own)'
      BY DEF Running
    <3>1. ~End(Head(dtaq), p) /\ 0 \in 0..Len(dtaq)
      BY <1>3, <1>6 DEF Continues
    <3>2. /\ Ended(dtaq, 0, p) => Ended(Tail(dtaq), 0, p)
          /\ Separated(dtaq, 0, p, own) => Separated(Tail(dtaq), 0, p, own)
      BY <1>3, <1>6, <3>1, OpenTail
    <3> QED
      BY <1>4, <1>6, <3>2 DEF Open
  <2> QED
    BY <1>2, <2>1, <2>2
<1>7. CASE Len(dtaq) < DtaLength /\ dtaq' = Append(dtaq, Event("THREAD_DELETE", "-"))
  <2> DEFINE e == Event("THREAD_DELETE", "-")
  <2>1. e \in LoopEvents /\ e.kind = "THREAD_DELETE"
    BY EventType DEF Kinds, Details, Event
  <2> HIDE DEF e
  <2>2. dtaq' = Append(dtaq, e)
    BY <1>7 DEF e
  <2>3. \A i \in 0..Len(dtaq) : \A p, s :
          /\ Separated(dtaq, i, p, s) => Separated(dtaq', i, p, s)
          /\ Ended(dtaq, i, p) => Ended(dtaq', i, p)
    BY <1>3, <2>1, <2>2, OpenAppend
  <2>4. Queued'
    <3> SUFFICES ASSUME NEW i \in 1..Len(dtaq'), dtaq'[i].kind = "CE_ACTIVATED",
                        dtaq'[i].detail \in Nested
                 PROVE  Open(dtaq, i, dtaq[i].detail, dtaq[i].session)'
      BY DEF Queued
    <3>1. /\ Len(dtaq') = Len(dtaq) + 1 /\ dtaq'[Len(dtaq) + 1] = e
          /\ \A j \in 1..Len(dtaq) : dtaq'[j] = dtaq[j]
      BY <1>3, <2>1, <2>2, AppendProperties
    <3>2. i \in 1..Len(dtaq) /\ dtaq'[i] = dtaq[i]
      BY <1>3, <2>1, <3>1
    <3>3. Open(dtaq, i, dtaq[i].detail, dtaq[i].session) /\ i \in 0..Len(dtaq)
      BY <3>2 DEF Separate, Queued
    <3> QED
      BY <1>2, <2>3, <3>2, <3>3 DEF Open
  <2>5. (\A p \in Nested : pc'["dta"] = Loop(p) => Continues(p)) => Running'
    <3> SUFFICES ASSUME NEW p \in Nested, Continues(p) PROVE Open(dtaq, 0, p, own)'
      BY DEF Running
    <3>1. 0 \in 0..Len(dtaq)
      BY <1>3
    <3> QED
      BY <1>4, <2>3, <3>1 DEF Open
  <2> QED
    BY <1>2, <2>4, <2>5
<1> QED
  BY <1>5, <1>6, <1>7

LEMMA LoopIs ==
  ASSUME NEW p \in Nested
  PROVE  /\ Loop(p) \in {"hcef", "uicc"}
         /\ Loop(p) = "hcef" <=> p = "T3T"
         /\ Loop(p) = "uicc" <=> p = "UNKNOWN"
BY DEF Loop, Nested

(* The handler of an activation starts the card emulation it is about.     *)
LEMMA ActivatedSeparate == Shape /\ Separate /\ HandleCeActivated => Separate'
<1> SUFFICES ASSUME Shape, Separate, HandleCeActivated PROVE Separate'
  OBVIOUS
<1>1. /\ dtaq # <<>> /\ dtaq' = Tail(dtaq) /\ UNCHANGED nfaVars /\ own' = Event1.session
      /\ Event1.kind = "CE_ACTIVATED"
  BY DEF HandleCeActivated, Pull, LoopFrame
<1>2. Reports' /\ Queued'
  BY <1>1, ThreadSeparate
<1>3. Event1 = dtaq[1] /\ 1 \in 1..Len(dtaq) /\ dtaq \in Seq(LoopEvents) /\ Event1 \in LoopEvents
  BY <1>1, HeadTailProperties DEF Shape, QueueShape, Event1
<1>4. Event1.detail \in {"T3T", "UNKNOWN", "ISO_DEP"}
  BY <1>1, <1>3, EventIs DEF Emulated, AllProtocols
<1>5. Running'
  <2> SUFFICES ASSUME NEW p \in Nested, pc'["dta"] = Loop(p) PROVE Open(dtaq, 0, p, own)'
    BY DEF Running
  <2>1. p = Event1.detail
    <3>1. pc'["dta"] = CASE Event1.detail = "T3T" -> "hcef"
                         [] Event1.detail = "UNKNOWN" -> "uicc"
                         [] Event1.detail = "ISO_DEP" ->
                              IF devState = "ACTIVE" THEN "recv" ELSE "drain"
      BY GotoDta DEF HandleCeActivated
    <3> QED
      BY <1>4, <3>1, LoopIs
  <2>2. PICK s : s = Event1.session
    OBVIOUS
  <2>3. Open(dtaq, 1, p, s)
    BY <1>1, <1>3, <2>1, <2>2 DEF Separate, Queued
  <2>4. /\ Ended(dtaq, 1, p) => Ended(Tail(dtaq), 0, p)
        /\ Separated(dtaq, 1, p, s) => Separated(Tail(dtaq), 0, p, s)
    <3>1. 1 \in 0..Len(dtaq) /\ 1 # 0 /\ 1 - 1 = 0
      BY <1>3
    <3> QED
      BY <1>1, <1>3, <3>1, OpenTail
  <2>5. Lasts(p, s) => Lasts(p, s)'
    BY <1>1 DEF Lasts, nfaVars
  <2> QED
    BY <1>1, <2>2, <2>3, <2>4, <2>5 DEF Open
<1> QED
  BY <1>2, <1>5 DEF Separate

LEMMA SeparateStep == Shape /\ Separate /\ [Next]_vars => Separate'
<1> SUFFICES ASSUME Shape, Separate, [Next]_vars PROVE Separate'
  OBVIOUS
<1> DEFINE Keeps == \A p \in Nested : pc'["dta"] = Loop(p) => Continues(p)
<1> HIDE DEF Keeps
<1>1. CASE UNCHANGED vars
  BY <1>1 DEF vars, nfaVars, Separate, Reports, Queued, Running, Open, Lasts
<1>2. CASE Nfa
  BY <1>2, StackSeparate
<1>3. CASE Callback
  BY <1>3, CallbackSeparate
<1>4. CASE HandleCeActivated
  BY <1>4, ActivatedSeparate
<1>5. CASE HandleThreadDelete \/ HandleOther \/ HandleDeactivated \/ HandleCeDeactivated
  <2>1. pc'["dta"] \notin {"hcef", "uicc"}
    BY <1>5, GotoDta DEF HandleThreadDelete, HandleOther, HandleDeactivated, HandleCeDeactivated,
       Pull
  <2>2. Keeps
    BY <2>1, LoopIs DEF Keeps
  <2>3. UNCHANGED nfaVars /\ dtaq # <<>> /\ dtaq' = Tail(dtaq)
    BY <1>5 DEF HandleThreadDelete, HandleOther, HandleDeactivated, HandleCeDeactivated, Pull,
       LoopFrame
  <2> QED
    BY <2>2, <2>3, ThreadSeparate DEF Keeps, Separate
<1>6. CASE CardEmulation \/ Discovery \/ App
  <2>1. /\ UNCHANGED nfaVars
        /\ \/ UNCHANGED dtaq \/ (dtaq # <<>> /\ dtaq' = Tail(dtaq))
           \/ Len(dtaq) < DtaLength /\ dtaq' = Append(dtaq, Event("THREAD_DELETE", "-"))
    BY <1>6, ThreadSteps
  <2>2. Keeps
    <3> USE GotoDta, LoopIs DEF Keeps, Continues, Request
    <3>1. CASE HceFReply \/ HceFSkip
      BY <3>1 DEF HceFReply, HceFSkip, Pull, Event1, LoopFrame, End
    <3>2. CASE UiccSkip
      BY <3>2 DEF UiccSkip, Pull, Event1, LoopFrame, End
    <3>3. CASE HceDisconnected \/ HceReply \/ HceReceive \/ HceFSuccess \/ HceFIdle
                 \/ HceFDisconnected \/ UiccDeactivated
      BY <3>3 DEF HceDisconnected, HceReply, HceReceive, HceFSuccess, HceFIdle,
                  HceFDisconnected, UiccDeactivated
    <3>4. CASE Discovery
      BY <3>4 DEF Discovery, StopIdle, StopDiscovery, ResetDiscoveryConfig, SetDiscoveryConfig,
                  DiscoveryStart, EnableDiscovery
    <3>5. CASE App
      <4>1. UNCHANGED own /\ pc'["dta"] = pc["dta"]
        BY <3>5, AppGoes
      <4>2. \/ dtaq' = dtaq
            \/ dtaq' = Append(dtaq, Event("THREAD_DELETE", "-"))
        BY <3>5 DEF App, DeInit, StackDeInit, MwIfDestroy, PushThreadDelete, ThreadDelete
      <4>3. dtaq # <<>> => dtaq' # Tail(dtaq)
        <5>1. dtaq \in Seq(LoopEvents) /\ Event("THREAD_DELETE", "-") \in LoopEvents
          BY EventType DEF Shape, QueueShape, Kinds, Details
        <5>2. Len(dtaq) \in Nat /\ Len(dtaq') \in {Len(dtaq), Len(dtaq) + 1}
          BY <4>2, <5>1, AppendProperties
        <5>3. dtaq # <<>> => Len(Tail(dtaq)) = Len(dtaq) - 1
          BY <5>1, HeadTailProperties
        <5> QED
          BY <5>2, <5>3
      <4> QED
        BY <4>1, <4>3
    <3> QED
      BY <1>6, <3>1, <3>2, <3>3, <3>4, <3>5 DEF CardEmulation
  <2> QED
    BY <2>1, <2>2, ThreadSeparate DEF Keeps, Separate
<1>7. CASE Wait("dta") \/ Wait("app")
  <2>1. PICK t \in Threads : Wait(t)
    BY <1>7 DEF Threads
  <2>2. UNCHANGED <<nfaVars, dtaq, own>>
    BY <2>1, WaitStep
  <2>3. Keeps
    <3>1. dtaq # <<>> => dtaq # Tail(dtaq)
      BY HeadTailProperties DEF Shape, QueueShape
    <3>2. CASE UNCHANGED pc
      BY <2>2, <3>1, <3>2 DEF Keeps, Continues
    <3>3. ASSUME NEW ok \in BOOLEAN, Goto(t, AfterWait(t, ok)) PROVE Keeps
      <4>1. AfterWait(t, ok) \in IF t = "dta"
              THEN {"reply", "enabling", "resetting", "starting", "started", "pull"}
              ELSE {"disabling", "destroying", "pushing"}
        BY <2>1, AfterWaitShape, WaitStep
      <4> HIDE DEF AfterWait
      <4>2. CASE t = "dta"
        <5>1. pc'["dta"] \notin {"hcef", "uicc"}
          BY <3>3, <4>1, <4>2, GotoDta
        <5> QED
          BY <5>1, LoopIs DEF Keeps
      <4>3. CASE t = "app"
        <5>1. pc'["dta"] = pc["dta"]
          BY <3>3, <4>3, GotoDta
        <5> QED
          BY <2>2, <3>1, <5>1 DEF Keeps, Continues
      <4> QED
        BY <4>2, <4>3 DEF Threads
    <3> QED
      BY <2>1, <3>2, <3>3, WaitStep
  <2> QED
    BY <2>2, <2>3, ThreadSeparate DEF Keeps, Separate
<1> QED
  BY <1>1, <1>2, <1>3, <1>4, <1>5, <1>6, <1>7 DEF Next, DtaThread, AppThread, CbMsgHandleThrd

(* A card emulation that pulls the DTA queue itself (phDTA_HceFTest.c:86,  *)
(* phDTA_UICCTest.c:59) consumes the events of the activation it was       *)
(* started for and never one of the next, although stack and callback run  *)
(* ahead of it by as many sessions as the queue holds.                     *)
THEOREM SessionSeparationCorrect == Spec => []SessionSeparation
<1>1. Spec => [](Shape /\ Separate)
  BY ShapeAlways, SeparateInit, SeparateStep, PTL DEF Spec
<1> QED
  BY <1>1, SeparateIsSeparation, PTL
=============================================================================
