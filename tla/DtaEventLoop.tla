----------------------------- MODULE DtaEventLoop -----------------------------
(***************************************************************************)
(* The event loop of the DTA library (dtaLib) and its two queues.          *)
(*                                                                         *)
(* The NFC stack runs the callback of dtaMwAl in one thread of its own     *)
(* (nfa).  The callback pushes an event to the middleware queue, where a   *)
(* request of phMwIf waits for its answer, and then calls phDtaLibi_EvtCb, *)
(* which pushes it to the DTA queue.  The DTA thread pulls the DTA queue   *)
(* in phDtaLibi_CbMsgHandleThrd; card emulation runs inside that thread:   *)
(* HCE on ISO-DEP reads the middleware queue, HCE-F and UICC pull the DTA  *)
(* queue themselves.  After most events the thread stops and restarts the  *)
(* discovery by requests to the stack.  phDtaLib_DeInit runs in the user   *)
(* interface's thread.                                                     *)
(*                                                                         *)
(* Both queues are the NO_OVERWRITE queue of OsalQueue with an infinite    *)
(* push timeout: one atomic Append, enabled while there is room.  The      *)
(* stack and the remote reader are external: they are modelled by the      *)
(* events the code in src handles.  A request is a message to the stack's  *)
(* thread, which also runs the callbacks, so a blocked callback holds up   *)
(* every answer.  The configuration round trips of one call (enable        *)
(* polling, enable listening, ...) are one request, CONFIG.                *)
(***************************************************************************)
EXTENDS Naturals, Sequences

CONSTANTS
  DtaLength,     (* capacity of the DTA queue; 20 in phDtaLib_Init         *)
  MwLength,      (* capacity of the middleware queue; 20 in phMwIf_Init    *)
  Protocols,     (* protocols a remote device activates                    *)
  LlcpPattern,   (* is the test pattern one of the LLCP patterns?          *)
  MaxSessions,   (* bound: activations                                     *)
  MaxReleased,   (* bound: activations when phDtaLib_DeInit is called      *)
  MaxFrames      (* bound: frames a reader sends in one activation         *)

AllProtocols == {"ISO_DEP", "T3T", "UNKNOWN", "NFC_DEP"}

ASSUME LoopAssumption ==
  /\ {DtaLength, MwLength} \subseteq Nat \ {0}
  /\ {MaxSessions, MaxReleased, MaxFrames} \subseteq Nat
  /\ Protocols \subseteq AllProtocols
  /\ LlcpPattern \in BOOLEAN

VARIABLES
  rf,        (* the controller: "off", "disc", the active protocol, or     *)
             (* "gone" once the stack is disabled                          *)
  session,   (* number of activations so far                               *)
  frames,    (* frames the reader sent in this activation                  *)
  owed,      (* has the reader sent a frame it got no answer to?           *)
  reqs,      (* requests sent to the stack and not yet processed           *)
  out,       (* events the stack reports, in order                         *)
  stage,     (* how far the callback got with Head(out)                    *)
  devState,  (* phMwIf_sHandle_t.eDeviceState                              *)
  dataLast,  (* was the callback's last event (Pgu_event) CE_DATA?         *)
  mwq,       (* the middleware queue                                       *)
  dtaq,      (* the DTA queue                                              *)
  pc,        (* where the DTA thread and phDtaLib_DeInit are               *)
  own,       (* activation whose card emulation the DTA thread runs        *)
  mwUp       (* has phMwIf_DeInit not destroyed the middleware queue?      *)

nfaVars == <<rf, session, frames, owed, out, stage>>
mwif == <<devState, dataLast>>
vars == <<nfaVars, reqs, mwif, mwq, dtaq, pc, own, mwUp>>

Deactivations == {"DEACTIVATED", "CE_DEACTIVATED"}
Answers == {"CONFIGURED", "STARTED", "STOPPED", "DISABLED"}
Kinds == Deactivations \cup Answers
           \cup {"ACTIVATED", "CE_ACTIVATED", "CE_DATA", "THREAD_DELETE"}
Details == AllProtocols \cup {"IDLE", "DISCOVERY", "-"}

(* An event: its kind, the protocol or type of deactivation it carries and *)
(* the activation it belongs to.                                           *)
Event(k, d) == [kind |-> k, detail |-> d, session |-> session]
Events == [kind : Kinds, detail : Details, session : 0..MaxSessions]

(* Which events the callback pushes to the middleware queue, and which it  *)
(* hands to phDtaLibi_EvtCb: activations only to the latter, answers to    *)
(* requests only to the former.                                            *)
PushToQReqd(e) == e.kind \notin {"ACTIVATED", "CE_ACTIVATED"}
CallbackReqd(e) == e.kind \notin Answers

Init ==
  /\ rf = "disc" /\ session = 0 /\ frames = 0 /\ owed = FALSE
  /\ reqs = <<>> /\ out = <<>> /\ stage = "idle"
  /\ devState = "DISC" /\ dataLast = FALSE
  /\ mwq = <<>> /\ dtaq = <<>>
  /\ pc = [dta |-> "pull", app |-> "up"]
  /\ own = 0 /\ mwUp = TRUE

-----------------------------------------------------------------------------
(* The controller, the reader and the stack: external.                     *)

IsHost(p) == p \in {"ISO_DEP", "T3T"}
Active == rf \in AllProtocols

Deactivation(type) ==
  Event(IF IsHost(rf) THEN "CE_DEACTIVATED" ELSE "DEACTIVATED", type)

NfaIdle == out = <<>>
Report(es) == out' = es /\ stage' = "new"

Activate ==
  /\ NfaIdle /\ rf = "disc" /\ session < MaxSessions
  /\ pc["app"] # "up" => session < MaxReleased
  /\ \E p \in Protocols :
       /\ rf' = p
       /\ out' = << [kind |-> IF p = "NFC_DEP" THEN "ACTIVATED" ELSE "CE_ACTIVATED",
                     detail |-> p, session |-> session + 1] >>
  /\ stage' = "new"
  /\ session' = session + 1 /\ frames' = 0 /\ owed' = FALSE
  /\ UNCHANGED <<reqs, mwif, mwq, dtaq, pc, own, mwUp>>

(* A reader sends the next command once the last one is answered.          *)
ReaderFrame ==
  /\ NfaIdle /\ IsHost(rf) /\ ~owed /\ frames < MaxFrames
  /\ frames' = frames + 1 /\ owed' = TRUE
  /\ Report(<<Event("CE_DATA", "-")>>)
  /\ UNCHANGED <<rf, session, reqs, mwif, mwq, dtaq, pc, own, mwUp>>

RemoteLeaves ==
  /\ NfaIdle /\ Active
  /\ Report(<<Deactivation("DISCOVERY")>>)
  /\ rf' = "disc" /\ owed' = FALSE
  /\ UNCHANGED <<session, frames, reqs, mwif, mwq, dtaq, pc, own, mwUp>>

Requested(r) ==
  /\ NfaIdle /\ rf # "gone" /\ reqs # <<>>
  /\ Head(reqs) = r /\ reqs' = Tail(reqs)

NfaConfig ==
  /\ Requested("CONFIG")
  /\ Report(<<Event("CONFIGURED", "-")>>)
  /\ UNCHANGED <<rf, session, frames, owed, mwif, mwq, dtaq, pc, own, mwUp>>

(* A discovery that is already started is reported as started.             *)
NfaStart ==
  /\ Requested("START")
  /\ rf' = IF rf = "off" THEN "disc" ELSE rf
  /\ Report(<<Event("STARTED", "-")>>)
  /\ UNCHANGED <<session, frames, owed, mwif, mwq, dtaq, pc, own, mwUp>>

NfaStop ==
  /\ Requested("STOP")
  /\ Report((IF Active THEN <<Deactivation("IDLE")>> ELSE <<>>)
              \o <<Event("STOPPED", "-")>>)
  /\ rf' = "off" /\ owed' = FALSE
  /\ UNCHANGED <<session, frames, mwif, mwq, dtaq, pc, own, mwUp>>

NfaSend ==
  /\ Requested("SEND")
  /\ owed' = FALSE
  /\ UNCHANGED <<rf, session, frames, out, stage, mwif, mwq, dtaq, pc, own, mwUp>>

(* NFA_Disable may or may not report the link it closes.  A link to a      *)
(* reader is reported as the end of the card emulation or of the link:     *)
(* phDtaLibi_HceFOperations handles either.                                *)
NfaDisable ==
  /\ Requested("DISABLE")
  /\ \/ Report(<<Event("DISABLED", "-")>>)
     \/ /\ Active
        /\ \E k \in IF IsHost(rf) THEN Deactivations ELSE {"DEACTIVATED"} :
             Report(<<Event(k, "IDLE"), Event("DISABLED", "-")>>)
  /\ rf' = "gone" /\ owed' = FALSE
  /\ UNCHANGED <<session, frames, mwif, mwq, dtaq, pc, own, mwUp>>

Nfa == Activate \/ ReaderFrame \/ RemoteLeaves
         \/ NfaConfig \/ NfaStart \/ NfaStop \/ NfaSend \/ NfaDisable

-----------------------------------------------------------------------------
(* The callback phMwIfi_NfaConnCallback with phDtaLibi_EvtCb at its end.   *)

DeviceState(e) ==
  CASE e.kind \in {"ACTIVATED", "CE_ACTIVATED"} -> "ACTIVE"
    [] e.kind \in Deactivations /\ e.detail = "IDLE" -> "IDLE"
    [] e.kind \in Deactivations /\ e.detail = "DISCOVERY" -> "DISC"
    [] OTHER -> devState

Reported ==
  /\ out' = Tail(out)
  /\ stage' = IF Tail(out) = <<>> THEN "idle" ELSE "new"

NotifyState ==
  /\ stage = "new"
  /\ devState' = DeviceState(Head(out))
  /\ dataLast' = (Head(out).kind = "CE_DATA")
  /\ stage' = IF PushToQReqd(Head(out)) THEN "mwq" ELSE "dtaq"
  /\ UNCHANGED <<rf, session, frames, owed, reqs, out, mwq, dtaq, pc, own, mwUp>>

PushMw ==
  /\ stage = "mwq" /\ Len(mwq) < MwLength
  /\ mwq' = Append(mwq, Head(out))
  /\ IF CallbackReqd(Head(out)) THEN stage' = "dtaq" /\ out' = out ELSE Reported
  /\ UNCHANGED <<rf, session, frames, owed, reqs, mwif, dtaq, pc, own, mwUp>>

(* Faulty variant: no slot is waited for.                                  *)
EvtCbUnbounded ==
  /\ stage = "dtaq"
  /\ dtaq' = Append(dtaq, Head(out))
  /\ Reported
  /\ UNCHANGED <<rf, session, frames, owed, reqs, mwif, mwq, pc, own, mwUp>>

EvtCb ==
  /\ stage = "dtaq" /\ Len(dtaq) < DtaLength
  /\ dtaq' = Append(dtaq, Head(out))
  /\ Reported
  /\ UNCHANGED <<rf, session, frames, owed, reqs, mwif, mwq, pc, own, mwUp>>

Callback == NotifyState \/ PushMw \/ EvtCb

-----------------------------------------------------------------------------
(* Requests of dtaMwAl: send to the stack, then PH_WAIT_FOR_CBACK_EVT on   *)
(* the middleware queue.  The wait takes every event, drops the ones it    *)
(* does not wait for, and gives up at a deactivation, except while the     *)
(* discovery stops, or when its timeout finds the queue empty.             *)

Threads == {"dta", "app"}
Goto(t, to) == pc' = [pc EXCEPT ![t] = to]

Waits == [recv |-> "CE_DATA", drain |-> "CE_DATA", xcv |-> "CE_DATA",
          stop |-> "STOPPED", unconfig |-> "CONFIGURED",
          config |-> "CONFIGURED", start |-> "STARTED",
          limit |-> "CONFIGURED", disable |-> "DISABLED"]

(* What the caller of the wait does next.  phMwIf_ReceiveData and          *)
(* phMwIf_Transceive look at the last event of the callback, which may be  *)
(* a later one than the wait returned.                                     *)
AfterWait(t, ok) ==
  CASE pc[t] \in {"recv", "xcv"} -> IF ok /\ dataLast /\ devState = "ACTIVE" THEN "reply" ELSE "enabling"
    [] pc[t] = "drain"    -> "enabling"
    [] pc[t] = "stop"     -> "resetting"
    [] pc[t] = "unconfig" -> "enabling"
    [] pc[t] = "config"   -> "starting"
    [] pc[t] = "start"    -> IF ok THEN "started" ELSE "pull"
    [] pc[t] = "limit"    -> "disabling"
    [] pc[t] = "disable"  -> IF ok THEN "destroying" ELSE "pushing"

Waiting(t) == pc[t] \in DOMAIN Waits
WaitPull(t) == Waiting(t) /\ mwUp /\ mwq # <<>> /\ mwq' = Tail(mwq)
Aborts(t) == Head(mwq).kind \in Deactivations /\ pc[t] # "stop"

WaitGot(t) ==
  /\ WaitPull(t) /\ Head(mwq).kind = Waits[pc[t]]
  /\ Goto(t, AfterWait(t, TRUE))
  /\ UNCHANGED <<nfaVars, reqs, mwif, dtaq, own, mwUp>>

WaitDrop(t) ==
  /\ WaitPull(t) /\ Head(mwq).kind # Waits[pc[t]] /\ ~Aborts(t)
  /\ UNCHANGED <<nfaVars, reqs, mwif, dtaq, pc, own, mwUp>>

WaitAbort(t) ==
  /\ WaitPull(t) /\ Aborts(t)
  /\ Goto(t, AfterWait(t, FALSE))
  /\ UNCHANGED <<nfaVars, reqs, mwif, dtaq, own, mwUp>>

WaitTimeout(t) ==
  /\ Waiting(t) /\ (mwq = <<>> \/ ~mwUp)
  /\ Goto(t, AfterWait(t, FALSE))
  /\ UNCHANGED <<nfaVars, reqs, mwif, mwq, dtaq, own, mwUp>>

Wait(t) == WaitGot(t) \/ WaitDrop(t) \/ WaitAbort(t) \/ WaitTimeout(t)

Request(t, from, r, to) ==
  /\ pc[t] = from /\ Goto(t, to)
  /\ reqs' = Append(reqs, r)
  /\ UNCHANGED <<nfaVars, mwif, mwq, dtaq, own, mwUp>>

-----------------------------------------------------------------------------
(* phMwIf_DisableDiscovery and phMwIf_EnableDiscovery in the DTA thread.   *)

(* phMwIfi_DiscoveryStop: nothing to stop in the idle state, the events    *)
(* left in the queue are flushed.                                          *)
StopIdle ==
  /\ pc["dta"] = "stopping" /\ devState = "IDLE"
  /\ mwq' = <<>> /\ Goto("dta", "resetting")
  /\ UNCHANGED <<nfaVars, reqs, mwif, dtaq, own, mwUp>>

StopDiscovery == devState # "IDLE" /\ Request("dta", "stopping", "STOP", "stop")

ResetDiscoveryConfig == Request("dta", "resetting", "CONFIG", "unconfig")

SetDiscoveryConfig == Request("dta", "enabling", "CONFIG", "config")

(* Faulty variant: a device that went idle is taken for one that was       *)
(* stopped on purpose.                                                     *)
DiscoveryStartUnlessIdle ==
  IF devState = "IDLE"
    THEN /\ pc["dta"] = "starting" /\ Goto("dta", "pull")
         /\ UNCHANGED <<nfaVars, reqs, mwif, mwq, dtaq, own, mwUp>>
    ELSE Request("dta", "starting", "START", "start")

DiscoveryStart == Request("dta", "starting", "START", "start")

EnableDiscovery ==
  /\ pc["dta"] = "started" /\ Goto("dta", "pull")
  /\ devState' = "DISC"
  /\ UNCHANGED <<nfaVars, reqs, dataLast, mwq, dtaq, own, mwUp>>

Discovery == StopIdle \/ StopDiscovery \/ ResetDiscoveryConfig
               \/ SetDiscoveryConfig \/ DiscoveryStart \/ EnableDiscovery

-----------------------------------------------------------------------------
(* phDtaLibi_CbMsgHandleThrd.  bDiscStopReqd and bDiscStartReqd decide     *)
(* what follows an event: stop and restart the discovery ("stopping"),     *)
(* start it ("enabling"), or neither ("pull").                             *)

Pull(from) == pc["dta"] = from /\ dtaq # <<>> /\ dtaq' = Tail(dtaq)
Event1 == Head(dtaq)
LoopFrame == UNCHANGED <<nfaVars, reqs, mwif, mwq, mwUp>>

HandleThreadDelete ==
  /\ Pull("pull") /\ Event1.kind = "THREAD_DELETE"
  /\ Goto("dta", "exit")
  /\ UNCHANGED own /\ LoopFrame

(* NFC-DEP in an LLCP test waits for the LLCP activation.  CE_DATA is left *)
(* to the HCE operations.                                                  *)
HandleOther ==
  /\ Pull("pull") /\ Event1.kind \in {"ACTIVATED", "CE_DATA"}
  /\ UNCHANGED <<pc, own>> /\ LoopFrame

HandleDeactivated ==
  /\ Pull("pull") /\ Event1.kind = "DEACTIVATED"
  /\ Goto("dta", IF LlcpPattern THEN "stopping" ELSE "pull")
  /\ UNCHANGED own /\ LoopFrame

HandleCeDeactivated ==
  /\ Pull("pull") /\ Event1.kind = "CE_DEACTIVATED"
  /\ Goto("dta", "stopping")
  /\ UNCHANGED own /\ LoopFrame

(* Card emulation runs inside the handler of the activation.               *)
HandleCeActivated ==
  /\ Pull("pull") /\ Event1.kind = "CE_ACTIVATED"
  /\ Goto("dta", CASE Event1.detail = "T3T" -> "hcef"
                   [] Event1.detail = "UNKNOWN" -> "uicc"
                   [] Event1.detail = "ISO_DEP" ->
                        IF devState = "ACTIVE" THEN "recv" ELSE "drain")
  /\ own' = Event1.session
  /\ LoopFrame

CbMsgHandleThrd == HandleThreadDelete \/ HandleOther \/ HandleDeactivated
                     \/ HandleCeDeactivated \/ HandleCeActivated

-----------------------------------------------------------------------------
(* phDtaLibi_HceOperations: receive a command, then transceive the answer  *)
(* and the next command until that fails; phMwIf_Transceive checks the     *)
(* device state before and after it sends.                                 *)

HceDisconnected ==
  /\ pc["dta"] \in {"reply", "sent"} /\ devState # "ACTIVE"
  /\ Goto("dta", "enabling")
  /\ UNCHANGED <<nfaVars, reqs, mwif, mwq, dtaq, own, mwUp>>

HceReply == devState = "ACTIVE" /\ Request("dta", "reply", "SEND", "sent")

HceReceive ==
  /\ pc["dta"] = "sent" /\ devState = "ACTIVE"
  /\ Goto("dta", "xcv")
  /\ UNCHANGED <<nfaVars, reqs, mwif, mwq, dtaq, own, mwUp>>

(* phDtaLibi_HceFOperations answers every CE_DATA; it succeeds at the end  *)
(* of the card emulation and fails when the link goes idle or a frame      *)
(* cannot be sent.  Every other event is freed.                            *)
(* Faulty variant: the end of the card emulation is freed like any other   *)
(* event.                                                                  *)
HceFMissesEnd ==
  /\ Pull("hcef") /\ Event1.kind = "CE_DEACTIVATED"
  /\ UNCHANGED <<pc, own>> /\ LoopFrame

HceFSuccess ==
  /\ Pull("hcef") /\ Event1.kind = "CE_DEACTIVATED"
  /\ Goto("dta", "stopping")
  /\ UNCHANGED own /\ LoopFrame

HceFIdle ==
  /\ Pull("hcef") /\ Event1.kind = "DEACTIVATED" /\ Event1.detail = "IDLE"
  /\ Goto("dta", "pull")
  /\ UNCHANGED own /\ LoopFrame

HceFReply ==
  /\ Pull("hcef") /\ Event1.kind = "CE_DATA" /\ devState = "ACTIVE"
  /\ reqs' = Append(reqs, "SEND")
  /\ UNCHANGED <<nfaVars, mwif, mwq, pc, own, mwUp>>

HceFDisconnected ==
  /\ Pull("hcef") /\ Event1.kind = "CE_DATA" /\ devState # "ACTIVE"
  /\ Goto("dta", "pull")
  /\ UNCHANGED own /\ LoopFrame

HceFSkip ==
  /\ Pull("hcef") /\ Event1.kind \notin {"CE_DATA", "CE_DEACTIVATED"}
  /\ ~(Event1.kind = "DEACTIVATED" /\ Event1.detail = "IDLE")
  /\ UNCHANGED <<pc, own>> /\ LoopFrame

(* phDtaLibi_UICCOperations waits for the link to go down.                 *)
(* Faulty variant: only a link that goes idle ends the card emulation.     *)
UiccNeedsIdle ==
  /\ Pull("uicc") /\ Event1.kind = "DEACTIVATED"
  /\ Goto("dta", IF Event1.detail = "IDLE" THEN "stopping" ELSE "uicc")
  /\ UNCHANGED own /\ LoopFrame

UiccDeactivated ==
  /\ Pull("uicc") /\ Event1.kind = "DEACTIVATED"
  /\ Goto("dta", "stopping")
  /\ UNCHANGED own /\ LoopFrame

UiccSkip ==
  /\ Pull("uicc") /\ Event1.kind # "DEACTIVATED"
  /\ UNCHANGED <<pc, own>> /\ LoopFrame

CardEmulation ==
  \/ HceDisconnected \/ HceReply \/ HceReceive
  \/ HceFSuccess \/ HceFIdle \/ HceFReply \/ HceFDisconnected \/ HceFSkip
  \/ UiccDeactivated \/ UiccSkip

-----------------------------------------------------------------------------
(* phDtaLib_DeInit: phMwIf_DeInit disables the stack and, when that is     *)
(* confirmed, destroys the middleware queue; its result is ignored.  Then  *)
(* the dummy event is pushed and the thread joined.                        *)

DeInit == session <= MaxReleased /\ Request("app", "up", "CONFIG", "limit")

StackDeInit == Request("app", "disabling", "DISABLE", "disable")

MwIfDestroy ==
  /\ pc["app"] = "destroying" /\ Goto("app", "pushing")
  /\ mwUp' = FALSE
  /\ UNCHANGED <<nfaVars, reqs, mwif, mwq, dtaq, own>>

(* Faulty variant: a full queue is not waited for.                         *)
PushThreadDeleteOnce ==
  /\ pc["app"] = "pushing"
  /\ dtaq' = IF Len(dtaq) < DtaLength
               THEN Append(dtaq, Event("THREAD_DELETE", "-")) ELSE dtaq
  /\ Goto("app", "joining")
  /\ UNCHANGED <<nfaVars, reqs, mwif, mwq, own, mwUp>>

PushThreadDelete ==
  /\ pc["app"] = "pushing" /\ Len(dtaq) < DtaLength
  /\ dtaq' = Append(dtaq, Event("THREAD_DELETE", "-"))
  /\ Goto("app", "joining")
  /\ UNCHANGED <<nfaVars, reqs, mwif, mwq, own, mwUp>>

ThreadDelete ==
  /\ pc["app"] = "joining" /\ pc["dta"] = "exit"
  /\ Goto("app", "down")
  /\ UNCHANGED <<nfaVars, reqs, mwif, mwq, dtaq, own, mwUp>>

App == DeInit \/ StackDeInit \/ MwIfDestroy \/ PushThreadDelete \/ ThreadDelete

-----------------------------------------------------------------------------
DtaThread == CbMsgHandleThrd \/ CardEmulation \/ Discovery \/ Wait("dta")
AppThread == App \/ Wait("app")

Next == Nfa \/ Callback \/ DtaThread \/ AppThread

Spec == Init /\ [][Next]_vars

(* Every thread is scheduled; a wait that finds nothing times out; a       *)
(* remote device leaves the field in the end.  Nothing makes one arrive or *)
(* send, and nothing makes the user interface call phDtaLib_DeInit.        *)
StackStep == NfaConfig \/ NfaStart \/ NfaStop \/ NfaSend \/ NfaDisable \/ Callback
FairSpec ==
  /\ Spec
  /\ WF_vars(StackStep) /\ WF_vars(DtaThread)
  /\ WF_vars(StackDeInit \/ MwIfDestroy \/ PushThreadDelete \/ ThreadDelete \/ Wait("app"))
  /\ SF_vars(RemoteLeaves)

-----------------------------------------------------------------------------
DtaPcs == {"pull", "hcef", "uicc", "recv", "drain", "xcv", "reply", "sent",
           "stopping", "stop", "resetting", "unconfig", "enabling", "config",
           "starting", "start", "started", "exit"}
AppPcs == {"up", "limit", "disabling", "disable", "destroying", "pushing",
           "joining", "down"}

TypeOK ==
  /\ rf \in AllProtocols \cup {"off", "disc", "gone"}
  /\ session \in 0..MaxSessions /\ frames \in 0..MaxFrames /\ owed \in BOOLEAN
  /\ reqs \in Seq({"CONFIG", "START", "STOP", "SEND", "DISABLE"})
  /\ {mwq, dtaq, out} \subseteq Seq(Events)
  /\ Len(mwq) <= MwLength /\ Len(dtaq) <= DtaLength
  /\ stage \in {"new", "mwq", "dtaq", "idle"} /\ (stage = "idle" <=> out = <<>>)
  /\ devState \in {"IDLE", "DISC", "ACTIVE"} /\ dataLast \in BOOLEAN
  /\ pc["dta"] \in DtaPcs /\ pc["app"] \in AppPcs
  /\ own \in 0..MaxSessions /\ mwUp \in BOOLEAN

(* A card emulation that pulls the DTA queue itself consumes the events of *)
(* the activation it was started for and never one of the next.            *)
SessionSeparation ==
  pc["dta"] \in {"hcef", "uicc"} /\ dtaq # <<>> /\ Head(dtaq).kind # "THREAD_DELETE"
    => Head(dtaq).session = own

Quiet ==
  /\ NfaIdle /\ reqs = <<>> /\ dtaq = <<>>
  /\ pc["dta"] = "pull" /\ pc["app"] = "up"

(* Whatever happened, when every event is handled the discovery runs.      *)
QuietMeansDiscovering == Quiet => rf # "off"

(* Every handler ends and the thread returns to its loop: no card          *)
(* emulation waits for an event that never comes, no request for an        *)
(* answer, and a full DTA queue that blocks the callback does no more than *)
(* delay it.  (A release ends the thread: see ThreadExitsUnlessNested.)    *)
LoopReturns == pc["dta"] # "pull" ~> pc["dta"] = "pull" \/ pc["app"] # "up"

(* "Pushing Dummy event to exit phDtaLibi_CbMsgHandleThrd thread"          *)
(* (phDTALib.c:194): once phDtaLib_DeInit pushes it the thread ends,       *)
(* whenever and however full the DTA queue is, unless the thread is or goes*)
(* into a card emulation that pulls the DTA queue itself and takes the     *)
(* event like any other: the join then waits for ever.                     *)
ThreadExitsUnlessNested ==
  pc["app"] = "pushing" ~> pc["dta"] \in {"exit", "hcef", "uicc"}
=============================================================================
