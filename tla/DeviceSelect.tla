---------------------------- MODULE DeviceSelect ----------------------------
(***************************************************************************)
(* The choice among several devices that one discovery found: the results  *)
(* the stack's callback collects, the integration thread of dtaMwAl that   *)
(* chooses one, and the thread of the library (the application or the DTA  *)
(* thread) that meanwhile restarts the discovery or releases the interface.*)
(*                                                                         *)
(* Both threads wait with PH_WAIT_FOR_CBACK_EVT on the one middleware      *)
(* queue and through the one global g_dwEvtType: a thread may take the     *)
(* answer of the other one, and the event a thread has pulled may be       *)
(* replaced before it is looked at.                                        *)
(*                                                                         *)
(* The controller and the stack are external.                              *)
(***************************************************************************)
EXTENDS Sequences, Naturals

CONSTANTS
  Discoveries,       (* sequences of protocols a discovery may find        *)
  SelectP2p,         (* selectP2pProtocol: prefer the first of two devices *)
  ChooseIsoDep,      (* release CR13 on Android 14: ISO_DEP, not NFC_DEP   *)
  MaxRounds,         (* bound: discoveries that find several devices, and  *)
                     (* restarts asked for by the library, together        *)
  MaxLate            (* bound: answers that come after the 5 s of the wait *)

ASSUME DeviceSelectAssumption ==
  /\ Discoveries \subseteq Seq(STRING) /\ \A d \in Discoveries : Len(d) \in 2..3
  /\ {SelectP2p, ChooseIsoDep} \subseteq BOOLEAN
  /\ MaxRounds \in Nat /\ MaxLate \in Nat

VARIABLES
  rf,        (* "off", "disc", "reporting", "host" (waits for the choice), *)
             (* "active" or "gone"                                         *)
  found,     (* devices the latest discovery has reported                  *)
  round,     (* discoveries that found several devices                     *)
  requests,  (* requests the stack has not processed                       *)
  out,       (* events it has not handed to the callback                   *)
  pushing,   (* is the callback about to push the first of them?           *)
  results,   (* gx_discovery_result: devices, by the index in the array    *)
  count,     (* Pgu_disoveredDeviceCount                                   *)
  notify,    (* gb_discovery_notify                                        *)
  sem,       (* pvSemIntgrnThrd                                            *)
  stop,      (* blStopIntegrationThrd                                      *)
  devState,  (* eDeviceState                                               *)
  mwq,       (* the middleware queue                                       *)
  evtType,   (* g_dwEvtType                                                *)
  pc,        (* where each thread is                                       *)
  choice,    (* the device the integration thread asked for last           *)
  pulled,    (* has the thread pulled an event it has not looked at?       *)
  restarts,  (* restarts asked for                                         *)
  late,      (* waits given up before their answer                         *)
  settled    (* was every discovery so far chosen from, with the selection *)
             (* over before the next one began?                            *)

stackVars == <<rf, found, round, requests, out, pushing>>
resultVars == <<results, count, notify>>
threadVars == <<pc, choice, pulled, evtType>>
vars == <<stackVars, resultVars, sem, stop, devState, mwq, threadVars, restarts, late, settled>>

MaxResults == 3 * MaxRounds
Threads == {"intg", "lib"}
NoDevice == [round |-> 0, protocol |-> "-"]

Event(k, d) == [kind |-> k, detail |-> d]

Init ==
  /\ rf = "disc" /\ found = <<>> /\ round = 0
  /\ requests = <<>> /\ out = <<>> /\ pushing = FALSE
  /\ results = [i \in 0..MaxResults |-> NoDevice] /\ count = 0 /\ notify = FALSE
  /\ sem = 0 /\ stop = FALSE /\ devState = "DISC" /\ mwq = <<>> /\ evtType = "-"
  /\ pc = [intg |-> "sem", lib |-> "up"] /\ pulled = [t \in Threads |-> FALSE]
  /\ choice = NoDevice /\ restarts = 0 /\ late = 0 /\ settled = TRUE

-----------------------------------------------------------------------------
(* The controller and the stack.                                           *)

Reported == {found[i] : i \in DOMAIN found}
NfaIdle == out = <<>>
Unseen == UNCHANGED <<resultVars, sem, stop, devState, mwq, threadVars, restarts, late, pushing>>

Discover ==
  /\ NfaIdle /\ rf = "disc" /\ round + restarts < MaxRounds
  /\ rf' = "reporting" /\ round' = round + 1 /\ found' = <<>>
  /\ settled' = (settled /\ ~notify /\ sem = 0 /\ pc["intg"] = "sem")
  /\ UNCHANGED <<requests, out>> /\ Unseen

(* The last device may be the last one the controller has room for.        *)
ReportDevice ==
  /\ NfaIdle /\ rf = "reporting"
  /\ \E d \in Discoveries :
       /\ Len(d) > Len(found) /\ \A i \in DOMAIN found : found[i].protocol = d[i]
       /\ found' = Append(found, [round |-> round, protocol |-> d[Len(found) + 1]])
       /\ rf' = IF Len(found') = Len(d) THEN "host" ELSE rf
       /\ \E more \in IF rf' = "host" THEN {"last", "limit"} ELSE {"more"} :
            out' = <<[kind |-> "DISC_RESULT", detail |-> more, device |-> found'[Len(found')]]>>
  /\ UNCHANGED <<round, requests, settled>> /\ Unseen

RemoteLeaves ==
  /\ NfaIdle /\ rf = "active" /\ rf' = "disc"
  /\ out' = <<Event("DEACTIVATED", "DISCOVERY")>>
  /\ UNCHANGED <<found, round, requests, settled>> /\ Unseen

Requested(r) ==
  /\ NfaIdle /\ rf # "gone" /\ requests # <<>>
  /\ Head(requests).kind = r /\ requests' = Tail(requests)

(* A device that is not waiting to be chosen is refused, with an answer or *)
(* without one; one that does not answer is reported as well.              *)
NfaSelect ==
  /\ Requested("SELECT")
  /\ \/ /\ rf = "host" /\ Head(requests).device \in Reported /\ rf' = "active"
        /\ out' = <<Event("SELECT_RESULT", "ok"), Event("ACTIVATED", "-")>>
     \/ out' = <<Event("SELECT_RESULT", "failed")>> /\ UNCHANGED rf
     \/ Head(requests).device \notin Reported /\ out' = <<>> /\ UNCHANGED rf
  /\ UNCHANGED <<found, round, settled>> /\ Unseen

NfaStop ==
  /\ Requested("STOP")
  /\ out' = (IF rf = "active" THEN <<Event("DEACTIVATED", "IDLE")>> ELSE <<>>)
              \o <<Event("STOPPED", "-")>>
  /\ rf' = "off" /\ settled' = (settled /\ rf \notin {"reporting", "host"})
  /\ UNCHANGED <<found, round>> /\ Unseen

NfaStart ==
  /\ Requested("START")
  /\ rf' = IF rf = "off" THEN "disc" ELSE rf
  /\ out' = <<Event("STARTED", "-")>>
  /\ UNCHANGED <<found, round, settled>> /\ Unseen

NfaAnswer ==
  /\ \E r \in {"CONFIG", "DISABLE"} :
       /\ Requested(r)
       /\ out' = <<Event(IF r = "CONFIG" THEN "CONFIGURED" ELSE "DISABLED", "-")>>
       /\ rf' = IF r = "DISABLE" THEN "gone" ELSE rf
  /\ UNCHANGED <<found, round, settled>> /\ Unseen

(* A stack that is disabled refuses every request.                         *)
NfaRefuse ==
  /\ rf = "gone" /\ requests # <<>> /\ requests' = Tail(requests)
  /\ UNCHANGED <<rf, found, round, out, settled>> /\ Unseen

Nfa == NfaSelect \/ NfaStop \/ NfaStart \/ NfaAnswer \/ NfaRefuse

-----------------------------------------------------------------------------
(* The callback phMwIfi_NfaConnCallback: what it keeps of the event, then  *)
(* the push to the middleware queue.  It wakes the integration thread      *)
(* before it pushes the last result.                                       *)

Final(e) == e.detail = "last" \/ (e.detail = "limit" /\ e.device.protocol = "T5T")
(* Faulty variant: activations are pushed as well.                         *)
PushActivationsToo(e) == IF e.kind = "DISC_RESULT" THEN Final(e) ELSE TRUE

PushToQReqd(e) == IF e.kind = "DISC_RESULT" THEN Final(e) ELSE e.kind # "ACTIVATED"

DeviceFound ==
  /\ out # <<>> /\ ~pushing /\ Head(out).kind = "DISC_RESULT"
  /\ LET e == Head(out) IN
       /\ results' = [results EXCEPT ![count] = e.device] /\ count' = count + 1
       /\ notify' = (notify \/ Final(e)) /\ sem' = IF Final(e) THEN sem + 1 ELSE sem
       /\ pushing' = PushToQReqd(e) /\ out' = IF PushToQReqd(e) THEN out ELSE Tail(out)
  /\ UNCHANGED <<rf, found, round, requests, stop, devState, mwq, threadVars, restarts, late, settled>>

(* The status of a selection is not looked at.                             *)
DeviceState(e) ==
  CASE e.kind \in {"SELECT_RESULT", "ACTIVATED"} -> "ACTIVE"
    [] e.kind = "DEACTIVATED" -> IF e.detail = "IDLE" THEN "IDLE" ELSE "DISC"
    [] OTHER -> devState

NotifyState ==
  /\ out # <<>> /\ ~pushing /\ Head(out).kind # "DISC_RESULT"
  /\ LET e == Head(out) IN
       /\ devState' = DeviceState(e)
       /\ count' = IF e.kind = "DEACTIVATED" /\ e.detail = "IDLE" THEN 0 ELSE count
       /\ pushing' = PushToQReqd(e) /\ out' = IF PushToQReqd(e) THEN out ELSE Tail(out)
  /\ UNCHANGED <<rf, found, round, requests, results, notify, sem, stop, mwq, threadVars, restarts, late, settled>>

PushMw ==
  /\ pushing /\ mwq' = Append(mwq, Head(out).kind)
  /\ pushing' = FALSE /\ out' = Tail(out)
  /\ UNCHANGED <<rf, found, round, requests, resultVars, sem, stop, devState, threadVars, restarts, late, settled>>

Callback == DeviceFound \/ NotifyState \/ PushMw

-----------------------------------------------------------------------------
(* Requests, and the wait for their answers.                               *)

Kept == UNCHANGED <<rf, found, round, out, pushing, settled>>
Quietly == Kept /\ UNCHANGED late

Sends == [select |-> "SELECT", stop |-> "STOP", unconfig |-> "CONFIG", config |-> "CONFIG",
          start |-> "START", limit |-> "CONFIG", disable |-> "DISABLE"]
Waits == [select |-> "SELECT_RESULT", stop |-> "STOPPED", unconfig |-> "CONFIGURED",
          config |-> "CONFIGURED", start |-> "STARTED", limit |-> "CONFIGURED",
          disable |-> "DISABLED"]
Waiting(t) == pc[t] \in DOMAIN Waits

Goto(t, to) ==
  /\ pc' = [pc EXCEPT ![t] = to]
  /\ requests' = IF to \notin DOMAIN Sends THEN requests
                 ELSE Append(requests, [kind |-> Sends[to], device |-> choice'])

Rest(t) == Goto(t, IF t = "intg" THEN "sem" ELSE "up")

(* The steps after the wait of a thread: ok, or an error or no answer.     *)
ResetDiscoveryConfig(t) == pc[t] = "stop" /\ Goto(t, "unconfig")
SetDiscoveryConfig(t) == pc[t] = "unconfig" /\ Goto(t, IF t = "intg" THEN "config" ELSE "off")
DiscoveryStart(t) == pc[t] = "config" /\ Goto(t, "start")
DiscoveryStarted(t, ok) == pc[t] = "start" /\ IF ok THEN Goto(t, "started") ELSE Rest(t)
StackDeInit(t, ok) ==
  \/ pc[t] = "limit" /\ Goto(t, "disable")
  \/ pc[t] = "disable" /\ Goto(t, IF ok THEN "halting" ELSE "failed")
DeviceSelected(t, ok) == pc[t] = "select" /\ Goto(t, IF ok THEN "selected" ELSE "ended")

Goon(t, ok) ==
  \/ ResetDiscoveryConfig(t) \/ SetDiscoveryConfig(t) \/ DiscoveryStart(t)
  \/ DiscoveryStarted(t, ok) \/ StackDeInit(t, ok) \/ DeviceSelected(t, ok)

WaitPull(t) ==
  /\ Waiting(t) /\ ~pulled[t] /\ mwq # <<>>
  /\ mwq' = Tail(mwq) /\ evtType' = Head(mwq) /\ pulled' = [pulled EXCEPT ![t] = TRUE]
  /\ UNCHANGED <<requests, resultVars, sem, stop, devState, pc, choice, restarts>> /\ Quietly

(* The wait gives up at a deactivation, except while the discovery stops,  *)
(* and drops what it does not wait for.  It reads the event's type twice:  *)
(* a deactivation the other thread has pulled in between goes unnoticed.   *)
WaitLook(t) ==
  /\ pulled[t] /\ pulled' = [pulled EXCEPT ![t] = FALSE]
  /\ UNCHANGED <<resultVars, sem, stop, devState, mwq, choice, evtType, restarts>> /\ Quietly
  /\ \/ evtType = Waits[pc[t]] /\ Goon(t, TRUE)
     \/ evtType = "DEACTIVATED" /\ pc[t] # "stop" /\ Goon(t, FALSE)
     \/ evtType \notin {Waits[pc[t]], "DEACTIVATED"} /\ UNCHANGED <<pc, requests>>
     \/ /\ evtType = "DEACTIVATED" /\ (pc[t] = "stop" \/ \E u \in Threads \ {t} : pulled[u])
        /\ UNCHANGED <<pc, requests>>

(* No event for 5 s: the stack has none to send, or sends it later.        *)
WaitTimeout(t) ==
  /\ Waiting(t) /\ ~pulled[t] /\ mwq = <<>>
  /\ IF requests = <<>> /\ out = <<>> THEN UNCHANGED late ELSE late < MaxLate /\ late' = late + 1
  /\ UNCHANGED <<resultVars, sem, stop, devState, mwq, choice, pulled, evtType, restarts>> /\ Kept
  /\ Goon(t, FALSE)

Wait(t) == WaitPull(t) \/ WaitLook(t) \/ WaitTimeout(t)

-----------------------------------------------------------------------------
(* phMwIf_DisableDiscovery and phMwIf_EnableDiscovery, in either thread.   *)

DiscoveryStop(t) ==
  /\ pc[t] = "stopping"
  /\ UNCHANGED <<resultVars, sem, stop, devState, choice, pulled, evtType, restarts>> /\ Quietly
  /\ \/ devState = "IDLE" /\ mwq' = <<>> /\ Goto(t, "unconfig")
     \/ devState # "IDLE" /\ UNCHANGED mwq /\ Goto(t, "stop")

EnableDiscovery(t) ==
  /\ pc[t] = "started" /\ Rest(t)
  /\ devState' = "DISC"
  /\ UNCHANGED <<resultVars, sem, stop, mwq, choice, pulled, evtType, restarts>> /\ Quietly

Discovery(t) == DiscoveryStop(t) \/ EnableDiscovery(t)

-----------------------------------------------------------------------------
(* phMwIfi_IntegrationThread and phMwIfi_SelectDevice.                     *)

IntegrationThread ==
  /\ pc["intg"] = "sem" /\ sem > 0 /\ sem' = sem - 1
  /\ UNCHANGED <<resultVars, stop, devState, mwq, choice, pulled, evtType, restarts>> /\ Quietly
  /\ Goto("intg", IF stop THEN "exit" ELSE IF notify THEN "choose" ELSE "sem")

(* The index the loop over the results ends with.                          *)
Chosen ==
  CASE count >= 1 /\ results[0].protocol \in {"ISO_DEP", "T5T"} -> 0
    [] count >= 2 /\ results[0].protocol \notin {"ISO_DEP", "T5T"} /\ results[1].protocol = "T3T"
         -> IF SelectP2p THEN 0 ELSE 1
    [] count >= 2 /\ results[0].protocol = "NFC_DEP" /\ results[1].protocol # "T3T"
         -> IF ChooseIsoDep THEN 1 ELSE 0
    [] OTHER -> count

SelectDevice ==
  /\ pc["intg"] = "choose" /\ choice' = results[Chosen] /\ Goto("intg", "select")
  /\ notify' = FALSE
  /\ UNCHANGED <<results, count, sem, stop, devState, mwq, pulled, evtType, restarts>> /\ Quietly

(* Faulty variant: the results are kept.                                   *)
SelectedKeepsCount ==
  /\ pc["intg"] = "selected"
  /\ UNCHANGED <<resultVars, sem, stop, devState, mwq, choice, pulled, evtType, restarts>> /\ Quietly
  /\ Goto("intg", IF choice.protocol \in {"NFC_DEP", "ISO_DEP"} THEN "stopping" ELSE "sem")

Selected ==
  /\ pc["intg"] = "selected" /\ count' = 0
  /\ UNCHANGED <<results, notify, sem, stop, devState, mwq, choice, pulled, evtType, restarts>> /\ Quietly
  /\ Goto("intg", IF choice.protocol \in {"NFC_DEP", "ISO_DEP"} THEN "stopping" ELSE "sem")

Integration == IntegrationThread \/ SelectDevice \/ Selected \/ Wait("intg") \/ Discovery("intg")

-----------------------------------------------------------------------------
(* The thread of the library: restarts the discovery, or releases.         *)

LibFrame == UNCHANGED <<resultVars, devState, mwq, choice, pulled, evtType>> /\ Quietly

DisableDiscovery ==
  /\ pc["lib"] = "up" /\ round + restarts < MaxRounds /\ restarts' = restarts + 1
  /\ UNCHANGED <<sem, stop>> /\ LibFrame /\ Goto("lib", "stopping")

EnableAgain ==
  /\ pc["lib"] = "off"
  /\ UNCHANGED <<sem, stop, restarts>> /\ LibFrame /\ Goto("lib", "config")

DeInit ==
  /\ pc["lib"] \in {"up", "off"}
  /\ UNCHANGED <<sem, stop, restarts>> /\ LibFrame /\ Goto("lib", "limit")

(* Faulty variant: the thread is woken and never told to stop.             *)
StopUntold ==
  /\ pc["lib"] = "halting" /\ sem' = sem + 1
  /\ UNCHANGED <<stop, restarts>> /\ LibFrame /\ Goto("lib", "joining")

StopThread ==
  /\ pc["lib"] = "halting" /\ stop' = TRUE /\ sem' = sem + 1
  /\ UNCHANGED restarts /\ LibFrame /\ Goto("lib", "joining")

Join ==
  /\ pc["lib"] = "joining" /\ pc["intg"] \in {"exit", "ended"}
  /\ UNCHANGED <<sem, stop, restarts>> /\ LibFrame /\ Goto("lib", "done")

Release == StopThread \/ Join
Library == DisableDiscovery \/ EnableAgain \/ DeInit \/ Release \/ Wait("lib") \/ Discovery("lib")

Next == Discover \/ ReportDevice \/ RemoteLeaves \/ Nfa \/ Callback \/ Integration \/ Library

(* The stack answers, both threads go on with what they have begun.        *)
Fairness ==
  /\ WF_vars(Nfa) /\ WF_vars(Callback) /\ WF_vars(Integration)
  /\ WF_vars(Release \/ Wait("lib") \/ Discovery("lib"))

Spec == Init /\ [][Next]_vars
FairSpec == Spec /\ Fairness

-----------------------------------------------------------------------------
(* Properties.                                                             *)

Kinds == {"DISC_RESULT", "SELECT_RESULT", "DEACTIVATED", "STOPPED", "STARTED", "CONFIGURED", "DISABLED"}

TypeOK ==
  /\ rf \in {"off", "disc", "reporting", "host", "active", "gone"}
  /\ count \in 0..MaxResults /\ sem \in 0..(MaxRounds + 1)
  /\ \A i \in DOMAIN mwq : mwq[i] \in Kinds
  /\ devState \in {"IDLE", "DISC", "ACTIVE"}
  /\ \A t \in Threads : pulled[t] => Waiting(t)

(* phMwIfi_SelectDevice chooses among what this discovery reported.        *)
Selecting == pc["intg"] = "choose" /\ pc'["intg"] = "select"

(* phMwIfAndroid.cpp:1993 says that phMwIfi_SelectDevice selects "one from *)
(* detected devices during discovery": as long as each discovery was over  *)
(* before the next one began and none was stopped before its choice.       *)
SelectsDetected == [][Selecting /\ settled => choice' \in Reported]_vars

(* The pairs the search knows: it ends at one of them.                     *)
Known ==
  \/ found[1].protocol \in {"ISO_DEP", "T5T", "NFC_DEP"}
  \/ found[2].protocol = "T3T"

(* Results of an earlier discovery are never chosen from, nor does the     *)
(* choice come too early, when one of the first two devices is of a        *)
(* protocol the search knows, each discovery was over before the next one  *)
(* began and none was stopped before its choice.                           *)
SelectsOfThisDiscovery == [][Selecting /\ settled /\ Known => choice' \in Reported]_vars

(* A notified discovery is chosen from, and phMwIf_DeInit's join returns,  *)
(* whatever events the two threads take from each other - unless the       *)
(* thread has ended because a selection failed.                            *)
ThreadServes ==
  /\ notify ~> ~notify \/ pc["intg"] \in {"exit", "ended"}
  /\ pc["lib"] = "joining" ~> pc["lib"] = "done"
=============================================================================
