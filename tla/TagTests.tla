------------------------------- MODULE TagTests -------------------------------
(***************************************************************************)
(* The tag and NFC-DEP tests of dtaLib over the middleware queue.          *)
(*                                                                         *)
(* A tag that is activated starts, inside the event loop of the DTA thread *)
(* (phDtaLibi_CbMsgHandleThrd), the test its type, the release of the test *)
(* specification and the pattern number select; a peer that is activated   *)
(* over NFC-DEP starts a loopback.  A test is a sequence of                *)
(* commands to the stack, each with a wait for its answer on the           *)
(* middleware queue; the first one that fails ends it.  Then it releases   *)
(* the tag, or the event loop stops and restarts the discovery.            *)
(*                                                                         *)
(* The tag may leave, answer with an error or not answer at all, a wait    *)
(* may give up before its answer comes, and the answers and deactivations  *)
(* nobody waited for stay in the queue that the next test's waits read.    *)
(* Queues, callback and wait are those of DtaEventLoop; the stack and the  *)
(* tag are external.  Frame contents are abstracted to the memory layout a *)
(* test finds and the NDEF message a T2T write test leaves on the tag.     *)
(***************************************************************************)
EXTENDS Integers, Sequences

CONSTANTS
  DtaLength,     (* capacity of the DTA queue                              *)
  MwLength,      (* capacity of the middleware queue                       *)
  Tests,         (* tests: type of tag, is the release CR12 or later,      *)
                 (* pattern number, layout its reads find                  *)
  MaxSessions    (* bound: activations                                     *)

(* NFC-DEP: the library polls, in passive or active mode, or listens.      *)
Dep == {"DEP_POLL", "DEP_POLL_ACTIVE", "DEP_LISTEN"}
TestRecords == [tag : {"T1T", "T2T", "T3T", "T4T", "T5T"} \cup Dep, cr12 : BOOLEAN,
                pattern : Nat, layout : STRING]

ASSUME TagAssumption ==
  /\ {DtaLength, MwLength} \subseteq Nat \ {0} /\ MaxSessions \in Nat
  /\ \A t \in Tests : t \in TestRecords

VARIABLES
  rf,         (* the controller: "off", "disc", "active" or "sleep"        *)
  tests,      (* the test of each activation so far                        *)
  mem,        (* blocks of the NDEF message on the tag                     *)
  spoiled,    (* was the tag written by another's test or a write refused? *)
  astray,     (* was it put to sleep or selected for another's test?       *)
  reqs,       (* requests sent to the stack and not yet processed          *)
  out,        (* events the stack reports, in order                        *)
  stage,      (* how far the callback got with Head(out)                   *)
  devState,   (* phMwIf_sHandle_t.eDeviceState                             *)
  compliant,  (* gb_device_ndefcompliant                                   *)
  dataLast,   (* was the callback's last event (Pgu_event) DATA?           *)
  mwq, dtaq,  (* the middleware queue and the DTA queue                    *)
  pc,         (* the DTA thread: "pull", or within the step Head(prog)     *)
  own,        (* activation whose test the DTA thread runs or ran last     *)
  prog,       (* steps the running handler has left                        *)
  late        (* did a wait give up with an answer on its way?             *)

tagVars == <<rf, tests, mem, spoiled, astray>>
cbVars == <<out, stage>>
mwif == <<devState, compliant, dataLast>>
dta == <<pc, own, prog, late>>
vars == <<tagVars, reqs, cbVars, mwif, mwq, dtaq, dta>>

session == Len(tests)
test == tests[own]

-----------------------------------------------------------------------------
(* What a test does: its steps, in order.                                  *)

Do(c) == [cmd |-> c, block |-> 0, to |-> "-"]
Dos(cs) == [i \in 1..Len(cs) |-> Do(cs[i])]
Times(n, c) == [i \in 1..n |-> Do(c)]
Write(b, v) == [cmd |-> "WRITE", block |-> b, to |-> v]
Writes(bs) == [i \in 1..Len(bs) |-> Write(bs[i], "new")]

(* The NDEF message in the layouts the T2T write test knows: the block     *)
(* that holds its length and the blocks that hold the rest.                *)
LengthBlock(l) == IF l = "12" THEN 5 ELSE 4
DataBlocks(l) == IF l = "12" THEN 6..14 ELSE 5..7
Blocks == 4..14

(* Faulty variant: the final length is written first.                      *)
NdefWriteLengthFirst(l) ==
  <<Write(LengthBlock(l), "new")>>
    \o [i \in 1..(IF l = "12" THEN 9 ELSE 3) |-> Write(LengthBlock(l) + i, "new")]

NdefWrite(l) ==
  <<Write(LengthBlock(l), "zero")>>
    \o [i \in 1..(IF l = "12" THEN 9 ELSE 3) |-> Write(LengthBlock(l) + i, "new")]
    \o <<Write(LengthBlock(l), "new")>>

T2TOperations(t) ==
  CASE t.pattern = 0 -> Times(2, "READ") \o Writes(<<4, 5, 6, 7, 8, 9, 4>>)
    [] t.pattern = 1 ->
         Times(CASE t.layout \in {"06", "FE"} -> 2 [] t.layout = "12" -> 11
                 [] OTHER -> 1, "READ")
    [] t.pattern = 2 ->
         CASE t.layout \in {"06", "FE"} -> Times(2, "READ") \o NdefWrite(t.layout)
           [] t.layout = "12" -> Times(3, "READ") \o NdefWrite(t.layout)
           [] OTHER -> Times(2, "READ")
    [] t.pattern = 3 ->
         CASE t.layout = "06" -> Times(2, "READ") \o Writes(<<3, 2>>)
           [] t.layout = "FE" -> Times(3, "READ") \o Writes(<<3, 2>>)
                                   \o <<Do("SECTOR")>> \o Times(8, "RAW")
           [] t.layout = "12" -> Times(3, "READ") \o Writes(<<3, 2, 40>>)
           [] OTHER -> <<Do("READ")>>
    [] OTHER -> <<>>

(* Read, write and read-only tests over the NDEF operations of the stack.  *)
NdefOperations(p) ==
  CASE p = 1 -> Dos(<<"CHECK", "READ_NDEF">>)
    [] p = 2 -> Dos(<<"CHECK", "WRITE_NDEF">>)
    [] p = 3 -> Dos(<<"CHECK", "SET_RO">>)
    [] OTHER -> <<>>

T1TOperations(t) ==
  IF t.pattern \in 1..3 THEN NdefOperations(t.pattern) ELSE <<Do("CHECK")>>

AnalogPattern == 4096

T3TOperations(t) ==
  LET MinBlockCheck == Dos(<<"XCV", "XCV", "RAW">>)
  IN CASE t.pattern = 1 -> Times(IF t.layout = "old version" THEN 2 ELSE 3, "XCV")
       [] t.pattern = 2 -> Times(IF t.layout = "as expected" THEN 5 ELSE 2, "XCV")
       [] t.pattern \in {3, 4, 6, 7, 8, AnalogPattern} -> <<Do("POLL")>> \o MinBlockCheck
       [] t.pattern = 5 -> <<Do("POLL")>> \o Times(4, "XCV") \o <<Do("RAW")>>
       [] t.pattern \in {14, 15} -> <<Do("POLL")>>
       [] OTHER -> <<>>

T3TOperations_DynamicExecution(t) ==
  IF t.pattern \in {0, 4, 5, 6, 7, 8, 10, 11, AnalogPattern}
    THEN <<Do("CHECK")>> ELSE NdefOperations(t.pattern)

T4TOperations(t) ==
  CASE t.pattern \in {0, 7} -> <<Do("LOOP")>>
    [] t.pattern \in {1, 2} -> NdefOperations(t.pattern)
    [] OTHER -> <<>>

T4TOperations_DynamicExecution(t) ==
  CASE t.pattern \in {0, 7} -> <<Do("LOOP")>>
    [] t.pattern \in {1, 17} -> NdefOperations(1)
    [] t.pattern \in {2, 18} -> NdefOperations(2)
    [] OTHER -> <<>>

T5TOperations_DynamicExecution(t) ==
  CASE t.pattern \in {1, 17, 33} -> <<Do("I93")>> \o NdefOperations(1)
    [] t.pattern = 2 -> <<Do("I93")>> \o NdefOperations(2)
    [] t.pattern = 18 -> NdefOperations(2)
    [] t.pattern = 3 -> <<Do("I93")>> \o NdefOperations(3)
    [] t.pattern = 49 -> Dos(<<"I93", "SLEEP", "SELECT", "I93", "CHECK">>)
    [] OTHER -> <<>>

NfcdepTargetOperations == <<Do("LOOP")>>
NfcdepInitiatorOperations == Dos(<<"RECEIVE", "LOOP">>)

Body(t) ==
  CASE t.tag = "T1T" -> IF t.cr12 THEN NdefOperations(t.pattern) ELSE T1TOperations(t)
    [] t.tag = "T2T" -> IF t.cr12 THEN NdefOperations(t.pattern) ELSE T2TOperations(t)
    [] t.tag = "T3T" -> IF t.cr12 THEN T3TOperations_DynamicExecution(t) ELSE T3TOperations(t)
    [] t.tag = "T4T" -> IF t.cr12 THEN T4TOperations_DynamicExecution(t) ELSE T4TOperations(t)
    [] t.tag = "T5T" -> IF t.cr12 THEN T5TOperations_DynamicExecution(t) ELSE <<>>
    [] t.tag = "DEP_LISTEN" -> NfcdepInitiatorOperations
    [] OTHER -> NfcdepTargetOperations

(* How a test ends: it releases the tag, or the event loop stops and       *)
(* restarts the discovery ("STARTED" is the end of phMwIf_EnableDiscovery).*)
(* Faulty variant: the test leaves the tag to the next one.                *)
ReleaseMissing == <<Do("CONSUME")>>

(* Faulty variant: the discovery is restarted without having been stopped. *)
RestartWithoutStop == Dos(<<"CONFIG", "CONFIG", "START", "STARTED">>)

Release == <<Do("DEACTIVATE")>>
Restart == Dos(<<"STOP", "CONFIG", "CONFIG", "START", "STARTED">>)

Ending(t) ==
  CASE t.tag = "T5T" -> IF t.cr12 THEN <<Do("CONSUME")>> \o Release ELSE Restart
    [] t.tag = "T4T" /\ ~t.cr12 -> IF t.pattern \in {0, 7} THEN Release ELSE Restart
    [] t.tag = "T3T" ->
         IF ~t.cr12 /\ t.pattern \in {7, 8, AnalogPattern} THEN Release ELSE Restart
    [] t.tag \in Dep -> Restart
    [] OTHER -> Release

(* What is left of the handler when a step failed: the results of          *)
(* releasing, sleeping, selecting and stopping are not looked at.          *)
(* Faulty variant: a failed frame of a loopback is sent again.             *)
LoopForever(t, c) == IF c = "LOOP" THEN prog ELSE Tail(prog)

OnFailure(t, c) ==
  CASE c \in {"SLEEP", "SELECT", "CONSUME", "DEACTIVATE", "STOP", "CONFIG"} -> Tail(prog)
    [] c = "START" -> <<>>
    [] t.tag = "T1T" /\ ~t.cr12 /\ c \in {"CHECK", "READ_NDEF"} -> <<>>
    [] c = "POLL" /\ t.pattern \in {3, 6} -> <<Do("XCV")>> \o Restart
    [] c \in {"RECEIVE", "CE_RECEIVE"}
         \/ (c = "LOOP" /\ (t.tag = "DEP_POLL_ACTIVE" \/ (t.tag = "DEP_POLL" /\ t.cr12))) -> <<>>
    [] OTHER -> IF t.tag \in {"T3T", "T4T"} /\ ~t.cr12 THEN Restart ELSE Ending(t)

(* The status of a listening loopback is gx_status, whatever failed; that  *)
(* of a T3T test below CR12 may have been written again: see OnSuccess.    *)
OnFailures(t, c) ==
  {OnFailure(t, c)}
    \cup (IF t.tag = "DEP_LISTEN" /\ c = "LOOP" THEN {<<>>} ELSE {})
    \cup (IF t.tag = "T3T" /\ ~t.cr12 /\ c = "XCV" THEN {Tail(prog)} ELSE {})

(* Where a loopback goes on when its frame was answered: again, or it ends *)
(* as the frame demands.                                                   *)
Looped(t) ==
  CASE t.tag = "T4T" -> {prog, Tail(prog), OnFailure(t, "LOOP")}
    [] t.tag = "DEP_LISTEN" -> {prog, Restart, <<>>}
    [] OTHER -> {prog, Dos(<<"SLEEP", "DEACTIVATE">>) \o Restart, Release}

(* What may follow a step that succeeded.  The library and the middleware  *)
(* both define a global gx_status, which the dynamic linker makes one: when*)
(* a T3T test below CR12 tests it, a callback may have written it again.   *)
OnSuccess(t, c) ==
  CASE c = "LOOP" -> Looped(t)
    [] c = "RECEIVE" -> {Tail(prog), Restart, <<>>}
    [] t.tag = "T3T" /\ ~t.cr12 /\ c \in {"XCV", "RAW"} -> {Tail(prog), Restart}
    [] OTHER -> {Tail(prog)}

-----------------------------------------------------------------------------
(* Events, and the requests and answers of each step.                      *)

Transceives == {"XCV", "POLL", "LOOP"}
Answers == [CHECK |-> "NDEF_DETECT", READ_NDEF |-> "READ_CPLT",
            WRITE_NDEF |-> "WRITE_CPLT", SET_RO |-> "SET_TAG_RO",
            READ |-> "READ_CPLT", WRITE |-> "WRITE_CPLT",
            SECTOR |-> "SELECT_CPLT", I93 |-> "I93_CMD_CPLT",
            XCV |-> "DATA", POLL |-> "DATA", LOOP |-> "DATA",
            SLEEP |-> "DEACTIVATED", CONSUME |-> "DEACTIVATED",
            DEACTIVATE |-> "DEACTIVATED", SELECT |-> "SELECT_RESULT",
            RECEIVE |-> "DATA", CE_RECEIVE |-> "CE_DATA", STOP |-> "STOPPED", CONFIG |-> "CONFIGURED", START |-> "STARTED"]
TagCommands == {"CHECK", "READ_NDEF", "WRITE_NDEF", "SET_RO", "READ", "WRITE",
                "SECTOR", "I93", "RAW"} \cup Transceives
Commands == DOMAIN Answers \cup {"RAW", "STARTED"}

Kinds == {Answers[c] : c \in DOMAIN Answers}
           \cup {"ACTIVATED", "INTF_ERROR", "DEACTIVATE_FAIL"}

(* An event: its kind, its status or the type of deactivation, and the     *)
(* activation it belongs to.                                               *)
Event(k, d) == [kind |-> k, detail |-> d, session |-> session]
Events == [kind : Kinds, detail : {"IDLE", "SLEEP", "DISCOVERY", "ok", "refused"},
           session : 0..MaxSessions]

Init ==
  /\ rf = "disc" /\ tests = <<>> /\ mem = [b \in Blocks |-> "old"] /\ spoiled = FALSE /\ astray = FALSE
  /\ reqs = <<>> /\ out = <<>> /\ stage = "idle"
  /\ devState = "DISC" /\ compliant = FALSE /\ dataLast = FALSE
  /\ mwq = <<>> /\ dtaq = <<>>
  /\ pc = "pull" /\ own = 0 /\ prog = <<>> /\ late = FALSE

-----------------------------------------------------------------------------
(* The tag, the controller and the stack: external.                        *)

NfaIdle == out = <<>>
Report(es) == out' = es /\ stage' = IF es = <<>> THEN "idle" ELSE "new"
QueuesFrame == UNCHANGED <<mwif, mwq, dtaq, dta>>

Activation == [kind |-> "ACTIVATED", detail |-> "ok", session |-> session + 1]

NewTag == mem' = [b \in Blocks |-> "old"] /\ spoiled' = FALSE /\ astray' = FALSE

(* A polling peer may send its first frame.                                *)
Activate ==
  /\ NfaIdle /\ rf = "disc" /\ session < MaxSessions
  /\ rf' = "active"
  /\ \E t \in Tests :
       /\ tests' = Append(tests, t)
       /\ \/ Report(<<Activation>>)
          \/ t.tag = "DEP_LISTEN" /\ Report(<<Activation, [Activation EXCEPT !.kind = "DATA"]>>)
  /\ NewTag
  /\ UNCHANGED reqs /\ QueuesFrame

RemoteLeaves ==
  /\ NfaIdle /\ rf = "active"
  /\ rf' = "disc"
  /\ Report(<<Event("DEACTIVATED", "DISCOVERY")>>)
  /\ UNCHANGED <<tests, mem, spoiled, astray, reqs>> /\ QueuesFrame

Request(r) == NfaIdle /\ reqs # <<>> /\ Head(reqs) = r /\ reqs' = Tail(reqs)
Requested(cs) == reqs # <<>> /\ Head(reqs).cmd \in cs /\ Request(Head(reqs))

Answer(status) ==
  LET c == Head(reqs).cmd
  IN IF c = "READ" /\ status = "ok"
       THEN <<Event("DATA", "ok"), Event("READ_CPLT", "ok")>>
       ELSE <<Event(Answers[c], status)>>

Writing == Head(reqs).cmd \in {"WRITE", "WRITE_NDEF"}
OfAnother == Head(reqs).session # session

Execute ==
  /\ Requested(TagCommands) /\ rf = "active"
  /\ Report(IF Head(reqs).cmd = "RAW" THEN <<>> ELSE Answer("ok"))
  /\ mem' = IF Head(reqs).cmd = "WRITE" /\ Head(reqs).block \in Blocks
               THEN [mem EXCEPT ![Head(reqs).block] = Head(reqs).to] ELSE mem
  /\ spoiled' = (spoiled \/ (Writing /\ OfAnother))
  /\ UNCHANGED <<rf, tests, astray>> /\ QueuesFrame

(* The stack answers that the tag refused the command or is gone; a frame  *)
(* sent as it is gets no answer then.                                      *)
Refuse ==
  /\ Requested(TagCommands)
  /\ Report(IF Head(reqs).cmd \in {"RAW"} \cup Transceives THEN <<>> ELSE Answer("refused"))
  /\ spoiled' = (spoiled \/ (Writing /\ rf = "active"))
  /\ UNCHANGED <<rf, tests, mem, astray>> /\ QueuesFrame

(* The controller reports an error of the link and goes back to discovery. *)
LinkError ==
  /\ Requested(TagCommands) /\ rf = "active"
  /\ Report(<<Event("INTF_ERROR", "refused"), Event("DEACTIVATED", "DISCOVERY")>>)
  /\ rf' = "disc"
  /\ UNCHANGED <<tests, mem, spoiled, astray>> /\ QueuesFrame

Deactivate ==
  /\ Requested({"DEACTIVATE", "SLEEP"})
  /\ IF rf = "active" \/ (rf = "sleep" /\ Head(reqs).cmd = "DEACTIVATE")
       THEN /\ rf' = IF Head(reqs).cmd = "SLEEP" THEN "sleep" ELSE "disc"
            /\ Report(<<Event("DEACTIVATED", IF Head(reqs).cmd = "SLEEP" THEN "SLEEP" ELSE "DISCOVERY")>>)
       ELSE /\ UNCHANGED rf
            /\ Report(<<Event("DEACTIVATE_FAIL", "refused")>>)
  /\ astray' = (astray \/ (Head(reqs).cmd = "SLEEP" /\ OfAnother))
  /\ UNCHANGED <<tests, mem, spoiled>> /\ QueuesFrame

(* The tag that is selected is activated like any other.                   *)
Select ==
  /\ Requested({"SELECT"})
  /\ \/ /\ rf = "sleep" /\ session < MaxSessions
        /\ rf' = "active" /\ tests' = Append(tests, tests[session])
        /\ NewTag
        /\ Report(<<Event("SELECT_RESULT", "ok"), Activation>>)
     \/ /\ Report(<<Event("SELECT_RESULT", "refused")>>)
        /\ astray' = (astray \/ OfAnother)
        /\ UNCHANGED <<rf, tests, mem, spoiled>>
  /\ QueuesFrame

StopDiscovery ==
  /\ Requested({"STOP"})
  /\ Report((IF rf = "active" THEN <<Event("DEACTIVATED", "IDLE")>> ELSE <<>>)
              \o <<Event("STOPPED", "ok")>>)
  /\ rf' = "off"
  /\ UNCHANGED <<tests, mem, spoiled, astray>> /\ QueuesFrame

Configure ==
  /\ Requested({"CONFIG"}) /\ Report(<<Event("CONFIGURED", "ok")>>)
  /\ UNCHANGED tagVars /\ QueuesFrame

StartDiscovery ==
  /\ Requested({"START"}) /\ Report(<<Event("STARTED", "ok")>>)
  /\ rf' = IF rf = "off" THEN "disc" ELSE rf
  /\ UNCHANGED <<tests, mem, spoiled, astray>> /\ QueuesFrame

NfaStep == Execute \/ Refuse \/ LinkError \/ Deactivate \/ Select
             \/ StopDiscovery \/ Configure \/ StartDiscovery
Nfa == Activate \/ RemoteLeaves \/ NfaStep

-----------------------------------------------------------------------------
(* The callback phMwIfi_NfaConnCallback with phDtaLibi_EvtCb at its end.   *)

CbFrame == UNCHANGED <<tagVars, reqs, dta>>

Reported ==
  /\ out' = Tail(out)
  /\ stage' = IF Tail(out) = <<>> THEN "idle" ELSE "new"

(* A result of a selection makes the device active whatever its status is; *)
(* a tag that is put to sleep stays active.                                *)
DeviceState(e) ==
  CASE e.kind \in {"ACTIVATED", "SELECT_RESULT"} -> "ACTIVE"
    [] e.kind = "DEACTIVATED" /\ e.detail = "IDLE" -> "IDLE"
    [] e.kind = "DEACTIVATED" /\ e.detail = "DISCOVERY" -> "DISC"
    [] OTHER -> devState

NotifyState ==
  /\ stage = "new"
  /\ devState' = DeviceState(Head(out))
  /\ compliant' = CASE Head(out).kind = "NDEF_DETECT" -> Head(out).detail = "ok"
                     [] Head(out).kind = "DEACTIVATED" -> FALSE
                     [] OTHER -> compliant
  /\ dataLast' = (Head(out).kind = "DATA")
  /\ stage' = IF Head(out).kind = "ACTIVATED" THEN "dtaq" ELSE "mwq"
  /\ UNCHANGED <<out, mwq, dtaq>> /\ CbFrame

PushMw ==
  /\ stage = "mwq" /\ Len(mwq) < MwLength
  /\ mwq' = Append(mwq, Head(out))
  /\ IF Head(out).kind = "DEACTIVATED" THEN stage' = "dtaq" /\ UNCHANGED out ELSE Reported
  /\ UNCHANGED <<mwif, dtaq>> /\ CbFrame

(* Faulty variant: the callback pushes to a full queue.                    *)
EvtCbUnbounded ==
  /\ stage = "dtaq"
  /\ dtaq' = Append(dtaq, Head(out))
  /\ Reported
  /\ UNCHANGED <<mwif, mwq>> /\ CbFrame

EvtCb ==
  /\ stage = "dtaq" /\ Len(dtaq) < DtaLength
  /\ dtaq' = Append(dtaq, Head(out))
  /\ Reported
  /\ UNCHANGED <<mwif, mwq>> /\ CbFrame

Callback == NotifyState \/ PushMw \/ EvtCb

-----------------------------------------------------------------------------
(* The event loop: a tag starts its test; a deactivation outside the LLCP  *)
(* patterns needs nothing.                                                 *)

DtaFrame == UNCHANGED <<tagVars, cbVars>>

(* The handler goes on with the steps p, or the loop with the next event.  *)
GoOn(p) == prog' = p /\ pc' = IF p = <<>> THEN "pull" ELSE "run"

HandleActivated ==
  /\ pc = "pull" /\ dtaq # <<>> /\ Head(dtaq).kind = "ACTIVATED"
  /\ dtaq' = Tail(dtaq)
  /\ own' = Head(dtaq).session
  /\ LET t == tests[Head(dtaq).session] IN GoOn(Body(t) \o Ending(t))
  /\ UNCHANGED <<reqs, mwif, mwq, late>> /\ DtaFrame

HandleDeactivated ==
  /\ pc = "pull" /\ dtaq # <<>> /\ Head(dtaq).kind = "DEACTIVATED"
  /\ dtaq' = Tail(dtaq)
  /\ UNCHANGED <<reqs, mwif, mwq, dta>> /\ DtaFrame

CbMsgHandleThrd == HandleActivated \/ HandleDeactivated

-----------------------------------------------------------------------------
(* One step of a test: send the request, then wait for its answer.         *)

Cmd == Head(prog).cmd
Step(c) == pc = "run" /\ Cmd = c
StepFrame == UNCHANGED <<own, dtaq, late>> /\ DtaFrame

(* A frame is not sent to a device that is not active.                     *)
Disconnected ==
  /\ pc = "run" /\ Cmd \in Transceives \cup {"RAW"} /\ devState # "ACTIVE"
  /\ \E p \in IF Cmd = "RAW" /\ test.tag = "T3T" THEN OnSuccess(test, Cmd)
                                                 ELSE OnFailures(test, Cmd) : GoOn(p)
  /\ UNCHANGED <<reqs, mwif, mwq>> /\ StepFrame

(* phMwIf_NfcDeactivate: nothing to do when the discovery runs already.    *)
DeactivatedAlready ==
  /\ Step("DEACTIVATE") /\ devState = "DISC"
  /\ GoOn(Tail(prog))
  /\ UNCHANGED <<reqs, mwif, mwq>> /\ StepFrame

(* phMwIfi_DiscoveryStop: nothing to stop, the queue is flushed.           *)
StopIdle ==
  /\ Step("STOP") /\ devState = "IDLE"
  /\ mwq' = <<>> /\ GoOn(Tail(prog))
  /\ UNCHANGED <<reqs, mwif>> /\ StepFrame

EnableDiscovery ==
  /\ Step("STARTED")
  /\ devState' = "DISC" /\ GoOn(Tail(prog))
  /\ UNCHANGED <<reqs, compliant, dataLast, mwq>> /\ StepFrame

ConsumeDeactivated ==
  /\ Step("CONSUME") /\ pc' = "wait"
  /\ UNCHANGED <<prog, reqs, mwif, mwq>> /\ StepFrame

(* phMwIf_ReceiveData: from a peer that has gone it waits for an event of  *)
(* card emulation, and fails.                                              *)
ReceiveData ==
  /\ Step("RECEIVE") /\ pc' = "wait"
  /\ prog' = IF devState = "ACTIVE" THEN prog ELSE <<Do("CE_RECEIVE")>>
  /\ UNCHANGED <<reqs, mwif, mwq>> /\ StepFrame

Sent ==
  reqs' = Append(reqs, [cmd |-> Cmd, block |-> Head(prog).block,
                        to |-> Head(prog).to, session |-> own])

Send ==
  /\ pc = "run" /\ Cmd \notin Transceives \cup {"RAW", "STARTED", "CONSUME", "RECEIVE"}
  /\ ~(Cmd = "DEACTIVATE" /\ devState = "DISC") /\ ~(Cmd = "STOP" /\ devState = "IDLE")
  /\ Sent /\ pc' = "wait"
  /\ UNCHANGED <<prog, mwif, mwq>> /\ StepFrame

(* phMwIf_SendRawFrame; phMwIf_Transceive looks at the device again before *)
(* it waits.                                                               *)
SendRawFrame ==
  /\ Step("RAW") /\ devState = "ACTIVE"
  /\ Sent /\ \E p \in OnSuccess(test, Cmd) : GoOn(p)
  /\ UNCHANGED <<mwif, mwq>> /\ StepFrame

Transceive ==
  /\ pc = "run" /\ Cmd \in Transceives /\ devState = "ACTIVE"
  /\ Sent /\ pc' = "sent"
  /\ UNCHANGED <<prog, mwif, mwq>> /\ StepFrame

TransceiveSent ==
  /\ pc = "sent"
  /\ \/ devState = "ACTIVE" /\ pc' = "wait" /\ UNCHANGED prog
     \/ devState # "ACTIVE" /\ \E p \in OnFailures(test, Cmd) : GoOn(p)
  /\ UNCHANGED <<reqs, mwif, mwq>> /\ StepFrame

(* After the wait: an NDEF check fails on a tag that is not compliant, a   *)
(* transceive when the device has gone or the callback's last event brought*)
(* no data.                                                                *)
Succeeded ==
  /\ Cmd = "CHECK" => compliant
  /\ Cmd \in Transceives \cup {"RECEIVE"} => dataLast /\ devState = "ACTIVE"

Answered == \E p \in IF Succeeded THEN OnSuccess(test, Cmd) ELSE OnFailures(test, Cmd) : GoOn(p)

(* PH_WAIT_FOR_CBACK_EVT gives up at a deactivation unless it waits for it *)
(* or for the stop, and at an error of the link; the transceive of CR12    *)
(* and later waits with PH_WAIT_FOR_CBACK_EVT2, which drops that error.    *)
WaitPull == pc = "wait" /\ mwq # <<>> /\ mwq' = Tail(mwq)
Got == Head(mwq).kind = Answers[Cmd]
Aborts ==
  /\ Cmd # "STOP"
  /\ \/ Head(mwq).kind = "DEACTIVATED" /\ Answers[Cmd] # "DEACTIVATED"
     \/ Head(mwq).kind = "INTF_ERROR" /\ ~(Cmd \in Transceives /\ test.cr12)
WaitFrame == UNCHANGED <<reqs, mwif, own, dtaq>> /\ DtaFrame

WaitGot == WaitPull /\ Got /\ Answered /\ UNCHANGED late /\ WaitFrame

WaitDrop == WaitPull /\ ~Got /\ ~Aborts /\ UNCHANGED <<pc, prog, late>> /\ WaitFrame

WaitAbort ==
  WaitPull /\ Aborts /\ (\E p \in OnFailures(test, Cmd) : GoOn(p)) /\ UNCHANGED late /\ WaitFrame

WaitTimeout ==
  /\ pc = "wait" /\ mwq = <<>>
  /\ \E p \in OnFailures(test, Cmd) : GoOn(p)
  /\ late' = (late \/ reqs # <<>> \/ ~NfaIdle)
  /\ UNCHANGED mwq /\ WaitFrame

Wait == WaitGot \/ WaitDrop \/ WaitAbort \/ WaitTimeout

TestStep == Disconnected \/ DeactivatedAlready \/ StopIdle \/ EnableDiscovery
              \/ ConsumeDeactivated \/ ReceiveData \/ Send \/ SendRawFrame \/ Transceive \/ TransceiveSent

-----------------------------------------------------------------------------
DtaThread == CbMsgHandleThrd \/ TestStep \/ Wait

Next == Nfa \/ Callback \/ DtaThread

Spec == Init /\ [][Next]_vars

(* The stack answers and its callback returns while there is room, the DTA *)
(* thread is scheduled, waits time out, and a tag leaves in the end.       *)
FairSpec ==
  Spec /\ WF_vars(NfaStep \/ Callback) /\ WF_vars(DtaThread) /\ SF_vars(RemoteLeaves)

-----------------------------------------------------------------------------
TypeOK ==
  /\ rf \in {"off", "disc", "active", "sleep"}
  /\ session <= MaxSessions /\ \A i \in 1..session : tests[i] \in Tests
  /\ mem \in [Blocks -> {"old", "zero", "new"}] /\ {spoiled, astray} \subseteq BOOLEAN
  /\ \A i \in 1..Len(reqs) : reqs[i].cmd \in Commands /\ reqs[i].session \in 1..session
  /\ {out, mwq, dtaq} \subseteq Seq(Events)
  /\ Len(mwq) <= MwLength /\ Len(dtaq) <= DtaLength
  /\ stage \in {"new", "mwq", "dtaq", "idle"} /\ (stage = "idle" <=> out = <<>>)
  /\ devState \in {"IDLE", "DISC", "ACTIVE"}
  /\ {compliant, dataLast, late} \subseteq BOOLEAN
  /\ pc \in {"pull", "run", "sent", "wait"} /\ (pc = "pull" <=> prog = <<>>)
  /\ own \in 0..session

(* Whatever step a T2T write test stops at, whoever stops it, the tag never*)
(* shows a message that is half the old and half the new one under a length*)
(* that says it is whole; unless the tag refused a write or another test   *)
(* wrote to it.                                                            *)
NdefWhole ==
  ~spoiled /\ session > 0 /\ tests[session].tag = "T2T" /\ ~tests[session].cr12
           /\ tests[session].pattern = 2
    => LET l == tests[session].layout
       IN mem[LengthBlock(l)] # "zero" =>
            \A b \in DataBlocks(l) : mem[b] = mem[LengthBlock(l)]

Quiet == NfaIdle /\ reqs = <<>> /\ dtaq = <<>> /\ pc = "pull"

(* When every event is handled the discovery runs, or a tag is active that *)
(* came while eDeviceState was being written (phMwIfAndroid.cpp:798): no   *)
(* test leaves the discovery stopped, nor a tag activated or asleep, but   *)
(* for the T1T tests below CR12, which return before phMwIf_NfcDeactivate  *)
(* when a command fails (phDTA_T1TTest.c:253, 271), and for an NFC-DEP     *)
(* loopback that failed: phDTALib.c:992-1032 leaves its peer to itself.  A *)
(* tag put to sleep stays asleep only when a wait gave up before its       *)
(* answer came.  The exception: waits that took old deactivations for their*)
(* own may let a test end before its requests to sleep and to select are   *)
(* processed, which then meet the next tag.                                *)
ReleasedAfterTest ==
  Quiet => \/ rf = "disc" \/ (rf = "active" /\ devState # "ACTIVE")
           \/ rf # "off" /\ (astray \/ (test.tag = "T1T" /\ ~test.cr12))
           \/ rf = "active" /\ test.tag \in Dep
           \/ rf = "sleep" /\ late

(* A restart of the discovery leaves no deactivation of an earlier         *)
(* activation in the queue, unless a wait gave up too early.               *)
RestartedClean ==
  Step("STARTED") /\ ~late =>
    \A i \in 1..Len(mwq) : ~(mwq[i].kind = "DEACTIVATED" /\ mwq[i].session <= own)

(* Every test ends, and the thread is ready for the next tag.              *)
TestsEnd == pc # "pull" ~> pc = "pull"

(* "DEACTIVATE_EVT will get queued to MwIf queue which has to be consumed  *)
(* otherwise next test case will consume resulting test case failure"      *)
(* (phDTA_T5TTest.c:833-835): even when no wait gives up too early, no test  *)
(* fails on the deactivation of an earlier activation.                     *)
NextTestUndisturbed ==
  ~late /\ pc = "wait" /\ mwq # <<>> /\ Head(mwq).kind = "DEACTIVATED" /\ Head(mwq).session < own
    => ~Aborts
=============================================================================
