-------------------------------- MODULE LlcpEcho --------------------------------
(***************************************************************************)
(* The connection-oriented LLCP loopback of the DTA library.               *)
(*                                                                         *)
(* A remote client connects to the local server; the library then connects *)
(* to the remote server and sends every PDU it receives back to it.  While *)
(* that data link is congested the PDUs wait in a second queue, the        *)
(* backlog (qHdlCongestData).                                              *)
(*                                                                         *)
(* The stack's thread runs phDtaLibi_LlcpEvtCb: it sets the flags of the   *)
(* handle at once, without a lock, and pushes the event to the DTA queue;  *)
(* so the DTA thread reads flags that are ahead of the event it handles.   *)
(* Only the DTA thread touches the backlog, whose pushes and pulls are     *)
(* one step each.  The stack, the link and the remote device are external. *)
(***************************************************************************)
EXTENDS Naturals, Sequences, SequencesExt

CONSTANTS
  DtaLength,      (* capacity of the DTA queue; 20 in phDtaLib_Init        *)
  BacklogLength,  (* capacity of the backlog; 15 in phDtaLib_Init          *)
  MaxPdus,        (* bound: PDUs the remote client sends                   *)
  MaxJams,        (* bound: congestions                                    *)
  MaxLinks        (* bound: LLCP links                                     *)

ASSUME EchoAssumption ==
  /\ {DtaLength, BacklogLength} \subseteq Nat \ {0}
  /\ {MaxPdus, MaxJams, MaxLinks} \subseteq Nat

VARIABLES
  link,          (* number of LLCP links so far; the last one is up or ... *)
  up,            (* ... down                                               *)
  client,        (* remote client: "new", "connected" or "left"            *)
  server,        (* is the connection to the remote server open?           *)
  jam, jams,     (* is that data link congested; how often it was          *)
  rx,            (* PDUs the stack received and the library did not read   *)
  pdus,          (* number of PDUs so far, RecvData's too; PDU i is i-th *)
  out, stage,    (* events the stack reports; progress of the callback     *)
  congested,     (* bIsLlcpCoRemoteServerLinkCongested                     *)
  disconnected,  (* bIsLlcpCoRemoteClientDisconnected                      *)
  dtaq,          (* the DTA queue                                          *)
  backlog,       (* qHdlCongestData                                        *)
  pc, hand,      (* where the DTA thread is, and the PDU it handles        *)
  sent           (* PDUs handed to the remote server's connection          *)

stackVars == <<link, up, client, server, jam, jams, rx, pdus, out, stage>>
flags == <<congested, disconnected>>
vars == <<stackVars, flags, dtaq, backlog, pc, hand, sent>>

NoPdu == 0
Kinds == {"ACTIVATED", "DEACTIVATED", "CONN_REQ", "DATA", "DISCONNECTED",
          "CONGESTED", "UNCONGESTED"}

(* Enabling discovery for LLCP clears the congestion flag (phDTALib.c:330). *)
Init ==
  /\ link = 0 /\ up = FALSE /\ client = "new" /\ server = FALSE
  /\ jam = FALSE /\ jams = 0 /\ rx = <<>> /\ pdus = 0
  /\ out = <<>> /\ stage = "idle"
  /\ congested = FALSE /\ disconnected = FALSE
  /\ dtaq = <<>> /\ backlog = <<>>
  /\ pc = "pull" /\ hand = NoPdu /\ sent = <<>>

-----------------------------------------------------------------------------
(* The stack and the remote device: external.                              *)

Report(es) == out = <<>> /\ out' = es /\ stage' = "new"
Library == <<flags, dtaq, backlog, pc, hand, sent>>

LinkUp ==
  /\ ~up /\ link < MaxLinks /\ Report(<<"ACTIVATED">>)
  /\ up' = TRUE /\ link' = link + 1 /\ client' = "new"
  /\ UNCHANGED <<server, jam, jams, rx, pdus, Library>>

Connect ==
  /\ up /\ client = "new" /\ Report(<<"CONN_REQ">>)
  /\ client' = "connected"
  /\ UNCHANGED <<link, up, server, jam, jams, rx, pdus, Library>>

Receive ==
  /\ client = "connected" /\ pdus < MaxPdus /\ Report(<<"DATA">>)
  /\ pdus' = pdus + 1 /\ rx' = Append(rx, pdus + 1)
  /\ UNCHANGED <<link, up, client, server, jam, jams, Library>>

Disconnect ==
  /\ client = "connected" /\ Report(<<"DISCONNECTED">>)
  /\ client' = "left" /\ rx' = <<>>
  /\ UNCHANGED <<link, up, server, jam, jams, pdus, Library>>

Jam ==
  /\ server /\ ~jam /\ jams < MaxJams /\ Report(<<"CONGESTED">>)
  /\ jam' = TRUE /\ jams' = jams + 1
  /\ UNCHANGED <<link, up, client, server, rx, pdus, Library>>

Unjam ==
  /\ jam /\ Report(<<"UNCONGESTED">>)
  /\ jam' = FALSE
  /\ UNCHANGED <<link, up, client, server, jams, rx, pdus, Library>>

(* The connections of a link end with it; the stack may report that of the *)
(* remote client first.                                                    *)
LinkDown ==
  /\ up
  /\ \/ Report(<<"DEACTIVATED">>)
     \/ client = "connected" /\ Report(<<"DISCONNECTED", "DEACTIVATED">>)
  /\ up' = FALSE /\ client' = "left" /\ server' = FALSE /\ jam' = FALSE /\ rx' = <<>>
  /\ UNCHANGED <<link, jams, pdus, Library>>

Stack == LinkUp \/ Connect \/ Receive \/ Disconnect \/ Jam \/ Unjam \/ LinkDown

-----------------------------------------------------------------------------
(* phDtaLibi_LlcpEvtCb, in the stack's thread.                             *)

Event == Head(out)
Reported ==
  /\ out' = Tail(out)
  /\ stage' = IF Tail(out) = <<>> THEN "idle" ELSE "new"

External == UNCHANGED <<link, up, client, server, jam, jams, rx, pdus>>

SetFlags ==
  /\ stage = "new"
  /\ congested' = IF Event \in {"CONGESTED", "UNCONGESTED"}
                    THEN Event = "CONGESTED" ELSE congested
  /\ disconnected' = IF Event \in {"ACTIVATED", "DISCONNECTED"}
                       THEN Event = "DISCONNECTED" ELSE disconnected
  /\ IF Event = "CONGESTED" THEN Reported ELSE stage' = "push" /\ out' = out
  /\ UNCHANGED <<dtaq, backlog, pc, hand, sent>> /\ External

(* Faulty variant: the push does not wait for a free slot.                 *)
PushEventUnbounded ==
  /\ stage = "push"
  /\ dtaq' = Append(dtaq, Event) /\ Reported
  /\ UNCHANGED <<flags, backlog, pc, hand, sent>> /\ External

PushEvent ==
  /\ stage = "push" /\ Len(dtaq) < DtaLength
  /\ dtaq' = Append(dtaq, Event) /\ Reported
  /\ UNCHANGED <<flags, backlog, pc, hand, sent>> /\ External

LlcpEvtCb == SetFlags \/ PushEvent

-----------------------------------------------------------------------------
(* The DTA thread.                                                         *)

(* Whether the DTA thread still has an event of this kind to handle.       *)
Pending(kind) == kind \in ToSet(out) \cup ToSet(dtaq)

Pull(kind, next) ==
  /\ pc = "pull" /\ dtaq # <<>> /\ Head(dtaq) = kind
  /\ dtaq' = Tail(dtaq) /\ pc' = next

HandleActivated == Pull("ACTIVATED", "pull") /\ UNCHANGED <<stackVars, flags, backlog, hand, sent>>

(* phMwIf_LlcpServerAcceptClientConn and phMwIf_LlcpConnOrientedClient-    *)
(* Connect; a failure may end the remote client's connection.              *)
HandleConnReq ==
  /\ Pull("CONN_REQ", "pull")
  /\ \/ up /\ server' = TRUE /\ client' = client
     \/ server' = server /\ client' \in {client, "left"}
  /\ UNCHANGED <<link, up, jam, jams, pdus, rx, out, stage, flags, backlog, hand, sent>>

HandleData == Pull("DATA", "recv") /\ UNCHANGED <<stackVars, flags, backlog, hand, sent>>

(* phMwIf_LlcpConnOrientedRecvData fails once the client has left.  It     *)
(* returns success without reading when the middleware's handle of the     *)
(* client, which the callback of a newer connection writes, is not         *)
(* dtaLib's, which the DTA thread writes later: what malloc returned is    *)
(* then taken for a PDU.                                                   *)
RecvData ==
  /\ pc = "recv"
  /\ \/ rx # <<>> /\ hand' = Head(rx) /\ rx' = Tail(rx) /\ pc' = "received" /\ UNCHANGED pdus
     \/ rx = <<>> /\ pc' = "pull" /\ UNCHANGED <<hand, rx, pdus>>
     \/ /\ Pending("CONN_REQ") /\ pdus < MaxPdus
        /\ pdus' = pdus + 1 /\ hand' = pdus + 1 /\ pc' = "received" /\ UNCHANGED rx
  /\ UNCHANGED <<link, up, client, server, jam, jams, out, stage, flags,
                 dtaq, backlog, sent>>

CheckCongested ==
  /\ pc = "received"
  /\ pc' = IF congested THEN "queueing" ELSE "delay"
  /\ UNCHANGED <<stackVars, flags, dtaq, backlog, hand, sent>>

(* Infinite timeout: the thread waits until the backlog has a free slot.   *)
QueueCongestData ==
  /\ pc = "queueing" /\ Len(backlog) < BacklogLength
  /\ backlog' = Append(backlog, hand) /\ hand' = NoPdu /\ pc' = "pull"
  /\ UNCHANGED <<stackVars, flags, dtaq, sent>>

(* TDELAY_CL, then the flag.                                               *)
CheckDisconnected ==
  /\ pc = "delay"
  /\ IF disconnected THEN pc' = "pull" /\ hand' = NoPdu
                     ELSE pc' = "send" /\ hand' = hand
  /\ UNCHANGED <<stackVars, flags, dtaq, backlog, sent>>

(* phMwIf_LlcpConnOrientedSendData; a PDU that is refused is lost.         *)
SendData(next) ==
  /\ hand' = NoPdu
  /\ IF server /\ ~jam THEN sent' = Append(sent, hand) /\ pc' = next
                       ELSE sent' = sent /\ pc' = "pull"
  /\ UNCHANGED <<stackVars, flags, dtaq, backlog>>

EchoData == pc = "send" /\ SendData("pull")

HandleUncongested == Pull("UNCONGESTED", "drain") /\ UNCHANGED <<stackVars, flags, backlog, hand, sent>>

(* Faulty variant: the PDU stays at the head of the backlog.               *)
PullBacklogPeeks ==
  /\ pc = "drain"
  /\ IF congested \/ backlog = <<>>
       THEN pc' = "pull" /\ UNCHANGED <<backlog, hand>>
       ELSE pc' = "resend" /\ hand' = Head(backlog) /\ UNCHANGED backlog
  /\ UNCHANGED <<stackVars, flags, dtaq, sent>>

(* phDtaLibi_LlcpHandleUncongestedEvent sends the backlog for as long as   *)
(* the flag is FALSE.                                                      *)
PullBacklog ==
  /\ pc = "drain"
  /\ IF congested \/ backlog = <<>>
       THEN pc' = "pull" /\ UNCHANGED <<backlog, hand>>
       ELSE pc' = "resend" /\ hand' = Head(backlog) /\ backlog' = Tail(backlog)
  /\ UNCHANGED <<stackVars, flags, dtaq, sent>>

(* Faulty variant: one PDU for each UNCONGESTED event.                     *)
ResendOne == pc = "resend" /\ SendData("pull")

Resend == pc = "resend" /\ SendData("drain")

(* phDtaLibi_LlcpHandleCoClientDisconnect; the stack may refuse it.        *)
HandleDisconnected ==
  /\ Pull("DISCONNECTED", "pull")
  /\ \/ server' = FALSE /\ jam' = FALSE
     \/ UNCHANGED <<server, jam>>
  /\ UNCHANGED <<link, up, client, jams, rx, pdus, out, stage, flags, backlog, hand, sent>>

(* Faulty variant: the backlog survives its link.                          *)
HandleDeactivatedKeepsBacklog ==
  /\ Pull("DEACTIVATED", "pull")
  /\ UNCHANGED <<stackVars, flags, backlog, hand, sent>>

(* phDtaLibi_LlcpHandleDeactivatedEvent frees the backlog.                 *)
HandleDeactivated ==
  /\ Pull("DEACTIVATED", "pull")
  /\ backlog' = <<>>
  /\ UNCHANGED <<stackVars, flags, hand, sent>>

DtaThread ==
  \/ HandleActivated \/ HandleConnReq \/ HandleData \/ RecvData
  \/ CheckCongested \/ QueueCongestData \/ CheckDisconnected \/ EchoData
  \/ HandleUncongested \/ PullBacklog \/ Resend
  \/ HandleDisconnected \/ HandleDeactivated

Next == Stack \/ LlcpEvtCb \/ DtaThread

Spec == Init /\ [][Next]_vars

(* The threads of the stack and of the library are scheduled; nothing      *)
(* forces the remote device or the link to do anything.                    *)
FairSpec == Spec /\ WF_vars(LlcpEvtCb) /\ WF_vars(DtaThread)

-----------------------------------------------------------------------------
Pcs == {"pull", "recv", "received", "queueing", "delay", "send", "drain", "resend"}

TypeOK ==
  /\ link \in 0..MaxLinks /\ {up, server, jam, congested, disconnected} \subseteq BOOLEAN
  /\ client \in {"new", "connected", "left"}
  /\ jams \in 0..MaxJams /\ pdus \in 0..MaxPdus
  /\ {rx, backlog, sent} \subseteq Seq(1..MaxPdus) /\ hand \in 0..MaxPdus
  /\ {out, dtaq} \subseteq Seq(Kinds)
  /\ Len(dtaq) <= DtaLength /\ Len(backlog) <= BacklogLength
  /\ stage \in {"idle", "new", "push"} /\ (stage = "idle" <=> out = <<>>)
  /\ pc \in Pcs
  /\ hand # NoPdu <=> pc \in {"received", "queueing", "delay", "send", "resend"}

(* A PDU goes to the remote server at most once: it is in one place only,  *)
(* whatever path it takes through the congested queue.                     *)
EchoedOnce == IsInjective(sent \o backlog \o rx \o (IF hand = NoPdu THEN <<>> ELSE <<hand>>))

(* The flag is read (phDTA_LLCPTest.c:205) before the push (:212) and      *)
(* cleared by another thread between them; still, a PDU that waits on a    *)
(* link that is open and no longer congested has a handler to send it: one *)
(* that runs, or one whose event is in the queue behind it.                *)
NoLostWakeup ==
  backlog # <<>> /\ ~congested /\ ~jam /\ server
    => \/ Pending("UNCONGESTED") \/ pc \in {"drain", "resend"}
       \/ Pending("DEACTIVATED")

(* A PDU never outlives its link: none of an earlier link's PDUs is left   *)
(* once the thread has handled that link's deactivation, so none can be    *)
(* sent on the next.                                                       *)
BacklogOfThisLink ==
  ~up /\ ~Pending("DEACTIVATED") /\ pc = "pull" => backlog = <<>>

(* "When Uncongested event is received, the data is pulled from the queue  *)
(* and sent to MwIf" (phDTA_LLCPTest.c:372-373): the backlog of a link     *)
(* whose congestion is over empties, unless the link is congested again or *)
(* its connection ends.                                                    *)
BacklogSent ==
  backlog # <<>> /\ ~congested ~> backlog = <<>> \/ congested \/ jam \/ ~server
=============================================================================
