------------------------------ MODULE Lifecycle ------------------------------
(***************************************************************************)
(* Initialisation, configuration and release: what the calls of the user   *)
(* interface (through the JNI bridge) and the DTA thread's restart of the  *)
(* discovery acquire and release in dtaLib, the middleware interface, the  *)
(* OSAL and the stack.                                                     *)
(*                                                                         *)
(* A call is the sequence of its steps.  A step may fail: OSAL runs out of *)
(* a resource, the stack refuses a request, or the wait for its answer     *)
(* gives up although the request takes effect.  The failure of a step ends *)
(* the functions that return at it and none of those that ignore it, so a  *)
(* long sequence of calls meets what earlier ones left behind.             *)
(*                                                                         *)
(* Which functions a failure ends is written once: "within" names the      *)
(* functions around a step whose result their caller ignores.  The stack   *)
(* and the OSAL's objects are external sets of what exists.                *)
(***************************************************************************)
EXTENDS Sequences, FiniteSets, Naturals

CONSTANTS
  Params,      (* what the application may ask for: polling, listening in  *)
               (* peer-to-peer mode (in CR12 and CR13 also as the target   *)
               (* of active communication), card emulation, an LLCP test   *)
  MaxFaults    (* bound: steps that fail although nothing hindered them    *)

Functions == {"poll", "p2p", "acm", "hceA", "hceF", "uicc", "ese", "llcp"}

ASSUME LifecycleAssumption == Params \subseteq SUBSET Functions /\ MaxFaults \in Nat

VARIABLES
  osal,      (* queues, semaphore and threads that exist                   *)
  lost,      (* those whose handle was overwritten while they existed      *)
  stack,     (* what is enabled or registered in the stack and its driver  *)
  route,     (* protocols the stack routes to the host                     *)
  hdl,       (* fields of the handles of the JNI, dtaLib and the middleware*)
  call,      (* the call that runs or ran last, its parameters and result  *)
  prog,      (* steps it has left                                          *)
  ui,        (* "stopped", "starting", "running" or "gone"                 *)
  faults,    (* failed steps so far                                        *)
  broken,    (* did a (de)initialisation of the middleware end half-way?   *)
  suspect    (* did a step fail since the last release without failure?    *)

vars == <<osal, lost, stack, route, hdl, call, prog, ui, faults, broken, suspect>>

-----------------------------------------------------------------------------
(* Steps.                                                                  *)

Step(op, x, to) == [op |-> op, x |-> x, to |-> to, within |-> {}]
Ignoring(f, steps) ==
  [i \in 1..Len(steps) |-> [steps[i] EXCEPT !.within = @ \cup {f}]]
If(c, steps) == IF c THEN steps ELSE <<>>

Create(x) == <<Step("create", x, "-")>>
Delete(x) == <<Step("delete", x, "-")>>
On(x) == <<Step("on", x, "-")>>            (* request, and wait for its answer   *)
Off(x) == <<Step("off", x, "-")>>
Route(ps) == <<Step("route", "-", ps)>>    (* protocols routed to the host       *)
EeRequest == <<Step("ee", "-", "-")>>       (* other requests the NFCEE answers   *)
Config == <<Step("config", "-", "-")>>
Set(f, v) == <<Step("set", f, v)>>

HostCE(p) == p \cap {"hceA", "hceF"} # {}
NfceeCE(p) == p \cap {"uicc", "ese"} # {}
Listens(p) == p \cap {"p2p", "hceA", "hceF", "uicc", "ese"} # {}
ListensP2p(p) == Listens(p) /\ p \cap {"p2p", "acm"} # {}

-----------------------------------------------------------------------------
(* Initialisation of the middleware interface.                             *)

ConfigureDriver == On("driver")
StackInit == On("up")
StackDeInit == Off("up")

InitRouting ==
  Ignoring("InitRouting", On("ee") \o EeRequest \o Route({}))

MwInit ==
  ConfigureDriver \o Create("mwq") \o Create("sem") \o Create("intg")
    \o StackInit \o InitRouting \o On("ndef")
    \o Set("handle", TRUE) \o On("p2p")

(* Faulty variant: the queue goes before the stack that reports into it.   *)
MwDeInitQueueFirst ==
  Ignoring("SetConfig", Config) \o Set("llcpEnabled", FALSE) \o Delete("mwq")
    \o StackDeInit \o Off("driver") \o Delete("intg") \o Delete("sem")

MwDeInit ==
  Ignoring("SetConfig", Config) \o Set("llcpEnabled", FALSE)
    \o StackDeInit \o Off("driver") \o Delete("intg") \o Delete("sem") \o Delete("mwq")

(* Faulty variant: it initialises without releasing.                       *)
ReInitOnly == MwInit

ReInit == MwDeInit \o MwInit

ConfigParams(p) ==
  If(NfceeCE(p), Ignoring("SetConfig", Config) \o MwDeInit \o MwInit)
    \o Ignoring("SetConfig", Config) \o Set("prev", p)

(* What the application asked for is kept before anything can fail.        *)
UpdateConfigPrams(p) == Set("app", p) \o ConfigParams(p)

-----------------------------------------------------------------------------
(* Card emulation.                                                         *)

(* Faulty variant: the system code's protocol is kept as well.             *)
HceFConfigureKeepsProtocol == Route({"T3T"}) \o Set("protocols", {"T3T"})

HceInit == On("ee")
HceConfigNciParams == Ignoring("SetConfig", Config)
HceConfigure == HceConfigNciParams \o Route({"ISO_DEP"}) \o Set("protocols", {"ISO_DEP"})
HceFInit == On("ee") \o On("felica") \o Set("felicaHandle", TRUE)
HceFConfigure == Route({"T3T"})
EeGetInfo == EeRequest
HciRegister == Ignoring("HciRegister", On("hci"))      (* but see HciRefused *)
EeInit == On("ee") \o EeGetInfo \o HciRegister
EeConfigure == EeRequest \o EeRequest

CeConfigure(p) ==
  If("hceA" \in p, HceInit \o HceConfigure)
    \o If("hceF" \in p, HceFInit \o HceFConfigure)
    \o If("uicc" \in p, EeInit \o EeConfigure)
    \o If("ese" \in p, EeInit \o EeConfigure)

CeRegisterAID == Ignoring("CeRegisterAID", On("aid"))
CeDeRegisterAID == Off("aid")

(* Faulty variant: only the callback of the NFCEE is deregistered.         *)
HceFDeInitKeepsSystemCode == Set("felicaHandle", FALSE) \o Off("ee")

HceDeInit(disc) == Set("protocols", {}) \o If(HostCE(disc), CeDeRegisterAID) \o Off("ee")
HceFDeInit == Off("felica") \o Set("felicaHandle", FALSE) \o Off("ee")
EeDeInit == Off("ee") \o Off("hci")

CeDeInitHost(prev, disc) ==
  If("hceA" \in prev, HceDeInit(disc)) \o If("hceF" \in prev, HceFDeInit)

(* Both technologies: phDtaLib_DisableDiscovery calls it once for each.    *)
CeDeInit(app, prev, disc) ==
  If("hceA" \in app, Ignoring("CeDeInit A", CeDeInitHost(prev, disc)))
    \o If("hceF" \in app, Ignoring("CeDeInit F", CeDeInitHost(prev, disc)))
    \o If(NfceeCE(app), Ignoring("CeDeInit EE", EeDeInit))

-----------------------------------------------------------------------------
(* LLCP.                                                                   *)

LlcpEnds == {"sdpClient", "clClient", "coClient", "coServer", "clServer"}

LlcpInit ==
  Set("llcpEnabled", TRUE) \o Config \o On("sdpClient") \o On("clClient") \o On("coClient")

LlcpRegisterServers == On("coServer") \o On("clServer")

(* Faulty variant: the flag is set before the servers are registered.      *)
LlcpRegisterFlagFirst == LlcpInit \o Set("llcp", TRUE) \o LlcpRegisterServers

LlcpRegister == LlcpInit \o LlcpRegisterServers \o Set("llcp", TRUE)

-----------------------------------------------------------------------------
(* Discovery.                                                              *)

(* For type F alone the mask is empty, which disables the technology.      *)
SetIsoDepListenTech(p) ==
  <<Step(IF "hceA" \in p THEN "on" ELSE "off", "isoDepListen", "-")>>

SetDiscoveryConfig(p) ==
  Ignoring("SetDiscoveryConfig",
    If("poll" \in p, On("poll"))
      \o If(Listens(p),
            If(ListensP2p(p), On("p2pListen")) \o If("uicc" \in p, On("uiccListen"))
              \o If("ese" \in p, On("eseListen"))
              \o If(HostCE(p), SetIsoDepListenTech(p) \o CeRegisterAID)
              \o On("listen"))
      \o Config)

ResetDiscoveryConfig(disc) ==
  Ignoring("ResetDiscoveryConfig",
    Off("poll") \o Off("listen") \o If("p2p" \in disc, Off("p2pListen"))
      \o If("uicc" \in disc, Off("uiccListen")) \o If("ese" \in disc, Off("eseListen"))
      \o If(HostCE(disc), CeDeRegisterAID))

SetDtaMode == <<Step("mode", "-", "-")>>
P2pRoutingConfigure == Ignoring("P2pRoutingConfigure", <<Step("routeP2p", "-", "-")>>)
RoutingUpdate == Ignoring("RoutingUpdate", EeRequest)
DiscoveryStart == On("disc")

MwEnableDiscovery(p) ==
  SetDtaMode \o If("p2p" \in p, P2pRoutingConfigure) \o RoutingUpdate
    \o Set("disc", p) \o SetDiscoveryConfig(p) \o DiscoveryStart \o Set("idle", FALSE)

DiscoveryStop == Ignoring("DiscoveryStop", Off("disc"))

MwDisableDiscovery(disc) == DiscoveryStop \o ResetDiscoveryConfig(disc)

-----------------------------------------------------------------------------
(* The calls.  Each ends with a return that a failure leaves out.          *)

DtaInit ==
  Ignoring("queue", Create("dtaq")) \o Ignoring("congestion", Create("congestq"))
    \o Ignoring("thread", Create("dta")) \o MwInit \o Set("init", TRUE)

(* Faulty variant: the congestion queue is kept.                           *)
DtaDeInitKeepsCongestion ==
  Ignoring("MwDeInit", MwDeInit) \o Delete("dta") \o Delete("dtaq")
    \o Set("init", FALSE) \o Set("llcp", FALSE)

DtaDeInit ==
  Ignoring("MwDeInit", MwDeInit) \o Delete("dta") \o Delete("dtaq") \o Delete("congestq")
    \o Set("init", FALSE) \o Set("llcp", FALSE)

JniInit == If(~hdl.jni, If(~hdl.init, DtaInit) \o Set("jni", TRUE))
JniDeInit == If(hdl.jni, If(hdl.init, DtaDeInit) \o Set("jni", FALSE))

EnableDiscovery(p) ==
  UpdateConfigPrams(p)
    \o If("llcp" \in p /\ ~hdl.llcp, LlcpRegister)
    \o CeConfigure(p) \o MwEnableDiscovery(p)

(* Faulty variant: the LLCP registrations survive the test.                *)
DisableDiscoveryKeepsLlcp ==
  CeDeInit(hdl.app, hdl.prev, hdl.disc) \o MwDisableDiscovery(hdl.disc) \o Set("llcp", FALSE)

DisableDiscovery ==
  CeDeInit(hdl.app, hdl.prev, hdl.disc) \o MwDisableDiscovery(hdl.disc)
    \o If(hdl.llcp, Ignoring("ReInit", ReInit \o Set("llcp", FALSE)))

(* The event loop's restart, with the middleware's own functions.          *)
Restart == MwDisableDiscovery(hdl.disc) \o MwEnableDiscovery(hdl.prev)

-----------------------------------------------------------------------------
(* What a step does.                                                       *)

Base == {"driver", "up", "ndef", "p2p"}
OsalObjects == {"dtaq", "congestq", "dta", "mwq", "sem", "intg"}
MwObjects == {"mwq", "sem", "intg"}

step == Head(prog)

Waits(s) ==
  /\ s.x # "isoDepListen"
  /\ \/ s.op \in {"off", "ee", "route", "routeP2p", "config"} /\ s.x # "driver"
     \/ s.op = "on" /\ s.x \notin Base \ {"up"}
AwaitsEe(s) == s.op \in {"ee", "route", "routeP2p"}
AsksStack(s) ==
  \/ Waits(s) /\ ~(s.op = "on" /\ s.x = "up")
  \/ s.x \in {"ndef", "p2p", "isoDepListen"}

(* Does a failed s leave the middleware or the library half initialised?   *)
OfInit(s) == s.op \in {"create", "delete"} \/ (s.op \in {"on", "off"} /\ s.x \in Base)

OsalAfter(s) ==
  CASE s.op = "create" -> osal \cup {s.x}
    [] s.op = "delete" -> osal \ {s.x}
    [] OTHER -> osal

(* AIDs and system codes are deregistered by the handle the code kept.     *)
StackAfter(s) ==
  CASE s.op = "on" -> stack \cup {s.x}
    [] s.op = "off" /\ s.x = "up" -> stack \cap {"driver"}
    [] s.op = "off" /\ s.x = "aid" -> stack \ {hdl.aidHandle}
    [] s.op = "off" /\ s.x = "felica" -> IF hdl.felicaHandle THEN stack \ {"felica"} ELSE stack
    [] s.op = "off" /\ s.x = "disc" -> IF hdl.idle THEN stack ELSE stack \ {"disc"}
    [] s.op = "off" /\ s.x \notin {"up", "aid", "felica", "disc"} -> stack \ {s.x}
    [] OTHER -> stack

RouteAfter(s) ==
  CASE s.op = "route" -> s.to
    [] s.op = "routeP2p" -> {"NFC_DEP"} \cup hdl.protocols
    [] s.op = "off" /\ s.x = "up" -> {}
    [] OTHER -> route

HdlAfter(s) ==
  CASE s.op = "set" -> { [hdl EXCEPT ![s.x] = s.to] }
    [] s.op = "mode" -> { [hdl EXCEPT !.llcpMode = hdl.llcpEnabled] }
    [] s.op = "on" /\ s.x \in {"aid", "felica"} -> { [hdl EXCEPT !.aidHandle = s.x] }
    [] s.op = "off" /\ s.x = "disc" -> { hdl, [hdl EXCEPT !.idle = TRUE] }
    [] OTHER -> { hdl }

Effect(s) ==
  /\ osal' = OsalAfter(s)
  /\ lost' = IF s.op = "create" /\ s.x \in osal THEN lost \cup {s.x} ELSE lost
  /\ stack' = StackAfter(s)
  /\ route' = RouteAfter(s)
  /\ hdl' \in HdlAfter(s)

NoEffect == UNCHANGED <<osal, lost, stack, route, hdl>>

(* The object the step uses does not exist: a destroyed queue is pulled or *)
(* deleted again, or the handle phMwIf_Init did not return is followed.    *)
Undefined(s) ==
  \/ Waits(s) /\ "mwq" \notin osal
  \/ s.op = "delete" /\ s.x \notin osal
  \/ call.name \in {"enable", "disable", "restart"} /\ ~hdl.handle

(* Nothing but a fault keeps the step from success.                        *)
Fine(s) ==
  /\ ~Undefined(s)
  /\ AsksStack(s) => "up" \in stack
  /\ AwaitsEe(s) => "ee" \in stack

(* The stack is free to refuse it: what it would remove is not there, a    *)
(* discovery runs already, or no NFCEE is reached through the HCI.         *)
Optional(s) ==
  \/ s.op = "off" /\ s.x \in {"felica", "ee", "hci"} \ stack
  \/ s.op = "off" /\ s.x = "aid" /\ hdl.aidHandle \notin stack
  \/ s.op = "off" /\ s.x = "disc" /\ "disc" \notin stack
  \/ s.op = "on" /\ s.x = "disc" /\ "disc" \in stack
  \/ s.op \in {"on", "off"} /\ s.x \in {"poll", "listen", "p2pListen"} /\ "disc" \in stack
  \/ s.op = "on" /\ s.x = "hci"

CanFail(s) == s.op \notin {"set", "mode", "return"} /\ s.x # "driver" /\ ~(s.op = "off" /\ s.x = "disc" /\ hdl.idle)

-----------------------------------------------------------------------------
Clear ==
  \/ call.name = "deinit"
  \/ /\ call.name = "disable" /\ ~hdl.llcpEnabled
     /\ stack \subseteq Base \cup {"ee", "isoDepListen"}

Init ==
  /\ osal = {} /\ lost = {} /\ stack = {} /\ route = {}
  /\ hdl = [jni |-> FALSE, init |-> FALSE, llcp |-> FALSE, app |-> {},
            handle |-> FALSE, prev |-> {}, disc |-> {}, protocols |-> {}, idle |-> TRUE,
            llcpEnabled |-> FALSE, llcpMode |-> FALSE, felicaHandle |-> FALSE, aidHandle |-> "-"]
  /\ call = [name |-> "-", p |-> {}, result |-> "-", clean |-> TRUE]
  /\ prog = <<>> /\ ui = "stopped" /\ faults = 0 /\ broken = FALSE /\ suspect = FALSE

Call(name, p, steps) ==
  /\ prog = <<>>
  /\ prog' = steps \o <<Step("return", "-", "-")>>
  /\ call' = [name |-> name, p |-> p, result |-> "-", clean |-> TRUE]
  /\ UNCHANGED <<osal, lost, stack, route, hdl, faults, broken, suspect>>

(* The Run button initialises, and enables whatever that returned.         *)
RunButton(p) == ui = "stopped" /\ ui' = "starting" /\ Call("init", p, JniInit)
ThenEnable == ui = "starting" /\ ui' = "running" /\ Call("enable", call.p, EnableDiscovery(call.p))
StopButton == ui = "running" /\ ui' = "stopped" /\ Call("disable", call.p, DisableDiscovery)
(* The process ends with the Exit button, but not after the SNEP screen's  *)
(* release, which goes on with an initialisation.                          *)
ExitButton == ui \in {"stopped", "running"} /\ hdl.jni /\ ui' = "stopped" /\ Call("deinit", {}, JniDeInit)
RestartByThread ==
  /\ ui = "running" /\ call.result = "ok" /\ UNCHANGED ui
  /\ Call("restart", call.p, Restart)

(* A session of the peer ends with a deactivation to idle.                 *)
SessionEnds ==
  /\ prog = <<>> /\ "disc" \in stack
  /\ stack' = stack \ {"disc"} /\ hdl' = [hdl EXCEPT !.idle = TRUE]
  /\ UNCHANGED <<osal, lost, route, call, prog, ui, faults, broken, suspect>>

Done ==
  /\ prog # <<>> /\ Fine(step)
  /\ Effect(step)
  /\ prog' = Tail(prog)
  /\ call' = IF step.op = "return" THEN [call EXCEPT !.result = "ok"] ELSE call
  /\ suspect' = (suspect /\ ~(step.op = "return" /\ call.clean /\ Clear))
  /\ UNCHANGED <<ui, faults, broken>>

(* The steps of no function that ends when those around w do.              *)
Outside(w, steps) ==
  LET kept[i \in 0..Len(steps)] ==
        IF i = 0 THEN <<>>
        ELSE IF w \subseteq steps[i].within THEN kept[i - 1]
        ELSE Append(kept[i - 1], steps[i])
  IN  kept[Len(steps)]

(* What a failed step leaves to do: all but the functions it ends.         *)
AfterFailure == Outside(step.within, Tail(prog))

Failed ==
  /\ prog' = AfterFailure
  /\ call' = [call EXCEPT !.clean = @ /\ faults' = faults, !.result = IF prog' = <<>> THEN "failed" ELSE @]
  /\ suspect' = (suspect \/ faults' # faults)
  /\ broken' = (broken \/ OfInit(step))
  /\ UNCHANGED ui

Fault ==
  /\ prog # <<>> /\ Fine(step) /\ CanFail(step)
  /\ \/ Optional(step) /\ NoEffect /\ UNCHANGED faults
     \/ /\ faults < MaxFaults /\ faults' = faults + 1
        /\ NoEffect \/ (Waits(step) /\ Effect(step))
  /\ Failed

(* The registration with the HCI is refused, or answered with a bad        *)
(* status.  phMwIfi_EeInit ignores what phMwIfi_HciRegister returns but    *)
(* returns the global gx_status that the refusal left, and so the call     *)
(* fails.  When only the wait gives up, gx_status is still good (Fault).   *)
HciRefused ==
  /\ prog # <<>> /\ Fine(step) /\ step.op = "on" /\ step.x = "hci"
  /\ faults < MaxFaults /\ faults' = faults + 1 /\ suspect' = TRUE
  /\ NoEffect /\ prog' = <<>>
  /\ call' = [call EXCEPT !.clean = FALSE, !.result = "failed"]
  /\ UNCHANGED <<ui, broken>>

(* The stack is down, or it answers to a callback that is deregistered.    *)
Vain ==
  /\ prog # <<>> /\ ~Fine(step) /\ ~Undefined(step)
  /\ IF "up" \in stack THEN Effect(step) ELSE NoEffect
  /\ UNCHANGED faults /\ Failed

(* Undefined behaviour: the step fails or the process ends.                *)
Misuse ==
  /\ prog # <<>> /\ Undefined(step) /\ NoEffect /\ UNCHANGED faults
  /\ \/ Failed
     \/ prog' = <<>> /\ ui' = "gone" /\ UNCHANGED <<call, broken, suspect>>

Next ==
  \/ \E p \in Params : RunButton(p)
  \/ ThenEnable \/ StopButton \/ ExitButton \/ RestartByThread
  \/ SessionEnds \/ Done \/ Fault \/ HciRefused \/ Vain \/ Misuse

Spec == Init /\ [][Next]_vars
-----------------------------------------------------------------------------
(* Properties.                                                             *)

TypeOK ==
  /\ osal \subseteq OsalObjects /\ lost \subseteq OsalObjects
  /\ stack \subseteq Base \cup LlcpEnds
       \cup {"ee", "hci", "aid", "felica", "disc", "poll", "listen", "p2pListen",
             "uiccListen", "eseListen", "isoDepListen"}
  /\ route \subseteq {"ISO_DEP", "T3T", "NFC_DEP"}
  /\ call.p \in Params \cup {{}} /\ call.result \in {"-", "ok", "failed"}
  /\ hdl.aidHandle \in {"-", "aid", "felica"} /\ hdl.protocols \subseteq {"ISO_DEP"}
  /\ {hdl.app, hdl.prev, hdl.disc} \subseteq Params \cup {{}}
  /\ faults \in 0..MaxFaults /\ ui \in {"stopped", "starting", "running", "gone"}

Idle == prog = <<>> /\ ui # "gone"

Expected(p) ==
  Base \cup {"disc"} \cup (p \cap {"poll"})
    \cup {l \in {"p2pListen", "uiccListen", "eseListen", "isoDepListen", "listen", "aid", "felica"} :
            CASE l = "p2pListen" -> ListensP2p(p)
              [] l = "uiccListen" -> "uicc" \in p
              [] l = "eseListen" -> "ese" \in p
              [] l = "isoDepListen" -> "hceA" \in p
              [] l = "listen" -> Listens(p)
              [] l = "aid" -> HostCE(p)
              [] l = "felica" -> "hceF" \in p}
    \cup (IF "llcp" \in p THEN LlcpEnds ELSE {})

(* What the code itself leaves behind.  Nothing undoes                     *)
(* NFA_CeSetIsoDepListenTech; phMwIfi_ResetDiscoveryConfig undoes          *)
(* NFA_SetP2pListenTech for dwListenP2P only, although it was called for   *)
(* dwP2pAcmTar too; and where a test asks for both kinds of card           *)
(* emulation, deregistering the second one's callback is refused and the   *)
(* registration with the HCI stays.                                        *)
Leftover(disc) ==
  {"ee", "isoDepListen"}
    \cup {l \in {"p2pListen"} :
            "p2p" \notin disc /\ \E p \in Params : ListensP2p(p) /\ "p2p" \notin p}
    \cup {l \in {"hci"} : \E p \in Params : HostCE(p) /\ NfceeCE(p)}

(* A discovery that was enabled or restarted is configured as the          *)
(* application asked in its last call, whatever tests ran before: all it   *)
(* asks for is registered and enabled, and of earlier tests no more than   *)
(* Leftover says.  The LLCP mode is that of this test, and a host card     *)
(* emulation of type F alone finds ISO-DEP listening disabled.  The        *)
(* routing for peer-to-peer, which comes later and replaces the table,     *)
(* keeps the type A card emulation's ISO_DEP (it drops T3T, see            *)
(* HceFRoutingKept).  All this holds again after a failure once the        *)
(* library was released, or the discovery disabled with nothing left, even *)
(* though the handles keep what the failed test wrote to them.             *)
ConfiguredAsAsked ==
  Idle /\ call.name \in {"enable", "restart"} /\ call.result = "ok"
    /\ "disc" \in stack /\ ~suspect /\ ~broken
  => /\ Expected(call.p) \subseteq stack
     /\ stack \ Expected(call.p) \subseteq {"hci"} \cup Leftover(call.p)
     /\ HostCE(call.p) /\ "hceA" \notin call.p => "isoDepListen" \notin stack
     /\ hdl.llcpMode = ("llcp" \in call.p)
     /\ "p2p" \in call.p => {"NFC_DEP"} \cup {q \in {"ISO_DEP"} : "hceA" \in call.p} \subseteq route

(* "If HCE-F and Listen P2P both are enabled. The                          *)
(* NFA_EeSetDefaultProtoRouting will override the HCE-F routing entry. So, *)
(* To avoid HCE-F routing entry below logic is implemented."               *)
(* (phMwIfAndroid.cpp:1300-1304): the entry of the type F card emulation   *)
(* is still there when such a discovery is enabled.  The logic keeps       *)
(* ISO_DEP alone, and the code violates this.                              *)
HceFRoutingKept ==
  Idle /\ call.name = "enable" /\ call.result = "ok"
    /\ "disc" \in stack /\ ~suspect /\ ~broken /\ {"hceF", "p2p"} \subseteq call.p
  => "T3T" \in route

(* phDtaLib_DisableDiscovery and what it calls undo all that enabling and  *)
(* restarting the discovery registered, with three copies of the           *)
(* parameters that are written at different times, but for what Leftover   *)
(* names: peer-to-peer listening stays only after a test that asked for it *)
(* as target of active communication alone, and never after a test with    *)
(* dwListenP2P; the registration with the HCI only where a test asks for   *)
(* both kinds of card emulation.                                           *)
NothingLeftWhenDisabled ==
  Idle /\ call.name = "disable" /\ ~suspect /\ ~broken
  => stack \subseteq Base \cup Leftover(hdl.disc)

(* A release that reports success has released everything, unless a step   *)
(* of the middleware's own (de)initialisation failed, which                *)
(* phDtaLib_DeInit does not report.                                        *)
DeInitReleases ==
  Idle /\ call.name = "deinit" /\ call.result = "ok" /\ ~broken => osal = {} /\ stack = {}

(* No queue, semaphore or thread is created over one that exists: there is *)
(* one DTA thread and one integration thread.  Only an initialisation or   *)
(* release that ended half-way lets the next one do so.                    *)
OneOfEach == lost # {} => broken

(* The flags on which the next call relies are true: dtaLib's              *)
(* bLlcpInitialized tells what the stack has registered, and the JNI's     *)
(* state and dtaLib's bInitialized say the same, although a failure may    *)
(* end an initialisation or a release at any step.                         *)
FlagsTruthful ==
  Idle => /\ hdl.llcp /\ ~broken => LlcpEnds \subseteq stack
          /\ hdl.jni = hdl.init

(* No step of any call waits on a destroyed queue, deletes an object twice *)
(* or follows the middleware handle before phMwIf_Init returned it, unless *)
(* an initialisation or release ended half-way and the application, which  *)
(* ignores that, went on.                                                  *)
NoUseAfterDestroy == prog # <<>> /\ Undefined(step) => broken
=============================================================================
