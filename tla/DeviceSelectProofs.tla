------------------------- MODULE DeviceSelectProofs -------------------------
(***************************************************************************)
(* Theorems about DeviceSelect, for every set of discoveries of two or     *)
(* three devices and every bound: type correctness (the array of results   *)
(* never overflows, no wakeup of the integration thread is posted twice),  *)
(* and that a device is chosen among those of its own discovery.           *)
(***************************************************************************)
EXTENDS DeviceSelect, SequenceTheorems, TLAPS

Devices == [round : Nat, protocol : STRING \cup {"-"}]
Results == [kind : {"DISC_RESULT"}, detail : {"more", "last", "limit"}, device : Devices]
Answers ==
  [kind : {"SELECT_RESULT", "ACTIVATED", "DEACTIVATED", "STOPPED", "STARTED", "CONFIGURED", "DISABLED"},
   detail : {"-", "ok", "failed", "DISCOVERY", "IDLE"}]
Events == Results \cup Answers
Requests == [kind : {"SELECT", "STOP", "CONFIG", "START", "DISABLE"}, device : Devices]

Shared == {"stopping", "stop", "unconfig", "config", "start", "started"}
IntgPlaces == Shared \cup {"sem", "choose", "select", "selected", "exit", "ended"}
LibPlaces ==
  Shared \cup {"up", "off", "limit", "disable", "halting", "joining", "failed", "done"}
Places(t) == IF t = "intg" THEN IntgPlaces ELSE LibPlaces

Types ==
  /\ rf \in {"off", "disc", "reporting", "host", "active", "gone"}
  /\ found \in Seq(Devices) /\ {round, restarts, count, sem, late} \subseteq Nat
  /\ requests \in Seq(Requests) /\ out \in Seq(Events)
  /\ results \in [0..MaxResults -> Devices] /\ choice \in Devices
  /\ {pushing, notify, stop, settled} \subseteq BOOLEAN
  /\ devState \in {"IDLE", "DISC", "ACTIVE"} /\ mwq \in Seq(Kinds)
  /\ pc \in [Threads -> IntgPlaces \cup LibPlaces] /\ \A t \in Threads : pc[t] \in Places(t)
  /\ pulled \in [Threads -> BOOLEAN] /\ \A t \in Threads : pulled[t] => Waiting(t)

(* What the stack is about to report fits what the controller found.       *)
Reports ==
  /\ Len(found) <= 3 /\ \A i \in 1..Len(found) : found[i].round = round
  /\ rf \in {"reporting", "host"} => round >= 1
  /\ rf = "host" => Len(found) >= 2
  /\ pushing => out # <<>> /\ PushToQReqd(Head(out))
  /\ \A i \in 1..Len(out) :
       /\ out[i].kind = "DISC_RESULT" =>
            /\ Len(out) = 1 /\ rf \in {"reporting", "host"} /\ found # <<>>
            /\ out[i].device = found[Len(found)] /\ (out[i].detail # "more" => rf = "host")
       /\ out[i].kind = "DEACTIVATED" => rf \in {"disc", "off"}

(* A reported device that the callback has not put into the array.         *)
Fresh == out # <<>> /\ ~pushing /\ Head(out).kind = "DISC_RESULT"
Gathering == rf = "reporting" \/ Fresh

(* Three results and one wakeup for each discovery, and one to stop.       *)
Counts ==
  /\ round + restarts <= MaxRounds
  /\ count + (IF Fresh THEN 1 ELSE 0) <= 3 * round
  /\ Gathering => count + (IF Fresh THEN 1 ELSE 0) + 3 <= 3 * round + Len(found)
  /\ stop => pc["lib"] \in {"joining", "done"}
  /\ sem + (IF Gathering THEN 1 ELSE 0) <= round + (IF stop THEN 1 ELSE 0)

(* Devices that are remembered are of discoveries that have begun.         *)
Begun ==
  /\ choice.round <= round /\ \A i \in 0..MaxResults : results[i].round <= round
  /\ \A i \in 1..Len(requests) : requests[i].device.round <= round

Shape == Types /\ Reports /\ Counts /\ Begun

Gathered == \A i \in 0..(count - 1) : results[i] = found[i + 1]
Undecided == Gathering \/ notify \/ pc["intg"] = "choose" \/ (count # 0 /\ pc["intg"] = "sem")

(* While the discoveries do not overlap, the results are those of this     *)
(* one from its first report until one is chosen; none of its devices is   *)
(* selected before, and nothing is left when the next one begins.          *)
Choosing ==
  settled =>
    /\ Gathering => /\ ~notify /\ pc["intg"] \in {"sem", "exit"} /\ Gathered
                    /\ count + (IF Fresh THEN 1 ELSE 0) = Len(found)
    /\ notify \/ pc["intg"] = "choose" =>
         /\ rf \in {"host", "gone"} /\ pc["intg"] \in {"sem", "choose", "exit"} /\ Gathered
         /\ count = Len(found) /\ count >= 2
    /\ count # 0 => pc["intg"] \in {"sem", "choose", "select", "selected", "ended", "exit"}
    /\ count # 0 /\ pc["intg"] = "sem" => rf \in {"reporting", "host", "gone"}
    /\ Undecided => \A i \in 1..Len(requests) :
                      requests[i].kind = "SELECT" => requests[i].device.round < round

SelectInvariant == Shape /\ Choosing

-----------------------------------------------------------------------------
(* Requests and waits.                                                     *)

Asking == {"select", "stop", "unconfig", "config", "start", "limit", "disable"}

LEMMA SendsValues ==
  /\ DOMAIN Sends = Asking /\ DOMAIN Waits = Asking
  /\ \A p \in Asking : /\ Sends[p] \in {"SELECT", "STOP", "CONFIG", "START", "DISABLE"}
                       /\ Waits[p] \in Kinds /\ (Sends[p] = "SELECT" => p = "select")
BY DEF Sends, Waits, Asking, Kinds

(* What a thread asks for, and where it goes.                              *)
Entered(to) ==
  IF to \in Asking THEN Append(requests, [kind |-> Sends[to], device |-> choice']) ELSE requests

LEMMA GotoEnters ==
  ASSUME NEW t, NEW to, Goto(t, to)
  PROVE  pc' = [pc EXCEPT ![t] = to] /\ requests' = Entered(to)
BY SendsValues DEF Goto, Entered

LEMMA EnteredType ==
  ASSUME requests \in Seq(Requests), choice' \in Devices, NEW to
  PROVE  Entered(to) \in Seq(Requests)
<1>1. CASE to \in Asking
  <2>1. [kind |-> Sends[to], device |-> choice'] \in Requests
    BY <1>1, SendsValues DEF Requests
  <2> QED
    BY <1>1, <2>1, AppendProperties DEF Entered
<1>2. CASE to \notin Asking
  BY <1>2 DEF Entered
<1> QED
  BY <1>1, <1>2

(* Where the code after a wait goes on.                                    *)
Edges ==
  {<<"stop", "unconfig">>, <<"unconfig", "config">>, <<"unconfig", "off">>,
   <<"config", "start">>, <<"start", "started">>, <<"start", "sem">>, <<"start", "up">>,
   <<"limit", "disable">>, <<"disable", "halting">>, <<"disable", "failed">>,
   <<"select", "selected">>, <<"select", "ended">>}

LEMMA GoonMoves ==
  ASSUME Types, NEW t \in Threads, NEW ok \in BOOLEAN, Goon(t, ok)
  PROVE  \E to \in Places(t) : Goto(t, to) /\ <<pc[t], to>> \in Edges
<1>1. t \in {"intg", "lib"} /\ pc[t] \in Places(t)
  BY DEF Types, Threads
<1>2. CASE ResetDiscoveryConfig(t)
  BY <1>1, <1>2 DEF ResetDiscoveryConfig, Places, IntgPlaces, LibPlaces, Shared, Edges
<1>3. CASE SetDiscoveryConfig(t)
  BY <1>1, <1>3 DEF SetDiscoveryConfig, Places, IntgPlaces, LibPlaces, Shared, Edges
<1>4. CASE DiscoveryStart(t)
  BY <1>1, <1>4 DEF DiscoveryStart, Places, IntgPlaces, LibPlaces, Shared, Edges
<1>5. CASE DiscoveryStarted(t, ok)
  BY <1>1, <1>5 DEF DiscoveryStarted, Rest, Places, IntgPlaces, LibPlaces, Shared, Edges
<1>6. CASE StackDeInit(t, ok)
  BY <1>1, <1>6 DEF StackDeInit, Places, IntgPlaces, LibPlaces, Shared, Edges
<1>7. CASE DeviceSelected(t, ok)
  BY <1>1, <1>7 DEF DeviceSelected, Places, IntgPlaces, LibPlaces, Shared, Edges
<1> QED
  BY <1>2, <1>3, <1>4, <1>5, <1>6, <1>7 DEF Goon

(* A step of a thread's wait: what it may change.                          *)
LEMMA WaitMoves ==
  ASSUME Types, NEW t \in Threads, Wait(t)
  PROVE  /\ Kept /\ UNCHANGED <<resultVars, sem, stop, devState, choice, restarts>>
         /\ mwq' \in {mwq, Tail(mwq)} /\ (mwq = <<>> => mwq' = mwq) /\ late' \in {late, late + 1}
         /\ \/ /\ UNCHANGED <<pc, requests>>
               /\ \E b \in BOOLEAN : pulled' = [pulled EXCEPT ![t] = b] /\ (b => Waiting(t))
            \/ /\ \E to \in Places(t) : Goto(t, to) /\ <<pc[t], to>> \in Edges
               /\ pulled' = [pulled EXCEPT ![t] = FALSE]
<1>1. CASE WaitPull(t)
  BY <1>1 DEF WaitPull, Quietly, Kept
<1>2. CASE WaitLook(t)
  <2>1. \/ UNCHANGED <<pc, requests>>
        \/ \E to \in Places(t) : Goto(t, to) /\ <<pc[t], to>> \in Edges
    BY <1>2, GoonMoves DEF WaitLook
  <2> QED
    BY <1>2, <2>1 DEF WaitLook, Quietly, Kept
<1>3. CASE WaitTimeout(t)
  <2>1. \E to \in Places(t) : Goto(t, to) /\ <<pc[t], to>> \in Edges
    BY <1>3, GoonMoves DEF WaitTimeout
  <2>2. pulled' = [pulled EXCEPT ![t] = FALSE]
    BY <1>3 DEF WaitTimeout, Types
  <2> QED
    BY <1>3, <2>1, <2>2 DEF WaitTimeout, Kept
<1> QED
  BY <1>1, <1>2, <1>3 DEF Wait

LEMMA Entering ==
  ASSUME Types, NEW t \in Threads, NEW to \in Places(t), Goto(t, to), choice' \in Devices,
         pulled' = [pulled EXCEPT ![t] = FALSE]
  PROVE  /\ requests' = Entered(to) /\ requests' \in Seq(Requests)
         /\ pc' \in [Threads -> IntgPlaces \cup LibPlaces] /\ pc'[t] = to
         /\ \A u \in Threads \ {t} : pc'[u] = pc[u]
         /\ \A u \in Threads : pc'[u] \in Places(u)
         /\ pulled' \in [Threads -> BOOLEAN] /\ \A u \in Threads : pulled'[u] => Waiting(u)'
<1>1. pc' = [pc EXCEPT ![t] = to] /\ requests' = Entered(to)
  BY GotoEnters
<1>2. requests' \in Seq(Requests)
  BY <1>1, EnteredType DEF Types
<1>3. to \in IntgPlaces \cup LibPlaces
  BY DEF Places
<1>4. /\ pc' \in [Threads -> IntgPlaces \cup LibPlaces] /\ pc'[t] = to
      /\ \A u \in Threads \ {t} : pc'[u] = pc[u]
  BY <1>1, <1>3 DEF Types
<1>5. pulled' \in [Threads -> BOOLEAN] /\ \A u \in Threads : pulled'[u] => Waiting(u)'
  BY <1>4 DEF Types, Waiting
<1> QED
  BY <1>1, <1>2, <1>4, <1>5 DEF Types

(* The threads' steps outside their waits.                                 *)
Thread(t) ==
  \/ Discovery(t)
  \/ t = "intg" /\ (IntegrationThread \/ SelectDevice \/ Selected)
  \/ t = "lib" /\ (DisableDiscovery \/ EnableAgain \/ DeInit \/ Release)

LEMMA ThreadMoves ==
  ASSUME Types, NEW t \in Threads, Thread(t)
  PROVE  /\ Kept /\ UNCHANGED <<evtType, late>> /\ ~Waiting(t)
         /\ pulled' = [pulled EXCEPT ![t] = FALSE]
         /\ \E to \in Places(t) : Goto(t, to)
         /\ mwq' \in {mwq, <<>>} /\ devState' \in {devState, "DISC"}
<1>1. t \in {"intg", "lib"} /\ pc[t] \in Places(t)
  BY DEF Types, Threads
<1>2. /\ Kept /\ UNCHANGED <<evtType, late, pulled>> /\ ~Waiting(t)
      /\ \E to \in Places(t) : Goto(t, to)
      /\ mwq' \in {mwq, <<>>} /\ devState' \in {devState, "DISC"}
  <2>1. CASE DiscoveryStop(t)
    BY <1>1, <2>1, SendsValues DEF DiscoveryStop, Quietly, Waiting, Asking, Places, IntgPlaces, LibPlaces, Shared
  <2>2. CASE EnableDiscovery(t)
    BY <1>1, <2>2, SendsValues DEF EnableDiscovery, Rest, Quietly, Waiting, Asking, Places, IntgPlaces, LibPlaces, Shared
  <2>3. CASE t = "intg" /\ IntegrationThread
    BY <1>1, <2>3, SendsValues DEF IntegrationThread, Quietly, Waiting, Asking, Places, IntgPlaces, Shared
  <2>4. CASE t = "intg" /\ SelectDevice
    BY <1>1, <2>4, SendsValues DEF SelectDevice, Quietly, Waiting, Asking, Places, IntgPlaces, Shared
  <2>5. CASE t = "intg" /\ Selected
    BY <1>1, <2>5, SendsValues DEF Selected, Quietly, Waiting, Asking, Places, IntgPlaces, Shared
  <2>6. CASE t = "lib" /\ (DisableDiscovery \/ EnableAgain \/ DeInit)
    BY <1>1, <2>6, SendsValues DEF DisableDiscovery, EnableAgain, DeInit, LibFrame, Quietly, Waiting, Asking, Places, LibPlaces, Shared
  <2>7. CASE t = "lib" /\ Release
    BY <1>1, <2>7, SendsValues DEF Release, StopThread, Join, LibFrame, Quietly, Waiting, Asking, Places, LibPlaces, Shared
  <2> QED
    BY <2>1, <2>2, <2>3, <2>4, <2>5, <2>6, <2>7 DEF Thread, Discovery
<1>3. pulled' = [pulled EXCEPT ![t] = FALSE]
  BY <1>2 DEF Types
<1> QED
  BY <1>2, <1>3

LEMMA NextCases ==
  ASSUME Next
  PROVE  \/ Discover \/ ReportDevice \/ RemoteLeaves \/ Nfa \/ Callback
         \/ \E t \in Threads : Wait(t) \/ Thread(t)
BY DEF Next, Integration, Library, Thread, Threads

-----------------------------------------------------------------------------
(* Types.                                                                  *)

LEMMA MaxResultsNat ==
  MaxRounds \in Nat /\ MaxResults \in Nat /\ MaxResults = 3 * MaxRounds
BY DeviceSelectAssumption DEF MaxResults

LEMMA CountBound ==
  ASSUME Shape
  PROVE  /\ count \in 0..MaxResults /\ (Fresh => count + 1 \in 0..MaxResults)
         /\ sem \in 0..(MaxRounds + 1)
<1>1. round \in Nat /\ restarts \in Nat /\ count \in Nat /\ sem \in Nat
  BY DEF Shape, Types
<1>2. /\ round + restarts <= MaxRounds
      /\ count <= 3 * round /\ (Fresh => count + 1 <= 3 * round)
      /\ sem <= round + 1
  BY <1>1 DEF Shape, Counts
<1> QED
  BY <1>1, <1>2, MaxResultsNat

LEMMA ChosenDevice ==
  ASSUME Shape
  PROVE  /\ Chosen \in 0..MaxResults /\ results[Chosen] \in Devices /\ results[Chosen].round <= round
<1>1. Chosen \in {0, count} \/ (Chosen = 1 /\ count >= 2)
  BY CountBound DEF Chosen
<1>2. Chosen \in 0..MaxResults
  BY <1>1, CountBound, MaxResultsNat
<1>3. results \in [0..MaxResults -> Devices] /\ \A i \in 0..MaxResults : results[i].round <= round
  BY DEF Shape, Types, Begun
<1> QED
  BY <1>1, <1>2, <1>3

LEMMA TypesInit ==
  Init => Types
<1> SUFFICES ASSUME Init PROVE Types
  OBVIOUS
<1>1. NoDevice \in Devices
  BY DEF NoDevice, Devices
<1>2. Types!1 /\ Types!2
  BY DEF Init
<1>5. Types!3
  BY DEF Init
<1>6. Types!5 /\ Types!6
  <2>1. pushing = FALSE /\ notify = FALSE /\ stop = FALSE /\ settled = TRUE
    BY DEF Init
  <2>2. Types!5
    BY <2>1
  <2>3. devState = "DISC" /\ mwq = <<>>
    BY DEF Init
  <2> QED
    BY <2>2, <2>3
<1>3. results \in [0..MaxResults -> Devices] /\ choice \in Devices
  BY <1>1, MaxResultsNat DEF Init
<1>4. Types!7 /\ Types!8
  BY SendsValues DEF Init, Types, Threads, Places, IntgPlaces, LibPlaces, Shared, Waiting, Asking
<1> QED
  BY <1>2, <1>3, <1>4, <1>5, <1>6 DEF Types

LEMMA AppendType ==
  ASSUME NEW S, NEW s \in Seq(S), NEW e \in S
  PROVE  Append(s, e) \in Seq(S)
BY AppendProperties

LEMMA TailType ==
  ASSUME NEW S, NEW s \in Seq(S), s # <<>>
  PROVE  Tail(s) \in Seq(S) /\ Len(Tail(s)) = Len(s) - 1 /\ Head(s) = s[1] /\ Len(s) \in Nat \ {0}
         /\ \A i \in 1..Len(Tail(s)) : Tail(s)[i] = s[i + 1]
BY HeadTailProperties

(* What the controller and the stack leave alone.                          *)
StackFrame == UNCHANGED <<resultVars, sem, stop, devState, mwq, threadVars, restarts, late, pushing>>

LEMMA StackTypes ==
  ASSUME Types, StackFrame, Types!1', found' \in Seq(Devices), round' \in Nat, settled' \in BOOLEAN,
         requests' \in Seq(Requests), out' \in Seq(Events)
  PROVE  Types'
BY DEF Types, StackFrame, resultVars, threadVars, Waiting

LEMMA ReportDeviceType ==
  ASSUME Types, ReportDevice
  PROVE  /\ found' \in Seq(Devices) /\ Len(found') = Len(found) + 1 /\ Len(found') <= 3
         /\ \A i \in 1..Len(found) : found'[i] = found[i]
         /\ found'[Len(found')].round = round /\ found'[Len(found')] \in Devices
         /\ rf = "reporting" /\ rf' \in {"reporting", "host"} /\ (rf' = "host" => Len(found') >= 2)
         /\ \E more \in {"more", "last", "limit"} :
              /\ out' = <<[kind |-> "DISC_RESULT", detail |-> more, device |-> found'[Len(found')]]>>
              /\ (more # "more" <=> rf' = "host")
<1>1. PICK d \in Discoveries :
       /\ Len(d) > Len(found)
       /\ found' = Append(found, [round |-> round, protocol |-> d[Len(found) + 1]])
       /\ rf' = IF Len(found') = Len(d) THEN "host" ELSE rf
       /\ \E more \in IF rf' = "host" THEN {"last", "limit"} ELSE {"more"} :
            out' = <<[kind |-> "DISC_RESULT", detail |-> more, device |-> found'[Len(found')]]>>
  BY DEF ReportDevice
<1>2. d \in Seq(STRING) /\ Len(d) \in 2..3 /\ Len(found) \in Nat
  BY DeviceSelectAssumption, LenProperties DEF Types
<1>3. d[Len(found) + 1] \in STRING
  BY <1>1, <1>2
<1> DEFINE e == [round |-> round, protocol |-> d[Len(found) + 1]]
<1>4. e \in Devices /\ e.round = round
  BY <1>3 DEF Devices, Types
<1>5. found \in Seq(Devices) /\ found' = Append(found, e)
  BY <1>1 DEF Types
<1> HIDE DEF e
<1>6. /\ found' \in Seq(Devices) /\ Len(found') = Len(found) + 1 /\ found'[Len(found')] = e
      /\ \A i \in 1..Len(found) : found'[i] = found[i]
  BY <1>4, <1>5, AppendProperties
<1>7. rf = "reporting"
  BY DEF ReportDevice
<1>8. \E more \in {"more", "last", "limit"} :
        /\ out' = <<[kind |-> "DISC_RESULT", detail |-> more, device |-> found'[Len(found')]]>>
        /\ (more # "more" <=> rf' = "host")
  BY <1>1, <1>7
<1>9. Len(found') <= 3 /\ rf' \in {"reporting", "host"} /\ (rf' = "host" => Len(found') >= 2)
  <2>1. Len(d) > Len(found) /\ rf' = (IF Len(found') = Len(d) THEN "host" ELSE rf)
    BY <1>1
  <2>2. Len(found') = Len(found) + 1 /\ Len(found) \in Nat /\ Len(d) \in 2..3
    BY <1>2, <1>6
  <2>3. \A a \in Nat : \A b \in 2..3 : \A c : b > a /\ c = a + 1 => c <= 3
    OBVIOUS
  <2>4. Len(found') <= 3
    BY <2>1, <2>2, <2>3, Zenon
  <2> QED
    BY <1>7, <2>1, <2>2, <2>4
<1> QED
  BY <1>4, <1>6, <1>7, <1>8, <1>9

LEMMA Two ==
  ASSUME NEW a, NEW b
  PROVE  <<a>> \o <<b>> = <<a, b>>
<1> DEFINE S == {a, b}
<1>1. <<a>> \in Seq(S) /\ <<b>> \in Seq(S) /\ <<a, b>> \in Seq(S)
  OBVIOUS
<1>2. Len(<<a>>) = 1 /\ Len(<<b>>) = 1 /\ <<a>>[1] = a /\ <<b>>[1] = b
  OBVIOUS
<1> DEFINE p == <<a>>
           q == <<b>>
<1> HIDE DEF S, p, q
<1>3. /\ p \o q \in Seq(S) /\ Len(p \o q) = 2 /\ (p \o q)[1] = a /\ (p \o q)[2] = b
  BY <1>1, <1>2, ConcatProperties DEF p, q
<1>4. /\ <<a, b>> \in Seq(S) /\ Len(<<a, b>>) = 2 /\ <<a, b>>[1] = a /\ <<a, b>>[2] = b
  BY <1>1
<1> DEFINE r == <<a, b>>
<1> HIDE DEF r
<1>5. \A i \in 1..Len(p \o q) : (p \o q)[i] = r[i]
  BY <1>3, <1>4 DEF r
<1>6. p \o q = r
  BY <1>3, <1>4, <1>5, SeqEqual DEF r
<1> QED
  BY <1>6 DEF p, q, r

LEMMA Stopping ==
  ASSUME NEW e, NEW f
  PROVE  <<e>> \o <<f>> = <<e, f>> /\ <<>> \o <<f>> = <<f>>
<1>1. <<>> \o <<f>> = <<f>>
  OBVIOUS
<1> QED
  BY <1>1, Two

LEMMA SeqOf ==
  ASSUME NEW S, NEW a \in S, NEW b \in S
  PROVE  <<a>> \in Seq(S) /\ <<a, b>> \in Seq(S) /\ <<>> \in Seq(S)
OBVIOUS

LEMMA StackTypesStep ==
  ASSUME Types, Discover \/ ReportDevice \/ RemoteLeaves \/ Nfa
  PROVE  Types'
<1>1. CASE Discover
  <2>1. StackFrame /\ rf' = "reporting" /\ found' = <<>> /\ round' = round + 1 /\ requests' = requests
        /\ out' = out /\ settled' \in BOOLEAN
    BY <1>1 DEF Discover, Unseen, StackFrame, Types
  <2> QED
    BY <2>1, StackTypes DEF Types
<1>2. CASE ReportDevice
  <2>1. StackFrame /\ UNCHANGED <<round, requests, settled>>
    BY <1>2 DEF ReportDevice, Unseen, StackFrame
  <2>2. out' \in Seq(Events)
    BY <1>2, ReportDeviceType DEF Results, Events
  <2> QED
    BY <1>2, <2>1, <2>2, ReportDeviceType, StackTypes DEF Types
<1>3. CASE RemoteLeaves
  <2>1. /\ StackFrame /\ UNCHANGED <<found, round, requests, settled>> /\ rf' = "disc"
        /\ out' = <<Event("DEACTIVATED", "DISCOVERY")>>
    BY <1>3 DEF RemoteLeaves, Unseen, StackFrame
  <2>2. Event("DEACTIVATED", "DISCOVERY") \in Events
    BY DEF Event, Answers, Events
  <2> QED
    BY <2>1, <2>2, StackTypes DEF Types
<1>4. CASE Nfa
  <2>0. /\ Event("SELECT_RESULT", "ok") \in Events /\ Event("SELECT_RESULT", "failed") \in Events
        /\ Event("ACTIVATED", "-") \in Events /\ Event("DEACTIVATED", "IDLE") \in Events
        /\ Event("STOPPED", "-") \in Events /\ Event("STARTED", "-") \in Events
        /\ Event("CONFIGURED", "-") \in Events /\ Event("DISABLED", "-") \in Events
    BY DEF Event, Answers, Events
  <2>1. requests # <<>> /\ requests' = Tail(requests)
    BY <1>4 DEF Nfa, NfaSelect, NfaStop, NfaStart, NfaAnswer, NfaRefuse, Requested
  <2>2. requests' \in Seq(Requests)
    BY <2>1, TailType DEF Types
  <2>3. StackFrame /\ UNCHANGED <<found, round>> /\ settled' \in BOOLEAN
    BY <1>4 DEF Nfa, NfaSelect, NfaStop, NfaStart, NfaAnswer, NfaRefuse, Unseen, StackFrame, Types
  <2>4. Types!1' /\ out' \in Seq(Events)
    <3>1. CASE NfaSelect
      <4>1. rf' \in {rf, "active"}
        BY <3>1 DEF NfaSelect
      <4>2. \/ out' = <<Event("SELECT_RESULT", "ok"), Event("ACTIVATED", "-")>>
            \/ out' = <<Event("SELECT_RESULT", "failed")>> \/ out' = <<>>
        BY <3>1 DEF NfaSelect
      <4>3. out' \in Seq(Events)
        BY <4>2, <2>0, SeqOf
      <4> QED
        BY <4>1, <4>3 DEF Types
    <3>2. CASE NfaStop
      <4>1. out' = <<Event("DEACTIVATED", "IDLE"), Event("STOPPED", "-")>> \/ out' = <<Event("STOPPED", "-")>>
        BY <3>2, Stopping DEF NfaStop
      <4>2. rf' = "off"
        BY <3>2 DEF NfaStop
      <4>3. out' \in Seq(Events)
        BY <4>1, <2>0, SeqOf
      <4> QED
        BY <4>2, <4>3
    <3>3. CASE NfaStart
      BY <3>3, <2>0 DEF NfaStart, Types
    <3>4. CASE NfaAnswer
      BY <3>4, <2>0 DEF NfaAnswer, Types
    <3>5. CASE NfaRefuse
      BY <3>5 DEF NfaRefuse, Types
    <3> QED
      BY <1>4, <3>1, <3>2, <3>3, <3>4, <3>5 DEF Nfa
  <2> QED
    BY <2>2, <2>3, <2>4, StackTypes DEF Types
<1> QED
  BY <1>1, <1>2, <1>3, <1>4

LEMMA HeadOf ==
  ASSUME NEW S, NEW s \in Seq(S), s # <<>>
  PROVE  Head(s) \in S /\ Head(s) = s[1] /\ 1 \in 1..Len(s) /\ Tail(s) \in Seq(S)
BY HeadTailProperties, EmptySeq

LEMMA EventKinds ==
  ASSUME NEW e \in Events
  PROVE  /\ e.kind = "DISC_RESULT" => e \in Results
         /\ e.kind # "DISC_RESULT" => e \in Answers
         /\ e.kind \in Kinds \cup {"ACTIVATED"}
BY DEF Events, Results, Answers, Kinds

LEMMA CallbackTypes ==
  ASSUME Shape, Callback
  PROVE  Types'
<1>1. Types /\ out # <<>>
  BY DEF Shape, Callback, DeviceFound, NotifyState, PushMw, Reports
<1>2. Head(out) \in Events /\ Tail(out) \in Seq(Events)
  BY <1>1, HeadOf DEF Types
<1>3. CASE DeviceFound
  <2>1. Head(out) \in Results
    BY <1>2, <1>3, EventKinds DEF DeviceFound
  <2>2. Head(out).device \in Devices
    BY <2>1 DEF Results
  <2>3. /\ results' \in [0..MaxResults -> Devices] /\ count' \in Nat /\ sem' \in Nat
        /\ notify' \in BOOLEAN /\ out' \in Seq(Events) /\ pushing' \in BOOLEAN
    <3>1. /\ results' = [results EXCEPT ![count] = Head(out).device] /\ count' = count + 1
          /\ notify' = (notify \/ Final(Head(out))) /\ sem' \in {sem, sem + 1}
          /\ out' \in {out, Tail(out)} /\ pushing' = PushToQReqd(Head(out))
      BY <1>3 DEF DeviceFound
    <3>2. results' \in [0..MaxResults -> Devices]
      BY <1>1, <2>2, <3>1 DEF Types
    <3>3. PushToQReqd(Head(out)) \in BOOLEAN /\ notify' \in BOOLEAN
      BY <1>1, <3>1 DEF PushToQReqd, Final, Types
    <3> QED
      <4>1. count \in Nat /\ sem \in Nat /\ out \in Seq(Events)
        BY <1>1 DEF Types
      <4> QED
        BY <1>2, <3>1, <3>2, <3>3, <4>1
  <2> QED
    BY <1>1, <1>3, <2>3 DEF DeviceFound, Types, threadVars, Waiting
<1>4. CASE NotifyState
  <2>1. Head(out) \in Answers
    BY <1>2, <1>4, EventKinds DEF NotifyState
  <2>2. devState' \in {"IDLE", "DISC", "ACTIVE"}
    BY <1>1, <1>4 DEF NotifyState, DeviceState, Types
  <2>3. count' \in Nat /\ out' \in Seq(Events) /\ pushing' \in BOOLEAN
    BY <1>1, <1>2, <1>4 DEF NotifyState, PushToQReqd, Final, Types
  <2> QED
    BY <1>1, <1>4, <2>2, <2>3 DEF NotifyState, Types, threadVars, Waiting
<1>5. CASE PushMw
  <2>1. Head(out).kind \in Kinds
    BY <1>2, <1>5, EventKinds DEF PushMw, Shape, Reports, PushToQReqd, Kinds
  <2>2. mwq' \in Seq(Kinds)
    BY <1>1, <1>5, <2>1, AppendType DEF PushMw, Types
  <2>3. out' \in Seq(Events) /\ pushing' = FALSE
    BY <1>2, <1>5 DEF PushMw
  <2> QED
    BY <1>1, <1>5, <2>2, <2>3 DEF PushMw, Types, resultVars, threadVars, Waiting
<1> QED
  BY <1>3, <1>4, <1>5 DEF Callback

LEMMA WaitTypes ==
  ASSUME Types, NEW t \in Threads, Wait(t)
  PROVE  Types'
<1>1. mwq' \in Seq(Kinds) /\ late' \in Nat
  <2>1. mwq \in Seq(Kinds) /\ late \in Nat
    BY DEF Types
  <2>2. mwq = <<>> \/ Tail(mwq) \in Seq(Kinds)
    BY <2>1, TailType
  <2>3. mwq' \in {mwq, Tail(mwq)} /\ (mwq = <<>> => mwq' = mwq) /\ late' \in {late, late + 1}
    BY WaitMoves
  <2> QED
    BY <2>1, <2>2, <2>3
<1>2. CASE UNCHANGED <<pc, requests>>
  <2>1. PICK b \in BOOLEAN : pulled' = [pulled EXCEPT ![t] = b] /\ (b => Waiting(t))
    BY <1>2, WaitMoves
  <2>2. pulled' \in [Threads -> BOOLEAN] /\ \A u \in Threads : pulled'[u] => Waiting(u)'
    BY <1>2, <2>1 DEF Types, Waiting
  <2> QED
    BY <1>1, <1>2, <2>2, WaitMoves DEF Types, Kept, resultVars
<1>3. CASE \E to \in Places(t) : Goto(t, to) /\ pulled' = [pulled EXCEPT ![t] = FALSE]
  <2>1. PICK to \in Places(t) : Goto(t, to)
    BY <1>3
  <2>2. choice' \in Devices /\ pulled' = [pulled EXCEPT ![t] = FALSE]
    BY <1>3, WaitMoves DEF Types
  <2>3. /\ requests' \in Seq(Requests) /\ pc' \in [Threads -> IntgPlaces \cup LibPlaces]
        /\ \A u \in Threads : pc'[u] \in Places(u)
        /\ pulled' \in [Threads -> BOOLEAN] /\ \A u \in Threads : pulled'[u] => Waiting(u)'
    BY <2>1, <2>2, Entering
  <2> QED
    BY <1>1, <2>2, <2>3, WaitMoves DEF Types, Kept, resultVars
<1> QED
  BY <1>2, <1>3, WaitMoves

(* What the threads' steps outside their waits do to the rest.             *)
LEMMA ThreadRest ==
  ASSUME Shape, NEW t \in Threads, Thread(t)
  PROVE  /\ results' = results /\ count' \in {count, 0} /\ notify' \in {notify, FALSE}
         /\ sem' \in Nat /\ stop' \in {stop, TRUE} /\ restarts' \in {restarts, restarts + 1}
         /\ choice' \in Devices /\ choice'.round <= round
<1>1. Types /\ Begun
  BY DEF Shape
<1>2. CASE Discovery(t)
  BY <1>1, <1>2 DEF Discovery, DiscoveryStop, EnableDiscovery, resultVars, Types, Begun
<1>3. CASE IntegrationThread
  BY <1>1, <1>3 DEF IntegrationThread, resultVars, Types, Begun
<1>4. CASE SelectDevice
  BY <1>1, <1>4, ChosenDevice DEF SelectDevice, Types
<1>5. CASE Selected
  BY <1>1, <1>5 DEF Selected, Types, Begun
<1>6. CASE DisableDiscovery \/ EnableAgain \/ DeInit
  BY <1>1, <1>6 DEF DisableDiscovery, EnableAgain, DeInit, LibFrame, resultVars, Types, Begun
<1>7. CASE Release
  <2>1. UNCHANGED <<results, count, notify, choice, restarts>> /\ sem' \in {sem, sem + 1} /\ stop' \in {stop, TRUE}
    BY <1>7 DEF Release, StopThread, Join, LibFrame, resultVars
  <2>2. sem \in Nat /\ choice \in Devices /\ choice.round <= round
    BY <1>1 DEF Types, Begun
  <2>3. sem' \in Nat
    BY <2>1, <2>2
  <2> QED
    BY <2>1, <2>2, <2>3
<1> QED
  BY <1>2, <1>3, <1>4, <1>5, <1>6, <1>7 DEF Thread

LEMMA ThreadTypes ==
  ASSUME Shape, NEW t \in Threads, Thread(t)
  PROVE  Types'
<1>1. Types
  BY DEF Shape
<1>2. PICK to \in Places(t) : Goto(t, to)
  BY <1>1, ThreadMoves
<1>3. choice' \in Devices /\ pulled' = [pulled EXCEPT ![t] = FALSE]
  BY <1>1, ThreadMoves, ThreadRest
<1>4. /\ requests' \in Seq(Requests) /\ pc' \in [Threads -> IntgPlaces \cup LibPlaces]
      /\ \A u \in Threads : pc'[u] \in Places(u)
      /\ pulled' \in [Threads -> BOOLEAN] /\ \A u \in Threads : pulled'[u] => Waiting(u)'
  BY <1>1, <1>2, <1>3, Entering
<1>5. Kept /\ late' = late /\ mwq' \in {mwq, <<>>} /\ devState' \in {devState, "DISC"}
  BY <1>1, ThreadMoves
<1>6. /\ results' = results /\ count' \in Nat /\ notify' \in BOOLEAN
      /\ sem' \in Nat /\ stop' \in BOOLEAN /\ restarts' \in Nat
  <2>1. /\ results \in [0..MaxResults -> Devices] /\ count \in Nat /\ restarts \in Nat
        /\ notify \in BOOLEAN /\ stop \in BOOLEAN
    BY <1>1 DEF Types
  <2>2. /\ results' = results /\ count' \in {count, 0} /\ notify' \in {notify, FALSE}
        /\ sem' \in Nat /\ stop' \in {stop, TRUE} /\ restarts' \in {restarts, restarts + 1}
    BY ThreadRest
  <2>3. restarts' \in Nat /\ count' \in Nat
    BY <2>1, <2>2
  <2>4. notify' \in BOOLEAN
    BY <2>1, <2>2
  <2>5. stop' \in BOOLEAN
    BY <2>1, <2>2
  <2> QED
    BY <2>1, <2>2, <2>3, <2>4, <2>5
<1>7. /\ rf' = rf /\ found' = found /\ round' = round /\ out' = out /\ pushing' = pushing
      /\ settled' = settled /\ results' \in [0..MaxResults -> Devices]
  BY <1>1, <1>5, <1>6 DEF Kept, Types
<1>8. devState' \in {"IDLE", "DISC", "ACTIVE"} /\ mwq' \in Seq(Kinds) /\ late' \in Nat
  <2>1. devState \in {"IDLE", "DISC", "ACTIVE"} /\ mwq \in Seq(Kinds) /\ late \in Nat
    BY <1>1 DEF Types
  <2>2. mwq' \in Seq(Kinds)
    <3>1. <<>> \in Seq(Kinds)
      OBVIOUS
    <3>2. mwq' = mwq \/ mwq' = <<>>
      BY <1>5
    <3> QED
      BY <2>1, <3>1, <3>2
  <2>3. devState' \in {"IDLE", "DISC", "ACTIVE"}
    BY <1>5, <2>1
  <2> QED
    BY <1>5, <2>1, <2>2, <2>3
<1> QED
  BY <1>1, <1>3, <1>4, <1>6, <1>7, <1>8 DEF Types

LEMMA TypesStep ==
  ASSUME Shape, Next
  PROVE  Types'
BY NextCases, StackTypesStep, CallbackTypes, WaitTypes, ThreadTypes DEF Shape

-----------------------------------------------------------------------------
(* Reports.                                                                *)

(* An event that fits what the controller is doing.                        *)
Fits(e) ==
  /\ e.kind = "DISC_RESULT" =>
       /\ Len(out) = 1 /\ rf \in {"reporting", "host"} /\ found # <<>>
       /\ e.device = found[Len(found)] /\ (e.detail # "more" => rf = "host")
  /\ e.kind = "DEACTIVATED" => rf \in {"disc", "off"}

LEMMA ReportsParts ==
  Reports <=>
    /\ Len(found) <= 3 /\ \A i \in 1..Len(found) : found[i].round = round
    /\ rf \in {"reporting", "host"} => round >= 1
    /\ rf = "host" => Len(found) >= 2
    /\ pushing => out # <<>> /\ PushToQReqd(Head(out))
    /\ \A i \in 1..Len(out) : Fits(out[i])
BY DEF Reports, Fits

LEMMA IdleNotPushing ==
  ASSUME Reports, out = <<>>
  PROVE  ~pushing /\ ~Fresh
BY DEF Reports, Fresh

LEMMA StackReports ==
  ASSUME Shape, Discover \/ ReportDevice \/ RemoteLeaves \/ Nfa
  PROVE  Reports'
<1>1. Types /\ Reports
  BY DEF Shape
<1>2. CASE Discover
  <2>1. /\ out = <<>> /\ out' = <<>> /\ rf' = "reporting" /\ round' = round + 1 /\ found' = <<>>
        /\ pushing' = FALSE
    BY <1>1, <1>2, IdleNotPushing DEF Discover, NfaIdle, Unseen, Types
  <2>2. Len(found') = 0 /\ Len(out') = 0 /\ round' >= 1
    BY <1>1, <2>1 DEF Types
  <2> QED
    BY <2>1, <2>2 DEF Reports
<1>3. CASE ReportDevice
  <2>1. PICK more \in {"more", "last", "limit"} :
          /\ out' = <<[kind |-> "DISC_RESULT", detail |-> more, device |-> found'[Len(found')]]>>
          /\ (more # "more" <=> rf' = "host")
    BY <1>1, <1>3, ReportDeviceType
  <2>2. ~pushing' /\ round' = round
    BY <1>1, <1>3, IdleNotPushing DEF ReportDevice, NfaIdle, Unseen
  <2>3. /\ Len(out') = 1 /\ out'[1].kind = "DISC_RESULT" /\ out'[1].detail = more
        /\ out'[1].device = found'[Len(found')]
    BY <2>1
  <2>4. /\ Len(found') <= 3 /\ Len(found) \in Nat /\ Len(found') = Len(found) + 1
        /\ rf' \in {"reporting", "host"} /\ (rf' = "host" => Len(found') >= 2) /\ rf = "reporting"
        /\ \A i \in 1..Len(found) : found'[i] = found[i]
        /\ found'[Len(found')].round = round
    BY <1>1, <1>3, ReportDeviceType, LenProperties DEF Types
  <2>5. \A i \in 1..Len(found') : found'[i].round = round'
    BY <1>1, <2>2, <2>4 DEF Reports
  <2>6. found' # <<>>
    BY <2>4
  <2>7. \A i \in 1..Len(out') : Fits(out[i])'
    BY <2>1, <2>3, <2>4, <2>6 DEF Fits
  <2>8. rf' \in {"reporting", "host"} => round' >= 1
    BY <1>1, <2>2, <2>4 DEF Reports
  <2>9. (pushing => out # <<>> /\ PushToQReqd(Head(out)))'
    BY <2>2
  <2> QED
    <3>1. Reports' <=> (/\ Len(found) <= 3 /\ \A i \in 1..Len(found) : found[i].round = round
                        /\ rf \in {"reporting", "host"} => round >= 1
                        /\ rf = "host" => Len(found) >= 2
                        /\ pushing => out # <<>> /\ PushToQReqd(Head(out))
                        /\ \A i \in 1..Len(out) : Fits(out[i]))'
      BY ReportsParts, PTL
    <3> QED
      BY <2>4, <2>5, <2>7, <2>8, <2>9, <3>1
<1>4. CASE RemoteLeaves
  <2>1. /\ rf' = "disc" /\ out' = <<Event("DEACTIVATED", "DISCOVERY")>> /\ ~pushing'
        /\ UNCHANGED <<found, round>>
    BY <1>1, <1>4, IdleNotPushing DEF RemoteLeaves, NfaIdle, Unseen
  <2> QED
    BY <1>1, <2>1 DEF Reports, Event
<1>5. CASE NfaRefuse
  BY <1>1, <1>5 DEF NfaRefuse, Unseen, Reports, PushToQReqd, Final
<1>6. CASE NfaSelect \/ NfaStop \/ NfaStart \/ NfaAnswer
  <2>1. ~pushing' /\ UNCHANGED <<found, round>>
    BY <1>1, <1>6, IdleNotPushing DEF NfaSelect, NfaStop, NfaStart, NfaAnswer, Requested, NfaIdle, Unseen
  <2>2. rf' \in {"reporting", "host"} => rf' = rf
    BY <1>6 DEF NfaSelect, NfaStop, NfaStart, NfaAnswer
  <2>3. \A i \in 1..Len(out') : /\ out'[i].kind # "DISC_RESULT"
                                /\ out'[i].kind = "DEACTIVATED" => rf' = "off"
    <3>1. CASE NfaSelect
      <4>1. \/ out' = <<Event("SELECT_RESULT", "ok"), Event("ACTIVATED", "-")>>
            \/ out' = <<Event("SELECT_RESULT", "failed")>> \/ out' = <<>>
        BY <3>1 DEF NfaSelect
      <4> QED
        BY <4>1 DEF Event
    <3>2. CASE NfaStop
      <4>1. rf' = "off" /\ \/ out' = <<Event("DEACTIVATED", "IDLE"), Event("STOPPED", "-")>>
                           \/ out' = <<Event("STOPPED", "-")>>
        BY <3>2, Stopping DEF NfaStop
      <4> QED
        BY <4>1 DEF Event
    <3>3. CASE NfaStart
      BY <3>3 DEF NfaStart, Event
    <3>4. CASE NfaAnswer
      <4>1. out' = <<Event("CONFIGURED", "-")>> \/ out' = <<Event("DISABLED", "-")>>
        BY <3>4 DEF NfaAnswer
      <4> QED
        BY <4>1 DEF Event
    <3> QED
      BY <1>6, <3>1, <3>2, <3>3, <3>4
  <2> QED
    BY <1>1, <2>1, <2>2, <2>3 DEF Reports
<1> QED
  BY <1>2, <1>3, <1>4, <1>5, <1>6 DEF Nfa

LEMMA OtherReports ==
  ASSUME Shape, Callback \/ \E t \in Threads : Wait(t) \/ Thread(t)
  PROVE  Reports'
<1>1. Types /\ Reports
  BY DEF Shape
<1>2. CASE \E t \in Threads : Wait(t) \/ Thread(t)
  <2>1. Kept
    BY <1>1, <1>2, WaitMoves, ThreadMoves
  <2> QED
    BY <1>1, <2>1 DEF Kept, Reports, PushToQReqd, Final
<1>3. CASE Callback
  <2>1. /\ UNCHANGED <<rf, found, round>> /\ out # <<>> /\ out \in Seq(Events)
        /\ \/ out' = out /\ pushing' = PushToQReqd(Head(out))
           \/ out' = Tail(out) /\ ~pushing'
    BY <1>1, <1>3 DEF Callback, DeviceFound, NotifyState, PushMw, Types, Reports
  <2>2. CASE out' = out /\ pushing' = PushToQReqd(Head(out))
    BY <1>1, <2>1, <2>2 DEF Reports, PushToQReqd, Final
  <2>3. CASE out' = Tail(out) /\ ~pushing'
    <3>1. /\ Len(out') = Len(out) - 1 /\ Len(out) \in Nat \ {0}
          /\ \A i \in 1..Len(out') : out'[i] = out[i + 1]
      BY <2>1, <2>3, TailType
    <3>2. \A i \in 1..Len(out') : /\ out'[i].kind # "DISC_RESULT"
                                  /\ out'[i].kind = "DEACTIVATED" => rf' \in {"disc", "off"}
      BY <1>1, <2>1, <3>1 DEF Reports
    <3> QED
      BY <1>1, <2>1, <2>3, <3>2 DEF Reports
  <2> QED
    BY <2>1, <2>2, <2>3
<1> QED
  BY <1>2, <1>3

LEMMA ReportsStep ==
  ASSUME Shape, Next
  PROVE  Reports'
BY NextCases, StackReports, OtherReports

-----------------------------------------------------------------------------
(* Counts.                                                                 *)

LEMMA FreshBool ==
  Fresh \in BOOLEAN /\ Gathering \in BOOLEAN /\ (Gathering <=> rf = "reporting" \/ Fresh)
BY DEF Fresh, Gathering

LEMMA FreshHead ==
  ASSUME Types, Reports, Fresh
  PROVE  /\ Head(out) \in Results /\ Head(out) = out[1] /\ Len(out) = 1 /\ rf \in {"reporting", "host"}
         /\ found # <<>> /\ Head(out).device = found[Len(found)] /\ Tail(out) = <<>>
         /\ (Head(out).detail # "more" => rf = "host")
<1>1. out # <<>> /\ out \in Seq(Events) /\ Head(out).kind = "DISC_RESULT"
  BY DEF Fresh, Types
<1>2. Head(out) \in Results /\ Head(out) = out[1] /\ 1 \in 1..Len(out)
  BY <1>1, HeadOf, EventKinds
<1>3. Fits(out[1])
  BY <1>2, ReportsParts
<1>4. Len(out) = 1
  BY <1>1, <1>2, <1>3 DEF Fits
<1>5. Tail(out) = <<>>
  <2>1. Tail(out) \in Seq(Events) /\ Len(Tail(out)) = 0
    BY <1>1, <1>4, TailType
  <2> QED
    BY <2>1, EmptySeq
<1> QED
  BY <1>1, <1>2, <1>3, <1>4, <1>5 DEF Fits

(* A callback puts the reported device away at once.                       *)
LEMMA CallbackFresh ==
  ASSUME Types, Reports, Callback
  PROVE  ~Fresh' /\ UNCHANGED <<rf, found, round, requests, pc, choice, stop, restarts, settled>>
         /\ (~DeviceFound => UNCHANGED <<results, notify, sem>> /\ count' \in {count, 0} /\ ~Fresh)
<1>1. out # <<>> /\ out \in Seq(Events)
  BY DEF Types, Reports, Callback, DeviceFound, NotifyState, PushMw
<1>2. CASE DeviceFound
  <2>1. Fresh
    BY <1>2 DEF DeviceFound, Fresh
  <2>2. Tail(out) = <<>>
    BY <2>1, FreshHead
  <2> QED
    BY <1>2, <2>2 DEF DeviceFound, Fresh, threadVars
<1>3. CASE NotifyState \/ PushMw
  <2>1. /\ UNCHANGED <<rf, found, round, requests, pc, choice, stop, restarts, settled>>
        /\ UNCHANGED <<results, notify, sem>> /\ count' \in {count, 0} /\ ~Fresh
    BY <1>3 DEF NotifyState, PushMw, Fresh, threadVars, resultVars
  <2>2. pushing' \/ out' = Tail(out)
    BY <1>3 DEF NotifyState, PushMw
  <2>3. Head(out).kind # "DISC_RESULT" \/ Len(out) = 1
    BY <1>1, HeadOf DEF Reports
  <2>4. ASSUME out' = Tail(out), Fresh'
        PROVE  FALSE
    <3>1. out' # <<>> /\ Head(out').kind = "DISC_RESULT"
      BY <2>4 DEF Fresh
    <3>2. /\ Len(out') = Len(out) - 1 /\ Len(out) \in Nat \ {0} /\ out' \in Seq(Events)
          /\ \A i \in 1..Len(out') : out'[i] = out[i + 1]
      BY <1>1, <2>4, TailType
    <3>3. Head(out') = out'[1] /\ 1 \in 1..Len(out')
      BY <3>1, <3>2, HeadOf
    <3>4. 2 \in 1..Len(out) /\ out'[1] = out[2]
      BY <3>2, <3>3
    <3> QED
      BY <3>1, <3>3, <3>4 DEF Reports
  <2> QED
    BY <2>1, <2>2, <2>4 DEF Fresh
<1> QED
  BY <1>2, <1>3 DEF Callback, DeviceFound

LEMMA StackFresh ==
  ASSUME Types, Reports, Discover \/ RemoteLeaves \/ Nfa
  PROVE  /\ StackFrame /\ Fresh' = Fresh /\ restarts' = restarts
         /\ \/ Discover /\ ~Fresh
            \/ UNCHANGED <<round, found>> /\ (rf' = "reporting" => rf = "reporting")
<1>1. StackFrame /\ restarts' = restarts
  BY DEF Discover, RemoteLeaves, Nfa, NfaSelect, NfaStop, NfaStart, NfaAnswer, NfaRefuse, Unseen, StackFrame
<1>2. CASE NfaRefuse
  <2>1. UNCHANGED <<rf, found, round, out, pushing>>
    BY <1>1, <1>2 DEF NfaRefuse, StackFrame
  <2>2. Fresh' = Fresh
    BY <2>1 DEF Fresh
  <2> QED
    BY <1>1, <2>1, <2>2
<1>3. CASE Discover
  BY <1>1, <1>3 DEF Discover, StackFrame, Fresh, NfaIdle
<1>4. CASE RemoteLeaves \/ NfaSelect \/ NfaStop \/ NfaStart \/ NfaAnswer
  <2>1. out = <<>> /\ ~Fresh
    BY <1>4 DEF RemoteLeaves, NfaSelect, NfaStop, NfaStart, NfaAnswer, Requested, NfaIdle, Fresh
  <2>2. out' = <<>> \/ Head(out').kind # "DISC_RESULT"
    <3>1. CASE NfaSelect
      <4>1. \/ out' = <<Event("SELECT_RESULT", "ok"), Event("ACTIVATED", "-")>>
            \/ out' = <<Event("SELECT_RESULT", "failed")>> \/ out' = <<>>
        BY <3>1 DEF NfaSelect
      <4> QED
        BY <4>1 DEF Event
    <3>2. CASE NfaStop
      <4>1. \/ out' = <<Event("DEACTIVATED", "IDLE"), Event("STOPPED", "-")>>
            \/ out' = <<Event("STOPPED", "-")>>
        BY <3>2, Stopping DEF NfaStop
      <4> QED
        BY <4>1 DEF Event
    <3>3. CASE RemoteLeaves \/ NfaStart
      BY <3>3 DEF RemoteLeaves, NfaStart, Event
    <3>4. CASE NfaAnswer
      <4>1. out' = <<Event("CONFIGURED", "-")>> \/ out' = <<Event("DISABLED", "-")>>
        BY <3>4 DEF NfaAnswer
      <4> QED
        BY <4>1 DEF Event
    <3> QED
      BY <1>4, <3>1, <3>2, <3>3, <3>4
  <2>3. ~Fresh'
    BY <2>2 DEF Fresh
  <2>4. UNCHANGED <<round, found>> /\ (rf' = "reporting" => rf = "reporting")
    BY <1>4 DEF RemoteLeaves, NfaSelect, NfaStop, NfaStart, NfaAnswer
  <2>5. Fresh \in BOOLEAN /\ Fresh' \in BOOLEAN
    BY DEF Fresh
  <2> QED
    BY <1>1, <2>1, <2>3, <2>4, <2>5
<1> QED
  BY <1>2, <1>3, <1>4 DEF Nfa

LEMMA CountsFacts ==
  ASSUME Shape
  PROVE  /\ round \in Nat /\ restarts \in Nat /\ count \in Nat /\ sem \in Nat /\ Len(found) \in 0..3
         /\ round + restarts <= MaxRounds /\ stop \in BOOLEAN
         /\ Fresh => count + 1 <= 3 * round
         /\ ~Fresh => count <= 3 * round
         /\ Fresh => count + 4 <= 3 * round + Len(found)
         /\ ~Fresh /\ rf = "reporting" => count + 3 <= 3 * round + Len(found)
         /\ stop => pc["lib"] \in {"joining", "done"}
         /\ Gathering => sem + 1 <= round + (IF stop THEN 1 ELSE 0)
         /\ ~Gathering => sem <= round + (IF stop THEN 1 ELSE 0)
<1>1. round \in Nat /\ restarts \in Nat /\ count \in Nat /\ sem \in Nat /\ Len(found) \in 0..3 /\ stop \in BOOLEAN
  <2>1. found \in Seq(Devices) /\ Len(found) <= 3 /\ {round, restarts, count, sem} \subseteq Nat /\ stop \in BOOLEAN
    BY DEF Shape, Types, Reports
  <2>2. Len(found) \in Nat
    BY <2>1, LenProperties
  <2>3. \A n \in Nat : n <= 3 => n \in 0..3
    OBVIOUS
  <2>4. Len(found) \in 0..3
    BY <2>1, <2>2, <2>3
  <2> QED
    BY <2>1, <2>4
<1>2. Fresh => Gathering
  BY FreshBool
<1> QED
  BY <1>1, <1>2, FreshBool DEF Shape, Counts

LEMMA StackCounts ==
  ASSUME Shape, Discover \/ ReportDevice \/ RemoteLeaves \/ Nfa
  PROVE  Counts'
<1>1. Types /\ Reports
  BY DEF Shape
<1>2. CASE Discover
  <2>1. /\ ~Fresh /\ ~Fresh' /\ rf = "disc" /\ rf' = "reporting" /\ round' = round + 1 /\ found' = <<>>
        /\ UNCHANGED <<count, sem, stop, restarts, pc>> /\ round + restarts < MaxRounds
    BY <1>1, <1>2, StackFresh DEF Discover, StackFrame, resultVars, threadVars
  <2>2. ~Gathering /\ Gathering' /\ Len(found') = 0
    BY <2>1 DEF Gathering
  <2> QED
    BY <2>1, <2>2, CountsFacts, MaxResultsNat DEF Counts
<1>3. CASE ReportDevice
  <2>1. UNCHANGED <<count, sem, stop, restarts, pc, round, pushing>> /\ out = <<>>
    BY <1>3 DEF ReportDevice, Unseen, resultVars, threadVars, NfaIdle
  <2>2. /\ rf = "reporting" /\ Len(found') = Len(found) + 1 /\ Len(found') <= 3
        /\ \E more \in {"more", "last", "limit"} :
             out' = <<[kind |-> "DISC_RESULT", detail |-> more, device |-> found'[Len(found')]]>>
    BY <1>1, <1>3, ReportDeviceType
  <2>3. ~Fresh /\ ~pushing
    BY <1>1, <2>1, IdleNotPushing
  <2>4. Fresh' /\ Gathering' /\ Gathering
    BY <2>1, <2>2, <2>3 DEF Fresh, Gathering
  <2> QED
    BY <2>1, <2>2, <2>3, <2>4, CountsFacts DEF Counts
<1>4. CASE (RemoteLeaves \/ Nfa) /\ ~Discover
  <2>1. /\ Fresh' = Fresh /\ UNCHANGED <<count, sem, stop, restarts, pc, round, found>>
        /\ (rf' = "reporting" => rf = "reporting")
    BY <1>1, <1>4, StackFresh DEF StackFrame, resultVars, threadVars
  <2>2. Gathering' => Gathering
    BY <2>1, FreshBool DEF Gathering
  <2>3. Fresh' <=> Fresh
    BY <2>1
  <2> QED
    BY <2>1, <2>2, <2>3, CountsFacts, FreshBool DEF Counts
<1> QED
  BY <1>2, <1>3, <1>4

LEMMA CallbackCounts ==
  ASSUME Shape, Callback
  PROVE  Counts'
<1>1. /\ Types /\ Reports /\ ~Fresh' /\ UNCHANGED <<rf, found, round, pc, stop, restarts>>
  BY CallbackFresh DEF Shape
<1>2. Gathering' <=> rf = "reporting"
  BY <1>1 DEF Gathering
<1>3. CASE DeviceFound
  <2>1. Fresh /\ count' = count + 1 /\ sem' = (IF Final(Head(out)) THEN sem + 1 ELSE sem)
    BY <1>3 DEF DeviceFound, Fresh
  <2>2. Final(Head(out)) => rf = "host"
    BY <1>1, <2>1, FreshHead DEF Final
  <2>3. sem' = sem \/ (sem' = sem + 1 /\ rf = "host")
    BY <2>1, <2>2
  <2>4. Gathering
    BY <2>1 DEF Gathering
  <2> QED
    BY <1>1, <1>2, <2>1, <2>3, <2>4, CountsFacts DEF Counts
<1>4. CASE ~DeviceFound
  <2>1. UNCHANGED sem /\ count' \in {count, 0} /\ ~Fresh
    BY <1>1, <1>4, CallbackFresh
  <2>2. Gathering <=> rf = "reporting"
    BY <2>1 DEF Gathering
  <2> QED
    BY <1>1, <1>2, <2>1, <2>2, CountsFacts DEF Counts
<1> QED
  BY <1>3, <1>4

(* How the two threads change what is counted.                             *)
LEMMA ThreadCounters ==
  ASSUME Shape, NEW t \in Threads, Wait(t) \/ Thread(t)
  PROVE  /\ Fresh' = Fresh /\ Gathering' = Gathering /\ UNCHANGED <<rf, found, round, settled>>
         /\ count' \in {count, 0} /\ round + restarts' <= MaxRounds
         /\ stop' => pc'["lib"] \in {"joining", "done"}
         /\ \/ UNCHANGED stop /\ sem' \in {sem, sem - 1} /\ (sem = 0 => sem' = sem)
            \/ ~stop /\ stop' /\ sem' = sem + 1
<1>1. Types /\ Kept /\ t \in {"intg", "lib"}
  BY WaitMoves, ThreadMoves DEF Shape, Threads
<1>2. Fresh' = Fresh /\ Gathering' = Gathering /\ UNCHANGED <<rf, found, round, settled>>
  BY <1>1 DEF Kept, Fresh, Gathering
<1>3. /\ round + restarts <= MaxRounds /\ round \in Nat /\ restarts \in Nat /\ sem \in Nat
      /\ (stop => pc["lib"] \in {"joining", "done"}) /\ stop \in BOOLEAN /\ MaxRounds \in Nat
  BY CountsFacts, MaxResultsNat
<1>4. pc \in [Threads -> IntgPlaces \cup LibPlaces] /\ "lib" \in Threads
  BY <1>1 DEF Types, Threads
<1>5. CASE Wait(t)
  <2>1. UNCHANGED <<count, stop, sem, restarts>>
    BY <1>1, <1>5, WaitMoves DEF resultVars
  <2>2. pc' = pc \/ \E to \in Places(t) : Goto(t, to) /\ <<pc[t], to>> \in Edges
    BY <1>1, <1>5, WaitMoves
  <2>3. stop => pc'["lib"] = pc["lib"]
    <3>1. SUFFICES ASSUME stop, NEW to, Goto(t, to), <<pc[t], to>> \in Edges
                   PROVE  pc'["lib"] = pc["lib"]
      BY <2>2
    <3>2. t # "lib"
      BY <1>3, <3>1 DEF Edges
    <3> QED
      BY <1>4, <3>1, <3>2 DEF Goto
  <2> QED
    BY <1>2, <1>3, <2>1, <2>3
<1>6. CASE Thread(t) /\ t = "intg"
  <2>1. UNCHANGED <<stop, restarts>> /\ count' \in {count, 0} /\ sem' \in {sem, sem - 1} /\ (sem = 0 => sem' = sem)
    BY <1>3, <1>6 DEF Thread, Discovery, DiscoveryStop, EnableDiscovery, IntegrationThread, SelectDevice, Selected, resultVars
  <2>2. pc'["lib"] = pc["lib"]
    BY <1>1, <1>4, <1>6, ThreadMoves DEF Goto
  <2> QED
    BY <1>2, <1>3, <2>1, <2>2
<1>7. CASE Thread(t) /\ t = "lib"
  <2>1. CASE Discovery("lib")
    <3>1. UNCHANGED <<count, stop, sem, restarts>> /\ pc["lib"] \in {"stopping", "started"}
      BY <2>1 DEF Discovery, DiscoveryStop, EnableDiscovery, resultVars
    <3> QED
      BY <1>2, <1>3, <3>1
  <2>2. CASE DisableDiscovery
    <3>1. UNCHANGED <<count, stop, sem>> /\ pc["lib"] = "up" /\ round + restarts < MaxRounds /\ restarts' = restarts + 1
      BY <2>2 DEF DisableDiscovery, LibFrame, resultVars
    <3> QED
      BY <1>2, <1>3, <3>1
  <2>3. CASE EnableAgain \/ DeInit
    <3>1. UNCHANGED <<count, stop, sem, restarts>> /\ pc["lib"] \in {"up", "off"}
      BY <2>3 DEF EnableAgain, DeInit, LibFrame, resultVars
    <3> QED
      BY <1>2, <1>3, <3>1
  <2>4. CASE StopThread
    <3>1. /\ UNCHANGED <<count, restarts>> /\ pc["lib"] = "halting" /\ stop' = TRUE /\ sem' = sem + 1
          /\ pc'["lib"] = "joining"
      BY <1>4, <2>4 DEF StopThread, LibFrame, resultVars, Goto
    <3> QED
      BY <1>2, <1>3, <3>1
  <2>5. CASE Join
    <3>1. UNCHANGED <<count, stop, sem, restarts>> /\ pc'["lib"] = "done"
      BY <1>4, <2>5 DEF Join, LibFrame, resultVars, Goto
    <3> QED
      BY <1>2, <1>3, <3>1
  <2> QED
    BY <1>7, <2>1, <2>2, <2>3, <2>4, <2>5 DEF Thread, Release
<1> QED
  BY <1>1, <1>5, <1>6, <1>7

LEMMA CountsStep ==
  ASSUME Shape, Next
  PROVE  Counts'
<1>1. CASE Discover \/ ReportDevice \/ RemoteLeaves \/ Nfa
  BY <1>1, StackCounts
<1>2. CASE Callback
  BY <1>2, CallbackCounts
<1>3. CASE \E t \in Threads : Wait(t) \/ Thread(t)
  <2>1. /\ (Fresh' <=> Fresh) /\ (Gathering' <=> Gathering) /\ UNCHANGED <<rf, found, round>>
        /\ count' \in {count, 0} /\ round + restarts' <= MaxRounds
        /\ stop' => pc'["lib"] \in {"joining", "done"}
        /\ \/ UNCHANGED stop /\ sem' \in {sem, sem - 1} /\ (sem = 0 => sem' = sem)
           \/ ~stop /\ stop' /\ sem' = sem + 1
    BY <1>3, ThreadCounters
  <2>2. count' \in Nat /\ count' <= count
    BY <2>1, CountsFacts
  <2>3. Gathering <=> rf = "reporting" \/ Fresh
    BY FreshBool
  <2>4. sem' + (IF Gathering THEN 1 ELSE 0) <= round + (IF stop' THEN 1 ELSE 0)
    BY <2>1, CountsFacts, FreshBool
  <2>5. /\ count' + (IF Fresh THEN 1 ELSE 0) <= 3 * round
        /\ Gathering => count' + (IF Fresh THEN 1 ELSE 0) + 3 <= 3 * round + Len(found)
    BY <2>2, <2>3, CountsFacts, FreshBool
  <2> QED
    BY <2>1, <2>4, <2>5 DEF Counts
<1> QED
  BY <1>1, <1>2, <1>3, NextCases

-----------------------------------------------------------------------------
(* What is remembered of the discoveries.                                  *)

LEMMA AppendOf ==
  ASSUME NEW S, NEW s \in Seq(S), NEW e \in S
  PROVE  /\ Append(s, e) \in Seq(S) /\ Len(Append(s, e)) = Len(s) + 1
         /\ \A i \in 1..Len(s) : Append(s, e)[i] = s[i]
         /\ Append(s, e)[Len(s) + 1] = e
BY AppendProperties

(* A thread that enters a place adds at most one request, for its choice.  *)
LEMMA GotoRequests ==
  ASSUME Types, choice' \in Devices, NEW t, NEW to, Goto(t, to)
  PROVE  \/ requests' = requests
         \/ /\ Len(requests') = Len(requests) + 1 /\ Len(requests) \in Nat
            /\ \A i \in 1..Len(requests) : requests'[i] = requests[i]
            /\ requests'[Len(requests) + 1].device = choice'
            /\ (requests'[Len(requests) + 1].kind = "SELECT" => to = "select")
<1>1. requests' = Entered(to) /\ requests \in Seq(Requests)
  BY GotoEnters DEF Types
<1>2. CASE to \in Asking
  <2> DEFINE e == [kind |-> Sends[to], device |-> choice']
  <2>1. e \in Requests /\ e.device = choice' /\ (e.kind = "SELECT" => to = "select")
    BY <1>2, SendsValues DEF Requests
  <2>2. requests' = Append(requests, e)
    BY <1>1, <1>2 DEF Entered
  <2> HIDE DEF e
  <2>3. Len(requests) \in Nat
    BY <1>1, LenProperties
  <2>4. /\ Len(requests') = Len(requests) + 1
        /\ \A i \in 1..Len(requests) : requests'[i] = requests[i]
        /\ requests'[Len(requests) + 1] = e
    BY <1>1, <2>1, <2>2, AppendOf
  <2> QED
    BY <2>1, <2>3, <2>4
<1>3. CASE to \notin Asking
  BY <1>1, <1>3 DEF Entered
<1> QED
  BY <1>2, <1>3

LEMMA BegunStep ==
  ASSUME Shape, Next
  PROVE  Begun'
<1>1. /\ Types /\ Reports /\ round \in Nat /\ choice.round <= round
      /\ \A i \in 0..MaxResults : results[i].round <= round /\ results[i].round \in Nat
      /\ \A i \in 1..Len(requests) : requests[i].device.round <= round
      /\ choice.round \in Nat
      /\ \A i \in 1..Len(requests) : requests[i].device.round \in Nat
  <2>1. /\ Types /\ Reports /\ Begun /\ round \in Nat /\ choice \in Devices
        /\ results \in [0..MaxResults -> Devices] /\ requests \in Seq(Requests)
    BY DEF Shape, Types
  <2>2. \A i \in 1..Len(requests) : requests[i] \in Requests
    BY <2>1
  <2> QED
    BY <2>1, <2>2 DEF Begun, Devices, Requests
<1>2. CASE Discover
  <2>1. round' = round + 1 /\ UNCHANGED <<choice, results, requests>>
    BY <1>2 DEF Discover, Unseen, resultVars, threadVars
  <2> QED
    BY <1>1, <2>1 DEF Begun
<1>3. CASE ReportDevice \/ RemoteLeaves
  BY <1>1, <1>3 DEF ReportDevice, RemoteLeaves, Unseen, resultVars, threadVars, Begun
<1>4. CASE Nfa
  <2>1. requests # <<>> /\ requests' = Tail(requests) /\ UNCHANGED <<round, choice, results>>
    BY <1>4 DEF Nfa, NfaSelect, NfaStop, NfaStart, NfaAnswer, NfaRefuse, Requested, Unseen, resultVars, threadVars
  <2>2. /\ Len(requests') = Len(requests) - 1 /\ Len(requests) \in Nat \ {0}
        /\ \A i \in 1..Len(requests') : requests'[i] = requests[i + 1]
    BY <1>1, <2>1, TailType DEF Types
  <2>3. \A i \in 1..Len(requests') : requests'[i].device.round <= round
    BY <1>1, <2>2
  <2> QED
    BY <1>1, <2>1, <2>3 DEF Begun
<1>5. CASE Callback
  <2>1. UNCHANGED <<round, requests, choice>>
    BY <1>1, <1>5, CallbackFresh
  <2>2. CASE DeviceFound
    <3>1. Fresh /\ results' = [results EXCEPT ![count] = Head(out).device]
      BY <2>2 DEF DeviceFound, Fresh
    <3>2. Head(out).device = found[Len(found)] /\ Len(found) \in 1..Len(found)
      <4>1. Head(out).device = found[Len(found)] /\ found # <<>> /\ found \in Seq(Devices)
        BY <1>1, <3>1, FreshHead DEF Types
      <4> QED
        BY <4>1, HeadOf, LenProperties
    <3>3. Head(out).device.round = round
      BY <1>1, <3>2 DEF Reports
    <3>4. \A i \in 0..MaxResults : results'[i].round <= round
      BY <1>1, <3>1, <3>3 DEF Types
    <3> QED
      BY <1>1, <2>1, <3>4 DEF Begun
  <2>3. CASE ~DeviceFound
    BY <1>1, <1>5, <2>1, <2>3, CallbackFresh DEF Begun
  <2> QED
    BY <2>2, <2>3
<1>6. CASE \E t \in Threads : Wait(t) \/ Thread(t)
  <2>1. PICK t \in Threads : Wait(t) \/ Thread(t)
    BY <1>6
  <2>2. round' = round /\ results' = results /\ choice' \in Devices /\ choice'.round <= round
    BY <1>1, <2>1, WaitMoves, ThreadMoves, ThreadRest DEF Kept, resultVars, Types
  <2>3. requests' = requests \/ \E to : Goto(t, to)
    BY <1>1, <2>1, WaitMoves, ThreadMoves
  <2>4. \A i \in 1..Len(requests') : requests'[i].device.round <= round
    <3>1. CASE requests' = requests
      BY <1>1, <3>1
    <3>2. CASE requests' # requests
      <4>1. /\ Len(requests') = Len(requests) + 1 /\ Len(requests) \in Nat
            /\ \A i \in 1..Len(requests) : requests'[i] = requests[i]
            /\ requests'[Len(requests) + 1].device = choice'
        BY <1>1, <2>2, <2>3, <3>2, GotoRequests
      <4> QED
        BY <1>1, <2>2, <4>1
    <3> QED
      BY <3>1, <3>2
  <2> QED
    BY <1>1, <2>2, <2>4 DEF Begun
<1> QED
  BY <1>2, <1>3, <1>4, <1>5, <1>6, NextCases

LEMMA ShapeInit ==
  Init => Shape
<1> SUFFICES ASSUME Init PROVE Shape
  OBVIOUS
<1>1. Types
  BY TypesInit
<1>2. Reports /\ ~Fresh /\ ~Gathering
  BY DEF Init, Reports, Fresh, Gathering
<1>3. /\ round = 0 /\ restarts = 0 /\ count = 0 /\ sem = 0 /\ stop = FALSE /\ requests = <<>>
      /\ choice.round = 0 /\ \A i \in 0..MaxResults : results[i].round = 0
  BY DEF Init, NoDevice
<1>4. Counts
  BY <1>2, <1>3, MaxResultsNat DEF Counts
<1>5. Begun
  BY <1>3 DEF Begun
<1> QED
  BY <1>1, <1>2, <1>4, <1>5 DEF Shape

LEMMA ShapeStep ==
  Shape /\ [Next]_vars => Shape'
<1> SUFFICES ASSUME Shape, [Next]_vars PROVE Shape'
  OBVIOUS
<1>1. CASE Next
  BY <1>1, TypesStep, ReportsStep, CountsStep, BegunStep DEF Shape
<1>2. CASE UNCHANGED vars
  <2>1. UNCHANGED <<rf, found, round, requests, out, pushing, results, count, notify, sem, stop, devState,
                    mwq, pc, choice, pulled, restarts, late, settled>>
    BY <1>2 DEF vars, stackVars, resultVars, threadVars
  <2>2. Types'
    BY <2>1 DEF Shape, Types, Waiting
  <2>3. Reports'
    BY <2>1 DEF Shape, Reports, PushToQReqd, Final
  <2>4. Counts'
    BY <2>1 DEF Shape, Counts, Gathering, Fresh
  <2>5. Begun'
    BY <2>1 DEF Shape, Begun
  <2> QED
    BY <2>2, <2>3, <2>4, <2>5 DEF Shape
<1> QED
  BY <1>1, <1>2

(* For any discoveries of two or three devices and any bounds: never more  *)
(* results than the array of phMwIfAndroid.cpp:2419 has room for, never a  *)
(* wakeup of the integration thread beyond one for each discovery and one  *)
(* to stop it, and only events that somebody waits for in the queue.       *)
THEOREM SelectTypes == Spec => []TypeOK
<1>1. Shape => TypeOK
  <2> SUFFICES ASSUME Shape PROVE TypeOK
    OBVIOUS
  <2>1. count \in 0..MaxResults /\ sem \in 0..(MaxRounds + 1)
    BY CountBound
  <2>2. \A i \in DOMAIN mwq : mwq[i] \in Kinds
    BY DEF Shape, Types
  <2> QED
    BY <2>1, <2>2 DEF Shape, Types, TypeOK
<1> QED
  BY <1>1, ShapeInit, ShapeStep, PTL DEF Spec

-----------------------------------------------------------------------------
(* The choice.                                                             *)

(* No request that is still to be processed selects a device of this round.*)
NoneSelected ==
  \A i \in 1..Len(requests) : requests[i].kind = "SELECT" => requests[i].device.round < round

(* The four situations of Choosing, and what they exclude.                 *)
LEMMA ChoosingFacts ==
  ASSUME Shape, Choosing, settled
  PROVE  /\ Gathering => /\ ~notify /\ pc["intg"] \in {"sem", "exit"} /\ Gathered
                         /\ (Fresh => count + 1 = Len(found)) /\ (~Fresh => count = Len(found))
         /\ notify \/ pc["intg"] = "choose" =>
              /\ rf \in {"host", "gone"} /\ pc["intg"] \in {"sem", "choose", "exit"} /\ Gathered
              /\ count = Len(found) /\ count >= 2
         /\ count # 0 => pc["intg"] \in {"sem", "choose", "select", "selected", "ended", "exit"}
         /\ count # 0 /\ pc["intg"] = "sem" => rf \in {"reporting", "host", "gone"}
         /\ Undecided => NoneSelected /\ pc["intg"] \in {"sem", "choose", "exit"}
         /\ Undecided /\ ~Fresh => rf \in {"reporting", "host", "gone"}
         /\ ~Undecided => ~Gathering /\ ~notify /\ pc["intg"] # "choose" /\ (count # 0 => pc["intg"] # "sem")
<1>1. count \in Nat /\ Len(found) \in 0..3
  BY CountsFacts
<1> QED
  BY <1>1, FreshBool DEF Choosing, Undecided, NoneSelected, Gathering

(* While nothing is to be chosen from, only the place of the thread counts.*)
LEMMA ChoosingIdle ==
  ASSUME ~Gathering', ~notify', pc'["intg"] # "choose", count' = 0 \/ pc'["intg"] # "sem",
         count' = 0 \/ pc'["intg"] \in {"select", "selected", "ended", "exit"}
  PROVE  Choosing'
BY DEF Choosing, Undecided

LEMMA NoneSelectedTail ==
  ASSUME NoneSelected, requests \in Seq(Requests), requests # <<>>, requests' = Tail(requests), round' = round
  PROVE  NoneSelected'
<1>1. /\ Len(requests') = Len(requests) - 1 /\ Len(requests) \in Nat \ {0}
      /\ \A i \in 1..Len(requests') : requests'[i] = requests[i + 1]
  BY TailType
<1> QED
  BY <1>1 DEF NoneSelected

LEMMA ChoosingParts ==
  (Choosing <=>
    (settled =>
      /\ Gathering => /\ ~notify /\ pc["intg"] \in {"sem", "exit"} /\ Gathered
                      /\ count + (IF Fresh THEN 1 ELSE 0) = Len(found)
      /\ notify \/ pc["intg"] = "choose" =>
           /\ rf \in {"host", "gone"} /\ pc["intg"] \in {"sem", "choose", "exit"} /\ Gathered
           /\ count = Len(found) /\ count >= 2
      /\ count # 0 => pc["intg"] \in {"sem", "choose", "select", "selected", "ended", "exit"}
      /\ count # 0 /\ pc["intg"] = "sem" => rf \in {"reporting", "host", "gone"}
      /\ Undecided => NoneSelected))
BY DEF Choosing, NoneSelected

LEMMA DiscoverChoosing ==
  ASSUME Shape, Choosing, Discover, settled'
  PROVE  Choosing'
<1>1. /\ settled /\ ~notify /\ pc["intg"] = "sem" /\ rf = "disc" /\ rf' = "reporting" /\ found' = <<>>
      /\ round' = round + 1 /\ UNCHANGED <<notify, pc, count, requests, results>>
  BY DEF Discover, Unseen, resultVars, threadVars
<1>2. ~Fresh /\ Fresh' = Fresh
  BY StackFresh DEF Discover, Shape
<1>3. count = 0
  BY <1>1, ChoosingFacts
<1>4. NoneSelected'
  <2>1. \A i \in 1..Len(requests) : requests[i].device.round <= round /\ requests[i].device.round \in Nat
    <3>1. \A i \in 1..Len(requests) : requests[i] \in Requests
      BY DEF Shape, Types
    <3> QED
      BY <3>1 DEF Shape, Begun, Requests, Devices
  <2>2. round \in Nat
    BY DEF Shape, Types
  <2> QED
    BY <1>1, <2>1, <2>2 DEF NoneSelected
<1>5. Gathered' /\ Len(found') = 0
  BY <1>1, <1>3 DEF Gathered
<1> QED
  BY <1>1, <1>2, <1>3, <1>4, <1>5 DEF Choosing, NoneSelected

LEMMA ReportChoosing ==
  ASSUME Shape, Choosing, ReportDevice, settled'
  PROVE  Choosing'
<1>1. /\ settled /\ UNCHANGED <<notify, pc, count, requests, results, round, pushing>> /\ out = <<>>
      /\ rf = "reporting"
  BY DEF ReportDevice, Unseen, resultVars, threadVars, NfaIdle
<1>2. Types /\ Reports
  BY DEF Shape
<1>3. /\ Len(found') = Len(found) + 1 /\ rf' \in {"reporting", "host"}
      /\ \A i \in 1..Len(found) : found'[i] = found[i]
      /\ \E more \in {"more", "last", "limit"} :
           out' = <<[kind |-> "DISC_RESULT", detail |-> more, device |-> found'[Len(found')]]>>
  BY <1>2, ReportDeviceType
<1>4. ~Fresh /\ ~pushing
  BY <1>1, <1>2, IdleNotPushing
<1>5. Fresh' /\ Gathering'
  BY <1>1, <1>3, <1>4 DEF Fresh, Gathering
<1>6. ~notify /\ pc["intg"] \in {"sem", "exit"} /\ Gathered /\ count = Len(found) /\ NoneSelected
  BY <1>1, <1>4, ChoosingFacts DEF Gathering, Undecided
<1>7. Gathered' /\ NoneSelected' /\ count' + 1 = Len(found') /\ count \in Nat
  BY <1>1, <1>3, <1>6, CountsFacts DEF Gathered, NoneSelected
<1> QED
  BY <1>1, <1>3, <1>5, <1>6, <1>7 DEF Choosing, NoneSelected

LEMMA NfaChoosing ==
  ASSUME Shape, Choosing, RemoteLeaves \/ Nfa, ~Discover, settled'
  PROVE  Choosing'
<1>1. Types /\ Reports
  BY DEF Shape
<1>2. /\ Fresh' = Fresh /\ UNCHANGED <<notify, pc, count, results, round, found>>
      /\ (rf' = "reporting" => rf = "reporting")
  BY <1>1, StackFresh DEF StackFrame, resultVars, threadVars
<1>3. settled
  BY DEF RemoteLeaves, Nfa, NfaSelect, NfaStop, NfaStart, NfaAnswer, NfaRefuse
<1>4. CASE ~Undecided
  <2>1. ~Gathering /\ ~notify /\ pc["intg"] # "choose" /\ (count # 0 => pc["intg"] # "sem")
        /\ (count # 0 => pc["intg"] \in {"sem", "choose", "select", "selected", "ended", "exit"})
    BY <1>3, <1>4, ChoosingFacts
  <2>2. ~Gathering'
    BY <1>2, <2>1, FreshBool DEF Gathering
  <2> QED
    BY <1>2, <2>1, <2>2, ChoosingIdle
<1>5. CASE Undecided
  <2>1. NoneSelected
    BY <1>3, <1>5, ChoosingFacts
  <2>2. ~RemoteLeaves
    <3>1. SUFFICES ASSUME RemoteLeaves PROVE FALSE
      OBVIOUS
    <3>2. rf = "active" /\ ~Fresh
      BY <3>1 DEF RemoteLeaves, NfaIdle, Fresh
    <3> QED
      BY <1>3, <1>5, <3>2, ChoosingFacts
  <2>3. requests # <<>> /\ requests' = Tail(requests) /\ requests \in Seq(Requests)
    BY <1>1, <2>2 DEF Nfa, NfaSelect, NfaStop, NfaStart, NfaAnswer, NfaRefuse, Requested, Types
  <2>4. NoneSelected'
    BY <1>2, <2>1, <2>3, NoneSelectedTail
  <2>5. rf' = rf \/ rf' = "gone"
    <3>1. CASE NfaSelect
      <4>1. SUFFICES ASSUME rf = "host", Head(requests).device \in Reported PROVE FALSE
        BY <3>1 DEF NfaSelect
      <4>2. Head(requests).kind = "SELECT" /\ Head(requests) = requests[1] /\ 1 \in 1..Len(requests)
        BY <2>3, <3>1, HeadOf DEF NfaSelect, Requested
      <4>3. Head(requests).device.round = round
        BY <1>1, <4>1 DEF Reported, Reports, Types
      <4>4. Head(requests).device.round < round
        BY <2>1, <4>2 DEF NoneSelected
      <4>5. round \in Nat
        BY <1>1 DEF Types
      <4> QED
        BY <4>3, <4>4, <4>5
    <3>2. CASE NfaStop
      <4>1. rf \notin {"reporting", "host", "gone"} /\ ~Fresh
        BY <3>2 DEF NfaStop, Requested, NfaIdle, Fresh
      <4> QED
        BY <1>3, <1>5, <4>1, ChoosingFacts
    <3>3. CASE NfaStart
      <4>1. ~Fresh /\ (rf' = rf \/ rf = "off")
        BY <3>3 DEF NfaStart, Requested, NfaIdle, Fresh
      <4> QED
        BY <1>3, <1>5, <4>1, ChoosingFacts
    <3>4. CASE NfaAnswer \/ NfaRefuse
      BY <3>4 DEF NfaAnswer, NfaRefuse
    <3> QED
      BY <2>2, <3>1, <3>2, <3>3, <3>4 DEF Nfa
  <2>6. (Gathering' => Gathering) /\ (Fresh' <=> Fresh) /\ (Gathered' <=> Gathered)
    BY <1>2, FreshBool DEF Gathering, Gathered
  <2> QED
    BY <1>2, <1>3, <2>4, <2>5, <2>6, ChoosingParts DEF Choosing, NoneSelected
<1> QED
  BY <1>4, <1>5

LEMMA CallbackChoosing ==
  ASSUME Shape, Choosing, Callback, settled'
  PROVE  Choosing'
<1>1. /\ Types /\ Reports /\ ~Fresh' /\ UNCHANGED <<rf, found, round, pc, requests, settled>> /\ settled
  BY CallbackFresh DEF Shape
<1>2. CASE DeviceFound
  <2>1. /\ Fresh /\ results' = [results EXCEPT ![count] = Head(out).device] /\ count' = count + 1
        /\ notify' = (notify \/ Final(Head(out)))
    BY <1>2 DEF DeviceFound, Fresh
  <2>2. /\ Head(out).device = found[Len(found)] /\ rf \in {"reporting", "host"}
        /\ (Final(Head(out)) => rf = "host")
    BY <1>1, <2>1, FreshHead DEF Final
  <2>3. /\ ~notify /\ pc["intg"] \in {"sem", "exit"} /\ Gathered /\ count + 1 = Len(found) /\ NoneSelected
    BY <1>1, <2>1, ChoosingFacts DEF Gathering, Undecided
  <2>4. count \in Nat /\ count \in 0..MaxResults /\ results \in [0..MaxResults -> Devices]
    BY <1>1, CountBound DEF Types
  <2>5. results'[count] = found[count + 1] /\ \A i \in 0..(count - 1) : results'[i] = results[i]
    BY <2>1, <2>2, <2>3, <2>4, MaxResultsNat
  <2>6. Gathered' /\ NoneSelected'
    BY <1>1, <2>1, <2>3, <2>4, <2>5 DEF Gathered, NoneSelected
  <2>7. (notify' => rf = "host") /\ (rf = "host" => Len(found) >= 2)
    BY <1>1, <2>1, <2>2, <2>3 DEF Reports
  <2>8. /\ pc'["intg"] \in {"sem", "exit"} /\ rf' \in {"reporting", "host"}
        /\ count' = Len(found') /\ rf' = rf /\ (rf' = "host" => count' >= 2)
        /\ (Gathering' <=> rf' = "reporting")
    BY <1>1, <2>1, <2>2, <2>3, <2>7 DEF Gathering
  <2>9. Gathering' => ~notify' /\ count' + (IF Fresh THEN 1 ELSE 0)' = Len(found')
    <3>1. count' \in Nat /\ (IF Fresh THEN 1 ELSE 0)' = 0
      BY <1>1, <2>1, <2>4
    <3> QED
      BY <2>7, <2>8, <3>1
  <2> QED
    BY <2>6, <2>7, <2>8, <2>9 DEF Choosing, NoneSelected
<1>3. CASE ~DeviceFound
  <2>1. UNCHANGED <<results, notify>> /\ count' \in {count, 0} /\ ~Fresh
    BY <1>1, <1>3, CallbackFresh
  <2>2. Gathering' <=> Gathering
    BY <1>1, <2>1 DEF Gathering
  <2>3. CASE ~Undecided
    <3>1. ~Gathering /\ ~notify /\ pc["intg"] # "choose" /\ (count # 0 => pc["intg"] # "sem")
          /\ (count # 0 => pc["intg"] \in {"sem", "choose", "select", "selected", "ended", "exit"})
      BY <1>1, <2>3, ChoosingFacts
    <3> QED
      BY <1>1, <2>1, <2>2, <3>1, ChoosingIdle
  <2>4. CASE Undecided
    <3>1. rf \in {"reporting", "host", "gone"}
      BY <1>1, <2>1, <2>4, ChoosingFacts
    <3>2. count' = count
      <4>1. SUFFICES ASSUME NotifyState, Head(out).kind = "DEACTIVATED" PROVE FALSE
        BY <1>3 DEF Callback, NotifyState, PushMw, resultVars
      <4>2. out # <<>> /\ out \in Seq(Events)
        BY <1>1, <4>1 DEF NotifyState, Types
      <4>3. Head(out) = out[1] /\ 1 \in 1..Len(out)
        BY <4>2, HeadOf
      <4> QED
        BY <1>1, <3>1, <4>1, <4>3 DEF Reports
    <3>3. NoneSelected /\ NoneSelected' /\ (Gathered' <=> Gathered) /\ (Undecided' <=> Undecided)
      BY <1>1, <2>1, <2>2, <2>4, <3>2, ChoosingFacts DEF NoneSelected, Gathered, Undecided
    <3> QED
      BY <1>1, <2>1, <2>2, <3>2, <3>3, ChoosingParts DEF Choosing, NoneSelected
  <2> QED
    BY <2>3, <2>4
<1> QED
  BY <1>2, <1>3

(* The thread of the library selects nothing, and waits of the integration *)
(* thread fall into the time when there is nothing to choose from.         *)
LEMMA KeptChoosing ==
  ASSUME Shape, Choosing, settled, Kept, UNCHANGED <<results, count, notify>>, pc'["intg"] = pc["intg"],
         NEW t, NEW to, Goto(t, to), to # "select", choice' \in Devices
  PROVE  Choosing'
<1>1. UNCHANGED <<rf, found, round, out, pushing, settled>> /\ Types
  BY DEF Kept, Shape
<1>2. (Fresh' <=> Fresh) /\ (Gathering' <=> Gathering) /\ (Gathered' <=> Gathered)
  BY <1>1 DEF Fresh, Gathering, Gathered
<1>3. Undecided' <=> Undecided
  BY <1>2 DEF Undecided
<1>4. ASSUME NoneSelected PROVE NoneSelected'
  <2>1. CASE requests' = requests
    BY <1>1, <1>4, <2>1 DEF NoneSelected
  <2>2. CASE requests' # requests
    <3>1. /\ Len(requests') = Len(requests) + 1 /\ Len(requests) \in Nat
          /\ \A i \in 1..Len(requests) : requests'[i] = requests[i]
          /\ requests'[Len(requests) + 1].kind # "SELECT"
      BY <1>1, <2>2, GotoRequests
    <3> QED
      BY <1>1, <1>4, <3>1 DEF NoneSelected
  <2> QED
    BY <2>1, <2>2
<1>5. Undecided => NoneSelected
  BY ChoosingFacts
<1> QED
  BY <1>1, <1>2, <1>3, <1>4, <1>5, ChoosingParts DEF Choosing, NoneSelected

LEMMA WaitChoosing ==
  ASSUME Shape, Choosing, NEW t \in Threads, Wait(t), settled'
  PROVE  Choosing'
<1>1. /\ Types /\ Kept /\ settled /\ UNCHANGED <<results, count, notify, choice>> /\ choice' \in Devices
      /\ t \in {"intg", "lib"} /\ pc \in [Threads -> IntgPlaces \cup LibPlaces] /\ "intg" \in Threads
  BY WaitMoves DEF Shape, Kept, resultVars, Types, Threads
<1>2. (Fresh' <=> Fresh) /\ (Gathering' <=> Gathering) /\ (Gathered' <=> Gathered)
  BY <1>1 DEF Kept, Fresh, Gathering, Gathered
<1>3. CASE UNCHANGED <<pc, requests>>
  <2>1. (Undecided' <=> Undecided) /\ (NoneSelected' <=> NoneSelected)
    BY <1>1, <1>2, <1>3 DEF Undecided, NoneSelected, Kept
  <2> QED
    BY <1>1, <1>2, <1>3, <2>1, ChoosingParts DEF Choosing, NoneSelected, Kept
<1>4. ASSUME NEW to \in Places(t), Goto(t, to), <<pc[t], to>> \in Edges
      PROVE  Choosing'
  <2>1. pc' = [pc EXCEPT ![t] = to] /\ to # "select"
    BY <1>4 DEF Goto, Edges
  <2>2. CASE t = "lib"
    <3>1. pc'["intg"] = pc["intg"]
      BY <1>1, <2>1, <2>2
    <3> QED
      BY <1>1, <1>4, <2>1, <3>1, KeptChoosing
  <2>3. CASE t = "intg"
    <3>1. pc["intg"] \notin {"sem", "choose", "exit"} /\ pc'["intg"] = to
      BY <1>1, <1>4, <2>1, <2>3 DEF Edges
    <3>2. ~Undecided
      BY <1>1, <3>1, ChoosingFacts
    <3>3. ~Gathering /\ ~notify /\ to # "choose"
      BY <1>1, <1>4, <3>2, ChoosingFacts DEF Edges
    <3>4. count = 0 \/ to \in {"selected", "ended"}
      <4>1. count = 0 \/ pc["intg"] \in {"sem", "choose", "select", "selected", "ended", "exit"}
        BY <1>1, ChoosingFacts
      <4> QED
        BY <1>4, <2>3, <3>1, <4>1 DEF Edges
    <3>5. ~Gathering' /\ ~notify' /\ count' = count
      BY <1>1, <1>2, <3>3
    <3> QED
      BY <3>1, <3>3, <3>4, <3>5, ChoosingIdle
  <2> QED
    BY <1>1, <2>2, <2>3
<1> QED
  BY <1>1, <1>3, <1>4, WaitMoves

LEMMA ThreadChoosing ==
  ASSUME Shape, Choosing, NEW t \in Threads, Thread(t), settled'
  PROVE  Choosing'
<1>1. /\ Types /\ Kept /\ settled /\ choice' \in Devices /\ results' = results
      /\ t \in {"intg", "lib"} /\ pc \in [Threads -> IntgPlaces \cup LibPlaces] /\ "intg" \in Threads
  BY ThreadMoves, ThreadRest DEF Shape, Kept, Types, Threads
<1>2. (Fresh' <=> Fresh) /\ (Gathering' <=> Gathering)
  BY <1>1 DEF Kept, Fresh, Gathering
<1>3. CASE t = "lib"
  <2>1. PICK to \in LibPlaces : Goto(t, to)
    BY <1>1, <1>3, ThreadMoves DEF Places
  <2>2. to # "select" /\ pc'["intg"] = pc["intg"]
    BY <1>1, <1>3, <2>1 DEF LibPlaces, Shared, Goto
  <2>3. UNCHANGED <<count, notify>>
    BY <1>3 DEF Thread, Discovery, DiscoveryStop, EnableDiscovery, DisableDiscovery, EnableAgain, DeInit,
                Release, StopThread, Join, LibFrame, resultVars
  <2> QED
    BY <1>1, <2>1, <2>2, <2>3, KeptChoosing
<1>4. CASE t = "intg" /\ Discovery(t)
  <2>1. UNCHANGED <<count, notify>> /\ pc["intg"] \in {"stopping", "started"}
    BY <1>4 DEF Discovery, DiscoveryStop, EnableDiscovery, resultVars
  <2>2. ~Undecided /\ count = 0
    BY <1>1, <2>1, ChoosingFacts
  <2>3. pc'["intg"] # "choose"
    BY <1>1, <1>4 DEF Discovery, DiscoveryStop, EnableDiscovery, Rest, Goto
  <2>4. ~Gathering /\ ~notify
    BY <1>1, <2>2, ChoosingFacts
  <2>5. ~Gathering' /\ ~notify' /\ count' = 0
    BY <1>2, <2>1, <2>2, <2>4
  <2> QED
    BY <2>3, <2>5, ChoosingIdle
<1>5. CASE t = "intg" /\ IntegrationThread
  <2>1. /\ UNCHANGED <<count, notify, requests>> /\ pc["intg"] = "sem"
        /\ pc'["intg"] \in {"exit", "choose", "sem"} /\ (pc'["intg"] = "choose" => notify)
    BY <1>1, <1>5, SendsValues DEF IntegrationThread, resultVars, Goto, Asking
  <2>2. UNCHANGED <<rf, found, round, settled>> /\ (Gathered' <=> Gathered)
    BY <1>1, <2>1 DEF Kept, Gathered
  <2>3. (Undecided' => Undecided) /\ (NoneSelected' <=> NoneSelected)
    BY <1>2, <2>1, <2>2 DEF Undecided, NoneSelected
  <2>4. Gathering => ~notify
    BY <1>1, ChoosingFacts
  <2> QED
    BY <1>1, <1>2, <2>1, <2>2, <2>3, <2>4, ChoosingParts DEF Choosing, NoneSelected
<1>6. CASE t = "intg" /\ SelectDevice
  <2>1. pc["intg"] = "choose" /\ pc'["intg"] = "select" /\ ~notify'
    BY <1>1, <1>6 DEF SelectDevice, Goto
  <2>2. ~Gathering'
    BY <1>1, <1>2, <2>1, ChoosingFacts
  <2> QED
    BY <2>1, <2>2, ChoosingIdle
<1>7. CASE t = "intg" /\ Selected
  <2>1. /\ pc["intg"] = "selected" /\ pc'["intg"] \in {"stopping", "sem"} /\ count' = 0
        /\ notify' = notify
    BY <1>1, <1>7 DEF Selected, Goto
  <2>2. ~Undecided
    BY <1>1, <2>1, ChoosingFacts
  <2>3. ~Gathering' /\ ~notify'
    BY <1>1, <1>2, <2>1, <2>2, ChoosingFacts
  <2> QED
    BY <2>1, <2>3, ChoosingIdle
<1> QED
  BY <1>1, <1>3, <1>4, <1>5, <1>6, <1>7 DEF Thread

LEMMA ChoosingStep ==
  SelectInvariant /\ [Next]_vars => SelectInvariant'
<1> SUFFICES ASSUME Shape, Choosing, [Next]_vars PROVE SelectInvariant'
  BY DEF SelectInvariant
<1>1. Shape'
  BY ShapeStep
<1>2. CASE ~settled'
  BY <1>1, <1>2 DEF SelectInvariant, Choosing
<1>3. CASE settled' /\ Next
  <2>1. CASE Discover
    BY <1>1, <1>3, <2>1, DiscoverChoosing DEF SelectInvariant
  <2>2. CASE ~Discover /\ (RemoteLeaves \/ Nfa)
    BY <1>1, <1>3, <2>2, NfaChoosing DEF SelectInvariant
  <2>3. CASE ReportDevice
    BY <1>1, <1>3, <2>3, ReportChoosing DEF SelectInvariant
  <2>4. CASE Callback
    BY <1>1, <1>3, <2>4, CallbackChoosing DEF SelectInvariant
  <2>5. CASE \E t \in Threads : Wait(t) \/ Thread(t)
    BY <1>1, <1>3, <2>5, WaitChoosing, ThreadChoosing DEF SelectInvariant
  <2> QED
    BY <1>3, <2>1, <2>2, <2>3, <2>4, <2>5, NextCases
<1>4. CASE UNCHANGED vars
  <2>1. UNCHANGED <<rf, found, round, requests, out, pushing, results, count, notify, pc, settled>>
    BY <1>4 DEF vars, stackVars, resultVars, threadVars
  <2>2. Choosing'
    BY <2>1 DEF Choosing, Undecided, Gathering, Gathered, Fresh
  <2> QED
    BY <1>1, <2>2 DEF SelectInvariant
<1> QED
  BY <1>2, <1>3, <1>4

LEMMA ChoosingInit ==
  Init => SelectInvariant
<1> SUFFICES ASSUME Init PROVE SelectInvariant
  OBVIOUS
<1>1. ~Gathering /\ ~notify /\ pc["intg"] = "sem" /\ count = 0
  BY DEF Init, Gathering, Fresh
<1>2. Choosing
  BY <1>1 DEF Choosing, Undecided
<1> QED
  BY <1>2, ShapeInit DEF SelectInvariant

(* The search of phMwIfi_SelectDevice ends at a result of this discovery.  *)
LEMMA ChoosesReported ==
  ASSUME SelectInvariant, [Next]_vars, Selecting, settled, Known
  PROVE  choice' \in Reported
<1>1. Shape /\ Choosing /\ pc["intg"] = "choose" /\ pc'["intg"] = "select"
  BY DEF SelectInvariant, Selecting
<1>2. /\ Types /\ pc \in [Threads -> IntgPlaces \cup LibPlaces] /\ "intg" \in Threads /\ "lib" \in Threads
  BY <1>1 DEF Shape, Types, Threads
<1>3. SelectDevice
  <2>1. pc'["intg"] # pc["intg"]
    BY <1>1
  <2>2. Next
    BY <2>1 DEF vars, threadVars
  <2>3. PICK t \in Threads : Wait(t) \/ Thread(t)
    <3>1. CASE Discover \/ ReportDevice \/ RemoteLeaves \/ Nfa
      BY <2>1, <3>1 DEF Discover, ReportDevice, RemoteLeaves, Nfa, NfaSelect, NfaStop, NfaStart, NfaAnswer,
                        NfaRefuse, Unseen, threadVars
    <3>2. CASE Callback
      BY <2>1, <3>2 DEF Callback, DeviceFound, NotifyState, PushMw, threadVars
    <3> QED
      BY <2>2, <3>1, <3>2, NextCases
  <2>4. \E to \in Places(t) : Goto(t, to)
    BY <1>2, <2>1, <2>3, WaitMoves, ThreadMoves
  <2>5. t = "intg"
    BY <1>2, <2>1, <2>4 DEF Goto, Threads
  <2>6. ~Waiting("intg")
    BY <1>1, SendsValues DEF Waiting, Asking
  <2>7. ~Wait("intg")
    BY <1>2, <2>6 DEF Wait, WaitPull, WaitLook, WaitTimeout, Types
  <2> QED
    BY <1>1, <2>3, <2>5, <2>7 DEF Thread, Discovery, DiscoveryStop, EnableDiscovery, IntegrationThread, Selected
<1>4. Gathered /\ count = Len(found) /\ count >= 2 /\ count \in Nat
  BY <1>1, ChoosingFacts, CountsFacts
<1>5. results[0] = found[1] /\ results[1] = found[2]
  BY <1>4 DEF Gathered
<1>6. Chosen \in {0, 1}
  BY <1>4, <1>5 DEF Chosen, Known
<1>7. choice' \in {found[1], found[2]} /\ 1 \in DOMAIN found /\ 2 \in DOMAIN found
  BY <1>2, <1>3, <1>4, <1>5, <1>6 DEF SelectDevice, Types
<1> QED
  BY <1>7 DEF Reported

(* For any discoveries and any bounds, whatever the library's thread and   *)
(* late answers do in between: as long as discoveries and selections do    *)
(* not overlap, the integration thread asks the stack for a device of the  *)
(* discovery that is waiting for its choice (phMwIfAndroid.cpp:1993).      *)
THEOREM SelectsReported == Spec => SelectsOfThisDiscovery
<1>1. SelectInvariant /\ [Next]_vars => [Selecting /\ settled /\ Known => choice' \in Reported]_vars
  BY ChoosesReported
<1> QED
  BY <1>1, ChoosingInit, ChoosingStep, PTL DEF Spec, SelectsOfThisDiscovery
=============================================================================
