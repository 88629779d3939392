# TLA+ models of the NFC Forum DTA application

The repository is the Device Test Application (DTA) with which an Android NFC
stack is certified: a Java user interface, a JNI bridge, a C library that runs
the NFC Forum test applications (`dtaLib`), an abstraction of the NFC middleware
(`dtaMwAl`, over `libnfc-nci`) and a small operating system layer
(`dtaPlatform`).  This directory models its concurrent core: the queues between
the threads, the event loop that consumes them, the card emulation, tag and
NFC-DEP tests that run inside it, the LLCP loopback, the choice among several
devices, and the calls that initialise, configure and release it all.  Paths
below are relative to `src/nfc-dta/`.

Contents: [parts](#1-the-system) - [modules](#2-modules-and-code) -
[runs](#3-runs) - [proofs](#4-proofs) - [divergences](#5-where-code-and-documentation-disagree) -
[limits](#6-what-is-not-modelled) - [plan](#7-plan).

## 1. The system

### Threads

| thread | runs | waits on |
|---|---|---|
| stack (`libnfc-nci`) | `phMwIfi_NfaConnCallback`, `phMwIfi_NfaDevMgmtCallback`, the LLCP callbacks; each ends in `phDtaLibi_EvtCb` or `phDtaLibi_LlcpEvtCb` | a slot of the middleware queue, a slot of the DTA queue |
| DTA thread | `phDtaLibi_CbMsgHandleThrd`: every test application | the DTA queue; inside a request the middleware queue; inside the LLCP loopback the congestion queue |
| user interface | `phDtaLib_Init`, `EnableDiscovery`, `DisableDiscovery`, `DeInit` through JNI | the middleware queue, the end of the DTA thread |
| integration thread | `phMwIfi_IntegrationThread`: selects one of several devices | its semaphore, then the middleware queue, as the other threads do |
| NIO threads (Java) | the selector loops of the TCP client and server | their selectors |

### Components

**OSAL queue** (`dtaPlatform/phInfra/src/phOsal_Queue.c`).  State: two counting
semaphores (`semPush`: free slots, `semPull`: queued objects), a mutex and a
list.  Operations: `QueueCreate`, `Push`, `Pull`, `Flush`, `Destroy`.  Hard: the
semaphores are waited for outside the mutex and the list changes inside it;
three overwrite modes; timeouts; early returns.  Correct when semaphores and list
never drift, a block has one owner, a waiter is woken, and the whole is a FIFO.

**OSAL linked list** (`phOsal_LinkList.c`).  State: `psHead`, `psTail`,
`dwNumNodes`, the nodes.  Operations: insert and remove at a position, flush,
destroy.  Always called under the queue's mutex.  Correct when it is a sequence
and no call meets a freed node.

**OSAL semaphores, mutexes, threads** (`phDtaOsal/.../phDTAOSALAndroid.c`).  Thin
wrappers of POSIX; `SemaphoreWait` computes a deadline without carrying
nanoseconds and does not restart an interrupted wait; `ThreadDelete` joins.
Correct when each object exists once and is not used after its destruction.

**DTA event loop** (`dtaLib/src/src/phDTALib.c`).  State: the DTA queue, the test
pattern, flags of discovery and LLCP.  Operations: `EvtCb`, `LlcpEvtCb` (stack
thread), one handler per event, stop and restart of the discovery (DTA thread),
`Init`, `EnableDiscovery`, `DisableDiscovery`, `DeInit` (user interface).
Interacts with `dtaMwAl` by requests and by its callbacks.  Correct when every
handler ends, the discovery runs again after it, events of one activation are
not handled in another, and `DeInit` ends the thread.

**Card emulation tests** (`phDTA_HCETest.c`, `phDTA_HceFTest.c`,
`phDTA_UICCTest.c`).  No state of their own: loops inside a handler of the event
loop, HCE over the middleware queue, HCE-F and UICC over the DTA queue itself.

**Middleware abstraction** (`dtaMwAl/.../phMwIfAndroid.cpp`).  State: the
middleware queue, `eDeviceState`, `Pgu_event`, `gx_status`, a shared buffer, the
LLCP handles.  Operations: some forty requests, each a call of the stack and a
wait (`PH_WAIT_FOR_CBACK_EVT`) for the callback's answer.  Hard: one queue
serves every waiter; a wait drops what it does not want, gives up at a
deactivation and leaves its answer behind; globals are read after a wait.
Correct when a request is answered by its own answer and never blocks the
callback that would bring it.

**Device selection** (`phMwIfAndroid.cpp:1957-2085`, `2400-2436`).  State: the
results of a discovery (an array of five), their number, `gb_discovery_notify`,
the thread's semaphore, `blStopIntegrationThrd`.  Operations: the callback
collects results and wakes the integration thread at the last one; that thread
chooses, requests the selection, forgets the results and restarts the discovery.
Hard: the thread waits on the middleware queue through one global
(`g_dwEvtType`), at the same time as whoever restarts or releases the interface.
Correct when it chooses among what this discovery found, and serves until it is
joined.

**LLCP loopback** (`phDTA_LLCPTest.c`).  State: the congestion queue (15
entries), `bIsLlcpCoRemoteServerLinkCongested`,
`bIsLlcpCoRemoteClientDisconnected`, the connection handles.  Operations: the
loopback of received PDUs to the remote server, over the congestion queue while
the link is congested; the connectionless loopback.  Hard: the flags belong to
the stack's thread, the queue to the DTA thread.  Correct when every PDU is sent
at most once, on its own link, and no queued PDU is forgotten.

**Tag tests** (`phDTA_T1TTest.c` .. `phDTA_T5TTest.c`).  Command sequences over
`phMwIf_TagOperation` and `phMwIf_Transceive`, each command with its wait, ended
by the first failure and followed by a release of the tag or a restart of the
discovery.  Hard: the tag may leave between any two steps, and what a wait left
in the middleware queue is read by the next test's waits.  Correct when every
test ends, leaves the tag released and the discovery on, and leaves no message
half written.

**P2P and SNEP tests** (`phDTA_P2PTest.c`, `phDTA_SnepTest.c`).  The two NFC-DEP
loopbacks: the polling one exchanges frames until the peer is released, the
listening one receives and sends back until a frame fails.  The body of
`phDTA_SnepTest.c` is inside `#ifdef WIN32` and compiles to nothing on Android.

**JNI bridge, user interface** (`phDTALibJNI.cpp`, `PhDTAUIMainActivity.java`).
The protocol of calls: initialise, enable, disable, deinitialise.  State: the
bridge's own flag, beside `bInitialized` and `bLlcpInitialized` of `dtaLib`, and
three copies of the discovery parameters (application, `prev` in the middleware,
those of the last enable).  Hard: a failure ends some of the functions around it
and not those that ignore it, so a long sequence of calls meets what earlier
ones left.  Correct when each test runs as it was configured whatever ran
before, and disabling and releasing undo what was registered.

**TCP client and server** (`PhNioClient.java`, `PhNioServer.java`).  A selector
loop with a list of pending changes shared with the sending thread.

**Logging** (`phOsal_Log.c`).  Output only.

### Hard behaviours

`PROJECT.json` lists them as hazards, each at its line.  The main ones are the
interleavings of `Push` and `Pull`; producers that wait for ever on a queue
whose only consumer waits for them; a wait that takes a late answer for its own;
handlers that consume the queue their dispatcher consumes; flags tested by one
thread and written by another; a shutdown that races with all of this.

## 2. Modules and code

| module | models | state and actions |
|---|---|---|
| `OsalQueue` | `phOsal_Queue.c` with the semaphores of `phDTAOSALAndroid.c` | one action per point where another thread can run: the semaphore wait, the mutex, the list update, the post, the return; `Flush` is a loop of Pulls.  `obj` is the block a thread holds, `free` the allocator |
| `BoundedFifo` | nothing: the abstract queue the callers rely on | allocate, offer, take, discard, each atomic |
| `OsalLinkList` | `phOsal_LinkList.c` | one action per call and case of it; nodes are blocks with `ps_next` and `pvData`, `allocated` the live ones |
| `ListSequence` | nothing: the sequence `phOsal_Queue.c` relies on | add, take, clear at both ends |
| `DtaEventLoop` | `phDTALib.c`, the three card emulation tests, the parts of `phMwIfAndroid.cpp` they call | stack (external), callback, DTA thread and `DeInit` as four processes with `pc`; two queues |
| `LlcpEcho` | `phDTA_LLCPTest.c` and the LLCP part of `phDTALib.c` | link (external), callback with its flags, DTA thread |
| `TagTests` | `phDTA_T1TTest.c` .. `phDTA_T5TTest.c`, `phDTA_P2PTest.c`, the tag and NFC-DEP parts of `phDTALib.c`, the requests of `phMwIfAndroid.cpp` they make | tag, peer and stack (external), callback, DTA thread; a test is a sequence of steps (`prog`), an operator per test function says which |
| `DeviceSelect` | `phMwIfi_IntegrationThread`, `phMwIfi_SelectDevice`, `DISC_RESULT` in the callback, the discovery stop, restart and release of another thread beside them | controller and stack (external), callback, integration thread, the library's thread; both threads wait on `mwq` through `evtType` |
| `Lifecycle` | `phDtaLib_Init`, `DeInit`, `EnableDiscovery`, `DisableDiscovery`, `phMwIf_Init`, `DeInit`, `ReInit` and the configuration calls of `phMwIfAndroid.cpp`, the JNI bridge, the buttons | a call is a sequence of steps, each of which succeeds or fails; `osal`, `stack` and `route` are what exists, `hdl` what the program remembers of it |
| `OsalQueueProofs` | | theorems about `OsalQueue` |
| `OsalLinkListProofs` | | theorems about `OsalLinkList` |
| `DtaEventLoopProofs` | | theorems about `DtaEventLoop` |
| `LlcpEchoProofs` | | theorems about `LlcpEcho` |
| `TagTestsProofs` | | theorems about `TagTests` |
| `DeviceSelectProofs` | | theorems about `DeviceSelect` |
| `LifecycleProofs`, `LifecycleConfiguredProofs` | | theorems about `Lifecycle`: what exists; what is registered |
| `MCOsalQueue`, `MCOsalLinkList`, `MCDtaEventLoop`, `MCLlcpEcho`, `MCTagTests`, `MCDeviceSelect`, `MCLifecycle` | | instances for TLC |

How they fit: `OsalQueue` takes the list for a sequence, which `OsalLinkList`
refines; `DtaEventLoop`, `LlcpEcho` and `TagTests` take each queue for one atomic append and
one atomic take, which is what `OsalQueue` is shown to refine (`FifoCorrect`;
every queue of the program is created with `PHOSAL_QUEUE_NO_OVERWRITE`, and
every push of a callback has an infinite timeout).  `DeviceSelect` takes the
middleware queue for the same sequence, unbounded because few events are in it
at a time, and adds the second thread that pulls it.  `Lifecycle` is the frame
of all of them: it takes the threads for objects that exist or do not, and says
what is registered when `DtaEventLoop`, `LlcpEcho`, `TagTests` and
`DeviceSelect` begin.

Details worth knowing:

* *Blocks in `OsalQueue`.*  The caller of `Push` allocates; whoever ends with a
  block in its hand, the caller of a failed `Push` or of a `Pull`, frees it or
  drops the only pointer to it (`LetGo`), for the program does both.  The handlers of
  `phDTALib.c` free some events and drop others (lines 885-889, 944-954, 971-978,
  1120-1132, 1189-1193 and the default case), the loop of
  UICC frees none (`phDTA_UICCTest.c:57-70`), that of HCE-F not the one that ends it
  nor the commands (`phDTA_HceFTest.c:101-107`); after a failed push
  `phDtaLibi_EvtCb` frees, `phDtaLibi_LlcpEvtCb` (`phDTALib.c:1302-1304`) and the
  callbacks of the middleware (`phMwIfAndroid.cpp` 2372-2376, 2766-2770, 3418-3422,
  3593-3597, 4439-4443, 4673-4677) only log it.  So no property says that blocks
  are not lost.  `SingleOwner` says that none is in two hands.  In the overwriting
  modes the overwritten block is lost inside the queue.  After `Flush` has freed a
  pointer it did not pull (`badFree`) nothing is claimed of the blocks.
* *`InsertFollows` in `OsalLinkList`.*  The queue removes at the tail only to
  overwrite the newest object, and inserts at the tail at once; between the two
  calls the list is not well formed.  The constant says that callers do so.
* *Events in `DtaEventLoop`* carry the activation they belong to, an auxiliary
  value that no guard reads.  `StackStep` answers a request by the events the
  code in `src` waits for or handles; a request that starts an active discovery
  is answered as already started.  Configuration round trips of one call are one
  request, `CONFIG`.
* *Reading late in `DtaEventLoop`.*  `devState` and `dataLast` (`Pgu_event`) are
  written by the callback when it begins and read after the wait, as in the code.
* *PDUs in `LlcpEcho`* are numbers in order of arrival.  The DTA thread is the
  only one that touches the congestion queue.  One client connects per link.  While
  a newer client's request to connect waits, its handle is not the one of the
  connection: `phMwIf_LlcpConnOrientedRecvData` then reads nothing and succeeds
  (`phMwIfAndroid.cpp:4212-4225`), and a PDU of nothing is echoed.  The like exit of
  the sending request (`phMwIfAndroid.cpp:4246`) is not there: the handle it is given and the
  one it compares with are written together only (`phMwIfAndroid.cpp:4127-4128`).
* *Tests in `TagTests`.*  `Body` is what a test does while all goes well, `Ending`
  how it and the event loop end it, `OnFailure` what is left to do when a step
  fails; the three together are the control of a test function with its `break`s
  and `return`s.  A step that is not looked at by the code goes on to the next.
  The layout a test reads from the tag is part of the test, so the content of
  blocks matters in one place only: `mem` follows the NDEF message of the T2T
  write test, block by block, with "zero" for the length 0 it begins with.
* *Answers in `TagTests`.*  A refused command is answered with its completion
  event and a bad status, which the requests do not look at; an NDEF check is
  judged by `gb_device_ndefcompliant`, a frame by the last event the callback
  saw.  A wait may give up at any moment at which the queue is empty; `late`
  remembers that one did so before its answer had come, `spoiled` that a
  write was refused or reached the tag of a newer activation, and `astray` that a
  request of an earlier test put the newer tag to sleep or was refused its selection.
  The three are auxiliary.  `OnSuccess` is the code's two `gx_status` variables, of
  `libdta` and `libmwif`, being one at run time: a T3T test that tests it may
  read what a callback wrote meanwhile, a failure of its own or, below CR12 where the
  test is late, a success in place of its own failure.  Each activation is taken for a
  fresh tag.
* *A call in `Lifecycle`* is the concatenation of what the functions it calls do
  (`MwInit`, `HceInit`, ...).  `Ignoring(f, steps)` marks the steps inside a
  function whose result its caller ignores; when a step fails, `AfterFailure`
  removes what is left of the functions that return at it and keeps the rest.
  `Fault` is a failure out of nothing, `Vain` a request to a stack that is down or
  to the NFCEE while its callback is deregistered, `Misuse` the undefined
  behaviour of a destroyed queue or a missing handle: the step fails, or the
  process ends.  A wait that gives up after its request took effect is a fault
  with its effect.  `HciRefused` is the registration with the HCI that is refused:
  `phMwIfi_EeInit` ignores the result but returns the global `gx_status` that the
  refusal wrote, so the enabling fails.
* *Parameters in `Lifecycle`.*  A test is the set of what the application asks for.  "p2p"
  is `dwListenP2P`, "acm" `dwP2pAcmTar`: either makes the stack listen for NFC-DEP (in
  CR12 and CR13, the releases that are modelled; "acm" only beside something else to
  listen for), and only what the first one enabled is undone.  `Leftover`
  names what the code never takes back: P2P listening after a test that asked for it as
  ACM target alone, the ISO-DEP listening technology of host card emulation, and with both
  kinds of card emulation the registration with the HCI.
* *Auxiliaries of `Lifecycle`.*  `broken`: an initialisation or release of the
  middleware ended half-way.  `suspect`: a step failed since the last release, or
  the last clean disable, that left nothing behind.  `lost`: an object was created
  over one that existed.  No guard reads them.
* *Waits in `DeviceSelect`.*  A wait is two steps, the pull into the global
  `evtType` and the look at it, for another thread may pull between them; and the
  look reads it twice, so it may miss a deactivation that was replaced.  `Goto`
  enters a wait and sends the request the code sends before it.  `settled` is
  auxiliary: every discovery so far was chosen from, and over, before the next.

## 3. Runs

| run | instance | what it shows |
|---|---|---|
| `MCOsalQueue_fifo` | length 2, 2 producers, 1 consumer, 3 blocks, pushes with infinite and millisecond timeouts, pulls with whole seconds, fair; 63 k states | semaphores account for every slot and object; blocks have one owner; the mutex is released on every path; `Underflow` means empty; the queue refines `BoundedFifo`; a `Push` that waits on a full queue returns; a queued object is taken |
| `MCOsalQueue_overwrite` | `OVERWRITE_OLDEST`, length 2, 2 producers, 1 consumer, 1 flusher, 3 blocks, infinite and whole-second timeouts, interrupted waits, symmetric; 1.1 M states | a granted `Pull` finds an object although overwriting touches no semaphore |
| `MCOsalLinkList` | 4 nodes, 2 objects, all positions, insertion after removal at the tail | refines `ListSequence`; no freed node is read, no removed node is left allocated |
| `MCDtaEventLoop` | DTA queue 2, middleware queue 12, 2 activations of 2 frames, all protocols, LLCP pattern, `DeInit` at any moment until the second activation, fair; 283 k states | card emulation consumes its own activation's events only; whenever all is handled the discovery runs; every handler ends; the DTA thread ends, even when its queue is full when `DeInit` pushes, unless it is or goes into a card emulation that pulls the queue |
| `MCLlcpEcho_echo` | DTA queue 3, congestion queue 3, 3 PDUs, 2 congestions, 2 links, fair; 99 k states | at most one echo per PDU, no lost wakeup, no PDU survives its link, the backlog is sent |
| `MCLlcpEcho_full` | congestion queue 15 (the program's), 16 PDUs | *violation*: the backlog is never sent |
| `MCTagTests_tests` | DTA queue 3, middleware queue 8, 2 activations, each of any of 7 tests: T1T below CR12, T2T write, T3T that restarts, T4T loopback, T5T with sleep and select, NFC-DEP as initiator from CR12 and as target below it; fair; 986 k states | the message of a T2T write is never torn; a test leaves the tag released and the discovery on; a restarted discovery starts without an old deactivation; every test ends |
| `MCTagTests_stale` | queues of 20 (the program's), two T2T write tests | *violation*: the second test fails on the first one's DEACTIVATED event |
| `MCLifecycle_calls` | 4 tests: type F card emulation with the ACM target; polling with peer-to-peer and LLCP; polling, host card emulation of types A and F and peer-to-peer; UICC and eSE; any sequence of calls, one step fails; 682 k states | a test runs as configured whatever ran before; disabling and releasing undo all but `Leftover`; no second queue or thread; the flags say what is so; nothing destroyed is used |
| `MCLifecycle_routing` | one test: polling, host card emulation of type F and peer-to-peer; nothing fails; 40 states | *violation*: the routing entry of the type F emulation is replaced |
| `MCDeviceSelect_threads` | NFC-DEP and ISO-DEP, or T2T, T3T and T5T in the field; 2 discoveries or restarts, 1 answer that comes after its wait; fair; 331 k states | one of this discovery's devices is chosen; every discovery is chosen from; the release joins the thread |
| `MCDeviceSelect_other` | T2T and ISO-DEP, or two T2T, in the field | *violation*: a device that was not reported is selected |

**Bounds.**  Queue lengths are small where fullness must be reached and the
program's own where the question is whether it can be.  Two producers and a
consumer are the roles that meet in the program's queues; three blocks exceed
the length by one, so a queue is full while another `Push` holds a block.  The
flusher runs in the overwriting run; every combination of roles is covered by
the theorems.  Two activations are the least for events of one to
meet the handler of another; two frames let a command arrive while one is being
answered.  Two congestions let the second begin while the backlog of the first
is sent; two links let the PDUs of the first meet the second.  The seven
tests of `MCTagTests_tests` are one of each shape of control: an early return, a
plain sequence with a release, a restart, a loop, a test that activates its tag a
second time, a loop that ends with a restart and one that does not; the
other patterns are sequences of the same steps.  The four tests of
`MCLifecycle_calls` differ in what they register, with overlaps, and each may
follow each, any number of times: the state is finite without a bound on the
calls.  Only `MaxFaults` is bounded: one failure out of nothing, and whatever
follows from it.  Two rounds of `DeviceSelect` let a discovery begin, or a restart
stop it, while the former one is still being chosen from; one late answer lets a
wait take the answer of an earlier request.  `CHECK_DEADLOCK
FALSE` stands where bounded environments stop (activations, frames, PDUs) or,
in the overwriting queue, where every block may be lost.

`MCDtaEventLoop` needs room: with a middleware queue of 8 or less TLC finds a
mutual wait.  During HCE-F the middleware queue fills with commands nobody pulls
and with late answers, the callback blocks on it, and the DTA thread waits on
the DTA queue for an event the callback would bring.  The program's 20 entries
are filled by a longer session in the same way; the run shows that nothing
*else* keeps a handler from ending.  The DTA queue may be shorter than a session: HCE's
own waits give up when the callback blocks on it.

`ReleasedAfterTest` names its exceptions: the T1T tests below CR12, which
return before they deactivate the tag, a tag left asleep after a wait gave up,
a tag that came while `phMwIf_EnableDiscovery` wrote `eDeviceState`, and one that
an earlier test's requests to sleep and to select met (`astray`).
An NFC-DEP loopback that failed may leave its peer active: after
that the event loop neither stops nor starts the discovery (`phDTALib.c:992-1032`).
`NdefWhole` excepts a tag that refused a write (the code takes a refused write
for a success) and one that another test's late request reached.
`SelectsOfThisDiscovery` speaks of pairs the search of `SelectDevice` knows and of
discoveries that did not overlap (`settled`); `ThreadServes` of a thread that has not
ended because a selection failed.  In `Lifecycle`, `ConfiguredAsAsked` and
`NothingLeftWhenDisabled` claim nothing between a failed step and the next clean
release (`suspect`), and all but `TypeOK` nothing (`FlagsTruthful`: nothing of the
stack) after an initialisation or release of the middleware that ended half-way
(`broken`): TLC finds each of them violated there.  The first two allow besides
what `Leftover` names, and no more: the first test of `MCLifecycle_calls` is one that the
user interface offers (type F card emulation unticks Listen P2P, not the ACM target) and
that leaves P2P listening to the next.

**Fairness.**  Weak fairness of the stack's own steps, of the DTA thread and of
the steps of a `DeInit` that has begun: they are threads the kernel schedules,
and a timed wait on an empty queue returns.  Strong fairness of `RemoteLeaves`:
a reader or tag is taken from the field in the end (a T4T loopback may last as
long as the tag answers), although the moment at which it may
leave comes and goes.  In `OsalQueue`, strong fairness of obtaining a semaphore or the
mutex - what is available again and again is obtained in the end - and weak
fairness of the other steps of a call that has begun and of the consumer's loop.
In `DeviceSelect`, weak fairness of the stack's answers, of the callback, of the
integration thread and of the steps of a stop, restart or release that has begun.
`Lifecycle` has none: its properties are invariants.  Nothing forces an arrival, a frame, a congestion, a
call of `Push` or of `DeInit`.

Each property has a faulty variant of an action in its module (marked as such;
no specification uses it) that violates it: a token taken twice, a missing post, a
mutex kept on an early return, a wrong tail, an end of session ignored, one PDU
sent per wakeup, results kept after a selection, a thread woken and never told to
stop, registrations that survive their test.

## 4. Proofs

`OsalQueueProofs` proves, for every number of threads and blocks, every queue
length and every set of timeouts:

| theorem | property | assumes |
|---|---|---|
| `TypesCorrect` | `TypeOK` | - |
| `GrantedCorrect` | `GrantedPullFinds` | - |
| `TokensCorrect` | `TokenAccounting` | `Mode = "NO_OVERWRITE"` |
| `UnderflowCorrect` | `UnderflowMeansEmpty` | `Mode = "NO_OVERWRITE"` |
| `OwnersCorrect` | `SingleOwner` | `Mode = "NO_OVERWRITE"` |
| `MutexCorrect` | `MutexInsideOnly` | `~Interrupts` |
| `FifoCorrect` | `ImplementsFifo` | `Mode = "NO_OVERWRITE"` |

All also assume `QueueAssumption` (a positive length, finitely many threads).
`Mode` is that of every queue of the program.  `MutexCorrect` needs
`~Interrupts` because an interrupted untimed wait makes `Push` return with the
mutex held (`phOsal_Queue.c:289`).

*Argument.*  `TypeOK` is not inductive: a `Push` appends its thread's object, so
one must know that the thread has one.  The proof's `HandShape` adds where a thread
holds a block; together (`Shape`) they are inductive.  `TokenAccounting` is then
inductive: a step moves at most one thread in or out of the sets `HoldingSlot`
and `HoldingObject`, and the lemmas `Change` and `Balance` reduce each step to
that.  From it `ClaimFinds`: a thread that took a token of `semPull` finds the
list not empty, although the wait is outside the mutex.  That makes the removal
always succeed, which `Unshared` (the strengthening of `SingleOwner`) and the
refinement need.  `MutexInsideOnly` is strengthened to `Guarded` with the
statuses that a wait can leave.  `FifoCorrect` maps the insertion under the
mutex to `Offer`, the removal to `Take`, calls to `Allocate` and returns to
`Discard` or a stutter; that the insertion has room is `TokenAccounting` again.
`GrantedCorrect` holds in every mode, where only the inequality is kept: an
overwriting `Push` leaves the list as long as it was or longer and posts nothing, so
a step never grants more tokens than it leaves objects (`Covers`).

`OsalLinkListProofs` proves, for any number of nodes and any objects:

| theorem | property | assumes |
|---|---|---|
| `ListTypes` | `TypeOK` | `InsertFollows` |
| `NoFreedNode` | `NoFreedNodeRead` | `InsertFollows` |
| `SequenceCorrect` | `ImplementsSequence` | `InsertFollows` |
| `NothingLeaked` | `NoNodeLeak` | `InsertFollows` |

`InsertFollows` is how `phOsal_QueuePush`, the only caller that removes at the tail, uses
the list; without it the next traversal would read the freed node.

*Argument.*  The inductive invariant (`ListInvariant`) says that there is a sequence *q* of
allocated nodes, none twice, that the pointers link from the head to the tail (`ListOf`);
while an insertion is owed, the tail points to the freed node, and that one to nothing.
Each call has a lemma that names the sequence it leaves: `Append(q, n)`, `Tail(q)`,
`Front(q)`.  `RemoveTail` and `Flush` traverse the list with a recursive function; `WalkPath`
shows that it returns *q*: the function exists, for the prefixes of *q* satisfy its equation,
and two that satisfy it are equal, for there is no least argument at which they
differ (`Least`).  That no list is longer than there are nodes is the pigeonhole principle.
The objects of *q*'s nodes are then the contents of `ListSequence`, whose `Add` and
`TakeEnd` each call implements.

`LlcpEchoProofs` proves, from `EchoAssumption` alone (positive capacities), for
any number of PDUs, links and congestions:

| theorem | property |
|---|---|
| `EchoTypes` | `TypeOK` |
| `EchoedOnceCorrect` | `EchoedOnce` |
| `BacklogOfThisLinkCorrect` | `BacklogOfThisLink` |
| `NoLostWakeupCorrect` | `NoLostWakeup` |

*Argument.*  `Shape` adds to `TypeOK` that the link reports one event at a time,
or the two that end a link (`OutShape`).  `EchoedOnce` is inductive given `Shape`
and the place of each PDU (`Apart`): every step is the arrival of a new PDU,
moves one (`Moves`) from one place to the next, or takes for a PDU what was not read
(`Unread`).  `BacklogOfThisLink` needs the
order of the events that are still on their way (`Events`, the DTA queue and
then what the stack reports): `Order` says that the end of a link comes behind
each of its PDUs and before anything of the next link, and that while the thread
holds a PDU of a link that is gone, its end is still to come.  `NoLostWakeup` is
strengthened to `Awake` with the place between the test of the flag and the push:
there the congestion that was seen either lasts or its end is among the events.

`DtaEventLoopProofs` proves, from `LoopAssumption` alone (positive capacities, known
protocols), for any number of activations and frames:

| theorem | property |
|---|---|
| `LoopTypes` | `TypeOK` |
| `QuietMeansDiscoveringCorrect` | `QuietMeansDiscovering` |
| `SessionSeparationCorrect` | `SessionSeparation` |

*Argument.*  `Shape` adds to `TypeOK` that a card emulation is activated with a
protocol the dispatcher knows (`LoopEvents`); without it the thread could go nowhere.
`QuietMeansDiscovering` is strengthened to `Restart`: the thread that stopped the
discovery is between its stop and its start, or behind each queued request to stop
is one to start, and one is queued while the controller is off.
`SessionSeparation` says something of the head of the queue only; its
strengthening `Separate` says of every activation in the queue, and of the one whose
card emulation runs, that it is `Open`: behind it an event that ends its card
emulation comes before any of another session, and until it is queued the stack
still has it to report.  It is kept because the stack activates nothing before it
reported the end (`StackLasts`), with one exception that the proof needs:
`NFA_Disable` may end a session silently, but then no other follows.

`TagTestsProofs` proves, from `TagAssumption` alone (positive capacities, tests of the
known types), for any set of tests and any number of activations:

| theorem | property |
|---|---|
| `TypeCorrect` | `TypeOK` |
| `WritesWhole` | `NdefWhole` |
| `RestartsClean` | `RestartedClean` |
| `TestsRelease` | `ReleasedAfterTest` |

*Argument.*  `Shape` strengthens `TypeOK` with what the steps left of a test may be
(`ProgFits`): commands of its type of tag, with the steps of a restart at the end, whole
or begun; for the write test, the T5T test that sleeps and the NFC-DEP loopbacks the very
suffix of what they do.  The lemma `Follows` reduces `OnSuccess` and `OnFailures` to three
ways on: the next step, the end, or one of a few detours that no step of a release or a
restart takes.  `Arrivals` orders the activations: the thread meets them in the order
of the stack, and no test sends before its own is handled.  `NdefWhole` is then
strengthened to `Written`: of the writes of the test of the tag that is present, the
first *k* are done, those up to *m* are requested and wait in `reqs` in their order, and
the thread is at the next one, so the memory is `MemoryAfter` the first *k* writes.
A wait that gives up before its answer came ends the writes and loses none.
`RestartedClean` is strengthened to `InPhase`: from the stop to the end of
`phMwIf_EnableDiscovery`, while no wait gave up too early, the request, its report
or its answer is at one place and nothing is behind it (`StopPhase` .. `StartedPhase`);
when the discovery runs again whatever arrives is of a later activation
(`After`).  It needs that outside a restart nothing of one is on its way (`NoStop`), and that
`eDeviceState` is `IDLE` only inside one.
`ReleasedAfterTest` says something of quiet states only; `ReleaseInvariant` says of the others
what is still to come.  The discovery is off only inside a restart (`OffRestarts`); an
active tag is still to be released, or its release is asked for, or `eDeviceState` says it went
(`Held`); a tag that sleeps, or is to, belongs to the test that runs (`OwnSleep`) and is woken
or released after (`Wakes`).  What makes it hard is the race of `phMwIf_EnableDiscovery`: a tag
comes while `eDeviceState` is overwritten with `DISC`, its test runs with a device that
the library takes for absent, and its deactivation at the end returns at once.  For
the T5T test, which puts its tag to sleep, `Racing` follows the request to sleep, its answer
and the selection step by step, and shows that the tag is awake again before the test ends,
for in the race no deactivation of an earlier tag is left in the queue that a wait could take
for the answer (this is `RestartedClean` again).

`DeviceSelectProofs` proves, for any discoveries of two or three devices and any bounds:

| theorem | property |
|---|---|
| `SelectTypes` | `TypeOK` |
| `SelectsReported` | `SelectsOfThisDiscovery` |

*Argument.*  That the array of results keeps to its size and the semaphore to its count is
not a matter of types: `Counts` says that a discovery brings three results at most and
one wakeup.  `SelectsOfThisDiscovery` is strengthened to `Choosing`: while the
discoveries do not overlap, the results are those of this round from its first report
until one is chosen, and no request for one of its devices is pending before.

`LifecycleProofs` and `LifecycleConfiguredProofs` prove, from `LifecycleAssumption` alone
(what the application asks for is a set of the known functions), for any tests and any
number of failed steps:

| theorem | property | module |
|---|---|---|
| `LifecycleTypes` | `TypeOK` | `LifecycleProofs` |
| `LifecycleOneOfEach` | `OneOfEach` | `LifecycleProofs` |
| `LifecycleNoUseAfterDestroy` | `NoUseAfterDestroy` | `LifecycleProofs` |
| `LifecycleDeInitReleases` | `DeInitReleases` | `LifecycleProofs` |
| `LifecycleFlagsTruthful` | `FlagsTruthful` | `LifecycleProofs` |
| `LifecycleNothingLeft` | `NothingLeftWhenDisabled` | `LifecycleConfiguredProofs` |
| `LifecycleConfigured` | `ConfiguredAsAsked` | `LifecycleConfiguredProofs` |

*Argument.*  What a failed step leaves of a call is a recursive function (`Outside`);
`OutsideRest` says that it is the subsequence of the steps of no function that the
failure ends.  So what is wanted of the steps left must survive taking the first away
and leaving some of the others out.  `Steps` says which functions may ignore the
failure of which steps: those that initialise, release or set a flag are inside no
function of `Minor`.  `InOrder` relates any two steps by their order: before such a
step come only steps whose failure does not end its call (they are in a `Minor`
function, or their failure is a half-way initialisation); the LLCP flag comes after
the servers; the flags of dtaLib and the JNI are at the end.  `Served` says that each wait
comes while the middleware queue exists.  All three are found once for the sequence
of each call, function by function (`MwInitBuilds`, `EnableSteps`, ...).  `Sound`
makes them an invariant, with the types and with the agreement of the JNI and dtaLib
(`Together`).  `Library` then accounts for what exists: what the call still
deletes exists, what it still creates does not or is deleted first, and between the
calls all objects exist or none; while a release runs, `Off("up")` is to come or the
stack is down.  It holds until an initialisation or release fails half-way (`broken`).

The last two theorems compare what is registered with what the test asks for, and
`Account` is their invariant.  Its first half, `Ground`, needs only that the library is
whole: the callbacks of the middleware (`Base`) are there and stay, or are still
registered, the steps left are in a `Tidy` order, and a release still withdraws the
LLCP mode.  The other half, `Clean`, holds while no failure is outstanding (`suspect`) and
no initialisation or release ended half-way (`broken`), and says of each part of the state what the steps
left make of it:

* `Registered`: what the test wants is in the stack and no step takes it out, or a step
  puts it in; what it does not want is not in the stack (by `Members`, no step puts
  it there).
* `Remembered`, `Moded`, `Routed`: the same of the three copies of the parameters, the
  two handles of card emulation, the LLCP flags and the routing table.
* `Discovered`: the discovery is stopped before any step that a running one would
  have refused, and `eDeviceState` tells whether it runs.
* `AidHeld`: the one handle kept for an AID or a system code is the AID's when
  the AID is to be deregistered.
* `Removed`: while the discovery is disabled, what is in the stack has a step left that
  takes it out.  Such a step is lost when one before it in its function is refused.  For
  the system code and the HCI the steps that begin the release are therefore spelled out
  (`FelicaOut`, `HciOut`): there the callback shared by host and NFCEE decides.
* `Bare`: nothing of an earlier test is left when the library is initialised.

`Registered`, `Removed` and `Bare` leave out what `Stays`: P2P listening, where some test
asks for it as ACM target alone, while the test at hand did not ask for it itself.  The
theorems allow it by `Leftover`, with the ISO-DEP listening technology, of which
`Registered` says only that a type F emulation on its own finds it disabled.

The programs of the six calls are taken apart as the code is, function by function:
`Part(p, K, l, h)` says that a part consists of steps of kind *K* from the phases *l* to
*h* of its call, so that parts put together in the order of their phases are `Tidy`
(`MwInitPart`, `LlcpPart`, `HcePart`, `StopPart`, ...; `EnableProgram`, ...,
`DeInitProgram`).  That a step keeps the account rests on one fact (`StepMoves`): while nothing
is suspect and the library is whole, a step succeeds, or it is one of a few that the stack may
refuse with nothing wrong (a deregistration of what is not there, the wait for an NFCEE
without callback, the registration with the HCI), and what its failure skips are
steps of the same function (`Lost`).  Then each conjunct of `Clean` has its
lemma (`MovedRegistered`, ..., `MovedRemoved`), and each call one for its beginning
(`EnableAccount`, ..., `RestartAccount`).  With the constants of `MCLifecycle_calls` TLC
finds `Account` true of all 682 000 states.

*Model-checked only*: all liveness (out of the prover's reach: `ThreadServes`,
`LoopReturns`, `ThreadExitsUnlessNested`, `TestsEnd`, `BacklogSent` and those of the
queue).  Every safety invariant
that a run checks is the property of a theorem.

## 5. Where code and documentation disagree

`PROJECT.json` quotes the lines.

* The congestion queue is emptied by the thread that fills it; the 16th PDU of
  a congested link blocks it for ever.
* A T5T test consumes the DEACTIVATED event that a link error leaves in the
  middleware queue, and says that the next test fails otherwise; the tests of
  the other types do not consume it, and the next test does fail.
* `SelectDevice` is to select one of the detected devices.  Its search leaves
  the loop for the pairs it knows only; for others (a T2T before an ISO-DEP device,
  two T2T) it ends behind the last result and selects what no discovery reported.
* The routing for peer-to-peer is to keep the entry of HCE-F when both are enabled
  (`phMwIfAndroid.cpp:1300-1304`).  It keeps that of HCE-A, ISO-DEP, and drops
  T3T.  `phDtaLib_EnableDiscovery` accepts the two together; the user interface
  unticks Listen P2P when HCE-F is selected.

Two more were met in code that no caller of the program reaches, and are not
claimed by a run: in `OVERWRITE_OLDEST` mode a `Pull` may time out although an
object is queued (an overwriting `Push` posts no semaphore after a consumer
emptied the list), and a removal at the list's tail without an insertion after
it leaves the new tail pointing at the freed node (`InsertFollows = FALSE`).

Behaviour that the models show and no run claims:

* Queue: `phOsal_QueueFlush` frees its variable after every result but
  `Q_UNDERFLOW`; its one-millisecond wait fails, without setting the variable, when
  the clock's nanoseconds overflow.
* Event loop: the dummy event with which `phDtaLib_DeInit` ends the DTA thread is
  taken by the loops of UICC and HCE-F inside that thread like any other event, and the
  join does not return (the exception of `ThreadExitsUnlessNested`).  CE_DATA is pushed
  to the DTA queue as well, which nobody reads during HCE: after 20 commands the callback
  blocks, until the waits of the HCE loop give up.  A command of an earlier activation may be answered in a later one.
  `phMwIf_EnableDiscovery` may overwrite the state that a newer activation set.
* LLCP: the backlog of a congested link is sent without the test for the remote
  client that the direct path makes (`phDTA_LLCPTest.c:225`); echoes may be
  reordered (a PDU received just after a congestion overtakes the queued ones); a
  link that ends while congested leaves the flag set for the next; a client that
  reconnects on one link is never echoed, for the flag of its predecessor is reset
  by the link's activation only.
* Tag tests: a wait that takes an old deactivation for its answer ends its test before its
  requests are processed; a T5T test's requests to sleep and to select may then meet the
  next tag, which nobody wakes (`astray`).  It takes nine activations, far beyond
  the bounds of the runs: the proof of `ReleasedAfterTest` failed without the exception.
* Device selection: devices of an earlier discovery may be chosen when discoveries
  and selections overlap.  A discovery whose last result reports the controller's
  limit wakes nobody unless that device is a T5T.  After a failed selection the
  thread ends and no later discovery of several devices is chosen from.  A thread
  that restarts the discovery may take the integration thread's answer, and then
  runs until its own wait gives up.
* Lifecycle: `phDtaLib_DeInit` ignores the failure of `phMwIf_DeInit`, and the user
  interface that of the initialisation.  A failed `phMwIf_LlcpInit` leaves
  `bLlcpEnabled` set, and later tests run in LLCP mode.
  P2P listening that was enabled for an ACM target (`phMwIfAndroid.cpp:2128-2157`) is
  disabled only for `dwListenP2P` (`2253-2259`): after type F card emulation with ACM target the
  next tests listen for it too.  The ISO-DEP listening technology (`2214`) is undone by
  no disabling.  A refused registration with the HCI, whose result is ignored, fails
  the enabling through `gx_status` (`1049`, `3541-3542`).  `phMwIf_CeDeInit` deregisters the NFCEE
  callback; a routing update before the next registration then waits for its
  5 seconds.  With types A and F, the host's card emulation is deinitialised twice.
  After a test of host card emulation and UICC or eSE, which the check boxes allow,
  the registration with the HCI may stay: the host's release has taken the shared NFCEE
  callback away, and `phMwIfi_EeDeInit` begins with the same deregistration and, refused,
  returns before the one from the HCI (`phMwIfAndroid.cpp:1112-1120`).
  `Leftover` allows it only where such a test exists; none of the four
  of `MCLifecycle_calls` is one.
* Memory: many handlers and most callbacks do not free the event they hold (*Blocks in
  `OsalQueue`*, section 2); a DTA that runs long loses a block with each.

## 6. What is not modelled

* Contents of frames, NDEF data, configuration values, logging: data that no
  property distinguishes.
* The NFC stack and the remote device: external, modelled by the events that the
  code in `src` handles.
* Memory destroyed under a waiting thread: `DtaEventLoop` lets the wait end with
  a failure.
* The connectionless loopback and service discovery: each PDU is answered at once,
  no state is kept, and which service answers depends on the remote's choice.
* SNEP: `phDTA_SnepTest.c:35-895` is compiled on Windows only.
* The TCP client and server: they drive the buttons from outside, and no test
  depends on their state; their selector loop is that of Java NIO.
* The automatic mode and the parsing of patterns in the user interface; timers,
  delays and sockets of the OSAL, which the modelled code does not call or which
  only take time.
* The buffers of `phMwIfAndroid.cpp` for chained data and the fields of the
  configuration commands: contents.
* View code of the user interface and vendored stack headers.

## 7. Plan

Done, in this order: 1. `OsalQueue`, `BoundedFifo` and their proofs; 2.
`OsalLinkList`, `ListSequence`; 3. `DtaEventLoop` for card emulation; 4.
`LlcpEcho`, connection oriented; 5. `TagTests`, then its NFC-DEP loopbacks; 6.
`Lifecycle`, the calls with their partial failures; 7. `DeviceSelect`, two threads on
the middleware queue; 8. the theorems about `LlcpEcho` and `DtaEventLoop`;
9. the theorems about `DeviceSelect` and `TagTests`; 10. those about `OsalLinkList`;
11. those about `Lifecycle`.

Liveness stays with TLC (end of section 4).

Possible extensions of the model: the connectionless loopback in `LlcpEcho`, the
automatic mode of the user interface in `Lifecycle`, a middleware queue with a
bound in `DeviceSelect`.
