------------------------------ MODULE MCOsalQueue ------------------------------
(***************************************************************************)
(* Small instances of OsalQueue for TLC.  Threads and blocks are model     *)
(* values; the run of the overwriting mode, which checks an invariant      *)
(* only, is symmetric in the blocks and in the threads of a role.          *)
(***************************************************************************)
EXTENDS OsalQueue, TLC

CONSTANTS p1, p2, c1, f1, o1, o2, o3

(* The roles' threads.  In NFA's use of the queue one callback thread      *)
(* pushes; the DTA thread pushes its own shutdown event, hence two.        *)
TwoPushers == {p1, p2}
OnePuller  == {c1}
OneFlusher == {f1}
None       == {}

TwoObjects   == {o1, o2}
ThreeObjects == {o1, o2, o3}

Infinite  == {"infinite"}
Seconds   == {"seconds"}
InfiniteOrSeconds == {"infinite", "seconds"}
InfiniteOrMillis  == {"infinite", "millis"}

Symmetry == Permutations(Objects) \cup Permutations(Pushers) \cup Permutations(Pullers)
=============================================================================
