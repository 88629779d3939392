----------------------------- MODULE MCLifecycle -----------------------------
(* Instances of Lifecycle for TLC.                                         *)
EXTENDS Lifecycle

(* Type F card emulation alone leaves peer-to-peer listening unticked in   *)
(* the user interface, but not the active communication target.            *)
Tests == { {"hceF", "acm"}, {"poll", "p2p", "llcp"}, {"poll", "hceA", "hceF", "p2p"}, {"uicc", "ese"} }

(* What the comment in phMwIfi_P2pRoutingConfigure is about.               *)
HceFAndP2p == { {"poll", "hceF", "p2p"} }
=============================================================================
