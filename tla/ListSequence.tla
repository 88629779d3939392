----------------------------- MODULE ListSequence -----------------------------
(***************************************************************************)
(* What phOsal_LinkList promises: a sequence of objects that grows and     *)
(* shrinks at both ends.  got is the object that the last removal handed   *)
(* to its caller.                                                          *)
(***************************************************************************)
EXTENDS Sequences, SequencesExt

CONSTANTS Data, NULL

VARIABLES contents, got

seqVars == <<contents, got>>

SeqInit == contents = <<>> /\ got = NULL

Add ==
  /\ \E d \in Data : contents' \in {Append(contents, d), <<d>> \o contents}
  /\ UNCHANGED got

TakeEnd ==
  /\ contents # <<>>
  /\ \/ got' = Head(contents) /\ contents' = Tail(contents)
     \/ got' = Last(contents) /\ contents' = Front(contents)

TakeNothing == contents = <<>> /\ got' = NULL /\ UNCHANGED contents

Clear == contents' = <<>> /\ UNCHANGED got

SeqSpec == SeqInit /\ [][Add \/ TakeEnd \/ TakeNothing \/ Clear]_seqVars
=============================================================================
