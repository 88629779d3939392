----------------------------- MODULE MCTagTests -----------------------------
(* Instances of TagTests for TLC: tests whose control differs.             *)
EXTENDS TagTests

T(tag, cr12, p, l) == [tag |-> tag, cr12 |-> cr12, pattern |-> p, layout |-> l]

AllKinds ==
  { T("T1T", FALSE, 1, "-"), T("T2T", FALSE, 2, "06"), T("T3T", FALSE, 3, "-"),
    T("T4T", TRUE, 0, "-"), T("T5T", TRUE, 49, "-"),
    T("DEP_POLL", TRUE, 0, "-"), T("DEP_LISTEN", FALSE, 0, "-") }

T2TWrite == { T("T2T", FALSE, 2, "06") }
=============================================================================
