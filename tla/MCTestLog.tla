------------------------------ MODULE MCTestLog -----------------------------
(***************************************************************************)
(* TestLog for TLC: two test names, one scope name, scopes nested twice,   *)
(* two tests, an on-screen log of two lines.  Two of each is where a       *)
(* separator, a second closing bracket and an eviction first matter.       *)
(***************************************************************************)
EXTENDS TestLog, TLC

CONSTANTS t1, t2, s1, MaxDepth

MCTestNames == {t1, t2}
MCScopeNames == {s1}
MCValue == {t1, t2, s1, Pass, Fail, Text} \cup 0 .. MaxTests

\* The test names are interchangeable.
Symmetry == Permutations(MCTestNames)

\* At most MaxTests objects recorded in "tests", and MaxDepth scopes open.
Bounded == Len(doc.tests) <= MaxTests /\ Len(array_has_item) <= MaxDepth + 1
=============================================================================
