---------------------------- MODULE MCTestRunner ----------------------------
(***************************************************************************)
(* TestRunner for TLC: a suite of two tests that make up to three logging  *)
(* calls each, scopes nested twice, at most one append lost per run.  The  *)
(* on-screen log has five lines, one more than the summary: output of the  *)
(* tests left on it would be seen.                                         *)
(***************************************************************************)
EXTENDS TestRunner

CONSTANTS t1, t2, s1

MCTests == <<t1, t2>>
MCTestNames == {t1, t2}
MCScopeNames == {s1}
MCValue == {t1, t2, s1, Pass, Fail, Text} \cup 0 .. MaxTests
=============================================================================
