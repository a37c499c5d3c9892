------------------------------ MODULE TestLog -------------------------------
(***************************************************************************)
(* src/test_log.cpp: the structured test log.  The state is g_state; doc   *)
(* stands for the log file (see JsonStream).  One action per call of the   *)
(* API; EndTest and EndSuite, which append several times, are one action   *)
(* per append, so that a crash can fall between two appends.               *)
(*                                                                         *)
(* The client is any single thread that respects what the library relies   *)
(* on and does not check (see Call): TestRunner.tla shows the real one does. *)
(*                                                                         *)
(* Bounds: the numbers of a summary are at most MaxTests, a dump has at    *)
(* most MaxDumpRows rows, and the file system refuses at most MaxLost      *)
(* appends after an Initialize.                                            *)
(***************************************************************************)
EXTENDS JsonStream, FiniteSets

CONSTANTS TestNames, ScopeNames,
          Pass, Fail,              \* the two results a test is recorded with
          Text,                    \* any other line of text
          kMaxOnScreenLogLines, MaxTests, MaxDumpRows, MaxLost

ASSUME ValueAssumption ==
    /\ TestNames \cup ScopeNames \cup {Pass, Fail, Text} \cup 0 .. MaxTests \subseteq Value
    /\ Pass # Fail

ASSUME BoundAssumption ==
    /\ kMaxOnScreenLogLines \in Nat \ {0}
    /\ MaxTests \in Nat /\ MaxDumpRows \in Nat /\ MaxLost \in Nat

VARIABLES initialized, phase, has_tests, array_has_item, on_screen_log, \* g_state
          call,      \* the EndTest or EndSuite that has not returned, and its arguments
          doc,       \* the log file, as read so far
          lost       \* appends the file system has refused since Initialize

g_state == <<initialized, phase, has_tests, array_has_item, on_screen_log>>
vars == <<g_state, call, doc, lost>>

Phase == {"kNoSuite", "kSuiteEvents", "kTests", "kInTest", "kDone"}

Returned == [op |-> "none", result |-> Fail, passed |-> 0, failed |-> 0]

Init ==
    /\ initialized = FALSE /\ phase = "kNoSuite" /\ has_tests = FALSE
    /\ array_has_item = <<>> /\ on_screen_log = <<>>
    /\ call = Returned /\ doc = EmptyDoc /\ lost = 0

-----------------------------------------------------------------------------
(* Helpers *)

\* Mutant of EchoLines: old lines are never dropped.
EchoLinesKeepAll(log, lines) == log \o lines

\* The last kMaxOnScreenLogLines lines of the log and what is echoed to it.
EchoLines(log, lines) ==
    LET all == log \o lines
        cut == Len(all) - kMaxOnScreenLogLines
    IN  IF cut > 0 THEN SubSeq(all, cut + 1, Len(all)) ELSE all

Echo(lines) == on_screen_log' = EchoLines(on_screen_log, lines)

\* The file is opened again for every append; on failure the text is dropped,
\* a message goes to the debug console, and the caller is not told.
AppendToFile(read) ==
    IF ~initialized THEN UNCHANGED <<doc, lost>>
    ELSE \/ doc' = read /\ UNCHANGED lost
         \/ lost < MaxLost /\ lost' = lost + 1 /\ UNCHANGED doc

CanRecordEvent ==
    initialized /\ array_has_item # <<>> /\ phase \in {"kSuiteEvents", "kInTest"}

HasItem == array_has_item[Len(array_has_item)]

\* Mutant of BeginEventItem: no separator.
BeginEventItemNoComma == doc

\* The separator before a new item of the innermost events array.
BeginEventItem == IF HasItem THEN Comma(doc) ELSE doc

\* Mutant of FreshArray: the entries of the array before are kept.
FreshArrayPushed == Append(array_has_item, FALSE)

\* array_has_item.assign(1, false)
FreshArray == <<FALSE>>

\* Mutant of ItemWritten: the flag is not set.
ItemWrittenForgotten == array_has_item

ItemWritten == [array_has_item EXCEPT ![Len(array_has_item)] = TRUE]

-----------------------------------------------------------------------------
(* The API *)

Initialize(opened) ==
    /\ initialized' = opened
    /\ IF opened THEN doc' = EmptyDoc /\ lost' = 0 ELSE UNCHANGED <<doc, lost>>
    /\ UNCHANGED <<phase, has_tests, array_has_item, on_screen_log, call>>

BeginSuite ==
    /\ phase' = "kSuiteEvents" /\ has_tests' = FALSE /\ array_has_item' = FreshArray
    /\ AppendToFile(Arr(Comma(Members(Obj(doc), <<Text>>)), "events"))
    /\ UNCHANGED <<initialized, on_screen_log, call>>

\* Mutant of CloseSuiteEvents: the suite's own events stay open.
CloseSuiteEventsMissing == doc

CloseSuiteEvents == IF phase = "kSuiteEvents" THEN Arr(Comma(EndArr(doc)), "tests") ELSE doc

BeginTest(name) ==
    /\ Echo(<<Text, name>>)
    /\ IF initialized /\ phase \in {"kSuiteEvents", "kTests"}
       THEN LET sep == IF has_tests THEN Comma(CloseSuiteEvents) ELSE CloseSuiteEvents
            IN  /\ AppendToFile(Arr(Comma(Members(Obj(sep), <<name>>)), "events"))
                /\ has_tests' = TRUE /\ phase' = "kInTest" /\ array_has_item' = FreshArray
       ELSE UNCHANGED <<has_tests, phase, array_has_item, doc, lost>>
    /\ UNCHANGED <<initialized, call>>

Event ==
    /\ Echo(<<Text>>)
    /\ IF CanRecordEvent
       THEN AppendToFile(Item(BeginEventItem)) /\ array_has_item' = ItemWritten
       ELSE UNCHANGED <<array_has_item, doc, lost>>
    /\ UNCHANGED <<initialized, phase, has_tests, call>>

\* A dump echoes a title and one line per 16 bytes, and records one event.
HexDump(rows) ==
    /\ Echo([i \in 1 .. rows + 1 |-> Text])
    /\ IF CanRecordEvent
       THEN AppendToFile(Item(BeginEventItem)) /\ array_has_item' = ItemWritten
       ELSE UNCHANGED <<array_has_item, doc, lost>>
    /\ UNCHANGED <<initialized, phase, has_tests, call>>

BeginScope(name) ==
    /\ Echo(<<name>>)
    /\ IF CanRecordEvent
       THEN /\ AppendToFile(Arr(Comma(Members(Obj(BeginEventItem), <<name>>)), "events"))
            /\ array_has_item' = Append(ItemWritten, FALSE)
       ELSE UNCHANGED <<array_has_item, doc, lost>>
    /\ UNCHANGED <<initialized, phase, has_tests, call>>

\* EndScope past its early return.
CloseScope ==
    /\ Len(array_has_item) >= 2
    /\ array_has_item' = SubSeq(array_has_item, 1, Len(array_has_item) - 1)
    /\ AppendToFile(EndObj(EndArr(doc)))
    /\ UNCHANGED <<initialized, phase, has_tests, on_screen_log>>

EndScope ==
    /\ \/ CloseScope
       \/ Len(array_has_item) < 2 /\ UNCHANGED <<g_state, doc, lost>>
    /\ UNCHANGED call

EndTest(result) ==
    /\ call' = IF phase = "kInTest"
               THEN [op |-> "EndTest", result |-> result, passed |-> 0, failed |-> 0]
               ELSE call
    /\ UNCHANGED <<g_state, doc, lost>>

EndSuite(passed, failed) ==
    /\ call' = [op |-> "EndSuite", result |-> Fail, passed |-> passed, failed |-> failed]
    /\ UNCHANGED <<g_state, doc, lost>>

\* The rest of EndTest, also run by EndSuite when a test is still open: the
\* scopes still open are closed one append at a time, then the result is written.
EndTestScope ==
    /\ call.op # "none" /\ phase = "kInTest"
    /\ CloseScope
    /\ UNCHANGED call

\* Mutant of EndTestRecord: the scopes still open are not closed first.
EndTestRecordScopesOpen ==
    /\ call.op # "none" /\ phase = "kInTest"
    /\ AppendToFile(EndObj(Members(Comma(EndArr(doc)), <<call.result>>)))
    /\ phase' = "kTests" /\ array_has_item' = <<>>
    /\ call' = IF call.op = "EndTest" THEN Returned ELSE call
    /\ UNCHANGED <<initialized, has_tests, on_screen_log>>

EndTestRecord ==
    /\ call.op # "none" /\ phase = "kInTest" /\ Len(array_has_item) <= 1
    /\ AppendToFile(EndObj(Members(Comma(EndArr(doc)), <<call.result>>)))
    /\ phase' = "kTests" /\ array_has_item' = <<>>
    /\ call' = IF call.op = "EndTest" THEN Returned ELSE call
    /\ UNCHANGED <<initialized, has_tests, on_screen_log>>

\* Mutant of EndSuiteRecord: a test still open is not ended first.
EndSuiteRecordTestOpen ==
    /\ call.op = "EndSuite"
    /\ LET closed == IF phase = "kSuiteEvents" THEN EndArr(CloseSuiteEvents) ELSE EndArr(doc)
       IN  AppendToFile(EndObj(Members(Comma(closed), <<call.passed, call.failed>>)))
    /\ phase' = "kDone" /\ array_has_item' = <<>>
    /\ call' = Returned
    /\ UNCHANGED <<initialized, has_tests, on_screen_log>>

EndSuiteRecord ==
    /\ call.op = "EndSuite" /\ phase # "kInTest"
    /\ LET closed == IF phase = "kSuiteEvents" THEN EndArr(CloseSuiteEvents) ELSE EndArr(doc)
       IN  AppendToFile(EndObj(Members(Comma(closed), <<call.passed, call.failed>>)))
    /\ phase' = "kDone" /\ array_has_item' = <<>>
    /\ call' = Returned
    /\ UNCHANGED <<initialized, has_tests, on_screen_log>>

PrintLine(line) ==
    /\ Echo(<<line>>)
    /\ UNCHANGED <<initialized, phase, has_tests, array_has_item, call, doc, lost>>

ClearOnScreenLog ==
    /\ on_screen_log' = <<>>
    /\ UNCHANGED <<initialized, phase, has_tests, array_has_item, call, doc, lost>>

\* The console crashes or is switched off and the program is started again:
\* the file stays as it is, g_state is as at load time.
Restart ==
    /\ initialized' = FALSE /\ phase' = "kNoSuite" /\ has_tests' = FALSE
    /\ array_has_item' = <<>> /\ on_screen_log' = <<>> /\ call' = Returned
    /\ UNCHANGED <<doc, lost>>

-----------------------------------------------------------------------------
\* No scope is left open in the suite's own events when they are closed.
SuiteScopesClosed == phase = "kSuiteEvents" => Len(array_has_item) = 1

\* The calls of a client: one at a time; one suite per Initialize, begun iff the
\* file was opened and ended once; no ScopeGuard outlives the suite's own events.
Call ==
    /\ call.op = "none"
    /\ \/ phase = "kNoSuite" /\ ~initialized /\ \E opened \in BOOLEAN : Initialize(opened)
       \/ phase = "kNoSuite" /\ initialized /\ BeginSuite
       \/ SuiteScopesClosed /\ \E name \in TestNames : BeginTest(name)
       \/ Event
       \/ \E rows \in 0 .. MaxDumpRows : HexDump(rows)
       \/ \E name \in ScopeNames : BeginScope(name)
       \/ EndScope
       \/ \E result \in {Pass, Fail} : EndTest(result)
       \/ /\ SuiteScopesClosed /\ phase # "kDone" /\ (phase = "kNoSuite" => ~initialized)
          /\ \E passed, failed \in 0 .. MaxTests : EndSuite(passed, failed)
       \/ \E line \in {Pass, Fail, Text} : PrintLine(line)
       \/ ClearOnScreenLog

Next == Call \/ EndTestScope \/ EndTestRecord \/ EndSuiteRecord \/ Restart

Spec == Init /\ [][Next]_vars

-----------------------------------------------------------------------------
(* Properties *)

TypeOK ==
    /\ initialized \in BOOLEAN /\ phase \in Phase /\ has_tests \in BOOLEAN
    /\ array_has_item \in Seq(BOOLEAN)
    /\ on_screen_log \in Seq(Value) /\ Len(on_screen_log) <= kMaxOnScreenLogLines
    /\ call \in [op : {"none", "EndTest", "EndSuite"}, result : {Pass, Fail},
                 passed : 0 .. MaxTests, failed : 0 .. MaxTests]
    /\ doc \in Doc
    /\ lost \in Nat

\* Every append since Initialize has reached the file.
Faithful == initialized /\ lost = 0

(***************************************************************************)
(* test_log.h:12-28.  While no append has been lost, whatever the order of *)
(* the calls, the file is the beginning of one JSON document: no bracket   *)
(* is closed that is not open, no separator is missing or doubled.  It     *)
(* holds at every crash point, since it holds of every reachable file.     *)
(***************************************************************************)
WellFormed == Faithful => doc.ok

(***************************************************************************)
(* The document is complete exactly when EndSuite has returned: a file cut *)
(* short by a crash never passes for a finished one.                       *)
(***************************************************************************)
CompleteWhenDone == Faithful => (doc.done <=> phase = "kDone")

\* The container at position i of the file's stack is open, of this kind and
\* with this much read.
OpenAt(i, kind, at) == doc.stack[i].kind = kind /\ doc.stack[i].at = at

\* Above the base containers the file has one object and its "events" array for
\* each entry of array_has_item; the array is empty iff the entry is FALSE.
ScopesAbove(base) ==
    /\ Depth(doc) = base + 2 * Len(array_has_item)
    /\ \A j \in 1 .. Len(array_has_item) :
          /\ OpenAt(base + 2 * j - 1, "object", "after")
          /\ OpenAt(base + 2 * j, "events", IF array_has_item[j] THEN "after" ELSE "first")

(***************************************************************************)
(* The in-memory bookkeeping (phase, has_tests, array_has_item) describes  *)
(* the file: the open containers are the ones TestLog will close, and      *)
(* each array has an item iff TestLog will write a separator next.         *)
(***************************************************************************)
Nesting ==
    Faithful =>
      /\ phase = "kNoSuite" => doc = EmptyDoc
      /\ phase = "kSuiteEvents" => ~has_tests /\ Len(array_has_item) >= 1 /\ ScopesAbove(0)
      /\ phase = "kInTest" =>
           /\ has_tests /\ Len(array_has_item) >= 1 /\ ScopesAbove(2)
           /\ OpenAt(1, "object", "after") /\ OpenAt(2, "tests", "after")
      /\ phase = "kTests" =>
           /\ has_tests /\ array_has_item = <<>> /\ Depth(doc) = 2
           /\ OpenAt(1, "object", "after") /\ OpenAt(2, "tests", "after")
      /\ phase = "kDone" => array_has_item = <<>> /\ Depth(doc) = 0

(***************************************************************************)
(* A test is recorded once, when EndTest (or EndSuite on its behalf) ends  *)
(* it, under the name it was begun with and with the result given; no      *)
(* scope or event inside it is mistaken for a test, and no later call      *)
(* changes what is recorded, except a new Initialize.                      *)
(***************************************************************************)
RecordedOnce ==
    [][Faithful /\ lost' = 0 =>
         IF phase = "kInTest" /\ phase' = "kTests"
         THEN doc.tests' = Append(doc.tests, <<doc.stack[3].vals[1], call.result>>)
         ELSE doc.tests' = doc.tests]_vars
=============================================================================
