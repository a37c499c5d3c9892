-------------------------- MODULE TestRunnerProofs --------------------------
(***************************************************************************)
(* The runner uses the log as the log relies on, for any suite and any     *)
(* number of calls: RunnerSpec implements Spec of TestLog.tla.  What       *)
(* TestLogProofs.tla shows of the file then holds of the program.          *)
(*                                                                         *)
(* RInv says where Run stands in the log at each pc; one lemma per group   *)
(* of actions keeps it and finds the call of the log that was made.        *)
(***************************************************************************)
EXTENDS TestRunner, TestLogProofs, FiniteSetTheorems

\* What a test returns.
Results == {Pass, Fail}

\* The loop counters of RunAllTests.
Counting ==
    /\ results_ \in Seq(Results) /\ result \in Results
    /\ i \in Nat \ {0} /\ passed \in Nat /\ guards \in Nat
    /\ pc \in {"tests", "test", "end_test"} => Len(results_) = i - 1 /\ passed <= i - 1
    /\ pc = "tests" => i <= num_tests_ + 1
    /\ pc \in {"test", "end_test"} => i <= num_tests_
    /\ pc \in {"end_suite", "summary"} => Len(results_) = num_tests_

\* There is no log: nothing will ever be recorded.
NoLog == phase = "kNoSuite" /\ ~initialized /\ array_has_item = <<>>

\* The suite is begun and no test has been.
SuiteEvents == initialized /\ phase = "kSuiteEvents" /\ Len(array_has_item) = 1

\* A test has been recorded and none is open.
BetweenTests == initialized /\ phase = "kTests"

\* A test runs, and each of its guards has a scope above the test's own events.
InTest == initialized /\ phase = "kInTest" /\ Len(array_has_item) = guards + 1

\* The state of the log at each point of Run.
LogAtPoint ==
    /\ pc \in {"video", "config", "logging"} => NoLog
    /\ pc = "begin_suite" => phase = "kNoSuite" /\ initialized
    /\ pc \in {"mounted", "post_init", "announce"} => NoLog \/ SuiteEvents
    /\ pc = "tests" => NoLog \/ SuiteEvents \/ BetweenTests
    /\ pc = "end_test" /\ call.op = "none" => NoLog \/ BetweenTests
    /\ pc = "test" => NoLog \/ InTest

\* The call that has not returned, and where it was made.
CallAtPoint ==
    \/ call.op = "none"
    \/ call.op = "EndTest" /\ pc = "end_test" /\ initialized /\ phase = "kInTest"
         /\ Len(array_has_item) = 1
    \/ call.op = "EndSuite" /\ pc = "end_suite" /\ phase # "kInTest"

\* The inductive invariant of the runner.
RInv == TypeOK /\ Counting /\ LogAtPoint /\ CallAtPoint

\* The program has not started, and neither has the log.
LEMMA RunnerInit == RInit => RInv /\ Init
<1> SUFFICES ASSUME RInit PROVE RInv
  BY DEF RInit
<1>1. TypeOK
  BY TypeInit DEF RInit
<1>2. Counting
  <2>1. <<>> \in Seq(Results)
    OBVIOUS
  <2>2. QED BY <2>1 DEF RInit, Counting, Results
<1>3. LogAtPoint /\ CallAtPoint
  BY DEF RInit, Init, Returned, LogAtPoint, NoLog, CallAtPoint
<1>4. QED BY <1>1, <1>2, <1>3 DEF RInv

\* A step that only moves pc.
LEMMA Going ==
  ASSUME RInv, NEW here, NEW there, At(here), Go(there), UNCHANGED vars,
         there \in {"tests", "test", "end_test", "end_suite", "summary"} => FALSE,
         there \in {"video", "config", "logging"} => NoLog,
         there # "begin_suite",
         there \in {"mounted", "post_init", "announce"} => NoLog \/ SuiteEvents
  PROVE  Counting' /\ LogAtPoint' /\ CallAtPoint'
<1>1. Counting'
  BY DEF RInv, Counting, Go
<1>2. LogAtPoint'
  BY DEF RInv, LogAtPoint, Go, vars, g_state, NoLog, SuiteEvents
<1>3. CallAtPoint'
  BY DEF CallAtPoint, At, vars
<1>4. QED BY <1>1, <1>2, <1>3

-----------------------------------------------------------------------------
(* Each action of Run, and the calls of the log it makes. *)

\* What RInv adds to TypeOK.
Kept == Counting /\ LogAtPoint /\ CallAtPoint

\* The suite has no more tests than a summary can count.
LEMMA SuiteSize == num_tests_ \in Nat /\ num_tests_ <= MaxTests /\ MaxTests \in Nat
BY RunnerAssumption, BoundAssumption DEF num_tests_

\* A call that writes an event, or nothing, leaves the scopes as they are.
LEMMA EventKeeps ==
  ASSUME TypeOK, UNCHANGED <<initialized, phase>>,
         IF CanRecordEvent
         THEN AppendToFile(Item(BeginEventItem)) /\ array_has_item' = ItemWritten
         ELSE UNCHANGED <<array_has_item, doc, lost>>
  PROVE  /\ Len(array_has_item') = Len(array_has_item)
         /\ (NoLog => NoLog') /\ (SuiteEvents => SuiteEvents')
<1>1. Len(array_has_item') = Len(array_has_item)
  BY ItemTypes DEF CanRecordEvent
<1>2. NoLog => NoLog'
  BY DEF NoLog, CanRecordEvent
<1>3. QED BY <1>1, <1>2 DEF SuiteEvents

\* From power on until the log may be opened.
LEMMA Starting ==
  ASSUME RInv, SetUp \/ LoadConfigurationDone \/ \E line \in ConfigurationLine : LoadConfigurationLine(line)
  PROVE  Kept' /\ UNCHANGED vars
<1>1. CASE SetUp \/ LoadConfigurationDone
  <2>1. PICK here \in {"video", "config"}, there \in {"config", "exited", "logging"} :
          At(here) /\ Go(there) /\ UNCHANGED vars
    BY <1>1 DEF SetUp, LoadConfigurationDone
  <2>2. NoLog
    BY <2>1 DEF RInv, LogAtPoint, At
  <2>3. QED BY <2>1, <2>2, Going DEF Kept
<1>2. CASE \E line \in ConfigurationLine : LoadConfigurationLine(line)
  BY <1>2 DEF LoadConfigurationLine, RInv, Kept, Counting, LogAtPoint, CallAtPoint, At, vars, g_state,
              NoLog, SuiteEvents, BetweenTests
<1>3. QED BY <1>1, <1>2 DEF SetUp, LoadConfigurationDone, LoadConfigurationLine

\* The log is opened, or not, and the suite begun in it.
LEMMA Opening ==
  ASSUME RInv, SetupLogging \/ BeginLog \/ LogMounted
  PROVE  Kept' /\ [Next]_vars
<1>1. CASE SetupLogging
  <2>1. NoLog /\ At("logging")
    BY <1>1 DEF SetupLogging, RInv, LogAtPoint, At
  <2>2. ASSUME NEW there \in {"post_init", "halted"}, Go(there), UNCHANGED vars
        PROVE  Kept' /\ [Next]_vars
    BY <2>1, <2>2, Going DEF Kept
  <2>3. ASSUME NEW opened \in BOOLEAN, Initialize(opened), Go(AfterInitialize(opened))
        PROVE  Kept' /\ [Next]_vars
    <3>1. Counting'
      BY <2>3 DEF RInv, Counting, Go, AfterInitialize
    <3>2. LogAtPoint' /\ CallAtPoint'
      BY <2>1, <2>3 DEF Initialize, Go, AfterInitialize, LogAtPoint, CallAtPoint, NoLog, At
    <3>3. Next
      BY <2>1, <2>3 DEF Next, Call, NoLog, At
    <3>4. QED BY <3>1, <3>2, <3>3 DEF Kept
  <2>4. QED BY <1>1, <2>2, <2>3 DEF SetupLogging
<1>2. CASE BeginLog
  <2>1. Counting'
    BY <1>2 DEF BeginLog, RInv, Counting, Go
  <2>2. phase = "kNoSuite" /\ initialized /\ At("begin_suite")
    BY <1>2 DEF BeginLog, RInv, LogAtPoint, At
  <2>3. SuiteEvents'
    BY <1>2, <2>2 DEF BeginLog, BeginSuite, SuiteEvents, FreshArray
  <2>4. LogAtPoint' /\ CallAtPoint'
    BY <1>2, <2>2, <2>3 DEF BeginLog, BeginSuite, Go, LogAtPoint, CallAtPoint, At
  <2>5. Next
    BY <1>2, <2>2 DEF BeginLog, Next, Call, At
  <2>6. QED BY <2>1, <2>4, <2>5 DEF Kept
<1>3. CASE LogMounted
  <2>1. At("mounted") /\ Event /\ Go("post_init")
    BY <1>3 DEF LogMounted
  <2>2. Counting'
    BY <2>1 DEF RInv, Counting, Go
  <2>3. NoLog' \/ SuiteEvents'
    BY <2>1, EventKeeps DEF Event, RInv, LogAtPoint, At
  <2>4. LogAtPoint' /\ CallAtPoint'
    BY <2>1, <2>3 DEF Event, Go, LogAtPoint, CallAtPoint, At
  <2>5. Next
    BY <2>1 DEF Next, Call, At
  <2>6. QED BY <2>2, <2>4, <2>5 DEF Kept
<1>4. QED BY <1>1, <1>2, <1>3

\* post_init_ and the suite's own first line.
LEMMA Announcing ==
  ASSUME RInv, PostInit \/ Announce
  PROVE  Kept' /\ [Next]_vars
<1>1. CASE PostInit
  <2>1. NoLog \/ SuiteEvents
    BY <1>1 DEF PostInit, RInv, LogAtPoint, At
  <2>2. QED BY <1>1, <2>1, Going DEF PostInit, Kept
<1>2. CASE Announce
  <2>1. /\ At("announce") /\ Event /\ pc' = "tests" /\ i' = 1 /\ passed' = 0 /\ results_' = <<>>
        /\ UNCHANGED <<shutdown_on_completion_, result, guards, calls>>
    BY <1>2 DEF Announce
  <2>2. Counting'
    <3>1. <<>> \in Seq(Results) /\ Len(<<>>) = 0
      OBVIOUS
    <3>2. QED BY <2>1, <3>1, SuiteSize DEF RInv, Counting
  <2>3. NoLog' \/ SuiteEvents'
    BY <2>1, EventKeeps DEF Event, RInv, LogAtPoint, At
  <2>4. LogAtPoint' /\ CallAtPoint'
    BY <2>1, <2>3 DEF Event, LogAtPoint, CallAtPoint, At
  <2>5. Next
    BY <2>1 DEF Next, Call, At
  <2>6. QED BY <2>2, <2>4, <2>5 DEF Kept
<1>3. QED BY <1>1, <1>2

\* A test is begun: it is in the table, and no scope is open around it.
LEMMA Beginning ==
  ASSUME RInv, StartTest
  PROVE  Kept' /\ [Next]_vars
<1>1. At("tests") /\ i <= num_tests_ /\ BeginTest(Tests[i]) /\ pc' = "test" /\ guards' = 0
      /\ UNCHANGED <<i, passed, results_, result>>
  BY DEF StartTest
<1>2. Tests[i] \in TestNames
  BY <1>1, RunnerAssumption DEF RInv, Counting, num_tests_
<1>3. NoLog \/ SuiteEvents \/ BetweenTests
  BY <1>1 DEF RInv, LogAtPoint, At
<1>4. Counting'
  BY <1>1 DEF RInv, Counting, At
<1>5. NoLog' \/ InTest'
  <2>1. CASE NoLog
    BY <1>1, <2>1 DEF BeginTest, NoLog
  <2>2. CASE SuiteEvents \/ BetweenTests
    <3>1. initialized /\ phase \in {"kSuiteEvents", "kTests"}
      BY <2>2 DEF SuiteEvents, BetweenTests
    <3>2. array_has_item' = <<FALSE>> /\ phase' = "kInTest" /\ initialized'
      BY <1>1, <3>1 DEF BeginTest, FreshArray
    <3>3. Len(<<FALSE>>) = 0 + 1
      OBVIOUS
    <3>4. QED BY <1>1, <3>2, <3>3 DEF InTest
  <2>3. QED BY <1>3, <2>1, <2>2
<1>6. LogAtPoint' /\ CallAtPoint'
  BY <1>1, <1>5 DEF BeginTest, LogAtPoint, CallAtPoint, At
<1>7. Next
  BY <1>1, <1>2, <1>3 DEF Next, Call, At, SuiteScopesClosed, NoLog, SuiteEvents, BetweenTests
<1>8. QED BY <1>4, <1>6, <1>7 DEF Kept

\* A call of the running test that opens no scope.
LEMMA Logging ==
  ASSUME RInv, TestCall, guards' = guards,
         Event \/ \E rows \in 0 .. MaxDumpRows : HexDump(rows)
  PROVE  Kept' /\ [Next]_vars
<1>1. At("test") /\ UNCHANGED <<pc, i, passed, results_, result>>
  BY DEF TestCall
<1>2. Counting'
  BY <1>1 DEF RInv, Counting
<1>3. NoLog \/ InTest
  BY <1>1 DEF RInv, LogAtPoint, At
<1>4. NoLog' \/ InTest'
  <2>1. /\ UNCHANGED <<initialized, phase>>
        /\ IF CanRecordEvent
           THEN AppendToFile(Item(BeginEventItem)) /\ array_has_item' = ItemWritten
           ELSE UNCHANGED <<array_has_item, doc, lost>>
    BY DEF Event, HexDump
  <2>2. Len(array_has_item') = Len(array_has_item) /\ (NoLog => NoLog')
    BY <2>1, EventKeeps DEF RInv
  <2>3. InTest => InTest'
    BY <2>1, <2>2 DEF InTest
  <2>4. QED BY <1>3, <2>2, <2>3
<1>5. LogAtPoint' /\ CallAtPoint'
  BY <1>1, <1>4 DEF Event, HexDump, LogAtPoint, CallAtPoint, At
<1>6. Next
  BY <1>1 DEF Next, Call, At
<1>7. QED BY <1>2, <1>5, <1>6 DEF Kept

\* A new ScopeGuard opens a scope, if anything is recorded.
LEMMA Entering ==
  ASSUME RInv, TestCall, guards' = guards + 1, NEW name \in ScopeNames, BeginScope(name)
  PROVE  Kept' /\ [Next]_vars
<1>1. At("test") /\ UNCHANGED <<pc, i, passed, results_, result>>
  BY DEF TestCall
<1>2. Counting'
  BY <1>1 DEF RInv, Counting
<1>3. NoLog \/ InTest
  BY <1>1 DEF RInv, LogAtPoint, At
<1>4. NoLog' \/ InTest'
  <2>1. CASE NoLog
    BY <2>1 DEF BeginScope, CanRecordEvent, NoLog
  <2>2. CASE ~NoLog
    <3>0. InTest
      BY <1>3, <2>2
    <3>1. array_has_item # <<>>
      BY <3>0 DEF RInv, Counting, InTest
    <3>2. ItemWritten \in Seq(BOOLEAN) /\ Len(ItemWritten) = Len(array_has_item)
      BY <3>1, ItemTypes DEF RInv
    <3>3. array_has_item' = Append(ItemWritten, FALSE) /\ UNCHANGED <<initialized, phase>>
      BY <3>0, <3>1 DEF BeginScope, CanRecordEvent, InTest
    <3>4. Len(Append(ItemWritten, FALSE)) = Len(ItemWritten) + 1
      BY <3>2
    <3>5. QED BY <3>0, <3>2, <3>3, <3>4 DEF InTest
  <2>3. QED BY <2>1, <2>2
<1>5. LogAtPoint' /\ CallAtPoint'
  BY <1>1, <1>4 DEF BeginScope, LogAtPoint, CallAtPoint, At
<1>6. Next
  BY <1>1 DEF Next, Call, At
<1>7. QED BY <1>2, <1>5, <1>6 DEF Kept

\* A ScopeGuard closes its scope.
LEMMA Leaving ==
  ASSUME RInv, LeaveScope
  PROVE  Kept' /\ [Next]_vars
<1>1. /\ At("test") /\ guards > 0 /\ guards' = guards - 1 /\ EndScope
      /\ UNCHANGED <<pc, i, passed, results_, result>>
  BY DEF LeaveScope
<1>2. guards \in Nat /\ guards' \in Nat /\ guards = guards' + 1
  BY <1>1 DEF RInv, Counting
<1>3. Counting'
  BY <1>1, <1>2 DEF RInv, Counting
<1>4. NoLog \/ InTest
  BY <1>1 DEF RInv, LogAtPoint, At
<1>5. NoLog' \/ InTest'
  <2>1. CASE NoLog
    <3>1. ~(Len(array_has_item) >= 2)
      BY <2>1 DEF NoLog
    <3>2. UNCHANGED g_state
      BY <1>1, <3>1 DEF EndScope, CloseScope
    <3>3. QED BY <2>1, <3>2 DEF NoLog, g_state
  <2>2. CASE ~NoLog
    <3>0. InTest
      BY <1>4, <2>2
    <3>a. Len(array_has_item) = guards + 1
      BY <3>0 DEF InTest
    <3>b. guards + 1 >= 2 /\ guards + 1 \in Nat /\ (guards + 1) - 1 = guards' + 1
      BY <1>1, <1>2
    <3>1. Len(array_has_item) >= 2 /\ Len(array_has_item) - 1 = guards' + 1
      BY <3>a, <3>b
    <3>2. /\ array_has_item' = SubSeq(array_has_item, 1, Len(array_has_item) - 1)
          /\ UNCHANGED <<initialized, phase>>
      BY <1>1, <3>1 DEF EndScope, CloseScope
    <3>3. Len(SubSeq(array_has_item, 1, Len(array_has_item) - 1)) = Len(array_has_item) - 1
      BY <3>1 DEF RInv, TypeOK
    <3>4. QED BY <3>0, <3>1, <3>2, <3>3 DEF InTest
  <2>3. QED BY <2>1, <2>2
<1>6. LogAtPoint' /\ CallAtPoint'
  BY <1>1, <1>5 DEF EndScope, LogAtPoint, CallAtPoint, At
<1>7. Next
  BY <1>1 DEF Next, Call, At
<1>8. QED BY <1>3, <1>6, <1>7 DEF Kept

\* The test returns: EndTest is called, which only matters if a test is recorded.
LEMMA Returning ==
  ASSUME RInv, NEW value \in Results, ReturnFromTest(value)
  PROVE  Kept' /\ [Next]_vars
<1>1. /\ At("test") /\ guards = 0 /\ result' = value /\ EndTest(value) /\ pc' = "end_test"
      /\ UNCHANGED <<i, passed, results_, guards>>
  BY DEF ReturnFromTest
<1>2. Counting'
  BY <1>1 DEF RInv, Counting, At
<1>3. NoLog \/ InTest
  BY <1>1 DEF RInv, LogAtPoint, At
<1>4. CASE NoLog
  <2>1. UNCHANGED vars
    BY <1>1, <1>4 DEF EndTest, NoLog, vars
  <2>2. NoLog' /\ call' = call
    BY <1>4, <2>1 DEF NoLog, vars, g_state
  <2>3. LogAtPoint' /\ CallAtPoint'
    BY <1>1, <2>2 DEF LogAtPoint, CallAtPoint, At
  <2>4. QED BY <1>2, <2>1, <2>3 DEF Kept
<1>5. CASE InTest
  <2>1. /\ call'.op = "EndTest" /\ UNCHANGED <<initialized, phase, array_has_item>>
        /\ initialized /\ phase = "kInTest"
    BY <1>1, <1>5 DEF EndTest, InTest, g_state
  <2>2. Len(array_has_item) = 1
    BY <1>1, <1>5 DEF InTest
  <2>3. LogAtPoint' /\ CallAtPoint'
    BY <1>1, <2>1, <2>2 DEF LogAtPoint, CallAtPoint
  <2>4. Next
    BY <1>1 DEF Next, Call, At, Results
  <2>5. QED BY <1>2, <2>3, <2>4 DEF Kept
<1>6. QED BY <1>3, <1>4, <1>5

\* EndTest finds no scope to close; EndSuite finds no test to end.
LEMMA Finishing ==
  ASSUME RInv, InsideCall
  PROVE  Kept' /\ [Next]_vars
<1>1. UNCHANGED runner /\ call.op # "none" /\ Next
  BY DEF InsideCall, EndTestScope, EndTestRecord, EndSuiteRecord, Next
<1>2. Counting'
  BY <1>1 DEF runner, RInv, Counting
<1>3. CASE call.op = "EndTest"
  <2>1. pc = "end_test" /\ initialized /\ phase = "kInTest" /\ Len(array_has_item) = 1
    BY <1>3 DEF RInv, CallAtPoint
  <2>2. EndTestRecord
    BY <1>3, <2>1 DEF InsideCall, EndTestScope, CloseScope, EndSuiteRecord
  <2>3. pc' = "end_test" /\ call'.op = "none" /\ BetweenTests'
    BY <1>1, <1>3, <2>1, <2>2 DEF EndTestRecord, Returned, runner, BetweenTests
  <2>4. LogAtPoint' /\ CallAtPoint'
    BY <2>3 DEF LogAtPoint, CallAtPoint
  <2>5. QED BY <1>1, <1>2, <2>4 DEF Kept
<1>4. CASE call.op = "EndSuite"
  <2>1. pc = "end_suite" /\ phase # "kInTest"
    BY <1>4 DEF RInv, CallAtPoint
  <2>2. EndSuiteRecord
    BY <2>1 DEF InsideCall, EndTestScope, EndTestRecord
  <2>3. pc' = "end_suite" /\ call'.op = "none"
    BY <1>1, <2>1, <2>2 DEF EndSuiteRecord, Returned, runner
  <2>4. LogAtPoint' /\ CallAtPoint'
    BY <2>3 DEF LogAtPoint, CallAtPoint
  <2>5. QED BY <1>1, <1>2, <2>4 DEF Kept
<1>5. QED BY <1>1, <1>3, <1>4 DEF RInv, CallAtPoint

\* The result of the test is kept and counted.
LEMMA Keeping ==
  ASSUME RInv, AfterTest
  PROVE  Kept' /\ UNCHANGED vars
<1>1. /\ At("end_test") /\ results_' = Append(results_, result) /\ passed' = Count(result)
      /\ i' = i + 1 /\ pc' = "tests" /\ UNCHANGED <<result, guards>> /\ UNCHANGED vars
  BY DEF AfterTest
<1>2. Len(results_) = i - 1 /\ passed <= i - 1 /\ i <= num_tests_ /\ i \in Nat /\ passed \in Nat
  BY <1>1 DEF RInv, Counting, At
<1>3. results_' \in Seq(Results) /\ Len(results_') = Len(results_) + 1
  BY <1>1 DEF RInv, Counting
<1>4. passed' \in Nat /\ passed' <= passed + 1
  BY <1>1, <1>2 DEF Count
<1>5. Counting'
  BY <1>1, <1>2, <1>3, <1>4, SuiteSize DEF RInv, Counting
<1>6. NoLog \/ BetweenTests
  BY <1>1 DEF RInv, LogAtPoint, At
<1>7. NoLog' \/ BetweenTests'
  BY <1>1, <1>6 DEF NoLog, BetweenTests, vars, g_state
<1>8. LogAtPoint' /\ CallAtPoint'
  BY <1>1, <1>7 DEF LogAtPoint, CallAtPoint, At, vars
<1>9. QED BY <1>1, <1>5, <1>8 DEF Kept

\* After the last test the summary is written: its numbers are those of the suite.
LEMMA Ending ==
  ASSUME RInv, EndTests
  PROVE  Kept' /\ [Next]_vars
<1>1. At("tests") /\ i > num_tests_ /\ EndSuite(passed, num_tests_ - passed) /\ Go("end_suite")
  BY DEF EndTests
<1>2. /\ Len(results_) = i - 1 /\ passed <= i - 1 /\ i <= num_tests_ + 1
      /\ i \in Nat /\ passed \in Nat
  BY <1>1 DEF RInv, Counting, At
<1>3. i = num_tests_ + 1 /\ passed \in 0 .. MaxTests /\ num_tests_ - passed \in 0 .. MaxTests
  BY <1>1, <1>2, SuiteSize
<1>4. Counting'
  <2>1. Len(results_) = num_tests_
    BY <1>2, <1>3, SuiteSize
  <2>2. QED BY <1>1, <2>1 DEF RInv, Counting, Go
<1>5. NoLog \/ SuiteEvents \/ BetweenTests
  BY <1>1 DEF RInv, LogAtPoint, At
<1>6. SuiteScopesClosed /\ phase \notin {"kDone", "kInTest"} /\ (phase = "kNoSuite" => ~initialized)
  BY <1>5 DEF NoLog, SuiteEvents, BetweenTests, SuiteScopesClosed
<1>7. LogAtPoint' /\ CallAtPoint'
  BY <1>1, <1>6 DEF EndSuite, Go, LogAtPoint, CallAtPoint, g_state
<1>8. Next
  BY <1>1, <1>3, <1>6 DEF Next, Call, At
<1>9. QED BY <1>4, <1>7, <1>8 DEF Kept

\* The summary on the screen: the results are all there.
LEMMA Summarising ==
  ASSUME RInv, ClearLog \/ PrintSummary
  PROVE  Kept' /\ [Next]_vars
<1>1. CASE ClearLog
  <2>1. Counting'
    BY <1>1 DEF ClearLog, RInv, Counting, At
  <2>2. LogAtPoint' /\ CallAtPoint'
    BY <1>1 DEF ClearLog, ClearOnScreenLog, LogAtPoint, CallAtPoint, At
  <2>3. Next
    BY <1>1 DEF ClearLog, Next, Call, At
  <2>4. QED BY <2>1, <2>2, <2>3 DEF Kept
<1>2. CASE PrintSummary
  <2>1. /\ At("summary") /\ PrintLine(SummaryLine) /\ i' = i + 1 /\ pc' \in {"done", "summary"}
        /\ UNCHANGED <<passed, results_, result, guards>>
    BY <1>2 DEF PrintSummary
  <2>2. Counting'
    BY <2>1 DEF RInv, Counting, At
  <2>3. LogAtPoint' /\ CallAtPoint'
    BY <2>1 DEF PrintLine, LogAtPoint, CallAtPoint, At
  <2>4. SummaryLine \in {Pass, Fail, Text}
    BY <2>1, SuiteSize DEF SummaryLine, RInv, Counting, Results, At
  <2>5. Next
    BY <2>1, <2>4 DEF Next, Call, At
  <2>6. QED BY <2>2, <2>3, <2>5 DEF Kept
<1>3. QED BY <1>1, <1>2

\* The end of a run, and the next one.
LEMMA Stopping ==
  ASSUME RInv, ShutdownSystem \/ ShowResults \/ Exit \/ Reboot
  PROVE  Kept' /\ [Next]_vars
<1>1. CASE ShutdownSystem \/ ShowResults \/ Exit
  <2>1. PICK here \in {"done", "ui"}, there \in {"off", "ui", "exited"} :
          At(here) /\ Go(there) /\ UNCHANGED vars
    BY <1>1 DEF ShutdownSystem, ShowResults, Exit
  <2>2. QED BY <2>1, Going DEF Kept
<1>2. CASE Reboot
  <2>1. <<>> \in Seq(Results)
    OBVIOUS
  <2>2. Counting'
    BY <1>2, <2>1 DEF Reboot, Counting, Results
  <2>3. LogAtPoint' /\ CallAtPoint'
    BY <1>2 DEF Reboot, Restart, Returned, LogAtPoint, CallAtPoint, NoLog
  <2>4. QED BY <1>2, <2>2, <2>3 DEF Kept, Reboot, Next
<1>3. QED BY <1>1, <1>2

-----------------------------------------------------------------------------
(* Every step of the runner is a step of the log, or leaves it alone. *)

\* RInv is inductive, and under it the runner only makes calls of the log's Call.
LEMMA RunnerStep == RInv /\ [RNext]_rvars => RInv' /\ [Next]_vars
<1> SUFFICES ASSUME RInv, [RNext]_rvars PROVE RInv' /\ [Next]_vars
  OBVIOUS
<1>1. Kept' /\ [Next]_vars
  <2>1. CASE SetUp \/ LoadConfigurationDone \/ \E line \in ConfigurationLine : LoadConfigurationLine(line)
    BY <2>1, Starting
  <2>2. CASE SetupLogging \/ BeginLog \/ LogMounted
    BY <2>2, Opening
  <2>3. CASE PostInit \/ Announce
    BY <2>3, Announcing
  <2>4. CASE StartTest
    BY <2>4, Beginning
  <2>5. CASE TestCall
    <3>1. CASE guards' = guards /\ (Event \/ \E rows \in 0 .. MaxDumpRows : HexDump(rows))
      BY <2>5, <3>1, Logging
    <3>2. CASE guards' = guards + 1 /\ \E name \in ScopeNames : BeginScope(name)
      BY <2>5, <3>2, Entering
    <3>3. QED BY <2>5, <3>1, <3>2 DEF TestCall
  <2>6. CASE LeaveScope
    BY <2>6, Leaving
  <2>7. CASE \E value \in {Pass, Fail} : ReturnFromTest(value)
    BY <2>7, Returning DEF Results
  <2>8. CASE InsideCall
    BY <2>8, Finishing
  <2>9. CASE AfterTest
    BY <2>9, Keeping
  <2>10. CASE EndTests
    BY <2>10, Ending
  <2>11. CASE ClearLog \/ PrintSummary
    BY <2>11, Summarising
  <2>12. CASE ShutdownSystem \/ ShowResults \/ Exit \/ Reboot
    BY <2>12, Stopping
  <2>13. CASE UNCHANGED rvars
    BY <2>13 DEF rvars, runner, vars, g_state, RInv, Kept, Counting, LogAtPoint, CallAtPoint,
                 NoLog, SuiteEvents, BetweenTests, InTest
  <2>14. QED
    BY <2>1, <2>2, <2>3, <2>4, <2>5, <2>6, <2>7, <2>8, <2>9, <2>10, <2>11, <2>12, <2>13
    DEF RNext, Run
<1>2. TypeOK'
  BY <1>1, TypeStep DEF RInv
<1>3. QED BY <1>1, <1>2 DEF RInv, Kept

(***************************************************************************)
(* TestRunner::Run (test_runner.cpp:183-281) only calls the log as the log *)
(* relies on, whatever the suite, the tests and the failures at start: the *)
(* program implements Spec of TestLog.tla.                                 *)
(***************************************************************************)
THEOREM RunnerUsesLog == RunnerSpec => UsesLogAsIntended
<1>1. RInit /\ [][RNext]_rvars => Init /\ [][Next]_vars
  BY RunnerInit, RunnerStep, PTL
<1>2. QED BY <1>1, PTL DEF RunnerSpec, UsesLogAsIntended, Spec

(***************************************************************************)
(* The log file of the program itself is the beginning of one JSON         *)
(* document wherever the console stops, as long as no append is lost.      *)
(***************************************************************************)
THEOREM RunnerFileWellFormed == RunnerSpec => []WellFormed
<1>1. Spec => []WellFormed
  BY FileWellFormed
<1>2. QED BY <1>1, RunnerUsesLog, PTL DEF UsesLogAsIntended

(***************************************************************************)
(* The guards alive in a test (ScopeGuard, test_log.h:144-152) are the     *)
(* scopes open in the log, or none is if nothing is recorded: EndScope     *)
(* never closes a scope of somebody else.                                  *)
(***************************************************************************)
THEOREM GuardsCloseTheirScopes == RunnerSpec => []GuardsOwnScopes
<1>1. RInv => GuardsOwnScopes
  <2> SUFFICES ASSUME RInv, pc = "test"
               PROVE  Len(array_has_item) = IF initialized THEN guards + 1 ELSE 0
    BY DEF GuardsOwnScopes
  <2>1. NoLog \/ InTest
    BY DEF RInv, LogAtPoint
  <2>2. CASE NoLog
    BY <2>2 DEF NoLog
  <2>3. CASE InTest
    BY <2>3 DEF InTest
  <2>4. QED BY <2>1, <2>2, <2>3
<1>2. RInit /\ [][RNext]_rvars => []RInv
  BY RunnerInit, RunnerStep, PTL
<1>3. QED BY <1>1, <1>2, PTL DEF RunnerSpec

-----------------------------------------------------------------------------
(***************************************************************************)
(* What a run leaves behind: the invariants about the log file and the     *)
(* last screen.                                                            *)
(*                                                                         *)
(* They need more than where Run stands (RInv) and that the file follows   *)
(* the log's bookkeeping (IInv): the loop counters must agree with the     *)
(* file and with the call that is being made.  Ledger says how, one part   *)
(* at a time, and each part has a lemma that the runner's steps keep it.   *)
(***************************************************************************)

\* The places Run may be at, and how far the counters go.
Bounds ==
    /\ pc \in {"video", "config", "logging", "begin_suite", "mounted", "post_init", "announce",
               "tests", "test", "end_test", "end_suite", "summary", "done", "ui"} \cup Stopped
    /\ shutdown_on_completion_ \in BOOLEAN
    /\ i <= num_tests_ + 3 /\ (pc = "summary" => i <= num_tests_ + 2)
    /\ passed <= num_tests_ /\ Len(results_) <= num_tests_
    /\ guards <= MaxDepth /\ calls \in 0 .. MaxCalls

\* The tests among the first n that passed.
PassesIn(n) == {k \in 1 .. n : results_[k] = Pass}

\* passed counts them, and a call that has not returned was given what was counted.
Tally ==
    /\ pc \in {"tests", "test", "end_test"} => passed = Cardinality(PassesIn(i - 1))
    /\ pc = "end_suite" => passed = Cardinality(PassesIn(num_tests_))
    /\ call.op = "EndTest" => call.result = result
    /\ call.op = "EndSuite" => call.passed = passed /\ call.failed = num_tests_ - passed

\* The test function runs, or its result is being written.
TestRuns == pc = "test" \/ (pc = "end_test" /\ call.op = "EndTest")

\* The file, as long as nothing is lost, against the runner's counters.
Recorded ==
    /\ phase = "kInTest" => TestRuns
    /\ Faithful =>
         /\ pc \in {"begin_suite", "mounted", "post_init", "announce"} => doc.tests = <<>>
         /\ pc = "tests" \/ TestRuns => doc.tests = RecordOf(i - 1)
         /\ pc = "end_test" /\ call.op = "none" =>
              doc.tests = Append(RecordOf(i - 1), <<Tests[i], result>>)
         /\ pc = "end_suite" /\ call.op = "EndSuite" => doc.tests = RecordOf(num_tests_)
         /\ phase = "kInTest" => doc.stack[3].vals = <<Tests[i]>>

\* The lines of the summary.
SummaryText == results_ \o <<Text, Text>>

\* The on-screen log from the moment it is cleared for the summary.
Screen ==
    /\ pc = "summary" => on_screen_log = EchoLines(<<>>, SubSeq(SummaryText, 1, i - 1))
    /\ pc \in {"done", "ui", "off"} =>
         Len(results_) = num_tests_ /\ on_screen_log = EchoLines(<<>>, SummaryText)

Ledger == Bounds /\ Tally /\ Recorded /\ CompleteDocumentIsRight /\ Screen

\* The inductive invariant of the run and what it writes.
RunInv == RInv /\ IInv /\ Ledger

-----------------------------------------------------------------------------
(* The counters. *)

\* The counters keep their bounds.
LEMMA BoundsStep ==
  ASSUME RInv, Bounds, [RNext]_rvars
  PROVE  Bounds'
<1>0. /\ i \in Nat \ {0} /\ passed \in Nat /\ guards \in Nat /\ results_ \in Seq(Results)
      /\ result \in Results /\ num_tests_ \in Nat /\ MaxDepth \in Nat /\ MaxCalls \in Nat
  BY SuiteSize, RunnerAssumption DEF RInv, Counting
<1>1. CASE \/ SetUp \/ LoadConfigurationDone \/ SetupLogging \/ BeginLog \/ LogMounted \/ PostInit
           \/ EndTests \/ ShutdownSystem \/ ShowResults \/ Exit
  <2>1. PICK there \in {"config", "exited", "logging", "post_init", "halted", "begin_suite", "mounted",
                        "announce", "end_suite", "off", "ui"} : Go(there)
    BY <1>1 DEF SetUp, LoadConfigurationDone, SetupLogging, AfterInitialize, BeginLog, LogMounted, PostInit,
                EndTests, ShutdownSystem, ShowResults, Exit
  <2>2. QED BY <2>1 DEF Bounds, Go, Stopped
<1>2. ASSUME NEW line \in ConfigurationLine, LoadConfigurationLine(line)
      PROVE  Bounds'
  <2>1. shutdown_on_completion_' \in BOOLEAN
    BY <1>2 DEF LoadConfigurationLine, ShutdownAfter, ConfigurationLine, Bounds
  <2>2. QED BY <1>2, <2>1 DEF LoadConfigurationLine, Bounds
<1>3. CASE Announce \/ Reboot
  <2>1. Len(<<>>) = 0 /\ 0 <= num_tests_ /\ 1 <= num_tests_ + 3
    BY <1>0
  <2>2. CASE Announce
    BY <2>1, <2>2 DEF Announce, Bounds
  <2>3. CASE Reboot
    <3>1. /\ i' = 1 /\ passed' = 0 /\ Len(results_') = 0 /\ guards' = 0 /\ calls' = 0 /\ pc' = "video"
          /\ shutdown_on_completion_' \in BOOLEAN
      BY <2>1, <2>3 DEF Reboot
    <3>2. QED BY <1>0, <2>1, <3>1 DEF Bounds
  <2>4. QED BY <1>3, <2>2, <2>3
<1>4. CASE StartTest
  BY <1>0, <1>4 DEF StartTest, Bounds
<1>5. CASE TestCall \/ LeaveScope
  BY <1>0, <1>5 DEF TestCall, LeaveScope, Bounds, At
<1>6. CASE \E value \in {Pass, Fail} : ReturnFromTest(value)
  BY <1>6 DEF ReturnFromTest, Bounds
<1>7. CASE InsideCall \/ UNCHANGED rvars
  BY <1>7 DEF InsideCall, rvars, runner, Bounds
<1>8. CASE AfterTest
  <2>1. i <= num_tests_ /\ Len(results_) = i - 1 /\ passed <= i - 1
    BY <1>8 DEF AfterTest, At, RInv, Counting
  <2>2. Len(Append(results_, result)) = Len(results_) + 1
    BY <1>0
  <2>3. Count(result) <= passed + 1
    BY <1>0 DEF Count
  <2>4. passed' <= num_tests_
    <3>1. passed' = passed \/ passed' = passed + 1
      BY <1>8 DEF AfterTest, Count
    <3>2. QED BY <1>0, <2>1, <3>1
  <2>5. QED BY <1>0, <1>8, <2>1, <2>2, <2>4 DEF AfterTest, Bounds
<1>9. CASE ClearLog
  BY <1>0, <1>9 DEF ClearLog, Bounds
<1>10. CASE PrintSummary
  BY <1>0, <1>10 DEF PrintSummary, Bounds, At
<1>11. QED
  BY <1>1, <1>2, <1>3, <1>4, <1>5, <1>6, <1>7, <1>8, <1>9, <1>10 DEF RNext, Run

\* The passes among the tests so far are finitely many.
LEMMA PassesFinite ==
  ASSUME NEW n \in Nat
  PROVE  IsFiniteSet(PassesIn(n))
<1>1. IsFiniteSet(1 .. n)
  BY FS_Interval
<1>2. PassesIn(n) \subseteq 1 .. n
  BY DEF PassesIn
<1>3. QED BY <1>1, <1>2, FS_Subset

\* One more result: one more pass, or none.
LEMMA OnePass ==
  ASSUME RInv, Tally, AfterTest
  PROVE  passed' = Cardinality(PassesIn(i - 1))'
<1>1. /\ At("end_test") /\ results_' = Append(results_, result) /\ passed' = Count(result) /\ i' = i + 1
  BY DEF AfterTest
<1>2. /\ Len(results_) = i - 1 /\ i \in Nat \ {0} /\ results_ \in Seq(Results) /\ result \in Results
  BY <1>1 DEF RInv, Counting, At
<1>3. passed = Cardinality(PassesIn(i - 1))
  BY <1>1 DEF Tally, At
<1>4. results_'[i] = result /\ \A k \in 1 .. i - 1 : results_'[k] = results_[k]
  BY <1>1, <1>2
<1> DEFINE P == PassesIn(i - 1)
           Q == {k \in 1 .. i : results_'[k] = Pass}
<1>5. IsFiniteSet(P) /\ i \notin P
  BY <1>2, PassesFinite DEF PassesIn
<1>6. Q = IF result = Pass THEN P \cup {i} ELSE P
  <2>1. \A k : k \in 1 .. i <=> (k \in 1 .. i - 1 \/ k = i)
    BY <1>2
  <2>2. \A k : k \in Q <=> ((k \in 1 .. i - 1 /\ results_[k] = Pass) \/ (k = i /\ result = Pass))
    BY <1>4, <2>1
  <2>3. \A k : k \in P <=> (k \in 1 .. i - 1 /\ results_[k] = Pass)
    BY DEF PassesIn
  <2> HIDE DEF P, Q
  <2>4. QED BY <2>2, <2>3
<1>7. Cardinality(Q) = IF result = Pass THEN Cardinality(P) + 1 ELSE Cardinality(P)
  BY <1>5, <1>6, FS_AddElement
<1>8. passed' = Cardinality(Q)
  BY <1>1, <1>3, <1>7 DEF Count
<1>9. i' - 1 = i
  BY <1>1, <1>2
<1>10. PassesIn(i - 1)' = Q
  BY <1>9 DEF PassesIn
<1> HIDE DEF Q
<1>11. QED BY <1>8, <1>10

\* A call in progress keeps the numbers it was given.
LEMMA CallTally ==
  ASSUME RInv, Tally, [RNext]_rvars
  PROVE  /\ call'.op = "EndTest" => call'.result = result'
         /\ call'.op = "EndSuite" => call'.passed = passed' /\ call'.failed = num_tests_ - passed'
<1>1. CASE UNCHANGED <<call, result, passed>>
  BY <1>1 DEF Tally
<1>2. CASE call'.op = "none"
  BY <1>2
<1>3. CASE InsideCall \/ UNCHANGED rvars
  <2>1. UNCHANGED runner /\ (call' = call \/ call' = Returned)
    BY <1>3 DEF InsideCall, EndTestScope, EndTestRecord, EndSuiteRecord, rvars, vars
  <2>2. QED BY <1>1, <1>2, <2>1 DEF runner, Returned
<1>4. ASSUME NEW value \in Results, ReturnFromTest(value)
      PROVE  call'.op = "none" \/ (call'.op = "EndTest" /\ call'.result = result')
  BY <1>4 DEF ReturnFromTest, EndTest, At
<1>5. CASE EndTests
  BY <1>5 DEF EndTests, EndSuite, Go
<1>6. CASE \/ SetUp \/ LoadConfigurationDone \/ SetupLogging \/ BeginLog \/ LogMounted \/ PostInit
           \/ Announce \/ \E line \in ConfigurationLine : LoadConfigurationLine(line)
  <2>1. call.op = "none" /\ call' = call
    BY <1>6 DEF SetUp, LoadConfigurationDone, SetupLogging, BeginLog, LogMounted, PostInit, Announce,
                LoadConfigurationLine, At, Initialize, BeginSuite, Event, vars
  <2>2. QED BY <1>2, <2>1
<1>7. CASE StartTest \/ TestCall \/ LeaveScope \/ AfterTest
  <2>1. call.op = "none" /\ call' = call
    BY <1>7 DEF StartTest, TestCall, LeaveScope, AfterTest, At, BeginTest, Event, HexDump, BeginScope,
                EndScope, vars
  <2>2. QED BY <1>2, <2>1
<1>8. CASE ClearLog \/ PrintSummary \/ ShutdownSystem \/ ShowResults \/ Exit \/ Reboot
  <2>1. call'.op = "none"
    BY <1>8 DEF ClearLog, PrintSummary, ShutdownSystem, ShowResults, Exit, Reboot, Restart, Returned,
                At, ClearOnScreenLog, PrintLine, vars
  <2>2. QED BY <1>2, <2>1
<1>9. QED
  BY <1>3, <1>4, <1>5, <1>6, <1>7, <1>8 DEF RNext, Run, Results

\* The steps that leave the counters as they are.
LEMMA TallyKept ==
  ASSUME RInv, Tally, UNCHANGED <<pc, i, passed, results_>>
  PROVE  /\ pc' \in {"tests", "test", "end_test"} => passed' = Cardinality(PassesIn(i - 1))'
         /\ pc' = "end_suite" => passed' = Cardinality(PassesIn(num_tests_))'
BY DEF Tally, PassesIn

\* The counters agree with the results, and with the call, after every step.
LEMMA TallyStep ==
  ASSUME RInv, Tally, [RNext]_rvars
  PROVE  Tally'
<1>1. CASE \/ SetUp \/ LoadConfigurationDone \/ SetupLogging \/ BeginLog \/ LogMounted \/ PostInit
           \/ ClearLog \/ PrintSummary \/ ShutdownSystem \/ ShowResults \/ Exit \/ Reboot
  <2>1. pc' \notin {"tests", "test", "end_test", "end_suite"}
    BY <1>1 DEF SetUp, LoadConfigurationDone, SetupLogging, AfterInitialize, BeginLog, LogMounted, PostInit,
                ClearLog, PrintSummary, ShutdownSystem, ShowResults, Exit, Reboot, Go
  <2>2. QED BY <2>1, CallTally DEF Tally
<1>2. CASE \/ TestCall \/ LeaveScope \/ InsideCall \/ UNCHANGED rvars
           \/ \E line \in ConfigurationLine : LoadConfigurationLine(line)
  <2>1. UNCHANGED <<pc, i, passed, results_>>
    BY <1>2 DEF TestCall, LeaveScope, InsideCall, LoadConfigurationLine, runner, rvars
  <2>2. QED BY <2>1, CallTally, TallyKept DEF Tally
<1>3. CASE StartTest \/ \E value \in {Pass, Fail} : ReturnFromTest(value)
  <2>1. /\ UNCHANGED <<i, passed, results_>>
        /\ pc \in {"tests", "test", "end_test"} /\ pc' \in {"tests", "test", "end_test"}
    BY <1>3 DEF StartTest, ReturnFromTest, At
  <2>2. passed' = Cardinality(PassesIn(i - 1))'
    BY <2>1 DEF Tally, PassesIn
  <2>3. QED BY <2>1, <2>2, CallTally DEF Tally
<1>4. CASE Announce
  <2>1. pc' = "tests" /\ i' = 1 /\ passed' = 0
    BY <1>4 DEF Announce
  <2>2. PassesIn(i - 1)' = {}
    BY <2>1 DEF PassesIn
  <2>3. QED BY <2>1, <2>2, CallTally, FS_EmptySet DEF Tally
<1>5. CASE AfterTest
  <2>1. pc' = "tests"
    BY <1>5 DEF AfterTest
  <2>2. QED BY <1>5, <2>1, OnePass, CallTally DEF Tally
<1>6. CASE EndTests
  <2>1. pc' = "end_suite" /\ UNCHANGED <<passed, results_>> /\ pc = "tests"
    BY <1>6 DEF EndTests, Go, At
  <2>2. i - 1 = num_tests_
    BY <1>6, <2>1, SuiteSize DEF EndTests, RInv, Counting
  <2>3. passed = Cardinality(PassesIn(num_tests_))
    BY <2>1, <2>2 DEF Tally
  <2>4. PassesIn(num_tests_)' = PassesIn(num_tests_)
    BY <2>1 DEF PassesIn
  <2>5. QED BY <2>1, <2>3, <2>4, CallTally DEF Tally
<1>7. QED BY <1>1, <1>2, <1>3, <1>4, <1>5, <1>6 DEF RNext, Run

-----------------------------------------------------------------------------
(* The file. *)

\* The record of the tests so far, with the test that has just been run.
LEMMA RecordExtended ==
  ASSUME results_ \in Seq(Results), result \in Results, i \in Nat \ {0}, Len(results_) = i - 1,
         results_' = Append(results_, result), i' = i + 1
  PROVE  RecordOf(i - 1)' = Append(RecordOf(i - 1), <<Tests[i], result>>)
<1> DEFINE S == {<<Tests[k], v>> : k \in 1 .. i, v \in Results}
           r == RecordOf(i - 1)
           x == <<Tests[i], result>>
           t == [k \in 1 .. i |-> <<Tests[k], results_'[k]>>]
<1>1. results_'[i] = result /\ \A k \in 1 .. i - 1 : results_'[k] = results_[k]
  OBVIOUS
<1>2. x \in S
  OBVIOUS
<1>3. r \in Seq(S) /\ Len(r) = i - 1 /\ \A k \in 1 .. i - 1 : r[k] = <<Tests[k], results_[k]>>
  <2>1. \A k \in 1 .. i - 1 : results_[k] \in Results /\ k \in 1 .. i
    OBVIOUS
  <2>2. \A k \in 1 .. i - 1 : <<Tests[k], results_[k]>> \in S
    BY <2>1
  <2> HIDE DEF S
  <2>3. QED BY <2>2 DEF RecordOf
<1>4. t \in Seq(S) /\ Len(t) = i
  <2>1. \A k \in 1 .. i : results_'[k] \in Results
    <3>1. \A k \in 1 .. i : k = i \/ k \in 1 .. i - 1
      OBVIOUS
    <3>2. \A k \in 1 .. i - 1 : results_[k] \in Results
      OBVIOUS
    <3>3. QED BY <1>1, <3>1, <3>2
  <2>2. \A k \in 1 .. i : <<Tests[k], results_'[k]>> \in S
    BY <2>1
  <2> HIDE DEF S
  <2>3. QED BY <2>2
<1> HIDE DEF S, r, x
<1>5. /\ Append(r, x) \in Seq(S) /\ Len(Append(r, x)) = i
      /\ Append(r, x)[i] = x /\ \A k \in 1 .. i - 1 : Append(r, x)[k] = r[k]
  BY <1>2, <1>3, AppendProperties
<1>6. \A k \in 1 .. i : t[k] = Append(r, x)[k]
  <2> TAKE k \in 1 .. i
  <2>1. CASE k = i
    BY <1>1, <1>5, <2>1 DEF x
  <2>2. CASE k # i
    <3>1. k \in 1 .. i - 1
      BY <2>2
    <3>2. QED BY <1>1, <1>3, <1>5, <3>1
  <2>3. QED BY <2>1, <2>2
<1>7. t = Append(r, x)
  BY <1>4, <1>5, <1>6, SeqEqual
<1>8. RecordOf(i - 1)' = t
  BY DEF RecordOf
<1>9. QED BY <1>7, <1>8 DEF r, x

\* The pcs past the tests.
Late == {"end_suite", "summary", "done", "ui"} \cup Stopped

\* No test is open past the tests.
LEMMA LatePhase ==
  ASSUME RInv, Recorded, [RNext]_rvars, pc' \in Late
  PROVE  phase' # "kInTest"
<1>1. ASSUME pc \in Late, phase' = phase
      PROVE  phase' # "kInTest"
  BY <1>1 DEF Recorded, TestRuns, Late, Stopped
<1>2. CASE SetUp \/ SetupLogging \/ EndTests
  <2>1. pc \in {"video", "logging", "tests"}
    BY <1>2 DEF SetUp, SetupLogging, EndTests, At
  <2>2. phase \in {"kNoSuite", "kSuiteEvents", "kTests"}
    BY <2>1 DEF RInv, LogAtPoint, NoLog, SuiteEvents, BetweenTests
  <2>3. phase' = phase
    BY <1>2 DEF SetUp, SetupLogging, Initialize, EndTests, EndSuite, vars, g_state
  <2>4. QED BY <2>2, <2>3
<1>3. CASE InsideCall
  <2>1. pc \in Late /\ (EndTestScope \/ EndTestRecord \/ EndSuiteRecord)
    BY <1>3 DEF InsideCall, runner
  <2>2. phase # "kInTest"
    BY <2>1 DEF Recorded, TestRuns, Late, Stopped
  <2>3. QED BY <2>1, <2>2 DEF EndTestScope, EndTestRecord, EndSuiteRecord
<1>4. CASE ClearLog \/ PrintSummary \/ ShutdownSystem \/ ShowResults \/ Exit
  BY <1>1, <1>4 DEF ClearLog, ClearOnScreenLog, PrintSummary, PrintLine, ShutdownSystem, ShowResults, Exit,
                    At, vars, g_state, Late
<1>5. CASE UNCHANGED rvars
  BY <1>1, <1>5 DEF rvars, runner, vars, g_state
<1>6. CASE \/ LoadConfigurationDone \/ BeginLog \/ LogMounted \/ PostInit \/ Announce \/ StartTest
           \/ AfterTest \/ Reboot \/ \E value \in {Pass, Fail} : ReturnFromTest(value)
  <2>1. pc' \in {"logging", "mounted", "post_init", "announce", "tests", "test", "end_test", "video"}
    BY <1>6 DEF LoadConfigurationDone, BeginLog, LogMounted, PostInit, Announce, StartTest, AfterTest,
                Reboot, ReturnFromTest, Go
  <2>2. QED BY <2>1 DEF Late, Stopped
<1>7. CASE TestCall \/ LeaveScope \/ \E line \in ConfigurationLine : LoadConfigurationLine(line)
  <2>1. pc' \in {"test", "config"}
    BY <1>7 DEF TestCall, LeaveScope, LoadConfigurationLine, At
  <2>2. QED BY <2>1 DEF Late, Stopped
<1>8. QED BY <1>2, <1>3, <1>4, <1>5, <1>6, <1>7 DEF RNext, Run

\* A test is open in the log only while it runs or its result is being written.
LEMMA OpenWhileRunning ==
  ASSUME RInv, Bounds, Recorded, [RNext]_rvars, phase' = "kInTest"
  PROVE  TestRuns'
<1>1. RInv' /\ Bounds' /\ pc' \notin Late
  BY RunnerStep, BoundsStep, LatePhase
<1>2. pc' \notin {"video", "config", "logging", "begin_suite", "mounted", "post_init", "announce", "tests"}
  BY <1>1 DEF RInv, LogAtPoint, NoLog, SuiteEvents, BetweenTests
<1>3. pc' \in {"test", "end_test"}
  BY <1>1, <1>2 DEF Bounds, Late
<1>4. pc' = "end_test" => call'.op = "EndTest"
  BY <1>1 DEF RInv, LogAtPoint, CallAtPoint, NoLog, BetweenTests
<1>5. QED BY <1>3, <1>4 DEF TestRuns

\* A step that neither opens nor ends a test leaves the record and the name.
LEMMA FileKept ==
  ASSUME RInv, IInv, [RNext]_rvars, Faithful, Faithful', phase = "kInTest" => phase' # "kTests"
  PROVE  /\ doc'.tests = doc.tests
         /\ phase = "kInTest" /\ phase' = "kInTest" => doc'.stack[3].vals = doc.stack[3].vals
<1>1. [Next]_vars /\ lost' = 0
  BY RunnerStep DEF Faithful
<1>2. NameKept
  BY <1>1, NamedStep
<1>3. doc'.tests = doc.tests
  <2>1. CASE UNCHANGED vars
    BY <2>1 DEF vars
  <2>2. CASE ~UNCHANGED vars
    BY <1>1, <2>2, RecordedStep
  <2>3. QED BY <2>1, <2>2
<1>4. QED BY <1>2, <1>3 DEF NameKept

\* What Recorded says of the file.
FileRecorded ==
    /\ pc \in {"begin_suite", "mounted", "post_init", "announce"} => doc.tests = <<>>
    /\ pc = "tests" \/ TestRuns => doc.tests = RecordOf(i - 1)
    /\ pc = "end_test" /\ call.op = "none" =>
         doc.tests = Append(RecordOf(i - 1), <<Tests[i], result>>)
    /\ pc = "end_suite" /\ call.op = "EndSuite" => doc.tests = RecordOf(num_tests_)
    /\ phase = "kInTest" => doc.stack[3].vals = <<Tests[i]>>

\* The file before the first test.
LEMMA RecordedBefore ==
  ASSUME RInv, IInv, Recorded, Faithful, Faithful', phase' = "kInTest" => TestRuns', [RNext]_rvars,
         BeginLog \/ LogMounted \/ PostInit \/ Announce
  PROVE  FileRecorded'
<1>1. phase # "kInTest"
  BY DEF Recorded, TestRuns, BeginLog, LogMounted, PostInit, Announce, At
<1>2. doc'.tests = <<>>
  <2>1. doc.tests = <<>>
    BY DEF Recorded, BeginLog, LogMounted, PostInit, Announce, At
  <2>2. QED BY <1>1, <2>1, FileKept
<1>3. CASE Announce
  <2>1. pc' = "tests" /\ i' = 1
    BY <1>3 DEF Announce
  <2>2. RecordOf(i - 1)' = <<>>
    BY <2>1 DEF RecordOf
  <2>3. QED BY <1>2, <2>1, <2>2 DEF FileRecorded, TestRuns
<1>4. CASE BeginLog \/ LogMounted \/ PostInit
  <2>1. pc' \in {"mounted", "post_init", "announce"}
    BY <1>4 DEF BeginLog, LogMounted, PostInit, Go
  <2>2. QED BY <1>2, <2>1 DEF FileRecorded, TestRuns
<1>5. QED BY <1>3, <1>4

\* The file while a test is begun, runs and returns.
LEMMA RecordedDuring ==
  ASSUME RInv, IInv, Recorded, Faithful, Faithful', [RNext]_rvars,
         StartTest \/ TestCall \/ LeaveScope \/ \E value \in {Pass, Fail} : ReturnFromTest(value)
  PROVE  FileRecorded'
<1>1. UNCHANGED <<i, results_>> /\ call.op = "none" /\ pc \in {"tests", "test"}
  BY DEF StartTest, TestCall, LeaveScope, ReturnFromTest, At
<1>2. RecordOf(i - 1)' = RecordOf(i - 1) /\ doc.tests = RecordOf(i - 1)
  BY <1>1 DEF RecordOf, Recorded, TestRuns
<1>3. CASE StartTest
  <2>1. /\ BeginTest(Tests[i]) /\ pc' = "test" /\ i <= num_tests_ /\ pc = "tests"
    BY <1>3 DEF StartTest, At
  <2>2. SuiteEvents \/ BetweenTests
    BY <2>1 DEF RInv, LogAtPoint, Faithful, NoLog
  <2>3. phase \in {"kSuiteEvents", "kTests"} /\ SuiteScopesClosed /\ initialized
    BY <2>2 DEF SuiteEvents, BetweenTests, SuiteScopesClosed
  <2>4. Tests[i] \in TestNames
    BY <2>1, RunnerAssumption DEF RInv, Counting, num_tests_
  <2>5. doc'.stack[3].vals = <<Tests[i]>>
    BY <2>1, <2>3, <2>4, TestStep
  <2>6. doc'.tests = doc.tests
    BY <2>3, FileKept
  <2>7. QED BY <1>1, <1>2, <2>1, <2>5, <2>6 DEF FileRecorded
<1>4. CASE TestCall \/ LeaveScope
  <2>1. pc = "test" /\ pc' = "test"
    BY <1>4 DEF TestCall, LeaveScope, At
  <2>2. phase = "kInTest" /\ phase' = "kInTest"
    BY <2>1, RunnerStep DEF RInv, LogAtPoint, Faithful, NoLog, InTest
  <2>3. doc'.tests = doc.tests /\ doc'.stack[3].vals = doc.stack[3].vals
    BY <2>2, FileKept
  <2>4. QED BY <1>1, <1>2, <2>1, <2>2, <2>3 DEF FileRecorded, Recorded
<1>5. ASSUME NEW value \in {Pass, Fail}, ReturnFromTest(value)
      PROVE  FileRecorded'
  <2>1. pc = "test" /\ pc' = "end_test" /\ EndTest(value)
    BY <1>5 DEF ReturnFromTest, At
  <2>2. phase = "kInTest"
    BY <2>1 DEF RInv, LogAtPoint, Faithful, NoLog, InTest
  <2>3. call'.op = "EndTest" /\ doc' = doc /\ phase' = "kInTest"
    BY <2>1, <2>2 DEF EndTest, g_state
  <2>4. QED BY <1>1, <1>2, <2>1, <2>2, <2>3 DEF FileRecorded, Recorded
<1>6. QED BY <1>3, <1>4, <1>5

\* The file as a test is ended and its result kept.
LEMMA RecordedAfter ==
  ASSUME RInv, IInv, Tally, Recorded, Faithful, Faithful', [RNext]_rvars,
         phase' = "kInTest" => TestRuns', InsideCall \/ AfterTest \/ EndTests
  PROVE  FileRecorded'
<1>1. CASE InsideCall /\ call.op = "EndTest"
  <2>1. /\ pc = "end_test" /\ initialized /\ phase = "kInTest" /\ Len(array_has_item) = 1
        /\ UNCHANGED runner
    BY <1>1 DEF RInv, CallAtPoint, InsideCall
  <2>2. EndTestRecord
    BY <1>1, <2>1 DEF InsideCall, EndTestScope, CloseScope, EndSuiteRecord
  <2>3. pc' = "end_test" /\ call'.op = "none" /\ phase' = "kTests" /\ UNCHANGED <<i, results_, result>>
    BY <1>1, <2>1, <2>2 DEF EndTestRecord, Returned, runner
  <2>4. doc.tests = RecordOf(i - 1) /\ doc.stack[3].vals = <<Tests[i]>> /\ call.result = result
    BY <1>1, <2>1 DEF Recorded, TestRuns, Tally
  <2>5. doc'.tests = Append(doc.tests, <<doc.stack[3].vals[1], call.result>>)
    <3>1. doc' = EndObj(Members(Comma(EndArr(doc)), <<call.result>>))
      BY <2>2, Appended DEF EndTestRecord, IInv
    <3>2. QED BY <2>1, <3>1, RecordedTest
  <2>6. doc'.tests = Append(RecordOf(i - 1), <<Tests[i], result>>)
    <3>1. doc.stack[3].vals[1] = Tests[i]
      BY <2>4
    <3>2. QED BY <2>4, <2>5, <3>1
  <2>7. RecordOf(i - 1)' = RecordOf(i - 1)
    BY <2>3 DEF RecordOf
  <2>8. QED BY <2>3, <2>6, <2>7 DEF FileRecorded, TestRuns
<1>2. CASE InsideCall /\ call.op = "EndSuite"
  <2>1. pc = "end_suite" /\ phase # "kInTest" /\ UNCHANGED runner
    BY <1>2 DEF RInv, CallAtPoint, InsideCall
  <2>2. EndSuiteRecord
    BY <1>2, <2>1 DEF InsideCall, EndTestScope, EndTestRecord
  <2>3. pc' = "end_suite" /\ call'.op = "none" /\ phase' = "kDone"
    BY <2>1, <2>2 DEF EndSuiteRecord, Returned, runner
  <2>4. QED BY <2>3 DEF FileRecorded, TestRuns
<1>3. CASE AfterTest
  <2>1. /\ pc = "end_test" /\ call.op = "none" /\ pc' = "tests" /\ UNCHANGED vars
        /\ results_' = Append(results_, result) /\ i' = i + 1
    BY <1>3 DEF AfterTest, At
  <2>2. results_ \in Seq(Results) /\ result \in Results /\ i \in Nat \ {0} /\ Len(results_) = i - 1
    BY <2>1 DEF RInv, Counting
  <2>3. RecordOf(i - 1)' = Append(RecordOf(i - 1), <<Tests[i], result>>)
    BY <2>1, <2>2, RecordExtended
  <2>4. doc.tests = Append(RecordOf(i - 1), <<Tests[i], result>>)
    BY <2>1 DEF Recorded
  <2>5. phase' # "kInTest"
    BY <2>1 DEF TestRuns
  <2>6. QED BY <2>1, <2>3, <2>4, <2>5 DEF FileRecorded, vars
<1>4. CASE EndTests
  <2>1. /\ pc = "tests" /\ pc' = "end_suite" /\ UNCHANGED <<i, results_, doc>> /\ i > num_tests_
    BY <1>4 DEF EndTests, EndSuite, Go, At
  <2>2. i - 1 = num_tests_
    BY <2>1, SuiteSize DEF RInv, Counting
  <2>3. doc'.tests = RecordOf(num_tests_)'
    BY <2>1, <2>2 DEF Recorded, RecordOf
  <2>4. phase' # "kInTest"
    BY <2>1 DEF TestRuns
  <2>5. QED BY <2>1, <2>3, <2>4 DEF FileRecorded, TestRuns
<1>5. InsideCall => call.op \in {"EndTest", "EndSuite"}
  BY DEF InsideCall, EndTestScope, EndTestRecord, EndSuiteRecord, RInv, CallAtPoint
<1>6. QED BY <1>1, <1>2, <1>3, <1>4, <1>5

\* A file that has just been made has nothing in it, and no test has been begun.
LEMMA RecordedFresh ==
  ASSUME RInv', IInv', Faithful', phase' = "kNoSuite", doc' = EmptyDoc
  PROVE  FileRecorded'
<1>1. pc' \notin {"tests", "test"} /\ ~(pc' = "end_test" /\ call'.op \in {"none", "EndTest"})
  BY DEF RInv, LogAtPoint, CallAtPoint, Faithful, NoLog, SuiteEvents, BetweenTests, InTest
<1>2. ~(pc' = "end_suite" /\ call'.op = "EndSuite")
  BY DEF IInv, CallOK, Faithful
<1>3. doc'.tests = <<>>
  BY DEF EmptyDoc
<1>4. QED BY <1>1, <1>2, <1>3 DEF FileRecorded, TestRuns

\* The file agrees with the counters after every step.
LEMMA RecordedStepsKeep ==
  ASSUME RInv, IInv, Bounds, Tally, Recorded, [RNext]_rvars
  PROVE  Recorded'
<1>1. RInv' /\ IInv' /\ [Next]_vars
  BY RunnerStep, Inductive
<1>2. phase' = "kInTest" => TestRuns'
  BY OpenWhileRunning
<1>3. ASSUME Faithful' PROVE FileRecorded'
  <2>1. CASE ~Faithful
    BY <1>1, <1>3, <2>1, FaithfulBefore, RecordedFresh
  <2>2. CASE Faithful
    <3>1. CASE BeginLog \/ LogMounted \/ PostInit \/ Announce
      BY <1>2, <1>3, <2>2, <3>1, RecordedBefore
    <3>2. CASE StartTest \/ TestCall \/ LeaveScope \/ \E value \in {Pass, Fail} : ReturnFromTest(value)
      BY <1>3, <2>2, <3>2, RecordedDuring
    <3>3. CASE InsideCall \/ AfterTest \/ EndTests
      BY <1>2, <1>3, <2>2, <3>3, RecordedAfter
    <3>4. CASE \/ SetUp \/ LoadConfigurationDone \/ SetupLogging
               \/ \E line \in ConfigurationLine : LoadConfigurationLine(line)
      <4>1. pc \in {"video", "config", "logging"}
        BY <3>4 DEF SetUp, LoadConfigurationDone, SetupLogging, LoadConfigurationLine, At
      <4>2. QED BY <2>2, <4>1 DEF RInv, LogAtPoint, NoLog, Faithful
    <3>5. CASE ClearLog \/ PrintSummary \/ ShutdownSystem \/ ShowResults \/ Exit
      <4>1. pc' \in {"summary", "done", "off", "ui", "exited"}
        BY <3>5 DEF ClearLog, PrintSummary, ShutdownSystem, ShowResults, Exit, Go
      <4>2. phase' # "kInTest"
        BY <1>2, <4>1 DEF TestRuns
      <4>3. QED BY <4>1, <4>2 DEF FileRecorded, TestRuns
    <3>6. CASE Reboot
      BY <1>3, <3>6 DEF Reboot, Restart, Faithful
    <3>7. CASE UNCHANGED rvars
      BY <2>2, <3>7 DEF Recorded, FileRecorded, TestRuns, RecordOf, rvars, runner, vars, g_state
    <3>8. QED BY <3>1, <3>2, <3>3, <3>4, <3>5, <3>6, <3>7 DEF RNext, Run
  <2>3. QED BY <2>1, <2>2
<1>4. QED BY <1>2, <1>3 DEF Recorded, FileRecorded

-----------------------------------------------------------------------------
(* The screen. *)

\* The end of what was on the screen and what is printed.
LastOf(all) ==
    IF Len(all) > kMaxOnScreenLogLines
    THEN SubSeq(all, Len(all) - kMaxOnScreenLogLines + 1, Len(all)) ELSE all

\* EchoLines keeps the end of what was on the screen and what is printed.
LEMMA EchoKeepsLast ==
  ASSUME NEW S, NEW log \in Seq(S), NEW lines \in Seq(S)
  PROVE  EchoLines(log, lines) = LastOf(log \o lines)
<1> DEFINE all == log \o lines
<1>1. Len(all) \in Nat /\ kMaxOnScreenLogLines \in Nat
  BY ConcatProperties, LenProperties, BoundAssumption
<1> HIDE DEF all
<1>2. Len(all) - kMaxOnScreenLogLines > 0 <=> Len(all) > kMaxOnScreenLogLines
  BY <1>1
<1>3. QED BY <1>2 DEF EchoLines, LastOf, all

\* What the end of a text is made of.
LEMMA LastLines ==
  ASSUME NEW S, NEW all \in Seq(S)
  PROVE  /\ LastOf(all) \in Seq(S)
         /\ Len(LastOf(all)) = IF Len(all) > kMaxOnScreenLogLines THEN kMaxOnScreenLogLines ELSE Len(all)
         /\ \A k \in 1 .. Len(LastOf(all)) : LastOf(all)[k] = all[Len(all) - Len(LastOf(all)) + k]
<1> DEFINE M == kMaxOnScreenLogLines
<1>1. Len(all) \in Nat /\ M \in Nat \ {0}
  BY LenProperties, BoundAssumption
<1>2. CASE Len(all) > M
  <2> DEFINE m == Len(all) - M + 1
             n == Len(all)
             e == SubSeq(all, m, n)
  <2>0. LastOf(all) = e
    BY <1>2 DEF LastOf
  <2>1. m \in Int /\ n \in Int /\ m <= n /\ n - m + 1 = M /\ \A k \in m .. n : all[k] \in S
    <3>1. m \in Int /\ n \in Int /\ m <= n /\ n - m + 1 = M /\ \A k \in m .. n : k \in 1 .. Len(all)
      BY <1>1, <1>2
    <3>2. QED BY <3>1, ElementOfSeq
  <2>2. \A k \in 1 .. M : m + k - 1 = Len(all) - M + k
    BY <1>1
  <2> HIDE DEF m, n
  <2>3. e \in Seq(S) /\ Len(e) = M /\ \A k \in 1 .. M : e[k] = all[m + k - 1]
    BY <2>1, SubSeqProperties
  <2> HIDE DEF e
  <2>4. \A k \in 1 .. M : e[k] = all[Len(all) - M + k]
    BY <2>2, <2>3
  <2>5. QED BY <1>2, <2>0, <2>3, <2>4
<1>3. CASE ~(Len(all) > M)
  <2>1. LastOf(all) = all
    BY <1>3 DEF LastOf
  <2>2. \A k \in 1 .. Len(all) : Len(all) - Len(all) + k = k
    BY <1>1
  <2>3. QED BY <1>1, <1>3, <2>1, <2>2
<1>4. QED BY <1>2, <1>3

\* Printing line by line shows what printing all at once would.
LEMMA EchoedLineByLine ==
  ASSUME NEW S, NEW a \in Seq(S), NEW x \in S
  PROVE  EchoLines(EchoLines(<<>>, a), <<x>>) = EchoLines(<<>>, Append(a, x))
<1> DEFINE e == LastOf(a)
           b == Append(a, x)
           all == Append(e, x)
           f == LastOf(all)
           g == LastOf(b)
           M == kMaxOnScreenLogLines
<1>1. <<>> \in Seq(S) /\ <<x>> \in Seq(S)
  OBVIOUS
<1>2. /\ b \in Seq(S) /\ Len(b) = Len(a) + 1 /\ b[Len(a) + 1] = x
      /\ \A k \in 1 .. Len(a) : b[k] = a[k]
  BY AppendProperties
<1>3. /\ e \in Seq(S) /\ Len(e) = IF Len(a) > M THEN M ELSE Len(a)
      /\ \A k \in 1 .. Len(e) : e[k] = a[Len(a) - Len(e) + k]
  BY LastLines
<1> HIDE DEF e, b
<1>4. /\ g \in Seq(S) /\ Len(g) = IF Len(b) > M THEN M ELSE Len(b)
      /\ \A k \in 1 .. Len(g) : g[k] = b[Len(b) - Len(g) + k]
  BY <1>2, LastLines
<1>5. /\ all \in Seq(S) /\ Len(all) = Len(e) + 1 /\ all[Len(e) + 1] = x
      /\ \A k \in 1 .. Len(e) : all[k] = e[k]
  BY <1>3, AppendProperties
<1>6. all = e \o <<x>>
  BY <1>3, AppendIsConcat
<1> HIDE DEF all
<1>7. /\ f \in Seq(S) /\ Len(f) = IF Len(all) > M THEN M ELSE Len(all)
      /\ \A k \in 1 .. Len(f) : f[k] = all[Len(all) - Len(f) + k]
  BY <1>5, LastLines
<1> HIDE DEF f, g, M
<1>8. /\ M \in Nat \ {0} /\ Len(a) \in Nat /\ Len(e) \in Nat /\ Len(f) \in Nat
      /\ Len(f) = Len(g) /\ Len(a) - Len(e) = Len(b) - Len(g) - (Len(all) - Len(f))
  <2>1. M \in Nat \ {0}
    BY BoundAssumption DEF M
  <2>2. Len(a) \in Nat /\ Len(e) \in Nat /\ Len(f) \in Nat
    BY <1>3, <1>7, LenProperties
  <2>3. /\ Len(b) = Len(a) + 1 /\ Len(all) = Len(e) + 1 /\ Len(e) = IF Len(a) > M THEN M ELSE Len(a)
        /\ Len(g) = IF Len(b) > M THEN M ELSE Len(b)
        /\ Len(f) = IF Len(all) > M THEN M ELSE Len(all)
    BY <1>2, <1>3, <1>4, <1>5, <1>7
  <2>4. CASE Len(a) >= M
    <3>1. Len(e) = M /\ Len(f) = M /\ Len(g) = M
      BY <2>1, <2>2, <2>3, <2>4
    <3>2. Len(all) = M + 1 /\ Len(b) = Len(a) + 1
      BY <2>3, <3>1
    <3>3. QED BY <2>1, <2>2, <3>1, <3>2
  <2>5. CASE ~(Len(a) >= M)
    <3>1. Len(e) = Len(a) /\ Len(f) = Len(a) + 1 /\ Len(g) = Len(a) + 1
      BY <2>1, <2>2, <2>3, <2>5
    <3>2. Len(all) = Len(a) + 1 /\ Len(b) = Len(a) + 1
      BY <2>3, <3>1
    <3>3. QED BY <2>1, <2>2, <3>1, <3>2
  <2>6. QED BY <2>4, <2>5
<1>9. \A k \in 1 .. Len(f) : f[k] = g[k]
  <2> SUFFICES ASSUME NEW k \in 1 .. Len(f) PROVE f[k] = g[k]
    OBVIOUS
  <2> DEFINE j == Len(all) - Len(f) + k
             h == Len(b) - Len(g) + k
  <2>1. f[k] = all[j] /\ g[k] = b[h]
    BY <1>4, <1>7, <1>8
  <2>2. /\ Len(b) = Len(a) + 1 /\ Len(all) = Len(e) + 1
        /\ Len(e) <= Len(a) /\ Len(f) <= Len(all) /\ k \in Nat \ {0} /\ k <= Len(f)
    <3>1. /\ Len(b) = Len(a) + 1 /\ Len(all) = Len(e) + 1 /\ Len(e) = IF Len(a) > M THEN M ELSE Len(a)
          /\ Len(f) = IF Len(all) > M THEN M ELSE Len(all)
      BY <1>2, <1>3, <1>5, <1>7
    <3>2. QED BY <1>8, <3>1
  <2>3. j \in 1 .. Len(e) + 1 /\ h = Len(a) - Len(e) + j
    BY <1>8, <2>2
  <2> HIDE DEF j, h
  <2>4. CASE j \in 1 .. Len(e)
    <3>1. h \in 1 .. Len(a)
      BY <1>8, <2>2, <2>3, <2>4
    <3>2. all[j] = e[j] /\ b[h] = a[h]
      BY <1>2, <1>5, <2>4, <3>1
    <3>3. e[j] = a[h]
      BY <1>3, <2>3, <2>4
    <3>4. QED BY <2>1, <3>2, <3>3
  <2>5. CASE j = Len(e) + 1
    <3>1. h = Len(a) + 1
      BY <1>8, <2>2, <2>3, <2>5
    <3>2. QED BY <1>2, <1>5, <2>1, <2>5, <3>1
  <2>6. QED BY <1>8, <2>3, <2>4, <2>5
<1>10. f = g
  BY <1>4, <1>7, <1>8, <1>9, SeqEqual
<1>11. EchoLines(<<>>, a) = e /\ EchoLines(<<>>, b) = g
  <2>1. <<>> \o a = a /\ <<>> \o b = b
    BY <1>2, ConcatEmptySeq
  <2>2. QED BY <1>1, <1>2, <2>1, EchoKeepsLast DEF e, g
<1>12. EchoLines(e, <<x>>) = f
  BY <1>1, <1>3, <1>6, EchoKeepsLast DEF f
<1>13. QED BY <1>10, <1>11, <1>12 DEF b

\* The screen is the end of the summary so far.
LEMMA ScreenStep ==
  ASSUME RInv, Bounds, Screen, [RNext]_rvars
  PROVE  Screen'
<1> DEFINE S == {Pass, Fail, Text}
           T == SummaryText
<1>0. num_tests_ \in Nat
  BY SuiteSize
<1>1. CASE pc' \notin {"summary", "done", "ui", "off"}
  BY <1>1 DEF Screen
<1>2. CASE ClearLog
  <2>1. pc' = "summary" /\ i' = 1 /\ on_screen_log' = <<>>
    BY <1>2 DEF ClearLog, ClearOnScreenLog
  <2>2. SubSeq(SummaryText', 1, 0) = <<>>
    BY SubSeqEmpty
  <2>3. EchoLines(<<>>, <<>>) = <<>>
    <3>1. <<>> \in Seq(S) /\ <<>> \o <<>> = <<>>
      BY ConcatEmptySeq, EmptySeq
    <3>2. LastOf(<<>>) = <<>>
      <4>1. Len(<<>>) = 0 /\ kMaxOnScreenLogLines \in Nat \ {0}
        BY BoundAssumption
      <4>2. QED BY <4>1 DEF LastOf
    <3>3. QED BY <3>1, <3>2, EchoKeepsLast
  <2>4. i' - 1 = 0
    BY <2>1
  <2>5. on_screen_log' = EchoLines(<<>>, SubSeq(SummaryText', 1, i' - 1))
    BY <2>1, <2>2, <2>3, <2>4
  <2>6. QED BY <2>1, <2>5 DEF Screen
<1>3. CASE PrintSummary
  <2>1. /\ pc = "summary" /\ i' = i + 1 /\ results_' = results_
        /\ pc' = IF i = num_tests_ + 2 THEN "done" ELSE "summary"
        /\ on_screen_log' = EchoLines(on_screen_log, <<SummaryLine>>)
    BY <1>3 DEF PrintSummary, PrintLine, Echo, At
  <2>2. /\ results_ \in Seq(Results) /\ Len(results_) = num_tests_
        /\ i \in 1 .. num_tests_ + 2
    BY <1>0, <2>1 DEF RInv, Counting, Bounds
  <2>3. /\ T \in Seq(S) /\ Len(T) = num_tests_ + 2
        /\ \A k \in 1 .. num_tests_ + 2 : T[k] = IF k <= num_tests_ THEN results_[k] ELSE Text
    <3>1. /\ results_ \in Seq(S) /\ <<Text, Text>> \in Seq(S) /\ Len(<<Text, Text>>) = 2
          /\ <<Text, Text>>[1] = Text /\ <<Text, Text>>[2] = Text
      <4>1. results_ \in Seq(S)
        BY <2>2, SeqMonotonic DEF Results
      <4>2. QED BY <4>1
    <3>2. /\ T \in Seq(S) /\ Len(T) = num_tests_ + 2
          /\ \A k \in 1 .. num_tests_ + 2 :
               T[k] = IF k <= num_tests_ THEN results_[k] ELSE <<Text, Text>>[k - num_tests_]
      <4> HIDE DEF S
      <4>1. QED BY <2>2, <3>1, ConcatProperties DEF SummaryText
    <3>3. \A k \in 1 .. num_tests_ + 2 : ~(k <= num_tests_) => k - num_tests_ \in {1, 2}
      BY <1>0
    <3> HIDE DEF T, S
    <3>4. QED BY <3>1, <3>2, <3>3
  <2>4. SummaryLine = T[i]
    BY <2>2, <2>3 DEF SummaryLine
  <2>5. SummaryText' = T
    BY <2>1 DEF SummaryText
  <2> HIDE DEF T, S
  <2>6. SubSeq(T, 1, i) = Append(SubSeq(T, 1, i - 1), T[i]) /\ SubSeq(T, 1, i - 1) \in Seq(S) /\ T[i] \in S
    <3>1. 1 \in 1 .. Len(T) /\ i \in 1 .. Len(T)
      BY <1>0, <2>2, <2>3
    <3>2. T[i] \in S /\ \A k \in 1 .. i - 1 : T[k] \in S
      BY <2>2, <2>3, <3>1, ElementOfSeq
    <3>3. SubSeq(T, 1, i - 1) \in Seq(S)
      BY <2>2, <3>2, SubSeqProperties
    <3>4. SubSeq(T, 1, i) = SubSeq(T, 1, i - 1) \o <<T[i]>>
      BY <2>2, <2>3, <3>1, SubSeqRecursiveSecond
    <3>5. QED BY <3>2, <3>3, <3>4, AppendIsConcat
  <2>7. on_screen_log = EchoLines(<<>>, SubSeq(T, 1, i - 1))
    BY <2>1 DEF Screen, T
  <2>8. on_screen_log' = EchoLines(<<>>, SubSeq(T, 1, i))
    BY <2>1, <2>4, <2>6, <2>7, EchoedLineByLine
  <2>9. CASE i = num_tests_ + 2
    <3>1. SubSeq(T, 1, i) = T /\ pc' = "done"
      BY <2>1, <2>3, <2>9, SubSeqFull
    <3>2. Len(results_') = num_tests_
      BY <2>1, <2>2
    <3>3. QED BY <2>5, <2>8, <3>1, <3>2 DEF Screen
  <2>10. CASE i # num_tests_ + 2
    <3>1. pc' = "summary" /\ i' - 1 = i
      BY <2>1, <2>2, <2>10
    <3>2. QED BY <2>5, <2>8, <3>1 DEF Screen
  <2>11. QED BY <2>9, <2>10
<1>4. CASE ShutdownSystem \/ ShowResults
  <2>1. pc = "done" /\ pc' \in {"off", "ui"} /\ UNCHANGED <<results_, on_screen_log>>
    BY <1>4 DEF ShutdownSystem, ShowResults, At, Go, vars, g_state
  <2>2. QED BY <2>1 DEF Screen, SummaryText
<1>5. CASE InsideCall
  <2>1. pc \in {"end_test", "end_suite"} /\ pc' = pc
    BY <1>5 DEF InsideCall, EndTestScope, EndTestRecord, EndSuiteRecord, runner, RInv, CallAtPoint
  <2>2. QED BY <1>1, <2>1
<1>6. CASE UNCHANGED rvars
  BY <1>6 DEF Screen, SummaryText, rvars, runner, vars, g_state
<1>7. CASE \/ SetUp \/ LoadConfigurationDone \/ SetupLogging \/ BeginLog \/ LogMounted \/ PostInit
           \/ Announce \/ StartTest \/ AfterTest \/ EndTests \/ Exit \/ Reboot
           \/ \E value \in {Pass, Fail} : ReturnFromTest(value)
  <2>1. pc' \in {"config", "exited", "logging", "post_init", "halted", "begin_suite", "mounted",
                 "announce", "tests", "test", "end_suite", "video", "end_test"}
    BY <1>7 DEF SetUp, LoadConfigurationDone, SetupLogging, AfterInitialize, BeginLog, LogMounted,
                PostInit, Announce, StartTest, AfterTest, EndTests, Exit, Reboot, ReturnFromTest, Go
  <2>2. QED BY <1>1, <2>1
<1>8. CASE TestCall \/ LeaveScope \/ \E line \in ConfigurationLine : LoadConfigurationLine(line)
  <2>1. pc' \in {"test", "config"}
    BY <1>8 DEF TestCall, LeaveScope, LoadConfigurationLine, At
  <2>2. QED BY <1>1, <2>1
<1>9. QED BY <1>2, <1>3, <1>4, <1>5, <1>6, <1>7, <1>8 DEF RNext, Run

-----------------------------------------------------------------------------
(* The complete document. *)

\* The record of all results has every test, and as many passes as results_.
LEMMA RecordOfAll ==
  ASSUME results_ \in Seq(Results), Len(results_) = num_tests_
  PROVE  LET r == RecordOf(num_tests_)
         IN  /\ [k \in DOMAIN r |-> r[k][1]] = Tests
             /\ Passes(r) = PassesIn(num_tests_)
<1> DEFINE r == RecordOf(num_tests_)
<1>1. DOMAIN r = 1 .. num_tests_ /\ \A k \in 1 .. num_tests_ : r[k][1] = Tests[k] /\ r[k][2] = results_[k]
  BY DEF RecordOf
<1>2. Tests = [k \in 1 .. num_tests_ |-> Tests[k]]
  BY RunnerAssumption DEF num_tests_
<1> HIDE DEF r
<1>3. [k \in DOMAIN r |-> r[k][1]] = [k \in 1 .. num_tests_ |-> Tests[k]]
  BY <1>1
<1>4. Passes(r) = PassesIn(num_tests_)
  BY <1>1 DEF Passes, PassesIn
<1>5. QED BY <1>2, <1>3, <1>4 DEF r

\* Only the append of EndSuite completes the document, and it is then right.
LEMMA DocumentStep ==
  ASSUME RInv, IInv, Tally, Recorded, CompleteDocumentIsRight, [RNext]_rvars
  PROVE  CompleteDocumentIsRight'
<1> SUFFICES ASSUME lost' = 0, doc'.done
             PROVE  /\ [k \in DOMAIN doc'.tests |-> doc'.tests[k][1]] = Tests
                    /\ doc'.suite = <<Text, Cardinality(Passes(doc'.tests)),
                                      num_tests_ - Cardinality(Passes(doc'.tests))>>
  BY DEF CompleteDocumentIsRight
<1>1. [Next]_vars
  BY RunnerStep
<1>2. CASE lost = 0 /\ doc' = doc
  BY <1>2 DEF CompleteDocumentIsRight
<1>3. CASE EndSuiteRecord /\ Faithful /\ doc'.tests = doc.tests /\ doc'.suite = <<Text, call.passed, call.failed>>
  <2>1. call.op = "EndSuite" /\ pc = "end_suite"
    BY <1>3 DEF EndSuiteRecord, RInv, CallAtPoint
  <2>2. results_ \in Seq(Results) /\ Len(results_) = num_tests_
    BY <2>1 DEF RInv, Counting
  <2>3. call.passed = Cardinality(PassesIn(num_tests_)) /\ call.failed = num_tests_ - call.passed
    BY <2>1 DEF Tally
  <2>4. doc'.tests = RecordOf(num_tests_)
    BY <1>3, <2>1 DEF Recorded
  <2>5. Passes(doc'.tests) = PassesIn(num_tests_)
    BY <2>2, <2>4, RecordOfAll
  <2>6. [k \in DOMAIN doc'.tests |-> doc'.tests[k][1]] = Tests
    BY <2>2, <2>4, RecordOfAll
  <2>7. QED BY <1>3, <2>3, <2>5, <2>6
<1>4. QED BY <1>1, <1>2, <1>3, DocumentDone

-----------------------------------------------------------------------------
(* The invariant. *)

\* Nothing has been run.
LEMMA RunInit == RInit => RunInv
<1> SUFFICES ASSUME RInit PROVE RunInv
  OBVIOUS
<1>1. RInv /\ IInv
  BY RunnerInit, Initially
<1>2. /\ pc = "video" /\ shutdown_on_completion_ = FALSE /\ i = 1 /\ passed = 0 /\ results_ = <<>>
      /\ guards = 0 /\ calls = 0 /\ call.op = "none" /\ phase = "kNoSuite" /\ ~initialized /\ ~doc.done
  BY DEF RInit, Init, Returned, EmptyDoc
<1>3. Bounds
  <2>1. Len(<<>>) = 0 /\ num_tests_ \in Nat /\ MaxDepth \in Nat /\ MaxCalls \in Nat
    BY SuiteSize, RunnerAssumption
  <2>2. shutdown_on_completion_ \in BOOLEAN
    BY <1>2
  <2>3. Len(results_) = 0
    BY <1>2, <2>1
  <2>4. QED BY <1>2, <2>1, <2>2, <2>3 DEF Bounds
<1>4. Tally /\ Recorded /\ CompleteDocumentIsRight /\ Screen
  BY <1>2 DEF Tally, Recorded, Faithful, CompleteDocumentIsRight, Screen
<1>5. QED BY <1>1, <1>3, <1>4 DEF RunInv, Ledger

\* Every step of the program keeps it.
LEMMA RunStep == RunInv /\ [RNext]_rvars => RunInv'
<1> SUFFICES ASSUME RunInv, [RNext]_rvars PROVE RunInv'
  OBVIOUS
<1>1. RInv' /\ IInv'
  BY RunnerStep, Inductive DEF RunInv
<1>2. Bounds' /\ Tally' /\ Recorded' /\ CompleteDocumentIsRight' /\ Screen'
  BY BoundsStep, TallyStep, RecordedStepsKeep, DocumentStep, ScreenStep DEF RunInv, Ledger
<1>3. QED BY <1>1, <1>2 DEF RunInv, Ledger

\* The run and what it writes agree at every point, however it is cut short.
THEOREM RunInvariant == RunnerSpec => []RunInv
BY RunInit, RunStep, PTL DEF RunnerSpec

(***************************************************************************)
(* The state of TestRunner::Run keeps its types and its bounds: passed     *)
(* and results_ never count more tests than the suite has, and the index   *)
(* that RunAllTests and the summary share stays inside their loops.        *)
(***************************************************************************)
THEOREM RunnerTypeCorrect == RunnerSpec => []RunnerTypeOK
<1>1. RunInv => RunnerTypeOK
  <2> SUFFICES ASSUME RunInv PROVE RunnerTypeOK
    OBVIOUS
  <2>1. /\ i \in Nat \ {0} /\ passed \in Nat /\ guards \in Nat /\ num_tests_ \in Nat /\ MaxDepth \in Nat
        /\ results_ \in Seq({Pass, Fail}) /\ result \in {Pass, Fail} /\ TypeOK
    BY SuiteSize, RunnerAssumption DEF RunInv, RInv, Counting, Results
  <2>2. Bounds
    BY DEF RunInv, Ledger
  <2>3. i \in 1 .. num_tests_ + 3 /\ passed \in 0 .. num_tests_ /\ guards \in 0 .. MaxDepth
    BY <2>1, <2>2 DEF Bounds
  <2>4. shutdown_on_completion_ \in BOOLEAN
    BY <2>2 DEF Bounds
  <2>5. QED BY <2>1, <2>2, <2>3, <2>4 DEF RunnerTypeOK, Bounds
<1>2. QED BY <1>1, RunInvariant, PTL

\* The test that is open in the file is the one that is open in the log.
LEMMA OpenInFile ==
  ASSUME IInv, Faithful
  PROVE  OpenTest = IF phase = "kInTest" THEN doc.stack[3].vals ELSE <<>>
<1>1. Nesting /\ phase \in Phase /\ array_has_item \in Seq(BOOLEAN)
  BY DEF IInv, FileInv, TypeOK
<1> DEFINE n == Len(array_has_item)
<1>2. n \in Nat
  BY <1>1, LenProperties
<1>3. CASE phase = "kInTest"
  <2>1. Depth(doc) = 2 + 2 * n /\ n >= 1 /\ doc.stack[2].kind = "tests"
    BY <1>1, <1>3 DEF Nesting, ScopesAbove, OpenAt
  <2>2. Depth(doc) >= 3
    BY <1>2, <2>1
  <2>3. QED BY <1>3, <2>1, <2>2 DEF OpenTest
<1>4. CASE phase = "kSuiteEvents"
  <2>1. n >= 1 /\ \A j \in 1 .. n : OpenAt(0 + 2 * j, "events", IF array_has_item[j] THEN "after" ELSE "first")
    BY <1>1, <1>4 DEF Nesting, ScopesAbove
  <2>2. 1 \in 1 .. n /\ 0 + 2 * 1 = 2
    BY <1>2, <2>1
  <2>3. doc.stack[2].kind = "events"
    BY <2>1, <2>2 DEF OpenAt
  <2>4. QED BY <1>4, <2>3 DEF OpenTest
<1>5. CASE phase \in {"kNoSuite", "kTests", "kDone"}
  <2>1. Depth(doc) \in {0, 2}
    <3>1. Depth(EmptyDoc) = 0
      BY DEF Depth, EmptyDoc
    <3>2. QED BY <1>1, <1>5, <3>1 DEF Nesting
  <2>2. QED BY <1>5, <2>1 DEF OpenTest
<1>6. QED BY <1>1, <1>3, <1>4, <1>5 DEF Phase

(***************************************************************************)
(* test_log.h:25-28, while no append is lost: wherever the console stops,  *)
(* the innermost test the file leaves open is the one whose function was   *)
(* running or whose result was being written, and there is none otherwise. *)
(***************************************************************************)
THEOREM CrashIdentifiesRunningTest == RunnerSpec => []CrashIdentifiesTest
<1>1. RunInv => CrashIdentifiesTest
  <2> SUFFICES ASSUME RunInv, Faithful
               PROVE  OpenTest = IF pc = "test" \/ (pc = "end_test" /\ call.op = "EndTest")
                                 THEN <<Tests[i]>> ELSE <<>>
    BY DEF CrashIdentifiesTest
  <2>1. OpenTest = IF phase = "kInTest" THEN doc.stack[3].vals ELSE <<>>
    BY OpenInFile DEF RunInv
  <2>2. phase = "kInTest" <=> TestRuns
    BY DEF RunInv, Ledger, Recorded, RInv, LogAtPoint, CallAtPoint, Faithful, NoLog, InTest, TestRuns
  <2>3. phase = "kInTest" => doc.stack[3].vals = <<Tests[i]>>
    BY DEF RunInv, Ledger, Recorded
  <2>4. QED BY <2>1, <2>2, <2>3 DEF TestRuns
<1>2. QED BY <1>1, RunInvariant, PTL

(***************************************************************************)
(* Between two tests the file holds the results RunAllTests has counted,   *)
(* each under the name of its test and in the order of the table.          *)
(***************************************************************************)
THEOREM FileHoldsAllResults == RunnerSpec => []FileHoldsResults
<1>1. RunInv => FileHoldsResults
  BY DEF RunInv, Ledger, RInv, Counting, Recorded, FileHoldsResults, At
<1>2. QED BY <1>1, RunInvariant, PTL

(***************************************************************************)
(* A complete document has every test of the suite once, in order, and a   *)
(* summary that adds up to them; also the one a restart finds.             *)
(***************************************************************************)
THEOREM CompleteDocumentsAreRight == RunnerSpec => []CompleteDocumentIsRight
<1>1. RunInv => CompleteDocumentIsRight
  BY DEF RunInv, Ledger
<1>2. QED BY <1>1, RunInvariant, PTL

(***************************************************************************)
(* Once Run has printed the summary the screen shows the end of it and     *)
(* nothing that the tests printed, however much they did.                  *)
(***************************************************************************)
THEOREM SummaryStaysOnScreen == RunnerSpec => []ScreenShowsSummary
<1>1. RunInv => ScreenShowsSummary
  <2> SUFFICES ASSUME RunInv, pc \in {"done", "ui", "off"}
               PROVE  on_screen_log =
                        EchoLines(<<>>, [k \in 1 .. num_tests_ |-> results_[k]] \o <<Text, Text>>)
    BY DEF ScreenShowsSummary
  <2>1. Len(results_) = num_tests_ /\ on_screen_log = EchoLines(<<>>, SummaryText)
    BY DEF RunInv, Ledger, Screen
  <2>2. results_ \in Seq(Results)
    BY DEF RunInv, RInv, Counting
  <2>3. [k \in 1 .. num_tests_ |-> results_[k]] = results_
    BY <2>1, <2>2
  <2>4. QED BY <2>1, <2>3 DEF SummaryText
<1>2. QED BY <1>1, RunInvariant, PTL
=============================================================================
