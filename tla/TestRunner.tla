----------------------------- MODULE TestRunner -----------------------------
(***************************************************************************)
(* src/test_runner.cpp: one run of a suite, from power on to power off, on *)
(* top of the log of TestLog.tla.  The program is one thread; pc is where  *)
(* it stands in TestRunner::Run.  What the tests do to the GPU is left     *)
(* out: a test is any sequence of calls of the log, with scopes opened and *)
(* closed by ScopeGuards, that returns a result, or a crash.               *)
(*                                                                         *)
(* Bounds: a test makes at most MaxCalls logging calls, with at most       *)
(* MaxDepth guards alive at once.                                          *)
(***************************************************************************)
EXTENDS TestLog

CONSTANTS Tests,               \* the names in the suite's table of TestCases
          MaxCalls, MaxDepth

ASSUME RunnerAssumption ==
    /\ Tests \in Seq(TestNames) /\ Len(Tests) <= MaxTests
    /\ MaxCalls \in Nat /\ MaxDepth \in Nat

VARIABLES pc, shutdown_on_completion_,
          i,                   \* the loop counters of RunAllTests
          passed, results_,
          result,              \* what the last test function returned
          guards,              \* the ScopeGuards alive in the running test
          calls                \* the logging calls it has made

runner == <<pc, shutdown_on_completion_, i, passed, results_, result, guards, calls>>
rvars == <<vars, runner>>

num_tests_ == Len(Tests)

Stopped == {"exited", "halted", "off"}

RInit ==
    /\ Init
    /\ pc = "video" /\ shutdown_on_completion_ = FALSE
    /\ i = 1 /\ passed = 0 /\ results_ = <<>>
    /\ result = Fail /\ guards = 0 /\ calls = 0

At(here) == pc = here /\ call.op = "none"

Go(there) ==
    pc' = there /\ UNCHANGED <<shutdown_on_completion_, i, passed, results_, result, guards, calls>>

-----------------------------------------------------------------------------
(* Run, up to the tests *)

\* XVideoSetMode or pb_init may fail: main returns 1.  SDL_Init may fail too,
\* which only prints a message.
SetUp == At("video") /\ (Go("config") \/ Go("exited")) /\ UNCHANGED vars

ShutdownAfter(line) ==
    CASE line = "shutdown = true" -> TRUE
      [] line = "shutdown = <anything else>" -> FALSE
      [] OTHER -> shutdown_on_completion_

\* One line of the configuration file, if there is one and drive C: is mounted.
LoadConfigurationLine(line) ==
    /\ At("config")
    /\ shutdown_on_completion_' = ShutdownAfter(line)
    /\ UNCHANGED <<pc, i, passed, results_, result, guards, calls, vars>>

LoadConfigurationDone == At("config") /\ Go("logging") /\ UNCHANGED vars

\* Mutant of AfterInitialize: the result of Initialize is not looked at.
AfterInitializeAlways(opened) == "begin_suite"

AfterInitialize(opened) == IF opened THEN "begin_suite" ELSE "post_init"

\* The drive of log_path_ is mounted, the folders are made and the log opened.
\* Run ignores what SetupLogging returns.
SetupLogging ==
    /\ At("logging")
    /\ \/ Go("post_init") /\ UNCHANGED vars                         \* no such drive
       \/ Go("halted") /\ UNCHANGED vars                            \* EnsureFolderExists asserts
       \/ \E opened \in BOOLEAN : Initialize(opened) /\ Go(AfterInitialize(opened))

BeginLog == At("begin_suite") /\ BeginSuite /\ Go("mounted")
LogMounted == At("mounted") /\ Event /\ Go("post_init")

\* post_init_() writes nothing to the log.
PostInit == At("post_init") /\ Go("announce") /\ UNCHANGED vars

Announce ==
    /\ At("announce") /\ Event
    /\ pc' = "tests" /\ i' = 1 /\ passed' = 0 /\ results_' = <<>>
    /\ UNCHANGED <<shutdown_on_completion_, result, guards, calls>>

-----------------------------------------------------------------------------
(* RunAllTests *)

StartTest ==
    /\ At("tests") /\ i <= num_tests_
    /\ BeginTest(Tests[i])
    /\ pc' = "test" /\ guards' = 0 /\ calls' = 0
    /\ UNCHANGED <<shutdown_on_completion_, i, passed, results_, result>>

\* The running test logs something with the TEST_* macros, perhaps through a
\* new ScopeGuard.
TestCall ==
    /\ At("test") /\ calls < MaxCalls /\ calls' = calls + 1
    /\ \/ /\ guards' = guards
          /\ Event \/ \E rows \in 0 .. MaxDumpRows : HexDump(rows)
       \/ /\ guards < MaxDepth /\ guards' = guards + 1
          /\ \E name \in ScopeNames : BeginScope(name)
    /\ UNCHANGED <<pc, shutdown_on_completion_, i, passed, results_, result>>

\* ~ScopeGuard: guards are destroyed innermost first, before the test returns.
LeaveScope ==
    /\ At("test") /\ guards > 0 /\ guards' = guards - 1
    /\ EndScope
    /\ UNCHANGED <<pc, shutdown_on_completion_, i, passed, results_, result, calls>>

ReturnFromTest(value) ==
    /\ At("test") /\ guards = 0
    /\ result' = value /\ EndTest(value)
    /\ pc' = "end_test"
    /\ UNCHANGED <<shutdown_on_completion_, i, passed, results_, guards, calls>>

\* EndTest or EndSuite goes on, one append at a time.
InsideCall == (EndTestScope \/ EndTestRecord \/ EndSuiteRecord) /\ UNCHANGED runner

\* Mutant of Count: every test counts as passed.
CountAll(value) == passed + 1

Count(value) == IF value = Pass THEN passed + 1 ELSE passed

\* Mutant of AfterTest: only the results of tests that pass are kept.
AfterTestPassed ==
    /\ At("end_test")
    /\ results_' = IF result = Pass THEN Append(results_, result) ELSE results_
    /\ passed' = Count(result)
    /\ i' = i + 1 /\ pc' = "tests"
    /\ UNCHANGED <<shutdown_on_completion_, result, guards, calls, vars>>

AfterTest ==
    /\ At("end_test")
    /\ results_' = Append(results_, result) /\ passed' = Count(result)
    /\ i' = i + 1 /\ pc' = "tests"
    /\ UNCHANGED <<shutdown_on_completion_, result, guards, calls, vars>>

EndTests ==
    /\ At("tests") /\ i > num_tests_
    /\ EndSuite(passed, num_tests_ - passed)
    /\ Go("end_suite")

\* Mutant of ClearLog: the on-screen log is not cleared.
ClearLogKept ==
    /\ At("end_suite") /\ UNCHANGED vars
    /\ pc' = "summary" /\ i' = 1
    /\ UNCHANGED <<shutdown_on_completion_, passed, results_, result, guards, calls>>

ClearLog ==
    /\ At("end_suite") /\ ClearOnScreenLog
    /\ pc' = "summary" /\ i' = 1
    /\ UNCHANGED <<shutdown_on_completion_, passed, results_, result, guards, calls>>

\* One line per test, then the totals and the path of the log.
SummaryLine == IF i <= num_tests_ THEN results_[i] ELSE Text

PrintSummary ==
    /\ At("summary") /\ PrintLine(SummaryLine)
    /\ i' = i + 1 /\ pc' = IF i = num_tests_ + 2 THEN "done" ELSE "summary"
    /\ UNCHANGED <<shutdown_on_completion_, passed, results_, result, guards, calls>>

-----------------------------------------------------------------------------
(* Run, after the tests *)

ShutdownSystem == At("done") /\ shutdown_on_completion_ /\ Go("off") /\ UNCHANGED vars

\* Mutant of ShowResults: shutdown_on_completion_ is not looked at.
ShowResultsAlways == At("done") /\ Go("ui") /\ UNCHANGED vars

ShowResults == At("done") /\ ~shutdown_on_completion_ /\ Go("ui") /\ UNCHANGED vars

\* The user releases Black (right shoulder) or Start.
Exit == At("ui") /\ Go("exited") /\ UNCHANGED vars

\* A crash, a reset or, once the program has stopped, the next run of it.
Reboot ==
    /\ Restart
    /\ pc' = "video" /\ shutdown_on_completion_' = FALSE
    /\ i' = 1 /\ passed' = 0 /\ results_' = <<>>
    /\ result' = Fail /\ guards' = 0 /\ calls' = 0

ConfigurationLine == {"shutdown = true", "shutdown = <anything else>", "other"}

Run ==
    \/ SetUp \/ LoadConfigurationDone \/ SetupLogging \/ BeginLog \/ LogMounted \/ PostInit
    \/ Announce \/ StartTest \/ TestCall \/ LeaveScope
    \/ \E value \in {Pass, Fail} : ReturnFromTest(value)
    \/ InsideCall \/ AfterTest \/ EndTests \/ ClearLog \/ PrintSummary
    \/ ShutdownSystem \/ ShowResults

RNext ==
    \/ Run
    \/ \E line \in ConfigurationLine : LoadConfigurationLine(line)
    \/ Exit
    \/ Reboot

RunnerSpec == RInit /\ [][RNext]_rvars

\* The thread keeps running until the program stops or waits for the controller.
\* This is WF_rvars(Run), whose ENABLED <<Run>>_rvars is ~Waiting (and is slow to
\* evaluate from the definition); nobody has to press a button.
Waiting == pc \in Stopped \cup {"ui"}

KeepsRunning == []<>Waiting \/ []<><<Run>>_rvars

FairRunnerSpec == RunnerSpec /\ KeepsRunning

-----------------------------------------------------------------------------
(* Properties *)

RunnerTypeOK ==
    /\ TypeOK
    /\ pc \in {"video", "config", "logging", "begin_suite", "mounted", "post_init", "announce",
               "tests", "test", "end_test", "end_suite", "summary", "done", "ui"} \cup Stopped
    /\ shutdown_on_completion_ \in BOOLEAN
    /\ i \in 1 .. num_tests_ + 3 /\ passed \in 0 .. num_tests_
    /\ results_ \in Seq({Pass, Fail}) /\ Len(results_) <= num_tests_
    /\ result \in {Pass, Fail} /\ guards \in 0 .. MaxDepth /\ calls \in 0 .. MaxCalls

(***************************************************************************)
(* Run only ever calls the log the way the log relies on: one call at a    *)
(* time, BeginSuite iff Initialize succeeded, no test or summary while a   *)
(* scope of the suite's events is open.  So all that TestLog.tla shows of  *)
(* the file holds of the program.                                          *)
(***************************************************************************)
UsesLogAsIntended == Spec

\* The name of the test whose object is open in the file, if there is one.
OpenTest == IF Depth(doc) >= 3 /\ doc.stack[2].kind = "tests" THEN doc.stack[3].vals ELSE <<>>

(***************************************************************************)
(* test_log.h:25-28: a crash leaves a truncated document whose innermost   *)
(* unclosed test is the one that was running.  A test is open in the file  *)
(* exactly while its function runs or its result is being written, and it  *)
(* is tests_[i].                                                           *)
(***************************************************************************)
CrashIdentifiesTest ==
    Faithful =>
      OpenTest = IF pc = "test" \/ (pc = "end_test" /\ call.op = "EndTest")
                 THEN <<Tests[i]>> ELSE <<>>

(***************************************************************************)
(* Every ScopeGuard closes the scope it opened: the guards alive in a test *)
(* are the scopes the log has open in it, though neither knows the other   *)
(* and a guard made while nothing is recorded still calls EndScope.        *)
(***************************************************************************)
GuardsOwnScopes ==
    pc = "test" => Len(array_has_item) = IF initialized THEN guards + 1 ELSE 0

\* The tests recorded when the results of the first n are known.
RecordOf(n) == [k \in 1 .. n |-> <<Tests[k], results_[k]>>]

(***************************************************************************)
(* What has been recorded is what was run: between two tests the file      *)
(* holds the results of results_, in the order of the table.               *)
(***************************************************************************)
FileHoldsResults ==
    At("tests") => Len(results_) = i - 1 /\ (Faithful => doc.tests = RecordOf(i - 1))

Passes(tests) == {k \in DOMAIN tests : tests[k][2] = Pass}

(***************************************************************************)
(* A document that is complete is right, in this run or after a restart:   *)
(* it records every test of the suite, once and in order, and its summary  *)
(* adds up to what it records.                                             *)
(***************************************************************************)
CompleteDocumentIsRight ==
    lost = 0 /\ doc.done =>
      /\ [k \in DOMAIN doc.tests |-> doc.tests[k][1]] = Tests
      /\ doc.suite = <<Text, Cardinality(Passes(doc.tests)),
                       num_tests_ - Cardinality(Passes(doc.tests))>>

(***************************************************************************)
(* The last screen shows the end of the summary and nothing of the tests'  *)
(* own output: one line per test, the totals and the path of the log, as   *)
(* far as the on-screen log can hold them.                                 *)
(***************************************************************************)
ScreenShowsSummary ==
    pc \in {"done", "ui", "off"} =>
      on_screen_log = EchoLines(<<>>, [k \in 1 .. num_tests_ |-> results_[k]] \o <<Text, Text>>)

(***************************************************************************)
(* README.md:17-19: from the tests on, a headless run reaches power off,   *)
(* with the whole document written if the log could be, and any other run  *)
(* comes to wait for the controller; unless the console is reset.          *)
(***************************************************************************)
RunComesToItsEnd ==
    /\ (pc = "post_init" /\ shutdown_on_completion_)
         ~> (pc = "video" \/ (pc = "off" /\ (Faithful => doc.done)))
    /\ (pc = "post_init" /\ ~shutdown_on_completion_) ~> (pc \in {"video", "ui"})

-----------------------------------------------------------------------------
(* What the documentation says and the code does not do *)

(***************************************************************************)
(* test_log.h:25-28, as written: whenever the program stops while a test   *)
(* runs, the innermost unclosed test of the file is that test.  An append  *)
(* that fails (test_log.cpp:42-46) is dropped while g_state moves on.      *)
(***************************************************************************)
UnclosedTestIsRunningTest == pc = "test" /\ initialized => doc.ok /\ OpenTest = <<Tests[i]>>

(***************************************************************************)
(* test_runner.h:16-17: post_init_ is invoked after configuration and      *)
(* logging have been initialized.  Run ignores that SetupLogging failed.   *)
(***************************************************************************)
PostInitAfterLogging == pc = "post_init" => initialized
=============================================================================
