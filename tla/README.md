# A TLA+ model of nxdk_low_level_nv2a_tests

The repository builds test programs for the Xbox's NV2A GPU: suites that write
registers and push buffers, look at what the hardware did, and report.  This
directory models the parts of them that keep state and may go wrong in ways a
run on a console would hardly show, checks the models with TLC and proves the
most important properties with TLAPS.

Paths below are relative to the repository; `test_log.cpp` is
`src/src/test_log.cpp` in `PROJECT.json`, and so on.

## The system

| Component | Code | State | Operations | Interacts with |
|---|---|---|---|---|
| TestLog | `test_log.{h,cpp}` | `g_state` (phase, `has_tests`, `array_has_item`, on-screen log, `initialized`); the JSON file | `Initialize`, `BeginSuite`, `EndSuite`, `BeginTest`, `EndTest`, `Event`, `HexDump`, `BeginScope`, `EndScope`, `Print`, `ClearOnScreenLog` | file system; called by the runner and, through the `TEST_*` macros, by every test |
| TestRunner | `test_runner.{h,cpp}`, `test_suite.h` | configuration, `results_`, counters of the loop | `Run`, `LoadConfiguration`, `SetupLogging`, `RunAllTests`, `ShutdownSystem` | TestLog, the tests, `post_init_`, pbkit, SDL, SMBus |
| Suite entry points | `*_main.cpp` | the table of tests, `post_init_` | `main` | TestRunner |
| PTIMER suite | `ptimer_tests/`, `ptimer_alarm_main.cpp` | registers TIME, ALARM, INTR, INTR_EN, NUMERATOR, DENOMINATOR; `g_alarm_captures`, `g_alarm_capture_count`, `g_clock_state`, `g_boot_ptimer_state` | 16 tests, `CapturingAlarmCallback` (in the interrupt), `GetPTIMERTime`, `RunPreInitBootAlarmTest` | the hardware counter and the interrupt run beside the thread |
| M2MF suite | `m2mf_tests/`, `m2mf_main.cpp` | buffers with canaries, notifier, push buffer | 19 tests, submission, waits with timeouts, comparison of output | GPU DMA runs beside the thread |
| VSH suite | `vsh_tests/`, `vsh_main.cpp` | contexts and buffers of the compute harness, probes | `VshInit`, `VshRunProbes`, `VshRunRawProbes`, `RunCompute` (sentinel), the rounding layouts, decoding of A0 probes | GPU |
| Investigatory | `investigatory_tests/` | CACHE1 and PFIFO registers; clock captures | polling CACHE1 until drained, alarm loop | GPU, interrupt |
| Utilities | `test_util.*`, `logger.*` | none (logger: a file) | mounting, folders, printing | file system |
| Tooling | `cmake/`, `githooks/`, scripts | none of the programs' | - | - |

What is hard in them:

* **Crashes.** The programs exist to provoke the GPU; a test that hangs or kills
  the console is expected, and the file it leaves behind is all there is.
  Every append opens and closes the file so that it "reflects progress up to the
  point of a crash" (`test_log.h:25-28`).
* **Protocol.** The log's brackets and separators are written from flags in
  memory; scopes, dumps and tests nest; guards call `EndScope` whether or not
  they opened anything; `EndSuite` ends what was left open.
* **Partial failure.** Mounting, folders, opening the log and single appends may
  fail, and the code goes on.
* **Concurrency with the hardware.** The PTIMER counter, the alarm interrupt and
  DMA run beside the single thread: torn 64-bit reads, alarms that latch between
  two register writes, transfers that finish after their wait timed out.

What makes each component correct:

* TestLog: the file is always the beginning of one well-formed document, complete
  iff `EndSuite` returned; it records each test once with its own result; the
  flags in memory describe the file.
* TestRunner: it respects what the log relies on; a crash identifies the running
  test; a complete document agrees with `results_`; the run comes to its end.
* PTIMER: `GetPTIMERTime` returns a value the counter had; captures are
  consistent; a verdict does not depend on an earlier test's alarm.
* M2MF: output is compared only after the transfer has finished; no buffer is
  freed while the GPU may write it.
* VSH: no success is reported with buffers missing; results are read only when
  computed.
* CACHE1: captures of moving pointers make sense; empty means drained; no wait
  hangs on a GPU that is stuck.
* Clock program: the alarm that re-arms itself keeps its interval; a skew test
  ends once; the ratio is never zero.

`PROJECT.json` lists the hazards, each at its line and with its properties.

## Modules

| Module | Models |
|---|---|
| `JsonStream` | the log file as its reader sees it (external: file system, JSON) |
| `TestLog`, `TestLogProofs` | `test_log.cpp`; EXTENDS `JsonStream` |
| `TestRunner`, `TestRunnerProofs` | `test_runner.cpp` on top of `TestLog`, which it implements |
| `AtomicRegister` | abstract: a register that changes and is read in one piece |
| `PtimerClock`, `PtimerClockProofs` | the 64-bit counter, its three readers, `ClockState`; implements `AtomicRegister` |
| `PtimerTests`, `PtimerTestsProofs` | post_init_ and fifteen tests of the PTIMER suite, alarm and interrupt |
| `ClockMain`, `ClockMainProofs` | `investigatory_tests/clock_main.cpp` |
| `PfifoCache1`, `PfifoCache1Proofs` | `investigatory_tests/pfifo_cache1_main.cpp`, pusher and puller |
| `VshHarness`, `VshHarnessProofs` | `vsh_test_common.cpp`, `vsh_rounding_common.cpp` and the twelve VSH tests |
| `M2mf`, `M2mfProofs` | `m2mf_test_common.cpp` and the nineteen M2MF tests |
| `MCTestLog`, `MCTestRunner` | instances for TLC; the other modules need numbers only, which their `.cfg` gives |

Every suite's tests are called by `RunAllTests`, which is `TestRunner`; the
modules of the suites model what goes on inside the tests, one after the other
in the order of `kTests`, so that a test meets what the one before it left.

### JsonStream and TestLog

`test_log.cpp` writes one JSON document piece by piece.  `JsonStream` is a
reader that has consumed everything written so far: the stack of open
containers, whether each has an item or has just seen a comma, the scalars that
name a test or give its verdict, and what has been recorded.  It cuts the text
into the tokens the code writes: `{`, `"key": [`, members, a flat object, a
comma, `]`, `}`.  A token out of place makes `doc.ok` false for good.  Keys,
quoting, indentation, messages, locations and times are left out.

`TestLog` has the variables of `g_state` under their names (except
`has_events`, which the code never uses, the path, and the start times), `doc`
for the file, `lost` for the number of appends the file system has refused, and
`call` for the `EndTest` or `EndSuite` that has not returned.  Each call of the
API is an action with its early returns; `EndTest` and `EndSuite`, which append
several times, take one step per append (`EndTestScope`, `EndTestRecord`,
`EndSuiteRecord`), so `Restart`, the crash, may come between any two appends.
A crash in the middle of one append leaves that append's text cut short: the
reader stops inside one token, which changes nothing it has read.  An append
either reaches the file whole or not at all; a write cut short by a full disk
counts as lost, after which the properties claim nothing of the file.

The API does not check everything it relies on.  `Call` states what a client
must respect: one call at a time (there is one thread), `BeginSuite` iff
`Initialize` succeeded, one suite per `Initialize`, no scope left open in the
suite's own events when the first test begins or the suite ends.  That the real
client does is not assumed: it is the refinement `UsesLogAsIntended`.
`Initialize` is modelled with `truncate`, as its only caller calls it.

### TestRunner

`TestRunner` adds the program counter of `Run`, the configuration and the
counters of `RunAllTests`.  Its actions call the operators of `TestLog`, so a
step of the runner is a step of the log; the refinement mapping is the identity.
A test is any sequence of events, dumps and nested scopes the `TEST_*` macros
can make, which returns a verdict or crashes (`Reboot`, possible at every step;
what it does to the GPU does not touch this state).  Left out: what is drawn on
the screen (`RenderLogScreen` only reads the log), the spelling of the
configuration file (a line sets `shutdown`, clears it, or does neither), the
value of `log_path_` (which matters through whether its drive mounts, its
folders can be made and it opens: three outcomes of `SetupLogging`).

### PtimerClock

`TIME_1` and `TIME_0` count beside the thread (`Count`, `Carry`).  The thread
executes one register read per action: `ReadHi1`, `ReadLo`, then `Retry` or
`ReturnTime` for `GetPTIMERTime` of the suite; `FirstLo`, `ThenHi` for the one
of `clock_main.cpp` (and the interrupt callback, which reads in that order);
`FirstHi`, `ThenLo` for the one of `pfifo_cache1_main.cpp`.  `InitClock` and
`UpdateClock` are what `ClockState::Init` and `Update` do with the result.
History variables record what the counter held during the call, the carries
since the first read, and the sum of the ticks reported.

### PtimerTests

A test is a sequence of instructions, one per register access that matters;
each kind has an action.  Beside the thread, `Tick` counts and latches INTR_0,
and `Interrupt` is pbkit's handler, which counts, calls
`CapturingAlarmCallback` and acknowledges.  `fault` says what is wrong with
PTIMER: nothing, or one of twelve things an emulator may get wrong.
Constants stand for the distances of the code (`kOffset` 0x01000000 ticks,
0x20000000 for the alarm nobody waits for, timeouts of 100 ms to 5 s); their
order is an assumption.  Real time is bounded by `Delay`: a piece of code
between two waits takes at most that many ticks.  Nothing the repository states
about INTR_EN_0 after `pb_init`, so `PbInit` leaves it 0 or 1.  `pass` is the
verdict of all checks but one: `TestAlarmUnprogrammed`'s check of what
`RunPreInitBootAlarmTest` saw has a verdict of its own, `boot_pass`.

`TestClockScalingRatios` is left out: it writes NUMERATOR and DENOMINATOR,
measures the pace of the counter in floating point and restores them.

### ClockMain

`main` is a program counter from start-up to the frame loop with one action per
register access or event (`DPad`, `ResetRatio`, `Restart`, `Stop`).
`OnAlarmFired` is four actions (read low, read high and compute, write ALARM_0,
acknowledge) during which `main` does not run but the counter does.  It may be
entered from the moment `main` has installed it (`clock_main.cpp:201`) if
`pb_init` left INTR_EN_0 set, which `StartUp` leaves open; before, pbkit's handler
only acknowledges (`HandlerWithoutCallback`).  An entry that early arms an alarm
which `main` then overwrites (`Arm`, 203); `fired` therefore counts the alarms
since `Arm`.

### PfifoCache1

The seven tests of the program are programs of instructions, those `main` calls
and those it has commented out.  `Fetch` (the pusher) and `Pull` run between any
two register accesses.  `FillStateBuffer` reads GET and PUT in two steps;
`SpinUntilEmptyCache1` reads the status and then the two pointers in either
order, since C++ leaves the order of the operands of `==` open.  Pointers are
counted from `pb_reset`, `SameSlot` compares them modulo the ring.

### VshHarness

A call writes its commands in one step (the program looks at nothing while it
does), the GPU executes them one by one, `Collect` reads the results after
`Finished`, and `Report...` judges them.  What a shader computes is a term of
what it read; a test expects the term of its own operands.  `VshInit` may fail
at either allocation and be called again by the next test.  One draw may be
dropped.  The GPU may have one of five faults.

### M2mf

The tests are built from `Prepare` (the CPU writes), `GpumCopy` or `Push`,
`Check` (a list of conditions on bytes) and `Record` (the notifier record), with
the patterns of `M2MFFillPattern` for bytes of 16 values; an `ASSUME` that TLC
evaluates checks that the pattern repeats with the same period relative to the
byte as the real one.  Initialization or allocations may fail, `gpum_copy` may
give up (`excused` says that one of these has happened, `gave_up` that it was
`gpum_copy`); the GPU may have one of eleven faults (or one more, see Findings).

## Runs

| Run | Bounds | Shows |
|---|---|---|
| `testlog` | 2 tests recorded, 2 nested scopes, on-screen log of 2 lines, dumps of 0-1 rows, 1 lost append; test names symmetric | `WellFormed`, `CompleteWhenDone`, `Nesting`, `RecordedOnce` for any client; 1.15 million states |
| `runner` | a suite of 2 tests, 3 logging calls each, 2 nested guards, 1 lost append, on-screen log of 5 lines | the properties of the program; 0.4 million states |
| `ptimer_read` | TIME_1 of 3 values, TIME_0 of 2 | `GetPTIMERTime` is atomic, the other readers miss by whole carries |
| `ptimer_tests` | TIME_0 modulo 64, TIME_1 modulo 4, alarms 3 ticks ahead, `Delay` 1, 3 captures, two boot alarms | the suite passes on a good timer, fails on twelve bad ones, and ends; 1.1 million states |
| `clock_main` | 2 x 5 counter, interval of 2 ticks, 2 events, QPC up to 3 | alarms, deltas and skew tests of the clock program |
| `cache1` | ring of 3, buffers of 3 entries, 2 loops | captures, printing and the waits of the CACHE1 program |
| `vsh` | 16 constants in pushes of 4, 3 components, 3 outputs, 10 cases | the VSH suite on a good GPU, on five bad ones, with a dropped draw |
| `m2mf` | bytes of 16 values, canaries of 1 byte | the M2MF suite on a good GPU, on eleven bad ones, with failures |
| `lost_append`, `post_init` | as `runner` | findings |
| `vsh_init` | as `vsh` | finding |
| `m2mf_large_pitch` | as `m2mf` | finding |

Why the bounds are enough.  TestLog: separators matter for the first and the
second item of an array, closing brackets for a scope inside a scope,
`has_tests` for the first and the second test, eviction for one line too many;
one lost append is the smallest loss, and the properties claim nothing after it
until the next `Initialize`.  The on-screen log of `runner` has one line more
than the summary, so that a line of a test left on it would be seen.  `testlog`
bounds recorded tests and open scopes with the constraint `Bounded`; sequences
of calls are not bounded.  `ptimer_read`: three values of TIME_1 tell one carry
from two and from none, and let it wrap; two of TIME_0 let it carry or not; the
proofs take any sizes.  `ptimer_tests`: the distances of the code that differ in
what they are for have values in the code's order (`ScaleAssumption`), with room
for `Delay` on both sides; distances with one purpose share a value (`Offset` for
the alarms ahead, `Over` for how long a test waits past one before it gives up).
The periodic test's five seconds are more than one round of TIME_0
and less than two, as in the code; more captures than `kMaxAlarmCaptures` occur
only with the fault that fires again and again, which is what the buffer's end
is for.  `clock_main`: the counter carries in
either half during a handler, the handler is entered before and after `main` has
set its alarm, a skew test can be restarted before and after its
end, and two presses reach both limits of a ratio of 14 to 5.  `cache1`: the
ring comes round within one wait, buffers hold repeats and changes, both waits
reach their limits; the proofs take any sizes.  `vsh`: a last draw that is not
full, vectors partly filled, a row of probes that wraps, offsets before and
beyond the registers.  `m2mf`: at least two lines with gaps in the
source, the destination or both, equal and unlike pitches, strides of 1, 2 and
4, buffers around 8 periods of the pattern.

### Properties

TestLog and TestRunner (the first four under `Faithful`: no append refused since
`Initialize`):

* `WellFormed`, `CompleteWhenDone`, `Nesting`, `RecordedOnce`.
* `CrashIdentifiesTest`: a test's object is open in the file exactly while the
  test runs or its result is being written, and it is the running one.
* `GuardsOwnScopes`: guards alive and scopes open correspond.
* `FileHoldsResults`: between tests the file holds exactly `results_`.
* `CompleteDocumentIsRight`: a complete document, also one found after a
  restart, has every test once, in order, with a summary that adds up.
* `ScreenShowsSummary`: the last screen shows the summary and nothing else.
* `UsesLogAsIntended`: the runner implements `Spec` of `TestLog`.
* `RunComesToItsEnd`: from `post_init_` on, a headless run powers off, with the
  document complete if no append was lost; any other run comes to the final
  screen; unless the console is reset.

PTIMER:

* `ReadIsAtomic`: `PtimerClock` implements `AtomicRegister` (the mapping sends
  the history of a call of the retrying reader to `held`, and hides the rest).
* `HalvesBelongTogether`: why it does; `TicksAddUp`: frozen updates lose nothing,
  whatever the readings (it is about `ClockState`'s sum, not about torn reads).
* `TornReadsMissByCarries`: by how much the readers without retry are wrong.
* `ReadReturns`: the loop ends unless carries keep falling into it.
* `NoFalseFailure`: on a PTIMER that works no check of the sixteen programs fails,
  `boot_pass` excepted if the interrupt was enabled after `pb_init`.
* `FaultsAreDetected`: on a bad one a check fails, `boot_pass` not counted but for
  the fault (`"boot"`) that nothing else can see.
* `FiringsRecorded`: the captures are consecutive firings and stay in the buffer.
* `NothingArmedBetweenTests`: no interrupt can come after a test has returned, and
  no callback is left.
* `SuiteEnds`: every wait ends, if the counter runs.

Clock program: `AlarmsKeepTheirInterval` and `DeltaIsLateness` (both from the
second alarm since `main` has set one), `SkewTestEndsOnce`, and in `TypeOK` that no ratio is zero.  CACHE1: `CapturesMakeSense`,
`LinesGiveBuffer`, `EmptiedIsEmpty`, `WaitsEnd`.  VSH: `NoFalseFailure`,
`FaultsAreDetected`, `ResultsAreFresh` (never what an earlier draw left, even if
this one was dropped), `EachCaseReported`, `SuiteEnds`.  M2MF: `NoFalseFailure`,
`FaultsAreDetected`, `BuffersAreOwned`.

Where a property has an exception, its comment names it and its formula allows no
more: the verdict about the boot alarm (`boot_pass`, and no other verdict, in
`NoFalseFailure` of `PtimerTests`) if `pb_init` left the interrupt enabled; the
callback that `TestInterruptMasking` forgets (`test = 11`, and only on a PTIMER
that does not work); reads off by one that `Near` allows; a ring that has come
round between two reads; and transfers on buffers freed after `gpum_copy` has
given up (`gave_up`, which nothing else sets: after an initialization or an
allocation that has failed `BuffersAreOwned` holds without exception).

### Fairness

* Weak fairness of the thread, everywhere liveness is claimed: there is one
  thread and it is not blocked by another (of `Read`, `Thread`, or in the runner
  `KeepsRunning`, which is `WF_rvars(Run)` written out with `Waiting` for the
  negation of its ENABLED).  A test that does not return is a crash in
  `TestRunner`; nothing is assumed of the user.
* `PtimerTests`: also of `Tick` and `Interrupt`.  Three tests poll the counter
  without a limit, so they end only if it runs: `SuiteEnds` says nothing of a
  counter that stops, which hangs them.  Interrupts that are enabled are delivered.
* `PtimerClock`: of the reads only.  `ReadReturns` therefore has the alternative
  that carries fall into the loop infinitely often.
* `PfifoCache1`: of the thread only; `WaitsEnd` holds with a GPU that is stuck.
* `VshHarness`: of the thread and of the GPU, which goes on executing commands
  (`PBKitBusyWait` has no limit); the effect of a draw may be lost.

## Findings

* `lost_append`: `test_log.h:25-28` promises that the innermost unclosed test of
  the file is where the failure occurred.  `AppendToFile` (`test_log.cpp:42-46`)
  drops the text if the file cannot be opened and the state moves on: the file
  then shows no open test, or the wrong structure, while a test runs.
* `post_init`: `test_runner.h:16-17` says `post_init_` is invoked after logging
  has been initialized.  `Run` ignores that `SetupLogging` failed
  (`test_runner.cpp:205`) and invokes it anyway.
* `vsh_init`: after a failed allocation `VshInit` returns true to every later
  test (`vsh_test_common.cpp:177-179`): `TestVshRugbyProjection` then copies to
  a null pointer.
* `m2mf_large_pitch`: the lines of `TestM2MFLargePitch` are 64 periods of the
  pattern apart and so all alike; a pitch that overflowed to 0
  would not be seen, though `test_m2mf_large_pitch.h:4-9` says it would.

Other things met while modelling, which no run is about:

* `test_time_register_read_write.h:10-11` says the test validates that writing
  TIME_1 does not corrupt TIME_0.  The loop that writes them in that order reads
  TIME_0 but does not compare it (`test_time_register_read_write.cpp:37-46`), and
  every other place writes TIME_1 first.
* `test_alarm_unprogrammed.h:8-12` says the boot state is captured before
  `pb_init`; `RunPreInitBootAlarmTest` is called from `post_init_`, after it.
* If `pb_init` leaves INTR_EN_0 set, pbkit's handler acknowledges the flag that
  function polls; the model has the exception in `NoFalseFailure`.  In
  `clock_main.cpp` `OnAlarmFired` may then run before `main` has set the first
  alarm, which overwrites the one it armed.
* `TestInterruptMasking` leaves its callback installed if the flag did not latch
  (`test_interrupt_masking.cpp:47-63`).
* `TestAlarmRolloverAndPeriodicity` relies on logging not taking seconds: `Delay`.
* `SpinUntilEmptyCache1` looks at CACHE1 only: commands not yet fetched do not
  count, though the program then prints "Processed pushbuffer".  `EmptiedIsEmpty`
  is about CACHE1 too and does not exclude that.
* `vsh_test_common.h:50` says `VshInit` loads the probe constants;
  `VshRunProbes` does.  `Near` allows the neighbour of a register (`:150-153`
  promises failure if the expected constant is not returned).
* The colour of a clear is that of an A0 read of zero, and of a result of 0 of
  the LOG tests: a dropped draw looks like one.
* In `clock_main.cpp` `frame_counter` is never incremented, so the peaks are
  reset every frame; the first alarm's delta is taken against 0.
* After `gpum_copy` has given up, a test frees buffers the transfer may still
  use, and may be judged by it in its next case.
* `notifier_record.h` speaks of timestamps; the test only asks for nonzero.

## Proofs

`TestLogProofs` (all for any names, any number of tests, events, nested scopes
and lost appends, from `ValueAssumption` and `BoundAssumption`):

* `TypeCorrect`: `Spec => []TypeOK`.
* `FileWellFormed`, `FileCompleteWhenDone`, `BookkeepingFollowsFile`:
  `Spec => []WellFormed` and so on.
* `TestsRecordedOnce`: `Spec => RecordedOnce`.

The inductive invariant is `IInv == TypeOK /\ CallOK /\ Idle /\ FileInv`.
`WellFormed` alone is not inductive: whether the next token is in place depends
on the stack the earlier ones left.  `Nesting` supplies that: it gives the whole
stack from `phase` and `array_has_item`.  `CallOK` says that an `EndTest` or
`EndSuite` in progress is where it may be, `Idle` that nothing is open before
`BeginSuite`, and `OneName` that the object of a running test holds its name and
nothing else, which `RecordedOnce` needs.  The proof goes bottom up: one lemma
per token on a well-formed file (`CommaLemma`, `ArrLemma`, ...), one per text
the log appends (`OpenItem`, `CloseItem`, `TestClosed`, `SuiteClosed`, ...), one
per action (`ItemStep`, `ScopeStep`, `CloseStep`, ...), then `Inductive`.

`TestRunnerProofs` (from `RunnerAssumption` as well: the suite's names are test
names and it has at most `MaxTests` tests):

* `RunnerUsesLog`: `RunnerSpec => UsesLogAsIntended`, the refinement.  Its
  invariant `RInv` says where `Run` stands in the log at each `pc`; `RunnerStep`
  shows that it is inductive and that every step is a step of the log.
* `RunnerFileWellFormed`: with the theorem above, the file of the program itself
  is well formed.
* `GuardsCloseTheirScopes`: `RunnerSpec => []GuardsOwnScopes`.

The second half of `TestRunnerProofs` proves what a run leaves
behind, for any suite, any number of calls in a test, lost appends, crashes and
restarts: `RunnerTypeCorrect`, `CrashIdentifiesRunningTest`,
`FileHoldsAllResults`, `CompleteDocumentsAreRight` and `SummaryStaysOnScreen`,
each `RunnerSpec => []` of the invariant the run checks.  Their inductive
invariant is `RunInv == RInv /\ IInv /\ Ledger`: where `Run` stands, that the
file follows the bookkeeping, and that the counters of the loop agree with both.
`Ledger` has five parts.  `Bounds`: the loop index and the counters stay within
the suite.  `Tally`: `passed` is the number of passes among the results so far,
and an `EndTest` or `EndSuite` that has not returned was given the runner's
values; without it nothing would say that the summary, written several appends
later, adds up.  `Recorded`: between two appends the file holds the tests before
the current one, and the object of the running test has its name; this is what
`FileHoldsResults` does not say while a test runs or ends.
`CompleteDocumentIsRight` is carried along because a document survives the
restart that resets the counters it must agree with.  `Screen`: while the
summary is printed, the on-screen log is what `Print` made of its first lines.
The log evicts lines when it is full, so that `Screen` needs that echoing a line
after others is echoing them all, one by one (`EchoedLineByLine`).
`RecordExtended` and `DocumentDone` are what one more recorded test, and the
text of `EndSuite`, do to the document.

`PtimerClockProofs` (for any sizes of the two halves, from `SizeAssumption`):
`ClockTypeCorrect`, `HalvesOfOneMoment`, `NoTickLost` are
`Spec => []` of `TypeOK`, `HalvesBelongTogether` and `TicksAddUp`, whose
conjunction is inductive; `ReadsAreAtomic` is the refinement
`Spec => ReadIsAtomic`.  `HalvesBelongTogether` is what makes it go through: it
gives TIME_1 from `hi1` and the number of carries, so equal readings mean no
carry (fewer than a full round is the module's bound).
`TornReadsOffByCarries` is `Spec => TornReadsMissByCarries`, about the two
readers without a loop.  `TornInv` says what the first of their readings still
has to do with the counter: read low half first, TIME_1 has since gone `carries`
further than the half that belonged to it; read high half first, it has gone
`carries` further than the half read.  `Rounds` and `AheadByCarries` turn that
into the distance on the circle of 64-bit values.

`PtimerTestsProofs` (for a counter of any size and any distances in the code's
order, from `ScaleAssumption`): `RecordOfFirings` is
`Spec => []FiringsRecorded`, `TestsLeaveNothingArmed` is
`Spec => []NothingArmedBetweenTests`.  The second is about sixteen programs whose
checks may pass over instructions, so it needs that none passes over the
clean-up.  `Tidy` says that of a program: after every instruction that enables
the interrupt, or sets the callback, there is one that undoes it and that no
failing check jumps beyond.  `Tests` proves it of every test, instruction by
instruction.  `TestInterruptMasking` is the exception: its check of the flag does
pass over the removal of the callback, which then stays (`Left`) until the test
after it sets its own.  `Masked` shows that this check does not fail on a PTIMER
that works: writing TIME_0, ALARM_0 and INTR_EN_0 takes less than
the distance of the alarm, so the flag is not acknowledged by an interrupt, and
it has latched when the loop over TIME_0 ends.  The inductive invariant is
`IInv == Types /\ OffInv /\ Masked /\ ReleaseInv /\ Recorded`, where `OffInv` and
`ReleaseInv` say that, while the interrupt is enabled or a callback set, the
instruction that undoes it is ahead of the thread, or the callback is `Left`;
`Dispatch` gives each instruction its action.

`NoTestFailsFalsely` is `Spec => []NoFalseFailure`: on a PTIMER that works every
check holds, wherever the ticks and the interrupts fall.  Its invariant is
`Types /\ Registers /\ Verdicts`, where `Verdicts` is one table per program
(`BootAlarmAt` and so on, together `Standing`) of what holds before each
instruction, that `pass` is true, and that `boot_pass` is too unless `pb_init` had
enabled the interrupt (`BootVerdict`).  If it had, the tables of the first two
programs ask for less: the boot alarm may have been acknowledged before it was
polled.  The others' are the same in both cases: `TestAlarmUnprogrammed` begins
and ends by disabling the interrupt.  The tables speak of distances
from the time the test started, not of values of TIME_0: `Since` is how far the
counter has come, `Gap` how far it is to the alarm, `Within(b)` that the test is
at most b ticks and those since its last wait late.  `Elapsed` shows that this
`Since` is the `now - start` the tests compute modulo 2^32.  A table also says
what the test before has left: an alarm that may still latch the flag after this
test has acknowledged it is why each handover states where `ALARM_0` and the
counter stand.  There is a lemma for each kind of instruction that says without
remainders what it does (`Alarms`, `Times`, `Ticks`, ...); three for the loops:
`OneCapture` and `Latched`, that a loop does not give up before its alarm, and
`TwoRoundsPoll`, that the loop of `TestAlarmRolloverAndPeriodicity` ends with one
capture of each of its two rounds of TIME_0; and then one lemma per test, with a
case per instruction.  What is asked of the constants is that the code between
two waits is short: 8 times `Delay` is at most the 0x20000000 ticks of the alarm
nobody waits for, of which there are 8 in a round of TIME_0, and 5 times `Delay`
still fit between 5 s and two rounds.

`ClockMainProofs` (for a counter, an interval and a delay of any size, from
`ScaleAssumption`): `TypeCorrect` is `Spec => []TypeOK`, `AlarmsAnIntervalApart`,
`DeltaShowsLateness` and `SkewTestsEndOnce` are `Spec =>` the action properties
`AlarmsKeepTheirInterval`, `DeltaIsLateness` and `SkewTestEndsOnce`.  The
inductive invariant is `IInv == Types /\ RatioInv /\ EnableInv /\ AlarmInv`.
`EnableInv` says when the handler may be entered and count: not before it is
installed, and only while the interrupt is enabled.
`AlarmInv` is the argument: whatever the handler's torn reading put into the high
half of `next_alarm_time_ptimer`, its low half is always one interval after the
last time the handler was entered; the alarm is set to that half before it comes,
since the handler and its delay are shorter than the interval; so the flag is
raised when exactly one interval has passed.  All of it is modulo the low half,
and the lemmas of the section Arithmetic are those facts about remainders.  The
two alarm properties speak of the second alarm after `main` has set one: `Arm`
puts ALARM_0 where no reading of the handler's was, and begins the count anew,
also if `pb_init` had enabled the interrupt and the handler has been entered
before; the first delta after it is taken against 0 or against the alarm lost.

`PfifoCache1Proofs` (for any ring, buffers and loops, from `SizeAssumption`):
`CapturesAlwaysMakeSense` is `Spec => []CapturesMakeSense`,
`EmptiedIsAlwaysEmpty` is `Spec => EmptiedIsEmpty`, and `LinesGiveTheBuffer` is
`Spec => []LinesGiveBuffer`: whatever a buffer holds, however long it is, the
lines printed for it can be read back into it.  The inductive invariant is
`IInv == RingInv /\ SpinInv /\ FillInv /\ CapturesMakeSense`: the ring never
fills, the pointer read first lies between the beginning of the round and now,
and the last entry captured is behind the hardware.  `SameSlotTurns` is the
arithmetic: numbers in one slot and less than a ring apart are equal.
`LinesGiveBack` is an induction over the entries printed.  The library's
induction theorem takes an operator, which the provers cannot instantiate, so
the induction is over a set: `NatInductionOnSets` is the principle for a set of
numbers, from the well-foundedness of `<` (`WFMin`), and `Printed` and `Expanded`
are recursive functions, which `PrintedDefined` and `ExpandedDefined` show to
exist.  The induction's statement is `Told`: after n entries the lines expand to
the buffer's first n entries, less the repeats counted but not yet printed, and
these all equal the last entry expanded.

`VshHarnessProofs` (for any number of constant registers, probes per row,
outputs, components and cases in `ScaleAssumption`, which says that the operands
lie below the outputs and that the pushes fill the registers):
`NoTestFailsFalsely` is `Spec => []NoFalseFailure`, `FaultsAreAlwaysDetected` is
`Spec => []FaultsAreDetected`, `ResultsAlwaysFresh` is `Spec => []ResultsAreFresh`,
`EachCaseIsReported` is `Spec => EachCaseReported`.
What the GPU writes is seen as cells: the shader, the registers, the pixels.
`Sets` and `SetsTo` say what a command does to a cell whatever the others hold;
`WillHold` says what a cell will hold when the first n commands that wait have
been executed.  The inductive invariant (`IInv`, in `Invariance`) is about the commands that
have not been executed.  For each result k of a call that has been written,
either the one that makes it is among them, will find its shader, an untouched
pixel or register and everything it reads as the call means it (`Needs`), and
nothing after it sets the result's place (`Awaited`); or the result is there, one
of the call's own, and nothing that waits will change it (`Made`).  When the push
buffer is empty nothing is awaited, so everything has been made: that is why the
wait is for the commands.  Two things carry the argument.  `CallsWillMake`: the
commands of every call of the suite begin all of this with nothing known of the
cells, which is what makes a call independent of the one before; it rests on the
layouts (`Apart`: probes do not overlap; `Uploads`: each register is in one push;
`Layout`, `Division` and `OnlyQuotient`: the operands of a rounding call share no
register).  And `Making`: a quad or a draw that finds what it needs makes what
the call means, or leaves the place untouched if it is dropped.  `AllReports` puts
the batches of a rounding test together.

The invariant holds on a GPU with a fault too.  A fault changes neither the
commands nor what they find, only what a quad or a draw makes of it (`Makes`) or
how the thread reads it (`Returned`), so the same induction says what a test will
be given on that GPU.  `FaultInv` says that once its `Detector` is over, the suite
has failed: `TestVshA0BeforeStart` for zeros, `TestVshA0BeyondEnd` for an A0 that
is ignored or falls short, `TestVshRoundingMul` for the constants that are not
written or come the wrong way round (`ProbesFindFault`, `RoundingFindsFault`).
That `Near` allows one register and not two, and that a test probes the last
register, is what the second of them needs.

`M2mfProofs` (for bytes and canaries of any size in `SizeAssumption`):
`BuffersAreAlwaysOwned` is `Spec => []BuffersAreOwned`: unless `gpum_copy` has
given up (`gave_up`), no transfer that waits for the GPU is on a buffer that is
not allocated, also after an initialization or an allocation that failed; and no
test leaves one allocated.  Which buffers a test uses, and
where it waits, is in its instructions.  `Sound` says of an instruction that its
transfers are on buffers the test holds, that a push is followed by its wait, and
that `gpum_copy` does not pass over the end of the test.  `IsPart` says so of a
sequence of them, and `TestsAreTests` of all nineteen tests, put together from
parts (`PartsTogether` and its like).  The inductive invariant is
`IInv == PlaceInv /\ HeldInv /\ QueueInv`: where the thread stands in the test;
that it holds exactly the test's buffers from its allocations to its end; that
nothing is in the push buffer but what is being awaited, on buffers held.  The
last is what the property does not say, and what makes freeing them right.

`NoTestFailsFalsely` is `Spec => []NoFalseFailure`: on a GPU that works, answers
in time and has the memory, every test passes.  The argument has two halves.

* What the tests are.  `Passes` says of writes, transfers and conditions that the
  conditions hold once the writes and then the transfers have been made, whatever
  was in memory.  There is such a lemma for each kind of test (`WholePasses` for a
  copy that gives the pattern, `RowsPass` for pitched lines and the gaps between
  them, `FormatPasses`, `ZeroSizePasses`, `BatchingCausalChainPasses`, ...); they
  rest on where the bytes of a transfer lie (`Places`), what it leaves alone
  (`CopiedElsewhere`) and that no two of its bytes arrive at one place
  (`SameLine`).  `IsBlock` says that in a stretch of a test every comparison comes
  after writes and transfers it passes after; blocks compose (`InTurn`), and
  `AllTestsPass` puts eighteen tests together from them.  `NotifierSwitching`,
  whose comparisons are of the record, is `IsSwitching`.
* What a run does.  `GoodInv` says that, unless something has gone wrong, `pass`
  is true, memory has the sizes the running test allocated, and, in a test other
  than `NotifierSwitching`, memory will be as the next comparison expects when the
  GPU has done what still `Remaining`: what is in the push buffer and what the
  test pushes before that comparison (`DataInv`).  A step of the GPU moves one
  transfer from what remains into memory, a step of the thread takes one from its
  instructions to the push buffer, and neither changes what comes of it.  At the
  comparison nothing remains, since `IInv` has the push buffer empty there.
  `RecordInv` and `SwitchInv` are the same for the notifier record: which of two
  channels a notification goes to depends on all the commands before it.

`NoFalseFailure` alone is not inductive, as it says nothing of memory.  TLC finds
`GoodInv` to hold in all states of the `m2mf` run's instance.

`FaultsAreAlwaysDetected` (also in `M2mfProofs`) is
`Spec => []FaultsAreDetected`, for each of the eleven `Faults`.  Eight of them
(`Compared`) change what a transfer copies.  `TestFor` and `PlaceFor` name one
comparison of one test for each: `TestM2MFFormat`, with one line and strides 1
and 2 or with two such lines, for six of them; `TestM2MFLargePitch` for the pitch
that overflows; `TestM2MFZeroSize` for the zero taken for one.  `Exposes` says that
this comparison fails whatever was in memory before the test wrote to it, and
`EachIsExposed` that it does: `OneLineFails`, `TwoLinesFail`, `NoLinesFail` and
`FarLinesFail` each find the byte that is wrong.  All but the last
are on the rising bytes `TestM2MFFormat` writes or on constant ones.
`FarLinesFail` is on the pattern of `M2MFFillPattern`, of which it needs only that
it begins with its seed (`PatternsBegin`): the last line lies where the first
should, so for both to be as compared the first byte of the source would have to
be the filler that is left at the last line's place, and 129 is not 238 for a byte
of any size.
Three faults show otherwise.  The GPU that writes no record has its first
transfer awaited, in `TestM2MFAlignmentOddSizes` (`SilentInv`); the one that
writes the live record whatever `DMA_NOTIFY` selects changes what
`TestM2MFNotifierSwitching` says has not changed (`TellInv`); the one that takes
two transfers the wrong way leaves the end of `TestM2MFBatchingCausalChain`'s
chain with what its middle began with (`SwapInv`).

The inductive invariant is `DoubtInv`: a suite that has not failed has had
nothing else go wrong, has in memory what the running test allocated, and has
not come past the place where its fault shows; from the write on, memory, or what
the pending transfer will make of it, fails the comparison (`SoonInv`).
`PassingSteps` lists the steps after which `pass` can still be true, so that a
failed comparison contradicts each.  `FaultsAreDetected` speaks of the end of the
suite only and says nothing of the way there.  TLC finds `DoubtInv` to hold in
all states of the `m2mf` run's instance.

Only model-checked:

* Liveness, which is beyond the prover: `RunComesToItsEnd`, `ReadReturns`,
  `WaitsEnd`, both `SuiteEnds`.
* `FaultsAreDetected` of `PtimerTests`: which of fifteen tests finds each of
  twelve faults, with every timing, is a case analysis of fixed programs, best
  enumerated.

## Plan

What could be added: `TestClockScalingRatios`; runs with two faults at once; a
proof of which PTIMER test finds which fault.

## Not modelled

* `TestClockScalingRatios`: a measurement of real time in floating point.
* The caches of the CPU (`wbinvd`, `sfence`) in the M2MF tests, which tell the
  three memory tests apart; what `PBKitBusyWait` does when `pb_init` failed
  (`M2MFTeardown` is modelled on a GPU that runs).
* What the vertex shader's arithmetic returns: expectations are terms.
* `SetupRenderState` and the encoding of commands; `wait_for_idle` and engine
  timing in the CACHE1 program (a command that waits is a `Pull` that comes
  late).
* Formatting, quoting and source locations (no property depends on them beyond
  the token structure), drawing, the older `Logger`, the walk of
  `EnsureFolderExists` over a path (its outcome is in `SetupLogging`),
  `xemu_guest_info.h` (port I/O without state), build tooling.
* pbkit, SDL and the kernel, which are outside the repository and appear only
  through their outcomes.
