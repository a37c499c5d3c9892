----------------------------- MODULE VshHarness -----------------------------
(***************************************************************************)
(* The VSH suite: vsh_test_common.cpp and vsh_rounding_common.cpp, under   *)
(* tests that call them the way vsh_main.cpp does, on a GPU that works, or *)
(* has one of Faults, or drops a draw.  The program writes commands into a *)
(* push buffer, waits until the GPU has executed them all, and reads the   *)
(* results: a pixel for each probe, or the constant registers a compute    *)
(* shader has written.                                                     *)
(*                                                                         *)
(* The program looks at nothing while it writes commands, so a call writes *)
(* them in one step.  Numbers are scaled down; what a shader computes is   *)
(* a term of what it read, and what a test expects of it is that term.     *)
(* The guards of the calls (no state, too many probes or outputs) are      *)
(* never met by the suite.                                                 *)
(*                                                                         *)
(* Bounds: at most one draw is dropped; two outcomes of a read beyond the  *)
(* constant registers, where the tests expect nothing.                     *)
(***************************************************************************)
EXTENDS Integers, Sequences, SequencesExt

CONSTANTS kVshConstantCount, kConstantsPerPush, kProbesPerRow,
          Width,                  \* 4, the components of a constant
          kBinaryOutputs, CaseCount

ASSUME ScaleAssumption ==
    /\ {kVshConstantCount, kConstantsPerPush, kProbesPerRow, Width, kBinaryOutputs, CaseCount}
           \subseteq Nat \ {0}
    /\ kBinaryOutputs > 1 /\ Width > 1
    /\ kVshConstantCount - kBinaryOutputs >= 2 + 3 * kBinaryOutputs     \* 188 and 96 + 12
    /\ kVshConstantCount - kBinaryOutputs >= 2 + 2 * Width              \* 188 and 96 + 8
    /\ kVshConstantCount % kConstantsPerPush = 0

VARIABLES g_state, g_array_positions, g_array_v1,     \* what VshInit makes
          pushbuffer, constants, shader, pixels,      \* the GPU
          fault, dropped,                             \* what is wrong with it
          test, pc, submitted, first,                 \* where the thread stands
          result,                                     \* out_rgb, or outputs
          reported,                                   \* history: by VshReportRounding in this test
          pass, crashed

globals == <<g_state, g_array_positions, g_array_v1>>
gpu == <<pushbuffer, constants, shader, pixels, fault, dropped>>
position == <<test, pc, submitted, first>>
verdicts == <<result, reported, pass, crashed>>
vars == <<globals, gpu, position, verdicts>>

-----------------------------------------------------------------------------
(* Registers and tests *)

Registers == 0 .. kVshConstantCount - 1
kFirstInput == 2                                        \* 96
kFirstOutput == kVshConstantCount - kBinaryOutputs      \* 188
kScale == kVshConstantCount - 3                         \* 189
kBits == kVshConstantCount - 2                          \* 190

\* What a register holds: c[i] of UploadProbeConstants, raw bits, a vector.
Probe(i) == <<"probe", i>>
Bits(bits) == <<"bits", bits>>
Scale == <<"scale", 0>>
Vector(components) == <<"vector", components>>
Other == <<"other", 0>>
Zero == <<0, "zero">>
Sentinel == <<0, "sentinel">>                           \* kVshComputeSentinel
All(component) == [j \in 1 .. Width |-> component]
Components(value) == IF value[1] = "vector" THEN value[2] ELSE All(<<0, "other">>)

Probes(s, inputs, offset) == [op |-> "probes", shader |-> s, inputs |-> inputs, offset |-> offset]
RawProbes(s, inputs) == [op |-> "raw", shader |-> s, inputs |-> inputs]
Rounding(s) == [op |-> "rounding", shader |-> s]
ComputeArray == [op |-> "array", shader |-> "kRugbyProjection"]     \* its inputs taken as one

TestVshA0BeforeStart == <<Probes("kOffset0", <<0, -1>>, 0)>>
TestVshA0BeyondEnd == <<Probes("kOffset0", <<0, kVshConstantCount - 1, kVshConstantCount>>, 0)>>
TestVshA0OffsetBeyondEnd == <<Probes("kOffset191", <<-1, 0, 1>>, kVshConstantCount - 1)>>
TestVshLogNegativeExponent == <<RawProbes("kLogX", <<1, 2>>)>>
TestVshLogDenormal ==
    <<RawProbes("kLogDenormalAttr", <<1, 2>>), RawProbes("kMulDenormalAttr", <<1, 2>>),
      RawProbes("kLogDenormalConst", <<1, 2>>), RawProbes("kMulDenormalConst", <<1, 2>>)>>
TestVshRoundingMul == <<Rounding("kRoundMul")>>
TestVshRoundingAdd == <<Rounding("kRoundAdd")>>
TestVshRoundingDst == <<Rounding("kRoundDst")>>
TestVshRoundingMad == <<Rounding("kRoundMad")>>
TestVshRoundingDot == <<Rounding("kRoundDot")>>
TestVshRoundingDotAccumulation == <<Rounding("kRoundDot")>>
TestVshRugbyProjection == <<ComputeArray>>

CallsVshInit == <<[op |-> "init"]>>                     \* the first call of every test
Tests ==
    LET Run(test_calls) == CallsVshInit \o test_calls
    IN  <<Run(TestVshA0BeforeStart), Run(TestVshA0BeyondEnd), Run(TestVshA0OffsetBeyondEnd),
          Run(TestVshLogNegativeExponent), Run(TestVshLogDenormal),
          Run(TestVshRoundingMul), Run(TestVshRoundingAdd), Run(TestVshRoundingDst),
          Run(TestVshRoundingMad), Run(TestVshRoundingDot),
          Run(TestVshRoundingDotAccumulation), Run(TestVshRugbyProjection)>>

Ended == crashed \/ test > Len(Tests)
instruction == Tests[test][pc]
At(ops) == ~Ended /\ instruction.op \in ops

-----------------------------------------------------------------------------
(* Commands *)

Shader(s) == [cmd |-> "shader", shader |-> s]
Clear == [cmd |-> "clear"]
LoadConstant(index, value) == [cmd |-> "load", index |-> index, values |-> <<value>>]
Quad(k, attr) == [cmd |-> "quad", probe |-> k, attr |-> attr]
Draw == [cmd |-> "draw"]

\* SelectShader (or CXT_WRITE_EN) and PrepareDraw
Prepare(s) == <<Shader(s), Clear>>

UploadPushes == kVshConstantCount \div kConstantsPerPush

UploadProbeConstants ==
    [k \in 1 .. UploadPushes |->
        [cmd |-> "load", index |-> (k - 1) * kConstantsPerPush,
         values |-> [j \in 1 .. kConstantsPerPush |-> Probe((k - 1) * kConstantsPerPush + j - 1)]]]

\* VshRunProbes
ProbeCommands(call) ==
    Prepare(call.shader) \o UploadProbeConstants
        \o [k \in 1 .. Len(call.inputs) |-> Quad(k, call.inputs[k])]

\* VshRunRawProbes; TestVshLogNegativeExponent calls VshRunProbes, whose
\* commands are those of a shader that needs neither c[189] nor c[190].
RawCommands(call) ==
    LET scale == IF call.shader = "kLogX" THEN <<>> ELSE <<LoadConstant(kScale, Scale)>>
        Quads == IF call.shader \in {"kLogDenormalConst", "kMulDenormalConst"}
                 THEN [m \in 1 .. 2 * Len(call.inputs) |->
                          LET k == (m + 1) \div 2
                          IN  IF m % 2 = 1 THEN LoadConstant(kBits, Bits(call.inputs[k])) ELSE Quad(k, 0)]
                 ELSE [k \in 1 .. Len(call.inputs) |-> Quad(k, call.inputs[k])]
    IN  Prepare(call.shader) \o UploadProbeConstants \o scale \o Quads

\* Mutant of Sentinels: the outputs keep what they hold.
SentinelsMissing(count) == <<>>

Sentinels(count) == [k \in 1 .. count |-> LoadConstant(kFirstOutput + k - 1, Vector(All(Sentinel)))]

\* RunCompute
ComputeCommands(s, inputs, count) == Prepare(s) \o inputs \o Sentinels(count) \o <<Draw>>

\* How a rounding test lays its cases out: a case of a draw takes a component
\* of a vector (VshRunBinaryRoundingCases and MAD), the second component of one
\* (DST), or a whole vector, for results in as many registers as there are
\* products (RunDotCases).
OperandNames(s) == IF s = "kRoundMad" THEN <<"a", "b", "c">> ELSE <<"a", "b">>

OutputCount(s) == IF s = "kRoundDot" THEN kBinaryOutputs - 1 ELSE kBinaryOutputs

CasesPerDraw(s) ==
    CASE s = "kRoundDst" -> kBinaryOutputs [] s = "kRoundDot" -> Width [] OTHER -> kBinaryOutputs * Width

CaseAt(s, v, j) ==
    CASE s = "kRoundDst" -> (IF j = 2 THEN v + 1 ELSE 0)
      [] s = "kRoundDot" -> v + 1
      [] OTHER -> v * Width + j

Vectors(s) == IF s = "kRoundDot" THEN Width ELSE kBinaryOutputs

Batch == LET s == instruction.shader
         IN  IF CaseCount - first < CasesPerDraw(s) THEN CaseCount - first ELSE CasesPerDraw(s)

\* Mutant of InputOf: the operands of two vectors share registers.
InputOfShared(s, v, n) == kFirstInput + v + n - 1

InputOf(s, v, n) == kFirstInput + Len(OperandNames(s)) * v + n - 1

\* Operand n of the cases in vector v; what no case uses is zero.
Operands(s, v, n) ==
    Vector([j \in 1 .. Width |-> LET k == CaseAt(s, v, j)
                                 IN  IF k \in 1 .. Batch THEN <<first + k, OperandNames(s)[n]>> ELSE Zero])

RoundingInputs(s) ==
    LET names == Len(OperandNames(s))
    IN  [m \in 1 .. names * Vectors(s) |->
            LET v == (m - 1) \div names
                n == 1 + ((m - 1) % names)
            IN  LoadConstant(InputOf(s, v, n), Operands(s, v, n))]

Commands(call) ==
    CASE call.op = "probes" -> ProbeCommands(call)
      [] call.op = "raw" -> RawCommands(call)
      [] call.op = "rounding" -> ComputeCommands(call.shader, RoundingInputs(call.shader), OutputCount(call.shader))
      [] call.op = "array" -> ComputeCommands(call.shader, <<LoadConstant(0, Bits(1))>>, kBinaryOutputs)

-----------------------------------------------------------------------------
(* The GPU *)

\* Relative reads give zeros, or ignore A0, or fall short by two; constants
\* cannot be written by a shader; RDI gives x first.
Faults == {"zeros", "base", "short", "no_write", "rdi_order"}

Black == <<"zero", 0>>

\* Where the quad of a probe is drawn and read back.
PositionOf(k) == <<(k - 1) % kProbesPerRow, (k - 1) \div kProbesPerRow>>

Pixel(value) == IF value[1] = "probe" THEN value ELSE Other

\* c[A0 + offset], and what the hardware may do beyond the registers.
Relative(a0, offset) ==
    LET index == a0 + offset
        short == IF index < 2 THEN 0 ELSE index - 2
    IN  IF index \notin Registers /\ fault \notin {"zeros", "base"} THEN {Black, Pixel(constants[0])}
        ELSE CASE fault = "zeros" -> {Black}
               [] fault = "base" -> {Pixel(constants[offset])}
               [] fault = "short" -> {Pixel(constants[short])}
               [] OTHER -> {Pixel(constants[index])}

Shade(attr) ==
    CASE shader = "kOffset0" -> Relative(attr, 0)
      [] shader = "kOffset191" -> Relative(attr, kVshConstantCount - 1)
      [] shader = "kLogX" -> {IF constants[0] = Probe(0) THEN Bits(attr) ELSE Other}
      [] shader = "kLogDenormalAttr" -> {Bits(attr)}
      [] shader = "kLogDenormalConst" -> {constants[kBits]}
      [] shader = "kMulDenormalAttr" -> {IF constants[kScale] = Scale THEN Bits(attr) ELSE Other}
      [] shader = "kMulDenormalConst" -> {IF constants[kScale] = Scale THEN constants[kBits] ELSE Other}

\* The case whose operands the components js of vector v hold.
Combined(v, js) ==
    LET names == OperandNames(shader)
        CaseIn(n, j) == LET operand == Components(constants[kFirstInput + Len(names) * v + n - 1])[j]
                        IN  IF operand[2] \in {names[n], "zero"} THEN operand[1] ELSE -1
        cases == {CaseIn(n, j) : n \in DOMAIN names, j \in js}
    IN  IF \E c \in cases : cases = {c} THEN <<CHOOSE c \in cases : TRUE, shader>> ELSE <<0, "mixed">>

\* What the compute shaders write to output i.
Computed(i) ==
    CASE shader = "kRugbyProjection" ->
            All(<<1, IF constants[0] = Bits(1) THEN g_array_v1 ELSE "mixed">>)
      [] shader = "kRoundDot" -> [j \in 1 .. Width |-> Combined(j - 1, 1 .. Width)]
      [] OTHER -> [j \in 1 .. Width |-> Combined(i, {j})]

Executes(cmd) ==
    /\ pushbuffer # <<>> /\ Head(pushbuffer).cmd = cmd
    /\ pushbuffer' = Tail(pushbuffer)
    /\ UNCHANGED <<fault, globals, position, verdicts>>

command == Head(pushbuffer)

GpuShader ==
    /\ Executes("shader")
    /\ shader' = command.shader
    /\ UNCHANGED <<constants, pixels, dropped>>

GpuClear ==
    /\ Executes("clear")
    /\ pixels' = [p \in DOMAIN pixels |-> Black]
    /\ UNCHANGED <<constants, shader, dropped>>

GpuLoad ==
    /\ Executes("load")
    /\ constants' = [i \in DOMAIN constants \cup (command.index .. command.index + Len(command.values) - 1) |->
                        IF i - command.index + 1 \in DOMAIN command.values
                        THEN command.values[i - command.index + 1] ELSE constants[i]]
    /\ UNCHANGED <<shader, pixels, dropped>>

GpuQuad ==
    /\ Executes("quad")
    /\ \E pixel \in Shade(command.attr) : pixels' = [pixels EXCEPT ![PositionOf(command.probe)] = pixel]
    /\ UNCHANGED <<constants, shader, dropped>>

GpuDraw ==
    /\ Executes("draw")
    /\ constants' = IF fault = "no_write" THEN constants
                    ELSE [i \in DOMAIN constants |-> IF i - kFirstOutput \in 0 .. OutputCount(shader) - 1
                                                     THEN Vector(Computed(i - kFirstOutput)) ELSE constants[i]]
    /\ UNCHANGED <<shader, pixels, dropped>>

GpuDropsDraw ==
    /\ Executes("quad") \/ Executes("draw")
    /\ fault = "none" /\ ~dropped /\ dropped' = TRUE
    /\ UNCHANGED <<constants, shader, pixels>>

Gpu == GpuShader \/ GpuClear \/ GpuLoad \/ GpuQuad \/ GpuDraw \/ GpuDropsDraw

-----------------------------------------------------------------------------
(* The thread *)

NextTest == test' = test + 1 /\ pc' = 1 /\ submitted' = FALSE /\ first' = 0 /\ reported' = <<>>

NextCall ==
    IF pc < Len(Tests[test])
    THEN pc' = pc + 1 /\ submitted' = FALSE /\ first' = 0 /\ UNCHANGED <<test, reported>>
    ELSE NextTest

\* VshInit
VshInitAgain ==
    /\ At({"init"}) /\ g_state
    /\ NextCall
    /\ UNCHANGED <<globals, gpu, result, pass, crashed>>

VshInit ==
    /\ At({"init"}) /\ ~g_state
    /\ g_state' = TRUE
    /\ g_array_positions' \in BOOLEAN /\ g_array_v1' \in {"null", "allocated"}
    /\ IF g_array_positions' /\ g_array_v1' # "null" THEN NextCall /\ UNCHANGED pass
                                                     ELSE NextTest /\ pass' = FALSE
    /\ UNCHANGED <<gpu, result, crashed>>

\* A call writes its commands; VshComputeArray first copies the vertex.
Submit ==
    /\ At({"probes", "raw", "rounding", "array"}) /\ ~submitted
    /\ instruction.op = "array" => g_array_v1 # "null"
    /\ g_array_v1' = IF instruction.op = "array" THEN "kV0" ELSE g_array_v1
    /\ pushbuffer' = pushbuffer \o Commands(instruction)
    /\ submitted' = TRUE
    /\ UNCHANGED <<g_state, g_array_positions, constants, shader, pixels, fault, dropped, test, pc, first,
                   verdicts>>

WriteToNull ==
    /\ At({"array"}) /\ ~submitted /\ g_array_v1 = "null"
    /\ crashed' = TRUE
    /\ UNCHANGED <<globals, gpu, position, result, reported, pass>>

\* Mutants of Finished: nothing is waited for; a compute draw is finished only
\* when its outputs are overwritten.
FinishedAtOnce == submitted
FinishedByOutputs ==
    /\ pushbuffer = <<>>
    /\ instruction.op \in {"rounding", "array"} => constants[kFirstOutput] # Vector(All(Sentinel))

\* PBKitBusyWait; RunCompute waits for the commands as well.
Finished == pushbuffer = <<>>

Rdi(index) ==
    IF fault = "rdi_order" THEN Components(constants[index]) ELSE Reverse(Components(constants[index]))

ReadConstant(index) == Reverse(Rdi(index))

ReadProbes(count) == [k \in 1 .. count |-> pixels[PositionOf(k)]]

Collect ==
    /\ At({"probes", "raw", "rounding", "array"}) /\ submitted /\ result = <<>>
    /\ Finished
    /\ result' = IF instruction.op \in {"probes", "raw"}
                 THEN ReadProbes(Len(instruction.inputs))
                 ELSE [k \in 1 .. OutputCount(instruction.shader) |-> ReadConstant(kFirstOutput + k - 1)]
    /\ UNCHANGED <<globals, gpu, position, reported, pass, crashed>>

Wait ==
    /\ At({"probes", "raw", "rounding", "array"}) /\ submitted /\ result = <<>>
    /\ ~Finished
    /\ UNCHANGED vars

Report(ok) ==
    /\ submitted /\ result # <<>>
    /\ result' = <<>>
    /\ pass' = (pass /\ ok)
    /\ UNCHANGED <<globals, gpu, crashed>>

\* Mutant of Near: off by two.
NearByTwo(actual, expected) == actual + 2 >= expected /\ actual <= expected + 2

Near(actual, expected) == actual + 1 >= expected /\ actual <= expected + 1

DecodeA0Read(rgb) ==
    CASE rgb = Black -> [kind |-> "kZero", index |-> 0]
      [] rgb[1] = "probe" -> [kind |-> "kConstant", index |-> rgb[2]]
      [] OTHER -> [kind |-> "kOther", index |-> 0]

\* VshReportA0Probes
ReportA0Probes ==
    /\ At({"probes"})
    /\ Report(\A k \in DOMAIN result :
                  LET effective == instruction.inputs[k] + instruction.offset
                      read == DecodeA0Read(result[k])
                  IN  effective \in Registers =>
                          read.kind = "kConstant" /\ Near(read.index, effective))
    /\ NextCall

\* What the tests of LOG make of the pixels.
ReportLog ==
    /\ At({"raw"})
    /\ Report(\A k \in DOMAIN result : result[k] = Bits(instruction.inputs[k]))
    /\ NextCall

\* VshReportRounding: the results, in the order of the cases of the batch.
ReportsPerCase(s) == IF s = "kRoundDot" THEN OutputCount(s) ELSE 1
ReportedCase(r) == (r - 1) \div ReportsPerCase(instruction.shader) + 1

ResultOf(s, k, q) ==
    CASE s = "kRoundDst" -> result[k][2]
      [] s = "kRoundDot" -> result[q][k]
      [] OTHER -> result[(k - 1) \div Width + 1][1 + ((k - 1) % Width)]

Reports ==
    LET s == instruction.shader
    IN  [r \in 1 .. Batch * ReportsPerCase(s) |->
            ResultOf(s, ReportedCase(r), 1 + ((r - 1) % ReportsPerCase(s)))]

ReportRounding ==
    /\ At({"rounding"})
    /\ Report(\A r \in DOMAIN Reports : Reports[r] = <<first + ReportedCase(r), instruction.shader>>)
    /\ IF first + CasesPerDraw(instruction.shader) < CaseCount
       THEN /\ first' = first + CasesPerDraw(instruction.shader) /\ submitted' = FALSE
            /\ reported' = reported \o Reports
            /\ UNCHANGED <<test, pc>>
       ELSE NextCall

ReportVectors ==
    /\ At({"array"})
    /\ Report(\A k \in DOMAIN result : result[k] = All(<<1, "kV0">>))
    /\ NextCall

Thread ==
    \/ VshInit \/ VshInitAgain \/ Submit \/ WriteToNull \/ Wait \/ Collect
    \/ ReportA0Probes \/ ReportLog \/ ReportRounding \/ ReportVectors

-----------------------------------------------------------------------------
Init ==
    /\ g_state = FALSE /\ g_array_positions = FALSE /\ g_array_v1 = "null"
    /\ pushbuffer = <<>> /\ constants = [i \in Registers |-> Other] /\ shader = "none"
    /\ pixels = [p \in (0 .. kProbesPerRow - 1) \X (0 .. 2) |-> Other]
    /\ fault \in Faults \cup {"none"} /\ dropped = FALSE
    /\ test = 1 /\ pc = 1 /\ submitted = FALSE /\ first = 0
    /\ result = <<>> /\ reported = <<>> /\ pass = TRUE /\ crashed = FALSE

End == Ended /\ UNCHANGED vars

Next == Gpu \/ Thread \/ End

Spec == Init /\ [][Next]_vars

\* The thread is scheduled and the GPU goes on executing commands.
FairSpec == Spec /\ WF_vars(Thread) /\ WF_vars(Gpu)

-----------------------------------------------------------------------------
(* Properties *)

\* On a GPU that works, and drops no draw, every test passes if VshInit made
\* its buffers: a test finds nothing of the one before in the registers, the
\* pixels or the vertices, and reads nothing before the GPU has written it,
\* whatever the hardware does beyond its constant registers.
Ready == g_array_positions /\ g_array_v1 # "null"
NoFalseFailure == fault = "none" /\ ~dropped /\ (g_state => Ready) => pass /\ ~crashed

\* A GPU with one of Faults does not pass the suite.  A read that is off by one
\* is not among them: Near allows it (vsh_test_common.cpp:357-359, 407).
FaultsAreDetected == Ended /\ fault # "none" => ~pass \/ crashed

\* What a call returns is of this call, even if a draw was dropped: the pixel
\* is black, the register holds the sentinel, or both are what this shader made
\* of these inputs; never what an earlier draw left (PrepareDraw's clear, and
\* the sentinel of RunCompute, vsh_test_common.cpp:479-483).
OwnVector(v) ==
    LET s == instruction.shader
    IN  [j \in 1 .. Width |-> LET k == CaseAt(s, IF s = "kRoundDot" THEN j - 1 ELSE v - 1, j)
                              IN  <<IF k \in 1 .. Batch THEN first + k ELSE 0, s>>]
OwnResults(k) ==
    CASE instruction.op = "raw" -> {Black, Bits(instruction.inputs[k])}
      [] instruction.op = "array" -> {All(Sentinel), All(<<1, "kV0">>)}
      [] instruction.op = "rounding" -> {All(Sentinel), OwnVector(k)}
      [] instruction.op = "probes" ->
            LET effective == instruction.inputs[k] + instruction.offset
            IN  {Black, Probe(IF effective \in Registers THEN effective ELSE 0)}
ResultsAreFresh == result # <<>> /\ fault = "none" => \A k \in DOMAIN result : result[k] \in OwnResults(k)

\* A rounding test reports each of its cases once and in order, with the result
\* of its own operands or the sentinel, though a draw takes only
\* CasesPerDraw of them and the last draw is not full.
EachCaseReported ==
    [][ReportRounding /\ test' # test /\ fault = "none" =>
        LET all == reported \o Reports
        IN  /\ Len(all) = CaseCount * ReportsPerCase(instruction.shader)
            /\ \A r \in DOMAIN all : all[r] \in {<<ReportedCase(r), instruction.shader>>, Sentinel}]_vars

\* The suite ends, whatever the GPU does with the draws: the wait is for the
\* commands, never for their effect.
SuiteEnds == <>Ended

\* The tests' "Failed to initialize vertex shader test state." (for example
\* test_vsh_rugby_projection.cpp:10-13): a test that goes on after VshInit has
\* the state VshInit makes.
InitMeansReady == [][At({"init"}) /\ test' = test => Ready']_vars
=============================================================================
