-------------------------- MODULE VshHarnessProofs --------------------------
(***************************************************************************)
(* Theorems about VshHarness.tla, for any number of constant registers,    *)
(* cases and outputs: on a GPU that works a call returns nothing that an   *)
(* earlier one left (ResultsAreFresh), a rounding test reports each of its *)
(* cases (EachCaseReported), and no test fails (NoFalseFailure); on a GPU  *)
(* with a fault one does (FaultsAreDetected).                              *)
(*                                                                         *)
(* What the GPU writes is seen as cells: the shader, the constant          *)
(* registers, the pixels.  The argument is about the commands that have    *)
(* not been executed: for each result of a call, the one that makes it is  *)
(* among them and will find in each cell it reads what the call means it   *)
(* to find there (Awaited), or it is not and the result is there.  A fault *)
(* changes what such a command makes, or how it is read, and nothing else. *)
(***************************************************************************)
EXTENDS VshHarness, TLAPS

IsSequence(s) == \E S : s \in Seq(S)

-----------------------------------------------------------------------------
(* The cells *)

ShaderCell == <<"shader", 0>>
Register(i) == <<"register", i>>
PixelAt(p) == <<"pixel", p>>
Screen == (0 .. kProbesPerRow - 1) \X (0 .. 2)
Cells == {ShaderCell} \cup {Register(i) : i \in Registers} \cup {PixelAt(p) : p \in Screen}

Cell(x) ==
    CASE x[1] = "shader" -> shader
      [] x[1] = "register" -> constants[x[2]]
      [] x[1] = "pixel" -> pixels[x[2]]

\* Command c changes cell x, and to what if that does not depend on others.
Sets(c, x) ==
    \/ c.cmd = "shader" /\ x[1] = "shader"
    \/ c.cmd = "clear" /\ x[1] = "pixel"
    \/ c.cmd = "load" /\ x[1] = "register" /\ x[2] - c.index + 1 \in DOMAIN c.values
    \/ c.cmd = "quad" /\ x = PixelAt(PositionOf(c.probe))
    \/ c.cmd = "draw" /\ x[1] = "register" /\ x[2] >= kFirstOutput

SetsTo(c, x, v) ==
    /\ Sets(c, x)
    /\ \/ c.cmd = "shader" /\ v = c.shader
       \/ c.cmd = "clear" /\ v = Black
       \/ c.cmd = "load" /\ v = c.values[x[2] - c.index + 1]

\* Cell x, which holds now, holds v when n commands of q have been executed.
WillHold(q, n, x, now, v) ==
    \/ now = v /\ \A m \in 1 .. n : ~Sets(q[m], x)
    \/ \E j \in 1 .. n : SetsTo(q[j], x, v) /\ \A m \in j + 1 .. n : ~Sets(q[m], x)

-----------------------------------------------------------------------------
(* What a call means to do *)

ByQuads(call) == call.op \in {"probes", "raw"}
UsesBits(call) == call.op = "raw" /\ call.shader \in {"kLogDenormalConst", "kMulDenormalConst"}
Count(call) == IF ByQuads(call) THEN Len(call.inputs) ELSE OutputCount(call.shader)

\* Where result k is made, by which command, and what is there if it is dropped.
Place(call, k) == IF ByQuads(call) THEN PixelAt(PositionOf(k)) ELSE Register(kFirstOutput + k - 1)
Maker(call, k) ==
    IF ByQuads(call) THEN Quad(k, IF UsesBits(call) THEN 0 ELSE call.inputs[k]) ELSE Draw
Untouched(call) == IF ByQuads(call) THEN Black ELSE Vector(All(Sentinel))

\* The registers that command reads, and what they are meant to hold.
Reads(call, k) ==
    CASE call.op = "probes" -> {<<Register(i), Probe(i)>> : i \in Registers}
      [] call.op = "raw" ->
            (IF call.shader = "kLogX" THEN {<<Register(0), Probe(0)>>} ELSE {<<Register(kScale), Scale>>})
                \cup (IF UsesBits(call) THEN {<<Register(kBits), Bits(call.inputs[k])>>} ELSE {})
      [] call.op = "rounding" ->
            {<<Register(InputOf(call.shader, v, n)), Operands(call.shader, v, n)>> :
                v \in 0 .. Vectors(call.shader) - 1, n \in DOMAIN OperandNames(call.shader)}
      [] call.op = "array" -> {<<Register(0), Bits(1)>>}

Needs(call, k) == {<<ShaderCell, call.shader>>, <<Place(call, k), Untouched(call)>>} \cup Reads(call, k)

\* What it makes of them, as it is in the cell, on the GPU there is.
ReadByA0(call, k) ==
    LET effective == call.inputs[k] + call.offset
    IN  IF effective \notin Registers /\ fault \notin {"zeros", "base"} THEN {Black, Probe(0)}
        ELSE CASE fault = "zeros" -> {Black}
               [] fault = "base" -> {Probe(call.offset)}
               [] fault = "short" -> {Probe(IF effective < 2 THEN 0 ELSE effective - 2)}
               [] OTHER -> {Probe(effective)}
Written(call, value) == {IF fault = "no_write" THEN Untouched(call) ELSE Vector(value)}
Makes(call, k) ==
    CASE call.op = "raw" -> {Bits(call.inputs[k])}
      [] call.op = "array" -> Written(call, All(<<1, "kV0">>))
      [] call.op = "rounding" -> Written(call, OwnVector(k))
      [] call.op = "probes" -> ReadByA0(call, k)

Own(call, k) == Makes(call, k) \cup (IF dropped THEN {Untouched(call)} ELSE {})

\* What the thread makes of it.
Returned(call, value) ==
    IF ByQuads(call) THEN value
    ELSE IF fault = "rdi_order" THEN Reverse(Components(value)) ELSE Components(value)

\* The command that makes result k is j-th in q, and will make it.
Awaited(call, k, q, j) ==
    /\ q[j] = Maker(call, k)
    /\ \A need \in Needs(call, k) : WillHold(q, j - 1, need[1], Cell(need[1]), need[2])
    /\ \A m \in j + 1 .. Len(q) : ~Sets(q[m], Place(call, k))

\* Result k is there.
Made(call, k, q) ==
    /\ Cell(Place(call, k)) \in Own(call, k)
    /\ \A m \in 1 .. Len(q) : ~Sets(q[m], Place(call, k))

-----------------------------------------------------------------------------
(* The inductive invariant *)

AtRounding == At({"rounding"})

PlaceInv ==
    /\ test \in 1 .. Len(Tests) + 1
    /\ test <= Len(Tests) => pc \in 1 .. Len(Tests[test])
    /\ submitted \in BOOLEAN /\ (submitted => ~Ended /\ instruction.op # "init")
    /\ first \in Nat /\ first < CaseCount /\ (first # 0 => AtRounding)
    /\ ~Ended /\ instruction.op # "init" => g_state

QueueInv ==
    /\ IsSequence(pushbuffer)
    /\ ~submitted => pushbuffer = <<>> /\ result = <<>>
    /\ result # <<>> => pushbuffer = <<>>
    /\ submitted /\ instruction.op = "array" => g_array_v1 = "kV0"

CellsInv == Registers \subseteq DOMAIN constants /\ DOMAIN pixels = Screen

ResultsInv ==
    submitted =>
        IF result = <<>>
        THEN \A k \in 1 .. Count(instruction) :
                Made(instruction, k, pushbuffer)
                    \/ \E j \in 1 .. Len(pushbuffer) : Awaited(instruction, k, pushbuffer, j)
        ELSE /\ IsSequence(result) /\ Len(result) = Count(instruction)
             /\ \A k \in 1 .. Len(result) :
                    \E value \in Own(instruction, k) : result[k] = Returned(instruction, value)

ReportedInv ==
    /\ ~AtRounding => reported = <<>>
    /\ AtRounding =>
         /\ IsSequence(reported) /\ Len(reported) = first * ReportsPerCase(instruction.shader)
         /\ fault = "none" =>
              \A r \in 1 .. Len(reported) : reported[r] \in {<<ReportedCase(r), instruction.shader>>, Sentinel}

VerdictInv == fault = "none" /\ ~dropped /\ (g_state => Ready) => pass /\ ~crashed

\* The test that fails on a GPU with the fault.
Detector == CASE fault = "zeros" -> 1 [] fault \in {"base", "short"} -> 2 [] OTHER -> 6

FaultInv ==
    /\ fault \in Faults \cup {"none"}
    /\ fault # "none" => ~dropped /\ (test > Detector => ~pass)

IInv == PlaceInv /\ QueueInv /\ CellsInv /\ ResultsInv /\ ReportedInv /\ VerdictInv /\ FaultInv

-----------------------------------------------------------------------------
(* What a step of the GPU does to the cells *)

\* The rest of a sequence.
LEMMA Rest ==
  ASSUME NEW s, IsSequence(s), s # <<>>
  PROVE  /\ Len(s) \in Nat /\ Len(s) > 0 /\ Head(s) = s[1]
         /\ IsSequence(Tail(s)) /\ Len(Tail(s)) = Len(s) - 1
         /\ \A k \in 1 .. Len(s) - 1 : Tail(s)[k] = s[k + 1]
<1>1. PICK S : s \in Seq(S)
  BY DEF IsSequence
<1>2. /\ Len(s) \in Nat /\ Len(s) > 0 /\ Head(s) = s[1]
      /\ Tail(s) \in Seq(S) /\ Len(Tail(s)) = Len(s) - 1
      /\ \A k \in 1 .. Len(s) - 1 : Tail(s)[k] = s[k + 1]
  BY <1>1
<1>3. QED BY <1>2 DEF IsSequence

\* What a cell will hold, when one command has been executed.
LEMMA HoldsOn ==
  ASSUME NEW q, IsSequence(q), q # <<>>, NEW n \in 1 .. Len(q), NEW x, NEW v, NEW now, NEW later,
         ~Sets(q[1], x) => later = now,
         \A w : SetsTo(q[1], x, w) => later = w,
         WillHold(q, n, x, now, v)
  PROVE  WillHold(Tail(q), n - 1, x, later, v)
<1>1. Len(q) \in Nat /\ \A k \in 1 .. Len(q) - 1 : Tail(q)[k] = q[k + 1]
  BY Rest
<1>2. \A m \in 1 .. n - 1 : m + 1 \in 2 .. n /\ Tail(q)[m] = q[m + 1]
  BY <1>1
<1>3. CASE now = v /\ \A m \in 1 .. n : ~Sets(q[m], x)
  <2>1. later = v
    BY <1>1, <1>3
  <2>2. \A m \in 1 .. n - 1 : ~Sets(Tail(q)[m], x)
    BY <1>2, <1>3
  <2>3. QED BY <2>1, <2>2 DEF WillHold
<1>4. CASE \E j \in 1 .. n : SetsTo(q[j], x, v) /\ \A m \in j + 1 .. n : ~Sets(q[m], x)
  <2>1. PICK j \in 1 .. n : SetsTo(q[j], x, v) /\ \A m \in j + 1 .. n : ~Sets(q[m], x)
    BY <1>4
  <2>2. CASE j = 1
    <3>1. later = v
      BY <2>1, <2>2
    <3>2. \A m \in 1 .. n - 1 : ~Sets(Tail(q)[m], x)
      BY <1>2, <2>1, <2>2
    <3>3. QED BY <3>1, <3>2 DEF WillHold
  <2>3. CASE j # 1
    <3>1. j - 1 \in 1 .. n - 1 /\ Tail(q)[j - 1] = q[j]
      BY <1>1, <2>3
    <3>2. \A m \in (j - 1) + 1 .. n - 1 : ~Sets(Tail(q)[m], x)
      BY <1>2, <2>1, <2>3
    <3>3. SetsTo(Tail(q)[j - 1], x, v)
      BY <2>1, <3>1
    <3>4. QED BY <3>1, <3>2, <3>3 DEF WillHold
  <2>4. QED BY <2>2, <2>3
<1>5. QED BY <1>3, <1>4 DEF WillHold

\* Each cell has its kind.
LEMMA Kinds ==
  ASSUME NEW x \in Cells
  PROVE  \/ x = ShaderCell /\ x[1] = "shader"
         \/ x[1] = "register" /\ x[2] \in Registers /\ x = Register(x[2])
         \/ x[1] = "pixel" /\ x[2] \in Screen /\ x = PixelAt(x[2])
BY DEF Cells, ShaderCell, Register, PixelAt

\* A cell the head of the queue does not set stays as it is; one it sets to a
\* value of its own has that value.
CellsChange(c) ==
    \A x \in Cells : /\ ~Sets(c, x) => Cell(x)' = Cell(x)
                     /\ \A w : SetsTo(c, x, w) => Cell(x)' = w

\* GpuShader sets the shader, and nothing else.
LEMMA GpuShaderCells ==
  ASSUME CellsInv, GpuShader
  PROVE  CellsInv' /\ CellsChange(command)
<1>1. shader' = command.shader /\ constants' = constants /\ pixels' = pixels /\ command.cmd = "shader"
  BY DEF GpuShader, Executes, command
<1>2. ASSUME NEW x \in Cells PROVE ~Sets(command, x) => Cell(x)' = Cell(x)
  BY <1>1, Kinds DEF Sets, Cell
<1>3. ASSUME NEW x \in Cells, NEW w, SetsTo(command, x, w) PROVE Cell(x)' = w
  BY <1>1, <1>3, Kinds DEF Sets, SetsTo, Cell
<1>4. CellsInv'
  BY <1>1 DEF CellsInv, Screen, Registers
<1>5. QED BY <1>2, <1>3, <1>4 DEF CellsChange

\* GpuClear makes every pixel black, and nothing else.
LEMMA GpuClearCells ==
  ASSUME CellsInv, GpuClear
  PROVE  CellsInv' /\ CellsChange(command)
<1>1. /\ shader' = shader /\ constants' = constants /\ pixels' = [p \in DOMAIN pixels |-> Black]
      /\ command.cmd = "clear"
  BY DEF GpuClear, Executes, command
<1>2. ASSUME NEW x \in Cells PROVE ~Sets(command, x) => Cell(x)' = Cell(x)
  BY <1>1, Kinds DEF Sets, Cell
<1>3. ASSUME NEW x \in Cells, NEW w, SetsTo(command, x, w) PROVE Cell(x)' = w
  <2>1. x[1] = "pixel" /\ x[2] \in Screen /\ w = Black
    BY <1>1, <1>3, Kinds DEF Sets, SetsTo
  <2>2. pixels'[x[2]] = Black
    BY <1>1, <2>1 DEF CellsInv
  <2>3. QED BY <2>1, <2>2 DEF Cell
<1>4. CellsInv'
  BY <1>1 DEF CellsInv, Screen, Registers
<1>5. QED BY <1>2, <1>3, <1>4 DEF CellsChange

\* GpuLoad sets the registers it loads to the values it brings.
LEMMA GpuLoadCells ==
  ASSUME CellsInv, GpuLoad
  PROVE  CellsInv' /\ CellsChange(command)
<1> DEFINE In(i) == i - command.index + 1 \in DOMAIN command.values
           now(i) == command.values[i - command.index + 1]
           D == DOMAIN constants \cup (command.index .. command.index + Len(command.values) - 1)
<1>1. /\ shader' = shader /\ pixels' = pixels /\ command.cmd = "load"
      /\ constants' = [i \in D |-> IF In(i) THEN now(i) ELSE constants[i]]
  BY DEF GpuLoad, Executes, command
<1>2. Registers \subseteq D
  BY DEF CellsInv
<1> HIDE DEF D
<1>3. \A i \in Registers : constants'[i] = IF In(i) THEN now(i) ELSE constants[i]
  BY <1>1, <1>2
<1>4. ASSUME NEW x \in Cells PROVE ~Sets(command, x) => Cell(x)' = Cell(x)
  <2>1. CASE x[1] = "register" /\ x[2] \in Registers
    <3>1. ~Sets(command, x) => constants'[x[2]] = constants[x[2]]
      BY <1>1, <1>3, <2>1 DEF Sets
    <3>2. QED BY <2>1, <3>1 DEF Cell
  <2>2. CASE x[1] # "register"
    BY <1>1, <2>2, Kinds DEF Cell
  <2>3. QED BY <2>1, <2>2, Kinds
<1>5. ASSUME NEW x \in Cells, NEW w, SetsTo(command, x, w) PROVE Cell(x)' = w
  <2>1. x[1] = "register" /\ x[2] \in Registers /\ In(x[2]) /\ w = now(x[2])
    BY <1>1, <1>5, Kinds DEF Sets, SetsTo
  <2>2. constants'[x[2]] = now(x[2])
    BY <1>3, <2>1
  <2>3. QED BY <2>1, <2>2 DEF Cell
<1>6. CellsInv'
  BY <1>1, <1>2 DEF CellsInv, Screen, Registers
<1>7. QED BY <1>4, <1>5, <1>6 DEF CellsChange

\* GpuQuad sets no cell but the pixel of its probe.
LEMMA GpuQuadCells ==
  ASSUME CellsInv, GpuQuad
  PROVE  CellsInv' /\ CellsChange(command)
<1>1. PICK pixel : /\ pixels' = [pixels EXCEPT ![PositionOf(command.probe)] = pixel]
                   /\ shader' = shader /\ constants' = constants /\ command.cmd = "quad"
  BY DEF GpuQuad, Executes, command
<1>2. ASSUME NEW x \in Cells PROVE ~Sets(command, x) => Cell(x)' = Cell(x)
  <2>1. CASE x[1] = "pixel" /\ x[2] \in Screen /\ x = PixelAt(x[2])
    <3>1. ~Sets(command, x) => x[2] # PositionOf(command.probe)
      BY <1>1, <2>1 DEF Sets
    <3>2. ~Sets(command, x) => pixels'[x[2]] = pixels[x[2]]
      BY <1>1, <2>1, <3>1 DEF CellsInv
    <3>3. QED BY <2>1, <3>2 DEF Cell
  <2>2. CASE x[1] # "pixel"
    BY <1>1, <2>2, Kinds DEF Cell
  <2>3. QED BY <2>1, <2>2, Kinds
<1>3. ASSUME NEW x \in Cells, NEW w, SetsTo(command, x, w) PROVE Cell(x)' = w
  BY <1>1, <1>3 DEF SetsTo
<1>4. CellsInv'
  BY <1>1 DEF CellsInv, Screen, Registers
<1>5. QED BY <1>2, <1>3, <1>4 DEF CellsChange

\* GpuDraw sets no register below kFirstOutput, and no other cell.
LEMMA GpuDrawCells ==
  ASSUME CellsInv, GpuDraw, \A s : OutputCount(s) \in Nat
  PROVE  CellsInv' /\ CellsChange(command)
<1> DEFINE In(i) == i - kFirstOutput \in 0 .. OutputCount(shader) - 1
           now(i) == Vector(Computed(i - kFirstOutput))
<1>1. /\ shader' = shader /\ pixels' = pixels /\ command.cmd = "draw"
      /\ constants' = constants
           \/ constants' = [i \in DOMAIN constants |-> IF In(i) THEN now(i) ELSE constants[i]]
  BY DEF GpuDraw, Executes, command
<1>2. \A i \in Registers : ~In(i) => constants'[i] = constants[i]
  BY <1>1 DEF CellsInv
<1>3. ASSUME NEW x \in Cells PROVE ~Sets(command, x) => Cell(x)' = Cell(x)
  <2>1. CASE x[1] = "register" /\ x[2] \in Registers
    <3>1. ~Sets(command, x) => ~(x[2] >= kFirstOutput)
      BY <1>1, <2>1 DEF Sets
    <3>2. kFirstOutput \in Int /\ x[2] \in Int
      BY <2>1, ScaleAssumption DEF kFirstOutput, Registers
    <3>3. ~Sets(command, x) => ~In(x[2])
      BY <3>1, <3>2
    <3>4. ~Sets(command, x) => constants'[x[2]] = constants[x[2]]
      BY <1>2, <2>1, <3>3
    <3>5. QED BY <2>1, <3>4 DEF Cell
  <2>2. CASE x[1] # "register"
    BY <1>1, <2>2, Kinds DEF Cell
  <2>3. QED BY <2>1, <2>2, Kinds
<1>4. ASSUME NEW x \in Cells, NEW w, SetsTo(command, x, w) PROVE Cell(x)' = w
  BY <1>1, <1>4 DEF SetsTo
<1>5. CellsInv'
  BY <1>1 DEF CellsInv, Screen, Registers
<1>6. QED BY <1>3, <1>4, <1>5 DEF CellsChange

\* A draw that is dropped sets nothing.
LEMMA DropCells ==
  ASSUME CellsInv, GpuDropsDraw
  PROVE  CellsInv' /\ CellsChange(command)
<1>1. /\ shader' = shader /\ pixels' = pixels /\ constants' = constants
      /\ command.cmd = "quad" \/ command.cmd = "draw"
  BY DEF GpuDropsDraw, Executes, command
<1>2. ASSUME NEW x \in Cells PROVE ~Sets(command, x) => Cell(x)' = Cell(x)
  BY <1>1 DEF Cell
<1>3. ASSUME NEW x \in Cells, NEW w, SetsTo(command, x, w) PROVE Cell(x)' = w
  BY <1>1, <1>3 DEF SetsTo
<1>4. CellsInv'
  BY <1>1 DEF CellsInv, Screen, Registers
<1>5. QED BY <1>2, <1>3, <1>4 DEF CellsChange

-----------------------------------------------------------------------------
(* Sequences and numbers *)

\* Two sequences, one after the other.
LEMMA Concatenated ==
  ASSUME NEW S, NEW T, NEW s \in Seq(S), NEW t \in Seq(T)
  PROVE  /\ s \o t \in Seq(S \cup T) /\ Len(s) \in Nat /\ Len(t) \in Nat /\ Len(s \o t) = Len(s) + Len(t)
         /\ \A k \in 1 .. Len(s) : (s \o t)[k] = s[k]
         /\ \A k \in Len(s) + 1 .. Len(s) + Len(t) : (s \o t)[k] = t[k - Len(s)]
OBVIOUS

\* Quotient and remainder, which are the only ones.
LEMMA Division ==
  ASSUME NEW a \in Int, NEW n \in Nat \ {0}
  PROVE  /\ a \div n \in Int /\ a % n \in 0 .. n - 1 /\ a = n * (a \div n) + (a % n)
         /\ a >= 0 => a \div n \in Nat
<1>1. n > 0
  OBVIOUS
<1>2. a \div n \in Int /\ a % n \in 0 .. n - 1 /\ a = n * (a \div n) + (a % n)
  BY <1>1
<1> DEFINE p == a \div n
           s == a % n
<1> HIDE DEF p, s
<1>3. a >= 0 => p >= 0
  <2>1. p \in Int /\ s \in 0 .. n - 1 /\ a = n * p + s
    BY <1>2 DEF p, s
  <2>2. p <= 0 - 1 => n * p <= 0 - n
    BY <2>1
  <2>3. QED BY <2>1, <2>2
<1>4. QED BY <1>2, <1>3 DEF p

\* A number has one quotient and one remainder.
LEMMA OnlyQuotient ==
  ASSUME NEW n \in Nat \ {0}, NEW q \in Int, NEW r \in 0 .. n - 1
  PROVE  (n * q + r) \div n = q /\ (n * q + r) % n = r
<1> DEFINE a == n * q + r
           p == a \div n
           s == a % n
<1>1. a \in Int /\ n > 0
  OBVIOUS
<1>2. p \in Int /\ s \in 0 .. n - 1 /\ a = n * p + s
  BY <1>1
<1> HIDE DEF p, s
<1>3. s - r = n * (q - p)
  BY <1>2
<1>4. \A k \in Int : k >= 1 => n * k >= n
  OBVIOUS
<1>5. \A k \in Int : k <= 0 - 1 => n * k <= 0 - n
  OBVIOUS
<1>6. q - p = 0
  BY <1>2, <1>3, <1>4, <1>5
<1>7. p = q /\ s = r
  BY <1>2, <1>3, <1>6
<1>8. QED BY <1>7 DEF p, s

\* The constants, and the registers that have a purpose.
LEMMA Sizes ==
  /\ kVshConstantCount \in Nat \ {0} /\ kConstantsPerPush \in Nat \ {0} /\ kProbesPerRow \in Nat \ {0}
  /\ Width \in Nat \ {0} /\ Width > 1 /\ kBinaryOutputs \in Nat \ {0} /\ kBinaryOutputs > 1
  /\ CaseCount \in Nat \ {0}
  /\ kFirstOutput \in Nat /\ kFirstOutput = kVshConstantCount - kBinaryOutputs
  /\ kFirstOutput >= 2 + 3 * kBinaryOutputs /\ kFirstOutput >= 2 + 2 * Width
  /\ kScale \in Registers /\ kBits \in Registers /\ kScale # kBits /\ kFirstInput = 2
  /\ 0 \in Registers /\ Registers \subseteq Int
  /\ \A i \in 0 .. kBinaryOutputs - 1 : kFirstOutput + i \in Registers
<1>1. /\ kVshConstantCount \in Nat \ {0} /\ kConstantsPerPush \in Nat \ {0} /\ kProbesPerRow \in Nat \ {0}
      /\ Width \in Nat \ {0} /\ kBinaryOutputs \in Nat \ {0} /\ CaseCount \in Nat \ {0}
  BY ScaleAssumption
<1>2. /\ kBinaryOutputs > 1 /\ Width > 1 /\ kVshConstantCount - kBinaryOutputs >= 2 + 3 * kBinaryOutputs
      /\ kVshConstantCount - kBinaryOutputs >= 2 + 2 * Width
  BY ScaleAssumption
<1>3. QED BY <1>1, <1>2 DEF kFirstOutput, kFirstInput, kScale, kBits, Registers

\* A call for vectors has at least one output, and a case at least one report.
LEMMA Counts ==
  \A s : OutputCount(s) \in 1 .. kBinaryOutputs /\ ReportsPerCase(s) \in Nat \ {0}
<1>1. kBinaryOutputs \in Nat /\ kBinaryOutputs > 1
  BY Sizes
<1>2. QED BY <1>1 DEF OutputCount, ReportsPerCase

\* The quads of the probes of a call are drawn apart.
LEMMA Apart ==
  /\ \A k \in 1 .. 3 : PositionOf(k) \in Screen
  /\ \A k, m \in 1 .. 3 : k # m => PositionOf(k) # PositionOf(m)
<1> DEFINE n == kProbesPerRow
<1>1. n \in Nat \ {0}
  BY Sizes
<1> HIDE DEF n
<1>2. ASSUME NEW k \in 1 .. 3
      PROVE  /\ (k - 1) \div n \in 0 .. 2 /\ (k - 1) % n \in 0 .. n - 1
             /\ k - 1 = n * ((k - 1) \div n) + ((k - 1) % n)
  <2> DEFINE a == k - 1
  <2>1. a \in 0 .. 2
    OBVIOUS
  <2>2. a \in Int /\ a >= 0
    OBVIOUS
  <2> HIDE DEF a
  <2>3. a \div n \in Nat /\ a % n \in 0 .. n - 1 /\ a = n * (a \div n) + (a % n)
    BY <1>1, <2>2, Division
  <2>4. a \div n <= 2
    <3> DEFINE p == a \div n
               s == a % n
    <3>1. p \in Nat /\ s \in 0 .. n - 1 /\ a = n * p + s
      BY <2>3
    <3> HIDE DEF p, s
    <3>2. n * p >= p
      BY <1>1, <3>1
    <3>3. p <= 2
      BY <1>1, <2>1, <3>1, <3>2
    <3>4. QED BY <3>3 DEF p
  <2>5. QED BY <2>3, <2>4 DEF a
<1>3. \A k \in 1 .. 3 : PositionOf(k) = <<(k - 1) % n, (k - 1) \div n>>
  BY DEF PositionOf, n
<1>4. \A k \in 1 .. 3 : PositionOf(k) \in Screen
  <2>1. Screen = (0 .. n - 1) \X (0 .. 2)
    BY DEF Screen, n
  <2>2. QED BY <1>2, <1>3, <2>1
<1>5. ASSUME NEW k \in 1 .. 3, NEW m \in 1 .. 3, PositionOf(k) = PositionOf(m)
      PROVE  k = m
  <2>1. (k - 1) \div n = (m - 1) \div n /\ (k - 1) % n = (m - 1) % n
    BY <1>3, <1>5
  <2>2. k - 1 = m - 1
    BY <1>2, <2>1
  <2>3. QED BY <2>2
<1>6. QED BY <1>4, <1>5

\* Each register is in one push of the upload.
LEMMA Uploads ==
  /\ UploadPushes \in Nat
  /\ \A i \in Registers : \E a \in 1 .. UploadPushes :
        /\ i - (a - 1) * kConstantsPerPush + 1 \in 1 .. kConstantsPerPush
        /\ \A b \in 1 .. UploadPushes : b # a => i - (b - 1) * kConstantsPerPush + 1 \notin 1 .. kConstantsPerPush
<1> DEFINE n == kConstantsPerPush
           N == kVshConstantCount
           u == N \div n
<1>1. n \in Nat \ {0} /\ N \in Nat \ {0} /\ N % n = 0
  BY ScaleAssumption
<1>2. u \in Nat /\ N = n * u
  <2>1. u \in Nat /\ N = n * u + (N % n)
    BY <1>1, Division
  <2>2. n * u \in Int
    BY <1>1, <2>1
  <2> HIDE DEF u, n, N
  <2>3. QED BY <1>1, <2>1, <2>2
<1>3. UploadPushes = u
  BY DEF UploadPushes
<1> HIDE DEF n, N, u
<1>4. ASSUME NEW i \in 0 .. N - 1
      PROVE  \E a \in 1 .. u : /\ i - (a - 1) * n + 1 \in 1 .. n
                               /\ \A b \in 1 .. u : b # a => i - (b - 1) * n + 1 \notin 1 .. n
  <2> DEFINE p == i \div n
             s == i % n
  <2>1. i \in Int /\ i >= 0
    OBVIOUS
  <2>2. p \in Nat /\ s \in 0 .. n - 1 /\ i = n * p + s
    BY <1>1, <2>1, Division
  <2> HIDE DEF p, s
  <2>3. p < u
    <3>1. p >= u => n * p >= n * u
      BY <1>1, <1>2, <2>2
    <3>2. n * p \in Int /\ n * u \in Int
      BY <1>1, <1>2, <2>2
    <3>3. QED BY <1>1, <1>2, <2>2, <3>1, <3>2
  <2>4. i - ((p + 1) - 1) * n + 1 \in 1 .. n
    <3>1. ((p + 1) - 1) * n = n * p /\ n * p \in Int
      BY <1>1, <2>2
    <3>2. QED BY <1>1, <2>2, <3>1
  <2>5. ASSUME NEW b \in 1 .. u, b # p + 1, i - (b - 1) * n + 1 \in 1 .. n
        PROVE  FALSE
    <3> DEFINE d == p - (b - 1)
    <3>1. d \in Int /\ d # 0
      BY <1>2, <2>2, <2>5
    <3>2. (b - 1) * n \in Int /\ n * p \in Int /\ n * p - (b - 1) * n = n * d
      BY <1>1, <1>2, <2>2
    <3> HIDE DEF d
    <3>3. n * d \in Int /\ n * d + s + 1 \in 1 .. n
      <4>1. n * d \in Int
        BY <1>1, <3>1
      <4>2. i - (b - 1) * n = n * d + s
        BY <2>2, <3>2, <4>1
      <4>3. QED BY <2>5, <4>1, <4>2
    <3>4. (d >= 1 => n * d >= n) /\ (d <= 0 - 1 => n * d <= 0 - n)
      BY <1>1, <3>1
    <3>5. QED BY <1>1, <2>2, <3>1, <3>3, <3>4
  <2>6. p + 1 \in 1 .. u
    BY <1>2, <2>2, <2>3
  <2>7. QED BY <2>4, <2>5, <2>6
<1>5. Registers = 0 .. N - 1
  BY DEF Registers, N
<1>6. QED BY <1>2, <1>3, <1>4, <1>5 DEF n

-----------------------------------------------------------------------------
(* The calls of the tests *)

IsProbes(c) ==
    /\ c.op = "probes" /\ IsSequence(c.inputs) /\ Len(c.inputs) \in 1 .. 3
    /\ \A k \in 1 .. Len(c.inputs) : c.inputs[k] \in Int
    /\ \/ c.shader = "kOffset0" /\ c.offset = 0
       \/ c.shader = "kOffset191" /\ c.offset = kVshConstantCount - 1

IsRaw(c) ==
    /\ c.op = "raw" /\ IsSequence(c.inputs) /\ Len(c.inputs) \in 1 .. 3
    /\ c.shader \in {"kLogX", "kLogDenormalAttr", "kMulDenormalAttr", "kLogDenormalConst", "kMulDenormalConst"}

IsRounding(c) ==
    c.op = "rounding" /\ c.shader \in {"kRoundMul", "kRoundAdd", "kRoundDst", "kRoundMad", "kRoundDot"}

IsArray(c) == c.op = "array" /\ c.shader = "kRugbyProjection"

IsCall(c) == IsProbes(c) \/ IsRaw(c) \/ IsRounding(c) \/ IsArray(c)

\* A test: VshInit, then calls, of which one for a rounding table is the last.
IsTest(p) ==
    /\ IsSequence(p) /\ Len(p) \in Nat \ {0, 1} /\ p[1].op = "init"
    /\ \A k \in 2 .. Len(p) : IsCall(p[k]) /\ (p[k].op = "rounding" => k = Len(p))

\* VshInit and one call make a test.
LEMMA OneCall ==
  ASSUME NEW c, IsCall(c)
  PROVE  IsTest(CallsVshInit \o <<c>>)
<1> DEFINE x == [op |-> "init"]
           p == CallsVshInit \o <<c>>
<1>1. CallsVshInit = <<x>> /\ x.op = "init"
  BY DEF CallsVshInit
<1> HIDE DEF x
<1>2. /\ <<x>> \in Seq({x}) /\ Len(<<x>>) = 1 /\ <<x>>[1] = x
      /\ <<c>> \in Seq({c}) /\ Len(<<c>>) = 1 /\ <<c>>[1] = c
  OBVIOUS
<1>3. p \in Seq({x} \cup {c}) /\ Len(p) = 2 /\ p[1] = x /\ p[2] = c
  <2>1. <<x>> \in Seq({x}) /\ <<c>> \in Seq({c})
    BY <1>2
  <2>2. /\ p \in Seq({x} \cup {c}) /\ Len(p) = Len(<<x>>) + Len(<<c>>)
        /\ \A k \in 1 .. Len(<<x>>) : p[k] = <<x>>[k]
        /\ \A k \in Len(<<x>>) + 1 .. Len(<<x>>) + Len(<<c>>) : p[k] = <<c>>[k - Len(<<x>>)]
    BY <1>1, <2>1, Concatenated
  <2> HIDE DEF p
  <2>3. QED BY <1>2, <2>2
<1> HIDE DEF p
<1>4. IsSequence(p)
  BY <1>3 DEF IsSequence
<1>5. \A k \in 2 .. Len(p) : k = 2
  BY <1>3
<1>6. QED BY <1>1, <1>3, <1>4, <1>5 DEF IsTest, p

\* VshInit and four calls for the pixels of raw bits make a test.
LEMMA FourCalls ==
  ASSUME NEW a, NEW b, NEW c, NEW d, IsRaw(a), IsRaw(b), IsRaw(c), IsRaw(d)
  PROVE  IsTest(CallsVshInit \o <<a, b, c, d>>)
<1> DEFINE x == [op |-> "init"]
           p == CallsVshInit \o <<a, b, c, d>>
<1>1. CallsVshInit = <<x>> /\ x.op = "init"
  BY DEF CallsVshInit
<1> HIDE DEF x
<1> DEFINE f == <<a, b, c, d>>
           F == {a, b, c, d}
<1>2. /\ <<x>> \in Seq({x}) /\ Len(<<x>>) = 1 /\ <<x>>[1] = x
      /\ f \in Seq(F) /\ Len(f) = 4 /\ f[1] = a /\ f[2] = b /\ f[3] = c /\ f[4] = d
  OBVIOUS
<1> HIDE DEF f, F
<1>3. p \in Seq({x} \cup F) /\ Len(p) = 5 /\ p[1] = x /\ p[2] = a /\ p[3] = b /\ p[4] = c /\ p[5] = d
  <2>1. <<x>> \in Seq({x}) /\ f \in Seq(F)
    BY <1>2
  <2>2. p = <<x>> \o f
    BY <1>1 DEF f
  <2> HIDE DEF p
  <2>3. /\ p \in Seq({x} \cup F) /\ Len(p) = Len(<<x>>) + Len(f)
        /\ \A k \in 1 .. Len(<<x>>) : p[k] = <<x>>[k]
        /\ \A k \in Len(<<x>>) + 1 .. Len(<<x>>) + Len(f) : p[k] = f[k - Len(<<x>>)]
    BY <2>1, <2>2, Concatenated
  <2>4. QED BY <1>2, <2>3
<1> HIDE DEF p
<1>4. IsSequence(p)
  BY <1>3 DEF IsSequence
<1>5. \A k \in 2 .. Len(p) : k \in {2, 3, 4, 5}
  BY <1>3
<1>6. \A k \in 2 .. Len(p) : IsRaw(p[k])
  BY <1>3, <1>5
<1>7. \A k \in 2 .. Len(p) : IsCall(p[k]) /\ p[k].op # "rounding"
  BY <1>6 DEF IsCall, IsRaw
<1>8. QED BY <1>1, <1>3, <1>4, <1>7 DEF IsTest, p

\* The calls as the tests make them.
LEMMA CallsAsMade ==
  /\ \A s \in {"kOffset0"} : \A inputs : IsSequence(inputs) /\ Len(inputs) \in 1 .. 3
        /\ (\A k \in 1 .. Len(inputs) : inputs[k] \in Int) => IsCall(Probes(s, inputs, 0))
  /\ \A s \in {"kOffset191"} : \A inputs : IsSequence(inputs) /\ Len(inputs) \in 1 .. 3
        /\ (\A k \in 1 .. Len(inputs) : inputs[k] \in Int) => IsCall(Probes(s, inputs, kVshConstantCount - 1))
  /\ \A s \in {"kLogX", "kLogDenormalAttr", "kMulDenormalAttr", "kLogDenormalConst", "kMulDenormalConst"} :
        IsRaw(RawProbes(s, <<1, 2>>))
  /\ \A s \in {"kRoundMul", "kRoundAdd", "kRoundDst", "kRoundMad", "kRoundDot"} : IsCall(Rounding(s))
  /\ IsCall(ComputeArray)
<1>1. \A s \in {"kOffset0"} : \A inputs : IsSequence(inputs) /\ Len(inputs) \in 1 .. 3
        /\ (\A k \in 1 .. Len(inputs) : inputs[k] \in Int) => IsCall(Probes(s, inputs, 0))
  BY DEF IsCall, IsProbes, Probes
<1>2. \A s \in {"kOffset191"} : \A inputs : IsSequence(inputs) /\ Len(inputs) \in 1 .. 3
        /\ (\A k \in 1 .. Len(inputs) : inputs[k] \in Int) => IsCall(Probes(s, inputs, kVshConstantCount - 1))
  BY DEF IsCall, IsProbes, Probes
<1>3. <<1, 2>> \in Seq(Int) /\ Len(<<1, 2>>) = 2
  OBVIOUS
<1>4. IsSequence(<<1, 2>>)
  BY <1>3 DEF IsSequence
<1>5. \A s \in {"kLogX", "kLogDenormalAttr", "kMulDenormalAttr", "kLogDenormalConst", "kMulDenormalConst"} :
        IsRaw(RawProbes(s, <<1, 2>>))
  BY <1>3, <1>4 DEF IsRaw, RawProbes
<1>6. \A s \in {"kRoundMul", "kRoundAdd", "kRoundDst", "kRoundMad", "kRoundDot"} : IsCall(Rounding(s))
  BY DEF IsCall, IsRounding, Rounding
<1>7. IsCall(ComputeArray)
  BY DEF IsCall, IsArray, ComputeArray
<1>8. QED BY <1>1, <1>2, <1>5, <1>6, <1>7

\* The tests of A0 are tests.
LEMMA ProbesOfTests ==
  /\ IsTest(CallsVshInit \o TestVshA0BeforeStart) /\ IsTest(CallsVshInit \o TestVshA0BeyondEnd)
  /\ IsTest(CallsVshInit \o TestVshA0OffsetBeyondEnd)
<1> DEFINE a == <<0, 0 - 1>>
           b == <<0, kVshConstantCount - 1, kVshConstantCount>>
           c == <<0 - 1, 0, 1>>
<1>1. kVshConstantCount \in Int
  BY Sizes
<1>2. a \in Seq(Int) /\ b \in Seq(Int) /\ c \in Seq(Int) /\ Len(a) = 2 /\ Len(b) = 3 /\ Len(c) = 3
  BY <1>1
<1>3. a = <<0, -1>> /\ c = <<-1, 0, 1>>
  OBVIOUS
<1> HIDE DEF a, b, c
<1>4. /\ IsSequence(a) /\ IsSequence(b) /\ IsSequence(c)
      /\ \A k \in 1 .. Len(a) : a[k] \in Int
      /\ \A k \in 1 .. Len(b) : b[k] \in Int
      /\ \A k \in 1 .. Len(c) : c[k] \in Int
      /\ Len(a) \in 1 .. 3 /\ Len(b) \in 1 .. 3 /\ Len(c) \in 1 .. 3
  <2>1. IsSequence(a) /\ IsSequence(b) /\ IsSequence(c)
    BY <1>2 DEF IsSequence
  <2>2. \A s \in Seq(Int) : \A k \in 1 .. Len(s) : s[k] \in Int
    OBVIOUS
  <2>3. QED BY <1>2, <2>1, <2>2
<1>5. IsCall(Probes("kOffset0", a, 0)) /\ IsCall(Probes("kOffset0", b, 0))
      /\ IsCall(Probes("kOffset191", c, kVshConstantCount - 1))
  BY <1>4, CallsAsMade
<1>6. /\ TestVshA0BeforeStart = <<Probes("kOffset0", a, 0)>>
      /\ TestVshA0BeyondEnd = <<Probes("kOffset0", b, 0)>>
      /\ TestVshA0OffsetBeyondEnd = <<Probes("kOffset191", c, kVshConstantCount - 1)>>
  BY <1>3 DEF TestVshA0BeforeStart, TestVshA0BeyondEnd, TestVshA0OffsetBeyondEnd, b
<1>7. QED BY <1>5, <1>6, OneCall

\* The tests of LOG are tests.
LEMMA RawOfTests ==
  IsTest(CallsVshInit \o TestVshLogNegativeExponent) /\ IsTest(CallsVshInit \o TestVshLogDenormal)
<1>1. \A s \in {"kLogX", "kLogDenormalAttr", "kMulDenormalAttr", "kLogDenormalConst", "kMulDenormalConst"} :
        IsRaw(RawProbes(s, <<1, 2>>))
  BY CallsAsMade
<1>2. IsTest(CallsVshInit \o TestVshLogNegativeExponent)
  <2> DEFINE a == RawProbes("kLogX", <<1, 2>>)
  <2>1. IsCall(a)
    BY <1>1 DEF IsCall
  <2>2. TestVshLogNegativeExponent = <<a>>
    BY DEF TestVshLogNegativeExponent
  <2> HIDE DEF a
  <2>3. QED BY <2>1, <2>2, OneCall
<1>3. IsTest(CallsVshInit \o TestVshLogDenormal)
  <2> DEFINE a == RawProbes("kLogDenormalAttr", <<1, 2>>)
             b == RawProbes("kMulDenormalAttr", <<1, 2>>)
             c == RawProbes("kLogDenormalConst", <<1, 2>>)
             d == RawProbes("kMulDenormalConst", <<1, 2>>)
  <2>1. IsRaw(a) /\ IsRaw(b) /\ IsRaw(c) /\ IsRaw(d)
    BY <1>1
  <2>2. TestVshLogDenormal = <<a, b, c, d>>
    BY DEF TestVshLogDenormal
  <2> HIDE DEF a, b, c, d
  <2>3. QED BY <2>1, <2>2, FourCalls
<1>4. QED BY <1>2, <1>3

\* The tests of rounding and of vectors are tests.
LEMMA ComputesOfTests ==
  /\ IsTest(CallsVshInit \o TestVshRoundingMul) /\ IsTest(CallsVshInit \o TestVshRoundingAdd)
  /\ IsTest(CallsVshInit \o TestVshRoundingDst) /\ IsTest(CallsVshInit \o TestVshRoundingMad)
  /\ IsTest(CallsVshInit \o TestVshRoundingDot) /\ IsTest(CallsVshInit \o TestVshRoundingDotAccumulation)
  /\ IsTest(CallsVshInit \o TestVshRugbyProjection)
<1>1. \A s \in {"kRoundMul", "kRoundAdd", "kRoundDst", "kRoundMad", "kRoundDot"} :
        IsTest(CallsVshInit \o <<Rounding(s)>>)
  BY CallsAsMade, OneCall
<1>2. IsTest(CallsVshInit \o <<ComputeArray>>)
  BY CallsAsMade, OneCall
<1>3. QED BY <1>1, <1>2 DEF TestVshRoundingMul, TestVshRoundingAdd, TestVshRoundingDst, TestVshRoundingMad,
                 TestVshRoundingDot, TestVshRoundingDotAccumulation, TestVshRugbyProjection

\* There are twelve tests, and each is one.
LEMMA TestsAreTests == Len(Tests) = 12 /\ \A t \in 1 .. Len(Tests) : IsTest(Tests[t])
<1> DEFINE a1 == CallsVshInit \o TestVshA0BeforeStart
           a2 == CallsVshInit \o TestVshA0BeyondEnd
           a3 == CallsVshInit \o TestVshA0OffsetBeyondEnd
           a4 == CallsVshInit \o TestVshLogNegativeExponent
           a5 == CallsVshInit \o TestVshLogDenormal
           a6 == CallsVshInit \o TestVshRoundingMul
           a7 == CallsVshInit \o TestVshRoundingAdd
           a8 == CallsVshInit \o TestVshRoundingDst
           a9 == CallsVshInit \o TestVshRoundingMad
           a10 == CallsVshInit \o TestVshRoundingDot
           a11 == CallsVshInit \o TestVshRoundingDotAccumulation
           a12 == CallsVshInit \o TestVshRugbyProjection
<1>1. /\ IsTest(a1) /\ IsTest(a2) /\ IsTest(a3) /\ IsTest(a4) /\ IsTest(a5) /\ IsTest(a6) /\ IsTest(a7)
      /\ IsTest(a8) /\ IsTest(a9) /\ IsTest(a10) /\ IsTest(a11) /\ IsTest(a12)
  BY ProbesOfTests, RawOfTests, ComputesOfTests
<1>2. Tests = <<a1, a2, a3, a4, a5, a6, a7, a8, a9, a10, a11, a12>>
  BY DEF Tests
<1> HIDE DEF a1, a2, a3, a4, a5, a6, a7, a8, a9, a10, a11, a12
<1>3. Len(Tests) = 12
  BY <1>2
<1>4. \A t \in 1 .. 12 : Tests[t] \in {a1, a2, a3, a4, a5, a6, a7, a8, a9, a10, a11, a12}
  BY <1>2
<1>5. QED BY <1>1, <1>3, <1>4

\* The calls of the tests that find the faults.
LEMMA Detectors ==
  /\ Len(Tests[1]) = 2 /\ Tests[1][2] = Probes("kOffset0", <<0, -1>>, 0)
  /\ Len(Tests[2]) = 2
  /\ Tests[2][2] = Probes("kOffset0", <<0, kVshConstantCount - 1, kVshConstantCount>>, 0)
  /\ Len(Tests[6]) = 2 /\ Tests[6][2] = Rounding("kRoundMul")
<1> DEFINE x == [op |-> "init"]
           a == Probes("kOffset0", <<0, -1>>, 0)
           b == Probes("kOffset0", <<0, kVshConstantCount - 1, kVshConstantCount>>, 0)
           c == Rounding("kRoundMul")
<1>1. Tests[1] = <<x>> \o <<a>> /\ Tests[2] = <<x>> \o <<b>> /\ Tests[6] = <<x>> \o <<c>>
  <2>1. /\ TestVshA0BeforeStart = <<a>> /\ TestVshA0BeyondEnd = <<b>> /\ TestVshRoundingMul = <<c>>
        /\ CallsVshInit = <<x>>
    BY DEF TestVshA0BeforeStart, TestVshA0BeyondEnd, TestVshRoundingMul, CallsVshInit
  <2>2. /\ Tests[1] = CallsVshInit \o TestVshA0BeforeStart
        /\ Tests[2] = CallsVshInit \o TestVshA0BeyondEnd
        /\ Tests[6] = CallsVshInit \o TestVshRoundingMul
    BY DEF Tests
  <2> HIDE DEF x, a, b, c
  <2>3. QED BY <2>1, <2>2
<1> HIDE DEF x, a, b, c
<1>2. ASSUME NEW e PROVE Len(<<x>> \o <<e>>) = 2 /\ (<<x>> \o <<e>>)[2] = e
  <2>1. /\ <<x>> \in Seq({x}) /\ Len(<<x>>) = 1 /\ <<e>> \in Seq({e}) /\ Len(<<e>>) = 1 /\ <<e>>[1] = e
    OBVIOUS
  <2> DEFINE p == <<x>> \o <<e>>
  <2>2. /\ Len(p) = Len(<<x>>) + Len(<<e>>)
        /\ \A k \in Len(<<x>>) + 1 .. Len(<<x>>) + Len(<<e>>) : p[k] = <<e>>[k - Len(<<x>>)]
    BY <2>1, Concatenated
  <2> HIDE DEF p
  <2>3. Len(p) = 2 /\ p[2] = e
    BY <2>1, <2>2
  <2>4. QED BY <2>3 DEF p
<1>3. QED BY <1>1, <1>2 DEF a, b, c


\* The call the thread is at.
LEMMA TheCall ==
  ASSUME PlaceInv, ~Ended
  PROVE  /\ test \in 1 .. Len(Tests) /\ IsTest(Tests[test]) /\ pc \in 1 .. Len(Tests[test])
         /\ instruction.op = "init" <=> pc = 1
         /\ instruction.op # "init" => IsCall(instruction)
         /\ instruction.op = "rounding" => pc = Len(Tests[test])
<1>1. test \in 1 .. Len(Tests) /\ IsTest(Tests[test]) /\ pc \in 1 .. Len(Tests[test])
  BY TestsAreTests DEF PlaceInv, Ended
<1>2. pc \in 2 .. Len(Tests[test]) =>
        IsCall(instruction) /\ (instruction.op = "rounding" => pc = Len(Tests[test]))
  BY <1>1 DEF IsTest, instruction
<1>3. IsCall(instruction) => instruction.op # "init"
  BY DEF IsCall, IsProbes, IsRaw, IsRounding, IsArray
<1>4. pc = 1 => instruction.op = "init"
  BY <1>1 DEF IsTest, instruction
<1>5. pc # 1 => pc \in 2 .. Len(Tests[test])
  BY <1>1 DEF IsTest
<1>6. pc = 1 \/ pc # 1
  OBVIOUS
<1>7. QED BY <1>1, <1>2, <1>3, <1>4, <1>5

-----------------------------------------------------------------------------
(* What the commands of a call do to the cells *)

\* What is where in a concatenation.
LEMMA InTwo ==
  ASSUME NEW a, NEW b, IsSequence(a), IsSequence(b)
  PROVE  /\ IsSequence(a \o b) /\ Len(a) \in Nat /\ Len(b) \in Nat /\ Len(a \o b) = Len(a) + Len(b)
         /\ \A k \in 1 .. Len(a) : (a \o b)[k] = a[k]
         /\ \A k \in 1 .. Len(b) : (a \o b)[Len(a) + k] = b[k]
<1>1. PICK A : a \in Seq(A)
  BY DEF IsSequence
<1>2. PICK B : b \in Seq(B)
  BY DEF IsSequence
<1>3. a \in Seq(A) /\ b \in Seq(B)
  BY <1>1, <1>2
<1>4. /\ a \o b \in Seq(A \cup B) /\ Len(a) \in Nat /\ Len(b) \in Nat /\ Len(a \o b) = Len(a) + Len(b)
      /\ \A k \in 1 .. Len(a) : (a \o b)[k] = a[k]
      /\ \A k \in Len(a) + 1 .. Len(a) + Len(b) : (a \o b)[k] = b[k - Len(a)]
  BY <1>3, Concatenated
<1>5. \A k \in 1 .. Len(b) : Len(a) + k \in Len(a) + 1 .. Len(a) + Len(b) /\ (Len(a) + k) - Len(a) = k
  BY <1>4
<1>6. \A k \in 1 .. Len(b) : (a \o b)[Len(a) + k] = b[k]
  BY <1>4, <1>5
<1>7. QED BY <1>4, <1>6 DEF IsSequence

\* A function on 1 .. n is a sequence.
LEMMA Listed ==
  ASSUME NEW n \in Nat, NEW f, f = [k \in 1 .. n |-> f[k]]
  PROVE  IsSequence(f) /\ Len(f) = n
<1> DEFINE S == {f[k] : k \in 1 .. n}
<1>1. \A k \in 1 .. n : f[k] \in S
  OBVIOUS
<1> HIDE DEF S
<1>2. f \in [1 .. n -> S]
  BY <1>1
<1>3. f \in Seq(S) /\ Len(f) = n
  BY <1>2
<1>4. QED BY <1>3 DEF IsSequence

\* Which cells a command sets.
LEMMA ShaderSets ==
  ASSUME NEW s
  PROVE  /\ SetsTo(Shader(s), ShaderCell, s)
         /\ \A p : ~Sets(Shader(s), PixelAt(p))
         /\ \A i : ~Sets(Shader(s), Register(i))
BY DEF SetsTo, Sets, Shader, ShaderCell, PixelAt, Register

\* A clear sets the pixels to black.
LEMMA ClearSets ==
  /\ ~Sets(Clear, ShaderCell)
  /\ \A p : SetsTo(Clear, PixelAt(p), Black)
  /\ \A i : ~Sets(Clear, Register(i))
BY DEF SetsTo, Sets, Clear, ShaderCell, PixelAt, Register

\* A load sets its register to its value, and no other cell.
LEMMA LoadSets ==
  ASSUME NEW index \in Int, NEW v
  PROVE  /\ ~Sets(LoadConstant(index, v), ShaderCell)
         /\ \A p : ~Sets(LoadConstant(index, v), PixelAt(p))
         /\ SetsTo(LoadConstant(index, v), Register(index), v)
         /\ \A i \in Int : i # index => ~Sets(LoadConstant(index, v), Register(i))
<1> DEFINE c == LoadConstant(index, v)
<1>1. c.cmd = "load" /\ c.index = index /\ c.values = <<v>>
  BY DEF LoadConstant
<1>2. DOMAIN <<v>> = {1} /\ <<v>>[1] = v
  OBVIOUS
<1> HIDE DEF c
<1>3. ~Sets(c, ShaderCell) /\ \A p : ~Sets(c, PixelAt(p))
  BY <1>1 DEF Sets, ShaderCell, PixelAt
<1>4. index - index + 1 = 1
  OBVIOUS
<1>5. SetsTo(c, Register(index), v)
  BY <1>1, <1>2, <1>4 DEF SetsTo, Sets, Register
<1>6. \A i \in Int : i # index => i - index + 1 # 1
  OBVIOUS
<1>7. \A i \in Int : i # index => ~Sets(c, Register(i))
  BY <1>1, <1>2, <1>6 DEF Sets, Register
<1>8. QED BY <1>3, <1>5, <1>7 DEF c

\* A quad sets no cell but its pixel.
LEMMA QuadSets ==
  ASSUME NEW k, NEW attr
  PROVE  /\ ~Sets(Quad(k, attr), ShaderCell)
         /\ \A i : ~Sets(Quad(k, attr), Register(i))
         /\ \A p : p # PositionOf(k) => ~Sets(Quad(k, attr), PixelAt(p))
<1>1. Quad(k, attr).cmd = "quad" /\ Quad(k, attr).probe = k
  BY DEF Quad
<1>2. QED BY <1>1 DEF Sets, ShaderCell, PixelAt, Register

\* The a-th push of UploadProbeConstants.
LEMMA UploadSets ==
  ASSUME NEW a \in 1 .. UploadPushes
  PROVE  LET c == UploadProbeConstants[a]
             In(i) == i - (a - 1) * kConstantsPerPush + 1 \in 1 .. kConstantsPerPush
         IN  /\ ~Sets(c, ShaderCell)
             /\ \A p : ~Sets(c, PixelAt(p))
             /\ \A i \in Int : In(i) => SetsTo(c, Register(i), Probe(i))
             /\ \A i : ~In(i) => ~Sets(c, Register(i))
<1> DEFINE c == UploadProbeConstants[a]
           n == kConstantsPerPush
           start == (a - 1) * n
           values == [j \in 1 .. n |-> Probe(start + j - 1)]
           In(i) == i - start + 1 \in 1 .. n
<1>1. c = [cmd |-> "load", index |-> start, values |-> values]
  BY DEF UploadProbeConstants
<1>2. n \in Nat /\ start \in Int
  BY Sizes, Uploads
<1>3. c.cmd = "load" /\ c.index = start /\ c.values = values
  BY <1>1
<1>4. DOMAIN values = 1 .. n /\ \A j \in 1 .. n : values[j] = Probe(start + j - 1)
  OBVIOUS
<1> HIDE DEF c, start, values, n
<1>5. ~Sets(c, ShaderCell) /\ \A p : ~Sets(c, PixelAt(p))
  BY <1>3 DEF Sets, ShaderCell, PixelAt
<1>6. \A i : Register(i)[1] = "register" /\ Register(i)[2] = i
  BY DEF Register
<1>7. ASSUME NEW i \in Int, In(i) PROVE SetsTo(c, Register(i), Probe(i))
  <2>1. start + (i - start + 1) - 1 = i
    BY <1>2
  <2>2. values[i - start + 1] = Probe(i)
    BY <1>4, <1>7, <2>1
  <2>3. QED BY <1>3, <1>4, <1>6, <1>7, <2>2 DEF SetsTo, Sets
<1>8. \A i : ~In(i) => ~Sets(c, Register(i))
  BY <1>3, <1>4, <1>6 DEF Sets
<1>9. QED BY <1>5, <1>7, <1>8 DEF c, start, n

-----------------------------------------------------------------------------
(* What the commands of a call will find *)

\* What holds after some commands holds after more that leave the cell alone.
LEMMA Through ==
  ASSUME NEW F, NEW D, IsSequence(F), IsSequence(D), NEW n \in 0 .. Len(D), NEW x, NEW now, NEW v,
         WillHold(F, Len(F), x, now, v), \A m \in 1 .. n : ~Sets(D[m], x)
  PROVE  WillHold(F \o D, Len(F) + n, x, now, v)
<1> DEFINE q == F \o D
<1>1. /\ Len(F) \in Nat /\ Len(D) \in Nat
      /\ \A k \in 1 .. Len(F) : q[k] = F[k]
      /\ \A k \in 1 .. Len(D) : q[Len(F) + k] = D[k]
  BY InTwo
<1> HIDE DEF q
<1>2. \A m \in Len(F) + 1 .. Len(F) + n : ~Sets(q[m], x)
  <2> SUFFICES ASSUME NEW m \in Len(F) + 1 .. Len(F) + n PROVE ~Sets(q[m], x)
    OBVIOUS
  <2> DEFINE k == m - Len(F)
  <2>1. k \in 1 .. n /\ k \in 1 .. Len(D) /\ m = Len(F) + k
    BY <1>1
  <2> HIDE DEF k
  <2>2. QED BY <1>1, <2>1
<1>3. CASE now = v /\ \A m \in 1 .. Len(F) : ~Sets(F[m], x)
  <2>1. \A m \in 1 .. Len(F) : ~Sets(q[m], x)
    BY <1>1, <1>3
  <2>2. \A m \in 1 .. Len(F) + n : m \in 1 .. Len(F) \/ m \in Len(F) + 1 .. Len(F) + n
    BY <1>1
  <2>3. \A m \in 1 .. Len(F) + n : ~Sets(q[m], x)
    BY <1>2, <2>1, <2>2
  <2>4. QED BY <1>3, <2>3 DEF WillHold, q
<1>4. CASE \E j \in 1 .. Len(F) : SetsTo(F[j], x, v) /\ \A m \in j + 1 .. Len(F) : ~Sets(F[m], x)
  <2>1. PICK j \in 1 .. Len(F) : SetsTo(F[j], x, v) /\ \A m \in j + 1 .. Len(F) : ~Sets(F[m], x)
    BY <1>4
  <2>2. j \in 1 .. Len(F) + n /\ SetsTo(q[j], x, v)
    BY <1>1, <2>1
  <2>3. \A m \in j + 1 .. Len(F) + n : m \in j + 1 .. Len(F) \/ m \in Len(F) + 1 .. Len(F) + n
    BY <1>1
  <2>4. \A m \in j + 1 .. Len(F) : m \in 1 .. Len(F)
    BY <1>1
  <2>5. \A m \in j + 1 .. Len(F) + n : ~Sets(q[m], x)
    BY <1>1, <1>2, <2>1, <2>3, <2>4
  <2>6. QED BY <2>2, <2>5 DEF WillHold, q
<1>5. QED BY <1>3, <1>4 DEF WillHold

\* A cell holds what the last command that sets it sets it to.
LEMMA SetWithin ==
  ASSUME NEW F, NEW D, IsSequence(F), IsSequence(D), NEW n \in 0 .. Len(D), NEW x, NEW now, NEW v,
         NEW j \in 1 .. n, SetsTo(D[j], x, v), \A m \in j + 1 .. n : ~Sets(D[m], x)
  PROVE  WillHold(F \o D, Len(F) + n, x, now, v)
<1> DEFINE q == F \o D
           i == Len(F) + j
<1>1. Len(F) \in Nat /\ Len(D) \in Nat /\ \A k \in 1 .. Len(D) : q[Len(F) + k] = D[k]
  BY InTwo
<1> HIDE DEF q
<1>2. i \in 1 .. Len(F) + n /\ j \in 1 .. Len(D) /\ SetsTo(q[i], x, v)
  BY <1>1
<1>3. \A m \in i + 1 .. Len(F) + n : ~Sets(q[m], x)
  <2> SUFFICES ASSUME NEW m \in i + 1 .. Len(F) + n PROVE ~Sets(q[m], x)
    OBVIOUS
  <2> DEFINE k == m - Len(F)
  <2>1. k \in j + 1 .. n /\ k \in 1 .. Len(D) /\ m = Len(F) + k
    BY <1>1
  <2> HIDE DEF k
  <2>2. QED BY <1>1, <2>1
<1> HIDE DEF i
<1>4. QED BY <1>2, <1>3 DEF WillHold, q

\* SelectShader and PrepareDraw.
LEMMA Prepared ==
  ASSUME NEW s
  PROVE  /\ IsSequence(Prepare(s)) /\ Len(Prepare(s)) = 2
         /\ \A now : WillHold(Prepare(s), 2, ShaderCell, now, s)
         /\ \A now, p : WillHold(Prepare(s), 2, PixelAt(p), now, Black)
<1> DEFINE q == Prepare(s)
           a == Shader(s)
<1>1. q = <<a, Clear>>
  BY DEF Prepare
<1>2. SetsTo(a, ShaderCell, s)
  BY ShaderSets
<1> HIDE DEF a
<1>3. q \in Seq({a, Clear}) /\ Len(q) = 2 /\ q[1] = a /\ q[2] = Clear
  BY <1>1
<1> HIDE DEF q
<1>4. \A now : WillHold(q, 2, ShaderCell, now, s)
  <2>1. \A m \in 1 + 1 .. 2 : q[m] = Clear
    BY <1>3
  <2>2. 1 \in 1 .. 2 /\ SetsTo(q[1], ShaderCell, s) /\ \A m \in 1 + 1 .. 2 : ~Sets(q[m], ShaderCell)
    BY <1>2, <1>3, <2>1, ClearSets
  <2>3. QED BY <2>2 DEF WillHold
<1>5. \A now, p : WillHold(q, 2, PixelAt(p), now, Black)
  <2>1. \A p : 2 \in 1 .. 2 /\ SetsTo(q[2], PixelAt(p), Black) /\ \A m \in 2 + 1 .. 2 : ~Sets(q[m], PixelAt(p))
    BY <1>3, ClearSets
  <2>2. QED BY <2>1 DEF WillHold
<1>6. QED BY <1>3, <1>4, <1>5 DEF IsSequence, q

\* UploadProbeConstants after them.
Uploaded(s) == Prepare(s) \o UploadProbeConstants

\* When the probe constants are uploaded, the shader, the pixels and the
\* registers are what a call by quads expects.
LEMMA ProbesUploaded ==
  ASSUME NEW s
  PROVE  /\ IsSequence(Uploaded(s))
         /\ \A now : WillHold(Uploaded(s), Len(Uploaded(s)), ShaderCell, now, s)
         /\ \A now, p : WillHold(Uploaded(s), Len(Uploaded(s)), PixelAt(p), now, Black)
         /\ \A now : \A i \in Registers : WillHold(Uploaded(s), Len(Uploaded(s)), Register(i), now, Probe(i))
<1> DEFINE F == Prepare(s)
           D == UploadProbeConstants
           n == UploadPushes
<1>1. IsSequence(F) /\ Len(F) = 2
  BY Prepared
<1>2. IsSequence(D) /\ Len(D) = n /\ n \in Nat
  <2>1. n \in Nat
    BY Uploads
  <2>2. D = [k \in 1 .. n |-> D[k]]
    BY DEF UploadProbeConstants
  <2> HIDE DEF D, n
  <2>3. QED BY <2>1, <2>2, Listed
<1>3. \A m \in 1 .. n : ~Sets(D[m], ShaderCell) /\ \A p : ~Sets(D[m], PixelAt(p))
  BY UploadSets
<1>4. \A now : WillHold(F, Len(F), ShaderCell, now, s) /\ \A p : WillHold(F, Len(F), PixelAt(p), now, Black)
  BY <1>1, Prepared
<1>5. \A i \in Registers : \E a \in 1 .. n :
          SetsTo(D[a], Register(i), Probe(i)) /\ \A b \in 1 .. n : b # a => ~Sets(D[b], Register(i))
  <2> SUFFICES ASSUME NEW i \in Registers
               PROVE  \E a \in 1 .. n : /\ SetsTo(D[a], Register(i), Probe(i))
                                        /\ \A b \in 1 .. n : b # a => ~Sets(D[b], Register(i))
    OBVIOUS
  <2>1. PICK a \in 1 .. UploadPushes :
            /\ i - (a - 1) * kConstantsPerPush + 1 \in 1 .. kConstantsPerPush
            /\ \A b \in 1 .. UploadPushes :
                  b # a => i - (b - 1) * kConstantsPerPush + 1 \notin 1 .. kConstantsPerPush
    BY Uploads
  <2>2. i \in Int
    BY Sizes
  <2>3. SetsTo(D[a], Register(i), Probe(i))
    BY <2>1, <2>2, UploadSets
  <2>4. \A b \in 1 .. n : b # a => ~Sets(D[b], Register(i))
    BY <2>1, UploadSets
  <2>5. QED BY <2>3, <2>4
<1> HIDE DEF F, D, n
<1>6. IsSequence(F \o D) /\ Len(F \o D) = Len(F) + n
  BY <1>1, <1>2, InTwo
<1>7. n \in 0 .. Len(D)
  BY <1>2
<1>8. \A now : WillHold(F \o D, Len(F) + n, ShaderCell, now, s)
  BY <1>1, <1>2, <1>3, <1>4, <1>7, Through
<1>9. \A now, p : WillHold(F \o D, Len(F) + n, PixelAt(p), now, Black)
  BY <1>1, <1>2, <1>3, <1>4, <1>7, Through
<1>10. ASSUME NEW now, NEW i \in Registers
       PROVE  WillHold(F \o D, Len(F) + n, Register(i), now, Probe(i))
  <2>1. PICK a \in 1 .. n : /\ SetsTo(D[a], Register(i), Probe(i))
                            /\ \A b \in 1 .. n : b # a => ~Sets(D[b], Register(i))
    BY <1>5
  <2>2. \A b \in a + 1 .. n : b \in 1 .. n /\ b # a
    BY <1>2
  <2>3. \A b \in a + 1 .. n : ~Sets(D[b], Register(i))
    BY <2>1, <2>2
  <2>4. QED BY <1>1, <1>2, <1>7, <2>1, <2>3, SetWithin
<1>11. Uploaded(s) = F \o D
  BY DEF Uploaded, F, D
<1>12. QED BY <1>6, <1>8, <1>9, <1>10, <1>11

\* The command that makes a result, after those that prepare for it.
LEMMA MakerAwaited ==
  ASSUME NEW F, NEW D, IsSequence(F), IsSequence(D), NEW call, NEW k, NEW n \in 1 .. Len(D),
         D[n] = Maker(call, k),
         \A m \in 1 .. n - 1 : ~Sets(D[m], ShaderCell),
         \A m \in 1 .. Len(D) : m # n => ~Sets(D[m], Place(call, k)),
         \A now : WillHold(F, Len(F), ShaderCell, now, call.shader),
         \A now : WillHold(F, Len(F), Place(call, k), now, Untouched(call)),
         \A need \in Reads(call, k) : \A now : WillHold(F \o D, Len(F) + (n - 1), need[1], now, need[2])
  PROVE  \E j \in 1 .. Len(F \o D) : Awaited(call, k, F \o D, j)
<1> DEFINE q == F \o D
           j == Len(F) + n
<1>1. /\ IsSequence(q) /\ Len(F) \in Nat /\ Len(D) \in Nat /\ Len(q) = Len(F) + Len(D)
      /\ \A m \in 1 .. Len(D) : q[Len(F) + m] = D[m]
  BY InTwo
<1>2. j \in 1 .. Len(q) /\ j - 1 = Len(F) + (n - 1) /\ n - 1 \in 0 .. Len(D)
  <2> HIDE DEF q
  <2>1. QED BY <1>1
<1>3. q[j] = Maker(call, k)
  <2> HIDE DEF q
  <2>1. QED BY <1>1
<1>4. WillHold(q, Len(F) + (n - 1), ShaderCell, Cell(ShaderCell), call.shader)
  BY <1>2, Through
<1>5. WillHold(q, Len(F) + (n - 1), Place(call, k), Cell(Place(call, k)), Untouched(call))
  <2>1. \A m \in 1 .. n - 1 : m \in 1 .. Len(D) /\ m # n
    BY <1>1
  <2>2. \A m \in 1 .. n - 1 : ~Sets(D[m], Place(call, k))
    BY <2>1
  <2>3. QED BY <1>2, <2>2, Through
<1>6. \A need \in Reads(call, k) : WillHold(q, Len(F) + (n - 1), need[1], Cell(need[1]), need[2])
  OBVIOUS
<1>7. \A need \in Needs(call, k) : WillHold(q, j - 1, need[1], Cell(need[1]), need[2])
  <2> HIDE DEF q, j
  <2>1. \A need \in Needs(call, k) : need \in Reads(call, k)
            \/ need = <<ShaderCell, call.shader>> \/ need = <<Place(call, k), Untouched(call)>>
    BY DEF Needs
  <2>2. QED BY <1>2, <1>4, <1>5, <1>6, <2>1
<1>8. \A m \in j + 1 .. Len(q) : ~Sets(q[m], Place(call, k))
  <2> SUFFICES ASSUME NEW m \in j + 1 .. Len(q) PROVE ~Sets(q[m], Place(call, k))
    OBVIOUS
  <2> HIDE DEF q
  <2> DEFINE i == m - Len(F)
  <2>1. i \in 1 .. Len(D) /\ i # n /\ m = Len(F) + i
    BY <1>1
  <2> HIDE DEF i
  <2>2. QED BY <1>1, <2>1
<1> HIDE DEF q, j
<1>9. Awaited(call, k, q, j)
  BY <1>3, <1>7, <1>8 DEF Awaited
<1>10. QED BY <1>2, <1>9 DEF q

\* A call's commands make each of its results of what the call means.
WillMake(call) ==
    /\ IsSequence(Commands(call))
    /\ \A k \in 1 .. Count(call) : \E j \in 1 .. Len(Commands(call)) : Awaited(call, k, Commands(call), j)

\* VshRunProbes: each quad finds the probe constants, its shader and a black
\* pixel.
LEMMA ProbesWillMake ==
  ASSUME NEW call, IsProbes(call)
  PROVE  WillMake(call)
<1> DEFINE F == Uploaded(call.shader)
           D == [k \in 1 .. Len(call.inputs) |-> Quad(k, call.inputs[k])]
           n == Len(call.inputs)
<1>1. call.op = "probes" /\ n \in 1 .. 3
  BY DEF IsProbes
<1>2. Commands(call) = F \o D
  BY <1>1 DEF Commands, ProbeCommands, Uploaded
<1>3. IsSequence(D) /\ Len(D) = n /\ \A m \in 1 .. n : D[m] = Quad(m, call.inputs[m])
  <2>1. n \in Nat /\ D = [k \in 1 .. n |-> D[k]]
    BY <1>1
  <2>2. \A m \in 1 .. n : D[m] = Quad(m, call.inputs[m])
    OBVIOUS
  <2> HIDE DEF D, n
  <2>3. QED BY <2>1, <2>2, Listed
<1>4. /\ IsSequence(F)
      /\ \A now : WillHold(F, Len(F), ShaderCell, now, call.shader)
      /\ \A now, p : WillHold(F, Len(F), PixelAt(p), now, Black)
      /\ \A now : \A i \in Registers : WillHold(F, Len(F), Register(i), now, Probe(i))
  BY ProbesUploaded
<1> HIDE DEF F, D
<1>5. \A k : /\ Place(call, k) = PixelAt(PositionOf(k)) /\ Untouched(call) = Black
             /\ Maker(call, k) = Quad(k, call.inputs[k])
             /\ Reads(call, k) = {<<Register(i), Probe(i)>> : i \in Registers}
  BY <1>1 DEF Place, Untouched, Maker, Reads, ByQuads, UsesBits
<1>6. Count(call) = n
  BY <1>1 DEF Count, ByQuads
<1> HIDE DEF n
<1>7. \A m \in 1 .. n : ~Sets(D[m], ShaderCell) /\ \A i : ~Sets(D[m], Register(i))
  BY <1>3, QuadSets
<1>8. ASSUME NEW k \in 1 .. n
      PROVE  \E j \in 1 .. Len(F \o D) : Awaited(call, k, F \o D, j)
  <2>1. \A m \in 1 .. n : m # k => ~Sets(D[m], Place(call, k))
    <3>1. \A m \in 1 .. n : m # k => PositionOf(k) # PositionOf(m)
      BY <1>1, Apart
    <3>2. QED BY <1>3, <1>5, <3>1, QuadSets
  <2>2. k - 1 \in 0 .. Len(D) /\ \A m \in 1 .. k - 1 : m \in 1 .. n
    BY <1>1, <1>3
  <2>3. ASSUME NEW need \in Reads(call, k), NEW now
        PROVE  WillHold(F \o D, Len(F) + (k - 1), need[1], now, need[2])
    <3>1. PICK i \in Registers : need = <<Register(i), Probe(i)>>
      BY <1>5
    <3>2. WillHold(F, Len(F), Register(i), now, Probe(i)) /\ \A m \in 1 .. k - 1 : ~Sets(D[m], Register(i))
      BY <1>4, <1>7, <2>2
    <3>3. WillHold(F \o D, Len(F) + (k - 1), Register(i), now, Probe(i))
      BY <1>3, <1>4, <2>2, <3>2, Through
    <3>4. need[1] = Register(i) /\ need[2] = Probe(i)
      BY <3>1
    <3>5. QED BY <3>3, <3>4
  <2>4. k \in 1 .. Len(D) /\ D[k] = Maker(call, k)
    BY <1>3, <1>5
  <2>5. \A now : WillHold(F, Len(F), Place(call, k), now, Untouched(call))
    BY <1>4, <1>5
  <2>6. \A m \in 1 .. k - 1 : ~Sets(D[m], ShaderCell)
    BY <1>7, <2>2
  <2>7. QED BY <1>3, <1>4, <2>1, <2>3, <2>4, <2>5, <2>6, MakerAwaited
<1>9. IsSequence(F \o D)
  BY <1>3, <1>4, InTwo
<1>10. QED BY <1>2, <1>6, <1>8, <1>9 DEF WillMake

\* What VshRunRawProbes loads before its quads.
LEMMA ScaleLoaded ==
  ASSUME NEW s, NEW x, NEW v,
         \/ s = "kLogX" /\ x = Register(0) /\ v = Probe(0)
         \/ s # "kLogX" /\ x = Register(kScale) /\ v = Scale
         \/ x = ShaderCell /\ v = s
         \/ v = Black /\ \E p : x = PixelAt(p)
  PROVE  LET D == IF s = "kLogX" THEN <<>> ELSE <<LoadConstant(kScale, Scale)>>
         IN  /\ IsSequence(Uploaded(s) \o D)
             /\ \A now : WillHold(Uploaded(s) \o D, Len(Uploaded(s) \o D), x, now, v)
<1> DEFINE F == Uploaded(s)
           D == IF s = "kLogX" THEN <<>> ELSE <<LoadConstant(kScale, Scale)>>
           n == Len(D)
<1>1. /\ IsSequence(F)
      /\ \A now : WillHold(F, Len(F), ShaderCell, now, s)
      /\ \A now, p : WillHold(F, Len(F), PixelAt(p), now, Black)
      /\ \A now : \A i \in Registers : WillHold(F, Len(F), Register(i), now, Probe(i))
  BY ProbesUploaded
<1>2. IsSequence(D) /\ Len(D) = n /\ n \in Nat
  <2> DEFINE c == LoadConstant(kScale, Scale)
  <2>1. <<>> \in Seq({c}) /\ <<c>> \in Seq({c})
    OBVIOUS
  <2>2. D = <<>> \/ D = <<c>>
    OBVIOUS
  <2> HIDE DEF D, c
  <2>3. D \in Seq({c})
    BY <2>1, <2>2
  <2>4. QED BY <2>3 DEF IsSequence
<1>3. s = "kLogX" => n = 0
  OBVIOUS
<1>4. s # "kLogX" => n = 1 /\ D[1] = LoadConstant(kScale, Scale)
  <2> DEFINE c == LoadConstant(kScale, Scale)
  <2> HIDE DEF c
  <2>1. Len(<<c>>) = 1 /\ <<c>>[1] = c
    OBVIOUS
  <2>2. QED BY <2>1 DEF c
<1> HIDE DEF F, D, n
<1>5. IsSequence(F \o D) /\ Len(F \o D) = Len(F) + n
  BY <1>1, <1>2, InTwo
<1>6. \A m \in 1 .. n : s # "kLogX" /\ m = 1
  BY <1>2, <1>3, <1>4
<1>7. kScale \in Registers /\ kScale \in Int
  BY Sizes
<1>8. \A m \in 1 .. n : ~Sets(D[m], ShaderCell) /\ \A p : ~Sets(D[m], PixelAt(p))
  BY <1>4, <1>6, <1>7, LoadSets
<1>9. CASE s # "kLogX" /\ x = Register(kScale) /\ v = Scale
  <2>1. 1 \in 1 .. n /\ n \in 0 .. Len(D) /\ SetsTo(D[1], x, v)
    BY <1>2, <1>4, <1>7, <1>9, LoadSets
  <2>2. \A m \in 1 + 1 .. n : ~Sets(D[m], x)
    BY <1>4, <1>9
  <2>3. \A now : WillHold(F \o D, Len(F) + n, x, now, v)
    BY <1>1, <1>2, <2>1, <2>2, SetWithin
  <2>4. QED BY <1>5, <2>3 DEF F, D
<1>10. CASE ~(s # "kLogX" /\ x = Register(kScale) /\ v = Scale)
  <2>1. \A m \in 1 .. n : ~Sets(D[m], x)
    BY <1>6, <1>8, <1>10
  <2>2. \A now : WillHold(F, Len(F), x, now, v)
    BY <1>1, <1>10, Sizes
  <2>3. n \in 0 .. Len(D)
    BY <1>2
  <2>4. \A now : WillHold(F \o D, Len(F) + n, x, now, v)
    BY <1>1, <1>2, <2>1, <2>2, <2>3, Through
  <2>5. QED BY <1>5, <2>4 DEF F, D
<1>11. QED BY <1>9, <1>10

\* The quads of VshRunRawProbes, with c[190] loaded before each if it is used.
RawQuads(call) ==
    IF call.shader \in {"kLogDenormalConst", "kMulDenormalConst"}
    THEN [m \in 1 .. 2 * Len(call.inputs) |->
             LET k == (m + 1) \div 2
             IN  IF m % 2 = 1 THEN LoadConstant(kBits, Bits(call.inputs[k])) ELSE Quad(k, 0)]
    ELSE [k \in 1 .. Len(call.inputs) |-> Quad(k, call.inputs[k])]

\* The quads of VshRunRawProbes: between the quad that makes a result and the
\* bits it reads no other load comes.
LEMMA RawQuadsMake ==
  ASSUME NEW call, IsRaw(call), NEW k \in 1 .. Len(call.inputs)
  PROVE  /\ IsSequence(RawQuads(call))
         /\ \A m \in 1 .. Len(RawQuads(call)) :
               /\ ~Sets(RawQuads(call)[m], ShaderCell)
               /\ \A i \in Registers : i # kBits => ~Sets(RawQuads(call)[m], Register(i))
         /\ \E n \in 1 .. Len(RawQuads(call)) :
               /\ RawQuads(call)[n] = Maker(call, k)
               /\ \A m \in 1 .. Len(RawQuads(call)) : m # n => ~Sets(RawQuads(call)[m], PixelAt(PositionOf(k)))
               /\ UsesBits(call) => /\ n - 1 \in 1 .. Len(RawQuads(call))
                                    /\ SetsTo(RawQuads(call)[n - 1], Register(kBits), Bits(call.inputs[k]))
<1> DEFINE N == Len(call.inputs)
           D == RawQuads(call)
<1>1. N \in 1 .. 3 /\ call.op = "raw"
  BY DEF IsRaw
<1>2. kBits \in Int /\ Registers \subseteq Int
  BY Sizes
<1>3. \A m \in 1 .. N : m # k => PositionOf(k) # PositionOf(m)
  <2>1. k \in 1 .. N
    OBVIOUS
  <2> HIDE DEF N
  <2>2. k \in 1 .. 3 /\ \A m \in 1 .. N : m \in 1 .. 3
    BY <1>1, <2>1
  <2>3. QED BY <2>2, Apart
<1>4. CASE UsesBits(call)
  <2>1. D = [m \in 1 .. 2 * N |-> LET p == (m + 1) \div 2
                                  IN  IF m % 2 = 1 THEN LoadConstant(kBits, Bits(call.inputs[p])) ELSE Quad(p, 0)]
    BY <1>4 DEF RawQuads, UsesBits
  <2>2. \A m \in 1 .. 2 * N : \/ \E p \in 1 .. N : m = 2 * p /\ D[m] = Quad(p, 0)
                              \/ \E v : D[m] = LoadConstant(kBits, v)
    <3> SUFFICES ASSUME NEW m \in 1 .. 2 * N
                 PROVE  \/ \E p \in 1 .. N : m = 2 * p /\ D[m] = Quad(p, 0)
                        \/ \E v : D[m] = LoadConstant(kBits, v)
      OBVIOUS
    <3> DEFINE p == (m + 1) \div 2
    <3>1. D[m] = IF m % 2 = 1 THEN LoadConstant(kBits, Bits(call.inputs[p])) ELSE Quad(p, 0)
      BY <2>1
    <3>2. m % 2 # 1 => p \in 1 .. N /\ m = 2 * p
      BY <1>1
    <3> HIDE DEF p, D
    <3>3. QED BY <3>1, <3>2
  <2>3. 2 * k \in 1 .. 2 * N /\ D[2 * k] = Quad(k, 0)
    <3>1. 2 * k \in 1 .. 2 * N /\ (2 * k) % 2 = 0 /\ (2 * k + 1) \div 2 = k
      BY <1>1
    <3>2. QED BY <2>1, <3>1
  <2>4. 2 * k - 1 \in 1 .. 2 * N /\ D[2 * k - 1] = LoadConstant(kBits, Bits(call.inputs[k]))
    <3>1. 2 * k - 1 \in 1 .. 2 * N /\ (2 * k - 1) % 2 = 1 /\ ((2 * k - 1) + 1) \div 2 = k
      BY <1>1
    <3>2. QED BY <2>1, <3>1
  <2>5. IsSequence(D) /\ Len(D) = 2 * N
    <3>1. 2 * N \in Nat /\ D = [m \in 1 .. 2 * N |-> D[m]]
      BY <1>1, <2>1
    <3> HIDE DEF D, N
    <3>2. QED BY <3>1, Listed
  <2>6. Maker(call, k) = Quad(k, 0)
    BY <1>1, <1>4 DEF Maker, ByQuads
  <2> HIDE DEF D, N
  <2>7. \A m \in 1 .. Len(D) : /\ ~Sets(D[m], ShaderCell)
                               /\ \A i \in Registers : i # kBits => ~Sets(D[m], Register(i))
    BY <1>2, <2>2, <2>5, LoadSets, QuadSets
  <2>8. \A m \in 1 .. Len(D) : m # 2 * k => ~Sets(D[m], PixelAt(PositionOf(k)))
    <3> SUFFICES ASSUME NEW m \in 1 .. 2 * N, m # 2 * k PROVE ~Sets(D[m], PixelAt(PositionOf(k)))
      BY <2>5
    <3>1. CASE \E p \in 1 .. N : m = 2 * p /\ D[m] = Quad(p, 0)
      <4>1. PICK p \in 1 .. N : m = 2 * p /\ D[m] = Quad(p, 0)
        BY <3>1
      <4>2. p # k
        BY <4>1
      <4>3. QED BY <1>3, <4>1, <4>2, QuadSets
    <3>2. CASE \E v : D[m] = LoadConstant(kBits, v)
      BY <1>2, <3>2, LoadSets
    <3>3. QED BY <2>2, <3>1, <3>2
  <2>9. SetsTo(D[2 * k - 1], Register(kBits), Bits(call.inputs[k]))
    BY <1>2, <2>4, LoadSets
  <2>10. QED BY <2>3, <2>4, <2>5, <2>6, <2>7, <2>8, <2>9 DEF D
<1>5. CASE ~UsesBits(call)
  <2>1. D = [p \in 1 .. N |-> Quad(p, call.inputs[p])]
    BY <1>1, <1>5 DEF RawQuads, UsesBits
  <2>2. \A m \in 1 .. N : D[m] = Quad(m, call.inputs[m])
    BY <2>1
  <2>3. IsSequence(D) /\ Len(D) = N
    <3>1. N \in Nat /\ D = [m \in 1 .. N |-> D[m]]
      BY <1>1, <2>1
    <3> HIDE DEF D, N
    <3>2. QED BY <3>1, Listed
  <2>4. Maker(call, k) = Quad(k, call.inputs[k])
    BY <1>1, <1>5 DEF Maker, ByQuads
  <2>5. k \in 1 .. N
    OBVIOUS
  <2> HIDE DEF D, N
  <2>6. \A m \in 1 .. N : ~Sets(D[m], ShaderCell) /\ \A i : ~Sets(D[m], Register(i))
    BY <2>2, QuadSets
  <2>7. \A m \in 1 .. N : m # k => ~Sets(D[m], PixelAt(PositionOf(k)))
    BY <1>3, <2>2, QuadSets
  <2>8. QED BY <1>5, <2>2, <2>3, <2>4, <2>5, <2>6, <2>7 DEF D
<1>6. QED BY <1>4, <1>5

\* VshRunRawProbes: each quad finds its own bits, the scale and a black pixel.
LEMMA RawWillMake ==
  ASSUME NEW call, IsRaw(call)
  PROVE  WillMake(call)
<1> DEFINE s == call.shader
           E == IF s = "kLogX" THEN <<>> ELSE <<LoadConstant(kScale, Scale)>>
           F == Uploaded(s) \o E
           D == RawQuads(call)
           N == Len(call.inputs)
<1>1. call.op = "raw" /\ N \in 1 .. 3
  BY DEF IsRaw
<1>2. Commands(call) = F \o D
  BY <1>1 DEF Commands, RawCommands, Uploaded, RawQuads
<1>3. /\ IsSequence(F)
      /\ \A now : WillHold(F, Len(F), ShaderCell, now, s)
      /\ \A now, p : WillHold(F, Len(F), PixelAt(p), now, Black)
      /\ s = "kLogX" => \A now : WillHold(F, Len(F), Register(0), now, Probe(0))
      /\ s # "kLogX" => \A now : WillHold(F, Len(F), Register(kScale), now, Scale)
  BY ScaleLoaded
<1>4. /\ kBits \in Registers /\ kScale \in Registers /\ 0 \in Registers /\ kScale # kBits /\ 0 # kBits
  BY Sizes DEF kBits
<1> HIDE DEF E, F
<1>5. \A k : /\ Place(call, k) = PixelAt(PositionOf(k)) /\ Untouched(call) = Black
             /\ \A need \in Reads(call, k) :
                   \/ s = "kLogX" /\ need[1] = Register(0) /\ need[2] = Probe(0)
                   \/ s # "kLogX" /\ need[1] = Register(kScale) /\ need[2] = Scale
                   \/ UsesBits(call) /\ need[1] = Register(kBits) /\ need[2] = Bits(call.inputs[k])
  BY <1>1 DEF Place, Untouched, Reads, ByQuads
<1>6. Count(call) = N
  BY <1>1 DEF Count, ByQuads
<1>7. ASSUME NEW k \in 1 .. N
      PROVE  IsSequence(D) /\ \E j \in 1 .. Len(F \o D) : Awaited(call, k, F \o D, j)
  <2>1. /\ IsSequence(D)
        /\ \A m \in 1 .. Len(D) :
              /\ ~Sets(D[m], ShaderCell)
              /\ \A i \in Registers : i # kBits => ~Sets(D[m], Register(i))
        /\ \E n \in 1 .. Len(D) :
              /\ D[n] = Maker(call, k)
              /\ \A m \in 1 .. Len(D) : m # n => ~Sets(D[m], PixelAt(PositionOf(k)))
              /\ UsesBits(call) => /\ n - 1 \in 1 .. Len(D)
                                   /\ SetsTo(D[n - 1], Register(kBits), Bits(call.inputs[k]))
    BY RawQuadsMake
  <2> HIDE DEF D
  <2>2. PICK n \in 1 .. Len(D) :
              /\ D[n] = Maker(call, k)
              /\ \A m \in 1 .. Len(D) : m # n => ~Sets(D[m], PixelAt(PositionOf(k)))
              /\ UsesBits(call) => /\ n - 1 \in 1 .. Len(D)
                                   /\ SetsTo(D[n - 1], Register(kBits), Bits(call.inputs[k]))
    BY <2>1
  <2>3. Len(D) \in Nat /\ n - 1 \in 0 .. Len(D) /\ \A m \in 1 .. n - 1 : m \in 1 .. Len(D)
    <3>1. Len(D) \in Nat
      BY <2>1, InTwo
    <3>2. QED BY <3>1
  <2>4. ASSUME NEW i \in Registers, i # kBits, NEW v, \A now : WillHold(F, Len(F), Register(i), now, v)
        PROVE  \A now : WillHold(F \o D, Len(F) + (n - 1), Register(i), now, v)
    <3>1. \A m \in 1 .. n - 1 : ~Sets(D[m], Register(i))
      BY <2>1, <2>3, <2>4
    <3>2. QED BY <1>3, <2>1, <2>3, <2>4, <3>1, Through
  <2>5. ASSUME UsesBits(call)
        PROVE  \A now : WillHold(F \o D, Len(F) + (n - 1), Register(kBits), now, Bits(call.inputs[k]))
    <3>1. n - 1 \in 1 .. n - 1 /\ \A m \in (n - 1) + 1 .. n - 1 : ~Sets(D[m], Register(kBits))
      BY <2>2, <2>3, <2>5
    <3>2. SetsTo(D[n - 1], Register(kBits), Bits(call.inputs[k]))
      BY <2>2, <2>5
    <3>3. QED BY <1>3, <2>1, <2>3, <3>1, <3>2, SetWithin
  <2>6. \A need \in Reads(call, k) : \A now : WillHold(F \o D, Len(F) + (n - 1), need[1], now, need[2])
    BY <1>3, <1>4, <1>5, <2>4, <2>5
  <2>7. \A now : WillHold(F, Len(F), Place(call, k), now, Untouched(call))
    BY <1>3, <1>5
  <2>8. \A m \in 1 .. n - 1 : ~Sets(D[m], ShaderCell)
    BY <2>1, <2>3
  <2>9. \A m \in 1 .. Len(D) : m # n => ~Sets(D[m], Place(call, k))
    BY <1>5, <2>2
  <2>10. QED BY <1>3, <2>1, <2>2, <2>6, <2>7, <2>8, <2>9, MakerAwaited
<1>8. IsSequence(F \o D)
  <2> HIDE DEF N
  <2>1. 1 \in 1 .. N
    BY <1>1
  <2>2. IsSequence(D)
    BY <1>7, <2>1
  <2> HIDE DEF D
  <2>3. QED BY <1>3, <2>2, InTwo
<1> HIDE DEF D
<1>9. QED BY <1>2, <1>6, <1>7, <1>8 DEF WillMake

\* RunCompute, with inputs that do not overlap the outputs.
LEMMA ComputeWillMake ==
  ASSUME NEW call, call.op \in {"rounding", "array"}, NEW inputs, IsSequence(inputs),
         Commands(call) = ComputeCommands(call.shader, inputs, OutputCount(call.shader)),
         \A m \in 1 .. Len(inputs) : \E i \in 0 .. kFirstOutput - 1 : \E v : inputs[m] = LoadConstant(i, v),
         \A k : \A need \in Reads(call, k) : \E m \in 1 .. Len(inputs), i \in 0 .. kFirstOutput - 1 :
             /\ need[1] = Register(i) /\ inputs[m] = LoadConstant(i, need[2])
             /\ \A l \in m + 1 .. Len(inputs) : ~Sets(inputs[l], Register(i))
  PROVE  WillMake(call)
<1> DEFINE s == call.shader
           N == OutputCount(s)
           E == Prepare(s) \o inputs
           T == Sentinels(N)
           F == E \o T
           D == <<Draw>>
<1>1. N \in 1 .. kBinaryOutputs /\ kBinaryOutputs \in Nat /\ kFirstOutput \in Nat
  BY Counts, Sizes
<1>2. Commands(call) = F \o D
  BY DEF ComputeCommands
<1>3. \A k : /\ Place(call, k) = Register(kFirstOutput + k - 1) /\ Untouched(call) = Vector(All(Sentinel))
             /\ Maker(call, k) = Draw
  BY DEF Place, Untouched, Maker, ByQuads
<1>4. Count(call) = N
  BY DEF Count, ByQuads
<1>5. /\ IsSequence(T) /\ Len(T) = N
      /\ \A k \in 1 .. N : T[k] = LoadConstant(kFirstOutput + k - 1, Vector(All(Sentinel)))
  <2>1. N \in Nat /\ T = [k \in 1 .. N |-> T[k]]
    BY <1>1 DEF Sentinels
  <2>2. \A k \in 1 .. N : T[k] = LoadConstant(kFirstOutput + k - 1, Vector(All(Sentinel)))
    BY DEF Sentinels
  <2> HIDE DEF T, N
  <2>3. QED BY <2>1, <2>2, Listed
<1>6. IsSequence(D) /\ Len(D) = 1 /\ D[1] = Draw
  <2>1. D \in Seq({Draw}) /\ Len(D) = 1 /\ D[1] = Draw
    OBVIOUS
  <2> HIDE DEF D
  <2>2. QED BY <2>1 DEF IsSequence
<1>7. /\ IsSequence(Prepare(s)) /\ Len(Prepare(s)) = 2
      /\ \A now : WillHold(Prepare(s), Len(Prepare(s)), ShaderCell, now, s)
  BY Prepared
<1>8. /\ IsSequence(E) /\ Len(E) = Len(Prepare(s)) + Len(inputs)
      /\ Len(inputs) \in Nat /\ Len(inputs) \in 0 .. Len(inputs)
  <2>1. IsSequence(E) /\ Len(E) = Len(Prepare(s)) + Len(inputs) /\ Len(inputs) \in Nat
    BY <1>7, InTwo
  <2>2. QED BY <2>1
<1>9. \A now : WillHold(E, Len(E), ShaderCell, now, s)
  <2>1. \A m \in 1 .. Len(inputs) : ~Sets(inputs[m], ShaderCell)
    BY <1>1, LoadSets
  <2>2. QED BY <1>7, <1>8, <2>1, Through
<1>10. ASSUME NEW k, NEW need \in Reads(call, k)
       PROVE  \E i \in 0 .. kFirstOutput - 1 :
                  need[1] = Register(i) /\ \A now : WillHold(E, Len(E), Register(i), now, need[2])
  <2>1. PICK m \in 1 .. Len(inputs), i \in 0 .. kFirstOutput - 1 :
            /\ need[1] = Register(i) /\ inputs[m] = LoadConstant(i, need[2])
            /\ \A l \in m + 1 .. Len(inputs) : ~Sets(inputs[l], Register(i))
    BY <1>10
  <2>2. SetsTo(inputs[m], Register(i), need[2])
    BY <1>1, <2>1, LoadSets
  <2>3. \A now : WillHold(E, Len(E), Register(i), now, need[2])
    BY <1>7, <1>8, <2>1, <2>2, SetWithin
  <2>4. QED BY <2>1, <2>3
<1> HIDE DEF E, T, D, N
<1>11. IsSequence(F) /\ Len(F) = Len(E) + N /\ N \in 0 .. Len(T)
  <2>1. IsSequence(F) /\ Len(F) = Len(E) + Len(T)
    BY <1>5, <1>8, InTwo
  <2>2. QED BY <1>1, <1>5, <2>1
<1>12. \A now : WillHold(F, Len(F), ShaderCell, now, s)
  <2>1. \A m \in 1 .. N : ~Sets(T[m], ShaderCell)
    BY <1>1, <1>5, LoadSets
  <2>2. QED BY <1>5, <1>8, <1>9, <1>11, <2>1, Through
<1>13. ASSUME NEW k, NEW need \in Reads(call, k)
       PROVE  \E i \in 0 .. kFirstOutput - 1 :
                  need[1] = Register(i) /\ \A now : WillHold(F, Len(F), Register(i), now, need[2])
  <2>1. PICK i \in 0 .. kFirstOutput - 1 :
            need[1] = Register(i) /\ \A now : WillHold(E, Len(E), Register(i), now, need[2])
    BY <1>10, <1>13
  <2>2. \A m \in 1 .. N : kFirstOutput + m - 1 \in Int /\ i # kFirstOutput + m - 1
    BY <1>1
  <2>3. \A m \in 1 .. N : ~Sets(T[m], Register(i))
    BY <1>5, <2>2, LoadSets
  <2>4. ASSUME NEW now PROVE WillHold(F, Len(E) + N, Register(i), now, need[2])
    <3>1. WillHold(E, Len(E), Register(i), now, need[2])
      BY <2>1
    <3>2. QED BY <1>5, <1>8, <1>11, <2>3, <3>1, Through
  <2>5. QED BY <1>11, <2>1, <2>4
<1>14. ASSUME NEW k \in 1 .. N
       PROVE  \A now : WillHold(F, Len(F), Place(call, k), now, Untouched(call))
  <2> DEFINE i == kFirstOutput + k - 1
  <2>1. i \in Int /\ T[k] = LoadConstant(i, Untouched(call)) /\ Place(call, k) = Register(i)
    BY <1>1, <1>3, <1>5
  <2>2. \A m \in k + 1 .. N : m \in 1 .. N /\ kFirstOutput + m - 1 \in Int /\ i # kFirstOutput + m - 1
    BY <1>1
  <2> HIDE DEF i
  <2>3. \A m \in k + 1 .. N : ~Sets(T[m], Register(i))
    BY <1>5, <2>1, <2>2, LoadSets
  <2>4. SetsTo(T[k], Register(i), Untouched(call))
    BY <2>1, LoadSets
  <2>5. QED BY <1>5, <1>8, <1>11, <2>1, <2>3, <2>4, SetWithin
<1> HIDE DEF F
<1>15. ASSUME NEW k \in 1 .. N
       PROVE  \E j \in 1 .. Len(F \o D) : Awaited(call, k, F \o D, j)
  <2>1. 1 \in 1 .. Len(D) /\ 1 - 1 \in 0 .. Len(D) /\ D[1] = Maker(call, k)
    BY <1>3, <1>6
  <2>2. /\ \A m \in 1 .. 1 - 1 : FALSE
        /\ \A m \in 1 .. Len(D) : m = 1
    BY <1>6
  <2>3. \A need \in Reads(call, k) : \A now : WillHold(F \o D, Len(F) + (1 - 1), need[1], now, need[2])
    <3> SUFFICES ASSUME NEW need \in Reads(call, k), NEW now
                 PROVE  WillHold(F \o D, Len(F) + (1 - 1), need[1], now, need[2])
      OBVIOUS
    <3>1. WillHold(F, Len(F), need[1], now, need[2])
      BY <1>13
    <3>2. \A m \in 1 .. 1 - 1 : ~Sets(D[m], need[1])
      BY <2>2
    <3>3. QED BY <1>6, <1>11, <2>1, <3>1, <3>2, Through
  <2>4. \A now : WillHold(F, Len(F), Place(call, k), now, Untouched(call))
    BY <1>14
  <2>5. /\ \A m \in 1 .. 1 - 1 : ~Sets(D[m], ShaderCell)
        /\ \A m \in 1 .. Len(D) : m # 1 => ~Sets(D[m], Place(call, k))
    BY <2>2
  <2>6. QED BY <1>6, <1>11, <1>12, <2>1, <2>3, <2>4, <2>5, MakerAwaited
<1>16. IsSequence(F \o D)
  BY <1>6, <1>11, InTwo
<1>17. QED BY <1>2, <1>4, <1>15, <1>16 DEF WillMake

\* RunCompute for the arrays: the draw finds what it reads in c[0].
LEMMA ArrayWillMake ==
  ASSUME NEW call, IsArray(call)
  PROVE  WillMake(call)
<1> DEFINE c == LoadConstant(0, Bits(1))
           inputs == <<c>>
<1>1. call.op = "array" /\ call.shader = "kRugbyProjection"
  BY DEF IsArray
<1>2. Commands(call) = ComputeCommands(call.shader, inputs, OutputCount(call.shader))
  BY <1>1 DEF Commands, OutputCount
<1>3. \A k : Reads(call, k) = {<<Register(0), Bits(1)>>}
  BY <1>1 DEF Reads
<1>4. 0 \in 0 .. kFirstOutput - 1
  BY Sizes
<1>5. c = LoadConstant(0, Bits(1))
  OBVIOUS
<1> HIDE DEF c
<1>6. inputs \in Seq({c}) /\ Len(inputs) = 1 /\ inputs[1] = c
  OBVIOUS
<1> HIDE DEF inputs
<1>7. IsSequence(inputs)
  BY <1>6 DEF IsSequence
<1>8. \A m \in 1 .. Len(inputs) : \E i \in 0 .. kFirstOutput - 1 : \E v : inputs[m] = LoadConstant(i, v)
  BY <1>4, <1>5, <1>6
<1>9. ASSUME NEW k, NEW need \in Reads(call, k)
      PROVE  \E m \in 1 .. Len(inputs), i \in 0 .. kFirstOutput - 1 :
                 /\ need[1] = Register(i) /\ inputs[m] = LoadConstant(i, need[2])
                 /\ \A l \in m + 1 .. Len(inputs) : ~Sets(inputs[l], Register(i))
  <2>1. need[1] = Register(0) /\ need[2] = Bits(1)
    BY <1>3
  <2>2. 1 \in 1 .. Len(inputs) /\ \A l \in 1 + 1 .. Len(inputs) : FALSE
    BY <1>6
  <2>3. QED BY <1>4, <1>5, <1>6, <2>1, <2>2
<1>10. QED BY <1>1, <1>2, <1>7, <1>8, <1>9, ComputeWillMake

\* How many operands and vectors a rounding call has.
LEMMA Layout ==
  ASSUME NEW s
  PROVE  /\ Len(OperandNames(s)) \in {2, 3} /\ DOMAIN OperandNames(s) = 1 .. Len(OperandNames(s))
         /\ Vectors(s) \in Nat /\ Len(OperandNames(s)) * Vectors(s) \in Nat
         /\ Len(OperandNames(s)) * Vectors(s) + 1 < kFirstOutput
<1>1. /\ Len(<<"a", "b", "c">>) = 3 /\ DOMAIN <<"a", "b", "c">> = 1 .. 3
      /\ Len(<<"a", "b">>) = 2 /\ DOMAIN <<"a", "b">> = 1 .. 2
  OBVIOUS
<1>2. /\ s = "kRoundMad" => Len(OperandNames(s)) = 3 /\ DOMAIN OperandNames(s) = 1 .. 3
      /\ s # "kRoundMad" => Len(OperandNames(s)) = 2 /\ DOMAIN OperandNames(s) = 1 .. 2
  BY <1>1 DEF OperandNames
<1>3. /\ s = "kRoundDot" => Vectors(s) = Width
      /\ s # "kRoundDot" => Vectors(s) = kBinaryOutputs
  BY DEF Vectors
<1> DEFINE L == Len(OperandNames(s))
           V == Vectors(s)
<1>4. /\ L \in {2, 3} /\ DOMAIN OperandNames(s) = 1 .. L
      /\ (L = 3 /\ V = kBinaryOutputs) \/ (L = 2 /\ (V = kBinaryOutputs \/ V = Width))
  BY <1>2, <1>3
<1> HIDE DEF L, V
<1>5. V \in Nat /\ L * V \in Nat /\ L * V + 1 < kFirstOutput
  <2>1. /\ kBinaryOutputs \in Nat /\ Width \in Nat /\ kFirstOutput \in Nat
        /\ kFirstOutput >= 2 + 3 * kBinaryOutputs /\ kFirstOutput >= 2 + 2 * Width
    BY Sizes
  <2>2. CASE L = 3 /\ V = kBinaryOutputs
    BY <2>1, <2>2
  <2>3. CASE L = 2 /\ (V = kBinaryOutputs \/ V = Width)
    BY <2>1, <2>3
  <2>4. QED BY <1>4, <2>2, <2>3
<1>6. QED BY <1>4, <1>5 DEF L, V

\* RunCompute for a rounding test: no operand is written over another, nor
\* over an output.
LEMMA RoundingWillMake ==
  ASSUME NEW call, IsRounding(call)
  PROVE  WillMake(call)
<1> DEFINE s == call.shader
           inputs == RoundingInputs(s)
           L == Len(OperandNames(s))
           N == L * Vectors(s)
           At2(m) == LoadConstant(InputOf(s, (m - 1) \div L, 1 + ((m - 1) % L)),
                                  Operands(s, (m - 1) \div L, 1 + ((m - 1) % L)))
<1>1. call.op = "rounding"
  BY DEF IsRounding
<1>2. Commands(call) = ComputeCommands(s, inputs, OutputCount(s))
  BY <1>1 DEF Commands
<1>3. /\ L \in {2, 3} /\ DOMAIN OperandNames(s) = 1 .. L /\ Vectors(s) \in Nat
      /\ N \in Nat /\ N + 1 < kFirstOutput /\ kFirstOutput \in Nat
  BY Layout, Sizes
<1>4. IsSequence(inputs) /\ Len(inputs) = N /\ \A m \in 1 .. N : inputs[m] = At2(m)
  <2>1. inputs = [m \in 1 .. N |-> At2(m)]
    BY DEF RoundingInputs
  <2>2. inputs = [m \in 1 .. N |-> inputs[m]] /\ \A m \in 1 .. N : inputs[m] = At2(m)
    BY <2>1
  <2> HIDE DEF inputs, N, At2
  <2>3. QED BY <1>3, <2>2, Listed
<1>5. \A v \in Int, n \in Int : InputOf(s, v, n) = 2 + L * v + n - 1
  BY Sizes DEF InputOf
<1>6. \A k : Reads(call, k) = {<<Register(InputOf(s, v, n)), Operands(s, v, n)>> :
                                  v \in 0 .. Vectors(s) - 1, n \in DOMAIN OperandNames(s)}
  BY <1>1 DEF Reads
<1> HIDE DEF inputs, L
<1>7. \A m \in 1 .. N : InputOf(s, (m - 1) \div L, 1 + ((m - 1) % L)) = m + 1
  <2> SUFFICES ASSUME NEW m \in 1 .. N PROVE InputOf(s, (m - 1) \div L, 1 + ((m - 1) % L)) = m + 1
    OBVIOUS
  <2>1. (m - 1) \div L \in Int /\ (m - 1) % L \in Int /\ m - 1 = L * ((m - 1) \div L) + ((m - 1) % L)
    BY <1>3
  <2>2. 1 + ((m - 1) % L) \in Int
    BY <2>1
  <2>3. InputOf(s, (m - 1) \div L, 1 + ((m - 1) % L)) = 2 + L * ((m - 1) \div L) + (1 + ((m - 1) % L)) - 1
    BY <1>5, <2>1, <2>2
  <2>4. L * ((m - 1) \div L) \in Int
    BY <1>3, <2>1
  <2> DEFINE a == L * ((m - 1) \div L)
             b == (m - 1) % L
  <2>5. a \in Int /\ b \in Int /\ m - 1 = a + b
    BY <2>1, <2>4
  <2>6. InputOf(s, (m - 1) \div L, 1 + ((m - 1) % L)) = 2 + a + (1 + b) - 1
    BY <2>3
  <2> HIDE DEF a, b
  <2>7. 2 + a + (1 + b) - 1 = m + 1
    BY <2>5
  <2>8. QED BY <2>6, <2>7
<1>8. \A m \in 1 .. N : m + 1 \in 0 .. kFirstOutput - 1 /\ \E v : inputs[m] = LoadConstant(m + 1, v)
  BY <1>3, <1>4, <1>7
<1>9. ASSUME NEW k, NEW need \in Reads(call, k)
      PROVE  \E m \in 1 .. Len(inputs), i \in 0 .. kFirstOutput - 1 :
                 /\ need[1] = Register(i) /\ inputs[m] = LoadConstant(i, need[2])
                 /\ \A l \in m + 1 .. Len(inputs) : ~Sets(inputs[l], Register(i))
  <2>1. PICK v \in 0 .. Vectors(s) - 1, n \in 1 .. L :
            need = <<Register(InputOf(s, v, n)), Operands(s, v, n)>>
    BY <1>3, <1>6
  <2> DEFINE m == L * v + n
  <2>2. m \in 1 .. N /\ (m - 1) \div L = v /\ 1 + ((m - 1) % L) = n
    BY <1>3
  <2>3. inputs[m] = LoadConstant(InputOf(s, v, n), Operands(s, v, n)) /\ InputOf(s, v, n) = m + 1
    BY <1>4, <1>7, <2>2
  <2> HIDE DEF m
  <2>4. need[1] = Register(m + 1) /\ need[2] = Operands(s, v, n) /\ m + 1 \in 0 .. kFirstOutput - 1
    BY <1>8, <2>1, <2>2, <2>3
  <2>5. \A l \in m + 1 .. Len(inputs) : ~Sets(inputs[l], Register(m + 1))
    <3>1. \A l \in m + 1 .. N : l \in 1 .. N /\ l + 1 \in Int /\ m + 1 \in Int /\ m + 1 # l + 1
      BY <1>3, <2>2
    <3>2. QED BY <1>4, <1>8, <3>1, LoadSets
  <2>6. inputs[m] = LoadConstant(m + 1, need[2])
    BY <2>3, <2>4
  <2>7. QED BY <1>4, <2>2, <2>4, <2>5, <2>6
<1>10. \A m \in 1 .. Len(inputs) : \E i \in 0 .. kFirstOutput - 1 : \E v : inputs[m] = LoadConstant(i, v)
  BY <1>4, <1>8
<1>11. call.op \in {"rounding", "array"} /\ IsSequence(inputs)
  BY <1>1, <1>4
<1> HIDE DEF N, At2
<1>12. QED BY <1>2, <1>9, <1>10, <1>11, ComputeWillMake

\* Whatever the call.
LEMMA CallsWillMake ==
  ASSUME NEW call, IsCall(call)
  PROVE  WillMake(call)
BY ProbesWillMake, RawWillMake, RoundingWillMake, ArrayWillMake DEF IsCall

-----------------------------------------------------------------------------
(* What the shaders make of what they read *)

\* A read relative to A0, of the constants of UploadProbeConstants.
LEMMA ProbesShade ==
  ASSUME NEW call, IsProbes(call), NEW k \in 1 .. Len(call.inputs), shader = call.shader,
         \A i \in Registers : constants[i] = Probe(i)
  PROVE  Shade(call.inputs[k]) \subseteq Makes(call, k)
<1> DEFINE a == call.inputs[k]
           o == call.offset
           e == a + o
           short == IF e < 2 THEN 0 ELSE e - 2
<1>1. /\ a \in Int /\ o \in Int /\ e \in Int /\ call.op = "probes"
      /\ (call.shader = "kOffset0" /\ o = 0) \/ (call.shader = "kOffset191" /\ o = kVshConstantCount - 1)
  BY Sizes DEF IsProbes
<1>2. Shade(a) = Relative(a, o)
  BY <1>1 DEF Shade
<1>3. Makes(call, k) = ReadByA0(call, k)
  BY <1>1 DEF Makes
<1>4. \A i \in Registers : Pixel(constants[i]) = Probe(i)
  BY DEF Pixel, Probe
<1>5. 0 \in Registers /\ o \in Registers
  BY <1>1, Sizes DEF Registers
<1>6. e \in Registers => short \in Registers
  BY <1>1, Sizes DEF Registers
<1>7. CASE e \notin Registers /\ fault \notin {"zeros", "base"}
  <2>1. Relative(a, o) = {Black, Pixel(constants[0])} /\ ReadByA0(call, k) = {Black, Probe(0)}
    BY <1>7 DEF Relative, ReadByA0
  <2>2. QED BY <1>2, <1>3, <1>4, <1>5, <2>1
<1>8. CASE fault = "zeros"
  <2>1. Relative(a, o) = {Black} /\ ReadByA0(call, k) = {Black}
    BY <1>8 DEF Relative, ReadByA0
  <2>2. QED BY <1>2, <1>3, <2>1
<1>9. CASE fault = "base"
  <2>1. Relative(a, o) = {Pixel(constants[o])} /\ ReadByA0(call, k) = {Probe(o)}
    BY <1>9 DEF Relative, ReadByA0
  <2>2. QED BY <1>2, <1>3, <1>4, <1>5, <2>1
<1>10. CASE e \in Registers /\ fault = "short"
  <2>1. Relative(a, o) = {Pixel(constants[short])} /\ ReadByA0(call, k) = {Probe(short)}
    BY <1>10 DEF Relative, ReadByA0
  <2>2. QED BY <1>2, <1>3, <1>4, <1>6, <1>10, <2>1
<1>11. CASE e \in Registers /\ fault \notin {"zeros", "base", "short"}
  <2>1. Relative(a, o) = {Pixel(constants[e])} /\ ReadByA0(call, k) = {Probe(e)}
    BY <1>11 DEF Relative, ReadByA0
  <2>2. QED BY <1>2, <1>3, <1>4, <1>11, <2>1
<1>12. QED BY <1>7, <1>8, <1>9, <1>10, <1>11

\* LOG and MUL of the input, in the attribute or in c[190].
LEMMA RawShade ==
  ASSUME NEW call, IsRaw(call), NEW k \in 1 .. Len(call.inputs), shader = call.shader,
         call.shader = "kLogX" => constants[0] = Probe(0),
         call.shader # "kLogX" => constants[kScale] = Scale,
         UsesBits(call) => constants[kBits] = Bits(call.inputs[k])
  PROVE  Shade(IF UsesBits(call) THEN 0 ELSE call.inputs[k]) \subseteq Makes(call, k)
<1>1. Makes(call, k) = {Bits(call.inputs[k])} /\ call.op = "raw"
  BY DEF Makes, IsRaw
<1>2. UsesBits(call) <=> call.shader \in {"kLogDenormalConst", "kMulDenormalConst"}
  BY <1>1 DEF UsesBits
<1>3. CASE call.shader \in {"kLogDenormalConst", "kMulDenormalConst"}
  BY <1>1, <1>2, <1>3 DEF Shade
<1>4. CASE call.shader \in {"kLogX", "kLogDenormalAttr", "kMulDenormalAttr"}
  BY <1>1, <1>2, <1>4 DEF Shade
<1>5. QED BY <1>3, <1>4 DEF IsRaw

\* The case whose operands component j of vector v is for, and that vector v has been loaded.
CaseHeld(v, j) == IF CaseAt(shader, v, j) \in 1 .. Batch THEN first + CaseAt(shader, v, j) ELSE 0
VectorLoaded(v) ==
    \A n \in DOMAIN OperandNames(shader) : constants[InputOf(shader, v, n)] = Operands(shader, v, n)

\* A rounding shader finds in each component the operands of one case.
LEMMA OneCase ==
  ASSUME NEW v, VectorLoaded(v), NEW js, NEW i \in js, js \subseteq 1 .. Width, NEW c,
         \A j \in js : CaseHeld(v, j) = c
  PROVE  Combined(v, js) = <<c, shader>>
<1> DEFINE names == OperandNames(shader)
           x(n) == constants[kFirstInput + Len(names) * v + n - 1]
           CaseIn(n, j) == IF Components(x(n))[j][2] \in {names[n], "zero"} THEN Components(x(n))[j][1] ELSE -1
           cases == {CaseIn(n, j) : n \in DOMAIN names, j \in js}
<1>1. Combined(v, js) =
        IF \E d \in cases : cases = {d} THEN <<CHOOSE d \in cases : TRUE, shader>> ELSE <<0, "mixed">>
  BY DEF Combined
<1>2. ASSUME NEW n \in DOMAIN names, NEW j \in js PROVE CaseIn(n, j) = c
  <2> DEFINE k == CaseAt(shader, v, j)
             y == IF k \in 1 .. Batch THEN <<first + k, names[n]>> ELSE Zero
  <2>1. x(n) = Operands(shader, v, n)
    BY <1>2 DEF InputOf, VectorLoaded
  <2>2. Components(x(n)) = [l \in 1 .. Width |-> LET m == CaseAt(shader, v, l)
                                                 IN  IF m \in 1 .. Batch THEN <<first + m, names[n]>> ELSE Zero]
    BY <2>1 DEF Operands, Components, Vector
  <2>3. Components(x(n))[j] = y
    BY <1>2, <2>2
  <2>4. c = IF k \in 1 .. Batch THEN first + k ELSE 0
    BY <1>2 DEF CaseHeld
  <2> HIDE DEF k, x
  <2>5. y[1] = c /\ y[2] \in {names[n], "zero"}
    BY <2>4 DEF Zero
  <2> HIDE DEF y
  <2>6. QED BY <2>3, <2>5
<1> HIDE DEF CaseIn
<1>3. 1 \in DOMAIN names
  BY Layout
<1>4. cases = {c}
  <2>1. CaseIn(1, i) \in cases /\ CaseIn(1, i) = c
    BY <1>2, <1>3
  <2>2. \A d \in cases : d = c
    BY <1>2
  <2> HIDE DEF cases
  <2>3. QED BY <2>1, <2>2
<1> HIDE DEF cases
<1>5. (CHOOSE d \in cases : TRUE) = c
  BY <1>4
<1>6. QED BY <1>1, <1>4, <1>5

\* The shader of a rounding test makes of its operands what the call means.
LEMMA RoundingComputes ==
  ASSUME IsRounding(instruction), NEW k \in 1 .. OutputCount(instruction.shader), shader = instruction.shader,
         \A v \in 0 .. Vectors(shader) - 1 : VectorLoaded(v)
  PROVE  Computed(k - 1) = OwnVector(k)
<1> DEFINE s == shader
<1>1. s = instruction.shader /\ s # "kRugbyProjection"
  BY DEF IsRounding
<1>2. OwnVector(k) = [j \in 1 .. Width |-> <<CaseHeld(IF s = "kRoundDot" THEN j - 1 ELSE k - 1, j), s>>]
  BY <1>1 DEF OwnVector, CaseHeld
<1>3. /\ Width \in Nat \ {0} /\ kBinaryOutputs \in Nat
      /\ s # "kRoundDot" => Vectors(s) = kBinaryOutputs /\ OutputCount(s) = kBinaryOutputs
      /\ s = "kRoundDot" => Vectors(s) = Width
  BY Sizes DEF Vectors, OutputCount
<1>4. CASE s = "kRoundDot"
  <2>1. Computed(k - 1) = [j \in 1 .. Width |-> Combined(j - 1, 1 .. Width)]
    BY <1>4 DEF Computed
  <2>2. ASSUME NEW j \in 1 .. Width PROVE Combined(j - 1, 1 .. Width) = <<CaseHeld(j - 1, j), s>>
    <3>1. j - 1 \in 0 .. Vectors(s) - 1
      BY <1>3, <1>4
    <3>2. VectorLoaded(j - 1) /\ 1 .. Width \subseteq 1 .. Width
      BY <3>1
    <3>3. \A i \in 1 .. Width : CaseHeld(j - 1, i) = CaseHeld(j - 1, j)
      BY <1>4 DEF CaseHeld, CaseAt
    <3> DEFINE v == j - 1
               js == 1 .. Width
               c == CaseHeld(v, j)
    <3>4. VectorLoaded(v) /\ j \in js /\ js \subseteq 1 .. Width /\ \A i \in js : CaseHeld(v, i) = c
      BY <3>2, <3>3
    <3> HIDE DEF v, js, c
    <3>5. Combined(v, js) = <<c, s>>
      BY <3>4, OneCase
    <3>6. QED BY <3>5 DEF v, js, c
  <2>3. QED BY <1>2, <1>4, <2>1, <2>2
<1>5. CASE s # "kRoundDot"
  <2>1. Computed(k - 1) = [j \in 1 .. Width |-> Combined(k - 1, {j})]
    BY <1>1, <1>5 DEF Computed
  <2>2. ASSUME NEW j \in 1 .. Width PROVE Combined(k - 1, {j}) = <<CaseHeld(k - 1, j), s>>
    <3>1. k - 1 \in 0 .. Vectors(s) - 1
      BY <1>1, <1>3, <1>5
    <3> DEFINE v == k - 1
               js == {j}
               c == CaseHeld(v, j)
    <3>2. VectorLoaded(v) /\ j \in js /\ js \subseteq 1 .. Width /\ \A i \in js : CaseHeld(v, i) = c
      BY <3>1
    <3> HIDE DEF v, js, c
    <3>3. Combined(v, js) = <<c, s>>
      BY <3>2, OneCase
    <3>4. QED BY <3>3 DEF v, js, c
  <2>3. QED BY <1>2, <1>5, <2>1, <2>2
<1>6. QED BY <1>4, <1>5

\* The shader of the arrays makes of them what the call means.
LEMMA ArrayComputes ==
  ASSUME shader = "kRugbyProjection", constants[0] = Bits(1), g_array_v1 = "kV0", NEW i
  PROVE  Computed(i) = All(<<1, "kV0">>)
BY DEF Computed

-----------------------------------------------------------------------------
(* The GPU keeps to what the call means *)

\* The cells a call reads and makes are cells.
LEMMA CallCells ==
  ASSUME NEW call, IsCall(call), NEW k \in 1 .. Count(call)
  PROVE  Place(call, k) \in Cells /\ \A need \in Needs(call, k) : need[1] \in Cells
<1>1. \A i \in Registers : Register(i) \in Cells
  BY DEF Cells
<1>2. ShaderCell \in Cells
  BY DEF Cells
<1>3. Place(call, k) \in Cells
  <2>1. CASE IsProbes(call) \/ IsRaw(call)
    <3>1. ByQuads(call) /\ k \in 1 .. 3
      <4>1. ByQuads(call) /\ Len(call.inputs) \in 1 .. 3
        BY <2>1 DEF IsProbes, IsRaw, ByQuads
      <4>2. Count(call) = Len(call.inputs)
        BY <4>1 DEF Count
      <4>3. k \in 1 .. Len(call.inputs)
        BY <4>2
      <4>4. \A N \in 1 .. 3 : \A i \in 1 .. N : i \in 1 .. 3
        OBVIOUS
      <4>5. k \in 1 .. 3
        BY <4>1, <4>3, <4>4
      <4>6. QED BY <4>1, <4>5
    <3>2. PositionOf(k) \in Screen
      BY <3>1, Apart
    <3>3. QED BY <3>1, <3>2 DEF Place, Cells
  <2>2. CASE IsRounding(call) \/ IsArray(call)
    <3>1. ~ByQuads(call)
      BY <2>2 DEF IsRounding, IsArray, ByQuads
    <3>2. k - 1 \in 0 .. kBinaryOutputs - 1 /\ kFirstOutput + k - 1 = kFirstOutput + (k - 1)
      BY <3>1, Counts, Sizes DEF Count
    <3>3. kFirstOutput + k - 1 \in Registers
      BY <3>2, Sizes
    <3>4. QED BY <1>1, <3>1, <3>3 DEF Place
  <2>3. QED BY <2>1, <2>2 DEF IsCall
<1>4. \A need \in Reads(call, k) : \E i \in Registers : need[1] = Register(i)
  <2>1. CASE IsProbes(call)
    BY <2>1 DEF IsProbes, Reads
  <2>2. CASE IsRaw(call)
    <3>1. \A need \in Reads(call, k) : need[1] \in {Register(0), Register(kScale), Register(kBits)}
      BY <2>2 DEF IsRaw, Reads
    <3>2. QED BY <3>1, Sizes
  <2>3. CASE IsRounding(call)
    <3> DEFINE s == call.shader
               L == Len(OperandNames(s))
               V == Vectors(s)
    <3>1. Reads(call, k) = {<<Register(InputOf(s, v, n)), Operands(s, v, n)>> :
                               v \in 0 .. V - 1, n \in DOMAIN OperandNames(s)}
      BY <2>3 DEF IsRounding, Reads
    <3>2. /\ L \in {2, 3} /\ DOMAIN OperandNames(s) = 1 .. L /\ V \in Nat /\ L * V \in Nat
          /\ L * V + 1 < kFirstOutput /\ kFirstOutput < kVshConstantCount
          /\ kFirstOutput \in Nat /\ kVshConstantCount \in Nat
      BY Layout, Sizes
    <3>3. \A v, n \in Int : InputOf(s, v, n) = 2 + L * v + n - 1
      BY Sizes DEF InputOf
    <3> HIDE DEF L, V
    <3>4. ASSUME NEW v \in 0 .. V - 1, NEW n \in 1 .. L PROVE InputOf(s, v, n) \in Registers
      <4>1. InputOf(s, v, n) = 2 + L * v + n - 1
        BY <3>2, <3>3
      <4>2. 2 + L * v + n - 1 \in 0 .. kVshConstantCount - 1
        BY <3>2
      <4>3. QED BY <4>1, <4>2 DEF Registers
    <3>5. QED BY <3>1, <3>2, <3>4
  <2>4. CASE IsArray(call)
    <3>1. \A need \in Reads(call, k) : need[1] = Register(0)
      BY <2>4 DEF IsArray, Reads
    <3>2. QED BY <3>1, Sizes
  <2>5. QED BY <2>1, <2>2, <2>3, <2>4 DEF IsCall
<1>5. \A need \in Needs(call, k) : need[1] \in {ShaderCell, Place(call, k)} \/ need \in Reads(call, k)
  BY DEF Needs
<1>6. QED BY <1>1, <1>2, <1>3, <1>4, <1>5

\* As long as the thread stays where it is, the call means the same.
LEMMA SameCall ==
  ASSUME test' = test, pc' = pc, first' = first, fault' = fault
  PROVE  /\ instruction' = instruction
         /\ \A k : /\ Needs(instruction, k)' = Needs(instruction, k) /\ Makes(instruction, k)' = Makes(instruction, k)
                   /\ Place(instruction, k)' = Place(instruction, k)
                   /\ Maker(instruction, k)' = Maker(instruction, k)
         /\ Count(instruction)' = Count(instruction)
         /\ Untouched(instruction)' = Untouched(instruction)
<1>1. instruction' = instruction
  BY DEF instruction
<1>2. Batch' = Batch
  BY <1>1 DEF Batch
<1>3. \A s, v, n : Operands(s, v, n)' = Operands(s, v, n)
  BY <1>2 DEF Operands
<1>4. \A k : OwnVector(k)' = OwnVector(k)
  BY <1>1, <1>2 DEF OwnVector
<1>5. \A k : Reads(instruction, k)' = Reads(instruction, k)
  BY <1>1, <1>3 DEF Reads
<1>6. \A k : Makes(instruction, k)' = Makes(instruction, k)
  <2>1. \A call, k : ReadByA0(call, k)' = ReadByA0(call, k)
    BY DEF ReadByA0, Registers
  <2>2. \A call, v : Written(call, v)' = Written(call, v)
    BY DEF Written, Untouched, ByQuads, Vector, All
  <2>3. \A v : Written(instruction, v)' = Written(instruction, v)
    BY <1>1, <2>2 DEF Written
  <2>4. \A k : ReadByA0(instruction, k)' = ReadByA0(instruction, k)
    BY <1>1, <2>1 DEF ReadByA0
  <2>5. QED BY <1>1, <1>4, <2>3, <2>4 DEF Makes
<1>7. \A k : /\ Place(instruction, k)' = Place(instruction, k)
             /\ Maker(instruction, k)' = Maker(instruction, k)
  BY <1>1
<1>8. Count(instruction)' = Count(instruction) /\ Untouched(instruction)' = Untouched(instruction)
  BY <1>1
<1>9. \A k : Needs(instruction, k)' = Needs(instruction, k)
  BY <1>1, <1>5, <1>7, <1>8 DEF Needs
<1>10. QED BY <1>1, <1>6, <1>7, <1>8, <1>9

\* The maker of a result, on cells that hold what it needs.
LEMMA Making ==
  ASSUME CellsInv, QueueInv, submitted, IsCall(instruction), NEW k \in 1 .. Count(instruction),
         command = Maker(instruction, k), \A need \in Needs(instruction, k) : Cell(need[1]) = need[2],
         GpuQuad \/ GpuDraw \/ GpuDropsDraw
  PROVE  Cell(Place(instruction, k))' \in Own(instruction, k)'
<1> DEFINE call == instruction
           x == Place(call, k)
<1>1. test' = test /\ pc' = pc /\ first' = first /\ fault' = fault
  BY DEF GpuQuad, GpuDraw, GpuDropsDraw, Executes, position
<1>2. Makes(call, k)' = Makes(call, k) /\ Place(call, k)' = x /\ Untouched(call)' = Untouched(call)
  BY <1>1, SameCall
<1>3. shader = call.shader /\ Cell(x) = Untouched(call)
  <2>1. <<ShaderCell, call.shader>> \in Needs(call, k) /\ <<x, Untouched(call)>> \in Needs(call, k)
    BY DEF Needs
  <2>2. Cell(ShaderCell) = call.shader /\ Cell(x) = Untouched(call)
    <3>1. \A a, b : <<a, b>> \in Needs(call, k) => Cell(a) = b
      OBVIOUS
    <3> HIDE DEF call, x
    <3>2. QED BY <2>1, <3>1
  <2>3. QED BY <2>2 DEF Cell, ShaderCell
<1>4. \A i, v : <<Register(i), v>> \in Reads(call, k) => constants[i] = v
  <2>1. ASSUME NEW i, NEW v, <<Register(i), v>> \in Reads(call, k) PROVE constants[i] = v
    <3>1. <<Register(i), v>> \in Needs(call, k)
      BY <2>1 DEF Needs
    <3>2. Cell(Register(i)) = v
      BY <3>1
    <3>3. QED BY <3>2 DEF Cell, Register
  <2>2. QED BY <2>1
<1>5. x \in Cells
  BY CallCells
<1>6. CASE GpuDropsDraw
  <2>1. dropped' /\ Cell(x)' = Cell(x)
    <3>1. dropped' = TRUE /\ constants' = constants /\ shader' = shader /\ pixels' = pixels
      BY <1>6 DEF GpuDropsDraw
    <3>2. QED BY <1>2, <3>1 DEF Cell
  <2>2. Cell(Place(call, k))' = Cell(x)
    BY <1>2, <2>1 DEF Cell
  <2>3. QED BY <1>2, <1>3, <2>1, <2>2 DEF Own
<1>7. CASE GpuQuad
  <2>1. command.cmd = "quad"
    BY <1>7 DEF GpuQuad, Executes, command
  <2>2. ByQuads(call)
    BY <2>1 DEF Maker, Draw
  <2>3. IsProbes(call) \/ IsRaw(call)
    BY <2>2 DEF IsCall, IsRounding, IsArray, ByQuads
  <2>4. k \in 1 .. Len(call.inputs)
    BY <2>2 DEF Count
  <2>5. /\ command.probe = k
        /\ command.attr = IF UsesBits(call) THEN 0 ELSE call.inputs[k]
    BY <2>2 DEF Maker, Quad
  <2>6. Shade(command.attr) \subseteq Makes(call, k)
    <3>1. CASE IsProbes(call)
      <4>1. ~UsesBits(call)
        BY <3>1 DEF IsProbes, UsesBits
      <4>2. \A i \in Registers : <<Register(i), Probe(i)>> \in Reads(call, k)
        BY <3>1 DEF IsProbes, Reads
      <4>3. \A i \in Registers : constants[i] = Probe(i)
        BY <1>4, <4>2
      <4>4. QED BY <1>3, <2>4, <2>5, <3>1, <4>1, <4>3, ProbesShade
    <3>2. CASE IsRaw(call)
      <4>1. /\ call.shader = "kLogX" => <<Register(0), Probe(0)>> \in Reads(call, k)
            /\ call.shader # "kLogX" => <<Register(kScale), Scale>> \in Reads(call, k)
            /\ UsesBits(call) => <<Register(kBits), Bits(call.inputs[k])>> \in Reads(call, k)
        BY <3>2 DEF IsRaw, Reads
      <4>2. /\ call.shader = "kLogX" => constants[0] = Probe(0)
            /\ call.shader # "kLogX" => constants[kScale] = Scale
            /\ UsesBits(call) => constants[kBits] = Bits(call.inputs[k])
        BY <1>4, <4>1
      <4>3. QED BY <1>3, <2>4, <2>5, <3>2, <4>2, RawShade
    <3>3. QED BY <2>3, <3>1, <3>2
  <2>7. PICK pixel \in Shade(command.attr) : pixels' = [pixels EXCEPT ![PositionOf(command.probe)] = pixel]
    BY <1>7 DEF GpuQuad
  <2>8. x = PixelAt(PositionOf(k))
    BY <2>2 DEF Place
  <2>9. PositionOf(k) \in Screen
    <3>1. Len(call.inputs) \in 1 .. 3
      BY <2>3 DEF IsProbes, IsRaw
    <3>2. \A N \in 1 .. 3 : \A i \in 1 .. N : i \in 1 .. 3
      OBVIOUS
    <3>3. k \in 1 .. 3
      BY <2>4, <3>1, <3>2
    <3>4. QED BY <3>3, Apart
  <2>10. pixels'[PositionOf(k)] = pixel
    BY <2>5, <2>7, <2>9 DEF CellsInv
  <2>11. Cell(Place(call, k))' = pixel
    BY <1>2, <2>8, <2>10 DEF Cell, PixelAt
  <2>12. QED BY <1>2, <2>6, <2>7, <2>11 DEF Own
<1>8. CASE GpuDraw
  <2>1. command.cmd = "draw"
    BY <1>8 DEF GpuDraw, Executes, command
  <2>2. ~ByQuads(call)
    BY <2>1 DEF Maker, Quad
  <2>3. IsRounding(call) \/ IsArray(call)
    BY <2>2 DEF IsCall, IsProbes, IsRaw, ByQuads
  <2>4. k \in 1 .. OutputCount(call.shader) /\ OutputCount(call.shader) \in 1 .. kBinaryOutputs
    BY <2>2, Counts DEF Count
  <2> DEFINE own == IF fault = "no_write" THEN Untouched(call) ELSE Vector(Computed(k - 1))
  <2>5. own \in Makes(call, k)
    <3>1. CASE IsRounding(call)
      <4>1. \A v \in 0 .. Vectors(shader) - 1 : \A n \in DOMAIN OperandNames(shader) :
                <<Register(InputOf(shader, v, n)), Operands(shader, v, n)>> \in Reads(call, k)
        BY <1>3, <3>1 DEF IsRounding, Reads
      <4>2. \A v \in 0 .. Vectors(shader) - 1 : VectorLoaded(v)
        BY <1>4, <4>1 DEF VectorLoaded
      <4>3. Computed(k - 1) = OwnVector(k)
        BY <1>3, <2>4, <3>1, <4>2, RoundingComputes
      <4>4. QED BY <3>1, <4>3 DEF Makes, Written, IsRounding
    <3>2. CASE IsArray(call)
      <4>1. <<Register(0), Bits(1)>> \in Reads(call, k) /\ call.op = "array" /\ call.shader = "kRugbyProjection"
        BY <3>2 DEF IsArray, Reads
      <4>2. constants[0] = Bits(1) /\ g_array_v1 = "kV0"
        BY <1>4, <4>1 DEF QueueInv
      <4>3. Computed(k - 1) = All(<<1, "kV0">>)
        BY <1>3, <4>1, <4>2, ArrayComputes
      <4>4. QED BY <4>1, <4>3 DEF Makes, Written
    <3>3. QED BY <2>3, <3>1, <3>2
  <2> DEFINE i == kFirstOutput + k - 1
  <2>6. x = Register(i)
    BY <2>2 DEF Place
  <2>7. /\ k \in Int /\ kFirstOutput \in Int /\ i - kFirstOutput = k - 1
        /\ i - kFirstOutput \in 0 .. OutputCount(shader) - 1
    BY <1>3, <2>4, Sizes
  <2>8. i \in Registers
    <3>1. k - 1 \in 0 .. kBinaryOutputs - 1 /\ i = kFirstOutput + (k - 1)
      BY <2>4, <2>7, Sizes
    <3> HIDE DEF i
    <3>2. QED BY <3>1, Sizes
  <2> HIDE DEF i
  <2>9. constants'[i] = own
    <3>1. CASE fault = "no_write"
      <4>1. constants' = constants
        BY <1>8, <3>1 DEF GpuDraw
      <4>2. constants[i] = Untouched(call)
        BY <1>3, <2>6 DEF Cell, Register
      <4>3. QED BY <3>1, <4>1, <4>2
    <3>2. CASE fault # "no_write"
      <4>1. constants' = [j \in DOMAIN constants |-> IF j - kFirstOutput \in 0 .. OutputCount(shader) - 1
                                                     THEN Vector(Computed(j - kFirstOutput)) ELSE constants[j]]
        BY <1>8, <3>2 DEF GpuDraw
      <4>2. i \in DOMAIN constants
        BY <2>8 DEF CellsInv
      <4>3. QED BY <2>7, <3>2, <4>1, <4>2
    <3>3. QED BY <3>1, <3>2
  <2> HIDE DEF own
  <2>10. Cell(Place(call, k))' = own
    BY <1>2, <2>6, <2>9 DEF Cell, Register
  <2>11. QED BY <1>2, <2>5, <2>10 DEF Own
<1>9. QED BY <1>6, <1>7, <1>8

\* What every step of the GPU does.
LEMMA GpuStep ==
  ASSUME CellsInv, Gpu
  PROVE  /\ pushbuffer # <<>> /\ pushbuffer' = Tail(pushbuffer) /\ command = Head(pushbuffer)
         /\ CellsInv' /\ CellsChange(command)
         /\ UNCHANGED <<fault, globals, position, verdicts>>
         /\ dropped' \in {dropped, TRUE} /\ (fault # "none" => dropped' = dropped)
         /\ command.cmd \in {"quad", "draw"} => GpuQuad \/ GpuDraw \/ GpuDropsDraw
<1>1. \A s : OutputCount(s) \in Nat
  BY Counts
<1>2. CellsInv' /\ CellsChange(command)
  BY <1>1, GpuShaderCells, GpuClearCells, GpuLoadCells, GpuQuadCells, GpuDrawCells, DropCells DEF Gpu
<1>3. /\ pushbuffer # <<>> /\ pushbuffer' = Tail(pushbuffer)
      /\ UNCHANGED <<fault, globals, position, verdicts>>
  BY DEF Gpu, GpuShader, GpuClear, GpuLoad, GpuQuad, GpuDraw, GpuDropsDraw, Executes
<1>4. dropped' \in {dropped, TRUE} /\ (fault # "none" => dropped' = dropped)
  BY DEF Gpu, GpuShader, GpuClear, GpuLoad, GpuQuad, GpuDraw, GpuDropsDraw
<1>5. command.cmd \in {"quad", "draw"} => GpuQuad \/ GpuDraw \/ GpuDropsDraw
  BY DEF Gpu, GpuShader, GpuClear, GpuLoad, Executes, command
<1>6. command = Head(pushbuffer)
  BY DEF command
<1>7. QED BY <1>2, <1>3, <1>4, <1>5, <1>6

\* A result that is there, or will be, still is when the GPU has executed one
\* command more.
LEMMA MadeStaysMade ==
  ASSUME CellsInv, QueueInv, Gpu, submitted, IsCall(instruction), NEW k \in 1 .. Count(instruction),
         Made(instruction, k, pushbuffer)
  PROVE  Made(instruction, k, pushbuffer)'
<1> DEFINE call == instruction
           x == Place(call, k)
           q == pushbuffer
<1>1. /\ q # <<>> /\ q' = Tail(q) /\ command = Head(q) /\ CellsChange(command)
      /\ test' = test /\ pc' = pc /\ first' = first /\ fault' = fault /\ dropped' \in {dropped, TRUE}
  BY GpuStep DEF position
<1>2. Makes(call, k)' = Makes(call, k) /\ Place(call, k)' = x /\ Untouched(call)' = Untouched(call)
  BY <1>1, SameCall
<1>3. /\ Len(q) \in Nat /\ Len(q) > 0 /\ Head(q) = q[1] /\ Len(Tail(q)) = Len(q) - 1
      /\ \A m \in 1 .. Len(q) - 1 : Tail(q)[m] = q[m + 1]
  BY <1>1, Rest DEF QueueInv
<1>4. Cell(x) \in Own(call, k) /\ \A m \in 1 .. Len(q) : ~Sets(q[m], x)
  BY DEF Made
<1>5. ~Sets(command, x)
  BY <1>1, <1>3, <1>4
<1>6. x \in Cells
  BY CallCells
<1>7. \A y \in Cells : ~Sets(command, y) => Cell(y)' = Cell(y)
  BY <1>1 DEF CellsChange
<1>8. ASSUME NEW y \in Cells, y = x PROVE Cell(Place(call, k))' = Cell(y)
  <2>1. Cell(y)' = Cell(y)
    BY <1>5, <1>7, <1>8
  <2>2. Place(call, k)' = y
    BY <1>2, <1>8
  <2>3. QED BY <2>1, <2>2 DEF Cell
<1>9. ASSUME NEW v \in Own(call, k) PROVE v \in Own(call, k)'
  <2>1. CASE v \in Makes(call, k)
    BY <1>2, <2>1 DEF Own
  <2>2. CASE v = Untouched(call) /\ dropped
    <3>1. dropped'
      BY <1>1, <2>2
    <3>2. QED BY <1>2, <2>2, <3>1 DEF Own
  <2>3. QED BY <1>9, <2>1, <2>2 DEF Own
<1>10. \A m \in 1 .. Len(q') : ~Sets(q'[m], x)
  <2>1. \A m \in 1 .. Len(q) - 1 : m + 1 \in 1 .. Len(q)
    BY <1>3
  <2>2. QED BY <1>1, <1>3, <1>4, <2>1
<1>11. \A m \in 1 .. Len(pushbuffer') : ~Sets(pushbuffer'[m], Place(call, k)')
  BY <1>2, <1>10
<1>12. Cell(Place(call, k))' \in Own(call, k)'
  BY <1>4, <1>6, <1>8, <1>9
<1>13. QED BY <1>11, <1>12 DEF Made, Sets, kFirstOutput, PositionOf

\* A result that is awaited is awaited still, or has been made, when the GPU
\* has executed one command more.
LEMMA AwaitedIsAwaitedOrMade ==
  ASSUME CellsInv, QueueInv, Gpu, submitted, IsCall(instruction), NEW k \in 1 .. Count(instruction),
         NEW j \in 1 .. Len(pushbuffer), Awaited(instruction, k, pushbuffer, j)
  PROVE  \/ Made(instruction, k, pushbuffer)'
         \/ \E i \in 1 .. Len(pushbuffer') : Awaited(instruction, k, pushbuffer, i)'
<1> DEFINE call == instruction
           x == Place(call, k)
           q == pushbuffer
<1>1. /\ q # <<>> /\ q' = Tail(q) /\ command = Head(q) /\ CellsChange(command)
      /\ test' = test /\ pc' = pc /\ first' = first /\ fault' = fault /\ dropped' \in {dropped, TRUE}
  BY GpuStep DEF position
<1>2. /\ Needs(call, k)' = Needs(call, k) /\ Place(call, k)' = x /\ Maker(call, k)' = Maker(call, k)
  BY <1>1, SameCall
<1>3. /\ IsSequence(q) /\ Len(q) \in Nat /\ Len(q) > 0 /\ Head(q) = q[1] /\ Len(Tail(q)) = Len(q) - 1
      /\ \A m \in 1 .. Len(q) - 1 : Tail(q)[m] = q[m + 1]
  BY <1>1, Rest DEF QueueInv
<1>4. /\ q[j] = Maker(call, k)
      /\ \A need \in Needs(call, k) : WillHold(q, j - 1, need[1], Cell(need[1]), need[2])
      /\ \A m \in j + 1 .. Len(q) : ~Sets(q[m], x)
  BY DEF Awaited
<1>5. \A need \in Needs(call, k) : need[1] \in Cells
  BY CallCells
<1>6. CASE j = 1
  <2>1. command = Maker(call, k)
    BY <1>1, <1>3, <1>4, <1>6
  <2>2. command.cmd \in {"quad", "draw"}
    BY <2>1 DEF Maker, Quad, Draw
  <2>3. GpuQuad \/ GpuDraw \/ GpuDropsDraw
    BY <2>2, GpuStep
  <2>4. \A need \in Needs(call, k) : Cell(need[1]) = need[2]
    <3> SUFFICES ASSUME NEW need \in Needs(call, k) PROVE Cell(need[1]) = need[2]
      OBVIOUS
    <3>1. WillHold(q, 0, need[1], Cell(need[1]), need[2])
      BY <1>4, <1>6
    <3>2. ~\E i \in 1 .. 0 : TRUE
      OBVIOUS
    <3>3. QED BY <3>1, <3>2 DEF WillHold
  <2>5. Cell(Place(call, k))' \in Own(call, k)'
    BY <2>1, <2>3, <2>4, Making
  <2>6. \A m \in 1 .. Len(q) - 1 : ~Sets(Tail(q)[m], x)
    <3>1. \A m \in 1 .. Len(q) - 1 : m + 1 \in 2 .. Len(q)
      BY <1>3
    <3>2. QED BY <1>3, <1>4, <1>6, <3>1
  <2>7. \A m \in 1 .. Len(pushbuffer') : ~Sets(pushbuffer'[m], Place(call, k)')
    BY <1>1, <1>2, <1>3, <2>6
  <2>8. Made(instruction, k, pushbuffer)'
    BY <2>5, <2>7 DEF Made, Sets, kFirstOutput, PositionOf
  <2>9. QED BY <2>8
<1>7. CASE j # 1
  <2> DEFINE i == j - 1
  <2>1. i \in 1 .. Len(q') /\ i - 1 = j - 2 /\ j - 1 \in 1 .. Len(q) /\ q'[i] = q[j]
    BY <1>1, <1>3, <1>7
  <2>2. \A need \in Needs(call, k) : WillHold(q', i - 1, need[1], Cell(need[1])', need[2])
    <3> SUFFICES ASSUME NEW need \in Needs(call, k)
                 PROVE  WillHold(Tail(q), (j - 1) - 1, need[1], Cell(need[1])', need[2])
      BY <1>1
    <3> DEFINE y == need[1]
    <3>1. y \in Cells /\ command = q[1]
      BY <1>1, <1>3, <1>5
    <3>2. ~Sets(q[1], y) => Cell(y)' = Cell(y)
      <4> HIDE DEF y
      <4>1. QED BY <1>1, <3>1 DEF CellsChange
    <3>3. \A w : SetsTo(q[1], y, w) => Cell(y)' = w
      <4> HIDE DEF y
      <4>1. QED BY <1>1, <3>1 DEF CellsChange
    <3>4. WillHold(q, j - 1, y, Cell(y), need[2])
      BY <1>4
    <3>5. IsSequence(q) /\ q # <<>> /\ j - 1 \in 1 .. Len(q)
      BY <1>1, <1>3, <2>1
    <3> HIDE DEF y, q
    <3>6. QED BY <3>2, <3>3, <3>4, <3>5, HoldsOn DEF y
  <2>3. q'[i] = Maker(call, k)'
    BY <1>2, <1>4, <2>1
  <2>4. \A m \in i + 1 .. Len(q') : ~Sets(q'[m], x)
    <3>1. \A m \in i + 1 .. Len(q) - 1 : m + 1 \in j + 1 .. Len(q) /\ m \in 1 .. Len(q) - 1
      BY <1>3, <2>1
    <3>2. QED BY <1>1, <1>3, <1>4, <3>1
  <2>5. \A need \in Needs(call, k)' : WillHold(q', i - 1, need[1], Cell(need[1])', need[2])
    BY <1>2, <2>2
  <2>6. \A m \in i + 1 .. Len(q') : ~Sets(q'[m], Place(call, k)')
    BY <1>2, <2>4
  <2> HIDE DEF i
  <2>7. Awaited(instruction, k, pushbuffer, i)'
    BY <2>3, <2>5, <2>6 DEF Awaited, WillHold
  <2>8. QED BY <2>1, <2>7
<1>8. QED BY <1>6, <1>7

\* The GPU keeps the invariant.
LEMMA GpuKeeps ==
  ASSUME IInv, Gpu
  PROVE  IInv'
<1>1. /\ PlaceInv /\ QueueInv /\ CellsInv /\ ResultsInv /\ ReportedInv /\ VerdictInv /\ FaultInv
      /\ pushbuffer # <<>> /\ pushbuffer' = Tail(pushbuffer)
      /\ CellsInv' /\ dropped' \in {dropped, TRUE}
  BY GpuStep DEF IInv
<1>2. /\ g_state' = g_state /\ g_array_positions' = g_array_positions /\ g_array_v1' = g_array_v1
      /\ test' = test /\ pc' = pc /\ submitted' = submitted /\ first' = first
      /\ result' = result /\ reported' = reported /\ pass' = pass /\ crashed' = crashed
      /\ fault' = fault
  BY GpuStep DEF IInv, globals, position, verdicts
<1>3. instruction' = instruction /\ Count(instruction)' = Count(instruction) /\ Ended' = Ended
  BY <1>2, SameCall DEF Ended
<1>4. submitted /\ result = <<>>
  BY <1>1 DEF QueueInv
<1>5. IsCall(instruction)
  BY <1>1, <1>4, TheCall DEF PlaceInv
<1>6. PlaceInv'
  BY <1>1, <1>2, <1>3 DEF PlaceInv, AtRounding, At
<1>7. QueueInv'
  <2>1. IsSequence(pushbuffer')
    BY <1>1, Rest DEF QueueInv
  <2>2. QED BY <1>1, <1>2, <1>3, <1>4, <2>1 DEF QueueInv, IsSequence
<1>8. ResultsInv'
  <2>1. ASSUME NEW k \in 1 .. Count(instruction)
        PROVE  \/ Made(instruction, k, pushbuffer)'
               \/ \E j \in 1 .. Len(pushbuffer') : Awaited(instruction, k, pushbuffer, j)'
    <3>1. \/ Made(instruction, k, pushbuffer)
          \/ \E j \in 1 .. Len(pushbuffer) : Awaited(instruction, k, pushbuffer, j)
      BY <1>1, <1>4 DEF ResultsInv
    <3>2. CASE Made(instruction, k, pushbuffer)
      BY <1>1, <1>4, <1>5, <3>2, MadeStaysMade
    <3>3. CASE \E j \in 1 .. Len(pushbuffer) : Awaited(instruction, k, pushbuffer, j)
      <4>1. PICK j \in 1 .. Len(pushbuffer) : Awaited(instruction, k, pushbuffer, j)
        BY <3>3
      <4>2. QED BY <1>1, <1>4, <1>5, <4>1, AwaitedIsAwaitedOrMade
    <3>4. QED BY <3>1, <3>2, <3>3
  <2>2. \A k \in 1 .. Count(instruction)' :
            \/ Made(instruction, k, pushbuffer)'
            \/ \E j \in 1 .. Len(pushbuffer') : Awaited(instruction, k, pushbuffer, j)'
    BY <1>3, <2>1
  <2>3. result' = <<>>
    BY <1>2, <1>4
  <2>4. QED BY <2>2, <2>3 DEF ResultsInv
<1>9. ReportedInv'
  BY <1>1, <1>2, <1>3 DEF ReportedInv, AtRounding, At, ReportedCase, IsSequence
<1>10. VerdictInv'
  <2>1. ~dropped' => ~dropped
    BY <1>1
  <2>2. Ready' = Ready
    BY <1>2 DEF Ready
  <2>3. QED BY <1>1, <1>2, <2>1, <2>2 DEF VerdictInv
<1>11. FaultInv'
  <2>1. fault # "none" => dropped' = dropped
    BY <1>1, GpuStep
  <2>2. Detector' = Detector
    BY <1>2 DEF Detector
  <2>3. QED BY <1>1, <1>2, <2>1, <2>2 DEF FaultInv, Faults
<1>12. QED BY <1>1, <1>6, <1>7, <1>8, <1>9, <1>10, <1>11 DEF IInv

-----------------------------------------------------------------------------
(* The thread goes on to the next call, or writes one *)

\* A fault stays, and so does the verdict about it while its test runs.
LEMMA FaultKept ==
  ASSUME FaultInv, fault' = fault, dropped' = dropped, ~pass' \/ (test' = test /\ (pass' => pass))
  PROVE  FaultInv'
<1>1. Detector' = Detector
  BY DEF Detector
<1>2. Faults' = Faults
  BY DEF Faults
<1>3. QED BY <1>1, <1>2 DEF FaultInv

\* The thread goes on to the next test.
LEMMA NextTestPlace ==
  ASSUME PlaceInv, ~Ended, NextTest
  PROVE  PlaceInv' /\ ReportedInv' /\ submitted' = FALSE
<1>1. /\ test' = test + 1 /\ pc' = 1 /\ submitted' = FALSE /\ first' = 0 /\ reported' = <<>>
  BY DEF NextTest
<1>2. Len(Tests) \in Nat /\ test \in 1 .. Len(Tests) /\ \A t \in 1 .. Len(Tests) : IsTest(Tests[t])
  BY TestsAreTests, TheCall
<1>3. test' \in 1 .. Len(Tests) + 1
  BY <1>1, <1>2
<1>4. test' <= Len(Tests) => test' \in 1 .. Len(Tests)
  BY <1>1, <1>2
<1>5. test' <= Len(Tests) => pc' \in 1 .. Len(Tests[test']) /\ instruction'.op = "init"
  BY <1>1, <1>2, <1>4 DEF IsTest, instruction
<1>6. ~Ended' => test' <= Len(Tests)
  BY <1>2, <1>3 DEF Ended
<1>7. first' \in Nat /\ first' < CaseCount /\ first' = 0
  BY <1>1, Sizes
<1>8. ~AtRounding'
  BY <1>5, <1>6 DEF AtRounding, At
<1>9. PlaceInv'
  BY <1>1, <1>3, <1>5, <1>6, <1>7 DEF PlaceInv
<1>10. ReportedInv'
  BY <1>1, <1>8 DEF ReportedInv
<1>11. QED BY <1>1, <1>9, <1>10

\* The thread goes on to the next call of a test, or to the next test.
LEMMA NextCallPlace ==
  ASSUME PlaceInv, ReportedInv, ~Ended, NextCall, crashed' = crashed, g_state'
  PROVE  PlaceInv' /\ ReportedInv' /\ submitted' = FALSE
<1>1. CASE pc < Len(Tests[test])
  <2>1. pc' = pc + 1 /\ submitted' = FALSE /\ first' = 0 /\ test' = test /\ reported' = reported
    BY <1>1 DEF NextCall
  <2>2. /\ test \in 1 .. Len(Tests) /\ IsTest(Tests[test]) /\ pc \in 1 .. Len(Tests[test])
        /\ instruction.op = "rounding" => pc = Len(Tests[test])
    BY TheCall
  <2>3. Len(Tests[test]) \in Nat /\ Len(Tests) \in Nat
    BY <2>2, TestsAreTests DEF IsTest
  <2>4. pc' \in 1 .. Len(Tests[test])
    BY <1>1, <2>1, <2>2, <2>3
  <2>5. ~AtRounding /\ reported = <<>>
    BY <1>1, <2>2, <2>3 DEF AtRounding, At, ReportedInv
  <2>6. first' \in Nat /\ first' < CaseCount /\ first' = 0
    BY <2>1, Sizes
  <2>7. PlaceInv'
    <3>1. test' \in 1 .. Len(Tests) + 1
      BY <2>1 DEF PlaceInv
    <3> QED BY <2>1, <2>4, <2>6, <3>1 DEF PlaceInv
  <2>8. ReportedInv'
    <3>1. IsSequence(reported') /\ Len(reported') = 0 /\ reported' = <<>>
      <4>1. <<>> \in Seq({}) /\ Len(<<>>) = 0
        OBVIOUS
      <4>2. QED BY <2>1, <2>5, <4>1 DEF IsSequence
    <3>2. \A s : 0 * ReportsPerCase(s) = 0
      BY Counts
    <3>3. ~\E r \in 1 .. 0 : TRUE
      OBVIOUS
    <3>4. Len(reported') = first' * ReportsPerCase(instruction.shader)'
      BY <2>6, <3>1, <3>2 DEF ReportsPerCase, OutputCount
    <3>5. QED BY <3>1, <3>3, <3>4 DEF ReportedInv, IsSequence
  <2>9. QED BY <2>1, <2>7, <2>8
<1>2. CASE ~(pc < Len(Tests[test]))
  BY <1>2, NextTestPlace DEF NextCall
<1>3. QED BY <1>1, <1>2

\* A step that leaves a call, or makes none, with the buffers as they are.
LEMMA BetweenCalls ==
  ASSUME IInv, PlaceInv', ReportedInv', VerdictInv', FaultInv', submitted' = FALSE, result' = <<>>,
         pushbuffer = <<>>, UNCHANGED gpu
  PROVE  IInv'
<1>1. pushbuffer' = <<>> /\ constants' = constants /\ pixels' = pixels
  BY DEF gpu
<1>2. IsSequence(pushbuffer')
  BY <1>1 DEF IInv, QueueInv
<1>3. QueueInv'
  BY <1>1, <1>2 DEF QueueInv, IsSequence
<1>4. CellsInv'
  BY <1>1 DEF IInv, CellsInv, Screen, Registers
<1>5. ResultsInv'
  BY DEF ResultsInv
<1>6. QED BY <1>3, <1>4, <1>5 DEF IInv

\* VshInit keeps the invariant, whether it makes its buffers or not.
LEMMA InitKeeps ==
  ASSUME IInv, VshInit \/ VshInitAgain
  PROVE  IInv'
<1>1. ~Ended /\ instruction.op = "init" /\ PlaceInv /\ QueueInv /\ ReportedInv /\ VerdictInv
  BY DEF IInv, VshInit, VshInitAgain, At
<1>2. submitted = FALSE /\ pushbuffer = <<>> /\ result = <<>>
  BY <1>1 DEF PlaceInv, QueueInv
<1>3. UNCHANGED gpu /\ result' = result /\ crashed' = crashed /\ dropped' = dropped /\ fault' = fault
  BY DEF VshInit, VshInitAgain, gpu
<1>4. NextCall => test' = test
  <2>1. pc = 1 /\ Len(Tests[test]) \in Nat \ {0, 1}
    BY <1>1, TheCall DEF IsTest
  <2>2. pc < Len(Tests[test])
    <3>1. \A N \in Nat \ {0, 1} : 1 < N
      OBVIOUS
    <3>2. QED BY <2>1, <3>1
  <2>3. QED BY <2>2 DEF NextCall
<1>5. FaultInv'
  <2>1. FaultInv
    BY DEF IInv
  <2>2. (NextCall /\ pass' = pass) \/ ~pass'
    <3>1. CASE VshInit
      BY <3>1 DEF VshInit
    <3>2. CASE VshInitAgain
      BY <3>2 DEF VshInitAgain
    <3>3. QED BY <3>1, <3>2
  <2>3. ~pass' \/ (test' = test /\ (pass' => pass))
    BY <1>4, <2>2
  <2>4. QED BY <1>3, <2>1, <2>3, FaultKept
<1>6. CASE VshInit
  <2>1. ~g_state /\ g_state' /\ (NextCall \/ NextTest)
    BY <1>6 DEF VshInit
  <2>2. PlaceInv' /\ ReportedInv' /\ submitted' = FALSE
    BY <1>1, <1>3, <2>1, NextCallPlace, NextTestPlace
  <2>3. VerdictInv'
    <3>1. Ready' => pass' = pass
      BY <1>6 DEF VshInit, Ready
    <3>2. fault' = "none" /\ ~dropped' => pass /\ ~crashed
      BY <1>1, <1>3, <2>1 DEF VerdictInv
    <3>3. ~crashed => ~crashed'
      BY <1>3
    <3>4. g_state'
      BY <2>1
    <3>5. QED BY <3>1, <3>2, <3>3, <3>4 DEF VerdictInv
  <2>4. QED BY <1>2, <1>3, <1>5, <2>2, <2>3, BetweenCalls
<1>7. CASE VshInitAgain
  <2>1. g_state /\ g_state' = g_state /\ NextCall /\ pass' = pass /\ Ready' = Ready
    BY <1>7 DEF VshInitAgain, globals, Ready
  <2>2. PlaceInv' /\ ReportedInv' /\ submitted' = FALSE
    BY <1>1, <1>3, <2>1, NextCallPlace
  <2>3. VerdictInv'
    BY <1>1, <1>3, <2>1 DEF VerdictInv
  <2>4. QED BY <1>2, <1>3, <1>5, <2>2, <2>3, BetweenCalls
<1>8. QED BY <1>6, <1>7

\* A write to NULL happens only if VshInit did not make the vertices.
LEMMA WriteToNullKeeps ==
  ASSUME IInv, WriteToNull
  PROVE  IInv'
<1>1. /\ ~Ended /\ instruction.op = "array" /\ submitted = FALSE /\ g_array_v1 = "null"
      /\ PlaceInv /\ QueueInv /\ ReportedInv /\ FaultInv
  BY DEF IInv, WriteToNull, At, PlaceInv
<1>2. /\ crashed' = TRUE /\ UNCHANGED gpu /\ fault' = fault /\ dropped' = dropped
      /\ result' = result /\ reported' = reported /\ pass' = pass
      /\ test' = test /\ pc' = pc /\ submitted' = submitted /\ first' = first
      /\ g_state' = g_state /\ g_array_v1' = g_array_v1
  BY DEF WriteToNull, globals, gpu, position
<1>3. pushbuffer = <<>> /\ result = <<>> /\ g_state
  BY <1>1 DEF PlaceInv, QueueInv
<1>4. Ended' /\ ~AtRounding /\ ~AtRounding'
  BY <1>1, <1>2 DEF Ended, AtRounding, At
<1>5. PlaceInv'
  BY <1>1, <1>2, <1>4 DEF PlaceInv
<1>6. ReportedInv'
  BY <1>1, <1>2, <1>4 DEF ReportedInv
<1>7. VerdictInv'
  BY <1>1, <1>2, <1>3 DEF VerdictInv, Ready
<1>8. FaultInv'
  <2>1. test' = test /\ pass' = pass
    BY <1>2
  <2>2. QED BY <1>1, <1>2, <2>1, FaultKept
<1>9. QED BY <1>1, <1>2, <1>3, <1>5, <1>6, <1>7, <1>8, BetweenCalls

\* When a call has written its commands, each of its results is awaited.
LEMMA SubmitKeeps ==
  ASSUME IInv, Submit
  PROVE  IInv'
<1> DEFINE call == instruction
           q == Commands(call)
<1>1. /\ ~Ended /\ call.op # "init" /\ submitted = FALSE
      /\ PlaceInv /\ QueueInv /\ CellsInv /\ ReportedInv /\ VerdictInv /\ FaultInv
  BY DEF IInv, Submit, At, PlaceInv
<1>2. /\ test' = test /\ pc' = pc /\ first' = first /\ submitted' = TRUE
      /\ constants' = constants /\ shader' = shader /\ pixels' = pixels
      /\ fault' = fault /\ dropped' = dropped
      /\ g_state' = g_state /\ g_array_positions' = g_array_positions
      /\ result' = result /\ reported' = reported /\ pass' = pass /\ crashed' = crashed
      /\ pushbuffer' = pushbuffer \o q
      /\ (call.op = "array" => g_array_v1 # "null")
      /\ g_array_v1' = IF call.op = "array" THEN "kV0" ELSE g_array_v1
  BY DEF Submit, verdicts
<1>3. instruction' = call /\ Count(instruction)' = Count(instruction) /\ Ended' = Ended
  BY <1>2, SameCall DEF Ended
<1>4. IsCall(call)
  BY <1>1, TheCall
<1>5. IsSequence(q) /\ \A k \in 1 .. Count(call) : \E j \in 1 .. Len(q) : Awaited(call, k, q, j)
  BY <1>4, CallsWillMake DEF WillMake
<1>6. pushbuffer' = q
  <2> HIDE DEF q
  <2>1. pushbuffer = <<>>
    BY <1>1 DEF QueueInv
  <2>2. PICK S : q \in Seq(S)
    BY <1>5 DEF IsSequence
  <2>3. <<>> \o q = q
    BY <2>2
  <2>4. QED BY <1>2, <2>1, <2>3
<1>7. result = <<>> /\ result' = <<>>
  BY <1>1, <1>2 DEF QueueInv
<1>8. PlaceInv'
  BY <1>1, <1>2, <1>3 DEF PlaceInv, AtRounding, At
<1>9. QueueInv'
  <2>1. IsSequence(pushbuffer')
    BY <1>5, <1>6
  <2> HIDE DEF q
  <2>2. QED BY <1>2, <1>3, <1>7, <2>1 DEF QueueInv, IsSequence
<1>10. CellsInv'
  BY <1>1, <1>2 DEF CellsInv, Screen, Registers
<1>11. ResultsInv'
  <2>1. ASSUME NEW k \in 1 .. Count(call), NEW j \in 1 .. Len(q), Awaited(call, k, q, j)
        PROVE  Awaited(instruction, k, pushbuffer, j)'
    <3>1. /\ q[j] = Maker(call, k)
          /\ \A need \in Needs(call, k) : WillHold(q, j - 1, need[1], Cell(need[1]), need[2])
          /\ \A m \in j + 1 .. Len(q) : ~Sets(q[m], Place(call, k))
      BY <2>1 DEF Awaited
    <3>2. \A x : Cell(x)' = Cell(x)
      BY <1>2 DEF Cell
    <3>3. /\ Needs(call, k)' = Needs(call, k) /\ Place(call, k)' = Place(call, k)
          /\ Maker(call, k)' = Maker(call, k)
      BY <1>2, SameCall
    <3>4. pushbuffer'[j] = Maker(call, k)'
      BY <1>6, <3>1, <3>3
    <3>5. \A need \in Needs(call, k)' : WillHold(pushbuffer', j - 1, need[1], Cell(need[1])', need[2])
      BY <1>6, <3>1, <3>2, <3>3
    <3>6. \A m \in j + 1 .. Len(pushbuffer') : ~Sets(pushbuffer'[m], Place(call, k)')
      BY <1>6, <3>1, <3>3
    <3> HIDE DEF q
    <3>7. QED BY <3>4, <3>5, <3>6 DEF Awaited, WillHold
  <2> HIDE DEF q
  <2>2. \A k \in 1 .. Count(instruction)' : \E j \in 1 .. Len(pushbuffer') : Awaited(instruction, k, pushbuffer, j)'
    BY <1>3, <1>5, <1>6, <2>1
  <2>3. QED BY <1>7, <2>2 DEF ResultsInv
<1>12. ReportedInv'
  BY <1>1, <1>2, <1>3 DEF ReportedInv, AtRounding, At, ReportedCase, IsSequence
<1>13. VerdictInv'
  BY <1>1, <1>2 DEF VerdictInv, Ready
<1>14. FaultInv'
  <2>1. test' = test /\ pass' = pass
    BY <1>2
  <2>2. QED BY <1>1, <1>2, <2>1, FaultKept
<1>15. QED BY <1>8, <1>9, <1>10, <1>11, <1>12, <1>13, <1>14 DEF IInv

-----------------------------------------------------------------------------
(* The thread reads the results *)

\* RDI reads a register from its last component to its first, and the program
\* turns it round.
LEMMA Reversed ==
  ASSUME NEW n \in Nat, NEW f, f = [j \in 1 .. n |-> f[j]]
  PROVE  Reverse(Reverse(f)) = f
<1> DEFINE g == [j \in 1 .. n |-> f[(n - j) + 1]]
           h == [j \in 1 .. n |-> g[(n - j) + 1]]
<1>1. Len(f) = n
  BY Listed
<1>2. Reverse(f) = g
  BY <1>1 DEF Reverse
<1>3. Len(g) = n
  <2>1. g = [j \in 1 .. n |-> g[j]]
    OBVIOUS
  <2> HIDE DEF g
  <2>2. QED BY <2>1, Listed
<1>4. Reverse(g) = h
  <2> HIDE DEF g
  <2>1. QED BY <1>3 DEF Reverse
<1>5. ASSUME NEW j \in 1 .. n PROVE h[j] = f[j]
  <2>1. (n - j) + 1 \in 1 .. n /\ (n - ((n - j) + 1)) + 1 = j
    OBVIOUS
  <2>2. h[j] = g[(n - j) + 1]
    OBVIOUS
  <2>3. g[(n - j) + 1] = f[(n - ((n - j) + 1)) + 1]
    BY <2>1
  <2>4. QED BY <2>1, <2>2, <2>3
<1>6. h = [j \in 1 .. n |-> h[j]]
  OBVIOUS
<1> HIDE DEF g, h
<1>7. h = f
  <2>1. [j \in 1 .. n |-> h[j]] = [j \in 1 .. n |-> f[j]]
    BY <1>5
  <2>2. QED BY <1>6, <2>1
<1>8. QED BY <1>2, <1>4, <1>7

\* What a register read back holds, when it holds what the call made of it.
LEMMA ReadBack ==
  ASSUME NEW call, ~ByQuads(call), NEW k, call.op \in {"rounding", "array"},
         constants[kFirstOutput + k - 1] \in Own(call, k)
  PROVE  ReadConstant(kFirstOutput + k - 1) = Returned(call, constants[kFirstOutput + k - 1])
<1> DEFINE v == constants[kFirstOutput + k - 1]
           w == Components(v)
<1>1. Width \in Nat
  BY Sizes
<1>2. \E f : v = Vector([j \in 1 .. Width |-> f[j]])
  <2>1. \A c : All(c) = [j \in 1 .. Width |-> All(c)[j]]
    BY DEF All
  <2>2. OwnVector(k) = [j \in 1 .. Width |-> OwnVector(k)[j]]
    BY DEF OwnVector
  <2>3. CASE v = Untouched(call)
    BY <2>1, <2>3 DEF Untouched
  <2>4. CASE v # Untouched(call)
    <3>1. v \in Makes(call, k)
      BY <2>4 DEF Own
    <3>2. v \in {Vector(OwnVector(k)), Vector(All(<<1, "kV0">>))}
      BY <2>4, <3>1 DEF Makes, Written
    <3>3. QED BY <2>1, <2>2, <3>2
  <2>5. QED BY <2>3, <2>4
<1>3. PICK f : v = Vector([j \in 1 .. Width |-> f[j]])
  BY <1>2
<1>4. w = [j \in 1 .. Width |-> f[j]]
  <2>1. v[1] = "vector" /\ v[2] = [j \in 1 .. Width |-> f[j]]
    BY <1>3 DEF Vector
  <2>2. w = v[2]
    BY <2>1 DEF Components
  <2>3. QED BY <2>1, <2>2
<1>5. w = [j \in 1 .. Width |-> w[j]]
  BY <1>4
<1> HIDE DEF v, w
<1>6. Reverse(Reverse(w)) = w
  BY <1>1, <1>5, Reversed
<1>7. ReadConstant(kFirstOutput + k - 1) = IF fault = "rdi_order" THEN Reverse(w) ELSE w
  BY <1>6 DEF ReadConstant, Rdi, v, w
<1>8. QED BY <1>7 DEF Returned, v, w

\* When the push buffer is empty each result has been made, and that is what
\* the thread reads.
LEMMA CollectKeeps ==
  ASSUME IInv, Collect
  PROVE  IInv'
<1> DEFINE call == instruction
<1>1. /\ ~Ended /\ submitted /\ result = <<>> /\ pushbuffer = <<>>
      /\ call.op \in {"probes", "raw", "rounding", "array"}
      /\ result' = IF ByQuads(call) THEN ReadProbes(Len(call.inputs))
                   ELSE [k \in 1 .. OutputCount(call.shader) |-> ReadConstant(kFirstOutput + k - 1)]
      /\ PlaceInv /\ QueueInv /\ CellsInv /\ ResultsInv /\ ReportedInv /\ VerdictInv /\ FaultInv
  BY DEF IInv, Collect, Finished, At, ByQuads
<1>2. /\ test' = test /\ pc' = pc /\ first' = first /\ submitted' = submitted
      /\ constants' = constants /\ pixels' = pixels /\ pushbuffer' = pushbuffer
      /\ fault' = fault /\ dropped' = dropped
      /\ g_state' = g_state /\ g_array_positions' = g_array_positions /\ g_array_v1' = g_array_v1
      /\ reported' = reported /\ pass' = pass /\ crashed' = crashed
  BY DEF Collect, position, gpu, globals
<1>3. instruction' = call /\ Count(call)' = Count(call) /\ Ended' = Ended
  BY <1>2, SameCall DEF Ended
<1>4. IsCall(call)
  BY <1>1, TheCall
<1>5. \A k \in 1 .. Count(call) : Cell(Place(call, k)) \in Own(call, k)
  <2>1. Len(pushbuffer) = 0 /\ ~\E j \in 1 .. 0 : TRUE
    <3>1. Len(<<>>) = 0
      OBVIOUS
    <3>2. QED BY <1>1, <3>1
  <2>2. \A k \in 1 .. Count(call) : Made(call, k, pushbuffer)
    BY <1>1, <2>1 DEF ResultsInv
  <2>3. QED BY <2>2 DEF Made
<1>6. Count(call) \in Nat \ {0}
  <2>1. OutputCount(call.shader) \in Nat \ {0}
    BY Counts
  <2>2. ByQuads(call) => Len(call.inputs) \in Nat \ {0}
    <3>1. ByQuads(call) => Len(call.inputs) \in 1 .. 3
      BY <1>4 DEF IsCall, IsProbes, IsRaw, IsRounding, IsArray, ByQuads
    <3>2. \A N \in 1 .. 3 : N \in Nat \ {0}
      OBVIOUS
    <3>3. QED BY <3>1, <3>2
  <2>3. QED BY <2>1, <2>2 DEF Count
<1>7. \A k \in 1 .. Count(call) : result'[k] = Returned(call, Cell(Place(call, k)))
  <2>1. CASE ByQuads(call)
    <3>1. \A k \in 1 .. Count(call) : result'[k] = pixels[PositionOf(k)]
      BY <1>1, <2>1 DEF Count, ReadProbes
    <3>2. \A k : Cell(Place(call, k)) = pixels[PositionOf(k)]
      BY <2>1 DEF Cell, Place, PixelAt
    <3>3. QED BY <2>1, <3>1, <3>2 DEF Returned
  <2>2. CASE ~ByQuads(call)
    <3>1. \A k \in 1 .. Count(call) : result'[k] = ReadConstant(kFirstOutput + k - 1)
      BY <1>1, <2>2 DEF Count
    <3>2. \A k : Cell(Place(call, k)) = constants[kFirstOutput + k - 1]
      BY <2>2 DEF Cell, Place, Register
    <3>3. call.op \in {"rounding", "array"}
      BY <1>1, <2>2 DEF ByQuads
    <3>4. \A k \in 1 .. Count(call) :
            ReadConstant(kFirstOutput + k - 1) = Returned(call, constants[kFirstOutput + k - 1])
      BY <1>5, <2>2, <3>2, <3>3, ReadBack
    <3>5. QED BY <3>1, <3>2, <3>4
  <2>3. QED BY <2>1, <2>2
<1>8. IsSequence(result') /\ Len(result') = Count(call)
  <2>1. result' = [k \in 1 .. Count(call) |-> result'[k]]
    BY <1>1 DEF Count, ReadProbes
  <2>2. QED BY <1>6, <2>1, Listed
<1>9. result' # <<>>
  <2>1. Len(<<>>) = 0
    OBVIOUS
  <2>2. QED BY <1>6, <1>8, <2>1
<1>10. ResultsInv'
  <2>1. \A k : Own(call, k)' = Own(call, k)
    BY <1>2, <1>3, SameCall DEF Own
  <2>2. \A k \in 1 .. Len(result') : \E value \in Own(call, k)' : result'[k] = Returned(call, value)
    BY <1>5, <1>7, <1>8, <2>1
  <2>3. \A k \in 1 .. Len(result') : \E value \in Own(instruction, k)' : result'[k] = Returned(instruction, value)'
    BY <1>2, <1>3, <2>2 DEF Returned, Components, All, ByQuads
  <2>4. Len(result') = Count(instruction)'
    BY <1>3, <1>8
  <2>5. QED BY <1>8, <1>9, <2>3, <2>4 DEF ResultsInv, IsSequence
<1>11. PlaceInv'
  BY <1>1, <1>2, <1>3 DEF PlaceInv, AtRounding, At
<1>12. QueueInv'
  BY <1>1, <1>2, <1>3 DEF QueueInv, IsSequence
<1>13. CellsInv'
  BY <1>1, <1>2 DEF CellsInv, Screen, Registers
<1>14. ReportedInv'
  BY <1>1, <1>2, <1>3 DEF ReportedInv, AtRounding, At, ReportedCase, IsSequence
<1>15. VerdictInv'
  BY <1>1, <1>2 DEF VerdictInv, Ready
<1>16. FaultInv'
  <2>1. test' = test /\ pass' = pass
    BY <1>2
  <2>2. QED BY <1>1, <1>2, <2>1, FaultKept
<1>17. QED BY <1>10, <1>11, <1>12, <1>13, <1>14, <1>15, <1>16 DEF IInv

-----------------------------------------------------------------------------
(* The thread reports what it read *)

\* The results of a rounding call, in the order of its cases: each is of the
\* case it is reported for, or the sentinel if a draw was dropped.
Expected(r) ==
    {<<first + ReportedCase(r), instruction.shader>>} \cup (IF dropped THEN {Sentinel} ELSE {})

\* A draw takes at most CasesPerDraw of the cases that are left.
LEMMA Batches ==
  ASSUME PlaceInv, NEW s, s = instruction.shader
  PROVE  /\ first \in Nat /\ CaseCount \in Nat /\ first < CaseCount
         /\ CasesPerDraw(s) \in Nat \ {0} /\ Batch \in Nat \ {0} /\ Batch <= CasesPerDraw(s)
         /\ Batch <= CaseCount - first
         /\ first + CasesPerDraw(s) < CaseCount => Batch = CasesPerDraw(s)
         /\ ~(first + CasesPerDraw(s) < CaseCount) => Batch = CaseCount - first
<1>1. first \in Nat /\ CaseCount \in Nat /\ first < CaseCount
  BY Sizes DEF PlaceInv
<1>2. CasesPerDraw(s) \in Nat \ {0}
  <2>1. kBinaryOutputs * Width \in Nat \ {0} /\ kBinaryOutputs \in Nat \ {0} /\ Width \in Nat \ {0}
    BY Sizes
  <2>2. QED BY <2>1 DEF CasesPerDraw
<1> DEFINE d == CasesPerDraw(s)
<1>3. Batch = IF CaseCount - first < d THEN CaseCount - first ELSE d
  BY DEF Batch
<1> HIDE DEF d
<1>4. QED BY <1>1, <1>2, <1>3 DEF d

\* What a result of a rounding call holds.
LEMMA RoundingResult ==
  ASSUME ResultsInv, IsRounding(instruction), submitted, result # <<>>, fault = "none",
         NEW q \in 1 .. OutputCount(instruction.shader), NEW j \in 1 .. Width
  PROVE  result[q][j] \in {OwnVector(q)[j]} \cup (IF dropped THEN {Sentinel} ELSE {})
<1> DEFINE call == instruction
<1>1. call.op = "rounding" /\ ~ByQuads(call)
  BY DEF IsRounding, ByQuads
<1>2. q \in 1 .. Len(result)
  BY <1>1 DEF ResultsInv, Count
<1>3. PICK value \in Own(call, q) : result[q] = Components(value)
  BY <1>1, <1>2 DEF ResultsInv, Returned
<1>4. \A f : Components(Vector(f)) = f
  BY DEF Components, Vector
<1>5. CASE value = Vector(OwnVector(q))
  BY <1>3, <1>4, <1>5
<1>6. CASE dropped /\ value = Vector(All(Sentinel))
  <2>1. result[q] = All(Sentinel)
    BY <1>3, <1>4, <1>6
  <2>2. result[q][j] = Sentinel
    BY <2>1 DEF All
  <2>3. QED BY <1>6, <2>2
<1>7. value = Vector(OwnVector(q)) \/ (dropped /\ value = Vector(All(Sentinel)))
  <2>1. Makes(call, q) = {Vector(OwnVector(q))} /\ Untouched(call) = Vector(All(Sentinel))
    BY <1>1 DEF Makes, Written, Untouched
  <2>2. value \in Makes(call, q) \/ (dropped /\ value = Untouched(call))
    BY <1>3 DEF Own
  <2>3. QED BY <2>1, <2>2
<1>8. QED BY <1>5, <1>6, <1>7

\* Each report is of the case it is reported for.
LEMMA ReportsExpected ==
  ASSUME PlaceInv, ResultsInv, IsRounding(instruction), submitted, result # <<>>
  PROVE  /\ IsSequence(Reports) /\ Len(Reports) = Batch * ReportsPerCase(instruction.shader)
         /\ fault = "none" => \A r \in 1 .. Len(Reports) : Reports[r] \in Expected(r)
<1> DEFINE s == instruction.shader
           n == ReportsPerCase(s)
<1>1. /\ Batch \in Nat \ {0} /\ Batch <= CasesPerDraw(s) /\ n \in Nat \ {0} /\ first \in Nat
      /\ Width \in Nat \ {0} /\ Width > 1 /\ OutputCount(s) \in Nat
  BY Batches, Counts, Sizes
<1>2. Batch * n \in Nat
  BY <1>1
<1>3. IsSequence(Reports) /\ Len(Reports) = Batch * n
  <2>1. Reports = [r \in 1 .. Batch * n |-> Reports[r]]
    BY DEF Reports
  <2>2. QED BY <1>2, <2>1, Listed
<1>4. ASSUME fault = "none", NEW r \in 1 .. Batch * n PROVE Reports[r] \in Expected(r)
  <2> DEFINE k == ReportedCase(r)
             q == 1 + ((r - 1) % n)
  <2>1. Reports[r] = ResultOf(s, k, q)
    BY DEF Reports
  <2>2. k \in 1 .. Batch /\ q \in 1 .. n
    <3> DEFINE d == (r - 1) \div n
               m == (r - 1) % n
    <3>1. r - 1 \in Int /\ r - 1 >= 0 /\ r - 1 < Batch * n
      BY <1>2
    <3>2. d \in Nat /\ m \in 0 .. n - 1 /\ r - 1 = n * d + m
      BY <1>1, <3>1, Division
    <3>3. k = d + 1 /\ q = 1 + m
      BY DEF ReportedCase
    <3> HIDE DEF d, m, n, k, q
    <3>4. n * d < Batch * n
      <4>1. n * d \in Int /\ Batch * n \in Int
        BY <1>1, <3>2
      <4>2. QED BY <1>1, <3>1, <3>2, <4>1
    <3>5. d < Batch
      BY <1>1, <3>2, <3>4
    <3>6. QED BY <1>1, <3>2, <3>3, <3>5
  <2> HIDE DEF k, q
  <2>3. \A v : \A j \in 1 .. Width : (CaseAt(s, IF s = "kRoundDot" THEN j - 1 ELSE v - 1, j) = k)
            => OwnVector(v)[j] = <<first + k, s>>
    BY <2>2 DEF OwnVector
  <2>4. CASE s = "kRoundDst"
    <3>1. k \in 1 .. OutputCount(s) /\ 2 \in 1 .. Width
      BY <1>1, <2>2, <2>4 DEF CasesPerDraw, OutputCount
    <3>2. CaseAt(s, k - 1, 2) = k
      BY <2>2, <2>4 DEF CaseAt
    <3>3. OwnVector(k)[2] = <<first + k, s>>
      BY <2>3, <2>4, <3>1, <3>2
    <3>4. ResultOf(s, k, q) = result[k][2]
      BY <2>4 DEF ResultOf
    <3>5. QED BY <2>1, <3>1, <3>3, <3>4, <1>4, RoundingResult DEF Expected, k
  <2>5. CASE s = "kRoundDot"
    <3>1. q \in 1 .. OutputCount(s) /\ k \in 1 .. Width
      BY <1>1, <2>2, <2>5 DEF CasesPerDraw, ReportsPerCase
    <3>2. CaseAt(s, k - 1, k) = k
      BY <2>2, <2>5 DEF CaseAt
    <3>3. OwnVector(q)[k] = <<first + k, s>>
      BY <2>3, <2>5, <3>1, <3>2
    <3>4. ResultOf(s, k, q) = result[q][k]
      BY <2>5 DEF ResultOf
    <3>5. QED BY <2>1, <3>1, <3>3, <3>4, <1>4, RoundingResult DEF Expected, k
  <2>6. CASE s # "kRoundDst" /\ s # "kRoundDot"
    <3> DEFINE w == Width
               v == (k - 1) \div w
               m == (k - 1) % w
               B == kBinaryOutputs
    <3>1. k - 1 \in Int /\ k - 1 >= 0 /\ w \in Nat \ {0} /\ Batch \in Nat
      BY <1>1, <2>2
    <3>2. v \in Nat /\ m \in 0 .. w - 1 /\ k - 1 = w * v + m
      BY <3>1, Division
    <3>3. Batch <= B * w /\ B \in Nat /\ OutputCount(s) = B
      BY <1>1, <2>6, Sizes DEF CasesPerDraw, OutputCount
    <3>4. ResultOf(s, k, q) = result[v + 1][1 + m]
      BY <2>6 DEF ResultOf
    <3>5. CaseAt(s, v, 1 + m) = v * w + (1 + m)
      BY <2>6 DEF CaseAt
    <3> HIDE DEF w, v, m, B
    <3>6. v < B
      <4>1. w * v \in Int /\ B * w \in Int /\ k - 1 < B * w
        BY <2>2, <3>1, <3>2, <3>3
      <4>2. w * v < B * w
        BY <3>1, <3>2, <4>1
      <4>3. QED BY <3>1, <3>2, <3>3, <4>2
    <3>7. v + 1 \in 1 .. OutputCount(s) /\ 1 + m \in 1 .. w /\ (v + 1) - 1 = v
      BY <3>1, <3>2, <3>3, <3>6
    <3>8. v * w + (1 + m) = k
      BY <2>2, <3>1, <3>2
    <3>9. OwnVector(v + 1)[1 + m] = <<first + k, s>>
      BY <2>3, <2>6, <3>5, <3>7, <3>8 DEF w
    <3>10. result[v + 1][1 + m] \in {<<first + k, s>>} \cup (IF dropped THEN {Sentinel} ELSE {})
      BY <1>4, <3>7, <3>9, RoundingResult DEF w
    <3>11. QED BY <2>1, <3>4, <3>10 DEF Expected, k
  <2>7. QED BY <2>4, <2>5, <2>6
<1>5. QED BY <1>3, <1>4

\* With those of the batches before, the results of the cases so far.
LEMMA AllReports ==
  ASSUME PlaceInv, ResultsInv, ReportedInv, AtRounding, submitted, result # <<>>
  PROVE  LET all == reported \o Reports
         IN  /\ IsSequence(all) /\ Len(all) = (first + Batch) * ReportsPerCase(instruction.shader)
             /\ fault = "none" =>
                  \A r \in 1 .. Len(all) : all[r] \in {<<ReportedCase(r), instruction.shader>>, Sentinel}
<1> DEFINE s == instruction.shader
           n == ReportsPerCase(s)
           all == reported \o Reports
<1>1. IsRounding(instruction) /\ ~Ended
  BY TheCall DEF AtRounding, At, IsCall, IsProbes, IsRaw, IsRounding, IsArray
<1>2. /\ IsSequence(reported) /\ Len(reported) = first * n
      /\ fault = "none" => \A r \in 1 .. Len(reported) : reported[r] \in {<<ReportedCase(r), s>>, Sentinel}
  BY DEF ReportedInv
<1>3. /\ IsSequence(Reports) /\ Len(Reports) = Batch * n
      /\ fault = "none" => \A r \in 1 .. Len(Reports) : Reports[r] \in {<<first + ReportedCase(r), s>>, Sentinel}
  BY <1>1, ReportsExpected DEF Expected
<1>4. /\ IsSequence(all) /\ Len(all) = Len(reported) + Len(Reports)
      /\ \A r \in 1 .. Len(reported) : all[r] = reported[r]
      /\ \A r \in 1 .. Len(Reports) : all[Len(reported) + r] = Reports[r]
  <2>1. IsSequence(reported) /\ IsSequence(Reports)
    BY <1>2, <1>3
  <2>2. QED BY <2>1, InTwo
<1>5. n \in Nat \ {0} /\ first \in Nat /\ Batch \in Nat \ {0}
  BY Batches, Counts
<1> HIDE DEF all
<1>6. Len(all) = (first + Batch) * n
  <2> HIDE DEF n
  <2>1. first * n + Batch * n = (first + Batch) * n
    BY <1>5
  <2>2. QED BY <1>2, <1>3, <1>4, <2>1
<1>7. ASSUME fault = "none", NEW r \in 1 .. Len(all) PROVE all[r] \in {<<ReportedCase(r), s>>, Sentinel}
  <2>1. first * n \in Nat /\ Batch * n \in Nat /\ Len(all) = first * n + Batch * n
    BY <1>2, <1>3, <1>4, <1>5
  <2>2. CASE r \in 1 .. Len(reported)
    BY <1>2, <1>4, <1>7, <2>2
  <2>3. CASE r \notin 1 .. Len(reported)
    <3> DEFINE i == r - first * n
    <3>1. i \in 1 .. Batch * n /\ r = first * n + i
      <4> HIDE DEF n
      <4>1. QED BY <1>2, <2>1, <2>3
    <3>2. all[r] = Reports[i]
      <4> HIDE DEF n, i
      <4>1. QED BY <1>2, <1>3, <1>4, <3>1
    <3>3. ReportedCase(r) = first + ReportedCase(i)
      <4> DEFINE d == (i - 1) \div n
                 m == (i - 1) % n
      <4>1. i - 1 \in Int
        BY <3>1
      <4>2. d \in Int /\ m \in 0 .. n - 1 /\ i - 1 = n * d + m
        BY <1>5, <4>1, Division
      <4>3. ReportedCase(i) = d + 1 /\ ReportedCase(r) = (r - 1) \div n + 1
        BY DEF ReportedCase
      <4> HIDE DEF d, m, n, i
      <4>4. r - 1 = n * (first + d) + m /\ first + d \in Int
        <5>1. n * (first + d) = first * n + n * d
          BY <1>5, <4>2
        <5>2. QED BY <1>5, <2>1, <3>1, <4>2, <5>1
      <4>5. (r - 1) \div n = first + d
        BY <1>5, <4>2, <4>4, OnlyQuotient
      <4>6. QED BY <1>5, <4>2, <4>3, <4>5
    <3>4. Reports[i] \in {<<first + ReportedCase(i), s>>, Sentinel}
      BY <1>3, <1>7, <3>1
    <3>5. QED BY <3>2, <3>3, <3>4
  <2>4. QED BY <2>2, <2>3
<1>8. QED BY <1>4, <1>6, <1>7 DEF all

\* What a report leaves.
LEMMA Reporting ==
  ASSUME IInv, ~Ended, NEW ok, Report(ok), fault = "none" /\ ~dropped => ok,
         fault # "none" /\ test = Detector => ~ok, test' \in {test, test + 1}
  PROVE  /\ UNCHANGED gpu /\ result' = <<>> /\ pushbuffer = <<>> /\ VerdictInv' /\ FaultInv'
         /\ crashed' = crashed /\ g_state' = g_state /\ (instruction.op # "init" => g_state')
<1>1. /\ submitted /\ result # <<>> /\ result' = <<>> /\ pass' = (pass /\ ok)
      /\ UNCHANGED gpu /\ fault' = fault /\ dropped' = dropped /\ crashed' = crashed
      /\ g_state' = g_state /\ g_array_positions' = g_array_positions /\ g_array_v1' = g_array_v1
  BY DEF Report, gpu, globals
<1>2. pushbuffer = <<>> /\ (instruction.op # "init" => g_state')
  BY <1>1 DEF IInv, QueueInv, PlaceInv
<1>3. VerdictInv'
  <2>1. Ready' = Ready
    BY <1>1 DEF Ready
  <2>2. fault' = "none" /\ ~dropped' /\ (g_state' => Ready') => fault = "none" /\ ~dropped /\ pass /\ ~crashed
    BY <1>1, <2>1 DEF IInv, VerdictInv
  <2>3. fault = "none" /\ ~dropped /\ pass => pass'
    BY <1>1
  <2>4. ~crashed => ~crashed'
    BY <1>1
  <2>5. QED BY <2>2, <2>3, <2>4 DEF VerdictInv
<1>4. FaultInv'
  <2>1. FaultInv /\ test \in Int /\ Detector \in Int
    BY TestsAreTests DEF IInv, PlaceInv, Detector
  <2>2. fault # "none" => ~dropped /\ (test > Detector => ~pass)
    BY <2>1 DEF FaultInv
  <2>3. test' > Detector => test > Detector \/ test = Detector
    BY <2>1
  <2>4. fault # "none" /\ test' > Detector => ~pass'
    <3>1. ~pass => ~pass'
      BY <1>1
    <3>2. ~ok => ~pass'
      BY <1>1
    <3>3. QED BY <2>2, <2>3, <3>1, <3>2
  <2>5. Detector' = Detector /\ Faults' = Faults
    BY <1>1 DEF Detector, Faults
  <2>6. QED BY <1>1, <2>1, <2>2, <2>4, <2>5 DEF FaultInv
<1>5. QED BY <1>1, <1>2, <1>3, <1>4

\* The call of the test that finds a fault.
LEMMA DetectorCall ==
  ASSUME IInv, ~Ended, instruction.op # "init", test = Detector
  PROVE  instruction = CASE test = 1 -> Probes("kOffset0", <<0, -1>>, 0)
                         [] test = 2 -> Probes("kOffset0", <<0, kVshConstantCount - 1, kVshConstantCount>>, 0)
                         [] test = 6 -> Rounding("kRoundMul")
<1>1. test \in {1, 2, 6}
  BY DEF Detector
<1>2. pc \in 1 .. Len(Tests[test]) /\ pc # 1
  BY TheCall DEF IInv
<1>3. Len(Tests[test]) = 2
  BY <1>1, Detectors
<1>4. pc = 2
  BY <1>2, <1>3
<1>5. instruction = Tests[test][2]
  BY <1>4 DEF instruction
<1>6. QED BY <1>1, <1>5, Detectors

\* Only reads relative to A0 and a rounding table find a fault.
LEMMA NoOtherDetects ==
  ASSUME IInv, ~Ended, instruction.op # "init", test = Detector
  PROVE  instruction.op \in {"probes", "rounding"}
<1>1. test \in {1, 2, 6}
  BY DEF Detector
<1>2. instruction = CASE test = 1 -> Probes("kOffset0", <<0, -1>>, 0)
                      [] test = 2 -> Probes("kOffset0", <<0, kVshConstantCount - 1, kVshConstantCount>>, 0)
                      [] test = 6 -> Rounding("kRoundMul")
  BY DetectorCall
<1>3. QED BY <1>1, <1>2 DEF Probes, Rounding

\* What a call that drew with quads, or one for vectors, has read if no draw
\* was dropped.
LEMMA ReadAsMade ==
  ASSUME IInv, submitted, result # <<>>, ~dropped
  PROVE  /\ DOMAIN result = 1 .. Count(instruction)
         /\ \A k \in DOMAIN result :
                \E value \in Makes(instruction, k) : result[k] = Returned(instruction, value)
<1>1. /\ IsSequence(result) /\ Len(result) = Count(instruction)
      /\ \A m \in 1 .. Len(result) : \E value \in Own(instruction, m) : result[m] = Returned(instruction, value)
  BY DEF IInv, ResultsInv
<1>2. DOMAIN result = 1 .. Len(result)
  BY <1>1 DEF IsSequence
<1>3. \A k : Own(instruction, k) = Makes(instruction, k)
  BY DEF Own
<1>4. QED BY <1>1, <1>2, <1>3

\* The test counter stays or goes on by one.
LEMMA NextCallTest ==
  ASSUME NextCall
  PROVE  test' \in {test, test + 1}
BY DEF NextCall, NextTest

\* In its test, a read relative to A0 is of the wrong register on a GPU with
\* such a fault, and off by more than Near allows.
LEMMA ProbesFindFault ==
  ASSUME IInv, ~Ended, instruction.op = "probes", submitted, result # <<>>,
         fault # "none", test = Detector
  PROVE  \E k \in DOMAIN result :
            LET effective == instruction.inputs[k] + instruction.offset
                read == DecodeA0Read(result[k])
            IN  effective \in Registers /\ ~(read.kind = "kConstant" /\ Near(read.index, effective))
<1> DEFINE N == kVshConstantCount
           c == instruction
<1>1. /\ ~dropped /\ fault \in Faults
  BY DEF IInv, FaultInv
<1>2. /\ DOMAIN result = 1 .. Len(c.inputs)
      /\ \A k \in DOMAIN result : result[k] \in ReadByA0(c, k)
  <2>1. /\ DOMAIN result = 1 .. Count(c)
        /\ \A k \in DOMAIN result : \E value \in Makes(c, k) : result[k] = Returned(c, value)
    BY <1>1, ReadAsMade
  <2>2. Count(c) = Len(c.inputs) /\ \A value : Returned(c, value) = value
    BY DEF Count, ByQuads, Returned
  <2>3. \A k : Makes(c, k) = ReadByA0(c, k)
    BY DEF Makes
  <2>4. QED BY <2>1, <2>2, <2>3
<1>3. N \in Nat /\ N > 9 /\ Registers = 0 .. N - 1
  BY Sizes DEF Registers
<1>4. \A i : DecodeA0Read(Probe(i)).index = i
  BY DEF DecodeA0Read, Probe, Black
<1>5. DecodeA0Read(Black).kind = "kZero"
  BY DEF DecodeA0Read, Black
<1>6. \/ test = 1 /\ fault = "zeros" /\ c = Probes("kOffset0", <<0, -1>>, 0)
      \/ test = 2 /\ fault \in {"base", "short"} /\ c = Probes("kOffset0", <<0, N - 1, N>>, 0)
  <2>1. \/ test = 1 /\ fault = "zeros"
        \/ test = 2 /\ fault \in {"base", "short"}
        \/ test = 6
    BY <1>1 DEF Detector, Faults
  <2>2. c = CASE test = 1 -> Probes("kOffset0", <<0, -1>>, 0)
              [] test = 2 -> Probes("kOffset0", <<0, N - 1, N>>, 0)
              [] test = 6 -> Rounding("kRoundMul")
    BY DetectorCall
  <2>3. Rounding("kRoundMul").op # "probes"
    BY DEF Rounding
  <2>4. QED BY <2>1, <2>2, <2>3
<1>7. CASE fault = "zeros" /\ c = Probes("kOffset0", <<0, -1>>, 0)
  <2>1. Len(c.inputs) = 2 /\ c.inputs[1] = 0 /\ c.offset = 0
    BY <1>7 DEF Probes
  <2>2. 1 \in DOMAIN result /\ result[1] \in ReadByA0(c, 1)
    BY <1>2, <2>1
  <2>3. result[1] = Black
    BY <1>7, <2>2 DEF ReadByA0
  <2>4. c.inputs[1] + c.offset \in Registers
    BY <1>3, <2>1
  <2>5. QED BY <1>5, <2>2, <2>3, <2>4
<1>8. CASE fault \in {"base", "short"} /\ c = Probes("kOffset0", <<0, N - 1, N>>, 0)
  <2>1. Len(c.inputs) = 3 /\ c.inputs[2] = N - 1 /\ c.offset = 0
    BY <1>8 DEF Probes
  <2>2. 2 \in DOMAIN result /\ result[2] \in ReadByA0(c, 2)
    BY <1>2, <2>1
  <2>3. c.inputs[2] + c.offset = N - 1 /\ N - 1 \in Registers
    BY <1>3, <2>1
  <2>4. result[2] \in {Probe(0), Probe(N - 3)}
    <3>1. ~(N - 1 < 2) /\ (N - 1) - 2 = N - 3
      BY <1>3
    <3>2. CASE fault = "base"
      BY <2>1, <2>2, <3>2 DEF ReadByA0
    <3>3. CASE fault = "short"
      BY <2>2, <2>3, <3>1, <3>3 DEF ReadByA0
    <3>4. QED BY <1>8, <3>2, <3>3
  <2>5. DecodeA0Read(result[2]).index \in {0, N - 3}
    BY <1>4, <2>4
  <2>6. ~Near(DecodeA0Read(result[2]).index, N - 1)
    BY <1>3, <2>5 DEF Near
  <2>7. QED BY <2>2, <2>3, <2>6
<1>9. QED BY <1>6, <1>7, <1>8

\* In the test of MUL, the first result is not of the first case on a GPU that
\* writes no constants, or reads their components the wrong way round.
LEMMA RoundingFindsFault ==
  ASSUME IInv, ~Ended, instruction.op = "rounding", submitted, result # <<>>,
         fault # "none", test = Detector
  PROVE  \E r \in DOMAIN Reports : Reports[r] # <<first + ReportedCase(r), instruction.shader>>
<1> DEFINE s == instruction.shader
           f == OwnVector(1)
<1>1. ~dropped /\ fault \in Faults /\ PlaceInv /\ ResultsInv
  BY DEF IInv, FaultInv
<1>2. fault \in {"no_write", "rdi_order"} /\ s = "kRoundMul"
  <2>1. \/ test \in {1, 2}
        \/ test = 6 /\ fault \in {"no_write", "rdi_order"}
    BY <1>1 DEF Detector, Faults
  <2>2. instruction = CASE test = 1 -> Probes("kOffset0", <<0, -1>>, 0)
                        [] test = 2 -> Probes("kOffset0", <<0, kVshConstantCount - 1, kVshConstantCount>>, 0)
                        [] test = 6 -> Rounding("kRoundMul")
    BY DetectorCall
  <2>3. CASE test \in {1, 2}
    BY <2>2, <2>3 DEF Probes
  <2>4. CASE test = 6
    BY <2>1, <2>2, <2>4 DEF Rounding
  <2>5. QED BY <2>1, <2>3, <2>4
<1>3. Width \in Nat \ {0} /\ Width > 1 /\ first \in Nat /\ Batch \in Nat \ {0}
  BY <1>1, Batches, Sizes
<1>4. 1 \in DOMAIN Reports /\ ReportedCase(1) = 1 /\ Reports[1] = result[1][1]
  <2>1. IsSequence(Reports) /\ Len(Reports) = Batch * ReportsPerCase(s) /\ ReportsPerCase(s) = 1
    <3>1. IsRounding(instruction)
      BY <1>2 DEF IsRounding
    <3>2. QED BY <1>1, <1>2, <3>1, ReportsExpected DEF ReportsPerCase
  <2>2. DOMAIN Reports = 1 .. Len(Reports) /\ Len(Reports) = Batch
    BY <1>3, <2>1 DEF IsSequence
  <2>3. 1 \in DOMAIN Reports
    BY <1>3, <2>2
  <2>4. \A m \in Nat \ {0} : (1 - 1) \div m = 0 /\ (1 - 1) % m = 0
    <3>1. ASSUME NEW m \in Nat \ {0} PROVE (m * 0 + 0) \div m = 0 /\ (m * 0 + 0) % m = 0
      <4>1. 0 \in Int /\ 0 \in 0 .. m - 1
        OBVIOUS
      <4>2. QED BY <4>1, OnlyQuotient
    <3>2. \A m \in Nat \ {0} : m * 0 + 0 = 0 /\ 1 - 1 = 0
      OBVIOUS
    <3>3. QED BY <3>1, <3>2
  <2>5. ReportedCase(1) = 1
    BY <2>1, <2>4 DEF ReportedCase
  <2>6. Reports[1] = ResultOf(s, 1, 1 + ((1 - 1) % ReportsPerCase(s)))
    BY <2>3, <2>5 DEF Reports
  <2>7. \A q : ResultOf(s, 1, q) = result[(1 - 1) \div Width + 1][1 + ((1 - 1) % Width)]
    BY <1>2 DEF ResultOf
  <2>8. (1 - 1) \div Width + 1 = 1 /\ 1 + ((1 - 1) % Width) = 1
    BY <1>3, <2>4
  <2>9. QED BY <2>3, <2>5, <2>6, <2>7, <2>8
<1>5. PICK value \in Written(instruction, f) : result[1] = Returned(instruction, value)
  <2>1. /\ DOMAIN result = 1 .. Count(instruction)
        /\ \A k \in DOMAIN result : \E v \in Makes(instruction, k) : result[k] = Returned(instruction, v)
    BY <1>1, ReadAsMade
  <2>2. Makes(instruction, 1) = Written(instruction, f)
    BY DEF Makes
  <2>3. Count(instruction) = OutputCount(s) /\ OutputCount(s) \in 1 .. kBinaryOutputs
    BY Counts DEF Count, ByQuads
  <2>4. 1 \in 1 .. Count(instruction)
    BY <2>3, Sizes
  <2>5. QED BY <2>1, <2>2, <2>4
<1>6. /\ Untouched(instruction) = Vector(All(Sentinel)) /\ \A g : Components(Vector(g)) = g
  BY DEF Untouched, ByQuads, Components, Vector
<1>7. \A v : Returned(instruction, v) = IF fault = "rdi_order" THEN Reverse(Components(v)) ELSE Components(v)
  BY DEF Returned, ByQuads
<1>8. result[1][1] # <<first + 1, s>>
  <2>1. CASE fault = "no_write"
    <3>1. result[1] = All(Sentinel)
      BY <1>5, <1>6, <1>7, <2>1 DEF Written
    <3>2. result[1][1] = <<0, "sentinel">>
      BY <1>3, <3>1 DEF All, Sentinel
    <3>3. QED BY <1>2, <3>2
  <2>2. CASE fault = "rdi_order"
    <3>1. result[1] = Reverse(f)
      BY <1>5, <1>6, <1>7, <2>2 DEF Written
    <3>2. f = [j \in 1 .. Width |-> f[j]]
      BY DEF OwnVector
    <3>3. f[Width] \in {<<first + Width, s>>, <<0, s>>}
      <4>1. CaseAt(s, 1 - 1, Width) = Width
        BY <1>2, <1>3 DEF CaseAt
      <4>2. QED BY <1>2, <1>3, <4>1 DEF OwnVector
    <3> HIDE DEF f
    <3>4. Len(f) = Width
      BY <1>3, <3>2, Listed
    <3>5. Reverse(f)[1] = f[Width]
      <4>1. Reverse(f) = [j \in 1 .. Width |-> f[(Width - j) + 1]]
        BY <3>4 DEF Reverse
      <4>2. 1 \in 1 .. Width /\ (Width - 1) + 1 = Width
        BY <1>3
      <4>3. QED BY <4>1, <4>2
    <3>6. first + Width # first + 1 /\ 0 # first + 1
      BY <1>3
    <3>7. QED BY <3>1, <3>3, <3>5, <3>6
  <2>3. QED BY <1>2, <2>1, <2>2
<1>9. QED BY <1>4, <1>8

\* VshReportA0Probes finds no error if no draw was dropped on a GPU that works,
\* and one in its test of a fault.
LEMMA ReportA0ProbesKeeps ==
  ASSUME IInv, ReportA0Probes
  PROVE  IInv'
<1> DEFINE ok == \A k \in DOMAIN result :
                    LET effective == instruction.inputs[k] + instruction.offset
                        read == DecodeA0Read(result[k])
                    IN  effective \in Registers => read.kind = "kConstant" /\ Near(read.index, effective)
<1>1. ~Ended /\ instruction.op = "probes" /\ Report(ok) /\ NextCall /\ submitted /\ result # <<>>
  BY DEF ReportA0Probes, At, Report
<1>2. ASSUME fault = "none", ~dropped PROVE ok
  <2> SUFFICES ASSUME NEW k \in DOMAIN result, NEW effective,
                      effective = instruction.inputs[k] + instruction.offset, effective \in Registers
               PROVE  /\ DecodeA0Read(result[k]).kind = "kConstant"
                      /\ Near(DecodeA0Read(result[k]).index, effective)
    OBVIOUS
  <2>1. PICK value \in Makes(instruction, k) : result[k] = Returned(instruction, value)
    BY <1>1, <1>2, ReadAsMade
  <2>2. value = Probe(effective) /\ result[k] = value
    BY <1>1, <1>2, <2>1 DEF Makes, ReadByA0, Returned, ByQuads
  <2>3. DecodeA0Read(Probe(effective)) = [kind |-> "kConstant", index |-> effective]
    BY DEF DecodeA0Read, Probe, Black
  <2>4. effective \in Int
    BY Sizes
  <2>5. QED BY <2>2, <2>3, <2>4 DEF Near
<1>3. ASSUME fault # "none", test = Detector PROVE ~ok
  BY <1>1, <1>3, ProbesFindFault
<1> HIDE DEF ok
<1>4. test' \in {test, test + 1}
  BY <1>1, NextCallTest
<1>5. /\ UNCHANGED gpu /\ result' = <<>> /\ pushbuffer = <<>> /\ VerdictInv' /\ FaultInv'
      /\ crashed' = crashed /\ g_state'
  BY <1>1, <1>2, <1>3, <1>4, Reporting
<1>6. PlaceInv' /\ ReportedInv' /\ submitted' = FALSE
  BY <1>1, <1>5, NextCallPlace DEF IInv
<1>7. QED BY <1>5, <1>6, BetweenCalls

\* The tests of LOG find no error if no draw was dropped on a GPU that works.
LEMMA ReportLogKeeps ==
  ASSUME IInv, ReportLog
  PROVE  IInv'
<1> DEFINE ok == \A k \in DOMAIN result : result[k] = Bits(instruction.inputs[k])
<1>1. ~Ended /\ instruction.op = "raw" /\ Report(ok) /\ NextCall /\ submitted /\ result # <<>>
  BY DEF ReportLog, At, Report
<1>2. ASSUME fault = "none", ~dropped PROVE ok
  <2> SUFFICES ASSUME NEW k \in DOMAIN result PROVE result[k] = Bits(instruction.inputs[k])
    OBVIOUS
  <2>1. PICK value \in Makes(instruction, k) : result[k] = Returned(instruction, value)
    BY <1>1, <1>2, ReadAsMade
  <2>2. QED BY <1>1, <2>1 DEF Makes, Returned, ByQuads
<1>3. ASSUME fault # "none", test = Detector PROVE ~ok
  <2>1. instruction.op \in {"probes", "rounding"}
    BY <1>1, <1>3, NoOtherDetects
  <2>2. QED BY <1>1, <2>1
<1> HIDE DEF ok
<1>4. test' \in {test, test + 1}
  BY <1>1, NextCallTest
<1>5. /\ UNCHANGED gpu /\ result' = <<>> /\ pushbuffer = <<>> /\ VerdictInv' /\ FaultInv'
      /\ crashed' = crashed /\ g_state'
  BY <1>1, <1>2, <1>3, <1>4, Reporting
<1>6. PlaceInv' /\ ReportedInv' /\ submitted' = FALSE
  BY <1>1, <1>5, NextCallPlace DEF IInv
<1>7. QED BY <1>5, <1>6, BetweenCalls

\* The test of the arrays finds no error if no draw was dropped on a GPU that
\* works.
LEMMA ReportVectorsKeeps ==
  ASSUME IInv, ReportVectors
  PROVE  IInv'
<1> DEFINE ok == \A k \in DOMAIN result : result[k] = All(<<1, "kV0">>)
<1>1. ~Ended /\ instruction.op = "array" /\ Report(ok) /\ NextCall /\ submitted /\ result # <<>>
  BY DEF ReportVectors, At, Report
<1>2. ASSUME fault = "none", ~dropped PROVE ok
  <2> SUFFICES ASSUME NEW k \in DOMAIN result PROVE result[k] = All(<<1, "kV0">>)
    OBVIOUS
  <2>1. PICK value \in Makes(instruction, k) : result[k] = Returned(instruction, value)
    BY <1>1, <1>2, ReadAsMade
  <2>2. value = Vector(All(<<1, "kV0">>)) /\ result[k] = Components(value)
    BY <1>1, <1>2, <2>1 DEF Makes, Written, Returned, ByQuads
  <2>3. \A f : Components(Vector(f)) = f
    BY DEF Components, Vector
  <2>4. QED BY <2>2, <2>3
<1>3. ASSUME fault # "none", test = Detector PROVE ~ok
  <2>1. instruction.op \in {"probes", "rounding"}
    BY <1>1, <1>3, NoOtherDetects
  <2>2. QED BY <1>1, <2>1
<1> HIDE DEF ok
<1>4. test' \in {test, test + 1}
  BY <1>1, NextCallTest
<1>5. /\ UNCHANGED gpu /\ result' = <<>> /\ pushbuffer = <<>> /\ VerdictInv' /\ FaultInv'
      /\ crashed' = crashed /\ g_state'
  BY <1>1, <1>2, <1>3, <1>4, Reporting
<1>6. PlaceInv' /\ ReportedInv' /\ submitted' = FALSE
  BY <1>1, <1>5, NextCallPlace DEF IInv
<1>7. QED BY <1>5, <1>6, BetweenCalls

\* VshReportRounding finds no error if no draw was dropped on a GPU that works,
\* and one in its test of a fault; it goes on with the case after those it has
\* reported.
LEMMA ReportRoundingKeeps ==
  ASSUME IInv, ReportRounding
  PROVE  IInv'
<1> DEFINE s == instruction.shader
           n == ReportsPerCase(s)
           d == CasesPerDraw(s)
           ok == \A r \in DOMAIN Reports : Reports[r] = <<first + ReportedCase(r), s>>
<1>1. /\ ~Ended /\ instruction.op = "rounding" /\ Report(ok) /\ submitted /\ result # <<>>
      /\ IF first + d < CaseCount
         THEN /\ first' = first + d /\ submitted' = FALSE /\ reported' = reported \o Reports
              /\ test' = test /\ pc' = pc
         ELSE NextCall
  BY DEF ReportRounding, At, Report
<1>2. /\ PlaceInv /\ ResultsInv /\ ReportedInv /\ AtRounding /\ IsRounding(instruction)
  BY <1>1, TheCall DEF IInv, AtRounding, At, IsCall, IsProbes, IsRaw, IsRounding, IsArray
<1>3. ASSUME fault = "none", ~dropped PROVE ok
  <2>1. /\ IsSequence(Reports) /\ \A r \in 1 .. Len(Reports) : Reports[r] \in Expected(r)
    BY <1>1, <1>2, <1>3, ReportsExpected
  <2>2. DOMAIN Reports = 1 .. Len(Reports)
    <3>1. \A q : IsSequence(q) => DOMAIN q = 1 .. Len(q)
      BY DEF IsSequence
    <3>2. QED BY <2>1, <3>1
  <2>3. QED BY <1>3, <2>1, <2>2 DEF Expected
<1>4. ASSUME fault # "none", test = Detector PROVE ~ok
  BY <1>1, <1>4, RoundingFindsFault
<1> HIDE DEF ok
<1>5. test' \in {test, test + 1}
  BY <1>1, NextCallTest
<1>6. /\ UNCHANGED gpu /\ result' = <<>> /\ pushbuffer = <<>> /\ VerdictInv' /\ FaultInv'
      /\ crashed' = crashed /\ g_state' /\ fault' = fault
  <2>1. UNCHANGED gpu => fault' = fault
    BY DEF gpu
  <2>2. QED BY <1>1, <1>3, <1>4, <1>5, <2>1, Reporting
<1>7. CASE ~(first + d < CaseCount)
  <2>1. PlaceInv' /\ ReportedInv' /\ submitted' = FALSE
    BY <1>1, <1>2, <1>6, <1>7, NextCallPlace
  <2>2. QED BY <1>6, <2>1, BetweenCalls
<1>8. CASE first + d < CaseCount
  <2>1. /\ first' = first + d /\ submitted' = FALSE /\ test' = test /\ pc' = pc
        /\ reported' = reported \o Reports
    BY <1>1, <1>8
  <2>2. instruction' = instruction /\ Ended' = Ended
    BY <1>6, <2>1 DEF Ended, instruction
  <2>3. first' \in Nat /\ first' < CaseCount /\ first' = first + Batch
    <3> HIDE DEF d
    <3>1. first \in Nat /\ d \in Nat \ {0} /\ Batch = d
      BY <1>2, <1>8, Batches DEF d
    <3>2. QED BY <1>8, <2>1, <3>1
  <2>4. AtRounding'
    BY <1>2, <2>2 DEF AtRounding, At
  <2>5. PlaceInv'
    BY <1>2, <1>6, <2>1, <2>2, <2>3, <2>4 DEF PlaceInv
  <2>6. ReportedInv'
    <3>1. /\ IsSequence(reported') /\ Len(reported') = first' * n
          /\ fault = "none" =>
                \A r \in 1 .. Len(reported') : reported'[r] \in {<<ReportedCase(r), s>>, Sentinel}
      <4> HIDE DEF n, s
      <4>1. QED BY <1>1, <1>2, <2>1, <2>3, AllReports DEF n, s
    <3>2. ReportsPerCase(instruction.shader)' = n /\ \A r : ReportedCase(r)' = ReportedCase(r)
      BY <2>2 DEF ReportedCase, ReportsPerCase, OutputCount
    <3>3. Len(reported') = first' * ReportsPerCase(instruction.shader)'
      BY <3>1, <3>2
    <3>4. fault' = "none" =>
            \A r \in 1 .. Len(reported') : reported'[r] \in {<<ReportedCase(r)', instruction'.shader>>, Sentinel}
      BY <1>6, <2>2, <3>1, <3>2
    <3>5. QED BY <2>4, <3>1, <3>3, <3>4 DEF ReportedInv, IsSequence
  <2>7. QED BY <1>6, <2>1, <2>5, <2>6, BetweenCalls
<1>9. QED BY <1>7, <1>8

-----------------------------------------------------------------------------
(* The theorems *)

\* The invariant holds at the start.
LEMMA HoldsAtStart ==
  ASSUME Init
  PROVE  IInv
<1>1. /\ g_state = FALSE /\ pushbuffer = <<>> /\ constants = [i \in Registers |-> Other]
      /\ pixels = [p \in Screen |-> Other]
      /\ test = 1 /\ pc = 1 /\ submitted = FALSE /\ first = 0
      /\ result = <<>> /\ reported = <<>> /\ pass = TRUE /\ crashed = FALSE
  BY DEF Init, Screen
<1>2. Len(Tests) = 12 /\ IsTest(Tests[1])
  BY TestsAreTests
<1>3. ~Ended /\ instruction.op = "init"
  BY <1>1, <1>2 DEF Ended, instruction, IsTest
<1>4. PlaceInv
  <2>1. 1 \in 1 .. 12 + 1 /\ 1 \in 1 .. Len(Tests[1]) /\ 0 \in Nat /\ 0 < CaseCount
    BY <1>2, Sizes DEF IsTest
  <2>2. QED BY <1>1, <1>2, <1>3, <2>1 DEF PlaceInv
<1>5. QueueInv
  <2>1. <<>> \in Seq({})
    OBVIOUS
  <2>2. QED BY <1>1, <2>1 DEF QueueInv, IsSequence
<1>6. CellsInv
  BY <1>1 DEF CellsInv
<1>7. ResultsInv
  BY <1>1 DEF ResultsInv
<1>8. ReportedInv
  BY <1>1, <1>3 DEF ReportedInv, AtRounding, At
<1>9. VerdictInv
  BY <1>1 DEF VerdictInv
<1>10. FaultInv
  <2>1. fault \in Faults \cup {"none"} /\ dropped = FALSE
    BY DEF Init
  <2>2. Detector \in {1, 2, 6}
    BY DEF Detector
  <2>3. ~(test > Detector)
    BY <1>1, <2>2
  <2>4. QED BY <2>1, <2>3 DEF FaultInv
<1>11. QED BY <1>4, <1>5, <1>6, <1>7, <1>8, <1>9, <1>10 DEF IInv

\* It holds when nothing changes.
LEMMA HoldsWhenIdle ==
  ASSUME IInv, UNCHANGED vars
  PROVE  IInv'
<1>1. /\ g_state' = g_state /\ g_array_positions' = g_array_positions /\ g_array_v1' = g_array_v1
      /\ pushbuffer' = pushbuffer /\ constants' = constants /\ shader' = shader /\ pixels' = pixels
      /\ fault' = fault /\ dropped' = dropped
      /\ test' = test /\ pc' = pc /\ submitted' = submitted /\ first' = first
      /\ result' = result /\ reported' = reported /\ pass' = pass /\ crashed' = crashed
  BY DEF vars, globals, gpu, position, verdicts
<1>2. /\ instruction' = instruction /\ Ended' = Ended /\ AtRounding' = AtRounding /\ Ready' = Ready
      /\ Count(instruction)' = Count(instruction)
  BY <1>1, SameCall DEF Ended, AtRounding, At, Ready
<1>3. PlaceInv' /\ QueueInv' /\ CellsInv' /\ VerdictInv'
  BY <1>1, <1>2 DEF IInv, PlaceInv, QueueInv, CellsInv, VerdictInv, IsSequence, Screen, Registers
<1>4. ReportedInv'
  BY <1>1, <1>2 DEF IInv, ReportedInv, ReportedCase, ReportsPerCase, OutputCount, IsSequence
<1>5. ResultsInv'
  <2>1. \A k : /\ Own(instruction, k)' = Own(instruction, k) /\ Needs(instruction, k)' = Needs(instruction, k)
               /\ Place(instruction, k)' = Place(instruction, k) /\ Maker(instruction, k)' = Maker(instruction, k)
    BY <1>1, <1>2, SameCall DEF Own
  <2>2. \A x : Cell(x)' = Cell(x)
    BY <1>1 DEF Cell
  <2>3. \A k : Cell(Place(instruction, k))' = Cell(Place(instruction, k))
    BY <1>1, <2>1 DEF Cell
  <2>4. \A k : Made(instruction, k, pushbuffer)' <=> Made(instruction, k, pushbuffer)
    BY <1>1, <2>1, <2>3 DEF Made, Sets, kFirstOutput, PositionOf
  <2>5. \A k, j : Awaited(instruction, k, pushbuffer, j)' <=> Awaited(instruction, k, pushbuffer, j)
    BY <1>1, <2>1, <2>2 DEF Awaited, WillHold
  <2>6. \A value : Returned(instruction, value)' = Returned(instruction, value)
    BY <1>1, <1>2 DEF Returned, ByQuads, Components, All
  <2>7. QED BY <1>1, <1>2, <2>1, <2>4, <2>5, <2>6 DEF IInv, ResultsInv, IsSequence
<1>6. FaultInv'
  BY <1>1 DEF IInv, FaultInv, Faults, Detector
<1>7. QED BY <1>3, <1>4, <1>5, <1>6 DEF IInv

\* Every step of the GPU and of the thread keeps it.
LEMMA StepKeeps ==
  ASSUME IInv, [Next]_vars
  PROVE  IInv'
<1>1. CASE Gpu
  BY <1>1, GpuKeeps
<1>2. CASE Thread
  <2>1. CASE VshInit \/ VshInitAgain
    BY <2>1, InitKeeps
  <2>2. CASE Submit
    BY <2>2, SubmitKeeps
  <2>3. CASE WriteToNull
    BY <2>3, WriteToNullKeeps
  <2>4. CASE Wait
    <3>1. UNCHANGED vars
      BY <2>4 DEF Wait
    <3>2. QED BY <3>1, HoldsWhenIdle
  <2>5. CASE Collect
    BY <2>5, CollectKeeps
  <2>6. CASE ReportA0Probes
    BY <2>6, ReportA0ProbesKeeps
  <2>7. CASE ReportLog
    BY <2>7, ReportLogKeeps
  <2>8. CASE ReportRounding
    BY <2>8, ReportRoundingKeeps
  <2>9. CASE ReportVectors
    BY <2>9, ReportVectorsKeeps
  <2>10. QED BY <1>2, <2>1, <2>2, <2>3, <2>4, <2>5, <2>6, <2>7, <2>8, <2>9 DEF Thread
<1>3. CASE End \/ UNCHANGED vars
  <2>1. UNCHANGED vars
    BY <1>3 DEF End
  <2>2. QED BY <2>1, HoldsWhenIdle
<1>4. QED BY <1>1, <1>2, <1>3 DEF Next

\* What the thread and the commands that wait are about agrees with the cells,
\* and a test that could have found the fault has failed: IInv is an invariant
\* of the suite, whatever the fault of the GPU.
THEOREM Invariance == Spec => []IInv
<1>1. Init => IInv
  BY HoldsAtStart
<1>2. IInv /\ [Next]_vars => IInv'
  BY StepKeeps
<1>3. QED BY <1>1, <1>2, PTL DEF Spec

\* On a GPU that works, and drops no draw, no test fails and the program does
\* not write to NULL, if VshInit made its buffers (NoFalseFailure).
THEOREM NoTestFailsFalsely == Spec => []NoFalseFailure
<1>1. IInv => NoFalseFailure
  BY DEF IInv, VerdictInv, NoFalseFailure
<1>2. QED BY <1>1, Invariance, PTL

\* A GPU with one of Faults does not pass the suite (FaultsAreDetected).
THEOREM FaultsAreAlwaysDetected == Spec => []FaultsAreDetected
<1>1. IInv => FaultsAreDetected
  <2> SUFFICES ASSUME IInv, test > Len(Tests), fault # "none" PROVE ~pass
    BY DEF FaultsAreDetected, Ended
  <2>1. Len(Tests) = 12 /\ test \in Int
    BY TestsAreTests DEF IInv, PlaceInv
  <2>2. Detector \in {1, 2, 6}
    BY DEF Detector
  <2>3. test > Detector
    BY <2>1, <2>2
  <2>4. QED BY <2>3 DEF IInv, FaultInv
<1>2. QED BY <1>1, Invariance, PTL

\* What a call returns is of this call, even if a draw was dropped
\* (ResultsAreFresh).
THEOREM ResultsAlwaysFresh == Spec => []ResultsAreFresh
<1>1. IInv => ResultsAreFresh
  <2> SUFFICES ASSUME IInv, result # <<>>, fault = "none", NEW k \in DOMAIN result
               PROVE  result[k] \in OwnResults(k)
    BY DEF ResultsAreFresh
  <2>1. submitted /\ PlaceInv
    BY DEF IInv, QueueInv
  <2>2. /\ IsSequence(result) /\ Len(result) = Count(instruction)
        /\ \A m \in 1 .. Len(result) : \E value \in Own(instruction, m) : result[m] = Returned(instruction, value)
    BY <2>1 DEF IInv, ResultsInv
  <2>3. \A q : IsSequence(q) => DOMAIN q = 1 .. Len(q)
    BY DEF IsSequence
  <2>4. PICK value \in Own(instruction, k) : result[k] = Returned(instruction, value)
    BY <2>2, <2>3
  <2>5. value \in Makes(instruction, k) \/ value = Untouched(instruction)
    BY <2>4 DEF Own
  <2>6. \A f : Components(Vector(f)) = f
    BY DEF Components, Vector
  <2>7. instruction.op \in {"probes", "raw", "rounding", "array"}
    BY <2>1, TheCall DEF PlaceInv, IsCall, IsProbes, IsRaw, IsRounding, IsArray
  <2>8. CASE instruction.op \in {"probes", "raw"}
    <3>1. result[k] = value /\ Untouched(instruction) = Black
      BY <2>4, <2>8 DEF Returned, Untouched, ByQuads
    <3>2. CASE instruction.op = "raw"
      BY <2>5, <3>1, <3>2 DEF Makes, OwnResults
    <3>3. CASE instruction.op = "probes"
      BY <2>5, <3>1, <3>3 DEF Makes, ReadByA0, OwnResults
    <3>4. QED BY <2>8, <3>2, <3>3
  <2>9. CASE instruction.op \in {"rounding", "array"}
    <3>1. result[k] = Components(value) /\ Untouched(instruction) = Vector(All(Sentinel))
      BY <2>4, <2>9 DEF Returned, Untouched, ByQuads
    <3>2. CASE instruction.op = "rounding"
      <4>1. value \in {Vector(OwnVector(k)), Vector(All(Sentinel))}
        BY <2>5, <3>1, <3>2 DEF Makes, Written
      <4>2. result[k] \in {OwnVector(k), All(Sentinel)}
        BY <2>6, <3>1, <4>1
      <4>3. QED BY <3>2, <4>2 DEF OwnResults
    <3>3. CASE instruction.op = "array"
      <4>1. value \in {Vector(All(<<1, "kV0">>)), Vector(All(Sentinel))}
        BY <2>5, <3>1, <3>3 DEF Makes, Written
      <4>2. result[k] \in {All(<<1, "kV0">>), All(Sentinel)}
        BY <2>6, <3>1, <4>1
      <4>3. QED BY <3>3, <4>2 DEF OwnResults
    <3>4. QED BY <2>9, <3>2, <3>3
  <2>10. QED BY <2>7, <2>8, <2>9
<1>2. QED BY <1>1, Invariance, PTL

\* A rounding test that ends has reported each of its cases once and in order
\* (EachCaseReported).
THEOREM EachCaseIsReported == Spec => EachCaseReported
<1> DEFINE all == reported \o Reports
           n == ReportsPerCase(instruction.shader)
           Listing == /\ Len(all) = CaseCount * n
                      /\ \A r \in DOMAIN all : all[r] \in {<<ReportedCase(r), instruction.shader>>, Sentinel}
<1>1. IInv => (ReportRounding /\ test' # test /\ fault = "none" => Listing)
  <2> SUFFICES ASSUME IInv, ReportRounding, test' # test, fault = "none"
               PROVE  Listing
    OBVIOUS
  <2> DEFINE d == CasesPerDraw(instruction.shader)
  <2>1. /\ PlaceInv /\ ResultsInv /\ ReportedInv /\ AtRounding /\ submitted /\ result # <<>>
        /\ ~(first + d < CaseCount)
    BY DEF IInv, ReportRounding, Report, AtRounding
  <2>2. first \in Nat /\ CaseCount \in Nat /\ Batch = CaseCount - first
    <3> HIDE DEF d
    <3>1. QED BY <2>1, Batches DEF d
  <2>3. first + Batch = CaseCount
    BY <2>2
  <2>4. /\ IsSequence(all) /\ Len(all) = (first + Batch) * n
        /\ \A r \in 1 .. Len(all) : all[r] \in {<<ReportedCase(r), instruction.shader>>, Sentinel}
    BY <2>1, AllReports
  <2>5. \A q : IsSequence(q) => DOMAIN q = 1 .. Len(q)
    BY DEF IsSequence
  <2> HIDE DEF all, n
  <2>6. DOMAIN all = 1 .. Len(all)
    BY <2>4, <2>5
  <2>7. QED BY <2>3, <2>4, <2>6
<1> HIDE DEF Listing
<1>2. Spec => [][ReportRounding /\ test' # test /\ fault = "none" => Listing]_vars
  BY <1>1, Invariance, PTL
<1>3. QED BY <1>2 DEF EachCaseReported, Listing
=============================================================================
