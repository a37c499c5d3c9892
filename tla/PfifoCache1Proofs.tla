------------------------- MODULE PfifoCache1Proofs --------------------------
(***************************************************************************)
(* Theorems about PfifoCache1, for a ring, buffers, loops and tests of any *)
(* size: what is captured of two moving pointers makes sense, and what the *)
(* wait for an empty CACHE1 says is so, and what is printed of a buffer is *)
(* the buffer.                                                             *)
(***************************************************************************)
EXTENDS PfifoCache1, WellFoundedInduction, TLAPS

USE SizeAssumption

Entry == [cache_get : Int, cache_put : Int]

\* The ring holds one command less than it has entries; pb_reset leaves Entered 0.
RingInv == pulled \in Int /\ cache \in 0 .. RingSize - 1 /\ Entered >= 0

\* Where SpinUntilEmptyCache1 stands in a round: what it has read of one
\* pointer lies between the beginning of the round and now.
SpinInv ==
    /\ step \in 1 .. 3 /\ at_round \in Int
    /\ step = 1 \/ ~At("spin") => at_round = 0
    /\ At("spin") /\ step # 1 => at_round <= Entered
    /\ At("spin") /\ step = 3 =>
          /\ get_or_put.value \in Int
          /\ \/ get_or_put.side = "get" /\ get_or_put.value <= pulled
             \/ get_or_put.side = "put" /\ at_round <= get_or_put.value /\ get_or_put.value <= Entered

\* Where FillStateBuffer stands in the buffer, and that the last pointers read
\* are behind those of the hardware.
FillInv ==
    /\ i \in Nat
    /\ entry \in Entry
    /\ state_buffer \in Seq(Entry)
    /\ At("fill") =>
          /\ step \in {1, 2} /\ i < kStateBufferEntries
          /\ i > 0 => /\ Len(state_buffer) = i
                      /\ state_buffer[i].cache_get <= pulled
                      /\ state_buffer[i].cache_put <= Entered
          /\ step = 2 => /\ entry.cache_get <= pulled
                         /\ i > 0 => state_buffer[i].cache_get <= entry.cache_get

IInv == RingInv /\ SpinInv /\ FillInv /\ CapturesMakeSense

\* Numbers in the same place of the ring are whole turns of it apart.
LEMMA SameSlotTurns ==
    ASSUME NEW a \in Int, NEW b \in Int, a % RingSize = b % RingSize, a >= b, a - b < RingSize
    PROVE  a = b
<1>1. RingSize \in Int /\ RingSize > 0
  OBVIOUS
<1> DEFINE p == a \div RingSize  q == b \div RingSize
<1>2. p \in Int /\ q \in Int /\ a = RingSize * p + (a % RingSize) /\ b = RingSize * q + (b % RingSize)
  BY <1>1
<1> HIDE DEF p, q
<1>3. a - b = RingSize * (p - q)
  BY <1>1, <1>2
<1>4. \A k \in Int : k >= 1 => RingSize * k >= RingSize
  BY <1>1
<1>5. \A k \in Int : k <= 0 - 1 => RingSize * k < 0
  BY <1>1
<1>6. p - q = 0
  BY <1>1, <1>2, <1>3, <1>4, <1>5
<1> QED BY <1>1, <1>2, <1>3, <1>6

\* What an entry of a buffer is made of.
LEMMA EntryTypes ==
    ASSUME NEW s \in Seq(Entry), NEW k \in 1 .. Len(s)
    PROVE  s[k] \in Entry /\ s[k].cache_get \in Int /\ s[k].cache_put \in Int
<1>1. s[k] \in Entry
  OBVIOUS
<1> QED BY <1>1 DEF Entry

\* An empty buffer is one.
LEMMA EmptySeqEntry == <<>> \in Seq(Entry)
OBVIOUS

-----------------------------------------------------------------------------
(* Where the thread stands *)

\* The thread executes one instruction at a time.
LEMMA OneInstruction ==
    ASSUME NEW a, NEW b, At(a), At(b) PROVE a = b
BY DEF At

\* It is the same one while the program counter does not move.
LEMMA InstructionStays ==
    ASSUME UNCHANGED <<suite, test, pc>>
    PROVE  /\ At("spin")' <=> At("spin")
           /\ At("fill")' <=> At("fill")
BY DEF At, Ended, instruction

\* A step to the next instruction keeps SpinInv and FillInv, whatever it does
\* to the hardware, if it leaves no round begun.
LEMMA NextInstruction ==
    ASSUME Advance, at_round' = 0,
           entry' \in Entry, state_buffer' \in Seq(Entry)
    PROVE  SpinInv' /\ FillInv'
<1>1. step' = 1 /\ i' = 0
  BY DEF Advance
<1>2. SpinInv'
  BY <1>1 DEF SpinInv
<1>3. FillInv'
  BY <1>1 DEF FillInv
<1> QED BY <1>2, <1>3

-----------------------------------------------------------------------------
(* IInv is inductive *)

\* The initial states.
LEMMA InitInv == Init => IInv
<1> SUFFICES ASSUME Init PROVE IInv
  OBVIOUS
<1>1. RingInv
  BY DEF Init, RingInv, Entered
<1>2. SpinInv
  BY DEF Init, SpinInv
<1>3. Nothing \in Entry
  BY DEF Nothing, Entry
<1>4. FillInv
  BY <1>3 DEF Init, FillInv
<1>5. CapturesMakeSense
  BY DEF Init, CapturesMakeSense
<1> QED BY <1>1, <1>2, <1>4, <1>5 DEF IInv

\* The pusher and the puller only move the pointers on.
LEMMA GpuInv == IInv /\ Gpu => IInv'
<1> SUFFICES ASSUME IInv, Gpu PROVE IInv'
  OBVIOUS
<1>1. /\ UNCHANGED <<suite, test, pc, step, i, entry, state_buffer, get_or_put, at_round>>
      /\ pulled' \in Int /\ cache' \in 0 .. RingSize - 1
      /\ pulled' >= pulled /\ Entered' >= Entered
      /\ Entered \in Int /\ Entered' \in Int /\ Entered >= 0
  BY DEF Gpu, Fetch, Pull, Aside, IInv, RingInv, Entered
<1>2. RingInv'
  BY <1>1 DEF RingInv
<1>3. At("spin")' <=> At("spin")
  BY <1>1, InstructionStays
<1>4. At("fill")' <=> At("fill")
  BY <1>1, InstructionStays
<1>5. SpinInv'
  <2>1. /\ step' \in 1 .. 3 /\ at_round' \in Int
        /\ step' = 1 \/ ~At("spin")' => at_round' = 0
    BY <1>1, <1>3 DEF IInv, SpinInv
  <2>2. At("spin")' /\ step' # 1 => at_round' <= Entered'
    BY <1>1, <1>3 DEF IInv, SpinInv
  <2>3. At("spin")' /\ step' = 3 =>
          /\ get_or_put'.value \in Int
          /\ \/ get_or_put'.side = "get" /\ get_or_put'.value <= pulled'
             \/ get_or_put'.side = "put" /\ at_round' <= get_or_put'.value /\ get_or_put'.value <= Entered'
    BY <1>1, <1>3 DEF IInv, SpinInv, RingInv
  <2> QED BY <2>1, <2>2, <2>3 DEF SpinInv
<1>6. FillInv'
  <2>1. i' \in Nat /\ entry' \in Entry /\ state_buffer' \in Seq(Entry)
    BY <1>1 DEF IInv, FillInv
  <2>2. ASSUME At("fill")
        PROVE  /\ step' \in {1, 2} /\ i' < kStateBufferEntries
               /\ i' > 0 => /\ Len(state_buffer') = i'
                            /\ state_buffer'[i'].cache_get <= pulled'
                            /\ state_buffer'[i'].cache_put <= Entered'
               /\ step' = 2 => /\ entry'.cache_get <= pulled'
                               /\ i' > 0 => state_buffer'[i'].cache_get <= entry'.cache_get
    <3>1. /\ i \in Nat /\ state_buffer \in Seq(Entry) /\ entry \in Entry /\ pulled \in Int
          /\ entry.cache_get \in Int
      BY DEF IInv, FillInv, RingInv, Entry
    <3>2. ASSUME i > 0
          PROVE  /\ Len(state_buffer) = i
                 /\ state_buffer[i].cache_get <= pulled' /\ state_buffer[i].cache_put <= Entered'
      <4>1. /\ Len(state_buffer) = i
            /\ state_buffer[i].cache_get <= pulled /\ state_buffer[i].cache_put <= Entered
        BY <2>2, <3>2 DEF IInv, FillInv
      <4>2. state_buffer[i].cache_get \in Int /\ state_buffer[i].cache_put \in Int
        BY <3>1, <3>2, <4>1, EntryTypes
      <4>3. \A x, y, z \in Int : x <= y /\ z >= y => x <= z
        OBVIOUS
      <4>4. state_buffer[i].cache_get <= pulled'
        BY <1>1, <3>1, <4>1, <4>2, <4>3
      <4>5. state_buffer[i].cache_put <= Entered'
        BY <1>1, <4>1, <4>2, <4>3
      <4> QED BY <4>1, <4>4, <4>5
    <3>3. step = 2 => entry.cache_get <= pulled'
      BY <1>1, <2>2, <3>1 DEF IInv, FillInv
    <3>4. /\ step \in {1, 2} /\ i < kStateBufferEntries
          /\ step = 2 => (i > 0 => state_buffer[i].cache_get <= entry.cache_get)
      BY <2>2 DEF IInv, FillInv
    <3> QED BY <1>1, <3>2, <3>3, <3>4
  <2> QED BY <1>4, <2>1, <2>2 DEF FillInv
<1>7. CapturesMakeSense'
  BY <1>1 DEF IInv, CapturesMakeSense
<1> QED BY <1>2, <1>5, <1>6, <1>7 DEF IInv

\* Submitting, printing and pb_reset leave no round and no buffer behind that
\* another instruction goes on with.
LEMMA OtherInv ==
    IInv /\ (SubmitStep \/ EmptySubmit \/ EmptyPoll \/ ShowStep \/ ResetStep) => IInv'
<1> SUFFICES ASSUME IInv, SubmitStep \/ EmptySubmit \/ EmptyPoll \/ ShowStep \/ ResetStep
             PROVE  IInv'
  OBVIOUS
<1>1. ~At("spin") /\ ~At("fill")
  BY OneInstruction DEF SubmitStep, EmptySubmit, EmptyPoll, ShowStep, ResetStep
<1>2. /\ at_round' = 0
      /\ entry' = entry
      /\ state_buffer' \in {state_buffer, <<>>}
  <2>1. at_round = 0
    BY <1>1 DEF IInv, SpinInv
  <2>2. CASE SubmitStep
    BY <2>1, <2>2 DEF SubmitStep
  <2>3. CASE EmptySubmit
    BY <2>1, <2>3 DEF EmptySubmit
  <2>4. CASE EmptyPoll
    BY <2>1, <2>4 DEF EmptyPoll
  <2>5. CASE ShowStep
    BY <2>1, <2>5 DEF ShowStep
  <2>6. CASE ResetStep
    BY <2>1, <2>6 DEF ResetStep
  <2> QED BY <2>2, <2>3, <2>4, <2>5, <2>6
<1>3. entry' \in Entry /\ state_buffer' \in Seq(Entry)
  BY <1>2, EmptySeqEntry DEF IInv, FillInv
<1>4. RingInv'
  BY DEF IInv, RingInv, Entered, SubmitStep, EmptySubmit, EmptyPoll, ShowStep, ResetStep, hardware
<1>5. CapturesMakeSense'
  <2>1. CASE state_buffer' = state_buffer
    BY <2>1 DEF IInv, CapturesMakeSense
  <2>2. CASE state_buffer' = <<>>
    BY <2>2 DEF CapturesMakeSense
  <2> QED BY <1>2, <2>1, <2>2
<1>6. SpinInv' /\ FillInv'
  <2>1. CASE Advance
    BY <1>2, <1>3, <2>1, NextInstruction
  <2>2. CASE /\ UNCHANGED <<suite, test, pc>>
             /\ step' \in 1 .. 3 /\ i' \in Nat
    <3>1. ~At("spin")' /\ ~At("fill")'
      BY <1>1, <2>2, InstructionStays
    <3> QED BY <1>2, <1>3, <2>2, <3>1 DEF SpinInv, FillInv
  <2>3. i \in Nat
    BY DEF IInv, FillInv
  <2> QED BY <2>1, <2>2, <2>3 DEF SubmitStep, EmptySubmit, EmptyPoll, ShowStep, ResetStep, Access
<1> QED BY <1>4, <1>5, <1>6 DEF IInv

\* SpinUntilEmptyCache1.
LEMMA SpinStepInv == IInv /\ (SpinStatus \/ SpinFirst \/ SpinSecond) => IInv'
<1> SUFFICES ASSUME IInv, SpinStatus \/ SpinFirst \/ SpinSecond PROVE IInv'
  OBVIOUS
<1>1. At("spin") /\ ~At("fill") /\ UNCHANGED <<hardware, entry>>
  BY OneInstruction DEF SpinStatus, SpinFirst, SpinSecond
<1>2. state_buffer' \in {state_buffer, <<>>}
  BY DEF SpinStatus, SpinFirst, SpinSecond
<1>3. /\ entry' \in Entry /\ state_buffer' \in Seq(Entry) /\ i \in Nat
      /\ pulled \in Int /\ Entered \in Int /\ pulled <= Entered
      /\ pulled' = pulled /\ Entered' = Entered
  <2>1. entry' \in Entry /\ state_buffer' \in Seq(Entry) /\ i \in Nat
    BY <1>1, <1>2, EmptySeqEntry DEF IInv, FillInv
  <2>2. pulled \in Int /\ Entered \in Int /\ pulled <= Entered
    BY DEF IInv, RingInv, Entered
  <2>3. pulled' = pulled /\ Entered' = Entered
    BY <1>1 DEF hardware, Entered
  <2> QED BY <2>1, <2>2, <2>3
<1>4. RingInv'
  BY <1>1 DEF IInv, RingInv, Entered, hardware
<1>5. CapturesMakeSense'
  <2>1. CASE state_buffer' = state_buffer
    BY <2>1 DEF IInv, CapturesMakeSense
  <2>2. CASE state_buffer' = <<>>
    BY <2>2 DEF CapturesMakeSense
  <2> QED BY <1>2, <2>1, <2>2
<1>6. CASE SpinStatus
  <2>1. step = 1 /\ at_round = 0
    BY <1>6 DEF IInv, SpinInv, SpinStatus
  <2>2. CASE Advance /\ UNCHANGED at_round
    BY <1>3, <1>4, <1>5, <2>1, <2>2, NextInstruction DEF IInv
  <2>3. CASE Access(2) /\ at_round' = Entered /\ UNCHANGED i
    <3>1. /\ At("spin")' /\ ~At("fill")'
          /\ step' = 2
      BY <1>1, <2>3, InstructionStays DEF Access
    <3>2. SpinInv'
      BY <1>3, <2>3, <3>1 DEF SpinInv
    <3>3. FillInv'
      BY <1>3, <2>3, <3>1 DEF FillInv
    <3> QED BY <1>4, <1>5, <3>2, <3>3 DEF IInv
  <2> QED BY <1>6, <2>2, <2>3 DEF SpinStatus, SpinReturns
<1>7. CASE SpinFirst
  <2>1. /\ At("spin")' /\ ~At("fill")'
        /\ step' = 3 /\ i' = i /\ at_round' = at_round
    BY <1>1, <1>7, InstructionStays DEF SpinFirst, Access
  <2>2. at_round \in Int /\ at_round <= Entered
    BY <1>1, <1>7 DEF IInv, SpinInv, SpinFirst
  <2>3. \/ get_or_put' = [side |-> "get", value |-> pulled]
        \/ get_or_put' = [side |-> "put", value |-> Entered]
    BY <1>7 DEF SpinFirst
  <2>4. SpinInv'
    BY <1>3, <2>1, <2>2, <2>3 DEF SpinInv
  <2>5. FillInv'
    BY <1>3, <2>1 DEF FillInv
  <2> QED BY <1>4, <1>5, <2>4, <2>5 DEF IInv
<1>8. CASE SpinSecond
  <2>1. CASE Advance
    <3>1. at_round' = 0
      BY <1>8 DEF SpinSecond
    <3> QED BY <1>3, <1>4, <1>5, <2>1, <3>1, NextInstruction DEF IInv
  <2>2. CASE i' = i + 1 /\ Access(1)
    <3>1. step' = 1 /\ at_round' = 0 /\ ~At("fill")' /\ i' \in Nat
      BY <1>1, <1>3, <1>8, <2>2, InstructionStays DEF SpinSecond, Access
    <3> QED BY <1>3, <1>4, <1>5, <3>1 DEF IInv, SpinInv, FillInv
  <2> QED BY <1>8, <2>1, <2>2 DEF SpinSecond, SpinReturns
<1> QED BY <1>6, <1>7, <1>8

\* FillStateBuffer.
LEMMA FillStepInv == IInv /\ FillStateBuffer => IInv'
<1> SUFFICES ASSUME IInv, FillStateBuffer PROVE IInv'
  OBVIOUS
<1>1. At("fill") /\ ~At("spin") /\ UNCHANGED <<hardware, get_or_put, emptied, at_round>>
  BY OneInstruction DEF FillStateBuffer
<1>2. /\ i \in Nat /\ i < kStateBufferEntries /\ step \in {1, 2}
      /\ entry \in Entry /\ state_buffer \in Seq(Entry)
  BY <1>1 DEF IInv, FillInv
<1>3. /\ at_round = 0 /\ at_round' = 0
      /\ pulled \in Int /\ Entered \in Int /\ pulled <= Entered
      /\ pulled' = pulled /\ Entered' = Entered
  <2>1. at_round = 0 /\ at_round' = 0
    BY <1>1 DEF IInv, SpinInv
  <2>2. pulled \in Int /\ Entered \in Int /\ pulled <= Entered
    BY DEF IInv, RingInv, Entered
  <2>3. pulled' = pulled /\ Entered' = Entered
    BY <1>1 DEF hardware, Entered
  <2> QED BY <2>1, <2>2, <2>3
<1>4. RingInv'
  BY <1>1 DEF IInv, RingInv, Entered, hardware
<1>5. CASE step = 1
  <2>1. /\ step' = 2 /\ UNCHANGED <<suite, test, pc>>
        /\ entry' = [entry EXCEPT !["cache_get"] = pulled]
        /\ i' = i /\ state_buffer' = state_buffer
    BY <1>5 DEF FillStateBuffer, Order, Register, Access
  <2>2. At("fill")' /\ ~At("spin")'
    BY <1>1, <2>1, InstructionStays
  <2>3. entry' \in Entry /\ entry'.cache_get = pulled
    BY <1>2, <1>3, <2>1 DEF Entry
  <2>4. SpinInv'
    BY <1>3, <2>1, <2>2 DEF SpinInv
  <2>5. i > 0 => /\ Len(state_buffer) = i
                 /\ state_buffer[i].cache_get <= pulled
                 /\ state_buffer[i].cache_put <= Entered
    BY <1>1 DEF IInv, FillInv
  <2>6. FillInv'
    BY <1>2, <1>3, <2>1, <2>2, <2>3, <2>5 DEF FillInv
  <2>7. CapturesMakeSense'
    BY <2>1 DEF IInv, CapturesMakeSense
  <2> QED BY <1>4, <2>4, <2>6, <2>7 DEF IInv
<1>6. CASE step = 2
  <2> DEFINE read == [entry EXCEPT !["cache_put"] = Entered]
             old == IF i = 0 THEN <<>> ELSE state_buffer
  <2>1. /\ state_buffer' = Append(old, read)
        /\ entry' = Nothing
        /\ IF More(i) THEN i' = i + 1 /\ Access(1) ELSE Advance
    BY <1>6 DEF FillStateBuffer, Order, Register
  <2>2. /\ read \in Entry /\ read.cache_get = entry.cache_get /\ read.cache_put = Entered
        /\ read.cache_get \in Int /\ read.cache_put \in Int
    BY <1>2, <1>3 DEF Entry
  <2>3. /\ entry.cache_get <= pulled
        /\ i > 0 => state_buffer[i].cache_get <= entry.cache_get
        /\ i > 0 => /\ Len(state_buffer) = i
                    /\ state_buffer[i].cache_put <= Entered
    BY <1>1, <1>6 DEF IInv, FillInv
  <2>4. old \in Seq(Entry) /\ Len(old) = i
    BY <1>2, <2>3, EmptySeqEntry
  <2>5. /\ \A k \in 1 .. Len(old) : old[k].cache_get <= old[k].cache_put
        /\ \A k \in 2 .. Len(old) : /\ old[k - 1].cache_get <= old[k].cache_get
                                    /\ old[k - 1].cache_put <= old[k].cache_put
    <3>1. CASE i = 0
      BY <2>4, <3>1
    <3>2. CASE i # 0
      <4>1. old = state_buffer /\ DOMAIN state_buffer = 1 .. Len(state_buffer)
        BY <1>2, <3>2
      <4> QED BY <4>1 DEF IInv, CapturesMakeSense
    <3> QED BY <3>1, <3>2
  <2>6. i > 0 => old[i].cache_get <= read.cache_get /\ old[i].cache_put <= read.cache_put
    BY <2>2, <2>3
  <2>7. read.cache_get <= pulled /\ read.cache_get <= read.cache_put
    <3>1. \A x, y, z \in Int : x <= y /\ y <= z => x <= z
      OBVIOUS
    <3> QED BY <1>3, <2>2, <2>3, <3>1
  <2> HIDE DEF read, old
  <2>8. /\ state_buffer' \in Seq(Entry) /\ Len(state_buffer') = i + 1
        /\ state_buffer'[i + 1] = read
        /\ \A k \in 1 .. i : state_buffer'[k] = old[k]
        /\ DOMAIN state_buffer' = 1 .. i + 1
    BY <1>2, <2>1, <2>2, <2>4
  <2>9. CapturesMakeSense'
    <3>1. Len(state_buffer') <= kStateBufferEntries
      BY <1>2, <2>8
    <3>2. ASSUME NEW k \in 1 .. i + 1
          PROVE  state_buffer'[k].cache_get <= state_buffer'[k].cache_put
      <4>1. CASE k = i + 1
        BY <2>7, <2>8, <4>1
      <4>2. CASE k # i + 1
        <5>1. k \in 1 .. i
          BY <1>2, <4>2
        <5>2. state_buffer'[k] = old[k]
          BY <2>8, <5>1
        <5>3. old[k].cache_get <= old[k].cache_put
          BY <2>4, <2>5, <5>1
        <5> QED BY <5>2, <5>3
      <4> QED BY <4>1, <4>2
    <3>3. ASSUME NEW k \in 2 .. i + 1
          PROVE  /\ state_buffer'[k - 1].cache_get <= state_buffer'[k].cache_get
                 /\ state_buffer'[k - 1].cache_put <= state_buffer'[k].cache_put
      <4>1. k - 1 \in 1 .. i /\ state_buffer'[k - 1] = old[k - 1]
        <5>1. k - 1 \in 1 .. i
          BY <1>2
        <5> QED BY <2>8, <5>1
      <4>2. CASE k = i + 1
        <5>1. k - 1 = i /\ i > 0
          BY <1>2, <4>2
        <5> QED BY <2>6, <2>8, <4>1, <4>2, <5>1
      <4>3. CASE k # i + 1
        <5>1. k \in 1 .. i /\ k \in 2 .. i
          BY <1>2, <4>3
        <5>2. state_buffer'[k] = old[k]
          BY <2>8, <5>1
        <5>3. /\ old[k - 1].cache_get <= old[k].cache_get
              /\ old[k - 1].cache_put <= old[k].cache_put
          BY <2>4, <2>5, <5>1
        <5> QED BY <4>1, <5>2, <5>3
      <4> QED BY <4>2, <4>3
    <3> QED BY <2>8, <3>1, <3>2, <3>3 DEF CapturesMakeSense
  <2>10. entry' \in Entry
    BY <2>1 DEF Nothing, Entry
  <2>11. CASE More(i)
    <3>1. i' = i + 1 /\ step' = 1 /\ UNCHANGED <<suite, test, pc>> /\ i' < kStateBufferEntries
      BY <2>1, <2>11 DEF Access, More
    <3>2. At("fill")' /\ ~At("spin")'
      BY <1>1, <3>1, InstructionStays
    <3>3. SpinInv'
      BY <1>3, <3>1, <3>2 DEF SpinInv
    <3>4. FillInv'
      <4>1. i' \in Nat /\ i' > 0
        BY <1>2, <3>1
      <4>2. /\ Len(state_buffer') = i'
            /\ state_buffer'[i'].cache_get <= pulled'
            /\ state_buffer'[i'].cache_put <= Entered'
        <5>1. state_buffer'[i'] = read
          BY <2>8, <3>1
        <5>2. Entered <= Entered
          BY <1>3
        <5> QED BY <1>3, <2>2, <2>7, <2>8, <3>1, <5>1, <5>2
      <4> QED BY <2>8, <2>10, <3>1, <4>1, <4>2 DEF FillInv
    <3> QED BY <1>4, <2>9, <3>3, <3>4 DEF IInv
  <2>12. CASE ~More(i)
    BY <1>3, <1>4, <2>1, <2>8, <2>9, <2>10, <2>12, NextInstruction DEF IInv
  <2> QED BY <2>11, <2>12
<1> QED BY <1>2, <1>5, <1>6

\* Nothing changes.
LEMMA StutterInv == IInv /\ UNCHANGED vars => IInv'
<1> SUFFICES ASSUME IInv, UNCHANGED vars PROVE IInv'
  OBVIOUS
<1>1. /\ pulled' = pulled /\ cache' = cache /\ step' = step /\ i' = i /\ entry' = entry
      /\ state_buffer' = state_buffer /\ get_or_put' = get_or_put /\ at_round' = at_round
      /\ UNCHANGED <<suite, test, pc>>
  BY DEF vars, hardware
<1>2. (At("spin")' <=> At("spin")) /\ (At("fill")' <=> At("fill"))
  BY <1>1, InstructionStays
<1>3. Entered' = Entered
  BY <1>1 DEF Entered
<1>4. RingInv'
  BY <1>1, <1>3 DEF IInv, RingInv
<1>5. SpinInv'
  BY <1>1, <1>2, <1>3 DEF IInv, SpinInv
<1>6. FillInv'
  BY <1>1, <1>2, <1>3 DEF IInv, FillInv
<1>7. CapturesMakeSense'
  BY <1>1 DEF IInv, CapturesMakeSense
<1> QED BY <1>4, <1>5, <1>6, <1>7 DEF IInv

\* Every step.
LEMMA Inductive == IInv /\ [Next]_vars => IInv'
BY GpuInv, OtherInv, SpinStepInv, FillStepInv, StutterInv DEF Next, Thread, Done

\* What the two captures rest on is so in every state.
THEOREM Invariance == Spec => []IInv
<1>1. Init => IInv
  BY InitInv
<1>2. IInv /\ [Next]_vars => IInv'
  BY Inductive
<1> QED BY <1>1, <1>2, PTL DEF Spec

\* The buffer FillStateBuffer fills, one register at a time while CACHE1
\* moves, never has GET beyond PUT or a pointer that goes back, and is never
\* filled past its end.
THEOREM CapturesAlwaysMakeSense == Spec => []CapturesMakeSense
<1>1. IInv => CapturesMakeSense
  BY DEF IInv
<1> QED BY <1>1, Invariance, PTL

-----------------------------------------------------------------------------
(* SpinUntilEmptyCache1 is right *)

\* The action EmptiedIsEmpty forbids to be otherwise.
RightlyEmpty ==
    At("spin") /\ emptied' /\ ~emptied =>
        \/ pulled >= at_round
        \/ get_or_put.side = "get" /\ Entered - get_or_put.value >= RingSize

\* The round ends with GET and PUT in the same place.
LEMMA SpinSecondRight == IInv /\ SpinSecond /\ emptied' /\ ~emptied => RightlyEmpty
<1> SUFFICES ASSUME IInv, SpinSecond, emptied', ~emptied
             PROVE  \/ pulled >= at_round
                    \/ get_or_put.side = "get" /\ Entered - get_or_put.value >= RingSize
  BY DEF RightlyEmpty
<1>1. IF get_or_put.side = "get" THEN SameSlot(get_or_put.value, Entered)
                                 ELSE SameSlot(pulled, get_or_put.value)
  BY DEF SpinSecond
<1>2. /\ at_round \in Int /\ at_round <= Entered /\ get_or_put.value \in Int
      /\ \/ get_or_put.side = "get" /\ get_or_put.value <= pulled
         \/ get_or_put.side = "put" /\ at_round <= get_or_put.value /\ get_or_put.value <= Entered
  BY DEF SpinSecond, IInv, SpinInv
<1>3. /\ pulled \in Int /\ Entered \in Int /\ pulled <= Entered
      /\ Entered - pulled < RingSize
  BY DEF IInv, RingInv, Entered
<1>4. CASE get_or_put.side = "get" /\ get_or_put.value <= pulled
  <2>1. (get_or_put.value % RingSize) = (Entered % RingSize)
    BY <1>1, <1>4 DEF SameSlot
  <2>2. ASSUME Entered - get_or_put.value < RingSize PROVE pulled >= at_round
    <3>1. Entered >= get_or_put.value
      BY <1>2, <1>3, <1>4
    <3>2. Entered = get_or_put.value
      BY <1>2, <1>3, <2>1, <2>2, <3>1, SameSlotTurns
    <3> QED BY <1>2, <1>3, <1>4, <3>2
  <2> QED BY <1>2, <1>3, <1>4, <2>2
<1>5. CASE get_or_put.side = "put" /\ at_round <= get_or_put.value /\ get_or_put.value <= Entered
  <2>1. (pulled % RingSize) = (get_or_put.value % RingSize)
    BY <1>1, <1>5 DEF SameSlot
  <2>2. ASSUME pulled < at_round PROVE FALSE
    <3>1. get_or_put.value >= pulled /\ get_or_put.value - pulled < RingSize
      BY <1>2, <1>3, <1>5, <2>2
    <3>2. get_or_put.value = pulled
      BY <1>2, <1>3, <2>1, <3>1, SameSlotTurns
    <3> QED BY <1>2, <1>3, <1>5, <2>2, <3>2
  <2> QED BY <1>2, <1>3, <2>2
<1> QED BY <1>2, <1>4, <1>5

\* The round begins with the status saying empty.
LEMMA SpinStatusRight == IInv /\ SpinStatus /\ emptied' /\ ~emptied => RightlyEmpty
<1> SUFFICES ASSUME IInv, SpinStatus, emptied', ~emptied PROVE pulled >= at_round
  BY DEF RightlyEmpty
<1>1. LowMarkEmpty
  BY DEF SpinStatus, SpinReturns
<1>2. at_round = 0
  BY DEF SpinStatus, IInv, SpinInv
<1> QED BY <1>1, <1>2 DEF LowMarkEmpty, IInv, RingInv, Entered

\* No other step sets emptied.
LEMMA OthersDoNotEmpty ==
    [Next]_vars /\ ~SpinStatus /\ ~SpinSecond /\ ~emptied => ~emptied'
<1> SUFFICES ASSUME [Next]_vars, ~SpinStatus, ~SpinSecond, ~emptied PROVE ~emptied'
  OBVIOUS
<1>1. CASE Gpu
  BY <1>1 DEF Gpu, Fetch, Pull, Aside
<1>2. CASE SubmitStep \/ EmptySubmit \/ EmptyPoll \/ ShowStep \/ ResetStep
  BY <1>2 DEF SubmitStep, EmptySubmit, EmptyPoll, ShowStep, ResetStep
<1>3. CASE FillStateBuffer
  BY <1>3 DEF FillStateBuffer
<1>4. CASE SpinFirst
  BY <1>4 DEF SpinFirst
<1>5. CASE UNCHANGED vars
  BY <1>5 DEF vars
<1> QED BY <1>1, <1>2, <1>3, <1>4, <1>5 DEF Next, Thread, Done

\* SpinUntilEmptyCache1 returns true only if CACHE1 has been emptied of what
\* it held, or else the ring has come round between its two reads.
THEOREM EmptiedIsAlwaysEmpty == Spec => EmptiedIsEmpty
<1>1. IInv /\ [Next]_vars => [RightlyEmpty]_vars
  <2> SUFFICES ASSUME IInv, [Next]_vars PROVE RightlyEmpty
    OBVIOUS
  <2>1. CASE emptied' /\ ~emptied
    BY <2>1, SpinSecondRight, SpinStatusRight, OthersDoNotEmpty
  <2>2. CASE ~(emptied' /\ ~emptied)
    BY <2>2 DEF RightlyEmpty
  <2> QED BY <2>1, <2>2
<1> QED BY <1>1, Invariance, PTL DEF Spec, EmptiedIsEmpty, RightlyEmpty

\* Induction over the natural numbers, for a set of them: the least number
\* outside the set, were there one, has a predecessor inside it.
LEMMA NatInductionOnSets ==
  ASSUME NEW S, 0 \in S, \A n \in Nat : n \in S => n + 1 \in S
  PROVE  Nat \subseteq S
<1> SUFFICES ASSUME ~(Nat \subseteq S) PROVE FALSE
  OBVIOUS
<1> DEFINE T == {n \in Nat : n \notin S}
           R == OpToRel(<, Nat)
<1>1. T \subseteq Nat /\ T # {}
  OBVIOUS
<1>2. IsWellFoundedOn(R, Nat)
  BY NatLessThanWellFounded, Zenon
<1>3. \A x, y \in Nat : <<y, x>> \in R <=> y < x
  BY DEF OpToRel
<1> HIDE DEF T, R
<1>4. PICK x \in T : \A y \in T : <<y, x>> \notin R
  BY <1>1, <1>2, WFMin, Zenon
<1>5. x \in Nat /\ x \notin S /\ x # 0
  BY <1>4 DEF T
<1>6. x - 1 \in Nat /\ x - 1 < x /\ (x - 1) + 1 = x
  BY <1>5
<1>7. x - 1 \in T
  BY <1>5, <1>6 DEF T
<1>8. QED BY <1>3, <1>4, <1>5, <1>6, <1>7

\* PrintStateBuffer goes through a buffer of any size.
LEMMA PrintedDefined ==
  ASSUME NEW b, Len(b) \in Nat
  PROVE  Printed(b) = [k \in 0 .. Len(b) |->
                          IF k = 0 THEN [out |-> <<>>, last |-> Nothing, num_repeats |-> 0]
                                   ELSE Fold(Printed(b)[k - 1], b, k)]
<1> DEFINE Start == [out |-> <<>>, last |-> Nothing, num_repeats |-> 0]
           Upto(g, n) == g = [k \in 0 .. n |-> IF k = 0 THEN Start ELSE Fold(g[k - 1], b, k)]
           S == {n \in Nat : \E g : Upto(g, n)}
<1> HIDE DEF Start
<1>1. 0 \in S
  <2> DEFINE g == [k \in 0 .. 0 |-> Start]
  <2>1. Upto(g, 0)
    OBVIOUS
  <2>2. QED BY <2>1
<1>2. ASSUME NEW n \in Nat, n \in S PROVE n + 1 \in S
  <2>1. PICK g : Upto(g, n)
    BY <1>2
  <2> DEFINE h == [k \in 0 .. n + 1 |-> IF k = n + 1 THEN Fold(g[n], b, n + 1) ELSE g[k]]
  <2>2. ASSUME NEW k \in 0 .. n + 1
        PROVE  h[k] = IF k = 0 THEN Start ELSE Fold(h[k - 1], b, k)
    <3>1. CASE k = n + 1
      <4>1. h[k - 1] = g[n] /\ k # 0
        BY <3>1
      <4>2. QED BY <3>1, <4>1
    <3>2. CASE k \in 0 .. n
      <4>1. h[k] = g[k] /\ (k # 0 => h[k - 1] = g[k - 1])
        BY <3>2
      <4>2. g[k] = IF k = 0 THEN Start ELSE Fold(g[k - 1], b, k)
        BY <2>1, <3>2
      <4>3. QED BY <4>1, <4>2
    <3>3. QED BY <3>1, <3>2
  <2> HIDE DEF h
  <2>3. Upto(h, n + 1)
    <3>1. h = [k \in 0 .. n + 1 |-> h[k]]
      BY DEF h
    <3>2. QED BY <2>2, <3>1
  <2>4. n + 1 \in Nat
    OBVIOUS
  <2>5. QED BY <2>3, <2>4
<1>3. Len(b) \in S
  <2> HIDE DEF S
  <2>1. Nat \subseteq S
    BY <1>1, <1>2, NatInductionOnSets
  <2>2. QED BY <2>1
<1>4. \E g : Upto(g, Len(b))
  BY <1>3
<1>5. Upto(CHOOSE g : Upto(g, Len(b)), Len(b))
  <2> HIDE DEF Upto
  <2>1. QED BY <1>4, Zenon
<1>6. Printed(b) = CHOOSE g : Upto(g, Len(b))
  BY Zenon DEF Printed, Start
<1>7. QED BY <1>5, <1>6, Zenon DEF Start

\* A reader goes through any number of lines.
LEMMA ExpandedDefined ==
  ASSUME NEW lines, Len(lines) \in Nat
  PROVE  Expanded(lines) = [k \in 0 .. Len(lines) |->
                          IF k = 0 THEN <<>>
                                   ELSE Reread(Expanded(lines)[k - 1], lines[k])]
<1> DEFINE Start == <<>>
           Upto(g, n) == g = [k \in 0 .. n |-> IF k = 0 THEN Start ELSE Reread(g[k - 1], lines[k])]
           S == {n \in Nat : \E g : Upto(g, n)}
<1> HIDE DEF Start
<1>1. 0 \in S
  <2> DEFINE g == [k \in 0 .. 0 |-> Start]
  <2>1. Upto(g, 0)
    OBVIOUS
  <2>2. QED BY <2>1
<1>2. ASSUME NEW n \in Nat, n \in S PROVE n + 1 \in S
  <2>1. PICK g : Upto(g, n)
    BY <1>2
  <2> DEFINE h == [k \in 0 .. n + 1 |-> IF k = n + 1 THEN Reread(g[n], lines[n + 1]) ELSE g[k]]
  <2>2. ASSUME NEW k \in 0 .. n + 1
        PROVE  h[k] = IF k = 0 THEN Start ELSE Reread(h[k - 1], lines[k])
    <3>1. CASE k = n + 1
      <4>1. h[k - 1] = g[n] /\ k # 0
        BY <3>1
      <4>2. QED BY <3>1, <4>1
    <3>2. CASE k \in 0 .. n
      <4>1. h[k] = g[k] /\ (k # 0 => h[k - 1] = g[k - 1])
        BY <3>2
      <4>2. g[k] = IF k = 0 THEN Start ELSE Reread(g[k - 1], lines[k])
        BY <2>1, <3>2
      <4>3. QED BY <4>1, <4>2
    <3>3. QED BY <3>1, <3>2
  <2> HIDE DEF h
  <2>3. Upto(h, n + 1)
    <3>1. h = [k \in 0 .. n + 1 |-> h[k]]
      BY DEF h
    <3>2. QED BY <2>2, <3>1
  <2>4. n + 1 \in Nat
    OBVIOUS
  <2>5. QED BY <2>3, <2>4
<1>3. Len(lines) \in S
  <2> HIDE DEF S
  <2>1. Nat \subseteq S
    BY <1>1, <1>2, NatInductionOnSets
  <2>2. QED BY <2>1
<1>4. \E g : Upto(g, Len(lines))
  BY <1>3
<1>5. Upto(CHOOSE g : Upto(g, Len(lines)), Len(lines))
  <2> HIDE DEF Upto
  <2>1. QED BY <1>4, Zenon
<1>6. Expanded(lines) = CHOOSE g : Upto(g, Len(lines))
  BY Zenon DEF Expanded, Start
<1>7. QED BY <1>5, <1>6, Zenon DEF Start

\* What the first lines give does not depend on the ones after them.
LEMMA ExpandedPrefix ==
  ASSUME NEW V, NEW lines \in Seq(V), NEW x \in V
  PROVE  Expand(Append(lines, x)) = Reread(Expand(lines), x)
<1> DEFINE more == Append(lines, x)
           n == Len(lines)
<1>1. n \in Nat /\ Len(more) = n + 1 /\ more[n + 1] = x /\ \A k \in 1 .. n : more[k] = lines[k]
  OBVIOUS
<1> DEFINE S == {k \in Nat : k <= n => Expanded(more)[k] = Expanded(lines)[k]}
<1> HIDE DEF more, n
<1>2. /\ Expanded(lines) = [k \in 0 .. n |-> IF k = 0 THEN <<>> ELSE Reread(Expanded(lines)[k - 1], lines[k])]
      /\ Expanded(more) = [k \in 0 .. n + 1 |-> IF k = 0 THEN <<>> ELSE Reread(Expanded(more)[k - 1], more[k])]
  BY <1>1, ExpandedDefined DEF n
<1>3. 0 \in S
  BY <1>1, <1>2
<1>4. ASSUME NEW k \in Nat, k \in S PROVE k + 1 \in S
  <2> SUFFICES ASSUME k + 1 <= n PROVE Expanded(more)[k + 1] = Expanded(lines)[k + 1]
    OBVIOUS
  <2>1. k + 1 \in 0 .. n /\ k + 1 \in 0 .. n + 1 /\ k + 1 \in 1 .. n /\ k <= n /\ (k + 1) - 1 = k /\ k + 1 # 0
    BY <1>1
  <2>2. Expanded(more)[k] = Expanded(lines)[k]
    BY <1>4, <2>1
  <2>3. Expanded(more)[k + 1] = Reread(Expanded(more)[k], more[k + 1])
    BY <1>2, <2>1
  <2>4. Expanded(lines)[k + 1] = Reread(Expanded(lines)[k], lines[k + 1])
    BY <1>2, <2>1
  <2>5. QED BY <1>1, <2>1, <2>2, <2>3, <2>4
<1>5. n \in S
  <2> HIDE DEF S
  <2>1. QED BY <1>1, <1>3, <1>4, NatInductionOnSets
<1>6. Expanded(more)[n] = Expanded(lines)[n]
  BY <1>1, <1>5
<1>7. Expanded(more)[n + 1] = Reread(Expanded(more)[n], more[n + 1])
  <2>1. n + 1 \in 0 .. n + 1 /\ n + 1 # 0 /\ (n + 1) - 1 = n
    BY <1>1
  <2>2. QED BY <1>2, <2>1
<1>8. QED BY <1>1, <1>6, <1>7 DEF Expand, more, n

\* What is printed: entries, and how often one is repeated.
Printable == Entry \cup [repeated : Nat]

\* A reader appends an entry, and repeats the last one.
LEMMA RereadLine ==
  ASSUME NEW buffer
  PROVE  /\ \A x \in Entry : Reread(buffer, x) = Append(buffer, x)
         /\ \A n \in Nat : Reread(buffer, [repeated |-> n]) = buffer \o [k \in 1 .. n |-> Last(buffer)]
<1>1. ASSUME NEW x \in Entry PROVE DOMAIN x # {"repeated"}
  <2>1. DOMAIN x = {"cache_get", "cache_put"}
    BY DEF Entry
  <2>2. QED BY <2>1
<1>2. ASSUME NEW n \in Nat PROVE DOMAIN [repeated |-> n] = {"repeated"} /\ [repeated |-> n].repeated = n
  OBVIOUS
<1>3. QED BY <1>1, <1>2 DEF Reread

\* Two sequences, one after the other.
LEMMA Concatenated ==
  ASSUME NEW V, NEW s \in Seq(V), NEW t \in Seq(V)
  PROVE  /\ s \o t \in Seq(V) /\ Len(s \o t) = Len(s) + Len(t)
         /\ \A k \in 1 .. Len(s) : (s \o t)[k] = s[k]
         /\ \A k \in Len(s) + 1 .. Len(s) + Len(t) : (s \o t)[k] = t[k - Len(s)]
OBVIOUS

\* A reader who meets the line of repeats repeats the last entry as often.
LEMMA ExpandRepeats ==
  ASSUME NEW out \in Seq(Printable), NEW n \in Nat,
         Expand(out) \in Seq(Entry), n > 0 => Len(Expand(out)) > 0
  PROVE  LET read == Expand(out \o Line(n))
         IN  /\ out \o Line(n) \in Seq(Printable) /\ read \in Seq(Entry)
             /\ Len(read) = Len(Expand(out)) + n
             /\ \A k \in 1 .. Len(Expand(out)) : read[k] = Expand(out)[k]
             /\ \A k \in Len(Expand(out)) + 1 .. Len(read) : read[k] = Last(Expand(out))
<1> DEFINE e == Expand(out)
           line == [repeated |-> n]
           copies == [k \in 1 .. n |-> Last(e)]
<1>1. CASE n = 0
  <2>1. Line(n) = <<>> /\ out \o <<>> = out
    BY <1>1 DEF Line
  <2>2. Expand(out \o Line(n)) = e /\ out \o Line(n) = out
    BY <2>1
  <2>3. e \in Seq(Entry) /\ Len(e) \in Nat /\ Len(e) + n = Len(e)
    BY <1>1
  <2> HIDE DEF e
  <2>4. \A k \in Len(e) + 1 .. Len(e) : e[k] = Last(e)
    BY <2>3
  <2>5. QED BY <2>2, <2>3, <2>4 DEF e
<1>2. CASE n > 0
  <2>1. line \in Printable /\ Line(n) = <<line>>
    BY <1>2 DEF Printable, Line
  <2> HIDE DEF line
  <2>2. out \o Line(n) = Append(out, line) /\ Append(out, line) \in Seq(Printable)
    BY <2>1
  <2>3. Expand(out \o Line(n)) = Reread(e, line)
    BY <2>1, <2>2, ExpandedPrefix
  <2>4. Reread(e, line) = e \o copies
    BY RereadLine DEF line
  <2>5. Last(e) \in Entry
    <3>1. e \in Seq(Entry) /\ Len(e) \in 1 .. Len(e)
      BY <1>2
    <3> HIDE DEF e
    <3>2. QED BY <3>1 DEF Last
  <2> HIDE DEF e
  <2>6. copies \in Seq(Entry) /\ Len(copies) = n /\ \A k \in 1 .. n : copies[k] = Last(e)
    BY <2>5
  <2> HIDE DEF copies
  <2>7. e \in Seq(Entry)
    BY DEF e
  <2>8. /\ e \o copies \in Seq(Entry) /\ Len(e \o copies) = Len(e) + n
        /\ \A k \in 1 .. Len(e) : (e \o copies)[k] = e[k]
        /\ \A k \in Len(e) + 1 .. Len(e) + n : (e \o copies)[k] = Last(e)
    <3>1. /\ e \o copies \in Seq(Entry) /\ Len(e \o copies) = Len(e) + n
          /\ \A k \in 1 .. Len(e) : (e \o copies)[k] = e[k]
          /\ \A k \in Len(e) + 1 .. Len(e) + n : (e \o copies)[k] = copies[k - Len(e)]
      BY <2>6, <2>7, Concatenated
    <3>2. ASSUME NEW k \in Len(e) + 1 .. Len(e) + n PROVE k - Len(e) \in 1 .. n
      BY <2>7
    <3>3. QED BY <2>6, <3>1, <3>2
  <2>9. QED BY <2>2, <2>3, <2>4, <2>8 DEF e
<1>3. QED BY <1>1, <1>2

\* PrintStateBuffer, after k entries of buffer b: what its lines say, with the
\* repeats it still counts, is what it has gone through.
Told(b, k) ==
    LET lines == Printed(b)[k]
        e == Expand(lines.out)
    IN  /\ lines \in [out : Seq(Printable), last : Entry, num_repeats : Nat]
        /\ e \in Seq(Entry) /\ Len(e) + lines.num_repeats = k
        /\ \A j \in 1 .. Len(e) : e[j] = b[j]
        /\ k > 0 => /\ Len(e) > 0 /\ Last(e) = lines.last
                     /\ \A j \in Len(e) .. k : b[j] = lines.last

\* It goes on saying it with each entry.
LEMMA ToldOn ==
  ASSUME NEW b \in Seq(Entry), NEW k \in Nat, k + 1 <= Len(b), Told(b, k)
  PROVE  Told(b, k + 1)
<1> DEFINE lines == Printed(b)[k]
           next == Printed(b)[k + 1]
           e == Expand(lines.out)
           n == lines.num_repeats
           x == b[k + 1]
<1>1. next = Fold(lines, b, k + 1)
  <2>1. Len(b) \in Nat /\ k + 1 \in 0 .. Len(b) /\ k + 1 # 0 /\ (k + 1) - 1 = k
    OBVIOUS
  <2>2. QED BY <2>1, PrintedDefined
<1>2. /\ lines \in [out : Seq(Printable), last : Entry, num_repeats : Nat]
      /\ lines.out \in Seq(Printable) /\ n \in Nat /\ e \in Seq(Entry) /\ Len(e) + n = k /\ Len(e) \in Nat
      /\ \A j \in 1 .. Len(e) : e[j] = b[j]
      /\ k > 0 => Len(e) > 0 /\ Last(e) = lines.last /\ \A j \in Len(e) .. k : b[j] = lines.last
  BY DEF Told
<1>3. x \in Entry /\ x \in Printable
  BY DEF Printable
<1> HIDE DEF lines, next, x
<1>4. CASE k > 0 /\ x = lines.last
  <2>1. next = [lines EXCEPT !.num_repeats = @ + 1]
    BY <1>1, <1>4 DEF Fold, x
  <2>2. next.out = lines.out /\ next.last = lines.last /\ next.num_repeats = n + 1
    BY <1>2, <2>1
  <2>3. \A j \in Len(e) .. k + 1 : b[j] = lines.last
    BY <1>2, <1>4 DEF x
  <2>4. Expand(next.out) = e
    BY <2>2
  <2> HIDE DEF e
  <2>5. Len(e) + next.num_repeats = k + 1 /\ k + 1 > 0
    <3>1. n \in Nat /\ Len(e) \in Nat /\ Len(e) + n = k /\ next.num_repeats = n + 1
      BY <1>2, <2>2
    <3> HIDE DEF n
    <3>2. QED BY <3>1
  <2>6. next \in [out : Seq(Printable), last : Entry, num_repeats : Nat]
    <3>1. lines.num_repeats + 1 \in Nat
      BY <1>2
    <3> HIDE DEF n
    <3>2. QED BY <1>2, <2>1, <3>1
  <2>7. \A j \in Len(e) .. k + 1 : b[j] = next.last
    BY <2>2, <2>3
  <2>8. Len(e) > 0 /\ Last(e) = next.last
    BY <1>2, <1>4, <2>2
  <2> HIDE DEF n
  <2>9. QED BY <1>2, <2>4, <2>5, <2>7, <2>8, <2>6 DEF Told, next
<1>5. CASE ~(k > 0 /\ x = lines.last)
  <2> DEFINE out == lines.out \o Line(n)
             r == Expand(out)
  <2>1. next = [out |-> out \o <<x>>, last |-> x, num_repeats |-> 0]
    BY <1>1, <1>5 DEF Fold, x
  <2>2. /\ out \in Seq(Printable) /\ r \in Seq(Entry) /\ Len(r) = k
        /\ \A j \in 1 .. Len(e) : r[j] = e[j]
        /\ \A j \in Len(e) + 1 .. k : r[j] = Last(e)
    <3>1. /\ out \in Seq(Printable) /\ r \in Seq(Entry) /\ Len(r) = Len(e) + n
          /\ \A j \in 1 .. Len(e) : r[j] = e[j]
          /\ \A j \in Len(e) + 1 .. Len(r) : r[j] = Last(e)
      <4>1. lines.out \in Seq(Printable) /\ n \in Nat /\ e \in Seq(Entry)
        BY <1>2
      <4>2. n > 0 => Len(e) > 0
        BY <1>2
      <4> HIDE DEF n
      <4>3. QED BY <4>1, <4>2, ExpandRepeats
    <3> HIDE DEF r, e, out
    <3>2. QED BY <1>2, <3>1
  <2> HIDE DEF out
  <2>3. Expand(Append(out, x)) = Append(r, x)
    <3>1. Expand(Append(out, x)) = Reread(r, x)
      BY <1>3, <2>2, ExpandedPrefix
    <3>2. QED BY <1>3, <3>1, RereadLine
  <2>4. next.out = Append(out, x) /\ next.last = x /\ next.num_repeats = 0 /\ next \in [out : Seq(Printable), last : Entry, num_repeats : Nat]
    BY <1>3, <2>1, <2>2
  <2> HIDE DEF r
  <2>5. \A j \in 1 .. k : r[j] = b[j]
    <3>1. ASSUME NEW j \in Len(e) + 1 .. k PROVE r[j] = b[j]
      <4>1. k > 0 /\ j \in Len(e) .. k
        BY <1>2
      <4>2. QED BY <1>2, <2>2, <4>1
    <3>2. ASSUME NEW j \in 1 .. Len(e) PROVE r[j] = b[j]
      BY <1>2, <2>2
    <3>3. QED BY <1>2, <3>1, <3>2
  <2> DEFINE all == Append(r, x)
  <2>6. /\ all \in Seq(Entry) /\ Len(all) = k + 1 /\ all[k + 1] = x
        /\ \A j \in 1 .. k : all[j] = r[j]
    BY <1>3, <2>2
  <2> HIDE DEF all
  <2>7. \A j \in 1 .. k + 1 : all[j] = b[j]
    BY <2>5, <2>6 DEF x
  <2>8. Last(all) = x /\ \A j \in k + 1 .. k + 1 : b[j] = x
    BY <2>6 DEF Last, x
  <2>9. Expand(next.out) = all
    BY <2>3, <2>4 DEF all
  <2>10. /\ Len(all) + next.num_repeats = k + 1 /\ Len(all) > 0 /\ k + 1 > 0 /\ Last(all) = next.last
         /\ \A j \in Len(all) .. k + 1 : b[j] = next.last
    BY <2>4, <2>6, <2>8
  <2>11. QED BY <2>4, <2>6, <2>7, <2>9, <2>10 DEF Told, next
<1>6. QED BY <1>4, <1>5

\* The lines of a buffer give it back.
LEMMA LinesGiveBack ==
  ASSUME NEW b \in Seq(Entry)
  PROVE  Expand(Lines(b)) = b
<1> DEFINE n == Len(b)
           S == {k \in Nat : k <= n => Told(b, k)}
<1>1. n \in Nat
  OBVIOUS
<1>2. 0 \in S
  <2>1. Printed(b)[0] = [out |-> <<>>, last |-> Nothing, num_repeats |-> 0]
    BY <1>1, PrintedDefined
  <2>2. Len(<<>>) = 0 /\ <<>> \in Seq(Printable) /\ <<>> \in Seq(Entry)
    OBVIOUS
  <2>3. Expand(<<>>) = <<>>
    BY <2>2, ExpandedDefined DEF Expand
  <2>4. Told(b, 0)
    <3> DEFINE lines == Printed(b)[0]
    <3>1. lines \in [out : Seq(Printable), last : Entry, num_repeats : Nat]
      BY <2>1, <2>2 DEF Nothing, Entry
    <3>2. Expand(lines.out) = <<>> /\ lines.num_repeats = 0
      BY <2>1, <2>3
    <3> HIDE DEF lines
    <3>3. Len(<<>>) + lines.num_repeats = 0 /\ ~(0 > 0) /\ \A j \in 1 .. Len(<<>>) : FALSE
      BY <2>2, <3>2
    <3>4. QED BY <2>2, <3>1, <3>2, <3>3 DEF Told, lines
  <2>5. QED BY <2>4
<1>3. ASSUME NEW k \in Nat, k \in S PROVE k + 1 \in S
  BY <1>1, <1>3, ToldOn
<1>4. Told(b, n)
  <2> HIDE DEF S, n
  <2>1. n \in S
    BY <1>1, <1>2, <1>3, NatInductionOnSets
  <2>2. QED BY <1>1, <2>1 DEF S
<1> DEFINE lines == Printed(b)[n]
           e == Expand(lines.out)
           r == Expand(lines.out \o Line(lines.num_repeats))
<1>5. /\ lines.out \in Seq(Printable) /\ lines.num_repeats \in Nat /\ e \in Seq(Entry)
      /\ Len(e) + lines.num_repeats = n /\ Len(e) \in Nat
      /\ \A j \in 1 .. Len(e) : e[j] = b[j]
      /\ n > 0 => Len(e) > 0 /\ Last(e) = lines.last /\ \A j \in Len(e) .. n : b[j] = lines.last
  BY <1>4 DEF Told
<1>6. Lines(b) = lines.out \o Line(lines.num_repeats)
  BY DEF Lines
<1> HIDE DEF n, lines
<1>7. /\ r \in Seq(Entry) /\ Len(r) = n
      /\ \A j \in 1 .. Len(e) : r[j] = e[j]
      /\ \A j \in Len(e) + 1 .. n : r[j] = Last(e)
  <2>1. lines.num_repeats > 0 => Len(e) > 0
    BY <1>1, <1>5
  <2>2. /\ r \in Seq(Entry) /\ Len(r) = Len(e) + lines.num_repeats
        /\ \A j \in 1 .. Len(e) : r[j] = e[j]
        /\ \A j \in Len(e) + 1 .. Len(r) : r[j] = Last(e)
    BY <1>5, <2>1, ExpandRepeats
  <2> HIDE DEF r, e
  <2>3. QED BY <1>5, <2>2
<1> HIDE DEF r, e
<1>8. \A j \in 1 .. n : r[j] = b[j]
  <2>1. ASSUME NEW j \in Len(e) + 1 .. n PROVE r[j] = b[j]
    <3>1. n > 0 /\ j \in Len(e) .. n
      BY <1>1, <1>5
    <3>2. QED BY <1>5, <1>7, <3>1
  <2>2. ASSUME NEW j \in 1 .. Len(e) PROVE r[j] = b[j]
    BY <1>5, <1>7
  <2>3. QED BY <1>1, <1>5, <2>1, <2>2
<1>9. r = b
  BY <1>7, <1>8 DEF n
<1>10. QED BY <1>6, <1>9 DEF r

\* However PrintStateBuffer folds equal entries into repeats, the lines say what
\* was captured, for a buffer of any size and at every moment of its filling.
THEOREM LinesGiveTheBuffer == Spec => []LinesGiveBuffer
<1>1. IInv => LinesGiveBuffer
  BY LinesGiveBack DEF IInv, FillInv, LinesGiveBuffer
<1> QED BY <1>1, Invariance, PTL
=============================================================================
