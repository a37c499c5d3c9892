----------------------------- MODULE M2mfProofs -----------------------------
(***************************************************************************)
(* Theorems about M2mf, for a byte and a canary of any size.  First, what  *)
(* the GPU is still to copy is memory the running test holds, and a test   *)
(* that ends holds nothing.  It rests on how the nineteen tests are made,  *)
(* whatever they copy: a test is a sequence of parts, each of which has    *)
(* waited for its transfers when it ends, between its allocations and its  *)
(* frees.  Then, a GPU that works passes the suite; and last, one with a   *)
(* fault does not.                                                         *)
(***************************************************************************)
EXTENDS M2mf, SequenceTheorems, WellFoundedInduction, TLAPS

\* A sequence, whatever its elements.
IsSequence(s) == \E S : s \in Seq(S)

Usable(owned) == owned \cup {"framebuffer"}
OnOwned(command, owned) == command.cmd = "transfer" => {command.src, command.dst} \subseteq Usable(owned)

\* Instruction k of s is one of a test that holds the buffers owned, and what
\* follows it, or is passed over with it, is in s as well.
Sound(s, k, owned) ==
    LET x == s[k] IN
    /\ x.op \in {"prepare", "copy", "push", "busy_wait", "check", "record", "dump"}
    /\ x.op = "copy" => /\ x.transfer.cmd = "transfer" /\ OnOwned(x.transfer, owned)
                        /\ x.skip \in Nat /\ k + x.skip <= Len(s)
    /\ x.op = "push" => /\ IsSequence(x.commands)
                        /\ \A j \in DOMAIN x.commands : OnOwned(x.commands[j], owned)
                        /\ k + 1 <= Len(s) /\ s[k + 1].op = "busy_wait"

\* A part of a test.
IsPart(s, owned) ==
    /\ IsSequence(s)
    /\ \A k \in 1 .. Len(s) : Sound(s, k, owned)

\* Where a test allocates its buffers, and which.
AllocatesAt(p) == IF p[2].op = "allocate" THEN 2 ELSE 3
Buffers(p) == DOMAIN p[AllocatesAt(p)].sizes

\* A test: what goes before its allocations, a part, and the frees.
IsTest(p) ==
    LET a == AllocatesAt(p) IN
    /\ IsSequence(p)
    /\ a < Len(p)
    /\ p[1].op = "init" /\ p[a].op = "allocate" /\ (a = 3 => p[2].op = "framebuffer")
    /\ \A k \in a + 1 .. Len(p) - 1 : Sound(p, k, Buffers(p)) /\ (p[k].op = "copy" => k + p[k].skip <= Len(p) - 1)
    /\ p[Len(p)].op = "free"

\* Where the thread stands.
PlaceInv ==
    /\ test \in 1 .. Len(kTests) + 1
    /\ ~Ended => pc \in 1 .. Len(kTests[test])
    /\ Ended => pc = 1
    /\ armed => At("copy")

\* A test holds its buffers from its allocations on; between tests none is held.
HeldInv ==
    /\ Ended => held = {}
    /\ ~Ended => held = IF pc <= AllocatesAt(kTests[test]) THEN {} ELSE Buffers(kTests[test])

\* Unless gpum_copy has given up and the thread has gone on, nothing waits for the
\* GPU but what is awaited; and a transfer that gpum_copy has pushed arms the
\* record.
QueueInv ==
    /\ IsSequence(pushbuffer)
    /\ live \in [status : {0, -1}, ptimer : 0 .. 2]
    /\ gave_up => excused
    /\ \/ gave_up
       \/ /\ \A k \in 1 .. Len(pushbuffer) : OnOwned(pushbuffer[k], held)
          /\ armed => pushbuffer = <<>> \/ (pushbuffer = <<instruction.transfer>> /\ live.status = -1)
          /\ ~armed /\ ~At("busy_wait") => pushbuffer = <<>>

IInv == PlaceInv /\ HeldInv /\ QueueInv

-----------------------------------------------------------------------------
(* How tests are made *)

\* Two sequences, one after the other.
LEMMA Concatenated ==
  ASSUME NEW S, NEW T, NEW s \in Seq(S), NEW t \in Seq(T)
  PROVE  /\ s \o t \in Seq(S \cup T) /\ Len(s) \in Nat /\ Len(t) \in Nat /\ Len(s \o t) = Len(s) + Len(t)
         /\ \A k \in 1 .. Len(s) : (s \o t)[k] = s[k]
         /\ \A k \in Len(s) + 1 .. Len(s) + Len(t) : (s \o t)[k] = t[k - Len(s)]
OBVIOUS

\* Two sequences of whatever elements make one.
LEMMA BothSequences ==
  ASSUME NEW s, NEW t, IsSequence(s), IsSequence(t)
  PROVE  IsSequence(s \o t)
<1>1. PICK S : s \in Seq(S)
  BY DEF IsSequence
<1>2. PICK T : t \in Seq(T)
  BY DEF IsSequence
<1>3. s \o t \in Seq(S \cup T)
  BY <1>1, <1>2, Concatenated
<1>4. QED BY <1>3 DEF IsSequence

\* It has the elements of both.
LEMMA Joined ==
  ASSUME NEW s, NEW t, IsSequence(s), IsSequence(t)
  PROVE  /\ Len(s) \in Nat /\ Len(t) \in Nat /\ Len(s \o t) = Len(s) + Len(t)
         /\ \A k \in 1 .. Len(s) : (s \o t)[k] = s[k]
         /\ \A k \in Len(s) + 1 .. Len(s) + Len(t) : (s \o t)[k] = t[k - Len(s)]
<1>1. PICK S : s \in Seq(S)
  BY DEF IsSequence
<1>2. PICK T : t \in Seq(T)
  BY DEF IsSequence
<1>3. QED BY <1>1, <1>2, Concatenated

\* Parts one after the other are a part.
LEMMA PartsInTurn ==
  ASSUME NEW owned, NEW s, NEW t, IsPart(s, owned), IsPart(t, owned)
  PROVE  IsPart(s \o t, owned)
<1>1. PICK S : s \in Seq(S)
  BY DEF IsPart, IsSequence
<1>2. PICK T : t \in Seq(T)
  BY DEF IsPart, IsSequence
<1> DEFINE c == s \o t
<1>3. /\ c \in Seq(S \cup T) /\ Len(s) \in Nat /\ Len(t) \in Nat /\ Len(c) = Len(s) + Len(t)
      /\ \A k \in 1 .. Len(s) : c[k] = s[k]
      /\ \A k \in Len(s) + 1 .. Len(s) + Len(t) : c[k] = t[k - Len(s)]
  BY <1>1, <1>2, Concatenated, SMTT(20)
<1> HIDE DEF c
<1>4. ASSUME NEW k \in 1 .. Len(s) PROVE Sound(c, k, owned)
  <2>1. Sound(s, k, owned) /\ c[k] = s[k]
    BY <1>3 DEF IsPart
  <2>2. k + 1 <= Len(s) => c[k + 1] = s[k + 1]
    BY <1>3
  <2>3. Len(s) <= Len(c) /\ k \in Nat
    BY <1>3
  <2>4. QED BY <1>3, <2>1, <2>2, <2>3 DEF Sound
<1>5. ASSUME NEW k \in Len(s) + 1 .. Len(c) PROVE Sound(c, k, owned)
  <2> DEFINE j == k - Len(s)
  <2>1. j \in 1 .. Len(t)
    BY <1>3
  <2>2. Sound(t, j, owned) /\ c[k] = t[j]
    BY <1>3, <2>1 DEF IsPart
  <2>3. j + 1 <= Len(t) => c[k + 1] = t[j + 1]
    BY <1>3
  <2>4. k = j + Len(s) /\ Len(c) = Len(t) + Len(s) /\ j \in Nat
    BY <1>3
  <2> HIDE DEF j
  <2>5. QED BY <1>3, <2>2, <2>3, <2>4 DEF Sound
<1>6. \E X : c \in Seq(X)
  BY <1>3
<1>7. \A k \in 1 .. Len(c) : Sound(c, k, owned)
  BY <1>3, <1>4, <1>5
<1>8. QED BY <1>6, <1>7 DEF IsPart, c, IsSequence

\* One instruction that neither is followed by another nor passes over any.
LEMMA PlainPart ==
  ASSUME NEW owned, NEW x, x.op \in {"prepare", "busy_wait", "check", "record", "dump"}
  PROVE  IsPart(<<x>>, owned)
<1>1. <<x>> \in Seq({x}) /\ Len(<<x>>) = 1 /\ <<x>>[1] = x
  OBVIOUS
<1>2. Sound(<<x>>, 1, owned)
  BY <1>1 DEF Sound
<1>3. IsSequence(<<x>>)
  BY <1>1 DEF IsSequence
<1>4. QED BY <1>1, <1>2, <1>3 DEF IsPart

\* What is written, what is compared, what is looked at in the record.
LEMMA PlainParts ==
  ASSUME NEW owned, NEW w
  PROVE  /\ IsPart(Prepare(w), owned) /\ IsPart(Check(w), owned) /\ IsPart(Record(w), owned)
         /\ IsPart(<<[op |-> "dump"]>>, owned)
BY PlainPart DEF Prepare, Check, Record

\* A transfer and what is passed over if gpum_copy returns null.
LEMMA CopyPart ==
  ASSUME NEW owned, NEW t, t.cmd = "transfer", OnOwned(t, owned),
         NEW s, IsPart(s, owned), NEW skip \in Nat, skip <= Len(s)
  PROVE  IsPart(GpumCopySkipping(t, skip) \o s, owned)
<1> DEFINE x == [op |-> "copy", transfer |-> t, skip |-> skip]
           c == <<x>> \o s
<1>1. PICK S : s \in Seq(S)
  BY DEF IsPart, IsSequence
<1>2. <<x>> \in Seq({x}) /\ Len(<<x>>) = 1 /\ <<x>>[1] = x
  OBVIOUS
<1>3. x.op = "copy" /\ x.transfer = t /\ x.skip = skip
  OBVIOUS
<1> HIDE DEF x
<1>4. /\ c \in Seq({x} \cup S) /\ Len(s) \in Nat /\ Len(c) = 1 + Len(s)
      /\ c[1] = x
      /\ \A k \in 2 .. 1 + Len(s) : c[k] = s[k - 1]
  BY <1>1, <1>2, Concatenated
<1>5. GpumCopySkipping(t, skip) \o s = c
  BY DEF GpumCopySkipping, x
<1> HIDE DEF c
<1>6. Sound(c, 1, owned)
  BY <1>3, <1>4 DEF Sound
<1>7. ASSUME NEW k \in 2 .. Len(c) PROVE Sound(c, k, owned)
  <2> DEFINE j == k - 1
  <2>1. j \in 1 .. Len(s) /\ k = j + 1 /\ j \in Nat
    BY <1>4
  <2>2. Sound(s, j, owned) /\ c[k] = s[j]
    BY <1>4, <2>1 DEF IsPart
  <2>3. j + 1 <= Len(s) => c[k + 1] = s[j + 1]
    BY <1>4
  <2> HIDE DEF j
  <2>4. QED BY <1>4, <2>1, <2>2, <2>3 DEF Sound
<1>8. QED BY <1>4, <1>5, <1>6, <1>7 DEF IsPart, IsSequence

\* Commands written by hand, and the wait for them.
LEMMA PushPart ==
  ASSUME NEW owned, NEW S, NEW commands \in Seq(S), \A j \in 1 .. Len(commands) : OnOwned(commands[j], owned)
  PROVE  IsPart(Push(commands), owned)
<1> DEFINE x == [op |-> "push", commands |-> commands]
           y == [op |-> "busy_wait"]
           c == <<x, y>>
<1>1. x.op = "push" /\ x.commands = commands /\ y.op = "busy_wait"
  OBVIOUS
<1>2. DOMAIN commands = 1 .. Len(commands)
  OBVIOUS
<1>3. Push(commands) = c
  BY DEF Push
<1> HIDE DEF x, y
<1>4. c \in Seq({x, y}) /\ Len(c) = 2 /\ c[1] = x /\ c[2] = y
  OBVIOUS
<1> HIDE DEF c
<1>5. Sound(c, 1, owned)
  <2>1. \E T : x.commands \in Seq(T)
    BY <1>1
  <2>2. QED BY <1>1, <1>2, <1>4, <2>1 DEF Sound, IsSequence
<1>6. Sound(c, 2, owned)
  BY <1>1, <1>4 DEF Sound
<1>7. QED BY <1>3, <1>4, <1>5, <1>6 DEF IsPart, IsSequence

\* Where what comes before its allocations, its body and the frees are in a test.
Encloses(p, front, body) ==
    LET a == Len(front) IN
    /\ IsSequence(p) /\ Len(p) = a + Len(body) + 1 /\ Len(body) \in Nat /\ Len(p) \in Nat
    /\ \A k \in 1 .. a : p[k] = front[k]
    /\ \A k \in 1 .. Len(body) : p[k + a] = body[k]
    /\ p[Len(p)].op = "free"
    /\ AllocatesAt(p) = a

LEMMA EnclosedAt ==
  ASSUME NEW front, IsSequence(front), Len(front) \in {2, 3},
         front[Len(front)].op = "allocate", Len(front) = 3 => front[2].op = "framebuffer",
         NEW body, IsSequence(body)
  PROVE  Encloses(front \o body \o <<[op |-> "free"]>>, front, body)
<1> DEFINE one == <<[op |-> "free"]>>
           a == Len(front)
           c == front \o body
           p == c \o one
<1>1. IsSequence(one) /\ Len(one) = 1 /\ one[1].op = "free"
  <2>1. one \in Seq({[op |-> "free"]})
    OBVIOUS
  <2>2. QED BY <2>1 DEF IsSequence
<1> HIDE DEF one
<1>2. IsSequence(c) /\ IsSequence(p)
  BY <1>1, BothSequences
<1>3. /\ Len(body) \in Nat /\ Len(c) = a + Len(body)
      /\ \A k \in 1 .. a : c[k] = front[k]
      /\ \A k \in a + 1 .. a + Len(body) : c[k] = body[k - a]
  BY Joined
<1> HIDE DEF c
<1>4. /\ Len(p) = Len(c) + 1
      /\ \A k \in 1 .. Len(c) : p[k] = c[k]
      /\ \A k \in Len(c) + 1 .. Len(c) + 1 : p[k] = one[k - Len(c)]
  <2>1. /\ Len(p) = Len(c) + Len(one)
        /\ \A k \in 1 .. Len(c) : p[k] = c[k]
        /\ \A k \in Len(c) + 1 .. Len(c) + Len(one) : p[k] = one[k - Len(c)]
    BY <1>1, <1>2, Joined
  <2> HIDE DEF p
  <2>2. QED BY <1>1, <2>1
<1> HIDE DEF p
<1>5. p[Len(c) + 1].op = "free"
  BY <1>1, <1>3, <1>4
<1>6. /\ \A k \in 1 .. a : p[k] = front[k]
      /\ \A k \in a + 1 .. a + Len(body) : p[k] = body[k - a]
      /\ a \in {2, 3}
  BY <1>3, <1>4
<1>7. AllocatesAt(p) = a
  <2>1. p[2] = front[2] /\ p[a] = front[a]
    <3> HIDE DEF a
    <3>1. 2 \in 1 .. a /\ a \in 1 .. a
      BY <1>6
    <3>2. QED BY <1>6, <3>1
  <2>2. QED BY <2>1, <1>6 DEF AllocatesAt
<1>8. Len(p) = a + Len(body) + 1 /\ p[Len(p)].op = "free" /\ Len(body) \in Nat /\ a \in Nat /\ Len(p) \in Nat
  BY <1>3, <1>4, <1>5
<1> HIDE DEF a
<1>9. \A k \in 1 .. Len(body) : p[k + a] = body[k]
  <2>1. \A k \in 1 .. Len(body) : k + a \in a + 1 .. a + Len(body) /\ (k + a) - a = k
    BY <1>8
  <2>2. QED BY <1>6, <2>1
<1>10. Encloses(p, front, body)
  BY <1>2, <1>6, <1>7, <1>8, <1>9 DEF Encloses, a
<1>11. QED BY <1>10 DEF p, c, one

\* They make a test if the body is a part.
LEMMA Enclosed ==
  ASSUME NEW front, IsSequence(front), Len(front) \in {2, 3},
         front[1].op = "init", front[Len(front)].op = "allocate", Len(front) = 3 => front[2].op = "framebuffer",
         NEW body, IsPart(body, DOMAIN front[Len(front)].sizes)
  PROVE  IsTest(front \o body \o <<[op |-> "free"]>>)
<1> DEFINE a == Len(front)
           owned == DOMAIN front[a].sizes
           p == front \o body \o <<[op |-> "free"]>>
<1>1. Encloses(p, front, body)
  <2>1. IsSequence(body)
    BY DEF IsPart
  <2>2. QED BY <2>1, EnclosedAt
<1> HIDE DEF p
<1>6. /\ \A k \in 1 .. a : p[k] = front[k]
      /\ \A k \in 1 .. Len(body) : p[k + a] = body[k]
      /\ a \in {2, 3} /\ AllocatesAt(p) = a /\ IsSequence(p)
  BY <1>1 DEF Encloses
<1>7. Buffers(p) = owned
  <2>1. p[a] = front[a]
    BY <1>6
  <2> HIDE DEF a
  <2>2. QED BY <1>6, <2>1 DEF Buffers
<1>8. p[1].op = "init" /\ p[a].op = "allocate" /\ (a = 3 => p[2].op = "framebuffer")
  BY <1>6
<1>9. Len(p) = a + Len(body) + 1 /\ p[Len(p)].op = "free" /\ a < Len(p) /\ Len(body) \in Nat /\ a \in Nat
  BY <1>1 DEF Encloses
<1>10. IsPart(body, owned)
  OBVIOUS
<1> HIDE DEF a, owned
<1>11. ASSUME NEW k \in a + 1 .. a + Len(body)
       PROVE  Sound(p, k, owned) /\ (p[k].op = "copy" => k + p[k].skip <= Len(p) - 1)
  <2> DEFINE j == k - a
  <2>1. j \in 1 .. Len(body) /\ k = j + a
    BY <1>9
  <2>2. Sound(body, j, owned) /\ p[k] = body[j]
    BY <1>6, <1>10, <2>1 DEF IsPart
  <2>3. j + 1 <= Len(body) => p[k + 1] = body[j + 1]
    <3>1. j + 1 <= Len(body) => j + 1 \in 1 .. Len(body) /\ k + 1 = (j + 1) + a
      BY <1>9, <2>1
    <3> HIDE DEF j
    <3>2. QED BY <1>6, <3>1
  <2> HIDE DEF j
  <2>4. QED BY <1>9, <2>1, <2>2, <2>3 DEF Sound
<1>12. Len(p) - 1 = a + Len(body)
  BY <1>9
<1>13. IsTest(p)
  BY <1>6, <1>7, <1>8, <1>9, <1>11, <1>12 DEF IsTest
<1>14. QED BY <1>13 DEF p

\* M2MFInit, the allocations and the frees make a test of a part.
LEMMA MadeATest ==
  ASSUME NEW sizes_, NEW body, IsPart(body, DOMAIN sizes_)
  PROVE  IsTest(TestOn(sizes_, body))
<1> DEFINE x == [op |-> "init"]
           y == [op |-> "allocate", sizes |-> sizes_]
           front == <<x, y>>
<1>1. x.op = "init" /\ y.op = "allocate" /\ y.sizes = sizes_
  OBVIOUS
<1>2. TestOn(sizes_, body) = front \o body \o <<[op |-> "free"]>>
  BY DEF TestOn
<1> HIDE DEF x, y
<1>3. front \in Seq({x, y}) /\ Len(front) = 2 /\ front[1] = x /\ front[Len(front)] = y
  OBVIOUS
<1> HIDE DEF front
<1>4. front[Len(front)].sizes = sizes_ /\ front[1].op = "init" /\ front[Len(front)].op = "allocate"
  BY <1>1, <1>3
<1>5. Len(front) \in {2, 3} /\ (Len(front) = 3 => front[2].op = "framebuffer")
  BY <1>3
<1>6. IsTest(front \o body \o <<[op |-> "free"]>>)
  <2>1. IsSequence(front)
    BY <1>3 DEF IsSequence
  <2>2. QED BY <2>1, <1>4, <1>5, Enclosed
<1>7. QED BY <1>2, <1>6

\* How a sequence of several parts is bracketed does not matter.
LEMMA Bracketed ==
  ASSUME NEW s, NEW t, NEW r, IsSequence(s), IsSequence(t), IsSequence(r)
  PROVE  (s \o t) \o r = s \o (t \o r)
<1>1. PICK S : s \in Seq(S)
  BY DEF IsSequence
<1>2. PICK T : t \in Seq(T)
  BY DEF IsSequence
<1>3. PICK R : r \in Seq(R)
  BY DEF IsSequence
<1> DEFINE U == S \cup T \cup R
<1>4. s \in Seq(U) /\ t \in Seq(U) /\ r \in Seq(U)
  <2>1. S \subseteq U /\ T \subseteq U /\ R \subseteq U
    OBVIOUS
  <2> HIDE DEF U
  <2>2. QED BY <1>1, <1>2, <1>3, <2>1, SeqMonotonic
<1> HIDE DEF U
<1>5. QED BY <1>4, ConcatAssociative

\* A transfer to one buffer from another.
LEMMA StridedOn ==
  ASSUME NEW dst, NEW do, NEW src, NEW so, NEW len, NEW lines, NEW pitch_in, NEW pitch_out,
         NEW stride_in, NEW stride_out, NEW owned, {src, dst} \subseteq Usable(owned)
  PROVE  LET t == Strided(dst, do, src, so, len, lines, pitch_in, pitch_out, stride_in, stride_out)
         IN  t.cmd = "transfer" /\ OnOwned(t, owned)
BY DEF Strided, OnOwned

\* So with adjacent bytes,
LEMMA PitchedOn ==
  ASSUME NEW dst, NEW do, NEW src, NEW so, NEW len, NEW lines, NEW pitch_in, NEW pitch_out,
         NEW owned, {src, dst} \subseteq Usable(owned)
  PROVE  LET t == PitchedCopy(dst, do, src, so, len, lines, pitch_in, pitch_out)
         IN  t.cmd = "transfer" /\ OnOwned(t, owned)
BY StridedOn DEF PitchedCopy

\* and with one line.
LEMMA LinearOn ==
  ASSUME NEW dst, NEW do, NEW src, NEW so, NEW size, NEW owned, {src, dst} \subseteq Usable(owned)
  PROVE  LET t == Linear(dst, do, src, so, size) IN t.cmd = "transfer" /\ OnOwned(t, owned)
BY PitchedOn DEF Linear

\* What most tests do: write, copy, and look at what has been copied.
LEMMA FilledAndCopied ==
  ASSUME NEW owned, NEW w, NEW t, t.cmd = "transfer", OnOwned(t, owned),
         NEW skip \in Nat, NEW s, IsPart(s, owned), skip <= Len(s)
  PROVE  /\ IsPart(Prepare(w) \o GpumCopySkipping(t, skip) \o s, owned)
         /\ (Prepare(w) \o GpumCopySkipping(t, skip)) \o s = Prepare(w) \o (GpumCopySkipping(t, skip) \o s)
         /\ IsSequence(Prepare(w) \o GpumCopySkipping(t, skip))
<1> DEFINE p == Prepare(w)  g == GpumCopySkipping(t, skip)
<1>1. IsPart(p, owned) /\ IsPart(g \o s, owned)
  BY PlainParts, CopyPart
<1>2. IsSequence(g)
  <2> DEFINE x == [op |-> "copy", transfer |-> t, skip |-> skip]
  <2> HIDE DEF x
  <2>1. <<x>> \in Seq({x})
    OBVIOUS
  <2>2. g = <<x>>
    BY DEF GpumCopySkipping, x
  <2>3. QED BY <2>1, <2>2 DEF IsSequence
<1>3. (IsSequence(p)) /\ (IsSequence(s))
  BY <1>1 DEF IsPart
<1> HIDE DEF p, g
<1>4. (p \o g) \o s = p \o (g \o s)
  BY <1>2, <1>3, Bracketed
<1>5. IsPart(p \o (g \o s), owned)
  BY <1>1, PartsInTurn
<1>6. IsSequence(p \o g)
  BY <1>2, <1>3, BothSequences
<1>7. QED BY <1>4, <1>5, <1>6 DEF p, g

\* So with a comparison, or a look at the record, after it.
LEMMA CopiedAndChecked ==
  ASSUME NEW owned, NEW w, NEW c, NEW t, t.cmd = "transfer", OnOwned(t, owned)
  PROVE  /\ IsPart(Prepare(w) \o GpumCopy(t) \o Check(c), owned)
         /\ IsPart(Prepare(w) \o GpumCopy(t) \o Record(c), owned)
<1>1. Len(Check(c)) = 1 /\ Len(Record(c)) = 1
  BY DEF Check, Record
<1>2. IsPart(Check(c), owned) /\ IsPart(Record(c), owned) /\ 1 \in Nat
  BY PlainParts
<1>3. QED BY <1>1, <1>2, FilledAndCopied DEF GpumCopy, IsSequence

\* Copies that are compared with a pattern,
LEMMA WholePart ==
  ASSUME NEW owned, NEW t, t.cmd = "transfer", OnOwned(t, owned), NEW size, NEW filler, NEW seed
  PROVE  IsPart(Whole(t, size, filler, seed), owned)
BY CopiedAndChecked DEF Whole

\* and those compared line by line.
LEMMA RowsPart ==
  ASSUME NEW owned, NEW t, t.cmd = "transfer", OnOwned(t, owned), NEW seed
  PROVE  IsPart(Rows(t, seed), owned)
BY CopiedAndChecked DEF Rows

\* The buffers of most tests.
LEMMA TwoBuffers == \A n : DOMAIN Two(n) = {"src", "dst"} /\ {"src", "dst"} \subseteq Usable(DOMAIN Two(n))
BY DEF Two, Usable

\* The transfers of the tests of alignment are between these,
LEMMA UnalignedOn ==
  ASSUME NEW owned, {"src", "dst"} \subseteq Usable(owned), NEW s_off, NEW d_off, NEW size
  PROVE  LET t == Unaligned(s_off, d_off, size) IN t.cmd = "transfer" /\ OnOwned(t, owned)
BY LinearOn DEF Unaligned

\* and those of the tests of pitches.
LEMMA RowsOfOn ==
  ASSUME NEW owned, {"src", "dst"} \subseteq Usable(owned),
         NEW len, NEW lines, NEW pitch_in, NEW pitch_out
  PROVE  LET t == RowsOf(len, lines, pitch_in, pitch_out) IN t.cmd = "transfer" /\ OnOwned(t, owned)
BY PitchedOn DEF RowsOf

\* Three copies.
LEMMA AlignmentOddSizesIsTest == IsTest(TestM2MFAlignmentOddSizes)
<1> DEFINE n == Span(7) + 3  owned == DOMAIN Two(n)
           A == Whole(Unaligned(0, 0, 1), 1, 204, 154)
           B == Whole(Unaligned(3, 1, 5), 5, 204, 158)
           C == Whole(Unaligned(1, 3, 7), 7, 204, 156)
<1>1. {"src", "dst"} \subseteq Usable(owned)
  BY TwoBuffers
<1> HIDE DEF n, owned
<1>2. IsPart(A, owned) /\ IsPart(B, owned) /\ IsPart(C, owned)
  BY <1>1, UnalignedOn, WholePart
<1> HIDE DEF A, B, C
<1>3. IsPart(A \o B \o C, owned)
  BY <1>2, PartsInTurn
<1>4. IsTest(TestOn(Two(n), A \o B \o C))
  BY <1>3, MadeATest DEF owned
<1>5. QED BY <1>4 DEF TestM2MFAlignmentOddSizes, n, A, B, C

\* Four.
LEMMA AlignmentPhasesIsTest == IsTest(TestM2MFAlignmentPhases)
<1> DEFINE n == Span(7) + 1  owned == DOMAIN Two(n)
           Phase(s_off, d_off) == Whole(Unaligned(s_off, d_off, 7), 7, 204, 16 * s_off + d_off)
           A == Phase(0, 0)  B == Phase(0, 1)  C == Phase(1, 0)  D == Phase(1, 1)
<1>1. {"src", "dst"} \subseteq Usable(owned)
  BY TwoBuffers
<1> HIDE DEF n, owned
<1>2. IsPart(A, owned) /\ IsPart(B, owned) /\ IsPart(C, owned) /\ IsPart(D, owned)
  BY <1>1, UnalignedOn, WholePart
<1> HIDE DEF A, B, C, D
<1>3. IsPart(A \o B \o C \o D, owned)
  BY <1>2, PartsInTurn
<1>4. IsTest(TestOn(Two(n), A \o B \o C \o D))
  BY <1>3, MadeATest DEF owned
<1>5. QED BY <1>4 DEF TestM2MFAlignmentPhases, n, A, B, C, D

\* Two transfers, one from where the other copies to.
LEMMA BatchingCausalChainIsTest == IsTest(TestM2MFBatchingCausalChain)
<1> DEFINE all == [buf \in {"a", "b", "c"} |-> kChainSize]  owned == DOMAIN all
           x == Linear("b", 0, "a", 0, kChainSize)
           y == Linear("c", 0, "b", 0, kChainSize)
           w == <<Fill("a", 0, kChainSize, 131), Set("b", 0, kChainSize, 17), Set("c", 0, kChainSize, 34)>>
           c == {Fill("b", 0, kChainSize, 131), Fill("c", 0, kChainSize, 131)}
           body == Prepare(w) \o Push(<<x, y>>) \o Check(c)
<1>1. {"a", "b"} \subseteq Usable(owned) /\ {"b", "c"} \subseteq Usable(owned)
  BY DEF Usable
<1> HIDE DEF all, owned, w, c
<1>2. OnOwned(x, owned) /\ OnOwned(y, owned)
  BY <1>1, LinearOn
<1> HIDE DEF x, y
<1>3. <<x, y>> \in Seq({x, y}) /\ Len(<<x, y>>) = 2 /\ <<x, y>>[1] = x /\ <<x, y>>[2] = y
  OBVIOUS
<1>4. \A j \in 1 .. Len(<<x, y>>) : OnOwned(<<x, y>>[j], owned)
  BY <1>2, <1>3
<1>5. IsPart(Push(<<x, y>>), owned)
  BY <1>3, <1>4, PushPart
<1>6. IsPart(body, owned)
  BY <1>5, PlainParts, PartsInTurn
<1> HIDE DEF body
<1>7. IsTest(TestOn(all, body))
  BY <1>6, MadeATest DEF owned
<1>8. QED BY <1>7 DEF TestM2MFBatchingCausalChain, all, body, w, c, x, y

\* As many transfers as chunks.
LEMMA BatchingIndependentIsTest == IsTest(TestM2MFBatchingIndependent)
<1> DEFINE n == kNumChunks * kChunkSize  owned == DOMAIN Two(n)
           Chunk(i) == (i - 1) * kChunkSize
           one(i) == Linear("dst", Chunk(i), "src", Chunk(i), kChunkSize)
           all == [i \in 1 .. kNumChunks |-> one(i)]
           w == <<Set("dst", 0, kNumChunks * kChunkSize, 204)>>
                    \o [i \in 1 .. kNumChunks |-> Fill("src", Chunk(i), kChunkSize, i + 6)]
           c == {Fill("dst", Chunk(i), kChunkSize, i + 6) : i \in 1 .. kNumChunks}
           body == Prepare(w) \o Push(all) \o Check(c)
<1>1. {"src", "dst"} \subseteq Usable(owned)
  BY TwoBuffers
<1> HIDE DEF n, owned, w, c, Chunk
<1>2. \A i : OnOwned(one(i), owned)
  BY <1>1, LinearOn
<1> HIDE DEF one
<1>3. kNumChunks = 3
  BY DEF kNumChunks
<1>4. all \in Seq({one(i) : i \in 1 .. kNumChunks}) /\ Len(all) = kNumChunks /\ \A i \in 1 .. kNumChunks : all[i] = one(i)
  BY <1>3
<1> HIDE DEF all
<1>5. \A j \in 1 .. Len(all) : OnOwned(all[j], owned)
  BY <1>2, <1>4
<1>6. IsPart(Push(all), owned)
  BY <1>4, <1>5, PushPart
<1>7. IsPart(body, owned)
  BY <1>6, PlainParts, PartsInTurn
<1> HIDE DEF body
<1>8. IsTest(TestOn(Two(n), body))
  BY <1>7, MadeATest DEF owned
<1>9. QED BY <1>8 DEF TestM2MFBatchingIndependent, n, body, w, c, all, one, Chunk

\* A copy with strides, and what is compared after it.
LEMMA FormatPart ==
  ASSUME NEW owned, {"src", "dst"} \subseteq Usable(owned), NEW stride_in, NEW stride_out, NEW lines
  PROVE  IsPart(FormatCase(stride_in, stride_out, lines), owned)
<1> DEFINE t == Strided("dst", kCanarySize, "src", kCanarySize, u + 3, lines,
                        lines * (u + 3) * stride_in, lines * (u + 3) * stride_out, stride_in, stride_out)
           rising == [i \in 0 .. lines * t.pitch_in - 1 |-> (16 + i) % kByteSize]
           written == {y * t.pitch_out + x * stride_out : y \in 0 .. lines - 1, x \in 0 .. t.len - 1}
           left == [i \in (0 .. kFormatSpan - 1) \ written |-> 204 % kByteSize]
           w == Around(kCanarySize, kFormatSpan, 204)
                    \o <<Set("src", 0, Span(kFormatSpan), 0), [buf |-> "src", at |-> kCanarySize, bytes |-> rising]>>
           c == Lines(t) \cup {[buf |-> "dst", at |-> kCanarySize, bytes |-> left]}
                    \cup Guards(kCanarySize, kFormatSpan)
<1>1. FormatCase(stride_in, stride_out, lines) = Prepare(w) \o GpumCopy(t) \o Check(c)
  BY DEF FormatCase
<1> HIDE DEF w, c
<1>2. t.cmd = "transfer" /\ OnOwned(t, owned)
  BY StridedOn
<1> HIDE DEF t
<1>3. QED BY <1>1, <1>2, CopiedAndChecked

\* Six of them.
LEMMA FormatIsTest == IsTest(TestM2MFFormat)
<1> DEFINE all == Two(Span(kFormatSpan))  owned == DOMAIN all
           A == FormatCase(1, 2, 1)  B == FormatCase(1, 2, 2)  C == FormatCase(2, 1, 1)
           D == FormatCase(2, 2, 1)  E == FormatCase(1, 4, 1)  F == FormatCase(4, 2, 1)
<1>1. {"src", "dst"} \subseteq Usable(owned)
  BY TwoBuffers
<1> HIDE DEF all, owned
<1>2. /\ IsPart(A, owned) /\ IsPart(B, owned) /\ IsPart(C, owned)
      /\ IsPart(D, owned) /\ IsPart(E, owned) /\ IsPart(F, owned)
  BY <1>1, FormatPart
<1> HIDE DEF A, B, C, D, E, F
<1>3. IsPart(A \o B \o C \o D \o E \o F, owned)
  BY <1>2, PartsInTurn
<1>4. IsTest(TestOn(all, A \o B \o C \o D \o E \o F))
  BY <1>3, MadeATest DEF owned
<1>5. QED BY <1>4 DEF TestM2MFFormat, all, A, B, C, D, E, F

\* The test that copies to the framebuffer, which no test allocates.
LEMMA FramebufferShape ==
  LET n == 2 * kByteSize
      front == <<[op |-> "init"], [op |-> "framebuffer"], [op |-> "allocate", sizes |-> [src |-> Span(n)]]>>
      body == Prepare(<<Fill("src", kCanarySize, n, 119)>>)
                  \o GpumCopy(Linear("framebuffer", 0, "src", kCanarySize, n))
                  \o Check({Fill("framebuffer", 0, n, 119)})
  IN  /\ TestM2MFFramebuffer = front \o body \o <<[op |-> "free"]>>
      /\ IsSequence(front)
      /\ Len(front) = 3 /\ front[1].op = "init" /\ front[2].op = "framebuffer" /\ front[3].op = "allocate"
      /\ front[3].sizes = [src |-> Span(n)] /\ IsPart(body, {"src"})
<1> DEFINE n == 2 * kByteSize
           some == [src |-> Span(n)]
           x == [op |-> "init"]
           v == [op |-> "framebuffer"]
           y == [op |-> "allocate", sizes |-> some]
           front == <<x, v, y>>
           owned == {"src"}
           t == Linear("framebuffer", 0, "src", kCanarySize, n)
           w == <<Fill("src", kCanarySize, n, 119)>>
           g == GpumCopy(t)
           c == {Fill("framebuffer", 0, n, 119)}
           body == Prepare(w) \o g \o Check(c)
<1>1. x.op = "init" /\ v.op = "framebuffer" /\ y.op = "allocate" /\ y.sizes = some
  OBVIOUS
<1>2. TestM2MFFramebuffer = front \o Prepare(w) \o g \o Check(c) \o <<[op |-> "free"]>>
  BY DEF TestM2MFFramebuffer
<1> HIDE DEF x, v, y, some, w, c
<1>3. front \in Seq({x, v, y}) /\ Len(front) = 3 /\ front[1] = x /\ front[2] = v /\ front[3] = y
  OBVIOUS
<1> HIDE DEF front
<1>4. t.cmd = "transfer" /\ OnOwned(t, owned)
  BY LinearOn DEF Usable
<1> HIDE DEF t, n
<1>5. IsPart(body, owned) /\ IsPart(Prepare(w), owned) /\ IsPart(Check(c), owned)
  BY <1>4, CopiedAndChecked, PlainParts
<1>6. IsSequence(g)
  <2> DEFINE e == [op |-> "copy", transfer |-> t, skip |-> 1]
  <2> HIDE DEF e
  <2>1. <<e>> \in Seq({e})
    OBVIOUS
  <2>2. g = <<e>>
    BY DEF GpumCopy, GpumCopySkipping, e
  <2>3. QED BY <2>1, <2>2 DEF IsSequence
<1> HIDE DEF g
<1>7. front \o Prepare(w) \o g \o Check(c) = front \o body
  <2>1. (IsSequence(front)) /\ (IsSequence(Prepare(w))) /\ (IsSequence(Check(c)))
    BY <1>3, <1>5 DEF IsPart, IsSequence
  <2>2. IsSequence(Prepare(w) \o g)
    BY <2>1, <1>6, BothSequences
  <2>3. (front \o Prepare(w)) \o g = front \o (Prepare(w) \o g)
    BY <2>1, <1>6, Bracketed, SMTT(20)
  <2>4. (front \o (Prepare(w) \o g)) \o Check(c) = front \o ((Prepare(w) \o g) \o Check(c))
    BY <2>1, <2>2, Bracketed, SMTT(20)
  <2>5. QED BY <2>3, <2>4
<1> HIDE DEF body
<1>8. TestM2MFFramebuffer = front \o body \o <<[op |-> "free"]>>
  BY <1>2, <1>7
<1>9. IsSequence(front)
  BY <1>3 DEF IsSequence
<1>10. QED BY <1>1, <1>3, <1>5, <1>8, <1>9 DEF front, body, g, t, w, c, x, v, y, some, n, owned

LEMMA FramebufferIsTest == IsTest(TestM2MFFramebuffer)
<1> DEFINE n == 2 * kByteSize
           front == <<[op |-> "init"], [op |-> "framebuffer"], [op |-> "allocate", sizes |-> [src |-> Span(n)]]>>
           body == Prepare(<<Fill("src", kCanarySize, n, 119)>>)
                       \o GpumCopy(Linear("framebuffer", 0, "src", kCanarySize, n))
                       \o Check({Fill("framebuffer", 0, n, 119)})
           sizes_ == [src |-> Span(n)]
<1>1. /\ TestM2MFFramebuffer = front \o body \o <<[op |-> "free"]>>
      /\ IsSequence(front)
      /\ Len(front) = 3 /\ front[1].op = "init" /\ front[2].op = "framebuffer" /\ front[3].op = "allocate"
      /\ front[3].sizes = sizes_ /\ IsPart(body, {"src"})
  BY FramebufferShape
<1>2. DOMAIN sizes_ = {"src"}
  OBVIOUS
<1> HIDE DEF front, body, sizes_
<1>3. QED BY <1>1, <1>2, Enclosed

\* A test that copies between two buffers, in one part or several.
LEMMA PartsOnTwo ==
  ASSUME NEW n, NEW body, \A owned : {"src", "dst"} \subseteq Usable(owned) => IsPart(body, owned)
  PROVE  IsTest(TestOn(Two(n), body))
<1>1. IsPart(body, DOMAIN Two(n))
  BY TwoBuffers
<1>2. QED BY <1>1, MadeATest

\* The tests that compare lines.
LEMMA RowsTestsAreTests ==
  /\ IsTest(TestM2MFLargePitch) /\ IsTest(TestM2MFPitchedAsymmetric)
  /\ IsTest(TestM2MFPitchedPacking) /\ IsTest(TestM2MFPitchedSymmetric)
<1>1. ASSUME NEW owned, {"src", "dst"} \subseteq Usable(owned),
             NEW len, NEW lines, NEW pitch_in, NEW pitch_out, NEW seed
      PROVE  IsPart(Rows(RowsOf(len, lines, pitch_in, pitch_out), seed), owned)
  BY <1>1, RowsOfOn, RowsPart
<1>2. IsTest(TestM2MFLargePitch)
  BY <1>1, PartsOnTwo DEF TestM2MFLargePitch
<1>3. IsTest(TestM2MFPitchedSymmetric)
  BY <1>1, PartsOnTwo DEF TestM2MFPitchedSymmetric
<1>4. IsTest(TestM2MFPitchedAsymmetric)
  <2> DEFINE A == Rows(RowsOf(2 * u, 3, 16 * u, 4 * u), 0)  B == Rows(RowsOf(3 * u, 3, 4 * u, 8 * u), 64)
  <2>1. \A owned : {"src", "dst"} \subseteq Usable(owned) => IsPart(A, owned) /\ IsPart(B, owned)
    BY <1>1
  <2> HIDE DEF A, B
  <2>2. \A owned : {"src", "dst"} \subseteq Usable(owned) => IsPart(A \o B, owned)
    BY <2>1, PartsInTurn
  <2>3. QED BY <2>2, PartsOnTwo DEF TestM2MFPitchedAsymmetric, A, B
<1>5. IsTest(TestM2MFPitchedPacking)
  <2> DEFINE A == Rows(RowsOf(4 * u, 2, 4 * u, 8 * u), 0)  B == Rows(RowsOf(4 * u, 2, 8 * u, 4 * u), 1)
  <2>1. \A owned : {"src", "dst"} \subseteq Usable(owned) => IsPart(A, owned) /\ IsPart(B, owned)
    BY <1>1
  <2> HIDE DEF A, B
  <2>2. \A owned : {"src", "dst"} \subseteq Usable(owned) => IsPart(A \o B, owned)
    BY <2>1, PartsInTurn
  <2>3. QED BY <2>2, PartsOnTwo DEF TestM2MFPitchedPacking, A, B
<1>6. QED BY <1>2, <1>3, <1>4, <1>5

\* The tests of one copy that is compared with a pattern.
LEMMA WholeTestsAreTests ==
  /\ IsTest(TestM2MFMaxLineCount) /\ IsTest(TestM2MFSysmemToVram)
  /\ IsTest(TestM2MFVramToSysmem) /\ IsTest(TestM2MFVramToVram)
<1>1. IsTest(TestM2MFMaxLineCount)
  BY RowsOfOn, WholePart, PartsOnTwo DEF TestM2MFMaxLineCount
<1>2. ASSUME NEW seed PROVE IsTest(Upload(seed))
  BY LinearOn, WholePart, PartsOnTwo DEF Upload
<1>3. QED BY <1>1, <1>2 DEF TestM2MFSysmemToVram, TestM2MFVramToSysmem, TestM2MFVramToVram

\* The other tests of a copy.
LEMMA CopyTestsAreTests ==
  /\ IsTest(TestM2MFLinearCopy) /\ IsTest(TestM2MFMinTransfer)
  /\ IsTest(TestM2MFNotifierRecord) /\ IsTest(TestM2MFZeroSize)
<1>1. IsTest(TestM2MFLinearCopy)
  BY LinearOn, CopiedAndChecked, PartsOnTwo DEF TestM2MFLinearCopy
<1>2. IsTest(TestM2MFMinTransfer)
  BY RowsOfOn, CopiedAndChecked, PartsOnTwo DEF TestM2MFMinTransfer
<1>3. IsTest(TestM2MFNotifierRecord)
  BY LinearOn, CopiedAndChecked, PartsOnTwo DEF TestM2MFNotifierRecord
<1>4. IsTest(TestM2MFZeroSize)
  <2> DEFINE w == <<Set("dst", 0, 16, 204), Set("src", 0, 16, 85)>>
             c == {Set("dst", 0, 16, 204)}
             A == Prepare(w) \o GpumCopy(PitchedCopy("dst", 0, "src", 0, 4, 0, 4, 4)) \o Check(c)
             B == Prepare(w) \o GpumCopy(PitchedCopy("dst", 0, "src", 0, 0, 2, 4, 4)) \o Check(c)
  <2> HIDE DEF w, c
  <2>1. \A owned : {"src", "dst"} \subseteq Usable(owned) => IsPart(A, owned) /\ IsPart(B, owned)
    BY PitchedOn, CopiedAndChecked
  <2> HIDE DEF A, B
  <2>2. \A owned : {"src", "dst"} \subseteq Usable(owned) => IsPart(A \o B, owned)
    BY <2>1, PartsInTurn
  <2>3. QED BY <2>2, PartsOnTwo DEF TestM2MFZeroSize, A, B, w, c
<1>5. QED BY <1>1, <1>2, <1>3, <1>4

\* The parts of TestM2MFNotifierSwitching after its gpum_copy: the seven
\* instructions that are passed over if it returns null.
LEMMA SwitchingPart ==
  ASSUME NEW owned, {"src", "dst"} \subseteq Usable(owned), NEW to,
         NEW t, t.cmd = "transfer", OnOwned(t, owned)
  PROVE  IsPart(Push(<<DmaNotify(to), t>>), owned) /\ Len(Push(<<DmaNotify(to), t>>)) = 2
<1> DEFINE d == DmaNotify(to)
<1>1. OnOwned(d, owned)
  BY DEF DmaNotify, OnOwned
<1> HIDE DEF d
<1>2. <<d, t>> \in Seq({d, t}) /\ Len(<<d, t>>) = 2 /\ <<d, t>>[1] = d /\ <<d, t>>[2] = t
  OBVIOUS
<1>3. \A j \in 1 .. Len(<<d, t>>) : OnOwned(<<d, t>>[j], owned)
  BY <1>1, <1>2
<1>4. IsPart(Push(<<d, t>>), owned)
  BY <1>2, <1>3, PushPart
<1>5. Len(Push(<<d, t>>)) = 2
  BY DEF Push
<1>6. QED BY <1>4, <1>5 DEF d

\* How long two parts are,
LEMMA PartsLength ==
  ASSUME NEW owned, NEW s, NEW t, IsPart(s, owned), IsPart(t, owned)
  PROVE  IsPart(s \o t, owned) /\ Len(s \o t) = Len(s) + Len(t)
<1>1. PICK S : s \in Seq(S)
  BY DEF IsPart, IsSequence
<1>2. PICK T : t \in Seq(T)
  BY DEF IsPart, IsSequence
<1>3. Len(s \o t) = Len(s) + Len(t)
  BY <1>1, <1>2, Concatenated
<1>4. QED BY <1>3, PartsInTurn

\* and five.
LEMMA FiveParts ==
  ASSUME NEW owned, NEW A, NEW B, NEW C, NEW D, NEW E,
         IsPart(A, owned), IsPart(B, owned), IsPart(C, owned), IsPart(D, owned), IsPart(E, owned)
  PROVE  /\ IsPart(A \o B \o C \o D \o E, owned)
         /\ Len(A \o B \o C \o D \o E) = Len(A) + Len(B) + Len(C) + Len(D) + Len(E)
<1>1. IsPart(A \o B, owned) /\ Len(A \o B) = Len(A) + Len(B)
  BY PartsLength
<1>2. IsPart(A \o B \o C, owned) /\ Len(A \o B \o C) = Len(A \o B) + Len(C)
  BY <1>1, PartsLength
<1>3. IsPart(A \o B \o C \o D, owned) /\ Len(A \o B \o C \o D) = Len(A \o B \o C) + Len(D)
  BY <1>2, PartsLength
<1>4. IsPart(A \o B \o C \o D \o E, owned) /\ Len(A \o B \o C \o D \o E) = Len(A \o B \o C \o D) + Len(E)
  BY <1>3, PartsLength
<1>5. QED BY <1>1, <1>2, <1>3, <1>4

\* The test that hands over the notifier.
LEMMA NotifierSwitchingIsTest == IsTest(TestM2MFNotifierSwitching)
<1> DEFINE t == Linear("dst", 0, "src", 0, 2)
           t4 == Linear("dst", 0, "src", 0, 4)
           w == <<Set("src", 0, 4, 51), Set("dst", 0, 4, 0)>>
           h == Prepare(w) \o GpumCopySkipping(t4, 7)
           A == <<[op |-> "dump"]>>
           B == Push(<<DmaNotify("scratch"), t>>)
           C == Record("unchanged")
           D == Push(<<DmaNotify("live"), t>>)
           E == Record("advanced")
           s == A \o B \o C \o D \o E
           body == h \o A \o B \o C \o D \o E
<1>1. TestM2MFNotifierSwitching = TestOn(Two(4), body)
  BY DEF TestM2MFNotifierSwitching
<1> HIDE DEF w, body, s, h
<1>2. ASSUME NEW owned, {"src", "dst"} \subseteq Usable(owned) PROVE IsPart(body, owned)
  <2>1. t.cmd = "transfer" /\ OnOwned(t, owned) /\ t4.cmd = "transfer" /\ OnOwned(t4, owned)
    BY <1>2, LinearOn
  <2> HIDE DEF t, t4
  <2>2. IsPart(B, owned) /\ Len(B) = 2 /\ IsPart(D, owned) /\ Len(D) = 2
    BY <1>2, <2>1, SwitchingPart
  <2>3. IsPart(A, owned) /\ Len(A) = 1 /\ IsPart(C, owned) /\ Len(C) = 1 /\ IsPart(E, owned) /\ Len(E) = 1
    <3>1. Len(A) = 1 /\ Len(C) = 1 /\ Len(E) = 1
      BY DEF Record
    <3>2. QED BY <3>1, PlainParts
  <2> HIDE DEF A, B, C, D, E
  <2>4. IsPart(s, owned) /\ Len(s) = 7
    <3>1. /\ IsPart(A, owned) /\ IsPart(B, owned) /\ IsPart(C, owned)
          /\ IsPart(D, owned) /\ IsPart(E, owned)
      BY <2>2, <2>3
    <3>2. IsPart(s, owned) /\ Len(s) = Len(A) + Len(B) + Len(C) + Len(D) + Len(E)
      BY <3>1, FiveParts DEF s
    <3>3. QED BY <2>2, <2>3, <3>2
  <2>5. IsPart(h \o s, owned) /\ IsSequence(h)
    <3>1. 7 \in Nat /\ 7 <= Len(s)
      BY <2>4
    <3>2. QED BY <2>1, <2>4, <3>1, FilledAndCopied DEF h
  <2>6. IsSequence(A) /\ IsSequence(B)
    BY <2>2, <2>3 DEF IsPart
  <2>7. IsSequence(C) /\ IsSequence(D) /\ IsSequence(E)
    BY <2>2, <2>3 DEF IsPart
  <2>8. h \o s = body
    <3> DEFINE AB == A \o B  ABC == AB \o C  ABCD == ABC \o D
    <3>1. (h \o A) \o B = h \o AB /\ IsSequence(AB)
      BY <2>5, <2>6, Bracketed, BothSequences, SMTT(20)
    <3> HIDE DEF AB
    <3>2. (h \o AB) \o C = h \o ABC /\ IsSequence(ABC)
      <4>1. IsSequence(h) /\ IsSequence(AB) /\ IsSequence(C)
        BY <2>5, <2>7, <3>1
      <4>2. (h \o AB) \o C = h \o ABC
        BY <4>1, Bracketed
      <4>3. QED BY <4>1, <4>2, BothSequences
    <3> HIDE DEF ABC
    <3>3. (h \o ABC) \o D = h \o ABCD /\ IsSequence(ABCD)
      <4>1. IsSequence(h) /\ IsSequence(ABC) /\ IsSequence(D)
        BY <2>5, <2>7, <3>2
      <4>2. (h \o ABC) \o D = h \o ABCD
        BY <4>1, Bracketed
      <4>3. QED BY <4>1, <4>2, BothSequences
    <3> HIDE DEF ABCD
    <3>4. (h \o ABCD) \o E = h \o (ABCD \o E)
      BY <2>5, <2>7, <3>3, Bracketed, SMTT(20)
    <3>5. h \o A \o B \o C \o D \o E = h \o (ABCD \o E)
      BY <3>1, <3>2, <3>3, <3>4
    <3>6. QED BY <3>5 DEF ABCD, ABC, AB, s, body
  <2>9. QED BY <2>5, <2>8
<1>3. QED BY <1>1, <1>2, PartsOnTwo

\* The nineteen tests are tests.
LEMMA TestsAreTests == Len(kTests) = 19 /\ \A k \in 1 .. Len(kTests) : IsTest(kTests[k])
<1>1. Len(kTests) = 19
  BY DEF kTests
<1>2. /\ IsTest(kTests[1]) /\ IsTest(kTests[2]) /\ IsTest(kTests[3]) /\ IsTest(kTests[4]) /\ IsTest(kTests[5])
      /\ IsTest(kTests[6]) /\ IsTest(kTests[7]) /\ IsTest(kTests[8]) /\ IsTest(kTests[9]) /\ IsTest(kTests[10])
      /\ IsTest(kTests[11]) /\ IsTest(kTests[12]) /\ IsTest(kTests[13]) /\ IsTest(kTests[14])
      /\ IsTest(kTests[15]) /\ IsTest(kTests[16]) /\ IsTest(kTests[17]) /\ IsTest(kTests[18])
      /\ IsTest(kTests[19])
  BY AlignmentOddSizesIsTest, AlignmentPhasesIsTest, BatchingCausalChainIsTest, BatchingIndependentIsTest,
     FormatIsTest, FramebufferIsTest, NotifierSwitchingIsTest, RowsTestsAreTests, WholeTestsAreTests,
     CopyTestsAreTests DEF kTests
<1>3. QED BY <1>1, <1>2

-----------------------------------------------------------------------------
(* The steps *)

\* What instruction k of a test is, by where it stands.
LEMMA WhereItStands ==
  ASSUME NEW p, IsTest(p), NEW k \in 1 .. Len(p)
  PROVE  LET x == p[k]  a == AllocatesAt(p) IN
         /\ x.op = "init" => k = 1
         /\ x.op \in {"init", "framebuffer"} => k < a
         /\ x.op = "allocate" => k = a
         /\ x.op \notin {"init", "framebuffer", "allocate"} => k > a
         /\ x.op # "free" => k < Len(p)
         /\ x.op = "copy" => /\ x.transfer.cmd = "transfer" /\ OnOwned(x.transfer, Buffers(p))
                             /\ x.skip \in Nat /\ k + 1 + x.skip <= Len(p)
         /\ x.op = "push" => /\ IsSequence(x.commands)
                             /\ \A j \in DOMAIN x.commands : OnOwned(x.commands[j], Buffers(p))
                             /\ p[k + 1].op = "busy_wait"
<1> DEFINE a == AllocatesAt(p)
<1>1. a \in {2, 3} /\ a < Len(p) /\ Len(p) \in Nat
  <2>1. Len(p) \in Nat
    BY DEF IsTest, IsSequence
  <2>2. QED BY <2>1 DEF IsTest, AllocatesAt
<1>2. /\ p[1].op = "init" /\ p[a].op = "allocate" /\ (a = 3 => p[2].op = "framebuffer")
      /\ \A j \in a + 1 .. Len(p) - 1 : Sound(p, j, Buffers(p)) /\ (p[j].op = "copy" => j + p[j].skip <= Len(p) - 1)
      /\ p[Len(p)].op = "free"
  BY DEF IsTest
<1> HIDE DEF a
<1>3. CASE k < a
  BY <1>1, <1>2, <1>3 DEF a
<1>4. CASE k = a
  BY <1>1, <1>2, <1>4 DEF a
<1>5. CASE k \in a + 1 .. Len(p) - 1
  <2>1. Sound(p, k, Buffers(p)) /\ (p[k].op = "copy" => k + p[k].skip <= Len(p) - 1)
    BY <1>2, <1>5
  <2>2. k > a /\ k < Len(p)
    BY <1>1, <1>5
  <2>3. QED BY <1>1, <2>1, <2>2 DEF Sound, a
<1>6. CASE k = Len(p)
  BY <1>1, <1>2, <1>6 DEF a
<1>7. QED BY <1>1, <1>3, <1>4, <1>5, <1>6

\* So of the instruction the thread is about to execute.
LEMMA Instruction ==
  ASSUME PlaceInv, ~Ended
  PROVE  LET p == kTests[test]  a == AllocatesAt(p)  x == instruction IN
         /\ IsTest(p) /\ pc \in 1 .. Len(p) /\ Len(p) \in Nat /\ test \in 1 .. Len(kTests) /\ a \in Nat /\ a >= 2
         /\ x.op = "init" => pc = 1
         /\ x.op \in {"init", "framebuffer"} => pc < a
         /\ x.op = "allocate" => pc = a
         /\ x.op \notin {"init", "framebuffer", "allocate"} => pc > a
         /\ x.op # "free" => pc < Len(p)
         /\ x.op = "copy" => /\ x.transfer.cmd = "transfer" /\ OnOwned(x.transfer, Buffers(p))
                             /\ x.skip \in Nat /\ pc + 1 + x.skip <= Len(p)
         /\ x.op = "push" => /\ IsSequence(x.commands)
                             /\ \A j \in DOMAIN x.commands : OnOwned(x.commands[j], Buffers(p))
                             /\ p[pc + 1].op = "busy_wait"
<1>1. test \in 1 .. Len(kTests) /\ pc \in 1 .. Len(kTests[test])
  BY TestsAreTests DEF PlaceInv, Ended
<1>2. IsTest(kTests[test])
  BY <1>1, TestsAreTests
<1>3. Len(kTests[test]) \in Nat /\ AllocatesAt(kTests[test]) \in {2, 3}
  BY <1>2 DEF IsTest, IsSequence, AllocatesAt
<1>4. QED BY <1>1, <1>2, <1>3, WhereItStands DEF instruction

\* The suite begins with nothing held and nothing pushed.
LEMMA InitInv == Init => IInv
<1> SUFFICES ASSUME Init PROVE IInv
  OBVIOUS
<1>1. test = 1 /\ pc = 1 /\ Len(kTests) = 19 /\ ~Ended
  BY TestsAreTests DEF Init, Ended
<1>2. IsTest(kTests[1])
  BY <1>1, TestsAreTests
<1>3. Len(kTests[1]) \in Nat /\ AllocatesAt(kTests[1]) \in {2, 3} /\ 1 < Len(kTests[1])
  BY <1>2 DEF IsTest, IsSequence, AllocatesAt
<1>4. PlaceInv
  BY <1>1, <1>3 DEF Init, PlaceInv
<1>5. HeldInv
  BY <1>1, <1>3 DEF Init, HeldInv
<1>6. QueueInv
  <2>1. Len(<<>>) = 0 /\ <<>> \in Seq({})
    OBVIOUS
  <2>2. IsSequence(pushbuffer) /\ Len(pushbuffer) = 0
    BY <2>1 DEF Init, IsSequence
  <2>3. QED BY <2>2 DEF Init, QueueInv
<1>7. QED BY <1>4, <1>5, <1>6 DEF IInv

\* The thread goes from one instruction of a test to a later one.
LEMMA GoesOn ==
  ASSUME IInv, ~Ended, instruction.op # "free", test' = test, pc' \in pc + 1 .. Len(kTests[test]),
         IF instruction.op = "allocate" THEN pc' = pc + 1 /\ held' = held \cup DOMAIN instruction.sizes
                                        ELSE held' = held,
         instruction.op \in {"init", "framebuffer"} => pc' = pc + 1,
         ~armed'
  PROVE  PlaceInv' /\ HeldInv'
<1> DEFINE p == kTests[test]  a == AllocatesAt(p)
<1>1. /\ IsTest(p) /\ pc \in 1 .. Len(p) /\ Len(p) \in Nat /\ test \in 1 .. Len(kTests) /\ a \in Nat
      /\ instruction.op \in {"init", "framebuffer"} => pc < a
      /\ instruction.op = "allocate" => pc = a
      /\ instruction.op \notin {"init", "framebuffer", "allocate"} => pc > a
  BY Instruction DEF IInv
<1>2. ~Ended'
  BY DEF Ended
<1>3. PlaceInv'
  BY <1>1, <1>2 DEF PlaceInv, IInv
<1>4. held = IF pc <= a THEN {} ELSE Buffers(p)
  BY DEF IInv, HeldInv
<1>5. held' = IF pc' <= a THEN {} ELSE Buffers(p)
  <2>1. CASE instruction.op = "allocate"
    <3>1. DOMAIN instruction.sizes = Buffers(p)
      BY <1>1, <2>1 DEF Buffers, instruction
    <3>2. held = {} /\ pc' > a
      BY <1>1, <1>4, <2>1
    <3> HIDE DEF p, a
    <3>3. QED BY <1>1, <2>1, <3>1, <3>2
  <2>2. CASE instruction.op \in {"init", "framebuffer"}
    BY <1>1, <1>4, <2>2
  <2>3. CASE instruction.op \notin {"init", "framebuffer", "allocate"}
    BY <1>1, <1>4, <2>3
  <2>4. QED BY <2>1, <2>2, <2>3
<1>6. HeldInv'
  BY <1>2, <1>5 DEF HeldInv
<1>7. QED BY <1>3, <1>6

\* The thread goes to the next test, and holds nothing.
LEMMA GoesToTheNext ==
  ASSUME IInv, ~Ended, NextTest, held' = {}, ~armed'
  PROVE  PlaceInv' /\ HeldInv'
<1>1. test \in 1 .. Len(kTests) /\ test' = test + 1 /\ pc' = 1 /\ Len(kTests) = 19
  BY Instruction, TestsAreTests DEF IInv, NextTest
<1>2. ASSUME ~Ended' PROVE 1 \in 1 .. Len(kTests[test']) /\ 1 <= AllocatesAt(kTests[test'])
  <2>1. test' \in 1 .. Len(kTests)
    BY <1>1, <1>2 DEF Ended
  <2>2. IsTest(kTests[test'])
    BY <2>1, TestsAreTests
  <2>3. QED BY <2>2 DEF IsTest, IsSequence, AllocatesAt
<1>3. QED BY <1>1, <1>2 DEF PlaceInv, HeldInv

\* Where the thread awaits nothing, nothing waits for the GPU.
LEMMA NothingWaits ==
  ASSUME IInv, NEW op, op \notin {"copy", "busy_wait"}, At(op)
  PROVE  ~Ended /\ instruction.op = op /\ ~armed /\ (gave_up \/ pushbuffer = <<>>) /\ (gave_up => excused)
BY DEF IInv, PlaceInv, QueueInv, At

\* Nothing is awaited where nothing waits.
LEMMA QueueStays ==
  ASSUME IInv, UNCHANGED <<pushbuffer, live>>,
         gave_up \/ pushbuffer = <<>> \/ gave_up', gave_up => gave_up', gave_up' => excused', ~armed'
  PROVE  QueueInv'
<1>1. Len(<<>>) = 0
  OBVIOUS
<1>2. IsSequence(pushbuffer) /\ live \in [status : {0, -1}, ptimer : 0 .. 2]
  BY DEF IInv, QueueInv
<1>3. CASE gave_up'
  BY <1>2, <1>3 DEF QueueInv
<1>4. CASE pushbuffer = <<>>
  BY <1>1, <1>2, <1>4 DEF QueueInv
<1>5. QED BY <1>3, <1>4

\* The steps that hand nothing to the GPU, and await nothing.
LEMMA QuietInv ==
  ASSUME IInv, M2MFInit \/ PrepareStep \/ CheckStep \/ RecordStep \/ Dump
  PROVE  IInv'
<1>1. PICK op \in {"init", "prepare", "check", "record", "dump"} : At(op)
  BY DEF M2MFInit, PrepareStep, CheckStep, RecordStep, Dump
<1>2. ~Ended /\ instruction.op = op /\ ~armed /\ (gave_up \/ pushbuffer = <<>>)
  BY <1>1, NothingWaits
<1>3. Step /\ UNCHANGED <<held, pushbuffer, live, armed, excused, gave_up>>
  BY DEF M2MFInit, PrepareStep, CheckStep, RecordStep, Dump, buffers, gpu
<1>4. pc \in Nat /\ pc + 1 <= Len(kTests[test]) /\ Len(kTests[test]) \in Nat
  BY <1>2, Instruction DEF IInv
<1>5. PlaceInv' /\ HeldInv'
  BY <1>2, <1>3, <1>4, GoesOn DEF Step
<1>6. QueueInv'
  BY <1>2, <1>3, QueueStays DEF IInv, QueueInv
<1>7. QED BY <1>5, <1>6 DEF IInv

\* From the allocations on a test holds its buffers.
LEMMA AllocateInv ==
  ASSUME IInv, Allocate
  PROVE  IInv'
<1>1. At("allocate")
  BY DEF Allocate
<1>2. ~Ended /\ instruction.op = "allocate" /\ ~armed /\ (gave_up \/ pushbuffer = <<>>)
  BY <1>1, NothingWaits
<1>3. Step /\ held' = held \cup DOMAIN instruction.sizes /\ UNCHANGED <<pushbuffer, live, armed, excused, gave_up>>
  BY DEF Allocate, gpu, sizes
<1>4. pc \in Nat /\ pc + 1 <= Len(kTests[test]) /\ Len(kTests[test]) \in Nat
  BY <1>2, Instruction DEF IInv
<1>5. PlaceInv' /\ HeldInv'
  BY <1>2, <1>3, <1>4, GoesOn DEF Step
<1>6. QueueInv'
  BY <1>2, <1>3, QueueStays DEF IInv, QueueInv
<1>7. QED BY <1>5, <1>6 DEF IInv

\* A test that cannot begin, or has ended, holds nothing.
LEMMA NextTestInv ==
  ASSUME IInv, M2MFInitFails \/ AllocateFails \/ Free
  PROVE  IInv'
<1>1. PICK op \in {"init", "allocate", "free"} : At(op)
  BY DEF M2MFInitFails, AllocateFails, Free
<1>2. ~Ended /\ instruction.op = op /\ ~armed /\ (gave_up \/ pushbuffer = <<>>)
  BY <1>1, NothingWaits
<1>3. NextTest /\ UNCHANGED <<pushbuffer, live, armed, gave_up>> /\ (excused' = TRUE \/ excused' = excused)
  BY DEF M2MFInitFails, AllocateFails, Free, gpu
<1>4. op \in {"init", "allocate"} => held = {}
  BY <1>2, Instruction DEF IInv, HeldInv
<1>5. held' = {}
  <2>1. CASE M2MFInitFails
    <3>1. op = "init"
      BY <1>2, <2>1 DEF M2MFInitFails, At
    <3>2. QED BY <1>4, <2>1, <3>1 DEF M2MFInitFails, buffers
  <2>2. CASE AllocateFails
    <3>1. op = "allocate"
      BY <1>2, <2>2 DEF AllocateFails, At
    <3>2. QED BY <1>4, <2>2, <3>1 DEF AllocateFails, Released
  <2>3. CASE Free
    BY <2>3 DEF Free
  <2>4. QED BY <2>1, <2>2, <2>3
<1>6. PlaceInv' /\ HeldInv'
  BY <1>2, <1>3, <1>5, GoesToTheNext
<1>7. gave_up' => excused'
  <2>1. gave_up => excused
    BY DEF IInv, QueueInv
  <2>2. CASE excused' = TRUE
    BY <2>2
  <2>3. CASE excused' = excused
    BY <1>3, <2>1, <2>3
  <2>4. QED BY <1>3, <2>2, <2>3
<1>8. QueueInv'
  BY <1>2, <1>3, <1>7, QueueStays
<1>9. QED BY <1>6, <1>8 DEF IInv

\* The test of the framebuffer goes on, or is skipped.
LEMMA FramebufferInv ==
  ASSUME IInv, Framebuffer
  PROVE  IInv'
<1>1. At("framebuffer")
  BY DEF Framebuffer
<1>2. ~Ended /\ instruction.op = "framebuffer" /\ ~armed /\ (gave_up \/ pushbuffer = <<>>)
  BY <1>1, NothingWaits
<1>3. (Step \/ NextTest) /\ UNCHANGED <<held, pushbuffer, live, armed, excused, gave_up>>
  BY DEF Framebuffer, buffers, gpu
<1>4. pc \in Nat /\ pc + 1 <= Len(kTests[test]) /\ Len(kTests[test]) \in Nat
  BY <1>2, Instruction DEF IInv
<1>5. held = {}
  BY <1>2, Instruction DEF IInv, HeldInv
<1>6. ASSUME Step PROVE PlaceInv' /\ HeldInv'
  BY <1>2, <1>3, <1>4, <1>6, GoesOn DEF Step
<1>7. ASSUME NextTest PROVE PlaceInv' /\ HeldInv'
  BY <1>2, <1>3, <1>5, <1>7, GoesToTheNext
<1>8. QueueInv'
  BY <1>2, <1>3, QueueStays DEF IInv, QueueInv
<1>9. PlaceInv' /\ HeldInv'
  BY <1>3, <1>6, <1>7
<1>10. QED BY <1>8, <1>9 DEF IInv

\* gpum_copy pushes a transfer of the test's own buffers, and nothing else waits.
LEMMA CopyStartsInv ==
  ASSUME IInv, GpumCopyStarts
  PROVE  IInv'
<1> DEFINE t == instruction.transfer
<1>1. /\ ~Ended /\ instruction.op = "copy" /\ ~armed /\ armed'
      /\ live' = [live EXCEPT !.status = -1] /\ pushbuffer' = Append(pushbuffer, t)
      /\ UNCHANGED <<held, test, pc, excused, gave_up>>
  BY DEF GpumCopyStarts, At, buffers
<1>2. OnOwned(t, Buffers(kTests[test])) /\ pc > AllocatesAt(kTests[test]) /\ pc \in Nat /\ AllocatesAt(kTests[test]) \in Nat
  BY <1>1, Instruction DEF IInv
<1>3. OnOwned(t, held)
  BY <1>1, <1>2 DEF IInv, HeldInv
<1>4. (Ended <=> Ended') /\ instruction' = instruction
  BY <1>1 DEF Ended, instruction
<1>5. At("copy")'
  BY <1>1, <1>4 DEF At
<1>6. PlaceInv' /\ HeldInv'
  BY <1>1, <1>4, <1>5 DEF IInv, PlaceInv, HeldInv
<1>7. live' \in [status : {0, -1}, ptimer : 0 .. 2] /\ live'.status = -1
  BY <1>1 DEF IInv, QueueInv
<1>8. IsSequence(pushbuffer')
  <2>1. PICK S : pushbuffer \in Seq(S)
    BY DEF IInv, QueueInv, IsSequence
  <2> HIDE DEF t
  <2>2. Append(pushbuffer, t) \in Seq(S \cup {t})
    BY <2>1
  <2>3. QED BY <1>1, <2>2 DEF IsSequence
<1>9. ASSUME gave_up PROVE QueueInv'
  BY <1>1, <1>7, <1>8, <1>9 DEF IInv, QueueInv
<1>10. ASSUME ~gave_up PROVE QueueInv'
  <2>1. pushbuffer = <<>>
    BY <1>1, <1>10 DEF IInv, QueueInv, At
  <2> HIDE DEF t
  <2>2. Append(<<>>, t) = <<t>> /\ Len(<<t>>) = 1 /\ <<t>>[1] = t
    OBVIOUS
  <2>3. pushbuffer' = <<t>>
    BY <1>1, <2>1, <2>2
  <2>4. \A k \in 1 .. Len(pushbuffer') : OnOwned(pushbuffer'[k], held')
    BY <1>1, <1>3, <2>2, <2>3
  <2>5. pushbuffer' = <<instruction'.transfer>> /\ live'.status = -1
    BY <1>4, <1>7, <2>3 DEF t
  <2>6. gave_up' => excused'
    BY <1>1, <1>10
  <2>7. QED BY <1>1, <1>7, <1>8, <2>4, <2>5, <2>6 DEF QueueInv
<1>11. QED BY <1>6, <1>9, <1>10 DEF IInv

\* The record says that the transfer gpum_copy has pushed is done.
LEMMA CopyReturnsInv ==
  ASSUME IInv, GpumCopyReturns
  PROVE  IInv'
<1>1. /\ ~Ended /\ instruction.op = "copy" /\ armed /\ live.status = 0 /\ ~armed'
      /\ Step /\ UNCHANGED <<held, pushbuffer, live, excused, gave_up>>
  BY DEF GpumCopyReturns, At, buffers, gpu
<1>2. pc \in Nat /\ pc + 1 <= Len(kTests[test]) /\ Len(kTests[test]) \in Nat
  BY <1>1, Instruction DEF IInv
<1>3. PlaceInv' /\ HeldInv'
  BY <1>1, <1>2, GoesOn DEF Step
<1>4. gave_up \/ pushbuffer = <<>>
  BY <1>1 DEF IInv, QueueInv
<1>5. QueueInv'
  BY <1>1, <1>4, QueueStays DEF IInv, QueueInv
<1>6. QED BY <1>3, <1>5 DEF IInv

\* gpum_copy gives up: what it has pushed may be executed whenever.
LEMMA CopyGivesUpInv ==
  ASSUME IInv, GpumCopyGivesUp
  PROVE  IInv'
<1>1. /\ ~Ended /\ instruction.op = "copy" /\ ~armed' /\ excused' /\ gave_up'
      /\ test' = test /\ pc' = pc + 1 + instruction.skip /\ UNCHANGED <<held, pushbuffer, live>>
  BY DEF GpumCopyGivesUp, At, buffers, gpu
<1>2. /\ pc \in Nat /\ instruction.skip \in Nat /\ pc + 1 + instruction.skip <= Len(kTests[test])
      /\ Len(kTests[test]) \in Nat
  BY <1>1, Instruction DEF IInv
<1>3. pc' \in pc + 1 .. Len(kTests[test])
  BY <1>1, <1>2
<1>4. PlaceInv' /\ HeldInv'
  BY <1>1, <1>3, GoesOn
<1>5. QueueInv'
  BY <1>1, QueueStays
<1>6. QED BY <1>4, <1>5 DEF IInv

\* What is pushed by hand is the test's own, and is awaited next.
LEMMA PushInv ==
  ASSUME IInv, PushStep
  PROVE  IInv'
<1> DEFINE commands == instruction.commands
<1>1. At("push")
  BY DEF PushStep
<1>2. ~Ended /\ instruction.op = "push" /\ ~armed /\ (gave_up \/ pushbuffer = <<>>)
  BY <1>1, NothingWaits
<1>3. Step /\ pushbuffer' = pushbuffer \o commands /\ UNCHANGED <<held, live, armed, excused, gave_up>>
  BY DEF PushStep, buffers
<1>4. /\ pc \in Nat /\ pc + 1 <= Len(kTests[test]) /\ Len(kTests[test]) \in Nat
      /\ pc > AllocatesAt(kTests[test]) /\ AllocatesAt(kTests[test]) \in Nat
      /\ IsSequence(commands) /\ \A j \in DOMAIN commands : OnOwned(commands[j], Buffers(kTests[test]))
      /\ kTests[test][pc + 1].op = "busy_wait"
  BY <1>2, Instruction DEF IInv
<1>5. PlaceInv' /\ HeldInv'
  BY <1>2, <1>3, <1>4, GoesOn DEF Step
<1>6. held' = Buffers(kTests[test])
  BY <1>2, <1>3, <1>4 DEF IInv, HeldInv
<1>7. At("busy_wait")'
  BY <1>2, <1>3, <1>4 DEF Step, At, Ended, instruction
<1> HIDE DEF commands
<1>8. IsSequence(pushbuffer')
  BY <1>3, <1>4, BothSequences DEF IInv, QueueInv
<1>9. ASSUME gave_up PROVE QueueInv'
  BY <1>3, <1>8, <1>9 DEF IInv, QueueInv
<1>10. ASSUME pushbuffer = <<>> PROVE QueueInv'
  <2>1. PICK S : commands \in Seq(S)
    BY <1>4 DEF IsSequence
  <2>2. <<>> \o commands = commands /\ DOMAIN commands = 1 .. Len(commands)
    BY <2>1
  <2>3. pushbuffer' = commands
    BY <1>3, <1>10, <2>2
  <2>4. \A k \in 1 .. Len(pushbuffer') : OnOwned(pushbuffer'[k], held')
    BY <1>4, <1>6, <2>2, <2>3
  <2>5. live' \in [status : {0, -1}, ptimer : 0 .. 2]
    BY <1>3 DEF IInv, QueueInv
  <2>6. gave_up' => excused'
    BY <1>3 DEF IInv, QueueInv
  <2>7. QED BY <1>2, <1>3, <1>7, <1>8, <2>4, <2>5, <2>6 DEF QueueInv
<1>11. QED BY <1>2, <1>5, <1>9, <1>10 DEF IInv

\* The wait ends with nothing left.
LEMMA BusyWaitInv ==
  ASSUME IInv, PBKitBusyWait
  PROVE  IInv'
<1>1. /\ ~Ended /\ instruction.op = "busy_wait" /\ pushbuffer = <<>>
      /\ Step /\ UNCHANGED <<held, pushbuffer, live, armed, excused, gave_up>>
  BY DEF PBKitBusyWait, Drained, At, buffers, gpu
<1>2. ~armed
  BY <1>1 DEF IInv, PlaceInv, At
<1>3. pc \in Nat /\ pc + 1 <= Len(kTests[test]) /\ Len(kTests[test]) \in Nat
  BY <1>1, Instruction DEF IInv
<1>4. PlaceInv' /\ HeldInv'
  BY <1>1, <1>2, <1>3, GoesOn DEF Step
<1>5. QueueInv'
  BY <1>1, <1>2, QueueStays DEF IInv, QueueInv
<1>6. QED BY <1>4, <1>5 DEF IInv

\* A sequence without one of its elements.
LEMMA Removed ==
  ASSUME NEW S, NEW s \in Seq(S), NEW i \in 1 .. Len(s)
  PROVE  /\ RemoveAt(s, i) \in Seq(S) /\ Len(RemoveAt(s, i)) = Len(s) - 1
         /\ \A k \in 1 .. Len(RemoveAt(s, i)) : \E j \in 1 .. Len(s) : RemoveAt(s, i)[k] = s[j]
<1> DEFINE a == SubSeq(s, 1, i - 1)  b == SubSeq(s, i + 1, Len(s))
<1>1. Len(s) \in Nat /\ i \in Nat
  OBVIOUS
<1>2. a \in Seq(S) /\ Len(a) = i - 1 /\ \A k \in 1 .. i - 1 : a[k] = s[k]
  BY <1>1
<1>3. b \in Seq(S) /\ Len(b) = Len(s) - i /\ \A k \in 1 .. Len(s) - i : b[k] = s[k + i]
  BY <1>1
<1>4. RemoveAt(s, i) = a \o b
  BY DEF RemoveAt
<1> HIDE DEF a, b
<1>5. /\ a \o b \in Seq(S) /\ Len(a \o b) = Len(s) - 1
      /\ \A k \in 1 .. i - 1 : (a \o b)[k] = a[k]
      /\ \A k \in i .. Len(s) - 1 : (a \o b)[k] = b[k - (i - 1)]
  <2>1. /\ a \o b \in Seq(S \cup S) /\ Len(a \o b) = Len(a) + Len(b)
        /\ \A k \in 1 .. Len(a) : (a \o b)[k] = a[k]
        /\ \A k \in Len(a) + 1 .. Len(a) + Len(b) : (a \o b)[k] = b[k - Len(a)]
    <3>1. a \in Seq(S) /\ b \in Seq(S)
      BY <1>2, <1>3
    <3>2. QED BY <3>1, Concatenated
  <2>2. S \cup S = S
    OBVIOUS
  <2>3. Len(a) = i - 1 /\ Len(a) + 1 = i /\ Len(a) + Len(b) = Len(s) - 1
    BY <1>1, <1>2, <1>3
  <2>4. \A k \in 1 .. i - 1 : (a \o b)[k] = a[k]
    BY <2>1, <2>3
  <2>5. \A k \in i .. Len(s) - 1 : (a \o b)[k] = b[k - (i - 1)]
    BY <2>1, <2>3
  <2>6. a \o b \in Seq(S) /\ Len(a \o b) = Len(s) - 1
    BY <2>1, <2>2, <2>3
  <2>7. QED BY <2>4, <2>5, <2>6
<1>6. ASSUME NEW k \in 1 .. Len(s) - 1 PROVE \E j \in 1 .. Len(s) : (a \o b)[k] = s[j]
  <2>1. CASE k \in 1 .. i - 1
    <3>1. (a \o b)[k] = s[k] /\ k \in 1 .. Len(s)
      BY <1>1, <1>2, <1>5, <2>1
    <3>2. QED BY <3>1
  <2>2. CASE k \in i .. Len(s) - 1
    <3>1. k - (i - 1) \in 1 .. Len(s) - i /\ (k - (i - 1)) + i = k + 1 /\ k + 1 \in 1 .. Len(s)
      BY <1>1, <2>2
    <3>2. (a \o b)[k] = s[k + 1]
      BY <1>3, <1>5, <2>2, <3>1
    <3>3. QED BY <3>1, <3>2
  <2>3. k \in 1 .. i - 1 \/ k \in i .. Len(s) - 1
    BY <1>1
  <2>4. QED BY <2>1, <2>2, <2>3
<1>7. QED BY <1>4, <1>5, <1>6

\* The GPU has executed a command: what remains was there before.
LEMMA LessWaits ==
  ASSUME IInv, Gpu
  PROVE  /\ UNCHANGED <<held, test, pc, armed, excused, gave_up>>
         /\ IsSequence(pushbuffer') /\ pushbuffer # <<>>
         /\ live' \in [status : {0, -1}, ptimer : 0 .. 2]
         /\ \A k \in 1 .. Len(pushbuffer') : \E j \in 1 .. Len(pushbuffer) : pushbuffer'[k] = pushbuffer[j]
         /\ \A t : pushbuffer = <<t>> => pushbuffer' = <<>>
<1>1. PICK S : pushbuffer \in Seq(S)
  BY DEF IInv, QueueInv, IsSequence
<1>2. PICK i \in 1 .. Len(pushbuffer) :
         /\ pushbuffer' = RemoveAt(pushbuffer, i) \/ (i = 1 /\ pushbuffer' = Tail(pushbuffer))
         /\ pushbuffer # <<>>
  <2>1. CASE GpuNotify
    <3>1. 1 \in 1 .. Len(pushbuffer)
      BY <1>1, <2>1 DEF GpuNotify
    <3>2. QED BY <2>1, <3>1 DEF GpuNotify
  <2>2. CASE GpuTransfer
    <3>1. chosen \in 1 .. Len(pushbuffer)
      BY <1>1, <2>2 DEF GpuTransfer, chosen, Turned
    <3>2. QED BY <2>2, <3>1 DEF GpuTransfer
  <2>3. QED BY <2>1, <2>2 DEF Gpu
<1>3. UNCHANGED <<held, test, pc, armed, excused, gave_up>>
  BY DEF Gpu, GpuNotify, GpuTransfer, buffers, position
<1>4. live' \in [status : {0, -1}, ptimer : 0 .. 2]
  <2>1. live \in [status : {0, -1}, ptimer : 0 .. 2]
    BY DEF IInv, QueueInv
  <2>2. 1 + (live.ptimer % 2) \in 0 .. 2
    BY <2>1
  <2>3. QED BY <2>1, <2>2 DEF Gpu, GpuNotify, GpuTransfer
<1>5. /\ pushbuffer' \in Seq(S) /\ Len(pushbuffer') = Len(pushbuffer) - 1
      /\ \A k \in 1 .. Len(pushbuffer') : \E j \in 1 .. Len(pushbuffer) : pushbuffer'[k] = pushbuffer[j]
  <2>1. CASE pushbuffer' = RemoveAt(pushbuffer, i)
    <3>1. /\ RemoveAt(pushbuffer, i) \in Seq(S) /\ Len(RemoveAt(pushbuffer, i)) = Len(pushbuffer) - 1
          /\ \A k \in 1 .. Len(RemoveAt(pushbuffer, i)) :
                \E j \in 1 .. Len(pushbuffer) : RemoveAt(pushbuffer, i)[k] = pushbuffer[j]
      BY <1>1, Removed
    <3>2. QED BY <2>1, <3>1
  <2>2. CASE pushbuffer' = Tail(pushbuffer)
    <3>1. /\ pushbuffer' \in Seq(S) /\ Len(pushbuffer') = Len(pushbuffer) - 1 /\ Len(pushbuffer) \in Nat
          /\ \A k \in 1 .. Len(pushbuffer') : pushbuffer'[k] = pushbuffer[k + 1]
      BY <1>1, <1>2, <2>2
    <3>2. \A k \in 1 .. Len(pushbuffer') : k + 1 \in 1 .. Len(pushbuffer)
      BY <3>1
    <3>3. QED BY <3>1, <3>2
  <2>3. QED BY <1>2, <2>1, <2>2
<1>6. ASSUME NEW t, pushbuffer = <<t>> PROVE pushbuffer' = <<>>
  <2>1. Len(pushbuffer') = 0
    BY <1>5, <1>6
  <2>2. QED BY <1>5, <2>1
<1>7. IsSequence(pushbuffer')
  BY <1>5 DEF IsSequence
<1>8. QED BY <1>2, <1>3, <1>4, <1>5, <1>6, <1>7

\* The GPU takes what waits for it.
LEMMA GpuInv ==
  ASSUME IInv, Gpu
  PROVE  IInv'
<1>1. /\ UNCHANGED <<held, test, pc, armed, excused, gave_up>>
      /\ IsSequence(pushbuffer') /\ pushbuffer # <<>>
      /\ live' \in [status : {0, -1}, ptimer : 0 .. 2]
      /\ \A k \in 1 .. Len(pushbuffer') : \E j \in 1 .. Len(pushbuffer) : pushbuffer'[k] = pushbuffer[j]
      /\ \A t : pushbuffer = <<t>> => pushbuffer' = <<>>
  BY LessWaits
<1>2. (Ended <=> Ended') /\ instruction' = instruction
  BY <1>1 DEF Ended, instruction
<1>3. \A op : At(op) <=> At(op)'
  BY <1>2 DEF At
<1>4. PlaceInv' /\ HeldInv'
  BY <1>1, <1>2, <1>3 DEF IInv, PlaceInv, HeldInv
<1>5. ASSUME gave_up PROVE QueueInv'
  BY <1>1, <1>5 DEF IInv, QueueInv
<1>6. ASSUME ~gave_up PROVE QueueInv'
  <2>1. \A k \in 1 .. Len(pushbuffer) : OnOwned(pushbuffer[k], held)
    BY <1>6 DEF IInv, QueueInv
  <2>2. \A k \in 1 .. Len(pushbuffer') : OnOwned(pushbuffer'[k], held')
    BY <1>1, <2>1
  <2>3. armed' => pushbuffer' = <<>>
    BY <1>1, <1>6 DEF IInv, QueueInv
  <2>4. ~armed' => At("busy_wait")'
    BY <1>1, <1>3, <1>6 DEF IInv, QueueInv
  <2>5. gave_up' => excused'
    BY <1>1, <1>6
  <2>6. QED BY <1>1, <2>2, <2>3, <2>4, <2>5 DEF QueueInv
<1>7. QED BY <1>4, <1>5, <1>6 DEF IInv

\* Nothing happens.
LEMMA StutterInv ==
  ASSUME IInv, UNCHANGED vars
  PROVE  IInv'
<1>1. UNCHANGED <<held, pushbuffer, live, test, pc, armed, excused, gave_up>>
  BY DEF vars, buffers, gpu, position
<1>2. (Ended <=> Ended') /\ instruction' = instruction
  BY <1>1 DEF Ended, instruction
<1>3. \A op : At(op) <=> At(op)'
  BY <1>2 DEF At
<1>4. QED BY <1>1, <1>2, <1>3 DEF IInv, PlaceInv, HeldInv, QueueInv

\* What the buffers and the push buffer are is so in every state.
THEOREM Invariance == Spec => []IInv
<1>1. IInv /\ [Next]_vars => IInv'
  BY QuietInv, AllocateInv, NextTestInv, FramebufferInv, CopyStartsInv, CopyReturnsInv, CopyGivesUpInv,
     PushInv, BusyWaitInv, GpuInv, StutterInv DEF Next, Thread, End
<1>2. QED BY <1>1, InitInv, PTL DEF Spec

\* The GPU never has a transfer to make on memory the running test does not
\* hold, unless gpum_copy has given up; and whichever way a test ends, it holds
\* nothing.
THEOREM BuffersAreAlwaysOwned == Spec => []BuffersAreOwned
<1>1. IInv => BuffersAreOwned
  <2> SUFFICES ASSUME IInv PROVE BuffersAreOwned
    OBVIOUS
  <2>1. DOMAIN pushbuffer = 1 .. Len(pushbuffer)
    BY DEF IInv, QueueInv, IsSequence
  <2>2. ASSUME NEW k \in DOMAIN pushbuffer, pushbuffer[k].cmd = "transfer", ~gave_up
        PROVE  {pushbuffer[k].src, pushbuffer[k].dst} \subseteq held \cup {"framebuffer"}
    BY <2>1, <2>2 DEF IInv, QueueInv, OnOwned, Usable
  <2>3. ASSUME pc = 1 PROVE held = {}
    <3>1. ~Ended => AllocatesAt(kTests[test]) \in Nat /\ AllocatesAt(kTests[test]) >= 2
      BY Instruction DEF IInv
    <3>2. QED BY <2>3, <3>1 DEF IInv, HeldInv
  <2>4. QED BY <2>2, <2>3 DEF BuffersAreOwned
<1>2. QED BY <1>1, Invariance, PTL

-----------------------------------------------------------------------------
(* Memory *)

Names == {"src", "dst", "a", "b", "c", "framebuffer"}

\* The contents of memory when a test has allocated buffers of these sizes.
IsMemory(m, sz) ==
    /\ DOMAIN m = Names /\ DOMAIN sz \subseteq Names \ {"framebuffer"}
    /\ \A buf \in DOMAIN sz : DOMAIN m[buf] = 0 .. sz[buf] - 1
    /\ DOMAIN m["framebuffer"] = 0 .. kMaxSpan - 1

Covers(w, buf, i) == w.buf = buf /\ i - w.at \in DOMAIN w.bytes

\* The greatest of a set of numbers.
LEMMA Greatest ==
  ASSUME NEW S \in SUBSET Int, NEW k \in S, \A j \in S : j <= k
  PROVE  Max(S) = k
<1> DEFINE P(x) == x \in S /\ \A y \in S : x >= y
<1>1. P(k)
  OBVIOUS
<1>2. \A x : P(x) => x = k
  OBVIOUS
<1>3. Max(S) = CHOOSE x : P(x)
  BY DEF Max
<1> HIDE DEF P
<1>4. QED BY <1>1, <1>2, <1>3

\* What is written changes no size, and no byte that no write covers,
LEMMA WrittenElsewhere ==
  ASSUME NEW m, NEW writes
  PROVE  /\ DOMAIN Written(m, writes) = DOMAIN m
         /\ \A buf \in DOMAIN m : DOMAIN Written(m, writes)[buf] = DOMAIN m[buf]
         /\ \A buf \in DOMAIN m : \A i \in DOMAIN m[buf] :
               (\A k \in DOMAIN writes : ~Covers(writes[k], buf, i)) => Written(m, writes)[buf][i] = m[buf][i]
BY DEF Written, Covers

\* and puts the last byte written to a place there.
LEMMA WrittenLast ==
  ASSUME NEW m, NEW writes, Len(writes) \in Nat, DOMAIN writes = 1 .. Len(writes), NEW k \in 1 .. Len(writes),
         NEW buf \in DOMAIN m, NEW i \in DOMAIN m[buf], Covers(writes[k], buf, i),
         \A j \in k + 1 .. Len(writes) : ~Covers(writes[j], buf, i)
  PROVE  Written(m, writes)[buf][i] = writes[k].bytes[i - writes[k].at]
<1> DEFINE Hits == {j \in DOMAIN writes : writes[j].buf = buf /\ i - writes[j].at \in DOMAIN writes[j].bytes}
<1>1. Written(m, writes)[buf][i] =
         IF Hits = {} THEN m[buf][i] ELSE writes[Max(Hits)].bytes[i - writes[Max(Hits)].at]
  BY DEF Written
<1>2. DOMAIN writes = 1 .. Len(writes) /\ Len(writes) \in Nat
  OBVIOUS
<1>3. k \in Hits /\ Hits \in SUBSET Int /\ \A j \in Hits : j <= k
  BY <1>2 DEF Covers
<1> HIDE DEF Hits
<1>4. Max(Hits) = k
  BY <1>3, Greatest
<1>5. QED BY <1>1, <1>3, <1>4

\* A product with a number that is not less is not less.
LEMMA Multiples ==
  ASSUME NEW p \in Nat, NEW d \in Nat, d >= 1
  PROVE  d * p >= p /\ d * p \in Nat
<1>1. PICK e \in Nat : d = e + 1
  <2>1. d - 1 \in Nat /\ d = (d - 1) + 1
    OBVIOUS
  <2>2. QED BY <2>1
<1>2. d * p = e * p + p /\ e * p \in Nat
  BY <1>1
<1>3. QED BY <1>2

\* Two places in lines a pitch apart are the same only in the same line.
LEMMA SameLine ==
  ASSUME NEW p \in Nat, NEW y \in Nat, NEW z \in Nat, NEW r \in 0 .. p - 1, NEW q \in 0 .. p - 1,
         y * p + r = z * p + q
  PROVE  y = z /\ r = q
<1>1. y * p \in Nat /\ z * p \in Nat
  OBVIOUS
<1>2. CASE y > z
  <2>1. PICK d \in Nat : d >= 1 /\ y = z + d
    <3>1. y - z \in Nat /\ y - z >= 1 /\ y = z + (y - z)
      BY <1>2
    <3>2. QED BY <3>1
  <2>2. y * p = z * p + d * p
    BY <2>1
  <2>3. d * p >= p /\ d * p \in Nat
    BY <2>1, Multiples
  <2>4. QED BY <1>1, <2>2, <2>3
<1>3. CASE z > y
  <2>1. PICK d \in Nat : d >= 1 /\ z = y + d
    <3>1. z - y \in Nat /\ z - y >= 1 /\ z = y + (z - y)
      BY <1>3
    <3>2. QED BY <3>1
  <2>2. z * p = y * p + d * p
    BY <2>1
  <2>3. d * p >= p /\ d * p \in Nat
    BY <2>1, Multiples
  <2>4. QED BY <1>1, <2>2, <2>3
<1>4. CASE y = z
  BY <1>1, <1>4
<1>5. QED BY <1>2, <1>3, <1>4

\* A transfer whose bytes all go to places of their own.
Tidy(t) ==
    /\ {t.do, t.so, t.len, t.lines, t.pitch_in, t.pitch_out} \subseteq Nat
    /\ t.stride_in \in {1, 2, 4} /\ t.stride_out \in {1, 2, 4}
    /\ t.lines \in {0, 1} \/ t.stride_out * t.len <= t.pitch_out

\* Where byte x of line y goes, and where it comes from.
LEMMA Places ==
  ASSUME NEW t, Tidy(t), NEW x \in 0 .. t.len - 1, NEW y \in 0 .. t.lines - 1
  PROVE  /\ Into(t, x, y) \in Nat /\ From(t, x, y) \in Nat
         /\ \A w \in 0 .. t.len - 1, z \in 0 .. t.lines - 1 : Into(t, x, y) = Into(t, w, z) => x = w /\ y = z
<1>1. /\ t.do \in Nat /\ t.so \in Nat /\ t.len \in Nat /\ t.lines \in Nat /\ t.pitch_in \in Nat /\ t.pitch_out \in Nat
      /\ t.stride_in \in {1, 2, 4} /\ t.stride_out \in {1, 2, 4}
  BY DEF Tidy
<1>2. y * t.pitch_out \in Nat /\ y * t.pitch_in \in Nat
  BY <1>1
<1>3. x * t.stride_out \in Nat /\ x * t.stride_in \in Nat
  BY <1>1
<1>4. Into(t, x, y) \in Nat /\ From(t, x, y) \in Nat
  BY <1>1, <1>2, <1>3 DEF Into, From
<1>5. ASSUME NEW w \in 0 .. t.len - 1, NEW z \in 0 .. t.lines - 1, Into(t, x, y) = Into(t, w, z)
      PROVE  x = w /\ y = z
  <2>1. z * t.pitch_out \in Nat /\ w * t.stride_out \in Nat
    BY <1>1
  <2>2. y * t.pitch_out + x * t.stride_out = z * t.pitch_out + w * t.stride_out
    <3> DEFINE A == y * t.pitch_out  B == x * t.stride_out  C == z * t.pitch_out  D == w * t.stride_out
    <3>1. t.do + A + B = t.do + C + D
      BY <1>5 DEF Into
    <3>2. A \in Nat /\ B \in Nat /\ C \in Nat /\ D \in Nat
      BY <1>2, <1>3, <2>1
    <3> HIDE DEF A, B, C, D
    <3>3. A + B = C + D
      BY <1>1, <3>1, <3>2
    <3>4. QED BY <3>3 DEF A, B, C, D
  <2>3. CASE t.lines \in {0, 1}
    <3>1. y = 0 /\ z = 0
      BY <1>1, <2>3
    <3>2. x * t.stride_out = w * t.stride_out
      BY <1>1, <2>2, <3>1
    <3>3. QED BY <1>1, <3>1, <3>2
  <2>4. CASE t.stride_out * t.len <= t.pitch_out
    <3>1. x * t.stride_out \in 0 .. t.pitch_out - 1 /\ w * t.stride_out \in 0 .. t.pitch_out - 1
      BY <1>1, <2>4
    <3>2. y = z /\ x * t.stride_out = w * t.stride_out
      <4> DEFINE r == x * t.stride_out  q == w * t.stride_out  p == t.pitch_out
      <4>1. r \in 0 .. p - 1 /\ q \in 0 .. p - 1 /\ y * p + r = z * p + q /\ p \in Nat /\ y \in Nat /\ z \in Nat
        BY <1>1, <2>2, <3>1
      <4> HIDE DEF r, q, p
      <4>2. y = z /\ r = q
        BY <4>1, SameLine
      <4>3. QED BY <4>2 DEF r, q
    <3>3. QED BY <1>1, <3>2
  <2>5. QED BY <2>3, <2>4 DEF Tidy
<1>6. QED BY <1>4, <1>5

\* What a transfer puts where, and what it leaves,
LEMMA CopiedBytes ==
  ASSUME NEW m, NEW t, Tidy(t)
  PROVE  /\ DOMAIN Copied(m, t) = DOMAIN m[t.dst]
         /\ \A x \in 0 .. t.len - 1, y \in 0 .. t.lines - 1 :
               Into(t, x, y) \in DOMAIN m[t.dst] =>
                   Copied(m, t)[Into(t, x, y)] =
                       IF From(t, x, y) \in DOMAIN m[t.src] THEN m[t.src][From(t, x, y)] ELSE 0
<1> DEFINE Reach(i, y) == {x \in 0 .. t.len - 1 : Into(t, x, y) = i}
           New(i, y) == IF From(t, Max(Reach(i, y)), y) \in DOMAIN m[t.src]
                        THEN m[t.src][From(t, Max(Reach(i, y)), y)] ELSE 0
           Reached(i) == {y \in 0 .. t.lines - 1 : Reach(i, y) # {}}
<1>1. Copied(m, t) = [i \in DOMAIN m[t.dst] |-> IF Reached(i) = {} THEN m[t.dst][i] ELSE New(i, Max(Reached(i)))]
  BY DEF Copied
<1>2. DOMAIN Copied(m, t) = DOMAIN m[t.dst]
  BY <1>1
<1>3. ASSUME NEW x \in 0 .. t.len - 1, NEW y \in 0 .. t.lines - 1, Into(t, x, y) \in DOMAIN m[t.dst]
      PROVE  Copied(m, t)[Into(t, x, y)] =
                 IF From(t, x, y) \in DOMAIN m[t.src] THEN m[t.src][From(t, x, y)] ELSE 0
  <2> DEFINE i == Into(t, x, y)
  <2>1. \A w \in 0 .. t.len - 1, z \in 0 .. t.lines - 1 : i = Into(t, w, z) => x = w /\ y = z
    BY Places
  <2>2. Reach(i, y) = {x} /\ Reached(i) = {y}
    BY <2>1
  <2>3. x \in Int /\ y \in Int
    BY DEF Tidy
  <2>4. Max({x}) = x /\ Max({y}) = y
    BY <2>3 DEF Max
  <2>5. Copied(m, t)[i] = IF Reached(i) = {} THEN m[t.dst][i] ELSE New(i, Max(Reached(i)))
    BY <1>1, <1>3
  <2> HIDE DEF i
  <2>6. Copied(m, t)[i] = New(i, y)
    BY <2>2, <2>4, <2>5
  <2>7. QED BY <2>2, <2>4, <2>6 DEF i
<1>4. QED BY <1>2, <1>3

\* whether or not its bytes go to places of their own.
LEMMA CopiedElsewhere ==
  ASSUME NEW m, NEW t
  PROVE  /\ DOMAIN Copied(m, t) = DOMAIN m[t.dst]
         /\ \A i \in DOMAIN m[t.dst] :
               (\A x \in 0 .. t.len - 1, y \in 0 .. t.lines - 1 : Into(t, x, y) # i) => Copied(m, t)[i] = m[t.dst][i]
<1>1. DOMAIN Copied(m, t) = DOMAIN m[t.dst]
  BY DEF Copied
<1>2. ASSUME NEW i \in DOMAIN m[t.dst], \A x \in 0 .. t.len - 1, y \in 0 .. t.lines - 1 : Into(t, x, y) # i
      PROVE  Copied(m, t)[i] = m[t.dst][i]
  <2>1. {y \in 0 .. t.lines - 1 : {x \in 0 .. t.len - 1 : Into(t, x, y) = i} # {}} = {}
    BY <1>2
  <2>2. QED BY <2>1 DEF Copied
<1>3. QED BY <1>1, <1>2

\* Memory after command x, on a GPU with this fault,
One(m, x, wrong) ==
    IF x.cmd = "transfer"
    THEN [m EXCEPT ![Performed(x, wrong).dst] = Copied(m, Performed(x, wrong))] ELSE m

\* and after at most three.
Effect(m, q, wrong) ==
    LET first == One(m, q[1], wrong)
        second == One(first, q[2], wrong)
    IN  IF Len(q) = 0 THEN m
        ELSE IF Len(q) = 1 THEN first
        ELSE IF Len(q) = 2 THEN second
        ELSE One(second, q[3], wrong)

\* The first of them comes first.
LEMMA FirstOfThree ==
  ASSUME NEW m, NEW S, NEW q \in Seq(S), Len(q) \in 1 .. 3, NEW wrong
  PROVE  Effect(m, q, wrong) = Effect(One(m, Head(q), wrong), Tail(q), wrong)
<1> DEFINE r == Tail(q)
<1>1. Len(r) = Len(q) - 1 /\ Head(q) = q[1] /\ r \in Seq(S) /\ Len(q) \in Nat
  OBVIOUS
<1>2. Len(q) >= 2 => r[1] = q[2]
  OBVIOUS
<1>3. Len(q) >= 3 => r[2] = q[3]
  OBVIOUS
<1> HIDE DEF r
<1> DEFINE n == Len(q)
<1>4. n \in 1 .. 3 /\ Len(r) = n - 1
  BY <1>1
<1>5. Effect(m, q, wrong) = IF n = 1 THEN One(m, q[1], wrong)
                            ELSE IF n = 2 THEN One(One(m, q[1], wrong), q[2], wrong)
                            ELSE One(One(One(m, q[1], wrong), q[2], wrong), q[3], wrong)
  BY <1>4 DEF Effect
<1>6. Effect(One(m, q[1], wrong), r, wrong) =
          IF n = 1 THEN One(m, q[1], wrong)
          ELSE IF n = 2 THEN One(One(m, q[1], wrong), r[1], wrong)
          ELSE One(One(One(m, q[1], wrong), r[1], wrong), r[2], wrong)
  BY <1>4 DEF Effect
<1>7. n = 2 => r[1] = q[2]
  BY <1>2
<1>8. n = 3 => r[1] = q[2] /\ r[2] = q[3]
  BY <1>2, <1>3
<1> HIDE DEF n
<1>9. QED BY <1>1, <1>4, <1>5, <1>6, <1>7, <1>8 DEF r

\* No command changes a size.
LEMMA OneIsMemory ==
  ASSUME NEW m, NEW sz, IsMemory(m, sz), NEW x, NEW wrong
  PROVE  IsMemory(One(m, x, wrong), sz)
<1> DEFINE t == Performed(x, wrong)
<1>1. DOMAIN Copied(m, t) = DOMAIN m[t.dst]
  BY CopiedElsewhere
<1> HIDE DEF t
<1>2. ASSUME x.cmd = "transfer"
      PROVE  \A buf \in Names : DOMAIN One(m, x, wrong)[buf] = DOMAIN m[buf] /\ DOMAIN One(m, x, wrong) = Names
  <2>1. One(m, x, wrong) = [m EXCEPT ![t.dst] = Copied(m, t)]
    BY <1>2 DEF One, t
  <2>2. QED BY <1>1, <2>1 DEF IsMemory
<1>3. QED BY <1>2 DEF IsMemory, One, Names

\* Nor does what the CPU writes.
LEMMA WrittenIsMemory ==
  ASSUME NEW m, NEW sz, IsMemory(m, sz), NEW w
  PROVE  IsMemory(Written(m, w), sz)
BY WrittenElsewhere DEF IsMemory, Names
-----------------------------------------------------------------------------
(* What a GPU that works makes of what a test has written *)

Satisfied(m, conditions) == \A c \in conditions : Holds(m, c)

\* Whatever was there, once w is written and q is executed the conditions hold.
Passes(w, q, conditions, sz) ==
    \A m : IsMemory(m, sz) => Satisfied(Effect(Written(m, w), q, "none"), conditions)

\* What 16 bytes scale to.
LEMMA Units == u \in {1, 2, 4, 8, 16} /\ kByteSize = 16 * u /\ kByteSize \in Nat /\ kCanarySize \in Nat /\ kCanarySize >= 1
BY SizeAssumption DEF u

\* The two kinds of conditions.
LEMMA Conditions ==
  ASSUME NEW m
  PROVE  /\ \A buf, at, bytes :
               LET c == [buf |-> buf, at |-> at, bytes |-> bytes] IN
               Holds(m, c) <=> \A i \in DOMAIN bytes : m[buf][at + i] = bytes[i]
         /\ \A t, y :
               LET c == [line |-> t, y |-> y] IN
               Holds(m, c) <=> \A x \in 0 .. t.len - 1 : m[t.dst][Into(t, x, y)] = m[t.src][From(t, x, y)]
<1>1. ASSUME NEW buf, NEW at, NEW bytes
      PROVE  LET c == [buf |-> buf, at |-> at, bytes |-> bytes] IN
             Holds(m, c) <=> \A i \in DOMAIN bytes : m[buf][at + i] = bytes[i]
  <2> DEFINE c == [buf |-> buf, at |-> at, bytes |-> bytes]
  <2>1. "line" \notin DOMAIN c /\ c.buf = buf /\ c.at = at /\ c.bytes = bytes
    OBVIOUS
  <2> HIDE DEF c
  <2>2. Holds(m, c) <=> \A i \in DOMAIN bytes : m[buf][at + i] = bytes[i]
    BY <2>1 DEF Holds
  <2>3. QED BY <2>2 DEF c
<1>2. ASSUME NEW t, NEW y
      PROVE  LET c == [line |-> t, y |-> y] IN
             Holds(m, c) <=> \A x \in 0 .. t.len - 1 : m[t.dst][Into(t, x, y)] = m[t.src][From(t, x, y)]
  <2> DEFINE c == [line |-> t, y |-> y]
  <2>1. "line" \in DOMAIN c /\ c.line = t /\ c.y = y
    OBVIOUS
  <2> HIDE DEF c
  <2>2. Holds(m, c) <=> \A x \in 0 .. t.len - 1 : m[t.dst][Into(t, x, y)] = m[t.src][From(t, x, y)]
    BY <2>1 DEF Holds
  <2>3. QED BY <2>2 DEF c
<1>3. QED BY <1>1, <1>2

\* Bytes all of one value,
LEMMA Sets ==
  ASSUME NEW buf, NEW at, NEW size, NEW value
  PROVE  LET w == Set(buf, at, size, value) IN
         /\ w.buf = buf /\ w.at = at /\ DOMAIN w.bytes = 0 .. size - 1
         /\ \A i \in 0 .. size - 1 : w.bytes[i] = value % kByteSize
         /\ \A m : Holds(m, w) <=> \A i \in 0 .. size - 1 : m[buf][at + i] = value % kByteSize
<1> DEFINE bytes == [i \in 0 .. size - 1 |-> value % kByteSize]
           w == [buf |-> buf, at |-> at, bytes |-> bytes]
<1>1. DOMAIN bytes = 0 .. size - 1 /\ \A i \in 0 .. size - 1 : bytes[i] = value % kByteSize
  OBVIOUS
<1>2. Set(buf, at, size, value) = w
  BY DEF Set
<1> HIDE DEF bytes
<1>3. \A m : Holds(m, w) <=> \A i \in DOMAIN bytes : m[buf][at + i] = bytes[i]
  BY Conditions
<1>4. w.buf = buf /\ w.at = at /\ w.bytes = bytes
  OBVIOUS
<1> HIDE DEF w
<1>5. QED BY <1>1, <1>2, <1>3, <1>4

\* and those of a pattern.
LEMMA Fills ==
  ASSUME NEW buf, NEW at, NEW size, NEW seed
  PROVE  LET w == Fill(buf, at, size, seed) IN
         /\ w.buf = buf /\ w.at = at /\ DOMAIN w.bytes = 0 .. size - 1
         /\ \A i \in 0 .. size - 1 : w.bytes[i] = Patterns[seed % kByteSize][i]
         /\ \A m : Holds(m, w) <=> \A i \in 0 .. size - 1 : m[buf][at + i] = Patterns[seed % kByteSize][i]
<1> DEFINE bytes == M2MFFillPattern(size, seed)
           w == [buf |-> buf, at |-> at, bytes |-> bytes]
<1>1. DOMAIN bytes = 0 .. size - 1 /\ \A i \in 0 .. size - 1 : bytes[i] = Patterns[seed % kByteSize][i]
  BY DEF M2MFFillPattern
<1>2. Fill(buf, at, size, seed) = w
  BY DEF Fill
<1> HIDE DEF bytes
<1>3. \A m : Holds(m, w) <=> \A i \in DOMAIN bytes : m[buf][at + i] = bytes[i]
  BY Conditions
<1>4. w.buf = buf /\ w.at = at /\ w.bytes = bytes
  OBVIOUS
<1> HIDE DEF w
<1>5. QED BY <1>1, <1>2, <1>3, <1>4

\* A transfer: its bytes arrive, and nothing else changes.
LEMMA PerfectCopy ==
  ASSUME NEW m, NEW sz, IsMemory(m, sz), NEW t, t.cmd = "transfer", Tidy(t),
         t.dst \in Names, t.src \in Names, t.src # t.dst
  PROVE  LET n == One(m, t, "none") IN
         /\ Effect(m, <<t>>, "none") = n
         /\ DOMAIN n = Names /\ \A buf \in Names : DOMAIN n[buf] = DOMAIN m[buf]
         /\ \A x \in 0 .. t.len - 1, y \in 0 .. t.lines - 1 :
               Into(t, x, y) \in DOMAIN m[t.dst] /\ From(t, x, y) \in DOMAIN m[t.src]
                   => n[t.dst][Into(t, x, y)] = m[t.src][From(t, x, y)]
         /\ \A i \in DOMAIN m[t.dst] :
               (\A x \in 0 .. t.len - 1, y \in 0 .. t.lines - 1 : Into(t, x, y) # i) => n[t.dst][i] = m[t.dst][i]
         /\ \A buf \in Names \ {t.dst} : n[buf] = m[buf]
<1>1. Performed(t, "none") = t
  BY DEF Performed
<1>2. One(m, t, "none") = [m EXCEPT ![t.dst] = Copied(m, t)] /\ DOMAIN m = Names
  BY <1>1 DEF One, IsMemory
<1>3. Effect(m, <<t>>, "none") = One(m, t, "none")
  <2>1. Len(<<t>>) = 1 /\ <<t>>[1] = t
    OBVIOUS
  <2>2. QED BY <2>1 DEF Effect
<1> DEFINE n == One(m, t, "none")
<1>4. n[t.dst] = Copied(m, t) /\ DOMAIN n = Names /\ \A buf \in Names \ {t.dst} : n[buf] = m[buf]
  BY <1>2
<1> HIDE DEF n
<1>5. QED BY <1>3, <1>4, CopiedBytes, CopiedElsewhere DEF n

\* Bytes of one value between the guards.
Surrounded(n, k, at, size, filler) ==
    /\ IsMemory(n, Two(k)) /\ DOMAIN n["dst"] = 0 .. k - 1 /\ DOMAIN n["src"] = 0 .. k - 1
    /\ \A i \in 0 .. at - 1 : n["dst"][i] = 85 % kByteSize
    /\ \A i \in at .. at + size - 1 : n["dst"][i] = filler % kByteSize
    /\ \A i \in at + size .. at + size + kCanarySize - 1 : n["dst"][i] = 170 % kByteSize

\* The bytes of a write to the source are there.
Sourced(n, k, x) == \A i \in 0 .. k - 1 : Covers(x, "src", i) => n["src"][i] = x.bytes[i - x.at]

\* What is written around a destination, and into a source.
LEMMA AroundWritten ==
  ASSUME NEW m, NEW size_, size_ \in Nat, IsMemory(m, Two(size_)), NEW at \in Nat, NEW size \in Nat, NEW filler,
         at + size + kCanarySize <= size_,
         NEW S, NEW s \in Seq(S), \A k \in 1 .. Len(s) : s[k].buf = "src"
  PROVE  LET n == Written(m, Around(at, size, filler) \o s) IN
         /\ Surrounded(n, size_, at, size, filler)
         /\ Len(s) > 0 => Sourced(n, size_, s[Len(s)])
         /\ \A i \in 0 .. size_ - 1 :
               Len(s) = 2 /\ ~Covers(s[2], "src", i) /\ Covers(s[1], "src", i) => n["src"][i] = s[1].bytes[i - s[1].at]
<1> DEFINE A == Around(at, size, filler)  w == A \o s  n == Written(m, w)
           a1 == Set("dst", at, size, filler)  a2 == Before(at)  a3 == Behind(at + size)
<1>1. /\ DOMAIN m = Names /\ DOMAIN m["dst"] = 0 .. size_ - 1 /\ DOMAIN m["src"] = 0 .. size_ - 1
      /\ "dst" \in Names /\ "src" \in Names /\ kCanarySize \in Nat
  BY Units DEF IsMemory, Two, Names
<1>2. /\ a1.buf = "dst" /\ a1.at = at /\ DOMAIN a1.bytes = 0 .. size - 1
      /\ \A i \in 0 .. size - 1 : a1.bytes[i] = filler % kByteSize
      /\ a2.buf = "dst" /\ a2.at = 0 /\ DOMAIN a2.bytes = 0 .. at - 1
      /\ \A i \in 0 .. at - 1 : a2.bytes[i] = 85 % kByteSize
      /\ a3.buf = "dst" /\ a3.at = at + size /\ DOMAIN a3.bytes = 0 .. kCanarySize - 1
      /\ \A i \in 0 .. kCanarySize - 1 : a3.bytes[i] = 170 % kByteSize
  BY Sets DEF Before, Behind
<1>3. A = <<a1, a2, a3>>
  BY DEF Around
<1> HIDE DEF a1, a2, a3
<1>4. A \in Seq({a1, a2, a3}) /\ Len(A) = 3 /\ A[1] = a1 /\ A[2] = a2 /\ A[3] = a3
  BY <1>3
<1> HIDE DEF A
<1>5. /\ Len(w) \in Nat /\ DOMAIN w = 1 .. Len(w) /\ Len(s) \in Nat /\ Len(w) = 3 + Len(s)
      /\ w[1] = a1 /\ w[2] = a2 /\ w[3] = a3
      /\ \A k \in 4 .. 3 + Len(s) : w[k] = s[k - 3]
  <2> DEFINE X == {a1, a2, a3}
  <2> HIDE DEF X
  <2>1. /\ w \in Seq(X \cup S) /\ Len(s) \in Nat /\ Len(w) = 3 + Len(s)
        /\ \A k \in 1 .. 3 : w[k] = A[k]
        /\ \A k \in 3 + 1 .. 3 + Len(s) : w[k] = s[k - 3]
    <3>1. A \in Seq(X)
      BY <1>4 DEF X
    <3>2. /\ w \in Seq(X \cup S) /\ Len(s) \in Nat /\ Len(w) = Len(A) + Len(s)
          /\ \A k \in 1 .. Len(A) : w[k] = A[k]
          /\ \A k \in Len(A) + 1 .. Len(A) + Len(s) : w[k] = s[k - Len(A)]
      BY <3>1, Concatenated
    <3>3. QED BY <1>4, <3>2
  <2>2. Len(w) \in Nat /\ DOMAIN w = 1 .. Len(w)
    BY <2>1
  <2>3. QED BY <1>4, <2>1, <2>2
<1> HIDE DEF w
<1>6. IsMemory(n, Two(size_)) /\ DOMAIN n["dst"] = 0 .. size_ - 1 /\ DOMAIN n["src"] = 0 .. size_ - 1
  BY <1>1, WrittenIsMemory, WrittenElsewhere
<1>14. ASSUME NEW k \in 1 .. Len(w), NEW buf \in {"dst", "src"}, NEW i \in 0 .. size_ - 1, Covers(w[k], buf, i),
              \A j \in k + 1 .. Len(w) : ~Covers(w[j], buf, i)
       PROVE  n[buf][i] = w[k].bytes[i - w[k].at]
  <2>1. buf \in DOMAIN m /\ i \in DOMAIN m[buf]
    BY <1>1
  <2>2. Len(w) \in Nat /\ DOMAIN w = 1 .. Len(w)
    BY <1>5
  <2>3. QED BY <1>14, <2>1, <2>2, WrittenLast
<1> HIDE DEF n
<1>7. \A i : \A k \in 4 .. Len(w) : ~Covers(w[k], "dst", i)
  <2>1. \A k \in 4 .. Len(w) : k - 3 \in 1 .. Len(s)
    BY <1>5
  <2>2. QED BY <1>5, <2>1 DEF Covers
<1>15. ASSUME NEW i \in Int
       PROVE  /\ Covers(w[1], "dst", i) <=> i \in at .. at + size - 1
              /\ Covers(w[2], "dst", i) <=> i \in 0 .. at - 1
              /\ Covers(w[3], "dst", i) <=> i \in at + size .. at + size + kCanarySize - 1
  <2>1. Covers(a1, "dst", i) <=> i - at \in 0 .. size - 1
    BY <1>2 DEF Covers
  <2>2. Covers(a2, "dst", i) <=> i - 0 \in 0 .. at - 1
    BY <1>2 DEF Covers
  <2>3. Covers(a3, "dst", i) <=> i - (at + size) \in 0 .. kCanarySize - 1
    BY <1>2 DEF Covers
  <2>4. /\ i - at \in 0 .. size - 1 <=> i \in at .. at + size - 1
        /\ i - 0 \in 0 .. at - 1 <=> i \in 0 .. at - 1
        /\ i - (at + size) \in 0 .. kCanarySize - 1 <=> i \in at + size .. at + size + kCanarySize - 1
    BY <1>1
  <2>5. w[1] = a1 /\ w[2] = a2 /\ w[3] = a3
    BY <1>5
  <2>6. QED BY <2>1, <2>2, <2>3, <2>4, <2>5
<1>8. ASSUME NEW i \in 0 .. at - 1 PROVE n["dst"][i] = 85 % kByteSize
  <2>1. Covers(w[2], "dst", i) /\ ~Covers(w[3], "dst", i)
    <3>1. i \in Int /\ i \notin at + size .. at + size + kCanarySize - 1
      BY <1>1
    <3>2. QED BY <1>15, <3>1
  <2>2. \A j \in 2 + 1 .. Len(w) : ~Covers(w[j], "dst", i)
    <3>1. \A j \in 2 + 1 .. Len(w) : j = 3 \/ j \in 4 .. Len(w)
      BY <1>5
    <3>2. QED BY <1>7, <2>1, <3>1
  <2>3. 2 \in 1 .. Len(w) /\ i \in DOMAIN m["dst"] /\ i - 0 = i /\ i \in 0 .. size_ - 1
    BY <1>1, <1>5
  <2>4. n["dst"][i] = a2.bytes[i]
    <3>1. n["dst"][i] = w[2].bytes[i - w[2].at]
      BY <1>14, <2>1, <2>2, <2>3
    <3>2. w[2] = a2 /\ a2.at = 0
      BY <1>2, <1>5
    <3>3. QED BY <2>3, <3>1, <3>2
  <2>5. QED BY <1>2, <2>4
<1>9. ASSUME NEW i \in at .. at + size - 1 PROVE n["dst"][i] = filler % kByteSize
  <2>1. Covers(w[1], "dst", i) /\ ~Covers(w[2], "dst", i) /\ ~Covers(w[3], "dst", i)
    <3>1. i \in Int /\ i \notin 0 .. at - 1 /\ i \notin at + size .. at + size + kCanarySize - 1
      BY <1>1
    <3>2. QED BY <1>15, <3>1
  <2>2. \A j \in 1 + 1 .. Len(w) : ~Covers(w[j], "dst", i)
    <3>1. \A j \in 1 + 1 .. Len(w) : j = 2 \/ j = 3 \/ j \in 4 .. Len(w)
      BY <1>5
    <3>2. QED BY <1>7, <2>1, <3>1
  <2>3. 1 \in 1 .. Len(w) /\ i \in 0 .. size_ - 1 /\ i - at \in 0 .. size - 1
    BY <1>1, <1>5
  <2>4. n["dst"][i] = a1.bytes[i - at]
    <3>1. n["dst"][i] = w[1].bytes[i - w[1].at]
      BY <1>14, <2>1, <2>2, <2>3
    <3>2. w[1] = a1 /\ a1.at = at
      BY <1>2, <1>5
    <3>3. QED BY <3>1, <3>2
  <2>5. QED BY <1>2, <2>3, <2>4
<1>10. ASSUME NEW i \in at + size .. at + size + kCanarySize - 1 PROVE n["dst"][i] = 170 % kByteSize
  <2>1. Covers(w[3], "dst", i)
    <3>1. i \in Int
      BY <1>1
    <3>2. QED BY <1>15, <3>1
  <2>2. 3 \in 1 .. Len(w) /\ i \in 0 .. size_ - 1 /\ i - (at + size) \in 0 .. kCanarySize - 1
    BY <1>1, <1>5
  <2>3. n["dst"][i] = a3.bytes[i - (at + size)]
    <3>1. \A j \in 3 + 1 .. Len(w) : ~Covers(w[j], "dst", i)
      <4>1. 3 + 1 = 4
        OBVIOUS
      <4>2. QED BY <1>7, <4>1
    <3>2. n["dst"][i] = w[3].bytes[i - w[3].at]
      BY <2>1, <2>2, <3>1, <1>14
    <3>3. QED BY <1>2, <1>5, <3>2
  <2>4. QED BY <1>2, <2>2, <2>3
<1>11. ASSUME NEW i \in 0 .. size_ - 1, Len(s) > 0, Covers(s[Len(s)], "src", i)
       PROVE  n["src"][i] = s[Len(s)].bytes[i - s[Len(s)].at]
  <2> DEFINE l == Len(w)
  <2>1. l \in 1 .. Len(w) /\ w[l] = s[Len(s)] /\ \A j \in l + 1 .. Len(w) : FALSE
    BY <1>5, <1>11
  <2> HIDE DEF l
  <2>2. Covers(w[l], "src", i)
    BY <1>11, <2>1
  <2>3. n["src"][i] = w[l].bytes[i - w[l].at]
    BY <2>1, <2>2, <1>14
  <2>4. QED BY <2>1, <2>3
<1>12. ASSUME NEW i \in 0 .. size_ - 1, Len(s) = 2, ~Covers(s[2], "src", i), Covers(s[1], "src", i)
       PROVE  n["src"][i] = s[1].bytes[i - s[1].at]
  <2>1. 4 \in 1 .. Len(w) /\ w[4] = s[1] /\ w[5] = s[2] /\ 4 + 1 .. Len(w) = {5}
    BY <1>5, <1>12
  <2>2. Covers(w[4], "src", i) /\ \A j \in 4 + 1 .. Len(w) : ~Covers(w[j], "src", i)
    BY <1>12, <2>1
  <2>3. n["src"][i] = w[4].bytes[i - w[4].at]
    BY <1>14, <2>1, <2>2
  <2>4. QED BY <2>1, <2>3
<1>13. QED BY <1>1, <1>6, <1>8, <1>9, <1>10, <1>11, <1>12 DEF n, w, A, Surrounded, Sourced
\* What is written around the destination, and one write to the source.
LEMMA AroundWrittenOne ==
  ASSUME NEW m, NEW size_, size_ \in Nat, IsMemory(m, Two(size_)), NEW at \in Nat, NEW size \in Nat, NEW filler,
         at + size + kCanarySize <= size_, NEW x, x.buf = "src"
  PROVE  LET n == Written(m, Around(at, size, filler) \o <<x>>) IN
         Surrounded(n, size_, at, size, filler) /\ Sourced(n, size_, x)
<1> DEFINE s == <<x>>
           X == {x}
<1>1. s \in Seq(X) /\ Len(s) = 1 /\ s[1] = x /\ \A k \in 1 .. Len(s) : s[k].buf = "src"
  OBVIOUS
<1> HIDE DEF s, X
<1>2. s[Len(s)] = x /\ Len(s) > 0
  BY <1>1
<1> DEFINE n == Written(m, Around(at, size, filler) \o s)
<1>3. Surrounded(n, size_, at, size, filler) /\ (Len(s) > 0 => Sourced(n, size_, s[Len(s)]))
  BY <1>1, AroundWritten
<1> HIDE DEF n
<1>4. QED BY <1>2, <1>3 DEF n, s

\* The guards hold if the bytes they compare are as they were written.
LEMMA GuardsHold ==
  ASSUME NEW m, NEW at \in Nat, NEW size \in Nat,
         \A i \in 0 .. at - 1 : m["dst"][i] = 85 % kByteSize,
         \A i \in at + size .. at + size + kCanarySize - 1 : m["dst"][i] = 170 % kByteSize
  PROVE  Satisfied(m, Guards(at, size))
<1>1. Holds(m, Before(at)) <=> \A i \in 0 .. at - 1 : m["dst"][0 + i] = 85 % kByteSize
  <2>1. \A z : Holds(m, Set("dst", z, at, 85)) <=> \A i \in 0 .. at - 1 : m["dst"][z + i] = 85 % kByteSize
    BY Sets
  <2>2. QED BY <2>1 DEF Before
<1>2. Holds(m, Before(at))
  <2>1. \A i \in 0 .. at - 1 : 0 + i = i
    OBVIOUS
  <2>2. QED BY <1>1, <2>1
<1>3. Holds(m, Behind(at + size)) <=> \A i \in 0 .. kCanarySize - 1 : m["dst"][(at + size) + i] = 170 % kByteSize
  <2> DEFINE w == Set("dst", at + size, kCanarySize, 170)
  <2>1. Holds(m, w) <=> \A i \in 0 .. kCanarySize - 1 : m["dst"][(at + size) + i] = 170 % kByteSize
    BY Sets
  <2>2. QED BY <2>1 DEF Behind
<1>4. Holds(m, Behind(at + size))
  <2>1. \A i \in 0 .. kCanarySize - 1 : (at + size) + i \in at + size .. at + size + kCanarySize - 1
    BY Units
  <2>2. QED BY <1>3, <2>1
<1>5. QED BY <1>2, <1>4 DEF Satisfied, Guards

\* A transfer from one stretch of bytes to another of the same size, byte by byte.
Transcribes(t, size) ==
    /\ t.cmd = "transfer" /\ t.dst = "dst" /\ t.src = "src" /\ Tidy(t)
    /\ \A x \in 0 .. t.len - 1, y \in 0 .. t.lines - 1 : Into(t, x, y) \in t.do .. t.do + size - 1
    /\ \A i \in 0 .. size - 1 : \E x \in 0 .. t.len - 1, y \in 0 .. t.lines - 1 :
          Into(t, x, y) = t.do + i /\ From(t, x, y) = t.so + i

\* Then the pattern is where it is looked for, and the guards are whole.
LEMMA Transcribed ==
  ASSUME NEW size_, size_ \in Nat, NEW t, NEW size \in Nat, Transcribes(t, size), NEW filler, NEW x, x.buf = "src",
         x.at = t.so, DOMAIN x.bytes = 0 .. size - 1, t.do + size + kCanarySize <= size_, t.so + size <= size_,
         NEW m, IsMemory(m, Two(size_))
  PROVE  LET n == Effect(Written(m, Around(t.do, size, filler) \o <<x>>), <<t>>, "none") IN
         /\ \A i \in 0 .. size - 1 : n["dst"][t.do + i] = x.bytes[i] /\ n["src"][t.so + i] = x.bytes[i]
         /\ Satisfied(n, Guards(t.do, size))
<1> DEFINE w == Written(m, Around(t.do, size, filler) \o <<x>>)
           n == One(w, t, "none")
<1>1. t.do \in Nat /\ t.so \in Nat /\ t.dst \in Names /\ t.src \in Names /\ t.src # t.dst /\ t.cmd = "transfer" /\ Tidy(t)
  BY DEF Transcribes, Tidy, Names
<1>2. /\ IsMemory(w, Two(size_)) /\ DOMAIN w["dst"] = 0 .. size_ - 1 /\ DOMAIN w["src"] = 0 .. size_ - 1
      /\ \A i \in 0 .. t.do - 1 : w["dst"][i] = 85 % kByteSize
      /\ \A i \in t.do + size .. t.do + size + kCanarySize - 1 : w["dst"][i] = 170 % kByteSize
      /\ \A i \in 0 .. size_ - 1 : Covers(x, "src", i) => w["src"][i] = x.bytes[i - x.at]
  <2> DEFINE at == t.do
  <2>1. at \in Nat /\ at + size + kCanarySize <= size_
    BY <1>1
  <2>2. w = Written(m, Around(at, size, filler) \o <<x>>)
    OBVIOUS
  <2> HIDE DEF at, w
  <2>3. Surrounded(w, size_, at, size, filler) /\ Sourced(w, size_, x)
    BY <2>1, <2>2, AroundWrittenOne
  <2>4. QED BY <2>3 DEF at, Surrounded, Sourced
<1> HIDE DEF w
<1>3. /\ Effect(w, <<t>>, "none") = n
      /\ \A v \in 0 .. t.len - 1, y \in 0 .. t.lines - 1 :
            Into(t, v, y) \in DOMAIN w[t.dst] /\ From(t, v, y) \in DOMAIN w[t.src]
                => n[t.dst][Into(t, v, y)] = w[t.src][From(t, v, y)]
      /\ \A i \in DOMAIN w[t.dst] :
            (\A v \in 0 .. t.len - 1, y \in 0 .. t.lines - 1 : Into(t, v, y) # i) => n[t.dst][i] = w[t.dst][i]
      /\ \A buf \in Names \ {t.dst} : n[buf] = w[buf]
  <2> DEFINE sz == Two(size_)
  <2>1. IsMemory(w, sz)
    BY <1>2
  <2> HIDE DEF sz
  <2>2. QED BY <1>1, <2>1, PerfectCopy
<1> HIDE DEF n
<1>4. t.dst = "dst" /\ t.src = "src" /\ n["src"] = w["src"]
  BY <1>3 DEF Transcribes, Names
<1>5. ASSUME NEW i \in 0 .. size - 1
      PROVE  n["dst"][t.do + i] = x.bytes[i] /\ n["src"][t.so + i] = x.bytes[i]
  <2>1. /\ t.do + i \in 0 .. size_ - 1 /\ t.so + i \in 0 .. size_ - 1 /\ (t.so + i) - t.so = i
    <3> DEFINE d == t.do  e == t.so
    <3>1. d \in Nat /\ e \in Nat /\ d + size + kCanarySize <= size_ /\ e + size <= size_
      BY <1>1
    <3> HIDE DEF d, e
    <3>2. d + i \in 0 .. size_ - 1 /\ e + i \in 0 .. size_ - 1 /\ (e + i) - e = i
      BY <3>1, Units
    <3>3. QED BY <3>2 DEF d, e
  <2>2. w["src"][t.so + i] = x.bytes[i]
    BY <1>2, <2>1 DEF Covers
  <2>3. PICK v \in 0 .. t.len - 1, y \in 0 .. t.lines - 1 : Into(t, v, y) = t.do + i /\ From(t, v, y) = t.so + i
    BY DEF Transcribes
  <2>4. n["dst"][t.do + i] = w["src"][t.so + i]
    <3>1. t.do + i \in DOMAIN w[t.dst] /\ t.so + i \in DOMAIN w[t.src]
      BY <1>2, <1>4, <2>1
    <3>2. n[t.dst][Into(t, v, y)] = w[t.src][From(t, v, y)]
      BY <1>3, <2>3, <3>1
    <3>3. QED BY <1>4, <2>3, <3>2
  <2>5. QED BY <1>4, <2>2, <2>4
<1>6. ASSUME NEW i \in (0 .. t.do - 1) \cup (t.do + size .. t.do + size + kCanarySize - 1)
      PROVE  n["dst"][i] = w["dst"][i]
  <2>1. i \in 0 .. size_ - 1 /\ i \notin t.do .. t.do + size - 1
    BY <1>1, Units
  <2>2. \A v \in 0 .. t.len - 1, y \in 0 .. t.lines - 1 : Into(t, v, y) # i
    BY <2>1 DEF Transcribes
  <2>3. QED BY <1>2, <1>3, <1>4, <2>1, <2>2
<1>7. Satisfied(n, Guards(t.do, size))
  <2>1. \A i \in 0 .. t.do - 1 : n["dst"][i] = 85 % kByteSize
    BY <1>2, <1>6
  <2>2. \A i \in t.do + size .. t.do + size + kCanarySize - 1 : n["dst"][i] = 170 % kByteSize
    BY <1>2, <1>6
  <2>3. QED BY <1>1, <2>1, <2>2, GuardsHold
<1>8. QED BY <1>3, <1>5, <1>7 DEF w

\* So the tests that compare with a pattern pass,
LEMMA WholePasses ==
  ASSUME NEW size_, size_ \in Nat, NEW t, NEW size \in Nat, Transcribes(t, size), NEW filler, NEW seed,
         t.do + size + kCanarySize <= size_, t.so + size <= size_
  PROVE  Passes(Around(t.do, size, filler) \o <<Fill("src", t.so, size, seed)>>, <<t>>,
                {Fill("dst", t.do, size, seed)} \cup Guards(t.do, size), Two(size_))
<1> DEFINE x == Fill("src", t.so, size, seed)  c == Fill("dst", t.do, size, seed)
           w == Around(t.do, size, filler) \o <<x>>
<1>1. /\ x.buf = "src" /\ x.at = t.so /\ DOMAIN x.bytes = 0 .. size - 1
      /\ \A i \in 0 .. size - 1 : x.bytes[i] = Patterns[seed % kByteSize][i]
      /\ \A n : Holds(n, c) <=> \A i \in 0 .. size - 1 : n["dst"][t.do + i] = Patterns[seed % kByteSize][i]
  BY Fills
<1> HIDE DEF x, c
<1>2. ASSUME NEW m, IsMemory(m, Two(size_))
      PROVE  Satisfied(Effect(Written(m, w), <<t>>, "none"), {c} \cup Guards(t.do, size))
  <2> DEFINE n == Effect(Written(m, w), <<t>>, "none")
  <2>1. /\ \A i \in 0 .. size - 1 : n["dst"][t.do + i] = x.bytes[i]
        /\ Satisfied(n, Guards(t.do, size))
    BY <1>1, <1>2, Transcribed
  <2> HIDE DEF n
  <2>2. Holds(n, c)
    BY <1>1, <2>1
  <2>3. QED BY <2>1, <2>2 DEF Satisfied, n
<1> HIDE DEF w
<1>3. Passes(w, <<t>>, {c} \cup Guards(t.do, size), Two(size_))
  BY <1>2 DEF Passes
<1>4. QED BY <1>3 DEF w, x, c

\* The fields of a transfer.
LEMMA Fields ==
  ASSUME NEW dst, NEW do, NEW src, NEW so, NEW len, NEW lines, NEW pitch_in, NEW pitch_out,
         NEW stride_in, NEW stride_out
  PROVE  LET t == Strided(dst, do, src, so, len, lines, pitch_in, pitch_out, stride_in, stride_out) IN
         /\ t.cmd = "transfer" /\ t.dst = dst /\ t.do = do /\ t.src = src /\ t.so = so /\ t.len = len
         /\ t.lines = lines /\ t.pitch_in = pitch_in /\ t.pitch_out = pitch_out
         /\ t.stride_in = stride_in /\ t.stride_out = stride_out
BY DEF Strided

\* One line,
LEMMA LinearTranscribes ==
  ASSUME NEW do \in Nat, NEW so \in Nat, NEW size \in Nat
  PROVE  LET t == Linear("dst", do, "src", so, size) IN
         Transcribes(t, size) /\ t.do = do /\ t.so = so
<1> DEFINE t == Linear("dst", do, "src", so, size)
<1>1. /\ t.cmd = "transfer" /\ t.dst = "dst" /\ t.do = do /\ t.src = "src" /\ t.so = so /\ t.len = size
      /\ t.lines = 1 /\ t.pitch_in = size /\ t.pitch_out = size /\ t.stride_in = 1 /\ t.stride_out = 1
  BY Fields DEF Linear, PitchedCopy
<1> HIDE DEF t
<1>2. Tidy(t)
  BY <1>1 DEF Tidy
<1>3. \A x \in 0 .. size - 1, y \in 0 .. 0 : Into(t, x, y) = do + x /\ From(t, x, y) = so + x
  <2>1. \A x \in 0 .. size - 1 : Into(t, x, 0) = do + x /\ From(t, x, 0) = so + x
    BY <1>1 DEF Into, From
  <2>2. \A y \in 0 .. 0 : y = 0
    OBVIOUS
  <2>3. QED BY <2>1, <2>2
<1>4. 0 .. t.lines - 1 = 0 .. 0 /\ 0 .. t.len - 1 = 0 .. size - 1 /\ 0 \in 0 .. 0
  BY <1>1
<1>5. \A x \in 0 .. t.len - 1, y \in 0 .. t.lines - 1 : Into(t, x, y) \in t.do .. t.do + size - 1
  BY <1>1, <1>3, <1>4
<1>6. \A i \in 0 .. size - 1 : \E x \in 0 .. t.len - 1, y \in 0 .. t.lines - 1 :
         Into(t, x, y) = t.do + i /\ From(t, x, y) = t.so + i
  BY <1>1, <1>3, <1>4
<1>7. QED BY <1>1, <1>2, <1>5, <1>6 DEF Transcribes, t
\* A transfer within a destination of this size, from a source of k bytes.
Within(t, size, k) ==
    /\ t.cmd = "transfer" /\ t.dst = "dst" /\ t.src = "src" /\ Tidy(t)
    /\ \A x \in 0 .. t.len - 1, y \in 0 .. t.lines - 1 :
          Into(t, x, y) \in t.do .. t.do + size - 1 /\ From(t, x, y) \in 0 .. k - 1

\* No byte of the transfer goes there.
Untouched(t, i) == \A x \in 0 .. t.len - 1, y \in 0 .. t.lines - 1 : Into(t, x, y) # i

\* Its lines have arrived, what is between them has stayed, and the guards are
\* whole.
Arrived(n, t, size, filler) ==
    /\ Satisfied(n, Lines(t)) /\ Satisfied(n, Guards(t.do, size))
    /\ \A i \in t.do .. t.do + size - 1 : Untouched(t, i) => n["dst"][i] = filler % kByteSize

\* So it is on a GPU that works.
LEMMA LinesArrive ==
  ASSUME NEW k, k \in Nat, NEW t, NEW size \in Nat, Within(t, size, k), NEW filler, NEW w,
         Surrounded(w, k, t.do, size, filler), t.do + size + kCanarySize <= k
  PROVE  Arrived(Effect(w, <<t>>, "none"), t, size, filler)
<1> DEFINE n == One(w, t, "none")
<1>1. t.do \in Nat /\ t.dst \in Names /\ t.src \in Names /\ t.src # t.dst /\ t.cmd = "transfer" /\ Tidy(t)
  BY DEF Within, Tidy, Names
<1>2. IsMemory(w, Two(k)) /\ DOMAIN w["dst"] = 0 .. k - 1 /\ DOMAIN w["src"] = 0 .. k - 1
  BY DEF Surrounded
<1>3. /\ Effect(w, <<t>>, "none") = n
      /\ \A v \in 0 .. t.len - 1, y \in 0 .. t.lines - 1 :
            Into(t, v, y) \in DOMAIN w[t.dst] /\ From(t, v, y) \in DOMAIN w[t.src]
                => n[t.dst][Into(t, v, y)] = w[t.src][From(t, v, y)]
      /\ \A i \in DOMAIN w[t.dst] : Untouched(t, i) => n[t.dst][i] = w[t.dst][i]
      /\ \A buf \in Names \ {t.dst} : n[buf] = w[buf]
  BY <1>1, <1>2, PerfectCopy DEF Untouched
<1> HIDE DEF n
<1>4. t.dst = "dst" /\ t.src = "src" /\ n["src"] = w["src"]
  BY <1>3 DEF Within, Names
<1>5. \A i \in t.do .. t.do + size - 1 : i \in 0 .. k - 1
  BY <1>1, Units
<1>6. ASSUME NEW y \in 0 .. t.lines - 1 PROVE Holds(n, [line |-> t, y |-> y])
  <2>1. ASSUME NEW x \in 0 .. t.len - 1 PROVE n[t.dst][Into(t, x, y)] = n[t.src][From(t, x, y)]
    <3>1. Into(t, x, y) \in 0 .. k - 1 /\ From(t, x, y) \in 0 .. k - 1
      BY <1>5 DEF Within
    <3>2. QED BY <1>2, <1>3, <1>4, <3>1
  <2>2. QED BY <2>1, Conditions
<1>7. Satisfied(n, Lines(t))
  BY <1>6 DEF Satisfied, Lines
<1>8. \A i \in 0 .. k - 1 : Untouched(t, i) => n["dst"][i] = w["dst"][i]
  BY <1>2, <1>3, <1>4
<1>9. Satisfied(n, Guards(t.do, size))
  <2> DEFINE at == t.do
  <2>1. \A i \in (0 .. at - 1) \cup (at + size .. at + size + kCanarySize - 1) :
           i \in 0 .. k - 1 /\ i \notin at .. at + size - 1
    BY <1>1, Units
  <2>2. \A i \in (0 .. at - 1) \cup (at + size .. at + size + kCanarySize - 1) : Untouched(t, i)
    BY <2>1 DEF Within, Untouched
  <2>3. /\ \A i \in 0 .. at - 1 : w["dst"][i] = 85 % kByteSize
        /\ \A i \in at + size .. at + size + kCanarySize - 1 : w["dst"][i] = 170 % kByteSize
    BY DEF Surrounded
  <2>4. at \in Nat
    BY <1>1
  <2> HIDE DEF at
  <2>5. /\ \A i \in 0 .. at - 1 : n["dst"][i] = 85 % kByteSize
        /\ \A i \in at + size .. at + size + kCanarySize - 1 : n["dst"][i] = 170 % kByteSize
    BY <1>8, <2>1, <2>2, <2>3
  <2>6. Satisfied(n, Guards(at, size))
    BY <2>4, <2>5, GuardsHold
  <2>7. QED BY <2>6 DEF at
<1>10. ASSUME NEW i \in t.do .. t.do + size - 1, Untouched(t, i) PROVE n["dst"][i] = filler % kByteSize
  <2>1. w["dst"][i] = filler % kByteSize
    BY DEF Surrounded
  <2>2. QED BY <1>5, <1>8, <1>10, <2>1
<1>11. QED BY <1>3, <1>7, <1>9, <1>10 DEF Arrived

\* A place in one of several lines.
LEMMA InLines ==
  ASSUME NEW p \in Nat, NEW lines \in Nat, NEW y \in 0 .. lines - 1, NEW r \in 0 .. p - 1
  PROVE  y * p + r \in 0 .. p * lines - 1
<1>1. PICK d \in Nat : d >= 1 /\ lines = y + d
  <2>1. lines - y \in Nat /\ lines - y >= 1 /\ lines = y + (lines - y)
    OBVIOUS
  <2>2. QED BY <2>1
<1>2. p * lines = y * p + d * p /\ y * p \in Nat
  BY <1>1
<1>3. d * p >= p /\ d * p \in Nat
  BY <1>1, Multiples
<1>4. QED BY <1>2, <1>3

\* The tests that compare lines pass.
LEMMA RowsPass ==
  ASSUME NEW len \in Nat, NEW lines \in Nat, NEW pitch_in \in Nat, NEW pitch_out \in Nat, NEW seed,
         len <= pitch_in, len <= pitch_out, NEW k, k \in Nat,
         kCanarySize + pitch_out * lines + kCanarySize <= k, kCanarySize + pitch_in * lines <= k
  PROVE  LET t == RowsOf(len, lines, pitch_in, pitch_out) IN
         Passes(Around(t.do, t.pitch_out * t.lines, 238) \o <<Fill("src", t.so, t.pitch_in * t.lines, seed)>>, <<t>>,
                Lines(t) \cup Gaps(t, 238) \cup Guards(t.do, t.pitch_out * t.lines), Two(k))
<1> DEFINE t == RowsOf(len, lines, pitch_in, pitch_out)  size == pitch_out * lines  span == pitch_in * lines
           x == Fill("src", t.so, span, seed)  w == Around(t.do, size, 238) \o <<x>>
<1>1. /\ t.cmd = "transfer" /\ t.dst = "dst" /\ t.do = kCanarySize /\ t.src = "src" /\ t.so = kCanarySize
      /\ t.len = len /\ t.lines = lines /\ t.pitch_in = pitch_in /\ t.pitch_out = pitch_out
      /\ t.stride_in = 1 /\ t.stride_out = 1
  BY Fields DEF RowsOf, PitchedCopy
<1> HIDE DEF t
<1>2. size \in Nat /\ span \in Nat /\ kCanarySize \in Nat
  BY Units
<1>3. Tidy(t)
  BY <1>1, Units DEF Tidy
<1>4. ASSUME NEW v \in 0 .. len - 1, NEW y \in 0 .. lines - 1
      PROVE  /\ Into(t, v, y) = kCanarySize + (y * pitch_out + v) /\ From(t, v, y) = kCanarySize + (y * pitch_in + v)
             /\ y * pitch_out + v \in 0 .. size - 1 /\ y * pitch_in + v \in 0 .. span - 1
  <2>1. v \in 0 .. pitch_out - 1 /\ v \in 0 .. pitch_in - 1 /\ v \in Nat /\ y \in Nat
    OBVIOUS
  <2>2. y * pitch_out + v \in 0 .. size - 1 /\ y * pitch_in + v \in 0 .. span - 1
    BY <2>1, InLines
  <2>3. Into(t, v, y) = kCanarySize + (y * pitch_out + v) /\ From(t, v, y) = kCanarySize + (y * pitch_in + v)
    <3>1. y * pitch_out \in Nat /\ y * pitch_in \in Nat
      BY <2>1
    <3>2. Into(t, v, y) = kCanarySize + y * pitch_out + v * 1 /\ From(t, v, y) = kCanarySize + y * pitch_in + v * 1
      BY <1>1 DEF Into, From
    <3>3. QED BY <1>2, <2>1, <3>1, <3>2
  <2>4. QED BY <2>2, <2>3
<1> HIDE DEF size, span
<1>5. Within(t, size, k)
  <2>1. /\ \A i \in 0 .. size - 1 : kCanarySize + i \in kCanarySize .. kCanarySize + size - 1
        /\ \A i \in 0 .. span - 1 : kCanarySize + i \in 0 .. k - 1
    BY <1>2 DEF span
  <2>2. QED BY <1>1, <1>3, <1>4, <2>1 DEF Within
<1>6. ASSUME NEW m, IsMemory(m, Two(k))
      PROVE  Satisfied(Effect(Written(m, w), <<t>>, "none"), Lines(t) \cup Gaps(t, 238) \cup Guards(t.do, size))
  <2>1. x.buf = "src" /\ t.do = kCanarySize
    BY <1>1, Fills
  <2> HIDE DEF x
  <2>2. kCanarySize + size + kCanarySize <= k
    BY DEF size
  <2> DEFINE b == Written(m, Around(kCanarySize, size, 238) \o <<x>>)
  <2>3. Surrounded(b, k, kCanarySize, size, 238)
    BY <1>2, <1>6, <2>1, <2>2, AroundWrittenOne
  <2>4. b = Written(m, w)
    BY <2>1
  <2> HIDE DEF b, w
  <2> DEFINE n == Effect(b, <<t>>, "none")
  <2>5. /\ Satisfied(n, Lines(t)) /\ Satisfied(n, Guards(t.do, size))
        /\ \A i \in t.do .. t.do + size - 1 : Untouched(t, i) => n["dst"][i] = 238 % kByteSize
    <3>1. Surrounded(b, k, t.do, size, 238) /\ t.do + size + kCanarySize <= k
      BY <2>1, <2>2, <2>3
    <3>2. Arrived(n, t, size, 238)
      BY <1>2, <1>5, <3>1, LinesArrive
    <3> HIDE DEF n
    <3>3. QED BY <3>2 DEF Arrived
  <2> HIDE DEF n
  <2>6. ASSUME NEW y \in 0 .. lines - 1
        PROVE  Holds(n, Set(t.dst, t.do + y * t.pitch_out + t.len, t.pitch_out - t.len, 238))
    <3> DEFINE at == t.do + y * t.pitch_out + t.len
    <3>1. ASSUME NEW i \in 0 .. (t.pitch_out - t.len) - 1 PROVE n["dst"][at + i] = 238 % kByteSize
      <4>1. len + i \in 0 .. pitch_out - 1 /\ len + i >= len /\ y \in Nat /\ i \in Nat
        BY <1>1
      <4>2. y * pitch_out + (len + i) \in 0 .. size - 1 /\ y * pitch_out \in Nat
        BY <4>1, InLines DEF size
      <4>3. at + i = kCanarySize + (y * pitch_out + (len + i))
        <5>1. at = kCanarySize + y * pitch_out + len
          BY <1>1
        <5> HIDE DEF at
        <5>2. QED BY <1>2, <4>1, <4>2, <5>1
      <4>4. at + i \in t.do .. t.do + size - 1
        <5>1. t.do = kCanarySize
          BY <1>1
        <5> HIDE DEF at
        <5>2. QED BY <1>2, <4>2, <4>3, <5>1
      <4>5. Untouched(t, at + i)
        <5> SUFFICES ASSUME NEW v \in 0 .. len - 1, NEW z \in 0 .. lines - 1, Into(t, v, z) = at + i PROVE FALSE
          BY <1>1 DEF Untouched
        <5>1. Into(t, v, z) = kCanarySize + (z * pitch_out + v) /\ z * pitch_out \in Nat /\ v \in 0 .. pitch_out - 1 /\ z \in Nat
          BY <1>4
        <5> HIDE DEF at
        <5>2. z * pitch_out + v = y * pitch_out + (len + i)
          BY <1>2, <4>2, <4>3, <5>1
        <5>3. v = len + i
          BY <4>1, <5>1, <5>2, SameLine
        <5>4. QED BY <4>1, <5>3
      <4> HIDE DEF at
      <4>6. QED BY <2>5, <4>4, <4>5
    <3>2. t.dst = "dst"
      BY <1>1
    <3> HIDE DEF at
    <3>3. Holds(n, Set(t.dst, at, t.pitch_out - t.len, 238))
      BY <3>1, <3>2, Sets
    <3>4. QED BY <3>3 DEF at
  <2>7. Satisfied(n, Gaps(t, 238))
    BY <1>1, <2>6 DEF Satisfied, Gaps
  <2>8. Satisfied(n, Lines(t) \cup Gaps(t, 238) \cup Guards(t.do, size))
    BY <2>5, <2>7 DEF Satisfied
  <2>9. QED BY <2>4, <2>8 DEF n
<1>7. t.pitch_out * t.lines = size /\ t.pitch_in * t.lines = span
  BY <1>1 DEF size, span
<1> HIDE DEF w
<1>8. Passes(w, <<t>>, Lines(t) \cup Gaps(t, 238) \cup Guards(t.do, size), Two(k))
  BY <1>6 DEF Passes
<1>9. QED BY <1>7, <1>8 DEF w, t, x

\* Sizes that are several lines.
LEMMA LineAndByte ==
  ASSUME NEW i \in 0 .. 12 * 2 * u - 1
  PROVE  \E y \in 0 .. 11, x \in 0 .. 2 * u - 1 : i = y * (2 * u) + x
<1> DEFINE y == i \div (2 * u)  x == i % (2 * u)
<1>1. ASSUME NEW p \in {1, 2, 4, 8, 16}, u = p PROVE y \in 0 .. 11 /\ x \in 0 .. 2 * u - 1 /\ i = y * (2 * u) + x
  <2>1. CASE p = 1
    BY <1>1, <2>1
  <2>2. CASE p = 2
    BY <1>1, <2>2
  <2>3. CASE p = 4
    BY <1>1, <2>3
  <2>4. CASE p = 8
    BY <1>1, <2>4
  <2>5. CASE p = 16
    BY <1>1, <2>5
  <2>6. QED BY <2>1, <2>2, <2>3, <2>4, <2>5
<1>2. y \in 0 .. 11 /\ x \in 0 .. 2 * u - 1 /\ i = y * (2 * u) + x
  BY <1>1, Units
<1> HIDE DEF y, x
<1>3. QED BY <1>2

\* As many lines as there can be, one right after the other.
LEMMA MaxLineCountTranscribes ==
  LET t == RowsOf(2 * u, kMaxLines, 2 * u, 2 * u) IN
  Transcribes(t, kMaxLines * 2 * u) /\ t.do = kCanarySize /\ t.so = kCanarySize
<1> DEFINE t == RowsOf(2 * u, kMaxLines, 2 * u, 2 * u)  p == 2 * u  size == kMaxLines * 2 * u
<1>1. /\ t.cmd = "transfer" /\ t.dst = "dst" /\ t.do = kCanarySize /\ t.src = "src" /\ t.so = kCanarySize
      /\ t.len = p /\ t.lines = 12 /\ t.pitch_in = p /\ t.pitch_out = p
      /\ t.stride_in = 1 /\ t.stride_out = 1
  BY Fields DEF RowsOf, PitchedCopy, kMaxLines
<1>2. p \in Nat /\ kCanarySize \in Nat /\ size = 12 * 2 * u /\ size = p * 12 /\ 12 \in Nat
  BY Units DEF kMaxLines
<1>3. \A i \in 0 .. size - 1 : \E y \in 0 .. 11, x \in 0 .. p - 1 : i = y * p + x
  BY <1>2, LineAndByte
<1> HIDE DEF t, p, size
<1>4. Tidy(t)
  BY <1>1, <1>2 DEF Tidy
<1>5. ASSUME NEW x \in 0 .. p - 1, NEW y \in 0 .. 11
      PROVE  /\ Into(t, x, y) = kCanarySize + (y * p + x) /\ From(t, x, y) = kCanarySize + (y * p + x)
             /\ y * p + x \in 0 .. size - 1
  <2>1. y * p \in Nat /\ x \in Nat
    BY <1>2
  <2>2. Into(t, x, y) = kCanarySize + y * p + x * 1 /\ From(t, x, y) = kCanarySize + y * p + x * 1
    BY <1>1 DEF Into, From
  <2>3. y \in 0 .. 12 - 1
    OBVIOUS
  <2>4. y * p + x \in 0 .. p * 12 - 1
    BY <1>2, <2>3, InLines
  <2>5. QED BY <1>2, <2>1, <2>2, <2>4
<1>6. 0 .. t.lines - 1 = 0 .. 11 /\ 0 .. t.len - 1 = 0 .. p - 1
  BY <1>1
<1>7. \A x \in 0 .. t.len - 1, y \in 0 .. t.lines - 1 : Into(t, x, y) \in t.do .. t.do + size - 1
  <2>1. \A j \in 0 .. size - 1 : kCanarySize + j \in kCanarySize .. kCanarySize + size - 1
    BY <1>2
  <2>2. QED BY <1>1, <1>5, <1>6, <2>1
<1>8. \A i \in 0 .. size - 1 : \E x \in 0 .. t.len - 1, y \in 0 .. t.lines - 1 :
         Into(t, x, y) = t.do + i /\ From(t, x, y) = t.so + i
  BY <1>1, <1>3, <1>5, <1>6
<1>9. QED BY <1>1, <1>4, <1>7, <1>8 DEF Transcribes, t, size
\* n is memory m with size bytes moved.
Moved(n, m, dst, do, src, so, size) ==
    /\ \A i \in 0 .. size - 1 :
          do + i \in DOMAIN m[dst] /\ so + i \in DOMAIN m[src] => n[dst][do + i] = m[src][so + i]
    /\ \A j \in DOMAIN m[dst] : j \notin do .. do + size - 1 => n[dst][j] = m[dst][j]
    /\ \A buf \in Names \ {dst} : n[buf] = m[buf]

\* One line to wherever.
LEMMA LinearCopied ==
  ASSUME NEW m, NEW sz, IsMemory(m, sz), NEW dst \in Names, NEW src \in Names, src # dst,
         NEW do \in Nat, NEW so \in Nat, NEW size \in Nat
  PROVE  LET t == Linear(dst, do, src, so, size)
             n == One(m, t, "none")
         IN  IsMemory(n, sz) /\ Effect(m, <<t>>, "none") = n /\ Moved(n, m, dst, do, src, so, size)
<1> DEFINE t == Linear(dst, do, src, so, size)  n == One(m, t, "none")
<1>1. /\ t.cmd = "transfer" /\ t.dst = dst /\ t.do = do /\ t.src = src /\ t.so = so /\ t.len = size
      /\ t.lines = 1 /\ t.pitch_in = size /\ t.pitch_out = size /\ t.stride_in = 1 /\ t.stride_out = 1
  BY Fields DEF Linear, PitchedCopy
<1> HIDE DEF t
<1>2. Tidy(t)
  BY <1>1 DEF Tidy
<1>3. \A x \in 0 .. size - 1, y \in 0 .. 0 : Into(t, x, y) = do + x /\ From(t, x, y) = so + x
  <2>1. \A x \in 0 .. size - 1 : Into(t, x, 0) = do + x /\ From(t, x, 0) = so + x
    BY <1>1 DEF Into, From
  <2>2. \A y \in 0 .. 0 : y = 0
    OBVIOUS
  <2>3. QED BY <2>1, <2>2
<1>4. 0 .. t.lines - 1 = 0 .. 0 /\ 0 .. t.len - 1 = 0 .. size - 1 /\ 0 \in 0 .. 0
  BY <1>1
<1>5. /\ Effect(m, <<t>>, "none") = n
      /\ \A x \in 0 .. t.len - 1, y \in 0 .. t.lines - 1 :
            Into(t, x, y) \in DOMAIN m[t.dst] /\ From(t, x, y) \in DOMAIN m[t.src]
                => n[t.dst][Into(t, x, y)] = m[t.src][From(t, x, y)]
      /\ \A i \in DOMAIN m[t.dst] : Untouched(t, i) => n[t.dst][i] = m[t.dst][i]
      /\ \A buf \in Names \ {t.dst} : n[buf] = m[buf]
  BY <1>1, <1>2, PerfectCopy DEF Untouched
<1>6. IsMemory(n, sz)
  BY OneIsMemory
<1> HIDE DEF n
<1>7. ASSUME NEW i \in 0 .. size - 1, do + i \in DOMAIN m[dst], so + i \in DOMAIN m[src]
      PROVE  n[dst][do + i] = m[src][so + i]
  BY <1>1, <1>3, <1>4, <1>5, <1>7
<1>8. ASSUME NEW j \in DOMAIN m[dst], j \notin do .. do + size - 1 PROVE n[dst][j] = m[dst][j]
  <2>1. Untouched(t, j)
    <3> SUFFICES ASSUME NEW x \in 0 .. t.len - 1, NEW y \in 0 .. t.lines - 1, Into(t, x, y) = j PROVE FALSE
      BY DEF Untouched
    <3>1. x \in 0 .. size - 1 /\ Into(t, x, y) = do + x
      BY <1>3, <1>4
    <3>2. do + x \in do .. do + size - 1
      BY <3>1
    <3>3. QED BY <1>8, <3>1, <3>2
  <2>2. QED BY <1>1, <1>5, <2>1
<1>9. QED BY <1>1, <1>5, <1>6, <1>7, <1>8 DEF n, t, Moved

\* The test that also looks at the source passes,
LEMMA LinearCopyPasses ==
  LET n == 2 * kByteSize IN
  Passes(Around(kCanarySize, n, 204) \o <<Fill("src", kCanarySize, n, 90)>>,
         <<Linear("dst", kCanarySize, "src", kCanarySize, n)>>,
         {Fill("dst", kCanarySize, n, 90), Fill("src", kCanarySize, n, 90)} \cup Guards(kCanarySize, n), Two(Span(n)))
<1> DEFINE n == 2 * kByteSize  t == Linear("dst", kCanarySize, "src", kCanarySize, n)  k == Span(n)
           x == Fill("src", kCanarySize, n, 90)  d == Fill("dst", kCanarySize, n, 90)
           w == Around(kCanarySize, n, 204) \o <<x>>
<1>1. n \in Nat /\ kCanarySize \in Nat /\ k \in Nat /\ kCanarySize + n + kCanarySize <= k /\ kCanarySize + n <= k
  BY Units DEF Span
<1> HIDE DEF n, k
<1>2. Transcribes(t, n) /\ t.do = kCanarySize /\ t.so = kCanarySize
  BY <1>1, LinearTranscribes
<1>3. /\ x.buf = "src" /\ x.at = kCanarySize /\ DOMAIN x.bytes = 0 .. n - 1
      /\ \A i \in 0 .. n - 1 : x.bytes[i] = Patterns[90 % kByteSize][i]
      /\ \A m : Holds(m, x) <=> \A i \in 0 .. n - 1 : m["src"][kCanarySize + i] = Patterns[90 % kByteSize][i]
  BY Fills
<1>4. \A m : Holds(m, d) <=> \A i \in 0 .. n - 1 : m["dst"][kCanarySize + i] = Patterns[90 % kByteSize][i]
  BY Fills
<1> HIDE DEF t, x, d
<1>5. ASSUME NEW m, IsMemory(m, Two(k))
      PROVE  Satisfied(Effect(Written(m, w), <<t>>, "none"), {d, x} \cup Guards(kCanarySize, n))
  <2> DEFINE e == Effect(Written(m, Around(t.do, n, 204) \o <<x>>), <<t>>, "none")
  <2>1. /\ \A i \in 0 .. n - 1 : e["dst"][t.do + i] = x.bytes[i] /\ e["src"][t.so + i] = x.bytes[i]
        /\ Satisfied(e, Guards(t.do, n))
    <3>1. t.do + n + kCanarySize <= k /\ t.so + n <= k /\ x.at = t.so
      BY <1>1, <1>2, <1>3
    <3>2. x.buf = "src" /\ DOMAIN x.bytes = 0 .. n - 1 /\ Transcribes(t, n) /\ n \in Nat /\ k \in Nat
      BY <1>1, <1>2, <1>3
    <3> HIDE DEF w
    <3>3. QED BY <1>5, <3>1, <3>2, Transcribed
  <2>2. e = Effect(Written(m, w), <<t>>, "none")
    BY <1>2
  <2> HIDE DEF e, w
  <2>3. Holds(e, d) /\ Holds(e, x) /\ Satisfied(e, Guards(kCanarySize, n))
    BY <1>2, <1>3, <1>4, <2>1
  <2>4. QED BY <2>2, <2>3 DEF Satisfied
<1> HIDE DEF w
<1>6. QED BY <1>5 DEF Passes, w, x, d, t, n, k

\* and that of one byte.
LEMMA MinTransferPasses ==
  Passes(Around(kCanarySize, 1, 0) \o <<Set("src", kCanarySize, 1, 126)>>, <<RowsOf(1, 1, 1, 1)>>,
         {Set("dst", kCanarySize, 1, 126)} \cup Guards(kCanarySize, 1), Two(Span(1)))
<1> DEFINE n == 1  t == RowsOf(1, 1, 1, 1)  k == Span(n)
           x == Set("src", kCanarySize, n, 126)  d == Set("dst", kCanarySize, n, 126)
           w == Around(kCanarySize, n, 0) \o <<x>>
<1>1. n \in Nat /\ kCanarySize \in Nat /\ k \in Nat /\ kCanarySize + n + kCanarySize <= k /\ kCanarySize + n <= k
  BY Units DEF Span
<1>2. t = Linear("dst", kCanarySize, "src", kCanarySize, n)
  BY DEF RowsOf, Linear
<1> HIDE DEF n, k, t
<1>3. Transcribes(t, n) /\ t.do = kCanarySize /\ t.so = kCanarySize
  BY <1>1, <1>2, LinearTranscribes
<1>4. /\ x.buf = "src" /\ x.at = kCanarySize /\ DOMAIN x.bytes = 0 .. n - 1
      /\ \A i \in 0 .. n - 1 : x.bytes[i] = 126 % kByteSize
  BY Sets
<1>5. \A m : Holds(m, d) <=> \A i \in 0 .. n - 1 : m["dst"][kCanarySize + i] = 126 % kByteSize
  BY Sets
<1> HIDE DEF x, d
<1>6. ASSUME NEW m, IsMemory(m, Two(k))
      PROVE  Satisfied(Effect(Written(m, w), <<t>>, "none"), {d} \cup Guards(kCanarySize, n))
  <2> DEFINE e == Effect(Written(m, Around(t.do, n, 0) \o <<x>>), <<t>>, "none")
  <2>1. /\ \A i \in 0 .. n - 1 : e["dst"][t.do + i] = x.bytes[i] /\ e["src"][t.so + i] = x.bytes[i]
        /\ Satisfied(e, Guards(t.do, n))
    BY <1>1, <1>3, <1>4, <1>6, Transcribed
  <2>2. e = Effect(Written(m, w), <<t>>, "none")
    BY <1>3
  <2> HIDE DEF e, w
  <2>3. Holds(e, d) /\ Satisfied(e, Guards(kCanarySize, n))
    BY <1>3, <1>4, <1>5, <2>1
  <2>4. QED BY <2>2, <2>3 DEF Satisfied
<1> HIDE DEF w
<1>7. QED BY <1>6 DEF Passes, w, x, d, t, n, k

\* So does the one that copies to the framebuffer,
LEMMA FramebufferPasses ==
  LET n == 2 * kByteSize IN
  Passes(<<Fill("src", kCanarySize, n, 119)>>, <<Linear("framebuffer", 0, "src", kCanarySize, n)>>,
         {Fill("framebuffer", 0, n, 119)}, [src |-> Span(n)])
<1> DEFINE n == 2 * kByteSize  t == Linear("framebuffer", 0, "src", kCanarySize, n)  sz == [src |-> Span(n)]
           x == Fill("src", kCanarySize, n, 119)  d == Fill("framebuffer", 0, n, 119)  w == <<x>>
<1>1. /\ n \in Nat /\ kCanarySize \in Nat /\ DOMAIN sz = {"src"} /\ sz["src"] = Span(n)
      /\ \A i \in 0 .. n - 1 : kCanarySize + i \in 0 .. Span(n) - 1 /\ 0 + i \in 0 .. kMaxSpan - 1
                               /\ (kCanarySize + i) - kCanarySize = i
  BY Units DEF Span, kMaxSpan
<1>2. /\ x.buf = "src" /\ x.at = kCanarySize /\ DOMAIN x.bytes = 0 .. n - 1
      /\ \A i \in 0 .. n - 1 : x.bytes[i] = Patterns[119 % kByteSize][i]
  BY Fills
<1>3. \A m : Holds(m, d) <=> \A i \in 0 .. n - 1 : m["framebuffer"][0 + i] = Patterns[119 % kByteSize][i]
  BY Fills
<1> HIDE DEF n, sz, x, d
<1>4. Len(w) = 1 /\ w[1] = x /\ DOMAIN w = 1 .. Len(w)
  OBVIOUS
<1> HIDE DEF w
<1>5. ASSUME NEW m, IsMemory(m, sz) PROVE Satisfied(Effect(Written(m, w), <<t>>, "none"), {d})
  <2> DEFINE b == Written(m, w)  e == One(b, t, "none")
  <2>1. IsMemory(b, sz)
    BY <1>5, WrittenIsMemory
  <2>2. /\ "src" \in DOMAIN m /\ DOMAIN m["src"] = 0 .. Span(n) - 1
        /\ DOMAIN b["src"] = 0 .. Span(n) - 1 /\ DOMAIN b["framebuffer"] = 0 .. kMaxSpan - 1
    BY <1>1, <1>5, <2>1 DEF IsMemory, Names
  <2>3. ASSUME NEW i \in 0 .. n - 1 PROVE b["src"][kCanarySize + i] = Patterns[119 % kByteSize][i]
    <3> DEFINE j == kCanarySize + i
    <3>1. j \in 0 .. Span(n) - 1 /\ j - kCanarySize = i
      BY <1>1
    <3> HIDE DEF j
    <3>2. Covers(w[1], "src", j) /\ j \in DOMAIN m["src"]
      BY <1>2, <1>4, <2>2, <3>1 DEF Covers
    <3>3. /\ 1 \in 1 .. Len(w) /\ Len(w) \in Nat /\ DOMAIN w = 1 .. Len(w) /\ "src" \in DOMAIN m
          /\ \A l \in 1 + 1 .. Len(w) : ~Covers(w[l], "src", j)
      BY <1>4, <2>2
    <3>4. b["src"][j] = w[1].bytes[j - w[1].at]
      BY <3>2, <3>3, WrittenLast
    <3>5. QED BY <1>2, <1>4, <3>1, <3>4 DEF j
  <2>4. "framebuffer" \in Names /\ "src" \in Names /\ 0 \in Nat
    BY DEF Names
  <2> HIDE DEF b
  <2>5. /\ Effect(b, <<t>>, "none") = e
        /\ \A i \in 0 .. n - 1 :
              0 + i \in DOMAIN b["framebuffer"] /\ kCanarySize + i \in DOMAIN b["src"]
                  => e["framebuffer"][0 + i] = b["src"][kCanarySize + i]
    <3>1. n \in Nat /\ kCanarySize \in Nat /\ IsMemory(b, sz)
      BY <1>1, <2>1
    <3>2. Effect(b, <<t>>, "none") = e /\ Moved(e, b, "framebuffer", 0, "src", kCanarySize, n)
      BY <2>4, <3>1, LinearCopied
    <3> HIDE DEF e, t
    <3>3. QED BY <3>2 DEF Moved
  <2> HIDE DEF e, t
  <2>6. Holds(e, d)
    BY <1>1, <1>3, <2>2, <2>3, <2>5
  <2>7. QED BY <2>5, <2>6 DEF Satisfied, b
<1> HIDE DEF t
<1>6. Passes(w, <<t>>, {d}, sz)
  BY <1>5 DEF Passes
<1>7. QED BY <1>6 DEF w, x, d, t, n, sz

\* and the one that copies nothing.
LEMMA ZeroSizePasses ==
  ASSUME NEW len \in {0, 4}, NEW lines \in {0, 2}, len = 0 \/ lines = 0
  PROVE  Passes(<<Set("dst", 0, 16, 204), Set("src", 0, 16, 85)>>,
                <<PitchedCopy("dst", 0, "src", 0, len, lines, 4, 4)>>, {Set("dst", 0, 16, 204)}, Two(16))
<1> DEFINE t == PitchedCopy("dst", 0, "src", 0, len, lines, 4, 4)  sz == Two(16)
           x == Set("dst", 0, 16, 204)  y == Set("src", 0, 16, 85)  w == <<x, y>>
<1>1. /\ t.cmd = "transfer" /\ t.dst = "dst" /\ t.do = 0 /\ t.src = "src" /\ t.so = 0 /\ t.len = len
      /\ t.lines = lines /\ t.pitch_in = 4 /\ t.pitch_out = 4 /\ t.stride_in = 1 /\ t.stride_out = 1
  BY Fields DEF PitchedCopy
<1>2. /\ x.buf = "dst" /\ x.at = 0 /\ DOMAIN x.bytes = 0 .. 16 - 1
      /\ \A i \in 0 .. 16 - 1 : x.bytes[i] = 204 % kByteSize
      /\ \A m : Holds(m, x) <=> \A i \in 0 .. 16 - 1 : m["dst"][0 + i] = 204 % kByteSize
  <2> DEFINE z == 0  n == 16  a == 204  v == Set("dst", z, n, a)
  <2>1. /\ v.buf = "dst" /\ v.at = z /\ DOMAIN v.bytes = 0 .. n - 1
        /\ \A i \in 0 .. n - 1 : v.bytes[i] = a % kByteSize
        /\ \A m : Holds(m, v) <=> \A i \in 0 .. n - 1 : m["dst"][z + i] = a % kByteSize
    <3> HIDE DEF z, n, a
    <3>1. QED BY Sets
  <2>2. v = x
    OBVIOUS
  <2> HIDE DEF v, x
  <2>3. QED BY <2>1, <2>2
<1>3. y.buf = "src"
  BY DEF Set
<1>4. DOMAIN sz = {"src", "dst"} /\ sz["dst"] = 16
  BY DEF Two
<1> HIDE DEF t, sz, x, y
<1>5. Len(w) = 2 /\ w[1] = x /\ w[2] = y /\ DOMAIN w = 1 .. Len(w)
  OBVIOUS
<1> HIDE DEF w
<1>6. Tidy(t)
  BY <1>1 DEF Tidy
<1>7. \A i : Untouched(t, i)
  BY <1>1 DEF Untouched
<1>8. ASSUME NEW m, IsMemory(m, sz) PROVE Satisfied(Effect(Written(m, w), <<t>>, "none"), {x})
  <2> DEFINE b == Written(m, w)  e == One(b, t, "none")
  <2>1. IsMemory(b, sz)
    BY <1>8, WrittenIsMemory
  <2>2. "dst" \in DOMAIN m /\ DOMAIN m["dst"] = 0 .. 16 - 1 /\ DOMAIN b["dst"] = 0 .. 16 - 1
    BY <1>4, <1>8, <2>1 DEF IsMemory, Names
  <2>3. ASSUME NEW i \in 0 .. 16 - 1 PROVE b["dst"][i] = 204 % kByteSize
    <3>1. Covers(w[1], "dst", i) /\ i \in DOMAIN m["dst"] /\ 1 \in 1 .. Len(w) /\ i - 0 = i
          /\ \A l \in 1 + 1 .. Len(w) : l = 2
      BY <1>2, <1>5, <2>2 DEF Covers
    <3>2. \A l \in 1 + 1 .. Len(w) : ~Covers(w[l], "dst", i)
      BY <1>3, <1>5, <3>1 DEF Covers
    <3>3. b["dst"][i] = w[1].bytes[i - w[1].at]
      <4>1. /\ 1 \in 1 .. Len(w) /\ Len(w) \in Nat /\ DOMAIN w = 1 .. Len(w) /\ "dst" \in DOMAIN m
            /\ i \in DOMAIN m["dst"] /\ Covers(w[1], "dst", i)
        BY <1>5, <2>2, <3>1
      <4>2. QED BY <3>2, <4>1, WrittenLast
    <3>4. QED BY <1>2, <1>5, <3>1, <3>3
  <2>4. "dst" \in Names /\ "src" \in Names
    BY DEF Names
  <2> HIDE DEF b
  <2>5. /\ Effect(b, <<t>>, "none") = e
        /\ \A i \in DOMAIN b[t.dst] : Untouched(t, i) => e[t.dst][i] = b[t.dst][i]
    BY <1>1, <1>6, <2>1, <2>4, PerfectCopy DEF Untouched
  <2> HIDE DEF e
  <2>6. \A i \in 0 .. 16 - 1 : e["dst"][0 + i] = 204 % kByteSize
    BY <1>1, <1>7, <2>2, <2>3, <2>5
  <2>7. QED BY <1>2, <2>5, <2>6 DEF Satisfied, b
<1>9. Passes(w, <<t>>, {x}, sz)
  BY <1>8 DEF Passes
<1>10. QED BY <1>9 DEF w, x, y, t, sz

\* A copy after what it passes on, and before what it passes.
IsChecked(s, sz) ==
    \E w, t, c : s = Prepare(w) \o GpumCopy(t) \o Check(c) /\ Passes(w, <<t>>, c, sz)

\* The copies with strides are such.
LEMMA FormatPasses ==
  ASSUME NEW stride_in \in {1, 2, 4}, NEW stride_out \in {1, 2, 4}, NEW lines \in {1, 2},
         stride_in * lines <= 4, stride_out * lines <= 4
  PROVE  IsChecked(FormatCase(stride_in, stride_out, lines), Two(Span(kFormatSpan)))
<1> DEFINE pi == lines * (u + 3) * stride_in  po == lines * (u + 3) * stride_out
           t == Strided("dst", kCanarySize, "src", kCanarySize, u + 3, lines, pi, po, stride_in, stride_out)
           rising == [i \in 0 .. lines * t.pitch_in - 1 |-> (16 + i) % kByteSize]
           written == {y * t.pitch_out + x * stride_out : y \in 0 .. lines - 1, x \in 0 .. t.len - 1}
           left == [i \in (0 .. kFormatSpan - 1) \ written |-> 204 % kByteSize]
           size == kFormatSpan  k == Span(size)
           v == Set("src", 0, k, 0)  r == [buf |-> "src", at |-> kCanarySize, bytes |-> rising]
           c == [buf |-> "dst", at |-> kCanarySize, bytes |-> left]
           s == <<v, r>>  S == {v, r}
           w == Around(kCanarySize, size, 204) \o s
<1>1. /\ t.cmd = "transfer" /\ t.dst = "dst" /\ t.do = kCanarySize /\ t.src = "src" /\ t.so = kCanarySize
      /\ t.len = u + 3 /\ t.lines = lines /\ t.pitch_in = pi /\ t.pitch_out = po
      /\ t.stride_in = stride_in /\ t.stride_out = stride_out
  <2> HIDE DEF pi, po
  <2>1. QED BY Fields
<1>2. /\ kCanarySize \in Nat /\ size \in Nat /\ k \in Nat /\ kCanarySize + size + kCanarySize <= k /\ u \in Nat
      /\ 8 * (u + 3) <= size
  BY Units DEF Span, kFormatSpan
<1>3. /\ pi \in Nat /\ po \in Nat
      /\ \A y \in 0 .. lines - 1, x \in 0 .. u + 2 :
            /\ y * pi \in Nat /\ y * po \in Nat /\ x * stride_in \in Nat /\ x * stride_out \in Nat
            /\ y * pi + x * stride_in \in 0 .. size - 1 /\ y * po + x * stride_out \in 0 .. size - 1
      /\ stride_out * (u + 3) <= po
  <2> DEFINE l == u + 3
  <2>1. l \in Nat /\ 8 * l <= size /\ l >= 1 /\ u + 2 = l - 1
    BY <1>2
  <2> HIDE DEF l, size
  <2>2. ASSUME NEW d \in {1, 2, 4}, d * lines <= 4, NEW p, p = lines * l * d
        PROVE  /\ p \in Nat /\ d * l <= p
               /\ \A y \in 0 .. lines - 1, x \in 0 .. l - 1 :
                     y * p \in Nat /\ x * d \in Nat /\ y * p + x * d \in 0 .. size - 1
    <3>1. CASE lines = 1
      <4>1. p = l * d
        BY <2>1, <2>2, <3>1
      <4>2. CASE d = 1
        BY <1>2, <2>1, <3>1, <4>1, <4>2
      <4>3. CASE d = 2
        BY <1>2, <2>1, <3>1, <4>1, <4>3
      <4>4. CASE d = 4
        BY <1>2, <2>1, <3>1, <4>1, <4>4
      <4>5. QED BY <2>2, <4>2, <4>3, <4>4
    <3>2. CASE lines = 2
      <4>1. CASE d = 1
        BY <1>2, <2>1, <2>2, <3>2, <4>1
      <4>2. CASE d = 2
        BY <1>2, <2>1, <2>2, <3>2, <4>2
      <4>3. d # 4
        BY <2>2, <3>2
      <4>4. QED BY <2>2, <4>1, <4>2, <4>3
    <3>3. QED BY <3>1, <3>2
  <2>3. /\ pi \in Nat
        /\ \A y \in 0 .. lines - 1, x \in 0 .. l - 1 :
              y * pi \in Nat /\ x * stride_in \in Nat /\ y * pi + x * stride_in \in 0 .. size - 1
    <3>1. pi = lines * l * stride_in
      BY DEF l
    <3> HIDE DEF pi
    <3>2. QED BY <2>2, <3>1
  <2>4. /\ po \in Nat /\ stride_out * l <= po
        /\ \A y \in 0 .. lines - 1, x \in 0 .. l - 1 :
              y * po \in Nat /\ x * stride_out \in Nat /\ y * po + x * stride_out \in 0 .. size - 1
    <3>1. po = lines * l * stride_out
      BY DEF l
    <3> HIDE DEF po
    <3>2. QED BY <2>2, <3>1
  <2> HIDE DEF pi, po
  <2>5. QED BY <2>1, <2>3, <2>4 DEF l
<1> HIDE DEF pi, po, t, rising, written, left, size, k, v, r, c
<1>4. 0 .. t.len - 1 = 0 .. u + 2 /\ 0 .. t.lines - 1 = 0 .. lines - 1
  BY <1>1, <1>2
<1>5. Tidy(t)
  <2>1. {t.do, t.so, t.len, t.lines, t.pitch_in, t.pitch_out} \subseteq Nat
    BY <1>1, <1>2, <1>3
  <2>2. t.stride_out * t.len <= t.pitch_out
    BY <1>1, <1>3
  <2>3. QED BY <1>1, <2>1, <2>2 DEF Tidy
<1>6. \A y \in 0 .. lines - 1, x \in 0 .. u + 2 :
         /\ Into(t, x, y) = kCanarySize + (y * po + x * stride_out)
         /\ From(t, x, y) = kCanarySize + (y * pi + x * stride_in)
  <2> SUFFICES ASSUME NEW y \in 0 .. lines - 1, NEW x \in 0 .. u + 2
               PROVE  /\ Into(t, x, y) = kCanarySize + (y * po + x * stride_out)
                      /\ From(t, x, y) = kCanarySize + (y * pi + x * stride_in)
    OBVIOUS
  <2>1. Into(t, x, y) = (kCanarySize + y * po) + x * stride_out /\ From(t, x, y) = (kCanarySize + y * pi) + x * stride_in
    BY <1>1 DEF Into, From
  <2> DEFINE a == y * po  b == x * stride_out  d == y * pi  e == x * stride_in
  <2>2. a \in Nat /\ b \in Nat /\ d \in Nat /\ e \in Nat
    BY <1>3
  <2> HIDE DEF a, b, d, e
  <2>3. (kCanarySize + a) + b = kCanarySize + (a + b) /\ (kCanarySize + d) + e = kCanarySize + (d + e)
    BY <1>2, <2>2
  <2>4. QED BY <2>1, <2>3 DEF a, b, d, e
<1>7. Within(t, size, k)
  <2>1. \A i \in 0 .. size - 1 :
           kCanarySize + i \in kCanarySize .. kCanarySize + size - 1 /\ kCanarySize + i \in 0 .. k - 1
    BY <1>2
  <2>2. \A x \in 0 .. t.len - 1, y \in 0 .. t.lines - 1 :
           Into(t, x, y) \in t.do .. t.do + size - 1 /\ From(t, x, y) \in 0 .. k - 1
    <3> SUFFICES ASSUME NEW x \in 0 .. t.len - 1, NEW y \in 0 .. t.lines - 1
                 PROVE  Into(t, x, y) \in t.do .. t.do + size - 1 /\ From(t, x, y) \in 0 .. k - 1
      OBVIOUS
    <3> DEFINE i == y * po + x * stride_out  j == y * pi + x * stride_in
    <3>1. i \in 0 .. size - 1 /\ j \in 0 .. size - 1 /\ Into(t, x, y) = kCanarySize + i /\ From(t, x, y) = kCanarySize + j
      BY <1>3, <1>4, <1>6
    <3> HIDE DEF i, j
    <3>2. QED BY <1>1, <2>1, <3>1
  <2>3. QED BY <1>1, <1>5, <2>2 DEF Within
<1>8. s \in Seq(S) /\ \A j \in 1 .. Len(s) : s[j].buf = "src"
  <2>1. v.buf = "src" /\ r.buf = "src"
    BY DEF v, r, Set
  <2>2. s \in Seq(S) /\ Len(s) = 2 /\ s[1] = v /\ s[2] = r
    OBVIOUS
  <2>3. QED BY <2>1, <2>2
<1> HIDE DEF s, S
<1>9. ASSUME NEW m, IsMemory(m, Two(k))
      PROVE  Satisfied(Effect(Written(m, w), <<t>>, "none"), Lines(t) \cup {c} \cup Guards(kCanarySize, size))
  <2> DEFINE b == Written(m, w)  n == Effect(b, <<t>>, "none")
  <2>1. Surrounded(b, k, kCanarySize, size, 204)
    BY <1>2, <1>8, <1>9, AroundWritten
  <2> HIDE DEF b
  <2>2. Arrived(n, t, size, 204)
    <3>1. Surrounded(b, k, t.do, size, 204) /\ t.do + size + kCanarySize <= k
      BY <1>1, <1>2, <2>1
    <3>2. QED BY <1>2, <1>7, <3>1, LinesArrive
  <2> HIDE DEF n
  <2>3. Satisfied(n, Lines(t)) /\ Satisfied(n, Guards(kCanarySize, size))
    BY <1>1, <2>2 DEF Arrived
  <2>4. ASSUME NEW i \in DOMAIN left PROVE n["dst"][kCanarySize + i] = left[i]
    <3>1. i \in 0 .. size - 1 /\ i \notin written /\ left[i] = 204 % kByteSize
      BY DEF left, size
    <3>2. Untouched(t, kCanarySize + i)
      <4> SUFFICES ASSUME NEW x \in 0 .. t.len - 1, NEW y \in 0 .. t.lines - 1, Into(t, x, y) = kCanarySize + i PROVE FALSE
        BY DEF Untouched
      <4> DEFINE j == y * po + x * stride_out
      <4>1. kCanarySize + j = kCanarySize + i /\ j \in 0 .. size - 1
        BY <1>3, <1>4, <1>6
      <4>2. j \in written
        BY <1>1, <1>4 DEF written
      <4> HIDE DEF j
      <4>3. j = i
        BY <1>2, <3>1, <4>1
      <4>4. QED BY <3>1, <4>2, <4>3
    <3>3. kCanarySize + i \in t.do .. t.do + size - 1
      BY <1>1, <1>2, <3>1
    <3>4. QED BY <2>2, <3>1, <3>2, <3>3 DEF Arrived
  <2>5. Holds(n, c)
    BY <2>4, Conditions DEF c
  <2>6. QED BY <2>3, <2>5 DEF Satisfied, n, b
<1> DEFINE conditions == Lines(t) \cup {c} \cup Guards(kCanarySize, size)
<1> HIDE DEF w
<1>10. Passes(w, <<t>>, conditions, Two(k))
  BY <1>9 DEF Passes
<1>11. FormatCase(stride_in, stride_out, lines) = Prepare(w) \o GpumCopy(t) \o Check(conditions)
  BY DEF FormatCase, w, s, v, r, c, t, rising, written, left, size, k, pi, po
<1> HIDE DEF conditions
<1>12. QED BY <1>10, <1>11 DEF IsChecked, size, k

\* Where only one write goes, it is what is there.
LEMMA WrittenOnce ==
  ASSUME NEW m, NEW writes, Len(writes) \in Nat, DOMAIN writes = 1 .. Len(writes), NEW k \in 1 .. Len(writes),
         NEW buf \in DOMAIN m, NEW i \in DOMAIN m[buf], Covers(writes[k], buf, i),
         \A j \in 1 .. Len(writes) : j # k => ~Covers(writes[j], buf, i)
  PROVE  Written(m, writes)[buf][i] = writes[k].bytes[i - writes[k].at]
<1>1. \A j \in k + 1 .. Len(writes) : j # k /\ j \in 1 .. Len(writes)
  OBVIOUS
<1>2. QED BY <1>1, WrittenLast

\* What is copied on from where it has just been copied to is the pattern.
LEMMA BatchingCausalChainPasses ==
  Passes(<<Fill("a", 0, kChainSize, 131), Set("b", 0, kChainSize, 17), Set("c", 0, kChainSize, 34)>>,
         <<Linear("b", 0, "a", 0, kChainSize), Linear("c", 0, "b", 0, kChainSize)>>,
         {Fill("b", 0, kChainSize, 131), Fill("c", 0, kChainSize, 131)}, [buf \in {"a", "b", "c"} |-> kChainSize])
<1> DEFINE n == kChainSize  sz == [buf \in {"a", "b", "c"} |-> n]
           x == Linear("b", 0, "a", 0, n)  y == Linear("c", 0, "b", 0, n)
           v1 == Fill("a", 0, n, 131)  v2 == Set("b", 0, n, 17)  v3 == Set("c", 0, n, 34)
           w == <<v1, v2, v3>>  q == <<x, y>>
           c1 == Fill("b", 0, n, 131)  c2 == Fill("c", 0, n, 131)
<1>1. n \in Nat /\ DOMAIN sz = {"a", "b", "c"} /\ \A buf \in {"a", "b", "c"} : sz[buf] = n
  BY Units DEF kChainSize
<1> HIDE DEF n
<1>2. /\ v1.buf = "a" /\ v1.at = 0 /\ DOMAIN v1.bytes = 0 .. n - 1
      /\ \A i \in 0 .. n - 1 : v1.bytes[i] = Patterns[131 % kByteSize][i]
  BY Fills
<1>3. v2.buf = "b" /\ v3.buf = "c"
  BY DEF Set
<1>4. /\ \A m : Holds(m, c1) <=> \A i \in 0 .. n - 1 : m["b"][0 + i] = Patterns[131 % kByteSize][i]
      /\ \A m : Holds(m, c2) <=> \A i \in 0 .. n - 1 : m["c"][0 + i] = Patterns[131 % kByteSize][i]
  BY Fills
<1> HIDE DEF v1, v2, v3, c1, c2, sz
<1>5. Len(w) = 3 /\ w[1] = v1 /\ w[2] = v2 /\ w[3] = v3 /\ DOMAIN w = 1 .. Len(w) /\ Len(w) \in Nat
  OBVIOUS
<1> HIDE DEF w
<1>6. \A m : Effect(m, q, "none") = One(One(m, x, "none"), y, "none")
  <2> HIDE DEF x, y
  <2>1. Len(q) = 2 /\ q[1] = x /\ q[2] = y
    OBVIOUS
  <2>2. QED BY <2>1 DEF Effect
<1> HIDE DEF q
<1>7. ASSUME NEW m, IsMemory(m, sz) PROVE Satisfied(Effect(Written(m, w), q, "none"), {c1, c2})
  <2> DEFINE b == Written(m, w)  d == One(b, x, "none")  e == One(d, y, "none")
  <2>1. IsMemory(b, sz)
    BY <1>7, WrittenIsMemory
  <2>2. \A f : IsMemory(f, sz) => \A buf \in {"a", "b", "c"} : buf \in DOMAIN f /\ DOMAIN f[buf] = 0 .. n - 1
    BY <1>1 DEF IsMemory, Names
  <2>3. ASSUME NEW i \in 0 .. n - 1 PROVE b["a"][i] = Patterns[131 % kByteSize][i]
    <3>1. Covers(w[1], "a", i) /\ i - 0 = i
      BY <1>1, <1>2, <1>5 DEF Covers
    <3>2. \A j \in 1 .. Len(w) : j # 1 => ~Covers(w[j], "a", i)
      <4>1. \A j \in 1 .. 3 : j # 1 => j = 2 \/ j = 3
        OBVIOUS
      <4>2. QED BY <1>3, <1>5, <4>1 DEF Covers
    <3>3. "a" \in DOMAIN m /\ i \in DOMAIN m["a"] /\ 1 \in 1 .. Len(w)
      <4>1. "a" \in {"a", "b", "c"}
        OBVIOUS
      <4> HIDE DEF b, d, e
      <4>2. "a" \in DOMAIN m /\ DOMAIN m["a"] = 0 .. n - 1
        BY <1>7, <2>2, <4>1
      <4>3. QED BY <1>5, <4>2
    <3>4. b["a"][i] = w[1].bytes[i - w[1].at]
      BY <1>5, <3>1, <3>2, <3>3, WrittenOnce
    <3>5. QED BY <1>2, <1>5, <3>1, <3>4
  <2> HIDE DEF b
  <2>4. "a" \in Names /\ "b" \in Names /\ "c" \in Names /\ 0 \in Nat
    BY DEF Names
  <2>5. IsMemory(d, sz) /\ Moved(d, b, "b", 0, "a", 0, n)
    BY <1>1, <2>1, <2>4, LinearCopied
  <2> HIDE DEF d
  <2>6. IsMemory(e, sz) /\ Moved(e, d, "c", 0, "b", 0, n)
    BY <1>1, <2>4, <2>5, LinearCopied
  <2> HIDE DEF e
  <2>7. \A i \in 0 .. n - 1 : 0 + i = i
    BY <1>1
  <2>14. DOMAIN b["a"] = 0 .. n - 1 /\ DOMAIN b["b"] = 0 .. n - 1 /\ DOMAIN d["b"] = 0 .. n - 1 /\ DOMAIN d["c"] = 0 .. n - 1
    BY <2>1, <2>2, <2>5
  <2>8. ASSUME NEW i \in 0 .. n - 1 PROVE d["b"][i] = Patterns[131 % kByteSize][i]
    <3>1. 0 + i \in DOMAIN b["b"] /\ 0 + i \in DOMAIN b["a"] => d["b"][0 + i] = b["a"][0 + i]
      BY <2>5 DEF Moved
    <3>2. QED BY <2>3, <2>7, <2>14, <3>1
  <2>9. ASSUME NEW i \in 0 .. n - 1 PROVE e["c"][i] = Patterns[131 % kByteSize][i]
    <3>1. 0 + i \in DOMAIN d["c"] /\ 0 + i \in DOMAIN d["b"] => e["c"][0 + i] = d["b"][0 + i]
      BY <2>6 DEF Moved
    <3>2. QED BY <2>7, <2>8, <2>14, <3>1
  <2>10. e["b"] = d["b"]
    BY <2>4, <2>6 DEF Moved
  <2>11. Holds(e, c1) /\ Holds(e, c2)
    BY <1>4, <2>7, <2>8, <2>9, <2>10
  <2>12. Effect(b, q, "none") = e
    BY <1>6 DEF e, d
  <2>13. QED BY <2>11, <2>12 DEF Satisfied, b
<1> HIDE DEF x, y
<1>8. Passes(w, q, {c1, c2}, sz)
  BY <1>7 DEF Passes
<1>9. QED BY <1>8 DEF w, q, c1, c2, sz, n, x, y, v1, v2, v3

\* Chunks copied one by one.
LEMMA BatchingIndependentPasses ==
  LET Chunk(i) == (i - 1) * kChunkSize IN
  Passes(<<Set("dst", 0, kNumChunks * kChunkSize, 204)>> \o [i \in 1 .. kNumChunks |-> Fill("src", Chunk(i), kChunkSize, i + 6)],
         [i \in 1 .. kNumChunks |-> Linear("dst", Chunk(i), "src", Chunk(i), kChunkSize)],
         {Fill("dst", Chunk(i), kChunkSize, i + 6) : i \in 1 .. kNumChunks}, Two(kNumChunks * kChunkSize))
<1> DEFINE n == kChunkSize  size == kNumChunks * n  sz == Two(size)
           Chunk(i) == (i - 1) * n
           v == Set("dst", 0, size, 204)  Source(i) == Fill("src", Chunk(i), n, i + 6)
           r == [i \in 1 .. kNumChunks |-> Source(i)]  w == <<v>> \o r
           Copy(i) == Linear("dst", Chunk(i), "src", Chunk(i), n)
           q == [i \in 1 .. kNumChunks |-> Copy(i)]
           Result(i) == Fill("dst", Chunk(i), n, i + 6)
           P(i) == Patterns[(i + 6) % kByteSize]
<1>1. /\ n \in Nat /\ size = 3 * n /\ kNumChunks = 3 /\ DOMAIN sz = {"src", "dst"} /\ sz["src"] = size /\ sz["dst"] = size
  BY Units DEF kChunkSize, kNumChunks, Two
<1> HIDE DEF n, size, sz
<1>2. Chunk(1) = 0 /\ Chunk(2) = n /\ Chunk(3) = 2 * n
  BY <1>1
<1> HIDE DEF Chunk
<1>3. \A i \in 1 .. 3 :
         /\ Source(i).buf = "src" /\ Source(i).at = Chunk(i) /\ DOMAIN Source(i).bytes = 0 .. n - 1
         /\ \A x \in 0 .. n - 1 : Source(i).bytes[x] = P(i)[x]
  BY Fills
<1>4. \A i \in 1 .. 3 : \A m : Holds(m, Result(i)) <=> \A x \in 0 .. n - 1 : m["dst"][Chunk(i) + x] = P(i)[x]
  BY Fills
<1>5. v.buf = "dst"
  BY DEF Set
<1> HIDE DEF v, Source, Result, P
<1>6. /\ Len(w) = 4 /\ DOMAIN w = 1 .. 4 /\ w[1] = v /\ w[2] = Source(1) /\ w[3] = Source(2) /\ w[4] = Source(3)
  <2> DEFINE one == <<v>>  X == {v}  Y == {Source(i) : i \in 1 .. 3}
  <2>1. one \in Seq(X) /\ Len(one) = 1 /\ one[1] = v
    OBVIOUS
  <2>2. r \in Seq(Y) /\ Len(r) = 3 /\ \A i \in 1 .. 3 : r[i] = Source(i)
    BY <1>1
  <2>3. w = one \o r
    OBVIOUS
  <2> HIDE DEF one, X, Y, r, w
  <2>4. /\ one \o r \in Seq(X \cup Y) /\ Len(one \o r) = Len(one) + Len(r)
        /\ \A k \in 1 .. Len(one) : (one \o r)[k] = one[k]
        /\ \A k \in Len(one) + 1 .. Len(one) + Len(r) : (one \o r)[k] = r[k - Len(one)]
    <3> HIDE DEF q, Copy
    <3>1. one \in Seq(X) /\ r \in Seq(Y)
      BY <2>1, <2>2
    <3>2. QED BY <3>1, Concatenated
  <2>5. w \in Seq(X \cup Y) /\ Len(w) = 4 /\ w[1] = one[1] /\ \A k \in 2 .. 4 : w[k] = r[k - 1]
    BY <2>1, <2>2, <2>3, <2>4
  <2>6. w[2] = r[1] /\ w[3] = r[2] /\ w[4] = r[3]
    BY <2>5
  <2>7. QED BY <2>1, <2>2, <2>5, <2>6
<1> HIDE DEF w
<1>7. \A m : Effect(m, q, "none") = One(One(One(m, Copy(1), "none"), Copy(2), "none"), Copy(3), "none")
  <2> HIDE DEF Copy
  <2>1. Len(q) = 3 /\ q[1] = Copy(1) /\ q[2] = Copy(2) /\ q[3] = Copy(3)
    BY <1>1
  <2> HIDE DEF q
  <2>2. QED BY <2>1 DEF Effect
<1> HIDE DEF q
<1>8. \A f : IsMemory(f, sz) => /\ "src" \in DOMAIN f /\ "dst" \in DOMAIN f
                                 /\ DOMAIN f["src"] = 0 .. size - 1 /\ DOMAIN f["dst"] = 0 .. size - 1
  BY <1>1 DEF IsMemory, Names
<1>9. \A i \in 1 .. 3, x \in 0 .. n - 1 : Chunk(i) + x \in 0 .. size - 1 /\ (Chunk(i) + x) - Chunk(i) = x
  BY <1>1, <1>2
<1>10. \A i, j \in 1 .. 3 : i # j => \A x \in 0 .. n - 1 : Chunk(i) + x \notin Chunk(j) .. Chunk(j) + n - 1
  BY <1>1, <1>2
<1>11. \A i \in 1 .. 3 : Chunk(i) \in Nat
  BY <1>1, <1>2
<1>12. ASSUME NEW m, IsMemory(m, sz)
       PROVE  Satisfied(Effect(Written(m, w), q, "none"), {Result(i) : i \in 1 .. kNumChunks})
  <2> DEFINE b == Written(m, w)  d1 == One(b, Copy(1), "none")  d2 == One(d1, Copy(2), "none")  d3 == One(d2, Copy(3), "none")
  <2>1. IsMemory(b, sz)
    BY <1>12, WrittenIsMemory
  <2>2. ASSUME NEW i \in 1 .. 3, NEW x \in 0 .. n - 1 PROVE b["src"][Chunk(i) + x] = P(i)[x]
    <3> DEFINE at == Chunk(i) + x  k == i + 1
    <3>1. at \in 0 .. size - 1 /\ at - Chunk(i) = x /\ k \in 1 .. Len(w) /\ w[k] = Source(i) /\ Len(w) \in Nat /\ DOMAIN w = 1 .. Len(w)
      BY <1>6, <1>9
    <3>2. \A j \in 1 .. 3 : j # i => at \notin Chunk(j) .. Chunk(j) + n - 1
      BY <1>10
    <3>3. Chunk(1) \in Int /\ Chunk(2) \in Int /\ Chunk(3) \in Int /\ at \in Int
      BY <1>1, <1>2
    <3> HIDE DEF at
    <3>4. Covers(w[k], "src", at)
      BY <1>3, <3>1 DEF Covers
    <3>5. \A j \in 1 .. 3 : j # i => ~Covers(Source(j), "src", at)
      <4> SUFFICES ASSUME NEW j \in 1 .. 3, j # i, at - Chunk(j) \in 0 .. n - 1 PROVE FALSE
        BY <1>3 DEF Covers
      <4>1. Chunk(j) \in Int
        BY <1>11
      <4>2. at \in Chunk(j) .. Chunk(j) + n - 1
        BY <1>1, <3>3, <4>1
      <4>3. QED BY <3>2, <4>2
    <3>6. \A j \in 1 .. Len(w) : j # k => ~Covers(w[j], "src", at)
      <4>1. ~Covers(w[1], "src", at)
        BY <1>5, <1>6 DEF Covers
      <4>2. \A j \in 1 .. 3 : j # i => ~Covers(w[j + 1], "src", at)
        BY <1>6, <3>5
      <4>3. \A j \in 1 .. Len(w) : j = 1 \/ (j - 1 \in 1 .. 3 /\ j = (j - 1) + 1)
        BY <1>6
      <4>4. QED BY <4>1, <4>2, <4>3
    <3> HIDE DEF k
    <3>7. "src" \in DOMAIN m /\ at \in DOMAIN m["src"]
      BY <1>8, <1>12, <3>1
    <3>8. b["src"][at] = w[k].bytes[at - w[k].at]
      BY <3>1, <3>4, <3>6, <3>7, WrittenOnce
    <3>9. QED BY <1>3, <3>1, <3>8 DEF at
  <2> HIDE DEF b
  <2>3. "src" \in Names /\ "dst" \in Names
    BY DEF Names
  <2>4. \A f : \A i \in 1 .. 3 : IsMemory(f, sz) =>
           IsMemory(One(f, Copy(i), "none"), sz) /\ Moved(One(f, Copy(i), "none"), f, "dst", Chunk(i), "src", Chunk(i), n)
    <3> SUFFICES ASSUME NEW f, NEW i \in 1 .. 3, IsMemory(f, sz)
                 PROVE  IsMemory(One(f, Copy(i), "none"), sz) /\ Moved(One(f, Copy(i), "none"), f, "dst", Chunk(i), "src", Chunk(i), n)
      OBVIOUS
    <3>1. Chunk(i) \in Nat
      BY <1>11
    <3>2. QED BY <1>1, <2>3, <3>1, LinearCopied
  <2> HIDE DEF Copy
  <2>5. IsMemory(d1, sz) /\ Moved(d1, b, "dst", Chunk(1), "src", Chunk(1), n)
    BY <2>1, <2>4
  <2> HIDE DEF d1
  <2>6. IsMemory(d2, sz) /\ Moved(d2, d1, "dst", Chunk(2), "src", Chunk(2), n)
    BY <2>4, <2>5
  <2> HIDE DEF d2
  <2>7. IsMemory(d3, sz) /\ Moved(d3, d2, "dst", Chunk(3), "src", Chunk(3), n)
    BY <2>4, <2>6
  <2> HIDE DEF d3
  <2>8. \A i \in 1 .. 3, x \in 0 .. n - 1 :
           /\ Chunk(i) + x \in DOMAIN b["src"] /\ Chunk(i) + x \in DOMAIN b["dst"]
           /\ Chunk(i) + x \in DOMAIN d1["src"] /\ Chunk(i) + x \in DOMAIN d1["dst"]
           /\ Chunk(i) + x \in DOMAIN d2["src"] /\ Chunk(i) + x \in DOMAIN d2["dst"]
    BY <1>8, <1>9, <2>1, <2>5, <2>6
  <2>9. d1["src"] = b["src"] /\ d2["src"] = b["src"]
    BY <2>3, <2>5, <2>6 DEF Moved
  <2>10. ASSUME NEW x \in 0 .. n - 1
         PROVE  /\ d3["dst"][Chunk(1) + x] = P(1)[x] /\ d3["dst"][Chunk(2) + x] = P(2)[x]
                /\ d3["dst"][Chunk(3) + x] = P(3)[x]
    <3>1. d1["dst"][Chunk(1) + x] = P(1)[x]
      BY <2>2, <2>5, <2>8 DEF Moved
    <3>2. d2["dst"][Chunk(1) + x] = d1["dst"][Chunk(1) + x]
      BY <1>10, <2>6, <2>8 DEF Moved
    <3>3. d3["dst"][Chunk(1) + x] = d2["dst"][Chunk(1) + x]
      BY <1>10, <2>7, <2>8 DEF Moved
    <3>4. d2["dst"][Chunk(2) + x] = P(2)[x]
      BY <2>2, <2>6, <2>8, <2>9 DEF Moved
    <3>5. d3["dst"][Chunk(2) + x] = d2["dst"][Chunk(2) + x]
      BY <1>10, <2>7, <2>8 DEF Moved
    <3>6. d3["dst"][Chunk(3) + x] = P(3)[x]
      BY <2>2, <2>7, <2>8, <2>9 DEF Moved
    <3>7. QED BY <3>1, <3>2, <3>3, <3>4, <3>5, <3>6
  <2>11. \A i \in 1 .. 3 : Holds(d3, Result(i))
    <3>1. \A i \in 1 .. 3, x \in 0 .. n - 1 : d3["dst"][Chunk(i) + x] = P(i)[x]
      <4>1. \A i \in 1 .. 3 : i = 1 \/ i = 2 \/ i = 3
        OBVIOUS
      <4>2. QED BY <2>10, <4>1
    <3>2. QED BY <1>4, <3>1
  <2>12. Effect(b, q, "none") = d3
    BY <1>7 DEF d3, d2, d1
  <2>13. QED BY <1>1, <2>11, <2>12 DEF Satisfied, b
<1>13. Passes(w, q, {Result(i) : i \in 1 .. kNumChunks}, sz)
  BY <1>12 DEF Passes
<1>14. QED BY <1>13 DEF w, r, v, Source, q, Copy, Result, Chunk, sz, size, n
-----------------------------------------------------------------------------
(* Tests that pass *)

\* Instruction k of a part s, of a test on buffers of these sizes, and what is
\* before and after it: what is compared has been copied from what was written
\* just before, and has been awaited.
Proper(s, k, sz) ==
    LET x == s[k] IN
    /\ x.op = "prepare" =>
          \/ k + 2 <= Len(s) /\ s[k + 1].op = "copy"
             /\ (s[k + 2].op = "check" => Passes(x.writes, <<s[k + 1].transfer>>, s[k + 2].conditions, sz))
          \/ k + 3 <= Len(s) /\ s[k + 1].op = "push" /\ s[k + 2].op = "busy_wait"
             /\ (s[k + 3].op = "check" => Passes(x.writes, s[k + 1].commands, s[k + 3].conditions, sz))
    /\ x.op = "copy" => k + 1 <= Len(s) /\ (s[k + 1].op = "check" => k > 1 /\ s[k - 1].op = "prepare")
    /\ x.op = "push" => /\ k + 2 <= Len(s) /\ s[k + 1].op = "busy_wait" /\ k > 1 /\ s[k - 1].op = "prepare"
                        /\ Len(x.commands) \in 1 .. 3
                        /\ \A j \in 1 .. Len(x.commands) : x.commands[j].cmd = "transfer"
    /\ x.op = "busy_wait" => k > 1 /\ s[k - 1].op = "push" /\ k + 1 <= Len(s)
    /\ x.op = "check" => k > 1 /\ s[k - 1].op \in {"copy", "busy_wait"}
    /\ x.op = "record" => k > 1 /\ s[k - 1].op = "copy" /\ x.condition = "written"
    /\ x.op # "dump"

IsBlock(s, sz) == IsSequence(s) /\ \A k \in 1 .. Len(s) : Proper(s, k, sz)

\* The sizes of a test's buffers.
Sizes(p) == p[AllocatesAt(p)].sizes

\* A test all of whose instructions are so.
IsProper(p) == \A k \in AllocatesAt(p) + 1 .. Len(p) - 1 : Proper(p, k, Sizes(p))

\* It is the same wherever the part is.
LEMMA Shifted ==
  ASSUME NEW s, Len(s) \in Nat, NEW p, Len(p) \in Nat, NEW o \in Nat, o + Len(s) <= Len(p),
         \A i \in 1 .. Len(s) : p[i + o] = s[i], NEW sz, NEW j \in 1 .. Len(s), Proper(s, j, sz)
  PROVE  Proper(p, j + o, sz)
<1> DEFINE k == j + o
<1>1. p[k] = s[j] /\ k \in Nat /\ j \in Nat /\ k + 1 = (j + 1) + o /\ k + 2 = (j + 2) + o /\ k + 3 = (j + 3) + o
      /\ k - 1 = (j - 1) + o
  OBVIOUS
<1>2. /\ j + 1 <= Len(s) => p[k + 1] = s[j + 1] /\ k + 1 <= Len(p)
      /\ j + 2 <= Len(s) => p[k + 2] = s[j + 2] /\ k + 2 <= Len(p)
      /\ j + 3 <= Len(s) => p[k + 3] = s[j + 3] /\ k + 3 <= Len(p)
      /\ j > 1 => p[k - 1] = s[j - 1] /\ k > 1
  OBVIOUS
<1> HIDE DEF k
<1>3. Len(s) \in Nat /\ Proper(s, j, sz)
  OBVIOUS
<1> DEFINE x == s[j]
<1>4. x = s[j] /\ p[k] = x /\ Len(s) <= Len(p) /\ Len(p) \in Nat
  BY <1>1
<1> HIDE DEF x
<1>5. x.op = "prepare" =>
          \/ k + 2 <= Len(p) /\ p[k + 1].op = "copy"
             /\ (p[k + 2].op = "check" => Passes(x.writes, <<p[k + 1].transfer>>, p[k + 2].conditions, sz))
          \/ k + 3 <= Len(p) /\ p[k + 1].op = "push" /\ p[k + 2].op = "busy_wait"
             /\ (p[k + 3].op = "check" => Passes(x.writes, p[k + 1].commands, p[k + 3].conditions, sz))
  <2>1. CASE j + 2 <= Len(s) /\ s[j + 1].op = "copy"
             /\ (s[j + 2].op = "check" => Passes(x.writes, <<s[j + 1].transfer>>, s[j + 2].conditions, sz))
    <3>1. p[k + 1] = s[j + 1] /\ p[k + 2] = s[j + 2] /\ k + 2 <= Len(p)
      BY <1>1, <1>2, <1>3, <2>1
    <3>2. QED BY <2>1, <3>1
  <2>2. CASE j + 3 <= Len(s) /\ s[j + 1].op = "push" /\ s[j + 2].op = "busy_wait"
             /\ (s[j + 3].op = "check" => Passes(x.writes, s[j + 1].commands, s[j + 3].conditions, sz))
    <3>1. p[k + 1] = s[j + 1] /\ p[k + 2] = s[j + 2] /\ p[k + 3] = s[j + 3] /\ k + 3 <= Len(p)
      BY <1>1, <1>2, <1>3, <2>2
    <3>2. QED BY <2>2, <3>1
  <2>3. QED BY <1>3, <1>4, <2>1, <2>2 DEF Proper
<1>6. x.op = "copy" => k + 1 <= Len(p) /\ (p[k + 1].op = "check" => k > 1 /\ p[k - 1].op = "prepare")
  BY <1>1, <1>2, <1>3, <1>4 DEF Proper
<1>7. x.op = "push" => /\ k + 2 <= Len(p) /\ p[k + 1].op = "busy_wait" /\ k > 1 /\ p[k - 1].op = "prepare"
                       /\ Len(x.commands) \in 1 .. 3
                       /\ \A i \in 1 .. Len(x.commands) : x.commands[i].cmd = "transfer"
  <2>1. x.op = "push" => j + 2 <= Len(s) /\ s[j + 1].op = "busy_wait" /\ j > 1 /\ s[j - 1].op = "prepare"
    BY <1>3, <1>4 DEF Proper
  <2>2. x.op = "push" => /\ Len(x.commands) \in 1 .. 3
                         /\ \A i \in 1 .. Len(x.commands) : x.commands[i].cmd = "transfer"
    BY <1>3, <1>4 DEF Proper
  <2>3. ASSUME x.op = "push"
        PROVE  k + 2 <= Len(p) /\ p[k + 1].op = "busy_wait" /\ k > 1 /\ p[k - 1].op = "prepare"
    <3>1. k + 2 <= Len(p)
      BY <1>2, <2>1, <2>3
    <3>2. p[k + 1] = s[j + 1] /\ p[k - 1] = s[j - 1] /\ k > 1
      BY <1>2, <1>3, <2>1, <2>3
    <3>3. QED BY <2>1, <2>3, <3>1, <3>2
  <2>4. QED BY <2>2, <2>3
<1>8. /\ x.op = "busy_wait" => k > 1 /\ p[k - 1].op = "push" /\ k + 1 <= Len(p)
      /\ x.op = "check" => k > 1 /\ p[k - 1].op \in {"copy", "busy_wait"}
      /\ x.op = "record" => k > 1 /\ p[k - 1].op = "copy" /\ x.condition = "written"
      /\ x.op # "dump"
  BY <1>1, <1>2, <1>3, <1>4 DEF Proper
<1>9. Proper(p, k, sz)
  BY <1>4, <1>5, <1>6, <1>7, <1>8 DEF Proper
<1>10. QED BY <1>9 DEF k

\* Blocks one after the other are a block.
LEMMA BlocksInTurn ==
  ASSUME NEW sz, NEW s, NEW t, IsBlock(s, sz), IsBlock(t, sz)
  PROVE  IsBlock(s \o t, sz)
<1>1. PICK S : s \in Seq(S)
  BY DEF IsBlock, IsSequence
<1>2. PICK T : t \in Seq(T)
  BY DEF IsBlock, IsSequence
<1> DEFINE c == s \o t  n == Len(s)
<1>3. /\ c \in Seq(S \cup T) /\ n \in Nat /\ Len(t) \in Nat /\ Len(c) = n + Len(t)
      /\ \A k \in 1 .. n : c[k] = s[k]
      /\ \A k \in n + 1 .. n + Len(t) : c[k] = t[k - n]
  BY <1>1, <1>2, Concatenated, SMTT(20)
<1> HIDE DEF c
<1>4. ASSUME NEW k \in 1 .. n PROVE Proper(c, k, sz)
  <2>1. Proper(s, k, sz)
    BY <1>4 DEF IsBlock
  <2>2. \A i \in 1 .. Len(s) : i + 0 = i
    BY <1>3
  <2>3. Len(s) \in Nat /\ Len(c) \in Nat /\ 0 \in Nat /\ 0 + Len(s) <= Len(c) /\ \A i \in 1 .. Len(s) : c[i + 0] = s[i]
    BY <1>3, <2>2
  <2>4. k \in 1 .. Len(s) /\ k + 0 = k
    BY <2>2
  <2> HIDE DEF n
  <2>5. Proper(c, k + 0, sz)
    BY <2>1, <2>3, <2>4, Shifted
  <2>6. QED BY <2>4, <2>5
<1>5. ASSUME NEW k \in n + 1 .. n + Len(t) PROVE Proper(c, k, sz)
  <2> DEFINE j == k - n
  <2>1. j \in 1 .. Len(t) /\ k = j + n
    BY <1>3
  <2>2. Proper(t, j, sz)
    BY <2>1 DEF IsBlock
  <2>3. \A i \in 1 .. Len(t) : i + n \in n + 1 .. n + Len(t) /\ (i + n) - n = i
    BY <1>3
  <2> HIDE DEF j, n
  <2>4. n \in Nat /\ Len(c) \in Nat /\ n + Len(t) <= Len(c) /\ \A i \in 1 .. Len(t) : c[i + n] = t[i]
    BY <1>3, <2>3
  <2>5. Proper(c, j + n, sz)
    BY <1>3, <2>1, <2>2, <2>4, Shifted
  <2>6. QED BY <2>1, <2>5
<1>6. \A k \in 1 .. Len(c) : k \in 1 .. n \/ k \in n + 1 .. n + Len(t)
  BY <1>3
<1>7. IsSequence(c)
  BY <1>3 DEF IsSequence
<1>8. QED BY <1>4, <1>5, <1>6, <1>7 DEF IsBlock, c

\* Three or four instructions in turn.
LEMMA InTurn ==
  ASSUME NEW x, NEW y, NEW z
  PROVE  /\ LET s == <<x>> \o <<y>> \o <<z>> IN
            IsSequence(s) /\ Len(s) = 3 /\ s[1] = x /\ s[2] = y /\ s[3] = z
         /\ \A v : LET s == <<x>> \o <<y, v>> \o <<z>> IN
                  IsSequence(s) /\ Len(s) = 4 /\ s[1] = x /\ s[2] = y /\ s[3] = v /\ s[4] = z
<1> DEFINE a == <<x>>  d == <<z>>  X == {x}  Z == {z}
<1>1. a \in Seq(X) /\ Len(a) = 1 /\ a[1] = x /\ d \in Seq(Z) /\ Len(d) = 1 /\ d[1] = z
  OBVIOUS
<1> HIDE DEF a, d, X, Z
<1>2. ASSUME NEW Y, NEW b \in Seq(Y)
      PROVE  LET s == a \o b \o d IN
             /\ IsSequence(s) /\ Len(s) = 2 + Len(b) /\ s[1] = x /\ s[2 + Len(b)] = z /\ Len(b) \in Nat
             /\ \A k \in 2 .. 1 + Len(b) : s[k] = b[k - 1]
  <2> DEFINE c == a \o b  C == X \cup Y  s == c \o d
  <2>1. /\ c \in Seq(C) /\ Len(b) \in Nat /\ Len(c) = 1 + Len(b)
        /\ \A k \in 1 .. 1 : c[k] = a[k]
        /\ \A k \in 1 + 1 .. 1 + Len(b) : c[k] = b[k - 1]
    <3> HIDE DEF s, C
    <3>1. /\ c \in Seq(X \cup Y) /\ Len(b) \in Nat /\ Len(c) = Len(a) + Len(b)
          /\ \A k \in 1 .. Len(a) : c[k] = a[k]
          /\ \A k \in Len(a) + 1 .. Len(a) + Len(b) : c[k] = b[k - Len(a)]
      <4>1. a \in Seq(X) /\ b \in Seq(Y)
        BY <1>1
      <4>2. QED BY <4>1, Concatenated, SMTT(40)
    <3> HIDE DEF c
    <3>2. QED BY <1>1, <3>1 DEF C
  <2> HIDE DEF c, C
  <2>2. /\ s \in Seq(C \cup Z) /\ Len(s) = Len(c) + 1
        /\ \A k \in 1 .. Len(c) : s[k] = c[k]
        /\ \A k \in Len(c) + 1 .. Len(c) + 1 : s[k] = d[k - Len(c)]
    <3>1. /\ s \in Seq(C \cup Z) /\ Len(s) = Len(c) + Len(d)
          /\ \A k \in 1 .. Len(c) : s[k] = c[k]
          /\ \A k \in Len(c) + 1 .. Len(c) + Len(d) : s[k] = d[k - Len(c)]
      <4>1. c \in Seq(C) /\ d \in Seq(Z)
        BY <1>1, <2>1
      <4>2. QED BY <4>1, Concatenated, SMTT(40)
    <3> HIDE DEF s
    <3>2. QED BY <1>1, <3>1
  <2> HIDE DEF s
  <2>3. IsSequence(s)
    BY <2>2 DEF IsSequence
  <2>4. s[1] = x /\ Len(s) = 2 + Len(b) /\ \A k \in 2 .. 1 + Len(b) : s[k] = b[k - 1]
    BY <1>1, <2>1, <2>2
  <2>5. s[2 + Len(b)] = z
    BY <1>1, <2>1, <2>2
  <2>6. QED BY <2>1, <2>3, <2>4, <2>5 DEF s, c
<1>3. LET s == a \o <<y>> \o d IN IsSequence(s) /\ Len(s) = 3 /\ s[1] = x /\ s[2] = y /\ s[3] = z
  <2> DEFINE b == <<y>>  Y == {y}  s == a \o b \o d
  <2>1. b \in Seq(Y) /\ Len(b) = 1 /\ b[1] = y
    OBVIOUS
  <2> HIDE DEF b, Y
  <2>2. IsSequence(s) /\ Len(s) = 2 + Len(b) /\ s[1] = x /\ s[2 + Len(b)] = z /\ \A k \in 2 .. 1 + Len(b) : s[k] = b[k - 1]
    BY <1>2, <2>1
  <2> HIDE DEF s
  <2>3. IsSequence(s) /\ Len(s) = 3 /\ s[1] = x /\ s[2] = y /\ s[3] = z
    BY <2>1, <2>2
  <2>4. QED BY <2>3 DEF s, b
<1>4. ASSUME NEW v
      PROVE  LET s == a \o <<y, v>> \o d IN IsSequence(s) /\ Len(s) = 4 /\ s[1] = x /\ s[2] = y /\ s[3] = v /\ s[4] = z
  <2> DEFINE b == <<y, v>>  Y == {y, v}  s == a \o b \o d
  <2>1. b \in Seq(Y) /\ Len(b) = 2 /\ b[1] = y /\ b[2] = v
    OBVIOUS
  <2> HIDE DEF b, Y
  <2>2. IsSequence(s) /\ Len(s) = 2 + Len(b) /\ s[1] = x /\ s[2 + Len(b)] = z /\ \A k \in 2 .. 1 + Len(b) : s[k] = b[k - 1]
    BY <1>2, <2>1
  <2> HIDE DEF s
  <2>3. IsSequence(s) /\ Len(s) = 4 /\ s[1] = x /\ s[2] = y /\ s[3] = v /\ s[4] = z
    BY <2>1, <2>2
  <2>4. QED BY <2>3 DEF s, b
<1>5. QED BY <1>3, <1>4 DEF a, d

\* Write, copy, compare.
LEMMA CheckedBlock ==
  ASSUME NEW sz, NEW w, NEW t, NEW c, Passes(w, <<t>>, c, sz)
  PROVE  IsBlock(Prepare(w) \o GpumCopy(t) \o Check(c), sz)
<1> DEFINE x == [op |-> "prepare", writes |-> w]
           y == [op |-> "copy", transfer |-> t, skip |-> 1]
           z == [op |-> "check", conditions |-> c]
           s == <<x>> \o <<y>> \o <<z>>
<1>1. x.op = "prepare" /\ x.writes = w /\ y.op = "copy" /\ y.transfer = t /\ z.op = "check" /\ z.conditions = c
  OBVIOUS
<1>2. Prepare(w) \o GpumCopy(t) \o Check(c) = s
  BY DEF Prepare, GpumCopy, GpumCopySkipping, Check
<1> HIDE DEF x, y, z
<1>4. IsSequence(s) /\ Len(s) = 3 /\ s[1] = x /\ s[2] = y /\ s[3] = z
  BY InTurn
<1> HIDE DEF s
<1>5. Proper(s, 1, sz) /\ Proper(s, 2, sz) /\ Proper(s, 3, sz)
  BY <1>1, <1>4 DEF Proper
<1>6. \A k \in 1 .. Len(s) : k = 1 \/ k = 2 \/ k = 3
  BY <1>4
<1>7. QED BY <1>2, <1>4, <1>5, <1>6 DEF IsBlock

\* Write, copy, look at the record.
LEMMA RecordedBlock ==
  ASSUME NEW sz, NEW w, NEW t
  PROVE  IsBlock(Prepare(w) \o GpumCopy(t) \o Record("written"), sz)
<1> DEFINE x == [op |-> "prepare", writes |-> w]
           y == [op |-> "copy", transfer |-> t, skip |-> 1]
           z == [op |-> "record", condition |-> "written"]
           s == <<x>> \o <<y>> \o <<z>>
<1>1. x.op = "prepare" /\ x.writes = w /\ y.op = "copy" /\ y.transfer = t /\ z.op = "record" /\ z.condition = "written"
  OBVIOUS
<1>2. Prepare(w) \o GpumCopy(t) \o Record("written") = s
  BY DEF Prepare, GpumCopy, GpumCopySkipping, Record
<1> HIDE DEF x, y, z
<1>4. IsSequence(s) /\ Len(s) = 3 /\ s[1] = x /\ s[2] = y /\ s[3] = z
  BY InTurn
<1> HIDE DEF s
<1>5. Proper(s, 1, sz) /\ Proper(s, 2, sz) /\ Proper(s, 3, sz)
  BY <1>1, <1>4 DEF Proper
<1>6. \A k \in 1 .. Len(s) : k = 1 \/ k = 2 \/ k = 3
  BY <1>4
<1>7. QED BY <1>2, <1>4, <1>5, <1>6 DEF IsBlock

\* Write, push by hand, wait, compare.
LEMMA PushedBlock ==
  ASSUME NEW sz, NEW w, NEW q, NEW c, Passes(w, q, c, sz),
         Len(q) \in 1 .. 3, \A j \in 1 .. Len(q) : q[j].cmd = "transfer"
  PROVE  IsBlock(Prepare(w) \o Push(q) \o Check(c), sz)
<1> DEFINE x == [op |-> "prepare", writes |-> w]
           y == [op |-> "push", commands |-> q]
           v == [op |-> "busy_wait"]
           z == [op |-> "check", conditions |-> c]
           s == <<x>> \o <<y, v>> \o <<z>>
<1>1. /\ x.op = "prepare" /\ x.writes = w /\ y.op = "push" /\ y.commands = q /\ v.op = "busy_wait"
      /\ z.op = "check" /\ z.conditions = c
  OBVIOUS
<1>2. Prepare(w) \o Push(q) \o Check(c) = s
  BY DEF Prepare, Push, Check
<1> HIDE DEF x, y, v, z
<1>4. IsSequence(s) /\ Len(s) = 4 /\ s[1] = x /\ s[2] = y /\ s[3] = v /\ s[4] = z
  BY InTurn
<1> HIDE DEF s
<1>5. Proper(s, 1, sz)
  BY <1>1, <1>4 DEF Proper
<1>6. Proper(s, 2, sz)
  BY <1>1, <1>4 DEF Proper
<1>7. Proper(s, 3, sz) /\ Proper(s, 4, sz)
  BY <1>1, <1>4 DEF Proper
<1>8. \A k \in 1 .. Len(s) : k = 1 \/ k = 2 \/ k = 3 \/ k = 4
  BY <1>4
<1>9. QED BY <1>2, <1>4, <1>5, <1>6, <1>7, <1>8 DEF IsBlock

\* A block between the allocations and the frees makes a test all of whose
\* instructions are so.
LEMMA EnclosedBlock ==
  ASSUME NEW front, IsSequence(front), Len(front) \in {2, 3},
         front[Len(front)].op = "allocate", Len(front) = 3 => front[2].op = "framebuffer",
         NEW body, IsBlock(body, front[Len(front)].sizes)
  PROVE  LET p == front \o body \o <<[op |-> "free"]>> IN IsProper(p) /\ Sizes(p) = front[Len(front)].sizes
<1> DEFINE p == front \o body \o <<[op |-> "free"]>>  a == Len(front)  sz == front[a].sizes
<1>1. Encloses(p, front, body)
  <2>1. IsSequence(body)
    BY DEF IsBlock
  <2>2. QED BY <2>1, EnclosedAt
<1> HIDE DEF p
<1>2. /\ a \in {2, 3} /\ Len(p) = a + Len(body) + 1 /\ Len(body) \in Nat /\ Len(p) \in Nat
      /\ \A k \in 1 .. a : p[k] = front[k]
      /\ \A k \in 1 .. Len(body) : p[k + a] = body[k]
      /\ AllocatesAt(p) = a
  BY <1>1 DEF Encloses
<1>3. \A k \in 1 .. Len(body) : Proper(body, k, sz)
  BY DEF IsBlock
<1>4. Sizes(p) = sz
  <2>1. p[a] = front[a]
    <3>1. a \in 1 .. a
      BY <1>2
    <3> HIDE DEF a
    <3>2. QED BY <1>2, <3>1
  <2> HIDE DEF a
  <2>2. QED BY <1>2, <2>1 DEF Sizes
<1> HIDE DEF sz, a
<1>5. ASSUME NEW k \in a + 1 .. Len(p) - 1 PROVE Proper(p, k, sz)
  <2> DEFINE j == k - a
  <2>1. j \in 1 .. Len(body) /\ k = j + a /\ a \in Nat /\ a + Len(body) <= Len(p)
    BY <1>2
  <2> HIDE DEF j
  <2>2. Proper(p, j + a, sz)
    BY <1>2, <1>3, <2>1, Shifted
  <2>3. QED BY <2>1, <2>2
<1>6. IsProper(p) /\ Sizes(p) = sz
  BY <1>2, <1>4, <1>5 DEF IsProper
<1>7. QED BY <1>6 DEF p, sz, a

\* So a test on buffers of these sizes.
LEMMA MadeProper ==
  ASSUME NEW sizes_, NEW body, IsBlock(body, sizes_)
  PROVE  LET p == TestOn(sizes_, body) IN IsProper(p) /\ Sizes(p) = sizes_
<1> DEFINE x == [op |-> "init"]
           y == [op |-> "allocate", sizes |-> sizes_]
           front == <<x, y>>
           p == front \o body \o <<[op |-> "free"]>>
<1>1. y.op = "allocate" /\ y.sizes = sizes_
  OBVIOUS
<1>2. TestOn(sizes_, body) = p
  BY DEF TestOn
<1> HIDE DEF x, y
<1>3. front \in Seq({x, y}) /\ Len(front) = 2 /\ front[Len(front)] = y
  OBVIOUS
<1> HIDE DEF front
<1>4. IsSequence(front) /\ Len(front) \in {2, 3} /\ (Len(front) = 3 => front[2].op = "framebuffer")
  BY <1>3 DEF IsSequence
<1>5. front[Len(front)].op = "allocate" /\ front[Len(front)].sizes = sizes_
  BY <1>1, <1>3
<1>6. IsProper(p) /\ Sizes(p) = sizes_
  BY <1>4, <1>5, EnclosedBlock
<1>7. QED BY <1>2, <1>6

\* A test that passes on a GPU that works: it has names for its buffers, and all
\* its instructions are so.
Passing(p) == IsProper(p) /\ DOMAIN Sizes(p) \subseteq Names \ {"framebuffer"}

\* On two buffers.
LEMMA PassingOnTwo ==
  ASSUME NEW n, NEW body, IsBlock(body, Two(n))
  PROVE  Passing(TestOn(Two(n), body))
<1>1. DOMAIN Two(n) \subseteq Names \ {"framebuffer"}
  BY DEF Two, Names
<1>2. QED BY <1>1, MadeProper DEF Passing

\* A copy compared with a pattern,
LEMMA WholeBlock ==
  ASSUME NEW size_, size_ \in Nat, NEW t, NEW size \in Nat, Transcribes(t, size), NEW filler, NEW seed,
         t.do + size + kCanarySize <= size_, t.so + size <= size_
  PROVE  IsBlock(Whole(t, size, filler, seed), Two(size_))
BY WholePasses, CheckedBlock DEF Whole

\* from wherever to wherever there is room for it,
LEMMA UnalignedBlock ==
  ASSUME NEW s_off \in Nat, NEW d_off \in Nat, NEW size \in Nat, NEW room \in Nat,
         d_off + size <= room, s_off + size <= room, NEW filler, NEW seed
  PROVE  IsBlock(Whole(Unaligned(s_off, d_off, size), size, filler, seed), Two(Span(room)))
<1> DEFINE t == Unaligned(s_off, d_off, size)
<1>1. kCanarySize + d_off \in Nat /\ kCanarySize + s_off \in Nat /\ Span(room) \in Nat /\ Span(room) = room + 2 * kCanarySize
      /\ (kCanarySize + d_off) + size + kCanarySize <= Span(room) /\ (kCanarySize + s_off) + size <= Span(room)
  BY Units DEF Span
<1>2. Transcribes(t, size) /\ t.do = kCanarySize + d_off /\ t.so = kCanarySize + s_off
  <2> DEFINE do == kCanarySize + d_off  so == kCanarySize + s_off
  <2>1. do \in Nat /\ so \in Nat /\ t = Linear("dst", do, "src", so, size)
    BY <1>1 DEF Unaligned
  <2> HIDE DEF t, do, so
  <2>2. Transcribes(t, size) /\ t.do = do /\ t.so = so
    BY <2>1, LinearTranscribes
  <2>3. QED BY <2>2 DEF do, so
<1> HIDE DEF t
<1>3. IsBlock(Whole(t, size, filler, seed), Two(Span(room)))
  BY <1>1, <1>2, WholeBlock
<1>4. QED BY <1>3 DEF t

\* and lines compared with the source.
LEMMA RowsBlock ==
  ASSUME NEW len \in Nat, NEW lines \in Nat, NEW pitch_in \in Nat, NEW pitch_out \in Nat, NEW seed,
         len <= pitch_in, len <= pitch_out, NEW room \in Nat, pitch_out * lines <= room, pitch_in * lines <= room
  PROVE  IsBlock(Rows(RowsOf(len, lines, pitch_in, pitch_out), seed), Two(Span(room)))
<1> DEFINE a == pitch_out * lines  b == pitch_in * lines
<1>1. a \in Nat /\ b \in Nat /\ a <= room /\ b <= room
  OBVIOUS
<1> HIDE DEF a, b
<1>2. kCanarySize + a + kCanarySize <= Span(room) /\ kCanarySize + b <= Span(room) /\ Span(room) \in Nat
  BY <1>1, Units DEF Span
<1>3. kCanarySize + pitch_out * lines + kCanarySize <= Span(room) /\ kCanarySize + pitch_in * lines <= Span(room)
  BY <1>2 DEF a, b
<1> DEFINE t == RowsOf(len, lines, pitch_in, pitch_out)
<1>4. Passes(Around(t.do, t.pitch_out * t.lines, 238) \o <<Fill("src", t.so, t.pitch_in * t.lines, seed)>>, <<t>>,
             Lines(t) \cup Gaps(t, 238) \cup Guards(t.do, t.pitch_out * t.lines), Two(Span(room)))
  BY <1>2, <1>3, RowsPass
<1> HIDE DEF t
<1>5. IsBlock(Rows(t, seed), Two(Span(room)))
  BY <1>4, CheckedBlock DEF Rows
<1>6. QED BY <1>5 DEF t

\* Odd sizes, and places of each kind.
LEMMA AlignmentsPass == Passing(TestM2MFAlignmentOddSizes) /\ Passing(TestM2MFAlignmentPhases)
<1>1. Passing(TestM2MFAlignmentOddSizes)
  <2> DEFINE sz == Two(Span(10))
             A == Whole(Unaligned(0, 0, 1), 1, 204, 154)
             B == Whole(Unaligned(3, 1, 5), 5, 204, 158)
             C == Whole(Unaligned(1, 3, 7), 7, 204, 156)
  <2>1. Span(7) + 3 = Span(10)
    BY Units DEF Span
  <2>2. IsBlock(A, sz)
    BY UnalignedBlock
  <2>3. IsBlock(B, sz)
    BY UnalignedBlock
  <2>4. IsBlock(C, sz)
    BY UnalignedBlock
  <2>5. TestM2MFAlignmentOddSizes = TestOn(Two(Span(10)), A \o B \o C)
    BY <2>1 DEF TestM2MFAlignmentOddSizes
  <2> HIDE DEF A, B, C
  <2>6. IsBlock(A \o B \o C, sz)
    BY <2>2, <2>3, <2>4, BlocksInTurn
  <2> HIDE DEF sz
  <2>7. QED BY <2>5, <2>6, PassingOnTwo DEF sz
<1>2. Passing(TestM2MFAlignmentPhases)
  <2> DEFINE sz == Two(Span(8))
             A(s_off, d_off) == Whole(Unaligned(s_off, d_off, 7), 7, 204, 16 * s_off + d_off)
  <2>1. Span(7) + 1 = Span(8)
    BY Units DEF Span
  <2>2. \A s_off, d_off \in {0, 1} : IsBlock(A(s_off, d_off), sz)
    <3> TAKE s_off, d_off \in {0, 1}
    <3>1. s_off \in Nat /\ d_off \in Nat /\ d_off + 7 <= 8 /\ s_off + 7 <= 8 /\ 7 \in Nat /\ 8 \in Nat
      OBVIOUS
    <3>2. QED BY <3>1, UnalignedBlock
  <2>3. TestM2MFAlignmentPhases = TestOn(Two(Span(8)), A(0, 0) \o A(0, 1) \o A(1, 0) \o A(1, 1))
    BY <2>1 DEF TestM2MFAlignmentPhases
  <2>4. IsBlock(A(0, 0), sz) /\ IsBlock(A(0, 1), sz) /\ IsBlock(A(1, 0), sz) /\ IsBlock(A(1, 1), sz)
    BY <2>2
  <2> HIDE DEF A
  <2>5. IsBlock(A(0, 0) \o A(0, 1) \o A(1, 0) \o A(1, 1), sz)
    BY <2>4, BlocksInTurn
  <2> HIDE DEF sz
  <2>6. QED BY <2>3, <2>5, PassingOnTwo DEF sz
<1>3. QED BY <1>1, <1>2

\* Transfers that wait together.
LEMMA BatchesPass == Passing(TestM2MFBatchingCausalChain) /\ Passing(TestM2MFBatchingIndependent)
<1>1. Passing(TestM2MFBatchingCausalChain)
  <2> DEFINE sz == [buf \in {"a", "b", "c"} |-> kChainSize]
             w == <<Fill("a", 0, kChainSize, 131), Set("b", 0, kChainSize, 17), Set("c", 0, kChainSize, 34)>>
             x == Linear("b", 0, "a", 0, kChainSize)
             y == Linear("c", 0, "b", 0, kChainSize)
             q == <<x, y>>
             c == {Fill("b", 0, kChainSize, 131), Fill("c", 0, kChainSize, 131)}
  <2>1. TestM2MFBatchingCausalChain = TestOn(sz, Prepare(w) \o Push(q) \o Check(c))
    BY DEF TestM2MFBatchingCausalChain
  <2>2. Passes(w, q, c, sz)
    BY BatchingCausalChainPasses
  <2>3. x.cmd = "transfer" /\ y.cmd = "transfer"
    BY Fields DEF Linear, PitchedCopy
  <2>4. DOMAIN sz \subseteq Names \ {"framebuffer"}
    BY DEF Names
  <2> HIDE DEF sz, w, x, y, c
  <2>5. Len(q) \in 1 .. 3 /\ \A j \in 1 .. Len(q) : q[j].cmd = "transfer"
    BY <2>3
  <2> HIDE DEF q
  <2>6. IsBlock(Prepare(w) \o Push(q) \o Check(c), sz)
    BY <2>2, <2>5, PushedBlock
  <2>7. QED BY <2>1, <2>4, <2>6, MadeProper DEF Passing
<1>2. Passing(TestM2MFBatchingIndependent)
  <2> DEFINE Chunk(i) == (i - 1) * kChunkSize
             w == <<Set("dst", 0, kNumChunks * kChunkSize, 204)>>
                      \o [i \in 1 .. kNumChunks |-> Fill("src", Chunk(i), kChunkSize, i + 6)]
             q == [i \in 1 .. kNumChunks |-> Linear("dst", Chunk(i), "src", Chunk(i), kChunkSize)]
             c == {Fill("dst", Chunk(i), kChunkSize, i + 6) : i \in 1 .. kNumChunks}
             n == kNumChunks * kChunkSize
  <2>1. TestM2MFBatchingIndependent = TestOn(Two(n), Prepare(w) \o Push(q) \o Check(c))
    BY DEF TestM2MFBatchingIndependent
  <2>2. Passes(w, q, c, Two(n))
    BY BatchingIndependentPasses
  <2>3. \A i \in 1 .. kNumChunks : q[i].cmd = "transfer"
    BY Fields DEF Linear, PitchedCopy
  <2>4. Len(q) = 3 /\ kNumChunks = 3
    <3> DEFINE L(i) == Linear("dst", Chunk(i), "src", Chunk(i), kChunkSize)
    <3>1. q = [i \in 1 .. 3 |-> L(i)] /\ kNumChunks = 3
      BY DEF kNumChunks
    <3> HIDE DEF q, L
    <3>2. q \in Seq({L(i) : i \in 1 .. 3}) /\ DOMAIN q = 1 .. 3
      BY <3>1
    <3>3. QED BY <3>1, <3>2
  <2> HIDE DEF w, q, c, n
  <2>5. Len(q) \in 1 .. 3 /\ \A j \in 1 .. Len(q) : q[j].cmd = "transfer"
    BY <2>3, <2>4
  <2>6. IsBlock(Prepare(w) \o Push(q) \o Check(c), Two(n))
    BY <2>2, <2>5, PushedBlock
  <2>7. QED BY <2>1, <2>6, PassingOnTwo
<1>3. QED BY <1>1, <1>2

\* Bytes spread out, and gathered.
LEMMA FormatsPass == Passing(TestM2MFFormat)
<1> DEFINE sz == Two(Span(kFormatSpan))
<1>1. ASSUME NEW stride_in \in {1, 2, 4}, NEW stride_out \in {1, 2, 4}, NEW lines \in {1, 2},
             stride_in * lines <= 4, stride_out * lines <= 4
      PROVE  IsBlock(FormatCase(stride_in, stride_out, lines), sz)
  <2>1. IsChecked(FormatCase(stride_in, stride_out, lines), sz)
    BY <1>1, FormatPasses
  <2>2. PICK w, t, c : FormatCase(stride_in, stride_out, lines) = Prepare(w) \o GpumCopy(t) \o Check(c)
                       /\ Passes(w, <<t>>, c, sz)
    BY <2>1 DEF IsChecked
  <2>3. QED BY <2>2, CheckedBlock
<1> DEFINE A == FormatCase(1, 2, 1)  B == FormatCase(1, 2, 2)  C == FormatCase(2, 1, 1)
           D == FormatCase(2, 2, 1)  E == FormatCase(1, 4, 1)  F == FormatCase(4, 2, 1)
<1> HIDE DEF sz
<1>2. IsBlock(A, sz) /\ IsBlock(B, sz) /\ IsBlock(C, sz) /\ IsBlock(D, sz) /\ IsBlock(E, sz) /\ IsBlock(F, sz)
  BY <1>1
<1>3. TestM2MFFormat = TestOn(Two(Span(kFormatSpan)), A \o B \o C \o D \o E \o F)
  BY DEF TestM2MFFormat
<1> HIDE DEF A, B, C, D, E, F
<1>4. IsBlock(A \o B \o C \o D \o E \o F, sz)
  BY <1>2, BlocksInTurn
<1>5. QED BY <1>3, <1>4, PassingOnTwo DEF sz

\* The framebuffer, which the test does not allocate.
LEMMA FramebufferPassing == Passing(TestM2MFFramebuffer)
<1> DEFINE n == 2 * kByteSize
           sz == [src |-> Span(n)]
           front == <<[op |-> "init"], [op |-> "framebuffer"], [op |-> "allocate", sizes |-> [src |-> Span(n)]]>>
           w == <<Fill("src", kCanarySize, n, 119)>>
           t == Linear("framebuffer", 0, "src", kCanarySize, n)
           c == {Fill("framebuffer", 0, n, 119)}
           body == Prepare(w) \o GpumCopy(t) \o Check(c)
           p == front \o body \o <<[op |-> "free"]>>
<1>1. /\ TestM2MFFramebuffer = p /\ IsSequence(front)
      /\ Len(front) = 3 /\ front[2].op = "framebuffer" /\ front[3].op = "allocate" /\ front[3].sizes = sz
  BY FramebufferShape
<1>2. Passes(w, <<t>>, c, sz)
  BY FramebufferPasses
<1>3. DOMAIN sz \subseteq Names \ {"framebuffer"}
  BY DEF Names
<1> HIDE DEF w, t, c, sz, front
<1>4. IsBlock(body, sz)
  BY <1>2, CheckedBlock
<1>5. /\ Len(front) \in {2, 3} /\ front[Len(front)].op = "allocate" /\ IsBlock(body, front[Len(front)].sizes)
      /\ (Len(front) = 3 => front[2].op = "framebuffer")
  BY <1>1, <1>4
<1> HIDE DEF body
<1>6. IsProper(p) /\ Sizes(p) = front[Len(front)].sizes
  BY <1>1, <1>5, EnclosedBlock
<1> HIDE DEF p
<1>7. QED BY <1>1, <1>3, <1>6 DEF Passing

\* Lines with pitches.
LEMMA RowsTestsPass ==
  /\ Passing(TestM2MFLargePitch) /\ Passing(TestM2MFPitchedAsymmetric)
  /\ Passing(TestM2MFPitchedPacking) /\ Passing(TestM2MFPitchedSymmetric)
<1>1. u \in Nat /\ kByteSize = 16 * u /\ kLargePitch = 32 * u
  BY Units DEF kLargePitch
<1>2. Passing(TestM2MFLargePitch)
  <2> DEFINE body == Rows(RowsOf(4 * u, 3, kLargePitch, kLargePitch), 129)
             room == 3 * kLargePitch
  <2>1. 4 * u \in Nat /\ kLargePitch \in Nat /\ 4 * u <= kLargePitch /\ kLargePitch * 3 <= room /\ room \in Nat /\ 3 \in Nat
    BY <1>1
  <2> HIDE DEF room
  <2>2. IsBlock(body, Two(Span(room)))
    BY <2>1, RowsBlock
  <2>3. TestM2MFLargePitch = TestOn(Two(Span(room)), body)
    BY DEF TestM2MFLargePitch, room
  <2> HIDE DEF body
  <2>4. QED BY <2>2, <2>3, PassingOnTwo
<1>3. Passing(TestM2MFPitchedAsymmetric)
  <2> DEFINE A == Rows(RowsOf(2 * u, 3, 16 * u, 4 * u), 0)
             B == Rows(RowsOf(3 * u, 3, 4 * u, 8 * u), 64)
             room == 4 * kByteSize
  <2>1. /\ 2 * u \in Nat /\ 3 * u \in Nat /\ 4 * u \in Nat /\ 8 * u \in Nat /\ 16 * u \in Nat /\ 3 \in Nat /\ room \in Nat
        /\ 2 * u <= 16 * u /\ 2 * u <= 4 * u /\ (4 * u) * 3 <= room /\ (16 * u) * 3 <= room
        /\ 3 * u <= 4 * u /\ 3 * u <= 8 * u /\ (8 * u) * 3 <= room
    BY <1>1
  <2> HIDE DEF room
  <2>2. IsBlock(A, Two(Span(room)))
    BY <2>1, RowsBlock
  <2>3. IsBlock(B, Two(Span(room)))
    BY <2>1, RowsBlock
  <2>4. TestM2MFPitchedAsymmetric = TestOn(Two(Span(room)), A \o B)
    BY DEF TestM2MFPitchedAsymmetric, room
  <2> HIDE DEF A, B
  <2>5. IsBlock(A \o B, Two(Span(room)))
    BY <2>2, <2>3, BlocksInTurn
  <2>6. QED BY <2>4, <2>5, PassingOnTwo
<1>4. Passing(TestM2MFPitchedPacking)
  <2> DEFINE A == Rows(RowsOf(4 * u, 2, 4 * u, 8 * u), 0)
             B == Rows(RowsOf(4 * u, 2, 8 * u, 4 * u), 1)
             room == 2 * kByteSize
  <2>1. /\ 4 * u \in Nat /\ 8 * u \in Nat /\ 2 \in Nat /\ room \in Nat
        /\ 4 * u <= 4 * u /\ 4 * u <= 8 * u /\ (4 * u) * 2 <= room /\ (8 * u) * 2 <= room
    BY <1>1
  <2> HIDE DEF room
  <2>2. IsBlock(A, Two(Span(room)))
    BY <2>1, RowsBlock
  <2>3. IsBlock(B, Two(Span(room)))
    BY <2>1, RowsBlock
  <2>4. TestM2MFPitchedPacking = TestOn(Two(Span(room)), A \o B)
    BY DEF TestM2MFPitchedPacking, room
  <2> HIDE DEF A, B
  <2>5. IsBlock(A \o B, Two(Span(room)))
    BY <2>2, <2>3, BlocksInTurn
  <2>6. QED BY <2>4, <2>5, PassingOnTwo
<1>5. Passing(TestM2MFPitchedSymmetric)
  <2> DEFINE body == Rows(RowsOf(4 * u, 3, 8 * u, 8 * u), 60)
             room == 24 * u
  <2>1. 4 * u \in Nat /\ 8 * u \in Nat /\ 4 * u <= 8 * u /\ (8 * u) * 3 <= room /\ room \in Nat /\ 3 \in Nat
    BY <1>1
  <2> HIDE DEF room
  <2>2. IsBlock(body, Two(Span(room)))
    BY <2>1, RowsBlock
  <2>3. TestM2MFPitchedSymmetric = TestOn(Two(Span(room)), body)
    BY DEF TestM2MFPitchedSymmetric, room
  <2> HIDE DEF body
  <2>4. QED BY <2>2, <2>3, PassingOnTwo
<1>6. QED BY <1>2, <1>3, <1>4, <1>5

\* Copies of the whole.
LEMMA WholeTestsPass ==
  /\ Passing(TestM2MFMaxLineCount) /\ Passing(TestM2MFSysmemToVram)
  /\ Passing(TestM2MFVramToSysmem) /\ Passing(TestM2MFVramToVram)
<1>1. Passing(TestM2MFMaxLineCount)
  <2> DEFINE size == kMaxLines * 2 * u
             t == RowsOf(2 * u, kMaxLines, 2 * u, 2 * u)
  <2>1. size \in Nat /\ Span(size) \in Nat /\ kCanarySize + size + kCanarySize <= Span(size) /\ kCanarySize + size <= Span(size)
    <3>1. size \in Nat
      BY Units DEF kMaxLines
    <3> HIDE DEF size
    <3>2. QED BY <3>1, Units DEF Span
  <2>2. Transcribes(t, size) /\ t.do = kCanarySize /\ t.so = kCanarySize
    BY MaxLineCountTranscribes
  <2>3. TestM2MFMaxLineCount = TestOn(Two(Span(size)), Whole(t, size, 204, 77))
    BY DEF TestM2MFMaxLineCount
  <2> HIDE DEF size, t
  <2>4. IsBlock(Whole(t, size, 204, 77), Two(Span(size)))
    BY <2>1, <2>2, WholeBlock
  <2>5. QED BY <2>3, <2>4, PassingOnTwo
<1>2. ASSUME NEW seed PROVE Passing(Upload(seed))
  <2> DEFINE n == 2 * kByteSize
             t == Linear("dst", kCanarySize, "src", kCanarySize, n)
  <2>1. n \in Nat /\ kCanarySize \in Nat
    BY Units
  <2>2. Upload(seed) = TestOn(Two(Span(n)), Whole(t, n, 0, seed))
    BY DEF Upload
  <2> HIDE DEF n
  <2>3. Span(n) \in Nat /\ kCanarySize + n + kCanarySize <= Span(n) /\ kCanarySize + n <= Span(n)
    BY <2>1 DEF Span
  <2>4. Transcribes(t, n) /\ t.do = kCanarySize /\ t.so = kCanarySize
    BY <2>1, LinearTranscribes
  <2> HIDE DEF t
  <2>5. IsBlock(Whole(t, n, 0, seed), Two(Span(n)))
    BY <2>1, <2>3, <2>4, WholeBlock
  <2>6. QED BY <2>2, <2>5, PassingOnTwo
<1>3. QED BY <1>1, <1>2 DEF TestM2MFSysmemToVram, TestM2MFVramToSysmem, TestM2MFVramToVram

\* One copy, also of the least size and of none, and the record it leaves.
LEMMA CopyTestsPass ==
  /\ Passing(TestM2MFLinearCopy) /\ Passing(TestM2MFMinTransfer)
  /\ Passing(TestM2MFNotifierRecord) /\ Passing(TestM2MFZeroSize)
<1>1. Passing(TestM2MFLinearCopy)
  <2> DEFINE n == 2 * kByteSize
             w == Around(kCanarySize, n, 204) \o <<Fill("src", kCanarySize, n, 90)>>
             t == Linear("dst", kCanarySize, "src", kCanarySize, n)
             c == {Fill("dst", kCanarySize, n, 90), Fill("src", kCanarySize, n, 90)} \cup Guards(kCanarySize, n)
  <2>1. Passes(w, <<t>>, c, Two(Span(n)))
    BY LinearCopyPasses
  <2>2. TestM2MFLinearCopy = TestOn(Two(Span(n)), Prepare(w) \o GpumCopy(t) \o Check(c))
    BY DEF TestM2MFLinearCopy
  <2> HIDE DEF n, w, t, c
  <2>3. QED BY <2>1, <2>2, CheckedBlock, PassingOnTwo
<1>2. Passing(TestM2MFMinTransfer)
  <2> DEFINE w == Around(kCanarySize, 1, 0) \o <<Set("src", kCanarySize, 1, 126)>>
             t == RowsOf(1, 1, 1, 1)
             c == {Set("dst", kCanarySize, 1, 126)} \cup Guards(kCanarySize, 1)
  <2>1. Passes(w, <<t>>, c, Two(Span(1)))
    BY MinTransferPasses
  <2>2. TestM2MFMinTransfer = TestOn(Two(Span(1)), Prepare(w) \o GpumCopy(t) \o Check(c))
    BY DEF TestM2MFMinTransfer
  <2> HIDE DEF w, t, c
  <2>3. QED BY <2>1, <2>2, CheckedBlock, PassingOnTwo
<1>3. Passing(TestM2MFNotifierRecord)
  <2> DEFINE w == <<Set("src", 0, 4, 51), Set("dst", 0, 4, 0)>>
             t == Linear("dst", 0, "src", 0, 1)
  <2>1. TestM2MFNotifierRecord = TestOn(Two(4), Prepare(w) \o GpumCopy(t) \o Record("written"))
    BY DEF TestM2MFNotifierRecord
  <2> HIDE DEF w, t
  <2>2. QED BY <2>1, RecordedBlock, PassingOnTwo
<1>4. Passing(TestM2MFZeroSize)
  <2> DEFINE w == <<Set("dst", 0, 16, 204), Set("src", 0, 16, 85)>>
             t(len, lines) == PitchedCopy("dst", 0, "src", 0, len, lines, 4, 4)
             c == {Set("dst", 0, 16, 204)}
             Case(len, lines) == Prepare(w) \o GpumCopy(t(len, lines)) \o Check(c)
  <2>1. Passes(w, <<t(4, 0)>>, c, Two(16))
    BY ZeroSizePasses
  <2>2. Passes(w, <<t(0, 2)>>, c, Two(16))
    BY ZeroSizePasses
  <2>3. TestM2MFZeroSize = TestOn(Two(16), Case(4, 0) \o Case(0, 2))
    BY DEF TestM2MFZeroSize
  <2> HIDE DEF w, t, c
  <2>4. IsBlock(Case(4, 0), Two(16)) /\ IsBlock(Case(0, 2), Two(16))
    BY <2>1, <2>2, CheckedBlock
  <2> HIDE DEF Case
  <2>5. QED BY <2>3, <2>4, BlocksInTurn, PassingOnTwo
<1>5. QED BY <1>1, <1>2, <1>3, <1>4

\* NotifierSwitching, which looks at the record and not at what is copied.
kSwitching == 12
IsSwitching(p) ==
    /\ Len(p) = 12 /\ AllocatesAt(p) = 2 /\ DOMAIN Sizes(p) \subseteq Names \ {"framebuffer"}
    /\ p[1].op = "init" /\ p[2].op = "allocate" /\ p[3].op = "prepare" /\ p[4].op = "copy" /\ p[5].op = "dump"
    /\ p[4].skip = 7
    /\ \E t : /\ t.cmd = "transfer"
              /\ p[6].op = "push" /\ p[6].commands = <<DmaNotify("scratch"), t>>
              /\ p[9].op = "push" /\ p[9].commands = <<DmaNotify("live"), t>>
    /\ p[7].op = "busy_wait" /\ p[10].op = "busy_wait"
    /\ p[8].op = "record" /\ p[8].condition = "unchanged"
    /\ p[11].op = "record" /\ p[11].condition = "advanced" /\ p[12].op = "free"

\* One part after another.
Follows(r, s, t) ==
    /\ Len(r) = Len(s) + Len(t)
    /\ \A k \in 1 .. Len(s) : r[k] = s[k]
    /\ \A k \in 1 .. Len(t) : r[Len(s) + k] = t[k]

LEMMA PutTogether ==
  ASSUME NEW s, NEW t, IsSequence(s), IsSequence(t)
  PROVE  IsSequence(s \o t) /\ Follows(s \o t, s, t)
<1> DEFINE r == s \o t
<1>1. IsSequence(r)
  BY BothSequences
<1>2. /\ Len(s) \in Nat /\ Len(t) \in Nat /\ Len(r) = Len(s) + Len(t)
      /\ \A k \in 1 .. Len(s) : r[k] = s[k]
      /\ \A k \in Len(s) + 1 .. Len(s) + Len(t) : r[k] = t[k - Len(s)]
  BY Joined
<1> HIDE DEF r
<1>3. ASSUME NEW k \in 1 .. Len(t) PROVE r[Len(s) + k] = t[k]
  <2> DEFINE j == Len(s) + k
  <2>1. j \in Len(s) + 1 .. Len(s) + Len(t) /\ j - Len(s) = k
    BY <1>2
  <2> HIDE DEF j
  <2>2. r[j] = t[j - Len(s)]
    BY <1>2, <2>1
  <2>3. QED BY <2>1, <2>2 DEF j
<1>4. Follows(r, s, t)
  BY <1>2, <1>3 DEF Follows
<1>5. QED BY <1>1, <1>4 DEF r

LEMMA NotifierSwitchingSwitches == IsSwitching(TestM2MFNotifierSwitching)
<1> DEFINE t == Linear("dst", 0, "src", 0, 2)
           sz == Two(4)
           A == Prepare(<<Set("src", 0, 4, 51), Set("dst", 0, 4, 0)>>)
           B == GpumCopySkipping(Linear("dst", 0, "src", 0, 4), 7)
           C == <<[op |-> "dump"]>>
           D == Push(<<DmaNotify("scratch"), t>>)
           E == Record("unchanged")
           F == Push(<<DmaNotify("live"), t>>)
           G == Record("advanced")
           body == A \o B \o C \o D \o E \o F \o G
           front == <<[op |-> "init"], [op |-> "allocate", sizes |-> sz]>>
           p == front \o body \o <<[op |-> "free"]>>
<1>1. t.cmd = "transfer"
  BY Fields DEF Linear, PitchedCopy
<1>2. /\ IsSequence(A) /\ Len(A) = 1 /\ A[1].op = "prepare"
      /\ IsSequence(B) /\ Len(B) = 1 /\ B[1].op = "copy" /\ B[1].skip = 7
      /\ IsSequence(C) /\ Len(C) = 1 /\ C[1].op = "dump"
      /\ IsSequence(E) /\ Len(E) = 1 /\ E[1].op = "record" /\ E[1].condition = "unchanged"
      /\ IsSequence(G) /\ Len(G) = 1 /\ G[1].op = "record" /\ G[1].condition = "advanced"
  <2> DEFINE ws == <<Set("src", 0, 4, 51), Set("dst", 0, 4, 0)>>  l == Linear("dst", 0, "src", 0, 4)
  <2> HIDE DEF ws, l
  <2>1. \A x : <<x>> \in Seq({x})
    OBVIOUS
  <2>2. IsSequence(A) /\ Len(A) = 1 /\ A[1].op = "prepare"
    BY <2>1 DEF IsSequence, Prepare, ws
  <2>3. IsSequence(B) /\ Len(B) = 1 /\ B[1].op = "copy" /\ B[1].skip = 7
    BY <2>1 DEF IsSequence, GpumCopySkipping, l
  <2>4. IsSequence(C) /\ Len(C) = 1 /\ C[1].op = "dump"
    BY <2>1 DEF IsSequence
  <2>5. IsSequence(E) /\ Len(E) = 1 /\ E[1].op = "record" /\ E[1].condition = "unchanged"
    BY <2>1 DEF IsSequence, Record
  <2>6. IsSequence(G) /\ Len(G) = 1 /\ G[1].op = "record" /\ G[1].condition = "advanced"
    BY <2>1 DEF IsSequence, Record
  <2>7. QED BY <2>2, <2>3, <2>4, <2>5, <2>6
<1>3. ASSUME NEW q PROVE IsSequence(Push(q)) /\ Len(Push(q)) = 2 /\ Push(q)[1].op = "push" /\ Push(q)[1].commands = q
                         /\ Push(q)[2].op = "busy_wait"
  <2> DEFINE x == [op |-> "push", commands |-> q]  y == [op |-> "busy_wait"]
  <2>1. Push(q) = <<x, y>> /\ x.op = "push" /\ x.commands = q /\ y.op = "busy_wait"
    BY DEF Push
  <2> HIDE DEF x, y
  <2> DEFINE s == <<x, y>>
  <2>2. s \in Seq({x, y}) /\ Len(s) = 2 /\ s[1] = x /\ s[2] = y
    OBVIOUS
  <2>3. Push(q) = s
    BY <2>1
  <2> HIDE DEF s
  <2>4. QED BY <2>1, <2>2, <2>3 DEF IsSequence
<1>4. /\ IsSequence(D) /\ Len(D) = 2 /\ D[1].op = "push" /\ D[1].commands = <<DmaNotify("scratch"), t>> /\ D[2].op = "busy_wait"
      /\ IsSequence(F) /\ Len(F) = 2 /\ F[1].op = "push" /\ F[1].commands = <<DmaNotify("live"), t>> /\ F[2].op = "busy_wait"
  BY <1>3
<1>5. TestM2MFNotifierSwitching = p
  BY DEF TestM2MFNotifierSwitching, TestOn
<1>6. IsSequence(front) /\ Len(front) = 2 /\ front[1].op = "init" /\ front[2].op = "allocate" /\ front[2].sizes = sz
  <2> DEFINE x == [op |-> "init"]  y == [op |-> "allocate", sizes |-> sz]
  <2>1. front = <<x, y>> /\ x.op = "init" /\ y.op = "allocate" /\ y.sizes = sz
    OBVIOUS
  <2> HIDE DEF x, y, front
  <2>2. <<x, y>> \in Seq({x, y}) /\ Len(<<x, y>>) = 2
    OBVIOUS
  <2>3. QED BY <2>1, <2>2 DEF IsSequence
<1>7. DOMAIN sz \subseteq Names \ {"framebuffer"}
  BY DEF Two, Names
<1> HIDE DEF A, B, C, D, E, F, G, front, sz
<1>8. /\ IsSequence(body) /\ Len(body) = 9
      /\ body[1] = A[1] /\ body[2] = B[1] /\ body[3] = C[1] /\ body[4] = D[1] /\ body[5] = D[2] /\ body[6] = E[1]
      /\ body[7] = F[1] /\ body[8] = F[2] /\ body[9] = G[1]
  <2> DEFINE s2 == A \o B  s3 == s2 \o C  s4 == s3 \o D  s5 == s4 \o E  s6 == s5 \o F  s7 == s6 \o G
  <2>1. body = s7
    OBVIOUS
  <2>2. IsSequence(s2) /\ Follows(s2, A, B)
    BY <1>2, PutTogether
  <2> HIDE DEF s2
  <2>3. IsSequence(s3) /\ Follows(s3, s2, C)
    BY <1>2, <2>2, PutTogether
  <2> HIDE DEF s3
  <2>4. IsSequence(s4) /\ Follows(s4, s3, D)
    BY <1>4, <2>3, PutTogether
  <2> HIDE DEF s4
  <2>5. IsSequence(s5) /\ Follows(s5, s4, E)
    BY <1>2, <2>4, PutTogether
  <2> HIDE DEF s5
  <2>6. IsSequence(s6) /\ Follows(s6, s5, F)
    BY <1>4, <2>5, PutTogether
  <2> HIDE DEF s6
  <2>7. IsSequence(s7) /\ Follows(s7, s6, G)
    BY <1>2, <2>6, PutTogether
  <2> HIDE DEF s7, body
  <2>8. Len(s2) = 2 /\ s2[1] = A[1] /\ s2[2] = B[1]
    BY <1>2, <2>2 DEF Follows
  <2>9. Len(s3) = 3 /\ s3[1] = A[1] /\ s3[2] = B[1] /\ s3[3] = C[1]
    BY <1>2, <2>3, <2>8 DEF Follows
  <2>10. Len(s4) = 5 /\ s4[1] = A[1] /\ s4[2] = B[1] /\ s4[3] = C[1] /\ s4[4] = D[1] /\ s4[5] = D[2]
    BY <1>4, <2>4, <2>9 DEF Follows
  <2>11. Len(s5) = 6 /\ s5[1] = A[1] /\ s5[2] = B[1] /\ s5[3] = C[1] /\ s5[4] = D[1] /\ s5[5] = D[2] /\ s5[6] = E[1]
    BY <1>2, <2>5, <2>10 DEF Follows
  <2>12. /\ Len(s6) = 8 /\ s6[1] = A[1] /\ s6[2] = B[1] /\ s6[3] = C[1] /\ s6[4] = D[1] /\ s6[5] = D[2] /\ s6[6] = E[1]
         /\ s6[7] = F[1] /\ s6[8] = F[2]
    BY <1>4, <2>6, <2>11 DEF Follows
  <2>13. QED BY <1>2, <2>1, <2>7, <2>12 DEF Follows
<1> HIDE DEF body
<1>9. Encloses(p, front, body)
  <2>1. IsSequence(front) /\ Len(front) \in {2, 3} /\ front[Len(front)].op = "allocate"
        /\ (Len(front) = 3 => front[2].op = "framebuffer") /\ IsSequence(body)
    BY <1>6, <1>8
  <2>2. QED BY <2>1, EnclosedAt
<1> HIDE DEF p
<1>10. /\ Len(p) = 12 /\ AllocatesAt(p) = 2 /\ p[1] = front[1] /\ p[2] = front[2] /\ p[12].op = "free"
       /\ p[3] = A[1] /\ p[4] = B[1] /\ p[5] = C[1] /\ p[6] = D[1] /\ p[7] = D[2] /\ p[8] = E[1]
       /\ p[9] = F[1] /\ p[10] = F[2] /\ p[11] = G[1]
  BY <1>6, <1>8, <1>9 DEF Encloses
<1>11. DOMAIN Sizes(p) \subseteq Names \ {"framebuffer"}
  BY <1>6, <1>7, <1>10 DEF Sizes
<1> HIDE DEF t
<1>12. IsSwitching(p)
  BY <1>1, <1>2, <1>4, <1>6, <1>10, <1>11 DEF IsSwitching
<1>13. QED BY <1>5, <1>12

\* All tests are one or the other.
LEMMA AllTestsPass ==
  \A k \in 1 .. 19 : IF k = kSwitching THEN IsSwitching(kTests[k]) ELSE Passing(kTests[k])
<1> TAKE k \in 1 .. 19
<1>1. CASE k \in 1 .. 6
  BY <1>1, AlignmentsPass, BatchesPass, FormatsPass, FramebufferPassing DEF kTests, kSwitching
<1>2. CASE k \in 7 .. 11
  BY <1>2, RowsTestsPass, CopyTestsPass, WholeTestsPass DEF kTests, kSwitching
<1>3. CASE k \in 12 .. 19
  BY <1>3, RowsTestsPass, CopyTestsPass, WholeTestsPass, NotifierSwitchingSwitches DEF kTests, kSwitching
<1>4. QED BY <1>1, <1>2, <1>3

-----------------------------------------------------------------------------
(* No test fails on a GPU that works *)

\* How far off the comparison is, of what waits or is about to.
Distance == [op \in {"check", "copy", "busy_wait", "push"} |->
                IF op = "check" THEN 0 ELSE IF op = "push" THEN 2 ELSE 1]

\* What the GPU has still to do before it.
Remaining ==
    IF instruction.op = "copy" /\ ~armed THEN <<instruction.transfer>>
    ELSE IF instruction.op = "push" THEN instruction.commands ELSE pushbuffer

\* When it has done that, memory is as what follows expects.
DataInv ==
    instruction.op \in DOMAIN Distance =>
        LET next == kTests[test][pc + Distance[instruction.op]] IN
        next.op = "check" => Satisfied(Effect(memory, Remaining, "none"), next.conditions)

Fresh == live.status = 0 /\ live.ptimer # 0
RecordInv == instruction.op = "record" \/ (armed /\ pushbuffer = <<>>) => Fresh

TransfersInv ==
    /\ channel = "live"
    /\ Len(pushbuffer) \in 0 .. 3 /\ \A k \in 1 .. Len(pushbuffer) : pushbuffer[k].cmd = "transfer"

\* While it does not change its notifier,
OrdinaryInv == TransfersInv /\ DataInv /\ RecordInv

\* and while it does: nothing, the second command or both still wait.
HandingOver(to, t) ==
    \/ pushbuffer = <<DmaNotify(to), t>> /\ channel # to
    \/ pushbuffer = <<t>> /\ channel = to
    \/ pushbuffer = <<>> /\ channel = to
Advanced == live.status = 0 /\ live.ptimer # prev_rec.ptimer
SwitchInv ==
    /\ pc \notin 7 .. 10 => channel = "live"
    /\ pc \in 6 .. 9 => live = prev_rec
    /\ pc \in 8 .. 9 => channel = "scratch"
    /\ pc = 7 => HandingOver("scratch", kTests[test][6].commands[2])
    /\ pc = 10 => /\ HandingOver("live", kTests[test][9].commands[2])
                  /\ IF pushbuffer = <<>> THEN Advanced ELSE live = prev_rec
    /\ pc = 11 => Advanced

\* The sizes of the buffers that are allocated.
Allocated ==
    IF pc > AllocatesAt(kTests[test]) THEN Sizes(kTests[test]) ELSE [buf \in {} |-> 0]

WorksInv ==
    ~Ended => /\ IsMemory(memory, Allocated)
              /\ IF test = kSwitching THEN SwitchInv ELSE OrdinaryInv

\* On a GPU that works the test that runs passes so far.
GoodInv == fault = "none" /\ ~excused => pass /\ WorksInv

\* What is between the allocations and the frees is so in a test that passes.
LEMMA ProperAt ==
  ASSUME NEW p, IsTest(p), IsProper(p), NEW k \in 1 .. Len(p),
         p[k].op \notin {"init", "framebuffer", "allocate", "free"}
  PROVE  k > AllocatesAt(p) /\ k < Len(p) /\ Proper(p, k, Sizes(p))
<1>1. Len(p) \in Nat /\ AllocatesAt(p) \in Nat
  BY DEF IsTest, IsSequence, AllocatesAt
<1>2. k > AllocatesAt(p)
  BY WhereItStands
<1>3. k < Len(p)
  BY <1>1 DEF IsTest
<1>4. k \in AllocatesAt(p) + 1 .. Len(p) - 1
  BY <1>1, <1>2, <1>3
<1>5. QED BY <1>2, <1>3, <1>4 DEF IsProper

\* The instruction of an ordinary test, and the one after it.
LEMMA OrdinaryInstruction ==
  ASSUME PlaceInv, ~Ended, test # kSwitching
  PROVE  LET p == kTests[test] IN
         /\ IsTest(p) /\ IsProper(p) /\ DOMAIN Sizes(p) \subseteq Names \ {"framebuffer"}
         /\ pc \in 1 .. Len(p) /\ Len(p) \in Nat /\ instruction = p[pc]
         /\ \A k \in 1 .. Len(p) : p[k].op \notin {"init", "framebuffer", "allocate", "free"} =>
               k > AllocatesAt(p) /\ k < Len(p) /\ Proper(p, k, Sizes(p))
<1>1. IsTest(kTests[test]) /\ pc \in 1 .. Len(kTests[test]) /\ Len(kTests[test]) \in Nat /\ test \in 1 .. Len(kTests)
  BY Instruction
<1>2. test \in 1 .. 19
  BY <1>1, TestsAreTests
<1>3. Passing(kTests[test])
  BY <1>2, AllTestsPass
<1>4. IsProper(kTests[test])
  BY <1>3 DEF Passing
<1>5. QED BY <1>1, <1>3, <1>4, ProperAt DEF Passing, instruction

\* Nothing has to be done, and what has been done is all there is.
LEMMA NothingRemains == \A m : Effect(m, <<>>, "none") = m
<1>1. Len(<<>>) = 0
  OBVIOUS
<1>2. QED BY <1>1 DEF Effect

\* How an ordinary test goes on.
GoesOrdinarily ==
    /\ Step /\ UNCHANGED <<live, channel>> /\ ~armed'
    /\ instruction.op = "prepare" => memory' = Written(memory, instruction.writes)
    /\ instruction.op \notin {"prepare", "allocate"} => memory' = memory
    /\ pushbuffer' = IF instruction.op = "push" THEN instruction.commands ELSE <<>>
    /\ instruction.op \in {"copy", "busy_wait"} => pushbuffer = <<>>
    /\ instruction.op = "copy" => armed

\* What comes next expects what it finds.
LEMMA OrdinaryData ==
  ASSUME IInv, ~Ended, test # kSwitching, OrdinaryInv, instruction.op # "free", GoesOrdinarily,
         pc > AllocatesAt(kTests[test]) => IsMemory(memory, Sizes(kTests[test]))
  PROVE  DataInv' /\ RecordInv'
<1> DEFINE p == kTests[test]  x == instruction  y == p[pc + 1]  sz == Sizes(p)
<1>1. /\ IsTest(p) /\ pc \in 1 .. Len(p) /\ Len(p) \in Nat /\ x = p[pc]
      /\ \A k \in 1 .. Len(p) : p[k].op \notin {"init", "framebuffer", "allocate", "free"} =>
            k > AllocatesAt(p) /\ k < Len(p) /\ Proper(p, k, sz)
  BY OrdinaryInstruction DEF IInv
<1>2. pc < Len(p)
  BY Instruction DEF IInv
<1>3. /\ test' = test /\ pc' = pc + 1 /\ instruction' = y /\ ~Ended' /\ ~armed' /\ pc \in Nat /\ pc + 1 \in 1 .. Len(p)
      /\ pc + 2 = (pc + 1) + 1 /\ pc + 3 = (pc + 1) + 2
  BY <1>1, <1>2 DEF GoesOrdinarily, Step, instruction, Ended
<1>4. y.op \in {"prepare", "copy", "push", "busy_wait", "check", "record"} => Proper(p, pc + 1, sz)
  BY <1>1, <1>3
<1>5. x.op \in {"prepare", "copy", "push", "busy_wait", "check", "record"} =>
         Proper(p, pc, sz) /\ pc > AllocatesAt(p)
  BY <1>1
<1>6. (pc + 1) - 1 = pc
  BY <1>1
<1> HIDE DEF p, y
<1>7. ASSUME y.op = "check" PROVE Satisfied(memory', y.conditions)
  <2>1. x.op \in {"copy", "busy_wait"}
    BY <1>1, <1>4, <1>6, <1>7 DEF Proper, y
  <2>2. pushbuffer = <<>> /\ Remaining = <<>> /\ memory' = memory
    BY <2>1 DEF GoesOrdinarily, Remaining
  <2>3. instruction.op \in DOMAIN Distance /\ Distance[instruction.op] = 1
    BY <2>1 DEF Distance
  <2>4. Satisfied(Effect(memory, Remaining, "none"), y.conditions)
    BY <1>7, <2>3 DEF OrdinaryInv, DataInv, y, p
  <2>5. QED BY <2>2, <2>4, NothingRemains
<1>8. ASSUME y.op = "copy", p[pc + 2].op = "check"
      PROVE  Satisfied(Effect(memory', <<y.transfer>>, "none"), p[pc + 2].conditions)
  <2>1. x.op = "prepare"
    BY <1>1, <1>3, <1>4, <1>6, <1>8 DEF Proper, y
  <2>2. Passes(x.writes, <<y.transfer>>, p[pc + 2].conditions, sz)
    <3>1. Proper(p, pc, sz)
      BY <1>5, <2>1
    <3>2. QED BY <1>1, <1>8, <2>1, <3>1 DEF Proper, y
  <2>3. IsMemory(memory, sz) /\ memory' = Written(memory, x.writes)
    BY <1>5, <2>1 DEF GoesOrdinarily, p
  <2>4. QED BY <2>2, <2>3 DEF Passes
<1>9. ASSUME y.op = "push", p[pc + 3].op = "check"
      PROVE  Satisfied(Effect(memory', y.commands, "none"), p[pc + 3].conditions)
  <2>1. x.op = "prepare"
    BY <1>1, <1>3, <1>4, <1>6, <1>9 DEF Proper, y
  <2>2. Passes(x.writes, y.commands, p[pc + 3].conditions, sz)
    <3>1. Proper(p, pc, sz)
      BY <1>5, <2>1
    <3>2. QED BY <1>1, <1>9, <2>1, <3>1 DEF Proper, y
  <2>3. IsMemory(memory, sz) /\ memory' = Written(memory, x.writes)
    BY <1>5, <2>1 DEF GoesOrdinarily, p
  <2>4. QED BY <2>2, <2>3 DEF Passes
<1>10. ASSUME y.op = "busy_wait", p[pc + 2].op = "check"
       PROVE  Satisfied(Effect(memory', pushbuffer', "none"), p[pc + 2].conditions)
  <2>1. x.op = "push"
    BY <1>1, <1>4, <1>6, <1>10 DEF Proper, y
  <2>2. Remaining = x.commands /\ pushbuffer' = x.commands /\ memory' = memory
    BY <2>1 DEF GoesOrdinarily, Remaining
  <2>3. instruction.op \in DOMAIN Distance /\ Distance[instruction.op] = 2
    BY <2>1 DEF Distance
  <2>4. Satisfied(Effect(memory, Remaining, "none"), p[pc + 2].conditions)
    BY <1>10, <2>3 DEF OrdinaryInv, DataInv, p
  <2>5. QED BY <2>2, <2>4
<1>11. DataInv'
  <2> SUFFICES ASSUME y.op \in DOMAIN Distance,
                      p[(pc + 1) + Distance[y.op]].op = "check"
               PROVE  Satisfied(Effect(memory', Remaining', "none"), p[(pc + 1) + Distance[y.op]].conditions)
    BY <1>3 DEF DataInv, p
  <2>1. y.op \in {"check", "copy", "busy_wait", "push"}
    BY DEF Distance
  <2>2. CASE y.op = "check"
    <3>1. Distance[y.op] = 0 /\ (pc + 1) + 0 = pc + 1
      BY <1>3, <2>2 DEF Distance
    <3>2. x.op \in {"copy", "busy_wait"}
      BY <1>1, <1>4, <1>6, <2>2 DEF Proper, y
    <3>3. Remaining' = <<>>
      BY <1>3, <2>2, <3>2 DEF Remaining, GoesOrdinarily
    <3>4. QED BY <1>7, <2>2, <3>1, <3>3, NothingRemains DEF y
  <2>3. CASE y.op = "copy"
    <3>1. Distance[y.op] = 1 /\ (pc + 1) + 1 = pc + 2
      BY <1>3, <2>3 DEF Distance
    <3>2. Remaining' = <<y.transfer>>
      BY <1>3, <2>3 DEF Remaining
    <3>3. QED BY <1>8, <2>3, <3>1, <3>2
  <2>4. CASE y.op = "push"
    <3>1. Distance[y.op] = 2 /\ (pc + 1) + 2 = pc + 3
      BY <1>3, <2>4 DEF Distance
    <3>2. Remaining' = y.commands
      BY <1>3, <2>4 DEF Remaining
    <3>3. QED BY <1>9, <2>4, <3>1, <3>2
  <2>5. CASE y.op = "busy_wait"
    <3>1. Distance[y.op] = 1 /\ (pc + 1) + 1 = pc + 2
      BY <1>3, <2>5 DEF Distance
    <3>2. Remaining' = pushbuffer'
      BY <1>3, <2>5 DEF Remaining
    <3>3. QED BY <1>10, <2>5, <3>1, <3>2
  <2>6. QED BY <2>1, <2>2, <2>3, <2>4, <2>5
<1>12. RecordInv'
  <2> SUFFICES ASSUME y.op = "record" PROVE Fresh'
    BY <1>3 DEF RecordInv
  <2>1. x.op = "copy"
    BY <1>1, <1>4, <1>6 DEF Proper, y
  <2>2. QED BY <2>1 DEF GoesOrdinarily, OrdinaryInv, RecordInv, Fresh
<1>13. QED BY <1>11, <1>12

\* So it goes on.
LEMMA OrdinaryGoesOn ==
  ASSUME IInv, ~Ended, test # kSwitching, OrdinaryInv, instruction.op # "free", GoesOrdinarily,
         pc > AllocatesAt(kTests[test]) => IsMemory(memory, Sizes(kTests[test]))
  PROVE  OrdinaryInv'
<1>1. channel' = "live"
  BY DEF OrdinaryInv, TransfersInv, GoesOrdinarily
<1>2. Len(pushbuffer') \in 0 .. 3 /\ \A k \in 1 .. Len(pushbuffer') : pushbuffer'[k].cmd = "transfer"
  <2>1. CASE instruction.op = "push"
    <3>1. Proper(kTests[test], pc, Sizes(kTests[test])) /\ instruction = kTests[test][pc]
      BY <2>1, OrdinaryInstruction DEF IInv
    <3>2. Len(instruction.commands) \in 1 .. 3
          /\ \A j \in 1 .. Len(instruction.commands) : instruction.commands[j].cmd = "transfer"
      BY <2>1, <3>1 DEF Proper
    <3>3. QED BY <2>1, <3>2 DEF GoesOrdinarily
  <2>2. CASE instruction.op # "push"
    <3>1. pushbuffer' = <<>> /\ Len(<<>>) = 0
      BY <2>2 DEF GoesOrdinarily
    <3>2. QED BY <3>1
  <2>3. QED BY <2>1, <2>2
<1>3. DataInv' /\ RecordInv'
  BY OrdinaryData
<1>4. QED BY <1>1, <1>2, <1>3 DEF OrdinaryInv, TransfersInv

\* A GPU that does not reorder takes the first command, and executes it in its way,
LEMMA GpuTakesFirst ==
  ASSUME IInv, ~Turned, Gpu
  PROVE  LET x == Head(pushbuffer) IN
         /\ pushbuffer # <<>> /\ x = pushbuffer[1] /\ pushbuffer' = Tail(pushbuffer)
         /\ memory' = One(memory, x, fault)
         /\ channel' = IF x.cmd = "transfer" THEN channel ELSE x.channel
         /\ live' = IF x.cmd = "transfer" /\ fault # "silent" /\ (channel = "live" \/ fault = "notifies_live")
                    THEN [status |-> 0, ptimer |-> 1 + (live.ptimer % 2)] ELSE live
         /\ UNCHANGED <<test, pc, armed, prev_rec, excused, fault, pass>>
<1>1. PICK S : pushbuffer \in Seq(S)
  BY DEF IInv, QueueInv, IsSequence
<1>2. CASE GpuNotify
  <2>1. pushbuffer # <<>> /\ Head(pushbuffer) = pushbuffer[1] /\ Head(pushbuffer).cmd # "transfer"
    BY <1>1, <1>2 DEF GpuNotify
  <2>2. memory' = memory /\ One(memory, Head(pushbuffer), fault) = memory
    BY <1>2, <2>1 DEF GpuNotify, One, buffers
  <2>3. QED BY <1>2, <2>1, <2>2 DEF GpuNotify, position
<1>3. CASE GpuTransfer
  <2>1. chosen = 1
    BY DEF chosen
  <2>2. pushbuffer # <<>> /\ Head(pushbuffer) = pushbuffer[1] /\ pushbuffer[1].cmd = "transfer"
        /\ pushbuffer' = RemoveAt(pushbuffer, 1)
    BY <1>1, <1>3, <2>1 DEF GpuTransfer
  <2>3. RemoveAt(pushbuffer, 1) = Tail(pushbuffer)
    <3> DEFINE a == SubSeq(pushbuffer, 1, 1 - 1)  b == SubSeq(pushbuffer, 1 + 1, Len(pushbuffer))
    <3>1. a = <<>> /\ b = Tail(pushbuffer)
      BY <1>1, <2>2
    <3>2. RemoveAt(pushbuffer, 1) = a \o b
      BY DEF RemoveAt
    <3>3. Tail(pushbuffer) \in Seq(S)
      BY <1>1, <2>2
    <3> HIDE DEF a, b
    <3>4. <<>> \o Tail(pushbuffer) = Tail(pushbuffer)
      BY <3>3
    <3>5. QED BY <3>1, <3>2, <3>4
  <2>4. memory' = One(memory, pushbuffer[1], fault)
    BY <1>3, <2>1, <2>2 DEF GpuTransfer, One
  <2>5. /\ live' = IF fault # "silent" /\ (channel = "live" \/ fault = "notifies_live")
                   THEN [status |-> 0, ptimer |-> 1 + (live.ptimer % 2)] ELSE live
        /\ UNCHANGED <<channel, test, pc, armed, prev_rec, excused, fault, pass>>
    BY <1>3 DEF GpuTransfer, position
  <2>6. QED BY <2>2, <2>3, <2>4, <2>5
<1>4. QED BY <1>2, <1>3 DEF Gpu

\* and as it should if it works.
LEMMA GpuWorks ==
  ASSUME IInv, fault = "none", Gpu
  PROVE  LET x == Head(pushbuffer) IN
         /\ pushbuffer # <<>> /\ x = pushbuffer[1] /\ pushbuffer' = Tail(pushbuffer)
         /\ memory' = One(memory, x, "none")
         /\ channel' = IF x.cmd = "transfer" THEN channel ELSE x.channel
         /\ live' = IF x.cmd = "transfer" /\ channel = "live"
                    THEN [status |-> 0, ptimer |-> 1 + (live.ptimer % 2)] ELSE live
         /\ UNCHANGED <<test, pc, armed, prev_rec, excused, fault, pass>>
<1>1. ~Turned
  BY DEF Turned
<1>2. QED BY <1>1, GpuTakesFirst

\* What it has executed no longer remains.
LEMMA OrdinaryGpu ==
  ASSUME IInv, ~Ended, test # kSwitching, OrdinaryInv, fault = "none", ~excused, Gpu
  PROVE  OrdinaryInv'
<1> DEFINE x == Head(pushbuffer)
<1>1. /\ pushbuffer # <<>> /\ x = pushbuffer[1] /\ pushbuffer' = Tail(pushbuffer)
      /\ memory' = One(memory, x, "none")
      /\ channel' = IF x.cmd = "transfer" THEN channel ELSE x.channel
      /\ live' = IF x.cmd = "transfer" /\ channel = "live"
                 THEN [status |-> 0, ptimer |-> 1 + (live.ptimer % 2)] ELSE live
      /\ UNCHANGED <<test, pc, armed>>
  BY GpuWorks
<1>2. PICK S : pushbuffer \in Seq(S)
  BY DEF IInv, QueueInv, IsSequence
<1>3. Len(pushbuffer) \in 1 .. 3 /\ channel = "live" /\ \A k \in 1 .. Len(pushbuffer) : pushbuffer[k].cmd = "transfer"
  BY <1>1, <1>2 DEF OrdinaryInv, TransfersInv
<1>4. x.cmd = "transfer" /\ channel' = "live" /\ Fresh'
  <2>1. x.cmd = "transfer"
    BY <1>1, <1>3
  <2>2. live.ptimer \in Nat
    BY DEF IInv, QueueInv
  <2> HIDE DEF x
  <2>3. live' = [status |-> 0, ptimer |-> 1 + (live.ptimer % 2)] /\ 1 + (live.ptimer % 2) # 0
    BY <1>1, <1>3, <2>1, <2>2
  <2>4. QED BY <1>1, <1>3, <2>1, <2>3 DEF Fresh
<1>5. Len(pushbuffer') \in 0 .. 3 /\ \A k \in 1 .. Len(pushbuffer') : pushbuffer'[k].cmd = "transfer"
  <2>1. /\ Len(Tail(pushbuffer)) = Len(pushbuffer) - 1
        /\ \A k \in 1 .. Len(Tail(pushbuffer)) : Tail(pushbuffer)[k] = pushbuffer[k + 1] /\ k + 1 \in 1 .. Len(pushbuffer)
    BY <1>1, <1>2
  <2>2. QED BY <1>1, <1>3, <2>1
<1>6. Effect(memory, pushbuffer, "none") = Effect(memory', pushbuffer', "none")
  BY <1>1, <1>2, <1>3, FirstOfThree
<1>7. instruction' = instruction /\ (Ended <=> Ended')
  BY <1>1 DEF instruction, Ended
<1>8. armed \/ At("busy_wait")
  BY <1>1 DEF IInv, QueueInv
<1>9. (instruction.op = "copy" /\ armed) \/ instruction.op = "busy_wait"
  BY <1>8 DEF IInv, PlaceInv, At
<1>10. Remaining = pushbuffer /\ Remaining' = pushbuffer'
  BY <1>1, <1>7, <1>9 DEF Remaining
<1> HIDE DEF x
<1>11. DataInv'
  <2>1. DataInv
    BY DEF OrdinaryInv
  <2>2. Effect(memory, Remaining, "none") = Effect(memory', Remaining', "none")
    BY <1>6, <1>10
  <2>3. QED BY <1>1, <1>7, <2>1, <2>2 DEF DataInv
<1>12. RecordInv'
  BY <1>4 DEF RecordInv
<1>13. QED BY <1>4, <1>5, <1>11, <1>12 DEF OrdinaryInv, TransfersInv

\* What gpum_copy pushes remained already.
LEMMA OrdinaryCopyStarts ==
  ASSUME IInv, ~Ended, test # kSwitching, OrdinaryInv, fault = "none", ~excused, GpumCopyStarts
  PROVE  OrdinaryInv'
<1> DEFINE t == instruction.transfer
<1>1. /\ ~Ended /\ instruction.op = "copy" /\ ~armed /\ armed' /\ pushbuffer' = Append(pushbuffer, t)
      /\ UNCHANGED <<memory, channel, test, pc>>
  BY DEF GpumCopyStarts, At, buffers
<1>2. pushbuffer = <<>>
  BY <1>1 DEF IInv, QueueInv, At
<1>3. t.cmd = "transfer"
  BY <1>1, Instruction DEF IInv
<1>4. Remaining = <<t>>
  BY <1>1 DEF Remaining
<1>5. instruction' = instruction
  BY <1>1 DEF instruction
<1> HIDE DEF t
<1>6. Append(<<>>, t) = <<t>> /\ Len(<<t>>) = 1 /\ <<t>>[1] = t /\ <<t>> # <<>>
  OBVIOUS
<1>7. pushbuffer' = <<t>>
  BY <1>1, <1>2, <1>6
<1>8. Remaining' = Remaining
  BY <1>1, <1>4, <1>5, <1>7 DEF Remaining
<1>9. DataInv'
  <2>1. DataInv
    BY DEF OrdinaryInv
  <2>2. QED BY <1>1, <1>5, <1>8, <2>1 DEF DataInv
<1>10. RecordInv'
  BY <1>1, <1>5, <1>6, <1>7 DEF RecordInv
<1>11. TransfersInv'
  BY <1>1, <1>3, <1>6, <1>7 DEF OrdinaryInv, TransfersInv
<1>12. QED BY <1>9, <1>10, <1>11 DEF OrdinaryInv

\* A test begins with nothing on its way.
LEMMA Begins ==
  ASSUME IInv', ~Ended', pc' = 1, ~excused', channel' = "live"
  PROVE  (IF test = kSwitching THEN SwitchInv ELSE OrdinaryInv)'
<1>1. IsTest(kTests[test'])
  <2>1. test' \in 1 .. Len(kTests)
    BY TestsAreTests DEF IInv, PlaceInv, Ended
  <2>2. QED BY <2>1, TestsAreTests
<1>2. instruction'.op = "init"
  BY <1>1 DEF instruction, IsTest
<1>3. ~armed' /\ pushbuffer' = <<>> /\ Len(<<>>) = 0
  BY <1>2 DEF IInv, PlaceInv, QueueInv, At
<1>4. OrdinaryInv'
  BY <1>2, <1>3 DEF OrdinaryInv, TransfersInv, DataInv, RecordInv, Distance
<1>5. SwitchInv'
  BY DEF SwitchInv
<1>6. QED BY <1>4, <1>5

\* Memory has what is allocated.
Nothing == [buf \in {} |-> 0]
LEMMA LessAllocated == \A m, sz : IsMemory(m, sz) => IsMemory(m, Nothing)
BY DEF IsMemory, Nothing

LEMMA InitMemory ==
  ASSUME Init
  PROVE  IsMemory(memory, Nothing)
<1>1. DOMAIN memory = Names /\ DOMAIN memory["framebuffer"] = 0 .. kMaxSpan - 1
  BY DEF Init, Names
<1>2. QED BY <1>1 DEF IsMemory, Nothing

LEMMA AllocatedMemory ==
  ASSUME NEW m, IsMemory(m, Nothing), NEW sz, DOMAIN sz \subseteq Names \ {"framebuffer"}
  PROVE  IsMemory([buf \in DOMAIN m |-> IF buf \in DOMAIN sz THEN [i \in 0 .. sz[buf] - 1 |-> -1] ELSE m[buf]], sz)
<1> DEFINE n == [buf \in DOMAIN m |-> IF buf \in DOMAIN sz THEN [i \in 0 .. sz[buf] - 1 |-> -1] ELSE m[buf]]
<1>1. DOMAIN m = Names /\ DOMAIN m["framebuffer"] = 0 .. kMaxSpan - 1 /\ "framebuffer" \in Names
  BY DEF IsMemory, Names
<1>2. DOMAIN n = Names /\ n["framebuffer"] = m["framebuffer"]
  BY <1>1
<1>3. \A buf \in DOMAIN sz : DOMAIN n[buf] = 0 .. sz[buf] - 1
  BY <1>1
<1> HIDE DEF n
<1>4. IsMemory(n, sz)
  BY <1>1, <1>2, <1>3 DEF IsMemory
<1>5. QED BY <1>4 DEF n

\* How any test goes on.
GoesWell ==
    /\ GoesOrdinarily
    /\ instruction.op = "allocate" =>
          memory' = [buf \in DOMAIN memory |->
                        IF buf \in DOMAIN sizes THEN [i \in 0 .. sizes[buf] - 1 |-> -1] ELSE memory[buf]]
    /\ prev_rec' = IF instruction.op = "dump" THEN live ELSE prev_rec

\* The instruction of the test that hands over the notifier.
LEMMA SwitchingInstruction ==
  ASSUME PlaceInv, ~Ended, test = kSwitching
  PROVE  LET p == kTests[test] IN
         /\ IsSwitching(p) /\ pc \in 1 .. 12 /\ instruction = p[pc]
         /\ p[6].commands[2].cmd = "transfer" /\ p[6].commands = <<DmaNotify("scratch"), p[6].commands[2]>>
         /\ p[9].commands[2].cmd = "transfer" /\ p[9].commands = <<DmaNotify("live"), p[9].commands[2]>>
<1> DEFINE p == kTests[test]
<1>1. IsSwitching(p)
  <2>1. test \in 1 .. 19
    BY DEF kSwitching
  <2>2. QED BY <2>1, AllTestsPass
<1>2. pc \in 1 .. Len(p) /\ instruction = p[pc]
  BY Instruction DEF instruction
<1> HIDE DEF p
<1>3. PICK t : /\ t.cmd = "transfer" /\ p[6].commands = <<DmaNotify("scratch"), t>>
               /\ p[9].commands = <<DmaNotify("live"), t>>
  BY <1>1 DEF IsSwitching
<1>4. p[6].commands[2] = t /\ p[9].commands[2] = t
  BY <1>3
<1>5. pc \in 1 .. 12
  BY <1>1, <1>2 DEF IsSwitching
<1>6. QED BY <1>1, <1>2, <1>3, <1>4, <1>5 DEF p

\* It goes on.
LEMMA SwitchingGoesOn ==
  ASSUME IInv, ~Ended, test = kSwitching, SwitchInv, GoesWell, instruction.op # "free"
  PROVE  SwitchInv'
<1> DEFINE p == kTests[test]  t6 == p[6].commands[2]  t9 == p[9].commands[2]
<1>1. /\ IsSwitching(p) /\ pc \in 1 .. 12 /\ instruction = p[pc]
      /\ p[6].commands = <<DmaNotify("scratch"), t6>> /\ p[9].commands = <<DmaNotify("live"), t9>>
  BY SwitchingInstruction DEF IInv
<1>2. test' = test /\ pc' = pc + 1 /\ UNCHANGED <<live, channel>>
  BY DEF GoesWell, GoesOrdinarily, Step
<1>3. /\ p[6].op = "push" /\ p[9].op = "push" /\ p[7].op = "busy_wait" /\ p[10].op = "busy_wait" /\ p[5].op = "dump"
      /\ p[8].op = "record" /\ p[11].op = "record" /\ p[12].op = "free"
  BY <1>1 DEF IsSwitching
<1>4. <<DmaNotify("scratch"), t6>> # <<>> /\ <<DmaNotify("live"), t9>> # <<>> /\ <<t6>> # <<>> /\ <<t9>> # <<>>
  <2> HIDE DEF t6, t9
  <2> QED OBVIOUS
<1>5. pc = 7 => HandingOver("scratch", t6)
  BY DEF SwitchInv
<1>6. pc = 10 => HandingOver("live", t9) /\ (pushbuffer = <<>> => Advanced)
  BY DEF SwitchInv
<1>7. pc \in {7, 10} => pushbuffer = <<>>
  BY <1>1, <1>3 DEF GoesWell, GoesOrdinarily
<1>8. pc = 6 => pushbuffer' = <<DmaNotify("scratch"), t6>>
  BY <1>1, <1>3 DEF GoesWell, GoesOrdinarily
<1>9. pc = 9 => pushbuffer' = <<DmaNotify("live"), t9>>
  BY <1>1, <1>3 DEF GoesWell, GoesOrdinarily
<1>10. pc \in {5} => prev_rec' = live
  BY <1>1, <1>3 DEF GoesWell
<1>11. pc \in {6, 7, 8, 9, 10} => prev_rec' = prev_rec
  BY <1>1, <1>3 DEF GoesWell
<1>12. p' = p /\ pc # 12
  BY <1>1, <1>2, <1>3
<1> HIDE DEF p, t6, t9
<1>13. /\ pc \notin 7 .. 10 => channel = "live"
       /\ pc \in 6 .. 9 => live = prev_rec
       /\ pc \in 8 .. 9 => channel = "scratch"
  BY DEF SwitchInv
<1>14. (pc = 7 => channel = "scratch") /\ (pc = 10 => channel = "live" /\ Advanced)
  BY <1>4, <1>5, <1>6, <1>7 DEF HandingOver
<1>15. /\ pc' \notin 7 .. 10 => channel' = "live"
       /\ pc' \in 6 .. 9 => live' = prev_rec'
       /\ pc' \in 8 .. 9 => channel' = "scratch"
  BY <1>1, <1>2, <1>10, <1>11, <1>12, <1>13, <1>14
<1>16. pc' = 7 => HandingOver("scratch", t6)'
  BY <1>1, <1>2, <1>8, <1>13 DEF HandingOver, t6, p
<1>17. pc' = 10 => HandingOver("live", t9)' /\ pushbuffer' # <<>> /\ live' = prev_rec'
  <2>1. ASSUME pc' = 10
        PROVE  pushbuffer' = <<DmaNotify("live"), t9>> /\ channel' # "live" /\ live' = prev_rec' /\ t9' = t9
    BY <1>1, <1>2, <1>9, <1>11, <1>13, <2>1 DEF t9, p
  <2>2. QED BY <1>4, <2>1 DEF HandingOver, t9, p
<1>18. pc' = 11 => Advanced'
  BY <1>1, <1>2, <1>11, <1>14 DEF Advanced
<1>19. QED BY <1>15, <1>16, <1>17, <1>18 DEF SwitchInv, t6, t9, p

\* The GPU changes its notifier, then makes the transfer.
LEMMA SwitchingGpu ==
  ASSUME IInv, ~Ended, test = kSwitching, SwitchInv, fault = "none", ~excused, Gpu
  PROVE  SwitchInv'
<1> DEFINE p == kTests[test]  t6 == p[6].commands[2]  t9 == p[9].commands[2]  x == Head(pushbuffer)
<1>1. /\ IsSwitching(p) /\ pc \in 1 .. 12 /\ instruction = p[pc] /\ t6.cmd = "transfer" /\ t9.cmd = "transfer"
  BY SwitchingInstruction DEF IInv
<1>2. /\ pushbuffer # <<>> /\ x = pushbuffer[1] /\ pushbuffer' = Tail(pushbuffer)
      /\ channel' = IF x.cmd = "transfer" THEN channel ELSE x.channel
      /\ live' = IF x.cmd = "transfer" /\ channel = "live"
                 THEN [status |-> 0, ptimer |-> 1 + (live.ptimer % 2)] ELSE live
      /\ UNCHANGED <<test, pc, armed, prev_rec>>
  BY GpuWorks
<1>3. armed \/ At("busy_wait")
  BY <1>2 DEF IInv, QueueInv
<1>4. instruction.op \in {"copy", "busy_wait"} /\ (instruction.op = "copy" => armed)
  BY <1>3 DEF IInv, PlaceInv, At
<1>5. pc \in {4, 7, 10} /\ (pc = 4 => instruction.op = "copy")
  <2>1. /\ p[1].op = "init" /\ p[2].op = "allocate" /\ p[3].op = "prepare" /\ p[4].op = "copy" /\ p[5].op = "dump"
        /\ p[6].op = "push" /\ p[8].op = "record" /\ p[9].op = "push" /\ p[11].op = "record" /\ p[12].op = "free"
    BY <1>1 DEF IsSwitching
  <2> HIDE DEF p
  <2>2. QED BY <1>1, <1>4, <2>1
<1>6. p' = p
  BY <1>2
<1>7. \A to : DmaNotify(to).cmd # "transfer" /\ DmaNotify(to).channel = to
  BY DEF DmaNotify
<1> HIDE DEF p, t6, t9, x
<1>8. CASE pc = 4
  <2>1. x.cmd = "transfer"
    <3>1. pushbuffer = <<instruction.transfer>> /\ instruction.transfer.cmd = "transfer"
      BY <1>2, <1>4, <1>5, <1>8, Instruction DEF IInv, QueueInv
    <3>2. QED BY <1>2, <3>1
  <2>2. channel' = "live"
    BY <1>2, <1>8, <2>1 DEF SwitchInv
  <2>3. QED BY <1>2, <1>8, <2>2 DEF SwitchInv
<1>9. CASE pc = 7
  <2>1. HandingOver("scratch", t6) /\ live = prev_rec
    BY <1>9 DEF SwitchInv, t6, p
  <2>2. (HandingOver("scratch", t6))' /\ live' = prev_rec'
    <3>1. CASE pushbuffer = <<DmaNotify("scratch"), t6>>
      <4>1. pushbuffer[1] = DmaNotify("scratch") /\ Tail(pushbuffer) = <<t6>>
        BY <3>1
      <4>2. channel' = "scratch" /\ pushbuffer' = <<t6>> /\ live' = live
        BY <1>2, <1>7, <4>1
      <4>3. QED BY <1>2, <1>6, <2>1, <4>2 DEF HandingOver, t6
    <3>2. CASE pushbuffer = <<t6>>
      <4>1. pushbuffer[1] = t6 /\ Tail(pushbuffer) = <<>> /\ channel = "scratch"
        <5>1. <<t6>> # <<DmaNotify("scratch"), t6>> /\ <<t6>> # <<>>
          <6>1. Len(<<t6>>) = 1 /\ Len(<<DmaNotify("scratch"), t6>>) = 2 /\ Len(<<>>) = 0
            OBVIOUS
          <6>2. QED BY <6>1
        <5>2. pushbuffer[1] = t6 /\ Tail(pushbuffer) = <<>>
          BY <3>2
        <5>3. QED BY <2>1, <3>2, <5>1, <5>2 DEF HandingOver
      <4>2. channel' = "scratch" /\ pushbuffer' = <<>> /\ live' = live
        BY <1>1, <1>2, <4>1
      <4>3. QED BY <1>2, <1>6, <2>1, <4>2 DEF HandingOver, t6
    <3>3. QED BY <1>2, <2>1, <3>1, <3>2 DEF HandingOver
  <2>3. QED BY <1>2, <1>9, <2>2 DEF SwitchInv, t6, p
<1>10. CASE pc = 10
  <2>1. HandingOver("live", t9) /\ live = prev_rec
    BY <1>2, <1>10 DEF SwitchInv, t9, p
  <2>2. (HandingOver("live", t9))' /\ (IF pushbuffer' = <<>> THEN Advanced' ELSE live' = prev_rec')
    <3>1. CASE pushbuffer = <<DmaNotify("live"), t9>>
      <4>1. pushbuffer[1] = DmaNotify("live") /\ Tail(pushbuffer) = <<t9>> /\ <<t9>> # <<>>
        BY <3>1
      <4>2. channel' = "live" /\ pushbuffer' = <<t9>> /\ live' = live
        BY <1>2, <1>7, <4>1
      <4>3. QED BY <1>2, <1>6, <2>1, <4>1, <4>2 DEF HandingOver, t9
    <3>2. CASE pushbuffer = <<t9>>
      <4>1. pushbuffer[1] = t9 /\ Tail(pushbuffer) = <<>> /\ channel = "live"
        <5>1. <<t9>> # <<DmaNotify("live"), t9>> /\ <<t9>> # <<>>
          <6>1. Len(<<t9>>) = 1 /\ Len(<<DmaNotify("live"), t9>>) = 2 /\ Len(<<>>) = 0
            OBVIOUS
          <6>2. QED BY <6>1
        <5>2. pushbuffer[1] = t9 /\ Tail(pushbuffer) = <<>>
          BY <3>2
        <5>3. QED BY <2>1, <3>2, <5>1, <5>2 DEF HandingOver
      <4>2. channel' = "live" /\ pushbuffer' = <<>> /\ live' = [status |-> 0, ptimer |-> 1 + (live.ptimer % 2)]
        BY <1>1, <1>2, <4>1
      <4>3. live.ptimer \in 0 .. 2
        BY DEF IInv, QueueInv
      <4>4. 1 + (live.ptimer % 2) # live.ptimer
        BY <4>3
      <4>5. Advanced'
        BY <1>2, <2>1, <4>2, <4>4 DEF Advanced
      <4>6. QED BY <1>6, <4>2, <4>5 DEF HandingOver, t9
    <3>3. QED BY <1>2, <2>1, <3>1, <3>2 DEF HandingOver
  <2>3. QED BY <1>2, <1>10, <2>2 DEF SwitchInv, t9, p
<1>11. QED BY <1>5, <1>8, <1>9, <1>10

\* The names of a test's buffers are names.
LEMMA NamesOfBuffers ==
  ASSUME NEW k \in 1 .. Len(kTests)
  PROVE  DOMAIN Sizes(kTests[k]) \subseteq Names \ {"framebuffer"}
<1>1. k \in 1 .. 19
  BY TestsAreTests
<1>2. IF k = kSwitching THEN IsSwitching(kTests[k]) ELSE Passing(kTests[k])
  BY <1>1, AllTestsPass
<1>3. QED BY <1>2 DEF IsSwitching, Passing

\* Memory has what is allocated from one instruction to the next.
LEMMA MemoryGoesOn ==
  ASSUME IInv, ~Ended, IsMemory(memory, Allocated), GoesWell, instruction.op # "free"
  PROVE  IsMemory(memory', Allocated')
<1> DEFINE p == kTests[test]  a == AllocatesAt(p)  sz == Sizes(p)
<1>1. /\ IsTest(p) /\ pc \in 1 .. Len(p) /\ Len(p) \in Nat /\ test \in 1 .. Len(kTests) /\ a \in Nat
      /\ instruction.op \in {"init", "framebuffer"} => pc < a
      /\ instruction.op = "allocate" => pc = a
      /\ instruction.op \notin {"init", "framebuffer", "allocate"} => pc > a
  BY Instruction DEF IInv
<1>2. test' = test /\ pc' = pc + 1
  BY DEF GoesWell, GoesOrdinarily, Step
<1>3. Allocated' = IF pc + 1 > a THEN sz ELSE Nothing
  BY <1>2 DEF Allocated, Nothing
<1>4. Allocated = IF pc > a THEN sz ELSE Nothing
  BY DEF Allocated, Nothing
<1>5. DOMAIN sz \subseteq Names \ {"framebuffer"}
  BY <1>1, NamesOfBuffers
<1>6. instruction.op = "allocate" => sizes = sz
  BY <1>1 DEF sizes, instruction, Sizes
<1> HIDE DEF p, a, sz
<1>7. CASE instruction.op \in {"init", "framebuffer"}
  <2>1. Allocated' = Allocated /\ memory' = memory
    BY <1>1, <1>3, <1>4, <1>7 DEF GoesWell, GoesOrdinarily
  <2>2. QED BY <2>1
<1>8. CASE instruction.op = "allocate"
  <2>1. Allocated' = sz /\ Allocated = Nothing
    BY <1>1, <1>3, <1>4, <1>8
  <2>2. memory' = [buf \in DOMAIN memory |-> IF buf \in DOMAIN sz THEN [i \in 0 .. sz[buf] - 1 |-> -1] ELSE memory[buf]]
    BY <1>6, <1>8 DEF GoesWell
  <2>3. QED BY <1>5, <2>1, <2>2, AllocatedMemory
<1>9. CASE instruction.op \notin {"init", "framebuffer", "allocate"}
  <2>1. Allocated' = Allocated
    BY <1>1, <1>3, <1>4, <1>9
  <2>2. memory' = memory \/ \E w : memory' = Written(memory, w)
    BY <1>9 DEF GoesWell, GoesOrdinarily
  <2>3. QED BY <2>1, <2>2, WrittenIsMemory
<1>10. QED BY <1>7, <1>8, <1>9

\* A step from one instruction to the next leaves all as it should be,
LEMMA StepIsWell ==
  ASSUME IInv, ~Ended, WorksInv, GoesWell, instruction.op # "free"
  PROVE  WorksInv'
<1>1. test' = test
  BY DEF GoesWell, GoesOrdinarily, Step
<1>2. IsMemory(memory, Allocated)
  BY DEF WorksInv
<1>3. IsMemory(memory', Allocated')
  BY <1>2, MemoryGoesOn
<1>4. CASE test = kSwitching
  <2>1. SwitchInv
    BY <1>4 DEF WorksInv
  <2>2. SwitchInv'
    BY <1>4, <2>1, SwitchingGoesOn
  <2>3. QED BY <1>1, <1>3, <1>4, <2>2 DEF WorksInv
<1>5. CASE test # kSwitching
  <2>1. OrdinaryInv
    BY <1>5 DEF WorksInv
  <2>2. pc > AllocatesAt(kTests[test]) => IsMemory(memory, Sizes(kTests[test]))
    BY <1>2 DEF Allocated
  <2>3. OrdinaryInv'
    BY <1>5, <2>1, <2>2, OrdinaryGoesOn DEF GoesWell
  <2>4. QED BY <1>1, <1>3, <1>5, <2>3 DEF WorksInv
<1>6. QED BY <1>4, <1>5

\* and so does a step from one test to the next.
LEMMA NextTestIsWell ==
  ASSUME IInv, IInv', ~Ended, WorksInv, ~excused', NextTest, instruction.op \in {"framebuffer", "free"},
         UNCHANGED <<memory, channel>>
  PROVE  WorksInv'
<1> SUFFICES ASSUME ~Ended' PROVE WorksInv'
  BY DEF WorksInv
<1>1. channel = "live"
  <2>1. CASE test = kSwitching
    <3>1. SwitchInv /\ IsSwitching(kTests[test]) /\ pc \in 1 .. 12 /\ instruction = kTests[test][pc]
      BY <2>1, SwitchingInstruction DEF WorksInv, IInv
    <3>2. pc = 12
      BY <3>1 DEF IsSwitching
    <3>3. QED BY <3>1, <3>2 DEF SwitchInv
  <2>2. CASE test # kSwitching
    BY <2>2 DEF WorksInv, OrdinaryInv, TransfersInv
  <2>3. QED BY <2>1, <2>2
<1>2. pc' = 1 /\ channel' = "live"
  BY <1>1 DEF NextTest
<1>3. (IF test = kSwitching THEN SwitchInv ELSE OrdinaryInv)'
  BY <1>2, Begins
<1>5. Allocated' = Nothing
  BY <1>2 DEF Allocated, Nothing, AllocatesAt
<1>6. IsMemory(memory', Allocated')
  BY <1>5, LessAllocated DEF WorksInv
<1>7. QED BY <1>3, <1>6 DEF WorksInv

\* A comparison or a look at the record goes well.
LEMMA ChecksPass ==
  ASSUME IInv, ~Ended, WorksInv, fault = "none", ~excused, pass, CheckStep \/ RecordStep
  PROVE  pass'
<1>1. CASE CheckStep
  <2>1. instruction.op = "check" /\ ~armed /\ pushbuffer = <<>>
    BY <1>1, NothingWaits DEF CheckStep, At
  <2>2. test # kSwitching
    <3>1. ASSUME test = kSwitching PROVE FALSE
      <4>1. IsSwitching(kTests[test]) /\ pc \in 1 .. 12 /\ instruction = kTests[test][pc]
        BY <3>1, SwitchingInstruction DEF IInv
      <4>2. QED BY <2>1, <4>1 DEF IsSwitching
    <3>2. QED BY <3>1
  <2>3. DataInv /\ pc \in Nat /\ instruction = kTests[test][pc]
    BY <2>2, Instruction DEF WorksInv, OrdinaryInv, IInv, instruction
  <2>4. Remaining = <<>> /\ instruction.op \in DOMAIN Distance /\ pc + Distance[instruction.op] = pc
    BY <2>1, <2>3 DEF Remaining, Distance
  <2>5. Satisfied(Effect(memory, Remaining, "none"), instruction.conditions)
    BY <2>1, <2>3, <2>4 DEF DataInv
  <2>6. Satisfied(memory, instruction.conditions)
    BY <2>4, <2>5, NothingRemains
  <2>7. QED BY <1>1, <2>6 DEF CheckStep, Satisfied
<1>2. CASE RecordStep
  <2>1. instruction.op = "record"
    BY <1>2 DEF RecordStep, At
  <2>2. RecordHolds
    <3>1. CASE test = kSwitching
      <4>1. SwitchInv /\ IsSwitching(kTests[test]) /\ pc \in 1 .. 12 /\ instruction = kTests[test][pc]
        BY <3>1, SwitchingInstruction DEF WorksInv, IInv
      <4>2. pc \in {8, 11}
        BY <2>1, <4>1 DEF IsSwitching
      <4>3. CASE pc = 8
        <5>1. instruction.condition = "unchanged" /\ live = prev_rec
          BY <4>1, <4>3 DEF IsSwitching, SwitchInv
        <5>2. QED BY <5>1 DEF RecordHolds
      <4>4. CASE pc = 11
        <5>1. instruction.condition = "advanced" /\ Advanced
          BY <4>1, <4>4 DEF IsSwitching, SwitchInv
        <5>2. QED BY <5>1 DEF RecordHolds, Advanced
      <4>5. QED BY <4>2, <4>3, <4>4
    <3>2. CASE test # kSwitching
      <4>1. Proper(kTests[test], pc, Sizes(kTests[test])) /\ instruction = kTests[test][pc]
        BY <2>1, <3>2, OrdinaryInstruction DEF IInv
      <4>2. instruction.condition = "written"
        BY <2>1, <4>1 DEF Proper
      <4>3. Fresh
        BY <2>1, <3>2 DEF WorksInv, OrdinaryInv, RecordInv
      <4>4. QED BY <4>2, <4>3 DEF RecordHolds, Fresh
    <3>3. QED BY <3>1, <3>2
  <2>3. QED BY <1>2, <2>2 DEF RecordStep
<1>3. QED BY <1>1, <1>2

\* How the thread goes on, if it is not gpum_copy that starts and nothing goes wrong.
LEMMA ThreadGoes ==
  ASSUME IInv, ~excused,
         M2MFInit \/ (Framebuffer /\ Step) \/ Allocate \/ PrepareStep \/ GpumCopyReturns \/ PushStep \/ PBKitBusyWait
             \/ CheckStep \/ RecordStep \/ Dump
  PROVE  ~Ended /\ GoesWell /\ instruction.op # "free" /\ ~excused' /\ fault' = fault
<1>1. PICK op \in {"init", "framebuffer", "allocate", "prepare", "copy", "push", "busy_wait", "check", "record", "dump"} :
         At(op) /\ (op = "copy" => GpumCopyReturns) /\ (op = "push" => PushStep) /\ (op = "busy_wait" => PBKitBusyWait)
         /\ (op = "prepare" => PrepareStep) /\ (op = "allocate" => Allocate) /\ (op = "dump" => Dump)
         /\ (op \in {"init", "framebuffer", "check", "record"} =>
                UNCHANGED <<memory, prev_rec, armed, pushbuffer>>)
  BY DEF M2MFInit, Framebuffer, Allocate, PrepareStep, GpumCopyReturns, PushStep, PBKitBusyWait, CheckStep, RecordStep,
              Dump, buffers, gpu
<1>2. ~Ended /\ instruction.op = op
  BY <1>1 DEF At
<1>3. Step /\ UNCHANGED <<live, channel>>
  BY DEF M2MFInit, Framebuffer, Allocate, PrepareStep, GpumCopyReturns, PushStep, PBKitBusyWait, CheckStep, RecordStep,
              Dump, gpu
<1>4. op \notin {"copy", "busy_wait"} => ~armed /\ pushbuffer = <<>>
  BY <1>1, NothingWaits
<1>5. op = "copy" => armed /\ live.status = 0 /\ ~armed' /\ UNCHANGED <<memory, pushbuffer, prev_rec>>
  BY <1>1 DEF GpumCopyReturns, buffers, gpu
<1>6. op = "copy" => pushbuffer = <<>>
  BY <1>2, <1>5 DEF IInv, QueueInv
<1>7. op = "busy_wait" => pushbuffer = <<>> /\ ~armed /\ UNCHANGED <<memory, pushbuffer, prev_rec, armed>>
  BY <1>1, <1>2 DEF PBKitBusyWait, Drained, buffers, gpu, IInv, PlaceInv, At
<1>8. op = "push" => pushbuffer' = instruction.commands /\ UNCHANGED <<memory, prev_rec, armed>>
  <2>1. ASSUME op = "push" PROVE pushbuffer' = instruction.commands /\ UNCHANGED <<memory, prev_rec, armed>>
    <3>1. pushbuffer = <<>> /\ pushbuffer' = pushbuffer \o instruction.commands /\ UNCHANGED <<memory, prev_rec, armed>>
      BY <1>1, <1>4, <2>1 DEF PushStep, buffers
    <3>2. PICK S : instruction.commands \in Seq(S)
      BY <1>2, <2>1, Instruction DEF IInv, IsSequence
    <3>3. <<>> \o instruction.commands = instruction.commands
      BY <3>2
    <3>4. QED BY <3>1, <3>3
  <2>2. QED BY <2>1
<1>9. op = "prepare" => memory' = Written(memory, instruction.writes) /\ UNCHANGED <<prev_rec, armed, pushbuffer>>
  BY <1>1 DEF PrepareStep, gpu
<1>10. op = "allocate" => /\ memory' = [buf \in DOMAIN memory |->
                                 IF buf \in DOMAIN sizes THEN [i \in 0 .. sizes[buf] - 1 |-> -1] ELSE memory[buf]]
                          /\ UNCHANGED <<prev_rec, armed, pushbuffer>>
  BY <1>1 DEF Allocate, gpu
<1>11. op = "dump" => prev_rec' = live /\ UNCHANGED <<memory, armed, pushbuffer>>
  BY <1>1 DEF Dump, buffers, gpu
<1>12. GoesOrdinarily
  BY <1>1, <1>2, <1>3, <1>4, <1>5, <1>6, <1>7, <1>8, <1>9, <1>10, <1>11 DEF GoesOrdinarily
<1>13. GoesWell
  BY <1>1, <1>2, <1>5, <1>7, <1>8, <1>9, <1>10, <1>11, <1>12 DEF GoesWell
<1>14. UNCHANGED <<excused, fault>>
  BY DEF M2MFInit, Framebuffer, Allocate, PrepareStep, GpumCopyReturns, PushStep, PBKitBusyWait, CheckStep, RecordStep, Dump
<1>15. QED BY <1>1, <1>2, <1>13, <1>14

\* The thread's steps go so,
LEMMA ThreadIsWell ==
  ASSUME IInv, IInv', WorksInv, fault = "none", ~excused, ~excused', pass, Thread
  PROVE  pass' /\ WorksInv'
<1>1. CASE M2MFInitFails \/ AllocateFails \/ GpumCopyGivesUp
  BY <1>1 DEF M2MFInitFails, AllocateFails, GpumCopyGivesUp
<1>2. CASE GpumCopyStarts
  <2>1. ~Ended /\ UNCHANGED <<memory, channel, test, pc, pass>>
    BY <1>2 DEF GpumCopyStarts, At, buffers
  <2>2. (Ended <=> Ended') /\ Allocated' = Allocated
    BY <2>1 DEF Ended, Allocated
  <2>3. CASE test = kSwitching
    <3>1. SwitchInv /\ IsSwitching(kTests[test]) /\ pc \in 1 .. 12 /\ instruction = kTests[test][pc]
      BY <2>1, <2>3, SwitchingInstruction DEF WorksInv, IInv
    <3>2. instruction.op = "copy"
      BY <1>2 DEF GpumCopyStarts, At
    <3>3. pc = 4
      BY <3>1, <3>2 DEF IsSwitching
    <3>4. SwitchInv'
      BY <2>1, <3>1, <3>3 DEF SwitchInv
    <3>5. QED BY <2>1, <2>2, <2>3, <3>4 DEF WorksInv
  <2>4. CASE test # kSwitching
    <3>1. OrdinaryInv'
      BY <1>2, <2>1, <2>4, OrdinaryCopyStarts DEF WorksInv
    <3>2. QED BY <2>1, <2>2, <2>4, <3>1 DEF WorksInv
  <2>5. QED BY <2>3, <2>4
<1>3. CASE Free \/ (Framebuffer /\ NextTest)
  <2>1. ~Ended /\ NextTest /\ instruction.op \in {"framebuffer", "free"} /\ UNCHANGED <<memory, channel, pass>>
    BY <1>3 DEF Free, Framebuffer, At, buffers, gpu
  <2>2. QED BY <2>1, NextTestIsWell
<1>4. CASE M2MFInit \/ (Framebuffer /\ Step) \/ Allocate \/ PrepareStep \/ GpumCopyReturns \/ PushStep \/ PBKitBusyWait
           \/ CheckStep \/ RecordStep \/ Dump
  <2>1. ~Ended /\ GoesWell /\ instruction.op # "free"
    BY <1>4, ThreadGoes
  <2>2. WorksInv'
    BY <2>1, StepIsWell
  <2>3. pass'
    <3>1. CASE CheckStep \/ RecordStep
      BY <2>1, <3>1, ChecksPass
    <3>2. CASE ~(CheckStep \/ RecordStep)
      BY <1>4, <3>2 DEF M2MFInit, Framebuffer, Allocate, PrepareStep, GpumCopyReturns, PushStep, PBKitBusyWait, Dump
    <3>3. QED BY <3>1, <3>2
  <2>4. QED BY <2>2, <2>3
<1>5. QED BY <1>1, <1>2, <1>3, <1>4 DEF Thread, Framebuffer

\* and so do the GPU's.
LEMMA GpuIsWell ==
  ASSUME IInv, WorksInv, fault = "none", ~excused, Gpu
  PROVE  WorksInv'
<1>1. memory' = One(memory, Head(pushbuffer), "none") /\ UNCHANGED <<test, pc>>
  BY GpuWorks
<1>2. (Ended <=> Ended') /\ Allocated' = Allocated
  BY <1>1 DEF Ended, Allocated
<1>3. CASE Ended
  BY <1>2, <1>3 DEF WorksInv
<1>4. CASE ~Ended
  <2>1. IsMemory(memory', Allocated')
    BY <1>1, <1>2, <1>4, OneIsMemory DEF WorksInv
  <2>2. CASE test = kSwitching
    <3>1. SwitchInv'
      BY <1>4, <2>2, SwitchingGpu DEF WorksInv
    <3>2. QED BY <1>1, <2>1, <2>2, <3>1 DEF WorksInv
  <2>3. CASE test # kSwitching
    <3>1. OrdinaryInv'
      BY <1>4, <2>3, OrdinaryGpu DEF WorksInv
    <3>2. QED BY <1>1, <2>1, <2>3, <3>1 DEF WorksInv
  <2>4. QED BY <2>2, <2>3
<1>5. QED BY <1>3, <1>4

\* Every test passes, in every state the suite comes to on such a GPU, for
\* every number of values a byte has and every size of the guards: no test
\* compares before the GPU has done what it is to compare, and what the test
\* before it left in memory, in the push buffer or in the record fails none.
THEOREM NoTestFailsFalsely == Spec => []NoFalseFailure
<1>1. Init => GoodInv
  <2> SUFFICES ASSUME Init PROVE GoodInv
    OBVIOUS
  <2>1. test = 1 /\ pc = 1 /\ ~excused /\ pass /\ channel = "live" /\ pushbuffer = <<>> /\ ~armed
    BY DEF Init
  <2>2. IsTest(kTests[1])
    BY TestsAreTests
  <2>3. instruction.op = "init"
    BY <2>1, <2>2 DEF instruction, IsTest
  <2>4. Len(<<>>) = 0
    OBVIOUS
  <2>5. OrdinaryInv
    BY <2>1, <2>3, <2>4 DEF OrdinaryInv, TransfersInv, DataInv, RecordInv, Distance
  <2>6. Allocated = Nothing
    BY <2>1 DEF Allocated, AllocatesAt, Nothing
  <2>7. IsMemory(memory, Allocated) /\ test # kSwitching
    BY <2>1, <2>6, InitMemory DEF kSwitching
  <2>8. QED BY <2>1, <2>5, <2>7 DEF GoodInv, WorksInv
<1>2. IInv /\ IInv' /\ GoodInv /\ [Next]_vars => GoodInv'
  <2> SUFFICES ASSUME IInv, IInv', GoodInv, [Next]_vars, fault' = "none", ~excused' PROVE pass' /\ WorksInv'
    BY DEF GoodInv
  <2>1. fault = "none" /\ ~excused
    BY DEF Next, Gpu, GpuNotify, GpuTransfer, Thread, M2MFInit, M2MFInitFails, Framebuffer, Allocate, AllocateFails,
           PrepareStep, GpumCopyStarts, GpumCopyReturns, GpumCopyGivesUp, PushStep, PBKitBusyWait, CheckStep, RecordStep,
           Dump, Free, End, vars
  <2>2. pass /\ WorksInv
    BY <2>1 DEF GoodInv
  <2>3. CASE Thread
    BY <2>1, <2>2, <2>3, ThreadIsWell
  <2>4. CASE Gpu
    <3>1. pass' = pass
      BY <2>1, <2>4, GpuWorks
    <3>2. QED BY <2>1, <2>2, <2>4, <3>1, GpuIsWell
  <2>5. CASE UNCHANGED vars
    <3>1. UNCHANGED <<memory, pushbuffer, live, channel, test, pc, armed, prev_rec, pass>>
      BY <2>5 DEF vars, buffers, gpu, position
    <3>2. instruction' = instruction /\ (Ended <=> Ended') /\ Allocated' = Allocated
      BY <3>1 DEF instruction, Ended, Allocated
    <3>3. Remaining' = Remaining
      BY <3>1, <3>2 DEF Remaining
    <3>4. QED BY <2>2, <3>1, <3>2, <3>3 DEF WorksInv, OrdinaryInv, TransfersInv, DataInv, RecordInv, Fresh, SwitchInv,
                                             HandingOver, Advanced
  <2>6. QED BY <2>3, <2>4, <2>5 DEF Next, End
<1>3. GoodInv => NoFalseFailure
  BY DEF GoodInv, NoFalseFailure
<1>4. QED BY <1>1, <1>2, <1>3, Invariance, PTL DEF Spec

-----------------------------------------------------------------------------
(***************************************************************************)
(* Which test finds which fault of a GPU.  Each fault shows in one byte of *)
(* one comparison, or in one look at the record: the suite cannot get past *)
(* it and still pass.                                                      *)
(***************************************************************************)

(* The first byte of a pattern *)

\* A set of numbers that is not empty has a least one,
LEMMA Least ==
  ASSUME NEW T \in SUBSET Nat, T # {}
  PROVE  \E x \in T : \A y \in T : x <= y
<1> DEFINE R == OpToRel(<, Nat)
<1>1. IsWellFoundedOn(R, Nat)
  BY NatLessThanWellFounded
<1>2. \A x, y \in Nat : <<x, y>> \in R <=> x < y
  BY DEF OpToRel
<1> HIDE DEF R
<1>3. PICK x \in T : \A y \in T : ~ (<<y, x>> \in R)
  BY <1>1, WFMin
<1>4. ASSUME NEW y \in T PROVE x <= y
  <2>1. ~ (y < x) /\ x \in Nat /\ y \in Nat
    BY <1>2, <1>3
  <2>2. QED BY <2>1
<1>5. QED BY <1>4

\* so one that has 0, and with a number the next, has all.
LEMMA Counting ==
  ASSUME NEW S \in SUBSET Nat, 0 \in S, \A n \in S : n + 1 \in S
  PROVE  S = Nat
<1> SUFFICES ASSUME Nat \ S # {} PROVE FALSE
  OBVIOUS
<1>1. PICK x \in Nat \ S : \A y \in Nat \ S : x <= y
  BY Least
<1>2. x # 0 /\ x - 1 \in Nat /\ (x - 1) + 1 = x
  BY <1>1
<1>3. x - 1 \in S
  BY <1>1, <1>2
<1>4. QED BY <1>1, <1>2, <1>3

\* A pattern begins with its seed.
LEMMA FirstByte ==
  ASSUME NEW first, NEW val, NEW n
  PROVE  ByteAfter(first, val, 0, n) = val
<1> DEFINE following == [v \in 0 .. n - 1, j \in 0 .. n - 1 |-> Xor((v * 109 + 89) % n, j)]
           F(v, j) == following[v, (first + j - 1) % n]
           IsByte(b) == b = [j \in Nat |-> IF j = 0 THEN val ELSE F(b[j - 1], j)]
<1>1. ByteAfter(first, val, 0, n) = (CHOOSE b : IsByte(b))[0]
  BY DEF ByteAfter
<1> HIDE DEF F
\* There are beginnings of every length,
<1> DEFINE Starts(g, k) == DOMAIN g = 0 .. k /\ \A j \in 0 .. k : g[j] = IF j = 0 THEN val ELSE F(g[j - 1], j)
<1>2. ASSUME NEW k \in Nat PROVE \E g : Starts(g, k)
  <2> DEFINE S == {l \in Nat : \E g : Starts(g, l)}
  <2>1. 0 \in S
    <3> DEFINE g == [j \in 0 .. 0 |-> val]
    <3>1. Starts(g, 0)
      OBVIOUS
    <3>2. QED BY <3>1
  <2>2. ASSUME NEW l \in S PROVE l + 1 \in S
    <3>1. PICK g : Starts(g, l)
      OBVIOUS
    <3> DEFINE h == [j \in 0 .. l + 1 |-> IF j = l + 1 THEN F(g[l], l + 1) ELSE g[j]]
    <3>2. l \in Nat /\ l + 1 \in Nat /\ l + 1 # 0 /\ (l + 1) - 1 = l /\ l \in 0 .. l /\ l # l + 1
      OBVIOUS
    <3>3. \A j \in 0 .. l : j \in 0 .. l + 1 /\ j # l + 1 /\ (j # 0 => j - 1 \in 0 .. l)
      BY <3>2
    <3>4. \A j \in 0 .. l : h[j] = g[j]
      BY <3>3
    <3>5. h[l + 1] = F(g[l], l + 1) /\ DOMAIN h = 0 .. l + 1
      BY <3>2
    <3>6. \A j \in 0 .. l + 1 : j \in 0 .. l \/ j = l + 1
      BY <3>2
    <3> HIDE DEF h
    <3>7. ASSUME NEW j \in 0 .. l + 1 PROVE h[j] = IF j = 0 THEN val ELSE F(h[j - 1], j)
      <4>1. CASE j \in 0 .. l
        <5>1. g[j] = IF j = 0 THEN val ELSE F(g[j - 1], j)
          BY <3>1, <4>1
        <5>2. CASE j = 0
          BY <3>4, <4>1, <5>1, <5>2
        <5>3. CASE j # 0
          <6>1. h[j - 1] = g[j - 1] /\ h[j] = g[j]
            BY <3>3, <3>4, <4>1, <5>3
          <6>2. QED BY <5>1, <5>3, <6>1
        <5>4. QED BY <5>2, <5>3
      <4>2. CASE j = l + 1
        <5>1. j # 0 /\ j - 1 = l /\ h[l] = g[l]
          BY <3>2, <3>4, <4>2
        <5>2. QED BY <3>5, <4>2, <5>1
      <4>3. QED BY <3>6, <4>1, <4>2
    <3>8. Starts(h, l + 1)
      BY <3>5, <3>7
    <3>9. QED BY <3>2, <3>8
  <2> HIDE DEF S
  <2>3. S \in SUBSET Nat
    BY DEF S
  <2>4. S = Nat
    BY <2>1, <2>2, <2>3, Counting
  <2>5. QED BY <2>4 DEF S
\* and one is the beginning of a longer one,
<1>3. ASSUME NEW k \in Nat, NEW g, Starts(g, k), NEW h, Starts(h, k + 1) PROVE g[k] = h[k]
  <2> DEFINE S == {l \in Nat : l <= k => g[l] = h[l]}
  <2>1. 0 \in S
    <3>1. 0 \in 0 .. k /\ 0 \in 0 .. k + 1
      OBVIOUS
    <3>2. g[0] = val /\ h[0] = val
      BY <1>3, <3>1
    <3>3. QED BY <3>2
  <2>2. ASSUME NEW l \in S PROVE l + 1 \in S
    <3>1. l \in Nat /\ l + 1 \in Nat /\ l + 1 # 0 /\ (l + 1) - 1 = l
      OBVIOUS
    <3>2. ASSUME l + 1 <= k PROVE g[l + 1] = h[l + 1]
      <4>1. l <= k /\ l + 1 \in 0 .. k /\ l + 1 \in 0 .. k + 1
        BY <3>1, <3>2
      <4>2. g[l] = h[l]
        BY <4>1
      <4>3. g[l + 1] = F(g[l], l + 1)
        BY <1>3, <3>1, <4>1
      <4>4. h[l + 1] = F(h[l], l + 1)
        BY <1>3, <3>1, <4>1
      <4>5. QED BY <4>2, <4>3, <4>4
    <3>3. QED BY <3>1, <3>2
  <2> HIDE DEF S
  <2>3. S \in SUBSET Nat
    BY DEF S
  <2>4. k \in S
    BY <2>1, <2>2, <2>3, Counting
  <2>5. k <= k
    OBVIOUS
  <2>6. QED BY <2>4, <2>5 DEF S
\* so there is one of all lengths.
<1> DEFINE g(k) == CHOOSE g : Starts(g, k)
           f == [k \in Nat |-> g(k)[k]]
<1>4. \A k \in Nat : Starts(g(k), k)
  <2> SUFFICES ASSUME NEW k \in Nat PROVE Starts(g(k), k)
    OBVIOUS
  <2> HIDE DEF Starts
  <2>1. QED BY <1>2
<1> HIDE DEF g
<1>5. ASSUME NEW j \in Nat PROVE f[j] = IF j = 0 THEN val ELSE F(f[j - 1], j)
  <2>1. f[j] = g(j)[j] /\ j \in 0 .. j
    OBVIOUS
  <2>2. g(j)[j] = IF j = 0 THEN val ELSE F(g(j)[j - 1], j)
    BY <1>4, <2>1
  <2>3. ASSUME j # 0 PROVE g(j)[j - 1] = f[j - 1]
    <3>1. j - 1 \in Nat /\ (j - 1) + 1 = j
      BY <2>3
    <3>2. Starts(g(j - 1), j - 1) /\ Starts(g(j), (j - 1) + 1)
      BY <1>4, <3>1
    <3> HIDE DEF Starts
    <3>3. g(j - 1)[j - 1] = g(j)[j - 1]
      BY <1>3, <3>1, <3>2
    <3>4. QED BY <3>1, <3>3
  <2>4. QED BY <2>1, <2>2, <2>3
<1>6. IsByte(f)
  <2>1. DOMAIN f = Nat /\ f = [j \in Nat |-> f[j]]
    OBVIOUS
  <2> HIDE DEF f
  <2>2. [j \in Nat |-> f[j]] = [j \in Nat |-> IF j = 0 THEN val ELSE F(f[j - 1], j)]
    BY <1>5
  <2>3. QED BY <2>1, <2>2
<1>7. IsByte(CHOOSE b : IsByte(b))
  BY <1>6
<1>8. \A b : IsByte(b) => b[0] = val
  OBVIOUS
<1> HIDE DEF IsByte
<1>9. QED BY <1>1, <1>7, <1>8

LEMMA PatternsBegin == \A seed \in 0 .. kByteSize - 1 : Patterns[seed][0] = seed
<1> SUFFICES ASSUME NEW seed \in 0 .. kByteSize - 1 PROVE Patterns[seed][0] = seed
  OBVIOUS
<1>1. 0 \in 0 .. kMaxSpan - 1
  BY Units DEF kMaxSpan
<1>2. Patterns[seed][0] = ByteAfter(0, seed, 0, kByteSize)
  BY <1>1 DEF Patterns
<1>3. QED BY <1>2, FirstByte

-----------------------------------------------------------------------------
(* Steps after which no test has failed *)

\* From one instruction to the next, past no comparison that fails.
GoesOnPassing ==
    /\ ~Ended /\ GoesWell /\ instruction.op # "free"
    /\ instruction.op = "check" => Satisfied(memory, instruction.conditions)
    /\ instruction.op = "record" => RecordHolds
    /\ instruction.op = "copy" => live.status = 0

\* From one test to the next.
EndsPassing ==
    /\ ~Ended /\ NextTest /\ instruction.op \in {"framebuffer", "free"}
    /\ UNCHANGED <<memory, live, channel, pushbuffer, prev_rec>>

\* There are no others: a test that has failed has failed for good, and what goes
\* wrong otherwise fails a test.
LEMMA PassingSteps ==
  ASSUME IInv, [Next]_vars, ~excused, pass'
  PROVE  /\ pass /\ ~excused' /\ fault' = fault
         /\ UNCHANGED vars \/ Gpu \/ GpumCopyStarts \/ EndsPassing \/ GoesOnPassing
<1>1. CASE UNCHANGED vars \/ End
  <2>1. UNCHANGED vars
    BY <1>1 DEF End
  <2>2. fault' = fault /\ pass' = pass /\ excused' = excused
    BY <2>1 DEF vars
  <2>3. QED BY <2>1, <2>2
<1>2. CASE Gpu
  <2>1. fault' = fault /\ pass' = pass /\ excused' = excused
    BY <1>2 DEF Gpu, GpuNotify, GpuTransfer
  <2>2. QED BY <1>2, <2>1
<1>3. CASE GpumCopyStarts
  BY <1>3 DEF GpumCopyStarts
<1>4. CASE M2MFInitFails \/ AllocateFails \/ GpumCopyGivesUp
  BY <1>4 DEF M2MFInitFails, AllocateFails, GpumCopyGivesUp
<1>5. CASE Free \/ (Framebuffer /\ NextTest)
  <2>1. fault' = fault /\ pass' = pass /\ excused' = excused
    BY <1>5 DEF Free, Framebuffer
  <2>2. EndsPassing
    BY <1>5 DEF Free, Framebuffer, At, buffers, gpu, EndsPassing
  <2>3. QED BY <2>1, <2>2
<1>6. CASE M2MFInit \/ (Framebuffer /\ Step) \/ Allocate \/ PrepareStep \/ GpumCopyReturns \/ PushStep \/ PBKitBusyWait
           \/ CheckStep \/ RecordStep \/ Dump
  <2>1. ~Ended /\ GoesWell /\ instruction.op # "free" /\ ~excused' /\ fault' = fault
    BY <1>6, ThreadGoes
  <2>2. pass
    BY <1>6 DEF M2MFInit, Framebuffer, Allocate, PrepareStep, GpumCopyReturns, PushStep, PBKitBusyWait, CheckStep, RecordStep,
                Dump
  <2>3. instruction.op = "check" => CheckStep
    BY <1>6 DEF M2MFInit, Framebuffer, Allocate, PrepareStep, GpumCopyReturns, PushStep, PBKitBusyWait, RecordStep, Dump, At
  <2>4. instruction.op = "record" => RecordStep
    BY <1>6 DEF M2MFInit, Framebuffer, Allocate, PrepareStep, GpumCopyReturns, PushStep, PBKitBusyWait, CheckStep, Dump, At
  <2>5. instruction.op = "copy" => GpumCopyReturns
    BY <1>6 DEF M2MFInit, Framebuffer, Allocate, PrepareStep, PushStep, PBKitBusyWait, CheckStep, RecordStep, Dump, At
  <2>6. instruction.op = "check" => Satisfied(memory, instruction.conditions)
    BY <2>3 DEF CheckStep, Satisfied
  <2>7. (instruction.op = "record" => RecordHolds) /\ (instruction.op = "copy" => live.status = 0)
    BY <2>4, <2>5 DEF RecordStep, GpumCopyReturns
  <2>8. QED BY <2>1, <2>2, <2>6, <2>7 DEF GoesOnPassing
<1>7. QED BY <1>1, <1>2, <1>3, <1>4, <1>5, <1>6 DEF Next, Thread, Framebuffer

\* Memory has what is allocated, whatever the GPU does.
MemoryInv == ~Ended => IsMemory(memory, Allocated)

LEMMA MemoryStays ==
  ASSUME IInv, MemoryInv, [Next]_vars, ~excused, pass'
  PROVE  MemoryInv'
<1> SUFFICES ASSUME ~Ended' PROVE IsMemory(memory', Allocated')
  BY DEF MemoryInv
<1>1. UNCHANGED vars \/ Gpu \/ GpumCopyStarts \/ EndsPassing \/ GoesOnPassing
  BY PassingSteps
<1>2. CASE UNCHANGED vars \/ Gpu \/ GpumCopyStarts
  <2>1. UNCHANGED <<test, pc>>
    BY <1>2 DEF vars, position, Gpu, GpuNotify, GpuTransfer, GpumCopyStarts
  <2>2. ~Ended /\ Allocated' = Allocated
    BY <2>1 DEF Ended, Allocated
  <2>3. memory' = memory \/ \E x : memory' = One(memory, x, fault)
    BY <1>2 DEF vars, buffers, Gpu, GpuNotify, GpuTransfer, GpumCopyStarts, One
  <2>4. QED BY <2>2, <2>3, OneIsMemory DEF MemoryInv
<1>3. CASE EndsPassing
  <2>1. Allocated' = Nothing /\ memory' = memory
    BY <1>3 DEF EndsPassing, NextTest, Allocated, Nothing, AllocatesAt
  <2>2. QED BY <1>3, <2>1, LessAllocated DEF EndsPassing, MemoryInv
<1>4. CASE GoesOnPassing
  BY <1>4, MemoryGoesOn DEF GoesOnPassing, MemoryInv
<1>5. QED BY <1>1, <1>2, <1>3, <1>4

-----------------------------------------------------------------------------
(* A fault that shows in one comparison *)

\* The comparison after instruction k of a test, of what has been copied from what
\* instruction k wrote: it fails on a GPU that is wrong so, whatever was in memory.
Exposes(p, k, wrong) ==
    /\ k \in Nat /\ k > AllocatesAt(p) /\ AllocatesAt(p) = 2 /\ k + 2 < Len(p)
    /\ p[k].op = "prepare" /\ p[k + 1].op = "copy" /\ p[k + 2].op = "check"
    /\ \A m : IsMemory(m, Sizes(p)) =>
          ~Satisfied(One(Written(m, p[k].writes), p[k + 1].transfer, wrong), p[k + 2].conditions)

\* The suite has not come past it; and once the transfer is to be made, it will fail.
SoonInv(i, k) ==
    /\ test < i \/ (test = i /\ pc <= k + 2)
    /\ test = i /\ pc = k + 1 =>
          ~Satisfied(IF armed /\ pushbuffer = <<>> THEN memory ELSE One(memory, instruction.transfer, fault),
                     kTests[i][k + 2].conditions)
    /\ test = i /\ pc = k + 2 => ~Satisfied(memory, instruction.conditions)

\* The thread stands in test i, before its frees.
LEMMA StandsBefore ==
  ASSUME IInv, NEW i \in 1 .. 19, AllocatesAt(kTests[i]) = 2, NEW l \in Nat, l < Len(kTests[i]),
         ~Ended, test = i, pc <= l
  PROVE  /\ pc \in 1 .. l /\ pc \in Nat /\ instruction = kTests[i][pc] /\ instruction.op \notin {"framebuffer", "free"}
         /\ IsTest(kTests[i])
<1>1. /\ pc \in 1 .. Len(kTests[test]) /\ Len(kTests[test]) \in Nat /\ IsTest(kTests[test])
      /\ instruction.op \in {"init", "framebuffer"} => pc < 2
      /\ instruction.op # "free" => pc < Len(kTests[test])
  BY Instruction DEF IInv
<1>2. instruction = kTests[i][pc]
  BY DEF instruction
<1>3. kTests[i][1].op = "init"
  BY <1>1 DEF IsTest
<1>4. instruction.op # "framebuffer"
  BY <1>1, <1>2, <1>3
<1>5. instruction.op # "free"
  <2>1. \A j \in 3 .. Len(kTests[i]) - 1 : Sound(kTests[i], j, Buffers(kTests[i]))
    BY <1>1 DEF IsTest
  <2>2. kTests[i][2].op = "allocate"
    BY <1>1 DEF IsTest
  <2>3. pc = 1 \/ pc = 2 \/ pc \in 3 .. Len(kTests[i]) - 1
    BY <1>1
  <2>4. QED BY <1>2, <1>3, <2>1, <2>2, <2>3 DEF Sound
<1>6. QED BY <1>1, <1>2, <1>4, <1>5

LEMMA SoonFails ==
  ASSUME NEW i \in 1 .. 19, NEW k, Exposes(kTests[i], k, fault), fault # "reorders",
         IInv, IInv', MemoryInv, SoonInv(i, k), [Next]_vars, ~excused, pass'
  PROVE  SoonInv(i, k)'
<1> DEFINE p == kTests[i]
<1>1. /\ k \in Nat /\ k > 2 /\ AllocatesAt(p) = 2 /\ k + 2 < Len(p) /\ k + 2 \in Nat
      /\ p[k].op = "prepare" /\ p[k + 1].op = "copy" /\ p[k + 2].op = "check"
  BY DEF Exposes
<1>2. Len(kTests) = 19 /\ test \in Nat /\ test' \in Nat
  <2>1. Len(kTests) = 19
    BY TestsAreTests
  <2>2. test \in 1 .. Len(kTests) + 1
    BY DEF IInv, PlaceInv
  <2>3. test' \in 1 .. Len(kTests) + 1
    BY DEF IInv, PlaceInv
  <2>4. QED BY <2>1, <2>2, <2>3
<1>3. test = i => /\ ~Ended /\ pc \in 1 .. k + 2 /\ pc \in Nat /\ instruction = p[pc]
                  /\ instruction.op \notin {"framebuffer", "free"}
  <2>1. SUFFICES ASSUME test = i PROVE /\ ~Ended /\ pc \in 1 .. k + 2 /\ pc \in Nat /\ instruction = p[pc]
                                       /\ instruction.op \notin {"framebuffer", "free"}
    OBVIOUS
  <2>2. ~Ended /\ pc <= k + 2
    BY <1>2, <2>1 DEF Ended, SoonInv
  <2>3. QED BY <1>1, <2>1, <2>2, StandsBefore
<1> HIDE DEF p
<1>4. /\ pass /\ ~excused' /\ fault' = fault
      /\ UNCHANGED vars \/ Gpu \/ GpumCopyStarts \/ EndsPassing \/ GoesOnPassing
  BY PassingSteps
<1>5. CASE UNCHANGED vars
  <2>1. UNCHANGED <<test, pc, armed, pushbuffer, memory, fault>> /\ instruction' = instruction
    BY <1>5 DEF vars, buffers, gpu, position, instruction
  <2>2. QED BY <2>1 DEF SoonInv
<1>6. CASE Gpu
  <2>1. ~Turned
    BY DEF Turned
  <2>2. /\ pushbuffer # <<>> /\ pushbuffer' = Tail(pushbuffer) /\ memory' = One(memory, Head(pushbuffer), fault)
        /\ UNCHANGED <<test, pc, armed>> /\ instruction' = instruction
    BY <1>6, <2>1, GpuTakesFirst DEF instruction
  <2>3. armed \/ At("busy_wait")
    BY <2>2 DEF IInv, QueueInv
  <2>4. test = i /\ pc = k + 1 => /\ armed /\ pushbuffer = <<instruction.transfer>>
    <3>1. test = i /\ pc = k + 1 => armed
      BY <1>1, <1>3, <2>3 DEF At
    <3>2. QED BY <2>2, <3>1 DEF IInv, QueueInv
  <2>5. \A x : Head(<<x>>) = x /\ Tail(<<x>>) = <<>>
    OBVIOUS
  <2>6. test = i /\ pc = k + 1 => armed' /\ pushbuffer' = <<>> /\ memory' = One(memory, instruction.transfer, fault)
    BY <2>2, <2>4, <2>5
  <2>7. ~(test = i /\ pc = k + 2)
    BY <1>1, <1>3, <2>3 DEF At, IInv, PlaceInv
  <2>8. test = i /\ pc = k + 1 => ~Satisfied(One(memory, instruction.transfer, fault), kTests[i][k + 2].conditions)
    <3>1. ASSUME test = i, pc = k + 1 PROVE ~(armed /\ pushbuffer = <<>>)
      BY <2>2
    <3>2. QED BY <3>1 DEF SoonInv
  <2>9. QED BY <2>2, <2>6, <2>7, <2>8 DEF SoonInv
<1>7. CASE GpumCopyStarts
  <2>1. ~armed /\ instruction.op = "copy" /\ UNCHANGED <<test, pc, memory>> /\ instruction' = instruction
        /\ pushbuffer' = Append(pushbuffer, instruction.transfer) /\ armed'
    BY <1>7 DEF GpumCopyStarts, At, buffers, instruction
  <2>2. pushbuffer' # <<>>
    <3>1. PICK S : pushbuffer \in Seq(S)
      BY DEF IInv, QueueInv, IsSequence
    <3>2. \A x : Append(pushbuffer, x) # <<>>
      BY <3>1
    <3>3. QED BY <2>1, <3>2
  <2>3. ~(test = i /\ pc = k + 2)
    BY <1>1, <1>3, <2>1
  <2>4. QED BY <1>4, <2>1, <2>2, <2>3 DEF SoonInv
<1>8. CASE EndsPassing
  <2>1. test' = test + 1 /\ pc' = 1 /\ instruction.op \in {"framebuffer", "free"}
    BY <1>8 DEF EndsPassing, NextTest
  <2>2. test # i
    BY <1>3, <2>1
  <2>3. test' <= i /\ pc' < k
    BY <1>1, <1>2, <2>1, <2>2 DEF SoonInv
  <2>4. QED BY <1>1, <1>2, <2>1, <2>3 DEF SoonInv
<1>9. CASE GoesOnPassing
  <2>1. test' = test /\ pc' = pc + 1 /\ ~armed' /\ ~Ended
    BY <1>9 DEF GoesOnPassing, GoesWell, GoesOrdinarily, Step
  <2>2. CASE test # i
    BY <2>1, <2>2 DEF SoonInv
  <2>3. CASE test = i
    <3>1. instruction' = p[pc + 1] /\ instruction = p[pc] /\ pc \in 1 .. k + 2
      BY <1>3, <2>1, <2>3 DEF instruction, p
    <3>2. CASE pc < k
      BY <1>1, <2>1, <2>3, <3>1, <3>2 DEF SoonInv
    <3>3. CASE pc = k
      <4>1. IsMemory(memory, Sizes(p))
        BY <1>1, <2>1, <2>3, <3>3 DEF MemoryInv, Allocated, p
      <4>2. memory' = Written(memory, p[k].writes)
        BY <1>1, <1>9, <3>1, <3>3 DEF GoesOnPassing, GoesWell, GoesOrdinarily
      <4>3. ~Satisfied(One(memory', p[k + 1].transfer, fault), p[k + 2].conditions)
        BY <4>1, <4>2 DEF Exposes, p
      <4>4. pc' = k + 1 /\ pc' # k + 2 /\ pc' <= k + 2 /\ instruction' = p[k + 1]
        BY <1>1, <2>1, <3>1, <3>3
      <4>5. QED BY <1>4, <2>1, <2>3, <4>3, <4>4 DEF SoonInv, p
    <3>4. CASE pc = k + 1
      <4>1. armed /\ pushbuffer = <<>> /\ memory' = memory
        BY <1>1, <1>9, <3>1, <3>4 DEF GoesOnPassing, GoesWell, GoesOrdinarily
      <4>2. ~Satisfied(memory, p[k + 2].conditions)
        BY <2>3, <3>4, <4>1 DEF SoonInv, p
      <4>3. pc' = k + 2 /\ pc' # k + 1 /\ instruction' = p[k + 2]
        BY <1>1, <2>1, <3>1, <3>4
      <4>4. QED BY <1>1, <2>1, <2>3, <4>1, <4>2, <4>3 DEF SoonInv, p
    <3>5. CASE pc = k + 2
      <4>1. instruction.op = "check"
        BY <1>1, <3>1, <3>5
      <4>2. QED BY <1>9, <2>3, <3>5, <4>1 DEF SoonInv, GoesOnPassing
    <3>6. QED BY <1>1, <3>1, <3>2, <3>3, <3>4, <3>5
  <2>4. QED BY <2>2, <2>3
<1>10. QED BY <1>4, <1>5, <1>6, <1>7, <1>8, <1>9

-----------------------------------------------------------------------------
(* Where a comparison is *)

\* Sequence b is in s, after o elements.
Has(s, o, b) ==
    /\ o \in Nat /\ Len(b) \in Nat /\ Len(s) \in Nat /\ o + Len(b) <= Len(s)
    /\ \A k \in 1 .. Len(b) : s[o + k] = b[k]

LEMMA HasBoth ==
  ASSUME NEW s, NEW t, IsSequence(s), IsSequence(t)
  PROVE  IsSequence(s \o t) /\ Has(s \o t, 0, s) /\ Has(s \o t, Len(s), t)
<1> DEFINE r == s \o t
<1>1. IsSequence(r) /\ Follows(r, s, t) /\ Len(s) \in Nat /\ Len(t) \in Nat
  BY PutTogether, Joined
<1> HIDE DEF r
<1>2. \A k \in 1 .. Len(s) : 0 + k = k
  BY <1>1
<1>3. QED BY <1>1, <1>2 DEF Has, Follows, r

LEMMA HasWithin ==
  ASSUME NEW r, NEW o, NEW s, NEW n, NEW b, Has(r, o, s), Has(s, n, b)
  PROVE  Has(r, o + n, b)
<1>1. /\ o \in Nat /\ n \in Nat /\ Len(b) \in Nat /\ Len(s) \in Nat /\ Len(r) \in Nat
      /\ n + Len(b) <= Len(s) /\ o + Len(s) <= Len(r)
  BY DEF Has
<1>2. ASSUME NEW k \in 1 .. Len(b) PROVE r[(o + n) + k] = b[k]
  <2>1. n + k \in 1 .. Len(s) /\ (o + n) + k = o + (n + k)
    BY <1>1
  <2>2. r[o + (n + k)] = s[n + k] /\ s[n + k] = b[k]
    BY <2>1 DEF Has
  <2>3. QED BY <2>1, <2>2
<1>3. o + n \in Nat /\ (o + n) + Len(b) <= Len(r)
  BY <1>1
<1>4. QED BY <1>1, <1>2, <1>3 DEF Has

\* A test has its instructions after its allocations.
LEMMA TestHas ==
  ASSUME NEW sz, NEW body, IsSequence(body)
  PROVE  LET p == TestOn(sz, body) IN
         Has(p, 2, body) /\ Len(p) = Len(body) + 3 /\ AllocatesAt(p) = 2 /\ Sizes(p) = sz
<1> DEFINE x == [op |-> "init"]
           y == [op |-> "allocate", sizes |-> sz]
           front == <<x, y>>
           p == front \o body \o <<[op |-> "free"]>>
<1>1. y.op = "allocate" /\ y.sizes = sz
  OBVIOUS
<1>2. TestOn(sz, body) = p
  BY DEF TestOn
<1> HIDE DEF x, y
<1>3. front \in Seq({x, y}) /\ Len(front) = 2 /\ front[2] = y
  OBVIOUS
<1> HIDE DEF front
<1>4. IsSequence(front) /\ Len(front) \in {2, 3} /\ (Len(front) = 3 => front[2].op = "framebuffer")
      /\ front[Len(front)].op = "allocate"
  BY <1>1, <1>3 DEF IsSequence
<1>5. Encloses(p, front, body)
  BY <1>4, EnclosedAt
<1> HIDE DEF p
<1>6. /\ Len(body) \in Nat /\ Len(p) = 2 + Len(body) + 1 /\ AllocatesAt(p) = 2 /\ p[2] = y
      /\ \A k \in 1 .. Len(body) : p[k + 2] = body[k]
  BY <1>3, <1>5 DEF Encloses
<1>7. \A k \in 1 .. Len(body) : k + 2 = 2 + k
  BY <1>6
<1>8. Has(p, 2, body) /\ Len(p) = Len(body) + 3
  BY <1>6, <1>7 DEF Has
<1>9. Sizes(p) = sz
  BY <1>1, <1>6 DEF Sizes
<1>10. QED BY <1>2, <1>6, <1>8, <1>9

\* What the CPU writes, what it has copied, and what it compares.
Block(w, t, c) == Prepare(w) \o GpumCopy(t) \o Check(c)

LEMMA BlockShape ==
  ASSUME NEW w, NEW t, NEW c
  PROVE  LET s == Block(w, t, c) IN
         /\ IsSequence(s) /\ Len(s) = 3
         /\ s[1].op = "prepare" /\ s[1].writes = w
         /\ s[2].op = "copy" /\ s[2].transfer = t
         /\ s[3].op = "check" /\ s[3].conditions = c
<1> DEFINE x == [op |-> "prepare", writes |-> w]
           y == [op |-> "copy", transfer |-> t, skip |-> 1]
           z == [op |-> "check", conditions |-> c]
           s == <<x>> \o <<y>> \o <<z>>
<1>1. x.op = "prepare" /\ x.writes = w /\ y.op = "copy" /\ y.transfer = t /\ z.op = "check" /\ z.conditions = c
  OBVIOUS
<1>2. Block(w, t, c) = s
  BY DEF Block, Prepare, GpumCopy, GpumCopySkipping, Check
<1> HIDE DEF x, y, z
<1>3. IsSequence(s) /\ Len(s) = 3 /\ s[1] = x /\ s[2] = y /\ s[3] = z
  BY InTurn
<1> HIDE DEF s
<1>4. QED BY <1>1, <1>2, <1>3

\* What is compared is wrong, on a GPU that is wrong so.
Fails(w, t, c, sz, wrong) == \A m : IsMemory(m, sz) => ~Satisfied(One(Written(m, w), t, wrong), c)

LEMMA ExposedIn ==
  ASSUME NEW sz, NEW body, IsSequence(body), NEW o, NEW w, NEW t, NEW c, Has(body, o, Block(w, t, c)),
         NEW wrong, Fails(w, t, c, sz, wrong)
  PROVE  Exposes(TestOn(sz, body), o + 3, wrong)
<1> DEFINE p == TestOn(sz, body)  s == Block(w, t, c)  k == o + 3
<1>1. /\ Len(s) = 3 /\ s[1].op = "prepare" /\ s[1].writes = w /\ s[2].op = "copy" /\ s[2].transfer = t
      /\ s[3].op = "check" /\ s[3].conditions = c
  BY BlockShape
<1>2. Has(p, 2, body) /\ Len(p) = Len(body) + 3 /\ AllocatesAt(p) = 2 /\ Sizes(p) = sz
  BY TestHas
<1>3. Has(p, 2 + o, s)
  BY <1>2, HasWithin
<1>4. o \in Nat /\ Len(body) \in Nat /\ o + Len(s) <= Len(body)
  BY DEF Has
<1> HIDE DEF p, s
<1>5. p[k] = s[1] /\ p[k + 1] = s[2] /\ p[k + 2] = s[3]
  <2>1. 1 \in 1 .. Len(s) /\ 2 \in 1 .. Len(s) /\ 3 \in 1 .. Len(s)
    BY <1>1
  <2>2. p[(2 + o) + 1] = s[1] /\ p[(2 + o) + 2] = s[2] /\ p[(2 + o) + 3] = s[3]
    BY <1>3, <2>1 DEF Has
  <2>3. (2 + o) + 1 = k /\ (2 + o) + 2 = k + 1 /\ (2 + o) + 3 = k + 2
    BY <1>4
  <2> HIDE DEF k
  <2>4. QED BY <2>2, <2>3
<1>6. k \in Nat /\ k > 2 /\ k + 2 < Len(p)
  BY <1>1, <1>2, <1>4
<1> HIDE DEF k
<1>7. Exposes(p, k, wrong)
  BY <1>1, <1>2, <1>5, <1>6 DEF Exposes, Fails
<1>8. QED BY <1>7 DEF p, k

-----------------------------------------------------------------------------
(* What a GPU that is wrong makes of a transfer *)

\* The fields of a transfer from src to dst.
Moves(g, do, so, len, lines, pitch_in, pitch_out, stride_in, stride_out) ==
    /\ g.cmd = "transfer" /\ g.dst = "dst" /\ g.src = "src" /\ g.do = do /\ g.so = so /\ g.len = len /\ g.lines = lines
    /\ g.pitch_in = pitch_in /\ g.pitch_out = pitch_out /\ g.stride_in = stride_in /\ g.stride_out = stride_out

LEMMA PerformedIs ==
  ASSUME NEW do, NEW so, NEW len, NEW lines, NEW pi, NEW po, NEW si, NEW st
  PROVE  LET t == Strided("dst", do, "src", so, len, lines, pi, po, si, st) IN
         /\ Moves(t, do, so, len, lines, pi, po, si, st)
         /\ Moves(Performed(t, "short"), do, so, IF len = 0 THEN 0 ELSE len - 1, lines, pi, po, si, st)
         /\ Moves(Performed(t, "overrun"), do, so, len + 1, lines, pi, po, si, st)
         /\ Moves(Performed(t, "zero_is_one"), do, so, OrOne(len), OrOne(lines), pi, po, si, st)
         /\ Moves(Performed(t, "ignores_strides"), do, so, len, lines, pi, po, 1, 1)
         /\ Moves(Performed(t, "ignores_pitch_in"), do, so, len, lines, len * si, po, si, st)
         /\ Moves(Performed(t, "swaps_pitches"), do, so, len, lines, po, pi, si, st)
         /\ Moves(Performed(t, "one_line"), do, so, len, IF lines = 0 THEN 0 ELSE 1, pi, po, si, st)
         /\ Moves(Performed(t, "wraps_pitch_out"), do, so, len, lines, pi, po % kLargePitch, si, st)
<1> DEFINE t == Strided("dst", do, "src", so, len, lines, pi, po, si, st)
           fields == {"cmd", "dst", "do", "src", "so", "len", "lines", "pitch_in", "pitch_out", "stride_in", "stride_out"}
<1>1. Moves(t, do, so, len, lines, pi, po, si, st)
  BY Fields DEF Moves
<1>2. DOMAIN t = fields
  BY DEF Strided
<1> HIDE DEF t
<1>3. Moves(Performed(t, "short"), do, so, IF len = 0 THEN 0 ELSE len - 1, lines, pi, po, si, st)
  <2>1. Performed(t, "short") = [t EXCEPT !.len = IF t.len = 0 THEN 0 ELSE t.len - 1]
    BY DEF Performed
  <2>2. QED BY <1>1, <1>2, <2>1 DEF Moves
<1>4. Moves(Performed(t, "overrun"), do, so, len + 1, lines, pi, po, si, st)
  <2>1. Performed(t, "overrun") = [t EXCEPT !.len = t.len + 1]
    BY DEF Performed
  <2>2. QED BY <1>1, <1>2, <2>1 DEF Moves
<1>5. Moves(Performed(t, "zero_is_one"), do, so, OrOne(len), OrOne(lines), pi, po, si, st)
  <2>1. Performed(t, "zero_is_one") = [t EXCEPT !.len = OrOne(t.len), !.lines = OrOne(t.lines)]
    BY DEF Performed
  <2>2. QED BY <1>1, <1>2, <2>1 DEF Moves
<1>6. Moves(Performed(t, "ignores_strides"), do, so, len, lines, pi, po, 1, 1)
  <2>1. Performed(t, "ignores_strides") = [t EXCEPT !.stride_in = 1, !.stride_out = 1]
    BY DEF Performed
  <2>2. QED BY <1>1, <1>2, <2>1 DEF Moves
<1>7. Moves(Performed(t, "ignores_pitch_in"), do, so, len, lines, len * si, po, si, st)
  <2>1. Performed(t, "ignores_pitch_in") = [t EXCEPT !.pitch_in = t.len * t.stride_in]
    BY DEF Performed
  <2>2. QED BY <1>1, <1>2, <2>1 DEF Moves
<1>8. Moves(Performed(t, "swaps_pitches"), do, so, len, lines, po, pi, si, st)
  <2>1. Performed(t, "swaps_pitches") = [t EXCEPT !.pitch_in = t.pitch_out, !.pitch_out = t.pitch_in]
    BY DEF Performed
  <2>2. QED BY <1>1, <1>2, <2>1 DEF Moves
<1>9. Moves(Performed(t, "one_line"), do, so, len, IF lines = 0 THEN 0 ELSE 1, pi, po, si, st)
  <2>1. Performed(t, "one_line") = [t EXCEPT !.lines = IF t.lines = 0 THEN 0 ELSE 1]
    BY DEF Performed
  <2>2. QED BY <1>1, <1>2, <2>1 DEF Moves
<1>10. Moves(Performed(t, "wraps_pitch_out"), do, so, len, lines, pi, po % kLargePitch, si, st)
  <2>1. Performed(t, "wraps_pitch_out") = [t EXCEPT !.pitch_out = t.pitch_out % kLargePitch]
    BY DEF Performed
  <2>2. QED BY <1>1, <1>2, <2>1 DEF Moves
<1>11. QED BY <1>1, <1>3, <1>4, <1>5, <1>6, <1>7, <1>8, <1>9, <1>10 DEF t

\* It leaves the source, puts bytes where they go, and leaves the rest.
LEMMA Performs ==
  ASSUME NEW k \in Nat, NEW m, IsMemory(m, Two(k)), NEW t, t.cmd = "transfer", NEW wrong, NEW g, g = Performed(t, wrong),
         g.dst = "dst", g.src = "src"
  PROVE  LET n == One(m, t, wrong) IN
         /\ n["src"] = m["src"]
         /\ Tidy(g) => \A x \in 0 .. g.len - 1, y \in 0 .. g.lines - 1 :
                          Into(g, x, y) \in 0 .. k - 1 /\ From(g, x, y) \in 0 .. k - 1
                              => n["dst"][Into(g, x, y)] = m["src"][From(g, x, y)]
         /\ \A i \in 0 .. k - 1 :
               (\A x \in 0 .. g.len - 1, y \in 0 .. g.lines - 1 : Into(g, x, y) # i) => n["dst"][i] = m["dst"][i]
<1> DEFINE n == One(m, t, wrong)
<1>1. DOMAIN m = Names /\ DOMAIN m["dst"] = 0 .. k - 1 /\ DOMAIN m["src"] = 0 .. k - 1 /\ "dst" \in Names /\ "src" \in Names
  BY DEF IsMemory, Two, Names
<1>2. n = [m EXCEPT !["dst"] = Copied(m, g)]
  BY DEF One
<1>3. n["dst"] = Copied(m, g) /\ n["src"] = m["src"]
  BY <1>1, <1>2
<1> HIDE DEF n
<1>4. Tidy(g) => \A x \in 0 .. g.len - 1, y \in 0 .. g.lines - 1 :
         Into(g, x, y) \in 0 .. k - 1 =>
            Copied(m, g)[Into(g, x, y)] = IF From(g, x, y) \in 0 .. k - 1 THEN m["src"][From(g, x, y)] ELSE 0
  BY <1>1, CopiedBytes
<1>5. \A i \in 0 .. k - 1 :
         (\A x \in 0 .. g.len - 1, y \in 0 .. g.lines - 1 : Into(g, x, y) # i) => Copied(m, g)[i] = m["dst"][i]
  BY <1>1, CopiedElsewhere
<1>6. QED BY <1>3, <1>4, <1>5 DEF n

-----------------------------------------------------------------------------
(* Bytes spread out: what most faults show in *)

\* The cases FormatCase(1, 2, lines).
kLength == u + 3
Spread(lines) ==
    Strided("dst", kCanarySize, "src", kCanarySize, kLength, lines, lines * kLength * 1, lines * kLength * 2, 1, 2)
Rising(lines) == [i \in 0 .. lines * Spread(lines).pitch_in - 1 |-> (16 + i) % kByteSize]
SpreadWrites(lines) ==
    Around(kCanarySize, kFormatSpan, 204)
        \o <<Set("src", 0, Span(kFormatSpan), 0), [buf |-> "src", at |-> kCanarySize, bytes |-> Rising(lines)]>>
Spaces(lines) ==
    [i \in (0 .. kFormatSpan - 1)
               \ {y * Spread(lines).pitch_out + x * 2 : y \in 0 .. lines - 1, x \in 0 .. Spread(lines).len - 1}
        |-> 204 % kByteSize]
SpreadConditions(lines) ==
    Lines(Spread(lines)) \cup {[buf |-> "dst", at |-> kCanarySize, bytes |-> Spaces(lines)]}
        \cup Guards(kCanarySize, kFormatSpan)

LEMMA FormatIsSpread ==
  ASSUME NEW lines
  PROVE  FormatCase(1, 2, lines) = Block(SpreadWrites(lines), Spread(lines), SpreadConditions(lines))
BY DEF FormatCase, Block, SpreadWrites, Spread, SpreadConditions, Rising, Spaces, kLength

\* The numbers.
LEMMA SpreadNumbers ==
  /\ kLength \in Nat /\ kLength >= 4 /\ kLength < kByteSize /\ 5 * kLength <= kFormatSpan /\ kFormatSpan \in Nat
  /\ Span(kFormatSpan) = kFormatSpan + 2 * kCanarySize /\ Span(kFormatSpan) \in Nat
  /\ 204 % kByteSize # 0 /\ 204 % kByteSize # 17 % kByteSize /\ 204 % kByteSize # (15 + kLength) % kByteSize
  /\ 204 % kByteSize # (16 + 2 * kLength) % kByteSize /\ (16 + kLength) % kByteSize # (16 + 2 * kLength) % kByteSize
<1>1. CASE u = 1
  BY <1>1, Units DEF kLength, kFormatSpan, Span
<1>2. CASE u = 2
  BY <1>2, Units DEF kLength, kFormatSpan, Span
<1>3. CASE u = 4
  BY <1>3, Units DEF kLength, kFormatSpan, Span
<1>4. CASE u = 8
  BY <1>4, Units DEF kLength, kFormatSpan, Span
<1>5. CASE u = 16
  BY <1>5, Units DEF kLength, kFormatSpan, Span
<1>6. QED BY <1>1, <1>2, <1>3, <1>4, <1>5, Units

\* What is there when the transfer is pushed: the bytes that rise, as many as the
\* lines need and more, zero behind them, and a destination all of one value.
SpreadOut(b, lines) ==
    /\ IsMemory(b, Two(Span(kFormatSpan)))
    /\ \A i \in 0 .. kFormatSpan - 1 : b["dst"][kCanarySize + i] = 204 % kByteSize
    /\ \A i \in 0 .. kFormatSpan - 1 :
          b["src"][kCanarySize + i] = IF i < (IF lines = 1 THEN kLength ELSE 4 * kLength) THEN (16 + i) % kByteSize ELSE 0

LEMMA SpreadWritten ==
  ASSUME NEW lines \in {1, 2}, NEW m, IsMemory(m, Two(Span(kFormatSpan)))
  PROVE  SpreadOut(Written(m, SpreadWrites(lines)), lines)
<1> DEFINE size == kFormatSpan  k == Span(size)  end == IF lines = 1 THEN kLength ELSE 4 * kLength
           v == Set("src", 0, k, 0)  r == [buf |-> "src", at |-> kCanarySize, bytes |-> Rising(lines)]
           s == <<v, r>>  S == {v, r}
           b == Written(m, Around(kCanarySize, size, 204) \o s)
<1>1. /\ kCanarySize \in Nat /\ size \in Nat /\ k \in Nat /\ kCanarySize + size + kCanarySize <= k /\ kLength \in Nat
      /\ end \in Nat /\ end <= size
  BY Units, SpreadNumbers
<1>2. lines * Spread(lines).pitch_in = end
  <2>1. Spread(lines).pitch_in = lines * kLength * 1
    BY Fields DEF Spread
  <2>2. CASE lines = 1
    BY <1>1, <2>1, <2>2
  <2>3. CASE lines = 2
    BY <1>1, <2>1, <2>3
  <2>4. QED BY <2>2, <2>3
<1>3. /\ v.buf = "src" /\ v.at = 0 /\ DOMAIN v.bytes = 0 .. k - 1
      /\ \A i \in 0 .. k - 1 : v.bytes[i] = 0
  <2>1. /\ v.buf = "src" /\ v.at = 0 /\ DOMAIN v.bytes = 0 .. k - 1
        /\ \A i \in 0 .. k - 1 : v.bytes[i] = 0 % kByteSize
    <3> DEFINE z == 0
    <3>1. LET w == Set("src", z, k, 0) IN w.buf = "src" /\ w.at = z /\ DOMAIN w.bytes = 0 .. k - 1
                                         /\ \A i \in 0 .. k - 1 : w.bytes[i] = 0 % kByteSize
      <4> HIDE DEF z, k
      <4>1. QED BY Sets
    <3>2. QED BY <3>1
  <2>2. 0 % kByteSize = 0
    BY Units
  <2>3. QED BY <2>1, <2>2
<1>4. /\ r.buf = "src" /\ r.at = kCanarySize /\ DOMAIN r.bytes = 0 .. end - 1
      /\ \A i \in 0 .. end - 1 : r.bytes[i] = (16 + i) % kByteSize
  <2>1. r.bytes = Rising(lines) /\ r.buf = "src" /\ r.at = kCanarySize
    OBVIOUS
  <2> HIDE DEF r, end
  <2>2. QED BY <1>2, <2>1 DEF Rising
<1>5. SpreadWrites(lines) = Around(kCanarySize, size, 204) \o s
  BY DEF SpreadWrites
<1> HIDE DEF v, r, size, k
<1>6. s \in Seq(S) /\ Len(s) = 2 /\ s[1] = v /\ s[2] = r
  OBVIOUS
<1> HIDE DEF s, S
<1>7. \A i \in 1 .. Len(s) : s[i].buf = "src"
  BY <1>3, <1>4, <1>6
<1>8. /\ Surrounded(b, k, kCanarySize, size, 204) /\ (Len(s) > 0 => Sourced(b, k, s[Len(s)]))
      /\ \A i \in 0 .. k - 1 :
            Len(s) = 2 /\ ~Covers(s[2], "src", i) /\ Covers(s[1], "src", i) => b["src"][i] = s[1].bytes[i - s[1].at]
  <2> DEFINE f == 204
  <2> HIDE DEF f
  <2> DEFINE c == Written(m, Around(kCanarySize, size, f) \o s)
  <2>1. /\ Surrounded(c, k, kCanarySize, size, f) /\ (Len(s) > 0 => Sourced(c, k, s[Len(s)]))
        /\ \A i \in 0 .. k - 1 :
              Len(s) = 2 /\ ~Covers(s[2], "src", i) /\ Covers(s[1], "src", i) => c["src"][i] = s[1].bytes[i - s[1].at]
    <3>1. IsMemory(m, Two(k))
      BY DEF k, size
    <3>2. QED BY <1>1, <1>6, <1>7, <3>1, AroundWritten
  <2>2. QED BY <2>1 DEF f
<1> HIDE DEF b
<1>9. ASSUME NEW i \in 0 .. size - 1 PROVE b["dst"][kCanarySize + i] = 204 % kByteSize
  <2>1. kCanarySize + i \in kCanarySize .. kCanarySize + size - 1
    BY <1>1
  <2>2. QED BY <1>8, <2>1 DEF Surrounded
<1>10. ASSUME NEW i \in 0 .. size - 1
       PROVE  b["src"][kCanarySize + i] = IF i < end THEN (16 + i) % kByteSize ELSE 0
  <2> DEFINE j == kCanarySize + i
  <2>1. j \in 0 .. k - 1 /\ j - kCanarySize = i /\ j - 0 = j
    BY <1>1
  <2> HIDE DEF j, end
  <2>2. CASE i < end
    <3>1. Covers(r, "src", j) /\ i \in 0 .. end - 1
      BY <1>1, <1>4, <2>1, <2>2 DEF Covers
    <3>2. b["src"][j] = r.bytes[i]
      BY <1>4, <1>6, <1>8, <2>1, <3>1 DEF Sourced
    <3>3. QED BY <1>4, <2>2, <3>1, <3>2 DEF j
  <2>3. CASE ~ (i < end)
    <3>1. ~Covers(r, "src", j) /\ Covers(v, "src", j)
      BY <1>1, <1>3, <1>4, <2>1, <2>3 DEF Covers
    <3>2. b["src"][j] = v.bytes[j]
      BY <1>3, <1>6, <1>8, <2>1, <3>1
    <3>3. QED BY <1>3, <2>1, <2>3, <3>2 DEF j
  <2>4. QED BY <2>2, <2>3
<1>11. IsMemory(b, Two(k))
  BY <1>8 DEF Surrounded
<1>12. SpreadOut(b, lines)
  BY <1>9, <1>10, <1>11 DEF SpreadOut, size, k
<1>13. QED BY <1>5, <1>12 DEF b

\* What is compared: the lines, and what is between the bytes.
LEMMA SpreadCompared ==
  ASSUME NEW lines \in {1, 2}, NEW n, Satisfied(n, SpreadConditions(lines))
  PROVE  LET po == lines * kLength * 2  pi == lines * kLength * 1 IN
         /\ \A y \in 0 .. lines - 1, x \in 0 .. kLength - 1 :
               n["dst"][kCanarySize + (y * po + x * 2)] = n["src"][kCanarySize + (y * pi + x * 1)]
         /\ \A i \in 0 .. kFormatSpan - 1 :
               (\A y \in 0 .. lines - 1, x \in 0 .. kLength - 1 : y * po + x * 2 # i)
                   => n["dst"][kCanarySize + i] = 204 % kByteSize
<1> DEFINE t == Spread(lines)  po == lines * kLength * 2  pi == lines * kLength * 1
           c == [buf |-> "dst", at |-> kCanarySize, bytes |-> Spaces(lines)]
<1>1. /\ t.dst = "dst" /\ t.src = "src" /\ t.do = kCanarySize /\ t.so = kCanarySize /\ t.len = kLength /\ t.lines = lines
      /\ t.pitch_in = pi /\ t.pitch_out = po /\ t.stride_in = 1 /\ t.stride_out = 2
  BY PerformedIs DEF Moves, Spread
<1>2. Satisfied(n, Lines(t)) /\ Holds(n, c)
  BY DEF SpreadConditions, Satisfied
<1>3. ASSUME NEW y \in 0 .. lines - 1, NEW x \in 0 .. kLength - 1
      PROVE  n["dst"][kCanarySize + (y * po + x * 2)] = n["src"][kCanarySize + (y * pi + x * 1)]
  <2> DEFINE d == [line |-> t, y |-> y]
  <2>1. Holds(n, d)
    BY <1>1, <1>2 DEF Lines, Satisfied
  <2> HIDE DEF t, po, pi
  <2>2. \A z \in 0 .. t.len - 1 : n[t.dst][Into(t, z, y)] = n[t.src][From(t, z, y)]
    BY <2>1, Conditions
  <2>3. n["dst"][Into(t, x, y)] = n["src"][From(t, x, y)]
    BY <1>1, <2>2
  <2>4. Into(t, x, y) = kCanarySize + y * po + x * 2 /\ From(t, x, y) = kCanarySize + y * pi + x * 1
    BY <1>1 DEF Into, From
  <2>5. y * po \in Nat /\ y * pi \in Nat
    <3>1. po \in Nat /\ pi \in Nat
      BY SpreadNumbers DEF po, pi
    <3>2. QED BY <3>1
  <2>6. \A a \in Nat, e \in Nat : kCanarySize + a + e = kCanarySize + (a + e)
    BY Units
  <2>7. x * 2 \in Nat /\ x * 1 \in Nat
    BY SpreadNumbers
  <2>8. QED BY <2>3, <2>4, <2>5, <2>6, <2>7
<1>4. ASSUME NEW i \in 0 .. kFormatSpan - 1, \A y \in 0 .. lines - 1, x \in 0 .. kLength - 1 : y * po + x * 2 # i
      PROVE  n["dst"][kCanarySize + i] = 204 % kByteSize
  <2>1. \A j \in DOMAIN Spaces(lines) : n["dst"][kCanarySize + j] = Spaces(lines)[j]
    <3> DEFINE bytes == Spaces(lines)
    <3>1. Holds(n, [buf |-> "dst", at |-> kCanarySize, bytes |-> bytes])
      BY <1>2
    <3> HIDE DEF bytes
    <3>2. \A j \in DOMAIN bytes : n["dst"][kCanarySize + j] = bytes[j]
      BY <3>1, Conditions
    <3>3. QED BY <3>2 DEF bytes
  <2> HIDE DEF t, po
  <2>2. i \in DOMAIN Spaces(lines) /\ Spaces(lines)[i] = 204 % kByteSize
    BY <1>1, <1>4 DEF Spaces, t
  <2>3. QED BY <2>1, <2>2
<1>5. QED BY <1>3, <1>4

\* What a GPU makes of it that copies rows of len bytes: the source has not changed,
\* the bytes have gone where they go, and the rest is as it was.
Arrives(n, lines, len, rows, pi, po, si, st) ==
    /\ \A i \in 0 .. kFormatSpan - 1 :
          n["src"][kCanarySize + i] =
              IF i < (IF lines = 1 THEN kLength ELSE 4 * kLength) THEN (16 + i) % kByteSize ELSE 0
    /\ \A x \in 0 .. len - 1, y \in 0 .. rows - 1 :
          y * po + x * st \in 0 .. kFormatSpan - 1 /\ y * pi + x * si \in 0 .. kFormatSpan - 1
              => n["dst"][kCanarySize + (y * po + x * st)] = n["src"][kCanarySize + (y * pi + x * si)]
    /\ \A i \in 0 .. kFormatSpan - 1 :
          (\A x \in 0 .. len - 1, y \in 0 .. rows - 1 : y * po + x * st # i)
              => n["dst"][kCanarySize + i] = 204 % kByteSize

LEMMA SpreadGoes ==
  ASSUME NEW lines \in {1, 2}, NEW wrong, NEW len \in Nat, NEW rows \in Nat, NEW pi \in Nat, NEW po \in Nat,
         NEW si \in {1, 2, 4}, NEW st \in {1, 2, 4}, rows = 1 \/ st * len <= po,
         Moves(Performed(Spread(lines), wrong), kCanarySize, kCanarySize, len, rows, pi, po, si, st),
         NEW m, IsMemory(m, Two(Span(kFormatSpan)))
  PROVE  Arrives(One(Written(m, SpreadWrites(lines)), Spread(lines), wrong), lines, len, rows, pi, po, si, st)
<1> DEFINE t == Spread(lines)  g == Performed(t, wrong)  b == Written(m, SpreadWrites(lines))
           n == One(b, t, wrong)  k == Span(kFormatSpan)
<1>1. SpreadOut(b, lines)
  BY SpreadWritten
<1>2. t.cmd = "transfer"
  BY Fields DEF Spread
<1>3. /\ g.dst = "dst" /\ g.src = "src" /\ g.do = kCanarySize /\ g.so = kCanarySize /\ g.len = len /\ g.lines = rows
      /\ g.pitch_in = pi /\ g.pitch_out = po /\ g.stride_in = si /\ g.stride_out = st
  BY DEF Moves
<1>4. kCanarySize \in Nat /\ kFormatSpan \in Nat /\ k \in Nat /\ k = kFormatSpan + 2 * kCanarySize
  BY Units, SpreadNumbers
<1> HIDE DEF t, b, k
<1>5. IsMemory(b, Two(k))
  BY <1>1 DEF SpreadOut, k
<1> DEFINE h == g
<1>6. /\ n["src"] = b["src"]
      /\ Tidy(h) => \A x \in 0 .. h.len - 1, y \in 0 .. h.lines - 1 :
                       Into(h, x, y) \in 0 .. k - 1 /\ From(h, x, y) \in 0 .. k - 1
                           => n["dst"][Into(h, x, y)] = b["src"][From(h, x, y)]
      /\ \A i \in 0 .. k - 1 :
            (\A x \in 0 .. h.len - 1, y \in 0 .. h.lines - 1 : Into(h, x, y) # i) => n["dst"][i] = b["dst"][i]
  <2>1. h = Performed(t, wrong) /\ h.dst = "dst" /\ h.src = "src"
    BY <1>3
  <2> HIDE DEF h
  <2>2. QED BY <1>2, <1>4, <1>5, <2>1, Performs
<1> HIDE DEF g, n
<1>7. Tidy(g)
  <2>1. {g.do, g.so, g.len, g.lines, g.pitch_in, g.pitch_out} \subseteq Nat
    BY <1>3, <1>4
  <2>2. g.lines \in {0, 1} \/ g.stride_out * g.len <= g.pitch_out
    BY <1>3
  <2>3. QED BY <1>3, <2>1, <2>2 DEF Tidy
<1>8. ASSUME NEW x \in 0 .. len - 1, NEW y \in 0 .. rows - 1
      PROVE  Into(g, x, y) = kCanarySize + (y * po + x * st) /\ From(g, x, y) = kCanarySize + (y * pi + x * si)
  <2>1. Into(g, x, y) = kCanarySize + y * po + x * st /\ From(g, x, y) = kCanarySize + y * pi + x * si
    BY <1>3 DEF Into, From
  <2>2. y * po \in Nat /\ y * pi \in Nat
    OBVIOUS
  <2>3. x * st \in Nat /\ x * si \in Nat
    OBVIOUS
  <2>4. \A a \in Nat, d \in Nat : kCanarySize + a + d = kCanarySize + (a + d)
    BY <1>4
  <2>5. QED BY <2>1, <2>2, <2>3, <2>4
<1>9. \A i \in 0 .. kFormatSpan - 1 : kCanarySize + i \in 0 .. k - 1
  BY <1>4
<1>10. ASSUME NEW x \in 0 .. len - 1, NEW y \in 0 .. rows - 1,
              y * po + x * st \in 0 .. kFormatSpan - 1, y * pi + x * si \in 0 .. kFormatSpan - 1
       PROVE  n["dst"][kCanarySize + (y * po + x * st)] = n["src"][kCanarySize + (y * pi + x * si)]
  <2>1. Into(g, x, y) \in 0 .. k - 1 /\ From(g, x, y) \in 0 .. k - 1
    BY <1>8, <1>9, <1>10
  <2>2. n["dst"][Into(g, x, y)] = b["src"][From(g, x, y)]
    BY <1>3, <1>6, <1>7, <2>1
  <2>3. QED BY <1>6, <1>8, <2>2
<1>11. ASSUME NEW i \in 0 .. kFormatSpan - 1, \A x \in 0 .. len - 1, y \in 0 .. rows - 1 : y * po + x * st # i
       PROVE  n["dst"][kCanarySize + i] = 204 % kByteSize
  <2>1. ASSUME NEW x \in 0 .. len - 1, NEW y \in 0 .. rows - 1 PROVE Into(g, x, y) # kCanarySize + i
    <3>1. Into(g, x, y) = kCanarySize + (y * po + x * st) /\ y * po + x * st # i
      BY <1>8, <1>11
    <3>2. y * po \in Nat
      OBVIOUS
    <3>3. x * st \in Nat
      OBVIOUS
    <3>4. \A a \in Nat, d \in Nat : a + d # i => kCanarySize + (a + d) # kCanarySize + i
      BY <1>4
    <3>5. QED BY <3>1, <3>2, <3>3, <3>4
  <2>2. n["dst"][kCanarySize + i] = b["dst"][kCanarySize + i]
    BY <1>3, <1>6, <1>9, <2>1
  <2>3. QED BY <1>1, <2>2 DEF SpreadOut
<1>12. \A i \in 0 .. kFormatSpan - 1 :
          n["src"][kCanarySize + i] =
              IF i < (IF lines = 1 THEN kLength ELSE 4 * kLength) THEN (16 + i) % kByteSize ELSE 0
  BY <1>1, <1>6 DEF SpreadOut
<1>13. Arrives(n, lines, len, rows, pi, po, si, st)
  BY <1>10, <1>11, <1>12 DEF Arrives
<1>14. QED BY <1>13 DEF n, b, t

\* One byte of a line missing stays as it was, one too many is not left as it was;
\* a byte that should have gone further goes between the bytes.
LEMMA OneLineFails ==
  ASSUME NEW wrong \in {"short", "overrun", "ignores_strides"}
  PROVE  Fails(SpreadWrites(1), Spread(1), SpreadConditions(1), Two(Span(kFormatSpan)), wrong)
<1> SUFFICES ASSUME NEW m, IsMemory(m, Two(Span(kFormatSpan))),
                    Satisfied(One(Written(m, SpreadWrites(1)), Spread(1), wrong), SpreadConditions(1))
             PROVE  FALSE
  BY DEF Fails
<1> DEFINE n == One(Written(m, SpreadWrites(1)), Spread(1), wrong)  l == kLength  g == Performed(Spread(1), wrong)
           dst(i) == n["dst"][kCanarySize + i]  src(i) == n["src"][kCanarySize + i]
<1>1. /\ l \in Nat /\ l >= 4 /\ l < kByteSize /\ 5 * l <= kFormatSpan /\ kFormatSpan \in Nat /\ kByteSize \in Nat
      /\ 204 % kByteSize # 0 /\ 204 % kByteSize # 17 % kByteSize /\ 204 % kByteSize # (15 + l) % kByteSize
  BY SpreadNumbers, Units
<1>2. /\ \A y \in 0 .. 1 - 1, x \in 0 .. l - 1 : dst(y * (1 * l * 2) + x * 2) = src(y * (1 * l * 1) + x * 1)
      /\ \A i \in 0 .. kFormatSpan - 1 :
            (\A y \in 0 .. 1 - 1, x \in 0 .. l - 1 : y * (1 * l * 2) + x * 2 # i) => dst(i) = 204 % kByteSize
  BY SpreadCompared
<1>3. /\ wrong = "short" => Moves(g, kCanarySize, kCanarySize, IF l = 0 THEN 0 ELSE l - 1, 1, 1 * l * 1, 1 * l * 2, 1, 2)
      /\ wrong = "overrun" => Moves(g, kCanarySize, kCanarySize, l + 1, 1, 1 * l * 1, 1 * l * 2, 1, 2)
      /\ wrong = "ignores_strides" => Moves(g, kCanarySize, kCanarySize, l, 1, 1 * l * 1, 1 * l * 2, 1, 1)
  BY PerformedIs DEF Spread
<1>4. 1 * l * 1 = l /\ 1 * l * 2 = 2 * l /\ l \in Nat /\ 2 * l \in Nat /\ l - 1 \in Nat /\ l + 1 \in Nat
  BY <1>1
<1>5. ASSUME NEW len \in Nat, NEW st \in {1, 2, 4}, Moves(g, kCanarySize, kCanarySize, len, 1, l, 2 * l, 1, st)
      PROVE  Arrives(n, 1, len, 1, l, 2 * l, 1, st)
  <2> DEFINE po == 2 * l  one == 1
  <2>1. l \in Nat /\ po \in Nat /\ one \in {1, 2} /\ one \in Nat /\ one = 1 /\ one \in {1, 2, 4}
    BY <1>4
  <2>2. Moves(Performed(Spread(one), wrong), kCanarySize, kCanarySize, len, one, l, po, one, st)
    BY <1>5
  <2> DEFINE k == One(Written(m, SpreadWrites(one)), Spread(one), wrong)
  <2>3. k = n
    OBVIOUS
  <2> HIDE DEF one, po, n, l, g
  <2>4. Arrives(k, one, len, one, l, po, one, st)
    BY <2>1, <2>2, SpreadGoes
  <2> HIDE DEF k
  <2>5. QED BY <2>1, <2>3, <2>4 DEF po
<1> HIDE DEF n, l, g
<1>7. /\ \A x \in 0 .. l - 1 : dst(2 * x) = src(x)
      /\ \A i \in 0 .. kFormatSpan - 1 : (\A x \in 0 .. l - 1 : 2 * x # i) => dst(i) = 204 % kByteSize
  <2>1. \A y \in 0 .. 1 - 1, x \in 0 .. l - 1 : y * (1 * l * 2) + x * 2 = 2 * x /\ y * (1 * l * 1) + x * 1 = x
    BY <1>1
  <2>2. 0 \in 0 .. 1 - 1
    OBVIOUS
  <2> HIDE DEF dst, src
  <2>3. QED BY <1>2, <2>1, <2>2
<1>8. ASSUME NEW len \in Nat, NEW st \in {1, 2, 4}, Moves(g, kCanarySize, kCanarySize, len, 1, l, 2 * l, 1, st)
      PROVE  /\ \A i \in 0 .. kFormatSpan - 1 : src(i) = IF i < l THEN (16 + i) % kByteSize ELSE 0
             /\ \A x \in 0 .. len - 1 : x * st \in 0 .. kFormatSpan - 1 /\ x \in 0 .. kFormatSpan - 1 => dst(x * st) = src(x)
             /\ \A i \in 0 .. kFormatSpan - 1 : (\A x \in 0 .. len - 1 : x * st # i) => dst(i) = 204 % kByteSize
  <2> DEFINE po == 2 * l
  <2>1. po \in Nat /\ l \in Nat /\ Moves(g, kCanarySize, kCanarySize, len, 1, l, po, 1, st)
    BY <1>4, <1>8
  <2> HIDE DEF dst, src, po
  <2>2. \A y \in 0 .. 1 - 1, x \in 0 .. len - 1 : y = 0 /\ y * po = 0 /\ y * l = 0
    BY <2>1
  <2>3. \A x \in 0 .. len - 1 : x * st \in Nat
    OBVIOUS
  <2>4. \A y \in 0 .. 1 - 1, x \in 0 .. len - 1 : y * po + x * st = x * st /\ y * l + x * 1 = x
    <3>1. \A a \in Nat : 0 + a = a
      OBVIOUS
    <3>2. \A x \in 0 .. len - 1 : x * 1 = x /\ x \in Nat
      OBVIOUS
    <3>3. QED BY <2>2, <2>3, <3>1, <3>2
  <2>5. 0 \in 0 .. 1 - 1
    OBVIOUS
  <2>6. /\ \A i \in 0 .. kFormatSpan - 1 : src(i) = IF i < l THEN (16 + i) % kByteSize ELSE 0
        /\ \A x \in 0 .. len - 1, y \in 0 .. 1 - 1 :
              y * po + x * st \in 0 .. kFormatSpan - 1 /\ y * l + x * 1 \in 0 .. kFormatSpan - 1
                  => dst(y * po + x * st) = src(y * l + x * 1)
        /\ \A i \in 0 .. kFormatSpan - 1 :
              (\A x \in 0 .. len - 1, y \in 0 .. 1 - 1 : y * po + x * st # i) => dst(i) = 204 % kByteSize
    BY <1>5, <1>8 DEF Arrives, po, dst, src, l
  <2>7. \A x \in 0 .. len - 1 : x * st \in 0 .. kFormatSpan - 1 /\ x \in 0 .. kFormatSpan - 1 => dst(x * st) = src(x)
    BY <2>4, <2>5, <2>6
  <2>8. ASSUME NEW i \in 0 .. kFormatSpan - 1, \A x \in 0 .. len - 1 : x * st # i PROVE dst(i) = 204 % kByteSize
    <3>1. \A x \in 0 .. len - 1, y \in 0 .. 1 - 1 : y * po + x * st # i
      BY <2>4, <2>8
    <3>2. QED BY <2>6, <3>1
  <2>9. QED BY <2>6, <2>7, <2>8
<1> HIDE DEF dst, src
<1>9. CASE wrong = "short"
  <2>1. Moves(g, kCanarySize, kCanarySize, l - 1, 1, l, 2 * l, 1, 2)
    BY <1>1, <1>3, <1>4, <1>9
  <2>2. /\ \A i \in 0 .. kFormatSpan - 1 : src(i) = IF i < l THEN (16 + i) % kByteSize ELSE 0
        /\ \A i \in 0 .. kFormatSpan - 1 : (\A x \in 0 .. (l - 1) - 1 : x * 2 # i) => dst(i) = 204 % kByteSize
    BY <1>4, <1>8, <2>1
  <2>3. l - 1 \in 0 .. l - 1 /\ l - 1 \in 0 .. kFormatSpan - 1 /\ 2 * (l - 1) \in 0 .. kFormatSpan - 1 /\ l - 1 < l
        /\ 16 + (l - 1) = 15 + l /\ \A x \in 0 .. (l - 1) - 1 : x * 2 # 2 * (l - 1)
    BY <1>1
  <2>4. dst(2 * (l - 1)) = src(l - 1) /\ src(l - 1) = (15 + l) % kByteSize /\ dst(2 * (l - 1)) = 204 % kByteSize
    BY <1>7, <2>2, <2>3
  <2>5. QED BY <1>1, <2>4
<1>10. CASE wrong = "overrun"
  <2>1. Moves(g, kCanarySize, kCanarySize, l + 1, 1, l, 2 * l, 1, 2)
    BY <1>3, <1>4, <1>10
  <2>2. /\ \A i \in 0 .. kFormatSpan - 1 : src(i) = IF i < l THEN (16 + i) % kByteSize ELSE 0
        /\ \A x \in 0 .. (l + 1) - 1 : x * 2 \in 0 .. kFormatSpan - 1 /\ x \in 0 .. kFormatSpan - 1 => dst(x * 2) = src(x)
    BY <1>4, <1>8, <2>1
  <2>3. l \in 0 .. (l + 1) - 1 /\ l * 2 \in 0 .. kFormatSpan - 1 /\ l \in 0 .. kFormatSpan - 1 /\ ~ (l < l)
        /\ \A x \in 0 .. l - 1 : 2 * x # l * 2
    BY <1>1
  <2>4. dst(l * 2) = src(l) /\ src(l) = 0 /\ dst(l * 2) = 204 % kByteSize
    BY <1>7, <2>2, <2>3
  <2>5. QED BY <1>1, <2>4
<1>11. CASE wrong = "ignores_strides"
  <2>1. Moves(g, kCanarySize, kCanarySize, l, 1, l, 2 * l, 1, 1)
    BY <1>3, <1>4, <1>11
  <2>2. /\ \A i \in 0 .. kFormatSpan - 1 : src(i) = IF i < l THEN (16 + i) % kByteSize ELSE 0
        /\ \A x \in 0 .. l - 1 : x * 1 \in 0 .. kFormatSpan - 1 /\ x \in 0 .. kFormatSpan - 1 => dst(x * 1) = src(x)
    BY <1>4, <1>8, <2>1
  <2>3. 1 \in 0 .. l - 1 /\ 1 \in 0 .. kFormatSpan - 1 /\ 1 * 1 = 1 /\ 1 < l /\ 16 + 1 = 17 /\ \A x \in 0 .. l - 1 : 2 * x # 1
    BY <1>1
  <2>4. dst(1) = src(1) /\ src(1) = 17 % kByteSize /\ dst(1) = 204 % kByteSize
    BY <1>7, <2>2, <2>3
  <2>5. QED BY <1>1, <2>4
<1>12. QED BY <1>9, <1>10, <1>11

\* A second line from another place has other bytes; one that is not made, or has
\* gone elsewhere, leaves its place as it was, or takes another.
LEMMA TwoLinesFail ==
  ASSUME NEW wrong \in {"ignores_pitch_in", "swaps_pitches", "one_line"}
  PROVE  Fails(SpreadWrites(2), Spread(2), SpreadConditions(2), Two(Span(kFormatSpan)), wrong)
<1> SUFFICES ASSUME NEW m, IsMemory(m, Two(Span(kFormatSpan))),
                    Satisfied(One(Written(m, SpreadWrites(2)), Spread(2), wrong), SpreadConditions(2))
             PROVE  FALSE
  BY DEF Fails
<1> DEFINE n == One(Written(m, SpreadWrites(2)), Spread(2), wrong)  l == kLength  g == Performed(Spread(2), wrong)
           dst(i) == n["dst"][kCanarySize + i]  src(i) == n["src"][kCanarySize + i]
<1>1. /\ l \in Nat /\ l >= 4 /\ l < kByteSize /\ 5 * l <= kFormatSpan /\ kFormatSpan \in Nat /\ kByteSize \in Nat
      /\ 204 % kByteSize # 0 /\ 204 % kByteSize # (16 + 2 * l) % kByteSize
      /\ (16 + l) % kByteSize # (16 + 2 * l) % kByteSize
  BY SpreadNumbers, Units
<1>2. /\ \A y \in 0 .. 2 - 1, x \in 0 .. l - 1 : dst(y * (2 * l * 2) + x * 2) = src(y * (2 * l * 1) + x * 1)
      /\ \A i \in 0 .. kFormatSpan - 1 :
            (\A y \in 0 .. 2 - 1, x \in 0 .. l - 1 : y * (2 * l * 2) + x * 2 # i) => dst(i) = 204 % kByteSize
  BY SpreadCompared
<1>3. /\ wrong = "ignores_pitch_in" => Moves(g, kCanarySize, kCanarySize, l, 2, l * 1, 2 * l * 2, 1, 2)
      /\ wrong = "swaps_pitches" => Moves(g, kCanarySize, kCanarySize, l, 2, 2 * l * 2, 2 * l * 1, 1, 2)
      /\ wrong = "one_line" => Moves(g, kCanarySize, kCanarySize, l, IF 2 = 0 THEN 0 ELSE 1, 2 * l * 1, 2 * l * 2, 1, 2)
  BY PerformedIs DEF Spread
<1>4. 2 * l * 1 = 2 * l /\ 2 * l * 2 = 4 * l /\ l * 1 = l /\ 2 * l \in Nat /\ 4 * l \in Nat
  BY <1>1
<1>5. ASSUME NEW rows \in Nat, NEW pi \in Nat, NEW po \in Nat, rows = 1 \/ 2 * l <= po,
             Moves(g, kCanarySize, kCanarySize, l, rows, pi, po, 1, 2)
      PROVE  Arrives(n, 2, l, rows, pi, po, 1, 2)
  <2> DEFINE one == 1  two == 2
  <2>1. l \in Nat /\ one \in {1, 2, 4} /\ two \in {1, 2} /\ two \in {1, 2, 4} /\ (rows = 1 \/ two * l <= po)
    BY <1>1, <1>5
  <2>2. Moves(Performed(Spread(two), wrong), kCanarySize, kCanarySize, l, rows, pi, po, one, two)
    BY <1>5
  <2> DEFINE k == One(Written(m, SpreadWrites(two)), Spread(two), wrong)
  <2>3. k = n
    OBVIOUS
  <2> HIDE DEF one, two, n, l, g
  <2>4. Arrives(k, two, l, rows, pi, po, one, two)
    BY <1>5, <2>1, <2>2, SpreadGoes, SMTT(20)
  <2> HIDE DEF k
  <2>5. QED BY <2>3, <2>4 DEF one, two
<1> HIDE DEF n, l, g
<1>6. /\ \A y \in 0 .. 1, x \in 0 .. l - 1 : dst(y * (4 * l) + x * 2) = src(y * (2 * l) + x * 1)
      /\ \A i \in 0 .. kFormatSpan - 1 :
            (\A y \in 0 .. 1, x \in 0 .. l - 1 : y * (4 * l) + x * 2 # i) => dst(i) = 204 % kByteSize
  <2>1. 0 .. 2 - 1 = 0 .. 1
    OBVIOUS
  <2> HIDE DEF dst, src
  <2>2. QED BY <1>2, <1>4, <2>1
<1>7. 0 \in 0 .. l - 1 /\ 1 \in 0 .. 1 /\ 1 * (4 * l) + 0 * 2 = 4 * l /\ 1 * (2 * l) + 0 * 1 = 2 * l
  BY <1>1
<1>8. dst(4 * l) = src(2 * l)
  <2> HIDE DEF dst, src
  <2>1. QED BY <1>6, <1>7
<1>9. ASSUME NEW rows, NEW pi, NEW po, Arrives(n, 2, l, rows, pi, po, 1, 2)
      PROVE  /\ \A i \in 0 .. kFormatSpan - 1 : src(i) = IF i < 4 * l THEN (16 + i) % kByteSize ELSE 0
             /\ \A x \in 0 .. l - 1, y \in 0 .. rows - 1 :
                   y * po + x * 2 \in 0 .. kFormatSpan - 1 /\ y * pi + x * 1 \in 0 .. kFormatSpan - 1
                       => dst(y * po + x * 2) = src(y * pi + x * 1)
             /\ \A i \in 0 .. kFormatSpan - 1 :
                   (\A x \in 0 .. l - 1, y \in 0 .. rows - 1 : y * po + x * 2 # i) => dst(i) = 204 % kByteSize
  <2>1. ~(2 = 1)
    OBVIOUS
  <2>2. QED BY <1>9, <2>1 DEF Arrives, dst, src, l
<1> HIDE DEF dst, src
<1>10. 4 * l \in 0 .. kFormatSpan - 1 /\ 2 * l \in 0 .. kFormatSpan - 1 /\ l \in 0 .. kFormatSpan - 1 /\ 2 * l < 4 * l
       /\ l < 4 * l /\ ~(4 * l < 4 * l)
  BY <1>1
<1>11. CASE wrong = "ignores_pitch_in"
  <2>1. Arrives(n, 2, l, 2, l, 4 * l, 1, 2)
    <3>1. Moves(g, kCanarySize, kCanarySize, l, 2, l, 4 * l, 1, 2)
      BY <1>3, <1>4, <1>11
    <3>2. 2 * l <= 4 * l
      BY <1>1
    <3>3. QED BY <1>1, <1>4, <1>5, <3>1, <3>2
  <2>2. /\ \A i \in 0 .. kFormatSpan - 1 : src(i) = IF i < 4 * l THEN (16 + i) % kByteSize ELSE 0
        /\ \A x \in 0 .. l - 1, y \in 0 .. 2 - 1 :
              y * (4 * l) + x * 2 \in 0 .. kFormatSpan - 1 /\ y * l + x * 1 \in 0 .. kFormatSpan - 1
                  => dst(y * (4 * l) + x * 2) = src(y * l + x * 1)
    BY <1>9, <2>1
  <2>3. 1 \in 0 .. 2 - 1 /\ 1 * l + 0 * 1 = l
    BY <1>1
  <2>4. dst(4 * l) = src(l)
    BY <1>7, <1>10, <2>2, <2>3
  <2>5. src(l) = (16 + l) % kByteSize /\ src(2 * l) = (16 + 2 * l) % kByteSize
    BY <1>10, <2>2
  <2>6. QED BY <1>1, <1>8, <2>4, <2>5
<1>12. CASE wrong = "swaps_pitches"
  <2>1. Arrives(n, 2, l, 2, 4 * l, 2 * l, 1, 2)
    <3>1. Moves(g, kCanarySize, kCanarySize, l, 2, 4 * l, 2 * l, 1, 2)
      BY <1>3, <1>4, <1>12
    <3>2. 2 * l <= 2 * l
      BY <1>1
    <3>3. QED BY <1>1, <1>4, <1>5, <3>1, <3>2
  <2>2. /\ \A i \in 0 .. kFormatSpan - 1 : src(i) = IF i < 4 * l THEN (16 + i) % kByteSize ELSE 0
        /\ \A x \in 0 .. l - 1, y \in 0 .. 2 - 1 :
              y * (2 * l) + x * 2 \in 0 .. kFormatSpan - 1 /\ y * (4 * l) + x * 1 \in 0 .. kFormatSpan - 1
                  => dst(y * (2 * l) + x * 2) = src(y * (4 * l) + x * 1)
    BY <1>9, <2>1
  <2>3. 1 \in 0 .. 2 - 1 /\ 1 * (2 * l) + 0 * 2 = 2 * l /\ 1 * (4 * l) + 0 * 1 = 4 * l
    BY <1>1
  <2>4. dst(2 * l) = src(4 * l) /\ src(4 * l) = 0
    BY <1>7, <1>10, <2>2, <2>3
  <2>5. \A y \in 0 .. 1, x \in 0 .. l - 1 : y * (4 * l) + x * 2 # 2 * l
    <3>1. \A y \in 0 .. 1 : y = 0 \/ y = 1
      OBVIOUS
    <3>2. \A x \in 0 .. l - 1 : 0 * (4 * l) + x * 2 # 2 * l /\ 1 * (4 * l) + x * 2 # 2 * l
      BY <1>1
    <3>3. QED BY <3>1, <3>2
  <2>6. dst(2 * l) = 204 % kByteSize
    BY <1>6, <1>10, <2>5
  <2>7. QED BY <1>1, <2>4, <2>6
<1>13. CASE wrong = "one_line"
  <2>1. Arrives(n, 2, l, 1, 2 * l, 4 * l, 1, 2)
    <3>1. Moves(g, kCanarySize, kCanarySize, l, 1, 2 * l, 4 * l, 1, 2)
      BY <1>3, <1>4, <1>13
    <3>2. QED BY <1>4, <1>5, <3>1
  <2>2. /\ \A i \in 0 .. kFormatSpan - 1 : src(i) = IF i < 4 * l THEN (16 + i) % kByteSize ELSE 0
        /\ \A i \in 0 .. kFormatSpan - 1 :
              (\A x \in 0 .. l - 1, y \in 0 .. 1 - 1 : y * (4 * l) + x * 2 # i) => dst(i) = 204 % kByteSize
    BY <1>9, <2>1
  <2>3. \A x \in 0 .. l - 1, y \in 0 .. 1 - 1 : y * (4 * l) + x * 2 # 4 * l
    <3>1. \A y \in 0 .. 1 - 1 : y = 0
      OBVIOUS
    <3>2. \A x \in 0 .. l - 1 : 0 * (4 * l) + x * 2 # 4 * l
      BY <1>1
    <3>3. QED BY <3>1, <3>2
  <2>4. dst(4 * l) = 204 % kByteSize /\ src(2 * l) = (16 + 2 * l) % kByteSize
    BY <1>10, <2>2, <2>3
  <2>5. QED BY <1>1, <1>8, <2>4
<1>14. QED BY <1>11, <1>12, <1>13

-----------------------------------------------------------------------------
(* Nothing copied, and lines far apart *)

\* A GPU that takes no lines for one copies a byte to where nothing is to change.
LEMMA NoLinesFail ==
  Fails(<<Set("dst", 0, 16, 204), Set("src", 0, 16, 85)>>, PitchedCopy("dst", 0, "src", 0, 4, 0, 4, 4),
        {Set("dst", 0, 16, 204)}, Two(16), "zero_is_one")
<1> DEFINE t == PitchedCopy("dst", 0, "src", 0, 4, 0, 4, 4)  x == Set("dst", 0, 16, 204)  y == Set("src", 0, 16, 85)
           w == <<x, y>>  g == Performed(t, "zero_is_one")  z == 0
<1>1. /\ y.buf = "src" /\ y.at = 0 /\ DOMAIN y.bytes = 0 .. 16 - 1
      /\ \A i \in 0 .. 16 - 1 : y.bytes[i] = 85 % kByteSize
  <2> HIDE DEF t, x, w
  <2>1. ASSUME NEW e
        PROVE  LET v == Set("src", 0, e, 85) IN
               v.buf = "src" /\ v.at = 0 /\ DOMAIN v.bytes = 0 .. e - 1 /\ \A i \in 0 .. e - 1 : v.bytes[i] = 85 % kByteSize
    BY Sets
  <2>2. QED BY <2>1
<1>2. \A n : Holds(n, x) <=> \A i \in 0 .. 16 - 1 : n["dst"][0 + i] = 204 % kByteSize
  <2> DEFINE v == Set("dst", z, 16, 204)
  <2>1. \A n : Holds(n, v) <=> \A i \in 0 .. 16 - 1 : n["dst"][z + i] = 204 % kByteSize
    <3> HIDE DEF z
    <3>1. QED BY Sets
  <2>2. QED BY <2>1
<1>3. /\ t.cmd = "transfer" /\ g.dst = "dst" /\ g.do = 0 /\ g.src = "src" /\ g.so = 0 /\ g.len = 4 /\ g.lines = 1
      /\ g.pitch_in = 4 /\ g.pitch_out = 4 /\ g.stride_in = 1 /\ g.stride_out = 1
  <2>1. Moves(t, 0, 0, 4, 0, 4, 4, 1, 1) /\ Moves(g, 0, 0, OrOne(4), OrOne(0), 4, 4, 1, 1)
    BY PerformedIs DEF PitchedCopy
  <2>2. OrOne(4) = 4 /\ OrOne(0) = 1
    BY DEF OrOne
  <2>3. QED BY <2>1, <2>2 DEF Moves
<1> HIDE DEF t, x, y
<1>4. Len(w) = 2 /\ w[2] = y /\ DOMAIN w = 1 .. Len(w)
  OBVIOUS
<1> HIDE DEF w
<1>5. SUFFICES ASSUME NEW m, IsMemory(m, Two(16)), Satisfied(One(Written(m, w), t, "zero_is_one"), {x}) PROVE FALSE
  BY DEF Fails, t, x, y, w
<1> DEFINE b == Written(m, w)  n == One(b, t, "zero_is_one")
<1>6. IsMemory(b, Two(16))
  BY <1>5, WrittenIsMemory
<1>7. b["src"][0] = 85 % kByteSize
  <2>1. "src" \in DOMAIN m /\ 0 \in DOMAIN m["src"]
    BY <1>5 DEF IsMemory, Two, Names
  <2>2. Covers(w[2], "src", 0) /\ 2 \in 1 .. Len(w) /\ \A j \in 2 + 1 .. Len(w) : FALSE
    BY <1>1, <1>4 DEF Covers
  <2>3. b["src"][0] = w[2].bytes[0 - w[2].at]
    <3> DEFINE o == 0  k == 2
    <3>1. /\ "src" \in DOMAIN m /\ o \in DOMAIN m["src"] /\ Len(w) \in Nat /\ DOMAIN w = 1 .. Len(w) /\ k \in 1 .. Len(w)
          /\ Covers(w[k], "src", o) /\ \A j \in k + 1 .. Len(w) : ~Covers(w[j], "src", o)
      BY <1>4, <2>1, <2>2
    <3> HIDE DEF o, k, b
    <3>2. b["src"][o] = w[k].bytes[o - w[k].at]
      BY <3>1, WrittenLast DEF b
    <3>3. QED BY <3>2 DEF o, k
  <2> HIDE DEF b
  <2>4. QED BY <1>1, <1>4, <2>3
<1> HIDE DEF b
<1>8. n["dst"][0] = b["src"][0]
  <2> DEFINE h == g
  <2>1. Tidy(h)
    BY <1>3 DEF Tidy
  <2>2. 16 \in Nat /\ h = Performed(t, "zero_is_one") /\ h.dst = "dst" /\ h.src = "src"
    BY <1>3
  <2> HIDE DEF h, n
  <2>3. \A v \in 0 .. h.len - 1, l \in 0 .. h.lines - 1 :
           Into(h, v, l) \in 0 .. 16 - 1 /\ From(h, v, l) \in 0 .. 16 - 1 => n["dst"][Into(h, v, l)] = b["src"][From(h, v, l)]
    BY <1>3, <1>6, <2>1, <2>2, Performs DEF n
  <2>4. Into(g, 0, 0) = 0 /\ From(g, 0, 0) = 0 /\ 0 \in 0 .. g.len - 1 /\ 0 \in 0 .. g.lines - 1
    BY <1>3 DEF Into, From
  <2>5. QED BY <2>3, <2>4 DEF h
<1>9. n["dst"][0] = 204 % kByteSize
  <2>1. Holds(n, x)
    BY <1>5 DEF Satisfied, n, b
  <2> HIDE DEF n
  <2>2. QED BY <1>2, <2>1
<1> HIDE DEF n
<1>10. 85 % kByteSize # 204 % kByteSize
  BY Units
<1>11. QED BY <1>7, <1>8, <1>9, <1>10

\* Lines that all go to one place leave the place of the last as it was; the source
\* has that byte at its end, then, and at its beginning as well.
LEMMA FarLinesFail ==
  LET t == RowsOf(4 * u, 3, kLargePitch, kLargePitch)  size == kLargePitch * 3 IN
  Fails(Around(kCanarySize, size, 238) \o <<Fill("src", kCanarySize, size, 129)>>, t,
        Lines(t) \cup Gaps(t, 238) \cup Guards(kCanarySize, size), Two(Span(3 * kLargePitch)), "wraps_pitch_out")
<1> DEFINE t == RowsOf(4 * u, 3, kLargePitch, kLargePitch)  size == kLargePitch * 3  k == Span(3 * kLargePitch)
           x == Fill("src", kCanarySize, size, 129)  c == Lines(t) \cup Gaps(t, 238) \cup Guards(kCanarySize, size)
           g == Performed(t, "wraps_pitch_out")  s == kCanarySize  p == kLargePitch  l == 4 * u
           w == Around(kCanarySize, size, 238) \o <<x>>
<1>1. /\ s \in Nat /\ u \in Nat /\ u >= 1 /\ p = 32 * u /\ p \in Nat /\ l \in Nat /\ l >= 1 /\ l <= p /\ size = 3 * p /\ size \in Nat
      /\ k = s + size + s /\ k \in Nat
  BY Units DEF kLargePitch, Span
<1>2. /\ x.buf = "src" /\ x.at = s /\ DOMAIN x.bytes = 0 .. size - 1
      /\ \A i \in 0 .. size - 1 : x.bytes[i] = Patterns[129 % kByteSize][i]
  <2> HIDE DEF size
  <2>1. QED BY Fills
<1>3. /\ Moves(t, s, s, l, 3, p, p, 1, 1) /\ Moves(g, s, s, l, 3, p, p % p, 1, 1)
  <2> HIDE DEF t, g, p, l, x, w, c, k, size
  <2>1. ASSUME NEW len, NEW pitch
        PROVE  LET r == RowsOf(len, 3, pitch, pitch) IN
               /\ Moves(r, s, s, len, 3, pitch, pitch, 1, 1)
               /\ Moves(Performed(r, "wraps_pitch_out"), s, s, len, 3, pitch, pitch % kLargePitch, 1, 1)
    BY PerformedIs DEF RowsOf, PitchedCopy
  <2>2. t = RowsOf(l, 3, p, p) /\ g = Performed(t, "wraps_pitch_out")
    BY DEF t, g, l, p
  <2>3. Moves(t, s, s, l, 3, p, p, 1, 1) /\ Moves(Performed(t, "wraps_pitch_out"), s, s, l, 3, p, p % kLargePitch, 1, 1)
    BY <2>1, <2>2
  <2>4. QED BY <2>2, <2>3 DEF p
<1>4. p % p = 0
  BY Units DEF kLargePitch
<1> HIDE DEF t, x, size, k, s, p, l
<1>5. /\ t.cmd = "transfer" /\ t.dst = "dst" /\ t.do = s /\ t.src = "src" /\ t.so = s /\ t.len = l /\ t.lines = 3
      /\ t.pitch_in = p /\ t.pitch_out = p /\ t.stride_in = 1 /\ t.stride_out = 1
  BY <1>3 DEF Moves
<1>6. /\ g.cmd = "transfer" /\ g.dst = "dst" /\ g.do = s /\ g.src = "src" /\ g.so = s /\ g.len = l /\ g.lines = 3
      /\ g.pitch_in = p /\ g.pitch_out = 0 /\ g.stride_in = 1 /\ g.stride_out = 1
  BY <1>3, <1>4 DEF Moves
<1>7. SUFFICES ASSUME NEW m, IsMemory(m, Two(k)), Satisfied(One(Written(m, w), t, "wraps_pitch_out"), c) PROVE FALSE
  BY DEF Fails, t, k, x, size
<1> HIDE DEF g
<1> DEFINE b == Written(m, w)  n == One(b, t, "wraps_pitch_out")
<1>8. Surrounded(b, k, s, size, 238) /\ Sourced(b, k, x)
  <2> DEFINE f == 238
  <2> HIDE DEF f
  <2> DEFINE e == Written(m, Around(s, size, f) \o <<x>>)
  <2>1. s + size + kCanarySize <= k
    BY <1>1 DEF s
  <2>2. Surrounded(e, k, s, size, f) /\ Sourced(e, k, x)
    BY <1>1, <1>2, <1>7, <2>1, AroundWrittenOne
  <2>3. QED BY <2>2 DEF f, s
<1> HIDE DEF b, w
<1>9. IsMemory(b, Two(k)) /\ DOMAIN b["dst"] = 0 .. k - 1 /\ DOMAIN b["src"] = 0 .. k - 1 /\ DOMAIN b = Names
  BY <1>8 DEF Surrounded, IsMemory
<1>10. /\ n["src"] = b["src"] /\ n["dst"] = Copied(b, g)
  <2>1. n = [b EXCEPT !["dst"] = Copied(b, g)]
    BY <1>5, <1>6 DEF One, g
  <2>2. QED BY <1>9, <2>1 DEF Names
<1> HIDE DEF n
<1>11. ASSUME NEW v \in 0 .. l - 1, NEW y \in 0 .. 2
       PROVE  Into(g, v, y) = s + v
  BY <1>1, <1>6 DEF Into
<1>12. From(g, 0, 2) = s + 2 * p
  BY <1>1, <1>6 DEF From
\* The place of the last line is as it was,
<1>13. n["dst"][s + 2 * p] = 238 % kByteSize
  <2>1. s + 2 * p \in DOMAIN b["dst"] /\ s + 2 * p \in s .. s + size - 1
    BY <1>1, <1>9
  <2>2. ASSUME NEW v \in 0 .. g.len - 1, NEW y \in 0 .. g.lines - 1 PROVE Into(g, v, y) # s + 2 * p
    <3>1. Into(g, v, y) = s + v /\ v \in 0 .. l - 1
      BY <1>6, <1>11
    <3>2. QED BY <1>1, <3>1
  <2>3. n["dst"][s + 2 * p] = b["dst"][s + 2 * p]
    BY <1>6, <1>10, <2>1, <2>2, CopiedElsewhere
  <2>4. QED BY <1>8, <2>1, <2>3 DEF Surrounded
\* that of the first has got the last,
<1>14. n["dst"][s] = b["src"][s + 2 * p]
  <2> DEFINE Reach(y) == {v \in 0 .. g.len - 1 : Into(g, v, y) = s}
             Reached == {y \in 0 .. g.lines - 1 : Reach(y) # {}}
  <2>1. \A y \in 0 .. 2 : Reach(y) = {0}
    <3> SUFFICES ASSUME NEW y \in 0 .. 2 PROVE Reach(y) = {0}
      OBVIOUS
    <3>1. \A v \in 0 .. l - 1 : Into(g, v, y) = s + v /\ (s + v = s => v = 0)
      BY <1>1, <1>11
    <3>2. 0 \in 0 .. l - 1 /\ s + 0 = s
      BY <1>1
    <3>3. QED BY <1>6, <3>1, <3>2
  <2>2. Reached = 0 .. 2
    BY <1>6, <2>1
  <2>3. Max(Reached) = 2
    <3>1. Reached \in SUBSET Int /\ 2 \in Reached /\ \A j \in Reached : j <= 2
      BY <2>2
    <3> HIDE DEF Reached
    <3>2. QED BY <3>1, Greatest
  <2>4. Max(Reach(2)) = 0
    <3>1. Reach(2) \in SUBSET Int /\ 0 \in Reach(2) /\ \A j \in Reach(2) : j <= 0
      BY <2>1
    <3> HIDE DEF Reach
    <3>2. QED BY <3>1, Greatest
  <2>5. s \in DOMAIN b[g.dst]
    BY <1>1, <1>6, <1>9
  <2>6. Copied(b, g)[s] = IF Reached = {} THEN b[g.dst][s]
                          ELSE IF From(g, Max(Reach(Max(Reached))), Max(Reached)) \in DOMAIN b[g.src]
                          THEN b[g.src][From(g, Max(Reach(Max(Reached))), Max(Reached))] ELSE 0
    BY <2>5 DEF Copied
  <2> HIDE DEF Reach
  <2>7. Reached # {}
    BY <2>2
  <2> HIDE DEF Reached
  <2>8. s + 2 * p \in DOMAIN b[g.src]
    BY <1>1, <1>6, <1>9
  <2>9. Copied(b, g)[s] = b["src"][s + 2 * p]
    BY <1>6, <1>12, <2>3, <2>4, <2>6, <2>7, <2>8
  <2>10. QED BY <1>10, <2>9
\* and both are compared.
<1>15. n["dst"][s + 2 * p] = n["src"][s + 2 * p] /\ n["dst"][s] = n["src"][s]
  <2>1. ASSUME NEW y \in 0 .. 2 PROVE n["dst"][Into(t, 0, y)] = n["src"][From(t, 0, y)]
    <3> DEFINE d == [line |-> t, y |-> y]
    <3>1. d \in c
      BY <1>5 DEF Lines
    <3>2. Holds(n, d)
      BY <1>7, <3>1 DEF Satisfied, n, b
    <3>3. \A v \in 0 .. t.len - 1 : n[t.dst][Into(t, v, y)] = n[t.src][From(t, v, y)]
      BY <3>2, Conditions
    <3>4. 0 \in 0 .. l - 1
      BY <1>1
    <3>5. QED BY <1>5, <3>3, <3>4
  <2>2. Into(t, 0, 2) = s + 2 * p /\ From(t, 0, 2) = s + 2 * p /\ Into(t, 0, 0) = s /\ From(t, 0, 0) = s
    BY <1>1, <1>5 DEF Into, From
  <2>3. QED BY <2>1, <2>2
<1>16. b["src"][s] = 129 % kByteSize
  <2>1. Covers(x, "src", s) /\ s \in 0 .. k - 1 /\ s - s = 0 /\ 0 \in 0 .. size - 1
    BY <1>1, <1>2 DEF Covers
  <2>2. b["src"][s] = Patterns[129 % kByteSize][0]
    BY <1>2, <1>8, <2>1 DEF Sourced
  <2>3. 129 % kByteSize \in 0 .. kByteSize - 1
    BY Units
  <2>4. QED BY <2>2, <2>3, PatternsBegin
<1>17. 129 % kByteSize # 238 % kByteSize
  BY Units
<1>18. QED BY <1>10, <1>13, <1>14, <1>15, <1>16, <1>17

-----------------------------------------------------------------------------
(* Which comparison finds which fault *)

Compared == {"short", "overrun", "ignores_strides", "ignores_pitch_in", "swaps_pitches", "one_line", "zero_is_one",
             "wraps_pitch_out"}

\* The test: TestM2MFLargePitch, TestM2MFZeroSize, or TestM2MFFormat, and where it
\* writes what it compares.
TestFor(wrong) == IF wrong = "wraps_pitch_out" THEN 7 ELSE IF wrong = "zero_is_one" THEN 19 ELSE 5
PlaceFor(wrong) == IF wrong \in {"ignores_pitch_in", "swaps_pitches", "one_line"} THEN 6 ELSE 3

LEMMA FormatExposes ==
  /\ \A wrong \in {"short", "overrun", "ignores_strides"} : Exposes(TestM2MFFormat, 3, wrong)
  /\ \A wrong \in {"ignores_pitch_in", "swaps_pitches", "one_line"} : Exposes(TestM2MFFormat, 6, wrong)
<1> DEFINE A == FormatCase(1, 2, 1)  B == FormatCase(1, 2, 2)  C == FormatCase(2, 1, 1)
           D == FormatCase(2, 2, 1)  E == FormatCase(1, 4, 1)  F == FormatCase(4, 2, 1)  sz == Two(Span(kFormatSpan))
           body == A \o B \o C \o D \o E \o F
           X == Block(SpreadWrites(1), Spread(1), SpreadConditions(1))
           Y == Block(SpreadWrites(2), Spread(2), SpreadConditions(2))
<1>1. TestM2MFFormat = TestOn(sz, body) /\ A = X /\ B = Y
  BY FormatIsSpread DEF TestM2MFFormat
<1>2. ASSUME NEW si \in {1, 2, 4}, NEW st \in {1, 2, 4}, si <= 4, st <= 4 PROVE IsSequence(FormatCase(si, st, 1))
  <2>1. IsChecked(FormatCase(si, st, 1), sz)
    <3>1. si * 1 <= 4 /\ st * 1 <= 4
      BY <1>2
    <3>2. QED BY <1>2, <3>1, FormatPasses
  <2>2. PICK w, t, c : FormatCase(si, st, 1) = Prepare(w) \o GpumCopy(t) \o Check(c)
    BY <2>1 DEF IsChecked
  <2>3. FormatCase(si, st, 1) = Block(w, t, c)
    BY <2>2 DEF Block
  <2>4. QED BY <2>3, BlockShape
<1>3. IsSequence(C) /\ IsSequence(D) /\ IsSequence(E) /\ IsSequence(F)
  BY <1>2
<1>4. IsSequence(A) /\ IsSequence(B) /\ Len(A) = 3
  <2>1. IsSequence(X) /\ IsSequence(Y) /\ Len(X) = 3
    BY BlockShape
  <2> HIDE DEF A, B, X, Y
  <2>2. QED BY <1>1, <2>1
<1> HIDE DEF A, B, C, D, E, F, X, Y
<1>5. IsSequence(body) /\ Has(body, 0, A) /\ Has(body, 3, B)
  <2> DEFINE s2 == A \o B  s3 == s2 \o C  s4 == s3 \o D  s5 == s4 \o E  s6 == s5 \o F
  <2>1. body = s6
    OBVIOUS
  <2>2. IsSequence(s2) /\ Has(s2, 0, A) /\ Has(s2, 3, B)
    BY <1>4, HasBoth
  <2> HIDE DEF s2
  <2>3. IsSequence(s3) /\ Has(s3, 0, s2)
    BY <1>3, <2>2, HasBoth
  <2> HIDE DEF s3
  <2>4. IsSequence(s4) /\ Has(s4, 0, s3)
    BY <1>3, <2>3, HasBoth
  <2> HIDE DEF s4
  <2>5. IsSequence(s5) /\ Has(s5, 0, s4)
    BY <1>3, <2>4, HasBoth
  <2> HIDE DEF s5
  <2>6. IsSequence(s6) /\ Has(s6, 0, s5)
    BY <1>3, <2>5, HasBoth
  <2> HIDE DEF s6, body
  <2>7. Has(s6, 0, s2)
    <3>1. Has(s4, 0 + 0, s2)
      BY <2>3, <2>4, HasWithin
    <3>2. Has(s6, 0 + 0, s4)
      BY <2>5, <2>6, HasWithin
    <3>3. 0 + 0 = 0
      OBVIOUS
    <3>4. Has(s4, 0, s2) /\ Has(s6, 0, s4)
      BY <3>1, <3>2, <3>3
    <3>5. Has(s6, 0 + 0, s2)
      BY <3>4, HasWithin
    <3>6. QED BY <3>3, <3>5
  <2>8. Has(s6, 0 + 0, A) /\ Has(s6, 0 + 3, B)
    BY <2>2, <2>7, HasWithin
  <2>9. 0 + 0 = 0 /\ 0 + 3 = 3
    OBVIOUS
  <2>10. QED BY <2>1, <2>6, <2>8, <2>9
<1> HIDE DEF body
<1>6. ASSUME NEW wrong \in {"short", "overrun", "ignores_strides"} PROVE Exposes(TestM2MFFormat, 3, wrong)
  <2>1. Fails(SpreadWrites(1), Spread(1), SpreadConditions(1), sz, wrong)
    BY <1>6, OneLineFails
  <2>2. Has(body, 0, Block(SpreadWrites(1), Spread(1), SpreadConditions(1)))
    BY <1>1, <1>5 DEF X
  <2> HIDE DEF sz
  <2>3. Exposes(TestOn(sz, body), 0 + 3, wrong)
    BY <1>5, <2>1, <2>2, ExposedIn
  <2>4. 0 + 3 = 3
    OBVIOUS
  <2>5. QED BY <1>1, <2>3, <2>4
<1>7. ASSUME NEW wrong \in {"ignores_pitch_in", "swaps_pitches", "one_line"} PROVE Exposes(TestM2MFFormat, 6, wrong)
  <2>1. Fails(SpreadWrites(2), Spread(2), SpreadConditions(2), sz, wrong)
    BY <1>7, TwoLinesFail
  <2>2. Has(body, 3, Block(SpreadWrites(2), Spread(2), SpreadConditions(2)))
    BY <1>1, <1>5 DEF Y
  <2> HIDE DEF sz
  <2>3. Exposes(TestOn(sz, body), 3 + 3, wrong)
    BY <1>5, <2>1, <2>2, ExposedIn
  <2>4. 3 + 3 = 6
    OBVIOUS
  <2>5. QED BY <1>1, <2>3, <2>4
<1>8. QED BY <1>6, <1>7

LEMMA ZeroSizeExposes == Exposes(TestM2MFZeroSize, 3, "zero_is_one")
<1> DEFINE Case(len, lines) ==
               Prepare(<<Set("dst", 0, 16, 204), Set("src", 0, 16, 85)>>)
                   \o GpumCopy(PitchedCopy("dst", 0, "src", 0, len, lines, 4, 4)) \o Check({Set("dst", 0, 16, 204)})
           w == <<Set("dst", 0, 16, 204), Set("src", 0, 16, 85)>>  t == PitchedCopy("dst", 0, "src", 0, 4, 0, 4, 4)
           c == {Set("dst", 0, 16, 204)}  A == Case(4, 0)  B == Case(0, 2)  body == A \o B  sz == Two(16)
<1>1. TestM2MFZeroSize = TestOn(sz, body)
  BY DEF TestM2MFZeroSize
<1>2. \A len, lines : Case(len, lines) = Block(w, PitchedCopy("dst", 0, "src", 0, len, lines, 4, 4), c)
  BY DEF Block
<1>3. Fails(w, t, c, sz, "zero_is_one")
  BY NoLinesFail
<1>4. A = Block(w, t, c)
  BY <1>2
<1> DEFINE r == PitchedCopy("dst", 0, "src", 0, 0, 2, 4, 4)
<1>5. B = Block(w, r, c)
  BY <1>2
<1> HIDE DEF w, t, c, A, B, sz, r
<1>6. IsSequence(A) /\ IsSequence(B)
  BY <1>4, <1>5, BlockShape
<1>7. IsSequence(body) /\ Has(body, 0, Block(w, t, c))
  BY <1>4, <1>6, HasBoth
<1> HIDE DEF body
<1>8. Exposes(TestOn(sz, body), 0 + 3, "zero_is_one")
  BY <1>3, <1>7, ExposedIn
<1>9. 0 + 3 = 3
  OBVIOUS
<1>10. QED BY <1>1, <1>8, <1>9

LEMMA LargePitchExposes == Exposes(TestM2MFLargePitch, 3, "wraps_pitch_out")
<1> DEFINE t == RowsOf(4 * u, 3, kLargePitch, kLargePitch)  size == kLargePitch * 3  sz == Two(Span(3 * kLargePitch))
           w == Around(kCanarySize, size, 238) \o <<Fill("src", kCanarySize, size, 129)>>
           c == Lines(t) \cup Gaps(t, 238) \cup Guards(kCanarySize, size)
           body == Rows(t, 129)
<1>1. Fails(w, t, c, sz, "wraps_pitch_out")
  BY FarLinesFail
<1>2. TestM2MFLargePitch = TestOn(sz, body)
  BY DEF TestM2MFLargePitch
<1>3. body = Block(w, t, c)
  <2>1. t.do = kCanarySize /\ t.so = kCanarySize /\ t.pitch_out * t.lines = size /\ t.pitch_in * t.lines = size
    <3>1. \A len, lines, pi, po : LET r == RowsOf(len, lines, pi, po) IN
             r.do = kCanarySize /\ r.so = kCanarySize /\ r.pitch_out = po /\ r.lines = lines /\ r.pitch_in = pi
      BY Fields DEF RowsOf, PitchedCopy
    <3>2. QED BY <3>1
  <2> HIDE DEF t
  <2>2. QED BY <2>1 DEF Rows, Block
<1> HIDE DEF w, t, c, sz
<1>4. IsSequence(body)
  <2> HIDE DEF body
  <2>1. QED BY <1>3, BlockShape
<1>5. Has(body, 0, Block(w, t, c))
  <2> DEFINE b == Block(w, t, c)
  <2>1. Len(b) = 3 /\ \A k \in 1 .. Len(b) : 0 + k = k
    BY BlockShape
  <2> HIDE DEF b, body
  <2>2. body = b
    BY <1>3 DEF b
  <2>3. QED BY <2>1, <2>2 DEF Has, b
<1> HIDE DEF body
<1>6. Exposes(TestOn(sz, body), 0 + 3, "wraps_pitch_out")
  BY <1>1, <1>4, <1>5, ExposedIn
<1>7. 0 + 3 = 3
  OBVIOUS
<1>8. QED BY <1>2, <1>6, <1>7

LEMMA EachIsExposed ==
  ASSUME NEW wrong \in Compared
  PROVE  TestFor(wrong) \in 1 .. 19 /\ Exposes(kTests[TestFor(wrong)], PlaceFor(wrong), wrong)
<1>1. kTests[5] = TestM2MFFormat /\ kTests[7] = TestM2MFLargePitch /\ kTests[19] = TestM2MFZeroSize
  BY DEF kTests
<1>2. CASE wrong \in {"short", "overrun", "ignores_strides"}
  <2>1. TestFor(wrong) = 5 /\ PlaceFor(wrong) = 3
    BY <1>2 DEF TestFor, PlaceFor
  <2>2. QED BY <1>1, <1>2, <2>1, FormatExposes
<1>3. CASE wrong \in {"ignores_pitch_in", "swaps_pitches", "one_line"}
  <2>1. TestFor(wrong) = 5 /\ PlaceFor(wrong) = 6
    BY <1>3 DEF TestFor, PlaceFor
  <2>2. QED BY <1>1, <1>3, <2>1, FormatExposes
<1>4. CASE wrong = "zero_is_one"
  <2>1. TestFor(wrong) = 19 /\ PlaceFor(wrong) = 3
    BY <1>4 DEF TestFor, PlaceFor
  <2>2. QED BY <1>1, <1>4, <2>1, ZeroSizeExposes
<1>5. CASE wrong = "wraps_pitch_out"
  <2>1. TestFor(wrong) = 7 /\ PlaceFor(wrong) = 3
    BY <1>5 DEF TestFor, PlaceFor
  <2>2. QED BY <1>1, <1>5, <2>1, LargePitchExposes
<1>6. QED BY <1>2, <1>3, <1>4, <1>5 DEF Compared

-----------------------------------------------------------------------------
(* Faults that show otherwise *)

\* The first transfer of the suite.
LEMMA FirstTransfer ==
  LET p == kTests[1] IN AllocatesAt(p) = 2 /\ 4 < Len(p) /\ p[3].op = "prepare" /\ p[4].op = "copy"
<1> DEFINE A == Whole(Unaligned(0, 0, 1), 1, 204, 154)
           B == Whole(Unaligned(3, 1, 5), 5, 204, 158)
           C == Whole(Unaligned(1, 3, 7), 7, 204, 156)
           p == TestOn(Two(Span(7) + 3), A \o B \o C)
<1>1. kTests[1] = p
  BY DEF kTests, TestM2MFAlignmentOddSizes
<1>2. IsSequence(A) /\ Len(A) = 3 /\ A[1].op = "prepare" /\ A[2].op = "copy"
  BY BlockShape DEF Whole, Block
<1>3. IsSequence(B) /\ IsSequence(C)
  BY BlockShape DEF Whole, Block
<1> HIDE DEF A, B, C
<1>4. IsSequence(A \o B) /\ Has(A \o B, 0, A)
  BY <1>2, <1>3, HasBoth
<1> DEFINE D == A \o B  s == D \o C
<1> HIDE DEF D
<1>5. IsSequence(s) /\ Has(s, 0, D)
  BY <1>3, <1>4, HasBoth DEF D
<1>6. Has(s, 0 + 0, A)
  BY <1>4, <1>5, HasWithin DEF D
<1>7. Has(p, 2, s) /\ Len(p) = Len(s) + 3 /\ AllocatesAt(p) = 2
  BY <1>5, TestHas DEF D
<1> HIDE DEF s, p
<1>8. s[0 + 1] = A[1] /\ s[0 + 2] = A[2] /\ Len(s) >= 3 /\ Len(s) \in Nat
  BY <1>2, <1>6 DEF Has
<1>9. p[2 + 1] = s[1] /\ p[2 + 2] = s[2]
  BY <1>7, <1>8 DEF Has
<1>10. QED BY <1>1, <1>2, <1>7, <1>8, <1>9

\* The GPU that writes no record has its first transfer awaited.
SilentInv == test = 1 /\ pc <= 4 /\ (armed => live.status = -1)

LEMMA SilenceStays ==
  ASSUME IInv, fault = "silent", SilentInv, [Next]_vars, ~excused, pass'
  PROVE  SilentInv'
<1>1. /\ ~Ended /\ pc \in 1 .. 4 /\ instruction = kTests[1][pc] /\ instruction.op \notin {"framebuffer", "free"}
  <2>1. ~Ended
    BY TestsAreTests DEF SilentInv, Ended
  <2>2. QED BY <2>1, FirstTransfer, StandsBefore DEF SilentInv
<1>2. UNCHANGED vars \/ Gpu \/ GpumCopyStarts \/ EndsPassing \/ GoesOnPassing
  BY PassingSteps
<1>3. CASE UNCHANGED vars
  BY <1>3 DEF vars, position, gpu, SilentInv
<1>4. CASE Gpu
  <2>1. ~Turned
    BY DEF Turned
  <2>2. UNCHANGED <<test, pc, armed, live>>
    BY <1>4, <2>1, GpuTakesFirst
  <2>3. QED BY <2>2 DEF SilentInv
<1>5. CASE GpumCopyStarts
  <2>1. live \in [status : {0, -1}, ptimer : 0 .. 2]
    BY DEF IInv, QueueInv
  <2>2. live'.status = -1 /\ test' = test /\ pc' = pc
    BY <1>5, <2>1 DEF GpumCopyStarts
  <2>3. QED BY <2>2 DEF SilentInv
<1>6. CASE EndsPassing
  BY <1>1, <1>6 DEF EndsPassing
<1>7. CASE GoesOnPassing
  <2>1. test' = test /\ pc' = pc + 1 /\ ~armed'
    BY <1>7 DEF GoesOnPassing, GoesWell, GoesOrdinarily, Step
  <2>2. pc # 4
    <3>1. ASSUME pc = 4 PROVE FALSE
      <4>1. instruction.op = "copy"
        BY <1>1, <3>1, FirstTransfer
      <4>2. armed /\ live.status = 0
        BY <1>7, <4>1 DEF GoesOnPassing, GoesWell, GoesOrdinarily
      <4>3. QED BY <4>2 DEF SilentInv
    <3>2. QED BY <3>1
  <2>3. QED BY <1>1, <2>1, <2>2 DEF SilentInv
<1>8. QED BY <1>2, <1>3, <1>4, <1>5, <1>6, <1>7

\* The GPU that writes the live record whatever DMA_NOTIFY selects has it compared
\* with what it was: the thread will not come past that.
Handing(p) ==
    LET t == p[6].commands[2] IN
    \/ pushbuffer \in {<<DmaNotify("scratch"), t>>, <<t>>} /\ live.ptimer = prev_rec.ptimer
    \/ pushbuffer = <<>> /\ live.ptimer # prev_rec.ptimer
TellInv ==
    /\ test < kSwitching \/ (test = kSwitching /\ pc <= 8)
    /\ test = kSwitching /\ pc = 6 => live.ptimer = prev_rec.ptimer
    /\ test = kSwitching /\ pc = 7 => Handing(kTests[kSwitching])
    /\ test = kSwitching /\ pc = 8 => live.ptimer # prev_rec.ptimer

LEMMA TellStays ==
  ASSUME IInv, fault = "notifies_live", TellInv, [Next]_vars, ~excused, pass'
  PROVE  TellInv'
<1> DEFINE p == kTests[kSwitching]  t == p[6].commands[2]
<1>1. test = kSwitching =>
         /\ ~Ended /\ pc \in 1 .. 8 /\ instruction = p[pc] /\ instruction.op \notin {"framebuffer", "free"}
         /\ p[3].op = "prepare" /\ p[4].op = "copy" /\ p[5].op = "dump" /\ p[6].op = "push" /\ p[7].op = "busy_wait"
         /\ p[8].op = "record" /\ p[8].condition = "unchanged" /\ p[1].op = "init" /\ p[2].op = "allocate"
         /\ t.cmd = "transfer" /\ p[6].commands = <<DmaNotify("scratch"), t>>
  <2> SUFFICES ASSUME test = kSwitching
      PROVE  /\ ~Ended /\ pc \in 1 .. 8 /\ instruction = p[pc] /\ instruction.op \notin {"framebuffer", "free"}
             /\ p[3].op = "prepare" /\ p[4].op = "copy" /\ p[5].op = "dump" /\ p[6].op = "push" /\ p[7].op = "busy_wait"
             /\ p[8].op = "record" /\ p[8].condition = "unchanged" /\ p[1].op = "init" /\ p[2].op = "allocate"
             /\ t.cmd = "transfer" /\ p[6].commands = <<DmaNotify("scratch"), t>>
    OBVIOUS
  <2>1. ~Ended /\ pc <= 8
    BY TestsAreTests DEF TellInv, Ended, kSwitching
  <2>2. IsSwitching(p) /\ t.cmd = "transfer" /\ p[6].commands = <<DmaNotify("scratch"), t>>
    BY <2>1, SwitchingInstruction DEF IInv
  <2>3. AllocatesAt(p) = 2 /\ 8 < Len(p) /\ kSwitching \in 1 .. 19
    BY <2>2 DEF IsSwitching, kSwitching
  <2> HIDE DEF p
  <2>4. pc \in 1 .. 8 /\ instruction = p[pc] /\ instruction.op \notin {"framebuffer", "free"}
    BY <2>1, <2>3, StandsBefore DEF p
  <2>5. QED BY <2>1, <2>2, <2>4 DEF IsSwitching
<1>2. test \in Nat /\ kSwitching \in Nat
  <2>1. Len(kTests) = 19
    BY TestsAreTests
  <2>2. QED BY <2>1 DEF IInv, PlaceInv, kSwitching
<1> HIDE DEF t
<1> DEFINE n == DmaNotify("scratch")
<1>3. n.cmd = "notify"
  BY DEF DmaNotify
<1> HIDE DEF n
<1>4. /\ <<n, t>> # <<>> /\ <<t>> # <<>> /\ Head(<<n, t>>) = n /\ Tail(<<n, t>>) = <<t>> /\ Head(<<t>>) = t /\ Tail(<<t>>) = <<>>
  OBVIOUS
<1>5. Handing(p) <=>
         \/ (pushbuffer = <<n, t>> \/ pushbuffer = <<t>>) /\ live.ptimer = prev_rec.ptimer
         \/ pushbuffer = <<>> /\ live.ptimer # prev_rec.ptimer
  BY DEF Handing, n, t
<1>6. Handing(p)' <=>
         \/ (pushbuffer' = <<n, t>> \/ pushbuffer' = <<t>>) /\ live'.ptimer = prev_rec'.ptimer
         \/ pushbuffer' = <<>> /\ live'.ptimer # prev_rec'.ptimer
  BY DEF Handing, n, t
<1>7. UNCHANGED vars \/ Gpu \/ GpumCopyStarts \/ EndsPassing \/ GoesOnPassing
  BY PassingSteps
<1>8. live \in [status : {0, -1}, ptimer : 0 .. 2]
  BY DEF IInv, QueueInv
<1>9. CASE UNCHANGED vars
  <2>1. UNCHANGED <<test, pc, live, prev_rec, pushbuffer>>
    BY <1>9 DEF vars, position, gpu
  <2>2. QED BY <2>1 DEF TellInv, Handing
<1>10. CASE Gpu
  <2>1. ~Turned
    BY DEF Turned
  <2>2. /\ pushbuffer # <<>> /\ pushbuffer' = Tail(pushbuffer) /\ UNCHANGED <<test, pc, prev_rec>>
        /\ live' = IF Head(pushbuffer).cmd = "transfer" THEN [status |-> 0, ptimer |-> 1 + (live.ptimer % 2)] ELSE live
    BY <1>10, <2>1, GpuTakesFirst
  <2>3. armed \/ At("busy_wait")
    BY <2>2 DEF IInv, QueueInv
  <2>4. instruction.op \in {"copy", "busy_wait"}
    BY <2>3 DEF At, IInv, PlaceInv
  <2>5. test = kSwitching => pc \notin {6, 8}
    BY <1>1, <2>4
  <2>6. ASSUME test = kSwitching, pc = 7 PROVE Handing(p)'
    <3>1. (pushbuffer = <<n, t>> \/ pushbuffer = <<t>>) /\ live.ptimer = prev_rec.ptimer
      BY <1>5, <2>2, <2>6 DEF TellInv
    <3>2. CASE pushbuffer = <<n, t>>
      <4>1. live' = live /\ pushbuffer' = <<t>>
        BY <1>3, <1>4, <2>2, <3>2
      <4>2. QED BY <1>6, <2>2, <3>1, <4>1
    <3>3. CASE pushbuffer = <<t>>
      <4>1. live' = [status |-> 0, ptimer |-> 1 + (live.ptimer % 2)] /\ pushbuffer' = <<>>
        BY <1>1, <1>4, <2>2, <2>6, <3>3
      <4>2. live'.ptimer # live.ptimer
        <5>1. live'.ptimer = 1 + (live.ptimer % 2) /\ live.ptimer \in 0 .. 2
          BY <1>8, <4>1
        <5>2. QED BY <5>1
      <4>3. QED BY <1>6, <2>2, <3>1, <4>1, <4>2
    <3>4. QED BY <3>1, <3>2, <3>3
  <2>7. QED BY <2>2, <2>5, <2>6 DEF TellInv
<1>11. CASE GpumCopyStarts
  <2>1. instruction.op = "copy" /\ test' = test /\ pc' = pc
    BY <1>11 DEF GpumCopyStarts, At
  <2>2. test = kSwitching => pc \notin {6, 7, 8}
    BY <1>1, <2>1
  <2>3. QED BY <2>1, <2>2 DEF TellInv
<1>12. CASE EndsPassing
  <2>1. test' = test + 1 /\ pc' = 1 /\ test # kSwitching
    BY <1>1, <1>12 DEF EndsPassing, NextTest
  <2>2. test' <= kSwitching
    BY <1>2, <2>1 DEF TellInv
  <2>3. QED BY <1>2, <2>1, <2>2 DEF TellInv
<1>13. CASE GoesOnPassing
  <2>1. /\ test' = test /\ pc' = pc + 1 /\ live' = live
        /\ prev_rec' = IF instruction.op = "dump" THEN live ELSE prev_rec
        /\ pushbuffer' = IF instruction.op = "push" THEN instruction.commands ELSE <<>>
        /\ instruction.op = "busy_wait" => pushbuffer = <<>>
        /\ instruction.op = "record" => RecordHolds
    BY <1>13 DEF GoesOnPassing, GoesWell, GoesOrdinarily, Step
  <2>2. CASE test # kSwitching
    BY <2>1, <2>2 DEF TellInv
  <2>3. CASE test = kSwitching /\ pc \in 1 .. 4
    BY <2>1, <2>3 DEF TellInv
  <2>4. CASE test = kSwitching /\ pc = 5
    BY <1>1, <2>1, <2>4 DEF TellInv
  <2>5. CASE test = kSwitching /\ pc = 6
    <3>1. pushbuffer' = <<n, t>> /\ live' = live /\ prev_rec' = prev_rec /\ live.ptimer = prev_rec.ptimer
      BY <1>1, <2>1, <2>5 DEF TellInv, n
    <3>2. Handing(p)'
      BY <1>6, <3>1
    <3>3. QED BY <2>1, <2>5, <3>2 DEF TellInv
  <2>6. CASE test = kSwitching /\ pc = 7
    <3>1. pushbuffer = <<>> /\ prev_rec' = prev_rec
      BY <1>1, <2>1, <2>6
    <3>2. live.ptimer # prev_rec.ptimer
      BY <1>4, <1>5, <2>6, <3>1 DEF TellInv
    <3>3. QED BY <2>1, <2>6, <3>1, <3>2 DEF TellInv
  <2>7. CASE test = kSwitching /\ pc = 8
    <3>1. instruction.op = "record" /\ instruction.condition = "unchanged"
      BY <1>1, <2>7
    <3>2. live = prev_rec
      BY <2>1, <3>1 DEF RecordHolds
    <3>3. QED BY <2>7, <3>2 DEF TellInv
  <2>8. QED BY <1>1, <2>2, <2>3, <2>4, <2>5, <2>6, <2>7
<1>14. QED BY <1>7, <1>9, <1>10, <1>11, <1>12, <1>13

\* The GPU that takes two transfers the wrong way copies what is not yet there.
Chained == Linear("b", 0, "a", 0, kChainSize)
Chaining == Linear("c", 0, "b", 0, kChainSize)
ChainWrites == <<Fill("a", 0, kChainSize, 131), Set("b", 0, kChainSize, 17), Set("c", 0, kChainSize, 34)>>
ChainSizes == [buf \in {"a", "b", "c"} |-> kChainSize]
ChainConditions == {Fill("b", 0, kChainSize, 131), Fill("c", 0, kChainSize, 131)}

LEMMA ChainShape ==
  LET p == kTests[3] IN
  /\ AllocatesAt(p) = 2 /\ 6 < Len(p) /\ Sizes(p) = ChainSizes
  /\ p[3].op = "prepare" /\ p[3].writes = ChainWrites
  /\ p[4].op = "push" /\ p[4].commands = <<Chained, Chaining>>
  /\ p[5].op = "busy_wait"
  /\ p[6].op = "check" /\ p[6].conditions = ChainConditions
<1> DEFINE q == <<Chained, Chaining>>
           x == [op |-> "prepare", writes |-> ChainWrites]
           y == [op |-> "push", commands |-> q]
           v == [op |-> "busy_wait"]
           z == [op |-> "check", conditions |-> ChainConditions]
           s == <<x>> \o <<y, v>> \o <<z>>
           p == TestOn(ChainSizes, s)
<1>1. kTests[3] = p
  BY DEF kTests, TestM2MFBatchingCausalChain, Prepare, Push, Check, Chained, Chaining, ChainWrites, ChainSizes, ChainConditions
<1> HIDE DEF q
<1>2. /\ x.op = "prepare" /\ x.writes = ChainWrites /\ y.op = "push" /\ y.commands = q /\ v.op = "busy_wait"
      /\ z.op = "check" /\ z.conditions = ChainConditions
  OBVIOUS
<1> HIDE DEF x, y, v, z
<1>3. IsSequence(s) /\ Len(s) = 4 /\ s[1] = x /\ s[2] = y /\ s[3] = v /\ s[4] = z
  BY InTurn
<1> HIDE DEF s
<1>4. Has(p, 2, s) /\ Len(p) = Len(s) + 3 /\ AllocatesAt(p) = 2 /\ Sizes(p) = ChainSizes
  BY <1>3, TestHas
<1> HIDE DEF p
<1>5. p[2 + 1] = s[1] /\ p[2 + 2] = s[2] /\ p[2 + 3] = s[3] /\ p[2 + 4] = s[4]
  BY <1>3, <1>4 DEF Has
<1>6. p[3] = x /\ p[4] = y /\ p[5] = v /\ p[6] = z /\ 6 < Len(p)
  BY <1>3, <1>4, <1>5
<1>7. /\ AllocatesAt(p) = 2 /\ 6 < Len(p) /\ Sizes(p) = ChainSizes
      /\ p[3].op = "prepare" /\ p[3].writes = ChainWrites
      /\ p[4].op = "push" /\ p[4].commands = q
      /\ p[5].op = "busy_wait"
      /\ p[6].op = "check" /\ p[6].conditions = ChainConditions
  BY <1>2, <1>4, <1>6
<1>8. QED BY <1>1, <1>7 DEF q

\* What it takes first, and what it leaves.
LEMMA GpuTurns ==
  ASSUME NEW x, NEW y, pushbuffer = <<x, y>>, Turned, Gpu
  PROVE  /\ pushbuffer' = <<x>> /\ memory' = One(memory, y, fault)
         /\ UNCHANGED <<test, pc, armed>>
<1>1. pushbuffer[1] = x /\ pushbuffer[2] = y /\ Head(pushbuffer) = x /\ x.cmd = "transfer" /\ y.cmd = "transfer"
  BY DEF Turned
<1>2. chosen = 2
  BY DEF chosen
<1>3. GpuTransfer
  BY <1>1 DEF Gpu, GpuNotify
<1>4. memory' = One(memory, y, fault) /\ pushbuffer' = RemoveAt(pushbuffer, 2) /\ UNCHANGED <<test, pc, armed>>
  BY <1>1, <1>2, <1>3 DEF GpuTransfer, One, position
<1>5. RemoveAt(pushbuffer, 2) = <<x>>
  <2> DEFINE s == <<x, y>>  a == SubSeq(s, 1, 2 - 1)  b == SubSeq(s, 2 + 1, Len(s))  S == {x, y}
  <2>1. RemoveAt(pushbuffer, 2) = a \o b
    BY DEF RemoveAt
  <2>2. a = <<x>> /\ b = <<>>
    <3>1. s \in Seq(S) /\ Len(s) = 2 /\ s[1] = x
      OBVIOUS
    <3> HIDE DEF s, S
    <3>2. a \in Seq(S) /\ Len(a) = 1 /\ a[1] = x /\ b \in Seq(S) /\ Len(b) = 0
      BY <3>1
    <3> HIDE DEF a, b
    <3>3. QED BY <3>2
  <2>3. <<x>> \o <<>> = <<x>>
    OBVIOUS
  <2> HIDE DEF a, b
  <2>4. QED BY <2>1, <2>2, <2>3
<1>6. QED BY <1>4, <1>5

\* The first bytes on the way along the chain.
LEMMA ChainLinks ==
  ASSUME NEW m, IsMemory(m, ChainSizes)
  PROVE  /\ Written(m, ChainWrites)["b"][0] = 17 % kByteSize
         /\ One(m, Chaining, "reorders")["c"][0] = m["b"][0]
         /\ One(m, Chained, "reorders")["c"] = m["c"]
         /\ Satisfied(m, ChainConditions) => m["c"][0] # 17 % kByteSize
<1> DEFINE n == kChainSize
<1>1. n \in Nat /\ 0 \in 0 .. n - 1
  BY Units DEF kChainSize
<1> HIDE DEF n
<1>2. /\ {"a", "b", "c"} \subseteq DOMAIN m /\ 0 \in DOMAIN m["b"] /\ 0 \in DOMAIN m["c"]
      /\ "a" \in Names /\ "b" \in Names /\ "c" \in Names
  <2>1. "b" \in DOMAIN ChainSizes /\ "c" \in DOMAIN ChainSizes /\ ChainSizes["b"] = n /\ ChainSizes["c"] = n
    BY DEF ChainSizes, n
  <2>2. DOMAIN m["b"] = 0 .. n - 1 /\ DOMAIN m["c"] = 0 .. n - 1 /\ DOMAIN m = Names
    BY <2>1 DEF IsMemory
  <2>3. QED BY <1>1, <2>2 DEF Names
<1>3. Written(m, ChainWrites)["b"][0] = 17 % kByteSize
  <2> DEFINE v1 == Fill("a", 0, n, 131)  v2 == Set("b", 0, n, 17)  v3 == Set("c", 0, n, 34)  w == <<v1, v2, v3>>
  <2>1. ChainWrites = w
    BY DEF ChainWrites, n
  <2>2. v1.buf = "a" /\ v2.buf = "b" /\ v2.at = 0 /\ v3.buf = "c"
    BY Fills DEF Set
  <2>3. 0 \in DOMAIN v2.bytes /\ v2.bytes[0] = 17 % kByteSize
    BY <1>1 DEF Set
  <2> HIDE DEF v1, v2, v3
  <2>4. Len(w) = 3 /\ w[1] = v1 /\ w[2] = v2 /\ w[3] = v3 /\ DOMAIN w = 1 .. Len(w) /\ Len(w) \in Nat
    OBVIOUS
  <2> HIDE DEF w
  <2>5. Covers(w[2], "b", 0) /\ 0 - w[2].at = 0 /\ 2 \in 1 .. Len(w)
    BY <2>2, <2>3, <2>4 DEF Covers
  <2>6. \A j \in 1 .. Len(w) : j # 2 => ~Covers(w[j], "b", 0)
    <3>1. \A j \in 1 .. 3 : j # 2 => j = 1 \/ j = 3
      OBVIOUS
    <3>2. QED BY <2>2, <2>4, <3>1 DEF Covers
  <2>7. Written(m, w)["b"][0] = w[2].bytes[0 - w[2].at]
    BY <1>2, <2>4, <2>5, <2>6, WrittenOnce
  <2>8. QED BY <2>1, <2>3, <2>4, <2>5, <2>7
<1>4. \A t : One(m, t, "reorders") = One(m, t, "none")
  <2>1. \A t : Performed(t, "reorders") = t /\ Performed(t, "none") = t
    BY DEF Performed
  <2>2. QED BY <2>1 DEF One
<1>5. One(m, Chaining, "none")["c"][0] = m["b"][0]
  <2> DEFINE d == One(m, Linear("c", 0, "b", 0, n), "none")
  <2>1. Moved(d, m, "c", 0, "b", 0, n)
    BY <1>1, <1>2, LinearCopied
  <2>2. 0 + 0 = 0
    OBVIOUS
  <2> HIDE DEF d
  <2>3. d["c"][0] = m["b"][0]
    BY <1>1, <1>2, <2>1, <2>2 DEF Moved
  <2>4. QED BY <2>3 DEF d, Chaining, n
<1>6. One(m, Chained, "none")["c"] = m["c"]
  <2> DEFINE d == One(m, Linear("b", 0, "a", 0, n), "none")
  <2>1. Moved(d, m, "b", 0, "a", 0, n)
    BY <1>1, <1>2, LinearCopied
  <2> HIDE DEF d
  <2>2. d["c"] = m["c"]
    BY <1>2, <2>1 DEF Moved
  <2>3. QED BY <2>2 DEF d, Chained, n
<1>7. ASSUME Satisfied(m, ChainConditions) PROVE m["c"][0] # 17 % kByteSize
  <2> DEFINE c == Fill("c", 0, n, 131)
  <2>1. Holds(m, c)
    BY <1>7 DEF Satisfied, ChainConditions, n
  <2>2. \A k : Holds(k, c) <=> \A i \in 0 .. n - 1 : k["c"][0 + i] = Patterns[131 % kByteSize][i]
    BY Fills
  <2> HIDE DEF c
  <2>3. 0 + 0 = 0
    OBVIOUS
  <2>4. m["c"][0] = Patterns[131 % kByteSize][0]
    BY <1>1, <2>1, <2>2, <2>3
  <2>5. 131 % kByteSize \in 0 .. kByteSize - 1 /\ 131 % kByteSize # 17 % kByteSize
    BY SizeAssumption
  <2>6. QED BY <2>4, <2>5, PatternsBegin
<1>8. QED BY <1>3, <1>4, <1>5, <1>6, <1>7

\* So the end of the chain keeps what its middle began with.
SwapInv ==
    /\ test < 3 \/ (test = 3 /\ pc <= 6)
    /\ test = 3 /\ pc = 4 => memory["b"][0] = 17 % kByteSize
    /\ test = 3 /\ pc = 5 =>
          \/ pushbuffer = <<Chained, Chaining>> /\ memory["b"][0] = 17 % kByteSize
          \/ (pushbuffer = <<Chained>> \/ pushbuffer = <<>>) /\ memory["c"][0] = 17 % kByteSize
    /\ test = 3 /\ pc = 6 => memory["c"][0] = 17 % kByteSize

LEMMA SwapStays ==
  ASSUME IInv, fault = "reorders", MemoryInv, SwapInv, [Next]_vars, ~excused, pass'
  PROVE  SwapInv'
<1> DEFINE p == kTests[3]
<1>1. test = 3 =>
         /\ ~Ended /\ pc \in 1 .. 6 /\ instruction = p[pc] /\ instruction.op \notin {"framebuffer", "free"}
  <2> SUFFICES ASSUME test = 3
      PROVE  ~Ended /\ pc \in 1 .. 6 /\ instruction = p[pc] /\ instruction.op \notin {"framebuffer", "free"}
    OBVIOUS
  <2>1. ~Ended /\ pc <= 6
    BY TestsAreTests DEF SwapInv, Ended
  <2>2. AllocatesAt(p) = 2 /\ 6 < Len(p)
    BY ChainShape
  <2>3. QED BY <2>1, <2>2, StandsBefore
<1>2. /\ AllocatesAt(p) = 2 /\ Sizes(p) = ChainSizes
      /\ p[3].op = "prepare" /\ p[3].writes = ChainWrites
      /\ p[4].op = "push" /\ p[4].commands = <<Chained, Chaining>>
      /\ p[5].op = "busy_wait" /\ p[6].op = "check" /\ p[6].conditions = ChainConditions
  BY ChainShape
<1>3. test \in Nat
  <2>1. Len(kTests) = 19
    BY TestsAreTests
  <2>2. QED BY <2>1 DEF IInv, PlaceInv
<1>4. test = 3 /\ pc > 2 => IsMemory(memory, ChainSizes)
  BY <1>1, <1>2 DEF MemoryInv, Allocated
<1> HIDE DEF p
<1>5. /\ <<Chained, Chaining>> # <<>> /\ <<Chained>> # <<>> /\ Head(<<Chained>>) = Chained /\ Tail(<<Chained>>) = <<>>
      /\ Len(<<Chained>>) = 1 /\ Len(<<Chained, Chaining>>) = 2
      /\ <<Chained, Chaining>>[1] = Chained /\ <<Chained, Chaining>>[2] = Chaining
  OBVIOUS
<1>6. Chained.cmd = "transfer" /\ Chaining.cmd = "transfer"
  BY Fields DEF Chained, Chaining, Linear, PitchedCopy
<1>7. UNCHANGED vars \/ Gpu \/ GpumCopyStarts \/ EndsPassing \/ GoesOnPassing
  BY PassingSteps
<1>8. CASE UNCHANGED vars
  <2>1. UNCHANGED <<test, pc, memory, pushbuffer>>
    BY <1>8 DEF vars, position, gpu, buffers
  <2>2. QED BY <2>1 DEF SwapInv
<1>9. CASE Gpu
  <2>1. pushbuffer # <<>> /\ test' = test /\ pc' = pc
    BY <1>9 DEF Gpu, GpuNotify, GpuTransfer, position
  <2>2. armed \/ At("busy_wait")
    BY <2>1 DEF IInv, QueueInv
  <2>3. instruction.op \in {"copy", "busy_wait"}
    BY <2>2 DEF At, IInv, PlaceInv
  <2>4. test = 3 => pc \notin {4, 6}
    BY <1>1, <1>2, <2>3 DEF p
  <2>5. ASSUME test = 3, pc = 5
        PROVE  (pushbuffer' = <<Chained>> \/ pushbuffer' = <<>>) /\ memory'["c"][0] = 17 % kByteSize
    <3>1. IsMemory(memory, ChainSizes)
      BY <1>4, <2>5
    <3>2. CASE pushbuffer = <<Chained, Chaining>>
      <4>1. Turned
        BY <1>5, <1>6, <3>2 DEF Turned
      <4>2. pushbuffer' = <<Chained>> /\ memory' = One(memory, Chaining, "reorders")
        BY <1>9, <3>2, <4>1, GpuTurns
      <4>3. memory["b"][0] = 17 % kByteSize
        BY <1>5, <2>5, <3>2 DEF SwapInv
      <4>4. QED BY <3>1, <4>2, <4>3, ChainLinks
    <3>3. CASE pushbuffer = <<Chained>>
      <4>1. ~Turned
        BY <1>5, <3>3 DEF Turned
      <4>2. pushbuffer' = <<>> /\ memory' = One(memory, Chained, "reorders")
        BY <1>5, <1>9, <3>3, <4>1, GpuTakesFirst
      <4>3. memory["c"][0] = 17 % kByteSize
        BY <1>5, <2>5, <3>3 DEF SwapInv
      <4>4. QED BY <3>1, <4>2, <4>3, ChainLinks
    <3>4. QED BY <2>1, <2>5, <3>2, <3>3 DEF SwapInv
  <2>6. QED BY <2>1, <2>4, <2>5 DEF SwapInv
<1>10. CASE GpumCopyStarts
  <2>1. instruction.op = "copy" /\ test' = test /\ pc' = pc
    BY <1>10 DEF GpumCopyStarts, At
  <2>2. test = 3 => pc \notin {4, 5, 6}
    BY <1>1, <1>2, <2>1 DEF p
  <2>3. QED BY <2>1, <2>2 DEF SwapInv
<1>11. CASE EndsPassing
  <2>1. test' = test + 1 /\ pc' = 1 /\ test # 3
    BY <1>1, <1>11 DEF EndsPassing, NextTest
  <2>2. QED BY <1>3, <2>1 DEF SwapInv
<1>12. CASE GoesOnPassing
  <2>1. /\ test' = test /\ pc' = pc + 1
        /\ instruction.op = "prepare" => memory' = Written(memory, instruction.writes)
        /\ instruction.op \notin {"prepare", "allocate"} => memory' = memory
        /\ pushbuffer' = IF instruction.op = "push" THEN instruction.commands ELSE <<>>
        /\ instruction.op = "busy_wait" => pushbuffer = <<>>
        /\ instruction.op = "check" => Satisfied(memory, instruction.conditions)
    BY <1>12 DEF GoesOnPassing, GoesWell, GoesOrdinarily, Step
  <2>2. CASE test # 3
    BY <2>1, <2>2 DEF SwapInv
  <2>3. CASE test = 3 /\ pc \in 1 .. 2
    BY <2>1, <2>3 DEF SwapInv
  <2>4. CASE test = 3 /\ pc = 3
    <3>1. memory' = Written(memory, ChainWrites) /\ IsMemory(memory, ChainSizes)
      BY <1>1, <1>2, <1>4, <2>1, <2>4 DEF p
    <3>2. memory'["b"][0] = 17 % kByteSize
      BY <3>1, ChainLinks
    <3>3. QED BY <2>1, <2>4, <3>2 DEF SwapInv
  <2>5. CASE test = 3 /\ pc = 4
    <3>1. memory' = memory /\ pushbuffer' = <<Chained, Chaining>>
      BY <1>1, <1>2, <2>1, <2>5 DEF p
    <3>2. memory["b"][0] = 17 % kByteSize
      BY <2>5 DEF SwapInv
    <3>3. QED BY <2>1, <2>5, <3>1, <3>2 DEF SwapInv
  <2>6. CASE test = 3 /\ pc = 5
    <3>1. memory' = memory /\ pushbuffer = <<>>
      BY <1>1, <1>2, <2>1, <2>6 DEF p
    <3>2. memory["c"][0] = 17 % kByteSize
      BY <1>5, <2>6, <3>1 DEF SwapInv
    <3>3. QED BY <2>1, <2>6, <3>1, <3>2 DEF SwapInv
  <2>7. CASE test = 3 /\ pc = 6
    <3>1. Satisfied(memory, ChainConditions) /\ IsMemory(memory, ChainSizes)
      BY <1>1, <1>2, <1>4, <2>1, <2>7 DEF p
    <3>2. QED BY <2>7, <3>1, ChainLinks DEF SwapInv
  <2>8. QED BY <1>1, <2>2, <2>3, <2>4, <2>5, <2>6, <2>7
<1>13. QED BY <1>7, <1>8, <1>9, <1>10, <1>11, <1>12

-----------------------------------------------------------------------------
(* Every fault *)

\* A suite that has not failed yet is still to come to what shows the fault.
DoubtInv ==
    fault \in Faults /\ pass =>
        /\ ~excused /\ MemoryInv
        /\ fault = "silent" => SilentInv
        /\ fault = "notifies_live" => TellInv
        /\ fault = "reorders" => SwapInv
        /\ \A wrong \in Compared : fault = wrong => SoonInv(TestFor(wrong), PlaceFor(wrong))

\* At first it is.
LEMMA InitDoubt == Init => DoubtInv
<1> SUFFICES ASSUME Init PROVE DoubtInv
  OBVIOUS
<1>1. test = 1 /\ pc = 1 /\ ~armed /\ ~excused
  BY DEF Init
<1>2. MemoryInv
  <2>1. Allocated = Nothing
    BY <1>1 DEF Allocated, AllocatesAt, Nothing
  <2>2. QED BY <2>1, InitMemory DEF MemoryInv
<1>3. SilentInv /\ TellInv /\ SwapInv
  BY <1>1 DEF SilentInv, TellInv, SwapInv, kSwitching
<1>4. ASSUME NEW wrong \in Compared PROVE SoonInv(TestFor(wrong), PlaceFor(wrong))
  <2>1. TestFor(wrong) \in {5, 7, 19}
    BY DEF TestFor
  <2>2. test < TestFor(wrong) /\ test # TestFor(wrong)
    BY <1>1, <2>1
  <2>3. QED BY <2>2 DEF SoonInv
<1>5. QED BY <1>1, <1>2, <1>3, <1>4 DEF DoubtInv

\* Then the thread does not come past it.
LEMMA DoubtStays ==
  ASSUME IInv, IInv', DoubtInv, [Next]_vars
  PROVE  DoubtInv'
<1> SUFFICES ASSUME fault' \in Faults, pass'
    PROVE  /\ ~excused' /\ MemoryInv'
           /\ fault' = "silent" => SilentInv'
           /\ fault' = "notifies_live" => TellInv'
           /\ fault' = "reorders" => SwapInv'
           /\ \A wrong \in Compared : fault' = wrong => SoonInv(TestFor(wrong), PlaceFor(wrong))'
  BY DEF DoubtInv
<1>1. fault' = fault
  BY DEF Next, Gpu, GpuNotify, GpuTransfer, Thread, M2MFInit, M2MFInitFails, Framebuffer, Allocate, AllocateFails,
         PrepareStep, GpumCopyStarts, GpumCopyReturns, GpumCopyGivesUp, PushStep, PBKitBusyWait, CheckStep, RecordStep,
         Dump, Free, End, vars
<1>2. pass
  BY DEF Next, Gpu, GpuNotify, GpuTransfer, Thread, M2MFInit, M2MFInitFails, Framebuffer, Allocate, AllocateFails,
         PrepareStep, GpumCopyStarts, GpumCopyReturns, GpumCopyGivesUp, PushStep, PBKitBusyWait, CheckStep, RecordStep,
         Dump, Free, End, vars
<1>3. /\ ~excused /\ MemoryInv
      /\ fault = "silent" => SilentInv
      /\ fault = "notifies_live" => TellInv
      /\ fault = "reorders" => SwapInv
      /\ \A wrong \in Compared : fault = wrong => SoonInv(TestFor(wrong), PlaceFor(wrong))
  BY <1>1, <1>2 DEF DoubtInv
<1>4. ~excused'
  BY <1>3, PassingSteps
<1>5. MemoryInv'
  BY <1>3, MemoryStays
<1>6. fault = "silent" => SilentInv'
  BY <1>3, SilenceStays
<1>7. fault = "notifies_live" => TellInv'
  BY <1>3, TellStays
<1>8. fault = "reorders" => SwapInv'
  BY <1>3, SwapStays
<1>9. ASSUME NEW wrong \in Compared, fault = wrong PROVE SoonInv(TestFor(wrong), PlaceFor(wrong))'
  <2>1. SoonInv(TestFor(wrong), PlaceFor(wrong))
    BY <1>3, <1>9
  <2>2. TestFor(wrong) \in 1 .. 19 /\ Exposes(kTests[TestFor(wrong)], PlaceFor(wrong), fault)
    BY <1>9, EachIsExposed
  <2>3. fault # "reorders"
    BY <1>9 DEF Compared
  <2>4. QED BY <1>3, <2>1, <2>2, <2>3, SoonFails
<1>10. QED BY <1>1, <1>4, <1>5, <1>6, <1>7, <1>8, <1>9

\* A GPU with one of Faults, whichever of them, does not pass the suite: the log that
\* m2mf_main.cpp leaves behind has a failure.
THEOREM FaultsAreAlwaysDetected == Spec => []FaultsAreDetected
<1>1. Init => DoubtInv
  BY InitDoubt
<1>2. IInv /\ IInv' /\ DoubtInv /\ [Next]_vars => DoubtInv'
  BY DoubtStays
<1>3. IInv /\ DoubtInv => FaultsAreDetected
  <2> SUFFICES ASSUME IInv, DoubtInv, Ended, fault \in Faults, pass PROVE FALSE
    BY DEF FaultsAreDetected
  <2>1. test = 20
    <3>1. Len(kTests) = 19
      BY TestsAreTests
    <3>2. test \in 1 .. Len(kTests) + 1 /\ test > Len(kTests)
      BY DEF IInv, PlaceInv, Ended
    <3>3. QED BY <3>1, <3>2
  <2>2. fault # "silent" /\ fault # "notifies_live" /\ fault # "reorders"
    <3>1. ~SilentInv /\ ~TellInv /\ ~SwapInv
      BY <2>1 DEF SilentInv, TellInv, SwapInv, kSwitching
    <3>2. QED BY <3>1 DEF DoubtInv
  <2>3. fault \in Compared
    BY <2>2 DEF Faults, Compared
  <2>4. TestFor(fault) \in 1 .. 19
    BY <2>3, EachIsExposed
  <2>5. SoonInv(TestFor(fault), PlaceFor(fault))
    BY <2>3 DEF DoubtInv
  <2>6. QED BY <2>1, <2>4, <2>5 DEF SoonInv
<1>4. QED BY <1>1, <1>2, <1>3, Invariance, PTL DEF Spec
=============================================================================
