--------------------------- MODULE TestLogProofs ----------------------------
(***************************************************************************)
(* The invariants of TestLog.tla, for any test and scope names, any number *)
(* of tests, events and nested scopes, and any number of lost appends.     *)
(*                                                                         *)
(* First what each token does to a file in place, then what each text the  *)
(* log appends does to it, then type correctness, then the inductive       *)
(* invariant IInv and one lemma per action of the log for it.              *)
(***************************************************************************)
EXTENDS TestLog, SequenceTheorems, TLAPS

-----------------------------------------------------------------------------
(* Containers. *)

\* The containers after a move of the innermost one.
LEMMA MoveType ==
  ASSUME NEW d \in Doc, Depth(d) > 0, NEW vs \in Seq(Value),
         NEW at \in {"first", "after", "comma"}
  PROVE  /\ Move(d, at, vs) \in Seq(Frame)
         /\ Len(Move(d, at, vs)) = Depth(d)
         /\ Move(d, at, vs)[Depth(d)].at = at
         /\ Move(d, at, vs)[Depth(d)].kind = Top(d).kind
         /\ Move(d, at, vs)[Depth(d)].vals = Top(d).vals \o vs
         /\ \A i \in 1 .. Depth(d) - 1 : Move(d, at, vs)[i] = d.stack[i]
<1> DEFINE n == Depth(d)
           f == [kind |-> Top(d).kind, at |-> at, vals |-> Top(d).vals \o vs]
<1>1. n \in 1 .. Len(d.stack) /\ d.stack \in Seq(Frame) /\ n = Len(d.stack)
  BY DEF Depth, Doc
<1>2. Top(d) \in Frame
  BY <1>1 DEF Top
<1>3. f \in Frame
  BY <1>2 DEF Frame
<1>4. Move(d, at, vs) = [d.stack EXCEPT ![n] = f]
  BY DEF Move
<1> HIDE DEF n
<1>5. QED BY <1>1, <1>3, <1>4 DEF n

\* A container just opened.
LEMMA OpenType ==
  ASSUME NEW kind \in {"object"} \cup Array
  PROVE  /\ Open(kind) \in Frame
         /\ Open(kind).kind = kind /\ Open(kind).at = "first" /\ Open(kind).vals = <<>>
BY DEF Open, Frame, Array

-----------------------------------------------------------------------------
(* What each token does to the reader. *)

SameBelow(d, e, n) == \A i \in 1 .. n : e.stack[i] = d.stack[i]

\* e is d with the innermost container moved to at; nothing else has changed.
Moved(d, e, at) ==
    /\ e \in Doc /\ e.ok /\ e.done = d.done /\ e.tests = d.tests
    /\ Depth(e) = Depth(d) /\ SameBelow(d, e, Depth(d) - 1)
    /\ Top(e).kind = Top(d).kind /\ Top(e).at = at

\* e is d with one more container open, and the one around it past this item.
Grown(d, e, kind) ==
    /\ e \in Doc /\ e.ok /\ e.done = d.done /\ e.tests = d.tests
    /\ Depth(e) = Depth(d) + 1 /\ SameBelow(d, e, Depth(d) - 1)
    /\ e.stack[Depth(d)].kind = Top(d).kind /\ e.stack[Depth(d)].at = "after"
    /\ e.stack[Depth(d)].vals = Top(d).vals
    /\ Top(e).kind = kind /\ Top(e).at = "first" /\ Top(e).vals = <<>>

\* The innermost container is a container.
LEMMA TopType ==
  ASSUME NEW d \in Doc, Depth(d) > 0
  PROVE  Top(d) \in Frame /\ Top(d).vals \in Seq(Value)
<1>1. Top(d) \in Frame
  BY DEF Top, Depth, Doc
<1>2. QED BY <1>1 DEF Frame

\* A document with another stack.
LEMMA StackLemma ==
  ASSUME NEW d \in Doc, NEW s \in Seq(Frame)
  PROVE  LET e == [d EXCEPT !.stack = s]
         IN  /\ e \in Doc /\ e.stack = s /\ e.ok = d.ok /\ e.done = d.done
             /\ e.tests = d.tests /\ e.suite = d.suite
BY DEF Doc

\* A move of the innermost container changes nothing else.
LEMMA MoveLemma ==
  ASSUME NEW d \in Doc, d.ok, Depth(d) > 0, NEW vs \in Seq(Value),
         NEW at \in {"first", "after", "comma"}
  PROVE  LET e == [d EXCEPT !.stack = Move(d, at, vs)]
         IN  Moved(d, e, at) /\ Top(e).vals = Top(d).vals \o vs
<1> DEFINE s == Move(d, at, vs)
           e == [d EXCEPT !.stack = s]
<1>1. /\ s \in Seq(Frame) /\ Len(s) = Depth(d) /\ s[Depth(d)].at = at
      /\ s[Depth(d)].kind = Top(d).kind /\ s[Depth(d)].vals = Top(d).vals \o vs
      /\ \A i \in 1 .. Depth(d) - 1 : s[i] = d.stack[i]
  BY MoveType
<1> HIDE DEF s
<1>2. e \in Doc /\ e.stack = s /\ e.ok /\ e.done = d.done /\ e.tests = d.tests
  BY <1>1, StackLemma
<1> HIDE DEF e
<1>3. Depth(e) = Depth(d) /\ Top(e) = s[Depth(d)] /\ SameBelow(d, e, Depth(d) - 1)
  BY <1>1, <1>2 DEF Depth, Top, SameBelow
<1>4. Moved(d, e, at) /\ Top(e).vals = Top(d).vals \o vs
  BY <1>1, <1>2, <1>3 DEF Moved
<1>5. QED BY <1>4 DEF e, s

\* A separator.
LEMMA CommaLemma ==
  ASSUME NEW d \in Doc, d.ok, Depth(d) > 0, Top(d).at = "after"
  PROVE  Moved(d, Comma(d), "comma") /\ Top(Comma(d)).vals = Top(d).vals
<1>1. <<>> \in Seq(Value) /\ Top(d).vals \o <<>> = Top(d).vals
  BY TopType, ConcatEmptySeq
<1>2. Comma(d) = [d EXCEPT !.stack = Move(d, "comma", <<>>)]
  BY DEF Comma
<1>3. LET e == [d EXCEPT !.stack = Move(d, "comma", <<>>)]
      IN  Moved(d, e, "comma") /\ Top(e).vals = Top(d).vals \o <<>>
  BY <1>1, MoveLemma
<1>4. QED BY <1>1, <1>2, <1>3

\* Members of the innermost object.
LEMMA MembersLemma ==
  ASSUME NEW d \in Doc, d.ok, InObject(d), Ready(d), NEW vs \in Seq(Value)
  PROVE  Moved(d, Members(d, vs), "after") /\ Top(Members(d, vs)).vals = Top(d).vals \o vs
<1>1. Depth(d) > 0 /\ Members(d, vs) = [d EXCEPT !.stack = Move(d, "after", vs)]
  BY DEF Members, ItemRead, Ready
<1>2. QED BY <1>1, MoveLemma

\* A flat object as an item of the innermost array.
LEMMA ItemLemma ==
  ASSUME NEW d \in Doc, d.ok, InArray(d), Ready(d)
  PROVE  Moved(d, Item(d), "after")
<1>1. <<>> \in Seq(Value)
  OBVIOUS
<1>2. Depth(d) > 0 /\ Item(d) = [d EXCEPT !.stack = Move(d, "after", <<>>)]
  BY DEF Item, ItemRead, Ready
<1>3. QED BY <1>1, <1>2, MoveLemma

\* A container opened inside the innermost one.
LEMMA PushLemma ==
  ASSUME NEW d \in Doc, d.ok, Depth(d) > 0, NEW kind \in {"object"} \cup Array
  PROVE  Grown(d, Pushed(d, Open(kind)), kind)
<1> DEFINE s == Move(d, "after", <<>>)
           t == Append(s, Open(kind))
<1>1. /\ s \in Seq(Frame) /\ Len(s) = Depth(d) /\ s[Depth(d)].at = "after"
      /\ s[Depth(d)].kind = Top(d).kind /\ s[Depth(d)].vals = Top(d).vals
      /\ \A i \in 1 .. Depth(d) - 1 : s[i] = d.stack[i]
  <2>1. <<>> \in Seq(Value) /\ Top(d).vals \o <<>> = Top(d).vals
    BY TopType, ConcatEmptySeq
  <2>2. QED BY <2>1, MoveType
<1>2. /\ Open(kind) \in Frame
      /\ Open(kind).kind = kind /\ Open(kind).at = "first" /\ Open(kind).vals = <<>>
  BY OpenType
<1> HIDE DEF s
<1>3. /\ t \in Seq(Frame) /\ Len(t) = Len(s) + 1 /\ t[Len(s) + 1] = Open(kind)
      /\ \A i \in 1 .. Len(s) : t[i] = s[i]
  BY <1>1, <1>2
<1> HIDE DEF t
<1>4. Depth(d) \in Nat
  BY DEF Depth, Doc
<1>5. \A i \in 1 .. Depth(d) : i \in 1 .. Len(s)
  BY <1>1
<1>6. Pushed(d, Open(kind)) = [d EXCEPT !.stack = t]
  BY DEF Pushed, ItemRead, s, t
<1> DEFINE e == Pushed(d, Open(kind))
<1>7. /\ e \in Doc /\ e.stack = t /\ e.ok /\ e.done = d.done /\ e.tests = d.tests
  BY <1>3, <1>6, StackLemma
<1> HIDE DEF e
<1>8. Depth(e) = Depth(d) + 1 /\ Top(e) = Open(kind)
  BY <1>1, <1>3, <1>7 DEF Depth, Top
<1>9. SameBelow(d, e, Depth(d) - 1)
  BY <1>1, <1>3, <1>4, <1>5, <1>7 DEF SameBelow
<1>10. e.stack[Depth(d)] = s[Depth(d)]
  BY <1>1, <1>3, <1>4, <1>7
<1>11. QED BY <1>1, <1>2, <1>7, <1>8, <1>9, <1>10 DEF Grown, e

\* An object opened in an array.
LEMMA ObjLemma ==
  ASSUME NEW d \in Doc, d.ok, InArray(d), Ready(d)
  PROVE  Grown(d, Obj(d), "object")
<1>1. Depth(d) > 0 /\ Obj(d) = Pushed(d, Open("object"))
  BY DEF Obj, InArray
<1>2. QED BY <1>1, PushLemma

\* An array opened in an object.
LEMMA ArrLemma ==
  ASSUME NEW d \in Doc, d.ok, InObject(d), Ready(d), NEW key \in Array
  PROVE  Grown(d, Arr(d, key), key)
<1>1. Depth(d) > 0 /\ Arr(d, key) = Pushed(d, Open(key))
  BY DEF Arr, InObject
<1>2. QED BY <1>1, PushLemma

\* e is d with the innermost container closed.
Shrunk(d, e) ==
    /\ e \in Doc /\ e.ok
    /\ Depth(e) = Depth(d) - 1 /\ SameBelow(d, e, Depth(d) - 1)

\* The containers once the innermost one is closed.
LEMMA PoppedType ==
  ASSUME NEW d \in Doc, Depth(d) > 0
  PROVE  /\ Popped(d) \in Seq(Frame) /\ Len(Popped(d)) = Depth(d) - 1
         /\ \A i \in 1 .. Depth(d) - 1 : Popped(d)[i] = d.stack[i]
<1>1. d.stack \in Seq(Frame) /\ Depth(d) = Len(d.stack)
  BY DEF Doc, Depth
<1>2. QED BY <1>1 DEF Popped

\* An array closed.
LEMMA EndArrLemma ==
  ASSUME NEW d \in Doc, d.ok, InArray(d), Top(d).at # "comma"
  PROVE  Shrunk(d, EndArr(d)) /\ EndArr(d).done = d.done /\ EndArr(d).tests = d.tests
<1>1. Depth(d) > 0 /\ EndArr(d) = [d EXCEPT !.stack = Popped(d)]
  BY DEF EndArr, InArray
<1>2. QED BY <1>1, PoppedType DEF Shrunk, SameBelow, Doc, Depth

\* An object closed inside another container: a test if it stands in "tests".
LEMMA EndObjLemma ==
  ASSUME NEW d \in Doc, d.ok, InObject(d), Top(d).at # "comma", Depth(d) > 1
  PROVE  Shrunk(d, EndObj(d)) /\ EndObj(d).done = d.done /\ EndObj(d).tests = TestsRead(d)
<1>1. EndObj(d) = [ok |-> TRUE, done |-> d.done, stack |-> Popped(d),
                   tests |-> TestsRead(d), suite |-> d.suite]
  BY DEF EndObj
<1>2. Top(d) \in Frame
  BY DEF Top, Depth, Doc
<1>3. TestsRead(d) \in Seq(Seq(Value))
  BY <1>2 DEF TestsRead, Doc, Frame
<1>4. EndObj(d) \in Doc
  <2>1. d.done \in BOOLEAN /\ d.suite \in Seq(Value) /\ Depth(d) \in Nat
    BY DEF Doc, Depth
  <2>2. Popped(d) \in Seq(Frame)
    BY <2>1, PoppedType
  <2>3. QED BY <1>1, <1>3, <2>1, <2>2 DEF Doc
<1>5. QED BY <1>1, <1>4, PoppedType DEF Shrunk, SameBelow, Depth

\* The outermost object closed: the document is complete.
LEMMA EndDocLemma ==
  ASSUME NEW d \in Doc, d.ok, InObject(d), Top(d).at # "comma", Depth(d) = 1
  PROVE  /\ EndObj(d) \in Doc /\ EndObj(d).ok /\ EndObj(d).done /\ Depth(EndObj(d)) = 0
         /\ EndObj(d).tests = d.tests /\ EndObj(d).suite = Top(d).vals
<1>1. EndObj(d) = [ok |-> TRUE, done |-> TRUE, stack |-> <<>>,
                   tests |-> d.tests, suite |-> Top(d).vals]
  BY DEF EndObj
<1>2. Top(d) \in Frame
  BY DEF Top, Depth, Doc
<1>3. Top(d).vals \in Seq(Value) /\ <<>> \in Seq(Frame)
  BY <1>2 DEF Frame
<1>4. Len(EndObj(d).stack) = 0
  BY <1>1
<1>5. QED BY <1>1, <1>3, <1>4 DEF Doc, Depth

-----------------------------------------------------------------------------
(* Every token leaves a document, in place or not. *)

\* Every token, in place or not, leaves a document.
LEMMA TokenTypes ==
  ASSUME NEW d \in Doc, NEW vs \in Seq(Value), NEW key \in Array
  PROVE  /\ Comma(d) \in Doc /\ Members(d, vs) \in Doc /\ Item(d) \in Doc
         /\ Obj(d) \in Doc /\ Arr(d, key) \in Doc /\ EndArr(d) \in Doc /\ EndObj(d) \in Doc
<1>1. Stuck(d) \in Doc
  BY DEF Stuck, Doc
<1>2. Depth(d) \in Nat /\ d.ok \in BOOLEAN
  BY DEF Depth, Doc
<1>3. Comma(d) \in Doc
  BY <1>1, CommaLemma DEF Comma, Moved
<1>4. Members(d, vs) \in Doc
  BY <1>1, MembersLemma DEF Members, Moved
<1>5. Item(d) \in Doc
  BY <1>1, ItemLemma DEF Item, Moved
<1>6. Obj(d) \in Doc
  <2>1. CASE d.ok /\ Depth(d) = 0 /\ ~d.done
    <3>1. <<Open("object")>> \in Seq(Frame)
      BY OpenType
    <3>2. Obj(d) = [d EXCEPT !.stack = <<Open("object")>>]
      BY <2>1 DEF Obj
    <3>3. QED BY <3>1, <3>2, StackLemma
  <2>2. CASE ~(d.ok /\ Depth(d) = 0 /\ ~d.done) /\ d.ok /\ InArray(d) /\ Ready(d)
    BY <2>2, ObjLemma DEF Grown
  <2>3. CASE /\ ~(d.ok /\ Depth(d) = 0 /\ ~d.done)
             /\ ~(d.ok /\ InArray(d) /\ Ready(d))
    BY <1>1, <2>3 DEF Obj
  <2>4. QED BY <2>1, <2>2, <2>3
<1>7. Arr(d, key) \in Doc
  BY <1>1, ArrLemma DEF Arr, Grown
<1>8. EndArr(d) \in Doc
  BY <1>1, EndArrLemma DEF EndArr, Shrunk
<1>9. EndObj(d) \in Doc
  <2>1. CASE d.ok /\ InObject(d) /\ Top(d).at # "comma"
    <3>1. CASE Depth(d) = 1
      BY <2>1, <3>1, EndDocLemma
    <3>2. CASE Depth(d) # 1
      BY <1>2, <2>1, <3>2, EndObjLemma DEF Shrunk, InObject
    <3>3. QED BY <3>1, <3>2
  <2>2. CASE ~(d.ok /\ InObject(d) /\ Top(d).at # "comma")
    BY <1>1, <2>2 DEF EndObj
  <2>3. QED BY <2>1, <2>2
<1>10. QED BY <1>3, <1>4, <1>5, <1>6, <1>7, <1>8, <1>9

-----------------------------------------------------------------------------
(* What each text TestLog appends does to a well-formed file. *)

\* {"name": ..., "events": [ as the next item of an array.
LEMMA OpenItem ==
  ASSUME NEW d \in Doc, d.ok, InArray(d), Ready(d), NEW name \in Value
  PROVE  LET e == Arr(Comma(Members(Obj(d), <<name>>)), "events")
         IN  /\ e \in Doc /\ e.ok /\ e.done = d.done /\ e.tests = d.tests
             /\ Depth(e) = Depth(d) + 2 /\ SameBelow(d, e, Depth(d) - 1)
             /\ e.stack[Depth(d)].kind = Top(d).kind /\ e.stack[Depth(d)].at = "after"
             /\ e.stack[Depth(d)].vals = Top(d).vals
             /\ e.stack[Depth(d) + 1].kind = "object" /\ e.stack[Depth(d) + 1].at = "after"
             /\ e.stack[Depth(d) + 1].vals = <<name>>
             /\ e.stack[Depth(d) + 2].kind = "events" /\ e.stack[Depth(d) + 2].at = "first"
<1> DEFINE a == Obj(d)
           b == Members(a, <<name>>)
           c == Comma(b)
           e == Arr(c, "events")
<1>1. Depth(d) \in Nat /\ Depth(d) > 0 /\ "events" \in Array
  BY DEF Depth, Doc, InArray, Array
<1>2. Grown(d, a, "object")
  BY ObjLemma
<1> HIDE DEF a
<1>3. InObject(a) /\ Ready(a) /\ <<name>> \in Seq(Value) /\ a \in Doc /\ a.ok
  BY <1>1, <1>2 DEF Grown, InObject, Ready
<1>4. Moved(a, b, "after") /\ Top(b).vals = <<>> \o <<name>>
  BY <1>2, <1>3, MembersLemma DEF Grown
<1> HIDE DEF b
<1>5. Depth(b) > 0 /\ b \in Doc /\ b.ok /\ Top(b).at = "after"
  BY <1>1, <1>2, <1>4 DEF Grown, Moved
<1>6. Moved(b, c, "comma") /\ Top(c).vals = Top(b).vals
  BY <1>5, CommaLemma
<1> HIDE DEF c
<1>7. InObject(c) /\ Ready(c) /\ c \in Doc /\ c.ok
  BY <1>1, <1>2, <1>4, <1>6 DEF Grown, Moved, InObject, Ready
<1>8. Grown(c, e, "events")
  BY <1>1, <1>7, ArrLemma
<1> HIDE DEF e
<1>9. e \in Doc /\ e.ok /\ e.done = d.done /\ e.tests = d.tests
  BY <1>2, <1>4, <1>6, <1>8 DEF Grown, Moved
<1>10. Depth(a) = Depth(d) + 1 /\ Depth(b) = Depth(a) /\ Depth(c) = Depth(a) /\ Depth(e) = Depth(d) + 2
  BY <1>1, <1>2, <1>4, <1>6, <1>8 DEF Grown, Moved
<1>11. \A i \in 1 .. Depth(d) : e.stack[i] = a.stack[i]
  BY <1>1, <1>10, <1>4, <1>6, <1>8 DEF Grown, Moved, SameBelow
<1>12. SameBelow(d, e, Depth(d) - 1)
  BY <1>1, <1>2, <1>11 DEF Grown, SameBelow
<1>13. /\ e.stack[Depth(d)].kind = Top(d).kind /\ e.stack[Depth(d)].at = "after"
       /\ e.stack[Depth(d)].vals = Top(d).vals
  BY <1>1, <1>2, <1>11 DEF Grown
<1>14. /\ e.stack[Depth(d) + 1].kind = "object" /\ e.stack[Depth(d) + 1].at = "after"
       /\ e.stack[Depth(d) + 1].vals = <<name>>
  <2>1. <<>> \o <<name>> = <<name>>
    BY <1>3, ConcatEmptySeq
  <2>2. QED BY <1>2, <1>4, <1>6, <1>8, <1>10, <2>1 DEF Grown, Moved
<1>15. e.stack[Depth(d) + 2].kind = "events" /\ e.stack[Depth(d) + 2].at = "first"
  BY <1>8, <1>10 DEF Grown, Top
<1>16. QED BY <1>9, <1>10, <1>12, <1>13, <1>14, <1>15 DEF a, b, c, e

\* ] }: the scope closed last.
LEMMA CloseItem ==
  ASSUME NEW d \in Doc, d.ok, Depth(d) > 2, InArray(d), Top(d).at # "comma",
         d.stack[Depth(d) - 1].kind = "object", d.stack[Depth(d) - 1].at = "after",
         d.stack[Depth(d) - 2].kind # "tests"
  PROVE  LET e == EndObj(EndArr(d))
         IN  /\ e \in Doc /\ e.ok /\ e.done = d.done /\ e.tests = d.tests
             /\ Depth(e) = Depth(d) - 2 /\ SameBelow(d, e, Depth(d) - 2)
<1> DEFINE a == EndArr(d)
           e == EndObj(a)
<1>1. Depth(d) \in Nat
  BY DEF Depth, Doc
<1>2. Shrunk(d, a) /\ a.done = d.done /\ a.tests = d.tests
  BY EndArrLemma
<1> HIDE DEF a
<1>3. /\ a \in Doc /\ a.ok /\ Depth(a) = Depth(d) - 1 /\ Depth(a) > 1
      /\ Top(a) = d.stack[Depth(d) - 1]
  BY <1>1, <1>2 DEF Shrunk, SameBelow, Top
<1>4. InObject(a) /\ Top(a).at # "comma"
  BY <1>1, <1>3 DEF InObject
<1>5. Shrunk(a, e) /\ e.done = a.done /\ e.tests = TestsRead(a)
  BY <1>3, <1>4, EndObjLemma
<1> HIDE DEF e
<1>6. a.stack[Depth(a) - 1] = d.stack[Depth(d) - 2]
  BY <1>1, <1>2, <1>3 DEF Shrunk, SameBelow
<1>7. TestsRead(a) = a.tests
  BY <1>6 DEF TestsRead
<1>8. SameBelow(d, e, Depth(d) - 2)
  BY <1>1, <1>2, <1>3, <1>5 DEF Shrunk, SameBelow
<1>9. QED BY <1>1, <1>2, <1>3, <1>5, <1>7, <1>8 DEF Shrunk, a, e

\* ], "tests": [ in the outermost object.
LEMMA SuiteEventsClosed ==
  ASSUME NEW d \in Doc, d.ok, Depth(d) = 2, InArray(d), Top(d).at # "comma",
         d.stack[1].kind = "object", d.stack[1].at = "after"
  PROVE  LET e == Arr(Comma(EndArr(d)), "tests")
         IN  /\ e \in Doc /\ e.ok /\ e.done = d.done /\ e.tests = d.tests /\ Depth(e) = 2
             /\ e.stack[1].kind = "object" /\ e.stack[1].at = "after"
             /\ e.stack[1].vals = d.stack[1].vals
             /\ e.stack[2].kind = "tests" /\ e.stack[2].at = "first"
<1> DEFINE a == EndArr(d)
           b == Comma(a)
           e == Arr(b, "tests")
<1>1. Shrunk(d, a) /\ a.done = d.done /\ a.tests = d.tests
  BY EndArrLemma
<1> HIDE DEF a
<1>2. a \in Doc /\ a.ok /\ Depth(a) = 1 /\ Top(a) = d.stack[1]
  BY <1>1 DEF Shrunk, SameBelow, Top
<1>3. Moved(a, b, "comma") /\ Top(b).vals = Top(a).vals
  BY <1>2, CommaLemma
<1> HIDE DEF b
<1>4. InObject(b) /\ Ready(b) /\ b \in Doc /\ b.ok /\ "tests" \in Array /\ Depth(b) = 1
  BY <1>2, <1>3 DEF Moved, InObject, Ready, Array
<1>5. Grown(b, e, "tests")
  BY <1>4, ArrLemma
<1> HIDE DEF e
<1>6. Top(b).kind = "object" /\ Depth(e) = 2
  BY <1>2, <1>3, <1>4, <1>5 DEF Moved, Grown
<1>7. QED BY <1>1, <1>2, <1>3, <1>4, <1>5, <1>6 DEF Moved, Grown, Top, a, b, e

\* ], "result": ... } after the last event of a test.
LEMMA TestClosed ==
  ASSUME NEW d \in Doc, d.ok, Depth(d) = 4, InArray(d), Top(d).at # "comma",
         d.stack[3].kind = "object", d.stack[3].at = "after", d.stack[2].kind = "tests",
         NEW v \in Value
  PROVE  LET e == EndObj(Members(Comma(EndArr(d)), <<v>>))
         IN  /\ e \in Doc /\ e.ok /\ e.done = d.done /\ Depth(e) = 2 /\ SameBelow(d, e, 2)
             /\ e.tests = Append(d.tests, d.stack[3].vals \o <<v>>)
<1> DEFINE a == EndArr(d)
           b == Comma(a)
           c == Members(b, <<v>>)
           e == EndObj(c)
<1>1. Shrunk(d, a) /\ a.done = d.done /\ a.tests = d.tests
  BY EndArrLemma
<1> HIDE DEF a
<1>2. a \in Doc /\ a.ok /\ Depth(a) = 3 /\ Top(a) = d.stack[3] /\ SameBelow(d, a, 3)
  BY <1>1 DEF Shrunk, SameBelow, Top
<1>3. Moved(a, b, "comma") /\ Top(b).vals = Top(a).vals
  BY <1>2, CommaLemma
<1> HIDE DEF b
<1>4. InObject(b) /\ Ready(b) /\ b \in Doc /\ b.ok /\ <<v>> \in Seq(Value)
  BY <1>2, <1>3 DEF Moved, InObject, Ready
<1>5. Moved(b, c, "after") /\ Top(c).vals = Top(b).vals \o <<v>>
  BY <1>4, MembersLemma
<1> HIDE DEF c
<1>6. /\ InObject(c) /\ c \in Doc /\ c.ok /\ Depth(c) = 3 /\ Top(c).at # "comma"
      /\ SameBelow(d, c, 2)
  BY <1>2, <1>3, <1>5 DEF Moved, InObject, SameBelow
<1>7. Shrunk(c, e) /\ e.done = c.done /\ e.tests = TestsRead(c)
  BY <1>6, EndObjLemma
<1> HIDE DEF e
<1>8. TestsRead(c) = Append(d.tests, d.stack[3].vals \o <<v>>)
  <2>1. c.stack[Depth(c) - 1] = d.stack[2] /\ c.tests = d.tests
    BY <1>1, <1>3, <1>5, <1>6 DEF Moved, SameBelow
  <2>2. Top(c).vals = d.stack[3].vals \o <<v>>
    BY <1>2, <1>3, <1>5
  <2>3. QED BY <2>1, <2>2 DEF TestsRead
<1>9. SameBelow(d, e, 2)
  BY <1>6, <1>7 DEF Shrunk, SameBelow
<1>10. e \in Doc /\ e.ok /\ e.done = d.done /\ Depth(e) = 2
  BY <1>1, <1>3, <1>5, <1>6, <1>7 DEF Moved, Shrunk
<1>11. e.tests = Append(d.tests, d.stack[3].vals \o <<v>>)
  BY <1>7, <1>8
<1>12. QED BY <1>9, <1>10, <1>11 DEF a, b, c, e

\* ], "summary": ... } at the end of the "tests" array.
LEMMA SuiteClosed ==
  ASSUME NEW d \in Doc, d.ok, Depth(d) = 2, InArray(d), Top(d).at # "comma",
         d.stack[1].kind = "object", d.stack[1].at = "after", NEW vs \in Seq(Value)
  PROVE  LET e == EndObj(Members(Comma(EndArr(d)), vs))
         IN  /\ e \in Doc /\ e.ok /\ e.done /\ e.tests = d.tests /\ Depth(e) = 0
             /\ e.suite = d.stack[1].vals \o vs
<1> DEFINE a == EndArr(d)
           b == Comma(a)
           c == Members(b, vs)
<1>1. Shrunk(d, a) /\ a.done = d.done /\ a.tests = d.tests
  BY EndArrLemma
<1> HIDE DEF a
<1>2. a \in Doc /\ a.ok /\ Depth(a) = 1 /\ Top(a) = d.stack[1]
  BY <1>1 DEF Shrunk, SameBelow, Top
<1>3. Moved(a, b, "comma") /\ Top(b).vals = Top(a).vals
  BY <1>2, CommaLemma
<1> HIDE DEF b
<1>4. InObject(b) /\ Ready(b) /\ b \in Doc /\ b.ok
  BY <1>2, <1>3 DEF Moved, InObject, Ready
<1>5. Moved(b, c, "after") /\ Top(c).vals = Top(b).vals \o vs
  BY <1>4, MembersLemma
<1> HIDE DEF c
<1>6. InObject(c) /\ c \in Doc /\ c.ok /\ Depth(c) = 1 /\ Top(c).at # "comma"
  BY <1>2, <1>3, <1>5 DEF Moved, InObject
<1>7. Top(c).vals = d.stack[1].vals \o vs
  BY <1>2, <1>3, <1>5
<1>8. QED BY <1>1, <1>3, <1>5, <1>6, <1>7, EndDocLemma DEF Moved, a, b, c
-----------------------------------------------------------------------------
(* Type correctness. *)

\* EchoLines keeps at most kMaxOnScreenLogLines lines.
LEMMA EchoType ==
  ASSUME NEW log \in Seq(Value), NEW lines \in Seq(Value)
  PROVE  EchoLines(log, lines) \in Seq(Value) /\ Len(EchoLines(log, lines)) <= kMaxOnScreenLogLines
<1> DEFINE all == log \o lines
           cut == Len(all) - kMaxOnScreenLogLines
<1>1. all \in Seq(Value) /\ Len(all) \in Nat /\ kMaxOnScreenLogLines \in Nat \ {0}
  BY BoundAssumption
<1> HIDE DEF all
<1>2. CASE cut > 0
  <2>1. EchoLines(log, lines) = SubSeq(all, cut + 1, Len(all))
    BY <1>2 DEF EchoLines, all
  <2>2. cut + 1 \in 1 .. Len(all)
    BY <1>1, <1>2
  <2>3. SubSeq(all, cut + 1, Len(all)) \in Seq(Value)
    BY <1>1, <2>2
  <2>4. Len(SubSeq(all, cut + 1, Len(all))) = Len(all) - cut
    BY <1>1, <2>2
  <2>5. QED BY <1>1, <2>1, <2>3, <2>4
<1>3. CASE ~(cut > 0)
  <2>1. EchoLines(log, lines) = all
    BY <1>3 DEF EchoLines, all
  <2>2. QED BY <1>1, <1>3, <2>1
<1>4. QED BY <1>2, <1>3

\* The scalars and lines the log writes are values.
LEMMA ValueTypes ==
  /\ \A v \in TestNames \cup ScopeNames \cup {Pass, Fail, Text} \cup 0 .. MaxTests :
       v \in Value /\ <<v>> \in Seq(Value)
  /\ \A v \in 0 .. MaxTests, w \in 0 .. MaxTests : <<v, w>> \in Seq(Value)
  /\ \A v \in TestNames : <<Text, v>> \in Seq(Value)
  /\ \A n \in Nat : [i \in 1 .. n + 1 |-> Text] \in Seq(Value)
<1>1. TestNames \cup ScopeNames \cup {Pass, Fail, Text} \cup 0 .. MaxTests \subseteq Value
  BY ValueAssumption
<1>2. \A n \in Nat : [i \in 1 .. n + 1 |-> Text] \in Seq(Value)
  BY <1>1
<1>3. QED BY <1>1, <1>2

\* An append leaves a document.
LEMMA AppendType ==
  ASSUME TypeOK, NEW e \in Doc, AppendToFile(e)
  PROVE  doc' \in Doc /\ lost' \in Nat
<1>1. doc \in Doc /\ lost \in Nat
  BY DEF TypeOK
<1>2. QED BY <1>1 DEF AppendToFile

\* A sequence with its last entry replaced.
LEMMA LastSet ==
  ASSUME NEW S, NEW s \in Seq(S), s # <<>>, NEW e \in S
  PROVE  /\ [s EXCEPT ![Len(s)] = e] \in Seq(S) /\ Len([s EXCEPT ![Len(s)] = e]) = Len(s)
         /\ [s EXCEPT ![Len(s)] = e][Len(s)] = e
         /\ \A i \in 1 .. Len(s) - 1 : [s EXCEPT ![Len(s)] = e][i] = s[i]
<1>1. Len(s) \in 1 .. Len(s) /\ \A i \in 1 .. Len(s) - 1 : i \in 1 .. Len(s) /\ i # Len(s)
  OBVIOUS
<1> DEFINE w == [s EXCEPT ![Len(s)] = e]
<1>2. /\ w \in Seq(S) /\ Len(w) = Len(s)
      /\ \A j \in 1 .. Len(s) : w[j] = IF j = Len(s) THEN e ELSE s[j]
  BY <1>1, ExceptSeq
<1> HIDE DEF w
<1>3. w[Len(s)] = e /\ \A i \in 1 .. Len(s) - 1 : w[i] = s[i]
  BY <1>1, <1>2
<1>4. QED BY <1>2, <1>3 DEF w

\* The helpers of the log return documents and flags.
LEMMA ItemTypes ==
  ASSUME TypeOK
  PROVE  /\ BeginEventItem \in Doc /\ CloseSuiteEvents \in Doc
         /\ array_has_item # <<>> => /\ ItemWritten \in Seq(BOOLEAN)
                                    /\ Len(ItemWritten) = Len(array_has_item)
                                    /\ ItemWritten[Len(array_has_item)] = TRUE
                                    /\ \A i \in 1 .. Len(array_has_item) - 1 :
                                         ItemWritten[i] = array_has_item[i]
         /\ "events" \in Array /\ "tests" \in Array /\ <<>> \in Seq(BOOLEAN) /\ <<FALSE>> \in Seq(BOOLEAN)
<1>1. doc \in Doc /\ array_has_item \in Seq(BOOLEAN) /\ <<>> \in Seq(Value)
  BY DEF TypeOK
<1>2. "events" \in Array /\ "tests" \in Array
  BY DEF Array
<1>3. BeginEventItem \in Doc
  BY <1>1, <1>2, TokenTypes DEF BeginEventItem
<1>4. EndArr(doc) \in Doc
  BY <1>1, <1>2, TokenTypes
<1>5. Comma(EndArr(doc)) \in Doc
  BY <1>1, <1>2, <1>4, TokenTypes
<1>6. CloseSuiteEvents \in Doc
  BY <1>1, <1>2, <1>5, TokenTypes DEF CloseSuiteEvents
<1>7. array_has_item # <<>> =>
        /\ ItemWritten \in Seq(BOOLEAN) /\ Len(ItemWritten) = Len(array_has_item)
        /\ ItemWritten[Len(array_has_item)] = TRUE
        /\ \A i \in 1 .. Len(array_has_item) - 1 : ItemWritten[i] = array_has_item[i]
  <2>1. TRUE \in BOOLEAN
    OBVIOUS
  <2>2. QED BY <1>1, <2>1, LastSet, Zenon DEF ItemWritten
<1>8. QED BY <1>2, <1>3, <1>6, <1>7

\* The text of BeginTest and BeginScope leaves a document.
LEMMA OpenItemType ==
  ASSUME NEW d \in Doc, NEW name \in Value
  PROVE  Arr(Comma(Members(Obj(d), <<name>>)), "events") \in Doc
<1>1. <<name>> \in Seq(Value) /\ "events" \in Array
  BY DEF Array
<1>2. Obj(d) \in Doc
  BY <1>1, TokenTypes
<1>3. Members(Obj(d), <<name>>) \in Doc
  BY <1>1, <1>2, TokenTypes
<1>4. Comma(Members(Obj(d), <<name>>)) \in Doc
  BY <1>1, <1>3, TokenTypes
<1>5. QED BY <1>1, <1>4, TokenTypes

\* The text of EndTest and EndSuite leaves a document.
LEMMA CloseType ==
  ASSUME NEW d \in Doc, NEW vs \in Seq(Value)
  PROVE  EndObj(Members(Comma(EndArr(d)), vs)) \in Doc /\ EndObj(EndArr(d)) \in Doc
<1>1. "events" \in Array
  BY DEF Array
<1>2. EndArr(d) \in Doc
  BY <1>1, TokenTypes
<1>3. Comma(EndArr(d)) \in Doc
  BY <1>1, <1>2, TokenTypes
<1>4. Members(Comma(EndArr(d)), vs) \in Doc
  BY <1>1, <1>3, TokenTypes
<1>5. QED BY <1>1, <1>2, <1>4, TokenTypes

\* g_state at load time, and the file before any run, have their types.
LEMMA TypeInit == Init => TypeOK
<1>1. EmptyDoc \in Doc
  BY DEF EmptyDoc, Doc
<1>2. Returned \in [op : {"none", "EndTest", "EndSuite"}, result : {Pass, Fail},
                    passed : 0 .. MaxTests, failed : 0 .. MaxTests]
  BY BoundAssumption DEF Returned
<1>3. <<>> \in Seq(Value) /\ Len(<<>>) = 0 /\ <<>> \in Seq(BOOLEAN)
  OBVIOUS
<1> SUFFICES ASSUME Init PROVE TypeOK
  OBVIOUS
<1>5. on_screen_log \in Seq(Value) /\ Len(on_screen_log) <= kMaxOnScreenLogLines
  BY <1>3, BoundAssumption DEF Init
<1>6. array_has_item \in Seq(BOOLEAN) /\ phase \in Phase
  BY <1>3 DEF Init, Phase
<1>7. initialized \in BOOLEAN /\ has_tests \in BOOLEAN /\ lost \in Nat
  BY DEF Init
<1>8. doc \in Doc
  BY <1>1 DEF Init
<1>9. QED BY <1>2, <1>5, <1>6, <1>7, <1>8 DEF Init, TypeOK

\* Every step keeps the types.
LEMMA TypeStep == TypeOK /\ [Next]_vars => TypeOK'
<1> SUFFICES ASSUME TypeOK, [Next]_vars
             PROVE  TypeOK'
  OBVIOUS
<1> USE BoundAssumption
<1>0. /\ initialized \in BOOLEAN /\ phase \in Phase /\ has_tests \in BOOLEAN
      /\ array_has_item \in Seq(BOOLEAN) /\ doc \in Doc /\ lost \in Nat
      /\ on_screen_log \in Seq(Value) /\ Len(on_screen_log) <= kMaxOnScreenLogLines
      /\ call \in [op : {"none", "EndTest", "EndSuite"}, result : {Pass, Fail},
                   passed : 0 .. MaxTests, failed : 0 .. MaxTests]
  BY DEF TypeOK
<1>a. Returned \in [op : {"none", "EndTest", "EndSuite"}, result : {Pass, Fail},
                    passed : 0 .. MaxTests, failed : 0 .. MaxTests]
  BY DEF Returned
<1>1. ASSUME NEW opened \in BOOLEAN, Initialize(opened)
      PROVE  TypeOK'
  <2>1. EmptyDoc \in Doc
    BY DEF EmptyDoc, Doc
  <2>2. QED BY <1>0, <1>1, <2>1 DEF Initialize, TypeOK
<1>2. ASSUME BeginSuite PROVE TypeOK'
  <2>1. Arr(Comma(Members(Obj(doc), <<Text>>)), "events") \in Doc
    BY <1>0, OpenItemType, ValueTypes
  <2>2. doc' \in Doc /\ lost' \in Nat
    BY <1>2, <2>1, AppendType DEF BeginSuite
  <2>3. QED BY <1>0, <1>2, <2>2, ItemTypes DEF BeginSuite, FreshArray, TypeOK, Phase
<1>3. ASSUME NEW name \in TestNames, BeginTest(name)
      PROVE  TypeOK'
  <2>1. on_screen_log' \in Seq(Value) /\ Len(on_screen_log)' <= kMaxOnScreenLogLines
    <3>1. <<Text, name>> \in Seq(Value)
      BY ValueTypes
    <3>2. QED BY <1>0, <1>3, <3>1, EchoType DEF BeginTest, Echo
  <2>2. CASE initialized /\ phase \in {"kSuiteEvents", "kTests"}
    <3> DEFINE sep == IF has_tests THEN Comma(CloseSuiteEvents) ELSE CloseSuiteEvents
               e == Arr(Comma(Members(Obj(sep), <<name>>)), "events")
    <3>1. sep \in Doc
      <4>1. <<Text>> \in Seq(Value)
        BY ValueTypes
      <4>2. Comma(CloseSuiteEvents) \in Doc
        BY <4>1, ItemTypes, TokenTypes
      <4>3. QED BY <4>2, ItemTypes
    <3>2. e \in Doc
      BY <3>1, OpenItemType, ValueTypes
    <3>3. AppendToFile(e) /\ has_tests' = TRUE /\ phase' = "kInTest" /\ array_has_item' = <<FALSE>>
      BY <1>3, <2>2 DEF BeginTest, FreshArray
    <3> HIDE DEF e
    <3>4. doc' \in Doc /\ lost' \in Nat
      BY <3>2, <3>3, AppendType
    <3>5. QED BY <1>0, <1>3, <2>1, <3>3, <3>4, ItemTypes DEF BeginTest, TypeOK, Phase
  <2>3. CASE ~(initialized /\ phase \in {"kSuiteEvents", "kTests"})
    BY <1>0, <1>3, <2>1, <2>3 DEF BeginTest, TypeOK
  <2>4. QED BY <2>2, <2>3
<1>4. ASSUME NEW lines \in Seq(Value), Echo(lines),
             IF CanRecordEvent
             THEN AppendToFile(Item(BeginEventItem)) /\ array_has_item' = ItemWritten
             ELSE UNCHANGED <<array_has_item, doc, lost>>,
             UNCHANGED <<initialized, phase, has_tests, call>>
      PROVE  TypeOK'
  <2>1. on_screen_log' \in Seq(Value) /\ Len(on_screen_log)' <= kMaxOnScreenLogLines
    BY <1>0, <1>4, EchoType DEF Echo
  <2>2. CASE CanRecordEvent
    <3>1. Item(BeginEventItem) \in Doc
      BY ItemTypes, ValueTypes, TokenTypes
    <3>2. doc' \in Doc /\ lost' \in Nat
      BY <1>4, <2>2, <3>1, AppendType
    <3>3. array_has_item' \in Seq(BOOLEAN)
      BY <1>4, <2>2, ItemTypes DEF CanRecordEvent
    <3>4. QED BY <1>0, <1>4, <2>1, <3>2, <3>3 DEF TypeOK
  <2>3. CASE ~CanRecordEvent
    BY <1>0, <1>4, <2>1, <2>3 DEF TypeOK
  <2>4. QED BY <2>2, <2>3
<1>5. ASSUME Event PROVE TypeOK'
  BY <1>4, <1>5, ValueTypes DEF Event
<1>6. ASSUME NEW rows \in 0 .. MaxDumpRows, HexDump(rows)
      PROVE  TypeOK'
  <2>1. [i \in 1 .. rows + 1 |-> Text] \in Seq(Value)
    BY ValueTypes
  <2>2. QED BY <1>4, <1>6, <2>1 DEF HexDump
<1>7. ASSUME NEW name \in ScopeNames, BeginScope(name)
      PROVE  TypeOK'
  <2>1. on_screen_log' \in Seq(Value) /\ Len(on_screen_log)' <= kMaxOnScreenLogLines
    BY <1>0, <1>7, EchoType, ValueTypes DEF BeginScope, Echo
  <2>2. CASE CanRecordEvent
    <3> DEFINE e == Arr(Comma(Members(Obj(BeginEventItem), <<name>>)), "events")
    <3>1. e \in Doc
      BY ItemTypes, OpenItemType, ValueTypes
    <3>2. AppendToFile(e) /\ array_has_item' = Append(ItemWritten, FALSE)
      BY <1>7, <2>2 DEF BeginScope
    <3> HIDE DEF e
    <3>3. doc' \in Doc /\ lost' \in Nat
      BY <3>1, <3>2, AppendType
    <3>4. array_has_item' \in Seq(BOOLEAN)
      BY <2>2, <3>2, ItemTypes DEF CanRecordEvent
    <3>5. QED BY <1>0, <1>7, <2>1, <3>3, <3>4 DEF BeginScope, TypeOK
  <2>3. CASE ~CanRecordEvent
    BY <1>0, <1>7, <2>1, <2>3 DEF BeginScope, TypeOK
  <2>4. QED BY <2>2, <2>3
<1>8. ASSUME CloseScope, call' = call PROVE TypeOK'
  <2>1. EndObj(EndArr(doc)) \in Doc
    BY <1>0, CloseType, ValueTypes
  <2>2. doc' \in Doc /\ lost' \in Nat
    BY <1>8, <2>1, AppendType DEF CloseScope
  <2>3. array_has_item' \in Seq(BOOLEAN)
    BY <1>0, <1>8 DEF CloseScope
  <2>4. QED BY <1>0, <1>8, <2>2, <2>3 DEF CloseScope, TypeOK
<1>9. ASSUME NEW result \in {Pass, Fail}, EndTest(result)
      PROVE  TypeOK'
  <2>1. call' \in [op : {"none", "EndTest", "EndSuite"}, result : {Pass, Fail},
                   passed : 0 .. MaxTests, failed : 0 .. MaxTests]
    BY <1>0, <1>9 DEF EndTest
  <2>2. QED BY <1>0, <1>9, <2>1 DEF EndTest, TypeOK, g_state
<1>10. ASSUME NEW passed \in 0 .. MaxTests, NEW failed \in 0 .. MaxTests, EndSuite(passed, failed)
       PROVE  TypeOK'
  BY <1>0, <1>10 DEF EndSuite, TypeOK, g_state
<1>11. ASSUME EndTestRecord PROVE TypeOK'
  <2>1. EndObj(Members(Comma(EndArr(doc)), <<call.result>>)) \in Doc
    <3>1. <<call.result>> \in Seq(Value)
      BY <1>0, ValueTypes
    <3>2. QED BY <1>0, <3>1, CloseType
  <2>2. doc' \in Doc /\ lost' \in Nat
    BY <1>11, <2>1, AppendType DEF EndTestRecord
  <2>3. call' \in [op : {"none", "EndTest", "EndSuite"}, result : {Pass, Fail},
                   passed : 0 .. MaxTests, failed : 0 .. MaxTests]
    BY <1>0, <1>a, <1>11 DEF EndTestRecord
  <2>4. QED BY <1>0, <1>11, <2>2, <2>3, ItemTypes DEF EndTestRecord, TypeOK, Phase
<1>12. ASSUME EndSuiteRecord PROVE TypeOK'
  <2> DEFINE closed == IF phase = "kSuiteEvents" THEN EndArr(CloseSuiteEvents) ELSE EndArr(doc)
             e == EndObj(Members(Comma(closed), <<call.passed, call.failed>>))
  <2>1. <<call.passed, call.failed>> \in Seq(Value)
    BY <1>0, ValueTypes
  <2>2. EndObj(Members(Comma(EndArr(doc)), <<call.passed, call.failed>>)) \in Doc
    BY <1>0, <2>1, CloseType
  <2>3. EndObj(Members(Comma(EndArr(CloseSuiteEvents)), <<call.passed, call.failed>>)) \in Doc
    BY <2>1, ItemTypes, CloseType
  <2>4. e \in Doc
    BY <2>2, <2>3
  <2>5. AppendToFile(e)
    BY <1>12 DEF EndSuiteRecord
  <2> HIDE DEF e
  <2>6. doc' \in Doc /\ lost' \in Nat
    BY <2>4, <2>5, AppendType
  <2>7. QED BY <1>0, <1>a, <1>12, <2>6, ItemTypes DEF EndSuiteRecord, TypeOK, Phase
<1>13. ASSUME NEW line \in {Pass, Fail, Text}, PrintLine(line) PROVE TypeOK'
  BY <1>0, <1>13, EchoType, ValueTypes DEF PrintLine, Echo, TypeOK
<1>14. ASSUME ClearOnScreenLog PROVE TypeOK'
  <2>1. <<>> \in Seq(Value) /\ Len(<<>>) = 0
    OBVIOUS
  <2>2. QED BY <1>0, <1>14, <2>1 DEF ClearOnScreenLog, TypeOK
<1>15. ASSUME Restart PROVE TypeOK'
  <2>1. <<>> \in Seq(Value) /\ Len(<<>>) = 0
    OBVIOUS
  <2>2. on_screen_log' \in Seq(Value) /\ Len(on_screen_log)' <= kMaxOnScreenLogLines
    BY <1>15, <2>1 DEF Restart
  <2>3. array_has_item' \in Seq(BOOLEAN) /\ phase' \in Phase
    BY <1>15, ItemTypes DEF Restart, Phase
  <2>4. initialized' \in BOOLEAN /\ has_tests' \in BOOLEAN
    BY <1>15 DEF Restart
  <2>5. QED BY <1>0, <1>a, <1>15, <2>2, <2>3, <2>4 DEF Restart, TypeOK
<1>16. ASSUME UNCHANGED vars PROVE TypeOK'
  BY <1>0, <1>16 DEF vars, g_state, TypeOK
<1>17. ASSUME EndScope PROVE TypeOK'
  <2>1. CASE CloseScope
    BY <1>8, <1>17, <2>1 DEF EndScope
  <2>2. CASE ~CloseScope
    BY <1>16, <1>17, <2>2 DEF EndScope, vars
  <2>3. QED BY <2>1, <2>2
<1>18. QED
  BY <1>1, <1>2, <1>3, <1>5, <1>6, <1>7, <1>8, <1>9, <1>10, <1>11, <1>12, <1>13, <1>14, <1>15,
     <1>16, <1>17 DEF Next, Call, EndTestScope

(***************************************************************************)
(* TypeOK holds of every behaviour of the log: in particular the on-screen *)
(* log never holds more than kMaxOnScreenLogLines lines, and the file can  *)
(* always be read (in place or not).                                       *)
(***************************************************************************)
THEOREM TypeCorrect == Spec => []TypeOK
BY TypeInit, TypeStep, PTL DEF Spec
-----------------------------------------------------------------------------
(* The file follows the bookkeeping: the inductive invariant. *)

\* EndTest and EndSuite were called where they may be, and nothing has moved since.
CallOK ==
    /\ call.op = "EndTest" => phase = "kInTest"
    /\ call.op = "EndSuite" =>
         phase # "kDone" /\ SuiteScopesClosed /\ (phase = "kNoSuite" => ~initialized)

\* The object of the running test has exactly one scalar so far, its name.
OneName ==
    Faithful /\ phase = "kInTest" => doc.stack[3].vals = <<doc.stack[3].vals[1]>>

\* The object of the suite has exactly one scalar until it is closed, its title.
SuiteName ==
    Faithful /\ phase \in {"kSuiteEvents", "kInTest", "kTests"} => doc.stack[1].vals = <<Text>>

FileInv == WellFormed /\ CompleteWhenDone /\ Nesting /\ OneName /\ SuiteName

\* Nothing is open before BeginSuite, whether or not the log was opened.
Idle == phase = "kNoSuite" => array_has_item = <<>>

IInv == TypeOK /\ CallOK /\ Idle /\ FileInv

Base == IF phase = "kInTest" THEN 2 ELSE 0

\* What FileInv says while events can be recorded.
Recording ==
    /\ doc \in Doc /\ doc.ok /\ ~doc.done
    /\ array_has_item \in Seq(BOOLEAN) /\ Len(array_has_item) >= 1
    /\ ScopesAbove(Base) /\ doc.stack[1].vals = <<Text>>
    /\ phase = "kSuiteEvents" => ~has_tests
    /\ phase = "kInTest" =>
         /\ has_tests /\ OpenAt(1, "object", "after") /\ OpenAt(2, "tests", "after")
         /\ doc.stack[3].vals = <<doc.stack[3].vals[1]>>

\* FileInv gives Recording while events can be recorded.
LEMMA RecordingOpen ==
  ASSUME IInv, Faithful, phase \in {"kSuiteEvents", "kInTest"}
  PROVE  Recording
<1>1. doc \in Doc /\ array_has_item \in Seq(BOOLEAN)
  BY DEF IInv, TypeOK
<1>2. doc.ok /\ ~doc.done /\ doc.stack[1].vals = <<Text>>
  BY DEF IInv, FileInv, WellFormed, CompleteWhenDone, SuiteName
<1>3. CASE phase = "kSuiteEvents"
  <2>1. ~has_tests /\ Len(array_has_item) >= 1 /\ ScopesAbove(0)
    BY <1>3 DEF IInv, FileInv, Nesting
  <2>2. QED BY <1>1, <1>2, <1>3, <2>1 DEF Recording, Base
<1>4. CASE phase = "kInTest"
  <2>1. /\ has_tests /\ Len(array_has_item) >= 1 /\ ScopesAbove(2)
        /\ OpenAt(1, "object", "after") /\ OpenAt(2, "tests", "after")
    BY <1>4 DEF IInv, FileInv, Nesting
  <2>2. doc.stack[3].vals = <<doc.stack[3].vals[1]>>
    BY <1>4 DEF IInv, FileInv, OneName
  <2>3. QED BY <1>1, <1>2, <1>4, <2>1, <2>2 DEF Recording, Base
<1>5. QED BY <1>3, <1>4

\* Recording is all that FileInv asks while events can be recorded.
LEMMA RecordingClosed == phase \in {"kSuiteEvents", "kInTest"} /\ Recording => FileInv
<1> SUFFICES ASSUME phase \in {"kSuiteEvents", "kInTest"}, Recording
             PROVE  FileInv
  OBVIOUS
<1>1. WellFormed /\ CompleteWhenDone
  BY DEF Recording, WellFormed, CompleteWhenDone
<1>2. OneName /\ SuiteName
  BY DEF Recording, OneName, SuiteName
<1>3. CASE phase = "kSuiteEvents"
  <2>1. ~has_tests /\ Len(array_has_item) >= 1 /\ ScopesAbove(0)
    BY <1>3 DEF Recording, Base
  <2>2. QED BY <1>1, <1>2, <1>3, <2>1 DEF FileInv, Nesting
<1>4. CASE phase = "kInTest"
  <2>1. /\ has_tests /\ Len(array_has_item) >= 1 /\ ScopesAbove(2)
        /\ OpenAt(1, "object", "after") /\ OpenAt(2, "tests", "after")
    BY <1>4 DEF Recording, Base
  <2>2. QED BY <1>1, <1>2, <1>4, <2>1 DEF FileInv, Nesting
<1>5. QED BY <1>3, <1>4

\* The innermost container is the events array of the innermost scope.
LEMMA Innermost ==
  ASSUME Recording
  PROVE  /\ Depth(doc) = Base + 2 * Len(array_has_item) /\ Base \in {0, 2}
         /\ Depth(doc) \in Nat /\ Depth(doc) >= 2
         /\ Len(array_has_item) \in Nat /\ array_has_item # <<>>
         /\ Top(doc).kind = "events" /\ InArray(doc) /\ Top(doc).at # "comma"
         /\ Top(doc).at = IF HasItem THEN "after" ELSE "first"
         /\ doc.stack[Depth(doc) - 1].kind = "object" /\ doc.stack[Depth(doc) - 1].at = "after"
<1> DEFINE n == Len(array_has_item)
<1>1. n \in Nat /\ n \in 1 .. n /\ Base \in {0, 2} /\ array_has_item # <<>>
  BY DEF Recording, Base
<1>2. Depth(doc) = Base + 2 * n
  BY DEF Recording, ScopesAbove
<1>3. OpenAt(Base + 2 * n - 1, "object", "after")
  BY <1>1 DEF Recording, ScopesAbove
<1>4. OpenAt(Base + 2 * n, "events", IF array_has_item[n] THEN "after" ELSE "first")
  BY <1>1 DEF Recording, ScopesAbove
<1>5. QED BY <1>1, <1>2, <1>3, <1>4 DEF OpenAt, Top, InArray, Array, HasItem

\* The entries of a sequence with one more.
LEMMA AppendedLast ==
  ASSUME NEW S, NEW s \in Seq(S), NEW x \in S
  PROVE  /\ Append(s, x) \in Seq(S) /\ Len(Append(s, x)) = Len(s) + 1
         /\ Append(s, x)[Len(s) + 1] = x
         /\ \A i \in 1 .. Len(s) : Append(s, x)[i] = s[i]
BY AppendProperties

\* array_has_item after BeginScope, for any sequence of flags.
LEMMA FlagAppended ==
  ASSUME NEW w \in Seq(BOOLEAN)
  PROVE  /\ Append(w, FALSE) \in Seq(BOOLEAN) /\ Len(Append(w, FALSE)) = Len(w) + 1
         /\ Append(w, FALSE)[Len(w) + 1] = FALSE
         /\ \A i \in 1 .. Len(w) : Append(w, FALSE)[i] = w[i]
<1>1. PICK S : S = BOOLEAN
  OBVIOUS
<1>2. PICK b : b = FALSE
  OBVIOUS
<1>3. w \in Seq(S) /\ b \in S
  BY <1>1, <1>2
<1>4. /\ Append(w, b) \in Seq(S) /\ Len(Append(w, b)) = Len(w) + 1
      /\ Append(w, b)[Len(w) + 1] = b
      /\ \A i \in 1 .. Len(w) : Append(w, b)[i] = w[i]
  BY <1>3, AppendedLast
<1>5. QED BY <1>1, <1>2, <1>4, Zenon

\* After BeginEventItem the innermost array is ready for an item.
LEMMA Separated ==
  ASSUME Recording
  PROVE  LET e == BeginEventItem
         IN  /\ e \in Doc /\ e.ok /\ e.done = doc.done /\ e.tests = doc.tests
             /\ Depth(e) = Depth(doc) /\ SameBelow(doc, e, Depth(doc) - 1)
             /\ InArray(e) /\ Ready(e) /\ Top(e).kind = "events"
<1>1. doc \in Doc /\ doc.ok
  BY DEF Recording
<1>2. CASE HasItem
  <2>1. Top(doc).at = "after" /\ Depth(doc) > 0
    BY <1>2, Innermost
  <2>2. Moved(doc, Comma(doc), "comma")
    BY <1>1, <2>1, CommaLemma
  <2>3. BeginEventItem = Comma(doc)
    BY <1>2 DEF BeginEventItem
  <2>4. QED BY <2>1, <2>2, <2>3, Innermost DEF Moved, InArray, Ready, Array
<1>3. CASE ~HasItem
  <2>1. BeginEventItem = doc /\ Top(doc).at = "first"
    BY <1>3, Innermost DEF BeginEventItem
  <2>2. SameBelow(doc, doc, Depth(doc) - 1)
    BY DEF SameBelow
  <2>3. QED BY <1>1, <2>1, <2>2, Innermost DEF Ready
<1>4. QED BY <1>2, <1>3

\* An append made by a step that keeps the log initialized either reached the
\* file or leaves nothing to show.
LEMMA Appended ==
  ASSUME TypeOK, NEW e, AppendToFile(e), initialized' = initialized, Faithful'
  PROVE  Faithful /\ doc' = e
<1>1. lost \in Nat /\ initialized /\ lost' = 0
  BY DEF TypeOK, Faithful
<1>2. QED BY <1>1 DEF AppendToFile, Faithful

\* No test is recorded, and none is lost, by this step.
TestsKept == Faithful /\ lost' = 0 => doc'.tests = doc.tests

\* The test that is open, if one stays open, keeps its name.
NameKept ==
    Faithful /\ Faithful' /\ phase = "kInTest" /\ phase' = "kInTest" =>
      doc'.stack[3].vals = doc.stack[3].vals

\* One more item in the innermost array.
LEMMA ItemStep ==
  ASSUME IInv, CanRecordEvent, AppendToFile(Item(BeginEventItem)), array_has_item' = ItemWritten,
         UNCHANGED <<initialized, phase, has_tests>>
  PROVE  FileInv' /\ TestsKept /\ NameKept
<1>1. CASE ~Faithful'
  BY <1>1 DEF FileInv, WellFormed, CompleteWhenDone, Nesting, OneName, SuiteName, TestsKept, NameKept, Faithful
<1>2. CASE Faithful'
  <2> DEFINE s == BeginEventItem
             e == Item(s)
             n == Len(array_has_item)
  <2>1. Faithful /\ doc' = e /\ phase \in {"kSuiteEvents", "kInTest"}
    BY <1>2, Appended DEF IInv, CanRecordEvent
  <2>2. Recording
    BY <2>1, RecordingOpen
  <2>3. /\ s \in Doc /\ s.ok /\ s.done = doc.done /\ s.tests = doc.tests
        /\ Depth(s) = Depth(doc) /\ SameBelow(doc, s, Depth(doc) - 1)
        /\ InArray(s) /\ Ready(s) /\ Top(s).kind = "events"
    BY <2>2, Separated
  <2> HIDE DEF s
  <2>4. Moved(s, e, "after")
    BY <2>3, ItemLemma
  <2> HIDE DEF e
  <2>5. e \in Doc /\ e.ok /\ e.done = doc.done /\ e.tests = doc.tests /\ Depth(e) = Depth(doc)
    BY <2>3, <2>4 DEF Moved
  <2>6. SameBelow(doc, e, Depth(doc) - 1) /\ e.stack[Depth(doc)].kind = "events"
        /\ e.stack[Depth(doc)].at = "after"
    BY <2>3, <2>4 DEF Moved, SameBelow, Top
  <2>7. /\ Depth(doc) = Base + 2 * n /\ Base \in {0, 2} /\ n \in Nat /\ n >= 1
        /\ array_has_item # <<>> /\ array_has_item \in Seq(BOOLEAN)
    BY <2>2, Innermost DEF Recording
  <2>8. /\ array_has_item' \in Seq(BOOLEAN) /\ Len(array_has_item') = n
        /\ array_has_item'[n] /\ \A i \in 1 .. n - 1 : array_has_item'[i] = array_has_item[i]
    BY <2>7, ItemTypes DEF IInv
  <2>9. Base' = Base
    BY DEF Base
  <2>10. ScopesAbove(Base)'
    <3>1. Depth(doc)' = Base' + 2 * Len(array_has_item')
      BY <2>1, <2>5, <2>7, <2>8, <2>9
    <3>2. ASSUME NEW j \in 1 .. n
          PROVE  /\ e.stack[Base + 2 * j - 1].kind = "object" /\ e.stack[Base + 2 * j - 1].at = "after"
                 /\ e.stack[Base + 2 * j].kind = "events"
                 /\ e.stack[Base + 2 * j].at = IF array_has_item'[j] THEN "after" ELSE "first"
      <4>1. /\ doc.stack[Base + 2 * j - 1].kind = "object" /\ doc.stack[Base + 2 * j - 1].at = "after"
            /\ doc.stack[Base + 2 * j].kind = "events"
            /\ doc.stack[Base + 2 * j].at = IF array_has_item[j] THEN "after" ELSE "first"
        BY <2>2 DEF Recording, ScopesAbove, OpenAt
      <4>2. e.stack[Base + 2 * j - 1] = doc.stack[Base + 2 * j - 1]
        BY <2>6, <2>7 DEF SameBelow
      <4>3. CASE j = n
        BY <2>6, <2>7, <2>8, <4>1, <4>2, <4>3
      <4>4. CASE j # n
        <5>1. e.stack[Base + 2 * j] = doc.stack[Base + 2 * j] /\ array_has_item'[j] = array_has_item[j]
          BY <2>6, <2>7, <2>8, <4>4 DEF SameBelow
        <5>2. QED BY <4>1, <4>2, <5>1
      <4>5. QED BY <4>3, <4>4
    <3>3. QED BY <2>1, <2>8, <2>9, <3>1, <3>2 DEF ScopesAbove, OpenAt
  <2>11. /\ (phase = "kInTest" =>
             /\ has_tests /\ OpenAt(1, "object", "after") /\ OpenAt(2, "tests", "after")
             /\ doc.stack[3].vals = <<doc.stack[3].vals[1]>>)'
         /\ (phase' = "kInTest" => doc'.stack[3].vals = doc.stack[3].vals)
    <3>1. phase = "kInTest" => /\ e.stack[1] = doc.stack[1] /\ e.stack[2] = doc.stack[2]
                               /\ e.stack[3] = doc.stack[3]
      BY <2>6, <2>7 DEF SameBelow, Base
    <3>2. QED BY <2>1, <2>2, <3>1 DEF Recording, OpenAt
  <2>a. doc'.stack[1].vals = <<Text>>
    BY <2>1, <2>2, <2>6, <2>7 DEF SameBelow, Recording
  <2>12. Recording'
    BY <2>1, <2>2, <2>5, <2>7, <2>8, <2>10, <2>11, <2>a DEF Recording
  <2>13. (phase \in {"kSuiteEvents", "kInTest"} /\ Recording => FileInv)'
    BY RecordingClosed, PTL
  <2>14. QED BY <2>1, <2>5, <2>11, <2>12, <2>13 DEF TestsKept, NameKept
<1>3. QED BY <1>1, <1>2

\* One more scope in the innermost array.
LEMMA ScopeStep ==
  ASSUME IInv, NEW name \in ScopeNames, BeginScope(name), CanRecordEvent
  PROVE  FileInv' /\ TestsKept /\ NameKept
<1>1. CASE ~Faithful'
  BY <1>1 DEF FileInv, WellFormed, CompleteWhenDone, Nesting, OneName, SuiteName, TestsKept, NameKept, Faithful, BeginScope
<1>2. CASE Faithful'
  <2> DEFINE s == BeginEventItem
             e == Arr(Comma(Members(Obj(s), <<name>>)), "events")
             n == Len(array_has_item)
  <2>1. Faithful /\ doc' = e /\ phase \in {"kSuiteEvents", "kInTest"}
    BY <1>2, Appended DEF IInv, CanRecordEvent, BeginScope
  <2>2. Recording
    BY <2>1, RecordingOpen
  <2>3. /\ s \in Doc /\ s.ok /\ s.done = doc.done /\ s.tests = doc.tests
        /\ Depth(s) = Depth(doc) /\ SameBelow(doc, s, Depth(doc) - 1)
        /\ InArray(s) /\ Ready(s) /\ Top(s).kind = "events"
    BY <2>2, Separated
  <2>4. name \in Value
    BY ValueTypes
  <2> HIDE DEF s
  <2>5. /\ e \in Doc /\ e.ok /\ e.done = s.done /\ e.tests = s.tests
        /\ Depth(e) = Depth(s) + 2 /\ SameBelow(s, e, Depth(s) - 1)
        /\ e.stack[Depth(s)].kind = Top(s).kind /\ e.stack[Depth(s)].at = "after"
        /\ e.stack[Depth(s) + 1].kind = "object" /\ e.stack[Depth(s) + 1].at = "after"
        /\ e.stack[Depth(s) + 2].kind = "events" /\ e.stack[Depth(s) + 2].at = "first"
    BY <2>3, <2>4, OpenItem
  <2> HIDE DEF e
  <2>6. SameBelow(doc, e, Depth(doc) - 1)
    BY <2>3, <2>5 DEF SameBelow
  <2>7. /\ Depth(doc) = Base + 2 * n /\ Base \in {0, 2} /\ n \in Nat /\ n >= 1
        /\ array_has_item # <<>> /\ array_has_item \in Seq(BOOLEAN)
    BY <2>2, Innermost DEF Recording
  <2>8. /\ array_has_item' \in Seq(BOOLEAN) /\ Len(array_has_item') = n + 1
        /\ array_has_item'[n] /\ ~array_has_item'[n + 1]
        /\ \A i \in 1 .. n - 1 : array_has_item'[i] = array_has_item[i]
    <3>1. /\ ItemWritten \in Seq(BOOLEAN) /\ Len(ItemWritten) = n /\ ItemWritten[n] = TRUE
          /\ \A i \in 1 .. n - 1 : ItemWritten[i] = array_has_item[i]
      BY <2>7, ItemTypes DEF IInv
    <3>2. array_has_item' = Append(ItemWritten, FALSE)
      BY DEF BeginScope
    <3>3. array_has_item' \in Seq(BOOLEAN) /\ Len(array_has_item') = n + 1
      BY <3>1, <3>2
    <3>4. array_has_item'[n + 1] = FALSE /\ \A i \in 1 .. n : array_has_item'[i] = ItemWritten[i]
      <4> DEFINE w == ItemWritten
      <4>2. w \in Seq(BOOLEAN) /\ Len(w) = n
        BY <3>1
      <4> HIDE DEF w
      <4>3. /\ Append(w, FALSE)[Len(w) + 1] = FALSE
            /\ \A i \in 1 .. Len(w) : Append(w, FALSE)[i] = w[i]
        BY <4>2, FlagAppended, Zenon
      <4>4. array_has_item' = Append(w, FALSE)
        BY <3>2 DEF w
      <4>5. QED BY <4>2, <4>3, <4>4, Zenon DEF w
    <3>5. \A i \in 1 .. n - 1 : i \in 1 .. n
      BY <2>7
    <3>6. n \in 1 .. n
      BY <2>7
    <3>7. QED BY <3>1, <3>3, <3>4, <3>5, <3>6, Zenon
  <2>9. Base' = Base
    BY DEF Base, BeginScope
  <2>10. ScopesAbove(Base)'
    <3>1. Depth(doc)' = Base' + 2 * Len(array_has_item')
      BY <2>1, <2>3, <2>5, <2>7, <2>8, <2>9
    <3>2. ASSUME NEW j \in 1 .. n + 1
          PROVE  /\ e.stack[Base + 2 * j - 1].kind = "object" /\ e.stack[Base + 2 * j - 1].at = "after"
                 /\ e.stack[Base + 2 * j].kind = "events"
                 /\ e.stack[Base + 2 * j].at = IF array_has_item'[j] THEN "after" ELSE "first"
      <4>1. CASE j = n + 1
        <5>1. Depth(s) + 1 = Base + 2 * j - 1 /\ Depth(s) + 2 = Base + 2 * j
          BY <2>3, <2>7, <4>1
        <5>2. QED BY <2>5, <2>8, <4>1, <5>1
      <4>2. CASE j # n + 1
        <5>1. j \in 1 .. n
          BY <2>7, <4>2
        <5>2. /\ doc.stack[Base + 2 * j - 1].kind = "object" /\ doc.stack[Base + 2 * j - 1].at = "after"
              /\ doc.stack[Base + 2 * j].kind = "events"
              /\ doc.stack[Base + 2 * j].at = IF array_has_item[j] THEN "after" ELSE "first"
          BY <2>2, <5>1 DEF Recording, ScopesAbove, OpenAt
        <5>3. e.stack[Base + 2 * j - 1] = doc.stack[Base + 2 * j - 1]
          BY <2>6, <2>7, <5>1 DEF SameBelow
        <5>4. CASE j = n
          <6>1. Base + 2 * j = Depth(s)
            BY <2>3, <2>7, <5>4
          <6>2. QED BY <2>3, <2>5, <2>8, <5>2, <5>3, <5>4, <6>1
        <5>5. CASE j # n
          <6>1. Base + 2 * j \in 1 .. Depth(doc) - 1
            BY <2>7, <5>1, <5>5
          <6>2. e.stack[Base + 2 * j] = doc.stack[Base + 2 * j]
            BY <2>6, <6>1 DEF SameBelow
          <6>3. j \in 1 .. n - 1
            BY <2>7, <5>1, <5>5
          <6>4. array_has_item'[j] = array_has_item[j]
            BY <2>8, <6>3, Zenon
          <6>5. QED BY <5>2, <5>3, <6>2, <6>4
        <5>6. QED BY <5>4, <5>5
      <4>3. QED BY <4>1, <4>2
    <3>3. QED BY <2>1, <2>8, <2>9, <3>1, <3>2 DEF ScopesAbove, OpenAt
  <2>11. /\ (phase = "kInTest" =>
             /\ has_tests /\ OpenAt(1, "object", "after") /\ OpenAt(2, "tests", "after")
             /\ doc.stack[3].vals = <<doc.stack[3].vals[1]>>)'
         /\ (phase' = "kInTest" => doc'.stack[3].vals = doc.stack[3].vals)
    <3>1. phase = "kInTest" => /\ e.stack[1] = doc.stack[1] /\ e.stack[2] = doc.stack[2]
                               /\ e.stack[3] = doc.stack[3]
      BY <2>6, <2>7 DEF SameBelow, Base
    <3>2. QED BY <2>1, <2>2, <3>1 DEF Recording, OpenAt, BeginScope
  <2>a. doc'.stack[1].vals = <<Text>>
    BY <2>1, <2>2, <2>6, <2>7 DEF SameBelow, Recording
  <2>12. Recording'
    BY <2>1, <2>2, <2>3, <2>5, <2>7, <2>8, <2>10, <2>11, <2>a DEF Recording, BeginScope
  <2>13. (phase \in {"kSuiteEvents", "kInTest"} /\ Recording => FileInv)'
    BY RecordingClosed, PTL
  <2>14. QED BY <2>1, <2>3, <2>5, <2>11, <2>12, <2>13 DEF BeginScope, TestsKept, NameKept
<1>3. QED BY <1>1, <1>2

\* The innermost scope closed: by its ScopeGuard or by EndTest.
LEMMA CloseStep ==
  ASSUME IInv, CloseScope
  PROVE  FileInv' /\ TestsKept /\ NameKept
<1>1. CASE ~Faithful'
  BY <1>1 DEF FileInv, WellFormed, CompleteWhenDone, Nesting, OneName, SuiteName, TestsKept, NameKept, Faithful, CloseScope
<1>2. CASE Faithful'
  <2> DEFINE e == EndObj(EndArr(doc))
             n == Len(array_has_item)
  <2>1. Faithful /\ doc' = e
    BY <1>2, Appended DEF IInv, CloseScope
  <2>2. n >= 2 /\ n \in Nat /\ phase \in {"kSuiteEvents", "kInTest"}
    <3>1. phase \in Phase /\ n \in Nat /\ n >= 2
      BY DEF IInv, TypeOK, CloseScope
    <3>2. array_has_item = <<>> => n = 0
      OBVIOUS
    <3>3. phase \notin {"kNoSuite", "kTests", "kDone"}
      BY <2>1, <3>1, <3>2 DEF IInv, Idle, FileInv, Nesting
    <3>4. QED BY <3>1, <3>3 DEF Phase
  <2>3. Recording
    BY <2>1, <2>2, RecordingOpen
  <2>4. /\ Depth(doc) = Base + 2 * n /\ Base \in {0, 2} /\ array_has_item \in Seq(BOOLEAN)
        /\ doc \in Doc /\ doc.ok
        /\ InArray(doc) /\ Top(doc).at # "comma"
        /\ doc.stack[Depth(doc) - 1].kind = "object" /\ doc.stack[Depth(doc) - 1].at = "after"
    BY <2>3, Innermost DEF Recording
  <2>5. doc.stack[Depth(doc) - 2].kind = "events"
    <3>1. OpenAt(Base + 2 * (n - 1), "events", IF array_has_item[n - 1] THEN "after" ELSE "first")
      BY <2>2, <2>3 DEF Recording, ScopesAbove
    <3>2. Base + 2 * (n - 1) = Depth(doc) - 2
      BY <2>2, <2>4
    <3>3. QED BY <3>1, <3>2 DEF OpenAt
  <2>6. /\ e \in Doc /\ e.ok /\ e.done = doc.done /\ e.tests = doc.tests
        /\ Depth(e) = Depth(doc) - 2 /\ SameBelow(doc, e, Depth(doc) - 2)
    <3>1. Depth(doc) > 2 /\ doc.stack[Depth(doc) - 2].kind # "tests"
      BY <2>2, <2>4, <2>5
    <3>2. QED BY <2>4, <3>1, CloseItem
  <2> HIDE DEF e
  <2>7. /\ array_has_item' \in Seq(BOOLEAN) /\ Len(array_has_item') = n - 1
        /\ \A i \in 1 .. n - 1 : array_has_item'[i] = array_has_item[i]
    <3>1. array_has_item' = SubSeq(array_has_item, 1, n - 1)
      BY DEF CloseScope
    <3>2. QED BY <2>2, <2>4, <3>1, SubSeqProperties
  <2>8. Base' = Base
    BY DEF Base, CloseScope
  <2>9. ScopesAbove(Base)'
    <3>1. Depth(doc)' = Base' + 2 * Len(array_has_item')
      BY <2>1, <2>2, <2>4, <2>6, <2>7, <2>8
    <3>2. ASSUME NEW j \in 1 .. n - 1
          PROVE  /\ e.stack[Base + 2 * j - 1].kind = "object" /\ e.stack[Base + 2 * j - 1].at = "after"
                 /\ e.stack[Base + 2 * j].kind = "events"
                 /\ e.stack[Base + 2 * j].at = IF array_has_item'[j] THEN "after" ELSE "first"
      <4>1. j \in 1 .. n
        BY <2>2
      <4>2. /\ doc.stack[Base + 2 * j - 1].kind = "object" /\ doc.stack[Base + 2 * j - 1].at = "after"
            /\ doc.stack[Base + 2 * j].kind = "events"
            /\ doc.stack[Base + 2 * j].at = IF array_has_item[j] THEN "after" ELSE "first"
        BY <2>3, <4>1 DEF Recording, ScopesAbove, OpenAt
      <4>3. e.stack[Base + 2 * j - 1] = doc.stack[Base + 2 * j - 1]
            /\ e.stack[Base + 2 * j] = doc.stack[Base + 2 * j]
        BY <2>2, <2>4, <2>6 DEF SameBelow
      <4>4. array_has_item'[j] = array_has_item[j]
        BY <2>7
      <4>5. QED BY <4>2, <4>3, <4>4
    <3>3. QED BY <2>1, <2>7, <2>8, <3>1, <3>2 DEF ScopesAbove, OpenAt
  <2>10. /\ (phase = "kInTest" =>
             /\ has_tests /\ OpenAt(1, "object", "after") /\ OpenAt(2, "tests", "after")
             /\ doc.stack[3].vals = <<doc.stack[3].vals[1]>>)'
         /\ (phase' = "kInTest" => doc'.stack[3].vals = doc.stack[3].vals)
    <3>1. phase = "kInTest" => /\ e.stack[1] = doc.stack[1] /\ e.stack[2] = doc.stack[2]
                               /\ e.stack[3] = doc.stack[3]
      BY <2>2, <2>4, <2>6 DEF SameBelow, Base
    <3>2. QED BY <2>1, <2>3, <3>1 DEF Recording, OpenAt, CloseScope
  <2>a. doc'.stack[1].vals = <<Text>>
    BY <2>1, <2>2, <2>3, <2>4, <2>6 DEF SameBelow, Recording
  <2>11. Recording'
    BY <2>1, <2>2, <2>3, <2>6, <2>7, <2>9, <2>10, <2>a DEF Recording, CloseScope
  <2>12. (phase \in {"kSuiteEvents", "kInTest"} /\ Recording => FileInv)'
    BY RecordingClosed, PTL
  <2>13. QED BY <2>1, <2>2, <2>6, <2>10, <2>11, <2>12 DEF CloseScope, TestsKept, NameKept
<1>3. QED BY <1>1, <1>2

\* The first object, its text members and the array for the suite's own events.
LEMMA SuiteOpened ==
  ASSUME NEW d, d = EmptyDoc
  PROVE  LET e == Arr(Comma(Members(Obj(d), <<Text>>)), "events")
         IN  /\ e \in Doc /\ e.ok /\ ~e.done /\ e.tests = d.tests /\ Depth(e) = 2
             /\ e.stack[1].kind = "object" /\ e.stack[1].at = "after" /\ e.stack[1].vals = <<Text>>
             /\ e.stack[2].kind = "events" /\ e.stack[2].at = "first"
<1> DEFINE o == Obj(d)
           m == Members(o, <<Text>>)
           c == Comma(m)
           e == Arr(c, "events")
<1>1. /\ o \in Doc /\ o.ok /\ ~o.done /\ o.tests = d.tests /\ Depth(o) = 1 /\ Depth(o) \in Nat
      /\ Top(o).kind = "object" /\ Top(o).at = "first" /\ Top(o).vals = <<>>
  <2>1. o = [ok |-> TRUE, done |-> FALSE, stack |-> <<Open("object")>>, tests |-> <<>>, suite |-> <<>>]
    BY DEF Obj, EmptyDoc, Depth
  <2>2. /\ Open("object") \in Frame /\ Open("object").kind = "object"
        /\ Open("object").at = "first" /\ Open("object").vals = <<>>
    BY OpenType
  <2>3. <<Open("object")>> \in Seq(Frame) /\ Len(<<Open("object")>>) = 1
        /\ <<Open("object")>>[1] = Open("object")
    BY <2>2
  <2>4. o.tests = d.tests
    BY <2>1 DEF EmptyDoc
  <2>5. QED BY <2>1, <2>2, <2>3, <2>4 DEF Doc, Depth, Top
<1>2. <<Text>> \in Seq(Value) /\ <<>> \o <<Text>> = <<Text>>
  BY ValueTypes, ConcatEmptySeq
<1> HIDE DEF o
<1>3. Moved(o, m, "after") /\ Top(m).vals = <<Text>>
  <2>1. InObject(o) /\ Ready(o)
    BY <1>1 DEF InObject, Ready
  <2>2. QED BY <1>1, <1>2, <2>1, MembersLemma
<1> HIDE DEF m
<1>4. m \in Doc /\ m.ok /\ ~m.done /\ m.tests = d.tests /\ Depth(m) = 1 /\ Top(m).kind = "object" /\ Top(m).at = "after"
  BY <1>1, <1>3 DEF Moved
<1>5. Moved(m, c, "comma") /\ Top(c).vals = <<Text>>
  BY <1>3, <1>4, CommaLemma
<1> HIDE DEF c
<1>6. c \in Doc /\ c.ok /\ ~c.done /\ c.tests = d.tests /\ Depth(c) = 1 /\ Top(c).kind = "object" /\ Top(c).at = "comma"
  BY <1>4, <1>5 DEF Moved
<1>7. Grown(c, e, "events")
  BY <1>6, ArrLemma DEF InObject, Ready, Array
<1> HIDE DEF e
<1>8. e \in Doc /\ e.ok /\ ~e.done /\ e.tests = d.tests /\ Depth(e) = 2
      /\ e.stack[1].kind = "object" /\ e.stack[1].at = "after" /\ e.stack[1].vals = <<Text>>
      /\ e.stack[2].kind = "events" /\ e.stack[2].at = "first"
  BY <1>5, <1>6, <1>7 DEF Grown, Top
<1>9. QED BY <1>8 DEF e, c, m, o

\* BeginSuite starts the document.
LEMMA SuiteStep ==
  ASSUME IInv, BeginSuite, phase = "kNoSuite"
  PROVE  FileInv' /\ TestsKept
<1>1. CASE ~Faithful'
  BY <1>1 DEF FileInv, WellFormed, CompleteWhenDone, Nesting, OneName, SuiteName, TestsKept, Faithful, BeginSuite
<1>2. CASE Faithful'
  <2> DEFINE e == Arr(Comma(Members(Obj(doc), <<Text>>)), "events")
  <2>1. Faithful /\ doc' = e
    BY <1>2, Appended DEF IInv, BeginSuite
  <2>2. doc = EmptyDoc
    BY <2>1 DEF IInv, FileInv, Nesting, BeginSuite
  <2>3. /\ e \in Doc /\ e.ok /\ ~e.done /\ e.tests = doc.tests /\ Depth(e) = 2
        /\ e.stack[1].kind = "object" /\ e.stack[1].at = "after" /\ e.stack[1].vals = <<Text>>
        /\ e.stack[2].kind = "events" /\ e.stack[2].at = "first"
    BY <2>2, SuiteOpened
  <2> HIDE DEF e
  <2>4. phase' = "kSuiteEvents" /\ ~has_tests' /\ array_has_item' = <<FALSE>> /\ Base' = 0
    BY DEF BeginSuite, FreshArray, Base
  <2>5. array_has_item' \in Seq(BOOLEAN) /\ Len(array_has_item') = 1 /\ ~array_has_item'[1]
    BY <2>4
  <2>6. ScopesAbove(Base)'
    <3>1. Depth(doc)' = Base' + 2 * Len(array_has_item')
      BY <2>1, <2>3, <2>4, <2>5
    <3>2. ASSUME NEW j \in 1 .. 1
          PROVE  /\ e.stack[0 + 2 * j - 1].kind = "object" /\ e.stack[0 + 2 * j - 1].at = "after"
                 /\ e.stack[0 + 2 * j].kind = "events"
                 /\ e.stack[0 + 2 * j].at = IF array_has_item'[j] THEN "after" ELSE "first"
      <4>1. j = 1 /\ 0 + 2 * j - 1 = 1 /\ 0 + 2 * j = 2
        OBVIOUS
      <4>2. QED BY <2>3, <2>5, <4>1
    <3>3. QED BY <2>1, <2>4, <2>5, <3>1, <3>2 DEF ScopesAbove, OpenAt
  <2>7. Recording'
    BY <2>1, <2>3, <2>4, <2>5, <2>6 DEF Recording
  <2>8. (phase \in {"kSuiteEvents", "kInTest"} /\ Recording => FileInv)'
    BY RecordingClosed, PTL
  <2>9. QED BY <2>1, <2>3, <2>4, <2>7, <2>8 DEF TestsKept
<1>3. QED BY <1>1, <1>2

\* Where tests are written: the suite's own events are closed first, if need be.
LEMMA TestsOpen ==
  ASSUME IInv, Faithful, SuiteScopesClosed, phase \in {"kSuiteEvents", "kTests"}
  PROVE  /\ CloseSuiteEvents \in Doc /\ CloseSuiteEvents.ok /\ ~CloseSuiteEvents.done
         /\ Depth(CloseSuiteEvents) = 2 /\ InArray(CloseSuiteEvents)
         /\ CloseSuiteEvents.stack[1].kind = "object" /\ CloseSuiteEvents.stack[1].at = "after"
         /\ CloseSuiteEvents.stack[1].vals = <<Text>>
         /\ CloseSuiteEvents.stack[2].kind = "tests"
         /\ CloseSuiteEvents.stack[2].at = IF has_tests THEN "after" ELSE "first"
         /\ CloseSuiteEvents.tests = doc.tests
<1>1. CASE phase = "kSuiteEvents"
  <2>1. Recording /\ Len(array_has_item) = 1 /\ Base = 0 /\ ~has_tests
    BY <1>1, RecordingOpen DEF SuiteScopesClosed, Recording, Base
  <2>2. doc \in Doc /\ doc.ok /\ ~doc.done /\ Depth(doc) = 2 /\ InArray(doc) /\ Top(doc).at # "comma"
        /\ doc.stack[1].kind = "object" /\ doc.stack[1].at = "after" /\ doc.stack[1].vals = <<Text>>
    BY <2>1, Innermost DEF Recording
  <2> DEFINE e == Arr(Comma(EndArr(doc)), "tests")
  <2>3. /\ e \in Doc /\ e.ok /\ e.done = doc.done /\ e.tests = doc.tests /\ Depth(e) = 2
        /\ e.stack[1].kind = "object" /\ e.stack[1].at = "after" /\ e.stack[1].vals = <<Text>>
        /\ e.stack[2].kind = "tests" /\ e.stack[2].at = "first"
    BY <2>2, SuiteEventsClosed
  <2>4. CloseSuiteEvents = e
    BY <1>1 DEF CloseSuiteEvents
  <2> HIDE DEF e
  <2>5. QED BY <2>1, <2>2, <2>3, <2>4 DEF InArray, Top, Array
<1>2. CASE phase = "kTests"
  <2>1. CloseSuiteEvents = doc
    BY <1>2 DEF CloseSuiteEvents
  <2>2. doc \in Doc /\ doc.ok /\ ~doc.done /\ has_tests /\ Depth(doc) = 2
    BY <1>2 DEF IInv, TypeOK, FileInv, WellFormed, CompleteWhenDone, Nesting
  <2>3. OpenAt(1, "object", "after") /\ OpenAt(2, "tests", "after") /\ doc.stack[1].vals = <<Text>>
    BY <1>2 DEF IInv, FileInv, Nesting, SuiteName
  <2>4. QED BY <2>1, <2>2, <2>3 DEF OpenAt, InArray, Top, Array
<1>3. QED BY <1>1, <1>2

\* BeginTest opens a test in the "tests" array, once the suite's own events are closed.
LEMMA TestStep ==
  ASSUME IInv, NEW name \in TestNames, BeginTest(name), SuiteScopesClosed,
         initialized, phase \in {"kSuiteEvents", "kTests"}
  PROVE  FileInv' /\ TestsKept /\ (Faithful' => doc'.stack[3].vals = <<name>>)
<1>1. CASE ~Faithful'
  BY <1>1 DEF FileInv, WellFormed, CompleteWhenDone, Nesting, OneName, SuiteName, TestsKept, Faithful, BeginTest
<1>2. CASE Faithful'
  <2> DEFINE c == CloseSuiteEvents
             sep == IF has_tests THEN Comma(c) ELSE c
             e == Arr(Comma(Members(Obj(sep), <<name>>)), "events")
  <2>0. /\ AppendToFile(e) /\ has_tests' = TRUE /\ phase' = "kInTest" /\ array_has_item' = <<FALSE>>
        /\ UNCHANGED initialized /\ SuiteScopesClosed
    BY DEF BeginTest, FreshArray
  <2> HIDE DEF e
  <2>1. Faithful /\ doc' = e
    BY <1>2, <2>0, Appended DEF IInv
  <2>2. /\ c \in Doc /\ c.ok /\ ~c.done /\ c.tests = doc.tests /\ Depth(c) = 2 /\ InArray(c)
        /\ c.stack[1].kind = "object" /\ c.stack[1].at = "after" /\ c.stack[1].vals = <<Text>>
        /\ c.stack[2].kind = "tests" /\ c.stack[2].at = IF has_tests THEN "after" ELSE "first"
    BY <2>0, <2>1, TestsOpen
  <2> HIDE DEF c
  <2>3. /\ sep \in Doc /\ sep.ok /\ ~sep.done /\ sep.tests = doc.tests /\ Depth(sep) = 2 /\ InArray(sep) /\ Ready(sep)
        /\ sep.stack[1].kind = "object" /\ sep.stack[1].at = "after" /\ sep.stack[2].kind = "tests"
        /\ sep.stack[1].vals = <<Text>>
    <3>1. CASE has_tests
      <4>1. Moved(c, Comma(c), "comma")
        BY <2>2, <3>1, CommaLemma DEF Top
      <4>2. QED BY <2>2, <3>1, <4>1 DEF Moved, SameBelow, Top, InArray, Ready, Array
    <3>2. CASE ~has_tests
      BY <2>2, <3>2 DEF Ready, Top
    <3>3. QED BY <3>1, <3>2
  <2> HIDE DEF sep
  <2>4. /\ e \in Doc /\ e.ok /\ e.done = sep.done /\ e.tests = sep.tests
        /\ Depth(e) = Depth(sep) + 2 /\ SameBelow(sep, e, Depth(sep) - 1)
        /\ e.stack[Depth(sep)].kind = Top(sep).kind /\ e.stack[Depth(sep)].at = "after"
        /\ e.stack[Depth(sep) + 1].kind = "object" /\ e.stack[Depth(sep) + 1].at = "after"
        /\ e.stack[Depth(sep) + 1].vals = <<name>>
        /\ e.stack[Depth(sep) + 2].kind = "events" /\ e.stack[Depth(sep) + 2].at = "first"
    <3>1. name \in Value
      BY ValueTypes
    <3>2. QED BY <2>3, <3>1, OpenItem DEF e
  <2>5. /\ ~e.done /\ Depth(e) = 4 /\ e.stack[1] = sep.stack[1]
        /\ e.stack[2].kind = "tests" /\ e.stack[2].at = "after"
        /\ e.stack[3].kind = "object" /\ e.stack[3].at = "after" /\ e.stack[3].vals = <<name>>
        /\ e.stack[4].kind = "events" /\ e.stack[4].at = "first"
    BY <2>3, <2>4 DEF SameBelow, Top
  <2>6. Base' = 2
    BY <2>0 DEF Base
  <2>7. array_has_item' \in Seq(BOOLEAN) /\ Len(array_has_item') = 1 /\ ~array_has_item'[1]
    BY <2>0
  <2>8. ScopesAbove(Base)'
    <3>1. Depth(doc)' = Base' + 2 * Len(array_has_item')
      BY <2>1, <2>5, <2>6, <2>7
    <3>2. ASSUME NEW j \in 1 .. 1
          PROVE  /\ e.stack[2 + 2 * j - 1].kind = "object" /\ e.stack[2 + 2 * j - 1].at = "after"
                 /\ e.stack[2 + 2 * j].kind = "events"
                 /\ e.stack[2 + 2 * j].at = IF array_has_item'[j] THEN "after" ELSE "first"
      <4>1. j = 1 /\ 2 + 2 * j - 1 = 3 /\ 2 + 2 * j = 4
        OBVIOUS
      <4>2. QED BY <2>5, <2>7, <4>1
    <3>3. QED BY <2>1, <2>6, <2>7, <3>1, <3>2 DEF ScopesAbove, OpenAt
  <2>9. (OpenAt(1, "object", "after") /\ OpenAt(2, "tests", "after"))'
    BY <2>1, <2>3, <2>5 DEF OpenAt
  <2>10. /\ doc'.stack[3].vals = <<doc'.stack[3].vals[1]>> /\ doc'.stack[3].vals = <<name>>
         /\ doc'.stack[1].vals = <<Text>>
    BY <2>1, <2>3, <2>5
  <2>11. Recording'
    BY <2>0, <2>1, <2>4, <2>5, <2>7, <2>8, <2>9, <2>10 DEF Recording
  <2>12. (phase \in {"kSuiteEvents", "kInTest"} /\ Recording => FileInv)'
    BY RecordingClosed, PTL
  <2>13. QED BY <2>0, <2>1, <2>3, <2>4, <2>10, <2>11, <2>12 DEF TestsKept
<1>3. QED BY <1>1, <1>2

\* Two scalars, one after the other.
LEMMA Pair ==
  ASSUME NEW x, NEW v
  PROVE  <<x>> \o <<v>> = <<x, v>>
<1> DEFINE S == {x, v}
           a == <<x>> \o <<v>>
           b == <<x, v>>
<1>1. <<x>> \in Seq(S) /\ <<v>> \in Seq(S) /\ b \in Seq(S)
  OBVIOUS
<1>2. Len(<<x>>) = 1 /\ Len(<<v>>) = 1 /\ Len(b) = 2 /\ <<x>>[1] = x /\ <<v>>[1] = v /\ b[1] = x /\ b[2] = v
  OBVIOUS
<1>3. a \in Seq(S) /\ Len(a) = 2 /\ a[1] = x /\ a[2] = v
  BY <1>1, <1>2, ConcatProperties
<1> HIDE DEF a, b, S
<1>4. \A i \in 1 .. Len(a) : a[i] = b[i]
  <2> TAKE i \in 1 .. Len(a)
  <2>1. i = 1 \/ i = 2
    BY <1>3
  <2>2. QED BY <1>2, <1>3, <2>1 DEF b
<1>5. a = b
  BY <1>1, <1>2, <1>3, <1>4, SeqEqual DEF b
<1>6. QED BY <1>5 DEF a, b

\* A scalar before two others.
LEMMA Triple ==
  ASSUME NEW x, NEW v, NEW w
  PROVE  <<x>> \o <<v, w>> = <<x, v, w>>
<1> DEFINE S == {x, v, w}
           a == <<x>> \o <<v, w>>
           b == <<x, v, w>>
<1>1. <<x>> \in Seq(S) /\ <<v, w>> \in Seq(S) /\ b \in Seq(S)
  OBVIOUS
<1>2. /\ Len(<<x>>) = 1 /\ Len(<<v, w>>) = 2 /\ Len(b) = 3
      /\ <<x>>[1] = x /\ <<v, w>>[1] = v /\ <<v, w>>[2] = w /\ b[1] = x /\ b[2] = v /\ b[3] = w
  OBVIOUS
<1>3. a \in Seq(S) /\ Len(a) = 3 /\ a[1] = x /\ a[2] = v /\ a[3] = w
  BY <1>1, <1>2, ConcatProperties
<1> HIDE DEF a, b, S
<1>4. \A i \in 1 .. Len(a) : a[i] = b[i]
  <2> TAKE i \in 1 .. Len(a)
  <2>1. i = 1 \/ i = 2 \/ i = 3
    BY <1>3
  <2>2. QED BY <1>2, <1>3, <2>1
<1>5. a = b
  BY <1>1, <1>2, <1>3, <1>4, SeqEqual
<1>6. QED BY <1>5 DEF a, b

\* What EndTest appends last: the result of the test whose name is already there.
LEMMA RecordedTest ==
  ASSUME IInv, Faithful, phase = "kInTest", Len(array_has_item) <= 1
  PROVE  LET e == EndObj(Members(Comma(EndArr(doc)), <<call.result>>))
         IN  /\ e \in Doc /\ e.ok /\ ~e.done /\ Depth(e) = 2 /\ SameBelow(doc, e, 2)
             /\ e.tests = Append(doc.tests, <<doc.stack[3].vals[1], call.result>>)
<1>1. Recording
  BY RecordingOpen
<1>2. Base = 2 /\ Len(array_has_item) = 1
  <2> DEFINE n == Len(array_has_item)
  <2>1. Base = 2 /\ n \in Nat
    BY <1>1, Innermost DEF Base
  <2>2. n >= 1 /\ n <= 1
    BY <1>1 DEF Recording
  <2> HIDE DEF n
  <2>3. n = 1
    BY <2>1, <2>2
  <2>4. QED BY <2>1, <2>3 DEF n
<1>3. /\ doc \in Doc /\ doc.ok /\ ~doc.done /\ Depth(doc) = 4 /\ InArray(doc) /\ Top(doc).at # "comma"
      /\ doc.stack[3].kind = "object" /\ doc.stack[3].at = "after"
  BY <1>1, <1>2, Innermost DEF Recording
<1>4. doc.stack[2].kind = "tests" /\ doc.stack[3].vals = <<doc.stack[3].vals[1]>>
  BY <1>1 DEF Recording, OpenAt
<1>5. call.result \in Value
  <2>1. call.result \in {Pass, Fail}
    BY DEF IInv, TypeOK
  <2>2. QED BY <2>1, ValueTypes
<1> DEFINE v == call.result
           e == EndObj(Members(Comma(EndArr(doc)), <<v>>))
<1>6. /\ e \in Doc /\ e.ok /\ e.done = doc.done /\ Depth(e) = 2 /\ SameBelow(doc, e, 2)
      /\ e.tests = Append(doc.tests, doc.stack[3].vals \o <<v>>)
  BY <1>3, <1>4, <1>5, TestClosed
<1>7. doc.stack[3].vals \o <<v>> = <<doc.stack[3].vals[1], v>>
  <2> DEFINE x == doc.stack[3].vals[1]
  <2>1. doc.stack[3].vals \o <<v>> = <<x>> \o <<v>>
    BY <1>4
  <2> HIDE DEF x, v
  <2>2. <<x>> \o <<v>> = <<x, v>>
    BY Pair
  <2>3. QED BY <2>1, <2>2 DEF x
<1>8. QED BY <1>3, <1>6, <1>7

\* EndTest (or EndSuite on its behalf) ends the test.
LEMMA RecordStep ==
  ASSUME IInv, EndTestRecord
  PROVE  FileInv'
<1>1. CASE ~Faithful'
  BY <1>1 DEF FileInv, WellFormed, CompleteWhenDone, Nesting, OneName, SuiteName
<1>2. CASE Faithful'
  <2> DEFINE e == EndObj(Members(Comma(EndArr(doc)), <<call.result>>))
  <2>1. Faithful /\ doc' = e /\ phase = "kInTest" /\ Len(array_has_item) <= 1
    BY <1>2, Appended DEF IInv, EndTestRecord
  <2>2. e \in Doc /\ e.ok /\ ~e.done /\ Depth(e) = 2 /\ SameBelow(doc, e, 2)
    BY <2>1, RecordedTest
  <2> HIDE DEF e
  <2>3. /\ has_tests /\ OpenAt(1, "object", "after") /\ OpenAt(2, "tests", "after")
        /\ doc.stack[1].vals = <<Text>>
    BY <2>1 DEF IInv, FileInv, Nesting, SuiteName
  <2>4. (OpenAt(1, "object", "after") /\ OpenAt(2, "tests", "after") /\ doc.stack[1].vals = <<Text>>)'
    BY <2>1, <2>2, <2>3 DEF OpenAt, SameBelow
  <2>5. phase' = "kTests" /\ array_has_item' = <<>> /\ has_tests'
    BY <2>3 DEF EndTestRecord
  <2>6. (WellFormed /\ CompleteWhenDone /\ OneName /\ SuiteName)'
    BY <2>1, <2>2, <2>4, <2>5 DEF WellFormed, CompleteWhenDone, OneName, SuiteName
  <2>7. Nesting'
    BY <2>1, <2>2, <2>4, <2>5 DEF Nesting
  <2>8. QED BY <2>6, <2>7 DEF FileInv
<1>3. QED BY <1>1, <1>2

\* EndSuite completes the document.
LEMMA SummaryStep ==
  ASSUME IInv, EndSuiteRecord
  PROVE  /\ FileInv' /\ TestsKept
         /\ Faithful' => Faithful /\ doc'.suite = <<Text, call.passed, call.failed>>
<1>1. CASE ~Faithful'
  BY <1>1 DEF FileInv, WellFormed, CompleteWhenDone, Nesting, OneName, SuiteName, TestsKept, Faithful, EndSuiteRecord
<1>2. CASE Faithful'
  <2> DEFINE vs == <<call.passed, call.failed>>
             c == CloseSuiteEvents
             e == EndObj(Members(Comma(EndArr(c)), vs))
  <2>1. AppendToFile(e)
    BY DEF EndSuiteRecord, CloseSuiteEvents
  <2>2. vs \in Seq(Value)
    <3>1. call.passed \in 0 .. MaxTests /\ call.failed \in 0 .. MaxTests
      BY DEF IInv, TypeOK
    <3>2. QED BY <3>1, ValueTypes
  <2> HIDE DEF e, vs
  <2>3. Faithful /\ doc' = e
    BY <1>2, <2>1, Appended DEF IInv, EndSuiteRecord
  <2>4. phase \in {"kSuiteEvents", "kTests"} /\ SuiteScopesClosed
    BY <2>3 DEF IInv, CallOK, TypeOK, Phase, Faithful, EndSuiteRecord
  <2>5. /\ c \in Doc /\ c.ok /\ ~c.done /\ c.tests = doc.tests /\ Depth(c) = 2 /\ InArray(c)
        /\ c.stack[1].kind = "object" /\ c.stack[1].at = "after" /\ c.stack[1].vals = <<Text>>
        /\ c.stack[2].at = IF has_tests THEN "after" ELSE "first"
    BY <2>3, <2>4, TestsOpen
  <2> HIDE DEF c
  <2>6. e \in Doc /\ e.ok /\ e.done /\ e.tests = doc.tests /\ Depth(e) = 0 /\ e.suite = <<Text>> \o vs
    <3>1. Top(c).at # "comma"
      BY <2>5 DEF Top
    <3>2. QED BY <2>2, <2>5, <3>1, SuiteClosed DEF e
  <2>7. phase' = "kDone" /\ array_has_item' = <<>>
    BY DEF EndSuiteRecord
  <2>8. (WellFormed /\ CompleteWhenDone /\ OneName /\ SuiteName /\ Nesting)'
    BY <2>3, <2>6, <2>7 DEF WellFormed, CompleteWhenDone, OneName, SuiteName, Nesting
  <2>9. <<Text>> \o vs = <<Text, call.passed, call.failed>>
    BY Triple DEF vs
  <2>10. QED BY <2>3, <2>6, <2>8, <2>9 DEF FileInv, TestsKept
<1>3. QED BY <1>1, <1>2

-----------------------------------------------------------------------------
(* Every step keeps the invariant. *)

\* A call that has not returned stays where it may be.
LEMMA CallStep == IInv /\ [Next]_vars => CallOK'
<1> SUFFICES ASSUME IInv, [Next]_vars
             PROVE  CallOK'
  OBVIOUS
<1>0. CallOK /\ TypeOK
  BY DEF IInv
<1>1. CASE call'.op = "none"
  BY <1>1 DEF CallOK
<1>2. CASE call' = call /\ UNCHANGED g_state
  BY <1>0, <1>2 DEF g_state, CallOK, SuiteScopesClosed
<1>3. CASE call'.op # "none" /\ ~(call' = call /\ UNCHANGED g_state)
  <2>1. ASSUME NEW result \in {Pass, Fail}, EndTest(result)
        PROVE  CallOK'
    BY <1>3, <2>1 DEF EndTest, CallOK, g_state
  <2>2. ASSUME NEW passed \in 0 .. MaxTests, NEW failed \in 0 .. MaxTests, EndSuite(passed, failed),
               SuiteScopesClosed /\ phase # "kDone" /\ (phase = "kNoSuite" => ~initialized)
        PROVE  CallOK'
    BY <2>2 DEF EndSuite, CallOK, SuiteScopesClosed, g_state
  <2>3. CASE EndTestScope
    BY <1>0, <2>3 DEF EndTestScope, CloseScope, CallOK, SuiteScopesClosed
  <2>4. CASE EndTestRecord
    BY <1>0, <1>3, <2>4 DEF EndTestRecord, Returned, TypeOK, CallOK, SuiteScopesClosed
  <2>5. CASE EndSuiteRecord \/ Restart \/ UNCHANGED vars
    BY <1>3, <2>5 DEF EndSuiteRecord, Restart, Returned, vars
  <2>6. Call => call.op = "none"
    BY DEF Call
  <2>7. CASE Call /\ call' = call
    BY <1>3, <2>6, <2>7
  <2>8. CASE Call /\ call' # call
    BY <2>1, <2>2, <2>8
       DEF Call, Initialize, BeginSuite, BeginTest, Event, HexDump, BeginScope, EndScope,
           PrintLine, ClearOnScreenLog
  <2>9. QED BY <2>3, <2>4, <2>5, <2>7, <2>8 DEF Next
<1>4. QED BY <1>1, <1>2, <1>3

\* Nothing is opened before BeginSuite.
LEMMA IdleStep == IInv /\ [Next]_vars => Idle'
<1> SUFFICES ASSUME IInv, [Next]_vars, phase' = "kNoSuite"
             PROVE  array_has_item' = <<>>
  BY DEF Idle
<1>1. TypeOK /\ (phase = "kNoSuite" => array_has_item = <<>>)
  BY DEF IInv, Idle
<1>2. Len(<<>>) = 0
  OBVIOUS
<1>3. CASE EndScope \/ EndTestScope
  BY <1>1, <1>2, <1>3 DEF EndScope, EndTestScope, CloseScope, g_state
<1>4. CASE (\E opened \in BOOLEAN : Initialize(opened)) \/ Restart \/ UNCHANGED vars
  BY <1>1, <1>4 DEF Initialize, Restart, vars, g_state
<1>5. ASSUME NEW name \in TestNames, BeginTest(name)
      PROVE  array_has_item' = <<>>
  BY <1>1, <1>5 DEF BeginTest
<1>6. CASE \/ Event \/ \E rows \in 0 .. MaxDumpRows : HexDump(rows)
           \/ \E name \in ScopeNames : BeginScope(name)
  BY <1>1, <1>6 DEF Event, HexDump, BeginScope, CanRecordEvent
<1>7. CASE \/ \E result \in {Pass, Fail} : EndTest(result)
           \/ \E passed, failed \in 0 .. MaxTests : EndSuite(passed, failed)
           \/ (\E line \in {Pass, Fail, Text} : PrintLine(line)) \/ ClearOnScreenLog
  BY <1>1, <1>7 DEF EndTest, EndSuite, PrintLine, ClearOnScreenLog, g_state
<1>8. CASE BeginSuite \/ EndTestRecord \/ EndSuiteRecord
  BY <1>8 DEF BeginSuite, EndTestRecord, EndSuiteRecord
<1>9. QED BY <1>3, <1>4, <1>5, <1>6, <1>7, <1>8 DEF Next, Call

\* A step that leaves the file and the part of g_state that describes it.
LEMMA FileUnchanged ==
  ASSUME IInv, UNCHANGED <<initialized, phase, has_tests, array_has_item, doc, lost>>
  PROVE  FileInv' /\ TestsKept /\ NameKept
<1>1. FileInv
  BY DEF IInv
<1>2. (Faithful' <=> Faithful) /\ (ScopesAbove(0)' <=> ScopesAbove(0)) /\ (ScopesAbove(2)' <=> ScopesAbove(2))
  BY DEF Faithful, ScopesAbove, OpenAt
<1>3. /\ OpenAt(1, "object", "after")' <=> OpenAt(1, "object", "after")
      /\ OpenAt(2, "tests", "after")' <=> OpenAt(2, "tests", "after")
  BY DEF OpenAt
<1>4. Nesting'
  BY <1>1, <1>2, <1>3 DEF FileInv, Nesting
<1>5. QED BY <1>1, <1>2, <1>4 DEF FileInv, WellFormed, CompleteWhenDone, OneName, SuiteName, TestsKept, NameKept

\* Every step keeps what the file and the bookkeeping say of each other.
LEMMA FileStep == IInv /\ [Next]_vars => FileInv'
<1> SUFFICES ASSUME IInv, [Next]_vars
             PROVE  FileInv'
  OBVIOUS
<1>1. ASSUME NEW opened \in BOOLEAN, Initialize(opened), phase = "kNoSuite"
      PROVE  FileInv'
  <2>1. phase' = "kNoSuite"
    BY <1>1 DEF Initialize
  <2>3. CASE ~opened
    BY <1>1, <2>3 DEF Initialize, Faithful, FileInv, WellFormed, CompleteWhenDone, Nesting, OneName, SuiteName
  <2>4. CASE opened
    <3>1. doc' = EmptyDoc
      BY <1>1, <2>4 DEF Initialize
    <3>2. doc'.ok /\ ~doc'.done
      BY <3>1 DEF EmptyDoc
    <3>3. QED BY <2>1, <3>1, <3>2 DEF FileInv, WellFormed, CompleteWhenDone, Nesting, OneName, SuiteName
  <2>5. QED BY <2>3, <2>4
<1>2. CASE BeginSuite /\ phase = "kNoSuite"
  BY <1>2, SuiteStep
<1>3. ASSUME NEW name \in TestNames, BeginTest(name), SuiteScopesClosed
      PROVE  FileInv'
  <2>1. CASE initialized /\ phase \in {"kSuiteEvents", "kTests"}
    BY <1>3, <2>1, TestStep
  <2>2. CASE ~(initialized /\ phase \in {"kSuiteEvents", "kTests"})
    BY <1>3, <2>2, FileUnchanged DEF BeginTest
  <2>3. QED BY <2>1, <2>2
<1>4. ASSUME NEW name \in ScopeNames, BeginScope(name)
      PROVE  FileInv'
  <2>1. CASE CanRecordEvent
    BY <1>4, <2>1, ScopeStep
  <2>2. CASE ~CanRecordEvent
    BY <1>4, <2>2, FileUnchanged DEF BeginScope
  <2>3. QED BY <2>1, <2>2
<1>5. ASSUME IF CanRecordEvent
             THEN AppendToFile(Item(BeginEventItem)) /\ array_has_item' = ItemWritten
             ELSE UNCHANGED <<array_has_item, doc, lost>>,
             UNCHANGED <<initialized, phase, has_tests>>
      PROVE  FileInv'
  <2>1. CASE CanRecordEvent
    BY <1>5, <2>1, ItemStep
  <2>2. CASE ~CanRecordEvent
    BY <1>5, <2>2, FileUnchanged
  <2>3. QED BY <2>1, <2>2
<1>6. CASE Event
  BY <1>5, <1>6 DEF Event
<1>7. ASSUME NEW rows \in 0 .. MaxDumpRows, HexDump(rows)
      PROVE  FileInv'
  BY <1>5, <1>7 DEF HexDump
<1>8. CASE EndScope \/ EndTestScope
  <2>1. CASE CloseScope
    BY <2>1, CloseStep
  <2>2. CASE ~CloseScope
    BY <1>8, <2>2, FileUnchanged DEF EndScope, EndTestScope, g_state
  <2>3. QED BY <2>1, <2>2
<1>9. CASE EndTestRecord
  BY <1>9, RecordStep
<1>10. CASE EndSuiteRecord
  BY <1>10, SummaryStep
<1>11. CASE \/ \E result \in {Pass, Fail} : EndTest(result)
            \/ \E passed, failed \in 0 .. MaxTests : EndSuite(passed, failed)
            \/ (\E line \in {Pass, Fail, Text} : PrintLine(line)) \/ ClearOnScreenLog \/ UNCHANGED vars
  BY <1>11, FileUnchanged DEF EndTest, EndSuite, PrintLine, ClearOnScreenLog, vars, g_state
<1>12. CASE Restart
  BY <1>12 DEF Restart, Faithful, FileInv, WellFormed, CompleteWhenDone, Nesting, OneName, SuiteName
<1>13. QED
  BY <1>1, <1>2, <1>3, <1>4, <1>6, <1>7, <1>8, <1>9, <1>10, <1>11, <1>12 DEF Next, Call

\* A log that has not been opened.
LEMMA Initially == Init => IInv
<1> SUFFICES ASSUME Init PROVE IInv
  OBVIOUS
<1>1. TypeOK
  BY TypeInit
<1>2. CallOK /\ Idle
  BY DEF Init, Returned, CallOK, Idle
<1>3. FileInv
  BY DEF Init, Faithful, FileInv, WellFormed, CompleteWhenDone, Nesting, OneName, SuiteName
<1>4. QED BY <1>1, <1>2, <1>3 DEF IInv

\* IInv is inductive.
LEMMA Inductive == IInv /\ [Next]_vars => IInv'
<1> SUFFICES ASSUME IInv, [Next]_vars PROVE IInv'
  OBVIOUS
<1>1. TypeOK'
  BY TypeStep DEF IInv
<1>2. QED BY <1>1, CallStep, IdleStep, FileStep DEF IInv

(***************************************************************************)
(* IInv, the strengthening of the properties of the file that every call   *)
(* of the log keeps, holds of every behaviour.                             *)
(***************************************************************************)
THEOREM Invariant == Spec => []IInv
BY Initially, Inductive, PTL DEF Spec

(***************************************************************************)
(* While no append has been lost, the log file is the beginning of one     *)
(* JSON document (test_log.h:12-28), at every point where the console may  *)
(* stop, for any tests, scope names, nesting and number of events.         *)
(***************************************************************************)
THEOREM FileWellFormed == Spec => []WellFormed
<1>1. IInv => WellFormed
  BY DEF IInv, FileInv
<1>2. QED BY <1>1, Invariant, PTL

(***************************************************************************)
(* The document is closed exactly when EndSuite has written the summary    *)
(* (test_log.cpp:283-308): a file cut short is never a complete document.  *)
(***************************************************************************)
THEOREM FileCompleteWhenDone == Spec => []CompleteWhenDone
<1>1. IInv => CompleteWhenDone
  BY DEF IInv, FileInv
<1>2. QED BY <1>1, Invariant, PTL

(***************************************************************************)
(* g_state (test_log.cpp:20-32) always describes the containers that are   *)
(* open in the file, and where a separator is due.                         *)
(***************************************************************************)
THEOREM BookkeepingFollowsFile == Spec => []Nesting
<1>1. IInv => Nesting
  BY DEF IInv, FileInv
<1>2. QED BY <1>1, Invariant, PTL

\* Only the append that ends a test changes what is recorded.
LEMMA RecordedStep ==
  IInv /\ [Next]_vars =>
    [Faithful /\ lost' = 0 =>
       IF phase = "kInTest" /\ phase' = "kTests"
       THEN doc.tests' = Append(doc.tests, <<doc.stack[3].vals[1], call.result>>)
       ELSE doc.tests' = doc.tests]_vars
<1> SUFFICES ASSUME IInv, Next, Faithful, lost' = 0
             PROVE  IF phase = "kInTest" /\ phase' = "kTests"
                    THEN doc.tests' = Append(doc.tests, <<doc.stack[3].vals[1], call.result>>)
                    ELSE doc.tests' = doc.tests
  OBVIOUS
<1>1. CASE EndTestRecord
  <2>1. phase = "kInTest" /\ phase' = "kTests" /\ Len(array_has_item) <= 1 /\ Faithful'
    BY <1>1 DEF EndTestRecord, Faithful
  <2>2. doc' = EndObj(Members(Comma(EndArr(doc)), <<call.result>>))
    BY <1>1, <2>1, Appended DEF EndTestRecord, IInv
  <2>3. QED BY <2>1, <2>2, RecordedTest
<1>2. ~EndTestRecord => TestsKept
  <2> SUFFICES ASSUME ~EndTestRecord PROVE TestsKept
    OBVIOUS
  <2>1. ASSUME NEW opened \in BOOLEAN, Initialize(opened), ~initialized
        PROVE  TestsKept
    BY <2>1 DEF Initialize, Faithful, TestsKept
  <2>2. CASE BeginSuite /\ phase = "kNoSuite"
    BY <2>2, SuiteStep
  <2>3. ASSUME NEW name \in TestNames, BeginTest(name), SuiteScopesClosed
        PROVE  TestsKept
    <3>1. CASE initialized /\ phase \in {"kSuiteEvents", "kTests"}
      BY <2>3, <3>1, TestStep
    <3>2. CASE ~(initialized /\ phase \in {"kSuiteEvents", "kTests"})
      BY <2>3, <3>2 DEF BeginTest, TestsKept
    <3>3. QED BY <3>1, <3>2
  <2>4. ASSUME NEW name \in ScopeNames, BeginScope(name)
        PROVE  TestsKept
    <3>1. CASE CanRecordEvent
      BY <2>4, <3>1, ScopeStep
    <3>2. CASE ~CanRecordEvent
      BY <2>4, <3>2 DEF BeginScope, TestsKept
    <3>3. QED BY <3>1, <3>2
  <2>5. ASSUME IF CanRecordEvent
               THEN AppendToFile(Item(BeginEventItem)) /\ array_has_item' = ItemWritten
               ELSE UNCHANGED <<array_has_item, doc, lost>>,
               UNCHANGED <<initialized, phase, has_tests>>
        PROVE  TestsKept
    <3>1. CASE CanRecordEvent
      BY <2>5, <3>1, ItemStep
    <3>2. CASE ~CanRecordEvent
      BY <2>5, <3>2 DEF TestsKept
    <3>3. QED BY <3>1, <3>2
  <2>6. CASE Event \/ \E rows \in 0 .. MaxDumpRows : HexDump(rows)
    BY <2>5, <2>6 DEF Event, HexDump
  <2>7. CASE EndScope \/ EndTestScope
    <3>1. CASE CloseScope
      BY <3>1, CloseStep
    <3>2. CASE ~CloseScope
      BY <2>7, <3>2 DEF EndScope, EndTestScope, TestsKept
    <3>3. QED BY <3>1, <3>2
  <2>8. CASE EndSuiteRecord
    BY <2>8, SummaryStep
  <2>9. CASE \/ \E result \in {Pass, Fail} : EndTest(result)
             \/ \E passed, failed \in 0 .. MaxTests : EndSuite(passed, failed)
             \/ (\E line \in {Pass, Fail, Text} : PrintLine(line)) \/ ClearOnScreenLog \/ Restart
    BY <2>9 DEF EndTest, EndSuite, PrintLine, ClearOnScreenLog, Restart, TestsKept
  <2>10. QED BY <2>1, <2>2, <2>3, <2>4, <2>6, <2>7, <2>8, <2>9 DEF Next, Call
<1>3. ~EndTestRecord /\ phase = "kInTest" => phase' # "kTests"
  BY DEF Next, Call, Initialize, BeginSuite, BeginTest, Event, HexDump, BeginScope, EndScope, EndTestScope,
         CloseScope, EndTest, EndSuite, EndSuiteRecord, PrintLine, ClearOnScreenLog, Restart, g_state
<1>4. QED BY <1>1, <1>2, <1>3 DEF TestsKept

\* As long as a test stays open its object keeps the name it was begun with.
LEMMA NamedStep == IInv /\ [Next]_vars => NameKept
<1> SUFFICES ASSUME IInv, [Next]_vars PROVE NameKept
  OBVIOUS
<1>1. CASE phase # "kInTest" \/ phase' # "kInTest" \/ UNCHANGED doc
  BY <1>1 DEF NameKept
<1>2. ASSUME IF CanRecordEvent
             THEN AppendToFile(Item(BeginEventItem)) /\ array_has_item' = ItemWritten
             ELSE UNCHANGED <<array_has_item, doc, lost>>,
             UNCHANGED <<initialized, phase, has_tests>>
      PROVE  NameKept
  <2>1. CASE CanRecordEvent
    BY <1>2, <2>1, ItemStep
  <2>2. CASE ~CanRecordEvent
    BY <1>1, <1>2, <2>2
  <2>3. QED BY <2>1, <2>2
<1>3. CASE Event \/ \E rows \in 0 .. MaxDumpRows : HexDump(rows)
  BY <1>2, <1>3 DEF Event, HexDump
<1>4. ASSUME NEW name \in ScopeNames, BeginScope(name)
      PROVE  NameKept
  <2>1. CASE CanRecordEvent
    BY <1>4, <2>1, ScopeStep
  <2>2. CASE ~CanRecordEvent
    BY <1>1, <1>4, <2>2 DEF BeginScope
  <2>3. QED BY <2>1, <2>2
<1>5. CASE EndScope \/ EndTestScope
  <2>1. CASE CloseScope
    BY <2>1, CloseStep
  <2>2. CASE ~CloseScope
    BY <1>1, <1>5, <2>2 DEF EndScope, EndTestScope
  <2>3. QED BY <2>1, <2>2
<1>6. CASE \/ EndTestRecord \/ EndSuiteRecord \/ Restart \/ UNCHANGED vars
           \/ \E name \in TestNames : BeginTest(name)
           \/ \E result \in {Pass, Fail} : EndTest(result)
           \/ \E passed, failed \in 0 .. MaxTests : EndSuite(passed, failed)
           \/ (\E line \in {Pass, Fail, Text} : PrintLine(line)) \/ ClearOnScreenLog
  BY <1>1, <1>6 DEF EndTestRecord, EndSuiteRecord, Restart, BeginTest, EndTest, EndSuite, PrintLine,
                    ClearOnScreenLog, vars
<1>7. QED BY <1>1, <1>3, <1>4, <1>5, <1>6 DEF Next, Call

\* A scope is never closed by the append that completes the document.
LEMMA NoScopeWhenDone ==
  ASSUME IInv, CloseScope, lost' = 0, doc'.done
  PROVE  UNCHANGED <<doc, lost>>
<1>1. CASE ~initialized
  BY <1>1 DEF CloseScope, AppendToFile
<1>2. CASE initialized
  <2>1. Faithful' /\ Faithful /\ phase' = phase
    BY <1>2, Appended DEF IInv, CloseScope, Faithful
  <2>2. phase' = "kDone"
    BY <2>1, CloseStep DEF FileInv, CompleteWhenDone
  <2>3. Len(array_has_item) = 0
    BY <2>1, <2>2 DEF IInv, FileInv, Nesting
  <2>4. QED BY <2>3 DEF CloseScope
<1>3. QED BY <1>1, <1>2

\* A complete document was complete before the step, or the step is the append of
\* the summary, which leaves the recorded tests as they are.
LEMMA DocumentDone ==
  ASSUME IInv, [Next]_vars, lost' = 0, doc'.done
  PROVE  \/ lost = 0 /\ doc' = doc
         \/ /\ EndSuiteRecord /\ Faithful /\ doc'.tests = doc.tests
            /\ doc'.suite = <<Text, call.passed, call.failed>>
<1>0. lost \in Nat /\ doc \in Doc /\ (Faithful' => phase' = "kDone")
  BY FileStep DEF IInv, TypeOK, FileInv, CompleteWhenDone
<1>1. CASE UNCHANGED <<doc, lost>>
  BY <1>1
<1>2. ASSUME NEW e, AppendToFile(e), initialized' = initialized, phase' # "kDone"
      PROVE  UNCHANGED <<doc, lost>>
  <2>1. ~Faithful'
    BY <1>0, <1>2
  <2>2. QED BY <1>0, <1>2, <2>1 DEF AppendToFile, Faithful
<1>3. CASE EndSuiteRecord
  <2>1. CASE ~initialized
    BY <1>3, <2>1 DEF EndSuiteRecord, AppendToFile
  <2>2. CASE initialized
    <3>1. Faithful'
      BY <1>3, <2>2 DEF EndSuiteRecord, Faithful
    <3>2. QED BY <1>3, <3>1, SummaryStep DEF TestsKept
  <2>3. QED BY <2>1, <2>2
<1>4. ASSUME NEW opened \in BOOLEAN, Initialize(opened)
      PROVE  UNCHANGED <<doc, lost>>
  BY <1>4 DEF Initialize, EmptyDoc
<1>5. CASE Call
  <2>1. CASE BeginSuite
    BY <1>1, <1>2, <2>1 DEF BeginSuite
  <2>2. ASSUME NEW name \in TestNames, BeginTest(name)
        PROVE  UNCHANGED <<doc, lost>>
    BY <1>2, <2>2 DEF BeginTest
  <2>3. CASE Event \/ \E rows \in 0 .. MaxDumpRows : HexDump(rows)
    <3>1. CASE CanRecordEvent
      <4>1. phase' # "kDone" /\ initialized' = initialized /\ AppendToFile(Item(BeginEventItem))
        BY <2>3, <3>1 DEF Event, HexDump, CanRecordEvent
      <4>2. QED BY <1>1, <1>2, <4>1
    <3>2. CASE ~CanRecordEvent
      BY <1>1, <2>3, <3>2 DEF Event, HexDump
    <3>3. QED BY <3>1, <3>2
  <2>4. ASSUME NEW name \in ScopeNames, BeginScope(name)
        PROVE  UNCHANGED <<doc, lost>>
    BY <1>2, <2>4 DEF BeginScope, CanRecordEvent
  <2>5. CASE EndScope
    <3>1. CASE CloseScope
      BY <1>1, <3>1, NoScopeWhenDone
    <3>2. CASE ~CloseScope
      BY <1>1, <2>5, <3>2 DEF EndScope
    <3>3. QED BY <3>1, <3>2
  <2>6. CASE \/ \E result \in {Pass, Fail} : EndTest(result)
             \/ \E passed, failed \in 0 .. MaxTests : EndSuite(passed, failed)
             \/ (\E line \in {Pass, Fail, Text} : PrintLine(line)) \/ ClearOnScreenLog
    BY <1>1, <2>6 DEF EndTest, EndSuite, PrintLine, ClearOnScreenLog
  <2>7. QED BY <1>1, <1>4, <1>5, <2>1, <2>2, <2>3, <2>4, <2>5, <2>6 DEF Call
<1>6. CASE EndTestScope
  BY <1>1, <1>6, NoScopeWhenDone DEF EndTestScope
<1>7. CASE EndTestRecord
  BY <1>1, <1>2, <1>7 DEF EndTestRecord
<1>8. CASE Restart \/ UNCHANGED vars
  BY <1>1, <1>8 DEF Restart, vars
<1>9. QED BY <1>3, <1>5, <1>6, <1>7, <1>8 DEF Next

\* Appends are only ever lost: a file with none lost had none lost before the step,
\* unless the step made the file.
LEMMA FaithfulBefore ==
  ASSUME IInv, [Next]_vars, Faithful'
  PROVE  Faithful \/ (phase' = "kNoSuite" /\ doc' = EmptyDoc)
<1>0. lost \in Nat
  BY DEF IInv, TypeOK
<1>1. ASSUME initialized' = initialized, lost' = lost
      PROVE  Faithful
  BY <1>1 DEF Faithful
<1>2. ASSUME NEW e, AppendToFile(e), initialized' = initialized
      PROVE  Faithful
  BY <1>0, <1>2 DEF AppendToFile, Faithful
<1>3. ASSUME NEW opened \in BOOLEAN, Initialize(opened), phase = "kNoSuite"
      PROVE  phase' = "kNoSuite" /\ doc' = EmptyDoc
  BY <1>3 DEF Initialize, Faithful
<1>4. CASE BeginSuite
  BY <1>2, <1>4 DEF BeginSuite
<1>5. ASSUME NEW name \in TestNames, BeginTest(name)
      PROVE  Faithful
  <2>1. initialized' = initialized /\ (lost' = lost \/ \E e : AppendToFile(e))
    BY <1>5 DEF BeginTest
  <2>2. CASE \E e : AppendToFile(e)
    BY <1>2, <2>1, <2>2
  <2>3. QED BY <1>1, <2>1, <2>2
<1>6. CASE Event \/ \E rows \in 0 .. MaxDumpRows : HexDump(rows)
  <2>1. /\ initialized' = initialized
        /\ IF CanRecordEvent THEN AppendToFile(Item(BeginEventItem)) ELSE lost' = lost
    BY <1>6 DEF Event, HexDump
  <2>2. QED BY <1>1, <1>2, <2>1
<1>7. ASSUME NEW name \in ScopeNames, BeginScope(name)
      PROVE  Faithful
  <2>1. initialized' = initialized /\ (lost' = lost \/ \E e : AppendToFile(e))
    BY <1>7 DEF BeginScope
  <2>2. CASE \E e : AppendToFile(e)
    BY <1>2, <2>1, <2>2
  <2>3. QED BY <1>1, <2>1, <2>2
<1>8. CASE EndScope \/ EndTestScope
  <2>1. CASE CloseScope
    BY <1>2, <2>1 DEF CloseScope
  <2>2. CASE ~CloseScope
    BY <1>1, <1>8, <2>2 DEF EndScope, EndTestScope, g_state
  <2>3. QED BY <2>1, <2>2
<1>9. CASE EndTestRecord \/ EndSuiteRecord
  <2>1. initialized' = initialized /\ \E e : AppendToFile(e)
    BY <1>9 DEF EndTestRecord, EndSuiteRecord
  <2>2. QED BY <1>2, <2>1
<1>10. CASE \/ \E result \in {Pass, Fail} : EndTest(result)
            \/ \E passed, failed \in 0 .. MaxTests : EndSuite(passed, failed)
            \/ (\E line \in {Pass, Fail, Text} : PrintLine(line)) \/ ClearOnScreenLog \/ UNCHANGED vars
  BY <1>1, <1>10 DEF EndTest, EndSuite, PrintLine, ClearOnScreenLog, vars, g_state
<1>11. CASE Restart
  BY <1>11 DEF Restart, Faithful
<1>12. QED
  BY <1>3, <1>4, <1>5, <1>6, <1>7, <1>8, <1>9, <1>10, <1>11 DEF Next, Call

(***************************************************************************)
(* Each test is recorded once, by the append that ends it, under its own   *)
(* name and with the result EndTest was given (test_log.cpp:342-360); no   *)
(* other append adds, removes or changes a recorded test.                  *)
(***************************************************************************)
THEOREM TestsRecordedOnce == Spec => RecordedOnce
<1>1. Init /\ [][Next]_vars => []IInv
  BY Initially, Inductive, PTL
<1>2. QED BY <1>1, RecordedStep, PTL DEF Spec, RecordedOnce

=============================================================================
