----------------------------- MODULE JsonStream -----------------------------
(***************************************************************************)
(* The log file of TestLog, as a consumer sees it: a reader that has       *)
(* consumed every byte written so far.  The text is cut into the tokens    *)
(* test_log.cpp writes; keys, indentation, quoting and the spelling of     *)
(* scalars are abstracted, the bracket and comma structure and the scalars *)
(* that identify a test or give its verdict are kept.                      *)
(*                                                                         *)
(*   doc.ok     no token so far was out of place                           *)
(*   doc.done   the outermost object has been closed                       *)
(*   doc.stack  the open containers, outermost first                       *)
(*   doc.tests  the scalars of each object closed inside a "tests" array   *)
(*   doc.suite  the scalars of the outermost object, once it is closed     *)
(*                                                                         *)
(* External: the file system and the JSON grammar (RFC 8259), as used by   *)
(* AppendToFile and by whoever reads the file.                             *)
(***************************************************************************)
EXTENDS Sequences, Integers

CONSTANT Value        \* the scalars that may stand in the document

Array == {"events", "tests"}

(***************************************************************************)
(* A container: at is "first" before its first item, "after" just after an *)
(* item and "comma" just after a separator.                                *)
(***************************************************************************)
Frame == [kind : {"object"} \cup Array,
          at   : {"first", "after", "comma"},
          vals : Seq(Value)]

Doc == [ok : BOOLEAN, done : BOOLEAN, stack : Seq(Frame),
        tests : Seq(Seq(Value)), suite : Seq(Value)]

EmptyDoc == [ok |-> TRUE, done |-> FALSE, stack |-> <<>>, tests |-> <<>>, suite |-> <<>>]

Open(kind) == [kind |-> kind, at |-> "first", vals |-> <<>>]

Depth(d) == Len(d.stack)
Top(d) == d.stack[Depth(d)]

InObject(d) == Depth(d) > 0 /\ Top(d).kind = "object"
InArray(d) == Depth(d) > 0 /\ Top(d).kind \in Array

\* An item or member may come next: no separator is missing.
Ready(d) == Depth(d) > 0 /\ Top(d).at # "after"

-----------------------------------------------------------------------------
Stuck(d) == [d EXCEPT !.ok = FALSE]

\* The open containers, the innermost one now at this point and with scalars vs.
Move(d, at, vs) ==
    [d.stack EXCEPT ![Depth(d)] = [kind |-> Top(d).kind, at |-> at, vals |-> Top(d).vals \o vs]]

\* The innermost container has just got an item (and, in an object, scalars vs).
ItemRead(d, vs) == Move(d, "after", vs)

Pushed(d, frame) == [d EXCEPT !.stack = Append(ItemRead(d, <<>>), frame)]

Popped(d) == SubSeq(d.stack, 1, Depth(d) - 1)

\* Closing the innermost object: it is a test if it stands in a "tests" array.
TestsRead(d) ==
    IF d.stack[Depth(d) - 1].kind = "tests" THEN Append(d.tests, Top(d).vals) ELSE d.tests

\* "{": the document itself, or an item of an array.
Obj(d) ==
    IF d.ok /\ Depth(d) = 0 /\ ~d.done
    THEN [d EXCEPT !.stack = <<Open("object")>>]
    ELSE IF d.ok /\ InArray(d) /\ Ready(d) THEN Pushed(d, Open("object"))
    ELSE Stuck(d)

\* "key": [
Arr(d, key) ==
    IF d.ok /\ InObject(d) /\ Ready(d) THEN Pushed(d, Open(key)) ELSE Stuck(d)

\* Members of an object whose values are the scalars vs.
Members(d, vs) ==
    IF d.ok /\ InObject(d) /\ Ready(d) THEN [d EXCEPT !.stack = ItemRead(d, vs)] ELSE Stuck(d)

\* A whole flat object {...} as an item of an array.
Item(d) ==
    IF d.ok /\ InArray(d) /\ Ready(d) THEN [d EXCEPT !.stack = ItemRead(d, <<>>)] ELSE Stuck(d)

Comma(d) ==
    IF d.ok /\ Depth(d) > 0 /\ Top(d).at = "after"
    THEN [d EXCEPT !.stack = Move(d, "comma", <<>>)]
    ELSE Stuck(d)

EndArr(d) ==
    IF d.ok /\ InArray(d) /\ Top(d).at # "comma" THEN [d EXCEPT !.stack = Popped(d)] ELSE Stuck(d)

EndObj(d) ==
    IF d.ok /\ InObject(d) /\ Top(d).at # "comma"
    THEN IF Depth(d) = 1
         THEN [ok |-> TRUE, done |-> TRUE, stack |-> <<>>,
               tests |-> d.tests, suite |-> Top(d).vals]
         ELSE [ok |-> TRUE, done |-> d.done, stack |-> Popped(d),
               tests |-> TestsRead(d), suite |-> d.suite]
    ELSE Stuck(d)
=============================================================================
