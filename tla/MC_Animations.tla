--------------------------- MODULE MC_Animations ----------------------------
(* What users do to one or two elements; or else what a script asks of the *)
(* page, in the states without a setting.                                  *)
EXTENDS Animations, TLC

CONSTANTS slide, box, doc, html, main, intro, quote, leaf

VARIABLES document, engine, sets, query, queries   \* those of Traversal
script == <<document, engine, sets, query, queries>>
MCHome(n) == n * 60

Hovers == [scripts |-> {Hover(n, 1) : n \in 0..2}, calls |-> 3]

Wait(e) == Speed("delay", e, 0, 0, TRUE, <<>>)
Beside(e, ticks, then) == Speed("move", e, 7, ticks, FALSE, then)
Halt(e, end) == [op |-> "stop", e |-> e, end |-> end]
Asks == <<[op |-> "promise"]>>

(* Callbacks that animate and wait; users that stop, to the end as well.   *)
Chains ==
  [scripts |-> {<<Move(slide, 1, 2, <<Move(box, 2, 1, <<Move(slide, 3, 0, <<>>)>>), Wait(box)>>)>>,
                <<Move(box, 1, 0, <<Wait(box)>>), Move(box, 2, 1, <<>>)>>,
                <<Halt(slide, TRUE)>>, <<Halt(slide, FALSE)>>, <<Halt(box, TRUE)>>,
                <<Beside(slide, 1, <<Move(slide, 3, 1, <<>>)>>)>>,
                <<Beside(box, 0, <<>>)>>, Asks},
   calls |-> 3]
(* Callbacks that stop the other element.                                  *)
Stops ==
  [scripts |-> {<<Move(slide, 1, 1, <<Halt(box, FALSE)>>)>>, <<Move(box, 1, 2, <<Halt(slide, FALSE)>>)>>,
                <<Move(box, 2, 1, <<>>)>>, <<Wait(slide), Move(slide, 4, 2, <<>>)>>},
   calls |-> 4]
Looks ==
  [scripts |-> {<<ShowHide(k, slide, 2)>> : k \in {"show", "hide", "toggle"}}
                 \cup {<<Halt(slide, b)>> : b \in BOOLEAN} \cup {<<ShowHide("toggle", slide, 0)>>},
   calls |-> 4]
Asking == [scripts |-> {}, calls |-> 0]
MCSettings == {Hovers, Chains, Stops, Looks, Asking}

-----------------------------------------------------------------------------
(* A page of five elements, with and without querySelectorAll, and the     *)
(* calls of its script, some of them beside the intent, to leave marks.    *)
Token(part, name, arg, a, b) ==
  [part |-> part, name |-> name, arg |-> arg, first |-> a, last |-> b, done |-> 0]
T(part, name) == Token(part, name, <<>>, 0, 0)
P == T("TAG", "p")
A == T("CLASS", "a")
B == T("CLASS", "b")
Main == T("ID", "main")
Below == T(" ", "")
Right(part) == T(part, "")
Position(name, n) == Token("POS", name, <<>>, n, 0)
Pseudo(name, g) == Token("PSEUDO", name, <<g>>, 0, 0)
Odd == Token("CHILD", "nth", <<>>, 2, 1)

MCPages ==
  {[kids |-> doc :> <<html>> @@ html :> <<main>> @@ main :> <<intro, quote>> @@ intro :> <<>>
             @@ quote :> <<leaf>> @@ leaf :> <<>>,
    tag |-> html :> "html" @@ main :> "div" @@ intro :> "p" @@ quote :> "p" @@ leaf :> "p",
    id |-> html :> "" @@ main :> "main" @@ intro :> "" @@ quote :> "" @@ leaf :> "",
    class |-> html :> {} @@ main :> {} @@ intro :> {"a"} @@ quote :> {"b"} @@ leaf :> {"a"},
    modern |-> modern] : modern \in BOOLEAN}

InA == <<<<A, Below, P>>>>
EitherWay == <<<<B, Below, A>>, <<P, Right("~"), P>>>>
MCAsks ==
  ({"$"} \X {InA, EitherWay, <<<<Main>>>>, <<<<Main, Below, A>>>>, <<<<P, Position("first", 0)>>>>,
             <<<<P, Position("gt", 0), Below, P>>>>, <<<<P, Odd, Right("~"), P>>>>,
             <<<<P, Pseudo("not", <<Position("first", 0)>>)>>>>, <<<<P, Position("eq", 1)>>, <<A>>>>})
    \cup ({"find"} \X {<<<<A>>>>, <<<<Right(">"), P>>>>, <<<<P, Right("~"), P>>>>, InA})
    \cup ({"filter"} \X {EitherWay, <<<<P, Pseudo("not", <<B>>)>>>>, <<<<P, Pseudo("has", <<P>>)>>>>,
                         <<<<A, Right("~"), P, Pseudo("has", <<Right(">"), P>>)>>>>})
    \cup ({"not"} \X {EitherWay, <<<<A>>>>, <<<<P, T("CHILD", "first")>>>>})
    \cup ({"is"} \X {InA, <<<<P, Position("first", 0)>>>>})
    \cup ({"has"} \X {<<<<A>>>>}) \cup ({"add"} \X {EitherWay})
    \cup ({"closest"} \X {InA, <<<<A, Position("last", 0)>>>>})
    \cup ({"parents", "nextAll", "nextUntil", "prevUntil", "parentsUntil"} \X {<<<<A>>>>})
    \cup ({"parent", "next", "prev", "siblings", "children", "prevAll"} \X {<<>>})

Q == INSTANCE Traversal WITH
       Doc <- doc, Elems <- {html, main, intro, quote, leaf}, CacheLength <- 6,
       Pages <- MCPages, Asks <- MCAsks, MostCalls <- 3,
       Changing <- {intro, quote}, Classes <- {"a"}, page <- document, asked <- query, calls <- queries

MCInit == /\ Init /\ Q!Init
          /\ setting # {} => ~document.modern
MCNext == \/ Next /\ UNCHANGED script
          \/ setting = {} /\ Q!Next /\ UNCHANGED vars
MCSpec == MCInit /\ [][MCNext]_<<vars, script>> /\ WF_vars(Run) /\ WF_vars(Tick) /\ WF_vars(TimeOuts)

(* What a script is told of the page is what its calls mean: see Answered  *)
(* in module Traversal.                                                    *)
AnswersMeant == Q!Answered
=============================================================================
