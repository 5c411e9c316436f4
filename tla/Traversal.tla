----------------------------- MODULE Traversal -----------------------------
(***************************************************************************)
(* Sets of elements in jQuery (jquery-1.8.0.js, 97-288 and 5142-5436): the *)
(* page's scripts make them with selectors and go on from there, while the *)
(* page changes in between.                                                *)
(***************************************************************************)
EXTENDS Sizzle

CONSTANTS Pages, Asks, MostCalls,  \* bounds: the first pages, what scripts ask, how often
          Changing, Classes         \* and what they change: elements that move, classes

VARIABLES sets,   \* the set a script has come to, and those it came from (prevObject)
          asked,  \* the last call: [op, sel, back], back = what it returned if not a set
          calls   \* bound: how many calls there were

vars == <<page, engine, sets, asked, calls>>
Nothing == [op |-> "none", sel |-> <<>>, back |-> 0]

Init == /\ \E pg \in Pages : page = LaidOut(pg, pg.kids)
        /\ engine = Started
        /\ sets = <<Under(Doc)>> /\ asked = Nothing /\ calls = 0

This == Last(sets)
From == sets[Len(sets) - 1]
Called(op, sel, back) == /\ calls < MostCalls /\ calls' = calls + 1
                         /\ asked' = [op |-> op, sel |-> sel, back |-> back]
(* pushStack(): the set a call returns, and the engine it leaves.          *)
NewSet(op, sel, r, from) == /\ Called(op, sel, 0) /\ sets' = Append(from, r.results) /\ engine' = r.s
                            /\ UNCHANGED page
PushStack(op, sel, r) == NewSet(op, sel, r, sets)
Returns(op, sel, value, s) == /\ Called(op, sel, value) /\ engine' = s /\ UNCHANGED <<page, sets>>

-----------------------------------------------------------------------------
(* find(): the results of every element, without those it has.             *)
Fresh(q, n) ==   \* q without the elements after the n-th that are among the first n
  FoldLeft(LAMBDA kept, e : IF Contains(SubSeq(q, 1, n), e) THEN kept ELSE Append(kept, e),
           SubSeq(q, 1, n), SubSeq(q, n + 1, Len(q)))
Joined(more, n, first) == IF first THEN more ELSE Results(Fresh(more.results, n), more.s)
FindIn(q, sel, s) ==
  FoldLeft(LAMBDA r, i : Joined(Query(sel, q[i], r.results, NoSeed, r.s), Len(r.results), i = 1),
           Results(<<>>, s), [i \in DOMAIN q |-> i])
(* jQuery(selector): an id at once, all else from the document.            *)
JQuery(sel, s) == IF Len(sel) = 1 /\ Len(sel[1]) = 1 /\ sel[1][1].part = "ID"
                  THEN Results(ById(sel[1][1].name), s) ELSE FindIn(<<Doc>>, sel, s)

(* jQuery.filter(), winnow(): a simple selector is negated in its text.    *)
Whether(m, q) == Results(IF m.ok THEN q ELSE <<>>, m.s)
FilterOf(sel, q, not, s) ==
  LET expr == IF not THEN <<<<[Token("PSEUDO", "not") EXCEPT !.arg = sel]>>>> ELSE sel
  IN  IF Len(q) = 1 THEN Whether(MatchesSelector(q[1], expr, s), q) ELSE MatchesOf(expr, q, s)
IsSimple(sel) == /\ Len(sel) = 1 /\ sel[1][1].arg = <<>>
                 /\ \A k \in 2..Len(sel[1]) : sel[1][k].part \in Relative \cup {"TAG"}
Grep(r, q, keep) == Results(SelectSeq(q, LAMBDA e : Contains(r.results, e) = keep), r.s)
Winnow(q, sel, keep, s) ==
  IF IsSimple(sel) THEN FilterOf(sel, q, ~keep, s) ELSE Grep(FilterOf(sel, q, FALSE, s), q, keep)

Unique(q) == IF Len(q) > 1 THEN UniqueSort(q) ELSE q
NeedsContext(sel) == Starts(sel[1], Relative \ {" "}) \/ Uses(sel, HoldsPOS)

(* closest(): up from each element.                                        *)
RECURSIVE Climb(_, _, _)
Reached(m, way, sel) == IF m.ok THEN Results(<<Head(way)>>, m.s) ELSE Climb(Tail(way), sel, m.s)
Climb(way, sel, s) ==
  IF way = <<>> THEN Results(<<>>, s) ELSE Reached(MatchesSelector(Head(way), sel, s), way, sel)
FirstOf(way, q) == LET in == SelectSeq(way, LAMBDA a : Contains(q, a))
                   IN  IF in = <<>> THEN <<>> ELSE <<in[1]>>
FirstAmong(pos, q) ==
  Results(FlattenSeq([i \in DOMAIN q |-> FirstOf(<<q[i]>> \o Above(q[i]), pos.results)]), pos.s)
Plus(r, more) == Results(r.results \o more.results, more.s)
AllUnique(r) == Results(Unique(r.results), r.s)
ClosestTo(q, sel, s) ==
  AllUnique(IF NeedsContext(sel) THEN FirstAmong(JQuery(sel, s), q)
            ELSE FoldLeft(LAMBDA r, e : Plus(r, Climb(<<e>> \o Above(e), sel, r.s)), Results(<<>>, s), q))

-----------------------------------------------------------------------------
(* is(): a position is looked for in the whole context of the set; that of *)
(* jQuery(element) is the element, so that it is not among the results.    *)
FirstIsIn(r, q) == Answer(q # <<>> /\ Contains(r.results, q[1]), r.s)
Matching(q, sel, context, s) ==
  IF NeedsContext(sel) THEN FirstIsIn(FindIn(<<context>>, sel, s), q)
  ELSE AnyFound(FilterOf(sel, q, FALSE, s))

(* The relatives of an element: jQuery.dir() and jQuery.sibling(), up to   *)
(* an element that fits the selector, or the first.                        *)
RECURSIVE Until(_, _, _)
UpTo(m, way, sel) == IF m.ok THEN Results(<<>>, m.s)
                     ELSE Plus(Results(<<Head(way)>>, m.s), Until(Tail(way), sel, m.s))
Until(way, sel, s) ==
  IF way = <<>> THEN Results(<<>>, s) ELSE UpTo(Matching(<<Head(way)>>, sel, Head(way), s), way, sel)

Ways == {"parents", "nextAll", "prevAll"}
Untils == {"parentsUntil", "nextUntil", "prevUntil"}
Relatives == Ways \cup Untils \cup {"parent", "next", "prev", "siblings", "children"}
GuaranteedUnique == {"children", "next", "prev"}
Reversed == {"parents", "parentsUntil", "prevAll", "prevUntil"}
Direction(op, e) == CASE op \in {"parent", "parents", "parentsUntil"} -> Above(e)
                      [] op \in {"next", "nextAll", "nextUntil"} -> LaterSiblings(e)
                      [] op \in {"prev", "prevAll", "prevUntil"} -> EarlierSiblings(e)
                      [] op = "siblings" -> SelectSeq(Siblings(e), LAMBDA d : d # e)
                      [] op = "children" -> page.kids[e]
RelativesOf(op, e, until, s) ==
  IF op \in Untils THEN Until(Direction(op, e), until, s)
  ELSE LET way == Direction(op, e)
       IN  Results(IF op \in {"next", "prev", "parent"} /\ way # <<>> THEN <<way[1]>> ELSE way, s)
Narrowed(r, op, sel) == IF op \in Untils \/ sel = <<>> THEN r ELSE FilterOf(sel, r.results, FALSE, r.s)
Arranged(r, op, several) ==
  LET once == IF several /\ op \notin GuaranteedUnique THEN UniqueSort(r.results) ELSE r.results
  IN  Results(IF several /\ op \in Reversed THEN Reverse(once) ELSE once, r.s)
AllRelatives(q, op, sel, s) ==
  Arranged(Narrowed(FoldLeft(LAMBDA r, e : Plus(r, RelativesOf(op, e, sel, r.s)), Results(<<>>, s), q),
                    op, sel), op, Len(q) > 1)

-----------------------------------------------------------------------------
(* The calls of a script.                                                  *)
Dollar(sel) == NewSet("$", sel, JQuery(sel, engine), <<>>)
Find(sel) == PushStack("find", sel, FindIn(This, sel, engine))
FilterBy(sel) == PushStack("filter", sel, Winnow(This, sel, TRUE, engine))
Not(sel) == PushStack("not", sel, Winnow(This, sel, FALSE, engine))
Holding(targets, q) ==
  Results(SelectSeq(q, LAMBDA e : \E i \in DOMAIN targets.results : Inside(e, targets.results[i])),
          targets.s)
Has(sel) == PushStack("has", sel, Holding(FindIn(This, sel, engine), This))
Told(op, sel, m) == Returns(op, sel, IF m.ok THEN 1 ELSE 0, m.s)
IsIt(sel) == Told("is", sel, Matching(This, sel, Doc, engine))
Closest(sel) == PushStack("closest", sel, ClosestTo(This, sel, engine))
Added(r, q) == Results(IF r.results = <<>> THEN q ELSE UniqueSort(q \o r.results), r.s)
Add(sel) == PushStack("add", sel, Added(JQuery(sel, engine), This))
AddBack == /\ Len(sets) > 1
           /\ PushStack("addBack", <<>>,
                        Results(IF From = <<>> THEN This ELSE UniqueSort(This \o From), engine))
End == /\ Len(sets) > 1 /\ Called("end", <<>>, 0) /\ sets' = Front(sets)
       /\ UNCHANGED <<page, engine>>
IndexOf == Returns("index", <<>>, IF This = <<>> THEN -1
                                  ELSE Len(AllRelatives(This, "prevAll", <<>>, engine).results), engine)
(* The document itself stays out of the sets: no parent() of its child, no *)
(* end() before the first set.                                             *)
Relate(op, sel) == /\ op = "parent" => \A i \in DOMAIN This : Parent(This[i]) # Doc
                   /\ PushStack(op, sel, AllRelatives(This, op, sel, engine))

(* The page changes: a class comes or goes, an element moves to the end of *)
(* another.                                                                *)
Changes(new) == /\ calls < MostCalls /\ calls' = calls + 1 /\ page' = new /\ asked' = Nothing
                /\ UNCHANGED <<engine, sets>>
ToggleClass(e, c) ==
  Changes([page EXCEPT !.class[e] = IF c \in @ THEN @ \ {c} ELSE @ \cup {c}])
AppendTo(e, p) ==
  /\ p # e /\ ~Inside(e, p)
  /\ LET without == [n \in Nodes |-> SelectSeq(page.kids[n], LAMBDA d : d # e)]
     IN  Changes(LaidOut(page, [without EXCEPT ![p] = Append(@, e)]))

Asked(op) == {ask[2] : ask \in {x \in Asks : x[1] = op}}
Next == \/ \E sel \in Asked("$") : Dollar(sel)
        \/ \E sel \in Asked("find") : Find(sel)
        \/ \E sel \in Asked("filter") : FilterBy(sel)
        \/ \E sel \in Asked("not") : Not(sel)
        \/ \E sel \in Asked("has") : Has(sel)
        \/ \E sel \in Asked("is") : IsIt(sel)
        \/ \E sel \in Asked("closest") : Closest(sel)
        \/ \E sel \in Asked("add") : Add(sel)
        \/ \E op \in Relatives : \E sel \in Asked(op) : Relate(op, sel)
        \/ AddBack \/ End \/ IndexOf
        \/ \E e \in Changing, c \in Classes : ToggleClass(e, c)
        \/ \E e \in Changing, p \in Elems : AppendTo(e, p)
Spec == Init /\ [][Next]_vars

-----------------------------------------------------------------------------
(* The elements a call means, given those of the set it was made on.       *)
Fitting(sel, S) == {e \in S : FitsOne(sel, e, Doc)}
Near(op, e) ==
  CASE op \in {"parent", "parents", "parentsUntil"} -> {a \in Elems : Inside(a, e)}
    [] op \in {"next", "nextAll", "nextUntil"} -> {d \in ToSet(Siblings(e)) : Place(d) > Place(e)}
    [] op \in {"prev", "prevAll", "prevUntil"} -> {d \in ToSet(Siblings(e)) : Place(d) < Place(e)}
    [] op = "siblings" -> ToSet(Siblings(e)) \ {e}
    [] op = "children" -> {d \in Elems : Parent(d) = e}
OrderOf(d) == CHOOSE i \in DOMAIN Under(Doc) : Under(Doc)[i] = d
Between(op, d, e) ==
  {x \in Near(op, e) :
     IF OrderOf(d) < OrderOf(e) THEN OrderOf(x) > OrderOf(d) ELSE OrderOf(x) < OrderOf(d)}
RelativesMeant(op, sel, e) ==
  CASE op \in Untils -> {d \in Near(op, e) : Fitting(sel, Between(op, d, e) \cup {d}) = {}}
    [] op \in {"parent", "next", "prev"} -> {d \in Near(op, e) : Between(op, d, e) = {}}
    [] OTHER -> Near(op, e)

(* With a position at the end of a group, or between two.                  *)
Placed(g) ==
  LET at == CHOOSE k \in DOMAIN g : HoldsPOS(g[k])
      part == SubSeq(g, 1, at - 1)
      rest == SubSeq(g, at + 1, Len(g))
      whole == IF part = <<>> THEN <<Token("TAG", "*")>> ELSE part
      placed == SetFilter(Position(g[at]), Meant(<<whole>>, Doc), g[at].part # "POS")
  IN  IF rest = <<>> THEN ToSet(placed) ELSE UNION {ToSet(Meant(<<rest>>, e)) : e \in ToSet(placed)}
InDocument(sel) ==
  UNION {IF Uses(<<g>>, HoldsPOS) THEN Placed(g) ELSE ToSet(Meant(<<g>>, Doc)) : g \in ToSet(sel)}
Inner(sel, S) == UNION {ToSet(Meant(sel, e)) : e \in S}

Meaning(op, sel, S, back) ==
  CASE op = "$" -> InDocument(sel)
    [] op = "find" -> Inner(sel, S)
    [] op = "filter" -> Fitting(sel, S)
    [] op = "not" -> S \ Fitting(sel, S)
    [] op = "has" -> {e \in S : \E d \in Inner(sel, S) : Inside(e, d)}
    [] op = "closest" -> {a \in Elems : \E e \in S :
                            LET fit == Fitting(sel, {e} \cup Near("parents", e))
                            IN  a \in fit /\ \A x \in fit \ {a} : Inside(x, a)}
    [] op = "add" -> S \cup InDocument(sel)
    [] op = "addBack" -> S \cup back
    [] op \in Relatives -> LET near == UNION {RelativesMeant(op, sel, e) : e \in S}
                           IN  IF sel = <<>> \/ op \in Untils THEN near ELSE Fitting(sel, near)

(* What the engine is not up to: counting children, whose numbers go stale *)
(* and are overwritten by other marks; a query within a query, unless it is*)
(* for a tag; :not() of more than one element, or below an element, and    *)
(* what it negates as a selector of its own, for they share their marks;   *)
(* more of an element than its id when what is looked for is below it; and *)
(* a position in anything but jQuery(selector).                            *)
Plain(t) == /\ ~IsNth(t)
            /\ t.name \in {"not", "has"} => Len(t.arg) = 1 /\ Len(t.arg[1]) = 1
            /\ t.name = "has" => t.arg[1][1].part = "TAG"
TokensOf(sel) == UNION {ToSet(sel[i]) : i \in DOMAIN sel}
Negated ==
  {t.arg : t \in {u \in UNION {TokensOf(ask[2]) : ask \in Asks} : u.name = "not"}}
    \cup {sel \in Asked("not") : IsSimple(sel) /\ Len(sel[1]) > 1}
Steady(op, sel) ==
  /\ sel \notin Negated
  /\ ~Uses(sel, LAMBDA t : ~Plain(t))
  /\ Uses(sel, LAMBDA t : t.name = "not") =>
       op \notin {"find", "has"} /\ \A i \in DOMAIN sel : ~Rooted(sel[i])
  /\ \A i \in DOMAIN sel : Rooted(sel[i]) => FirstEnd(sel[i]) = 1
  /\ Uses(sel, HoldsPOS) => op = "$"

Once(q) == \A i, j \in DOMAIN q : q[i] = q[j] => i = j
Sorted(q) == \A i, j \in DOMAIN q : i < j => OrderOf(q[i]) < OrderOf(q[j])

(* However often the page has changed, whatever has been asked before and  *)
(* has left marks and compiled selectors, a set holds the elements its     *)
(* call means, each once, in document order where the call sorts them.     *)
Answered ==
  asked.op # "none" /\ Steady(asked.op, asked.sel) =>
    CASE asked.op = "is" -> asked.back = 1 <=> Fitting(asked.sel, ToSet(This)) # {}
      [] asked.op = "index" -> Len(This) = 1 => asked.back = Place(This[1]) - 1
      [] asked.op = "end" -> TRUE
      [] OTHER ->
           LET S == IF asked.op = "$" THEN {} ELSE ToSet(From)
               back == IF asked.op = "addBack" THEN ToSet(sets[Len(sets) - 2]) ELSE {}
           IN  /\ ToSet(This) = Meaning(asked.op, asked.sel, S, back) /\ Once(This)
               /\ asked.op \in {"$", "closest", "siblings"} => Sorted(This)
               /\ asked.op \in {"add", "addBack"} => Sorted(This) \/ This = From
               /\ asked.op \in Reversed => Sorted(Reverse(This))
=============================================================================
