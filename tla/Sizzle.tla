------------------------------- MODULE Sizzle -------------------------------
(***************************************************************************)
(* jQuery's selector engine (jquery-1.8.0.js, Sizzle).  A selector is its  *)
(* groups, a group its tokens.  Elements are matched from the right; what  *)
(* has been found out of an ancestor or of an earlier sibling is left on   *)
(* it as a mark for the elements tried next, and compiled selectors are    *)
(* kept for the next query: the operators take this state of the engine    *)
(* as s and return it with the answer.                                     *)
(***************************************************************************)
EXTENDS Integers, Sequences, FiniteSets, SequencesExt, TLC

CONSTANTS Doc, Elems,     \* the document, its elements
          CacheLength     \* Expr.cacheLength

VARIABLES page,    \* [kids, tag, id, class, modern]: modern browsers have
                   \* querySelectorAll, matchesSelector, getElementsByClassName
          engine   \* [done, marks, cache, recent, dirruns, cachedruns]

Nodes == Elems \cup {Doc}
Unmarked == [key |-> <<>>, size |-> 0]
Started == [done |-> 0, marks |-> [n \in Nodes |-> Unmarked], cache |-> {}, recent |-> <<>>,
            dirruns |-> 0, cachedruns |-> 0]

-----------------------------------------------------------------------------
(* The document.  Elements move about in it and do not leave it.  What     *)
(* follows from the children of each node is kept with the page.           *)
RECURSIVE Descend(_, _)
Descend(kids, n) ==
  FlattenSeq([i \in DOMAIN kids[n] |-> <<kids[n][i]>> \o Descend(kids, kids[n][i])])
LaidOut(pg, kids) ==
  LET under == [n \in Nodes |-> Descend(kids, n)]
      parent == [e \in Elems |-> CHOOSE n \in Nodes : Contains(kids[n], e)]
  IN  [kids |-> kids, under |-> under, parent |-> parent,
       above |-> [e \in Elems |-> Reverse(SelectSeq(under[Doc], LAMBDA a : Contains(under[a], e)))],
       tag |-> pg.tag, id |-> pg.id, class |-> pg.class, modern |-> pg.modern]

Parent(e) == page.parent[e]
Above(e) == page.above[e]
Under(n) == page.under[n]
Inside(outer, n) == Contains(Under(outer), n)
Siblings(e) == page.kids[Parent(e)]
Place(e) == CHOOSE i \in DOMAIN Siblings(e) : Siblings(e)[i] = e
EarlierSiblings(e) == Reverse(SubSeq(Siblings(e), 1, Place(e) - 1))
LaterSiblings(e) == SubSeq(Siblings(e), Place(e) + 1, Len(Siblings(e)))

(* The token of a selector.                                                *)
Token(part, name) == [part |-> part, name |-> name, arg |-> <<>>, first |-> 0, last |-> 0, done |-> 0]
Relative == {">", " ", "+", "~"}
Nearest == {">", "+"}
Sibling == {"+", "~"}
Way(part, e) == IF part \in Sibling THEN EarlierSiblings(e) ELSE Above(e)

Starts(g, parts) == g # <<>> /\ g[1].part \in parts
Ends(g, parts) == g # <<>> /\ Last(g).part \in parts
Uses(sel, Test(_)) == \E i \in DOMAIN sel : \E k \in DOMAIN sel[i] : Test(sel[i][k])

(* rtrim: white space at the ends would be a combinator.                   *)
Trimmed(g) == LET h == IF Starts(g, {" "}) THEN Tail(g) ELSE g
              IN  IF Ends(h, {" "}) THEN Front(h) ELSE h
Trim(sel) == [i \in DOMAIN sel |-> Trimmed(sel[i])]

(* tokenize(): a group is looked for under an element, not under the       *)
(* document; a group that begins with a combinator already says where.     *)
Tokenize(g, context) ==
  IF context # Doc /\ ~Starts(g, Relative) THEN <<Token(" ", "")>> \o g ELSE g

-----------------------------------------------------------------------------
(* The tests that look at an element only.                                 *)
Simple(t, e) ==
  CASE t.part = "ID" -> page.id[e] = t.name
    [] t.part = "TAG" -> t.name = "*" \/ page.tag[e] = t.name
    [] t.part = "CLASS" -> t.name \in page.class[e]
    [] t.part = "CHILD" -> /\ t.name \in {"first", "only"} => EarlierSiblings(e) = <<>>
                           /\ t.name \in {"last", "only"} => LaterSiblings(e) = <<>>
    [] t.name = "empty" -> page.kids[e] = <<>>
    [] t.name = "parent" -> page.kids[e] # <<>>

IsNth(t) == t.part = "CHILD" /\ t.name = "nth"
Counts(t, place) ==
  LET diff == place - t.last
  IN  IF t.first = 0 THEN diff = 0 ELSE \E k \in 0..Cardinality(Elems) : diff = k * t.first

(* What a selector means, whatever the engine does: whether e is the end   *)
(* of the first n tokens of g, looked for from context; and the elements   *)
(* that a selector names, in document order.                               *)
RECURSIVE Fits(_, _, _, _)
Is(t, e) ==
  CASE t.name = "not" -> \A i \in DOMAIN t.arg : ~Fits(t.arg[i], Len(t.arg[i]), e, Doc)
    [] t.name = "has" -> \E i \in DOMAIN t.arg, d \in Elems :
                            /\ Contains(Under(e), d)
                            /\ LET g == Tokenize(t.arg[i], e) IN Fits(g, Len(g), d, e)
    [] IsNth(t) -> Counts(t, Place(e))
    [] OTHER -> Simple(t, e)
Fits(g, n, e, context) ==
  IF n = 0 THEN TRUE
  ELSE IF g[n].part \notin Relative THEN Is(g[n], e) /\ Fits(g, n - 1, e, context)
  ELSE LET way == Way(g[n].part, e)
       IN  \E i \in DOMAIN way :
              /\ g[n].part \in Nearest => i = 1
              /\ IF n = 1 THEN way[i] = context ELSE Fits(g, n - 1, way[i], context)
FitsOne(sel, e, context) ==
  \E i \in DOMAIN sel : LET g == Tokenize(sel[i], context) IN Fits(g, Len(g), e, context)
Meant(sel, context) == SelectSeq(Under(Doc), LAMBDA e : FitsOne(Trim(sel), e, context))

(* What querySelectorAll and matchesSelector take: no extensions of        *)
(* jQuery's, simple arguments of :not(), no combinator without its sides.  *)
Standard(t) ==
  /\ t.part # "POS" /\ t.name \notin {"has", "parent"}
  /\ t.name = "not" => /\ Len(t.arg) = 1 /\ Len(t.arg[1]) = 1
                       /\ t.arg[1][1].part \in {"ID", "TAG", "CLASS", "CHILD"}
Native(sel, context) ==
  /\ page.modern /\ sel # <<>>
  /\ \A i \in DOMAIN sel :
       /\ sel[i] # <<>> /\ \A k \in DOMAIN sel[i] : Standard(sel[i][k])
       /\ ~Ends(sel[i], Nearest \cup {"~"}) /\ Trimmed(sel[i]) # <<>>
       /\ context = Doc => ~Starts(sel[i], Nearest \cup {"~"})

-----------------------------------------------------------------------------
(* compile(): combinators and :nth-child are told apart by numbers; the    *)
(* argument of :not() is compiled with its selector.  The oldest selectors *)
(* are forgotten, by their texts.                                          *)
Numbered(t) == t.part \in Relative \/ IsNth(t)
Cached(sel, s) == {c \in s.cache : c.sel = sel}
Replace(c, old, s) == [s EXCEPT !.cache = (@ \ old) \cup {c}]
Remember(sel, context, code, s) ==
  LET compiled == [sel |-> sel, code |-> code, context |-> context, runs |-> 0, dirruns |-> 0]
      known == Replace(compiled, Cached(sel, s), s)
      recent == Append(s.recent, sel)
  IN  IF Len(recent) <= CacheLength THEN [known EXCEPT !.recent = recent]
      ELSE [known EXCEPT !.cache = @ \ Cached(Head(recent), known), !.recent = Tail(recent)]

RECURSIVE Compile(_, _, _)
AddNot(code, t, inner) == [code |-> Append(code, [t EXCEPT !.arg = inner.code]), s |-> inner.s]
ReadToken(read, t, context) ==
  IF Numbered(t)
  THEN [code |-> Append(read.code, [t EXCEPT !.done = read.s.done]),
        s |-> [read.s EXCEPT !.done = @ + 1]]
  ELSE IF t.name = "not" THEN AddNot(read.code, t, Compile(Trim(t.arg), context, read.s))
  ELSE [code |-> Append(read.code, t), s |-> read.s]
MatcherFromTokens(g, context, s) ==
  FoldLeft(LAMBDA read, t : ReadToken(read, t, context), [code |-> <<>>, s |-> s], Tokenize(g, context))
AddGroup(code, one) == [code |-> Append(code, one.code), s |-> one.s]
Compiled(read, sel, context) ==
  [code |-> read.code, s |-> Remember(sel, context, read.code, read.s)]
Compile(sel, context, s) ==
  IF \E c \in Cached(sel, s) : c.context = context
  THEN [code |-> (CHOOSE c \in Cached(sel, s) : TRUE).code, s |-> s]
  ELSE Compiled(FoldLeft(LAMBDA read, g : AddGroup(read.code, MatcherFromTokens(g, context, read.s)),
                         [code |-> <<>>, s |-> s], sel), sel, context)

(* A mark names the combinator, the run of the selector and the element    *)
(* tried; that of :nth-child, on the parent, only the token.  Of a mark    *)
(* the code compares the beginning of its text: run 1 begins run 10.       *)
KeyOfMatcher(t, s) == <<t.done, 0, s.cachedruns>>   \* Mutant: the runs share their marks.
CachedKey(t, s) == <<t.done, s.dirruns, s.cachedruns>>
SameRun(key, mine) == /\ Len(key) = 3 /\ key[1] = mine[1]
                      /\ \/ key[2] = mine[2]
                         \/ \E k \in {10, 100} : key[2] >= k /\ key[2] \div k = mine[2]
Mark(s, n, key, size) == [s EXCEPT !.marks[n] = [key |-> key, size |-> size]]
SetSize(s, n, size) == [s EXCEPT !.marks[n].size = size]

Answer(ok, s) == [ok |-> ok, s |-> s]
RECURSIVE Matches(_, _, _, _, _), Query(_, _, _, _, _)

(* Filter.CHILD, nth: the children are numbered up to the element, unless  *)
(* the parent's mark says that they are.                                   *)
NthChild(t, e, s) ==
  IF t.first = 1 /\ t.last = 0 THEN Answer(TRUE, s)
  ELSE IF s.marks[Parent(e)].key = <<t.done>> /\ s.marks[e].size # 0
  THEN Answer(Counts(t, s.marks[e].size), s)
  ELSE LET parent == Parent(e)
           counted == FoldLeft(LAMBDA r, i : SetSize(r, page.kids[parent][i], i), s,
                               [i \in 1..Place(e) |-> i])
       IN  Answer(Counts(t, Place(e)), Mark(counted, parent, <<t.done>>, counted.marks[parent].size))

(* matcherFromGroupMatchers(): the first group that matches.               *)
AnyGroup(code, e, context, s) ==
  FoldLeft(LAMBDA r, g : IF r.ok THEN r ELSE Matches(g, Len(g), e, context, r.s), Answer(FALSE, s), code)

NoSeed == [given |-> FALSE, of |-> <<>>]
Seed(q) == [given |-> TRUE, of |-> q]
Results(q, s) == [results |-> q, s |-> s]
Negation(m) == Answer(~m.ok, m.s)
AnyFound(r) == Answer(r.results # <<>>, r.s)

(* Expr.filter: the argument of :has() is another query.                   *)
Filter(t, e, context, s) ==
  CASE IsNth(t) -> NthChild(t, e, s)
    [] t.name = "not" -> Negation(AnyGroup(t.arg, e, context, s))
    [] t.name = "has" -> AnyFound(Query(t.arg, e, <<>>, NoSeed, s))
    [] OTHER -> Answer(Simple(t, e), s)

(* addCombinator(): along the ancestors or the earlier siblings; tokens    *)
(* 1 to n - 1 have to match there, or, when there are none, the context.   *)
Before(g, n, e, context, s) ==
  IF n = 1 THEN Answer(e = context, s) ELSE Matches(g, n - 1, e, context, s)
RECURSIVE Walk(_, _, _, _, _, _)
Tried(m, g, n, way, context, key) ==   \* the head of the way has been tried
  IF m.ok THEN Answer(TRUE, SetSize(m.s, Head(way), 1))
  ELSE Walk(g, n, Tail(way), context, key, SetSize(m.s, Head(way), 0))
Walk(g, n, way, context, key, s) ==
  IF way = <<>> THEN Answer(FALSE, s)
  ELSE LET e == Head(way)
           mark == s.marks[e]
       IN  IF mark.key = key THEN Answer(mark.size # 0, s)
           ELSE IF SameRun(mark.key, key)
           THEN IF mark.size # 0 THEN Answer(TRUE, s) ELSE Walk(g, n, Tail(way), context, key, s)
           ELSE Tried(Before(g, n, e, context, Mark(s, e, key, mark.size)), g, n, way, context, key)
Along(g, n, e, context, s) ==
  LET way == Way(g[n].part, e)
  IN  IF g[n].part \notin Nearest THEN Walk(g, n, way, context, CachedKey(g[n], s), s)
      ELSE IF way = <<>> THEN Answer(FALSE, s) ELSE Before(g, n, way[1], context, s)

(* addMatcher(): the last token first.                                     *)
Further(m, g, n, e, context) == IF m.ok THEN Matches(g, n - 1, e, context, m.s) ELSE m
Matches(g, n, e, context, s) ==
  IF n = 0 THEN Answer(TRUE, s)
  ELSE IF g[n].part \in Relative THEN Along(g, n, e, context, s)
  ELSE Further(Filter(g[n], e, context, s), g, n, e, context)

-----------------------------------------------------------------------------
(* Positions: setFilters, with the elements it keeps or, under :not(),     *)
(* does not keep.                                                          *)
HoldsPOS(t) == t.part = "POS" \/ (t.name = "not" /\ t.arg[1][1].part = "POS")
Position(t) == IF t.part = "POS" THEN t ELSE t.arg[1][1]
At(t, i, length) ==
  CASE t.name = "first" -> i = 0
    [] t.name = "last" -> i = length - 1
    [] t.name = "even" -> i % 2 = 0
    [] t.name = "odd" -> i % 2 = 1
    [] t.name = "lt" -> i < t.first
    [] t.name = "gt" -> i > t.first
    [] t.name \in {"eq", "nth"} -> i = t.first
SetFilter(t, q, not) ==
  LET kept == SelectSeq([i \in DOMAIN q |-> i], LAMBDA i : At(t, i - 1, Len(q)) # not)
  IN  [k \in DOMAIN kept |-> q[kept[k]]]
TakesOut(t) == t.name \in {"last", "eq", "nth"}   \* by pop() and splice()

MultipleContexts(sel, contexts, results, seed, s) ==
  FoldLeft(LAMBDA r, context : Query(sel, context, r.results, seed, r.s), Results(results, s), contexts)
FilterSet(r, t, not) == Results(SetFilter(t, r.results, not), r.s)
HandlePOSGroup(part, t, contexts, seed, not, s) ==
  FilterSet(IF part # <<>> \/ ~seed.given
            THEN MultipleContexts(<<IF part = <<>> THEN <<Token("TAG", "*")>> ELSE part>>,
                                  contexts, <<>>, seed, s)
            ELSE Results(seed.of, s), t, not)

(* One group: up to each position in turn, then what is left of it.  With  *)
(* nothing before a position, the filter takes its elements out of the     *)
(* caller's own array.                                                     *)
Anchor(r, p, seed) == [anchor |-> p, elements |-> Seed(r.results), s |-> r.s, seed |-> seed]
UpToPosition(r, g, p, context) ==
  LET t == Position(g[p])
      not == g[p].part # "POS"
      text == SubSeq(g, r.anchor + 1, p - 1)
      further == Starts(text, Relative)
      part == IF not /\ further THEN <<text[1], Token("TAG", "*")>> \o Tail(text) ELSE text
      contexts == IF further /\ r.elements.given THEN r.elements.of ELSE <<context>>
  IN  Anchor(HandlePOSGroup(part, t, contexts, IF further THEN r.seed ELSE r.elements, not, r.s), p,
             IF r.anchor = 0 /\ part = <<>> /\ r.seed.given /\ TakesOut(t)
             THEN Seed(SetFilter(t, r.seed.of, TRUE)) ELSE r.seed)
WithSeed(r, seed) == [results |-> r.results, s |-> r.s, seed |-> seed]
AfterPositions(r, g, context, results) ==
  LET rest == SubSeq(g, r.anchor + 1, Len(g))
      further == r.elements.given /\ Starts(rest, Relative)
      seed == IF further \/ ~r.elements.given THEN r.seed
              ELSE Seed(IF r.seed.given THEN r.seed.of \o r.elements.of ELSE r.elements.of)
  IN  WithSeed(IF r.elements.given /\ rest = <<>> THEN Results(results \o r.elements.of, r.s)
               ELSE MultipleContexts(<<rest>>, IF further THEN r.elements.of ELSE <<context>>,
                                     results, seed, r.s), r.seed)
POSGroup(g, context, results, seed, s) ==
  AfterPositions(FoldLeft(LAMBDA r, p : UpToPosition(r, g, p, context),
                          [anchor |-> 0, elements |-> seed, seed |-> seed, s |-> s],
                          SelectSeq([i \in DOMAIN g |-> i], LAMBDA i : HoldsPOS(g[i]))),
                 g, context, results)

(* uniqueSort(): document order, each element once.                        *)
UniqueSort(q) == SelectSeq(Under(Doc), LAMBDA e : Contains(q, e))
AllGroups(r, sel) == Results(IF Len(sel) = 1 THEN r.results ELSE UniqueSort(r.results), r.s)
HandlePOS(sel, context, results, seed, s) ==
  AllGroups(FoldLeft(LAMBDA r, g : POSGroup(g, context, r.results, r.seed, r.s),
                     [results |-> results, s |-> s, seed |-> seed], sel), sel)

-----------------------------------------------------------------------------
(* select(), without querySelectorAll.  It runs the compiled selector over *)
(* elements that the browser finds by the last token's id, class or tag.   *)
Tested(m, e, results) == Results(IF m.ok THEN Append(results, e) ELSE results, m.s)
RunMatcher(c, sel, context, elements, results) ==
  LET kept == Cached(sel, c.s)
      old == IF kept = {} THEN [runs |-> 0, dirruns |-> 0] ELSE CHOOSE x \in kept : TRUE
      counted == IF kept = {} THEN c.s
                 ELSE Replace([old EXCEPT !.runs = @ + Len(elements), !.dirruns = @ + 1], kept, c.s)
  IN  FoldLeft(LAMBDA r, i : Tested(AnyGroup(c.code, elements[i], context,
                                             [r.s EXCEPT !.cachedruns = old.runs + i - 1]),
                                    elements[i], r.results),
               Results(results, [counted EXCEPT !.dirruns = old.dirruns]), [i \in DOMAIN elements |-> i])
Run(sel, context, elements, results, s) ==
  RunMatcher(Compile(sel, context, s), sel, context, elements, results)

ById(id) == SelectSeq(Under(Doc), LAMBDA e : page.id[e] = id)
Order == IF page.modern THEN {"ID", "CLASS", "TAG"} ELSE {"ID", "TAG"}
Around(context, siblings) == IF siblings /\ context # Doc THEN Parent(context) ELSE context
Everything(sel, context) == Under(Around(context, Uses(sel, LAMBDA t : t.part \in Sibling)))

(* The tokens behind the last combinator, or that combinator.              *)
LastStart(g) == LET at == {i \in DOMAIN g : g[i].part \in Relative}
                    k == IF at = {} THEN 0 ELSE CHOOSE i \in at : \A j \in at : j <= i
                IN  IF k = Len(g) THEN k ELSE k + 1
FirstEnd(g) == LET at == {i \in DOMAIN g : g[i].part \in Relative}
               IN  IF at = {} THEN Len(g) ELSE (CHOOSE i \in at : \A j \in at : i <= j) - 1

(* A selector of one group.  Ids are looked up in the document only.       *)
SelectGroup(g, context, results, s) ==
  LET start == LastStart(g)
      t == g[start]
      findContext == Around(context, Starts(g, Sibling))
      lookedUp == t.part \in Order /\ (t.part = "ID" => findContext = Doc)
      whole == \A k \in start..Len(g) : g[k].name # "not"
      found == SelectSeq(Under(findContext), LAMBDA e : Simple(t, e))
      rest == IF lookedUp /\ whole THEN RemoveAt(g, start) ELSE g
  IN  IF rest = <<>> THEN Results(results \o found, s)
      ELSE Run(<<rest>>, context, IF lookedUp THEN found ELSE Everything(<<rest>>, context), results, s)
Rooted(g) == Starts(g, {"ID"}) /\ Len(g) > FirstEnd(g)
OldSelect(text, context, results, seed, s) ==
  LET sel == Trim(text)
      rooted == context = Doc /\ Rooted(sel[1])
      roots == IF rooted THEN ById(sel[1][1].name) ELSE <<context>>
  IN  IF Uses(sel, HoldsPOS) THEN HandlePOS(sel, context, results, seed, s)
      ELSE IF sel = <<<<>>>> THEN Results(results, s)
      ELSE IF seed.given \/ Len(sel) # 1
      THEN Run(sel, context, IF seed.given THEN seed.of ELSE Everything(sel, context), results, s)
      ELSE IF roots = <<>> THEN Results(results, s)
      ELSE SelectGroup(IF rooted THEN SubSeq(sel[1], FirstEnd(sel[1]) + 1, Len(sel[1])) ELSE sel[1],
                       roots[1], results, s)

(* select(), with querySelectorAll where the browser has it and takes the  *)
(* selector; an element's own id stands for it in the text.                *)
Select(sel, context, results, seed, s) ==
  IF ~seed.given /\ Native(sel, context) THEN Results(results \o Meant(sel, context), s)
  ELSE OldSelect(sel, context, results, seed, s)

(* Sizzle(): one id, tag or class at once.                                 *)
Quick(sel, context) ==
  /\ Len(sel) = 1 /\ Len(sel[1]) = 1 /\ sel[1][1].name # "*"
  /\ sel[1][1].part \in Order
  /\ sel[1][1].part = "ID" /\ context # Doc =>
       LET found == ById(sel[1][1].name) IN \E i \in DOMAIN found : Inside(context, found[i])
Query(sel, context, results, seed, s) ==
  IF ~seed.given /\ Quick(sel, context)
  THEN Results(results \o SelectSeq(Under(context), LAMBDA e : Simple(sel[1][1], e)), s)
  ELSE Select(sel, context, results, seed, s)

(* matches() and matchesSelector().                                        *)
MatchesOf(sel, q, s) == Query(sel, Doc, <<>>, Seed(q), s)
MatchesSelector(e, sel, s) ==
  IF Native(sel, Doc) THEN Answer(FitsOne(sel, e, Doc), s)
  ELSE AnyFound(MatchesOf(sel, <<e>>, s))
=============================================================================
