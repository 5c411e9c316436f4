------------------------------- MODULE Events -------------------------------
(* Events and data of elements in WebRoot/resource/jsonp/jquery-1.8.0.js: what
   jQuery keeps of an element under the id it gives it (jQuery.cache), handlers
   bound directly or for descendants, with namespaces, for one call or many;
   events triggered by the page or fired by the browser, which bubble up; and
   elements removed, put back and cloned.  All of it may also be done by the
   handlers of an event while it is on its way.

   In a browser without bubbling focusin events (jQuery.support.focusinBubbles)
   one capturing listener of the document stands in for them, while some element
   has a handler for focusin.                                                 *)
EXTENDS Integers, Sequences, FiniteSets, SequencesExt

CONSTANTS Elements, Above,  \* the elements, and the parent of each at first
          Nowhere, AnyFn, NoEntry,
          Selected,     \* the elements the selector of delegated handlers matches
          Fns,          \* the functions bound
          Bindings,     \* calls of on() and one(): [at, type, sel, fn, ns, one]
          Unbindings,   \* calls of off(): [at, type, sel, fn, ns]
          Fired,        \* events: [at, type, ns, how]
          Copies,       \* clone(true): pairs of an element and its clone
          DataOf,       \* elements that get data
          Moving,       \* elements that are detached and put back
          MaxSteps,     \* bound: calls of the page in all
          MaxDepth      \* bound: events within events

VARIABLES page,   \* what jQuery and the browser keep of the elements
          stack,  \* the events on their way, the innermost first
          asked,  \* history: the handlers and the data asked for, by element
          steps

vars == <<page, stack, asked, steps>>

Types   == {"click", "focus", "focusin"}
Natural == {"click", "focus"}      \* those with a method of the element
Ids     == 1..Cardinality(Elements)

ASSUME EventsAssumption ==
    /\ IsFiniteSet(Elements) /\ Nowhere \notin Elements /\ Selected \subseteq Elements
    /\ Above \in [Elements -> Elements \cup {Nowhere}]
    /\ MaxSteps \in Nat /\ MaxDepth \in Nat

-----------------------------------------------------------------------------
(* jQuery.data: the entry of an element in jQuery.cache.  *)
Blank == [data |-> FALSE, events |-> [t \in Types |-> <<>>],
          delegates |-> [t \in Types |-> 0], handle |-> FALSE]

HasEntry(w, e)    == w.id[e] # 0
Handlers(w, e, t) == IF HasEntry(w, e) THEN w.cache[w.id[e]].events[t] ELSE <<>>
AllHandlers(w, e) == UNION {Range(Handlers(w, e, t)) : t \in Types}

NewId(w) == IF w.deletedIds = <<>> THEN w.uuid + 1 ELSE Last(w.deletedIds)

(* An element without an id is given one, a freed one if there is one.  *)
WithEntry(w, e) ==
    IF HasEntry(w, e) THEN w
    ELSE [w EXCEPT !.id[e] = NewId(w), !.cache[NewId(w)] = Blank,
                   !.uuid = IF w.deletedIds = <<>> THEN @ + 1 ELSE @,
                   !.deletedIds = IF @ = <<>> THEN @ ELSE Front(@)]

IsEmptyData(entry) ==
    ~entry.data /\ ~entry.handle /\ \A t \in Types : entry.events[t] = <<>>

(* The end of cleanData: entry and id are given up.  *)
Freed(w, e) ==
    [w EXCEPT !.cache[w.id[e]] = NoEntry, !.id[e] = 0, !.deletedIds = Append(@, w.id[e])]

(* The end of removeData: an entry that holds nothing more is given up.  *)
FreedIfEmpty(w, e) == IF IsEmptyData(w.cache[w.id[e]]) THEN Freed(w, e) ELSE w

WithData(w, e) == LET v == WithEntry(w, e) IN [v EXCEPT !.cache[v.id[e]].data = TRUE]

WithoutData(w, e) ==
    IF HasEntry(w, e) THEN FreedIfEmpty([w EXCEPT !.cache[w.id[e]].data = FALSE], e) ELSE w

-----------------------------------------------------------------------------
(* jQuery.event.special: a delegated focus is a focusin.  *)
Stored(type, sel) == IF sel /\ type = "focus" THEN "focusin" ELSE type
Special == {"focus", "focusin"}

(* The first handler of a type: the document's capturing listener is wanted once
   more, or the element listens itself.                                       *)
SetUp(w, e, t) ==
    IF Handlers(w, e, t) # <<>> THEN w
    ELSE IF t = "focusin" THEN [w EXCEPT !.attaches = @ + 1]
    ELSE [w EXCEPT !.listens[e] = @ \cup {t}]

(* jQuery.event.add: delegated handlers stand before the others.  *)
Place(list, n, h) == IF h.sel THEN InsertAt(list, n + 1, h) ELSE Append(list, h)

Add(w, e, t, h) ==
    LET v == SetUp(WithEntry(w, e), e, t)
        i == v.id[e]
    IN [v EXCEPT !.cache[i].events[t] = Place(@, v.cache[i].delegates[t], h),
                 !.cache[i].delegates[t] = IF h.sel THEN @ + 1 ELSE @,
                 !.cache[i].handle = TRUE]

(* The handlers a call of off() means; mapped when it names no type.  *)
Meant(h, q, mapped) ==
    /\ mapped \/ h.orig = q.type
    /\ q.fn = AnyFn \/ h.fn = q.fn
    /\ q.ns => h.ns
    /\ q.sel => h.sel

(* The last handler of a type is gone.  What is undone is what the special
   events of the type in the call say, not those of the type it stands for.   *)
TearDown(w, e, type, t) ==
    IF type = "focusin" THEN [w EXCEPT !.attaches = @ - 1]
    ELSE [w EXCEPT !.listens[e] = @ \ {t}]

(* No handler of any type is left: the element's handle goes, and the entry with
   it unless there are data.                                                  *)
Unhandled(w, e) ==
    IF \A t \in Types : Handlers(w, e, t) = <<>>
    THEN FreedIfEmpty([w EXCEPT !.cache[w.id[e]].handle = FALSE], e) ELSE w

RemoveType(w, e, q, type, mapped) ==
    LET t    == Stored(type, q.sel)
        old  == Handlers(w, e, t)
        kept == SelectSeq(old, LAMBDA h : ~Meant(h, q, mapped))
        less == [w EXCEPT !.cache[w.id[e]].events[t] = kept,
                          !.cache[w.id[e]].delegates[t] = Len(SelectSeq(kept, LAMBDA h : h.sel))]
    IN IF old = kept THEN w ELSE IF kept = <<>> THEN TearDown(less, e, type, t) ELSE less

(* jQuery.event.remove  *)
Unbind(w, e, q) ==
    IF AllHandlers(w, e) = {} THEN w
    ELSE IF q.type # "any" THEN Unhandled(RemoveType(w, e, q, q.type, FALSE), e)
    ELSE LET InTurn(v, t) == IF Handlers(w, e, t) = <<>> \/ ~HasEntry(v, e) THEN v
                             ELSE Unhandled(RemoveType(v, e, q, t, TRUE), e)
         IN InTurn(InTurn(InTurn(w, "click"), "focus"), "focusin")

(* jQuery.cleanData for one element: types with special events are removed by
   jQuery.event.remove, which may already give up the entry.                  *)
Everything(type) == [type |-> type, sel |-> FALSE, fn |-> AnyFn, ns |-> FALSE]

CleanType(w, e, t) ==
    IF ~HasEntry(w, e) \/ Handlers(w, e, t) = <<>> THEN w
    ELSE IF t \in Special THEN Unbind(w, e, Everything(t))
    ELSE [w EXCEPT !.listens[e] = @ \ {t}]

CleanEvents(w, e) == CleanType(CleanType(CleanType(w, e, "click"), e, "focus"), e, "focusin")

(* Mutant: the entry is given up whether or not it is still there.  *)
FreedTwice(w, e) == Freed(CleanEvents(w, e), e)

CleanData(w, e) ==
    LET v == CleanEvents(w, e)
    IN IF HasEntry(v, e) THEN Freed(v, e) ELSE v

(* cloneCopyEvent: the clone's handlers are added one by one, under the types the
   element has them; its data are copied.                                     *)
CopyEvents(w, e, copy) ==
    IF ~HasEntry(w, e) THEN w
    ELSE LET AddAll(v, t) == FoldLeft(LAMBDA u, h : Add(u, copy, t, h), v, Handlers(w, e, t))
             with == AddAll(AddAll(AddAll(WithEntry(w, copy), "click"), "focus"), "focusin")
         IN [with EXCEPT !.cache[with.id[copy]].data = w.cache[w.id[e]].data]

-----------------------------------------------------------------------------
(* The elements above one, itself first; those under one, itself included.  *)
Upwards(w, e) ==
    LET up[n \in 0..Cardinality(Elements), x \in Elements \cup {Nowhere}] ==
            IF x = Nowhere \/ n = 0 THEN <<>> ELSE <<x>> \o up[n - 1, w.parent[x]]
    IN up[Cardinality(Elements), e]
Under(w, e) == {x \in Elements : Contains(Upwards(w, x), e)}

At(elements, type) == [i \in DOMAIN elements |-> [at |-> elements[i], type |-> type]]

(* jQuery.event.trigger: where the event will pass, settled in advance.  A focus
   goes on as a focusin, beginning with the element itself.                   *)
EventPath(w, e, type, how) ==
    IF how = "handler" THEN At(<<e>>, type)
    ELSE IF type = "focus" THEN At(<<e>>, "focus") \o At(Upwards(w, e), "focusin")
    ELSE At(Upwards(w, e), type)

(* What the browser fires: handles discard the type that jQuery.event.trigger is
   just having fired; a focus reaches the document's capturing listener first,
   which simulates a focusin, unless jQuery is triggering focus.              *)
(* Mutant: a focus is not asked whether jQuery triggers it.  *)
FocusAgain(w, e, type, triggered) ==
    IF type = "focus" THEN (IF w.attaches > 0 THEN At(Upwards(w, e), "focusin") ELSE <<>>) \o At(<<e>>, "focus")
    ELSE IF triggered = type THEN <<>> ELSE At(Upwards(w, e), type)

NativePath(w, e, type, triggered) ==
    IF type = "focus"
    THEN (IF w.attaches > 0 /\ triggered # "focus" THEN At(Upwards(w, e), "focusin") ELSE <<>>)
         \o (IF triggered = "focus" THEN <<>> ELSE At(<<e>>, "focus"))
    ELSE IF triggered = type THEN <<>> ELSE At(Upwards(w, e), type)

(* An event with a namespace is for handlers with it.  *)
Wanted(h, ns) == ns => h.ns

(* A new event on its way, with who waits for it: a handler of an element on the
   path, for that element itself, or, when it is delegated, for each element its
   selector matches on the way there from the target.                         *)
OnTheWay(w, x, target, e) ==
    x = target \/ (Contains(Upwards(w, target), x) /\ Contains(Upwards(w, x), e))
Hears(w, h, e, x, target) ==
    IF h.sel THEN x # e /\ x \in Selected /\ OnTheWay(w, x, target, e) ELSE x = e

Waiting(w, path, target, ns) ==
    LET Wants(e, t) == {h \in Range(Handlers(w, e, t)) : Wanted(h, ns)}
        Of(e, h) == {<<e, x, h.tag>> : x \in {y \in Elements : Hears(w, h, e, y, target)}}
    IN UNION {UNION {Of(step.at, h) : h \in Wants(step.at, step.type)} : step \in Range(path)}

NewEvent(w, target, type, ns, how, path) ==
    [target |-> target, type |-> type, ns |-> ns, how |-> how,
     path |-> path, at |-> target, queue |-> <<>>, stopped |-> FALSE, immediate |-> FALSE, prevented |-> FALSE,
     always |-> Waiting(w, path, target, ns),
     ever |-> {<<a[1], a[3]>> : a \in Waiting(w, path, target, ns)}, ran |-> <<>>]

(* A focusin simulated for the browser's focus is an event of its own.  *)
NewEvents(w, f) ==
    IF f.how # "native" THEN <<NewEvent(w, f.at, f.type, f.ns, f.how, EventPath(w, f.at, f.type, f.how))>>
    ELSE LET path == NativePath(w, f.at, f.type, "none")
             of(type) == SelectSeq(path, LAMBDA step : step.type = type)
             new(type) == IF of(type) = <<>> THEN <<>>
                          ELSE <<NewEvent(w, f.at, type, FALSE, "native", of(type))>>
         IN (IF f.type = "focus" THEN new("focusin") ELSE <<>>) \o new(f.type)

(* An event on its way forgets handlers that are removed, and elements that are
   on its way no more; handlers bound now may still meet it.                  *)
Tags(w) == UNION {{<<e, h.tag>> : h \in AllHandlers(w, e)} : e \in Elements}
Followed(events, w) ==
    [i \in DOMAIN events |->
       [events[i] EXCEPT
          !.always = {a \in @ : <<a[1], a[3]>> \in Tags(w)
                                /\ (a[2] = a[1] \/ OnTheWay(w, a[2], events[i].target, a[1]))},
          !.ever = @ \cup (Tags(w) \ Tags(page))]]

-----------------------------------------------------------------------------
Init == /\ page = [id |-> [e \in Elements |-> 0], cache |-> [i \in Ids |-> NoEntry],
                   deletedIds |-> <<>>, uuid |-> 0,
                   parent |-> [e \in Elements |-> IF \E c \in Copies : c[2] = e THEN Nowhere ELSE Above[e]],
                   listens |-> [e \in Elements |-> {}], attaches |-> 0]
        /\ stack = <<>>
        /\ asked = [e \in Elements |-> [handlers |-> {}, data |-> FALSE]]
        /\ steps = 0

(* The calls a page makes: each changes the page and what was asked of it, and the
   events on their way meet what they find.                                   *)
Becomes(w, a, events) == page' = w /\ asked' = a /\ stack' = Followed(events, w)

On(events) == \E b \in Bindings :
    LET h == [tag |-> steps, fn |-> b.fn, orig |-> b.type, sel |-> b.sel, ns |-> b.ns, one |-> b.one]
    IN Becomes(Add(page, b.at, Stored(b.type, b.sel), h),
               [asked EXCEPT ![b.at].handlers = @ \cup {h}], events)

Off(events) == \E q \in Unbindings :
    /\ asked[q.at].handlers # {}
    /\ Becomes(Unbind(page, q.at, q),
               [asked EXCEPT ![q.at].handlers = {h \in @ : ~Meant(h, q, q.type = "any")}], events)

Data(events) == \E e \in DataOf :
    IF asked[e].data THEN Becomes(WithoutData(page, e), [asked EXCEPT ![e].data = FALSE], events)
    ELSE Becomes(WithData(page, e), [asked EXCEPT ![e].data = TRUE], events)

(* remove(): the elements under it are cleaned, then itself, then it is taken out.  *)
Drop(events) == \E e \in Elements :
    /\ page.parent[e] # Nowhere
    /\ LET others  == SetToSeq(Under(page, e) \ {e})
           cleaned == CleanData(FoldLeft(CleanData, page, others), e)
       IN Becomes([cleaned EXCEPT !.parent[e] = Nowhere],
                  [x \in Elements |-> IF x \in Under(page, e) THEN [handlers |-> {}, data |-> FALSE] ELSE asked[x]], events)

(* detach() and append()  *)
Move(events) == \E e \in Moving :
    Becomes([page EXCEPT !.parent[e] = IF @ = Nowhere THEN Above[e] ELSE Nowhere], asked, events)

(* clone(true), of an element that has no clone yet  *)
Clone(events) == \E c \in Copies :
    /\ page.parent[c[2]] = Nowhere /\ ~HasEntry(page, c[2])
    /\ Becomes([CopyEvents(page, c[1], c[2]) EXCEPT !.parent[c[2]] = page.parent[c[1]]],
               [asked EXCEPT ![c[2]] = asked[c[1]]], events)

Does(events) == \/ On(events) \/ Off(events) \/ Data(events)
                \/ Drop(events) \/ Move(events) \/ Clone(events)

Fires(events) ==
    /\ Len(events) < MaxDepth
    /\ \E f \in Fired : stack' = NewEvents(page, f) \o events
    /\ UNCHANGED <<page, asked>>

(* The page calls, while no event is on its way.  *)
Call ==
    /\ stack = <<>> /\ steps < MaxSteps
    /\ Does(<<>>) \/ Fires(<<>>)
    /\ steps' = steps + 1

-----------------------------------------------------------------------------
Event == Head(stack)
Later == Tail(stack)

(* The elements dispatch looks at for delegated handlers: from the target up to
   where they are bound, or as far as it goes up when that is not above it now.  *)
(* Mutant: the target only.  *)
TargetOnly(w, target, e) == IF target = e THEN <<>> ELSE <<target>>
Below(w, target, e) ==
    LET up == Upwards(w, target)
        n  == SelectInSeq(up, LAMBDA x : x = e)
    IN IF n = 0 THEN up ELSE SubSeq(up, 1, n - 1)

(* dispatch: the handlers to run at an element, in groups, taken down before the
   first of them runs: the delegated ones, for each element their selector
   matches, then those of its own.                                            *)
Groups(w, e, t, target) ==
    LET all   == Handlers(w, e, t)
        n     == w.cache[w.id[e]].delegates[t]
        below == Below(w, target, e)
        Group(x, handlers) == [elem |-> x, handlers |-> handlers]
        delegated == [i \in DOMAIN below |->
                        Group(below[i], IF below[i] \in Selected THEN SubSeq(all, 1, n) ELSE <<>>)]
    IN SelectSeq(Append(delegated, Group(e, SubSeq(all, n + 1, Len(all)))),
                 LAMBDA group : group.handlers # <<>>)

(* The browser calls the handle of an element that listens; a focusin, simulated,
   is triggered by jQuery.                                                    *)
Reached(step) ==
    /\ Handlers(page, step.at, step.type) # <<>>
    /\ Event.how = "native" /\ step.type # "focusin" => step.type \in page.listens[step.at]

Dispatch ==
    /\ stack # <<>> /\ Event.queue = <<>> /\ ~Event.stopped /\ Event.path # <<>>
    /\ LET step == Head(Event.path)
           queue == IF Reached(step) THEN Groups(page, step.at, step.type, Event.target) ELSE <<>>
       IN stack' = <<[Event EXCEPT !.path = Tail(@), !.at = step.at, !.queue = queue]>> \o Later
    /\ UNCHANGED <<page, asked, steps>>

(* The groups left when the first handler has run: the rest of its group unless it
   stopped everything at once, the other groups unless the event is stopped.  *)
Rest(queue, stopped, immediate) ==
    IF ~immediate /\ Len(Head(queue).handlers) > 1
    THEN <<[Head(queue) EXCEPT !.handlers = Tail(@)]>> \o Tail(queue)
    ELSE IF stopped THEN <<>> ELSE Tail(queue)

Running == stack # <<>> /\ Event.queue # <<>>
First   == Head(Head(Event.queue).handlers)

(* A handler that does not have the event's namespace is passed over.  *)
Pass ==
    /\ Running /\ ~Wanted(First, Event.ns)
    /\ stack' = <<[Event EXCEPT !.queue = Rest(@, Event.stopped, FALSE)]>> \o Later
    /\ UNCHANGED <<page, asked, steps>>

(* one(): before its function is called off(event) removes what has that function,
   at the element where the event is dispatched.                              *)
Once ==
    /\ Running /\ Wanted(First, Event.ns) /\ First.one
    /\ LET q == [type |-> First.orig, sel |-> First.sel, fn |-> First.fn, ns |-> First.ns]
           called == [Event EXCEPT !.queue[1].handlers[1].one = FALSE]
       IN Becomes(Unbind(page, Event.at, q),
                  [asked EXCEPT ![Event.at].handlers = {h \in @ : ~Meant(h, q, FALSE)}],
                  <<called>> \o Later)
    /\ UNCHANGED steps

(* A handler is called: it may call the page's functions, and returns nothing, or
   false, or stops the event at once.                                         *)
Heard(result) ==
    LET stopped   == Event.stopped \/ result # "nothing"
        immediate == Event.immediate \/ result = "immediate"
    IN [Event EXCEPT !.stopped = stopped, !.immediate = immediate,
                     !.prevented = @ \/ result = "false",
                     !.queue = Rest(@, stopped, immediate),
                     !.ran = Append(@, <<Event.at, Head(Event.queue).elem, First.tag>>)]

Run ==
    /\ Running /\ Wanted(First, Event.ns) /\ ~First.one
    /\ \E result \in {"nothing", "false", "immediate"} :
          LET events == <<Heard(result)>> \o Later
          IN \/ stack' = events /\ UNCHANGED <<page, asked, steps>>
             \/ /\ steps < MaxSteps /\ steps' = steps + 1
                /\ Does(events) \/ Fires(events)

(* The event is at its end.  If it was triggered, bubbles and was not prevented,
   the element's method of that name is called, and the browser fires the event
   while jQuery.event.triggered says not to handle it again.                  *)
AtEnd == stack # <<>> /\ Event.queue = <<>> /\ (Event.stopped \/ Event.path = <<>>)
HasDefault == Event.how = "trigger" /\ ~Event.prevented /\ Event.type \in Natural

Default ==
    /\ AtEnd /\ HasDefault
    /\ stack' = <<[Event EXCEPT !.how = "native",
                                !.path = NativePath(page, Event.target, Event.type, Event.type)]>> \o Later
    /\ UNCHANGED <<page, asked, steps>>

Ends == AtEnd /\ ~HasDefault /\ stack' = Later /\ UNCHANGED <<page, asked, steps>>

Next == Call \/ Dispatch \/ Pass \/ Once \/ Run \/ Default \/ Ends
Spec == Init /\ [][Next]_vars

-----------------------------------------------------------------------------
(* What jQuery keeps is exactly what was asked: an element has an id and an entry
   in jQuery.cache just when it has data or handlers, and the handlers bound to it
   and not removed; no two elements share an id, and an id is free, once, or in
   use.  So nothing is left of an element that was removed, and an id used again
   never shows another element's handlers, however entries are given up: with the
   last handler, with the last datum, with the element, or in the midst of it.
   The browser calls jQuery where there are handlers and nowhere else, delegated
   ones stand in front as delegateCount says, and whoever wants a focusin has the
   document's capturing listener.                                             *)
CacheExact ==
    /\ \A e \in Elements :
          /\ HasEntry(page, e) <=> asked[e].data \/ asked[e].handlers # {}
          /\ AllHandlers(page, e) = asked[e].handlers
          /\ HasEntry(page, e) => page.cache[page.id[e]].data = asked[e].data
          /\ page.listens[e] = {t \in Natural : Handlers(page, e, t) # <<>>}
          /\ HasEntry(page, e) =>
                \A t \in Types : {i \in DOMAIN Handlers(page, e, t) : Handlers(page, e, t)[i].sel}
                                  = 1..page.cache[page.id[e]].delegates[t]
    /\ page.attaches >= Cardinality({e \in Elements : Handlers(page, e, "focusin") # <<>>})
    /\ \A i \in Ids :
          LET owners == {e \in Elements : page.id[e] = i}
              free   == {n \in DOMAIN page.deletedIds : page.deletedIds[n] = i}
          IN /\ Cardinality(owners) + Cardinality(free) = IF i <= page.uuid THEN 1 ELSE 0
             /\ page.cache[i] # NoEntry <=> owners # {}

(* An event is heard exactly: no handler hears it twice for one element, though a
   focus passes as focus and as focusin and is fired again by the browser when it
   was triggered; none hears it that was not bound; and every handler that was
   bound when it began has heard it at the end, a delegated one for each element
   that its selector matches between the target and its own, unless the event was
   stopped, the handler removed or that element taken away before the event came
   there, whatever handlers on the way bound, removed, triggered, or did to the
   elements.                                                                  *)
HeardExactly ==
    \A n \in DOMAIN stack :
        LET v == stack[n]
        IN /\ IsInjective(v.ran) /\ \A i \in DOMAIN v.ran : <<v.ran[i][1], v.ran[i][3]>> \in v.ever
           /\ v.queue = <<>> /\ v.path = <<>> /\ ~v.stopped => v.always \subseteq Range(v.ran)
=============================================================================
