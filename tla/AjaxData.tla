------------------------------ MODULE AjaxData ------------------------------
(* What jQuery.ajax of WebRoot/resource/jsonp/jquery-1.8.0.js does to its data:
   the settings of a request (jQuery.extend, ajaxExtend, ajaxSetup), the choice
   of its prefilters and its transport, the choice of an answer's type and the
   conversion to the type the page asked for.  Module Ajax says when.         *)
EXTENDS Integers, Sequences, FiniteSets, SequencesExt

-----------------------------------------------------------------------------
(* Objects.  A heap gives each object's kind and its members; a member's value is
   the number of an object, or 0 for undefined, or a negative number for anything
   else.  The objects of kind "other" are neither plain nor arrays.           *)
Undef == 0
IsObject(v) == v > 0
Mergeable(heap, v) == IsObject(v) /\ heap[v].kind \in {"plain", "array"}
Member(heap, o, name) == IF name \in DOMAIN heap[o].members THEN heap[o].members[name] ELSE Undef
Made(heap, kind) == Append(heap, [kind |-> kind, members |-> [n \in {} |-> Undef]])
Put(heap, o, name, v) ==
    [heap EXCEPT ![o].members = [n \in DOMAIN @ \cup {name} |-> IF n = name THEN v ELSE @[n]]]

(* jQuery.extend(deep, target, options): name after name.  A plain object or an
   array is merged into the target's own, or into a new one, never moved.     *)
RECURSIVE Extend(_, _, _, _), ExtendBy(_, _, _, _, _)
(* Mutant: an object the target has nothing for is moved into it.  *)
Moved(heap, src, copy) == [heap |-> heap, at |-> IF IsObject(src) THEN src ELSE copy]
Clone(heap, src, copy) ==
    LET kind == heap[copy].kind
    IN IF IsObject(src) /\ heap[src].kind = kind THEN [heap |-> heap, at |-> src]
       ELSE [heap |-> Made(heap, kind), at |-> Len(heap) + 1]

ExtendBy(heap, deep, target, options, names) ==
    IF names = {} THEN heap
    ELSE LET name == CHOOSE n \in names : TRUE
             copy == Member(heap, options, name)
             Merged == Clone(heap, Member(heap, target, name), copy)
             next == IF copy = target \/ copy = Undef THEN heap
                     ELSE IF deep /\ Mergeable(heap, copy)
                     THEN Extend(Put(Merged.heap, target, name, Merged.at), TRUE, Merged.at, copy)
                     ELSE Put(heap, target, name, copy)
         IN ExtendBy(next, deep, target, options, names \ {name})
Extend(heap, deep, target, options) ==
    ExtendBy(heap, deep, target, options, DOMAIN heap[options].members)

(* ajaxExtend: the flat options are not copied in depth.  *)
AjaxExtend(heap, flat, target, src) ==
    LET names == DOMAIN heap[src].members
    IN ExtendBy(ExtendBy(heap, FALSE, target, src, names \cap flat), TRUE, target, src, names \ flat)

(* ajaxSetup({}, options), as each request begins: its settings are the object
   made last but for what the copies made.                                    *)
AjaxSetup(heap, flat, ajaxSettings, options) ==
    LET s == Len(heap) + 1
    IN [heap |-> AjaxExtend(AjaxExtend(Made(heap, "plain"), flat, s, ajaxSettings), flat, s, options),
        s |-> s]

-----------------------------------------------------------------------------
(* Prefilters and transports: for each data type the functions registered for it,
   in order.  A function is [id, gives]: nothing, a transport, or the name of
   another data type.  A registration names its types, "+" before one puts the
   function first.                                                            *)
AddTo(structure, registration) ==
    LET Added(lists, type) ==
            [lists EXCEPT ![type.of] = IF type.first THEN <<registration.func>> \o @
                                       ELSE Append(@, registration.func)]
    IN FoldLeft(Added, structure, registration.types)

(* inspectPrefiltersOrTransports.  w says what came of it so far: the selection,
   the functions that ran, the types inspected and the request's data types.  *)
(* Mutant: the list of all types is tried after each.  *)
EachTime(dataType, w)  == dataType # "*"
TriesCatchall(dataType, w) == "*" \notin w.inspected

RECURSIVE Inspect(_, _, _, _), Consult(_, _, _, _)
Consult(structure, list, executeOnly, w) ==
    IF list = <<>> \/ (~executeOnly /\ w.selection # "nothing") THEN w
    ELSE LET f  == Head(list)
             ran == [w EXCEPT !.ran = Append(@, f.id), !.selection = "nothing"]
             next == IF f.gives \in {"nothing", "transport"} THEN [ran EXCEPT !.selection = f.gives]
                     ELSE IF ~executeOnly \/ f.gives \in w.inspected THEN ran
                     ELSE Inspect(structure, f.gives, executeOnly,
                                  [ran EXCEPT !.dataTypes = <<f.gives>> \o @])
         IN Consult(structure, Tail(list), executeOnly, next)
Inspect(structure, dataType, executeOnly, w) ==
    LET own == Consult(structure, structure[dataType], executeOnly,
                       [w EXCEPT !.inspected = @ \cup {dataType}, !.selection = "nothing"])
    IN IF (executeOnly \/ own.selection = "nothing") /\ TriesCatchall(dataType, own)
       THEN Inspect(structure, "*", executeOnly, own) ELSE own

Inspected(structure, dataTypes, executeOnly) ==
    Inspect(structure, dataTypes[1], executeOnly,
            [selection |-> "nothing", ran |-> <<>>, inspected |-> {}, dataTypes |-> dataTypes])

-----------------------------------------------------------------------------
(* An answer: the types asked for, the type its content-type header is known by
   ("none": none), the types it has a form of, in order, and the converters, in
   order: from one type ("*": from any) to another; equivalent when it is true
   in place of a function; broken when the function throws on this answer.    *)
Converters(q, from, to) == SelectSeq(q.converters, LAMBDA c : c.from = from /\ c.to = to)
Lookup(q, from, to) ==
    LET found == Converters(q, from, to) \o Converters(q, "*", to)
    IN IF found = <<>> THEN <<>> ELSE <<Head(found)>>

RECURSIVE NoStars(_)
NoStars(types) == IF types # <<>> /\ Head(types) = "*" THEN NoStars(Tail(types)) ELSE types

(* ajaxHandleResponses: the types of the conversion to come, that of the form
   chosen first.  A known content-type counts when any type would do.         *)
HandleResponses(q) ==
    LET explicit == NoStars(q.dataTypes)
        types == IF explicit # q.dataTypes /\ q.content # "none" THEN <<q.content>> \o explicit ELSE explicit
        direct == SelectSeq(q.responses, LAMBDA r : types = <<>> \/ Converters(q, r, types[1]) # <<>>)
    IN IF types # <<>> /\ types[1] \in Range(q.responses) THEN types
       ELSE IF direct # <<>> THEN <<Head(direct)>> \o types
       ELSE <<Head(q.responses)>> \o types

(* ajaxConvert: from one type to the next, by a converter, or by two with a type
   between them.  path is what was applied, equivalences too.                 *)
Failed(path) == [state |-> "parsererror", path |-> path]

(* The second converter of the pairs that lead to a type.  *)
Seconds(q, prev, current) ==
    SelectSeq(q.converters, LAMBDA c : c.to = current /\ Lookup(q, prev, c.from) # <<>>)

(* The converters of one step.  Mutant: the type between is taken for the one
   asked for.                                                                 *)
HalfWay(q, prev, current) ==
    LET seconds == Seconds(q, prev, current)
    IN IF Lookup(q, prev, current) # <<>> THEN Lookup(q, prev, current)
       ELSE IF seconds = <<>> THEN <<>>
       ELSE Lookup(q, prev, Head(seconds).from)
Hop(q, prev, current) ==
    LET seconds == Seconds(q, prev, current)
    IN IF Lookup(q, prev, current) # <<>> THEN Lookup(q, prev, current)
       ELSE IF seconds = <<>> THEN <<>>
       ELSE Append(Lookup(q, prev, Head(seconds).from), Head(seconds))

RECURSIVE Convert(_, _, _, _)
Convert(q, prev, types, path) ==
    IF types = <<>> THEN [state |-> "success", path |-> path]
    ELSE LET current == Head(types)
             hop == Hop(q, prev, current)
         IN IF current = "*" THEN Convert(q, prev, Tail(types), path)
            ELSE IF prev \in {"*", current} THEN Convert(q, current, Tail(types), path)
            ELSE IF hop = <<>> THEN Failed(path)
            ELSE IF \E c \in Range(hop) : ~c.equivalent /\ c.broken THEN Failed(path \o hop)
            ELSE Convert(q, current, Tail(types), path \o hop)

Answered(q) == LET types == HandleResponses(q) IN Convert(q, types[1], Tail(types), <<>>)

-----------------------------------------------------------------------------
(* The objects to be reached from one by members that are copied in depth.  *)
RECURSIVE Reach(_, _)
Reach(heap, found) ==
    LET next == found \cup {v \in UNION {Range(heap[o].members) : o \in found} :
                              Mergeable(heap, v)}
    IN IF next = found THEN found ELSE Reach(heap, next)
InDepth(heap, flat, o) ==
    Reach(heap, {v \in {Member(heap, o, n) : n \in DOMAIN heap[o].members \ flat} : Mergeable(heap, v)})

(* What a path of names leads to.  *)
RECURSIVE Follow(_, _, _)
Follow(heap, v, names) ==
    IF names = <<>> THEN v
    ELSE IF ~IsObject(v) THEN Undef ELSE Follow(heap, Member(heap, v, Head(names)), Tail(names))

(* A request's settings are its own: making them changes neither the settings of
   all requests nor the options the page gave, none of the objects in them is one
   of theirs, so that a prefilter that adds a converter adds it to this request
   only, and each plain value is the page's, or else that of the settings.    *)
SettingsApart(heap, flat, ajaxSettings, options, paths) ==
    LET made == AjaxSetup(heap, flat, ajaxSettings, options)
        At(o, path) == Follow(made.heap, o, path)
        Merges(prefix) ==
            LET given == At(options, prefix)
            IN \/ given = Undef
               \/ /\ prefix[1] \notin flat /\ Mergeable(heap, given)
                  /\ heap[given].kind = heap[At(ajaxSettings, prefix)].kind
    IN /\ SubSeq(made.heap, 1, Len(heap)) = heap
       /\ \A o \in InDepth(made.heap, flat, made.s) : o > Len(heap)
       /\ \A path \in paths :
             /\ At(options, path) < 0 => At(made.s, path) = At(options, path)
             /\ (/\ At(ajaxSettings, path) < 0 /\ At(options, path) = Undef
                 /\ \A k \in 1..Len(path) - 1 : Merges(SubSeq(path, 1, k)))
                => At(made.s, path) = At(ajaxSettings, path)

(* Whatever was registered, and to whatever types prefilters send a request on,
   a prefilter runs once for each type that was inspected and has it, the types
   the request was sent on to stand before its own, and the transport is that of
   the first function to give one among those for its type, then those for all. *)
InspectedOnce(structure, dataTypes) ==
    LET w == Inspected(structure, dataTypes, TRUE)
        t == Inspected(structure, dataTypes, FALSE)
        Ids(list) == [i \in DOMAIN list |-> list[i].id]
        types == SetToSeq(w.inspected)
        reached == FlattenSeq([i \in DOMAIN types |-> Ids(structure[types[i]])])
        candidates == structure[dataTypes[1]] \o (IF dataTypes[1] = "*" THEN <<>> ELSE structure["*"])
        giving == {i \in DOMAIN candidates : candidates[i].gives = "transport"}
        Times(list, id) == Cardinality({i \in DOMAIN list : list[i] = id})
    IN /\ \A id \in Range(w.ran \o reached) : Times(w.ran, id) = Times(reached, id)
       /\ "*" \in w.inspected /\ IsSuffix(dataTypes, w.dataTypes)
       /\ w.inspected = {"*"} \cup Range(SubSeq(w.dataTypes, 1, Len(w.dataTypes) - Len(dataTypes) + 1))
       /\ t.selection = "transport" <=> giving # {}
       /\ giving # {} => Last(t.ran) = candidates[CHOOSE i \in giving : \A j \in giving : i <= j].id

(* A conversion that succeeds has led from the form of the answer that was chosen
   through the types asked for, in order, each converter taking what the one
   before it made; and it fails only where two types in turn are not a converter
   or two apart, or where a converter it needs throws.                        *)
Chained(q) ==
    LET types == HandleResponses(q)
        c == Answered(q)
        Makes(k) == IF k = 0 THEN types[1] ELSE c.path[k].to
        asked == SelectSeq(types, LAMBDA t : t # "*")
        Apart(a, b) == /\ a # b
                       /\ ~\E x \in Range(q.converters) : x.to = b /\ (x.from \in {a, "*"}
                             \/ \E y \in Range(q.converters) : y.to = x.from /\ y.from \in {a, "*"})
    IN /\ types[1] \in Range(q.responses)
       /\ \A k \in DOMAIN c.path : c.path[k].from \in {Makes(k - 1), "*"}
       /\ c.state = "success" =>
            /\ Makes(Len(c.path)) = Last(asked)
            /\ \A k \in DOMAIN c.path : c.path[k].equivalent \/ ~c.path[k].broken
       /\ c.state = "parsererror" =>
            \/ \E i \in 2..Len(asked) : Apart(asked[i - 1], asked[i])
            \/ \E k \in DOMAIN c.path : c.path[k].broken
=============================================================================
