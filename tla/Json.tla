-------------------------------- MODULE Json --------------------------------
(* JSON.stringify and JSON.parse of WebRoot/resource/jsonp/json2.js, which it
   installs where the browser has none.

   A text is a sequence of symbols.  A symbol is a character, except that the
   words true and null, a number ("1") and the end of an escape ("u1234") are one
   symbol each; DQ is the double quote, BS the backslash, "x" any letter of no
   special meaning, "n" a letter that may follow a backslash, and "ctl" one of
   the invisible characters that both functions escape.                       *)
EXTENDS Integers, Sequences, FiniteSets, SequencesExt

DQ == "\""
BS == "\\"
NL == "\n"
White == {" ", NL}
Words == {"true", "null", "1"}

(* A value: is says what typeof and its class say, has the symbols of a string
   or the word of a literal, and members its members as pairs <<name, value>> in
   the order of for-in; an array's names are not used.  toJSON holds what the
   method of that name would give, if there is one.                           *)
Value(is, has, members) == [is |-> is, has |-> has, members |-> members, toJSON |-> <<>>]
Text(s)      == Value("string", s, <<>>)
Number       == Value("number", <<"1">>, <<>>)
Infinite     == Value("infinite", <<>>, <<>>)
True         == Value("boolean", <<"true">>, <<>>)
Null         == Value("null", <<"null">>, <<>>)
Undefined    == Value("undefined", <<>>, <<>>)
Function     == Value("function", <<>>, <<>>)
Array(items) == Value("array", <<>>, [i \in DOMAIN items |-> <<"", items[i]>>])
Object(members)  == Value("object", <<>>, members)
Standing(v, for) == [v EXCEPT !.toJSON = <<for>>]

(* A replacer: none; an array of names; or a function, here one that hides the
   members of a name.                                                         *)
Replacer(is, names) == [is |-> is, names |-> names]
NoReplacer == Replacer("none", <<>>)

-----------------------------------------------------------------------------
(* quote: the string between quotes, what is escapable replaced.  *)
Escape(c) == CASE c = DQ -> <<BS, DQ>> [] c = BS -> <<BS, BS>> [] c = NL -> <<BS, "n">>
               [] c = "ctl" -> <<BS, "u1234">> [] OTHER -> <<c>>

(* Mutant: a backslash is not escapable.  *)
QuoteOnly(s) == <<DQ>> \o FlattenSeq([i \in DOMAIN s |-> IF s[i] = BS THEN <<BS>> ELSE Escape(s[i])]) \o <<DQ>>
Quote(s) == <<DQ>> \o FlattenSeq([i \in DOMAIN s |-> Escape(s[i])]) \o <<DQ>>

(* What str puts in the place of a value before it looks at it: what the toJSON
   of an object gives, which is not asked again, and what a replacer makes of it. *)
IsObject(v) == v.is \in {"array", "object"}

(* Mutant: functions and strings are asked for their toJSON too.  *)
AllAsked(rep, name, v) ==
    LET w == IF v.toJSON # <<>> THEN Head(v.toJSON) ELSE v
    IN IF rep.is = "function" /\ name \in Range(rep.names) THEN Undefined ELSE w
Replaced(rep, name, v) ==
    LET w == IF IsObject(v) /\ v.toJSON # <<>> THEN Head(v.toJSON) ELSE v
    IN IF rep.is = "function" /\ name \in Range(rep.names) THEN Undefined ELSE w

RECURSIVE Joined(_, _)
Joined(parts, separator) ==
    IF Len(parts) <= 1 THEN FlattenSeq(parts)
    ELSE Head(parts) \o separator \o Joined(Tail(parts), separator)

(* The partial results between brackets: on one line each, as deep as gap says,
   the closing bracket as deep as mind, or all on one when gap is empty.      *)
Bracketed(open, parts, close, gap, mind) ==
    IF parts = <<>> THEN <<open, close>>
    ELSE IF gap = <<>> THEN <<open>> \o Joined(parts, <<",">>) \o <<close>>
    ELSE <<open, NL>> \o gap \o Joined(parts, <<",", NL>> \o gap) \o <<NL>> \o mind \o <<close>>

(* The members of an object that are looked at: those the array names, in its
   order, or all of them.                                                     *)
Named(v, name) ==
    LET with == {i \in DOMAIN v.members : v.members[i][1] = name}
    IN IF with = {} THEN Undefined ELSE v.members[CHOOSE i \in with : TRUE][2]
Looked(rep, v) ==
    IF rep.is = "keys" /\ v.is = "object"
    THEN [i \in DOMAIN rep.names |-> <<rep.names[i], Named(v, rep.names[i])>>]
    ELSE v.members

(* str.  gap is a variable of all calls: str gives back the text, empty for what
   JSON does not have, and gap as it leaves it.  Parts does so for one member
   after the other; in an array null stands for a text that is missing.       *)
Part(array, gap, name, text) ==
    IF array THEN <<IF text = <<>> THEN <<"null">> ELSE text>>
    ELSE IF text = <<>> THEN <<>>
    ELSE <<Quote(name) \o (IF gap = <<>> THEN <<":">> ELSE <<":", " ">>) \o text>>

(* Mutant: the gap is left as it is.  *)
GapAfter(gap, mind)  == gap
GapAtEnd(gap, mind) == mind

RECURSIVE Str(_, _, _, _, _), Parts(_, _, _, _, _)
Parts(array, members, rep, indent, gap) ==
    IF members = <<>> THEN [parts |-> <<>>, gap |-> gap]
    ELSE LET first  == Str(Head(members)[1], Head(members)[2], rep, indent, gap)
             others == Parts(array, Tail(members), rep, indent, first.gap)
         IN [parts |-> Part(array, first.gap, <<Head(members)[1]>>, first.text) \o others.parts,
             gap   |-> others.gap]

Str(name, value, rep, indent, mind) ==
    LET v == Replaced(rep, name, value)
    IN CASE v.is = "string" -> [text |-> Quote(v.has), gap |-> mind]
         [] v.is = "infinite" -> [text |-> <<"null">>, gap |-> mind]
         [] v.is \in {"number", "boolean", "null"} -> [text |-> v.has, gap |-> mind]
         [] v.is \in {"undefined", "function"} -> [text |-> <<>>, gap |-> mind]
         [] v.is \in {"array", "object"} ->
              LET array == v.is = "array"
                  p == Parts(array, Looked(rep, v), rep, indent, mind \o indent)
              IN [text |-> IF array THEN Bracketed("[", p.parts, "]", p.gap, mind)
                           ELSE Bracketed("{", p.parts, "}", p.gap, mind),
                  gap  |-> GapAtEnd(p.gap, mind)]

(* JSON.stringify: space is the indent, so many blanks or a string.  *)
Stringify(v, rep, space) == Str("", v, rep, space, <<>>).text

-----------------------------------------------------------------------------
(* JSON.parse, its first two stages: the invisible characters are escaped, and
   the text is accepted if nothing is left, after three replacements, but the
   characters that JSON has between its values.                               *)
EscapeCx(s) == FlattenSeq([i \in DOMAIN s |-> IF s[i] = "ctl" THEN <<BS, "u1234">> ELSE <<s[i]>>])

RECURSIVE Pairs(_), Simple(_), Opening(_, _)
Pairs(s) ==
    IF s = <<>> THEN <<>>
    ELSE IF Len(s) > 1 /\ s[1] = BS /\ s[2] \in {DQ, BS, "n", "u1234"}
         THEN <<"@">> \o Pairs(SubSeq(s, 3, Len(s)))
         ELSE <<s[1]>> \o Pairs(Tail(s))

(* Where the string that begins s ends: 0 if it does not.  *)
StringEnd(s) ==
    LET ends == {k \in 2..Len(s) : s[k] \in {DQ, BS, NL}}
    IN IF ends = {} THEN 0
       ELSE LET k == CHOOSE k \in ends : \A j \in ends : k <= j
            IN IF s[k] = DQ THEN k ELSE 0
Simple(s) ==
    IF s = <<>> THEN <<>>
    ELSE IF s[1] = DQ /\ StringEnd(s) # 0
         THEN <<"]">> \o Simple(SubSeq(s, StringEnd(s) + 1, Len(s)))
         ELSE <<IF s[1] \in Words THEN "]" ELSE s[1]>> \o Simple(Tail(s))

(* How many symbols from the first on are blanks and open brackets, up to the
   last bracket.                                                              *)
Brackets(s) ==
    LET runs == {k \in DOMAIN s : s[k] = "[" /\ \A j \in 1..k : s[j] \in White \cup {"["}}
    IN IF runs = {} THEN 0 ELSE CHOOSE k \in runs : \A j \in runs : j <= k
Opening(s, first) ==
    IF first /\ Brackets(s) # 0 THEN Opening(SubSeq(s, Brackets(s) + 1, Len(s)), FALSE)
    ELSE IF s = <<>> THEN <<>>
    ELSE IF s[1] \in {":", ","} /\ Brackets(Tail(s)) # 0
         THEN Opening(SubSeq(s, Brackets(Tail(s)) + 2, Len(s)), FALSE)
         ELSE <<s[1]>> \o Opening(Tail(s), FALSE)

(* Mutant: the pairs are replaced like values.  *)
PairsLikeValues(s) ==
    LET t == Simple(Pairs(s))
        u == [i \in DOMAIN t |-> IF t[i] = "@" THEN "]" ELSE t[i]]
    IN Range(Opening(u, TRUE)) \subseteq {"]", ",", ":", "{", "}"} \cup White
Accepted(s) == Range(Opening(Simple(Pairs(s)), TRUE)) \subseteq {"]", ",", ":", "{", "}"} \cup White

(* The third stage, eval, for texts that are JSON: the value and the rest of the
   text.  What it does with others that are accepted is not modelled.         *)
RECURSIVE Skip(_), Read(_), ReadItems(_, _, _), ReadString(_, _)
Skip(s) == IF s # <<>> /\ Head(s) \in White THEN Skip(Tail(s)) ELSE s
Unescape(c) == CASE c = "n" -> NL [] c = "u1234" -> "ctl" [] OTHER -> c
ReadString(s, has) ==
    CASE s[1] = DQ -> [value |-> Text(has), rest |-> Tail(s)]
      [] s[1] = BS -> ReadString(SubSeq(s, 3, Len(s)), Append(has, Unescape(s[2])))
      [] OTHER -> ReadString(Tail(s), Append(has, s[1]))
ReadItems(s, array, items) ==
    LET t == Skip(s)
    IN IF t[1] \in {"]", "}"}
       THEN [value |-> IF array THEN Array(items) ELSE Object(items), rest |-> Tail(t)]
       ELSE LET u == IF t[1] = "," THEN Skip(Tail(t)) ELSE t
                name == Read(u)
                item == IF array THEN name ELSE Read(Tail(Skip(name.rest)))
            IN ReadItems(item.rest, array,
                         Append(items, IF array THEN item.value
                                       ELSE <<name.value.has[1], item.value>>))
Read(s) ==
    LET t == Skip(s)
    IN CASE t[1] = DQ -> ReadString(Tail(t), <<>>)
         [] t[1] \in {"[", "{"} -> ReadItems(Tail(t), t[1] = "[", <<>>)
         [] OTHER -> [value |-> CASE t[1] = "true" -> True [] t[1] = "null" -> Null [] OTHER -> Number,
                      rest |-> Tail(t)]
Eval(s) == Read(s).value

(* The fourth stage: members first, a member whose value the reviver makes
   undefined is deleted, which leaves a hole in an array.  The reviver here gives
   every value back but those of a kind.                                      *)
RECURSIVE Walk(_, _)
Walk(v, drops) ==
    LET walked == [i \in DOMAIN v.members |-> <<v.members[i][1], Walk(v.members[i][2], drops)>>]
        kept == IF v.is = "array" THEN walked
                ELSE SelectSeq(walked, LAMBDA member : member[2].is # "undefined")
    IN IF v.is = drops THEN Undefined ELSE [v EXCEPT !.members = kept]

(* JSON.parse; "" for a SyntaxError.  *)
Parse(text, drops) ==
    LET s == EscapeCx(text)
    IN IF ~Accepted(s) THEN Value("error", <<>>, <<>>)
       ELSE IF drops = "none" THEN Eval(s) ELSE Walk(Eval(s), drops)
-----------------------------------------------------------------------------
(* What the functions promise, said without gaps, brackets and escapes.  *)

(* What JSON keeps of a value.  A literal, a string or a number is kept, its
   methods are not; what JSON has no form for is null in an array and left out of
   an object; arrays and objects alone speak through a toJSON, of what it gives
   the members are kept; and nothing is kept of what the replacer hides.      *)
RECURSIVE Kept(_, _, _), KeptMembers(_, _)
KeptMembers(rep, v) ==
    LET names == IF rep.is = "keys" THEN rep.names ELSE [i \in DOMAIN v.members |-> v.members[i][1]]
        Of(name) == {v.members[i][2] : i \in {j \in DOMAIN v.members : v.members[j][1] = name}}
        there == SelectSeq(names, LAMBDA name : Of(name) # {})
        kept == [i \in DOMAIN there |-> <<there[i], Kept(rep, there[i], CHOOSE w \in Of(there[i]) : TRUE)>>]
    IN SelectSeq(kept, LAMBDA member : member[2] # Undefined)
KeptForm(rep, v) ==
    CASE v.is = "infinite" -> Null
      [] v.is \in {"undefined", "function"} -> Undefined
      [] v.is = "array" ->
           Array([i \in DOMAIN v.members |->
                    LET kept == Kept(rep, "", v.members[i][2]) IN IF kept = Undefined THEN Null ELSE kept])
      [] v.is = "object" -> Object(KeptMembers(rep, v))
      [] OTHER -> Value(v.is, v.has, <<>>)
Kept(rep, name, v) ==
    CASE rep.is = "function" /\ name \in Range(rep.names) -> Undefined
      [] v.toJSON = <<>> \/ v.is \in {"string", "function"} -> KeptForm(rep, v)
      [] OTHER -> KeptForm(rep, v.toJSON[1])

(* A value without the parts of a kind.  *)
RECURSIVE Without(_, _)
Without(v, kind) ==
    CASE v.is = kind -> Undefined
      [] v.is = "array" -> Array([i \in DOMAIN v.members |-> Without(v.members[i][2], kind)])
      [] v.is = "object" ->
           Object([i \in DOMAIN SelectSeq(v.members, LAMBDA m : m[2].is # kind) |->
                     LET m == SelectSeq(v.members, LAMBDA n : n[2].is # kind)[i]
                     IN <<m[1], Without(m[2], kind)>>])
      [] OTHER -> v

(* The lines of a text, and how deep a line is: the brackets open before it, less
   those it closes.  Strings hold neither brackets nor line ends here.        *)
Depth(s, i) ==
    Cardinality({j \in 1..i - 1 : s[j] \in {"[", "{"}}) - Cardinality({j \in 1..i : s[j] \in {"]", "}"}})
Indented(s, space) ==
    \A i \in 1..Len(s) - 1 :
       s[i] = NL => LET body == {j \in i + 1..Len(s) : s[j] # " "}
                        next == CHOOSE j \in body : \A k \in body : j <= k
                    IN next - i - 1 = Depth(s, next) * Len(space)

(* How JavaScript reads the characters of a text: those outside its strings, or
   ok = FALSE when a string or an escape is not complete.                     *)
RECURSIVE Lexed(_, _)
Lexed(s, outside) ==
    IF s = <<>> THEN [ok |-> TRUE, outside |-> outside]
    ELSE IF s[1] # DQ THEN Lexed(Tail(s), outside \cup {s[1]})
    ELSE LET Escaped(k) == \E j \in 2..k - 1 : /\ \A i \in j..k - 1 : s[i] = BS
                                                /\ s[j - 1] # BS /\ (k - j) % 2 = 1
             ends == {k \in 2..Len(s) : s[k] \in {DQ, NL} /\ ~Escaped(k)}
         IN IF ends = {} THEN [ok |-> FALSE, outside |-> {}]
            ELSE LET k == CHOOSE k \in ends : \A j \in ends : k <= j
                 IN IF s[k] = NL THEN [ok |-> FALSE, outside |-> {}]
                    ELSE Lexed(SubSeq(s, k + 1, Len(s)), outside)

(* What stringify writes reads back as what JSON keeps of the value, whatever the
   replacer, the strings and the layout, and a reviver that drops values drops
   just these; with an indent, each line is as deep as its brackets.          *)
ReadsBack(v, rep, space, drops) ==
    LET kept == Kept(rep, "", v)
        text == Stringify(v, rep, space)
    IN IF kept = Undefined THEN text = <<>>
       ELSE /\ Parse(text, "none") = kept
            /\ Parse(text, drops) = Without(kept, drops)
            /\ Indented(text, space)

(* A text that parse accepts has nothing but data outside its strings, so that
   eval calls nothing and assigns nothing.                                    *)
AcceptsDataOnly(s) ==
    Accepted(EscapeCx(s)) =>
        LET read == Lexed(s, {})
        IN read.ok => read.outside \subseteq {"[", "]", "{", "}", ",", ":"} \cup White \cup Words
=============================================================================
