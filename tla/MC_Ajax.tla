------------------------------ MODULE MC_Ajax ------------------------------
(* Small instances of Ajax: two requests that share a page, each of any kind,
   and handlers that meddle; and of what it does to its data: a state of this
   model is one of Ajax, or one sample of the settings of a request, of the
   functions registered for it, of an answer, or of a JSON value or text.     *)
EXTENDS Ajax, TLC
CONSTANTS r1, r2, r3

VARIABLE sample   \* [of, ...], of = "request" in the states of Ajax

Data == INSTANCE AjaxData
JSON == INSTANCE Json

(* A timeout that need not expire covers a request without one.  *)
Offer(kind, global, guarded, filtered, throws) ==
    [kind |-> kind, global |-> global, timed |-> kind # "sync",
     guarded |-> guarded, filtered |-> filtered, throws |-> throws]
SomeOffers == {Offer("xhr", TRUE, TRUE, FALSE, TRUE), Offer("xhr", TRUE, FALSE, TRUE, FALSE),
               Offer("xhr", FALSE, FALSE, FALSE, FALSE),
               Offer("jsonp", TRUE, FALSE, TRUE, FALSE), Offer("jsonp", TRUE, TRUE, FALSE, TRUE),
               Offer("local", TRUE, FALSE, FALSE, TRUE), Offer("local", FALSE, TRUE, TRUE, FALSE),
               Offer("sync", TRUE, TRUE, TRUE, FALSE), Offer("sync", FALSE, FALSE, FALSE, TRUE),
               Offer("none", TRUE, FALSE, FALSE, FALSE)}
Symmetric == Permutations(Requests)

UpTo(S, n) == UNION {[1..k -> S] : k \in 0..n}

-----------------------------------------------------------------------------
(* Settings: object 1 is ajaxSettings, object 2 the page's options, 3 and 4 an
   object in each; two names, of which "a" may be flat.                       *)
Obj(kind, members) == [kind |-> kind, members |-> members]
Members(S) == UNION {[names -> S] : names \in SUBSET {"a", "b"}}
OptionSamples ==
    {[of |-> "options", flat |-> flat,
      heap |-> <<Obj("plain", global), Obj("plain", given), Obj(k3, in3), Obj(k4, in4)>>] :
       flat \in {{}, {"a"}}, global \in Members({-1, 3}), given \in Members({-2, 4, 0}),
       k3 \in {"plain", "array"}, k4 \in {"plain", "array", "other"},
       in3 \in [{"b"} -> {-3}], in4 \in Members({-4, 0})}
Paths == UpTo({"a", "b"}, 2) \ {<<>>}

(* Functions: up to three registrations, also for two types, also put first.  *)
Typing(of, first) == [of |-> of, first |-> first]
Typings == {<<Typing("json", FALSE)>>, <<Typing("jsonp", FALSE), Typing("json", TRUE)>>,
            <<Typing("*", FALSE)>>, <<Typing("*", TRUE)>>}
Registrations(id) ==
    [types : Typings, func : [id : {id}, gives : {"nothing", "transport", "json", "jsonp"}]]
Plans == {<<>>} \cup (Registrations(1) \X Registrations(2)) \cup {<<r>> : r \in Registrations(1)}
          \cup {<<r, s, t>> : r \in Registrations(1), s \in Registrations(2),
                             t \in {u \in Registrations(3) : u.types[1].of # "jsonp"}}
FunctionSamples ==
    {[of |-> "functions", plan |-> plan, dataTypes |-> <<first, "text">>] :
       plan \in Plans, first \in {"*", "json", "jsonp"}}
Unregistered == [type \in {"*", "json", "jsonp"} |-> <<>>]

(* Answers: jQuery's own converters, with and without the one JSONP adds, and
   two chains with equivalences at either end.                                *)
Conv(from, to, equivalent, broken) ==
    [from |-> from, to |-> to, equivalent |-> equivalent, broken |-> broken]
Own(broken) == <<Conv("*", "text", FALSE, FALSE), Conv("text", "html", TRUE, FALSE),
                 Conv("text", "json", FALSE, broken), Conv("text", "xml", FALSE, broken)>>
ConverterLists ==
    {Own(FALSE), Own(TRUE), <<Conv("script", "json", FALSE, FALSE)>> \o Own(FALSE),
     <<Conv("text", "json", FALSE, FALSE), Conv("json", "xml", TRUE, FALSE), Conv("html", "json", TRUE, FALSE)>>,
     <<Conv("xml", "json", FALSE, FALSE), Conv("html", "xml", TRUE, FALSE), Conv("text", "html", FALSE, TRUE)>>}
AnswerSamples ==
    [of : {"answer"}, dataTypes : UpTo({"*", "text", "json", "xml", "html"}, 3) \ {<<>>},
     content : {"none", "html", "json"}, converters : ConverterLists,
     responses : {<<"text">>, <<"text", "xml">>, <<"script">>}]

(* JSON values up to two deep, with the strings that need escapes, and texts of
   up to five symbols.                                                        *)
DQ == "\""
BS == "\\"
NL == "\n"
Strings == UpTo({"x", DQ, BS, NL, "ctl"}, 2)
Small == {JSON!Text(<<BS>>), JSON!Infinite, JSON!Undefined, JSON!True, JSON!Null,
          JSON!Standing(JSON!Function, JSON!Number), JSON!Standing(JSON!Text(<<"x">>), JSON!Number),
          JSON!Standing(JSON!Object(<<>>), JSON!Function),
          JSON!Standing(JSON!Array(<<>>), JSON!Standing(JSON!Object(<<>>), JSON!Number))}
Pairing(s) == {JSON!Array(s), JSON!Object([i \in DOMAIN s |-> <<<<"a", "b">>[i], s[i]>>])}
Flat == UNION {Pairing(s) : s \in UpTo(Small, 2)}
Deep == UNION {Pairing(<<v, w>>) : v \in Flat, w \in Small}
Replacers == {JSON!NoReplacer, JSON!Replacer("keys", <<"b">>), JSON!Replacer("keys", <<"b", "a", "n">>),
              JSON!Replacer("function", <<"a">>)}
ValueSamples ==
    [of : {"value"}, value : {JSON!Array(<<JSON!Text(s)>>) : s \in Strings},
     replacer : {JSON!NoReplacer}, space : {<<>>, <<" ", " ">>}]
    \cup [of : {"value"}, value : Small \cup Flat \cup Deep, replacer : Replacers, space : {<<>>, <<" ">>}]
TextSamples == [of : {"text"}, text : UpTo({DQ, BS, NL, "n", "[", ",", "1"}, 5)]

-----------------------------------------------------------------------------
MCInit == /\ Init
          /\ \/ sample = [of |-> "request"]
             \/ sample \in OptionSamples \/ sample \in FunctionSamples
             \/ sample \in AnswerSamples \/ sample \in ValueSamples \/ sample \in TextSamples
MCNext == sample.of = "request" /\ Next /\ UNCHANGED sample
MCSpec == MCInit /\ [][MCNext]_<<vars, sample>>

(* What jQuery.ajax makes of what it is given and of what it is answered: the
   settings of a request are its own, its prefilters and its transport are asked
   once each, and the answer is converted step by step.  See SettingsApart,
   InspectedOnce and Chained in module AjaxData.                              *)
DataPassedOn ==
    /\ sample.of = "options" => Data!SettingsApart(sample.heap, sample.flat, 1, 2, Paths)
    /\ sample.of = "functions" =>
         Data!InspectedOnce(FoldLeft(Data!AddTo, Unregistered, sample.plan), sample.dataTypes)
    /\ sample.of = "answer" => Data!Chained(sample)

(* JSON values written and read back, and texts that are only data: see ReadsBack
   and AcceptsDataOnly in module Json.                                        *)
JsonReadsBack ==
    /\ sample.of = "value" =>
         \A drops \in {"number", "boolean"} :
            JSON!ReadsBack(sample.value, sample.replacer, sample.space, drops)
    /\ sample.of = "text" => JSON!AcceptsDataOnly(sample.text)
=============================================================================
