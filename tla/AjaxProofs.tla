----------------------------- MODULE AjaxProofs -----------------------------
(* Proofs about jQuery.ajax (module Ajax), for any number of requests of any
   kinds and any number of things the handlers do: the names of JSONP come back
   and a JSONP request gets its own answer; and, where no handler aborts a
   request that is being sent, a request's handlers are told of its end once
   and the counter of running requests is exact.

   What makes these inductive is what the running chain has still to do: which
   calls of a request may stand in todo in which state of the request, that no
   two of its stages stand there, that the calls of its end stand there in the
   order of the code, and that what was pushed when it ended and was not heard
   yet is there still.                                                        *)
EXTENDS Ajax, SequenceTheorems, FiniteSetTheorems, TLAPS

Stages == {"start", "dispatch", "send", "convert"}
Ends   == Answering \cup {"cleanUp", "countDown"}
Good   == {"ok", "bad", "notmodified"}

XHR == [state : {-1, 0, 1, 2}, kind : Kinds, global : BOOLEAN, timed : BOOLEAN,
        guarded : BOOLEAN, filtered : BOOLEAN, throws : BOOLEAN,
        fireGlobals : BOOLEAN, refused : BOOLEAN, going : BOOLEAN, installed : BOOLEAN,
        transport : BOOLEAN, timer : BOOLEAN, live : BOOLEAN, flying : BOOLEAN,
        settled : BOOLEAN, outcome : Outcomes \cup {"none"}, name : Nat,
        container : Requests \cup {NoOne}, called : BOOLEAN]

Calling == [do : Events \cup Stages \cup Ends, r : Requests]

(* The types of the variables.  *)
Typed ==
    /\ jqXHR \in [Requests -> XHR]
    /\ todo \in Seq(Calling)
    /\ active \in Int /\ nonce \in Nat /\ antics \in Nat
    /\ window \in [Names -> Requests \cup {NoOne}]
    /\ oldCallbacks \in Seq(Nat)
    /\ heard \in [Requests -> Seq(Answering)]
    /\ busy \in BOOLEAN /\ threw \in BOOLEAN

(* How the local variables of one call of jQuery.ajax belong together.  *)
Sound(x) ==
    /\ x.state = -1 => x = Fresh
    /\ x.settled <=> x.outcome # "none"
    /\ x.settled => x.state = 2 \/ (AbortInSend /\ x.state = 1)
    /\ x.timer => x.state = 1
    /\ x.live => x.transport /\ x.state = 1
    /\ x.flying => x.live \/ x.state = 2
    /\ x.kind \in Named <=> x.name # 0
    /\ x.called => x.kind \in Named /\ x.state = 2 /\ ~x.flying /\ (x.kind = "local" => x.settled)
    /\ x.state = 1 \/ (x.kind = "jsonp" /\ x.flying) => x.outcome \notin Good

(* The state of a request of which a call is still to be made.  *)
Fits(c, x) ==
    /\ x.state # -1
    /\ c.do \in Stages => x.state \in {0, 2} /\ x.outcome \notin Good
    /\ c.do \in {"start", "dispatch", "send"} => ~x.called /\ (x.state = 2 => x.settled /\ ~x.flying)
    /\ c.do \in {"start", "dispatch"} => ~x.installed /\ ~x.transport
    /\ c.do = "start" => ~x.fireGlobals
    /\ c.do = "dispatch" /\ ~x.guarded /\ ~AbortInSend => x.state = 0 /\ x.going
    /\ c.do = "send" /\ ~AbortInSend => x.state = 0 /\ x.going /\ x.transport
    /\ c.do = "convert" => /\ x.state = 2 /\ ~x.flying /\ (x.called => x.container = c.r \/ x.settled)
                           /\ ~AbortInSend => ~x.settled
    /\ c.do \in Ends => x.settled
    /\ c.do = "cleanUp" => x.name # 0

(* The calls that stand in todo: they fit their requests, no two stages of one
   request stand there, what runs at once stands first, and the conversion of
   what an answer of its own brought stands last.                             *)
CallsFit  == \A i \in DOMAIN todo : Fits(todo[i], jqXHR[todo[i].r])
OneStage  == \A i, j \in DOMAIN todo :
                todo[i].r = todo[j].r /\ todo[i].do \in Stages /\ todo[j].do \in Stages => i = j
AtOnce    == {"cleanUp", "ajaxStart", "ajaxStop"}
Soon(c)   == c.do \in AtOnce \/ (c.do = "convert" /\ ~jqXHR[c.r].filtered)
Late(c)   == c.do = "convert" /\ jqXHR[c.r].name # 0
FirstOnly == \A i \in DOMAIN todo : Soon(todo[i]) => i = 1
LastOnly  == \A i, j \in DOMAIN todo : i < j => ~Late(todo[i])

(* A request that is done and not settled is to be converted, or something threw
   in the midst of it.                                                        *)
Has(do, r) == \E i \in DOMAIN todo : todo[i] = Call(do, r)
Midway(r) ==
    jqXHR[r].state = 2 /\ ~jqXHR[r].settled =>
        \/ Has("convert", r)
        \/ threw /\ (jqXHR[r].filtered \/ jqXHR[r].throws)

(* A JSONP request has its name until its clean-up.  *)
IsFirst(do, r) == todo # <<>> /\ todo[1] = Call(do, r)
Holds(r) == jqXHR[r].name # 0 /\ (~jqXHR[r].settled \/ IsFirst("cleanUp", r))

NamesKept ==
    /\ nonce <= Cardinality(Requests)
    /\ \A r \in Requests : jqXHR[r].name <= nonce /\ (Holds(r) => window[jqXHR[r].name] = r)
    /\ \A n \in Names, r \in Requests : window[n] = r => n <= nonce /\ Holds(r) /\ jqXHR[r].name = n
    /\ \A i \in DOMAIN oldCallbacks : oldCallbacks[i] \in 1..nonce /\ window[oldCallbacks[i]] = NoOne
    /\ \A i, j \in DOMAIN oldCallbacks : oldCallbacks[i] = oldCallbacks[j] => i = j
    /\ \A n \in 1..nonce : window[n] = NoOne => \E i \in DOMAIN oldCallbacks : oldCallbacks[i] = n

ChainInv == /\ Typed
            /\ \A r \in Requests : Sound(jqXHR[r]) /\ Midway(r)
            /\ CallsFit /\ OneStage /\ FirstOnly /\ LastOnly
NamesInv == ChainInv /\ NamesKept /\ OwnAnswer

-----------------------------------------------------------------------------
(* The order in which a request's end is told.  *)
Rank(do) ==
    IF do \in {"success", "error"} THEN 1
    ELSE IF do = "statusCode" THEN 2
    ELSE IF do \in {"ajaxSuccess", "ajaxError"} THEN 3
    ELSE IF do = "complete" THEN 4
    ELSE IF do = "ajaxComplete" THEN 5
    ELSE IF do = "countDown" THEN 6
    ELSE 0

InOrder == \A i, j \in DOMAIN todo :
              i < j /\ todo[i].r = todo[j].r /\ todo[i].do \in Ends /\ todo[j].do \in Ends
                 => Rank(todo[i].do) < Rank(todo[j].do)

(* What of the end of r was heard, and that the rest stands in todo, unless an
   exception of a handler took all of it away.                                *)
HeardTo(r, k) ==
    /\ heard[r] = SubSeq(Ending(r), 1, k)
    /\ \A i \in DOMAIN todo : todo[i].r = r /\ todo[i].do \in Answering =>
          \E j \in (k + 1)..Len(Ending(r)) : todo[i].do = Ending(r)[j]
    /\ ~threw \/ (\E i \in DOMAIN todo : todo[i].r = r /\ todo[i].do \in Answering) =>
          \A j \in (k + 1)..Len(Ending(r)) : Has(Ending(r)[j], r)
Told(r) == IF ~jqXHR[r].settled THEN heard[r] = <<>>
           ELSE \E k \in 0..Len(Ending(r)) : HeardTo(r, k)

First(do) == todo # <<>> /\ todo[1].do = do

(* The requests that active counts, and how ajaxStart and ajaxStop follow it.  *)
IsCounted(r) == jqXHR[r].fireGlobals /\ (~jqXHR[r].settled \/ Has("countDown", r))
Counted == {r \in Requests : IsCounted(r)}
Bells   == IF First("ajaxStart") THEN active > 0
           ELSE IF First("ajaxStop") THEN active = 0
           ELSE busy <=> active > 0
Counts  == active = Cardinality(Counted) /\ Bells

(* Only a request that was counted counts down.  *)
CountsFit == \A i \in DOMAIN todo : todo[i].do = "countDown" => jqXHR[todo[i].r].fireGlobals

EndInv == /\ InOrder /\ CountsFit
          /\ \A r \in Requests : Told(r)
          /\ ~threw => Counts

-----------------------------------------------------------------------------
(* One chain of calls: lists of the calls of an end, in the order of the code.  *)
LEMMA RankIs ==
  /\ Rank("cleanUp") = 0 /\ Rank("success") = 1 /\ Rank("error") = 1 /\ Rank("statusCode") = 2
  /\ Rank("ajaxSuccess") = 3 /\ Rank("ajaxError") = 3 /\ Rank("complete") = 4
  /\ Rank("ajaxComplete") = 5 /\ Rank("countDown") = 6
  /\ \A do \in Ends : Rank(do) \in 0..6 /\ (Rank(do) = 0 <=> do = "cleanUp") /\ (Rank(do) = 6 <=> do = "countDown")
<1>1. \A do : do \in {"success", "error"} => Rank(do) = 1
  BY DEF Rank
<1>2. Rank("statusCode") = 2 /\ \A do : do \in {"ajaxSuccess", "ajaxError"} => Rank(do) = 3
  BY DEF Rank
<1>3. Rank("complete") = 4 /\ Rank("ajaxComplete") = 5 /\ Rank("countDown") = 6
  BY DEF Rank
<1>4. Rank("cleanUp") = 0
  BY DEF Rank
<1>5. Ends = {"success", "error", "statusCode", "ajaxSuccess", "ajaxError", "complete", "ajaxComplete",
              "cleanUp", "countDown"}
  BY DEF Ends, Answering
<1> QED
  BY <1>1, <1>2, <1>3, <1>4, <1>5

In(e, s) == \E i \in DOMAIN s : s[i] = e
Listed(s, a, b) ==
    /\ s \in Seq(Ends)
    /\ \A i \in DOMAIN s : Rank(s[i]) \in a..b
    /\ \A i, j \in DOMAIN s : i < j => Rank(s[i]) < Rank(s[j])

LEMMA ListedNone ==
  ASSUME NEW a, NEW b
  PROVE  Listed(<<>>, a, b) /\ \A e : ~In(e, <<>>)
BY EmptySeq DEF Listed, In

LEMMA ListedOne ==
  ASSUME NEW e \in Ends, NEW a \in Int, NEW b \in Int, a <= Rank(e), Rank(e) <= b
  PROVE  Listed(<<e>>, a, b) /\ \A f : In(f, <<e>>) <=> f = e
<1>1. Rank(e) \in Int
  BY RankIs
<1>2. <<e>> \in Seq(Ends) /\ DOMAIN <<e>> = 1..1 /\ <<e>>[1] = e
  OBVIOUS
<1> QED
  BY <1>1, <1>2 DEF Listed, In

LEMMA ListedMaybe ==
  ASSUME NEW c, NEW e \in Ends, NEW a \in Int, NEW b \in Int, a <= Rank(e), Rank(e) <= b
  PROVE  LET s == IF c THEN <<e>> ELSE <<>>
         IN  Listed(s, a, b) /\ \A f : In(f, s) <=> c /\ f = e
<1>1. CASE c
  BY <1>1, ListedOne
<1>2. CASE ~c
  BY <1>2, ListedNone
<1> QED
  BY <1>1, <1>2

LEMMA InMaybe ==
  ASSUME NEW c, NEW e
  PROVE  \A f : In(f, IF c THEN <<e>> ELSE <<>>) <=> c /\ f = e
<1>1. \A f : In(f, <<e>>) <=> f = e
  <2>1. DOMAIN <<e>> = 1..1 /\ <<e>>[1] = e
    OBVIOUS
  <2> QED
    BY <2>1 DEF In
<1>2. \A f : ~In(f, <<>>)
  BY ListedNone
<1>3. CASE c
  BY <1>1, <1>3, Zenon
<1>4. CASE ~c
  BY <1>2, <1>4, Zenon
<1> QED
  BY <1>3, <1>4

LEMMA InJoin ==
  ASSUME NEW s \in Seq(Ends), NEW t \in Seq(Ends)
  PROVE  \A e : In(e, s \o t) <=> In(e, s) \/ In(e, t)
<1> DEFINE u == s \o t
<1>1. /\ Len(s) \in Nat /\ Len(t) \in Nat
      /\ DOMAIN s = 1..Len(s) /\ DOMAIN t = 1..Len(t)
  BY LenProperties
<1>2. /\ u \in Seq(Ends) /\ Len(u) = Len(s) + Len(t) /\ DOMAIN u = 1..(Len(s) + Len(t))
      /\ \A i \in 1..(Len(s) + Len(t)) : u[i] = IF i <= Len(s) THEN s[i] ELSE t[i - Len(s)]
  BY <1>1, ConcatProperties, LenProperties
<1> HIDE DEF u
<1>4. \A i \in DOMAIN u : \/ i \in DOMAIN s /\ u[i] = s[i]
                          \/ i > Len(s) /\ i - Len(s) \in DOMAIN t /\ u[i] = t[i - Len(s)]
  BY <1>1, <1>2
<1> SUFFICES ASSUME NEW e
             PROVE  In(e, u) <=> In(e, s) \/ In(e, t)
  BY DEF u
<1>5. In(e, u) => In(e, s) \/ In(e, t)
  BY <1>4 DEF In
<1>6. In(e, s) => In(e, u)
  BY <1>1, <1>2 DEF In
<1>7. ASSUME NEW j \in DOMAIN t, t[j] = e
      PROVE  In(e, u)
  <2>1. j \in Int /\ j >= 1 /\ j <= Len(t)
    BY <1>1
  <2>2. j + Len(s) \in DOMAIN u /\ j + Len(s) > Len(s) /\ (j + Len(s)) - Len(s) = j
    BY <1>1, <1>2, <2>1
  <2>3. u[j + Len(s)] = t[j]
    BY <1>2, <2>2
  <2> QED
    BY <1>7, <2>2, <2>3 DEF In
<1>8. In(e, t) => In(e, u)
  BY <1>7 DEF In
<1> QED
  BY <1>5, <1>6, <1>8

LEMMA ListedJoin ==
  ASSUME NEW s, NEW t, NEW a \in Int, NEW b \in Int, NEW c \in Int, NEW d \in Int,
         a <= b, b < c, c <= d, Listed(s, a, b), Listed(t, c, d)
  PROVE  Listed(s \o t, a, d)
<1> DEFINE u == s \o t
<1>1. /\ s \in Seq(Ends) /\ t \in Seq(Ends) /\ Len(s) \in Nat /\ Len(t) \in Nat
      /\ DOMAIN s = 1..Len(s) /\ DOMAIN t = 1..Len(t)
  BY LenProperties DEF Listed
<1>2. /\ u \in Seq(Ends) /\ Len(u) = Len(s) + Len(t) /\ DOMAIN u = 1..(Len(s) + Len(t))
      /\ \A i \in 1..(Len(s) + Len(t)) : u[i] = IF i <= Len(s) THEN s[i] ELSE t[i - Len(s)]
  BY <1>1, ConcatProperties, LenProperties
<1> HIDE DEF u
<1>3. /\ \A i \in DOMAIN s : Rank(s[i]) \in a..b
      /\ \A i \in DOMAIN t : Rank(t[i]) \in c..d
      /\ \A i, j \in DOMAIN s : i < j => Rank(s[i]) < Rank(s[j])
      /\ \A i, j \in DOMAIN t : i < j => Rank(t[i]) < Rank(t[j])
  BY DEF Listed
<1>4. \A i \in DOMAIN u : \/ i \in DOMAIN s /\ u[i] = s[i]
                          \/ i > Len(s) /\ i - Len(s) \in DOMAIN t /\ u[i] = t[i - Len(s)]
  BY <1>1, <1>2
<1>5. \A i \in DOMAIN u : Rank(u[i]) \in a..d
  BY <1>1, <1>3, <1>4
<1>6. \A i, j \in DOMAIN u : i < j => Rank(u[i]) < Rank(u[j])
  <2> SUFFICES ASSUME NEW i \in DOMAIN u, NEW j \in DOMAIN u, i < j
               PROVE  Rank(u[i]) < Rank(u[j])
    OBVIOUS
  <2>1. i \in Int /\ j \in Int
    BY <1>1, <1>2
  <2>2. CASE j \in DOMAIN s /\ u[j] = s[j]
    BY <1>1, <1>3, <1>4, <2>1, <2>2
  <2>3. CASE j > Len(s) /\ j - Len(s) \in DOMAIN t /\ u[j] = t[j - Len(s)]
    <3>1. CASE i \in DOMAIN s /\ u[i] = s[i]
      BY <1>3, <2>3, <3>1
    <3>2. CASE i > Len(s) /\ i - Len(s) \in DOMAIN t /\ u[i] = t[i - Len(s)]
      <4>1. i - Len(s) < j - Len(s)
        BY <1>1, <2>1
      <4> QED
        BY <1>3, <2>3, <3>2, <4>1
    <3> QED
      BY <1>4, <3>1, <3>2
  <2> QED
    BY <1>4, <2>2, <2>3
<1> QED
  BY <1>2, <1>5, <1>6 DEF Listed, u

Result(x) == IF IsSuccess(x.outcome) THEN "success" ELSE "error"
GlobalResult(x) == IF IsSuccess(x.outcome) THEN "ajaxSuccess" ELSE "ajaxError"

(* The calls that done() makes for a request that ends with the record x.  *)
EndList(x) ==
    ((IF x.name # 0 THEN <<"cleanUp">> ELSE <<>>)
      \o (IF x.installed THEN <<Result(x)>> ELSE <<>>)
      \o <<"statusCode">>)
    \o (IF x.fireGlobals THEN <<GlobalResult(x)>> ELSE <<>>)
    \o (IF x.installed THEN <<"complete">> ELSE <<>>)
    \o (IF x.fireGlobals THEN <<"ajaxComplete", "countDown">> ELSE <<>>)

(* What the handlers hear of it.  *)
HeardList(x) ==
    (IF x.installed THEN <<Result(x)>> ELSE <<>>) \o <<"statusCode">>
    \o (IF x.fireGlobals THEN <<GlobalResult(x)>> ELSE <<>>)
    \o (IF x.installed THEN <<"complete">> ELSE <<>>)
    \o (IF x.fireGlobals THEN <<"ajaxComplete">> ELSE <<>>)

Tells(x, e) ==
    \/ x.installed /\ e \in {Result(x), "complete"}
    \/ e = "statusCode"
    \/ x.fireGlobals /\ e \in {GlobalResult(x), "ajaxComplete"}

LEMMA LastPiece ==
  ASSUME NEW c
  PROVE  LET s == IF c THEN <<"ajaxComplete", "countDown">> ELSE <<>>
         IN  Listed(s, 5, 6) /\ \A f : In(f, s) <=> c /\ (f = "ajaxComplete" \/ f = "countDown")
<1>1. CASE c
  <2> DEFINE s == <<"ajaxComplete", "countDown">>
  <2>1. s \in Seq(Ends) /\ DOMAIN s = 1..2 /\ s[1] = "ajaxComplete" /\ s[2] = "countDown"
    BY DEF Ends, Answering
  <2> HIDE DEF s
  <2>2. Listed(s, 5, 6)
    BY <2>1, RankIs DEF Listed
  <2>3. \A f : In(f, s) <=> (f = "ajaxComplete" \/ f = "countDown")
    BY <2>1 DEF In
  <2> QED
    BY <1>1, <2>2, <2>3 DEF s
<1>2. CASE ~c
  BY <1>2, ListedNone
<1> QED
  BY <1>1, <1>2

LEMMA Pieces ==
  ASSUME NEW x
  PROVE  /\ LET s == IF x.name # 0 THEN <<"cleanUp">> ELSE <<>>
            IN  Listed(s, 0, 0) /\ \A f : In(f, s) <=> x.name # 0 /\ f = "cleanUp"
         /\ LET s == IF x.installed THEN <<Result(x)>> ELSE <<>>
            IN  Listed(s, 1, 1) /\ \A f : In(f, s) <=> x.installed /\ f = Result(x)
         /\ Listed(<<"statusCode">>, 2, 2) /\ \A f : In(f, <<"statusCode">>) <=> f = "statusCode"
         /\ LET s == IF x.fireGlobals THEN <<GlobalResult(x)>> ELSE <<>>
            IN  Listed(s, 3, 3) /\ \A f : In(f, s) <=> x.fireGlobals /\ f = GlobalResult(x)
         /\ LET s == IF x.installed THEN <<"complete">> ELSE <<>>
            IN  Listed(s, 4, 4) /\ \A f : In(f, s) <=> x.installed /\ f = "complete"
         /\ LET s == IF x.fireGlobals THEN <<"ajaxComplete">> ELSE <<>>
            IN  Listed(s, 5, 5) /\ \A f : In(f, s) <=> x.fireGlobals /\ f = "ajaxComplete"
<1>1. Result(x) \in Ends /\ Rank(Result(x)) = 1
  BY RankIs DEF Result, Ends, Answering
<1>2. GlobalResult(x) \in Ends /\ Rank(GlobalResult(x)) = 3
  BY RankIs DEF GlobalResult, Ends, Answering
<1>3. {"cleanUp", "statusCode", "complete", "ajaxComplete"} \subseteq Ends
  BY DEF Ends, Answering
<1>4. /\ 0 <= Rank("cleanUp") /\ Rank("cleanUp") <= 0 /\ 1 <= Rank(Result(x)) /\ Rank(Result(x)) <= 1
      /\ 2 <= Rank("statusCode") /\ Rank("statusCode") <= 2 /\ 3 <= Rank(GlobalResult(x)) /\ Rank(GlobalResult(x)) <= 3
      /\ 4 <= Rank("complete") /\ Rank("complete") <= 4 /\ 5 <= Rank("ajaxComplete") /\ Rank("ajaxComplete") <= 5
      /\ 0 \in Int /\ 1 \in Int /\ 2 \in Int /\ 3 \in Int /\ 4 \in Int /\ 5 \in Int
  BY <1>1, <1>2, RankIs
<1> HIDE DEF Result, GlobalResult
<1>5. /\ Listed(IF x.name # 0 THEN <<"cleanUp">> ELSE <<>>, 0, 0)
      /\ \A f : In(f, IF x.name # 0 THEN <<"cleanUp">> ELSE <<>>) <=> x.name # 0 /\ f = "cleanUp"
  <2>1. Listed(IF x.name # 0 THEN <<"cleanUp">> ELSE <<>>, 0, 0)
    BY <1>3, <1>4, ListedMaybe
  <2> QED
    BY <2>1, InMaybe, Zenon
<1>6. /\ Listed(IF x.installed THEN <<Result(x)>> ELSE <<>>, 1, 1)
      /\ \A f : In(f, IF x.installed THEN <<Result(x)>> ELSE <<>>) <=> x.installed /\ f = Result(x)
  <2>1. Listed(IF x.installed THEN <<Result(x)>> ELSE <<>>, 1, 1)
    BY <1>1, <1>4, ListedMaybe
  <2> QED
    BY <2>1, InMaybe, Zenon
<1>7. Listed(<<"statusCode">>, 2, 2) /\ \A f : In(f, <<"statusCode">>) <=> f = "statusCode"
  BY <1>3, <1>4, ListedOne, Zenon
<1>8. /\ Listed(IF x.fireGlobals THEN <<GlobalResult(x)>> ELSE <<>>, 3, 3)
      /\ \A f : In(f, IF x.fireGlobals THEN <<GlobalResult(x)>> ELSE <<>>) <=> x.fireGlobals /\ f = GlobalResult(x)
  <2>1. Listed(IF x.fireGlobals THEN <<GlobalResult(x)>> ELSE <<>>, 3, 3)
    BY <1>2, <1>4, ListedMaybe
  <2> QED
    BY <2>1, InMaybe, Zenon
<1>9. /\ Listed(IF x.installed THEN <<"complete">> ELSE <<>>, 4, 4)
      /\ \A f : In(f, IF x.installed THEN <<"complete">> ELSE <<>>) <=> x.installed /\ f = "complete"
  <2>1. Listed(IF x.installed THEN <<"complete">> ELSE <<>>, 4, 4)
    BY <1>3, <1>4, ListedMaybe
  <2> QED
    BY <2>1, InMaybe, Zenon
<1>10. /\ Listed(IF x.fireGlobals THEN <<"ajaxComplete">> ELSE <<>>, 5, 5)
      /\ \A f : In(f, IF x.fireGlobals THEN <<"ajaxComplete">> ELSE <<>>) <=> x.fireGlobals /\ f = "ajaxComplete"
  <2>1. Listed(IF x.fireGlobals THEN <<"ajaxComplete">> ELSE <<>>, 5, 5)
    BY <1>3, <1>4, ListedMaybe
  <2> QED
    BY <2>1, InMaybe, Zenon
<1> QED
  BY <1>5, <1>6, <1>7, <1>8, <1>9, <1>10, Zenon

LEMMA EndListIs ==
  ASSUME NEW x
  PROVE  /\ Listed(EndList(x), 0, 6)
         /\ \A e : In(e, EndList(x)) <=> \/ Tells(x, e)
                                         \/ x.name # 0 /\ e = "cleanUp"
                                         \/ x.fireGlobals /\ e = "countDown"
<1> DEFINE p0 == IF x.name # 0 THEN <<"cleanUp">> ELSE <<>>
           p1 == IF x.installed THEN <<Result(x)>> ELSE <<>>
           p2 == <<"statusCode">>
           p3 == IF x.fireGlobals THEN <<GlobalResult(x)>> ELSE <<>>
           p4 == IF x.installed THEN <<"complete">> ELSE <<>>
           p5 == IF x.fireGlobals THEN <<"ajaxComplete", "countDown">> ELSE <<>>
<1>0. /\ Listed(p0, 0, 0) /\ \A f : In(f, p0) <=> x.name # 0 /\ f = "cleanUp"
      /\ Listed(p1, 1, 1) /\ \A f : In(f, p1) <=> x.installed /\ f = Result(x)
      /\ Listed(p2, 2, 2) /\ \A f : In(f, p2) <=> f = "statusCode"
      /\ Listed(p3, 3, 3) /\ \A f : In(f, p3) <=> x.fireGlobals /\ f = GlobalResult(x)
      /\ Listed(p4, 4, 4) /\ \A f : In(f, p4) <=> x.installed /\ f = "complete"
      /\ Listed(p5, 5, 6) /\ \A f : In(f, p5) <=> x.fireGlobals /\ (f = "ajaxComplete" \/ f = "countDown")
  BY Pieces, LastPiece
<1>9. EndList(x) = p0 \o p1 \o p2 \o p3 \o p4 \o p5
  BY DEF EndList
<1> HIDE DEF p0, p1, p2, p3, p4, p5
<1>1. /\ Listed(p0 \o p1, 0, 1)
      /\ \A e : In(e, p0 \o p1) <=> In(e, p0) \/ In(e, p1)
  <2>1. Listed(p0, 0, 0) /\ Listed(p1, 1, 1)
    BY <1>0
  <2>2. Listed(p0 \o p1, 0, 1)
    BY <2>1, ListedJoin
  <2>3. p0 \in Seq(Ends) /\ p1 \in Seq(Ends)
    BY <2>1 DEF Listed
  <2>4. \A e : In(e, p0 \o p1) <=> In(e, p0) \/ In(e, p1)
    BY <2>3, InJoin, Zenon
  <2> QED
    BY <2>2, <2>4
<1>2. /\ Listed(p0 \o p1 \o p2, 0, 2)
      /\ \A e : In(e, p0 \o p1 \o p2) <=> In(e, p0 \o p1) \/ In(e, p2)
  <2>1. Listed(p0 \o p1, 0, 1) /\ Listed(p2, 2, 2)
    BY <1>0, <1>1
  <2>2. Listed(p0 \o p1 \o p2, 0, 2)
    BY <2>1, ListedJoin
  <2>3. p0 \o p1 \in Seq(Ends) /\ p2 \in Seq(Ends)
    BY <2>1 DEF Listed
  <2>4. \A e : In(e, p0 \o p1 \o p2) <=> In(e, p0 \o p1) \/ In(e, p2)
    BY <2>3, InJoin, Zenon
  <2> QED
    BY <2>2, <2>4
<1>3. /\ Listed(p0 \o p1 \o p2 \o p3, 0, 3)
      /\ \A e : In(e, p0 \o p1 \o p2 \o p3) <=> In(e, p0 \o p1 \o p2) \/ In(e, p3)
  <2>1. Listed(p0 \o p1 \o p2, 0, 2) /\ Listed(p3, 3, 3)
    BY <1>0, <1>2
  <2>2. Listed(p0 \o p1 \o p2 \o p3, 0, 3)
    BY <2>1, ListedJoin
  <2>3. p0 \o p1 \o p2 \in Seq(Ends) /\ p3 \in Seq(Ends)
    BY <2>1 DEF Listed
  <2>4. \A e : In(e, p0 \o p1 \o p2 \o p3) <=> In(e, p0 \o p1 \o p2) \/ In(e, p3)
    BY <2>3, InJoin, Zenon
  <2> QED
    BY <2>2, <2>4
<1>4. /\ Listed(p0 \o p1 \o p2 \o p3 \o p4, 0, 4)
      /\ \A e : In(e, p0 \o p1 \o p2 \o p3 \o p4) <=> In(e, p0 \o p1 \o p2 \o p3) \/ In(e, p4)
  <2>1. Listed(p0 \o p1 \o p2 \o p3, 0, 3) /\ Listed(p4, 4, 4)
    BY <1>0, <1>3
  <2>2. Listed(p0 \o p1 \o p2 \o p3 \o p4, 0, 4)
    BY <2>1, ListedJoin
  <2>3. p0 \o p1 \o p2 \o p3 \in Seq(Ends) /\ p4 \in Seq(Ends)
    BY <2>1 DEF Listed
  <2>4. \A e : In(e, p0 \o p1 \o p2 \o p3 \o p4) <=> In(e, p0 \o p1 \o p2 \o p3) \/ In(e, p4)
    BY <2>3, InJoin, Zenon
  <2> QED
    BY <2>2, <2>4
<1>5. /\ Listed(p0 \o p1 \o p2 \o p3 \o p4 \o p5, 0, 6)
      /\ \A e : In(e, p0 \o p1 \o p2 \o p3 \o p4 \o p5) <=> In(e, p0 \o p1 \o p2 \o p3 \o p4) \/ In(e, p5)
  <2>1. Listed(p0 \o p1 \o p2 \o p3 \o p4, 0, 4) /\ Listed(p5, 5, 6)
    BY <1>0, <1>4
  <2>2. Listed(p0 \o p1 \o p2 \o p3 \o p4 \o p5, 0, 6)
    BY <2>1, ListedJoin
  <2>3. p0 \o p1 \o p2 \o p3 \o p4 \in Seq(Ends) /\ p5 \in Seq(Ends)
    BY <2>1 DEF Listed
  <2>4. \A e : In(e, p0 \o p1 \o p2 \o p3 \o p4 \o p5) <=> In(e, p0 \o p1 \o p2 \o p3 \o p4) \/ In(e, p5)
    BY <2>3, InJoin, Zenon
  <2> QED
    BY <2>2, <2>4
<1>6. \A e : In(e, EndList(x)) <=> In(e, p0) \/ In(e, p1) \/ In(e, p2) \/ In(e, p3) \/ In(e, p4) \/ In(e, p5)
  BY <1>1, <1>2, <1>3, <1>4, <1>5, <1>9, Zenon
<1>7. \A e : In(e, EndList(x)) <=> \/ x.name # 0 /\ e = "cleanUp"
                                   \/ x.installed /\ e = Result(x)
                                   \/ e = "statusCode"
                                   \/ x.fireGlobals /\ e = GlobalResult(x)
                                   \/ x.installed /\ e = "complete"
                                   \/ x.fireGlobals /\ (e = "ajaxComplete" \/ e = "countDown")
  BY <1>0, <1>6, Zenon
<1>8. Listed(EndList(x), 0, 6)
  BY <1>5, <1>9, Zenon
<1> QED
  BY <1>7, <1>8, Zenon DEF Tells

LEMMA HeardListIs ==
  ASSUME NEW x
  PROVE  /\ Listed(HeardList(x), 1, 5)
         /\ \A e : In(e, HeardList(x)) <=> Tells(x, e)
<1> DEFINE p1 == IF x.installed THEN <<Result(x)>> ELSE <<>>
           p2 == <<"statusCode">>
           p3 == IF x.fireGlobals THEN <<GlobalResult(x)>> ELSE <<>>
           p4 == IF x.installed THEN <<"complete">> ELSE <<>>
           p5 == IF x.fireGlobals THEN <<"ajaxComplete">> ELSE <<>>
<1>0. /\ Listed(p1, 1, 1) /\ \A f : In(f, p1) <=> x.installed /\ f = Result(x)
      /\ Listed(p2, 2, 2) /\ \A f : In(f, p2) <=> f = "statusCode"
      /\ Listed(p3, 3, 3) /\ \A f : In(f, p3) <=> x.fireGlobals /\ f = GlobalResult(x)
      /\ Listed(p4, 4, 4) /\ \A f : In(f, p4) <=> x.installed /\ f = "complete"
      /\ Listed(p5, 5, 5) /\ \A f : In(f, p5) <=> x.fireGlobals /\ f = "ajaxComplete"
  BY Pieces
<1>9. HeardList(x) = p1 \o p2 \o p3 \o p4 \o p5
  BY DEF HeardList
<1> HIDE DEF p1, p2, p3, p4, p5
<1>1. /\ Listed(p1 \o p2, 1, 2)
      /\ \A e : In(e, p1 \o p2) <=> In(e, p1) \/ In(e, p2)
  <2>1. Listed(p1, 1, 1) /\ Listed(p2, 2, 2)
    BY <1>0
  <2>2. Listed(p1 \o p2, 1, 2)
    BY <2>1, ListedJoin
  <2>3. p1 \in Seq(Ends) /\ p2 \in Seq(Ends)
    BY <2>1 DEF Listed
  <2>4. \A e : In(e, p1 \o p2) <=> In(e, p1) \/ In(e, p2)
    BY <2>3, InJoin, Zenon
  <2> QED
    BY <2>2, <2>4
<1>2. /\ Listed(p1 \o p2 \o p3, 1, 3)
      /\ \A e : In(e, p1 \o p2 \o p3) <=> In(e, p1 \o p2) \/ In(e, p3)
  <2>1. Listed(p1 \o p2, 1, 2) /\ Listed(p3, 3, 3)
    BY <1>0, <1>1
  <2>2. Listed(p1 \o p2 \o p3, 1, 3)
    BY <2>1, ListedJoin
  <2>3. p1 \o p2 \in Seq(Ends) /\ p3 \in Seq(Ends)
    BY <2>1 DEF Listed
  <2>4. \A e : In(e, p1 \o p2 \o p3) <=> In(e, p1 \o p2) \/ In(e, p3)
    BY <2>3, InJoin, Zenon
  <2> QED
    BY <2>2, <2>4
<1>3. /\ Listed(p1 \o p2 \o p3 \o p4, 1, 4)
      /\ \A e : In(e, p1 \o p2 \o p3 \o p4) <=> In(e, p1 \o p2 \o p3) \/ In(e, p4)
  <2>1. Listed(p1 \o p2 \o p3, 1, 3) /\ Listed(p4, 4, 4)
    BY <1>0, <1>2
  <2>2. Listed(p1 \o p2 \o p3 \o p4, 1, 4)
    BY <2>1, ListedJoin
  <2>3. p1 \o p2 \o p3 \in Seq(Ends) /\ p4 \in Seq(Ends)
    BY <2>1 DEF Listed
  <2>4. \A e : In(e, p1 \o p2 \o p3 \o p4) <=> In(e, p1 \o p2 \o p3) \/ In(e, p4)
    BY <2>3, InJoin, Zenon
  <2> QED
    BY <2>2, <2>4
<1>4. /\ Listed(p1 \o p2 \o p3 \o p4 \o p5, 1, 5)
      /\ \A e : In(e, p1 \o p2 \o p3 \o p4 \o p5) <=> In(e, p1 \o p2 \o p3 \o p4) \/ In(e, p5)
  <2>1. Listed(p1 \o p2 \o p3 \o p4, 1, 4) /\ Listed(p5, 5, 5)
    BY <1>0, <1>3
  <2>2. Listed(p1 \o p2 \o p3 \o p4 \o p5, 1, 5)
    BY <2>1, ListedJoin
  <2>3. p1 \o p2 \o p3 \o p4 \in Seq(Ends) /\ p5 \in Seq(Ends)
    BY <2>1 DEF Listed
  <2>4. \A e : In(e, p1 \o p2 \o p3 \o p4 \o p5) <=> In(e, p1 \o p2 \o p3 \o p4) \/ In(e, p5)
    BY <2>3, InJoin, Zenon
  <2> QED
    BY <2>2, <2>4
<1>6. \A e : In(e, HeardList(x)) <=> In(e, p1) \/ In(e, p2) \/ In(e, p3) \/ In(e, p4) \/ In(e, p5)
  BY <1>1, <1>2, <1>3, <1>4, <1>9, Zenon
<1>7. \A e : In(e, HeardList(x)) <=> \/ x.installed /\ e = Result(x)
                                     \/ e = "statusCode"
                                     \/ x.fireGlobals /\ e = GlobalResult(x)
                                     \/ x.installed /\ e = "complete"
                                     \/ x.fireGlobals /\ e = "ajaxComplete"
  BY <1>0, <1>6, Zenon
<1>8. Listed(HeardList(x), 1, 5)
  BY <1>4, <1>9, Zenon
<1> QED
  BY <1>7, <1>8, Zenon DEF Tells

LEMMA EndingIs ==
  ASSUME NEW r \in Requests
  PROVE  Ending(r) = HeardList(jqXHR[r])
BY DEF Ending, HeardList, Result, GlobalResult

-----------------------------------------------------------------------------
(* What the operators on the record of a request return.  *)
OfDone(x) == <<x.name, x.kind, x.live, x.flying, x.installed, x.fireGlobals, x.container, x.called,
               x.filtered, x.throws, x.guarded>>

LEMMA BeginsDone ==
  ASSUME NEW x \in XHR
  PROVE  LET y == Done(x) IN
         /\ y \in XHR /\ y.state = 2 /\ ~y.timer /\ ~y.transport
         /\ y.settled = x.settled /\ y.outcome = x.outcome /\ OfDone(y) = OfDone(x)
BY DEF XHR, Done, OfDone

(* What becomes of the outcome: it is kept once there is one.  *)
Outcome(x, o) == IF x.settled THEN x.outcome ELSE o

LEMMA SettlesIt ==
  ASSUME NEW x \in XHR, NEW o \in Outcomes
  PROVE  LET y == Settled(x, o) IN
         /\ y \in XHR /\ y.state = x.state /\ y.timer = x.timer /\ y.transport = x.transport
         /\ y.settled /\ y.outcome = Outcome(x, o) /\ OfDone(y) = OfDone(x)
<1>1. PICK p : p = Outcome(x, o)
  OBVIOUS
<1>2. p \in Outcomes \cup {"none"}
  BY <1>1 DEF XHR, Outcome
<1>3. Settled(x, o) = [x EXCEPT !.settled = TRUE, !.outcome = p]
  BY <1>1 DEF Settled, Outcome, XHR
<1> QED
  BY <1>1, <1>2, <1>3 DEF XHR, OfDone

LEMMA DoneIs ==
  ASSUME NEW x \in XHR, NEW o \in Outcomes, x.state # 2
  PROVE  LET y == AfterDone(x, o) IN
         /\ y \in XHR /\ y.state = 2 /\ ~y.timer /\ ~y.transport /\ y.settled
         /\ y.outcome = Outcome(x, o) /\ OfDone(y) = OfDone(x)
<1> DEFINE d == Done(x)
<1>1. /\ d \in XHR /\ d.state = 2 /\ ~d.timer /\ ~d.transport
      /\ d.settled = x.settled /\ d.outcome = x.outcome /\ OfDone(d) = OfDone(x)
  BY BeginsDone
<1>2. AfterDone(x, o) = Settled(d, o) /\ Outcome(d, o) = Outcome(x, o)
  BY <1>1 DEF AfterDone, Outcome
<1> HIDE DEF d
<1> QED
  BY <1>1, <1>2, SettlesIt

Less(x) == <<x.name, x.kind, x.installed, x.fireGlobals, x.container, x.called, x.filtered, x.throws, x.guarded>>

LEMMA LessIs ==
  ASSUME NEW x \in XHR, NEW y \in XHR, OfDone(y) = OfDone(x)
  PROVE  Less(y) = Less(x) /\ y.live = x.live /\ y.flying = x.flying
BY DEF OfDone, Less

LEMMA FliesIs ==
  ASSUME NEW z \in XHR, NEW fl \in BOOLEAN
  PROVE  LET y == [z EXCEPT !.flying = fl] IN
         /\ y \in XHR /\ y.live = z.live /\ y.state = z.state /\ y.timer = z.timer
         /\ y.transport = z.transport /\ y.settled = z.settled /\ y.outcome = z.outcome /\ Less(y) = Less(z)
<1>1. [z EXCEPT !.flying = fl] \in XHR
  BY DEF XHR
<1> QED
  BY <1>1 DEF XHR, Less

LEMMA AbortIs ==
  ASSUME NEW x \in XHR
  PROVE  LET y == TransportAbort(x) IN
         /\ y \in XHR /\ y.state = x.state /\ y.timer = x.timer /\ y.transport = x.transport
         /\ y.settled = x.settled /\ y.outcome = x.outcome /\ Less(y) = Less(x)
         /\ y.live => x.live /\ ~x.transport
         /\ y.flying => x.flying \/ x.live
<1>1. CASE x.transport /\ x.live
  <2>1. PICK no \in BOOLEAN : no = FALSE
    OBVIOUS
  <2>2. PICK fl \in BOOLEAN : fl = (x.kind = "jsonp")
    OBVIOUS
  <2>3. PICK z : z = [x EXCEPT !.live = no]
    OBVIOUS
  <2>4. z \in XHR /\ z.live = no
    BY <2>1, <2>3 DEF XHR
  <2>5. PICK y : y = [z EXCEPT !.flying = fl]
    OBVIOUS
  <2>6. /\ y \in XHR /\ y.live = z.live /\ y.state = z.state /\ y.timer = z.timer
        /\ y.transport = z.transport /\ y.settled = z.settled /\ y.outcome = z.outcome /\ Less(y) = Less(z)
    BY <2>2, <2>4, <2>5, FliesIs
  <2>7. TransportAbort(x) = y
    BY <1>1, <2>1, <2>2, <2>3, <2>5 DEF TransportAbort, XHR
  <2>8. /\ z.state = x.state /\ z.timer = x.timer /\ z.transport = x.transport
        /\ z.settled = x.settled /\ z.outcome = x.outcome /\ Less(z) = Less(x)
    BY <2>3 DEF XHR, Less
  <2> QED
    BY <1>1, <2>1, <2>4, <2>6, <2>7, <2>8
<1>2. CASE ~(x.transport /\ x.live)
  BY <1>2 DEF TransportAbort
<1> QED
  BY <1>1, <1>2

(* The end of a request: what becomes of its record, and which calls come.  *)
Finished(x, y, o) ==
    /\ y \in XHR /\ Sound(y) /\ y.state = 2 /\ y.settled /\ ~y.transport
    /\ y.outcome = Outcome(x, o) /\ Less(y) = Less(x) /\ y.flying = x.flying

LEMMA FinishedIs ==
  ASSUME NEW x \in XHR, NEW o \in Outcomes, x.state # 2, x.state # -1, ~x.live,
         x.kind \in Named <=> x.name # 0, x.called => x.kind \in Named /\ ~x.flying,
         x.settled <=> x.outcome # "none",
         x.kind = "jsonp" /\ x.flying => Outcome(x, o) \notin Good
  PROVE  Finished(x, AfterDone(x, o), o)
<1> DEFINE y == AfterDone(x, o)
<1>1. /\ y \in XHR /\ y.state = 2 /\ ~y.timer /\ ~y.transport /\ y.settled
      /\ y.outcome = Outcome(x, o) /\ OfDone(y) = OfDone(x)
  BY DoneIs
<1> HIDE DEF y
<1>2. Less(y) = Less(x) /\ y.live = x.live /\ y.flying = x.flying
  BY <1>1, LessIs
<1>3. y.kind = x.kind /\ y.name = x.name /\ y.called = x.called
  BY <1>2 DEF Less
<1>4. y.outcome # "none"
  BY <1>1 DEF Outcome, Outcomes
<1>5. Sound(y)
  BY <1>1, <1>2, <1>3, <1>4 DEF Sound
<1> QED
  BY <1>1, <1>2, <1>5 DEF Finished, y

(* Settled for the first time, or once more, by what a conversion gave.  *)
LEMMA TellsAll ==
  ASSUME NEW r \in Requests, NEW x, NEW y, NEW o \in Outcomes, ~x.settled, y.outcome = o,
         y.name = x.name, y.installed = x.installed, y.fireGlobals = x.fireGlobals
  PROVE  HandlerCalls(r, x, o) = Calls(r, EndList(y))
<1>2. HandlerCalls(r, x, o) =
        Calls(r, ((IF x.name # 0 THEN <<"cleanUp">> ELSE <<>>)
                  \o (IF x.installed THEN <<IF IsSuccess(o) THEN "success" ELSE "error">> ELSE <<>>)
                  \o <<"statusCode">>)
                 \o (IF x.fireGlobals THEN <<IF IsSuccess(o) THEN "ajaxSuccess" ELSE "ajaxError">> ELSE <<>>)
                 \o (IF x.installed THEN <<"complete">> ELSE <<>>)
                 \o (IF x.fireGlobals THEN <<"ajaxComplete", "countDown">> ELSE <<>>))
  BY DEF HandlerCalls, Settling, Completing
<1>3. EndList(y) = ((IF x.name # 0 THEN <<"cleanUp">> ELSE <<>>)
                  \o (IF x.installed THEN <<IF IsSuccess(o) THEN "success" ELSE "error">> ELSE <<>>)
                  \o <<"statusCode">>)
                 \o (IF x.fireGlobals THEN <<IF IsSuccess(o) THEN "ajaxSuccess" ELSE "ajaxError">> ELSE <<>>)
                 \o (IF x.installed THEN <<"complete">> ELSE <<>>)
                 \o (IF x.fireGlobals THEN <<"ajaxComplete", "countDown">> ELSE <<>>)
  BY Zenon DEF EndList, Result, GlobalResult
<1> QED
  BY <1>2, <1>3

LEMMA DoneCallsIs ==
  ASSUME NEW r \in Requests, NEW x \in XHR, NEW o \in Outcomes, x.state # 2, ~x.settled
  PROVE  DoneCalls(r, x, o) = Calls(r, EndList(AfterDone(x, o)))
<1> DEFINE y == AfterDone(x, o)
<1>1. y.outcome = o /\ OfDone(y) = OfDone(x)
  BY DoneIs DEF Outcome
<1> HIDE DEF y
<1>2. y.name = x.name /\ y.installed = x.installed /\ y.fireGlobals = x.fireGlobals
  BY <1>1 DEF OfDone
<1>3. HandlerCalls(r, x, o) = Calls(r, EndList(y))
  BY <1>1, <1>2, TellsAll
<1> QED
  BY <1>3 DEF DoneCalls, y

LEMMA CallIs ==
  ASSUME NEW do \in Events \cup Stages \cup Ends, NEW r \in Requests
  PROVE  Call(do, r) \in Calling /\ Call(do, r).do = do /\ Call(do, r).r = r
BY DEF Call, Calling

LEMMA CallsAre ==
  ASSUME NEW r \in Requests, NEW s \in Seq(Events \cup Stages \cup Ends)
  PROVE  /\ Calls(r, s) \in Seq(Calling) /\ DOMAIN Calls(r, s) = DOMAIN s /\ Len(Calls(r, s)) = Len(s)
         /\ \A i \in DOMAIN s : Calls(r, s)[i] = Call(s[i], r) /\ Calls(r, s)[i].do = s[i] /\ Calls(r, s)[i].r = r
<1>1. Len(s) \in Nat /\ DOMAIN s = 1..Len(s) /\ \A i \in DOMAIN s : s[i] \in Events \cup Stages \cup Ends
  BY LenProperties, ElementOfSeq
<1>2. \A i \in DOMAIN s : Call(s[i], r) \in Calling
  BY <1>1, CallIs
<1>3. Calls(r, s) \in [1..Len(s) -> Calling]
  BY <1>1, <1>2 DEF Calls
<1>4. Calls(r, s) \in Seq(Calling)
  BY <1>1, <1>3, SeqDef
<1>5. DOMAIN Calls(r, s) = DOMAIN s /\ Len(Calls(r, s)) = Len(s)
  BY <1>1, <1>3, <1>4, LenProperties
<1>6. \A i \in DOMAIN s : Calls(r, s)[i] = Call(s[i], r)
  BY DEF Calls
<1>7. \A i \in DOMAIN s : Call(s[i], r).do = s[i] /\ Call(s[i], r).r = r
  BY <1>1, CallIs
<1> QED
  BY <1>4, <1>5, <1>6, <1>7

(* The calls s are those of the end of r with the record x.  *)
EndCalls(s, r, x) ==
    /\ s \in Seq(Calling)
    /\ \A i \in DOMAIN s : s[i].r = r /\ s[i].do \in Ends /\ s[i] = Call(s[i].do, r)
    /\ \A i, j \in DOMAIN s : i < j => Rank(s[i].do) < Rank(s[j].do)
    /\ \A e : (\E i \in DOMAIN s : s[i].do = e) <=> \/ Tells(x, e)
                                                    \/ x.name # 0 /\ e = "cleanUp"
                                                    \/ x.fireGlobals /\ e = "countDown"

LEMMA EndCallsAre ==
  ASSUME NEW r \in Requests, NEW x
  PROVE  EndCalls(Calls(r, EndList(x)), r, x)
<1> DEFINE l == EndList(x)  s == Calls(r, l)
<1>1. /\ l \in Seq(Ends) /\ \A i, j \in DOMAIN l : i < j => Rank(l[i]) < Rank(l[j])
      /\ \A e : In(e, l) <=> Tells(x, e) \/ (x.name # 0 /\ e = "cleanUp") \/ (x.fireGlobals /\ e = "countDown")
  BY EndListIs DEF Listed
<1> HIDE DEF l
<1>2. l \in Seq(Events \cup Stages \cup Ends) /\ \A i \in DOMAIN l : l[i] \in Ends
  BY <1>1, SeqMonotonic, LenProperties, ElementOfSeq
<1>3. /\ s \in Seq(Calling) /\ DOMAIN s = DOMAIN l
      /\ \A i \in DOMAIN l : s[i] = Call(l[i], r) /\ s[i].do = l[i] /\ s[i].r = r
  BY <1>2, CallsAre
<1> HIDE DEF s
<1>4. \A i, j \in DOMAIN s : i < j => Rank(s[i].do) < Rank(s[j].do)
  BY <1>1, <1>3
<1>5. \A i \in DOMAIN s : s[i].r = r /\ s[i].do \in Ends /\ s[i] = Call(s[i].do, r)
  BY <1>2, <1>3
<1>6. \A e : (\E i \in DOMAIN s : s[i].do = e) <=> In(e, l)
  BY <1>3 DEF In
<1> QED
  BY <1>1, <1>3, <1>4, <1>5, <1>6, Zenon DEF s, l, EndCalls

-----------------------------------------------------------------------------
(* A step takes the first call from todo, if there is one, and puts others
   before the rest.                                                           *)
Rest == IF todo = <<>> THEN <<>> ELSE Tail(todo)
Pushes(s) == s \in Seq(Calling) /\ todo' = s \o Rest

(* A call that stays, at place j, or one that was pushed, at place i.  *)
Stays(j)  == j \in DOMAIN todo /\ j > 1

LEMMA RestIs ==
  ASSUME Typed
  PROVE  /\ Rest \in Seq(Calling) /\ Len(Rest) \in Nat /\ DOMAIN Rest = 1..Len(Rest)
         /\ \A j \in DOMAIN Rest : Stays(j + 1) /\ Rest[j] = todo[j + 1]
         /\ \A j : Stays(j) => j - 1 \in DOMAIN Rest /\ Rest[j - 1] = todo[j]
<1>1. /\ todo \in Seq(Calling) /\ Len(todo) \in Nat /\ DOMAIN todo = 1..Len(todo)
  BY LenProperties DEF Typed
<1>2. CASE todo = <<>>
  <2>1. Rest = <<>> /\ Len(todo) = 0
    BY <1>2, EmptySeq DEF Rest
  <2>2. Rest \in Seq(Calling) /\ Len(Rest) = 0 /\ DOMAIN Rest = 1..0
    BY <2>1, EmptySeq, LenProperties
  <2> QED
    BY <1>1, <2>1, <2>2 DEF Stays
<1>3. CASE todo # <<>>
  <2>1. Rest = Tail(todo)
    BY <1>3 DEF Rest
  <2>2. /\ Rest \in Seq(Calling) /\ Len(Rest) = Len(todo) - 1
        /\ \A i \in 1..Len(Rest) : Rest[i] = todo[i + 1]
    BY <1>1, <1>3, <2>1, HeadTailProperties
  <2>3. Len(Rest) \in Nat /\ DOMAIN Rest = 1..Len(Rest)
    BY <2>2, LenProperties
  <2> QED
    BY <1>1, <2>2, <2>3 DEF Stays
<1> QED
  BY <1>2, <1>3

LEMMA PushIs ==
  ASSUME Typed, NEW s, Pushes(s)
  PROVE  /\ todo' \in Seq(Calling) /\ DOMAIN todo' \subseteq Int /\ DOMAIN todo \subseteq Int
         /\ \A i \in DOMAIN s : i \in DOMAIN todo' /\ todo'[i] = s[i]
         /\ \A j : Stays(j) => \E i \in DOMAIN todo' : i \notin DOMAIN s /\ todo'[i] = todo[j]
         /\ \A i \in DOMAIN todo' : \/ i \in DOMAIN s /\ todo'[i] = s[i]
                                    \/ i \notin DOMAIN s /\ \E j : Stays(j) /\ todo'[i] = todo[j]
         /\ \A i, j \in DOMAIN todo' : i < j =>
               \/ i \in DOMAIN s /\ j \in DOMAIN s /\ todo'[i] = s[i] /\ todo'[j] = s[j]
               \/ i \in DOMAIN s /\ todo'[i] = s[i] /\ \E k : Stays(k) /\ todo'[j] = todo[k]
               \/ \E h, k : Stays(h) /\ Stays(k) /\ h < k /\ todo'[i] = todo[h] /\ todo'[j] = todo[k]
<1>1. /\ s \in Seq(Calling) /\ Len(s) \in Nat /\ DOMAIN s = 1..Len(s)
  BY LenProperties DEF Pushes
<1>2. /\ Rest \in Seq(Calling) /\ Len(Rest) \in Nat /\ DOMAIN Rest = 1..Len(Rest)
      /\ \A j \in DOMAIN Rest : Stays(j + 1) /\ Rest[j] = todo[j + 1]
      /\ \A j : Stays(j) => j - 1 \in DOMAIN Rest /\ Rest[j - 1] = todo[j]
  BY RestIs
<1>3. /\ todo' = s \o Rest /\ todo' \in Seq(Calling) /\ Len(todo') = Len(s) + Len(Rest)
      /\ \A i \in 1..(Len(s) + Len(Rest)) : todo'[i] = IF i <= Len(s) THEN s[i] ELSE Rest[i - Len(s)]
  BY <1>1, <1>2, ConcatProperties DEF Pushes
<1>4. DOMAIN todo' = 1..(Len(s) + Len(Rest))
  BY <1>3, LenProperties
<1>5. DOMAIN todo \subseteq Int
  BY LenProperties DEF Typed
<1>6. \A i \in DOMAIN s : i \in DOMAIN todo' /\ todo'[i] = s[i]
  BY <1>1, <1>2, <1>3, <1>4
<1>7. \A i \in DOMAIN todo' : i \notin DOMAIN s => /\ Stays(i - Len(s) + 1) /\ todo'[i] = todo[i - Len(s) + 1]
                                                   /\ i > Len(s)
  <2> SUFFICES ASSUME NEW i \in DOMAIN todo', i \notin DOMAIN s
               PROVE  Stays(i - Len(s) + 1) /\ todo'[i] = todo[i - Len(s) + 1] /\ i > Len(s)
    OBVIOUS
  <2>1. i \in Int /\ i > Len(s) /\ i - Len(s) \in DOMAIN Rest
    BY <1>1, <1>2, <1>4
  <2>2. todo'[i] = Rest[i - Len(s)]
    BY <1>1, <1>3, <1>4, <2>1
  <2> QED
    BY <1>2, <2>1, <2>2
<1>8. \A j : Stays(j) => \E i \in DOMAIN todo' : i \notin DOMAIN s /\ todo'[i] = todo[j]
  <2> SUFFICES ASSUME NEW j, Stays(j)
               PROVE  \E i \in DOMAIN todo' : i \notin DOMAIN s /\ todo'[i] = todo[j]
    OBVIOUS
  <2>1. j \in Int /\ j - 1 \in DOMAIN Rest /\ Rest[j - 1] = todo[j]
    BY <1>2, <1>5 DEF Stays
  <2> DEFINE i == Len(s) + (j - 1)
  <2>2. i \in DOMAIN todo' /\ i > Len(s) /\ i - Len(s) = j - 1 /\ i \notin DOMAIN s
    BY <1>1, <1>2, <1>4, <2>1
  <2>3. todo'[i] = Rest[i - Len(s)]
    BY <1>1, <1>3, <1>4, <2>2
  <2> QED
    BY <2>1, <2>2, <2>3
<1>9. ASSUME NEW i \in DOMAIN todo', NEW j \in DOMAIN todo', i < j
      PROVE  \/ i \in DOMAIN s /\ j \in DOMAIN s /\ todo'[i] = s[i] /\ todo'[j] = s[j]
             \/ i \in DOMAIN s /\ todo'[i] = s[i] /\ \E k : Stays(k) /\ todo'[j] = todo[k]
             \/ \E h, k : Stays(h) /\ Stays(k) /\ h < k /\ todo'[i] = todo[h] /\ todo'[j] = todo[k]
  <2>1. CASE j \in DOMAIN s
    <3>1. i \in DOMAIN s
      BY <1>1, <1>4, <1>9, <2>1
    <3> QED
      BY <1>6, <2>1, <3>1
  <2>2. CASE j \notin DOMAIN s /\ i \in DOMAIN s
    BY <1>6, <1>7, <2>2
  <2>3. CASE j \notin DOMAIN s /\ i \notin DOMAIN s
    <3>1. i - Len(s) + 1 < j - Len(s) + 1
      BY <1>1, <1>4, <1>9
    <3> QED
      BY <1>7, <2>3, <3>1
  <2> QED
    BY <2>1, <2>2, <2>3
<1>10. DOMAIN todo' \subseteq Int
  BY <1>1, <1>2, <1>4
<1>11. \A i \in DOMAIN todo' : \/ i \in DOMAIN s /\ todo'[i] = s[i]
                               \/ i \notin DOMAIN s /\ \E j : Stays(j) /\ todo'[i] = todo[j]
  BY <1>6, <1>7
<1> QED
  BY <1>3, <1>5, <1>6, <1>8, <1>9, <1>10, <1>11, Zenon

(* The first call of the chain.  *)
LEMMA FirstIs ==
  ASSUME Typed, todo # <<>>
  PROVE  /\ Head(todo) = todo[1] /\ 1 \in DOMAIN todo /\ todo[1] \in Calling
         /\ \A j \in DOMAIN todo : j = 1 \/ Stays(j)
         /\ Rest = Tail(todo)
<1>1. /\ Len(todo) \in Nat \ {0} /\ DOMAIN todo = 1..Len(todo)
  BY EmptySeq, LenProperties DEF Typed
<1>2. Head(todo) = todo[1]
  BY <1>1 DEF Typed
<1> QED
  BY <1>1, <1>2, ElementOfSeq DEF Typed, Stays, Rest

(* The conditions on the calls of a chain after a step that pushes s.  *)
Alone       == \A j : ~Stays(j)
SoonNext(c) == c.do \in AtOnce \/ (c.do = "convert" /\ ~jqXHR'[c.r].filtered)
LateNext(c) == c.do = "convert" /\ jqXHR'[c.r].name # 0
StayFit     == \A j : Stays(j) => /\ Fits(todo[j], jqXHR'[todo[j].r])
                                  /\ jqXHR'[todo[j].r].name = jqXHR[todo[j].r].name
                                  /\ jqXHR'[todo[j].r].filtered = jqXHR[todo[j].r].filtered
NewFit(s) ==
    \A i \in DOMAIN s : /\ Fits(s[i], jqXHR'[s[i].r])
                        /\ SoonNext(s[i]) => i = 1
                        /\ LateNext(s[i]) => Alone /\ \A j \in DOMAIN s : ~(i < j)
NewStage(s) ==
    /\ \A i, j \in DOMAIN s : s[i].r = s[j].r /\ s[i].do \in Stages /\ s[j].do \in Stages => i = j
    /\ \A i \in DOMAIN s : \A j : Stays(j) /\ s[i].do \in Stages /\ todo[j].do \in Stages => s[i].r # todo[j].r
MidFit(q, s) ==
    jqXHR'[q].state = 2 /\ ~jqXHR'[q].settled =>
        \/ \E i \in DOMAIN s : s[i] = Call("convert", q)
        \/ /\ jqXHR[q].state = 2 /\ ~jqXHR[q].settled /\ ~IsFirst("convert", q)
           /\ jqXHR'[q].filtered = jqXHR[q].filtered /\ jqXHR'[q].throws = jqXHR[q].throws

LEMMA ChainGoes ==
  ASSUME ChainInv, Typed', NEW s, Pushes(s), StayFit, NewFit(s), NewStage(s), threw' = threw,
         \A r \in Requests : Sound(jqXHR'[r]) /\ MidFit(r, s)
  PROVE  ChainInv'
<1>1. /\ DOMAIN todo' \subseteq Int /\ DOMAIN todo \subseteq Int
      /\ \A i \in DOMAIN s : i \in DOMAIN todo' /\ todo'[i] = s[i]
      /\ \A j : Stays(j) => \E i \in DOMAIN todo' : i \notin DOMAIN s /\ todo'[i] = todo[j]
      /\ \A i \in DOMAIN todo' : \/ i \in DOMAIN s /\ todo'[i] = s[i]
                                 \/ i \notin DOMAIN s /\ \E j : Stays(j) /\ todo'[i] = todo[j]
      /\ \A i, j \in DOMAIN todo' : i < j =>
               \/ i \in DOMAIN s /\ j \in DOMAIN s /\ todo'[i] = s[i] /\ todo'[j] = s[j]
               \/ i \in DOMAIN s /\ todo'[i] = s[i] /\ \E k : Stays(k) /\ todo'[j] = todo[k]
               \/ \E h, k : Stays(h) /\ Stays(k) /\ h < k /\ todo'[i] = todo[h] /\ todo'[j] = todo[k]
  BY PushIs, Zenon DEF ChainInv
<1>2. CallsFit'
  <2> SUFFICES ASSUME NEW i \in DOMAIN todo'
               PROVE  Fits(todo'[i], jqXHR'[todo'[i].r])
    BY DEF CallsFit, Fits
  <2>1. CASE i \in DOMAIN s /\ todo'[i] = s[i]
    BY <2>1 DEF NewFit
  <2>2. CASE \E j : Stays(j) /\ todo'[i] = todo[j]
    BY <2>2 DEF StayFit
  <2> QED
    BY <1>1, <2>1, <2>2
<1>3. ASSUME NEW i \in DOMAIN todo', NEW j \in DOMAIN todo', i < j,
             todo'[i].r = todo'[j].r, todo'[i].do \in Stages, todo'[j].do \in Stages
      PROVE  FALSE
  <2>1. CASE i \in DOMAIN s /\ j \in DOMAIN s /\ todo'[i] = s[i] /\ todo'[j] = s[j]
    <3>1. i = j
      BY <1>3, <2>1, Zenon DEF NewStage
    <3> QED
      BY <1>1, <1>3, <3>1
  <2>2. CASE i \in DOMAIN s /\ todo'[i] = s[i] /\ \E k : Stays(k) /\ todo'[j] = todo[k]
    BY <1>3, <2>2, Zenon DEF NewStage
  <2>3. CASE \E h, k : Stays(h) /\ Stays(k) /\ h < k /\ todo'[i] = todo[h] /\ todo'[j] = todo[k]
    <3>1. PICK h, k : Stays(h) /\ Stays(k) /\ h < k /\ todo'[i] = todo[h] /\ todo'[j] = todo[k]
      BY <2>3
    <3>2. h \in DOMAIN todo /\ k \in DOMAIN todo /\ h \in Int /\ k \in Int
      BY <1>1, <3>1 DEF Stays
    <3>3. h = k
      BY <1>3, <3>1, <3>2 DEF ChainInv, OneStage
    <3> QED
      BY <3>1, <3>2, <3>3
  <2> QED
    BY <1>1, <1>3, <2>1, <2>2, <2>3
<1>4. OneStage'
  <2> SUFFICES ASSUME NEW i \in DOMAIN todo', NEW j \in DOMAIN todo',
                      todo'[i].r = todo'[j].r, todo'[i].do \in Stages, todo'[j].do \in Stages
               PROVE  i = j
    BY DEF OneStage
  <2>1. i \in Int /\ j \in Int
    BY <1>1
  <2>2. ~(i < j) /\ ~(j < i)
    BY <1>3
  <2> QED
    BY <2>1, <2>2
<1>5. FirstOnly'
  <2> SUFFICES ASSUME NEW i \in DOMAIN todo', SoonNext(todo'[i])
               PROVE  i = 1
    BY DEF FirstOnly, Soon, SoonNext, AtOnce
  <2>1. CASE i \in DOMAIN s /\ todo'[i] = s[i]
    BY <2>1 DEF NewFit
  <2>2. ASSUME NEW j, Stays(j), todo'[i] = todo[j]
        PROVE  FALSE
    <3>1. Soon(todo[j])
      BY <2>2 DEF Soon, SoonNext, StayFit
    <3>2. j = 1
      BY <2>2, <3>1 DEF ChainInv, FirstOnly, Stays
    <3> QED
      BY <2>2, <3>2 DEF Stays
  <2> QED
    BY <1>1, <2>1, <2>2
<1>6. LastOnly'
  <2> SUFFICES ASSUME NEW i \in DOMAIN todo', NEW j \in DOMAIN todo', i < j, LateNext(todo'[i])
               PROVE  FALSE
    BY DEF LastOnly, Late, LateNext
  <2>1. CASE i \in DOMAIN s /\ todo'[i] = s[i]
    <3>1. Alone /\ \A k \in DOMAIN s : ~(i < k)
      BY <2>1 DEF NewFit
    <3>2. j \in DOMAIN s
      BY <1>1, <3>1 DEF Alone
    <3> QED
      BY <3>1, <3>2
  <2>2. ASSUME NEW h, NEW k, Stays(h), Stays(k), h < k, todo'[i] = todo[h]
        PROVE  FALSE
    <3>1. Late(todo[h])
      BY <2>2 DEF Late, LateNext, StayFit
    <3> QED
      BY <2>2, <3>1 DEF ChainInv, LastOnly, Stays
  <2>3. \/ i \in DOMAIN s /\ todo'[i] = s[i]
        \/ \E h, k : Stays(h) /\ Stays(k) /\ h < k /\ todo'[i] = todo[h] /\ todo'[j] = todo[k]
    BY <1>1
  <2> QED
    BY <2>1, <2>2, <2>3
<1>7. ASSUME NEW q \in Requests, jqXHR'[q].state = 2, ~jqXHR'[q].settled
      PROVE  \/ \E i \in DOMAIN todo' : todo'[i] = Call("convert", q)
             \/ threw' /\ (jqXHR'[q].filtered \/ jqXHR'[q].throws)
  <2>1. CASE \E i \in DOMAIN s : s[i] = Call("convert", q)
    BY <1>1, <2>1
  <2>2. CASE /\ jqXHR[q].state = 2 /\ ~jqXHR[q].settled /\ ~IsFirst("convert", q)
             /\ jqXHR'[q].filtered = jqXHR[q].filtered /\ jqXHR'[q].throws = jqXHR[q].throws
    <3>1. CASE threw /\ (jqXHR[q].filtered \/ jqXHR[q].throws)
      BY <2>2, <3>1
    <3>2. CASE Has("convert", q)
      <4>1. PICK i \in DOMAIN todo : todo[i] = Call("convert", q)
        BY <3>2 DEF Has
      <4>2. todo # <<>>
        BY <4>1, EmptySeq
      <4>3. i # 1
        BY <2>2, <4>1, <4>2 DEF IsFirst
      <4>4. Stays(i)
        BY <4>2, <4>3, FirstIs DEF ChainInv
      <4> QED
        BY <1>1, <4>1, <4>4
    <3> QED
      BY <2>2, <3>1, <3>2 DEF ChainInv, Midway
  <2> QED
    BY <1>7, <2>1, <2>2 DEF MidFit
<1>8. \A q \in Requests : Midway(q)'
  BY <1>7 DEF Midway, Has, Call
<1> QED
  BY <1>2, <1>4, <1>5, <1>6, <1>8 DEF ChainInv, Sound

-----------------------------------------------------------------------------
(* What every step but an exception does with the handlers' variables.  *)
AtHandler == todo = <<>> \/ todo[1].do \in Events
Telling   == todo # <<>> /\ todo[1].do \in Answering
Hears     == heard' = IF Telling THEN [heard EXCEPT ![todo[1].r] = Append(heard[todo[1].r], todo[1].do)] ELSE heard
BusyGoes  == busy' = IF First("ajaxStart") THEN TRUE ELSE IF First("ajaxStop") THEN FALSE ELSE busy
Handled   == Hears /\ BusyGoes
NamesSame == window' = window /\ oldCallbacks' = oldCallbacks /\ nonce' = nonce

(* What the properties tell apart of a request's record did not change.  *)
Alike(q) ==
    /\ jqXHR'[q].state = jqXHR[q].state /\ jqXHR'[q].name = jqXHR[q].name
    /\ jqXHR'[q].fireGlobals = jqXHR[q].fireGlobals /\ jqXHR'[q].installed = jqXHR[q].installed
    /\ jqXHR'[q].transport = jqXHR[q].transport /\ jqXHR'[q].outcome = jqXHR[q].outcome
    /\ jqXHR'[q].settled = jqXHR[q].settled /\ jqXHR'[q].going = jqXHR[q].going
    /\ jqXHR'[q].filtered = jqXHR[q].filtered /\ jqXHR'[q].throws = jqXHR[q].throws
    /\ jqXHR'[q].guarded = jqXHR[q].guarded
    /\ Alone \/ /\ jqXHR'[q].called = jqXHR[q].called /\ jqXHR'[q].container = jqXHR[q].container
                /\ jqXHR'[q].flying = jqXHR[q].flying
NoEnds(s) == \A i \in DOMAIN s : s[i].do \notin Ends
Others(r) == \A q \in Requests \ {r} : Alike(q)

(* Four kinds of steps: nothing happens to a request that matters; one goes on;
   one is settled, and the calls of its end are pushed; one that was settled, by
   an abort while it was being sent, goes on or is done again.                *)
Keeps(s)       == Pushes(s) /\ NoEnds(s) /\ \A q \in Requests : Alike(q)
GoesOn(r, s)   == /\ Pushes(s) /\ NoEnds(s) /\ Others(r)
                  /\ jqXHR[r].state # -1 /\ jqXHR'[r].state # -1
                  /\ jqXHR'[r].settled = jqXHR[r].settled /\ jqXHR'[r].name = jqXHR[r].name
                  /\ AbortInSend \/ ~jqXHR[r].settled
Finishes(r, s) == /\ Pushes(s) /\ s = Calls(r, EndList(jqXHR'[r])) /\ Others(r)
                  /\ jqXHR[r].state # -1 /\ jqXHR'[r].state = 2
                  /\ ~jqXHR[r].settled /\ jqXHR'[r].settled /\ jqXHR'[r].name = jqXHR[r].name
                  /\ jqXHR'[r].fireGlobals = jqXHR[r].fireGlobals
Again(r, s)    == /\ AbortInSend /\ Pushes(s) /\ Others(r)
                  /\ jqXHR[r].settled /\ jqXHR'[r].settled /\ jqXHR'[r].name = jqXHR[r].name
                  /\ \A i \in DOMAIN s : s[i].do # "cleanUp"

(* The call that was first was none that converts what another request got.  *)
OwnHead(r) == First("convert") => todo[1].r = r
StagesGone(r) == \A j : Stays(j) /\ todo[j].r = r => todo[j].do \notin Stages

LEMMA HandledTyped ==
  ASSUME Typed, Handled
  PROVE  heard' \in [Requests -> Seq(Answering)] /\ busy' \in BOOLEAN
<1>1. busy' \in BOOLEAN
  BY DEF Handled, BusyGoes, Typed
<1>2. CASE Telling
  <2>1. /\ todo[1] \in Calling /\ todo[1].r \in Requests /\ todo[1].do \in Answering
    BY <1>2, FirstIs DEF Telling, Calling
  <2>2. Append(heard[todo[1].r], todo[1].do) \in Seq(Answering)
    BY <2>1, AppendProperties DEF Typed
  <2> QED
    BY <1>1, <1>2, <2>1, <2>2 DEF Handled, Hears, Typed
<1>3. CASE ~Telling
  BY <1>1, <1>3 DEF Handled, Hears, Typed
<1> QED
  BY <1>2, <1>3

LEMMA PutIs ==
  ASSUME Typed, NEW r \in Requests, NEW y \in XHR, jqXHR' = [jqXHR EXCEPT ![r] = y]
  PROVE  /\ jqXHR' \in [Requests -> XHR] /\ jqXHR'[r] = y
         /\ \A q \in Requests \ {r} : jqXHR'[q] = jqXHR[q]
         /\ Others(r)
<1>1. /\ jqXHR' \in [Requests -> XHR] /\ jqXHR'[r] = y
      /\ \A q \in Requests \ {r} : jqXHR'[q] = jqXHR[q]
  BY DEF Typed
<1> QED
  BY <1>1 DEF Others, Alike

LEMMA TodoIs ==
  ASSUME Typed
  PROVE  \A j \in DOMAIN todo : todo[j] \in Calling /\ todo[j].r \in Requests
<1>1. todo \in Seq(Calling) /\ DOMAIN todo = 1..Len(todo)
  BY LenProperties DEF Typed
<1>2. \A j \in DOMAIN todo : todo[j] \in Calling
  BY <1>1, ElementOfSeq
<1> QED
  BY <1>2 DEF Calling

LEMMA FinishesCalls ==
  ASSUME NEW r \in Requests, NEW s, Finishes(r, s)
  PROVE  EndCalls(s, r, jqXHR'[r])
<1>1. PICK y : y = jqXHR'[r]
  OBVIOUS
<1>2. s = Calls(r, EndList(y))
  BY <1>1 DEF Finishes
<1>3. EndCalls(Calls(r, EndList(y)), r, y)
  BY EndCallsAre
<1> QED
  BY <1>1, <1>2, <1>3, Zenon

(* The kinds of steps keep the chain in order.  *)
LEMMA LikeFits ==
  ASSUME ChainInv, NEW j, Stays(j), Alike(todo[j].r)
  PROVE  /\ Fits(todo[j], jqXHR'[todo[j].r])
         /\ jqXHR'[todo[j].r].name = jqXHR[todo[j].r].name
         /\ jqXHR'[todo[j].r].filtered = jqXHR[todo[j].r].filtered
<1>1. Fits(todo[j], jqXHR[todo[j].r])
  BY DEF Stays, ChainInv, CallsFit
<1>2. ~Alone
  BY DEF Alone
<1> QED
  BY <1>1, <1>2 DEF Alike, Fits

LEMMA LikeMid ==
  ASSUME NEW q \in Requests, NEW s, Alike(q), ~IsFirst("convert", q)
  PROVE  MidFit(q, s)
BY DEF Alike, MidFit

LEMMA HeadIs ==
  ASSUME NEW r, OwnHead(r)
  PROVE  \A q \in Requests \ {r} : ~IsFirst("convert", q)
BY DEF OwnHead, First, IsFirst, Call

LEMMA KeepsChain ==
  ASSUME ChainInv, Typed', NEW s, Keeps(s), NewFit(s), \A i \in DOMAIN s : s[i].do \notin Stages,
         threw' = threw, ~First("convert"), \A r \in Requests : Sound(jqXHR'[r])
  PROVE  ChainInv'
<1>1. \A j \in DOMAIN todo : todo[j].r \in Requests
  BY TodoIs DEF ChainInv
<1>2. StayFit
  BY <1>1, LikeFits DEF StayFit, Stays, Keeps
<1>3. NewStage(s)
  BY DEF NewStage
<1>4. \A r \in Requests : MidFit(r, s)
  <2>1. \A r \in Requests : ~IsFirst("convert", r)
    BY DEF IsFirst, First, Call
  <2> QED
    BY <2>1, LikeMid DEF Keeps
<1> QED
  BY <1>2, <1>3, <1>4, ChainGoes DEF Keeps

(* One request changes and pushes s: what is required of it for the chain.  *)
OneFits(r, y, s) ==
    /\ \A i \in DOMAIN s : /\ s[i].r = r /\ Fits(s[i], y)
                           /\ s[i].do \in AtOnce \/ (s[i].do = "convert" /\ ~y.filtered) => i = 1
                           /\ s[i].do = "convert" /\ y.name # 0 => Alone /\ \A j \in DOMAIN s : ~(i < j)
    /\ \A i, j \in DOMAIN s : s[i].do \in Stages /\ s[j].do \in Stages => i = j
OneStays(r, y) == \A j : Stays(j) /\ todo[j].r = r => Fits(todo[j], y)
OneSame(r, y) == y.name = jqXHR[r].name /\ y.filtered = jqXHR[r].filtered /\ y.throws = jqXHR[r].throws

LEMMA OneGoes ==
  ASSUME ChainInv, Typed', NEW r \in Requests, NEW y, NEW s, Pushes(s), Sound(y), jqXHR'[r] = y,
         \A q \in Requests \ {r} : Alike(q) /\ Sound(jqXHR'[q]),
         OneFits(r, y, s), OneStays(r, y), OneSame(r, y), MidFit(r, s), OwnHead(r), threw' = threw,
         StagesGone(r) \/ \A i \in DOMAIN s : s[i].do \notin Stages
  PROVE  ChainInv'
<1>1. \A j \in DOMAIN todo : todo[j].r \in Requests
  BY TodoIs DEF ChainInv
<1>2. StayFit
  <2> SUFFICES ASSUME NEW j, Stays(j)
               PROVE  /\ Fits(todo[j], jqXHR'[todo[j].r])
                      /\ jqXHR'[todo[j].r].name = jqXHR[todo[j].r].name
                      /\ jqXHR'[todo[j].r].filtered = jqXHR[todo[j].r].filtered
    BY DEF StayFit
  <2>1. CASE todo[j].r = r
    BY <2>1 DEF OneStays, OneSame
  <2>2. CASE todo[j].r # r
    <3>1. Alike(todo[j].r)
      BY <1>1, <2>2 DEF Stays
    <3> QED
      BY <3>1, LikeFits
  <2> QED
    BY <2>1, <2>2
<1>3. NewFit(s)
  BY DEF NewFit, OneFits, SoonNext, LateNext
<1>4. NewStage(s)
  BY DEF NewStage, OneFits, StagesGone
<1>5. \A q \in Requests : MidFit(q, s)
  BY HeadIs, LikeMid
<1>6. \A q \in Requests : Sound(jqXHR'[q])
  OBVIOUS
<1> QED
  BY <1>2, <1>3, <1>4, <1>5, <1>6, ChainGoes

(* The end of a request spoils none of its calls that stay: those of its stages
   are gone, or it is an abort, which does not come while it is being sent.   *)
Breaks(r, y) ==
    /\ jqXHR[r].state \in {0, 1} /\ y.outcome \notin Good /\ ~y.transport
    /\ y.installed = jqXHR[r].installed /\ y.guarded = jqXHR[r].guarded /\ y.called = jqXHR[r].called
    /\ jqXHR[r].state = 0 => ~y.flying
    /\ AbortInSend \/ ~(jqXHR[r].state = 0 /\ jqXHR[r].going)

LEMMA EndStays ==
  ASSUME ChainInv, NEW r \in Requests, NEW y, y.state = 2, y.settled, y.name = jqXHR[r].name,
         y.fireGlobals = jqXHR[r].fireGlobals, StagesGone(r) \/ Breaks(r, y)
  PROVE  OneStays(r, y)
<1> SUFFICES ASSUME NEW j, Stays(j), todo[j].r = r
             PROVE  Fits(todo[j], y)
  BY DEF OneStays
<1>1. Fits(todo[j], jqXHR[r])
  BY DEF Stays, ChainInv, CallsFit
<1>2. CASE todo[j].do \notin Stages
  BY <1>1, <1>2 DEF Fits, Stages
<1>3. CASE todo[j].do \in Stages
  <2>1. Breaks(r, y)
    BY <1>3 DEF StagesGone
  <2>2. todo[j].do # "convert"
    BY <1>1, <2>1 DEF Fits, Breaks
  <2>3. todo[j].do # "send" \/ AbortInSend
    BY <1>1, <2>1 DEF Fits, Breaks
  <2>4. todo[j].do \notin Ends
    BY <1>3 DEF Stages, Ends, Answering
  <2> QED
    BY <1>1, <1>3, <2>1, <2>2, <2>3, <2>4 DEF Fits, Breaks, Stages, Ends
<1> QED
  BY <1>2, <1>3

LEMMA FinishesChain ==
  ASSUME ChainInv, Typed', NEW r \in Requests, NEW s, Finishes(r, s),
         StagesGone(r) \/ Breaks(r, jqXHR'[r]), OwnHead(r), threw' = threw, OneSame(r, jqXHR'[r]),
         \A q \in Requests : Sound(jqXHR'[q])
  PROVE  ChainInv'
<1>0. EndCalls(s, r, jqXHR'[r])
  BY FinishesCalls
<1>2. \A i \in DOMAIN s : s[i].r = r /\ s[i].do \in Ends
  BY <1>0, Zenon DEF EndCalls
<1>3. \A i, j \in DOMAIN s : i < j => Rank(s[i].do) < Rank(s[j].do)
  BY <1>0, Zenon DEF EndCalls
<1>4. \A i \in DOMAIN s : s[i].do = "cleanUp" => jqXHR'[r].name # 0
  <2>1. \A e : (\E i \in DOMAIN s : s[i].do = e) =>
                  \/ Tells(jqXHR'[r], e)
                  \/ jqXHR'[r].name # 0 /\ e = "cleanUp"
                  \/ jqXHR'[r].fireGlobals /\ e = "countDown"
    BY <1>0, Zenon DEF EndCalls
  <2>2. ~Tells(jqXHR'[r], "cleanUp")
    BY DEF Tells, Result, GlobalResult
  <2> QED
    BY <2>1, <2>2
<1>5. ASSUME NEW i \in DOMAIN s, s[i].do \in AtOnce
      PROVE  i = 1
  <2>1. s[i].do = "cleanUp" /\ Rank(s[i].do) = 0
    BY <1>2, <1>5, RankIs DEF AtOnce, Ends, Answering
  <2>2. s \in Seq(Calling) /\ DOMAIN s = 1..Len(s) /\ Len(s) \in Nat
    BY LenProperties DEF Finishes, Pushes
  <2>3. 1 \in DOMAIN s /\ i \in Int /\ i >= 1
    BY <2>2
  <2>4. Rank(s[1].do) \in 0..6
    BY <1>2, <2>3, RankIs
  <2>5. ~(1 < i)
    BY <1>3, <2>1, <2>3, <2>4
  <2> QED
    BY <2>3, <2>5
<1>6. \A i \in DOMAIN s : s[i].do \notin Stages /\ s[i].do # "convert"
  BY <1>2 DEF Ends, Answering, Stages
<1>7. PICK y : y = jqXHR'[r]
  OBVIOUS
<1>8. y.state = 2 /\ y.settled /\ y.name = jqXHR[r].name /\ y.fireGlobals = jqXHR[r].fireGlobals
  BY <1>7 DEF Finishes
<1>9. OneFits(r, y, s)
  <2>1. \A i \in DOMAIN s : Fits(s[i], y)
    BY <1>2, <1>4, <1>6, <1>7, <1>8 DEF Fits, Stages
  <2> QED
    BY <1>2, <1>5, <1>6, <2>1 DEF OneFits
<1>10. OneStays(r, y)
  BY <1>7, <1>8, EndStays
<1>11. MidFit(r, s)
  BY <1>7, <1>8 DEF MidFit
<1> QED
  BY <1>6, <1>7, <1>9, <1>10, <1>11, OneGoes DEF Finishes, Others

-----------------------------------------------------------------------------
(* The actions, one lemma each: of what kind the step is.  *)
NoBells(s) == \A i \in DOMAIN s : s[i].do \notin {"ajaxStart", "ajaxStop"}
OwnKept(q) == /\ jqXHR'[q].called = jqXHR[q].called /\ jqXHR'[q].container = jqXHR[q].container
              /\ jqXHR'[q].outcome = jqXHR[q].outcome \/ jqXHR'[q].outcome \notin Good \/ ~jqXHR[q].called
Begins(r, s) ==
    /\ Pushes(s) /\ NoEnds(s) /\ NoBells(s) /\ Others(r)
    /\ jqXHR[r].state = -1 /\ jqXHR'[r].state = 0 /\ ~jqXHR'[r].fireGlobals /\ ~jqXHR'[r].settled
    /\ \/ jqXHR'[r].name = 0 /\ NamesSame
       \/ jqXHR'[r].name = JsonpName /\ InstallJsonp(r)

LEMMA NothingPushed ==
  /\ <<>> \in Seq(Calling) /\ DOMAIN <<>> = {}
  /\ NoEnds(<<>>) /\ NoBells(<<>>) /\ NewStage(<<>>) /\ NewFit(<<>>)
BY EmptySeq DEF NoEnds, NoBells, NewStage, NewFit

LEMMA NothingBefore ==
  ASSUME Typed
  PROVE  <<>> \o Rest = Rest
BY RestIs, ConcatEmptySeq

LEMMA JsonpNameIs ==
  ASSUME NamesInv
  PROVE  /\ JsonpName \in Nat /\ JsonpName > 0
         /\ oldCallbacks = <<>> => JsonpName = nonce + 1
         /\ oldCallbacks # <<>> => /\ Len(oldCallbacks) \in DOMAIN oldCallbacks
                                   /\ JsonpName = oldCallbacks[Len(oldCallbacks)]
<1>1. oldCallbacks \in Seq(Nat) /\ nonce \in Nat /\ Len(oldCallbacks) \in Nat /\ DOMAIN oldCallbacks = 1..Len(oldCallbacks)
  BY LenProperties DEF NamesInv, ChainInv, Typed
<1>2. CASE oldCallbacks = <<>>
  BY <1>1, <1>2 DEF JsonpName
<1>3. CASE oldCallbacks # <<>>
  <2>1. Len(oldCallbacks) \in DOMAIN oldCallbacks
    BY <1>1, <1>3, EmptySeq
  <2>2. JsonpName = oldCallbacks[Len(oldCallbacks)]
    BY <1>3 DEF JsonpName, Last
  <2>3. oldCallbacks[Len(oldCallbacks)] \in 1..nonce
    BY <2>1 DEF NamesInv, NamesKept
  <2> QED
    BY <1>1, <1>3, <2>1, <2>2, <2>3
<1> QED
  BY <1>2, <1>3

LEMMA InstallTyped ==
  ASSUME NamesInv, NEW r \in Requests, InstallJsonp(r)
  PROVE  window' \in [Names -> Requests \cup {NoOne}] /\ oldCallbacks' \in Seq(Nat) /\ nonce' \in Nat
<1>1. window' \in [Names -> Requests \cup {NoOne}] /\ nonce' \in Nat
  <2>1. PICK n : n = JsonpName
    OBVIOUS
  <2>2. window' = [window EXCEPT ![n] = r]
    BY <2>1 DEF InstallJsonp
  <2>3. window \in [Names -> Requests \cup {NoOne}] /\ nonce \in Nat
    BY DEF NamesInv, ChainInv, Typed
  <2>4. nonce' \in Nat
    BY <2>3 DEF InstallJsonp
  <2> QED
    BY <2>2, <2>3, <2>4
<1>2. oldCallbacks \in Seq(Nat) /\ Len(oldCallbacks) \in Nat /\ \A i \in 1..(Len(oldCallbacks) - 1) : oldCallbacks[i] \in Nat
  BY LenProperties, ElementOfSeq DEF NamesInv, ChainInv, Typed
<1>3. Front(oldCallbacks) \in Seq(Nat)
  BY <1>2, SubSeqProperties DEF Front
<1> QED
  BY <1>1, <1>2, <1>3 DEF InstallJsonp

LEMMA BegunIs ==
  ASSUME NamesInv, NEW offer \in Offers
  PROVE  LET y == Begun(offer) IN
         /\ y \in XHR /\ Sound(y) /\ y.state = 0 /\ ~y.fireGlobals /\ ~y.installed /\ ~y.transport
         /\ ~y.called /\ y.container = NoOne /\ y.outcome = "none" /\ ~y.settled
         /\ y.name = IF offer.kind \in Named THEN JsonpName ELSE 0
<1>1. /\ offer.kind \in Kinds /\ offer.timed \in BOOLEAN /\ offer.global \in BOOLEAN
      /\ offer.guarded \in BOOLEAN /\ offer.filtered \in BOOLEAN /\ offer.throws \in BOOLEAN
  BY AjaxAssumption
<1>2. PICK nm \in Nat : nm = (IF offer.kind \in Named THEN JsonpName ELSE 0) /\ (nm # 0 <=> offer.kind \in Named)
  BY JsonpNameIs
<1>3. PICK gl \in BOOLEAN : gl = (offer.global /\ offer.kind # "jsonp")
  BY <1>1
<1>4. Fresh \in XHR
  BY DEF Fresh, XHR, Kinds, Outcomes
<1>5. Begun(offer) = [Fresh EXCEPT !.state = 0, !.kind = offer.kind, !.timed = offer.timed,
                                   !.guarded = offer.guarded, !.filtered = offer.filtered, !.throws = offer.throws,
                                   !.global = gl, !.name = nm]
  BY <1>2, <1>3 DEF Begun
<1>6. /\ ~Fresh.fireGlobals /\ ~Fresh.installed /\ ~Fresh.transport /\ ~Fresh.timer /\ ~Fresh.live /\ ~Fresh.flying
      /\ ~Fresh.settled /\ ~Fresh.called /\ Fresh.container = NoOne /\ Fresh.outcome = "none"
  BY DEF Fresh
<1> HIDE DEF Fresh
<1>7. PICK f : f = Fresh
  OBVIOUS
<1>8. PICK y : y = [f EXCEPT !.state = 0, !.kind = offer.kind, !.timed = offer.timed,
                             !.guarded = offer.guarded, !.filtered = offer.filtered, !.throws = offer.throws,
                             !.global = gl, !.name = nm]
  OBVIOUS
<1>9. /\ y \in XHR /\ y.state = 0 /\ y.kind = offer.kind /\ y.name = nm /\ y.fireGlobals = f.fireGlobals
      /\ y.installed = f.installed /\ y.transport = f.transport /\ y.timer = f.timer /\ y.live = f.live
      /\ y.flying = f.flying /\ y.settled = f.settled /\ y.called = f.called
      /\ y.container = f.container /\ y.outcome = f.outcome
  <2>1. PICK a : a = [f EXCEPT !.state = 0, !.kind = offer.kind, !.timed = offer.timed, !.guarded = offer.guarded]
    OBVIOUS
  <2>2. PICK b : b = [a EXCEPT !.filtered = offer.filtered, !.throws = offer.throws]
    OBVIOUS
  <2>3. y = [b EXCEPT !.global = gl, !.name = nm]
    BY <1>4, <1>7, <1>8, <2>1, <2>2 DEF XHR
  <2>4. /\ a \in XHR /\ a.state = 0 /\ a.kind = offer.kind /\ a.fireGlobals = f.fireGlobals
        /\ a.installed = f.installed /\ a.transport = f.transport /\ a.timer = f.timer /\ a.live = f.live
        /\ a.flying = f.flying /\ a.settled = f.settled /\ a.called = f.called
        /\ a.container = f.container /\ a.outcome = f.outcome
    BY <1>1, <1>4, <1>7, <2>1 DEF XHR
  <2>5. /\ b \in XHR /\ b.state = a.state /\ b.kind = a.kind /\ b.fireGlobals = a.fireGlobals
        /\ b.installed = a.installed /\ b.transport = a.transport /\ b.timer = a.timer /\ b.live = a.live
        /\ b.flying = a.flying /\ b.settled = a.settled /\ b.called = a.called
        /\ b.container = a.container /\ b.outcome = a.outcome
    BY <1>1, <2>2, <2>4 DEF XHR
  <2>6. /\ y \in XHR /\ y.state = b.state /\ y.kind = b.kind /\ y.name = nm /\ y.fireGlobals = b.fireGlobals
        /\ y.installed = b.installed /\ y.transport = b.transport /\ y.timer = b.timer /\ y.live = b.live
        /\ y.flying = b.flying /\ y.settled = b.settled /\ y.called = b.called
        /\ y.container = b.container /\ y.outcome = b.outcome
    <3>1. nm \in Nat /\ gl \in BOOLEAN
      BY <1>2, <1>3
    <3>2. PICK c : c = [b EXCEPT !.global = gl]
      OBVIOUS
    <3>3. /\ c \in XHR /\ c.state = b.state /\ c.kind = b.kind /\ c.fireGlobals = b.fireGlobals
          /\ c.installed = b.installed /\ c.transport = b.transport /\ c.timer = b.timer /\ c.live = b.live
          /\ c.flying = b.flying /\ c.settled = b.settled /\ c.called = b.called
          /\ c.container = b.container /\ c.outcome = b.outcome
      BY <2>5, <3>1, <3>2 DEF XHR
    <3>4. y = [c EXCEPT !.name = nm]
      BY <2>3, <2>5, <3>2 DEF XHR
    <3> QED
      BY <3>1, <3>3, <3>4 DEF XHR
  <2> QED
    BY <2>4, <2>5, <2>6
<1>10. Sound(y)
  BY <1>2, <1>6, <1>7, <1>9 DEF Sound, Good
<1> QED
  BY <1>2, <1>5, <1>6, <1>7, <1>8, <1>9, <1>10, Zenon

LEMMA NoConversion ==
  ASSUME AtHandler
  PROVE  ~First("convert")
BY DEF AtHandler, First, Events

LEMMA MakeIs ==
  ASSUME NamesInv, NEW r \in Requests, Make(r, Rest), AtHandler, Handled, antics' \in Nat, threw' = threw
  PROVE  ChainInv' /\ (\E s : Begins(r, s)) /\ active' = active /\ \A q \in Requests : OwnKept(q)
<1>1. PICK offer \in Offers :
        /\ jqXHR[r].state = -1
        /\ jqXHR' = [jqXHR EXCEPT ![r] = Begun(offer)]
        /\ todo' = Calls(r, <<"prefilter", "start">>) \o Rest
        /\ IF offer.kind \in Named THEN InstallJsonp(r) ELSE UNCHANGED <<window, oldCallbacks, nonce>>
        /\ active' = active
  BY DEF Make
<1>2. PICK y \in XHR : /\ y = Begun(offer) /\ Sound(y) /\ y.state = 0 /\ ~y.fireGlobals /\ ~y.installed /\ ~y.transport
                       /\ ~y.called /\ y.container = NoOne /\ y.outcome = "none" /\ ~y.settled
                       /\ y.name = IF offer.kind \in Named THEN JsonpName ELSE 0
  BY BegunIs
<1>3. jqXHR' = [jqXHR EXCEPT ![r] = y]
  BY <1>1, <1>2
<1>4. /\ jqXHR' \in [Requests -> XHR] /\ jqXHR'[r] = y /\ Others(r)
      /\ \A q \in Requests \ {r} : jqXHR'[q] = jqXHR[q]
  BY <1>3, PutIs DEF NamesInv, ChainInv
<1> DEFINE l == <<"prefilter", "start">>  s == Calls(r, l)
<1>5. l \in Seq(Events \cup Stages \cup Ends) /\ DOMAIN l = 1..2 /\ l[1] = "prefilter" /\ l[2] = "start"
  BY DEF Events, Stages
<1> HIDE DEF l
<1>6. /\ s \in Seq(Calling) /\ DOMAIN s = 1..2 /\ s[1].do = "prefilter" /\ s[2].do = "start"
      /\ \A i \in DOMAIN s : s[i].r = r
  BY <1>5, CallsAre
<1>7. todo' = s \o Rest
  BY <1>1 DEF l
<1> HIDE DEF s
<1>8. Pushes(s)
  BY <1>6, <1>7 DEF Pushes
<1>9. Typed'
  <2>1. todo' \in Seq(Calling)
    BY <1>8, PushIs DEF NamesInv, ChainInv
  <2>2. heard' \in [Requests -> Seq(Answering)] /\ busy' \in BOOLEAN
    BY HandledTyped DEF NamesInv, ChainInv
  <2>3. active' \in Int /\ threw' \in BOOLEAN
    BY <1>1 DEF NamesInv, ChainInv, Typed
  <2>4. window' \in [Names -> Requests \cup {NoOne}] /\ oldCallbacks' \in Seq(Nat) /\ nonce' \in Nat
    BY <1>1, InstallTyped DEF NamesInv, ChainInv, Typed
  <2> QED
    BY <1>4, <2>1, <2>2, <2>3, <2>4 DEF Typed
<1>10. \A q \in Requests : Sound(jqXHR'[q])
  BY <1>2, <1>4 DEF NamesInv, ChainInv
<1>11. \A j \in DOMAIN todo : /\ todo[j].r \in Requests \ {r} /\ todo[j].r # r
                              /\ Fits(todo[j], jqXHR[todo[j].r])
  <2>1. \A j \in DOMAIN todo : Fits(todo[j], jqXHR[todo[j].r]) /\ todo[j].r \in Requests
    BY TodoIs DEF NamesInv, ChainInv, CallsFit
  <2>2. \A j \in DOMAIN todo : todo[j].r # r
    BY <1>1, <2>1 DEF Fits
  <2> QED
    BY <2>1, <2>2
<1>12. StayFit
  BY <1>4, <1>11 DEF StayFit, Stays
<1>13. NewFit(s)
  <2>1. Fits(s[1], y) /\ Fits(s[2], y)
    BY <1>2, <1>6 DEF Fits, Sound, Stages, Ends, Answering, Good
  <2> QED
    BY <1>4, <1>6, <2>1 DEF NewFit, AtOnce, SoonNext, LateNext
<1>14. NewStage(s)
  BY <1>6, <1>11 DEF NewStage, Stages, Stays
<1>19. \A q \in Requests : MidFit(q, s)
  <2>1. \A q \in Requests : ~IsFirst("convert", q)
    BY NoConversion DEF First, IsFirst, Call
  <2>2. MidFit(r, s)
    BY <1>2, <1>4 DEF MidFit
  <2> QED
    BY <1>4, <2>1, <2>2, LikeMid DEF Others
<1>15. ChainInv'
  BY <1>8, <1>9, <1>10, <1>12, <1>13, <1>14, <1>19, ChainGoes DEF NamesInv
<1>16. NoEnds(s) /\ NoBells(s)
  BY <1>6 DEF NoEnds, NoBells, Ends, Answering
<1>17. Begins(r, s)
  <2>1. \/ jqXHR'[r].name = 0 /\ NamesSame
        \/ jqXHR'[r].name = JsonpName /\ InstallJsonp(r)
    BY <1>1, <1>2, <1>4 DEF NamesSame
  <2> QED
    BY <1>1, <1>2, <1>4, <1>8, <1>16, <2>1 DEF Begins
<1>18. \A q \in Requests : OwnKept(q)
  <2>1. jqXHR[r] = Fresh
    BY <1>1 DEF NamesInv, ChainInv, Sound
  <2>2. ~jqXHR[r].called /\ jqXHR[r].container = NoOne
    BY <2>1 DEF Fresh
  <2>3. OwnKept(r)
    <3>1. jqXHR[r].called = FALSE /\ y.called = FALSE
      BY <1>2, <2>2 DEF NamesInv, ChainInv, Typed, XHR
    <3> QED
      BY <1>2, <1>4, <2>2, <3>1 DEF OwnKept
  <2> QED
    BY <1>4, <2>3 DEF OwnKept
<1> QED
  BY <1>1, <1>15, <1>17, <1>18

-----------------------------------------------------------------------------
(* Steps that leave the names and the counter alone.  *)
Calmly == Handled /\ NamesSame /\ threw' = threw /\ active' = active /\ antics' \in Nat

LEMMA StepTyped ==
  ASSUME NamesInv, NEW s, Pushes(s), Handled, jqXHR' \in [Requests -> XHR], threw' = threw,
         active' \in Int, antics' \in Nat, nonce' \in Nat,
         window' \in [Names -> Requests \cup {NoOne}], oldCallbacks' \in Seq(Nat)
  PROVE  Typed'
<1>1. todo' \in Seq(Calling)
  BY PushIs DEF NamesInv, ChainInv
<1>2. heard' \in [Requests -> Seq(Answering)] /\ busy' \in BOOLEAN
  BY HandledTyped DEF NamesInv, ChainInv
<1> QED
  BY <1>1, <1>2 DEF Typed, NamesInv, ChainInv

LEMMA CalmlyTyped ==
  ASSUME NamesInv, NEW s, Pushes(s), Calmly, jqXHR' \in [Requests -> XHR]
  PROVE  Typed'
<1>1. /\ active' \in Int /\ nonce' \in Nat
      /\ window' \in [Names -> Requests \cup {NoOne}] /\ oldCallbacks' \in Seq(Nat)
  BY DEF Calmly, NamesSame, NamesInv, ChainInv, Typed
<1> QED
  BY <1>1, StepTyped DEF Calmly

(* Nothing that matters changes in a request.  *)
LEMMA KeepStep ==
  ASSUME NamesInv, Calmly, todo' = Rest, \A r \in Requests : Sound(jqXHR'[r]) /\ Alike(r),
         jqXHR' \in [Requests -> XHR], ~First("convert")
  PROVE  ChainInv' /\ Keeps(<<>>)
<1>1. Pushes(<<>>)
  BY NothingPushed, NothingBefore DEF Pushes, NamesInv, ChainInv
<1>2. Typed'
  BY <1>1, CalmlyTyped
<1>3. Keeps(<<>>)
  BY <1>1, NothingPushed DEF Keeps
<1>4. ChainInv'
  BY <1>2, <1>3, NothingPushed, KeepsChain DEF NamesInv, Calmly
<1> QED
  BY <1>3, <1>4

(* The calls of a request that was settled before: no clean-up.  *)
LEMMA AgainCalls ==
  ASSUME NEW r \in Requests, NEW x \in XHR, x.settled, NEW o
  PROVE  /\ HandlerCalls(r, x, o) \in Seq(Calling)
         /\ \A i \in DOMAIN HandlerCalls(r, x, o) :
               /\ HandlerCalls(r, x, o)[i].r = r /\ HandlerCalls(r, x, o)[i].do \in Ends
               /\ HandlerCalls(r, x, o)[i].do # "cleanUp"
<1> DEFINE e3 == IF IsSuccess(o) THEN "ajaxSuccess" ELSE "ajaxError"
           p3 == IF x.fireGlobals THEN <<e3>> ELSE <<>>
           p5 == IF x.fireGlobals THEN <<"ajaxComplete", "countDown">> ELSE <<>>
<1>1. /\ <<>> \in Seq(Ends) /\ \A f : ~In(f, <<>>)
  BY EmptySeq, ListedNone
<1>2. p3 \in Seq(Ends) /\ \A f : In(f, p3) => f = e3
  <2>1. e3 \in Ends
    BY DEF Ends, Answering
  <2> HIDE DEF e3
  <2>2. p3 \in Seq(Ends)
    BY <1>1, <2>1
  <2>3. \A f : In(f, p3) <=> x.fireGlobals /\ f = e3
    BY InMaybe, Zenon
  <2> QED
    BY <2>2, <2>3
<1>3. p5 \in Seq(Ends) /\ \A f : In(f, p5) => f \in {"ajaxComplete", "countDown"}
  BY LastPiece DEF Listed
<1>4. HandlerCalls(r, x, o) = Calls(r, <<>> \o p3 \o <<>> \o p5)
  BY DEF HandlerCalls, Settling, Completing
<1>5. e3 # "cleanUp"
  OBVIOUS
<1> HIDE DEF p3, p5, e3
<1>6. /\ <<>> \o p3 \in Seq(Ends) /\ <<>> \o p3 \o <<>> \in Seq(Ends) /\ <<>> \o p3 \o <<>> \o p5 \in Seq(Ends)
  BY <1>1, <1>2, <1>3, ConcatProperties
<1>7. PICK l : l = <<>> \o p3 \o <<>> \o p5
  OBVIOUS
<1>8. \A f : In(f, l) => f = e3 \/ f \in {"ajaxComplete", "countDown"}
  <2>1. \A f : In(f, <<>> \o p3) <=> In(f, <<>>) \/ In(f, p3)
    BY <1>1, <1>2, InJoin
  <2>2. \A f : In(f, <<>> \o p3 \o <<>>) <=> In(f, <<>> \o p3) \/ In(f, <<>>)
    BY <1>1, <1>6, InJoin
  <2>3. \A f : In(f, <<>> \o p3 \o <<>> \o p5) <=> In(f, <<>> \o p3 \o <<>>) \/ In(f, p5)
    BY <1>3, <1>6, InJoin
  <2> QED
    BY <1>1, <1>2, <1>3, <1>7, <2>1, <2>2, <2>3, Zenon
<1>9. \A i \in DOMAIN l : l[i] # "cleanUp" /\ l[i] \in Ends
  <2>1. \A i \in DOMAIN l : In(l[i], l)
    BY DEF In
  <2>2. l \in Seq(Ends)
    BY <1>6, <1>7
  <2>3. \A i \in DOMAIN l : l[i] \in Ends
    BY <2>2, LenProperties, ElementOfSeq
  <2> QED
    BY <1>5, <1>8, <2>1, <2>3
<1>10. l \in Seq(Events \cup Stages \cup Ends)
  BY <1>6, <1>7, SeqMonotonic
<1>11. /\ Calls(r, l) \in Seq(Calling) /\ DOMAIN Calls(r, l) = DOMAIN l
       /\ \A i \in DOMAIN l : Calls(r, l)[i].do = l[i] /\ Calls(r, l)[i].r = r
  BY <1>10, CallsAre
<1>12. HandlerCalls(r, x, o) = Calls(r, l)
  BY <1>4, <1>7
<1> QED
  BY <1>9, <1>11, <1>12

(* A request ends, for the first time or, aborted while it was being sent, once
   more.                                                                      *)
EndedBy(r, x, y, o) ==
    /\ Sound(y) /\ y.state = 2 /\ y.settled /\ y.outcome = Outcome(x, o)
    /\ x.settled = jqXHR[r].settled /\ jqXHR[r].state # -1 /\ (AbortInSend \/ ~x.settled)
    /\ x.name = y.name /\ x.installed = y.installed /\ x.fireGlobals = y.fireGlobals
    /\ OneSame(r, y) /\ y.fireGlobals = jqXHR[r].fireGlobals
    /\ StagesGone(r) \/ Breaks(r, y)
    /\ OwnHead(r)
Placed(r, y) ==
    /\ jqXHR' \in [Requests -> XHR] /\ jqXHR'[r] = y
    /\ \A q \in Requests \ {r} : Alike(q) /\ Sound(jqXHR'[q])

LEMMA EndStep ==
  ASSUME NamesInv, Calmly, NEW r \in Requests, NEW x \in XHR, NEW y \in XHR, NEW o \in Outcomes,
         EndedBy(r, x, y, o), Placed(r, y), todo' = HandlerCalls(r, x, o) \o Rest
  PROVE  ChainInv' /\ \E s : Finishes(r, s) \/ Again(r, s)
<1>1. \A q \in Requests : Sound(jqXHR'[q])
  BY DEF EndedBy, Placed
<1>2. CASE ~x.settled
  <2>1. HandlerCalls(r, x, o) = Calls(r, EndList(y))
    BY <1>2, TellsAll DEF EndedBy, Outcome
  <2>2. PICK s : s = Calls(r, EndList(y))
    OBVIOUS
  <2>3. Pushes(s)
    BY <2>1, <2>2, EndCallsAre DEF Pushes, EndCalls
  <2>4. Finishes(r, s)
    BY <1>2, <2>2, <2>3 DEF Finishes, EndedBy, Placed, Others, OneSame
  <2>5. Typed'
    BY <2>3, CalmlyTyped DEF Placed
  <2>6. /\ StagesGone(r) \/ Breaks(r, jqXHR'[r])
        /\ OwnHead(r) /\ OneSame(r, jqXHR'[r]) /\ threw' = threw
    BY DEF EndedBy, Placed, Calmly
  <2>7. ChainInv'
    BY <1>1, <2>4, <2>5, <2>6, FinishesChain DEF NamesInv
  <2> QED
    BY <2>4, <2>7
<1>3. CASE x.settled
  <2>1. PICK s : s = HandlerCalls(r, x, o)
    OBVIOUS
  <2>2. s \in Seq(Calling) /\ \A i \in DOMAIN s : s[i].r = r /\ s[i].do \in Ends /\ s[i].do # "cleanUp"
    BY <1>3, <2>1, AgainCalls
  <2>3. Pushes(s)
    BY <2>1, <2>2 DEF Pushes
  <2>4. Again(r, s)
    BY <1>3, <2>2, <2>3 DEF Again, EndedBy, Placed, Others, OneSame
  <2>5. Typed'
    BY <2>3, CalmlyTyped DEF Placed
  <2>6. \A i \in DOMAIN s : s[i].do \notin Stages /\ s[i].do \notin AtOnce /\ s[i].do # "convert"
    BY <2>2 DEF Ends, Answering, Stages, AtOnce
  <2>7. OneFits(r, y, s)
    <3>1. \A i \in DOMAIN s : Fits(s[i], y)
      BY <2>2, <2>6 DEF Fits, Stages, EndedBy
    <3> QED
      BY <2>2, <2>6, <3>1 DEF OneFits
  <2>8. OneStays(r, y)
    BY EndStays DEF EndedBy, OneSame, NamesInv
  <2>9. MidFit(r, s)
    BY DEF MidFit, EndedBy, Placed
  <2>10. /\ Sound(y) /\ jqXHR'[r] = y /\ OneSame(r, y) /\ OwnHead(r) /\ threw' = threw
         /\ \A q \in Requests \ {r} : Alike(q) /\ Sound(jqXHR'[q])
    BY DEF EndedBy, Placed, Calmly
  <2>11. ChainInv'
    BY <2>3, <2>5, <2>6, <2>7, <2>8, <2>9, <2>10, OneGoes DEF NamesInv
  <2> QED
    BY <2>4, <2>11
<1> QED
  BY <1>2, <1>3

(* What a step that leaves the names and the counter alone may be.  *)
SameCount(r) == jqXHR'[r].fireGlobals = jqXHR[r].fireGlobals
MovesOn(r, s) == GoesOn(r, s) /\ NoBells(s) /\ SameCount(r)
Moves == Keeps(<<>>) \/ \E r \in Requests : \E s : Finishes(r, s) \/ Again(r, s) \/ MovesOn(r, s)

(* An abort of r, whose timer may have been cleared before.  *)
ButTimer(x, z) ==
    /\ Less(x) = Less(z) /\ x.state = z.state /\ x.transport = z.transport /\ x.settled = z.settled
    /\ x.outcome = z.outcome /\ x.going = z.going /\ x.live = z.live /\ x.flying = z.flying

LEMMA AbortStep ==
  ASSUME NamesInv, Calmly, NEW r \in Requests, NEW x \in XHR, Sound(x), x.state # -1,
         ButTimer(x, jqXHR[r]), ~First("convert"),
         StagesGone(r) \/ AbortInSend \/ ~(jqXHR[r].state = 0 /\ jqXHR[r].going),
         jqXHR' = [jqXHR EXCEPT ![r] = Aborted(x)], todo' = AbortCalls(r, x) \o Rest
  PROVE  ChainInv' /\ Moves /\ \A q \in Requests : OwnKept(q)
<1>1. PICK z : z = jqXHR[r]
  OBVIOUS
<1>2. \A q \in Requests : Sound(jqXHR[q])
  BY DEF NamesInv, ChainInv
<1>3. ButTimer(x, z)
  BY <1>1
<1>4. /\ x.name = z.name /\ x.installed = z.installed /\ x.fireGlobals = z.fireGlobals
      /\ x.container = z.container /\ x.called = z.called /\ x.filtered = z.filtered
      /\ x.throws = z.throws /\ x.guarded = z.guarded
  BY <1>3 DEF ButTimer, Less
<1>5. CASE x.state = 2
  <2>1. Aborted(x) = x /\ AbortCalls(r, x) = <<>>
    BY <1>5 DEF Aborted, AfterDone, TransportAbort, AbortCalls, DoneCalls, Sound
  <2>2. /\ jqXHR' \in [Requests -> XHR] /\ jqXHR'[r] = x /\ Others(r)
        /\ \A q \in Requests \ {r} : jqXHR'[q] = jqXHR[q]
    BY <2>1, PutIs DEF NamesInv, ChainInv
  <2>3. Alike(r) /\ OwnKept(r)
    BY <1>1, <1>3, <1>4, <2>2 DEF Alike, OwnKept, ButTimer
  <2>4. \A q \in Requests : Sound(jqXHR'[q]) /\ Alike(q) /\ OwnKept(q)
    BY <1>2, <2>2, <2>3 DEF Others, OwnKept
  <2>5. todo' = Rest
    BY <2>1, NothingBefore DEF NamesInv, ChainInv
  <2> QED
    BY <2>2, <2>4, <2>5, KeepStep DEF Moves
<1>6. CASE x.state # 2
  <2>1. PICK t : t = TransportAbort(x)
    OBVIOUS
  <2>2. /\ t \in XHR /\ t.state = x.state /\ t.settled = x.settled /\ t.outcome = x.outcome
        /\ Less(t) = Less(x) /\ ~t.live /\ (x.state = 0 => ~t.flying)
    BY <2>1, AbortIs DEF Sound
  <2>3. /\ t.name = x.name /\ t.kind = x.kind /\ t.called = x.called /\ ~t.called
    BY <1>6, <2>2 DEF Less, Sound
  <2>4. x.state = 1 \/ ~x.settled
    BY <1>6 DEF Sound
  <2>5. "aborted" \in Outcomes /\ Outcome(t, "aborted") = Outcome(x, "aborted") /\ Outcome(x, "aborted") \notin Good
    BY <2>2, <2>4 DEF Outcome, Outcomes, Good, Sound
  <2>6. PICK y : y = AfterDone(t, "aborted")
    OBVIOUS
  <2>7. Finished(t, y, "aborted")
    BY <1>6, <2>2, <2>3, <2>5, <2>6, FinishedIs DEF Sound
  <2>8. /\ y \in XHR /\ Sound(y) /\ y.state = 2 /\ y.settled /\ ~y.transport
        /\ y.outcome = Outcome(x, "aborted") /\ y.outcome \notin Good /\ Less(y) = Less(x)
        /\ x.state = 0 => ~y.flying
    BY <2>2, <2>5, <2>7 DEF Finished
  <2>9. /\ y.name = x.name /\ y.installed = x.installed /\ y.fireGlobals = x.fireGlobals
        /\ y.container = x.container /\ y.called = x.called /\ y.filtered = x.filtered
        /\ y.throws = x.throws /\ y.guarded = x.guarded
    BY <2>8 DEF Less
  <2>10. jqXHR' = [jqXHR EXCEPT ![r] = y]
    BY <2>1, <2>6 DEF Aborted
  <2>11. /\ jqXHR' \in [Requests -> XHR] /\ jqXHR'[r] = y /\ Others(r)
         /\ \A q \in Requests \ {r} : jqXHR'[q] = jqXHR[q]
    BY <2>8, <2>10, PutIs DEF NamesInv, ChainInv
  <2>12. Placed(r, y)
    BY <1>2, <2>11 DEF Placed, Others
  <2>13. Breaks(r, y) \/ StagesGone(r)
    <3>1. z.state \in {0, 1}
      BY <1>3, <1>6 DEF ButTimer, XHR
    <3>2. z.state = 0 => ~y.flying
      BY <1>3, <2>8 DEF ButTimer
    <3> QED
      BY <1>1, <1>4, <2>8, <2>9, <3>1, <3>2 DEF Breaks
  <2>14. EndedBy(r, x, y, "aborted")
    <3>1. x.settled = z.settled /\ z.state # -1 /\ (AbortInSend \/ ~x.settled)
      BY <1>3, <1>6 DEF ButTimer, Sound
    <3>2. OneSame(r, y) /\ OwnHead(r)
      BY <1>1, <1>4, <2>9 DEF OneSame, OwnHead
    <3> QED
      BY <1>1, <1>4, <2>8, <2>9, <2>13, <3>1, <3>2 DEF EndedBy
  <2>15. todo' = HandlerCalls(r, x, "aborted") \o Rest
    BY <1>6 DEF AbortCalls, DoneCalls
  <2>16. ChainInv' /\ \E s : Finishes(r, s) \/ Again(r, s)
    BY <2>5, <2>8, <2>12, <2>14, <2>15, EndStep
  <2>17. \A q \in Requests : OwnKept(q)
    BY <1>1, <1>4, <2>8, <2>9, <2>11 DEF OwnKept
  <2> QED
    BY <2>16, <2>17 DEF Moves
<1> QED
  BY <1>5, <1>6

LEMMA AbortAct ==
  ASSUME NamesInv, NEW r \in Requests, Abort(r, Rest), AtHandler, Handled, antics' \in Nat, threw' = threw
  PROVE  ChainInv' /\ Calmly /\ Moves /\ \A q \in Requests : OwnKept(q)
<1>1. Calmly
  BY DEF Calmly, NamesSame, Abort
<1>2. PICK x : x = jqXHR[r]
  OBVIOUS
<1>3. x \in XHR /\ Sound(x) /\ x.state # -1
  BY <1>2 DEF NamesInv, ChainInv, Typed, Abort, Made
<1>4. jqXHR' = [jqXHR EXCEPT ![r] = Aborted(x)] /\ todo' = AbortCalls(r, x) \o Rest
  BY <1>2 DEF Abort
<1>5. ButTimer(x, jqXHR[r])
  BY <1>2 DEF ButTimer
<1>6. ~First("convert") /\ (AbortInSend \/ ~(jqXHR[r].state = 0 /\ jqXHR[r].going))
  BY NoConversion DEF Abort
<1> QED
  BY <1>1, <1>3, <1>4, <1>5, <1>6, AbortStep

(* An answer with data: the converters come, and before them the dataFilter.  *)
Converting(s, r, filtered) ==
    /\ s \in Seq(Calling) /\ \E i \in DOMAIN s : s[i] = Call("convert", r)
    /\ \A i \in DOMAIN s : /\ s[i].r = r /\ s[i].do \in {"dataFilter", "convert"}
                           /\ s[i].do = "convert" => (i = 1 \/ filtered) /\ \A j \in DOMAIN s : ~(i < j)
    /\ \A i, j \in DOMAIN s : s[i].do = "convert" /\ s[j].do = "convert" => i = j

LEMMA DataCallsIs ==
  ASSUME NEW r \in Requests, NEW x
  PROVE  Converting(DataCalls(r, x), r, x.filtered)
<1> DEFINE s == DataCalls(r, x)
<1> SUFFICES Converting(s, r, x.filtered)
  OBVIOUS
<1>1. CASE x.filtered
  <2> DEFINE l == <<"dataFilter", "convert">>
  <2>1. l \in Seq(Events \cup Stages \cup Ends) /\ DOMAIN l = 1..2 /\ l[1] = "dataFilter" /\ l[2] = "convert"
    BY DEF Events, Stages
  <2>2. DataCalls(r, x) = Calls(r, l)
    BY <1>1, Zenon DEF DataCalls
  <2> HIDE DEF l, s
  <2>3. s = Calls(r, l)
    BY <2>2 DEF s
  <2>4. /\ s \in Seq(Calling) /\ DOMAIN s = 1..2 /\ s[1].do = "dataFilter" /\ s[2] = Call("convert", r)
        /\ s[2].do = "convert" /\ \A i \in DOMAIN s : s[i].r = r
    BY <2>1, <2>3, CallsAre
  <2> QED
    BY <1>1, <2>4 DEF Converting
<1>2. CASE ~x.filtered
  <2> DEFINE l == <<"convert">>
  <2>1. l \in Seq(Events \cup Stages \cup Ends) /\ DOMAIN l = 1..1 /\ l[1] = "convert"
    BY DEF Stages
  <2>2. DataCalls(r, x) = Calls(r, l)
    BY <1>2, Zenon DEF DataCalls
  <2> HIDE DEF l, s
  <2>3. s = Calls(r, l)
    BY <2>2 DEF s
  <2>4. /\ s \in Seq(Calling) /\ DOMAIN s = 1..1 /\ s[1] = Call("convert", r)
        /\ s[1].do = "convert" /\ \A i \in DOMAIN s : s[i].r = r
    BY <2>1, <2>3, CallsAre
  <2> QED
    BY <1>2, <2>4 DEF Converting
<1> QED
  BY <1>1, <1>2

LEMMA GoneStays ==
  ASSUME ChainInv, NEW r \in Requests, NEW y, StagesGone(r), y.state # -1,
         y.settled = jqXHR[r].settled, y.name = jqXHR[r].name
  PROVE  OneStays(r, y)
<1> SUFFICES ASSUME NEW j, Stays(j), todo[j].r = r
             PROVE  Fits(todo[j], y)
  BY DEF OneStays
<1>1. Fits(todo[j], jqXHR[r]) /\ todo[j].do \notin Stages
  BY DEF Stays, ChainInv, CallsFit, StagesGone
<1> QED
  BY <1>1 DEF Fits, Stages

(* Such an answer to r, whose record is y from now on.  *)
DataBy(r, y) ==
    /\ Sound(y) /\ y.state = 2 /\ ~y.flying /\ y.outcome \notin Good /\ (y.called => y.container = r \/ y.settled)
    /\ jqXHR[r].state # -1 /\ y.settled = jqXHR[r].settled /\ (AbortInSend \/ ~y.settled)
    /\ OneSame(r, y) /\ y.fireGlobals = jqXHR[r].fireGlobals
    /\ StagesGone(r) /\ OwnHead(r) /\ (y.name # 0 => Alone)

LEMMA DataStep ==
  ASSUME NamesInv, Calmly, NEW r \in Requests, NEW x, NEW y \in XHR,
         DataBy(r, y), Placed(r, y), x.filtered = y.filtered, todo' = DataCalls(r, x) \o Rest
  PROVE  ChainInv' /\ Moves
<1>1. PICK s : s = DataCalls(r, x)
  OBVIOUS
<1>2. /\ s \in Seq(Calling) /\ \E i \in DOMAIN s : s[i] = Call("convert", r)
      /\ \A i \in DOMAIN s : /\ s[i].r = r /\ s[i].do \in {"dataFilter", "convert"}
                             /\ s[i].do = "convert" => (i = 1 \/ y.filtered) /\ \A j \in DOMAIN s : ~(i < j)
      /\ \A i, j \in DOMAIN s : s[i].do = "convert" /\ s[j].do = "convert" => i = j
  <2>1. Converting(s, r, y.filtered)
    BY <1>1, DataCallsIs, Zenon
  <2> QED
    BY <2>1, Zenon DEF Converting
<1>3. Pushes(s)
  BY <1>1, <1>2 DEF Pushes
<1>4. Typed'
  BY <1>3, CalmlyTyped DEF Placed
<1>5. \A i \in DOMAIN s : Fits(s[i], y)
  <2> SUFFICES ASSUME NEW i \in DOMAIN s
               PROVE  Fits(s[i], y)
    OBVIOUS
  <2>1. s[i].r = r /\ s[i].do \in {"dataFilter", "convert"}
    BY <1>2
  <2> QED
    BY <2>1 DEF Fits, Stages, Ends, Answering, DataBy
<1>6. OneFits(r, y, s)
  BY <1>2, <1>5 DEF OneFits, AtOnce, Stages, DataBy
<1>7. OneStays(r, y)
  BY GoneStays DEF DataBy, OneSame, NamesInv
<1>8. MidFit(r, s)
  BY <1>2 DEF MidFit
<1>9. /\ Sound(y) /\ jqXHR'[r] = y /\ OneSame(r, y) /\ OwnHead(r) /\ threw' = threw /\ StagesGone(r)
      /\ \A q \in Requests \ {r} : Alike(q) /\ Sound(jqXHR'[q])
  BY DEF DataBy, Placed, Calmly
<1>10. ChainInv'
  BY <1>3, <1>4, <1>6, <1>7, <1>8, <1>9, OneGoes DEF NamesInv
<1>11. NoEnds(s) /\ NoBells(s)
  BY <1>2 DEF NoEnds, NoBells, Ends, Answering
<1>12. MovesOn(r, s)
  BY <1>3, <1>9, <1>11 DEF MovesOn, GoesOn, SameCount, DataBy, OneSame, Others
<1> QED
  BY <1>10, <1>12 DEF Moves

(* A request goes on.  *)
GoesBy(r, y, s) ==
    /\ Pushes(s) /\ Sound(y) /\ y.state # -1 /\ jqXHR[r].state # -1 /\ y.settled = jqXHR[r].settled
    /\ OneSame(r, y) /\ y.fireGlobals = jqXHR[r].fireGlobals
    /\ OneFits(r, y, s) /\ MidFit(r, s) /\ StagesGone(r) /\ OwnHead(r)

LEMMA GoChain ==
  ASSUME NamesInv, Calmly, NEW r \in Requests, NEW y \in XHR, NEW s, GoesBy(r, y, s), Placed(r, y)
  PROVE  ChainInv'
<1>1. Pushes(s)
  BY DEF GoesBy
<1>2. Typed'
  BY <1>1, CalmlyTyped DEF Placed
<1>3. OneStays(r, y)
  BY GoneStays DEF GoesBy, OneSame, NamesInv
<1>4. /\ Sound(y) /\ jqXHR'[r] = y /\ OneFits(r, y, s) /\ OneSame(r, y) /\ MidFit(r, s) /\ OwnHead(r)
      /\ threw' = threw /\ StagesGone(r) /\ \A q \in Requests \ {r} : Alike(q) /\ Sound(jqXHR'[q])
  BY DEF GoesBy, Placed, Calmly
<1> QED
  BY <1>1, <1>2, <1>3, <1>4, OneGoes DEF NamesInv

LEMMA GoMoves ==
  ASSUME NEW r \in Requests, NEW y, NEW s, GoesBy(r, y, s), Placed(r, y),
         AbortInSend \/ ~y.settled, NoEnds(s), NoBells(s)
  PROVE  MovesOn(r, s)
BY DEF MovesOn, GoesOn, SameCount, GoesBy, OneSame, Others, Placed

(* The calls that the browser makes come when no chain runs.  *)
LEMMA QuietIs ==
  ASSUME NamesInv, Quiet, UNCHANGED <<heard, busy>>
  PROVE  /\ Rest = <<>> /\ Handled /\ AtHandler /\ DOMAIN todo = {} /\ Alone
         /\ ~First("convert") /\ \A r : StagesGone(r) /\ OwnHead(r)
BY EmptySeq DEF Quiet, Rest, Handled, Hears, BusyGoes, Telling, First, AtHandler, Stays, Alone, StagesGone, OwnHead

(* The calls of a request alone are a chain of their own.  *)
LEMMA AllAlone ==
  ASSUME NEW r \in Requests, NEW x \in XHR, NEW o \in Outcomes, AbortInSend \/ ~x.settled
  PROVE  /\ HandlerCalls(r, x, o) \o <<>> = HandlerCalls(r, x, o)
         /\ DataCalls(r, x) \o <<>> = DataCalls(r, x)
<1>1. DataCalls(r, x) \in Seq(Calling)
  BY DataCallsIs DEF Converting
<1>2. HandlerCalls(r, x, o) \in Seq(Calling)
  <2>1. CASE x.settled
    BY <2>1, AgainCalls
  <2>2. CASE ~x.settled
    <3>1. PICK y : y = [x EXCEPT !.outcome = o]
      OBVIOUS
    <3>2. y.outcome = o /\ y.name = x.name /\ y.installed = x.installed /\ y.fireGlobals = x.fireGlobals
      BY <3>1 DEF XHR
    <3>3. HandlerCalls(r, x, o) = Calls(r, EndList(y))
      BY <2>2, <3>2, TellsAll
    <3> QED
      BY <3>3, EndCallsAre DEF EndCalls
  <2> QED
    BY <2>1, <2>2
<1> QED
  BY <1>1, <1>2, ConcatEmptySeq

LEMMA TimeoutAct ==
  ASSUME NamesInv, NEW r \in Requests, Timeout(r)
  PROVE  ChainInv' /\ Calmly /\ Moves /\ \A q \in Requests : OwnKept(q)
<1>1. Calmly /\ Rest = <<>> /\ StagesGone(r) /\ ~First("convert")
  BY QuietIs DEF Timeout, Calmly, NamesSame, NamesInv, ChainInv, Typed
<1>2. PICK no \in BOOLEAN : no = FALSE
  OBVIOUS
<1>3. PICK z : z = jqXHR[r]
  OBVIOUS
<1>4. z \in XHR /\ Sound(z) /\ z.timer
  BY <1>3 DEF NamesInv, ChainInv, Typed, Timeout
<1>5. PICK x : x = [z EXCEPT !.timer = no]
  OBVIOUS
<1>6. x \in XHR /\ ~x.timer /\ x.kind = z.kind /\ x.called = z.called /\ x.name = z.name /\ ButTimer(x, z)
  BY <1>2, <1>4, <1>5 DEF XHR, ButTimer, Less
<1>7. x.state = 1 /\ Sound(x)
  BY <1>4, <1>6 DEF Sound, ButTimer
<1>8. jqXHR' = [jqXHR EXCEPT ![r] = Aborted(x)] /\ todo' = AbortCalls(r, x)
  BY <1>2, <1>3, <1>5 DEF Timeout
<1>9. todo' = AbortCalls(r, x) \o Rest
  <2>1. AbortCalls(r, x) = HandlerCalls(r, x, "aborted") /\ "aborted" \in Outcomes /\ (AbortInSend \/ ~x.settled)
    BY <1>7 DEF AbortCalls, DoneCalls, Outcomes, Sound
  <2> QED
    BY <1>1, <1>6, <1>8, <2>1, AllAlone
<1>10. ButTimer(x, jqXHR[r])
  BY <1>3, <1>6
<1>11. x \in XHR /\ Sound(x) /\ x.state # -1 /\ jqXHR' = [jqXHR EXCEPT ![r] = Aborted(x)]
  BY <1>6, <1>7, <1>8
<1>12. ChainInv' /\ Moves /\ \A q \in Requests : OwnKept(q)
  BY <1>1, <1>9, <1>10, <1>11, AbortStep
<1> QED
  BY <1>1, <1>12

LEMMA LandsIs ==
  ASSUME NEW z \in XHR
  PROVE  LET x == [z EXCEPT !.flying = FALSE, !.live = FALSE] IN
         /\ x \in XHR /\ x.state = z.state /\ x.timer = z.timer /\ x.transport = z.transport
         /\ x.settled = z.settled /\ x.outcome = z.outcome /\ x.going = z.going /\ Less(x) = Less(z)
         /\ ~x.live /\ ~x.flying
<1>1. PICK no \in BOOLEAN : no = FALSE
  OBVIOUS
<1>2. PICK w : w = [z EXCEPT !.flying = no]
  OBVIOUS
<1>3. /\ w \in XHR /\ w.flying = no /\ w.state = z.state /\ w.timer = z.timer /\ w.transport = z.transport
      /\ w.settled = z.settled /\ w.outcome = z.outcome /\ w.going = z.going /\ Less(w) = Less(z)
  BY <1>1, <1>2 DEF XHR, Less
<1>4. PICK x : x = [w EXCEPT !.live = no]
  OBVIOUS
<1>5. /\ x \in XHR /\ x.live = no /\ x.flying = no /\ x.state = w.state /\ x.timer = w.timer
      /\ x.transport = w.transport /\ x.settled = w.settled /\ x.outcome = w.outcome /\ x.going = w.going
      /\ Less(x) = Less(w)
  BY <1>1, <1>3, <1>4 DEF XHR, Less
<1>6. [z EXCEPT !.flying = FALSE, !.live = FALSE] = x
  BY <1>1, <1>2, <1>4 DEF XHR
<1> QED
  BY <1>1, <1>3, <1>5, <1>6

LEMMA AnswerAct ==
  ASSUME NamesInv, NEW r \in Requests, Answer(r)
  PROVE  ChainInv' /\ Calmly /\ Moves /\ \A q \in Requests : OwnKept(q)
<1>0. \A q \in Requests : Sound(jqXHR[q])
  BY DEF NamesInv, ChainInv
<1>1. /\ Calmly /\ Rest = <<>> /\ StagesGone(r) /\ OwnHead(r) /\ Alone
  BY QuietIs DEF Answer, Calmly, NamesSame, NamesInv, ChainInv, Typed
<1>3. PICK z : z = jqXHR[r]
  OBVIOUS
<1>4. z \in XHR /\ Sound(z) /\ z.live /\ z.kind # "jsonp" /\ z.state = 1 /\ ~z.called
  BY <1>3 DEF NamesInv, ChainInv, Typed, Answer, Sound
<1>5. PICK x : x = [z EXCEPT !.flying = FALSE, !.live = FALSE]
  OBVIOUS
<1>6. /\ x \in XHR /\ x.state = z.state /\ x.timer = z.timer /\ x.transport = z.transport
      /\ x.settled = z.settled /\ x.outcome = z.outcome /\ x.going = z.going /\ Less(x) = Less(z)
      /\ ~x.live /\ ~x.flying
  BY <1>4, <1>5, LandsIs
<1>7. /\ x.name = z.name /\ x.kind = z.kind /\ x.installed = z.installed /\ x.fireGlobals = z.fireGlobals
      /\ x.container = z.container /\ x.called = z.called /\ x.filtered = z.filtered /\ x.throws = z.throws
  BY <1>6 DEF Less
<1>8. \/ jqXHR' = [jqXHR EXCEPT ![r] = Done(x)] /\ todo' = DataCalls(r, x)
      \/ \E o \in Dataless : jqXHR' = [jqXHR EXCEPT ![r] = AfterDone(x, o)] /\ todo' = DoneCalls(r, x, o)
  BY <1>3, <1>5 DEF Answer
<1>9. AbortInSend \/ ~x.settled
  BY <1>4, <1>6 DEF Sound
<1>10. CASE jqXHR' = [jqXHR EXCEPT ![r] = Done(x)] /\ todo' = DataCalls(r, x)
  <2>1. PICK y : y = Done(x)
    OBVIOUS
  <2>2. /\ y \in XHR /\ y.state = 2 /\ ~y.timer /\ ~y.transport
        /\ y.settled = x.settled /\ y.outcome = x.outcome /\ OfDone(y) = OfDone(x)
    BY <1>6, <2>1, BeginsDone
  <2>3. /\ y.name = x.name /\ y.kind = x.kind /\ y.fireGlobals = x.fireGlobals /\ y.container = x.container
        /\ y.called = x.called /\ y.filtered = x.filtered /\ y.throws = x.throws /\ ~y.live /\ ~y.flying
    BY <1>6, <2>2 DEF OfDone
  <2>4. Sound(y) /\ y.outcome \notin Good
    BY <1>4, <1>6, <1>7, <1>9, <2>2, <2>3 DEF Sound
  <2>5. /\ jqXHR' \in [Requests -> XHR] /\ jqXHR'[r] = y /\ Others(r)
        /\ \A q \in Requests \ {r} : jqXHR'[q] = jqXHR[q]
    BY <1>10, <2>1, <2>2, PutIs DEF NamesInv, ChainInv
  <2>6. Placed(r, y)
    BY <1>0, <2>5 DEF Placed, Others
  <2>7. DataBy(r, y)
    BY <1>1, <1>3, <1>4, <1>6, <1>7, <1>9, <2>2, <2>3, <2>4 DEF DataBy, OneSame
  <2>8. todo' = DataCalls(r, x) \o Rest
    BY <1>1, <1>6, <1>9, <1>10, AllAlone DEF Outcomes
  <2>9. ChainInv' /\ Moves
    BY <1>1, <2>2, <2>3, <2>6, <2>7, <2>8, DataStep
  <2>10. \A q \in Requests : OwnKept(q)
    BY <1>3, <1>6, <1>7, <2>2, <2>3, <2>5 DEF OwnKept
  <2> QED
    BY <1>1, <2>9, <2>10
<1>11. ASSUME NEW o \in Dataless,
              jqXHR' = [jqXHR EXCEPT ![r] = AfterDone(x, o)] /\ todo' = DoneCalls(r, x, o)
       PROVE  ChainInv' /\ Calmly /\ Moves /\ \A q \in Requests : OwnKept(q)
  <2>1. PICK y : y = AfterDone(x, o)
    OBVIOUS
  <2>2. o \in Outcomes
    BY DEF Dataless, Outcomes
  <2>3. Finished(x, y, o)
    BY <1>4, <1>6, <1>7, <2>1, <2>2, FinishedIs DEF Sound
  <2>4. /\ y \in XHR /\ Sound(y) /\ y.state = 2 /\ y.settled /\ y.outcome = Outcome(x, o)
        /\ y.name = x.name /\ y.fireGlobals = x.fireGlobals /\ y.installed = x.installed
        /\ y.container = x.container /\ y.called = x.called /\ y.filtered = x.filtered /\ y.throws = x.throws
    BY <2>3 DEF Finished, Less
  <2>5. /\ jqXHR' \in [Requests -> XHR] /\ jqXHR'[r] = y /\ Others(r)
        /\ \A q \in Requests \ {r} : jqXHR'[q] = jqXHR[q]
    BY <1>11, <2>1, <2>4, PutIs DEF NamesInv, ChainInv
  <2>6. Placed(r, y)
    BY <1>0, <2>5 DEF Placed, Others
  <2>7. EndedBy(r, x, y, o)
    BY <1>1, <1>3, <1>4, <1>6, <1>7, <1>9, <2>4 DEF EndedBy, OneSame
  <2>8. todo' = HandlerCalls(r, x, o) \o Rest
    BY <1>1, <1>4, <1>6, <1>9, <1>11, <2>2, AllAlone DEF DoneCalls
  <2>9. ChainInv' /\ \E s : Finishes(r, s) \/ Again(r, s)
    BY <1>1, <1>6, <2>2, <2>4, <2>6, <2>7, <2>8, EndStep
  <2>10. \A q \in Requests : OwnKept(q)
    BY <1>3, <1>4, <1>7, <2>4, <2>5 DEF OwnKept
  <2> QED
    BY <1>1, <2>9, <2>10 DEF Moves
<1> QED
  BY <1>8, <1>10, <1>11

LEMMA NoScriptAct ==
  ASSUME NamesInv, NEW r \in Requests, NoScript(r)
  PROVE  ChainInv' /\ Calmly /\ Moves /\ \A q \in Requests : OwnKept(q)
<1>0. \A q \in Requests : Sound(jqXHR[q])
  BY DEF NamesInv, ChainInv
<1>1. Calmly /\ Rest = <<>> /\ Alone /\ ~First("convert")
  BY QuietIs DEF NoScript, Calmly, NamesSame, NamesInv, ChainInv, Typed
<1>2. PICK no \in BOOLEAN : no = FALSE
  OBVIOUS
<1>3. PICK z : z = jqXHR[r]
  OBVIOUS
<1>4. z \in XHR /\ Sound(z) /\ z.flying
  BY <1>3 DEF NamesInv, ChainInv, Typed, NoScript
<1>5. PICK x : x = [z EXCEPT !.flying = no]
  OBVIOUS
<1>6. /\ x \in XHR /\ x.live = z.live /\ x.state = z.state /\ x.timer = z.timer
      /\ x.transport = z.transport /\ x.settled = z.settled /\ x.outcome = z.outcome /\ Less(x) = Less(z)
  BY <1>4, <1>5, FliesIs
<1>7. x.going = z.going /\ ~x.flying
  BY <1>2, <1>4, <1>5 DEF XHR
<1>8. /\ x.name = z.name /\ x.kind = z.kind /\ x.installed = z.installed /\ x.fireGlobals = z.fireGlobals
      /\ x.container = z.container /\ x.called = z.called /\ x.filtered = z.filtered /\ x.throws = z.throws
      /\ x.guarded = z.guarded
  BY <1>6 DEF Less
<1>9. Sound(x)
  <2>1. z.state \in {1, 2}
    BY <1>4 DEF Sound
  <2> QED
    BY <1>4, <1>6, <1>7, <1>8, <2>1 DEF Sound
<1>10. jqXHR' = [jqXHR EXCEPT ![r] = x]
  BY <1>2, <1>3, <1>5 DEF NoScript
<1>11. /\ jqXHR' \in [Requests -> XHR] /\ jqXHR'[r] = x /\ Others(r)
       /\ \A q \in Requests \ {r} : jqXHR'[q] = jqXHR[q]
  BY <1>6, <1>10, PutIs DEF NamesInv, ChainInv
<1>12. Alike(r) /\ OwnKept(r)
  BY <1>1, <1>3, <1>6, <1>7, <1>8, <1>11 DEF Alike, OwnKept
<1>13. \A q \in Requests : Sound(jqXHR'[q]) /\ Alike(q) /\ OwnKept(q)
  BY <1>0, <1>9, <1>11, <1>12 DEF Others, OwnKept
<1>14. todo' = Rest
  BY <1>1 DEF NoScript, Quiet
<1> QED
  BY <1>1, <1>11, <1>13, <1>14, KeepStep DEF Moves

-----------------------------------------------------------------------------
(* The actions of the running chain.  *)
LEMMA Doings ==
  ASSUME NamesInv, NEW do, Doing(do)
  PROVE  /\ todo # <<>> /\ todo[1].do = do /\ todo[1] \in Calling /\ 1 \in DOMAIN todo
         /\ Now = todo[1].r /\ Now \in Requests /\ Rest = Tail(todo) /\ First(do)
         /\ X = jqXHR[Now] /\ X \in XHR /\ Sound(X) /\ Fits(todo[1], X)
<1>1. todo # <<>>
  BY DEF Doing
<1>2. Head(todo) = todo[1] /\ 1 \in DOMAIN todo /\ todo[1] \in Calling /\ Rest = Tail(todo)
  BY <1>1, FirstIs DEF NamesInv, ChainInv
<1>3. todo[1].do = do /\ Now = todo[1].r /\ Now \in Requests
  BY <1>2 DEF Doing, Now, Calling
<1>4. Fits(todo[1], jqXHR[todo[1].r])
  BY <1>2 DEF NamesInv, ChainInv, CallsFit
<1>5. X = jqXHR[Now] /\ X \in XHR /\ Sound(X)
  BY <1>3 DEF X, NamesInv, ChainInv, Typed
<1> QED
  BY <1>1, <1>2, <1>3, <1>4, <1>5 DEF First

LEMMA Unheard ==
  ASSUME NEW do, First(do), do \notin Answering \cup {"ajaxStart", "ajaxStop"}, UNCHANGED <<heard, busy>>
  PROVE  Handled
BY DEF First, Handled, Hears, BusyGoes, Telling

(* A handler is called.  *)
LEMMA HearingIs ==
  ASSUME NamesInv, Hearing
  PROVE  Handled /\ AtHandler /\ todo # <<>>
<1>1. todo # <<>> /\ Head(todo) = todo[1] /\ todo[1].do \in Events /\ Now = todo[1].r
  BY FirstIs DEF Hearing, NamesInv, ChainInv, Now
<1>2. Hears
  BY <1>1 DEF Hearing, Hears, Telling
<1>3. BusyGoes
  <2>1. busy' = CASE todo[1].do = "ajaxStart" -> TRUE [] todo[1].do = "ajaxStop" -> FALSE [] OTHER -> busy
    BY <1>1 DEF Hearing
  <2>2. CASE todo[1].do = "ajaxStart"
    BY <1>1, <2>1, <2>2 DEF BusyGoes, First
  <2>3. CASE todo[1].do = "ajaxStop"
    BY <1>1, <2>1, <2>3 DEF BusyGoes, First
  <2>4. CASE todo[1].do # "ajaxStart" /\ todo[1].do # "ajaxStop"
    BY <1>1, <2>1, <2>4 DEF BusyGoes, First
  <2> QED
    BY <2>2, <2>3, <2>4
<1> QED
  BY <1>1, <1>2, <1>3 DEF Handled, AtHandler

LEMMA ReturnAct ==
  ASSUME NamesInv, Return
  PROVE  ChainInv' /\ Calmly /\ Moves /\ AtHandler /\ \A q \in Requests : OwnKept(q)
<1>0. \A q \in Requests : Sound(jqXHR[q])
  BY DEF NamesInv, ChainInv
<1>1. Handled /\ AtHandler /\ todo # <<>> /\ ~First("convert")
  BY HearingIs, NoConversion DEF Return
<1>2. Calmly
  BY <1>1 DEF Return, Calmly, NamesSame, NamesInv, ChainInv, Typed
<1>3. todo' = Rest
  BY <1>1, FirstIs DEF Return, NamesInv, ChainInv
<1>4. CASE jqXHR' = jqXHR
  <2>1. jqXHR' \in [Requests -> XHR]
    BY <1>4 DEF NamesInv, ChainInv, Typed
  <2>2. \A q \in Requests : Sound(jqXHR'[q]) /\ Alike(q) /\ OwnKept(q)
    BY <1>0, <1>4 DEF Alike, OwnKept
  <2> QED
    BY <1>1, <1>2, <1>3, <2>1, <2>2, KeepStep DEF Moves
<1>5. CASE Doing("beforeSend") /\ jqXHR' # jqXHR
  <2>1. Now \in Requests /\ X = jqXHR[Now] /\ X \in XHR /\ Sound(X) /\ Fits(todo[1], X)
    BY <1>5, Doings
  <2>2. PICK yes \in BOOLEAN : yes = TRUE
    OBVIOUS
  <2>3. PICK r \in Requests : r = Now
    BY <2>1
  <2>4. PICK x : x = jqXHR[r]
    OBVIOUS
  <2>5. x \in XHR /\ Sound(x) /\ x.state # -1
    BY <2>1, <2>3, <2>4 DEF Fits
  <2>6. PICK y : /\ jqXHR' = [jqXHR EXCEPT ![r] = y]
                 /\ y = [x EXCEPT !.refused = yes] \/ y = [x EXCEPT !.global = ~x.global]
    BY <1>5, <2>1, <2>2, <2>3, <2>4 DEF Return
  <2>7. /\ y \in XHR /\ y.state = x.state /\ y.timer = x.timer /\ y.transport = x.transport
        /\ y.settled = x.settled /\ y.outcome = x.outcome /\ y.live = x.live /\ y.flying = x.flying
        /\ y.going = x.going /\ Less(y) = Less(x)
    <3>1. CASE y = [x EXCEPT !.refused = yes]
      BY <2>5, <3>1 DEF XHR, Less
    <3>2. CASE y = [x EXCEPT !.global = ~x.global]
      BY <2>5, <3>2 DEF XHR, Less
    <3> QED
      BY <2>6, <3>1, <3>2
  <2>11. /\ y.name = x.name /\ y.kind = x.kind /\ y.installed = x.installed /\ y.fireGlobals = x.fireGlobals
         /\ y.container = x.container /\ y.called = x.called /\ y.filtered = x.filtered
         /\ y.throws = x.throws /\ y.guarded = x.guarded
    BY <2>7 DEF Less
  <2>8. Sound(y)
    BY <2>5, <2>7, <2>11 DEF Sound
  <2>9. /\ jqXHR' \in [Requests -> XHR] /\ jqXHR'[r] = y /\ Others(r)
        /\ \A q \in Requests \ {r} : jqXHR'[q] = jqXHR[q]
    BY <2>6, <2>7, PutIs DEF NamesInv, ChainInv
  <2>10. \A q \in Requests : Sound(jqXHR'[q]) /\ Alike(q) /\ OwnKept(q)
    <3>1. Alike(r) /\ OwnKept(r)
      BY <2>4, <2>7, <2>9, <2>11 DEF Alike, OwnKept
    <3> QED
      BY <1>0, <2>8, <2>9, <3>1 DEF Others, OwnKept
  <2> QED
    BY <1>1, <1>2, <1>3, <2>9, <2>10, KeepStep DEF Moves
<1> QED
  BY <1>4, <1>5 DEF Return

(* An exception ends the chain; nothing else happens.  *)
LEMMA ThrowAct ==
  ASSUME NamesInv, Throw
  PROVE  /\ ChainInv' /\ \A q \in Requests : jqXHR'[q] = jqXHR[q] /\ OwnKept(q) /\ Alike(q)
         /\ Handled /\ NamesSame /\ threw' /\ todo' = <<>> /\ AtHandler /\ todo # <<>>
<1>1. Handled /\ AtHandler /\ todo # <<>>
  BY HearingIs DEF Throw
<1>2. heard' \in [Requests -> Seq(Answering)] /\ busy' \in BOOLEAN
  BY <1>1, HandledTyped DEF NamesInv, ChainInv
<1>3. todo' \in Seq(Calling) /\ DOMAIN todo' = {}
  BY NothingPushed DEF Throw
<1>4. threw' \in BOOLEAN /\ antics' \in Nat
  BY DEF Throw, NamesInv, ChainInv, Typed
<1>5. jqXHR' = jqXHR /\ active' = active /\ NamesSame
  BY DEF Throw, NamesSame
<1>6. Typed'
  BY <1>2, <1>3, <1>4, <1>5 DEF Typed, NamesInv, ChainInv, NamesSame
<1>7. CallsFit' /\ OneStage' /\ FirstOnly' /\ LastOnly'
  BY <1>3 DEF CallsFit, OneStage, FirstOnly, LastOnly
<1>10. \A r \in Requests : Midway(r)'
  <2> SUFFICES ASSUME NEW r \in Requests, jqXHR[r].state = 2, ~jqXHR[r].settled
               PROVE  jqXHR[r].filtered \/ jqXHR[r].throws
    BY <1>5 DEF Midway, Throw
  <2>1. CASE Has("convert", r)
    <3>1. PICK i \in DOMAIN todo : todo[i] = Call("convert", r)
      BY <2>1 DEF Has
    <3>2. todo[i].do = "convert" /\ todo[i].r = r
      BY <3>1 DEF Call
    <3>3. i # 1
      BY <1>1, <3>2 DEF AtHandler, Events
    <3>4. ~Soon(todo[i])
      BY <3>3 DEF NamesInv, ChainInv, FirstOnly
    <3> QED
      BY <3>2, <3>4 DEF Soon
  <2> QED
    BY <2>1 DEF Midway, NamesInv, ChainInv
<1>8. ChainInv'
  <2>1. \A r \in Requests : Sound(jqXHR'[r])
    BY <1>5 DEF ChainInv, NamesInv
  <2> QED
    BY <1>6, <1>7, <1>10, <2>1 DEF ChainInv, Sound
<1>9. \A q \in Requests : jqXHR'[q] = jqXHR[q] /\ OwnKept(q) /\ Alike(q)
  BY <1>5 DEF OwnKept, Alike
<1> QED
  BY <1>1, <1>5, <1>8, <1>9 DEF Throw

LEMMA CleanUpAct ==
  ASSUME NamesInv, CleanUp
  PROVE  /\ ChainInv' /\ Keeps(<<>>) /\ Handled /\ First("cleanUp") /\ threw' = threw /\ active' = active
         /\ \A q \in Requests : jqXHR'[q] = jqXHR[q] /\ OwnKept(q)
<1>1. /\ todo # <<>> /\ First("cleanUp") /\ Now \in Requests /\ Rest = Tail(todo) /\ X \in XHR
  BY Doings DEF CleanUp
<1>2. Handled
  BY <1>1, Unheard DEF CleanUp, Answering
<1>3. jqXHR' = jqXHR /\ todo' = Rest
  BY <1>1 DEF CleanUp
<1>4. Pushes(<<>>)
  BY <1>3, NothingPushed, NothingBefore DEF Pushes, NamesInv, ChainInv
<1>5. \A q \in Requests : Sound(jqXHR'[q]) /\ Alike(q) /\ OwnKept(q) /\ jqXHR'[q] = jqXHR[q]
  BY <1>3 DEF Alike, OwnKept, NamesInv, ChainInv
<1>6. oldCallbacks' \in Seq(Nat) /\ window' \in [Names -> Requests \cup {NoOne}]
  <2>1. X.name \in Nat /\ oldCallbacks \in Seq(Nat)
    BY <1>1 DEF XHR, NamesInv, ChainInv, Typed
  <2>2. oldCallbacks' = Append(oldCallbacks, X.name)
    BY DEF CleanUp
  <2>3. PICK n : n = X.name
    OBVIOUS
  <2>4. window' = [window EXCEPT ![n] = NoOne]
    BY <2>3 DEF CleanUp
  <2>5. window \in [Names -> Requests \cup {NoOne}]
    BY DEF NamesInv, ChainInv, Typed
  <2>6. window' \in [Names -> Requests \cup {NoOne}]
    BY <2>4, <2>5
  <2> QED
    BY <2>1, <2>2, <2>6, AppendProperties
<1>7. jqXHR' \in [Requests -> XHR] /\ threw' = threw /\ active' \in Int /\ antics' \in Nat /\ nonce' \in Nat
  BY DEF CleanUp, NamesInv, ChainInv, Typed
<1>8. Typed'
  BY <1>2, <1>4, <1>6, <1>7, StepTyped
<1>9. Keeps(<<>>)
  BY <1>4, <1>5, NothingPushed DEF Keeps
<1>10. ChainInv'
  <2>1. ~First("convert")
    BY <1>1 DEF First
  <2> QED
    BY <1>5, <1>7, <1>8, <1>9, <2>1, NothingPushed, KeepsChain DEF NamesInv
<1> QED
  BY <1>1, <1>2, <1>5, <1>9, <1>10 DEF CleanUp

(* The counter goes down, and ajaxStop comes when it is 0.  *)
LEMMA OneCall ==
  ASSUME NEW e \in Events \cup Stages \cup Ends, NEW r \in Requests
  PROVE  LET s == Calls(r, <<e>>) IN
         /\ s \in Seq(Calling) /\ DOMAIN s = 1..1 /\ s[1] = Call(e, r) /\ s[1].do = e /\ s[1].r = r
<1> DEFINE l == <<e>>
<1>1. l \in Seq(Events \cup Stages \cup Ends) /\ DOMAIN l = 1..1 /\ l[1] = e
  OBVIOUS
<1> HIDE DEF l
<1>2. /\ Calls(r, l) \in Seq(Calling) /\ DOMAIN Calls(r, l) = 1..1
      /\ Calls(r, l)[1] = Call(e, r) /\ Calls(r, l)[1].do = e /\ Calls(r, l)[1].r = r
  BY <1>1, CallsAre
<1> QED
  BY <1>2 DEF l

CountsDown(s) ==
    /\ First("countDown") /\ active' = active - 1
    /\ IF active = 1 THEN DOMAIN s = 1..1 /\ s[1].do = "ajaxStop" ELSE s = <<>>

LEMMA CountDownAct ==
  ASSUME NamesInv, CountDown
  PROVE  /\ ChainInv' /\ Handled /\ NamesSame /\ threw' = threw
         /\ \E s : Keeps(s) /\ CountsDown(s)
         /\ \A q \in Requests : jqXHR'[q] = jqXHR[q] /\ OwnKept(q)
<1>1. /\ todo # <<>> /\ First("countDown") /\ Now \in Requests /\ Rest = Tail(todo)
      /\ X = jqXHR[Now] /\ Fits(todo[1], X) /\ todo[1].do = "countDown"
  BY Doings DEF CountDown
<1>2. Handled
  BY <1>1, Unheard DEF CountDown, Answering
<1>3. \A q \in Requests : Sound(jqXHR'[q]) /\ Alike(q) /\ OwnKept(q) /\ jqXHR'[q] = jqXHR[q]
  BY DEF Alike, OwnKept, NamesInv, ChainInv, CountDown
<1>4. PICK s : s = IF active = 1 THEN Calls(Now, <<"ajaxStop">>) ELSE <<>>
  OBVIOUS
<1>5. s \in Seq(Calling) /\ NoEnds(s) /\ NewFit(s) /\ \A i \in DOMAIN s : s[i].do \notin Stages
  <2>1. CASE active = 1
    <3>1. /\ s \in Seq(Calling) /\ DOMAIN s = 1..1 /\ s[1].do = "ajaxStop" /\ s[1].r = Now
      BY <1>1, <1>4, <2>1, OneCall DEF Events
    <3>2. jqXHR'[Now].state # -1
      BY <1>1, <1>3 DEF Fits
    <3>3. Fits(s[1], jqXHR'[Now])
      BY <3>1, <3>2 DEF Fits, Stages, Ends, Answering
    <3> QED
      BY <3>1, <3>3 DEF NoEnds, NewFit, Stages, Ends, Answering, SoonNext, LateNext
  <2>2. CASE active # 1
    BY <1>4, <2>2, NothingPushed
  <2> QED
    BY <2>1, <2>2
<1>6. Pushes(s)
  BY <1>1, <1>4, <1>5 DEF Pushes, CountDown
<1>7. jqXHR' \in [Requests -> XHR] /\ active' \in Int /\ NamesSame
  BY DEF CountDown, NamesInv, ChainInv, Typed, NamesSame
<1>8. Typed'
  BY <1>2, <1>6, <1>7, StepTyped DEF CountDown, NamesInv, ChainInv, Typed
<1>9. Keeps(s)
  BY <1>3, <1>5, <1>6 DEF Keeps
<1>10. ChainInv'
  <2>1. ~First("convert") /\ threw' = threw
    BY <1>1 DEF First, CountDown
  <2> QED
    BY <1>3, <1>5, <1>8, <1>9, <2>1, KeepsChain DEF NamesInv
<1>11. CountsDown(s)
  <2>1. CASE active = 1
    BY <1>1, <1>4, <2>1, OneCall DEF Events, CountsDown, CountDown
  <2>2. CASE active # 1
    BY <1>1, <1>4, <2>2 DEF CountsDown, CountDown
  <2> QED
    BY <2>1, <2>2
<1> QED
  BY <1>2, <1>3, <1>7, <1>9, <1>10, <1>11 DEF CountDown

(* A request is counted, if it is global, and beforeSend comes if there is one. *)
CountsUp(r, s) ==
    /\ ~jqXHR[r].fireGlobals
    /\ active' = IF jqXHR'[r].fireGlobals THEN active + 1 ELSE active
    /\ IF jqXHR'[r].fireGlobals /\ active = 0 THEN 1 \in DOMAIN s /\ s[1].do = "ajaxStart" ELSE NoBells(s)

Starting(s, r, c) ==
    /\ s \in Seq(Calling)
    /\ \A i \in DOMAIN s : /\ s[i].r = r /\ s[i].do \in {"ajaxStart", "beforeSend", "dispatch"}
                           /\ s[i].do = "ajaxStart" => c /\ i = 1
    /\ c => 1 \in DOMAIN s /\ s[1].do = "ajaxStart"
    /\ \A i, j \in DOMAIN s : s[i].do = "dispatch" /\ s[j].do = "dispatch" => i = j

LEMMA StartCalls ==
  ASSUME NEW r \in Requests, NEW c \in BOOLEAN, NEW g \in BOOLEAN
  PROVE  Starting(Calls(r, (IF c THEN <<"ajaxStart">> ELSE <<>>)
                           \o (IF g THEN <<"beforeSend">> ELSE <<>>) \o <<"dispatch">>), r, c)
<1> DEFINE Does == Events \cup Stages \cup Ends
           d == <<"dispatch">>
           b == IF g THEN <<"beforeSend">> ELSE <<>>
           a == IF c THEN <<"ajaxStart">> ELSE <<>>
<1>1. d \in Seq(Does) /\ Len(d) = 1 /\ d[1] = "dispatch"
  BY DEF Stages
<1>2. a \in Seq(Does) /\ Len(a) \in {0, 1} /\ (Len(a) = 1 <=> c) /\ (c => a[1] = "ajaxStart")
  <2>1. CASE c
    BY <2>1 DEF Events
  <2>2. CASE ~c
    BY <2>2, EmptySeq
  <2> QED
    BY <2>1, <2>2
<1>3. b \in Seq(Does) /\ Len(b) \in {0, 1} /\ (Len(b) = 1 => b[1] = "beforeSend")
  <2>1. CASE g
    BY <2>1 DEF Events
  <2>2. CASE ~g
    BY <2>2, EmptySeq
  <2> QED
    BY <2>1, <2>2
<1> DEFINE p == a \o b  l == p \o d
<1> HIDE DEF a, b, d, Does
<1>4. /\ p \in Seq(Does) /\ Len(p) = Len(a) + Len(b)
      /\ \A i \in 1..(Len(a) + Len(b)) : p[i] = IF i <= Len(a) THEN a[i] ELSE b[i - Len(a)]
  BY <1>2, <1>3, ConcatProperties
<1> HIDE DEF p
<1>5. /\ l \in Seq(Does) /\ Len(l) = Len(p) + Len(d)
      /\ \A i \in 1..(Len(p) + Len(d)) : l[i] = IF i <= Len(p) THEN p[i] ELSE d[i - Len(p)]
  <2>1. p \in Seq(Does) /\ d \in Seq(Does)
    BY <1>1, <1>4
  <2> QED
    BY <2>1, ConcatProperties
<1>6. DOMAIN l = 1..Len(l)
  BY <1>5, LenProperties
<1> HIDE DEF l
<1>7. \A i \in 1..Len(p) : p[i] = IF i <= Len(a) THEN "ajaxStart" ELSE "beforeSend"
  <2> SUFFICES ASSUME NEW i \in 1..Len(p)
               PROVE  p[i] = IF i <= Len(a) THEN "ajaxStart" ELSE "beforeSend"
    OBVIOUS
  <2>1. CASE i <= Len(a)
    <3>1. i = 1 /\ Len(a) = 1 /\ p[i] = a[i]
      BY <1>2, <1>4, <2>1
    <3> QED
      BY <1>2, <2>1, <3>1
  <2>2. CASE ~(i <= Len(a))
    <3>1. i - Len(a) = 1 /\ Len(b) = 1 /\ p[i] = b[i - Len(a)]
      BY <1>2, <1>3, <1>4, <2>2
    <3> QED
      BY <1>3, <2>2, <3>1
  <2> QED
    BY <2>1, <2>2
<1>8. Len(p) \in Nat /\ Len(a) <= Len(p) /\ Len(l) = Len(p) + 1 /\ DOMAIN l = 1..(Len(p) + 1)
  BY <1>1, <1>2, <1>3, <1>4, <1>5, <1>6
<1>9. \A i \in DOMAIN l : l[i] = IF i <= Len(a) THEN "ajaxStart" ELSE IF i <= Len(p) THEN "beforeSend" ELSE "dispatch"
  <2> SUFFICES ASSUME NEW i \in 1..(Len(p) + 1)
               PROVE  l[i] = IF i <= Len(a) THEN "ajaxStart" ELSE IF i <= Len(p) THEN "beforeSend" ELSE "dispatch"
    BY <1>8
  <2>1. CASE i <= Len(p)
    BY <1>1, <1>2, <1>5, <1>7, <1>8, <2>1
  <2>2. CASE ~(i <= Len(p))
    <3>1. i = Len(p) + 1 /\ l[i] = d[1]
      BY <1>1, <1>5, <1>8, <2>2
    <3> QED
      BY <1>1, <1>2, <1>8, <2>2, <3>1
  <2> QED
    BY <2>1, <2>2
<1>10. /\ Calls(r, l) \in Seq(Calling) /\ DOMAIN Calls(r, l) = DOMAIN l
       /\ \A i \in DOMAIN l : Calls(r, l)[i].do = l[i] /\ Calls(r, l)[i].r = r
  BY <1>5, CallsAre DEF Does
<1>11. PICK t : t = Calls(r, l)
  OBVIOUS
<1>12. t \in Seq(Calling) /\ DOMAIN t = 1..(Len(p) + 1) /\ \A i \in DOMAIN t : t[i].do = l[i] /\ t[i].r = r
  BY <1>8, <1>10, <1>11
<1>17. PICK k \in {0, 1} : k = Len(a) /\ (k = 1 => c) /\ (c => k = 1)
  BY <1>2
<1>18. PICK m \in Nat : m = Len(p) /\ k <= m
  BY <1>8, <1>17
<1>19. DOMAIN t = 1..(m + 1) /\ \A i \in DOMAIN t :
          t[i].do = IF i <= k THEN "ajaxStart" ELSE IF i <= m THEN "beforeSend" ELSE "dispatch"
  BY <1>8, <1>9, <1>12, <1>17, <1>18
<1>13. \A i \in DOMAIN t : /\ t[i].do \in {"ajaxStart", "beforeSend", "dispatch"}
                           /\ t[i].do = "ajaxStart" => c /\ i = 1
  BY <1>17, <1>18, <1>19
<1>14. c => 1 \in DOMAIN t /\ t[1].do = "ajaxStart"
  BY <1>17, <1>18, <1>19
<1>15. \A i, j \in DOMAIN t : t[i].do = "dispatch" /\ t[j].do = "dispatch" => i = j
  <2>1. \A i \in DOMAIN t : t[i].do = "dispatch" => i = m + 1
    BY <1>18, <1>19
  <2> QED
    BY <2>1
<1>16. Starting(t, r, c)
  BY <1>12, <1>13, <1>14, <1>15 DEF Starting
<1> QED
  BY <1>11, <1>16 DEF l, p, a, b, d

LEMMA NoOtherStage ==
  ASSUME NamesInv, todo # <<>>, todo[1].do \in Stages
  PROVE  StagesGone(todo[1].r) /\ OwnHead(todo[1].r)
<1>1. 1 \in DOMAIN todo /\ DOMAIN todo \subseteq Int
  BY FirstIs, LenProperties DEF NamesInv, ChainInv, Typed
<1>2. ASSUME NEW j, Stays(j), todo[j].r = todo[1].r, todo[j].do \in Stages
      PROVE  FALSE
  <2>1. j \in DOMAIN todo /\ j > 1
    BY <1>2 DEF Stays
  <2>2. j = 1
    BY <1>1, <1>2, <2>1 DEF NamesInv, ChainInv, OneStage
  <2> QED
    BY <1>1, <2>1, <2>2
<1> QED
  BY <1>2 DEF StagesGone, OwnHead

LEMMA StartAct ==
  ASSUME NamesInv, Start
  PROVE  /\ ChainInv' /\ Handled /\ NamesSame /\ threw' = threw /\ First("start")
         /\ \/ Keeps(<<>>) /\ active' = active
            \/ \E r \in Requests : \E s : GoesOn(r, s) /\ CountsUp(r, s)
         /\ \A q \in Requests : OwnKept(q)
<1>1. /\ todo # <<>> /\ First("start") /\ Now \in Requests /\ Rest = Tail(todo) /\ 1 \in DOMAIN todo
      /\ X = jqXHR[Now] /\ X \in XHR /\ Sound(X) /\ Fits(todo[1], X) /\ todo[1].do = "start" /\ Now = todo[1].r
  BY Doings DEF Start
<1>2. Handled /\ NamesSame /\ threw' = threw /\ antics' \in Nat
  BY <1>1, Unheard DEF Start, Answering, NamesSame, NamesInv, ChainInv, Typed
<1>3. \A q \in Requests : Sound(jqXHR[q])
  BY DEF NamesInv, ChainInv
<1>4. CASE X.state = 2
  <2>1. todo' = Rest /\ jqXHR' = jqXHR /\ active' = active
    BY <1>1, <1>4 DEF Start
  <2>2. \A q \in Requests : Sound(jqXHR'[q]) /\ Alike(q) /\ OwnKept(q)
    BY <1>3, <2>1 DEF Alike, OwnKept
  <2>3. Calmly /\ jqXHR' \in [Requests -> XHR] /\ ~First("convert")
    BY <1>1, <1>2, <2>1 DEF Calmly, NamesInv, ChainInv, Typed, First
  <2> QED
    BY <1>1, <1>2, <2>1, <2>2, <2>3, KeepStep
<1>5. CASE X.state # 2
  <2>1. PICK r \in Requests : r = Now
    BY <1>1
  <2>2. PICK x \in XHR : /\ x = X /\ x = jqXHR[r] /\ Sound(x) /\ x.state = 0 /\ ~x.installed /\ ~x.transport
                         /\ ~x.fireGlobals /\ ~x.called /\ x.outcome \notin Good
    BY <1>1, <1>5, <2>1 DEF Fits, Stages
  <2>3. PICK g \in BOOLEAN : g = x.guarded
    BY <2>2 DEF XHR
  <2>24. PICK w : w = [x EXCEPT !.fireGlobals = x.global]
    OBVIOUS
  <2>25. /\ w \in XHR /\ w.state = x.state /\ w.timer = x.timer /\ w.transport = x.transport
         /\ w.settled = x.settled /\ w.outcome = x.outcome /\ w.name = x.name /\ w.kind = x.kind
         /\ w.installed = x.installed /\ w.fireGlobals = x.global /\ w.container = x.container
         /\ w.called = x.called /\ w.live = x.live /\ w.flying = x.flying /\ w.filtered = x.filtered
         /\ w.throws = x.throws /\ w.guarded = x.guarded
    BY <2>2, <2>24 DEF XHR
  <2>26. PICK no \in BOOLEAN : no = ~g
    BY <2>3
  <2>27. PICK y : y = [w EXCEPT !.going = no]
    OBVIOUS
  <2>4. /\ y \in XHR /\ y.state = x.state /\ y.timer = x.timer /\ y.transport = x.transport
        /\ y.settled = x.settled /\ y.outcome = x.outcome /\ y.name = x.name /\ y.kind = x.kind
        /\ y.installed = x.installed /\ y.fireGlobals = x.global /\ y.container = x.container
        /\ y.called = x.called /\ y.live = x.live /\ y.flying = x.flying /\ y.filtered = x.filtered
        /\ y.throws = x.throws /\ y.guarded = g /\ y.going = ~g
    BY <2>3, <2>25, <2>26, <2>27 DEF XHR
  <2>29. y.guarded \/ y.going
    BY <2>4
  <2>5. Sound(y)
    BY <2>2, <2>4 DEF Sound
  <2>6. jqXHR' = [jqXHR EXCEPT ![r] = y]
    <3>1. y = [x EXCEPT !.fireGlobals = x.global, !.going = ~x.guarded]
      BY <2>2, <2>3, <2>24, <2>26, <2>27 DEF XHR
    <3>2. jqXHR' = [jqXHR EXCEPT ![r].fireGlobals = X.global, ![r].going = ~X.guarded]
      BY <1>5, <2>1 DEF Start
    <3>3. [jqXHR EXCEPT ![r].fireGlobals = X.global, ![r].going = ~X.guarded]
            = [jqXHR EXCEPT ![r] = [jqXHR[r] EXCEPT !.fireGlobals = X.global, !.going = ~X.guarded]]
      <4>1. jqXHR \in [Requests -> XHR]
        BY DEF NamesInv, ChainInv, Typed
      <4> QED
        BY <4>1
    <3> QED
      BY <2>2, <3>1, <3>2, <3>3
  <2>7. /\ jqXHR' \in [Requests -> XHR] /\ jqXHR'[r] = y /\ Others(r)
        /\ \A q \in Requests \ {r} : jqXHR'[q] = jqXHR[q]
    BY <2>4, <2>6, PutIs DEF NamesInv, ChainInv
  <2>8. PICK c \in BOOLEAN : c = (x.global /\ active = 0)
    BY <2>2 DEF XHR
  <2>9. PICK s : s = Calls(r, (IF c THEN <<"ajaxStart">> ELSE <<>>)
                              \o (IF g THEN <<"beforeSend">> ELSE <<>>) \o <<"dispatch">>)
    OBVIOUS
  <2>28. Starting(s, r, c)
    BY <2>9, StartCalls
  <2>10. /\ s \in Seq(Calling)
         /\ \A i \in DOMAIN s : /\ s[i].r = r /\ s[i].do \in {"ajaxStart", "beforeSend", "dispatch"}
                                /\ s[i].do = "ajaxStart" => c /\ i = 1
         /\ c => 1 \in DOMAIN s /\ s[1].do = "ajaxStart"
         /\ \A i, j \in DOMAIN s : s[i].do = "dispatch" /\ s[j].do = "dispatch" => i = j
    BY <2>28, Zenon DEF Starting
  <2>11. Pushes(s)
    <3>1. todo' = Calls(Now, (IF X.global /\ active = 0 THEN <<"ajaxStart">> ELSE <<>>)
                             \o (IF X.guarded THEN <<"beforeSend">> ELSE <<>>) \o <<"dispatch">>) \o Tail(todo)
      BY <1>5 DEF Start
    <3>2. todo' = s \o Rest
      BY <1>1, <2>1, <2>2, <2>3, <2>8, <2>9, <3>1
    <3> QED
      BY <2>10, <3>2 DEF Pushes
  <2>12. Typed'
    <3>1. active' \in Int
      BY <1>5 DEF Start, NamesInv, ChainInv, Typed
    <3>2. nonce' \in Nat /\ window' \in [Names -> Requests \cup {NoOne}] /\ oldCallbacks' \in Seq(Nat)
      BY <1>2 DEF NamesSame, NamesInv, ChainInv, Typed
    <3> QED
      BY <1>2, <2>7, <2>11, <3>1, <3>2, StepTyped
  <2>13. StagesGone(r) /\ OwnHead(r)
    BY <1>1, <2>1, NoOtherStage DEF Stages
  <2>14. OneSame(r, y) /\ MidFit(r, s)
    BY <2>2, <2>4, <2>7 DEF OneSame, MidFit
  <2>15. OneStays(r, y)
    BY <2>2, <2>4, <2>13, GoneStays DEF NamesInv
  <2>16. OneFits(r, y, s)
    <3>1. ASSUME NEW i \in DOMAIN s
          PROVE  Fits(s[i], y) /\ s[i].do # "convert" /\ (s[i].do \in AtOnce => i = 1)
      <4>1. s[i].do \in {"ajaxStart", "beforeSend", "dispatch"} /\ (s[i].do = "ajaxStart" => i = 1)
        BY <2>10
      <4> QED
        BY <2>2, <2>4, <2>29, <4>1 DEF Fits, Stages, Ends, Answering, AtOnce
    <3>2. \A i \in DOMAIN s : s[i].do \in Stages => s[i].do = "dispatch"
      BY <2>10 DEF Stages
    <3>3. \A i, j \in DOMAIN s : s[i].do \in Stages /\ s[j].do \in Stages => i = j
      BY <2>10, <3>2
    <3> QED
      BY <2>10, <3>1, <3>3 DEF OneFits
  <2>17. \A q \in Requests \ {r} : Alike(q) /\ Sound(jqXHR'[q])
    BY <1>3, <2>7 DEF Others
  <2>18. ChainInv'
    BY <1>2, <2>5, <2>7, <2>11, <2>12, <2>13, <2>14, <2>15, <2>16, <2>17, OneGoes DEF NamesInv
  <2>19. NoEnds(s)
    BY <2>10 DEF NoEnds, Ends, Answering
  <2>20. GoesOn(r, s)
    <3>1. ~jqXHR[r].settled
      BY <2>2 DEF Sound
    <3> QED
      BY <2>2, <2>4, <2>7, <2>11, <2>19, <3>1 DEF GoesOn
  <2>21. active' = IF jqXHR'[r].fireGlobals THEN active + 1 ELSE active
    BY <1>5, <2>2, <2>4, <2>7 DEF Start
  <2>22. CountsUp(r, s)
    <3>1. ~jqXHR[r].fireGlobals /\ jqXHR'[r].fireGlobals = x.global
      BY <2>2, <2>4, <2>7
    <3>2. c => 1 \in DOMAIN s /\ s[1].do = "ajaxStart"
      BY <2>10
    <3>3. ~c => NoBells(s)
      BY <2>10 DEF NoBells
    <3>4. IF jqXHR'[r].fireGlobals /\ active = 0 THEN 1 \in DOMAIN s /\ s[1].do = "ajaxStart" ELSE NoBells(s)
      BY <2>8, <3>1, <3>2, <3>3, Zenon
    <3> QED
      BY <2>21, <3>1, <3>4, Zenon DEF CountsUp
  <2>23. \A q \in Requests : OwnKept(q)
    BY <2>2, <2>4, <2>7 DEF OwnKept
  <2> QED
    BY <1>1, <1>2, <2>18, <2>20, <2>22, <2>23
<1> QED
  BY <1>4, <1>5

(* The calls that lead to the transport, after those of an end there was.  *)
SendingCalls(s, r, again) ==
    /\ s \in Seq(Calling)
    /\ \A i \in DOMAIN s : /\ s[i].r = r /\ s[i].do \in {"success", "error", "complete", "ajaxSend", "send"}
                           /\ s[i].do \in Ends => again
    /\ \A i, j \in DOMAIN s : s[i].do = "send" /\ s[j].do = "send" => i = j

LEMMA InstallIs ==
  ASSUME NEW x
  PROVE  /\ Installing(x) \in Seq(Events \cup Stages \cup Ends)
         /\ \A i \in 1..Len(Installing(x)) : Installing(x)[i] \in {"success", "error", "complete"} /\ x.settled
         /\ ~x.settled => Installing(x) = <<>>
<1>1. CASE x.settled
  <2>1. PICK e \in {"success", "error"} : e = IF IsSuccess(x.outcome) THEN "success" ELSE "error"
    OBVIOUS
  <2>2. Installing(x) = <<e, "complete">>
    BY <1>1, <2>1 DEF Installing
  <2>3. e \in Events /\ "complete" \in Events
    BY <2>1 DEF Events
  <2>4. PICK l : l = <<e, "complete">>
    OBVIOUS
  <2>5. l \in Seq(Events \cup Stages \cup Ends) /\ Len(l) = 2 /\ l[1] = e /\ l[2] = "complete"
    BY <2>3, <2>4
  <2> QED
    BY <1>1, <2>1, <2>2, <2>4, <2>5
<1>2. CASE ~x.settled
  <2>1. Installing(x) = <<>>
    BY <1>2 DEF Installing
  <2> QED
    BY <1>2, <2>1, EmptySeq
<1> QED
  BY <1>1, <1>2

LEMMA SendCalls ==
  ASSUME NEW r \in Requests, NEW x, NEW c
  PROVE  SendingCalls(Calls(r, Installing(x) \o (IF c THEN <<"ajaxSend">> ELSE <<>>) \o <<"send">>), r, x.settled)
<1> DEFINE Does == Events \cup Stages \cup Ends
           d == <<"send">>
           b == IF c THEN <<"ajaxSend">> ELSE <<>>
           a == Installing(x)
<1>1. d \in Seq(Does) /\ Len(d) = 1 /\ d[1] = "send"
  BY DEF Stages
<1>2. b \in Seq(Does) /\ Len(b) \in {0, 1} /\ (Len(b) = 1 => b[1] = "ajaxSend")
  <2>1. CASE c
    BY <2>1 DEF Events
  <2>2. CASE ~c
    BY <2>2, EmptySeq
  <2> QED
    BY <2>1, <2>2
<1>3. a \in Seq(Does) /\ \A i \in 1..Len(a) : a[i] \in {"success", "error", "complete"} /\ x.settled
  BY InstallIs
<1> DEFINE p == a \o b  l == p \o d
<1> HIDE DEF a, b, d, Does
<1>4. /\ p \in Seq(Does) /\ Len(p) = Len(a) + Len(b) /\ Len(a) \in Nat
      /\ \A i \in 1..(Len(a) + Len(b)) : p[i] = IF i <= Len(a) THEN a[i] ELSE b[i - Len(a)]
  BY <1>2, <1>3, ConcatProperties, LenProperties
<1> HIDE DEF p
<1>5. /\ l \in Seq(Does) /\ Len(l) = Len(p) + Len(d)
      /\ \A i \in 1..(Len(p) + Len(d)) : l[i] = IF i <= Len(p) THEN p[i] ELSE d[i - Len(p)]
  <2>1. p \in Seq(Does) /\ d \in Seq(Does)
    BY <1>1, <1>4
  <2> QED
    BY <2>1, ConcatProperties
<1>6. DOMAIN l = 1..Len(l)
  BY <1>5, LenProperties
<1> HIDE DEF l
<1>7. \A i \in 1..Len(p) : p[i] = "ajaxSend" \/ (p[i] \in {"success", "error", "complete"} /\ x.settled)
  <2> SUFFICES ASSUME NEW i \in 1..Len(p)
               PROVE  p[i] = "ajaxSend" \/ (p[i] \in {"success", "error", "complete"} /\ x.settled)
    OBVIOUS
  <2>1. CASE i <= Len(a)
    <3>1. i \in 1..Len(a) /\ p[i] = a[i]
      BY <1>2, <1>4, <2>1
    <3> QED
      BY <1>3, <3>1
  <2>2. CASE ~(i <= Len(a))
    <3>1. i - Len(a) = 1 /\ Len(b) = 1 /\ p[i] = b[i - Len(a)]
      BY <1>2, <1>4, <2>2
    <3> QED
      BY <1>2, <3>1
  <2> QED
    BY <2>1, <2>2
<1>8. PICK m \in Nat : m = Len(p)
  BY <1>2, <1>4
<1>9. DOMAIN l = 1..(m + 1) /\ l[m + 1] = "send" /\ \A i \in 1..m : l[i] = p[i]
  <2>1. DOMAIN l = 1..(m + 1)
    BY <1>1, <1>5, <1>6, <1>8
  <2>2. \A i \in 1..(m + 1) : l[i] = IF i <= m THEN p[i] ELSE d[i - m]
    BY <1>1, <1>5, <1>8
  <2> QED
    BY <1>1, <1>8, <2>1, <2>2
<1>10. /\ Calls(r, l) \in Seq(Calling) /\ DOMAIN Calls(r, l) = DOMAIN l
       /\ \A i \in DOMAIN l : Calls(r, l)[i].do = l[i] /\ Calls(r, l)[i].r = r
  BY <1>5, CallsAre DEF Does
<1>11. PICK t : t = Calls(r, l)
  OBVIOUS
<1>12. t \in Seq(Calling) /\ DOMAIN t = 1..(m + 1) /\ \A i \in DOMAIN t : t[i].do = l[i] /\ t[i].r = r
  BY <1>9, <1>10, <1>11
<1>13. \A i \in DOMAIN t : \/ t[i].do = "ajaxSend"
                           \/ t[i].do \in {"success", "error", "complete"} /\ x.settled
                           \/ t[i].do = "send" /\ i = m + 1
  <2> SUFFICES ASSUME NEW i \in 1..(m + 1)
               PROVE  \/ t[i].do = "ajaxSend"
                      \/ t[i].do \in {"success", "error", "complete"} /\ x.settled
                      \/ t[i].do = "send" /\ i = m + 1
    BY <1>12
  <2>1. CASE i = m + 1
    BY <1>9, <1>12, <2>1
  <2>2. CASE i # m + 1
    <3>1. i \in 1..m /\ t[i].do = p[i]
      BY <1>8, <1>9, <1>12, <2>2
    <3> QED
      BY <1>7, <1>8, <3>1
  <2> QED
    BY <2>1, <2>2
<1>14. /\ \A i \in DOMAIN t : /\ t[i].do \in {"success", "error", "complete", "ajaxSend", "send"}
                              /\ t[i].do \in Ends => x.settled
       /\ \A i, j \in DOMAIN t : t[i].do = "send" /\ t[j].do = "send" => i = j
  BY <1>13 DEF Ends, Answering
<1>15. SendingCalls(t, r, x.settled)
  BY <1>12, <1>14, Zenon DEF SendingCalls
<1> QED
  BY <1>11, <1>15 DEF l, p, a, b, d

(* A request that goes on to its transport, also when it was aborted before.  *)
LEMMA SendingFits ==
  ASSUME NEW r \in Requests, NEW y, NEW s, SendingCalls(s, r, y.settled), y.state \in {0, 2},
         y.outcome \notin Good, ~y.called, y.state = 2 => y.settled /\ ~y.flying,
         ~AbortInSend => y.state = 0 /\ y.going /\ y.transport
  PROVE  OneFits(r, y, s) /\ NoBells(s)
<1>1. ASSUME NEW i \in DOMAIN s
      PROVE  /\ s[i].r = r /\ Fits(s[i], y) /\ s[i].do \notin AtOnce /\ s[i].do # "convert"
             /\ s[i].do \in Stages => s[i].do = "send"
  <2>1. /\ s[i].r = r /\ s[i].do \in {"success", "error", "complete", "ajaxSend", "send"}
        /\ s[i].do \in Ends => y.settled
    BY Zenon DEF SendingCalls
  <2> QED
    BY <2>1 DEF Fits, Stages, Ends, Answering, AtOnce
<1>2. \A i, j \in DOMAIN s : s[i].do = "send" /\ s[j].do = "send" => i = j
  BY Zenon DEF SendingCalls
<1> QED
  BY <1>1, <1>2 DEF OneFits, NoBells, AtOnce

LEMMA DispatchAct ==
  ASSUME NamesInv, Dispatch
  PROVE  ChainInv' /\ Calmly /\ First("dispatch") /\ Moves /\ \A q \in Requests : OwnKept(q)
<1>1. /\ todo # <<>> /\ First("dispatch") /\ Now \in Requests /\ Rest = Tail(todo) /\ 1 \in DOMAIN todo
      /\ X = jqXHR[Now] /\ X \in XHR /\ Sound(X) /\ Fits(todo[1], X) /\ todo[1].do = "dispatch" /\ Now = todo[1].r
  BY Doings DEF Dispatch
<1>2. Calmly
  BY <1>1, Unheard DEF Dispatch, Answering, Calmly, NamesSame, NamesInv, ChainInv, Typed
<1>3. \A q \in Requests : Sound(jqXHR[q])
  BY DEF NamesInv, ChainInv
<1>4. PICK r \in Requests : r = Now
  BY <1>1
<1>5. PICK x \in XHR : /\ x = X /\ x = jqXHR[r] /\ Sound(x) /\ x.state \in {0, 2} /\ ~x.installed /\ ~x.transport
                       /\ x.outcome \notin Good /\ ~x.called /\ (x.state = 2 => x.settled /\ ~x.flying)
                       /\ (~x.guarded /\ ~AbortInSend => x.state = 0)
  BY <1>1, <1>4 DEF Fits, Stages
<1>6. StagesGone(r) /\ OwnHead(r) /\ ~First("convert")
  BY <1>1, <1>4, NoOtherStage DEF Stages, First
<1>7. CASE x.guarded /\ (x.refused \/ x.state = 2)
  <2>1. jqXHR' = [jqXHR EXCEPT ![r] = Aborted(x)] /\ todo' = AbortCalls(r, x) \o Rest
    BY <1>1, <1>4, <1>5, <1>7 DEF Dispatch
  <2>2. ButTimer(x, jqXHR[r]) /\ x.state # -1
    BY <1>5 DEF ButTimer
  <2>3. ChainInv' /\ Moves /\ \A q \in Requests : OwnKept(q)
    BY <1>2, <1>5, <1>6, <2>1, <2>2, AbortStep
  <2> QED
    BY <1>1, <1>2, <2>3
<1>8. CASE ~(x.guarded /\ (x.refused \/ x.state = 2))
  <2>1. PICK yes \in BOOLEAN : yes = TRUE
    OBVIOUS
  <2>2. PICK v : v = [x EXCEPT !.installed = yes]
    OBVIOUS
  <2>3. /\ v \in XHR /\ v.installed = yes /\ v.state = x.state /\ v.timer = x.timer /\ v.transport = x.transport
        /\ v.settled = x.settled /\ v.outcome = x.outcome /\ v.name = x.name /\ v.kind = x.kind
        /\ v.fireGlobals = x.fireGlobals /\ v.container = x.container /\ v.called = x.called
        /\ v.live = x.live /\ v.flying = x.flying /\ v.filtered = x.filtered /\ v.throws = x.throws
    BY <2>1, <2>2 DEF XHR
  <2>4. PICK w : w = [v EXCEPT !.going = yes]
    OBVIOUS
  <2>5. /\ w \in XHR /\ w.installed = yes /\ w.going = yes /\ w.state = x.state /\ w.timer = x.timer
        /\ w.transport = x.transport /\ w.settled = x.settled /\ w.outcome = x.outcome /\ w.name = x.name
        /\ w.kind = x.kind /\ w.fireGlobals = x.fireGlobals /\ w.container = x.container
        /\ w.called = x.called /\ w.live = x.live /\ w.flying = x.flying /\ w.filtered = x.filtered
        /\ w.throws = x.throws
    BY <2>1, <2>3, <2>4 DEF XHR
  <2>6. [X EXCEPT !.installed = TRUE, !.going = TRUE] = w
    BY <1>5, <2>1, <2>2, <2>4 DEF XHR
  <2>7. AbortInSend \/ (x.state = 0 /\ ~x.settled)
    BY <1>5, <1>8 DEF Sound
  <2>8. ~x.live /\ (x.state = 0 => ~x.settled /\ ~x.flying)
    BY <1>5 DEF Sound
  <2>9. CASE x.kind = "none"
    <3>1. /\ jqXHR' = [jqXHR EXCEPT ![r] = AfterDone(w, "fault")]
          /\ todo' = Calls(r, Installing(x)) \o DoneCalls(r, w, "fault") \o Rest
      BY <1>1, <1>4, <1>5, <1>8, <2>6, <2>9 DEF Dispatch
    <3>2. CASE x.state = 0
      <4>1. PICK y : y = AfterDone(w, "fault")
        OBVIOUS
      <4>2. "fault" \in Outcomes /\ "fault" \notin Good
        BY DEF Outcomes, Good
      <4>3. Finished(w, y, "fault")
        BY <1>5, <2>5, <2>8, <2>9, <3>2, <4>1, <4>2, FinishedIs DEF Sound
      <4>4. /\ y \in XHR /\ Sound(y) /\ y.state = 2 /\ y.settled /\ y.outcome = Outcome(w, "fault")
            /\ y.name = x.name /\ y.fireGlobals = x.fireGlobals /\ y.installed = w.installed
            /\ y.container = x.container /\ y.called = x.called /\ y.filtered = x.filtered /\ y.throws = x.throws
        BY <2>5, <4>3 DEF Finished, Less
      <4>5. /\ jqXHR' \in [Requests -> XHR] /\ jqXHR'[r] = y /\ Others(r)
            /\ \A q \in Requests \ {r} : jqXHR'[q] = jqXHR[q]
        BY <3>1, <4>1, <4>4, PutIs DEF NamesInv, ChainInv
      <4>6. Placed(r, y)
        BY <1>3, <4>5 DEF Placed, Others
      <4>7. EndedBy(r, w, y, "fault")
        BY <1>5, <1>6, <2>5, <2>8, <3>2, <4>4 DEF EndedBy, OneSame
      <4>8. todo' = HandlerCalls(r, w, "fault") \o Rest
        <5>1. Installing(x) = <<>> /\ <<>> \in Seq(Events \cup Stages \cup Ends)
          BY <2>8, <3>2, InstallIs
        <5>2. Calls(r, <<>>) \in Seq(Calling) /\ Len(Calls(r, <<>>)) = Len(<<>>)
          BY <5>1, CallsAre
        <5>3. Calls(r, Installing(x)) = <<>>
          BY <5>1, <5>2, EmptySeq
        <5>4. DoneCalls(r, w, "fault") = HandlerCalls(r, w, "fault")
          BY <2>5, <3>2 DEF DoneCalls
        <5>5. HandlerCalls(r, w, "fault") \in Seq(Calling)
          <6>1. y.outcome = "fault" /\ ~w.settled /\ y.name = w.name /\ y.installed = w.installed
                /\ y.fireGlobals = w.fireGlobals
            BY <2>5, <2>8, <3>2, <4>4 DEF Outcome
          <6>2. HandlerCalls(r, w, "fault") = Calls(r, EndList(y))
            BY <4>2, <6>1, TellsAll
          <6> QED
            BY <6>2, EndCallsAre DEF EndCalls
        <5>6. <<>> \o HandlerCalls(r, w, "fault") = HandlerCalls(r, w, "fault")
          BY <5>5, ConcatEmptySeq
        <5> QED
          BY <3>1, <5>3, <5>4, <5>6
      <4>9. ChainInv' /\ \E s : Finishes(r, s) \/ Again(r, s)
        BY <1>2, <2>5, <4>2, <4>4, <4>6, <4>7, <4>8, EndStep
      <4>10. \A q \in Requests : OwnKept(q)
        <5>1. y.outcome \notin Good
          BY <2>5, <2>8, <3>2, <4>2, <4>4 DEF Outcome
        <5> QED
          BY <1>5, <4>4, <4>5, <5>1 DEF OwnKept
      <4> QED
        BY <1>1, <1>2, <4>9, <4>10 DEF Moves
    <3>3. CASE x.state = 2
      <4>1. AfterDone(w, "fault") = w /\ DoneCalls(r, w, "fault") = <<>>
        BY <2>5, <3>3 DEF AfterDone, DoneCalls
      <4>2. PICK s : s = Calls(r, Installing(x))
        OBVIOUS
      <4>3. s \in Seq(Calling) /\ \A i \in DOMAIN s : s[i].r = r /\ s[i].do \in {"success", "error", "complete"}
        <5>1. PICK l : l = Installing(x)
          OBVIOUS
        <5>2. l \in Seq(Events \cup Stages \cup Ends) /\ DOMAIN l = 1..Len(l)
              /\ \A i \in DOMAIN l : l[i] \in {"success", "error", "complete"}
          BY <5>1, InstallIs, LenProperties
        <5> QED
          BY <4>2, <5>1, <5>2, CallsAre
      <4>4. todo' = s \o Rest
        <5>1. s \o <<>> = s
          BY <4>3, ConcatEmptySeq
        <5> QED
          BY <3>1, <4>1, <4>2, <5>1
      <4>5. Pushes(s)
        BY <4>3, <4>4 DEF Pushes
      <4>6. /\ jqXHR' \in [Requests -> XHR] /\ jqXHR'[r] = w /\ Others(r)
            /\ \A q \in Requests \ {r} : jqXHR'[q] = jqXHR[q]
        BY <2>5, <3>1, <4>1, PutIs DEF NamesInv, ChainInv
      <4>7. Placed(r, w)
        BY <1>3, <4>6 DEF Placed, Others
      <4>8. Sound(w)
        BY <1>5, <2>5, <3>3 DEF Sound
      <4>9. w.settled /\ AbortInSend
        BY <1>5, <2>5, <2>7, <3>3
      <4>10. OneFits(r, w, s)
        <5>1. \A i \in DOMAIN s : Fits(s[i], w) /\ s[i].do \notin AtOnce /\ s[i].do \notin Stages /\ s[i].do # "convert"
          BY <2>5, <3>3, <4>3, <4>9 DEF Fits, Stages, Ends, Answering, AtOnce
        <5> QED
          BY <4>3, <5>1 DEF OneFits
      <4>11. GoesBy(r, w, s)
        <5>1. OneSame(r, w) /\ MidFit(r, s)
          BY <1>5, <2>5, <4>6, <4>9 DEF OneSame, MidFit
        <5> QED
          BY <1>5, <1>6, <2>5, <3>3, <4>5, <4>8, <4>10, <5>1 DEF GoesBy
      <4>12. ChainInv'
        BY <1>2, <2>5, <4>7, <4>11, GoChain
      <4>13. Again(r, s)
        BY <1>5, <2>5, <4>3, <4>5, <4>6, <4>9 DEF Again
      <4>14. \A q \in Requests : OwnKept(q)
        BY <1>5, <2>5, <4>6 DEF OwnKept
      <4> QED
        BY <1>1, <1>2, <4>12, <4>13, <4>14 DEF Moves
    <3> QED
      BY <1>5, <3>2, <3>3
  <2>10. CASE x.kind # "none"
    <3>1. PICK y : y = [w EXCEPT !.transport = yes]
      OBVIOUS
    <3>2. /\ y \in XHR /\ y.transport = yes /\ y.going = yes /\ y.state = x.state /\ y.timer = x.timer
          /\ y.settled = x.settled /\ y.outcome = x.outcome /\ y.name = x.name /\ y.kind = x.kind
          /\ y.fireGlobals = x.fireGlobals /\ y.container = x.container /\ y.called = x.called
          /\ y.live = x.live /\ y.flying = x.flying /\ y.filtered = x.filtered /\ y.throws = x.throws
      BY <2>1, <2>5, <3>1 DEF XHR
    <3>3. Sound(y)
      BY <1>5, <2>8, <3>2 DEF Sound
    <3>4. PICK s : s = Calls(r, Installing(x) \o (IF x.fireGlobals THEN <<"ajaxSend">> ELSE <<>>) \o <<"send">>)
      OBVIOUS
    <3>5. SendingCalls(s, r, y.settled)
      BY <3>2, <3>4, SendCalls
    <3>6. jqXHR' = [jqXHR EXCEPT ![r] = y] /\ todo' = s \o Rest
      <4>1. /\ jqXHR' = [jqXHR EXCEPT ![r] = [w EXCEPT !.transport = TRUE]]
            /\ todo' = Calls(r, Installing(x) \o (IF w.fireGlobals THEN <<"ajaxSend">> ELSE <<>>) \o <<"send">>) \o Rest
        BY <1>1, <1>4, <1>5, <1>8, <2>5, <2>6, <2>10 DEF Dispatch
      <4> QED
        BY <2>1, <2>5, <3>1, <3>4, <4>1
    <3>7. Pushes(s)
      BY <3>5, <3>6 DEF Pushes, SendingCalls
    <3>8. /\ jqXHR' \in [Requests -> XHR] /\ jqXHR'[r] = y /\ Others(r)
          /\ \A q \in Requests \ {r} : jqXHR'[q] = jqXHR[q]
      BY <3>2, <3>6, PutIs DEF NamesInv, ChainInv
    <3>9. Placed(r, y)
      BY <1>3, <3>8 DEF Placed, Others
    <3>10. OneFits(r, y, s) /\ NoBells(s)
      BY <1>5, <2>1, <2>7, <3>2, <3>5, SendingFits
    <3>11. GoesBy(r, y, s)
      <4>1. OneSame(r, y) /\ MidFit(r, s)
        BY <1>5, <3>2, <3>8 DEF OneSame, MidFit
      <4> QED
        BY <1>5, <1>6, <3>2, <3>3, <3>7, <3>10, <4>1 DEF GoesBy
    <3>12. ChainInv'
      BY <1>2, <3>2, <3>9, <3>11, GoChain
    <3>13. Moves
      <4>1. CASE x.settled
        <5>1. \A i \in DOMAIN s : s[i].do # "cleanUp"
          BY <3>5 DEF SendingCalls
        <5>2. Again(r, s)
          BY <1>5, <2>7, <3>2, <3>7, <3>8, <4>1, <5>1 DEF Again
        <5> QED
          BY <5>2 DEF Moves
      <4>2. CASE ~x.settled
        <5>1. NoEnds(s)
          BY <3>2, <3>5, <4>2 DEF NoEnds, SendingCalls
        <5>2. MovesOn(r, s)
          BY <3>2, <3>9, <3>10, <3>11, <4>2, <5>1, GoMoves
        <5> QED
          BY <5>2 DEF Moves
      <4> QED
        BY <4>1, <4>2
    <3>14. \A q \in Requests : OwnKept(q)
      BY <1>5, <3>2, <3>8 DEF OwnKept
    <3> QED
      BY <1>1, <1>2, <3>12, <3>13, <3>14
  <2> QED
    BY <2>9, <2>10
<1> QED
  BY <1>7, <1>8

(* The transport sends, or raises, or has its answer at once.  *)
LEMMA SendAct ==
  ASSUME NamesInv, Send
  PROVE  ChainInv' /\ Calmly /\ First("send") /\ Moves /\ \A q \in Requests : OwnKept(q)
<1>1. /\ todo # <<>> /\ First("send") /\ Now \in Requests /\ Rest = Tail(todo) /\ 1 \in DOMAIN todo
      /\ X = jqXHR[Now] /\ X \in XHR /\ Sound(X) /\ Fits(todo[1], X) /\ todo[1].do = "send" /\ Now = todo[1].r
  BY Doings DEF Send
<1>2. Calmly
  BY <1>1, Unheard DEF Send, Answering, Calmly, NamesSame, NamesInv, ChainInv, Typed
<1>3. \A q \in Requests : Sound(jqXHR[q])
  BY DEF NamesInv, ChainInv
<1>4. PICK r \in Requests : r = Now
  BY <1>1
<1>5. PICK x \in XHR : /\ x = X /\ x = jqXHR[r] /\ Sound(x) /\ x.state \in {0, 2} /\ x.outcome \notin Good
                       /\ ~x.called /\ (x.state = 2 => x.settled /\ ~x.flying)
                       /\ (~AbortInSend => x.state = 0 /\ x.transport)
  BY <1>1, <1>4 DEF Fits, Stages
<1>6. StagesGone(r) /\ OwnHead(r)
  BY <1>1, <1>4, NoOtherStage DEF Stages
<1>7. ~x.live /\ ~x.flying /\ (AbortInSend \/ ~x.settled)
  BY <1>5 DEF Sound
<1>8. PICK t \in BOOLEAN : t = (x.timed /\ x.kind # "sync")
  BY DEF XHR
<1>9. PICK z : z = [x EXCEPT !.state = 1, !.timer = t]
  OBVIOUS
<1>10. z = Sending
  BY <1>5, <1>8, <1>9 DEF Sending
<1>11. /\ z \in XHR /\ z.state = 1 /\ z.transport = x.transport
       /\ z.settled = x.settled /\ z.outcome = x.outcome /\ z.name = x.name /\ z.kind = x.kind
       /\ z.fireGlobals = x.fireGlobals /\ z.container = x.container /\ z.installed = x.installed
       /\ z.called = x.called /\ z.live = x.live /\ z.flying = x.flying /\ z.filtered = x.filtered
       /\ z.throws = x.throws
  BY <1>8, <1>9 DEF XHR
<1>12. ASSUME NEW outcome \in Immediate,
              jqXHR' = [jqXHR EXCEPT ![Now] = AfterDone(Sending, outcome)],
              todo' = DoneCalls(Now, Sending, outcome) \o Tail(todo)
       PROVE  ChainInv' /\ Moves /\ \A q \in Requests : OwnKept(q)
  <2>1. jqXHR' = [jqXHR EXCEPT ![r] = AfterDone(z, outcome)] /\ todo' = DoneCalls(r, z, outcome) \o Rest
    BY <1>1, <1>4, <1>10, <1>12
  <2>2. outcome \in Outcomes
    BY <1>12 DEF Immediate, Outcomes, Dataless
  <2>3. PICK y : y = AfterDone(z, outcome)
    OBVIOUS
  <2>4. Finished(z, y, outcome)
    BY <1>5, <1>7, <1>11, <2>2, <2>3, FinishedIs DEF Sound
  <2>5. /\ y \in XHR /\ Sound(y) /\ y.state = 2 /\ y.settled /\ y.outcome = Outcome(z, outcome)
        /\ y.name = x.name /\ y.fireGlobals = x.fireGlobals /\ y.installed = x.installed
        /\ y.container = x.container /\ y.called = x.called /\ y.filtered = x.filtered /\ y.throws = x.throws
    BY <1>11, <2>4 DEF Finished, Less
  <2>6. /\ jqXHR' \in [Requests -> XHR] /\ jqXHR'[r] = y /\ Others(r)
        /\ \A q \in Requests \ {r} : jqXHR'[q] = jqXHR[q]
    BY <2>1, <2>3, <2>5, PutIs DEF NamesInv, ChainInv
  <2>7. Placed(r, y)
    BY <1>3, <2>6 DEF Placed, Others
  <2>8. EndedBy(r, z, y, outcome)
    BY <1>5, <1>6, <1>7, <1>11, <2>5 DEF EndedBy, OneSame
  <2>9. todo' = HandlerCalls(r, z, outcome) \o Rest
    BY <1>11, <2>1 DEF DoneCalls
  <2>10. ChainInv' /\ \E s : Finishes(r, s) \/ Again(r, s)
    BY <1>2, <1>11, <2>2, <2>5, <2>7, <2>8, <2>9, EndStep
  <2>11. \A q \in Requests : OwnKept(q)
    BY <1>5, <2>5, <2>6 DEF OwnKept
  <2> QED
    BY <2>10, <2>11 DEF Moves
<1>13. ASSUME Answered, jqXHR' = [jqXHR EXCEPT ![Now] = Done(Sending)],
              todo' = DataCalls(Now, X) \o Tail(todo)
       PROVE  ChainInv' /\ Moves /\ \A q \in Requests : OwnKept(q)
  <2>1. PICK y : y = Done(z)
    OBVIOUS
  <2>2. /\ y \in XHR /\ y.state = 2 /\ ~y.timer /\ ~y.transport
        /\ y.settled = z.settled /\ y.outcome = z.outcome /\ OfDone(y) = OfDone(z)
    BY <1>11, <2>1, BeginsDone
  <2>3. /\ y.name = x.name /\ y.kind = x.kind /\ y.fireGlobals = x.fireGlobals /\ y.container = x.container
        /\ y.called = x.called /\ y.filtered = x.filtered /\ y.throws = x.throws /\ y.live = x.live
        /\ y.flying = x.flying
    BY <1>11, <2>2 DEF OfDone
  <2>4. x.kind = "sync" /\ x.name = 0
    BY <1>5, <1>13 DEF Answered, Sound, Named
  <2>5. Sound(y)
    BY <1>5, <1>7, <1>11, <2>2, <2>3, <2>4 DEF Sound
  <2>6. /\ jqXHR' \in [Requests -> XHR] /\ jqXHR'[r] = y /\ Others(r)
        /\ \A q \in Requests \ {r} : jqXHR'[q] = jqXHR[q]
    BY <1>4, <1>10, <1>13, <2>1, <2>2, PutIs DEF NamesInv, ChainInv
  <2>7. Placed(r, y)
    BY <1>3, <2>6 DEF Placed, Others
  <2>8. DataBy(r, y)
    BY <1>5, <1>6, <1>7, <1>11, <2>2, <2>3, <2>4, <2>5 DEF DataBy, OneSame
  <2>9. todo' = DataCalls(r, x) \o Rest
    BY <1>1, <1>4, <1>5, <1>13
  <2>10. ChainInv' /\ Moves
    BY <1>2, <2>2, <2>3, <2>7, <2>8, <2>9, DataStep
  <2>11. \A q \in Requests : OwnKept(q)
    BY <1>5, <1>11, <2>2, <2>3, <2>6 DEF OwnKept
  <2> QED
    BY <2>10, <2>11
<1>14. ASSUME X.transport, X.kind # "sync",
              jqXHR' = [jqXHR EXCEPT ![Now] = [Sending EXCEPT !.live = TRUE, !.flying = TRUE]],
              todo' = Tail(todo)
       PROVE  ChainInv' /\ Moves /\ \A q \in Requests : OwnKept(q)
  <2>1. PICK yes \in BOOLEAN : yes = TRUE
    OBVIOUS
  <2>2. PICK w : w = [z EXCEPT !.live = yes]
    OBVIOUS
  <2>3. /\ w \in XHR /\ w.live = yes /\ w.state = 1 /\ w.transport = x.transport /\ w.settled = x.settled
        /\ w.outcome = x.outcome /\ w.name = x.name /\ w.kind = x.kind /\ w.fireGlobals = x.fireGlobals
        /\ w.container = x.container /\ w.called = x.called /\ w.filtered = x.filtered /\ w.throws = x.throws
    BY <1>11, <2>1, <2>2 DEF XHR
  <2>4. PICK y : y = [w EXCEPT !.flying = yes]
    OBVIOUS
  <2>5. /\ y \in XHR /\ y.live = yes /\ y.flying = yes /\ y.state = 1 /\ y.transport = x.transport
        /\ y.settled = x.settled /\ y.outcome = x.outcome /\ y.name = x.name /\ y.kind = x.kind
        /\ y.fireGlobals = x.fireGlobals /\ y.container = x.container /\ y.called = x.called
        /\ y.filtered = x.filtered /\ y.throws = x.throws
    BY <2>1, <2>3, <2>4 DEF XHR
  <2>6. [z EXCEPT !.live = TRUE, !.flying = TRUE] = y
    BY <1>11, <2>1, <2>2, <2>4 DEF XHR
  <2>7. Sound(y)
    BY <1>5, <1>7, <1>14, <2>1, <2>5 DEF Sound
  <2>8. jqXHR' = [jqXHR EXCEPT ![r] = y]
    BY <1>4, <1>10, <1>14, <2>6
  <2>9. /\ jqXHR' \in [Requests -> XHR] /\ jqXHR'[r] = y /\ Others(r)
        /\ \A q \in Requests \ {r} : jqXHR'[q] = jqXHR[q]
    BY <2>5, <2>8, PutIs DEF NamesInv, ChainInv
  <2>10. Placed(r, y)
    BY <1>3, <2>9 DEF Placed, Others
  <2>11. Pushes(<<>>)
    BY <1>1, <1>14, NothingPushed, NothingBefore DEF Pushes, NamesInv, ChainInv
  <2>12. OneFits(r, y, <<>>) /\ NoEnds(<<>>) /\ NoBells(<<>>)
    BY NothingPushed DEF OneFits
  <2>13. GoesBy(r, y, <<>>)
    <3>1. OneSame(r, y) /\ MidFit(r, <<>>)
      BY <1>5, <2>5, <2>9 DEF OneSame, MidFit
    <3> QED
      BY <1>5, <1>6, <2>5, <2>7, <2>11, <2>12, <3>1 DEF GoesBy
  <2>14. ChainInv'
    BY <1>2, <2>5, <2>10, <2>13, GoChain
  <2>15. MovesOn(r, <<>>)
    BY <1>7, <2>5, <2>10, <2>12, <2>13, GoMoves
  <2>16. \A q \in Requests : OwnKept(q)
    BY <1>5, <2>5, <2>9 DEF OwnKept
  <2> QED
    BY <2>14, <2>15, <2>16 DEF Moves
<1>15. \/ \E outcome \in Immediate : /\ jqXHR' = [jqXHR EXCEPT ![Now] = AfterDone(Sending, outcome)]
                                     /\ todo' = DoneCalls(Now, Sending, outcome) \o Tail(todo)
       \/ /\ Answered
          /\ jqXHR' = [jqXHR EXCEPT ![Now] = Done(Sending)]
          /\ todo' = DataCalls(Now, X) \o Tail(todo)
       \/ /\ X.transport /\ X.kind # "sync"
          /\ jqXHR' = [jqXHR EXCEPT ![Now] = [Sending EXCEPT !.live = TRUE, !.flying = TRUE]]
          /\ todo' = Tail(todo)
  BY DEF Send
<1> QED
  BY <1>1, <1>2, <1>12, <1>13, <1>14, <1>15

(* The script of a JSONP request arrives.  It can call only the callback of a
   request that is not settled, and that is its own one unless its own is.     *)
LEMMA CalledIs ==
  ASSUME NEW z \in XHR, NEW c \in BOOLEAN
  PROVE  LET x == [z EXCEPT !.called = c] IN
      /\ x \in XHR /\ x.called = c
      /\ x.state = z.state /\ x.timer = z.timer /\ x.transport = z.transport /\ x.settled = z.settled
      /\ x.outcome = z.outcome /\ x.name = z.name /\ x.kind = z.kind /\ x.installed = z.installed
      /\ x.fireGlobals = z.fireGlobals /\ x.container = z.container /\ x.going = z.going
      /\ x.filtered = z.filtered /\ x.throws = z.throws /\ x.guarded = z.guarded
      /\ x.live = z.live /\ x.flying = z.flying
<1>1. [z EXCEPT !.called = c] \in XHR
  BY DEF XHR
<1> QED
  BY <1>1 DEF XHR

(* The answer that a script leaves for the owner of the name.  *)
ButContainer(g, x) ==
    /\ g.state = x.state /\ g.kind = x.kind /\ g.fireGlobals = x.fireGlobals /\ g.installed = x.installed
    /\ g.transport = x.transport /\ g.timer = x.timer /\ g.live = x.live /\ g.flying = x.flying
    /\ g.settled = x.settled /\ g.outcome = x.outcome /\ g.name = x.name /\ g.called = x.called
    /\ g.going = x.going /\ g.filtered = x.filtered /\ g.throws = x.throws /\ g.guarded = x.guarded

LEMMA GivenIs ==
  ASSUME NamesInv, ~First("cleanUp"), NEW r \in Requests, NEW c \in BOOLEAN, c => jqXHR[r].name # 0
  PROVE  /\ Given(r, c) \in [Requests -> XHR]
         /\ \A q \in Requests : /\ ButContainer(Given(r, c)[q], jqXHR[q]) /\ Sound(Given(r, c)[q])
                                /\ jqXHR[q].settled \/ ~c => Given(r, c)[q] = jqXHR[q]
         /\ ~jqXHR[r].settled /\ c => Given(r, c)[r].container = r
<1>0. \A q \in Requests : jqXHR[q] \in XHR /\ Sound(jqXHR[q])
  BY DEF NamesInv, ChainInv, Typed
<1>1. PICK n : n = jqXHR[r].name
  OBVIOUS
<1>2. CASE ~c
  <2>1. Given(r, c) = jqXHR
    BY <1>2 DEF Given
  <2>2. \A q \in Requests : ButContainer(Given(r, c)[q], jqXHR[q])
    BY <2>1 DEF ButContainer
  <2> QED
    BY <1>0, <1>2, <2>1, <2>2 DEF NamesInv, ChainInv, Typed
<1>3. CASE c
  <2>1. n \in Names /\ n # 0
    <3>2. n \in Nat /\ n # 0
      BY <1>0, <1>1, <1>3 DEF XHR
    <3>3. n <= nonce /\ nonce <= Cardinality(Requests) /\ nonce \in Nat
      BY <1>1 DEF NamesInv, NamesKept, ChainInv, Typed
    <3>4. Cardinality(Requests) \in Nat
      BY AjaxAssumption, FS_CardinalityType
    <3> QED
      BY <3>2, <3>3, <3>4 DEF Names
  <2>2. PICK o \in Requests \cup {NoOne} : o = window[n]
    BY <2>1 DEF NamesInv, ChainInv, Typed
  <2>3. ~jqXHR[r].settled => o = r
    BY <1>1, <2>1, <2>2 DEF NamesInv, NamesKept, Holds
  <2>4. Given(r, c) = IF o # NoOne THEN [jqXHR EXCEPT ![o].container = r] ELSE jqXHR
    BY <1>1, <1>3, <2>2 DEF Given
  <2>5. r # NoOne
    BY AjaxAssumption
  <2>6. CASE o # NoOne
    <3>1. o \in Requests
      BY <2>2, <2>6
    <3>2. jqXHR[o].name # 0 /\ ~jqXHR[o].settled
      <4>1. Holds(o)
        BY <2>1, <2>2, <3>1 DEF NamesInv, NamesKept
      <4> QED
        BY <4>1 DEF Holds, IsFirst, First, Call
    <3>3. PICK x : x = jqXHR[o]
      OBVIOUS
    <3>4. PICK g : g = [x EXCEPT !.container = r]
      OBVIOUS
    <3>5. x \in XHR /\ Sound(x) /\ x.name # 0 /\ ~x.settled
      BY <1>0, <3>1, <3>2, <3>3
    <3>6. g \in XHR /\ g.container = r /\ ButContainer(g, x)
      BY <3>4, <3>5 DEF XHR, ButContainer
    <3>7. Sound(g)
      <4>1. x.state # -1
        BY <3>5 DEF Sound, Fresh
      <4> QED
        BY <3>5, <3>6, <4>1 DEF Sound, ButContainer
    <3>8. Given(r, c) = [jqXHR EXCEPT ![o] = g]
      BY <2>4, <2>6, <3>3, <3>4
    <3>9. /\ Given(r, c) \in [Requests -> XHR] /\ Given(r, c)[o] = g
          /\ \A q \in Requests \ {o} : Given(r, c)[q] = jqXHR[q]
      BY <3>1, <3>6, <3>8 DEF NamesInv, ChainInv, Typed
    <3>10. \A q \in Requests : ButContainer(Given(r, c)[q], jqXHR[q])
      BY <3>3, <3>6, <3>9 DEF ButContainer
    <3> QED
      BY <1>0, <1>3, <2>3, <3>2, <3>6, <3>7, <3>9, <3>10
  <2>7. CASE o = NoOne
    <3>1. Given(r, c) = jqXHR /\ jqXHR[r].settled
      BY <2>3, <2>4, <2>5, <2>7
    <3>2. \A q \in Requests : ButContainer(Given(r, c)[q], jqXHR[q])
      BY <3>1 DEF ButContainer
    <3> QED
      BY <1>0, <3>1, <3>2 DEF NamesInv, ChainInv, Typed
  <2> QED
    BY <2>6, <2>7
<1> QED
  BY <1>2, <1>3

(* With what was given, and y for the record of r.  *)
Answers(r, y) == y.called /\ y.outcome \in Good => y.outcome = "ok" /\ y.container = r

LEMMA GivenPut ==
  ASSUME NamesInv, ~First("cleanUp"), NEW r \in Requests, NEW c \in BOOLEAN, c => jqXHR[r].name # 0 /\ Alone,
         NEW y \in XHR, jqXHR' = [Given(r, c) EXCEPT ![r] = y], Answers(r, y)
  PROVE  Placed(r, y) /\ OwnAnswer'
<1>1. PICK g : g = Given(r, c)
  OBVIOUS
<1>2. /\ g \in [Requests -> XHR]
      /\ \A q \in Requests : /\ ButContainer(g[q], jqXHR[q]) /\ Sound(g[q])
                             /\ jqXHR[q].settled \/ ~c => g[q] = jqXHR[q]
  BY <1>1, GivenIs
<1>3. /\ jqXHR' \in [Requests -> XHR] /\ jqXHR'[r] = y /\ \A q \in Requests \ {r} : jqXHR'[q] = g[q]
  BY <1>1, <1>2
<1>4. \A q \in Requests \ {r} : Alike(q) /\ Sound(jqXHR'[q])
  <2> SUFFICES ASSUME NEW q \in Requests \ {r}
               PROVE  Alike(q) /\ Sound(jqXHR'[q])
    OBVIOUS
  <2>1. ButContainer(g[q], jqXHR[q]) /\ Sound(g[q]) /\ jqXHR'[q] = g[q] /\ (~c => g[q] = jqXHR[q])
    BY <1>2, <1>3
  <2>2. c => Alone
    OBVIOUS
  <2> QED
    BY <2>1, <2>2 DEF Alike, ButContainer
<1>5. OwnAnswer'
  <2> SUFFICES ASSUME NEW q \in Requests, jqXHR'[q].called, jqXHR'[q].outcome \in Good
               PROVE  jqXHR'[q].outcome = "ok" /\ jqXHR'[q].container = q
    BY DEF OwnAnswer, Good
  <2>1. CASE q = r
    BY <1>3, <2>1 DEF Answers
  <2>2. CASE q # r
    <3>1. jqXHR'[q] = g[q] /\ ButContainer(g[q], jqXHR[q]) /\ Sound(g[q])
      BY <1>2, <1>3, <2>2
    <3>2. jqXHR[q].settled
      BY <3>1 DEF Sound, ButContainer, Good
    <3>3. jqXHR'[q] = jqXHR[q]
      BY <1>2, <3>1, <3>2
    <3> QED
      BY <3>3 DEF NamesInv, OwnAnswer, Good
  <2> QED
    BY <2>1, <2>2
<1> QED
  BY <1>3, <1>4, <1>5 DEF Placed

LEMMA ScriptAct ==
  ASSUME NamesInv, NEW r \in Requests, Script(r)
  PROVE  ChainInv' /\ OwnAnswer' /\ Calmly /\ Moves
<1>0. \A q \in Requests : Sound(jqXHR[q]) /\ jqXHR[q] \in XHR
  BY DEF NamesInv, ChainInv, Typed
<1>1. /\ Calmly /\ Rest = <<>> /\ Alone /\ StagesGone(r) /\ OwnHead(r) /\ Quiet
      /\ ~First("convert") /\ ~First("cleanUp")
  BY QuietIs DEF Script, Calmly, NamesSame, NamesInv, ChainInv, Typed, Quiet, First
<1>2. PICK c \in BOOLEAN :
        LET given == Given(r, c)
            x == [given[r] EXCEPT !.flying = FALSE, !.live = FALSE, !.called = c]
        IN IF jqXHR[r].live
           THEN /\ jqXHR' = [given EXCEPT ![r] = Done(x)]
                /\ todo' = DataCalls(r, x)
           ELSE jqXHR' = [given EXCEPT ![r] = x] /\ UNCHANGED todo
  BY DEF Script
<1>3. PICK z : z = Given(r, c)[r]
  OBVIOUS
<1>4. jqXHR[r].kind = "jsonp" /\ jqXHR[r].flying /\ jqXHR[r].name # 0
  BY <1>0 DEF Script, Sound, Named
<1>5. /\ z \in XHR /\ ButContainer(z, jqXHR[r]) /\ Sound(z)
      /\ ~jqXHR[r].settled /\ c => z.container = r
  BY <1>1, <1>3, <1>4, GivenIs
<1>6. z.kind = "jsonp" /\ z.flying /\ z.name # 0 /\ z.state \in {1, 2} /\ z.state # -1
  BY <1>4, <1>5 DEF ButContainer, Sound
<1>7. PICK w : w = [z EXCEPT !.flying = FALSE, !.live = FALSE]
  OBVIOUS
<1>8. /\ w \in XHR /\ w.state = z.state /\ w.timer = z.timer /\ w.transport = z.transport
      /\ w.settled = z.settled /\ w.outcome = z.outcome /\ w.going = z.going /\ Less(w) = Less(z)
      /\ ~w.live /\ ~w.flying
  BY <1>5, <1>7, LandsIs
<1>9. PICK x : x = [w EXCEPT !.called = c]
  OBVIOUS
<1>10. /\ x \in XHR /\ x.called = c
       /\ x.state = w.state /\ x.timer = w.timer /\ x.transport = w.transport /\ x.settled = w.settled
       /\ x.outcome = w.outcome /\ x.name = w.name /\ x.kind = w.kind /\ x.installed = w.installed
       /\ x.fireGlobals = w.fireGlobals /\ x.container = w.container /\ x.going = w.going
       /\ x.filtered = w.filtered /\ x.throws = w.throws /\ x.guarded = w.guarded
       /\ x.live = w.live /\ x.flying = w.flying
  BY <1>8, <1>9, CalledIs
<1>11. /\ w.name = z.name /\ w.kind = z.kind /\ w.installed = z.installed /\ w.fireGlobals = z.fireGlobals
       /\ w.container = z.container /\ w.filtered = z.filtered /\ w.throws = z.throws /\ w.guarded = z.guarded
  BY <1>8 DEF Less
<1>12. [z EXCEPT !.flying = FALSE, !.live = FALSE, !.called = c] = x
  BY <1>7, <1>9
<1>13. z.outcome \notin Good
  BY <1>5, <1>6 DEF Sound
<1>14. CASE ~jqXHR[r].live
  <2>1. jqXHR' = [Given(r, c) EXCEPT ![r] = x] /\ todo' = Rest
    BY <1>1, <1>2, <1>3, <1>12, <1>14 DEF Quiet
  <2>2. x.state = 2 /\ x.outcome \notin Good
    BY <1>5, <1>6, <1>8, <1>10, <1>13, <1>14 DEF Sound, ButContainer
  <2>3. Sound(x)
    BY <1>5, <1>6, <1>8, <1>10, <1>11, <2>2 DEF Sound, Named
  <2>4. Placed(r, x) /\ OwnAnswer'
    BY <1>1, <1>4, <1>10, <2>1, <2>2, GivenPut DEF Answers
  <2>5. Alike(r)
    BY <1>1, <1>5, <1>8, <1>10, <1>11, <2>4 DEF Alike, ButContainer, Placed
  <2>6. /\ \A q \in Requests : Sound(jqXHR'[q]) /\ Alike(q)
        /\ jqXHR' \in [Requests -> XHR]
    BY <2>3, <2>4, <2>5 DEF Placed
  <2> QED
    BY <1>1, <2>1, <2>4, <2>6, KeepStep DEF Moves
<1>15. CASE jqXHR[r].live
  <2>1. x.state = 1 /\ jqXHR[r].state = 1
    BY <1>0, <1>5, <1>8, <1>10, <1>15 DEF Sound, ButContainer
  <2>2. jqXHR' = [Given(r, c) EXCEPT ![r] = Done(x)] /\ todo' = DataCalls(r, x)
    BY <1>2, <1>3, <1>12, <1>15
  <2>3. PICK y : y = Done(x)
    OBVIOUS
  <2>4. /\ y \in XHR /\ y.state = 2 /\ ~y.timer /\ ~y.transport
        /\ y.settled = x.settled /\ y.outcome = x.outcome /\ OfDone(y) = OfDone(x)
    BY <1>10, <2>3, BeginsDone
  <2>5. /\ y.name = x.name /\ y.kind = x.kind /\ y.fireGlobals = x.fireGlobals /\ y.container = x.container
        /\ y.called = x.called /\ y.filtered = x.filtered /\ y.throws = x.throws /\ ~y.live /\ ~y.flying
    BY <1>8, <1>10, <2>4 DEF OfDone
  <2>6. y.outcome \notin Good /\ y.kind = "jsonp" /\ y.name # 0
    BY <1>6, <1>8, <1>10, <1>11, <1>13, <2>4, <2>5
  <2>7. Sound(y)
    BY <1>5, <1>8, <1>10, <2>4, <2>5, <2>6 DEF Sound, Named
  <2>8. Placed(r, y) /\ OwnAnswer'
    BY <1>1, <1>4, <2>2, <2>3, <2>4, <2>6, GivenPut DEF Answers
  <2>9. AbortInSend \/ ~y.settled
    BY <1>5, <1>8, <1>10, <2>1, <2>4 DEF Sound
  <2>10. y.called => y.container = r \/ y.settled
    BY <1>5, <1>8, <1>10, <1>11, <2>4, <2>5 DEF ButContainer
  <2>11. y.settled = jqXHR[r].settled /\ y.fireGlobals = jqXHR[r].fireGlobals /\ OneSame(r, y)
    BY <1>5, <1>8, <1>10, <1>11, <2>4, <2>5 DEF ButContainer, OneSame
  <2>12. DataBy(r, y)
    BY <1>1, <2>1, <2>4, <2>5, <2>6, <2>7, <2>9, <2>10, <2>11 DEF DataBy
  <2>13. todo' = DataCalls(r, x) \o Rest
    <3>1. x \in XHR /\ "ok" \in Outcomes /\ (AbortInSend \/ ~x.settled)
      BY <1>10, <2>4, <2>9 DEF Outcomes
    <3> QED
      BY <1>1, <2>2, <3>1, AllAlone
  <2>14. ChainInv' /\ Moves
    BY <1>1, <2>4, <2>5, <2>8, <2>12, <2>13, DataStep
  <2> QED
    BY <1>1, <2>8, <2>14
<1> QED
  BY <1>14, <1>15

(* The converters: the request is settled, or their exception ends the chain.  *)
Breaking == /\ todo' = <<>> /\ threw' /\ NamesSame /\ Handled /\ todo # <<>> /\ active' = active
            /\ ~First("cleanUp") /\ ~First("ajaxStart") /\ ~First("ajaxStop")
            /\ \A q \in Requests : Alike(q)

LEMMA ConvertAct ==
  ASSUME NamesInv, Convert
  PROVE  ChainInv' /\ OwnAnswer' /\ First("convert") /\ ((Calmly /\ Moves) \/ Breaking)
<1>0. \A q \in Requests : Sound(jqXHR[q]) /\ jqXHR[q] \in XHR /\ Midway(q)
  BY DEF NamesInv, ChainInv, Typed
<1>1. PICK r \in Requests : r = Now
  BY Doings DEF Convert
<1>2. /\ todo # <<>> /\ todo[1].do = "convert" /\ todo[1].r = r /\ 1 \in DOMAIN todo
      /\ Rest = Tail(todo) /\ First("convert") /\ X = jqXHR[r] /\ Fits(todo[1], X)
  BY <1>1, Doings DEF Convert
<1>3. ~First("cleanUp") /\ ~First("ajaxStart") /\ ~First("ajaxStop")
  BY <1>2 DEF First
<1>4. StagesGone(r) /\ OwnHead(r)
  BY <1>2, NoOtherStage DEF Stages
<1>5. /\ UNCHANGED <<heard, busy>> /\ NamesSame /\ active' = active /\ antics' = antics /\ antics' \in Nat
      /\ active' \in Int
  BY DEF Convert, NamesSame, NamesInv, ChainInv, Typed
<1>6. Handled
  BY <1>2, <1>5, Unheard DEF Answering
<1>7. PICK c \in (IF X.kind = "local" THEN BOOLEAN ELSE {FALSE}), o \in {"ok", "bad"} :
        LET given == Given(Now, c)
            x == [given[Now] EXCEPT !.called = @ \/ (c /\ o = "ok")]
        IN /\ Converted(x, o)
           /\ \/ /\ ~(X.throws /\ X.name # 0 /\ o = "bad")
                 /\ jqXHR' = [given EXCEPT ![Now] = Settled(x, o)]
                 /\ todo' = HandlerCalls(Now, x, o) \o Tail(todo)
                 /\ UNCHANGED threw
              \/ /\ X.throws /\ o = "bad"
                 /\ jqXHR' = [given EXCEPT ![Now] = x]
                 /\ todo' = <<>> /\ threw' = TRUE
  BY DEF Convert
<1>8. c \in BOOLEAN /\ (c => X.kind = "local") /\ o \in Outcomes
  BY <1>7 DEF Outcomes
<1>9. c => jqXHR[r].name # 0 /\ Alone
  <2>1. c => jqXHR[r].name # 0
    BY <1>0, <1>2, <1>8 DEF Sound, Named
  <2>2. ASSUME jqXHR[r].name # 0, NEW j, Stays(j)
        PROVE  FALSE
    <3>1. j \in DOMAIN todo /\ 1 < j
      BY <2>2 DEF Stays
    <3>2. ~Late(todo[1])
      BY <1>2, <3>1 DEF NamesInv, ChainInv, LastOnly
    <3> QED
      BY <1>2, <2>2, <3>2 DEF Late
  <2> QED
    BY <2>1, <2>2 DEF Alone
<1>10. PICK z : z = Given(r, c)[r]
  OBVIOUS
<1>11. /\ z \in XHR /\ ButContainer(z, jqXHR[r]) /\ Sound(z)
       /\ (~jqXHR[r].settled /\ c => z.container = r) /\ (~c => z = jqXHR[r])
  BY <1>3, <1>8, <1>9, <1>10, GivenIs
<1>12. PICK b \in BOOLEAN : b = (z.called \/ (c /\ o = "ok"))
  BY <1>11 DEF XHR
<1>13. PICK x : x = [z EXCEPT !.called = b]
  OBVIOUS
<1>14. /\ x \in XHR /\ x.called = b
       /\ x.state = z.state /\ x.timer = z.timer /\ x.transport = z.transport /\ x.settled = z.settled
       /\ x.outcome = z.outcome /\ x.name = z.name /\ x.kind = z.kind /\ x.installed = z.installed
       /\ x.fireGlobals = z.fireGlobals /\ x.container = z.container /\ x.going = z.going
       /\ x.filtered = z.filtered /\ x.throws = z.throws /\ x.guarded = z.guarded
       /\ x.live = z.live /\ x.flying = z.flying
  BY <1>11, <1>13, CalledIs
<1>15. [Given(Now, c)[Now] EXCEPT !.called = @ \/ (c /\ o = "ok")] = x
  BY <1>1, <1>10, <1>11, <1>12, <1>13 DEF XHR
<1>16. /\ X.state = 2 /\ ~X.flying /\ (X.called => X.container = r \/ X.settled)
       /\ (AbortInSend \/ ~X.settled) /\ X.outcome \notin Good
  BY <1>2 DEF Fits, Stages
<1>17. /\ z.state = 2 /\ ~z.flying /\ z.settled = X.settled /\ z.outcome \notin Good /\ z.kind = X.kind
       /\ z.name = X.name /\ z.called = X.called /\ z.fireGlobals = X.fireGlobals /\ z.installed = X.installed
       /\ z.filtered = X.filtered /\ z.throws = X.throws /\ z.guarded = X.guarded
       /\ z.outcome = X.outcome /\ z.transport = X.transport /\ z.going = X.going /\ ~z.live /\ ~z.timer
  BY <1>2, <1>11, <1>16 DEF ButContainer, Sound
<1>18. Converted(x, o)
  BY <1>7, <1>15
<1>19. x.called /\ ~x.settled => o = "ok" /\ x.container = r
  <2> SUFFICES ASSUME x.called, ~x.settled
               PROVE  o = "ok" /\ x.container = r
    OBVIOUS
  <2>1. ~X.settled /\ ~z.settled
    BY <1>14, <1>17
  <2>2. CASE X.called
    <3>1. X.container = r /\ X.kind = "jsonp" /\ ~c /\ z = X
      BY <1>0, <1>2, <1>8, <1>11, <1>16, <2>1, <2>2 DEF Sound, Named
    <3>2. x.container = r /\ x.kind = "jsonp" /\ r # NoOne
      BY <1>14, <3>1, AjaxAssumption
    <3> QED
      BY <1>7, <1>18, <3>2 DEF Converted
  <2>3. CASE ~X.called
    BY <1>2, <1>11, <1>12, <1>14, <1>17, <2>1, <2>3
  <2> QED
    BY <2>2, <2>3
<1>20. x.called => x.kind \in Named
  BY <1>8, <1>11, <1>12, <1>14, <1>17 DEF Sound, Named
<1>21. CASE /\ jqXHR' = [Given(r, c) EXCEPT ![r] = Settled(x, o)]
            /\ todo' = HandlerCalls(r, x, o) \o Tail(todo)
            /\ threw' = threw
  <2>1. PICK y : y = Settled(x, o)
    OBVIOUS
  <2>2. /\ y \in XHR /\ y.state = x.state /\ y.timer = x.timer /\ y.transport = x.transport
        /\ y.settled /\ y.outcome = Outcome(x, o) /\ OfDone(y) = OfDone(x)
    BY <1>8, <1>14, <2>1, SettlesIt
  <2>3. /\ y.name = x.name /\ y.kind = x.kind /\ y.installed = x.installed /\ y.fireGlobals = x.fireGlobals
        /\ y.container = x.container /\ y.called = x.called /\ y.filtered = x.filtered /\ y.throws = x.throws
        /\ y.live = x.live /\ y.flying = x.flying
    BY <2>2 DEF OfDone
  <2>4. y.outcome # "none"
    BY <1>8, <1>11, <1>14, <2>2 DEF Outcome, Outcomes, Sound
  <2>5. Sound(y)
    BY <1>11, <1>14, <1>17, <1>20, <2>2, <2>3, <2>4 DEF Sound
  <2>6. Answers(r, y)
    BY <1>14, <1>17, <1>19, <2>2, <2>3 DEF Answers, Outcome
  <2>7. Placed(r, y) /\ OwnAnswer'
    BY <1>3, <1>8, <1>9, <1>21, <2>1, <2>2, <2>6, GivenPut
  <2>8. Calmly
    BY <1>5, <1>6, <1>21 DEF Calmly
  <2>9. EndedBy(r, x, y, o)
    BY <1>2, <1>4, <1>14, <1>16, <1>17, <2>2, <2>3, <2>5 DEF EndedBy, OneSame
  <2>10. todo' = HandlerCalls(r, x, o) \o Rest
    BY <1>2, <1>21
  <2>11. ChainInv' /\ \E s : Finishes(r, s) \/ Again(r, s)
    BY <1>8, <1>14, <2>2, <2>7, <2>8, <2>9, <2>10, EndStep
  <2> QED
    BY <1>2, <2>7, <2>8, <2>11 DEF Moves
<1>22. CASE X.throws /\ o = "bad" /\ jqXHR' = [Given(r, c) EXCEPT ![r] = x] /\ todo' = <<>> /\ threw' = TRUE
  <2>1. Answers(r, x) /\ Sound(x)
    <3>1. x.called /\ x.kind = "local" => x.settled
      BY <1>14, <1>17, <1>19, <1>22
    <3> QED
      BY <1>11, <1>14, <1>17, <1>20, <3>1 DEF Sound, Answers
  <2>2. Placed(r, x) /\ OwnAnswer'
    BY <1>3, <1>8, <1>9, <1>14, <1>22, <2>1, GivenPut
  <2>3. Alike(r)
    <3>1. ~c => z = X /\ x.called = X.called
      <4> SUFFICES ASSUME ~c
                   PROVE  z = X /\ x.called = X.called
        OBVIOUS
      <4>1. z = X
        BY <1>2, <1>11
      <4>2. b = z.called
        <5>1. z.called \in BOOLEAN
          BY <1>11 DEF XHR
        <5> QED
          BY <1>12, <5>1, Zenon
      <4> QED
        BY <1>14, <4>1, <4>2
    <3>2. jqXHR'[r] = x
      BY <2>2 DEF Placed
    <3> QED
      BY <1>2, <1>9, <1>11, <1>14, <1>17, <3>1, <3>2 DEF Alike, ButContainer
  <2>4. \A q \in Requests : Alike(q) /\ Sound(jqXHR'[q])
    BY <2>1, <2>2, <2>3 DEF Placed
  <2>5. Breaking
    BY <1>2, <1>3, <1>5, <1>6, <1>22, <2>4 DEF Breaking
  <2>6. todo' \in Seq(Calling) /\ DOMAIN todo' = {}
    BY <1>22, NothingPushed
  <2>7. heard' \in [Requests -> Seq(Answering)] /\ busy' \in BOOLEAN
    BY <1>6, HandledTyped DEF NamesInv, ChainInv
  <2>8. Typed'
    BY <1>5, <1>22, <2>2, <2>6, <2>7 DEF Typed, NamesInv, ChainInv, NamesSame, Placed
  <2>9. CallsFit' /\ OneStage' /\ FirstOnly' /\ LastOnly'
    BY <2>6 DEF CallsFit, OneStage, FirstOnly, LastOnly
  <2>10. \A q \in Requests : Midway(q)'
    <3> SUFFICES ASSUME NEW q \in Requests, jqXHR[q].state = 2, ~jqXHR[q].settled
                 PROVE  jqXHR'[q].filtered \/ jqXHR'[q].throws
      BY <1>22, <2>4 DEF Midway, Alike
    <3>0. jqXHR'[q].filtered = jqXHR[q].filtered /\ jqXHR'[q].throws = jqXHR[q].throws
      BY <2>4 DEF Alike
    <3>1. CASE q = r
      BY <1>2, <1>22, <3>0, <3>1
    <3>2. CASE q # r /\ Has("convert", q)
      <4>1. PICK i \in DOMAIN todo : todo[i] = Call("convert", q)
        BY <3>2 DEF Has
      <4>2. todo[i].do = "convert" /\ todo[i].r = q
        BY <4>1 DEF Call
      <4>3. i # 1
        BY <1>2, <3>2, <4>2
      <4>4. ~Soon(todo[i])
        BY <4>3 DEF NamesInv, ChainInv, FirstOnly
      <4> QED
        BY <3>0, <4>2, <4>4 DEF Soon
    <3> QED
      BY <1>0, <3>0, <3>1, <3>2 DEF Midway
  <2>11. ChainInv'
    BY <2>4, <2>8, <2>9, <2>10 DEF ChainInv, Sound
  <2> QED
    BY <1>2, <2>2, <2>5, <2>11
<1> QED
  BY <1>1, <1>7, <1>15, <1>21, <1>22

-----------------------------------------------------------------------------
(* The names of JSONP.  *)
LEMMA NoCleanUpNow ==
  ASSUME ~First("cleanUp")
  PROVE  \A q \in Requests : ~IsFirst("cleanUp", q)
BY DEF First, IsFirst, Call

LEMMA CleanUpNext ==
  ASSUME ChainInv, NEW s, Pushes(s), NEW q \in Requests, IsFirst("cleanUp", q)'
  PROVE  1 \in DOMAIN s /\ s[1].do = "cleanUp" /\ s[1].r = q
<1>1. Call("cleanUp", q).do = "cleanUp" /\ Call("cleanUp", q).r = q
  BY CallIs DEF Ends
<1>2. todo' # <<>> /\ todo'[1].do = "cleanUp" /\ todo'[1].r = q
  BY <1>1 DEF IsFirst, Call
<1>3. 1 \in DOMAIN todo'
  <2>1. todo' \in Seq(Calling)
    BY PushIs DEF ChainInv
  <2> QED
    BY <1>2, <2>1, EmptySeq, LenProperties
<1>4. \/ 1 \in DOMAIN s /\ todo'[1] = s[1]
      \/ \E j : Stays(j) /\ todo'[1] = todo[j]
  BY <1>3, PushIs DEF ChainInv
<1>5. ASSUME NEW j, Stays(j), todo'[1] = todo[j]
      PROVE  FALSE
  <2>1. j \in DOMAIN todo /\ todo[j].do \in AtOnce /\ j # 1
    BY <1>2, <1>5, LenProperties DEF Stays, AtOnce, ChainInv, Typed
  <2> QED
    BY <2>1 DEF ChainInv, FirstOnly, Soon
<1> QED
  BY <1>2, <1>4, <1>5

(* Every request has its name as before.  *)
LEMMA NamesGo ==
  ASSUME NamesKept, NamesSame, \A q \in Requests : jqXHR'[q].name = jqXHR[q].name /\ (Holds(q)' <=> Holds(q))
  PROVE  NamesKept'
<1>1. window' = window /\ oldCallbacks' = oldCallbacks /\ nonce' = nonce
  BY DEF NamesSame
<1>2. /\ nonce' <= Cardinality(Requests)
      /\ \A r \in Requests : jqXHR'[r].name <= nonce' /\ (Holds(r)' => window'[jqXHR'[r].name] = r)
  BY <1>1 DEF NamesKept
<1>3. \A n \in Names, r \in Requests : window'[n] = r => n <= nonce' /\ Holds(r)' /\ jqXHR'[r].name = n
  BY <1>1 DEF NamesKept
<1>4. /\ \A i \in DOMAIN oldCallbacks' : oldCallbacks'[i] \in 1..nonce' /\ window'[oldCallbacks'[i]] = NoOne
      /\ \A i, j \in DOMAIN oldCallbacks' : oldCallbacks'[i] = oldCallbacks'[j] => i = j
      /\ \A n \in 1..nonce' : window'[n] = NoOne => \E i \in DOMAIN oldCallbacks' : oldCallbacks'[i] = n
  BY <1>1, Zenon DEF NamesKept
<1> QED
  BY <1>2, <1>3, <1>4, Zenon DEF NamesKept

LEMMA HoldsAlike ==
  ASSUME NEW q \in Requests, jqXHR'[q].name = jqXHR[q].name, jqXHR'[q].settled <=> jqXHR[q].settled,
         ~IsFirst("cleanUp", q), ~IsFirst("cleanUp", q)'
  PROVE  Holds(q)' <=> Holds(q)
BY DEF Holds

LEMMA KeepsNames ==
  ASSUME NamesInv, NamesSame, NEW s, Keeps(s), ~First("cleanUp")
  PROVE  NamesKept'
<1>1. \A q \in Requests : ~IsFirst("cleanUp", q) /\ ~IsFirst("cleanUp", q)'
  <2>1. \A i \in DOMAIN s : s[i].do # "cleanUp"
    BY DEF Keeps, NoEnds, Ends
  <2> QED
    BY <2>1, NoCleanUpNow, CleanUpNext DEF Keeps, NamesInv
<1>2. \A q \in Requests : jqXHR'[q].name = jqXHR[q].name /\ (Holds(q)' <=> Holds(q))
  BY <1>1, HoldsAlike DEF Keeps, Alike
<1> QED
  BY <1>2, NamesGo DEF NamesInv

LEMMA GoesOnNames ==
  ASSUME NamesInv, NamesSame, NEW r \in Requests, NEW s, GoesOn(r, s) \/ Again(r, s), ~First("cleanUp")
  PROVE  NamesKept'
<1>1. \A q \in Requests : ~IsFirst("cleanUp", q) /\ ~IsFirst("cleanUp", q)'
  <2>1. \A i \in DOMAIN s : s[i].do # "cleanUp"
    BY DEF GoesOn, Again, NoEnds, Ends
  <2> QED
    BY <2>1, NoCleanUpNow, CleanUpNext DEF GoesOn, Again, NamesInv
<1>2. \A q \in Requests : jqXHR'[q].name = jqXHR[q].name /\ (jqXHR'[q].settled <=> jqXHR[q].settled)
  BY DEF GoesOn, Again, Others, Alike
<1>3. \A q \in Requests : Holds(q)' <=> Holds(q)
  BY <1>1, <1>2, HoldsAlike
<1> QED
  BY <1>2, <1>3, NamesGo DEF NamesInv

LEMMA FinishesNames ==
  ASSUME NamesInv, NamesSame, NEW r \in Requests, NEW s, Finishes(r, s), ~First("cleanUp")
  PROVE  NamesKept'
<1>1. \A q \in Requests : ~IsFirst("cleanUp", q)
  BY NoCleanUpNow
<1>2. /\ s \in Seq(Calling)
      /\ \A i \in DOMAIN s : s[i].r = r /\ s[i].do \in Ends /\ s[i] = Call(s[i].do, r)
      /\ \A i, j \in DOMAIN s : i < j => Rank(s[i].do) < Rank(s[j].do)
      /\ jqXHR'[r].name # 0 => \E i \in DOMAIN s : s[i].do = "cleanUp"
  <2>1. EndCalls(s, r, jqXHR'[r])
    BY FinishesCalls
  <2> QED
    BY <2>1, Zenon DEF EndCalls
<1>3. \A q \in Requests \ {r} : ~IsFirst("cleanUp", q)'
  BY <1>2, CleanUpNext DEF Finishes, NamesInv
<1>4. jqXHR'[r].name # 0 => IsFirst("cleanUp", r)'
  <2> SUFFICES ASSUME NEW i \in DOMAIN s, s[i].do = "cleanUp"
               PROVE  IsFirst("cleanUp", r)'
    BY <1>2
  <2>1. DOMAIN s = 1..Len(s) /\ Len(s) \in Nat
    BY <1>2, LenProperties
  <2>2. 1 \in DOMAIN s /\ i \in Int /\ i >= 1
    BY <2>1
  <2>3. Rank(s[i].do) = 0 /\ Rank(s[1].do) \in 0..6
    BY <1>2, <2>2, RankIs
  <2>4. i = 1
    BY <1>2, <2>2, <2>3
  <2>5. todo'[1] = s[1] /\ s[1] = Call("cleanUp", r) /\ 1 \in DOMAIN todo'
    BY <1>2, <2>2, <2>4, PushIs DEF Finishes, NamesInv, ChainInv
  <2>6. todo' # <<>>
    BY <2>5, NothingPushed
  <2> QED
    BY <2>5, <2>6 DEF IsFirst, Call
<1>5. \A q \in Requests \ {r} : jqXHR'[q].name = jqXHR[q].name /\ (Holds(q)' <=> Holds(q))
  BY <1>1, <1>3, HoldsAlike DEF Finishes, Others, Alike
<1>6. jqXHR'[r].name = jqXHR[r].name /\ (Holds(r)' <=> Holds(r))
  BY <1>4 DEF Finishes, Holds
<1> QED
  BY <1>5, <1>6, NamesGo DEF NamesInv

LEMMA ThrowNames ==
  ASSUME NamesInv, NamesSame, todo' = <<>>, ~First("cleanUp"), \A q \in Requests : Alike(q)
  PROVE  NamesKept'
<1>2. \A q \in Requests : ~IsFirst("cleanUp", q) /\ ~IsFirst("cleanUp", q)'
  BY NoCleanUpNow DEF IsFirst
<1>3. \A q \in Requests : jqXHR'[q].name = jqXHR[q].name /\ (Holds(q)' <=> Holds(q))
  BY <1>2, HoldsAlike DEF Alike
<1> QED
  BY <1>3, NamesGo DEF NamesInv

LEMMA SameTwice ==
  ASSUME NEW k \in Nat, NEW T, IsFiniteSet(T), Cardinality(T) < k, NEW f \in [1..k -> T]
  PROVE  \E m, n \in 1..k : m # n /\ f[m] = f[n]
<1>1. 1 \in Int /\ k \in Int /\ Cardinality(T) \in Nat
  BY FS_CardinalityType
<1>2. IsFiniteSet(1..k) /\ Cardinality(1..k) = (IF 1 > k THEN 0 ELSE k-1+1)
  BY <1>1, FS_Interval, Zenon
<1>3. Cardinality(1..k) = k
  BY <1>1, <1>2
<1> DEFINE S == 1..k
<1>4. IsFiniteSet(S) /\ Cardinality(T) < Cardinality(S) /\ f \in [S -> T]
  BY <1>2, <1>3
<1> HIDE DEF S
<1>5. \E m, n \in S : m # n /\ f[m] = f[n]
  BY <1>4, FS_PigeonHole
<1> QED
  BY <1>5 DEF S

(* There is a name left for a request that is not made yet: each name in use is
   that of another request.                                                   *)
LEMMA RoomForName ==
  ASSUME NamesInv, NEW r \in Requests, ~Holds(r), oldCallbacks = <<>>
  PROVE  nonce + 1 <= Cardinality(Requests)
<1>1. nonce \in Nat /\ nonce <= Cardinality(Requests) /\ Cardinality(Requests) \in Nat /\ IsFiniteSet(Requests)
  BY AjaxAssumption, FS_CardinalityType DEF NamesInv, NamesKept, ChainInv, Typed
<1>2. \A n \in 1..nonce : n \in Names /\ window[n] \in Requests \ {r}
  <2> SUFFICES ASSUME NEW n \in 1..nonce
               PROVE  n \in Names /\ window[n] \in Requests \ {r}
    OBVIOUS
  <2>1. n \in Names
    BY <1>1 DEF Names
  <2>2. window[n] # NoOne
    BY NothingPushed DEF NamesInv, NamesKept
  <2>3. window[n] \in Requests
    BY <2>1, <2>2 DEF NamesInv, ChainInv, Typed
  <2>4. window[n] # r
    BY <2>1 DEF NamesInv, NamesKept
  <2> QED
    BY <2>1, <2>3, <2>4
<1> SUFFICES ASSUME nonce = Cardinality(Requests)
             PROVE  FALSE
  BY <1>1
<1>3. IsFiniteSet(Requests \ {r}) /\ Cardinality(Requests \ {r}) = nonce - 1
  BY <1>1, FS_RemoveElement
<1>5. PICK f : f = [n \in 1..nonce |-> window[n]]
  OBVIOUS
<1>6. f \in [1..nonce -> Requests \ {r}]
  BY <1>2, <1>5
<1>7. Cardinality(Requests \ {r}) < nonce
  BY <1>1, <1>3
<1>8. \E m, n \in 1..nonce : m # n /\ f[m] = f[n]
  BY <1>1, <1>3, <1>6, <1>7, SameTwice
<1>9. PICK m \in 1..nonce : \E n \in 1..nonce : m # n /\ f[m] = f[n]
  BY <1>8
<1>11. PICK n \in 1..nonce : m # n /\ f[m] = f[n]
  BY <1>9
<1>10. window[m] = window[n] /\ window[m] \in Requests /\ m \in Names /\ n \in Names
  BY <1>2, <1>5, <1>11
<1>12. jqXHR[window[m]].name = m /\ jqXHR[window[m]].name = n
  BY <1>10 DEF NamesInv, NamesKept
<1> QED
  BY <1>11, <1>12

LEMMA BeginsNames ==
  ASSUME NamesInv, NEW r \in Requests, NEW s, Begins(r, s), ~First("cleanUp")
  PROVE  NamesKept'
<1>1. \A q \in Requests : ~IsFirst("cleanUp", q) /\ ~IsFirst("cleanUp", q)'
  <2>1. \A i \in DOMAIN s : s[i].do # "cleanUp"
    BY DEF Begins, NoEnds, Ends
  <2> QED
    BY <2>1, NoCleanUpNow, CleanUpNext DEF Begins, NamesInv
<1>2. jqXHR[r].name = 0 /\ ~Holds(r)
  <2>1. jqXHR[r] = Fresh
    BY DEF Begins, NamesInv, ChainInv, Sound
  <2> QED
    BY <2>1 DEF Fresh, Holds
<1>3. \A q \in Requests \ {r} : jqXHR'[q].name = jqXHR[q].name /\ (Holds(q)' <=> Holds(q))
  BY <1>1, HoldsAlike DEF Begins, Others, Alike
<1>4. CASE jqXHR'[r].name = 0 /\ NamesSame
  <2>1. ~Holds(r)'
    BY <1>4 DEF Holds
  <2> QED
    BY <1>2, <1>3, <1>4, <2>1, NamesGo DEF NamesInv
<1>5. CASE jqXHR'[r].name = JsonpName /\ InstallJsonp(r)
  <2>1. PICK n : n = JsonpName
    OBVIOUS
  <2>2. /\ n \in Nat /\ n > 0
        /\ oldCallbacks = <<>> => n = nonce + 1
        /\ oldCallbacks # <<>> => /\ Len(oldCallbacks) \in DOMAIN oldCallbacks
                                  /\ n = oldCallbacks[Len(oldCallbacks)]
    BY <2>1, JsonpNameIs
  <2>3. nonce \in Nat /\ nonce <= Cardinality(Requests) /\ Cardinality(Requests) \in Nat /\ r # NoOne
    BY AjaxAssumption, FS_CardinalityType DEF NamesInv, NamesKept, ChainInv, Typed
  <2>4. nonce' = (IF oldCallbacks = <<>> THEN nonce + 1 ELSE nonce) /\ nonce' <= Cardinality(Requests)
    BY <1>2, <1>5, <2>3, RoomForName DEF InstallJsonp
  <2>5. n \in 1..nonce'
    BY <2>2, <2>3, <2>4 DEF NamesInv, NamesKept
  <2>6. n \in Names /\ nonce' \in Nat /\ nonce <= nonce'
    BY <2>3, <2>4, <2>5 DEF Names
  <2>7. /\ window' = [window EXCEPT ![n] = r]
        /\ window \in [Names -> Requests \cup {NoOne}]
    BY <1>5, <2>1 DEF InstallJsonp, NamesInv, ChainInv, Typed
  <2>8. window'[n] = r /\ \A m : m \in Names /\ m # n => window'[m] = window[m]
    BY <2>6, <2>7
  <2>9. Holds(r)' /\ jqXHR'[r].name = n
    BY <1>5, <2>1, <2>2 DEF Begins, Holds
  <2>10. \A q \in Requests \ {r} : Holds(q) => window[jqXHR[q].name] = q /\ jqXHR[q].name \in Names
    <3> SUFFICES ASSUME NEW q \in Requests \ {r}, Holds(q)
                 PROVE  window[jqXHR[q].name] = q /\ jqXHR[q].name \in Names
      OBVIOUS
    <3>1. jqXHR[q].name \in Nat /\ jqXHR[q].name # 0
      BY DEF Holds, NamesInv, ChainInv, Typed, XHR
    <3> QED
      BY <2>3, <3>1 DEF NamesInv, NamesKept, Names
  <2>11. window[n] \notin Requests
    <3>1. CASE oldCallbacks = <<>>
      BY <2>2, <2>3, <2>6, <3>1 DEF NamesInv, NamesKept
    <3>2. CASE oldCallbacks # <<>>
      BY <2>2, <3>2, AjaxAssumption DEF NamesInv, NamesKept
    <3> QED
      BY <3>1, <3>2
  <2>12. \A q \in Requests : jqXHR'[q].name <= nonce' /\ (Holds(q)' => window'[jqXHR'[q].name] = q)
    <3> SUFFICES ASSUME NEW q \in Requests
                 PROVE  jqXHR'[q].name <= nonce' /\ (Holds(q)' => window'[jqXHR'[q].name] = q)
      OBVIOUS
    <3>1. CASE q = r
      BY <2>5, <2>6, <2>8, <2>9, <3>1
    <3>2. CASE q # r
      <4>1. jqXHR[q].name \in Nat /\ jqXHR[q].name <= nonce /\ jqXHR'[q].name = jqXHR[q].name
        BY <1>3, <3>2 DEF NamesInv, NamesKept, ChainInv, Typed, XHR
      <4>2. jqXHR'[q].name <= nonce'
        BY <2>3, <2>6, <4>1
      <4>3. Holds(q)' => window'[jqXHR'[q].name] = q
        BY <1>3, <2>8, <2>10, <2>11, <3>2, <4>1
      <4> QED
        BY <4>2, <4>3
    <3> QED
      BY <3>1, <3>2
  <2>13. \A m \in Names, q \in Requests : window'[m] = q => m <= nonce' /\ Holds(q)' /\ jqXHR'[q].name = m
    <3> SUFFICES ASSUME NEW m \in Names, NEW q \in Requests, window'[m] = q
                 PROVE  m <= nonce' /\ Holds(q)' /\ jqXHR'[q].name = m
      OBVIOUS
    <3>1. CASE m = n
      BY <2>5, <2>6, <2>8, <2>9, <3>1
    <3>2. CASE m # n
      <4>1. window[m] = q
        BY <2>8, <3>2
      <4>2. m <= nonce /\ Holds(q) /\ jqXHR[q].name = m /\ m \in Int
        BY <4>1 DEF NamesInv, NamesKept, Names
      <4>3. q # r
        BY <1>2, <4>2
      <4> QED
        BY <1>3, <2>3, <2>6, <4>2, <4>3
    <3> QED
      BY <3>1, <3>2
  <2>14. CASE oldCallbacks = <<>>
    <3>1. oldCallbacks' = <<>> /\ DOMAIN oldCallbacks' = {}
      BY <1>5, <2>14, NothingPushed DEF InstallJsonp
    <3>2. \A m \in 1..nonce' : window'[m] # NoOne
      <4> SUFFICES ASSUME NEW m \in 1..nonce', m # n
                   PROVE  window'[m] # NoOne
        BY <2>3, <2>8
      <4>1. m \in 1..nonce /\ m \in Names
        BY <2>2, <2>3, <2>4, <2>14 DEF Names
      <4> QED
        BY <2>8, <2>14, <4>1, NothingPushed DEF NamesInv, NamesKept
    <3>3. /\ \A i \in DOMAIN oldCallbacks' : oldCallbacks'[i] \in 1..nonce' /\ window'[oldCallbacks'[i]] = NoOne
          /\ \A i, j \in DOMAIN oldCallbacks' : oldCallbacks'[i] = oldCallbacks'[j] => i = j
          /\ \A m \in 1..nonce' : window'[m] = NoOne => \E i \in DOMAIN oldCallbacks' : oldCallbacks'[i] = m
      BY <3>1, <3>2
    <3> QED
      BY <2>4, <2>12, <2>13, <3>3, Zenon DEF NamesKept
  <2>15. CASE oldCallbacks # <<>>
    <3>0. PICK L : L = Len(oldCallbacks)
      OBVIOUS
    <3>1. /\ oldCallbacks \in Seq(Nat) /\ L \in Nat /\ DOMAIN oldCallbacks = 1..L
          /\ L \in DOMAIN oldCallbacks /\ n = oldCallbacks[L]
      BY <2>2, <2>15, <3>0, LenProperties DEF NamesInv, ChainInv, Typed
    <3>2. DOMAIN oldCallbacks' = 1..(L - 1) /\ \A i \in 1..(L - 1) : oldCallbacks'[i] = oldCallbacks[i]
      <4>1. oldCallbacks' = SubSeq(oldCallbacks, 1, L - 1)
        BY <1>5, <2>15, <3>0 DEF InstallJsonp, Front
      <4>2. \A i \in 1..(L - 1) : oldCallbacks[i] \in Nat
        BY <3>1, ElementOfSeq
      <4>3. /\ oldCallbacks' \in Seq(Nat) /\ Len(oldCallbacks') = (IF 1 <= L - 1 THEN L - 1 - 1 + 1 ELSE 0)
            /\ \A i \in 1..(L - 1 - 1 + 1) : oldCallbacks'[i] = oldCallbacks[1 + i - 1]
        BY <3>1, <4>1, <4>2, SubSeqProperties
      <4>4. Len(oldCallbacks') = L - 1 /\ DOMAIN oldCallbacks' = 1..(L - 1)
        <5>1. L >= 1 /\ L \in Int
          BY <3>1
        <5>2. Len(oldCallbacks') = L - 1
          BY <4>3, <5>1
        <5> QED
          BY <4>3, <5>2, LenProperties
      <4>5. \A i \in 1..(L - 1) : 1 + i - 1 = i /\ i \in 1..(L - 1 - 1 + 1)
        BY <3>1
      <4>6. \A i \in 1..(L - 1) : oldCallbacks'[i] = oldCallbacks[i]
        BY <4>3, <4>5
      <4> QED
        BY <4>4, <4>6
    <3>3. \A i \in 1..(L - 1) : i \in DOMAIN oldCallbacks /\ i # L
      BY <3>1
    <3>4. nonce' = nonce
      BY <2>4, <2>15
    <3>5. \A m \in 1..nonce : m \in Names
      BY <2>3 DEF Names
    <3>6. \A i \in DOMAIN oldCallbacks' : oldCallbacks'[i] \in 1..nonce' /\ window'[oldCallbacks'[i]] = NoOne
      <4> SUFFICES ASSUME NEW i \in 1..(L - 1)
                   PROVE  oldCallbacks[i] \in 1..nonce /\ window'[oldCallbacks[i]] = NoOne
        BY <3>2, <3>4
      <4>1. oldCallbacks[i] \in 1..nonce /\ window[oldCallbacks[i]] = NoOne /\ oldCallbacks[i] # n
        BY <3>1, <3>3 DEF NamesInv, NamesKept
      <4> QED
        BY <2>8, <3>5, <4>1
    <3>7. \A i, j \in DOMAIN oldCallbacks' : oldCallbacks'[i] = oldCallbacks'[j] => i = j
      BY <3>2, <3>3 DEF NamesInv, NamesKept
    <3>8. \A m \in 1..nonce' : window'[m] = NoOne => \E i \in DOMAIN oldCallbacks' : oldCallbacks'[i] = m
      <4> SUFFICES ASSUME NEW m \in 1..nonce, window'[m] = NoOne
                   PROVE  \E i \in 1..(L - 1) : oldCallbacks[i] = m
        BY <3>2, <3>4
      <4>1. m # n /\ window[m] = NoOne
        BY <2>3, <2>8, <3>5
      <4>2. PICK i \in DOMAIN oldCallbacks : oldCallbacks[i] = m
        BY <4>1 DEF NamesInv, NamesKept
      <4>3. i # L
        BY <3>1, <4>1, <4>2
      <4>4. i \in 1..(L - 1)
        BY <3>1, <4>3
      <4> QED
        BY <4>2, <4>4
    <3> QED
      BY <2>4, <2>12, <2>13, <3>6, <3>7, <3>8, Zenon DEF NamesKept
  <2> QED
    BY <2>14, <2>15
<1> QED
  BY <1>4, <1>5 DEF Begins

LEMMA CleanUpNames ==
  ASSUME NamesInv, CleanUp
  PROVE  NamesKept'
<1>1. /\ Keeps(<<>>) /\ First("cleanUp") /\ \A q \in Requests : jqXHR'[q] = jqXHR[q]
  BY CleanUpAct
<1>2. /\ todo # <<>> /\ todo[1].do = "cleanUp" /\ todo[1] \in Calling
      /\ Now = todo[1].r /\ Now \in Requests /\ X = jqXHR[Now] /\ Fits(todo[1], X)
  BY Doings DEF CleanUp
<1>3. PICK r \in Requests : r = Now
  BY <1>2
<1>4. PICK n : n = jqXHR[r].name
  OBVIOUS
<1>5. jqXHR[r].settled /\ n # 0 /\ n \in Nat /\ n <= nonce
  BY <1>2, <1>3, <1>4 DEF Fits, Ends, NamesInv, NamesKept, ChainInv, Typed, XHR
<1>6. \A q \in Requests : IsFirst("cleanUp", q) <=> q = r
  <2>1. todo[1] = Call("cleanUp", r)
    BY <1>2, <1>3 DEF Call, Calling
  <2>2. \A q \in Requests : Call("cleanUp", q) = Call("cleanUp", r) => q = r
    BY DEF Call
  <2> QED
    BY <1>2, <2>1, <2>2 DEF IsFirst
<1>7. \A q \in Requests : ~IsFirst("cleanUp", q)'
  BY <1>1, NothingPushed, CleanUpNext DEF Keeps, NamesInv
<1>8. Holds(r) /\ ~Holds(r)' /\ \A q \in Requests \ {r} : Holds(q)' <=> Holds(q)
  BY <1>1, <1>4, <1>5, <1>6, <1>7 DEF Holds
<1>9. nonce' = nonce /\ nonce \in Nat /\ nonce <= Cardinality(Requests) /\ Cardinality(Requests) \in Nat /\ r # NoOne
  BY AjaxAssumption, FS_CardinalityType DEF NamesInv, NamesKept, ChainInv, Typed, CleanUp
<1>10. n \in 1..nonce /\ n \in Names
  BY <1>5, <1>9 DEF Names
<1>11. window[n] = r
  BY <1>4, <1>8 DEF NamesInv, NamesKept
<1>12. window'[n] = NoOne /\ \A m \in Names : m # n => window'[m] = window[m]
  <2>1. window' = [window EXCEPT ![n] = NoOne]
    BY <1>2, <1>3, <1>4 DEF CleanUp
  <2> QED
    BY <1>10, <2>1 DEF NamesInv, ChainInv, Typed
<1>13. PICK L \in Nat : /\ L = Len(oldCallbacks) /\ DOMAIN oldCallbacks = 1..L
                        /\ DOMAIN oldCallbacks' = 1..(L + 1) /\ oldCallbacks'[L + 1] = n
                        /\ \A i \in 1..L : oldCallbacks'[i] = oldCallbacks[i]
  <2>1. oldCallbacks' = Append(oldCallbacks, n) /\ oldCallbacks \in Seq(Nat)
    BY <1>2, <1>3, <1>4 DEF CleanUp, NamesInv, ChainInv, Typed
  <2> QED
    BY <1>5, <2>1, AppendProperties, LenProperties
<1>14. \A q \in Requests : jqXHR'[q].name <= nonce' /\ (Holds(q)' => window'[jqXHR'[q].name] = q)
  <2> SUFFICES ASSUME NEW q \in Requests
               PROVE  jqXHR'[q].name <= nonce' /\ (Holds(q)' => window'[jqXHR'[q].name] = q)
    OBVIOUS
  <2>1. jqXHR'[q].name = jqXHR[q].name /\ jqXHR[q].name <= nonce /\ jqXHR[q].name \in Nat
    BY <1>1 DEF NamesInv, NamesKept, ChainInv, Typed, XHR
  <2>2. ASSUME Holds(q)'
        PROVE  window'[jqXHR'[q].name] = q
    <3>1. Holds(q) /\ q # r
      BY <1>8, <2>2
    <3>2. window[jqXHR[q].name] = q /\ jqXHR[q].name # 0
      BY <3>1 DEF NamesInv, NamesKept, Holds
    <3>3. jqXHR[q].name \in Names /\ jqXHR[q].name # n
      BY <1>9, <1>11, <2>1, <3>1, <3>2 DEF Names
    <3> QED
      BY <1>12, <2>1, <3>2, <3>3
  <2> QED
    BY <1>9, <2>1, <2>2
<1>15. \A m \in Names, q \in Requests : window'[m] = q => m <= nonce' /\ Holds(q)' /\ jqXHR'[q].name = m
  <2> SUFFICES ASSUME NEW m \in Names, NEW q \in Requests, window'[m] = q
               PROVE  m <= nonce' /\ Holds(q)' /\ jqXHR'[q].name = m
    OBVIOUS
  <2>1. m # n
    BY <1>12, AjaxAssumption
  <2>2. window[m] = q /\ m <= nonce /\ Holds(q) /\ jqXHR[q].name = m
    BY <1>12, <2>1 DEF NamesInv, NamesKept
  <2>3. q # r
    BY <1>4, <2>1, <2>2
  <2> QED
    BY <1>1, <1>8, <1>9, <2>2, <2>3
<1>16. \A i \in DOMAIN oldCallbacks' : oldCallbacks'[i] \in 1..nonce' /\ window'[oldCallbacks'[i]] = NoOne
  <2> SUFFICES ASSUME NEW i \in 1..(L + 1)
               PROVE  oldCallbacks'[i] \in 1..nonce /\ window'[oldCallbacks'[i]] = NoOne
    BY <1>9, <1>13
  <2>1. CASE i = L + 1
    BY <1>10, <1>12, <1>13, <2>1
  <2>2. CASE i # L + 1
    <3>1. i \in 1..L
      BY <2>2
    <3>2. oldCallbacks'[i] = oldCallbacks[i] /\ oldCallbacks[i] \in 1..nonce /\ window[oldCallbacks[i]] = NoOne
      BY <1>13, <3>1 DEF NamesInv, NamesKept
    <3>3. oldCallbacks[i] \in Names
      BY <1>9, <3>2 DEF Names
    <3> QED
      BY <1>12, <3>2, <3>3
  <2> QED
    BY <2>1, <2>2
<1>17. \A i, j \in DOMAIN oldCallbacks' : oldCallbacks'[i] = oldCallbacks'[j] => i = j
  <2>1. \A i \in 1..L : oldCallbacks'[i] = oldCallbacks[i] /\ oldCallbacks[i] # n
    BY <1>9, <1>11, <1>13 DEF NamesInv, NamesKept
  <2>2. \A i, j \in 1..L : oldCallbacks[i] = oldCallbacks[j] => i = j
    BY <1>13 DEF NamesInv, NamesKept
  <2>3. \A i \in 1..(L + 1) : i \in 1..L \/ i = L + 1
    OBVIOUS
  <2> QED
    BY <1>13, <2>1, <2>2, <2>3
<1>18. \A m \in 1..nonce' : window'[m] = NoOne => \E i \in DOMAIN oldCallbacks' : oldCallbacks'[i] = m
  <2> SUFFICES ASSUME NEW m \in 1..nonce, window'[m] = NoOne
               PROVE  \E i \in 1..(L + 1) : oldCallbacks'[i] = m
    BY <1>9, <1>13
  <2>1. CASE m = n
    BY <1>13, <2>1
  <2>2. CASE m # n
    <3>1. m \in Names
      BY <1>9 DEF Names
    <3>2. window[m] = NoOne
      BY <1>12, <2>2, <3>1
    <3>3. PICK i \in 1..L : oldCallbacks[i] = m
      BY <1>13, <3>2 DEF NamesInv, NamesKept
    <3> QED
      BY <1>13, <3>3
  <2> QED
    BY <2>1, <2>2
<1> QED
  BY <1>9, <1>14, <1>15, <1>16, <1>17, <1>18, Zenon DEF NamesKept

-----------------------------------------------------------------------------
(* What a step may be: nothing that matters happens to a request, or to the
   counter only; a clean-up; a request goes on, ends, or begins; an exception.  *)
Plain == ~First("cleanUp") /\ ~First("countDown")
Calm  == NamesSame /\ threw' = threw

Kept        == Keeps(<<>>) /\ Calm /\ Plain /\ active' = active
Counting    == \E s : Keeps(s) /\ Calm /\ ~First("cleanUp") /\ CountsDown(s)
Cleaning    == CleanUp /\ Keeps(<<>>) /\ threw' = threw /\ active' = active /\ First("cleanUp")
Starts      == \E r \in Requests : \E s : GoesOn(r, s) /\ Calm /\ First("start") /\ CountsUp(r, s)
Going       == \E r \in Requests : \E s : MovesOn(r, s) /\ Calm /\ Plain /\ active' = active
Finishing   == \E r \in Requests : \E s : Finishes(r, s) /\ Calm /\ Plain /\ active' = active
EndingAgain == \E r \in Requests : \E s : Again(r, s) /\ Calm /\ Plain /\ active' = active
Beginning   == \E r \in Requests : \E s : Begins(r, s) /\ AtHandler /\ threw' = threw /\ active' = active
Throwing    == /\ todo' = <<>> /\ threw' /\ NamesSame /\ todo # <<>> /\ active' = active
               /\ Plain /\ \A q \in Requests : Alike(q)
Kind == Kept \/ Counting \/ Cleaning \/ Starts \/ Going \/ Finishing \/ EndingAgain \/ Beginning \/ Throwing

LEMMA PlainIs ==
  ASSUME AtHandler \/ (\E do \in Stages : First(do))
  PROVE  Plain
BY DEF AtHandler, Plain, First, Events, Stages

LEMMA CalmKind ==
  ASSUME Calmly, Moves, Plain
  PROVE  Kind /\ Handled
BY DEF Calmly, Moves, Kind, Kept, Finishing, EndingAgain, Going, Calm

LEMMA OwnGoes ==
  ASSUME OwnAnswer, \A q \in Requests : OwnKept(q)
  PROVE  OwnAnswer'
BY DEF OwnAnswer, OwnKept, Good

LEMMA StepIs ==
  ASSUME NamesInv, Next
  PROVE  ChainInv' /\ OwnAnswer' /\ Handled /\ Kind
<1>0. OwnAnswer
  BY DEF NamesInv
<1>1. CASE Start
  <2>1. /\ ChainInv' /\ Handled /\ NamesSame /\ threw' = threw /\ First("start")
        /\ \/ Keeps(<<>>) /\ active' = active
           \/ \E r \in Requests : \E s : GoesOn(r, s) /\ CountsUp(r, s)
        /\ \A q \in Requests : OwnKept(q)
    BY <1>1, StartAct
  <2>2. Plain /\ Calm
    BY <2>1, PlainIs DEF Stages, Calm
  <2> QED
    BY <1>0, <2>1, <2>2, OwnGoes DEF Kind, Kept, Starts
<1>2. CASE Dispatch
  <2>1. ChainInv' /\ Calmly /\ First("dispatch") /\ Moves /\ \A q \in Requests : OwnKept(q)
    BY <1>2, DispatchAct
  <2>2. Plain
    BY <2>1, PlainIs DEF Stages
  <2> QED
    BY <1>0, <2>1, <2>2, OwnGoes, CalmKind
<1>3. CASE Send
  <2>1. ChainInv' /\ Calmly /\ First("send") /\ Moves /\ \A q \in Requests : OwnKept(q)
    BY <1>3, SendAct
  <2>2. Plain
    BY <2>1, PlainIs DEF Stages
  <2> QED
    BY <1>0, <2>1, <2>2, OwnGoes, CalmKind
<1>13. CASE Convert
  <2>1. ChainInv' /\ OwnAnswer' /\ First("convert") /\ ((Calmly /\ Moves) \/ Breaking)
    BY <1>13, ConvertAct
  <2>2. Plain
    BY <2>1, PlainIs DEF Stages
  <2> QED
    BY <2>1, <2>2, CalmKind DEF Breaking, Kind, Throwing
<1>4. CASE CleanUp
  <2>1. /\ ChainInv' /\ Keeps(<<>>) /\ Handled /\ First("cleanUp") /\ threw' = threw /\ active' = active
        /\ \A q \in Requests : jqXHR'[q] = jqXHR[q] /\ OwnKept(q)
    BY <1>4, CleanUpAct
  <2> QED
    BY <1>0, <1>4, <2>1, OwnGoes DEF Kind, Cleaning
<1>5. CASE CountDown
  <2>1. /\ ChainInv' /\ Handled /\ NamesSame /\ threw' = threw
        /\ \E s : Keeps(s) /\ CountsDown(s)
        /\ \A q \in Requests : OwnKept(q)
    BY <1>5, CountDownAct
  <2>2. \A s : CountsDown(s) => ~First("cleanUp")
    BY DEF CountsDown, First
  <2> QED
    BY <1>0, <2>1, <2>2, OwnGoes DEF Kind, Counting, Calm
<1>6. CASE Return
  <2>1. ChainInv' /\ Calmly /\ Moves /\ AtHandler /\ \A q \in Requests : OwnKept(q)
    BY <1>6, ReturnAct
  <2> QED
    BY <1>0, <2>1, OwnGoes, PlainIs, CalmKind
<1>7. CASE Throw
  <2>1. /\ ChainInv' /\ \A q \in Requests : jqXHR'[q] = jqXHR[q] /\ OwnKept(q) /\ Alike(q)
        /\ Handled /\ NamesSame /\ threw' /\ todo' = <<>> /\ AtHandler /\ todo # <<>>
    BY <1>7, ThrowAct
  <2> QED
    BY <1>0, <1>7, <2>1, OwnGoes, PlainIs DEF Kind, Throwing, Throw
<1>8. ASSUME NEW r \in Requests, Abort(r, Rest), Handled, AtHandler, antics' \in Nat, threw' = threw
      PROVE  ChainInv' /\ OwnAnswer' /\ Handled /\ Kind
  <2>1. ChainInv' /\ Calmly /\ Moves /\ \A q \in Requests : OwnKept(q)
    BY <1>8, AbortAct
  <2> QED
    BY <1>0, <1>8, <2>1, OwnGoes, PlainIs, CalmKind
<1>9. ASSUME NEW r \in Requests, Make(r, Rest), Handled, AtHandler, antics' \in Nat, threw' = threw
      PROVE  ChainInv' /\ OwnAnswer' /\ Handled /\ Kind
  <2>1. ChainInv' /\ (\E s : Begins(r, s)) /\ active' = active /\ \A q \in Requests : OwnKept(q)
    BY <1>9, MakeIs
  <2> QED
    BY <1>0, <1>9, <2>1, OwnGoes DEF Kind, Beginning
<1>10. CASE Meddle
  <2>1. Handled /\ AtHandler /\ todo # <<>>
    BY <1>10, HearingIs DEF Meddle
  <2>2. Rest = Tail(todo) /\ antics' \in Nat /\ threw' = threw
    BY <1>10, <2>1 DEF Rest, Meddle, NamesInv, ChainInv, Typed
  <2>3. PICK r \in Requests : Make(r, Rest) \/ Abort(r, Rest)
    BY <1>10, <2>2 DEF Meddle
  <2> QED
    BY <1>8, <1>9, <2>1, <2>2, <2>3
<1>11. CASE Click
  <2>1. Rest = <<>> /\ Handled /\ AtHandler
    BY <1>11, QuietIs DEF Click
  <2>2. antics' \in Nat /\ threw' = threw
    BY <1>11 DEF Click, NamesInv, ChainInv, Typed
  <2>3. PICK r \in Requests : Make(r, Rest) \/ Abort(r, Rest)
    BY <1>11, <2>1 DEF Click
  <2> QED
    BY <1>8, <1>9, <2>1, <2>2, <2>3
<1>12. ASSUME NEW r \in Requests, Timeout(r) \/ Answer(r) \/ Script(r) \/ NoScript(r)
       PROVE  ChainInv' /\ OwnAnswer' /\ Handled /\ Kind
  <2>1. Plain
    BY <1>12, PlainIs DEF Timeout, Answer, Script, NoScript, Quiet, AtHandler
  <2>2. ChainInv' /\ OwnAnswer' /\ Calmly /\ Moves
    BY <1>0, <1>12, TimeoutAct, AnswerAct, ScriptAct, NoScriptAct, OwnGoes
  <2> QED
    BY <2>1, <2>2, CalmKind
<1> QED
  BY <1>1, <1>2, <1>3, <1>4, <1>5, <1>6, <1>7, <1>10, <1>11, <1>12, <1>13 DEF Next, Running, Browser

LEMMA NamesStep ==
  ASSUME NamesInv, Next
  PROVE  NamesInv'
<1>1. ChainInv' /\ OwnAnswer' /\ Kind
  BY StepIs
<1>2. NamesKept'
  <2>1. CASE Kept \/ Counting
    BY <2>1, KeepsNames DEF Kept, Counting, Calm, Plain
  <2>2. CASE Cleaning
    BY <2>2, CleanUpNames DEF Cleaning
  <2>3. CASE Starts \/ Going \/ EndingAgain
    <3>1. PICK r \in Requests : \E s : (GoesOn(r, s) \/ Again(r, s)) /\ Calm /\ ~First("cleanUp")
      BY <2>3 DEF Starts, Going, EndingAgain, Plain, MovesOn, First
    <3> QED
      BY <3>1, GoesOnNames DEF Calm
  <2>4. CASE Finishing
    BY <2>4, FinishesNames DEF Finishing, Calm, Plain
  <2>5. CASE Beginning
    BY <2>5, PlainIs, BeginsNames DEF Beginning, Plain
  <2>6. CASE Throwing
    BY <2>6, ThrowNames DEF Throwing, Plain
  <2> QED
    BY <1>1, <2>1, <2>2, <2>3, <2>4, <2>5, <2>6 DEF Kind
<1> QED
  BY <1>1, <1>2 DEF NamesInv

LEMMA NamesStart ==
  ASSUME Init
  PROVE  NamesInv
<1>1. todo = <<>> /\ DOMAIN todo = {} /\ todo \in Seq(Calling)
  BY NothingPushed DEF Init
<1>2. jqXHR \in [Requests -> XHR] /\ \A r \in Requests : jqXHR[r] = Fresh /\ jqXHR[r].state = -1
  <2>1. Fresh \in XHR /\ Fresh.state = -1
    BY DEF Fresh, XHR, Kinds, Outcomes
  <2> QED
    BY <2>1 DEF Init
<1>3. Typed
  <2>1. <<>> \in Seq(Nat) /\ <<>> \in Seq(Answering)
    BY EmptySeq
  <2>2. PICK none : none = <<>>
    OBVIOUS
  <2>3. heard \in [Requests -> Seq(Answering)]
    <3>1. heard = [r \in Requests |-> none] /\ none \in Seq(Answering)
      BY <2>1, <2>2 DEF Init
    <3> QED
      BY <3>1
  <2>4. window \in [Names -> Requests \cup {NoOne}] /\ oldCallbacks \in Seq(Nat)
    BY <2>1 DEF Init
  <2>5. active \in Int /\ nonce \in Nat /\ antics \in Nat
    BY DEF Init
  <2>6. busy \in BOOLEAN /\ threw \in BOOLEAN
    <3>1. busy = FALSE /\ threw = FALSE
      BY Zenon DEF Init
    <3> QED
      BY <3>1
  <2> QED
    BY <1>1, <1>2, <2>3, <2>4, <2>5, <2>6 DEF Typed
<1>4. \A r \in Requests : Sound(jqXHR[r]) /\ Midway(r)
  <2>1. Sound(Fresh)
    BY DEF Sound, Fresh, Named, Good
  <2> QED
    BY <1>2, <2>1 DEF Midway
<1>5. CallsFit /\ OneStage /\ FirstOnly /\ LastOnly
  BY <1>1 DEF CallsFit, OneStage, FirstOnly, LastOnly
<1>6. \A r \in Requests : jqXHR[r].name = 0 /\ ~jqXHR[r].called
  BY <1>2 DEF Fresh
<1>7. NamesKept
  <2>1. DOMAIN oldCallbacks = {} /\ nonce = 0 /\ \A n \in Names : window[n] = NoOne
    BY NothingPushed DEF Init
  <2>2. 0 <= Cardinality(Requests)
    BY AjaxAssumption, FS_CardinalityType
  <2>3. \A r \in Requests : ~Holds(r) /\ r # NoOne
    BY <1>6, AjaxAssumption DEF Holds
  <2>4. 1..nonce = {}
    BY <2>1
  <2> QED
    BY <1>6, <2>1, <2>2, <2>3, <2>4 DEF NamesKept
<1>8. OwnAnswer
  BY <1>6 DEF OwnAnswer
<1> QED
  BY <1>3, <1>4, <1>5, <1>7, <1>8 DEF NamesInv, ChainInv

LEMMA NamesStutter ==
  ASSUME NamesInv, UNCHANGED vars
  PROVE  NamesInv'
BY DEF NamesInv, ChainInv, vars, Typed, CallsFit, OneStage, FirstOnly, LastOnly, Soon, Late, Midway, Has,
       NamesKept, OwnAnswer, Holds, IsFirst

LEMMA NamesAlways == Spec => []NamesInv
<1>1. Init => NamesInv
  BY NamesStart
<1>2. NamesInv /\ [Next]_vars => NamesInv'
  BY NamesStep, NamesStutter
<1> QED
  BY <1>1, <1>2, PTL DEF Spec

(* Every variable keeps its type: jqXHR's records and their states, the chain of
   calls to be made, the counter, the names of JSONP and what the handlers heard. *)
THEOREM TypeCorrect == Spec => []Typed
<1>1. NamesInv => Typed
  BY DEF NamesInv, ChainInv
<1> QED
  BY <1>1, NamesAlways, PTL

(* A JSONP request whose script called the callback and came to its end, and
   that was neither given up nor faulty, succeeds with what its own script gave,
   for any number of requests that share the names and whatever their handlers do
   meanwhile.  Nothing is said of one whose script did not call.              *)
THEOREM AnswersOwn == Spec => []OwnAnswer
<1>1. NamesInv => OwnAnswer
  BY DEF NamesInv
<1> QED
  BY <1>1, NamesAlways, PTL

LEMMA NamesBack ==
  ASSUME NamesInv
  PROVE  NamesReturned
<1> SUFFICES ASSUME Quiet, NEW n \in 1..nonce
             PROVE  LET users == {r \in Requests : jqXHR[r].name = n /\ ~jqXHR[r].settled}
                        free  == {i \in DOMAIN oldCallbacks : oldCallbacks[i] = n}
                    IN /\ Cardinality(users) + Cardinality(free) = 1
                       /\ window[n] = IF users = {} THEN NoOne ELSE CHOOSE r \in users : TRUE
                       /\ \A r \in users : r \in Pending \/ (threw /\ (jqXHR[r].filtered \/ jqXHR[r].throws))
  BY DEF NamesReturned
<1> DEFINE users == {r \in Requests : jqXHR[r].name = n /\ ~jqXHR[r].settled}
           free  == {i \in DOMAIN oldCallbacks : oldCallbacks[i] = n}
<1>1. n \in Names /\ n # 0
  <2>1. nonce \in Nat /\ nonce <= Cardinality(Requests) /\ Cardinality(Requests) \in Nat
    BY AjaxAssumption, FS_CardinalityType DEF NamesInv, NamesKept, ChainInv, Typed
  <2> QED
    BY <2>1 DEF Names
<1>2. \A r \in users : r \in Requests /\ window[n] = r
  BY <1>1 DEF Holds, NamesInv, NamesKept
<1>5. \A r \in users : r \in Pending \/ (threw /\ (jqXHR[r].filtered \/ jqXHR[r].throws))
  <2> SUFFICES ASSUME NEW r \in users, r \notin Pending
               PROVE  threw /\ (jqXHR[r].filtered \/ jqXHR[r].throws)
    OBVIOUS
  <2>1. jqXHR[r].name = n /\ ~jqXHR[r].settled /\ r \in Requests
    OBVIOUS
  <2>2. jqXHR[r] \in XHR /\ Sound(jqXHR[r]) /\ Midway(r) /\ jqXHR[r].state \notin {0, 1}
    BY <2>1 DEF NamesInv, ChainInv, Typed, Pending
  <2>3. jqXHR[r].state # -1
    BY <1>1, <2>1, <2>2 DEF Sound, Fresh
  <2>4. jqXHR[r].state = 2
    BY <2>2, <2>3 DEF XHR
  <2>5. ~Has("convert", r)
    BY NothingPushed DEF Has, Quiet
  <2> QED
    BY <2>1, <2>2, <2>4, <2>5 DEF Midway
<1>3. CASE window[n] = NoOne
  <2>1. users = {}
    BY <1>2, <1>3, AjaxAssumption
  <2>2. PICK i \in DOMAIN oldCallbacks : oldCallbacks[i] = n
    BY <1>3 DEF NamesInv, NamesKept
  <2>3. free = {i}
    BY <2>2 DEF NamesInv, NamesKept
  <2>4. Cardinality(users) = 0 /\ Cardinality(free) = 1
    BY <2>1, <2>3, FS_EmptySet, FS_Singleton
  <2> HIDE DEF users, free
  <2>5. Cardinality(users) + Cardinality(free) = 1
    BY <2>4
  <2> QED
    BY <1>3, <1>5, <2>1, <2>5 DEF users, free
<1>4. CASE window[n] # NoOne
  <2>1. PICK r \in Requests : window[n] = r
    BY <1>1, <1>4 DEF NamesInv, ChainInv, Typed
  <2>2. Holds(r) /\ jqXHR[r].name = n
    BY <1>1, <2>1 DEF NamesInv, NamesKept
  <2>3. r \in users
    BY <2>1, <2>2 DEF Holds, IsFirst, Quiet
  <2>4. users = {r}
    BY <1>2, <2>1, <2>3
  <2>5. free = {}
    BY <1>4 DEF NamesInv, NamesKept
  <2>6. Cardinality(users) = 1 /\ Cardinality(free) = 0
    BY <2>4, <2>5, FS_EmptySet, FS_Singleton
  <2>7. (CHOOSE q \in users : TRUE) = r
    BY <2>4
  <2> HIDE DEF users, free
  <2>8. Cardinality(users) + Cardinality(free) = 1
    BY <2>6
  <2>9. users # {}
    BY <2>3
  <2> QED
    BY <1>5, <2>1, <2>7, <2>8, <2>9 DEF users, free
<1> QED
  BY <1>3, <1>4

(* Between two events of the browser each name made so far is that of exactly one
   request that is not settled, whose callback is window[name], or free exactly
   once with nothing in window; for any number of requests, aborted or not, and
   whatever handlers throw.  Such a request is pending, or its own dataFilter or
   converter threw.                                                           *)
THEOREM NamesComeBack == Spec => []NamesReturned
<1>1. NamesInv => NamesReturned
  BY NamesBack
<1> QED
  BY <1>1, NamesAlways, PTL

-----------------------------------------------------------------------------
(* The order of the calls of an end.  *)
LEMMA OrderGoes ==
  ASSUME ChainInv, InOrder, NEW s, Pushes(s),
         \A i, j \in DOMAIN s : i < j /\ s[i].r = s[j].r /\ s[i].do \in Ends /\ s[j].do \in Ends
                                   => Rank(s[i].do) < Rank(s[j].do),
         \A i \in DOMAIN s : \A j : Stays(j) /\ s[i].r = todo[j].r /\ todo[j].do \in Ends => s[i].do \notin Ends
  PROVE  InOrder'
<1> SUFFICES ASSUME NEW i \in DOMAIN todo', NEW j \in DOMAIN todo', i < j,
                    todo'[i].r = todo'[j].r, todo'[i].do \in Ends, todo'[j].do \in Ends
             PROVE  Rank(todo'[i].do) < Rank(todo'[j].do)
  BY DEF InOrder, Rank, Ends
<1>1. \/ i \in DOMAIN s /\ j \in DOMAIN s /\ todo'[i] = s[i] /\ todo'[j] = s[j]
      \/ i \in DOMAIN s /\ todo'[i] = s[i] /\ \E k : Stays(k) /\ todo'[j] = todo[k]
      \/ \E h, k : Stays(h) /\ Stays(k) /\ h < k /\ todo'[i] = todo[h] /\ todo'[j] = todo[k]
  BY PushIs DEF ChainInv
<1>2. CASE i \in DOMAIN s /\ j \in DOMAIN s /\ todo'[i] = s[i] /\ todo'[j] = s[j]
  BY <1>2
<1>3. CASE i \in DOMAIN s /\ todo'[i] = s[i] /\ \E k : Stays(k) /\ todo'[j] = todo[k]
  BY <1>3
<1>4. CASE \E h, k : Stays(h) /\ Stays(k) /\ h < k /\ todo'[i] = todo[h] /\ todo'[j] = todo[k]
  BY <1>4 DEF InOrder, Stays
<1> QED
  BY <1>1, <1>2, <1>3, <1>4

LEMMA CountsFitGoes ==
  ASSUME ChainInv, CountsFit, NEW s, Pushes(s),
         \A i \in DOMAIN s : s[i].do = "countDown" => jqXHR'[s[i].r].fireGlobals,
         \A j : Stays(j) /\ todo[j].do = "countDown" => jqXHR'[todo[j].r].fireGlobals = jqXHR[todo[j].r].fireGlobals
  PROVE  CountsFit'
<1> SUFFICES ASSUME NEW i \in DOMAIN todo', todo'[i].do = "countDown"
             PROVE  jqXHR'[todo'[i].r].fireGlobals
  BY DEF CountsFit
<1>1. \/ i \in DOMAIN s /\ todo'[i] = s[i]
      \/ \E j : Stays(j) /\ todo'[i] = todo[j]
  BY PushIs DEF ChainInv
<1>2. ASSUME NEW j, Stays(j), todo'[i] = todo[j]
      PROVE  jqXHR'[todo'[i].r].fireGlobals
  <2>1. jqXHR[todo[j].r].fireGlobals
    BY <1>2 DEF Stays, CountsFit
  <2> QED
    BY <1>2, <2>1
<1> QED
  BY <1>1, <1>2

(* A call of an end that stands in todo is of a request that is done.  *)
LEMMA EndsDone ==
  ASSUME ChainInv, NEW j \in DOMAIN todo, todo[j].do \in Ends
  PROVE  todo[j].r \in Requests /\ jqXHR[todo[j].r].settled
BY TodoIs DEF ChainInv, CallsFit, Fits

LEMMA BeginsNew ==
  ASSUME NamesInv, NEW r \in Requests, NEW s, Begins(r, s)
  PROVE  ~jqXHR[r].settled
BY DEF Begins, NamesInv, ChainInv, Sound

LEMMA OrderStep ==
  ASSUME ~AbortInSend, NamesInv, EndInv, Kind
  PROVE  InOrder' /\ CountsFit'
<1>1. ASSUME NEW s, Pushes(s), NoEnds(s),
             \A q \in Requests : jqXHR[q].settled => jqXHR'[q].fireGlobals = jqXHR[q].fireGlobals
      PROVE  InOrder' /\ CountsFit'
  <2>1. InOrder'
    BY <1>1, OrderGoes DEF NoEnds, NamesInv, EndInv
  <2>2. \A j : Stays(j) /\ todo[j].do = "countDown" => jqXHR'[todo[j].r].fireGlobals = jqXHR[todo[j].r].fireGlobals
    BY <1>1, EndsDone DEF Stays, Ends, NamesInv
  <2>3. \A i \in DOMAIN s : s[i].do # "countDown"
    BY <1>1 DEF NoEnds, Ends
  <2> QED
    BY <1>1, <2>1, <2>2, <2>3, CountsFitGoes DEF NamesInv, EndInv
<1>2. ASSUME NEW r \in Requests, NEW s, Finishes(r, s)
      PROVE  InOrder' /\ CountsFit'
  <2>1. /\ \A i \in DOMAIN s : s[i].r = r /\ s[i].do \in Ends
        /\ \A i, j \in DOMAIN s : i < j => Rank(s[i].do) < Rank(s[j].do)
        /\ \A i \in DOMAIN s : s[i].do = "countDown" => jqXHR'[r].fireGlobals
        /\ \A j \in DOMAIN todo : todo[j].r = r => todo[j].do \notin Ends
    <3>1. ~Tells(jqXHR'[r], "countDown")
      BY DEF Tells, Result, GlobalResult
    <3>2. /\ \A i \in DOMAIN s : s[i].r = r /\ s[i].do \in Ends
          /\ \A i, j \in DOMAIN s : i < j => Rank(s[i].do) < Rank(s[j].do)
          /\ \A e : (\E i \in DOMAIN s : s[i].do = e) => \/ Tells(jqXHR'[r], e)
                                                         \/ jqXHR'[r].name # 0 /\ e = "cleanUp"
                                                         \/ jqXHR'[r].fireGlobals /\ e = "countDown"
      <4>1. EndCalls(s, r, jqXHR'[r])
        BY <1>2, FinishesCalls
      <4> QED
        BY <4>1, Zenon DEF EndCalls
    <3>3. \A j \in DOMAIN todo : todo[j].r = r => todo[j].do \notin Ends
      BY <1>2, EndsDone DEF Finishes, NamesInv
    <3> QED
      BY <3>1, <3>2, <3>3
  <2>2. InOrder'
    BY <1>2, <2>1, OrderGoes DEF Stays, Finishes, NamesInv, EndInv
  <2>3. \A j : Stays(j) /\ todo[j].do = "countDown" => jqXHR'[todo[j].r].fireGlobals = jqXHR[todo[j].r].fireGlobals
    BY <1>2, EndsDone DEF Stays, Ends, Finishes, Others, Alike, NamesInv
  <2> QED
    BY <1>2, <2>1, <2>2, <2>3, CountsFitGoes DEF Finishes, NamesInv, EndInv
<1>3. CASE Kept \/ Counting \/ Cleaning
  <2>1. PICK s : Keeps(s)
    BY <1>3 DEF Kept, Counting, Cleaning
  <2> QED
    BY <1>1, <2>1 DEF Keeps, Alike
<1>4. CASE Starts \/ Going
  <2>1. PICK r, s : r \in Requests /\ GoesOn(r, s)
    BY <1>4 DEF Starts, Going, MovesOn
  <2> QED
    BY <1>1, <2>1 DEF GoesOn, Others, Alike
<1>5. CASE Finishing
  BY <1>2, <1>5 DEF Finishing
<1>6. CASE Beginning
  <2>1. PICK r, s : r \in Requests /\ Begins(r, s)
    BY <1>6 DEF Beginning
  <2>2. ~jqXHR[r].settled
    BY <2>1, BeginsNew
  <2> QED
    BY <1>1, <2>1, <2>2 DEF Begins, Others, Alike
<1>7. CASE Throwing
  <2>1. DOMAIN todo' = {}
    BY <1>7, NothingPushed DEF Throwing
  <2> QED
    BY <2>1 DEF InOrder, CountsFit
<1>8. ~EndingAgain
  BY DEF EndingAgain, Again
<1> QED
  BY <1>3, <1>4, <1>5, <1>6, <1>7, <1>8 DEF Kind

-----------------------------------------------------------------------------
(* What the handlers hear of a request's end.  *)
LEMMA HeardNext ==
  ASSUME Typed, Handled, NEW q \in Requests
  PROVE  heard'[q] = IF Telling /\ todo[1].r = q THEN Append(heard[q], todo[1].do) ELSE heard[q]
<1>1. CASE Telling
  <2>1. heard' = [heard EXCEPT ![todo[1].r] = Append(heard[todo[1].r], todo[1].do)]
    BY <1>1 DEF Handled, Hears
  <2> QED
    BY <1>1, <2>1 DEF Typed
<1>2. CASE ~Telling
  BY <1>2 DEF Handled, Hears
<1> QED
  BY <1>1, <1>2

LEMMA TellingIs ==
  ASSUME ChainInv, Telling
  PROVE  /\ 1 \in DOMAIN todo /\ todo[1] \in Calling /\ todo[1].r \in Requests
         /\ todo[1].do \in Ends /\ jqXHR[todo[1].r].settled
         /\ todo[1] = Call(todo[1].do, todo[1].r)
<1>1. 1 \in DOMAIN todo /\ todo[1] \in Calling
  BY FirstIs DEF Telling, ChainInv
<1>2. todo[1].do \in Ends
  BY DEF Telling, Ends
<1>3. todo[1] = Call(todo[1].do, todo[1].r)
  BY <1>1 DEF Calling, Call
<1> QED
  BY <1>1, <1>2, <1>3, EndsDone

LEMMA EndingSame ==
  ASSUME NEW q \in Requests, Alike(q)
  PROVE  Ending(q)' = Ending(q)
<1>1. Ending(q) = HeardList(jqXHR[q])
  BY EndingIs
<1>2. Ending(q)' = HeardList(jqXHR'[q])
  BY DEF Ending, HeardList, Result, GlobalResult
<1>3. HeardList(jqXHR'[q]) = HeardList(jqXHR[q])
  BY DEF HeardList, Result, GlobalResult, Alike
<1> QED
  BY <1>1, <1>2, <1>3

(* The list of an end: each of its events once, in the order of the ranks.  *)
LEMMA EndingOrdered ==
  ASSUME NEW x
  PROVE  LET E == HeardList(x) IN
         /\ E \in Seq(Answering) /\ Len(E) \in Nat /\ DOMAIN E = 1..Len(E)
         /\ \A i \in 1..Len(E) : E[i] \in Ends /\ E[i] \in Answering /\ Rank(E[i]) \in 0..6
         /\ \A i, j \in 1..Len(E) : i < j => Rank(E[i]) < Rank(E[j])
<1>1. PICK E : E = HeardList(x)
  OBVIOUS
<1>2. /\ E \in Seq(Ends) /\ (\A i \in DOMAIN E : Rank(E[i]) \in 1..5)
      /\ \A i, j \in DOMAIN E : i < j => Rank(E[i]) < Rank(E[j])
  <2>1. Listed(HeardList(x), 1, 5)
    BY HeardListIs
  <2> QED
    BY <1>1, <2>1 DEF Listed
<1>3. Len(E) \in Nat /\ DOMAIN E = 1..Len(E) /\ \A i \in 1..Len(E) : E[i] \in Ends
  BY <1>2, LenProperties, ElementOfSeq
<1>4. \A i \in 1..Len(E) : E[i] \in Answering
  <2> SUFFICES ASSUME NEW i \in 1..Len(E)
               PROVE  E[i] \in Answering
    OBVIOUS
  <2>1. Rank(E[i]) # 0 /\ Rank(E[i]) # 6 /\ E[i] \in Ends
    BY <1>2, <1>3
  <2>2. E[i] # "cleanUp" /\ E[i] # "countDown"
    BY <2>1, RankIs
  <2> QED
    BY <2>1, <2>2 DEF Ends
<1>5. E \in Seq(Answering)
  <2>1. E \in [1..Len(E) -> Answering]
    <3>1. E = [i \in 1..Len(E) |-> E[i]]
      BY <1>2, <1>3
    <3> QED
      BY <1>4, <3>1
  <2> QED
    BY <1>3, <2>1, SeqDef
<1>6. \A i \in 1..Len(E) : Rank(E[i]) \in 0..6
  BY <1>2, <1>3
<1> QED
  BY <1>1, <1>2, <1>3, <1>4, <1>5, <1>6

(* A request that is not done was not told, and is not told of its end.  *)
LEMMA ToldWaits ==
  ASSUME NamesInv, EndInv, Handled, NEW q \in Requests, ~jqXHR[q].settled, ~jqXHR'[q].settled
  PROVE  Told(q)'
<1>1. heard[q] = <<>>
  BY DEF EndInv, Told
<1>2. ~(Telling /\ todo[1].r = q)
  BY TellingIs DEF NamesInv
<1>3. heard'[q] = <<>>
  BY <1>1, <1>2, HeardNext DEF NamesInv, ChainInv
<1> QED
  BY <1>3 DEF Told

(* Its end begins: nothing is heard yet, and all of it stands in todo.  *)
LEMMA ToldStarts ==
  ASSUME NamesInv, EndInv, Handled, NEW r \in Requests, NEW s, Finishes(r, s)
  PROVE  Told(r)'
<1>1. heard'[r] = <<>>
  <2>1. ~jqXHR[r].settled
    BY DEF Finishes
  <2>2. heard[r] = <<>>
    BY <2>1 DEF EndInv, Told
  <2>3. ~(Telling /\ todo[1].r = r)
    BY <2>1, TellingIs DEF NamesInv
  <2> QED
    BY <2>2, <2>3, HeardNext DEF NamesInv, ChainInv
<1>2. PICK E : E = HeardList(jqXHR'[r])
  OBVIOUS
<1>3. Ending(r)' = E
  BY <1>2 DEF Ending, HeardList, Result, GlobalResult
<1>4. Len(E) \in Nat /\ DOMAIN E = 1..Len(E) /\ \A i \in 1..Len(E) : E[i] \in Ends /\ E[i] \in Answering
  BY <1>2, EndingOrdered
<1>5. \A e : (\E j \in DOMAIN E : E[j] = e) <=> Tells(jqXHR'[r], e)
  BY <1>2, HeardListIs, Zenon DEF In
<1>6. /\ \A i \in DOMAIN s : s[i].r = r /\ s[i] = Call(s[i].do, r)
      /\ \A e : (\E i \in DOMAIN s : s[i].do = e) <=> \/ Tells(jqXHR'[r], e)
                                                      \/ jqXHR'[r].name # 0 /\ e = "cleanUp"
                                                      \/ jqXHR'[r].fireGlobals /\ e = "countDown"
  <2>1. EndCalls(s, r, jqXHR'[r])
    BY FinishesCalls
  <2> QED
    BY <2>1, Zenon DEF EndCalls
<1>7. /\ \A i \in DOMAIN s : i \in DOMAIN todo' /\ todo'[i] = s[i]
      /\ \A i \in DOMAIN todo' : \/ i \in DOMAIN s /\ todo'[i] = s[i]
                                 \/ \E j : Stays(j) /\ todo'[i] = todo[j]
  BY PushIs DEF Finishes, NamesInv, ChainInv
<1>8. ASSUME NEW i \in DOMAIN todo', todo'[i].r = r, todo'[i].do \in Answering
      PROVE  \E j \in 1..Len(E) : todo'[i].do = E[j]
  <2>1. ~\E j : Stays(j) /\ todo'[i] = todo[j]
    <3> SUFFICES ASSUME NEW j, Stays(j), todo'[i] = todo[j]
                 PROVE  FALSE
      OBVIOUS
    <3>1. j \in DOMAIN todo /\ todo[j].do \in Ends /\ todo[j].r = r
      BY <1>8 DEF Stays, Ends
    <3>2. jqXHR[r].settled
      BY <3>1, EndsDone DEF NamesInv
    <3> QED
      BY <3>2 DEF Finishes
  <2>2. i \in DOMAIN s /\ todo'[i] = s[i]
    BY <1>7, <2>1
  <2>3. s[i].do # "cleanUp" /\ s[i].do # "countDown"
    BY <1>8, <2>2 DEF Answering
  <2>4. Tells(jqXHR'[r], s[i].do)
    BY <1>6, <2>2, <2>3
  <2>5. \E j \in DOMAIN E : E[j] = s[i].do
    BY <1>5, <2>4, Zenon
  <2> QED
    BY <1>4, <2>2, <2>5
<1>9. ASSUME NEW j \in 1..Len(E)
      PROVE  Has(E[j], r)'
  <2>1. Tells(jqXHR'[r], E[j])
    BY <1>4, <1>5, Zenon
  <2>2. PICK i \in DOMAIN s : s[i].do = E[j]
    BY <1>6, <2>1, Zenon
  <2>3. i \in DOMAIN todo' /\ todo'[i] = Call(E[j], r)
    BY <1>6, <1>7, <2>2
  <2>4. \E h \in DOMAIN todo' : todo'[h] = Call(E[j], r)
    BY <2>3
  <2> QED
    BY <1>3, <2>4 DEF Has, Call
<1> QED
  <2>1. 0 \in 0..Len(E)
    BY <1>4
  <2>2. SubSeq(E, 1, 0) = <<>>
    BY <1>4, SubSeqEmpty
  <2>3. \A j \in (0 + 1)..Len(E) : j \in 1..Len(E)
    OBVIOUS
  <2>4. (0 + 1)..Len(E) = 1..Len(E)
    BY <1>4
  <2>5. jqXHR'[r].settled
    BY DEF Finishes
  <2>6. HeardTo(r, 0)'
    <3>1. heard'[r] = SubSeq(Ending(r)', 1, 0)
      BY <1>1, <1>3, <2>2
    <3>2. \A i \in DOMAIN todo' : todo'[i].r = r /\ todo'[i].do \in Answering =>
             \E j \in (0 + 1)..Len(Ending(r)') : todo'[i].do = Ending(r)'[j]
      BY <1>3, <1>8, <2>4
    <3>3. \A j \in (0 + 1)..Len(E) : Has(E[j], r)'
      BY <1>9, <2>4
    <3>4. \A j \in (0 + 1)..Len(E) : \E i \in DOMAIN todo' : todo'[i] = Call(E[j], r)
      BY <3>3 DEF Has, Call
    <3>5. \A j \in (0 + 1)..Len(Ending(r)') : \E i \in DOMAIN todo' : todo'[i] = Call(Ending(r)'[j], r)
      BY <1>3, <3>4
    <3> QED
      BY <3>1, <3>2, <3>5, Zenon DEF HeardTo, Has, Call
  <2> QED
    BY <1>3, <2>1, <2>5, <2>6 DEF Told

(* A handler that is told of an end hears what comes next of it.  *)
LEMMA HeadIsNext ==
  ASSUME NamesInv, EndInv, NEW q \in Requests, NEW E, E = Ending(q), NEW k \in 0..Len(E), HeardTo(q, k),
         Telling, todo[1].r = q
  PROVE  /\ k + 1 \in 1..Len(E) /\ todo[1].do = E[k + 1]
         /\ \A h : Stays(h) /\ todo[h].r = q /\ todo[h].do \in Answering =>
               \E j \in (k + 2)..Len(E) : todo[h].do = E[j]
         /\ \A j \in (k + 2)..Len(E) : \E h : Stays(h) /\ todo[h] = Call(E[j], q)
<1>1. /\ Len(E) \in Nat /\ DOMAIN E = 1..Len(E)
      /\ \A i \in 1..Len(E) : E[i] \in Ends /\ E[i] \in Answering /\ Rank(E[i]) \in 0..6
      /\ \A i, j \in 1..Len(E) : i < j => Rank(E[i]) < Rank(E[j])
  <2>1. E = HeardList(jqXHR[q])
    BY EndingIs
  <2> QED
    BY <2>1, EndingOrdered
<1>2. /\ 1 \in DOMAIN todo /\ todo[1].do \in Ends /\ todo[1].do \in Answering
      /\ todo[1] = Call(todo[1].do, q) /\ \A j \in DOMAIN todo : j = 1 \/ Stays(j)
  BY TellingIs, FirstIs DEF Telling, NamesInv, ChainInv
<1>3. /\ \A i \in DOMAIN todo : todo[i].r = q /\ todo[i].do \in Answering =>
            \E j \in (k + 1)..Len(E) : todo[i].do = E[j]
      /\ (\E i \in DOMAIN todo : todo[i].r = q /\ todo[i].do \in Answering) =>
            \A j \in (k + 1)..Len(E) : Has(E[j], q)
  BY Zenon DEF HeardTo
<1>4. PICK n \in (k + 1)..Len(E) : todo[1].do = E[n]
  BY <1>2, <1>3
<1>5. k \in Nat /\ n \in Nat /\ n >= k + 1 /\ n \in 1..Len(E) /\ k + 1 \in 1..Len(E) /\ k + 1 \in (k + 1)..Len(E)
  BY <1>1, <1>4
<1>6. \A h : Stays(h) /\ todo[h].r = q /\ todo[h].do \in Ends => Rank(todo[1].do) < Rank(todo[h].do)
  <2> SUFFICES ASSUME NEW h, Stays(h), todo[h].r = q, todo[h].do \in Ends
               PROVE  Rank(todo[1].do) < Rank(todo[h].do)
    OBVIOUS
  <2>1. h \in DOMAIN todo /\ 1 < h
    BY LenProperties DEF Stays, NamesInv, ChainInv, Typed
  <2> QED
    BY <1>2, <2>1 DEF EndInv, InOrder
<1>7. \A j \in (k + 1)..Len(E) : \E i \in DOMAIN todo : todo[i] = Call(E[j], q)
  BY <1>2, <1>3, Zenon DEF Has
<1>8. \A j \in 1..Len(E) : Call(E[j], q).do = E[j] /\ Call(E[j], q).r = q
  BY <1>1, CallIs
<1>9. n = k + 1
  <2> SUFFICES ASSUME n > k + 1
               PROVE  FALSE
    BY <1>5
  <2>1. PICK i \in DOMAIN todo : todo[i] = Call(E[k + 1], q)
    BY <1>5, <1>7
  <2>2. todo[i].do = E[k + 1] /\ todo[i].r = q /\ todo[i].do \in Ends
    BY <1>1, <1>5, <1>8, <2>1
  <2>3. Rank(E[k + 1]) < Rank(E[n]) /\ Rank(E[k + 1]) \in Int /\ Rank(E[n]) \in Int
    BY <1>1, <1>5
  <2>4. i # 1
    BY <1>4, <2>2, <2>3
  <2>5. Rank(E[n]) < Rank(E[k + 1])
    BY <1>2, <1>4, <1>6, <2>2, <2>4
  <2> QED
    BY <2>3, <2>5
<1>10. ASSUME NEW h, Stays(h), todo[h].r = q, todo[h].do \in Answering
       PROVE  \E j \in (k + 2)..Len(E) : todo[h].do = E[j]
  <2>1. PICK j \in (k + 1)..Len(E) : todo[h].do = E[j]
    BY <1>3, <1>10 DEF Stays
  <2>2. Rank(E[k + 1]) < Rank(E[j])
    BY <1>4, <1>6, <1>9, <1>10, <2>1 DEF Ends
  <2>3. j # k + 1
    BY <1>1, <1>5, <2>2
  <2>4. j \in (k + 2)..Len(E)
    BY <1>5, <2>3
  <2> QED
    BY <2>1, <2>4
<1>11. ASSUME NEW j \in (k + 2)..Len(E)
       PROVE  \E h : Stays(h) /\ todo[h] = Call(E[j], q)
  <2>1. j \in (k + 1)..Len(E) /\ j \in 1..Len(E) /\ k + 1 < j
    BY <1>5
  <2>2. PICK i \in DOMAIN todo : todo[i] = Call(E[j], q)
    BY <1>7, <2>1
  <2>3. Rank(E[k + 1]) < Rank(E[j]) /\ todo[i].do = E[j]
    BY <1>1, <1>5, <1>8, <2>1, <2>2
  <2>4. i # 1
    BY <1>1, <1>4, <1>5, <1>9, <2>3
  <2> QED
    BY <1>2, <2>2, <2>4
<1> QED
  BY <1>4, <1>5, <1>9, <1>10, <1>11

(* Nothing that matters happens to the request: its handlers hear of its end
   what comes next, if it is their turn.                                      *)
LEMMA ToldGoes ==
  ASSUME NamesInv, EndInv, Handled, NEW q \in Requests, Alike(q), NEW s, Pushes(s), threw' = threw,
         \A i \in DOMAIN s : s[i].r = q => s[i].do \notin Ends
  PROVE  Told(q)'
<1>1. CASE ~jqXHR[q].settled
  BY <1>1, ToldWaits DEF Alike
<1>2. CASE jqXHR[q].settled
  <2>1. PICK E : E = Ending(q)
    OBVIOUS
  <2>2. Ending(q)' = E /\ jqXHR'[q].settled
    BY <1>2, <2>1, EndingSame DEF Alike
  <2>3. /\ E \in Seq(Answering) /\ Len(E) \in Nat /\ DOMAIN E = 1..Len(E)
        /\ \A i \in 1..Len(E) : E[i] \in Ends /\ E[i] \in Answering
    <3>1. E = HeardList(jqXHR[q])
      BY <2>1, EndingIs
    <3> QED
      BY <3>1, EndingOrdered
  <2>4. PICK k \in 0..Len(E) : HeardTo(q, k)
    BY <1>2, <2>1 DEF EndInv, Told
  <2>5. /\ heard[q] = SubSeq(E, 1, k)
        /\ \A i \in DOMAIN todo : todo[i].r = q /\ todo[i].do \in Answering =>
              \E j \in (k + 1)..Len(E) : todo[i].do = E[j]
        /\ ~threw \/ (\E i \in DOMAIN todo : todo[i].r = q /\ todo[i].do \in Answering) =>
              \A j \in (k + 1)..Len(E) : Has(E[j], q)
    BY <2>1, <2>4, Zenon DEF HeardTo
  <2>6. /\ \A i \in DOMAIN todo' : \/ i \in DOMAIN s /\ todo'[i] = s[i]
                                   \/ \E j : Stays(j) /\ todo'[i] = todo[j]
        /\ \A j : Stays(j) => \E i \in DOMAIN todo' : todo'[i] = todo[j]
    BY PushIs DEF NamesInv, ChainInv
  <2>7. ASSUME NEW i \in DOMAIN todo', todo'[i].r = q, todo'[i].do \in Answering
        PROVE  \E h : Stays(h) /\ todo'[i] = todo[h]
    BY <2>6, <2>7 DEF Ends
  <2>8. ASSUME NEW m \in 0..Len(E), heard'[q] = SubSeq(E, 1, m),
               \A h : Stays(h) /\ todo[h].r = q /\ todo[h].do \in Answering =>
                  \E j \in (m + 1)..Len(E) : todo[h].do = E[j],
               ~threw \/ (\E h : Stays(h) /\ todo[h].r = q /\ todo[h].do \in Answering) =>
                  \A j \in (m + 1)..Len(E) : \E h : Stays(h) /\ todo[h] = Call(E[j], q)
        PROVE  Told(q)'
    <3>1. heard'[q] = SubSeq(Ending(q)', 1, m)
      BY <2>2, <2>8
    <3>2. \A i \in DOMAIN todo' : todo'[i].r = q /\ todo'[i].do \in Answering =>
             \E j \in (m + 1)..Len(Ending(q)') : todo'[i].do = Ending(q)'[j]
      <4> SUFFICES ASSUME NEW i \in DOMAIN todo', todo'[i].r = q, todo'[i].do \in Answering
                   PROVE  \E j \in (m + 1)..Len(E) : todo'[i].do = E[j]
        BY <2>2
      <4>1. PICK h : Stays(h) /\ todo'[i] = todo[h]
        BY <2>7
      <4> QED
        BY <2>8, <4>1
    <3>3. ~threw' \/ (\E i \in DOMAIN todo' : todo'[i].r = q /\ todo'[i].do \in Answering) =>
             \A j \in (m + 1)..Len(Ending(q)') : \E i \in DOMAIN todo' : todo'[i] = Call(Ending(q)'[j], q)
      <4> SUFFICES ASSUME ~threw' \/ (\E i \in DOMAIN todo' : todo'[i].r = q /\ todo'[i].do \in Answering),
                          NEW j \in (m + 1)..Len(E)
                   PROVE  \E i \in DOMAIN todo' : todo'[i] = Call(E[j], q)
        BY <2>2
      <4>1. ~threw \/ (\E h : Stays(h) /\ todo[h].r = q /\ todo[h].do \in Answering)
        BY <2>7
      <4>2. PICK h : Stays(h) /\ todo[h] = Call(E[j], q)
        BY <2>8, <4>1
      <4> QED
        BY <2>6, <4>2
    <3>4. HeardTo(q, m)'
      BY <3>1, <3>2, <3>3, Zenon DEF HeardTo, Has, Call
    <3> QED
      BY <2>2, <2>8, <3>4 DEF Told
  <2>9. CASE Telling /\ todo[1].r = q
    <3>1. /\ k + 1 \in 1..Len(E) /\ todo[1].do = E[k + 1]
          /\ \A h : Stays(h) /\ todo[h].r = q /\ todo[h].do \in Answering =>
                \E j \in (k + 2)..Len(E) : todo[h].do = E[j]
          /\ \A j \in (k + 2)..Len(E) : \E h : Stays(h) /\ todo[h] = Call(E[j], q)
      BY <2>1, <2>4, <2>9, HeadIsNext
    <3>2. heard'[q] = Append(SubSeq(E, 1, k), E[k + 1])
      BY <2>5, <2>9, <3>1, HeardNext DEF NamesInv, ChainInv
    <3>3. Append(SubSeq(E, 1, k), E[k + 1]) = SubSeq(E, 1, k + 1)
      BY <2>3, <3>1
    <3>4. k + 1 \in 0..Len(E) /\ (k + 1) + 1 = k + 2
      BY <3>1
    <3>5. PICK m : m = k + 1
      OBVIOUS
    <3>6. m \in 0..Len(E) /\ m + 1 = k + 2 /\ heard'[q] = SubSeq(E, 1, m)
      BY <3>2, <3>3, <3>4, <3>5
    <3>7. /\ \A h : Stays(h) /\ todo[h].r = q /\ todo[h].do \in Answering =>
                \E j \in (m + 1)..Len(E) : todo[h].do = E[j]
          /\ \A j \in (m + 1)..Len(E) : \E h : Stays(h) /\ todo[h] = Call(E[j], q)
      BY <3>1, <3>6, Zenon
    <3> QED
      BY <2>8, <3>6, <3>7, Zenon
  <2>10. CASE ~(Telling /\ todo[1].r = q)
    <3>1. heard'[q] = SubSeq(E, 1, k)
      BY <2>5, <2>10, HeardNext DEF NamesInv, ChainInv
    <3>2. \A h : Stays(h) /\ todo[h].r = q /\ todo[h].do \in Answering =>
                \E j \in (k + 1)..Len(E) : todo[h].do = E[j]
      BY <2>5 DEF Stays
    <3>3. ASSUME NEW i \in DOMAIN todo, NEW e \in Answering, todo[i] = Call(e, q)
          PROVE  Stays(i)
      <4>1. todo[i].do = e /\ todo[i].r = q
        BY <3>3, CallIs DEF Ends
      <4>2. i # 1
        BY <2>10, <3>3, <4>1, NothingPushed DEF Telling
      <4>3. todo # <<>>
        BY NothingPushed
      <4> QED
        BY <4>2, <4>3, FirstIs DEF NamesInv, ChainInv
    <3>4. ASSUME ~threw \/ (\E h : Stays(h) /\ todo[h].r = q /\ todo[h].do \in Answering),
                 NEW j \in (k + 1)..Len(E)
          PROVE  \E h : Stays(h) /\ todo[h] = Call(E[j], q)
      <4>1. Has(E[j], q)
        BY <2>5, <3>4 DEF Stays
      <4>2. PICK i \in DOMAIN todo : todo[i] = Call(E[j], q)
        BY <4>1 DEF Has
      <4>3. E[j] \in Answering
        BY <2>3
      <4> QED
        BY <3>3, <4>2, <4>3
    <3> QED
      BY <2>8, <3>1, <3>2, <3>4, Zenon
  <2> QED
    BY <2>9, <2>10
<1> QED
  BY <1>1, <1>2

(* An exception: what was heard stays, and no more comes.  *)
LEMMA ToldThrow ==
  ASSUME NamesInv, EndInv, Handled, NEW q \in Requests, Throwing
  PROVE  Told(q)'
<1>0. Alike(q) /\ DOMAIN todo' = {} /\ threw'
  BY NothingPushed DEF Throwing, Alike
<1>1. CASE ~jqXHR[q].settled
  BY <1>0, <1>1, ToldWaits DEF Alike
<1>2. CASE jqXHR[q].settled
  <2>1. PICK E : E = Ending(q)
    OBVIOUS
  <2>2. Ending(q)' = E /\ jqXHR'[q].settled
    BY <1>0, <1>2, <2>1, EndingSame DEF Alike
  <2>3. E \in Seq(Answering) /\ Len(E) \in Nat /\ DOMAIN E = 1..Len(E)
    <3>1. E = HeardList(jqXHR[q])
      BY <2>1, EndingIs
    <3> QED
      BY <3>1, EndingOrdered
  <2>4. PICK k \in 0..Len(E) : HeardTo(q, k)
    BY <1>2, <2>1 DEF EndInv, Told
  <2>5. heard[q] = SubSeq(E, 1, k)
    BY <2>1, <2>4 DEF HeardTo
  <2>6. \E m \in 0..Len(E) : heard'[q] = SubSeq(E, 1, m)
    <3>1. CASE Telling /\ todo[1].r = q
      <4>1. k + 1 \in 1..Len(E) /\ todo[1].do = E[k + 1]
        BY <2>1, <2>4, <3>1, HeadIsNext
      <4>2. heard'[q] = Append(SubSeq(E, 1, k), E[k + 1])
        BY <2>5, <3>1, <4>1, HeardNext DEF NamesInv, ChainInv
      <4>3. Append(SubSeq(E, 1, k), E[k + 1]) = SubSeq(E, 1, k + 1)
        BY <2>3, <4>1
      <4>4. k + 1 \in 0..Len(E)
        BY <4>1
      <4> QED
        BY <4>2, <4>3, <4>4
    <3>2. CASE ~(Telling /\ todo[1].r = q)
      BY <2>5, <3>2, HeardNext DEF NamesInv, ChainInv
    <3> QED
      BY <3>1, <3>2
  <2>7. PICK m \in 0..Len(E) : heard'[q] = SubSeq(E, 1, m)
    BY <2>6
  <2>8. HeardTo(q, m)'
    BY <1>0, <2>2, <2>7, Zenon DEF HeardTo
  <2> QED
    BY <2>2, <2>7, <2>8 DEF Told
<1> QED
  BY <1>1, <1>2

LEMMA ToldStep ==
  ASSUME ~AbortInSend, NamesInv, EndInv, Handled, Kind
  PROVE  \A q \in Requests : Told(q)'
<1> SUFFICES ASSUME NEW q \in Requests
             PROVE  Told(q)'
  OBVIOUS
<1>1. CASE Kept \/ Counting \/ Cleaning
  <2>1. PICK s : Keeps(s) /\ threw' = threw
    BY <1>1 DEF Kept, Counting, Cleaning, Calm
  <2> QED
    BY <2>1, ToldGoes DEF Keeps, NoEnds
<1>2. CASE Starts \/ Going
  <2>1. PICK r, s : r \in Requests /\ GoesOn(r, s) /\ threw' = threw
    BY <1>2 DEF Starts, Going, MovesOn, Calm
  <2>2. CASE q = r
    BY <2>1, <2>2, ToldWaits DEF GoesOn
  <2>3. CASE q # r
    BY <2>1, <2>3, ToldGoes DEF GoesOn, NoEnds, Others
  <2> QED
    BY <2>2, <2>3
<1>3. CASE Finishing
  <2>1. PICK r, s : r \in Requests /\ Finishes(r, s) /\ threw' = threw
    BY <1>3 DEF Finishing, Calm
  <2>2. CASE q = r
    BY <2>1, <2>2, ToldStarts
  <2>3. CASE q # r
    <3>1. \A i \in DOMAIN s : s[i].r = r
      <4>1. EndCalls(s, r, jqXHR'[r])
        BY <2>1, FinishesCalls
      <4> QED
        BY <4>1, Zenon DEF EndCalls
    <3> QED
      BY <2>1, <2>3, <3>1, ToldGoes DEF Finishes, Others
  <2> QED
    BY <2>2, <2>3
<1>4. CASE Beginning
  <2>1. PICK r, s : r \in Requests /\ Begins(r, s) /\ threw' = threw
    BY <1>4 DEF Beginning
  <2>2. CASE q = r
    BY <2>1, <2>2, BeginsNew, ToldWaits DEF Begins
  <2>3. CASE q # r
    BY <2>1, <2>3, ToldGoes DEF Begins, NoEnds, Others
  <2> QED
    BY <2>2, <2>3
<1>5. CASE Throwing
  BY <1>5, ToldThrow
<1>6. ~EndingAgain
  BY DEF EndingAgain, Again
<1> QED
  BY <1>1, <1>2, <1>3, <1>4, <1>5, <1>6 DEF Kind

-----------------------------------------------------------------------------
(* The counter of running requests.  ajaxStart was heard last when it is not 0,
   once the bell that stands in todo is rung.                                 *)
LEMMA BusyNext ==
  ASSUME Bells, BusyGoes, NEW p \in BOOLEAN, p <=> active > 0, busy \in BOOLEAN
  PROVE  busy' = p
<1>1. active = 0 => ~p
  OBVIOUS
<1>2. IF First("ajaxStart") THEN p ELSE IF First("ajaxStop") THEN ~p ELSE busy = p
  BY <1>1, Zenon DEF Bells
<1>3. busy' = IF First("ajaxStart") THEN TRUE ELSE IF First("ajaxStop") THEN FALSE ELSE busy
  BY DEF BusyGoes
<1> QED
  BY <1>2, <1>3, Zenon

(* The bell that stands first in todo was pushed by this step.  *)
LEMMA BellNext ==
  ASSUME ChainInv, NEW s, Pushes(s), NEW d \in {"ajaxStart", "ajaxStop"}, todo' # <<>>, todo'[1].do = d
  PROVE  1 \in DOMAIN s /\ s[1].do = d
<1>1. 1 \in DOMAIN todo'
  <2>1. todo' \in Seq(Calling)
    BY PushIs DEF ChainInv
  <2> QED
    BY <2>1, EmptySeq, LenProperties
<1>2. \/ 1 \in DOMAIN s /\ todo'[1] = s[1]
      \/ \E j : Stays(j) /\ todo'[1] = todo[j]
  BY <1>1, PushIs DEF ChainInv
<1>3. ASSUME NEW j, Stays(j), todo'[1] = todo[j]
      PROVE  FALSE
  <2>1. j \in DOMAIN todo /\ todo[j].do \in AtOnce /\ j # 1
    BY <1>3, LenProperties DEF Stays, AtOnce, ChainInv, Typed
  <2> QED
    BY <2>1 DEF ChainInv, FirstOnly, Soon
<1> QED
  BY <1>2, <1>3

LEMMA NoBellsNext ==
  ASSUME ChainInv, NEW s, Pushes(s), NoBells(s)
  PROVE  ~First("ajaxStart")' /\ ~First("ajaxStop")'
<1>1. ASSUME NEW d \in {"ajaxStart", "ajaxStop"}
      PROVE  ~(todo' # <<>> /\ todo'[1].do = d)
  BY BellNext DEF NoBells
<1> QED
  BY <1>1 DEF First

(* A step that leaves the counter at 0, or not at 0, as it was.  *)
LEMMA BellsGo ==
  ASSUME ChainInv, NEW s, Pushes(s), NoBells(s), Bells, BusyGoes, active' > 0 <=> active > 0
  PROVE  Bells'
<1>1. PICK p \in BOOLEAN : p <=> active > 0
  OBVIOUS
<1>2. busy \in BOOLEAN
  BY DEF ChainInv, Typed
<1>3. busy' = p
  BY <1>1, <1>2, BusyNext
<1>4. ~First("ajaxStart")' /\ ~First("ajaxStop")'
  BY NoBellsNext
<1> QED
  BY <1>1, <1>3, <1>4, Zenon DEF Bells

(* Which countdowns stand in todo.  *)
LEMMA CountDownHas ==
  ASSUME ChainInv, ~First("countDown"), NEW q \in Requests
  PROVE  Has("countDown", q) <=> \E j : Stays(j) /\ todo[j] = Call("countDown", q)
<1>1. Call("countDown", q).do = "countDown"
  BY CallIs DEF Ends
<1>2. ASSUME NEW i \in DOMAIN todo, todo[i] = Call("countDown", q)
      PROVE  Stays(i)
  <2>1. todo # <<>>
    BY <1>2, NothingPushed
  <2>2. i # 1
    BY <1>1, <1>2, <2>1 DEF First
  <2> QED
    BY <2>1, <2>2, FirstIs DEF ChainInv
<1> QED
  BY <1>2 DEF Has, Stays

LEMMA CountDownNext ==
  ASSUME ChainInv, NEW s, Pushes(s), NEW q \in Requests, \A i \in DOMAIN s : s[i] # Call("countDown", q)
  PROVE  Has("countDown", q)' <=> \E j : Stays(j) /\ todo[j] = Call("countDown", q)
<1>1. PICK c : c = Call("countDown", q)
  OBVIOUS
<1>2. /\ \A i \in DOMAIN todo' : \/ i \in DOMAIN s /\ todo'[i] = s[i]
                                 \/ \E j : Stays(j) /\ todo'[i] = todo[j]
      /\ \A j : Stays(j) => \E i \in DOMAIN todo' : todo'[i] = todo[j]
  BY PushIs DEF ChainInv
<1>3. (\E i \in DOMAIN todo' : todo'[i] = c) <=> \E j : Stays(j) /\ todo[j] = c
  BY <1>1, <1>2, Zenon
<1> QED
  BY <1>1, <1>3, Zenon DEF Has, Call

LEMMA NotACountDown ==
  ASSUME NEW s, NEW q \in Requests, \A i \in DOMAIN s : s[i].r = q => s[i].do # "countDown"
  PROVE  \A i \in DOMAIN s : s[i] # Call("countDown", q)
<1>1. Call("countDown", q).do = "countDown" /\ Call("countDown", q).r = q
  BY CallIs DEF Ends
<1> QED
  BY <1>1

(* A request that the step leaves alone is counted as before.  *)
LEMMA CountedGoes ==
  ASSUME ChainInv, ~First("countDown"), NEW s, Pushes(s), NEW q \in Requests, Alike(q),
         \A i \in DOMAIN s : s[i].r = q => s[i].do # "countDown"
  PROVE  IsCounted(q)' <=> IsCounted(q)
<1>1. \A i \in DOMAIN s : s[i] # Call("countDown", q)
  BY NotACountDown
<1>2. Has("countDown", q)' <=> Has("countDown", q)
  BY <1>1, CountDownHas, CountDownNext, Zenon
<1> QED
  BY <1>2 DEF IsCounted, Alike

(* A request that is not settled has no countdown before it.  *)
LEMMA NoCountDownYet ==
  ASSUME ChainInv, NEW r \in Requests, ~jqXHR[r].settled
  PROVE  \A j \in DOMAIN todo : todo[j] # Call("countDown", r)
<1>1. Call("countDown", r).do \in Ends /\ Call("countDown", r).r = r
  BY CallIs DEF Ends
<1> QED
  BY <1>1, EndsDone

LEMMA CountedFinite ==
  ASSUME Typed
  PROVE  IsFiniteSet(Counted) /\ Cardinality(Counted) \in Nat /\ active \in Int
<1>1. Counted \in SUBSET Requests
  BY DEF Counted
<1>2. IsFiniteSet(Counted)
  BY <1>1, AjaxAssumption, FS_Subset
<1> QED
  BY <1>2, FS_CardinalityType DEF Typed

(* Who is counted does not change, nor does the counter.  *)
LEMMA CountsSame ==
  ASSUME ChainInv, Counts, BusyGoes, NEW s, Pushes(s), NoBells(s), active' = active,
         \A q \in Requests : IsCounted(q)' <=> IsCounted(q)
  PROVE  Counts'
<1>1. Counted' = Counted
  BY DEF Counted
<1>2. Bells'
  BY BellsGo DEF Counts
<1> QED
  BY <1>1, <1>2 DEF Counts

LEMMA CountsKept ==
  ASSUME ChainInv, ~First("countDown"), Counts, BusyGoes, NEW s, Pushes(s), NoBells(s), NoEnds(s), active' = active,
         \A q \in Requests : Alike(q)
  PROVE  Counts'
<1>1. ASSUME NEW q \in Requests
      PROVE  IsCounted(q)' <=> IsCounted(q)
  <2>1. \A i \in DOMAIN s : s[i].r = q => s[i].do # "countDown"
    BY DEF NoEnds, Ends
  <2> QED
    BY <2>1, CountedGoes
<1> QED
  BY <1>1, CountsSame

(* A request begins, or goes on without being counted.  *)
LEMMA CountsGoOn ==
  ASSUME ChainInv, ~First("countDown"), Counts, BusyGoes, NEW r \in Requests, NEW s, Pushes(s),
         NoBells(s), NoEnds(s), Others(r), active' = active, ~jqXHR[r].settled, ~jqXHR'[r].settled,
         jqXHR[r].fireGlobals <=> jqXHR'[r].fireGlobals
  PROVE  Counts'
<1>1. ASSUME NEW q \in Requests
      PROVE  IsCounted(q)' <=> IsCounted(q)
  <2>1. \A i \in DOMAIN s : s[i].r = q => s[i].do # "countDown"
    BY DEF NoEnds, Ends
  <2>2. CASE q # r
    BY <2>1, <2>2, CountedGoes DEF Others
  <2>3. CASE q = r
    <3>1. ~Has("countDown", q)
      BY <2>3, NoCountDownYet DEF Has
    <3>2. ~Has("countDown", q)'
      <4>1. \A i \in DOMAIN s : s[i] # Call("countDown", q)
        BY <2>1, NotACountDown
      <4> QED
        BY <3>1, <4>1, CountDownHas, CountDownNext, Zenon
    <3> QED
      BY <2>3, <3>1, <3>2 DEF IsCounted
  <2> QED
    BY <2>2, <2>3
<1> QED
  BY <1>1, CountsSame

(* A request ends: it is counted until its countdown.  *)
LEMMA CountsFinish ==
  ASSUME ChainInv, ~First("countDown"), Counts, BusyGoes, NEW r \in Requests, NEW s, Finishes(r, s), active' = active
  PROVE  Counts'
<1>1. /\ \A i \in DOMAIN s : s[i].r = r /\ s[i].do \in Ends /\ s[i] = Call(s[i].do, r)
      /\ (\E i \in DOMAIN s : s[i].do = "countDown") <=> \/ Tells(jqXHR'[r], "countDown")
                                                         \/ jqXHR'[r].name # 0 /\ "countDown" = "cleanUp"
                                                         \/ jqXHR'[r].fireGlobals /\ "countDown" = "countDown"
  <2>1. EndCalls(s, r, jqXHR'[r])
    BY FinishesCalls
  <2> QED
    BY <2>1, Zenon DEF EndCalls
<1>2. ~Tells(jqXHR'[r], "countDown")
  BY DEF Tells, Result, GlobalResult
<1>3. (\E i \in DOMAIN s : s[i].do = "countDown") <=> jqXHR'[r].fireGlobals
  BY <1>1, <1>2
<1>4. NoBells(s)
  BY <1>1 DEF NoBells, Ends, Answering
<1>5. IsCounted(r)' <=> IsCounted(r)
  <2>1. ~jqXHR[r].settled /\ jqXHR'[r].settled /\ jqXHR'[r].fireGlobals = jqXHR[r].fireGlobals
    BY DEF Finishes
  <2>2. ASSUME jqXHR'[r].fireGlobals
        PROVE  Has("countDown", r)'
    <3>1. PICK i \in DOMAIN s : s[i].do = "countDown"
      BY <1>3, <2>2
    <3>2. i \in DOMAIN todo' /\ todo'[i] = s[i]
      BY <3>1, PushIs DEF Finishes, ChainInv
    <3>3. \E h \in DOMAIN todo' : todo'[h] = Call("countDown", r)
      BY <1>1, <3>1, <3>2
    <3> QED
      BY <3>3 DEF Has, Call
  <2> QED
    BY <2>1, <2>2 DEF IsCounted
<1>6. ASSUME NEW q \in Requests, q # r
      PROVE  IsCounted(q)' <=> IsCounted(q)
  BY <1>1, <1>6, CountedGoes DEF Finishes, Others
<1>7. \A q \in Requests : IsCounted(q)' <=> IsCounted(q)
  BY <1>5, <1>6
<1> QED
  BY <1>4, <1>7, CountsSame DEF Finishes

(* A global request is counted.  *)
LEMMA CountsUpStep ==
  ASSUME ChainInv, ~First("countDown"), Counts, BusyGoes, NEW r \in Requests, NEW s,
         GoesOn(r, s), ~jqXHR[r].settled, CountsUp(r, s), jqXHR'[r].fireGlobals
  PROVE  Counts'
<1>1. active' = active + 1 /\ ~jqXHR[r].fireGlobals
  BY DEF CountsUp
<1>2. IsFiniteSet(Counted) /\ Cardinality(Counted) \in Nat /\ active = Cardinality(Counted)
  BY CountedFinite DEF Counts, ChainInv
<1>3. r \notin Counted /\ IsCounted(r)'
  BY <1>1 DEF Counted, IsCounted, GoesOn
<1>4. ASSUME NEW q \in Requests, q # r
      PROVE  IsCounted(q)' <=> IsCounted(q)
  <2>1. \A i \in DOMAIN s : s[i].r = q => s[i].do # "countDown"
    BY DEF GoesOn, NoEnds, Ends
  <2> QED
    BY <1>4, <2>1, CountedGoes DEF GoesOn, Others
<1>5. Counted' = Counted \cup {r}
  BY <1>3, <1>4 DEF Counted
<1>6. active' = Cardinality(Counted')
  <2>1. Cardinality(Counted \cup {r}) = Cardinality(Counted) + 1
    BY <1>2, <1>3, FS_AddElement
  <2> QED
    BY <1>1, <1>2, <1>5, <2>1
<1>7. Bells'
  <2>1. CASE active = 0
    <3>1. 1 \in DOMAIN s /\ s[1].do = "ajaxStart"
      BY <2>1, Zenon DEF CountsUp
    <3>2. 1 \in DOMAIN todo' /\ todo'[1].do = "ajaxStart"
      BY <3>1, PushIs DEF GoesOn, ChainInv
    <3>3. todo' # <<>>
      BY <3>2, NothingPushed
    <3>4. active' > 0
      BY <1>1, <2>1
    <3> QED
      BY <3>2, <3>3, <3>4 DEF Bells, First
  <2>2. CASE active # 0
    <3>1. NoBells(s)
      BY <2>2, Zenon DEF CountsUp
    <3>2. active' > 0 <=> active > 0
      BY <1>1, <1>2, <2>2
    <3> QED
      BY <3>1, <3>2, BellsGo DEF GoesOn, Counts
  <2> QED
    BY <2>1, <2>2
<1> QED
  BY <1>6, <1>7 DEF Counts

(* A request is counted no more.  *)
LEMMA CountsDownStep ==
  ASSUME ChainInv, InOrder, CountsFit, Counts, BusyGoes, NEW s, Keeps(s), CountsDown(s)
  PROVE  Counts'
<1>1. /\ First("countDown") /\ todo # <<>> /\ 1 \in DOMAIN todo /\ todo[1] \in Calling
      /\ todo[1].do = "countDown" /\ active' = active - 1
      /\ \A j \in DOMAIN todo : j = 1 \/ Stays(j)
  BY FirstIs DEF CountsDown, First, ChainInv
<1>2. PICK r \in Requests : r = todo[1].r
  BY <1>1, TodoIs DEF ChainInv
<1>3. todo[1] = Call("countDown", r)
  BY <1>1, <1>2 DEF Calling, Call
<1>4. jqXHR[r].settled /\ jqXHR[r].fireGlobals
  BY <1>1, <1>2, EndsDone DEF Ends, CountsFit
<1>5. \A q \in Requests : Call("countDown", q).do = "countDown" /\ Call("countDown", q).r = q
  BY CallIs DEF Ends
<1>6. \A j : Stays(j) => todo[j] # Call("countDown", r)
  <2> SUFFICES ASSUME NEW j, Stays(j), todo[j] = Call("countDown", r)
               PROVE  FALSE
    OBVIOUS
  <2>1. j \in DOMAIN todo /\ 1 < j /\ todo[j].do = "countDown" /\ todo[j].r = r
    BY <1>5, LenProperties DEF Stays, ChainInv, Typed
  <2>2. Rank("countDown") < Rank("countDown")
    BY <1>1, <1>2, <2>1 DEF InOrder, Ends
  <2> QED
    BY <2>2 DEF Rank
<1>7. \A i \in DOMAIN s : s[i].do # "countDown"
  BY DEF Keeps, NoEnds, Ends
<1>8. \A q \in Requests : Has("countDown", q)' <=> \E j : Stays(j) /\ todo[j] = Call("countDown", q)
  <2> SUFFICES ASSUME NEW q \in Requests
               PROVE  Has("countDown", q)' <=> \E j : Stays(j) /\ todo[j] = Call("countDown", q)
    OBVIOUS
  <2>1. \A i \in DOMAIN s : s[i] # Call("countDown", q)
    BY <1>7, NotACountDown
  <2> QED
    BY <2>1, CountDownNext DEF Keeps
<1>9. IsCounted(r) /\ ~IsCounted(r)'
  <2>1. Has("countDown", r)
    BY <1>1, <1>3 DEF Has
  <2>2. ~Has("countDown", r)'
    BY <1>6, <1>8
  <2>3. jqXHR'[r].settled
    BY <1>4 DEF Keeps, Alike
  <2> QED
    BY <1>4, <2>1, <2>2, <2>3 DEF IsCounted
<1>10. ASSUME NEW q \in Requests, q # r
       PROVE  IsCounted(q)' <=> IsCounted(q)
  <2>1. todo[1] # Call("countDown", q)
    BY <1>2, <1>5, <1>10
  <2>2. Has("countDown", q) <=> \E j : Stays(j) /\ todo[j] = Call("countDown", q)
    BY <1>1, <2>1 DEF Has, Stays
  <2>3. Has("countDown", q)' <=> Has("countDown", q)
    BY <1>8, <2>2, Zenon
  <2> QED
    BY <2>3 DEF IsCounted, Keeps, Alike
<1>11. Counted' = Counted \ {r} /\ r \in Counted
  BY <1>9, <1>10 DEF Counted
<1>12. /\ IsFiniteSet(Counted) /\ Cardinality(Counted) \in Nat /\ active = Cardinality(Counted)
  BY CountedFinite DEF Counts, ChainInv
<1>13. Cardinality(Counted \ {r}) = Cardinality(Counted) - 1
  BY <1>11, <1>12, FS_RemoveElement
<1>14. active' = Cardinality(Counted')
  BY <1>1, <1>11, <1>12, <1>13
<1>15. active > 0
  <2>1. Counted # {}
    BY <1>11
  <2>2. Cardinality(Counted) # 0
    BY <1>12, <2>1, FS_EmptySet
  <2> QED
    BY <1>12, <2>2
<1>16. Bells'
  <2>1. CASE active = 1
    <3>1. 1 \in DOMAIN s /\ s[1].do = "ajaxStop"
      BY <2>1 DEF CountsDown
    <3>2. 1 \in DOMAIN todo' /\ todo'[1].do = "ajaxStop"
      BY <3>1, PushIs DEF Keeps, ChainInv
    <3>3. todo' # <<>>
      BY <3>2, NothingPushed
    <3>4. active' = 0
      BY <1>1, <2>1
    <3> QED
      BY <3>2, <3>3, <3>4 DEF Bells, First
  <2>2. CASE active # 1
    <3>1. s = <<>>
      BY <2>2 DEF CountsDown
    <3>2. NoBells(s)
      BY <3>1, NothingPushed
    <3>3. active' > 0 <=> active > 0
      BY <1>1, <1>12, <1>15, <2>2
    <3> QED
      BY <3>2, <3>3, BellsGo DEF Keeps, Counts
  <2> QED
    BY <2>1, <2>2
<1> QED
  BY <1>14, <1>16 DEF Counts

LEMMA CountsStep ==
  ASSUME ~AbortInSend, NamesInv, EndInv, Handled, Kind, ~threw'
  PROVE  Counts'
<1>1. ChainInv /\ BusyGoes /\ InOrder /\ CountsFit /\ (~threw => Counts)
  BY DEF NamesInv, EndInv, Handled
<1>2. NoBells(<<>>)
  BY NothingPushed
<1>3. CASE Kept
  BY <1>1, <1>2, <1>3, CountsKept DEF Kept, Keeps, Calm, Plain
<1>4. CASE Counting
  <2>1. PICK s : Keeps(s) /\ CountsDown(s) /\ threw' = threw
    BY <1>4 DEF Counting, Calm
  <2> QED
    BY <1>1, <2>1, CountsDownStep
<1>5. CASE Cleaning
  <2>1. ~First("countDown")
    BY <1>5 DEF Cleaning, First
  <2> QED
    BY <1>1, <1>2, <1>5, <2>1, CountsKept DEF Cleaning, Keeps
<1>6. CASE Starts
  <2>1. PICK r \in Requests : \E s : GoesOn(r, s) /\ Calm /\ First("start") /\ CountsUp(r, s)
    BY <1>6 DEF Starts
  <2>2. PICK s : GoesOn(r, s) /\ Calm /\ First("start") /\ CountsUp(r, s)
    BY <2>1
  <2>3. ~First("countDown") /\ Counts
    BY <1>1, <2>2 DEF First, Calm
  <2>4. ~jqXHR[r].settled /\ ~jqXHR'[r].settled
    BY <2>2 DEF GoesOn
  <2>5. CASE jqXHR'[r].fireGlobals
    BY <1>1, <2>2, <2>3, <2>4, <2>5, CountsUpStep
  <2>6. CASE ~jqXHR'[r].fireGlobals
    <3>1. NoBells(s) /\ active' = active /\ ~jqXHR[r].fireGlobals
      BY <2>2, <2>6, Zenon DEF CountsUp
    <3> QED
      BY <1>1, <2>2, <2>3, <2>4, <2>6, <3>1, CountsGoOn DEF GoesOn
  <2> QED
    BY <2>5, <2>6
<1>11. CASE Going
  <2>1. PICK r \in Requests : \E s : MovesOn(r, s) /\ Calm /\ Plain /\ active' = active
    BY <1>11 DEF Going
  <2>2. PICK s : MovesOn(r, s) /\ Calm /\ Plain /\ active' = active
    BY <2>1
  <2>3. ~First("countDown") /\ Counts
    BY <1>1, <2>2 DEF Plain, Calm
  <2>4. ~jqXHR[r].settled /\ ~jqXHR'[r].settled
    BY <2>2 DEF MovesOn, GoesOn
  <2>5. jqXHR[r].fireGlobals <=> jqXHR'[r].fireGlobals
    BY <2>2 DEF MovesOn, SameCount
  <2> QED
    BY <1>1, <2>2, <2>3, <2>4, <2>5, CountsGoOn DEF MovesOn, GoesOn
<1>7. CASE Finishing
  BY <1>1, <1>7, CountsFinish DEF Finishing, Calm, Plain
<1>8. CASE Beginning
  <2>1. PICK r, s : r \in Requests /\ Begins(r, s) /\ AtHandler /\ threw' = threw /\ active' = active
    BY <1>8 DEF Beginning
  <2>2. ~First("countDown") /\ Counts
    BY <1>1, <2>1, PlainIs DEF Plain
  <2>3. jqXHR[r].state = -1 /\ ~jqXHR'[r].fireGlobals /\ ~jqXHR'[r].settled
    BY <2>1 DEF Begins
  <2>4. ~jqXHR[r].settled /\ ~jqXHR[r].fireGlobals
    BY <1>1, <2>1, <2>3 DEF ChainInv, Sound, Fresh
  <2> QED
    BY <1>1, <2>1, <2>2, <2>3, <2>4, CountsGoOn DEF Begins
<1>9. ~Throwing
  BY DEF Throwing
<1>10. ~EndingAgain
  BY DEF EndingAgain, Again
<1> QED
  BY <1>3, <1>4, <1>5, <1>6, <1>7, <1>8, <1>9, <1>10, <1>11 DEF Kind

-----------------------------------------------------------------------------
(* The invariant of the ends, where no handler aborts what is being sent.  *)
LEMMA EndStart ==
  ASSUME Init
  PROVE  EndInv
<1>1. todo = <<>> /\ DOMAIN todo = {} /\ active = 0 /\ ~First("ajaxStart") /\ ~First("ajaxStop")
  BY NothingPushed DEF Init, First
<1>2. InOrder /\ CountsFit
  BY <1>1 DEF InOrder, CountsFit
<1>3. \A r \in Requests : ~jqXHR[r].settled /\ ~jqXHR[r].fireGlobals /\ heard[r] = <<>>
  BY DEF Init, Fresh
<1>4. \A r \in Requests : Told(r)
  BY <1>3 DEF Told
<1>5. Counts
  <2>1. Counted = {}
    BY <1>3 DEF Counted, IsCounted
  <2>2. Cardinality(Counted) = 0
    BY <2>1, FS_EmptySet
  <2>3. busy = FALSE
    BY Zenon DEF Init
  <2>4. ~(active > 0)
    BY <1>1
  <2>5. Bells
    BY <1>1, <2>3, <2>4, Zenon DEF Bells
  <2> QED
    BY <1>1, <2>2, <2>5 DEF Counts
<1> QED
  BY <1>2, <1>4, <1>5 DEF EndInv

LEMMA EndStutter ==
  ASSUME EndInv, UNCHANGED vars
  PROVE  EndInv'
<1>1. InOrder' /\ CountsFit'
  BY DEF EndInv, vars, InOrder, CountsFit
<1>2. ASSUME NEW r \in Requests
      PROVE  Told(r)'
  <2>1. Told(r)
    BY DEF EndInv
  <2>2. /\ jqXHR' = jqXHR /\ todo' = todo /\ heard' = heard /\ threw' = threw
    BY DEF vars
  <2>3. Ending(r)' = Ending(r)
    BY <2>2 DEF Ending
  <2>4. ASSUME NEW k, HeardTo(r, k)
        PROVE  HeardTo(r, k)'
    <3>1. /\ heard[r] = SubSeq(Ending(r), 1, k)
          /\ \A i \in DOMAIN todo : todo[i].r = r /\ todo[i].do \in Answering =>
                \E j \in (k + 1)..Len(Ending(r)) : todo[i].do = Ending(r)[j]
          /\ ~threw \/ (\E i \in DOMAIN todo : todo[i].r = r /\ todo[i].do \in Answering) =>
                \A j \in (k + 1)..Len(Ending(r)) : \E i \in DOMAIN todo : todo[i] = Call(Ending(r)[j], r)
      BY <2>4, Zenon DEF HeardTo, Has
    <3>2. /\ heard'[r] = SubSeq(Ending(r)', 1, k)
          /\ \A i \in DOMAIN todo' : todo'[i].r = r /\ todo'[i].do \in Answering =>
                \E j \in (k + 1)..Len(Ending(r)') : todo'[i].do = Ending(r)'[j]
          /\ ~threw' \/ (\E i \in DOMAIN todo' : todo'[i].r = r /\ todo'[i].do \in Answering) =>
                \A j \in (k + 1)..Len(Ending(r)') : \E i \in DOMAIN todo' : todo'[i] = Call(Ending(r)'[j], r)
      <4>1. heard'[r] = SubSeq(Ending(r)', 1, k)
        BY <2>2, <2>3, <3>1
      <4>2. \A i \in DOMAIN todo' : todo'[i].r = r /\ todo'[i].do \in Answering =>
               \E j \in (k + 1)..Len(Ending(r)') : todo'[i].do = Ending(r)'[j]
        BY <2>2, <2>3, <3>1
      <4>3. ~threw' \/ (\E i \in DOMAIN todo' : todo'[i].r = r /\ todo'[i].do \in Answering) =>
               \A j \in (k + 1)..Len(Ending(r)') : \E i \in DOMAIN todo' : todo'[i] = Call(Ending(r)'[j], r)
        BY <2>2, <2>3, <3>1
      <4> QED
        BY <4>1, <4>2, <4>3
    <3> QED
      BY <3>2, Zenon DEF HeardTo, Has, Call
  <2> QED
    BY <2>1, <2>2, <2>3, <2>4, Zenon DEF Told
<1>3. (~threw => Counts)'
  <2>1. ~threw => Counts
    BY DEF EndInv
  <2> QED
    BY <2>1, Zenon DEF vars, Counts, Counted, IsCounted, Has, Bells, First
<1> QED
  BY <1>1, <1>2, <1>3 DEF EndInv

LEMMA EndInvStep ==
  ASSUME ~AbortInSend, NamesInv, EndInv, Next
  PROVE  EndInv'
<1>1. Handled /\ Kind
  BY StepIs
<1>2. InOrder' /\ CountsFit'
  BY <1>1, OrderStep
<1>3. \A r \in Requests : Told(r)'
  BY <1>1, ToldStep
<1>4. ~threw' => Counts'
  BY <1>1, CountsStep
<1> QED
  BY <1>2, <1>3, <1>4 DEF EndInv

LEMMA EndAlways ==
  ASSUME ~AbortInSend
  PROVE  Spec => [](NamesInv /\ EndInv)
<1>1. Init => NamesInv /\ EndInv
  BY NamesStart, EndStart
<1>2. NamesInv /\ EndInv /\ [Next]_vars => (NamesInv /\ EndInv)'
  BY NamesStep, NamesStutter, EndInvStep, EndStutter
<1> QED
  BY <1>1, <1>2, PTL DEF Spec

(* When the browser has the turn, and nothing threw, what is done is settled.  *)
LEMMA QuietSettled ==
  ASSUME NamesInv, NEW r \in Requests, Quiet, ~threw, ~jqXHR[r].settled
  PROVE  jqXHR[r].state # 2
<1>1. ~Has("convert", r)
  BY NothingPushed DEF Quiet, Has
<1> QED
  BY <1>1 DEF NamesInv, ChainInv, Midway

LEMMA EndIsToldOnce ==
  ASSUME NamesInv, EndInv
  PROVE  ToldOnce
<1>0. ASSUME NEW r \in Requests, ~jqXHR[r].settled
      PROVE  heard[r] = <<>> /\ (Quiet /\ ~threw => jqXHR[r].state # 2)
  <2>1. heard[r] = <<>>
    BY <1>0 DEF EndInv, Told
  <2>2. Quiet /\ ~threw => jqXHR[r].state # 2
    BY <1>0, QuietSettled
  <2> QED
    BY <2>1, <2>2
<1> SUFFICES ASSUME NEW r \in Requests, jqXHR[r].settled
             PROVE  /\ IsPrefix(heard[r], Ending(r))
                    /\ Quiet /\ ~threw => heard[r] = Ending(r)
  BY <1>0 DEF ToldOnce
<1>1. PICK E : E = Ending(r)
  OBVIOUS
<1>2. E \in Seq(Answering) /\ Len(E) \in Nat
  <2>1. E = HeardList(jqXHR[r])
    BY <1>1, EndingIs
  <2> QED
    BY <2>1, EndingOrdered
<1>3. PICK k \in 0..Len(E) : HeardTo(r, k)
  BY <1>1 DEF EndInv, Told
<1>4. heard[r] = SubSeq(E, 1, k)
  BY <1>1, <1>3 DEF HeardTo
<1>5. Len(SubSeq(E, 1, k)) = k /\ SubSeq(SubSeq(E, 1, k), 1, k) = SubSeq(E, 1, k) /\ SubSeq(E, 1, Len(E)) = E
  BY <1>2, <1>3
<1>6. IsPrefix(heard[r], E)
  BY <1>2, <1>3, <1>4, <1>5 DEF IsPrefix
<1>7. ASSUME Quiet, ~threw
      PROVE  heard[r] = E
  <2>1. \A j \in (k + 1)..Len(E) : Has(E[j], r)
    BY <1>1, <1>3, <1>7, Zenon DEF HeardTo
  <2>2. \A j : ~Has(E[j], r)
    BY <1>7, NothingPushed DEF Quiet, Has
  <2>3. k = Len(E)
    BY <1>2, <1>3, <2>1, <2>2
  <2> QED
    BY <1>4, <1>5, <2>3
<1> QED
  BY <1>1, <1>6, <1>7

LEMMA CounterIsExact ==
  ASSUME ~AbortInSend, NamesInv, EndInv
  PROVE  CounterExact
<1> SUFFICES ASSUME Quiet, ~threw
             PROVE  /\ active = Cardinality({r \in Pending : jqXHR[r].fireGlobals})
                    /\ busy <=> active > 0
  BY DEF CounterExact
<1>1. Counts
  BY DEF EndInv
<1>2. \A r \in Requests : ~Has("countDown", r)
  BY NothingPushed DEF Quiet, Has
<1>7. ASSUME NEW r \in Requests
      PROVE  IsCounted(r) <=> jqXHR[r].state \in {0, 1} /\ jqXHR[r].fireGlobals
  <2>1. jqXHR[r].settled => jqXHR[r].state = 2
    BY DEF NamesInv, ChainInv, Sound
  <2>2. ~jqXHR[r].settled => jqXHR[r].state # 2
    BY QuietSettled
  <2>3. jqXHR[r].state = -1 => ~jqXHR[r].fireGlobals
    BY DEF NamesInv, ChainInv, Sound, Fresh
  <2>4. jqXHR[r].state \in {-1, 0, 1, 2}
    BY DEF NamesInv, ChainInv, Typed, XHR
  <2> QED
    BY <1>2, <2>1, <2>2, <2>3, <2>4 DEF IsCounted
<1>3. Counted = {r \in Pending : jqXHR[r].fireGlobals}
  BY <1>7 DEF Counted, Pending
<1>4. ~First("ajaxStart") /\ ~First("ajaxStop")
  BY DEF Quiet, First
<1>5. busy <=> active > 0
  BY <1>1, <1>4, Zenon DEF Counts, Bells
<1>6. active = Cardinality({r \in Pending : jqXHR[r].fireGlobals})
  BY <1>1, <1>3 DEF Counts
<1> QED
  BY <1>5, <1>6

(* Where no handler aborts a request that is being sent, nor one of ajaxStart a
   request without a beforeSend, a request's handlers are told of its end once,
   in the order of the code and, as long as nothing throws, completely, for any
   number of requests of any kinds: whichever of an answer, the timeout, an abort
   or an exception of the transport is first.                                  *)
THEOREM EndsAreToldOnce ==
  ASSUME ~AbortInSend
  PROVE  Spec => []ToldOnce
<1>1. NamesInv /\ EndInv => ToldOnce
  BY EndIsToldOnce
<1> QED
  BY <1>1, EndAlways, PTL

(* Under the same hypothesis the counter of running requests is that of the
   pending requests with global events whenever the browser has the turn, and
   ajaxStart and ajaxStop have been heard accordingly, as long as nothing threw. *)
THEOREM CounterStaysExact ==
  ASSUME ~AbortInSend
  PROVE  Spec => []CounterExact
<1>1. NamesInv /\ EndInv => CounterExact
  BY CounterIsExact
<1> QED
  BY <1>1, EndAlways, PTL
=============================================================================
