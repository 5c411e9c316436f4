-------------------------------- MODULE Ajax --------------------------------
(* jQuery.ajax of WebRoot/resource/jsonp/jquery-1.8.0.js: one request after
   another, several at a time, each with its jqXHR, its deferred, its transport
   (an XMLHttpRequest, asynchronous or not, a script element, or none) and its
   timeout; the counter of running requests behind ajaxStart and ajaxStop; and
   the pool of global callback names of JSONP.

   JavaScript runs one call chain at a time: todo is what the running one has
   still to do, innermost first, and an event of the browser (an answer, a
   timeout, a click that makes or aborts a request) begins a chain only when the
   last one has ended.  Whenever the code calls a handler of the application the
   handler may itself make a request, abort one, or throw.                    *)
EXTENDS Integers, Sequences, FiniteSets, SequencesExt

CONSTANTS Requests,     \* the requests a page makes
          Offers,       \* what they ask for: sets of records of options
          NoOne,        \* no request
          MostAntics,   \* bound: requests made, aborts and throws in handlers
          AbortInSend   \* may a handler abort a request that is being sent?

VARIABLES jqXHR,        \* the local variables of each call of jQuery.ajax
          todo,         \* the calls that the running chain has still to make
          active,       \* jQuery.active
          window,       \* the request whose callback is window[name]
          oldCallbacks, \* the names free for reuse, the next one last
          nonce,        \* names made so far
          heard,        \* the handlers of each request that were called
          busy,         \* ajaxStart was heard, ajaxStop was not
          antics, threw \* what the handlers did

vars == <<jqXHR, todo, active, window, oldCallbacks, nonce, heard, busy, antics, threw>>

Names == 1..Cardinality(Requests)

(* JSONP comes by a script element, or, from the page's own domain, by an
   XMLHttpRequest whose text is run as a script ("local").                    *)
Kinds == {"xhr", "sync", "jsonp", "local", "none"}
Named == {"jsonp", "local"}

ASSUME AjaxAssumption ==
    /\ NoOne \notin Requests /\ IsFiniteSet(Requests) /\ MostAntics \in Nat /\ AbortInSend \in BOOLEAN
    /\ Offers \subseteq [kind : Kinds, global : BOOLEAN, timed : BOOLEAN,
                          guarded : BOOLEAN, filtered : BOOLEAN, throws : BOOLEAN]

(* How a request ends: an answer with data that converts or does not ("ok",
   "bad"), 304, any other status or an exception, an abort.                   *)
Outcomes == {"ok", "bad", "notmodified", "fault", "aborted"}
Dataless == {"notmodified", "fault"}
IsSuccess(outcome) == outcome \in {"ok", "notmodified"}

(* The points where a handler of the application is called.  *)
Events == {"prefilter", "ajaxStart", "beforeSend", "ajaxSend", "dataFilter", "success", "error",
           "statusCode", "ajaxSuccess", "ajaxError", "complete", "ajaxComplete", "ajaxStop"}
Answering == {"success", "error", "statusCode", "ajaxSuccess", "ajaxError", "complete", "ajaxComplete"}

(* state is 0, 1 or 2 as in the code, -1 before the call.  guarded, filtered: it
   has a beforeSend, a dataFilter; throws: errors of converters are let through.
   going: its state is looked at no more before it is sent.  flying: the browser
   is fetching; live: the transport still waits for it.  settled: its deferred
   is; called: its script called the callback and came to its end.            *)
Fresh == [state |-> -1, kind |-> "none", global |-> FALSE, timed |-> FALSE,
          guarded |-> FALSE, filtered |-> FALSE, throws |-> FALSE,
          fireGlobals |-> FALSE, refused |-> FALSE, going |-> FALSE, installed |-> FALSE,
          transport |-> FALSE, timer |-> FALSE, live |-> FALSE, flying |-> FALSE,
          settled |-> FALSE, outcome |-> "none", name |-> 0, container |-> NoOne, called |-> FALSE]

Made    == {r \in Requests : jqXHR[r].state # -1}
Pending == {r \in Requests : jqXHR[r].state \in {0, 1}}
Quiet   == todo = <<>>

Init == /\ jqXHR = [r \in Requests |-> Fresh]
        /\ todo = <<>> /\ active = 0 /\ busy = FALSE
        /\ window = [n \in Names |-> NoOne] /\ oldCallbacks = <<>> /\ nonce = 0
        /\ heard = [r \in Requests |-> <<>>]
        /\ antics = 0 /\ threw = FALSE

Call(do, r) == [do |-> do, r |-> r]
Calls(r, names) == [i \in DOMAIN names |-> Call(names[i], r)]

-----------------------------------------------------------------------------
(* done(): nothing when the request is done already.  Otherwise it is done now,
   the timeout is cleared and the transport forgotten.  An answer with data goes
   through the dataFilter and the converters first; else, and after them, the
   deferred is settled, which once it is calls no one again.                  *)
Done(x) == [x EXCEPT !.state = 2, !.timer = FALSE, !.transport = FALSE]
Settled(x, outcome) ==
    [x EXCEPT !.settled = TRUE, !.outcome = IF x.settled THEN @ ELSE outcome]

AfterDone(x, outcome) == IF x.state = 2 THEN x ELSE Settled(Done(x), outcome)
DataCalls(r, x) == Calls(r, IF x.filtered THEN <<"dataFilter", "convert">> ELSE <<"convert">>)

(* Mutant: the clean-up is one of the handlers like others and comes after them. *)
CleansUpLast(x, outcome) ==
    IF x.settled THEN <<>>
    ELSE (IF x.installed THEN <<IF IsSuccess(outcome) THEN "success" ELSE "error">> ELSE <<>>)
      \o (IF x.name # 0 THEN <<"cleanUp">> ELSE <<>>)
      \o <<"statusCode">>
(* The handlers the settled deferred calls: JSONP's clean-up was added by its
   prefilter and is first; the option success or error after it, and complete
   later, only if the request had come as far as to install them.             *)
Settling(x, outcome) ==
    IF x.settled THEN <<>>
    ELSE (IF x.name # 0 THEN <<"cleanUp">> ELSE <<>>)
      \o (IF x.installed THEN <<IF IsSuccess(outcome) THEN "success" ELSE "error">> ELSE <<>>)
      \o <<"statusCode">>

Completing(x) == IF x.installed /\ ~x.settled THEN <<"complete">> ELSE <<>>

(* The handlers told of an end, and the counting down.  *)
HandlerCalls(r, x, outcome) ==
    Calls(r, Settling(x, outcome)
             \o (IF x.fireGlobals THEN <<IF IsSuccess(outcome) THEN "ajaxSuccess" ELSE "ajaxError">> ELSE <<>>)
             \o Completing(x)
             \o (IF x.fireGlobals THEN <<"ajaxComplete", "countDown">> ELSE <<>>))

(* Mutants: a done request may be done again; the global option is read when the
   request ends.                                                              *)
DoneAgain(r, x, outcome) == HandlerCalls(r, x, outcome)
OptionReadLate(r, x, outcome) ==
    IF x.state = 2 THEN <<>> ELSE HandlerCalls(r, [x EXCEPT !.fireGlobals = x.global], outcome)

DoneCalls(r, x, outcome) == IF x.state = 2 THEN <<>> ELSE HandlerCalls(r, x, outcome)

(* transport.abort: the transport waits no more; an XMLHttpRequest is stopped, a
   script element is taken out of the page but its script may still arrive.   *)
TransportAbort(x) ==
    IF x.transport /\ x.live
    THEN [x EXCEPT !.live = FALSE, !.flying = (x.kind = "jsonp")]
    ELSE x

(* jqXHR.abort()  *)
Aborted(x)       == AfterDone(TransportAbort(x), "aborted")
AbortCalls(r, x) == DoneCalls(r, x, "aborted")

-----------------------------------------------------------------------------
(* jQuery.ajax up to its prefilters.  The one of JSONP takes a name from the
   pool, or makes one, installs its callback under it and adds the clean-up to
   the deferred; the one of scripts turns off the global events of a
   cross-domain script.                                                       *)
JsonpName == IF oldCallbacks = <<>> THEN nonce + 1 ELSE Last(oldCallbacks)

Begun(offer) ==
    [Fresh EXCEPT !.state = 0, !.kind = offer.kind, !.timed = offer.timed,
                  !.guarded = offer.guarded, !.filtered = offer.filtered, !.throws = offer.throws,
                  !.global = offer.global /\ offer.kind # "jsonp",
                  !.name = IF offer.kind \in Named THEN JsonpName ELSE 0]

(* Mutant: nonce is read and not advanced.  *)
SameName(r) ==
    /\ window' = [window EXCEPT ![JsonpName] = r]
    /\ oldCallbacks' = IF oldCallbacks = <<>> THEN <<>> ELSE Front(oldCallbacks)
    /\ UNCHANGED nonce

InstallJsonp(r) ==
    /\ window' = [window EXCEPT ![JsonpName] = r]
    /\ oldCallbacks' = IF oldCallbacks = <<>> THEN <<>> ELSE Front(oldCallbacks)
    /\ nonce' = IF oldCallbacks = <<>> THEN nonce + 1 ELSE nonce

Make(r, rest) ==
    \E offer \in Offers :
        /\ jqXHR[r].state = -1
        /\ jqXHR' = [jqXHR EXCEPT ![r] = Begun(offer)]
        /\ todo' = Calls(r, <<"prefilter", "start">>) \o rest
        /\ IF offer.kind \in Named THEN InstallJsonp(r)
           ELSE UNCHANGED <<window, oldCallbacks, nonce>>
        /\ UNCHANGED active

Abort(r, rest) ==
    /\ r \in Made
    /\ AbortInSend \/ ~(jqXHR[r].state = 0 /\ jqXHR[r].going)
    /\ jqXHR' = [jqXHR EXCEPT ![r] = Aborted(jqXHR[r])]
    /\ todo' = AbortCalls(r, jqXHR[r]) \o rest
    /\ UNCHANGED <<active, window, oldCallbacks, nonce>>

-----------------------------------------------------------------------------
(* The running chain: what is to be done next.  *)
Doing(do) == todo # <<>> /\ Head(todo).do = do
Now       == Head(todo).r
X         == jqXHR[Now]

(* After the prefilters: an aborted request stops here.  Otherwise its global
   option is read once and for all, the request is counted, and beforeSend called
   if there is one.                                                           *)
Start ==
    /\ Doing("start")
    /\ IF X.state = 2
       THEN /\ todo' = Tail(todo) /\ UNCHANGED <<jqXHR, active>>
       ELSE /\ jqXHR' = [jqXHR EXCEPT ![Now].fireGlobals = X.global, ![Now].going = ~X.guarded]
            /\ active' = IF X.global THEN active + 1 ELSE active
            /\ todo' = Calls(Now, (IF X.global /\ active = 0 THEN <<"ajaxStart">> ELSE <<>>)
                                  \o (IF X.guarded THEN <<"beforeSend">> ELSE <<>>)
                                  \o <<"dispatch">>) \o Tail(todo)
    /\ UNCHANGED <<window, oldCallbacks, nonce, heard, busy, antics, threw>>

(* The options success, error and complete become handlers; those of a request
   that was aborted and goes on for want of a beforeSend are called at once.  *)
Installing(x) ==
    IF x.settled THEN <<IF IsSuccess(x.outcome) THEN "success" ELSE "error", "complete">> ELSE <<>>

(* With a beforeSend, a request that it refused, or that was aborted by then, is
   aborted and not sent.  Otherwise a transport is sought.                    *)
Dispatch ==
    /\ Doing("dispatch")
    /\ IF X.guarded /\ (X.refused \/ X.state = 2)
       THEN /\ jqXHR' = [jqXHR EXCEPT ![Now] = Aborted(X)]
            /\ todo' = AbortCalls(Now, X) \o Tail(todo)
       ELSE LET x == [X EXCEPT !.installed = TRUE, !.going = TRUE]
            IN IF X.kind = "none"
               THEN /\ jqXHR' = [jqXHR EXCEPT ![Now] = AfterDone(x, "fault")]
                    /\ todo' = Calls(Now, Installing(X)) \o DoneCalls(Now, x, "fault") \o Tail(todo)
               ELSE /\ jqXHR' = [jqXHR EXCEPT ![Now] = [x EXCEPT !.transport = TRUE]]
                    /\ todo' = Calls(Now, Installing(X)
                                          \o (IF X.fireGlobals THEN <<"ajaxSend">> ELSE <<>>)
                                          \o <<"send">>) \o Tail(todo)
    /\ UNCHANGED <<active, window, oldCallbacks, nonce, heard, busy, antics, threw>>

(* The timeout is set, the state is 1 and the transport sends.  When it raises,
   as it does when an abort has taken the transport away, the request is done.
   A synchronous XMLHttpRequest has its answer at once.                       *)
Sending   == [X EXCEPT !.state = 1, !.timer = X.timed /\ X.kind # "sync"]
Answered  == X.transport /\ X.kind = "sync"
Immediate == {"fault"} \cup (IF Answered THEN Dataless ELSE {})

Send ==
    /\ Doing("send")
    /\ \/ \E outcome \in Immediate :
             /\ jqXHR' = [jqXHR EXCEPT ![Now] = AfterDone(Sending, outcome)]
             /\ todo' = DoneCalls(Now, Sending, outcome) \o Tail(todo)
       \/ /\ Answered
          /\ jqXHR' = [jqXHR EXCEPT ![Now] = Done(Sending)]
          /\ todo' = DataCalls(Now, X) \o Tail(todo)
       \/ /\ X.transport /\ X.kind # "sync"
          /\ jqXHR' = [jqXHR EXCEPT ![Now] = [Sending EXCEPT !.live = TRUE, !.flying = TRUE]]
          /\ todo' = Tail(todo)
    /\ UNCHANGED <<active, window, oldCallbacks, nonce, heard, busy, antics, threw>>

(* A script that calls window[name] leaves what it gives with the request that
   installed it; a faulty server's script does not call.                      *)
Given(r, calls) ==
    LET owner == window[jqXHR[r].name]
    IN IF calls /\ owner # NoOne THEN [jqXHR EXCEPT ![owner].container = r] ELSE jqXHR

(* The converters, within done().  The text of a local script is run, which may
   fail; JSONP's own converter fails when the callback was given nothing.  An
   error is the request's end, unless it is let through: then the chain ends and
   the deferred is never settled.                                             *)
Converted(x, outcome) ==
    /\ x.name # 0 /\ outcome = "ok" => x.container # NoOne
    /\ x.kind = "jsonp" /\ outcome = "bad" => x.container = NoOne

Convert ==
    /\ Doing("convert")
    /\ \E calls \in (IF X.kind = "local" THEN BOOLEAN ELSE {FALSE}), outcome \in {"ok", "bad"} :
          LET given == Given(Now, calls)
              x == [given[Now] EXCEPT !.called = @ \/ (calls /\ outcome = "ok")]
          IN /\ Converted(x, outcome)
             /\ \/ /\ ~(X.throws /\ X.name # 0 /\ outcome = "bad")
                   /\ jqXHR' = [given EXCEPT ![Now] = Settled(x, outcome)]
                   /\ todo' = HandlerCalls(Now, x, outcome) \o Tail(todo)
                   /\ UNCHANGED threw
                \/ /\ X.throws /\ outcome = "bad"
                   /\ jqXHR' = [given EXCEPT ![Now] = x]
                   /\ todo' = <<>> /\ threw' = TRUE
    /\ UNCHANGED <<active, window, oldCallbacks, nonce, heard, busy, antics>>

(* The clean-up of a JSONP request: window[name] is what it was before, which is
   nothing, and the name is free.                                             *)
CleanUp ==
    /\ Doing("cleanUp")
    /\ window' = [window EXCEPT ![X.name] = NoOne]
    /\ oldCallbacks' = Append(oldCallbacks, X.name)
    /\ todo' = Tail(todo)
    /\ UNCHANGED <<jqXHR, active, nonce, heard, busy, antics, threw>>

(* The end of done(): the request is counted no more.  *)
CountDown ==
    /\ Doing("countDown")
    /\ active' = active - 1
    /\ todo' = (IF active = 1 THEN Calls(Now, <<"ajaxStop">>) ELSE <<>>) \o Tail(todo)
    /\ UNCHANGED <<jqXHR, window, oldCallbacks, nonce, heard, busy, antics, threw>>

(* A handler of the application is called.  *)
Hearing ==
    /\ todo # <<>> /\ Head(todo).do \in Events
    /\ LET event == Head(todo).do
       IN /\ heard' = IF event \in Answering THEN [heard EXCEPT ![Now] = Append(@, event)] ELSE heard
          /\ busy' = CASE event = "ajaxStart" -> TRUE [] event = "ajaxStop" -> FALSE [] OTHER -> busy

(* It returns; beforeSend may refuse the request, or change its global option.  *)
Return ==
    /\ Hearing
    /\ \/ UNCHANGED jqXHR
       \/ Doing("beforeSend") /\ jqXHR' = [jqXHR EXCEPT ![Now].refused = TRUE]
       \/ Doing("beforeSend") /\ jqXHR' = [jqXHR EXCEPT ![Now].global = ~X.global]
    /\ todo' = Tail(todo)
    /\ UNCHANGED <<active, window, oldCallbacks, nonce, antics, threw>>

(* It makes a request or aborts one, and goes on.  *)
Meddle ==
    /\ Hearing /\ antics < MostAntics
    /\ \E r \in Requests : Make(r, Tail(todo)) \/ Abort(r, Tail(todo))
    /\ antics' = antics + 1
    /\ UNCHANGED threw

(* It throws: the whole chain ends.  The try around transport.send throws it
   again, since a request whose handlers run is done already.                 *)
Throw ==
    /\ Hearing /\ antics < MostAntics
    /\ antics' = antics + 1 /\ threw' = TRUE /\ todo' = <<>>
    /\ UNCHANGED <<jqXHR, active, window, oldCallbacks, nonce>>

-----------------------------------------------------------------------------
(* What begins a chain: the page makes a request, or aborts one.  *)
Click ==
    /\ Quiet
    /\ \E r \in Requests : Make(r, <<>>) \/ (r \in Pending /\ Abort(r, <<>>))
    /\ UNCHANGED <<heard, busy, antics, threw>>

(* The timeout of a request.  *)
Timeout(r) ==
    /\ Quiet /\ jqXHR[r].timer
    /\ LET x == [jqXHR[r] EXCEPT !.timer = FALSE]
       IN /\ jqXHR' = [jqXHR EXCEPT ![r] = Aborted(x)]
          /\ todo' = AbortCalls(r, x)
    /\ UNCHANGED <<active, window, oldCallbacks, nonce, heard, busy, antics, threw>>

(* The answer to an XMLHttpRequest: the transport's callback, once.  *)
Answer(r) ==
    /\ Quiet /\ jqXHR[r].kind \in {"xhr", "local"} /\ jqXHR[r].live
    /\ LET x == [jqXHR[r] EXCEPT !.flying = FALSE, !.live = FALSE]
       IN \/ /\ jqXHR' = [jqXHR EXCEPT ![r] = Done(x)]
             /\ todo' = DataCalls(r, x)
          \/ \E outcome \in Dataless :
                /\ jqXHR' = [jqXHR EXCEPT ![r] = AfterDone(x, outcome)]
                /\ todo' = DoneCalls(r, x, outcome)
    /\ UNCHANGED <<active, window, oldCallbacks, nonce, heard, busy, antics, threw>>

(* The script of a JSONP request arrives and runs, also when the request was
   given up; onload, if it is still there, calls done.                        *)
Script(r) ==
    /\ Quiet /\ jqXHR[r].kind = "jsonp" /\ jqXHR[r].flying
    /\ \E calls \in BOOLEAN :
          LET given == Given(r, calls)
              x == [given[r] EXCEPT !.flying = FALSE, !.live = FALSE, !.called = calls]
          IN IF jqXHR[r].live
             THEN /\ jqXHR' = [given EXCEPT ![r] = Done(x)]
                  /\ todo' = DataCalls(r, x)
             ELSE jqXHR' = [given EXCEPT ![r] = x] /\ UNCHANGED todo
    /\ UNCHANGED <<active, window, oldCallbacks, nonce, heard, busy, antics, threw>>

(* A script that does not arrive: no handler is told.  *)
NoScript(r) ==
    /\ Quiet /\ jqXHR[r].kind = "jsonp" /\ jqXHR[r].flying
    /\ jqXHR' = [jqXHR EXCEPT ![r].flying = FALSE]
    /\ UNCHANGED <<todo, active, window, oldCallbacks, nonce, heard, busy, antics, threw>>

Browser == Click \/ \E r \in Requests : Timeout(r) \/ Answer(r) \/ Script(r) \/ NoScript(r)
Running == Start \/ Dispatch \/ Send \/ Convert \/ CleanUp \/ CountDown \/ Return \/ Meddle \/ Throw

Next == Running \/ Browser
Spec == Init /\ [][Next]_vars

-----------------------------------------------------------------------------
(* What a request's handlers hear of its end, all of it.  *)
Ending(r) ==
    LET x == jqXHR[r]
        good == IsSuccess(x.outcome)
        Own(event)    == IF x.installed THEN <<event>> ELSE <<>>
        Global(event) == IF x.fireGlobals THEN <<event>> ELSE <<>>
    IN Own(IF good THEN "success" ELSE "error") \o <<"statusCode">>
       \o Global(IF good THEN "ajaxSuccess" ELSE "ajaxError")
       \o Own("complete") \o Global("ajaxComplete")

(* Whatever races with what, an answer, the timeout, an abort, an exception of
   the transport, a request ends once: its handlers hear of one end, success or
   error, then the handlers of the status, the global event, complete and the
   global ajaxComplete, none of them twice, none before the end, and all of them
   before the browser goes on unless something threw.                         *)
ToldOnce ==
    \A r \in Requests :
       IF ~jqXHR[r].settled THEN heard[r] = <<>> /\ (Quiet /\ ~threw => jqXHR[r].state # 2)
       ELSE /\ IsPrefix(heard[r], Ending(r))
            /\ Quiet /\ ~threw => heard[r] = Ending(r)

(* The counter says how many requests are under way for the global events, as
   long as nothing threw: whatever requests were made or aborted within
   handlers, refused, or had their global option changed on the way, between two
   events of the browser ajaxStart was the last to be heard exactly when such a
   request is still pending.                                                  *)
CounterExact ==
    Quiet /\ ~threw =>
        /\ active = Cardinality({r \in Pending : jqXHR[r].fireGlobals})
        /\ busy <=> active > 0

(* The names of JSONP: between two events of the browser each name made so far
   is either that of one request whose deferred is not settled, whose callback
   is window[name], or free, once, with nothing under it in window; also when
   requests were aborted, before or after they were sent, and when handlers
   threw.  Such a request is pending, or a dataFilter or a converter threw in the
   midst of its done(): then the name is taken for good.                      *)
NamesReturned ==
    Quiet =>
        \A n \in 1..nonce :
           LET users == {r \in Requests : jqXHR[r].name = n /\ ~jqXHR[r].settled}
               free  == {i \in DOMAIN oldCallbacks : oldCallbacks[i] = n}
           IN /\ Cardinality(users) + Cardinality(free) = 1
              /\ window[n] = IF users = {} THEN NoOne ELSE CHOOSE r \in users : TRUE
              /\ \A r \in users : r \in Pending \/ (threw /\ (jqXHR[r].filtered \/ jqXHR[r].throws))

(* A JSONP request whose script called the callback and came to its end succeeds,
   and with what its own script gave, although names are used again while the
   scripts of requests that were given up are still on their way.             *)
OwnAnswer ==
    \A r \in Requests :
        jqXHR[r].called /\ jqXHR[r].outcome \in {"ok", "bad", "notmodified"} =>
            jqXHR[r].outcome = "ok" /\ jqXHR[r].container = r
=============================================================================
