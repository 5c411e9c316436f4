----------------------------- MODULE Deferreds -----------------------------
(***************************************************************************)
(* jQuery.Deferred, its then() and jQuery.when (jquery-1.8.0.js), built    *)
(* from lists of callbacks.  Users have some deferreds from the start; one *)
(* call of then(), which makes Child, or of when(), which makes Master, is *)
(* the bound; functions for progress are given to then() only.  What       *)
(* jQuery's own code is about to do is in `todo', a stack of calls, each   *)
(* to be made at a depth of `run'.                                         *)
(***************************************************************************)
EXTENDS Callbacks

CONSTANTS Given,    \* deferreds users hold, and may settle
          Child, Master,
          Plain,    \* an argument of when() that is no deferred; nothing
          WhenArgs, \* bound: argument lists of when(), none empty or of one deferred
          Settings  \* bound: the plain lists users have, {} for deferreds

Deferred == Given \cup {Child, Master}
Kinds == <<"done", "fail", "progress">>
Kind == Range(Kinds)
DeferredLists == Deferred \X Kind
(* The lists of a new deferred, by their options.                          *)
ListFlags(k) == IF k = "progress" THEN {"memory"} ELSE {"once", "memory"}

ASSUME DeferredsAssumption ==
  /\ Child # Master /\ {Child, Master} \cap Given = {} /\ Plain \notin Deferred
  /\ WhenArgs \subseteq Seq(Given \cup {Plain})
  /\ \A a \in WhenArgs : a # <<>> /\ (Len(a) = 1 => a[1] = Plain)
ASSUME ListsAssumption ==
  /\ DeferredLists \subseteq Lists
  /\ \A l \in DeferredLists : Flags[l] = ListFlags(l[2])
  /\ \A s \in Settings : s \subseteq Lists \ DeferredLists
ASSUME ValuesAssumption == Values # {} /\ NoValue \notin Values

VARIABLES plain,    \* the plain lists users have
          state,    \* state[d]: "pending", "resolved" or "rejected"
          todo,     \* [depth, call]: what is to be called, the next one last
          args,     \* the arguments of when(), <<>> before
          remaining, answers,  \* when()'s count, and the values it collects
          source,   \* the deferred whose then() has made Child, or Plain
          feeds,    \* the lists that are to pass their value on to Child
          given, heard,  \* given[l][f], heard[l][f]: f added to l, called by l
          threw     \* whether a callback has thrown

whenVars == <<args, remaining, answers>>
thenVars == <<source, feeds>>
heardVars == <<given, heard, threw>>
vars == <<callbackVars, plain, state, todo, whenVars, thenVars, heardVars>>

Outcome(k) == IF k = "done" THEN "resolved" ELSE "rejected"
Other(k) == IF k = "done" THEN "fail" ELSE "done"

-----------------------------------------------------------------------------
(* The first callbacks of a new deferred settle it, and shut its other     *)
(* lists.  Mutant: the list of the other outcome stays open.               *)
SettlesOnly(l) == << <<"settle", l[1], Outcome(l[2])>>, <<"lock", <<l[1], "progress">>>> >>
FirstCallbacks(l) == << <<"settle", l[1], Outcome(l[2])>>, <<"disable", <<l[1], Other(l[2])>>>>,
                        <<"lock", <<l[1], "progress">>>> >>

Init ==
  /\ plain \in Settings
  /\ cb = [l \in Lists |->
             NewList(Flags[l], IF l \in Deferred \X {"done", "fail"} THEN FirstCallbacks(l) ELSE <<>>)]
  /\ run = <<>> /\ made = 0 /\ spoilt = {}
  /\ state = [d \in Deferred |-> "pending"] /\ todo = <<>>
  /\ args = <<>> /\ remaining = 0 /\ answers = <<>>
  /\ source = Plain /\ feeds = {}
  /\ given = [l \in Deferred \X Kind |-> [f \in Fns |-> 0]] /\ heard = given /\ threw = FALSE

-----------------------------------------------------------------------------
(* jQuery's own code, call by call.                                        *)
Working == todo # <<>> /\ Last(todo).depth = Len(run)
Before(rest, calls) == rest \o [k \in DOMAIN calls |-> [depth |-> Len(run), call |-> Reverse(calls)[k]]]
Queued(calls) == Before(todo, calls)
(* add() of all lists of d, to pass what happens to it on to e.            *)
PassOn(d, e) == [k \in 1..3 |-> <<"add", <<d, Kinds[k]>>, <<"forward", <<e, Kinds[k]>>>> >>]

Work ==
  /\ Working /\ Last(todo).call[1] \in {"add", "fire"}
  /\ LET c == Last(todo).call
     IN  Becomes(IF c[1] = "add" THEN Added(Now, c[2], c[3]) ELSE FiredWith(Now, c[2], c[3]))
  /\ todo' = Front(todo)
  /\ UNCHANGED <<made, spoilt, plain, state, whenVars, thenVars, heardVars>>

Internal(l) == ~Working /\ Looping(l) /\ More(l) /\ cb[l].index < Len(cb[l].fns)
Runs(l, s) == Becomes([s EXCEPT !.cb[l].at = "wait"]) /\ UNCHANGED <<made, spoilt>>
Passes(l, s) == Becomes(Moved(s, l)) /\ UNCHANGED <<made, spoilt>>
CallSettle(l) ==
  /\ Internal(l) /\ Entry(l)[1] = "settle" /\ Passes(l, Now)
  /\ state' = [state EXCEPT ![Entry(l)[2]] = Entry(l)[3]]
  /\ UNCHANGED <<plain, todo, whenVars, thenVars, heardVars>>
CallShut(l) ==
  /\ Internal(l) /\ Entry(l)[1] \in {"disable", "lock"}
  /\ Passes(l, IF Entry(l)[1] = "lock" THEN Locked(Now, Entry(l)[2]) ELSE Disabled(Now, Entry(l)[2]))
  /\ UNCHANGED <<plain, state, todo, whenVars, thenVars, heardVars>>
(* The resolve, reject or notify of another deferred.                      *)
CallForward(l) ==
  /\ Internal(l) /\ Entry(l)[1] = "forward" /\ Runs(l, Now)
  /\ todo' = Queued(<< <<"fire", Entry(l)[2], cb[l].data>> >>)
  /\ UNCHANGED <<plain, state, whenVars, thenVars, heardVars>>

(* updateFunc of when(), as a done and as a progress callback.             *)
(* Mutant: the last answer but one is enough.                              *)
LastButOne(n) == n <= 1
NoneRemain(n) == n = 0
Answer(k, v) == << <<"fire", <<Master, k>>, v>> >>
CallUpdate(l) ==
  /\ Internal(l) /\ Entry(l)[1] = "update" /\ l[2] = "done" /\ Runs(l, Now)
  /\ answers' = [answers EXCEPT ![Entry(l)[2]] = cb[l].data]
  /\ remaining' = remaining - 1
  /\ todo' = IF NoneRemain(remaining') THEN Queued(Answer("done", cb[l].data)) ELSE todo
  /\ UNCHANGED <<plain, state, args, thenVars, heardVars>>
CallTell(l) ==
  /\ Internal(l) /\ Entry(l)[1] = "update" /\ l[2] = "progress" /\ Runs(l, Now)
  /\ todo' = Queued(Answer("progress", cb[l].data))
  /\ UNCHANGED <<plain, state, whenVars, thenVars, heardVars>>

(* Back in the loop of the list that called it.                            *)
Resume(l) ==
  /\ ~Working /\ run # <<>> /\ l = Current /\ cb[l].at = "wait" /\ Becomes(Moved(Now, l))
  /\ UNCHANGED <<made, spoilt, plain, state, todo, whenVars, thenVars, heardVars>>

-----------------------------------------------------------------------------
(* A function of the user's, given to then(), and the wrapper around it.   *)
CallThen(l) ==
  /\ Internal(l) /\ Entry(l)[1] = "then" /\ cb' = [cb EXCEPT ![l].at = "user"]
  /\ UNCHANGED <<run, made, spoilt, plain, state, todo, whenVars, thenVars, heardVars>>
InThen(l) == InUser /\ ~Working /\ l = Current /\ l \in DeferredLists /\ Entry(l)[1] = "then"
ReturnValue(l, v) ==
  /\ InThen(l) /\ Runs(l, Now)
  /\ todo' = Queued(<< <<"fire", <<Child, l[2]>>, v>> >>) /\ feeds' = feeds \cup {l}
  /\ UNCHANGED <<plain, state, whenVars, source, heardVars>>
ReturnPromise(l, d) ==
  /\ InThen(l) /\ Runs(l, Now)
  /\ todo' = Queued(PassOn(d, Child)) /\ feeds' = feeds \cup ({d} \X Kind)
  /\ UNCHANGED <<plain, state, whenVars, source, heardVars>>

(* A callback of the user's.                                               *)
CallHandler(l) ==
  /\ ~Working /\ CallUser(l)
  /\ heard' = IF l \in DeferredLists THEN [heard EXCEPT ![l][Entry(l)[2]] = @ + 1] ELSE heard
  /\ UNCHANGED <<plain, state, todo, whenVars, thenVars, given, threw>>
Loop(l) ==
  /\ ~Working
  /\ EndLoop(l) \/ CallNothing(l) \/ (~InThen(l) /\ (Return(l) \/ ReturnFalse(l)))
  /\ UNCHANGED <<plain, state, todo, whenVars, thenVars, heardVars>>
Throws == /\ ~Working /\ Throw /\ todo' = <<>> /\ threw' = TRUE
          /\ UNCHANGED <<plain, state, whenVars, thenVars, given, heard>>

-----------------------------------------------------------------------------
(* Calls by users.                                                         *)
UsePlain(l) ==
  /\ l \in plain /\ UserCall(l)
  /\ UNCHANGED <<plain, state, todo, whenVars, thenVars, heardVars>>
Users == plain = {} /\ ~Working
Handle(l, f) ==
  /\ Users /\ Add(l, f) /\ l[2] # "progress" /\ (l[1] = Child => source # Plain) /\ (l[1] = Master => args # <<>>)
  /\ given' = [given EXCEPT ![l][f] = @ + 1]
  /\ UNCHANGED <<plain, state, todo, whenVars, thenVars, heard, threw>>
Settle(l, v) ==
  /\ Users /\ Fire(l, v)
  /\ UNCHANGED <<plain, state, todo, whenVars, thenVars, heardVars>>

(* then(): a wrapper for each function given, the method of the new        *)
(* deferred itself where none is.                                          *)
Then(d, kinds) ==
  /\ Users /\ source = Plain /\ args = <<>> /\ source' = d /\ Calls(Now)
  /\ LET entry(k) == IF k \in kinds THEN <<"then", k>> ELSE <<"forward", <<Child, k>>>>
     IN  todo' = Queued([k \in 1..3 |-> <<"add", <<d, Kinds[k]>>, entry(Kinds[k])>>])
  /\ feeds' = {d} \X (Kind \ kinds)
  /\ UNCHANGED <<spoilt, plain, state, whenVars, heardVars>>

(* when(): its loop over the arguments, and what it does when none of them *)
(* is left to wait for.                                                    *)
Subordinates(a) == {i \in DOMAIN a : a[i] # Plain}
When(a) ==
  /\ Users /\ args = <<>> /\ source = Plain /\ args' = a /\ Calls(Now)
  /\ remaining' = Len(a) /\ answers' = [i \in DOMAIN a |-> NoValue]
  /\ todo' = Queued([i \in 1..(Len(a) + 1) |->
                       IF i \in DOMAIN a THEN <<"observe", i>> ELSE <<"finish">>])
  /\ UNCHANGED <<spoilt, plain, state, thenVars, heardVars>>
Observe ==
  /\ Working /\ Last(todo).call[1] = "observe"
  /\ LET i == Last(todo).call[2]
     IN  IF args[i] = Plain THEN remaining' = remaining - 1 /\ todo' = Front(todo)
         ELSE /\ todo' = Before(Front(todo),
                               << <<"add", <<args[i], "done">>, <<"update", i>> >>,
                                  <<"add", <<args[i], "fail">>, <<"forward", <<Master, "fail">>>> >>,
                                  <<"add", <<args[i], "progress">>, <<"update", i>> >> >>)
              /\ UNCHANGED remaining
  /\ UNCHANGED <<callbackVars, plain, state, args, answers, thenVars, heardVars>>
Finish ==
  /\ Working /\ Last(todo).call[1] = "finish"
  /\ todo' = Before(Front(todo),
                   IF NoneRemain(remaining) THEN Answer("done", CHOOSE v \in Values : TRUE) ELSE <<>>)
  /\ UNCHANGED <<callbackVars, plain, state, whenVars, thenVars, heardVars>>

Next ==
  \/ Work \/ Observe \/ Finish \/ Throws
  \/ \E l \in Lists : \/ Loop(l) \/ CallHandler(l) \/ UsePlain(l)
  \/ \E l \in DeferredLists :
       \/ CallSettle(l) \/ CallShut(l) \/ CallForward(l) \/ CallUpdate(l) \/ CallTell(l)
       \/ Resume(l) \/ CallThen(l)
       \/ \E v \in Values : ReturnValue(l, v) \/ (l[1] \in Given /\ Settle(l, v))
       \/ \E d \in Given : ReturnPromise(l, d)
       \/ \E f \in Fns : Handle(l, f)
  \/ \E d \in Given, kinds \in SUBSET Kind : Then(d, kinds)
  \/ \E a \in WhenArgs : When(a)
Spec == Init /\ [][Next]_vars

-----------------------------------------------------------------------------
Quiet == run = <<>> /\ ~Working /\ ~threw

(* A settled deferred has called each handler of its outcome once for each *)
(* time it was given, before, while or after the deferred was settled, and *)
(* none of the other: whatever the handlers did in between.                *)
HandlersHeard ==
  Quiet => \A d \in Deferred, k \in {"done", "fail"} :
             heard[<<d, k>>] = IF state[d] = Outcome(k) THEN given[<<d, k>>] ELSE [f \in Fns |-> 0]

(* The first outcome of a deferred, and its value, are the last.           *)
SettlesOnce ==
  [][\A d \in Deferred, k \in {"done", "fail"} :
       state[d] = Outcome(k) => /\ state'[d] = state[d]
                                /\ cb'[<<d, k>>].memory = cb[<<d, k>>].memory]_vars

WhenAnswers ==
  args # <<>> =>
    LET states == {state[args[i]] : i \in Subordinates(args)}
    IN  /\ state[Master] = IF "rejected" \in states THEN "rejected"
                           ELSE IF "pending" \in states THEN "pending" ELSE "resolved"
        /\ \A i \in Subordinates(args) :
             state[args[i]] = "resolved" => answers[i] = cb[<<args[i], "done">>].memory

ThenFollows ==
  LET fates == {Outcome(l[2]) : l \in {m \in feeds : m[2] # "progress" /\ state[m[1]] = Outcome(m[2])}}
  IN  IF fates = {} THEN state[Child] = "pending" ELSE state[Child] \in fates

(* The deferred of when() is resolved when all it waits for are, rejected  *)
(* when one of them is, and has the value of each in its place; that of    *)
(* then() has the outcome of one of those passed on to it, as soon as      *)
(* there is one.                                                           *)
Answers == Quiet => WhenAnswers /\ ThenFollows
=============================================================================
