-------------------------- MODULE DeferredsProofs --------------------------
(***************************************************************************)
(* For any deferreds, handlers, values and number of calls: a deferred     *)
(* that is settled keeps its outcome and its value, and has called the     *)
(* handlers of that outcome, once for each time each was given, and none   *)
(* of the other; the deferreds of when() and of then() have the outcome    *)
(* that those they wait for give them.                                     *)
(***************************************************************************)
EXTENDS Deferreds, FiniteSetTheorems, WellFoundedInduction, TLAPS

-----------------------------------------------------------------------------
(* What is in the lists of deferreds: the callbacks a new deferred starts  *)
(* with, and those that come later, some of them jQuery's own.             *)
Outcomes == {"done", "fail"}
Early == ({"settle"} \X Deferred \X {"resolved", "rejected"}) \cup ({"disable", "lock"} \X DeferredLists)
Own == ({"then"} \X Kind) \cup ({"forward"} \X DeferredLists) \cup ({"update"} \X Nat)
Later == ({"user"} \X Fns) \cup Own
Closures ==
  [fns : Seq(Early \cup Later), on : BOOLEAN, repeats : BOOLEAN, queue : Seq(Values),
   memory : Values \cup {NoValue}, data : Values \cup {NoValue}, fired : BOOLEAN, firing : BOOLEAN,
   index : Nat, length : Nat, at : {"idle", "loop", "user", "wait"}]
InCall(c) == c.at \in {"user", "wait"}

(* A closure, whatever list it is of.                                      *)
ClosureOK(c) ==
  /\ c \in Closures
  /\ c.firing => c.fired
  /\ c.firing <=> c.at # "idle"
  /\ c.fired => c.on /\ c.memory \in Values
  /\ ~c.fired => c.memory = NoValue
  /\ ~c.on => c.fns = <<>>
  /\ c.firing => c.data \in Values /\ c.length = Len(c.fns) /\ c.index <= c.length
  /\ InCall(c) => c.index < c.length
(* The callbacks of a new deferred come first, and go with the first       *)
(* firing; what is added after it is called and forgotten.                 *)
Begins(c) == c.fns # <<>> /\ c.fns[1] \notin Later
CallbacksOK(l, c) ==
  IF l[2] = "progress" THEN \A p \in DOMAIN c.fns : c.fns[p] \in Later
  ELSE /\ Begins(c) => /\ Len(c.fns) >= 3
                       /\ \A p \in 1..3 : c.fns[p] = FirstCallbacks(l)[p]
                       /\ \A p \in DOMAIN c.fns : p > 3 => c.fns[p] \in Later
       /\ ~Begins(c) => \A p \in DOMAIN c.fns : c.fns[p] \in Later
       /\ ~c.repeats
       /\ c.on /\ ~c.fired => Begins(c)
       /\ c.fired /\ ~c.firing => c.fns = <<>>
ListOK(l, c) == ClosureOK(c) /\ CallbacksOK(l, c)

(* How far a deferred has got: pending, or one of its lists is firing its  *)
(* first callbacks or has done with them, and the other is never to fire.  *)
Calling(c, i) == Begins(c) /\ c.firing /\ c.index = i /\ c.at = "loop"
Past(c) == Begins(c) => c.firing /\ c.index >= 2
Going(k, s, c, other) ==
  /\ c.fired /\ ~other.fired
  /\ \/ s = "pending" /\ other.on /\ Calling(c, 0)
     \/ s = Outcome(k) /\ other.on /\ Calling(c, 1)
     \/ s = Outcome(k) /\ ~other.on /\ Past(c)
Waiting(c, other) == c.on /\ ~c.fired /\ other.on /\ ~other.fired
Fate(s, c, other) ==
  \/ s = "pending" /\ Waiting(c, other)
  \/ Going("done", s, c, other)
  \/ Going("fail", s, other, c)

(* How often a list is still to call a function.                           *)
Reached(c) == IF c.firing THEN c.index + (IF InCall(c) THEN 1 ELSE 0) ELSE 0
Places(c, f) == {p \in DOMAIN c.fns : p > Reached(c) /\ c.fns[p] = User(f)}
ToHear(c, f) == Cardinality(Places(c, f))
Counted(c, wanted, got) ==
  \A f \in Fns : /\ c.on => wanted[f] = got[f] + ToHear(c, f)
                 /\ ~c.fired => got[f] = 0

-----------------------------------------------------------------------------
(* The invariant, when users have deferreds.                               *)
CbOK == cb = [l \in Lists |-> cb[l]]
ListsOK == \A l \in DeferredLists : ListOK(l, cb[l])
StateOK == state \in [Deferred -> {"pending", "resolved", "rejected"}]
FatesOK == \A d \in Deferred : Fate(state[d], cb[<<d, "done">>], cb[<<d, "fail">>])
RunOK ==
  /\ run \in Seq(DeferredLists)
  /\ \A i \in DOMAIN run : cb[run[i]].firing
  /\ \A i, j \in DOMAIN run : run[i] = run[j] => i = j
  /\ \A l \in DeferredLists : cb[l].at = "loop" => run # <<>> /\ l = Current
  /\ ~threw => \A l \in DeferredLists : cb[l].firing => \E i \in DOMAIN run : run[i] = l
CallsOf(a) == ({"add"} \X DeferredLists \X Own) \cup ({"fire"} \X DeferredLists \X Values)
              \cup ({"observe"} \X DOMAIN a) \cup {<<"finish">>}
(* The calls jQuery's code is about to make fit a stack r of calls of      *)
(* fire(), where C are the closures and a the arguments of when().         *)
Fits(calls, r, C, a) ==
  /\ calls \in Seq([depth : Nat, call : CallsOf(a)])
  /\ \A i \in DOMAIN calls : /\ calls[i].depth <= Len(r)
                             /\ calls[i].depth > 0 => InCall(C[r[calls[i].depth]])
  /\ \A i, j \in DOMAIN calls : i <= j => calls[i].depth <= calls[j].depth
TodoOK == args \in Seq(Given \cup {Plain}) /\ Fits(todo, run, cb, args)
HeardOK ==
  /\ given \in [Deferred \X Kind -> [Fns -> Nat]]
  /\ heard \in [Deferred \X Kind -> [Fns -> Nat]]
  /\ threw \in BOOLEAN
  /\ ~threw => \A l \in Deferred \X Outcomes : Counted(cb[l], given[l], heard[l])
Inv == CbOK /\ ListsOK /\ StateOK /\ FatesOK /\ RunOK /\ TodoOK /\ HeardOK
(* When they have plain lists, nothing is done with the deferreds.         *)
Untouched ==
  /\ run \in Seq(plain)
  /\ todo = <<>>
  /\ state = [d \in Deferred |-> "pending"]
  /\ given = heard /\ \A l \in Deferred \X Kind : heard[l] = [f \in Fns |-> 0]
IInv == IF plain = {} THEN Inv ELSE Untouched /\ plain \subseteq Lists \ DeferredLists

(* What a step keeps: the value of a list that has fired.                  *)
ValuesKept == \A l \in Deferred \X Outcomes :
                cb[l].fired => cb'[l].fired /\ cb'[l].memory = cb[l].memory
OutcomesKept == \A d \in Deferred : state[d] # "pending" => state'[d] = state[d]

-----------------------------------------------------------------------------
(* What the methods and the loop make of the closure of a list of a        *)
(* deferred.                                                               *)
With(c, e) == [c EXCEPT !.fns = Append(@, e)]
Longer(c, e) == [With(c, e) EXCEPT !.length = Len(With(c, e).fns)]
Begun(c, v, from) ==
  [c EXCEPT !.memory = v, !.data = v, !.fired = TRUE, !.firing = TRUE, !.index = from,
            !.length = Len(c.fns), !.at = "loop"]
Stands(c, where) == [c EXCEPT !.at = where]
Stepped(c) == [c EXCEPT !.index = @ + 1, !.at = "loop"]
Off(c) == [c EXCEPT !.fns = <<>>, !.on = FALSE, !.repeats = FALSE, !.queue = <<>>, !.memory = NoValue]
Kept(c) == [c EXCEPT !.repeats = FALSE, !.queue = <<>>]
Over(c) == [c EXCEPT !.firing = FALSE, !.at = "idle"]

(* Changes of one of its lists that leave a deferred where it has got to.  *)
Steady(c, new) ==
  /\ new.on = c.on /\ new.fired = c.fired /\ (c.fired => new.memory = c.memory)
  /\ \A i \in {0, 1} : Calling(c, i) => Calling(new, i)
  /\ Past(c) => Past(new)
Keeps == ValuesKept /\ OutcomesKept

-----------------------------------------------------------------------------
(* Entries of the lists.                                                   *)
LEMMA KindIs == Kind = {"done", "fail", "progress"}
<1>1. DOMAIN Kinds = 1..3 /\ Kinds[1] = "done" /\ Kinds[2] = "fail" /\ Kinds[3] = "progress"
  BY DEF Kinds
<1>2. Range(Kinds) = {Kinds[1], Kinds[2], Kinds[3]}
  <2>1. \A i \in 1..3 : i = 1 \/ i = 2 \/ i = 3
    OBVIOUS
  <2>2. 1 \in 1..3 /\ 2 \in 1..3 /\ 3 \in 1..3
    OBVIOUS
  <2>. QED BY <1>1, <2>1, <2>2, Zenon DEF Range
<1>. QED BY <1>1, <1>2 DEF Kind

LEMMA ListsOfDeferred ==
  ASSUME NEW l \in DeferredLists
  PROVE  /\ l = <<l[1], l[2]>> /\ l[1] \in Deferred /\ l[2] \in Kind
         /\ l[2] # "progress" <=> l \in Deferred \X Outcomes
         /\ l[2] # "progress" => l[2] \in Outcomes
BY KindIs DEF DeferredLists, Outcomes

LEMMA LaterIs ==
  ASSUME NEW e \in Later
  PROVE  e[1] \notin {"settle", "disable", "lock"} /\ e \notin Early
BY DEF Later, Own, Early

LEMMA FirstAre ==
  ASSUME NEW l \in Deferred \X Outcomes
  PROVE  /\ FirstCallbacks(l) \in Seq(Early) /\ Len(FirstCallbacks(l)) = 3
         /\ FirstCallbacks(l)[1] = <<"settle", l[1], Outcome(l[2])>>
         /\ FirstCallbacks(l)[2] = <<"disable", <<l[1], Other(l[2])>>>>
         /\ FirstCallbacks(l)[3] = <<"lock", <<l[1], "progress">>>>
         /\ \A p \in 1..3 : FirstCallbacks(l)[p] \in Early
<1>1. <<l[1], Other(l[2])>> \in DeferredLists /\ <<l[1], "progress">> \in DeferredLists
  BY KindIs DEF DeferredLists, Outcomes, Other
<1>2. Outcome(l[2]) \in {"resolved", "rejected"} /\ l[1] \in Deferred
  BY DEF Outcome
<1>3. /\ <<"settle", l[1], Outcome(l[2])>> \in Early
      /\ <<"disable", <<l[1], Other(l[2])>>>> \in Early
      /\ <<"lock", <<l[1], "progress">>>> \in Early
  BY <1>1, <1>2 DEF Early
<1>. QED BY <1>3 DEF FirstCallbacks

LEMMA EntriesAre ==
  ASSUME NEW l \in DeferredLists, NEW c, ListOK(l, c), NEW p \in DOMAIN c.fns
  PROVE  LET e == c.fns[p]
         IN  /\ e[1] = "settle" => l[2] # "progress" /\ p = 1 /\ e = <<"settle", l[1], Outcome(l[2])>>
             /\ e[1] = "disable" =>
                  l[2] # "progress" /\ p = 2 /\ e = <<"disable", <<l[1], Other(l[2])>>>>
             /\ e[1] = "lock" => l[2] # "progress" /\ p = 3 /\ e = <<"lock", <<l[1], "progress">>>>
             /\ e[1] \in {"settle", "disable", "lock"} => Begins(c)
             /\ e[1] \notin {"settle", "disable", "lock"} => e \in Later
             /\ e \in Later /\ l[2] # "progress" /\ Begins(c) => p > 3
<1>1. c.fns \in Seq(Early \cup Later)
  BY DEF ListOK, ClosureOK, Closures
<1>2. p \in 1..Len(c.fns) /\ p \in Int
  BY <1>1
<1>3. CASE l[2] = "progress"
  BY <1>3, LaterIs DEF ListOK, CallbacksOK
<1>4. CASE l[2] # "progress" /\ ~Begins(c)
  BY <1>4, LaterIs DEF ListOK, CallbacksOK
<1>5. CASE l[2] # "progress" /\ Begins(c)
  <2>1. l \in Deferred \X Outcomes
    BY <1>5, ListsOfDeferred
  <2>2. /\ p > 3 => c.fns[p] \in Later
        /\ p \in 1..3 => c.fns[p] = FirstCallbacks(l)[p]
    BY <1>5 DEF ListOK, CallbacksOK
  <2>3. CASE p > 3
    BY <2>2, <2>3, LaterIs, <1>5
  <2>4. CASE p \in 1..3
    <3>1. c.fns[p] = FirstCallbacks(l)[p] /\ c.fns[p] \notin Later
      BY <2>1, <2>2, <2>4, FirstAre, LaterIs
    <3>2. p = 1 \/ p = 2 \/ p = 3
      BY <2>4
    <3>. QED BY <2>1, <3>1, <3>2, FirstAre, <1>5
  <2>. QED BY <1>2, <2>3, <2>4
<1>. QED BY <1>3, <1>4, <1>5

-----------------------------------------------------------------------------
(* The methods keep the closures of lists in order.                        *)
LEMMA StandsOK ==
  ASSUME NEW l \in DeferredLists, NEW c, ListOK(l, c), c.firing, c.index < Len(c.fns),
         InCall(c) \/ c.fns[c.index + 1] \in Later, NEW where \in {"user", "wait"}
  PROVE  ListOK(l, Stands(c, where)) /\ (l[2] # "progress" => Steady(c, Stands(c, where)))
<1>. DEFINE new == Stands(c, where)
<1>1. c \in Closures /\ c.fns \in Seq(Early \cup Later) /\ c.index \in Nat
  BY DEF ListOK, ClosureOK, Closures
<1>2. /\ new \in Closures /\ new.at = where
      /\ new.fns = c.fns /\ new.on = c.on /\ new.repeats = c.repeats /\ new.queue = c.queue
      /\ new.memory = c.memory /\ new.data = c.data /\ new.fired = c.fired
      /\ new.firing = c.firing /\ new.index = c.index /\ new.length = c.length
  BY <1>1 DEF Closures, Stands
<1>. HIDE DEF new
<1>3. ClosureOK(new)
  BY <1>1, <1>2 DEF ListOK, ClosureOK, InCall
<1>4. CallbacksOK(l, new)
  BY <1>2 DEF ListOK, CallbacksOK, Begins
<1>5. ASSUME l[2] # "progress" PROVE Steady(c, new)
  <2>1. c.index + 1 \in DOMAIN c.fns
    BY <1>1
  <2>2. ASSUME Begins(c), ~InCall(c) PROVE c.index + 1 > 3
    BY <1>5, <2>1, <2>2, EntriesAre
  <2>. QED BY <1>1, <1>2, <2>2 DEF Steady, Calling, Past, Begins, InCall
<1>. QED BY <1>3, <1>4, <1>5 DEF ListOK, new

LEMMA SteppedOK ==
  ASSUME NEW l \in DeferredLists, NEW c, ListOK(l, c), c.firing, c.index < Len(c.fns)
  PROVE  /\ ListOK(l, Stepped(c))
         /\ l[2] # "progress" /\ (InCall(c) \/ c.index >= 2) => Steady(c, Stepped(c))
<1>. DEFINE new == Stepped(c)
<1>1. c \in Closures /\ c.fns \in Seq(Early \cup Later) /\ c.index \in Nat
  BY DEF ListOK, ClosureOK, Closures
<1>2. /\ new \in Closures /\ new.at = "loop"
      /\ new.fns = c.fns /\ new.on = c.on /\ new.repeats = c.repeats /\ new.queue = c.queue
      /\ new.memory = c.memory /\ new.data = c.data /\ new.fired = c.fired
      /\ new.firing = c.firing /\ new.index = c.index + 1 /\ new.length = c.length
  <2>1. PICK i : i = c.index + 1
    OBVIOUS
  <2>2. i \in Nat /\ new = [c EXCEPT !.index = i, !.at = "loop"]
    BY <1>1, <2>1 DEF Stepped
  <2>. QED BY <1>1, <2>1, <2>2 DEF Closures
<1>. HIDE DEF new
<1>3. ClosureOK(new)
  BY <1>1, <1>2 DEF ListOK, ClosureOK, InCall
<1>4. CallbacksOK(l, new)
  BY <1>2 DEF ListOK, CallbacksOK, Begins
<1>5. ASSUME InCall(c) \/ c.index >= 2 PROVE Steady(c, new)
  BY <1>1, <1>2, <1>5 DEF Steady, Calling, Past, Begins, InCall
<1>. QED BY <1>3, <1>4, <1>5 DEF ListOK, new

LEMMA LongerOK ==
  ASSUME NEW l \in DeferredLists, NEW c, ListOK(l, c), c.on, NEW e \in Later
  PROVE  /\ c.firing => ListOK(l, Longer(c, e)) /\ Steady(c, Longer(c, e))
         /\ ~c.firing /\ ~c.fired => ListOK(l, With(c, e)) /\ Steady(c, With(c, e))
         /\ ~c.firing /\ c.fired =>
              /\ ListOK(l, Begun(With(c, e), c.memory, Len(c.fns)))
              /\ l[2] # "progress" => /\ Steady(c, Begun(With(c, e), c.memory, Len(c.fns)))
                                      /\ c.fns = <<>>
<1>1. c \in Closures /\ c.fns \in Seq(Early \cup Later) /\ c.index \in Nat /\ e \in Early \cup Later
  BY DEF ListOK, ClosureOK, Closures
<1>2. PICK fns : fns = Append(c.fns, e)
  OBVIOUS
<1>3. /\ fns \in Seq(Early \cup Later) /\ Len(fns) = Len(c.fns) + 1 /\ Len(c.fns) \in Nat
      /\ \A p \in DOMAIN c.fns : fns[p] = c.fns[p] /\ p \in DOMAIN fns
      /\ \A p \in DOMAIN fns : p \in DOMAIN c.fns \/ (p = Len(c.fns) + 1 /\ fns[p] = e)
      /\ fns # <<>> /\ fns[1] = IF c.fns = <<>> THEN e ELSE c.fns[1]
  BY <1>1, <1>2
<1>c. c \in Closures
  BY <1>1
<1>f. fns \in Seq(Early \cup Later)
  BY <1>3
<1>4. ASSUME NEW new \in Closures, new.fns = fns, new.repeats = c.repeats, new.on = c.on,
             new.fired <=> c.fired, new.fired => new.firing
      PROVE  CallbacksOK(l, new) /\ (Begins(new) <=> Begins(c))
  <2>1. Begins(new) <=> Begins(c)
    BY <1>3, <1>4 DEF Begins
  <2>2. CASE l[2] = "progress"
    BY <1>3, <1>4, <2>1, <2>2 DEF ListOK, CallbacksOK
  <2>3. CASE l[2] # "progress"
    <3>1. ASSUME Begins(c)
          PROVE  /\ Len(fns) >= 3 /\ \A p \in 1..3 : fns[p] = FirstCallbacks(l)[p]
                 /\ \A p \in DOMAIN fns : p > 3 => fns[p] \in Later
      BY <1>1, <1>3, <2>3, <3>1 DEF ListOK, CallbacksOK
    <3>2. ASSUME ~Begins(c) PROVE \A p \in DOMAIN fns : fns[p] \in Later
      BY <1>3, <2>3, <3>2 DEF ListOK, CallbacksOK
    <3>3. ~c.repeats /\ (c.on /\ ~c.fired => Begins(c)) /\ (c.fired /\ ~c.firing => c.fns = <<>>)
      BY <2>3 DEF ListOK, CallbacksOK
    <3>. QED BY <1>4, <2>1, <2>3, <3>1, <3>2, <3>3 DEF CallbacksOK
  <2>. QED BY <2>1, <2>2, <2>3
<1>5. ASSUME c.firing PROVE ListOK(l, Longer(c, e)) /\ Steady(c, Longer(c, e))
  <2>1. PICK n : n = Len(c.fns) + 1
    OBVIOUS
  <2>. DEFINE new == Longer(c, e)
  <2>2. n \in Nat /\ new = [c EXCEPT !.fns = fns, !.length = n]
    BY <1>1, <1>2, <1>3, <2>1 DEF Longer, With, Closures
  <2>3. /\ new \in Closures /\ new.at = c.at
        /\ new.fns = fns /\ new.on = c.on /\ new.repeats = c.repeats /\ new.queue = c.queue
        /\ new.memory = c.memory /\ new.data = c.data /\ new.fired = c.fired
        /\ new.firing = c.firing /\ new.index = c.index /\ new.length = n
    BY <1>c, <1>f, <2>2 DEF Closures
  <2>. HIDE DEF new
  <2>4. c.fired
    BY <1>5 DEF ListOK, ClosureOK
  <2>5. CallbacksOK(l, new) /\ (Begins(new) <=> Begins(c))
    BY <1>4, <1>5, <2>3, <2>4
  <2>6. ClosureOK(new)
    BY <1>1, <1>3, <1>5, <2>1, <2>3 DEF ListOK, ClosureOK, InCall
  <2>7. Steady(c, new)
    BY <2>3, <2>5 DEF Steady, Calling, Past
  <2>. QED BY <2>5, <2>6, <2>7 DEF ListOK, new
<1>6. ASSUME ~c.firing, ~c.fired PROVE ListOK(l, With(c, e)) /\ Steady(c, With(c, e))
  <2>. DEFINE new == With(c, e)
  <2>2. new = [c EXCEPT !.fns = fns]
    BY <1>2 DEF With
  <2>3. /\ new \in Closures /\ new.at = c.at
        /\ new.fns = fns /\ new.on = c.on /\ new.repeats = c.repeats /\ new.queue = c.queue
        /\ new.memory = c.memory /\ new.data = c.data /\ new.fired = c.fired
        /\ new.firing = c.firing /\ new.index = c.index /\ new.length = c.length
    BY <1>c, <1>f, <2>2 DEF Closures
  <2>. HIDE DEF new
  <2>5. CallbacksOK(l, new) /\ (Begins(new) <=> Begins(c))
    BY <1>4, <1>6, <2>3
  <2>6. ClosureOK(new)
    BY <1>6, <2>3 DEF ListOK, ClosureOK, InCall
  <2>7. Steady(c, new)
    BY <2>3, <2>5 DEF Steady, Calling, Past
  <2>. QED BY <2>5, <2>6, <2>7 DEF ListOK, new
<1>7. ASSUME ~c.firing, c.fired
      PROVE  /\ ListOK(l, Begun(With(c, e), c.memory, Len(c.fns)))
             /\ l[2] # "progress" => /\ Steady(c, Begun(With(c, e), c.memory, Len(c.fns)))
                                     /\ c.fns = <<>>
  <2>1. PICK m, n : m = Len(c.fns) /\ n = m + 1
    OBVIOUS
  <2>. DEFINE new == Begun(With(c, e), c.memory, m)
  <2>2. c.memory \in Values
    BY <1>7 DEF ListOK, ClosureOK
  <2>3. /\ m \in Nat /\ n \in Nat
        /\ new = [c EXCEPT !.fns = fns, !.memory = c.memory, !.data = c.memory, !.fired = TRUE,
                           !.firing = TRUE, !.index = m, !.length = n, !.at = "loop"]
    BY <1>1, <1>2, <1>3, <2>1 DEF Begun, With, Closures
  <2>4. /\ new \in Closures /\ new.at = "loop"
        /\ new.fns = fns /\ new.on = c.on /\ new.repeats = c.repeats /\ new.queue = c.queue
        /\ new.memory = c.memory /\ new.data = c.memory /\ new.fired
        /\ new.firing /\ new.index = m /\ new.length = n
    BY <1>c, <1>f, <2>2, <2>3, Zenon DEF Closures
  <2>. HIDE DEF new
  <2>5. CallbacksOK(l, new) /\ (Begins(new) <=> Begins(c))
    BY <1>4, <1>7, <2>4
  <2>6. ClosureOK(new)
    BY <1>3, <1>7, <2>1, <2>2, <2>3, <2>4 DEF ListOK, ClosureOK, InCall
  <2>7. ASSUME l[2] # "progress" PROVE Steady(c, new) /\ c.fns = <<>>
    <3>1. c.fns = <<>>
      BY <1>7, <2>7 DEF ListOK, CallbacksOK
    <3>. QED BY <1>7, <2>4, <2>5, <3>1 DEF Steady, Calling, Past, Begins
  <2>. QED BY <2>1, <2>5, <2>6, <2>7 DEF ListOK, new
<1>. QED BY <1>5, <1>6, <1>7

LEMMA BegunOK ==
  ASSUME NEW l \in DeferredLists, NEW c, ListOK(l, c), c.on, ~c.firing, NEW v \in Values,
         l[2] # "progress" => ~c.fired
  PROVE  /\ ListOK(l, Begun(c, v, 0))
         /\ l[2] # "progress" => Calling(Begun(c, v, 0), 0)
<1>. DEFINE new == Begun(c, v, 0)
<1>1. c \in Closures /\ c.fns \in Seq(Early \cup Later) /\ 0 \in Nat
  BY DEF ListOK, ClosureOK, Closures
<1>2. PICK n : n = Len(c.fns) /\ n \in Nat
  BY <1>1
<1>3. new = [c EXCEPT !.memory = v, !.data = v, !.fired = TRUE, !.firing = TRUE, !.index = 0,
                      !.length = n, !.at = "loop"]
  BY <1>2 DEF Begun
<1>4. /\ new \in Closures /\ new.at = "loop"
      /\ new.fns = c.fns /\ new.on = c.on /\ new.repeats = c.repeats /\ new.queue = c.queue
      /\ new.memory = v /\ new.data = v /\ new.fired
      /\ new.firing /\ new.index = 0 /\ new.length = n
  BY <1>1, <1>2, <1>3, Zenon DEF Closures
<1>. HIDE DEF new
<1>5. ClosureOK(new)
  BY <1>2, <1>4 DEF ClosureOK, InCall
<1>6. CallbacksOK(l, new)
  BY <1>4 DEF ListOK, CallbacksOK, Begins
<1>7. l[2] # "progress" => Calling(new, 0)
  BY <1>4 DEF ListOK, CallbacksOK, Begins, Calling
<1>. QED BY <1>5, <1>6, <1>7 DEF ListOK, new

LEMMA QueueOK ==
  ASSUME NEW l \in DeferredLists, NEW c, ListOK(l, c), NEW q \in Seq(Values)
  PROVE  ListOK(l, [c EXCEPT !.queue = q])
<1>1. PICK new : new = [c EXCEPT !.queue = q]
  OBVIOUS
<1>2. c \in Closures
  BY DEF ListOK, ClosureOK
<1>3. /\ new \in Closures /\ new.at = c.at
      /\ new.fns = c.fns /\ new.on = c.on /\ new.repeats = c.repeats /\ new.queue = q
      /\ new.memory = c.memory /\ new.data = c.data /\ new.fired = c.fired
      /\ new.firing = c.firing /\ new.index = c.index /\ new.length = c.length
  BY <1>1, <1>2 DEF Closures
<1>4. ClosureOK(new)
  BY <1>3 DEF ListOK, ClosureOK, InCall
<1>5. CallbacksOK(l, new)
  BY <1>3 DEF ListOK, CallbacksOK, Begins
<1>. QED BY <1>1, <1>4, <1>5 DEF ListOK

LEMMA OffOK ==
  ASSUME NEW l \in DeferredLists, NEW c, ListOK(l, c), ~c.fired
  PROVE  ListOK(l, Off(c)) /\ ~Off(c).on /\ ~Off(c).fired /\ ~c.firing /\ ~Off(c).firing /\ Off(c).fns = <<>>
         /\ Off(c).at = c.at
<1>. DEFINE new == Off(c)
<1>1. c \in Closures /\ <<>> \in Seq(Early \cup Later) /\ <<>> \in Seq(Values)
  BY DEF ListOK, ClosureOK
<1>2. /\ new \in Closures /\ new.at = c.at
      /\ new.fns = <<>> /\ ~new.on /\ ~new.repeats /\ new.queue = <<>>
      /\ new.memory = NoValue /\ new.data = c.data /\ new.fired = c.fired
      /\ new.firing = c.firing /\ new.index = c.index /\ new.length = c.length
  BY <1>1 DEF Closures, Off
<1>. HIDE DEF new
<1>3. ~c.firing
  BY DEF ListOK, ClosureOK
<1>4. ClosureOK(new)
  BY <1>2, <1>3 DEF ListOK, ClosureOK, InCall
<1>5. CallbacksOK(l, new)
  BY <1>2 DEF CallbacksOK, Begins
<1>. QED BY <1>2, <1>3, <1>4, <1>5 DEF ListOK, new

LEMMA KeptOK ==
  ASSUME NEW l \in DeferredLists, NEW c, ListOK(l, c)
  PROVE  ListOK(l, Kept(c)) /\ Kept(c).firing = c.firing /\ Kept(c).at = c.at
<1>. DEFINE new == Kept(c)
<1>1. c \in Closures /\ <<>> \in Seq(Values)
  BY DEF ListOK, ClosureOK
<1>2. /\ new \in Closures /\ new.at = c.at
      /\ new.fns = c.fns /\ new.on = c.on /\ ~new.repeats /\ new.queue = <<>>
      /\ new.memory = c.memory /\ new.data = c.data /\ new.fired = c.fired
      /\ new.firing = c.firing /\ new.index = c.index /\ new.length = c.length
  BY <1>1 DEF Closures, Kept
<1>. HIDE DEF new
<1>4. ClosureOK(new)
  BY <1>2 DEF ListOK, ClosureOK, InCall
<1>5. CallbacksOK(l, new)
  BY <1>2 DEF ListOK, CallbacksOK, Begins
<1>. QED BY <1>2, <1>4, <1>5 DEF ListOK, new

LEMMA OverOK ==
  ASSUME NEW l \in DeferredLists, NEW c, ListOK(l, c), c.firing, c.index = Len(c.fns)
  PROVE  /\ l[2] = "progress" => ListOK(l, Over(c))
         /\ ListOK(l, [Over(c) EXCEPT !.fns = <<>>])
         /\ l[2] # "progress" => Steady(c, [Over(c) EXCEPT !.fns = <<>>])
<1>. DEFINE new == Over(c)
            none == [Over(c) EXCEPT !.fns = <<>>]
<1>1. c \in Closures /\ <<>> \in Seq(Early \cup Later)
  BY DEF ListOK, ClosureOK
<1>2. /\ new \in Closures /\ new.at = "idle"
      /\ new.fns = c.fns /\ new.on = c.on /\ new.repeats = c.repeats /\ new.queue = c.queue
      /\ new.memory = c.memory /\ new.data = c.data /\ new.fired = c.fired
      /\ ~new.firing /\ new.index = c.index /\ new.length = c.length
  BY <1>1 DEF Closures, Over
<1>3. none = [new EXCEPT !.fns = <<>>]
  OBVIOUS
<1>. HIDE DEF new
<1>4. /\ none \in Closures /\ none.at = new.at
      /\ none.fns = <<>> /\ none.on = new.on /\ none.repeats = new.repeats /\ none.queue = new.queue
      /\ none.memory = new.memory /\ none.data = new.data /\ none.fired = new.fired
      /\ none.firing = new.firing /\ none.index = new.index /\ none.length = new.length
  <2>1. new \in Closures
    BY <1>2
  <2>. QED BY <1>1, <1>3, <2>1 DEF Closures
<1>. HIDE DEF none
<1>5. c.fired
  BY DEF ListOK, ClosureOK
<1>6. ClosureOK(new) /\ ClosureOK(none)
  BY <1>2, <1>4, <1>5 DEF ListOK, ClosureOK, InCall
<1>7. l[2] = "progress" => CallbacksOK(l, new)
  BY <1>2 DEF ListOK, CallbacksOK, Begins
<1>8. CallbacksOK(l, none)
  BY <1>2, <1>4, <1>5 DEF ListOK, CallbacksOK, Begins
<1>9. ASSUME l[2] # "progress" PROVE Steady(c, none)
  <2>1. Begins(c) => c.index >= 3
    BY <1>9 DEF ListOK, CallbacksOK
  <2>2. ~Begins(none)
    BY <1>4 DEF Begins
  <2>3. \A i \in {0, 1} : ~Calling(c, i)
    BY <2>1 DEF Calling
  <2>4. none.on = c.on /\ none.fired = c.fired /\ none.memory = c.memory
    BY <1>2, <1>4, Zenon
  <2>. QED BY <2>2, <2>3, <2>4, Zenon DEF Steady, Past
<1>. QED BY <1>6, <1>7, <1>8, <1>9 DEF ListOK, new, none

-----------------------------------------------------------------------------
(* How often a function is still to be called.                             *)
LEMMA PlacesFinite ==
  ASSUME NEW c \in Closures, NEW f
  PROVE  IsFiniteSet(Places(c, f)) /\ ToHear(c, f) \in Nat
<1>1. c.fns \in Seq(Early \cup Later)
  BY DEF Closures
<1>2. PICK n \in Nat : n = Len(c.fns) /\ DOMAIN c.fns = 1..n
  BY <1>1
<1>3. IsFiniteSet(1..n)
  BY <1>2, FS_Interval
<1>4. Places(c, f) \subseteq 1..n
  BY <1>2 DEF Places
<1>. QED BY <1>3, <1>4, FS_Subset, FS_CardinalityType DEF ToHear

LEMMA HearSame ==
  ASSUME NEW c, NEW new, new.fns = c.fns, Reached(new) = Reached(c), NEW f
  PROVE  ToHear(new, f) = ToHear(c, f)
BY DEF ToHear, Places

LEMMA HearNone ==
  ASSUME NEW c \in Closures, Reached(c) >= Len(c.fns), NEW f
  PROVE  ToHear(c, f) = 0
<1>1. c.fns \in Seq(Early \cup Later)
  BY DEF Closures
<1>2. Reached(c) \in Int
  BY DEF Reached, Closures
<1>3. Places(c, f) = {}
  BY <1>1, <1>2 DEF Places
<1>4. Cardinality({}) = 0
  BY FS_EmptySet
<1>. QED BY <1>3, <1>4 DEF ToHear

LEMMA HearLonger ==
  ASSUME NEW c \in Closures, NEW new \in Closures, NEW e,
         new.fns = Append(c.fns, e), Reached(new) = Reached(c), Reached(c) <= Len(c.fns), NEW f
  PROVE  ToHear(new, f) = ToHear(c, f) + IF e = User(f) THEN 1 ELSE 0
<1>1. c.fns \in Seq(Early \cup Later) /\ Reached(c) \in Int
  BY DEF Closures, Reached
<1>2. PICK n \in Nat : n = Len(c.fns) /\ DOMAIN c.fns = 1..n
  BY <1>1
<1>3. PICK m : m = n + 1
  OBVIOUS
<1>4. DOMAIN new.fns = 1..m /\ new.fns[m] = e /\ \A p \in 1..n : new.fns[p] = c.fns[p]
  BY <1>1, <1>2, <1>3
<1>5. m \notin Places(c, f)
  BY <1>2, <1>3 DEF Places
<1>6. CASE e = User(f)
  <2>1. Places(new, f) = Places(c, f) \cup {m}
    BY <1>1, <1>2, <1>3, <1>4, <1>6 DEF Places
  <2>2. Cardinality(Places(c, f) \cup {m}) = Cardinality(Places(c, f)) + 1
    BY <1>5, PlacesFinite, FS_AddElement
  <2>. QED BY <1>6, <2>1, <2>2 DEF ToHear
<1>7. CASE e # User(f)
  <2>1. Places(new, f) = Places(c, f)
    BY <1>1, <1>2, <1>3, <1>4, <1>7 DEF Places
  <2>. QED BY <1>7, <2>1, PlacesFinite DEF ToHear
<1>. QED BY <1>6, <1>7

LEMMA HearCalled ==
  ASSUME NEW c \in Closures, NEW new \in Closures, new.fns = c.fns, Reached(c) < Len(c.fns),
         Reached(new) = Reached(c) + 1, NEW f
  PROVE  ToHear(c, f) = ToHear(new, f) + IF c.fns[Reached(c) + 1] = User(f) THEN 1 ELSE 0
<1>1. c.fns \in Seq(Early \cup Later) /\ Reached(c) \in Nat
  BY DEF Closures, Reached
<1>2. PICK n \in Nat : n = Len(c.fns) /\ DOMAIN c.fns = 1..n
  BY <1>1
<1>3. PICK m : m = Reached(c) + 1
  OBVIOUS
<1>4. m \in 1..n
  BY <1>1, <1>2, <1>3
<1>5. m \notin Places(new, f)
  BY <1>3, <1>1 DEF Places
<1>6. CASE c.fns[m] = User(f)
  <2>1. Places(c, f) = Places(new, f) \cup {m}
    BY <1>1, <1>2, <1>3, <1>4, <1>6 DEF Places
  <2>2. Cardinality(Places(new, f) \cup {m}) = Cardinality(Places(new, f)) + 1
    BY <1>5, PlacesFinite, FS_AddElement
  <2>. QED BY <1>3, <1>6, <2>1, <2>2 DEF ToHear
<1>7. CASE c.fns[m] # User(f)
  <2>1. Places(c, f) = Places(new, f)
    BY <1>1, <1>2, <1>3, <1>4, <1>7 DEF Places
  <2>. QED BY <1>3, <1>7, <2>1, PlacesFinite DEF ToHear
<1>. QED BY <1>6, <1>7

LEMMA ReachedIs ==
  ASSUME NEW l \in DeferredLists, NEW c, ListOK(l, c)
  PROVE  /\ c \in Closures /\ Reached(c) \in Nat /\ Reached(c) <= Len(c.fns)
         /\ c.firing /\ c.at = "loop" => Reached(c) = c.index
         /\ c.firing /\ InCall(c) => Reached(c) = c.index + 1
         /\ ~c.firing => Reached(c) = 0
<1>1. c \in Closures /\ c.index \in Nat /\ c.fns \in Seq(Early \cup Later)
  BY DEF ListOK, ClosureOK, Closures
<1>2. Len(c.fns) \in Nat
  BY <1>1
<1>. QED BY <1>1, <1>2 DEF ListOK, ClosureOK, Reached, InCall

-----------------------------------------------------------------------------
(* What a change of one list does to each part of the invariant.           *)
LEMMA ListChanged ==
  ASSUME CbOK, ListsOK, NEW l \in DeferredLists, NEW c, ListOK(l, c), cb' = [cb EXCEPT ![l] = c]
  PROVE  /\ CbOK' /\ ListsOK'
         /\ cb'[l] = c /\ \A m \in Lists : m # l => cb'[m] = cb[m]
         /\ \A m \in DeferredLists : m # l => cb'[m] = cb[m]
<1>1. l \in Lists /\ DeferredLists \subseteq Lists
  BY ListsAssumption
<1>2. cb'[l] = c /\ \A m \in Lists : m # l => cb'[m] = cb[m]
  BY <1>1 DEF CbOK
<1>3. CbOK'
  BY <1>1 DEF CbOK
<1>4. ListsOK'
  BY <1>1, <1>2 DEF ListsOK
<1>. QED BY <1>1, <1>2, <1>3, <1>4

LEMMA FateSteady ==
  ASSUME NEW s, NEW c, NEW other, NEW new, Fate(s, c, other)
  PROVE  /\ Steady(c, new) => Fate(s, new, other)
         /\ Steady(other, new) => Fate(s, c, new)
BY DEF Fate, Steady, Going, Waiting

LEMMA FatesSteady ==
  ASSUME CbOK, ListsOK, FatesOK, NEW l \in DeferredLists, NEW c, ListOK(l, c),
         cb' = [cb EXCEPT ![l] = c], state' = state, l[2] # "progress" => Steady(cb[l], c)
  PROVE  FatesOK' /\ ValuesKept /\ OutcomesKept
<1>1. /\ cb'[l] = c
      /\ \A m \in DeferredLists : m # l => cb'[m] = cb[m]
  BY ListChanged
<1>2. /\ l = <<l[1], l[2]>>
      /\ l[2] \in {"done", "fail", "progress"}
  BY ListsOfDeferred, KindIs
<1>3. FatesOK'
  <2>1. SUFFICES ASSUME NEW d \in Deferred
                 PROVE  Fate(state[d], cb'[<<d, "done">>], cb'[<<d, "fail">>])
    BY DEF FatesOK
  <2>2. Fate(state[d], cb[<<d, "done">>], cb[<<d, "fail">>])
    BY DEF FatesOK
  <2>3. <<d, "done">> \in DeferredLists /\ <<d, "fail">> \in DeferredLists
    BY KindIs DEF DeferredLists
  <2>4. CASE l = <<d, "done">>
    <3>1. cb'[<<d, "done">>] = c /\ cb'[<<d, "fail">>] = cb[<<d, "fail">>]
      BY <1>1, <2>3, <2>4
    <3>2. Steady(cb[<<d, "done">>], c)
      BY <2>4
    <3>. QED BY <2>2, <3>1, <3>2, FateSteady
  <2>5. CASE l = <<d, "fail">>
    <3>1. cb'[<<d, "fail">>] = c /\ cb'[<<d, "done">>] = cb[<<d, "done">>]
      BY <1>1, <2>3, <2>5
    <3>2. Steady(cb[<<d, "fail">>], c)
      BY <2>5
    <3>. QED BY <2>2, <3>1, <3>2, FateSteady
  <2>6. CASE l # <<d, "done">> /\ l # <<d, "fail">>
    <3>1. cb'[<<d, "fail">>] = cb[<<d, "fail">>] /\ cb'[<<d, "done">>] = cb[<<d, "done">>]
      BY <1>1, <2>3, <2>6
    <3>. QED BY <2>2, <3>1
  <2>. QED BY <2>4, <2>5, <2>6
<1>4. ValuesKept
  <2>1. SUFFICES ASSUME NEW m \in Deferred \X Outcomes, cb[m].fired
                 PROVE  cb'[m].fired /\ cb'[m].memory = cb[m].memory
    BY DEF ValuesKept
  <2>2. m \in DeferredLists /\ m[2] # "progress"
    BY KindIs DEF Outcomes, DeferredLists
  <2>. QED BY <1>1, <2>1, <2>2 DEF Steady
<1>. QED BY <1>3, <1>4 DEF OutcomesKept

(* Changes of a list after which as much of it is to be called.            *)
Owes(c, new) ==
  /\ new.on = c.on /\ (c.fired => new.fired)
  /\ \A f \in Fns : ToHear(new, f) = ToHear(c, f)

LEMMA HeardSame ==
  ASSUME HeardOK, UNCHANGED heardVars,
         \A l \in Deferred \X Outcomes :
            Owes(cb[l], cb'[l]) \/ (~cb'[l].on /\ ~cb[l].fired /\ ~cb'[l].fired)
  PROVE  HeardOK'
<1>1. ASSUME ~threw, NEW l \in Deferred \X Outcomes
      PROVE  Counted(cb'[l], given[l], heard[l])
  <2>1. Counted(cb[l], given[l], heard[l])
    BY <1>1 DEF HeardOK
  <2>. QED BY <2>1 DEF Counted, Owes
<1>. QED BY <1>1 DEF HeardOK, heardVars

-----------------------------------------------------------------------------
(* The stack of the calls of fire(), and what is to be called on it.       *)
NoLoop == \A m \in DeferredLists : cb[m].at # "loop"

LEMMA CurrentIs ==
  ASSUME RunOK, run # <<>>
  PROVE  /\ Current \in DeferredLists /\ Len(run) \in Nat /\ Len(run) > 0 /\ Len(run) \in DOMAIN run
         /\ Current = run[Len(run)]
BY DEF RunOK, Current, Last

LEMMA NobodyLoops ==
  ASSUME RunOK, ListsOK, run # <<>> => InCall(cb[Current])
  PROVE  NoLoop
<1>1. \A m \in DeferredLists : cb[m].at = "loop" => run # <<>> /\ m = Current
  BY DEF RunOK
<1>. QED BY <1>1 DEF NoLoop, InCall

LEMMA RunSame ==
  ASSUME CbOK, ListsOK, RunOK, NEW l \in DeferredLists, NEW c, ListOK(l, c),
         cb' = [cb EXCEPT ![l] = c], run' = run, threw' = threw, c.firing = cb[l].firing,
         c.at = "loop" => cb[l].at = "loop" \/ (run # <<>> /\ l = Current)
  PROVE  RunOK'
<1>1. /\ cb'[l] = c
      /\ \A m \in DeferredLists : m # l => cb'[m] = cb[m]
  BY ListChanged
<1>2. \A m \in DeferredLists : cb'[m].firing <=> cb[m].firing
  BY <1>1
<1>3. \A m \in DeferredLists : cb'[m].at = "loop" => run # <<>> /\ m = Current
  BY <1>1 DEF RunOK
<1>4. run \in Seq(DeferredLists) /\ \A i \in DOMAIN run : run[i] \in DeferredLists
  BY DEF RunOK
<1>5. \A i \in DOMAIN run : cb'[run[i]].firing
  BY <1>2, <1>4 DEF RunOK
<1>. QED BY <1>2, <1>3, <1>4, <1>5 DEF RunOK, Current

LEMMA RunPushed ==
  ASSUME CbOK, ListsOK, RunOK, NEW l \in DeferredLists, NEW c, ListOK(l, c),
         cb' = [cb EXCEPT ![l] = c], run' = Append(run, l), threw' = threw,
         ~cb[l].firing, c.firing, NoLoop
  PROVE  RunOK'
<1>1. /\ cb'[l] = c
      /\ \A m \in DeferredLists : m # l => cb'[m] = cb[m]
  BY ListChanged
<1>2. run \in Seq(DeferredLists) /\ Len(run) \in Nat
      /\ \A i \in DOMAIN run : run[i] \in DeferredLists /\ cb[run[i]].firing /\ run[i] # l
  BY DEF RunOK
<1>3. PICK n : n = Len(run) + 1
  OBVIOUS
<1>4. /\ run' \in Seq(DeferredLists) /\ DOMAIN run' = 1..n /\ run'[n] = l /\ run' # <<>>
      /\ Len(run') = n
      /\ \A i \in DOMAIN run : i \in DOMAIN run' /\ run'[i] = run[i]
      /\ \A i \in DOMAIN run' : i = n \/ i \in DOMAIN run
  BY <1>2, <1>3
<1>5. \A i \in DOMAIN run' : cb'[run'[i]].firing
  BY <1>1, <1>2, <1>4
<1>6. \A i, j \in DOMAIN run' : run'[i] = run'[j] => i = j
  BY <1>2, <1>4 DEF RunOK
<1>7. \A m \in DeferredLists : cb'[m].at = "loop" => m = run'[Len(run')]
  BY <1>1, <1>4 DEF NoLoop
<1>8. ~threw' => \A m \in DeferredLists : cb'[m].firing => \E i \in DOMAIN run' : run'[i] = m
  <2>1. n \in DOMAIN run'
    BY <1>2, <1>3, <1>4
  <2>. QED BY <1>1, <1>4, <2>1 DEF RunOK
<1>. QED BY <1>4, <1>5, <1>6, <1>7, <1>8 DEF RunOK, Current, Last

LEMMA FrontIs ==
  ASSUME NEW S, NEW s \in Seq(S), s # <<>>
  PROVE  /\ Front(s) \in Seq(S) /\ Len(s) \in Nat \ {0} /\ Len(Front(s)) = Len(s) - 1
         /\ DOMAIN Front(s) = 1..(Len(s) - 1)
         /\ \A i \in DOMAIN Front(s) : i \in DOMAIN s /\ Front(s)[i] = s[i] /\ i # Len(s)
         /\ \A i \in DOMAIN s : i = Len(s) \/ i \in DOMAIN Front(s)
<1>1. PICK n \in Nat \ {0} : n = Len(s) /\ DOMAIN s = 1..n
  OBVIOUS
<1>2. PICK m \in Nat : m = n - 1
  BY <1>1
<1>3. Front(s) = [i \in 1..m |-> s[i]]
  BY <1>1, <1>2 DEF Front
<1>4. \A i \in 1..m : i \in 1..n /\ i # n
  BY <1>2
<1>5. \A i \in 1..n : i = n \/ i \in 1..m
  BY <1>2
<1>6. Front(s) \in Seq(S) /\ Len(Front(s)) = m /\ DOMAIN Front(s) = 1..m
  BY <1>1, <1>3, <1>4
<1>. QED BY <1>1, <1>2, <1>3, <1>4, <1>5, <1>6

LEMMA RunPopped ==
  ASSUME CbOK, ListsOK, RunOK, run # <<>>, NEW l \in DeferredLists, l = Current, NEW c, ListOK(l, c),
         cb' = [cb EXCEPT ![l] = c], run' = Front(run), threw' = threw, ~c.firing
  PROVE  RunOK'
<1>1. /\ cb'[l] = c
      /\ \A m \in DeferredLists : m # l => cb'[m] = cb[m]
  BY ListChanged
<1>2. PICK n : n = Len(run)
  OBVIOUS
<1>3. run \in Seq(DeferredLists) /\ n \in DOMAIN run /\ run[n] = l
      /\ \A i \in DOMAIN run : run[i] \in DeferredLists
  BY <1>2, CurrentIs DEF RunOK
<1>4. /\ run' \in Seq(DeferredLists)
      /\ \A i \in DOMAIN run' : i \in DOMAIN run /\ run'[i] = run[i] /\ i # n
      /\ \A i \in DOMAIN run : i = n \/ i \in DOMAIN run'
  BY <1>2, <1>3, FrontIs
<1>5. \A i \in DOMAIN run' : run'[i] # l
  BY <1>3, <1>4 DEF RunOK
<1>6. \A i \in DOMAIN run' : cb'[run'[i]].firing
  BY <1>1, <1>3, <1>4, <1>5 DEF RunOK
<1>7. \A i, j \in DOMAIN run' : run'[i] = run'[j] => i = j
  BY <1>4 DEF RunOK
<1>8. \A m \in DeferredLists : cb'[m].at # "loop"
  <2>1. c.at # "loop"
    BY DEF ListOK, ClosureOK
  <2>. QED BY <1>1, <2>1 DEF RunOK
<1>9. ~threw' => \A m \in DeferredLists : cb'[m].firing => \E i \in DOMAIN run' : run'[i] = m
  BY <1>1, <1>3, <1>4 DEF RunOK
<1>. QED BY <1>4, <1>6, <1>7, <1>8, <1>9 DEF RunOK

LEMMA FitsIs ==
  ASSUME NEW calls, NEW r, NEW C, NEW a, Fits(calls, r, C, a), NEW i \in DOMAIN calls
  PROVE  calls[i].depth \in Nat /\ calls[i].call \in CallsOf(a)
<1>1. PICK T : T = [depth : Nat, call : CallsOf(a)]
  OBVIOUS
<1>2. calls \in Seq(T)
  BY <1>1 DEF Fits
<1>3. calls[i] \in T
  BY <1>2
<1>. QED BY <1>1, <1>3

LEMMA FitsFront ==
  ASSUME NEW calls, NEW r, NEW C, NEW a, Fits(calls, r, C, a), calls # <<>>
  PROVE  Fits(Front(calls), r, C, a) /\ Last(calls).call \in CallsOf(a)
         /\ Last(calls) = calls[Len(calls)] /\ Len(calls) \in DOMAIN calls
<1>1. calls \in Seq([depth : Nat, call : CallsOf(a)])
  BY DEF Fits
<1>2. /\ Front(calls) \in Seq([depth : Nat, call : CallsOf(a)])
      /\ \A i \in DOMAIN Front(calls) : i \in DOMAIN calls /\ Front(calls)[i] = calls[i]
  BY <1>1, FrontIs
<1>3. Len(calls) \in DOMAIN calls
  BY <1>1
<1>4. calls[Len(calls)].call \in CallsOf(a)
  BY <1>3, FitsIs
<1>5. Fits(Front(calls), r, C, a)
  BY <1>2 DEF Fits
<1>. QED BY <1>3, <1>4, <1>5 DEF Last

LEMMA BeforeIs ==
  ASSUME NEW S, NEW rest \in Seq([depth : Nat, call : S]), NEW calls \in Seq(S), Len(run) \in Nat
  PROVE  /\ Before(rest, calls) \in Seq([depth : Nat, call : S])
         /\ \A i \in DOMAIN Before(rest, calls) :
              \/ i \in DOMAIN rest /\ Before(rest, calls)[i] = rest[i]
              \/ i > Len(rest) /\ Before(rest, calls)[i].depth = Len(run)
<1>1. PICK n \in Nat : n = Len(calls) /\ DOMAIN calls = 1..n
  OBVIOUS
<1>2. Reverse(calls) \in [1..n -> S]
  <2>1. ASSUME NEW i \in 1..n PROVE calls[(n - i) + 1] \in S
    <3>1. (n - i) + 1 \in 1..n
      BY <1>1
    <3>. QED BY <1>1, <3>1
  <2>. QED BY <1>1, <2>1 DEF Reverse
<1>3. PICK new : new = [k \in DOMAIN calls |-> [depth |-> Len(run), call |-> Reverse(calls)[k]]]
  OBVIOUS
<1>t. PICK T : T = [depth : Nat, call : S]
  OBVIOUS
<1>4. new \in [1..n -> T] /\ \A k \in 1..n : new[k].depth = Len(run)
  BY <1>1, <1>2, <1>3, <1>t
<1>5. new \in Seq(T) /\ Len(new) = n
  BY <1>4
<1>6. PICK m \in Nat : m = Len(rest) /\ DOMAIN rest = 1..m
  OBVIOUS
<1>7. PICK both : both = rest \o new
  OBVIOUS
<1>r. rest \in Seq(T)
  BY <1>t
<1>8. /\ both \in Seq(T) /\ DOMAIN both = 1..(m + n)
      /\ \A i \in 1..(m + n) : both[i] = IF i <= m THEN rest[i] ELSE new[i - m]
  BY <1>r, <1>5, <1>6, <1>7
<1>9. ASSUME NEW i \in DOMAIN both
      PROVE  \/ i \in DOMAIN rest /\ both[i] = rest[i]
             \/ i > Len(rest) /\ both[i].depth = Len(run)
  <2>1. CASE i <= m
    BY <1>6, <1>8, <1>9, <2>1
  <2>2. CASE ~(i <= m)
    <3>1. i - m \in 1..n /\ i > m
      BY <1>6, <1>8, <1>9, <2>2
    <3>. QED BY <1>4, <1>6, <1>8, <1>9, <2>2, <3>1
  <2>. QED BY <2>1, <2>2
<1>. QED BY <1>t, <1>3, <1>7, <1>8, <1>9 DEF Before

LEMMA FitsBefore ==
  ASSUME NEW rest, NEW C, NEW a, Fits(rest, run, C, a), NEW calls \in Seq(CallsOf(a)),
         RunOK, run # <<>> => InCall(C[Current])
  PROVE  Fits(Before(rest, calls), run, C, a)
<1>1. Len(run) \in Nat /\ (Len(run) > 0 => InCall(C[run[Len(run)]]))
  BY CurrentIs DEF RunOK
<1>2. rest \in Seq([depth : Nat, call : CallsOf(a)])
  BY DEF Fits
<1>3. PICK new : new = Before(rest, calls)
  OBVIOUS
<1>4. /\ new \in Seq([depth : Nat, call : CallsOf(a)])
      /\ \A i \in DOMAIN new :
              \/ i \in DOMAIN rest /\ new[i] = rest[i]
              \/ i > Len(rest) /\ new[i].depth = Len(run)
  BY <1>1, <1>2, <1>3, BeforeIs
<1>5. \A i \in DOMAIN new : new[i].depth <= Len(run) /\ (new[i].depth > 0 => InCall(C[run[new[i].depth]]))
  BY <1>1, <1>4 DEF Fits
<1>6. ASSUME NEW i \in DOMAIN new, NEW j \in DOMAIN new, i <= j
      PROVE  new[i].depth <= new[j].depth
  <2>1. i \in Nat /\ j \in Nat /\ \A k \in DOMAIN rest : k <= Len(rest) /\ Len(rest) \in Nat
    BY <1>2, <1>4
  <2>2. CASE j \in DOMAIN rest /\ new[j] = rest[j]
    <3>1. ~(i > Len(rest))
      BY <1>6, <2>1, <2>2
    <3>2. i \in DOMAIN rest /\ new[i] = rest[i]
      BY <1>4, <3>1
    <3>. QED BY <1>6, <2>2, <3>2 DEF Fits
  <2>3. CASE new[j].depth = Len(run)
    BY <1>5, <2>3
  <2>. QED BY <1>4, <2>2, <2>3
<1>. QED BY <1>3, <1>4, <1>5, <1>6 DEF Fits

LEMMA FitsSame ==
  ASSUME CbOK, ListsOK, RunOK, NEW calls, NEW a, Fits(calls, run, cb, a),
         NEW l \in DeferredLists, NEW c, ListOK(l, c),
         cb' = [cb EXCEPT ![l] = c], InCall(cb[l]) => InCall(c)
  PROVE  Fits(calls, run, cb', a)
<1>1. /\ cb'[l] = c
      /\ \A m \in DeferredLists : m # l => cb'[m] = cb[m]
  BY ListChanged
<1>2. ASSUME NEW i \in DOMAIN calls, calls[i].depth > 0
      PROVE  InCall(cb'[run[calls[i].depth]])
  <2>1. PICK d : d = calls[i].depth
    OBVIOUS
  <2>2. d \in DOMAIN run /\ InCall(cb[run[d]])
    <3>1. d \in Nat /\ d <= Len(run) /\ InCall(cb[run[d]])
      BY <1>2, <2>1, FitsIs DEF Fits
    <3>. QED BY <1>2, <2>1, <3>1 DEF RunOK
  <2>3. run[d] \in DeferredLists
    BY <2>2 DEF RunOK
  <2>. QED BY <1>1, <2>1, <2>2, <2>3
<1>. QED BY <1>2 DEF Fits

LEMMA FitsPushed ==
  ASSUME CbOK, ListsOK, RunOK, NEW calls, NEW a, Fits(calls, run, cb, a),
         NEW l \in DeferredLists, NEW c, ListOK(l, c),
         cb' = [cb EXCEPT ![l] = c], run' = Append(run, l), ~cb[l].firing
  PROVE  Fits(calls, run', cb', a)
<1>1. /\ cb'[l] = c
      /\ \A m \in DeferredLists : m # l => cb'[m] = cb[m]
  BY ListChanged
<1>2. run \in Seq(DeferredLists) /\ \A d \in DOMAIN run : run[d] \in DeferredLists /\ cb[run[d]].firing
  BY DEF RunOK
<1>3. PICK n \in Nat : n = Len(run) /\ DOMAIN run = 1..n
  BY <1>2
<1>4. Len(run') = n + 1 /\ \A d \in 1..n : run'[d] = run[d]
  BY <1>2, <1>3
<1>5. ASSUME NEW i \in DOMAIN calls
      PROVE  calls[i].depth <= Len(run') /\ (calls[i].depth > 0 => InCall(cb'[run'[calls[i].depth]]))
  <2>1. PICK d : d = calls[i].depth
    OBVIOUS
  <2>2. d \in Nat /\ d <= n /\ (d > 0 => InCall(cb[run[d]]))
    BY <1>3, <1>5, <2>1, FitsIs DEF Fits
  <2>3. ASSUME d > 0 PROVE InCall(cb'[run'[d]])
    <3>1. d \in DOMAIN run
      BY <1>3, <2>2, <2>3
    <3>2. run[d] \in DeferredLists /\ run[d] # l
      BY <1>2, <3>1
    <3>3. run'[d] = run[d] /\ cb'[run[d]] = cb[run[d]]
      BY <1>1, <1>3, <1>4, <3>1, <3>2
    <3>. QED BY <2>2, <2>3, <3>3
  <2>. QED BY <1>3, <1>4, <2>1, <2>2, <2>3
<1>. QED BY <1>5 DEF Fits

LEMMA FitsPopped ==
  ASSUME CbOK, ListsOK, RunOK, run # <<>>, NEW calls, NEW a, Fits(calls, run, cb, a),
         NEW l \in DeferredLists, l = Current, cb[l].at = "loop", NEW c, ListOK(l, c),
         cb' = [cb EXCEPT ![l] = c], run' = Front(run)
  PROVE  Fits(calls, run', cb', a)
<1>1. /\ cb'[l] = c
      /\ \A m \in DeferredLists : m # l => cb'[m] = cb[m]
  BY ListChanged
<1>2. PICK n : n = Len(run)
  OBVIOUS
<1>3. run \in Seq(DeferredLists) /\ n \in Nat /\ n \in DOMAIN run /\ run[n] = l
      /\ \A i \in DOMAIN run : run[i] \in DeferredLists
  BY <1>2, CurrentIs DEF RunOK
<1>4. Len(run') = n - 1 /\ DOMAIN run' = 1..(n - 1) /\ \A d \in DOMAIN run' : run'[d] = run[d] /\ d \in DOMAIN run
  BY <1>2, <1>3, FrontIs
<1>5. ASSUME NEW i \in DOMAIN calls
      PROVE  calls[i].depth <= Len(run') /\ (calls[i].depth > 0 => InCall(cb'[run'[calls[i].depth]]))
  <2>1. PICK d : d = calls[i].depth
    OBVIOUS
  <2>2. d \in Nat /\ d <= n /\ (d > 0 => InCall(cb[run[d]]))
    BY <1>2, <1>5, <2>1, FitsIs DEF Fits
  <2>3. d # n
    <3>1. ~InCall(cb[l])
      BY DEF InCall
    <3>. QED BY <1>3, <2>2, <3>1
  <2>4. d <= n - 1
    BY <1>3, <2>2, <2>3
  <2>5. ASSUME d > 0 PROVE InCall(cb'[run'[d]])
    <3>1. d \in DOMAIN run' /\ run[d] \in DeferredLists /\ run[d] # l
      BY <1>3, <1>4, <2>2, <2>4, <2>5 DEF InCall
    <3>. QED BY <1>1, <1>4, <2>2, <2>5, <3>1
  <2>. QED BY <1>4, <2>1, <2>4, <2>5
<1>. QED BY <1>5 DEF Fits

-----------------------------------------------------------------------------
(* The methods, as changes of one closure.                                 *)
LEMMA FlagsAre ==
  ASSUME NEW l \in DeferredLists
  PROVE  "unique" \notin Flags[l] /\ "stopOnFalse" \notin Flags[l] /\ "memory" \in Flags[l]
<1>1. Flags[l] = ListFlags(l[2])
  BY ListsAssumption
<1>. QED BY <1>1 DEF ListFlags

LEMMA FiringIs ==
  ASSUME NEW s, NEW l \in DeferredLists, s.cb = [m \in Lists |-> s.cb[m]], NEW v, NEW from
  PROVE  /\ Firing(s, l, v, from).cb = [s.cb EXCEPT ![l] = Begun(s.cb[l], v, from)]
         /\ Firing(s, l, v, from).run = Append(s.run, l)
BY FlagsAre, ListsAssumption DEF Firing, Begun

LEMMA MovedIs ==
  ASSUME CbOK, NEW l \in DeferredLists
  PROVE  Moved(Now, l).cb = [cb EXCEPT ![l] = Stepped(cb[l])] /\ Moved(Now, l).run = run
BY DEF Moved, Now, Stepped

LEMMA AddedIs ==
  ASSUME CbOK, NEW l \in DeferredLists, NEW e
  PROVE  LET c == cb[l]
             t == Added(Now, l, e)
         IN  \/ ~c.on /\ t.cb = cb /\ t.run = run
             \/ c.on /\ c.firing /\ t.cb = [cb EXCEPT ![l] = Longer(c, e)] /\ t.run = run
             \/ c.on /\ ~c.firing /\ c.memory = NoValue
                /\ t.cb = [cb EXCEPT ![l] = With(c, e)] /\ t.run = run
             \/ c.on /\ ~c.firing /\ c.memory # NoValue
                /\ t.cb = [cb EXCEPT ![l] = Begun(With(c, e), c.memory, Len(c.fns))]
                /\ t.run = Append(run, l)
<1>1. PICK longer : longer = [Now EXCEPT !.cb[l].fns = Append(@, e)]
  OBVIOUS
<1>2. l \in Lists
  BY ListsAssumption
<1>3. /\ longer.cb = [cb EXCEPT ![l] = With(cb[l], e)] /\ longer.run = run
      /\ longer.cb = [m \in Lists |-> longer.cb[m]] /\ longer.cb[l] = With(cb[l], e)
  BY <1>1, <1>2 DEF Now, With, CbOK
<1>4. CASE ~cb[l].on
  BY <1>4 DEF Added, Now
<1>5. CASE cb[l].on /\ cb[l].firing
  <2>1. Added(Now, l, e) = ToTheEnd(longer, l)
    BY <1>1, <1>5, FlagsAre DEF Added, Now
  <2>2. longer = [cb |-> [cb EXCEPT ![l] = With(cb[l], e)], run |-> run]
    BY <1>1 DEF Now, With
  <2>3. /\ ToTheEnd(longer, l).cb = [cb EXCEPT ![l] = Longer(cb[l], e)]
        /\ ToTheEnd(longer, l).run = run
    BY <1>2, <1>3, <2>2 DEF ToTheEnd, Longer, CbOK
  <2>. QED BY <1>5, <2>1, <2>3
<1>6. CASE cb[l].on /\ ~cb[l].firing /\ cb[l].memory = NoValue
  <2>1. Added(Now, l, e) = longer
    BY <1>1, <1>6, FlagsAre DEF Added, Now
  <2>. QED BY <1>3, <1>6, <2>1
<1>7. CASE cb[l].on /\ ~cb[l].firing /\ cb[l].memory # NoValue
  <2>1. Added(Now, l, e) = Firing(longer, l, cb[l].memory, Len(cb[l].fns))
    BY <1>1, <1>7, FlagsAre DEF Added, Now
  <2>2. /\ Firing(longer, l, cb[l].memory, Len(cb[l].fns)).cb
             = [longer.cb EXCEPT ![l] = Begun(With(cb[l], e), cb[l].memory, Len(cb[l].fns))]
        /\ Firing(longer, l, cb[l].memory, Len(cb[l].fns)).run = Append(run, l)
    <3>1. PICK m, n : m = cb[l].memory /\ n = Len(cb[l].fns)
      OBVIOUS
    <3>2. /\ Firing(longer, l, m, n).cb = [longer.cb EXCEPT ![l] = Begun(longer.cb[l], m, n)]
          /\ Firing(longer, l, m, n).run = Append(longer.run, l)
      <4>1. longer.cb = [k \in Lists |-> longer.cb[k]]
        BY <1>3
      <4>. QED BY <4>1, FiringIs
    <3>. QED BY <1>3, <3>1, <3>2
  <2>3. [longer.cb EXCEPT ![l] = Begun(With(cb[l], e), cb[l].memory, Len(cb[l].fns))]
          = [cb EXCEPT ![l] = Begun(With(cb[l], e), cb[l].memory, Len(cb[l].fns))]
    BY <1>3, <1>2 DEF CbOK
  <2>. QED BY <1>7, <2>1, <2>2, <2>3
<1>. QED BY <1>4, <1>5, <1>6, <1>7

LEMMA FiredIs ==
  ASSUME CbOK, NEW l \in DeferredLists, NEW v
  PROVE  LET c == cb[l]
             t == FiredWith(Now, l, v)
         IN  \/ (~c.on \/ (c.fired /\ ~c.repeats)) /\ t.cb = cb /\ t.run = run
             \/ c.on /\ c.firing /\ c.repeats /\ t.run = run
                /\ t.cb = [cb EXCEPT ![l] = [c EXCEPT !.queue = Append(c.queue, v)]]
             \/ c.on /\ ~c.firing /\ ~(c.fired /\ ~c.repeats)
                /\ t.cb = [cb EXCEPT ![l] = Begun(c, v, 0)] /\ t.run = Append(run, l)
             \/ c.on /\ c.firing /\ ~c.fired
<1>1. Now.cb = cb /\ Now.run = run /\ Now.cb = [m \in Lists |-> Now.cb[m]]
  BY DEF Now, CbOK
<1>2. CASE ~cb[l].on \/ (cb[l].fired /\ ~cb[l].repeats)
  BY <1>1, <1>2 DEF FiredWith
<1>3. CASE cb[l].on /\ ~(cb[l].fired /\ ~cb[l].repeats) /\ cb[l].firing
  BY <1>3 DEF FiredWith, Now
<1>4. CASE cb[l].on /\ ~(cb[l].fired /\ ~cb[l].repeats) /\ ~cb[l].firing
  <2>1. FiredWith(Now, l, v) = Firing(Now, l, v, 0)
    BY <1>1, <1>4 DEF FiredWith
  <2>. QED BY <1>1, <1>4, <2>1, FiringIs
<1>. QED BY <1>2, <1>3, <1>4

LEMMA ReturnedIs ==
  ASSUME CbOK, NEW l \in DeferredLists, cb[l].on, ~cb[l].repeats => cb[l].memory # NoValue
  PROVE  LET c == cb[l]
             t == Returned(Now, l)
         IN  \/ ~c.repeats /\ t.run = Front(run)
                /\ t.cb = [cb EXCEPT ![l] = [Over(c) EXCEPT !.fns = <<>>]]
             \/ c.repeats /\ c.queue = <<>> /\ t.run = Front(run)
                /\ t.cb = [cb EXCEPT ![l] = Over(c)]
             \/ c.repeats /\ c.queue # <<>> /\ t.run = Append(Front(run), l)
                /\ t.cb = [cb EXCEPT ![l] = Begun([Over(c) EXCEPT !.queue = Tail(c.queue)], Head(c.queue), 0)]
<1>1. PICK back : back = [cb |-> [cb EXCEPT ![l] = Over(cb[l])], run |-> Front(run)]
  OBVIOUS
<1>2. l \in Lists
  BY ListsAssumption
<1>3. back = [cb |-> [Now.cb EXCEPT ![l] = [@ EXCEPT !.firing = FALSE, !.at = "idle"]],
              run |-> Front(Now.run)]
  BY <1>1, <1>2 DEF Now, Over, CbOK
<1>4. CASE ~cb[l].repeats
  <2>1. Returned(Now, l) = [back EXCEPT !.cb[l].fns = <<>>]
    BY <1>3, <1>4 DEF Returned, Now
  <2>2. [back EXCEPT !.cb[l].fns = <<>>]
          = [cb |-> [cb EXCEPT ![l] = [Over(cb[l]) EXCEPT !.fns = <<>>]], run |-> Front(run)]
    BY <1>1, <1>2 DEF CbOK
  <2>. QED BY <1>4, <2>1, <2>2
<1>5. CASE cb[l].repeats /\ cb[l].queue = <<>>
  <2>1. Returned(Now, l) = back
    BY <1>3, <1>5 DEF Returned, Now
  <2>. QED BY <1>1, <1>5, <2>1
<1>6. CASE cb[l].repeats /\ cb[l].queue # <<>>
  <2>1. PICK s : s = [back EXCEPT !.cb[l].queue = Tail(@)]
    OBVIOUS
  <2>2. Returned(Now, l) = Firing(s, l, Head(cb[l].queue), 0)
    BY <1>3, <1>6, <2>1 DEF Returned, Now
  <2>3. Over(cb[l]).queue = cb[l].queue
    BY DEF Over
  <2>4. s = [cb |-> [cb EXCEPT ![l] = [Over(cb[l]) EXCEPT !.queue = Tail(cb[l].queue)]], run |-> Front(run)]
    BY <1>1, <1>2, <2>1, <2>3 DEF CbOK
  <2>5. /\ s.cb = [m \in Lists |-> s.cb[m]] /\ s.run = Front(run)
        /\ s.cb[l] = [Over(cb[l]) EXCEPT !.queue = Tail(cb[l].queue)]
    BY <1>2, <2>4 DEF CbOK
  <2>6. /\ Firing(s, l, Head(cb[l].queue), 0).run = Append(Front(run), l)
        /\ Firing(s, l, Head(cb[l].queue), 0).cb
             = [s.cb EXCEPT ![l] = Begun([Over(cb[l]) EXCEPT !.queue = Tail(cb[l].queue)], Head(cb[l].queue), 0)]
    BY <2>5, FiringIs
  <2>7. \A c : [s.cb EXCEPT ![l] = c] = [cb EXCEPT ![l] = c]
    BY <1>2, <2>4 DEF CbOK
  <2>. QED BY <1>6, <2>2, <2>6, <2>7
<1>. QED BY <1>4, <1>5, <1>6

-----------------------------------------------------------------------------
(* What add() and fireWith() do to the invariant, when no loop is          *)
(* between two callbacks.                                                  *)
LEMMA LongerHears ==
  ASSUME NEW l \in DeferredLists, NEW c, ListOK(l, c), c.on, NEW e \in Later, NEW f
  PROVE  /\ c.firing =>
              ToHear(Longer(c, e), f) = ToHear(c, f) + IF e = User(f) THEN 1 ELSE 0
         /\ ~c.firing /\ ~c.fired =>
              ToHear(With(c, e), f) = ToHear(c, f) + IF e = User(f) THEN 1 ELSE 0
         /\ ~c.firing /\ c.fired /\ l[2] # "progress" =>
              ToHear(Begun(With(c, e), c.memory, Len(c.fns)), f)
                = ToHear(c, f) + IF e = User(f) THEN 1 ELSE 0
<1>1. c \in Closures /\ Reached(c) <= Len(c.fns) /\ (~c.firing => Reached(c) = 0)
  BY ReachedIs
<1>2. ASSUME c.firing
      PROVE  ToHear(Longer(c, e), f) = ToHear(c, f) + IF e = User(f) THEN 1 ELSE 0
  <2>1. PICK new : new = Longer(c, e)
    OBVIOUS
  <2>2. new \in Closures
    BY <1>2, <2>1, LongerOK DEF ListOK, ClosureOK
  <2>3. new.fns = Append(c.fns, e) /\ new.firing = c.firing /\ new.index = c.index /\ new.at = c.at
    BY <1>1, <2>1 DEF Longer, With, Closures
  <2>4. Reached(new) = Reached(c)
    BY <2>3 DEF Reached, InCall
  <2>5. new.fns = Append(c.fns, e)
    BY <2>3
  <2>6. ToHear(new, f) = ToHear(c, f) + IF e = User(f) THEN 1 ELSE 0
    BY <1>1, <2>2, <2>4, <2>5, HearLonger
  <2>. QED BY <2>1, <2>6
<1>3. ASSUME ~c.firing, ~c.fired
      PROVE  ToHear(With(c, e), f) = ToHear(c, f) + IF e = User(f) THEN 1 ELSE 0
  <2>1. PICK new : new = With(c, e)
    OBVIOUS
  <2>2. new \in Closures
    BY <1>3, <2>1, LongerOK DEF ListOK, ClosureOK
  <2>3. new.fns = Append(c.fns, e) /\ new.firing = c.firing /\ new.index = c.index /\ new.at = c.at
    BY <1>1, <2>1 DEF With, Closures
  <2>4. Reached(new) = Reached(c)
    BY <2>3 DEF Reached, InCall
  <2>5. new.fns = Append(c.fns, e)
    BY <2>3
  <2>6. ToHear(new, f) = ToHear(c, f) + IF e = User(f) THEN 1 ELSE 0
    BY <1>1, <2>2, <2>4, <2>5, HearLonger
  <2>. QED BY <2>1, <2>6
<1>4. ASSUME ~c.firing, c.fired, l[2] # "progress"
      PROVE  ToHear(Begun(With(c, e), c.memory, Len(c.fns)), f)
                = ToHear(c, f) + IF e = User(f) THEN 1 ELSE 0
  <2>1. PICK new : new = Begun(With(c, e), c.memory, Len(c.fns))
    OBVIOUS
  <2>2. new \in Closures /\ c.fns = <<>>
    BY <1>4, <2>1, LongerOK DEF ListOK, ClosureOK
  <2>3. new.fns = Append(c.fns, e) /\ new.firing /\ new.index = Len(c.fns) /\ new.at = "loop"
    BY <1>1, <2>1 DEF Begun, With, Closures
  <2>4. Reached(new) = Reached(c)
    BY <1>1, <1>4, <2>2, <2>3 DEF Reached, InCall
  <2>5. new.fns = Append(c.fns, e)
    BY <2>3
  <2>6. ToHear(new, f) = ToHear(c, f) + IF e = User(f) THEN 1 ELSE 0
    <3>1. new \in Closures
      BY <2>2
    <3>. QED BY <1>1, <3>1, <2>4, <2>5, HearLonger
  <2>. QED BY <2>1, <2>6
<1>. QED BY <1>2, <1>3, <1>4

(* What a call leaves of the closures, the stack and the fates.            *)
Sound ==
  /\ CbOK' /\ ListsOK' /\ RunOK' /\ FatesOK' /\ Keeps
  /\ \A calls, a : Fits(calls, run, cb, a) => Fits(calls, run', cb', a)
Settled == CbOK /\ ListsOK /\ RunOK /\ FatesOK

LEMMA NothingDone ==
  ASSUME Settled, UNCHANGED <<cb, run, state, threw>>
  PROVE  Sound
<1>1. CbOK' /\ ListsOK' /\ RunOK' /\ FatesOK'
  BY DEF Settled, CbOK, ListsOK, RunOK, FatesOK, Current
<1>2. Keeps
  BY DEF Keeps, ValuesKept, OutcomesKept
<1>3. \A calls, a : Fits(calls, run, cb, a) => Fits(calls, run', cb', a)
  OBVIOUS
<1>. QED BY <1>1, <1>2, <1>3 DEF Sound

LEMMA InPlace ==
  ASSUME Settled, NEW l \in DeferredLists, NEW c, ListOK(l, c),
         cb' = [cb EXCEPT ![l] = c], UNCHANGED <<run, state, threw>>,
         c.firing = cb[l].firing, c.at = "loop" => cb[l].at = "loop",
         InCall(cb[l]) => InCall(c), l[2] # "progress" => Steady(cb[l], c)
  PROVE  Sound
<1>1. CbOK' /\ ListsOK'
  BY ListChanged DEF Settled
<1>2. FatesOK' /\ Keeps
  BY FatesSteady DEF Settled, Keeps
<1>3. RunOK'
  BY RunSame DEF Settled
<1>4. ASSUME NEW calls, NEW a, Fits(calls, run, cb, a) PROVE Fits(calls, run', cb', a)
  BY <1>4, FitsSame DEF Settled
<1>. QED BY <1>1, <1>2, <1>3, <1>4 DEF Sound

LEMMA Adds ==
  ASSUME Settled, NoLoop, NEW l \in DeferredLists, NEW e \in Later,
         Becomes(Added(Now, l, e)), UNCHANGED <<state, threw>>
  PROVE  /\ Sound
         /\ \A m \in DeferredLists : m # l => cb'[m] = cb[m]
         /\ cb'[l].on = cb[l].on /\ cb'[l].fired = cb[l].fired
         /\ cb[l].on /\ l[2] # "progress" => \A f \in Fns :
              ToHear(cb'[l], f) = ToHear(cb[l], f) + IF e = User(f) THEN 1 ELSE 0
<1>1. PICK c : c = cb[l]
  OBVIOUS
<1>2. ListOK(l, c) /\ c \in Closures
  BY <1>1 DEF Settled, ListsOK, ListOK, ClosureOK
<1>3. (c.memory = NoValue <=> ~c.fired) /\ (c.firing => c.fired)
  BY <1>2, ValuesAssumption DEF ListOK, ClosureOK
<1>4. CASE ~c.on /\ cb' = cb /\ run' = run
  BY <1>1, <1>4, NothingDone
<1>5. CASE c.on /\ c.firing /\ cb' = [cb EXCEPT ![l] = Longer(c, e)] /\ run' = run
  <2>1. PICK new : new = Longer(c, e)
    OBVIOUS
  <2>2. ListOK(l, new) /\ Steady(c, new)
    BY <1>2, <1>5, <2>1, LongerOK
  <2>3. new.firing = c.firing /\ new.at = c.at
    BY <1>2, <2>1 DEF Longer, With, Closures
  <2>4. Sound
    BY <1>1, <1>5, <2>1, <2>2, <2>3, InPlace DEF InCall
  <2>5. cb'[l] = new /\ \A m \in DeferredLists : m # l => cb'[m] = cb[m]
    BY <1>5, <2>1, <2>2, ListChanged DEF Settled
  <2>6. \A f \in Fns : ToHear(new, f) = ToHear(c, f) + IF e = User(f) THEN 1 ELSE 0
    BY <1>2, <1>5, <2>1, LongerHears
  <2>. QED BY <1>1, <2>2, <2>4, <2>5, <2>6 DEF Steady
<1>6. CASE c.on /\ ~c.firing /\ ~c.fired /\ cb' = [cb EXCEPT ![l] = With(c, e)] /\ run' = run
  <2>1. PICK new : new = With(c, e)
    OBVIOUS
  <2>2. ListOK(l, new) /\ Steady(c, new)
    BY <1>2, <1>6, <2>1, LongerOK
  <2>3. new.firing = c.firing /\ new.at = c.at
    BY <1>2, <2>1 DEF With, Closures
  <2>4. Sound
    BY <1>1, <1>6, <2>1, <2>2, <2>3, InPlace DEF InCall
  <2>5. cb'[l] = new /\ \A m \in DeferredLists : m # l => cb'[m] = cb[m]
    BY <1>6, <2>1, <2>2, ListChanged DEF Settled
  <2>6. \A f \in Fns : ToHear(new, f) = ToHear(c, f) + IF e = User(f) THEN 1 ELSE 0
    BY <1>2, <1>6, <2>1, LongerHears
  <2>. QED BY <1>1, <2>2, <2>4, <2>5, <2>6 DEF Steady
<1>7. CASE /\ c.on /\ ~c.firing /\ c.fired /\ run' = Append(run, l)
           /\ cb' = [cb EXCEPT ![l] = Begun(With(c, e), c.memory, Len(c.fns))]
  <2>1. PICK new : new = Begun(With(c, e), c.memory, Len(c.fns))
    OBVIOUS
  <2>2. ListOK(l, new) /\ (l[2] # "progress" => Steady(c, new))
    BY <1>2, <1>7, <2>1, LongerOK
  <2>3. new.firing /\ new.on = c.on /\ new.fired
    BY <1>2, <2>1 DEF Begun, With, Closures
  <2>4. CbOK' /\ ListsOK' /\ cb'[l] = new /\ \A m \in DeferredLists : m # l => cb'[m] = cb[m]
    BY <1>7, <2>1, <2>2, ListChanged DEF Settled
  <2>5. FatesOK' /\ Keeps
    BY <1>1, <1>7, <2>1, <2>2, FatesSteady DEF Settled, Keeps
  <2>6. RunOK'
    BY <1>1, <1>7, <2>1, <2>2, <2>3, RunPushed DEF Settled
  <2>7. ASSUME NEW calls, NEW a, Fits(calls, run, cb, a) PROVE Fits(calls, run', cb', a)
    BY <1>1, <1>7, <2>1, <2>2, <2>7, FitsPushed DEF Settled
  <2>8. l[2] # "progress" => \A f \in Fns :
           ToHear(new, f) = ToHear(c, f) + IF e = User(f) THEN 1 ELSE 0
    BY <1>2, <1>7, <2>1, LongerHears
  <2>9. Sound
    BY <2>4, <2>5, <2>6, <2>7 DEF Sound
  <2>. QED BY <1>1, <1>7, <2>3, <2>4, <2>8, <2>9
<1>. QED
  <2>1. cb' = Added(Now, l, e).cb /\ run' = Added(Now, l, e).run
    BY DEF Becomes
  <2>. QED BY <1>1, <1>3, <1>4, <1>5, <1>6, <1>7, <2>1, AddedIs DEF Settled

LEMMA FatesBegun ==
  ASSUME Settled, NoLoop, NEW l \in Deferred \X Outcomes, NEW c, ListOK(l, c),
         cb' = [cb EXCEPT ![l] = c], state' = state, cb[l].on, ~cb[l].fired, c.fired, Calling(c, 0)
  PROVE  FatesOK' /\ Keeps
<1>0. l \in DeferredLists
  BY KindIs DEF Outcomes, DeferredLists
<1>1. /\ cb'[l] = c
      /\ \A m \in DeferredLists : m # l => cb'[m] = cb[m]
  BY <1>0, ListChanged DEF Settled
<1>2. ASSUME NEW d \in Deferred
      PROVE  Fate(state[d], cb'[<<d, "done">>], cb'[<<d, "fail">>])
  <2>1. <<d, "done">> \in DeferredLists /\ <<d, "fail">> \in DeferredLists
    BY KindIs DEF DeferredLists
  <2>2. PICK x, y : x = cb[<<d, "done">>] /\ y = cb[<<d, "fail">>]
    OBVIOUS
  <2>3. Fate(state[d], x, y)
    BY <2>2 DEF Settled, FatesOK
  <2>4. x.at # "loop" /\ y.at # "loop"
    BY <2>1, <2>2 DEF NoLoop
  <2>5. ~Calling(x, 0) /\ ~Calling(x, 1) /\ ~Calling(y, 0) /\ ~Calling(y, 1)
    BY <2>4 DEF Calling
  <2>6. CASE l = <<d, "done">>
    <3>1. cb'[<<d, "done">>] = c /\ cb'[<<d, "fail">>] = y
      BY <1>1, <2>1, <2>2, <2>6
    <3>2. x.on /\ ~x.fired
      BY <2>2, <2>6
    <3>3. state[d] = "pending" /\ Waiting(x, y)
      BY <2>3, <2>5, <3>2 DEF Fate, Going
    <3>. QED BY <3>1, <3>3 DEF Fate, Going, Waiting
  <2>7. CASE l = <<d, "fail">>
    <3>1. cb'[<<d, "fail">>] = c /\ cb'[<<d, "done">>] = x
      BY <1>1, <2>1, <2>2, <2>7
    <3>2. y.on /\ ~y.fired
      BY <2>2, <2>7
    <3>3. state[d] = "pending" /\ Waiting(x, y)
      BY <2>3, <2>5, <3>2 DEF Fate, Going
    <3>. QED BY <3>1, <3>3 DEF Fate, Going, Waiting
  <2>8. CASE l # <<d, "done">> /\ l # <<d, "fail">>
    BY <1>1, <2>1, <2>2, <2>3, <2>8
  <2>. QED BY <2>6, <2>7, <2>8
<1>3. ASSUME NEW m \in Deferred \X Outcomes, cb[m].fired
      PROVE  cb'[m].fired /\ cb'[m].memory = cb[m].memory
  <2>1. m \in DeferredLists /\ m # l
    BY <1>3, KindIs DEF Outcomes, DeferredLists
  <2>. QED BY <1>1, <1>3, <2>1
<1>. QED BY <1>2, <1>3 DEF FatesOK, Keeps, ValuesKept, OutcomesKept

LEMMA Fires ==
  ASSUME Settled, NoLoop, NEW l \in DeferredLists, NEW v \in Values,
         Becomes(FiredWith(Now, l, v)), UNCHANGED <<state, threw>>
  PROVE  /\ Sound
         /\ \A m \in DeferredLists : m # l => cb'[m] = cb[m]
         /\ l[2] # "progress" => Owes(cb[l], cb'[l])
<1>1. PICK c : c = cb[l]
  OBVIOUS
<1>2. ListOK(l, c) /\ c \in Closures /\ c.queue \in Seq(Values)
  BY <1>1 DEF Settled, ListsOK, ListOK, ClosureOK, Closures
<1>3. c.firing => c.fired
  BY <1>2 DEF ListOK, ClosureOK
<1>4. CASE cb' = cb /\ run' = run
  BY <1>4, NothingDone DEF Owes
<1>5. CASE /\ c.on /\ c.firing /\ c.repeats /\ run' = run
           /\ cb' = [cb EXCEPT ![l] = [c EXCEPT !.queue = Append(c.queue, v)]]
  <2>1. PICK q, new : q = Append(c.queue, v) /\ new = [c EXCEPT !.queue = q]
    OBVIOUS
  <2>2. q \in Seq(Values)
    BY <1>2, <2>1
  <2>3. ListOK(l, new)
    BY <1>2, <2>1, <2>2, QueueOK
  <2>4. l[2] = "progress"
    BY <1>2, <1>5 DEF ListOK, CallbacksOK
  <2>5. new.firing = c.firing /\ new.at = c.at
    BY <1>2, <2>1 DEF Closures
  <2>6. Sound
    BY <1>1, <1>5, <2>1, <2>3, <2>4, <2>5, InPlace DEF InCall
  <2>7. \A m \in DeferredLists : m # l => cb'[m] = cb[m]
    BY <1>5, <2>1, <2>3, ListChanged DEF Settled
  <2>. QED BY <2>4, <2>6, <2>7
<1>6. CASE /\ c.on /\ ~c.firing /\ ~(c.fired /\ ~c.repeats) /\ run' = Append(run, l)
           /\ cb' = [cb EXCEPT ![l] = Begun(c, v, 0)]
  <2>1. PICK new : new = Begun(c, v, 0)
    OBVIOUS
  <2>2. l[2] # "progress" => ~c.fired
    BY <1>2, <1>6 DEF ListOK, CallbacksOK
  <2>3. ListOK(l, new) /\ (l[2] # "progress" => Calling(new, 0))
    BY <1>2, <1>6, <2>1, <2>2, BegunOK
  <2>4. new.firing /\ new.on = c.on /\ new.fired /\ new.index = 0 /\ new.at = "loop" /\ new.fns = c.fns
    BY <1>2, <2>1 DEF Begun, Closures
  <2>5. CbOK' /\ ListsOK' /\ cb'[l] = new /\ \A m \in DeferredLists : m # l => cb'[m] = cb[m]
    BY <1>6, <2>1, <2>3, ListChanged DEF Settled
  <2>6. FatesOK' /\ Keeps
    <3>1. CASE l[2] = "progress"
      BY <1>1, <1>6, <2>1, <2>3, <3>1, FatesSteady DEF Settled, Keeps
    <3>2. CASE l[2] # "progress"
      <4>1. l \in Deferred \X Outcomes
        BY <3>2, ListsOfDeferred
      <4>. QED BY <1>1, <1>6, <2>1, <2>2, <2>3, <2>4, <3>2, <4>1, FatesBegun
    <3>. QED BY <3>1, <3>2
  <2>7. RunOK'
    BY <1>1, <1>6, <2>1, <2>3, <2>4, RunPushed DEF Settled
  <2>8. ASSUME NEW calls, NEW a, Fits(calls, run, cb, a) PROVE Fits(calls, run', cb', a)
    BY <1>1, <1>6, <2>1, <2>3, <2>8, FitsPushed DEF Settled
  <2>9. Sound
    BY <2>5, <2>6, <2>7, <2>8 DEF Sound
  <2>10. Reached(new) = Reached(c)
    BY <1>6, <2>4 DEF Reached, InCall
  <2>11. \A f \in Fns : ToHear(new, f) = ToHear(c, f)
    BY <2>4, <2>10, HearSame
  <2>. QED BY <1>1, <2>4, <2>5, <2>9, <2>11 DEF Owes
<1>. QED
  <2>1. cb' = FiredWith(Now, l, v).cb /\ run' = FiredWith(Now, l, v).run
    BY DEF Becomes
  <2>. QED BY <1>1, <1>3, <1>4, <1>5, <1>6, <2>1, FiredIs DEF Settled

-----------------------------------------------------------------------------
(* Steps of the loop that calls what is in a list.                         *)
LEMMA WorkingHasNoLoop ==
  ASSUME Inv, Working
  PROVE  NoLoop /\ (run # <<>> => InCall(cb[Current]))
<1>1. Fits(todo, run, cb, args) /\ todo # <<>> /\ Last(todo).depth = Len(run)
  BY DEF Inv, TodoOK, Working
<1>2. Last(todo) = todo[Len(todo)] /\ Len(todo) \in DOMAIN todo
  BY <1>1, FitsFront
<1>3. ASSUME run # <<>> PROVE InCall(cb[Current])
  <2>1. Len(run) > 0 /\ Current = run[Len(run)]
    BY <1>3, CurrentIs DEF Inv
  <2>2. PICK n : n = Len(todo)
    OBVIOUS
  <2>3. todo[n].depth = Len(run) /\ n \in DOMAIN todo
    BY <1>1, <1>2, <2>2
  <2>4. todo[n].depth > 0 => InCall(cb[run[todo[n].depth]])
    BY <1>1, <2>3 DEF Fits
  <2>. QED BY <2>1, <2>3, <2>4
<1>. QED BY <1>3, NobodyLoops DEF Inv

LEMMA UsersHaveNoLoop ==
  ASSUME Inv, run = <<>> \/ InUser
  PROVE  NoLoop /\ (run # <<>> => InCall(cb[Current]))
BY NobodyLoops DEF Inv, InUser, InCall

LEMMA Waits ==
  ASSUME Settled, NEW l \in DeferredLists, run # <<>>, l = Current, NEW where \in {"user", "wait"},
         cb[l].index < Len(cb[l].fns),
         InCall(cb[l]) \/ (cb[l].at = "loop" /\ cb[l].fns[cb[l].index + 1] \in Later),
         cb' = [cb EXCEPT ![l] = Stands(@, where)], UNCHANGED <<run, state, threw>>
  PROVE  /\ Sound /\ InCall(cb'[l])
         /\ \A m \in DeferredLists : m # l => cb'[m] = cb[m]
         /\ InCall(cb[l]) \/ cb[l].fns[cb[l].index + 1][1] # "user" => Owes(cb[l], cb'[l])
<1>1. PICK c, new : c = cb[l] /\ new = Stands(c, where)
  OBVIOUS
<1>2. ListOK(l, c) /\ c \in Closures /\ c.firing /\ c.index \in Nat
  <2>1. c.firing
    BY <1>1, CurrentIs DEF Settled, RunOK
  <2>. QED BY <1>1, <2>1 DEF Settled, ListsOK, ListOK, ClosureOK, Closures
<1>3. cb' = [cb EXCEPT ![l] = new]
  BY <1>1
<1>4. ListOK(l, new) /\ (l[2] # "progress" => Steady(c, new))
  BY <1>1, <1>2, StandsOK
<1>5. /\ new.at = where /\ new.firing = c.firing /\ new.fns = c.fns /\ new.index = c.index
      /\ new.on = c.on /\ new.fired = c.fired
  BY <1>1, <1>2 DEF Stands, Closures
<1>6. Sound
  BY <1>1, <1>3, <1>4, <1>5, InPlace DEF InCall
<1>7. cb'[l] = new /\ \A m \in DeferredLists : m # l => cb'[m] = cb[m]
  BY <1>3, <1>4, ListChanged DEF Settled
<1>8. ASSUME InCall(c) \/ c.fns[c.index + 1][1] # "user", NEW f \in Fns
      PROVE  ToHear(new, f) = ToHear(c, f)
  <2>1. CASE InCall(c)
    <3>1. Reached(new) = Reached(c)
      BY <1>5, <2>1 DEF Reached, InCall
    <3>. QED BY <1>5, <3>1, HearSame
  <2>2. CASE c.at = "loop" /\ c.fns[c.index + 1][1] # "user"
    <3>1. Reached(c) = c.index /\ Reached(new) = c.index + 1
      BY <1>2, <1>5, <2>2 DEF Reached, InCall
    <3>2. new \in Closures /\ c.index < Len(c.fns)
      BY <1>1, <1>4 DEF ListOK, ClosureOK
    <3>3. c.fns[c.index + 1] # User(f)
      BY <2>2 DEF User
    <3>4. ToHear(c, f) = ToHear(new, f) + IF c.fns[Reached(c) + 1] = User(f) THEN 1 ELSE 0
      BY <1>2, <1>5, <3>1, <3>2, HearCalled
    <3>. QED BY <1>2, <3>1, <3>2, <3>3, <3>4, PlacesFinite
  <2>. QED BY <1>1, <1>8, <2>1, <2>2
<1>. QED BY <1>1, <1>5, <1>6, <1>7, <1>8 DEF Owes, InCall

(* The loop goes on after a callback.                                      *)
LEMMA Steps ==
  ASSUME Inv, NEW l \in DeferredLists, run # <<>>, l = Current, ~Working, InCall(cb[l]),
         Becomes(Moved(Now, l)), UNCHANGED <<state, threw, todo, args, given, heard>>
  PROVE  Inv' /\ Keeps
<1>1. PICK c, new : c = cb[l] /\ new = Stepped(c)
  OBVIOUS
<1>2. ListOK(l, c) /\ c \in Closures /\ c.firing /\ c.index \in Nat /\ c.index < Len(c.fns)
  <2>1. c.firing
    BY <1>1, CurrentIs DEF Inv, RunOK
  <2>. QED BY <1>1, <2>1 DEF Inv, ListsOK, ListOK, ClosureOK, Closures
<1>3. cb' = [cb EXCEPT ![l] = new] /\ run' = run
  BY <1>1, MovedIs DEF Inv, Becomes
<1>4. ListOK(l, new) /\ (l[2] # "progress" => Steady(c, new))
  BY <1>1, <1>2, SteppedOK
<1>5. /\ new.at = "loop" /\ new.firing = c.firing /\ new.fns = c.fns /\ new.index = c.index + 1
      /\ new.on = c.on /\ new.fired = c.fired
  BY <1>1, <1>2 DEF Stepped, Closures
<1>6. CbOK' /\ ListsOK' /\ cb'[l] = new /\ \A m \in DeferredLists : m # l => cb'[m] = cb[m]
  BY <1>3, <1>4, ListChanged DEF Inv
<1>7. FatesOK' /\ Keeps
  BY <1>1, <1>3, <1>4, FatesSteady DEF Inv, Keeps
<1>8. RunOK'
  BY <1>1, <1>3, <1>4, <1>5, RunSame DEF Inv
<1>9. HeardOK'
  <2>1. Reached(new) = Reached(c)
    BY <1>1, <1>2, <1>5 DEF Reached, InCall
  <2>2. \A f \in Fns : ToHear(new, f) = ToHear(c, f)
    BY <1>5, <2>1, HearSame
  <2>3. \A m \in DeferredLists : Owes(cb[m], cb'[m])
    BY <1>1, <1>5, <1>6, <2>2 DEF Owes
  <2>4. \A m \in Deferred \X Outcomes : m \in DeferredLists
    BY KindIs DEF Outcomes, DeferredLists
  <2>. QED BY <2>3, <2>4, HeardSame DEF Inv, heardVars
<1>10. TodoOK'
  <2>1. Fits(todo, run, cb, args)
    BY DEF Inv, TodoOK
  <2>2. PICK n \in Nat : n = Len(run) /\ run[n] = l /\ n > 0 /\ run \in Seq(DeferredLists)
    BY CurrentIs DEF Inv, RunOK
  <2>3. ASSUME NEW i \in DOMAIN todo
        PROVE  todo[i].depth \in Nat /\ todo[i].depth < n
    <3>1. PICK last : last = Len(todo)
      OBVIOUS
    <3>2. todo # <<>> /\ last \in DOMAIN todo /\ i \in Nat /\ i <= last
      BY <2>3, <3>1, <2>1 DEF Fits
    <3>3. todo[last].depth # n
      BY <2>2, <3>1, <3>2 DEF Working, Last
    <3>4. todo[last].depth <= n /\ todo[i].depth <= todo[last].depth
      BY <2>1, <2>2, <3>2 DEF Fits
    <3>5. todo[last].depth \in Nat /\ todo[i].depth \in Nat
      BY <2>1, <3>2, FitsIs
    <3>. QED BY <2>2, <3>3, <3>4, <3>5
  <2>4. ASSUME NEW i \in DOMAIN todo, todo[i].depth > 0
        PROVE  InCall(cb'[run[todo[i].depth]])
    <3>1. PICK d : d = todo[i].depth
      OBVIOUS
    <3>2. d \in Nat /\ d < n /\ d > 0 /\ InCall(cb[run[d]])
      BY <2>1, <2>3, <2>4, <3>1 DEF Fits
    <3>3. d \in DOMAIN run /\ n \in DOMAIN run /\ d # n /\ run[d] \in DeferredLists
      BY <2>2, <3>2
    <3>4. run[d] # l
      BY <2>2, <3>3 DEF Inv, RunOK
    <3>. QED BY <1>6, <3>1, <3>2, <3>3, <3>4
  <2>5. Fits(todo, run, cb', args)
    BY <2>1, <2>4 DEF Fits
  <2>. QED BY <1>3, <2>5 DEF Inv, TodoOK
<1>. QED BY <1>6, <1>7, <1>8, <1>9, <1>10 DEF Inv, StateOK

-----------------------------------------------------------------------------
(* The actions.                                                            *)
LEMMA OutcomeLists == \A l \in Deferred \X Outcomes : l \in DeferredLists /\ l[2] # "progress"
BY KindIs DEF Outcomes, DeferredLists

LEMMA OwnIs ==
  ASSUME NEW e \in Own
  PROVE  e \in Later /\ e[1] # "user" /\ \A f : e # User(f)
BY DEF Own, Later, User

LEMMA Together ==
  ASSUME Inv, Sound, StateOK', TodoOK', UNCHANGED heardVars,
         \A l \in Deferred \X Outcomes :
            Owes(cb[l], cb'[l]) \/ (~cb'[l].on /\ ~cb[l].fired /\ ~cb'[l].fired)
  PROVE  Inv' /\ Keeps
BY HeardSame DEF Inv, Sound

LEMMA InvIsSettled == Inv => Settled
BY DEF Inv, Settled

LEMMA WorkOK == ASSUME Inv, Work PROVE Inv' /\ Keeps
<1>1. Working /\ NoLoop /\ Settled
  BY WorkingHasNoLoop, InvIsSettled DEF Work
<1>2. PICK c : c = Last(todo).call
  OBVIOUS
<1>3. c \in CallsOf(args) /\ Fits(Front(todo), run, cb, args)
  BY <1>1, <1>2, FitsFront DEF Inv, TodoOK, Working
<1>4. /\ Becomes(IF c[1] = "add" THEN Added(Now, c[2], c[3]) ELSE FiredWith(Now, c[2], c[3]))
      /\ c[1] \in {"add", "fire"} /\ todo' = Front(todo) /\ args' = args
      /\ UNCHANGED <<state, threw>> /\ UNCHANGED heardVars
  BY <1>2 DEF Work, whenVars, heardVars
<1>5. CASE c[1] = "add"
  <2>1. PICK l, e : l = c[2] /\ e = c[3]
    OBVIOUS
  <2>2. l \in DeferredLists /\ e \in Own
    BY <1>3, <1>5, <2>1 DEF CallsOf
  <2>3. e \in Later /\ \A f \in Fns : e # User(f)
    BY <2>2, OwnIs
  <2>4. Becomes(Added(Now, l, e))
    BY <1>4, <1>5, <2>1
  <2>5. /\ Sound
        /\ \A m \in DeferredLists : m # l => cb'[m] = cb[m]
        /\ cb'[l].on = cb[l].on /\ cb'[l].fired = cb[l].fired
        /\ cb[l].on /\ l[2] # "progress" => \A f \in Fns :
              ToHear(cb'[l], f) = ToHear(cb[l], f) + IF e = User(f) THEN 1 ELSE 0
    BY <1>1, <1>4, <2>2, <2>3, <2>4, Adds
  <2>6. \A m \in DeferredLists : cb[m] \in Closures /\ cb'[m] \in Closures
    BY <2>5 DEF Inv, Sound, ListsOK, ListOK, ClosureOK
  <2>7. cb[l].on /\ l[2] # "progress" => \A f \in Fns : ToHear(cb'[l], f) = ToHear(cb[l], f)
    <3>1. cb[l] \in Closures
      BY <2>2, <2>6
    <3>2. \A f \in Fns : ToHear(cb[l], f) \in Nat
      BY <3>1, PlacesFinite
    <3>. QED BY <2>3, <2>5, <3>2
  <2>8. l[2] # "progress" =>
          \A f \in Fns : cb[l].on => ToHear(cb'[l], f) = ToHear(cb[l], f)
    BY <2>7
  <2>9. HeardOK'
    <3>1. ASSUME ~threw, NEW m \in Deferred \X Outcomes PROVE Counted(cb'[m], given[m], heard[m])
      <4>1. Counted(cb[m], given[m], heard[m]) /\ m \in DeferredLists /\ m[2] # "progress"
        BY <3>1, OutcomeLists DEF Inv, HeardOK
      <4>. QED BY <2>5, <2>8, <4>1 DEF Counted
    <3>. QED BY <1>4, <3>1 DEF Inv, HeardOK, heardVars
  <2>10. TodoOK'
    BY <1>3, <1>4, <2>5 DEF Inv, TodoOK, Sound
  <2>. QED BY <1>4, <2>5, <2>9, <2>10 DEF Inv, Sound, StateOK
<1>6. CASE c[1] = "fire"
  <2>1. PICK l, v : l = c[2] /\ v = c[3]
    OBVIOUS
  <2>2. l \in DeferredLists /\ v \in Values
    BY <1>3, <1>6, <2>1 DEF CallsOf
  <2>3. Becomes(FiredWith(Now, l, v))
    BY <1>4, <1>6, <2>1
  <2>4. /\ Sound
        /\ \A m \in DeferredLists : m # l => cb'[m] = cb[m]
        /\ l[2] # "progress" => Owes(cb[l], cb'[l])
    BY <1>1, <1>4, <2>2, <2>3, Fires
  <2>5. \A m \in Deferred \X Outcomes : Owes(cb[m], cb'[m])
    BY <2>4, OutcomeLists DEF Owes
  <2>6. TodoOK'
    BY <1>3, <1>4, <2>4 DEF Inv, TodoOK, Sound
  <2>. QED BY <1>4, <2>4, <2>5, <2>6, Together DEF Inv, StateOK
<1>. QED BY <1>4, <1>5, <1>6

LEMMA ObserveOK == ASSUME Inv, Observe PROVE Inv' /\ Keeps
<1>1. Working /\ Settled /\ (run # <<>> => InCall(cb[Current]))
  BY WorkingHasNoLoop, InvIsSettled DEF Observe
<1>2. PICK c, rest : c = Last(todo).call /\ rest = Front(todo)
  OBVIOUS
<1>3. c \in CallsOf(args) /\ Fits(rest, run, cb, args)
  BY <1>1, <1>2, FitsFront DEF Inv, TodoOK, Working
<1>4. PICK i : i = c[2]
  OBVIOUS
<1>5. i \in DOMAIN args /\ i \in Nat
  BY <1>2, <1>3, <1>4 DEF Observe, CallsOf, Inv, TodoOK
<1>6. UNCHANGED <<cb, run, state, threw, args>> /\ UNCHANGED heardVars
  BY DEF Observe, callbackVars, heardVars
<1>7. Sound
  BY <1>1, <1>6, NothingDone
<1>8. Fits(todo', run, cb, args)
  <2>1. CASE args[i] = Plain
    BY <1>2, <1>3, <1>4, <2>1 DEF Observe
  <2>2. CASE args[i] # Plain
    <3>1. PICK d : d = args[i]
      OBVIOUS
    <3>2. d \in Given
      BY <1>5, <2>2, <3>1 DEF Inv, TodoOK
    <3>3. PICK a1, a2, a3 : /\ a1 = <<"add", <<d, "done">>, <<"update", i>> >>
                            /\ a2 = <<"add", <<d, "fail">>, <<"forward", <<Master, "fail">>>> >>
                            /\ a3 = <<"add", <<d, "progress">>, <<"update", i>> >>
      OBVIOUS
    <3>4. /\ <<d, "done">> \in DeferredLists /\ <<d, "fail">> \in DeferredLists
          /\ <<d, "progress">> \in DeferredLists /\ <<Master, "fail">> \in DeferredLists
      BY <3>2, KindIs DEF DeferredLists, Deferred
    <3>5. <<"update", i>> \in Own /\ <<"forward", <<Master, "fail">>>> \in Own
      BY <1>5, <3>4 DEF Own
    <3>6. a1 \in CallsOf(args) /\ a2 \in CallsOf(args) /\ a3 \in CallsOf(args)
      BY <3>3, <3>4, <3>5 DEF CallsOf
    <3>7. <<a1, a2, a3>> \in Seq(CallsOf(args))
      BY <3>6
    <3>8. todo' = Before(rest, <<a1, a2, a3>>)
      BY <1>2, <1>4, <2>2, <3>1, <3>3 DEF Observe
    <3>. QED BY <1>1, <1>3, <3>7, <3>8, FitsBefore DEF Settled
  <2>. QED BY <2>1, <2>2
<1>9. TodoOK'
  BY <1>6, <1>8 DEF Inv, TodoOK
<1>10. \A m \in Deferred \X Outcomes : Owes(cb[m], cb'[m])
  BY <1>6 DEF Owes
<1>. QED BY <1>6, <1>7, <1>9, <1>10, Together DEF Inv, StateOK

LEMMA FinishOK == ASSUME Inv, Finish PROVE Inv' /\ Keeps
<1>1. Working /\ Settled /\ (run # <<>> => InCall(cb[Current]))
  BY WorkingHasNoLoop, InvIsSettled DEF Finish
<1>2. PICK rest : rest = Front(todo)
  OBVIOUS
<1>3. Fits(rest, run, cb, args)
  BY <1>1, <1>2, FitsFront DEF Inv, TodoOK, Working
<1>6. UNCHANGED <<cb, run, state, threw, args>> /\ UNCHANGED heardVars
  BY DEF Finish, callbackVars, heardVars, whenVars
<1>7. Sound
  BY <1>1, <1>6, NothingDone
<1>8. Fits(todo', run, cb, args)
  <2>1. PICK v : v = CHOOSE w \in Values : TRUE
    OBVIOUS
  <2>2. v \in Values
    BY <2>1, ValuesAssumption
  <2>3. <<Master, "done">> \in DeferredLists
    BY KindIs DEF DeferredLists, Deferred
  <2>4. <<"fire", <<Master, "done">>, v>> \in CallsOf(args)
    BY <2>2, <2>3 DEF CallsOf
  <2>5. Answer("done", v) \in Seq(CallsOf(args)) /\ <<>> \in Seq(CallsOf(args))
    BY <2>4 DEF Answer
  <2>6. PICK calls \in Seq(CallsOf(args)) : todo' = Before(rest, calls)
    BY <1>2, <2>1, <2>5 DEF Finish
  <2>. QED BY <1>1, <1>3, <2>6, FitsBefore DEF Settled
<1>9. TodoOK'
  BY <1>6, <1>8 DEF Inv, TodoOK
<1>10. \A m \in Deferred \X Outcomes : Owes(cb[m], cb'[m])
  BY <1>6 DEF Owes
<1>. QED BY <1>6, <1>7, <1>9, <1>10, Together DEF Inv, StateOK

LEMMA ThrowsOK == ASSUME Inv, Throws PROVE Inv' /\ Keeps
<1>1. /\ InUser /\ run' = <<>> /\ todo' = <<>> /\ threw' = TRUE
      /\ UNCHANGED <<cb, state, args, given, heard>>
  BY DEF Throws, Throw, whenVars
<1>2. NoLoop
  BY <1>1, UsersHaveNoLoop
<1>3. CbOK' /\ ListsOK' /\ StateOK' /\ FatesOK' /\ Keeps
  BY <1>1 DEF Inv, CbOK, ListsOK, StateOK, FatesOK, Keeps, ValuesKept, OutcomesKept
<1>4. RunOK'
  BY <1>1, <1>2 DEF RunOK, NoLoop
<1>5. TodoOK'
  BY <1>1 DEF Inv, TodoOK, Fits
<1>6. HeardOK'
  BY <1>1 DEF Inv, HeardOK
<1>. QED BY <1>3, <1>4, <1>5, <1>6 DEF Inv

(* A loop that ends leaves nothing it should have called.                  *)
LEMMA EndLoopOK ==
  ASSUME Inv, NEW l \in DeferredLists, EndLoop(l), UNCHANGED <<state, threw, todo, args, given, heard>>
  PROVE  Inv' /\ Keeps
<1>0. Settled
  BY InvIsSettled
<1>1. run # <<>> /\ l = Current /\ cb[l].at = "loop" /\ Becomes(Returned(Now, l)) /\ ~More(l)
  BY DEF EndLoop, Looping
<1>2. PICK c : c = cb[l]
  OBVIOUS
<1>3. ListOK(l, c) /\ c \in Closures /\ c.firing /\ c.fired /\ c.on /\ c.memory # NoValue
      /\ c.index = Len(c.fns)
  <2>1. ListOK(l, c) /\ c.firing
    BY <1>1, <1>2, CurrentIs DEF Inv, ListsOK, RunOK
  <2>2. c \in Closures /\ c.index \in Nat /\ c.length \in Nat /\ c.fired
    BY <2>1 DEF ListOK, ClosureOK, Closures
  <2>3. c.on /\ c.memory # NoValue /\ c.length = Len(c.fns) /\ c.index <= c.length
    BY <2>1, <2>2, ValuesAssumption DEF ListOK, ClosureOK
  <2>4. ~(c.index < c.length)
    BY <1>1, <1>2, <2>3 DEF More
  <2>. QED BY <2>1, <2>2, <2>3, <2>4
<1>4. cb' = Returned(Now, l).cb /\ run' = Returned(Now, l).run
  BY <1>1 DEF Becomes
<1>5. ASSUME NEW new, ListOK(l, new), ~new.firing, l[2] # "progress" => Steady(c, new) /\ Owes(c, new),
             cb' = [cb EXCEPT ![l] = new], run' = Front(run)
      PROVE  Inv' /\ Keeps
  <2>1. CbOK' /\ ListsOK' /\ cb'[l] = new /\ \A m \in DeferredLists : m # l => cb'[m] = cb[m]
    BY <1>5, ListChanged DEF Inv
  <2>2. FatesOK' /\ Keeps
    BY <1>2, <1>5, FatesSteady DEF Inv, Keeps
  <2>3. RunOK'
    BY <1>1, <1>5, RunPopped DEF Inv
  <2>4. TodoOK'
    <3>1. Fits(todo, run, cb, args)
      BY DEF Inv, TodoOK
    <3>2. Fits(todo, run', cb', args)
      BY <1>1, <1>5, <3>1, FitsPopped DEF Inv
    <3>. QED BY <3>2 DEF Inv, TodoOK
  <2>5. \A m \in Deferred \X Outcomes : Owes(cb[m], cb'[m])
    BY <1>2, <1>5, <2>1, OutcomeLists DEF Owes
  <2>6. HeardOK'
    BY <2>5, HeardSame DEF Inv, heardVars
  <2>. QED BY <2>1, <2>2, <2>3, <2>4, <2>6 DEF Inv, StateOK
<1>6. CASE ~c.repeats /\ run' = Front(run) /\ cb' = [cb EXCEPT ![l] = [Over(c) EXCEPT !.fns = <<>>]]
  <2>1. PICK new : new = [Over(c) EXCEPT !.fns = <<>>]
    OBVIOUS
  <2>2. ListOK(l, new) /\ (l[2] # "progress" => Steady(c, new))
    BY <1>3, <2>1, OverOK
  <2>3. ~new.firing /\ new.on = c.on /\ new.fired = c.fired /\ new.fns = <<>> /\ new \in Closures
    BY <1>3, <2>1, <2>2 DEF Over, Closures, ListOK, ClosureOK
  <2>4. Reached(c) >= Len(c.fns) /\ Reached(new) >= Len(new.fns)
    <3>1. Reached(c) = c.index
      BY <1>1, <1>2, <1>3, ReachedIs
    <3>2. Reached(new) = 0
      BY <2>3 DEF Reached
    <3>3. c.index \in Nat
      BY <1>3 DEF Closures
    <3>. QED BY <1>3, <2>3, <3>1, <3>2, <3>3
  <2>5. \A f \in Fns : ToHear(c, f) = 0 /\ ToHear(new, f) = 0
    <3>1. c \in Closures /\ new \in Closures
      BY <1>3, <2>3
    <3>. QED BY <2>4, <3>1, HearNone
  <2>6. Owes(c, new)
    BY <2>3, <2>5 DEF Owes
  <2>. QED BY <1>5, <1>6, <2>1, <2>2, <2>3, <2>6
<1>7. CASE c.repeats /\ c.queue = <<>> /\ run' = Front(run) /\ cb' = [cb EXCEPT ![l] = Over(c)]
  <2>1. l[2] = "progress"
    BY <1>3, <1>7 DEF ListOK, CallbacksOK
  <2>2. PICK new : new = Over(c)
    OBVIOUS
  <2>3. ListOK(l, new)
    BY <1>3, <2>1, <2>2, OverOK
  <2>4. ~new.firing
    BY <1>3, <2>2 DEF Over, Closures
  <2>. QED BY <1>5, <1>7, <2>1, <2>2, <2>3, <2>4
<1>8. CASE /\ c.repeats /\ c.queue # <<>> /\ run' = Append(Front(run), l)
           /\ cb' = [cb EXCEPT ![l] = Begun([Over(c) EXCEPT !.queue = Tail(c.queue)], Head(c.queue), 0)]
  <2>1. l[2] = "progress"
    BY <1>3, <1>8 DEF ListOK, CallbacksOK
  <2>2. PICK q, v : q = Tail(c.queue) /\ v = Head(c.queue)
    OBVIOUS
  <2>3. q \in Seq(Values) /\ v \in Values
    <3>1. c.queue \in Seq(Values)
      BY <1>3 DEF Closures
    <3>. QED BY <1>8, <2>2, <3>1
  <2>4. PICK idle, new : idle = [Over(c) EXCEPT !.queue = q] /\ new = Begun(idle, v, 0)
    OBVIOUS
  <2>5. ListOK(l, Over(c))
    BY <1>3, <2>1, OverOK
  <2>6. ListOK(l, idle)
    BY <2>3, <2>4, <2>5, QueueOK
  <2>7. idle.on /\ ~idle.firing
    BY <1>3, <2>4 DEF Over, Closures
  <2>8. ListOK(l, new)
    BY <2>1, <2>3, <2>4, <2>6, <2>7, BegunOK
  <2>9. new.firing /\ new.at = "loop"
    BY <1>3, <2>4 DEF Begun, Over, Closures
  <2>10. run' = run
    <3>1. run \in Seq(DeferredLists) /\ l = run[Len(run)]
      BY <1>1, CurrentIs DEF Inv, RunOK
    <3>2. PICK n \in Nat \ {0} : n = Len(run) /\ DOMAIN run = 1..n
      BY <1>1, <3>1
    <3>3. /\ Front(run) \in Seq(DeferredLists) /\ Len(Front(run)) = n - 1
          /\ \A i \in 1..(n - 1) : Front(run)[i] = run[i]
      BY <1>1, <3>1, <3>2, FrontIs
    <3>4. PICK front : front = Front(run)
      OBVIOUS
    <3>5. /\ Append(front, l) \in Seq(DeferredLists) /\ Len(Append(front, l)) = n
          /\ \A i \in 1..n : Append(front, l)[i] = run[i]
      BY <3>1, <3>2, <3>3, <3>4
    <3>. QED BY <1>8, <3>1, <3>2, <3>4, <3>5
  <2>11. cb' = [cb EXCEPT ![l] = new]
    BY <1>8, <2>2, <2>4
  <2>12. c.firing = new.firing
    BY <1>3, <2>9
  <2>13. Sound
    BY <1>0, <1>1, <1>2, <2>1, <2>8, <2>9, <2>10, <2>11, <2>12, InPlace DEF InCall
  <2>14. \A m \in Deferred \X Outcomes : Owes(cb[m], cb'[m])
    <3>1. \A m \in DeferredLists : m # l => cb'[m] = cb[m]
      BY <2>8, <2>11, ListChanged DEF Inv
    <3>. QED BY <2>1, <3>1, OutcomeLists DEF Owes
  <2>15. TodoOK'
    BY <2>13 DEF Inv, TodoOK, Sound
  <2>. QED BY <2>13, <2>14, <2>15, Together DEF Inv, StateOK, heardVars
<1>. QED BY <1>2, <1>3, <1>4, <1>6, <1>7, <1>8, ReturnedIs DEF Inv

LEMMA LoopOK ==
  ASSUME Inv, NEW l \in Lists, Loop(l)
  PROVE  Inv' /\ Keeps
<1>1. ~Working /\ UNCHANGED <<state, threw, todo, args, given, heard>>
  BY DEF Loop, whenVars, heardVars
<1>2. run # <<>> => Current \in DeferredLists
  BY CurrentIs DEF Inv
<1>3. CASE EndLoop(l)
  BY <1>1, <1>2, <1>3, EndLoopOK DEF EndLoop, Looping
<1>4. CASE CallNothing(l)
  <2>1. l \in DeferredLists /\ run # <<>> /\ l = Current
    BY <1>2, <1>4 DEF CallNothing, Looping
  <2>2. cb[l].firing /\ ClosureOK(cb[l]) /\ cb[l].index < cb[l].length /\ cb[l].index >= Len(cb[l].fns)
    BY <1>4, <2>1, CurrentIs DEF CallNothing, More, Inv, RunOK, ListsOK, ListOK
  <2>3. cb[l].index \in Nat /\ cb[l].length \in Nat /\ cb[l].length = Len(cb[l].fns)
    BY <2>2 DEF ClosureOK, Closures
  <2>. QED BY <2>2, <2>3
<1>5. CASE Return(l)
  <2>1. run # <<>> /\ l = Current /\ InCall(cb[l]) /\ l \in DeferredLists /\ Becomes(Moved(Now, l))
    BY <1>2, <1>5 DEF Return, InUser, InCall
  <2>. QED BY <1>1, <2>1, Steps
<1>6. CASE ReturnFalse(l)
  BY <1>2, <1>6, FlagsAre DEF ReturnFalse, InUser, Stops
<1>. QED BY <1>3, <1>4, <1>5, <1>6 DEF Loop

LEMMA InternalIs ==
  ASSUME Inv, NEW l \in DeferredLists, Internal(l)
  PROVE  /\ ~Working /\ run # <<>> /\ l = Current /\ cb[l].at = "loop"
         /\ ListOK(l, cb[l]) /\ cb[l] \in Closures /\ cb[l].firing /\ cb[l].fired
         /\ cb[l].index \in Nat /\ cb[l].index < Len(cb[l].fns) /\ cb[l].data \in Values
         /\ cb[l].index + 1 \in DOMAIN cb[l].fns /\ Entry(l) = cb[l].fns[cb[l].index + 1]
<1>1. ~Working /\ run # <<>> /\ l = Current /\ cb[l].at = "loop" /\ cb[l].index < Len(cb[l].fns)
  BY DEF Internal, Looping
<1>2. ListOK(l, cb[l]) /\ cb[l].firing
  BY <1>1, CurrentIs DEF Inv, ListsOK, RunOK
<1>3. /\ cb[l] \in Closures /\ cb[l].fired /\ cb[l].index \in Nat /\ cb[l].data \in Values
      /\ cb[l].fns \in Seq(Early \cup Later)
  BY <1>2 DEF ListOK, ClosureOK, Closures
<1>. QED BY <1>1, <1>2, <1>3 DEF Entry

LEMMA CallThenOK == ASSUME Inv, NEW l \in DeferredLists, CallThen(l) PROVE Inv' /\ Keeps
<1>1. Internal(l) /\ Entry(l)[1] = "then" /\ cb' = [cb EXCEPT ![l].at = "user"]
      /\ UNCHANGED <<run, state, threw, todo, args>> /\ UNCHANGED heardVars
  BY DEF CallThen, whenVars, heardVars
<1>2. Entry(l) \in Later /\ Entry(l) = cb[l].fns[cb[l].index + 1]
  BY <1>1, InternalIs, EntriesAre
<1>3. cb' = [cb EXCEPT ![l] = Stands(@, "user")]
  BY <1>1 DEF Stands
<1>4. /\ Sound
      /\ \A m \in DeferredLists : m # l => cb'[m] = cb[m]
      /\ Owes(cb[l], cb'[l])
  BY <1>1, <1>2, <1>3, InternalIs, InvIsSettled, Waits
<1>5. TodoOK'
  BY <1>1, <1>4 DEF Inv, TodoOK, Sound
<1>6. \A m \in Deferred \X Outcomes : Owes(cb[m], cb'[m])
  BY <1>4, OutcomeLists DEF Owes
<1>. QED BY <1>1, <1>4, <1>5, <1>6, Together DEF Inv, StateOK

(* A callback of jQuery's own, or a function given to then(), that makes   *)
(* calls of methods.                                                       *)
LEMMA RunsOK ==
  ASSUME Inv, NEW l \in DeferredLists, run # <<>>, l = Current, cb[l].index < Len(cb[l].fns),
         \/ InCall(cb[l])
         \/ cb[l].at = "loop" /\ Entry(l) \in Later /\ Entry(l)[1] # "user",
         Runs(l, Now), NEW calls \in Seq(CallsOf(args)), todo' \in {Queued(calls), todo},
         UNCHANGED <<state, args>>, UNCHANGED heardVars
  PROVE  Inv' /\ Keeps
<1>1. cb' = [cb EXCEPT ![l] = Stands(@, "wait")] /\ run' = run /\ threw' = threw
  BY DEF Runs, Becomes, Now, Stands, heardVars
<1>2. /\ Sound /\ InCall(cb'[l])
      /\ \A m \in DeferredLists : m # l => cb'[m] = cb[m]
      /\ Owes(cb[l], cb'[l])
  BY <1>1, InvIsSettled, Waits DEF Entry
<1>3. Fits(todo, run, cb', args)
  BY <1>1, <1>2 DEF Inv, TodoOK, Sound
<1>4. Fits(Queued(calls), run, cb', args)
  BY <1>2, <1>3, FitsBefore DEF Inv, Queued
<1>5. TodoOK'
  BY <1>1, <1>3, <1>4 DEF Inv, TodoOK
<1>6. \A m \in Deferred \X Outcomes : Owes(cb[m], cb'[m])
  BY <1>2, OutcomeLists DEF Owes
<1>. QED BY <1>2, <1>5, <1>6, Together DEF Inv, StateOK

LEMMA CallForwardOK == ASSUME Inv, NEW l \in DeferredLists, CallForward(l) PROVE Inv' /\ Keeps
<1>1. Internal(l) /\ Entry(l)[1] = "forward" /\ Runs(l, Now)
      /\ todo' = Queued(<< <<"fire", Entry(l)[2], cb[l].data>> >>)
      /\ UNCHANGED <<state, args>> /\ UNCHANGED heardVars
  BY DEF CallForward, whenVars, heardVars
<1>2. PICK e : e = Entry(l)
  OBVIOUS
<1>3. e \in Later /\ e[1] = "forward" /\ cb[l].data \in Values
  BY <1>1, <1>2, InternalIs, EntriesAre
<1>4. e[2] \in DeferredLists
  BY <1>3 DEF Later, Own
<1>5. PICK call : call = <<"fire", e[2], cb[l].data>>
  OBVIOUS
<1>6. call \in CallsOf(args)
  BY <1>3, <1>4, <1>5 DEF CallsOf
<1>7. <<call>> \in Seq(CallsOf(args)) /\ todo' = Queued(<<call>>)
  BY <1>1, <1>2, <1>5, <1>6
<1>. QED BY <1>1, <1>2, <1>3, <1>7, InternalIs, RunsOK

LEMMA MasterIsTold ==
  ASSUME NEW a, NEW v \in Values, NEW k \in Kind
  PROVE  Answer(k, v) \in Seq(CallsOf(a))
<1>1. <<Master, k>> \in DeferredLists
  BY DEF DeferredLists, Deferred
<1>2. <<"fire", <<Master, k>>, v>> \in CallsOf(a)
  BY <1>1 DEF CallsOf
<1>. QED BY <1>2 DEF Answer

LEMMA CallUpdateOK == ASSUME Inv, NEW l \in DeferredLists, CallUpdate(l) PROVE Inv' /\ Keeps
<1>1. Internal(l) /\ Entry(l)[1] = "update" /\ Runs(l, Now)
      /\ todo' \in {Queued(Answer("done", cb[l].data)), todo}
      /\ UNCHANGED <<state, args>> /\ UNCHANGED heardVars
  BY DEF CallUpdate, heardVars
<1>2. Entry(l) \in Later /\ Entry(l)[1] # "user" /\ cb[l].data \in Values
  BY <1>1, InternalIs, EntriesAre
<1>3. Answer("done", cb[l].data) \in Seq(CallsOf(args))
  BY <1>2, KindIs, MasterIsTold
<1>. QED BY <1>1, <1>2, <1>3, InternalIs, RunsOK

LEMMA CallTellOK == ASSUME Inv, NEW l \in DeferredLists, CallTell(l) PROVE Inv' /\ Keeps
<1>1. Internal(l) /\ Entry(l)[1] = "update" /\ Runs(l, Now)
      /\ todo' \in {Queued(Answer("progress", cb[l].data)), todo}
      /\ UNCHANGED <<state, args>> /\ UNCHANGED heardVars
  BY DEF CallTell, heardVars, whenVars
<1>2. Entry(l) \in Later /\ Entry(l)[1] # "user" /\ cb[l].data \in Values
  BY <1>1, InternalIs, EntriesAre
<1>3. Answer("progress", cb[l].data) \in Seq(CallsOf(args))
  BY <1>2, KindIs, MasterIsTold
<1>. QED BY <1>1, <1>2, <1>3, InternalIs, RunsOK

LEMMA ResumeOK == ASSUME Inv, NEW l \in DeferredLists, Resume(l) PROVE Inv' /\ Keeps
BY Steps DEF Resume, InCall, whenVars, heardVars

LEMMA InThenIs ==
  ASSUME Inv, NEW l \in DeferredLists, InThen(l)
  PROVE  run # <<>> /\ l = Current /\ InCall(cb[l]) /\ cb[l].index < Len(cb[l].fns)
<1>1. run # <<>> /\ l = Current /\ InCall(cb[l]) /\ cb[l].firing /\ ListOK(l, cb[l])
  BY CurrentIs DEF InThen, InUser, InCall, Inv, RunOK, ListsOK
<1>. QED BY <1>1 DEF ListOK, ClosureOK

LEMMA ReturnValueOK ==
  ASSUME Inv, NEW l \in DeferredLists, NEW v \in Values, ReturnValue(l, v)
  PROVE  Inv' /\ Keeps
<1>1. InThen(l) /\ Runs(l, Now) /\ todo' = Queued(<< <<"fire", <<Child, l[2]>>, v>> >>)
      /\ UNCHANGED <<state, args>> /\ UNCHANGED heardVars
  BY DEF ReturnValue, whenVars, heardVars
<1>2. <<Child, l[2]>> \in DeferredLists
  BY ListsOfDeferred DEF DeferredLists, Deferred
<1>3. <<"fire", <<Child, l[2]>>, v>> \in CallsOf(args)
  BY <1>2 DEF CallsOf
<1>4. << <<"fire", <<Child, l[2]>>, v>> >> \in Seq(CallsOf(args))
  BY <1>3
<1>. QED BY <1>1, <1>4, InThenIs, RunsOK

LEMMA ReturnPromiseOK ==
  ASSUME Inv, NEW l \in DeferredLists, NEW d \in Given, ReturnPromise(l, d)
  PROVE  Inv' /\ Keeps
<1>1. InThen(l) /\ Runs(l, Now) /\ todo' = Queued(PassOn(d, Child))
      /\ UNCHANGED <<state, args>> /\ UNCHANGED heardVars
  BY DEF ReturnPromise, whenVars, heardVars
<1>2. ASSUME NEW k \in 1..3
      PROVE  <<"add", <<d, Kinds[k]>>, <<"forward", <<Child, Kinds[k]>>>> >> \in CallsOf(args)
  <2>1. Kinds[k] \in Kind
    BY DEF Kind, Kinds, Range
  <2>2. <<d, Kinds[k]>> \in DeferredLists /\ <<Child, Kinds[k]>> \in DeferredLists
    BY <2>1 DEF DeferredLists, Deferred
  <2>3. <<"forward", <<Child, Kinds[k]>>>> \in Own
    BY <2>2 DEF Own
  <2>. QED BY <2>2, <2>3 DEF CallsOf
<1>3. PassOn(d, Child) \in Seq(CallsOf(args))
  BY <1>2 DEF PassOn
<1>. QED BY <1>1, <1>3, InThenIs, RunsOK

LEMMA CallHandlerOK == ASSUME Inv, NEW l \in Lists, CallHandler(l) PROVE Inv' /\ Keeps
<1>1. /\ run # <<>> /\ l = Current /\ cb[l].at = "loop" /\ cb[l].index < Len(cb[l].fns)
      /\ Entry(l)[1] = "user" /\ cb' = [cb EXCEPT ![l].at = "user"]
      /\ heard' = IF l \in DeferredLists THEN [heard EXCEPT ![l][Entry(l)[2]] = @ + 1] ELSE heard
      /\ UNCHANGED <<run, state, threw, todo, args, given>>
  BY DEF CallHandler, CallUser, Looping, whenVars
<1>2. l \in DeferredLists /\ ListOK(l, cb[l]) /\ cb[l].firing
  BY <1>1, CurrentIs DEF Inv, RunOK, ListsOK
<1>3. /\ cb[l] \in Closures /\ cb[l].index \in Nat /\ cb[l].index + 1 \in DOMAIN cb[l].fns
      /\ Entry(l) = cb[l].fns[cb[l].index + 1] /\ cb[l].fired
  BY <1>1, <1>2 DEF ListOK, ClosureOK, Closures, Entry
<1>4. Entry(l) \in Later
  BY <1>1, <1>2, <1>3, EntriesAre
<1>5. PICK f : f = Entry(l)[2]
  OBVIOUS
<1>6. f \in Fns /\ Entry(l) = User(f)
  BY <1>1, <1>4, <1>5 DEF Later, Own, User
<1>7. cb' = [cb EXCEPT ![l] = Stands(@, "user")]
  BY <1>1 DEF Stands
<1>8. /\ Sound
      /\ \A m \in DeferredLists : m # l => cb'[m] = cb[m]
  BY <1>1, <1>2, <1>3, <1>4, <1>7, InvIsSettled, Waits, Zenon
<1>9. TodoOK'
  BY <1>1, <1>8 DEF Inv, TodoOK, Sound
<1>10. PICK c, new : c = cb[l] /\ new = cb'[l]
  OBVIOUS
<1>11. new.fns = c.fns /\ new.on = c.on /\ new.fired = c.fired /\ new.firing = c.firing
       /\ new.index = c.index /\ new.at = "user"
  BY <1>1, <1>2, <1>3, <1>10, ListsAssumption DEF Inv, CbOK, Closures
<1>12. new \in Closures
  BY <1>2, <1>8, <1>10 DEF Sound, ListsOK, ListOK, ClosureOK
<1>13. Reached(c) = c.index /\ Reached(new) = c.index + 1
  <2>1. Reached(c) = c.index
    BY <1>1, <1>2, <1>10, ReachedIs
  <2>2. Reached(new) = c.index + 1
    BY <1>2, <1>10, <1>11 DEF Reached, InCall
  <2>. QED BY <2>1, <2>2
<1>14. ASSUME NEW g \in Fns
       PROVE  /\ ToHear(c, g) \in Nat /\ ToHear(new, g) \in Nat
              /\ ToHear(c, g) = ToHear(new, g) + IF g = f THEN 1 ELSE 0
  <2>1. c \in Closures /\ Reached(c) < Len(c.fns) /\ c.fns[Reached(c) + 1] = User(f)
    BY <1>1, <1>3, <1>6, <1>10, <1>13
  <2>2. ToHear(c, g) = ToHear(new, g) + IF c.fns[Reached(c) + 1] = User(g) THEN 1 ELSE 0
    BY <1>11, <1>12, <1>13, <2>1, HearCalled
  <2>3. User(f) = User(g) <=> g = f
    BY DEF User
  <2>. QED BY <1>12, <2>1, <2>2, <2>3, PlacesFinite
<1>15. l \in Deferred \X Kind
  BY <1>2 DEF DeferredLists
<1>16. heard' \in [Deferred \X Kind -> [Fns -> Nat]]
  <2>1. PICK old : old = heard[l]
    OBVIOUS
  <2>2. old \in [Fns -> Nat]
    BY <1>15, <2>1 DEF Inv, HeardOK
  <2>3. [old EXCEPT ![f] = @ + 1] \in [Fns -> Nat]
    BY <1>6, <2>2
  <2>4. heard' = [heard EXCEPT ![l] = [old EXCEPT ![f] = @ + 1]]
    BY <1>1, <1>2, <1>5, <2>1
  <2>. QED BY <1>15, <2>3, <2>4 DEF Inv, HeardOK
<1>17. ASSUME ~threw, NEW m \in Deferred \X Outcomes
       PROVE  Counted(cb'[m], given[m], heard'[m])
  <2>1. Counted(cb[m], given[m], heard[m]) /\ m \in DeferredLists /\ m \in Deferred \X Kind
    BY <1>17, OutcomeLists DEF Inv, HeardOK, DeferredLists
  <2>2. CASE m # l
    <3>1. heard'[m] = heard[m]
      BY <1>1, <1>2, <1>15, <2>1, <2>2 DEF Inv, HeardOK
    <3>. QED BY <1>8, <2>1, <2>2, <3>1
  <2>3. CASE m = l
    <3>1. given[l] \in [Fns -> Nat] /\ heard[l] \in [Fns -> Nat]
      BY <1>15 DEF Inv, HeardOK
    <3>2. ASSUME NEW g \in Fns PROVE heard'[l][g] = heard[l][g] + IF g = f THEN 1 ELSE 0
      BY <1>1, <1>2, <1>5, <1>15, <3>1 DEF Inv, HeardOK
    <3>3. ASSUME NEW g \in Fns, new.on PROVE given[l][g] = heard'[l][g] + ToHear(new, g)
      <4>1. given[l][g] = heard[l][g] + ToHear(c, g)
        BY <1>10, <1>11, <2>1, <2>3, <3>3 DEF Counted
      <4>2. heard[l][g] \in Nat
        BY <3>1
      <4>. QED BY <1>14, <3>2, <4>1, <4>2
    <3>. QED BY <1>3, <1>10, <1>11, <2>3, <3>3 DEF Counted
  <2>. QED BY <2>2, <2>3
<1>18. HeardOK'
  BY <1>1, <1>16, <1>17 DEF Inv, HeardOK
<1>. QED BY <1>1, <1>8, <1>9, <1>18 DEF Inv, Sound, StateOK

LEMMA CallsIs ==
  ASSUME Inv, NEW s, Calls(s)
  PROVE  NoLoop /\ (run # <<>> => InCall(cb[Current])) /\ Becomes(s)
BY UsersHaveNoLoop DEF Calls

LEMMA SettleOK ==
  ASSUME Inv, NEW l \in DeferredLists, NEW v \in Values, Settle(l, v)
  PROVE  Inv' /\ Keeps
<1>1. Calls(FiredWith(Now, l, v)) /\ UNCHANGED <<state, threw, todo, args>> /\ UNCHANGED heardVars
  BY DEF Settle, Fire, whenVars, heardVars
<1>2. NoLoop /\ Becomes(FiredWith(Now, l, v)) /\ Settled
  BY <1>1, CallsIs, InvIsSettled
<1>3. /\ Sound
      /\ \A m \in DeferredLists : m # l => cb'[m] = cb[m]
      /\ l[2] # "progress" => Owes(cb[l], cb'[l])
  BY <1>1, <1>2, Fires
<1>4. \A m \in Deferred \X Outcomes : Owes(cb[m], cb'[m])
  BY <1>3, OutcomeLists DEF Owes
<1>5. TodoOK'
  BY <1>1, <1>3 DEF Inv, TodoOK, Sound
<1>. QED BY <1>1, <1>3, <1>4, <1>5, Together DEF Inv, StateOK

LEMMA HandleOK ==
  ASSUME Inv, NEW l \in DeferredLists, NEW f \in Fns, Handle(l, f)
  PROVE  Inv' /\ Keeps
<1>1. /\ Calls(Added(Now, l, User(f))) /\ UNCHANGED <<state, threw, todo, args, heard>>
      /\ given' = [given EXCEPT ![l][f] = @ + 1] /\ l[2] # "progress"
  BY DEF Handle, Add, whenVars
<1>2. PICK e : e = User(f)
  OBVIOUS
<1>3. e \in Later /\ \A g : e = User(g) <=> g = f
  BY <1>2 DEF Later, User
<1>4. NoLoop /\ Becomes(Added(Now, l, e)) /\ Settled
  BY <1>1, <1>2, CallsIs, InvIsSettled
<1>5. /\ Sound
      /\ \A m \in DeferredLists : m # l => cb'[m] = cb[m]
      /\ cb'[l].on = cb[l].on /\ cb'[l].fired = cb[l].fired
      /\ cb[l].on => \A g \in Fns :
            ToHear(cb'[l], g) = ToHear(cb[l], g) + IF e = User(g) THEN 1 ELSE 0
  BY <1>1, <1>3, <1>4, Adds
<1>6. l \in Deferred \X Kind /\ cb[l] \in Closures
  BY DEF DeferredLists, Inv, ListsOK, ListOK, ClosureOK
<1>7. given' \in [Deferred \X Kind -> [Fns -> Nat]]
  <2>1. PICK old : old = given[l]
    OBVIOUS
  <2>2. old \in [Fns -> Nat]
    BY <1>6, <2>1 DEF Inv, HeardOK
  <2>3. [old EXCEPT ![f] = @ + 1] \in [Fns -> Nat]
    BY <2>2
  <2>4. given' = [given EXCEPT ![l] = [old EXCEPT ![f] = @ + 1]]
    BY <1>1, <2>1
  <2>. QED BY <1>6, <2>3, <2>4 DEF Inv, HeardOK
<1>8. ASSUME ~threw, NEW m \in Deferred \X Outcomes
      PROVE  Counted(cb'[m], given'[m], heard[m])
  <2>1. Counted(cb[m], given[m], heard[m]) /\ m \in DeferredLists /\ m \in Deferred \X Kind
    BY <1>8, OutcomeLists DEF Inv, HeardOK, DeferredLists
  <2>2. CASE m # l
    <3>1. given'[m] = given[m]
      BY <1>1, <1>6, <2>1, <2>2 DEF Inv, HeardOK
    <3>. QED BY <1>5, <2>1, <2>2, <3>1
  <2>3. CASE m = l
    <3>1. given[l] \in [Fns -> Nat] /\ heard[l] \in [Fns -> Nat]
      BY <1>6 DEF Inv, HeardOK
    <3>2. ASSUME NEW g \in Fns PROVE given'[l][g] = given[l][g] + IF g = f THEN 1 ELSE 0
      BY <1>1, <1>6, <3>1 DEF Inv, HeardOK
    <3>3. ASSUME NEW g \in Fns, cb'[l].on PROVE given'[l][g] = heard[l][g] + ToHear(cb'[l], g)
      <4>1. cb[l].on /\ given[l][g] = heard[l][g] + ToHear(cb[l], g)
        BY <1>5, <2>1, <2>3, <3>3 DEF Counted
      <4>2. heard[l][g] \in Nat /\ ToHear(cb[l], g) \in Nat
        BY <1>6, <3>1, PlacesFinite
      <4>3. ToHear(cb'[l], g) = ToHear(cb[l], g) + IF g = f THEN 1 ELSE 0
        BY <1>3, <1>5, <4>1
      <4>. QED BY <3>2, <4>1, <4>2, <4>3
    <3>. QED BY <1>5, <2>1, <2>3, <3>3 DEF Counted
  <2>. QED BY <2>2, <2>3
<1>9. HeardOK'
  BY <1>1, <1>7, <1>8 DEF Inv, HeardOK
<1>10. TodoOK'
  BY <1>1, <1>5 DEF Inv, TodoOK, Sound
<1>. QED BY <1>1, <1>5, <1>9, <1>10 DEF Inv, Sound, StateOK

LEMMA ThenOK ==
  ASSUME Inv, NEW d \in Given, NEW kinds \in SUBSET Kind, Then(d, kinds)
  PROVE  Inv' /\ Keeps
<1>1. PICK entry : entry = [k \in Kind |-> IF k \in kinds THEN <<"then", k>> ELSE <<"forward", <<Child, k>>>>]
  OBVIOUS
<1>2. \A k \in 1..3 : Kinds[k] \in Kind
  BY DEF Kind, Kinds, Range
<1>3. PICK calls : calls = [k \in 1..3 |-> <<"add", <<d, Kinds[k]>>, entry[Kinds[k]]>>]
  OBVIOUS
<1>4. Calls(Now) /\ todo' = Queued(calls) /\ UNCHANGED <<state, args>> /\ UNCHANGED heardVars
  BY <1>1, <1>2, <1>3 DEF Then, whenVars, heardVars
<1>5. ASSUME NEW k \in 1..3 PROVE calls[k] \in CallsOf(args)
  <2>1. PICK kind \in Kind : kind = Kinds[k]
    BY <1>2
  <2>2. <<d, kind>> \in DeferredLists /\ <<Child, kind>> \in DeferredLists
    BY DEF DeferredLists, Deferred
  <2>3. entry[kind] \in Own
    BY <1>1, <2>2 DEF Own
  <2>4. calls[k] = <<"add", <<d, kind>>, entry[kind]>>
    BY <1>3, <2>1
  <2>. QED BY <2>2, <2>3, <2>4 DEF CallsOf
<1>6. calls \in Seq(CallsOf(args))
  BY <1>3, <1>5
<1>7. cb' = cb /\ run' = run /\ (run # <<>> => InCall(cb[Current])) /\ threw' = threw
  BY <1>4, CallsIs DEF Becomes, Now, heardVars
<1>8. Sound
  BY <1>4, <1>7, InvIsSettled, NothingDone
<1>9. TodoOK'
  <2>1. Fits(Queued(calls), run, cb, args)
    BY <1>6, <1>7, FitsBefore DEF Inv, TodoOK, Queued
  <2>. QED BY <1>4, <1>7, <2>1 DEF Inv, TodoOK
<1>10. \A m \in Deferred \X Outcomes : Owes(cb[m], cb'[m])
  BY <1>7 DEF Owes
<1>. QED BY <1>4, <1>8, <1>9, <1>10, Together DEF Inv, StateOK

LEMMA WhenOK == ASSUME Inv, NEW a \in WhenArgs, When(a) PROVE Inv' /\ Keeps
<1>1. a \in Seq(Given \cup {Plain})
  BY DeferredsAssumption
<1>2. PICK n \in Nat : n = Len(a) /\ DOMAIN a = 1..n
  BY <1>1
<1>3. PICK calls : calls = [i \in 1..(n + 1) |-> IF i \in DOMAIN a THEN <<"observe", i>> ELSE <<"finish">>]
  OBVIOUS
<1>4. /\ Calls(Now) /\ args = <<>> /\ args' = a /\ todo' = Queued(calls)
      /\ state' = state /\ UNCHANGED heardVars
  BY <1>2, <1>3 DEF When, heardVars
<1>5. \A i \in 1..(n + 1) : calls[i] \in CallsOf(a)
  BY <1>3 DEF CallsOf
<1>6. calls \in Seq(CallsOf(a))
  BY <1>3, <1>5
<1>7. cb' = cb /\ run' = run /\ (run # <<>> => InCall(cb[Current])) /\ threw' = threw
  BY <1>4, CallsIs DEF Becomes, Now, heardVars
<1>8. Sound
  BY <1>4, <1>7, InvIsSettled, NothingDone
<1>9. Fits(todo, run, cb, a)
  <2>1. Fits(todo, run, cb, <<>>)
    BY <1>4 DEF Inv, TodoOK
  <2>2. CallsOf(<<>>) \subseteq CallsOf(a)
    BY DEF CallsOf
  <2>3. PICK S, T : S = [depth : Nat, call : CallsOf(<<>>)] /\ T = [depth : Nat, call : CallsOf(a)]
    OBVIOUS
  <2>4. S \subseteq T
    BY <2>2, <2>3
  <2>5. todo \in Seq(S)
    BY <2>1, <2>3 DEF Fits
  <2>6. todo \in Seq(T)
    BY <2>4, <2>5
  <2>. QED BY <2>1, <2>3, <2>6 DEF Fits
<1>10. TodoOK'
  <2>1. Fits(Queued(calls), run, cb, a)
    BY <1>6, <1>7, <1>9, FitsBefore DEF Inv, Queued
  <2>. QED BY <1>1, <1>4, <1>7, <2>1 DEF TodoOK
<1>11. \A m \in Deferred \X Outcomes : Owes(cb[m], cb'[m])
  BY <1>7 DEF Owes
<1>. QED BY <1>4, <1>8, <1>10, <1>11, Together DEF Inv, StateOK

-----------------------------------------------------------------------------
(* The first callbacks of a deferred.                                      *)
Across(l) == <<l[1], Other(l[2])>>
FateOf(k, s, c, other) ==
  \/ s = "pending" /\ Waiting(c, other)
  \/ Going(k, s, c, other)
  \/ Going(Other(k), s, other, c)

LEMMA FatesAre ==
  /\ FatesOK <=> \A l \in Deferred \X Outcomes : FateOf(l[2], state[l[1]], cb[l], cb[Across(l)])
  /\ FatesOK' <=> \A l \in Deferred \X Outcomes : FateOf(l[2], state'[l[1]], cb'[l], cb'[Across(l)])
<1>1. ASSUME NEW s, NEW x, NEW y
      PROVE  /\ Fate(s, x, y) <=> FateOf("done", s, x, y)
             /\ Fate(s, x, y) <=> FateOf("fail", s, y, x)
  BY DEF Fate, FateOf, Other, Waiting
<1>2. ASSUME NEW S, NEW C
      PROVE  (\A d \in Deferred : Fate(S[d], C[<<d, "done">>], C[<<d, "fail">>]))
             <=> \A l \in Deferred \X Outcomes : FateOf(l[2], S[l[1]], C[l], C[Across(l)])
  <2>1. ASSUME NEW d \in Deferred
        PROVE  /\ <<d, "done">> \in Deferred \X Outcomes /\ <<d, "fail">> \in Deferred \X Outcomes
               /\ Across(<<d, "done">>) = <<d, "fail">> /\ Across(<<d, "fail">>) = <<d, "done">>
    BY DEF Outcomes, Across, Other
  <2>2. \A l \in Deferred \X Outcomes :
          \E d \in Deferred : l = <<d, "done">> \/ l = <<d, "fail">>
    BY DEF Outcomes
  <2>3. ASSUME \A d \in Deferred : Fate(S[d], C[<<d, "done">>], C[<<d, "fail">>]),
               NEW l \in Deferred \X Outcomes
        PROVE  FateOf(l[2], S[l[1]], C[l], C[Across(l)])
    <3>1. PICK d \in Deferred : l = <<d, "done">> \/ l = <<d, "fail">>
      BY <2>2
    <3>2. Fate(S[d], C[<<d, "done">>], C[<<d, "fail">>])
      BY <2>3
    <3>3. PICK x, y : x = C[<<d, "done">>] /\ y = C[<<d, "fail">>]
      OBVIOUS
    <3>4. FateOf("done", S[d], x, y) /\ FateOf("fail", S[d], y, x)
      BY <1>1, <3>2, <3>3
    <3>5. l[1] = d /\ l[2] = (IF l = <<d, "done">> THEN "done" ELSE "fail")
      BY <3>1
    <3>. QED BY <2>1, <3>1, <3>3, <3>4, <3>5
  <2>4. ASSUME \A l \in Deferred \X Outcomes : FateOf(l[2], S[l[1]], C[l], C[Across(l)]),
               NEW d \in Deferred
        PROVE  Fate(S[d], C[<<d, "done">>], C[<<d, "fail">>])
    <3>1. PICK l \in Deferred \X Outcomes : l = <<d, "done">>
      BY <2>1
    <3>2. FateOf("done", S[d], C[l], C[Across(l)])
      BY <2>4, <3>1
    <3>3. C[l] = C[<<d, "done">>] /\ C[Across(l)] = C[<<d, "fail">>]
      BY <2>1, <3>1
    <3>. QED BY <1>1, <3>2, <3>3
  <2>. QED BY <2>3, <2>4
<1>3. FatesOK <=> \A d \in Deferred : Fate(state[d], cb[<<d, "done">>], cb[<<d, "fail">>])
  BY DEF FatesOK
<1>4. FatesOK' <=> \A d \in Deferred : Fate(state'[d], cb'[<<d, "done">>], cb'[<<d, "fail">>])
  BY DEF FatesOK
<1>. QED BY <1>2, <1>3, <1>4

LEMMA AcrossIs ==
  ASSUME NEW l \in Deferred \X Outcomes
  PROVE  /\ Across(l) \in Deferred \X Outcomes /\ Across(l) # l /\ Across(Across(l)) = l
         /\ Across(l)[1] = l[1] /\ Across(l)[2] = Other(l[2]) /\ Other(Other(l[2])) = l[2]
         /\ Outcome(l[2]) # Outcome(Other(l[2])) /\ Outcome(l[2]) # "pending"
         /\ \A m \in Deferred \X Outcomes : m[1] = l[1] => m = l \/ m = Across(l)
BY DEF Outcomes, Across, Other, Outcome

(* Where a deferred stands that is calling its first callbacks.            *)
LEMMA CallingIs ==
  ASSUME NEW k \in Outcomes, NEW s, NEW c, NEW other, FateOf(k, s, c, other), c.fired, Begins(c),
         c.firing, c.at = "loop", c.index \in {0, 1, 2}
  PROVE  /\ ~other.fired
         /\ c.index = 0 => s = "pending" /\ other.on /\ Calling(c, 0)
         /\ c.index = 1 => s = Outcome(k) /\ other.on /\ Calling(c, 1)
         /\ c.index = 2 => s = Outcome(k) /\ ~other.on
<1>1. Going(k, s, c, other)
  BY DEF FateOf, Waiting, Going
<1>. QED BY <1>1 DEF Going, Calling, Past

(* A change of the two lists of the outcomes of one deferred, or of one.   *)
LEMMA FatesMoved ==
  ASSUME Settled, NEW l \in Deferred \X Outcomes,
         \A m \in Deferred \X Outcomes : m # l /\ m # Across(l) => cb'[m] = cb[m],
         \A d \in Deferred : d # l[1] => state'[d] = state[d],
         Going(l[2], state'[l[1]], cb'[l], cb'[Across(l)])
  PROVE  FatesOK'
<1>1. ASSUME NEW m \in Deferred \X Outcomes
      PROVE  FateOf(m[2], state'[m[1]], cb'[m], cb'[Across(m)])
  <2>1. CASE m = l
    BY <2>1 DEF FateOf
  <2>2. CASE m = Across(l)
    <3>1. Across(m) = l /\ m[1] = l[1] /\ Other(m[2]) = l[2]
      BY <2>2, AcrossIs
    <3>. QED BY <2>2, <3>1 DEF FateOf
  <2>3. CASE m # l /\ m # Across(l)
    <3>1. m[1] # l[1] /\ Across(m) \in Deferred \X Outcomes /\ Across(m)[1] = m[1] /\ m[1] \in Deferred
      BY <2>3, AcrossIs
    <3>2. Across(m) # l /\ Across(m) # Across(l)
      BY <3>1, AcrossIs
    <3>3. cb'[m] = cb[m] /\ cb'[Across(m)] = cb[Across(m)] /\ state'[m[1]] = state[m[1]]
      BY <2>3, <3>1, <3>2
    <3>4. FateOf(m[2], state[m[1]], cb[m], cb[Across(m)])
      BY FatesAre DEF Settled
    <3>. QED BY <3>3, <3>4
  <2>. QED BY <2>1, <2>2, <2>3
<1>. QED BY <1>1, FatesAre

LEMMA FirstCall ==
  ASSUME Inv, NEW l \in DeferredLists, Internal(l), Entry(l)[1] \in {"settle", "disable", "lock"}
  PROVE  /\ l \in Deferred \X Outcomes
         /\ ListOK(l, Stepped(cb[l]))
         /\ Stepped(cb[l]).at = "loop" /\ Stepped(cb[l]).index = cb[l].index + 1
         /\ Stepped(cb[l]).firing /\ Stepped(cb[l]).fired /\ Stepped(cb[l]).memory = cb[l].memory
         /\ Begins(Stepped(cb[l])) /\ Owes(cb[l], Stepped(cb[l]))
         /\ Entry(l)[1] = "settle" => cb[l].index = 0 /\ Entry(l) = <<"settle", l[1], Outcome(l[2])>>
         /\ Entry(l)[1] = "disable" => cb[l].index = 1 /\ Entry(l) = <<"disable", Across(l)>>
         /\ Entry(l)[1] = "lock" => cb[l].index = 2 /\ Entry(l) = <<"lock", <<l[1], "progress">>>>
         /\ ~cb[Across(l)].fired
         /\ cb[l].index = 0 => state[l[1]] = "pending" /\ cb[Across(l)].on /\ Calling(cb[l], 0)
         /\ cb[l].index = 1 => state[l[1]] = Outcome(l[2]) /\ cb[Across(l)].on /\ Calling(cb[l], 1)
         /\ cb[l].index = 2 => state[l[1]] = Outcome(l[2]) /\ ~cb[Across(l)].on
<1>1. PICK c, new, e : c = cb[l] /\ new = Stepped(c) /\ e = Entry(l)
  OBVIOUS
<1>2. /\ run # <<>> /\ l = Current /\ c.at = "loop"
      /\ ListOK(l, c) /\ c \in Closures /\ c.firing /\ c.fired
      /\ c.index \in Nat /\ c.index < Len(c.fns)
      /\ c.index + 1 \in DOMAIN c.fns /\ e = c.fns[c.index + 1]
  BY <1>1, InternalIs
<1>3. /\ e[1] = "settle" => l[2] # "progress" /\ c.index + 1 = 1 /\ e = <<"settle", l[1], Outcome(l[2])>>
      /\ e[1] = "disable" => l[2] # "progress" /\ c.index + 1 = 2 /\ e = <<"disable", <<l[1], Other(l[2])>>>>
      /\ e[1] = "lock" => l[2] # "progress" /\ c.index + 1 = 3 /\ e = <<"lock", <<l[1], "progress">>>>
      /\ Begins(c)
  <2>1. PICK p : p = c.index + 1
    OBVIOUS
  <2>2. p \in DOMAIN c.fns /\ e = c.fns[p] /\ e[1] \in {"settle", "disable", "lock"}
    BY <1>1, <1>2, <2>1
  <2>3. /\ e[1] = "settle" => l[2] # "progress" /\ p = 1 /\ e = <<"settle", l[1], Outcome(l[2])>>
        /\ e[1] = "disable" => l[2] # "progress" /\ p = 2 /\ e = <<"disable", <<l[1], Other(l[2])>>>>
        /\ e[1] = "lock" => l[2] # "progress" /\ p = 3 /\ e = <<"lock", <<l[1], "progress">>>>
        /\ Begins(c)
    BY <1>2, <2>2, EntriesAre
  <2>. QED BY <2>1, <2>3
<1>4. l \in Deferred \X Outcomes /\ l[2] \in Outcomes
  BY <1>1, <1>3, ListsOfDeferred
<1>5. c.index \in {0, 1, 2}
  BY <1>1, <1>2, <1>3
<1>6. FateOf(l[2], state[l[1]], c, cb[Across(l)])
  BY <1>1, <1>4, FatesAre DEF Inv
<1>7. ListOK(l, new)
  BY <1>1, <1>2, SteppedOK
<1>8. /\ new.at = "loop" /\ new.firing = c.firing /\ new.fns = c.fns /\ new.index = c.index + 1
      /\ new.on = c.on /\ new.fired = c.fired /\ new.memory = c.memory
  BY <1>1, <1>2 DEF Stepped, Closures
<1>9. ASSUME NEW f \in Fns PROVE ToHear(new, f) = ToHear(c, f)
  <2>1. Reached(c) = c.index /\ Reached(new) = c.index + 1
    BY <1>2, <1>7, <1>8, ReachedIs
  <2>2. new \in Closures
    BY <1>7 DEF ListOK, ClosureOK
  <2>3. c.fns[Reached(c) + 1] # User(f)
    BY <1>1, <1>2, <2>1 DEF User
  <2>4. ToHear(c, f) = ToHear(new, f) + IF c.fns[Reached(c) + 1] = User(f) THEN 1 ELSE 0
    BY <1>2, <1>8, <2>1, <2>2, HearCalled
  <2>. QED BY <2>2, <2>3, <2>4, PlacesFinite
<1>10. Owes(c, new) /\ Begins(new)
  BY <1>3, <1>8, <1>9 DEF Owes, Begins
<1>11. /\ ~cb[Across(l)].fired
       /\ c.index = 0 => state[l[1]] = "pending" /\ cb[Across(l)].on /\ Calling(c, 0)
       /\ c.index = 1 => state[l[1]] = Outcome(l[2]) /\ cb[Across(l)].on /\ Calling(c, 1)
       /\ c.index = 2 => state[l[1]] = Outcome(l[2]) /\ ~cb[Across(l)].on
  BY <1>2, <1>3, <1>4, <1>5, <1>6, CallingIs
<1>12. /\ e[1] = "settle" => c.index = 0 /\ e = <<"settle", l[1], Outcome(l[2])>>
       /\ e[1] = "disable" => c.index = 1 /\ e = <<"disable", Across(l)>>
       /\ e[1] = "lock" => c.index = 2 /\ e = <<"lock", <<l[1], "progress">>>>
  BY <1>2, <1>3 DEF Across
<1>. QED BY <1>1, <1>2, <1>4, <1>7, <1>8, <1>10, <1>11, <1>12

LEMMA CallSettleOK == ASSUME Inv, NEW l \in DeferredLists, CallSettle(l) PROVE Inv' /\ Keeps
<1>1. /\ Internal(l) /\ Entry(l)[1] = "settle" /\ Becomes(Moved(Now, l))
      /\ state' = [state EXCEPT ![Entry(l)[2]] = Entry(l)[3]]
      /\ UNCHANGED <<todo, args>> /\ UNCHANGED heardVars
  BY DEF CallSettle, Passes, whenVars, heardVars
<1>2. PICK c, new, other : c = cb[l] /\ new = Stepped(c) /\ other = cb[Across(l)]
  OBVIOUS
<1>3. /\ l \in Deferred \X Outcomes
      /\ ListOK(l, new) /\ new.at = "loop" /\ new.index = c.index + 1
      /\ new.firing /\ new.fired /\ new.memory = c.memory /\ Begins(new) /\ Owes(c, new)
      /\ c.index = 0 /\ Entry(l) = <<"settle", l[1], Outcome(l[2])>>
      /\ ~other.fired /\ state[l[1]] = "pending" /\ other.on
  BY <1>1, <1>2, FirstCall
<1>4. cb' = [cb EXCEPT ![l] = new] /\ run' = run /\ threw' = threw
  BY <1>1, <1>2, MovedIs DEF Inv, Becomes, heardVars
<1>5. state' = [state EXCEPT ![l[1]] = Outcome(l[2])] /\ l[1] \in Deferred
  BY <1>1, <1>3
<1>6. StateOK' /\ state'[l[1]] = Outcome(l[2]) /\ \A d \in Deferred : d # l[1] => state'[d] = state[d]
  BY <1>5 DEF Inv, StateOK, Outcome
<1>7. CbOK' /\ ListsOK' /\ cb'[l] = new /\ \A m \in DeferredLists : m # l => cb'[m] = cb[m]
  BY <1>3, <1>4, ListChanged DEF Inv
<1>8. c.at = "loop" /\ c.firing
  BY <1>1, <1>2, InternalIs
<1>9. RunOK'
  BY <1>2, <1>3, <1>4, <1>8, RunSame DEF Inv
<1>10. Fits(todo, run, cb', args)
  BY <1>2, <1>3, <1>4, <1>8, FitsSame DEF Inv, TodoOK, InCall
<1>11. FatesOK'
  <2>1. Across(l) \in DeferredLists /\ Across(l) # l
    BY <1>3, AcrossIs, OutcomeLists
  <2>2. cb'[Across(l)] = other
    BY <1>2, <1>7, <2>1
  <2>3. Going(l[2], state'[l[1]], cb'[l], cb'[Across(l)])
    BY <1>3, <1>6, <1>7, <2>2 DEF Going, Calling
  <2>4. \A m \in Deferred \X Outcomes : m # l /\ m # Across(l) => cb'[m] = cb[m]
    BY <1>7, OutcomeLists
  <2>. QED BY <1>3, <1>6, <2>3, <2>4, InvIsSettled, FatesMoved
<1>12. \A m \in Deferred \X Outcomes : Owes(cb[m], cb'[m])
  BY <1>2, <1>3, <1>7, OutcomeLists DEF Owes
<1>13. HeardOK'
  BY <1>1, <1>12, HeardSame DEF Inv
<1>14. Keeps
  <2>1. ValuesKept
    BY <1>2, <1>3, <1>7, OutcomeLists DEF ValuesKept
  <2>2. OutcomesKept
    BY <1>3, <1>6 DEF OutcomesKept
  <2>. QED BY <2>1, <2>2 DEF Keeps
<1>. QED BY <1>1, <1>4, <1>6, <1>7, <1>9, <1>10, <1>11, <1>13, <1>14 DEF Inv, TodoOK

(* Two lists change, and both stay where they are in the stack.            *)
LEMMA BothStay ==
  ASSUME Settled, CbOK', ListsOK', UNCHANGED <<run, threw>>,
         \A m \in DeferredLists : cb'[m].firing = cb[m].firing /\ cb'[m].at = cb[m].at
  PROVE  RunOK' /\ \A calls, a : Fits(calls, run, cb, a) => Fits(calls, run', cb', a)
<1>1. run \in Seq(DeferredLists) /\ \A i \in DOMAIN run : run[i] \in DeferredLists
  BY DEF Settled, RunOK
<1>2. RunOK'
  BY <1>1 DEF Settled, RunOK, Current
<1>3. ASSUME NEW calls, NEW a, Fits(calls, run, cb, a) PROVE Fits(calls, run, cb', a)
  <2>1. ASSUME NEW i \in DOMAIN calls, calls[i].depth > 0
        PROVE  InCall(cb'[run[calls[i].depth]])
    <3>1. PICK d : d = calls[i].depth
      OBVIOUS
    <3>2. d \in Nat /\ d <= Len(run) /\ d > 0 /\ InCall(cb[run[d]])
      BY <1>3, <2>1, <3>1, FitsIs DEF Fits
    <3>3. run[d] \in DeferredLists
      BY <1>1, <3>2
    <3>. QED BY <3>1, <3>2, <3>3 DEF InCall
  <2>. QED BY <1>3, <2>1 DEF Fits
<1>. QED BY <1>2, <1>3

LEMMA ShutIs ==
  ASSUME Inv, NEW l \in DeferredLists, NEW m \in DeferredLists, l # m, NEW o, NEW t,
         t = [cb |-> [cb EXCEPT ![m] = o], run |-> run], Becomes(Moved(t, l)),
         ListOK(l, Stepped(cb[l])), ListOK(m, o)
  PROVE  /\ cb'[l] = Stepped(cb[l]) /\ cb'[m] = o /\ run' = run /\ CbOK' /\ ListsOK'
         /\ \A x \in DeferredLists : x # l /\ x # m => cb'[x] = cb[x]
<1>1. l \in Lists /\ m \in Lists /\ DeferredLists \subseteq Lists
  BY ListsAssumption
<1>2. t.cb = [x \in Lists |-> t.cb[x]] /\ t.cb[l] = cb[l] /\ t.cb[m] = o
      /\ \A x \in Lists : x # m => t.cb[x] = cb[x]
  BY <1>1 DEF Inv, CbOK
<1>3. Moved(t, l).cb = [t.cb EXCEPT ![l] = Stepped(t.cb[l])] /\ Moved(t, l).run = run
  BY DEF Moved, Stepped
<1>4. cb' = [t.cb EXCEPT ![l] = Stepped(cb[l])] /\ run' = run
  BY <1>2, <1>3 DEF Becomes
<1>5. /\ CbOK' /\ cb'[l] = Stepped(cb[l]) /\ cb'[m] = o
      /\ \A x \in Lists : x # l /\ x # m => cb'[x] = cb[x]
  BY <1>1, <1>2, <1>4 DEF CbOK
<1>6. ListsOK'
  BY <1>1, <1>5 DEF Inv, ListsOK
<1>. QED BY <1>1, <1>4, <1>5, <1>6

LEMMA CallShutOK == ASSUME Inv, NEW l \in DeferredLists, CallShut(l) PROVE Inv' /\ Keeps
<1>1. PICK e, m : e = Entry(l) /\ m = e[2]
  OBVIOUS
<1>2. /\ Internal(l) /\ e[1] \in {"disable", "lock"}
      /\ Becomes(Moved(IF e[1] = "lock" THEN Locked(Now, m) ELSE Disabled(Now, m), l))
      /\ UNCHANGED <<state, threw, todo, args>> /\ UNCHANGED heardVars
  BY <1>1 DEF CallShut, Passes, whenVars, heardVars
<1>3. PICK c, new, other : c = cb[l] /\ new = Stepped(c) /\ other = cb[Across(l)]
  OBVIOUS
<1>4. /\ l \in Deferred \X Outcomes
      /\ ListOK(l, new) /\ new.at = "loop" /\ new.index = c.index + 1
      /\ new.firing /\ new.fired /\ new.memory = c.memory /\ Begins(new) /\ Owes(c, new)
      /\ e[1] = "disable" => c.index = 1 /\ m = Across(l)
      /\ e[1] = "lock" => c.index = 2 /\ m = <<l[1], "progress">>
      /\ ~other.fired
      /\ c.index = 1 => state[l[1]] = Outcome(l[2]) /\ other.on
      /\ c.index = 2 => state[l[1]] = Outcome(l[2]) /\ ~other.on
  BY <1>1, <1>2, <1>3, FirstCall
<1>5. c.at = "loop" /\ c.firing
  BY <1>2, <1>3, InternalIs
<1>6. Across(l) \in DeferredLists /\ Across(l) # l /\ Across(l)[2] # "progress"
      /\ <<l[1], "progress">> \in DeferredLists /\ <<l[1], "progress">> # l
      /\ <<l[1], "progress">> \notin Deferred \X Outcomes /\ <<l[1], "progress">>[2] = "progress"
  BY <1>4, AcrossIs, OutcomeLists, KindIs DEF DeferredLists, Outcomes
<1>7. m \in DeferredLists /\ m # l /\ ListOK(m, cb[m])
  BY <1>2, <1>4, <1>6 DEF Inv, ListsOK
<1>8. PICK t : t = IF e[1] = "lock" THEN Locked(Now, m) ELSE Disabled(Now, m)
  OBVIOUS
<1>9. Disabled(Now, m) = [cb |-> [cb EXCEPT ![m] = Off(cb[m])], run |-> run]
  BY DEF Disabled, Now, Off
<1>10. PICK o : /\ t = [cb |-> [cb EXCEPT ![m] = o], run |-> run] /\ ListOK(m, o)
                /\ o.firing = cb[m].firing /\ o.at = cb[m].at
                /\ e[1] = "disable" => ~o.on /\ ~o.fired
  <2>1. CASE e[1] = "disable"
    <3>1. ListOK(m, Off(cb[m])) /\ ~Off(cb[m]).on /\ ~Off(cb[m]).fired
          /\ ~cb[m].firing /\ ~Off(cb[m]).firing /\ Off(cb[m]).at = cb[m].at
      BY <1>3, <1>4, <1>7, <2>1, OffOK
    <3>2. t = Disabled(Now, m)
      BY <1>8, <2>1
    <3>3. Off(cb[m]).firing = cb[m].firing
      BY <1>7, <3>1 DEF ListOK, ClosureOK, Closures
    <3>. QED BY <1>9, <3>1, <3>2, <3>3
  <2>2. CASE e[1] = "lock" /\ cb[m].memory = NoValue
    <3>1. ~cb[m].fired
      BY <1>7, <2>2, ValuesAssumption DEF ListOK, ClosureOK
    <3>2. ListOK(m, Off(cb[m])) /\ ~cb[m].firing /\ ~Off(cb[m]).firing /\ Off(cb[m]).at = cb[m].at
      BY <1>7, <3>1, OffOK
    <3>3. t = Disabled(Now, m)
      BY <1>8, <2>2 DEF Locked, Now
    <3>4. Off(cb[m]).firing = cb[m].firing
      BY <1>7, <3>2 DEF ListOK, ClosureOK, Closures
    <3>. QED BY <1>9, <2>2, <3>2, <3>3, <3>4
  <2>3. CASE e[1] = "lock" /\ cb[m].memory # NoValue
    <3>1. ListOK(m, Kept(cb[m])) /\ Kept(cb[m]).firing = cb[m].firing /\ Kept(cb[m]).at = cb[m].at
      BY <1>7, KeptOK
    <3>2. t = [cb |-> [cb EXCEPT ![m] = Kept(cb[m])], run |-> run]
      BY <1>8, <2>3 DEF Locked, Now, Kept
    <3>. QED BY <2>3, <3>1, <3>2
  <2>. QED BY <1>2, <2>1, <2>2, <2>3
<1>11. /\ cb'[l] = new /\ cb'[m] = o /\ run' = run /\ CbOK' /\ ListsOK'
       /\ \A x \in DeferredLists : x # l /\ x # m => cb'[x] = cb[x]
  <2>1. Becomes(Moved(t, l)) /\ ListOK(l, Stepped(cb[l]))
    BY <1>2, <1>3, <1>4, <1>8
  <2>. QED BY <1>3, <1>7, <1>10, <2>1, ShutIs
<1>12. RunOK' /\ \A calls, a : Fits(calls, run, cb, a) => Fits(calls, run', cb', a)
  <2>1. ASSUME NEW x \in DeferredLists
        PROVE  cb'[x].firing = cb[x].firing /\ cb'[x].at = cb[x].at
    <3>1. new.firing = c.firing
      BY <1>3, <1>4, <1>5 DEF Stepped, ListOK, ClosureOK, Closures
    <3>2. CASE x = l
      BY <1>3, <1>4, <1>5, <1>11, <3>1, <3>2
    <3>3. CASE x = m
      BY <1>10, <1>11, <3>3
    <3>4. CASE x # l /\ x # m
      BY <1>11, <3>4
    <3>. QED BY <3>2, <3>3, <3>4
  <2>. QED BY <1>2, <1>11, <2>1, InvIsSettled, BothStay
<1>13. TodoOK'
  BY <1>2, <1>12 DEF Inv, TodoOK
<1>14. /\ ~cb'[Across(l)].fired /\ ~cb'[Across(l)].on
       /\ cb'[Across(l)] = cb[Across(l)] \/ e[1] = "disable"
  <2>1. CASE e[1] = "disable"
    BY <1>4, <1>10, <1>11, <2>1
  <2>2. CASE e[1] = "lock"
    <3>1. Across(l) # m
      BY <1>4, <1>6, <2>2
    <3>2. cb'[Across(l)] = other
      BY <1>3, <1>6, <1>11, <3>1
    <3>. QED BY <1>3, <1>4, <2>2, <3>2
  <2>. QED BY <1>2, <2>1, <2>2
<1>15. \A x \in Deferred \X Outcomes : x # l /\ x # Across(l) => cb'[x] = cb[x]
  <2>1. \A x \in Deferred \X Outcomes : x # Across(l) => x # m
    BY <1>2, <1>4, <1>6
  <2>. QED BY <1>11, <2>1, OutcomeLists
<1>16. FatesOK'
  <2>1. new.index >= 2
    BY <1>2, <1>4
  <2>2. Going(l[2], state'[l[1]], cb'[l], cb'[Across(l)])
    BY <1>2, <1>4, <1>11, <1>14, <2>1 DEF Going, Past
  <2>. QED BY <1>2, <1>4, <1>15, <2>2, InvIsSettled, FatesMoved
<1>17. HeardOK'
  <2>1. ASSUME NEW x \in Deferred \X Outcomes
        PROVE  Owes(cb[x], cb'[x]) \/ (~cb'[x].on /\ ~cb[x].fired /\ ~cb'[x].fired)
    <3>1. CASE x = l
      BY <1>3, <1>4, <1>11, <3>1
    <3>2. CASE x = Across(l)
      BY <1>3, <1>4, <1>14, <3>2
    <3>3. CASE x # l /\ x # Across(l)
      BY <1>15, <3>3 DEF Owes
    <3>. QED BY <3>1, <3>2, <3>3
  <2>. QED BY <1>2, <2>1, HeardSame DEF Inv
<1>18. Keeps
  <2>1. ValuesKept
    BY <1>3, <1>4, <1>11, <1>15 DEF ValuesKept
  <2>. QED BY <1>2, <2>1 DEF Keeps, OutcomesKept
<1>. QED BY <1>2, <1>11, <1>12, <1>13, <1>16, <1>17, <1>18 DEF Inv, StateOK

-----------------------------------------------------------------------------
(* The invariant is inductive.                                             *)
LEMMA NewListOK ==
  ASSUME Init, NEW l \in DeferredLists
  PROVE  /\ ListOK(l, cb[l]) /\ ~cb[l].fired /\ ~cb[l].firing /\ cb[l].on /\ cb[l].at = "idle"
         /\ \A f \in Fns : ToHear(cb[l], f) = 0
         /\ \A p \in DOMAIN cb[l].fns : cb[l].fns[p] \notin Later
<1>1. PICK fns : fns = IF l \in Deferred \X Outcomes THEN FirstCallbacks(l) ELSE <<>>
  OBVIOUS
<1>2. cb[l] = NewList(Flags[l], fns) /\ Flags[l] = ListFlags(l[2])
  BY <1>1, ListsAssumption DEF Init, Outcomes
<1>3. fns \in Seq(Early \cup Later) /\ \A p \in DOMAIN fns : fns[p] \notin Later
  <2>1. CASE l \in Deferred \X Outcomes
    <3>1. FirstCallbacks(l) \in Seq(Early) /\ \A p \in DOMAIN FirstCallbacks(l) : FirstCallbacks(l)[p] \in Early
      BY <2>1, FirstAre
    <3>2. FirstCallbacks(l) \in Seq(Early \cup Later)
      BY <3>1
    <3>. QED BY <1>1, <2>1, <3>1, <3>2, LaterIs
  <2>2. CASE l \notin Deferred \X Outcomes
    BY <1>1, <2>2
  <2>. QED BY <2>1, <2>2
<1>4. PICK c : c = cb[l]
  OBVIOUS
<1>5. /\ c.fns = fns /\ c.on /\ c.queue = <<>> /\ c.memory = NoValue /\ c.data = NoValue
      /\ ~c.fired /\ ~c.firing /\ c.index = 0 /\ c.length = 0 /\ c.at = "idle"
      /\ c.repeats = ("once" \notin Flags[l])
  BY <1>2, <1>4 DEF NewList
<1>6. c \in Closures
  BY <1>2, <1>3, <1>4 DEF NewList, Closures
<1>7. ClosureOK(c)
  BY <1>5, <1>6 DEF ClosureOK, InCall
<1>8. CallbacksOK(l, c)
  <2>1. CASE l[2] = "progress"
    <3>1. fns = <<>>
      BY <1>1, <2>1, ListsOfDeferred
    <3>. QED BY <1>5, <2>1, <3>1 DEF CallbacksOK
  <2>2. CASE l[2] # "progress"
    <3>1. l \in Deferred \X Outcomes /\ fns = FirstCallbacks(l)
      BY <1>1, <2>2, ListsOfDeferred
    <3>2. Len(fns) = 3 /\ DOMAIN fns = 1..3 /\ fns # <<>>
      BY <1>3, <3>1, FirstAre
    <3>3. Begins(c)
      BY <1>3, <1>5, <3>2 DEF Begins
    <3>4. ~c.repeats
      BY <1>2, <1>5, <2>2 DEF ListFlags
    <3>. QED BY <1>5, <2>2, <3>1, <3>2, <3>3, <3>4 DEF CallbacksOK
  <2>. QED BY <2>1, <2>2
<1>9. ASSUME NEW f \in Fns PROVE ToHear(c, f) = 0
  <2>1. User(f) \in Later
    BY DEF User, Later
  <2>2. Places(c, f) = {}
    BY <1>3, <1>5, <2>1 DEF Places
  <2>3. Cardinality({}) = 0
    BY FS_EmptySet
  <2>. QED BY <2>2, <2>3 DEF ToHear
<1>. QED BY <1>3, <1>4, <1>5, <1>7, <1>8, <1>9 DEF ListOK

LEMMA InitOK == Init => IInv
<1>. SUFFICES ASSUME Init PROVE IInv
  OBVIOUS
<1>1. plain # {} => Untouched /\ plain \subseteq Lists \ DeferredLists
  <2>1. plain \subseteq Lists \ DeferredLists
    BY ListsAssumption DEF Init
  <2>2. run = <<>> /\ todo = <<>> /\ state = [d \in Deferred |-> "pending"] /\ given = heard
        /\ heard = [l \in Deferred \X Kind |-> [f \in Fns |-> 0]]
    BY DEF Init
  <2>3. run \in Seq(plain)
    BY <2>2
  <2>. QED BY <2>1, <2>2, <2>3 DEF Untouched
<1>2. CbOK
  BY DEF Init, CbOK
<1>3. ListsOK
  BY NewListOK DEF ListsOK
<1>4. StateOK /\ \A d \in Deferred : state[d] = "pending"
  BY DEF Init, StateOK
<1>5. FatesOK
  <2>1. \A d \in Deferred : <<d, "done">> \in DeferredLists /\ <<d, "fail">> \in DeferredLists
    BY KindIs DEF DeferredLists
  <2>. QED BY <1>4, <2>1, NewListOK DEF FatesOK, Fate, Waiting
<1>6. RunOK
  <2>1. run = <<>>
    BY DEF Init
  <2>2. \A l \in DeferredLists : cb[l].at # "loop" /\ ~cb[l].firing
    BY NewListOK
  <2>. QED BY <2>1, <2>2 DEF RunOK
<1>7. TodoOK
  <2>1. todo = <<>> /\ args = <<>>
    BY DEF Init
  <2>. QED BY <2>1 DEF TodoOK, Fits
<1>8. HeardOK
  <2>1. given = [l \in Deferred \X Kind |-> [f \in Fns |-> 0]] /\ heard = given /\ threw = FALSE
    BY DEF Init
  <2>2. given \in [Deferred \X Kind -> [Fns -> Nat]] /\ heard \in [Deferred \X Kind -> [Fns -> Nat]]
    BY <2>1
  <2>3. ASSUME NEW l \in Deferred \X Outcomes PROVE Counted(cb[l], given[l], heard[l])
    <3>1. l \in DeferredLists /\ l \in Deferred \X Kind
      BY OutcomeLists DEF DeferredLists
    <3>2. \A f \in Fns : given[l][f] = 0 /\ heard[l][f] = 0 /\ ToHear(cb[l], f) = 0
      BY <2>1, <3>1, NewListOK
    <3>. QED BY <3>2 DEF Counted
  <2>. QED BY <2>1, <2>2, <2>3 DEF HeardOK
<1>. QED BY <1>1, <1>2, <1>3, <1>4, <1>5, <1>6, <1>7, <1>8 DEF IInv, Inv

LEMMA ActionOK ==
  ASSUME Inv, plain = {}, Next
  PROVE  Inv' /\ Keeps
<1>1. CASE Work
  BY <1>1, WorkOK
<1>2. CASE Observe
  BY <1>2, ObserveOK
<1>3. CASE Finish
  BY <1>3, FinishOK
<1>4. CASE Throws
  BY <1>4, ThrowsOK
<1>5. ASSUME NEW l \in Lists, Loop(l) \/ CallHandler(l) \/ UsePlain(l)
      PROVE  Inv' /\ Keeps
  <2>1. ~UsePlain(l)
    BY DEF UsePlain
  <2>. QED BY <1>5, <2>1, LoopOK, CallHandlerOK
<1>6. ASSUME NEW l \in DeferredLists,
             \/ CallSettle(l) \/ CallShut(l) \/ CallForward(l) \/ CallUpdate(l) \/ CallTell(l)
             \/ Resume(l) \/ CallThen(l)
      PROVE  Inv' /\ Keeps
  BY <1>6, CallSettleOK, CallShutOK, CallForwardOK, CallUpdateOK, CallTellOK, ResumeOK, CallThenOK
<1>7. ASSUME NEW l \in DeferredLists, NEW v \in Values, ReturnValue(l, v) \/ Settle(l, v)
      PROVE  Inv' /\ Keeps
  BY <1>7, ReturnValueOK, SettleOK
<1>8. ASSUME NEW l \in DeferredLists, NEW d \in Given, ReturnPromise(l, d)
      PROVE  Inv' /\ Keeps
  BY <1>8, ReturnPromiseOK
<1>9. ASSUME NEW l \in DeferredLists, NEW f \in Fns, Handle(l, f)
      PROVE  Inv' /\ Keeps
  BY <1>9, HandleOK
<1>10. ASSUME NEW d \in Given, NEW kinds \in SUBSET Kind, Then(d, kinds)
       PROVE  Inv' /\ Keeps
  BY <1>10, ThenOK
<1>11. ASSUME NEW a \in WhenArgs, When(a)
       PROVE  Inv' /\ Keeps
  BY <1>11, WhenOK
<1>. QED BY <1>1, <1>2, <1>3, <1>4, <1>5, <1>6, <1>7, <1>8, <1>9, <1>10, <1>11 DEF Next

LEMMA RunsOfMethods ==
  ASSUME NEW C, NEW R, NEW l, NEW v, NEW e
  PROVE  LET s == [cb |-> C, run |-> R]
         IN  /\ FiredWith(s, l, v).run \in {R, Append(R, l)}
             /\ Added(s, l, e).run \in {R, Append(R, l)}
             /\ Returned(s, l).run \in {Front(R), Append(Front(R), l)}
<1>. DEFINE s == [cb |-> C, run |-> R]
<1>1. \A D, S, from : Firing([cb |-> D, run |-> S], l, v, from).run = Append(S, l)
  BY DEF Firing
<1>2. FiredWith(s, l, v).run \in {R, Append(R, l)}
  BY DEF FiredWith, Firing
<1>3. Added(s, l, e).run \in {R, Append(R, l)}
  BY DEF Added, Firing, ToTheEnd
<1>4. Returned(s, l).run \in {Front(R), Append(Front(R), l)}
  BY DEF Returned, Firing, Disabled
<1>. QED BY <1>2, <1>3, <1>4

-----------------------------------------------------------------------------
(* While users have plain lists.                                           *)
LEMMA PlainStays ==
  ASSUME [Next]_vars
  PROVE  plain' = plain
<1>1. CASE UNCHANGED vars
  BY <1>1 DEF vars
<1>2. CASE Work \/ Observe \/ Finish \/ Throws
  BY <1>2 DEF Work, Observe, Finish, Throws
<1>3. ASSUME NEW l \in Lists, Loop(l) \/ CallHandler(l) \/ UsePlain(l) PROVE plain' = plain
  BY <1>3 DEF Loop, CallHandler, UsePlain
<1>4. ASSUME NEW l \in DeferredLists,
             \/ CallSettle(l) \/ CallShut(l) \/ CallForward(l) \/ CallUpdate(l) \/ CallTell(l)
             \/ Resume(l) \/ CallThen(l)
      PROVE  plain' = plain
  BY <1>4 DEF CallSettle, CallShut, CallForward, CallUpdate, CallTell, Resume, CallThen
<1>5. ASSUME NEW l \in DeferredLists, NEW v \in Values, ReturnValue(l, v) \/ Settle(l, v)
      PROVE  plain' = plain
  BY <1>5 DEF ReturnValue, Settle
<1>6. ASSUME NEW l \in DeferredLists, NEW d \in Given, ReturnPromise(l, d) PROVE plain' = plain
  BY <1>6 DEF ReturnPromise
<1>7. ASSUME NEW l \in DeferredLists, NEW f \in Fns, Handle(l, f) PROVE plain' = plain
  BY <1>7 DEF Handle
<1>8. ASSUME NEW d \in Given, NEW kinds \in SUBSET Kind, Then(d, kinds) PROVE plain' = plain
  BY <1>8 DEF Then
<1>9. ASSUME NEW a \in WhenArgs, When(a) PROVE plain' = plain
  BY <1>9 DEF When
<1>. QED BY <1>1, <1>2, <1>3, <1>4, <1>5, <1>6, <1>7, <1>8, <1>9 DEF Next

LEMMA PlainRuns ==
  ASSUME NEW r \in Seq(plain), NEW l \in plain, NEW s,
         s \in {r, Append(r, l)} \/ (r # <<>> /\ s \in {Front(r), Append(Front(r), l)})
  PROVE  s \in Seq(plain)
<1>1. Append(r, l) \in Seq(plain)
  OBVIOUS
<1>2. ASSUME r # <<>> PROVE Front(r) \in Seq(plain) /\ Append(Front(r), l) \in Seq(plain)
  <2>1. Front(r) \in Seq(plain)
    BY <1>2, FrontIs
  <2>. QED BY <2>1
<1>. QED BY <1>1, <1>2

(* Nothing but the methods of lists and their loop runs.                   *)
LEMMA PlainOnly ==
  ASSUME Untouched, plain \subseteq Lists \ DeferredLists, plain # {}, Next
  PROVE  \/ Throws
         \/ \E l \in Lists : Loop(l) \/ CallHandler(l) \/ UsePlain(l)
<1>1. run \in Seq(plain) /\ todo = <<>> /\ ~Working
  BY DEF Untouched, Working
<1>2. run # <<>> => Current \notin DeferredLists
  <2>1. run # <<>> => Len(run) \in DOMAIN run /\ run[Len(run)] \in plain
    BY <1>1
  <2>. QED BY <2>1 DEF Current, Last
<1>3. ~Work /\ ~Observe /\ ~Finish
  BY <1>1 DEF Work, Observe, Finish
<1>4. ASSUME NEW l \in DeferredLists
       PROVE  ~(\/ CallSettle(l) \/ CallShut(l) \/ CallForward(l) \/ CallUpdate(l) \/ CallTell(l)
                \/ Resume(l) \/ CallThen(l)
                \/ \E v \in Values : ReturnValue(l, v) \/ (l[1] \in Given /\ Settle(l, v))
                \/ \E d \in Given : ReturnPromise(l, d)
                \/ \E f \in Fns : Handle(l, f))
  <2>1. ~Internal(l) /\ ~InThen(l) /\ ~Resume(l)
    BY <1>2 DEF Internal, Looping, InThen, InUser, Resume
  <2>2. ~Users
    BY DEF Users
  <2>. QED BY <2>1, <2>2 DEF CallSettle, CallShut, CallForward, CallUpdate, CallTell, CallThen,
                             ReturnValue, ReturnPromise, Settle, Handle
<1>5. /\ \A d \in Given, kinds \in SUBSET Kind : ~Then(d, kinds)
      /\ \A a \in WhenArgs : ~When(a)
  BY DEF Then, When, Users
<1>. QED BY <1>3, <1>4, <1>5, Zenon DEF Next

LEMMA PlainStep ==
  ASSUME Untouched, plain \subseteq Lists \ DeferredLists, plain # {}, [Next]_vars
  PROVE  Untouched'
<1>1. run \in Seq(plain) /\ todo = <<>> /\ ~Working
  BY DEF Untouched, Working
<1>2. plain' = plain
  BY PlainStays
<1>3. run # <<>> => Current \in plain /\ Current \notin DeferredLists
  <2>1. run # <<>> => Len(run) \in DOMAIN run /\ run[Len(run)] \in plain
    BY <1>1
  <2>. QED BY <2>1 DEF Current, Last
<1>4. SUFFICES run' \in Seq(plain) /\ todo' = <<>> /\ state' = state /\ given' = given /\ heard' = heard
  BY <1>2 DEF Untouched
<1>5. CASE UNCHANGED vars
  BY <1>1, <1>5 DEF vars, callbackVars, heardVars
<1>6. CASE Throws
  <2>1. run' = <<>> /\ todo' = <<>> /\ UNCHANGED <<state, given, heard>>
    BY <1>6 DEF Throws, Throw
  <2>. QED BY <2>1
<1>8. ASSUME NEW l \in Lists, Loop(l)
      PROVE  run' \in Seq(plain) /\ UNCHANGED <<todo, state, given, heard>>
  <2>1. UNCHANGED <<todo, state, given, heard>>
    BY <1>8 DEF Loop, heardVars
  <2>2. CASE EndLoop(l)
    <3>1. run # <<>> /\ l \in plain /\ run' = Returned(Now, l).run
      BY <1>3, <2>2 DEF EndLoop, Looping, Becomes
    <3>2. run' \in {Front(run), Append(Front(run), l)}
      BY <3>1, RunsOfMethods DEF Now
    <3>. QED BY <1>1, <2>1, <3>1, <3>2, PlainRuns
  <2>3. CASE CallNothing(l)
    <3>1. run' = <<>>
      BY <2>3 DEF CallNothing
    <3>. QED BY <2>1, <3>1
  <2>4. CASE Return(l)
    <3>1. run # <<>> /\ l \in plain /\ run' = Moved(Now, l).run
      BY <1>3, <2>4 DEF Return, InUser, Becomes
    <3>2. run' = run
      BY <3>1 DEF Moved, Now
    <3>. QED BY <1>1, <2>1, <3>2
  <2>5. CASE ReturnFalse(l)
    <3>1. PICK C : C = [cb EXCEPT ![l].memory = NoValue]
      OBVIOUS
    <3>2. [Now EXCEPT !.cb[l].memory = NoValue] = [cb |-> C, run |-> run]
      BY <3>1 DEF Now
    <3>3. run # <<>> /\ l \in plain /\ run' = Returned([cb |-> C, run |-> run], l).run
      BY <1>3, <2>5, <3>2 DEF ReturnFalse, InUser, Becomes
    <3>4. run' \in {Front(run), Append(Front(run), l)}
      BY <3>3, RunsOfMethods
    <3>. QED BY <1>1, <2>1, <3>3, <3>4, PlainRuns
  <2>. QED BY <1>8, <2>2, <2>3, <2>4, <2>5 DEF Loop
<1>9. ASSUME NEW l \in Lists, CallHandler(l)
      PROVE  run' = run /\ UNCHANGED <<todo, state, given, heard>>
  <2>1. l \notin DeferredLists
    BY <1>3, <1>9 DEF CallHandler, CallUser, Looping
  <2>. QED BY <1>9, <2>1 DEF CallHandler, CallUser
<1>10. ASSUME NEW l \in Lists, UsePlain(l)
       PROVE  run' \in Seq(plain) /\ UNCHANGED <<todo, state, given, heard>>
  <2>1. l \in plain /\ UserCall(l) /\ UNCHANGED <<todo, state, given, heard>>
    BY <1>10 DEF UsePlain, heardVars
  <2>2. PICK s : Calls(s) /\ s.run \in {run, Append(run, l)}
    <3>1. CASE \E v \in Values : Fire(l, v)
      <4>1. PICK v \in Values : Calls(FiredWith(Now, l, v))
        BY <3>1 DEF Fire
      <4>2. FiredWith(Now, l, v).run \in {run, Append(run, l)}
        BY RunsOfMethods DEF Now
      <4>. QED BY <4>1, <4>2
    <3>2. CASE \E f \in Fns : Add(l, f)
      <4>1. PICK f \in Fns : Calls(Added(Now, l, User(f)))
        BY <3>2 DEF Add
      <4>2. Added(Now, l, User(f)).run \in {run, Append(run, l)}
        BY RunsOfMethods DEF Now
      <4>. QED BY <4>1, <4>2
    <3>3. CASE \E f \in Fns : RemoveFn(l, f)
      <4>1. PICK f \in Fns : Calls(Dropped(Now, l, User(f)))
        BY <3>3 DEF RemoveFn
      <4>2. Dropped(Now, l, User(f)).run = run
        BY DEF Dropped, Now
      <4>. QED BY <4>1, <4>2
    <3>4. /\ Disabled(Now, l).run = run /\ Locked(Now, l).run = run
          /\ Emptied(Now, l).run = run
      BY DEF Disabled, Locked, Emptied, Now
    <3>5. CASE Disable(l) \/ Lock(l) \/ Empty(l)
      BY <3>4, <3>5 DEF Disable, Lock, Empty
    <3>. QED BY <2>1, <3>1, <3>2, <3>3, <3>5 DEF UserCall
  <2>3. run' \in {run, Append(run, l)}
    BY <2>2 DEF Calls, Becomes
  <2>. QED BY <1>1, <2>1, <2>3, PlainRuns
<1>. QED BY <1>1, <1>5, <1>6, <1>8, <1>9, <1>10, PlainOnly

LEMMA StutterOK ==
  ASSUME Inv, UNCHANGED vars
  PROVE  Inv' /\ Keeps
<1>1. UNCHANGED <<cb, run, state, todo, args, given, heard, threw>>
  BY DEF vars, callbackVars, whenVars, heardVars
<1>2. CbOK' /\ ListsOK' /\ StateOK' /\ FatesOK'
  BY <1>1 DEF Inv, CbOK, ListsOK, StateOK, FatesOK
<1>3. RunOK' /\ TodoOK' /\ HeardOK'
  BY <1>1 DEF Inv, RunOK, TodoOK, HeardOK, Current
<1>4. Keeps
  BY <1>1 DEF Keeps, ValuesKept, OutcomesKept
<1>. QED BY <1>2, <1>3, <1>4 DEF Inv

LEMMA Inductive == IInv /\ [Next]_vars => IInv' /\ (plain = {} => Keeps)
<1>. SUFFICES ASSUME IInv, [Next]_vars PROVE IInv' /\ (plain = {} => Keeps)
  OBVIOUS
<1>1. plain' = plain
  BY PlainStays
<1>2. CASE plain = {}
  <2>1. Inv
    BY <1>2 DEF IInv
  <2>2. Inv' /\ Keeps
    BY <1>2, <2>1, ActionOK, StutterOK
  <2>. QED BY <1>1, <1>2, <2>2 DEF IInv
<1>3. CASE plain # {}
  <2>1. Untouched /\ plain \subseteq Lists \ DeferredLists
    BY <1>3 DEF IInv
  <2>2. Untouched'
    BY <1>3, <2>1, PlainStep
  <2>. QED BY <1>1, <1>3, <2>1, <2>2 DEF IInv
<1>. QED BY <1>2, <1>3

LEMMA AlwaysIInv == Spec => []IInv
BY InitOK, Inductive, PTL DEF Spec

-----------------------------------------------------------------------------
(* What the invariant says of a settled deferred.                          *)
LEMMA SettledHasFired ==
  ASSUME Inv, NEW l \in Deferred \X Outcomes, state[l[1]] = Outcome(l[2])
  PROVE  cb[l].fired
<1>1. FateOf(l[2], state[l[1]], cb[l], cb[Across(l)])
  BY FatesAre DEF Inv
<1>2. Outcome(l[2]) # Outcome(Other(l[2])) /\ Outcome(l[2]) # "pending"
  BY AcrossIs
<1>3. PICK k, s, c, o : k = l[2] /\ s = state[l[1]] /\ c = cb[l] /\ o = cb[Across(l)]
  OBVIOUS
<1>4. Going(k, s, c, o)
  BY <1>1, <1>2, <1>3 DEF FateOf, Going
<1>. QED BY <1>3, <1>4 DEF Going

LEMMA NotItsOutcome ==
  ASSUME Inv, NEW l \in Deferred \X Outcomes, state[l[1]] # Outcome(l[2]), ~cb[l].firing
  PROVE  ~cb[l].fired
<1>1. FateOf(l[2], state[l[1]], cb[l], cb[Across(l)])
  BY FatesAre DEF Inv
<1>. QED BY <1>1 DEF FateOf, Waiting, Going, Calling

(* A settled deferred has called each handler of its outcome once for each *)
(* time it was given, and none of the other, once jQuery's code is done    *)
(* and no callback has thrown: resolve, reject, done, fail, then and when  *)
(* may have been called by the handlers themselves, in any order.          *)
THEOREM HandlersAreHeard == Spec => []HandlersHeard
<1>1. IInv => HandlersHeard
  <2>. SUFFICES ASSUME IInv, run = <<>>, ~threw, NEW d \in Deferred, NEW k \in Outcomes
       PROVE  heard[<<d, k>>] = IF state[d] = Outcome(k) THEN given[<<d, k>>] ELSE [f \in Fns |-> 0]
    BY DEF HandlersHeard, Quiet, Outcomes
  <2>1. PICK l \in Deferred \X Outcomes : l = <<d, k>>
    OBVIOUS
  <2>2. l \in DeferredLists /\ l \in Deferred \X Kind /\ l[1] = d /\ l[2] = k
    BY <2>1, OutcomeLists DEF DeferredLists
  <2>3. CASE plain # {}
    <3>1. state[d] = "pending" /\ heard[l] = [f \in Fns |-> 0]
      BY <2>2, <2>3 DEF IInv, Untouched
    <3>. QED BY <2>1, <3>1 DEF Outcome
  <2>4. CASE plain = {}
    <3>1. Inv
      BY <2>4 DEF IInv
    <3>2. ~cb[l].firing
      BY <2>2, <3>1 DEF Inv, RunOK
    <3>3. ListOK(l, cb[l]) /\ l[2] # "progress"
      BY <2>2, <3>1, OutcomeLists DEF Inv, ListsOK
    <3>4. Counted(cb[l], given[l], heard[l]) /\ given[l] \in [Fns -> Nat] /\ heard[l] \in [Fns -> Nat]
      BY <2>2, <3>1 DEF Inv, HeardOK
    <3>5. CASE state[d] = Outcome(k)
      <4>1. cb[l].fired
        BY <2>2, <3>1, <3>5, SettledHasFired
      <4>2. cb[l].on /\ cb[l].fns = <<>> /\ cb[l] \in Closures
        BY <3>2, <3>3, <4>1 DEF ListOK, ClosureOK, CallbacksOK
      <4>3. ASSUME NEW f \in Fns PROVE given[l][f] = heard[l][f]
        <5>1. Reached(cb[l]) >= Len(cb[l].fns)
          BY <3>2, <4>2 DEF Reached
        <5>2. ToHear(cb[l], f) = 0
          BY <4>2, <5>1, HearNone
        <5>3. given[l][f] = heard[l][f] + ToHear(cb[l], f)
          BY <3>4, <4>2 DEF Counted
        <5>. QED BY <3>4, <5>2, <5>3
      <4>4. heard[l] = given[l]
        BY <3>4, <4>3
      <4>. QED BY <2>1, <3>5, <4>4
    <3>6. CASE state[d] # Outcome(k)
      <4>1. ~cb[l].fired
        BY <2>2, <3>1, <3>2, <3>6, NotItsOutcome
      <4>2. \A f \in Fns : heard[l][f] = 0
        BY <3>4, <4>1 DEF Counted
      <4>3. heard[l] = [f \in Fns |-> 0]
        BY <3>4, <4>2
      <4>. QED BY <2>1, <3>6, <4>3
    <3>. QED BY <3>5, <3>6
  <2>. QED BY <2>3, <2>4
<1>. QED BY <1>1, AlwaysIInv, PTL

(* No step changes the outcome of a deferred that has one, nor the value   *)
(* its list of that outcome remembers: not a second resolve or reject, not *)
(* one called by a handler, by then() or by when(), not a throw.           *)
THEOREM OutcomesAreKept == Spec => SettlesOnce
<1>1. IInv /\ [Next]_vars =>
        [\A d \in Deferred, k \in {"done", "fail"} :
           state[d] = Outcome(k) => /\ state'[d] = state[d]
                                    /\ cb'[<<d, k>>].memory = cb[<<d, k>>].memory]_vars
  <2>. SUFFICES ASSUME IInv, [Next]_vars, NEW d \in Deferred, NEW k \in Outcomes, state[d] = Outcome(k)
       PROVE  state'[d] = state[d] /\ cb'[<<d, k>>].memory = cb[<<d, k>>].memory
    BY DEF Outcomes
  <2>1. state[d] # "pending"
    BY DEF Outcome
  <2>2. plain = {}
    BY <2>1 DEF IInv, Untouched
  <2>3. Inv /\ ValuesKept /\ OutcomesKept
    BY <2>2, Inductive DEF IInv, Keeps
  <2>4. PICK l \in Deferred \X Outcomes : l = <<d, k>>
    OBVIOUS
  <2>5. l[1] = d /\ l[2] = k
    BY <2>4
  <2>6. cb[l].fired
    BY <2>3, <2>5, SettledHasFired
  <2>7. cb'[l].memory = cb[l].memory
    BY <2>3, <2>6 DEF ValuesKept
  <2>. QED BY <2>1, <2>3, <2>4, <2>7 DEF OutcomesKept
<1>. QED BY <1>1, AlwaysIInv, PTL DEF Spec, SettlesOnce

-----------------------------------------------------------------------------
(* How an outcome is passed on, from the lists of the deferreds that then()*)
(* and when() were given to those they made.                               *)
AskedIn(t, x) == \E k \in DOMAIN t : t[k].call = x
Asked(x) == AskedIn(todo, x)
Single(t, W) == \A j, k \in DOMAIN t : t[j].call \in W /\ t[k].call \in W => j = k
(* when() has its end to come as long as it has arguments to look at.      *)
Below(t) == \A j \in DOMAIN t : t[j].call[1] = "observe" =>
                \E k \in DOMAIN t : k < j /\ t[k].call = <<"finish">>
Has(c, x) == \E p \in DOMAIN c.fns : c.fns[p] = x
Comes(c, x) == \E p \in DOMAIN c.fns : p > Reached(c) /\ c.fns[p] = x
Once(c, x) == \A p, q \in DOMAIN c.fns : c.fns[p] = x /\ c.fns[q] = x => p = q
DataOK(c) == c.firing => c.data = c.memory

OutcomeList == Deferred \X Outcomes
Passing == ({"forward"} \X DeferredLists) \cup ({"update"} \X Nat)
MasterDone == <<Master, "done">>
MasterFail == <<Master, "fail">>
Made == {l \in OutcomeList : l[1] \in {Child, Master}}
Told(m) == \E v \in Values : Asked(<<"fire", m, v>>)
Fired(m) == cb[<<m[1], "done">>].fired \/ cb[<<m[1], "fail">>].fired

(* The list l is to pass its value on to m.                                *)
LinkedBy(l, m, i) == m = MasterFail /\ l = <<args[i], "fail">>
Linked(l, m) == \/ l \in feeds /\ m = <<Child, l[2]>>
                \/ \E i \in Subordinates(args) : LinkedBy(l, m, i)
Allowed(l, x) == IF x[1] = "then" THEN source # Plain
                 ELSE IF x[1] = "forward" THEN Linked(l, x[2])
                 ELSE /\ x[2] \in Subordinates(args)
                      /\ l \in {<<args[x[2]], "done">>, <<args[x[2]], "progress">>}
OnlyLinked ==
  \A l \in DeferredLists, x \in Own : Asked(<<"add", l, x>>) \/ Has(cb[l], x) => Allowed(l, x)
(* No outcome of Child or Master that none of those linked to it has.      *)
Caused(m) == \E l \in OutcomeList : Linked(l, m) /\ cb[l].fired
NoneInvented == \A m \in Made : m # MasterDone /\ (Told(m) \/ cb[m].fired) => Caused(m)
(* A link is on its way to being made, or made, until the outcome is known.*)
OnItsWay(l, m) ==
  \/ \E i \in Subordinates(args) : LinkedBy(l, m, i) /\ Asked(<<"observe", i>>)
  \/ Asked(<<"add", l, <<"forward", m>>>>) \/ Comes(cb[l], <<"forward", m>>) \/ Told(m) \/ Fired(m)
NoneLost == \A l, m \in OutcomeList : Linked(l, m) /\ cb[l].on => OnItsWay(l, m)
FeedsOK == feeds \subseteq DeferredLists /\ (source = Plain => feeds = {})
LinksOK == FeedsOK /\ OnlyLinked /\ NoneInvented /\ NoneLost

(* What when() still waits for, and who is to answer.                      *)
DoneOf(i) == <<args[i], "done">>
AnswersIn(i) == {<<"observe", i>>, <<"add", DoneOf(i), <<"update", i>>>>}
Awaited(i) == \E x \in AnswersIn(i) : Asked(x)
Left == {i \in DOMAIN args : IF args[i] = Plain THEN Asked(<<"observe", i>>) ELSE answers[i] = NoValue}
CountOK ==
  /\ answers \in [DOMAIN args -> Values \cup {NoValue}]
  /\ remaining = Cardinality(Left)
  /\ Told(MasterDone) \/ cb[MasterDone].fired => args # <<>> /\ remaining = 0
  /\ args # <<>> /\ remaining = 0 => Asked(<<"finish">>) \/ Told(MasterDone) \/ Fired(MasterDone)
AnswerOK(i) ==
  /\ answers[i] # NoValue => cb[DoneOf(i)].fired /\ answers[i] = cb[DoneOf(i)].memory
  /\ Once(cb[DoneOf(i)], <<"update", i>>)
  /\ Awaited(i) => ~Has(cb[DoneOf(i)], <<"update", i>>) /\ answers[i] = NoValue
  /\ Comes(cb[DoneOf(i)], <<"update", i>>) => answers[i] = NoValue
  /\ cb[DoneOf(i)].on /\ answers[i] = NoValue => Awaited(i) \/ Comes(cb[DoneOf(i)], <<"update", i>>)
AnswersOK ==
  /\ \A i \in DOMAIN args : Single(todo, AnswersIn(i))
  /\ \A i \in Subordinates(args) : AnswerOK(i)
DatasOK == \A l \in OutcomeList : DataOK(cb[l])
AsksOK == Below(todo) /\ (Asked(<<"finish">>) => args # <<>>)
Wires == DatasOK /\ LinksOK /\ AsksOK /\ CountOK /\ AnswersOK
Wired == IF plain = {} THEN ~threw => Wires ELSE args = <<>> /\ feeds = {}

-----------------------------------------------------------------------------
(* Calls on the stack of those jQuery's code is about to make.             *)
LEMMA AskedFront ==
  ASSUME NEW S, NEW t \in Seq(S), t # <<>>
  PROVE  /\ AskedIn(t, Last(t).call)
         /\ \A x : AskedIn(Front(t), x) => AskedIn(t, x)
         /\ \A x : AskedIn(t, x) => AskedIn(Front(t), x) \/ x = Last(t).call
         /\ \A W : Single(t, W) => Single(Front(t), W)
         /\ \A W : Single(t, W) /\ Last(t).call \in W => \A x \in W : ~AskedIn(Front(t), x)
         /\ Below(t) => Below(Front(t))
<1>1. PICK n, front : n = Len(t) /\ front = Front(t)
  OBVIOUS
<1>2. /\ n \in DOMAIN t /\ Last(t) = t[n]
      /\ \A i \in DOMAIN front : i \in DOMAIN t /\ front[i] = t[i] /\ i # n
      /\ \A i \in DOMAIN t : i = n \/ i \in DOMAIN front
  BY <1>1, FrontIs DEF Last
<1>3. ASSUME Below(t) PROVE Below(front)
  <2>1. n \in Nat /\ DOMAIN t = 1..n /\ \A i \in Nat : i \in DOMAIN t /\ i # n => i \in DOMAIN front
    BY <1>1, <1>2
  <2>2. \A j \in DOMAIN front, k \in DOMAIN t : k < j => k # n /\ k \in Nat
    BY <1>2, <2>1
  <2>3. ASSUME NEW j \in DOMAIN front, front[j].call[1] = "observe"
        PROVE  \E k \in DOMAIN front : k < j /\ front[k].call = <<"finish">>
    <3>1. j \in DOMAIN t /\ t[j].call[1] = "observe"
      BY <1>2, <2>3
    <3>2. PICK k \in DOMAIN t : k < j /\ t[k].call = <<"finish">>
      BY <1>3, <3>1 DEF Below
    <3>3. k \in DOMAIN front
      BY <2>1, <2>2, <3>2
    <3>. QED BY <1>2, <3>2, <3>3
  <2>. QED BY <2>3 DEF Below
<1>. QED BY <1>1, <1>2, <1>3 DEF AskedIn, Single

LEMMA AskedBefore ==
  ASSUME NEW S, NEW rest \in Seq([depth : Nat, call : S]), NEW calls \in Seq(S), Len(run) \in Nat
  PROVE  /\ \A x : AskedIn(Before(rest, calls), x) <=> (AskedIn(rest, x) \/ \E k \in DOMAIN calls : calls[k] = x)
         /\ \A W : Single(rest, W) /\ (\A k \in DOMAIN calls : calls[k] \notin W) => Single(Before(rest, calls), W)
         /\ \A W : (\A x \in W : ~AskedIn(rest, x))
                  /\ (\A j, k \in DOMAIN calls : calls[j] \in W /\ calls[k] \in W => j = k)
                  => Single(Before(rest, calls), W)
         /\ Below(rest) /\ (\/ \A k \in DOMAIN calls : calls[k][1] # "observe"
                            \/ calls # <<>> /\ calls[Len(calls)] = <<"finish">>)
                  => Below(Before(rest, calls))
<1>1. PICK n \in Nat : n = Len(calls) /\ DOMAIN calls = 1..n
  OBVIOUS
<1>2. PICK T : T = [depth : Nat, call : S]
  OBVIOUS
<1>3. PICK new : new = [k \in DOMAIN calls |-> [depth |-> Len(run), call |-> Reverse(calls)[k]]]
  OBVIOUS
<1>4. \A k \in 1..n : (n - k) + 1 \in 1..n
  BY <1>1
<1>5. new \in [1..n -> T] /\ \A k \in 1..n : new[k].call = calls[(n - k) + 1]
  <2>1. \A k \in 1..n : Reverse(calls)[k] = calls[(n - k) + 1]
    BY <1>1 DEF Reverse
  <2>2. \A k \in 1..n : calls[(n - k) + 1] \in S
    BY <1>1, <1>4
  <2>. QED BY <1>1, <1>2, <1>3, <2>1, <2>2
<1>6. new \in Seq(T) /\ Len(new) = n /\ rest \in Seq(T)
  <2>1. new \in [1..n -> T]
    BY <1>5
  <2>2. rest \in Seq(T)
    BY <1>2
  <2>. QED BY <2>1, <2>2
<1>7. PICK m \in Nat : m = Len(rest) /\ DOMAIN rest = 1..m
  BY <1>6
<1>8. PICK both : both = rest \o new
  OBVIOUS
<1>9. DOMAIN both = 1..(m + n) /\ \A i \in 1..(m + n) : both[i] = IF i <= m THEN rest[i] ELSE new[i - m]
  BY <1>6, <1>7, <1>8
<1>10. \A i \in DOMAIN rest : i \in DOMAIN both /\ both[i] = rest[i]
  BY <1>7, <1>9, <1>1
<1>11. \A k \in DOMAIN calls : \E i \in DOMAIN both : both[i].call = calls[k]
  <2>1. ASSUME NEW k \in 1..n PROVE \E i \in DOMAIN both : both[i].call = calls[k]
    <3>1. PICK j, i : j = (n - k) + 1 /\ i = m + j
      OBVIOUS
    <3>2. j \in 1..n /\ (n - j) + 1 = k /\ i \in 1..(m + n) /\ ~(i <= m) /\ i - m = j
      BY <1>1, <1>7, <3>1
    <3>3. both[i] = new[j]
      BY <1>9, <3>2
    <3>. QED BY <1>5, <1>9, <3>2, <3>3
  <2>. QED BY <1>1, <2>1
<1>12. ASSUME NEW i \in DOMAIN both
       PROVE  \/ i \in DOMAIN rest /\ both[i] = rest[i]
              \/ i \notin DOMAIN rest /\ m + n + 1 - i \in DOMAIN calls /\ both[i].call = calls[m + n + 1 - i]
  <2>1. CASE i <= m
    BY <1>7, <1>9, <2>1
  <2>2. CASE ~(i <= m)
    <3>1. PICK j : j = i - m
      OBVIOUS
    <3>2. j \in 1..n /\ (n - j) + 1 = m + n + 1 - i /\ i \notin 1..m
      BY <1>1, <1>7, <1>9, <2>2, <3>1
    <3>3. both[i] = new[j]
      BY <1>9, <2>2, <3>1
    <3>4. new[j].call = calls[m + n + 1 - i] /\ m + n + 1 - i \in 1..n
      BY <1>4, <1>5, <3>2
    <3>. QED BY <1>1, <1>7, <3>2, <3>3, <3>4
  <2>. QED BY <2>1, <2>2
<1>13. \A i, j \in DOMAIN both : m + n + 1 - i = m + n + 1 - j => i = j
  BY <1>1, <1>7, <1>9
<1>14. PICK at : at = [i \in DOMAIN both |-> m + n + 1 - i]
  OBVIOUS
<1>15. /\ \A i \in DOMAIN both : \/ i \in DOMAIN rest /\ both[i] = rest[i]
                                 \/ i \notin DOMAIN rest /\ at[i] \in DOMAIN calls /\ both[i].call = calls[at[i]]
       /\ \A i, j \in DOMAIN both : at[i] = at[j] => i = j
  BY <1>12, <1>13, <1>14
<1>16. \A x : AskedIn(both, x) <=> (AskedIn(rest, x) \/ \E k \in DOMAIN calls : calls[k] = x)
  BY <1>10, <1>11, <1>15 DEF AskedIn
<1>17. ASSUME NEW W, Single(rest, W), \A k \in DOMAIN calls : calls[k] \notin W PROVE Single(both, W)
  BY <1>15, <1>17 DEF Single
<1>18. ASSUME NEW W, \A x \in W : ~AskedIn(rest, x),
              \A j, k \in DOMAIN calls : calls[j] \in W /\ calls[k] \in W => j = k
       PROVE  Single(both, W)
  BY <1>15, <1>18 DEF Single, AskedIn
<1>19. ASSUME Below(rest), \/ \A k \in DOMAIN calls : calls[k][1] # "observe"
                           \/ calls # <<>> /\ calls[Len(calls)] = <<"finish">>
       PROVE  Below(both)
  <2>1. ASSUME NEW j \in DOMAIN both, both[j].call[1] = "observe"
        PROVE  \E k \in DOMAIN both : k < j /\ both[k].call = <<"finish">>
    <3>1. CASE j \in DOMAIN rest /\ both[j] = rest[j]
      <4>1. PICK k \in DOMAIN rest : k < j /\ rest[k].call = <<"finish">>
        BY <1>19, <2>1, <3>1 DEF Below
      <4>. QED BY <1>10, <4>1
    <3>2. CASE j \notin DOMAIN rest /\ at[j] \in DOMAIN calls /\ both[j].call = calls[at[j]]
      <4>1. n > 0 /\ calls[n] = <<"finish">>
        BY <1>1, <1>19, <2>1, <3>2
      <4>2. m + 1 \in DOMAIN both /\ m + 1 \notin DOMAIN rest /\ at[m + 1] = n
        <5>1. m + 1 \in DOMAIN both /\ m + 1 \notin DOMAIN rest
          BY <1>7, <1>9, <4>1
        <5>2. at[m + 1] = m + n + 1 - (m + 1)
          BY <1>14, <5>1
        <5>. QED BY <5>1, <5>2
      <4>3. both[m + 1].call = <<"finish">>
        BY <1>15, <4>1, <4>2
      <4>4. j # m + 1
        BY <2>1, <4>3
      <4>5. j > m
        BY <1>7, <1>9, <3>2
      <4>. QED BY <1>7, <1>9, <4>2, <4>3, <4>4, <4>5
    <3>. QED BY <1>15, <3>1, <3>2
  <2>. QED BY <2>1 DEF Below
<1>. QED BY <1>3, <1>8, <1>16, <1>17, <1>18, <1>19 DEF Before

-----------------------------------------------------------------------------
(* What changes of a list leave of the callbacks that pass something on.   *)
Like(c, new, x) ==
  /\ Comes(new, x) => Comes(c, x)
  /\ new.on /\ Comes(c, x) => Comes(new, x)
  /\ Once(c, x) => Once(new, x)
Open(c, new) == (new.on => c.on) /\ (DataOK(c) => DataOK(new))
Alike(l, c, new) ==
  /\ \A x \in Own : Has(new, x) => Has(c, x)
  /\ l[2] # "progress" => Open(c, new) /\ \A x \in Passing : Like(c, new, x)

LEMMA AlikePlaces ==
  ASSUME NEW l, NEW c, NEW new, new.fns = c.fns,
         l[2] # "progress" => Reached(new) = Reached(c) /\ Open(c, new)
  PROVE  Alike(l, c, new)
BY DEF Alike, Like, Has, Comes, Once

LEMMA AlikeNone ==
  ASSUME NEW l, NEW c, NEW new, new.fns = <<>>,
         l[2] # "progress" => Open(c, new) /\ (new.on => \A x : ~Comes(c, x))
  PROVE  Alike(l, c, new)
<1>1. DOMAIN new.fns = {}
  OBVIOUS
<1>. QED BY <1>1 DEF Alike, Like, Has, Comes, Once

LEMMA ComesNone ==
  ASSUME NEW c \in Closures, Reached(c) \in Nat, Reached(c) >= Len(c.fns)
  PROVE  \A x : ~Comes(c, x)
<1>1. c.fns \in Seq(Early \cup Later)
  BY DEF Closures
<1>2. \A p \in DOMAIN c.fns : p \in Nat /\ p <= Len(c.fns) /\ Len(c.fns) \in Nat
  BY <1>1
<1>. QED BY <1>2 DEF Comes

(* The next one is called.                                                 *)
LEMMA ComesCalled ==
  ASSUME NEW c \in Closures, NEW new, new.fns = c.fns, Reached(c) \in Nat, Reached(c) < Len(c.fns),
         Reached(new) = Reached(c) + 1, NEW e, e = c.fns[Reached(c) + 1]
  PROVE  /\ Comes(c, e) /\ Has(c, e)
         /\ \A x : Has(new, x) <=> Has(c, x)
         /\ \A x : Once(c, x) => Once(new, x)
         /\ \A x : x # e => (Comes(new, x) <=> Comes(c, x))
         /\ Once(c, e) => ~Comes(new, e)
<1>1. c.fns \in Seq(Early \cup Later)
  BY DEF Closures
<1>2. PICK m, r : m = Reached(c) + 1 /\ r = Reached(c)
  OBVIOUS
<1>3. m \in DOMAIN c.fns /\ m > r /\ c.fns[m] = e /\ Reached(new) = m
      /\ \A p \in DOMAIN c.fns : /\ p > r <=> (p = m \/ p > m)
                               /\ p > m => p # m
  BY <1>1, <1>2
<1>. QED BY <1>2, <1>3 DEF Comes, Has, Once

(* One more is added.                                                      *)
LEMMA ComesLonger ==
  ASSUME NEW c \in Closures, NEW new, NEW e, new.fns = Append(c.fns, e), Reached(c) \in Nat,
         Reached(new) = Reached(c), Reached(c) <= Len(c.fns)
  PROVE  /\ \A x : Has(new, x) <=> (Has(c, x) \/ x = e)
         /\ \A x : Comes(new, x) <=> (Comes(c, x) \/ x = e)
         /\ \A x : Once(c, x) /\ (x = e => ~Has(c, x)) => Once(new, x)
<1>1. c.fns \in Seq(Early \cup Later)
  BY DEF Closures
<1>2. PICK n \in Nat : n = Len(c.fns) /\ DOMAIN c.fns = 1..n
  BY <1>1
<1>3. PICK m, r : m = n + 1 /\ r = Reached(c)
  OBVIOUS
<1>4. /\ m \in DOMAIN new.fns /\ m \notin DOMAIN c.fns /\ new.fns[m] = e /\ m > r
      /\ \A p \in DOMAIN c.fns : p \in DOMAIN new.fns /\ new.fns[p] = c.fns[p]
      /\ \A p \in DOMAIN new.fns : p = m \/ p \in DOMAIN c.fns
  BY <1>1, <1>2, <1>3
<1>5. Reached(new) = r
  BY <1>3
<1>6. \A x : Has(new, x) <=> (Has(c, x) \/ x = e)
  BY <1>4 DEF Has
<1>7. \A x : Comes(new, x) <=> (Comes(c, x) \/ x = e)
  BY <1>3, <1>4, <1>5 DEF Comes
<1>8. \A x : Once(c, x) /\ (x = e => ~Has(c, x)) => Once(new, x)
  BY <1>4 DEF Once, Has
<1>. QED BY <1>6, <1>7, <1>8

AllAlike == \A m \in DeferredLists : Alike(m, cb[m], cb'[m])
NoneFires == \A m \in OutcomeList : cb'[m].fired => cb[m].fired

LEMMA SameAlike ==
  ASSUME cb' = cb
  PROVE  AllAlike /\ NoneFires
<1>1. ASSUME NEW m \in DeferredLists PROVE Alike(m, cb[m], cb'[m])
  <2>1. PICK c, new : c = cb[m] /\ new = cb'[m] /\ new = c
    OBVIOUS
  <2>2. new.fns = c.fns /\ Reached(new) = Reached(c) /\ Open(c, new)
    BY <2>1 DEF Open
  <2>3. Alike(m, c, new)
    BY <2>2, AlikePlaces
  <2>. QED BY <2>1, <2>3
<1>. QED BY <1>1 DEF AllAlike, NoneFires

LEMMA OneAlike ==
  ASSUME NEW l \in DeferredLists, \A m \in DeferredLists : m # l => cb'[m] = cb[m],
         Alike(l, cb[l], cb'[l])
  PROVE  AllAlike
<1>1. ASSUME NEW m \in DeferredLists, m # l PROVE Alike(m, cb[m], cb'[m])
  <2>1. PICK c, new : c = cb[m] /\ new = cb'[m] /\ new = c
    BY <1>1
  <2>2. new.fns = c.fns /\ Reached(new) = Reached(c) /\ Open(c, new)
    BY <2>1 DEF Open
  <2>3. Alike(m, c, new)
    BY <2>2, AlikePlaces
  <2>. QED BY <2>1, <2>3
<1>. QED BY <1>1 DEF AllAlike

LEMMA OneChanged ==
  ASSUME CbOK, NEW l \in DeferredLists, NEW c, cb' = [cb EXCEPT ![l] = c]
  PROVE  cb'[l] = c /\ \A m \in DeferredLists : m # l => cb'[m] = cb[m]
BY ListsAssumption DEF CbOK

LEMMA OneFires ==
  ASSUME NEW l \in DeferredLists, \A m \in DeferredLists : m # l => cb'[m] = cb[m],
         cb'[l].fired => cb[l].fired
  PROVE  NoneFires
BY OutcomeLists DEF NoneFires, OutcomeList

(* A loop calls its next callback.                                         *)
LEMMA EntryIn ==
  ASSUME NEW l \in DeferredLists, NEW c, ListOK(l, c), c.firing, c.at = "loop", c.index < Len(c.fns),
         NEW e, e = c.fns[c.index + 1],
         NEW new \in {Stands(c, "user"), Stands(c, "wait"), Stepped(c)}
  PROVE  /\ Comes(c, e) /\ Has(c, e)
         /\ Open(c, new) /\ new.on = c.on /\ new.fired = c.fired /\ new.memory = c.memory
         /\ \A x : Has(new, x) <=> Has(c, x)
         /\ \A x : x # e => Like(c, new, x)
         /\ \A x : Once(c, x) => Once(new, x)
         /\ Once(c, e) => ~Comes(new, e)
         /\ e \notin Passing => Alike(l, c, new)
<1>1. c \in Closures /\ c.index \in Nat
  BY DEF ListOK, ClosureOK, Closures
<1>2. /\ new.fns = c.fns /\ new.on = c.on /\ new.firing = c.firing /\ new.data = c.data
      /\ new.memory = c.memory /\ new.fired = c.fired
      /\ \/ InCall(new) /\ new.index = c.index
         \/ new.at = "loop" /\ new.index = c.index + 1
  BY <1>1 DEF Stands, Stepped, Closures, InCall
<1>3. Reached(c) = c.index /\ Reached(new) = c.index + 1
  <2>1. Reached(c) = c.index
    BY ReachedIs
  <2>2. Reached(new) = c.index + 1
    BY <1>1, <1>2 DEF Reached, InCall
  <2>. QED BY <2>1, <2>2
<1>4. Open(c, new)
  BY <1>2 DEF Open, DataOK
<1>5. /\ Comes(c, e) /\ Has(c, e)
      /\ \A x : Has(new, x) <=> Has(c, x)
      /\ \A x : Once(c, x) => Once(new, x)
      /\ \A x : x # e => (Comes(new, x) <=> Comes(c, x))
      /\ Once(c, e) => ~Comes(new, e)
  <2>1. new.fns = c.fns /\ Reached(c) \in Nat /\ Reached(c) < Len(c.fns) /\ Reached(new) = Reached(c) + 1
        /\ e = c.fns[Reached(c) + 1]
    BY <1>1, <1>2, <1>3
  <2>. QED BY <1>1, <2>1, ComesCalled
<1>6. \A x : x # e => Like(c, new, x)
  BY <1>5 DEF Like
<1>7. ASSUME e \notin Passing PROVE Alike(l, c, new)
  BY <1>4, <1>5, <1>6, <1>7 DEF Alike
<1>. QED BY <1>2, <1>4, <1>5, <1>6, <1>7

LEMMA EntryCalled ==
  ASSUME Inv, NEW l \in DeferredLists, Internal(l), NEW new,
         new \in {Stands(cb[l], "user"), Stands(cb[l], "wait"), Stepped(cb[l])},
         cb' = [cb EXCEPT ![l] = new]
  PROVE  /\ \A m \in DeferredLists : m # l => cb'[m] = cb[m]
         /\ Comes(cb[l], Entry(l)) /\ Has(cb[l], Entry(l))
         /\ Open(cb[l], cb'[l]) /\ cb'[l].on = cb[l].on
         /\ \A x : Has(cb'[l], x) <=> Has(cb[l], x)
         /\ \A x : x # Entry(l) => Like(cb[l], cb'[l], x)
         /\ \A x : Once(cb[l], x) => Once(cb'[l], x)
         /\ Once(cb[l], Entry(l)) => ~Comes(cb'[l], Entry(l))
         /\ NoneFires
         /\ Entry(l) \notin Passing => AllAlike
<1>1. PICK c, e : c = cb[l] /\ e = Entry(l)
  OBVIOUS
<1>2. /\ ListOK(l, c) /\ c.firing /\ c.at = "loop" /\ c.index < Len(c.fns)
      /\ e = c.fns[c.index + 1]
  BY <1>1, InternalIs
<1>3. cb'[l] = new /\ \A m \in DeferredLists : m # l => cb'[m] = cb[m]
  BY OneChanged DEF Inv
<1>4. /\ Comes(c, e) /\ Has(c, e)
      /\ Open(c, new) /\ new.on = c.on /\ new.fired = c.fired /\ new.memory = c.memory
      /\ \A x : Has(new, x) <=> Has(c, x)
      /\ \A x : x # e => Like(c, new, x)
      /\ \A x : Once(c, x) => Once(new, x)
      /\ Once(c, e) => ~Comes(new, e)
      /\ e \notin Passing => Alike(l, c, new)
  <2>1. new \in {Stands(c, "user"), Stands(c, "wait"), Stepped(c)}
    BY <1>1
  <2>2. ListOK(l, c) /\ c.firing /\ c.at = "loop" /\ c.index < Len(c.fns) /\ e = c.fns[c.index + 1]
    BY <1>2
  <2>. QED BY <2>1, <2>2, EntryIn
<1>5. NoneFires
  BY <1>1, <1>3, <1>4, OneFires
<1>6. e \notin Passing => AllAlike
  BY <1>1, <1>3, <1>4, OneAlike
<1>. QED BY <1>1, <1>3, <1>4, <1>5, <1>6

(* A call of a callback goes on, or is over.                               *)
LEMMA CallGoesOn ==
  ASSUME Inv, Inv', NEW l \in DeferredLists, InCall(cb[l]), NEW new,
         new \in {Stands(cb[l], "wait"), Stepped(cb[l])}, cb' = [cb EXCEPT ![l] = new]
  PROVE  AllAlike /\ NoneFires
<1>1. PICK c : c = cb[l]
  OBVIOUS
<1>2. cb'[l] = new /\ \A m \in DeferredLists : m # l => cb'[m] = cb[m]
  BY OneChanged DEF Inv
<1>3. ListOK(l, c) /\ ListOK(l, new) /\ c \in Closures /\ c.firing /\ c.index \in Nat
  <2>1. ListOK(l, c) /\ ListOK(l, new)
    BY <1>1, <1>2 DEF Inv, ListsOK
  <2>. QED BY <1>1, <2>1 DEF ListOK, ClosureOK, InCall, Closures
<1>4. /\ new.fns = c.fns /\ new.on = c.on /\ new.firing = c.firing /\ new.data = c.data
      /\ new.memory = c.memory /\ new.fired = c.fired
      /\ \/ InCall(new) /\ new.index = c.index
         \/ new.at = "loop" /\ new.index = c.index + 1
  BY <1>1, <1>3 DEF Stands, Stepped, Closures, InCall
<1>5. Reached(new) = Reached(c)
  <2>1. Reached(c) = c.index + 1
    BY <1>1, <1>3, ReachedIs
  <2>2. Reached(new) = c.index + 1
    BY <1>3, <1>4 DEF Reached, InCall
  <2>. QED BY <2>1, <2>2
<1>6. Open(c, new)
  BY <1>4 DEF Open, DataOK
<1>7. Alike(l, c, new)
  BY <1>4, <1>5, <1>6, AlikePlaces
<1>. QED BY <1>1, <1>2, <1>4, <1>7, OneAlike, OneFires

LEMMA EndAlike ==
  ASSUME Inv, Inv', NEW l \in DeferredLists, EndLoop(l)
  PROVE  AllAlike /\ NoneFires
<1>1. run # <<>> /\ l = Current /\ cb[l].at = "loop" /\ Becomes(Returned(Now, l)) /\ ~More(l)
  BY DEF EndLoop, Looping
<1>2. PICK c : c = cb[l]
  OBVIOUS
<1>3. /\ ListOK(l, c) /\ c \in Closures /\ c.firing /\ c.fired /\ c.on /\ c.memory # NoValue
      /\ c.index = Len(c.fns) /\ c.index \in Nat
  <2>1. ListOK(l, c) /\ c.firing
    BY <1>1, <1>2, CurrentIs DEF Inv, ListsOK, RunOK
  <2>2. c \in Closures /\ c.index \in Nat /\ c.length \in Nat /\ c.fired
    BY <2>1 DEF ListOK, ClosureOK, Closures
  <2>3. c.on /\ c.memory # NoValue /\ c.length = Len(c.fns) /\ c.index <= c.length
    BY <2>1, <2>2, ValuesAssumption DEF ListOK, ClosureOK
  <2>4. ~(c.index < c.length)
    BY <1>1, <1>2, <2>3 DEF More
  <2>. QED BY <2>1, <2>2, <2>3, <2>4
<1>4. \A x : ~Comes(c, x)
  <2>1. Reached(c) = c.index
    BY <1>1, <1>2, <1>3, ReachedIs
  <2>. QED BY <1>3, <2>1, ComesNone
<1>5. ASSUME NEW new, cb' = [cb EXCEPT ![l] = new], new.fired,
             new.fns = <<>> \/ (new.fns = c.fns /\ l[2] = "progress"), l[2] # "progress" => Open(c, new)
      PROVE  AllAlike /\ NoneFires
  <2>1. cb'[l] = new /\ \A m \in DeferredLists : m # l => cb'[m] = cb[m]
    BY <1>5, OneChanged DEF Inv
  <2>2. Alike(l, c, new)
    <3>1. CASE new.fns = <<>>
      BY <1>4, <1>5, <3>1, AlikeNone
    <3>2. CASE new.fns = c.fns /\ l[2] = "progress"
      BY <3>2, AlikePlaces
    <3>. QED BY <1>5, <3>1, <3>2
  <2>. QED BY <1>2, <1>3, <2>1, <2>2, OneAlike, OneFires
<1>6. cb' = Returned(Now, l).cb
  BY <1>1 DEF Becomes
<1>7. CASE ~c.repeats /\ cb' = [cb EXCEPT ![l] = [Over(c) EXCEPT !.fns = <<>>]]
  <2>1. PICK new : new = [Over(c) EXCEPT !.fns = <<>>]
    OBVIOUS
  <2>2. new.fns = <<>> /\ new.fired /\ new.on /\ ~new.firing
    BY <1>3, <2>1 DEF Over, Closures
  <2>3. Open(c, new)
    BY <1>3, <2>2 DEF Open, DataOK
  <2>. QED BY <1>5, <1>7, <2>1, <2>2, <2>3
<1>8. CASE c.repeats /\ cb' = [cb EXCEPT ![l] = Over(c)]
  <2>1. l[2] = "progress"
    BY <1>3, <1>8 DEF ListOK, CallbacksOK
  <2>2. PICK new : new = Over(c)
    OBVIOUS
  <2>3. new.fns = c.fns /\ new.fired
    BY <1>3, <2>2 DEF Over, Closures
  <2>. QED BY <1>5, <1>8, <2>1, <2>2, <2>3
<1>9. CASE c.repeats /\ cb' = [cb EXCEPT ![l] = Begun([Over(c) EXCEPT !.queue = Tail(c.queue)], Head(c.queue), 0)]
  <2>1. l[2] = "progress"
    BY <1>3, <1>9 DEF ListOK, CallbacksOK
  <2>2. PICK new : new = Begun([Over(c) EXCEPT !.queue = Tail(c.queue)], Head(c.queue), 0)
    OBVIOUS
  <2>3. new.fns = c.fns /\ new.fired
    BY <1>3, <2>2 DEF Over, Begun, Closures
  <2>. QED BY <1>5, <1>9, <2>1, <2>2, <2>3
<1>. QED BY <1>2, <1>3, <1>6, <1>7, <1>8, <1>9, ReturnedIs DEF Inv

LEMMA ShutAlike ==
  ASSUME Inv, Inv', NEW l \in DeferredLists, CallShut(l)
  PROVE  AllAlike /\ NoneFires
<1>1. PICK e, m : e = Entry(l) /\ m = e[2]
  OBVIOUS
<1>2. /\ Internal(l) /\ e[1] \in {"disable", "lock"}
      /\ Becomes(Moved(IF e[1] = "lock" THEN Locked(Now, m) ELSE Disabled(Now, m), l))
  BY <1>1 DEF CallShut, Passes
<1>3. PICK c, new, old : c = cb[l] /\ new = Stepped(c) /\ old = cb[m]
  OBVIOUS
<1>4. /\ l \in Deferred \X Outcomes
      /\ e[1] = "disable" => m = Across(l)
      /\ e[1] = "lock" => m = <<l[1], "progress">>
      /\ ~cb[Across(l)].fired
  BY <1>1, <1>2, FirstCall
<1>5. /\ m \in DeferredLists /\ m # l /\ ListOK(m, old)
      /\ e[1] = "disable" => ~old.fired
      /\ e[1] = "lock" => m[2] = "progress"
  <2>1. Across(l) \in DeferredLists /\ Across(l) # l
        /\ <<l[1], "progress">> \in DeferredLists /\ <<l[1], "progress">> # l
    BY <1>4, AcrossIs, OutcomeLists, KindIs DEF DeferredLists, Outcomes
  <2>. QED BY <1>2, <1>3, <1>4, <2>1 DEF Inv, ListsOK
<1>6. PICK t : t = IF e[1] = "lock" THEN Locked(Now, m) ELSE Disabled(Now, m)
  OBVIOUS
<1>7. Disabled(Now, m) = [cb |-> [cb EXCEPT ![m] = Off(old)], run |-> run]
  BY <1>3 DEF Disabled, Now, Off
<1>8. PICK o : /\ t = [cb |-> [cb EXCEPT ![m] = o], run |-> run]
               /\ o = Off(old) \/ (o = Kept(old) /\ e[1] = "lock")
  <2>1. CASE e[1] = "disable" \/ old.memory = NoValue
    <3>1. t = Disabled(Now, m)
      BY <1>3, <1>6, <2>1 DEF Locked, Now
    <3>. QED BY <1>7, <3>1
  <2>2. CASE e[1] = "lock" /\ old.memory # NoValue
    <3>1. t = [cb |-> [cb EXCEPT ![m] = Kept(old)], run |-> run]
      BY <1>3, <1>6, <2>2 DEF Locked, Now, Kept
    <3>. QED BY <2>2, <3>1
  <2>. QED BY <1>2, <2>1, <2>2
<1>9. cb'[l] = new /\ cb'[m] = o /\ \A x \in DeferredLists : x # l /\ x # m => cb'[x] = cb[x]
  <2>1. l \in Lists /\ m \in Lists /\ DeferredLists \subseteq Lists
    BY <1>5, ListsAssumption
  <2>2. t.cb = [x \in Lists |-> t.cb[x]] /\ t.cb[l] = cb[l] /\ t.cb[m] = o
        /\ \A x \in Lists : x # m => t.cb[x] = cb[x]
    BY <1>5, <1>8, <2>1 DEF Inv, CbOK
  <2>3. cb' = [t.cb EXCEPT ![l] = Stepped(t.cb[l])]
    <3>1. Becomes(Moved(t, l))
      BY <1>2, <1>6
    <3>2. Moved(t, l).cb = [t.cb EXCEPT ![l] = Stepped(t.cb[l])]
      BY <1>8 DEF Moved, Stepped
    <3>. QED BY <3>1, <3>2 DEF Becomes
  <2>. QED BY <1>3, <1>5, <2>1, <2>2, <2>3
<1>10. Alike(l, c, new) /\ new.fired = c.fired
  <2>1. /\ ListOK(l, c) /\ c.firing /\ c.at = "loop" /\ c.index < Len(c.fns)
        /\ e = c.fns[c.index + 1]
    BY <1>1, <1>2, <1>3, InternalIs
  <2>2. e \notin Passing
    BY <1>2 DEF Passing
  <2>. QED BY <1>3, <2>1, <2>2, EntryIn
<1>11. o.fired = old.fired /\ o.firing = old.firing
       /\ (o = Off(old) => o.fns = <<>> /\ ~o.on) /\ (o = Kept(old) => o.fns = old.fns)
  BY <1>5, <1>8 DEF Off, Kept, ListOK, ClosureOK, Closures
<1>12. Alike(m, old, o)
  <2>1. CASE o = Off(old)
    <3>1. m[2] # "progress" => ~old.firing
      BY <1>2, <1>5 DEF ListOK, ClosureOK
    <3>2. m[2] # "progress" => Open(old, o) /\ ~o.on
      BY <1>11, <2>1, <3>1 DEF Open, DataOK
    <3>. QED BY <1>11, <2>1, <3>2, AlikeNone
  <2>2. CASE o = Kept(old) /\ e[1] = "lock"
    BY <1>5, <1>11, <2>2, AlikePlaces
  <2>. QED BY <1>8, <2>1, <2>2
<1>13. ASSUME NEW x \in DeferredLists PROVE Alike(x, cb[x], cb'[x]) /\ cb'[x].fired = cb[x].fired
  <2>1. CASE x = l
    BY <1>3, <1>9, <1>10, <2>1
  <2>2. CASE x = m
    BY <1>3, <1>9, <1>11, <1>12, <2>2
  <2>3. CASE x # l /\ x # m
    <3>1. PICK a, b : a = cb[x] /\ b = cb'[x] /\ a = b
      BY <1>9, <2>3
    <3>2. b.fns = a.fns /\ Reached(b) = Reached(a) /\ Open(a, b)
      BY <3>1 DEF Open
    <3>3. Alike(x, a, b)
      BY <3>2, AlikePlaces
    <3>. QED BY <3>1, <3>3
  <2>. QED BY <2>1, <2>2, <2>3
<1>. QED BY <1>13, OutcomeLists DEF AllAlike, NoneFires, OutcomeList

(* A list is fired, or not.                                                *)
LEMMA FiredAlike ==
  ASSUME Inv, NEW l \in DeferredLists, NEW v \in Values, Becomes(FiredWith(Now, l, v))
  PROVE  /\ AllAlike /\ \A m \in DeferredLists : m # l => cb'[m] = cb[m]
         /\ cb[l].on => cb'[l].fired
<1>1. PICK c : c = cb[l]
  OBVIOUS
<1>2. ListOK(l, c) /\ c \in Closures /\ (c.firing => c.fired)
  BY <1>1 DEF Inv, ListsOK, ListOK, ClosureOK
<1>3. cb' = FiredWith(Now, l, v).cb
  BY DEF Becomes
<1>4. CASE (~c.on \/ (c.fired /\ ~c.repeats)) /\ cb' = cb
  BY <1>1, <1>4, SameAlike
<1>5. ASSUME NEW new, cb' = [cb EXCEPT ![l] = new], new.fired, Alike(l, c, new)
      PROVE  /\ AllAlike /\ \A m \in DeferredLists : m # l => cb'[m] = cb[m]
             /\ cb'[l].fired
  <2>1. cb'[l] = new /\ \A m \in DeferredLists : m # l => cb'[m] = cb[m]
    BY <1>5, OneChanged DEF Inv
  <2>. QED BY <1>1, <1>5, <2>1, OneAlike
<1>6. CASE c.on /\ c.firing /\ cb' = [cb EXCEPT ![l] = [c EXCEPT !.queue = Append(c.queue, v)]]
  <2>1. PICK new : new = [c EXCEPT !.queue = Append(c.queue, v)]
    OBVIOUS
  <2>2. /\ new.fns = c.fns /\ new.on = c.on /\ new.firing = c.firing /\ new.data = c.data /\ new.at = c.at
        /\ new.memory = c.memory /\ new.fired = c.fired /\ new.index = c.index
    BY <1>2, <2>1 DEF Closures
  <2>3. Reached(new) = Reached(c) /\ Open(c, new)
    BY <2>2 DEF Reached, InCall, Open, DataOK
  <2>4. Alike(l, c, new)
    BY <2>2, <2>3, AlikePlaces
  <2>. QED BY <1>2, <1>5, <1>6, <2>1, <2>2, <2>4
<1>7. CASE c.on /\ ~c.firing /\ ~(c.fired /\ ~c.repeats) /\ cb' = [cb EXCEPT ![l] = Begun(c, v, 0)]
  <2>1. PICK new : new = Begun(c, v, 0)
    OBVIOUS
  <2>2. /\ new.fns = c.fns /\ new.on = c.on /\ new.firing /\ new.data = v /\ new.at = "loop"
        /\ new.memory = v /\ new.fired /\ new.index = 0
    BY <1>2, <2>1 DEF Begun, Closures
  <2>3. Reached(new) = Reached(c) /\ Open(c, new)
    BY <1>7, <2>2 DEF Reached, InCall, Open, DataOK
  <2>4. Alike(l, c, new)
    BY <2>2, <2>3, AlikePlaces
  <2>. QED BY <1>5, <1>7, <2>1, <2>2, <2>4
<1>. QED BY <1>1, <1>2, <1>3, <1>4, <1>6, <1>7, FiredIs DEF Inv

(* One more callback is added to a list, or not.                           *)
LEMMA AddedPasses ==
  ASSUME Inv, NEW l \in DeferredLists, NEW e, Becomes(Added(Now, l, e))
  PROVE  /\ \A m \in DeferredLists : m # l => cb'[m] = cb[m]
         /\ cb'[l].on = cb[l].on /\ NoneFires
         /\ \A x : Has(cb'[l], x) => Has(cb[l], x) \/ x = e
         /\ l[2] # "progress" =>
              /\ Open(cb[l], cb'[l])
              /\ \A x : Comes(cb'[l], x) => Comes(cb[l], x) \/ x = e
              /\ \A x : cb[l].on /\ (Comes(cb[l], x) \/ x = e) => Comes(cb'[l], x)
              /\ \A x : Once(cb[l], x) /\ (x = e => ~Has(cb[l], x)) => Once(cb'[l], x)
<1>1. PICK c : c = cb[l]
  OBVIOUS
<1>2. /\ ListOK(l, c) /\ c \in Closures /\ (c.firing => c.fired) /\ (c.fired <=> c.memory # NoValue)
      /\ c.fns \in Seq(Early \cup Later)
      /\ (l[2] # "progress" /\ c.fired /\ ~c.firing => c.fns = <<>>)
      /\ Reached(c) \in Nat /\ Reached(c) <= Len(c.fns) /\ (~c.firing => Reached(c) = 0)
  <2>1. ListOK(l, c)
    BY <1>1 DEF Inv, ListsOK
  <2>2. Reached(c) \in Nat /\ Reached(c) <= Len(c.fns) /\ (~c.firing => Reached(c) = 0) /\ c \in Closures
    BY <2>1, ReachedIs
  <2>. QED BY <2>1, <2>2, ValuesAssumption DEF ListOK, ClosureOK, CallbacksOK, Closures
<1>3. cb' = Added(Now, l, e).cb
  BY DEF Becomes
<1>4. CASE ~c.on /\ cb' = cb
  <2>1. NoneFires /\ AllAlike
    BY <1>4, SameAlike
  <2>2. Open(cb[l], cb'[l])
    BY <1>4 DEF Open
  <2>. QED BY <1>1, <1>4, <2>1, <2>2
<1>5. ASSUME NEW new, cb' = [cb EXCEPT ![l] = new], new.fns = Append(c.fns, e), new.on = c.on,
             new.fired = c.fired, l[2] # "progress" => Reached(new) = Reached(c) /\ Open(c, new)
      PROVE  /\ \A m \in DeferredLists : m # l => cb'[m] = cb[m]
             /\ cb'[l].on = cb[l].on /\ NoneFires
             /\ \A x : Has(cb'[l], x) => Has(cb[l], x) \/ x = e
             /\ l[2] # "progress" =>
                  /\ Open(cb[l], cb'[l])
                  /\ \A x : Comes(cb'[l], x) => Comes(cb[l], x) \/ x = e
                  /\ \A x : cb[l].on /\ (Comes(cb[l], x) \/ x = e) => Comes(cb'[l], x)
                  /\ \A x : Once(cb[l], x) /\ (x = e => ~Has(cb[l], x)) => Once(cb'[l], x)
  <2>1. cb'[l] = new /\ \A m \in DeferredLists : m # l => cb'[m] = cb[m]
    BY <1>5, OneChanged DEF Inv
  <2>2. \A x : Has(new, x) => Has(c, x) \/ x = e
    <3>1. PICK n \in Nat : n = Len(c.fns) /\ DOMAIN c.fns = 1..n
      BY <1>2
    <3>2. \A p \in DOMAIN new.fns : new.fns[p] = e \/ (p \in DOMAIN c.fns /\ new.fns[p] = c.fns[p])
      BY <1>2, <1>5, <3>1
    <3>. QED BY <3>2 DEF Has
  <2>3. ASSUME l[2] # "progress"
        PROVE  /\ \A x : Comes(new, x) <=> (Comes(c, x) \/ x = e)
               /\ \A x : Once(c, x) /\ (x = e => ~Has(c, x)) => Once(new, x)
    <3>1. Reached(new) = Reached(c) /\ Reached(c) \in Nat /\ Reached(c) <= Len(c.fns)
      BY <1>2, <1>5, <2>3
    <3>. QED BY <1>2, <1>5, <3>1, ComesLonger
  <2>4. NoneFires
    BY <1>1, <1>5, <2>1, OneFires
  <2>. QED BY <1>1, <1>5, <2>1, <2>2, <2>3, <2>4
<1>6. CASE c.on /\ c.firing /\ cb' = [cb EXCEPT ![l] = Longer(c, e)]
  <2>1. PICK new : new = Longer(c, e)
    OBVIOUS
  <2>2. /\ new.fns = Append(c.fns, e) /\ new.on = c.on /\ new.firing = c.firing /\ new.data = c.data
        /\ new.at = c.at /\ new.memory = c.memory /\ new.fired = c.fired /\ new.index = c.index
    BY <1>2, <2>1 DEF Longer, With, Closures
  <2>3. Reached(new) = Reached(c) /\ Open(c, new)
    BY <2>2 DEF Reached, InCall, Open, DataOK
  <2>. QED BY <1>5, <1>6, <2>1, <2>2, <2>3
<1>7. CASE c.on /\ ~c.firing /\ cb' = [cb EXCEPT ![l] = With(c, e)]
  <2>1. PICK new : new = With(c, e)
    OBVIOUS
  <2>2. /\ new.fns = Append(c.fns, e) /\ new.on = c.on /\ new.firing = c.firing /\ new.data = c.data
        /\ new.at = c.at /\ new.memory = c.memory /\ new.fired = c.fired /\ new.index = c.index
    BY <1>2, <2>1 DEF With, Closures
  <2>3. Reached(new) = Reached(c) /\ Open(c, new)
    BY <2>2 DEF Reached, InCall, Open, DataOK
  <2>. QED BY <1>5, <1>7, <2>1, <2>2, <2>3
<1>8. CASE c.on /\ ~c.firing /\ c.memory # NoValue
           /\ cb' = [cb EXCEPT ![l] = Begun(With(c, e), c.memory, Len(c.fns))]
  <2>1. PICK new : new = Begun(With(c, e), c.memory, Len(c.fns))
    OBVIOUS
  <2>2. /\ new.fns = Append(c.fns, e) /\ new.on = c.on /\ new.firing /\ new.data = c.memory
        /\ new.at = "loop" /\ new.memory = c.memory /\ new.fired /\ new.index = Len(c.fns)
    BY <1>2, <2>1 DEF Begun, With, Closures
  <2>3. ASSUME l[2] # "progress" PROVE Reached(new) = Reached(c)
    BY <1>2, <1>8, <2>2, <2>3 DEF Reached, InCall
  <2>4. Open(c, new)
    BY <2>2 DEF Open, DataOK
  <2>5. new.fired = c.fired
    BY <1>2, <1>8, <2>2 DEF Closures
  <2>. QED BY <1>5, <1>8, <2>1, <2>2, <2>3, <2>4, <2>5
<1>. QED BY <1>1, <1>3, <1>4, <1>6, <1>7, <1>8, AddedIs DEF Inv

-----------------------------------------------------------------------------
(* What a step leaves of the links, a part at a time.                      *)
AllHad == \A m \in DeferredLists, x \in Own : Has(cb'[m], x) => Has(cb[m], x)
LikeBut(l, e) ==
  /\ \A m \in OutcomeList : Open(cb[m], cb'[m])
  /\ \A m \in OutcomeList, x \in Passing : m # l \/ x # e => Like(cb[m], cb'[m], x)

LEMMA AlikeIs ==
  ASSUME AllAlike
  PROVE  AllHad /\ \A l, e : LikeBut(l, e)
<1>1. ASSUME NEW m \in OutcomeList
      PROVE  Open(cb[m], cb'[m]) /\ \A x \in Passing : Like(cb[m], cb'[m], x)
  <2>1. m \in DeferredLists /\ m[2] # "progress"
    BY OutcomeLists DEF OutcomeList
  <2>. QED BY <2>1 DEF AllAlike, Alike
<1>. QED BY <1>1 DEF AllAlike, Alike, AllHad, LikeBut

LEMMA SubordinateIs ==
  ASSUME TodoOK, NEW i \in Subordinates(args)
  PROVE  /\ i \in DOMAIN args /\ i \in Nat /\ args[i] \in Given /\ args[i] # Plain
         /\ DoneOf(i) \in OutcomeList /\ <<args[i], "fail">> \in OutcomeList
         /\ DoneOf(i) \in DeferredLists /\ <<args[i], "fail">> \in DeferredLists
         /\ <<args[i], "progress">> \in DeferredLists /\ <<"update", i>> \in Passing
<1>1. i \in DOMAIN args /\ i \in Nat /\ args[i] \in Given /\ args[i] # Plain
  BY DEF TodoOK, Subordinates
<1>. QED BY <1>1, KindIs DEF DoneOf, OutcomeList, Outcomes, DeferredLists, Deferred, Passing

LEMMA LinksGrow ==
  ASSUME feeds \subseteq feeds', args' = args \/ args = <<>>, source' = source \/ source = Plain
  PROVE  /\ \A l, m : Linked(l, m) => Linked(l, m)'
         /\ \A l, x : Allowed(l, x) => Allowed(l, x)'
<1>1. CASE args' = args
  BY <1>1 DEF Linked, LinkedBy, Allowed, Subordinates
<1>2. CASE args = <<>>
  <2>1. Subordinates(args) = {}
    BY <1>2 DEF Subordinates
  <2>. QED BY <2>1 DEF Linked, LinkedBy, Allowed
<1>. QED BY <1>1, <1>2

LEMMA OnlyLinkedStays ==
  ASSUME OnlyLinked, \A l, x : Allowed(l, x) => Allowed(l, x)',
         \A l \in DeferredLists, x \in Own :
           Asked(<<"add", l, x>>)' \/ Has(cb'[l], x)
             => Asked(<<"add", l, x>>) \/ Has(cb[l], x) \/ Allowed(l, x)'
  PROVE  OnlyLinked'
BY DEF OnlyLinked

LEMMA CausedStays ==
  ASSUME ValuesKept, \A l, m : Linked(l, m) => Linked(l, m)', NEW m, Caused(m)
  PROVE  Caused(m)'
BY DEF Caused, ValuesKept, OutcomeList

LEMMA NoneInventedStays ==
  ASSUME NoneInvented, ValuesKept, \A l, m : Linked(l, m) => Linked(l, m)',
         \A m \in Made : m # MasterDone /\ (Told(m)' \/ cb'[m].fired)
                           => Told(m) \/ cb[m].fired \/ Caused(m)'
  PROVE  NoneInvented'
<1>1. ASSUME NEW m \in Made, m # MasterDone, Told(m)' \/ cb'[m].fired PROVE Caused(m)'
  BY <1>1, CausedStays DEF NoneInvented
<1>. QED BY <1>1 DEF NoneInvented, MasterDone, Made, OutcomeList

LEMMA FiredStays ==
  ASSUME ValuesKept, NEW m \in OutcomeList, Fired(m)
  PROVE  Fired(m)'
<1>1. <<m[1], "done">> \in Deferred \X Outcomes /\ <<m[1], "fail">> \in Deferred \X Outcomes
  BY DEF OutcomeList, Outcomes
<1>. QED BY <1>1 DEF Fired, ValuesKept

LEMMA PassingIs ==
  ASSUME NEW m \in OutcomeList
  PROVE  m \in DeferredLists /\ m[2] # "progress" /\ <<"forward", m>> \in Passing
         /\ <<"forward", m>> \in Own
BY OutcomeLists DEF OutcomeList, Passing, Own

LEMMA NoneLostStays ==
  ASSUME NoneLost, ValuesKept, args' = args, NEW n, NEW e, LikeBut(n, e),
         \A i \in Subordinates(args) : Asked(<<"observe", i>>) =>
            \/ Asked(<<"observe", i>>)'
            \/ Asked(<<"add", <<args[i], "fail">>, <<"forward", MasterFail>>>>)',
         \A l, m \in OutcomeList :
            /\ Linked(l, m)' => Linked(l, m) \/ OnItsWay(l, m)'
            /\ Asked(<<"add", l, <<"forward", m>>>>) =>
                 \/ Asked(<<"add", l, <<"forward", m>>>>)'
                 \/ Comes(cb'[l], <<"forward", m>>) \/ ~cb'[l].on
            /\ Told(m) => Told(m)' \/ Fired(m)'
            /\ l = n /\ <<"forward", m>> = e =>
                 Told(m)' \/ Comes(cb'[l], <<"forward", m>>) \/ ~cb'[l].on
  PROVE  NoneLost'
<1>1. ASSUME NEW l \in OutcomeList, NEW m \in OutcomeList, Linked(l, m)', cb'[l].on
      PROVE  OnItsWay(l, m)'
  <2>1. SUFFICES ASSUME OnItsWay(l, m) PROVE OnItsWay(l, m)'
    BY <1>1 DEF NoneLost, LikeBut, Open
  <2>2. PICK x : x = <<"forward", m>>
    OBVIOUS
  <2>3. CASE \E i \in Subordinates(args) : LinkedBy(l, m, i) /\ Asked(<<"observe", i>>)
    <3>1. PICK i \in Subordinates(args) : LinkedBy(l, m, i) /\ Asked(<<"observe", i>>)
      BY <2>3
    <3>2. l = <<args[i], "fail">> /\ m = MasterFail
      BY <3>1 DEF LinkedBy
    <3>3. Subordinates(args)' = Subordinates(args) /\ LinkedBy(l, m, i)'
      BY <3>1 DEF LinkedBy, Subordinates, MasterFail
    <3>4. Asked(<<"observe", i>>)' \/ Asked(<<"add", l, <<"forward", m>>>>)'
      BY <3>1, <3>2
    <3>. QED BY <3>3, <3>4 DEF OnItsWay
  <2>4. CASE Asked(<<"add", l, <<"forward", m>>>>)
    BY <1>1, <2>4 DEF OnItsWay
  <2>5. CASE Comes(cb[l], x)
    <3>1. CASE l = n /\ x = e
      BY <1>1, <2>2, <3>1 DEF OnItsWay
    <3>2. CASE l # n \/ x # e
      <4>1. Like(cb[l], cb'[l], x)
        BY <2>2, <3>2, PassingIs DEF LikeBut
      <4>2. Comes(cb'[l], x)
        BY <1>1, <2>5, <4>1 DEF Like
      <4>. QED BY <2>2, <4>2 DEF OnItsWay
    <3>. QED BY <3>1, <3>2
  <2>6. CASE Told(m)
    BY <2>6 DEF OnItsWay
  <2>7. CASE Fired(m)
    BY <2>7, FiredStays DEF OnItsWay
  <2>. QED BY <2>1, <2>2, <2>3, <2>4, <2>5, <2>6, <2>7 DEF OnItsWay
<1>. QED BY <1>1 DEF NoneLost, OutcomeList

LEMMA DatasStay ==
  ASSUME DatasOK, NEW n, NEW e, LikeBut(n, e)
  PROVE  DatasOK'
BY DEF DatasOK, LikeBut, Open, OutcomeList

LEMMA CountStays ==
  ASSUME CountOK, UNCHANGED <<args, answers, remaining>>,
         \A i \in DOMAIN args : args[i] = Plain =>
            (Asked(<<"observe", i>>)' <=> Asked(<<"observe", i>>)),
         Asked(<<"finish">>) => Asked(<<"finish">>)' \/ Told(MasterDone)' \/ Fired(MasterDone)',
         Told(MasterDone)' \/ cb'[MasterDone].fired => Told(MasterDone) \/ cb[MasterDone].fired,
         Told(MasterDone) \/ Fired(MasterDone) => Told(MasterDone)' \/ Fired(MasterDone)'
  PROVE  CountOK'
<1>1. Left' = Left
  BY DEF Left
<1>2. MasterDone' = MasterDone /\ cb[MasterDone]' = cb'[MasterDone]
  BY DEF MasterDone
<1>3. (Told(MasterDone) \/ cb[MasterDone].fired)' => args' # <<>> /\ remaining' = 0
  BY <1>2 DEF CountOK
<1>4. args' # <<>> /\ remaining' = 0 => Asked(<<"finish">>)' \/ Told(MasterDone)' \/ Fired(MasterDone)'
  BY DEF CountOK
<1>. QED BY <1>1, <1>3, <1>4 DEF CountOK

LEMMA AnswerStays ==
  ASSUME NEW i \in DOMAIN args, AnswerOK(i), args' = args, answers'[i] = answers[i], ValuesKept,
         NEW l \in OutcomeList, l = DoneOf(i), NEW x, x = <<"update", i>>,
         Awaited(i)' => Awaited(i), Has(cb'[l], x) => Has(cb[l], x), Like(cb[l], cb'[l], x),
         cb'[l].on => cb[l].on /\ (Awaited(i) => Awaited(i)')
  PROVE  AnswerOK(i)'
<1>1. PICK c, new : c = cb[l] /\ new = cb'[l]
  OBVIOUS
<1>2. DoneOf(i)' = l /\ cb[DoneOf(i)]' = new
  BY <1>1 DEF DoneOf
<1>3. /\ answers[i] # NoValue => c.fired /\ answers[i] = c.memory
      /\ Once(c, x)
      /\ Awaited(i) => ~Has(c, x) /\ answers[i] = NoValue
      /\ Comes(c, x) => answers[i] = NoValue
      /\ c.on /\ answers[i] = NoValue => Awaited(i) \/ Comes(c, x)
  BY <1>1 DEF AnswerOK
<1>4. c.fired => new.fired /\ new.memory = c.memory
  BY <1>1 DEF ValuesKept, OutcomeList
<1>5. /\ Comes(new, x) => Comes(c, x)
      /\ new.on /\ Comes(c, x) => Comes(new, x)
      /\ Once(c, x) => Once(new, x)
  BY <1>1 DEF Like
<1>6. /\ answers'[i] # NoValue => new.fired /\ answers'[i] = new.memory
      /\ Once(new, x)
      /\ Awaited(i)' => ~Has(new, x) /\ answers'[i] = NoValue
      /\ Comes(new, x) => answers'[i] = NoValue
      /\ new.on /\ answers'[i] = NoValue => Awaited(i)' \/ Comes(new, x)
  BY <1>1, <1>3, <1>4, <1>5
<1>. QED BY <1>2, <1>6 DEF AnswerOK

LEMMA AnswersStay ==
  ASSUME TodoOK, AnswersOK, UNCHANGED <<args, answers>>, ValuesKept, AllHad, NEW n, NEW e, LikeBut(n, e),
         \A i \in Subordinates(args) : Awaited(i)' <=> Awaited(i),
         \A i \in DOMAIN args : Single(todo, AnswersIn(i)) => Single(todo', AnswersIn(i)),
         \A i \in Subordinates(args) : ~(DoneOf(i) = n /\ <<"update", i>> = e)
  PROVE  AnswersOK'
<1>1. ASSUME NEW i \in Subordinates(args) PROVE AnswerOK(i)'
  <2>1. PICK l, x : l = DoneOf(i) /\ x = <<"update", i>>
    OBVIOUS
  <2>2. i \in DOMAIN args /\ l \in OutcomeList /\ l \in DeferredLists /\ x \in Passing /\ x \in Own
    BY <2>1, SubordinateIs DEF Own, Passing
  <2>3. Like(cb[l], cb'[l], x) /\ (cb'[l].on => cb[l].on)
    BY <2>1, <2>2 DEF LikeBut, Open
  <2>4. Has(cb'[l], x) => Has(cb[l], x)
    BY <2>2 DEF AllHad
  <2>5. AnswerOK(i)
    BY DEF AnswersOK
  <2>. QED BY <2>1, <2>2, <2>3, <2>4, <2>5, AnswerStays
<1>2. ASSUME NEW i \in DOMAIN args PROVE Single(todo, AnswersIn(i))'
  BY <1>2 DEF AnswersOK, AnswersIn, DoneOf
<1>. QED BY <1>1, <1>2 DEF AnswersOK, Subordinates

(* The calls that are to be made stay the same.                            *)
LEMMA ToldSame ==
  ASSUME \A x : Asked(x)' <=> Asked(x)
  PROVE  \A m : Told(m)' <=> Told(m)
BY DEF Told

LEMMA NothingPassed ==
  ASSUME Inv, Wires, Keeps, AllAlike, UNCHANGED <<todo, args, remaining, answers, feeds, source>>,
         \A m \in Made : cb'[m].fired => cb[m].fired
  PROVE  Wires'
<1>1. AllHad /\ LikeBut(<<>>, <<>>) /\ ValuesKept
  BY AlikeIs DEF Keeps
<1>2. \A x : Asked(x)' <=> Asked(x)
  BY DEF Asked
<1>3. \A m : Told(m)' <=> Told(m)
  BY <1>2, ToldSame
<1>4. /\ \A l, m : Linked(l, m) => Linked(l, m)'
      /\ \A l, x : Allowed(l, x) => Allowed(l, x)'
      /\ \A l, m : Linked(l, m)' => Linked(l, m)
  BY LinksGrow DEF Linked, LinkedBy
<1>5. DatasOK'
  BY <1>1, DatasStay DEF Wires
<1>6. LinksOK'
  <2>1. FeedsOK'
    BY DEF Wires, LinksOK, FeedsOK
  <2>2. OnlyLinked'
    BY <1>1, <1>2, <1>4, OnlyLinkedStays DEF Wires, LinksOK, AllHad
  <2>3. NoneInvented'
    BY <1>1, <1>3, <1>4, NoneInventedStays DEF Wires, LinksOK
  <2>4. NoneLost'
    <3>1. \A l, m \in OutcomeList : ~(l = <<>> /\ <<"forward", m>> = <<>>)
      OBVIOUS
    <3>. QED BY <1>1, <1>2, <1>3, <1>4, <3>1, NoneLostStays DEF Wires, LinksOK
  <2>. QED BY <2>1, <2>2, <2>3, <2>4 DEF LinksOK
<1>7. AsksOK'
  BY DEF Wires, AsksOK, Asked
<1>8. CountOK'
  <2>1. MasterDone \in Made /\ MasterDone \in OutcomeList
    BY DEF Made, MasterDone, OutcomeList, Deferred, Outcomes
  <2>2. Fired(MasterDone) => Fired(MasterDone)'
    BY <1>1, <2>1, FiredStays
  <2>3. cb'[MasterDone].fired => cb[MasterDone].fired
    BY <2>1
  <2>. QED BY <1>2, <1>3, <2>2, <2>3, CountStays DEF Wires
<1>9. AnswersOK'
  <2>1. \A i : Awaited(i)' <=> Awaited(i)
    BY DEF Awaited, AnswersIn, Asked, DoneOf
  <2>2. \A i \in Subordinates(args) : ~(DoneOf(i) = <<>> /\ <<"update", i>> = <<>>)
    OBVIOUS
  <2>. QED BY <1>1, <2>1, <2>2, AnswersStay DEF Wires, Inv
<1>. QED BY <1>5, <1>6, <1>7, <1>8, <1>9 DEF Wires

-----------------------------------------------------------------------------
(* The steps that pass nothing on.                                         *)
LEMMA NothingFired ==
  ASSUME Inv, Wires, Keeps, AllAlike, NoneFires, UNCHANGED todo, UNCHANGED whenVars, UNCHANGED thenVars
  PROVE  Wires'
<1>1. UNCHANGED <<todo, args, remaining, answers, feeds, source>>
  BY DEF whenVars, thenVars
<1>2. \A m \in Made : cb'[m].fired => cb[m].fired
  BY DEF NoneFires, Made
<1>. QED BY <1>1, <1>2, NothingPassed

LEMMA CallSettleWires ==
  ASSUME Inv, Wires, Keeps, NEW l \in DeferredLists, CallSettle(l)
  PROVE  Wires'
<1>1. /\ Internal(l) /\ Entry(l)[1] = "settle" /\ Becomes(Moved(Now, l))
      /\ UNCHANGED todo /\ UNCHANGED whenVars /\ UNCHANGED thenVars
  BY DEF CallSettle, Passes
<1>2. cb' = [cb EXCEPT ![l] = Stepped(cb[l])]
  BY <1>1, MovedIs DEF Becomes, Inv
<1>3. Entry(l) \notin Passing
  BY <1>1 DEF Passing
<1>4. AllAlike /\ NoneFires
  BY <1>1, <1>2, <1>3, EntryCalled
<1>. QED BY <1>1, <1>4, NothingFired

LEMMA CallShutWires ==
  ASSUME Inv, Inv', Wires, Keeps, NEW l \in DeferredLists, CallShut(l)
  PROVE  Wires'
<1>1. UNCHANGED todo /\ UNCHANGED whenVars /\ UNCHANGED thenVars
  BY DEF CallShut
<1>. QED BY <1>1, ShutAlike, NothingFired

LEMMA CallThenWires ==
  ASSUME Inv, Wires, Keeps, NEW l \in DeferredLists, CallThen(l)
  PROVE  Wires'
<1>1. /\ Internal(l) /\ Entry(l)[1] = "then" /\ cb' = [cb EXCEPT ![l].at = "user"]
      /\ UNCHANGED todo /\ UNCHANGED whenVars /\ UNCHANGED thenVars
  BY DEF CallThen
<1>2. cb' = [cb EXCEPT ![l] = Stands(cb[l], "user")]
  BY <1>1 DEF Stands
<1>3. Entry(l) \notin Passing
  BY <1>1 DEF Passing
<1>4. AllAlike /\ NoneFires
  BY <1>1, <1>2, <1>3, EntryCalled
<1>. QED BY <1>1, <1>4, NothingFired

LEMMA CallHandlerWires ==
  ASSUME Inv, Wires, Keeps, NEW l \in Lists, CallHandler(l)
  PROVE  Wires'
<1>1. /\ Looping(l) /\ More(l) /\ cb[l].index < Len(cb[l].fns) /\ ~Working
      /\ Entry(l)[1] = "user" /\ cb' = [cb EXCEPT ![l].at = "user"]
      /\ UNCHANGED todo /\ UNCHANGED whenVars /\ UNCHANGED thenVars
  BY DEF CallHandler, CallUser
<1>2. l \in DeferredLists /\ Internal(l)
  BY <1>1, CurrentIs DEF Inv, Looping, Internal
<1>3. cb' = [cb EXCEPT ![l] = Stands(cb[l], "user")]
  BY <1>1 DEF Stands
<1>4. Entry(l) \notin Passing
  BY <1>1 DEF Passing
<1>5. AllAlike /\ NoneFires
  BY <1>2, <1>3, <1>4, EntryCalled
<1>. QED BY <1>1, <1>5, NothingFired

LEMMA StepsWires ==
  ASSUME Inv, Inv', Wires, Keeps, NEW l \in DeferredLists, InCall(cb[l]), Becomes(Moved(Now, l)),
         UNCHANGED todo, UNCHANGED whenVars, UNCHANGED thenVars
  PROVE  Wires'
<1>1. cb' = [cb EXCEPT ![l] = Stepped(cb[l])]
  BY MovedIs DEF Becomes, Inv
<1>2. AllAlike /\ NoneFires
  BY <1>1, CallGoesOn
<1>. QED BY <1>2, NothingFired

LEMMA ResumeWires ==
  ASSUME Inv, Inv', Wires, Keeps, NEW l \in DeferredLists, Resume(l)
  PROVE  Wires'
BY StepsWires DEF Resume, InCall

LEMMA LoopWires ==
  ASSUME Inv, Inv', Wires, Keeps, NEW l \in Lists, Loop(l)
  PROVE  Wires'
<1>1. UNCHANGED todo /\ UNCHANGED whenVars /\ UNCHANGED thenVars
  BY DEF Loop
<1>2. run # <<>> => Current \in DeferredLists
  BY CurrentIs DEF Inv
<1>3. CASE EndLoop(l)
  <2>1. l \in DeferredLists
    BY <1>2, <1>3 DEF EndLoop, Looping
  <2>. QED BY <1>1, <1>3, <2>1, EndAlike, NothingFired
<1>4. CASE CallNothing(l)
  <2>1. l \in DeferredLists /\ run # <<>> /\ l = Current
    BY <1>2, <1>4 DEF CallNothing, Looping
  <2>2. cb[l].firing /\ ClosureOK(cb[l]) /\ cb[l].index < cb[l].length /\ cb[l].index >= Len(cb[l].fns)
    BY <1>4, <2>1, CurrentIs DEF CallNothing, More, Inv, RunOK, ListsOK, ListOK
  <2>3. cb[l].index \in Nat /\ cb[l].length \in Nat /\ cb[l].length = Len(cb[l].fns)
    BY <2>2 DEF ClosureOK, Closures
  <2>. QED BY <2>2, <2>3
<1>5. CASE Return(l)
  <2>1. InCall(cb[l]) /\ l \in DeferredLists /\ Becomes(Moved(Now, l))
    BY <1>2, <1>5 DEF Return, InUser, InCall
  <2>. QED BY <1>1, <2>1, StepsWires
<1>6. CASE ReturnFalse(l)
  BY <1>2, <1>6, FlagsAre DEF ReturnFalse, InUser, Stops
<1>. QED BY <1>3, <1>4, <1>5, <1>6 DEF Loop

LEMMA SettleWires ==
  ASSUME Inv, Wires, Keeps, NEW l \in DeferredLists, l[1] \in Given, NEW v \in Values, Settle(l, v)
  PROVE  Wires'
<1>1. Becomes(FiredWith(Now, l, v)) /\ UNCHANGED todo /\ UNCHANGED whenVars /\ UNCHANGED thenVars
  BY DEF Settle, Fire, Calls
<1>2. AllAlike /\ \A m \in DeferredLists : m # l => cb'[m] = cb[m]
  BY <1>1, FiredAlike
<1>3. l \notin Made
  BY DeferredsAssumption DEF Made
<1>4. \A m \in Made : cb'[m].fired => cb[m].fired
  BY <1>2, <1>3, OutcomeLists DEF Made, OutcomeList
<1>5. UNCHANGED <<todo, args, remaining, answers, feeds, source>>
  BY <1>1 DEF whenVars, thenVars
<1>. QED BY <1>2, <1>4, <1>5, NothingPassed

(* One more callback is added.                                             *)
LEMMA AddedBut ==
  ASSUME Inv, NEW l \in DeferredLists, NEW e, Becomes(Added(Now, l, e))
  PROVE  /\ LikeBut(l, e) /\ NoneFires
         /\ \A m \in DeferredLists : \A x : Has(cb'[m], x) => Has(cb[m], x) \/ (m = l /\ x = e)
         /\ l \in OutcomeList =>
              /\ cb'[l].on => cb[l].on /\ Comes(cb'[l], e)
              /\ Once(cb[l], e) /\ ~Has(cb[l], e) => Once(cb'[l], e)
<1>1. PICK c, new : c = cb[l] /\ new = cb'[l]
  OBVIOUS
<1>2. /\ \A m \in DeferredLists : m # l => cb'[m] = cb[m]
      /\ new.on = c.on /\ NoneFires
      /\ \A x : Has(new, x) => Has(c, x) \/ x = e
      /\ l[2] # "progress" =>
           /\ Open(c, new)
           /\ \A x : Comes(new, x) => Comes(c, x) \/ x = e
           /\ \A x : c.on /\ (Comes(c, x) \/ x = e) => Comes(new, x)
           /\ \A x : Once(c, x) /\ (x = e => ~Has(c, x)) => Once(new, x)
  BY <1>1, AddedPasses
<1>3. ASSUME NEW m \in OutcomeList, NEW x, m # l \/ x # e
      PROVE  Like(cb[m], cb'[m], x)
  <2>1. m \in DeferredLists /\ m[2] # "progress"
    BY OutcomeLists DEF OutcomeList
  <2>2. CASE m # l
    <3>1. cb'[m] = cb[m]
      BY <1>2, <2>1, <2>2
    <3>. QED BY <3>1 DEF Like
  <2>3. CASE m = l
    <3>1. x # e /\ l[2] # "progress"
      BY <1>3, <2>1, <2>3
    <3>2. Like(c, new, x)
      BY <1>2, <3>1 DEF Like
    <3>. QED BY <1>1, <1>2, <2>3, <3>1, <3>2
  <2>. QED BY <2>2, <2>3
<1>4. ASSUME NEW m \in OutcomeList PROVE Open(cb[m], cb'[m])
  <2>1. m \in DeferredLists /\ m[2] # "progress"
    BY OutcomeLists DEF OutcomeList
  <2>. QED BY <1>1, <1>2, <2>1 DEF Open
<1>5. LikeBut(l, e)
  BY <1>3, <1>4 DEF LikeBut
<1>6. \A m \in DeferredLists : \A x : Has(cb'[m], x) => Has(cb[m], x) \/ (m = l /\ x = e)
  BY <1>1, <1>2
<1>7. l \in OutcomeList => l[2] # "progress"
  BY OutcomeLists DEF OutcomeList
<1>. QED BY <1>1, <1>2, <1>5, <1>6, <1>7

LEMMA HandleWires ==
  ASSUME Inv, Wires, Keeps, NEW l \in DeferredLists, NEW f \in Fns, Handle(l, f)
  PROVE  Wires'
<1>1. PICK e : e = User(f)
  OBVIOUS
<1>2. Becomes(Added(Now, l, e)) /\ UNCHANGED todo /\ UNCHANGED whenVars /\ UNCHANGED thenVars
  BY <1>1 DEF Handle, Add, Calls
<1>3. e \notin Own /\ e \notin Passing
  BY <1>1 DEF Own, Passing, User
<1>4. /\ \A m \in DeferredLists : m # l => cb'[m] = cb[m]
      /\ cb'[l].on = cb[l].on /\ NoneFires
      /\ \A x : Has(cb'[l], x) => Has(cb[l], x) \/ x = e
      /\ l[2] # "progress" =>
           /\ Open(cb[l], cb'[l])
           /\ \A x : Comes(cb'[l], x) => Comes(cb[l], x) \/ x = e
           /\ \A x : cb[l].on /\ (Comes(cb[l], x) \/ x = e) => Comes(cb'[l], x)
           /\ \A x : Once(cb[l], x) /\ (x = e => ~Has(cb[l], x)) => Once(cb'[l], x)
  BY <1>2, AddedPasses
<1>5. Alike(l, cb[l], cb'[l])
  <2>1. \A x \in Own : Has(cb'[l], x) => Has(cb[l], x)
    BY <1>3, <1>4
  <2>2. ASSUME l[2] # "progress", NEW x \in Passing PROVE Like(cb[l], cb'[l], x)
    BY <1>3, <1>4, <2>2 DEF Like
  <2>. QED BY <1>4, <2>1, <2>2 DEF Alike
<1>6. AllAlike
  BY <1>4, <1>5, OneAlike
<1>. QED BY <1>2, <1>4, <1>6, NothingFired

-----------------------------------------------------------------------------
(* jQuery's own code makes its next call.                                  *)
LEMMA TakenOff ==
  ASSUME TodoOK, todo # <<>>, NEW c, c = Last(todo).call
  PROVE  /\ c \in CallsOf(args) /\ Asked(c)
         /\ Front(todo) \in Seq([depth : Nat, call : CallsOf(args)])
         /\ \A x : AskedIn(Front(todo), x) => Asked(x)
         /\ \A x : x # c /\ Asked(x) => AskedIn(Front(todo), x)
         /\ \A W : Single(todo, W) => Single(Front(todo), W)
         /\ \A W : Single(todo, W) /\ c \in W => \A x \in W : ~AskedIn(Front(todo), x)
         /\ Below(todo) => Below(Front(todo))
<1>1. PICK S : S = [depth : Nat, call : CallsOf(args)]
  OBVIOUS
<1>2. Fits(todo, run, cb, args) /\ todo \in Seq(S)
  BY <1>1 DEF TodoOK, Fits
<1>3. c \in CallsOf(args) /\ Front(todo) \in Seq(S)
  <2>1. Fits(Front(todo), run, cb, args) /\ c \in CallsOf(args)
    BY <1>2, FitsFront
  <2>. QED BY <1>1, <2>1 DEF Fits
<1>4. /\ AskedIn(todo, Last(todo).call)
      /\ \A x : AskedIn(Front(todo), x) => AskedIn(todo, x)
      /\ \A x : AskedIn(todo, x) => AskedIn(Front(todo), x) \/ x = Last(todo).call
      /\ \A W : Single(todo, W) => Single(Front(todo), W)
      /\ \A W : Single(todo, W) /\ Last(todo).call \in W => \A x \in W : ~AskedIn(Front(todo), x)
      /\ Below(todo) => Below(Front(todo))
  BY <1>2, AskedFront
<1>. QED BY <1>1, <1>3, <1>4 DEF Asked

LEMMA OffMeansOther ==
  ASSUME Inv, NEW m \in OutcomeList, ~cb[m].on
  PROVE  Fired(m)
<1>1. m \in Deferred \X Outcomes
  BY DEF OutcomeList
<1>2. FateOf(m[2], state[m[1]], cb[m], cb[Across(m)])
  BY <1>1, FatesAre DEF Inv
<1>3. ~(cb[m].fired)
  BY <1>1, OutcomeLists DEF Inv, ListsOK, ListOK, ClosureOK
<1>4. cb[Across(m)].fired
  BY <1>2, <1>3 DEF FateOf, Waiting, Going
<1>. QED BY <1>1, <1>4 DEF Across, Other, Outcomes, Fired

LEMMA ItsOwnFired ==
  ASSUME NEW m \in OutcomeList
  PROVE  (cb[m].fired => Fired(m)) /\ (cb'[m].fired => Fired(m)')
<1>1. m = <<m[1], "done">> \/ m = <<m[1], "fail">>
  BY DEF OutcomeList, Outcomes
<1>. QED BY <1>1 DEF Fired

LEMMA MasterIs ==
  /\ MasterDone \in Made /\ MasterDone \in OutcomeList /\ MasterFail \in Made /\ MasterFail \in OutcomeList
  /\ \A k \in Outcomes : <<Child, k>> \in Made /\ <<Child, k>> \in OutcomeList
                         /\ <<Child, k>> # MasterDone /\ <<Child, k>> # MasterFail
  /\ MasterDone # MasterFail
BY DeferredsAssumption DEF Made, MasterDone, MasterFail, OutcomeList, Deferred, Outcomes

LEMMA WorkFireWires ==
  ASSUME Inv, Wires, Keeps, Work, Last(todo).call[1] = "fire"
  PROVE  Wires'
<1>1. PICK c : c = Last(todo).call
  OBVIOUS
<1>2. /\ todo # <<>> /\ todo' = Front(todo)
      /\ Becomes(FiredWith(Now, c[2], c[3]))
      /\ UNCHANGED <<args, remaining, answers, feeds, source>>
  BY <1>1 DEF Work, Working, whenVars, thenVars
<1>3. /\ c \in CallsOf(args) /\ Asked(c)
      /\ \A x : Asked(x)' => Asked(x)
      /\ \A x : x # c /\ Asked(x) => Asked(x)'
      /\ \A W : Single(todo, W) => Single(todo', W)
      /\ Below(todo) => Below(todo')
  BY <1>1, <1>2, TakenOff DEF Asked, Inv
<1>4. PICK n, v : n = c[2] /\ v = c[3]
  OBVIOUS
<1>5. n \in DeferredLists /\ v \in Values /\ c = <<"fire", n, v>>
  BY <1>1, <1>3, <1>4 DEF CallsOf
<1>6. Becomes(FiredWith(Now, n, v))
  BY <1>2, <1>4
<1>7. /\ AllAlike /\ \A m \in DeferredLists : m # n => cb'[m] = cb[m]
      /\ cb[n].on => cb'[n].fired
  BY <1>5, <1>6, FiredAlike
<1>8. AllHad /\ LikeBut(<<>>, <<>>) /\ ValuesKept
  BY <1>7, AlikeIs DEF Keeps
<1>9. \A x : x[1] # "fire" => (Asked(x)' <=> Asked(x))
  BY <1>3, <1>5
<1>10. Told(n) /\ \A m : (Told(m)' => Told(m)) /\ (Told(m) => Told(m)' \/ m = n)
  <2>1. Told(n)
    BY <1>3, <1>5 DEF Told
  <2>2. ASSUME NEW m, Told(m), m # n PROVE Told(m)'
    <3>1. PICK w \in Values : Asked(<<"fire", m, w>>)
      BY <2>2 DEF Told
    <3>2. <<"fire", m, w>> # c
      BY <1>5, <2>2
    <3>. QED BY <1>3, <3>1, <3>2 DEF Told
  <2>. QED BY <1>3, <2>1, <2>2 DEF Told
<1>11. \A m \in OutcomeList : Told(m) => Told(m)' \/ Fired(m)'
  <2>1. ASSUME n \in OutcomeList PROVE Fired(n)'
    <3>1. CASE cb[n].on
      BY <1>7, <2>1, <3>1, ItsOwnFired
    <3>2. CASE ~cb[n].on
      BY <1>8, <2>1, <3>2, OffMeansOther, FiredStays
    <3>. QED BY <3>1, <3>2
  <2>. QED BY <1>10, <2>1
<1>12. /\ \A l, m : Linked(l, m) => Linked(l, m)'
       /\ \A l, x : Allowed(l, x) => Allowed(l, x)'
       /\ \A l, m : Linked(l, m)' => Linked(l, m)
  BY <1>2, LinksGrow DEF Linked, LinkedBy
<1>13. \A m \in OutcomeList : Told(m)' \/ cb'[m].fired => Told(m) \/ cb[m].fired
  BY <1>7, <1>10, OutcomeLists DEF OutcomeList
<1>14. DatasOK'
  BY <1>8, DatasStay DEF Wires
<1>15. LinksOK'
  <2>1. FeedsOK'
    BY <1>2 DEF Wires, LinksOK, FeedsOK
  <2>2. OnlyLinked'
    BY <1>3, <1>8, <1>12, OnlyLinkedStays DEF Wires, LinksOK, AllHad
  <2>3. NoneInvented'
    BY <1>8, <1>12, <1>13, NoneInventedStays DEF Wires, LinksOK, Made
  <2>4. NoneLost'
    <3>1. \A l, m \in OutcomeList :
             /\ ~(l = <<>> /\ <<"forward", m>> = <<>>)
             /\ Asked(<<"add", l, <<"forward", m>>>>) => Asked(<<"add", l, <<"forward", m>>>>)'
      BY <1>9
    <3>2. \A i \in Subordinates(args) : Asked(<<"observe", i>>) => Asked(<<"observe", i>>)'
      BY <1>9
    <3>. QED BY <1>2, <1>8, <1>11, <1>12, <3>1, <3>2, NoneLostStays DEF Wires, LinksOK
  <2>. QED BY <2>1, <2>2, <2>3, <2>4 DEF LinksOK
<1>16. AsksOK'
  BY <1>2, <1>3 DEF Wires, AsksOK
<1>17. CountOK'
  <2>1. Fired(MasterDone) => Fired(MasterDone)'
    BY <1>8, MasterIs, FiredStays
  <2>2. /\ \A i : Asked(<<"observe", i>>)' <=> Asked(<<"observe", i>>)
        /\ Asked(<<"finish">>)' <=> Asked(<<"finish">>)
    BY <1>9
  <2>. QED BY <1>2, <1>11, <1>13, <2>1, <2>2, MasterIs, CountStays DEF Wires
<1>18. AnswersOK'
  <2>1. \A i : Awaited(i)' <=> Awaited(i)
    <3>1. \A i : AnswersIn(i)' = AnswersIn(i) /\ \A x \in AnswersIn(i) : x[1] # "fire"
      BY <1>2 DEF AnswersIn, DoneOf
    <3>. QED BY <1>9, <3>1 DEF Awaited
  <2>2. \A i \in Subordinates(args) : ~(DoneOf(i) = <<>> /\ <<"update", i>> = <<>>)
    OBVIOUS
  <2>. QED BY <1>2, <1>3, <1>8, <2>1, <2>2, AnswersStay DEF Wires, Inv
<1>. QED BY <1>14, <1>15, <1>16, <1>17, <1>18 DEF Wires

LEMMA WorkAddWires ==
  ASSUME Inv, Wires, Keeps, Work, Last(todo).call[1] = "add"
  PROVE  Wires'
<1>1. PICK c : c = Last(todo).call
  OBVIOUS
<1>2. /\ todo # <<>> /\ todo' = Front(todo)
      /\ Becomes(Added(Now, c[2], c[3]))
      /\ UNCHANGED <<args, remaining, answers, feeds, source>>
  BY <1>1 DEF Work, Working, whenVars, thenVars
<1>3. /\ c \in CallsOf(args) /\ Asked(c)
      /\ \A x : Asked(x)' => Asked(x)
      /\ \A x : x # c /\ Asked(x) => Asked(x)'
      /\ \A W : Single(todo, W) => Single(todo', W)
      /\ \A W : Single(todo, W) /\ c \in W => \A x \in W : ~Asked(x)'
      /\ Below(todo) => Below(todo')
  BY <1>1, <1>2, TakenOff DEF Asked, Inv
<1>4. PICK n, e : n = c[2] /\ e = c[3]
  OBVIOUS
<1>5. n \in DeferredLists /\ e \in Own /\ c = <<"add", n, e>>
  BY <1>1, <1>3, <1>4 DEF CallsOf
<1>6. Becomes(Added(Now, n, e))
  BY <1>2, <1>4
<1>7. /\ LikeBut(n, e) /\ NoneFires
      /\ \A m \in DeferredLists : \A x : Has(cb'[m], x) => Has(cb[m], x) \/ (m = n /\ x = e)
      /\ n \in OutcomeList =>
           /\ cb'[n].on => cb[n].on /\ Comes(cb'[n], e)
           /\ Once(cb[n], e) /\ ~Has(cb[n], e) => Once(cb'[n], e)
  BY <1>5, <1>6, AddedBut
<1>8. ValuesKept
  BY DEF Keeps
<1>9. \A x : x[1] # "add" => (Asked(x)' <=> Asked(x))
  BY <1>3, <1>5
<1>10. \A m : Told(m)' <=> Told(m)
  BY <1>9 DEF Told
<1>12. /\ \A l, m : Linked(l, m) => Linked(l, m)'
       /\ \A l, x : Allowed(l, x) => Allowed(l, x)'
       /\ \A l, m : Linked(l, m)' => Linked(l, m)
  BY <1>2, LinksGrow DEF Linked, LinkedBy
<1>14. DatasOK'
  BY <1>7, DatasStay DEF Wires
<1>15. LinksOK'
  <2>1. FeedsOK'
    BY <1>2 DEF Wires, LinksOK, FeedsOK
  <2>2. OnlyLinked'
    <3>1. \A l \in DeferredLists, x \in Own : Has(cb'[l], x) => Has(cb[l], x) \/ Asked(<<"add", l, x>>)
      BY <1>3, <1>5, <1>7
    <3>. QED BY <1>3, <1>12, <3>1, OnlyLinkedStays DEF Wires, LinksOK
  <2>3. NoneInvented'
    <3>1. \A m \in Made : cb'[m].fired => cb[m].fired
      BY <1>7 DEF NoneFires, Made
    <3>. QED BY <1>8, <1>10, <1>12, <3>1, NoneInventedStays DEF Wires, LinksOK
  <2>4. NoneLost'
    <3>1. ASSUME NEW l \in OutcomeList, NEW m \in OutcomeList
          PROVE  /\ Asked(<<"add", l, <<"forward", m>>>>) =>
                      \/ Asked(<<"add", l, <<"forward", m>>>>)'
                      \/ Comes(cb'[l], <<"forward", m>>) \/ ~cb'[l].on
                 /\ l = n /\ <<"forward", m>> = e =>
                      Told(m)' \/ Comes(cb'[l], <<"forward", m>>) \/ ~cb'[l].on
      <4>1. PICK x : x = <<"forward", m>>
        OBVIOUS
      <4>2. CASE l = n /\ x = e
        BY <1>7, <4>1, <4>2
      <4>3. CASE ~(l = n /\ x = e)
        <5>1. <<"add", l, x>> # c
          BY <1>5, <4>3
        <5>. QED BY <1>3, <4>1, <4>3, <5>1
      <4>. QED BY <4>2, <4>3
    <3>2. \A i \in Subordinates(args) : Asked(<<"observe", i>>) => Asked(<<"observe", i>>)'
      BY <1>9
    <3>. QED BY <1>2, <1>7, <1>8, <1>10, <1>12, <3>1, <3>2, NoneLostStays DEF Wires, LinksOK
  <2>. QED BY <2>1, <2>2, <2>3, <2>4 DEF LinksOK
<1>16. AsksOK'
  BY <1>2, <1>3 DEF Wires, AsksOK
<1>17. CountOK'
  <2>1. Fired(MasterDone) => Fired(MasterDone)'
    BY <1>8, MasterIs, FiredStays
  <2>2. /\ \A i : Asked(<<"observe", i>>)' <=> Asked(<<"observe", i>>)
        /\ Asked(<<"finish">>)' <=> Asked(<<"finish">>)
    BY <1>9
  <2>3. cb'[MasterDone].fired => cb[MasterDone].fired
    BY <1>7, MasterIs DEF NoneFires
  <2>. QED BY <1>2, <1>10, <2>1, <2>2, <2>3, CountStays DEF Wires
<1>18. AnswersOK'
  <2>1. ASSUME NEW i \in Subordinates(args) PROVE AnswerOK(i)'
    <3>1. PICK l, x : l = DoneOf(i) /\ x = <<"update", i>>
      OBVIOUS
    <3>2. i \in DOMAIN args /\ l \in OutcomeList /\ l \in DeferredLists /\ x \in Passing
      BY <3>1, SubordinateIs DEF Inv
    <3>3. AnswerOK(i) /\ Single(todo, AnswersIn(i))
      BY <3>2 DEF Wires, AnswersOK
    <3>4. AnswersIn(i) = {<<"observe", i>>, <<"add", l, x>>} /\ AnswersIn(i)' = AnswersIn(i)
      BY <1>2, <3>1 DEF AnswersIn, DoneOf
    <3>5. CASE l = n /\ x = e
      <4>1. c \in AnswersIn(i)
        BY <1>5, <3>4, <3>5
      <4>2. Awaited(i) /\ ~Awaited(i)'
        <5>1. \A y \in AnswersIn(i) : ~Asked(y)'
          BY <1>3, <3>3, <4>1
        <5>. QED BY <1>3, <3>4, <4>1, <5>1 DEF Awaited
      <4>3. ~Has(cb[n], e) /\ Once(cb[n], e) /\ answers[i] = NoValue
        BY <3>1, <3>3, <3>5, <4>2 DEF AnswerOK
      <4>4. Once(cb'[n], e) /\ (cb'[n].on => Comes(cb'[n], e))
        BY <1>7, <3>2, <3>5, <4>3
      <4>5. DoneOf(i)' = n /\ cb[DoneOf(i)]' = cb'[n] /\ answers'[i] = NoValue
        BY <1>2, <3>1, <3>5, <4>3 DEF DoneOf
      <4>. QED BY <3>1, <3>5, <4>2, <4>4, <4>5 DEF AnswerOK
    <3>6. CASE ~(l = n /\ x = e)
      <4>1. c \notin AnswersIn(i)
        BY <1>5, <3>4, <3>6
      <4>2. Awaited(i)' <=> Awaited(i)
        BY <1>3, <3>4, <4>1 DEF Awaited
      <4>3. Like(cb[l], cb'[l], x) /\ (cb'[l].on => cb[l].on) /\ (Has(cb'[l], x) => Has(cb[l], x))
        BY <1>7, <3>2, <3>6 DEF LikeBut, Open
      <4>. QED BY <1>2, <1>8, <3>1, <3>2, <3>3, <4>2, <4>3, AnswerStays
    <3>. QED BY <3>5, <3>6
  <2>2. ASSUME NEW i \in DOMAIN args PROVE Single(todo, AnswersIn(i))'
    <3>1. AnswersIn(i)' = AnswersIn(i)
      BY <1>2 DEF AnswersIn, DoneOf
    <3>. QED BY <1>3, <3>1 DEF Wires, AnswersOK
  <2>. QED BY <1>2, <2>1, <2>2 DEF AnswersOK, Subordinates
<1>. QED BY <1>14, <1>15, <1>16, <1>17, <1>18 DEF Wires

-----------------------------------------------------------------------------
(* when() looks at an argument, or comes to its end.                       *)
LEMMA LeftFinite ==
  ASSUME TodoOK, args' = args
  PROVE  IsFiniteSet(Left) /\ IsFiniteSet(Left')
<1>1. PICK n \in Nat : DOMAIN args = 1..n
  BY DEF TodoOK
<1>2. IsFiniteSet(1..n)
  BY FS_Interval
<1>3. Left \subseteq 1..n /\ Left' \subseteq 1..n
  BY <1>1 DEF Left
<1>. QED BY <1>2, <1>3, FS_Subset

(* One less is waited for.                                                 *)
LEMMA OneLess ==
  ASSUME TodoOK, CountOK, args' = args, NEW i \in Left, Left' = Left \ {i}, remaining' = remaining - 1
  PROVE  /\ remaining' = Cardinality(Left') /\ remaining' \in Nat /\ args # <<>>
         /\ ~Told(MasterDone) /\ ~cb[MasterDone].fired
<1>1. IsFiniteSet(Left)
  BY LeftFinite
<1>2. Cardinality(Left \ {i}) = Cardinality(Left) - 1 /\ IsFiniteSet(Left \ {i})
  BY <1>1, FS_RemoveElement
<1>3. Cardinality(Left \ {i}) \in Nat /\ Cardinality(Left) \in Nat
  BY <1>1, <1>2, FS_CardinalityType
<1>4. Cardinality(Left) # 0
  BY <1>2, <1>3
<1>5. remaining = Cardinality(Left)
  BY DEF CountOK
<1>6. args # <<>>
  BY DEF Left
<1>. QED BY <1>2, <1>3, <1>4, <1>5, <1>6 DEF CountOK

LEMMA ObserveIs ==
  ASSUME Inv, Observe
  PROVE  \E i \in DOMAIN args :
           /\ Last(todo).call = <<"observe", i>> /\ todo # <<>> /\ cb' = cb /\ i \in Nat
           /\ IF args[i] = Plain THEN remaining' = remaining - 1 /\ todo' = Front(todo)
              ELSE /\ todo' = Before(Front(todo),
                                     << <<"add", <<args[i], "done">>, <<"update", i>> >>,
                                        <<"add", <<args[i], "fail">>, <<"forward", <<Master, "fail">>>> >>,
                                        <<"add", <<args[i], "progress">>, <<"update", i>> >> >>)
                   /\ remaining' = remaining
           /\ UNCHANGED <<args, answers, feeds, source>>
<1>1. PICK c, i : c = Last(todo).call /\ i = c[2]
  OBVIOUS
<1>2. todo # <<>> /\ c[1] = "observe" /\ cb' = cb /\ UNCHANGED <<args, answers, feeds, source>>
  BY <1>1 DEF Observe, Working, callbackVars, thenVars
<1>3. c \in CallsOf(args)
  BY <1>1, <1>2, TakenOff DEF Inv
<1>4. i \in DOMAIN args /\ c = <<"observe", i>> /\ i \in Nat
  BY <1>1, <1>2, <1>3 DEF CallsOf, Inv, TodoOK
<1>5. IF args[i] = Plain THEN remaining' = remaining - 1 /\ todo' = Front(todo)
      ELSE /\ todo' = Before(Front(todo),
                             << <<"add", <<args[i], "done">>, <<"update", i>> >>,
                                <<"add", <<args[i], "fail">>, <<"forward", <<Master, "fail">>>> >>,
                                <<"add", <<args[i], "progress">>, <<"update", i>> >> >>)
           /\ remaining' = remaining
  BY <1>1 DEF Observe
<1>. QED BY <1>1, <1>2, <1>4, <1>5

LEMMA ObservePlainWires ==
  ASSUME Inv, Wires, Keeps, NEW i \in DOMAIN args, Last(todo).call = <<"observe", i>>, todo # <<>>, cb' = cb,
         args[i] = Plain, remaining' = remaining - 1, todo' = Front(todo),
         UNCHANGED <<args, answers, feeds, source>>
  PROVE  Wires'
<1>1. PICK c : c = Last(todo).call /\ c = <<"observe", i>>
  OBVIOUS
<1>2. /\ c \in CallsOf(args) /\ Asked(c)
      /\ \A x : Asked(x)' => Asked(x)
      /\ \A x : x # c /\ Asked(x) => Asked(x)'
      /\ \A W : Single(todo, W) => Single(todo', W)
      /\ \A W : Single(todo, W) /\ c \in W => \A x \in W : ~Asked(x)'
      /\ Below(todo) => Below(todo')
  BY <1>1, TakenOff DEF Asked, Inv
<1>3. AllHad /\ LikeBut(<<>>, <<>>) /\ ValuesKept
  BY SameAlike, AlikeIs DEF Keeps
<1>4. \A x : x[1] # "observe" => (Asked(x)' <=> Asked(x))
  BY <1>1, <1>2
<1>5. \A m : Told(m)' <=> Told(m)
  BY <1>4 DEF Told
<1>6. \A j : j # i => (Asked(<<"observe", j>>)' <=> Asked(<<"observe", j>>))
  BY <1>1, <1>2
<1>7. /\ \A l, m : Linked(l, m) => Linked(l, m)'
      /\ \A l, x : Allowed(l, x) => Allowed(l, x)'
      /\ \A l, m : Linked(l, m)' => Linked(l, m)
  BY LinksGrow DEF Linked, LinkedBy
<1>8. DatasOK'
  BY <1>3, DatasStay DEF Wires
<1>9. LinksOK'
  <2>1. FeedsOK'
    BY DEF Wires, LinksOK, FeedsOK
  <2>2. OnlyLinked'
    BY <1>2, <1>7, OnlyLinkedStays DEF Wires, LinksOK
  <2>3. NoneInvented'
    BY <1>3, <1>5, <1>7, NoneInventedStays DEF Wires, LinksOK
  <2>4. NoneLost'
    <3>1. \A l, m \in OutcomeList :
             /\ ~(l = <<>> /\ <<"forward", m>> = <<>>)
             /\ Asked(<<"add", l, <<"forward", m>>>>) => Asked(<<"add", l, <<"forward", m>>>>)'
      BY <1>4
    <3>2. \A j \in Subordinates(args) : Asked(<<"observe", j>>) => Asked(<<"observe", j>>)'
      BY <1>6 DEF Subordinates
    <3>. QED BY <1>3, <1>5, <1>7, <3>1, <3>2, NoneLostStays DEF Wires, LinksOK
  <2>. QED BY <2>1, <2>2, <2>3, <2>4 DEF LinksOK
<1>10. Asked(<<"finish">>) /\ Asked(<<"finish">>)'
  <2>1. Asked(<<"finish">>)
    <3>1. PICK j \in DOMAIN todo : todo[j].call = c
      BY <1>2 DEF Asked, AskedIn
    <3>2. Below(todo) /\ todo[j].call[1] = "observe"
      BY <1>1, <3>1 DEF Wires, AsksOK
    <3>. QED BY <3>2 DEF Below, Asked, AskedIn
  <2>. QED BY <1>4, <2>1
<1>11. AsksOK'
  BY <1>2, <1>10 DEF Wires, AsksOK
<1>12. CountOK'
  <2>1. i \in Left /\ Left' = Left \ {i}
    <3>1. ~Asked(<<"observe", i>>)'
      <4>1. Single(todo, AnswersIn(i)) /\ c \in AnswersIn(i)
        BY <1>1 DEF Wires, AnswersOK, AnswersIn
      <4>. QED BY <1>1, <1>2, <4>1
    <3>. QED BY <1>1, <1>2, <1>6, <3>1 DEF Left
  <2>2. /\ remaining' = Cardinality(Left') /\ args # <<>>
        /\ ~Told(MasterDone) /\ ~cb[MasterDone].fired
    BY <2>1, OneLess DEF Inv, Wires
  <2>3. ~Told(MasterDone)' /\ ~cb[MasterDone]'.fired
    BY <1>5, <2>2 DEF MasterDone
  <2>4. MasterDone' = MasterDone
    BY DEF MasterDone
  <2>. QED BY <1>10, <2>2, <2>3, <2>4 DEF Wires, CountOK
<1>13. AnswersOK'
  <2>1. \A j \in Subordinates(args) : Awaited(j)' <=> Awaited(j)
    <3>1. ASSUME NEW j \in Subordinates(args) PROVE Awaited(j)' <=> Awaited(j)
      <4>1. AnswersIn(j)' = AnswersIn(j) /\ c \notin AnswersIn(j)
        BY <1>1 DEF AnswersIn, DoneOf, Subordinates
      <4>. QED BY <1>2, <4>1 DEF Awaited
    <3>. QED BY <3>1
  <2>2. \A j \in Subordinates(args) : ~(DoneOf(j) = <<>> /\ <<"update", j>> = <<>>)
    OBVIOUS
  <2>. QED BY <1>2, <1>3, <2>1, <2>2, AnswersStay DEF Wires, Inv
<1>. QED BY <1>8, <1>9, <1>11, <1>12, <1>13 DEF Wires

LEMMA NextCalls ==
  ASSUME Inv, NEW S, NEW rest \in Seq([depth : Nat, call : S]), NEW calls \in Seq(S),
         todo' = Before(rest, calls)
  PROVE  /\ \A x : Asked(x)' <=> (AskedIn(rest, x) \/ \E k \in DOMAIN calls : calls[k] = x)
         /\ \A W : Single(rest, W) /\ (\A k \in DOMAIN calls : calls[k] \notin W) => Single(todo', W)
         /\ \A W : (\A x \in W : ~AskedIn(rest, x))
                  /\ (\A j, k \in DOMAIN calls : calls[j] \in W /\ calls[k] \in W => j = k)
                  => Single(todo', W)
         /\ Below(rest) /\ (\/ \A k \in DOMAIN calls : calls[k][1] # "observe"
                            \/ calls # <<>> /\ calls[Len(calls)] = <<"finish">>)
                  => Below(todo')
<1>1. Len(run) \in Nat
  BY DEF Inv, RunOK
<1>. QED BY <1>1, AskedBefore DEF Asked

LEMMA ObserveDeferredWires ==
  ASSUME Inv, Wires, Keeps, NEW i \in DOMAIN args, i \in Nat, Last(todo).call = <<"observe", i>>,
         todo # <<>>, cb' = cb, remaining' = remaining, NEW d \in Given, d = args[i],
         NEW a1, a1 = <<"add", <<d, "done">>, <<"update", i>>>>,
         NEW a2, a2 = <<"add", <<d, "fail">>, <<"forward", MasterFail>>>>,
         NEW a3, a3 = <<"add", <<d, "progress">>, <<"update", i>>>>,
         todo' = Before(Front(todo), <<a1, a2, a3>>),
         UNCHANGED <<args, answers, feeds, source>>
  PROVE  Wires'
<1>1. PICK c, rest : c = Last(todo).call /\ c = <<"observe", i>> /\ rest = Front(todo)
  OBVIOUS
<1>2. /\ c \in CallsOf(args) /\ Asked(c)
      /\ rest \in Seq([depth : Nat, call : CallsOf(args)])
      /\ \A x : AskedIn(rest, x) => Asked(x)
      /\ \A x : x # c /\ Asked(x) => AskedIn(rest, x)
      /\ \A W : Single(todo, W) => Single(rest, W)
      /\ \A W : Single(todo, W) /\ c \in W => \A x \in W : ~AskedIn(rest, x)
      /\ Below(todo) => Below(rest)
  BY <1>1, TakenOff DEF Inv
<1>3. i \in Subordinates(args) /\ d # Plain
  BY DeferredsAssumption DEF Deferred, Subordinates
<1>4. a1 \in CallsOf(args) /\ a2 \in CallsOf(args) /\ a3 \in CallsOf(args)
  <2>1. /\ <<d, "done">> \in DeferredLists /\ <<d, "fail">> \in DeferredLists
        /\ <<d, "progress">> \in DeferredLists /\ MasterFail \in DeferredLists
    BY KindIs DEF DeferredLists, Deferred, MasterFail
  <2>2. <<"update", i>> \in Own /\ <<"forward", MasterFail>> \in Own
    BY <2>1 DEF Own
  <2>. QED BY <2>1, <2>2 DEF CallsOf
<1>5. PICK calls : calls = <<a1, a2, a3>>
  OBVIOUS
<1>6. /\ calls \in Seq(CallsOf(args)) /\ DOMAIN calls = {1, 2, 3}
      /\ calls[1] = a1 /\ calls[2] = a2 /\ calls[3] = a3
  BY <1>4, <1>5
<1>7. todo' = Before(rest, calls)
  BY <1>1, <1>5
<1>8. /\ \A x : Asked(x)' <=> (AskedIn(rest, x) \/ \E k \in DOMAIN calls : calls[k] = x)
      /\ \A W : Single(rest, W) /\ (\A k \in DOMAIN calls : calls[k] \notin W) => Single(todo', W)
      /\ \A W : (\A x \in W : ~AskedIn(rest, x))
               /\ (\A j, k \in DOMAIN calls : calls[j] \in W /\ calls[k] \in W => j = k)
               => Single(todo', W)
      /\ Below(rest) /\ (\/ \A k \in DOMAIN calls : calls[k][1] # "observe"
                         \/ calls # <<>> /\ calls[Len(calls)] = <<"finish">>)
               => Below(todo')
  BY <1>2, <1>6, <1>7, NextCalls
<1>9. /\ \A x : Asked(x)' <=> (AskedIn(rest, x) \/ x \in {a1, a2, a3})
      /\ \A W : Single(rest, W) /\ a1 \notin W /\ a2 \notin W /\ a3 \notin W => Single(todo', W)
      /\ \A W : (\A x \in W : ~AskedIn(rest, x)) /\ a2 \notin W /\ a3 \notin W => Single(todo', W)
      /\ Below(rest) => Below(todo')
  <2>1. \A k \in DOMAIN calls : calls[k][1] # "observe"
    BY <1>6
  <2>2. \A x : (\E k \in DOMAIN calls : calls[k] = x) <=> x \in {a1, a2, a3}
    BY <1>6
  <2>3. ASSUME NEW W, a2 \notin W, a3 \notin W
        PROVE  \A j, k \in DOMAIN calls : calls[j] \in W /\ calls[k] \in W => j = k
    BY <1>6, <2>3
  <2>4. \A W : a1 \notin W /\ a2 \notin W /\ a3 \notin W => \A k \in DOMAIN calls : calls[k] \notin W
    BY <1>6
  <2>5. Below(rest) => Below(todo')
    BY <1>8, <2>1
  <2>6. \A x : Asked(x)' <=> (AskedIn(rest, x) \/ x \in {a1, a2, a3})
    BY <1>8, <2>2
  <2>7. \A W : (\A x \in W : ~AskedIn(rest, x)) /\ a2 \notin W /\ a3 \notin W => Single(todo', W)
    BY <1>8, <2>3
  <2>. QED BY <1>8, <2>4, <2>5, <2>6, <2>7
<1>10. \A x : x # c /\ x \notin {a1, a2, a3} => (Asked(x)' <=> Asked(x))
  BY <1>2, <1>9
<1>11. \A x : x[1] \in {"fire", "finish"} => (Asked(x)' <=> Asked(x))
  BY <1>1, <1>10
<1>12. \A m : Told(m)' <=> Told(m)
  <2>1. \A m, w : Asked(<<"fire", m, w>>)' <=> Asked(<<"fire", m, w>>)
    BY <1>11
  <2>. QED BY <2>1 DEF Told
<1>13. \A j : j # i => (Asked(<<"observe", j>>)' <=> Asked(<<"observe", j>>))
  BY <1>1, <1>10
<1>14. AllHad /\ LikeBut(<<>>, <<>>) /\ ValuesKept
  BY SameAlike, AlikeIs DEF Keeps
<1>15. /\ \A l, m : Linked(l, m) => Linked(l, m)'
       /\ \A l, x : Allowed(l, x) => Allowed(l, x)'
       /\ \A l, m : Linked(l, m)' => Linked(l, m)
  BY LinksGrow DEF Linked, LinkedBy
<1>16. DatasOK'
  BY <1>14, DatasStay DEF Wires
<1>17. LinksOK'
  <2>1. FeedsOK'
    BY DEF Wires, LinksOK, FeedsOK
  <2>2. OnlyLinked'
    <3>1. ASSUME NEW l \in DeferredLists, NEW x \in Own, Asked(<<"add", l, x>>)'
          PROVE  Asked(<<"add", l, x>>) \/ Allowed(l, x)
      <4>1. CASE <<"add", l, x>> = a1 \/ <<"add", l, x>> = a3
        <5>1. x = <<"update", i>> /\ l \in {<<args[i], "done">>, <<args[i], "progress">>}
          BY <4>1
        <5>. QED BY <1>3, <5>1 DEF Allowed
      <4>2. CASE <<"add", l, x>> = a2
        <5>1. x = <<"forward", MasterFail>> /\ l = <<args[i], "fail">>
          BY <4>2
        <5>2. Linked(l, MasterFail)
          BY <1>3, <5>1 DEF Linked, LinkedBy
        <5>. QED BY <5>1, <5>2 DEF Allowed
      <4>. QED BY <1>2, <1>9, <3>1, <4>1, <4>2
    <3>. QED BY <1>15, <3>1, OnlyLinkedStays DEF Wires, LinksOK
  <2>3. NoneInvented'
    BY <1>12, <1>14, <1>15, NoneInventedStays DEF Wires, LinksOK
  <2>4. NoneLost'
    <3>1. \A l, m \in OutcomeList :
             /\ ~(l = <<>> /\ <<"forward", m>> = <<>>)
             /\ Asked(<<"add", l, <<"forward", m>>>>) => Asked(<<"add", l, <<"forward", m>>>>)'
      BY <1>1, <1>2, <1>9
    <3>2. \A j \in Subordinates(args) : Asked(<<"observe", j>>) =>
             \/ Asked(<<"observe", j>>)'
             \/ Asked(<<"add", <<args[j], "fail">>, <<"forward", MasterFail>>>>)'
      BY <1>9, <1>13
    <3>. QED BY <1>12, <1>14, <1>15, <3>1, <3>2, NoneLostStays DEF Wires, LinksOK
  <2>. QED BY <2>1, <2>2, <2>3, <2>4 DEF LinksOK
<1>18. AsksOK'
  BY <1>2, <1>9, <1>11 DEF Wires, AsksOK
<1>19. CountOK'
  <2>1. \A j \in DOMAIN args : args[j] = Plain => (Asked(<<"observe", j>>)' <=> Asked(<<"observe", j>>))
    BY <1>3, <1>13
  <2>2. Asked(<<"finish">>)' <=> Asked(<<"finish">>)
    BY <1>11
  <2>3. Fired(MasterDone) => Fired(MasterDone)'
    BY DEF Fired, MasterDone
  <2>. QED BY <1>12, <2>1, <2>2, <2>3, CountStays DEF Wires
<1>20. AnswersOK'
  <2>1. \A j : AnswersIn(j)' = AnswersIn(j)
    BY DEF AnswersIn, DoneOf
  <2>2. /\ c \in AnswersIn(i) /\ a1 \in AnswersIn(i) /\ a2 \notin AnswersIn(i) /\ a3 \notin AnswersIn(i)
        /\ \A j : j # i => c \notin AnswersIn(j) /\ a1 \notin AnswersIn(j)
        /\ \A j : a2 \notin AnswersIn(j) /\ a3 \notin AnswersIn(j)
    BY <1>1 DEF AnswersIn, DoneOf
  <2>3. ASSUME NEW j \in Subordinates(args) PROVE Awaited(j)' <=> Awaited(j)
    <3>1. CASE j = i
      BY <1>2, <1>9, <2>1, <2>2, <3>1 DEF Awaited
    <3>2. CASE j # i
      BY <1>10, <2>1, <2>2, <3>2 DEF Awaited
    <3>. QED BY <3>1, <3>2
  <2>4. ASSUME NEW j \in DOMAIN args, Single(todo, AnswersIn(j)) PROVE Single(todo', AnswersIn(j))
    <3>1. CASE j = i
      BY <1>2, <1>9, <2>2, <2>4, <3>1
    <3>2. CASE j # i
      BY <1>2, <1>9, <2>2, <2>4, <3>2
    <3>. QED BY <3>1, <3>2
  <2>5. \A j \in Subordinates(args) : ~(DoneOf(j) = <<>> /\ <<"update", j>> = <<>>)
    OBVIOUS
  <2>. QED BY <1>14, <2>3, <2>4, <2>5, AnswersStay DEF Wires, Inv
<1>. QED BY <1>16, <1>17, <1>18, <1>19, <1>20 DEF Wires

LEMMA ObserveWires ==
  ASSUME Inv, Wires, Keeps, Observe
  PROVE  Wires'
<1>1. PICK i \in DOMAIN args :
           /\ Last(todo).call = <<"observe", i>> /\ todo # <<>> /\ cb' = cb /\ i \in Nat
           /\ IF args[i] = Plain THEN remaining' = remaining - 1 /\ todo' = Front(todo)
              ELSE /\ todo' = Before(Front(todo),
                                     << <<"add", <<args[i], "done">>, <<"update", i>> >>,
                                        <<"add", <<args[i], "fail">>, <<"forward", <<Master, "fail">>>> >>,
                                        <<"add", <<args[i], "progress">>, <<"update", i>> >> >>)
                   /\ remaining' = remaining
           /\ UNCHANGED <<args, answers, feeds, source>>
  BY ObserveIs
<1>2. CASE args[i] = Plain
  BY <1>1, <1>2, ObservePlainWires
<1>3. CASE args[i] # Plain
  <2>1. PICK d : d = args[i]
    OBVIOUS
  <2>2. d \in Given
    BY <1>3, <2>1 DEF Inv, TodoOK
  <2>3. PICK a1, a2, a3 : /\ a1 = <<"add", <<d, "done">>, <<"update", i>>>>
                          /\ a2 = <<"add", <<d, "fail">>, <<"forward", MasterFail>>>>
                          /\ a3 = <<"add", <<d, "progress">>, <<"update", i>>>>
    OBVIOUS
  <2>4. todo' = Before(Front(todo), <<a1, a2, a3>>) /\ remaining' = remaining
    BY <1>1, <1>3, <2>1, <2>3 DEF MasterFail
  <2>. QED BY <1>1, <2>1, <2>2, <2>3, <2>4, ObserveDeferredWires
<1>. QED BY <1>2, <1>3

LEMMA FinishWires ==
  ASSUME Inv, Wires, Keeps, Finish
  PROVE  Wires'
<1>1. PICK c, rest, v : c = Last(todo).call /\ rest = Front(todo) /\ v = CHOOSE w \in Values : TRUE
  OBVIOUS
<1>2. PICK calls : calls = IF remaining = 0 THEN Answer("done", v) ELSE <<>>
  OBVIOUS
<1>3. /\ todo # <<>> /\ c[1] = "finish" /\ cb' = cb /\ todo' = Before(rest, calls)
      /\ UNCHANGED <<args, remaining, answers, feeds, source>>
  BY <1>1, <1>2 DEF Finish, Working, callbackVars, whenVars, thenVars, NoneRemain
<1>4. /\ c \in CallsOf(args) /\ Asked(c)
      /\ rest \in Seq([depth : Nat, call : CallsOf(args)])
      /\ \A x : AskedIn(rest, x) => Asked(x)
      /\ \A x : x # c /\ Asked(x) => AskedIn(rest, x)
      /\ \A W : Single(todo, W) => Single(rest, W)
      /\ Below(todo) => Below(rest)
  BY <1>1, <1>3, TakenOff DEF Inv
<1>5. c = <<"finish">> /\ v \in Values
  BY <1>1, <1>3, <1>4, ValuesAssumption DEF CallsOf
<1>6. PICK say : say = <<"fire", MasterDone, v>>
  OBVIOUS
<1>7. /\ calls \in Seq(CallsOf(args))
      /\ \A x : (\E k \in DOMAIN calls : calls[k] = x) <=> remaining = 0 /\ x = say
      /\ \A k \in DOMAIN calls : calls[k] = say
  <2>1. CASE remaining = 0
    <3>1. calls = <<say>> /\ calls = Answer("done", v)
      BY <1>2, <1>6, <2>1 DEF Answer, MasterDone
    <3>2. Answer("done", v) \in Seq(CallsOf(args))
      BY <1>5, KindIs, MasterIsTold
    <3>. QED BY <2>1, <3>1, <3>2
  <2>2. CASE remaining # 0
    BY <1>2, <2>2
  <2>. QED BY <2>1, <2>2
<1>8. /\ \A x : Asked(x)' <=> (AskedIn(rest, x) \/ \E k \in DOMAIN calls : calls[k] = x)
      /\ \A W : Single(rest, W) /\ (\A k \in DOMAIN calls : calls[k] \notin W) => Single(todo', W)
      /\ Below(rest) /\ (\/ \A k \in DOMAIN calls : calls[k][1] # "observe"
                         \/ calls # <<>> /\ calls[Len(calls)] = <<"finish">>)
               => Below(todo')
  BY <1>3, <1>4, <1>7, NextCalls
<1>9. /\ \A x : Asked(x)' => Asked(x) \/ (remaining = 0 /\ x = say)
      /\ \A x : x # c /\ Asked(x) => Asked(x)'
      /\ remaining = 0 => Asked(say)'
      /\ \A x : x[1] \in {"observe", "add"} => (Asked(x)' <=> Asked(x))
      /\ \A W : Single(todo, W) /\ say \notin W => Single(todo', W)
      /\ Below(todo) => Below(todo')
  <2>1. \A x : Asked(x)' <=> AskedIn(rest, x) \/ (remaining = 0 /\ x = say)
    BY <1>7, <1>8
  <2>2. \A x : x[1] \in {"observe", "add"} => x # c /\ x # say
    BY <1>5, <1>6
  <2>3. say[1] # "observe"
    BY <1>6
  <2>. QED BY <1>4, <1>7, <1>8, <2>1, <2>2, <2>3
<1>10. \A m : (Told(m) => Told(m)') /\ (m # MasterDone /\ Told(m)' => Told(m))
  <2>1. \A m, w : <<"fire", m, w>> # c /\ (m # MasterDone => <<"fire", m, w>> # say)
    BY <1>5, <1>6
  <2>. QED BY <1>9, <2>1 DEF Told
<1>11. Told(MasterDone)' => Told(MasterDone) \/ remaining = 0
  BY <1>9 DEF Told
<1>12. remaining = 0 => Told(MasterDone)'
  BY <1>5, <1>6, <1>9 DEF Told
<1>13. AllHad /\ LikeBut(<<>>, <<>>) /\ ValuesKept
  BY <1>3, SameAlike, AlikeIs DEF Keeps
<1>14. /\ \A l, m : Linked(l, m) => Linked(l, m)'
       /\ \A l, x : Allowed(l, x) => Allowed(l, x)'
       /\ \A l, m : Linked(l, m)' => Linked(l, m)
  BY <1>3, LinksGrow DEF Linked, LinkedBy
<1>15. args # <<>>
  BY <1>4, <1>5 DEF Wires, AsksOK
<1>16. DatasOK'
  BY <1>13, DatasStay DEF Wires
<1>17. LinksOK'
  <2>1. FeedsOK'
    BY <1>3 DEF Wires, LinksOK, FeedsOK
  <2>2. OnlyLinked'
    BY <1>3, <1>9, <1>14, OnlyLinkedStays DEF Wires, LinksOK
  <2>3. NoneInvented'
    BY <1>3, <1>10, <1>13, <1>14, NoneInventedStays DEF Wires, LinksOK
  <2>4. NoneLost'
    <3>1. \A l, m \in OutcomeList :
             /\ ~(l = <<>> /\ <<"forward", m>> = <<>>)
             /\ Asked(<<"add", l, <<"forward", m>>>>) => Asked(<<"add", l, <<"forward", m>>>>)'
      BY <1>9
    <3>2. \A j \in Subordinates(args) : Asked(<<"observe", j>>) => Asked(<<"observe", j>>)'
      BY <1>9
    <3>. QED BY <1>3, <1>10, <1>13, <1>14, <3>1, <3>2, NoneLostStays DEF Wires, LinksOK
  <2>. QED BY <2>1, <2>2, <2>3, <2>4 DEF LinksOK
<1>18. AsksOK'
  BY <1>3, <1>9, <1>15 DEF Wires, AsksOK
<1>19. CountOK'
  <2>1. Left' = Left
    BY <1>3, <1>9 DEF Left
  <2>2. MasterDone' = MasterDone /\ cb[MasterDone]' = cb[MasterDone] /\ (Fired(MasterDone)' <=> Fired(MasterDone))
    BY <1>3 DEF MasterDone, Fired
  <2>3. (Told(MasterDone) \/ cb[MasterDone].fired)' => args' # <<>> /\ remaining' = 0
    BY <1>3, <1>11, <1>15, <2>2 DEF Wires, CountOK
  <2>4. args' # <<>> /\ remaining' = 0 => Asked(<<"finish">>)' \/ Told(MasterDone)' \/ Fired(MasterDone)'
    BY <1>3, <1>12
  <2>. QED BY <1>3, <2>1, <2>2, <2>3, <2>4 DEF Wires, CountOK
<1>20. AnswersOK'
  <2>1. \A j : AnswersIn(j)' = AnswersIn(j) /\ say \notin AnswersIn(j)
        /\ \A x \in AnswersIn(j) : x[1] \in {"observe", "add"}
    BY <1>3, <1>6 DEF AnswersIn, DoneOf
  <2>2. \A j \in Subordinates(args) : Awaited(j)' <=> Awaited(j)
    BY <1>9, <2>1 DEF Awaited
  <2>3. \A j \in Subordinates(args) : ~(DoneOf(j) = <<>> /\ <<"update", j>> = <<>>)
    OBVIOUS
  <2>. QED BY <1>3, <1>9, <1>13, <2>1, <2>2, <2>3, AnswersStay DEF Wires, Inv
<1>. QED BY <1>16, <1>17, <1>18, <1>19, <1>20 DEF Wires

-----------------------------------------------------------------------------
(* A callback passes its value on.                                         *)
LEMMA QueuedCalls ==
  ASSUME Inv, NEW S, todo \in Seq([depth : Nat, call : S]), NEW calls \in Seq(S), todo' = Queued(calls)
  PROVE  /\ \A x : Asked(x)' <=> (Asked(x) \/ \E k \in DOMAIN calls : calls[k] = x)
         /\ \A W : Single(todo, W) /\ (\A k \in DOMAIN calls : calls[k] \notin W) => Single(todo', W)
         /\ \A W : (\A x \in W : ~Asked(x))
                  /\ (\A j, k \in DOMAIN calls : calls[j] \in W /\ calls[k] \in W => j = k)
                  => Single(todo', W)
         /\ Below(todo) /\ (\/ \A k \in DOMAIN calls : calls[k][1] # "observe"
                            \/ calls # <<>> /\ calls[Len(calls)] = <<"finish">>)
                  => Below(todo')
<1>1. PICK rest : rest = todo
  OBVIOUS
<1>2. todo' = Before(rest, calls) /\ rest \in Seq([depth : Nat, call : S])
  BY <1>1 DEF Queued
<1>3. Len(run) \in Nat
  BY DEF Inv, RunOK
<1>4. /\ \A x : AskedIn(Before(rest, calls), x) <=> (AskedIn(rest, x) \/ \E k \in DOMAIN calls : calls[k] = x)
      /\ \A W : Single(rest, W) /\ (\A k \in DOMAIN calls : calls[k] \notin W) => Single(Before(rest, calls), W)
      /\ \A W : (\A x \in W : ~AskedIn(rest, x))
               /\ (\A j, k \in DOMAIN calls : calls[j] \in W /\ calls[k] \in W => j = k)
               => Single(Before(rest, calls), W)
      /\ Below(rest) /\ (\/ \A k \in DOMAIN calls : calls[k][1] # "observe"
                         \/ calls # <<>> /\ calls[Len(calls)] = <<"finish">>)
               => Below(Before(rest, calls))
  BY <1>2, <1>3, AskedBefore
<1>5. \A x : Asked(x)' <=> (Asked(x) \/ \E k \in DOMAIN calls : calls[k] = x)
  BY <1>1, <1>2, <1>4 DEF Asked
<1>6. \A W : (\A x \in W : ~Asked(x))
            /\ (\A j, k \in DOMAIN calls : calls[j] \in W /\ calls[k] \in W => j = k)
            => Single(todo', W)
  BY <1>1, <1>2, <1>4 DEF Asked
<1>. QED BY <1>1, <1>2, <1>4, <1>5, <1>6

LEMMA TodoIs == TodoOK => todo \in Seq([depth : Nat, call : CallsOf(args)])
BY DEF TodoOK, Fits

LEMMA OneQueued ==
  ASSUME Inv, NEW say \in CallsOf(args), say[1] = "fire", todo' = Queued(<<say>>)
  PROVE  /\ \A x : Asked(x)' <=> (Asked(x) \/ x = say)
         /\ \A W : Single(todo, W) /\ say \notin W => Single(todo', W)
         /\ Below(todo) => Below(todo')
<1>1. PICK calls : calls = <<say>>
  OBVIOUS
<1>2. calls \in Seq(CallsOf(args)) /\ DOMAIN calls = {1} /\ calls[1] = say
  BY <1>1
<1>3. todo \in Seq([depth : Nat, call : CallsOf(args)])
  BY TodoIs DEF Inv
<1>4. /\ \A x : Asked(x)' <=> (Asked(x) \/ \E k \in DOMAIN calls : calls[k] = x)
      /\ \A W : Single(todo, W) /\ (\A k \in DOMAIN calls : calls[k] \notin W) => Single(todo', W)
      /\ Below(todo) /\ (\/ \A k \in DOMAIN calls : calls[k][1] # "observe"
                         \/ calls # <<>> /\ calls[Len(calls)] = <<"finish">>)
               => Below(todo')
  BY <1>1, <1>2, <1>3, QueuedCalls
<1>. QED BY <1>2, <1>4

(* A list calls the entry that is next, and waits for what it calls.       *)
LEMMA CalledBut ==
  ASSUME Inv, NEW l \in DeferredLists, Internal(l), Runs(l, Now)
  PROVE  /\ AllHad /\ NoneFires /\ LikeBut(l, Entry(l)) /\ Has(cb[l], Entry(l)) /\ Comes(cb[l], Entry(l))
         /\ \A m \in DeferredLists : m # l => cb'[m] = cb[m]
         /\ cb'[l].on = cb[l].on
         /\ \A x : Has(cb'[l], x) <=> Has(cb[l], x)
         /\ \A x : Once(cb[l], x) => Once(cb'[l], x)
         /\ Once(cb[l], Entry(l)) => ~Comes(cb'[l], Entry(l))
<1>1. PICK new, e : new = Stands(cb[l], "wait") /\ e = Entry(l)
  OBVIOUS
<1>2. cb' = [cb EXCEPT ![l] = new]
  BY <1>1 DEF Runs, Becomes, Now, Stands
<1>3. new \in {Stands(cb[l], "user"), Stands(cb[l], "wait"), Stepped(cb[l])}
  BY <1>1
<1>4. /\ \A m \in DeferredLists : m # l => cb'[m] = cb[m]
      /\ Comes(cb[l], Entry(l)) /\ Has(cb[l], Entry(l))
      /\ Open(cb[l], cb'[l]) /\ cb'[l].on = cb[l].on
      /\ \A x : Has(cb'[l], x) <=> Has(cb[l], x)
      /\ \A x : x # Entry(l) => Like(cb[l], cb'[l], x)
      /\ \A x : Once(cb[l], x) => Once(cb'[l], x)
      /\ Once(cb[l], Entry(l)) => ~Comes(cb'[l], Entry(l))
      /\ NoneFires
  BY <1>2, <1>3, EntryCalled
<1>5. AllHad
  BY <1>4 DEF AllHad
<1>6. LikeBut(l, e)
  <2>1. ASSUME NEW m \in OutcomeList
        PROVE  Open(cb[m], cb'[m]) /\ \A x : m # l \/ x # e => Like(cb[m], cb'[m], x)
    <3>1. m \in DeferredLists
      BY OutcomeLists DEF OutcomeList
    <3>2. CASE m = l
      BY <1>1, <1>4, <3>2
    <3>3. CASE m # l
      <4>1. cb'[m] = cb[m]
        BY <1>4, <3>1, <3>3
      <4>. QED BY <4>1 DEF Open, Like
    <3>. QED BY <3>2, <3>3
  <2>. QED BY <2>1 DEF LikeBut
<1>. QED BY <1>1, <1>4, <1>5, <1>6

LEMMA TellsWires ==
  ASSUME Inv, Wires, Keeps, NEW m \in DeferredLists, NEW v \in Values, m # MasterDone,
         todo' = Queued(<< <<"fire", m, v>> >>), AllHad, NoneFires, NEW n, NEW e, LikeBut(n, e),
         \A k : <<"forward", k>> = e => k = m,
         \A i \in Subordinates(args) : ~(DoneOf(i) = n /\ <<"update", i>> = e),
         UNCHANGED <<args, remaining, answers, source>>, feeds \subseteq feeds', FeedsOK',
         \A l, k : Linked(l, k)' => Linked(l, k) \/ k = m,
         m \in Made => Caused(m)'
  PROVE  Wires'
<1>1. PICK say : say = <<"fire", m, v>>
  OBVIOUS
<1>2. say \in CallsOf(args) /\ say[1] = "fire" /\ todo' = Queued(<<say>>)
  BY <1>1 DEF CallsOf
<1>3. /\ \A x : Asked(x)' <=> (Asked(x) \/ x = say)
      /\ \A W : Single(todo, W) /\ say \notin W => Single(todo', W)
      /\ Below(todo) => Below(todo')
  BY <1>2, OneQueued
<1>4. \A x : x[1] # "fire" => (Asked(x)' <=> Asked(x))
  BY <1>2, <1>3
<1>5. Told(m)' /\ \A k : (Told(k) => Told(k)') /\ (Told(k)' => Told(k) \/ k = m)
  <2>1. Asked(say)'
    BY <1>3
  <2>2. \A k, w : /\ Asked(<<"fire", k, w>>) => Asked(<<"fire", k, w>>)'
                  /\ Asked(<<"fire", k, w>>)' => Asked(<<"fire", k, w>>) \/ k = m
    BY <1>1, <1>3
  <2>. QED BY <1>1, <2>1, <2>2 DEF Told
<1>6. ValuesKept
  BY DEF Keeps
<1>7. /\ \A l, k : Linked(l, k) => Linked(l, k)'
      /\ \A l, x : Allowed(l, x) => Allowed(l, x)'
  BY LinksGrow
<1>8. DatasOK'
  BY DatasStay DEF Wires
<1>9. LinksOK'
  <2>1. OnlyLinked'
    <3>1. \A l, x : Asked(<<"add", l, x>>)' <=> Asked(<<"add", l, x>>)
      BY <1>4
    <3>. QED BY <1>7, <3>1, OnlyLinkedStays DEF Wires, LinksOK, AllHad
  <2>2. NoneInvented'
    <3>1. \A k \in Made : k # MasterDone /\ (Told(k)' \/ cb'[k].fired)
                            => Told(k) \/ cb[k].fired \/ Caused(k)'
      BY <1>5 DEF NoneFires, Made
    <3>. QED BY <1>6, <1>7, <3>1, NoneInventedStays DEF Wires, LinksOK
  <2>3. NoneLost'
    <3>1. ASSUME NEW l \in OutcomeList, NEW k \in OutcomeList
          PROVE  /\ Linked(l, k)' => Linked(l, k) \/ OnItsWay(l, k)'
                 /\ Asked(<<"add", l, <<"forward", k>>>>) => Asked(<<"add", l, <<"forward", k>>>>)'
                 /\ Told(k) => Told(k)' \/ Fired(k)'
                 /\ l = n /\ <<"forward", k>> = e => Told(k)'
      <4>1. Linked(l, k)' => Linked(l, k) \/ OnItsWay(l, k)'
        BY <1>5 DEF OnItsWay
      <4>2. Asked(<<"add", l, <<"forward", k>>>>) => Asked(<<"add", l, <<"forward", k>>>>)'
        BY <1>3
      <4>. QED BY <1>5, <4>1, <4>2
    <3>2. \A i \in Subordinates(args) : Asked(<<"observe", i>>) => Asked(<<"observe", i>>)'
      BY <1>3
    <3>. QED BY <1>6, <3>1, <3>2, NoneLostStays DEF Wires, LinksOK
  <2>. QED BY <2>1, <2>2, <2>3 DEF LinksOK
<1>10. AsksOK'
  <2>1. Asked(<<"finish">>)' <=> Asked(<<"finish">>)
    BY <1>4
  <2>. QED BY <1>3, <2>1 DEF Wires, AsksOK
<1>11. CountOK'
  <2>1. Fired(MasterDone) => Fired(MasterDone)'
    BY <1>6, MasterIs, FiredStays
  <2>2. /\ \A i : Asked(<<"observe", i>>)' <=> Asked(<<"observe", i>>)
        /\ Asked(<<"finish">>)' <=> Asked(<<"finish">>)
    BY <1>4
  <2>3. cb'[MasterDone].fired => cb[MasterDone].fired
    BY MasterIs DEF NoneFires
  <2>. QED BY <1>5, <2>1, <2>2, <2>3, CountStays DEF Wires
<1>12. AnswersOK'
  <2>1. \A j : AnswersIn(j)' = AnswersIn(j) /\ say \notin AnswersIn(j) /\ \A x \in AnswersIn(j) : x[1] # "fire"
    BY <1>1 DEF AnswersIn, DoneOf
  <2>2. \A j \in Subordinates(args) : Awaited(j)' <=> Awaited(j)
    BY <1>4, <2>1 DEF Awaited
  <2>. QED BY <1>3, <1>6, <2>1, <2>2, AnswersStay DEF Wires, Inv
<1>. QED BY <1>8, <1>9, <1>10, <1>11, <1>12 DEF Wires

LEMMA CallForwardWires ==
  ASSUME Inv, Wires, Keeps, NEW l \in DeferredLists, CallForward(l)
  PROVE  Wires'
<1>1. PICK e, m, v : e = Entry(l) /\ m = e[2] /\ v = cb[l].data
  OBVIOUS
<1>2. /\ Internal(l) /\ e[1] = "forward" /\ Runs(l, Now) /\ todo' = Queued(<< <<"fire", m, v>> >>)
      /\ UNCHANGED <<args, remaining, answers, source, feeds>>
  BY <1>1 DEF CallForward, whenVars, thenVars
<1>3. e \in Own /\ m \in DeferredLists /\ e = <<"forward", m>> /\ v \in Values /\ cb[l].fired
  <2>1. e \in Later /\ v \in Values /\ cb[l].fired
    BY <1>1, <1>2, InternalIs, EntriesAre
  <2>. QED BY <1>1, <1>2, <2>1 DEF Later, Own
<1>4. /\ AllHad /\ NoneFires /\ LikeBut(l, e) /\ Has(cb[l], e)
  BY <1>1, <1>2, CalledBut
<1>5. Linked(l, m)
  <2>1. Allowed(l, e)
    BY <1>3, <1>4 DEF Wires, LinksOK, OnlyLinked
  <2>. QED BY <1>2, <1>3, <2>1 DEF Allowed
<1>6. m = MasterFail \/ m = <<Child, l[2]>>
  BY <1>5 DEF Linked, LinkedBy
<1>7. m # MasterDone
  BY <1>6, DeferredsAssumption DEF MasterDone, MasterFail
<1>8. /\ \A k, x : Linked(k, x) => Linked(k, x)'
      /\ \A k, x : Linked(k, x)' => Linked(k, x)
  BY <1>2, LinksGrow DEF Linked, LinkedBy
<1>9. ASSUME m \in Made PROVE Caused(m)'
  <2>1. l \in OutcomeList
    <3>1. m[2] \in Outcomes
      BY <1>9 DEF Made, OutcomeList
    <3>2. m[2] = l[2]
      <4>1. CASE l \in feeds /\ m = <<Child, l[2]>>
        BY <4>1
      <4>2. CASE \E i \in Subordinates(args) : LinkedBy(l, m, i)
        BY <4>2 DEF LinkedBy, MasterFail
      <4>. QED BY <1>5, <4>1, <4>2 DEF Linked
    <3>3. l[2] # "progress"
      BY <3>1, <3>2 DEF Outcomes
    <3>. QED BY <3>3, ListsOfDeferred DEF OutcomeList
  <2>2. Caused(m)
    BY <1>3, <1>5, <2>1 DEF Caused
  <2>. QED BY <1>8, <2>2, CausedStays DEF Keeps
<1>10. FeedsOK'
  BY <1>2 DEF Wires, LinksOK, FeedsOK
<1>11. /\ \A k : <<"forward", k>> = e => k = m
       /\ \A i \in Subordinates(args) : ~(DoneOf(i) = l /\ <<"update", i>> = e)
  BY <1>3
<1>12. /\ \A k, x : Linked(k, x)' => Linked(k, x) \/ x = m
       /\ feeds \subseteq feeds' /\ UNCHANGED <<args, remaining, answers, source>>
  BY <1>2, <1>8
<1>13. todo' = Queued(<< <<"fire", m, v>> >>) /\ m \in DeferredLists /\ v \in Values
  BY <1>2, <1>3
<1>. QED BY <1>4, <1>7, <1>9, <1>10, <1>11, <1>12, <1>13, TellsWires

LEMMA CallTellWires ==
  ASSUME Inv, Wires, Keeps, NEW l \in DeferredLists, CallTell(l)
  PROVE  Wires'
<1>1. PICK e, m, v : e = Entry(l) /\ m = <<Master, "progress">> /\ v = cb[l].data
  OBVIOUS
<1>2. /\ Internal(l) /\ e[1] = "update" /\ l[2] = "progress" /\ Runs(l, Now)
      /\ todo' = Queued(<< <<"fire", m, v>> >>) /\ UNCHANGED <<args, remaining, answers, source, feeds>>
  BY <1>1 DEF CallTell, whenVars, thenVars, Answer
<1>3. m \in DeferredLists /\ v \in Values
  BY <1>1, <1>2, InternalIs, KindIs DEF DeferredLists, Deferred
<1>4. AllHad /\ NoneFires /\ LikeBut(l, e)
  BY <1>1, <1>2, CalledBut
<1>5. m # MasterDone /\ m \notin Made
  BY <1>1 DEF MasterDone, Made, OutcomeList, Outcomes
<1>6. \A k, x : Linked(k, x)' => Linked(k, x) \/ x = m
  BY <1>2 DEF Linked, LinkedBy
<1>7. FeedsOK' /\ feeds \subseteq feeds' /\ UNCHANGED <<args, remaining, answers, source>>
  BY <1>2 DEF Wires, LinksOK, FeedsOK
<1>8. /\ \A k : <<"forward", k>> = e => k = m
      /\ \A i \in Subordinates(args) : ~(DoneOf(i) = l /\ <<"update", i>> = e)
  BY <1>2 DEF DoneOf
<1>9. todo' = Queued(<< <<"fire", m, v>> >>)
  BY <1>2
<1>. QED BY <1>3, <1>4, <1>5, <1>6, <1>7, <1>8, <1>9, TellsWires

LEMMA BackInThen ==
  ASSUME Inv, Inv', Wires, NEW l \in DeferredLists, InThen(l), Runs(l, Now)
  PROVE  AllAlike /\ NoneFires /\ cb[l].fired /\ source # Plain
<1>1. run # <<>> /\ l = Current /\ InCall(cb[l]) /\ cb[l].index < Len(cb[l].fns) /\ Entry(l)[1] = "then"
  BY InThenIs DEF InThen
<1>2. PICK c, new, e : c = cb[l] /\ new = Stands(c, "wait") /\ e = Entry(l)
  OBVIOUS
<1>3. cb' = [cb EXCEPT ![l] = new] /\ new \in {Stands(c, "wait"), Stepped(c)}
  BY <1>2 DEF Runs, Becomes, Now, Stands
<1>4. AllAlike /\ NoneFires
  BY <1>1, <1>2, <1>3, CallGoesOn
<1>5. ListOK(l, c) /\ c.firing /\ c.fired /\ c.index \in Nat /\ c.fns \in Seq(Early \cup Later)
  <2>1. ListOK(l, c) /\ c.firing
    BY <1>1, <1>2, CurrentIs DEF Inv, ListsOK, RunOK
  <2>. QED BY <2>1 DEF ListOK, ClosureOK, Closures
<1>6. PICK p : p = c.index + 1
  OBVIOUS
<1>7. p \in DOMAIN c.fns /\ e = c.fns[p] /\ e[1] = "then"
  BY <1>1, <1>2, <1>5, <1>6 DEF Entry
<1>8. e \in Later
  BY <1>5, <1>7, EntriesAre
<1>9. e \in Own /\ Has(c, e)
  BY <1>7, <1>8 DEF Later, Own, Has
<1>10. Allowed(l, e)
  BY <1>2, <1>9 DEF Wires, LinksOK, OnlyLinked
<1>. QED BY <1>2, <1>4, <1>5, <1>7, <1>10 DEF Allowed

LEMMA ReturnValueWires ==
  ASSUME Inv, Inv', Wires, Keeps, NEW l \in DeferredLists, NEW v \in Values, ReturnValue(l, v)
  PROVE  Wires'
<1>1. PICK m : m = <<Child, l[2]>>
  OBVIOUS
<1>2. /\ InThen(l) /\ Runs(l, Now) /\ todo' = Queued(<< <<"fire", m, v>> >>) /\ feeds' = feeds \cup {l}
      /\ UNCHANGED <<args, remaining, answers, source>>
  BY <1>1 DEF ReturnValue, whenVars
<1>3. AllAlike /\ NoneFires /\ cb[l].fired /\ source # Plain
  BY <1>2, BackInThen
<1>4. AllHad /\ LikeBut(<<>>, <<>>)
  BY <1>3, AlikeIs
<1>5. m \in DeferredLists /\ m # MasterDone
  <2>1. m \in DeferredLists
    BY <1>1, ListsOfDeferred DEF DeferredLists, Deferred
  <2>. QED BY <1>1, <2>1, DeferredsAssumption DEF MasterDone
<1>6. FeedsOK'
  BY <1>2, <1>3 DEF Wires, LinksOK, FeedsOK
<1>7. Linked(l, m)' /\ \A k, x : Linked(k, x)' => Linked(k, x) \/ x = m
  BY <1>1, <1>2 DEF Linked, LinkedBy, Subordinates
<1>8. ASSUME m \in Made PROVE Caused(m)'
  <2>1. l \in OutcomeList
    <3>1. l[2] # "progress"
      BY <1>1, <1>8 DEF Made, OutcomeList, Outcomes
    <3>. QED BY <3>1, ListsOfDeferred DEF OutcomeList
  <2>2. cb'[l].fired
    BY <1>3, <2>1 DEF Keeps, ValuesKept, OutcomeList
  <2>. QED BY <1>7, <2>1, <2>2 DEF Caused, OutcomeList
<1>9. /\ \A k : <<"forward", k>> = <<>> => k = m
      /\ \A i \in Subordinates(args) : ~(DoneOf(i) = <<>> /\ <<"update", i>> = <<>>)
  OBVIOUS
<1>10. /\ todo' = Queued(<< <<"fire", m, v>> >>) /\ feeds \subseteq feeds'
       /\ UNCHANGED <<args, remaining, answers, source>> /\ m \in DeferredLists
  BY <1>2, <1>5
<1>. QED BY <1>3, <1>4, <1>5, <1>6, <1>7, <1>8, <1>9, <1>10, TellsWires

-----------------------------------------------------------------------------
(* then(), or the wrapper of a function given to it, passes on what will   *)
(* happen to d.                                                            *)
LEMMA AddsWires ==
  ASSUME Inv, Wires, Keeps, AllAlike, NoneFires, NEW d \in Given, NEW kinds \in SUBSET Kind,
         NEW entry, \A k \in Kind : entry[k] = IF k \in kinds THEN <<"then", k>> ELSE <<"forward", <<Child, k>>>>,
         NEW calls, calls = [k \in 1..3 |-> <<"add", <<d, Kinds[k]>>, entry[Kinds[k]]>>],
         todo' = Queued(calls),
         UNCHANGED <<args, remaining, answers>>, feeds' = feeds \cup ({d} \X (Kind \ kinds)),
         source' # Plain, source' = source \/ source = Plain
  PROVE  Wires'
<1>2. /\ \A k \in 1..3 : Kinds[k] \in Kind
      /\ \A kind \in Kind : \E k \in 1..3 : kind = Kinds[k]
  BY DEF Kind, Kinds, Range
<1>3. ASSUME NEW kind \in Kind
      PROVE  /\ <<d, kind>> \in DeferredLists /\ entry[kind] \in Own
             /\ entry[kind] = IF kind \in kinds THEN <<"then", kind>> ELSE <<"forward", <<Child, kind>>>>
  <2>1. <<d, kind>> \in DeferredLists /\ <<Child, kind>> \in DeferredLists
    BY DEF DeferredLists, Deferred
  <2>. QED BY <2>1 DEF Own
<1>4. calls \in Seq(CallsOf(args)) /\ DOMAIN calls = 1..3
  <2>1. ASSUME NEW k \in 1..3 PROVE calls[k] \in CallsOf(args)
    <3>1. PICK kind \in Kind : kind = Kinds[k]
      BY <1>2
    <3>2. <<d, kind>> \in DeferredLists /\ entry[kind] \in Own
      BY <1>3
    <3>3. PICK l, x : l = <<d, kind>> /\ x = entry[kind]
      OBVIOUS
    <3>4. calls[k] = <<"add", l, x>>
      BY <3>1, <3>3
    <3>. QED BY <3>2, <3>3, <3>4 DEF CallsOf
  <2>. QED BY <2>1
<1>5. \A x : (\E k \in DOMAIN calls : calls[k] = x) <=> \E kind \in Kind : x = <<"add", <<d, kind>>, entry[kind]>>
  BY <1>2, <1>4
<1>6. todo \in Seq([depth : Nat, call : CallsOf(args)]) /\ todo' = Queued(calls)
  BY TodoIs DEF Inv
<1>7. /\ \A x : Asked(x)' <=> (Asked(x) \/ \E k \in DOMAIN calls : calls[k] = x)
      /\ \A W : Single(todo, W) /\ (\A k \in DOMAIN calls : calls[k] \notin W) => Single(todo', W)
      /\ Below(todo) /\ (\/ \A k \in DOMAIN calls : calls[k][1] # "observe"
                         \/ calls # <<>> /\ calls[Len(calls)] = <<"finish">>)
               => Below(todo')
  BY <1>4, <1>6, QueuedCalls
<1>8. /\ \A x : Asked(x)' <=> Asked(x) \/ \E kind \in Kind : x = <<"add", <<d, kind>>, entry[kind]>>
      /\ \A k \in DOMAIN calls : calls[k][1] # "observe"
      /\ \A x : x[1] # "add" => (Asked(x)' <=> Asked(x))
  <2>1. \A x : Asked(x)' <=> Asked(x) \/ \E kind \in Kind : x = <<"add", <<d, kind>>, entry[kind]>>
    BY <1>5, <1>7
  <2>2. \A k \in DOMAIN calls : calls[k][1] = "add"
    OBVIOUS
  <2>. QED BY <2>1, <2>2
<1>9. \A m : Told(m)' <=> Told(m)
  <2>1. \A m, w : Asked(<<"fire", m, w>>)' <=> Asked(<<"fire", m, w>>)
    BY <1>8
  <2>. QED BY <2>1 DEF Told
<1>10. AllHad /\ LikeBut(<<>>, <<>>) /\ ValuesKept
  BY AlikeIs DEF Keeps
<1>11. /\ \A l, m : Linked(l, m) => Linked(l, m)'
       /\ \A l, x : Allowed(l, x) => Allowed(l, x)'
  BY LinksGrow
<1>12. \A l, m : Linked(l, m)' => \/ Linked(l, m)
                                 \/ \E kind \in Kind \ kinds : l = <<d, kind>> /\ m = <<Child, kind>>
  BY DEF Linked, LinkedBy, Subordinates
<1>13. \A kind \in Kind \ kinds : Linked(<<d, kind>>, <<Child, kind>>)'
  BY DEF Linked
<1>14. DatasOK'
  BY <1>10, DatasStay DEF Wires
<1>15. LinksOK'
  <2>1. FeedsOK'
    <3>1. {d} \X (Kind \ kinds) \subseteq DeferredLists
      BY DEF DeferredLists, Deferred
    <3>. QED BY <3>1 DEF Wires, LinksOK, FeedsOK
  <2>2. OnlyLinked'
    <3>1. ASSUME NEW l \in DeferredLists, NEW x \in Own, Asked(<<"add", l, x>>)'
          PROVE  Asked(<<"add", l, x>>) \/ Allowed(l, x)'
      <4>1. CASE Asked(<<"add", l, x>>)
        BY <4>1
      <4>2. CASE \E kind \in Kind : <<"add", l, x>> = <<"add", <<d, kind>>, entry[kind]>>
        <5>1. PICK kind \in Kind : l = <<d, kind>> /\ x = entry[kind]
          BY <4>2
        <5>2. CASE kind \in kinds
          <6>1. x = <<"then", kind>>
            BY <1>3, <5>1, <5>2
          <6>. QED BY <6>1 DEF Allowed
        <5>3. CASE kind \notin kinds
          <6>1. x = <<"forward", <<Child, kind>>>> /\ Linked(l, <<Child, kind>>)'
            BY <1>3, <1>13, <5>1, <5>3
          <6>. QED BY <6>1 DEF Allowed
        <5>. QED BY <5>2, <5>3
      <4>. QED BY <1>8, <3>1, <4>1, <4>2
    <3>. QED BY <1>10, <1>11, <3>1, OnlyLinkedStays DEF Wires, LinksOK, AllHad
  <2>3. NoneInvented'
    BY <1>9, <1>10, <1>11, NoneInventedStays DEF Wires, LinksOK, NoneFires, Made
  <2>4. NoneLost'
    <3>1. ASSUME NEW l \in OutcomeList, NEW m \in OutcomeList
          PROVE  /\ Linked(l, m)' => Linked(l, m) \/ OnItsWay(l, m)'
                 /\ Asked(<<"add", l, <<"forward", m>>>>) => Asked(<<"add", l, <<"forward", m>>>>)'
                 /\ Told(m) => Told(m)' \/ Fired(m)'
                 /\ ~(l = <<>> /\ <<"forward", m>> = <<>>)
      <4>1. ASSUME NEW kind \in Kind \ kinds, l = <<d, kind>>, m = <<Child, kind>>
            PROVE  Asked(<<"add", l, <<"forward", m>>>>)'
        <5>1. entry[kind] = <<"forward", m>>
          BY <1>3, <4>1
        <5>. QED BY <1>8, <4>1, <5>1
      <4>2. Linked(l, m)' => Linked(l, m) \/ OnItsWay(l, m)'
        <5>1. Linked(l, m)' => Linked(l, m) \/ Asked(<<"add", l, <<"forward", m>>>>)'
          BY <1>12, <4>1
        <5>2. Asked(<<"add", l, <<"forward", m>>>>)' => OnItsWay(l, m)'
          BY DEF OnItsWay
        <5>. QED BY <5>1, <5>2
      <4>3. Asked(<<"add", l, <<"forward", m>>>>) => Asked(<<"add", l, <<"forward", m>>>>)'
        BY <1>8
      <4>. QED BY <1>9, <4>2, <4>3
    <3>2. \A i \in Subordinates(args) : Asked(<<"observe", i>>) => Asked(<<"observe", i>>)'
      BY <1>8
    <3>. QED BY <1>10, <3>1, <3>2, NoneLostStays DEF Wires, LinksOK
  <2>. QED BY <2>1, <2>2, <2>3, <2>4 DEF LinksOK
<1>16. AsksOK'
  <2>1. Asked(<<"finish">>)' <=> Asked(<<"finish">>)
    BY <1>8
  <2>. QED BY <1>7, <1>8, <2>1 DEF Wires, AsksOK
<1>17. CountOK'
  <2>1. Fired(MasterDone) => Fired(MasterDone)'
    BY <1>10, MasterIs, FiredStays
  <2>2. /\ \A i : Asked(<<"observe", i>>)' <=> Asked(<<"observe", i>>)
        /\ Asked(<<"finish">>)' <=> Asked(<<"finish">>)
    BY <1>8
  <2>3. cb'[MasterDone].fired => cb[MasterDone].fired
    BY MasterIs DEF NoneFires
  <2>. QED BY <1>9, <2>1, <2>2, <2>3, CountStays DEF Wires
<1>18. AnswersOK'
  <2>1. ASSUME NEW j
        PROVE  AnswersIn(j)' = AnswersIn(j) /\ \A kind \in Kind : <<"add", <<d, kind>>, entry[kind]>> \notin AnswersIn(j)
    <3>1. ASSUME NEW kind \in Kind PROVE entry[kind] # <<"update", j>>
      <4>1. entry[kind] = <<"then", kind>> \/ entry[kind] = <<"forward", <<Child, kind>>>>
        OBVIOUS
      <4>. QED BY <4>1
    <3>. QED BY <3>1 DEF AnswersIn, DoneOf
  <2>2. \A j : \A k \in DOMAIN calls : calls[k] \notin AnswersIn(j)
    <3>1. \A k \in DOMAIN calls : \E kind \in Kind : calls[k] = <<"add", <<d, kind>>, entry[kind]>>
      BY <1>5
    <3>. QED BY <2>1, <3>1
  <2>3. \A j \in Subordinates(args) : Awaited(j)' <=> Awaited(j)
    BY <1>8, <2>1 DEF Awaited
  <2>4. \A j \in Subordinates(args) : ~(DoneOf(j) = <<>> /\ <<"update", j>> = <<>>)
    OBVIOUS
  <2>. QED BY <1>7, <1>10, <2>2, <2>3, <2>4, AnswersStay DEF Wires, Inv
<1>. QED BY <1>14, <1>15, <1>16, <1>17, <1>18 DEF Wires

LEMMA ReturnPromiseWires ==
  ASSUME Inv, Inv', Wires, Keeps, NEW l \in DeferredLists, NEW d \in Given, ReturnPromise(l, d)
  PROVE  Wires'
<1>1. PICK entry : entry = [k \in Kind |-> IF k \in {} THEN <<"then", k>> ELSE <<"forward", <<Child, k>>>>]
  OBVIOUS
<1>2. /\ InThen(l) /\ Runs(l, Now) /\ todo' = Queued(PassOn(d, Child)) /\ feeds' = feeds \cup ({d} \X Kind)
      /\ UNCHANGED <<args, remaining, answers, source>>
  BY DEF ReturnPromise, whenVars
<1>3. \A k \in 1..3 : Kinds[k] \in Kind
  BY DEF Kind, Kinds, Range
<1>4. PICK calls : calls = [k \in 1..3 |-> <<"add", <<d, Kinds[k]>>, entry[Kinds[k]]>>]
  OBVIOUS
<1>5. todo' = Queued(calls)
  <2>1. PassOn(d, Child) = calls
    BY <1>1, <1>3, <1>4 DEF PassOn
  <2>. QED BY <1>2, <2>1
<1>6. AllAlike /\ NoneFires /\ source # Plain
  BY <1>2, BackInThen
<1>7. {} \in SUBSET Kind /\ feeds' = feeds \cup ({d} \X (Kind \ {})) /\ UNCHANGED <<args, remaining, answers>>
      /\ source' # Plain /\ source' = source
  BY <1>2, <1>6
<1>8. \A k \in Kind : entry[k] = IF k \in {} THEN <<"then", k>> ELSE <<"forward", <<Child, k>>>>
  BY <1>1
<1>. QED BY <1>4, <1>5, <1>6, <1>7, <1>8, AddsWires

LEMMA ThenWires ==
  ASSUME Inv, Wires, Keeps, NEW d \in Given, NEW kinds \in SUBSET Kind, Then(d, kinds)
  PROVE  Wires'
<1>1. PICK entry : entry = [k \in Kind |-> IF k \in kinds THEN <<"then", k>> ELSE <<"forward", <<Child, k>>>>]
  OBVIOUS
<1>2. \A k \in 1..3 : Kinds[k] \in Kind
  BY DEF Kind, Kinds, Range
<1>7. PICK calls : calls = [k \in 1..3 |-> <<"add", <<d, Kinds[k]>>, entry[Kinds[k]]>>]
  OBVIOUS
<1>3. /\ source = Plain /\ source' = d /\ Calls(Now) /\ feeds' = {d} \X (Kind \ kinds)
      /\ todo' = Queued(calls) /\ UNCHANGED <<args, remaining, answers>>
  BY <1>1, <1>2, <1>7 DEF Then, whenVars
<1>4. cb' = cb
  BY <1>3 DEF Calls, Becomes, Now
<1>5. AllAlike /\ NoneFires
  BY <1>4, SameAlike
<1>6. feeds' = feeds \cup ({d} \X (Kind \ kinds)) /\ source' # Plain
  BY <1>3, DeferredsAssumption DEF Wires, LinksOK, FeedsOK, Deferred
<1>8. \A k \in Kind : entry[k] = IF k \in kinds THEN <<"then", k>> ELSE <<"forward", <<Child, k>>>>
  BY <1>1
<1>. QED BY <1>3, <1>5, <1>6, <1>7, <1>8, AddsWires

(* updateFunc of when() for an argument that is resolved.                  *)
LEMMA CallUpdateWires ==
  ASSUME Inv, Wires, Keeps, NEW l \in DeferredLists, CallUpdate(l)
  PROVE  Wires'
<1>1. PICK e, i, v, say : e = Entry(l) /\ i = e[2] /\ v = cb[l].data /\ say = <<"fire", MasterDone, v>>
  OBVIOUS
<1>2. /\ Internal(l) /\ e[1] = "update" /\ l[2] = "done" /\ Runs(l, Now)
      /\ answers' = [answers EXCEPT ![i] = v] /\ remaining' = remaining - 1
      /\ todo' = IF remaining' = 0 THEN Queued(<<say>>) ELSE todo
      /\ UNCHANGED <<args, source, feeds>>
  BY <1>1 DEF CallUpdate, thenVars, NoneRemain, Answer, MasterDone
<1>3. /\ AllHad /\ NoneFires /\ LikeBut(l, e) /\ Has(cb[l], e) /\ Comes(cb[l], e)
      /\ \A x : Has(cb'[l], x) <=> Has(cb[l], x)
      /\ \A x : Once(cb[l], x) => Once(cb'[l], x)
      /\ Once(cb[l], e) => ~Comes(cb'[l], e)
  BY <1>1, <1>2, CalledBut
<1>4. v \in Values /\ v # NoValue /\ cb[l].fired /\ cb[l].firing /\ e \in Own
  <2>1. e \in Later /\ v \in Values /\ cb[l].fired /\ cb[l].firing
    BY <1>1, <1>2, InternalIs, EntriesAre
  <2>. QED BY <1>2, <2>1, ValuesAssumption DEF Later, Own
<1>5. e = <<"update", i>>
  BY <1>1, <1>2, <1>4 DEF Own
<1>6. i \in Subordinates(args) /\ l = DoneOf(i)
  <2>1. Allowed(l, e)
    BY <1>3, <1>4 DEF Wires, LinksOK, OnlyLinked
  <2>. QED BY <1>2, <1>5, <2>1 DEF Allowed, DoneOf
<1>7. i \in DOMAIN args /\ args[i] # Plain /\ l \in OutcomeList
  BY <1>6, SubordinateIs DEF Inv
<1>8. AnswerOK(i) /\ answers[i] = NoValue /\ Once(cb[l], e) /\ ~Awaited(i)
  <2>1. AnswerOK(i)
    BY <1>6 DEF Wires, AnswersOK
  <2>. QED BY <1>3, <1>5, <1>6, <2>1 DEF AnswerOK
<1>9. v = cb[l].memory
  BY <1>1, <1>4, <1>7 DEF Wires, DatasOK, DataOK
<1>10. say \in CallsOf(args) /\ say[1] = "fire"
  <2>1. MasterDone \in DeferredLists
    BY MasterIs, PassingIs
  <2>. QED BY <1>1, <1>4, <2>1 DEF CallsOf
<1>11. /\ \A x : Asked(x)' <=> (Asked(x) \/ (remaining' = 0 /\ x = say))
       /\ \A W : Single(todo, W) /\ say \notin W => Single(todo', W)
       /\ Below(todo) => Below(todo')
  <2>1. CASE remaining' = 0
    <3>1. todo' = Queued(<<say>>)
      BY <1>2, <2>1
    <3>2. /\ \A x : Asked(x)' <=> (Asked(x) \/ x = say)
          /\ \A W : Single(todo, W) /\ say \notin W => Single(todo', W)
          /\ Below(todo) => Below(todo')
      BY <1>10, <3>1, OneQueued
    <3>. QED BY <2>1, <3>2
  <2>2. CASE remaining' # 0
    <3>1. todo' = todo
      BY <1>2, <2>2
    <3>. QED BY <2>2, <3>1 DEF Asked
  <2>. QED BY <2>1, <2>2
<1>12. \A x : x[1] # "fire" => (Asked(x)' <=> Asked(x))
  BY <1>10, <1>11
<1>13. /\ \A m : Told(m) => Told(m)'
       /\ \A m : m # MasterDone /\ Told(m)' => Told(m)
       /\ Told(MasterDone)' => Told(MasterDone) \/ remaining' = 0
       /\ remaining' = 0 => Told(MasterDone)'
  <2>1. \A m, w : /\ Asked(<<"fire", m, w>>) => Asked(<<"fire", m, w>>)'
                  /\ m # MasterDone /\ Asked(<<"fire", m, w>>)' => Asked(<<"fire", m, w>>)
                  /\ Asked(<<"fire", m, w>>)' => Asked(<<"fire", m, w>>) \/ remaining' = 0
    BY <1>1, <1>11
  <2>2. remaining' = 0 => Asked(say)'
    BY <1>11
  <2>. QED BY <1>1, <1>4, <2>1, <2>2 DEF Told
<1>14. ValuesKept
  BY DEF Keeps
<1>15. /\ \A k, m : Linked(k, m) => Linked(k, m)'
       /\ \A k, x : Allowed(k, x) => Allowed(k, x)'
       /\ \A k, m : Linked(k, m)' => Linked(k, m)
  BY <1>2, LinksGrow DEF Linked, LinkedBy
<1>16. DatasOK'
  BY <1>3, DatasStay DEF Wires
<1>17. LinksOK'
  <2>1. FeedsOK'
    BY <1>2 DEF Wires, LinksOK, FeedsOK
  <2>2. OnlyLinked'
    <3>1. \A k, x : Asked(<<"add", k, x>>)' <=> Asked(<<"add", k, x>>)
      BY <1>12
    <3>. QED BY <1>3, <1>15, <3>1, OnlyLinkedStays DEF Wires, LinksOK, AllHad
  <2>3. NoneInvented'
    BY <1>3, <1>13, <1>14, <1>15, NoneInventedStays DEF Wires, LinksOK, NoneFires, Made
  <2>4. NoneLost'
    <3>1. \A k, m \in OutcomeList :
             /\ ~(k = l /\ <<"forward", m>> = e)
             /\ Asked(<<"add", k, <<"forward", m>>>>) => Asked(<<"add", k, <<"forward", m>>>>)'
      BY <1>5, <1>11
    <3>2. \A j \in Subordinates(args) : Asked(<<"observe", j>>) => Asked(<<"observe", j>>)'
      BY <1>11
    <3>. QED BY <1>2, <1>3, <1>13, <1>14, <1>15, <3>1, <3>2, NoneLostStays DEF Wires, LinksOK
  <2>. QED BY <2>1, <2>2, <2>3, <2>4 DEF LinksOK
<1>18. AsksOK'
  <2>1. Asked(<<"finish">>)' <=> Asked(<<"finish">>)
    BY <1>12
  <2>. QED BY <1>2, <1>11, <2>1 DEF Wires, AsksOK
<1>19. /\ answers \in [DOMAIN args -> Values \cup {NoValue}] /\ answers' \in [DOMAIN args -> Values \cup {NoValue}]
       /\ answers'[i] = v /\ \A j \in DOMAIN args : j # i => answers'[j] = answers[j]
  BY <1>2, <1>4, <1>7 DEF Wires, CountOK
<1>20. CountOK'
  <2>1. i \in Left /\ Left' = Left \ {i}
    <3>1. \A j : Asked(<<"observe", j>>)' <=> Asked(<<"observe", j>>)
      BY <1>12
    <3>. QED BY <1>2, <1>4, <1>7, <1>8, <1>19, <3>1 DEF Left
  <2>2. /\ remaining' = Cardinality(Left') /\ args # <<>>
        /\ ~Told(MasterDone) /\ ~cb[MasterDone].fired
    BY <1>2, <2>1, OneLess DEF Inv, Wires
  <2>3. ~cb'[MasterDone].fired
    BY <1>3, <2>2, MasterIs DEF NoneFires
  <2>4. MasterDone' = MasterDone /\ cb[MasterDone]' = cb'[MasterDone]
    BY DEF MasterDone
  <2>. QED BY <1>2, <1>13, <1>19, <2>2, <2>3, <2>4 DEF CountOK
<1>21. AnswersOK'
  <2>1. \A j : AnswersIn(j)' = AnswersIn(j) /\ say \notin AnswersIn(j) /\ \A x \in AnswersIn(j) : x[1] # "fire"
    BY <1>1, <1>2 DEF AnswersIn, DoneOf
  <2>2. \A j : Awaited(j)' <=> Awaited(j)
    BY <1>12, <2>1 DEF Awaited
  <2>3. ASSUME NEW j \in Subordinates(args) PROVE AnswerOK(j)'
    <3>1. CASE j = i
      <4>1. cb'[l].fired /\ cb'[l].memory = v
        BY <1>4, <1>7, <1>9, <1>14 DEF ValuesKept, OutcomeList
      <4>2. DoneOf(i)' = l /\ cb[DoneOf(i)]' = cb'[l]
        BY <1>2, <1>6 DEF DoneOf
      <4>3. Once(cb'[l], e) /\ ~Comes(cb'[l], e) /\ ~Awaited(i)'
        BY <1>3, <1>8, <2>2
      <4>. QED BY <1>4, <1>5, <1>19, <3>1, <4>1, <4>2, <4>3 DEF AnswerOK
    <3>2. CASE j # i
      <4>1. PICK k, x : k = DoneOf(j) /\ x = <<"update", j>>
        OBVIOUS
      <4>2. j \in DOMAIN args /\ k \in OutcomeList /\ k \in DeferredLists /\ x \in Passing /\ x \in Own
        BY <4>1, SubordinateIs DEF Inv, Own, Passing
      <4>3. x # e
        BY <1>5, <3>2, <4>1
      <4>4. Like(cb[k], cb'[k], x) /\ (cb'[k].on => cb[k].on) /\ (Has(cb'[k], x) => Has(cb[k], x))
        BY <1>3, <4>2, <4>3 DEF LikeBut, Open, AllHad
      <4>5. AnswerOK(j) /\ answers'[j] = answers[j]
        BY <1>19, <3>2, <4>2 DEF Wires, AnswersOK
      <4>. QED BY <1>2, <1>14, <2>2, <4>1, <4>2, <4>4, <4>5, AnswerStays
    <3>. QED BY <3>1, <3>2
  <2>4. ASSUME NEW j \in DOMAIN args PROVE Single(todo, AnswersIn(j))'
    BY <1>11, <2>1 DEF Wires, AnswersOK
  <2>. QED BY <1>2, <2>3, <2>4 DEF AnswersOK, Subordinates
<1>. QED BY <1>16, <1>17, <1>18, <1>20, <1>21 DEF Wires

(* when() is called.                                                       *)
LEMMA WhenWires ==
  ASSUME Inv, Wires, Keeps, NEW a \in WhenArgs, When(a)
  PROVE  Wires'
<1>1. PICK n \in Nat : n = Len(a) /\ DOMAIN a = 1..n /\ n > 0
  <2>1. a \in Seq(Given \cup {Plain}) /\ a # <<>>
    BY DeferredsAssumption
  <2>. QED BY <2>1
<1>2. PICK calls : calls = [i \in 1..(n + 1) |-> IF i \in DOMAIN a THEN <<"observe", i>> ELSE <<"finish">>]
  OBVIOUS
<1>3. /\ Calls(Now) /\ args = <<>> /\ args' = a /\ todo' = Queued(calls) /\ source = Plain
      /\ remaining' = n /\ answers' = [i \in DOMAIN a |-> NoValue] /\ UNCHANGED <<source, feeds>>
  BY <1>1, <1>2 DEF When, thenVars
<1>4. cb' = cb
  BY <1>3 DEF Calls, Becomes, Now
<1>5. feeds = {} /\ Subordinates(args) = {} /\ Left = {}
  BY <1>3 DEF Wires, LinksOK, FeedsOK, Subordinates, Left
<1>6. /\ DOMAIN calls = 1..(n + 1) /\ calls[n + 1] = <<"finish">> /\ n + 1 \in 1..(n + 1)
      /\ \A i \in 1..n : i \in 1..(n + 1) /\ calls[i] = <<"observe", i>>
      /\ \A i \in 1..(n + 1) : i = n + 1 \/ i \in 1..n
  BY <1>1, <1>2
<1>7. calls \in Seq(CallsOf(a)) /\ Len(calls) = n + 1 /\ calls # <<>>
  <2>1. \A i \in 1..(n + 1) : calls[i] \in CallsOf(a)
    BY <1>2 DEF CallsOf
  <2>2. calls \in [1..(n + 1) -> CallsOf(a)]
    BY <1>2, <2>1
  <2>3. n + 1 \in Nat
    OBVIOUS
  <2>4. calls \in Seq(CallsOf(a))
    BY <2>2, <2>3
  <2>. QED BY <1>6, <2>2, <2>3, <2>4
<1>8. todo \in Seq([depth : Nat, call : CallsOf(a)])
  <2>1. CallsOf(<<>>) \subseteq CallsOf(a)
    BY DEF CallsOf
  <2>2. PICK S, T : S = [depth : Nat, call : CallsOf(<<>>)] /\ T = [depth : Nat, call : CallsOf(a)]
    OBVIOUS
  <2>3. S \subseteq T
    BY <2>1, <2>2
  <2>4. todo \in Seq(S)
    BY <1>3, <2>2, TodoIs DEF Inv
  <2>5. todo \in Seq(T)
    BY <2>3, <2>4
  <2>. QED BY <2>2, <2>5
<1>9. /\ \A x : Asked(x)' <=> (Asked(x) \/ \E k \in DOMAIN calls : calls[k] = x)
      /\ \A W : (\A x \in W : ~Asked(x))
               /\ (\A j, k \in DOMAIN calls : calls[j] \in W /\ calls[k] \in W => j = k)
               => Single(todo', W)
      /\ Below(todo) => Below(todo')
  <2>1. /\ \A x : Asked(x)' <=> (Asked(x) \/ \E k \in DOMAIN calls : calls[k] = x)
        /\ \A W : Single(todo, W) /\ (\A k \in DOMAIN calls : calls[k] \notin W) => Single(todo', W)
        /\ \A W : (\A x \in W : ~Asked(x))
                 /\ (\A j, k \in DOMAIN calls : calls[j] \in W /\ calls[k] \in W => j = k)
                 => Single(todo', W)
        /\ Below(todo) /\ (\/ \A k \in DOMAIN calls : calls[k][1] # "observe"
                           \/ calls # <<>> /\ calls[Len(calls)] = <<"finish">>)
                 => Below(todo')
    BY <1>3, <1>7, <1>8, QueuedCalls
  <2>. QED BY <1>6, <1>7, <2>1
<1>10. /\ \A x : x[1] \in {"add", "fire"} => (Asked(x)' <=> Asked(x))
       /\ \A i \in DOMAIN a : Asked(<<"observe", i>>)'
       /\ Asked(<<"finish">>)'
  <2>1. \A k \in DOMAIN calls : calls[k][1] \in {"observe", "finish"}
    BY <1>6
  <2>. QED BY <1>1, <1>6, <1>9, <2>1
<1>11. \A m : Told(m)' <=> Told(m)
  <2>1. \A m, w : Asked(<<"fire", m, w>>)' <=> Asked(<<"fire", m, w>>)
    BY <1>10
  <2>. QED BY <2>1 DEF Told
<1>12. AllHad /\ LikeBut(<<>>, <<>>) /\ ValuesKept
  BY <1>4, SameAlike, AlikeIs DEF Keeps
<1>13. /\ \A l, m : Linked(l, m) => Linked(l, m)'
       /\ \A l, x : Allowed(l, x) => Allowed(l, x)'
  BY <1>3, LinksGrow
<1>14. /\ \A i : ~Asked(<<"observe", i>>)
       /\ \A l, i : ~Asked(<<"add", l, <<"update", i>>>>)
       /\ \A l \in DeferredLists, i \in Nat : ~Has(cb[l], <<"update", i>>)
  <2>1. \A x : Asked(x) => x \in CallsOf(<<>>)
    <3>1. PICK S : S = [depth : Nat, call : CallsOf(<<>>)]
      OBVIOUS
    <3>2. todo \in Seq(S)
      BY <1>3, <3>1, TodoIs DEF Inv
    <3>3. \A k \in DOMAIN todo : todo[k] \in S
      BY <3>2
    <3>4. \A k \in DOMAIN todo : todo[k].call \in CallsOf(<<>>)
      BY <3>1, <3>3
    <3>. QED BY <3>4 DEF Asked, AskedIn
  <2>2. DOMAIN <<>> = {}
    OBVIOUS
  <2>3. \A i : <<"observe", i>> \notin CallsOf(<<>>)
    BY <2>2 DEF CallsOf
  <2>4. ASSUME NEW l \in DeferredLists, NEW i \in Nat, Asked(<<"add", l, <<"update", i>>>>) \/ Has(cb[l], <<"update", i>>)
        PROVE  FALSE
    <3>1. PICK x : x = <<"update", i>>
      OBVIOUS
    <3>3. x \in Own
      BY <3>1 DEF Own
    <3>2. Allowed(l, x)
      BY <2>4, <3>1, <3>3 DEF Wires, LinksOK, OnlyLinked
    <3>. QED BY <1>5, <3>1, <3>2 DEF Allowed
  <2>5. ASSUME NEW l, NEW i, Asked(<<"add", l, <<"update", i>>>>) PROVE FALSE
    <3>1. <<"add", l, <<"update", i>>>> \in CallsOf(<<>>)
      BY <2>1, <2>5
    <3>2. l \in DeferredLists /\ <<"update", i>> \in Own
      BY <3>1 DEF CallsOf
    <3>3. i \in Nat
      BY <3>2 DEF Own
    <3>. QED BY <2>4, <2>5, <3>2, <3>3
  <2>. QED BY <2>1, <2>3, <2>4, <2>5
<1>15. \A l, m \in OutcomeList : ~Linked(l, m)
  BY <1>5 DEF Linked
<1>16. DatasOK'
  BY <1>12, DatasStay DEF Wires
<1>17. LinksOK'
  <2>1. FeedsOK'
    BY <1>3 DEF Wires, LinksOK, FeedsOK
  <2>2. OnlyLinked'
    <3>1. \A l, x : Asked(<<"add", l, x>>)' <=> Asked(<<"add", l, x>>)
      BY <1>10
    <3>. QED BY <1>12, <1>13, <3>1, OnlyLinkedStays DEF Wires, LinksOK, AllHad
  <2>3. NoneInvented'
    BY <1>4, <1>11, <1>12, <1>13, NoneInventedStays DEF Wires, LinksOK
  <2>4. NoneLost'
    <3>1. ASSUME NEW l \in OutcomeList, NEW m \in OutcomeList, Linked(l, m)' PROVE OnItsWay(l, m)'
      <4>1. \E i \in Subordinates(args)' : LinkedBy(l, m, i)'
        BY <1>3, <1>5, <3>1 DEF Linked
      <4>2. \A i \in Subordinates(args)' : Asked(<<"observe", i>>)'
        BY <1>3, <1>10 DEF Subordinates
      <4>. QED BY <4>1, <4>2 DEF OnItsWay
    <3>. QED BY <3>1 DEF NoneLost, OutcomeList
  <2>. QED BY <2>1, <2>2, <2>3, <2>4 DEF LinksOK
<1>18. AsksOK'
  BY <1>1, <1>3, <1>9 DEF Wires, AsksOK
<1>19. CountOK'
  <2>1. Left' = 1..n
    <3>1. \A i \in DOMAIN a : answers'[i] = NoValue
      BY <1>3
    <3>. QED BY <1>1, <1>3, <1>10, <3>1 DEF Left
  <2>2. remaining' = Cardinality(Left')
    BY <1>3, <2>1, FS_Interval
  <2>3. ~Told(MasterDone)' /\ ~cb[MasterDone]'.fired
    BY <1>3, <1>4, <1>11 DEF Wires, CountOK, MasterDone
  <2>4. MasterDone' = MasterDone /\ answers' \in [DOMAIN args' -> Values \cup {NoValue}]
    BY <1>3 DEF MasterDone
  <2>. QED BY <1>10, <2>2, <2>3, <2>4 DEF CountOK
<1>20. AnswersOK'
  <2>1. \A i : AnswersIn(i)' = {<<"observe", i>>, <<"add", <<a[i], "done">>, <<"update", i>>>>}
    BY <1>3 DEF AnswersIn, DoneOf
  <2>2. ASSUME NEW i \in DOMAIN a PROVE Single(todo, AnswersIn(i))'
    <3>1. PICK W : W = AnswersIn(i)'
      OBVIOUS
    <3>2. \A x \in W : ~Asked(x)
      BY <1>14, <2>1, <3>1
    <3>3. \A k \in DOMAIN calls : calls[k] \in W => k = i
      BY <1>6, <2>1, <3>1
    <3>4. Single(todo', W)
      BY <1>9, <3>2, <3>3
    <3>. QED BY <3>1, <3>4
  <2>3. ASSUME NEW i \in Subordinates(args)' PROVE AnswerOK(i)'
    <3>1. i \in DOMAIN a /\ i \in Nat /\ a[i] \in Given
      <4>1. i \in DOMAIN a /\ a[i] # Plain
        BY <1>3, <2>3 DEF Subordinates
      <4>. QED BY <1>1, <4>1, DeferredsAssumption
    <3>2. PICK l, x : l = <<a[i], "done">> /\ x = <<"update", i>>
      OBVIOUS
    <3>3. l \in DeferredLists
      BY <3>1, <3>2, KindIs DEF DeferredLists, Deferred
    <3>4. DoneOf(i)' = l /\ cb[DoneOf(i)]' = cb[l]
      BY <1>3, <1>4, <3>2 DEF DoneOf
    <3>5. ~Has(cb[l], x)
      BY <1>14, <3>1, <3>2, <3>3
    <3>6. Once(cb[l], x) /\ ~Comes(cb[l], x)
      BY <3>5 DEF Has, Once, Comes
    <3>7. answers'[i] = NoValue
      BY <1>3, <3>1
    <3>8. Awaited(i)'
      BY <1>10, <2>1, <3>1 DEF Awaited
    <3>. QED BY <3>2, <3>4, <3>5, <3>6, <3>7, <3>8 DEF AnswerOK
  <2>. QED BY <1>3, <2>2, <2>3 DEF AnswersOK
<1>. QED BY <1>16, <1>17, <1>18, <1>19, <1>20 DEF Wires

-----------------------------------------------------------------------------
(* It is so at the start, and stays so.                                    *)
LEMMA InitWired == Init => Wired
<1>. SUFFICES ASSUME Init PROVE Wired
  OBVIOUS
<1>1. todo = <<>> /\ args = <<>> /\ remaining = 0 /\ answers = <<>> /\ source = Plain /\ feeds = {}
  BY DEF Init
<1>2. DOMAIN todo = {} /\ DOMAIN args = {} /\ DOMAIN answers = {}
  BY <1>1
<1>3. (\A x : ~Asked(x)) /\ (\A m : ~Told(m)) /\ Below(todo)
  <2>1. \A x : ~Asked(x)
    BY <1>2 DEF Asked, AskedIn
  <2>. QED BY <1>2, <2>1 DEF Told, Below
<1>4. Subordinates(args) = {} /\ Left = {}
  BY <1>2 DEF Subordinates, Left
<1>5. \A l, m : ~Linked(l, m)
  BY <1>1, <1>4 DEF Linked
<1>6. \A l \in DeferredLists : ~cb[l].fired /\ ~cb[l].firing /\ \A x \in Own : ~Has(cb[l], x)
  BY NewListOK DEF Has, Later
<1>7. \A l \in OutcomeList : ~cb[l].fired /\ ~cb[l].firing
  BY <1>6, OutcomeLists DEF OutcomeList
<1>8. DatasOK
  BY <1>7 DEF DatasOK, DataOK
<1>9. LinksOK
  <2>1. FeedsOK
    BY <1>1 DEF FeedsOK
  <2>2. OnlyLinked
    BY <1>3, <1>6 DEF OnlyLinked
  <2>3. NoneInvented
    BY <1>3, <1>7 DEF NoneInvented, Made
  <2>4. NoneLost
    BY <1>5 DEF NoneLost
  <2>. QED BY <2>1, <2>2, <2>3, <2>4 DEF LinksOK
<1>10. CountOK
  <2>1. Cardinality({}) = 0
    BY FS_EmptySet
  <2>2. ~cb[MasterDone].fired
    BY <1>7, MasterIs
  <2>3. answers \in [DOMAIN args -> Values \cup {NoValue}]
    BY <1>1
  <2>. QED BY <1>1, <1>3, <1>4, <2>1, <2>2, <2>3 DEF CountOK
<1>11. AnswersOK
  BY <1>2, <1>4 DEF AnswersOK
<1>. QED BY <1>1, <1>3, <1>8, <1>9, <1>10, <1>11 DEF Wired, Wires, AsksOK

LEMMA ActionWires ==
  ASSUME Inv, Inv', Wires, Keeps, plain = {}, Next, ~threw'
  PROVE  Wires'
<1>1. ASSUME Work PROVE Wires'
  <2>1. Last(todo).call[1] \in {"add", "fire"}
    BY <1>1 DEF Work
  <2>. QED BY <1>1, <2>1, WorkAddWires, WorkFireWires
<1>2. CASE Observe
  BY <1>2, ObserveWires
<1>3. CASE Finish
  BY <1>3, FinishWires
<1>4. ~Throws
  BY DEF Throws
<1>5. ASSUME NEW l \in Lists, Loop(l) \/ CallHandler(l) \/ UsePlain(l)
      PROVE  Wires'
  <2>1. ~UsePlain(l)
    BY DEF UsePlain
  <2>. QED BY <1>5, <2>1, LoopWires, CallHandlerWires
<1>6. ASSUME NEW l \in DeferredLists,
             \/ CallSettle(l) \/ CallShut(l) \/ CallForward(l) \/ CallUpdate(l) \/ CallTell(l)
             \/ Resume(l) \/ CallThen(l)
      PROVE  Wires'
  BY <1>6, CallSettleWires, CallShutWires, CallForwardWires, CallUpdateWires, CallTellWires, ResumeWires,
     CallThenWires
<1>7. ASSUME NEW l \in DeferredLists, NEW v \in Values, ReturnValue(l, v) \/ (l[1] \in Given /\ Settle(l, v))
      PROVE  Wires'
  BY <1>7, ReturnValueWires, SettleWires
<1>8. ASSUME NEW l \in DeferredLists, NEW d \in Given, ReturnPromise(l, d)
      PROVE  Wires'
  BY <1>8, ReturnPromiseWires
<1>9. ASSUME NEW l \in DeferredLists, NEW f \in Fns, Handle(l, f)
      PROVE  Wires'
  BY <1>9, HandleWires
<1>10. ASSUME NEW d \in Given, NEW kinds \in SUBSET Kind, Then(d, kinds)
       PROVE  Wires'
  BY <1>10, ThenWires
<1>11. ASSUME NEW a \in WhenArgs, When(a)
       PROVE  Wires'
  BY <1>11, WhenWires
<1>. QED BY <1>1, <1>2, <1>3, <1>4, <1>5, <1>6, <1>7, <1>8, <1>9, <1>10, <1>11 DEF Next

(* A callback that has thrown is not forgotten.                            *)
LEMMA ThrewStays ==
  ASSUME [Next]_vars, threw \in BOOLEAN
  PROVE  threw => threw'
<1>1. CASE UNCHANGED vars
  BY <1>1 DEF vars, heardVars
<1>2. CASE Work \/ Observe \/ Finish \/ Throws
  BY <1>2 DEF Work, Observe, Finish, Throws, heardVars
<1>3. ASSUME NEW l \in Lists, Loop(l) \/ CallHandler(l) \/ UsePlain(l) PROVE threw' = threw
  BY <1>3 DEF Loop, CallHandler, UsePlain, heardVars
<1>4. ASSUME NEW l \in DeferredLists,
             \/ CallSettle(l) \/ CallShut(l) \/ CallForward(l) \/ CallUpdate(l) \/ CallTell(l)
             \/ Resume(l) \/ CallThen(l)
      PROVE  threw' = threw
  BY <1>4 DEF CallSettle, CallShut, CallForward, CallUpdate, CallTell, Resume, CallThen, heardVars
<1>5. ASSUME NEW l \in DeferredLists, NEW v \in Values, ReturnValue(l, v) \/ Settle(l, v)
      PROVE  threw' = threw
  BY <1>5 DEF ReturnValue, Settle, heardVars
<1>6. ASSUME NEW l \in DeferredLists, NEW d \in Given, ReturnPromise(l, d) PROVE threw' = threw
  BY <1>6 DEF ReturnPromise, heardVars
<1>7. ASSUME NEW l \in DeferredLists, NEW f \in Fns, Handle(l, f) PROVE threw' = threw
  BY <1>7 DEF Handle
<1>8. ASSUME NEW d \in Given, NEW kinds \in SUBSET Kind, Then(d, kinds) PROVE threw' = threw
  BY <1>8 DEF Then, heardVars
<1>9. ASSUME NEW a \in WhenArgs, When(a) PROVE threw' = threw
  BY <1>9 DEF When, heardVars
<1>. QED BY <1>1, <1>2, <1>3, <1>4, <1>5, <1>6, <1>7, <1>8, <1>9 DEF Next

LEMMA WiredInductive == IInv /\ Wired /\ [Next]_vars => Wired'
<1>. SUFFICES ASSUME IInv, Wired, [Next]_vars PROVE Wired'
  OBVIOUS
<1>1. plain' = plain
  BY PlainStays
<1>2. CASE plain = {}
  <2>1. Inv /\ threw \in BOOLEAN
    BY <1>2 DEF IInv, Inv, HeardOK
  <2>2. Inv' /\ Keeps
    BY <1>2, <2>1, ActionOK, StutterOK
  <2>3. ASSUME ~threw' PROVE Wires'
    <3>1. Wires
      BY <1>2, <2>1, <2>3, ThrewStays DEF Wired
    <3>2. CASE UNCHANGED vars
      <4>1. cb' = cb /\ UNCHANGED <<todo, args, remaining, answers, feeds, source>>
        BY <3>2 DEF vars, callbackVars, whenVars, thenVars
      <4>2. AllAlike /\ \A m \in Made : cb'[m].fired => cb[m].fired
        BY <4>1, SameAlike
      <4>. QED BY <2>1, <2>2, <3>1, <4>1, <4>2, NothingPassed
    <3>3. CASE Next
      BY <1>2, <2>1, <2>2, <2>3, <3>1, <3>3, ActionWires
    <3>. QED BY <3>2, <3>3
  <2>. QED BY <1>1, <1>2, <2>3 DEF Wired
<1>3. CASE plain # {}
  <2>1. args = <<>> /\ feeds = {} /\ Untouched /\ plain \subseteq Lists \ DeferredLists
    BY <1>3 DEF Wired, IInv
  <2>2. args' = args /\ feeds' = feeds
    <3>1. CASE UNCHANGED vars
      BY <3>1 DEF vars, whenVars, thenVars
    <3>2. CASE Next
      <4>1. Throws \/ \E l \in Lists : Loop(l) \/ CallHandler(l) \/ UsePlain(l)
        BY <1>3, <2>1, <3>2, PlainOnly
      <4>. QED BY <4>1 DEF Throws, Loop, CallHandler, UsePlain, whenVars, thenVars
    <3>. QED BY <3>1, <3>2
  <2>. QED BY <1>1, <1>3, <2>1, <2>2 DEF Wired
<1>. QED BY <1>2, <1>3

LEMMA AlwaysWired == Spec => []Wired
<1>1. IInv /\ Wired /\ [Next]_vars => Wired'
  BY WiredInductive
<1>2. Init => Wired
  BY InitWired
<1>. QED BY <1>1, <1>2, AlwaysIInv, PTL DEF Spec

-----------------------------------------------------------------------------
(* What that says once jQuery's code is done.                              *)
LEMMA QuietIs ==
  ASSUME Inv, Quiet
  PROVE  /\ \A x : ~Asked(x)
         /\ \A m : ~Told(m)
         /\ \A l \in OutcomeList :
              /\ cb[l].fired <=> state[l[1]] = Outcome(l[2])
              /\ cb[l].fired => cb[l].on /\ \A x : ~Comes(cb[l], x)
<1>1. run = <<>> /\ ~Working /\ ~threw /\ Fits(todo, run, cb, args)
  BY DEF Quiet, Inv, TodoOK
<1>2. todo = <<>>
  <2>. SUFFICES ASSUME todo # <<>> PROVE FALSE
    OBVIOUS
  <2>1. Last(todo) = todo[Len(todo)] /\ Len(todo) \in DOMAIN todo
    BY <1>1, FitsFront
  <2>2. PICK n : n = Len(todo) /\ n \in DOMAIN todo /\ Last(todo) = todo[n]
    BY <2>1
  <2>3. todo[n].depth <= Len(run)
    BY <1>1, <2>2 DEF Fits
  <2>4. todo[n].depth \in Nat
    <3>1. PICK T : T = [depth : Nat, call : CallsOf(args)]
      OBVIOUS
    <3>2. todo \in Seq(T)
      BY <3>1, TodoIs DEF Inv
    <3>3. todo[n] \in T
      BY <2>2, <3>2
    <3>. QED BY <3>1, <3>3
  <2>5. Len(run) = 0
    BY <1>1
  <2>6. Last(todo).depth = Len(run)
    BY <2>2, <2>3, <2>4, <2>5
  <2>. QED BY <1>1, <2>6 DEF Working
<1>3. \A x : ~Asked(x)
  <2>1. DOMAIN todo = {}
    BY <1>2
  <2>. QED BY <2>1 DEF Asked, AskedIn
<1>4. ASSUME NEW l \in OutcomeList
      PROVE  /\ cb[l].fired <=> state[l[1]] = Outcome(l[2])
             /\ cb[l].fired => cb[l].on /\ \A x : ~Comes(cb[l], x)
  <2>1. l \in Deferred \X Outcomes /\ l \in DeferredLists /\ l[2] # "progress"
    BY OutcomeLists DEF OutcomeList
  <2>2. ~cb[l].firing
    <3>1. DOMAIN run = {}
      BY <1>1
    <3>. QED BY <1>1, <2>1, <3>1 DEF Inv, RunOK
  <2>3. cb[l].fired <=> state[l[1]] = Outcome(l[2])
    BY <2>1, <2>2, SettledHasFired, NotItsOutcome
  <2>4. ListOK(l, cb[l])
    BY <2>1 DEF Inv, ListsOK
  <2>5. cb[l].fired => cb[l].on /\ cb[l].fns = <<>>
    BY <2>1, <2>2, <2>4 DEF ListOK, ClosureOK, CallbacksOK
  <2>6. ASSUME cb[l].fns = <<>>, NEW x PROVE ~Comes(cb[l], x)
    <3>1. DOMAIN cb[l].fns = {}
      BY <2>6
    <3>. QED BY <3>1 DEF Comes
  <2>. QED BY <2>3, <2>5, <2>6
<1>. QED BY <1>3, <1>4 DEF Told

(* A link has passed on what has happened.                                 *)
LEMMA LinkPassed ==
  ASSUME Inv, Quiet, Wires, NEW l \in OutcomeList, NEW m \in OutcomeList, Linked(l, m), cb[l].fired
  PROVE  Fired(m)
<1>1. cb[l].on /\ \A x : ~Comes(cb[l], x)
  BY QuietIs
<1>2. OnItsWay(l, m)
  BY <1>1 DEF Wires, LinksOK, NoneLost
<1>. QED BY <1>1, <1>2, QuietIs DEF OnItsWay

LEMMA WhenHasAnswered ==
  ASSUME Inv, Quiet, Wires, args # <<>>
  PROVE  WhenAnswers
<1>1. /\ (\A x : ~Asked(x)) /\ (\A m : ~Told(m))
      /\ \A l \in OutcomeList :
           /\ cb[l].fired <=> state[l[1]] = Outcome(l[2])
           /\ cb[l].fired => cb[l].on /\ \A x : ~Comes(cb[l], x)
  BY QuietIs
<1>2. ASSUME NEW i \in Subordinates(args)
      PROVE  /\ state[args[i]] = "resolved" <=> cb[DoneOf(i)].fired
             /\ state[args[i]] = "rejected" <=> cb[<<args[i], "fail">>].fired
             /\ state[args[i]] \in {"pending", "resolved", "rejected"}
  <2>1. DoneOf(i) \in OutcomeList /\ <<args[i], "fail">> \in OutcomeList /\ args[i] \in Given
    BY SubordinateIs DEF Inv
  <2>2. PICK l \in OutcomeList : l = DoneOf(i)
    BY <2>1
  <2>3. PICK m \in OutcomeList : m = <<args[i], "fail">>
    BY <2>1
  <2>4. l[1] = args[i] /\ l[2] = "done" /\ m[1] = args[i] /\ m[2] = "fail"
    BY <2>2, <2>3 DEF DoneOf
  <2>5. /\ cb[l].fired <=> state[args[i]] = "resolved"
        /\ cb[m].fired <=> state[args[i]] = "rejected"
    BY <1>1, <2>4 DEF Outcome
  <2>6. state[args[i]] \in {"pending", "resolved", "rejected"}
    BY <2>1 DEF Inv, StateOK, Deferred
  <2>. QED BY <2>2, <2>3, <2>5, <2>6
<1>3. /\ cb[MasterDone].fired <=> state[Master] = "resolved"
      /\ cb[MasterFail].fired <=> state[Master] = "rejected"
      /\ state[Master] \in {"pending", "resolved", "rejected"}
  <2>1. MasterDone[1] = Master /\ MasterDone[2] = "done" /\ MasterFail[1] = Master /\ MasterFail[2] = "fail"
    BY DEF MasterDone, MasterFail
  <2>2. state[Master] \in {"pending", "resolved", "rejected"}
    BY DEF Inv, StateOK, Deferred
  <2>3. /\ cb[MasterDone].fired <=> state[MasterDone[1]] = Outcome(MasterDone[2])
        /\ cb[MasterFail].fired <=> state[MasterFail[1]] = Outcome(MasterFail[2])
    BY <1>1, MasterIs
  <2>. QED BY <2>1, <2>2, <2>3 DEF Outcome
<1>4. (Fired(MasterDone) <=> cb[MasterDone].fired \/ cb[MasterFail].fired) /\ (Fired(MasterFail) => Fired(MasterDone))
  BY DEF Fired, MasterDone, MasterFail
<1>5. ASSUME NEW i \in Subordinates(args), state[args[i]] = "rejected" PROVE Fired(MasterDone)
  <2>1. PICK l \in OutcomeList : l = <<args[i], "fail">>
    BY SubordinateIs DEF Inv
  <2>2. Linked(l, MasterFail)
    BY <2>1 DEF Linked, LinkedBy
  <2>3. cb[l].fired
    BY <1>2, <1>5, <2>1
  <2>. QED BY <1>4, <2>2, <2>3, MasterIs, LinkPassed
<1>6. ASSUME cb[MasterFail].fired PROVE \E i \in Subordinates(args) : state[args[i]] = "rejected"
  <2>1. Caused(MasterFail)
    BY <1>6, MasterIs DEF Wires, LinksOK, NoneInvented
  <2>2. PICK l \in OutcomeList : Linked(l, MasterFail) /\ cb[l].fired
    BY <2>1 DEF Caused
  <2>3. MasterFail # <<Child, l[2]>>
    BY DeferredsAssumption DEF MasterFail
  <2>4. PICK i \in Subordinates(args) : l = <<args[i], "fail">>
    BY <2>2, <2>3 DEF Linked, LinkedBy
  <2>. QED BY <1>2, <2>2, <2>4
<1>7. IsFiniteSet(Left) /\ remaining = Cardinality(Left)
  <2>1. PICK n \in Nat : DOMAIN args = 1..n
    BY DEF Inv, TodoOK
  <2>2. IsFiniteSet(1..n) /\ Left \subseteq 1..n
    BY <2>1, FS_Interval DEF Left
  <2>. QED BY <2>2, FS_Subset DEF Wires, CountOK
<1>8. ASSUME cb[MasterDone].fired, NEW i \in Subordinates(args) PROVE state[args[i]] = "resolved"
  <2>1. remaining = 0
    BY <1>8 DEF Wires, CountOK
  <2>2. Left = {}
    BY <1>7, <2>1, FS_EmptySet
  <2>3. answers[i] # NoValue
    BY <2>2 DEF Left, Subordinates
  <2>4. cb[DoneOf(i)].fired
    BY <2>3 DEF Wires, AnswersOK, AnswerOK
  <2>. QED BY <1>2, <2>4
<1>9. ASSUME NEW i \in Subordinates(args), state[args[i]] = "resolved"
      PROVE  answers[i] # NoValue /\ answers[i] = cb[DoneOf(i)].memory
  <2>1. PICK l \in OutcomeList : l = DoneOf(i)
    BY SubordinateIs DEF Inv
  <2>2. cb[l].fired /\ cb[l].on /\ \A x : ~Comes(cb[l], x)
    BY <1>1, <1>2, <1>9, <2>1
  <2>3. ~Awaited(i)
    BY <1>1 DEF Awaited
  <2>. QED BY <2>1, <2>2, <2>3 DEF Wires, AnswersOK, AnswerOK
<1>10. ASSUME \A i \in Subordinates(args) : state[args[i]] = "resolved" PROVE Fired(MasterDone)
  <2>1. Left = {}
    BY <1>1, <1>9, <1>10 DEF Left, Subordinates
  <2>2. remaining = 0
    BY <1>7, <2>1, FS_EmptySet
  <2>. QED BY <1>1, <2>2 DEF Wires, CountOK
<1>11. PICK states : states = {state[args[i]] : i \in Subordinates(args)}
  OBVIOUS
<1>12. state[Master] = IF "rejected" \in states THEN "rejected"
                       ELSE IF "pending" \in states THEN "pending" ELSE "resolved"
  <2>1. CASE "rejected" \in states
    <3>1. PICK i \in Subordinates(args) : state[args[i]] = "rejected"
      BY <1>11, <2>1
    <3>2. cb[MasterFail].fired
      BY <1>4, <1>5, <1>8, <3>1
    <3>. QED BY <1>3, <2>1, <3>2
  <2>2. CASE "rejected" \notin states /\ "pending" \in states
    <3>1. PICK i \in Subordinates(args) : state[args[i]] = "pending"
      BY <1>11, <2>2
    <3>2. ~cb[MasterDone].fired /\ ~cb[MasterFail].fired
      BY <1>6, <1>8, <1>11, <2>2, <3>1
    <3>. QED BY <1>3, <2>2, <3>2
  <2>3. CASE "rejected" \notin states /\ "pending" \notin states
    <3>1. \A i \in Subordinates(args) : state[args[i]] = "resolved"
      BY <1>2, <1>11, <2>3
    <3>2. cb[MasterDone].fired
      BY <1>4, <1>6, <1>10, <3>1
    <3>. QED BY <1>3, <2>3, <3>2
  <2>. QED BY <2>1, <2>2, <2>3
<1>. QED BY <1>9, <1>11, <1>12 DEF WhenAnswers, DoneOf

LEMMA ThenHasFollowed ==
  ASSUME Inv, Quiet, Wires
  PROVE  ThenFollows
<1>1. PICK from : from = {m \in feeds : m[2] # "progress" /\ state[m[1]] = Outcome(m[2])}
  OBVIOUS
<1>2. PICK fates : fates = {Outcome(l[2]) : l \in from}
  OBVIOUS
<1>3. ASSUME NEW k \in Outcomes, cb[<<Child, k>>].fired PROVE Outcome(k) \in fates
  <2>1. PICK m : m = <<Child, k>> /\ m \in Made /\ m \in OutcomeList /\ m # MasterDone /\ m # MasterFail
    BY <1>3, MasterIs
  <2>2. Caused(m)
    BY <1>3, <2>1 DEF Wires, LinksOK, NoneInvented
  <2>3. PICK l \in OutcomeList : Linked(l, m) /\ cb[l].fired
    BY <2>2 DEF Caused
  <2>4. l \in feeds /\ l[2] = k
    BY <2>1, <2>3 DEF Linked, LinkedBy
  <2>5. l[2] # "progress" /\ state[l[1]] = Outcome(l[2])
    BY <2>3, QuietIs, OutcomeLists DEF OutcomeList
  <2>6. l \in from
    BY <1>1, <2>4, <2>5
  <2>. QED BY <1>2, <2>4, <2>6
<1>4. ASSUME NEW l \in from PROVE \E k \in Outcomes : cb[<<Child, k>>].fired
  <2>1. l \in feeds /\ l[2] # "progress" /\ state[l[1]] = Outcome(l[2]) /\ l \in DeferredLists
    BY <1>1 DEF Wires, LinksOK, FeedsOK
  <2>2. l \in OutcomeList /\ l[2] \in Outcomes
    BY <2>1, ListsOfDeferred DEF OutcomeList
  <2>3. cb[l].fired
    BY <2>1, <2>2, QuietIs
  <2>4. PICK m : m = <<Child, l[2]>> /\ m \in OutcomeList
    BY <2>2, MasterIs
  <2>5. Fired(m)
    BY <2>1, <2>2, <2>3, <2>4, LinkPassed DEF Linked
  <2>. QED BY <2>4, <2>5 DEF Fired, Outcomes
<1>5. /\ cb[<<Child, "done">>].fired <=> state[Child] = "resolved"
      /\ cb[<<Child, "fail">>].fired <=> state[Child] = "rejected"
      /\ state[Child] \in {"pending", "resolved", "rejected"}
  <2>1. ASSUME NEW k \in Outcomes PROVE cb[<<Child, k>>].fired <=> state[Child] = Outcome(k)
    <3>1. PICK m \in OutcomeList : m = <<Child, k>>
      BY <2>1, MasterIs
    <3>2. m[1] = Child /\ m[2] = k
      BY <3>1
    <3>. QED BY <3>1, <3>2, QuietIs
  <2>2. state[Child] \in {"pending", "resolved", "rejected"}
    BY DEF Inv, StateOK, Deferred
  <2>. QED BY <2>1, <2>2 DEF Outcomes, Outcome
<1>6. IF fates = {} THEN state[Child] = "pending" ELSE state[Child] \in fates
  <2>1. CASE fates = {}
    <3>1. ~cb[<<Child, "done">>].fired /\ ~cb[<<Child, "fail">>].fired
      BY <1>3, <2>1 DEF Outcomes
    <3>. QED BY <1>5, <2>1, <3>1
  <2>2. CASE fates # {}
    <3>1. PICK l \in from : TRUE
      BY <1>2, <2>2
    <3>2. PICK k \in Outcomes : cb[<<Child, k>>].fired
      BY <1>4
    <3>3. Outcome(k) \in fates /\ state[Child] = Outcome(k)
      BY <1>3, <1>5, <3>2 DEF Outcomes, Outcome
    <3>. QED BY <2>2, <3>3
  <2>. QED BY <2>1, <2>2
<1>. QED BY <1>1, <1>2, <1>6 DEF ThenFollows

(* Once jQuery's code is done and no callback has thrown, the deferred of  *)
(* when() is resolved if all it was given are, with the value of each in   *)
(* its place, rejected if one of them is, and pending otherwise, and that  *)
(* of then() has the outcome of a list that was passed on to it, as soon   *)
(* as one has an outcome: whatever was settled, by whom, while when() was  *)
(* still looking at its arguments or a handler was running.                *)
THEOREM AnswersFollow == Spec => []Answers
<1>1. IInv /\ Wired => Answers
  <2>. SUFFICES ASSUME IInv, Wired, Quiet PROVE WhenAnswers /\ ThenFollows
    BY DEF Answers
  <2>1. CASE plain = {}
    <3>1. Inv /\ Wires
      BY <2>1 DEF IInv, Wired, Quiet
    <3>2. WhenAnswers
      BY <3>1, WhenHasAnswered DEF WhenAnswers
    <3>. QED BY <3>1, <3>2, ThenHasFollowed
  <2>2. CASE plain # {}
    <3>1. args = <<>> /\ feeds = {} /\ state[Child] = "pending"
      BY <2>2 DEF IInv, Wired, Untouched, Deferred
    <3>2. {Outcome(l[2]) : l \in {m \in feeds : m[2] # "progress" /\ state[m[1]] = Outcome(m[2])}} = {}
      BY <3>1
    <3>3. ThenFollows
      BY <3>1, <3>2 DEF ThenFollows
    <3>. QED BY <3>1, <3>3 DEF WhenAnswers
  <2>. QED BY <2>1, <2>2
<1>. QED BY <1>1, AlwaysIInv, AlwaysWired, PTL

-----------------------------------------------------------------------------
(* Induction over natural numbers, on the set of those of which something  *)
(* holds.                                                                  *)
LEMMA Least ==
  ASSUME NEW S, S \subseteq Nat, S # {}
  PROVE  \E n \in S : \A m \in S : n <= m
<1>1. PICK R : R = {ss \in Nat \X Nat : ss[1] < ss[2]}
  OBVIOUS
<1>2. IsWellFoundedOn(R, Nat)
  BY <1>1, NatLessThanWellFounded DEF OpToRel
<1>3. PICK n \in S : \A m \in S : ~(<<m, n>> \in R)
  BY <1>2, WFMin
<1>4. ASSUME NEW m \in S PROVE n <= m
  <2>1. m \in Nat /\ n \in Nat /\ <<m, n>> \in Nat \X Nat /\ <<m, n>>[1] = m /\ <<m, n>>[2] = n
    OBVIOUS
  <2>2. ~(m < n)
    BY <1>1, <1>3, <2>1
  <2>. QED BY <2>1, <2>2
<1>. QED BY <1>4

LEMMA UpTo ==
  ASSUME NEW N \in Nat, NEW T, 0 \in T, \A n \in 1..N : n - 1 \in T => n \in T
  PROVE  \A n \in 0..N : n \in T
<1>1. PICK S : S = {n \in 0..N : n \notin T}
  OBVIOUS
<1>2. CASE S # {}
  <2>1. S \subseteq Nat
    BY <1>1
  <2>2. PICK n \in S : \A m \in S : n <= m
    BY <1>2, <2>1, Least
  <2>3. n \in 1..N /\ n - 1 \in 0..N
    BY <1>1, <2>2
  <2>4. n - 1 \in T
    BY <1>1, <2>2, <2>3
  <2>. QED BY <1>1, <2>2, <2>3, <2>4
<1>. QED BY <1>1, <1>2

(* How the sequence without a value comes about, place by place.           *)
Sifts(k, s, e) ==
  k[0] = <<>> /\ \A n \in 1..Len(s) : k[n] = IF s[n] = e THEN k[n - 1] ELSE Append(k[n - 1], s[n])

LEMMA WithoutIs ==
  ASSUME NEW s, Len(s) \in Nat, NEW e
  PROVE  \E k : Sifts(k, s, e) /\ Without(s, e) = k[Len(s)]
<1>. DEFINE Step(k, n) == IF n = 0 THEN <<>> ELSE IF s[n] = e THEN k[n - 1] ELSE Append(k[n - 1], s[n])
            Sifted(N) == \E k : k = [n \in 0..N |-> Step(k, n)]
<1>1. PICK T : T = {N \in Nat : Sifted(N)}
  OBVIOUS
<1>2. 0 \in T
  <2>1. PICK k : k = [n \in 0..0 |-> <<>>]
    OBVIOUS
  <2>2. k = [n \in 0..0 |-> Step(k, n)]
    BY <2>1
  <2>. QED BY <1>1, <2>2
<1>3. ASSUME NEW N \in 1..Len(s), N - 1 \in T PROVE N \in T
  <2>1. PICK k : k = [n \in 0..(N - 1) |-> Step(k, n)]
    BY <1>1, <1>3
  <2>2. PICK x : x = Step(k, N)
    OBVIOUS
  <2>3. PICK g : g = [n \in 0..N |-> IF n = N THEN x ELSE k[n]]
    OBVIOUS
  <2>4. g = [n \in 0..N |-> g[n]] /\ \A n \in 0..(N - 1) : g[n] = k[n]
    BY <2>3
  <2>5. ASSUME NEW n \in 0..N PROVE g[n] = Step(g, n)
    <3>1. g[n] = Step(k, n)
      <4>1. CASE n = N
        BY <2>2, <2>3, <4>1
      <4>2. CASE n # N
        <5>1. n \in 0..(N - 1) /\ k[n] = Step(k, n)
          <6>1. n \in 0..(N - 1)
            BY <4>2
          <6>. HIDE DEF Step
          <6>. QED BY <2>1, <6>1, Zenon
        <5>. QED BY <2>4, <5>1
      <4>. QED BY <4>1, <4>2
    <3>2. n # 0 => g[n - 1] = k[n - 1]
      <4>1. n # 0 => n - 1 \in 0..(N - 1)
        OBVIOUS
      <4>. QED BY <2>4, <4>1
    <3>. QED BY <3>1, <3>2
  <2>6. g = [n \in 0..N |-> Step(g, n)]
    BY <2>4, <2>5, Zenon
  <2>7. Sifted(N) /\ N \in Nat
    BY <2>6
  <2>. QED BY <1>1, <2>7
<1>4. Sifted(Len(s))
  <2>1. \A N \in 1..Len(s) : N - 1 \in T => N \in T
    BY <1>3
  <2>2. \A N \in 0..Len(s) : N \in T
    <3>. HIDE DEF Sifted
    <3>. QED BY <1>2, <2>1, UpTo
  <2>3. Len(s) \in 0..Len(s)
    OBVIOUS
  <2>. HIDE DEF Sifted
  <2>. QED BY <1>1, <2>2, <2>3
<1>5. PICK k : k = [n \in 0..Len(s) |-> Step(k, n)] /\ Without(s, e) = k[Len(s)]
  <2>1. PICK k : k = CHOOSE g : g = [n \in 0..Len(s) |-> Step(g, n)]
    BY Zenon
  <2>2. k = [n \in 0..Len(s) |-> Step(k, n)]
    BY <1>4, <2>1
  <2>3. Without(s, e) = k[Len(s)]
    BY <2>1 DEF Without
  <2>. QED BY <2>2, <2>3
<1>6. Sifts(k, s, e)
  <2>1. \A n \in 0..Len(s) : k[n] = Step(k, n)
    BY <1>5
  <2>. QED BY <2>1 DEF Sifts
<1>. QED BY <1>5, <1>6

LEMMA SiftsCount ==
  ASSUME NEW S, NEW s \in Seq(S), NEW e, NEW k, Sifts(k, s, e)
  PROVE  \A n \in 0..Len(s) : /\ k[n] \in Seq(S)
                              /\ Cardinality({p \in 1..n : s[p] = e}) \in Nat
                              /\ Len(k[n]) = n - Cardinality({p \in 1..n : s[p] = e})
<1>. DEFINE Within(n) == {p \in 1..n : s[p] = e}
            Counts(n) == k[n] \in Seq(S) /\ Cardinality(Within(n)) \in Nat
                         /\ Len(k[n]) = n - Cardinality(Within(n))
<1>1. PICK T : T = {n \in 0..Len(s) : Counts(n)}
  OBVIOUS
<1>2. 0 \in T
  <2>1. Within(0) = {}
    OBVIOUS
  <2>2. Cardinality(Within(0)) = 0
    BY <2>1, FS_EmptySet
  <2>3. k[0] = <<>>
    BY DEF Sifts
  <2>4. Counts(0)
    <3>. HIDE DEF Within
    <3>. QED BY <2>2, <2>3
  <2>. HIDE DEF Counts
  <2>. QED BY <1>1, <2>4
<1>3. ASSUME NEW n \in 1..Len(s), n - 1 \in T PROVE n \in T
  <2>1. Counts(n - 1)
    <3>. HIDE DEF Counts
    <3>. QED BY <1>1, <1>3
  <2>2. k[n] = IF s[n] = e THEN k[n - 1] ELSE Append(k[n - 1], s[n])
    BY DEF Sifts
  <2>3. IsFiniteSet(Within(n - 1)) /\ n \notin Within(n - 1)
    <3>1. IsFiniteSet(1..(n - 1))
      BY FS_Interval
    <3>. QED BY <3>1, FS_Subset
  <2>4. CASE s[n] = e
    <3>1. Within(n) = Within(n - 1) \cup {n}
      BY <2>4
    <3>2. Cardinality(Within(n)) = Cardinality(Within(n - 1)) + 1
      <4>. HIDE DEF Within
      <4>. QED BY <2>3, <3>1, FS_AddElement
    <3>3. Counts(n)
      <4>. HIDE DEF Within
      <4>. QED BY <2>1, <2>2, <2>4, <3>2
    <3>. HIDE DEF Counts
    <3>. QED BY <1>1, <3>3
  <2>5. CASE s[n] # e
    <3>1. Within(n) = Within(n - 1)
      BY <2>5
    <3>2. k[n] = Append(k[n - 1], s[n]) /\ s[n] \in S
      BY <2>2, <2>5
    <3>3. Counts(n)
      <4>. HIDE DEF Within
      <4>. QED BY <2>1, <3>1, <3>2
    <3>. HIDE DEF Counts
    <3>. QED BY <1>1, <3>3
  <2>. QED BY <2>4, <2>5
<1>4. \A n \in 0..Len(s) : n \in T
  <2>1. (\A n \in 1..Len(s) : n - 1 \in T => n \in T) /\ Len(s) \in Nat
    BY <1>3
  <2>. QED BY <1>2, <2>1, UpTo
<1>5. \A n \in 0..Len(s) : Counts(n)
  <2>. HIDE DEF Counts
  <2>. QED BY <1>1, <1>4
<1>. QED BY <1>5

LEMMA SiftsAgree ==
  ASSUME NEW s, NEW t, NEW e, NEW k, NEW g, Sifts(k, s, e), Sifts(g, t, e), NEW N \in Nat,
         Len(s) \in Nat, Len(t) \in Nat, N <= Len(s), N <= Len(t), \A p \in 1..N : s[p] = t[p]
  PROVE  k[N] = g[N]
<1>1. PICK T : T = {n \in 0..N : k[n] = g[n]}
  OBVIOUS
<1>2. 0 \in T
  BY <1>1 DEF Sifts
<1>3. ASSUME NEW n \in 1..N, n - 1 \in T PROVE n \in T
  <2>1. k[n - 1] = g[n - 1] /\ s[n] = t[n]
    BY <1>1, <1>3
  <2>2. n \in 1..Len(s) /\ n \in 1..Len(t)
    OBVIOUS
  <2>3. k[n] = g[n]
    BY <2>1, <2>2 DEF Sifts
  <2>. QED BY <1>1, <2>3
<1>4. \A n \in 0..N : n \in T
  <2>1. \A n \in 1..N : n - 1 \in T => n \in T
    BY <1>3
  <2>. QED BY <1>2, <2>1, UpTo
<1>. QED BY <1>1, <1>4

Joined(a, b) == a \o b
Grown(a, x) == Append(a, x)
LEMMA JoinedGrows ==
  ASSUME NEW S, NEW a \in Seq(S), NEW b \in Seq(S), NEW x \in S
  PROVE  Grown(Joined(a, b), x) = Joined(a, Grown(b, x))
BY DEF Joined, Grown

IsRest(t, s, T) == Len(t) = Len(s) - T /\ \A p \in 1..Len(t) : t[p] = s[T + p]
LEMMA SiftsOnward ==
  ASSUME NEW S, NEW s \in Seq(S), NEW e, NEW k, Sifts(k, s, e), NEW T \in 0..Len(s),
         NEW t \in Seq(S), IsRest(t, s, T), NEW g, Sifts(g, t, e)
  PROVE  k[Len(s)] = Joined(k[T], g[Len(t)])
<1>1. PICK A : A = {n \in 0..Len(t) : k[T + n] = Joined(k[T], g[n])}
  OBVIOUS
<1>2. \A n \in 0..Len(s) : k[n] \in Seq(S)
  BY SiftsCount
<1>3. \A n \in 0..Len(t) : g[n] \in Seq(S)
  BY SiftsCount
<1>4. 0 \in A
  <2>1. g[0] = <<>> /\ k[T] \in Seq(S)
    BY <1>2 DEF Sifts
  <2>2. k[T + 0] = Joined(k[T], g[0]) /\ 0 \in 0..Len(t)
    BY <2>1 DEF Joined
  <2>. QED BY <1>1, <2>2
<1>5. ASSUME NEW n \in 1..Len(t), NEW j \in A, j = n - 1 PROVE n \in A
  <2>1. PICK m : m = T + n
    OBVIOUS
  <2>2. m \in 1..Len(s) /\ m - 1 = T + (n - 1) /\ m - 1 \in 0..Len(s) /\ n - 1 \in 0..Len(t)
    BY <2>1 DEF IsRest
  <2>3. k[m - 1] = Joined(k[T], g[n - 1]) /\ s[m] = t[n] /\ t[n] \in S
    <3>1. k[T + j] = Joined(k[T], g[j])
      BY <1>1, <1>5, Zenon
    <3>2. m - 1 = T + j /\ j = n - 1
      BY <1>5, <2>1
    <3>3. s[T + n] = t[n] /\ t[n] \in S
      BY <1>5 DEF IsRest
    <3>. QED BY <2>1, <3>1, <3>2, <3>3
  <2>4. k[m] = IF s[m] = e THEN k[m - 1] ELSE Append(k[m - 1], s[m])
    BY <2>2 DEF Sifts
  <2>5. g[n] = IF t[n] = e THEN g[n - 1] ELSE Append(g[n - 1], t[n])
    BY DEF Sifts
  <2>6. k[T] \in Seq(S) /\ g[n - 1] \in Seq(S)
    BY <1>2, <1>3, <2>2
  <2>7. k[m] = Joined(k[T], g[n])
    <3>1. CASE s[m] = e
      BY <2>3, <2>4, <2>5, <3>1
    <3>2. CASE s[m] # e
      <4>1. Grown(Joined(k[T], g[n - 1]), t[n]) = Joined(k[T], Grown(g[n - 1], t[n]))
        BY <2>3, <2>6, JoinedGrows
      <4>. QED BY <2>3, <2>4, <2>5, <3>2, <4>1 DEF Grown
    <3>. QED BY <3>1, <3>2
  <2>8. n \in 0..Len(t) /\ k[T + n] = Joined(k[T], g[n])
    BY <2>1, <2>7
  <2>. QED BY <1>1, <2>8
<1>6. \A n \in 0..Len(t) : n \in A
  <2>1. (\A n \in 1..Len(t) : n - 1 \in A => n \in A) /\ Len(t) \in Nat
    BY <1>5
  <2>. QED BY <1>4, <2>1, UpTo
<1>7. Len(t) \in 0..Len(t) /\ T + Len(t) = Len(s)
  BY DEF IsRest
<1>. QED BY <1>1, <1>6, <1>7

(* How often a value is among the first so many.                           *)
Hits(s, e, n) == Cardinality({p \in 1..n : s[p] = e})

(* Without a value, what is before a place and what is behind it lose it   *)
(* each for itself, and the place moves by as much as there is before it.  *)
LEMMA WithoutSplits ==
  ASSUME NEW S, NEW s \in Seq(S), NEW e, NEW T \in 0..Len(s)
  PROVE  /\ Without(s, e) = Without(SubSeq(s, 1, T), e) \o Without(SubSeq(s, T + 1, Len(s)), e)
         /\ Without(SubSeq(s, 1, T), e) \in Seq(S) /\ Without(SubSeq(s, T + 1, Len(s)), e) \in Seq(S)
         /\ Hits(s, e, T) \in Nat
         /\ Len(Without(SubSeq(s, 1, T), e)) = T - Hits(s, e, T)
<1>1. PICK a, b : a = SubSeq(s, 1, T) /\ b = SubSeq(s, T + 1, Len(s))
  OBVIOUS
<1>2. /\ a \in Seq(S) /\ Len(a) = T /\ \A p \in 1..T : s[p] = a[p]
      /\ b \in Seq(S) /\ Len(b) = Len(s) - T /\ \A p \in 1..Len(b) : b[p] = s[T + p]
  BY <1>1
<1>3. PICK k : Sifts(k, s, e) /\ Without(s, e) = k[Len(s)]
  BY WithoutIs
<1>4. Len(a) \in Nat /\ Len(b) \in Nat
  BY <1>2
<1>5. PICK f : Sifts(f, a, e) /\ Without(a, e) = f[Len(a)]
  BY <1>4, WithoutIs
<1>6. PICK g : Sifts(g, b, e) /\ Without(b, e) = g[Len(b)]
  BY <1>4, WithoutIs
<1>7. k[T] = f[T]
  BY <1>2, <1>3, <1>5, SiftsAgree
<1>8. k[Len(s)] = Joined(k[T], g[Len(b)])
  <2>1. PICK t \in Seq(S) : t = b
    BY <1>2
  <2>3. IsRest(t, s, T)
    BY <1>2, <2>1 DEF IsRest
  <2>4. Sifts(k, s, e)
    BY <1>3
  <2>5. Sifts(g, t, e)
    BY <1>6, <2>1
  <2>6. k[Len(s)] = Joined(k[T], g[Len(t)])
    BY <2>1, <2>3, <2>4, <2>5, SiftsOnward
  <2>. QED BY <2>1, <2>6
<1>9. k[T] \in Seq(S) /\ Hits(s, e, T) \in Nat
      /\ Len(k[T]) = T - Hits(s, e, T)
  BY <1>3, SiftsCount DEF Hits
<1>10. g[Len(b)] \in Seq(S)
  <2>1. b \in Seq(S) /\ Sifts(g, b, e) /\ Len(b) \in 0..Len(b)
    BY <1>2, <1>4, <1>6
  <2>. QED BY <2>1, SiftsCount
<1>. QED BY <1>1, <1>2, <1>3, <1>5, <1>6, <1>7, <1>8, <1>9, <1>10 DEF Joined

LEMMA WithoutAll ==
  ASSUME NEW S, NEW s \in Seq(S), NEW e
  PROVE  /\ Without(s, e) \in Seq(S)
         /\ Hits(s, e, Len(s)) \in Nat
         /\ Len(Without(s, e)) = Len(s) - Hits(s, e, Len(s))
<1>1. PICK k : Sifts(k, s, e) /\ Without(s, e) = k[Len(s)]
  BY WithoutIs
<1>. QED BY <1>1, SiftsCount DEF Hits

LEMMA WithoutNone ==
  ASSUME NEW S, NEW s \in Seq(S), NEW e, \A p \in 1..Len(s) : s[p] # e
  PROVE  Without(s, e) = s
<1>1. PICK k : Sifts(k, s, e) /\ Without(s, e) = k[Len(s)]
  BY WithoutIs
<1>2. PICK T : T = {n \in 0..Len(s) : k[n] = SubSeq(s, 1, n)}
  OBVIOUS
<1>3. 0 \in T
  <2>1. k[0] = <<>> /\ SubSeq(s, 1, 0) = <<>> /\ 0 \in 0..Len(s)
    BY <1>1 DEF Sifts
  <2>. QED BY <1>2, <2>1
<1>4. ASSUME NEW n \in 1..Len(s), n - 1 \in T PROVE n \in T
  <2>1. k[n] = Append(k[n - 1], s[n]) /\ k[n - 1] = SubSeq(s, 1, n - 1)
    BY <1>1, <1>2, <1>4 DEF Sifts
  <2>2. Append(SubSeq(s, 1, n - 1), s[n]) = SubSeq(s, 1, n)
    OBVIOUS
  <2>3. n \in 0..Len(s) /\ k[n] = SubSeq(s, 1, n)
    BY <2>1, <2>2
  <2>. QED BY <1>2, <2>3
<1>5. \A n \in 0..Len(s) : n \in T
  <2>1. (\A n \in 1..Len(s) : n - 1 \in T => n \in T) /\ Len(s) \in Nat
    BY <1>4
  <2>. QED BY <1>3, <2>1, UpTo
<1>6. SubSeq(s, 1, Len(s)) = s /\ Len(s) \in 0..Len(s)
  OBVIOUS
<1>. QED BY <1>1, <1>2, <1>5, <1>6

-----------------------------------------------------------------------------

-----------------------------------------------------------------------------
(* A list by what CallbackList promises of it.  What its closure says as   *)
(* long as nobody empties it while it fires: the loop runs to the end of   *)
(* the list, and has its place in it.                                      *)
Whole(c) ==
  /\ c = [fns |-> c.fns, on |-> c.on, repeats |-> c.repeats, queue |-> c.queue, memory |-> c.memory,
          data |-> c.data, fired |-> c.fired, firing |-> c.firing, index |-> c.index,
          length |-> c.length, at |-> c.at]
  /\ \E S : c.fns \in Seq(S)
  /\ c.on \in BOOLEAN /\ c.firing \in BOOLEAN
  /\ c.firing <=> c.at # "idle"
InPlaceOf(c) ==
  c.firing /\ c.on =>
    /\ c.length = Len(c.fns) /\ c.index \in Int
    /\ c.at \in {"loop", "user", "wait"}
    /\ c.at = "loop" => 0 <= c.index /\ c.index <= c.length
    /\ InCall(c) => -1 <= c.index /\ c.index < c.length
TurnOf(c) == c.index + IF InCall(c) THEN 1 ELSE 0
HadOf(c) == IF c.firing /\ c.on THEN SubSeq(c.fns, 1, TurnOf(c)) ELSE c.fns
ComesOf(c) == IF c.firing /\ c.on THEN SubSeq(c.fns, TurnOf(c) + 1, Len(c.fns)) ELSE <<>>

(* The steps of CallbackList, of one list.                                 *)
Stayed(b, a, f, B, A, F) == B = b /\ A = a /\ F = f
Called(b, a, f, B, A, F) == f /\ F /\ a # <<>> /\ B = Append(b, Head(a)) /\ A = Tail(a)
Grew(b, a, f, B, A, F) ==
  F = f /\ IF f THEN B = b /\ Promise!IsAdded(a, A) ELSE Promise!IsAdded(b, B) /\ A = <<>>
CalledOn(b, a, f, B, A, F) == ~f /\ F /\ B = b
Shrank(b, a, f, B, A, F) ==
  F = f /\ \E k \in 1..Len(b \o a) : B = Without(b, (b \o a)[k]) /\ A = Without(a, (b \o a)[k])
Started(stops, b, a, f, B, A, F) == F /\ (f => a = <<>> \/ stops) /\ B = <<>> /\ A = b \o a
Ended(stops, b, a, f, B, A, F) == f /\ ~F /\ (a = <<>> \/ stops) /\ B \in {b \o a, <<>>} /\ A = <<>>
Cleared(b, a, f, B, A, F) == B = <<>> /\ A = <<>> /\ (F => f)
Follows(stops, c, d) ==
  LET b == HadOf(c) a == ComesOf(c) f == c.firing B == HadOf(d) A == ComesOf(d) F == d.firing
  IN  \/ Stayed(b, a, f, B, A, F) \/ Called(b, a, f, B, A, F) \/ Grew(b, a, f, B, A, F)
      \/ CalledOn(b, a, f, B, A, F) \/ Shrank(b, a, f, B, A, F) \/ Started(stops, b, a, f, B, A, F)
      \/ Ended(stops, b, a, f, B, A, F) \/ Cleared(b, a, f, B, A, F)
Valid(c) == Whole(c) /\ InPlaceOf(c)
Moves(stops, c, d) == Valid(d) /\ Follows(stops, c, d)

-----------------------------------------------------------------------------
(* What the methods and the loop make of a closure is a step of it.        *)
LEMMA SameMoves ==
  ASSUME NEW c, Valid(c), NEW stops
  PROVE  Moves(stops, c, c)
BY DEF Moves, Follows, Stayed

LEMMA SplitAt ==
  ASSUME NEW S, NEW s \in Seq(S), NEW n \in 0..Len(s)
  PROVE  /\ SubSeq(s, 1, n) \in Seq(S) /\ Len(SubSeq(s, 1, n)) = n
         /\ SubSeq(s, n + 1, Len(s)) \in Seq(S) /\ Len(SubSeq(s, n + 1, Len(s))) = Len(s) - n
         /\ SubSeq(s, 1, n) \o SubSeq(s, n + 1, Len(s)) = s
         /\ n < Len(s) => /\ SubSeq(s, n + 1, Len(s)) # <<>>
                          /\ SubSeq(s, 1, n + 1) = Append(SubSeq(s, 1, n), Head(SubSeq(s, n + 1, Len(s))))
                          /\ SubSeq(s, n + 2, Len(s)) = Tail(SubSeq(s, n + 1, Len(s)))
<1>1. /\ SubSeq(s, 1, n) \in Seq(S) /\ Len(SubSeq(s, 1, n)) = n
      /\ SubSeq(s, n + 1, Len(s)) \in Seq(S) /\ Len(SubSeq(s, n + 1, Len(s))) = Len(s) - n
  OBVIOUS
<1>2. SubSeq(s, 1, n) \o SubSeq(s, n + 1, Len(s)) = s
  <2>1. PICK u, v : u = SubSeq(s, 1, n) /\ v = SubSeq(s, n + 1, Len(s))
    OBVIOUS
  <2>2. /\ u \in Seq(S) /\ v \in Seq(S) /\ Len(u) = n /\ Len(v) = Len(s) - n
        /\ \A i \in 1..n : u[i] = s[i]
        /\ \A i \in 1..(Len(s) - n) : v[i] = s[n + i]
    BY <1>1, <2>1
  <2>3. PICK w : w = u \o v
    OBVIOUS
  <2>4. /\ w \in Seq(S) /\ Len(w) = Len(s)
        /\ \A i \in 1..Len(s) : w[i] = IF i <= n THEN u[i] ELSE v[i - n]
    BY <2>2, <2>3
  <2>5. \A i \in 1..Len(s) : w[i] = s[i]
    BY <2>2, <2>4
  <2>6. w = s
    BY <2>4, <2>5
  <2>. QED BY <2>1, <2>3, <2>6
<1>3. ASSUME n < Len(s)
      PROVE  /\ SubSeq(s, n + 1, Len(s)) # <<>>
             /\ SubSeq(s, 1, n + 1) = Append(SubSeq(s, 1, n), Head(SubSeq(s, n + 1, Len(s))))
             /\ SubSeq(s, n + 2, Len(s)) = Tail(SubSeq(s, n + 1, Len(s)))
  <2>1. PICK u, v : u = SubSeq(s, 1, n) /\ v = SubSeq(s, n + 1, Len(s))
    OBVIOUS
  <2>2. /\ u \in Seq(S) /\ v \in Seq(S) /\ Len(u) = n /\ Len(v) = Len(s) - n
        /\ \A i \in 1..n : u[i] = s[i]
        /\ \A i \in 1..(Len(s) - n) : v[i] = s[n + i]
    BY <1>1, <2>1
  <2>3. v # <<>> /\ Head(v) = s[n + 1] /\ s[n + 1] \in S
    BY <1>3, <2>2
  <2>4. SubSeq(s, 1, n + 1) = Append(u, s[n + 1])
    BY <1>3, <2>2
  <2>5. SubSeq(s, n + 2, Len(s)) = Tail(v)
    <3>1. PICK w, x : w = SubSeq(s, n + 2, Len(s)) /\ x = Tail(v)
      OBVIOUS
    <3>2. /\ w \in Seq(S) /\ Len(w) = Len(s) - n - 1
          /\ \A i \in 1..(Len(s) - n - 1) : w[i] = s[n + 1 + i]
      BY <1>3, <3>1
    <3>3. /\ x \in Seq(S) /\ Len(x) = Len(s) - n - 1
          /\ \A i \in 1..(Len(s) - n - 1) : x[i] = v[i + 1]
      <4>1. v \in Seq(S) /\ v # <<>> /\ Len(v) = Len(s) - n
        BY <2>2, <2>3
      <4>2. /\ x \in Seq(S) /\ Len(x) = Len(v) - 1
            /\ \A i \in 1..(Len(v) - 1) : x[i] = v[i + 1]
        BY <3>1, <4>1
      <4>. QED BY <4>1, <4>2
    <3>4. ASSUME NEW i \in 1..(Len(s) - n - 1) PROVE w[i] = x[i]
      <4>1. i + 1 \in 1..(Len(s) - n) /\ n + (i + 1) = n + 1 + i
        OBVIOUS
      <4>2. v[i + 1] = s[n + (i + 1)]
        BY <2>2, <4>1
      <4>. QED BY <3>2, <3>3, <4>1, <4>2
    <3>5. w = x
      BY <3>2, <3>3, <3>4
    <3>. QED BY <3>1, <3>5
  <2>. QED BY <2>1, <2>3, <2>4, <2>5
<1>. QED BY <1>1, <1>2, <1>3

(* Had and to come together are the list.                                  *)
LEMMA SeenIs ==
  ASSUME NEW c, Valid(c)
  PROVE  /\ c.firing /\ c.on => TurnOf(c) \in 0..Len(c.fns)
         /\ HadOf(c) \o ComesOf(c) = c.fns
         /\ c.firing /\ c.on /\ c.index < Len(c.fns) /\ c.at = "loop" => ComesOf(c) # <<>>
<1>1. PICK S : c.fns \in Seq(S)
  BY DEF Valid, Whole
<1>2. c.firing /\ c.on => TurnOf(c) \in 0..Len(c.fns)
  BY <1>1 DEF Valid, InPlaceOf, TurnOf, InCall
<1>3. CASE c.firing /\ c.on
  <2>1. SubSeq(c.fns, 1, TurnOf(c)) \o SubSeq(c.fns, TurnOf(c) + 1, Len(c.fns)) = c.fns
    BY <1>1, <1>2, <1>3, SplitAt
  <2>2. c.index < Len(c.fns) /\ c.at = "loop" => ComesOf(c) # <<>>
    <3>. SUFFICES ASSUME c.index < Len(c.fns), c.at = "loop" PROVE ComesOf(c) # <<>>
      OBVIOUS
    <3>1. TurnOf(c) = c.index /\ TurnOf(c) < Len(c.fns)
      BY <1>3 DEF Valid, InPlaceOf, TurnOf, InCall
    <3>. QED BY <1>1, <1>2, <1>3, <3>1, SplitAt DEF ComesOf
  <2>. QED BY <1>2, <1>3, <2>1, <2>2 DEF HadOf, ComesOf
<1>4. CASE ~(c.firing /\ c.on)
  BY <1>1, <1>4 DEF HadOf, ComesOf
<1>. QED BY <1>2, <1>3, <1>4

Starts(c, mem, v, from) ==
  [c EXCEPT !.memory = mem, !.data = v, !.fired = TRUE, !.firing = TRUE, !.index = from,
            !.length = Len(c.fns), !.at = "loop"]

LEMMA StartMoves ==
  ASSUME NEW c, Valid(c), ~c.firing, c.on, NEW mem, NEW v, NEW stops
  PROVE  Moves(stops, c, Starts(c, mem, v, 0))
<1>1. PICK d : d = Starts(c, mem, v, 0)
  OBVIOUS
<1>2. PICK S : c.fns \in Seq(S)
  BY DEF Valid, Whole
<1>3. /\ d = [fns |-> c.fns, on |-> c.on, repeats |-> c.repeats, queue |-> c.queue, memory |-> mem,
              data |-> v, fired |-> TRUE, firing |-> TRUE, index |-> 0, length |-> Len(c.fns), at |-> "loop"]
  BY <1>1 DEF Starts, Valid, Whole
<1>4. Valid(d)
  BY <1>2, <1>3 DEF Valid, Whole, InPlaceOf, InCall
<1>5. HadOf(d) = <<>> /\ ComesOf(d) = c.fns /\ HadOf(c) = c.fns /\ ComesOf(c) = <<>>
  <2>1. TurnOf(d) = 0
    BY <1>3 DEF TurnOf, InCall
  <2>2. SubSeq(c.fns, 1, 0) = <<>> /\ SubSeq(c.fns, 0 + 1, Len(c.fns)) = c.fns
    BY <1>2
  <2>. QED BY <1>3, <2>1, <2>2 DEF HadOf, ComesOf
<1>6. Started(stops, HadOf(c), ComesOf(c), c.firing, HadOf(d), ComesOf(d), d.firing)
  <2>1. c.fns \o <<>> = c.fns
    BY <1>2
  <2>. QED BY <1>3, <1>5, <2>1 DEF Started
<1>. QED BY <1>1, <1>4, <1>6 DEF Moves, Follows

LEMMA WithIs ==
  ASSUME NEW c, Whole(c), NEW e
  PROVE  /\ Whole(With(c, e)) /\ With(c, e).fns = Append(c.fns, e) /\ With(c, e).on = c.on
         /\ With(c, e).firing = c.firing /\ With(c, e).index = c.index /\ With(c, e).at = c.at
         /\ With(c, e).length = c.length
<1>1. PICK d : d = With(c, e)
  OBVIOUS
<1>2. PICK S : c.fns \in Seq(S)
  BY DEF Whole
<1>3. d = [fns |-> Append(c.fns, e), on |-> c.on, repeats |-> c.repeats, queue |-> c.queue, memory |-> c.memory,
           data |-> c.data, fired |-> c.fired, firing |-> c.firing, index |-> c.index, length |-> c.length,
           at |-> c.at]
  BY <1>1 DEF With, Whole
<1>4. PICK T : T = S \cup {e}
  OBVIOUS
<1>5. Append(c.fns, e) \in Seq(T)
  <2>1. c.fns \in Seq(T) /\ e \in T
    BY <1>2, <1>4
  <2>. QED BY <2>1
<1>6. Whole(d)
  BY <1>3, <1>5 DEF Whole
<1>. QED BY <1>1, <1>3, <1>6

LEMMA StartOnMoves ==
  ASSUME NEW c, Valid(c), ~c.firing, c.on, NEW e, NEW g \in {c, With(c, e)}, NEW mem, NEW v, NEW stops
  PROVE  Moves(stops, c, Starts(g, mem, v, Len(c.fns)))
<1>1. PICK d : d = Starts(g, mem, v, Len(c.fns))
  OBVIOUS
<1>2. PICK S : c.fns \in Seq(S)
  BY DEF Valid, Whole
<1>3. Whole(g) /\ g.on /\ g.fns \in {c.fns, Append(c.fns, e)}
  BY WithIs DEF Valid
<1>4. d = [fns |-> g.fns, on |-> g.on, repeats |-> g.repeats, queue |-> g.queue, memory |-> mem,
           data |-> v, fired |-> TRUE, firing |-> TRUE, index |-> Len(c.fns), length |-> Len(g.fns), at |-> "loop"]
  BY <1>1, <1>3 DEF Starts, Whole
<1>5. PICK s, n : s = c.fns /\ n = Len(c.fns)
  OBVIOUS
<1>6. n \in Nat /\ Len(g.fns) \in {n, n + 1} /\ SubSeq(g.fns, 1, n) = s
  <2>1. CASE g.fns = s
    BY <1>2, <1>5, <2>1
  <2>2. CASE g.fns = Append(s, e)
    <3>1. s \in Seq(S \cup {e}) /\ e \in S \cup {e}
      BY <1>2, <1>5
    <3>. QED BY <1>5, <2>2, <3>1
  <2>. QED BY <1>3, <1>5, <2>1, <2>2
<1>7. Valid(d)
  <2>1. Whole(d)
    BY <1>3, <1>4 DEF Whole
  <2>2. InPlaceOf(d)
    BY <1>4, <1>5, <1>6 DEF InPlaceOf, InCall
  <2>. QED BY <2>1, <2>2 DEF Valid
<1>8. TurnOf(d) = n
  BY <1>4, <1>5, <1>6 DEF TurnOf, InCall
<1>9. HadOf(d) = s /\ HadOf(c) = s
  BY <1>3, <1>4, <1>5, <1>6, <1>8 DEF HadOf
<1>10. CalledOn(HadOf(c), ComesOf(c), c.firing, HadOf(d), ComesOf(d), d.firing)
  BY <1>4, <1>9 DEF CalledOn
<1>. QED BY <1>1, <1>7, <1>10 DEF Moves, Follows

LEMMA QueueMoves ==
  ASSUME NEW c, Valid(c), NEW q, NEW stops
  PROVE  Moves(stops, c, [c EXCEPT !.queue = q])
<1>1. PICK d : d = [c EXCEPT !.queue = q]
  OBVIOUS
<1>2. d = [fns |-> c.fns, on |-> c.on, repeats |-> c.repeats, queue |-> q, memory |-> c.memory,
           data |-> c.data, fired |-> c.fired, firing |-> c.firing, index |-> c.index,
           length |-> c.length, at |-> c.at]
  BY <1>1 DEF Valid, Whole
<1>3. Valid(d)
  BY <1>2 DEF Valid, Whole, InPlaceOf, InCall
<1>4. HadOf(d) = HadOf(c) /\ ComesOf(d) = ComesOf(c) /\ d.firing = c.firing
  BY <1>2 DEF HadOf, ComesOf, TurnOf, InCall
<1>. QED BY <1>1, <1>3, <1>4 DEF Moves, Follows, Stayed

LEMMA KeptMoves ==
  ASSUME NEW c, Valid(c), NEW stops
  PROVE  Moves(stops, c, Kept(c))
<1>1. PICK d : d = Kept(c)
  OBVIOUS
<1>2. d = [fns |-> c.fns, on |-> c.on, repeats |-> FALSE, queue |-> <<>>, memory |-> c.memory,
           data |-> c.data, fired |-> c.fired, firing |-> c.firing, index |-> c.index,
           length |-> c.length, at |-> c.at]
  BY <1>1 DEF Kept, Valid, Whole
<1>3. Valid(d)
  BY <1>2 DEF Valid, Whole, InPlaceOf, InCall
<1>4. HadOf(d) = HadOf(c) /\ ComesOf(d) = ComesOf(c) /\ d.firing = c.firing
  BY <1>2 DEF HadOf, ComesOf, TurnOf, InCall
<1>. QED BY <1>1, <1>3, <1>4 DEF Moves, Follows, Stayed

LEMMA OffMoves ==
  ASSUME NEW c, Valid(c), NEW stops
  PROVE  Moves(stops, c, Off(c))
<1>1. PICK d : d = Off(c)
  OBVIOUS
<1>2. d = [fns |-> <<>>, on |-> FALSE, repeats |-> FALSE, queue |-> <<>>, memory |-> NoValue,
           data |-> c.data, fired |-> c.fired, firing |-> c.firing, index |-> c.index,
           length |-> c.length, at |-> c.at]
  BY <1>1 DEF Off, Valid, Whole
<1>3. Valid(d)
  BY <1>2 DEF Valid, Whole, InPlaceOf
<1>4. HadOf(d) = <<>> /\ ComesOf(d) = <<>> /\ d.firing = c.firing
  BY <1>2 DEF HadOf, ComesOf
<1>. QED BY <1>1, <1>3, <1>4 DEF Moves, Follows, Cleared

LEMMA EmptyMoves ==
  ASSUME NEW c, Valid(c), ~c.firing, NEW stops
  PROVE  Moves(stops, c, [c EXCEPT !.fns = <<>>, !.on = TRUE])
<1>1. PICK d : d = [c EXCEPT !.fns = <<>>, !.on = TRUE]
  OBVIOUS
<1>2. d = [fns |-> <<>>, on |-> TRUE, repeats |-> c.repeats, queue |-> c.queue, memory |-> c.memory,
           data |-> c.data, fired |-> c.fired, firing |-> c.firing, index |-> c.index,
           length |-> c.length, at |-> c.at]
  BY <1>1 DEF Valid, Whole
<1>3. Valid(d)
  BY <1>2 DEF Valid, Whole, InPlaceOf
<1>4. HadOf(d) = <<>> /\ ComesOf(d) = <<>> /\ d.firing = c.firing
  BY <1>2 DEF HadOf, ComesOf
<1>. QED BY <1>1, <1>3, <1>4 DEF Moves, Follows, Cleared

(* A callback that is added behind the rest is one to come.                *)
LEMMA PartIs ==
  ASSUME NEW S, NEW s \in Seq(S), NEW m \in Nat, NEW n \in Nat, m <= n, n <= Len(s)
  PROVE  /\ SubSeq(s, m + 1, n) \in Seq(S) /\ Len(SubSeq(s, m + 1, n)) = n - m
         /\ \A i \in 1..(n - m) : SubSeq(s, m + 1, n)[i] = s[m + i]
<1>1. PICK x : x = SubSeq(s, m + 1, n)
  OBVIOUS
<1>2. x \in Seq(S) /\ Len(x) = n - m
  BY <1>1
<1>3. ASSUME NEW i \in 1..(n - m) PROVE x[i] = s[m + i]
  BY <1>1
<1>. QED BY <1>1, <1>2, <1>3

LEMMA ToTheEndMoves ==
  ASSUME NEW c, Valid(c), c.firing, c.on, NEW e, NEW g \in {c, With(c, e)}, NEW stops
  PROVE  Moves(stops, c, [g EXCEPT !.length = Len(g.fns)])
<1>1. PICK d : d = [g EXCEPT !.length = Len(g.fns)]
  OBVIOUS
<1>2. PICK S : c.fns \in Seq(S)
  BY DEF Valid, Whole
<1>3. /\ Whole(g) /\ g.on = c.on /\ g.firing = c.firing /\ g.index = c.index /\ g.at = c.at
      /\ g.fns \in {c.fns, Append(c.fns, e)}
  <2>1. Whole(c)
    BY DEF Valid
  <2>2. CASE g = c
    BY <2>1, <2>2
  <2>3. CASE g = With(c, e)
    BY <2>1, <2>3, WithIs
  <2>. QED BY <2>2, <2>3
<1>4. d = [fns |-> g.fns, on |-> TRUE, repeats |-> g.repeats, queue |-> g.queue, memory |-> g.memory,
           data |-> g.data, fired |-> g.fired, firing |-> TRUE, index |-> c.index, length |-> Len(g.fns),
           at |-> c.at]
  BY <1>1, <1>3 DEF Whole
<1>5. PICK s, n, T, u : s = c.fns /\ n = Len(c.fns) /\ T = TurnOf(c) /\ u = g.fns
  OBVIOUS
<1>6. n \in Nat /\ s \in Seq(S) /\ n = Len(s) /\ T \in 0..n /\ T = TurnOf(d)
  <2>1. T \in 0..n
    BY <1>5, SeenIs
  <2>2. T = TurnOf(d)
    BY <1>4, <1>5 DEF TurnOf, InCall
  <2>. QED BY <1>2, <1>5, <2>1, <2>2
<1>7. PICK S2 : S2 = S \cup {e}
  OBVIOUS
<1>8. /\ s \in Seq(S2) /\ u \in Seq(S2) /\ Len(u) \in Nat /\ n <= Len(u)
      /\ \A i \in 1..n : u[i] = s[i]
  <2>1. s \in Seq(S2) /\ e \in S2
    BY <1>6, <1>7
  <2>2. CASE u = s
    BY <1>6, <2>1, <2>2
  <2>3. CASE u = Append(s, e)
    BY <1>6, <2>1, <2>3
  <2>. QED BY <1>3, <1>5, <2>2, <2>3
<1>9. Valid(d)
  <2>1. Whole(d)
    BY <1>3, <1>4 DEF Whole, Valid
  <2>2. InPlaceOf(d)
    BY <1>3, <1>4, <1>5, <1>6, <1>8 DEF Valid, InPlaceOf, InCall
  <2>. QED BY <2>1, <2>2 DEF Valid
<1>10. /\ HadOf(c) = SubSeq(s, 1, T) /\ ComesOf(c) = SubSeq(s, T + 1, n)
       /\ HadOf(d) = SubSeq(u, 1, T) /\ ComesOf(d) = SubSeq(u, T + 1, Len(u))
  BY <1>4, <1>5, <1>6 DEF HadOf, ComesOf
<1>11. SubSeq(u, 1, T) = SubSeq(s, 1, T)
  <2>1. PICK x, y : x = SubSeq(u, 1, T) /\ y = SubSeq(s, 1, T)
    OBVIOUS
  <2>2. /\ x \in Seq(S2) /\ y \in Seq(S2) /\ Len(x) = T /\ Len(y) = T
        /\ \A i \in 1..T : x[i] = u[i] /\ y[i] = s[i]
    BY <1>6, <1>8, <2>1
  <2>3. \A i \in 1..T : x[i] = y[i]
    BY <1>6, <1>8, <2>2
  <2>. QED BY <2>1, <2>2, <2>3
<1>12. Promise!IsAdded(SubSeq(s, T + 1, n), SubSeq(u, T + 1, Len(u)))
  <2>1. PICK x, y : x = SubSeq(s, T + 1, n) /\ y = SubSeq(u, T + 1, Len(u))
    OBVIOUS
  <2>2. x \in Seq(S2) /\ Len(x) = n - T /\ \A i \in 1..(n - T) : x[i] = s[T + i]
    <3>1. T \in Nat /\ T <= n /\ n <= Len(s) /\ n \in Nat /\ s \in Seq(S2)
      BY <1>6, <1>8
    <3>. QED BY <2>1, <3>1, PartIs
  <2>3. y \in Seq(S2) /\ Len(y) = Len(u) - T /\ \A i \in 1..(Len(u) - T) : y[i] = u[T + i]
    <3>1. T \in Nat /\ T <= Len(u)
      BY <1>6, <1>8
    <3>. QED BY <1>8, <2>1, <3>1, PartIs
  <2>4. PICK z, k : z = SubSeq(y, 1, k) /\ k = n - T
    OBVIOUS
  <2>5. z \in Seq(S2) /\ Len(z) = k /\ \A i \in 1..k : z[i] = y[i]
    <3>1. k \in 0..Len(y) /\ Len(y) \in Nat
      BY <1>6, <1>8, <2>3, <2>4
    <3>2. z = SubSeq(y, 0 + 1, k) /\ k - 0 = k /\ 0 <= k /\ k <= Len(y) /\ k \in Nat
      BY <2>4, <3>1
    <3>3. /\ SubSeq(y, 0 + 1, k) \in Seq(S2) /\ Len(SubSeq(y, 0 + 1, k)) = k - 0
          /\ \A i \in 1..(k - 0) : SubSeq(y, 0 + 1, k)[i] = y[0 + i]
      BY <2>3, <3>2, PartIs
    <3>4. \A i \in 1..k : 0 + i = i
      OBVIOUS
    <3>. QED BY <3>2, <3>3, <3>4
  <2>6. ASSUME NEW i \in 1..k PROVE z[i] = x[i]
    <3>1. T + i \in 1..n /\ i \in 1..(Len(u) - T) /\ i \in 1..(n - T)
      BY <1>6, <1>8, <2>4
    <3>. QED BY <1>8, <2>2, <2>3, <2>5, <3>1
  <2>7. z = x /\ Len(x) <= Len(y)
    <3>1. k = Len(x)
      BY <2>2, <2>4
    <3>2. z = x
      BY <2>2, <2>5, <2>6, <3>1
    <3>. QED BY <1>6, <1>8, <2>2, <2>3, <3>2
  <2>8. Promise!IsAdded(x, y)
    BY <2>2, <2>4, <2>7 DEF Promise!IsAdded
  <2>. QED BY <2>1, <2>8
<1>13. Grew(HadOf(c), ComesOf(c), c.firing, HadOf(d), ComesOf(d), d.firing)
  BY <1>4, <1>10, <1>11, <1>12 DEF Grew
<1>. QED BY <1>1, <1>9, <1>13 DEF Moves, Follows

LEMMA WithMoves ==
  ASSUME NEW c, Valid(c), ~c.firing, NEW e, NEW stops
  PROVE  Moves(stops, c, With(c, e))
<1>1. PICK d : d = With(c, e)
  OBVIOUS
<1>2. PICK S : c.fns \in Seq(S)
  BY DEF Valid, Whole
<1>3. Whole(d) /\ d.fns = Append(c.fns, e) /\ d.firing = c.firing
  BY <1>1, WithIs DEF Valid
<1>4. Valid(d)
  BY <1>3 DEF Valid, InPlaceOf
<1>5. HadOf(d) = Append(c.fns, e) /\ ComesOf(d) = <<>> /\ HadOf(c) = c.fns
  BY <1>3 DEF HadOf, ComesOf
<1>6. Promise!IsAdded(c.fns, Append(c.fns, e))
  <2>1. PICK s, T : s = c.fns /\ T = S \cup {e}
    OBVIOUS
  <2>2. s \in Seq(T) /\ e \in T
    BY <1>2, <2>1
  <2>3. Len(s) <= Len(Append(s, e)) /\ SubSeq(Append(s, e), 1, Len(s)) = s
    BY <2>2
  <2>. QED BY <2>1, <2>3 DEF Promise!IsAdded
<1>7. Grew(HadOf(c), ComesOf(c), c.firing, HadOf(d), ComesOf(d), d.firing)
  BY <1>3, <1>5, <1>6 DEF Grew
<1>. QED BY <1>1, <1>4, <1>7 DEF Moves, Follows

(* The loop, before a callback and after it.                               *)
LEMMA CallMoves ==
  ASSUME NEW c, Valid(c), c.firing, c.on, NEW d, Valid(d), d.firing, d.on, d.fns = c.fns,
         TurnOf(c) < Len(c.fns), TurnOf(d) = TurnOf(c) + 1, NEW stops
  PROVE  Moves(stops, c, d)
<1>1. PICK S : c.fns \in Seq(S)
  BY DEF Valid, Whole
<1>2. PICK s, T : s = c.fns /\ T = TurnOf(c)
  OBVIOUS
<1>3. s \in Seq(S) /\ T \in 0..Len(s) /\ T < Len(s)
  BY <1>1, <1>2, SeenIs
<1>4. T + 1 + 1 = T + 2
  BY <1>3
<1>5. /\ HadOf(c) = SubSeq(s, 1, T) /\ ComesOf(c) = SubSeq(s, T + 1, Len(s))
      /\ HadOf(d) = SubSeq(s, 1, T + 1) /\ ComesOf(d) = SubSeq(s, T + 2, Len(s))
  BY <1>2, <1>4 DEF HadOf, ComesOf
<1>6. Called(HadOf(c), ComesOf(c), c.firing, HadOf(d), ComesOf(d), d.firing)
  BY <1>3, <1>5, SplitAt DEF Called
<1>. QED BY <1>6 DEF Moves, Follows

LEMMA SeenSameMoves ==
  ASSUME NEW c, NEW d, Valid(d), d.firing = c.firing, d.on = c.on, d.fns = c.fns,
         c.firing /\ c.on => TurnOf(d) = TurnOf(c), NEW stops
  PROVE  Moves(stops, c, d)
<1>1. HadOf(d) = HadOf(c) /\ ComesOf(d) = ComesOf(c)
  BY DEF HadOf, ComesOf
<1>. QED BY <1>1 DEF Moves, Follows, Stayed

LEMMA StandsMoves ==
  ASSUME NEW c, Valid(c), c.firing, NEW where \in {"user", "wait"}, NEW stops,
         InCall(c) \/ (c.at = "loop" /\ c.on /\ c.index < Len(c.fns))
  PROVE  Moves(stops, c, Stands(c, where))
<1>1. PICK d : d = Stands(c, where)
  OBVIOUS
<1>2. d = [fns |-> c.fns, on |-> c.on, repeats |-> c.repeats, queue |-> c.queue, memory |-> c.memory,
           data |-> c.data, fired |-> c.fired, firing |-> c.firing, index |-> c.index,
           length |-> c.length, at |-> where]
  BY <1>1 DEF Stands, Valid, Whole
<1>3. Valid(d)
  BY <1>2 DEF Valid, Whole, InPlaceOf, InCall
<1>4. CASE InCall(c)
  <2>1. TurnOf(d) = TurnOf(c)
    BY <1>2, <1>4 DEF TurnOf, InCall
  <2>. QED BY <1>1, <1>2, <1>3, <2>1, SeenSameMoves
<1>5. CASE c.at = "loop" /\ c.on /\ c.index < Len(c.fns)
  <2>1. c.index \in Int
    BY <1>5 DEF Valid, InPlaceOf
  <2>2. TurnOf(c) = c.index /\ TurnOf(d) = c.index + 1
    BY <1>2, <1>5, <2>1 DEF TurnOf, InCall
  <2>3. d.firing /\ d.on /\ d.fns = c.fns
    BY <1>2, <1>5
  <2>. QED BY <1>1, <1>3, <1>5, <2>2, <2>3, CallMoves
<1>. QED BY <1>4, <1>5

LEMMA SteppedIs ==
  ASSUME NEW c, Whole(c), NEW d, d = Stepped(c)
  PROVE  d = [fns |-> c.fns, on |-> c.on, repeats |-> c.repeats, queue |-> c.queue, memory |-> c.memory,
           data |-> c.data, fired |-> c.fired, firing |-> c.firing, index |-> c.index + 1,
           length |-> c.length, at |-> "loop"]
BY DEF Stepped, Whole

LEMMA SteppedMoves ==
  ASSUME NEW c, Valid(c), c.firing, NEW stops,
         InCall(c) \/ (c.at = "loop" /\ c.on /\ c.index < Len(c.fns))
  PROVE  Moves(stops, c, Stepped(c))
<1>1. PICK d : d = Stepped(c)
  OBVIOUS
<1>2. d = [fns |-> c.fns, on |-> c.on, repeats |-> c.repeats, queue |-> c.queue, memory |-> c.memory,
           data |-> c.data, fired |-> c.fired, firing |-> c.firing, index |-> c.index + 1,
           length |-> c.length, at |-> "loop"]
  BY <1>1, SteppedIs DEF Valid
<1>3. c.on => c.index \in Int /\ c.index + 1 <= Len(c.fns)
  <2>1. PICK S : c.fns \in Seq(S)
    BY DEF Valid, Whole
  <2>2. Len(c.fns) \in Nat
    BY <2>1
  <2>. QED BY <2>2 DEF Valid, InPlaceOf
<1>4. Valid(d)
  <2>1. Whole(d)
    BY <1>2 DEF Valid, Whole
  <2>2. InPlaceOf(d)
    BY <1>2, <1>3 DEF Valid, InPlaceOf, InCall
  <2>. QED BY <2>1, <2>2 DEF Valid
<1>5. CASE InCall(c)
  <2>1. c.on => TurnOf(d) = TurnOf(c)
    BY <1>2, <1>3, <1>5 DEF TurnOf, InCall
  <2>. QED BY <1>1, <1>2, <1>4, <2>1, SeenSameMoves
<1>6. CASE c.at = "loop" /\ c.on /\ c.index < Len(c.fns)
  <2>1. TurnOf(c) = c.index /\ TurnOf(d) = c.index + 1
    BY <1>2, <1>3, <1>6 DEF TurnOf, InCall
  <2>2. d.firing /\ d.on /\ d.fns = c.fns
    BY <1>2, <1>6
  <2>. QED BY <1>1, <1>4, <1>6, <2>1, <2>2, CallMoves
<1>. QED BY <1>5, <1>6

LEMMA SameSeq ==
  ASSUME NEW S, NEW x \in Seq(S), NEW y \in Seq(S), NEW n, Len(x) = n, Len(y) = n,
         \A i \in 1..n : x[i] = y[i]
  PROVE  x = y
OBVIOUS

LEMMA JoinIs ==
  ASSUME NEW S, NEW u \in Seq(S), NEW v \in Seq(S), NEW w, w = u \o v
  PROVE  /\ w \in Seq(S) /\ Len(u) \in Nat /\ Len(v) \in Nat /\ Len(w) = Len(u) + Len(v)
         /\ \A i \in 1..(Len(u) + Len(v)) : w[i] = IF i <= Len(u) THEN u[i] ELSE v[i - Len(u)]
OBVIOUS

LEMMA HalvesAre ==
  ASSUME NEW S, NEW u \in Seq(S), NEW v \in Seq(S)
  PROVE  /\ u \o v \in Seq(S) /\ Len(u \o v) = Len(u) + Len(v)
         /\ SubSeq(u \o v, 1, Len(u)) = u /\ SubSeq(u \o v, Len(u) + 1, Len(u \o v)) = v
<1>1. PICK w, m, n : w = u \o v /\ m = Len(u) /\ n = Len(v)
  OBVIOUS
<1>2. /\ w \in Seq(S) /\ m \in Nat /\ n \in Nat /\ Len(w) = m + n
      /\ \A i \in 1..(m + n) : w[i] = IF i <= m THEN u[i] ELSE v[i - m]
  BY <1>1
<1>3. SubSeq(w, 1, m) = u
  <2>1. PICK x : x = SubSeq(w, 0 + 1, m)
    OBVIOUS
  <2>2. m <= Len(w) /\ 0 <= m /\ 0 \in Nat /\ m - 0 = m
    BY <1>2
  <2>3. x \in Seq(S) /\ Len(x) = m - 0 /\ \A i \in 1..(m - 0) : x[i] = w[0 + i]
    BY <1>2, <2>1, <2>2, PartIs
  <2>4. ASSUME NEW i \in 1..m PROVE x[i] = u[i]
    <3>1. i \in 1..(m + n) /\ 0 + i = i /\ i <= m
      BY <1>2
    <3>. QED BY <1>2, <2>2, <2>3, <3>1
  <2>5. x = u
    BY <1>1, <2>2, <2>3, <2>4
  <2>. QED BY <2>1, <2>5
<1>4. SubSeq(w, m + 1, m + n) = v
  <2>1. PICK x : x = SubSeq(w, m + 1, m + n)
    OBVIOUS
  <2>2. m + n <= Len(w) /\ m <= m + n /\ m + n \in Nat /\ (m + n) - m = n
    BY <1>2
  <2>3. x \in Seq(S) /\ Len(x) = (m + n) - m /\ \A i \in 1..((m + n) - m) : x[i] = w[m + i]
    BY <1>2, <2>1, <2>2, PartIs
  <2>4. ASSUME NEW i \in 1..n PROVE x[i] = v[i]
    <3>1. m + i \in 1..(m + n) /\ ~(m + i <= m) /\ (m + i) - m = i
      BY <1>2
    <3>. QED BY <1>2, <2>2, <2>3, <3>1
  <2>5. x = v
    <3>1. x \in Seq(S) /\ Len(x) = n /\ Len(v) = n /\ \A i \in 1..n : x[i] = v[i]
      BY <1>1, <2>2, <2>3, <2>4
    <3>. QED BY <3>1, SameSeq
  <2>. QED BY <2>1, <2>5
<1>. QED BY <1>1, <1>2, <1>3, <1>4

(* remove(): the place of the loop moves back by as many callbacks as the  *)
(* list has lost of those that have had their turn.                        *)
PlacesOf(s, e) == {p \in DOMAIN s : s[p] = e}
Less(c, e) ==
  IF c.firing THEN [c EXCEPT !.fns = Without(c.fns, e), !.length = @ - Shorter(PlacesOf(c.fns, e)),
                             !.index = @ - MovesBack(PlacesOf(c.fns, e), c)]
  ELSE [c EXCEPT !.fns = Without(c.fns, e)]

LEMMA LessIs ==
  ASSUME NEW c, Valid(c), c.on, c.firing, InCall(c), NEW e
  PROVE  LET d == Less(c, e)
             s == c.fns
             T == TurnOf(c)
             u == Without(SubSeq(s, 1, T), e)
             v == Without(SubSeq(s, T + 1, Len(s)), e)
         IN  Valid(d) /\ d.firing /\ d.on /\ HadOf(d) = u /\ ComesOf(d) = v
<1>1. PICK d, s, T, L, M : /\ d = Less(c, e) /\ s = c.fns /\ T = TurnOf(c)
                           /\ L = Shorter(PlacesOf(s, e)) /\ M = MovesBack(PlacesOf(s, e), c)
  OBVIOUS
<1>2. PICK S : s \in Seq(S)
  BY <1>1 DEF Valid, Whole
<1>3. T \in 0..Len(s) /\ Len(s) \in Nat /\ T = c.index + 1 /\ c.index \in Int /\ c.length = Len(s)
  BY <1>1, <1>2, SeenIs DEF Valid, InPlaceOf, TurnOf, InCall
<1>4. d = [fns |-> Without(s, e), on |-> c.on, repeats |-> c.repeats, queue |-> c.queue, memory |-> c.memory,
           data |-> c.data, fired |-> c.fired, firing |-> c.firing, index |-> c.index - M,
           length |-> c.length - L, at |-> c.at]
  BY <1>1 DEF Less, Valid, Whole
<1>5. L = Hits(s, e, Len(s))
  <2>1. PlacesOf(s, e) = {p \in 1..Len(s) : s[p] = e}
    BY <1>2 DEF PlacesOf
  <2>. QED BY <1>1, <2>1 DEF Shorter, Hits
<1>6. M = Hits(s, e, T)
  <2>1. {p \in PlacesOf(s, e) : p - 1 <= c.index} = {p \in 1..T : s[p] = e}
    BY <1>2, <1>3 DEF PlacesOf
  <2>. QED BY <1>1, <2>1 DEF MovesBack, Hits
<1>7. PICK u, v, w : /\ u = Without(SubSeq(s, 1, T), e) /\ v = Without(SubSeq(s, T + 1, Len(s)), e)
                     /\ w = Without(s, e)
  OBVIOUS
<1>8. w = u \o v /\ u \in Seq(S) /\ v \in Seq(S) /\ M \in Nat /\ Len(u) = T - M
  <2>1. /\ Without(s, e) = Without(SubSeq(s, 1, T), e) \o Without(SubSeq(s, T + 1, Len(s)), e)
        /\ Without(SubSeq(s, 1, T), e) \in Seq(S) /\ Without(SubSeq(s, T + 1, Len(s)), e) \in Seq(S)
        /\ Hits(s, e, T) \in Nat
        /\ Len(Without(SubSeq(s, 1, T), e)) = T - Hits(s, e, T)
    <3>1. T \in 0..Len(s)
      BY <1>3
    <3>. QED BY <1>2, <3>1, WithoutSplits
  <2>2. w = u \o v /\ u \in Seq(S) /\ v \in Seq(S)
    BY <1>7, <2>1, Zenon
  <2>3. M \in Nat
    BY <1>6, <2>1, Zenon
  <2>4. Len(u) = T - M
    BY <1>6, <1>7, <2>1, Zenon
  <2>. QED BY <2>2, <2>3, <2>4
<1>9. L \in Nat /\ Len(w) = Len(s) - L
  BY <1>2, <1>5, <1>7, WithoutAll
<1>10. PICK m, n : m = Len(u) /\ n = Len(v)
  OBVIOUS
<1>11. /\ w \in Seq(S) /\ Len(w) = m + n /\ m \in Nat /\ n \in Nat
       /\ SubSeq(w, 1, m) = u /\ SubSeq(w, m + 1, Len(w)) = v
  <2>1. u \in Seq(S) /\ v \in Seq(S) /\ w = u \o v
    BY <1>8
  <2>2. /\ u \o v \in Seq(S) /\ Len(u \o v) = Len(u) + Len(v)
        /\ SubSeq(u \o v, 1, Len(u)) = u /\ SubSeq(u \o v, Len(u) + 1, Len(u \o v)) = v
    BY <2>1, HalvesAre
  <2>3. m \in Nat /\ n \in Nat
    BY <1>10, <2>1
  <2>. QED BY <1>10, <2>1, <2>2, <2>3, Zenon
<1>12. m = T - M /\ Len(w) = Len(s) - L
  BY <1>8, <1>9, <1>10
<1>13. Whole(d)
  BY <1>4, <1>7, <1>11 DEF Valid, Whole
<1>14. InPlaceOf(d)
  <2>1. d.length = Len(w) /\ d.index = m - 1 /\ d.fns = w /\ d.at = c.at
    <3>1. d.length = c.length - L /\ d.index = c.index - M /\ d.fns = w /\ d.at = c.at
      BY <1>4, <1>7
    <3>2. M \in Nat
      BY <1>8
    <3>. QED BY <1>3, <1>12, <3>1, <3>2
  <2>2. d.index \in Int /\ -1 <= d.index /\ d.index < d.length
    BY <1>11, <2>1
  <2>3. d.at \in {"user", "wait"}
    BY <2>1 DEF InCall
  <2>4. d.at # "loop" /\ d.length = Len(d.fns)
    BY <2>1, <2>3
  <2>. QED BY <2>2, <2>3, <2>4 DEF InPlaceOf
<1>15. TurnOf(d) = m /\ d.firing /\ d.on /\ d.fns = w
  <2>1. d.index = c.index - M /\ d.fns = w /\ d.at = c.at /\ d.firing /\ d.on
    BY <1>4, <1>7
  <2>2. TurnOf(d) = d.index + 1
    BY <2>1 DEF TurnOf, InCall
  <2>3. M \in Nat
    BY <1>8
  <2>. QED BY <1>3, <1>12, <2>1, <2>2, <2>3
<1>16. HadOf(d) = u /\ ComesOf(d) = v
  BY <1>11, <1>15 DEF HadOf, ComesOf
<1>. QED BY <1>1, <1>7, <1>13, <1>14, <1>15, <1>16 DEF Valid

LEMMA LessMoves ==
  ASSUME NEW c, Valid(c), c.on, c.at # "loop", NEW e, NEW stops
  PROVE  Moves(stops, c, Less(c, e))
<1>1. PICK d, s : d = Less(c, e) /\ s = c.fns
  OBVIOUS
<1>2. PICK S : s \in Seq(S)
  BY <1>1 DEF Valid, Whole
<1>3. Valid(d) /\ d.firing = c.firing /\ HadOf(d) = Without(HadOf(c), e) /\ ComesOf(d) = Without(ComesOf(c), e)
  <2>1. CASE c.firing
    <3>1. InCall(c)
      BY <2>1 DEF Valid, InPlaceOf, InCall
    <3>2. HadOf(c) = SubSeq(s, 1, TurnOf(c)) /\ ComesOf(c) = SubSeq(s, TurnOf(c) + 1, Len(s))
      BY <1>1, <2>1 DEF HadOf, ComesOf
    <3>3. c.firing = TRUE
      BY <2>1 DEF Valid, Whole
    <3>4. Valid(d) /\ d.firing /\ HadOf(d) = Without(HadOf(c), e) /\ ComesOf(d) = Without(ComesOf(c), e)
      BY <1>1, <2>1, <3>1, <3>2, LessIs
    <3>5. d.firing = TRUE
      BY <3>4 DEF Valid, Whole
    <3>. QED BY <3>3, <3>4, <3>5
  <2>2. CASE ~c.firing
    <3>1. d = [fns |-> Without(s, e), on |-> c.on, repeats |-> c.repeats, queue |-> c.queue, memory |-> c.memory,
               data |-> c.data, fired |-> c.fired, firing |-> c.firing, index |-> c.index,
               length |-> c.length, at |-> c.at]
      BY <1>1, <2>2 DEF Less, Valid, Whole
    <3>2. Without(s, e) \in Seq(S)
      BY <1>2, WithoutAll
    <3>3. Valid(d)
      BY <2>2, <3>1, <3>2 DEF Valid, Whole, InPlaceOf
    <3>4. Without(<<>>, e) = <<>>
      <4>1. <<>> \in Seq(S) /\ \A p \in 1..Len(<<>>) : <<>>[p] # e
        OBVIOUS
      <4>. QED BY <4>1, WithoutNone
    <3>5. HadOf(c) = s /\ ComesOf(c) = <<>> /\ HadOf(d) = Without(s, e) /\ ComesOf(d) = <<>>
      BY <1>1, <2>2, <3>1 DEF HadOf, ComesOf
    <3>. QED BY <3>1, <3>3, <3>4, <3>5
  <2>. QED BY <2>1, <2>2
<1>4. HadOf(c) \o ComesOf(c) = s
  BY <1>1, SeenIs
<1>5. CASE \E p \in 1..Len(s) : s[p] = e
  <2>1. PICK p \in 1..Len(s) : s[p] = e
    BY <1>5
  <2>2. Shrank(HadOf(c), ComesOf(c), c.firing, HadOf(d), ComesOf(d), d.firing)
    BY <1>3, <1>4, <2>1 DEF Shrank
  <2>. QED BY <1>1, <1>3, <2>2 DEF Moves, Follows
<1>6. CASE \A p \in 1..Len(s) : s[p] # e
  <2>1. PICK b, a : b = HadOf(c) /\ a = ComesOf(c)
    OBVIOUS
  <2>2. b \in Seq(S) /\ a \in Seq(S) /\ b \o a = s
    <3>1. CASE c.firing /\ c.on
      <4>1. PICK T : T = TurnOf(c)
        OBVIOUS
      <4>2. T \in 0..Len(s)
        BY <1>1, <3>1, <4>1, SeenIs
      <4>3. b = SubSeq(s, 1, T) /\ a = SubSeq(s, T + 1, Len(s))
        BY <1>1, <2>1, <3>1, <4>1 DEF HadOf, ComesOf
      <4>4. SubSeq(s, 1, T) \in Seq(S) /\ SubSeq(s, T + 1, Len(s)) \in Seq(S)
        BY <1>2, <4>2, SplitAt
      <4>. QED BY <1>4, <2>1, <4>3, <4>4
    <3>2. CASE ~(c.firing /\ c.on)
      BY <1>1, <1>2, <1>4, <2>1, <3>2 DEF HadOf, ComesOf
    <3>. QED BY <3>1, <3>2
  <2>3. (\A p \in 1..Len(b) : b[p] # e) /\ (\A p \in 1..Len(a) : a[p] # e)
    <3>1. /\ Len(b) \in Nat /\ Len(a) \in Nat /\ Len(s) = Len(b) + Len(a)
          /\ \A i \in 1..(Len(b) + Len(a)) : s[i] = IF i <= Len(b) THEN b[i] ELSE a[i - Len(b)]
      <4>1. b \in Seq(S) /\ a \in Seq(S) /\ s = b \o a
        BY <2>2
      <4>. QED BY <4>1, JoinIs
    <3>2. ASSUME NEW p \in 1..Len(b) PROVE b[p] # e
      BY <1>6, <3>1
    <3>3. ASSUME NEW p \in 1..Len(a) PROVE a[p] # e
      <4>1. Len(b) + p \in 1..Len(s) /\ ~(Len(b) + p <= Len(b)) /\ (Len(b) + p) - Len(b) = p
        BY <3>1
      <4>. QED BY <1>6, <3>1, <4>1
    <3>. QED BY <3>2, <3>3
  <2>4. Without(b, e) = b /\ Without(a, e) = a
    BY <2>2, <2>3, WithoutNone
  <2>. QED BY <1>1, <1>3, <2>1, <2>4 DEF Moves, Follows, Stayed
<1>. QED BY <1>5, <1>6

(* The end of a firing.                                                    *)
LEMMA EndMoves ==
  ASSUME NEW c, Valid(c), c.firing, NEW stops, c.on => ComesOf(c) = <<>> \/ stops
  PROVE  /\ Moves(stops, c, Over(c))
         /\ Moves(stops, c, [Over(c) EXCEPT !.fns = <<>>])
         /\ Moves(stops, c, Off(Over(c)))
         /\ c.on => \A q, mem, v : Moves(stops, c, Starts([Over(c) EXCEPT !.queue = q], mem, v, 0))
<1>1. PICK o : o = Over(c)
  OBVIOUS
<1>2. o = [fns |-> c.fns, on |-> c.on, repeats |-> c.repeats, queue |-> c.queue, memory |-> c.memory,
           data |-> c.data, fired |-> c.fired, firing |-> FALSE, index |-> c.index,
           length |-> c.length, at |-> "idle"]
  BY <1>1 DEF Over, Valid, Whole
<1>3. PICK S : c.fns \in Seq(S)
  BY DEF Valid, Whole
<1>4. HadOf(c) \o ComesOf(c) = c.fns /\ (ComesOf(c) = <<>> \/ stops)
  <2>1. ~c.on => ComesOf(c) = <<>>
    BY DEF ComesOf
  <2>. QED BY <2>1, SeenIs
<1>5. ASSUME NEW d, Valid(d), ~d.firing, d.fns \in {c.fns, <<>>} PROVE Moves(stops, c, d)
  <2>1. HadOf(d) = d.fns /\ ComesOf(d) = <<>>
    BY <1>5 DEF HadOf, ComesOf
  <2>2. Ended(stops, HadOf(c), ComesOf(c), c.firing, HadOf(d), ComesOf(d), d.firing)
    BY <1>4, <1>5, <2>1 DEF Ended
  <2>. QED BY <1>5, <2>2 DEF Moves, Follows
<1>6. Valid(o)
  BY <1>2 DEF Valid, Whole, InPlaceOf
<1>7. Moves(stops, c, o)
  BY <1>2, <1>5, <1>6
<1>8. Moves(stops, c, [o EXCEPT !.fns = <<>>])
  <2>1. PICK d : d = [o EXCEPT !.fns = <<>>]
    OBVIOUS
  <2>2. d = [fns |-> <<>>, on |-> c.on, repeats |-> c.repeats, queue |-> c.queue, memory |-> c.memory,
             data |-> c.data, fired |-> c.fired, firing |-> FALSE, index |-> c.index,
             length |-> c.length, at |-> "idle"]
    BY <1>2, <2>1
  <2>3. Valid(d)
    BY <2>2 DEF Valid, Whole, InPlaceOf
  <2>. QED BY <1>5, <2>1, <2>2, <2>3
<1>9. Moves(stops, c, Off(o))
  <2>1. PICK d : d = Off(o)
    OBVIOUS
  <2>2. d = [fns |-> <<>>, on |-> FALSE, repeats |-> FALSE, queue |-> <<>>, memory |-> NoValue,
             data |-> c.data, fired |-> c.fired, firing |-> FALSE, index |-> c.index,
             length |-> c.length, at |-> "idle"]
    BY <1>2, <2>1 DEF Off
  <2>3. Valid(d)
    BY <2>2 DEF Valid, Whole, InPlaceOf
  <2>. QED BY <1>5, <2>1, <2>2, <2>3
<1>10. ASSUME c.on, NEW q, NEW mem, NEW v PROVE Moves(stops, c, Starts([o EXCEPT !.queue = q], mem, v, 0))
  <2>1. PICK g, d : g = [o EXCEPT !.queue = q] /\ d = Starts(g, mem, v, 0)
    OBVIOUS
  <2>2. g = [fns |-> c.fns, on |-> c.on, repeats |-> c.repeats, queue |-> q, memory |-> c.memory,
             data |-> c.data, fired |-> c.fired, firing |-> FALSE, index |-> c.index,
             length |-> c.length, at |-> "idle"]
    BY <1>2, <2>1
  <2>3. Valid(g) /\ g.on /\ ~g.firing
    BY <1>10, <2>2 DEF Valid, Whole, InPlaceOf
  <2>4. Moves(stops, g, d)
    BY <2>1, <2>3, StartMoves
  <2>5. d.fns = c.fns /\ d.on /\ d.firing /\ TurnOf(d) = 0
    <3>1. d = [fns |-> c.fns, on |-> c.on, repeats |-> c.repeats, queue |-> q, memory |-> mem,
               data |-> v, fired |-> TRUE, firing |-> TRUE, index |-> 0, length |-> Len(c.fns), at |-> "loop"]
      <4>1. d = [fns |-> g.fns, on |-> g.on, repeats |-> g.repeats, queue |-> g.queue, memory |-> mem,
                 data |-> v, fired |-> TRUE, firing |-> TRUE, index |-> 0, length |-> Len(g.fns), at |-> "loop"]
        BY <2>1, <2>3 DEF Starts, Valid, Whole
      <4>. QED BY <2>2, <4>1
    <3>. QED BY <1>10, <3>1 DEF TurnOf, InCall
  <2>6. HadOf(d) = <<>> /\ ComesOf(d) = c.fns
    <3>1. SubSeq(c.fns, 1, 0) = <<>> /\ SubSeq(c.fns, 0 + 1, Len(c.fns)) = c.fns
      BY <1>3
    <3>. QED BY <2>5, <3>1 DEF HadOf, ComesOf
  <2>7. Started(stops, HadOf(c), ComesOf(c), c.firing, HadOf(d), ComesOf(d), d.firing)
    BY <1>4, <2>5, <2>6 DEF Started
  <2>. QED BY <2>1, <2>4, <2>7 DEF Moves, Follows
<1>. QED BY <1>1, <1>7, <1>8, <1>9, <1>10

-----------------------------------------------------------------------------
(* What the methods of a list make of the lists and the calls.             *)
AreLists(C) == C = [m \in Lists |-> C[m]]
State(C, R) == [cb |-> C, run |-> R]
(* They change one list, in a way that CallbackList allows if it is sound  *)
(* and they may be called on it; its loop then runs if it is at it.        *)
Leads(C, l, may, t) ==
  \E d : /\ t.cb = [C EXCEPT ![l] = d]
         /\ Valid(C[l]) /\ may => /\ Moves(Stops(l), C[l], d)
                                  /\ d.at = "loop" => t.run # <<>> /\ l = Last(t.run)
Calm(c) == c.at # "loop"

LEMMA AppendedIs ==
  ASSUME NEW R \in Seq(Lists), NEW l \in Lists
  PROVE  Append(R, l) # <<>> /\ l = Last(Append(R, l)) /\ Append(R, l) \in Seq(Lists)
BY DEF Last

LEMMA StateIs ==
  ASSUME NEW t, NEW C, NEW R, t = State(C, R)
  PROVE  t.cb = C /\ t.run = R
BY DEF State

LEMMA FiringDoes ==
  ASSUME NEW l \in Lists, NEW C, AreLists(C), NEW R, NEW v, NEW from, NEW t,
         t = Firing(State(C, R), l, v, from)
  PROVE  \E mem : t = State([C EXCEPT ![l] = Starts(C[l], mem, v, from)], Append(R, l))
<1>1. PICK mem : mem = IF "memory" \in Flags[l] THEN v ELSE NoValue
  OBVIOUS
<1>2. t = State([C EXCEPT ![l] = Starts(C[l], mem, v, from)], Append(R, l))
  BY <1>1 DEF Firing, State, Starts, AreLists
<1>. QED BY <1>2

LEMMA SameLeads ==
  ASSUME NEW l \in Lists, NEW C, AreLists(C), NEW may, may => Calm(C[l]), NEW t, t.cb = C
  PROVE  Leads(C, l, may, t)
<1>1. t.cb = [C EXCEPT ![l] = C[l]]
  BY DEF AreLists
<1>2. Valid(C[l]) => Moves(Stops(l), C[l], C[l])
  BY SameMoves
<1>. QED BY <1>1, <1>2 DEF Leads, Calm

LEMMA FiredLeads ==
  ASSUME NEW l \in Lists, NEW C, AreLists(C), NEW R \in Seq(Lists), NEW v, NEW t,
         t = FiredWith(State(C, R), l, v)
  PROVE  Leads(C, l, Calm(C[l]), t)
<1>1. PICK c, s : c = C[l] /\ s = State(C, R)
  OBVIOUS
<1>2. s.cb = C /\ s.run = R
  BY <1>1 DEF State
<1>3. CASE ~c.on \/ (c.fired /\ ~c.repeats)
  <2>1. t = s
    BY <1>1, <1>2, <1>3 DEF FiredWith
  <2>. QED BY <1>1, <1>2, <2>1, SameLeads
<1>4. CASE c.on /\ ~(c.fired /\ ~c.repeats) /\ c.firing
  <2>1. t.cb = [C EXCEPT ![l] = [c EXCEPT !.queue = Append(c.queue, v)]]
    <3>1. t = [s EXCEPT !.cb[l].queue = Append(@, v)]
      BY <1>1, <1>2, <1>4 DEF FiredWith
    <3>2. s = [cb |-> C, run |-> R]
      BY <1>1 DEF State
    <3>. QED BY <1>1, <3>1, <3>2 DEF AreLists
  <2>2. PICK d : d = [c EXCEPT !.queue = Append(c.queue, v)]
    OBVIOUS
  <2>3. Valid(c) => Moves(Stops(l), c, d) /\ d.at = c.at
    <3>. SUFFICES ASSUME Valid(c) PROVE Moves(Stops(l), c, d) /\ d.at = c.at
      OBVIOUS
    <3>1. Moves(Stops(l), c, d)
      BY <2>2, QueueMoves
    <3>2. d.at = c.at
      BY <2>2 DEF Valid, Whole
    <3>. QED BY <3>1, <3>2
  <2>. QED BY <1>1, <2>1, <2>2, <2>3 DEF Leads, Calm
<1>5. CASE c.on /\ ~(c.fired /\ ~c.repeats) /\ ~c.firing
  <2>1. t = Firing(s, l, v, 0)
    BY <1>1, <1>2, <1>5 DEF FiredWith
  <2>2. PICK mem : t = State([C EXCEPT ![l] = Starts(c, mem, v, 0)], Append(R, l))
    BY <1>1, <2>1, FiringDoes
  <2>3. t.cb = [C EXCEPT ![l] = Starts(c, mem, v, 0)] /\ t.run = Append(R, l)
    BY <2>2, StateIs
  <2>4. Valid(c) => Moves(Stops(l), c, Starts(c, mem, v, 0))
    BY <1>5, StartMoves
  <2>. QED BY <1>1, <2>3, <2>4, AppendedIs DEF Leads
<1>. QED BY <1>3, <1>4, <1>5

LEMMA AddedLeads ==
  ASSUME NEW l \in Lists, NEW C, AreLists(C), NEW R \in Seq(Lists), NEW e, NEW t,
         t = Added(State(C, R), l, e)
  PROVE  Leads(C, l, Calm(C[l]), t)
<1>1. PICK c, s : c = C[l] /\ s = State(C, R)
  OBVIOUS
<1>2. s.cb = C /\ s.run = R /\ s = [cb |-> C, run |-> R]
  BY <1>1 DEF State
<1>3. CASE ~c.on
  <2>1. t = s
    BY <1>1, <1>2, <1>3 DEF Added
  <2>. QED BY <1>1, <1>2, <2>1, SameLeads
<1>4. PICK longer : longer = [s EXCEPT !.cb[l].fns = Append(@, e)]
  OBVIOUS
<1>5. longer = State([C EXCEPT ![l] = With(c, e)], R)
  BY <1>1, <1>2, <1>4 DEF State, With, AreLists
<1>6. PICK u : u = IF "unique" \in Flags[l] /\ Contains(c.fns, e) THEN s ELSE longer
  OBVIOUS
<1>7. \E g \in {c, With(c, e)} : \E D : D = [C EXCEPT ![l] = g] /\ u = State(D, R) /\ D[l] = g /\ AreLists(D)
  <2>1. CASE u = s
    <3>1. C = [C EXCEPT ![l] = c] /\ C[l] = c /\ u = State(C, R)
      BY <1>1, <2>1 DEF AreLists
    <3>. QED BY <3>1
  <2>2. CASE u = longer
    <3>1. PICK D : D = [C EXCEPT ![l] = With(c, e)]
      OBVIOUS
    <3>2. D[l] = With(c, e) /\ AreLists(D)
      BY <3>1 DEF AreLists
    <3>. QED BY <1>5, <2>2, <3>1, <3>2
  <2>. QED BY <1>6, <2>1, <2>2
<1>8. PICK g, D : g \in {c, With(c, e)} /\ D = [C EXCEPT ![l] = g] /\ u = State(D, R) /\ D[l] = g /\ AreLists(D)
  BY <1>7
<1>9. \A x : [D EXCEPT ![l] = x] = [C EXCEPT ![l] = x]
  BY <1>8 DEF AreLists
<1>10. CASE c.on /\ c.firing
  <2>1. t = ToTheEnd(u, l)
    BY <1>1, <1>2, <1>4, <1>6, <1>10 DEF Added
  <2>2. t.cb = [D EXCEPT ![l] = [g EXCEPT !.length = Len(g.fns)]]
    <3>1. u = [cb |-> D, run |-> R]
      BY <1>8 DEF State
    <3>2. t = [u EXCEPT !.cb[l].length = Len(g.fns)]
      <4>1. u.cb = D /\ D[l] = g
        BY <1>8, StateIs
      <4>2. t = [u EXCEPT !.cb[l].length = Len(u.cb[l].fns)]
        BY <2>1, Zenon DEF ToTheEnd
      <4>. QED BY <4>1, <4>2, Zenon
    <3>3. t.cb = [D EXCEPT ![l] = [D[l] EXCEPT !.length = Len(g.fns)]]
      BY <3>1, <3>2
    <3>. QED BY <1>8, <3>3, Zenon
  <2>3. PICK d : d = [g EXCEPT !.length = Len(g.fns)]
    OBVIOUS
  <2>4. Valid(c) => Moves(Stops(l), c, d)
    BY <1>8, <1>10, <2>3, ToTheEndMoves
  <2>5. Valid(c) => d.at = c.at
    <3>. SUFFICES ASSUME Valid(c) PROVE d.at = c.at
      OBVIOUS
    <3>1. Whole(g) /\ g.at = c.at
      BY <1>8, WithIs DEF Valid
    <3>. QED BY <2>3, <3>1 DEF Whole
  <2>. QED BY <1>1, <1>9, <2>2, <2>3, <2>4, <2>5 DEF Leads, Calm
<1>11. CASE c.on /\ ~c.firing /\ c.memory # NoValue
  <2>1. t = Firing(u, l, c.memory, Len(c.fns))
    BY <1>1, <1>2, <1>4, <1>6, <1>11 DEF Added
  <2>2. PICK v, n : v = c.memory /\ n = Len(c.fns)
    OBVIOUS
  <2>3. PICK mem : t = State([D EXCEPT ![l] = Starts(g, mem, v, n)], Append(R, l))
    <3>1. AreLists(D)
      BY <1>8
    <3>2. t = Firing(State(D, R), l, v, n) /\ D[l] = g
      BY <1>8, <2>1, <2>2, Zenon
    <3>3. PICK mem : t = State([D EXCEPT ![l] = Starts(D[l], mem, v, n)], Append(R, l))
      BY <3>1, <3>2, FiringDoes
    <3>. QED BY <3>2, <3>3, Zenon
  <2>4. t.cb = [C EXCEPT ![l] = Starts(g, mem, v, n)] /\ t.run = Append(R, l)
    <3>1. t.cb = [D EXCEPT ![l] = Starts(g, mem, v, n)] /\ t.run = Append(R, l)
      BY <2>3, StateIs
    <3>. QED BY <1>9, <3>1, Zenon
  <2>5. Valid(c) => Moves(Stops(l), c, Starts(g, mem, v, n))
    BY <1>8, <1>11, <2>2, StartOnMoves
  <2>. QED BY <1>1, <2>4, <2>5, AppendedIs DEF Leads
<1>12. CASE c.on /\ ~c.firing /\ c.memory = NoValue
  <2>1. t = u
    BY <1>1, <1>2, <1>4, <1>6, <1>12 DEF Added
  <2>2. t.cb = [C EXCEPT ![l] = g]
    <3>1. t.cb = D
      BY <1>8, <2>1, StateIs
    <3>. QED BY <1>8, <3>1
  <2>3. Valid(c) => Moves(Stops(l), c, g)
    BY <1>8, <1>12, SameMoves, WithMoves
  <2>4. Valid(c) => g.at = c.at
    BY <1>8, WithIs DEF Valid
  <2>. QED BY <1>1, <2>2, <2>3, <2>4 DEF Leads, Calm
<1>. QED BY <1>3, <1>10, <1>11, <1>12

LEMMA DroppedLeads ==
  ASSUME NEW l \in Lists, NEW C, AreLists(C), NEW R, NEW e, NEW t,
         t = Dropped(State(C, R), l, e), C[l].on
  PROVE  Leads(C, l, Calm(C[l]), t) /\ t.run = R
<1>1. PICK c, s, L, M : /\ c = C[l] /\ s = State(C, R)
                        /\ L = Shorter(PlacesOf(c.fns, e)) /\ M = MovesBack(PlacesOf(c.fns, e), c)
  OBVIOUS
<1>2. s.cb = C /\ s.run = R /\ s = [cb |-> C, run |-> R]
  BY <1>1 DEF State
<1>3. t = IF c.firing THEN [[s EXCEPT !.cb[l].fns = Without(@, e)] EXCEPT !.cb[l].length = @ - L, !.cb[l].index = @ - M]
          ELSE [s EXCEPT !.cb[l].fns = Without(@, e)]
  <2>1. Dropped(s, l, e)
          = IF s.cb[l].firing
            THEN [[s EXCEPT !.cb[l].fns = Without(@, e)] EXCEPT
                    !.cb[l].length = @ - Shorter(PlacesOf(s.cb[l].fns, e)),
                    !.cb[l].index = @ - MovesBack(PlacesOf(s.cb[l].fns, e), s.cb[l])]
            ELSE [s EXCEPT !.cb[l].fns = Without(@, e)]
    BY Zenon DEF Dropped, PlacesOf
  <2>2. s.cb[l] = c /\ t = Dropped(s, l, e)
    BY <1>1, <1>2
  <2>3. /\ L = Shorter(PlacesOf(s.cb[l].fns, e)) /\ M = MovesBack(PlacesOf(s.cb[l].fns, e), s.cb[l])
        /\ s.cb[l].firing = c.firing
    BY <1>1, <2>2, Zenon
  <2>. QED BY <2>1, <2>2, <2>3, Zenon
<1>4. PICK u, D : /\ u = [s EXCEPT !.cb[l].fns = Without(@, e)]
                  /\ D = [C EXCEPT ![l] = [c EXCEPT !.fns = Without(c.fns, e)]]
  OBVIOUS
<1>5. u = [cb |-> D, run |-> R] /\ AreLists(D) /\ D[l] = [c EXCEPT !.fns = Without(c.fns, e)]
  BY <1>1, <1>2, <1>4 DEF AreLists
<1>6. t.cb = [C EXCEPT ![l] = Less(c, e)] /\ t.run = R
  <2>1. CASE ~c.firing
    <3>1. t = u /\ Less(c, e) = [c EXCEPT !.fns = Without(c.fns, e)]
      BY <1>3, <1>4, <2>1 DEF Less
    <3>. QED BY <1>4, <1>5, <3>1
  <2>2. CASE c.firing
    <3>1. t = [u EXCEPT !.cb[l].length = @ - L, !.cb[l].index = @ - M]
      BY <1>3, <1>4, <2>2
    <3>2. PICK g : g = [D[l] EXCEPT !.length = @ - L, !.index = @ - M]
      OBVIOUS
    <3>3. t.cb = [D EXCEPT ![l] = g] /\ t.run = R
      <4>1. PICK x, y, z : x = D[l].length - L /\ y = D[l].index - M /\ z = [D[l] EXCEPT !.length = x]
        OBVIOUS
      <4>2. u.cb[l] = D[l]
        BY <1>5
      <4>3. t = [[u EXCEPT !.cb[l].length = x] EXCEPT !.cb[l].index = y]
        BY <3>1, <4>1, <4>2
      <4>4. PICK u1, E : u1 = [u EXCEPT !.cb[l].length = x] /\ E = [D EXCEPT ![l] = z]
        OBVIOUS
      <4>5. u1 = [cb |-> [D EXCEPT ![l] = [D[l] EXCEPT !.length = x]], run |-> R]
        BY <1>5, <4>4
      <4>6. u1 = [cb |-> E, run |-> R]
        BY <4>1, <4>4, <4>5, Zenon
      <4>7. t = [u1 EXCEPT !.cb[l].index = y]
        BY <4>3, <4>4, Zenon
      <4>8. t.cb = [E EXCEPT ![l] = [E[l] EXCEPT !.index = y]] /\ t.run = R
        BY <4>6, <4>7
      <4>9. E[l] = z /\ \A w : [E EXCEPT ![l] = w] = [D EXCEPT ![l] = w]
        BY <1>5, <4>4 DEF AreLists
      <4>10. g = [z EXCEPT !.index = y]
        BY <3>2, <4>1
      <4>. QED BY <4>8, <4>9, <4>10, Zenon
    <3>4. g = Less(c, e)
      BY <1>1, <1>5, <2>2, <3>2 DEF Less
    <3>5. [D EXCEPT ![l] = g] = [C EXCEPT ![l] = g]
      BY <1>4 DEF AreLists
    <3>. QED BY <3>3, <3>4, <3>5
  <2>. QED BY <2>1, <2>2
<1>7. ASSUME Valid(c), Calm(c) PROVE Moves(Stops(l), c, Less(c, e)) /\ Less(c, e).at = c.at
  <2>1. Moves(Stops(l), c, Less(c, e))
    BY <1>1, <1>7, LessMoves DEF Calm
  <2>2. Less(c, e).at = c.at
    BY <1>7 DEF Less, Valid, Whole
  <2>. QED BY <2>1, <2>2
<1>. QED BY <1>1, <1>6, <1>7 DEF Leads, Calm

LEMMA DisabledLeads ==
  ASSUME NEW l \in Lists, NEW C, AreLists(C), NEW R, NEW t, t = Disabled(State(C, R), l)
  PROVE  t.cb = [C EXCEPT ![l] = Off(C[l])] /\ t.run = R /\ Leads(C, l, Calm(C[l]), t)
<1>1. t.cb = [C EXCEPT ![l] = Off(C[l])] /\ t.run = R
  BY DEF Disabled, State, Off, AreLists
<1>2. Valid(C[l]) => Moves(Stops(l), C[l], Off(C[l])) /\ Off(C[l]).at = C[l].at
  BY OffMoves DEF Valid, Whole, Off
<1>. QED BY <1>1, <1>2 DEF Leads, Calm

LEMMA LockedLeads ==
  ASSUME NEW l \in Lists, NEW C, AreLists(C), NEW R, NEW t, t = Locked(State(C, R), l)
  PROVE  /\ t.cb \in {[C EXCEPT ![l] = Off(C[l])], [C EXCEPT ![l] = Kept(C[l])]}
         /\ t.run = R /\ Leads(C, l, Calm(C[l]), t)
<1>1. State(C, R).cb = C
  BY DEF State
<1>2. CASE C[l].memory = NoValue
  <2>1. t = Disabled(State(C, R), l)
    BY <1>1, <1>2 DEF Locked
  <2>2. t.cb = [C EXCEPT ![l] = Off(C[l])] /\ t.run = R /\ Leads(C, l, Calm(C[l]), t)
    BY <2>1, DisabledLeads
  <2>. QED BY <2>2, Zenon
<1>3. CASE C[l].memory # NoValue
  <2>1. t.cb = [C EXCEPT ![l] = Kept(C[l])] /\ t.run = R
    BY <1>3 DEF Locked, State, Kept, AreLists
  <2>2. Valid(C[l]) => Moves(Stops(l), C[l], Kept(C[l])) /\ Kept(C[l]).at = C[l].at
    BY KeptMoves DEF Valid, Whole, Kept
  <2>. QED BY <2>1, <2>2 DEF Leads, Calm
<1>. QED BY <1>2, <1>3

LEMMA EmptiedLeads ==
  ASSUME NEW l \in Lists, NEW C, AreLists(C), NEW R, NEW t, t = Emptied(State(C, R), l)
  PROVE  Leads(C, l, Calm(C[l]) /\ ~C[l].firing, t) /\ t.run = R
<1>1. PICK d : d = [C[l] EXCEPT !.fns = <<>>, !.on = TRUE]
  OBVIOUS
<1>2. t.cb = [C EXCEPT ![l] = d] /\ t.run = R
  BY <1>1 DEF Emptied, State, AreLists
<1>3. ASSUME Valid(C[l]), ~C[l].firing PROVE Moves(Stops(l), C[l], d) /\ d.at = C[l].at
  BY <1>1, <1>3, EmptyMoves DEF Valid, Whole
<1>. QED BY <1>2, <1>3 DEF Leads, Calm

LEMMA ReturnedLeads ==
  ASSUME NEW l \in Lists, NEW C, AreLists(C), NEW R \in Seq(Lists), R # <<>>, NEW t,
         t = Returned(State(C, R), l)
  PROVE  Leads(C, l, C[l].firing /\ (C[l].on => ComesOf(C[l]) = <<>> \/ Stops(l)), t)
<1>1. PICK c, back : c = C[l] /\ back = State([C EXCEPT ![l] = Over(c)], Front(R))
  OBVIOUS
<1>2. State(C, R).cb = C /\ State(C, R).run = R
  BY DEF State
<1>3. back = [cb |-> [State(C, R).cb EXCEPT ![l] = [@ EXCEPT !.firing = FALSE, !.at = "idle"]],
              run |-> Front(State(C, R).run)]
  BY <1>1, <1>2 DEF State, Over, AreLists
<1>4. PICK D : D = [C EXCEPT ![l] = Over(c)]
  OBVIOUS
<1>5. back = [cb |-> D, run |-> Front(R)] /\ AreLists(D) /\ D[l] = Over(c)
  BY <1>1, <1>4 DEF State, AreLists
<1>6. \A x : [D EXCEPT ![l] = x] = [C EXCEPT ![l] = x]
  BY <1>4 DEF AreLists
<1>7. PICK may : may <=> c.firing /\ (c.on => ComesOf(c) = <<>> \/ Stops(l))
  OBVIOUS
<1>8. ASSUME Valid(c), may
      PROVE  /\ Moves(Stops(l), c, Over(c)) /\ Moves(Stops(l), c, [Over(c) EXCEPT !.fns = <<>>])
             /\ Moves(Stops(l), c, Off(Over(c)))
             /\ c.on => \A q, mem, v : Moves(Stops(l), c, Starts([Over(c) EXCEPT !.queue = q], mem, v, 0))
             /\ Over(c).at = "idle" /\ [Over(c) EXCEPT !.fns = <<>>].at = "idle" /\ Off(Over(c)).at = "idle"
  <2>1. c.firing /\ (c.on => ComesOf(c) = <<>> \/ Stops(l))
    BY <1>7, <1>8
  <2>2. Over(c).at = "idle" /\ [Over(c) EXCEPT !.fns = <<>>].at = "idle" /\ Off(Over(c)).at = "idle"
    <3>1. PICK o : o = Over(c)
      OBVIOUS
    <3>2. o = [fns |-> c.fns, on |-> c.on, repeats |-> c.repeats, queue |-> c.queue, memory |-> c.memory,
               data |-> c.data, fired |-> c.fired, firing |-> FALSE, index |-> c.index,
               length |-> c.length, at |-> "idle"]
      BY <1>8, <3>1 DEF Over, Valid, Whole
    <3>. QED BY <3>1, <3>2 DEF Off
  <2>. QED BY <1>8, <2>1, <2>2, EndMoves
<1>9. CASE ~c.on \/ (c.repeats /\ c.queue = <<>>)
  <2>1. t = back
    BY <1>1, <1>2, <1>3, <1>9 DEF Returned
  <2>2. t.cb = [C EXCEPT ![l] = Over(c)]
    BY <1>4, <1>5, <2>1
  <2>. QED BY <1>1, <1>7, <1>8, <2>2 DEF Leads
<1>10. CASE c.on /\ c.repeats /\ c.queue # <<>>
  <2>1. PICK u : u = [back EXCEPT !.cb[l].queue = Tail(@)]
    OBVIOUS
  <2>2. t = Firing(u, l, Head(c.queue), 0)
    BY <1>1, <1>2, <1>3, <1>10, <2>1 DEF Returned
  <2>3. PICK q, F : q = Tail(D[l].queue) /\ F = [D EXCEPT ![l] = [D[l] EXCEPT !.queue = q]]
    OBVIOUS
  <2>4. u = [cb |-> F, run |-> Front(R)]
    BY <1>5, <2>1, <2>3 DEF AreLists
  <2>5. AreLists(F) /\ F[l] = [Over(c) EXCEPT !.queue = q] /\ \A x : [F EXCEPT ![l] = x] = [D EXCEPT ![l] = x]
    BY <1>5, <2>3 DEF AreLists
  <2>6. PICK v : v = Head(c.queue)
    OBVIOUS
  <2>7. t = Firing(State(F, Front(R)), l, v, 0)
    BY <2>2, <2>4, <2>6 DEF State
  <2>8. PICK mem : t = State([F EXCEPT ![l] = Starts(F[l], mem, v, 0)], Append(Front(R), l))
    BY <2>5, <2>7, FiringDoes
  <2>9. t.cb = [C EXCEPT ![l] = Starts([Over(c) EXCEPT !.queue = q], mem, v, 0)] /\ t.run = Append(Front(R), l)
    <3>1. PICK G, Q : G = [F EXCEPT ![l] = Starts(F[l], mem, v, 0)] /\ Q = Append(Front(R), l)
      OBVIOUS
    <3>2. t = State(G, Q)
      BY <2>8, <3>1
    <3>3. t.cb = G /\ t.run = Q
      BY <3>2, StateIs
    <3>. QED BY <1>6, <2>5, <3>1, <3>3, Zenon
  <2>10. Front(R) \in Seq(Lists)
    BY FrontIs
  <2>11. t.run # <<>> /\ l = Last(t.run)
    BY <2>9, <2>10, AppendedIs
  <2>12. Valid(c) /\ may => Moves(Stops(l), c, Starts([Over(c) EXCEPT !.queue = q], mem, v, 0))
    BY <1>8, <1>10
  <2>. QED BY <1>1, <1>7, <2>9, <2>11, <2>12 DEF Leads
<1>11. CASE c.on /\ ~c.repeats /\ c.memory # NoValue
  <2>1. t = [back EXCEPT !.cb[l].fns = <<>>]
    BY <1>1, <1>2, <1>3, <1>11 DEF Returned
  <2>2. t.cb = [D EXCEPT ![l] = [D[l] EXCEPT !.fns = <<>>]]
    BY <1>5, <2>1
  <2>3. t.cb = [C EXCEPT ![l] = [Over(c) EXCEPT !.fns = <<>>]]
    BY <1>5, <1>6, <2>2, Zenon
  <2>. QED BY <1>1, <1>7, <1>8, <2>3 DEF Leads
<1>12. CASE c.on /\ ~c.repeats /\ c.memory = NoValue
  <2>1. t = Disabled(back, l)
    BY <1>1, <1>2, <1>3, <1>12 DEF Returned
  <2>2. t = Disabled(State(D, Front(R)), l)
    BY <1>1, <1>4, <2>1
  <2>3. t.cb = [D EXCEPT ![l] = Off(D[l])]
    BY <1>5, <2>2, DisabledLeads
  <2>4. t.cb = [C EXCEPT ![l] = Off(Over(c))]
    BY <1>5, <1>6, <2>3, Zenon
  <2>. QED BY <1>1, <1>7, <1>8, <2>4 DEF Leads
<1>. QED BY <1>9, <1>10, <1>11, <1>12

-----------------------------------------------------------------------------
(* Lists nobody has emptied while they fired are sound, and the loop of    *)
(* none but the innermost is between two callbacks.                        *)
TurnsInv ==
  /\ AreLists(cb) /\ run \in Seq(Lists)
  /\ \A l \in Lists : l \notin spoilt => /\ Valid(cb[l])
                                         /\ cb[l].at = "loop" => run # <<>> /\ l = Last(run)
Goes == \A l \in Lists : l \in spoilt' \/ Moves(Stops(l), cb[l], cb'[l])
Others(l) == \A m \in Lists : m \notin spoilt /\ m # l => Calm(cb[m])
NoneLoops == \A m \in Lists : m \notin spoilt => Calm(cb[m])

LEMMA OnlyCurrent ==
  ASSUME TurnsInv
  PROVE  Others(Current) /\ (run = <<>> \/ cb[Current].at # "loop" => NoneLoops)
BY DEF TurnsInv, Others, NoneLoops, Calm, Current

LEMMA OneGoes ==
  ASSUME TurnsInv, NEW l \in Lists, Others(l), NEW may, NEW t, Leads(cb, l, may, t),
         cb' = t.cb, run' = t.run, run' \in Seq(Lists), spoilt \subseteq spoilt',
         l \in spoilt' \/ may
  PROVE  TurnsInv' /\ Goes
<1>1. PICK d : /\ cb' = [cb EXCEPT ![l] = d]
               /\ Valid(cb[l]) /\ may => /\ Moves(Stops(l), cb[l], d)
                                         /\ d.at = "loop" => run' # <<>> /\ l = Last(run')
  BY DEF Leads
<1>2. AreLists(cb') /\ cb'[l] = d /\ \A m \in Lists : m # l => cb'[m] = cb[m]
  BY <1>1 DEF TurnsInv, AreLists
<1>3. ASSUME NEW m \in Lists, m \notin spoilt'
      PROVE  /\ Moves(Stops(m), cb[m], cb'[m]) /\ Valid(cb'[m])
             /\ cb'[m].at = "loop" => run' # <<>> /\ m = Last(run')
  <2>1. m \notin spoilt /\ Valid(cb[m])
    BY <1>3 DEF TurnsInv
  <2>2. CASE m = l
    BY <1>1, <1>2, <1>3, <2>1, <2>2 DEF Moves
  <2>3. CASE m # l
    <3>1. cb'[m] = cb[m] /\ Calm(cb[m])
      BY <1>2, <2>1, <2>3 DEF Others
    <3>. QED BY <2>1, <3>1, SameMoves DEF Calm
  <2>. QED BY <2>2, <2>3
<1>. QED BY <1>2, <1>3 DEF TurnsInv, Goes

LEMMA SameGoes ==
  ASSUME TurnsInv, cb' = cb, spoilt' = spoilt, run' = run \/ (run' = <<>> /\ NoneLoops)
  PROVE  TurnsInv' /\ Goes
<1>1. run' \in Seq(Lists)
  <2>1. run \in Seq(Lists)
    BY DEF TurnsInv
  <2>2. CASE run' = run
    BY <2>1, <2>2
  <2>3. CASE run' = <<>>
    BY <2>3
  <2>. QED BY <2>2, <2>3
<1>2. \A m \in Lists : m \notin spoilt' /\ cb'[m].at = "loop" => run' # <<>> /\ m = Last(run')
  BY DEF TurnsInv, NoneLoops, Calm
<1>3. \A m \in Lists : m \notin spoilt' => Valid(cb'[m]) /\ Moves(Stops(m), cb[m], cb'[m])
  BY SameMoves DEF TurnsInv
<1>4. AreLists(cb')
  BY DEF TurnsInv
<1>. QED BY <1>1, <1>2, <1>3, <1>4 DEF TurnsInv, Goes

LEMMA NowIs == Now = State(cb, run)
BY DEF Now, State

(* Methods of a list, called when no loop is between two callbacks.        *)
LEMMA MethodGoes ==
  ASSUME TurnsInv, NoneLoops, run' \in Seq(Lists), NEW l \in Lists, NEW t, Becomes(t), spoilt' = spoilt,
         \/ \E v : t = FiredWith(Now, l, v)
         \/ \E e : t = Added(Now, l, e)
         \/ \E e : cb[l].on /\ t = Dropped(Now, l, e)
         \/ t = Disabled(Now, l)
         \/ t = Locked(Now, l)
  PROVE  TurnsInv' /\ Goes
<1>1. AreLists(cb) /\ run \in Seq(Lists) /\ cb' = t.cb /\ run' = t.run
  BY DEF TurnsInv, Becomes
<1>2. Leads(cb, l, Calm(cb[l]), t)
  <2>1. CASE \E v : t = FiredWith(Now, l, v)
    <3>1. PICK v : t = FiredWith(State(cb, run), l, v)
      BY <2>1, NowIs
    <3>. QED BY <1>1, <3>1, FiredLeads
  <2>2. CASE \E e : t = Added(Now, l, e)
    <3>1. PICK e : t = Added(State(cb, run), l, e)
      BY <2>2, NowIs
    <3>. QED BY <1>1, <3>1, AddedLeads
  <2>3. CASE \E e : cb[l].on /\ t = Dropped(Now, l, e)
    <3>1. PICK e : cb[l].on /\ t = Dropped(State(cb, run), l, e)
      BY <2>3, NowIs
    <3>. QED BY <1>1, <3>1, DroppedLeads
  <2>4. CASE t = Disabled(Now, l)
    BY <1>1, <2>4, NowIs, DisabledLeads
  <2>5. CASE t = Locked(Now, l)
    BY <1>1, <2>5, NowIs, LockedLeads
  <2>. QED BY <2>1, <2>2, <2>3, <2>4, <2>5
<1>3. CASE l \in spoilt
  <2>1. Others(l) /\ l \in spoilt'
    BY <1>3 DEF NoneLoops, Others
  <2>. QED BY <1>1, <1>2, <2>1, OneGoes
<1>4. CASE l \notin spoilt
  <2>1. Others(l) /\ Calm(cb[l])
    BY <1>4 DEF NoneLoops, Others
  <2>. QED BY <1>1, <1>2, <2>1, OneGoes
<1>. QED BY <1>3, <1>4

LEMMA EmptyGoes ==
  ASSUME TurnsInv, NoneLoops, NEW l \in Lists, Empty(l), run' \in Seq(Lists)
  PROVE  TurnsInv' /\ Goes
<1>1. PICK t : t = Emptied(Now, l)
  OBVIOUS
<1>2. AreLists(cb) /\ cb' = t.cb /\ run' = t.run
  BY <1>1 DEF TurnsInv, Empty, Calls, Becomes
<1>3. Leads(cb, l, Calm(cb[l]) /\ ~cb[l].firing, t)
  BY <1>1, <1>2, NowIs, EmptiedLeads
<1>4. spoilt \subseteq spoilt' /\ (l \in spoilt' \/ (Calm(cb[l]) /\ ~cb[l].firing))
  BY DEF Empty, NoneLoops
<1>5. Others(l)
  BY DEF NoneLoops, Others
<1>. QED BY <1>2, <1>3, <1>4, <1>5, OneGoes

(* Steps of the loop of the innermost call.                                *)
LEMMA StandGoes ==
  ASSUME TurnsInv, NEW l \in Lists, run # <<>>, l = Current, NEW where \in {"user", "wait"},
         cb' = [cb EXCEPT ![l].at = where], run' = run, spoilt' = spoilt,
         InCall(cb[l]) \/ (cb[l].at = "loop" /\ More(l) /\ cb[l].index < Len(cb[l].fns))
  PROVE  TurnsInv' /\ Goes
<1>1. PICK d, t : d = Stands(cb[l], where) /\ t = [cb |-> cb', run |-> run]
  OBVIOUS
<1>2. t.cb = [cb EXCEPT ![l] = d]
  BY <1>1 DEF Stands
<1>3. ASSUME Valid(cb[l]) PROVE Moves(Stops(l), cb[l], d) /\ d.at # "loop"
  <2>1. cb[l].firing
    BY <1>3 DEF Valid, Whole, InCall
  <2>2. InCall(cb[l]) \/ (cb[l].at = "loop" /\ cb[l].on /\ cb[l].index < Len(cb[l].fns))
    BY DEF More
  <2>3. d.at = where
    BY <1>1, <1>3 DEF Stands, Valid, Whole
  <2>. QED BY <1>1, <1>3, <2>1, <2>2, <2>3, StandsMoves
<1>4. Leads(cb, l, TRUE, t)
  BY <1>2, <1>3 DEF Leads
<1>5. cb' = t.cb /\ run' = t.run /\ run' \in Seq(Lists) /\ Others(l)
  BY <1>1, OnlyCurrent DEF TurnsInv
<1>. QED BY <1>4, <1>5, OneGoes

LEMMA MovedLeads ==
  ASSUME NEW l \in Lists, NEW C, AreLists(C), NEW R, NEW t, t = Moved(State(C, R), l)
  PROVE  t.cb = [C EXCEPT ![l] = Stepped(C[l])] /\ t.run = R
BY DEF Moved, State, Stepped, AreLists

LEMMA StepGoes ==
  ASSUME TurnsInv, NEW l \in Lists, run # <<>>, l = Current, Becomes(Moved(Now, l)), spoilt' = spoilt,
         InCall(cb[l]) \/ (cb[l].at = "loop" /\ More(l) /\ cb[l].index < Len(cb[l].fns))
  PROVE  TurnsInv' /\ Goes
<1>1. PICK d, t : d = Stepped(cb[l]) /\ t = Moved(Now, l)
  OBVIOUS
<1>2. t.cb = [cb EXCEPT ![l] = d] /\ t.run = run /\ cb' = t.cb /\ run' = t.run
  BY <1>1, NowIs, MovedLeads DEF Becomes, TurnsInv
<1>3. ASSUME Valid(cb[l]) PROVE Moves(Stops(l), cb[l], d)
  <2>1. cb[l].firing
    BY <1>3 DEF Valid, Whole, InCall
  <2>2. InCall(cb[l]) \/ (cb[l].at = "loop" /\ cb[l].on /\ cb[l].index < Len(cb[l].fns))
    BY DEF More
  <2>. QED BY <1>1, <1>3, <2>1, <2>2, SteppedMoves
<1>4. Leads(cb, l, TRUE, t)
  BY <1>2, <1>3 DEF Leads, Current
<1>5. run' \in Seq(Lists) /\ Others(l)
  BY <1>2, OnlyCurrent DEF TurnsInv
<1>. QED BY <1>2, <1>4, <1>5, OneGoes

LEMMA EndLoopGoes ==
  ASSUME TurnsInv, NEW l \in Lists, EndLoop(l), run' \in Seq(Lists)
  PROVE  TurnsInv' /\ Goes
<1>1. PICK t : t = Returned(State(cb, run), l)
  OBVIOUS
<1>2. /\ run # <<>> /\ l = Current /\ cb[l].at = "loop" /\ ~More(l)
      /\ cb' = t.cb /\ run' = t.run /\ spoilt' = spoilt
  BY <1>1, NowIs DEF EndLoop, Looping, Becomes
<1>3. AreLists(cb) /\ run \in Seq(Lists) /\ Others(l)
  BY <1>2, OnlyCurrent DEF TurnsInv
<1>4. PICK may : may <=> cb[l].firing /\ (cb[l].on => ComesOf(cb[l]) = <<>> \/ Stops(l))
  OBVIOUS
<1>5. Leads(cb, l, may, t)
  <2>1. Leads(cb, l, cb[l].firing /\ (cb[l].on => ComesOf(cb[l]) = <<>> \/ Stops(l)), t)
    BY <1>1, <1>2, <1>3, ReturnedLeads
  <2>. QED BY <1>4, <2>1 DEF Leads
<1>6. l \in spoilt' \/ may
  <2>. SUFFICES ASSUME l \notin spoilt' PROVE may
    OBVIOUS
  <2>1. PICK c : c = cb[l]
    OBVIOUS
  <2>2. Valid(c) /\ c.firing
    BY <1>2, <2>1 DEF TurnsInv, Valid, Whole
  <2>3. ASSUME c.on PROVE ComesOf(c) = <<>>
    <3>1. PICK S : c.fns \in Seq(S)
      BY <2>2 DEF Valid, Whole
    <3>2. TurnOf(c) = Len(c.fns) /\ Len(c.fns) \in Nat
      BY <1>2, <2>1, <2>2, <2>3, <3>1 DEF More, Valid, InPlaceOf, TurnOf, InCall
    <3>3. SubSeq(c.fns, Len(c.fns) + 1, Len(c.fns)) = <<>>
      BY <3>1
    <3>. QED BY <2>2, <2>3, <3>2, <3>3 DEF ComesOf
  <2>. QED BY <1>4, <2>1, <2>2, <2>3
<1>. QED BY <1>2, <1>3, <1>5, <1>6, OneGoes

LEMMA MemorySeen ==
  ASSUME NEW c, Valid(c), NEW d, d = [c EXCEPT !.memory = NoValue]
  PROVE  /\ Valid(d) /\ HadOf(d) = HadOf(c) /\ ComesOf(d) = ComesOf(c) /\ d.firing = c.firing
         /\ d.on = c.on
<1>2. d = [fns |-> c.fns, on |-> c.on, repeats |-> c.repeats, queue |-> c.queue, memory |-> NoValue,
           data |-> c.data, fired |-> c.fired, firing |-> c.firing, index |-> c.index,
           length |-> c.length, at |-> c.at]
  BY DEF Valid, Whole
<1>3. Valid(d)
  BY <1>2 DEF Valid, Whole, InPlaceOf, InCall
<1>. QED BY <1>2, <1>3 DEF HadOf, ComesOf, TurnOf, InCall

LEMMA ReturnFalseGoes ==
  ASSUME TurnsInv, NEW l \in Lists, ReturnFalse(l), run' \in Seq(Lists)
  PROVE  TurnsInv' /\ Goes
<1>1. PICK C, t : C = [cb EXCEPT ![l] = [cb[l] EXCEPT !.memory = NoValue]] /\ t = Returned(State(C, run), l)
  OBVIOUS
<1>2. [Now EXCEPT !.cb[l].memory = NoValue] = State(C, run)
  BY <1>1 DEF Now, State
<1>3. /\ run # <<>> /\ l = Current /\ InCall(cb[l]) /\ Stops(l)
      /\ cb' = t.cb /\ run' = t.run /\ spoilt' = spoilt
  BY <1>1, <1>2 DEF ReturnFalse, InUser, Becomes, InCall
<1>4. /\ AreLists(C) /\ run \in Seq(Lists) /\ Others(l) /\ C[l] = [cb[l] EXCEPT !.memory = NoValue]
      /\ \A x : [C EXCEPT ![l] = x] = [cb EXCEPT ![l] = x]
  BY <1>1, <1>3, OnlyCurrent DEF TurnsInv, AreLists
<1>5. Leads(C, l, C[l].firing /\ (C[l].on => ComesOf(C[l]) = <<>> \/ Stops(l)), t)
  BY <1>1, <1>3, <1>4, ReturnedLeads
<1>6. PICK d : /\ t.cb = [C EXCEPT ![l] = d]
               /\ Valid(C[l]) /\ C[l].firing => /\ Moves(Stops(l), C[l], d)
                                                /\ d.at = "loop" => t.run # <<>> /\ l = Last(t.run)
  BY <1>3, <1>5 DEF Leads
<1>7. ASSUME Valid(cb[l])
      PROVE  Moves(Stops(l), cb[l], d) /\ (d.at = "loop" => t.run # <<>> /\ l = Last(t.run))
  <2>1. PICK c, g : c = cb[l] /\ g = [c EXCEPT !.memory = NoValue]
    OBVIOUS
  <2>2. c.firing
    BY <1>3, <1>7, <2>1 DEF Valid, Whole, InCall
  <2>3. Valid(g) /\ HadOf(g) = HadOf(c) /\ ComesOf(g) = ComesOf(c) /\ g.firing = c.firing
    BY <1>7, <2>1, MemorySeen
  <2>4. Moves(Stops(l), g, d) /\ (d.at = "loop" => t.run # <<>> /\ l = Last(t.run))
    BY <1>4, <1>6, <2>1, <2>2, <2>3
  <2>5. Moves(Stops(l), c, d)
    BY <2>3, <2>4 DEF Moves, Follows
  <2>. QED BY <2>1, <2>4, <2>5
<1>8. Leads(cb, l, TRUE, t)
  <2>1. t.cb = [cb EXCEPT ![l] = d]
    BY <1>4, <1>6, Zenon
  <2>. QED BY <1>7, <2>1 DEF Leads
<1>. QED BY <1>3, <1>4, <1>8, OneGoes

(* A callback of a list of a deferred that shuts another one.              *)
LEMMA ShutGoes ==
  ASSUME TurnsInv, NEW l \in Lists, NEW m \in Lists, m # l, run # <<>>, l = Current,
         cb[l].at = "loop", More(l), cb[l].index < Len(cb[l].fns), spoilt' = spoilt,
         NEW u, u \in {Disabled(Now, m), Locked(Now, m)}, Becomes(Moved(u, l))
  PROVE  TurnsInv' /\ Goes
<1>1. AreLists(cb) /\ run \in Seq(Lists) /\ Others(l)
  BY OnlyCurrent DEF TurnsInv
<1>2. /\ u.cb \in {[cb EXCEPT ![m] = Off(cb[m])], [cb EXCEPT ![m] = Kept(cb[m])]}
      /\ u.run = run /\ Leads(cb, m, Calm(cb[m]), u)
  <2>1. CASE u = Disabled(State(cb, run), m)
    <3>1. u.cb = [cb EXCEPT ![m] = Off(cb[m])] /\ u.run = run /\ Leads(cb, m, Calm(cb[m]), u)
      BY <1>1, <2>1, DisabledLeads
    <3>. QED BY <3>1, Zenon
  <2>2. CASE u = Locked(State(cb, run), m)
    BY <1>1, <2>2, LockedLeads
  <2>. QED BY <2>1, <2>2, NowIs
<1>3. PICK d : /\ u.cb = [cb EXCEPT ![m] = d]
               /\ Valid(cb[m]) /\ Calm(cb[m]) => Moves(Stops(m), cb[m], d) /\ (d.at = "loop" => u.run # <<>> /\ m = Last(u.run))
  BY <1>2 DEF Leads
<1>4. AreLists(u.cb) /\ u.cb[m] = d /\ u.cb[l] = cb[l] /\ \A k \in Lists : k # m => u.cb[k] = cb[k]
  BY <1>1, <1>3 DEF AreLists
<1>5. cb' = [u.cb EXCEPT ![l] = Stepped(u.cb[l])] /\ run' = run
  <2>1. u = State(u.cb, run)
    <3>1. Now = [cb |-> cb, run |-> run]
      BY DEF Now
    <3>2. CASE u = Disabled(Now, m)
      BY <3>1, <3>2 DEF Disabled, State
    <3>3. CASE u = Locked(Now, m) /\ u # Disabled(Now, m)
      BY <3>1, <3>3 DEF Locked, State
    <3>. QED BY <3>2, <3>3
  <2>2. /\ Moved(State(u.cb, run), l).cb = [u.cb EXCEPT ![l] = Stepped(u.cb[l])]
        /\ Moved(State(u.cb, run), l).run = run
    BY <1>4, MovedLeads
  <2>3. cb' = Moved(State(u.cb, run), l).cb /\ run' = Moved(State(u.cb, run), l).run
    BY <2>1, Zenon DEF Becomes
  <2>. QED BY <2>2, <2>3, Zenon
<1>6. /\ AreLists(cb') /\ cb'[l] = Stepped(cb[l]) /\ cb'[m] = d
      /\ \A k \in Lists : k # m /\ k # l => cb'[k] = cb[k]
  BY <1>4, <1>5 DEF AreLists
<1>7. ASSUME NEW k \in Lists, k \notin spoilt'
      PROVE  /\ Moves(Stops(k), cb[k], cb'[k]) /\ Valid(cb'[k])
             /\ cb'[k].at = "loop" => run' # <<>> /\ k = Last(run')
  <2>1. k \notin spoilt /\ Valid(cb[k]) /\ (k # l => Calm(cb[k]))
    BY <1>1, <1>7 DEF TurnsInv, Others
  <2>2. CASE k = l
    <3>1. cb[l].firing /\ cb[l].on
      BY <2>1, <2>2 DEF Valid, Whole, More
    <3>2. Moves(Stops(k), cb[k], cb'[k])
      BY <1>6, <2>1, <2>2, <3>1, SteppedMoves
    <3>. QED BY <1>5, <2>2, <3>2 DEF Moves, Current
  <2>3. CASE k = m
    <3>1. Moves(Stops(m), cb[m], d) /\ (d.at = "loop" => u.run # <<>> /\ m = Last(u.run))
      BY <1>3, <2>1, <2>3
    <3>. QED BY <1>2, <1>5, <1>6, <2>3, <3>1 DEF Moves
  <2>4. CASE k # l /\ k # m
    <3>1. cb'[k] = cb[k] /\ Calm(cb[k])
      BY <1>6, <2>1, <2>4
    <3>. QED BY <2>1, <3>1, SameMoves DEF Calm
  <2>. QED BY <2>2, <2>3, <2>4
<1>. QED BY <1>1, <1>5, <1>6, <1>7 DEF TurnsInv, Goes

-----------------------------------------------------------------------------
(* The steps of the lists are steps of CallbackList.                       *)
LEMMA MinTurn ==
  ASSUME NEW c, Valid(c), c.firing, c.on
  PROVE  Min({TurnOf(c), Len(c.fns)}) = TurnOf(c)
<1>1. PICK S : c.fns \in Seq(S)
  BY DEF Valid, Whole
<1>2. TurnOf(c) \in 0..Len(c.fns) /\ Len(c.fns) \in Nat
  BY <1>1, SeenIs
<1>3. PICK s, n : s = TurnOf(c) /\ n = Len(c.fns)
  OBVIOUS
<1>4. \A x \in {s, n} : (\A y \in {s, n} : x <= y) <=> x = s
  BY <1>2, <1>3
<1>. QED BY <1>3, <1>4 DEF Min

LEMMA SeenNow ==
  ASSUME TurnsInv, NEW l \in Lists
  PROVE  /\ l \notin spoilt => /\ Behind[l] = HadOf(cb[l]) /\ Ahead[l] = ComesOf(cb[l])
                               /\ InFiring[l] <=> cb[l].firing
         /\ l \in spoilt => Behind[l] = <<>> /\ Ahead[l] = <<>> /\ ~InFiring[l]
<1>1. ASSUME l \notin spoilt PROVE Had(l) = HadOf(cb[l]) /\ ToCome(l) = ComesOf(cb[l])
  <2>1. Valid(cb[l]) /\ Turn(l) = TurnOf(cb[l])
    BY <1>1 DEF TurnsInv, Turn, TurnOf, InCall
  <2>2. cb[l].firing /\ cb[l].on => Min({Turn(l), Len(cb[l].fns)}) = TurnOf(cb[l])
    BY <2>1, MinTurn
  <2>. QED BY <2>1, <2>2 DEF Had, ToCome, HadOf, ComesOf
<1>. QED BY <1>1 DEF Behind, Ahead, InFiring

LEMMA SeenNext ==
  ASSUME TurnsInv', NEW l \in Lists
  PROVE  /\ l \notin spoilt' => /\ Behind'[l] = HadOf(cb'[l]) /\ Ahead'[l] = ComesOf(cb'[l])
                                /\ InFiring'[l] <=> cb'[l].firing
         /\ l \in spoilt' => Behind'[l] = <<>> /\ Ahead'[l] = <<>> /\ ~InFiring'[l]
<1>1. ASSUME l \notin spoilt' PROVE Had(l)' = HadOf(cb'[l]) /\ ToCome(l)' = ComesOf(cb'[l])
  <2>1. Valid(cb'[l]) /\ Turn(l)' = TurnOf(cb'[l])
    BY <1>1 DEF TurnsInv, Turn, TurnOf, InCall
  <2>2. cb'[l].firing /\ cb'[l].on => Min({TurnOf(cb'[l]), Len(cb'[l].fns)}) = TurnOf(cb'[l])
    BY <2>1, MinTurn
  <2>. QED BY <2>1, <2>2 DEF Had, ToCome, HadOf, ComesOf
<1>. QED BY <1>1 DEF Behind, Ahead, InFiring

LEMMA StepPromised ==
  ASSUME TurnsInv, TurnsInv', Goes, spoilt \subseteq spoilt'
  PROVE  Promise!Next
<1>. SUFFICES ASSUME NEW l \in Lists
              PROVE  \/ Promise!Stay(l) \/ Promise!Call(l) \/ Promise!Add(l) \/ Promise!AddAndCall(l)
                     \/ Promise!Remove(l) \/ Promise!Fire(l) \/ Promise!End(l) \/ Promise!Clear(l)
  BY DEF Promise!Next
<1>1. CASE l \in spoilt'
  BY <1>1, SeenNext DEF Promise!Clear
<1>2. CASE l \notin spoilt'
  <2>1. PICK b, a, f, B, A, F :
          /\ b = HadOf(cb[l]) /\ a = ComesOf(cb[l]) /\ f = cb[l].firing
          /\ B = HadOf(cb'[l]) /\ A = ComesOf(cb'[l]) /\ F = cb'[l].firing
    OBVIOUS
  <2>2. l \notin spoilt /\ Moves(Stops(l), cb[l], cb'[l])
    BY <1>2 DEF Goes
  <2>3. /\ Behind[l] = b /\ Ahead[l] = a /\ (InFiring[l] <=> f)
        /\ Behind'[l] = B /\ Ahead'[l] = A /\ (InFiring'[l] <=> F)
    BY <1>2, <2>1, <2>2, SeenNow, SeenNext
  <2>4. f \in BOOLEAN /\ F \in BOOLEAN /\ InFiring[l] \in BOOLEAN /\ InFiring'[l] \in BOOLEAN
    BY <1>2, <2>1, <2>2 DEF TurnsInv, Valid, Whole, InFiring
  <2>5. InFiring[l] = f /\ InFiring'[l] = F
    BY <2>3, <2>4
  <2>6. \/ Stayed(b, a, f, B, A, F) \/ Called(b, a, f, B, A, F) \/ Grew(b, a, f, B, A, F)
        \/ CalledOn(b, a, f, B, A, F) \/ Shrank(b, a, f, B, A, F) \/ Started(Stops(l), b, a, f, B, A, F)
        \/ Ended(Stops(l), b, a, f, B, A, F) \/ Cleared(b, a, f, B, A, F)
    BY <2>1, <2>2 DEF Moves, Follows
  <2>7. Stayed(b, a, f, B, A, F) => Promise!Stay(l)
    BY <2>3, <2>5 DEF Stayed, Promise!Stay
  <2>8. Called(b, a, f, B, A, F) => Promise!Call(l)
    BY <2>3, <2>5 DEF Called, Promise!Call
  <2>9. Grew(b, a, f, B, A, F) => Promise!Add(l)
    BY <2>3, <2>5 DEF Grew, Promise!Add
  <2>10. CalledOn(b, a, f, B, A, F) => Promise!AddAndCall(l)
    BY <2>3, <2>5 DEF CalledOn, Promise!AddAndCall
  <2>11. Shrank(b, a, f, B, A, F) => Promise!Remove(l)
    <3>1. SUFFICES ASSUME Shrank(b, a, f, B, A, F) PROVE Promise!Remove(l)
      OBVIOUS
    <3>2. PICK k \in 1..Len(b \o a) : B = Without(b, (b \o a)[k]) /\ A = Without(a, (b \o a)[k])
      BY <3>1 DEF Shrank
    <3>3. ASSUME NEW s, NEW e PROVE Promise!Without(s, e) = Without(s, e)
      BY DEF Without, Promise!Without
    <3>4. B = Promise!Without(b, (b \o a)[k]) /\ A = Promise!Without(a, (b \o a)[k])
      BY <3>2, <3>3
    <3>5. InFiring'[l] = InFiring[l]
      BY <2>5, <3>1 DEF Shrank
    <3>. QED BY <2>3, <3>4, <3>5 DEF Promise!Remove
  <2>12. Started(Stops(l), b, a, f, B, A, F) => Promise!Fire(l)
    BY <2>3, <2>5 DEF Started, Promise!Fire
  <2>13. Ended(Stops(l), b, a, f, B, A, F) => Promise!End(l)
    BY <2>3, <2>5 DEF Ended, Promise!End
  <2>14. Cleared(b, a, f, B, A, F) => Promise!Clear(l)
    BY <2>3, <2>5 DEF Cleared, Promise!Clear
  <2>. QED BY <2>6, <2>7, <2>8, <2>9, <2>10, <2>11, <2>12, <2>13, <2>14
<1>. QED BY <1>1, <1>2

LEMMA InitPromised == Init => TurnsInv /\ Promise!Init
<1>. SUFFICES ASSUME Init PROVE TurnsInv /\ Promise!Init
  OBVIOUS
<1>1. ASSUME NEW l \in Lists
      PROVE  /\ cb[l] = NewList(Flags[l], cb[l].fns) /\ \E S : cb[l].fns \in Seq(S)
             /\ cb[l].firing = FALSE /\ cb[l].at = "idle"
  <2>1. PICK fns : /\ fns \in {FirstCallbacks(l), <<>>} /\ cb[l] = NewList(Flags[l], fns)
    BY DEF Init
  <2>2. cb[l].fns = fns /\ cb[l].firing = FALSE /\ cb[l].at = "idle"
    BY <2>1 DEF NewList
  <2>3. \E S : fns \in Seq(S)
    <3>1. CASE fns = <<>>
      <4>1. fns \in Seq(Nat)
        BY <3>1
      <4>. QED BY <4>1
    <3>2. CASE fns = FirstCallbacks(l)
      <4>1. PICK x, y, z, S : fns = <<x, y, z>> /\ S = {x, y, z}
        BY <3>2 DEF FirstCallbacks
      <4>2. fns \in Seq(S)
        BY <4>1
      <4>. QED BY <4>2
    <3>. QED BY <2>1, <3>1, <3>2
  <2>. QED BY <2>1, <2>2, <2>3
<1>2. ASSUME NEW l \in Lists PROVE Valid(cb[l])
  <2>1. PICK c : c = cb[l]
    OBVIOUS
  <2>2. /\ c = NewList(Flags[l], c.fns) /\ \E S : c.fns \in Seq(S)
        /\ c.firing = FALSE /\ c.at = "idle"
    BY <1>1, <2>1
  <2>3. c.on = TRUE /\ c = [fns |-> c.fns, on |-> c.on, repeats |-> c.repeats, queue |-> c.queue, memory |-> c.memory,
          data |-> c.data, fired |-> c.fired, firing |-> c.firing, index |-> c.index,
          length |-> c.length, at |-> c.at]
    BY <2>2 DEF NewList
  <2>. QED BY <2>1, <2>2, <2>3 DEF Valid, Whole, InPlaceOf
<1>3. cb = [l \in Lists |-> cb[l]] /\ run = <<>> /\ run \in Seq(Lists)
  BY DEF Init
<1>4. TurnsInv
  BY <1>1, <1>2, <1>3 DEF TurnsInv, AreLists
<1>5. Promise!Init
  BY <1>1 DEF Promise!Init, Ahead, InFiring, ToCome
<1>. QED BY <1>4, <1>5

-----------------------------------------------------------------------------

(* Nothing is added to a list, fired or removed while the loop of another  *)
(* is between two callbacks.                                               *)
LEMMA WorkGoes ==
  ASSUME Inv, TurnsInv, Work, run' \in Seq(Lists)
  PROVE  TurnsInv' /\ Goes
<1>1. Working /\ spoilt' = spoilt
  BY DEF Work
<1>2. NoneLoops
  <2>1. run # <<>> => cb[Current].at # "loop"
    BY <1>1, WorkingHasNoLoop DEF InCall
  <2>. QED BY <2>1, OnlyCurrent
<1>3. PICK c : c = Last(todo).call
  OBVIOUS
<1>4. c \in CallsOf(args) /\ c[1] \in {"add", "fire"}
  BY <1>1, <1>3, FitsFront DEF Inv, TodoOK, Working, Work
<1>5. PICK l, t : l = c[2] /\ t = IF c[1] = "add" THEN Added(Now, l, c[3]) ELSE FiredWith(Now, l, c[3])
  OBVIOUS
<1>6. l \in Lists
  <2>1. l \in DeferredLists
    BY <1>4, <1>5 DEF CallsOf
  <2>. QED BY <2>1, ListsAssumption
<1>7. Becomes(t)
  BY <1>3, <1>5 DEF Work
<1>8. (\E e : t = Added(Now, l, e)) \/ (\E v : t = FiredWith(Now, l, v))
  BY <1>5
<1>. QED BY <1>1, <1>2, <1>6, <1>7, <1>8, MethodGoes

LEMMA UsersFindNoLoop ==
  ASSUME TurnsInv, NEW s, Calls(s)
  PROVE  NoneLoops /\ Becomes(s)
BY OnlyCurrent DEF Calls, InUser

LEMMA UserGoes ==
  ASSUME TurnsInv, NEW l \in Lists, run' \in Seq(Lists),
         (\E v : Fire(l, v)) \/ (\E f : Add(l, f) \/ RemoveFn(l, f)) \/ Disable(l) \/ Lock(l) \/ Empty(l)
  PROVE  TurnsInv' /\ Goes /\ spoilt \subseteq spoilt'
<1>1. CASE Empty(l)
  <2>1. NoneLoops /\ spoilt \subseteq spoilt'
    BY <1>1, UsersFindNoLoop DEF Empty
  <2>. QED BY <1>1, <2>1, EmptyGoes
<1>2. CASE (\E v : Fire(l, v)) \/ (\E f : Add(l, f) \/ RemoveFn(l, f)) \/ Disable(l) \/ Lock(l)
  <2>1. PICK t : /\ Calls(t) /\ spoilt' = spoilt
                 /\ \/ \E v : t = FiredWith(Now, l, v)
                    \/ \E e : t = Added(Now, l, e)
                    \/ \E e : cb[l].on /\ t = Dropped(Now, l, e)
                    \/ t = Disabled(Now, l)
                    \/ t = Locked(Now, l)
    BY <1>2 DEF Fire, Add, RemoveFn, Disable, Lock
  <2>2. NoneLoops /\ Becomes(t)
    BY <2>1, UsersFindNoLoop
  <2>3. TurnsInv' /\ Goes
    BY <2>1, <2>2, MethodGoes
  <2>. QED BY <2>1, <2>3
<1>. QED BY <1>1, <1>2

(* A loop that calls nothing is that of a list emptied while it fired.     *)
LEMMA NothingGoes ==
  ASSUME TurnsInv, NEW l \in Lists, CallNothing(l)
  PROVE  TurnsInv' /\ Goes
<1>1. /\ run # <<>> /\ l = Current /\ cb[l].at = "loop" /\ cb[l].on /\ cb[l].index < cb[l].length
      /\ cb[l].index >= Len(cb[l].fns) /\ run' = <<>> /\ cb' = cb /\ spoilt' = spoilt
  BY DEF CallNothing, Looping, More
<1>2. l \in spoilt
  <2>1. SUFFICES ASSUME l \notin spoilt PROVE FALSE
    OBVIOUS
  <2>2. PICK c : c = cb[l]
    OBVIOUS
  <2>3. Valid(c)
    BY <2>1, <2>2 DEF TurnsInv
  <2>4. c.firing /\ c.length = Len(c.fns)
    BY <1>1, <2>2, <2>3 DEF Valid, Whole, InPlaceOf
  <2>5. Len(c.fns) \in Nat /\ c.index \in Int
    BY <2>3, <2>4, <1>1, <2>2 DEF Valid, Whole, InPlaceOf
  <2>. QED BY <1>1, <2>2, <2>4, <2>5
<1>3. NoneLoops
  BY <1>1, <1>2, OnlyCurrent DEF Others, NoneLoops
<1>. QED BY <1>1, <1>3, SameGoes

LEMMA LoopGoes ==
  ASSUME TurnsInv, NEW l \in Lists, run' \in Seq(Lists),
         EndLoop(l) \/ CallNothing(l) \/ Return(l) \/ ReturnFalse(l)
  PROVE  TurnsInv' /\ Goes /\ spoilt' = spoilt
<1>1. CASE EndLoop(l)
  BY <1>1, EndLoopGoes DEF EndLoop
<1>2. CASE CallNothing(l)
  BY <1>2, NothingGoes DEF CallNothing
<1>3. CASE Return(l)
  <2>1. run # <<>> /\ l = Current /\ InCall(cb[l]) /\ Becomes(Moved(Now, l)) /\ spoilt' = spoilt
    BY <1>3 DEF Return, InUser, InCall
  <2>. QED BY <2>1, StepGoes
<1>4. CASE ReturnFalse(l)
  BY <1>4, ReturnFalseGoes DEF ReturnFalse
<1>. QED BY <1>1, <1>2, <1>3, <1>4

LEMMA HandlerGoes ==
  ASSUME TurnsInv, NEW l \in Lists, CallUser(l)
  PROVE  TurnsInv' /\ Goes /\ spoilt' = spoilt
<1>1. /\ run # <<>> /\ l = Current /\ cb[l].at = "loop" /\ More(l) /\ cb[l].index < Len(cb[l].fns)
      /\ cb' = [cb EXCEPT ![l].at = "user"] /\ run' = run /\ spoilt' = spoilt
  BY DEF CallUser, Looping
<1>. QED BY <1>1, StandGoes

LEMMA ThrowGoes ==
  ASSUME TurnsInv, Throw
  PROVE  TurnsInv' /\ Goes /\ spoilt' = spoilt
<1>1. InUser /\ run' = <<>> /\ cb' = cb /\ spoilt' = spoilt
  BY DEF Throw
<1>2. NoneLoops
  BY <1>1, OnlyCurrent DEF InUser
<1>. QED BY <1>1, <1>2, SameGoes

(* Callbacks of jQuery's own.                                              *)
LEMMA RunsGoes ==
  ASSUME TurnsInv, NEW l \in Lists, Runs(l, Now), run # <<>>, l = Current,
         InCall(cb[l]) \/ (cb[l].at = "loop" /\ More(l) /\ cb[l].index < Len(cb[l].fns))
  PROVE  TurnsInv' /\ Goes /\ spoilt' = spoilt
<1>1. cb' = [cb EXCEPT ![l].at = "wait"] /\ run' = run /\ spoilt' = spoilt
  BY DEF Runs, Becomes, Now
<1>. QED BY <1>1, StandGoes

LEMMA ShutsGoes ==
  ASSUME Inv, TurnsInv, NEW l \in DeferredLists, CallShut(l)
  PROVE  TurnsInv' /\ Goes /\ spoilt' = spoilt
<1>1. PICK m, u : m = Entry(l)[2] /\ u = IF Entry(l)[1] = "lock" THEN Locked(Now, m) ELSE Disabled(Now, m)
  OBVIOUS
<1>2. Internal(l) /\ Entry(l)[1] \in {"disable", "lock"} /\ Becomes(Moved(u, l)) /\ spoilt' = spoilt
  BY <1>1 DEF CallShut, Passes
<1>3. /\ l \in Deferred \X Outcomes
      /\ Entry(l)[1] = "disable" => Entry(l) = <<"disable", Across(l)>>
      /\ Entry(l)[1] = "lock" => Entry(l) = <<"lock", <<l[1], "progress">>>>
  BY <1>2, FirstCall
<1>4. m \in {Across(l), <<l[1], "progress">>}
  BY <1>1, <1>2, <1>3
<1>5. Across(l) \in DeferredLists /\ Across(l) # l
  BY <1>3, AcrossIs, OutcomeLists
<1>6. <<l[1], "progress">> \in DeferredLists /\ <<l[1], "progress">> # l
  BY <1>3, KindIs DEF DeferredLists, Outcomes
<1>7. m \in Lists /\ m # l /\ l \in Lists
  BY <1>4, <1>5, <1>6, ListsAssumption
<1>8. run # <<>> /\ l = Current /\ cb[l].at = "loop" /\ More(l) /\ cb[l].index < Len(cb[l].fns)
  BY <1>2 DEF Internal, Looping
<1>9. u \in {Disabled(Now, m), Locked(Now, m)}
  BY <1>1
<1>. QED BY <1>2, <1>7, <1>8, <1>9, ShutGoes

LEMMA InternalGoes ==
  ASSUME Inv, TurnsInv, NEW l \in DeferredLists,
         \/ CallSettle(l) \/ CallShut(l) \/ CallForward(l) \/ CallUpdate(l) \/ CallTell(l)
         \/ Resume(l) \/ CallThen(l)
         \/ \E v \in Values : ReturnValue(l, v)
         \/ \E d \in Given : ReturnPromise(l, d)
  PROVE  TurnsInv' /\ Goes /\ spoilt' = spoilt
<1>1. l \in Lists
  BY ListsAssumption
<1>2. ASSUME Internal(l)
      PROVE  run # <<>> /\ l = Current /\ cb[l].at = "loop" /\ More(l) /\ cb[l].index < Len(cb[l].fns)
  BY <1>2 DEF Internal, Looping
<1>3. CASE CallSettle(l)
  <2>1. Internal(l) /\ Becomes(Moved(Now, l)) /\ spoilt' = spoilt
    BY <1>3 DEF CallSettle, Passes
  <2>. QED BY <1>1, <1>2, <2>1, StepGoes
<1>4. CASE CallShut(l)
  BY <1>4, ShutsGoes
<1>5. CASE CallForward(l) \/ CallUpdate(l) \/ CallTell(l)
  <2>1. Internal(l) /\ Runs(l, Now)
    BY <1>5 DEF CallForward, CallUpdate, CallTell
  <2>. QED BY <1>1, <1>2, <2>1, RunsGoes
<1>6. CASE Resume(l)
  <2>1. run # <<>> /\ l = Current /\ InCall(cb[l]) /\ Becomes(Moved(Now, l)) /\ spoilt' = spoilt
    BY <1>6 DEF Resume, InCall
  <2>. QED BY <1>1, <2>1, StepGoes
<1>7. CASE CallThen(l)
  <2>1. Internal(l) /\ cb' = [cb EXCEPT ![l].at = "user"] /\ run' = run /\ spoilt' = spoilt
    BY <1>7 DEF CallThen
  <2>. QED BY <1>1, <1>2, <2>1, StandGoes
<1>8. CASE (\E v \in Values : ReturnValue(l, v)) \/ (\E d \in Given : ReturnPromise(l, d))
  <2>1. InThen(l) /\ Runs(l, Now)
    BY <1>8 DEF ReturnValue, ReturnPromise
  <2>2. run # <<>> /\ l = Current /\ InCall(cb[l])
    BY <2>1, InThenIs
  <2>. QED BY <1>1, <2>1, <2>2, RunsGoes
<1>. QED BY <1>3, <1>4, <1>5, <1>6, <1>7, <1>8

(* Observe, Finish, then() and when() leave the lists to jQuery's own code *)
(* that they have it call.                                                 *)
LEMMA NoListGoes ==
  ASSUME TurnsInv,
         \/ Observe \/ Finish
         \/ \E d \in Given, kinds \in SUBSET Kind : Then(d, kinds)
         \/ \E a \in WhenArgs : When(a)
  PROVE  TurnsInv' /\ Goes /\ spoilt' = spoilt
<1>1. CASE Observe \/ Finish
  <2>1. cb' = cb /\ run' = run /\ spoilt' = spoilt
    BY <1>1 DEF Observe, Finish, callbackVars
  <2>. QED BY <2>1, SameGoes
<1>2. CASE (\E d \in Given, kinds \in SUBSET Kind : Then(d, kinds)) \/ (\E a \in WhenArgs : When(a))
  <2>1. Calls(Now) /\ spoilt' = spoilt
    BY <1>2 DEF Then, When
  <2>2. cb' = cb /\ run' = run
    BY <2>1 DEF Calls, Becomes, Now
  <2>. QED BY <2>1, <2>2, SameGoes
<1>. QED BY <1>1, <1>2

LEMMA NextGoes ==
  ASSUME IInv, run' \in Seq(Lists), TurnsInv, Next
  PROVE  TurnsInv' /\ Goes /\ spoilt \subseteq spoilt'
<1>1. CASE Throws
  BY <1>1, ThrowGoes DEF Throws
<1>2. ASSUME NEW l \in Lists, Loop(l) \/ CallHandler(l) \/ UsePlain(l)
      PROVE  TurnsInv' /\ Goes /\ spoilt \subseteq spoilt'
  <2>1. CASE Loop(l)
    <3>1. EndLoop(l) \/ CallNothing(l) \/ Return(l) \/ ReturnFalse(l)
      BY <2>1 DEF Loop
    <3>. QED BY <3>1, LoopGoes
  <2>2. CASE CallHandler(l)
    BY <2>2, HandlerGoes DEF CallHandler
  <2>3. CASE UsePlain(l)
    <3>1. \/ (\E v : Fire(l, v)) \/ (\E f : Add(l, f) \/ RemoveFn(l, f)) \/ Disable(l) \/ Lock(l) \/ Empty(l)
      BY <2>3 DEF UsePlain, UserCall
    <3>. QED BY <3>1, UserGoes
  <2>. QED BY <1>2, <2>1, <2>2, <2>3
<1>3. CASE plain # {}
  <2>1. Throws \/ \E l \in Lists : Loop(l) \/ CallHandler(l) \/ UsePlain(l)
    BY <1>3, PlainOnly DEF IInv
  <2>. QED BY <1>1, <1>2, <2>1
<1>4. CASE plain = {}
  <2>1. Inv
    BY <1>4 DEF IInv
  <2>2. CASE Work
    <3>1. TurnsInv' /\ Goes /\ spoilt' = spoilt
      BY <2>1, <2>2, WorkGoes DEF Work
    <3>. QED BY <3>1
  <2>3. CASE \/ Observe \/ Finish
             \/ \E d \in Given, kinds \in SUBSET Kind : Then(d, kinds)
             \/ \E a \in WhenArgs : When(a)
    BY <2>3, NoListGoes
  <2>4. ASSUME NEW l \in DeferredLists,
               \/ CallSettle(l) \/ CallShut(l) \/ CallForward(l) \/ CallUpdate(l) \/ CallTell(l)
               \/ Resume(l) \/ CallThen(l)
               \/ \E v \in Values : ReturnValue(l, v)
               \/ \E d \in Given : ReturnPromise(l, d)
        PROVE  TurnsInv' /\ Goes /\ spoilt \subseteq spoilt'
    BY <2>1, <2>4, InternalGoes
  <2>5. ASSUME NEW l \in DeferredLists, (\E v \in Values : Settle(l, v)) \/ (\E f \in Fns : Handle(l, f))
        PROVE  TurnsInv' /\ Goes /\ spoilt \subseteq spoilt'
    <3>1. l \in Lists
      BY ListsAssumption
    <3>2. (\E v : Fire(l, v)) \/ (\E f : Add(l, f) \/ RemoveFn(l, f)) \/ Disable(l) \/ Lock(l) \/ Empty(l)
      BY <2>5 DEF Settle, Handle
    <3>. QED BY <3>1, <3>2, UserGoes
  <2>. QED BY <1>1, <1>2, <2>2, <2>3, <2>4, <2>5 DEF Next
<1>. QED BY <1>3, <1>4

LEMMA TurnsInductive ==
  ASSUME IInv, IInv', TurnsInv, [Next]_vars
  PROVE  TurnsInv' /\ [Promise!Next]_<<Behind, Ahead, InFiring>>
<1>1. run' \in Seq(Lists)
  <2>1. CASE plain' = {}
    <3>1. run' \in Seq(DeferredLists)
      BY <2>1 DEF IInv, Inv, RunOK
    <3>. QED BY <3>1, ListsAssumption
  <2>2. CASE plain' # {}
    <3>1. run' \in Seq(plain') /\ plain' \subseteq Lists
      BY <2>2 DEF IInv, Untouched
    <3>. QED BY <3>1
  <2>. QED BY <2>1, <2>2
<1>2. CASE Next
  <2>1. TurnsInv' /\ Goes /\ spoilt \subseteq spoilt'
    BY <1>1, <1>2, NextGoes
  <2>. QED BY <2>1, StepPromised
<1>3. CASE UNCHANGED vars
  <2>1. UNCHANGED <<cb, run, spoilt>>
    BY <1>3 DEF vars, callbackVars
  <2>2. TurnsInv' /\ Goes
    BY <2>1, SameGoes
  <2>. QED BY <2>1, <2>2, StepPromised
<1>. QED BY <1>2, <1>3

(* Whatever the callbacks do to the list that is calling them, every       *)
(* callback that is in it when its turn comes is called, once, in order:   *)
(* the indices of the loop, as add and remove move them, make each step of *)
(* the lists one that CallbackList allows.                                 *)
THEOREM CallsStayInOrder == Spec => CallsInOrder
<1>1. Init => TurnsInv /\ Promise!Init
  BY InitPromised
<1>2. IInv /\ IInv' /\ TurnsInv /\ [Next]_vars => TurnsInv' /\ [Promise!Next]_<<Behind, Ahead, InFiring>>
  BY TurnsInductive
<1>. QED BY <1>1, <1>2, AlwaysIInv, PTL DEF Spec, CallsInOrder, Promise!Spec
=============================================================================
