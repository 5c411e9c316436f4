----------------------------- MODULE Callbacks -----------------------------
(***************************************************************************)
(* jQuery.Callbacks (jquery-1.8.0.js): lists of callbacks that are fired,  *)
(* with the flags once, memory, unique and stopOnFalse.  Script runs on    *)
(* one thread, but a callback may do anything to any list, the one that is *)
(* firing it included.  `run' is the stack of the calls of fire(); a       *)
(* callback that throws unwinds it all.                                    *)
(***************************************************************************)
EXTENDS Integers, Sequences, FiniteSets, SequencesExt, Removing

CONSTANTS Lists,
          Flags,     \* Flags[l]: the options of a list
          Values,    \* bound: what lists are fired with
          NoValue,   \* undefined, false
          Fns,       \* bound: callbacks given by users of a list
          MaxCalls,  \* bound: calls on lists, from callbacks or from outside
          MaxDepth   \* bound: calls of fire() within each other

VARIABLES cb,        \* cb[l]: the variables of a list's closure
          run,       \* the lists whose fire() has begun, the innermost last
          made,      \* how many calls have been made
          spoilt     \* lists emptied while they were firing

callbackVars == <<cb, run, made, spoilt>>

(* "on" is whether list is defined, "repeats" whether stack is, queue what *)
(* is in it; index and length are firingIndex and firingLength.  "at" is   *)
(* where the loop stands: before a callback, in it, or in a fire() it did. *)
NewList(flags, fns) ==
  [fns |-> fns, on |-> TRUE, repeats |-> "once" \notin flags, queue |-> <<>>,
   memory |-> NoValue, data |-> NoValue, fired |-> FALSE, firing |-> FALSE,
   index |-> 0, length |-> 0, at |-> "idle"]
User(f) == <<"user", f>>
Current == Last(run)
Becomes(s) == cb' = s.cb /\ run' = s.run
Now == [cb |-> cb, run |-> run]

-----------------------------------------------------------------------------
(* The methods of a list, by what they make of the lists and the calls.    *)
Firing(s, l, v, from) ==
  [cb |-> [s.cb EXCEPT ![l] =
     [@ EXCEPT !.memory = IF "memory" \in Flags[l] THEN v ELSE NoValue, !.data = v,
               !.fired = TRUE, !.firing = TRUE, !.index = from, !.length = Len(s.cb[l].fns),
               !.at = "loop"]],
   run |-> Append(s.run, l)]
FiredWith(s, l, v) ==
  LET c == s.cb[l]
  IN  IF ~c.on \/ (c.fired /\ ~c.repeats) THEN s
      ELSE IF c.firing THEN [s EXCEPT !.cb[l].queue = Append(@, v)]
      ELSE Firing(s, l, v, 0)

(* add: a list that is firing goes on to the new callbacks, one that has a *)
(* memory calls them at once.  Mutant: it keeps to the old end.            *)
KeepsEnd(s, l) == s
ToTheEnd(s, l) == [s EXCEPT !.cb[l].length = Len(s.cb[l].fns)]
Added(s, l, e) ==
  LET c == s.cb[l]
      longer == [s EXCEPT !.cb[l].fns = Append(@, e)]
  IN  IF ~c.on THEN s
      ELSE LET t == IF "unique" \in Flags[l] /\ Contains(c.fns, e) THEN s ELSE longer
           IN  IF c.firing THEN ToTheEnd(t, l)
               ELSE IF c.memory # NoValue THEN Firing(t, l, c.memory, Len(c.fns))
               ELSE t

(* remove: every occurrence, moving firingIndex back over those up to it.  *)
(* Mutant: not over the current one.                                       *)
Shorter(places) == Cardinality(places)
MovesBackBefore(places, c) == Cardinality({p \in places : p - 1 < c.index})
MovesBack(places, c) == Cardinality({p \in places : p - 1 <= c.index})
Dropped(s, l, e) ==
  LET c == s.cb[l]
      places == {p \in DOMAIN c.fns : c.fns[p] = e}
      fewer == [s EXCEPT !.cb[l].fns = Without(@, e)]
  IN  IF c.firing THEN [fewer EXCEPT !.cb[l].length = @ - Shorter(places),
                                     !.cb[l].index = @ - MovesBack(places, c)]
      ELSE fewer

Emptied(s, l) == [s EXCEPT !.cb[l].fns = <<>>, !.cb[l].on = TRUE]
Disabled(s, l) ==
  [s EXCEPT !.cb[l] = [@ EXCEPT !.fns = <<>>, !.on = FALSE, !.repeats = FALSE, !.queue = <<>>,
                                !.memory = NoValue]]
Locked(s, l) ==
  IF s.cb[l].memory = NoValue THEN Disabled(s, l)
  ELSE [s EXCEPT !.cb[l] = [@ EXCEPT !.repeats = FALSE, !.queue = <<>>]]

(* The end of the loop in fire().                                          *)
Returned(s, l) ==
  LET c == s.cb[l]
      back == [cb |-> [s.cb EXCEPT ![l] = [@ EXCEPT !.firing = FALSE, !.at = "idle"]],
               run |-> Front(s.run)]
  IN  IF ~c.on THEN back
      ELSE IF c.repeats THEN
             IF c.queue = <<>> THEN back
             ELSE Firing([back EXCEPT !.cb[l].queue = Tail(@)], l, Head(c.queue), 0)
      ELSE IF c.memory # NoValue THEN [back EXCEPT !.cb[l].fns = <<>>]
      ELSE Disabled(back, l)
Moved(s, l) == [s EXCEPT !.cb[l].index = @ + 1, !.cb[l].at = "loop"]

-----------------------------------------------------------------------------
(* Steps of the loop.                                                      *)
More(l) == cb[l].on /\ cb[l].index < cb[l].length
Entry(l) == cb[l].fns[cb[l].index + 1]
Looping(l) == run # <<>> /\ l = Current /\ cb[l].at = "loop"

EndLoop(l) == /\ Looping(l) /\ ~More(l) /\ Becomes(Returned(Now, l))
              /\ UNCHANGED <<made, spoilt>>
(* After empty() the loop still runs to the old length: it calls undefined.*)
CallNothing(l) ==
  /\ Looping(l) /\ More(l) /\ cb[l].index >= Len(cb[l].fns)
  /\ run' = <<>> /\ UNCHANGED <<cb, made, spoilt>>
CallUser(l) ==
  /\ Looping(l) /\ More(l) /\ cb[l].index < Len(cb[l].fns) /\ Entry(l)[1] = "user"
  /\ cb' = [cb EXCEPT ![l].at = "user"] /\ UNCHANGED <<run, made, spoilt>>

InUser == run # <<>> /\ cb[Current].at = "user"
Stops(l) == "stopOnFalse" \in Flags[l]
Return(l) ==
  /\ InUser /\ l = Current /\ Becomes(Moved(Now, l))
  /\ UNCHANGED <<made, spoilt>>
ReturnFalse(l) ==
  /\ InUser /\ l = Current /\ Stops(l)
  /\ Becomes(Returned([Now EXCEPT !.cb[l].memory = NoValue], l))
  /\ UNCHANGED <<made, spoilt>>
Throw == InUser /\ run' = <<>> /\ UNCHANGED <<cb, made, spoilt>>

-----------------------------------------------------------------------------
(* Calls by users: from a callback, or when none is running.               *)
Calls(s) ==
  /\ made < MaxCalls /\ made' = made + 1
  /\ run = <<>> \/ InUser
  /\ Len(s.run) <= MaxDepth /\ Becomes(s)

Fire(l, v) == Calls(FiredWith(Now, l, v)) /\ UNCHANGED spoilt
Add(l, f) == Calls(Added(Now, l, User(f))) /\ UNCHANGED spoilt
RemoveFn(l, f) == cb[l].on /\ Calls(Dropped(Now, l, User(f))) /\ UNCHANGED spoilt
Disable(l) == Calls(Disabled(Now, l)) /\ UNCHANGED spoilt
Lock(l) == Calls(Locked(Now, l)) /\ UNCHANGED spoilt
Empty(l) == /\ Calls(Emptied(Now, l))
            /\ spoilt' = IF cb[l].firing THEN spoilt \cup {l} ELSE spoilt

UserCall(l) ==
  \/ \E v \in Values : Fire(l, v)
  \/ \E f \in Fns : Add(l, f) \/ RemoveFn(l, f)
  \/ Disable(l) \/ Lock(l) \/ Empty(l)

-----------------------------------------------------------------------------
(* The indices of the loop, moved by add and remove from within callbacks, *)
(* make it call every callback once, in order, that is in the list when    *)
(* its turn comes.                                                         *)
Turn(l) == cb[l].index + IF cb[l].at \in {"user", "wait"} THEN 1 ELSE 0
Had(l) == IF cb[l].firing /\ cb[l].on THEN SubSeq(cb[l].fns, 1, Min({Turn(l), Len(cb[l].fns)})) ELSE cb[l].fns
ToCome(l) == IF cb[l].firing /\ cb[l].on THEN SubSeq(cb[l].fns, Turn(l) + 1, Len(cb[l].fns)) ELSE <<>>
Behind == [l \in Lists |-> IF l \in spoilt THEN <<>> ELSE Had(l)]
Ahead == [l \in Lists |-> IF l \in spoilt THEN <<>> ELSE ToCome(l)]
InFiring == [l \in Lists |-> l \notin spoilt /\ cb[l].firing]
Promise == INSTANCE CallbackList WITH behind <- Behind, ahead <- Ahead, firing <- InFiring
CallsInOrder == Promise!Spec
=============================================================================
