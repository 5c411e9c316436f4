----------------------------- MODULE Animations -----------------------------
(***************************************************************************)
(* jQuery's queues and animations (jquery-1.8.0.js): animate, delay, stop  *)
(* and promise, on the queue "fx", and how the pages use them (effect.js). *)
(* Code that has been called and is still to run is `todo', the next call  *)
(* first; timers fire and users act when there is none.                    *)
(***************************************************************************)
EXTENDS Integers, Sequences, FiniteSets, SequencesExt

CONSTANTS Elements,
          Settings,  \* bound: what users do: [scripts, calls]
          Slide, Home(_)  \* the element effect.js moves, where item n has it

VARIABLES setting,   \* the scripts users may run, sequences of calls
          calls,     \* bound: how many they still do
          last,      \* the last script
          todo,
          queue,     \* queue[e]: animations and delays by number, or InProgress
          hooks,     \* hooks[e]: the queueHooks of e
          anims,     \* animations and delays, by number
          timers,    \* jQuery.timers
          interval,  \* whether fx.tick is called at intervals
          timeouts,  \* the delays whose timeout is set
          pos,       \* pos[e]: the property that animate() moves
          look,      \* look[e]: [size, hidden, fxshow] for show() and hide()
          waits      \* the elements a promise() waits for

vars == <<setting, calls, last, todo, queue, hooks, anims, timers, interval, timeouts, pos, look, waits>>

InProgress == 0
OnTheWay == -1
NoHooks == [on |-> FALSE, stop |-> 0, unqueued |-> 0]
Visible == [size |-> "full", hidden |-> FALSE, fxshow |-> "none"]

Init == /\ \E s \in Settings : setting = s.scripts /\ calls = s.calls
        /\ last = <<>> /\ todo = <<>>
        /\ queue = [e \in Elements |-> <<>>] /\ hooks = [e \in Elements |-> NoHooks]
        /\ anims = <<>> /\ timers = <<>> /\ interval = FALSE /\ timeouts = {}
        /\ pos = [e \in Elements |-> 0] /\ look = [e \in Elements |-> Visible] /\ waits = {}

Does(op) == todo # <<>> /\ Head(todo).op = op
Call == Head(todo)
Then(ops) == todo' = ops \o Tail(todo)
usersVars == <<setting, calls, last>>
elementVars == <<pos, look>>

-----------------------------------------------------------------------------
(* animate(), delay(): onto the queue; an animation with queue: false      *)
(* starts at once.                                                         *)
Animate ==
  /\ Does("animate")
  /\ anims' = Append(anims, [kind |-> Call.kind, e |-> Call.e, to |-> Call.to, left |-> Call.ticks,
                             queued |-> Call.queued, then |-> Call.then,
                             end |-> "none", orig |-> "none", state |-> "new"])
  /\ Then(<<[op |-> IF Call.queued THEN "queue" ELSE "start", e |-> Call.e, id |-> Len(anims')]>>)
  /\ UNCHANGED <<usersVars, queue, hooks, timers, interval, timeouts, elementVars, waits>>

Pushed(e, id) == [queue EXCEPT ![e] = Append(@, id)]
Queue ==
  /\ Does("queue")
  /\ queue' = Pushed(Call.e, Call.id)
  /\ hooks' = [hooks EXCEPT ![Call.e].on = TRUE]
  /\ Then(IF Head(queue'[Call.e]) = InProgress THEN <<>> ELSE <<[op |-> "dequeue", e |-> Call.e]>>)
  /\ UNCHANGED <<usersVars, anims, timers, interval, timeouts, elementVars, waits>>

(* dequeue: the sentinel goes, the next entry is called behind a new one.  *)
Remaining(e) == IF queue[e] # <<>> /\ Head(queue[e]) = InProgress THEN Tail(queue[e]) ELSE queue[e]
(* Mutant: there is no sentinel.                                           *)
Unmarked(q) == Tail(q)
Marked(q) == <<InProgress>> \o Tail(q)
Dequeue ==
  /\ Does("dequeue")
  /\ LET e == Call.e
         rest == Remaining(e)
         empty == [op |-> "empty", e |-> e]
     IN  IF rest = <<>>
         THEN /\ queue' = [queue EXCEPT ![e] = <<>>] /\ hooks' = [hooks EXCEPT ![e].on = TRUE]
              /\ Then(<<empty>>)
         ELSE /\ queue' = [queue EXCEPT ![e] = Marked(rest)]
              /\ hooks' = [hooks EXCEPT ![e].on = TRUE, ![e].stop = 0]
              /\ Then(<<[op |-> "start", e |-> e, id |-> Head(rest)], empty>>)
  /\ UNCHANGED <<usersVars, anims, timers, interval, timeouts, elementVars, waits>>

(* hooks.empty.fire, which queue: false has made wait for its animations.  *)
(* Mutant: it does not wait.                                               *)
FireAtOnce(h) == TRUE
MayFire(h) == h.unqueued = 0
Emptied(h, e) ==
  IF h.on /\ queue[e] = <<>> /\ MayFire(h)
  THEN hooks' = [hooks EXCEPT ![e] = NoHooks] /\ waits' = waits \ {e}
  ELSE hooks' = [hooks EXCEPT ![e] = h] /\ UNCHANGED waits
Empty == /\ Does("empty") /\ Emptied(hooks[Call.e], Call.e) /\ Then(<<>>)
         /\ UNCHANGED <<usersVars, queue, anims, timers, interval, timeouts, elementVars>>
Unqueued == /\ Does("unqueued") /\ Then(<<>>)
            /\ Emptied([hooks[Call.e] EXCEPT !.unqueued = @ - 1], Call.e)
            /\ UNCHANGED <<usersVars, queue, anims, timers, interval, timeouts, elementVars>>

-----------------------------------------------------------------------------
(* Animation(): defaultPrefilter says what show, hide and toggle have to   *)
(* animate, and from when on the size is remembered.                       *)
Toggles(kind) == kind \in {"show", "hide", "toggle"}
Handled(a) == Toggles(a.kind) /\ a.kind # (IF look[a.e].hidden THEN "hide" ELSE "show")
(* Mutant: what is put back in the end is the size at the beginning.       *)
Current(l) == l.size
Remembered(l) == IF l.fxshow = "none" THEN l.size ELSE l.fxshow
Prefiltered(a) ==
  LET l == look[a.e]
  IN  IF Handled(a)
      THEN [a EXCEPT !.state = "running", !.orig = Remembered(l),
                     !.end = IF l.hidden THEN l.size ELSE "zero",
                     !.kind = IF l.hidden THEN "show" ELSE "hide"]
      ELSE [a EXCEPT !.state = "running"]
(* No time to take, or nothing to move: the first tick, in fx.timer, ends it.*)
Ends(a) == a.left = 0 \/ (Toggles(a.kind) /\ ~Handled(a))

Start ==
  /\ Does("start")
  /\ LET a == anims[Call.id] IN
     /\ a.kind # "delay"
     /\ anims' = [anims EXCEPT ![Call.id] = Prefiltered(a)]
     /\ hooks' = IF a.queued THEN hooks
                 ELSE [hooks EXCEPT ![a.e].on = TRUE, ![a.e].unqueued = @ + 1]
     /\ look' = IF ~Handled(a) THEN look
                ELSE [look EXCEPT ![a.e].hidden = FALSE,
                                  ![a.e].size = IF look[a.e].hidden THEN "part" ELSE @,
                                  ![a.e].fxshow = IF @ = "none" THEN look[a.e].size ELSE @]
     /\ IF Ends(a)
        THEN Then(<<[op |-> "finish", id |-> Call.id, early |-> TRUE]>>) /\ UNCHANGED <<timers, interval>>
        ELSE Then(<<>>) /\ timers' = Append(timers, Call.id) /\ interval' = TRUE
  /\ UNCHANGED <<usersVars, queue, timeouts, pos, waits>>
Delay ==
  /\ Does("start") /\ anims[Call.id].kind = "delay"
  /\ timeouts' = timeouts \cup {Call.id} /\ hooks' = [hooks EXCEPT ![Call.e].stop = Call.id]
  /\ Then(<<>>)
  /\ UNCHANGED <<usersVars, queue, anims, timers, interval, elementVars, waits>>

(* The tweens run, to some place or to their end.                          *)
Moves(a, done) ==
  /\ pos' = IF a.kind # "move" THEN pos ELSE [pos EXCEPT ![a.e] = IF done THEN a.to ELSE OnTheWay]
  /\ look' = IF a.orig = "none" THEN look ELSE [look EXCEPT ![a.e].size = IF done THEN a.end ELSE "part"]

(* The animation is resolved: its size is put back, the user is called     *)
(* back, and the queue goes on.                                            *)
Restored(a) ==
  IF a.orig = "none" THEN look
  ELSE [look EXCEPT ![a.e] = [size |-> a.orig, hidden |-> a.kind = "hide", fxshow |-> "none"]]
Finish ==
  /\ Does("finish")
  /\ LET a == anims[Call.id]
         callback == a.then \o IF a.queued THEN <<[op |-> "dequeue", e |-> a.e]>> ELSE <<>>
         unqueued == IF a.queued THEN <<>> ELSE <<[op |-> "unqueued", e |-> a.e]>>
     IN  IF a.state = "ended" THEN Then(<<>>) /\ UNCHANGED <<anims, elementVars>>
         ELSE /\ Then(IF Call.early THEN unqueued \o callback ELSE callback \o unqueued)
              /\ anims' = [anims EXCEPT ![Call.id].state = "ended"]
              /\ pos' = IF a.kind = "move" THEN [pos EXCEPT ![a.e] = a.to] ELSE pos
              /\ look' = Restored(a)
  /\ UNCHANGED <<usersVars, queue, hooks, timers, interval, timeouts, waits>>

-----------------------------------------------------------------------------
(* fx.tick goes through the timers, which callbacks may change meanwhile.  *)
Tick ==
  /\ todo = <<>> /\ interval
  /\ anims' = [i \in DOMAIN anims |->
                 IF i \in Range(timers) /\ anims[i].left > 0
                 THEN [anims[i] EXCEPT !.left = @ - 1] ELSE anims[i]]
  /\ todo' = <<[op |-> "tick", i |-> 1]>>
  /\ UNCHANGED <<usersVars, queue, hooks, timers, interval, timeouts, elementVars, waits>>

TickTimer ==
  /\ Does("tick") /\ Call.i <= Len(timers)
  /\ LET id == timers[Call.i]
         a == anims[id]
     IN  /\ Then(IF a.left = 0
                 THEN <<[op |-> "finish", id |-> id, early |-> FALSE],
                        [op |-> "remove", i |-> Call.i, id |-> id]>>
                 ELSE <<[op |-> "tick", i |-> Call.i + 1]>>)
         /\ Moves(a, a.left = 0)
  /\ UNCHANGED <<usersVars, queue, hooks, anims, timers, interval, timeouts, waits>>
(* Mutant: the timer at this place is removed, whichever it is by now.     *)
InAnyCase(i, id) == i <= Len(timers)
StillThere(i, id) == i <= Len(timers) /\ timers[i] = id
RemoveTimer ==
  /\ Does("remove")
  /\ IF StillThere(Call.i, Call.id)
     THEN timers' = RemoveAt(timers, Call.i) /\ Then(<<[op |-> "tick", i |-> Call.i]>>)
     ELSE UNCHANGED timers /\ Then(<<[op |-> "tick", i |-> Call.i + 1]>>)
  /\ UNCHANGED <<usersVars, queue, hooks, anims, interval, timeouts, elementVars, waits>>
StillTimers(ts) == ts # <<>>
TickEnds ==
  /\ Does("tick") /\ Call.i > Len(timers)
  /\ interval' = StillTimers(timers) /\ Then(<<>>)
  /\ UNCHANGED <<usersVars, queue, hooks, anims, timers, timeouts, elementVars, waits>>

TimeOut(id) ==
  /\ todo = <<>> /\ id \in timeouts /\ timeouts' = timeouts \ {id}
  /\ todo' = <<[op |-> "dequeue", e |-> anims[id].e]>>
  /\ UNCHANGED <<usersVars, queue, hooks, anims, timers, interval, elementVars, waits>>

-----------------------------------------------------------------------------
(* stop(clearQueue false, gotoEnd): the delay, the timers from the last to *)
(* the first, and on with the queue if no animation has done that.         *)
Stop ==
  /\ Does("stop")
  /\ timeouts' = timeouts \ {hooks[Call.e].stop}
  /\ hooks' = [hooks EXCEPT ![Call.e].stop = 0]
  /\ Then(<<[op |-> "stopping", e |-> Call.e, end |-> Call.end, i |-> Len(timers), dequeue |-> TRUE]>>)
  /\ UNCHANGED <<usersVars, queue, anims, timers, interval, elementVars, waits>>
StopTimer ==
  /\ Does("stopping") /\ Call.i > 0
  /\ LET id == timers[Call.i]
         a == anims[id]
         next == [Call EXCEPT !.i = @ - 1]
         splice == <<[op |-> "splice", i |-> Call.i], [next EXCEPT !.dequeue = FALSE]>>
     IN  IF a.e # Call.e \/ a.state = "ended" THEN Then(<<next>>) /\ UNCHANGED anims
         ELSE IF Call.end
         THEN Then(<<[op |-> "finish", id |-> id, early |-> FALSE]>> \o splice) /\ UNCHANGED anims
         ELSE /\ Then((IF a.queued THEN <<>> ELSE <<[op |-> "unqueued", e |-> a.e]>>) \o splice)
              /\ anims' = [anims EXCEPT ![id].state = "ended"]
  /\ UNCHANGED <<usersVars, queue, hooks, timers, interval, timeouts, elementVars, waits>>
Splice ==
  /\ Does("splice") /\ timers' = RemoveAt(timers, Call.i) /\ Then(<<>>)
  /\ UNCHANGED <<usersVars, queue, hooks, anims, interval, timeouts, elementVars, waits>>
StopEnds ==
  /\ Does("stopping") /\ Call.i = 0
  /\ Then(IF Call.dequeue \/ ~Call.end THEN <<[op |-> "dequeue", e |-> Call.e]>> ELSE <<>>)
  /\ UNCHANGED <<usersVars, queue, hooks, anims, timers, interval, timeouts, elementVars, waits>>

(* promise(): of the elements that have queue hooks.                       *)
Promise ==
  /\ Does("promise") /\ waits' = {e \in Elements : hooks[e].on} /\ Then(<<>>)
  /\ UNCHANGED <<usersVars, queue, hooks, anims, timers, interval, timeouts, elementVars>>

(* A user does something.                                                  *)
User(script) ==
  /\ todo = <<>> /\ calls > 0 /\ calls' = calls - 1 /\ todo' = script /\ last' = script
  /\ UNCHANGED <<setting, queue, hooks, anims, timers, interval, timeouts, elementVars, waits>>

(* What users call, and what effect.js does when the pointer enters or     *)
(* leaves item n while item m is the active one.                           *)
Speed(kind, e, to, ticks, queued, then) ==
  [op |-> "animate", kind |-> kind, e |-> e, to |-> to, ticks |-> ticks, queued |-> queued, then |-> then]
Move(e, to, ticks, then) == Speed("move", e, to, ticks, TRUE, then)
ShowHide(kind, e, ticks) == Speed(kind, e, 0, ticks, TRUE, <<>>)
Hover(n, m) ==
  <<[op |-> "stop", e |-> Slide, end |-> FALSE],
    Move(Slide, Home(n) + (n - m) * 5, 3, <<Move(Slide, Home(n), 1, <<>>)>>)>>

Run == \/ Animate \/ Queue \/ Dequeue \/ Empty \/ Unqueued \/ Start \/ Delay \/ Finish
       \/ TickTimer \/ RemoveTimer \/ TickEnds \/ Stop \/ StopTimer \/ Splice \/ StopEnds \/ Promise
TimeOuts == \E id \in DOMAIN anims : TimeOut(id)
Next == Run \/ Tick \/ TimeOuts \/ \E s \in setting : User(s)
(* The browser runs what has been called, and timers that are set.         *)
Spec == Init /\ [][Next]_vars /\ WF_vars(Run) /\ WF_vars(Tick) /\ WF_vars(TimeOuts)

-----------------------------------------------------------------------------
Idle == todo = <<>>
Running(e) == {k \in DOMAIN timers : anims[timers[k]].e = e /\ anims[timers[k]].state = "running"}
InQueue(e) == {k \in Running(e) : anims[timers[k]].queued}
Delays(e) == {id \in timeouts : anims[id].e = e}

(* One animation or delay of an element's queue is under way at a time,    *)
(* behind the sentinel, and the sentinel is there for no other reason.     *)
OneAtATime ==
  Idle => \A e \in Elements :
            LET n == Cardinality(InQueue(e)) + Cardinality(Delays(e))
            IN  IF queue[e] = <<>> THEN n = 0 ELSE n = 1 /\ Head(queue[e]) = InProgress

(* What promise() waits for is over when it hears of it: the queue, and    *)
(* the animations beside it.                                               *)
PromiseAfterAll ==
  [][\A e \in waits \ waits' : queue[e] = <<>> /\ Running(e) = {} /\ Delays(e) = {}]_vars

(* However often it is shown, hidden, toggled and stopped, an element that *)
(* is hidden has its full size to come back to, and one that has been      *)
(* stopped on the way remembers it.                                        *)
SizeComesBack ==
  Idle => \A e \in Elements :
            IF look[e].hidden \/ look[e].size = "full" THEN look[e].size = "full"
            ELSE look[e].fxshow = "full"

(* Everything that was asked for comes to an end, in callbacks and queues  *)
(* as well, and effect.js leaves the slide where the last item has it.     *)
ComesToRest ==
  <>[](/\ Idle /\ timers = <<>> /\ timeouts = {} /\ ~interval
       /\ \A e \in Elements : queue[e] = <<>> /\ ~hooks[e].on
       /\ \A n, m \in 0..2 : last = Hover(n, m) => pos[Slide] = Home(n))
=============================================================================
