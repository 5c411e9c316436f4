---------------------------- MODULE CallbackList ----------------------------
(***************************************************************************)
(* What jQuery.Callbacks promises, list by list: a firing calls, in order, *)
(* every callback that is in the list when its turn comes.  Callbacks      *)
(* added meanwhile get their turn, callbacks removed meanwhile lose it.    *)
(***************************************************************************)
EXTENDS Integers, Sequences, Removing

CONSTANTS Lists,
          Stops(_)   \* lists a callback can stop

VARIABLES behind,    \* callbacks that have had their turn
          ahead,     \* callbacks whose turn is to come
          firing

IsAdded(old, new) == Len(old) <= Len(new) /\ SubSeq(new, 1, Len(old)) = old

Call(l) == /\ firing[l] /\ firing'[l] /\ ahead[l] # <<>>
           /\ behind'[l] = Append(behind[l], Head(ahead[l]))
           /\ ahead'[l] = Tail(ahead[l])
Add(l) == /\ firing'[l] = firing[l]
          /\ IF firing[l] THEN behind'[l] = behind[l] /\ IsAdded(ahead[l], ahead'[l])
             ELSE IsAdded(behind[l], behind'[l]) /\ ahead'[l] = <<>>
(* Callbacks added to a list that remembers a value are called with it.    *)
AddAndCall(l) == ~firing[l] /\ firing'[l] /\ behind'[l] = behind[l]
Remove(l) == /\ firing'[l] = firing[l]
             /\ \E k \in 1..Len(behind[l] \o ahead[l]) :
                  LET e == (behind[l] \o ahead[l])[k]
                  IN  /\ behind'[l] = Without(behind[l], e)
                      /\ ahead'[l] = Without(ahead[l], e)
Fire(l) == /\ firing'[l] /\ (firing[l] => ahead[l] = <<>> \/ Stops(l))
           /\ behind'[l] = <<>> /\ ahead'[l] = behind[l] \o ahead[l]
End(l) == /\ firing[l] /\ ~firing'[l] /\ (ahead[l] = <<>> \/ Stops(l))
          /\ behind'[l] \in {behind[l] \o ahead[l], <<>>} /\ ahead'[l] = <<>>
(* disable, lock and empty leave nothing to call; a list that is emptied   *)
(* while it fires promises nothing more.                                   *)
Clear(l) == behind'[l] = <<>> /\ ahead'[l] = <<>> /\ (firing'[l] => firing[l])
Stay(l) == behind'[l] = behind[l] /\ ahead'[l] = ahead[l] /\ firing'[l] = firing[l]

Init == ahead = [l \in Lists |-> <<>>] /\ firing = [l \in Lists |-> FALSE]
Next == \A l \in Lists : \/ Stay(l) \/ Call(l) \/ Add(l) \/ AddAndCall(l) \/ Remove(l)
                         \/ Fire(l) \/ End(l) \/ Clear(l)
Spec == Init /\ [][Next]_<<behind, ahead, firing>>
=============================================================================
