----------------------------- MODULE PlainFile -----------------------------
(***************************************************************************)
(* What the buffered streams of the text index promise: an input reads the *)
(* bytes of its file from the place it stands at, an output writes its     *)
(* bytes where it stands, and no buffer can be told.  After a call has     *)
(* thrown for a reason other than the end of the file the bytes an input   *)
(* returns, and everything about an output, are no longer promised.        *)
(***************************************************************************)
EXTENDS Integers, Sequences

CONSTANTS Inputs, Outputs,
          Values,    \* bound: what the bytes of a write are told apart by
          MaxCall,   \* bound: bytes of a call
          MaxPoint   \* bound: where a stream can stand

Streams == Inputs \cup Outputs

VARIABLES length,  \* of the file the inputs read
          state,   \* state[s]: "none", "open", "broken" or "closed"
          point,   \* point[s]: where s stands
          text,    \* text[o]: what has been written to o
          result   \* the call made last: its stream, outcome and bytes

vars == <<length, state, point, text, result>>

(* A byte of the file tells its place, a byte written its write and place. *)
FileBytes(p, n) == [k \in 1..n |-> p + k]
Written(v, n) == [k \in 1..n |-> v + k]
Call(s, ok, bytes) == [by |-> s, ok |-> ok, bytes |-> bytes]

(* bytes written over t from place p on, p being at most the end of t.     *)
Over(t, p, bytes) ==
  [k \in 1..(IF p + Len(bytes) > Len(t) THEN p + Len(bytes) ELSE Len(t)) |->
     IF k > p /\ k <= p + Len(bytes) THEN bytes[k - p] ELSE t[k]]

Init == /\ length \in Nat
        /\ state = [s \in Streams |-> "none"]
        /\ point = [s \in Streams |-> 0]
        /\ text = [o \in Outputs |-> <<>>]
        /\ result = [by |-> "nobody", ok |-> TRUE, bytes |-> <<>>]

Usable(s) == state[s] \in {"open", "broken"}
MovesTo(s, p) == point' = [point EXCEPT ![s] = p]

Open(s) == /\ state[s] = "none"
           /\ state' = [state EXCEPT ![s] = "open"]
           /\ UNCHANGED <<length, point, text, result>>

Clone(i, j) == /\ Usable(i) /\ state[j] = "none"
               /\ state' = [state EXCEPT ![j] = "open"]
               /\ MovesTo(j, point[i])
               /\ UNCHANGED <<length, text, result>>

Read(i) ==
  /\ Usable(i)
  /\ \E n \in 1..MaxCall :
       /\ point[i] + n <= length
       /\ MovesTo(i, point[i] + n)
       /\ result'.by = i /\ result'.ok
       /\ state[i] = "open" => result'.bytes = FileBytes(point[i], n)
  /\ UNCHANGED <<length, state, text>>

(* Of a read past the end, what is left may have been consumed.            *)
ReadPastEnd(i) ==
  /\ Usable(i)
  /\ point[i] + MaxCall > length
  /\ \E p \in point[i]..MaxPoint : MovesTo(i, p) /\ (p = point[i] \/ p <= length)
  /\ result' = Call(i, FALSE, <<>>)
  /\ UNCHANGED <<length, state, text>>

Seek(i) == /\ Usable(i)
           /\ \E p \in 0..MaxPoint : MovesTo(i, p)
           /\ UNCHANGED <<length, state, text, result>>

Write(o) ==
  /\ state[o] = "open"
  /\ \E n \in 1..MaxCall, v \in Values :
       /\ text' = [text EXCEPT ![o] = Over(@, point[o], Written(v, n))]
       /\ MovesTo(o, point[o] + n)
       /\ result' = Call(o, TRUE, Written(v, n))
  /\ UNCHANGED <<length, state>>

(* Back to a byte that is still in the output's buffer.                    *)
SeekBack(o) == /\ state[o] = "open"
               /\ \E p \in 0..Len(text[o]) : MovesTo(o, p)
               /\ UNCHANGED <<length, state, text, result>>

(* A flush takes an output to its end, wherever it stood.                  *)
Flush(o) == /\ state[o] = "open"
            /\ MovesTo(o, Len(text[o]))
            /\ UNCHANGED <<length, state, text, result>>

Close(s) == /\ Usable(s)
            /\ state' = [state EXCEPT ![s] = "closed"]
            /\ IF s \in Outputs THEN MovesTo(s, Len(text[s])) ELSE UNCHANGED point
            /\ UNCHANGED <<length, text, result>>

(* A call throws.                                                          *)
Break(s) == /\ Usable(s)
            /\ state' = [state EXCEPT ![s] = "broken"]
            /\ result' = Call(s, FALSE, <<>>)
            /\ \E p \in 0..MaxPoint : MovesTo(s, p)
            /\ IF s \in Outputs THEN text' = [text EXCEPT ![s] = <<>>] ELSE UNCHANGED text
            /\ UNCHANGED length

(* Any call of a broken output.                                            *)
BrokenCall(o) == /\ state[o] = "broken"
                 /\ state'[o] \in {"broken", "closed"}
                 /\ state' = [state EXCEPT ![o] = state'[o]]
                 /\ UNCHANGED <<length, point, text>>

Next == \/ \E s \in Streams : Open(s) \/ Close(s) \/ Break(s)
        \/ \E i \in Inputs : Read(i) \/ ReadPastEnd(i) \/ Seek(i)
        \/ \E i, j \in Inputs : Clone(i, j)
        \/ \E o \in Outputs : Write(o) \/ SeekBack(o) \/ Flush(o) \/ BrokenCall(o)

Spec == Init /\ [][Next]_vars
=============================================================================
