------------------------- MODULE IndexStreamsProofs -------------------------
(***************************************************************************)
(* For any streams, buffers and bounds: a buffer of the pool is never in   *)
(* two hands.                                                              *)
(***************************************************************************)
EXTENDS IndexStreams, SequenceTheorems, TLAPS

(* What a step may do to the buffers: nothing, take one for s, or give     *)
(* back that of s.                                                         *)
Leaves == buffer' = buffer /\ pool' = pool
Takes(s) == \E b \in Buffers :
              /\ b \in pool \/ b \notin Held
              /\ pool' = pool \ {b}
              /\ buffer' = [buffer EXCEPT ![s] = b]
Returns(s) == /\ pool' \subseteq pool \cup {buffer[s]}
              /\ NoBuffer \in pool' => NoBuffer \in pool
              /\ buffer' = [buffer EXCEPT ![s] = NoBuffer]

HandInv == buffer \in [Streams -> Buffers \cup {NoBuffer}] /\ Exclusive

LEMMA TakenIsTaken ==
  ASSUME NEW b \in Buffers, NEW c, Taken(b, c)
  PROVE  (b \in pool \/ b \notin Held) /\ pool' = pool \ {b}
BY DEF Taken

LEMMA InputHands ==
  ASSUME HandInv, NEW i \in Inputs, InputSteps(i)
  PROVE  Leaves \/ \E s \in Streams : Takes(s) \/ Returns(s)
<1>s. i \in Streams
  BY DEF Streams
<1>r. ASSUME NEW from, NEW got, Refill(i, from, got)
      PROVE  Leaves \/ Takes(i)
  <2>1. PICK b \in Buffers, c \in {content[k] : k \in Buffers} \cup {Zeros} :
          /\ IF buffer[i] = NoBuffer THEN Taken(b, c)
             ELSE b = buffer[i] /\ c = content[b] /\ UNCHANGED pool
          /\ Fill(i, b, Laid(c, 0, FileBytes(from, got)))
    BY <1>r DEF Refill
  <2>2. CASE buffer[i] = NoBuffer
    BY <2>1, <2>2, TakenIsTaken DEF Takes, Fill
  <2>3. CASE buffer[i] # NoBuffer
    BY <2>1, <2>3, <1>s DEF Leaves, Fill, HandInv
  <2> QED
    BY <2>2, <2>3
<1>1. CASE ReadThroughBuffer(i)
  BY <1>1, <1>r, <1>s DEF ReadThroughBuffer
<1>2. CASE ReadFails(i)
  BY <1>2, <1>r, <1>s DEF ReadFails, Leaves
<1>3. CASE CloseInput(i)
  BY <1>3, <1>s DEF CloseInput, GivesBufferBack, PutBuffer, Returns
<1>4. CASE OpenInput(i) \/ FromBuffer(i) \/ ReadDirect(i) \/ PastEnd(i) \/ SeekInput(i)
             \/ CloseFails(i)
  BY <1>4 DEF OpenInput, FromBuffer, ReadDirect, PastEnd, SeekInput, CloseFails, buffering, Leaves
<1> QED
  BY <1>1, <1>2, <1>3, <1>4, InputSteps(i) DEF InputSteps

LEMMA OutputHands ==
  ASSUME HandInv, NEW o \in Outputs, OutputSteps(o)
  PROVE  Leaves \/ \E s \in Streams : Takes(s) \/ Returns(s)
<1>s. o \in Streams
  BY DEF Streams
<1>f. ASSUME NEW c, Fill(o, buffer[o], c)
      PROVE  buffer' = buffer
  BY <1>f, <1>s DEF Fill, HandInv
<1>1. CASE OpenOutput(o)
  BY <1>1, <1>s, TakenIsTaken DEF OpenOutput, Fill, Takes
<1>2. CASE WriteFits(o)
  BY <1>2, <1>f DEF WriteFits, Leaves
<1>3. CASE WriteOver(o)
  BY <1>3, <1>f DEF WriteOver, Leaves
<1>4. CASE WriteFails(o)
  BY <1>4, <1>f DEF WriteFails, Leaves
<1>5. CASE CloseOutput(o)
  BY <1>5, <1>s DEF CloseOutput, GivesBufferBack, PutBuffer, Returns
<1>6. CASE Flush(o) \/ FlushFails(o) \/ SeekWithin(o) \/ SeekOutside(o)
  BY <1>6 DEF Flush, FlushFails, SeekWithin, SeekOutside, Leaves
<1> QED
  BY <1>1, <1>2, <1>3, <1>4, <1>5, <1>6, OutputSteps(o) DEF OutputSteps

LEMMA NextHands ==
  ASSUME HandInv, [Next]_vars
  PROVE  Leaves \/ \E s \in Streams : Takes(s) \/ Returns(s)
<1>1. CASE \E i \in Inputs : InputSteps(i)
  BY <1>1, InputHands
<1>2. CASE \E o \in Outputs : OutputSteps(o)
  BY <1>2, OutputHands
<1>3. CASE \E i, j \in Inputs : Clone(i, j)
  BY <1>3 DEF Clone, Leaves
<1>4. CASE UNCHANGED vars
  BY <1>4 DEF vars, Leaves
<1> QED
  BY <1>1, <1>2, <1>3, <1>4 DEF Next

LEMMA HandInit == Init => HandInv
BY DEF Init, HandInv, Exclusive, Held

LEMMA HandStep == HandInv /\ [Next]_vars => HandInv'
<1> SUFFICES ASSUME HandInv, [Next]_vars
             PROVE  HandInv'
  OBVIOUS
<1>1. CASE Leaves
  BY <1>1 DEF Leaves, HandInv, Exclusive, Held
<1>2. ASSUME NEW s \in Streams, Takes(s)
      PROVE  HandInv'
  <2>1. PICK b \in Buffers : /\ b \in pool \/ b \notin Held
                             /\ pool' = pool \ {b}
                             /\ buffer' = [buffer EXCEPT ![s] = b]
    BY <1>2 DEF Takes
  <2>2. \A t \in Streams : buffer[t] # b
    BY <2>1, BufferAssumption DEF HandInv, Exclusive, Held
  <2>3. buffer' \in [Streams -> Buffers \cup {NoBuffer}]
    BY <2>1 DEF HandInv
  <2>4. \A t \in Streams : buffer'[t] = IF t = s THEN b ELSE buffer[t]
    BY <2>1 DEF HandInv
  <2> QED
    BY <2>1, <2>2, <2>3, <2>4 DEF HandInv, Exclusive, Held
<1>3. ASSUME NEW s \in Streams, Returns(s)
      PROVE  HandInv'
  <2>1. buffer' \in [Streams -> Buffers \cup {NoBuffer}]
    BY <1>3 DEF HandInv, Returns
  <2>2. \A t \in Streams : buffer'[t] = IF t = s THEN NoBuffer ELSE buffer[t]
    BY <1>3 DEF HandInv, Returns
  <2> QED
    BY <1>3, <2>1, <2>2 DEF HandInv, Exclusive, Held, Returns
<1> QED
  BY <1>1, <1>2, <1>3, NextHands

(* A buffer is in the hands of one stream or in the pool, whatever the     *)
(* streams do: how CustomBufferedIndexInput and ReusedBufferedIndexOutput  *)
(* use BufferStore never lets two of them write to one array.              *)
THEOREM BuffersAreExclusive == Spec => []Exclusive
<1>1. Spec => []HandInv
  BY HandInit, HandStep, PTL DEF Spec
<1>2. HandInv => Exclusive
  BY DEF HandInv
<1> QED
  BY <1>1, <1>2, PTL
-----------------------------------------------------------------------------
(* Arrays.  A step moves one stream s: to place q, position p and n valid  *)
(* bytes, with buffer b, in phase f.                                       *)
RangeInv == TypeOK /\ InRange

Phases == {"none", "open", "closed"}
Goes(s, q, p, n, b, f) ==
  /\ length' = length /\ pool' \subseteq Buffers
  /\ Moves(s, q, p, n) /\ p <= n /\ n <= BufferSize
  /\ buffer' = [buffer EXCEPT ![s] = b]
  /\ phase' = [phase EXCEPT ![s] = f]
  /\ f = "open" /\ (n > 0 \/ s \in Outputs) => b # NoBuffer
  /\ f = "none" => n = 0
StepOf(s) == \E q, p, n \in Nat, b \in Buffers \cup {NoBuffer}, f \in Phases : Goes(s, q, p, n, b, f)

LEMMA RangeInit == Init => RangeInv
<1> SUFFICES ASSUME Init PROVE RangeInv
  OBVIOUS
<1>1. BufferSize \in Nat /\ length \in Nat
  BY SizeAssumption, BoundAssumption DEF Init
<1> QED
  BY <1>1 DEF Init, RangeInv, TypeOK, InRange

LEMMA RangeGoes ==
  ASSUME RangeInv, NEW s \in Streams, StepOf(s)
  PROVE  RangeInv'
<1>1. PICK q \in Nat, p \in Nat, n \in Nat, b \in Buffers \cup {NoBuffer}, f \in Phases :
        Goes(s, q, p, n, b, f)
  BY DEF StepOf
<1>2. /\ \A t \in Streams : start'[t] = IF t = s THEN q ELSE start[t]
      /\ \A t \in Streams : pos'[t] = IF t = s THEN p ELSE pos[t]
      /\ \A t \in Streams : len'[t] = IF t = s THEN n ELSE len[t]
      /\ \A t \in Streams : buffer'[t] = IF t = s THEN b ELSE buffer[t]
      /\ \A t \in Streams : phase'[t] = IF t = s THEN f ELSE phase[t]
  BY <1>1 DEF Goes, Moves, RangeInv, TypeOK
<1>3. TypeOK'
  BY <1>1 DEF Goes, Moves, RangeInv, TypeOK, Phases
<1>4. InRange'
  <2> SUFFICES ASSUME NEW t \in Streams
               PROVE  /\ pos'[t] <= len'[t] /\ len'[t] <= BufferSize
                      /\ phase'[t] = "open" /\ (len'[t] > 0 \/ t \in Outputs) => buffer'[t] # NoBuffer
                      /\ phase'[t] = "none" => len'[t] = 0
    BY DEF InRange
  <2>1. CASE t = s
    BY <1>1, <1>2, <2>1 DEF Goes
  <2>2. CASE t # s
    BY <1>2, <2>2 DEF RangeInv, InRange
  <2> QED
    BY <2>1, <2>2
<1> QED
  BY <1>3, <1>4 DEF RangeInv

(* What a step may leave as it is.                                         *)
LEMMA Unmoved ==
  ASSUME RangeInv, NEW s \in Streams
  PROVE  /\ start[s] \in Nat /\ pos[s] \in Nat /\ len[s] \in Nat
         /\ pos[s] <= len[s] /\ len[s] <= BufferSize
         /\ BufferSize \in Nat /\ BufferSize > 1
         /\ buffer[s] \in Buffers \cup {NoBuffer} /\ phase[s] \in Phases
         /\ phase[s] = "open" /\ (len[s] > 0 \/ s \in Outputs) => buffer[s] # NoBuffer
         /\ phase[s] = "none" => len[s] = 0
         /\ length \in Nat /\ pool \subseteq Buffers
         /\ buffer = [buffer EXCEPT ![s] = buffer[s]]
         /\ phase = [phase EXCEPT ![s] = phase[s]]
         /\ UNCHANGED <<start, pos, len>> => Moves(s, start[s], pos[s], len[s])
<1>1. BufferSize \in Nat /\ BufferSize > 1
  BY SizeAssumption
<1> QED
  BY <1>1 DEF RangeInv, TypeOK, InRange, Phases, Moves

LEMMA TakenBuffers ==
  ASSUME RangeInv, NEW b \in Buffers, NEW c, Taken(b, c)
  PROVE  pool' \subseteq Buffers
BY DEF Taken, RangeInv, TypeOK

LEMMA PutBuffers ==
  ASSUME RangeInv, NEW s \in Streams, GivesBufferBack(s)
  PROVE  pool' \subseteq Buffers /\ buffer' = [buffer EXCEPT ![s] = NoBuffer]
BY Unmoved DEF GivesBufferBack, PutBuffer

LEMMA InputRange ==
  ASSUME RangeInv, NEW i \in Inputs, InputSteps(i)
  PROVE  StepOf(i)
<1>s. i \in Streams
  BY DEF Streams
<1>u. /\ start[i] \in Nat /\ pos[i] \in Nat /\ len[i] \in Nat
      /\ pos[i] <= len[i] /\ len[i] <= BufferSize /\ BufferSize \in Nat /\ BufferSize > 1
      /\ buffer[i] \in Buffers \cup {NoBuffer} /\ phase[i] \in Phases
      /\ phase[i] = "open" /\ len[i] > 0 => buffer[i] # NoBuffer
      /\ phase[i] = "none" => len[i] = 0
      /\ length \in Nat /\ pool \subseteq Buffers
      /\ buffer = [buffer EXCEPT ![i] = buffer[i]]
      /\ phase = [phase EXCEPT ![i] = phase[i]]
      /\ UNCHANGED <<start, pos, len>> => Moves(i, start[i], pos[i], len[i])
  BY <1>s, Unmoved
<1>o. i \notin Outputs
  BY StreamAssumption
<1>c. MaxCall \in Nat /\ MaxPoint \in Nat /\ "open" \in Phases /\ "closed" \in Phases
  BY BoundAssumption DEF Phases
<1>l. ASSUME NEW q \in Nat, NEW p \in Nat, NEW n \in Nat, p <= n, n <= BufferSize,
             n > 0 => len[i] > 0, Moves(i, q, p, n), phase[i] = "open",
             UNCHANGED <<length, pool, buffer, phase>>
      PROVE  StepOf(i)
  <2>1. Goes(i, q, p, n, buffer[i], phase[i])
    BY <1>l, <1>u, <1>o DEF Goes
  <2> QED
    BY <2>1, <1>u DEF StepOf
<1>r. ASSUME NEW from, NEW got, Refill(i, from, got), NEW q \in Nat, NEW p \in Nat, NEW n \in Nat,
             p <= n, n <= BufferSize, Moves(i, q, p, n), phase[i] = "open", UNCHANGED <<length, phase>>
      PROVE  StepOf(i)
  <2>1. PICK b \in Buffers, c \in {content[k] : k \in Buffers} \cup {Zeros} :
          /\ IF buffer[i] = NoBuffer THEN Taken(b, c)
             ELSE b = buffer[i] /\ c = content[b] /\ UNCHANGED pool
          /\ Fill(i, b, Laid(c, 0, FileBytes(from, got)))
    BY <1>r DEF Refill
  <2>2. pool' \subseteq Buffers
    BY <2>1, <1>u, TakenBuffers
  <2>3. b # NoBuffer /\ buffer' = [buffer EXCEPT ![i] = b]
    BY <2>1, BufferAssumption DEF Fill
  <2>4. Goes(i, q, p, n, b, phase[i])
    BY <1>r, <1>u, <2>2, <2>3 DEF Goes
  <2> QED
    BY <2>4, <1>u DEF StepOf
<1>1. CASE OpenInput(i)
  <2>1. Goes(i, start[i], pos[i], len[i], buffer[i], "open")
    BY <1>1, <1>u, <1>o DEF OpenInput, buffering, Goes
  <2> QED
    BY <2>1, <1>u, <1>c DEF StepOf
<1>2. CASE FromBuffer(i)
  <2>1. PICK n \in 1..Smaller(MaxCall, Have(i)) : Moves(i, start[i], pos[i] + n, len[i])
    BY <1>2 DEF FromBuffer
  <2>2. n \in Nat /\ n > 0 /\ n <= len[i] - pos[i]
    BY <2>1, <1>u, <1>c DEF Smaller, Have
  <2>3. pos[i] + n \in Nat /\ pos[i] + n <= len[i] /\ len[i] > 0
    BY <2>2, <1>u
  <2>4. phase[i] = "open" /\ UNCHANGED <<length, pool, buffer, phase>>
    BY <1>2 DEF FromBuffer
  <2> QED
    BY <2>1, <2>3, <2>4, <1>u, <1>l
<1>3. CASE ReadThroughBuffer(i)
  <2>1. PICK n \in (Have(i) + 1)..Smaller(MaxCall, Have(i) + BufferSize - 1) :
             /\ Refill(i, Point(i) + Have(i), Filled(i))
             /\ \/ Moves(i, Point(i) + Have(i), 0, Filled(i))
                \/ /\ ~(Filled(i) < n - Have(i))
                   /\ Moves(i, Point(i) + Have(i), n - Have(i), Filled(i))
    BY <1>3 DEF ReadThroughBuffer
  <2>2. Have(i) \in Nat /\ Point(i) + Have(i) \in Nat
    BY <1>u DEF Have, Point
  <2>3. Filled(i) \in Nat /\ Filled(i) <= BufferSize
    BY <1>3, <2>2, <1>u DEF ReadThroughBuffer, Filled, Smaller, Point
  <2>4. n \in Nat /\ n - Have(i) \in Nat
    BY <2>1, <2>2, <1>c, <1>u DEF Smaller
  <2>5. phase[i] = "open" /\ UNCHANGED <<length, phase>>
    BY <1>3 DEF ReadThroughBuffer
  <2>6. CASE Moves(i, Point(i) + Have(i), 0, Filled(i))
    BY <2>1, <2>2, <2>3, <2>5, <2>6, <1>r
  <2>7. CASE /\ ~(Filled(i) < n - Have(i))
             /\ Moves(i, Point(i) + Have(i), n - Have(i), Filled(i))
    <3>1. n - Have(i) <= Filled(i)
      BY <2>2, <2>3, <2>4, <2>7
    <3> QED
      BY <2>1, <2>2, <2>3, <2>4, <2>5, <2>7, <3>1, <1>r
  <2> QED
    BY <2>1, <2>6, <2>7
<1>4. CASE ReadDirect(i)
  <2>1. PICK n \in (Have(i) + 1)..MaxCall : Moves(i, Point(i) + n, 0, 0)
    BY <1>4 DEF ReadDirect
  <2>2. Point(i) + n \in Nat
    BY <2>1, <1>u, <1>c DEF Point, Have
  <2> QED
    BY <1>4, <2>1, <2>2, <1>u, <1>l DEF ReadDirect
<1>5. CASE PastEnd(i)
  BY <1>5, <1>u, <1>l DEF PastEnd
<1>6. CASE ReadFails(i)
  <2>1. CASE \E got \in 0..(Filled(i) - 1) : Refill(i, Point(i) + Have(i), got)
    BY <1>6, <2>1, <1>u, <1>r DEF ReadFails
  <2>2. CASE UNCHANGED <<content, buffer, pool>>
    BY <1>6, <2>2, <1>u, <1>l DEF ReadFails
  <2> QED
    BY <1>6, <2>1, <2>2 DEF ReadFails
<1>7. CASE SeekInput(i)
  <2>1. PICK p \in 0..MaxPoint :
          \/ InBuffer(i, p) /\ Moves(i, start[i], p - start[i], len[i])
          \/ Moves(i, p, 0, 0)
    BY <1>7 DEF SeekInput
  <2>2. p \in Nat
    BY <2>1, <1>c
  <2>3. phase[i] = "open" /\ UNCHANGED <<length, pool, buffer, phase>>
    BY <1>7 DEF SeekInput
  <2>4. CASE InBuffer(i, p) /\ Moves(i, start[i], p - start[i], len[i])
    <3>1. p - start[i] \in Nat /\ p - start[i] <= len[i]
      BY <2>2, <2>4, <1>u DEF InBuffer
    <3> QED
      BY <2>3, <2>4, <3>1, <1>u, <1>l
  <2>5. CASE Moves(i, p, 0, 0)
    BY <2>2, <2>3, <2>5, <1>u, <1>l
  <2> QED
    BY <2>1, <2>4, <2>5
<1>8. CASE CloseInput(i)
  <2>1. Goes(i, start[i], pos[i], len[i], NoBuffer, "closed")
    BY <1>8, <1>u, <1>s, PutBuffers DEF CloseInput, Goes
  <2> QED
    BY <2>1, <1>u, <1>c DEF StepOf
<1>9. CASE CloseFails(i)
  <2>1. UNCHANGED <<length, start, pos, len, pool, buffer, phase>> /\ phase[i] = "open"
    BY <1>9 DEF CloseFails, buffering
  <2> QED
    BY <2>1, <1>u, <1>l
<1> QED
  BY <1>1, <1>2, <1>3, <1>4, <1>5, <1>6, <1>7, <1>8, <1>9, InputSteps(i) DEF InputSteps
LEMMA OutputRange ==
  ASSUME RangeInv, NEW o \in Outputs, OutputSteps(o)
  PROVE  StepOf(o)
<1>s. o \in Streams
  BY DEF Streams
<1>u. /\ start[o] \in Nat /\ pos[o] \in Nat /\ len[o] \in Nat
      /\ pos[o] <= len[o] /\ len[o] <= BufferSize /\ BufferSize \in Nat /\ BufferSize > 1
      /\ buffer[o] \in Buffers \cup {NoBuffer} /\ phase[o] \in Phases
      /\ phase[o] = "open" => buffer[o] # NoBuffer
      /\ phase[o] = "none" => len[o] = 0
      /\ length \in Nat /\ pool \subseteq Buffers
      /\ buffer = [buffer EXCEPT ![o] = buffer[o]]
      /\ phase = [phase EXCEPT ![o] = phase[o]]
      /\ UNCHANGED <<start, pos, len>> => Moves(o, start[o], pos[o], len[o])
  BY <1>s, Unmoved
<1>c. MaxCall \in Nat /\ MaxPoint \in Nat /\ "open" \in Phases /\ "closed" \in Phases
  BY BoundAssumption DEF Phases
(* A step of an open output that leaves it its buffer.                     *)
<1>l. ASSUME NEW q \in Nat, NEW p \in Nat, NEW n \in Nat, p <= n, n <= BufferSize,
             Moves(o, q, p, n), phase[o] = "open",
             UNCHANGED <<length, pool, phase>>, buffer' = [buffer EXCEPT ![o] = buffer[o]]
      PROVE  StepOf(o)
  <2>1. Goes(o, q, p, n, buffer[o], phase[o])
    BY <1>l, <1>u DEF Goes
  <2> QED
    BY <2>1, <1>u DEF StepOf
<1>f. ASSUME NEW c, Fill(o, buffer[o], c)
      PROVE  buffer' = [buffer EXCEPT ![o] = buffer[o]]
  BY <1>f DEF Fill
<1>e. start[o] + len[o] \in Nat
  BY <1>u
<1>1. CASE OpenOutput(o)
  <2>1. PICK b \in Buffers, c \in {content[k] : k \in Buffers} \cup {Zeros} :
          Taken(b, c) /\ Fill(o, b, c)
    BY <1>1 DEF OpenOutput
  <2>2. pool' \subseteq Buffers /\ b # NoBuffer /\ buffer' = [buffer EXCEPT ![o] = b]
    BY <2>1, TakenBuffers, BufferAssumption DEF Fill
  <2>3. Goes(o, start[o], pos[o], len[o], b, "open")
    BY <1>1, <1>u, <2>2 DEF OpenOutput, Goes
  <2> QED
    BY <2>3, <1>u, <1>c DEF StepOf
<1>2. CASE WriteFits(o)
  <2>1. PICK n \in 1..Smaller(MaxCall, BufferSize - pos[o]) :
          Moves(o, start[o], pos[o] + n, Greater(pos[o] + n, len[o]))
    BY <1>2 DEF WriteFits, Advances
  <2>2. n \in Nat /\ n <= BufferSize - pos[o]
    BY <2>1, <1>u, <1>c DEF Smaller
  <2>3. /\ pos[o] + n \in Nat /\ Greater(pos[o] + n, len[o]) \in Nat
        /\ pos[o] + n <= Greater(pos[o] + n, len[o]) /\ Greater(pos[o] + n, len[o]) <= BufferSize
    BY <2>2, <1>u DEF Greater
  <2>4. /\ phase[o] = "open" /\ UNCHANGED <<length, pool, phase>>
        /\ buffer' = [buffer EXCEPT ![o] = buffer[o]]
    BY <1>2, <1>f DEF WriteFits
  <2> QED
    BY <2>1, <2>3, <2>4, <1>u, <1>l
<1>3. CASE WriteOver(o)
  <2>1. PICK n \in (BufferSize - pos[o] + 1)..MaxCall :
          \/ /\ n - (BufferSize - pos[o]) < BufferSize
             /\ Moves(o, start[o] + BufferSize, n - (BufferSize - pos[o]), n - (BufferSize - pos[o]))
          \/ Moves(o, start[o] + BufferSize + n - (BufferSize - pos[o]), 0, 0)
    BY <1>3 DEF WriteOver
  <2>2. n - (BufferSize - pos[o]) \in Nat
    BY <2>1, <1>u, <1>c
  <2>3. /\ phase[o] = "open" /\ UNCHANGED <<length, pool, phase>>
        /\ buffer' = [buffer EXCEPT ![o] = buffer[o]]
    BY <1>3, <1>f DEF WriteOver
  <2>4. /\ start[o] + BufferSize \in Nat
        /\ start[o] + BufferSize + n - (BufferSize - pos[o]) \in Nat
    BY <2>1, <2>2, <1>u, <1>c
  <2>5. CASE /\ n - (BufferSize - pos[o]) < BufferSize
             /\ Moves(o, start[o] + BufferSize, n - (BufferSize - pos[o]), n - (BufferSize - pos[o]))
    BY <2>2, <2>3, <2>4, <2>5, <1>u, <1>l
  <2>6. CASE Moves(o, start[o] + BufferSize + n - (BufferSize - pos[o]), 0, 0)
    BY <2>3, <2>4, <2>6, <1>u, <1>l
  <2> QED
    BY <2>1, <2>5, <2>6
<1>4. CASE WriteFails(o)
  <2>1. \/ Moves(o, start[o], BufferSize, BufferSize)
        \/ Moves(o, start[o] + BufferSize, 0, 0)
    BY <1>4 DEF WriteFails
  <2>2. /\ phase[o] = "open" /\ UNCHANGED <<length, pool, phase>>
        /\ buffer' = [buffer EXCEPT ![o] = buffer[o]]
    BY <1>4, <1>f DEF WriteFails
  <2>3. start[o] + BufferSize \in Nat
    BY <1>u
  <2> QED
    BY <2>1, <2>2, <2>3, <1>u, <1>l
<1>5. CASE Flush(o) \/ FlushFails(o)
  <2>1. /\ phase[o] = "open" /\ UNCHANGED <<length, pool, buffer, phase>>
        /\ \/ Moves(o, start[o], pos[o], len[o])
           \/ Moves(o, start[o] + len[o], 0, 0)
    BY <1>5 DEF Flush, FlushFails, Emptied, Standing
  <2> QED
    BY <2>1, <1>e, <1>u, <1>l
<1>6. CASE SeekWithin(o)
  <2>1. PICK p \in 0..MaxPoint : InBuffer(o, p) /\ Moves(o, start[o], p - start[o], len[o])
    BY <1>6 DEF SeekWithin
  <2>2. p - start[o] \in Nat /\ p - start[o] <= len[o]
    BY <2>1, <1>u, <1>c DEF InBuffer
  <2>3. phase[o] = "open" /\ UNCHANGED <<length, pool, buffer, phase>>
    BY <1>6 DEF SeekWithin
  <2> QED
    BY <2>1, <2>2, <2>3, <1>u, <1>l
<1>7. CASE SeekOutside(o)
  <2>1. PICK p \in 0..MaxPoint : Moves(o, p, 0, 0)
    BY <1>7 DEF SeekOutside
  <2>2. phase[o] = "open" /\ UNCHANGED <<length, pool, buffer, phase>> /\ p \in Nat
    BY <1>7, <2>1, <1>c DEF SeekOutside
  <2> QED
    BY <2>1, <2>2, <1>u, <1>l
<1>8. CASE CloseOutput(o)
  <2>1. Goes(o, start[o] + len[o], 0, 0, NoBuffer, "closed")
    BY <1>8, <1>u, <1>s, PutBuffers DEF CloseOutput, Emptied, Goes
  <2> QED
    BY <2>1, <1>e, <1>u, <1>c DEF StepOf
<1> QED
  BY <1>1, <1>2, <1>3, <1>4, <1>5, <1>6, <1>7, <1>8, OutputSteps(o) DEF OutputSteps

LEMMA CloneRange ==
  ASSUME RangeInv, NEW i \in Inputs, NEW j \in Inputs, Clone(i, j)
  PROVE  StepOf(j)
<1>1. i \in Streams /\ j \in Streams /\ j \notin Outputs
  BY StreamAssumption DEF Streams
<1>2. Point(i) \in Nat
  BY <1>1, Unmoved DEF Point
<1>3. Goes(j, Point(i), 0, 0, buffer[j], "open")
  BY <1>1, Unmoved DEF Clone, Goes
<1> QED
  BY <1>1, <1>2, <1>3, Unmoved DEF StepOf, Phases

LEMMA RangeStep == RangeInv /\ [Next]_vars => RangeInv'
<1> SUFFICES ASSUME RangeInv, [Next]_vars
             PROVE  RangeInv'
  OBVIOUS
<1>1. CASE \E i \in Inputs : InputSteps(i)
  BY <1>1, InputRange, RangeGoes DEF Streams
<1>2. CASE \E i, j \in Inputs : Clone(i, j)
  BY <1>2, CloneRange, RangeGoes DEF Streams
<1>3. CASE \E o \in Outputs : OutputSteps(o)
  BY <1>3, OutputRange, RangeGoes DEF Streams
<1>4. CASE UNCHANGED vars
  BY <1>4 DEF vars, RangeInv, TypeOK, InRange
<1> QED
  BY <1>1, <1>2, <1>3, <1>4 DEF Next

(* No call of a stream reaches outside its buffer, or writes without one,  *)
(* after any reads, writes, seeks, flushes, clones and failures: what keeps*)
(* the array indexes of CustomBufferedIndexInput and                       *)
(* ReusedBufferedIndexOutput in range.                                     *)
THEOREM IndexesInRange == Spec => [](TypeOK /\ InRange)
<1>1. Spec => []RangeInv
  BY RangeInit, RangeStep, PTL DEF Spec
<1>2. RangeInv => TypeOK /\ InRange
  BY DEF RangeInv
<1> QED
  BY <1>1, <1>2, PTL
-----------------------------------------------------------------------------
(* Clones.  The stream an input reads is its own, or that of an original   *)
(* that has been opened; an input that does not know itself for a clone is *)
(* an original; and a stream is ended only when its original is closed.    *)
HandlesOK == /\ clone \in [Inputs -> BOOLEAN] /\ ended \subseteq Inputs
             /\ \A i \in Inputs : ~clone[i] => origin[i] = i
             /\ \A i \in ended : phase[i] = "closed"

OriginInv ==
  /\ HandlesOK
  /\ phase \in [Streams -> Phases] /\ broken \in [Streams -> BOOLEAN]
  /\ origin \in [Inputs -> Inputs]
  /\ \A i \in Inputs : /\ origin[origin[i]] = origin[i]
                       /\ phase[i] = "none" => origin[i] = i
                       /\ phase[i] # "none" => phase[origin[i]] # "none"
  /\ \A s \in Streams : phase[s] = "none" => ~broken[s]
  /\ BreaksWithReason

(* What a step other than a clone's does to phases and breaks.             *)
Ages(s) == \E f \in {"open", "closed"} :
             /\ phase[s] = "closed" => f = "closed"
             /\ phase' = [phase EXCEPT ![s] = f]
Lasts(s) ==
  /\ faults' = faults /\ origin' = origin /\ clone' = clone
  /\ phase' = phase \/ Ages(s)
  /\ ended' = ended \/ (s \in Inputs /\ ended' = ended \cup {s} /\ phase'[s] = "closed")
  /\ \/ broken' = broken
     \/ /\ Breaks(s) /\ phase[s] = "open" /\ phase' = phase
        /\ s \in Inputs => faults \/ phase[origin[s]] = "closed"

LEMMA InputLasts ==
  ASSUME OriginInv, NEW i \in Inputs, InputSteps(i)
  PROVE  Lasts(i)
<1> USE DEF handles
<1>1. CASE OpenInput(i)
  BY <1>1 DEF OpenInput, Lasts, Ages
<1>2. CASE ReadFails(i)
  <2>1. faults \/ phase[origin[i]] = "closed"
    BY <1>2 DEF ReadFails, CanFail, StreamClosed, OriginInv, HandlesOK
  <2> QED
    BY <1>2, <2>1 DEF ReadFails, Lasts
<1>3. CASE CloseInput(i)
  <2>1. ended' = ended \/ ended' = ended \cup {i}
    BY <1>3 DEF CloseInput, OriginInv, HandlesOK
  <2>2. phase'[i] = "closed"
    BY <1>3 DEF CloseInput, OriginInv, Streams
  <2> QED
    BY <1>3, <2>1, <2>2 DEF CloseInput, Lasts, Ages
<1>4. CASE CloseFails(i)
  BY <1>4 DEF CloseFails, Lasts
<1>5. CASE FromBuffer(i) \/ ReadThroughBuffer(i) \/ ReadDirect(i) \/ PastEnd(i) \/ SeekInput(i)
  BY <1>5 DEF FromBuffer, ReadThroughBuffer, ReadDirect, PastEnd, SeekInput, Lasts
<1> QED
  BY <1>1, <1>2, <1>3, <1>4, <1>5, InputSteps(i) DEF InputSteps

LEMMA OutputLasts ==
  ASSUME OriginInv, NEW o \in Outputs, OutputSteps(o)
  PROVE  Lasts(o)
<1> USE DEF handles
<1>o. o \notin Inputs
  BY StreamAssumption
<1>1. CASE OpenOutput(o)
  BY <1>1 DEF OpenOutput, Lasts, Ages
<1>2. CASE CloseOutput(o)
  BY <1>2 DEF CloseOutput, Lasts, Ages
<1>3. CASE WriteFails(o)
  BY <1>3, <1>o DEF WriteFails, Lasts
<1>4. CASE FlushFails(o)
  BY <1>4, <1>o DEF FlushFails, Lasts
<1>5. CASE SeekOutside(o)
  BY <1>5, <1>o DEF SeekOutside, Lasts
<1>6. CASE WriteFits(o) \/ WriteOver(o) \/ Flush(o) \/ SeekWithin(o)
  BY <1>6 DEF WriteFits, WriteOver, Flush, SeekWithin, Lasts
<1> QED
  BY <1>1, <1>2, <1>3, <1>4, <1>5, <1>6, OutputSteps(o) DEF OutputSteps

LEMMA OriginInit == Init => OriginInv
BY DEF Init, OriginInv, HandlesOK, Phases, BreaksWithReason, Streams

LEMMA OriginLasts ==
  ASSUME OriginInv, NEW s \in Streams, Lasts(s)
  PROVE  OriginInv'
<1>1. \A t \in Streams : /\ phase'[t] \in Phases
                         /\ phase[t] # "none" => phase'[t] # "none"
                         /\ phase'[t] = "none" => phase[t] = "none"
                         /\ phase[t] = "closed" => phase'[t] = "closed"
                         /\ phase[t] = "none" /\ t # s => phase'[t] = "none"
  BY DEF OriginInv, Lasts, Ages, Phases
<1>2. phase' \in [Streams -> Phases]
  BY DEF OriginInv, Lasts, Ages, Phases
<1>3. broken' \in [Streams -> BOOLEAN]
  BY Zenon DEF OriginInv, Lasts, Breaks
<1>4. \A t \in Streams : broken'[t] => \/ broken[t]
                                      \/ /\ t = s /\ phase'[t] = "open"
                                         /\ s \in Inputs => faults \/ phase[origin[s]] = "closed"
  BY DEF OriginInv, Lasts, Breaks
<1>5. \A i \in Inputs : /\ i \in Streams /\ origin[i] \in Streams /\ origin[i] \in Inputs
                        /\ origin'[i] = origin[i] /\ origin'[origin'[i]] = origin[origin[i]]
  BY DEF OriginInv, Lasts, Streams
<1>6. ASSUME NEW i \in Inputs
      PROVE  /\ origin'[origin'[i]] = origin'[i]
             /\ phase'[i] = "none" => origin'[i] = i
             /\ phase'[i] # "none" => phase'[origin'[i]] # "none"
  <2>1. CASE phase[i] = "none"
    <3>1. origin[i] = i
      BY <2>1 DEF OriginInv
    <3> QED
      BY <1>1, <1>5, <3>1
  <2>2. CASE phase[i] # "none"
    BY <1>1, <1>5, <2>2 DEF OriginInv
  <2> QED
    BY <2>1, <2>2
<1>7. \A t \in Streams : phase'[t] = "none" => ~broken'[t]
  BY <1>1, <1>4 DEF OriginInv
<1>8. BreaksWithReason'
  <2> SUFFICES ASSUME NEW i \in Inputs, broken'[i], ~faults'
               PROVE  origin'[i] # i /\ phase'[origin'[i]] = "closed"
    BY DEF BreaksWithReason
  <2>1. ~faults
    BY DEF Lasts
  <2>2. CASE broken[i]
    <3>1. origin[i] # i /\ phase[origin[i]] = "closed"
      BY <2>1, <2>2 DEF OriginInv, BreaksWithReason
    <3> QED
      BY <1>1, <1>5, <3>1
  <2>3. CASE ~broken[i]
    <3>1. i = s /\ phase'[i] = "open" /\ phase[origin[i]] = "closed"
      BY <1>4, <1>5, <2>1, <2>3
    <3>2. phase'[origin[i]] = "closed"
      BY <1>1, <1>5, <3>1
    <3> QED
      BY <1>5, <3>1, <3>2
  <2> QED
    BY <2>2, <2>3
<1>9. origin' \in [Inputs -> Inputs]
  BY DEF OriginInv, Lasts
<1>10. HandlesOK'
  <2>1. /\ clone' \in [Inputs -> BOOLEAN]
        /\ \A i \in Inputs : ~clone'[i] => origin'[i] = i
    BY DEF OriginInv, HandlesOK, Lasts
  <2>2. ended' \subseteq Inputs /\ \A i \in ended' : phase'[i] = "closed"
    BY <1>1 DEF OriginInv, HandlesOK, Lasts, Streams
  <2> QED
    BY <2>1, <2>2 DEF HandlesOK
<1> QED
  BY <1>2, <1>3, <1>6, <1>7, <1>8, <1>9, <1>10 DEF OriginInv

LEMMA OriginClone ==
  ASSUME OriginInv, NEW i \in Inputs, NEW j \in Inputs, Clone(i, j)
  PROVE  OriginInv'
<1>1. /\ i \in Streams /\ j \in Streams /\ phase[i] = "open" /\ phase[j] = "none" /\ i # j
      /\ faults' = faults /\ broken' = broken
  BY DEF Clone, Streams
<1>2. \A t \in Streams : phase'[t] = IF t = j THEN "open" ELSE phase[t]
  BY DEF Clone, OriginInv
<1>3. \A k \in Inputs : /\ origin'[k] = IF k = j THEN origin[i] ELSE origin[k]
                        /\ k \in Streams /\ origin[k] \in Inputs /\ origin[k] \in Streams
  BY DEF Clone, OriginInv, Streams
<1>4. origin' \in [Inputs -> Inputs] /\ phase' \in [Streams -> Phases]
  BY <1>3 DEF Clone, OriginInv, Phases
<1>5. origin[j] = j /\ ~broken[j]
  BY <1>1 DEF OriginInv
(* Nobody but j itself reads the stream of j.                              *)
<1>6. \A k \in Inputs : k # j => origin[k] # j
  <2> SUFFICES ASSUME NEW k \in Inputs, k # j
               PROVE  origin[k] # j
    OBVIOUS
  <2>1. CASE phase[k] = "none"
    BY <2>1 DEF OriginInv
  <2>2. CASE phase[k] # "none"
    BY <1>1, <2>2 DEF OriginInv
  <2> QED
    BY <2>1, <2>2
<1>7. ASSUME NEW k \in Inputs
      PROVE  /\ origin'[origin'[k]] = origin'[k]
             /\ phase'[k] = "none" => origin'[k] = k
             /\ phase'[k] # "none" => phase'[origin'[k]] # "none"
             /\ broken'[k] /\ ~faults' => origin'[k] # k /\ phase'[origin'[k]] = "closed"
  <2>1. CASE k = j
    BY <1>1, <1>2, <1>3, <1>5, <1>6, <2>1 DEF OriginInv
  <2>2. CASE k # j
    <3>1. origin'[k] = origin[k] /\ origin[k] # j
      BY <1>3, <1>6, <2>2
    <3>2. origin'[origin[k]] = origin[k] /\ phase'[origin[k]] = phase[origin[k]] /\ phase'[k] = phase[k]
      BY <1>2, <1>3, <2>2, <3>1 DEF OriginInv
    <3> QED
      BY <1>1, <3>1, <3>2 DEF OriginInv, BreaksWithReason
  <2> QED
    BY <2>1, <2>2
<1>8. \A t \in Streams : phase'[t] = "none" => ~broken'[t]
  BY <1>1, <1>2 DEF OriginInv
<1>9. broken' \in [Streams -> BOOLEAN]
  BY <1>1 DEF OriginInv
<1>10. HandlesOK'
  <2>1. /\ clone' = [clone EXCEPT ![j] = TRUE] /\ ended' = ended
        /\ clone \in [Inputs -> BOOLEAN] /\ ended \subseteq Inputs
    BY DEF Clone, SetsFlag, OriginInv, HandlesOK
  <2>2. \A k \in Inputs : ~clone'[k] => origin'[k] = k
    BY <1>3, <2>1 DEF OriginInv, HandlesOK
  <2>3. \A k \in ended' : phase'[k] = "closed"
    BY <1>1, <1>2, <2>1 DEF OriginInv, HandlesOK, Streams
  <2> QED
    BY <2>1, <2>2, <2>3 DEF HandlesOK
<1> QED
  BY <1>4, <1>7, <1>8, <1>9, <1>10 DEF OriginInv, BreaksWithReason

LEMMA OriginStep == OriginInv /\ [Next]_vars => OriginInv'
<1> SUFFICES ASSUME OriginInv, [Next]_vars
             PROVE  OriginInv'
  OBVIOUS
<1>1. CASE \E i \in Inputs : InputSteps(i)
  BY <1>1, InputLasts, OriginLasts DEF Streams
<1>2. CASE \E i, j \in Inputs : Clone(i, j)
  BY <1>2, OriginClone
<1>3. CASE \E o \in Outputs : OutputSteps(o)
  BY <1>3, OutputLasts, OriginLasts DEF Streams
<1>4. CASE UNCHANGED vars
  BY <1>4 DEF vars, OriginInv, HandlesOK, BreaksWithReason
<1> QED
  BY <1>1, <1>2, <1>3, <1>4 DEF Next

(* Where HDFS does not fail, an input breaks only if it is a clone whose   *)
(* original was closed: every clone, of clones too, knows that it is one,  *)
(* and closeInternal of a clone leaves the HDFS stream open.               *)
THEOREM OriginalsEndClones == Spec => []BreaksWithReason
<1>1. Spec => []OriginInv
  BY OriginInit, OriginStep, PTL DEF Spec
<1>2. OriginInv => BreaksWithReason
  BY DEF OriginInv
<1> QED
  BY <1>1, <1>2, PTL
-----------------------------------------------------------------------------
(* Bytes.                                                                  *)
Arrays == [1..BufferSize -> Nat]

LEMMA ArrayIsSeq ==
  ASSUME NEW n \in Nat, NEW f \in [1..n -> Nat]
  PROVE  f \in Seq(Nat) /\ Len(f) = n
<1>1. f \in Seq(Nat)
  BY SeqDef
<1>2. DOMAIN f = 1..n /\ DOMAIN f = 1..Len(f) /\ Len(f) \in Nat
  BY <1>1, LenProperties
<1> QED
  BY <1>1, <1>2

LEMMA FileBytesAre ==
  ASSUME NEW p \in Nat, NEW n \in Nat
  PROVE  /\ FileBytes(p, n) \in Seq(Nat) /\ Len(FileBytes(p, n)) = n
         /\ \A k \in 1..n : FileBytes(p, n)[k] = p + k
<1>1. FileBytes(p, n) \in [1..n -> Nat]
  BY DEF FileBytes
<1> QED
  BY <1>1, ArrayIsSeq DEF FileBytes

LEMMA WrittenAre ==
  ASSUME NEW v \in Nat, NEW n \in Nat
  PROVE  /\ Written(v, n) \in Seq(Nat) /\ Len(Written(v, n)) = n
         /\ \A k \in 1..n : Written(v, n)[k] = v + k
<1>1. Written(v, n) \in [1..n -> Nat]
  BY DEF Written
<1> QED
  BY <1>1, ArrayIsSeq DEF Written

LEMMA LaidIs ==
  ASSUME NEW c \in Arrays, NEW p \in Nat, NEW bytes \in Seq(Nat)
  PROVE  /\ Laid(c, p, bytes) \in Arrays
         /\ \A k \in 1..BufferSize :
              Laid(c, p, bytes)[k] = IF k > p /\ k <= p + Len(bytes) THEN bytes[k - p] ELSE c[k]
<1>1. Len(bytes) \in Nat /\ BufferSize \in Nat
  BY LenProperties, SizeAssumption
<1>2. \A k \in 1..BufferSize : k > p /\ k <= p + Len(bytes) => bytes[k - p] \in Nat
  <2> SUFFICES ASSUME NEW k \in 1..BufferSize, k > p, k <= p + Len(bytes)
               PROVE  bytes[k - p] \in Nat
    OBVIOUS
  <2>1. k - p \in 1..Len(bytes)
    BY <1>1
  <2> QED
    BY <2>1, ElementOfSeq
<1>3. \A k \in 1..BufferSize : c[k] \in Nat
  BY DEF Arrays
<1> QED
  BY <1>2, <1>3 DEF Laid, Arrays

(* bytes over t from place p on: what PlainFile means by a write.          *)
LEMMA OverIs ==
  ASSUME NEW t \in Seq(Nat), NEW p \in 0..Len(t), NEW bytes \in Seq(Nat)
  PROVE  /\ Plain!Over(t, p, bytes) \in Seq(Nat)
         /\ Len(Plain!Over(t, p, bytes)) = Greater(p + Len(bytes), Len(t))
         /\ \A k \in 1..Greater(p + Len(bytes), Len(t)) :
              Plain!Over(t, p, bytes)[k] = IF k > p /\ k <= p + Len(bytes) THEN bytes[k - p] ELSE t[k]
<1> DEFINE n == Greater(p + Len(bytes), Len(t))
<1>1. Len(bytes) \in Nat /\ Len(t) \in Nat /\ p \in Nat /\ p <= Len(t)
  BY LenProperties
<1>2. n \in Nat /\ n >= p + Len(bytes) /\ n >= Len(t) /\ (n = Len(t) \/ n = p + Len(bytes))
  BY <1>1 DEF Greater
<1>3. Plain!Over(t, p, bytes) = [k \in 1..n |-> IF k > p /\ k <= p + Len(bytes) THEN bytes[k - p] ELSE t[k]]
  BY DEF Plain!Over, Greater
<1>4. \A k \in 1..n : (IF k > p /\ k <= p + Len(bytes) THEN bytes[k - p] ELSE t[k]) \in Nat
  <2> SUFFICES ASSUME NEW k \in 1..n
               PROVE  (IF k > p /\ k <= p + Len(bytes) THEN bytes[k - p] ELSE t[k]) \in Nat
    OBVIOUS
  <2>1. CASE k > p /\ k <= p + Len(bytes)
    <3>1. k - p \in 1..Len(bytes)
      BY <1>1, <1>2, <2>1
    <3> QED
      BY <2>1, <3>1, ElementOfSeq
  <2>2. CASE ~(k > p /\ k <= p + Len(bytes))
    <3>1. k \in 1..Len(t)
      BY <1>1, <1>2, <2>2
    <3> QED
      BY <2>2, <3>1, ElementOfSeq
  <2> QED
    BY <2>1, <2>2
<1> HIDE DEF n
<1>5. Plain!Over(t, p, bytes) \in [1..n -> Nat]
  BY <1>3, <1>4
<1>6. Plain!Over(t, p, bytes) \in Seq(Nat) /\ Len(Plain!Over(t, p, bytes)) = n
  BY <1>2, <1>5, ArrayIsSeq
<1> QED
  BY <1>3, <1>6 DEF n
-----------------------------------------------------------------------------
(* Nobody can tell the buffers: the mapping to PlainFile.  An input that is*)
(* open has the bytes of its file in its buffer, and an output has sent    *)
(* what came before its buffer.                                            *)
InputBytes(i) ==
  /\ Point(i) <= MaxPoint
  /\ phase[i] = "open" /\ len[i] > 0 => start[i] + len[i] <= length
  /\ phase[i] = "open" /\ ~broken[i] => \A k \in 1..len[i] : content[buffer[i]][k] = start[i] + k
OutputBytes(o) ==
  /\ ~broken[o] => Len(dest[o]) = start[o]
  /\ phase[o] # "open" => len[o] = 0
BytesInv ==
  /\ RangeInv /\ HandInv
  /\ length <= MaxPoint
  /\ content \in [Buffers -> Arrays] /\ dest \in [Outputs -> Seq(Nat)]
  /\ broken \in [Streams -> BOOLEAN]
  /\ \A s \in Streams : phase[s] = "none" => ~broken[s]
  /\ \A i \in Inputs : InputBytes(i)
  /\ \A o \in Outputs : OutputBytes(o)

(* What PlainFile sees.                                                    *)
State == [s \in Streams |-> IF phase[s] = "open" /\ broken[s] THEN "broken" ELSE phase[s]]
Place == [s \in Streams |-> IF s \in Outputs /\ broken[s] THEN 0 ELSE Point(s)]
Texts == [o \in Outputs |-> Text(o)]

(* A step of stream s: only its buffer is written, only its destination    *)
(* grows.                                                                  *)
Writes(s) == \E b \in Buffers, c \in Arrays :
               /\ b = buffer[s] \/ b \notin Held
               /\ content' = [content EXCEPT ![b] = c]
Stepped(s) ==
  /\ StepOf(s)
  /\ content' = content \/ Writes(s)
  /\ broken' = broken \/ (Breaks(s) /\ phase' = phase /\ phase[s] = "open")
  /\ \/ dest' = dest
     \/ s \in Outputs /\ \E d \in Seq(Nat) : dest' = [dest EXCEPT ![s] = d]

LEMMA StepFrame ==
  ASSUME RangeInv, NEW s \in Streams, StepOf(s)
  PROVE  /\ length' = length
         /\ \A t \in Streams \ {s} :
              /\ start'[t] = start[t] /\ pos'[t] = pos[t] /\ len'[t] = len[t]
              /\ buffer'[t] = buffer[t] /\ phase'[t] = phase[t]
         /\ \A t \in Streams : start'[t] \in Nat /\ pos'[t] \in Nat /\ len'[t] \in Nat
<1>1. PICK q \in Nat, p \in Nat, n \in Nat, b \in Buffers \cup {NoBuffer}, f \in Phases :
        Goes(s, q, p, n, b, f)
  BY DEF StepOf
<1> QED
  BY <1>1 DEF Goes, Moves, RangeInv, TypeOK

LEMMA MovesOwn ==
  ASSUME RangeInv, NEW s \in Streams, NEW q, NEW p, NEW n, Moves(s, q, p, n)
  PROVE  start'[s] = q /\ pos'[s] = p /\ len'[s] = n /\ Point(s)' = q + p
<1>1. start'[s] = q /\ pos'[s] = p /\ len'[s] = n
  BY DEF Moves, RangeInv, TypeOK
<1> QED
  BY <1>1 DEF Point

LEMMA BufferedIs ==
  ASSUME BytesInv, NEW o \in Outputs
  PROVE  /\ Buffered(o) \in Seq(Nat) /\ Len(Buffered(o)) = len[o] /\ len[o] \in Nat
         /\ \A k \in 1..len[o] : Buffered(o)[k] = content[buffer[o]][k]
         /\ Text(o) \in Seq(Nat) /\ dest[o] \in Seq(Nat)
         /\ ~broken[o] => /\ Text(o) = dest[o] \o Buffered(o)
                          /\ Len(Text(o)) = start[o] + len[o]
<1>1. /\ o \in Streams /\ len[o] \in Nat /\ len[o] <= BufferSize /\ BufferSize \in Nat
      /\ phase[o] = "open" => buffer[o] \in Buffers
      /\ start[o] \in Nat /\ dest[o] \in Seq(Nat)
  BY Unmoved DEF Streams, BytesInv
<1>2. /\ Buffered(o) \in Seq(Nat) /\ Len(Buffered(o)) = len[o]
      /\ \A k \in 1..len[o] : Buffered(o)[k] = content[buffer[o]][k]
  <2>1. CASE len[o] = 0
    BY <2>1, EmptySeq DEF Buffered
  <2>2. CASE len[o] # 0
    <3>1. phase[o] = "open" /\ buffer[o] \in Buffers
      BY <1>1, <2>2 DEF BytesInv, OutputBytes
    <3>2. content[buffer[o]] \in Arrays
      BY <3>1 DEF BytesInv
    <3>3. \A k \in 1..len[o] : content[buffer[o]][k] \in Nat
      BY <1>1, <3>2 DEF Arrays
    <3>4. /\ SubSeq(content[buffer[o]], 1, len[o]) \in Seq(Nat)
          /\ Len(SubSeq(content[buffer[o]], 1, len[o])) = len[o]
          /\ \A k \in 1..len[o] : SubSeq(content[buffer[o]], 1, len[o])[k] = content[buffer[o]][1 + k - 1]
      <4> DEFINE a == content[buffer[o]]  n == len[o]
      <4>1. \A k \in 1..n : a[k] \in Nat
        BY <3>3
      <4>2. 1 \in Int /\ n \in Int /\ 1 <= n /\ n - 1 + 1 = n
        BY <1>1, <2>2
      <4> HIDE DEF a, n
      <4>3. /\ SubSeq(a, 1, n) \in Seq(Nat) /\ Len(SubSeq(a, 1, n)) = IF 1 <= n THEN n - 1 + 1 ELSE 0
            /\ \A k \in 1..n-1+1 : SubSeq(a, 1, n)[k] = a[1 + k - 1]
        BY <4>1, <4>2, SubSeqProperties
      <4> QED
        BY <4>2, <4>3 DEF a, n
    <3>5. \A k \in 1..len[o] : 1 + k - 1 = k
      BY <1>1
    <3> QED
      BY <2>2, <3>4, <3>5 DEF Buffered
  <2> QED
    BY <2>1, <2>2
<1>3. /\ dest[o] \o Buffered(o) \in Seq(Nat)
      /\ Len(dest[o] \o Buffered(o)) = Len(dest[o]) + len[o]
  <2>1. dest[o] \in Seq(Nat) /\ Buffered(o) \in Seq(Nat)
    BY <1>1, <1>2
  <2>2. dest[o] \o Buffered(o) \in Seq(Nat) /\ Len(dest[o] \o Buffered(o)) = Len(dest[o]) + Len(Buffered(o))
    BY <2>1, ConcatProperties, Zenon
  <2> QED
    BY <1>2, <2>2
<1>4. CASE broken[o]
  BY <1>1, <1>2, <1>4, EmptySeq DEF Text
<1>5. CASE ~broken[o]
  BY <1>1, <1>2, <1>3, <1>5 DEF Text, BytesInv, OutputBytes
<1> QED
  BY <1>1, <1>2, <1>4, <1>5

(* The streams that do not step see nothing of it.                         *)
LEMMA OthersStand ==
  ASSUME BytesInv, NEW s \in Streams, Stepped(s)
  PROVE  /\ RangeInv'
         /\ content' \in [Buffers -> Arrays] /\ dest' \in [Outputs -> Seq(Nat)]
         /\ broken' \in [Streams -> BOOLEAN]
         /\ \A t \in Streams : phase'[t] = "none" /\ t # s => ~broken'[t]
         /\ \A i \in Inputs \ {s} : InputBytes(i)'
         /\ \A o \in Outputs \ {s} : OutputBytes(o)' /\ Text(o)' = Text(o)
         /\ \A t \in Streams \ {s} : Point(t)' = Point(t) /\ broken'[t] = broken[t] /\ phase'[t] = phase[t]
<1>1. RangeInv'
  BY RangeGoes DEF Stepped, BytesInv
<1>2. /\ length' = length
      /\ \A t \in Streams \ {s} :
              /\ start'[t] = start[t] /\ pos'[t] = pos[t] /\ len'[t] = len[t]
              /\ buffer'[t] = buffer[t] /\ phase'[t] = phase[t]
  BY StepFrame DEF Stepped, BytesInv
<1>3. content' \in [Buffers -> Arrays]
  BY DEF Stepped, Writes, BytesInv
<1>4. dest' \in [Outputs -> Seq(Nat)] /\ \A o \in Outputs \ {s} : dest'[o] = dest[o]
  BY DEF Stepped, BytesInv
<1>5. broken' \in [Streams -> BOOLEAN]
  BY Zenon DEF Stepped, Breaks, BytesInv
<1>6. \A t \in Streams \ {s} : broken'[t] = broken[t]
  BY DEF Stepped, Breaks, BytesInv
<1>7. \A t \in Streams \ {s} : buffer[t] # NoBuffer => content'[buffer[t]] = content[buffer[t]]
  <2> SUFFICES ASSUME NEW t \in Streams \ {s}, buffer[t] # NoBuffer, Writes(s)
               PROVE  content'[buffer[t]] = content[buffer[t]]
    BY DEF Stepped
  <2>1. PICK b \in Buffers, c \in Arrays : /\ b = buffer[s] \/ b \notin Held
                                           /\ content' = [content EXCEPT ![b] = c]
    BY DEF Writes
  <2>2. b # buffer[t]
    BY <2>1, BufferAssumption DEF BytesInv, HandInv, Exclusive, Held
  <2>3. buffer[t] \in Buffers
    BY DEF BytesInv, HandInv
  <2> QED
    BY <2>1, <2>2, <2>3 DEF BytesInv
<1>8. \A t \in Streams \ {s} : Point(t)' = Point(t)
  BY <1>2 DEF Point
<1>9. ASSUME NEW i \in Inputs \ {s}
      PROVE  InputBytes(i)'
  <2>1. i \in Streams \ {s} /\ InputBytes(i)
    BY DEF Streams, BytesInv
  <2>2. /\ Point(i)' <= MaxPoint
        /\ phase'[i] = "open" /\ len'[i] > 0 => start'[i] + len'[i] <= length'
    BY <1>2, <1>8, <2>1 DEF InputBytes
  <2>3. ASSUME phase'[i] = "open", ~broken'[i], NEW k \in 1..len'[i]
        PROVE  content'[buffer'[i]][k] = start'[i] + k
    <3>1. phase[i] = "open" /\ ~broken[i] /\ k \in 1..len[i]
      BY <1>2, <1>6, <2>1, <2>3
    <3>2. buffer[i] # NoBuffer
      BY <2>1, <3>1, Unmoved DEF BytesInv
    <3>3. content[buffer[i]][k] = start[i] + k
      BY <2>1, <3>1 DEF InputBytes
    <3> QED
      BY <1>2, <1>7, <2>1, <3>2, <3>3
  <2> QED
    BY <2>2, <2>3 DEF InputBytes
<1>10. ASSUME NEW o \in Outputs \ {s}
       PROVE  OutputBytes(o)' /\ Text(o)' = Text(o)
  <2>1. o \in Streams \ {s} /\ OutputBytes(o)
    BY DEF Streams, BytesInv
  <2>2. OutputBytes(o)'
    BY <1>2, <1>4, <1>6, <2>1 DEF OutputBytes
  <2>3. Buffered(o)' = Buffered(o)
    <3>1. CASE len[o] = 0
      BY <1>2, <2>1, <3>1 DEF Buffered
    <3>2. CASE len[o] # 0
      <4>1. buffer[o] # NoBuffer
        BY <2>1, <3>2, Unmoved DEF BytesInv, OutputBytes
      <4> QED
        BY <1>2, <1>7, <2>1, <4>1 DEF Buffered
    <3> QED
      BY <3>1, <3>2
  <2> QED
    BY <1>4, <1>6, <2>1, <2>2, <2>3 DEF Text
<1>11. \A t \in Streams : phase'[t] = "none" /\ t # s => ~broken'[t]
  BY <1>2, <1>6 DEF BytesInv
<1> QED
  BY <1>1, <1>2, <1>3, <1>4, <1>5, <1>6, <1>8, <1>9, <1>10, <1>11
-----------------------------------------------------------------------------
(* What PlainFile sees of a step of s.                                     *)
LEMMA StateAfter ==
  ASSUME BytesInv, NEW s \in Streams, Stepped(s)
  PROVE  /\ State' = [State EXCEPT ![s] = State'[s]]
         /\ State'[s] = IF phase'[s] = "open" /\ broken'[s] THEN "broken" ELSE phase'[s]
         /\ State[s] = IF phase[s] = "open" /\ broken[s] THEN "broken" ELSE phase[s]
<1>1. \A t \in Streams \ {s} : State'[t] = State[t]
  BY OthersStand DEF State
<1> QED
  BY <1>1 DEF State

LEMMA PlaceAfter ==
  ASSUME BytesInv, NEW s \in Streams, Stepped(s)
  PROVE  /\ Place' = [Place EXCEPT ![s] = Place'[s]]
         /\ Place'[s] = IF s \in Outputs /\ broken'[s] THEN 0 ELSE Point(s)'
         /\ Place[s] = IF s \in Outputs /\ broken[s] THEN 0 ELSE Point(s)
<1>1. \A t \in Streams \ {s} : Place'[t] = Place[t]
  BY OthersStand DEF Place
<1> QED
  BY <1>1 DEF Place

LEMMA TextAfter ==
  ASSUME BytesInv, NEW s \in Streams, Stepped(s)
  PROVE  /\ s \in Outputs => Texts' = [Texts EXCEPT ![s] = Text(s)'] /\ Texts[s] = Text(s)
         /\ (s \in Outputs => Text(s)' = Text(s)) => Texts' = Texts
<1>1. \A o \in Outputs \ {s} : Text(o)' = Text(o)
  BY OthersStand
<1>2. Texts' = [o \in Outputs |-> Text(o)']
  BY DEF Texts
<1> QED
  BY <1>1, <1>2 DEF Texts

LEMMA PlainStutters ==
  ASSUME UNCHANGED <<length, State, Place, Texts, result>>
  PROVE  UNCHANGED Plain!vars
BY DEF Plain!vars, State, Place, Texts

LEMMA PlainOpens ==
  ASSUME NEW s \in Streams, State[s] = "none", State' = [State EXCEPT ![s] = "open"],
         UNCHANGED <<length, Place, Texts, result>>
  PROVE  Plain!Next
<1>1. Plain!Open(s)
  BY DEF Plain!Open, State, Place, Texts, Plain!Streams, Streams
<1> QED
  BY <1>1 DEF Plain!Next, Plain!Streams, Streams

LEMMA PlainClones ==
  ASSUME NEW i \in Inputs, NEW j \in Inputs, State[i] \in {"open", "broken"}, State[j] = "none",
         State' = [State EXCEPT ![j] = "open"], Place' = [Place EXCEPT ![j] = Place[i]],
         UNCHANGED <<length, Texts, result>>
  PROVE  Plain!Next
<1>1. Plain!Clone(i, j)
  BY DEF Plain!Clone, Plain!Usable, Plain!MovesTo, State, Place, Texts, Plain!Streams, Streams
<1> QED
  BY <1>1 DEF Plain!Next

LEMMA PlainReads ==
  ASSUME NEW i \in Inputs, State[i] \in {"open", "broken"}, NEW n \in 1..MaxCall,
         Place[i] + n <= length, Place' = [Place EXCEPT ![i] = Place[i] + n],
         result'.by = i, result'.ok, State[i] = "open" => result'.bytes = FileBytes(Place[i], n),
         UNCHANGED <<length, State, Texts>>
  PROVE  Plain!Next
<1>1. Plain!Read(i)
  BY DEF Plain!Read, Plain!Usable, Plain!MovesTo, Plain!FileBytes, FileBytes, State, Place, Texts, Plain!Streams, Streams
<1> QED
  BY <1>1 DEF Plain!Next

LEMMA PlainReadsPastEnd ==
  ASSUME NEW i \in Inputs, State[i] \in {"open", "broken"}, Place[i] + MaxCall > length,
         NEW p \in Place[i]..MaxPoint, p = Place[i] \/ p <= length,
         Place' = [Place EXCEPT ![i] = p], Answer(i, FALSE, <<>>),
         UNCHANGED <<length, State, Texts>>
  PROVE  Plain!Next
<1>1. Plain!ReadPastEnd(i)
  BY DEF Plain!ReadPastEnd, Plain!Usable, Plain!MovesTo, Plain!Call, Answer, State, Place, Texts, Plain!Streams, Streams
<1> QED
  BY <1>1 DEF Plain!Next

LEMMA PlainSeeks ==
  ASSUME NEW i \in Inputs, State[i] \in {"open", "broken"}, NEW p \in 0..MaxPoint,
         Place' = [Place EXCEPT ![i] = p], UNCHANGED <<length, State, Texts, result>>
  PROVE  Plain!Next
<1>1. Plain!Seek(i)
  BY DEF Plain!Seek, Plain!Usable, Plain!MovesTo, State, Place, Texts, Plain!Streams, Streams
<1> QED
  BY <1>1 DEF Plain!Next

LEMMA PlainWrites ==
  ASSUME NEW o \in Outputs, State[o] = "open", NEW n \in 1..MaxCall, NEW v \in Values,
         Texts' = [Texts EXCEPT ![o] = Plain!Over(Texts[o], Place[o], Written(v, n))],
         Place' = [Place EXCEPT ![o] = Place[o] + n], Answer(o, TRUE, Written(v, n)),
         UNCHANGED <<length, State>>
  PROVE  Plain!Next
<1>1. Plain!Written(v, n) = Written(v, n)
  BY DEF Plain!Written, Written
<1>2. Texts' = [Texts EXCEPT ![o] = Plain!Over(Texts[o], Place[o], Plain!Written(v, n))]
  BY <1>1
<1>3. result' = Plain!Call(o, TRUE, Plain!Written(v, n))
  BY <1>1, Zenon DEF Plain!Call, Answer
<1>4. Plain!Write(o)
  BY <1>2, <1>3, Zenon DEF Plain!Write, Plain!MovesTo, State, Place, Texts, Plain!Streams, Streams
<1> QED
  BY <1>4 DEF Plain!Next

LEMMA PlainSeeksBack ==
  ASSUME NEW o \in Outputs, State[o] = "open", NEW p \in 0..Len(Texts[o]),
         Place' = [Place EXCEPT ![o] = p], UNCHANGED <<length, State, Texts, result>>
  PROVE  Plain!Next
<1>1. Plain!SeekBack(o)
  BY DEF Plain!SeekBack, Plain!MovesTo, State, Place, Texts, Plain!Streams, Streams
<1> QED
  BY <1>1 DEF Plain!Next

LEMMA PlainFlushes ==
  ASSUME NEW o \in Outputs, State[o] = "open", Place' = [Place EXCEPT ![o] = Len(Texts[o])],
         UNCHANGED <<length, State, Texts, result>>
  PROVE  Plain!Next
<1>1. Plain!Flush(o)
  BY DEF Plain!Flush, Plain!MovesTo, State, Place, Texts, Plain!Streams, Streams
<1> QED
  BY <1>1 DEF Plain!Next

LEMMA PlainCloses ==
  ASSUME NEW s \in Streams, State[s] \in {"open", "broken"}, State' = [State EXCEPT ![s] = "closed"],
         IF s \in Outputs THEN Place' = [Place EXCEPT ![s] = Len(Texts[s])] ELSE Place' = Place,
         UNCHANGED <<length, Texts, result>>
  PROVE  Plain!Next
<1>1. Plain!Close(s)
  BY DEF Plain!Close, Plain!Usable, Plain!MovesTo, State, Place, Texts, Plain!Streams, Streams
<1> QED
  BY <1>1 DEF Plain!Next, Plain!Streams, Streams

LEMMA PlainBreaks ==
  ASSUME NEW s \in Streams, State[s] \in {"open", "broken"}, State' = [State EXCEPT ![s] = "broken"],
         Answer(s, FALSE, <<>>), NEW p \in 0..MaxPoint, Place' = [Place EXCEPT ![s] = p],
         IF s \in Outputs THEN Texts' = [Texts EXCEPT ![s] = <<>>] ELSE Texts' = Texts,
         UNCHANGED length
  PROVE  Plain!Next
<1>1. Plain!Break(s)
  BY DEF Plain!Break, Plain!Usable, Plain!MovesTo, Plain!Call, Answer, State, Place, Texts, Plain!Streams, Streams
<1> QED
  BY <1>1 DEF Plain!Next, Plain!Streams, Streams

LEMMA PlainBroken ==
  ASSUME NEW o \in Outputs, State[o] = "broken", NEW x \in {"broken", "closed"},
         State' = [State EXCEPT ![o] = x], UNCHANGED <<length, Place, Texts>>
  PROVE  Plain!Next
<1>1. State'[o] = x
  BY DEF State, Streams
<1>2. Plain!BrokenCall(o)
  BY <1>1 DEF Plain!BrokenCall, State, Place, Texts, Plain!Streams, Streams
<1> QED
  BY <1>2 DEF Plain!Next
-----------------------------------------------------------------------------
(* Reads.                                                                  *)
LEMMA CutIs ==
  ASSUME NEW a, NEW m \in Nat, NEW n \in Nat, m <= n, NEW p \in Nat,
         \A k \in (m + 1)..n : a[k] = p + k
  PROVE  SubSeq(a, m + 1, n) = FileBytes(p + m, n - m)
<1> DEFINE l == m + 1  q == p + m  r == n - m  s == SubSeq(a, l, n)  t == FileBytes(q, r)
<1>1. l \in Int /\ n \in Int /\ n - l + 1 = n - m /\ r \in Nat /\ q \in Nat
  OBVIOUS
<1>2. \A k \in l..n : a[k] \in Nat
  OBVIOUS
<1>3. /\ t \in Seq(Nat) /\ Len(t) = n - m
      /\ \A k \in 1..(n - m) : t[k] = p + m + k
  <2> HIDE DEF q, r
  <2>1. t \in Seq(Nat) /\ Len(t) = r /\ \A k \in 1..r : t[k] = q + k
    BY <1>1, FileBytesAre
  <2> QED
    BY <2>1 DEF q, r
<1>4. /\ s \in Seq(Nat) /\ Len(s) = IF l <= n THEN n - l + 1 ELSE 0
      /\ \A k \in 1..(n - l + 1) : s[k] = a[l + k - 1]
  <2> HIDE DEF l
  <2> QED
    BY <1>1, <1>2, SubSeqProperties
<1>5. Len(s) = n - m
  BY <1>4
<1>6. \A k \in 1..(n - m) : s[k] = t[k]
  <2> SUFFICES ASSUME NEW k \in 1..(n - m)
               PROVE  s[k] = t[k]
    OBVIOUS
  <2>1. s[k] = a[l + k - 1] /\ l + k - 1 \in (m + 1)..n /\ l + k - 1 = m + k
    BY <1>1, <1>4
  <2>2. a[m + k] = p + (m + k)
    BY <2>1
  <2> QED
    BY <1>3, <2>1, <2>2
<1> HIDE DEF s, t
<1>7. s = t
  BY <1>3, <1>4, <1>5, <1>6, SeqEqual
<1> QED
  BY <1>7 DEF s, t

LEMMA HeadIs ==
  ASSUME NEW a, NEW n \in Nat, NEW p \in Nat, \A k \in 1..n : a[k] = p + k
  PROVE  SubSeq(a, 1, n) = FileBytes(p, n)
<1>1. PICK m : m = 0
  OBVIOUS
<1>2. m \in Nat /\ m <= n /\ m + 1 = 1 /\ p + m = p /\ n - m = n
  BY <1>1
<1>3. \A k \in (m + 1)..n : a[k] = p + k
  BY <1>2
<1>4. SubSeq(a, m + 1, n) = FileBytes(p + m, n - m)
  BY <1>2, <1>3, CutIs
<1> QED
  BY <1>2, <1>4

LEMMA FileBytesJoin ==
  ASSUME NEW p \in Nat, NEW m \in Nat, NEW n \in Nat
  PROVE  FileBytes(p, m) \o FileBytes(p + m, n) = FileBytes(p, m + n)
<1> DEFINE q == p + m  l == m + n
           s == FileBytes(p, m)  t == FileBytes(q, n)  u == FileBytes(p, l)
<1>0. q \in Nat /\ l \in Nat
  OBVIOUS
<1>1. s \in Seq(Nat) /\ Len(s) = m /\ \A k \in 1..m : s[k] = p + k
  BY FileBytesAre
<1>2. t \in Seq(Nat) /\ Len(t) = n /\ \A k \in 1..n : t[k] = p + m + k
  <2> HIDE DEF q
  <2>1. t \in Seq(Nat) /\ Len(t) = n /\ \A k \in 1..n : t[k] = q + k
    BY <1>0, FileBytesAre
  <2> QED
    BY <2>1 DEF q
<1>3. u \in Seq(Nat) /\ Len(u) = m + n /\ \A k \in 1..(m + n) : u[k] = p + k
  <2> HIDE DEF l
  <2>1. u \in Seq(Nat) /\ Len(u) = l /\ \A k \in 1..l : u[k] = p + k
    BY <1>0, FileBytesAre
  <2> QED
    BY <2>1 DEF l
<1> HIDE DEF s, t, u
<1>4. /\ s \o t \in Seq(Nat) /\ Len(s \o t) = Len(s) + Len(t)
      /\ \A k \in 1..(Len(s) + Len(t)) : (s \o t)[k] = IF k <= Len(s) THEN s[k] ELSE t[k - Len(s)]
  BY <1>1, <1>2, ConcatProperties
<1>5. \A k \in 1..(m + n) : (s \o t)[k] = u[k]
  <2> SUFFICES ASSUME NEW k \in 1..(m + n)
               PROVE  (s \o t)[k] = u[k]
    OBVIOUS
  <2>1. (s \o t)[k] = IF k <= m THEN s[k] ELSE t[k - m]
    BY <1>1, <1>2, <1>4
  <2>2. CASE k <= m
    BY <1>1, <1>3, <2>1, <2>2
  <2>3. CASE ~(k <= m)
    <3>1. k - m \in 1..n
      BY <2>3
    <3> QED
      BY <1>2, <1>3, <2>1, <2>3, <3>1
  <2> QED
    BY <2>2, <2>3
<1>6. s \o t = u
  <2>1. Len(s \o t) = Len(u)
    BY <1>1, <1>2, <1>3, <1>4
  <2>2. \A k \in 1..Len(s \o t) : (s \o t)[k] = u[k]
    BY <1>1, <1>2, <1>4, <1>5
  <2> QED
    BY <1>3, <1>4, <2>1, <2>2, SeqEqual
<1> QED
  BY <1>6 DEF s, t, u

LEMMA InputFacts ==
  ASSUME BytesInv, NEW i \in Inputs
  PROVE  /\ i \in Streams /\ i \notin Outputs
         /\ start[i] \in Nat /\ pos[i] \in Nat /\ len[i] \in Nat
         /\ pos[i] <= len[i] /\ len[i] <= BufferSize /\ BufferSize \in Nat /\ BufferSize > 1
         /\ Point(i) = start[i] + pos[i] /\ Have(i) = len[i] - pos[i]
         /\ Point(i) \in Nat /\ Have(i) \in Nat /\ Point(i) + Have(i) = start[i] + len[i]
         /\ length \in Nat /\ length <= MaxPoint /\ MaxPoint \in Nat /\ MaxCall \in Nat
         /\ Point(i) <= MaxPoint
         /\ phase[i] = "open" /\ len[i] > 0 => start[i] + len[i] <= length
         /\ phase[i] = "open" /\ buffer[i] = NoBuffer => len[i] = 0
<1>1. i \in Streams /\ i \notin Outputs /\ MaxPoint \in Nat /\ MaxCall \in Nat
  BY StreamAssumption, BoundAssumption DEF Streams
<1>2. /\ start[i] \in Nat /\ pos[i] \in Nat /\ len[i] \in Nat
      /\ pos[i] <= len[i] /\ len[i] <= BufferSize /\ BufferSize \in Nat /\ BufferSize > 1
      /\ length \in Nat
      /\ phase[i] = "open" /\ len[i] > 0 => buffer[i] # NoBuffer
  BY <1>1, Unmoved DEF BytesInv
<1>3. Point(i) = start[i] + pos[i] /\ Have(i) = len[i] - pos[i]
  BY DEF Point, Have
<1>4. InputBytes(i) /\ length <= MaxPoint
  BY DEF BytesInv
<1> QED
  BY <1>1, <1>2, <1>3, <1>4 DEF InputBytes

(* What is left in the buffer of a sound input is what comes next in the   *)
(* file.                                                                   *)
LEMMA BufferHasFile ==
  ASSUME BytesInv, NEW i \in Inputs, phase[i] = "open", ~broken[i], NEW m \in pos[i]..len[i]
  PROVE  SubSeq(content[buffer[i]], pos[i] + 1, m) = FileBytes(Point(i), m - pos[i])
<1>1. /\ start[i] \in Nat /\ pos[i] \in Nat /\ len[i] \in Nat /\ m \in Nat /\ pos[i] <= m /\ m <= len[i]
      /\ Point(i) = start[i] + pos[i]
  BY InputFacts
<1>2. \A k \in (pos[i] + 1)..m : content[buffer[i]][k] = start[i] + k
  <2>1. InputBytes(i)
    BY DEF BytesInv
  <2>2. \A k \in (pos[i] + 1)..m : k \in 1..len[i]
    BY <1>1
  <2> QED
    BY <2>1, <2>2 DEF InputBytes
<1> DEFINE a == content[buffer[i]]  q == pos[i]  p == start[i]
<1>3. q \in Nat /\ p \in Nat /\ m \in Nat /\ q <= m /\ \A k \in (q + 1)..m : a[k] = p + k
  BY <1>1, <1>2
<1> HIDE DEF a, q, p
<1>4. SubSeq(a, q + 1, m) = FileBytes(p + q, m - q)
  BY <1>3, CutIs
<1> QED
  BY <1>1, <1>4 DEF a, q, p

LEMMA ServedHasFile ==
  ASSUME BytesInv, NEW i \in Inputs, phase[i] = "open", ~broken[i]
  PROVE  Served(i) = FileBytes(Point(i), Have(i))
<1>1. /\ pos[i] \in Nat /\ len[i] \in Nat /\ pos[i] <= len[i] /\ Have(i) = len[i] - pos[i]
  BY InputFacts
<1>2. len[i] \in pos[i]..len[i]
  BY <1>1
<1>3. SubSeq(content[buffer[i]], pos[i] + 1, len[i]) = FileBytes(Point(i), Have(i))
  BY <1>1, <1>2, BufferHasFile
<1>4. Have(i) = 0 => FileBytes(Point(i), Have(i)) = <<>>
  <2> SUFFICES ASSUME Have(i) = 0
               PROVE  SubSeq(content[buffer[i]], pos[i] + 1, len[i]) = <<>>
    BY <1>3
  <2>1. pos[i] + 1 \in Int /\ len[i] \in Int /\ len[i] < pos[i] + 1
    BY <1>1
  <2> QED
    BY <2>1, SubSeqEmpty
<1> QED
  BY <1>3, <1>4 DEF Served

(* A refill gets bytes of the file into a buffer nobody else holds.        *)
LEMMA RefillIs ==
  ASSUME BytesInv, NEW i \in Inputs, NEW from \in Nat, NEW got \in Nat, got <= BufferSize,
         Refill(i, from, got)
  PROVE  /\ Writes(i)
         /\ \A k \in 1..got : content'[buffer'[i]][k] = from + k
<1>1. PICK b \in Buffers, c \in {content[k] : k \in Buffers} \cup {Zeros} :
        /\ IF buffer[i] = NoBuffer THEN Taken(b, c)
           ELSE b = buffer[i] /\ c = content[b] /\ UNCHANGED pool
        /\ Fill(i, b, Laid(c, 0, FileBytes(from, got)))
  BY DEF Refill
<1>2. c \in Arrays
  <2>1. Zeros \in Arrays
    BY DEF Zeros, Arrays
  <2> QED
    BY <1>1, <2>1 DEF BytesInv
<1>3. b = buffer[i] \/ b \notin Held
  <2>1. b \in pool => b \notin Held
    BY DEF BytesInv, HandInv, Exclusive
  <2> QED
    BY <1>1, <2>1, TakenIsTaken
<1>4. /\ FileBytes(from, got) \in Seq(Nat) /\ Len(FileBytes(from, got)) = got
      /\ \A k \in 1..got : FileBytes(from, got)[k] = from + k
  BY FileBytesAre
<1> DEFINE f == FileBytes(from, got)  d == Laid(c, 0, f)
<1>5. /\ d \in Arrays
      /\ \A k \in 1..BufferSize : d[k] = IF k > 0 /\ k <= 0 + Len(f) THEN f[k - 0] ELSE c[k]
  <2>1. f \in Seq(Nat) /\ 0 \in Nat
    BY <1>4
  <2> HIDE DEF f
  <2> QED
    BY <1>2, <2>1, LaidIs
<1>6. \A k \in 1..got : d[k] = from + k
  <2> SUFFICES ASSUME NEW k \in 1..got
               PROVE  d[k] = from + k
    OBVIOUS
  <2>1. k \in 1..BufferSize /\ k > 0 /\ k <= 0 + got /\ k - 0 = k
    BY InputFacts
  <2>2. d[k] = f[k]
    BY <1>4, <1>5, <2>1
  <2> QED
    BY <1>4, <2>2
<1>7. content' = [content EXCEPT ![b] = d] /\ buffer' = [buffer EXCEPT ![i] = b]
  BY <1>1 DEF Fill
<1> HIDE DEF d
<1>8. content'[buffer'[i]] = d
  BY <1>7, InputFacts DEF BytesInv, HandInv
<1>9. Writes(i)
  BY <1>3, <1>5, <1>7 DEF Writes
<1> QED
  BY <1>6, <1>8, <1>9
Done(s) ==
  /\ Stepped(s) /\ phase'[s] # "none"
  /\ s \in Inputs => InputBytes(s)'
  /\ s \in Outputs => OutputBytes(s)'
  /\ Plain!Next \/ UNCHANGED Plain!vars

LEMMA InputSees ==
  ASSUME BytesInv, NEW i \in Inputs, Stepped(i)
  PROVE  /\ Texts' = Texts /\ length' = length
         /\ Place' = [Place EXCEPT ![i] = Point(i)'] /\ Place[i] = Point(i)
         /\ Point(i)' = Point(i) => Place' = Place
         /\ phase[i] = "open" => State[i] \in {"open", "broken"} /\ (State[i] = "open" <=> ~broken[i])
         /\ phase' = phase /\ broken' = broken => State' = State
<1>1. i \in Streams /\ i \notin Outputs
  BY InputFacts
<1>2. Texts' = Texts
  BY <1>1, TextAfter
<1>3. length' = length
  BY <1>1, StepFrame DEF Stepped, BytesInv
<1>4. Place' = [Place EXCEPT ![i] = Point(i)'] /\ Place[i] = Point(i)
  BY <1>1, PlaceAfter
<1>5. State[i] = IF phase[i] = "open" /\ broken[i] THEN "broken" ELSE phase[i]
  BY <1>1, StateAfter
<1>6. phase' = phase /\ broken' = broken => State' = State
  BY DEF State
<1>7. Point(i)' = Point(i) => Place' = Place
  BY <1>1, <1>4 DEF Place
<1> QED
  BY <1>2, <1>3, <1>4, <1>5, <1>6, <1>7

LEMMA OpenInputDone ==
  ASSUME BytesInv, NEW i \in Inputs, OpenInput(i)
  PROVE  Done(i)
<1>1. StepOf(i)
  BY InputRange DEF InputSteps, BytesInv
<1>2. Stepped(i) /\ Point(i)' = Point(i)
  BY <1>1 DEF OpenInput, Stepped, buffering, Point
<1>3. i \in Streams /\ phase[i] = "none" /\ ~broken[i] /\ len[i] = 0 /\ phase'[i] = "open"
  BY InputFacts DEF OpenInput, BytesInv, RangeInv, TypeOK, InRange
<1>4. State[i] = "none" /\ State' = [State EXCEPT ![i] = "open"]
  <2>1. broken' = broken
    BY DEF OpenInput
  <2>2. State[i] = "none" /\ State'[i] = "open"
    BY <1>2, <1>3, <2>1, StateAfter
  <2> QED
    BY <1>2, <1>3, <2>2, StateAfter
<1>5. Plain!Next
  BY <1>2, <1>3, <1>4, InputSees, PlainOpens DEF OpenInput
<1>6. InputBytes(i)'
  BY <1>2, <1>3, InputFacts DEF OpenInput, buffering, InputBytes
<1> QED
  BY <1>2, <1>3, <1>5, <1>6, InputFacts DEF Done

(* Reads of n bytes that are all there.                                    *)
LEMMA ReadDone ==
  ASSUME BytesInv, NEW i \in Inputs, phase[i] = "open", Stepped(i), phase' = phase, broken' = broken,
         NEW n \in 1..MaxCall, Point(i) + n <= length, Point(i)' = Point(i) + n,
         NEW bytes, Answer(i, TRUE, bytes), ~broken[i] => bytes = FileBytes(Point(i), n)
  PROVE  Plain!Next
<1>1. result'.by = i /\ result'.ok /\ result'.bytes = bytes
  BY DEF Answer
<1>2. Place[i] = Point(i) /\ Place' = [Place EXCEPT ![i] = Place[i] + n] /\ Place[i] + n <= length
  BY InputSees
<1>3. /\ State[i] \in {"open", "broken"} /\ UNCHANGED <<length, State, Texts>>
      /\ State[i] = "open" => result'.bytes = FileBytes(Place[i], n)
  BY <1>1, <1>2, InputSees
<1> QED
  BY <1>1, <1>2, <1>3, PlainReads

LEMMA FromBufferDone ==
  ASSUME BytesInv, NEW i \in Inputs, FromBuffer(i)
  PROVE  Done(i)
<1>1. StepOf(i)
  BY InputRange DEF InputSteps, BytesInv
<1>2. Stepped(i) /\ phase[i] = "open" /\ phase' = phase /\ broken' = broken
  BY <1>1 DEF FromBuffer, Stepped
<1>3. PICK n \in 1..Smaller(MaxCall, Have(i)) :
        /\ Moves(i, start[i], pos[i] + n, len[i])
        /\ Answer(i, TRUE, SubSeq(content[buffer[i]], pos[i] + 1, pos[i] + n))
  BY DEF FromBuffer
<1>4. /\ n \in Nat /\ pos[i] \in Nat /\ n \in 1..MaxCall /\ n <= Have(i) /\ len[i] > 0 /\ pos[i] + n <= len[i] /\ pos[i] + n \in pos[i]..len[i]
      /\ Point(i) + n = start[i] + (pos[i] + n) /\ Point(i) + n <= length /\ pos[i] + n - pos[i] = n
  BY <1>2, <1>3, InputFacts DEF Smaller
<1>5. /\ start'[i] = start[i] /\ pos'[i] = pos[i] + n /\ len'[i] = len[i]
      /\ Point(i)' = Point(i) + n
  <2> DEFINE m == pos[i] + n
  <2>1. Moves(i, start[i], m, len[i])
    BY <1>3
  <2> HIDE DEF m
  <2>2. start'[i] = start[i] /\ pos'[i] = m /\ len'[i] = len[i] /\ Point(i)' = start[i] + m
    BY <2>1, InputFacts, MovesOwn DEF BytesInv
  <2> QED
    BY <1>4, <2>2 DEF m
<1>6. ~broken[i] => SubSeq(content[buffer[i]], pos[i] + 1, pos[i] + n) = FileBytes(Point(i), n)
  <2> DEFINE m == pos[i] + n
  <2>1. m \in pos[i]..len[i] /\ m - pos[i] = n
    BY <1>4
  <2> HIDE DEF m
  <2>2. ~broken[i] => SubSeq(content[buffer[i]], pos[i] + 1, m) = FileBytes(Point(i), m - pos[i])
    BY <1>2, <2>1, BufferHasFile
  <2> QED
    BY <2>1, <2>2 DEF m
<1>7. Plain!Next
  <2> DEFINE bytes == SubSeq(content[buffer[i]], pos[i] + 1, pos[i] + n)
  <2>1. Answer(i, TRUE, bytes) /\ (~broken[i] => bytes = FileBytes(Point(i), n))
    BY <1>3, <1>6
  <2> HIDE DEF bytes
  <2> QED
    BY <1>2, <1>4, <1>5, <2>1, ReadDone
<1>8. InputBytes(i)'
  <2>1. InputBytes(i) /\ content' = content /\ buffer' = buffer /\ length' = length
    BY DEF BytesInv, FromBuffer
  <2>2. Point(i)' <= MaxPoint
    BY <1>4, <1>5, InputFacts
  <2> QED
    BY <1>2, <1>5, <2>1, <2>2 DEF InputBytes
<1>9. phase'[i] # "none"
  BY <1>2
<1> QED
  BY <1>2, <1>7, <1>8, <1>9, InputFacts DEF Done
(* Reads past the end: p is where the input is left.                       *)
LEMMA PastEndDone ==
  ASSUME BytesInv, NEW i \in Inputs, phase[i] = "open", Stepped(i), phase' = phase, broken' = broken,
         Point(i) + MaxCall > length, Point(i)' = start[i] + len[i], Answer(i, FALSE, <<>>)
  PROVE  Plain!Next
<1> DEFINE p == start[i] + len[i]
<1>1. p \in Point(i)..MaxPoint /\ (p = Point(i) \/ p <= length)
  <2>1. CASE len[i] = 0
    <3>1. pos[i] \in Nat /\ pos[i] <= len[i] /\ start[i] \in Nat
      BY InputFacts
    <3>2. p = start[i] + pos[i]
      BY <2>1, <3>1
    <3>3. p = Point(i) /\ Point(i) \in Nat /\ Point(i) <= MaxPoint /\ MaxPoint \in Nat
      BY <3>2, InputFacts
    <3> QED
      BY <3>3
  <2>2. CASE len[i] > 0
    BY <2>2, InputFacts
  <2> QED
    BY <2>1, <2>2, InputFacts
<1>2. Place[i] = Point(i) /\ Place' = [Place EXCEPT ![i] = p]
  BY InputSees
<1>3. State[i] \in {"open", "broken"} /\ UNCHANGED <<length, State, Texts>> /\ Place[i] + MaxCall > length
  BY <1>2, InputSees
<1> HIDE DEF p
<1> QED
  BY <1>1, <1>2, <1>3, PlainReadsPastEnd

LEMMA ReadThroughBufferDone ==
  ASSUME BytesInv, NEW i \in Inputs, ReadThroughBuffer(i)
  PROVE  Done(i)
<1> DEFINE from == Point(i) + Have(i)  f == Filled(i)
<1>1. PICK n \in (Have(i) + 1)..Smaller(MaxCall, Have(i) + BufferSize - 1) :
        /\ Refill(i, from, f)
        /\ \/ f < n - Have(i) /\ Moves(i, from, 0, f) /\ Answer(i, FALSE, <<>>)
           \/ /\ ~(f < n - Have(i)) /\ Moves(i, from, n - Have(i), f)
              /\ Answer(i, TRUE, Served(i) \o SubSeq(content'[buffer'[i]], 1, n - Have(i)))
  BY DEF ReadThroughBuffer
<1>2. /\ phase[i] = "open" /\ phase' = phase /\ broken' = broken /\ dest' = dest /\ length' = length
      /\ f > 0
  BY DEF ReadThroughBuffer
<1>3. StepOf(i)
  BY InputRange DEF InputSteps, BytesInv
<1>4. /\ from \in Nat /\ from = start[i] + len[i] /\ Have(i) \in Nat
      /\ f = Smaller(BufferSize, length - from)
      /\ n \in 1..MaxCall /\ n \in Nat /\ n - Have(i) \in Nat /\ n - Have(i) > 0 /\ n - Have(i) < BufferSize
  <2>1. from \in Nat /\ from = start[i] + len[i] /\ Have(i) \in Nat /\ f = Smaller(BufferSize, length - from)
    BY InputFacts DEF Filled
  <2>2. MaxCall \in Nat /\ BufferSize \in Nat
    BY InputFacts
  <2>3. Smaller(MaxCall, Have(i) + BufferSize - 1) \in Int
    BY <2>1, <2>2 DEF Smaller
  <2>4. n \in Int /\ n >= Have(i) + 1 /\ n <= MaxCall /\ n <= Have(i) + BufferSize - 1
    BY <1>1, <2>1, <2>2, <2>3 DEF Smaller
  <2> QED
    BY <2>1, <2>2, <2>4
<1>5. f \in Nat /\ f <= BufferSize /\ from + f <= length /\ (f < n - Have(i) => f = length - from)
  BY <1>2, <1>4, InputFacts DEF Smaller
<1> DEFINE rest == n - Have(i)
<1>6. Writes(i) /\ \A k \in 1..f : content'[buffer'[i]][k] = from + k
  <2> HIDE DEF from, f
  <2> QED
    BY <1>1, <1>4, <1>5, RefillIs
<1>7. Stepped(i)
  BY <1>2, <1>3, <1>6 DEF Stepped
<1>8. start'[i] = from /\ len'[i] = f /\ (f < rest => Point(i)' = from) /\ (~(f < rest) => Point(i)' = from + rest)
  <2>1. \/ f < rest /\ Moves(i, from, 0, f)
        \/ ~(f < rest) /\ Moves(i, from, rest, f)
    BY <1>1
  <2>2. RangeInv /\ i \in Streams /\ from \in Nat /\ from + 0 = from
    BY <1>4 DEF Streams, BytesInv
  <2> HIDE DEF from, f, rest
  <2>3. CASE f < rest
    <3>1. Moves(i, from, 0, f)
      BY <2>1, <2>3
    <3>2. start'[i] = from /\ len'[i] = f /\ Point(i)' = from + 0
      BY <2>2, <3>1, MovesOwn
    <3> QED
      BY <2>2, <2>3, <3>2
  <2>4. CASE ~(f < rest)
    <3>1. Moves(i, from, rest, f)
      BY <2>1, <2>4
    <3>2. start'[i] = from /\ len'[i] = f /\ Point(i)' = from + rest
      BY <2>2, <3>1, MovesOwn
    <3> QED
      BY <2>4, <3>2
  <2> QED
    BY <2>3, <2>4
<1>9. InputBytes(i)'
  <2>1. Point(i)' <= MaxPoint
    BY <1>4, <1>5, <1>8, InputFacts
  <2>2. start'[i] + len'[i] <= length'
    BY <1>2, <1>5, <1>8
  <2>3. \A k \in 1..len'[i] : content'[buffer'[i]][k] = start'[i] + k
    BY <1>6, <1>8
  <2> QED
    BY <2>1, <2>2, <2>3 DEF InputBytes
<1>10. CASE f < rest
  <2>1. Point(i) + MaxCall > length
    BY <1>4, <1>5, <1>10, InputFacts
  <2>2. Point(i)' = start[i] + len[i] /\ Answer(i, FALSE, <<>>)
    BY <1>1, <1>4, <1>8, <1>10
  <2>3. Plain!Next
    BY <1>2, <1>7, <2>1, <2>2, PastEndDone
  <2> QED
    BY <1>2, <1>7, <1>9, <2>3, InputFacts DEF Done
<1>11. CASE ~(f < rest)
  <2> DEFINE bytes == Served(i) \o SubSeq(content'[buffer'[i]], 1, rest)
  <2>1. Answer(i, TRUE, bytes)
    BY <1>1, <1>11
  <2>2. ~broken[i] => bytes = FileBytes(Point(i), n)
    <3> SUFFICES ASSUME ~broken[i]
                 PROVE  bytes = FileBytes(Point(i), n)
      OBVIOUS
    <3>1. Served(i) = FileBytes(Point(i), Have(i))
      BY <1>2, ServedHasFile
    <3>2. SubSeq(content'[buffer'[i]], 1, rest) = FileBytes(from, rest)
      <4> DEFINE a == content'[buffer'[i]]
      <4>1. \A k \in 1..rest : a[k] = from + k
        BY <1>4, <1>5, <1>6, <1>11
      <4>2. rest \in Nat /\ from \in Nat
        BY <1>4
      <4> HIDE DEF a, from, rest
      <4>3. SubSeq(a, 1, rest) = FileBytes(from, rest)
        BY <4>1, <4>2, HeadIs
      <4> QED
        BY <4>3 DEF a
    <3>3. FileBytes(Point(i), Have(i)) \o FileBytes(from, rest) = FileBytes(Point(i), Have(i) + rest)
      <4>1. rest \in Nat /\ Have(i) \in Nat /\ Point(i) \in Nat
        BY <1>4, InputFacts
      <4> HIDE DEF rest
      <4> QED
        BY <4>1, FileBytesJoin
    <3>4. Have(i) + rest = n
      BY <1>4
    <3> QED
      BY <3>1, <3>2, <3>3, <3>4
  <2>3. Point(i) + n <= length /\ Point(i)' = Point(i) + n
    BY <1>4, <1>5, <1>8, <1>11, InputFacts
  <2>4. Plain!Next
    <3> HIDE DEF bytes, f, from, rest
    <3> QED
      BY <1>2, <1>4, <1>7, <2>1, <2>2, <2>3, ReadDone
  <2> QED
    BY <1>2, <1>7, <1>9, <2>4, InputFacts DEF Done
<1> QED
  BY <1>10, <1>11

LEMMA ReadDirectDone ==
  ASSUME BytesInv, NEW i \in Inputs, ReadDirect(i)
  PROVE  Done(i)
<1> DEFINE from == Point(i) + Have(i)
<1>1. PICK n \in (Have(i) + 1)..MaxCall :
        /\ Point(i) + n <= length /\ Moves(i, Point(i) + n, 0, 0)
        /\ Answer(i, TRUE, Served(i) \o FileBytes(from, n - Have(i)))
  BY DEF ReadDirect
<1>2. phase[i] = "open" /\ phase' = phase /\ broken' = broken /\ dest' = dest /\ content' = content
  BY DEF ReadDirect
<1>3. StepOf(i)
  BY InputRange DEF InputSteps, BytesInv
<1>4. Stepped(i)
  BY <1>2, <1>3 DEF Stepped
<1>5. /\ from \in Nat /\ Have(i) \in Nat /\ Point(i) \in Nat /\ n \in 1..MaxCall /\ n \in Nat
      /\ n - Have(i) \in Nat /\ Have(i) + (n - Have(i)) = n
  BY <1>1, InputFacts
<1>6. len'[i] = 0 /\ Point(i)' = Point(i) + n
  <2> DEFINE q == Point(i) + n
  <2>1. Moves(i, q, 0, 0) /\ q \in Nat
    BY <1>1, <1>5
  <2> HIDE DEF q
  <2>2. len'[i] = 0 /\ Point(i)' = q + 0
    BY <2>1, InputFacts, MovesOwn DEF BytesInv
  <2> QED
    BY <2>1, <2>2 DEF q
<1>7. ~broken[i] => Served(i) \o FileBytes(from, n - Have(i)) = FileBytes(Point(i), n)
  <2> DEFINE rest == n - Have(i)
  <2>1. rest \in Nat /\ Have(i) + rest = n
    BY <1>5
  <2> HIDE DEF rest
  <2>2. FileBytes(Point(i), Have(i)) \o FileBytes(from, rest) = FileBytes(Point(i), Have(i) + rest)
    <3>1. Point(i) \in Nat /\ Have(i) \in Nat /\ rest \in Nat
      BY <2>1, InputFacts
    <3> QED
      BY <3>1, FileBytesJoin
  <2>3. ~broken[i] => Served(i) = FileBytes(Point(i), Have(i))
    BY <1>2, ServedHasFile
  <2> QED
    BY <2>1, <2>2, <2>3 DEF rest
<1>8. Plain!Next
  <2> DEFINE bytes == Served(i) \o FileBytes(from, n - Have(i))
  <2>1. Answer(i, TRUE, bytes) /\ (~broken[i] => bytes = FileBytes(Point(i), n))
    BY <1>1, <1>7
  <2> HIDE DEF bytes
  <2> QED
    BY <1>1, <1>2, <1>4, <1>5, <1>6, <2>1, ReadDone
<1>9. InputBytes(i)'
  <2>1. Point(i)' <= MaxPoint
    BY <1>1, <1>5, <1>6, InputFacts
  <2> QED
    BY <1>6, <2>1 DEF InputBytes
<1> QED
  BY <1>2, <1>4, <1>8, <1>9, InputFacts DEF Done

(* A call that leaves the buffer as it is: served, or not touched.         *)
LEMMA BufferServed ==
  ASSUME BytesInv, NEW i \in Inputs, phase[i] = "open", Moves(i, start[i], len[i], len[i])
  PROVE  /\ Point(i)' = start[i] + len[i] /\ Point(i)' \in 0..MaxPoint
         /\ start'[i] = start[i] /\ len'[i] = len[i]
<1>1. start'[i] = start[i] /\ len'[i] = len[i] /\ Point(i)' = start[i] + len[i]
  BY InputFacts, MovesOwn DEF BytesInv
<1>2. CASE len[i] = 0
  BY <1>1, <1>2, InputFacts
<1>3. CASE len[i] > 0
  BY <1>1, <1>3, InputFacts
<1> QED
  BY <1>1, <1>2, <1>3, InputFacts
LEMMA PastEndStepDone ==
  ASSUME BytesInv, NEW i \in Inputs, PastEnd(i)
  PROVE  Done(i)
<1>1. /\ phase[i] = "open" /\ phase' = phase /\ broken' = broken /\ dest' = dest /\ content' = content
      /\ buffer' = buffer /\ length' = length
      /\ Moves(i, start[i], len[i], len[i]) /\ Answer(i, FALSE, <<>>)
  BY DEF PastEnd
<1>2. StepOf(i)
  BY InputRange DEF InputSteps, BytesInv
<1>3. Stepped(i)
  BY <1>1, <1>2 DEF Stepped
<1>4. Point(i) + MaxCall > length
  <2>1. PICK n \in (Have(i) + 1)..MaxCall : Point(i) + n > length
    BY DEF PastEnd
  <2> QED
    BY <2>1, InputFacts
<1>5. Plain!Next
  BY <1>1, <1>3, <1>4, BufferServed, PastEndDone
<1>6. InputBytes(i)'
  BY <1>1, BufferServed, InputFacts, BytesInv DEF BytesInv, InputBytes
<1> QED
  BY <1>1, <1>3, <1>5, <1>6, InputFacts DEF Done

(* A call of an input that throws.                                         *)
LEMMA BreakDone ==
  ASSUME BytesInv, NEW i \in Inputs, phase[i] = "open", Stepped(i), phase' = phase, Breaks(i),
         Answer(i, FALSE, <<>>), Point(i)' \in 0..MaxPoint
  PROVE  Plain!Next
<1>1. i \in Streams /\ i \notin Outputs
  BY InputFacts
<1>2. broken'[i]
  BY <1>1 DEF Breaks, BytesInv
<1>3. State' = [State EXCEPT ![i] = "broken"]
  <2>1. State'[i] = "broken"
    BY <1>1, <1>2, StateAfter
  <2> QED
    BY <1>1, <2>1, StateAfter
<1>4. /\ State[i] \in {"open", "broken"} /\ Texts' = Texts /\ length' = length
      /\ Place' = [Place EXCEPT ![i] = Point(i)']
  BY InputSees
<1> DEFINE p == Point(i)'
<1>5. p \in 0..MaxPoint /\ Place' = [Place EXCEPT ![i] = p]
  BY <1>4
<1> HIDE DEF p
<1> QED
  BY <1>1, <1>3, <1>4, <1>5, PlainBreaks

LEMMA ReadFailsDone ==
  ASSUME BytesInv, NEW i \in Inputs, ReadFails(i)
  PROVE  Done(i)
<1>1. /\ phase[i] = "open" /\ phase' = phase /\ Breaks(i) /\ dest' = dest /\ length' = length
      /\ Moves(i, start[i], len[i], len[i]) /\ Answer(i, FALSE, <<>>) /\ Filled(i) > 0
  BY DEF ReadFails
<1>2. StepOf(i)
  BY InputRange DEF InputSteps, BytesInv
<1>4. ASSUME NEW got \in 0..(Filled(i) - 1), Refill(i, Point(i) + Have(i), got)
      PROVE  Writes(i)
  <2> DEFINE from == Point(i) + Have(i)
  <2>1. from \in Nat
    BY InputFacts
  <2>2. Filled(i) \in Int /\ Filled(i) <= BufferSize
    BY InputFacts DEF Filled, Smaller
  <2>3. got \in Nat /\ got <= BufferSize /\ Refill(i, from, got)
    BY <1>4, <2>2, InputFacts
  <2> HIDE DEF from
  <2> QED
    BY <2>1, <2>3, RefillIs
<1>5. Stepped(i)
  BY <1>1, <1>2, <1>4 DEF Stepped, ReadFails
<1>6. broken'[i]
  BY <1>1, InputFacts DEF Breaks, BytesInv
<1>7. Point(i)' \in 0..MaxPoint /\ start'[i] = start[i] /\ len'[i] = len[i]
  BY <1>1, BufferServed
<1>8. Plain!Next
  BY <1>1, <1>5, <1>7, BreakDone
<1>9. InputBytes(i)'
  <2>1. Point(i)' <= MaxPoint
    BY <1>7, InputFacts
  <2>2. phase'[i] = "open" /\ len'[i] > 0 => start'[i] + len'[i] <= length'
    BY <1>1, <1>7, InputFacts
  <2> QED
    BY <1>6, <2>1, <2>2 DEF InputBytes
<1> QED
  BY <1>1, <1>5, <1>8, <1>9, InputFacts DEF Done

LEMMA CloseFailsDone ==
  ASSUME BytesInv, NEW i \in Inputs, CloseFails(i)
  PROVE  Done(i)
<1>1. /\ phase[i] = "open" /\ phase' = phase /\ Breaks(i) /\ dest' = dest /\ length' = length
      /\ content' = content /\ start' = start /\ len' = len /\ pos' = pos /\ Answer(i, FALSE, <<>>)
  BY DEF CloseFails, buffering
<1>2. StepOf(i)
  BY InputRange DEF InputSteps, BytesInv
<1>3. Stepped(i)
  BY <1>1, <1>2 DEF Stepped
<1>4. Point(i)' = Point(i) /\ Point(i) \in 0..MaxPoint
  BY <1>1, InputFacts DEF Point
<1>5. broken'[i]
  BY <1>1, InputFacts DEF Breaks, BytesInv
<1>6. Plain!Next
  BY <1>1, <1>3, <1>4, BreakDone
<1>7. InputBytes(i)'
  BY <1>1, <1>4, <1>5, InputFacts DEF InputBytes
<1> QED
  BY <1>1, <1>3, <1>6, <1>7, InputFacts DEF Done

LEMMA SeekInputDone ==
  ASSUME BytesInv, NEW i \in Inputs, SeekInput(i)
  PROVE  Done(i)
<1>1. /\ phase[i] = "open" /\ phase' = phase /\ broken' = broken /\ dest' = dest /\ length' = length
      /\ content' = content /\ buffer' = buffer /\ result' = result
  BY DEF SeekInput
<1>2. StepOf(i)
  BY InputRange DEF InputSteps, BytesInv
<1>3. Stepped(i)
  BY <1>1, <1>2 DEF Stepped
<1>4. PICK p \in 0..MaxPoint :
        IF InBuffer(i, p) THEN Moves(i, start[i], p - start[i], len[i]) ELSE Moves(i, p, 0, 0)
  BY DEF SeekInput
<1>5. p \in Nat
  BY <1>4, InputFacts
<1>6. /\ Point(i)' = p
      /\ len'[i] = 0 \/ (start'[i] = start[i] /\ len'[i] = len[i])
  <2>1. CASE InBuffer(i, p)
    <3> DEFINE q == p - start[i]
    <3>1. Moves(i, start[i], q, len[i]) /\ start[i] + q = p
      BY <1>4, <1>5, <2>1, InputFacts
    <3> HIDE DEF q
    <3> QED
      BY <3>1, InputFacts, MovesOwn DEF BytesInv
  <2>2. CASE ~InBuffer(i, p)
    <3>1. Moves(i, p, 0, 0) /\ p + 0 = p
      BY <1>4, <1>5, <2>2
    <3> QED
      BY <3>1, InputFacts, MovesOwn DEF BytesInv
  <2> QED
    BY <2>1, <2>2
<1>7. Plain!Next
  <2>1. /\ State[i] \in {"open", "broken"} /\ UNCHANGED <<length, State, Texts, result>>
        /\ Place' = [Place EXCEPT ![i] = p]
    BY <1>1, <1>3, <1>6, InputSees
  <2> QED
    BY <2>1, PlainSeeks
<1>8. InputBytes(i)'
  <2>1. Point(i)' <= MaxPoint
    BY <1>5, <1>6, InputFacts
  <2>2. CASE len'[i] = 0
    BY <2>1, <2>2 DEF InputBytes
  <2>3. CASE start'[i] = start[i] /\ len'[i] = len[i]
    BY <1>1, <2>1, <2>3, BytesInv DEF InputBytes, BytesInv
  <2> QED
    BY <1>6, <2>2, <2>3
<1> QED
  BY <1>1, <1>3, <1>7, <1>8, InputFacts DEF Done

LEMMA CloseInputDone ==
  ASSUME BytesInv, NEW i \in Inputs, CloseInput(i)
  PROVE  Done(i)
<1>1. /\ phase[i] \in {"open", "closed"} /\ broken' = broken /\ dest' = dest /\ length' = length
      /\ content' = content /\ start' = start /\ pos' = pos /\ len' = len /\ result' = result
      /\ phase' = [phase EXCEPT ![i] = "closed"]
  BY DEF CloseInput
<1>2. StepOf(i)
  BY InputRange DEF InputSteps, BytesInv
<1>3. Stepped(i) /\ Point(i)' = Point(i)
  BY <1>1, <1>2 DEF Stepped, Point
<1>4. i \in Streams /\ i \notin Outputs /\ phase'[i] = "closed"
  BY <1>1, InputFacts DEF BytesInv, RangeInv, TypeOK
<1>5. State' = [State EXCEPT ![i] = "closed"]
  <2>1. State'[i] = "closed"
    BY <1>3, <1>4, StateAfter
  <2> QED
    BY <1>3, <1>4, <2>1, StateAfter
<1>6. UNCHANGED <<length, Place, Texts, result>>
  BY <1>1, <1>3, InputSees
<1>7. phase[i] = "open" => Plain!Next
  <2> SUFFICES ASSUME phase[i] = "open"
               PROVE  Plain!Next
    OBVIOUS
  <2>1. State[i] \in {"open", "broken"}
    BY <1>3, InputSees
  <2> QED
    BY <1>4, <1>5, <1>6, <2>1, PlainCloses
<1>8. phase[i] = "closed" => UNCHANGED Plain!vars
  <2> SUFFICES ASSUME phase[i] = "closed"
               PROVE  UNCHANGED Plain!vars
    OBVIOUS
  <2>1. State[i] = "closed"
    BY <1>3, <1>4, StateAfter
  <2>2. State' = State
    BY <1>4, <1>5, <2>1 DEF State
  <2> QED
    BY <1>6, <2>2, PlainStutters
<1>9. InputBytes(i)'
  BY <1>3, <1>4, InputFacts DEF InputBytes
<1> QED
  BY <1>1, <1>3, <1>4, <1>7, <1>8, <1>9 DEF Done

LEMMA CloneDone ==
  ASSUME BytesInv, NEW i \in Inputs, NEW j \in Inputs, Clone(i, j)
  PROVE  Done(j)
<1>1. /\ phase[i] = "open" /\ phase[j] = "none" /\ broken' = broken /\ dest' = dest /\ length' = length
      /\ content' = content /\ result' = result
      /\ phase' = [phase EXCEPT ![j] = "open"] /\ Moves(j, Point(i), 0, 0)
  BY DEF Clone
<1>2. StepOf(j)
  BY CloneRange DEF BytesInv
<1>3. Stepped(j)
  BY <1>1, <1>2 DEF Stepped
<1>4. j \in Streams /\ i \in Streams /\ phase'[j] = "open" /\ ~broken[j] /\ i \notin Outputs
  BY <1>1, InputFacts DEF BytesInv, RangeInv, TypeOK
<1>5. Point(j)' = Point(i) /\ len'[j] = 0
  <2> DEFINE q == Point(i)
  <2>1. Moves(j, q, 0, 0) /\ q + 0 = q
    BY <1>1, InputFacts
  <2> HIDE DEF q
  <2>2. Point(j)' = q /\ len'[j] = 0
    BY <1>4, <2>1, MovesOwn DEF BytesInv
  <2> QED
    BY <2>2 DEF q
<1>6. State' = [State EXCEPT ![j] = "open"] /\ State[j] = "none"
  <2>1. State'[j] = "open" /\ State[j] = "none"
    BY <1>1, <1>3, <1>4, StateAfter
  <2> QED
    BY <1>3, <1>4, <2>1, StateAfter
<1>7. State[i] \in {"open", "broken"} /\ Place[i] = Point(i)
  BY <1>1, <1>4 DEF State, Place
<1>8. Texts' = Texts /\ Place' = [Place EXCEPT ![j] = Place[i]]
  BY <1>3, <1>5, <1>7, InputSees
<1>9. Plain!Next
  BY <1>1, <1>6, <1>7, <1>8, PlainClones
<1>10. InputBytes(j)'
  BY <1>5, InputFacts DEF InputBytes
<1> QED
  BY <1>3, <1>4, <1>9, <1>10, InputFacts DEF Done

LEMMA InputDone ==
  ASSUME BytesInv, NEW i \in Inputs, InputSteps(i)
  PROVE  Done(i)
BY OpenInputDone, FromBufferDone, ReadThroughBufferDone, ReadDirectDone, PastEndStepDone, ReadFailsDone,
   SeekInputDone, CloseInputDone, CloseFailsDone DEF InputSteps
-----------------------------------------------------------------------------
(* Writes.                                                                 *)
LEMMA ArrayCut ==
  ASSUME NEW c \in Arrays, NEW n \in 0..BufferSize
  PROVE  /\ SubSeq(c, 1, n) \in Seq(Nat) /\ Len(SubSeq(c, 1, n)) = n
         /\ \A k \in 1..n : SubSeq(c, 1, n)[k] = c[k]
<1>1. n \in Nat /\ n \in Int /\ 1 \in Int /\ \A k \in 1..n : k \in 1..BufferSize /\ 1 + k - 1 = k
  BY SizeAssumption
<1>2. \A k \in 1..n : c[k] \in Nat
  BY <1>1 DEF Arrays
<1>3. /\ SubSeq(c, 1, n) \in Seq(Nat) /\ Len(SubSeq(c, 1, n)) = IF 1 <= n THEN n - 1 + 1 ELSE 0
      /\ \A k \in 1..(n - 1 + 1) : SubSeq(c, 1, n)[k] = c[1 + k - 1]
  BY <1>1, <1>2, SubSeqProperties
<1>4. n - 1 + 1 = n /\ (1 <= n \/ n = 0)
  BY <1>1
<1> QED
  BY <1>1, <1>3, <1>4

LEMMA SeqCut ==
  ASSUME NEW t \in Seq(Nat), NEW m \in Nat, m > 0, NEW n \in Nat, n <= Len(t), m <= n + 1
  PROVE  /\ SubSeq(t, m, n) \in Seq(Nat) /\ Len(SubSeq(t, m, n)) = n - m + 1
         /\ \A k \in 1..(n - m + 1) : SubSeq(t, m, n)[k] = t[m + k - 1]
<1>1. Len(t) \in Nat /\ \A k \in m..n : k \in 1..Len(t)
  BY LenProperties
<1>2. \A k \in m..n : t[k] \in Nat
  BY <1>1, ElementOfSeq
<1>3. /\ SubSeq(t, m, n) \in Seq(Nat) /\ Len(SubSeq(t, m, n)) = IF m <= n THEN n - m + 1 ELSE 0
      /\ \A k \in 1..(n - m + 1) : SubSeq(t, m, n)[k] = t[m + k - 1]
  BY <1>2, SubSeqProperties
<1> QED
  BY <1>3

LEMMA ArrayIsBytes ==
  ASSUME NEW c \in Arrays
  PROVE  c \in Seq(Nat) /\ Len(c) = BufferSize
<1>1. BufferSize \in Nat
  BY SizeAssumption
<1> QED
  BY <1>1, ArrayIsSeq DEF Arrays

LEMMA JoinIs ==
  ASSUME NEW s \in Seq(Nat), NEW t \in Seq(Nat)
  PROVE  /\ s \o t \in Seq(Nat) /\ Len(s \o t) = Len(s) + Len(t) /\ Len(s) \in Nat /\ Len(t) \in Nat
         /\ \A k \in 1..(Len(s) + Len(t)) : (s \o t)[k] = IF k <= Len(s) THEN s[k] ELSE t[k - Len(s)]
BY ConcatProperties, LenProperties

LEMMA JoinThree ==
  ASSUME NEW s \in Seq(Nat), NEW t \in Seq(Nat), NEW u \in Seq(Nat)
  PROVE  (s \o t) \o u = s \o (t \o u)
BY ConcatAssociative

(* A write that fits: w is laid over the buffer c behind p, of which l     *)
(* bytes counted, and what has been sent is d.                             *)
LEMMA WriteInBuffer ==
  ASSUME NEW d \in Seq(Nat), NEW c \in Arrays, NEW l \in 0..BufferSize, NEW p \in 0..l,
         NEW w \in Seq(Nat), Greater(p + Len(w), l) <= BufferSize
  PROVE  d \o SubSeq(Laid(c, p, w), 1, Greater(p + Len(w), l))
           = Plain!Over(d \o SubSeq(c, 1, l), Len(d) + p, w)
<1>0. PICK m : m = Greater(p + Len(w), l)
  OBVIOUS
<1>1. /\ BufferSize \in Nat /\ l \in Nat /\ p \in Nat /\ m \in Nat /\ p <= l /\ l <= BufferSize /\ m <= BufferSize
      /\ Len(d) \in Nat /\ Len(w) \in Nat /\ m >= l /\ m >= p + Len(w) /\ (m = l \/ m = p + Len(w))
  BY <1>0, SizeAssumption, LenProperties DEF Greater
<1> DEFINE e == Laid(c, p, w)  s == SubSeq(e, 1, m)  t == SubSeq(c, 1, l)
           u == d \o t  x == d \o s  q == Len(d) + p  y == Plain!Over(u, q, w)
<1>2. e \in Arrays /\ \A k \in 1..BufferSize : e[k] = IF k > p /\ k <= p + Len(w) THEN w[k - p] ELSE c[k]
  BY <1>1, LaidIs
<1>3. s \in Seq(Nat) /\ Len(s) = m /\ \A k \in 1..m : s[k] = e[k]
  <2>1. m \in 0..BufferSize
    BY <1>1
  <2> HIDE DEF e
  <2> QED
    BY <1>2, <2>1, ArrayCut
<1>4. t \in Seq(Nat) /\ Len(t) = l /\ \A k \in 1..l : t[k] = c[k]
  BY ArrayCut
<1>5. /\ u \in Seq(Nat) /\ Len(u) = Len(d) + l
      /\ \A k \in 1..(Len(d) + l) : u[k] = IF k <= Len(d) THEN d[k] ELSE t[k - Len(d)]
  <2> HIDE DEF t
  <2> QED
    BY <1>4, JoinIs
<1>6. /\ x \in Seq(Nat) /\ Len(x) = Len(d) + m
      /\ \A k \in 1..(Len(d) + m) : x[k] = IF k <= Len(d) THEN d[k] ELSE s[k - Len(d)]
  <2> HIDE DEF s
  <2> QED
    BY <1>3, JoinIs
<1> HIDE DEF e, s, t, u, x
<1>7. /\ y \in Seq(Nat) /\ Len(y) = Greater(q + Len(w), Len(u))
      /\ \A k \in 1..Greater(q + Len(w), Len(u)) : y[k] = IF k > q /\ k <= q + Len(w) THEN w[k - q] ELSE u[k]
  <2>1. q \in 0..Len(u)
    BY <1>1, <1>5
  <2> HIDE DEF q
  <2> QED
    BY <1>5, <2>1, OverIs
<1>8. Greater(q + Len(w), Len(u)) = Len(d) + m
  BY <1>0, <1>1, <1>5 DEF Greater
<1>9. \A k \in 1..(Len(d) + m) : x[k] = y[k]
  <2> SUFFICES ASSUME NEW k \in 1..(Len(d) + m)
               PROVE  x[k] = y[k]
    OBVIOUS
  <2>1. y[k] = IF k > q /\ k <= q + Len(w) THEN w[k - q] ELSE u[k]
    BY <1>7, <1>8
  <2>2. x[k] = IF k <= Len(d) THEN d[k] ELSE s[k - Len(d)]
    BY <1>6
  <2>3. CASE k <= Len(d)
    <3>1. ~(k > q) /\ k \in 1..(Len(d) + l)
      BY <1>1, <2>3
    <3> QED
      BY <1>5, <2>1, <2>2, <2>3, <3>1
  <2>4. CASE k > Len(d)
    <3>1. PICK j \in 1..m : k = Len(d) + j
      <4>1. k - Len(d) \in 1..m /\ k = Len(d) + (k - Len(d))
        BY <1>1, <2>4
      <4> QED
        BY <4>1
    <3>2. j \in 1..BufferSize /\ k - Len(d) = j /\ k - q = j - p /\ (k > q <=> j > p) /\ (k <= q + Len(w) <=> j <= p + Len(w))
      BY <1>1, <3>1
    <3>3. x[k] = IF j > p /\ j <= p + Len(w) THEN w[j - p] ELSE c[j]
      <4>1. ~(k <= Len(d))
        BY <1>1, <2>4
      <4>2. x[k] = s[j]
        BY <2>2, <3>2, <4>1
      <4>3. s[j] = e[j]
        BY <1>3, <3>1
      <4>4. e[j] = IF j > p /\ j <= p + Len(w) THEN w[j - p] ELSE c[j]
        BY <1>2, <3>2
      <4> QED
        BY <4>2, <4>3, <4>4
    <3>4. CASE j > p /\ j <= p + Len(w)
      BY <2>1, <3>2, <3>3, <3>4
    <3>5. CASE ~(j > p /\ j <= p + Len(w))
      <4>1. j \in 1..l /\ k \in 1..(Len(d) + l) /\ ~(k <= Len(d))
        BY <1>1, <2>4, <3>1, <3>5
      <4>2. u[k] = c[j]
        BY <1>4, <1>5, <3>2, <4>1
      <4> QED
        BY <2>1, <3>2, <3>3, <3>5, <4>2
    <3> QED
      BY <3>4, <3>5
  <2> QED
    BY <1>1, <2>3, <2>4
<1> HIDE DEF y
<1>10. x = y
  BY <1>6, <1>7, <1>8, <1>9, SeqEqual
<1> QED
  BY <1>0, <1>10 DEF e, s, t, u, x, y

(* A write that does not fit: the buffer is filled and sent, the rest      *)
(* follows it.                                                             *)
LEMMA WriteOverBuffer ==
  ASSUME NEW d \in Seq(Nat), NEW c \in Arrays, NEW l \in 0..BufferSize, NEW p \in 0..l,
         NEW v \in Nat, NEW n \in Nat, n > BufferSize - p
  PROVE  LET room == BufferSize - p
             full == Laid(c, p, Written(v, room))
             rest == SubSeq(Written(v, n), room + 1, n)
         IN /\ full \in Arrays /\ rest \in Seq(Nat) /\ Len(rest) = n - room
            /\ d \o (full \o rest) = Plain!Over(d \o SubSeq(c, 1, l), Len(d) + p, Written(v, n))
<1> DEFINE room == BufferSize - p  w == Written(v, n)  f == Written(v, room)  m == room + 1
           full == Laid(c, p, f)  rest == SubSeq(w, m, n)
           t == SubSeq(c, 1, l)  u == d \o t  z == full \o rest  x == d \o z
           q == Len(d) + p  y == Plain!Over(u, q, w)
<1>1. /\ BufferSize \in Nat /\ l \in Nat /\ p \in Nat /\ p <= l /\ l <= BufferSize
      /\ Len(d) \in Nat /\ room \in Nat /\ n > room /\ n - room \in Nat /\ p + room = BufferSize
  BY SizeAssumption, LenProperties
<1>2. w \in Seq(Nat) /\ Len(w) = n /\ \A k \in 1..n : w[k] = v + k
  BY WrittenAre
<1>3. f \in Seq(Nat) /\ Len(f) = room /\ \A k \in 1..room : f[k] = v + k
  <2> HIDE DEF room
  <2> QED
    BY <1>1, WrittenAre
<1>4. full \in Arrays /\ \A k \in 1..BufferSize : full[k] = IF k > p /\ k <= p + Len(f) THEN f[k - p] ELSE c[k]
  <2> HIDE DEF f
  <2> QED
    BY <1>1, <1>3, LaidIs
<1>5. full \in Seq(Nat) /\ Len(full) = BufferSize
  <2> HIDE DEF full
  <2> QED
    BY <1>4, ArrayIsBytes
<1>6. rest \in Seq(Nat) /\ Len(rest) = n - room /\ \A k \in 1..(n - room) : rest[k] = w[room + k]
  <2>1. m \in Nat /\ m > 0 /\ n <= Len(w) /\ m <= n + 1 /\ n - m + 1 = n - room
    BY <1>1, <1>2
  <2>2. \A k \in Nat : m + k - 1 = room + k
    BY <1>1
  <2>3. /\ rest \in Seq(Nat) /\ Len(rest) = n - m + 1
        /\ \A k \in 1..(n - m + 1) : rest[k] = w[m + k - 1]
    <3> HIDE DEF m, w
    <3> QED
      BY <1>2, <2>1, SeqCut
  <2> HIDE DEF m
  <2>4. \A k \in 1..(n - room) : k \in Nat
    OBVIOUS
  <2> QED
    BY <2>1, <2>2, <2>3, <2>4
<1> HIDE DEF full, rest, w, f
<1>7. t \in Seq(Nat) /\ Len(t) = l /\ \A k \in 1..l : t[k] = c[k]
  BY ArrayCut
<1> HIDE DEF t
<1>8. /\ u \in Seq(Nat) /\ Len(u) = Len(d) + l
      /\ \A k \in 1..(Len(d) + l) : u[k] = IF k <= Len(d) THEN d[k] ELSE t[k - Len(d)]
  BY <1>7, JoinIs
<1>9. /\ z \in Seq(Nat) /\ Len(z) = BufferSize + (n - room)
      /\ \A k \in 1..(BufferSize + (n - room)) : z[k] = IF k <= BufferSize THEN full[k] ELSE rest[k - BufferSize]
  <2>1. /\ z \in Seq(Nat) /\ Len(z) = Len(full) + Len(rest)
        /\ \A k \in 1..(Len(full) + Len(rest)) : z[k] = IF k <= Len(full) THEN full[k] ELSE rest[k - Len(full)]
    BY <1>5, <1>6, JoinIs
  <2> QED
    BY <1>5, <1>6, <2>1
<1> HIDE DEF z
<1>10. /\ x \in Seq(Nat) /\ Len(x) = Len(d) + Len(z)
       /\ \A k \in 1..(Len(d) + Len(z)) : x[k] = IF k <= Len(d) THEN d[k] ELSE z[k - Len(d)]
  BY <1>9, JoinIs
<1> HIDE DEF u, x
<1>11. /\ y \in Seq(Nat) /\ Len(y) = Greater(q + Len(w), Len(u))
       /\ \A k \in 1..Greater(q + Len(w), Len(u)) : y[k] = IF k > q /\ k <= q + Len(w) THEN w[k - q] ELSE u[k]
  <2>1. q \in 0..Len(u)
    BY <1>1, <1>8
  <2> HIDE DEF q
  <2> QED
    BY <1>2, <1>8, <2>1, OverIs
<1>12. Greater(q + Len(w), Len(u)) = Len(x) /\ q + Len(w) = Len(x) /\ Len(x) = Len(d) + p + n
  BY <1>1, <1>2, <1>8, <1>9, <1>10 DEF Greater
<1>13. \A k \in 1..Len(x) : x[k] = y[k]
  <2> SUFFICES ASSUME NEW k \in 1..Len(x)
               PROVE  x[k] = y[k]
    OBVIOUS
  <2>1. y[k] = IF k > q THEN w[k - q] ELSE u[k]
    BY <1>11, <1>12
  <2>2. x[k] = IF k <= Len(d) THEN d[k] ELSE z[k - Len(d)]
    BY <1>10
  <2>3. CASE k <= Len(d)
    <3>1. ~(k > q) /\ k \in 1..(Len(d) + l)
      BY <1>1, <2>3
    <3> QED
      BY <1>8, <2>1, <2>2, <2>3, <3>1
  <2>4. CASE k > Len(d)
    <3>1. PICK j \in 1..(p + n) : k = Len(d) + j
      <4>1. k - Len(d) \in 1..(p + n) /\ k = Len(d) + (k - Len(d))
        BY <1>1, <1>12, <2>4
      <4> QED
        BY <4>1
    <3>2. /\ k - Len(d) = j /\ k - q = j - p /\ (k > q <=> j > p) /\ ~(k <= Len(d))
          /\ j \in 1..(BufferSize + (n - room))
      BY <1>1, <2>4, <3>1
    <3>3. x[k] = z[j]
      BY <2>2, <3>2
    <3>4. z[j] = IF j <= BufferSize THEN full[j] ELSE rest[j - BufferSize]
      BY <1>9, <3>2
    <3>5. CASE j <= p
      <4>1. ~(j > p) /\ j <= BufferSize /\ j \in 1..BufferSize /\ j \in 1..l /\ k \in 1..(Len(d) + l)
        BY <1>1, <3>1, <3>5
      <4>2. full[j] = c[j]
        BY <1>4, <4>1
      <4>3. u[k] = t[j]
        BY <1>8, <3>2, <4>1
      <4> QED
        BY <1>7, <2>1, <3>2, <3>3, <3>4, <4>1, <4>2, <4>3
    <3>6. CASE j > p /\ j <= BufferSize
      <4>1. j \in 1..BufferSize /\ j <= p + Len(f) /\ j - p \in 1..room /\ j - p \in 1..n
        BY <1>1, <1>3, <3>1, <3>6
      <4>2. full[j] = f[j - p]
        BY <1>4, <3>6, <4>1
      <4>3. f[j - p] = v + (j - p) /\ w[j - p] = v + (j - p)
        BY <1>2, <1>3, <4>1
      <4> QED
        BY <2>1, <3>2, <3>3, <3>4, <3>6, <4>2, <4>3
    <3>7. CASE j > BufferSize
      <4>1. /\ j - BufferSize \in 1..(n - room) /\ room + (j - BufferSize) = j - p /\ j > p
            /\ ~(j <= BufferSize)
        BY <1>1, <3>1, <3>7
      <4>2. rest[j - BufferSize] = w[room + (j - BufferSize)]
        BY <1>6, <4>1
      <4> QED
        BY <2>1, <3>2, <3>3, <3>4, <4>1, <4>2
    <3> QED
      BY <1>1, <3>1, <3>5, <3>6, <3>7
  <2> QED
    BY <1>1, <2>3, <2>4
<1> HIDE DEF y
<1>14. x = y
  BY <1>10, <1>11, <1>12, <1>13, SeqEqual
<1> QED
  BY <1>4, <1>6, <1>14 DEF full, rest, w, f, t, u, z, x, y
LEMMA OutputFacts ==
  ASSUME BytesInv, NEW o \in Outputs
  PROVE  /\ o \in Streams /\ o \notin Inputs
         /\ start[o] \in Nat /\ pos[o] \in Nat /\ len[o] \in Nat
         /\ pos[o] <= len[o] /\ len[o] <= BufferSize /\ BufferSize \in Nat /\ BufferSize > 1
         /\ Point(o) = start[o] + pos[o] /\ MaxPoint \in Nat /\ MaxCall \in Nat
         /\ phase[o] = "open" => buffer[o] \in Buffers /\ content[buffer[o]] \in Arrays
         /\ dest[o] \in Seq(Nat)
         /\ ~broken[o] => Len(dest[o]) = start[o]
         /\ phase[o] # "open" => len[o] = 0
         /\ phase[o] = "none" => ~broken[o]
<1>1. o \in Streams /\ o \notin Inputs /\ MaxPoint \in Nat /\ MaxCall \in Nat
  BY StreamAssumption, BoundAssumption DEF Streams
<1>2. /\ start[o] \in Nat /\ pos[o] \in Nat /\ len[o] \in Nat
      /\ pos[o] <= len[o] /\ len[o] <= BufferSize /\ BufferSize \in Nat /\ BufferSize > 1
      /\ phase[o] = "open" => buffer[o] \in Buffers
  BY <1>1, Unmoved DEF BytesInv
<1>3. OutputBytes(o) /\ dest[o] \in Seq(Nat) /\ (phase[o] = "none" => ~broken[o])
  BY <1>1 DEF BytesInv
<1>4. phase[o] = "open" => content[buffer[o]] \in Arrays
  BY <1>2 DEF BytesInv
<1> QED
  BY <1>1, <1>2, <1>3, <1>4 DEF OutputBytes, Point

LEMMA OutputSees ==
  ASSUME BytesInv, NEW o \in Outputs, Stepped(o)
  PROVE  /\ Texts' = [Texts EXCEPT ![o] = Text(o)'] /\ Texts[o] = Text(o) /\ length' = length
         /\ Text(o)' = Text(o) => Texts' = Texts
         /\ ~broken[o] => Place[o] = Point(o)
         /\ ~broken'[o] => Place' = [Place EXCEPT ![o] = Point(o)']
         /\ broken'[o] => Place' = [Place EXCEPT ![o] = 0] /\ Text(o)' = <<>>
         /\ broken[o] => Place[o] = 0 /\ Text(o) = <<>>
         /\ State' = [State EXCEPT ![o] = IF phase'[o] = "open" /\ broken'[o] THEN "broken" ELSE phase'[o]]
         /\ State[o] = IF phase[o] = "open" /\ broken[o] THEN "broken" ELSE phase[o]
         /\ phase' = phase /\ broken' = broken => State' = State
<1>1. o \in Streams
  BY OutputFacts
<1>2. length' = length
  BY <1>1, StepFrame DEF Stepped, BytesInv
<1>3. phase' = phase /\ broken' = broken => State' = State
  BY DEF State
<1>4. Place' = [Place EXCEPT ![o] = Place'[o]] /\ Place'[o] = IF broken'[o] THEN 0 ELSE Point(o)'
  BY <1>1, PlaceAfter
<1>5. (~broken[o] => Place[o] = Point(o)) /\ (broken[o] => Place[o] = 0)
  BY <1>1, PlaceAfter
<1>6. /\ ~broken'[o] => Place' = [Place EXCEPT ![o] = Point(o)']
      /\ broken'[o] => Place' = [Place EXCEPT ![o] = 0]
  BY <1>4
<1>7. (broken'[o] => Text(o)' = <<>>) /\ (broken[o] => Text(o) = <<>>)
  BY DEF Text
<1>8. /\ State' = [State EXCEPT ![o] = IF phase'[o] = "open" /\ broken'[o] THEN "broken" ELSE phase'[o]]
      /\ State[o] = IF phase[o] = "open" /\ broken[o] THEN "broken" ELSE phase[o]
  BY <1>1, StateAfter
<1>9. Texts' = [Texts EXCEPT ![o] = Text(o)'] /\ Texts[o] = Text(o) /\ (Text(o)' = Text(o) => Texts' = Texts)
  BY <1>1, TextAfter
<1> QED
  BY <1>2, <1>3, <1>5, <1>6, <1>7, <1>8, <1>9

(* Any call of an output that has thrown before.                           *)
LEMMA BrokenOutputDone ==
  ASSUME BytesInv, NEW o \in Outputs, phase[o] = "open", broken[o], Stepped(o), broken'[o],
         phase'[o] \in {"open", "closed"}
  PROVE  Plain!Next
<1>1. o \in Streams /\ Place[o] = 0 /\ Texts' = Texts /\ length' = length /\ State[o] = "broken"
  BY OutputFacts, OutputSees
<1>2. Place' = Place
  BY <1>1, OutputSees DEF Place
<1>3. PICK x \in {"broken", "closed"} : State' = [State EXCEPT ![o] = x]
  BY OutputSees
<1> QED
  BY <1>1, <1>2, <1>3, PlainBroken

(* A call that throws.                                                     *)
LEMMA OutputBreakDone ==
  ASSUME BytesInv, NEW o \in Outputs, phase[o] = "open", Stepped(o), phase' = phase, Breaks(o),
         Answer(o, FALSE, <<>>)
  PROVE  Plain!Next /\ OutputBytes(o)' /\ phase'[o] # "none"
<1>1. o \in Streams /\ broken'[o] /\ 0 \in 0..MaxPoint
  BY OutputFacts DEF Breaks, BytesInv
<1>2. /\ State[o] \in {"open", "broken"} /\ State' = [State EXCEPT ![o] = "broken"]
      /\ Place' = [Place EXCEPT ![o] = 0] /\ Texts' = [Texts EXCEPT ![o] = <<>>] /\ length' = length
  BY <1>1, OutputSees
<1>3. Plain!Next
  BY <1>1, <1>2, PlainBreaks
<1> QED
  BY <1>1, <1>3 DEF OutputBytes

LEMMA WriteDone ==
  ASSUME BytesInv, NEW o \in Outputs, phase[o] = "open", ~broken[o], Stepped(o), phase' = phase, broken' = broken,
         NEW v \in Values, NEW n \in 1..MaxCall, Answer(o, TRUE, Written(v, n)),
         Point(o)' = Point(o) + n, Text(o)' = Plain!Over(Text(o), Point(o), Written(v, n))
  PROVE  Plain!Next
<1>1. /\ State[o] = "open" /\ State' = State /\ length' = length /\ Texts[o] = Text(o) /\ Place[o] = Point(o)
      /\ Texts' = [Texts EXCEPT ![o] = Text(o)'] /\ Place' = [Place EXCEPT ![o] = Point(o)']
  BY OutputSees
<1>2. /\ Texts' = [Texts EXCEPT ![o] = Plain!Over(Texts[o], Place[o], Written(v, n))]
      /\ Place' = [Place EXCEPT ![o] = Place[o] + n]
  BY <1>1
<1> QED
  BY <1>1, <1>2, PlainWrites

LEMMA BufferedCut ==
  ASSUME NEW o \in Outputs, len[o] \in Nat
  PROVE  Buffered(o) = SubSeq(content[buffer[o]], 1, len[o])
<1>1. CASE len[o] = 0
  <2>1. 1 \in Int /\ len[o] \in Int /\ len[o] < 1
    BY <1>1
  <2>2. SubSeq(content[buffer[o]], 1, len[o]) = <<>>
    BY <2>1, SubSeqEmpty
  <2> QED
    BY <1>1, <2>2 DEF Buffered
<1>2. CASE len[o] # 0
  BY <1>2 DEF Buffered
<1> QED
  BY <1>1, <1>2

LEMMA FillIs ==
  ASSUME BytesInv, NEW o \in Outputs, phase[o] = "open", NEW c \in Arrays, Fill(o, buffer[o], c)
  PROVE  Writes(o) /\ content'[buffer'[o]] = c /\ buffer' = buffer
<1>1. o \in Streams /\ buffer[o] \in Buffers
  BY OutputFacts
<1>2. buffer' = buffer
  BY <1>1 DEF Fill, BytesInv, HandInv
<1>3. content' = [content EXCEPT ![buffer[o]] = c]
  BY DEF Fill
<1> QED
  BY <1>1, <1>2, <1>3 DEF Writes, BytesInv
LEMMA OpenOutputDone ==
  ASSUME BytesInv, NEW o \in Outputs, OpenOutput(o)
  PROVE  Done(o)
<1>1. PICK b \in Buffers, c \in {content[k] : k \in Buffers} \cup {Zeros} : Taken(b, c) /\ Fill(o, b, c)
  BY DEF OpenOutput
<1>2. c \in Arrays
  <2>1. Zeros \in Arrays
    BY DEF Zeros, Arrays
  <2> QED
    BY <1>1, <2>1 DEF BytesInv
<1>3. b \notin Held
  <2>1. b \in pool => b \notin Held
    BY DEF BytesInv, HandInv, Exclusive
  <2> QED
    BY <1>1, <2>1, TakenIsTaken
<1>4. Writes(o)
  BY <1>1, <1>2, <1>3 DEF Writes, Fill
<1>5. /\ phase[o] = "none" /\ broken' = broken /\ dest' = dest /\ start' = start /\ len' = len /\ pos' = pos
      /\ result' = result /\ phase' = [phase EXCEPT ![o] = "open"]
  BY DEF OpenOutput
<1>6. StepOf(o)
  BY OutputRange DEF OutputSteps, BytesInv
<1>7. Stepped(o)
  BY <1>4, <1>5, <1>6 DEF Stepped
<1>8. o \in Streams /\ len[o] = 0 /\ ~broken[o] /\ phase'[o] = "open"
  BY <1>5, OutputFacts DEF BytesInv, RangeInv, TypeOK
<1>9. Point(o)' = Point(o) /\ Text(o)' = Text(o)
  BY <1>5, <1>8 DEF Point, Text, Buffered
<1>10. /\ State[o] = "none" /\ State' = [State EXCEPT ![o] = "open"]
       /\ Texts' = Texts /\ length' = length
  BY <1>5, <1>7, <1>8, <1>9, OutputSees
<1>11. Place' = Place
  BY <1>5, <1>7, <1>8, <1>9, OutputSees DEF Place
<1>12. Plain!Next
  BY <1>5, <1>8, <1>10, <1>11, PlainOpens
<1>13. OutputBytes(o)'
  BY <1>5, <1>8, OutputFacts DEF OutputBytes
<1> QED
  BY <1>7, <1>8, <1>12, <1>13, OutputFacts DEF Done

LEMMA WriteFitsDone ==
  ASSUME BytesInv, NEW o \in Outputs, WriteFits(o)
  PROVE  Done(o)
<1>1. PICK v \in Values, n \in 1..Smaller(MaxCall, BufferSize - pos[o]) :
        /\ Fill(o, buffer[o], Laid(content[buffer[o]], pos[o], Written(v, n)))
        /\ Moves(o, start[o], pos[o] + n, Greater(pos[o] + n, len[o]))
        /\ Answer(o, TRUE, Written(v, n))
  BY DEF WriteFits, Advances
<1>2. phase[o] = "open" /\ phase' = phase /\ broken' = broken /\ dest' = dest
  BY DEF WriteFits
<1> DEFINE c == content[buffer[o]]  p == pos[o]  l == len[o]  w == Written(v, n)
           e == Laid(c, p, w)  m == Greater(p + n, l)
<1>3. /\ n \in Nat /\ n \in 1..MaxCall /\ n <= BufferSize - pos[o] /\ v \in Nat
      /\ c \in Arrays /\ p \in 0..l /\ l \in 0..BufferSize /\ m \in 0..BufferSize /\ p \in Nat
  BY <1>1, <1>2, OutputFacts, BoundAssumption DEF Smaller, Greater
<1>4. w \in Seq(Nat) /\ Len(w) = n
  BY <1>3, WrittenAre
<1>5. e \in Arrays
  <2> HIDE DEF c, p, w
  <2> QED
    BY <1>3, <1>4, LaidIs
<1>6. Writes(o) /\ content'[buffer'[o]] = e
  <2>1. Fill(o, buffer[o], e)
    BY <1>1
  <2> HIDE DEF e
  <2> QED
    BY <1>2, <1>5, <2>1, FillIs
<1>7. StepOf(o)
  BY OutputRange DEF OutputSteps, BytesInv
<1>8. Stepped(o)
  BY <1>2, <1>6, <1>7 DEF Stepped
<1>9. start'[o] = start[o] /\ len'[o] = m /\ Point(o)' = Point(o) + n
  <2> DEFINE r == p + n
  <2>1. Moves(o, start[o], r, m) /\ start[o] + r = Point(o) + n
    BY <1>1, <1>3, OutputFacts
  <2> HIDE DEF m, r
  <2>2. start'[o] = start[o] /\ len'[o] = m /\ Point(o)' = start[o] + r
    BY <2>1, OutputFacts, MovesOwn DEF BytesInv
  <2> QED
    BY <2>1, <2>2
<1>10. OutputBytes(o)'
  BY <1>2, <1>9, OutputFacts DEF OutputBytes
<1>11. ~broken[o] => Text(o)' = Plain!Over(Text(o), Point(o), w)
  <2> SUFFICES ASSUME ~broken[o]
               PROVE  Text(o)' = Plain!Over(Text(o), Point(o), w)
    OBVIOUS
  <2> DEFINE d == dest[o]
  <2>1. d \in Seq(Nat) /\ Len(d) = start[o] /\ Point(o) = Len(d) + p
    BY OutputFacts
  <2>2. Text(o) = d \o SubSeq(c, 1, l)
    BY OutputFacts, BufferedCut DEF Text
  <2>3. Buffered(o)' = SubSeq(e, 1, m)
    <3>1. Buffered(o)' = IF m = 0 THEN <<>> ELSE SubSeq(e, 1, m)
      BY <1>6, <1>9 DEF Buffered
    <3>2. m # 0
      BY <1>3, OutputFacts DEF Greater
    <3> QED
      BY <3>1, <3>2
  <2>4. Text(o)' = d \o SubSeq(e, 1, m)
    BY <1>2, <2>3 DEF Text
  <2>5. m = Greater(p + Len(w), l)
    BY <1>4
  <2>6. d \o SubSeq(Laid(c, p, w), 1, Greater(p + Len(w), l)) = Plain!Over(d \o SubSeq(c, 1, l), Len(d) + p, w)
    <3>1. /\ d \in Seq(Nat) /\ c \in Arrays /\ l \in 0..BufferSize /\ p \in 0..l /\ w \in Seq(Nat)
          /\ Greater(p + Len(w), l) <= BufferSize
      BY <1>3, <1>4, <2>1, <2>5
    <3> HIDE DEF d, c, p, l, w
    <3> QED
      BY <3>1, WriteInBuffer
  <2> QED
    BY <2>1, <2>2, <2>4, <2>5, <2>6
<1>12. CASE broken[o]
  <2>1. Plain!Next
    BY <1>2, <1>8, <1>12, BrokenOutputDone
  <2> QED
    BY <1>2, <1>8, <1>10, <2>1, OutputFacts DEF Done
<1>13. CASE ~broken[o]
  <2>1. Plain!Next
    BY <1>1, <1>2, <1>3, <1>8, <1>9, <1>11, <1>13, WriteDone
  <2> QED
    BY <1>2, <1>8, <1>10, <2>1, OutputFacts DEF Done
<1> QED
  BY <1>12, <1>13

LEMMA WriteOverDone ==
  ASSUME BytesInv, NEW o \in Outputs, WriteOver(o)
  PROVE  Done(o)
<1>1. PICK v \in Values, n \in (BufferSize - pos[o] + 1)..MaxCall :
        LET room == BufferSize - pos[o]
            full == Laid(content[buffer[o]], pos[o], Written(v, room))
            rest == SubSeq(Written(v, n), room + 1, n)
            next == start[o] + BufferSize
        IN /\ IF n - room < BufferSize
              THEN /\ Fill(o, buffer[o], Laid(full, 0, rest))
                   /\ Destined(o, full)
                   /\ Moves(o, next, n - room, n - room)
              ELSE /\ Fill(o, buffer[o], full)
                   /\ Destined(o, full \o rest)
                   /\ Moves(o, next + n - room, 0, 0)
           /\ Answer(o, TRUE, Written(v, n))
  BY DEF WriteOver
<1>2. phase[o] = "open" /\ phase' = phase /\ broken' = broken
  BY DEF WriteOver
<1> DEFINE c == content[buffer[o]]  p == pos[o]  l == len[o]  w == Written(v, n)  room == BufferSize - p
           full == Laid(c, p, Written(v, room))  rest == SubSeq(w, room + 1, n)  d == dest[o]
           k == n - room  e == Laid(full, 0, rest)
<1>3. /\ n \in Nat /\ n \in 1..MaxCall /\ n > BufferSize - p /\ v \in Nat
      /\ c \in Arrays /\ p \in 0..l /\ l \in 0..BufferSize /\ p \in Nat /\ d \in Seq(Nat)
      /\ k \in Nat /\ k > 0 /\ start[o] \in Nat /\ BufferSize \in Nat
      /\ Point(o) + n = start[o] + BufferSize + k
  <2>1. /\ BufferSize \in Nat /\ p \in Nat /\ l \in Nat /\ p <= l /\ l <= BufferSize /\ MaxCall \in Nat
        /\ start[o] \in Nat /\ Point(o) = start[o] + p
    BY OutputFacts
  <2>2. c \in Arrays /\ d \in Seq(Nat)
    BY <1>2, OutputFacts
  <2>3. v \in Nat
    BY BoundAssumption
  <2>4. n \in Nat /\ n \in 1..MaxCall /\ n > BufferSize - p
    <3>1. BufferSize - p + 1 \in Int /\ BufferSize - p + 1 >= 1
      BY <2>1
    <3> QED
      BY <2>1, <3>1
  <2>5. k \in Nat /\ k > 0 /\ Point(o) + n = start[o] + BufferSize + k
    BY <2>1, <2>4
  <2> QED
    BY <2>1, <2>2, <2>3, <2>4, <2>5
<1>4. /\ full \in Arrays /\ rest \in Seq(Nat) /\ Len(rest) = k
      /\ d \o (full \o rest) = Plain!Over(d \o SubSeq(c, 1, l), Len(d) + p, w)
  <2>1. /\ d \in Seq(Nat) /\ c \in Arrays /\ l \in 0..BufferSize /\ p \in 0..l /\ v \in Nat
        /\ n \in Nat /\ n > BufferSize - p
    BY <1>3
  <2> HIDE DEF c, p, l, d
  <2>2. /\ full \in Arrays /\ rest \in Seq(Nat) /\ Len(rest) = n - room
        /\ d \o (full \o rest) = Plain!Over(d \o SubSeq(c, 1, l), Len(d) + p, w)
    BY <2>1, WriteOverBuffer, Zenon
  <2> QED
    BY <2>2
<1>5. full \in Seq(Nat) /\ Len(full) = BufferSize
  <2> HIDE DEF full
  <2> QED
    BY <1>4, ArrayIsBytes
<1>6. StepOf(o)
  BY OutputRange DEF OutputSteps, BytesInv
<1> HIDE DEF full, rest
<1>7. full \o rest \in Seq(Nat) /\ Len(full \o rest) = BufferSize + k
  <2>1. full \o rest \in Seq(Nat) /\ Len(full \o rest) = Len(full) + Len(rest)
    BY <1>4, <1>5, JoinIs
  <2> QED
    BY <1>4, <1>5, <2>1
(* Either way it has written the same text.                                *)
<1>8. /\ Stepped(o) /\ OutputBytes(o)' /\ Point(o)' = Point(o) + n
      /\ ~broken[o] => Text(o)' = d \o (full \o rest)
  <2>1. CASE k < BufferSize
    <3>1. /\ Fill(o, buffer[o], e) /\ dest' = [dest EXCEPT ![o] = d \o full]
          /\ Moves(o, start[o] + BufferSize, k, k)
      BY <1>1, <2>1 DEF Destined, full, rest
    <3>2. e \in Arrays /\ \A j \in 1..BufferSize : e[j] = IF j > 0 /\ j <= 0 + Len(rest) THEN rest[j - 0] ELSE full[j]
      BY <1>4, LaidIs
    <3>3. Writes(o) /\ content'[buffer'[o]] = e
      <4> HIDE DEF e
      <4> QED
        BY <1>2, <3>1, <3>2, FillIs
    <3>4. d \o full \in Seq(Nat) /\ Len(d \o full) = Len(d) + BufferSize
      <4>1. d \o full \in Seq(Nat) /\ Len(d \o full) = Len(d) + Len(full)
        <5> HIDE DEF d
        <5> QED
          BY <1>3, <1>5, JoinIs
      <4> QED
        BY <1>5, <4>1
    <3>5. Stepped(o)
      BY <1>2, <1>6, <3>1, <3>3, <3>4 DEF Stepped
    <3>6. start'[o] = start[o] + BufferSize /\ len'[o] = k /\ Point(o)' = Point(o) + n
      <4> DEFINE q == start[o] + BufferSize
      <4>1. Moves(o, q, k, k)
        BY <3>1
      <4> HIDE DEF q, k
      <4>2. start'[o] = q /\ len'[o] = k /\ Point(o)' = q + k
        BY <4>1, OutputFacts, MovesOwn DEF BytesInv
      <4> QED
        BY <1>3, <4>2 DEF q
    <3>7. dest'[o] = d \o full
      BY <3>1 DEF BytesInv
    <3>8. OutputBytes(o)'
      BY <1>2, <3>4, <3>6, <3>7, OutputFacts DEF OutputBytes
    <3>9. SubSeq(e, 1, k) = rest
      <4>1. k \in 0..BufferSize
        BY <1>3, <2>1
      <4> HIDE DEF e, k
      <4>2. SubSeq(e, 1, k) \in Seq(Nat) /\ Len(SubSeq(e, 1, k)) = k /\ \A j \in 1..k : SubSeq(e, 1, k)[j] = e[j]
        BY <3>2, <4>1, ArrayCut
      <4>3. \A j \in 1..k : e[j] = rest[j]
        <5> SUFFICES ASSUME NEW j \in 1..k
                     PROVE  e[j] = rest[j]
          OBVIOUS
        <5>1. j \in 1..BufferSize /\ j > 0 /\ j <= 0 + Len(rest) /\ j - 0 = j
          BY <1>3, <1>4, <4>1
        <5> QED
          BY <3>2, <5>1
      <4>4. Len(SubSeq(e, 1, k)) = Len(rest) /\ \A j \in 1..Len(SubSeq(e, 1, k)) : SubSeq(e, 1, k)[j] = rest[j]
        BY <1>4, <4>2, <4>3
      <4> QED
        BY <1>4, <4>2, <4>4, SeqEqual
    <3>10. ~broken[o] => Text(o)' = d \o (full \o rest)
      <4>1. Buffered(o)' = SubSeq(e, 1, k)
        BY <1>3, <3>3, <3>6 DEF Buffered
      <4>2. (d \o full) \o rest = d \o (full \o rest)
        <5>1. d \in Seq(Nat) /\ full \in Seq(Nat) /\ rest \in Seq(Nat)
          BY <1>3, <1>4, <1>5
        <5> HIDE DEF d
        <5> QED
          BY <5>1, JoinThree
      <4>3. ~broken'[o] => Text(o)' = dest'[o] \o Buffered(o)'
        BY DEF Text
      <4> QED
        BY <1>2, <3>7, <3>9, <4>1, <4>2, <4>3
    <3> QED
      BY <3>5, <3>6, <3>8, <3>10
  <2>2. CASE ~(k < BufferSize)
    <3>1. /\ Fill(o, buffer[o], full) /\ dest' = [dest EXCEPT ![o] = d \o (full \o rest)]
          /\ Moves(o, start[o] + BufferSize + n - room, 0, 0)
      BY <1>1, <2>2 DEF Destined, full, rest
    <3>2. Writes(o)
      BY <1>2, <1>4, <3>1, FillIs
    <3>3. d \o (full \o rest) \in Seq(Nat) /\ Len(d \o (full \o rest)) = Len(d) + (BufferSize + k)
      <4> DEFINE z == full \o rest
      <4>1. z \in Seq(Nat) /\ Len(z) = BufferSize + k
        BY <1>7
      <4> HIDE DEF d, z
      <4>2. d \o z \in Seq(Nat) /\ Len(d \o z) = Len(d) + Len(z)
        BY <1>3, <4>1, JoinIs
      <4> QED
        BY <4>1, <4>2 DEF z
    <3>4. Stepped(o)
      BY <1>2, <1>6, <3>1, <3>2, <3>3 DEF Stepped
    <3>5. start'[o] = Point(o) + n /\ len'[o] = 0 /\ Point(o)' = Point(o) + n
      <4> DEFINE q == start[o] + BufferSize + n - room
      <4>1. Moves(o, q, 0, 0) /\ q = Point(o) + n /\ q + 0 = q
        BY <1>3, <3>1, OutputFacts
      <4> HIDE DEF q
      <4>2. start'[o] = q /\ len'[o] = 0 /\ Point(o)' = q + 0
        BY <4>1, OutputFacts, MovesOwn DEF BytesInv
      <4> QED
        BY <4>1, <4>2
    <3>6. dest'[o] = d \o (full \o rest)
      BY <3>1 DEF BytesInv
    <3>7. OutputBytes(o)'
      <4>1. Point(o) + n = start[o] + (BufferSize + k)
        BY <1>3
      <4>2. ~broken'[o] => Len(d) = start[o]
        BY <1>2, OutputFacts
      <4>3. ~broken'[o] => Len(dest'[o]) = start'[o]
        BY <3>3, <3>5, <3>6, <4>1, <4>2
      <4> QED
        BY <1>2, <4>3 DEF OutputBytes
    <3>8. ~broken[o] => Text(o)' = d \o (full \o rest)
      <4>1. ~broken'[o] => Text(o)' = dest'[o] \o <<>>
        BY <3>5 DEF Text, Buffered
      <4>2. (d \o (full \o rest)) \o <<>> = d \o (full \o rest)
        BY <3>3, ConcatEmptySeq
      <4> QED
        BY <1>2, <3>6, <4>1, <4>2
    <3> QED
      BY <3>4, <3>5, <3>7, <3>8
  <2> QED
    BY <2>1, <2>2
<1>9. ~broken[o] => Text(o)' = Plain!Over(Text(o), Point(o), w)
  <2> SUFFICES ASSUME ~broken[o]
               PROVE  Text(o)' = Plain!Over(Text(o), Point(o), w)
    OBVIOUS
  <2>1. Point(o) = Len(d) + p
    BY OutputFacts
  <2>2. Text(o) = d \o SubSeq(c, 1, l)
    BY OutputFacts, BufferedCut DEF Text
  <2> QED
    BY <1>4, <1>8, <2>1, <2>2
<1>10. CASE broken[o]
  <2>1. Plain!Next
    BY <1>2, <1>8, <1>10, BrokenOutputDone
  <2> QED
    BY <1>2, <1>8, <2>1, OutputFacts DEF Done
<1>11. CASE ~broken[o]
  <2>1. Answer(o, TRUE, Written(v, n))
    BY <1>1
  <2>2. Plain!Next
    BY <1>2, <1>3, <1>8, <1>9, <1>11, <2>1, WriteDone
  <2> QED
    BY <1>2, <1>8, <2>2, OutputFacts DEF Done
<1> QED
  BY <1>10, <1>11
LEMMA Sends ==
  ASSUME BytesInv, NEW o \in Outputs, NEW bytes \in Seq(Nat), Destined(o, bytes)
  PROVE  /\ \E d \in Seq(Nat) : dest' = [dest EXCEPT ![o] = d]
         /\ dest'[o] = dest[o] \o bytes /\ Len(dest'[o]) = Len(dest[o]) + Len(bytes)
<1>1. dest[o] \o bytes \in Seq(Nat) /\ Len(dest[o] \o bytes) = Len(dest[o]) + Len(bytes)
  <2>1. PICK d \in Seq(Nat) : d = dest[o]
    BY OutputFacts
  <2>2. d \o bytes \in Seq(Nat) /\ Len(d \o bytes) = Len(d) + Len(bytes)
    BY JoinIs
  <2> QED
    BY <2>1, <2>2
<1>2. dest' = [dest EXCEPT ![o] = dest[o] \o bytes]
  BY DEF Destined
<1> QED
  BY <1>1, <1>2 DEF BytesInv

LEMMA WriteFailsDone ==
  ASSUME BytesInv, NEW o \in Outputs, WriteFails(o)
  PROVE  Done(o)
<1> DEFINE c == content[buffer[o]]  p == pos[o]  l == len[o]  room == BufferSize - p
<1>1. PICK v \in Values, n \in (BufferSize - pos[o] + 1)..MaxCall :
        LET full == Laid(c, p, Written(v, room))
            rest == SubSeq(Written(v, n), room + 1, n)
        IN /\ Fill(o, buffer[o], full)
           /\ \/ \E k \in 0..(BufferSize - 1) : Destined(o, SubSeq(full, 1, k))
              \/ \E k \in 0..(Len(rest) - 1) : Destined(o, full \o SubSeq(rest, 1, k))
  BY DEF WriteFails
<1> DEFINE full == Laid(c, p, Written(v, room))  rest == SubSeq(Written(v, n), room + 1, n)
<1>2. phase[o] = "open" /\ phase' = phase /\ Breaks(o) /\ Answer(o, FALSE, <<>>)
  BY DEF WriteFails
<1>3. /\ n \in Nat /\ n > BufferSize - p /\ v \in Nat
      /\ c \in Arrays /\ p \in 0..l /\ l \in 0..BufferSize /\ BufferSize \in Nat
  BY <1>1, <1>2, OutputFacts, BoundAssumption
<1>4. full \in Arrays /\ rest \in Seq(Nat)
  <2>1. <<>> \in Seq(Nat)
    BY EmptySeq
  <2>2. PICK d \in Seq(Nat) : d = <<>>
    BY <2>1
  <2>3. /\ d \in Seq(Nat) /\ c \in Arrays /\ l \in 0..BufferSize /\ p \in 0..l /\ v \in Nat
        /\ n \in Nat /\ n > BufferSize - p
    BY <1>3
  <2> HIDE DEF c, p, l
  <2>4. /\ full \in Arrays /\ rest \in Seq(Nat) /\ Len(rest) = n - room
        /\ d \o (full \o rest) = Plain!Over(d \o SubSeq(c, 1, l), Len(d) + p, Written(v, n))
    BY <2>3, WriteOverBuffer, Zenon
  <2> QED
    BY <2>4
<1>5. Fill(o, buffer[o], full)
  BY <1>1
<1> HIDE DEF full, rest
<1>6. Writes(o)
  BY <1>2, <1>4, <1>5, FillIs
<1>7. \E bytes \in Seq(Nat) : Destined(o, bytes)
  <2>1. full \in Seq(Nat) /\ Len(full) = BufferSize
    BY <1>4, ArrayIsBytes
  <2>2. CASE \E k \in 0..(BufferSize - 1) : Destined(o, SubSeq(full, 1, k))
    <3>1. PICK k \in 0..(BufferSize - 1) : Destined(o, SubSeq(full, 1, k))
      BY <2>2
    <3>2. k \in 0..BufferSize
      BY <1>3
    <3> QED
      BY <1>4, <3>1, <3>2, ArrayCut
  <2>3. CASE \E k \in 0..(Len(rest) - 1) : Destined(o, full \o SubSeq(rest, 1, k))
    <3>1. PICK k \in 0..(Len(rest) - 1) : Destined(o, full \o SubSeq(rest, 1, k))
      BY <2>3
    <3>2. k \in Nat /\ k <= Len(rest) /\ 1 \in Nat /\ 1 > 0 /\ 1 <= k + 1
      BY <1>4, LenProperties
    <3>3. SubSeq(rest, 1, k) \in Seq(Nat)
      BY <1>4, <3>2, SeqCut
    <3> QED
      BY <2>1, <3>1, <3>3, JoinIs
  <2> QED
    BY <1>1, <2>2, <2>3 DEF full, rest
<1>8. StepOf(o)
  BY OutputRange DEF OutputSteps, BytesInv
<1>9. Stepped(o)
  BY <1>2, <1>6, <1>7, <1>8, Sends DEF Stepped
<1> QED
  BY <1>2, <1>9, OutputBreakDone, OutputFacts DEF Done

LEMMA FlushFailsDone ==
  ASSUME BytesInv, NEW o \in Outputs, FlushFails(o)
  PROVE  Done(o)
<1>1. /\ phase[o] = "open" /\ phase' = phase /\ Breaks(o) /\ Answer(o, FALSE, <<>>) /\ content' = content
  BY DEF FlushFails
<1>2. \E bytes \in Seq(Nat) : Destined(o, bytes)
  <2>1. Buffered(o) \in Seq(Nat) /\ Len(Buffered(o)) = len[o] /\ len[o] \in Nat
    BY BufferedIs
  <2>2. ASSUME NEW k \in 0..(len[o] - 1)
        PROVE  SubSeq(Buffered(o), 1, k) \in Seq(Nat)
    <3>1. k \in Nat /\ k <= Len(Buffered(o)) /\ 1 \in Nat /\ 1 > 0 /\ 1 <= k + 1
      BY <2>1
    <3> QED
      BY <2>1, <3>1, SeqCut
  <2> QED
    BY <2>1, <2>2 DEF FlushFails
<1>3. StepOf(o)
  BY OutputRange DEF OutputSteps, BytesInv
<1>4. Stepped(o)
  BY <1>1, <1>2, <1>3, Sends DEF Stepped
<1> QED
  BY <1>1, <1>4, OutputBreakDone, OutputFacts DEF Done

LEMMA SeekOutsideDone ==
  ASSUME BytesInv, NEW o \in Outputs, SeekOutside(o)
  PROVE  Done(o)
<1>1. /\ phase[o] = "open" /\ phase' = phase /\ Breaks(o) /\ Answer(o, FALSE, <<>>) /\ content' = content
      /\ Destined(o, Buffered(o))
  BY DEF SeekOutside
<1>2. Buffered(o) \in Seq(Nat)
  BY BufferedIs
<1>3. StepOf(o)
  BY OutputRange DEF OutputSteps, BytesInv
<1>4. Stepped(o)
  BY <1>1, <1>2, <1>3, Sends DEF Stepped
<1> QED
  BY <1>1, <1>4, OutputBreakDone, OutputFacts DEF Done

(* What has been buffered is sent: the text is the same.                   *)
LEMMA Flushed ==
  ASSUME BytesInv, NEW o \in Outputs, Destined(o, Buffered(o)), Emptied(o), broken' = broken
  PROVE  /\ \E d \in Seq(Nat) : dest' = [dest EXCEPT ![o] = d]
         /\ OutputBytes(o)' /\ Text(o)' = Text(o) /\ Point(o)' = start[o] + len[o]
         /\ ~broken[o] => Point(o)' = Len(Text(o))
<1>1. Buffered(o) \in Seq(Nat) /\ Len(Buffered(o)) = len[o]
  BY BufferedIs
<1>2. /\ \E d \in Seq(Nat) : dest' = [dest EXCEPT ![o] = d]
      /\ dest'[o] = dest[o] \o Buffered(o) /\ Len(dest'[o]) = Len(dest[o]) + len[o]
  <2> DEFINE bytes == Buffered(o)
  <2>1. bytes \in Seq(Nat) /\ Destined(o, bytes)
    BY <1>1
  <2> HIDE DEF bytes
  <2>2. /\ \E d \in Seq(Nat) : dest' = [dest EXCEPT ![o] = d]
        /\ dest'[o] = dest[o] \o bytes /\ Len(dest'[o]) = Len(dest[o]) + Len(bytes)
    BY <2>1, Sends
  <2> QED
    BY <1>1, <2>2 DEF bytes
<1>3. start'[o] = start[o] + len[o] /\ len'[o] = 0 /\ Point(o)' = start[o] + len[o]
  <2> DEFINE q == start[o] + len[o]
  <2>1. Moves(o, q, 0, 0) /\ q + 0 = q
    BY OutputFacts DEF Emptied
  <2> HIDE DEF q
  <2>2. start'[o] = q /\ len'[o] = 0 /\ Point(o)' = q + 0
    BY <2>1, OutputFacts, MovesOwn DEF BytesInv
  <2> QED
    BY <2>1, <2>2 DEF q
<1>4. OutputBytes(o)'
  BY <1>2, <1>3, OutputFacts DEF OutputBytes
<1>5. Text(o)' = Text(o)
  <2>1. CASE broken[o]
    BY <2>1 DEF Text
  <2>2. CASE ~broken[o]
    <3>1. Text(o) = dest[o] \o Buffered(o) /\ Text(o) \in Seq(Nat)
      BY <2>2, BufferedIs
    <3>2. Buffered(o)' = <<>>
      BY <1>3 DEF Buffered
    <3>3. Text(o)' = Text(o) \o <<>>
      BY <1>2, <2>2, <3>1, <3>2 DEF Text
    <3> QED
      BY <3>1, <3>3, ConcatEmptySeq
  <2> QED
    BY <2>1, <2>2
<1>6. ~broken[o] => Point(o)' = Len(Text(o))
  BY <1>3, BufferedIs
<1> QED
  BY <1>2, <1>3, <1>4, <1>5, <1>6

LEMMA FlushDone ==
  ASSUME BytesInv, NEW o \in Outputs, Flush(o)
  PROVE  Done(o)
<1>1. /\ phase[o] = "open" /\ phase' = phase /\ broken' = broken /\ content' = content /\ result' = result
      /\ Destined(o, Buffered(o)) /\ Emptied(o)
  BY DEF Flush
<1>2. StepOf(o)
  BY OutputRange DEF OutputSteps, BytesInv
<1>3. Stepped(o)
  BY <1>1, <1>2, Flushed, OutputFacts DEF Stepped
<1>4. CASE broken[o]
  <2>1. Plain!Next
    BY <1>1, <1>3, <1>4, BrokenOutputDone
  <2> QED
    BY <1>1, <1>3, <2>1, Flushed, OutputFacts DEF Done
<1>5. CASE ~broken[o]
  <2>1. /\ State[o] = "open" /\ UNCHANGED <<length, State, Texts, result>>
        /\ Place' = [Place EXCEPT ![o] = Len(Texts[o])]
    BY <1>1, <1>3, <1>5, Flushed, OutputSees
  <2>2. Plain!Next
    BY <2>1, PlainFlushes
  <2> QED
    BY <1>1, <1>3, <2>2, Flushed, OutputFacts DEF Done
<1> QED
  BY <1>4, <1>5

LEMMA SeekWithinDone ==
  ASSUME BytesInv, NEW o \in Outputs, SeekWithin(o)
  PROVE  Done(o)
<1>1. /\ phase[o] = "open" /\ phase' = phase /\ broken' = broken /\ content' = content /\ result' = result
      /\ dest' = dest /\ buffer' = buffer
  BY DEF SeekWithin
<1>2. PICK p \in 0..MaxPoint : InBuffer(o, p) /\ Moves(o, start[o], p - start[o], len[o])
  BY DEF SeekWithin
<1>3. StepOf(o)
  BY OutputRange DEF OutputSteps, BytesInv
<1>4. Stepped(o)
  BY <1>1, <1>3 DEF Stepped
<1>5. start'[o] = start[o] /\ len'[o] = len[o] /\ Point(o)' = p
  <2> DEFINE q == p - start[o]
  <2>1. Moves(o, start[o], q, len[o]) /\ start[o] + q = p
    BY <1>2, OutputFacts
  <2> HIDE DEF q
  <2> QED
    BY <2>1, OutputFacts, MovesOwn DEF BytesInv
<1>6. Text(o)' = Text(o)
  BY <1>1, <1>5 DEF Text, Buffered
<1>7. OutputBytes(o)'
  BY <1>1, <1>5, OutputFacts DEF OutputBytes
<1>8. CASE broken[o]
  <2>1. Plain!Next
    BY <1>1, <1>4, <1>8, BrokenOutputDone
  <2> QED
    BY <1>1, <1>4, <1>7, <2>1, OutputFacts DEF Done
<1>9. CASE ~broken[o]
  <2>1. p \in 0..Len(Text(o))
    <3>1. Len(Text(o)) = start[o] + len[o]
      BY <1>9, BufferedIs
    <3> QED
      BY <1>2, <3>1, OutputFacts DEF InBuffer
  <2>2. /\ State[o] = "open" /\ UNCHANGED <<length, State, Texts, result>> /\ p \in 0..Len(Texts[o])
        /\ Place' = [Place EXCEPT ![o] = p]
    BY <1>1, <1>4, <1>5, <1>6, <1>9, <2>1, OutputSees
  <2>3. Plain!Next
    BY <2>2, PlainSeeksBack
  <2> QED
    BY <1>1, <1>4, <1>7, <2>3, OutputFacts DEF Done
<1> QED
  BY <1>8, <1>9

LEMMA CloseOutputDone ==
  ASSUME BytesInv, NEW o \in Outputs, CloseOutput(o)
  PROVE  Done(o)
<1>1. /\ phase[o] \in {"open", "closed"} /\ phase' = [phase EXCEPT ![o] = "closed"]
      /\ IF phase[o] = "open" THEN Destined(o, Buffered(o)) ELSE UNCHANGED dest
      /\ Emptied(o) /\ broken' = broken /\ content' = content /\ result' = result
  BY DEF CloseOutput
<1>2. StepOf(o)
  BY OutputRange DEF OutputSteps, BytesInv
<1>3. o \in Streams /\ phase'[o] = "closed"
  BY <1>1, OutputFacts DEF BytesInv, RangeInv, TypeOK
<1>4. CASE phase[o] = "open"
  <2>1. Stepped(o)
    BY <1>1, <1>2, <1>4, Flushed, OutputFacts DEF Stepped
  <2>2. CASE broken[o]
    <3>1. Plain!Next
      BY <1>1, <1>3, <1>4, <2>1, <2>2, BrokenOutputDone
    <3> QED
      BY <1>1, <1>3, <1>4, <2>1, <3>1, Flushed, OutputFacts DEF Done
  <2>3. CASE ~broken[o]
    <3>1. /\ State[o] = "open" /\ UNCHANGED <<length, Texts, result>>
          /\ State' = [State EXCEPT ![o] = "closed"]
          /\ Place' = [Place EXCEPT ![o] = Len(Texts[o])]
      BY <1>1, <1>3, <1>4, <2>1, <2>3, Flushed, OutputSees
    <3>2. Plain!Next
      BY <1>3, <3>1, PlainCloses
    <3> QED
      BY <1>1, <1>3, <1>4, <2>1, <3>2, Flushed, OutputFacts DEF Done
  <2> QED
    BY <2>2, <2>3
<1>5. CASE phase[o] = "closed"
  <2>1. dest' = dest /\ len[o] = 0 /\ pos[o] = 0 /\ start[o] \in Nat
    BY <1>1, <1>5, OutputFacts
  <2>2. Stepped(o)
    BY <1>1, <1>2, <2>1 DEF Stepped
  <2>3. start'[o] = start[o] /\ len'[o] = 0 /\ Point(o)' = Point(o)
    <3>1. Moves(o, start[o], 0, 0) /\ start[o] + 0 = start[o] /\ Point(o) = start[o]
      BY <1>1, <2>1, OutputFacts DEF Emptied
    <3> QED
      BY <3>1, OutputFacts, MovesOwn DEF BytesInv
  <2>4. Text(o)' = Text(o)
    BY <1>1, <2>1, <2>3 DEF Text, Buffered
  <2>5. OutputBytes(o)'
    BY <1>1, <2>1, <2>3, OutputFacts DEF OutputBytes
  <2>6. State' = State
    BY <1>3, <1>5, <2>2, OutputSees DEF State
  <2>7. Place' = Place
    BY <1>1, <1>3, <2>2, <2>3, OutputSees DEF Place
  <2>8. UNCHANGED Plain!vars
    BY <1>1, <2>2, <2>4, <2>6, <2>7, OutputSees, PlainStutters
  <2> QED
    BY <1>3, <2>2, <2>5, <2>8, OutputFacts DEF Done
<1> QED
  BY <1>1, <1>4, <1>5

LEMMA OutputDone ==
  ASSUME BytesInv, NEW o \in Outputs, OutputSteps(o)
  PROVE  Done(o)
BY OpenOutputDone, WriteFitsDone, WriteOverDone, WriteFailsDone, FlushDone, FlushFailsDone,
   SeekWithinDone, SeekOutsideDone, CloseOutputDone DEF OutputSteps

-----------------------------------------------------------------------------
LEMMA BytesInit == Init => BytesInv
<1> SUFFICES ASSUME Init PROVE BytesInv
  OBVIOUS
<1>1. RangeInv /\ HandInv
  BY RangeInit, HandInit
<1>2. length \in Nat /\ length <= MaxPoint /\ MaxPoint \in Nat
  BY BoundAssumption DEF Init
<1>3. content \in [Buffers -> Arrays]
  BY DEF Init, Zeros, Arrays
<1>4. <<>> \in Seq(Nat) /\ Len(<<>>) = 0
  BY EmptySeq
<1>5. dest \in [Outputs -> Seq(Nat)]
  BY <1>4 DEF Init
<1>6. \A i \in Inputs : InputBytes(i)
  BY <1>2 DEF Init, InputBytes, Point, Streams
<1>7. \A o \in Outputs : OutputBytes(o)
  BY <1>4 DEF Init, OutputBytes, Streams
<1>8. broken \in [Streams -> BOOLEAN] /\ \A s \in Streams : ~broken[s]
  BY DEF Init
<1> QED
  BY <1>1, <1>2, <1>3, <1>5, <1>6, <1>7, <1>8 DEF BytesInv

LEMMA DoneSteps ==
  ASSUME BytesInv, HandInv', NEW s \in Streams, Done(s)
  PROVE  BytesInv' /\ [Plain!Next]_Plain!vars
<1>1. Stepped(s)
  BY DEF Done
<1>2. length' = length
  BY <1>1, StepFrame DEF Stepped, BytesInv
<1>3. \A i \in Inputs : InputBytes(i)'
  BY <1>1, OthersStand DEF Done
<1>4. \A o \in Outputs : OutputBytes(o)'
  BY <1>1, OthersStand DEF Done
<1>5. \A t \in Streams : phase'[t] = "none" => ~broken'[t]
  BY <1>1, OthersStand DEF Done
<1>6. BytesInv'
  BY <1>1, <1>2, <1>3, <1>4, <1>5, OthersStand DEF BytesInv
<1> QED
  BY <1>6 DEF Done

LEMMA BytesStep == BytesInv /\ [Next]_vars => BytesInv' /\ [Plain!Next]_Plain!vars
<1> SUFFICES ASSUME BytesInv, [Next]_vars
             PROVE  BytesInv' /\ [Plain!Next]_Plain!vars
  OBVIOUS
<1>h. HandInv'
  BY HandStep DEF BytesInv
<1>1. CASE \E i \in Inputs : InputSteps(i)
  BY <1>h, <1>1, InputDone, DoneSteps DEF Streams
<1>2. CASE \E i, j \in Inputs : Clone(i, j)
  BY <1>h, <1>2, CloneDone, DoneSteps DEF Streams
<1>3. CASE \E o \in Outputs : OutputSteps(o)
  BY <1>h, <1>3, OutputDone, DoneSteps DEF Streams
<1>4. CASE UNCHANGED vars
  <2>1. UNCHANGED <<length, State, Place, Texts, result>>
    BY <1>4 DEF vars, buffering, State, Place, Texts, Point, Text, Buffered
  <2>2. BytesInv'
    <3>1. RangeInv'
      BY <1>4, RangeStep DEF BytesInv
    <3>2. \A i \in Inputs : InputBytes(i)'
      BY <1>4 DEF vars, buffering, BytesInv, InputBytes, Point
    <3>3. \A o \in Outputs : OutputBytes(o)'
      BY <1>4 DEF vars, buffering, BytesInv, OutputBytes
    <3> QED
      BY <1>h, <1>4, <3>1, <3>2, <3>3 DEF vars, buffering, BytesInv
  <2> QED
    BY <2>1, <2>2, PlainStutters
<1> QED
  BY <1>1, <1>2, <1>3, <1>4 DEF Next

LEMMA PlainInit == Init => Plain!Init
<1> SUFFICES ASSUME Init PROVE Plain!Init
  OBVIOUS
<1>1. length \in Nat
  BY BoundAssumption DEF Init
<1>2. State = [s \in Streams |-> "none"] /\ Place = [s \in Streams |-> 0]
  BY DEF Init, State, Place, Point
<1>3. Texts = [o \in Outputs |-> <<>>]
  <2>1. \A o \in Outputs : Text(o) = <<>>
    <3> SUFFICES ASSUME NEW o \in Outputs
                 PROVE  Text(o) = <<>>
      OBVIOUS
    <3>1. ~broken[o] /\ dest[o] = <<>> /\ Buffered(o) = <<>>
      BY DEF Init, Buffered, Streams
    <3>2. <<>> \o <<>> = <<>>
      BY EmptySeq, ConcatEmptySeq
    <3> QED
      BY <3>1, <3>2 DEF Text
  <2> QED
    BY <2>1 DEF Texts
<1> QED
  BY <1>1, <1>2, <1>3 DEF Init, Plain!Init, State, Place, Texts, Plain!Streams, Streams

(* Nobody can tell that there are buffers: for any streams, buffers, pool  *)
(* and sizes, what the calls of CustomBufferedIndexInput and               *)
(* ReusedBufferedIndexOutput return and do is what they would on the plain *)
(* file.                                                                   *)
THEOREM BuffersCannotBeTold == Spec => Implements
<1>1. Spec => [][Plain!Next]_Plain!vars
  BY BytesInit, BytesStep, PTL DEF Spec
<1>2. Spec => Plain!Init
  BY PlainInit DEF Spec
<1> QED
  BY <1>1, <1>2, PTL DEF Implements, Plain!Spec
=============================================================================
