---------------------------- MODULE IndexStreams ----------------------------
(***************************************************************************)
(* The buffered streams of the text index.  CustomBufferedIndexInput reads *)
(* a file through a buffer; hdfs.HdfsIndexInput under it reads at the      *)
(* place the input tells, and a clone of an input shares its HDFS stream.  *)
(* ReusedBufferedIndexOutput writes through a buffer, CachedIndexOutput    *)
(* under it to its destination.  Buffers come from and go back to the pool *)
(* of BufferStore, which all streams share.  A stream has one user, so a   *)
(* call is one step; the order of the calls is free.                       *)
(***************************************************************************)
EXTENDS Integers, Sequences, FiniteSets

CONSTANTS Inputs, Outputs,
          Buffers,     \* bound: buffers in use or in the pool together
          NoBuffer,    \* null
          BufferSize,
          PoolSize,    \* the capacity of BufferStore's queue
          Lengths,     \* bound: lengths of the file
          Values,      \* bound: what the bytes of a write are told apart by
          MaxOpen,     \* bound: streams that are ever opened
          MaxCall,     \* bound: bytes of a call
          MaxPoint     \* bound: where a stream can stand

ASSUME SizeAssumption == BufferSize \in Nat \ {0, 1} /\ PoolSize \in Nat \ {0}
ASSUME BufferAssumption == IsFiniteSet(Buffers) /\ NoBuffer \notin Buffers
ASSUME BoundAssumption == /\ MaxCall \in Nat /\ MaxPoint \in Nat /\ Values \subseteq Nat
                          /\ Lengths \subseteq 0..MaxPoint
ASSUME StreamAssumption == IsFiniteSet(Inputs \cup Outputs) /\ Inputs \cap Outputs = {}

Streams == Inputs \cup Outputs

VARIABLES length,   \* of the file; the same for every input
          faults,   \* whether HDFS may fail (chosen once)
          content,  \* content[b]: the bytes in buffer b
          pool,     \* BufferStore._1024
          buffer,   \* buffer[s], bufferStart, bufferLength and bufferPosition
          start,    \*   of stream s
          len,
          pos,
          phase,    \* phase[s]: "none", "open" or "closed"
          broken,   \* broken[s]: a call on s has thrown, not for the end of the file
          origin,   \* origin[i]: the input with which the HDFS stream i reads was opened
          clone,    \* clone[i]: the flag of HdfsIndexInput
          ended,    \* HDFS streams that have been closed, by the input of origin
          size,     \* size[o]: fileLength of output o
          dest,     \* dest[o]: what o's destination has got
          result    \* the call made last: its stream, outcome and bytes

buffering == <<content, pool, buffer, start, len, pos>>
vars == <<length, faults, content, pool, buffer, start, len, pos, phase, broken,
          origin, clone, ended, size, dest, result>>
handles == <<origin, clone, ended>>

Greater(a, b) == IF a > b THEN a ELSE b
Smaller(a, b) == IF a < b THEN a ELSE b

(* A byte of the file tells its place, a byte written its write and place; *)
(* 0 is in no file.                                                        *)
FileBytes(p, n) == [k \in 1..n |-> p + k]
Written(v, n) == [k \in 1..n |-> v + k]
Zeros == [k \in 1..BufferSize |-> 0]

Point(s) == start[s] + pos[s]     \* getFilePointer()
Have(i) == len[i] - pos[i]        \* bytes left in the buffer
Held == {buffer[s] : s \in Streams} \ {NoBuffer}
Opened == {s \in Streams : phase[s] # "none"}
Answer(s, ok, bytes) == result' = [by |-> s, ok |-> ok, bytes |-> bytes]

(* bytes laid over buffer contents c behind place p.                       *)
Laid(c, p, bytes) ==
  [k \in 1..BufferSize |-> IF k > p /\ k <= p + Len(bytes) THEN bytes[k - p] ELSE c[k]]

Init ==
  /\ length \in Lengths /\ faults \in BOOLEAN
  /\ content = [b \in Buffers |-> Zeros]
  /\ pool \in {p \in SUBSET Buffers : Cardinality(p) = PoolSize}
  /\ buffer = [s \in Streams |-> NoBuffer]
  /\ start = [s \in Streams |-> 0]
  /\ len = [s \in Streams |-> 0]
  /\ pos = [s \in Streams |-> 0]
  /\ phase = [s \in Streams |-> "none"]
  /\ broken = [s \in Streams |-> FALSE]
  /\ origin = [i \in Inputs |-> i]
  /\ clone = [i \in Inputs |-> FALSE] /\ ended = {}
  /\ size = [o \in Outputs |-> 0]
  /\ dest = [o \in Outputs |-> <<>>]
  /\ result = [by |-> "nobody", ok |-> TRUE, bytes |-> <<>>]

-----------------------------------------------------------------------------
(* BufferStore.  takeBuffer polls the queue and makes a new buffer when it *)
(* is empty; c is what is in the buffer.  Mutant: leaves it in the queue.  *)
Peeked(b, c) == \/ b \in pool /\ c = content[b] /\ pool' = pool
                \/ pool = {} /\ b \notin Held /\ c = Zeros /\ pool' = pool
Taken(b, c) == \/ b \in pool /\ c = content[b] /\ pool' = pool \ {b}
               \/ pool = {} /\ b \notin Held /\ c = Zeros /\ pool' = pool

(* putBuffer: null is not put, and a full queue refuses the buffer.        *)
PutBuffer(b) ==
  pool' = IF b # NoBuffer /\ Cardinality(pool) < PoolSize THEN pool \cup {b} ELSE pool

(* s goes on with pos p and len n of a buffer that starts at q.            *)
Moves(s, q, p, n) == /\ start' = [start EXCEPT ![s] = q]
                     /\ pos' = [pos EXCEPT ![s] = p]
                     /\ len' = [len EXCEPT ![s] = n]
Standing(s) == Moves(s, start[s], pos[s], len[s])
Breaks(s) == broken' = [broken EXCEPT ![s] = TRUE]
Fill(s, b, c) == content' = [content EXCEPT ![b] = c] /\ buffer' = [buffer EXCEPT ![s] = b]

-----------------------------------------------------------------------------
(* Inputs.                                                                 *)
StreamClosed(i) == origin[i] \in ended
CanFail(i) == faults \/ StreamClosed(i)
CanRead(i) == ~StreamClosed(i)

OpenInput(i) ==
  /\ phase[i] = "none" /\ Cardinality(Opened) < MaxOpen
  /\ phase' = [phase EXCEPT ![i] = "open"]
  /\ UNCHANGED <<length, faults, buffering, broken, handles, size, dest, result>>

(* clone(): a copy of the fields that is told it is one, with no buffer, at*)
(* the same place, on the same HDFS stream.  Mutant: it is not told.       *)
KeepsFlag(i, j) == clone' = [clone EXCEPT ![j] = clone[i]]
SetsFlag(i, j) == clone' = [clone EXCEPT ![j] = TRUE]

Clone(i, j) ==
  /\ phase[i] = "open" /\ phase[j] = "none" /\ Cardinality(Opened) < MaxOpen
  /\ phase' = [phase EXCEPT ![j] = "open"]
  /\ origin' = [origin EXCEPT ![j] = origin[i]]
  /\ SetsFlag(i, j) /\ UNCHANGED ended
  /\ Moves(j, Point(i), 0, 0)
  /\ UNCHANGED <<length, faults, content, pool, buffer, broken, size, dest, result>>

(* The buffer has enough: readBytes, and the short cuts of readByte,       *)
(* readInt, readLong, readVInt and readVLong.                              *)
FromBuffer(i) ==
  /\ phase[i] = "open"
  /\ \E n \in 1..Smaller(MaxCall, Have(i)) :
       /\ Moves(i, start[i], pos[i] + n, len[i])
       /\ Answer(i, TRUE, SubSeq(content[buffer[i]], pos[i] + 1, pos[i] + n))
  /\ UNCHANGED <<length, faults, content, pool, buffer, phase, broken, handles, size, dest>>

(* refill takes a buffer if i has none and gets filled bytes from the file *)
(* into it, of which got have come.                                        *)
Refill(i, from, got) ==
  \E b \in Buffers, c \in {content[k] : k \in Buffers} \cup {Zeros} :
    /\ IF buffer[i] = NoBuffer THEN Taken(b, c)
       ELSE b = buffer[i] /\ c = content[b] /\ UNCHANGED pool
    /\ Fill(i, b, Laid(c, 0, FileBytes(from, got)))
Served(i) == IF Have(i) = 0 THEN <<>> ELSE SubSeq(content[buffer[i]], pos[i] + 1, len[i])
Filled(i) == Smaller(BufferSize, length - (Point(i) + Have(i)))

(* What is left after the buffer is served fits the buffer.                *)
ReadThroughBuffer(i) ==
  /\ phase[i] = "open" /\ CanRead(i) /\ Filled(i) > 0
  /\ \E n \in (Have(i) + 1)..Smaller(MaxCall, Have(i) + BufferSize - 1) :
       LET from == Point(i) + Have(i)
           rest == n - Have(i)
       IN /\ Refill(i, from, Filled(i))
          /\ IF Filled(i) < rest
             THEN Moves(i, from, 0, Filled(i)) /\ Answer(i, FALSE, <<>>)
             ELSE /\ Moves(i, from, rest, Filled(i))
                  /\ Answer(i, TRUE, Served(i)
                                     \o SubSeq(content'[buffer'[i]], 1, rest))
  /\ UNCHANGED <<length, faults, phase, broken, handles, size, dest>>

(* What is left is read into the caller's array: it does not fit, or the   *)
(* caller asked for it.                                                    *)
ReadDirect(i) ==
  /\ phase[i] = "open" /\ CanRead(i)
  /\ \E n \in (Have(i) + 1)..MaxCall :
       /\ Point(i) + n <= length
       /\ Moves(i, Point(i) + n, 0, 0)
       /\ Answer(i, TRUE, Served(i) \o FileBytes(Point(i) + Have(i), n - Have(i)))
  /\ UNCHANGED <<length, faults, content, pool, buffer, phase, broken, handles, size, dest>>

(* "read past EOF" before anything is read from HDFS: nothing to refill    *)
(* from, or a direct read that would go too far.  The buffer is served.    *)
PastEnd(i) ==
  /\ phase[i] = "open"
  /\ \E n \in (Have(i) + 1)..MaxCall : Point(i) + n > length
  /\ Moves(i, start[i], len[i], len[i])
  /\ Answer(i, FALSE, <<>>)
  /\ UNCHANGED <<length, faults, content, pool, buffer, phase, broken, handles, size, dest>>

(* readFully throws with got bytes read: of a refill these are in the      *)
(* buffer, over bytes that still count as the buffer's.                    *)
ReadFails(i) ==
  /\ phase[i] = "open" /\ CanFail(i)
  /\ Have(i) < MaxCall /\ Filled(i) > 0
  /\ \/ \E got \in 0..(Filled(i) - 1) : Refill(i, Point(i) + Have(i), got)
     \/ UNCHANGED <<content, buffer, pool>>
  /\ Moves(i, start[i], len[i], len[i])
  /\ Breaks(i) /\ Answer(i, FALSE, <<>>)
  /\ UNCHANGED <<length, faults, phase, handles, size, dest>>

InBuffer(s, p) == p >= start[s] /\ p < start[s] + len[s]

SeekInput(i) ==
  /\ phase[i] = "open"
  /\ \E p \in 0..MaxPoint :
       IF InBuffer(i, p) THEN Moves(i, start[i], p - start[i], len[i]) ELSE Moves(i, p, 0, 0)
  /\ UNCHANGED <<length, faults, content, pool, buffer, phase, broken, handles, size, dest, result>>

(* close(): an input that is no clone closes the HDFS stream, and the      *)
(* buffer goes back.                                                       *)
GivesBufferBack(s) == PutBuffer(buffer[s]) /\ buffer' = [buffer EXCEPT ![s] = NoBuffer]
CloseInput(i) ==
  /\ phase[i] \in {"open", "closed"}
  /\ phase' = [phase EXCEPT ![i] = "closed"]
  /\ ended' = IF clone[i] THEN ended ELSE ended \cup {origin[i]}
  /\ GivesBufferBack(i)
  /\ UNCHANGED <<length, faults, content, start, len, pos, broken, origin, clone, size, dest, result>>

CloseFails(i) ==
  /\ phase[i] = "open" /\ ~clone[i] /\ faults
  /\ Breaks(i) /\ Answer(i, FALSE, <<>>)
  /\ UNCHANGED <<length, faults, buffering, phase, handles, size, dest>>

-----------------------------------------------------------------------------
(* Outputs.                                                                *)
OpenOutput(o) ==
  /\ phase[o] = "none" /\ Cardinality(Opened) < MaxOpen
  /\ phase' = [phase EXCEPT ![o] = "open"]
  /\ \E b \in Buffers, c \in {content[k] : k \in Buffers} \cup {Zeros} :
       Taken(b, c) /\ Fill(o, b, c)
  /\ UNCHANGED <<length, faults, start, len, pos, broken, handles, size, dest, result>>

Buffered(o) == IF len[o] = 0 THEN <<>> ELSE SubSeq(content[buffer[o]], 1, len[o])
Lengthens(o, p) == size' = [size EXCEPT ![o] = Greater(@, p)]

(* flushBufferToCache.                                                     *)
Emptied(o) == Moves(o, start[o] + len[o], 0, 0)
Destined(o, bytes) == dest' = [dest EXCEPT ![o] = @ \o bytes]

(* A write that fits the buffer.  Mutant: len follows pos back as well.    *)
CutsLength(o, p) == Moves(o, start[o], p, p)
Advances(o, p) == Moves(o, start[o], p, Greater(p, len[o]))
WriteFits(o) ==
  /\ phase[o] = "open"
  /\ \E v \in Values, n \in 1..Smaller(MaxCall, BufferSize - pos[o]) :
       /\ Point(o) + n <= MaxPoint
       /\ Fill(o, buffer[o], Laid(content[buffer[o]], pos[o], Written(v, n)))
       /\ Advances(o, pos[o] + n)
       /\ Lengthens(o, Point(o) + n)
       /\ Answer(o, TRUE, Written(v, n))
  /\ UNCHANGED <<length, faults, pool, phase, broken, handles, dest>>

(* A write that does not: the buffer is filled and flushed, the rest goes  *)
(* into the buffer or, too long for it, straight to the destination.       *)
WriteOver(o) ==
  /\ phase[o] = "open"
  /\ \E v \in Values, n \in (BufferSize - pos[o] + 1)..MaxCall :
       LET room == BufferSize - pos[o]
           full == Laid(content[buffer[o]], pos[o], Written(v, room))
           rest == SubSeq(Written(v, n), room + 1, n)
           next == start[o] + BufferSize
       IN /\ Point(o) + n <= MaxPoint
          /\ IF n - room < BufferSize
             THEN /\ Fill(o, buffer[o], Laid(full, 0, rest))
                  /\ Destined(o, full)
                  /\ Moves(o, next, n - room, n - room)
             ELSE /\ Fill(o, buffer[o], full)
                  /\ Destined(o, full \o rest)
                  /\ Moves(o, next + n - room, 0, 0)
          /\ Lengthens(o, Point(o) + n)
          /\ Answer(o, TRUE, Written(v, n))
  /\ UNCHANGED <<length, faults, pool, phase, broken, handles>>

(* It fails on its way to the destination: either nothing of the call has  *)
(* left the buffer, or the buffer has and the rest of the call has not.    *)
WriteFails(o) ==
  /\ phase[o] = "open" /\ faults
  /\ \E v \in Values, n \in (BufferSize - pos[o] + 1)..MaxCall :
       LET full == Laid(content[buffer[o]], pos[o], Written(v, BufferSize - pos[o]))
           rest == SubSeq(Written(v, n), BufferSize - pos[o] + 1, n)
       IN /\ Point(o) + n <= MaxPoint
          /\ Fill(o, buffer[o], full)
          /\ \/ /\ \E k \in 0..(BufferSize - 1) : Destined(o, SubSeq(full, 1, k))
                /\ Moves(o, start[o], BufferSize, BufferSize)
             \/ /\ Len(rest) >= BufferSize
                /\ \E k \in 0..(Len(rest) - 1) : Destined(o, full \o SubSeq(rest, 1, k))
                /\ Moves(o, start[o] + BufferSize, 0, 0)
          /\ Lengthens(o, Point(o) + n)
  /\ Breaks(o) /\ Answer(o, FALSE, <<>>)
  /\ UNCHANGED <<length, faults, pool, phase, handles>>

Flush(o) ==
  /\ phase[o] = "open"
  /\ Destined(o, Buffered(o)) /\ Emptied(o)
  /\ UNCHANGED <<length, faults, content, pool, buffer, phase, broken, handles, size, result>>

(* flush() or close() fails before or after the buffer has left.           *)
FlushFails(o) ==
  /\ phase[o] = "open" /\ faults
  /\ \/ /\ \E k \in 0..(len[o] - 1) : Destined(o, SubSeq(Buffered(o), 1, k))
        /\ Standing(o)
     \/ Destined(o, Buffered(o)) /\ Emptied(o)
  /\ Breaks(o) /\ Answer(o, FALSE, <<>>)
  /\ UNCHANGED <<length, faults, content, pool, buffer, phase, handles, size>>

SeekWithin(o) ==
  /\ phase[o] = "open"
  /\ \E p \in {q \in 0..MaxPoint : InBuffer(o, q)} : Moves(o, start[o], p - start[o], len[o])
  /\ UNCHANGED <<length, faults, content, pool, buffer, phase, broken, handles, size, dest, result>>

(* To any other place: CachedIndexOutput throws, after all else is done;   *)
(* the end of the buffer, where a writer mostly stands, is such a place.   *)
SeekOutside(o) ==
  /\ phase[o] = "open"
  /\ \E p \in {q \in 0..MaxPoint : ~InBuffer(o, q)} : Moves(o, p, 0, 0) /\ Lengthens(o, p)
  /\ Destined(o, Buffered(o))
  /\ Breaks(o) /\ Answer(o, FALSE, <<>>)
  /\ UNCHANGED <<length, faults, content, pool, buffer, phase, handles>>

(* close(): flushes first; of a closed output nothing is left to flush.    *)
CloseOutput(o) ==
  /\ phase[o] \in {"open", "closed"}
  /\ phase' = [phase EXCEPT ![o] = "closed"]
  /\ IF phase[o] = "open" THEN Destined(o, Buffered(o)) ELSE UNCHANGED dest
  /\ Emptied(o) /\ GivesBufferBack(o)
  /\ UNCHANGED <<length, faults, content, broken, handles, size, result>>

-----------------------------------------------------------------------------
InputSteps(i) == \/ OpenInput(i) \/ FromBuffer(i) \/ ReadThroughBuffer(i) \/ ReadDirect(i)
                 \/ PastEnd(i) \/ ReadFails(i) \/ SeekInput(i) \/ CloseInput(i)
                 \/ CloseFails(i)
OutputSteps(o) == \/ OpenOutput(o) \/ WriteFits(o) \/ WriteOver(o) \/ WriteFails(o)
                  \/ Flush(o) \/ FlushFails(o) \/ SeekWithin(o) \/ SeekOutside(o)
                  \/ CloseOutput(o)

Next == \/ \E i \in Inputs : InputSteps(i)
        \/ \E i, j \in Inputs : Clone(i, j)
        \/ \E o \in Outputs : OutputSteps(o)

Spec == Init /\ [][Next]_vars

-----------------------------------------------------------------------------
(* Types.                                                                  *)
TypeOK ==
  /\ length \in Nat
  /\ pool \subseteq Buffers /\ buffer \in [Streams -> Buffers \cup {NoBuffer}]
  /\ start \in [Streams -> Nat] /\ len \in [Streams -> Nat] /\ pos \in [Streams -> Nat]
  /\ phase \in [Streams -> {"none", "open", "closed"}]

(* No call reaches outside an array, or into none: a position never passes *)
(* the valid bytes, nor these the buffer; whoever has valid bytes, or is to*)
(* write some, has a buffer.                                               *)
InRange ==
  \A s \in Streams :
    /\ pos[s] <= len[s] /\ len[s] <= BufferSize
    /\ phase[s] = "open" /\ (len[s] > 0 \/ s \in Outputs) => buffer[s] # NoBuffer
    /\ phase[s] = "none" => len[s] = 0

(* A buffer is in the hands of one stream or in the pool, never twice in   *)
(* use, through clones, failed reads, failed and repeated closes.          *)
Exclusive ==
  /\ Held \cap pool = {}
  /\ \A s, t \in Streams : s # t /\ buffer[s] = buffer[t] => buffer[s] = NoBuffer

(* Without a failure of HDFS an input breaks only if it is a clone whose   *)
(* original, the input opened in the directory, has been closed under it,  *)
(* whatever clones of it, or clones of clones, are made and closed (the    *)
(* flag that closeInternal asks, HdfsDirectory.java:205 and 219).          *)
BreaksWithReason == \A i \in Inputs : broken[i] /\ ~faults =>
                      origin[i] # i /\ phase[origin[i]] = "closed"

(* Nobody can tell that there are buffers: every call does what it would   *)
(* do on the plain file, whatever was read, sought, flushed and cloned     *)
(* before, and whatever other streams do with the pool.                    *)
Text(o) == IF broken[o] THEN <<>> ELSE dest[o] \o Buffered(o)
Plain == INSTANCE PlainFile WITH
  state <- [s \in Streams |-> IF phase[s] = "open" /\ broken[s] THEN "broken" ELSE phase[s]],
  point <- [s \in Streams |-> IF s \in Outputs /\ broken[s] THEN 0 ELSE Point(s)],
  text <- [o \in Outputs |-> Text(o)]
Implements == Plain!Spec
=============================================================================
