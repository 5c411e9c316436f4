------------------------------ MODULE EnDeFile ------------------------------
(***************************************************************************)
(* EnDeFile.fileEncode and EnDeFile.fileDecode: a file is cut into blocks, *)
(* one task per block goes to a thread pool of the call's own, and every   *)
(* task leaves its result in a table that is a STATIC field of the task's  *)
(* class (encodeThread.encoded_list, decodeThread.decoded_list), shared by *)
(* every call in the server.  When its pool is empty the call writes the   *)
(* table's entries 0, 1, ... to its output file and clears the table.      *)
(*                                                                         *)
(* A file is a source: its direction, what each of its blocks is like, and *)
(* whether the last one is short.  A block of data is [call, pos, intact]: *)
(* block number pos of the file of call, unless it was garbled on the way. *)
(***************************************************************************)
EXTENDS Integers, Sequences, FiniteSets

CONSTANTS Calls,         \* the calls made, each on a request thread of its own
          Sources,       \* the files they may be given
          PoolSize,      \* threads of a call's pool (5 in the code)
          MaxActive,     \* bound: calls of one direction in progress together
          DiskMayFail,   \* whether writing the output file may throw
          ReadMayFail    \* whether reading the source file may throw

Directions == {"encode", "decode"}

(* What a block is like.  plain: ASCII text, encrypts.  large: the cipher  *)
(* rejects it.  wide: decodes to fewer characters than it has bytes.       *)
Kinds == {"plain", "large", "wide"}

ASSUME CallsAssumption == IsFiniteSet(Calls)
ASSUME PoolAssumption == PoolSize \in Nat \ {0} /\ MaxActive \in Nat
ASSUME SourcesAssumption ==
  \A s \in Sources :
    /\ s.dir \in Directions
    /\ s.kinds \in Seq(Kinds)
    /\ s.short \in BOOLEAN /\ (s.short => Len(s.kinds) > 0)
ASSUME DiskAssumption == DiskMayFail \in BOOLEAN /\ ReadMayFail \in BOOLEAN

VARIABLES src,      \* src[c]: the file handed to call c
          pc,       \* pc[c]: where call c stands
          i,        \* i[c]: blocks of c submitted so far
          queued,   \* queued[c]: tasks in c's pool that no worker has begun
          running,  \* running[c]: tasks a worker of c's pool is executing
          table,    \* table["encode"] is encoded_list, the other decoded_list
          tn,       \* tn[c]: the table's size when c began to write
          out       \* out[c]: the blocks c has written to its output file

vars == <<src, pc, i, queued, running, table, tn, out>>

Block == [call : Calls, pos : Nat, intact : BOOLEAN]
Task == [number : Nat, data : Block]
Phases == {"idle", "submit", "write", "done", "failed"}

Dir(c) == src[c].dir
BlocksOf(c) == Len(src[c].kinds)
KindOf(c, n) == src[c].kinds[n + 1]
OwnBlock(c, n) == [call |-> c, pos |-> n, intact |-> TRUE]
IsTail(c, n) == src[c].short /\ n = BlocksOf(c) - 1
IsPlain(s) == \A k \in 1..Len(s.kinds) : s.kinds[k] = "plain"

Active(c) == pc[c] \in {"submit", "write"}
EmptyTable == [n \in {} |-> 0]

Init == /\ src \in [Calls -> Sources]
        /\ pc = [c \in Calls |-> "idle"]
        /\ i = [c \in Calls |-> 0]
        /\ queued = [c \in Calls |-> {}]
        /\ running = [c \in Calls |-> {}]
        /\ table = [d \in Directions |-> EmptyTable]
        /\ tn = [c \in Calls |-> 0]
        /\ out = [c \in Calls |-> <<>>]
-----------------------------------------------------------------------------
(* The request thread.                                                     *)

(* An encrypted file is rejected when its length is no multiple of 128.    *)
Begin(c) ==
  /\ pc[c] = "idle"
  /\ Cardinality({d \in Calls : Active(d) /\ Dir(d) = Dir(c)}) < MaxActive
  /\ pc' = [pc EXCEPT ![c] = IF Dir(c) = "decode" /\ src[c].short
                             THEN "failed" ELSE "submit"]
  /\ UNCHANGED <<src, i, queued, running, table, tn, out>>

(* What the task's constructor makes of the bytes.  decodeThread clones.   *)
(* encodeThread takes the first characters of the text the whole buffer    *)
(* decodes to: of a wide tail, with bytes of the block before it.          *)
Copies(c, n) ==
  IF Dir(c) = "encode" /\ KindOf(c, n) = "wide"
  THEN IF IsTail(c, n) THEN {[call |-> c, pos |-> n, intact |-> FALSE]} ELSE {}
  ELSE {OwnBlock(c, n)}

ConstructorMayThrow(c, n) == Dir(c) = "encode" /\ KindOf(c, n) = "wide"

(* A full block waits for an idle worker, the tail does not.               *)
MaySubmit(c) ==
  /\ pc[c] = "submit"
  /\ i[c] < BlocksOf(c)
  /\ IsTail(c, i[c]) \/ Cardinality(running[c]) < PoolSize

Submit(c) ==
  /\ MaySubmit(c)
  /\ \E b \in Copies(c, i[c]) :
       queued' = [queued EXCEPT ![c] = @ \cup {[number |-> i[c], data |-> b]}]
  /\ i' = [i EXCEPT ![c] = @ + 1]
  /\ UNCHANGED <<src, pc, running, table, tn, out>>

(* read or the task's constructor throws.  The exception leaves fileEncode *)
(* at once: the pool keeps its tasks.                                      *)
SubmitThrows(c) ==
  /\ MaySubmit(c)
  /\ ReadMayFail \/ ConstructorMayThrow(c, i[c])
  /\ pc' = [pc EXCEPT ![c] = "failed"]
  /\ UNCHANGED <<src, i, queued, running, table, tn, out>>

(* awaitTermination returns, the table is measured, the output is opened.  *)
PoolIdle(c) == queued[c] = {} /\ running[c] = {}

AwaitDone(c) ==
  /\ pc[c] = "submit" /\ i[c] = BlocksOf(c)
  /\ PoolIdle(c)
  /\ tn' = [tn EXCEPT ![c] = Cardinality(DOMAIN table[Dir(c)])]
  /\ pc' = [pc EXCEPT ![c] = "write"]
  /\ UNCHANGED <<src, i, queued, running, table, out>>

WriteBlock(c) ==
  /\ pc[c] = "write" /\ Len(out[c]) < tn[c]
  /\ Len(out[c]) \in DOMAIN table[Dir(c)]
  /\ out' = [out EXCEPT ![c] = Append(@, table[Dir(c)][Len(@)])]
  /\ UNCHANGED <<src, pc, i, queued, running, table, tn>>

(* get(j) returned null, or the disk failed: the table is left as it is.   *)
WriteFails(c) ==
  /\ pc[c] = "write"
  /\ \/ Len(out[c]) < tn[c] /\ Len(out[c]) \notin DOMAIN table[Dir(c)]
     \/ DiskMayFail
  /\ pc' = [pc EXCEPT ![c] = "failed"]
  /\ UNCHANGED <<src, i, queued, running, table, tn, out>>

(* Mutant of Clear: the table keeps the blocks of the finished call.       *)
ReturnWithoutClear(c) ==
  /\ pc[c] = "write" /\ Len(out[c]) = tn[c]
  /\ pc' = [pc EXCEPT ![c] = "done"]
  /\ UNCHANGED <<src, i, queued, running, table, tn, out>>

Clear(c) ==
  /\ pc[c] = "write" /\ Len(out[c]) = tn[c]
  /\ table' = [table EXCEPT ![Dir(c)] = EmptyTable]
  /\ pc' = [pc EXCEPT ![c] = "done"]
  /\ UNCHANGED <<src, i, queued, running, tn, out>>
-----------------------------------------------------------------------------
(* The workers of call c's pool.  They go on when the call has failed.     *)

Start(c) ==
  /\ Cardinality(running[c]) < PoolSize
  /\ \E t \in queued[c] :
       /\ queued' = [queued EXCEPT ![c] = @ \ {t}]
       /\ running' = [running EXCEPT ![c] = @ \cup {t}]
  /\ UNCHANGED <<src, pc, i, table, tn, out>>

(* Mutant of Put: the first result for a number stays.                     *)
PutIfAbsent(list, n, b) ==
  [k \in DOMAIN list \cup {n} |-> IF k \in DOMAIN list THEN list[k] ELSE b]

Put(list, n, b) ==
  [k \in DOMAIN list \cup {n} |-> IF k = n THEN b ELSE list[k]]

(* The data the worker encrypts: the copy its task was constructed with.   *)
(* Mutant of TaskData: the task kept a reference to the caller's buffer,   *)
(* which holds the block read last.                                        *)
BufferData(c, t) == OwnBlock(c, i[c] - 1)
TaskData(c, t) == t.data

Run(c) ==
  \E t \in running[c] :
    /\ KindOf(c, t.number) # "large"
    /\ table' = [table EXCEPT ![Dir(c)] = Put(@, t.number, TaskData(c, t))]
    /\ running' = [running EXCEPT ![c] = @ \ {t}]
    /\ UNCHANGED <<src, pc, i, queued, tn, out>>

(* The cipher throws and the worker only logs it: nothing enters the table.*)
(* A garbled tail may have become too long for the cipher.                 *)
(* Mutant of RunFails: the worker tries a block the cipher rejects again.  *)
RetriesForever(c) ==
  \E t \in running[c] :
    /\ ~t.data.intact
    /\ running' = [running EXCEPT ![c] = @ \ {t}]
    /\ UNCHANGED <<src, pc, i, queued, table, tn, out>>

RunFails(c) ==
  \E t \in running[c] :
    /\ KindOf(c, t.number) = "large" \/ ~t.data.intact
    /\ running' = [running EXCEPT ![c] = @ \ {t}]
    /\ UNCHANGED <<src, pc, i, queued, table, tn, out>>
-----------------------------------------------------------------------------
Caller(c) == \/ Submit(c) \/ SubmitThrows(c) \/ AwaitDone(c)
             \/ WriteBlock(c) \/ WriteFails(c) \/ Clear(c)
Workers(c) == Start(c) \/ Run(c) \/ RunFails(c)

Next == \E c \in Calls : Begin(c) \/ Caller(c) \/ Workers(c)

Spec == Init /\ [][Next]_vars

(* A request thread that has begun and the workers of a pool are threads   *)
(* the JVM schedules; nothing obliges a user to make a call.               *)
FairSpec == Spec /\ \A c \in Calls : WF_vars(Caller(c)) /\ WF_vars(Workers(c))
-----------------------------------------------------------------------------
(* Type invariant of the calls, their pools and the two static tables.     *)
TypeOK ==
  /\ src \in [Calls -> Sources]
  /\ pc \in [Calls -> Phases]
  /\ i \in [Calls -> Nat]
  /\ queued \in [Calls -> SUBSET Task]
  /\ running \in [Calls -> SUBSET Task]
  /\ DOMAIN table = Directions
  /\ \A d \in Directions : /\ DOMAIN table[d] \subseteq Nat
                           /\ IsFiniteSet(DOMAIN table[d])
                           /\ \A n \in DOMAIN table[d] : table[d][n] \in Block
  /\ tn \in [Calls -> Nat]
  /\ out \in [Calls -> Seq(Block)]

(* However calls interleave, a block never leaves its place: entry n of a  *)
(* table is block n of a file of that direction, and a block written at    *)
(* offset k was block k of its own file (encodeThread copies the shared    *)
(* read buffer before the caller refills it).                              *)
BlocksInPlace ==
  /\ \A d \in Directions : \A n \in DOMAIN table[d] :
       table[d][n].pos = n /\ Dir(table[d][n].call) = d
  /\ \A c \in Calls : \A k \in 1..Len(out[c]) :
       out[c][k].pos = k - 1 /\ Dir(out[c][k].call) = Dir(c)

(* No call of direction d has failed.                                      *)
Untroubled(d) == \A c \in Calls : Dir(c) = d => pc[c] # "failed"

(* As long as no call has failed, a plain file's call returns true only    *)
(* with the whole file, and nothing else, in its output: what uploadDocFile*)
(* relies on when it reports success.  Calls before it may have had blocks *)
(* the cipher rejected, as long as they came back.                         *)
SuccessIsExact ==
  \A c \in Calls : pc[c] = "done" /\ IsPlain(src[c]) /\ Untroubled(Dir(c)) =>
    /\ Len(out[c]) = BlocksOf(c)
    /\ \A k \in 1..BlocksOf(c) : out[c][k] = OwnBlock(c, k - 1)

(* Calls made one after the other: whatever blocks earlier calls that      *)
(* failed left in the table, a call with only plain blocks that returns    *)
(* true has first written its whole file, in order.                        *)
OwnBlocksFirst ==
  \A c \in Calls : pc[c] = "done" /\ IsPlain(src[c]) =>
    /\ Len(out[c]) >= BlocksOf(c)
    /\ \A k \in 1..BlocksOf(c) : out[c][k] = OwnBlock(c, k - 1)

(* Every call that has begun returns or throws, whatever other calls do to *)
(* the table in the meantime.                                              *)
EveryCallReturns ==
  \A c \in Calls : Active(c) ~> pc[c] \in {"done", "failed"}
=============================================================================
