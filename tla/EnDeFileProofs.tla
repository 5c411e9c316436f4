--------------------------- MODULE EnDeFileProofs ---------------------------
(***************************************************************************)
(* Theorems about EnDeFile for any number of calls, any files and any pool *)
(* size.  The argument goes from types, to the place of every block, to    *)
(* what a call that returns true has written.                              *)
(***************************************************************************)
EXTENDS EnDeFile, FiniteSetTheorems, TLAPS

-----------------------------------------------------------------------------
(* Every source has a direction and a sequence of known kinds.             *)
LEMMA SourceTyped ==
  ASSUME TypeOK, NEW c \in Calls
  PROVE  /\ src[c] \in Sources
         /\ Dir(c) \in Directions
         /\ src[c].kinds \in Seq(Kinds)
         /\ BlocksOf(c) \in Nat
BY SourcesAssumption DEF TypeOK, Dir, BlocksOf

(* Whatever a task's constructor yields is a block of the call's own.      *)
LEMMA CopiesTyped ==
  ASSUME NEW c \in Calls, NEW n \in Nat, NEW b \in Copies(c, n)
  PROVE  b \in Block /\ b.pos = n /\ b.call = c
<1>1. \/ b = [call |-> c, pos |-> n, intact |-> FALSE]
      \/ b = [call |-> c, pos |-> n, intact |-> TRUE]
  BY DEF Copies, OwnBlock
<1>2. FALSE \in BOOLEAN /\ TRUE \in BOOLEAN
  OBVIOUS
<1>3. CASE b = [call |-> c, pos |-> n, intact |-> FALSE]
  BY <1>3, <1>2, Zenon DEF Block
<1>4. CASE b = [call |-> c, pos |-> n, intact |-> TRUE]
  BY <1>4, <1>2, Zenon DEF Block
<1> QED
  BY <1>1, <1>3, <1>4

-----------------------------------------------------------------------------
(* TypeOK is an invariant: the state keeps the shape the code gives it.    *)
LEMMA TypeInit == Init => TypeOK
BY FS_EmptySet DEF Init, TypeOK, Phases, EmptyTable

LEMMA TypeStep == TypeOK /\ [Next]_vars => TypeOK'
<1> SUFFICES ASSUME TypeOK, [Next]_vars PROVE TypeOK'
  OBVIOUS
<1> USE DEF TypeOK
<1>1. CASE UNCHANGED vars
  BY <1>1 DEF vars
<1>2. ASSUME NEW c \in Calls, Begin(c) PROVE TypeOK'
  BY <1>2 DEF Begin, Phases
<1>3. ASSUME NEW c \in Calls, Submit(c) PROVE TypeOK'
  <2>1. PICK b \in Copies(c, i[c]) :
          queued' = [queued EXCEPT ![c] = @ \cup {[number |-> i[c], data |-> b]}]
    BY <1>3 DEF Submit
  <2>2. [number |-> i[c], data |-> b] \in Task
    BY CopiesTyped DEF Task
  <2>3. queued' \in [Calls -> SUBSET Task]
    BY <2>1, <2>2
  <2> QED
    BY <1>3, <2>3 DEF Submit
<1>4. ASSUME NEW c \in Calls, SubmitThrows(c) PROVE TypeOK'
  BY <1>4 DEF SubmitThrows, Phases
<1>5. ASSUME NEW c \in Calls, AwaitDone(c) PROVE TypeOK'
  <2>1. Cardinality(DOMAIN table[Dir(c)]) \in Nat
    BY SourceTyped, FS_CardinalityType
  <2> QED
    BY <1>5, <2>1 DEF AwaitDone, Phases
<1>6. ASSUME NEW c \in Calls, WriteBlock(c) PROVE TypeOK'
  BY <1>6, SourceTyped DEF WriteBlock
<1>7. ASSUME NEW c \in Calls, WriteFails(c) PROVE TypeOK'
  BY <1>7 DEF WriteFails, Phases
<1>8. ASSUME NEW c \in Calls, Clear(c) PROVE TypeOK'
  BY <1>8, FS_EmptySet DEF Clear, Phases, EmptyTable
<1>9. ASSUME NEW c \in Calls, Start(c) PROVE TypeOK'
  BY <1>9 DEF Start
<1>10. ASSUME NEW c \in Calls, Run(c) PROVE TypeOK'
  <2>1. PICK t \in running[c] :
          /\ table' = [table EXCEPT ![Dir(c)] = Put(@, t.number, TaskData(c, t))]
          /\ running' = [running EXCEPT ![c] = @ \ {t}]
          /\ UNCHANGED <<src, pc, i, queued, tn, out>>
    BY <1>10 DEF Run
  <2>2. t.number \in Nat /\ TaskData(c, t) \in Block
    BY DEF Task, TaskData
  <2>3. ASSUME NEW d \in Directions
        PROVE  /\ DOMAIN table'[d] \subseteq Nat
               /\ IsFiniteSet(DOMAIN table'[d])
               /\ \A n \in DOMAIN table'[d] : table'[d][n] \in Block
    <3>1. CASE d # Dir(c)
      BY <2>1, <3>1
    <3>2. CASE d = Dir(c)
      <4>1. table'[d] = Put(table[d], t.number, TaskData(c, t))
        BY <2>1, <3>2
      <4>2. IsFiniteSet(DOMAIN table[d] \cup {t.number})
        BY FS_AddElement
      <4>3. DOMAIN table'[d] = DOMAIN table[d] \cup {t.number}
        BY <4>1 DEF Put
      <4>4. ASSUME NEW n \in DOMAIN table'[d] PROVE table'[d][n] \in Block
        BY <2>2, <4>1, <4>3 DEF Put
      <4> QED
        BY <2>2, <4>2, <4>3, <4>4
    <3> QED
      BY <3>1, <3>2
  <2> QED
    BY <2>1, <2>3
<1>11. ASSUME NEW c \in Calls, RunFails(c) PROVE TypeOK'
  BY <1>11 DEF RunFails
<1> QED
  BY <1>1, <1>2, <1>3, <1>4, <1>5, <1>6, <1>7, <1>8, <1>9, <1>10, <1>11
     DEF Next, Caller, Workers

(* The state of calls, pools and tables always has its declared type.      *)
THEOREM TypeCorrect == Spec => []TypeOK
BY TypeInit, TypeStep, PTL DEF Spec

-----------------------------------------------------------------------------
(* Place: no assumption on the files or on how many calls run together.    *)
TasksInPlace ==
  \A c \in Calls : \A t \in queued[c] \cup running[c] :
    t.data.pos = t.number /\ t.data.call = c

PlaceInv == TypeOK /\ TasksInPlace /\ BlocksInPlace

LEMMA PlaceInit == Init => PlaceInv
BY TypeInit DEF Init, PlaceInv, TasksInPlace, BlocksInPlace, EmptyTable

LEMMA PlaceStep == PlaceInv /\ [Next]_vars => PlaceInv'
<1> SUFFICES ASSUME PlaceInv, [Next]_vars PROVE PlaceInv'
  OBVIOUS
<1>0. TypeOK /\ TypeOK'
  BY TypeStep DEF PlaceInv
<1>s. src' = src
  BY DEF Next, vars, Caller, Workers, Begin, Submit, SubmitThrows, AwaitDone,
         WriteBlock, WriteFails, Clear, Start, Run, RunFails
<1> USE <1>0, <1>s DEF PlaceInv, Dir
<1>1. CASE UNCHANGED vars
  BY <1>1 DEF vars, TasksInPlace, BlocksInPlace
<1>2. ASSUME NEW c \in Calls, Begin(c) \/ SubmitThrows(c) \/ AwaitDone(c) \/ WriteFails(c)
      PROVE  PlaceInv'
  BY <1>2 DEF Begin, SubmitThrows, AwaitDone, WriteFails, TasksInPlace, BlocksInPlace
<1>3. ASSUME NEW c \in Calls, Submit(c) PROVE PlaceInv'
  <2>1. PICK b \in Copies(c, i[c]) :
          queued' = [queued EXCEPT ![c] = @ \cup {[number |-> i[c], data |-> b]}]
    BY <1>3 DEF Submit
  <2>2. b.pos = i[c] /\ b.call = c
    BY CopiesTyped DEF TypeOK
  <2>3. TasksInPlace'
    BY <1>3, <2>1, <2>2 DEF Submit, TasksInPlace, TypeOK
  <2> QED
    BY <1>3, <2>3 DEF Submit, BlocksInPlace
<1>4. ASSUME NEW c \in Calls, WriteBlock(c) PROVE PlaceInv'
  <2>1. TasksInPlace'
    BY <1>4 DEF WriteBlock, TasksInPlace
  <2>2. /\ table[Dir(c)][Len(out[c])].pos = Len(out[c])
        /\ Dir(table[Dir(c)][Len(out[c])].call) = Dir(c)
        /\ table[Dir(c)][Len(out[c])] \in Block
        /\ out[c] \in Seq(Block)
    BY <1>4, SourceTyped DEF WriteBlock, BlocksInPlace, TypeOK
  <2>3. out' = [out EXCEPT ![c] = Append(@, table[Dir(c)][Len(@)])]
    BY <1>4 DEF WriteBlock
  <2>4. ASSUME NEW d \in Calls, NEW k \in 1..Len(out'[d])
        PROVE  out'[d][k].pos = k - 1 /\ src[out'[d][k].call].dir = src[d].dir
    <3>1. CASE d = c /\ k = Len(out[c]) + 1
      <4>1. out'[d][k] = table[Dir(c)][Len(out[c])]
        BY <2>2, <2>3, <3>1 DEF TypeOK
      <4>2. table[Dir(c)][Len(out[c])].call \in Calls
        BY <2>2 DEF Block
      <4> QED
        BY <2>2, <3>1, <4>1, <4>2
    <3>2. CASE ~(d = c /\ k = Len(out[c]) + 1)
      <4>0. out[d] \in Seq(Block)
        BY DEF TypeOK
      <4>1. k \in 1..Len(out[d]) /\ out'[d][k] = out[d][k]
        <5>1. CASE d # c
          BY <2>3, <5>1 DEF TypeOK
        <5>2. CASE d = c
          BY <2>2, <2>3, <3>2, <4>0, <5>2 DEF TypeOK
        <5> QED
          BY <5>1, <5>2
      <4>2. out[d][k].call \in Calls
        <5>1. out[d][k] \in Block
          BY <4>0, <4>1
        <5> QED
          BY <5>1 DEF Block
      <4> QED
        BY <4>1, <4>2 DEF BlocksInPlace
    <3> QED
      BY <3>1, <3>2
  <2>5. ASSUME NEW d \in Directions, NEW n \in DOMAIN table'[d]
        PROVE  table'[d][n].pos = n /\ src[table'[d][n].call].dir = d
    <3>1. table' = table
      BY <1>4 DEF WriteBlock
    <3>2. table[d][n].call \in Calls
      BY <3>1 DEF TypeOK, Block
    <3> QED
      BY <3>1, <3>2 DEF BlocksInPlace
  <2> QED
    BY <2>1, <2>4, <2>5 DEF BlocksInPlace
<1>5. ASSUME NEW c \in Calls, Clear(c) PROVE PlaceInv'
  BY <1>5 DEF Clear, TasksInPlace, BlocksInPlace, EmptyTable, TypeOK
<1>6. ASSUME NEW c \in Calls, Start(c) PROVE PlaceInv'
  BY <1>6 DEF Start, TasksInPlace, BlocksInPlace, TypeOK
<1>7. ASSUME NEW c \in Calls, Run(c) PROVE PlaceInv'
  <2>1. PICK t \in running[c] :
          /\ table' = [table EXCEPT ![Dir(c)] = Put(@, t.number, TaskData(c, t))]
          /\ running' = [running EXCEPT ![c] = @ \ {t}]
          /\ UNCHANGED <<src, pc, i, queued, tn, out>>
    BY <1>7 DEF Run
  <2>2. TasksInPlace'
    BY <2>1 DEF TasksInPlace, TypeOK
  <2>3. TaskData(c, t).pos = t.number /\ TaskData(c, t).call = c
    BY DEF TasksInPlace, TaskData
  <2>4. ASSUME NEW d \in Directions, NEW n \in DOMAIN table'[d]
        PROVE  table'[d][n].pos = n /\ src[table'[d][n].call].dir = d
    <3>1. CASE d = Dir(c) /\ n = t.number
      <4>1. table'[d][n] = TaskData(c, t)
        BY <2>1, <3>1, SourceTyped DEF Put, TypeOK
      <4> QED
        BY <2>3, <3>1, <4>1
    <3>2. CASE ~(d = Dir(c) /\ n = t.number)
      <4>1. n \in DOMAIN table[d] /\ table'[d][n] = table[d][n]
        BY <2>1, <3>2, SourceTyped DEF Put, TypeOK
      <4> QED
        BY <4>1 DEF BlocksInPlace
    <3> QED
      BY <3>1, <3>2
  <2> QED
    BY <2>1, <2>2, <2>4 DEF BlocksInPlace
<1>8. ASSUME NEW c \in Calls, RunFails(c) PROVE PlaceInv'
  BY <1>8 DEF RunFails, TasksInPlace, BlocksInPlace, TypeOK
<1> QED
  BY <1>1, <1>2, <1>3, <1>4, <1>5, <1>6, <1>7, <1>8 DEF Next, Caller, Workers

(* Blocks never change places, whatever the interleaving of calls, their   *)
(* workers and their failures.                                             *)
THEOREM BlocksStayInPlace == Spec => []BlocksInPlace
BY PlaceInit, PlaceStep, PTL DEF Spec, PlaceInv
-----------------------------------------------------------------------------
(* Calls of one direction made one after the other, files that can be read *)
(* and whose blocks the constructors accept: blocks may still be rejected  *)
(* by the cipher, and calls that fail may leave any part of their file in  *)
(* the table.                                                              *)
OneAtATime == MaxActive = 1
NoThrow == /\ ~ReadMayFail
           /\ \A s \in Sources : \A k \in 1..Len(s.kinds) : s.kinds[k] # "wide"

Exclusive ==
  \A c, d \in Calls : Active(c) /\ Active(d) /\ Dir(c) = Dir(d) => c = d

OthersQuiet == \A c \in Calls : pc[c] # "submit" => queued[c] = {} /\ running[c] = {}

TasksOwn ==
  \A c \in Calls : \A t \in queued[c] \cup running[c] :
    t.number < i[c] /\ t.data = OwnBlock(c, t.number)

Counted ==
  \A c \in Calls : /\ i[c] <= BlocksOf(c)
                   /\ pc[c] = "idle" => i[c] = 0
                   /\ pc[c] \in {"idle", "submit"} => out[c] = <<>>
                   /\ pc[c] = "write" => Len(out[c]) <= tn[c]

Stored(c, n) == /\ n \in DOMAIN table[Dir(c)]
                /\ table[Dir(c)][n] = OwnBlock(c, n)
InPool(c, n) == \E t \in queued[c] \cup running[c] : t.number = n

(* Every block submitted is in the pool or in the table, and every block   *)
(* written at an offset of the file is the file's own.                     *)
Faithful(c) ==
  /\ pc[c] = "submit" => \A n \in 0..(i[c] - 1) : InPool(c, n) \/ Stored(c, n)
  /\ pc[c] = "write" =>
       /\ BlocksOf(c) <= tn[c]
       /\ \A n \in 0..(BlocksOf(c) - 1) : Stored(c, n)
       /\ \A k \in 1..Len(out[c]) : k <= BlocksOf(c) => out[c][k] = OwnBlock(c, k - 1)
  /\ pc[c] = "done" =>
       /\ Len(out[c]) >= BlocksOf(c)
       /\ \A k \in 1..BlocksOf(c) : out[c][k] = OwnBlock(c, k - 1)

NoneLost == \A c \in Calls : IsPlain(src[c]) => Faithful(c)

OwnInv == TypeOK /\ Exclusive /\ OthersQuiet /\ TasksOwn /\ Counted /\ NoneLost

LEMMA SrcFixed == [Next]_vars => src' = src
BY DEF Next, vars, Caller, Workers, Begin, Submit, SubmitThrows, AwaitDone,
       WriteBlock, WriteFails, Clear, Start, Run, RunFails

(* A call begins only when no other of its direction is in progress.       *)
LEMMA BeginAlone ==
  ASSUME OneAtATime, TypeOK, NEW c \in Calls, Begin(c), NEW d \in Calls, Dir(d) = Dir(c)
  PROVE  ~Active(d)
<1> DEFINE S == {e \in Calls : Active(e) /\ Dir(e) = Dir(c)}
<1>1. IsFiniteSet(S)
  BY CallsAssumption, FS_Subset
<1>2. Cardinality(S) \in Nat
  BY <1>1, FS_CardinalityType
<1>3. Cardinality(S) < 1
  BY DEF Begin, OneAtATime
<1>4. S = {}
  BY <1>1, <1>2, <1>3, FS_EmptySet
<1> QED
  BY <1>4

LEMMA ExclusiveStep ==
  ASSUME OneAtATime, TypeOK, Exclusive, [Next]_vars
  PROVE  Exclusive'
<1>1. src' = src
  BY SrcFixed
<1>2. ASSUME NEW c \in Calls, Begin(c) PROVE Exclusive'
  <2>1. \A d \in Calls : d # c => pc'[d] = pc[d]
    BY <1>2 DEF Begin, TypeOK
  <2>2. \A d \in Calls : d # c /\ Active(d) => Dir(d) # Dir(c)
    BY <1>2, BeginAlone
  <2> QED
    BY <1>1, <2>1, <2>2 DEF Exclusive, Active, Dir
<1>3. ASSUME NEW c \in Calls, Caller(c) \/ Workers(c) PROVE Exclusive'
  <2>1. \A d \in Calls : Active(d)' => Active(d)
    BY <1>3 DEF Caller, Workers, Submit, MaySubmit, SubmitThrows, AwaitDone,
       WriteBlock, WriteFails, Clear, Start, Run, RunFails, Active, TypeOK
  <2> QED
    BY <1>1, <2>1 DEF Exclusive, Dir
<1>4. CASE UNCHANGED vars
  BY <1>4 DEF vars, Exclusive, Active, Dir
<1> QED
  BY <1>2, <1>3, <1>4 DEF Next

(* Without wide blocks a constructor never throws and never garbles.       *)
LEMMA CopiesExact ==
  ASSUME NoThrow, TypeOK, NEW c \in Calls, MaySubmit(c)
  PROVE  Copies(c, i[c]) = {OwnBlock(c, i[c])} /\ ~ConstructorMayThrow(c, i[c])
<1>1. i[c] + 1 \in 1..Len(src[c].kinds)
  BY SourceTyped DEF MaySubmit, BlocksOf, TypeOK
<1>2. KindOf(c, i[c]) # "wide"
  BY <1>1, SourceTyped DEF NoThrow, KindOf
<1> QED
  BY <1>2 DEF Copies, ConstructorMayThrow

LEMMA PoolStep ==
  ASSUME NoThrow, TypeOK, OthersQuiet, TasksOwn, Counted, [Next]_vars
  PROVE  OthersQuiet' /\ TasksOwn' /\ Counted'
<1> USE DEF TypeOK, OthersQuiet, TasksOwn, Counted, BlocksOf
<1>s. src' = src /\ TypeOK'
  BY SrcFixed, TypeStep
<1> USE <1>s
<1>1. CASE UNCHANGED vars
  BY <1>1 DEF vars
<1>2. ASSUME NEW c \in Calls, Begin(c) PROVE OthersQuiet' /\ TasksOwn' /\ Counted'
  BY <1>2 DEF Begin
<1>3. ASSUME NEW c \in Calls, Submit(c) PROVE OthersQuiet' /\ TasksOwn' /\ Counted'
  <2>1. PICK b \in Copies(c, i[c]) :
          queued' = [queued EXCEPT ![c] = @ \cup {[number |-> i[c], data |-> b]}]
    BY <1>3 DEF Submit
  <2>2. b = OwnBlock(c, i[c])
    BY <1>3, <2>1, CopiesExact DEF Submit
  <2>3. /\ i' = [i EXCEPT ![c] = @ + 1] /\ i[c] < BlocksOf(c) /\ pc[c] = "submit"
        /\ UNCHANGED <<src, pc, running, table, tn, out>>
    BY <1>3 DEF Submit, MaySubmit
  <2>4. OthersQuiet'
    BY <2>1, <2>3
  <2>5. TasksOwn'
    <3>1. ASSUME NEW d \in Calls, NEW t \in queued'[d] \cup running'[d]
          PROVE  t.number < i'[d] /\ t.data = OwnBlock(d, t.number)
      <4>1. CASE t \in queued[d] \cup running[d]
        <5>1. t.number < i[d] /\ t.data = OwnBlock(d, t.number) /\ t.number \in Nat
          BY <4>1 DEF Task
        <5> QED
          BY <2>3, <5>1
      <4>2. CASE d = c /\ t = [number |-> i[c], data |-> b]
        BY <2>2, <2>3, <4>2
      <4> QED
        BY <2>1, <2>3, <4>1, <4>2
    <3> QED
      BY <3>1 DEF OwnBlock
  <2>6. Counted'
    BY <2>3, SourceTyped
  <2> QED
    BY <2>4, <2>5, <2>6
<1>4. ASSUME NEW c \in Calls, SubmitThrows(c) PROVE FALSE
  BY <1>4, CopiesExact DEF SubmitThrows, NoThrow
<1>5. ASSUME NEW c \in Calls, AwaitDone(c) PROVE OthersQuiet' /\ TasksOwn' /\ Counted'
  BY <1>5 DEF AwaitDone, PoolIdle
<1>6. ASSUME NEW c \in Calls, WriteBlock(c) PROVE OthersQuiet' /\ TasksOwn' /\ Counted'
  <2>1. Len(out'[c]) = Len(out[c]) + 1 /\ out[c] \in Seq(Block)
    BY <1>6 DEF WriteBlock
  <2>2. \A d \in Calls : d # c => out'[d] = out[d]
    BY <1>6 DEF WriteBlock
  <2>3. OthersQuiet' /\ TasksOwn'
    BY <1>6 DEF WriteBlock, OwnBlock
  <2> QED
    BY <1>6, <2>1, <2>2, <2>3 DEF WriteBlock
<1>7. ASSUME NEW c \in Calls, WriteFails(c) \/ Clear(c)
      PROVE  OthersQuiet' /\ TasksOwn' /\ Counted'
  BY <1>7 DEF WriteFails, Clear
<1>8. ASSUME NEW c \in Calls, Workers(c) PROVE OthersQuiet' /\ TasksOwn' /\ Counted'
  <2>1. /\ UNCHANGED <<src, pc, i, tn, out>>
        /\ \A d \in Calls : d # c => queued'[d] = queued[d] /\ running'[d] = running[d]
        /\ queued'[c] \cup running'[c] \subseteq queued[c] \cup running[c]
    BY <1>8 DEF Workers, Start, Run, RunFails
  <2>2. OthersQuiet'
    BY <2>1
  <2>3. TasksOwn'
    BY <2>1 DEF OwnBlock
  <2>4. Counted'
    BY <2>1
  <2> QED
    BY <2>2, <2>3, <2>4
<1> QED
  BY <1>1, <1>2, <1>3, <1>4, <1>5, <1>6, <1>7, <1>8 DEF Next, Caller

(* A step of c loses nothing of another call: when it changes a table, no  *)
(* other call of that direction is in progress.                            *)
LEMMA OthersKeep ==
  ASSUME TypeOK, Exclusive, NoneLost, src' = src,
         NEW c \in Calls, NEW d \in Calls, d # c, IsPlain(src[d]),
         Active(c) \/ UNCHANGED table,
         \A e \in Directions : e # Dir(c) => table'[e] = table[e],
         /\ pc'[d] = pc[d] /\ i'[d] = i[d] /\ tn'[d] = tn[d] /\ out'[d] = out[d]
         /\ queued'[d] = queued[d] /\ running'[d] = running[d]
  PROVE  Faithful(d)'
<1>1. Dir(d) \in Directions /\ BlocksOf(d)' = BlocksOf(d) /\ Dir(d)' = Dir(d)
  BY SourceTyped DEF BlocksOf, Dir
<1>2. Active(d) => table'[Dir(d)] = table[Dir(d)]
  BY <1>1 DEF Exclusive
<1>3. ASSUME NEW n, Active(d) PROVE Stored(d, n)' <=> Stored(d, n)
  BY <1>1, <1>2, <1>3 DEF Stored
<1>4. ASSUME NEW n PROVE InPool(d, n)' <=> InPool(d, n)
  BY DEF InPool
<1> QED
  BY <1>1, <1>3, <1>4 DEF NoneLost, Faithful, Active

(* The same for the call that takes the step.                              *)
LEMMA OwnKeep ==
  ASSUME OneAtATime, NoThrow, OwnInv, NEW c \in Calls, IsPlain(src[c]),
         Begin(c) \/ Caller(c) \/ Workers(c), src' = src
  PROVE  Faithful(c)'
<1> USE DEF OwnInv
<1>0. /\ Dir(c) \in Directions /\ BlocksOf(c) \in Nat /\ i[c] \in Nat
      /\ BlocksOf(c)' = BlocksOf(c) /\ Dir(c)' = Dir(c)
      /\ Faithful(c)
  BY SourceTyped DEF BlocksOf, Dir, NoneLost, TypeOK
<1>1. CASE Begin(c)
  BY <1>0, <1>1 DEF Begin, Faithful, Counted, TypeOK
<1>2. CASE Submit(c)
  <2>1. \A n \in 0..(i[c] - 1) : InPool(c, n)' \/ Stored(c, n)'
    BY <1>0, <1>2 DEF Submit, MaySubmit, Faithful, InPool, Stored, TypeOK
  <2>2. \E t \in queued'[c] : t.number = i[c]
    <3>1. PICK b : queued' = [queued EXCEPT ![c] = @ \cup {[number |-> i[c], data |-> b]}]
      BY <1>2 DEF Submit
    <3>2. [number |-> i[c], data |-> b] \in queued'[c]
      BY <3>1 DEF TypeOK
    <3> QED
      BY <3>2
  <2>3. i'[c] = i[c] + 1 /\ pc'[c] = "submit"
    BY <1>2 DEF Submit, MaySubmit, TypeOK
  <2> QED
    BY <1>0, <2>1, <2>2, <2>3 DEF Faithful, InPool
<1>3. CASE SubmitThrows(c)
  BY <1>3, CopiesExact DEF SubmitThrows, NoThrow
<1>4. CASE AwaitDone(c)
  <2> DEFINE T == DOMAIN table[Dir(c)]
  <2>1. \A n \in 0..(BlocksOf(c) - 1) : Stored(c, n)
    BY <1>0, <1>4 DEF AwaitDone, PoolIdle, Faithful, InPool
  <2>2. 0..(BlocksOf(c) - 1) \subseteq T
    BY <2>1 DEF Stored
  <2>3. Cardinality(0..(BlocksOf(c) - 1)) = BlocksOf(c)
    <3> DEFINE m == BlocksOf(c) - 1
    <3>1. m \in Int /\ 0 \in Int
      BY <1>0
    <3> HIDE DEF m
    <3>2. Cardinality(0..m) = IF 0 > m THEN 0 ELSE m - 0 + 1
      BY <3>1, FS_Interval
    <3> QED
      BY <1>0, <3>2 DEF m
  <2>4. BlocksOf(c) <= Cardinality(T)
    BY <1>0, <2>2, <2>3, FS_Subset DEF TypeOK
  <2>5. /\ pc'[c] = "write" /\ tn'[c] = Cardinality(T) /\ out'[c] = <<>>
        /\ table' = table
    BY <1>4 DEF AwaitDone, Counted, TypeOK
  <2>6. \A n \in 0..(BlocksOf(c) - 1) : Stored(c, n)'
    BY <1>0, <2>1, <2>5 DEF Stored
  <2> QED
    BY <1>0, <2>4, <2>5, <2>6 DEF Faithful
<1>5. CASE WriteBlock(c)
  <2> DEFINE b == table[Dir(c)][Len(out[c])]
  <2>1. /\ out[c] \in Seq(Block) /\ b \in Block /\ out'[c] = Append(out[c], b)
        /\ pc[c] = "write" /\ pc'[c] = "write" /\ tn'[c] = tn[c] /\ table' = table
    BY <1>0, <1>5 DEF WriteBlock, TypeOK
  <2>2. Len(out[c]) < BlocksOf(c) => b = OwnBlock(c, Len(out[c]))
    BY <1>0, <2>1 DEF Faithful, Stored
  <2>3. ASSUME NEW k \in 1..Len(out'[c]), k <= BlocksOf(c)
        PROVE  out'[c][k] = OwnBlock(c, k - 1)
    <3>1. CASE k = Len(out[c]) + 1
      <4>1. out'[c][k] = b /\ Len(out[c]) \in Nat /\ Len(out[c]) < BlocksOf(c)
        BY <1>0, <2>1, <2>3, <3>1
      <4>2. k - 1 = Len(out[c])
        BY <3>1, <4>1
      <4> QED
        BY <2>2, <4>1, <4>2
    <3>2. CASE k \in 1..Len(out[c])
      <4>1. out'[c][k] = out[c][k]
        BY <2>1, <3>2
      <4>2. out[c][k] = OwnBlock(c, k - 1)
        BY <1>0, <2>1, <2>3, <3>2 DEF Faithful
      <4> QED
        BY <4>1, <4>2
    <3> QED
      BY <2>1, <3>1, <3>2
  <2> QED
    BY <1>0, <2>1, <2>3 DEF Faithful, Stored, OwnBlock
<1>6. CASE WriteFails(c)
  BY <1>6 DEF WriteFails, Faithful, TypeOK
<1>7. CASE Clear(c)
  <2>1. /\ pc[c] = "write" /\ pc'[c] = "done" /\ Len(out[c]) = tn[c] /\ out' = out
    BY <1>7 DEF Clear, TypeOK
  <2>2. /\ BlocksOf(c) <= Len(out[c]) /\ Len(out[c]) \in Nat
        /\ \A k \in 1..Len(out[c]) : k <= BlocksOf(c) => out[c][k] = OwnBlock(c, k - 1)
    BY <1>0, <2>1 DEF Faithful, TypeOK
  <2> QED
    BY <1>0, <2>1, <2>2 DEF Faithful, OwnBlock
<1>8. CASE Start(c)
  BY <1>0, <1>8 DEF Start, Faithful, InPool, Stored, OwnBlock, OthersQuiet, TypeOK
<1>9. CASE Run(c)
  <2>1. PICK t \in running[c] :
          /\ table' = [table EXCEPT ![Dir(c)] = Put(@, t.number, TaskData(c, t))]
          /\ running' = [running EXCEPT ![c] = @ \ {t}]
          /\ UNCHANGED <<src, pc, i, queued, tn, out>>
    BY <1>9 DEF Run
  <2>2. pc[c] = "submit" /\ TaskData(c, t) = OwnBlock(c, t.number)
    BY DEF OthersQuiet, TasksOwn, TaskData
  <2>3. table'[Dir(c)] = Put(table[Dir(c)], t.number, OwnBlock(c, t.number))
    BY <1>0, <2>1, <2>2 DEF TypeOK
  <2>4. \A n : Stored(c, n) \/ n = t.number => Stored(c, n)'
    BY <1>0, <2>3 DEF Stored, Put, OwnBlock
  <2>5. \A n : InPool(c, n) => InPool(c, n)' \/ n = t.number
    BY <2>1 DEF InPool, TypeOK
  <2> QED
    BY <1>0, <2>1, <2>2, <2>4, <2>5 DEF Faithful
<1>10. CASE RunFails(c)
  <2>1. PICK t \in running[c] : KindOf(c, t.number) = "large" \/ ~t.data.intact
    BY <1>10 DEF RunFails
  <2>2. t.number \in 0..(BlocksOf(c) - 1) /\ t.data = OwnBlock(c, t.number)
    BY <1>0 DEF TasksOwn, Counted, TypeOK, Task
  <2>3. KindOf(c, t.number) = "plain"
    BY <1>0, <2>2 DEF KindOf, IsPlain, BlocksOf
  <2> QED
    BY <2>1, <2>2, <2>3 DEF OwnBlock
<1> QED
  BY <1>1, <1>2, <1>3, <1>4, <1>5, <1>6, <1>7, <1>8, <1>9, <1>10 DEF Caller, Workers

LEMMA NoneLostStep ==
  ASSUME OneAtATime, NoThrow, OwnInv, [Next]_vars
  PROVE  NoneLost'
<1> USE DEF OwnInv
<1>s. src' = src
  BY SrcFixed
<1>1. CASE UNCHANGED vars
  BY <1>1 DEF vars, NoneLost, Faithful, InPool, Stored, BlocksOf, Dir, OwnBlock
<1>2. ASSUME NEW c \in Calls, Begin(c) \/ Caller(c) \/ Workers(c),
             NEW d \in Calls, IsPlain(src[d])
      PROVE  Faithful(d)'
  <2>1. CASE d = c
    BY <1>s, <1>2, <2>1, OwnKeep
  <2>2. CASE d # c
    <3>1. /\ pc'[d] = pc[d] /\ i'[d] = i[d] /\ tn'[d] = tn[d] /\ out'[d] = out[d]
          /\ queued'[d] = queued[d] /\ running'[d] = running[d]
      BY <1>2, <2>2 DEF Begin, Caller, Workers, Submit, SubmitThrows, AwaitDone,
         WriteBlock, WriteFails, Clear, Start, Run, RunFails, TypeOK
    <3>2. Active(c) \/ UNCHANGED table
      BY <1>2 DEF Begin, Caller, Workers, Submit, SubmitThrows, AwaitDone,
         WriteBlock, WriteFails, Clear, Start, Run, RunFails, Active, OthersQuiet
    <3>3. \A e \in Directions : e # Dir(c) => table'[e] = table[e]
      BY <1>2 DEF Begin, Caller, Workers, Submit, SubmitThrows, AwaitDone,
         WriteBlock, WriteFails, Clear, Start, Run, RunFails, TypeOK
    <3> QED
      BY <1>s, <1>2, <2>2, <3>1, <3>2, <3>3, OthersKeep
  <2> QED
    BY <2>1, <2>2
<1> QED
  BY <1>s, <1>1, <1>2 DEF Next, NoneLost, IsPlain

LEMMA OwnInvInit == Init => OwnInv
BY TypeInit, SourcesAssumption
   DEF Init, OwnInv, Exclusive, Active, OthersQuiet, TasksOwn, Counted, NoneLost,
       Faithful, BlocksOf

(* Requests served one at a time, their files readable and without wide    *)
(* blocks: a plain file is written whole and in order before anything else,*)
(* however many earlier calls failed and whatever they left in the table.  *)
THEOREM PlainFileWritten ==
  ASSUME OneAtATime, NoThrow
  PROVE  Spec => []OwnBlocksFirst
<1>1. OwnInv /\ [Next]_vars => OwnInv'
  BY TypeStep, ExclusiveStep, PoolStep, NoneLostStep DEF OwnInv
<1>2. OwnInv => OwnBlocksFirst
  BY DEF OwnInv, NoneLost, Faithful, OwnBlocksFirst
<1> QED
  BY OwnInvInit, <1>1, <1>2, PTL DEF Spec

-----------------------------------------------------------------------------
(* As long as no call has failed the table is empty between calls, and     *)
(* what a call writes is exactly its file.                                 *)
Bounded(d) == \A c \in Calls : Dir(c) = d /\ Active(c) =>
                 DOMAIN table[d] \subseteq 0..(BlocksOf(c) - 1)
Emptied(d) == (\A c \in Calls : Dir(c) = d => ~Active(c)) => DOMAIN table[d] = {}
NothingMore(c) == /\ pc[c] = "write" => tn[c] <= BlocksOf(c)
                  /\ pc[c] = "done" => Len(out[c]) <= BlocksOf(c)
Tidy(d) == Untroubled(d) =>
             /\ Bounded(d) /\ Emptied(d)
             /\ \A c \in Calls : Dir(c) = d => NothingMore(c)

ExactInv == OwnInv /\ \A d \in Directions : Tidy(d)

(* Until a call fails the table holds no more than the file in hand.       *)
LEMMA ExactStep ==
  ASSUME OneAtATime, NoThrow, ExactInv, [Next]_vars, OwnInv'
  PROVE  ExactInv'
<1> USE DEF ExactInv, OwnInv
<1>s. /\ src' = src /\ \A c \in Calls : Dir(c)' = Dir(c) /\ BlocksOf(c)' = BlocksOf(c)
  BY SrcFixed DEF Dir, BlocksOf
<1>0. \A c \in Calls : BlocksOf(c) \in Nat /\ Dir(c) \in Directions
  BY SourceTyped
<1>1. CASE UNCHANGED vars
  BY <1>s, <1>1 DEF vars, Tidy, Untroubled, NothingMore, Bounded, Emptied, Active
<1>2. ASSUME NEW c \in Calls, Begin(c), NEW d \in Directions PROVE Tidy(d)'
  <2>1. /\ UNCHANGED <<table, tn, out>> /\ pc[c] = "idle" /\ pc'[c] \in {"failed", "submit"}
        /\ \A e \in Calls : e # c => pc'[e] = pc[e]
    BY <1>2 DEF Begin, TypeOK
  <2>2. ASSUME Untroubled(d)' PROVE Untroubled(d)
    BY <1>s, <2>1, <2>2 DEF Untroubled
  <2>3. CASE Dir(c) = d
    <3>1. Untroubled(d) => DOMAIN table[d] = {}
      BY <1>0, <1>2, <2>3, BeginAlone DEF Tidy, Emptied
    <3>2. Untroubled(d)' => pc'[c] = "submit"
      BY <1>s, <2>1, <2>3 DEF Untroubled
    <3> QED
      BY <1>s, <2>1, <2>2, <2>3, <3>1, <3>2
         DEF Tidy, NothingMore, Bounded, Emptied, Active
  <2>4. CASE Dir(c) # d
    BY <1>s, <2>1, <2>2, <2>4 DEF Tidy, NothingMore, Bounded, Emptied, Active
  <2> QED
    BY <2>3, <2>4
<1>3. ASSUME NEW c \in Calls, Submit(c) \/ Start(c) \/ RunFails(c), NEW d \in Directions
      PROVE  Tidy(d)'
  <2>1. UNCHANGED <<table, tn, out, pc>>
    BY <1>3 DEF Submit, Start, RunFails
  <2> QED
    BY <1>s, <2>1 DEF Tidy, Untroubled, NothingMore, Bounded, Emptied, Active
<1>4. ASSUME NEW c \in Calls, SubmitThrows(c) PROVE FALSE
  BY <1>4, CopiesExact DEF SubmitThrows, NoThrow
<1>5. ASSUME NEW c \in Calls, AwaitDone(c), NEW d \in Directions PROVE Tidy(d)'
  <2> DEFINE m == BlocksOf(c) - 1
  <2>0. m \in Int /\ 0 \in Int
    BY <1>0
  <2> HIDE DEF m
  <2>5. /\ UNCHANGED <<table, out>> /\ pc[c] = "submit" /\ pc'[c] = "write"
        /\ tn'[c] = Cardinality(DOMAIN table[Dir(c)])
        /\ \A e \in Calls : e # c => pc'[e] = pc[e] /\ tn'[e] = tn[e]
    BY <1>5 DEF AwaitDone, TypeOK
  <2>1. ASSUME Untroubled(d)', Dir(c) = d PROVE Cardinality(DOMAIN table[d]) <= BlocksOf(c)
    <3>0. Untroubled(d)
      BY <1>s, <2>1, <2>5 DEF Untroubled
    <3>1. DOMAIN table[d] \subseteq 0..m
      BY <1>0, <2>1, <2>5, <3>0 DEF Active, Tidy, Bounded, m
    <3>2. IsFiniteSet(0..m) /\ Cardinality(0..m) = IF 0 > m THEN 0 ELSE m - 0 + 1
      BY <2>0, FS_Interval
    <3>3. Cardinality(DOMAIN table[d]) <= Cardinality(0..m)
      BY <3>1, <3>2, FS_Subset
    <3> QED
      BY <1>0, <2>0, <3>2, <3>3 DEF m
  <2> QED
    BY <1>s, <2>1, <2>5 DEF Tidy, Untroubled, NothingMore, Bounded, Emptied, Active
<1>6. ASSUME NEW c \in Calls, WriteBlock(c), NEW d \in Directions PROVE Tidy(d)'
  <2>1. /\ UNCHANGED <<table, pc, tn>> /\ pc[c] = "write"
        /\ \A e \in Calls : e # c => out'[e] = out[e]
    BY <1>6 DEF WriteBlock, TypeOK
  <2> QED
    BY <1>s, <2>1 DEF Tidy, Untroubled, NothingMore, Bounded, Emptied, Active
<1>7. ASSUME NEW c \in Calls, WriteFails(c), NEW d \in Directions PROVE Tidy(d)'
  <2>1. /\ UNCHANGED <<table, tn, out>> /\ pc'[c] = "failed"
        /\ \A e \in Calls : e # c => pc'[e] = pc[e]
    BY <1>7 DEF WriteFails, TypeOK
  <2>2. Untroubled(d)' => Dir(c) # d /\ Untroubled(d)
    BY <1>s, <2>1 DEF Untroubled
  <2> QED
    BY <1>s, <2>1, <2>2 DEF Tidy, NothingMore, Bounded, Emptied, Active
<1>8. ASSUME NEW c \in Calls, Clear(c), NEW d \in Directions PROVE Tidy(d)'
  <2>1. /\ UNCHANGED <<tn, out>> /\ pc[c] = "write" /\ pc'[c] = "done"
        /\ Len(out[c]) = tn[c]
        /\ \A e \in Calls : e # c => pc'[e] = pc[e]
        /\ DOMAIN table'[Dir(c)] = {}
        /\ \A e \in Directions : e # Dir(c) => table'[e] = table[e]
    BY <1>0, <1>8 DEF Clear, EmptyTable, TypeOK
  <2>2. Untroubled(d)' => Untroubled(d)
    BY <1>s, <2>1 DEF Untroubled
  <2> QED
    BY <1>s, <2>1, <2>2 DEF Tidy, NothingMore, Bounded, Emptied, Active
<1>9. ASSUME NEW c \in Calls, Run(c), NEW d \in Directions PROVE Tidy(d)'
  <2>1. PICK t \in running[c] :
          /\ table' = [table EXCEPT ![Dir(c)] = Put(@, t.number, TaskData(c, t))]
          /\ UNCHANGED <<src, pc, i, queued, tn, out>>
    BY <1>9 DEF Run
  <2>2. t.number \in 0..(BlocksOf(c) - 1) /\ Active(c)
    BY <1>0 DEF TasksOwn, OthersQuiet, Counted, Active, TypeOK, Task
  <2>3. /\ DOMAIN table'[Dir(c)] = DOMAIN table[Dir(c)] \cup {t.number}
        /\ \A e \in Directions : e # Dir(c) => table'[e] = table[e]
    BY <1>0, <2>1 DEF Put, TypeOK
  <2> QED
    BY <1>s, <2>1, <2>2, <2>3
       DEF Tidy, Untroubled, NothingMore, Bounded, Emptied, Active, Exclusive
<1> QED
  BY <1>1, <1>2, <1>3, <1>4, <1>5, <1>6, <1>7, <1>8, <1>9 DEF Next, Caller, Workers

(* Requests served one at a time, their files readable and without wide    *)
(* blocks: until some call fails, every call on a plain file that returns  *)
(* true has written its file, the whole file, and no more.                 *)
THEOREM PlainFileExact ==
  ASSUME OneAtATime, NoThrow
  PROVE  Spec => []SuccessIsExact
<1>1. Init => ExactInv
  BY OwnInvInit
     DEF ExactInv, Init, Tidy, Untroubled, Bounded, Emptied, NothingMore, Active, EmptyTable,
         Directions
<1>2. ExactInv /\ [Next]_vars => ExactInv'
  BY TypeStep, ExclusiveStep, PoolStep, NoneLostStep, ExactStep DEF ExactInv, OwnInv
<1>3. ExactInv => SuccessIsExact
  <2> SUFFICES ASSUME ExactInv, NEW c \in Calls, pc[c] = "done", IsPlain(src[c]),
                      Untroubled(Dir(c))
               PROVE  /\ Len(out[c]) = BlocksOf(c)
                      /\ \A k \in 1..BlocksOf(c) : out[c][k] = OwnBlock(c, k - 1)
    BY DEF SuccessIsExact
  <2>1. BlocksOf(c) \in Nat /\ Len(out[c]) \in Nat /\ Dir(c) \in Directions
    BY SourceTyped DEF ExactInv, OwnInv, TypeOK
  <2> QED
    BY <2>1 DEF ExactInv, OwnInv, Tidy, NothingMore, NoneLost, Faithful
<1> QED
  BY <1>1, <1>2, <1>3, PTL DEF Spec
=============================================================================
