-------------------------- MODULE BlockCacheProofs --------------------------
(***************************************************************************)
(* Theorems about BlockCache for any number of threads, keys and blocks:   *)
(* no block has two owners, none is leaked, the counters follow the bits,  *)
(* and, with one thread that stores, a fetch from a location that is not   *)
(* removed yet reads its own key's bytes; and a thread alone finds room.   *)
(***************************************************************************)
EXTENDS BlockCache, FiniteSetTheorems, TLAPS

(* The threads that found no location for their key and made one.          *)
Taker(t) == pc[t] \in {"bank", "scan", "lock", "count", "fill"}
User(t) == pc[t] \in {"check", "update", "look", "read"}
Releaser(t) == pc[t] \in {"mark", "clear", "uncount"}

(* Which of the three locations of a thread are set, in which phase.       *)
Shaped(t) == /\ Taker(t) \/ User(t) => loc[t] # NoLocation
             /\ Releaser(t) <=> victim[t] # NoLocation
             /\ prior[t] # NoLocation => InMap(t) \/ Releaser(t)

(* Nobody else refers to a location that is not in the map yet.            *)
Private(t) ==
  Taker(t) => /\ loc[t] \notin pending
              /\ \A k \in Keys : cache[k] # loc[t]
              /\ \A u \in Threads : /\ prior[u] # loc[t] /\ victim[u] # loc[t]
                                    /\ u # t => loc[u] # loc[t]

(* A location is owned in one place only.                                  *)
OnePlace ==
  /\ \A k, j \in Keys : cache[k] = cache[j] /\ cache[k] # NoLocation => k = j
  /\ \A k \in Keys : cache[k] \notin pending
  /\ \A t \in Threads, l \in Locations :
       Has(t, l) => l \notin pending /\ \A k \in Keys : cache[k] # l
  /\ \A t, u \in Threads, l \in Locations : Has(t, l) /\ Has(u, l) => t = u

Typed == SharedTyped /\ ThreadsTyped

OwnInv == /\ Typed /\ OnePlace /\ OneOwner /\ BitsAreOwned
          /\ \A t \in Threads : Shaped(t) /\ Private(t)
-----------------------------------------------------------------------------
LEMMA BankInBanks == ASSUME Typed, NEW t \in Threads PROVE Bank(t) \in Banks
<1>1. tries[t] \in Nat /\ NumberOfBanks \in Nat \ {0}
  BY SizeAssumption DEF Typed, ThreadsTyped
<1> QED
  BY <1>1 DEF Bank, Banks

LEMMA TypedInit == Init => Typed
<1> SUFFICES ASSUME Init PROVE Typed
  OBVIOUS
<1>1. 0 \in Banks /\ 0 \in Blocks
  BY SizeAssumption DEF Banks, Blocks
<1>2. \A t \in Threads : role[t] \in SUBSET Calls
  BY RoleAssumption DEF Init
<1>3. role \in [Threads -> SUBSET Calls]
  BY RoleAssumption DEF Init
<1> QED
  BY <1>1, <1>3 DEF Init, Typed, SharedTyped, ThreadsTyped, Phases

LEMMA NewIsNew ==
  ASSUME \E l \in Locations : l \notin Referenced
  PROVE  NewLocation \in Locations /\ NewLocation \notin Referenced
BY DEF NewLocation

LEMMA ReturnTyped ==
  ASSUME Typed, NEW t \in Threads, Return(t), UNCHANGED <<shared, role>>
  PROVE  Typed'
<1>1. 0 \in Blocks
  BY SizeAssumption DEF Blocks
<1>2. SharedTyped'
  BY DEF shared, Typed, SharedTyped
<1>3. pc' \in [Threads -> Phases] /\ role' \in [Threads -> SUBSET Calls] /\ key' \in [Threads -> Keys]
  BY DEF Return, Typed, ThreadsTyped, Phases
<1>4. todo' \in [Threads -> SUBSET Parts]
  BY DEF Return, Typed, ThreadsTyped
<1>5. loc' \in [Threads -> Locations \cup {NoLocation}]
  BY DEF Return, Typed, ThreadsTyped
<1>6. tries' \in [Threads -> Nat] /\ bit' \in [Threads -> Blocks]
  BY <1>1 DEF Return, Typed, ThreadsTyped
<1>7. prior' \in [Threads -> Locations \cup {NoLocation}]
      /\ victim' \in [Threads -> Locations \cup {NoLocation}]
  BY DEF Return, Typed, ThreadsTyped
<1> QED
  BY <1>2, <1>3, <1>4, <1>5, <1>6, <1>7 DEF Typed, ThreadsTyped

LEMMA StoreTyped ==
  ASSUME Typed, NEW t \in Threads, StoreKnown(t) \/ StoreNew(t)
  PROVE  Typed'
<1>1. PICK k \in Keys, part \in SUBSET Parts :
        key' = [key EXCEPT ![t] = k] /\ todo' = [todo EXCEPT ![t] = part]
        /\ (StoreKnown(t) => cache[k] # NoLocation /\ loc' = [loc EXCEPT ![t] = cache[k]])
  BY DEF StoreKnown, StoreNew
<1>2. pc' \in [Threads -> Phases]
  BY DEF StoreKnown, StoreNew, Goto, Typed, ThreadsTyped, Phases
<1>3. key' \in [Threads -> Keys] /\ todo' \in [Threads -> SUBSET Parts]
  BY <1>1 DEF Typed, ThreadsTyped
<1>4. loc' \in [Threads -> Locations \cup {NoLocation}]
  <2>1. CASE StoreKnown(t)
    BY <1>1, <2>1 DEF Typed, ThreadsTyped, SharedTyped
  <2>2. CASE StoreNew(t)
    BY <2>2, NewIsNew DEF StoreNew, Typed, ThreadsTyped
  <2> QED
    BY <2>1, <2>2
<1>5. UNCHANGED <<role, tries, bit, prior, victim>>
  BY DEF StoreKnown, StoreNew
<1>6. UNCHANGED <<cache, pending, bits, counter, data, bank, block>>
  BY DEF StoreKnown, StoreNew, shared
<1>7. removed' = removed \/ removed' = [removed EXCEPT ![NewLocation] = FALSE]
  BY DEF StoreKnown, StoreNew, shared
<1>8. removed' \in [Locations -> BOOLEAN]
  BY <1>7, Zenon DEF Typed, SharedTyped
<1>9. filled' \in [Locations -> SUBSET Parts]
  BY DEF StoreKnown, StoreNew, shared, Typed, SharedTyped
<1>10. SharedTyped'
  BY <1>6, <1>8, <1>9 DEF Typed, SharedTyped
<1> QED
  BY <1>2, <1>3, <1>4, <1>5, <1>10 DEF Typed, ThreadsTyped

(* The steps that change no shared state, until the call returns.          *)
LEMMA LocalTyped ==
  ASSUME Typed, NEW t \in Threads, UNCHANGED <<shared, role>>,
         \/ pc'[t] # "idle" /\ UNCHANGED <<key, todo, loc, prior, victim>>
                           /\ tries' \in [Threads -> Nat] /\ bit' \in [Threads -> Blocks]
                           /\ pc' \in [Threads -> Phases]
         \/ Return(t)
  PROVE  Typed'
<1>1. CASE Return(t)
  BY <1>1, ReturnTyped
<1>2. CASE UNCHANGED <<key, todo, loc, prior, victim>>
           /\ tries' \in [Threads -> Nat] /\ bit' \in [Threads -> Blocks]
           /\ pc' \in [Threads -> Phases]
  BY <1>2 DEF Typed, SharedTyped, ThreadsTyped, shared
<1> QED
  BY <1>1, <1>2

LEMMA SearchTyped ==
  ASSUME Typed, NEW t \in Threads,
         LookAtBank(t) \/ NoRoom(t) \/ ScanBits(t) \/ CheckRemoved(t) \/ Updated(t)
           \/ Drain(t) \/ Drained(t) \/ Look(t) \/ Fetched(t)
  PROVE  Typed'
<1> USE DEF Typed, ThreadsTyped, Goto, Phases
<1>1. CASE LookAtBank(t)
  BY <1>1, LocalTyped DEF LookAtBank, NextBank
<1>2. CASE ScanBits(t)
  BY <1>2, LocalTyped DEF ScanBits, NextBank
<1>3. CASE CheckRemoved(t) \/ Look(t)
  BY <1>3, LocalTyped DEF CheckRemoved, Look
<1>4. CASE NoRoom(t) \/ Updated(t) \/ Fetched(t)
  BY <1>4, ReturnTyped DEF NoRoom, Updated, Fetched
<1>5. CASE Drain(t) \/ Drained(t)
  BY <1>5, LocalTyped DEF Drain, Drained
<1> QED
  BY <1>1, <1>2, <1>3, <1>4, <1>5

LEMMA BlockTyped ==
  ASSUME Typed, NEW t \in Threads, Shaped(t), SetBit(t) \/ Count(t) \/ Put(t)
  PROVE  Typed'
<1> USE DEF Typed, SharedTyped, ThreadsTyped, Goto, Phases
<1>1. CASE SetBit(t)
  <2>1. Bank(t) \in Banks /\ bit[t] \in Blocks /\ loc[t] \in Locations
    BY <1>1, BankInBanks DEF SetBit, Shaped, Taker
  <2>2. CASE Taken(t)
    <3>1. UNCHANGED <<bits, bank, block>> /\ pc' = [pc EXCEPT ![t] = "scan"]
      BY <1>1, <2>2 DEF SetBit
    <3> QED
      BY <1>1, <3>1 DEF SetBit
  <2>3. CASE ~Taken(t)
    <3>1. /\ bits' = [bits EXCEPT ![Bank(t)] = @ \cup {bit[t]}]
          /\ bank' = [bank EXCEPT ![loc[t]] = Bank(t)]
          /\ block' = [block EXCEPT ![loc[t]] = bit[t]]
          /\ pc' = [pc EXCEPT ![t] = "count"]
      BY <1>1, <2>3 DEF SetBit
    <3>2. bits' \in [Banks -> SUBSET Blocks]
      BY <2>1, <3>1
    <3>3. bank' \in [Locations -> Banks] /\ block' \in [Locations -> Blocks]
      BY <2>1, <3>1
    <3> QED
      BY <1>1, <3>1, <3>2, <3>3 DEF SetBit
  <2> QED
    BY <2>2, <2>3
<1>2. CASE Count(t)
  <2>1. counter' \in [Banks -> Int] /\ pc' \in [Threads -> Phases]
    BY <1>2, BankInBanks DEF Count
  <2> QED
    BY <1>2, <2>1 DEF Count
<1>3. CASE Put(t)
  <2>1. PICK p \in Parts :
          /\ data' = [data EXCEPT ![bank[loc[t]]][block[loc[t]]][p] = key[t]]
          /\ todo' = [todo EXCEPT ![t] = @ \ {p}]
          /\ filled' = [filled EXCEPT ![loc[t]] = @ \cup {p}]
    BY <1>3 DEF Put
  <2>2. loc[t] \in Locations
    BY <1>3 DEF Put, Shaped, Taker, User
  <2> DEFINE b == bank[loc[t]]
             n == block[loc[t]]
  <2>3. b \in Banks /\ n \in Blocks
    BY <2>2
  <2>4. [data[b] EXCEPT ![n][p] = key[t]] \in [Blocks -> [Parts -> Keys \cup {Junk}]]
    BY <2>3
  <2>5. data' = [data EXCEPT ![b] = [data[b] EXCEPT ![n][p] = key[t]]]
    BY <2>1
  <2> HIDE DEF b, n
  <2>6. data' \in [Banks -> [Blocks -> [Parts -> Keys \cup {Junk}]]]
    BY <2>3, <2>4, <2>5
  <2>7. todo' \in [Threads -> SUBSET Parts] /\ filled' \in [Locations -> SUBSET Parts]
    BY <2>1, <2>2
  <2> QED
    BY <1>3, <2>6, <2>7 DEF Put
<1> QED
  BY <1>1, <1>2, <1>3

LEMMA MapTyped ==
  ASSUME Typed, NEW t \in Threads, Shaped(t),
         Publish(t) \/ Evict(t) \/ Notify(t) \/ LeaveMap(t)
  PROVE  Typed'
<1> USE DEF Typed, SharedTyped, ThreadsTyped, Goto, Phases
<1>1. CASE Publish(t)
  <2>1. loc[t] \in Locations /\ cache[key[t]] \in Locations \cup {NoLocation}
    BY <1>1 DEF Publish, Shaped, Taker
  <2> QED
    BY <1>1, <2>1 DEF Publish, Replaced
<1>2. CASE Evict(t)
  BY <1>2 DEF Evict
<1>3. CASE Notify(t)
  BY <1>3 DEF Notify
<1>4. CASE LeaveMap(t)
  <2>1. CASE Return(t)
    BY <1>4, <2>1, ReturnTyped DEF LeaveMap
  <2>2. CASE ~Return(t)
    BY <1>4, <2>2 DEF LeaveMap, shared
  <2> QED
    BY <2>1, <2>2
<1> QED
  BY <1>1, <1>2, <1>3, <1>4

LEMMA ReleaseTyped ==
  ASSUME Typed, NEW t \in Threads, Shaped(t), ReleaseLocation(t)
  PROVE  Typed'
<1> USE DEF Typed, SharedTyped, ThreadsTyped, Goto, Phases
<1>1. victim[t] \in Locations
  BY DEF ReleaseLocation, SetRemoved, ClearBit, Uncount, Shaped, Releaser
<1>2. CASE SetRemoved(t)
  <2>1. removed' = [removed EXCEPT ![victim[t]] = TRUE]
    BY <1>2 DEF SetRemoved
  <2>2. removed' \in [Locations -> BOOLEAN]
    BY <2>1, Zenon
  <2> QED
    BY <1>2, <2>2 DEF SetRemoved
<1>3. CASE ClearBit(t)
  BY <1>1, <1>3 DEF ClearBit
<1>4. CASE Uncount(t)
  <2>1. counter' \in [Banks -> Int]
    BY <1>1, <1>4 DEF Uncount
  <2>2. CASE victim[t] = prior[t]
    <3>1. Return(t) /\ UNCHANGED role
      BY <1>4, <2>2 DEF Uncount
    <3>2. 0 \in Blocks
      BY SizeAssumption DEF Blocks
    <3>3. ThreadsTyped'
      BY <3>1, <3>2 DEF Return
    <3> QED
      BY <1>4, <2>1, <3>3 DEF Uncount
  <2>3. CASE victim[t] # prior[t]
    BY <1>4, <2>1, <2>3 DEF Uncount
  <2> QED
    BY <2>2, <2>3
<1> QED
  BY <1>2, <1>3, <1>4 DEF ReleaseLocation

LEMMA FetchTyped ==
  ASSUME Typed, NEW t \in Threads, Fetch(t) \/ Get(t)
  PROVE  Typed'
<1> USE DEF Typed, SharedTyped, ThreadsTyped, Goto, Phases, shared
<1>1. CASE Fetch(t)
  BY <1>1 DEF Fetch
<1>2. CASE Get(t)
  BY <1>2 DEF Get
<1> QED
  BY <1>1, <1>2

LEMMA TypedStep ==
  ASSUME Typed, \A t \in Threads : Shaped(t), [Next]_vars
  PROVE  Typed'
<1>1. CASE UNCHANGED vars
  BY <1>1 DEF vars, Typed, SharedTyped, ThreadsTyped
<1> QED
  BY <1>1, StoreTyped, SearchTyped, BlockTyped, MapTyped, ReleaseTyped, FetchTyped
     DEF Next, StoreSteps, FindEmptyLocation, ReleaseLocation, MapSteps, FetchSteps
-----------------------------------------------------------------------------
Step(t) == StoreSteps(t) \/ ReleaseLocation(t) \/ MapSteps(t) \/ FetchSteps(t)

LEMMA NextIsStep == [Next]_vars <=> (UNCHANGED vars \/ \E t \in Threads : Step(t))
BY DEF Next, Step

(* A step changes the phase and the locations of its own thread only.      *)
LEMMA Frame ==
  ASSUME Typed, NEW t \in Threads, Step(t), NEW u \in Threads, u # t
  PROVE  pc'[u] = pc[u] /\ loc'[u] = loc[u] /\ prior'[u] = prior[u] /\ victim'[u] = victim[u]
<1> USE DEF Typed, ThreadsTyped, Goto, shared
<1>1. CASE StoreKnown(t) \/ StoreNew(t)
  BY <1>1 DEF StoreKnown, StoreNew
<1>2. CASE FindEmptyLocation(t)
  BY <1>2 DEF FindEmptyLocation, LookAtBank, NoRoom, ScanBits, SetBit, Count, NextBank, Return
<1>3. CASE CheckRemoved(t) \/ Put(t) \/ Updated(t) \/ Publish(t)
  BY <1>3 DEF CheckRemoved, Put, Updated, Publish, Return
<1>4. CASE ReleaseLocation(t)
  BY <1>4 DEF ReleaseLocation, SetRemoved, ClearBit, Uncount, Return
<1>5. CASE MapSteps(t)
  BY <1>5 DEF MapSteps, Drain, Evict, Drained, Notify, LeaveMap, Return
<1>6. CASE FetchSteps(t)
  BY <1>6 DEF FetchSteps, Fetch, Look, Get, Fetched, Return
<1> QED
  BY <1>1, <1>2, <1>3, <1>4, <1>5, <1>6 DEF Step, StoreSteps

(* What a step does to the references of its thread and of the map.        *)
LocalMove(t) ==   \* nothing
  UNCHANGED <<cache, pending, loc, prior, victim>>
ReturnMove(t) ==  \* the call is over
  /\ pc'[t] = "idle" /\ UNCHANGED <<cache, pending>>
  /\ loc'[t] = NoLocation /\ prior'[t] = NoLocation /\ victim'[t] = NoLocation
FoundMove(t) ==   \* cache.get found a location
  /\ pc[t] = "idle" /\ pc'[t] \in {"check", "look"}
  /\ \E k \in Keys : cache[k] # NoLocation /\ loc'[t] = cache[k]
  /\ UNCHANGED <<cache, pending, prior, victim>>
NewMove(t) ==     \* a location was made
  /\ pc[t] = "idle" /\ pc'[t] = "bank"
  /\ loc'[t] \in Locations /\ loc'[t] \notin Referenced
  /\ UNCHANGED <<cache, pending, prior, victim>>
PublishMove(t) == \* it was put into the map
  /\ pc[t] = "fill" /\ pc'[t] = "drain"
  /\ cache' = [cache EXCEPT ![key[t]] = loc[t]] /\ key[t] \in Keys
  /\ prior'[t] = cache[key[t]]
  /\ UNCHANGED <<pending, loc, victim>>
EvictMove(t) ==   \* the map evicted one
  /\ pc[t] = "drain" /\ pc'[t] = "drain"
  /\ \E k \in Keys : /\ cache[k] # NoLocation
                      /\ pending' = pending \cup {cache[k]}
                      /\ cache' = [cache EXCEPT ![k] = NoLocation]
  /\ UNCHANGED <<loc, prior, victim>>
NotifyMove(t) ==  \* the listener is told of one
  /\ pc[t] = "notify" /\ pc'[t] = "mark"
  /\ victim'[t] \in pending /\ pending' = pending \ {victim'[t]}
  /\ UNCHANGED <<cache, loc, prior>>
PriorMove(t) ==   \* the replaced one is to be released
  /\ pc[t] = "notify" /\ pc'[t] = "mark"
  /\ prior[t] # NoLocation /\ victim'[t] = prior[t]
  /\ UNCHANGED <<cache, pending, loc, prior>>
NextMove(t) ==    \* one of the map's has been released
  /\ pc[t] = "uncount" /\ pc'[t] = "notify"
  /\ victim[t] # prior[t] /\ victim'[t] = NoLocation
  /\ UNCHANGED <<cache, pending, loc, prior>>

(* The phases between which a thread goes without touching a reference.    *)
LocalPhases(t) ==
  \/ pc[t] \in {"bank", "scan"} /\ pc'[t] \in {"bank", "scan", "lock"}
  \/ pc[t] = "lock" /\ pc'[t] \in {"scan", "count"}
  \/ pc[t] \in {"count", "fill"} /\ pc'[t] = "fill"
  \/ User(t) /\ pc'[t] \in {"check", "update", "look", "read"}
  \/ pc[t] \in {"idle", "drain"} /\ pc'[t] \in {"drain", "notify"}
  \/ pc[t] = "mark" /\ pc'[t] = "clear"
  \/ pc[t] = "clear" /\ pc'[t] = "uncount"

LEMMA Moves ==
  ASSUME Typed, NEW t \in Threads, Step(t)
  PROVE  \/ LocalMove(t) /\ LocalPhases(t)
         \/ ReturnMove(t) /\ (pc[t] = "bank" \/ User(t))
         \/ ReturnMove(t) /\ pc[t] = "notify" /\ prior[t] = NoLocation
         \/ ReturnMove(t) /\ pc[t] = "uncount" /\ victim[t] = prior[t]
         \/ FoundMove(t) \/ NewMove(t) \/ PublishMove(t)
         \/ EvictMove(t) \/ NotifyMove(t) \/ PriorMove(t) \/ NextMove(t)
<1> USE DEF Typed, SharedTyped, ThreadsTyped, Goto, shared
<1>r. Return(t) => /\ pc'[t] = "idle" /\ loc'[t] = NoLocation
                   /\ prior'[t] = NoLocation /\ victim'[t] = NoLocation
  BY DEF Return
<1>1. CASE StoreKnown(t)
  <2>1. FoundMove(t)
    BY <1>1 DEF StoreKnown, FoundMove
  <2> QED
    BY <2>1
<1>2. CASE StoreNew(t)
  <2>1. NewMove(t)
    BY <1>2, NewIsNew DEF StoreNew, NewMove
  <2> QED
    BY <2>1
<1>3. CASE LookAtBank(t) \/ ScanBits(t)
  <2>1. LocalMove(t) /\ LocalPhases(t)
    BY <1>3 DEF LookAtBank, ScanBits, NextBank, LocalMove, LocalPhases
  <2> QED
    BY <2>1
<1>4. CASE SetBit(t) \/ Count(t)
  <2>1. LocalMove(t) /\ LocalPhases(t)
    BY <1>4 DEF SetBit, Count, LocalMove, LocalPhases
  <2> QED
    BY <2>1
<1>5. CASE NoRoom(t) \/ Updated(t) \/ Fetched(t)
  <2>1. ReturnMove(t) /\ (pc[t] = "bank" \/ User(t))
    BY <1>5, <1>r DEF NoRoom, Updated, Fetched, User, ReturnMove
  <2> QED
    BY <2>1
<1>6. CASE CheckRemoved(t) \/ Look(t)
  <2>1. pc[t] \in {"check", "look"} /\ UNCHANGED <<cache, pending>>
    BY <1>6 DEF CheckRemoved, Look
  <2>2. Return(t) \/ (LocalMove(t) /\ pc'[t] \in {"update", "read"})
    BY <1>6 DEF CheckRemoved, Look, LocalMove
  <2> QED
    BY <1>r, <2>1, <2>2 DEF User, ReturnMove, LocalPhases
<1>7. CASE Put(t) \/ Get(t)
  <2>1. LocalMove(t) /\ LocalPhases(t)
    BY <1>7 DEF Put, Get, LocalMove, LocalPhases, User
  <2> QED
    BY <2>1
<1>8. CASE Publish(t)
  <2>1. PublishMove(t)
    BY <1>8 DEF Publish, Replaced, PublishMove
  <2> QED
    BY <2>1
<1>9. CASE SetRemoved(t) \/ ClearBit(t)
  <2>1. LocalMove(t) /\ LocalPhases(t)
    BY <1>9 DEF SetRemoved, ClearBit, LocalMove, LocalPhases
  <2> QED
    BY <2>1
<1>10. CASE Uncount(t)
  <2>1. CASE victim[t] = prior[t]
    BY <1>10, <1>r, <2>1 DEF Uncount, ReturnMove
  <2>2. CASE victim[t] # prior[t]
    <3>1. NextMove(t)
      BY <1>10, <2>2 DEF Uncount, NextMove
    <3> QED
      BY <3>1
  <2> QED
    BY <2>1, <2>2
<1>11. CASE Drain(t) \/ Drained(t)
  <2>1. LocalMove(t) /\ LocalPhases(t)
    BY <1>11 DEF Drain, Drained, LocalMove, LocalPhases
  <2> QED
    BY <2>1
<1>12. CASE Evict(t)
  <2>1. EvictMove(t)
    BY <1>12 DEF Evict, EvictMove
  <2> QED
    BY <2>1
<1>13. CASE Notify(t)
  <2>1. NotifyMove(t)
    BY <1>13 DEF Notify, NotifyMove
  <2> QED
    BY <2>1
<1>14. CASE LeaveMap(t)
  <2>1. CASE prior[t] = NoLocation
    BY <1>14, <1>r, <2>1 DEF LeaveMap, ReturnMove
  <2>2. CASE prior[t] # NoLocation
    <3>1. PriorMove(t)
      BY <1>14, <2>2 DEF LeaveMap, PriorMove
    <3> QED
      BY <3>1
  <2> QED
    BY <2>1, <2>2
<1>15. CASE Fetch(t)
  <2>1. FoundMove(t)
    BY <1>15 DEF Fetch, FoundMove
  <2> QED
    BY <2>1
<1> QED
  BY <1>1, <1>2, <1>3, <1>4, <1>5, <1>6, <1>7, <1>8, <1>9, <1>10, <1>11, <1>12, <1>13, <1>14, <1>15
     DEF Step, StoreSteps, FindEmptyLocation, ReleaseLocation, MapSteps, FetchSteps

LEMMA ShapedStep ==
  ASSUME Typed, \A t \in Threads : Shaped(t), [Next]_vars
  PROVE  \A t \in Threads : Shaped(t)'
<1>1. CASE UNCHANGED vars
  BY <1>1 DEF vars, Shaped, Taker, User, Releaser, InMap
<1>2. ASSUME NEW t \in Threads, Step(t), NEW u \in Threads PROVE Shaped(u)'
  <2>1. CASE u # t
    BY <1>2, <2>1, Frame DEF Shaped, Taker, User, Releaser, InMap
  <2>2. CASE u = t
    <3> USE DEF Shaped, Taker, User, Releaser, InMap
    <3>1. pending \subseteq Locations /\ NoLocation \notin Locations
      BY NameAssumption DEF Typed, SharedTyped
    <3>2. Shaped(t)
      OBVIOUS
    <3>3. CASE LocalMove(t) /\ LocalPhases(t)
      BY <2>2, <3>2, <3>3 DEF LocalMove, LocalPhases
    <3>4. CASE ReturnMove(t)
      BY <2>2, <3>4 DEF ReturnMove
    <3>5. CASE FoundMove(t) \/ NewMove(t)
      BY <2>2, <3>1, <3>2, <3>5 DEF FoundMove, NewMove
    <3>6. CASE PublishMove(t) \/ EvictMove(t)
      BY <2>2, <3>2, <3>6 DEF PublishMove, EvictMove
    <3>7. CASE NotifyMove(t) \/ PriorMove(t) \/ NextMove(t)
      BY <2>2, <3>1, <3>2, <3>7 DEF NotifyMove, PriorMove, NextMove
    <3> QED
      BY <1>2, <3>3, <3>4, <3>5, <3>6, <3>7, Moves
  <2> QED
    BY <2>1, <2>2
<1> QED
  BY <1>1, <1>2, NextIsStep

LEMMA PrivateStep ==
  ASSUME Typed, \A t \in Threads : Shaped(t) /\ Private(t), [Next]_vars
  PROVE  \A t \in Threads : Private(t)'
<1>1. CASE UNCHANGED vars
  BY <1>1 DEF vars, Private, Taker
<1>2. ASSUME NEW t \in Threads, Step(t), NEW u \in Threads, Taker(u)' PROVE Private(u)'
  <2>f. \A v \in Threads : v # t => /\ pc'[v] = pc[v] /\ loc'[v] = loc[v]
                                   /\ prior'[v] = prior[v] /\ victim'[v] = victim[v]
    BY <1>2, Frame
  <2>1. CASE u = t
    <3>1. (LocalMove(t) /\ Taker(t)) \/ NewMove(t)
      BY <1>2, <2>1, Moves
         DEF Taker, LocalPhases, User, ReturnMove, FoundMove, PublishMove, EvictMove,
             NotifyMove, PriorMove, NextMove
    <3>2. CASE LocalMove(t) /\ Taker(t)
      BY <2>1, <2>f, <3>2 DEF LocalMove, Private
    <3>3. CASE NewMove(t)
      <4>1. /\ loc'[t] \notin pending /\ \A k \in Keys : cache[k] # loc'[t]
            /\ \A v \in Threads : prior[v] # loc'[t] /\ victim[v] # loc'[t] /\ loc[v] # loc'[t]
        BY <3>3 DEF NewMove, Referenced
      <4> QED
        BY <2>1, <2>f, <3>3, <4>1 DEF NewMove, Private
    <3> QED
      BY <3>1, <3>2, <3>3
  <2>2. CASE u # t
    <3>1. /\ loc'[u] = loc[u] /\ loc[u] # NoLocation /\ loc[u] \notin pending
          /\ \A k \in Keys : cache[k] # loc[u]
          /\ \A v \in Threads : prior[v] # loc[u] /\ victim[v] # loc[u]
          /\ \A v \in Threads : v # u => loc[v] # loc[u]
      BY <1>2, <2>2, <2>f DEF Private, Shaped, Taker
    <3>2. /\ loc[u] \notin pending' /\ \A k \in Keys : cache'[k] # loc[u]
          /\ prior'[t] # loc[u] /\ victim'[t] # loc[u] /\ loc'[t] # loc[u]
      <4>1. CASE LocalMove(t) \/ ReturnMove(t)
        BY <2>2, <3>1, <4>1 DEF LocalMove, ReturnMove
      <4>2. CASE FoundMove(t) \/ NewMove(t)
        BY <2>2, <3>1, <4>2 DEF FoundMove, NewMove, Referenced
      <4>3. CASE PublishMove(t) \/ EvictMove(t)
        BY <2>2, <3>1, <4>3 DEF PublishMove, EvictMove, Typed, SharedTyped
      <4>4. CASE NotifyMove(t) \/ PriorMove(t) \/ NextMove(t)
        BY <2>2, <3>1, <4>4 DEF NotifyMove, PriorMove, NextMove
      <4> QED
        BY <1>2, <4>1, <4>2, <4>3, <4>4, Moves
    <3> QED
      BY <2>2, <2>f, <3>1, <3>2 DEF Private
  <2> QED
    BY <2>1, <2>2
<1>3. ASSUME NEW t \in Threads, Step(t), NEW u \in Threads PROVE Private(u)'
  BY <1>2, <1>3 DEF Private
<1> QED
  BY <1>1, <1>3, NextIsStep
-----------------------------------------------------------------------------
(* What a thread has changes only when it sets a bit, puts its location    *)
(* into the map, is told of an eviction, or clears a bit.                  *)
SetsBit(t) == pc[t] = "lock" /\ pc'[t] = "count" /\ LocalMove(t)
ClearsBit(t) == pc[t] = "clear" /\ pc'[t] = "uncount" /\ LocalMove(t)

LEMMA Having ==
  ASSUME Typed, OnePlace, \A t \in Threads : Shaped(t) /\ Private(t),
         NEW t \in Threads, Step(t), NEW l \in Locations
  PROVE  /\ SetsBit(t) => ~Has(t, l) /\ (Has(t, l)' <=> l = loc[t])
         /\ ClearsBit(t) => (Has(t, l)' <=> Has(t, l) /\ l # victim[t])
         /\ PublishMove(t) => (Has(t, l) <=> l = loc[t]) /\ (Has(t, l)' <=> l = cache[key[t]])
         /\ NotifyMove(t) => (Has(t, l)' <=> Has(t, l) \/ l = victim'[t])
         /\ \/ SetsBit(t) \/ ClearsBit(t) \/ PublishMove(t) \/ NotifyMove(t)
            \/ Has(t, l)' <=> Has(t, l)
<1> USE DEF Has, Taking, Releasing, Shaped, Taker, User, Releaser, InMap
<1>1. Shaped(t) /\ l # NoLocation
  BY NameAssumption
<1>2. ASSUME SetsBit(t) PROVE ~Has(t, l) /\ (Has(t, l)' <=> l = loc[t])
  BY <1>1, <1>2 DEF SetsBit, LocalMove
<1>3. ASSUME ClearsBit(t) PROVE Has(t, l)' <=> Has(t, l) /\ l # victim[t]
  BY <1>1, <1>3 DEF ClearsBit, LocalMove
<1>4. ASSUME PublishMove(t)
      PROVE (Has(t, l) <=> l = loc[t]) /\ (Has(t, l)' <=> l = cache[key[t]])
  BY <1>1, <1>4 DEF PublishMove
<1>5. ASSUME NotifyMove(t) PROVE Has(t, l)' <=> Has(t, l) \/ l = victim'[t]
  <2>1. prior[t] # victim'[t]
    <3>1. prior[t] # NoLocation => prior[t] \in Locations /\ Has(t, prior[t])
      BY <1>1, <1>5 DEF NotifyMove, Typed, ThreadsTyped
    <3>2. victim'[t] \in pending /\ NoLocation \notin pending
      BY <1>5, NameAssumption DEF NotifyMove, Typed, SharedTyped
    <3> QED
      BY <3>1, <3>2 DEF OnePlace
  <2> QED
    BY <1>1, <1>5, <2>1 DEF NotifyMove
<1>6. CASE LocalMove(t) /\ LocalPhases(t)
  <2>1. SetsBit(t) \/ ClearsBit(t) \/ (Has(t, l)' <=> Has(t, l))
    BY <1>1, <1>6 DEF LocalMove, LocalPhases, SetsBit, ClearsBit
  <2> QED
    BY <1>2, <1>3, <1>4, <1>5, <2>1
<1>7. CASE \/ ReturnMove(t) /\ (pc[t] = "bank" \/ User(t))
           \/ ReturnMove(t) /\ pc[t] = "notify" /\ prior[t] = NoLocation
           \/ ReturnMove(t) /\ pc[t] = "uncount" /\ victim[t] = prior[t]
  <2>1. Has(t, l)' <=> Has(t, l)
    BY <1>1, <1>7 DEF ReturnMove
  <2> QED
    BY <1>2, <1>3, <1>4, <1>5, <2>1
<1>8. CASE FoundMove(t) \/ NewMove(t) \/ EvictMove(t) \/ PriorMove(t) \/ NextMove(t)
  <2>1. Has(t, l)' <=> Has(t, l)
    BY <1>1, <1>8 DEF FoundMove, NewMove, EvictMove, PriorMove, NextMove
  <2> QED
    BY <1>2, <1>3, <1>4, <1>5, <2>1
<1> QED
  BY <1>2, <1>3, <1>4, <1>5, <1>6, <1>7, <1>8, Moves

LEMMA OthersHave ==
  ASSUME Typed, NEW t \in Threads, Step(t), NEW u \in Threads, u # t, NEW l \in Locations
  PROVE  Has(u, l)' <=> Has(u, l)
BY Frame DEF Has, Taking, Releasing

LEMMA OnePlaceStep ==
  ASSUME Typed, OnePlace, \A t \in Threads : Shaped(t) /\ Private(t), [Next]_vars
  PROVE  OnePlace'
<1>1. CASE UNCHANGED vars
  BY <1>1 DEF vars, OnePlace, Has, Taking, Releasing
<1>2. ASSUME NEW t \in Threads, Step(t) PROVE OnePlace'
  <2>o. \A u \in Threads, l \in Locations : u # t => (Has(u, l)' <=> Has(u, l))
    BY <1>2, OthersHave
  <2>1. CASE SetsBit(t)
    <3>1. \A l \in Locations : Has(t, l)' <=> l = loc[t]
      BY <1>2, <2>1, Having
    <3>2. UNCHANGED <<cache, pending>> /\ Private(t) /\ Taker(t) /\ loc[t] # NoLocation
      BY <2>1 DEF SetsBit, LocalMove, Shaped, Taker
    <3>3. \A u \in Threads : u # t => ~Has(u, loc[t])
      BY <3>2 DEF Private, Has
    <3> QED
      BY <2>o, <3>1, <3>2, <3>3 DEF OnePlace, Private
  <2>2. CASE ClearsBit(t)
    <3>1. \A l \in Locations : Has(t, l)' => Has(t, l)
      BY <1>2, <2>2, Having
    <3>2. UNCHANGED <<cache, pending>>
      BY <2>2 DEF ClearsBit, LocalMove
    <3> QED
      BY <2>o, <3>1, <3>2 DEF OnePlace
  <2>3. CASE PublishMove(t)
    <3>1. \A l \in Locations : (Has(t, l) <=> l = loc[t]) /\ (Has(t, l)' <=> l = cache[key[t]])
      BY <1>2, <2>3, Having
    <3>2. /\ cache' = [cache EXCEPT ![key[t]] = loc[t]] /\ pending' = pending
          /\ key[t] \in Keys /\ loc[t] \in Locations
          /\ cache \in [Keys -> Locations \cup {NoLocation}]
      BY <2>3 DEF PublishMove, Shaped, Taker, Typed, ThreadsTyped, SharedTyped
    <3>3. \A k \in Keys : cache'[k] = IF k = key[t] THEN loc[t] ELSE cache[k]
      BY <3>2
    <3>4. Has(t, loc[t]) /\ loc[t] \notin pending /\ \A k \in Keys : cache[k] # loc[t]
      BY <3>1, <3>2 DEF OnePlace
    <3>5. \A k \in Keys : cache'[k] \notin pending'
      BY <3>2, <3>3, <3>4 DEF OnePlace
    <3>6. \A k, j \in Keys : cache'[k] = cache'[j] /\ cache'[k] # NoLocation => k = j
      BY <3>3, <3>4 DEF OnePlace
    <3>7. ASSUME NEW u \in Threads, NEW l \in Locations, Has(u, l)'
          PROVE l \notin pending' /\ \A k \in Keys : cache'[k] # l
      <4>1. CASE u = t
        <5>1. l = cache[key[t]] /\ l # loc[t] /\ l # NoLocation
          BY <3>1, <3>2, <3>4, <3>7, <4>1, NameAssumption
        <5> QED
          BY <3>2, <3>3, <5>1 DEF OnePlace
      <4>2. CASE u # t
        <5>1. Has(u, l)
          BY <2>o, <3>7, <4>2
        <5>2. l # loc[t]
          BY <3>2, <3>4, <4>2, <5>1 DEF OnePlace
        <5> QED
          BY <3>2, <3>3, <5>1, <5>2 DEF OnePlace
      <4> QED
        BY <4>1, <4>2
    <3>8. ASSUME NEW u \in Threads, NEW v \in Threads, NEW l \in Locations, Has(u, l)', Has(v, l)'
          PROVE u = v
      <4>1. \A w \in Threads : w # t => ~Has(w, l) \/ l # cache[key[t]]
        BY <3>2 DEF OnePlace
      <4> QED
        BY <2>o, <3>1, <3>8, <4>1 DEF OnePlace
    <3> QED
      BY <3>5, <3>6, <3>7, <3>8 DEF OnePlace
  <2>4. CASE EvictMove(t)
    <3>1. \A u \in Threads, l \in Locations : Has(u, l)' <=> Has(u, l)
      <4>1. ~SetsBit(t) /\ ~ClearsBit(t) /\ ~PublishMove(t) /\ ~NotifyMove(t)
        BY <2>4 DEF EvictMove, SetsBit, ClearsBit, PublishMove, NotifyMove
      <4> QED
        BY <1>2, <2>o, <4>1, Having
    <3>2. PICK k \in Keys : /\ cache[k] # NoLocation
                            /\ pending' = pending \cup {cache[k]}
                            /\ cache' = [cache EXCEPT ![k] = NoLocation]
      BY <2>4 DEF EvictMove
    <3>3. \A j \in Keys : cache'[j] = IF j = k THEN NoLocation ELSE cache[j]
      BY <3>2 DEF Typed, SharedTyped
    <3>4. NoLocation \notin pending /\ NoLocation \notin Locations
      BY NameAssumption DEF Typed, SharedTyped
    <3> QED
      BY <3>1, <3>2, <3>3, <3>4 DEF OnePlace
  <2>5. CASE NotifyMove(t)
    <3>1. \A l \in Locations : Has(t, l)' <=> Has(t, l) \/ l = victim'[t]
      BY <1>2, <2>5, Having
    <3>2. victim'[t] \in pending /\ pending' = pending \ {victim'[t]} /\ cache' = cache
      BY <2>5 DEF NotifyMove
    <3> QED
      BY <2>o, <3>1, <3>2 DEF OnePlace
  <2>6. CASE ~(SetsBit(t) \/ ClearsBit(t) \/ PublishMove(t) \/ EvictMove(t) \/ NotifyMove(t))
    <3>1. \A u \in Threads, l \in Locations : Has(u, l)' <=> Has(u, l)
      BY <1>2, <2>o, <2>6, Having
    <3>2. UNCHANGED <<cache, pending>>
      BY <1>2, <2>6, Moves DEF LocalMove, ReturnMove, FoundMove, NewMove, PriorMove, NextMove
    <3> QED
      BY <3>1, <3>2 DEF OnePlace
  <2> QED
    BY <2>1, <2>2, <2>3, <2>4, <2>5, <2>6
<1> QED
  BY <1>1, <1>2, NextIsStep
-----------------------------------------------------------------------------
(* The owners, and the blocks they own, change with a bit only.            *)
LEMMA Owners ==
  ASSUME Typed, OnePlace, \A t \in Threads : Shaped(t) /\ Private(t),
         NEW t \in Threads, Step(t), NEW l \in Locations
  PROVE  /\ SetsBit(t) => ~Owner(loc[t]) /\ (Owner(l)' <=> Owner(l) \/ l = loc[t])
         /\ ClearsBit(t) => Owner(victim[t]) /\ (Owner(l)' <=> Owner(l) /\ l # victim[t])
         /\ ~SetsBit(t) /\ ~ClearsBit(t) => (Owner(l)' <=> Owner(l))
<1>o. \A u \in Threads, m \in Locations : u # t => (Has(u, m)' <=> Has(u, m))
  BY OthersHave
<1>1. ASSUME SetsBit(t)
      PROVE ~Owner(loc[t]) /\ (Owner(l)' <=> Owner(l) \/ l = loc[t])
  <2>1. \A m \in Locations : ~Has(t, m) /\ (Has(t, m)' <=> m = loc[t])
    BY <1>1, Having
  <2>2. UNCHANGED <<cache, pending>> /\ Taker(t) /\ loc[t] \in Locations
    BY <1>1 DEF SetsBit, LocalMove, Shaped, Taker, Typed, ThreadsTyped
  <2>3. ~Owner(loc[t])
    BY <2>1, <2>2 DEF Owner, Private, Has
  <2> QED
    BY <1>o, <2>1, <2>2, <2>3 DEF Owner
<1>2. ASSUME ClearsBit(t)
      PROVE Owner(victim[t]) /\ (Owner(l)' <=> Owner(l) /\ l # victim[t])
  <2>1. Has(t, l)' <=> Has(t, l) /\ l # victim[t]
    BY <1>2, Having
  <2>2. UNCHANGED <<cache, pending>> /\ Has(t, victim[t]) /\ victim[t] \in Locations
    BY <1>2 DEF ClearsBit, LocalMove, Shaped, Releaser, Has, Releasing, Typed, ThreadsTyped
  <2>3. /\ victim[t] \notin pending /\ \A k \in Keys : cache[k] # victim[t]
        /\ \A u \in Threads : u # t => ~Has(u, victim[t])
    BY <2>2 DEF OnePlace
  <2> QED
    BY <1>o, <2>1, <2>2, <2>3 DEF Owner
<1>3. ASSUME ~SetsBit(t), ~ClearsBit(t) PROVE Owner(l)' <=> Owner(l)
  <2>1. CASE PublishMove(t)
    <3>1. (Has(t, l) <=> l = loc[t]) /\ (Has(t, l)' <=> l = cache[key[t]])
      BY <2>1, Having
    <3>2. /\ cache' = [cache EXCEPT ![key[t]] = loc[t]] /\ pending' = pending
          /\ key[t] \in Keys /\ cache \in [Keys -> Locations \cup {NoLocation}]
      BY <2>1 DEF PublishMove, Typed, SharedTyped
    <3>3. (\E k \in Keys : cache'[k] = l) \/ l = cache[key[t]]
             <=> (\E k \in Keys : cache[k] = l) \/ l = loc[t]
      <4>1. \A k \in Keys : cache'[k] = IF k = key[t] THEN loc[t] ELSE cache[k]
        BY <3>2
      <4> QED
        BY <3>2, <4>1
    <3> QED
      BY <1>o, <3>1, <3>2, <3>3 DEF Owner
  <2>2. CASE EvictMove(t)
    <3>1. \A u \in Threads : Has(u, l)' <=> Has(u, l)
      <4>1. ~PublishMove(t) /\ ~NotifyMove(t)
        BY <2>2 DEF EvictMove, PublishMove, NotifyMove
      <4> QED
        BY <1>o, <1>3, <4>1, Having
    <3>2. PICK k \in Keys : /\ pending' = pending \cup {cache[k]}
                            /\ cache' = [cache EXCEPT ![k] = NoLocation]
      BY <2>2 DEF EvictMove
    <3>3. \A j \in Keys : cache'[j] = IF j = k THEN NoLocation ELSE cache[j]
      BY <3>2 DEF Typed, SharedTyped
    <3>4. l # NoLocation
      BY NameAssumption
    <3>5. l \in pending' \/ (\E j \in Keys : cache'[j] = l)
             <=> l \in pending \/ (\E j \in Keys : cache[j] = l)
      BY <3>2, <3>3, <3>4
    <3> QED
      BY <3>1, <3>5 DEF Owner
  <2>3. CASE NotifyMove(t)
    <3>1. Has(t, l)' <=> Has(t, l) \/ l = victim'[t]
      BY <2>3, Having
    <3>2. victim'[t] \in pending /\ pending' = pending \ {victim'[t]} /\ cache' = cache
      BY <2>3 DEF NotifyMove
    <3> QED
      BY <1>o, <3>1, <3>2 DEF Owner
  <2>4. CASE ~PublishMove(t) /\ ~EvictMove(t) /\ ~NotifyMove(t)
    <3>1. \A u \in Threads : Has(u, l)' <=> Has(u, l)
      BY <1>o, <1>3, <2>4, Having
    <3>2. UNCHANGED <<cache, pending>>
      BY <2>4, Moves DEF LocalMove, ReturnMove, FoundMove, NewMove, PriorMove, NextMove
    <3> QED
      BY <3>1, <3>2 DEF Owner
  <2> QED
    BY <2>1, <2>2, <2>3, <2>4
<1> QED
  BY <1>1, <1>2, <1>3

LEMMA BlockMoves ==
  ASSUME Typed, \A t \in Threads : Shaped(t), NEW t \in Threads, Step(t)
  PROVE  \/ /\ SetsBit(t) /\ bit[t] \notin bits[Bank(t)]
            /\ bits' = [bits EXCEPT ![Bank(t)] = @ \cup {bit[t]}]
            /\ bank' = [bank EXCEPT ![loc[t]] = Bank(t)]
            /\ block' = [block EXCEPT ![loc[t]] = bit[t]]
         \/ /\ ClearsBit(t) /\ UNCHANGED <<bank, block>>
            /\ bits' = [bits EXCEPT ![bank[victim[t]]] = @ \ {block[victim[t]]}]
         \/ ~SetsBit(t) /\ ~ClearsBit(t) /\ UNCHANGED <<bits, bank, block>>
<1> USE DEF Typed, ThreadsTyped, Goto, shared
<1>1. CASE SetBit(t)
  BY <1>1 DEF SetBit, Taken, SetsBit, ClearsBit, LocalMove
<1>2. CASE ClearBit(t)
  BY <1>2 DEF ClearBit, SetsBit, ClearsBit, LocalMove
<1>3. CASE ~SetBit(t) /\ ~ClearBit(t)
  <2>1. CASE StoreKnown(t) \/ StoreNew(t)
    BY <2>1 DEF StoreKnown, StoreNew, SetsBit, ClearsBit
  <2>2. CASE FindEmptyLocation(t)
    <3>1. LookAtBank(t) \/ NoRoom(t) \/ ScanBits(t) \/ Count(t)
      BY <1>3, <2>2 DEF FindEmptyLocation
    <3> QED
      BY <3>1 DEF LookAtBank, NoRoom, ScanBits, Count, SetsBit, ClearsBit
  <2>3. CASE CheckRemoved(t) \/ Put(t) \/ Updated(t) \/ Publish(t)
    BY <2>3 DEF CheckRemoved, Put, Updated, Publish, SetsBit, ClearsBit
  <2>4. CASE SetRemoved(t) \/ Uncount(t)
    BY <2>4 DEF SetRemoved, Uncount, SetsBit, ClearsBit
  <2>5. CASE MapSteps(t)
    BY <2>5 DEF MapSteps, Drain, Evict, Drained, Notify, LeaveMap, SetsBit, ClearsBit
  <2>6. CASE FetchSteps(t)
    BY <2>6 DEF FetchSteps, Fetch, Look, Get, Fetched, SetsBit, ClearsBit
  <2> QED
    BY <1>3, <2>1, <2>2, <2>3, <2>4, <2>5, <2>6 DEF Step, StoreSteps, ReleaseLocation
<1> QED
  BY <1>1, <1>2, <1>3

LEMMA OwnInvInit == Init => OwnInv
<1> SUFFICES ASSUME Init PROVE OwnInv
  OBVIOUS
<1>1. Typed
  BY TypedInit
<1>2. \A l \in Locations : ~Owner(l)
  BY NameAssumption DEF Init, Owner, Has, Taking, Releasing
<1>3. OnePlace
  BY NameAssumption DEF Init, OnePlace, Has, Taking, Releasing
<1>4. OneOwner
  BY <1>2 DEF OneOwner
<1>5. BitsAreOwned
  BY <1>2 DEF Init, BitsAreOwned
<1>6. \A t \in Threads : Shaped(t) /\ Private(t)
  BY DEF Init, Shaped, Private, Taker, User, Releaser
<1> QED
  BY <1>1, <1>3, <1>4, <1>5, <1>6 DEF OwnInv

LEMMA OwnInvStep == OwnInv /\ [Next]_vars => OwnInv'
<1> SUFFICES ASSUME OwnInv, [Next]_vars PROVE OwnInv'
  OBVIOUS
<1>1. Typed /\ OnePlace /\ (\A t \in Threads : Shaped(t) /\ Private(t)) /\ OneOwner /\ BitsAreOwned
  BY DEF OwnInv
<1>2. Typed' /\ OnePlace' /\ \A t \in Threads : Shaped(t)' /\ Private(t)'
  BY <1>1, TypedStep, OnePlaceStep, ShapedStep, PrivateStep
<1>3. OneOwner' /\ BitsAreOwned'
  <2>1. CASE UNCHANGED vars
    BY <1>1, <2>1 DEF vars, OneOwner, BitsAreOwned, Owner, Has, Taking, Releasing
  <2>2. ASSUME NEW t \in Threads, Step(t) PROVE OneOwner' /\ BitsAreOwned'
    <3>t. bank \in [Locations -> Banks] /\ block \in [Locations -> Blocks]
          /\ bits \in [Banks -> SUBSET Blocks]
      BY <1>1 DEF Typed, SharedTyped
    <3>1. CASE ~SetsBit(t) /\ ~ClearsBit(t)
      <4>1. \A l \in Locations : Owner(l)' <=> Owner(l)
        BY <1>1, <2>2, <3>1, Owners
      <4>2. UNCHANGED <<bits, bank, block>>
        BY <1>1, <2>2, <3>1, BlockMoves
      <4> QED
        BY <1>1, <4>1, <4>2 DEF OneOwner, BitsAreOwned
    <3>2. CASE SetsBit(t)
      <4> DEFINE l == loc[t]
                 b == Bank(t)
                 n == bit[t]
      <4>1. l \in Locations /\ b \in Banks /\ n \in Blocks
        BY <1>1, <3>2, BankInBanks DEF SetsBit, Shaped, Taker, Typed, ThreadsTyped
      <4>2. ~Owner(l) /\ \A m \in Locations : Owner(m)' <=> Owner(m) \/ m = l
        BY <1>1, <2>2, <3>2, <4>1, Owners
      <4>3. /\ n \notin bits[b] /\ bits' = [bits EXCEPT ![b] = @ \cup {n}]
            /\ bank' = [bank EXCEPT ![l] = b] /\ block' = [block EXCEPT ![l] = n]
        <5>1. ~ClearsBit(t)
          BY <3>2 DEF SetsBit, ClearsBit
        <5> QED
          BY <1>1, <2>2, <3>2, <5>1, BlockMoves
      <4> HIDE DEF l, b, n
      <4>4. \A m \in Locations : /\ bank'[m] = IF m = l THEN b ELSE bank[m]
                                 /\ block'[m] = IF m = l THEN n ELSE block[m]
        BY <3>t, <4>3
      <4>5. \A a \in Banks : bits'[a] = IF a = b THEN bits[b] \cup {n} ELSE bits[a]
        BY <3>t, <4>3
      <4>6. \A m \in Locations : Owner(m) /\ bank[m] = b => block[m] \in bits[b]
        BY <1>1, <4>1 DEF BitsAreOwned
      <4>7. OneOwner'
        <5> SUFFICES ASSUME NEW m \in Locations, NEW k \in Locations, Owner(m)', Owner(k)',
                            bank'[m] = bank'[k], block'[m] = block'[k]
                     PROVE  m = k
          BY DEF OneOwner
        <5> QED
          BY <1>1, <4>2, <4>3, <4>4, <4>6 DEF OneOwner
      <4>8. ASSUME NEW a \in Banks
            PROVE bits'[a] = {block'[m] : m \in {k \in Locations : Owner(k)' /\ bank'[k] = a}}
        <5>1. bits[a] = {block[m] : m \in {k \in Locations : Owner(k) /\ bank[k] = a}}
          BY <1>1 DEF BitsAreOwned
        <5> DEFINE Old == {k \in Locations : Owner(k) /\ bank[k] = a}
                   New == {k \in Locations : Owner(k)' /\ bank'[k] = a}
        <5>2. New = IF a = b THEN Old \cup {l} ELSE Old
          BY <4>1, <4>2, <4>4
        <5>3. l \notin Old /\ \A m \in Old : m \in Locations /\ block'[m] = block[m]
          BY <4>2, <4>4
        <5> HIDE DEF Old, New
        <5>4. CASE a = b
          <6>1. {block'[m] : m \in New} = {block[m] : m \in Old} \cup {n}
            BY <4>1, <4>4, <5>2, <5>3, <5>4
          <6> QED
            BY <4>5, <5>1, <5>4, <6>1 DEF Old, New
        <5>5. CASE a # b
          <6>1. {block'[m] : m \in New} = {block[m] : m \in Old}
            BY <5>2, <5>3, <5>5
          <6> QED
            BY <4>5, <5>1, <5>5, <6>1 DEF Old, New
        <5> QED
          BY <5>4, <5>5
      <4> QED
        BY <4>7, <4>8 DEF BitsAreOwned
    <3>3. CASE ClearsBit(t)
      <4> DEFINE v == victim[t]
      <4>1. v \in Locations
        BY <1>1, <3>3 DEF ClearsBit, Shaped, Releaser, Typed, ThreadsTyped
      <4>2. Owner(v) /\ \A m \in Locations : Owner(m)' <=> Owner(m) /\ m # v
        BY <1>1, <2>2, <3>3, <4>1, Owners
      <4>3. UNCHANGED <<bank, block>> /\ bits' = [bits EXCEPT ![bank[v]] = @ \ {block[v]}]
        <5>1. ~SetsBit(t)
          BY <3>3 DEF SetsBit, ClearsBit
        <5> QED
          BY <1>1, <2>2, <3>3, <5>1, BlockMoves
      <4> HIDE DEF v
      <4>4. OneOwner'
        BY <1>1, <4>2, <4>3 DEF OneOwner
      <4>5. \A a \in Banks : bits'[a] = IF a = bank[v] THEN bits[a] \ {block[v]} ELSE bits[a]
        BY <3>t, <4>3
      <4>6. ASSUME NEW a \in Banks
            PROVE bits'[a] = {block'[m] : m \in {k \in Locations : Owner(k)' /\ bank'[k] = a}}
        <5> DEFINE Old == {k \in Locations : Owner(k) /\ bank[k] = a}
                   New == {k \in Locations : Owner(k)' /\ bank'[k] = a}
        <5>1. bits[a] = {block[m] : m \in Old}
          BY <1>1 DEF BitsAreOwned
        <5>2. New = Old \ {v} /\ block' = block /\ (v \in Old <=> a = bank[v])
          BY <4>1, <4>2, <4>3
        <5>3. \A m \in Old : m # v /\ a = bank[v] => block[m] # block[v]
          BY <1>1, <4>1, <4>2 DEF OneOwner
        <5> SUFFICES bits'[a] = {block'[m] : m \in New}
          OBVIOUS
        <5> HIDE DEF Old, New
        <5>4. CASE a = bank[v]
          <6>1. {block[m] : m \in Old \ {v}} = {block[m] : m \in Old} \ {block[v]}
            BY <5>3, <5>4
          <6> QED
            BY <4>5, <5>1, <5>2, <5>4, <6>1
        <5>5. CASE a # bank[v]
          <6>1. New = Old
            BY <5>2, <5>5
          <6> QED
            BY <4>5, <5>1, <5>2, <5>5, <6>1
        <5> QED
          BY <5>4, <5>5
      <4> QED
        BY <4>4, <4>6 DEF BitsAreOwned
    <3> QED
      BY <3>1, <3>2, <3>3
  <2> QED
    BY <2>1, <2>2, NextIsStep
<1> QED
  BY <1>1, <1>2, <1>3 DEF OwnInv
-----------------------------------------------------------------------------
(* The blocks of BlockCache that have an owner are known exactly, whatever *)
(* stores, fetches, evictions and releases run together.                   *)
THEOREM Owned == Spec => []OwnInv
<1> QED
  BY OwnInvInit, OwnInvStep, PTL DEF Spec

(* No two locations in use share a block of a bank: a block is handed out  *)
(* by findEmptyLocation only after releaseLocation has given it back.      *)
THEOREM BlocksAreExclusive == Spec => []OneOwner
<1>1. OwnInv => OneOwner
  BY DEF OwnInv
<1> QED
  BY <1>1, Owned, PTL

(* The bits of BlockLocks are set for exactly the blocks in use: releasing *)
(* what cache.put replaced leaks none when two stores of one key race.     *)
THEOREM NoBlockLeaks == Spec => []BitsAreOwned
<1>1. OwnInv => BitsAreOwned
  BY DEF OwnInv
<1> QED
  BY <1>1, Owned, PTL
-----------------------------------------------------------------------------
(* The counters.  Between a bit and its counter stand, for bank b:         *)
Counting(b) == {t \in Threads : pc[t] = "count" /\ Bank(t) = b}
Uncounting(b) == {t \in Threads : pc[t] = "uncount" /\ bank[victim[t]] = b}

Counted == \A b \in Banks :
  counter[b] = Cardinality(bits[b]) - Cardinality(Counting(b)) + Cardinality(Uncounting(b))

(* A thread that has taken a block looks for no other.                     *)
Located == \A t \in Threads : pc[t] = "count" => bank[loc[t]] = Bank(t)

CountInv == OwnInv /\ Counted /\ Located

LEMMA CountedIsFollowed == Counted <=> CounterFollowsBits
BY DEF Counted, CounterFollowsBits, Counting, Uncounting

LEMMA Finite ==
  ASSUME Typed, NEW b \in Banks
  PROVE  /\ IsFiniteSet(bits[b]) /\ Cardinality(bits[b]) \in 0..BlocksPerBank
         /\ IsFiniteSet(Counting(b)) /\ Cardinality(Counting(b)) \in Nat
         /\ IsFiniteSet(Uncounting(b))
         /\ Cardinality(Uncounting(b)) \in 0..Cardinality(Threads)
<1>1. IsFiniteSet(Blocks) /\ Cardinality(Blocks) = BlocksPerBank
  BY SizeAssumption, FS_Interval DEF Blocks
<1>2. bits[b] \in SUBSET Blocks
  BY DEF Typed, SharedTyped
<1>3. IsFiniteSet(bits[b]) /\ Cardinality(bits[b]) <= BlocksPerBank
  BY <1>1, <1>2, FS_Subset
<1>4. Counting(b) \in SUBSET Threads /\ Uncounting(b) \in SUBSET Threads
  BY DEF Counting, Uncounting
<1>5. IsFiniteSet(Counting(b))
  BY <1>4, ThreadsAssumption, FS_Subset
<1>6. IsFiniteSet(Uncounting(b)) /\ Cardinality(Uncounting(b)) <= Cardinality(Threads)
  BY <1>4, ThreadsAssumption, FS_Subset
<1>7. /\ Cardinality(bits[b]) \in Nat /\ Cardinality(Counting(b)) \in Nat
      /\ Cardinality(Uncounting(b)) \in Nat /\ Cardinality(Threads) \in Nat
  BY <1>3, <1>5, <1>6, ThreadsAssumption, FS_CardinalityType
<1> QED
  BY <1>3, <1>5, <1>6, <1>7, SizeAssumption

(* The steps that change a counter.                                        *)
Counts(t) == /\ pc[t] = "count" /\ pc'[t] = "fill" /\ LocalMove(t)
             /\ counter' = [counter EXCEPT ![Bank(t)] = @ + 1]
Uncounts(t) == /\ pc[t] = "uncount" /\ pc'[t] # "uncount" /\ pc'[t] # "count"
               /\ counter' = [counter EXCEPT ![bank[victim[t]]] = @ - 1]

LEMMA CounterMoves ==
  ASSUME Typed, NEW t \in Threads, Step(t)
  PROVE  /\ Counts(t) \/ Uncounts(t) \/ counter' = counter
         /\ Counts(t) \/ Uncounts(t) \/ SetsBit(t) \/ ClearsBit(t)
              \/ (pc[t] \notin {"count", "uncount"} /\ pc'[t] \notin {"count", "uncount"})
         /\ \A u \in Threads : u # t \/ pc'[t] = "count" \/ Counts(t) => tries'[u] = tries[u]
<1> USE DEF Typed, ThreadsTyped, SharedTyped, Goto, shared
<1>1. CASE StoreKnown(t) \/ StoreNew(t)
  BY <1>1 DEF StoreKnown, StoreNew, Counts
<1>2. CASE LookAtBank(t) \/ NoRoom(t) \/ ScanBits(t)
  BY <1>2 DEF LookAtBank, NoRoom, ScanBits, NextBank, Return, Counts
<1>3. CASE SetBit(t)
  BY <1>3 DEF SetBit, SetsBit, Counts, LocalMove
<1>4. CASE Count(t)
  BY <1>4 DEF Count, Counts, LocalMove
<1>5. CASE CheckRemoved(t) \/ Put(t) \/ Updated(t) \/ Publish(t)
  BY <1>5 DEF CheckRemoved, Put, Updated, Publish, Return, Counts
<1>6. CASE SetRemoved(t) \/ ClearBit(t)
  BY <1>6 DEF SetRemoved, ClearBit, ClearsBit, LocalMove, Counts
<1>7. CASE Uncount(t)
  BY <1>7 DEF Uncount, Uncounts, Counts, Return
<1>8. CASE MapSteps(t)
  BY <1>8 DEF MapSteps, Drain, Evict, Drained, Notify, LeaveMap, Return, Counts
<1>9. CASE FetchSteps(t)
  BY <1>9 DEF FetchSteps, Fetch, Look, Get, Fetched, Return, Counts
<1> QED
  BY <1>1, <1>2, <1>3, <1>4, <1>5, <1>6, <1>7, <1>8, <1>9
     DEF Step, StoreSteps, FindEmptyLocation, ReleaseLocation

LEMMA OthersCount ==
  ASSUME OwnInv, NEW t \in Threads, Step(t), NEW u \in Threads, u # t, NEW b \in Banks
  PROVE  /\ u \in Counting(b)' <=> u \in Counting(b)
         /\ u \in Uncounting(b)' <=> u \in Uncounting(b)
         /\ pc[u] = "count" => bank'[loc[u]] = bank[loc[u]]
<1>1. Typed /\ Shaped(t) /\ Private(t) /\ Shaped(u)
  BY DEF OwnInv
<1>2. pc'[u] = pc[u] /\ loc'[u] = loc[u] /\ victim'[u] = victim[u] /\ tries'[u] = tries[u]
  BY <1>1, Frame, CounterMoves
<1>3. /\ pc[u] = "count" => bank'[loc[u]] = bank[loc[u]]
      /\ pc[u] = "uncount" => bank'[victim[u]] = bank[victim[u]]
  <2>1. CASE bank' = bank
    BY <2>1
  <2>2. CASE bank' # bank
    <3>1. SetsBit(t) /\ bank' = [bank EXCEPT ![loc[t]] = Bank(t)]
      BY <1>1, <2>2, BlockMoves DEF OwnInv
    <3>2. loc[u] # loc[t] /\ victim[u] # loc[t]
      BY <1>1, <3>1 DEF Private, SetsBit, Taker
    <3>3. /\ pc[u] = "count" => loc[u] \in Locations
          /\ pc[u] = "uncount" => victim[u] \in Locations
      BY <1>1 DEF Shaped, Taker, Releaser, Typed, ThreadsTyped
    <3> QED
      BY <1>1, <3>1, <3>2, <3>3 DEF Typed, SharedTyped
  <2> QED
    BY <2>1, <2>2
<1> QED
  BY <1>2, <1>3 DEF Counting, Uncounting, Bank

LEMMA LocatedStep ==
  ASSUME OwnInv, Located, NEW t \in Threads, Step(t)
  PROVE  Located'
<1>1. Typed /\ Shaped(t) /\ Private(t)
  BY DEF OwnInv
<1> SUFFICES ASSUME NEW u \in Threads, pc'[u] = "count"
             PROVE  bank'[loc'[u]] = Bank(u)'
  BY DEF Located
<1>2. CASE u # t
  <2>1. pc'[u] = pc[u] /\ loc'[u] = loc[u] /\ tries'[u] = tries[u]
    BY <1>1, <1>2, Frame, CounterMoves
  <2>2. bank'[loc[u]] = bank[loc[u]]
    BY <1>2, <2>1, OthersCount, SizeAssumption DEF Banks
  <2> QED
    BY <2>1, <2>2 DEF Located, Bank
<1>3. CASE u = t
  <2>1. SetsBit(t) /\ tries'[t] = tries[t]
    BY <1>1, <1>3, CounterMoves DEF Counts, Uncounts, ClearsBit
  <2>2. bank' = [bank EXCEPT ![loc[t]] = Bank(t)]
    BY <1>1, <2>1, BlockMoves DEF OwnInv, SetsBit, ClearsBit
  <2>3. loc[t] \in Locations /\ loc'[t] = loc[t]
    BY <1>1, <2>1 DEF SetsBit, LocalMove, Shaped, Taker, Typed, ThreadsTyped
  <2> QED
    BY <1>1, <1>3, <2>1, <2>2, <2>3 DEF Typed, SharedTyped, Bank
<1> QED
  BY <1>2, <1>3

LEMMA CountedStep ==
  ASSUME OwnInv, OwnInv', Counted, Located, NEW t \in Threads, Step(t)
  PROVE  Counted'
<1>1. Typed /\ Typed' /\ Shaped(t) /\ BitsAreOwned
  BY DEF OwnInv
<1> SUFFICES ASSUME NEW b \in Banks
             PROVE  counter'[b] = Cardinality(bits'[b]) - Cardinality(Counting(b)')
                                    + Cardinality(Uncounting(b)')
  BY DEF Counted
<1>2. /\ counter[b] = Cardinality(bits[b]) - Cardinality(Counting(b))
                        + Cardinality(Uncounting(b))
      /\ counter \in [Banks -> Int]
  BY <1>1 DEF Counted, Typed, SharedTyped
<1>3. /\ IsFiniteSet(bits[b]) /\ Cardinality(bits[b]) \in Int
      /\ IsFiniteSet(Counting(b)) /\ Cardinality(Counting(b)) \in Int
      /\ IsFiniteSet(Uncounting(b)) /\ Cardinality(Uncounting(b)) \in Int
  <2>1. Cardinality(bits[b]) \in Nat /\ Cardinality(Uncounting(b)) \in Nat
    BY <1>1, Finite, FS_CardinalityType
  <2> QED
    BY <1>1, <2>1, Finite
<1>4. \A u \in Threads \ {t} : /\ u \in Counting(b)' <=> u \in Counting(b)
                               /\ u \in Uncounting(b)' <=> u \in Uncounting(b)
  BY OthersCount
<1>5. /\ Counting(b) \subseteq Threads /\ Uncounting(b) \subseteq Threads
      /\ Counting(b)' \subseteq Threads /\ Uncounting(b)' \subseteq Threads
  BY DEF Counting, Uncounting
<1>6. \A u \in Threads : u # t \/ pc'[t] = "count" \/ Counts(t) => tries'[u] = tries[u]
  BY <1>1, CounterMoves
<1>7. CASE SetsBit(t)
  <2>1. bits' = [bits EXCEPT ![Bank(t)] = @ \cup {bit[t]}] /\ bit[t] \notin bits[Bank(t)]
    BY <1>1, <1>7, BlockMoves DEF OwnInv, SetsBit, ClearsBit
  <2>2. counter' = counter /\ Bank(t)' = Bank(t)
    BY <1>1, <1>6, <1>7, CounterMoves DEF Counts, Uncounts, SetsBit, Bank
  <2>3. Uncounting(b)' = Uncounting(b)
    <3>1. t \notin Uncounting(b) /\ t \notin Uncounting(b)'
      BY <1>7 DEF Uncounting, SetsBit
    <3> QED
      BY <1>4, <1>5, <3>1
  <2>4. Counting(b)' = IF b = Bank(t) THEN Counting(b) \cup {t} ELSE Counting(b)
    <3>1. t \notin Counting(b) /\ (t \in Counting(b)' <=> b = Bank(t))
      BY <1>7, <2>2 DEF Counting, SetsBit
    <3> QED
      BY <1>4, <1>5, <3>1
  <2>5. t \notin Counting(b)
    BY <1>7 DEF Counting, SetsBit
  <2>6. bits'[b] = IF b = Bank(t) THEN bits[b] \cup {bit[t]} ELSE bits[b]
    BY <1>1, <2>1 DEF Typed, SharedTyped
  <2>7. CASE b = Bank(t)
    <3>1. Cardinality(bits'[b]) = Cardinality(bits[b]) + 1
      <4>1. bits'[b] = bits[b] \cup {bit[t]} /\ bit[t] \notin bits[b]
        BY <2>1, <2>6, <2>7
      <4> QED
        BY <1>3, <4>1, FS_AddElement
    <3>2. Cardinality(Counting(b)') = Cardinality(Counting(b)) + 1
      BY <1>3, <2>4, <2>5, <2>7, FS_AddElement
    <3> QED
      BY <1>2, <1>3, <2>2, <2>3, <3>1, <3>2
  <2> QED
    BY <1>2, <2>2, <2>3, <2>4, <2>6, <2>7
<1>8. CASE Counts(t)
  <2>1. bits' = bits
    BY <1>1, <1>8, BlockMoves DEF OwnInv, Counts, SetsBit, ClearsBit
  <2>2. counter'[b] = IF b = Bank(t) THEN counter[b] + 1 ELSE counter[b]
    BY <1>2, <1>8 DEF Counts
  <2>3. Uncounting(b)' = Uncounting(b)
    <3>1. t \notin Uncounting(b) /\ t \notin Uncounting(b)'
      BY <1>8 DEF Uncounting, Counts
    <3> QED
      BY <1>4, <1>5, <3>1
  <2>4. t \notin Counting(b)' /\ (t \in Counting(b) <=> b = Bank(t))
    BY <1>8 DEF Counting, Counts
  <2>5. Counting(b)' = Counting(b) \ {t}
    BY <1>4, <1>5, <2>4
  <2>6. Cardinality(Counting(b)')
          = IF b = Bank(t) THEN Cardinality(Counting(b)) - 1 ELSE Cardinality(Counting(b))
    BY <1>3, <2>4, <2>5, FS_RemoveElement
  <2> QED
    BY <1>2, <1>3, <2>1, <2>2, <2>3, <2>6
<1>9. CASE ClearsBit(t)
  <2>1. /\ bits' = [bits EXCEPT ![bank[victim[t]]] = @ \ {block[victim[t]]}] /\ bank' = bank
        /\ victim[t] \in Locations /\ victim' = victim
    <3>1. victim[t] \in Locations /\ victim' = victim
      BY <1>1, <1>9 DEF ClearsBit, LocalMove, Shaped, Releaser, Typed, ThreadsTyped
    <3> QED
      BY <1>1, <1>9, <3>1, BlockMoves DEF OwnInv, SetsBit, ClearsBit
  <2>2. counter' = counter
    BY <1>1, <1>9, CounterMoves DEF Counts, Uncounts, ClearsBit
  <2>3. Counting(b)' = Counting(b)
    <3>1. t \notin Counting(b) /\ t \notin Counting(b)'
      BY <1>9 DEF Counting, ClearsBit
    <3> QED
      BY <1>4, <1>5, <3>1
  <2>4. t \notin Uncounting(b) /\ (t \in Uncounting(b)' <=> b = bank[victim[t]])
    BY <1>9, <2>1 DEF Uncounting, ClearsBit
  <2>5. Uncounting(b)' = IF b = bank[victim[t]] THEN Uncounting(b) \cup {t} ELSE Uncounting(b)
    BY <1>4, <1>5, <2>4
  <2>6. b = bank[victim[t]] => block[victim[t]] \in bits[b]
    <3>1. Owner(victim[t])
      BY <1>9, <2>1 DEF ClearsBit, Owner, Has, Releasing
    <3> QED
      BY <1>1, <2>1, <3>1 DEF BitsAreOwned
  <2>7. bits'[b] = IF b = bank[victim[t]] THEN bits[b] \ {block[victim[t]]} ELSE bits[b]
    BY <1>1, <2>1 DEF Typed, SharedTyped
  <2>8. CASE b = bank[victim[t]]
    <3>1. Cardinality(bits'[b]) = Cardinality(bits[b]) - 1
      BY <1>3, <2>6, <2>7, <2>8, FS_RemoveElement
    <3>2. Cardinality(Uncounting(b)') = Cardinality(Uncounting(b)) + 1
      BY <1>3, <2>4, <2>5, <2>8, FS_AddElement
    <3> QED
      BY <1>2, <1>3, <2>2, <2>3, <3>1, <3>2
  <2> QED
    BY <1>2, <2>2, <2>3, <2>5, <2>7, <2>8
<1>10. CASE Uncounts(t)
  <2>1. bits' = bits
    BY <1>1, <1>10, BlockMoves DEF OwnInv, Uncounts, SetsBit, ClearsBit
  <2>2. counter'[b] = IF b = bank[victim[t]] THEN counter[b] - 1 ELSE counter[b]
    BY <1>2, <1>10 DEF Uncounts
  <2>3. Counting(b)' = Counting(b)
    <3>1. t \notin Counting(b) /\ t \notin Counting(b)'
      BY <1>10 DEF Counting, Uncounts
    <3> QED
      BY <1>4, <1>5, <3>1
  <2>4. t \notin Uncounting(b)' /\ (t \in Uncounting(b) <=> b = bank[victim[t]])
    BY <1>10 DEF Uncounting, Uncounts
  <2>5. Uncounting(b)' = Uncounting(b) \ {t}
    BY <1>4, <1>5, <2>4
  <2>6. Cardinality(Uncounting(b)')
          = IF b = bank[victim[t]] THEN Cardinality(Uncounting(b)) - 1
            ELSE Cardinality(Uncounting(b))
    BY <1>3, <2>4, <2>5, FS_RemoveElement
  <2> QED
    BY <1>2, <1>3, <2>1, <2>2, <2>3, <2>6
<1>11. CASE ~SetsBit(t) /\ ~ClearsBit(t) /\ ~Counts(t) /\ ~Uncounts(t)
  <2>1. bits' = bits /\ counter' = counter
    BY <1>1, <1>11, BlockMoves, CounterMoves DEF OwnInv
  <2>2. pc[t] \notin {"count", "uncount"} /\ pc'[t] \notin {"count", "uncount"}
    BY <1>1, <1>11, CounterMoves
  <2>3. /\ t \notin Counting(b) /\ t \notin Counting(b)'
        /\ t \notin Uncounting(b) /\ t \notin Uncounting(b)'
    BY <2>2 DEF Counting, Uncounting
  <2>4. Counting(b)' = Counting(b) /\ Uncounting(b)' = Uncounting(b)
    BY <1>4, <1>5, <2>3
  <2> QED
    BY <1>2, <2>1, <2>4
<1> QED
  BY <1>7, <1>8, <1>9, <1>10, <1>11

LEMMA CountInvInit == Init => CountInv
<1> SUFFICES ASSUME Init PROVE CountInv
  OBVIOUS
<1>1. OwnInv
  BY OwnInvInit
<1>2. \A b \in Banks : Counting(b) = {} /\ Uncounting(b) = {} /\ bits[b] = {} /\ counter[b] = 0
  BY DEF Init, Counting, Uncounting
<1>3. Counted
  BY <1>2, FS_EmptySet DEF Counted
<1>4. Located
  BY DEF Init, Located
<1> QED
  BY <1>1, <1>3, <1>4 DEF CountInv

LEMMA CountInvStep == CountInv /\ [Next]_vars => CountInv'
<1> SUFFICES ASSUME CountInv, [Next]_vars PROVE CountInv'
  OBVIOUS
<1>1. OwnInv /\ Counted /\ Located /\ OwnInv'
  BY OwnInvStep DEF CountInv
<1>2. CASE UNCHANGED vars
  <2>1. Counted'
    BY <1>1, <1>2 DEF vars, Counted, Counting, Uncounting, Bank
  <2>2. Located'
    BY <1>1, <1>2 DEF vars, Located, Bank
  <2> QED
    BY <1>1, <2>1, <2>2 DEF CountInv
<1>3. ASSUME NEW t \in Threads, Step(t) PROVE CountInv'
  BY <1>1, <1>3, CountedStep, LocatedStep DEF CountInv
<1> QED
  BY <1>2, <1>3, NextIsStep

(* As many threads as there are bits set can stand between their bit and   *)
(* its counter, so no counter goes below zero.                             *)
LEMMA CountInvTypes == CountInv => TypeOK
<1> SUFFICES ASSUME CountInv PROVE TypeOK
  OBVIOUS
<1>1. Typed /\ OnePlace /\ OneOwner /\ BitsAreOwned /\ (\A t \in Threads : Shaped(t))
      /\ Counted /\ Located
  BY DEF CountInv, OwnInv
<1>2. ASSUME NEW b \in Banks
      PROVE counter[b] \in 0..(BlocksPerBank + Cardinality(Threads))
  <2>1. /\ IsFiniteSet(bits[b]) /\ Cardinality(bits[b]) \in 0..BlocksPerBank
        /\ Cardinality(Counting(b)) \in Nat
        /\ Cardinality(Uncounting(b)) \in 0..Cardinality(Threads)
    BY <1>1, Finite
  <2>2. Cardinality(Counting(b)) <= Cardinality(bits[b])
    <3> DEFINE f == [t \in Counting(b) |-> block[loc[t]]]
    <3>1. ASSUME NEW t \in Counting(b)
          PROVE /\ t \in Threads /\ loc[t] \in Locations /\ Has(t, loc[t])
                /\ Owner(loc[t]) /\ bank[loc[t]] = b
      <4>1. t \in Threads /\ pc[t] = "count" /\ bank[loc[t]] = b
        BY <1>1 DEF Counting, Located
      <4>2. loc[t] \in Locations
        BY <1>1, <4>1 DEF Shaped, Taker, Typed, ThreadsTyped
      <4> QED
        BY <4>1, <4>2 DEF Has, Taking, Owner
    <3>2. \A t \in Counting(b) : f[t] \in bits[b]
      BY <1>1, <3>1 DEF BitsAreOwned
    <3>3. \A t, u \in Counting(b) : f[t] = f[u] => t = u
      <4> SUFFICES ASSUME NEW t \in Counting(b), NEW u \in Counting(b), f[t] = f[u]
                   PROVE  t = u
        OBVIOUS
      <4>1. loc[t] = loc[u]
        BY <1>1, <3>1 DEF OneOwner
      <4> QED
        BY <1>1, <3>1, <4>1 DEF OnePlace
    <3>4. f \in Injection(Counting(b), bits[b])
      BY <3>2, <3>3 DEF Injection, IsInjective
    <3> QED
      BY <2>1, <3>4, FS_Injection
  <2>3. counter[b] = Cardinality(bits[b]) - Cardinality(Counting(b))
                       + Cardinality(Uncounting(b))
    BY <1>1 DEF Counted
  <2>4. Cardinality(Threads) \in Nat /\ BlocksPerBank \in Nat
    BY ThreadsAssumption, SizeAssumption, FS_CardinalityType
  <2> QED
    BY <2>1, <2>2, <2>3, <2>4
<1> QED
  BY <1>1, <1>2 DEF TypeOK, Typed
-----------------------------------------------------------------------------
THEOREM CountedAlways == Spec => []CountInv
<1> QED
  BY CountInvInit, CountInvStep, PTL DEF Spec

(* The counter of a bank is the number of its bits, give or take the       *)
(* threads between BlockLocks and lockCounters: incrementAndGet and        *)
(* decrementAndGet never drift apart from set and clear.                   *)
THEOREM CountersFollow == Spec => []CounterFollowsBits
<1>1. CountInv => CounterFollowsBits
  BY CountedIsFollowed DEF CountInv
<1> QED
  BY <1>1, CountedAlways, PTL

(* The map, the banks and the threads keep their types, and no counter is  *)
(* ever negative or out of bounds.                                         *)
THEOREM Types == Spec => []TypeOK
<1> QED
  BY CountInvTypes, CountedAlways, PTL
-----------------------------------------------------------------------------
(* What a fetch reads, with a single thread that stores.  Who stores and   *)
(* what is removed:                                                        *)
Updating(t) == pc[t] \in {"check", "update"}
Reading(t)  == pc[t] \in {"look", "read"}

RolesFit == \A t \in Threads : Taker(t) \/ Updating(t) => "store" \in role[t]
Marked   == \A t \in Threads : pc[t] \in {"clear", "uncount"} => removed[victim[t]]

(* A location that a thread got from the map and that is not removed is in *)
(* use yet, and everybody who has it has it for the same key.              *)
LiveOwned == \A t \in Threads, l \in Locations :
               User(t) /\ loc[t] = l /\ ~removed[l] => Owner(l)
OneKey ==
  /\ \A t \in Threads, k \in Keys : User(t) /\ cache[k] = loc[t] => k = key[t]
  /\ \A t, u \in Threads : User(t) /\ User(u) /\ loc[t] = loc[u] => key[t] = key[u]

(* Where a location is that stands for a key, there is what was stored     *)
(* under the key; nothing was before its block was taken.                  *)
Unfilled == \A t \in Threads : pc[t] \in {"bank", "scan", "lock"} => filled[loc[t]] = {}
StandsFor(l, k) ==
  \/ cache[k] = l
  \/ \E t \in Threads : loc[t] = l /\ key[t] = k /\ (Taker(t) \/ (User(t) /\ ~removed[l]))
Bytes == \A l \in Locations, k \in Keys :
           StandsFor(l, k) => \A p \in filled[l] : data[bank[l]][block[l]][p] = k

(* The block of a location that a store found is nobody else's, also when  *)
(* the location is removed before the store writes.                        *)
Undisturbed ==
  \A t \in Threads : Updating(t) =>
    \A l \in Locations : Owner(l) /\ bank[l] = bank[loc[t]] /\ block[l] = block[loc[t]] => l = loc[t]

LiveInv == /\ OwnInv /\ RolesFit /\ Marked /\ LiveOwned /\ OneKey /\ Unfilled
           /\ OneStorer => Bytes /\ Undisturbed

(* What a step does to the use its thread makes of a location.             *)
FoundFor(t) ==
  /\ FoundMove(t)
  /\ \E k \in Keys : cache[k] # NoLocation /\ loc'[t] = cache[k] /\ key'[t] = k
  /\ pc'[t] = "look" \/ (pc'[t] = "check" /\ "store" \in role[t])
Stays(t) ==
  /\ key'[t] = key[t]
  /\ Taker(t)' => Taker(t) /\ loc'[t] = loc[t]
  /\ pc'[t] \in {"bank", "scan", "lock"} => pc[t] \in {"bank", "scan", "lock"}
  /\ Updating(t)' => Updating(t) /\ loc'[t] = loc[t]
  /\ Reading(t)' => Reading(t) /\ loc'[t] = loc[t]

LEMMA Uses ==
  ASSUME Typed, NEW t \in Threads, Step(t)
  PROVE  /\ role' = role /\ \A u \in Threads : u # t => key'[u] = key[u]
         /\ FoundFor(t) \/ (NewMove(t) /\ "store" \in role[t]) \/ Stays(t)
<1> USE DEF Typed, SharedTyped, ThreadsTyped, Goto, shared, Taker, Updating, Reading
<1>1. CASE StoreKnown(t)
  <2>1. FoundMove(t)
    BY <1>1 DEF StoreKnown, FoundMove
  <2>2. FoundFor(t)
    BY <1>1, <2>1 DEF StoreKnown, FoundFor
  <2> QED
    BY <1>1, <2>2 DEF StoreKnown
<1>2. CASE StoreNew(t)
  <2>1. NewMove(t)
    BY <1>2, NewIsNew DEF StoreNew, NewMove
  <2> QED
    BY <1>2, <2>1 DEF StoreNew
<1>3. CASE FindEmptyLocation(t)
  <2>1. Stays(t)
    BY <1>3 DEF FindEmptyLocation, LookAtBank, NoRoom, ScanBits, SetBit, Count, NextBank, Return, Stays
  <2>2. role' = role /\ key' = key
    BY <1>3 DEF FindEmptyLocation, LookAtBank, NoRoom, ScanBits, SetBit, Count, NextBank, Return
  <2> QED
    BY <2>1, <2>2
<1>4. CASE CheckRemoved(t) \/ Put(t) \/ Updated(t) \/ Publish(t)
  <2>1. Stays(t)
    BY <1>4 DEF CheckRemoved, Put, Updated, Publish, Return, Stays
  <2>2. role' = role /\ key' = key
    BY <1>4 DEF CheckRemoved, Put, Updated, Publish, Return
  <2> QED
    BY <2>1, <2>2
<1>5. CASE ReleaseLocation(t)
  <2>1. Stays(t)
    BY <1>5 DEF ReleaseLocation, SetRemoved, ClearBit, Uncount, Return, Stays
  <2>2. role' = role /\ key' = key
    BY <1>5 DEF ReleaseLocation, SetRemoved, ClearBit, Uncount, Return
  <2> QED
    BY <2>1, <2>2
<1>6. CASE MapSteps(t)
  <2>1. Stays(t)
    BY <1>6 DEF MapSteps, Drain, Evict, Drained, Notify, LeaveMap, Return, Stays
  <2>2. role' = role /\ key' = key
    BY <1>6 DEF MapSteps, Drain, Evict, Drained, Notify, LeaveMap, Return
  <2> QED
    BY <2>1, <2>2
<1>7. CASE Fetch(t)
  <2>1. FoundMove(t)
    BY <1>7 DEF Fetch, FoundMove
  <2>2. FoundFor(t)
    BY <1>7, <2>1 DEF Fetch, FoundFor
  <2> QED
    BY <1>7, <2>2 DEF Fetch
<1>8. CASE Look(t) \/ Get(t) \/ Fetched(t)
  <2>1. Stays(t)
    BY <1>8 DEF Look, Get, Fetched, Return, Stays
  <2>2. role' = role /\ key' = key
    BY <1>8 DEF Look, Get, Fetched, Return
  <2> QED
    BY <2>1, <2>2
<1> QED
  BY <1>1, <1>2, <1>3, <1>4, <1>5, <1>6, <1>7, <1>8 DEF Step, StoreSteps, FetchSteps

(* What it does to the bytes and the marks of locations.                   *)
PutMove(t) ==
  /\ pc[t] \in {"fill", "update"} /\ LocalMove(t)
  /\ UNCHANGED <<pc, key, removed, bank, block>>
  /\ \E p \in todo[t] :
       /\ data' = [data EXCEPT ![bank[loc[t]]][block[loc[t]]][p] = key[t]]
       /\ filled' = [filled EXCEPT ![loc[t]] = @ \cup {p}]
MadeMove(t) ==
  /\ NewMove(t) /\ data' = data
  /\ removed' = [removed EXCEPT ![loc'[t]] = FALSE]
  /\ filled' = [filled EXCEPT ![loc'[t]] = {}]
MarkMove(t) ==
  /\ pc[t] = "mark" /\ pc'[t] = "clear" /\ LocalMove(t)
  /\ removed' = [removed EXCEPT ![victim[t]] = TRUE]
  /\ UNCHANGED <<data, filled>>

LEMMA Fills ==
  ASSUME Typed, NEW t \in Threads, Step(t)
  PROVE  \/ PutMove(t) \/ MadeMove(t) \/ MarkMove(t)
         \/ UNCHANGED <<data, filled, removed>> /\ pc'[t] # "clear" /\ ~NewMove(t)
<1> USE DEF Typed, SharedTyped, ThreadsTyped, Goto, shared
<1>1. CASE StoreKnown(t) \/ Fetch(t)
  BY <1>1 DEF StoreKnown, Fetch, NewMove
<1>2. CASE StoreNew(t)
  <2>1. NewMove(t) /\ loc'[t] = NewLocation
    BY <1>2, NewIsNew DEF StoreNew, NewMove
  <2> QED
    BY <1>2, <2>1 DEF StoreNew, MadeMove
<1>3. CASE FindEmptyLocation(t)
  BY <1>3 DEF FindEmptyLocation, LookAtBank, NoRoom, ScanBits, SetBit, Count, NextBank, Return, NewMove
<1>4. CASE CheckRemoved(t) \/ Updated(t) \/ Publish(t)
  BY <1>4 DEF CheckRemoved, Updated, Publish, Return, NewMove
<1>5. CASE Put(t)
  <2>1. PutMove(t)
    BY <1>5 DEF Put, PutMove, LocalMove
  <2> QED
    BY <2>1
<1>6. CASE SetRemoved(t)
  <2>1. MarkMove(t)
    BY <1>6 DEF SetRemoved, MarkMove, LocalMove
  <2> QED
    BY <2>1
<1>7. CASE ClearBit(t) \/ Uncount(t)
  BY <1>7 DEF ClearBit, Uncount, Return, NewMove
<1>8. CASE MapSteps(t)
  BY <1>8 DEF MapSteps, Drain, Evict, Drained, Notify, LeaveMap, Return, NewMove
<1>9. CASE Look(t) \/ Get(t) \/ Fetched(t)
  BY <1>9 DEF Look, Get, Fetched, Return, NewMove
<1> QED
  BY <1>1, <1>2, <1>3, <1>4, <1>5, <1>6, <1>7, <1>8, <1>9
     DEF Step, StoreSteps, ReleaseLocation, FetchSteps

(* The made location is new to everybody.                                  *)
LEMMA MadeIsNew ==
  ASSUME Typed, NEW t \in Threads, MadeMove(t)
  PROVE  /\ loc'[t] \in Locations
         /\ \A u \in Threads : loc[u] # loc'[t] /\ victim[u] # loc'[t] /\ prior[u] # loc'[t]
         /\ \A k \in Keys : cache[k] # loc'[t]
         /\ \A l \in Locations : l # loc'[t] => removed'[l] = removed[l] /\ filled'[l] = filled[l]
         /\ filled'[loc'[t]] = {}
BY DEF MadeMove, NewMove, Referenced, Typed, SharedTyped

(* No step takes the mark from a location that somebody has.               *)
LEMMA MarksStay ==
  ASSUME Typed, NEW t \in Threads, Step(t), NEW l \in Locations, removed[l],
         \/ \E u \in Threads : loc[u] = l \/ victim[u] = l
         \/ \E k \in Keys : cache[k] = l
  PROVE  removed'[l]
<1>1. CASE MadeMove(t)
  BY <1>1, MadeIsNew
<1>2. CASE MarkMove(t)
  BY <1>2 DEF MarkMove, Typed, SharedTyped
<1>3. CASE removed' = removed
  BY <1>3
<1> QED
  BY <1>1, <1>2, <1>3, Fills DEF PutMove

LEMMA RolesStep ==
  ASSUME Typed, RolesFit, NEW t \in Threads, Step(t)
  PROVE  RolesFit'
<1> SUFFICES ASSUME NEW u \in Threads, Taker(u)' \/ Updating(u)'
             PROVE  "store" \in role'[u]
  BY DEF RolesFit
<1>1. role' = role
  BY Uses
<1>2. CASE u # t
  <2>1. pc'[u] = pc[u]
    BY <1>2, Frame
  <2> QED
    BY <1>1, <2>1 DEF RolesFit, Taker, Updating
<1>3. CASE u = t
  <2>1. CASE Stays(t)
    BY <1>1, <1>3, <2>1 DEF Stays, RolesFit
  <2>2. CASE FoundFor(t)
    BY <1>1, <1>3, <2>2 DEF FoundFor, Taker, Updating
  <2>3. CASE "store" \in role[t]
    BY <1>1, <1>3, <2>3
  <2> QED
    BY <2>1, <2>2, <2>3, Uses
<1> QED
  BY <1>2, <1>3

LEMMA MarkedStep ==
  ASSUME Typed, \A u \in Threads : Shaped(u), Marked, NEW t \in Threads, Step(t)
  PROVE  Marked'
<1> SUFFICES ASSUME NEW u \in Threads, pc'[u] \in {"clear", "uncount"}
             PROVE  removed'[victim'[u]]
  BY DEF Marked
<1>1. ASSUME pc[u] \in {"clear", "uncount"}, victim'[u] = victim[u]
      PROVE  removed'[victim'[u]]
  <2>1. victim[u] \in Locations /\ removed[victim[u]]
    BY <1>1 DEF Marked, Shaped, Releaser, Typed, ThreadsTyped
  <2> QED
    BY <1>1, <2>1, MarksStay
<1>2. CASE u # t
  <2>1. pc'[u] = pc[u] /\ victim'[u] = victim[u]
    BY <1>2, Frame
  <2> QED
    BY <1>1, <2>1
<1>3. CASE u = t /\ pc'[t] = "uncount"
  <2>1. LocalMove(t) /\ LocalPhases(t)
    BY <1>3, Moves DEF ReturnMove, FoundMove, NewMove, PublishMove, EvictMove, NotifyMove, PriorMove, NextMove
  <2>2. pc[t] = "clear" /\ victim'[t] = victim[t]
    BY <1>3, <2>1 DEF LocalMove, LocalPhases, User
  <2> QED
    BY <1>1, <1>3, <2>2
<1>4. CASE u = t /\ pc'[t] = "clear"
  <2>1. MarkMove(t)
    BY <1>4, Fills DEF PutMove, MadeMove, NewMove
  <2>2. victim[t] \in Locations /\ victim'[t] = victim[t]
    BY <2>1 DEF MarkMove, LocalMove, Shaped, Releaser, Typed, ThreadsTyped
  <2> QED
    BY <1>4, <2>1, <2>2 DEF MarkMove, Typed, SharedTyped
<1> QED
  BY <1>2, <1>3, <1>4

(* A thread that uses a location after a step had it before, or has found  *)
(* it for its key.                                                         *)
LEMMA UsersMove ==
  ASSUME Typed, \A u \in Threads : Shaped(u), NEW t \in Threads, Step(t), NEW u \in Threads, User(u)'
  PROVE  \/ /\ User(u) /\ loc'[u] = loc[u] /\ key'[u] = key[u]
            /\ Updating(u)' => Updating(u)
         \/ /\ u = t /\ FoundMove(t)
            /\ \E k \in Keys : cache[k] # NoLocation /\ loc'[t] = cache[k] /\ key'[t] = k
<1>1. CASE u # t
  <2>1. pc'[u] = pc[u] /\ loc'[u] = loc[u] /\ key'[u] = key[u]
    BY <1>1, Frame, Uses
  <2> QED
    BY <2>1 DEF User, Updating
<1>2. CASE u = t
  <2>1. CASE Stays(t)
    BY <1>2, <2>1 DEF Stays, User, Updating, Reading
  <2>2. CASE FoundFor(t)
    BY <1>2, <2>2 DEF FoundFor
  <2>3. CASE NewMove(t)
    BY <1>2, <2>3 DEF NewMove, User
  <2> QED
    BY <2>1, <2>2, <2>3, Uses
<1> QED
  BY <1>1, <1>2

LEMMA TakersMove ==
  ASSUME Typed, NEW t \in Threads, Step(t), NEW u \in Threads, Taker(u)'
  PROVE  \/ /\ Taker(u) /\ loc'[u] = loc[u] /\ key'[u] = key[u]
            /\ pc'[u] \in {"bank", "scan", "lock"} => pc[u] \in {"bank", "scan", "lock"}
         \/ u = t /\ MadeMove(t)
<1>1. CASE u # t
  <2>1. pc'[u] = pc[u] /\ loc'[u] = loc[u] /\ key'[u] = key[u]
    BY <1>1, Frame, Uses
  <2> QED
    BY <2>1 DEF Taker
<1>2. CASE u = t
  <2>1. CASE Stays(t)
    BY <1>2, <2>1 DEF Stays
  <2>2. CASE FoundFor(t)
    BY <1>2, <2>2 DEF FoundFor, Taker
  <2>3. CASE NewMove(t)
    <3>1. MadeMove(t)
      BY <2>3, Fills DEF NewMove, PutMove, MarkMove
    <3> QED
      BY <1>2, <3>1
  <2> QED
    BY <2>1, <2>2, <2>3, Uses
<1> QED
  BY <1>1, <1>2

LEMMA LiveOwnedStep ==
  ASSUME OwnInv, Marked, LiveOwned, NEW t \in Threads, Step(t)
  PROVE  LiveOwned'
<1>0. Typed /\ OnePlace /\ (\A u \in Threads : Shaped(u) /\ Private(u)) /\ (\A u \in Threads : Shaped(u)')
  <2>1. Typed /\ OnePlace /\ \A u \in Threads : Shaped(u) /\ Private(u)
    BY DEF OwnInv
  <2>2. [Next]_vars
    BY NextIsStep
  <2> QED
    BY <2>1, <2>2, ShapedStep
<1> SUFFICES ASSUME NEW u \in Threads, NEW l \in Locations, User(u)', loc'[u] = l, ~removed'[l]
             PROVE  Owner(l)'
  BY DEF LiveOwned
<1>1. CASE User(u) /\ loc[u] = l
  <2>1. ~removed[l]
    BY <1>0, <1>1, MarksStay
  <2>2. Owner(l)
    BY <1>1, <2>1 DEF LiveOwned
  <2>3. ~ClearsBit(t) \/ l # victim[t]
    BY <2>1 DEF Marked, ClearsBit
  <2> QED
    BY <1>0, <2>2, <2>3, Owners
<1>2. CASE u = t /\ FoundMove(t)
  <2>1. PICK k \in Keys : cache[k] # NoLocation /\ loc'[t] = cache[k]
    BY <1>2 DEF FoundMove
  <2>2. cache'[k] = l
    BY <1>2, <2>1 DEF FoundMove
  <2> QED
    BY <2>2 DEF Owner
<1> QED
  BY <1>0, <1>1, <1>2, UsersMove

LEMMA OneKeyStep ==
  ASSUME OwnInv, OneKey, NEW t \in Threads, Step(t)
  PROVE  OneKey'
<1>0. Typed /\ OnePlace /\ \A u \in Threads : Shaped(u) /\ Private(u)
  BY DEF OwnInv
<1>l. \A u \in Threads : User(u) => loc[u] \in Locations /\ loc[u] # NoLocation
  BY <1>0, NameAssumption DEF Shaped, Typed, ThreadsTyped
<1>1. ASSUME NEW u \in Threads, NEW k \in Keys, User(u)', cache'[k] = loc'[u]
      PROVE  k = key'[u]
  <2>1. CASE User(u) /\ loc'[u] = loc[u] /\ key'[u] = key[u]
    <3>1. cache[k] = loc[u] => k = key[u]
      BY <2>1 DEF OneKey
    <3>2. CASE cache'[k] = cache[k]
      BY <1>1, <2>1, <3>1, <3>2
    <3>3. CASE PublishMove(t)
      <4>1. cache'[k] = IF k = key[t] THEN loc[t] ELSE cache[k]
        BY <1>0, <3>3 DEF PublishMove, Typed, SharedTyped
      <4>2. Private(t) /\ Taker(t) /\ ~User(t)
        BY <1>0, <3>3 DEF PublishMove, Taker, User
      <4>3. u # t
        BY <2>1, <4>2
      <4>4. loc[u] # loc[t]
        BY <4>2, <4>3 DEF Private
      <4> QED
        BY <1>1, <2>1, <3>1, <4>1, <4>4
    <3>4. CASE EvictMove(t)
      <4>1. cache'[k] = NoLocation \/ cache'[k] = cache[k]
        BY <1>0, <3>4 DEF EvictMove, Typed, SharedTyped
      <4> QED
        BY <1>1, <1>l, <2>1, <3>1, <4>1
    <3>5. cache' = cache \/ PublishMove(t) \/ EvictMove(t)
      BY <1>0, Moves DEF LocalMove, ReturnMove, FoundMove, NewMove, NotifyMove, PriorMove, NextMove
    <3> QED
      BY <3>2, <3>3, <3>4, <3>5
  <2>2. CASE u = t /\ FoundMove(t) /\ \E j \in Keys : cache[j] # NoLocation /\ loc'[t] = cache[j] /\ key'[t] = j
    <3>1. cache' = cache
      BY <2>2 DEF FoundMove
    <3> QED
      BY <1>0, <1>1, <2>2, <3>1 DEF OnePlace
  <2> QED
    BY <1>0, <1>1, <2>1, <2>2, UsersMove
<1>2. ASSUME NEW u \in Threads, NEW v \in Threads, User(u)', User(v)', loc'[u] = loc'[v]
      PROVE  key'[u] = key'[v]
  <2>1. ASSUME NEW w \in Threads, w = t, FoundMove(t), User(w)'
        PROVE  \E j \in Keys : cache'[j] = loc'[w]
    BY <2>1 DEF FoundMove
  <2>2. CASE (u = t /\ FoundMove(t)) \/ (v = t /\ FoundMove(t))
    BY <1>1, <1>2, <2>1, <2>2
  <2>3. CASE ~(u = t /\ FoundMove(t)) /\ ~(v = t /\ FoundMove(t))
    <3>1. User(u) /\ loc'[u] = loc[u] /\ key'[u] = key[u]
      BY <1>0, <1>2, <2>3, UsersMove
    <3>2. User(v) /\ loc'[v] = loc[v] /\ key'[v] = key[v]
      BY <1>0, <1>2, <2>3, UsersMove
    <3> QED
      BY <1>2, <3>1, <3>2 DEF OneKey
  <2> QED
    BY <2>2, <2>3
<1> QED
  BY <1>1, <1>2 DEF OneKey

LEMMA UnfilledStep ==
  ASSUME OwnInv, Unfilled, NEW t \in Threads, Step(t)
  PROVE  Unfilled'
<1>0. Typed /\ \A u \in Threads : Shaped(u) /\ Private(u)
  BY DEF OwnInv
<1> SUFFICES ASSUME NEW u \in Threads, pc'[u] \in {"bank", "scan", "lock"}
             PROVE  filled'[loc'[u]] = {}
  BY DEF Unfilled
<1>1. CASE u = t /\ MadeMove(t)
  BY <1>0, <1>1, MadeIsNew
<1>2. CASE Taker(u) /\ loc'[u] = loc[u] /\ pc[u] \in {"bank", "scan", "lock"}
  <2>1. filled[loc[u]] = {} /\ loc[u] \in Locations
    BY <1>0, <1>2 DEF Unfilled, Shaped, Typed, ThreadsTyped
  <2>2. CASE PutMove(t)
    <3>1. t # u
      BY <1>2, <2>2 DEF PutMove
    <3>2. loc[t] # loc[u]
      BY <1>0, <1>2, <3>1 DEF Private
    <3>3. filled'[loc[u]] = filled[loc[u]]
      BY <1>0, <2>1, <2>2, <3>2 DEF PutMove, Typed, SharedTyped
    <3> QED
      BY <1>2, <2>1, <3>3
  <2>3. CASE MadeMove(t)
    BY <1>0, <1>2, <2>1, <2>3, MadeIsNew
  <2>4. CASE filled' = filled
    BY <1>2, <2>1, <2>4
  <2> QED
    BY <1>0, <2>2, <2>3, <2>4, Fills DEF MarkMove
<1> QED
  BY <1>0, <1>1, <1>2, TakersMove DEF Taker

LEMMA UndisturbedStep ==
  ASSUME OwnInv, RolesFit, OneStorer, Undisturbed, NEW t \in Threads, Step(t)
  PROVE  Undisturbed'
<1>0. Typed /\ OnePlace /\ OneOwner /\ \A u \in Threads : Shaped(u) /\ Private(u)
  BY DEF OwnInv
<1> SUFFICES ASSUME NEW u \in Threads, Updating(u)', NEW l \in Locations, Owner(l)',
                    bank'[l] = bank'[loc'[u]], block'[l] = block'[loc'[u]]
             PROVE  l = loc'[u]
  BY DEF Undisturbed
<1>1. User(u)'
  BY DEF User, Updating
<1>2. ~SetsBit(t)
  <2> SUFFICES ASSUME SetsBit(t)
               PROVE  FALSE
    OBVIOUS
  <2>1. u # t
    BY DEF SetsBit, Updating
  <2>2. Updating(u) /\ Taker(t)
    BY <1>0, <2>1, Frame DEF Updating, SetsBit, Taker
  <2> QED
    BY <2>1, <2>2 DEF RolesFit, OneStorer
<1>3. bank' = bank /\ block' = block /\ Owner(l)
  <2>1. bank' = bank /\ block' = block
    BY <1>0, <1>2, BlockMoves
  <2> QED
    BY <1>0, <1>2, <2>1, Owners
<1>4. CASE User(u) /\ loc'[u] = loc[u] /\ (Updating(u)' => Updating(u))
  BY <1>3, <1>4 DEF Undisturbed
<1>5. CASE u = t /\ FoundMove(t)
  <2>1. PICK k \in Keys : cache[k] # NoLocation /\ loc'[t] = cache[k]
    BY <1>5 DEF FoundMove
  <2>2. cache[k] \in Locations
    BY <1>0, <2>1 DEF Typed, SharedTyped
  <2>3. Owner(cache[k])
    BY DEF Owner
  <2> QED
    BY <1>0, <1>3, <1>5, <2>1, <2>2, <2>3 DEF OneOwner
<1> QED
  BY <1>0, <1>1, <1>4, <1>5, UsersMove

(* What a location stands for after a step it stood for before, unless it  *)
(* was made in it.                                                         *)
LEMMA StandsBefore ==
  ASSUME OwnInv, NEW t \in Threads, Step(t), NEW l \in Locations, NEW k \in Keys, StandsFor(l, k)'
  PROVE  StandsFor(l, k) \/ (MadeMove(t) /\ l = loc'[t])
<1>0. Typed /\ \A u \in Threads : Shaped(u) /\ Private(u)
  BY DEF OwnInv
<1>1. CASE cache'[k] = l
  <2>1. CASE PublishMove(t)
    <3>1. cache'[k] = IF k = key[t] THEN loc[t] ELSE cache[k]
      BY <1>0, <2>1 DEF PublishMove, Typed, SharedTyped
    <3>2. Taker(t)
      BY <2>1 DEF PublishMove, Taker
    <3> QED
      BY <1>1, <3>1, <3>2 DEF StandsFor
  <2>2. CASE EvictMove(t)
    <3>1. cache'[k] = NoLocation \/ cache'[k] = cache[k]
      BY <1>0, <2>2 DEF EvictMove, Typed, SharedTyped
    <3> QED
      BY <1>1, <3>1, NameAssumption DEF StandsFor
  <2>3. cache' = cache \/ PublishMove(t) \/ EvictMove(t)
    BY <1>0, Moves DEF LocalMove, ReturnMove, FoundMove, NewMove, NotifyMove, PriorMove, NextMove
  <2> QED
    BY <1>1, <2>1, <2>2, <2>3 DEF StandsFor
<1>2. ASSUME NEW u \in Threads, loc'[u] = l, key'[u] = k, Taker(u)'
      PROVE  StandsFor(l, k) \/ (MadeMove(t) /\ l = loc'[t])
  <2>1. (Taker(u) /\ loc'[u] = loc[u] /\ key'[u] = key[u]) \/ (u = t /\ MadeMove(t))
    BY <1>0, <1>2, TakersMove
  <2> QED
    BY <1>2, <2>1 DEF StandsFor
<1>3. ASSUME NEW u \in Threads, loc'[u] = l, key'[u] = k, User(u)', ~removed'[l]
      PROVE  StandsFor(l, k)
  <2>1. CASE User(u) /\ loc'[u] = loc[u] /\ key'[u] = key[u]
    <3>1. ~removed[l]
      BY <1>0, <1>3, <2>1, MarksStay
    <3> QED
      BY <1>3, <2>1, <3>1 DEF StandsFor
  <2>2. CASE u = t /\ \E j \in Keys : cache[j] # NoLocation /\ loc'[t] = cache[j] /\ key'[t] = j
    BY <1>3, <2>2 DEF StandsFor
  <2> QED
    BY <1>0, <1>3, <2>1, <2>2, UsersMove
<1>4. \/ cache'[k] = l
      \/ \E u \in Threads : loc'[u] = l /\ key'[u] = k /\ (Taker(u)' \/ (User(u)' /\ ~removed'[l]))
  BY DEF StandsFor
<1> QED
  BY <1>1, <1>2, <1>3, <1>4

(* A store writes the part of one block: what stands for a key there       *)
(* stands for the key that is stored.                                      *)
LEMMA PutBytes ==
  ASSUME OwnInv, RolesFit, LiveOwned, OneKey, OneStorer, Bytes, Undisturbed,
         NEW t \in Threads, PutMove(t), NEW l \in Locations, NEW k \in Keys, StandsFor(l, k),
         NEW p \in filled'[l]
  PROVE  data'[bank'[l]][block'[l]][p] = k
<1>0. Typed /\ OnePlace /\ OneOwner /\ \A u \in Threads : Shaped(u) /\ Private(u)
  BY DEF OwnInv
<1>1. PICK q \in todo[t] :
        /\ data' = [data EXCEPT ![bank[loc[t]]][block[loc[t]]][q] = key[t]]
        /\ filled' = [filled EXCEPT ![loc[t]] = @ \cup {q}]
  BY DEF PutMove
<1>2. PICK m \in Locations : m = loc[t]
  BY <1>0 DEF PutMove, Shaped, Taker, User, Typed, ThreadsTyped
<1>3. PICK a \in Banks, n \in Blocks : a = bank[m] /\ n = block[m]
  BY <1>0 DEF Typed, SharedTyped
<1>4. PICK b \in Banks, o \in Blocks : b = bank[l] /\ o = block[l]
  BY <1>0 DEF Typed, SharedTyped
<1>5. q \in Parts /\ filled'[l] = IF l = m THEN filled[l] \cup {q} ELSE filled[l]
  BY <1>0, <1>1, <1>2 DEF Typed, SharedTyped, ThreadsTyped
<1>6. p \in Parts
  BY <1>0, <1>5 DEF Typed, SharedTyped
<1>7. data'[b][o][p] = IF b = a /\ o = n /\ p = q THEN key[t] ELSE data[b][o][p]
  <2>1. data' = [data EXCEPT ![a] = [data[a] EXCEPT ![n] = [data[a][n] EXCEPT ![q] = key[t]]]]
    BY <1>1, <1>2, <1>3
  <2>2. data \in [Banks -> [Blocks -> [Parts -> Keys \cup {Junk}]]]
    BY <1>0 DEF Typed, SharedTyped
  <2>3. data'[b] = IF b = a THEN [data[a] EXCEPT ![n] = [data[a][n] EXCEPT ![q] = key[t]]] ELSE data[b]
    BY <2>1, <2>2
  <2>4. b = a => data'[b][o] = IF o = n THEN [data[a][n] EXCEPT ![q] = key[t]] ELSE data[b][o]
    BY <2>2, <2>3
  <2>5. data[a][n] \in [Parts -> Keys \cup {Junk}]
    BY <2>2
  <2> QED
    BY <1>5, <1>6, <2>3, <2>4, <2>5
<1>8. bank'[l] = b /\ block'[l] = o
  BY <1>4 DEF PutMove
<1>9. p \in filled[l] => data[b][o][p] = k
  BY <1>4 DEF Bytes
<1>10. CASE l = m
  <2>1. k = key[t]
    <3>1. CASE cache[k] = l
      BY <1>0, <1>2, <1>10, <3>1 DEF PutMove, Private, Taker, User, OneKey
    <3>2. ASSUME NEW u \in Threads, loc[u] = l, key[u] = k, Taker(u)
          PROVE  k = key[t]
      <4>1. u = t
        BY <1>0, <1>2, <1>10, <3>2 DEF Private
      <4> QED
        BY <3>2, <4>1
    <3>3. ASSUME NEW u \in Threads, loc[u] = l, key[u] = k, User(u)
          PROVE  k = key[t]
      <4>1. CASE User(t)
        BY <1>2, <1>10, <3>3, <4>1 DEF OneKey
      <4>2. CASE Taker(t)
        <5>1. u = t
          BY <1>0, <1>2, <1>10, <3>3, <4>2 DEF Private
        <5> QED
          BY <3>3, <5>1
      <4> QED
        BY <4>1, <4>2 DEF PutMove, User, Taker
    <3> QED
      BY <3>1, <3>2, <3>3 DEF StandsFor
  <2> QED
    BY <1>3, <1>4, <1>5, <1>7, <1>8, <1>9, <1>10, <2>1
<1>11. CASE l # m
  <2>1. p \in filled[l]
    BY <1>5, <1>11
  <2>2. ~(b = a /\ o = n)
    <3> SUFFICES ASSUME b = a, o = n
                 PROVE  FALSE
      OBVIOUS
    <3>1. ASSUME Owner(l)
          PROVE  FALSE
      <4>1. CASE pc[t] = "fill"
        <5>1. Owner(m)
          BY <1>2, <4>1 DEF Owner, Has, Taking
        <5> QED
          BY <1>0, <1>3, <1>4, <1>11, <3>1, <5>1 DEF OneOwner
      <4>2. CASE pc[t] = "update"
        BY <1>2, <1>3, <1>4, <1>11, <3>1, <4>2 DEF Undisturbed, Updating
      <4> QED
        BY <4>1, <4>2 DEF PutMove
    <3>2. CASE cache[k] = l
      BY <3>1, <3>2 DEF Owner
    <3>3. ASSUME NEW u \in Threads, loc[u] = l, Taker(u)
          PROVE  FALSE
      <4>1. u # t
        BY <1>2, <1>11, <3>3
      <4>2. Taker(t) \/ Updating(t)
        BY DEF PutMove, Taker, Updating
      <4> QED
        BY <3>3, <4>1, <4>2 DEF RolesFit, OneStorer
    <3>4. ASSUME NEW u \in Threads, loc[u] = l, User(u), ~removed[l]
          PROVE  FALSE
      BY <3>1, <3>4 DEF LiveOwned
    <3> QED
      BY <3>2, <3>3, <3>4 DEF StandsFor
  <2> QED
    BY <1>7, <1>8, <1>9, <2>1, <2>2
<1> QED
  BY <1>10, <1>11

LEMMA BytesStep ==
  ASSUME OwnInv, RolesFit, LiveOwned, OneKey, Unfilled, OneStorer, Bytes, Undisturbed,
         NEW t \in Threads, Step(t)
  PROVE  Bytes'
<1>0. Typed /\ OnePlace /\ OneOwner /\ \A u \in Threads : Shaped(u) /\ Private(u)
  BY DEF OwnInv
<1> SUFFICES ASSUME NEW l \in Locations, NEW k \in Keys, StandsFor(l, k)', NEW p \in filled'[l]
             PROVE  data'[bank'[l]][block'[l]][p] = k
  BY DEF Bytes
<1>1. ~(MadeMove(t) /\ l = loc'[t])
  BY <1>0, MadeIsNew
<1>2. StandsFor(l, k)
  BY <1>1, StandsBefore
<1>3. CASE PutMove(t)
  BY <1>2, <1>3, PutBytes
<1>4. CASE ~PutMove(t)
  <2>1. data' = data /\ filled'[l] = filled[l]
    BY <1>0, <1>1, <1>4, Fills, MadeIsNew DEF MadeMove, MarkMove
  <2>2. data[bank[l]][block[l]][p] = k
    BY <1>2, <2>1 DEF Bytes
  <2>3. CASE SetsBit(t)
    <3>1. l # loc[t]
      <4>1. Taker(t) /\ filled[loc[t]] = {}
        BY <2>3 DEF SetsBit, Taker, Unfilled
      <4> QED
        BY <2>1, <4>1
    <3>2. bank'[l] = bank[l] /\ block'[l] = block[l]
      BY <1>0, <2>3, <3>1, BlockMoves DEF Typed, SharedTyped, SetsBit, ClearsBit
    <3> QED
      BY <2>1, <2>2, <3>2
  <2>4. CASE ~SetsBit(t)
    <3>1. bank' = bank /\ block' = block
      BY <1>0, <2>4, BlockMoves
    <3> QED
      BY <2>1, <2>2, <3>1
  <2> QED
    BY <2>3, <2>4
<1> QED
  BY <1>3, <1>4

LEMMA LiveInvInit == Init => LiveInv
<1> SUFFICES ASSUME Init PROVE LiveInv
  OBVIOUS
<1>1. OwnInv
  BY OwnInvInit
<1>2. \A t \in Threads : pc[t] = "idle"
  BY DEF Init
<1>3. RolesFit /\ Marked /\ LiveOwned /\ OneKey /\ Unfilled /\ Undisturbed
  BY <1>2 DEF RolesFit, Marked, LiveOwned, OneKey, Unfilled, Undisturbed, Taker, Updating, User
<1>4. Bytes
  BY DEF Init, Bytes
<1> QED
  BY <1>1, <1>3, <1>4 DEF LiveInv

LEMMA LiveInvStep == LiveInv /\ [Next]_vars => LiveInv'
<1> SUFFICES ASSUME LiveInv, [Next]_vars PROVE LiveInv'
  OBVIOUS
<1>0. OwnInv /\ OwnInv'
  BY OwnInvStep DEF LiveInv
<1>1. CASE UNCHANGED vars
  <2>1. RolesFit' /\ Marked' /\ OneKey' /\ Unfilled'
    BY <1>1 DEF LiveInv, vars, RolesFit, Marked, OneKey, Unfilled, Taker, Updating, User
  <2>2. LiveOwned'
    BY <1>1 DEF LiveInv, vars, LiveOwned, User, Owner, Has, Taking, Releasing
  <2>3. OneStorer' => OneStorer /\ Bytes' /\ Undisturbed'
    <3>1. OneStorer' => OneStorer
      BY <1>1 DEF vars, OneStorer
    <3>2. Undisturbed => Undisturbed'
      BY <1>1 DEF vars, Undisturbed, Updating, Owner, Has, Taking, Releasing
    <3>3. Bytes => Bytes'
      BY <1>1 DEF vars, Bytes, StandsFor, Taker, User
    <3> QED
      BY <3>1, <3>2, <3>3 DEF LiveInv
  <2> QED
    BY <1>0, <2>1, <2>2, <2>3 DEF LiveInv
<1>2. ASSUME NEW t \in Threads, Step(t) PROVE LiveInv'
  <2>0. Typed /\ \A u \in Threads : Shaped(u)
    BY <1>0 DEF OwnInv
  <2>1. RolesFit' /\ Marked' /\ LiveOwned' /\ OneKey' /\ Unfilled'
    BY <1>0, <1>2, <2>0, RolesStep, MarkedStep, LiveOwnedStep, OneKeyStep, UnfilledStep DEF LiveInv
  <2>2. OneStorer' => OneStorer
    BY <1>2, <2>0, Uses DEF OneStorer
  <2>3. OneStorer => Bytes' /\ Undisturbed'
    BY <1>0, <1>2, BytesStep, UndisturbedStep DEF LiveInv
  <2> QED
    BY <1>0, <2>1, <2>2, <2>3 DEF LiveInv
<1> QED
  BY <1>1, <1>2, NextIsStep

LEMMA LiveInvIsOwn == LiveInv => LiveFetchIsOwn
<1> SUFFICES ASSUME LiveInv, OneStorer, NEW t \in Threads, pc[t] = "read", ~removed[loc[t]],
                    NEW p \in todo[t] \cap filled[loc[t]]
             PROVE  data[bank[loc[t]]][block[loc[t]]][p] = key[t]
  BY DEF LiveFetchIsOwn, Own
<1>1. loc[t] \in Locations /\ key[t] \in Keys
  BY DEF LiveInv, OwnInv, Shaped, User, Typed, ThreadsTyped
<1>2. StandsFor(loc[t], key[t])
  BY DEF StandsFor, User
<1> QED
  BY <1>1, <1>2 DEF LiveInv, Bytes

(* With a single thread that stores, a fetch that copies from a location   *)
(* not removed yet finds there what was stored under its own key, for any  *)
(* number of threads that fetch, evict and release beside it, of keys,     *)
(* banks, blocks and parts.                                                *)
THEOREM LiveFetches == Spec => []LiveFetchIsOwn
<1> QED
  BY LiveInvInit, LiveInvStep, LiveInvIsOwn, PTL DEF Spec
-----------------------------------------------------------------------------
(* A thread alone in the cache.  While it stores or fetches the map is     *)
(* within its capacity and nothing is left to be released; while it looks  *)
(* for an empty location every bank that it has looked into is full.       *)
Alone(t) == \A u \in Threads \ {t} : role[u] = {}
Mapped == {k \in Keys : cache[k] # NoLocation}

Idlers == \A u \in Threads : /\ pc[u] # "idle" => role[u] # {}
                             /\ pc[u] = "idle" => tries[u] = 0
Bounded(t) == /\ IsFiniteSet(Mapped)
              /\ pc[t] # "drain" => Cardinality(Mapped) <= MaxEntries
Cleared(t) == \/ InMap(t) \/ (Releaser(t) /\ victim[t] # prior[t])
              \/ pending = {}
Searched(t) ==
  /\ pc[t] \in {"bank", "scan", "lock"} =>
       \A i \in 0..(tries[t] - 1) : bits[i % NumberOfBanks] = Blocks
  /\ pc[t] = "lock" => bit[t] \notin bits[Bank(t)]

RoomInv == /\ CountInv /\ Idlers
           /\ \A t \in Threads : Alone(t) => Bounded(t) /\ Cleared(t) /\ Searched(t)

LEMMA SizeIs == Size = Cardinality(Mapped)
BY DEF Size, Mapped

LEMMA MaxIsNat == MaxEntries \in Nat
<1>1. BlocksPerBank * NumberOfBanks \in Nat \ {0}
  BY SizeAssumption
<1> QED
  BY <1>1 DEF MaxEntries

(* Only a thread with a role takes a step, and a call begins with no bank  *)
(* looked into.                                                            *)
LEMMA StepRole ==
  ASSUME Idlers, NEW t \in Threads, Step(t)
  PROVE  role[t] # {} /\ role' = role
<1>1. pc[t] # "idle" => role[t] # {}
  BY DEF Idlers
<1>2. CASE StoreSteps(t)
  BY <1>1, <1>2 DEF StoreSteps, StoreKnown, StoreNew, FindEmptyLocation, LookAtBank, NoRoom,
     ScanBits, SetBit, Count, CheckRemoved, Put, Updated, Publish
<1>3. CASE ReleaseLocation(t)
  BY <1>1, <1>3 DEF ReleaseLocation, SetRemoved, ClearBit, Uncount
<1>4. CASE MapSteps(t)
  BY <1>1, <1>4 DEF MapSteps, Drain, Evict, Drained, Notify, LeaveMap
<1>5. CASE FetchSteps(t)
  BY <1>1, <1>5 DEF FetchSteps, Fetch, Look, Get, Fetched
<1> QED
  BY <1>2, <1>3, <1>4, <1>5 DEF Step

LEMMA StepTries ==
  ASSUME Typed, NEW t \in Threads, Step(t)
  PROVE  \A u \in Threads : \/ tries'[u] = tries[u] /\ (pc'[u] = "idle" => pc[u] = "idle")
                            \/ tries'[u] = 0
                            \/ u = t /\ pc'[u] # "idle"
<1> USE DEF Typed, ThreadsTyped, Goto
<1>1. CASE Return(t)
  BY <1>1 DEF Return
<1>2. CASE StoreSteps(t) /\ ~Return(t)
  BY <1>2 DEF StoreSteps, StoreKnown, StoreNew, FindEmptyLocation, LookAtBank, NoRoom,
     ScanBits, SetBit, Count, CheckRemoved, Put, Updated, Publish, NextBank
<1>3. CASE ReleaseLocation(t) /\ ~Return(t)
  BY <1>3 DEF ReleaseLocation, SetRemoved, ClearBit, Uncount
<1>4. CASE MapSteps(t) /\ ~Return(t)
  BY <1>4 DEF MapSteps, Drain, Evict, Drained, Notify, LeaveMap
<1>5. CASE FetchSteps(t) /\ ~Return(t)
  BY <1>5 DEF FetchSteps, Fetch, Look, Get, Fetched
<1> QED
  BY <1>1, <1>2, <1>3, <1>4, <1>5 DEF Step

LEMMA IdlersStep ==
  ASSUME Typed, Idlers, NEW t \in Threads, Step(t)
  PROVE  Idlers'
<1>1. role[t] # {} /\ role' = role
  BY StepRole
<1>2. \A u \in Threads \ {t} : pc'[u] = pc[u]
  BY Frame
<1>3. \A u \in Threads : pc'[u] # "idle" => role'[u] # {}
  BY <1>1, <1>2 DEF Idlers
<1>4. \A u \in Threads : pc'[u] = "idle" => tries'[u] = 0
  BY StepTries DEF Idlers
<1> QED
  BY <1>3, <1>4 DEF Idlers

(* The bits of a bank, seen by a thread that is alone.                     *)
LEMMA AloneOwners ==
  ASSUME OwnInv, Idlers, NEW t \in Threads, Alone(t), pc[t] = "bank", pending = {},
         NEW l \in Locations, Owner(l)
  PROVE  \E k \in Keys : cache[k] = l
<1>1. \A u \in Threads \ {t} : pc[u] = "idle"
  BY DEF Idlers, Alone
<1>2. \A u \in Threads : prior[u] = NoLocation
  BY <1>1 DEF OwnInv, Shaped, InMap, Releaser
<1>3. \A u \in Threads : ~Has(u, l)
  BY <1>1, <1>2, NameAssumption DEF Has, Taking, Releasing
<1> QED
  BY <1>3 DEF Owner

LEMMA AloneCounts ==
  ASSUME CountInv, Idlers, NEW t \in Threads, Alone(t), pc[t] = "bank",
         counter[Bank(t)] = BlocksPerBank
  PROVE  bits[Bank(t)] = Blocks
<1>1. PICK b \in Banks : b = Bank(t)
  BY BankInBanks DEF CountInv, OwnInv
<1>2. \A u \in Threads \ {t} : pc[u] = "idle"
  BY DEF Idlers, Alone
<1>3. Counting(b) = {} /\ Uncounting(b) = {}
  BY <1>2 DEF Counting, Uncounting
<1>4. IsFiniteSet(bits[b]) /\ Cardinality(bits[b]) \in Nat
  BY Finite DEF CountInv, OwnInv
<1>5. counter[b] = Cardinality(bits[b])
  <2>1. counter[b] = Cardinality(bits[b]) - Cardinality(Counting(b)) + Cardinality(Uncounting(b))
    BY DEF CountInv, Counted
  <2>2. Cardinality(Counting(b)) = 0 /\ Cardinality(Uncounting(b)) = 0
    BY <1>3, FS_EmptySet
  <2> QED
    BY <1>4, <2>1, <2>2
<1>6. IsFiniteSet(Blocks) /\ Cardinality(Blocks) = BlocksPerBank
  BY SizeAssumption, FS_Interval DEF Blocks
<1>7. bits[b] \in SUBSET Blocks
  BY DEF CountInv, OwnInv, Typed, SharedTyped
<1> QED
  BY <1>1, <1>5, <1>6, <1>7, FS_Subset

LEMMA Within == ASSUME NEW N \in Nat \ {0}, NEW i \in 0..(N - 1) PROVE i % N = i
OBVIOUS

LEMMA FullRounds == ASSUME NEW i \in Banks PROVE i \in 0..(Rounds * NumberOfBanks - 1)
<1>1. PICK n \in Nat : n = Rounds - 1
  BY SizeAssumption
<1>2. Rounds * NumberOfBanks = n * NumberOfBanks + NumberOfBanks
  BY <1>1, SizeAssumption
<1>3. n * NumberOfBanks \in Nat
  BY SizeAssumption
<1> QED
  BY <1>2, <1>3, SizeAssumption DEF Banks

(* All banks full, and every block in the map: more than the map may hold. *)
LEMMA NotAllFull ==
  ASSUME OwnInv, Idlers, NEW t \in Threads, Alone(t), pc[t] = "bank", pending = {},
         Bounded(t), \A b \in Banks : bits[b] = Blocks
  PROVE  FALSE
<1>1. \A p \in Banks \X Blocks :
        \E k \in Mapped : bank[cache[k]] = p[1] /\ block[cache[k]] = p[2]
  <2> SUFFICES ASSUME NEW b \in Banks, NEW n \in Blocks
               PROVE  \E k \in Mapped : bank[cache[k]] = b /\ block[cache[k]] = n
    OBVIOUS
  <2>1. PICK l \in Locations : Owner(l) /\ bank[l] = b /\ block[l] = n
    BY DEF OwnInv, BitsAreOwned
  <2>2. PICK k \in Keys : cache[k] = l
    BY <2>1, AloneOwners
  <2> QED
    BY <2>1, <2>2, NameAssumption DEF Mapped
<1>2. PICK f : f = [p \in Banks \X Blocks |->
                      CHOOSE k \in Mapped : bank[cache[k]] = p[1] /\ block[cache[k]] = p[2]]
  OBVIOUS
<1>3. \A p \in Banks \X Blocks : f[p] \in Mapped /\ bank[cache[f[p]]] = p[1] /\ block[cache[f[p]]] = p[2]
  BY <1>1, <1>2
<1>4. f \in [Banks \X Blocks -> Mapped]
  BY <1>2, <1>3
<1>5. \A p, q \in Banks \X Blocks : f[p] = f[q] => p = q
  BY <1>3
<1>6. /\ IsFiniteSet(Banks \X Blocks)
      /\ Cardinality(Banks \X Blocks) = NumberOfBanks * BlocksPerBank
  <2>1. IsFiniteSet(Banks) /\ Cardinality(Banks) = NumberOfBanks
    BY SizeAssumption, FS_Interval DEF Banks
  <2>2. IsFiniteSet(Blocks) /\ Cardinality(Blocks) = BlocksPerBank
    BY SizeAssumption, FS_Interval DEF Blocks
  <2> QED
    BY <2>1, <2>2, FS_Product
<1>7. Cardinality(Mapped) < Cardinality(Banks \X Blocks)
  <2>1. IsFiniteSet(Mapped) /\ Cardinality(Mapped) <= MaxEntries /\ Cardinality(Mapped) \in Nat
    BY FS_CardinalityType DEF Bounded
  <2>2. NumberOfBanks * BlocksPerBank = BlocksPerBank * NumberOfBanks
        /\ BlocksPerBank * NumberOfBanks \in Nat
    BY SizeAssumption
  <2> QED
    BY <1>6, <2>1, <2>2 DEF MaxEntries
<1> QED
  BY <1>4, <1>5, <1>6, <1>7, FS_PigeonHole DEF Bounded

(* The steps of a thread that is alone.                                    *)
LEMMA SearchRoom ==
  ASSUME RoomInv, NEW t \in Threads, Alone(t), FindEmptyLocation(t)
  PROVE  Bounded(t)' /\ Cleared(t)' /\ Searched(t)'
<1>0. Bounded(t) /\ Cleared(t) /\ Searched(t) /\ CountInv /\ Idlers /\ Typed /\ tries[t] \in Nat
  BY DEF RoomInv, CountInv, OwnInv, Typed, ThreadsTyped
<1>1. UNCHANGED <<cache, pending>> /\ pending = {} /\ pc[t] \notin {"drain", "notify"}
  BY <1>0 DEF FindEmptyLocation, LookAtBank, NoRoom, ScanBits, SetBit, Count, shared,
              Cleared, InMap, Releaser
<1>2. Bounded(t)' /\ Cleared(t)'
  <2>1. Mapped' = Mapped
    BY <1>1 DEF Mapped
  <2> QED
    BY <1>0, <1>1, <2>1 DEF Bounded, Cleared
<1>3. ASSUME NextBank(t), bits[Bank(t)] = Blocks, pc[t] \in {"bank", "scan"}, UNCHANGED bits
      PROVE  Searched(t)'
  <2>1. tries'[t] = tries[t] + 1 /\ pc'[t] = "bank"
    BY <1>0, <1>3 DEF NextBank, Goto, Typed, ThreadsTyped
  <2>2. ASSUME NEW i \in 0..(tries'[t] - 1) PROVE bits'[i % NumberOfBanks] = Blocks
    <3>1. CASE i = tries[t]
      BY <1>3, <3>1 DEF Bank
    <3>2. CASE i # tries[t]
      <4>1. i \in 0..(tries[t] - 1)
        BY <1>0, <2>1, <2>2, <3>2
      <4> QED
        BY <1>0, <1>3, <4>1 DEF Searched
    <3> QED
      BY <3>1, <3>2
  <2> QED
    BY <2>1, <2>2 DEF Searched
<1>4. ASSUME Goto(t, "scan"), pc[t] \in {"bank", "lock"}, UNCHANGED <<bits, tries>>
      PROVE  Searched(t)'
  <2>1. pc'[t] = "scan"
    BY <1>0, <1>4 DEF Goto, Typed, ThreadsTyped
  <2> QED
    BY <1>0, <1>4, <2>1 DEF Searched
<1>5. ASSUME LookAtBank(t) PROVE Searched(t)'
  <2>1. pc[t] = "bank" /\ bits' = bits
    BY <1>5 DEF LookAtBank, shared
  <2>2. CASE counter[Bank(t)] = BlocksPerBank
    <3>1. NextBank(t)
      BY <1>5, <2>2 DEF LookAtBank
    <3> QED
      BY <1>0, <1>3, <2>1, <2>2, <3>1, AloneCounts
  <2>3. CASE counter[Bank(t)] # BlocksPerBank
    BY <1>4, <1>5, <2>1, <2>3 DEF LookAtBank
  <2> QED
    BY <2>2, <2>3
<1>6. ASSUME ScanBits(t) PROVE Searched(t)'
  <2>1. pc[t] = "scan" /\ bits' = bits
    BY <1>6 DEF ScanBits, shared
  <2>2. CASE Blocks \ bits[Bank(t)] = {}
    <3>1. NextBank(t)
      BY <1>6, <2>2 DEF ScanBits
    <3>2. bits[Bank(t)] = Blocks
      BY <1>0, <2>2, BankInBanks DEF Typed, SharedTyped
    <3> QED
      BY <1>3, <2>1, <3>1, <3>2
  <2>3. CASE Blocks \ bits[Bank(t)] # {}
    <3>1. PICK n \in Blocks \ bits[Bank(t)] : bit' = [bit EXCEPT ![t] = n]
      BY <1>6, <2>3 DEF ScanBits
    <3>2. pc'[t] = "lock" /\ tries' = tries /\ bit'[t] = n
      BY <1>0, <1>6, <2>3, <3>1 DEF ScanBits, Goto, Typed, ThreadsTyped
    <3>3. Bank(t)' = Bank(t)
      BY <3>2 DEF Bank
    <3>4. bit'[t] \notin bits'[Bank(t)']
      BY <2>1, <3>1, <3>2, <3>3
    <3>5. \A i \in 0..(tries'[t] - 1) : bits'[i % NumberOfBanks] = Blocks
      BY <1>0, <2>1, <3>2 DEF Searched
    <3> QED
      BY <3>2, <3>4, <3>5 DEF Searched
  <2> QED
    BY <2>2, <2>3
<1>7. ASSUME SetBit(t) PROVE Searched(t)'
  <2>1. pc[t] = "lock" /\ ~Taken(t)
    BY <1>0, <1>7 DEF SetBit, Searched, Taken
  <2>2. pc'[t] = "count"
    BY <1>0, <1>7, <2>1 DEF SetBit, Goto, Typed, ThreadsTyped
  <2> QED
    BY <2>2 DEF Searched
<1>8. ASSUME NoRoom(t) \/ Count(t) PROVE Searched(t)'
  <2>1. pc'[t] \in {"idle", "fill"}
    BY <1>0, <1>8 DEF NoRoom, Return, Count, Goto, Typed, ThreadsTyped
  <2> QED
    BY <2>1 DEF Searched
<1> QED
  BY <1>2, <1>5, <1>6, <1>7, <1>8 DEF FindEmptyLocation

LEMMA CallRoom ==
  ASSUME RoomInv, NEW t \in Threads, Alone(t),
         \/ StoreKnown(t) \/ StoreNew(t) \/ CheckRemoved(t) \/ Put(t) \/ Updated(t)
         \/ Publish(t) \/ FetchSteps(t)
  PROVE  Bounded(t)' /\ Cleared(t)' /\ Searched(t)'
<1>0. Bounded(t) /\ Cleared(t) /\ Searched(t) /\ Idlers /\ Typed
  BY DEF RoomInv, CountInv, OwnInv
<1>1. pending' = pending /\ pending = {}
  BY <1>0 DEF StoreKnown, StoreNew, CheckRemoved, Put, Updated, Publish, FetchSteps, Fetch, Look,
              Get, Fetched, shared, Cleared, InMap, Releaser
<1>2. Cleared(t)'
  BY <1>1 DEF Cleared
<1>3. CASE Publish(t)
  <2>1. pc'[t] = "drain"
    BY <1>0, <1>3 DEF Publish, Goto, Typed, ThreadsTyped
  <2>2. Mapped' \in SUBSET (Mapped \cup {key[t]})
    BY <1>0, <1>3 DEF Publish, Mapped, Typed, SharedTyped, ThreadsTyped
  <2>3. IsFiniteSet(Mapped')
    BY <1>0, <2>2, FS_AddElement, FS_Subset DEF Bounded
  <2> QED
    BY <1>2, <2>1, <2>3 DEF Bounded, Searched
<1>4. CASE ~Publish(t)
  <2>1. /\ cache' = cache /\ pc[t] # "drain"
        /\ \/ pc'[t] \notin {"bank", "scan", "lock"}
           \/ pc'[t] = "bank" /\ tries'[t] = 0
    BY <1>0, <1>4 DEF StoreKnown, StoreNew, CheckRemoved, Put, Updated, FetchSteps, Fetch, Look,
              Get, Fetched, shared, Return, Goto, Typed, ThreadsTyped, Idlers
  <2>2. Mapped' = Mapped
    BY <2>1 DEF Mapped
  <2>3. Searched(t)'
    BY <2>1 DEF Searched
  <2> QED
    BY <1>0, <1>2, <2>1, <2>2, <2>3 DEF Bounded
<1> QED
  BY <1>3, <1>4

LEMMA LeaveRoom ==
  ASSUME RoomInv, NEW t \in Threads, Alone(t), MapSteps(t) \/ ReleaseLocation(t)
  PROVE  Bounded(t)' /\ Cleared(t)' /\ Searched(t)'
<1>0. Bounded(t) /\ Cleared(t) /\ Idlers /\ OwnInv /\ Typed /\ Shaped(t)
  BY DEF RoomInv, CountInv, OwnInv
<1>1. pc'[t] \notin {"bank", "scan", "lock"}
  BY <1>0 DEF MapSteps, Drain, Evict, Drained, Notify, LeaveMap, ReleaseLocation, SetRemoved,
              ClearBit, Uncount, Return, Goto, Typed, ThreadsTyped
<1>2. Searched(t)'
  BY <1>1 DEF Searched
<1>3. CASE Evict(t)
  <2>1. pc'[t] = "drain" /\ Mapped' \in SUBSET Mapped
    BY <1>0, <1>3 DEF Evict, Mapped, Typed, SharedTyped
  <2>2. IsFiniteSet(Mapped')
    BY <1>0, <2>1, FS_Subset DEF Bounded
  <2> QED
    BY <1>2, <2>1, <2>2 DEF Bounded, Cleared, InMap
<1>4. ~Drain(t)
  <2>1. ~(Size > MaxEntries) \/ pc[t] # "idle"
    BY <1>0, SizeIs, MaxIsNat, FS_CardinalityType DEF Bounded
  <2> QED
    BY <1>0, <2>1 DEF Drain, Cleared, InMap, Releaser
<1>5. ASSUME ~Evict(t) PROVE Bounded(t)'
  <2>1. cache' = cache /\ (pc'[t] # "drain")
    BY <1>0, <1>4, <1>5 DEF MapSteps, Drained, Notify, LeaveMap, ReleaseLocation, SetRemoved,
              ClearBit, Uncount, Return, Goto, Typed, ThreadsTyped, shared
  <2>2. Mapped' = Mapped
    BY <2>1 DEF Mapped
  <2>3. pc[t] = "drain" => Cardinality(Mapped) <= MaxEntries
    <3>1. \A u \in Threads \ {t} : pc[u] = "idle"
      BY <1>0 DEF Idlers, Alone
    <3> QED
      BY <1>4, <1>5, <3>1, SizeIs DEF MapSteps, Drained, Notify, LeaveMap, ReleaseLocation,
              SetRemoved, ClearBit, Uncount, InMap
  <2> QED
    BY <1>0, <2>1, <2>2, <2>3 DEF Bounded
<1>6. CASE Drained(t)
  <2>1. pc'[t] = "notify"
    BY <1>0, <1>6 DEF Drained, Goto, Typed, ThreadsTyped
  <2>2. ~Evict(t)
    BY <1>0, <1>6, <2>1 DEF Evict
  <2> QED
    BY <1>2, <1>5, <2>1, <2>2 DEF Cleared, InMap
<1>7. CASE Notify(t)
  <2>1. PICK l \in pending : victim' = [victim EXCEPT ![t] = l]
    BY <1>7 DEF Notify
  <2>2. pc'[t] = "mark" /\ victim'[t] = l /\ prior'[t] = prior[t]
    BY <1>0, <1>7, <2>1 DEF Notify, Goto, Typed, ThreadsTyped
  <2>3. l \in Locations /\ l # NoLocation
    BY <1>0, NameAssumption DEF Typed, SharedTyped
  <2>4. prior[t] # l
    <3>1. victim[t] = NoLocation
      BY <1>0, <1>7 DEF Notify, Shaped, Releaser
    <3>2. prior[t] = l => Has(t, l)
      BY <2>3, <3>1 DEF Has
    <3> QED
      BY <1>0, <2>3, <3>2 DEF OwnInv, OnePlace
  <2>5. Cleared(t)'
    BY <2>2, <2>4 DEF Cleared, Releaser
  <2> QED
    BY <1>2, <1>5, <1>7, <2>5 DEF Notify, Evict
<1>8. CASE LeaveMap(t)
  BY <1>2, <1>5, <1>8 DEF LeaveMap, Evict, Cleared, shared
<1>9. CASE ReleaseLocation(t)
  <2>1. ~Evict(t)
    BY <1>9 DEF ReleaseLocation, SetRemoved, ClearBit, Uncount, Evict
  <2>2. Cleared(t)'
    <3>1. pc[t] \in {"mark", "clear", "uncount"} /\ pending' = pending
      BY <1>9 DEF ReleaseLocation, SetRemoved, ClearBit, Uncount
    <3>2. victim[t] # prior[t] \/ pending = {}
      BY <1>0, <3>1 DEF Cleared, InMap
    <3>3. CASE Uncount(t)
      <4>1. victim[t] # prior[t] => pc'[t] = "notify"
        BY <1>0, <3>3 DEF Uncount, Goto, Typed, ThreadsTyped
      <4> QED
        BY <3>1, <3>2, <4>1 DEF Cleared, InMap
    <3>4. CASE ~Uncount(t)
      <4>1. pc'[t] \in {"clear", "uncount"} /\ victim' = victim /\ prior' = prior
        BY <1>0, <1>9, <3>4 DEF ReleaseLocation, SetRemoved, ClearBit, Goto, Typed, ThreadsTyped
      <4> QED
        BY <3>1, <3>2, <4>1 DEF Cleared, Releaser
    <3> QED
      BY <3>3, <3>4
  <2> QED
    BY <1>2, <1>5, <2>1, <2>2
<1> QED
  BY <1>3, <1>4, <1>6, <1>7, <1>8, <1>9 DEF MapSteps

LEMMA RoomStep == RoomInv /\ [Next]_vars => RoomInv'
<1> SUFFICES ASSUME RoomInv, [Next]_vars PROVE RoomInv'
  OBVIOUS
<1>1. CountInv'
  BY CountInvStep DEF RoomInv
<1>2. CASE UNCHANGED vars
  BY <1>1, <1>2 DEF vars, RoomInv, Idlers, Alone, Bounded, Cleared, Searched, Mapped, InMap,
                    Releaser, Bank
<1>3. ASSUME NEW t \in Threads, Step(t) PROVE RoomInv'
  <2>0. Idlers /\ Typed
    BY DEF RoomInv, CountInv, OwnInv
  <2>1. Idlers' /\ role[t] # {} /\ role' = role
    BY <1>3, <2>0, IdlersStep, StepRole
  <2>2. ASSUME NEW u \in Threads, Alone(u)' PROVE Bounded(u)' /\ Cleared(u)' /\ Searched(u)'
    <3>1. u = t /\ Alone(t)
      BY <2>1, <2>2 DEF Alone
    <3>2. Bounded(t)' /\ Cleared(t)' /\ Searched(t)'
      BY <1>3, <3>1, SearchRoom, CallRoom, LeaveRoom DEF Step, StoreSteps
    <3> QED
      BY <3>1, <3>2
  <2> QED
    BY <1>1, <2>1, <2>2 DEF RoomInv
<1> QED
  BY <1>2, <1>3, NextIsStep

LEMMA RoomInit == Init => RoomInv
<1> SUFFICES ASSUME Init PROVE RoomInv
  OBVIOUS
<1>1. CountInv
  BY CountInvInit
<1>2. Mapped = {} /\ IsFiniteSet({}) /\ Cardinality({}) = 0
  BY FS_EmptySet DEF Init, Mapped
<1>3. \A t \in Threads : Bounded(t)
  BY <1>2, MaxIsNat DEF Bounded
<1> QED
  BY <1>1, <1>3 DEF Init, RoomInv, Idlers, Cleared, Searched

(* A thread that is alone in the cache never fails to find an empty        *)
(* location: the map of BlockCache has one entry less than there are       *)
(* blocks, and what it evicts is released before the next call begins; for *)
(* any number of banks, blocks and rounds.                                 *)
THEOREM RoomForOne == Spec => AloneFindsRoom
<1>1. ASSUME RoomInv, [Next]_vars
      PROVE  [\A t \in Threads : NoRoom(t) => \E u \in Threads \ {t} : role[u] # {}]_vars
  <2>1. ASSUME NEW t \in Threads, NoRoom(t), Alone(t) PROVE FALSE
    <3>1. OwnInv /\ Idlers /\ Bounded(t) /\ Cleared(t) /\ Searched(t)
      BY <1>1, <2>1 DEF RoomInv, CountInv
    <3>2. pc[t] = "bank" /\ tries[t] = Rounds * NumberOfBanks
      BY <2>1 DEF NoRoom
    <3>3. pending = {}
      BY <3>1, <3>2 DEF Cleared, InMap, Releaser
    <3>4. ASSUME NEW b \in Banks PROVE bits[b] = Blocks
      <4>1. b \in 0..(tries[t] - 1) /\ b % NumberOfBanks = b
        BY <3>2, FullRounds, Within, SizeAssumption DEF Banks
      <4> QED
        BY <3>1, <3>2, <4>1 DEF Searched
    <3> QED
      BY <2>1, <3>1, <3>2, <3>3, <3>4, NotAllFull
  <2> QED
    BY <2>1 DEF Alone
<1> QED
  BY <1>1, RoomInit, RoomStep, PTL DEF Spec, AloneFindsRoom
=============================================================================
