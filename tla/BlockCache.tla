----------------------------- MODULE BlockCache -----------------------------
(***************************************************************************)
(* solrblockcache.BlockCache: blocks of files are kept in a few large      *)
(* buffers, the banks.  A concurrent map takes a key to a location object; *)
(* BlockLocks has one bit per block of a bank that says it is taken, and a *)
(* counter beside it how many are.  No lock covers the map, the bits, the  *)
(* counters and the bytes together: every line of store, fetch,            *)
(* findEmptyLocation and releaseLocation is a step of its own thread.      *)
(*                                                                         *)
(* A block has Parts that a store may fill one by one.  What is in a part  *)
(* is told by whose it is: the bytes of a key never change.                *)
(***************************************************************************)
EXTENDS Integers, FiniteSets

CONSTANTS Threads,
          Keys,            \* BlockCacheKey: a file and a block of it
          Parts,           \* the parts of a block
          NumberOfBanks,   \* banks.length
          BlocksPerBank,   \* numberOfBlocksPerBank
          Rounds,          \* rounds over the banks before giving up (10 in the code)
          Locations,       \* bound: BlockCacheLocation objects in use together
          NoLocation,      \* null
          Junk,            \* bytes that are nobody's
          Roles            \* which threads store and which fetch

Banks == 0..(NumberOfBanks - 1)
Blocks == 0..(BlocksPerBank - 1)
Calls == {"store", "fetch"}

ASSUME SizeAssumption ==
  NumberOfBanks \in Nat \ {0} /\ BlocksPerBank \in Nat \ {0} /\ Rounds \in Nat \ {0}
ASSUME ThreadsAssumption == IsFiniteSet(Threads)
ASSUME NameAssumption == NoLocation \notin Locations /\ Junk \notin Keys
ASSUME RoleAssumption == Roles \subseteq [Threads -> SUBSET Calls]

(* One entry less than there are blocks.  Mutant: one for every block.     *)
EveryBlock == BlocksPerBank * NumberOfBanks
MaxEntries == (BlocksPerBank * NumberOfBanks) - 1

VARIABLES cache,     \* the map: key -> location, or NoLocation
          pending,   \* locations the map has evicted and not told of yet
          bits,      \* locks: bits[b], the blocks of bank b that are taken
          counter,   \* lockCounters
          data,      \* banks: data[b][n][p], whose bytes are there
          bank,      \* bank[l], block[l]: where location l is
          block,
          removed,   \* removed[l]
          filled,    \* filled[l]: parts stored since l was taken (not in the code)
          role,      \* role[t]: the calls thread t makes
          pc,        \* pc[t]: where thread t stands
          key,       \* key[t]: the key of its call
          todo,      \* todo[t]: parts it has still to copy
          loc,       \* loc[t]: its location
          tries,     \* tries[t]: banks it has looked into
          bit,       \* bit[t]: the clear bit it found
          prior,     \* prior[t]: the location its cache.put replaced
          victim     \* victim[t]: the location it is releasing

shared == <<cache, pending, bits, counter, data, bank, block, removed, filled>>
vars == <<cache, pending, bits, counter, data, bank, block, removed, filled,
          role, pc, key, todo, loc, tries, bit, prior, victim>>

Phases == {"idle", "bank", "scan", "lock", "count", "fill", "check", "update",
           "drain", "notify", "mark", "clear", "uncount", "look", "read"}

Init ==
  /\ cache = [k \in Keys |-> NoLocation] /\ pending = {}
  /\ bits = [b \in Banks |-> {}]
  /\ counter = [b \in Banks |-> 0]
  /\ data = [b \in Banks |-> [n \in Blocks |-> [p \in Parts |-> Junk]]]
  /\ bank = [l \in Locations |-> 0] /\ block = [l \in Locations |-> 0]
  /\ removed = [l \in Locations |-> FALSE]
  /\ filled = [l \in Locations |-> {}]
  /\ role \in Roles
  /\ pc = [t \in Threads |-> "idle"]
  /\ key \in [Threads -> Keys] /\ \A t, u \in Threads : key[t] = key[u]
  /\ todo = [t \in Threads |-> {}]
  /\ loc = [t \in Threads |-> NoLocation]
  /\ tries = [t \in Threads |-> 0] /\ bit = [t \in Threads |-> 0]
  /\ prior = [t \in Threads |-> NoLocation]
  /\ victim = [t \in Threads |-> NoLocation]

Goto(t, phase) == pc' = [pc EXCEPT ![t] = phase]

Return(t) == /\ pc' = [pc EXCEPT ![t] = "idle"]
             /\ todo' = [todo EXCEPT ![t] = {}]
             /\ loc' = [loc EXCEPT ![t] = NoLocation]
             /\ prior' = [prior EXCEPT ![t] = NoLocation]
             /\ victim' = [victim EXCEPT ![t] = NoLocation]
             /\ tries' = [tries EXCEPT ![t] = 0] /\ bit' = [bit EXCEPT ![t] = 0]
             /\ UNCHANGED key
-----------------------------------------------------------------------------
(* store.                                                                  *)

Referenced == {cache[k] : k \in Keys} \cup pending \cup {loc[t] : t \in Threads}
                \cup {prior[t] : t \in Threads} \cup {victim[t] : t \in Threads}

(* cache.get finds the location of the key,                                *)
StoreKnown(t) ==
  /\ pc[t] = "idle" /\ "store" \in role[t]
  /\ \E k \in Keys, part \in SUBSET Parts \ {{}} :
       /\ cache[k] # NoLocation
       /\ key' = [key EXCEPT ![t] = k]
       /\ todo' = [todo EXCEPT ![t] = part]
       /\ loc' = [loc EXCEPT ![t] = cache[k]]
  /\ Goto(t, "check")
  /\ UNCHANGED <<shared, role, tries, bit, prior, victim>>

(* or none, and a new object is made.                                      *)
NewLocation == CHOOSE l \in Locations : l \notin Referenced

StoreNew(t) ==
  /\ pc[t] = "idle" /\ "store" \in role[t]
  /\ \E l \in Locations : l \notin Referenced
  /\ \E k \in Keys, part \in SUBSET Parts \ {{}} :
       /\ cache[k] = NoLocation
       /\ key' = [key EXCEPT ![t] = k]
       /\ todo' = [todo EXCEPT ![t] = part]
  /\ loc' = [loc EXCEPT ![t] = NewLocation]
  /\ removed' = [removed EXCEPT ![NewLocation] = FALSE]
  /\ filled' = [filled EXCEPT ![NewLocation] = {}]
  /\ Goto(t, "bank")
  /\ UNCHANGED <<cache, pending, bits, counter, data, bank, block,
                 role, tries, bit, prior, victim>>

(* findEmptyLocation: is the counter of the next bank at its limit?        *)
Bank(t) == tries[t] % NumberOfBanks

NextBank(t) == /\ tries' = [tries EXCEPT ![t] = @ + 1]
               /\ Goto(t, "bank")
               /\ UNCHANGED <<key, todo, loc, bit, prior, victim>>

LookAtBank(t) ==
  /\ pc[t] = "bank" /\ tries[t] < Rounds * NumberOfBanks
  /\ IF counter[Bank(t)] = BlocksPerBank THEN NextBank(t)
     ELSE Goto(t, "scan") /\ UNCHANGED <<key, todo, loc, tries, bit, prior, victim>>
  /\ UNCHANGED <<shared, role>>

NoRoom(t) ==
  /\ pc[t] = "bank" /\ tries[t] = Rounds * NumberOfBanks
  /\ Return(t)
  /\ UNCHANGED <<shared, role>>

ScanBits(t) ==
  /\ pc[t] = "scan"
  /\ LET clear == Blocks \ bits[Bank(t)] IN
     IF clear = {} THEN NextBank(t)
     ELSE /\ \E n \in clear : /\ \A m \in clear : n <= m
                             /\ bit' = [bit EXCEPT ![t] = n]
          /\ Goto(t, "lock")
          /\ UNCHANGED <<key, todo, loc, tries, prior, victim>>
  /\ UNCHANGED <<shared, role>>

(* BlockLocks.set: fails when another thread has set the bit.              *)
(* Mutant of Taken: it sets the bit whatever it is.                        *)
NeverTaken(t) == FALSE
Taken(t) == bit[t] \in bits[Bank(t)]

SetBit(t) ==
  /\ pc[t] = "lock"
  /\ IF Taken(t)
     THEN Goto(t, "scan") /\ UNCHANGED <<bits, bank, block>>
     ELSE /\ bits' = [bits EXCEPT ![Bank(t)] = @ \cup {bit[t]}]
          /\ bank' = [bank EXCEPT ![loc[t]] = Bank(t)]
          /\ block' = [block EXCEPT ![loc[t]] = bit[t]]
          /\ Goto(t, "count")
  /\ UNCHANGED <<cache, pending, counter, data, removed, filled,
                 role, key, todo, loc, tries, bit, prior, victim>>

(* Mutant of Count: the counter is forgotten.                              *)
DoesNotCount(t) ==
  /\ pc[t] = "count"
  /\ Goto(t, "fill")
  /\ UNCHANGED <<shared, role, key, todo, loc, tries, bit, prior, victim>>

Count(t) ==
  /\ pc[t] = "count"
  /\ counter' = [counter EXCEPT ![Bank(t)] = @ + 1]
  /\ Goto(t, "fill")
  /\ UNCHANGED <<cache, pending, bits, data, bank, block, removed, filled,
                 role, key, todo, loc, tries, bit, prior, victim>>

(* An existing location may have been evicted since cache.get.             *)
CheckRemoved(t) ==
  /\ pc[t] = "check"
  /\ IF removed[loc[t]] THEN Return(t)
     ELSE Goto(t, "update") /\ UNCHANGED <<key, todo, loc, tries, bit, prior, victim>>
  /\ UNCHANGED <<shared, role>>

(* bank.put copies part by part into wherever the location says.           *)
Put(t) ==
  /\ pc[t] \in {"fill", "update"}
  /\ \E p \in todo[t] :
       /\ data' = [data EXCEPT ![bank[loc[t]]][block[loc[t]]][p] = key[t]]
       /\ todo' = [todo EXCEPT ![t] = @ \ {p}]
       /\ filled' = [filled EXCEPT ![loc[t]] = @ \cup {p}]
  /\ UNCHANGED <<cache, pending, bits, counter, bank, block, removed,
                 role, pc, key, loc, tries, bit, prior, victim>>

Updated(t) ==
  /\ pc[t] = "update" /\ todo[t] = {}
  /\ Return(t)
  /\ UNCHANGED <<shared, role>>

(* cache.put; the location it replaces is kept, to be released.            *)
(* Mutant of Replaced: it is forgotten.                                    *)
Forgotten(t) == NoLocation
Replaced(t) == cache[key[t]]

Publish(t) ==
  /\ pc[t] = "fill" /\ todo[t] = {}
  /\ cache' = [cache EXCEPT ![key[t]] = loc[t]]
  /\ prior' = [prior EXCEPT ![t] = Replaced(t)]
  /\ Goto(t, "drain")
  /\ UNCHANGED <<pending, bits, counter, data, bank, block, removed, filled,
                 role, key, todo, loc, tries, bit, victim>>
-----------------------------------------------------------------------------
(* The map, a ConcurrentLinkedHashMap, within the calls made to it: it     *)
(* evicts down to its capacity, unless another thread is at it already and *)
(* the rest is left to that thread or to a later call; then it hands what  *)
(* was evicted, by this thread or another, to the listener.                *)
Size == Cardinality({k \in Keys : cache[k] # NoLocation})
InMap(t) == pc[t] \in {"drain", "notify"}

(* A cache.get that finds something left to do.                            *)
Drain(t) ==
  /\ pc[t] = "idle" /\ role[t] # {}
  /\ Size > MaxEntries \/ pending # {}
  /\ Goto(t, "drain")
  /\ UNCHANGED <<shared, role, key, todo, loc, tries, bit, prior, victim>>

Evict(t) ==
  /\ pc[t] = "drain" /\ Size > MaxEntries
  /\ \E k \in Keys :
       /\ cache[k] # NoLocation
       /\ pending' = pending \cup {cache[k]}
       /\ cache' = [cache EXCEPT ![k] = NoLocation]
  /\ UNCHANGED <<bits, counter, data, bank, block, removed, filled,
                 role, pc, key, todo, loc, tries, bit, prior, victim>>

Drained(t) ==
  /\ pc[t] = "drain"
  /\ Size <= MaxEntries \/ \E u \in Threads \ {t} : InMap(u)
  /\ Goto(t, "notify")
  /\ UNCHANGED <<shared, role, key, todo, loc, tries, bit, prior, victim>>

Notify(t) ==
  /\ pc[t] = "notify"
  /\ \E l \in pending : /\ pending' = pending \ {l}
                       /\ victim' = [victim EXCEPT ![t] = l]
  /\ Goto(t, "mark")
  /\ UNCHANGED <<cache, bits, counter, data, bank, block, removed, filled,
                 role, key, todo, loc, tries, bit, prior>>

(* Back from the map: a store releases what its cache.put replaced.        *)
LeaveMap(t) ==
  /\ pc[t] = "notify" /\ pending = {}
  /\ IF prior[t] = NoLocation THEN Return(t)
     ELSE /\ victim' = [victim EXCEPT ![t] = prior[t]]
          /\ Goto(t, "mark")
          /\ UNCHANGED <<key, todo, loc, tries, bit, prior>>
  /\ UNCHANGED <<shared, role>>
-----------------------------------------------------------------------------
(* releaseLocation.                                                        *)

(* Mutant of SetRemoved: the location is not marked.                       *)
NotMarked(t) ==
  /\ pc[t] = "mark"
  /\ Goto(t, "clear")
  /\ UNCHANGED <<shared, role, key, todo, loc, tries, bit, prior, victim>>

SetRemoved(t) ==
  /\ pc[t] = "mark"
  /\ removed' = [removed EXCEPT ![victim[t]] = TRUE]
  /\ Goto(t, "clear")
  /\ UNCHANGED <<cache, pending, bits, counter, data, bank, block, filled,
                 role, key, todo, loc, tries, bit, prior, victim>>

ClearBit(t) ==
  /\ pc[t] = "clear"
  /\ bits' = [bits EXCEPT ![bank[victim[t]]] = @ \ {block[victim[t]]}]
  /\ Goto(t, "uncount")
  /\ UNCHANGED <<cache, pending, counter, data, bank, block, removed, filled,
                 role, key, todo, loc, tries, bit, prior, victim>>

Uncount(t) ==
  /\ pc[t] = "uncount"
  /\ counter' = [counter EXCEPT ![bank[victim[t]]] = @ - 1]
  /\ IF victim[t] = prior[t] THEN Return(t)
     ELSE /\ victim' = [victim EXCEPT ![t] = NoLocation]
          /\ Goto(t, "notify")
          /\ UNCHANGED <<key, todo, loc, tries, bit, prior>>
  /\ UNCHANGED <<cache, pending, bits, data, bank, block, removed, filled, role>>
-----------------------------------------------------------------------------
(* fetch.                                                                  *)

Fetch(t) ==
  /\ pc[t] = "idle" /\ "fetch" \in role[t]
  /\ \E k \in Keys, part \in SUBSET Parts \ {{}} :
       /\ cache[k] # NoLocation
       /\ key' = [key EXCEPT ![t] = k]
       /\ todo' = [todo EXCEPT ![t] = part]
       /\ loc' = [loc EXCEPT ![t] = cache[k]]
  /\ Goto(t, "look")
  /\ UNCHANGED <<shared, role, tries, bit, prior, victim>>

Look(t) ==
  /\ pc[t] = "look"
  /\ IF removed[loc[t]] THEN Return(t)
     ELSE Goto(t, "read") /\ UNCHANGED <<key, todo, loc, tries, bit, prior, victim>>
  /\ UNCHANGED <<shared, role>>

(* bank.get copies part by part; when none is left it returns true.        *)
Get(t) ==
  /\ pc[t] = "read"
  /\ \E p \in todo[t] : todo' = [todo EXCEPT ![t] = @ \ {p}]
  /\ UNCHANGED <<shared, role, pc, key, loc, tries, bit, prior, victim>>

Fetched(t) ==
  /\ pc[t] = "read" /\ todo[t] = {}
  /\ Return(t)
  /\ UNCHANGED <<shared, role>>
-----------------------------------------------------------------------------
FindEmptyLocation(t) == LookAtBank(t) \/ NoRoom(t) \/ ScanBits(t) \/ SetBit(t) \/ Count(t)
StoreSteps(t) == \/ StoreKnown(t) \/ StoreNew(t) \/ FindEmptyLocation(t)
                 \/ CheckRemoved(t) \/ Put(t) \/ Updated(t) \/ Publish(t)
ReleaseLocation(t) == SetRemoved(t) \/ ClearBit(t) \/ Uncount(t)
MapSteps(t) == Drain(t) \/ Evict(t) \/ Drained(t) \/ Notify(t) \/ LeaveMap(t)
FetchSteps(t) == Fetch(t) \/ Look(t) \/ Get(t) \/ Fetched(t)

Next == \E t \in Threads : \/ StoreSteps(t) \/ ReleaseLocation(t)
                           \/ MapSteps(t) \/ FetchSteps(t)

Spec == Init /\ [][Next]_vars
-----------------------------------------------------------------------------
(* Type invariant of the map, the banks, the locations and the threads: no *)
(* counter goes below zero, or above the blocks by more than the threads   *)
(* that are between a bit and its counter.                                 *)
SharedTyped ==
  /\ cache \in [Keys -> Locations \cup {NoLocation}] /\ pending \subseteq Locations
  /\ bits \in [Banks -> SUBSET Blocks]
  /\ counter \in [Banks -> Int]
  /\ data \in [Banks -> [Blocks -> [Parts -> Keys \cup {Junk}]]]
  /\ bank \in [Locations -> Banks] /\ block \in [Locations -> Blocks]
  /\ removed \in [Locations -> BOOLEAN]
  /\ filled \in [Locations -> SUBSET Parts]

ThreadsTyped ==
  /\ role \in [Threads -> SUBSET Calls]
  /\ pc \in [Threads -> Phases]
  /\ key \in [Threads -> Keys]
  /\ todo \in [Threads -> SUBSET Parts]
  /\ loc \in [Threads -> Locations \cup {NoLocation}]
  /\ tries \in [Threads -> Nat]
  /\ bit \in [Threads -> Blocks]
  /\ prior \in [Threads -> Locations \cup {NoLocation}]
  /\ victim \in [Threads -> Locations \cup {NoLocation}]

TypeOK == /\ SharedTyped /\ ThreadsTyped
          /\ \A b \in Banks : counter[b] \in 0..(BlocksPerBank + Cardinality(Threads))

(* A location owns its block when it is in the map, or evicted and not yet *)
(* told of, or had by a thread: by the store that took the block, by the   *)
(* one that replaced the location, or by the one that is releasing it and  *)
(* has not cleared the bit.                                                *)
Taking(t) == pc[t] \in {"count", "fill"}
Releasing(t) == pc[t] \in {"mark", "clear"}
Has(t, l) == \/ Taking(t) /\ loc[t] = l
             \/ prior[t] = l /\ victim[t] # l
             \/ Releasing(t) /\ victim[t] = l
Owner(l) == l \in pending \/ (\E k \in Keys : cache[k] = l) \/ (\E t \in Threads : Has(t, l))

(* No block has two owners, however stores, evictions and replacements     *)
(* interleave.                                                             *)
OneOwner ==
  \A l, m \in Locations : Owner(l) /\ Owner(m) /\ bank[l] = bank[m] /\ block[l] = block[m]
                            => l = m

(* The bits set are exactly the blocks that have an owner: none is leaked  *)
(* when two stores of one key race, none is handed out while in use.       *)
BitsAreOwned ==
  \A b \in Banks : bits[b] = {block[l] : l \in {m \in Locations : Owner(m) /\ bank[m] = b}}

(* The counter beside the bits is off by the threads between the two.      *)
CounterFollowsBits ==
  \A b \in Banks :
    counter[b] = Cardinality(bits[b])
                   - Cardinality({t \in Threads : pc[t] = "count" /\ Bank(t) = b})
                   + Cardinality({t \in Threads : pc[t] = "uncount" /\ bank[victim[t]] = b})

(* With a single thread that stores, a fetch that is copying from a        *)
(* location not removed yet finds there what was stored under its own key. *)
OneStorer == \A t, u \in Threads : "store" \in role[t] /\ "store" \in role[u] => t = u
Own(t) == \A p \in todo[t] \cap filled[loc[t]] : data[bank[loc[t]]][block[loc[t]]][p] = key[t]

LiveFetchIsOwn ==
  OneStorer => \A t \in Threads : pc[t] = "read" /\ ~removed[loc[t]] => Own(t)

(* The capacity of the map is one less than the blocks so that a thread    *)
(* alone in the cache always finds room.                                   *)
AloneFindsRoom ==
  [][\A t \in Threads : NoRoom(t) => \E u \in Threads \ {t} : role[u] # {}]_vars
=============================================================================
