--------------------------- MODULE MC_BlockCache ---------------------------
(* Small instances of BlockCache: who stores and who fetches.              *)
EXTENDS BlockCache, TLC

CONSTANTS t1, t2

Role(a, b) == [t \in Threads |-> IF t = t1 THEN a ELSE b]
AllRoles == {Role({"store", "fetch"}, {}), Role({"store"}, {"store"}),
             Role({"store"}, {"fetch"})}

(* The state without what no step can look at again: locations nobody      *)
(* refers to, bytes of blocks no such location names, keys of idle threads.*)
(* Which object a location is does not matter, only who refers to it.      *)
Live == Referenced \ {NoLocation}
Referrers(l) == <<l \in pending, {k \in Keys : cache[k] = l}, {t \in Threads : loc[t] = l},
                  {t \in Threads : prior[t] = l}, {t \in Threads : victim[t] = l}>>
View == <<bits, counter, role, pc, todo, tries, bit,
          {<<Referrers(l), bank[l], block[l], removed[l], filled[l],
             data[bank[l]][block[l]]>> : l \in Live},
          [t \in Threads |-> IF pc[t] = "idle" THEN Junk ELSE key[t]]>>
KeySymmetry == Permutations(Keys)
=============================================================================
