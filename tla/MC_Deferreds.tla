---------------------------- MODULE MC_Deferreds ----------------------------
(* Lists of each combination of flags jQuery's users and jQuery itself     *)
(* pass to Callbacks(), and two deferreds.                                 *)
EXTENDS Deferreds, TLC

FlagNames == [plain |-> {}, once |-> {"once"}, memory |-> {"memory"},
              onceMemory |-> {"once", "memory"}, unique |-> {"unique"},
              stops |-> {"stopOnFalse", "memory"}]
PlainLists == {<<"list", n>> : n \in DOMAIN FlagNames}
MCLists == PlainLists \cup DeferredLists
MCFlags == [l \in MCLists |-> IF l \in PlainLists THEN FlagNames[l[2]] ELSE ListFlags(l[2])]
MCSettings == {{l} : l \in PlainLists} \cup {{<<"list", "plain">>, <<"list", "memory">>}, {}}
MCWhenArgs == {<<d, e>> : d, e \in Given \cup {Plain}}
Alike == Permutations(Fns) \cup Permutations(Given)
=============================================================================
