-------------------------- MODULE MC_IndexStreams --------------------------
(* A small instance of IndexStreams.                                       *)
EXTENDS IndexStreams, TLC

(* The state without what no call can look at again: bytes that are not    *)
(* valid in an open stream's buffer or that a stream no longer promises,   *)
(* places of closed streams, and the answer of the last call.              *)
Origin(s) == IF s \in Inputs THEN <<origin[s], clone[s]>> ELSE <<>>
Seen(s) ==
  IF phase[s] # "open" THEN <<phase[s], broken[s], buffer[s], Origin(s)>>
  ELSE <<phase[s], broken[s], buffer[s], start[s], pos[s], len[s], Origin(s),
         IF s \in Inputs THEN <<>> ELSE <<size[s]>>,
         IF s \in Outputs THEN <<Text(s)>> ELSE <<>>,
         IF len[s] = 0 \/ broken[s] THEN <<>> ELSE SubSeq(content[buffer[s]], 1, len[s])>>
View == <<length, faults, pool, ended, [s \in Streams |-> Seen(s)]>>
Symmetry == Permutations(Buffers) \cup Permutations(Inputs) \cup Permutations(Outputs)
=============================================================================
