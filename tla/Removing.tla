------------------------------ MODULE Removing ------------------------------
(***************************************************************************)
(* A sequence without the occurrences of a value.                          *)
(***************************************************************************)
EXTENDS Integers, Sequences

Without(s, e) ==
  LET kept[n \in 0..Len(s)] ==
        IF n = 0 THEN <<>> ELSE IF s[n] = e THEN kept[n - 1] ELSE Append(kept[n - 1], s[n])
  IN  kept[Len(s)]
=============================================================================
