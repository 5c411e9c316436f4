------------------------- MODULE MC_UploadProgress -------------------------
(* Small instances of UploadProgress: requests without uploads, or the     *)
(* other way round.                                                        *)
EXTENDS UploadProgress, TLC

CONSTANTS u1, u2, a

Holding(kind, r, u) == [root |-> [m \in Names |-> IF m = a THEN kind ELSE "none"],
                        requests |-> r, uploads |-> u]
MCStarts == {Holding("file", 3, 0), Holding("dir", 3, 0), Holding("dir", 1, 1), Holding("none", 0, 2)}

(* The state without what no step can look at again: rows nobody can reach,*)
(* and check marks when nothing will be deleted.                           *)
Deleting == left.requests > 0 \/ \E c \in InFlight : Asked(c).op = "delete"
Reached ==
  [r \in Rows |-> IF r \notin Shown \cup InHand THEN NoRow
                 ELSE [row[r] EXCEPT !.checked = @ /\ Deleting]]
View == <<drive, label, Reached, view, box, chosen, calls, astray, left, quiet, uploadVars>>
=============================================================================
