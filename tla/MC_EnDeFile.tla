---------------------------- MODULE MC_EnDeFile ----------------------------
(* Small instances of EnDeFile: the files given to its calls.              *)
EXTENDS EnDeFile, TLC

Encoded(kinds, short) == [dir |-> "encode", kinds |-> kinds, short |-> short]
Decoded(kinds, short) == [dir |-> "decode", kinds |-> kinds, short |-> short]

P == "plain"

(* Files of up to three blocks that encrypt without trouble, with and      *)
(* without a tail, the empty file, and well-formed encrypted files.        *)
PlainSources ==
  {Encoded(<<>>, FALSE), Encoded(<<P, P>>, FALSE), Encoded(<<P, P, P>>, TRUE),
   Decoded(<<P, P>>, FALSE), Decoded(<<P>>, TRUE)}

(* Plain files beside files with blocks the cipher rejects.                *)
RejectedSources ==
  {Encoded(<<P, P>>, TRUE), Encoded(<<"large", P, P>>, FALSE),
   Encoded(<<P, "large", P>>, TRUE), Encoded(<<P, P, "large">>, FALSE),
   Encoded(<<P>>, FALSE), Encoded(<<>>, FALSE), Decoded(<<P, P>>, FALSE)}

(* Every kind of block in either direction.                                *)
MixedSources ==
  {Encoded(<<P, P>>, FALSE), Encoded(<<P, "wide", P>>, FALSE),
   Encoded(<<"large", "wide">>, TRUE), Decoded(<<P, "large">>, FALSE),
   Decoded(<<P>>, TRUE)}

CallSymmetry == Permutations(Calls)
=============================================================================
