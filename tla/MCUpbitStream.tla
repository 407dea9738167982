--------------------------- MODULE MCUpbitStream ---------------------------
(* An instance of UpbitStream: the two keys are two timeframes of a pair.  *)
EXTENDS UpbitStream, TLC

CONSTANTS k1, k2, p1

OnePair == k1 :> p1 @@ k2 :> p1

Timeframes == Permutations(Key)
=============================================================================
