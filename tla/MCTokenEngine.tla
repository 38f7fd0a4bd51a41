--------------------------- MODULE MCTokenEngine ---------------------------
(* TokenEngine on two servers, one of which has an identifier so long that *)
(* its tokens are issued and never accepted; a token has two spellings.    *)
EXTENDS TokenEngine, TLC

MCTooLong == {"billing"} \X {"ann"} \X Spellings
MCSymmetry == Permutations(Spellings)
=============================================================================
