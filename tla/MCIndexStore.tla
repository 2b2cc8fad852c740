---------------------------- MODULE MCIndexStore ----------------------------
(***************************************************************************)
(* IndexStore on two callers, two documents with text (one chunk and two), *)
(* one document whose extracted text is empty, and two URLs.               *)
(***************************************************************************)
EXTENDS IndexStore, TLC

CONSTANTS c1, c2, one, two, none, u1, u2

MCChunkCount == one :> 1 @@ two :> 2 @@ none :> 0

MCSymmetry == Permutations({c1, c2}) \cup Permutations({u1, u2})
=============================================================================
