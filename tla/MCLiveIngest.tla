---------------------------- MODULE MCLiveIngest ----------------------------
(***************************************************************************)
(* LiveIngest on two documents with the same text, two page URLs, each of  *)
(* which may answer with either document at any time, and a source URL.    *)
(***************************************************************************)
EXTENDS LiveIngest, TLC

CONSTANTS d1, d2, page, page2, source

MCTextOf == [d \in Docs |-> "same"]
MCChunkCount == [d \in Docs |-> 1]
=============================================================================
