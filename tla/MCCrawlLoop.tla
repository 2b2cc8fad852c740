---------------------------- MODULE MCCrawlLoop -----------------------------
(***************************************************************************)
(* CrawlLoop on a host with three pages and one with two, which link       *)
(* across hosts and back, and a page x outside the path prefixes; caps of  *)
(* one and two pages; three invocations.                                   *)
(***************************************************************************)
EXTENDS CrawlLoop, TLC

CONSTANTS a, b, a1, a2, a3, b1, b2, x

MCHostOf == [p \in Pages |-> IF p \in {b1, b2} THEN b ELSE a]

MCLinks ==
    a1 :> <<b1, x, a2>> @@ a2 :> <<a1, a3>> @@ a3 :> <<b2>>
    @@ b1 :> <<a3, b2>> @@ b2 :> <<>> @@ x :> <<b2>>

MCSeeds == <<a1, a1, a2>>
=============================================================================
