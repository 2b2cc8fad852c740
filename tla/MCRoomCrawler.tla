--------------------------- MODULE MCRoomCrawler ----------------------------
(***************************************************************************)
(* RoomCrawler with two rooms created while it runs and an old one whose   *)
(* three messages mention them; answers of one event line and of two       *)
(* messages, read one at a time; one fault.                                *)
(***************************************************************************)
EXTENDS RoomCrawler, TLC

CONSTANTS a, b, old

MCCreation == <<a, b>>
MCMentions == a :> <<>> @@ b :> <<>> @@ old :> <<{b}, {a}, {}>>
=============================================================================
