---------------------------- MODULE MCMessageLog ----------------------------
(***************************************************************************)
(* MessageLog over two rooms: a busy one, one of whose items is malformed, *)
(* and a quiet one; pages of two messages; one retry; two kills.  The busy *)
(* room is given with --room and listed in the liveness map too; the quiet *)
(* one is the best of a directory whose other rows are stale, private,     *)
(* excluded, malformed, known already, or come second.                     *)
(***************************************************************************)
EXTENDS MessageLog, RoomSelection, TLC

CONSTANTS busy, quiet

MCRoomIds == 1..7
MCPrivate == {5}

Row(id, count, active) == [id |-> id, count |-> count, active |-> active]

MCDirectory ==
    <<Row(busy, 90, 100), Row(5, 80, 100), Row(6, 70, 100), Row(4, 60, 20), Row(quiet, NoInt, 100),
      Row(quiet, 8, 99), Row(7, 8, 100), Row(quiet, 50, 100), Row(9, 40, 100)>>

MCLiveness == busy :> "live" @@ 5 :> "live" @@ 6 :> "mixed" @@ 7 :> "farm"

MCRooms == <<busy, quiet>>

ASSUME Selected ==
    MCRooms = SelectRooms(MCDirectory,
                          Explicit(<<busy>>, RoomsFromLiveness(MCLiveness, {"live", "mixed"}), {6}),
                          1, 7, 100, {6})

MCMalformed == busy :> {3} @@ quiet :> {}
MCMaxSeq == busy :> 4 @@ quiet :> 1
MCWellFormed == busy :> {} @@ quiet :> {}
=============================================================================
