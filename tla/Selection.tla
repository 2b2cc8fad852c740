----------------------------- MODULE Selection ------------------------------
(***************************************************************************)
(* What a loop that walks a sequence and appends some of its elements to   *)
(* another one leaves: "for m in page.messages: if m.seq > cursor: ...".   *)
(***************************************************************************)
EXTENDS Integers, Sequences

(* The elements of s that are in S, in the order of s. *)
Kept(s, S) ==
    LET kept[i \in 0 .. Len(s)] ==
            IF i = 0 THEN <<>>
            ELSE IF s[i] \in S THEN Append(kept[i - 1], s[i]) ELSE kept[i - 1]
    IN  kept[Len(s)]
=============================================================================
