---------------------------- MODULE LiveVersions ----------------------------
(***************************************************************************)
(* What an index promises its readers, with callers, chunks, failures and  *)
(* transactions left out: which documents a search can return, and which   *)
(* document is the live version of each URL.  Publishing a document makes  *)
(* both true in one step; nothing is ever unpublished except by publishing *)
(* another document at the same URL.                                       *)
(*                                                                         *)
(* IndexStore implements this specification (Live and Refinement below the *)
(* line in IndexStore).  The code it abstracts is index_document in        *)
(* src/src/openagentsearch/pipeline/index.py.                              *)
(***************************************************************************)
CONSTANTS
    Docs,
    Urls,
    WithText,   \* the documents whose text is not empty
    NoDoc       \* the live version of a URL that has none

VARIABLES
    searchable,   \* documents a vector search can return
    live          \* the live version of each URL

TypeOK ==
    /\ searchable \in SUBSET (Docs \cap WithText)
    /\ live \in [Urls -> Docs \cup {NoDoc}]

Init ==
    /\ searchable = {}
    /\ live = [u \in Urls |-> NoDoc]

(* Document d is published at url.  A document is published once, unless it
   has no text: then nothing marks it as present, and publishing it again
   moves it from wherever it was live. *)
Publish(d, url) ==
    /\ d \notin searchable
    /\ searchable' = searchable \cup ({d} \cap WithText)
    /\ live' = [u \in Urls |-> IF u = url THEN d
                               ELSE IF live[u] = d THEN NoDoc
                               ELSE live[u]]

Next == \E d \in Docs, url \in Urls : Publish(d, url)

Spec == Init /\ [][Next]_<<searchable, live>>
=============================================================================
