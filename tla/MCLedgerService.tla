-------------------------- MODULE MCLedgerService --------------------------
(* Three bound DIDs, fewer slots than lookups, a memo that holds fewer     *)
(* answers than there are DIDs, and a ledger that is replaced.             *)
EXTENDS LedgerService

CONSTANTS ada, bob, cyd

MCBindings == <<ada, bob, cyd>>

\* Bob turns out to be of a burst, and Cyd is no longer served.
MCDeployments ==
    <<[d \in {ada, bob, cyd} |-> "known"], ada :> "known" @@ bob :> "burst" @@ cyd :> "unknown">>

List == [kind |-> "candidates", dids |-> {ada, bob, cyd}]
Ask(did) == [kind |-> "facts", dids |-> {did}]
AskVersion == [kind |-> "version", dids |-> {Healthz}]

MCPlans ==
    {<<List, List>>, <<Ask(bob), List, Ask(bob)>>, <<Ask(cyd), Ask(cyd), List>>,
     <<AskVersion, Ask(ada), AskVersion>>}
=============================================================================
