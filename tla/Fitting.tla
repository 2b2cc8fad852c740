------------------------------ MODULE Fitting ------------------------------
(***************************************************************************)
(* Fitting a published artifact to its size limit, as compact._fit and     *)
(* liveness.fit_liveness do: the entries are ranked by their last post,    *)
(* newest first, the longest prefix that fits is found by binary search,   *)
(* and it is cut back so that no group of equal timestamps is split.       *)
(***************************************************************************)
EXTENDS Integers, Sequences, FiniteSets, SequencesExt, FiniteSetsExt, Ordering

\* Newest first; DIDs last seen at the same time in their own order.
Newer(lastSeen) ==
    {p \in (DOMAIN lastSeen) \X (DOMAIN lastSeen) :
       lastSeen[p[1]] > lastSeen[p[2]] \/ (lastSeen[p[1]] = lastSeen[p[2]] /\ p[1] < p[2])}
Ranked(lastSeen) == SortedBy(DOMAIN lastSeen, Newer(lastSeen))

\* The binary search of the code among 1..n, of which those in fitting fit
\* the limit: 0 stands for "nothing yet", and lo and hi meet before turn n.
Halved(b, fitting) ==
    LET mid == (b.lo + b.hi + 1) \div 2
    IN  IF b.lo >= b.hi THEN b
        ELSE IF mid \in fitting THEN [b EXCEPT !.lo = mid] ELSE [b EXCEPT !.hi = mid - 1]

LargestFit(n, fitting) ==
    LET search[turn \in 0..n] ==
          IF turn = 0 THEN [lo |-> 0, hi |-> n] ELSE Halved(search[turn - 1], fitting)
    IN  search[n].lo

\* No cut: the cutoff group may be split.
BoundaryNone(k, ranked, lastSeen) == k

\* k, cut back to the last place where no tie is split.
Boundary(k, ranked, lastSeen) ==
    Max({j \in 0..k : j \in {0, Len(ranked)}
                        \/ lastSeen[ranked[j]] # lastSeen[ranked[j + 1]]})

Newest(k, ranked) == {ranked[i] : i \in 1..k}

\* The header that says what a fitted artifact holds; no header is 0 kept.
Served(k, ranked, lastSeen) == [kept |-> k, cutoff |-> lastSeen[ranked[k]]]
NoServed == [kept |-> 0, cutoff |-> 0]

\* What fitting promises: every DID last seen at or after the cutoff is held
\* and no other.
ServesExactly(dids, served, lastSeen) ==
    IF served = NoServed
      THEN dids = DOMAIN lastSeen
      ELSE /\ dids = {d \in DOMAIN lastSeen : lastSeen[d] >= served.cutoff}
           /\ served.kept = Cardinality(dids)
           /\ dids # DOMAIN lastSeen
=============================================================================
