------------------------- MODULE LedgerServiceProofs -------------------------
(***************************************************************************)
(* Theorems about LedgerService for any bindings, number of slots, memo,   *)
(* times to live, deployments and calls.                                   *)
(*                                                                         *)
(* Matching is about who waits for what: NothingForgotten is not inductive *)
(* by itself, since what a call still waits for can only be compared with  *)
(* the table in flight when the table refers to calls that exist, and when *)
(* the lookups of an exchange can be told from the calls of version();     *)
(* Shape says both.  The rest of IInv is about what the answers say: of    *)
(* each answer, kept, on its way or given, from when it is, and that of a  *)
(* DID nothing newer was given before it.                                  *)
(***************************************************************************)
EXTENDS LedgerService, SequenceLemmas

USE ServiceAssumption

\* The places of the state that NothingForgotten is about, as far as it needs them.
Shape ==
    /\ activeFetches \in Nat /\ activeFetches <= Slots
    /\ waiters \in Seq(Dids)
    /\ \A d \in DOMAIN inflightLookups : inflightLookups[d] \in Seq(Nat)
    /\ \A d \in DOMAIN inflightLookups : Range(inflightLookups[d]) \subseteq DOMAIN calls
    /\ calls \in Seq(Range(calls))
    /\ \A c \in DOMAIN calls :
          /\ DOMAIN calls[c] = {"kind", "dids", "began", "answers"}
          /\ calls[c].kind # "version" => calls[c].dids \subseteq Dids
    /\ \A k \in DOMAIN exchanges \ Dids : k \in DOMAIN calls /\ calls[k].kind = "version"

Matching == Shape /\ NothingForgotten

\* The options, the clock and the deployments.
Surroundings ==
    /\ now \in Nat /\ plan \in Plans /\ burstPolicy \in BurstPolicies
    /\ live \in 1..Len(Deployments) /\ replaced \in Seq(Nat) /\ Len(replaced) = live - 1
    /\ \A g \in 1..Len(replaced) : replaced[g] <= now

\* With `on` deployments so far, replaced at `until`: an answer of one that
\* was not replaced before the time t, and what this one says of the key.
Sound(on, until, key, answer, t) ==
    \/ answer = Unavailable
    \/ /\ answer.generation \in 1..on
       /\ answer.generation < on => until[answer.generation] >= t
       /\ key \in Dids => answer.value = Deployments[answer.generation][key]

\* An exchange is answered after it was opened, and is over at its deadline.
SoundExchanges ==
    \A k \in DOMAIN exchanges :
        /\ DOMAIN exchanges[k] = {"deadline", "reply"}
        /\ exchanges[k].deadline \in Nat
        /\ exchanges[k].deadline - Timeout <= now /\ now <= exchanges[k].deadline
        /\ exchanges[k].reply # NoReply
              => Sound(live, replaced, k, exchanges[k].reply, exchanges[k].deadline - Timeout)

\* The memo: one entry of a DID at most, the oldest first.
InAgeOrder(memo) ==
    \A i, j \in 1..Len(memo) : i < j => memo[i].at <= memo[j].at /\ memo[i].did # memo[j].did

SoundMemo ==
    /\ lookupCache \in Seq(Range(lookupCache))
    /\ Len(lookupCache) <= MaxCached /\ InAgeOrder(lookupCache)
    /\ \A e \in Range(lookupCache) :
          /\ e.did \in Dids /\ e.at \in Nat /\ e.at <= now
          /\ e.answer # Unavailable /\ Sound(live, replaced, e.did, e.answer, e.at - Timeout)

SoundVersionCache ==
    /\ Len(versionCache) <= 1
    /\ \A e \in Range(versionCache) :
          /\ e.at \in Nat /\ e.at <= now
          /\ Sound(live, replaced, Healthz, e.answer, e.at - Timeout)

SoundCall(call, on, until, time) ==
    /\ call.began \in Nat /\ call.began <= time
    /\ call.kind = "candidates" => call.dids = Dids
    /\ call.kind = "version" => call.dids = {Healthz}
    /\ DOMAIN call.answers \subseteq call.dids
    /\ \A k \in DOMAIN call.answers :
          Sound(on, until, k, call.answers[k], call.began - CacheTtl - Timeout + 1)

SoundCalls ==
    /\ Len(calls) <= Len(plan)
    /\ \A c \in DOMAIN calls : SoundCall(calls[c], live, replaced, now)

\* A DID that is being looked up has no fresh answer, and its callers share
\* the lookup in the order in which they called.
Sharing ==
    \A d \in DOMAIN inflightLookups :
        /\ Hits(d) = {}
        /\ Increasing(inflightLookups[d])
        /\ \A c \in Range(inflightLookups[d]) : calls[c].kind # "version"

\* Who asked for a DID earlier is not answered later.
EarlierFirst ==
    \A c, e \in DOMAIN calls :
        c < e /\ calls[c].kind # "version" =>
            \A d \in Dids \cap calls[c].dids \cap DOMAIN calls[e].answers :
                d \in DOMAIN calls[c].answers

\* What is kept of a DID, what has come for it, and what later calls were
\* given is no older than an answer that was given.
Given(d, c) == calls[c].answers[d].generation

NewestKept ==
    \A d \in Dids, c \in DOMAIN calls : d \in DOMAIN calls[c].answers =>
        \A e \in Range(lookupCache) : e.did = d => Given(d, c) <= e.answer.generation

NewestComing ==
    \A d \in Dids, c \in DOMAIN calls : d \in DOMAIN calls[c].answers =>
        (d \in DOMAIN exchanges /\ exchanges[d].reply \notin {NoReply, Unavailable}
            => Given(d, c) <= exchanges[d].reply.generation)

NewestGiven ==
    \A d \in Dids, c \in DOMAIN calls, e \in DOMAIN calls :
        /\ c < e /\ d \in DOMAIN calls[c].answers /\ d \in DOMAIN calls[e].answers
        /\ calls[e].answers[d] # Unavailable
        => Given(d, c) <= Given(d, e)

\* The snapshot is the list of the last candidates() call that succeeded.
ListUnder(policy, call) ==
    LET listed == {d \in call.dids : \/ call.answers[d].value = "known"
                                     \/ call.answers[d].value = "burst" /\ policy = "annotate"}
    IN  [d \in listed |-> call.answers[d].generation]

Listed(call) == call.kind = "candidates" /\ Succeeds(call)

SnapshotIsLast ==
    /\ (\A c \in DOMAIN calls : ~Listed(calls[c])) => lastSnapshot = << >>
    /\ \A c \in DOMAIN calls :
          Listed(calls[c]) /\ (\A e \in DOMAIN calls : Listed(calls[e]) => e <= c)
             => lastSnapshot = ListUnder(burstPolicy, calls[c])

IInv ==
    /\ Matching
    /\ Surroundings
    /\ SoundExchanges
    /\ SoundMemo
    /\ SoundVersionCache
    /\ SoundCalls
    /\ Sharing
    /\ EarlierFirst
    /\ NewestKept
    /\ NewestComing
    /\ NewestGiven
    /\ SnapshotIsLast

-----------------------------------------------------------------------------
LEMMA DidsAreFinite == IsFiniteSet(Dids)
<1>1. Bindings \in [1..Len(Bindings) -> Dids] /\ Len(Bindings) \in Nat
  BY LenProperties
<1>2. Bindings \in Surjection(1..Len(Bindings), Dids)
  BY <1>1 DEF Dids, Range, Surjection
<1>3. IsFiniteSet(1..Len(Bindings))
  BY <1>1, FS_Interval
<1> QED
  BY <1>2, <1>3, FS_Surjection

LEMMA SlotsAreFree ==
    ASSUME Shape
    PROVE  /\ FreeSlots \in Nat
           /\ FreeSlots = Slots - activeFetches
<1>1. Slots - activeFetches \in Nat
  BY DEF Shape
<1>2. Max({0, Slots - activeFetches}) = Slots - activeFetches
  BY <1>1 DEF Max
<1> QED
  BY <1>1, <1>2 DEF FreeSlots

LEMMA TheLess ==
    ASSUME NEW m \in Nat, NEW n \in Nat
    PROVE  /\ Min({m, n}) \in Nat /\ Min({m, n}) <= m /\ Min({m, n}) <= n
           /\ Min({m, n}) < m => Min({m, n}) = n
<1>1. \E x \in {m, n} : \A y \in {m, n} : x =< y
  OBVIOUS
<1>2. Min({m, n}) \in {m, n} /\ \A y \in {m, n} : Min({m, n}) =< y
  BY <1>1 DEF Min
<1> QED
  BY <1>2

\* DIDs in the order of the bindings are all there, and each once.
LEMMA OrderEnumerates ==
    ASSUME NEW dids, dids \subseteq Dids, NEW s \in InOrder(dids)
    PROVE  /\ s \in Seq(dids) /\ Len(s) = Cardinality(dids) /\ Len(s) \in Nat
           /\ \A i \in 1..Len(s), j \in 1..Len(s) : s[i] = s[j] => i = j
           /\ Range(s) = dids
<1> DEFINE n == Cardinality(dids)
<1>1. IsFiniteSet(dids) /\ n \in Nat
  BY DidsAreFinite, FS_Subset, FS_CardinalityType
<1>2. s \in [1..n -> dids]
  BY DEF InOrder
<1>3. s \in Seq(dids) /\ Len(s) = n
  BY <1>1, <1>2, IsASeq, LenProperties
<1>4. \A d \in Dids : Position(d) \in Int
  <2> SUFFICES ASSUME NEW d \in Dids PROVE Position(d) \in Int
    OBVIOUS
  <2>1. \E i \in DOMAIN Bindings : Bindings[i] = d
    BY DEF Dids, Range
  <2>2. Position(d) \in DOMAIN Bindings
    BY <2>1 DEF Position
  <2> QED
    BY <2>2, LenProperties
<1>5. ASSUME NEW i \in 1..n, NEW j \in 1..n, s[i] = s[j] PROVE i = j
  <2>1. DOMAIN s = 1..n
    BY <1>2
  <2>2. ASSUME NEW a \in 1..n, NEW b \in 1..n, a < b PROVE s[a] # s[b]
    <3>1. Position(s[a]) < Position(s[b])
      BY <2>1, <2>2 DEF InOrder
    <3>2. Position(s[a]) \in Int
      BY <1>2, <1>4
    <3> QED
      BY <3>1, <3>2
  <2> QED
    BY <1>1, <1>5, <2>2
<1>6. s \in Injection(1..n, dids)
  BY <1>2, <1>5 DEF Injection, IsInjective
<1>7. IsFiniteSet(1..n) /\ Cardinality(1..n) = n
  BY <1>1, FS_Interval
<1>8. s \in Surjection(1..n, dids)
  BY <1>1, <1>6, <1>7, FS_Injection
<1>9. Range(s) = dids
  BY <1>2, <1>8 DEF Surjection, Range
<1> QED
  BY <1>1, <1>3, <1>5, <1>9

-----------------------------------------------------------------------------
\* A call of candidates() or facts(): what is missing gets a slot or waits.
LEMMA BeginKeeps ==
    ASSUME Matching, NEW kind, kind # "version", NEW dids \in SUBSET Dids, BeginLookups(kind, dids)
    PROVE  Matching'
<1> DEFINE c == Len(calls) + 1
           cached == {d \in dids : Hits(d) # {}}
           joined == (dids \ cached) \cap DOMAIN inflightLookups
           wanted == dids \ (cached \cup joined)
           call == [kind |-> kind, dids |-> dids, began |-> now,
                    answers |-> [d \in cached |-> (CHOOSE e \in Hits(d) : TRUE).answer]]
<1>1. PICK missing \in InOrder(wanted) :
         LET free == Min({Len(missing), FreeSlots}) IN
         /\ calls' = Append(calls, call)
         /\ inflightLookups' = [d \in DOMAIN inflightLookups \cup Range(missing) |->
               IF d \in Range(missing) THEN <<c>>
               ELSE IF d \in joined THEN Append(inflightLookups[d], c)
               ELSE inflightLookups[d]]
         /\ activeFetches' = activeFetches + free
         /\ exchanges' = Opened(Range(SubSeq(missing, 1, free)))
         /\ waiters' = waiters \o SubSeq(missing, free + 1, Len(missing))
  BY DEF BeginLookups
<1> DEFINE free == Min({Len(missing), FreeSlots})
           first == SubSeq(missing, 1, free)
           later == SubSeq(missing, free + 1, Len(missing))
<1>2. /\ calls' = Append(calls, call)
      /\ inflightLookups' = [d \in DOMAIN inflightLookups \cup Range(missing) |->
            IF d \in Range(missing) THEN <<c>>
            ELSE IF d \in joined THEN Append(inflightLookups[d], c)
            ELSE inflightLookups[d]]
      /\ activeFetches' = activeFetches + free
      /\ exchanges' = Opened(Range(first))
      /\ waiters' = waiters \o later
  BY <1>1
<1>3. /\ wanted \subseteq Dids /\ wanted \cap DOMAIN inflightLookups = {}
      /\ joined \subseteq DOMAIN inflightLookups
      /\ DOMAIN call = {"kind", "dids", "began", "answers"}
      /\ call.kind # "version" /\ call.dids \subseteq Dids
      /\ call.dids \ DOMAIN call.answers = joined \cup wanted
  OBVIOUS
<1>4. /\ missing \in Seq(Dids) /\ Len(missing) \in Nat
      /\ IsInjective(missing) /\ Range(missing) = wanted
  <2>1. /\ missing \in Seq(wanted) /\ Len(missing) \in Nat /\ Range(missing) = wanted
        /\ \A i \in 1..Len(missing), j \in 1..Len(missing) : missing[i] = missing[j] => i = j
    BY <1>3, OrderEnumerates
  <2>2. DOMAIN missing = 1..Len(missing)
    BY <2>1, LenProperties
  <2>3. missing \in Seq(Dids)
    BY <1>3, <2>1, SeqMonotonic
  <2> QED
    BY <2>1, <2>2, <2>3 DEF IsInjective
<1>5. /\ free \in Nat /\ free <= Len(missing)
      /\ activeFetches \in Nat /\ activeFetches + free <= Slots
      /\ free < Len(missing) => activeFetches + free = Slots
      /\ activeFetches = Slots => free = 0
  <2>1. FreeSlots \in Nat /\ FreeSlots = Slots - activeFetches
    BY SlotsAreFree DEF Matching
  <2>2. /\ free \in Nat /\ free <= Len(missing) /\ free <= FreeSlots
        /\ free < Len(missing) => free = FreeSlots
    BY <1>4, <2>1, TheLess
  <2>3. activeFetches \in Nat /\ activeFetches <= Slots
    BY DEF Matching, Shape
  <2> HIDE DEF free
  <2> QED
    BY <2>1, <2>2, <2>3
<1>6. /\ later \in Seq(Dids) /\ IsInjective(later) /\ (later # <<>> => free < Len(missing))
      /\ Range(first) \cup Range(later) = wanted /\ Range(first) \cap Range(later) = {}
      /\ IsFiniteSet(Range(first)) /\ Cardinality(Range(first)) = free
  <2> HIDE DEF free, wanted
  <2> QED
    BY <1>4, <1>5, CutInTwo
<1> HIDE DEF free, first, later, wanted, joined, call, c, cached
<1>7. Fetching' = Fetching \cup Range(first) /\ Fetching \cap Range(first) = {}
  <2>1. DOMAIN exchanges' = DOMAIN exchanges \cup Range(first)
    BY <1>2 DEF Opened
  <2>2. Fetching \subseteq DOMAIN inflightLookups
    BY DEF Matching, NothingForgotten
  <2> QED
    BY <1>3, <1>6, <2>1, <2>2 DEF Fetching
<1>8. activeFetches' = Cardinality(Fetching')
  <2>1. IsFiniteSet(Fetching)
    BY DidsAreFinite, FS_Subset DEF Fetching
  <2>2. Cardinality(Fetching \cup Range(first)) = Cardinality(Fetching) + free
    <3>1. Fetching \cap Range(first) = {} /\ Cardinality({}) = 0
      BY <1>7, FS_EmptySet
    <3>2. Cardinality(Fetching) \in Nat
      BY <2>1, FS_CardinalityType
    <3>3. Cardinality(Fetching \cup Range(first))
            = Cardinality(Fetching) + Cardinality(Range(first)) - Cardinality(Fetching \cap Range(first))
      BY <1>6, <2>1, FS_Union
    <3>4. Cardinality(Fetching \cup Range(first)) = Cardinality(Fetching) + free - 0
      BY <1>6, <3>1, <3>3
    <3> QED
      BY <1>5, <3>2, <3>4
  <2> QED
    BY <1>2, <1>7, <2>2 DEF Matching, NothingForgotten
<1>9. /\ waiters' \in Seq(Dids) /\ IsInjective(waiters')
      /\ Range(waiters') = Range(waiters) \cup Range(later)
      /\ (waiters' # <<>> => waiters # <<>> \/ later # <<>>)
  <2>1. Range(waiters) \cap Range(later) = {}
    BY <1>3, <1>6 DEF Matching, NothingForgotten
  <2>2. waiters \in Seq(Dids) /\ IsInjective(waiters)
    BY DEF Matching, Shape, NothingForgotten
  <2> QED
    BY <1>2, <1>6, <2>1, <2>2, JoinedOnce
<1>10. waiters' # <<>> => activeFetches' = Slots
  BY <1>2, <1>5, <1>6, <1>9 DEF Matching, NothingForgotten
<1>11. Range(waiters') \cap Fetching' = {}
  BY <1>3, <1>6, <1>7, <1>9 DEF Matching, NothingForgotten
<1>12. DOMAIN inflightLookups' = DOMAIN inflightLookups \cup wanted
  BY <1>2, <1>4
<1>13. DOMAIN inflightLookups' = Range(waiters') \cup Fetching'
  BY <1>6, <1>7, <1>9, <1>12 DEF Matching, NothingForgotten
<1>14. /\ calls' \in Seq(Range(calls')) /\ c \in Nat /\ c \notin DOMAIN calls
       /\ DOMAIN calls' = DOMAIN calls \cup {c}
       /\ \A i \in DOMAIN calls : calls'[i] = calls[i]
       /\ calls'[c] = call
  <2>1. calls \in Seq(Range(calls))
    BY DEF Matching, Shape
  <2> QED
    BY <1>2, <2>1, OneMore DEF c
<1>15. ASSUME NEW d \in DOMAIN inflightLookups'
       PROVE  /\ inflightLookups'[d] \in Seq(Nat)
              /\ Range(inflightLookups'[d]) =
                    IF d \in wanted THEN {c}
                    ELSE IF d \in joined THEN Range(inflightLookups[d]) \cup {c}
                    ELSE Range(inflightLookups[d])
  <2>1. CASE d \in wanted
    <3>1. inflightLookups'[d] = <<c>>
      BY <1>2, <1>4, <2>1
    <3>2. <<c>> \in Seq(Nat) /\ Range(<<c>>) = {c}
      BY <1>14 DEF Range
    <3> QED
      BY <2>1, <3>1, <3>2
  <2>2. CASE d \notin wanted /\ d \in joined
    <3>1. inflightLookups'[d] = Append(inflightLookups[d], c)
      BY <1>2, <1>4, <2>2
    <3>2. inflightLookups[d] \in Seq(Nat)
      BY <1>3, <2>2 DEF Matching, Shape
    <3>3. c \in Nat
      BY <1>14
    <3>4. /\ Append(inflightLookups[d], c) \in Seq(Nat)
          /\ Range(Append(inflightLookups[d], c)) = Range(inflightLookups[d]) \cup {c}
      BY <3>2, <3>3, OneMoreInRange
    <3> QED
      BY <2>2, <3>1, <3>4
  <2>3. CASE d \notin wanted /\ d \notin joined
    <3>1. inflightLookups'[d] = inflightLookups[d] /\ d \in DOMAIN inflightLookups
      BY <1>2, <1>4, <1>12, <2>3
    <3> QED
      BY <2>3, <3>1 DEF Matching, Shape
  <2> QED
    BY <2>1, <2>2, <2>3
<1>16. \A d \in DOMAIN inflightLookups : Range(inflightLookups[d]) \subseteq DOMAIN calls
  BY DEF Matching, Shape
<1>17. ASSUME NEW i \in DOMAIN calls', calls'[i].kind # "version"
       PROVE  calls'[i].dids \ DOMAIN calls'[i].answers
                = {d \in DOMAIN inflightLookups' : i \in Range(inflightLookups'[d])}
  <2>1. CASE i = c
    <3>1. \A d \in DOMAIN inflightLookups' : c \in Range(inflightLookups'[d]) <=> d \in joined \cup wanted
      BY <1>12, <1>14, <1>15, <1>16
    <3>2. joined \cup wanted \subseteq DOMAIN inflightLookups'
      BY <1>3, <1>12
    <3> QED
      BY <1>3, <1>14, <2>1, <3>1, <3>2
  <2>2. CASE i # c
    <3>1. /\ i \in DOMAIN calls /\ calls'[i] = calls[i]
          /\ calls[i].dids \ DOMAIN calls[i].answers
                = {d \in DOMAIN inflightLookups : i \in Range(inflightLookups[d])}
      BY <1>14, <1>17, <2>2 DEF Matching, NothingForgotten
    <3>2. \A d \in DOMAIN inflightLookups' : i \in Range(inflightLookups'[d])
             <=> d \in DOMAIN inflightLookups /\ i \in Range(inflightLookups[d])
      <4> SUFFICES ASSUME NEW d \in DOMAIN inflightLookups'
                   PROVE  i \in Range(inflightLookups'[d])
                            <=> d \in DOMAIN inflightLookups /\ i \in Range(inflightLookups[d])
        OBVIOUS
      <4>1. CASE d \in wanted
        BY <1>3, <1>15, <2>2, <4>1
      <4>2. CASE d \notin wanted
        BY <1>12, <1>15, <2>2, <4>2
      <4> QED
        BY <4>1, <4>2
    <3> QED
      BY <1>12, <3>1, <3>2
  <2> QED
    BY <2>1, <2>2
<1>18. NothingForgotten'
  BY <1>8, <1>9, <1>10, <1>11, <1>13, <1>17 DEF NothingForgotten
<1>19. Shape'
  <2>1. activeFetches' \in Nat /\ activeFetches' <= Slots
    BY <1>2, <1>5
  <2>2. \A d \in DOMAIN inflightLookups' : Range(inflightLookups'[d]) \subseteq DOMAIN calls'
    BY <1>12, <1>14, <1>15, <1>16
  <2>3. \A i \in DOMAIN calls' :
           /\ DOMAIN calls'[i] = {"kind", "dids", "began", "answers"}
           /\ calls'[i].kind # "version" => calls'[i].dids \subseteq Dids
    BY <1>3, <1>14 DEF Matching, Shape
  <2>4. \A k \in DOMAIN exchanges' \ Dids : k \in DOMAIN calls' /\ calls'[k].kind = "version"
    <3>1. DOMAIN exchanges' \ Dids \subseteq DOMAIN exchanges \ Dids
      BY <1>2, <1>3, <1>6 DEF Opened
    <3> QED
      BY <1>14, <3>1 DEF Matching, Shape
  <2> QED
    BY <1>9, <1>14, <1>15, <2>1, <2>2, <2>3, <2>4 DEF Shape
<1> QED
  BY <1>18, <1>19 DEF Matching

\* Whatever leaves calls, slots and the table in flight as they are, and
\* opens or closes no exchange.
LEMMA OthersKeep ==
    ASSUME Matching, UNCHANGED <<calls, inflightLookups, activeFetches, waiters>>,
           DOMAIN exchanges' = DOMAIN exchanges
    PROVE  Matching'
<1>1. Shape'
  BY DEF Matching, Shape
<1>2. NothingForgotten'
  BY DEF Matching, NothingForgotten, Fetching
<1> QED
  BY <1>1, <1>2 DEF Matching

LEMMA VersionKeeps ==
    ASSUME Matching, Version
    PROVE  Matching'
<1> DEFINE c == Len(calls) + 1
           hit == {e \in Range(versionCache) : Fresh(e)}
           call == [kind |-> "version", dids |-> {Healthz}, began |-> now,
                    answers |-> [k \in {h \in {Healthz} : hit # {}} |->
                                   (CHOOSE e \in hit : TRUE).answer]]
<1>1. /\ calls' = Append(calls, call)
      /\ exchanges' = IF hit = {} THEN Opened({c}) ELSE exchanges
      /\ UNCHANGED <<inflightLookups, activeFetches, waiters>>
  BY DEF Version
<1>2. DOMAIN call = {"kind", "dids", "began", "answers"} /\ call.kind = "version"
  OBVIOUS
<1> HIDE DEF c, call, hit
<1>3. /\ calls' \in Seq(Range(calls')) /\ c \in Nat
      /\ DOMAIN calls' = DOMAIN calls \cup {c}
      /\ \A i \in DOMAIN calls : calls'[i] = calls[i]
      /\ calls'[c] = call
  <2>1. calls \in Seq(Range(calls))
    BY DEF Matching, Shape
  <2> QED
    BY <1>1, <2>1, OneMore DEF c
<1>4. DOMAIN exchanges' \subseteq DOMAIN exchanges \cup {c} /\ DOMAIN exchanges \subseteq DOMAIN exchanges'
  BY <1>1 DEF Opened
<1>5. Fetching' = Fetching
  BY <1>3, <1>4 DEF Fetching
<1>6. NothingForgotten'
  BY <1>1, <1>2, <1>3, <1>5 DEF Matching, NothingForgotten
<1>7. Shape'
  <2>1. \A d \in DOMAIN inflightLookups' : Range(inflightLookups'[d]) \subseteq DOMAIN calls'
    BY <1>1, <1>3 DEF Matching, Shape
  <2>2. \A i \in DOMAIN calls' :
           /\ DOMAIN calls'[i] = {"kind", "dids", "began", "answers"}
           /\ calls'[i].kind # "version" => calls'[i].dids \subseteq Dids
    BY <1>2, <1>3 DEF Matching, Shape
  <2>3. \A k \in DOMAIN exchanges' \ Dids : k \in DOMAIN calls' /\ calls'[k].kind = "version"
    BY <1>2, <1>3, <1>4 DEF Matching, Shape
  <2> QED
    BY <1>1, <1>3, <2>1, <2>2, <2>3 DEF Matching, Shape
<1> QED
  BY <1>6, <1>7 DEF Matching

\* What an answer does to the calls it is given to.
LEMMA AnsweredCall ==
    ASSUME NEW call, DOMAIN call = {"kind", "dids", "began", "answers"}, NEW d, NEW answer
    PROVE  /\ DOMAIN Answered(call, d, answer) = {"kind", "dids", "began", "answers"}
           /\ Answered(call, d, answer).kind = call.kind /\ Answered(call, d, answer).dids = call.dids
           /\ DOMAIN Answered(call, d, answer).answers = DOMAIN call.answers \cup {d}
           /\ Answered(call, d, answer).began = call.began
           /\ Answered(call, d, answer).answers[d] = answer
           /\ \A k \in DOMAIN call.answers \ {d} : Answered(call, d, answer).answers[k] = call.answers[k]
BY DEF Answered

\* The end of a version() call's exchange touches no lookup.
LEMMA VersionEndsKeeps ==
    ASSUME Matching, NEW c \in DOMAIN exchanges \ Dids, NEW answer, VersionEnds(c, answer)
    PROVE  Matching'
<1>1. /\ exchanges' = [k \in DOMAIN exchanges \ {c} |-> exchanges[k]]
      /\ calls' = [calls EXCEPT ![c] = Answered(@, Healthz, answer)]
      /\ UNCHANGED <<inflightLookups, activeFetches, waiters>>
  BY DEF VersionEnds
<1>2. Fetching' = Fetching
  BY <1>1 DEF Fetching
<1>3. c \in DOMAIN calls /\ calls[c].kind = "version"
  BY DEF Matching, Shape
<1>4. DOMAIN calls' = DOMAIN calls /\ calls' \in Seq(Range(calls'))
  <2>1. calls \in Seq(Range(calls))
    BY DEF Matching, Shape
  <2>2. calls' = [i \in DOMAIN calls |-> calls'[i]]
    BY <1>1
  <2> QED
    BY <2>1, <2>2, SameLength
<1>5. calls'[c] = Answered(calls[c], Healthz, answer) /\ \A i \in DOMAIN calls \ {c} : calls'[i] = calls[i]
  BY <1>1, <1>3
<1>6. DOMAIN calls[c] = {"kind", "dids", "began", "answers"}
  BY <1>3 DEF Matching, Shape
<1>7. DOMAIN calls'[c] = {"kind", "dids", "began", "answers"} /\ calls'[c].kind = "version"
  BY <1>3, <1>5, <1>6, AnsweredCall
<1>8. NothingForgotten'
  <2>1. ASSUME NEW i \in DOMAIN calls', calls'[i].kind # "version"
        PROVE  calls'[i].dids \ DOMAIN calls'[i].answers
                 = {d \in DOMAIN inflightLookups' : i \in Range(inflightLookups'[d])}
    <3>1. i \in DOMAIN calls /\ calls'[i] = calls[i]
      BY <1>4, <1>5, <1>7, <2>1
    <3> QED
      BY <1>1, <2>1, <3>1 DEF Matching, NothingForgotten
  <2> QED
    BY <1>1, <1>2, <2>1 DEF Matching, NothingForgotten
<1>9. Shape'
  <2>1. \A i \in DOMAIN calls' :
           /\ DOMAIN calls'[i] = {"kind", "dids", "began", "answers"}
           /\ calls'[i].kind # "version" => calls'[i].dids \subseteq Dids
    BY <1>4, <1>5, <1>7 DEF Matching, Shape
  <2>2. \A k \in DOMAIN exchanges' \ Dids : k \in DOMAIN calls' /\ calls'[k].kind = "version"
    BY <1>1, <1>4, <1>5, <1>7 DEF Matching, Shape
  <2> QED
    BY <1>1, <1>4, <2>1, <2>2 DEF Matching, Shape
<1> QED
  BY <1>8, <1>9 DEF Matching

\* The slot of a lookup that ends goes to the oldest waiter, and its callers
\* are answered.
LEMMA LookupEndsKeeps ==
    ASSUME Matching, NEW did \in Fetching, NEW answer, LookupEnds(did, answer)
    PROVE  Matching'
<1> DEFINE next == IF waiters = <<>> THEN {} ELSE {Head(waiters)}
           sharers == inflightLookups[did]
<1>1. /\ activeFetches' = activeFetches - 1 + Cardinality(next)
      /\ waiters' = IF waiters = <<>> THEN waiters ELSE Tail(waiters)
      /\ exchanges' = [k \in (DOMAIN exchanges \ {did}) \cup next |->
                         IF k \in next THEN NewExchange ELSE exchanges[k]]
      /\ inflightLookups' = [d \in DOMAIN inflightLookups \ {did} |-> inflightLookups[d]]
      /\ calls' = [c \in DOMAIN calls |-> IF c \in Range(sharers)
                                            THEN Answered(calls[c], did, answer) ELSE calls[c]]
  BY DEF LookupEnds, ReleaseSlot
<1>2. /\ next \subseteq Range(waiters) /\ IsFiniteSet(next)
      /\ Cardinality(next) \in {0, 1} /\ (waiters # <<>> => Cardinality(next) = 1)
      /\ waiters' \in Seq(Dids) /\ IsInjective(waiters') /\ Range(waiters') = Range(waiters) \ next
      /\ (waiters' # <<>> => waiters # <<>>)
  <2>1. waiters \in Seq(Dids) /\ IsInjective(waiters)
    BY DEF Matching, Shape, NothingForgotten
  <2>2. CASE waiters = <<>>
    BY <1>1, <2>1, <2>2, FS_EmptySet
  <2>3. CASE waiters # <<>>
    <3>1. IsFiniteSet({Head(waiters)}) /\ Cardinality({Head(waiters)}) = 1
      BY FS_Singleton
    <3> QED
      BY <1>1, <2>1, <2>3, <3>1, TailOfQueue
  <2> QED
    BY <2>2, <2>3
<1> HIDE DEF next
<1>3. /\ did \in Dids /\ did \in DOMAIN exchanges /\ did \in DOMAIN inflightLookups
      /\ did \notin Range(waiters) /\ Range(waiters) \subseteq Dids
      /\ next \cap Fetching = {}
  <2>1. waiters \in Seq(Dids)
    BY DEF Matching, Shape
  <2>2. Range(waiters) \subseteq Dids
    BY <2>1, LenProperties DEF Range
  <2> QED
    BY <1>2, <2>2 DEF Matching, NothingForgotten, Fetching
<1>4. Fetching' = (Fetching \ {did}) \cup next
  BY <1>1, <1>2, <1>3 DEF Fetching
<1>5. /\ activeFetches \in Nat /\ activeFetches <= Slots
      /\ activeFetches' \in Nat /\ activeFetches' <= Slots
      /\ activeFetches' = Cardinality(Fetching')
  <2>1. IsFiniteSet(Fetching) /\ Cardinality(Fetching) = activeFetches
    BY DidsAreFinite, FS_Subset DEF Fetching, Matching, NothingForgotten
  <2>2. IsFiniteSet(Fetching \ {did}) /\ Cardinality(Fetching \ {did}) = activeFetches - 1
    BY <2>1, FS_RemoveElement
  <2>3. (Fetching \ {did}) \cap next = {} /\ Cardinality({}) = 0
    BY <1>3, FS_EmptySet
  <2>4. Cardinality((Fetching \ {did}) \cup next)
          = Cardinality(Fetching \ {did}) + Cardinality(next) - Cardinality((Fetching \ {did}) \cap next)
    BY <1>2, <2>2, FS_Union
  <2>5. activeFetches \in Nat /\ activeFetches <= Slots /\ activeFetches - 1 \in Nat
    BY <2>2, FS_CardinalityType DEF Matching, Shape
  <2>6. Cardinality(Fetching') = activeFetches - 1 + Cardinality(next) - 0
    BY <1>4, <2>2, <2>3, <2>4
  <2> QED
    BY <1>1, <1>2, <2>5, <2>6
<1>6. waiters' # <<>> => activeFetches' = Slots
  BY <1>1, <1>2, <1>5 DEF Matching, NothingForgotten
<1>7. Range(waiters') \cap Fetching' = {}
  BY <1>2, <1>4 DEF Matching, NothingForgotten
<1>8. DOMAIN inflightLookups' = DOMAIN inflightLookups \ {did}
  BY <1>1
<1>9. DOMAIN inflightLookups' = Range(waiters') \cup Fetching'
  BY <1>2, <1>3, <1>4, <1>8 DEF Matching, NothingForgotten
<1>10. /\ DOMAIN calls' = DOMAIN calls /\ calls' \in Seq(Range(calls'))
       /\ \A i \in DOMAIN calls : calls'[i] = IF i \in Range(sharers)
                                               THEN Answered(calls[i], did, answer) ELSE calls[i]
  <2>1. calls \in Seq(Range(calls))
    BY DEF Matching, Shape
  <2>2. calls' = [i \in DOMAIN calls |-> calls'[i]]
    BY <1>1
  <2> QED
    BY <1>1, <2>1, <2>2, SameLength
<1>11. ASSUME NEW i \in DOMAIN calls
       PROVE  /\ DOMAIN calls'[i] = {"kind", "dids", "began", "answers"}
              /\ calls'[i].kind = calls[i].kind /\ calls'[i].dids = calls[i].dids
              /\ DOMAIN calls'[i].answers = DOMAIN calls[i].answers \cup {d \in {did} : i \in Range(sharers)}
  <2>1. DOMAIN calls[i] = {"kind", "dids", "began", "answers"}
    BY DEF Matching, Shape
  <2>2. CASE i \in Range(sharers)
    <3>1. calls'[i] = Answered(calls[i], did, answer)
      BY <1>10, <2>2
    <3> QED
      BY <2>1, <2>2, <3>1, AnsweredCall
  <2>3. CASE i \notin Range(sharers)
    BY <1>10, <2>1, <2>3
  <2> QED
    BY <2>2, <2>3
<1>12. ASSUME NEW i \in DOMAIN calls', calls'[i].kind # "version"
       PROVE  calls'[i].dids \ DOMAIN calls'[i].answers
                = {d \in DOMAIN inflightLookups' : i \in Range(inflightLookups'[d])}
  <2>1. calls[i].dids \ DOMAIN calls[i].answers
          = {d \in DOMAIN inflightLookups : i \in Range(inflightLookups[d])}
    BY <1>10, <1>11, <1>12 DEF Matching, NothingForgotten
  <2>2. calls'[i].dids \ DOMAIN calls'[i].answers
          = {d \in DOMAIN inflightLookups \ {did} : i \in Range(inflightLookups[d])}
    BY <1>10, <1>11, <2>1
  <2>3. \A d \in DOMAIN inflightLookups' : inflightLookups'[d] = inflightLookups[d]
    BY <1>1
  <2> QED
    BY <1>8, <2>2, <2>3
<1>13. NothingForgotten'
  BY <1>2, <1>5, <1>6, <1>7, <1>9, <1>12 DEF NothingForgotten
<1>14. Shape'
  <2>1. \A d \in DOMAIN inflightLookups' :
           inflightLookups'[d] \in Seq(Nat) /\ Range(inflightLookups'[d]) \subseteq DOMAIN calls'
    BY <1>1, <1>10 DEF Matching, Shape
  <2>2. \A i \in DOMAIN calls' :
           /\ DOMAIN calls'[i] = {"kind", "dids", "began", "answers"}
           /\ calls'[i].kind # "version" => calls'[i].dids \subseteq Dids
    BY <1>10, <1>11 DEF Matching, Shape
  <2>3. \A k \in DOMAIN exchanges' \ Dids : k \in DOMAIN calls' /\ calls'[k].kind = "version"
    BY <1>1, <1>2, <1>3, <1>10, <1>11 DEF Matching, Shape
  <2> QED
    BY <1>2, <1>5, <1>10, <2>1, <2>2, <2>3 DEF Shape
<1> QED
  BY <1>13, <1>14 DEF Matching

-----------------------------------------------------------------------------
(* Answers, and from when they are.                                        *)

LEMMA Durations == CacheTtl \in Nat \ {0} /\ Timeout \in Nat \ {0}
BY DEF ServiceAssumption

LEMMA SoundEarlier ==
    ASSUME NEW on \in Nat, NEW until \in Seq(Nat), Len(until) = on - 1, NEW key, NEW answer,
           NEW t \in Int, NEW u \in Int, u <= t, Sound(on, until, key, answer, t)
    PROVE  Sound(on, until, key, answer, u)
<1>1. CASE answer = Unavailable
  BY <1>1 DEF Sound
<1>2. CASE answer # Unavailable
  <2>1. /\ answer.generation \in 1..on
        /\ answer.generation < on => until[answer.generation] >= t
        /\ key \in Dids => answer.value = Deployments[answer.generation][key]
    BY <1>2 DEF Sound
  <2>2. ASSUME answer.generation < on PROVE until[answer.generation] >= u
    <3>1. answer.generation \in 1..Len(until)
      BY <2>1, <2>2
    <3>2. until[answer.generation] \in Nat
      BY <3>1, ElementOfSeq
    <3> QED
      BY <2>1, <2>2, <3>2
  <2> QED
    BY <2>1, <2>2 DEF Sound
<1> QED
  BY <1>1, <1>2

\* A new deployment leaves the answers of the earlier ones sound.
LEMMA SoundAfter ==
    ASSUME NEW on \in Nat \ {0}, NEW until \in Seq(Nat), Len(until) = on - 1, NEW n \in Nat,
           NEW key, NEW answer, NEW t \in Int, t <= n, Sound(on, until, key, answer, t)
    PROVE  Sound(on + 1, Append(until, n), key, answer, t)
<1>1. CASE answer = Unavailable
  BY <1>1 DEF Sound
<1>2. CASE answer # Unavailable
  <2>1. /\ answer.generation \in 1..on
        /\ answer.generation < on => until[answer.generation] >= t
        /\ key \in Dids => answer.value = Deployments[answer.generation][key]
    BY <1>2 DEF Sound
  <2>2. /\ Append(until, n)[Len(until) + 1] = n
        /\ \A i \in 1..Len(until) : Append(until, n)[i] = until[i]
    BY AppendProperties
  <2>3. Append(until, n)[answer.generation] >= t
    <3>1. CASE answer.generation < on
      <4>1. answer.generation \in 1..Len(until)
        BY <2>1, <3>1
      <4> QED
        BY <2>1, <2>2, <3>1, <4>1
    <3>2. CASE answer.generation = on
      <4>1. Len(until) + 1 = answer.generation
        BY <3>2
      <4> QED
        BY <2>2, <4>1
    <3> QED
      BY <2>1, <3>1, <3>2
  <2>4. answer.generation \in 1..on + 1
    BY <2>1
  <2> QED
    BY <2>1, <2>3, <2>4 DEF Sound
<1> QED
  BY <1>1, <1>2

LEMMA Generations ==
    ASSUME NEW on \in Nat, NEW until, NEW key, NEW answer, NEW t, Sound(on, until, key, answer, t)
    PROVE  /\ answer.generation \in 0..on
           /\ answer = Unavailable => answer.generation = 0
BY DEF Sound, Unavailable

LEMMA OfOneDid ==
    ASSUME NEW memo, memo \in Seq(Range(memo)), InAgeOrder(memo),
           NEW e \in Range(memo), NEW f \in Range(memo), e.did = f.did
    PROVE  e = f
<1>1. Len(memo) \in Nat /\ DOMAIN memo = 1..Len(memo)
  BY LenProperties
<1>2. PICK i \in 1..Len(memo) : memo[i] = e
  BY <1>1 DEF Range
<1>3. PICK j \in 1..Len(memo) : memo[j] = f
  BY <1>1 DEF Range
<1>4. ~(i < j) /\ ~(j < i)
  BY <1>2, <1>3 DEF InAgeOrder
<1>5. i = j
  BY <1>1, <1>4
<1> QED
  BY <1>2, <1>3, <1>5

\* remember() keeps the memo in order, and adds nothing but the answer.
LEMMA Remembered ==
    ASSUME SoundMemo, Surroundings, NEW did \in Dids, NEW answer
    PROVE  LET entry == [did |-> did, at |-> now, answer |-> answer]
               memo == Remember(did, answer)
           IN  /\ memo \in Seq(Range(memo)) /\ Len(memo) <= MaxCached /\ InAgeOrder(memo)
               /\ \A e \in Range(memo) : e = entry \/ (e \in Range(lookupCache) /\ e.did # did)
<1> DEFINE A == Range(lookupCache)
           entry == [did |-> did, at |-> now, answer |-> answer]
           S == {e \in A : e.did # did}
           others == Kept(lookupCache, S)
           rest == IF Len(others) >= MaxCached THEN Tail(others) ELSE others
           memo == Append(rest, entry)
           n == Len(rest)
<1>1. /\ lookupCache \in Seq(A) /\ Len(lookupCache) <= MaxCached /\ InAgeOrder(lookupCache)
      /\ Len(lookupCache) \in Nat
      /\ \A e \in A : e.at \in Nat /\ e.at <= now
  BY LenProperties DEF SoundMemo
<1>2. memo = Remember(did, answer)
  BY DEF Remember
<1>3. /\ others \in Seq(A) /\ Len(others) \in Nat /\ Len(others) <= MaxCached
      /\ \A i \in 1..Len(others) : others[i] \in S
      /\ InAgeOrder(others)
  <2>1. /\ others \in Seq(A) /\ ToSet(others) = ToSet(lookupCache) \cap S
        /\ \A k, l \in 1..Len(others) :
              k < l => \E i, j \in 1..Len(lookupCache) :
                          i < j /\ others[k] = lookupCache[i] /\ others[l] = lookupCache[j]
    <3> HIDE DEF A, S
    <3> QED
      BY <1>1, KeptInOrder
  <2>2. Len(others) \in Nat /\ DOMAIN others = 1..Len(others)
    BY <2>1, LenProperties
  <2>3. Len(others) <= Len(lookupCache)
    <3> HIDE DEF A, S
    <3> QED
      BY <1>1, KeptLength
  <2> HIDE DEF others, A
  <2>4. \A i \in 1..Len(others) : others[i] \in S
    <3> HIDE DEF S
    <3> QED
      BY <2>1, <2>2 DEF ToSet
  <2>5. InAgeOrder(others)
    <3> SUFFICES ASSUME NEW k \in 1..Len(others), NEW l \in 1..Len(others), k < l
                 PROVE  others[k].at <= others[l].at /\ others[k].did # others[l].did
      BY DEF InAgeOrder
    <3>1. PICK i \in 1..Len(lookupCache), j \in 1..Len(lookupCache) :
             i < j /\ others[k] = lookupCache[i] /\ others[l] = lookupCache[j]
      BY <2>1
    <3> QED
      BY <1>1, <3>1 DEF InAgeOrder
  <2>6. Len(others) <= MaxCached
    BY <1>1, <2>2, <2>3
  <2> QED
    BY <2>1, <2>2, <2>4, <2>5, <2>6
<1> HIDE DEF others
<1>4. /\ rest \in Seq(A) /\ n \in Nat /\ n + 1 <= MaxCached
      /\ \A i \in 1..n : rest[i] \in S
      /\ InAgeOrder(rest)
  <2>1. CASE Len(others) >= MaxCached
    <3>1. others # <<>>
      BY <1>3, <2>1
    <3>2. /\ Tail(others) \in Seq(A) /\ Len(Tail(others)) = Len(others) - 1
          /\ \A i \in 1..Len(Tail(others)) : Tail(others)[i] = others[i + 1]
      BY <1>3, <3>1, HeadTailProperties
    <3>3. rest = Tail(others) /\ n = Len(others) - 1 /\ Len(others) >= 1
      BY <1>3, <2>1, <3>2
    <3> HIDE DEF rest, n, S
    <3>4. \A i \in 1..n : i + 1 \in 1..Len(others) /\ rest[i] = others[i + 1]
      <4> SUFFICES ASSUME NEW i \in 1..n PROVE i + 1 \in 1..Len(others) /\ rest[i] = others[i + 1]
        OBVIOUS
      <4>1. i \in 1..Len(Tail(others)) /\ i + 1 \in 1..Len(others)
        BY <1>3, <3>2, <3>3
      <4> QED
        BY <3>2, <3>3, <4>1
    <3>5. \A i \in 1..n : rest[i] \in S
      BY <1>3, <3>4
    <3>6. InAgeOrder(rest)
      <4> SUFFICES ASSUME NEW i \in 1..n, NEW j \in 1..n, i < j
                   PROVE  rest[i].at <= rest[j].at /\ rest[i].did # rest[j].did
        BY DEF InAgeOrder, n
      <4>1. i + 1 < j + 1
        OBVIOUS
      <4>2. InAgeOrder(others)
        BY <1>3
      <4>3. /\ i + 1 \in 1..Len(others) /\ rest[i] = others[i + 1]
            /\ j + 1 \in 1..Len(others) /\ rest[j] = others[j + 1]
        BY <3>4
      <4> QED
        BY ONLY <4>1, <4>2, <4>3 DEF InAgeOrder
    <3> QED
      BY <1>3, <3>2, <3>3, <3>5, <3>6
  <2>2. CASE ~(Len(others) >= MaxCached)
    <3>1. rest = others
      BY <2>2
    <3>2. Len(others) + 1 <= MaxCached
      BY <1>3, <2>2
    <3> QED
      BY <1>3, <3>1, <3>2
  <2> QED
    BY <2>1, <2>2
<1> HIDE DEF rest
<1>5. /\ memo \in Seq(A \cup {entry}) /\ Len(memo) = n + 1
      /\ \A i \in 1..n : memo[i] = rest[i]
      /\ memo[n + 1] = entry
  <2>1. rest \in Seq(A \cup {entry})
    BY <1>4, SeqMonotonic
  <2> HIDE DEF A, entry
  <2> QED
    BY <2>1, AppendProperties
<1> HIDE DEF memo, n
<1>6. DOMAIN memo = 1..n + 1 /\ memo \in Seq(Range(memo))
  <2>1. DOMAIN memo = 1..n + 1
    BY <1>5, LenProperties
  <2>2. memo \in Seq(Range(memo))
    BY <1>5, SeqOfRange
  <2> QED
    BY <2>1, <2>2
<1>7. \A i \in 1..n + 1 : i \in 1..n \/ i = n + 1
  BY <1>4
<1>8. \A e \in Range(memo) : e = entry \/ (e \in A /\ e.did # did)
  <2>1. \A i \in 1..n + 1 : memo[i] = entry \/ memo[i] \in S
    BY <1>4, <1>5, <1>7
  <2> QED
    BY <1>6, <2>1 DEF Range
<1>9. InAgeOrder(memo)
  <2> SUFFICES ASSUME NEW i \in 1..n + 1, NEW j \in 1..n + 1, i < j
               PROVE  memo[i].at <= memo[j].at /\ memo[i].did # memo[j].did
    BY <1>5 DEF InAgeOrder
  <2>1. i \in 1..n /\ memo[i] = rest[i] /\ memo[i] \in S
    BY <1>4, <1>5
  <2>2. CASE j = n + 1
    BY <1>1, <1>5, <2>1, <2>2
  <2>3. CASE j \in 1..n
    BY <1>4, <1>5, <2>1, <2>3 DEF InAgeOrder, n
  <2> QED
    BY <1>7, <2>2, <2>3
<1> QED
  BY <1>2, <1>4, <1>5, <1>6, <1>8, <1>9 DEF A

\* The last of the calls that ended sets the snapshot, if it is listed.
LEMMA SnapshotOf ==
    ASSUME NEW A, NEW s \in Seq(A)
    PROVE  \/ /\ \A i \in 1..Len(s) : ~Listed(s[i])
              /\ SnapshotAfter(s) = lastSnapshot
           \/ \E i \in 1..Len(s) :
                 /\ Listed(s[i]) /\ SnapshotAfter(s) = ListUnder(burstPolicy, s[i])
                 /\ \A j \in 1..Len(s) : Listed(s[j]) => j <= i
<1> DEFINE S == {c \in Range(s) : c.kind = "candidates" /\ Succeeds(c)}
           lists == Kept(s, S)
<1>1. SnapshotAfter(s) = IF lists = <<>> THEN lastSnapshot ELSE Emitted(Last(lists))
  BY DEF SnapshotAfter
<1>2. \A i \in 1..Len(s) : s[i] \in S <=> Listed(s[i])
  <2>1. DOMAIN s = 1..Len(s)
    BY LenProperties
  <2> QED
    BY <2>1 DEF Listed, Range
<1>3. \/ lists = <<>> /\ \A i \in 1..Len(s) : s[i] \notin S
      \/ /\ lists # <<>>
         /\ \E i \in 1..Len(s) :
               /\ s[i] \in S /\ Last(lists) = s[i]
               /\ \A j \in 1..Len(s) : s[j] \in S => j <= i
  <2> HIDE DEF S
  <2> QED
    BY KeptLast
<1>4. \A call : Emitted(call) = ListUnder(burstPolicy, call)
  BY DEF Emitted, ListUnder
<1> HIDE DEF lists, S
<1> QED
  BY <1>1, <1>2, <1>3, <1>4

LEMMA GivenGenerations ==
    ASSUME Surroundings, SoundCalls, NEW c \in DOMAIN calls, NEW d \in DOMAIN calls[c].answers
    PROVE  Given(d, c) \in 0..live
<1>1. Sound(live, replaced, d, calls[c].answers[d], calls[c].began - CacheTtl - Timeout + 1)
  BY DEF SoundCalls, SoundCall
<1>2. live \in Nat
  BY DEF Surroundings
<1> QED
  BY <1>1, <1>2, Generations DEF Given

-----------------------------------------------------------------------------
(* The steps.                                                              *)

LEMMA ServeStep ==
    ASSUME IInv, NEW key \in DOMAIN exchanges, Serve(key)
    PROVE  IInv'
<1>1. PICK reply \in Replies(key) : exchanges' = [exchanges EXCEPT ![key].reply = reply]
  BY DEF Serve
<1>2. UNCHANGED <<now, plan, live, replaced, burstPolicy, lookupCache, versionCache,
                  inflightLookups, activeFetches, waiters, calls, lastSnapshot>>
  BY DEF Serve
<1>3. Matching'
  BY <1>1, <1>2, OthersKeep DEF IInv
<1>4. Surroundings /\ SoundExchanges /\ SoundCalls /\ NewestComing
  BY DEF IInv
<1>5. live \in 1..Len(Deployments) /\ live \in Nat
  BY <1>4 DEF Surroundings
<1>6. /\ \A t : Sound(live, replaced, key, reply, t)
      /\ reply = Unavailable \/ reply.generation = live
  <2>1. reply = Unavailable
          \/ /\ reply.generation = live
             /\ key \in Dids => reply.value = Deployments[live][key]
    BY <1>1 DEF Replies, LookupDid, HealthzBody
  <2> QED
    BY <1>5, <2>1 DEF Sound
<1>7. /\ DOMAIN exchanges' = DOMAIN exchanges
      /\ \A k \in DOMAIN exchanges \ {key} : exchanges'[k] = exchanges[k]
      /\ DOMAIN exchanges'[key] = DOMAIN exchanges[key]
      /\ exchanges'[key].reply = reply /\ exchanges'[key].deadline = exchanges[key].deadline
  <2>1. DOMAIN exchanges[key] = {"deadline", "reply"}
    BY <1>4 DEF SoundExchanges
  <2> QED
    BY <1>1, <2>1
<1>8. SoundExchanges'
  <2> SUFFICES ASSUME NEW k \in DOMAIN exchanges
               PROVE  /\ DOMAIN exchanges'[k] = {"deadline", "reply"}
                      /\ exchanges'[k].deadline \in Nat
                      /\ exchanges'[k].deadline - Timeout <= now /\ now <= exchanges'[k].deadline
                      /\ exchanges'[k].reply # NoReply
                            => Sound(live, replaced, k, exchanges'[k].reply,
                                     exchanges'[k].deadline - Timeout)
    BY <1>2, <1>7 DEF SoundExchanges
  <2>1. /\ DOMAIN exchanges[k] = {"deadline", "reply"}
        /\ exchanges[k].deadline \in Nat
        /\ exchanges[k].deadline - Timeout <= now /\ now <= exchanges[k].deadline
        /\ exchanges[k].reply # NoReply
              => Sound(live, replaced, k, exchanges[k].reply, exchanges[k].deadline - Timeout)
    BY <1>4 DEF SoundExchanges
  <2>2. CASE k = key
    BY <1>6, <1>7, <2>1, <2>2
  <2>3. CASE k # key
    BY <1>7, <2>1, <2>3
  <2> QED
    BY <2>2, <2>3
<1>9. NewestComing'
  <2> SUFFICES ASSUME NEW d \in Dids, NEW c \in DOMAIN calls, d \in DOMAIN calls[c].answers,
                      d \in DOMAIN exchanges, exchanges'[d].reply \notin {NoReply, Unavailable}
               PROVE  Given(d, c) <= exchanges'[d].reply.generation
    BY <1>2, <1>7 DEF NewestComing, Given
  <2>1. CASE d = key
    <3>1. exchanges'[d].reply.generation = live
      BY <1>6, <1>7, <2>1
    <3>2. Given(d, c) \in 0..live
      BY <1>4, GivenGenerations
    <3> QED
      BY <1>5, <3>1, <3>2
  <2>2. CASE d # key
    BY <1>4, <1>7, <2>2 DEF NewestComing
  <2> QED
    BY <2>1, <2>2
<1>10. Surroundings' /\ SoundMemo' /\ SoundVersionCache' /\ SoundCalls'
  BY <1>2 DEF IInv, Surroundings, SoundMemo, SoundVersionCache, SoundCalls
<1>11. Sharing' /\ EarlierFirst' /\ NewestKept' /\ NewestGiven'
  BY <1>2 DEF IInv, Sharing, Hits, Fresh, EarlierFirst, NewestKept, NewestGiven, Given
<1>12. SnapshotIsLast'
  BY <1>2 DEF IInv, SnapshotIsLast
<1> QED
  BY <1>3, <1>8, <1>9, <1>10, <1>11, <1>12 DEF IInv

LEMMA TickStep ==
    ASSUME IInv, Tick
    PROVE  IInv'
<1>1. /\ now' = now + 1 /\ \A k \in DOMAIN exchanges : now < exchanges[k].deadline
      /\ UNCHANGED <<plan, live, replaced, burstPolicy, lookupCache, versionCache,
                     inflightLookups, activeFetches, waiters, exchanges, calls, lastSnapshot>>
  BY DEF Tick
<1>2. Matching'
  BY <1>1, OthersKeep DEF IInv
<1>3. now \in Nat /\ now <= now'
  BY <1>1 DEF IInv, Surroundings
<1>4. Surroundings'
  <2>1. \A g \in 1..Len(replaced) : replaced[g] <= now'
    <3> SUFFICES ASSUME NEW g \in 1..Len(replaced) PROVE replaced[g] <= now'
      OBVIOUS
    <3>1. replaced[g] \in Nat /\ replaced[g] <= now
      BY ElementOfSeq DEF IInv, Surroundings
    <3> QED
      BY <1>1, <1>3, <3>1
  <2> QED
    BY <1>1, <1>3, <2>1 DEF IInv, Surroundings
<1>5. SoundExchanges'
  <2> SUFFICES ASSUME NEW k \in DOMAIN exchanges
               PROVE  exchanges[k].deadline - Timeout <= now' /\ now' <= exchanges[k].deadline
    BY <1>1 DEF IInv, SoundExchanges
  <2>1. exchanges[k].deadline \in Nat /\ exchanges[k].deadline - Timeout <= now
    BY DEF IInv, SoundExchanges
  <2> QED
    BY <1>1, <1>3, <2>1
<1>6. SoundMemo'
  <2>1. \A e \in Range(lookupCache) : e.at \in Nat /\ e.at <= now'
    BY <1>1, <1>3 DEF IInv, SoundMemo
  <2> QED
    BY <1>1, <2>1 DEF IInv, SoundMemo
<1>7. SoundVersionCache'
  <2>1. \A e \in Range(versionCache) : e.at \in Nat /\ e.at <= now'
    BY <1>1, <1>3 DEF IInv, SoundVersionCache
  <2> QED
    BY <1>1, <2>1 DEF IInv, SoundVersionCache
<1>8. SoundCalls'
  <2>1. \A c \in DOMAIN calls : calls[c].began \in Nat /\ calls[c].began <= now'
    BY <1>1, <1>3 DEF IInv, SoundCalls, SoundCall
  <2> QED
    BY <1>1, <2>1 DEF IInv, SoundCalls, SoundCall
<1>9. Sharing'
  <2>1. ASSUME NEW d \in DOMAIN inflightLookups PROVE Hits(d)' = {}
    <3>1. \A e \in Range(lookupCache) : e.did = d => ~(now - e.at < CacheTtl)
      BY DEF IInv, Sharing, Hits, Fresh
    <3>2. \A e \in Range(lookupCache) : e.did = d => ~(now' - e.at < CacheTtl)
      BY <1>1, <1>3, <3>1 DEF IInv, SoundMemo
    <3> QED
      BY <1>1, <3>2 DEF Hits, Fresh
  <2> QED
    BY <1>1, <2>1 DEF IInv, Sharing
<1>10. EarlierFirst' /\ NewestKept' /\ NewestComing' /\ NewestGiven'
  BY <1>1 DEF IInv, EarlierFirst, NewestKept, NewestComing, NewestGiven, Given
<1>11. SnapshotIsLast'
  BY <1>1 DEF IInv, SnapshotIsLast
<1> QED
  BY <1>2, <1>4, <1>5, <1>6, <1>7, <1>8, <1>9, <1>10, <1>11 DEF IInv

LEMMA RedeployStep ==
    ASSUME IInv, Redeploy
    PROVE  IInv'
<1>1. /\ live < Len(Deployments) /\ live' = live + 1 /\ replaced' = Append(replaced, now)
      /\ UNCHANGED <<now, plan, burstPolicy, lookupCache, versionCache, inflightLookups,
                     activeFetches, waiters, exchanges, calls, lastSnapshot>>
  BY DEF Redeploy
<1>2. Matching'
  BY <1>1, OthersKeep DEF IInv
<1>3. /\ now \in Nat /\ live \in 1..Len(Deployments) /\ Len(Deployments) \in Nat
      /\ replaced \in Seq(Nat) /\ Len(replaced) = live - 1
      /\ \A g \in 1..Len(replaced) : replaced[g] <= now
  BY LenProperties DEF IInv, Surroundings
<1>4. /\ replaced' \in Seq(Nat) /\ Len(replaced') = Len(replaced) + 1
      /\ replaced'[Len(replaced) + 1] = now
      /\ \A g \in 1..Len(replaced) : replaced'[g] = replaced[g]
  BY <1>1, <1>3, AppendProperties
<1>5. Surroundings'
  <2>1. live' \in 1..Len(Deployments) /\ Len(replaced') = live' - 1
    BY <1>1, <1>3, <1>4
  <2>2. \A g \in 1..Len(replaced') : g \in 1..Len(replaced) \/ g = Len(replaced) + 1
    BY <1>3, <1>4
  <2>3. ASSUME NEW g \in 1..Len(replaced') PROVE replaced'[g] <= now
    <3>1. CASE g \in 1..Len(replaced)
      BY <1>3, <1>4, <3>1
    <3>2. CASE g = Len(replaced) + 1
      BY <1>3, <1>4, <3>2
    <3> QED
      BY <2>2, <3>1, <3>2
  <2> QED
    BY <1>1, <1>4, <2>1, <2>3 DEF IInv, Surroundings
<1>6. \A key, answer, t : t \in Int /\ t <= now /\ Sound(live, replaced, key, answer, t)
                           => Sound(live', replaced', key, answer, t)
  <2>1. live \in Nat \ {0}
    BY <1>3
  <2> QED
    BY <1>1, <1>3, <2>1, SoundAfter
<1>7. SoundExchanges'
  <2> SUFFICES ASSUME NEW k \in DOMAIN exchanges, exchanges[k].reply # NoReply
               PROVE  Sound(live', replaced', k, exchanges[k].reply, exchanges[k].deadline - Timeout)
    BY <1>1 DEF IInv, SoundExchanges
  <2>1. /\ exchanges[k].deadline \in Nat /\ exchanges[k].deadline - Timeout <= now
        /\ Sound(live, replaced, k, exchanges[k].reply, exchanges[k].deadline - Timeout)
    BY DEF IInv, SoundExchanges
  <2> QED
    BY <1>6, <2>1
<1>8. SoundMemo'
  <2>1. ASSUME NEW e \in Range(lookupCache)
        PROVE  Sound(live', replaced', e.did, e.answer, e.at - Timeout)
    <3>1. e.at \in Nat /\ e.at <= now /\ Sound(live, replaced, e.did, e.answer, e.at - Timeout)
      BY DEF IInv, SoundMemo
    <3>2. e.at - Timeout \in Int /\ e.at - Timeout <= now
      BY <1>3, <3>1
    <3> QED
      BY <1>6, <3>1, <3>2
  <2> QED
    BY <1>1, <2>1 DEF IInv, SoundMemo
<1>9. SoundVersionCache'
  <2>1. ASSUME NEW e \in Range(versionCache)
        PROVE  Sound(live', replaced', Healthz, e.answer, e.at - Timeout)
    <3>1. e.at \in Nat /\ e.at <= now /\ Sound(live, replaced, Healthz, e.answer, e.at - Timeout)
      BY DEF IInv, SoundVersionCache
    <3>2. e.at - Timeout \in Int /\ e.at - Timeout <= now
      BY <1>3, <3>1
    <3> QED
      BY <1>6, <3>1, <3>2
  <2> QED
    BY <1>1, <2>1 DEF IInv, SoundVersionCache
<1>10. SoundCalls'
  <2>1. ASSUME NEW c \in DOMAIN calls, NEW k \in DOMAIN calls[c].answers
        PROVE  Sound(live', replaced', k, calls[c].answers[k], calls[c].began - CacheTtl - Timeout + 1)
    <3>1. /\ calls[c].began \in Nat /\ calls[c].began <= now
          /\ Sound(live, replaced, k, calls[c].answers[k], calls[c].began - CacheTtl - Timeout + 1)
      BY DEF IInv, SoundCalls, SoundCall
    <3>2. /\ calls[c].began - CacheTtl - Timeout + 1 \in Int
          /\ calls[c].began - CacheTtl - Timeout + 1 <= now
      BY <1>3, <3>1
    <3> QED
      BY <1>6, <3>1, <3>2
  <2> QED
    BY <1>1, <2>1 DEF IInv, SoundCalls, SoundCall
<1>11. Sharing' /\ EarlierFirst' /\ NewestKept' /\ NewestComing' /\ NewestGiven'
  BY <1>1 DEF IInv, Sharing, Hits, Fresh, EarlierFirst, NewestKept, NewestComing, NewestGiven, Given
<1>12. SnapshotIsLast'
  BY <1>1 DEF IInv, SnapshotIsLast
<1> QED
  BY <1>2, <1>5, <1>7, <1>8, <1>9, <1>10, <1>11, <1>12 DEF IInv

\* What candidates() and facts() leave, as the steps below use it.
LEMMA Begun ==
    ASSUME Matching, NEW kind, NEW dids \in SUBSET Dids, BeginLookups(kind, dids)
    PROVE  LET c == Len(calls) + 1
               cached == {d \in dids : Hits(d) # {}}
               joined == (dids \ cached) \cap DOMAIN inflightLookups
               wanted == dids \ (cached \cup joined)
               call == [kind |-> kind, dids |-> dids, began |-> now,
                        answers |-> [d \in cached |-> (CHOOSE e \in Hits(d) : TRUE).answer]]
           IN  /\ Len(calls) < Len(plan)
               /\ calls' = Append(calls, call)
               /\ \E opened \in SUBSET wanted : exchanges' = Opened(opened)
               /\ inflightLookups' = [d \in DOMAIN inflightLookups \cup wanted |->
                     IF d \in wanted THEN <<c>>
                     ELSE IF d \in joined THEN Append(inflightLookups[d], c)
                     ELSE inflightLookups[d]]
               /\ lastSnapshot' = SnapshotAfter(<<call>>)
               /\ UNCHANGED <<now, plan, live, replaced, burstPolicy, lookupCache, versionCache>>
<1> DEFINE c == Len(calls) + 1
           cached == {d \in dids : Hits(d) # {}}
           joined == (dids \ cached) \cap DOMAIN inflightLookups
           wanted == dids \ (cached \cup joined)
           call == [kind |-> kind, dids |-> dids, began |-> now,
                    answers |-> [d \in cached |-> (CHOOSE e \in Hits(d) : TRUE).answer]]
<1>1. PICK missing \in InOrder(wanted) :
         LET free == Min({Len(missing), FreeSlots}) IN
         /\ calls' = Append(calls, call)
         /\ inflightLookups' = [d \in DOMAIN inflightLookups \cup Range(missing) |->
               IF d \in Range(missing) THEN <<c>>
               ELSE IF d \in joined THEN Append(inflightLookups[d], c)
               ELSE inflightLookups[d]]
         /\ exchanges' = Opened(Range(SubSeq(missing, 1, free)))
         /\ lastSnapshot' = SnapshotAfter(<<call>>)
  BY DEF BeginLookups
<1>2. /\ missing \in Seq(wanted) /\ Len(missing) \in Nat /\ Range(missing) = wanted
      /\ IsInjective(missing)
  <2>1. /\ missing \in Seq(wanted) /\ Len(missing) \in Nat /\ Range(missing) = wanted
        /\ \A i \in 1..Len(missing), j \in 1..Len(missing) : missing[i] = missing[j] => i = j
    BY OrderEnumerates
  <2> QED
    BY <2>1, LenProperties DEF IsInjective
<1> DEFINE free == Min({Len(missing), FreeSlots})
<1>3. free \in Nat /\ free <= Len(missing)
  BY <1>2, SlotsAreFree, TheLess DEF Matching
<1>4. Range(SubSeq(missing, 1, free)) \subseteq wanted
  <2> HIDE DEF free, wanted
  <2> QED
    BY <1>2, <1>3, CutInTwo
<1>5. \E opened \in SUBSET wanted : exchanges' = Opened(opened)
  BY <1>1, <1>4
<1>6. Len(calls) < Len(plan)
  BY DEF BeginLookups, Called
<1>7. UNCHANGED <<now, plan, live, replaced, burstPolicy, lookupCache, versionCache>>
  BY DEF BeginLookups
<1> HIDE DEF c, cached, joined, wanted, call
<1>8. inflightLookups' = [d \in DOMAIN inflightLookups \cup wanted |->
         IF d \in wanted THEN <<c>>
         ELSE IF d \in joined THEN Append(inflightLookups[d], c)
         ELSE inflightLookups[d]]
  BY <1>1, <1>2
<1> QED
  BY <1>1, <1>5, <1>6, <1>7, <1>8 DEF c, cached, joined, wanted, call

LEMMA BeginStep ==
    ASSUME IInv, NEW kind, kind # "version", NEW dids \in SUBSET Dids, kind = "candidates" => dids = Dids,
           BeginLookups(kind, dids)
    PROVE  IInv'
<1> DEFINE c == Len(calls) + 1
           cached == {d \in dids : Hits(d) # {}}
           joined == (dids \ cached) \cap DOMAIN inflightLookups
           wanted == dids \ (cached \cup joined)
           kept(d) == CHOOSE e \in Hits(d) : TRUE
           call == [kind |-> kind, dids |-> dids, began |-> now,
                    answers |-> [d \in cached |-> kept(d).answer]]
<1>1. /\ Len(calls) < Len(plan)
      /\ calls' = Append(calls, call)
      /\ inflightLookups' = [d \in DOMAIN inflightLookups \cup wanted |->
            IF d \in wanted THEN <<c>>
            ELSE IF d \in joined THEN Append(inflightLookups[d], c)
            ELSE inflightLookups[d]]
      /\ lastSnapshot' = SnapshotAfter(<<call>>)
      /\ UNCHANGED <<now, plan, live, replaced, burstPolicy, lookupCache, versionCache>>
  BY Begun DEF IInv
<1>2. PICK opened \in SUBSET wanted : exchanges' = Opened(opened)
  BY Begun DEF IInv
<1>3. Matching'
  BY BeginKeeps DEF IInv
<1>4. /\ Surroundings /\ SoundExchanges /\ SoundMemo /\ SoundCalls /\ Sharing /\ EarlierFirst
      /\ NewestKept /\ NewestComing /\ NewestGiven /\ SnapshotIsLast
      /\ Shape /\ NothingForgotten
  BY DEF IInv, Matching
<1>5. /\ c \in Nat /\ c \notin DOMAIN calls /\ DOMAIN calls = 1..Len(calls) /\ Len(calls) \in Nat
      /\ DOMAIN calls' = DOMAIN calls \cup {c} /\ Len(calls') = c
      /\ \A i \in DOMAIN calls : i \in Nat /\ i < c /\ calls'[i] = calls[i]
      /\ calls'[c] = call
  <2>1. calls \in Seq(Range(calls))
    BY <1>4 DEF Shape
  <2> HIDE DEF call
  <2>2. /\ Append(calls, call) \in Seq(Range(Append(calls, call)))
        /\ Len(calls) \in Nat /\ DOMAIN calls = 1..Len(calls)
        /\ DOMAIN Append(calls, call) = 1..(Len(calls) + 1)
        /\ \A i \in 1..Len(calls) : Append(calls, call)[i] = calls[i]
        /\ Append(calls, call)[Len(calls) + 1] = call
    BY <2>1, OneMore
  <2>3. Len(calls') = Len(calls) + 1
    BY <1>1, <2>2, LenProperties
  <2> QED
    BY <1>1, <2>2, <2>3
<1>6. now \in Nat /\ live \in Nat /\ replaced \in Seq(Nat) /\ Len(replaced) = live - 1
  BY <1>4 DEF Surroundings
<1>7. /\ call.kind = kind /\ call.dids = dids /\ call.began = now /\ DOMAIN call.answers = cached
      /\ \A d \in cached : call.answers[d] = kept(d).answer
  OBVIOUS
<1>8. ASSUME NEW d \in cached
      PROVE  /\ kept(d) \in Range(lookupCache) /\ kept(d).did = d /\ now - kept(d).at < CacheTtl
             /\ d \in Dids /\ d \notin DOMAIN inflightLookups /\ d \notin DOMAIN exchanges
  <2>1. kept(d) \in Hits(d)
    OBVIOUS
  <2>2. d \notin DOMAIN inflightLookups
    BY <1>4 DEF Sharing
  <2> QED
    BY <1>4, <2>1, <2>2 DEF Hits, Fresh, NothingForgotten, Fetching
<1>9. /\ cached \subseteq Dids /\ wanted \subseteq Dids /\ joined \subseteq DOMAIN inflightLookups
      /\ \A d \in wanted : Hits(d) = {}
      /\ wanted \cap DOMAIN inflightLookups = {} /\ cached \cap wanted = {}
      /\ Healthz \notin Dids
  OBVIOUS
<1> HIDE DEF c, cached, joined, wanted, kept, call
<1>10. Surroundings' /\ SoundMemo' /\ SoundVersionCache'
  BY <1>1 DEF IInv, Surroundings, SoundMemo, SoundVersionCache
<1>11. /\ DOMAIN exchanges' = DOMAIN exchanges \cup opened
       /\ \A k \in DOMAIN exchanges' :
             \/ exchanges'[k] = NewExchange
             \/ k \in DOMAIN exchanges /\ exchanges'[k] = exchanges[k]
  BY <1>2 DEF Opened
<1>12. SoundExchanges'
  <2> SUFFICES ASSUME NEW k \in DOMAIN exchanges'
               PROVE  /\ DOMAIN exchanges'[k] = {"deadline", "reply"}
                      /\ exchanges'[k].deadline \in Nat
                      /\ exchanges'[k].deadline - Timeout <= now /\ now <= exchanges'[k].deadline
                      /\ exchanges'[k].reply # NoReply
                            => Sound(live, replaced, k, exchanges'[k].reply,
                                     exchanges'[k].deadline - Timeout)
    BY <1>1 DEF SoundExchanges
  <2>1. CASE exchanges'[k] = NewExchange
    BY <1>6, <2>1 DEF NewExchange
  <2>2. CASE k \in DOMAIN exchanges /\ exchanges'[k] = exchanges[k]
    BY <1>4, <2>2 DEF SoundExchanges
  <2> QED
    BY <1>11, <2>1, <2>2
<1>13. ASSUME NEW d \in cached
       PROVE  /\ Sound(live, replaced, d, call.answers[d], now - CacheTtl - Timeout + 1)
              /\ call.answers[d].generation \in Nat
  <2>1. /\ kept(d).at \in Nat /\ now - kept(d).at < CacheTtl
        /\ Sound(live, replaced, d, kept(d).answer, kept(d).at - Timeout)
    BY <1>4, <1>8 DEF SoundMemo
  <2>2. /\ kept(d).at - Timeout \in Int /\ now - CacheTtl - Timeout + 1 \in Int
        /\ now - CacheTtl - Timeout + 1 <= kept(d).at - Timeout
    BY ONLY <1>6, <2>1, Durations
  <2>3. Sound(live, replaced, d, kept(d).answer, now - CacheTtl - Timeout + 1)
    BY <1>6, <2>1, <2>2, SoundEarlier
  <2>4. kept(d).answer.generation \in Nat
    BY <1>6, <2>3, Generations
  <2> QED
    BY <1>7, <2>3, <2>4
<1>14. SoundCalls'
  <2>1. SoundCall(call, live, replaced, now)
    BY <1>6, <1>7, <1>13 DEF SoundCall, cached
  <2>2. Len(calls') <= Len(plan')
    <3>1. plan \in Seq(Range(plan))
      BY <1>4 DEF Surroundings, ServiceAssumption
    <3>2. Len(plan) \in Nat
      BY <3>1, LenProperties
    <3> QED
      BY <1>1, <1>5, <3>2 DEF c
  <2> QED
    BY <1>1, <1>4, <1>5, <2>1, <2>2 DEF SoundCalls
<1>15. Sharing'
  <2>1. \A d \in DOMAIN inflightLookups' : Hits(d)' = {}
    <3>1. \A d : Hits(d)' = Hits(d)
      BY <1>1 DEF Hits, Fresh
    <3> QED
      BY <1>1, <1>4, <1>9, <3>1 DEF Sharing
  <2>2. ASSUME NEW d \in DOMAIN inflightLookups'
        PROVE  /\ Increasing(inflightLookups'[d])
               /\ \A i \in Range(inflightLookups'[d]) : calls'[i].kind # "version"
    <3>1. CASE d \in wanted
      <4>1. inflightLookups'[d] = <<c>>
        BY <1>1, <3>1
      <4>2. Increasing(<<c>>) /\ Range(<<c>>) = {c}
        BY DEF Increasing, Range
      <4> QED
        BY <1>5, <1>7, <4>1, <4>2
    <3>2. CASE d \notin wanted
      <4> DEFINE s == inflightLookups[d]
      <4>1. d \in DOMAIN inflightLookups /\ inflightLookups'[d] = IF d \in joined THEN Append(s, c) ELSE s
        BY <1>1, <3>2
      <4>2. /\ s \in Seq(Nat) /\ Range(s) \subseteq DOMAIN calls /\ Increasing(s)
            /\ \A i \in Range(s) : calls[i].kind # "version"
        BY <1>4, <4>1 DEF Shape, Sharing
      <4> HIDE DEF s
      <4>3. CASE d \notin joined
        BY <1>5, <4>1, <4>2, <4>3
      <4>4. CASE d \in joined
        <5>1. /\ Len(s) \in Nat /\ Len(Append(s, c)) = Len(s) + 1
              /\ \A i \in 1..Len(s) : Append(s, c)[i] = s[i] /\ s[i] \in Range(s)
              /\ Append(s, c)[Len(s) + 1] = c
          BY <1>5, <4>2, AppendProperties, LenProperties DEF Range
        <5>2. \A i \in 1..Len(s) : s[i] \in Nat /\ s[i] < c
          BY <1>5, <4>2, <5>1
        <5>3. Increasing(Append(s, c))
          <6> SUFFICES ASSUME NEW i \in 1..Len(s) + 1, NEW j \in 1..Len(s) + 1, i < j
                       PROVE  Append(s, c)[i] < Append(s, c)[j]
            BY <5>1 DEF Increasing
          <6>1. i \in 1..Len(s)
            BY <5>1
          <6>2. CASE j = Len(s) + 1
            BY <5>1, <5>2, <6>1, <6>2
          <6>3. CASE j \in 1..Len(s)
            BY <4>2, <5>1, <6>1, <6>3 DEF Increasing
          <6> QED
            BY <5>1, <6>2, <6>3
        <5>4. Range(Append(s, c)) = Range(s) \cup {c}
          BY <1>5, <4>2, OneMoreInRange
        <5> QED
          BY <1>5, <1>7, <4>1, <4>2, <4>4, <5>3, <5>4
      <4> QED
        BY <4>3, <4>4
    <3> QED
      BY <3>1, <3>2
  <2> QED
    BY <2>1, <2>2 DEF Sharing
<1>16. EarlierFirst'
  <2> SUFFICES ASSUME NEW a \in DOMAIN calls', NEW e \in DOMAIN calls', a < e, calls'[a].kind # "version",
                      NEW d \in Dids, d \in calls'[a].dids, d \in DOMAIN calls'[e].answers
               PROVE  d \in DOMAIN calls'[a].answers
    BY DEF EarlierFirst
  <2>1. a \in DOMAIN calls /\ calls'[a] = calls[a]
    BY <1>5
  <2>2. CASE e = c
    <3>1. d \in cached
      BY <1>5, <1>7, <2>2
    <3>2. d \notin DOMAIN inflightLookups
      BY <1>8, <3>1
    <3> QED
      BY <1>4, <2>1, <3>2 DEF NothingForgotten
  <2>3. CASE e \in DOMAIN calls
    BY <1>4, <1>5, <2>1, <2>3 DEF EarlierFirst
  <2> QED
    BY <1>5, <2>2, <2>3
<1>17. NewestKept'
  <2> SUFFICES ASSUME NEW d \in Dids, NEW a \in DOMAIN calls', d \in DOMAIN calls'[a].answers,
                      NEW e \in Range(lookupCache), e.did = d
               PROVE  calls'[a].answers[d].generation <= e.answer.generation
    BY <1>1 DEF NewestKept, Given
  <2>1. CASE a = c
    <3>1. d \in cached /\ calls'[a].answers[d] = kept(d).answer
      BY <1>5, <1>7, <2>1
    <3>2. kept(d) \in Range(lookupCache) /\ kept(d).did = d
      BY <1>8, <3>1
    <3>3. kept(d) = e
      BY <1>4, <3>2, OfOneDid DEF SoundMemo
    <3>4. call.answers[d].generation \in Nat
      BY <1>13, <3>1
    <3> QED
      BY <1>5, <2>1, <3>1, <3>3, <3>4
  <2>2. CASE a \in DOMAIN calls
    BY <1>4, <1>5, <2>2 DEF NewestKept, Given
  <2> QED
    BY <1>5, <2>1, <2>2
<1>18. NewestComing'
  <2> SUFFICES ASSUME NEW d \in Dids, NEW a \in DOMAIN calls', d \in DOMAIN calls'[a].answers,
                      d \in DOMAIN exchanges', exchanges'[d].reply \notin {NoReply, Unavailable}
               PROVE  calls'[a].answers[d].generation <= exchanges'[d].reply.generation
    BY DEF NewestComing, Given
  <2>1. d \in DOMAIN exchanges /\ exchanges'[d] = exchanges[d]
    BY <1>11 DEF NewExchange
  <2>2. a # c
    BY <1>5, <1>7, <1>8, <2>1
  <2> QED
    BY <1>4, <1>5, <2>1, <2>2 DEF NewestComing, Given
<1>19. NewestGiven'
  <2> SUFFICES ASSUME NEW d \in Dids, NEW a \in DOMAIN calls', NEW e \in DOMAIN calls', a < e,
                      d \in DOMAIN calls'[a].answers, d \in DOMAIN calls'[e].answers,
                      calls'[e].answers[d] # Unavailable
               PROVE  calls'[a].answers[d].generation <= calls'[e].answers[d].generation
    BY DEF NewestGiven, Given
  <2>1. a \in DOMAIN calls /\ calls'[a] = calls[a]
    BY <1>5
  <2>2. CASE e = c
    <3>1. d \in cached /\ calls'[e].answers[d] = kept(d).answer
      BY <1>5, <1>7, <2>2
    <3>2. kept(d) \in Range(lookupCache) /\ kept(d).did = d
      BY <1>8, <3>1
    <3> QED
      BY <1>4, <2>1, <3>1, <3>2 DEF NewestKept, Given
  <2>3. CASE e \in DOMAIN calls
    BY <1>4, <1>5, <2>1, <2>3 DEF NewestGiven, Given
  <2> QED
    BY <1>5, <2>2, <2>3
<1>20. SnapshotIsLast'
  <2>1. \/ ~Listed(call) /\ lastSnapshot' = lastSnapshot
        \/ Listed(call) /\ lastSnapshot' = ListUnder(burstPolicy, call)
    <3>1. <<call>> \in Seq({call}) /\ Len(<<call>>) = 1 /\ <<call>>[1] = call
      OBVIOUS
    <3>2. \/ /\ \A i \in 1..1 : ~Listed(<<call>>[i])
             /\ SnapshotAfter(<<call>>) = lastSnapshot
          \/ \E i \in 1..1 : Listed(<<call>>[i]) /\ SnapshotAfter(<<call>>) = ListUnder(burstPolicy, <<call>>[i])
      BY <3>1, SnapshotOf
    <3>3. \A i \in 1..1 : i = 1
      OBVIOUS
    <3>4. 1 \in 1..1
      OBVIOUS
    <3> QED
      BY <1>1, <3>1, <3>2, <3>3, <3>4
  <2>2. CASE ~Listed(call) /\ lastSnapshot' = lastSnapshot
    <3>1. \A a \in DOMAIN calls' : Listed(calls'[a]) => a \in DOMAIN calls
      BY <1>5, <2>2
    <3>2. \A a \in DOMAIN calls : a \in DOMAIN calls' /\ calls'[a] = calls[a]
      BY <1>5
    <3>3. lastSnapshot' = lastSnapshot /\ burstPolicy' = burstPolicy
      BY <1>1, <2>2
    <3>4. SnapshotIsLast
      BY <1>4
    <3> QED
      BY ONLY <3>1, <3>2, <3>3, <3>4 DEF SnapshotIsLast
  <2>3. CASE Listed(call) /\ lastSnapshot' = ListUnder(burstPolicy, call)
    <3>1. \A a \in DOMAIN calls' : a # c => a < c /\ a \in Nat
      BY <1>5
    <3>2. \A a \in DOMAIN calls' : (\A e \in DOMAIN calls' : Listed(calls'[e]) => e <= a) => a = c
      BY <1>5, <2>3, <3>1
    <3>3. /\ c \in DOMAIN calls' /\ Listed(calls'[c])
          /\ lastSnapshot' = ListUnder(burstPolicy', calls'[c])
      BY <1>1, <1>5, <2>3
    <3> QED
      BY ONLY <3>2, <3>3 DEF SnapshotIsLast
  <2> QED
    BY <2>1, <2>2, <2>3
<1> QED
  BY <1>3, <1>10, <1>12, <1>14, <1>15, <1>16, <1>17, <1>18, <1>19, <1>20 DEF IInv

\* Sound for one key that is no DID is sound for any other, and an answer
\* that was sound from a time on is sound from an earlier one on.
LEMMA SoundForVersions ==
    ASSUME NEW on, NEW until, NEW k, k \notin Dids, NEW answer, NEW t, Sound(on, until, k, answer, t)
    PROVE  Sound(on, until, Healthz, answer, t)
BY DEF Sound

LEMMA VersionStep ==
    ASSUME IInv, Version
    PROVE  IInv'
<1> DEFINE c == Len(calls) + 1
           hit == {e \in Range(versionCache) : Fresh(e)}
           kept == CHOOSE e \in hit : TRUE
           call == [kind |-> "version", dids |-> {Healthz}, began |-> now,
                    answers |-> [k \in {h \in {Healthz} : hit # {}} |-> kept.answer]]
<1>1. /\ calls' = Append(calls, call)
      /\ exchanges' = IF hit = {} THEN Opened({c}) ELSE exchanges
      /\ Len(calls) < Len(plan)
      /\ UNCHANGED <<now, plan, live, replaced, burstPolicy, lookupCache, versionCache, inflightLookups,
                     activeFetches, waiters, lastSnapshot>>
  BY DEF Version, Called
<1>2. Matching'
  BY VersionKeeps DEF IInv
<1>3. /\ Surroundings /\ SoundExchanges /\ SoundVersionCache /\ SoundCalls /\ Sharing /\ EarlierFirst
      /\ NewestKept /\ NewestComing /\ NewestGiven /\ SnapshotIsLast
      /\ Shape /\ NothingForgotten
  BY DEF IInv, Matching
<1>4. /\ c \in Nat /\ c \notin Dids /\ DOMAIN calls = 1..Len(calls) /\ Len(calls) \in Nat
      /\ DOMAIN calls' = DOMAIN calls \cup {c} /\ Len(calls') = c
      /\ \A i \in DOMAIN calls : i \in Nat /\ i < c /\ calls'[i] = calls[i]
      /\ calls'[c] = call
  <2>1. calls \in Seq(Range(calls))
    BY <1>3 DEF Shape
  <2> HIDE DEF call
  <2>2. /\ Append(calls, call) \in Seq(Range(Append(calls, call)))
        /\ Len(calls) \in Nat /\ DOMAIN calls = 1..Len(calls)
        /\ DOMAIN Append(calls, call) = 1..(Len(calls) + 1)
        /\ \A i \in 1..Len(calls) : Append(calls, call)[i] = calls[i]
        /\ Append(calls, call)[Len(calls) + 1] = call
    BY <2>1, OneMore
  <2>3. Len(calls') = Len(calls) + 1
    BY <1>1, <2>2, LenProperties
  <2>4. c \in Nat
    BY <2>2
  <2>5. c \notin Dids
    BY <2>4 DEF ServiceAssumption
  <2> QED
    BY <1>1, <2>2, <2>3, <2>5
<1>5. now \in Nat /\ live \in Nat /\ replaced \in Seq(Nat) /\ Len(replaced) = live - 1
  BY <1>3 DEF Surroundings
<1>6. /\ call.kind = "version" /\ call.dids = {Healthz} /\ call.began = now
      /\ DOMAIN call.answers \subseteq {Healthz} /\ Healthz \notin Dids
      /\ \A k \in DOMAIN call.answers : /\ k = Healthz /\ call.answers[k] = kept.answer
                                        /\ kept \in Range(versionCache) /\ now - kept.at < CacheTtl
  <2>1. hit # {} => kept \in hit
    OBVIOUS
  <2> HIDE DEF kept
  <2> QED
    BY <2>1 DEF Fresh
<1>7. \A d \in Dids : d # c /\ d \notin DOMAIN call.answers
  BY <1>4, <1>6
<1> HIDE DEF c, hit, kept, call
<1>8. Surroundings' /\ SoundMemo' /\ SoundVersionCache'
  BY <1>1 DEF IInv, Surroundings, SoundMemo, SoundVersionCache
<1>9. \A k \in DOMAIN exchanges' :
         \/ k = c /\ exchanges'[k] = NewExchange
         \/ k \in DOMAIN exchanges /\ exchanges'[k] = exchanges[k]
  BY <1>1 DEF Opened
<1>10. SoundExchanges'
  <2> SUFFICES ASSUME NEW k \in DOMAIN exchanges'
               PROVE  /\ DOMAIN exchanges'[k] = {"deadline", "reply"}
                      /\ exchanges'[k].deadline \in Nat
                      /\ exchanges'[k].deadline - Timeout <= now /\ now <= exchanges'[k].deadline
                      /\ exchanges'[k].reply # NoReply
                            => Sound(live, replaced, k, exchanges'[k].reply,
                                     exchanges'[k].deadline - Timeout)
    BY <1>1 DEF SoundExchanges
  <2>1. CASE exchanges'[k] = NewExchange
    BY <1>5, <2>1 DEF NewExchange
  <2>2. CASE k \in DOMAIN exchanges /\ exchanges'[k] = exchanges[k]
    BY <1>3, <2>2 DEF SoundExchanges
  <2> QED
    BY <1>9, <2>1, <2>2
<1>11. SoundCalls'
  <2>1. ASSUME NEW k \in DOMAIN call.answers
        PROVE  Sound(live, replaced, k, call.answers[k], now - CacheTtl - Timeout + 1)
    <3>1. /\ kept.at \in Nat /\ now - kept.at < CacheTtl
          /\ Sound(live, replaced, Healthz, kept.answer, kept.at - Timeout)
      BY <1>3, <1>6, <2>1 DEF SoundVersionCache
    <3>2. /\ kept.at - Timeout \in Int /\ now - CacheTtl - Timeout + 1 \in Int
          /\ now - CacheTtl - Timeout + 1 <= kept.at - Timeout
      BY ONLY <1>5, <3>1, Durations
    <3>3. Sound(live, replaced, Healthz, kept.answer, now - CacheTtl - Timeout + 1)
      BY <1>5, <3>1, <3>2, SoundEarlier
    <3> QED
      BY <1>6, <2>1, <3>3
  <2>2. SoundCall(call, live, replaced, now)
    BY <1>5, <1>6, <2>1 DEF SoundCall
  <2>3. Len(calls') <= Len(plan')
    <3>1. plan \in Seq(Range(plan))
      BY <1>3 DEF Surroundings, ServiceAssumption
    <3>2. Len(plan) \in Nat
      BY <3>1, LenProperties
    <3> QED
      BY <1>1, <1>4, <3>2 DEF c
  <2> QED
    BY <1>1, <1>3, <1>4, <2>2, <2>3 DEF SoundCalls
<1>12. Sharing'
  <2>1. \A d : Hits(d)' = Hits(d)
    BY <1>1 DEF Hits, Fresh
  <2>2. \A d \in DOMAIN inflightLookups : Range(inflightLookups[d]) \subseteq DOMAIN calls
    BY <1>3 DEF Shape
  <2> QED
    BY <1>1, <1>3, <1>4, <2>1, <2>2 DEF Sharing
<1>13. EarlierFirst'
  <2> SUFFICES ASSUME NEW a \in DOMAIN calls', NEW e \in DOMAIN calls', a < e, calls'[a].kind # "version",
                      NEW d \in Dids, d \in calls'[a].dids, d \in DOMAIN calls'[e].answers
               PROVE  d \in DOMAIN calls'[a].answers
    BY DEF EarlierFirst
  <2>1. a \in DOMAIN calls /\ e \in DOMAIN calls
    BY <1>4, <1>6, <1>7
  <2> QED
    BY <1>3, <1>4, <2>1 DEF EarlierFirst
<1>14. NewestKept'
  <2> SUFFICES ASSUME NEW d \in Dids, NEW a \in DOMAIN calls', d \in DOMAIN calls'[a].answers,
                      NEW e \in Range(lookupCache), e.did = d
               PROVE  calls'[a].answers[d].generation <= e.answer.generation
    BY <1>1 DEF NewestKept, Given
  <2>1. a \in DOMAIN calls
    BY <1>4, <1>7
  <2> QED
    BY <1>3, <1>4, <2>1 DEF NewestKept, Given
<1>15. NewestComing'
  <2> SUFFICES ASSUME NEW d \in Dids, NEW a \in DOMAIN calls', d \in DOMAIN calls'[a].answers,
                      d \in DOMAIN exchanges', exchanges'[d].reply \notin {NoReply, Unavailable}
               PROVE  calls'[a].answers[d].generation <= exchanges'[d].reply.generation
    BY DEF NewestComing, Given
  <2>1. d \in DOMAIN exchanges /\ exchanges'[d] = exchanges[d] /\ a \in DOMAIN calls
    BY <1>4, <1>7, <1>9
  <2> QED
    BY <1>3, <1>4, <2>1 DEF NewestComing, Given
<1>16. NewestGiven'
  <2> SUFFICES ASSUME NEW d \in Dids, NEW a \in DOMAIN calls', NEW e \in DOMAIN calls', a < e,
                      d \in DOMAIN calls'[a].answers, d \in DOMAIN calls'[e].answers,
                      calls'[e].answers[d] # Unavailable
               PROVE  calls'[a].answers[d].generation <= calls'[e].answers[d].generation
    BY DEF NewestGiven, Given
  <2>1. a \in DOMAIN calls /\ e \in DOMAIN calls
    BY <1>4, <1>7
  <2> QED
    BY <1>3, <1>4, <2>1 DEF NewestGiven, Given
<1>17. SnapshotIsLast'
  <2>1. ~Listed(call)
    BY <1>6 DEF Listed
  <2>2. \A a \in DOMAIN calls' : Listed(calls'[a]) => a \in DOMAIN calls /\ Listed(calls[a])
    BY <1>4, <2>1
  <2>3. \A a \in DOMAIN calls : a \in DOMAIN calls' /\ calls'[a] = calls[a]
    BY <1>4
  <2> HIDE DEF Listed
  <2> QED
    BY <1>1, <1>3, <2>2, <2>3 DEF SnapshotIsLast
<1> QED
  BY <1>2, <1>8, <1>10, <1>11, <1>12, <1>13, <1>14, <1>15, <1>16, <1>17 DEF IInv

\* The answer of an exchange that ends, as its callers and the memo get it.
LEMMA SoundReply ==
    ASSUME Surroundings, SoundExchanges, NEW key \in DOMAIN exchanges, NEW answer,
           answer = Unavailable \/ (answer = exchanges[key].reply /\ answer # NoReply)
    PROVE  /\ Sound(live, replaced, key, answer, now - Timeout)
           /\ \A t \in Int : t <= now - Timeout => Sound(live, replaced, key, answer, t)
           /\ answer.generation \in Nat
<1>1. now \in Nat /\ live \in Nat /\ replaced \in Seq(Nat) /\ Len(replaced) = live - 1
  BY DEF Surroundings
<1>2. CASE answer = Unavailable
  BY <1>2 DEF Sound, Unavailable
<1>3. CASE answer # Unavailable
  <2> DEFINE t0 == exchanges[key].deadline - Timeout
  <2>1. /\ Sound(live, replaced, key, answer, t0)
        /\ exchanges[key].deadline \in Nat /\ now <= exchanges[key].deadline
    BY <1>3 DEF SoundExchanges
  <2>2. t0 \in Int /\ now - Timeout \in Int /\ now - Timeout <= t0
    BY ONLY <1>1, <2>1, Durations
  <2> HIDE DEF t0
  <2>3. Sound(live, replaced, key, answer, now - Timeout)
    BY <1>1, <2>1, <2>2, SoundEarlier
  <2>4. \A t \in Int : t <= now - Timeout => Sound(live, replaced, key, answer, t)
    BY <1>1, <2>2, <2>3, SoundEarlier
  <2> QED
    BY <1>1, <2>3, <2>4, Generations
<1> QED
  BY <1>2, <1>3

LEMMA VersionEndsStep ==
    ASSUME IInv, NEW c \in DOMAIN exchanges \ Dids, NEW answer,
           answer = Unavailable \/ (answer = exchanges[c].reply /\ answer # NoReply),
           VersionEnds(c, answer), UNCHANGED <<now, plan, live, replaced, burstPolicy>>
    PROVE  IInv'
<1>1. /\ versionCache' = IF answer = Unavailable THEN versionCache ELSE <<[at |-> now, answer |-> answer]>>
      /\ exchanges' = [k \in DOMAIN exchanges \ {c} |-> exchanges[k]]
      /\ calls' = [calls EXCEPT ![c] = Answered(@, Healthz, answer)]
      /\ UNCHANGED <<now, plan, live, replaced, burstPolicy, lookupCache, inflightLookups,
                     activeFetches, waiters, lastSnapshot>>
  BY DEF VersionEnds
<1>2. Matching'
  BY VersionEndsKeeps DEF IInv
<1>3. /\ Surroundings /\ SoundExchanges /\ SoundVersionCache /\ SoundCalls /\ Sharing /\ EarlierFirst
      /\ NewestKept /\ NewestComing /\ NewestGiven /\ SnapshotIsLast
      /\ Shape /\ NothingForgotten
  BY DEF IInv, Matching
<1>4. now \in Nat /\ live \in Nat /\ replaced \in Seq(Nat) /\ Len(replaced) = live - 1
  BY <1>3 DEF Surroundings
<1>5. /\ c \in DOMAIN calls /\ calls[c].kind = "version" /\ Healthz \notin Dids
      /\ DOMAIN calls[c] = {"kind", "dids", "began", "answers"}
  BY <1>3 DEF Shape
<1>6. /\ DOMAIN calls' = DOMAIN calls /\ calls'[c] = Answered(calls[c], Healthz, answer)
      /\ \A i \in DOMAIN calls \ {c} : calls'[i] = calls[i]
      /\ Len(calls') = Len(calls)
  <2>1. /\ DOMAIN calls' = DOMAIN calls /\ calls'[c] = Answered(calls[c], Healthz, answer)
        /\ \A i \in DOMAIN calls \ {c} : calls'[i] = calls[i]
    BY <1>1, <1>5
  <2>2. calls \in Seq(Range(calls)) /\ calls' \in Seq(Range(calls'))
    BY <1>2, <1>3 DEF Matching, Shape
  <2>3. Len(calls') = Len(calls)
    BY <2>1, <2>2, LenProperties
  <2> QED
    BY <2>1, <2>3
<1>7. \A i \in DOMAIN calls :
         /\ calls'[i].kind = calls[i].kind /\ calls'[i].dids = calls[i].dids
         /\ \A d \in Dids : d \in DOMAIN calls'[i].answers <=> d \in DOMAIN calls[i].answers
         /\ \A d \in Dids : d \in DOMAIN calls[i].answers => calls'[i].answers[d] = calls[i].answers[d]
  BY <1>5, <1>6, AnsweredCall
<1>8. Surroundings' /\ SoundMemo'
  BY <1>1 DEF IInv, Surroundings, SoundMemo
<1>9. /\ DOMAIN exchanges' = DOMAIN exchanges \ {c}
      /\ \A k \in DOMAIN exchanges' : exchanges'[k] = exchanges[k]
  BY <1>1
<1>10. SoundExchanges'
  BY <1>1, <1>3, <1>9 DEF SoundExchanges
<1>11. SoundVersionCache'
  <2>1. CASE answer = Unavailable
    BY <1>1, <1>3, <2>1 DEF SoundVersionCache
  <2>2. CASE answer # Unavailable
    <3> DEFINE entry == [at |-> now, answer |-> answer]
    <3>1. versionCache' = <<entry>> /\ Len(<<entry>>) = 1 /\ Range(<<entry>>) = {entry}
      BY <1>1, <2>2 DEF Range
    <3>2. Sound(live, replaced, Healthz, answer, now - Timeout)
      BY <1>3, SoundReply, SoundForVersions
    <3>3. entry.at = now /\ entry.answer = answer
      OBVIOUS
    <3> HIDE DEF entry
    <3>4. Len(versionCache') <= 1 /\ Range(versionCache') = {entry}
      BY <3>1
    <3>5. entry.at \in Nat /\ entry.at <= now /\ Sound(live, replaced, Healthz, entry.answer, entry.at - Timeout)
      BY <1>4, <3>2, <3>3
    <3>6. UNCHANGED <<now, live, replaced>>
      BY <1>1
    <3> QED
      BY <3>4, <3>5, <3>6 DEF SoundVersionCache
  <2> QED
    BY <2>1, <2>2
<1>12. SoundCalls'
  <2>1. SoundCall(calls'[c], live, replaced, now)
    <3>1. SoundCall(calls[c], live, replaced, now)
      BY <1>3, <1>5 DEF SoundCalls
    <3>2. calls[c].began \in Nat /\ calls[c].began <= now
      BY <3>1 DEF SoundCall
    <3>3. /\ calls[c].began - CacheTtl - Timeout + 1 \in Int
          /\ calls[c].began - CacheTtl - Timeout + 1 <= now - Timeout
      BY ONLY <1>4, <3>2, Durations
    <3>4. Sound(live, replaced, Healthz, answer, calls[c].began - CacheTtl - Timeout + 1)
      BY <1>3, <3>3, SoundReply, SoundForVersions
    <3>5. /\ calls'[c].kind = "version" /\ calls'[c].dids = calls[c].dids /\ calls[c].dids = {Healthz}
          /\ calls'[c].began = calls[c].began
          /\ DOMAIN calls'[c].answers = DOMAIN calls[c].answers \cup {Healthz}
          /\ calls'[c].answers[Healthz] = answer
      BY <1>5, <1>6, <3>1, AnsweredCall DEF SoundCall
    <3>6. DOMAIN calls'[c].answers = {Healthz}
      BY <3>1, <3>5 DEF SoundCall
    <3> QED
      BY <3>2, <3>4, <3>5, <3>6 DEF SoundCall
  <2> QED
    BY <1>1, <1>3, <1>6, <2>1 DEF SoundCalls
<1>13. Sharing'
  <2>1. \A d : Hits(d)' = Hits(d)
    BY <1>1 DEF Hits, Fresh
  <2>2. \A d \in DOMAIN inflightLookups : Range(inflightLookups[d]) \subseteq DOMAIN calls
    BY <1>3 DEF Shape
  <2> QED
    BY <1>1, <1>3, <1>7, <2>1, <2>2 DEF Sharing
<1>14. EarlierFirst'
  BY <1>3, <1>6, <1>7 DEF EarlierFirst
<1>15. NewestKept'
  BY <1>1, <1>3, <1>6, <1>7 DEF NewestKept, Given
<1>16. NewestComing'
  BY <1>3, <1>6, <1>7, <1>9 DEF NewestComing, Given
<1>17. NewestGiven'
  BY <1>3, <1>6, <1>7 DEF NewestGiven, Given
<1>18. SnapshotIsLast'
  <2>1. ~Listed(calls[c]) /\ ~Listed(calls'[c])
    BY <1>5, <1>7 DEF Listed
  <2> HIDE DEF Listed
  <2> QED
    BY <1>1, <1>3, <1>6, <2>1 DEF SnapshotIsLast
<1> QED
  BY <1>2, <1>8, <1>10, <1>11, <1>12, <1>13, <1>14, <1>15, <1>16, <1>17, <1>18 DEF IInv

\* What the end of a lookup leaves of its callers, of the memo and of the
\* exchanges.
LEMMA LookupEnded ==
    ASSUME IInv, NEW did \in Fetching, NEW answer,
           answer = Unavailable \/ (answer = exchanges[did].reply /\ answer # NoReply),
           LookupEnds(did, answer), UNCHANGED <<now, plan, live, replaced, burstPolicy>>
    PROVE  LET sharers == inflightLookups[did]
           IN  /\ sharers \in Seq(Nat) /\ Increasing(sharers)
               /\ Range(sharers) \subseteq DOMAIN calls
               /\ \A i \in Range(sharers) : calls[i].kind # "version" /\ did \in calls[i].dids
               /\ \A i \in DOMAIN calls : calls[i].kind # "version" /\ did \in calls[i].dids =>
                     (i \in Range(sharers) <=> did \notin DOMAIN calls[i].answers)
               /\ DOMAIN calls' = DOMAIN calls /\ Len(calls') = Len(calls)
               /\ \A i \in DOMAIN calls :
                     /\ calls'[i].kind = calls[i].kind /\ calls'[i].dids = calls[i].dids
                     /\ calls'[i].began = calls[i].began
                     /\ i \notin Range(sharers) => calls'[i] = calls[i]
                     /\ i \in Range(sharers) =>
                           /\ DOMAIN calls'[i].answers = DOMAIN calls[i].answers \cup {did}
                           /\ calls'[i].answers[did] = answer
                     /\ \A d \in DOMAIN calls[i].answers : calls'[i].answers[d] = calls[i].answers[d]
<1> DEFINE sharers == inflightLookups[did]
<1>1. /\ Shape /\ NothingForgotten /\ Sharing /\ Matching
  BY DEF IInv, Matching
<1>2. /\ did \in Dids /\ did \in DOMAIN inflightLookups
  BY <1>1 DEF NothingForgotten, Fetching
<1>3. /\ sharers \in Seq(Nat) /\ Increasing(sharers) /\ Range(sharers) \subseteq DOMAIN calls
      /\ \A i \in Range(sharers) : calls[i].kind # "version"
  BY <1>1, <1>2 DEF Shape, Sharing
<1>4. \A i \in DOMAIN calls : calls[i].kind # "version" =>
         (i \in Range(sharers) <=> did \in calls[i].dids \ DOMAIN calls[i].answers)
  BY <1>1, <1>2 DEF NothingForgotten
<1>5. calls' = [i \in DOMAIN calls |-> IF i \in Range(sharers)
                                         THEN Answered(calls[i], did, answer) ELSE calls[i]]
  BY DEF LookupEnds
<1> HIDE DEF sharers
<1>6. DOMAIN calls' = DOMAIN calls /\ Len(calls') = Len(calls)
  <2>1. Matching'
    BY <1>1, LookupEndsKeeps
  <2>2. calls \in Seq(Range(calls)) /\ calls' \in Seq(Range(calls')) /\ DOMAIN calls' = DOMAIN calls
    BY <1>1, <1>5, <2>1 DEF Matching, Shape
  <2> QED
    BY <2>2, LenProperties
<1>7. ASSUME NEW i \in DOMAIN calls
      PROVE  /\ calls'[i].kind = calls[i].kind /\ calls'[i].dids = calls[i].dids
             /\ calls'[i].began = calls[i].began
             /\ i \notin Range(sharers) => calls'[i] = calls[i]
             /\ i \in Range(sharers) =>
                   /\ DOMAIN calls'[i].answers = DOMAIN calls[i].answers \cup {did}
                   /\ calls'[i].answers[did] = answer
             /\ \A d \in DOMAIN calls[i].answers : calls'[i].answers[d] = calls[i].answers[d]
  <2>1. CASE i \notin Range(sharers)
    BY <1>5, <2>1
  <2>2. CASE i \in Range(sharers)
    <3>1. DOMAIN calls[i] = {"kind", "dids", "began", "answers"}
      BY <1>1 DEF Shape
    <3>2. calls'[i] = Answered(calls[i], did, answer)
      BY <1>5, <2>2
    <3>3. did \notin DOMAIN calls[i].answers
      BY <1>3, <1>4, <2>2
    <3> QED
      BY <2>2, <3>1, <3>2, <3>3, AnsweredCall
  <2> QED
    BY <2>1, <2>2
<1> QED
  BY <1>3, <1>4, <1>6, <1>7 DEF sharers

\* The snapshot is set by the last of the callers that the answer completes,
\* and no later call was complete before.
LEMMA SnapshotStays ==
    ASSUME IInv, NEW did \in Fetching, NEW answer,
           answer = Unavailable \/ (answer = exchanges[did].reply /\ answer # NoReply),
           LookupEnds(did, answer), UNCHANGED <<now, plan, live, replaced, burstPolicy>>
    PROVE  SnapshotIsLast'
<1> DEFINE sharers == inflightLookups[did]
           s == [i \in DOMAIN sharers |-> calls'[sharers[i]]]
<1>1. /\ SoundCalls /\ EarlierFirst /\ SnapshotIsLast /\ Shape /\ did \in Dids
  BY DEF IInv, Matching, Fetching
<1>2. /\ sharers \in Seq(Nat) /\ Increasing(sharers) /\ Range(sharers) \subseteq DOMAIN calls
      /\ \A i \in Range(sharers) : calls[i].kind # "version" /\ did \in calls[i].dids
      /\ \A i \in Range(sharers) : did \notin DOMAIN calls[i].answers
      /\ DOMAIN calls' = DOMAIN calls
      /\ \A i \in DOMAIN calls \ Range(sharers) : calls'[i] = calls[i]
  <2> HIDE DEF sharers
  <2> QED
    BY LookupEnded DEF sharers
<1>3. lastSnapshot' = SnapshotAfter(s) /\ UNCHANGED burstPolicy
  BY DEF LookupEnds
<1> HIDE DEF sharers
<1>4. /\ DOMAIN sharers = 1..Len(sharers) /\ Len(sharers) \in Nat
      /\ \A i \in 1..Len(sharers) : sharers[i] \in Range(sharers) /\ sharers[i] \in Nat
  BY <1>2, LenProperties, ElementOfSeq DEF Range
<1>5. /\ s \in Seq(Range(calls')) /\ Len(s) = Len(sharers)
      /\ \A i \in 1..Len(sharers) : s[i] = calls'[sharers[i]]
  <2>1. \A i \in 1..Len(sharers) : calls'[sharers[i]] \in Range(calls')
    BY <1>2, <1>4 DEF Range
  <2>2. s \in [1..Len(sharers) -> Range(calls')]
    BY <1>4, <2>1
  <2>3. s \in Seq(Range(calls'))
    BY <1>4, <2>2, IsASeq
  <2> QED
    BY <1>4, <2>2, <2>3, LenProperties
<1> HIDE DEF s
<1>6. \A i \in Range(sharers) : ~Listed(calls[i])
  BY <1>2 DEF Listed, Succeeds, Pending
<1>7. \/ /\ \A i \in 1..Len(sharers) : ~Listed(s[i])
         /\ SnapshotAfter(s) = lastSnapshot
      \/ \E i \in 1..Len(sharers) :
            /\ Listed(s[i]) /\ SnapshotAfter(s) = ListUnder(burstPolicy, s[i])
            /\ \A j \in 1..Len(sharers) : Listed(s[j]) => j <= i
  BY <1>5, SnapshotOf
<1>8. \A i \in Range(sharers) : \E j \in 1..Len(sharers) : sharers[j] = i
  BY <1>4 DEF Range
<1>9. CASE /\ \A i \in 1..Len(sharers) : ~Listed(s[i])
           /\ SnapshotAfter(s) = lastSnapshot
  <2>1. \A i \in Range(sharers) : ~Listed(calls'[i])
    BY <1>5, <1>8, <1>9
  <2>2. \A i \in DOMAIN calls : Listed(calls'[i]) <=> Listed(calls[i])
    BY <1>2, <1>6, <2>1
  <2>3. \A i \in DOMAIN calls : Listed(calls[i]) => calls'[i] = calls[i]
    BY <1>2, <1>6
  <2> HIDE DEF Listed
  <2> QED
    BY <1>1, <1>2, <1>3, <1>9, <2>2, <2>3 DEF SnapshotIsLast
<1>10. ASSUME NEW i \in 1..Len(sharers),
              Listed(s[i]), SnapshotAfter(s) = ListUnder(burstPolicy, s[i]),
              \A j \in 1..Len(sharers) : Listed(s[j]) => j <= i
       PROVE  SnapshotIsLast'
  <2> DEFINE m == sharers[i]
  <2>1. m \in DOMAIN calls /\ m \in Range(sharers) /\ m \in Nat /\ s[i] = calls'[m]
    BY <1>2, <1>4, <1>5
  <2>2. ASSUME NEW e \in DOMAIN calls, Listed(calls'[e]) PROVE e <= m
    <3>1. e \in Nat
      BY <1>1, LenProperties DEF Shape
    <3>2. CASE e \in Range(sharers)
      <4>1. PICK j \in 1..Len(sharers) : sharers[j] = e
        BY <1>8, <3>2
      <4>2. j <= i
        BY <1>5, <1>10, <2>2, <4>1
      <4>3. CASE j = i
        BY <2>1, <4>1, <4>3
      <4>4. CASE j < i
        BY <1>2, <2>1, <3>1, <4>1, <4>4 DEF Increasing
      <4> QED
        BY <4>2, <4>3, <4>4
    <3>3. CASE e \notin Range(sharers)
      <4>1. Listed(calls[e]) /\ calls[e].dids = Dids
        BY <1>1, <1>2, <2>2, <3>3 DEF Listed, SoundCalls, SoundCall
      <4>2. did \in DOMAIN calls[e].answers
        BY <1>1, <4>1 DEF Listed, Succeeds, Pending
      <4>3. ~(m < e)
        BY <1>1, <1>2, <2>1, <4>2 DEF EarlierFirst
      <4> QED
        BY <2>1, <3>1, <4>3
    <3> QED
      BY <3>2, <3>3
  <2>3. Listed(calls'[m]) /\ lastSnapshot' = ListUnder(burstPolicy', calls'[m])
    BY <1>3, <1>10, <2>1
  <2>4. \A a \in DOMAIN calls : (\A e \in DOMAIN calls : Listed(calls'[e]) => e <= a) /\ Listed(calls'[a]) => a = m
    <3> SUFFICES ASSUME NEW a \in DOMAIN calls, Listed(calls'[a]),
                        \A e \in DOMAIN calls : Listed(calls'[e]) => e <= a
                 PROVE  a = m
      OBVIOUS
    <3>1. a <= m /\ m <= a
      BY <2>1, <2>2, <2>3
    <3>2. a \in Nat
      BY <1>1, LenProperties DEF Shape
    <3> QED
      BY <2>1, <3>1, <3>2
  <2>5. DOMAIN calls' = DOMAIN calls
    BY <1>2
  <2> HIDE DEF m
  <2> QED
    BY ONLY <2>1, <2>3, <2>4, <2>5 DEF SnapshotIsLast
<1> QED
  BY <1>7, <1>9, <1>10

LEMMA LookupEndsStep ==
    ASSUME IInv, NEW did \in Fetching, NEW answer,
           answer = Unavailable \/ (answer = exchanges[did].reply /\ answer # NoReply),
           LookupEnds(did, answer), UNCHANGED <<now, plan, live, replaced, burstPolicy>>
    PROVE  IInv'
<1> DEFINE R == Range(inflightLookups[did])
           entry == [did |-> did, at |-> now, answer |-> answer]
<1>1. Matching'
  BY LookupEndsKeeps DEF IInv
<1>2. /\ Surroundings /\ SoundExchanges /\ SoundMemo /\ SoundCalls /\ Sharing /\ EarlierFirst
      /\ NewestKept /\ NewestComing /\ NewestGiven /\ Shape
      /\ did \in Dids /\ did \in DOMAIN exchanges
  BY DEF IInv, Matching, Fetching
<1>3. now \in Nat /\ live \in Nat /\ replaced \in Seq(Nat) /\ Len(replaced) = live - 1
  BY <1>2 DEF Surroundings
<1>4. /\ R \subseteq DOMAIN calls
      /\ \A i \in R : calls[i].kind # "version" /\ did \in calls[i].dids
      /\ \A i \in DOMAIN calls : calls[i].kind # "version" /\ did \in calls[i].dids =>
            (i \in R <=> did \notin DOMAIN calls[i].answers)
      /\ DOMAIN calls' = DOMAIN calls /\ Len(calls') = Len(calls)
  BY LookupEnded
<1>5. \A i \in DOMAIN calls :
         /\ calls'[i].kind = calls[i].kind /\ calls'[i].dids = calls[i].dids
         /\ calls'[i].began = calls[i].began
         /\ i \notin R => calls'[i] = calls[i]
         /\ i \in R => /\ DOMAIN calls'[i].answers = DOMAIN calls[i].answers \cup {did}
                       /\ calls'[i].answers[did] = answer
         /\ \A d \in DOMAIN calls[i].answers : calls'[i].answers[d] = calls[i].answers[d]
  BY LookupEnded
<1> HIDE DEF R
<1>6. \A i \in DOMAIN calls : \A d : d \in DOMAIN calls'[i].answers =>
         \/ d \in DOMAIN calls[i].answers /\ calls'[i].answers[d] = calls[i].answers[d]
         \/ d = did /\ i \in R /\ calls'[i].answers[d] = answer
  BY <1>5
<1>7. /\ DOMAIN inflightLookups' = DOMAIN inflightLookups \ {did}
      /\ \A d \in DOMAIN inflightLookups' : inflightLookups'[d] = inflightLookups[d]
      /\ UNCHANGED <<now, plan, live, replaced, burstPolicy, versionCache>>
  BY DEF LookupEnds
<1>8. \A k \in DOMAIN exchanges' :
         \/ exchanges'[k] = NewExchange
         \/ k \in DOMAIN exchanges /\ k # did /\ exchanges'[k] = exchanges[k]
  BY DEF LookupEnds, ReleaseSlot
<1>9. /\ Sound(live, replaced, did, answer, now - Timeout)
      /\ \A t \in Int : t <= now - Timeout => Sound(live, replaced, did, answer, t)
      /\ answer.generation \in Nat
  BY <1>2, SoundReply
<1>10. \/ answer = Unavailable /\ lookupCache' = lookupCache
       \/ answer # Unavailable /\ lookupCache' = Remember(did, answer)
  BY DEF LookupEnds
<1>11. /\ lookupCache' \in Seq(Range(lookupCache')) /\ Len(lookupCache') <= MaxCached
       /\ InAgeOrder(lookupCache')
       /\ \A e \in Range(lookupCache') :
             \/ answer # Unavailable /\ e = entry
             \/ e \in Range(lookupCache) /\ (answer # Unavailable => e.did # did)
  <2>1. CASE answer = Unavailable /\ lookupCache' = lookupCache
    BY <1>2, <2>1 DEF SoundMemo
  <2>2. CASE answer # Unavailable /\ lookupCache' = Remember(did, answer)
    BY <1>2, <2>2, Remembered
  <2> QED
    BY <1>10, <2>1, <2>2
<1>12. entry.did = did /\ entry.at = now /\ entry.answer = answer
  OBVIOUS
<1> HIDE DEF entry
<1>13. Surroundings' /\ SoundVersionCache'
  BY <1>7 DEF IInv, Surroundings, SoundVersionCache
<1>14. SoundExchanges'
  <2> SUFFICES ASSUME NEW k \in DOMAIN exchanges'
               PROVE  /\ DOMAIN exchanges'[k] = {"deadline", "reply"}
                      /\ exchanges'[k].deadline \in Nat
                      /\ exchanges'[k].deadline - Timeout <= now /\ now <= exchanges'[k].deadline
                      /\ exchanges'[k].reply # NoReply
                            => Sound(live, replaced, k, exchanges'[k].reply,
                                     exchanges'[k].deadline - Timeout)
    BY <1>7 DEF SoundExchanges
  <2>1. CASE exchanges'[k] = NewExchange
    BY <1>3, <2>1 DEF NewExchange
  <2>2. CASE k \in DOMAIN exchanges /\ exchanges'[k] = exchanges[k]
    BY <1>2, <2>2 DEF SoundExchanges
  <2> QED
    BY <1>8, <2>1, <2>2
<1>15. SoundMemo'
  <2>1. ASSUME NEW e \in Range(lookupCache')
        PROVE  /\ e.did \in Dids /\ e.at \in Nat /\ e.at <= now /\ e.answer # Unavailable
               /\ Sound(live, replaced, e.did, e.answer, e.at - Timeout)
    <3>1. CASE answer # Unavailable /\ e = entry
      BY <1>2, <1>3, <1>9, <1>12, <3>1
    <3>2. CASE e \in Range(lookupCache)
      BY <1>2, <3>2 DEF SoundMemo
    <3> QED
      BY <1>11, <3>1, <3>2
  <2> QED
    BY <1>7, <1>11, <2>1 DEF SoundMemo
<1>16. SoundCalls'
  <2>1. ASSUME NEW i \in DOMAIN calls PROVE SoundCall(calls'[i], live, replaced, now)
    <3>1. SoundCall(calls[i], live, replaced, now)
      BY <1>2 DEF SoundCalls
    <3>2. calls[i].began \in Nat /\ calls[i].began <= now
      BY <3>1 DEF SoundCall
    <3>3. /\ calls[i].began - CacheTtl - Timeout + 1 \in Int
          /\ calls[i].began - CacheTtl - Timeout + 1 <= now - Timeout
      BY ONLY <1>3, <3>2, Durations
    <3>4. Sound(live, replaced, did, answer, calls[i].began - CacheTtl - Timeout + 1)
      BY <1>9, <3>3
    <3>5. ASSUME NEW d \in DOMAIN calls'[i].answers
          PROVE  /\ d \in calls'[i].dids
                 /\ Sound(live, replaced, d, calls'[i].answers[d], calls'[i].began - CacheTtl - Timeout + 1)
      <4>1. CASE d \in DOMAIN calls[i].answers /\ calls'[i].answers[d] = calls[i].answers[d]
        BY <1>5, <3>1, <4>1 DEF SoundCall
      <4>2. CASE d = did /\ i \in R /\ calls'[i].answers[d] = answer
        BY <1>4, <1>5, <3>4, <4>2
      <4> QED
        BY <1>6, <4>1, <4>2
    <3>6. calls'[i].kind = calls[i].kind /\ calls'[i].dids = calls[i].dids /\ calls'[i].began = calls[i].began
      BY <1>5
    <3> QED
      BY <3>1, <3>5, <3>6 DEF SoundCall
  <2> QED
    BY <1>2, <1>4, <1>7, <2>1 DEF SoundCalls
<1>17. Sharing'
  <2> SUFFICES ASSUME NEW d \in DOMAIN inflightLookups'
               PROVE  /\ Hits(d)' = {}
                      /\ Increasing(inflightLookups'[d])
                      /\ \A i \in Range(inflightLookups'[d]) : calls'[i].kind # "version"
    BY DEF Sharing
  <2>1. /\ d \in DOMAIN inflightLookups /\ d # did /\ inflightLookups'[d] = inflightLookups[d]
        /\ Range(inflightLookups[d]) \subseteq DOMAIN calls
    BY <1>2, <1>7 DEF Shape
  <2>2. \A e \in Range(lookupCache') : e.did = d => e \in Range(lookupCache)
    BY <1>11, <1>12, <2>1
  <2>3. Hits(d)' = {}
    BY <1>2, <1>7, <2>1, <2>2 DEF Sharing, Hits, Fresh
  <2> QED
    BY <1>2, <1>5, <2>1, <2>3 DEF Sharing
<1>18. EarlierFirst'
  <2> SUFFICES ASSUME NEW a \in DOMAIN calls, NEW e \in DOMAIN calls, a < e, calls'[a].kind # "version",
                      NEW d \in Dids, d \in calls'[a].dids, d \in DOMAIN calls'[e].answers
               PROVE  d \in DOMAIN calls'[a].answers
    BY <1>4 DEF EarlierFirst
  <2>1. calls[a].kind # "version" /\ d \in calls[a].dids
    BY <1>5
  <2>2. DOMAIN calls[a].answers \subseteq DOMAIN calls'[a].answers
    BY <1>5
  <2>3. CASE d \in DOMAIN calls[e].answers
    BY <1>2, <2>1, <2>2, <2>3 DEF EarlierFirst
  <2>4. CASE d = did
    BY <1>4, <1>5, <2>1, <2>2, <2>4
  <2> QED
    BY <1>6, <2>3, <2>4
<1>19. ASSUME NEW a \in DOMAIN calls, NEW d \in Dids, d \in DOMAIN calls'[a].answers, answer # Unavailable, d = did
       PROVE  calls'[a].answers[d].generation <= answer.generation
  <2>1. CASE d \in DOMAIN calls[a].answers /\ calls'[a].answers[d] = calls[a].answers[d]
    <3>1. answer = exchanges[did].reply /\ answer \notin {NoReply, Unavailable}
      BY <1>19
    <3> QED
      BY <1>2, <1>19, <2>1, <3>1 DEF NewestComing, Given
  <2>2. CASE calls'[a].answers[d] = answer
    BY <1>9, <2>2
  <2> QED
    BY <1>6, <1>19, <2>1, <2>2
<1>20. NewestKept'
  <2> SUFFICES ASSUME NEW d \in Dids, NEW a \in DOMAIN calls, d \in DOMAIN calls'[a].answers,
                      NEW e \in Range(lookupCache'), e.did = d
               PROVE  calls'[a].answers[d].generation <= e.answer.generation
    BY <1>4 DEF NewestKept, Given
  <2>1. CASE answer # Unavailable /\ e = entry
    BY <1>12, <1>19, <2>1
  <2>2. CASE e \in Range(lookupCache) /\ (answer # Unavailable => e.did # did)
    <3>1. CASE d \in DOMAIN calls[a].answers /\ calls'[a].answers[d] = calls[a].answers[d]
      BY <1>2, <2>2, <3>1 DEF NewestKept, Given
    <3>2. CASE d = did /\ calls'[a].answers[d] = answer
      <4>1. answer.generation = 0
        BY <2>2, <3>2 DEF Unavailable
      <4>2. e.answer.generation \in Nat
        BY <1>2, <1>3, <2>2, Generations DEF SoundMemo
      <4> QED
        BY <3>2, <4>1, <4>2
    <3> QED
      BY <1>6, <3>1, <3>2
  <2> QED
    BY <1>11, <2>1, <2>2
<1>21. NewestComing'
  <2> SUFFICES ASSUME NEW d \in Dids, NEW a \in DOMAIN calls, d \in DOMAIN calls'[a].answers,
                      d \in DOMAIN exchanges', exchanges'[d].reply \notin {NoReply, Unavailable}
               PROVE  calls'[a].answers[d].generation <= exchanges'[d].reply.generation
    BY <1>4 DEF NewestComing, Given
  <2>1. d \in DOMAIN exchanges /\ d # did /\ exchanges'[d] = exchanges[d]
    BY <1>8 DEF NewExchange
  <2>2. d \in DOMAIN calls[a].answers /\ calls'[a].answers[d] = calls[a].answers[d]
    BY <1>6, <2>1
  <2> QED
    BY <1>2, <2>1, <2>2 DEF NewestComing, Given
<1>22. NewestGiven'
  <2> SUFFICES ASSUME NEW d \in Dids, NEW a \in DOMAIN calls, NEW e \in DOMAIN calls, a < e,
                      d \in DOMAIN calls'[a].answers, d \in DOMAIN calls'[e].answers,
                      calls'[e].answers[d] # Unavailable
               PROVE  calls'[a].answers[d].generation <= calls'[e].answers[d].generation
    BY <1>4 DEF NewestGiven, Given
  <2>1. CASE d = did /\ e \in R /\ calls'[e].answers[d] = answer
    BY <1>19, <2>1
  <2>2. CASE d \in DOMAIN calls[e].answers /\ calls'[e].answers[d] = calls[e].answers[d]
    <3>1. CASE d \in DOMAIN calls[a].answers /\ calls'[a].answers[d] = calls[a].answers[d]
      BY <1>2, <2>2, <3>1 DEF NewestGiven, Given
    <3>2. CASE d = did /\ a \in R
      <4>1. did \notin DOMAIN calls[a].answers /\ did \in calls[a].dids /\ calls[a].kind # "version"
        BY <1>4, <3>2
      <4> QED
        BY <1>2, <2>2, <3>2, <4>1 DEF EarlierFirst
    <3> QED
      BY <1>6, <3>1, <3>2
  <2> QED
    BY <1>6, <2>1, <2>2
<1>23. SnapshotIsLast'
  BY SnapshotStays
<1> QED
  BY <1>1, <1>13, <1>14, <1>15, <1>16, <1>17, <1>18, <1>20, <1>21, <1>22, <1>23 DEF IInv

LEMMA EndsStep ==
    ASSUME IInv, NEW key \in DOMAIN exchanges, NEW answer,
           answer = Unavailable \/ (answer = exchanges[key].reply /\ answer # NoReply),
           Ends(key, answer)
    PROVE  IInv'
<1>1. UNCHANGED <<now, plan, live, replaced, burstPolicy>>
  BY DEF Ends
<1>2. CASE key \in Dids
  <2>1. key \in Fetching /\ LookupEnds(key, answer)
    BY <1>2 DEF Ends, Fetching
  <2> QED
    BY <1>1, <2>1, LookupEndsStep
<1>3. CASE key \notin Dids
  <2>1. key \in DOMAIN exchanges \ Dids /\ VersionEnds(key, answer)
    BY <1>3 DEF Ends
  <2> QED
    BY <1>1, <2>1, VersionEndsStep
<1> QED
  BY <1>2, <1>3

-----------------------------------------------------------------------------
LEMMA InitIInv == Init => IInv
<1> SUFFICES ASSUME Init PROVE IInv
  OBVIOUS
<1>1. /\ now = 0 /\ plan \in Plans /\ live = 1 /\ replaced = <<>> /\ burstPolicy \in BurstPolicies
      /\ lookupCache = <<>> /\ versionCache = <<>>
      /\ inflightLookups = << >> /\ activeFetches = 0 /\ waiters = <<>>
      /\ exchanges = << >> /\ calls = <<>> /\ lastSnapshot = << >>
  BY DEF Init
<1>2. /\ DOMAIN inflightLookups = {} /\ DOMAIN exchanges = {} /\ DOMAIN calls = {} /\ Len(calls) = 0
      /\ Range(lookupCache) = {} /\ Len(lookupCache) = 0
      /\ Range(versionCache) = {} /\ Len(versionCache) = 0
  BY <1>1 DEF Range
<1>3. waiters \in Seq(Dids) /\ calls \in Seq(Range(calls)) /\ Range(waiters) = {} /\ IsInjective(waiters)
  BY <1>1 DEF Range, IsInjective
<1>4. Shape
  BY <1>1, <1>2, <1>3 DEF Shape
<1>5. Fetching = {} /\ Cardinality({}) = 0
  BY <1>2, FS_EmptySet DEF Fetching
<1>6. NothingForgotten
  BY <1>1, <1>2, <1>3, <1>5 DEF NothingForgotten
<1>7. Surroundings
  <2>1. Len(Deployments) \in Nat /\ Len(Deployments) >= 1
    BY EmptySeq, LenProperties DEF ServiceAssumption
  <2>2. replaced \in Seq(Nat) /\ Len(replaced) = 0
    BY <1>1
  <2> QED
    BY <1>1, <2>1, <2>2 DEF Surroundings
<1>8. SoundMemo
  <2>1. lookupCache \in Seq(Range(lookupCache)) /\ InAgeOrder(lookupCache)
    BY <1>1 DEF InAgeOrder, Range
  <2> QED
    BY <1>2, <2>1 DEF SoundMemo
<1>9. SoundExchanges /\ SoundVersionCache /\ Sharing /\ EarlierFirst /\ NewestKept /\ NewestComing /\ NewestGiven
  BY <1>2 DEF SoundExchanges, SoundVersionCache, Sharing, EarlierFirst, NewestKept, NewestComing, NewestGiven
<1>10. SoundCalls
  <2>1. Len(plan) \in Nat
    BY <1>1, LenProperties DEF ServiceAssumption
  <2> QED
    BY <1>2, <2>1 DEF SoundCalls
<1>11. SnapshotIsLast
  BY <1>1, <1>2 DEF SnapshotIsLast
<1> QED
  BY <1>4, <1>6, <1>7, <1>8, <1>9, <1>10, <1>11 DEF IInv, Matching

LEMMA StepsKeep == IInv /\ [Next]_vars => IInv'
<1> SUFFICES ASSUME IInv, [Next]_vars PROVE IInv'
  OBVIOUS
<1>1. CASE Candidates
  BY <1>1, BeginStep DEF Candidates
<1>2. ASSUME NEW did \in Dids, Facts(did) PROVE IInv'
  <2>1. BeginLookups("facts", {did}) /\ {did} \in SUBSET Dids
    BY <1>2 DEF Facts
  <2> QED
    BY <2>1, BeginStep
<1>3. CASE Version
  BY <1>3, VersionStep
<1>4. ASSUME NEW key \in DOMAIN exchanges, Serve(key) PROVE IInv'
  BY <1>4, ServeStep
<1>5. ASSUME NEW key \in DOMAIN exchanges, Receive(key) PROVE IInv'
  BY <1>5, EndsStep DEF Receive
<1>6. ASSUME NEW key \in DOMAIN exchanges, Breaks(key) PROVE IInv'
  BY <1>6, EndsStep DEF Breaks
<1>7. ASSUME NEW key \in DOMAIN exchanges, TimesOut(key) PROVE IInv'
  BY <1>7, EndsStep DEF TimesOut
<1>8. CASE Redeploy
  BY <1>8, RedeployStep
<1>9. CASE Tick
  BY <1>9, TickStep
<1>10. CASE UNCHANGED vars
  <2>1. UNCHANGED <<now, plan, live, replaced, burstPolicy, lookupCache, versionCache, inflightLookups,
                    activeFetches, waiters, exchanges, calls, lastSnapshot>>
    BY <1>10 DEF vars
  <2>2. Matching'
    BY <2>1, OthersKeep DEF IInv
  <2>3. Surroundings' /\ SoundExchanges' /\ SoundMemo' /\ SoundVersionCache' /\ SoundCalls'
    BY <2>1 DEF IInv, Surroundings, SoundExchanges, SoundMemo, SoundVersionCache, SoundCalls
  <2>4. Sharing' /\ EarlierFirst' /\ NewestKept' /\ NewestComing' /\ NewestGiven'
    BY <2>1 DEF IInv, Sharing, Hits, Fresh, EarlierFirst, NewestKept, NewestComing, NewestGiven, Given
  <2>5. SnapshotIsLast'
    BY <2>1 DEF IInv, SnapshotIsLast
  <2> QED
    BY <2>2, <2>3, <2>4, <2>5 DEF IInv
<1> QED
  BY <1>1, <1>2, <1>3, <1>4, <1>5, <1>6, <1>7, <1>8, <1>9, <1>10 DEF Next

\* The whole invariant, for later proofs about the provider.
THEOREM Invariance == Spec => []IInv
BY InitIInv, StepsKeep, PTL DEF Spec

\* Whatever calls, network, clock and deployments do: the slots in use are
\* the lookups that have an exchange, nobody waits while a slot is free, and
\* a call that lacks an answer is among those the lookup will answer.
\* About acquireSlot, releaseSlot and inflightLookups of provider.ts.
THEOREM NothingIsForgotten == Spec => []NothingForgotten
<1>1. IInv => NothingForgotten
  BY DEF IInv, Matching
<1> QED
  BY <1>1, Invariance, PTL

\* The snapshot lists bound DIDs only: it is the list of a call.
LEMMA SnapshotOfDids ==
    ASSUME IInv
    PROVE  DOMAIN lastSnapshot \subseteq Dids
<1> DEFINE lists == {c \in DOMAIN calls : Listed(calls[c])}
<1>1. SnapshotIsLast /\ SoundCalls /\ Shape
  BY DEF IInv, Matching
<1>2. CASE lists = {}
  <2>1. lastSnapshot = << >>
    BY <1>1, <1>2 DEF SnapshotIsLast
  <2> QED
    BY <2>1
<1>3. CASE lists # {}
  <2>1. lists \subseteq Int /\ IsFiniteSet(lists)
    <3>1. DOMAIN calls = 1..Len(calls) /\ Len(calls) \in Nat
      BY <1>1, LenProperties DEF Shape
    <3>2. lists \subseteq 1..Len(calls) /\ IsFiniteSet(1..Len(calls))
      BY <3>1, FS_Interval
    <3> QED
      BY <3>2, FS_Subset
  <2>2. PICK m \in lists : \A x \in lists : x <= m
    BY <1>3, <2>1, LargestExists
  <2>3. lastSnapshot = ListUnder(burstPolicy, calls[m])
    BY <1>1, <2>2 DEF SnapshotIsLast
  <2>4. calls[m].dids = Dids
    BY <1>1, <2>2 DEF SoundCalls, SoundCall, Listed
  <2> QED
    BY <2>3, <2>4 DEF ListUnder
<1> QED
  BY <1>2, <1>3

\* No exchange is of anything but a bound DID or a call that was planned.
LEMMA ExchangesOfKeys ==
    ASSUME IInv
    PROVE  DOMAIN exchanges \subseteq Keys
<1> SUFFICES ASSUME NEW k \in DOMAIN exchanges, k \notin Dids PROVE \E p \in Plans : k \in DOMAIN p
  BY DEF Keys
<1>1. k \in DOMAIN calls /\ calls \in Seq(Range(calls))
  BY DEF IInv, Matching, Shape
<1>2. plan \in Plans /\ plan \in Seq(Range(plan)) /\ Len(calls) <= Len(plan)
  BY DEF IInv, Surroundings, SoundCalls, ServiceAssumption
<1>3. k \in 1..Len(calls) /\ Len(calls) \in Nat /\ Len(plan) \in Nat /\ DOMAIN plan = 1..Len(plan)
  BY <1>1, <1>2, LenProperties
<1>4. k \in DOMAIN plan
  BY <1>2, <1>3
<1> QED
  BY <1>2, <1>4

\* Every variable keeps its type: the memo and the slots stay within
\* MAX_CACHED_LOOKUPS and the concurrency, and only bound DIDs are looked
\* up.  About the state of OpenAgentSearchLedgerSource in provider.ts.
THEOREM WellTyped == Spec => []TypeOK
<1>1. IInv => TypeOK
  <2> SUFFICES ASSUME IInv PROVE TypeOK
    OBVIOUS
  <2>1. now \in Nat /\ plan \in Plans /\ Len(replaced) = live - 1 /\ burstPolicy \in {"annotate", "exclude"}
    BY DEF IInv, Surroundings, ServiceAssumption
  <2>2. live \in DOMAIN Deployments
    BY LenProperties DEF IInv, Surroundings, ServiceAssumption
  <2>3. Len(lookupCache) <= MaxCached /\ Len(versionCache) <= 1
    BY DEF IInv, SoundMemo, SoundVersionCache
  <2>4. waiters \in Seq(Dids) /\ activeFetches \in 0..Slots
    BY DEF IInv, Matching, Shape
  <2>5. DOMAIN inflightLookups \subseteq Dids
    <3>1. Range(waiters) \subseteq Dids
      BY <2>4, LenProperties DEF Range
    <3> QED
      BY <3>1 DEF IInv, Matching, NothingForgotten, Fetching
  <2>6. \A c \in DOMAIN calls : DOMAIN calls[c].answers \subseteq calls[c].dids
    BY DEF IInv, SoundCalls, SoundCall
  <2> QED
    BY <2>1, <2>2, <2>3, <2>4, <2>5, <2>6, SnapshotOfDids, ExchangesOfKeys DEF TypeOK
<1> QED
  BY <1>1, Invariance, PTL

\* No call is given an answer of a deployment that had been replaced for
\* longer, when the call was made, than the memo keeps an answer and an
\* exchange may take, and the memo evicts the oldest answer.
\* About lookup, version and remember of provider.ts.
THEOREM AnswersStayFresh == Spec => []AnswersAreFresh
<1>1. IInv => AnswersAreFresh
  <2> SUFFICES ASSUME IInv PROVE AnswersAreFresh
    OBVIOUS
  <2>1. live \in Nat /\ replaced \in Seq(Nat) /\ Len(replaced) = live - 1
    BY DEF IInv, Surroundings
  <2>2. ASSUME NEW c \in DOMAIN calls, NEW k \in DOMAIN calls[c].answers,
               calls[c].answers[k] # Unavailable
        PROVE  /\ LateEnough(calls[c], calls[c].answers[k])
               /\ k \in Dids => calls[c].answers[k].value = Deployments[calls[c].answers[k].generation][k]
    <3> DEFINE answer == calls[c].answers[k]
               t == calls[c].began - CacheTtl - Timeout
    <3>1. calls[c].began \in Nat /\ Sound(live, replaced, k, answer, calls[c].began - CacheTtl - Timeout + 1)
      BY DEF IInv, SoundCalls, SoundCall
    <3>2. t \in Int
      BY <3>1 DEF ServiceAssumption
    <3> HIDE DEF t
    <3>3. /\ answer.generation \in 1..live
          /\ answer.generation < live => replaced[answer.generation] >= t + 1
          /\ k \in Dids => answer.value = Deployments[answer.generation][k]
      BY <2>2, <3>1 DEF Sound, t
    <3> HIDE DEF answer
    <3>4. ASSUME answer.generation <= Len(replaced) PROVE replaced[answer.generation] > t
      <4>1. answer.generation < live /\ answer.generation \in 1..Len(replaced)
        BY <2>1, <3>3, <3>4
      <4>2. replaced[answer.generation] \in Nat
        BY <2>1, <4>1, ElementOfSeq
      <4> QED
        BY <3>2, <3>3, <4>1, <4>2
    <3> QED
      BY <3>3, <3>4 DEF LateEnough, t, answer
  <2>3. ASSUME NEW i \in 2..Len(lookupCache) PROVE lookupCache[i - 1].at <= lookupCache[i].at
    <3>1. Len(lookupCache) \in Nat /\ InAgeOrder(lookupCache)
      BY LenProperties DEF IInv, SoundMemo
    <3>2. i - 1 \in 1..Len(lookupCache) /\ i \in 1..Len(lookupCache) /\ i - 1 < i
      BY <3>1
    <3> QED
      BY <3>1, <3>2 DEF InAgeOrder
  <2> QED
    BY <2>2, <2>3 DEF AnswersAreFresh
<1> QED
  BY <1>1, Invariance, PTL

\* What is asked later is not answered from an older ledger, candidates()
\* calls are completed in the order in which they were made, and the
\* snapshot is the list of the last one that succeeded.
\* About the sharing of lookups in flight and lastSnapshot of provider.ts.
THEOREM LaterAnswersAreNotOlder == Spec => []LaterIsNotOlder
<1>1. IInv => LaterIsNotOlder
  <2> SUFFICES ASSUME IInv PROVE LaterIsNotOlder
    OBVIOUS
  <2> DEFINE lists == {c \in CandidatesCalls : Succeeds(calls[c])}
  <2>1. /\ EarlierFirst /\ NewestGiven /\ SnapshotIsLast /\ SoundCalls
        /\ DOMAIN calls = 1..Len(calls) /\ Len(calls) \in Nat
    BY LenProperties DEF IInv, Matching, Shape
  <2>2. \A c \in DOMAIN calls, e \in DOMAIN calls : c < e =>
           \A d \in Dids \cap DOMAIN calls[c].answers \cap DOMAIN calls[e].answers :
              calls[e].answers[d] # Unavailable =>
                 calls[c].answers[d].generation <= calls[e].answers[d].generation
    BY <2>1 DEF NewestGiven, Given
  <2>3. ASSUME NEW c \in CandidatesCalls, NEW e \in CandidatesCalls, c < e, ~Pending(calls[e])
        PROVE  ~Pending(calls[c])
    <3>1. /\ c \in DOMAIN calls /\ calls[c].kind = "candidates"
          /\ e \in DOMAIN calls /\ calls[e].kind = "candidates"
      BY DEF CandidatesCalls
    <3>2. /\ calls[c].dids = Dids /\ DOMAIN calls[c].answers \subseteq Dids
          /\ calls[e].dids = Dids
      BY <2>1, <3>1 DEF SoundCalls, SoundCall
    <3>3. DOMAIN calls[e].answers = Dids
      BY <2>3, <3>2 DEF Pending
    <3>4. \A d \in Dids : d \in DOMAIN calls[c].answers
      BY <2>1, <2>3, <3>1, <3>2, <3>3 DEF EarlierFirst
    <3> QED
      BY <3>2, <3>4 DEF Pending
  <2>4. lists = {c \in DOMAIN calls : Listed(calls[c])}
    BY DEF CandidatesCalls, Listed
  <2>5. lastSnapshot = IF lists = {} THEN << >> ELSE Emitted(calls[Max(lists)])
    <3>1. CASE lists = {}
      BY <2>1, <2>4, <3>1 DEF SnapshotIsLast
    <3>2. CASE lists # {}
      <4>1. lists \subseteq Int /\ IsFiniteSet(lists)
        <5>1. lists \subseteq 1..Len(calls) /\ IsFiniteSet(1..Len(calls))
          BY <2>1, <2>4, FS_Interval
        <5> QED
          BY <5>1, FS_Subset
      <4> HIDE DEF lists
      <4>2. Max(lists) \in lists /\ \A x \in lists : x <= Max(lists)
        BY <3>2, <4>1, MaxIsLargest
      <4>3. lastSnapshot = ListUnder(burstPolicy, calls[Max(lists)])
        BY <2>1, <2>4, <4>2 DEF SnapshotIsLast
      <4>4. \A call : Emitted(call) = ListUnder(burstPolicy, call)
        BY DEF Emitted, ListUnder
      <4> QED
        BY <3>2, <4>3, <4>4
    <3> QED
      BY <3>1, <3>2
  <2> QED
    BY <2>2, <2>3, <2>5 DEF LaterIsNotOlder
<1> QED
  BY <1>1, Invariance, PTL
=============================================================================
