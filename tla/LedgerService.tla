---------------------------- MODULE LedgerService ----------------------------
(***************************************************************************)
(* The session-router provider against the public worker: the lookups of   *)
(* OpenAgentSearchLedgerSource (provider.ts) with their memo, the shared   *)
(* lookups in flight and the slots, the bounded exchange of http.ts, the   *)
(* candidates() calls built on it, and a worker that answers from the      *)
(* ledger bundled with its deployment, which is replaced meanwhile.        *)
(*                                                                         *)
(* JavaScript runs one macrotask at a time: what the end of an exchange    *)
(* sets off (the memo, the slot, the table in flight, the callers and the  *)
(* calls they complete) is promise reactions of that macrotask, run in     *)
(* the order they were registered, and is one step here.                   *)
(***************************************************************************)
EXTENDS Integers, Sequences, FiniteSets, SequencesExt, FiniteSetsExt, Selection

CONSTANTS
    Bindings,             \* the bound DIDs, in the order of the bindings
    Healthz,              \* what version() asks for: not a DID
    Slots,                \* concurrency; of a fraction, its ceiling
    CacheTtl, Timeout,    \* cacheTtlMs and timeoutMs
    MaxCached,            \* MAX_CACHED_LOOKUPS
    Deployments,          \* one after the other: DID -> "known", "burst" or "unknown",
    NotBuilt,             \* or a worker whose ledger was not built
    BurstPolicies,        \* burstPolicy: "annotate" or "exclude"
    Plans,                \* bound of the model: the calls that are made, in their order:
                          \* [kind, dids], kind "candidates", "facts" or "version"
    MaxTime               \* bound of the model

Dids == Range(Bindings)

ASSUME ServiceAssumption ==
    /\ Bindings \in Seq(Dids) /\ IsInjective(Bindings) /\ Healthz \notin Dids
    /\ Slots \in Nat \ {0} /\ CacheTtl \in Nat \ {0} /\ Timeout \in Nat \ {0}
    /\ MaxCached \in Nat \ {0} /\ MaxTime \in Nat
    /\ BurstPolicies \subseteq {"annotate", "exclude"}
    /\ Dids \cap Nat = {}           \* version() calls are numbers
    /\ Deployments \in Seq(Range(Deployments)) /\ Deployments # <<>>
    /\ \A p \in Plans : p \in Seq(Range(p))

VARIABLES
    now,
    plan,                 \* the calls that will be made
    live,                 \* the deployment that answers
    replaced,             \* ghost: when each earlier deployment was replaced
    burstPolicy,
    lookupCache,          \* the memo, in the order of its Map: [did, at, answer]
    versionCache,         \* at most one of [at, answer]
    inflightLookups,      \* DID -> the calls that share the lookup, oldest first
    activeFetches,
    waiters,              \* the DIDs whose lookup waits for a slot
    exchanges,            \* DID or version() call -> [deadline, reply]
    calls,                \* every call: [kind, dids, began, answers]
    lastSnapshot          \* DID -> the generation its candidate was annotated with

vars == <<now, plan, live, replaced, burstPolicy, lookupCache, versionCache, inflightLookups,
          activeFetches, waiters, exchanges, calls, lastSnapshot>>

Unavailable == [value |-> "unavailable", generation |-> 0]
NoReply == [value |-> "none", generation |-> 0]

Init ==
    /\ now = 0 /\ plan \in Plans /\ live = 1 /\ replaced = <<>>
    /\ burstPolicy \in BurstPolicies
    /\ lookupCache = <<>> /\ versionCache = <<>>
    /\ inflightLookups = << >> /\ activeFetches = 0 /\ waiters = <<>>
    /\ exchanges = << >> /\ calls = <<>> /\ lastSnapshot = << >>

----------------------------------------------------------------------------
(* Memo, slots and calls.                                                  *)

\* An answer stays fresh for one tick more.
FreshOneMore(entry) == now - entry.at <= CacheTtl
Fresh(entry) == now - entry.at < CacheTtl

\* An expired answer is used while its lookup is being repeated.
HitsWhileRevalidating(did) ==
    {e \in Range(lookupCache) : e.did = did /\ (Fresh(e) \/ did \in DOMAIN inflightLookups)}
Hits(did) == {e \in Range(lookupCache) : e.did = did /\ Fresh(e)}

Remember(did, answer) ==
    LET others == Kept(lookupCache, {e \in Range(lookupCache) : e.did # did})
    IN  Append(IF Len(others) >= MaxCached THEN Tail(others) ELSE others,
               [did |-> did, at |-> now, answer |-> answer])

\* acquireSlot with <= for <: one lookup too many.
FreeSlotsOneMore == Max({0, Slots + 1 - activeFetches})
FreeSlots == Max({0, Slots - activeFetches})

NewExchange == [deadline |-> now + Timeout, reply |-> NoReply]
Opened(keys) == [k \in DOMAIN exchanges \cup keys |->
                   IF k \in keys THEN NewExchange ELSE exchanges[k]]

Pending(call) == DOMAIN call.answers # call.dids
Answered(call, did, answer) ==
    [call EXCEPT !.answers = [d \in DOMAIN @ \cup {did} |-> IF d = did THEN answer ELSE @[d]]]

\* candidates(): one failure fails the call, and it leaves the snapshot as
\* it is, whether it throws or gives an empty list (onUnavailable).
Succeeds(call) == ~Pending(call) /\ \A d \in call.dids : call.answers[d] # Unavailable
Emitted(call) ==
    LET listed == {d \in call.dids : \/ call.answers[d].value = "known"
                                     \/ call.answers[d].value = "burst" /\ burstPolicy = "annotate"}
    IN  [d \in listed |-> call.answers[d].generation]

\* The last of these calls to be completed sets the snapshot.
SnapshotAfter(ended) ==
    LET lists == Kept(ended, {c \in Range(ended) : c.kind = "candidates" /\ Succeeds(c)})
    IN  IF lists = <<>> THEN lastSnapshot ELSE Emitted(Last(lists))

----------------------------------------------------------------------------
(* The calls.  candidates() looks up every bound DID, in order, before it  *)
(* awaits; facts() looks up one.                                           *)

\* dids in the order of the bindings.
Position(did) == CHOOSE i \in DOMAIN Bindings : Bindings[i] = did
InOrder(dids) ==
    {s \in [1..Cardinality(dids) -> dids] :
       \A i \in DOMAIN s, j \in DOMAIN s : i < j => Position(s[i]) < Position(s[j])}

Called(kind, dids) ==
    Len(calls) < Len(plan) /\ plan[Len(calls) + 1] = [kind |-> kind, dids |-> dids]

BeginLookups(kind, dids) ==
    /\ Called(kind, dids)
    /\ LET c == Len(calls) + 1
           cached == {d \in dids : Hits(d) # {}}
           joined == (dids \ cached) \cap DOMAIN inflightLookups
           call == [kind |-> kind, dids |-> dids, began |-> now,
                    answers |-> [d \in cached |-> (CHOOSE e \in Hits(d) : TRUE).answer]]
       IN  \E missing \in InOrder(dids \ (cached \cup joined)) :
           LET free == Min({Len(missing), FreeSlots}) IN
           /\ calls' = Append(calls, call)
           /\ inflightLookups' = [d \in DOMAIN inflightLookups \cup Range(missing) |->
                 IF d \in Range(missing) THEN <<c>>
                 ELSE IF d \in joined THEN Append(inflightLookups[d], c)
                 ELSE inflightLookups[d]]
           /\ activeFetches' = activeFetches + free
           /\ exchanges' = Opened(Range(SubSeq(missing, 1, free)))
           /\ waiters' = waiters \o SubSeq(missing, free + 1, Len(missing))
           /\ lastSnapshot' = SnapshotAfter(<<call>>)
    /\ UNCHANGED <<now, plan, live, replaced, burstPolicy, lookupCache, versionCache>>

Candidates == BeginLookups("candidates", Dids)
Facts(did) == BeginLookups("facts", {did})

\* version(): no slot, and nothing is shared.
Version ==
    /\ Called("version", {Healthz})
    /\ LET c == Len(calls) + 1
           hit == {e \in Range(versionCache) : Fresh(e)}
           call == [kind |-> "version", dids |-> {Healthz}, began |-> now,
                    answers |-> [k \in {h \in {Healthz} : hit # {}} |->
                                   (CHOOSE e \in hit : TRUE).answer]]
       IN  /\ calls' = Append(calls, call)
           /\ exchanges' = IF hit = {} THEN Opened({c}) ELSE exchanges
    /\ UNCHANGED <<now, plan, live, replaced, burstPolicy, lookupCache, versionCache, inflightLookups,
                   activeFetches, waiters, lastSnapshot>>

----------------------------------------------------------------------------
(* The worker.  /did/ asks the rate limiter first, /healthz does not; the  *)
(* answer is that of the deployment that is live, and a ledger fitted to   *)
(* its size does not know the DIDs it leaves out.                          *)

LookupDid(did) ==
    IF Deployments[live] = NotBuilt
      THEN Unavailable
      ELSE [value |-> Deployments[live][did], generation |-> live]

HealthzBody ==
    IF Deployments[live] = NotBuilt THEN Unavailable ELSE [value |-> "version", generation |-> live]

Replies(key) == IF key \in Dids THEN {LookupDid(key), Unavailable} ELSE {HealthzBody}

Serve(key) ==
    /\ exchanges[key].reply = NoReply
    /\ \E reply \in Replies(key) : exchanges' = [exchanges EXCEPT ![key].reply = reply]
    /\ UNCHANGED <<now, plan, live, replaced, burstPolicy, lookupCache, versionCache, inflightLookups,
                   activeFetches, waiters, calls, lastSnapshot>>

Redeploy ==
    /\ live < Len(Deployments)
    /\ live' = live + 1
    /\ replaced' = Append(replaced, now)
    /\ UNCHANGED <<now, plan, burstPolicy, lookupCache, versionCache, inflightLookups, activeFetches,
                   waiters, exchanges, calls, lastSnapshot>>

----------------------------------------------------------------------------
(* The end of an exchange.                                                 *)

\* A slot that is given back, and the waiter left where it is.
ReleaseSlotForgets(did) ==
    /\ activeFetches' = activeFetches - 1
    /\ waiters' = waiters
    /\ exchanges' = [k \in DOMAIN exchanges \ {did} |-> exchanges[k]]

\* The slot of a lookup that ended goes to the oldest waiter.
ReleaseSlot(did) ==
    LET next == IF waiters = <<>> THEN {} ELSE {Head(waiters)}
    IN  /\ activeFetches' = activeFetches - 1 + Cardinality(next)
        /\ waiters' = IF waiters = <<>> THEN waiters ELSE Tail(waiters)
        /\ exchanges' = [k \in (DOMAIN exchanges \ {did}) \cup next |->
                           IF k \in next THEN NewExchange ELSE exchanges[k]]

LookupEnds(did, answer) ==
    LET sharers == inflightLookups[did]
    IN  /\ lookupCache' = IF answer = Unavailable THEN lookupCache ELSE Remember(did, answer)
        /\ ReleaseSlot(did)
        /\ inflightLookups' = [d \in DOMAIN inflightLookups \ {did} |-> inflightLookups[d]]
        /\ calls' = [c \in DOMAIN calls |-> IF c \in Range(sharers)
                                              THEN Answered(calls[c], did, answer) ELSE calls[c]]
        /\ lastSnapshot' = SnapshotAfter([i \in DOMAIN sharers |-> calls'[sharers[i]]])
        /\ UNCHANGED versionCache

VersionEnds(c, answer) ==
    /\ versionCache' = IF answer = Unavailable THEN versionCache ELSE <<[at |-> now, answer |-> answer]>>
    /\ exchanges' = [k \in DOMAIN exchanges \ {c} |-> exchanges[k]]
    /\ calls' = [calls EXCEPT ![c] = Answered(@, Healthz, answer)]
    /\ UNCHANGED <<lookupCache, inflightLookups, activeFetches, waiters, lastSnapshot>>

Ends(key, answer) ==
    /\ IF key \in Dids THEN LookupEnds(key, answer) ELSE VersionEnds(key, answer)
    /\ UNCHANGED <<now, plan, live, replaced, burstPolicy>>

Receive(key) == exchanges[key].reply # NoReply /\ Ends(key, exchanges[key].reply)

\* A network error, a redirect, or a body that is too large or no JSON.
Breaks(key) == Ends(key, Unavailable)

\* The deadline is over headers and body: it is the same before and after
\* the reply has begun to come.
TimesOutOnHeaders(key) ==
    /\ now >= exchanges[key].deadline /\ exchanges[key].reply = NoReply
    /\ Ends(key, Unavailable)
TimesOut(key) == now >= exchanges[key].deadline /\ Ends(key, Unavailable)

\* An event loop that is not blocked runs its timers when they are due.
Tick ==
    /\ now < MaxTime \/ DOMAIN exchanges # {}
    /\ \A k \in DOMAIN exchanges : now < exchanges[k].deadline
    /\ now' = now + 1
    /\ UNCHANGED <<plan, live, replaced, burstPolicy, lookupCache, versionCache, inflightLookups,
                   activeFetches, waiters, exchanges, calls, lastSnapshot>>

Next ==
    \/ Candidates \/ \E did \in Dids : Facts(did)
    \/ Version
    \/ \E key \in DOMAIN exchanges : Serve(key) \/ Receive(key) \/ Breaks(key) \/ TimesOut(key)
    \/ Redeploy \/ Tick

Keys == Dids \cup UNION {DOMAIN p : p \in Plans}
Expire(key) == key \in DOMAIN exchanges /\ TimesOut(key)

\* Nothing is fair but the clock and the timers.
Spec == Init /\ [][Next]_vars /\ WF_vars(Tick) /\ \A key \in Keys : WF_vars(Expire(key))

----------------------------------------------------------------------------
(* Properties.                                                             *)

TypeOK ==
    /\ now \in Nat /\ plan \in Plans /\ live \in DOMAIN Deployments /\ Len(replaced) = live - 1
    /\ burstPolicy \in {"annotate", "exclude"}
    /\ Len(lookupCache) <= MaxCached /\ Len(versionCache) <= 1
    /\ DOMAIN inflightLookups \subseteq Dids /\ DOMAIN exchanges \subseteq Keys
    /\ activeFetches \in 0..Slots /\ waiters \in Seq(Dids)
    /\ \A c \in DOMAIN calls : DOMAIN calls[c].answers \subseteq calls[c].dids
    /\ DOMAIN lastSnapshot \subseteq Dids

\* Nothing that waits is forgotten and nothing is counted twice: the slots
\* in use are the lookups that have an exchange; nobody waits while a slot
\* is free; every lookup in flight has an exchange or waits once, never
\* both; and each call that lacks an answer shares exactly the lookups that
\* will give it.  About acquireSlot, releaseSlot and inflightLookups.
Fetching == Dids \cap DOMAIN exchanges

NothingForgotten ==
    /\ activeFetches = Cardinality(Fetching)
    /\ waiters # <<>> => activeFetches = Slots
    /\ IsInjective(waiters) /\ Range(waiters) \cap Fetching = {}
    /\ DOMAIN inflightLookups = Range(waiters) \cup Fetching
    /\ \A c \in DOMAIN calls : calls[c].kind # "version" =>
          calls[c].dids \ DOMAIN calls[c].answers
             = {d \in DOMAIN inflightLookups : c \in Range(inflightLookups[d])}

\* No call is given an answer that had been out of date for longer, when it
\* was made, than the memo keeps an answer and an exchange may take: the
\* deployment it comes from was in place later than that.  The memo evicts
\* the answer that came first.  About lookup, version and remember.
LateEnough(call, answer) ==
    answer.generation <= Len(replaced) =>
       replaced[answer.generation] > call.began - CacheTtl - Timeout

AnswersAreFresh ==
    /\ \A c \in DOMAIN calls : \A k \in DOMAIN calls[c].answers :
          LET answer == calls[c].answers[k]
          IN  answer # Unavailable =>
                /\ LateEnough(calls[c], answer)
                /\ k \in Dids => answer.value = Deployments[answer.generation][k]
    /\ \A i \in 2..Len(lookupCache) : lookupCache[i - 1].at <= lookupCache[i].at

\* What is asked later is not answered from an older ledger: of two calls
\* the later one is given no older generation of a DID; candidates() calls
\* end in the order they were made, so that the snapshot is the list of the
\* last one that succeeded.  About the sharing of lookups in flight.
CandidatesCalls == {c \in DOMAIN calls : calls[c].kind = "candidates"}

LaterIsNotOlder ==
    /\ \A c \in DOMAIN calls, e \in DOMAIN calls : c < e =>
          \A d \in Dids \cap DOMAIN calls[c].answers \cap DOMAIN calls[e].answers :
             calls[e].answers[d] # Unavailable =>
                calls[c].answers[d].generation <= calls[e].answers[d].generation
    /\ \A c \in CandidatesCalls, e \in CandidatesCalls :
          (c < e /\ ~Pending(calls[e])) => ~Pending(calls[c])
    /\ LET lists == {c \in CandidatesCalls : Succeeds(calls[c])}
       IN  lastSnapshot = IF lists = {} THEN << >> ELSE Emitted(calls[Max(lists)])

\* Every call ends, whatever the network does: the deadline ends each
\* exchange, and its slot goes on to a lookup that waits.
CallsEnd ==
    \A c \in Keys \ Dids :
       (c \in DOMAIN calls /\ Pending(calls[c])) ~> (c \in DOMAIN calls /\ ~Pending(calls[c]))
=============================================================================
