--------------------------- MODULE CrawlLoopProofs ---------------------------
(***************************************************************************)
(* Theorems about CrawlLoop for any pages, links, hosts, page caps,        *)
(* checkpoint interval and number of invocations.                          *)
(*                                                                         *)
(* The state file is only as good as what the process writes to it, and a  *)
(* resumed process only as good as the file it read: IInv says of both     *)
(* that they know where every page is, and how far the file may be behind. *)
(***************************************************************************)
EXTENDS CrawlLoop, SequenceLemmas

(* Counting up to the next checkpoint. *)
LEMMA OneMoreAttempt ==
    ASSUME NEW a \in Nat, NEW n \in Nat, n > 0
    PROVE  /\ a % n \in 0 .. n - 1
           /\ (a + 1) % n \in 0 .. n - 1
           /\ (a + 1) % n # 0 => (a + 1) % n = (a % n) + 1
<1> DEFINE p == a \div n
           q == (a + 1) \div n
           r == a % n
           s == (a + 1) % n
<1>1. p \in Int /\ r \in 0 .. n - 1 /\ a = (n * p) + r
  OBVIOUS
<1>2. q \in Int /\ s \in 0 .. n - 1 /\ a + 1 = (n * q) + s
  OBVIOUS
<1> HIDE DEF p, q, r, s
<1>3. CASE q >= p + 1
  <2>1. n * q >= n * (p + 1) /\ n * (p + 1) = (n * p) + n
    BY <1>1, <1>2, <1>3
  <2>2. n * q \in Int /\ n * p \in Int
    BY <1>1, <1>2
  <2>3. s = 0
    BY <1>1, <1>2, <2>1, <2>2
  <2> QED
    BY <1>1, <1>2, <2>3 DEF r, s
<1>4. CASE q <= p - 1
  <2>1. n * q <= n * (p - 1) /\ n * (p - 1) = (n * p) - n
    BY <1>1, <1>2, <1>4
  <2>2. n * q \in Int /\ n * p \in Int
    BY <1>1, <1>2
  <2> QED
    BY <1>1, <1>2, <2>1, <2>2
<1>5. CASE q = p
  <2>1. s = r + 1
    BY <1>1, <1>2, <1>5
  <2> QED
    BY <1>1, <1>2, <2>1 DEF r, s
<1> QED
  BY <1>1, <1>2, <1>3, <1>4, <1>5

USE CrawlAssumption

InHand == {url} \ {NoPage}

(* What a progress owes the crawl, when the pages of `hand` are on no list of
   it: it came of an earlier fresh start, queues allowed pages only, and knows
   where every page is that it has heard of. *)
Whole(progress, hand) ==
    /\ progress.origin <= starts
    /\ ToSet(progress.frontier) \cup hand \subseteq Allowed
    /\ Known(progress) \subseteq
          ToSet(progress.frontier) \cup progress.visited \cup progress.dropped \cup hand

SavedIsWhole ==
    \A s \in saved :
        /\ Whole(s, {})
        /\ \A h \in Hosts : \E cap \in Caps : s.fetched[h] <= cap
        /\ \A t \in saved : s = t

RunIsWhole ==
    phase # "off" =>
        /\ Whole(crawl, InHand)
        /\ url = NoPage <=> phase = "loop"
        /\ url \notin frontierSet
        /\ reason = "none"

(* What was saved of this crawl, the process still has. *)
Keeps(s, t, hand) ==
    /\ s.visited \subseteq t.visited
    /\ \A h \in Hosts : s.fetched[h] <= t.fetched[h]
    /\ ToSet(s.frontier) \subseteq ToSet(t.frontier) \cup t.visited \cup t.dropped \cup hand

SavedIsKept ==
    phase # "off" => \A s \in saved : s.origin = crawl.origin => Keeps(s, crawl, InHand)

(* The pages put back since the last ingest() are at the end of the frontier,
   and are still stuck. *)
StuckAtEnd ==
    phase = "loop" =>
        \A i \in 1 .. Len(crawl.frontier) :
            i > Len(crawl.frontier) - stall => HostOf[crawl.frontier[i]] \notin Open

(* A marker that a resumed run has is of a host whose budget it has spent. *)
MarkersEarned ==
    crawl.origin # starts => \A h \in markers : counter[h] >= budget[h]

InFlight(h) == IF phase = "allowed" /\ HostOf[url] = h THEN 1 ELSE 0
Left(h) == IF budget[h] > counter[h] THEN budget[h] - counter[h] ELSE 0

(* The GETs on record, the one under way and those still allowed are within
   some invocation's max_pages. *)
BudgetHolds ==
    phase # "off" =>
        \A h \in Hosts : \E cap \in Caps : crawl.fetched[h] + InFlight(h) + Left(h) <= cap

(* The GETs not on record: those of runs that crashed, the one under way, and,
   as long as the state file is old, those since the last checkpoint. *)
GetsAreCounted ==
    CheckpointEvery > 0 =>
        \A h \in Hosts :
            IF phase = "off"
            THEN \A s \in saved : gets[h] <= s.fetched[h] + lost
            ELSE /\ gets[h] <= crawl.fetched[h] + InFlight(h) + lost
                 /\ \A s \in saved :
                       gets[h] <= s.fetched[h] + lost
                                    + (crawl.attempted % CheckpointEvery) + InFlight(h)

IInv ==
    /\ TypeOK
    /\ FrontierConsistent
    /\ SavedIsWhole
    /\ RunIsWhole
    /\ SavedIsKept
    /\ StuckAtEnd
    /\ MarkersEarned
    /\ BudgetHolds
    /\ GetsAreCounted
    /\ BudgetAcrossRuns
    /\ StopIsJustified

-----------------------------------------------------------------------------
(* SeedFrontier, seed by seed. *)
AreQueued(queued, seeds, visited) ==
    /\ queued \in [0 .. Len(seeds) -> Seq(Pages)]
    /\ queued[0] = <<>>
    /\ \A i \in 1 .. Len(seeds) :
          queued[i] = IF seeds[i] \in Allowed \ (visited \cup ToSet(queued[i - 1]))
                      THEN Append(queued[i - 1], seeds[i]) ELSE queued[i - 1]

LEMMA SeedSteps ==
    ASSUME NEW seeds \in Seq(Pages), NEW visited
    PROVE  \E queued : /\ AreQueued(queued, seeds, visited)
                       /\ SeedFrontier(seeds, visited) = queued[Len(seeds)]
<1> DEFINE n == Len(seeds)
           step(t, i) == IF seeds[i] \in Allowed \ (visited \cup ToSet(t))
                         THEN Append(t, seeds[i]) ELSE t
           g == [i \in 1 .. n |-> [t \in Seq(Pages) |-> step(t, i)]]
           Is(f) == f = [i \in 0 .. n |-> IF i = 0 THEN <<>> ELSE step(f[i - 1], i)]
           queued == CHOOSE f : Is(f)
<1>1. \A i \in 1 .. n, t \in Seq(Pages) : step(t, i) \in Seq(Pages)
  OBVIOUS
<1>2. <<>> \in Seq(Pages) /\ n \in Nat
  OBVIOUS
<1>3. SeedFrontier(seeds, visited) = queued[n]
  BY DEF SeedFrontier
<1> HIDE DEF step, queued, n
<1>4. g \in [1 .. n -> [Seq(Pages) -> Seq(Pages)]]
  BY <1>1
<1>5. PICK f : IsIteration(f, n, Seq(Pages), <<>>, g)
  <2> HIDE DEF g
  <2> QED
    BY <1>2, <1>4, IterationExists
<1>6. Is(f)
  <2>1. \A i \in 1 .. n : f[i - 1] \in Seq(Pages)
    BY <1>2, <1>5 DEF IsIteration
  <2>2. \A i \in 1 .. n : f[i] = step(f[i - 1], i)
    BY <2>1, <1>5 DEF IsIteration
  <2>3. f = [i \in 0 .. n |-> f[i]]
    BY <1>5 DEF IsIteration
  <2>4. \A i \in 0 .. n : f[i] = IF i = 0 THEN <<>> ELSE step(f[i - 1], i)
    BY <1>2, <1>5, <2>2 DEF IsIteration
  <2> QED
    BY <2>3, <2>4
<1>7. Is(queued)
  BY <1>6 DEF queued
<1>8. queued[0] = <<>> /\ \A i \in 1 .. n : queued[i] = step(queued[i - 1], i)
  BY <1>7, <1>2
<1>9. \A i \in 0 .. n : queued[i] \in Seq(Pages)
  <2> DEFINE T == {i \in 0 .. n : queued[i] \in Seq(Pages)}
  <2>1. 0 \in T
    <3>1. 0 \in 0 .. n
      BY <1>2
    <3> QED
      BY <3>1, <1>2, <1>8, Zenon
  <2>2. ASSUME NEW i \in 1 .. n, i - 1 \in T PROVE i \in T
    <3>1. i \in 0 .. n /\ i - 1 \in 0 .. n /\ queued[i - 1] \in Seq(Pages)
      BY <1>2, <2>2
    <3>2. queued[i] = step(queued[i - 1], i)
      BY <1>8
    <3> QED
      BY <3>1, <3>2, <1>1
  <2> HIDE DEF T
  <2>3. 0 .. n \subseteq T
    BY <1>2, <2>1, <2>2, CountingUp
  <2> QED
    BY <2>3 DEF T
<1>10. queued \in [0 .. n -> Seq(Pages)]
  BY <1>7, <1>9
<1>11. AreQueued(queued, seeds, visited)
  BY <1>8, <1>10 DEF step, AreQueued, n
<1> QED
  BY <1>3, <1>11 DEF n

(* The frontier a run starts from has every seed that is allowed and was not
   visited, and has it once. *)
LEMMA SeedFrontierFacts ==
    ASSUME NEW seeds \in Seq(Pages), NEW visited
    PROVE  /\ SeedFrontier(seeds, visited) \in Seq(Pages)
           /\ IsInjective(SeedFrontier(seeds, visited))
           /\ ToSet(SeedFrontier(seeds, visited)) = (ToSet(seeds) \cap Allowed) \ visited
<1> DEFINE n == Len(seeds)
<1>1. PICK queued : /\ AreQueued(queued, seeds, visited)
                    /\ SeedFrontier(seeds, visited) = queued[n]
  BY SeedSteps
<1>2. /\ queued \in [0 .. n -> Seq(Pages)]
      /\ queued[0] = <<>>
      /\ \A i \in 1 .. n :
            queued[i] = IF seeds[i] \in Allowed \ (visited \cup ToSet(queued[i - 1]))
                        THEN Append(queued[i - 1], seeds[i]) ELSE queued[i - 1]
  BY <1>1 DEF AreQueued
<1>3. n \in Nat /\ DOMAIN seeds = 1 .. n /\ \A i \in 1 .. n : seeds[i] \in Pages
  BY LenProperties
<1> HIDE DEF n
<1> DEFINE Due(i) == ({seeds[j] : j \in 1 .. i} \cap Allowed) \ visited
           Right(i) == ToSet(queued[i]) = Due(i) /\ IsInjective(queued[i])
           T == {i \in 0 .. n : Right(i)}
<1>4. 0 \in T
  <2>1. ToSet(queued[0]) = {} /\ IsInjective(queued[0])
    BY <1>2 DEF ToSet, IsInjective
  <2>2. 0 \in 0 .. n
    BY <1>3
  <2>3. Due(0) = {}
    OBVIOUS
  <2> QED
    BY <2>1, <2>2, <2>3
<1>5. ASSUME NEW i \in 1 .. n, i - 1 \in T PROVE i \in T
  <2> DEFINE before == queued[i - 1]
  <2>1. /\ i - 1 \in 0 .. n /\ i \in 0 .. n /\ before \in Seq(Pages) /\ seeds[i] \in Pages
        /\ queued[i] = IF seeds[i] \in Allowed \ (visited \cup ToSet(before))
                       THEN Append(before, seeds[i]) ELSE before
    <3>1. i - 1 \in 0 .. n /\ i \in 0 .. n
      BY <1>3
    <3>2. queued[i - 1] \in Seq(Pages)
      BY <1>2, <3>1
    <3> QED
      BY <1>2, <1>3, <3>1, <3>2
  <2>2. ToSet(before) = Due(i - 1) /\ IsInjective(before)
    BY <1>5
  <2>3. Due(i) = Due(i - 1) \cup (({seeds[i]} \cap Allowed) \ visited)
    <3>1. 1 .. i = (1 .. i - 1) \cup {i}
      BY <1>3
    <3> QED
      BY <3>1
  <2> HIDE DEF before, Due
  <2>4. CASE seeds[i] \in Allowed \ (visited \cup ToSet(before))
    <3>1. queued[i] = Append(before, seeds[i])
      BY <2>1, <2>4
    <3>2. IsInjective(queued[i]) /\ ToSet(queued[i]) = ToSet(before) \cup {seeds[i]}
      BY <2>1, <2>2, <2>4, <3>1, OnceMore
    <3>3. Due(i) = ToSet(before) \cup {seeds[i]}
      BY ONLY <2>2, <2>3, <2>4
    <3> QED
      BY <2>1, <3>2, <3>3
  <2>5. CASE seeds[i] \notin Allowed \ (visited \cup ToSet(before))
    <3>1. queued[i] = before
      BY <2>1, <2>5
    <3>2. Due(i) = ToSet(before)
      BY <2>2, <2>3, <2>5
    <3> QED
      BY <2>1, <2>2, <3>1, <3>2
  <2> QED
    BY <2>4, <2>5
<1>6. n \in T
  <2>1. n \in 0 .. n
    BY <1>3
  <2> HIDE DEF T
  <2> QED
    BY <2>1, <1>3, <1>4, <1>5, CountingUp
<1>7. {seeds[j] : j \in 1 .. n} = ToSet(seeds)
  BY <1>3 DEF ToSet
<1>8. SeedFrontier(seeds, visited) \in Seq(Pages)
  BY <1>1, <1>2, <1>3
<1> QED
  BY <1>1, <1>6, <1>7, <1>8

-----------------------------------------------------------------------------
LEMMA CapsAreNumbers == \E c \in Caps : c \in Nat /\ c > 0
<1>1. PICK c : c \in Caps
  OBVIOUS
<1>2. c \in Nat /\ c > 0
  BY <1>1
<1> QED
  BY <1>1, <1>2

LEMMA ProgressFields ==
    ASSUME NEW s \in Progress
    PROVE  /\ s.frontier \in Seq(Pages) /\ ToSet(s.frontier) \subseteq Pages
           /\ s.visited \subseteq Pages /\ s.followed \subseteq Pages /\ s.dropped \subseteq Pages
           /\ s.fetched \in [Hosts -> Nat]
           /\ s.attempted \in Nat /\ s.origin \in 0 .. MaxStarts
<1>1. s.frontier \in Seq(Pages)
  BY DEF Progress
<1>2. ToSet(s.frontier) \subseteq Pages
  BY <1>1, LenProperties DEF ToSet
<1> QED
  BY <1>1, <1>2 DEF Progress

(* The page in hand. *)
LEMMA InHandFacts ==
    ASSUME IInv, phase # "off"
    PROVE  /\ phase = "loop" => url = NoPage /\ InHand = {}
           /\ phase # "loop" => /\ url \in Pages /\ url \in Allowed /\ HostOf[url] \in Hosts
                               /\ InHand = {url} /\ url \notin frontierSet /\ url \notin crawl.visited
           /\ Whole(crawl, InHand) /\ reason = "none"
           /\ frontierSet = ToSet(crawl.frontier) /\ IsInjective(crawl.frontier)
           /\ crawl.visited \cap frontierSet = {}
<1>1. TypeOK /\ RunIsWhole /\ FrontierConsistent
  BY DEF IInv
<1>2. Whole(crawl, InHand) /\ reason = "none" /\ (url = NoPage <=> phase = "loop") /\ url \notin frontierSet
  BY <1>1 DEF RunIsWhole
<1>3. /\ frontierSet = ToSet(crawl.frontier) /\ IsInjective(crawl.frontier)
      /\ crawl.visited \cap (frontierSet \cup InHand) = {}
  BY <1>1 DEF FrontierConsistent, InHand
<1>4. CASE phase = "loop"
  BY <1>2, <1>3, <1>4 DEF InHand
<1>5. CASE phase # "loop"
  <2>1. url \in Pages /\ InHand = {url}
    BY <1>1, <1>2, <1>5 DEF TypeOK, InHand
  <2>2. url \in Allowed
    BY <1>2, <2>1 DEF Whole
  <2> QED
    BY <1>2, <1>3, <1>5, <2>1, <2>2
<1> QED
  BY <1>4, <1>5

(* A progress that came of the one in memory and puts the page in hand
   somewhere. *)
Follows(progress) ==
    /\ progress.origin = crawl.origin
    /\ crawl.visited \subseteq progress.visited /\ crawl.dropped \subseteq progress.dropped
    /\ \A h \in Hosts : crawl.fetched[h] <= progress.fetched[h]
    /\ ToSet(crawl.frontier) \cup InHand
          \subseteq ToSet(progress.frontier) \cup progress.visited \cup progress.dropped

LEMMA KeptOn ==
    ASSUME IInv, phase # "off", NEW progress \in Progress, Follows(progress),
           NEW s \in saved, s.origin = progress.origin
    PROVE  Keeps(s, progress, {})
<1>1. Keeps(s, crawl, InHand)
  BY DEF IInv, SavedIsKept, Follows
<1>2. s \in Progress /\ crawl \in Progress
  BY DEF IInv, TypeOK
<1>3. ASSUME NEW h \in Hosts PROVE s.fetched[h] <= progress.fetched[h]
  <2>1. s.fetched[h] <= crawl.fetched[h] /\ crawl.fetched[h] <= progress.fetched[h]
    BY <1>1 DEF Keeps, Follows
  <2>2. s.fetched[h] \in Nat /\ crawl.fetched[h] \in Nat /\ progress.fetched[h] \in Nat
    BY <1>2, ProgressFields
  <2> QED
    BY <2>1, <2>2
<1> QED
  BY <1>1, <1>3 DEF Keeps, Follows

LEMMA WholeLater ==
    ASSUME NEW progress \in Progress, NEW hand, Whole(progress, hand),
           starts \in Nat, starts' \in Nat, starts <= starts'
    PROVE  Whole(progress, hand)'
<1>1. progress.origin \in Int
  BY ProgressFields
<1> QED
  BY <1>1 DEF Whole, Known

(* run_crawl up to its loop, from a progress the state file or the
   configuration gave. *)
LEMMA BeginStep ==
    ASSUME IInv, NEW cap \in Caps, NEW progress \in Progress, Begin(cap, progress),
           progress.origin <= starts',
           Known(progress) \subseteq
              (ToSet(progress.frontier) \cap Allowed) \cup progress.visited \cup progress.dropped,
           \A h \in Hosts : \E c \in Caps : progress.fetched[h] <= c,
           \A s \in saved : s.origin = progress.origin => Keeps(s, progress, {}),
           markers' \in SUBSET Hosts,
           progress.origin # starts' => \A h \in markers' : Remaining(cap, progress.fetched, h) = 0,
           gets' \in [Hosts -> Nat], lost' \in Nat,
           CheckpointEvery > 0 =>
              \A h \in Hosts : /\ gets'[h] <= progress.fetched[h] + lost'
                              /\ \A s \in saved : gets'[h] <= s.fetched[h] + lost',
           BudgetAcrossRuns'
    PROVE  IInv'
<1> DEFINE frontier == SeedFrontier(progress.frontier, progress.visited)
<1>1. /\ phase = "off" /\ starts < MaxStarts /\ starts' = starts + 1 /\ phase' = "loop"
      /\ crawl' = [progress EXCEPT !.frontier = frontier]
      /\ frontierSet' = ToSet(crawl'.frontier)
      /\ budget' = [h \in Hosts |-> Remaining(cap, progress.fetched, h)]
      /\ counter' = Zero /\ stall' = 0 /\ url' = NoPage /\ reason' = "none" /\ saved' = saved
  BY DEF Begin
<1>2. /\ frontier \in Seq(Pages) /\ IsInjective(frontier)
      /\ ToSet(frontier) = (ToSet(progress.frontier) \cap Allowed) \ progress.visited
  BY ProgressFields, SeedFrontierFacts
<1> HIDE DEF frontier
<1>3. /\ crawl' \in Progress /\ crawl'.frontier = frontier /\ crawl'.visited = progress.visited
      /\ crawl'.fetched = progress.fetched /\ crawl'.attempted = progress.attempted
      /\ crawl'.followed = progress.followed /\ crawl'.dropped = progress.dropped
      /\ crawl'.origin = progress.origin
  BY <1>1, <1>2 DEF Progress
<1> HIDE DEF InHand
<1>4. InHand' = {}
  BY <1>1 DEF InHand
<1>5. TypeOK /\ SavedIsWhole
  BY DEF IInv
<1>6. starts \in Nat /\ starts' \in Nat /\ starts <= starts' /\ starts' \in 0 .. MaxStarts
  <2>1. starts \in 0 .. MaxStarts /\ MaxStarts \in Nat
    BY <1>5 DEF TypeOK
  <2>2. starts' = starts + 1 /\ starts < MaxStarts
    BY <1>1
  <2> QED
    BY ONLY <2>1, <2>2
<1>7. \A h \in Hosts : progress.fetched[h] \in Nat /\ cap \in Nat /\ Caps \subseteq Nat
  BY ProgressFields
<1>8. budget' \in [Hosts -> Nat] /\ counter' \in [Hosts -> Nat]
  <2>1. \A h \in Hosts : Remaining(cap, progress.fetched, h) \in Nat
    BY <1>7 DEF Remaining
  <2> QED
    BY <1>1, <2>1 DEF Zero
<1>9. TypeOK'
  <2>1. frontierSet' \in SUBSET Pages
    BY <1>1, <1>3, ProgressFields
  <2> QED
    BY <1>1, <1>3, <1>5, <1>6, <1>8, <2>1 DEF TypeOK, Phases
<1>10. FrontierConsistent'
  BY <1>1, <1>2, <1>3 DEF FrontierConsistent
<1>11. SavedIsWhole'
  <2>1. \A s \in saved : s \in Progress
    BY <1>5 DEF TypeOK
  <2>2. \A s \in saved : Whole(s, {})'
    BY <1>5, <1>6, <2>1, WholeLater DEF SavedIsWhole
  <2> QED
    BY <1>1, <1>5, <2>2 DEF SavedIsWhole
<1>12. RunIsWhole'
  <2>1. Known(crawl') = Known(progress)
    BY <1>3 DEF Known
  <2>2. Whole(crawl, InHand)'
    BY <1>2, <1>3, <1>4, <2>1 DEF Whole, Known
  <2>3. NoPage \notin frontierSet'
    BY <1>9 DEF TypeOK
  <2> QED
    BY <1>1, <2>2, <2>3 DEF RunIsWhole
<1>13. SavedIsKept'
  <2> SUFFICES ASSUME NEW s \in saved, s.origin = progress.origin
               PROVE  Keeps(s, crawl', {})
    BY <1>1, <1>3, <1>4 DEF SavedIsKept, Keeps
  <2>1. Keeps(s, progress, {}) /\ ToSet(s.frontier) \subseteq Allowed
    BY <1>5 DEF SavedIsWhole, Whole
  <2> QED
    BY <1>2, <1>3, <2>1 DEF Keeps
<1>14. StuckAtEnd'
  <2>1. Len(frontier) \in Nat
    BY <1>2
  <2>2. \A i \in 1 .. Len(frontier) : ~(i > Len(frontier) - 0)
    BY <2>1
  <2> QED
    BY <1>1, <1>3, <2>2 DEF StuckAtEnd
<1>15. \A h \in Hosts : InFlight(h)' = 0
  BY <1>1 DEF InFlight
<1>16. BudgetHolds'
  <2> SUFFICES ASSUME NEW h \in Hosts
               PROVE  \E c \in Caps : progress.fetched[h] + 0 + Left(h)' <= c
    BY <1>3, <1>15 DEF BudgetHolds
  <2>1. budget'[h] = Remaining(cap, progress.fetched, h) /\ counter'[h] = 0
    BY <1>1 DEF Zero
  <2>2. CASE cap > progress.fetched[h]
    BY <1>7, <2>1, <2>2 DEF Left, Remaining
  <2>3. CASE ~(cap > progress.fetched[h])
    <3>1. Left(h)' = 0
      BY <2>1, <2>3 DEF Left, Remaining
    <3>2. PICK c \in Caps : progress.fetched[h] <= c
      OBVIOUS
    <3>3. progress.fetched[h] + 0 + Left(h)' <= c
      BY <1>7, <3>1, <3>2
    <3> QED
      BY <3>3
  <2> QED
    BY <2>2, <2>3
<1>17. GetsAreCounted'
  <2> SUFFICES ASSUME CheckpointEvery > 0, NEW h \in Hosts
               PROVE  /\ gets'[h] <= progress.fetched[h] + 0 + lost'
                      /\ \A s \in saved :
                            gets'[h] <= s.fetched[h] + lost' + (progress.attempted % CheckpointEvery) + 0
    BY <1>1, <1>3, <1>15 DEF GetsAreCounted
  <2>1. progress.attempted % CheckpointEvery \in 0 .. CheckpointEvery - 1
    BY ProgressFields, OneMoreAttempt
  <2>2. progress.attempted % CheckpointEvery \in Nat
    BY <2>1
  <2>3. \A s \in saved : s.fetched[h] \in Nat
    BY <1>5, ProgressFields DEF TypeOK
  <2> HIDE DEF GetsAreCounted
  <2>4. /\ gets'[h] <= progress.fetched[h] + lost'
        /\ \A s \in saved : gets'[h] <= s.fetched[h] + lost'
    OBVIOUS
  <2>5. gets'[h] \in Nat /\ lost' \in Nat /\ progress.fetched[h] \in Nat
    BY <1>7
  <2> DEFINE m == progress.attempted % CheckpointEvery
  <2>6. m \in Nat
    BY <2>2
  <2> HIDE DEF m
  <2>7. /\ gets'[h] <= progress.fetched[h] + 0 + lost'
        /\ \A s \in saved : gets'[h] <= s.fetched[h] + lost' + m + 0
    BY ONLY <2>3, <2>4, <2>5, <2>6
  <2> QED
    BY <2>7 DEF m
<1>18. StopIsJustified'
  BY <1>1 DEF StopIsJustified
<1>19. MarkersEarned'
  <2> SUFFICES ASSUME progress.origin # starts', NEW h \in markers'
               PROVE  counter'[h] >= budget'[h]
    BY <1>3 DEF MarkersEarned
  <2>1. h \in Hosts /\ Remaining(cap, progress.fetched, h) = 0
    OBVIOUS
  <2>2. counter'[h] = 0 /\ budget'[h] = 0
    BY <1>1, <2>1 DEF Zero
  <2> QED
    BY <2>2
<1> QED
  BY <1>19, <1>9, <1>10, <1>11, <1>12, <1>13, <1>14, <1>16, <1>17, <1>18 DEF IInv

(* The finally clause of run_crawl, after whatever ended the loop. *)
LEMMA ExitStep ==
    ASSUME IInv, phase # "off", NEW progress \in Progress, NEW why, Exit(why, progress),
           why \in {"none", "frontier_empty", "budget"},
           Follows(progress), Whole(progress, {}),
           \A h \in Hosts : progress.fetched[h] <= crawl.fetched[h] + InFlight(h),
           lost' \in Nat, lost <= lost',
           \A h \in Hosts : crawl.fetched[h] + InFlight(h) + lost <= progress.fetched[h] + lost',
           StopIsJustified'
    PROVE  IInv' /\ NothingForgotten
<1>1. /\ crawl' = progress /\ saved' = {progress} /\ reason' = why /\ phase' = "off"
      /\ markers' = markers /\ starts' = starts /\ gets' = gets /\ frontierSet' = frontierSet
      /\ url' = url /\ budget' = budget /\ counter' = counter /\ stall' = stall
  BY DEF Exit, process
<1>2. TypeOK /\ SavedIsWhole /\ BudgetHolds /\ GetsAreCounted /\ BudgetAcrossRuns
  BY DEF IInv
<1>3. TypeOK'
  BY <1>1, <1>2 DEF TypeOK, Phases
<1>4. /\ lost \in Nat /\ Caps \subseteq Nat
      /\ \A h \in Hosts : /\ gets[h] \in Nat /\ progress.fetched[h] \in Nat
                          /\ crawl.fetched[h] \in Nat /\ InFlight(h) \in Nat /\ Left(h) \in Nat
  BY <1>2, ProgressFields DEF TypeOK, InFlight, Left
<1>5. SavedIsWhole'
  <2>1. Whole(progress, {})'
    BY <1>1 DEF Whole, Known
  <2>2. ASSUME NEW h \in Hosts PROVE \E cap \in Caps : progress.fetched[h] <= cap
    <3>1. PICK cap \in Caps : crawl.fetched[h] + InFlight(h) + Left(h) <= cap
      BY <1>2 DEF BudgetHolds
    <3>2. progress.fetched[h] <= crawl.fetched[h] + InFlight(h)
      OBVIOUS
    <3>3. cap \in Nat
      BY <1>4
    <3>4. /\ progress.fetched[h] \in Nat /\ crawl.fetched[h] \in Nat
          /\ InFlight(h) \in Nat /\ Left(h) \in Nat
      BY <1>4
    <3> HIDE DEF InFlight, Left
    <3>5. progress.fetched[h] <= cap
      BY ONLY <3>1, <3>2, <3>3, <3>4
    <3> QED
      BY <3>5
  <2> QED
    BY <1>1, <2>1, <2>2 DEF SavedIsWhole
<1>6. FrontierConsistent' /\ RunIsWhole' /\ SavedIsKept' /\ StuckAtEnd' /\ BudgetHolds'
  BY <1>1 DEF FrontierConsistent, RunIsWhole, SavedIsKept, StuckAtEnd, BudgetHolds
<1>7. GetsAreCounted'
  <2> SUFFICES ASSUME CheckpointEvery > 0, NEW h \in Hosts
               PROVE  gets[h] <= progress.fetched[h] + lost'
    BY <1>1 DEF GetsAreCounted
  <2>1. gets[h] <= crawl.fetched[h] + InFlight(h) + lost
    BY <1>2 DEF GetsAreCounted
  <2>2. crawl.fetched[h] + InFlight(h) + lost <= progress.fetched[h] + lost'
    OBVIOUS
  <2>3. /\ gets[h] \in Nat /\ crawl.fetched[h] \in Nat /\ InFlight(h) \in Nat
        /\ progress.fetched[h] \in Nat /\ lost \in Nat /\ lost' \in Nat
    BY <1>4
  <2> HIDE DEF InFlight
  <2> QED
    BY ONLY <2>1, <2>2, <2>3
<1>8. BudgetAcrossRuns'
  <2> SUFFICES ASSUME CheckpointEvery > 0, NEW h \in Hosts
               PROVE  \E cap \in Caps : gets[h] <= cap + lost'
    BY <1>1 DEF BudgetAcrossRuns
  <2>1. PICK cap \in Caps : gets[h] <= cap + lost
    BY <1>2 DEF BudgetAcrossRuns
  <2>2. cap \in Nat /\ gets[h] <= cap + lost'
    BY <1>4, <2>1
  <2> QED
    BY <2>2
<1>9. NothingForgotten
  <2> SUFFICES ASSUME NEW s \in saved, s.origin = progress.origin
               PROVE  Keeps(s, progress, {})
    BY <1>1 DEF NothingForgotten, Keeps
  <2> QED
    BY KeptOn
<1>10. MarkersEarned'
  BY <1>1 DEF IInv, MarkersEarned, Follows
<1> QED
  BY <1>10, <1>3, <1>5, <1>6, <1>7, <1>8, <1>9 DEF IInv

(* The end of an iteration of the loop in which ingest() returned. *)
LEMMA ReportStep ==
    ASSUME IInv, phase # "off", phase # "loop", NEW progress \in Progress, Reported(progress),
           Follows(progress), Whole(progress, {}),
           progress.attempted = crawl.attempted + 1,
           \A h \in Hosts : progress.fetched[h] = crawl.fetched[h] + InFlight(h),
           frontierSet' = ToSet(progress.frontier), IsInjective(progress.frontier),
           progress.visited \cap frontierSet' = {},
           counter' \in [Hosts -> Nat], \A h \in Hosts : counter[h] <= counter'[h],
           markers' \in SUBSET Hosts, \A h \in markers' : h \in markers \/ counter[h] >= budget[h],
           gets' = gets
    PROVE  IInv' /\ NothingForgotten
<1> DEFINE due == CheckpointEvery > 0 /\ progress.attempted % CheckpointEvery = 0
<1>1. /\ crawl' = progress /\ saved' = IF due THEN {progress} ELSE saved
      /\ phase' = "loop" /\ stall' = 0 /\ url' = NoPage
      /\ budget' = budget /\ reason' = reason /\ lost' = lost /\ starts' = starts
  BY DEF Reported
<1> HIDE DEF due, InHand
<1>2. TypeOK /\ SavedIsWhole /\ BudgetHolds /\ GetsAreCounted /\ BudgetAcrossRuns
  BY DEF IInv
<1>3. reason = "none"
  BY InHandFacts
<1>4. InHand' = {}
  BY <1>1 DEF InHand
<1>5. frontierSet' \in SUBSET Pages
  BY ProgressFields
<1>6. TypeOK'
  <2>1. \A s \in saved' : s \in Progress
    BY <1>1, <1>2 DEF TypeOK
  <2> QED
    BY <1>1, <1>2, <1>5, <2>1 DEF TypeOK, Phases
<1>7. /\ lost \in Nat /\ Caps \subseteq Nat
      /\ \A h \in Hosts : /\ gets[h] \in Nat /\ progress.fetched[h] \in Nat
                          /\ crawl.fetched[h] \in Nat /\ InFlight(h) \in {0, 1} /\ Left(h) \in Nat
                          /\ budget[h] \in Nat /\ counter[h] \in Nat /\ counter'[h] \in Nat
  <2>1. /\ lost \in Nat /\ Caps \subseteq Nat /\ crawl \in Progress
        /\ gets \in [Hosts -> Nat] /\ budget \in [Hosts -> Nat] /\ counter \in [Hosts -> Nat]
    BY <1>2 DEF TypeOK
  <2>2. progress.fetched \in [Hosts -> Nat] /\ crawl.fetched \in [Hosts -> Nat]
    BY <2>1, ProgressFields
  <2>3. counter' \in [Hosts -> Nat]
    OBVIOUS
  <2>4. \A h \in Hosts : budget[h] \in Nat /\ counter[h] \in Nat
    BY ONLY <2>1
  <2>5. \A h \in Hosts : InFlight(h) \in {0, 1} /\ Left(h) \in Nat
    BY ONLY <2>4 DEF InFlight, Left
  <2> HIDE DEF InFlight, Left
  <2> QED
    BY ONLY <2>1, <2>2, <2>3, <2>4, <2>5
<1>8. FrontierConsistent'
  BY <1>1, <1>4 DEF FrontierConsistent, InHand
<1>9. Whole(progress, {})'
  BY <1>1 DEF Whole, Known
<1>10. RunIsWhole'
  <2>1. Whole(crawl, InHand)'
    BY <1>1, <1>4, <1>9 DEF Whole, Known
  <2>2. NoPage \notin frontierSet'
    BY <1>5
  <2> QED
    BY <1>1, <1>3, <2>1, <2>2 DEF RunIsWhole
<1>11. \A s \in saved : s.origin = progress.origin => Keeps(s, progress, {})
  BY KeptOn
<1>12. Keeps(progress, progress, {})
  BY <1>7 DEF Keeps
<1>13. SavedIsKept'
  <2>1. \A s \in saved' : s.origin = progress.origin => Keeps(s, progress, {})
    BY <1>1, <1>11, <1>12
  <2> QED
    BY <1>1, <1>4, <2>1 DEF SavedIsKept, Keeps
<1>14. StuckAtEnd'
  <2>1. Len(progress.frontier) \in Nat
    BY ProgressFields
  <2>2. \A i \in 1 .. Len(progress.frontier) : ~(i > Len(progress.frontier) - 0)
    BY <2>1
  <2> QED
    BY <1>1, <2>2 DEF StuckAtEnd
<1>15. \A h \in Hosts : InFlight(h)' = 0
  BY <1>1 DEF InFlight
<1>16. \A h \in Hosts : \E cap \in Caps :
          progress.fetched[h] + 0 + Left(h)' <= cap /\ progress.fetched[h] <= cap
  <2> SUFFICES ASSUME NEW h \in Hosts
               PROVE  \E cap \in Caps : /\ progress.fetched[h] + 0 + Left(h)' <= cap
                                        /\ progress.fetched[h] <= cap
    OBVIOUS
  <2>1. PICK cap \in Caps : crawl.fetched[h] + InFlight(h) + Left(h) <= cap
    BY <1>2 DEF BudgetHolds
  <2>2. Left(h)' <= Left(h) /\ Left(h)' \in Nat
    BY <1>1, <1>7 DEF Left
  <2>3. progress.fetched[h] = crawl.fetched[h] + InFlight(h)
    OBVIOUS
  <2>4. cap \in Nat
    BY <1>7
  <2>5. progress.fetched[h] + 0 + Left(h)' <= cap /\ progress.fetched[h] <= cap
    BY <1>7, <2>1, <2>2, <2>3, <2>4
  <2> QED
    BY <2>5
<1>17. BudgetHolds'
  BY <1>1, <1>15, <1>16 DEF BudgetHolds
<1>18. SavedIsWhole'
  <2>1. \A s \in saved : Whole(s, {})'
    BY <1>1, <1>2 DEF SavedIsWhole, Whole, Known
  <2>2. CASE due
    BY <1>1, <1>9, <1>16, <2>2 DEF SavedIsWhole
  <2>3. CASE ~due
    BY <1>1, <1>2, <2>1, <2>3 DEF SavedIsWhole
  <2> QED
    BY <2>2, <2>3
<1>19. GetsAreCounted'
  <2> DEFINE m == crawl.attempted % CheckpointEvery
             n == progress.attempted % CheckpointEvery
  <2> SUFFICES ASSUME CheckpointEvery > 0, NEW h \in Hosts
               PROVE  /\ gets[h] <= progress.fetched[h] + 0 + lost
                      /\ \A s \in saved' : gets[h] <= s.fetched[h] + lost + n + 0
    BY <1>1, <1>15 DEF GetsAreCounted
  <2>1. /\ gets[h] <= crawl.fetched[h] + InFlight(h) + lost
        /\ \A s \in saved : gets[h] <= s.fetched[h] + lost + m + InFlight(h)
    BY <1>2 DEF GetsAreCounted
  <2>2. crawl.attempted \in Nat /\ CheckpointEvery \in Nat
    BY <1>2, ProgressFields DEF TypeOK
  <2>3. m \in 0 .. CheckpointEvery - 1 /\ n \in 0 .. CheckpointEvery - 1 /\ (n # 0 => n = m + 1)
    BY <2>2, OneMoreAttempt
  <2>4. due <=> n = 0
    BY DEF due
  <2> HIDE DEF m, n
  <2>5. m \in Nat /\ n \in Nat
    BY <2>2, <2>3
  <2>6. gets[h] <= progress.fetched[h] + 0 + lost
    <3>1. progress.fetched[h] = crawl.fetched[h] + InFlight(h)
      OBVIOUS
    <3> QED
      BY <1>7, <2>1, <3>1
  <2>7. CASE due
    <3>1. saved' = {progress}
      BY <1>1, <2>7
    <3>2. gets[h] <= progress.fetched[h] + lost + n + 0
      BY <1>7, <2>5, <2>6
    <3> QED
      BY <2>6, <3>1, <3>2
  <2>8. CASE ~due
    <3>1. saved' = saved /\ n = m + 1
      BY <1>1, <2>3, <2>4, <2>8
    <3>2. ASSUME NEW s \in saved PROVE gets[h] <= s.fetched[h] + lost + n + 0
      <4>1. s.fetched[h] \in Nat
        BY <1>2, ProgressFields DEF TypeOK
      <4>2. gets[h] <= s.fetched[h] + lost + m + InFlight(h)
        BY <2>1
      <4> DEFINE f == s.fetched[h]
                 v == InFlight(h)
                 g == gets[h]
      <4>3. g \in Nat /\ lost \in Nat /\ (v = 0 \/ v = 1) /\ f \in Nat
        BY <1>7, <4>1
      <4>4. g <= f + lost + m + v
        BY <4>2
      <4> HIDE DEF f, v, g
      <4>5. g <= f + lost + n + 0
        BY <2>5, <3>1, <4>3, <4>4
      <4> QED
        BY <4>5 DEF f, g
    <3> QED
      BY <2>6, <3>1, <3>2
  <2> QED
    BY <2>7, <2>8
<1>20. BudgetAcrossRuns'
  BY <1>1, <1>2 DEF BudgetAcrossRuns
<1>21. StopIsJustified'
  BY <1>1, <1>3 DEF StopIsJustified
<1>22. NothingForgotten
  <2> SUFFICES ASSUME NEW s \in saved, NEW t \in saved', s.origin = t.origin
               PROVE  Keeps(s, t, {})
    BY DEF NothingForgotten, Keeps
  <2>1. CASE due
    BY <1>1, <1>11, <2>1
  <2>2. CASE ~due
    <3>1. s = t
      BY <1>1, <1>2, <2>2 DEF SavedIsWhole
    <3>2. \A h \in Hosts : s.fetched[h] \in Nat
      <4>1. s \in Progress
        BY <1>2 DEF TypeOK
      <4>2. s.fetched \in [Hosts -> Nat]
        BY <4>1, ProgressFields
      <4> QED
        BY ONLY <4>2
    <3>3. Keeps(s, s, {})
      BY ONLY <3>2 DEF Keeps
    <3> QED
      BY <3>1, <3>3
  <2> QED
    BY <2>1, <2>2
<1>23. MarkersEarned'
  <2> SUFFICES ASSUME crawl.origin # starts, NEW h \in markers'
               PROVE  counter'[h] >= budget[h]
    BY <1>1 DEF MarkersEarned, Follows
  <2>1. counter[h] >= budget[h]
    BY DEF IInv, MarkersEarned
  <2>2. h \in Hosts /\ counter[h] <= counter'[h]
    OBVIOUS
  <2>3. budget[h] \in Nat /\ counter[h] \in Nat /\ counter'[h] \in Nat
    BY <1>7, <2>2
  <2> QED
    BY <2>1, <2>2, <2>3
<1> QED
  BY <1>23, <1>6, <1>8, <1>10, <1>13, <1>14, <1>17, <1>18, <1>19, <1>20, <1>21, <1>22 DEF IInv

(* A progress in which nothing but the count of attempts differs from the one
   in memory, the visited page, and where the pages are. *)
LEMMA SpentFacts ==
    ASSUME IInv, phase = "allowed"
    PROVE  /\ Spent \in Progress /\ Spent.frontier = crawl.frontier
           /\ Spent.visited = crawl.visited \cup {url} /\ Spent.attempted = crawl.attempted + 1
           /\ Spent.followed = crawl.followed /\ Spent.dropped = crawl.dropped
           /\ Spent.origin = crawl.origin
           /\ \A h \in Hosts : Spent.fetched[h] = crawl.fetched[h] + InFlight(h)
           /\ Follows(Spent) /\ Whole(Spent, {})
<1>1. crawl \in Progress
  BY DEF IInv, TypeOK
<1>2. url \in Pages /\ url \in Allowed /\ HostOf[url] \in Hosts /\ InHand = {url} /\ Whole(crawl, {url})
  BY InHandFacts
<1>3. \A h \in Hosts : crawl.fetched[h] \in Nat
  BY <1>1, ProgressFields
<1>types. /\ crawl.attempted + 1 \in Nat /\ crawl.visited \cup {url} \in SUBSET Pages
       /\ [crawl.fetched EXCEPT ![HostOf[url]] = @ + 1] \in [Hosts -> Nat]
  <2>1. crawl.fetched \in [Hosts -> Nat] /\ crawl.fetched[HostOf[url]] + 1 \in Nat
    BY <1>1, <1>2, <1>3, ProgressFields
  <2> QED
    BY <1>1, <1>2, <2>1, ProgressFields
<1>4. /\ Spent \in Progress /\ Spent.frontier = crawl.frontier
      /\ Spent.visited = crawl.visited \cup {url} /\ Spent.attempted = crawl.attempted + 1
      /\ Spent.followed = crawl.followed /\ Spent.dropped = crawl.dropped
      /\ Spent.origin = crawl.origin
      /\ Spent.fetched = [crawl.fetched EXCEPT ![HostOf[url]] = @ + 1]
  BY <1>1, <1>types DEF Spent, Progress
<1> HIDE DEF Spent
<1>5. \A h \in Hosts : Spent.fetched[h] = crawl.fetched[h] + InFlight(h)
  <2>1. crawl.fetched \in [Hosts -> Nat]
    BY <1>1, ProgressFields
  <2> QED
    BY <1>2, <1>4, <2>1 DEF InFlight
<1>6. Follows(Spent)
  <2>1. \A h \in Hosts : crawl.fetched[h] <= Spent.fetched[h]
    BY <1>3, <1>5 DEF InFlight
  <2> QED
    BY <1>2, <1>4, <2>1 DEF Follows
<1>7. Whole(Spent, {})
  BY <1>2, <1>4 DEF Whole, Known
<1> QED
  BY <1>4, <1>5, <1>6, <1>7

LEMMA AnswerWithoutStep ==
    ASSUME IInv, AnswerWithout
    PROVE  IInv' /\ NothingForgotten
<1>1. /\ phase = "allowed" /\ Reported(Spent) /\ frontierSet' = frontierSet
      /\ counter' = counter /\ markers' = markers /\ gets' = gets
  BY DEF AnswerWithout
<1>2. TypeOK
  BY DEF IInv
<1>3. /\ url \notin frontierSet /\ frontierSet = ToSet(crawl.frontier)
      /\ IsInjective(crawl.frontier) /\ crawl.visited \cap frontierSet = {}
  BY <1>1, InHandFacts
<1>4. counter' \in [Hosts -> Nat] /\ \A h \in Hosts : counter[h] <= counter'[h]
  BY <1>1, <1>2 DEF TypeOK
<1>5. markers' \in SUBSET Hosts /\ \A h \in markers' : h \in markers
  BY <1>1, <1>2 DEF TypeOK
<1>6. /\ Spent \in Progress /\ Spent.frontier = crawl.frontier
      /\ Spent.visited = crawl.visited \cup {url} /\ Spent.attempted = crawl.attempted + 1
      /\ \A h \in Hosts : Spent.fetched[h] = crawl.fetched[h] + InFlight(h)
      /\ Follows(Spent) /\ Whole(Spent, {})
  BY <1>1, SpentFacts
<1> HIDE DEF Spent
<1>7. frontierSet' = ToSet(Spent.frontier) /\ Spent.visited \cap frontierSet' = {}
  BY <1>1, <1>3, <1>6
<1> QED
  BY <1>1, <1>3, <1>4, <1>5, <1>6, <1>7, ReportStep

LEMMA AnswerWithStep ==
    ASSUME IInv, AnswerWith
    PROVE  IInv' /\ NothingForgotten
<1> DEFINE links == NewLinks(url)
           progress == [Spent EXCEPT !.frontier = @ \o links, !.followed = @ \cup {url}]
<1>1. /\ phase = "allowed" /\ Reported(progress)
      /\ frontierSet' = frontierSet \cup ToSet(links)
      /\ counter' = counter /\ markers' = markers /\ gets' = gets
  BY DEF AnswerWith
<1>2. TypeOK /\ crawl \in Progress
  BY DEF IInv, TypeOK
<1>3. /\ url \in Pages /\ url \notin frontierSet /\ frontierSet = ToSet(crawl.frontier)
      /\ IsInjective(crawl.frontier) /\ crawl.visited \cap frontierSet = {}
  BY <1>1, InHandFacts
<1>4. /\ links \in Seq(Pages) /\ IsInjective(links)
      /\ ToSet(links) = ToSet(Links[url]) \cap (Allowed \ (Spent.visited \cup frontierSet))
  <2>1. Links[url] \in Seq(Pages) /\ IsInjective(Links[url])
    BY <1>3
  <2> QED
    BY <2>1, KeptInOrder, KeptOnce DEF NewLinks
<1> HIDE DEF links
<1>5. /\ Spent \in Progress /\ Spent.frontier = crawl.frontier
      /\ Spent.visited = crawl.visited \cup {url} /\ Spent.attempted = crawl.attempted + 1
      /\ Spent.followed = crawl.followed /\ Spent.dropped = crawl.dropped
      /\ Spent.origin = crawl.origin
      /\ \A h \in Hosts : Spent.fetched[h] = crawl.fetched[h] + InFlight(h)
      /\ Follows(Spent) /\ Whole(Spent, {})
  BY <1>1, SpentFacts
<1> HIDE DEF Spent
<1>6. /\ crawl.frontier \o links \in Seq(Pages) /\ IsInjective(crawl.frontier \o links)
      /\ ToSet(crawl.frontier \o links) = ToSet(crawl.frontier) \cup ToSet(links)
  <2>1. crawl.frontier \in Seq(Pages)
    BY <1>2, ProgressFields
  <2>2. Range(crawl.frontier) \cap Range(links) = {}
    BY <1>3, <1>4, ToSetIsRange
  <2> QED
    BY <1>3, <1>4, <2>1, <2>2, JoinedOnce, ToSetIsRange
<1>7. /\ progress \in Progress /\ progress.frontier = crawl.frontier \o links
      /\ progress.visited = Spent.visited /\ progress.attempted = Spent.attempted
      /\ progress.followed = Spent.followed \cup {url} /\ progress.dropped = Spent.dropped
      /\ progress.origin = Spent.origin /\ progress.fetched = Spent.fetched
  BY <1>3, <1>5, <1>6 DEF Progress
<1> HIDE DEF progress
<1>8. Follows(progress)
  BY <1>5, <1>6, <1>7 DEF Follows
<1>9. Whole(progress, {})
  <2>1. Known(progress) \subseteq Known(Spent) \cup (Allowed \cap ToSet(Links[url]))
    BY <1>7 DEF Known
  <2>2. Allowed \cap ToSet(Links[url]) \subseteq ToSet(links) \cup Spent.visited \cup ToSet(crawl.frontier)
    BY <1>3, <1>4
  <2> QED
    BY <1>4, <1>5, <1>6, <1>7, <2>1, <2>2 DEF Whole
<1>10. counter' \in [Hosts -> Nat] /\ \A h \in Hosts : counter[h] <= counter'[h]
  BY <1>1, <1>2 DEF TypeOK
<1>11. markers' \in SUBSET Hosts /\ \A h \in markers' : h \in markers
  BY <1>1, <1>2 DEF TypeOK
<1>12. frontierSet' = ToSet(progress.frontier) /\ progress.visited \cap frontierSet' = {}
  BY <1>1, <1>3, <1>4, <1>5, <1>6, <1>7
<1> QED
  BY <1>1, <1>5, <1>6, <1>7, <1>8, <1>9, <1>10, <1>11, <1>12, ReportStep

LEMMA RefuseEarlyStep ==
    ASSUME IInv, RefuseEarly
    PROVE  IInv' /\ NothingForgotten
<1> DEFINE progress == [crawl EXCEPT !.attempted = @ + 1, !.visited = @ \cup {url}]
<1>1. /\ phase = "ingest" /\ Reported(progress) /\ frontierSet' = frontierSet
      /\ counter' = counter /\ markers' = markers /\ gets' = gets
  BY DEF RefuseEarly
<1>2. TypeOK /\ crawl \in Progress
  BY DEF IInv, TypeOK
<1>3. /\ url \in Pages /\ url \notin frontierSet /\ frontierSet = ToSet(crawl.frontier)
      /\ IsInjective(crawl.frontier) /\ crawl.visited \cap frontierSet = {}
      /\ InHand = {url} /\ Whole(crawl, {url})
  BY <1>1, InHandFacts
<1>types. crawl.attempted + 1 \in Nat /\ crawl.visited \cup {url} \in SUBSET Pages
  BY <1>2, <1>3, ProgressFields
<1>4. /\ progress \in Progress /\ progress.frontier = crawl.frontier
      /\ progress.visited = crawl.visited \cup {url} /\ progress.attempted = crawl.attempted + 1
      /\ progress.followed = crawl.followed /\ progress.dropped = crawl.dropped
      /\ progress.origin = crawl.origin /\ progress.fetched = crawl.fetched
  BY <1>2, <1>types DEF Progress
<1> HIDE DEF progress
<1>5. \A h \in Hosts : InFlight(h) = 0 /\ crawl.fetched[h] \in Nat
  BY <1>1, <1>2, ProgressFields DEF InFlight
<1>6. Follows(progress)
  BY <1>3, <1>4, <1>5 DEF Follows
<1>7. Whole(progress, {})
  BY <1>3, <1>4 DEF Whole, Known
<1>8. counter' \in [Hosts -> Nat] /\ \A h \in Hosts : counter[h] <= counter'[h]
  BY <1>1, <1>2 DEF TypeOK
<1>9. markers' \in SUBSET Hosts /\ \A h \in markers' : h \in markers
  BY <1>1, <1>2 DEF TypeOK
<1>10. \A h \in Hosts : progress.fetched[h] = crawl.fetched[h] + InFlight(h)
  BY <1>4, <1>5
<1>11. frontierSet' = ToSet(progress.frontier) /\ progress.visited \cap frontierSet' = {}
  BY <1>1, <1>3, <1>4
<1> QED
  BY <1>1, <1>3, <1>4, <1>6, <1>7, <1>8, <1>9, <1>10, <1>11, ReportStep

LEMMA RefuseBudgetStep ==
    ASSUME IInv, RefuseBudget
    PROVE  IInv' /\ NothingForgotten
<1> DEFINE h0 == HostOf[url]
           progress == [crawl EXCEPT !.attempted = @ + 1, !.frontier = Append(@, url)]
<1>1. /\ phase = "ingest" /\ Reported(progress) /\ frontierSet' = frontierSet \cup {url}
      /\ counter' = [counter EXCEPT ![h0] = @ + 1] /\ markers' = markers \cup {h0} /\ gets' = gets
      /\ counter[h0] >= budget[h0]
  BY DEF RefuseBudget
<1>2. TypeOK /\ crawl \in Progress
  BY DEF IInv, TypeOK
<1>3. /\ url \in Pages /\ url \notin frontierSet /\ frontierSet = ToSet(crawl.frontier)
      /\ IsInjective(crawl.frontier) /\ crawl.visited \cap frontierSet = {}
      /\ InHand = {url} /\ Whole(crawl, {url}) /\ h0 \in Hosts /\ url \notin crawl.visited
  BY <1>1, InHandFacts
<1> DEFINE frontier == Append(crawl.frontier, url)
<1>4. /\ frontier \in Seq(Pages) /\ IsInjective(frontier)
      /\ ToSet(frontier) = ToSet(crawl.frontier) \cup {url}
  BY <1>2, <1>3, ProgressFields, OnceMore
<1> HIDE DEF frontier
<1>5. /\ progress \in Progress /\ progress.frontier = frontier
      /\ progress.visited = crawl.visited /\ progress.attempted = crawl.attempted + 1
      /\ progress.followed = crawl.followed /\ progress.dropped = crawl.dropped
      /\ progress.origin = crawl.origin /\ progress.fetched = crawl.fetched
  <2>1. progress = [crawl EXCEPT !.attempted = @ + 1, !.frontier = frontier]
    BY DEF frontier
  <2> HIDE DEF progress
  <2>2. crawl.attempted + 1 \in Nat
    BY <1>2, ProgressFields
  <2> QED
    BY <1>2, <1>4, <2>1, <2>2 DEF Progress
<1> HIDE DEF progress, h0
<1>6. \A h \in Hosts : InFlight(h) = 0 /\ crawl.fetched[h] \in Nat
  BY <1>1, <1>2, ProgressFields DEF InFlight
<1>7. Follows(progress)
  BY <1>3, <1>4, <1>5, <1>6 DEF Follows
<1>8. Whole(progress, {})
  BY <1>3, <1>4, <1>5 DEF Whole, Known
<1>9. counter' \in [Hosts -> Nat] /\ \A h \in Hosts : counter[h] <= counter'[h]
  <2>1. counter \in [Hosts -> Nat]
    BY <1>2 DEF TypeOK
  <2> QED
    BY <1>1, <1>3, <2>1
<1>10. /\ markers' \in SUBSET Hosts
       /\ \A h \in markers' : h \in markers \/ counter[h] >= budget[h]
  BY <1>1, <1>2, <1>3 DEF TypeOK
<1>11. \A h \in Hosts : progress.fetched[h] = crawl.fetched[h] + InFlight(h)
  BY <1>5, <1>6
<1>12. frontierSet' = ToSet(progress.frontier) /\ progress.visited \cap frontierSet' = {}
  BY <1>1, <1>3, <1>4, <1>5
<1> QED
  BY <1>1, <1>4, <1>5, <1>7, <1>8, <1>9, <1>10, <1>11, <1>12, ReportStep

(* PageBudget.allow spends a slot, and the GET is under way. *)
LEMMA AllowStep ==
    ASSUME IInv, Allow
    PROVE  IInv' /\ NothingForgotten
<1> DEFINE h0 == HostOf[url]
<1>1. /\ phase = "ingest" /\ counter[h0] < budget[h0]
      /\ counter' = [counter EXCEPT ![h0] = @ + 1] /\ gets' = [gets EXCEPT ![h0] = @ + 1]
      /\ phase' = "allowed"
      /\ UNCHANGED <<crawl, frontierSet, url, budget, stall, reason, saved, markers, lost, starts>>
  BY DEF Allow
<1>2. /\ crawl' = crawl /\ frontierSet' = frontierSet /\ url' = url /\ budget' = budget
      /\ stall' = stall /\ reason' = reason /\ saved' = saved /\ markers' = markers
      /\ lost' = lost /\ starts' = starts
  BY <1>1
<1>3. /\ TypeOK /\ FrontierConsistent /\ SavedIsWhole /\ RunIsWhole /\ SavedIsKept /\ BudgetHolds
      /\ GetsAreCounted
  BY DEF IInv
<1>4. h0 \in Hosts /\ reason = "none"
  BY <1>1, InHandFacts
<1>5. /\ lost \in Nat /\ Caps \subseteq Nat
      /\ \A h \in Hosts : /\ gets[h] \in Nat /\ crawl.fetched[h] \in Nat
                          /\ budget[h] \in Nat /\ counter[h] \in Nat
  BY <1>3, ProgressFields DEF TypeOK
<1>6. /\ counter' \in [Hosts -> Nat] /\ gets' \in [Hosts -> Nat]
      /\ counter'[h0] = counter[h0] + 1 /\ gets'[h0] = gets[h0] + 1
      /\ \A h \in Hosts : h # h0 => counter'[h] = counter[h] /\ gets'[h] = gets[h]
  <2>1. counter \in [Hosts -> Nat] /\ gets \in [Hosts -> Nat]
    BY <1>3 DEF TypeOK
  <2> HIDE DEF h0
  <2> QED
    BY <1>1, <1>4, <2>1
<1>7. TypeOK'
  BY <1>1, <1>2, <1>3, <1>6 DEF TypeOK, Phases
<1>8. FrontierConsistent' /\ SavedIsKept' /\ StuckAtEnd'
  BY <1>1, <1>2, <1>3 DEF FrontierConsistent, SavedIsKept, StuckAtEnd, InHand, Keeps
<1>9. SavedIsWhole' /\ RunIsWhole'
  BY <1>1, <1>2, <1>3 DEF SavedIsWhole, RunIsWhole, Whole, Known, InHand
<1> DEFINE d(h) == IF h = h0 THEN 1 ELSE 0
<1>10. \A h \in Hosts : d(h) \in Nat /\ InFlight(h) = 0 /\ InFlight(h)' = d(h) /\ gets'[h] = gets[h] + d(h)
  <2>1. \A h \in Hosts : InFlight(h) = 0 /\ InFlight(h)' = d(h)
    BY <1>1, <1>2 DEF InFlight
  <2>2. \A h \in Hosts : gets'[h] = gets[h] + d(h)
    BY <1>5, <1>6
  <2> QED
    BY <2>1, <2>2
<1>11. \A h \in Hosts : Left(h)' \in Nat /\ Left(h) = Left(h)' + d(h)
  <2> SUFFICES ASSUME NEW h \in Hosts PROVE Left(h)' \in Nat /\ Left(h) = Left(h)' + d(h)
    OBVIOUS
  <2>1. /\ budget' = budget /\ budget[h] \in Nat /\ counter[h] \in Nat
        /\ counter'[h] = counter[h] + d(h)
    BY <1>2, <1>5, <1>6
  <2>2. d(h) = 1 => counter[h] < budget[h]
    BY <1>1
  <2>3. d(h) \in {0, 1}
    OBVIOUS
  <2> HIDE DEF d
  <2> QED
    BY ONLY <2>1, <2>2, <2>3 DEF Left
<1> HIDE DEF h0, d
<1>12. BudgetHolds'
  <2> SUFFICES ASSUME NEW h \in Hosts
               PROVE  \E cap \in Caps : crawl.fetched[h] + InFlight(h)' + Left(h)' <= cap
    BY <1>2 DEF BudgetHolds
  <2>1. PICK cap \in Caps : crawl.fetched[h] + InFlight(h) + Left(h) <= cap
    BY <1>1, <1>3 DEF BudgetHolds
  <2>2. crawl.fetched[h] + InFlight(h)' + Left(h)' = crawl.fetched[h] + InFlight(h) + Left(h)
    BY <1>5, <1>10, <1>11
  <2> QED
    BY <2>1, <2>2
<1>13. GetsAreCounted'
  <2> DEFINE m == crawl.attempted % CheckpointEvery
  <2> SUFFICES ASSUME CheckpointEvery > 0, NEW h \in Hosts
               PROVE  /\ gets'[h] <= crawl.fetched[h] + InFlight(h)' + lost
                      /\ \A s \in saved : gets'[h] <= s.fetched[h] + lost + m + InFlight(h)'
    BY <1>1, <1>2 DEF GetsAreCounted
  <2>1. /\ gets[h] <= crawl.fetched[h] + 0 + lost
        /\ \A s \in saved : gets[h] <= s.fetched[h] + lost + m + 0
    BY <1>1, <1>3, <1>10 DEF GetsAreCounted
  <2>2. m \in Nat
    <3>1. crawl.attempted \in Nat /\ CheckpointEvery \in Nat
      BY <1>3, ProgressFields DEF TypeOK
    <3>2. m \in 0 .. CheckpointEvery - 1
      BY <3>1, OneMoreAttempt
    <3> QED
      BY <3>2
  <2>3. /\ gets[h] \in Nat /\ d(h) \in Nat /\ gets'[h] = gets[h] + d(h) /\ InFlight(h)' = d(h)
        /\ crawl.fetched[h] \in Nat
    BY <1>5, <1>10
  <2> HIDE DEF m
  <2>4. gets'[h] <= crawl.fetched[h] + InFlight(h)' + lost
    BY <1>5, <2>1, <2>3
  <2>5. ASSUME NEW s \in saved PROVE gets'[h] <= s.fetched[h] + lost + m + InFlight(h)'
    <3>1. s.fetched[h] \in Nat
      BY <1>3, ProgressFields DEF TypeOK
    <3>2. gets[h] <= s.fetched[h] + lost + m + 0
      BY <2>1
    <3> QED
      BY <1>5, <2>2, <2>3, <3>1, <3>2
  <2> QED
    BY <2>4, <2>5
<1>14. BudgetAcrossRuns'
  <2> SUFFICES ASSUME CheckpointEvery > 0, NEW h \in Hosts
               PROVE  \E cap \in Caps : gets'[h] <= cap + lost
    BY <1>2 DEF BudgetAcrossRuns
  <2>1. PICK cap \in Caps : crawl.fetched[h] + InFlight(h)' + Left(h)' <= cap
    BY <1>1, <1>2, <1>12 DEF BudgetHolds
  <2>2. gets'[h] <= crawl.fetched[h] + InFlight(h)' + lost
    BY <1>1, <1>2, <1>13 DEF GetsAreCounted
  <2>3. Left(h)' \in Nat /\ InFlight(h)' \in Nat /\ gets[h] \in Nat /\ d(h) \in Nat
    BY <1>5, <1>10, <1>11
  <2>4. cap \in Nat /\ crawl.fetched[h] \in Nat /\ gets'[h] \in Nat
    BY <1>5, <1>10, <2>3
  <2>5. lost \in Nat
    BY <1>5
  <2> HIDE DEF InFlight, Left
  <2>6. gets'[h] <= cap + lost
    BY ONLY <2>1, <2>2, <2>3, <2>4, <2>5
  <2> QED
    BY <2>6
<1>17. MarkersEarned'
  <2> SUFFICES ASSUME crawl.origin # starts, NEW h \in markers
               PROVE  counter'[h] >= budget[h]
    BY <1>2 DEF MarkersEarned
  <2>1. h \in Hosts /\ counter[h] >= budget[h]
    BY <1>3 DEF IInv, TypeOK, MarkersEarned
  <2>2. counter[h] \in Nat /\ budget[h] \in Nat
    BY <1>5, <2>1
  <2>3. counter'[h] = counter[h] \/ counter'[h] = counter[h] + 1
    BY <1>6, <2>1
  <2> QED
    BY <2>1, <2>2, <2>3
<1>15. StopIsJustified'
  BY <1>2, <1>4 DEF StopIsJustified
<1>16. NothingForgotten
  <2>1. \A s \in saved, h \in Hosts : s.fetched[h] \in Nat
    BY <1>3, ProgressFields DEF TypeOK
  <2> QED
    BY <1>2, <1>3, <2>1 DEF NothingForgotten, SavedIsWhole
<1> QED
  BY <1>17, <1>7, <1>8, <1>9, <1>12, <1>13, <1>14, <1>15, <1>16 DEF IInv

(* The next page is taken off the frontier, or found stuck and put back. *)
LEMMA PopStep ==
    ASSUME IInv, Pop
    PROVE  IInv' /\ NothingForgotten
<1> DEFINE p == Head(crawl.frontier)
           rest == Tail(crawl.frontier)
           n == Len(crawl.frontier)
<1>1. /\ phase = "loop" /\ crawl.frontier # <<>>
      /\ budget' = budget /\ counter' = counter /\ reason' = reason /\ saved' = saved
      /\ markers' = markers /\ gets' = gets /\ lost' = lost /\ starts' = starts
  BY DEF Pop
<1>2. /\ TypeOK /\ SavedIsWhole /\ SavedIsKept /\ StuckAtEnd /\ BudgetHolds /\ GetsAreCounted
      /\ BudgetAcrossRuns /\ crawl \in Progress
  BY DEF IInv, TypeOK
<1>3. /\ InHand = {} /\ url = NoPage /\ Whole(crawl, {}) /\ reason = "none"
      /\ frontierSet = ToSet(crawl.frontier) /\ IsInjective(crawl.frontier)
      /\ crawl.visited \cap frontierSet = {}
  BY <1>1, InHandFacts
<1>4. /\ crawl.frontier \in Seq(Pages) /\ n \in Nat
      /\ rest \in Seq(Pages) /\ IsInjective(rest) /\ p \in frontierSet
      /\ ToSet(rest) = frontierSet \ {p}
      /\ Len(rest) = n - 1 /\ \A i \in 1 .. n - 1 : rest[i] = crawl.frontier[i + 1]
  <2>1. crawl.frontier \in Seq(Pages)
    BY <1>2, ProgressFields
  <2>2. /\ rest \in Seq(Pages) /\ IsInjective(rest) /\ p \in frontierSet
        /\ ToSet(rest) = frontierSet \ {p}
    BY <1>1, <1>3, <2>1, TailOfQueue, ToSetIsRange
  <2>3. Len(rest) = n - 1 /\ \A i \in 1 .. n - 1 : rest[i] = crawl.frontier[i + 1]
    BY <1>1, <2>1, HeadTailProperties
  <2>4. n \in Nat
    BY <2>1
  <2> QED
    BY <2>1, <2>2, <2>3, <2>4
<1>5. /\ p \in Pages /\ p \in Allowed /\ p # NoPage /\ p \notin crawl.visited
      /\ frontierSet \subseteq Pages
  BY <1>2, <1>3, <1>4, ProgressFields DEF Whole
<1>6. \/ /\ HostOf[p] \in Open
         /\ crawl' = [crawl EXCEPT !.frontier = rest] /\ frontierSet' = frontierSet \ {p}
         /\ phase' = "ingest" /\ url' = p /\ stall' = stall
      \/ /\ HostOf[p] \notin Open
         /\ crawl' = [crawl EXCEPT !.frontier = Append(rest, p)] /\ frontierSet' = frontierSet
         /\ phase' = "loop" /\ url' = url /\ stall' = stall + 1
  BY <1>1, <1>5 DEF Pop, Requeued
<1>7. /\ crawl'.visited = crawl.visited /\ crawl'.fetched = crawl.fetched
      /\ crawl'.attempted = crawl.attempted /\ crawl'.followed = crawl.followed
      /\ crawl'.dropped = crawl.dropped /\ crawl'.origin = crawl.origin
  BY <1>2, <1>6 DEF Progress
<1> HIDE DEF p, rest, n, InHand
<1>8. /\ crawl'.frontier \in Seq(Pages) /\ IsInjective(crawl'.frontier)
      /\ crawl' \in Progress
      /\ frontierSet' = ToSet(crawl'.frontier) /\ ToSet(crawl'.frontier) \cup InHand' = frontierSet
      /\ frontierSet' \cap InHand' = {}
      /\ url' = NoPage <=> phase' = "loop"
  <2>1. CASE HostOf[p] \in Open
    <3>1. InHand' = {p}
      BY <1>5, <1>6, <2>1 DEF InHand
    <3>2. crawl' \in Progress /\ crawl'.frontier = rest
      BY <1>2, <1>4, <1>6, <2>1 DEF Progress
    <3> QED
      BY <1>4, <1>5, <1>6, <2>1, <3>1, <3>2
  <2>2. CASE HostOf[p] \notin Open
    <3>1. InHand' = {}
      BY <1>3, <1>6, <2>2 DEF InHand
    <3>2. /\ Append(rest, p) \in Seq(Pages) /\ IsInjective(Append(rest, p))
          /\ ToSet(Append(rest, p)) = frontierSet
      <4>1. p \notin ToSet(rest) /\ (frontierSet \ {p}) \cup {p} = frontierSet
        BY <1>4
      <4>2. /\ Append(rest, p) \in Seq(Pages) /\ IsInjective(Append(rest, p))
            /\ ToSet(Append(rest, p)) = ToSet(rest) \cup {p}
        BY <1>4, <1>5, <4>1, OnceMore
      <4> QED
        BY <1>4, <4>1, <4>2
    <3>3. crawl' \in Progress /\ crawl'.frontier = Append(rest, p)
      BY <1>2, <1>6, <2>2, <3>2 DEF Progress
    <3> QED
      BY <1>3, <1>6, <2>2, <3>1, <3>2, <3>3
  <2> QED
    BY <2>1, <2>2
<1>9. phase' # "off" /\ phase' # "allowed" /\ phase' \in Phases /\ stall' \in Nat
  <2>1. stall \in Nat
    BY <1>2 DEF TypeOK
  <2>2. phase' \in {"ingest", "loop"} /\ stall' \in {stall, stall + 1}
    BY <1>6
  <2> QED
    BY ONLY <2>1, <2>2 DEF Phases
<1>10. TypeOK'
  <2>1. url' \in Pages \cup {NoPage} /\ frontierSet' \in SUBSET Pages
    BY <1>3, <1>5, <1>6
  <2> QED
    BY <1>1, <1>2, <1>8, <1>9, <2>1 DEF TypeOK
<1>11. FrontierConsistent'
  <2>1. crawl'.visited \cap (frontierSet' \cup InHand') = {}
    BY <1>3, <1>7, <1>8
  <2> QED
    BY <1>8, <2>1 DEF FrontierConsistent, InHand
<1>12. SavedIsWhole'
  BY <1>1, <1>2 DEF SavedIsWhole, Whole, Known
<1>13. RunIsWhole'
  <2>1. Known(crawl') = Known(crawl)
    BY <1>7 DEF Known
  <2>2. Whole(crawl, InHand)'
    BY <1>1, <1>3, <1>7, <1>8, <2>1 DEF Whole, Known
  <2>3. url' \notin frontierSet'
    BY <1>3, <1>5, <1>6
  <2> QED
    BY <1>1, <1>3, <1>8, <2>2, <2>3 DEF RunIsWhole
<1>14. SavedIsKept'
  <2> SUFFICES ASSUME NEW s \in saved, s.origin = crawl.origin
               PROVE  Keeps(s, crawl', InHand')
    BY <1>1, <1>7 DEF SavedIsKept, Keeps
  <2>1. Keeps(s, crawl, {})
    BY <1>1, <1>2, <1>3 DEF SavedIsKept
  <2> QED
    BY <1>3, <1>7, <1>8, <2>1 DEF Keeps
<1>15. StuckAtEnd'
  <2> SUFFICES ASSUME phase' = "loop", NEW i \in 1 .. Len(crawl'.frontier),
                      i > Len(crawl'.frontier) - stall'
               PROVE  HostOf[crawl'.frontier[i]] \notin Open
    BY <1>1 DEF StuckAtEnd, Open, Budgeted
  <2>1. HostOf[p] \notin Open /\ crawl'.frontier = Append(rest, p) /\ stall' = stall + 1
    BY <1>2, <1>6 DEF Progress
  <2>2. /\ Len(Append(rest, p)) = n /\ Append(rest, p)[n] = p
        /\ \A j \in 1 .. n - 1 : Append(rest, p)[j] = rest[j]
    <3>1. n - 1 + 1 = n
      BY <1>4
    <3> QED
      BY <1>4, <1>5, <3>1, AppendProperties
  <2>3. CASE i = n
    BY <2>1, <2>2, <2>3
  <2>4. CASE i # n
    <3>1. stall \in Nat
      BY <1>2 DEF TypeOK
    <3>2. i \in 1 .. n - 1 /\ i + 1 \in 1 .. n /\ i + 1 > n - stall
      BY <1>4, <2>1, <2>2, <2>4, <3>1
    <3>3. HostOf[crawl.frontier[i + 1]] \notin Open
      BY <1>1, <1>2, <3>2 DEF StuckAtEnd, n
    <3> QED
      BY <1>4, <2>1, <2>2, <3>2, <3>3
  <2> QED
    BY <2>3, <2>4
<1>16. \A h \in Hosts : InFlight(h) = 0 /\ InFlight(h)' = 0 /\ Left(h)' = Left(h)
  BY <1>1, <1>9 DEF InFlight, Left
<1>17. BudgetHolds'
  BY <1>1, <1>2, <1>7, <1>16 DEF BudgetHolds
<1>18. GetsAreCounted'
  BY <1>1, <1>2, <1>7, <1>9, <1>16 DEF GetsAreCounted
<1>19. BudgetAcrossRuns' /\ StopIsJustified'
  BY <1>1, <1>2, <1>3 DEF BudgetAcrossRuns, StopIsJustified
<1>20. NothingForgotten
  <2>1. \A s \in saved, h \in Hosts : s.fetched[h] \in Nat
    BY <1>2, ProgressFields DEF TypeOK
  <2> QED
    BY <1>1, <1>2, <2>1 DEF NothingForgotten, SavedIsWhole
<1>21. MarkersEarned'
  BY <1>1, <1>7 DEF IInv, MarkersEarned
<1> QED
  BY <1>21, <1>10, <1>11, <1>12, <1>13, <1>14, <1>15, <1>17, <1>18, <1>19, <1>20 DEF IInv

LEMMA StopStep ==
    ASSUME IInv, StopEmpty \/ StopBudget
    PROVE  IInv' /\ NothingForgotten
<1>1. /\ phase = "loop" /\ lost' = lost
      /\ \/ crawl.frontier = <<>> /\ Exit("frontier_empty", crawl)
         \/ /\ crawl.frontier # <<>> /\ Exit("budget", crawl)
            /\ Open = {} \/ stall >= Len(crawl.frontier)
  BY DEF StopEmpty, StopBudget
<1>2. TypeOK /\ StuckAtEnd /\ crawl \in Progress
  BY DEF IInv, TypeOK
<1>3. InHand = {} /\ Whole(crawl, {})
  BY <1>1, InHandFacts
<1>4. lost \in Nat /\ \A h \in Hosts : crawl.fetched[h] \in Nat /\ InFlight(h) = 0
  BY <1>1, <1>2, ProgressFields DEF TypeOK, InFlight
<1>5. Follows(crawl)
  BY <1>3, <1>4 DEF Follows
<1>6. /\ \A h \in Hosts : crawl.fetched[h] <= crawl.fetched[h] + InFlight(h)
      /\ \A h \in Hosts : crawl.fetched[h] + InFlight(h) + lost <= crawl.fetched[h] + lost'
      /\ lost' \in Nat /\ lost <= lost'
  BY <1>1, <1>4
<1>7. /\ crawl' = crawl /\ budget' = budget /\ markers' = markers /\ starts' = starts
  BY <1>1 DEF Exit, process
<1>counter. counter' = counter
  BY <1>1 DEF Exit, process
<1>8. CASE crawl.frontier = <<>> /\ Exit("frontier_empty", crawl)
  <2>1. ToSet(crawl.frontier) = {}
    BY <1>8 DEF ToSet
  <2>2. Known(crawl) \subseteq crawl.visited \cup crawl.dropped
    BY <1>3, <2>1 DEF Whole
  <2>3. reason' = "frontier_empty"
    BY <1>8 DEF Exit
  <2>4. StopIsJustified'
    BY <1>7, <2>2, <2>3 DEF StopIsJustified, Known
  <2> QED
    BY <1>1, <1>2, <1>3, <1>5, <1>6, <1>8, <2>4, ExitStep
<1>9. CASE /\ crawl.frontier # <<>> /\ Exit("budget", crawl)
           /\ Open = {} \/ stall >= Len(crawl.frontier)
  <2>1. \A p \in ToSet(crawl.frontier) : HostOf[p] \notin Open
    <3> SUFFICES ASSUME NEW i \in 1 .. Len(crawl.frontier)
                 PROVE  HostOf[crawl.frontier[i]] \notin Open
      BY <1>2, ProgressFields, LenProperties DEF ToSet
    <3>1. CASE Open = {}
      BY <3>1
    <3>2. CASE stall >= Len(crawl.frontier)
      <4>1. Len(crawl.frontier) \in Nat /\ stall \in Nat
        BY <1>2, ProgressFields DEF TypeOK
      <4>2. i > Len(crawl.frontier) - stall
        BY <3>2, <4>1
      <4> QED
        BY <1>1, <1>2, <4>2 DEF StuckAtEnd
    <3> QED
      BY <1>9, <3>1, <3>2
  <2>2. reason' = "budget"
    BY <1>9 DEF Exit
  <2>4. ASSUME NEW p \in ToSet(crawl.frontier) PROVE HasHadItsBudget(HostOf[p])
    <3> DEFINE h == HostOf[p]
    <3>1. h \in Hosts /\ h \notin Open
      BY <1>2, <2>1, ProgressFields
    <3> HIDE DEF h
    <3>2. budget[h] \in Nat /\ counter[h] \in Nat
      BY <1>2, <3>1 DEF TypeOK
    <3>3. CASE h \in markers
      BY <3>3 DEF IInv, MarkersEarned, HasHadItsBudget, h
    <3>4. CASE h \notin markers
      <4>1. counter[h] >= budget[h]
        BY <3>1, <3>2, <3>4 DEF Open, Budgeted
      <4> QED
        BY <4>1 DEF HasHadItsBudget, h
    <3> QED
      BY <3>3, <3>4
  <2>3. StopIsJustified'
    BY <1>7, <1>counter, <1>9, <2>1, <2>2, <2>4
       DEF StopIsJustified, HasHadItsBudget, Open, Budgeted
  <2> QED
    BY <1>1, <1>2, <1>3, <1>5, <1>6, <1>9, <2>3, ExitStep
<1> QED
  BY <1>1, <1>8, <1>9

LEMMA RaiseStep ==
    ASSUME IInv, Raise
    PROVE  IInv' /\ NothingForgotten
<1> DEFINE progress == [crawl EXCEPT !.dropped = @ \cup InHand]
<1>1. /\ phase # "off" /\ Exit("none", progress)
      /\ lost' = IF phase = "allowed" THEN lost + 1 ELSE lost
  BY DEF Raise, InHand
<1>2. TypeOK /\ crawl \in Progress
  BY DEF IInv, TypeOK
<1>3. Whole(crawl, InHand) /\ InHand \subseteq Pages
  BY <1>1, InHandFacts
<1> HIDE DEF InHand
<1>4. /\ progress \in Progress /\ progress.frontier = crawl.frontier
      /\ progress.visited = crawl.visited /\ progress.attempted = crawl.attempted
      /\ progress.followed = crawl.followed /\ progress.dropped = crawl.dropped \cup InHand
      /\ progress.origin = crawl.origin /\ progress.fetched = crawl.fetched
  BY <1>2, <1>3 DEF Progress
<1> HIDE DEF progress
<1>5. lost \in Nat /\ \A h \in Hosts : crawl.fetched[h] \in Nat /\ InFlight(h) \in Nat
  BY <1>2, ProgressFields DEF TypeOK, InFlight
<1>6. \A h \in Hosts : InFlight(h) + lost <= lost'
  BY <1>1, <1>5 DEF InFlight
<1>7. lost' \in Nat /\ lost <= lost'
  BY <1>1, <1>5
<1>8. \A h \in Hosts : /\ progress.fetched[h] <= crawl.fetched[h] + InFlight(h)
                       /\ crawl.fetched[h] + InFlight(h) + lost <= progress.fetched[h] + lost'
  BY <1>4, <1>5, <1>6, <1>7
<1>9. Follows(progress)
  BY <1>4, <1>5 DEF Follows
<1>10. Whole(progress, {})
  BY <1>3, <1>4 DEF Whole, Known
<1>11. StopIsJustified'
  BY <1>1 DEF StopIsJustified, Exit
<1> QED
  BY <1>1, <1>4, <1>7, <1>8, <1>9, <1>10, <1>11, ExitStep

LEMMA RaiseInLinksStep ==
    ASSUME IInv, RaiseInLinks
    PROVE  IInv' /\ NothingForgotten
<1> DEFINE progress == [Spent EXCEPT !.dropped = @ \cup {url}]
<1>1. phase = "allowed" /\ Exit("none", progress) /\ lost' = lost
  BY DEF RaiseInLinks
<1>2. TypeOK /\ crawl \in Progress
  BY DEF IInv, TypeOK
<1>3. url \in Pages
  BY <1>1, InHandFacts
<1>4. /\ Spent \in Progress /\ Follows(Spent) /\ Whole(Spent, {})
      /\ \A h \in Hosts : Spent.fetched[h] = crawl.fetched[h] + InFlight(h)
  BY <1>1, SpentFacts
<1> HIDE DEF Spent
<1>5. /\ progress \in Progress /\ progress.frontier = Spent.frontier
      /\ progress.visited = Spent.visited /\ progress.attempted = Spent.attempted
      /\ progress.followed = Spent.followed /\ progress.dropped = Spent.dropped \cup {url}
      /\ progress.origin = Spent.origin /\ progress.fetched = Spent.fetched
  BY <1>3, <1>4 DEF Progress
<1> HIDE DEF progress
<1>6. lost \in Nat /\ \A h \in Hosts : crawl.fetched[h] \in Nat /\ InFlight(h) \in Nat
  BY <1>2, ProgressFields DEF TypeOK, InFlight
<1>7. \A h \in Hosts : /\ progress.fetched[h] <= crawl.fetched[h] + InFlight(h)
                       /\ crawl.fetched[h] + InFlight(h) + lost <= progress.fetched[h] + lost'
  BY <1>1, <1>4, <1>5, <1>6
<1>8. lost' \in Nat /\ lost <= lost'
  BY <1>1, <1>6
<1>9. Follows(progress)
  BY <1>4, <1>5 DEF Follows
<1>10. Whole(progress, {})
  BY <1>4, <1>5 DEF Whole, Known
<1>11. StopIsJustified'
  BY <1>1 DEF StopIsJustified, Exit
<1> QED
  BY <1>1, <1>5, <1>7, <1>8, <1>9, <1>10, <1>11, ExitStep

(* Without its finally clause, the process leaves the state file as it was:
   the GETs since then are lost to it. *)
LEMMA KillStep ==
    ASSUME IInv, Kill
    PROVE  IInv' /\ NothingForgotten
<1>1. /\ phase # "off" /\ phase' = "off" /\ lost' = lost + CheckpointEvery
      /\ crawl' = crawl /\ frontierSet' = frontierSet /\ url' = url /\ budget' = budget
      /\ counter' = counter /\ stall' = stall /\ reason' = reason /\ saved' = saved
      /\ markers' = markers /\ gets' = gets /\ starts' = starts
  BY DEF Kill, process
<1>2. /\ TypeOK /\ SavedIsWhole /\ GetsAreCounted /\ BudgetAcrossRuns /\ crawl \in Progress
      /\ reason = "none"
  BY <1>1, InHandFacts DEF IInv, TypeOK
<1>3. /\ lost \in Nat /\ CheckpointEvery \in Nat /\ Caps \subseteq Nat
      /\ \A h \in Hosts : gets[h] \in Nat /\ InFlight(h) \in {0, 1}
      /\ \A s \in saved, h \in Hosts : s.fetched[h] \in Nat
  BY <1>2, ProgressFields DEF TypeOK, InFlight
<1>4. TypeOK'
  BY <1>1, <1>2, <1>3 DEF TypeOK, Phases
<1>5. SavedIsWhole'
  BY <1>1, <1>2 DEF SavedIsWhole, Whole, Known
<1>6. FrontierConsistent' /\ RunIsWhole' /\ SavedIsKept' /\ StuckAtEnd' /\ BudgetHolds' /\ StopIsJustified'
      /\ MarkersEarned'
  BY <1>1, <1>2 DEF FrontierConsistent, RunIsWhole, SavedIsKept, StuckAtEnd, BudgetHolds, StopIsJustified,
         IInv, MarkersEarned
<1>7. GetsAreCounted'
  <2> DEFINE m == crawl.attempted % CheckpointEvery
  <2> SUFFICES ASSUME CheckpointEvery > 0, NEW h \in Hosts, NEW s \in saved
               PROVE  gets[h] <= s.fetched[h] + (lost + CheckpointEvery)
    BY <1>1 DEF GetsAreCounted
  <2> DEFINE f == s.fetched[h]
             v == InFlight(h)
             g == gets[h]
  <2>1. g <= f + lost + m + v
    BY <1>1, <1>2 DEF GetsAreCounted
  <2>2. m \in 0 .. CheckpointEvery - 1
    BY <1>2, ProgressFields, OneMoreAttempt
  <2>3. g \in Nat /\ f \in Nat /\ (v = 0 \/ v = 1) /\ lost \in Nat /\ CheckpointEvery \in Nat
    BY <1>3
  <2> HIDE DEF m, f, v, g
  <2>4. g <= f + (lost + CheckpointEvery)
    BY <2>1, <2>2, <2>3
  <2> QED
    BY <2>4 DEF f, g
<1>8. BudgetAcrossRuns'
  <2> SUFFICES ASSUME CheckpointEvery > 0, NEW h \in Hosts
               PROVE  \E cap \in Caps : gets[h] <= cap + (lost + CheckpointEvery)
    BY <1>1 DEF BudgetAcrossRuns
  <2>1. PICK cap \in Caps : gets[h] <= cap + lost
    BY <1>2 DEF BudgetAcrossRuns
  <2>2. cap \in Nat /\ gets[h] <= cap + (lost + CheckpointEvery)
    BY <1>3, <2>1
  <2> QED
    BY <2>2
<1>9. NothingForgotten
  BY <1>1, <1>2, <1>3 DEF NothingForgotten, SavedIsWhole
<1> QED
  BY <1>4, <1>5, <1>6, <1>7, <1>8, <1>9 DEF IInv

LEMMA StartStep ==
    ASSUME IInv, NEW cap \in Caps, StartFresh(cap) \/ StartResume(cap)
    PROVE  IInv' /\ NothingForgotten
<1>1. TypeOK /\ SavedIsWhole /\ GetsAreCounted /\ BudgetAcrossRuns
  BY DEF IInv
<1>2. \A s \in saved : s \in Progress /\ \A h \in Hosts : s.fetched[h] \in Nat
  BY <1>1, ProgressFields DEF TypeOK
<1>3. phase = "off" /\ saved' = saved /\ starts' = starts + 1 /\ starts \in Nat /\ starts < MaxStarts
  BY <1>1 DEF StartFresh, StartResume, Begin, TypeOK
<1>4. NothingForgotten
  BY <1>1, <1>2, <1>3 DEF NothingForgotten, SavedIsWhole
<1>5. CASE StartFresh(cap)
  <2> DEFINE progress == [NoProgress EXCEPT !.frontier = Seeds, !.origin = starts + 1]
  <2>1. Begin(cap, progress) /\ gets' = Zero /\ lost' = 0 /\ markers' = markers
    BY <1>5 DEF StartFresh
  <2>2. /\ progress \in Progress /\ progress.frontier = Seeds /\ progress.visited = {}
        /\ progress.fetched = Zero /\ progress.followed = {} /\ progress.dropped = {}
        /\ progress.origin = starts + 1
    <3>1. starts + 1 \in 0 .. MaxStarts /\ Zero \in [Hosts -> Nat]
      BY <1>3 DEF Zero
    <3> QED
      BY <3>1 DEF NoProgress, Progress
  <2> HIDE DEF progress
  <2>3. Known(progress) \subseteq
           (ToSet(progress.frontier) \cap Allowed) \cup progress.visited \cup progress.dropped
    BY <2>2 DEF Known
  <2>4. \A h \in Hosts : Zero[h] = 0 /\ gets'[h] = 0
    BY <2>1 DEF Zero
  <2>5. PICK c \in Caps : c \in Nat /\ c > 0
    BY CapsAreNumbers
  <2>6. \A h \in Hosts : \E d \in Caps : progress.fetched[h] <= d
    BY <2>2, <2>4, <2>5
  <2>7. \A s \in saved : s.origin # progress.origin
    <3>1. \A s \in saved : s.origin <= starts /\ s.origin \in Int
      BY <1>1, <1>2, ProgressFields DEF SavedIsWhole, Whole
    <3> QED
      BY <1>3, <2>2, <3>1
  <2>8. markers' \in SUBSET Hosts /\ gets' \in [Hosts -> Nat] /\ lost' \in Nat
    BY <1>1, <2>1 DEF TypeOK, Zero
  <2>9. /\ CheckpointEvery > 0 =>
              \A h \in Hosts : /\ gets'[h] <= progress.fetched[h] + lost'
                              /\ \A s \in saved : gets'[h] <= s.fetched[h] + lost'
    BY <1>2, <2>1, <2>2, <2>4
  <2>10. BudgetAcrossRuns'
    BY <2>1, <2>4, <2>5 DEF BudgetAcrossRuns
  <2>11. progress.origin <= starts' /\ progress.origin = starts'
    BY <1>3, <2>2
  <2> QED
    BY <1>4, <2>1, <2>2, <2>3, <2>6, <2>7, <2>8, <2>9, <2>10, <2>11, BeginStep
<1>6. CASE StartResume(cap)
  <2>1. PICK prior \in saved :
           /\ Begin(cap, prior)
           /\ markers' = {h \in markers : Remaining(cap, prior.fetched, h) = 0}
           /\ gets' = gets /\ lost' = lost
    BY <1>6 DEF StartResume
  <2>2. /\ prior \in Progress /\ Whole(prior, {})
        /\ \A h \in Hosts : \E c \in Caps : prior.fetched[h] <= c
        /\ \A s \in saved : s = prior
    BY <1>1, <1>2 DEF SavedIsWhole
  <2>3. Known(prior) \subseteq (ToSet(prior.frontier) \cap Allowed) \cup prior.visited \cup prior.dropped
    BY <2>2 DEF Whole
  <2>4. prior.origin <= starts'
    <3>1. prior.origin <= starts /\ prior.origin \in Int
      BY <2>2, ProgressFields DEF Whole
    <3> QED
      BY <1>3, <3>1
  <2>5. \A s \in saved : s.origin = prior.origin => Keeps(s, prior, {})
    BY <1>2, <2>2 DEF Keeps
  <2>6. markers' \in SUBSET Hosts /\ gets' \in [Hosts -> Nat] /\ lost' \in Nat
    BY <1>1, <2>1 DEF TypeOK
  <2>9. \A h \in markers' : Remaining(cap, prior.fetched, h) = 0
    BY <2>1
  <2>7. CheckpointEvery > 0 =>
           \A h \in Hosts : /\ gets'[h] <= prior.fetched[h] + lost'
                           /\ \A s \in saved : gets'[h] <= s.fetched[h] + lost'
    BY <1>1, <1>3, <2>1 DEF GetsAreCounted
  <2>8. BudgetAcrossRuns'
    BY <1>1, <2>1 DEF BudgetAcrossRuns
  <2> QED
    BY <1>4, <2>1, <2>2, <2>3, <2>4, <2>5, <2>6, <2>7, <2>8, <2>9, BeginStep
<1> QED
  BY <1>5, <1>6

-----------------------------------------------------------------------------
LEMMA InitIInv == Init => IInv
<1> SUFFICES ASSUME Init PROVE IInv
  OBVIOUS
<1>1. NoProgress \in Progress /\ Zero \in [Hosts -> Nat]
  BY DEF NoProgress, Progress, Zero
<1>2. TypeOK
  BY <1>1 DEF Init, TypeOK, Phases
<1>7. MarkersEarned
  BY DEF Init, MarkersEarned
<1>3. /\ FrontierConsistent /\ SavedIsWhole /\ RunIsWhole /\ SavedIsKept /\ StuckAtEnd
      /\ BudgetHolds /\ StopIsJustified
  BY DEF Init, FrontierConsistent, SavedIsWhole, RunIsWhole, SavedIsKept, StuckAtEnd,
         BudgetHolds, StopIsJustified
<1>4. \A h \in Hosts : gets[h] = 0
  BY DEF Init, Zero
<1>5. GetsAreCounted
  BY DEF Init, GetsAreCounted
<1>6. BudgetAcrossRuns
  <2>1. PICK c \in Caps : c \in Nat /\ c > 0
    BY CapsAreNumbers
  <2> QED
    BY <1>4, <2>1 DEF Init, BudgetAcrossRuns
<1> QED
  BY <1>2, <1>3, <1>5, <1>6, <1>7 DEF IInv

LEMMA NextIInv == IInv /\ [Next]_vars => IInv' /\ [NothingForgotten]_vars
<1> SUFFICES ASSUME IInv, [Next]_vars PROVE IInv' /\ [NothingForgotten]_vars
  OBVIOUS
<1>1. ASSUME NEW cap \in Caps, StartFresh(cap) \/ StartResume(cap)
      PROVE  IInv' /\ NothingForgotten
  BY <1>1, StartStep
<1>2. CASE Work
  BY <1>2, StopStep, PopStep, RefuseEarlyStep, AllowStep, RefuseBudgetStep,
     AnswerWithoutStep, AnswerWithStep DEF Work
<1>3. CASE Raise \/ RaiseInLinks \/ Kill
  BY <1>3, RaiseStep, RaiseInLinksStep, KillStep
<1>4. CASE UNCHANGED vars
  <2>1. /\ phase' = phase /\ crawl' = crawl /\ frontierSet' = frontierSet /\ url' = url
        /\ budget' = budget /\ counter' = counter /\ stall' = stall /\ reason' = reason
        /\ saved' = saved /\ markers' = markers /\ gets' = gets /\ lost' = lost /\ starts' = starts
    BY <1>4 DEF vars
  <2>2. TypeOK' /\ FrontierConsistent'
    BY <2>1 DEF IInv, TypeOK, FrontierConsistent
  <2>3. SavedIsWhole' /\ RunIsWhole' /\ SavedIsKept'
    BY <2>1 DEF IInv, SavedIsWhole, RunIsWhole, SavedIsKept, Whole, Known, Keeps, InHand
  <2>4. StuckAtEnd' /\ MarkersEarned' /\ StopIsJustified'
    BY <2>1 DEF IInv, StuckAtEnd, MarkersEarned, StopIsJustified, HasHadItsBudget, Open,
       Budgeted, Known
  <2>5. BudgetHolds' /\ GetsAreCounted' /\ BudgetAcrossRuns'
    BY <2>1 DEF IInv, BudgetHolds, GetsAreCounted, BudgetAcrossRuns, InFlight, Left
  <2> QED
    BY <1>4, <2>2, <2>3, <2>4, <2>5 DEF IInv
<1> QED
  BY <1>1, <1>2, <1>3, <1>4 DEF Next

-----------------------------------------------------------------------------
(* The crawl, its state file and what is known of its GETs stay in agreement:
   IInv holds in every state of every behaviour, kills and resumptions
   included. *)
THEOREM Invariance == Spec => []IInv
<1>1. Init => IInv
  BY InitIInv
<1>2. IInv /\ [Next]_vars => IInv'
  BY NextIInv
<1> QED
  BY <1>1, <1>2, PTL DEF Spec

(* The variables of the crawl loop keep their types. *)
THEOREM WellTyped == Spec => []TypeOK
<1>1. IInv => TypeOK
  BY DEF IInv
<1> QED
  BY <1>1, Invariance, PTL

(* Every page the crawl has heard of is in exactly one place, in memory and in
   crawl-state.json: none is lost, and none is taken twice. *)
THEOREM PagesStayAccountedFor == Spec => []PagesAccountedFor
<1>1. IInv => PagesAccountedFor
  BY DEF IInv, PagesAccountedFor, SavedCoversKnown, SavedIsWhole, Whole
<1> QED
  BY <1>1, Invariance, PTL

(* max_pages bounds the GETs to a host over a crawl and all its resumptions,
   up to what crashed runs could not record. *)
THEOREM BudgetsHoldAcrossRuns == Spec => []BudgetAcrossRuns
<1>1. IInv => BudgetAcrossRuns
  BY DEF IInv
<1> QED
  BY <1>1, Invariance, PTL

(* Neither the lap counter nor a marker that a resumption should have removed
   ends a crawl while a queued page could still be asked for, and an empty frontier means that all known pages are done. *)
THEOREM StopsAreJustified == Spec => []StopIsJustified
<1>1. IInv => StopIsJustified
  BY DEF IInv
<1> QED
  BY <1>1, Invariance, PTL

(* What one crawl-state.json knew of a crawl, the next one knows, whatever
   kills and resumptions lie between them. *)
THEOREM ResumesKeepProgress == Spec => ResumeKeepsProgress
<1>1. IInv /\ [Next]_vars => [NothingForgotten]_vars
  BY NextIInv
<1> QED
  BY <1>1, Invariance, PTL DEF Spec, ResumeKeepsProgress
===============================================================================
