----------------------------- MODULE CrawlLoop ------------------------------
(***************************************************************************)
(* The resumable breadth-first crawl of                                    *)
(* src/src/openagentsearch/pipeline/crawl.py: one process at a time works  *)
(* through a frontier, checkpoints its progress to crawl-state.json, stops *)
(* when every host's budget is spent, and may be interrupted or killed and *)
(* started again, afresh or with --resume and another page cap.            *)
(*                                                                         *)
(* LiveIngester.ingest is seen from the loop: it refuses, spends a slot of *)
(* the host's PageBudget, answers with or without a stored document, or    *)
(* raises.  The sources stage, which never touches this state, is left out.*)
(***************************************************************************)
EXTENDS Selection, SequencesExt, FiniteSets

CONSTANTS
    Pages,            \* URLs that the sites serve or link to
    Hosts,
    HostOf,           \* the host of each page
    Links,            \* what extract_links reads off each page, in order
    Allowed,          \* the pages for which url_allowed holds
    Seeds,            \* config.seeds
    Caps,             \* values of max_pages, one chosen by each invocation
    CheckpointEvery,  \* --checkpoint-every; 0 means only at exit
    MaxStarts,        \* bound: invocations in one behaviour
    NoPage

ASSUME CrawlAssumption ==
    /\ HostOf \in [Pages -> Hosts]
    /\ Links \in [Pages -> Seq(Pages)]
    /\ \A p \in Pages : IsInjective(Links[p])
    /\ Allowed \subseteq Pages
    /\ Seeds \in Seq(Pages)
    /\ Caps \subseteq Nat \ {0} /\ Caps # {}
    /\ CheckpointEvery \in Nat
    /\ MaxStarts \in Nat
    /\ NoPage \notin Pages

VARIABLES
    phase,        \* "off", or where the process is: see Phases
    crawl,        \* the loop's own progress: what _checkpoint writes
    frontierSet,  \* the set kept beside the frontier deque
    url,          \* the page passed to ingest()
    budget,       \* per host, the slots of this invocation's PageBudget
    counter,      \* per host, PageBudget's count of allow() calls
    stall,        \* pop-and-requeue cycles since the last ingest()
    reason,       \* stopped_reason of the last invocation, or "none"
    saved,        \* crawl-state.json: {} when missing, else {the progress}
    markers,      \* the hosts whose STOP-<host> file exists
    gets,         \* history: page GETs per host since the last fresh start
    lost,         \* history: GETs that ended runs may have left unrecorded
    starts        \* history: invocations so far

vars == <<phase, crawl, frontierSet, url, budget, counter, stall, reason,
          saved, markers, gets, lost, starts>>

process == <<url, budget, counter, stall>>

(* "loop" is the top of the while; "ingest" is inside ingest() before
   PageBudget.allow, "allowed" after allow() returned True. *)
Phases == {"off", "loop", "ingest", "allowed"}

(* CrawlState.  Three fields of the model are history and not in the file: the
   visited pages whose links were followed, the pages in hand when an exception
   ended an invocation (not handled, or not followed), and the invocation that
   was the fresh start of it all. *)
Progress ==
    [frontier : Seq(Pages), visited : SUBSET Pages, fetched : [Hosts -> Nat],
     attempted : Nat, followed : SUBSET Pages, dropped : SUBSET Pages,
     origin : 0 .. MaxStarts]

TypeOK ==
    /\ phase \in Phases
    /\ crawl \in Progress
    /\ frontierSet \in SUBSET Pages
    /\ url \in Pages \cup {NoPage}
    /\ budget \in [Hosts -> Nat] /\ counter \in [Hosts -> Nat]
    /\ stall \in Nat /\ lost \in Nat /\ starts \in 0 .. MaxStarts
    /\ reason \in {"none", "frontier_empty", "budget"}
    /\ \A s \in saved : s \in Progress
    /\ markers \in SUBSET Hosts
    /\ gets \in [Hosts -> Nat]

Zero == [h \in Hosts |-> 0]

NoProgress ==
    [frontier |-> <<>>, visited |-> {}, fetched |-> Zero, attempted |-> 0,
     followed |-> {}, dropped |-> {}, origin |-> 0]

Init ==
    /\ phase = "off"
    /\ crawl = NoProgress
    /\ frontierSet = {}
    /\ url = NoPage
    /\ budget = Zero /\ counter = Zero /\ stall = 0
    /\ reason = "none"
    /\ saved = {}
    /\ markers = {}
    /\ gets = Zero /\ lost = 0 /\ starts = 0

-----------------------------------------------------------------------------
(* The frontier a run starts from: the seeds that are allowed and not
   visited, each once, in order. *)
SeedFrontier(seeds, visited) ==
    LET queued[i \in 0 .. Len(seeds)] ==
            IF i = 0 THEN <<>>
            ELSE LET before == queued[i - 1]
                 IN  IF seeds[i] \in Allowed \ (visited \cup ToSet(before))
                     THEN Append(before, seeds[i]) ELSE before
    IN  queued[Len(seeds)]

(* Mutants of Remaining: no test that some budget is left; the pages of the
   earlier invocations are not subtracted. *)
RemainingUnchecked(cap, fetched, h) == cap - fetched[h]
RemainingAll(cap, fetched, h) == cap

(* max_pages - fetched_by_host[host]; a host without any is left out. *)
Remaining(cap, fetched, h) == IF cap > fetched[h] THEN cap - fetched[h] ELSE 0

(* run_crawl up to its loop, from a given progress. *)
Begin(cap, progress) ==
    /\ phase = "off"
    /\ starts < MaxStarts
    /\ starts' = starts + 1
    /\ phase' = "loop"
    /\ crawl' = [progress EXCEPT !.frontier =
                    SeedFrontier(progress.frontier, progress.visited)]
    /\ frontierSet' = ToSet(crawl'.frontier)
    /\ budget' = [h \in Hosts |-> Remaining(cap, progress.fetched, h)]
    /\ counter' = Zero
    /\ stall' = 0
    /\ url' = NoPage
    /\ reason' = "none"
    /\ UNCHANGED saved

(* Without --resume: from the seeds.  An old STOP marker stays. *)
StartFresh(cap) ==
    /\ Begin(cap, [NoProgress EXCEPT !.frontier = Seeds, !.origin = starts + 1])
    /\ gets' = Zero /\ lost' = 0
    /\ UNCHANGED markers

(* Mutant of StartResume: the visited set is not restored. *)
StartResumeUnvisited(cap) ==
    \E prior \in saved :
        /\ Begin(cap, [prior EXCEPT !.visited = {}])
        /\ markers' = {h \in markers : Remaining(cap, prior.fetched, h) = 0}
        /\ UNCHANGED <<gets, lost>>

(* Mutant of StartResume: every marker stays. *)
StartResumeStale(cap) ==
    \E prior \in saved :
        /\ Begin(cap, prior)
        /\ UNCHANGED <<markers, gets, lost>>

(* With --resume: from the state file, and a host whose cap leaves room again
   loses its marker. *)
StartResume(cap) ==
    \E prior \in saved :
        /\ Begin(cap, prior)
        /\ markers' = {h \in markers : Remaining(cap, prior.fetched, h) = 0}
        /\ UNCHANGED <<gets, lost>>

-----------------------------------------------------------------------------
(* The hosts of this invocation's LiveIngester, and those that may still be
   asked for a page. *)
Budgeted == {h \in Hosts : budget[h] > 0}
Open == Budgeted \ markers

(* The finally clause: a last checkpoint, whatever ended the loop. *)
Exit(why, progress) ==
    /\ crawl' = progress
    /\ saved' = {progress}
    /\ reason' = why
    /\ phase' = "off"
    /\ UNCHANGED <<markers, starts, gets, frontierSet, process>>

StopEmpty ==
    /\ phase = "loop"
    /\ crawl.frontier = <<>>
    /\ Exit("frontier_empty", crawl)
    /\ UNCHANGED lost

(* Every host is stopped, or a full lap of the frontier made no progress. *)
StopBudget ==
    /\ phase = "loop"
    /\ crawl.frontier # <<>>
    /\ Open = {} \/ stall >= Len(crawl.frontier)
    /\ Exit("budget", crawl)
    /\ UNCHANGED lost

(* Mutant of Requeued: the stuck page is not counted. *)
RequeuedUncounted == stall

(* A page went back on the frontier without an attempt. *)
Requeued == stall + 1

(* Pop the next page: skip it when visited, put it back when its host has no
   budget left in this invocation, else pass it to ingest(). *)
Pop ==
    LET p == Head(crawl.frontier)
        rest == Tail(crawl.frontier)
    IN  /\ phase = "loop"
        /\ crawl.frontier # <<>>
        /\ Open # {} /\ stall < Len(crawl.frontier)
        /\ IF p \in crawl.visited \/ HostOf[p] \in Open
           THEN /\ crawl' = [crawl EXCEPT !.frontier = rest]
                /\ frontierSet' = frontierSet \ {p}
                /\ UNCHANGED stall
           ELSE /\ crawl' = [crawl EXCEPT !.frontier = Append(rest, p)]
                /\ stall' = Requeued
                /\ UNCHANGED frontierSet
        /\ IF p \notin crawl.visited /\ HostOf[p] \in Open
           THEN phase' = "ingest" /\ url' = p
           ELSE UNCHANGED <<phase, url>>
        /\ UNCHANGED <<budget, counter, reason, saved, markers, gets, lost, starts>>

-----------------------------------------------------------------------------
(* The end of an iteration in which ingest() returned a report. *)
Reported(progress) ==
    /\ crawl' = progress
    /\ saved' = IF CheckpointEvery > 0 /\ progress.attempted % CheckpointEvery = 0
                THEN {progress} ELSE saved
    /\ phase' = "loop"
    /\ stall' = 0
    /\ url' = NoPage
    /\ UNCHANGED <<budget, reason, lost, starts>>

(* ingest() refused the page before its budget was asked: scheme, allowlist,
   or robots.txt. *)
RefuseEarly ==
    /\ phase = "ingest"
    /\ Reported([crawl EXCEPT !.attempted = @ + 1, !.visited = @ \cup {url}])
    /\ UNCHANGED <<frontierSet, counter, markers, gets>>

(* PageBudget.allow returned True. *)
Allow ==
    LET h == HostOf[url]
    IN  /\ phase = "ingest"
        /\ counter[h] < budget[h]
        /\ counter' = [counter EXCEPT ![h] = @ + 1]
        /\ gets' = [gets EXCEPT ![h] = @ + 1]
        /\ phase' = "allowed"
        /\ UNCHANGED <<crawl, frontierSet, url, budget, stall, reason, saved,
                       markers, lost, starts>>

(* Mutant of RefuseBudget: the page is not put back. *)
RefuseBudgetForgets ==
    LET h == HostOf[url]
    IN  /\ phase = "ingest"
        /\ counter[h] >= budget[h]
        /\ counter' = [counter EXCEPT ![h] = @ + 1]
        /\ markers' = markers \cup {h}
        /\ Reported([crawl EXCEPT !.attempted = @ + 1])
        /\ UNCHANGED <<frontierSet, gets>>

(* PageBudget.allow returned False, and wrote the marker: the page stays
   pending ("refused_budget"). *)
RefuseBudget ==
    LET h == HostOf[url]
    IN  /\ phase = "ingest"
        /\ counter[h] >= budget[h]
        /\ counter' = [counter EXCEPT ![h] = @ + 1]
        /\ markers' = markers \cup {h}
        /\ frontierSet' = frontierSet \cup {url}
        /\ Reported([crawl EXCEPT !.attempted = @ + 1,
                                  !.frontier = Append(@, url)])
        /\ UNCHANGED gets

(* The page was visited and its slot is spent. *)
Spent == [crawl EXCEPT !.attempted = @ + 1,
                       !.visited = @ \cup {url},
                       !.fetched[HostOf[url]] = @ + 1]

(* ingest() returned without a document: a fetch or HTTP error, or a body
   that was refused. *)
AnswerWithout ==
    /\ phase = "allowed"
    /\ Reported(Spent)
    /\ UNCHANGED <<frontierSet, counter, markers, gets>>

(* The links of page p that join the frontier: not visited (p counts as
   visited), not queued, and allowed. *)
NewLinks(p) == Kept(Links[p], Allowed \ (Spent.visited \cup frontierSet))

(* ingest() stored a document (indexed, already_indexed or deduplicated): the
   new links join the frontier. *)
AnswerWith ==
    /\ phase = "allowed"
    /\ Reported([Spent EXCEPT !.frontier = @ \o NewLinks(url),
                              !.followed = @ \cup {url}])
    /\ frontierSet' = frontierSet \cup ToSet(NewLinks(url))
    /\ UNCHANGED <<counter, markers, gets>>

(* An exception leaves the loop: the embedder is down, the store fails, or
   the operator interrupts.  The page in hand is on no list any more. *)
Raise ==
    /\ phase # "off"
    /\ Exit("none", [crawl EXCEPT !.dropped = @ \cup ({url} \ {NoPage})])
    /\ lost' = IF phase = "allowed" THEN lost + 1 ELSE lost

(* The page was reported with a document, and counted; then its raw file
   cannot be read, or one of its hrefs is no URL, for which urljoin, urlparse
   and .port raise ValueError.  It is visited, but its links are not followed. *)
RaiseInLinks ==
    /\ phase = "allowed"
    /\ Exit("none", [Spent EXCEPT !.dropped = @ \cup {url}])
    /\ UNCHANGED lost

(* The process dies without running its finally clause. *)
Kill ==
    /\ phase # "off"
    /\ phase' = "off"
    /\ lost' = lost + CheckpointEvery
    /\ UNCHANGED <<crawl, frontierSet, process, reason, saved, markers, gets, starts>>

Work ==
    \/ StopEmpty \/ StopBudget \/ Pop \/ RefuseEarly \/ Allow
    \/ RefuseBudget \/ AnswerWithout \/ AnswerWith

Next ==
    \/ \E cap \in Caps : StartFresh(cap) \/ StartResume(cap)
    \/ Work \/ Raise \/ RaiseInLinks \/ Kill

(* A started crawl goes on: every request has a timeout.  Nobody has to start
   one, and nothing has to fail. *)
Spec == Init /\ [][Next]_vars /\ WF_vars(Work)

-----------------------------------------------------------------------------
(* frontierSet is the set of the frontier, the frontier holds no page twice,
   and no page that was visited: so no page is fetched twice in a run. *)
FrontierConsistent ==
    phase # "off" =>
        /\ frontierSet = ToSet(crawl.frontier)
        /\ IsInjective(crawl.frontier)
        /\ crawl.visited \cap (frontierSet \cup ({url} \ {NoPage})) = {}

(* The pages a crawl with this progress knows of: the seeds, and the links of
   the pages it followed. *)
Known(progress) ==
    Allowed \cap (ToSet(Seeds) \cup UNION {ToSet(Links[p]) : p \in progress.followed})

(* Whenever the process stops, however it stops, the state file still covers
   every page the saved crawl had heard of: queued, visited, or in hand when
   an exception ended a run. *)
SavedCoversKnown ==
    \A s \in saved :
        Known(s) \subseteq ToSet(s.frontier) \cup s.visited \cup s.dropped

(* No page is lost and none is taken twice: every page the crawl has heard of
   is in exactly one place, in memory and in the state file (run_crawl). *)
PagesAccountedFor == FrontierConsistent /\ SavedCoversKnown

(* max_pages bounds the GETs to a host over a crawl and all its resumptions,
   up to what crashed runs could not record: one page for each run that
   raised, CheckpointEvery pages for each run that was killed. *)
BudgetAcrossRuns ==
    CheckpointEvery > 0 =>
        \A h \in Hosts : \E cap \in Caps : gets[h] <= cap + lost

(* A STOP marker is an excuse by itself only in a fresh run, which keeps those
   it finds; in a resumed one the host must have had its budget. *)
HasHadItsBudget(h) ==
    \/ counter[h] >= budget[h]
    \/ crawl.origin = starts /\ h \in markers

(* A crawl that stops for its budget leaves no page that it could still have
   asked for, and one that stops for an empty frontier leaves none at all:
   neither the lap counter nor a marker of an earlier run that should have been
   removed ends a crawl early. *)
StopIsJustified ==
    /\ reason = "budget" =>
          /\ crawl.frontier # <<>>
          /\ \A p \in ToSet(crawl.frontier) :
                HostOf[p] \notin Open /\ HasHadItsBudget(HostOf[p])
    /\ reason = "frontier_empty" =>
          Known(crawl) \subseteq crawl.visited \cup crawl.dropped

(* From one state file of a crawl to the next, across kills and resumptions,
   nothing is forgotten: what is visited stays visited, what was spent stays
   spent, and a queued page is queued or visited until an exception takes it. *)
NothingForgotten ==
    \A s \in saved, t \in saved' :
        s.origin = t.origin =>
           /\ s.visited \subseteq t.visited
           /\ \A h \in Hosts : s.fetched[h] <= t.fetched[h]
           /\ ToSet(s.frontier) \subseteq ToSet(t.frontier) \cup t.visited \cup t.dropped

(* No step of the crawl, its kills and its resumptions included, writes a
   crawl-state.json that has forgotten any of the one before it. *)
ResumeKeepsProgress == [][NothingForgotten]_vars

(* Whatever the budgets, the links and the answers, a started crawl ends: no
   frontier of stuck pages is popped and requeued for ever. *)
Terminates == (phase # "off") ~> (phase = "off")

(* CrawlState's docstring: "the whole crawl-stage progress needed to resume:
   what is still queued, what has already been handled".  Every page the saved
   crawl had heard of is queued or handled. *)
NothingDropped ==
    \A s \in saved : Known(s) \subseteq ToSet(s.frontier) \cup s.visited
=============================================================================
