------------------------- MODULE OperatorJobsProofs -------------------------
(***************************************************************************)
(* Theorems about OperatorJobs for any log, options, index and limits: of  *)
(* what the commands do to the files, whatever it is they compute, and of  *)
(* what a build computes from the rows it has read.                        *)
(***************************************************************************)
EXTENDS OperatorJobs, SequenceLemmas

USE OperatorAssumption

-----------------------------------------------------------------------------
(* The invariant. *)

(* The command that runs, and the steps of the two that read other commands'
   writes. *)
JobFits ==
    /\ DOMAIN job = {"kind", "step", "now", "read", "held"}
    /\ At("manifest") => job.kind = "freeze"
    /\ job.kind = "freeze" => At("reading") \/ At("manifest")
    /\ At("files") <=> job.kind = "extract"

SeqsOf(lines) == {l.seq : l \in Range(lines)}

(* The files of the log ascend, and the poller has a gap for each hole. *)
IsLog(lines) ==
    /\ lines \in Seq(Range(lines)) /\ Ascends(lines)
    /\ \A i \in DOMAIN lines : lines[i].seq \in Nat

SoundLog ==
    /\ DOMAIN log \subseteq Nat /\ IsFiniteSet(DOMAIN log)
    /\ \A r \in DOMAIN log :
          /\ IsLog(log[r])
          /\ gaps[r] \in Nat /\ Cardinality(GapIntervals(SeqsOf(log[r]))) <= gaps[r]

(* What a freeze has read, is writing and has written. *)
PartOfLog(read) ==
    \A r \in DOMAIN read :
        r \in DOMAIN log /\ \E n \in 0..Len(log[r]) : read[r] = SubSeq(log[r], 1, n)

Describes(manifest, read) ==
    /\ manifest.whole /\ manifest.tarSha256 = read
    /\ manifest.rooms = [r \in DOMAIN read |-> ComputeRoom(read[r])]
    /\ manifest.totals = Totals([r \in DOMAIN read |-> ComputeRoom(read[r])])

Frozen == disk.archive = Archive(basis.archive.log)

FreezeInv ==
    /\ job.kind = "freeze" =>
         /\ PartOfLog(job.read)
         /\ At("reading") => disk.archive = NoFile /\ disk.manifest = NoFile
         /\ At("manifest") => Frozen /\ basis.archive.log = job.read /\ Describes(job.held, job.read)
    /\ disk.archive \in {NoFile, Truncated} \/ (Frozen /\ PartOfLog(basis.archive.log))
    /\ disk.manifest \in {NoFile, Truncated}
         \/ (Frozen /\ Describes(disk.manifest, basis.archive.log))
    /\ job.kind = "extract" => Frozen /\ job.read = basis.archive.log
    /\ basis.extract # NoFile => Frozen /\ basis.extract.log = basis.archive.log

(* A directory of shards on disk is whole; a swap under way has checked what
   it will install, and retires nothing but whole directories. *)
ShardsInv ==
    /\ \A f \in {"shards", "oldShards"} : disk[f] # NoFile => ShardsOnDisk(f)
    /\ job.step \in {"clear", "retire", "install", "installOver"} =>
          /\ Staged # NoFile
          /\ JoinShards(Staged.index, Staged.files) = ToJsonl(job.held)
    /\ job.step \in {"clear", "retire", "drop"} => ShardsOnDisk("shards")

IInv ==
    /\ TypeOK
    /\ JobFits
    /\ SoundLog
    /\ FreezeInv
    /\ ShardsInv

-----------------------------------------------------------------------------
(* The holes of a log, of a part of it, and of one that grows. *)

(* A set that maps one to one into a finite set is no larger than it. *)
LEMMA OneToOne ==
    ASSUME NEW S, NEW T, IsFiniteSet(T), NEW f \in [S -> T],
           \A x, y \in S : f[x] = f[y] => x = y
    PROVE  IsFiniteSet(S) /\ Cardinality(S) <= Cardinality(T)
<1>1. f \in Injection(S, T)
  BY DEF Injection, IsInjective
<1> QED
  BY <1>1, FS_Injection

IsGap(S, a, b) == b - a > 1 /\ \A s \in S : s <= a \/ s >= b

(* The gap intervals of a set of sequence numbers: one for each pair of
   neighbours with a hole between them, and none starts where another does. *)
LEMMA GapIs ==
    ASSUME NEW S, S \subseteq Nat
    PROVE  /\ \A g : g \in GapIntervals(S) <=> \E a, b \in S : IsGap(S, a, b) /\ g = <<a + 1, b - 1>>
           /\ \A g, h \in GapIntervals(S) : g[1] = h[1] => g = h
<1>1. ASSUME NEW g PROVE g \in GapIntervals(S) <=> \E a, b \in S : IsGap(S, a, b) /\ g = <<a + 1, b - 1>>
  <2>1. ASSUME NEW a \in S, NEW b \in S, IsGap(S, a, b) PROVE <<a + 1, b - 1>> \in GapIntervals(S)
    <3> DEFINE p == <<a, b>>
    <3>1. p \in S \X S /\ p[1] = a /\ p[2] = b
      OBVIOUS
    <3> HIDE DEF p
    <3> QED
      BY <2>1, <3>1 DEF GapIntervals, IsGap
  <2>2. ASSUME g \in GapIntervals(S) PROVE \E a, b \in S : IsGap(S, a, b) /\ g = <<a + 1, b - 1>>
    <3>1. PICK p \in S \X S : IsGap(S, p[1], p[2]) /\ g = <<p[1] + 1, p[2] - 1>>
      BY <2>2 DEF GapIntervals, IsGap
    <3> QED
      BY <3>1
  <2> QED
    BY <2>1, <2>2
<1>2. ASSUME NEW g \in GapIntervals(S), NEW h \in GapIntervals(S), g[1] = h[1] PROVE g = h
  <2>1. PICK a \in S, b \in S : IsGap(S, a, b) /\ g = <<a + 1, b - 1>>
    BY <1>1
  <2>2. PICK c \in S, d \in S : IsGap(S, c, d) /\ h = <<c + 1, d - 1>>
    BY <1>1
  <2>3. {a, b, c, d} \subseteq Nat
    BY <2>1, <2>2
  <2>4. a = c
    BY <1>2, <2>1, <2>2, <2>3
  <2>5. b = d
    BY <2>1, <2>2, <2>3, <2>4 DEF IsGap
  <2> QED
    BY <2>1, <2>2, <2>4, <2>5
<1> QED
  BY <1>1, <1>2

(* A finite file shows finitely many gaps. *)
LEMMA GapsAreFinite ==
    ASSUME NEW S, S \subseteq Nat, IsFiniteSet(S)
    PROVE  IsFiniteSet(GapIntervals(S)) /\ Cardinality(GapIntervals(S)) \in Nat
<1> DEFINE f == [g \in GapIntervals(S) |-> g[1] - 1]
<1>1. ASSUME NEW g \in GapIntervals(S) PROVE g[1] \in Int /\ g[1] - 1 \in S
  <2>1. PICK a \in S, b \in S : IsGap(S, a, b) /\ g = <<a + 1, b - 1>>
    BY ONLY <1>1, S \subseteq Nat, GapIs
  <2>2. g[1] = a + 1 /\ a \in Int
    BY <2>1
  <2> QED
    BY <2>2
<1>2. f \in [GapIntervals(S) -> S]
  BY <1>1
<1>3. ASSUME NEW g \in GapIntervals(S), NEW h \in GapIntervals(S), f[g] = f[h] PROVE g = h
  <2>1. g[1] = h[1]
    BY <1>1, <1>3
  <2> QED
    BY <2>1, GapIs
<1> HIDE DEF f
<1>4. IsFiniteSet(GapIntervals(S))
  BY <1>2, <1>3, OneToOne
<1> QED
  BY <1>4, FS_CardinalityType

(* The sequence numbers of a room file, which compute_room sorts. *)
LEMMA SeqsFacts ==
    ASSUME NEW lines, IsLog(lines)
    PROVE  /\ Len(lines) \in Nat /\ DOMAIN lines = 1..Len(lines)
           /\ SeqsOf(lines) \subseteq Nat /\ IsFiniteSet(SeqsOf(lines))
           /\ \A s : s \in SeqsOf(lines) <=> \E i \in 1..Len(lines) : s = lines[i].seq
           /\ Cardinality(GapIntervals(SeqsOf(lines))) \in Nat
<1>1. Len(lines) \in Nat /\ DOMAIN lines = 1..Len(lines)
  BY LenProperties DEF IsLog
<1>2. \A s : s \in SeqsOf(lines) <=> \E i \in 1..Len(lines) : s = lines[i].seq
  BY <1>1 DEF SeqsOf, Range
<1>3. SeqsOf(lines) \subseteq Nat
  BY <1>1, <1>2 DEF IsLog
<1> DEFINE f == [i \in 1..Len(lines) |-> lines[i].seq]
<1>4. f \in Surjection(1..Len(lines), SeqsOf(lines))
  <2>1. f \in [1..Len(lines) -> SeqsOf(lines)]
    BY <1>2
  <2>2. \A s \in SeqsOf(lines) : \E i \in 1..Len(lines) : f[i] = s
    BY <1>2
  <2> QED
    BY <2>1, <2>2 DEF Surjection
<1>5. IsFiniteSet(1..Len(lines))
  BY <1>1, FS_Interval
<1>6. IsFiniteSet(SeqsOf(lines))
  BY <1>4, <1>5, FS_Surjection
<1> QED
  BY <1>1, <1>2, <1>3, <1>6, GapsAreFinite

(* A part of a file shows no gap but those of the file, and those that a line
   leaves that is no row. *)
LEMMA GapsOfPart ==
    ASSUME NEW lines, IsLog(lines), NEW n \in 0..Len(lines)
    PROVE  LET facts == ComputeRoom(SubSeq(lines, 1, n))
           IN  /\ Cardinality(facts.gaps) \in Nat /\ facts.malformed \in Nat
               /\ Cardinality(facts.gaps)
                     <= Cardinality(GapIntervals(SeqsOf(lines))) + facts.malformed
<1> DEFINE part == SubSeq(lines, 1, n)
           bad == {i \in DOMAIN part : part[i].parses = "no"}
           rows == {part[i] : i \in {j \in DOMAIN part : part[j].parses # "no"}}
           S == {r.seq : r \in rows}
           A == SeqsOf(lines)
           G == GapIntervals(S)
           torn == {g \in G : \E i \in bad : g[1] = part[i].seq}
<1>1. ComputeRoom(part).gaps = G /\ ComputeRoom(part).malformed = Cardinality(bad)
  BY DEF ComputeRoom
<1>2. /\ Len(lines) \in Nat /\ DOMAIN lines = 1..Len(lines) /\ A \subseteq Nat /\ IsFiniteSet(A)
      /\ \A s : s \in A <=> \E i \in 1..Len(lines) : s = lines[i].seq
  BY SeqsFacts
<1>3. DOMAIN part = 1..n /\ (\A i \in 1..n : part[i] = lines[i]) /\ n \in Nat /\ n <= Len(lines)
  <2>1. \A i \in 1..n : lines[i] \in Range(lines)
    BY <1>2 DEF Range
  <2>2. part \in Seq(Range(lines)) /\ Len(part) = n /\ \A i \in 1..n : part[i] = lines[i]
    BY <1>2, <2>1, SubSeqProperties
  <2> QED
    BY <1>2, <2>2, LenProperties
<1> HIDE DEF part
<1>4. \A s : s \in S <=> \E i \in 1..n : part[i].parses # "no" /\ s = lines[i].seq
  BY <1>3
<1>5. S \subseteq A
  <2>1. \A i \in 1..n : i \in 1..Len(lines)
    BY <1>2, <1>3
  <2> QED
    BY <1>2, <1>4, <2>1
<1>6. IsFiniteSet(bad) /\ Cardinality(bad) \in Nat
  <2>1. IsFiniteSet(1..n) /\ bad \subseteq 1..n
    BY <1>3, FS_Interval
  <2> QED
    BY <2>1, FS_Subset, FS_CardinalityType
<1> HIDE DEF S, A
<1>7. S \subseteq Nat /\ IsFiniteSet(S)
  BY <1>2, <1>5, FS_Subset
<1>8. IsFiniteSet(G) /\ Cardinality(G) \in Nat
  BY <1>7, GapsAreFinite
<1>9. IsFiniteSet(GapIntervals(A)) /\ Cardinality(GapIntervals(A)) \in Nat
  BY <1>2, GapsAreFinite
<1>10. Cardinality(torn) <= Cardinality(bad) /\ IsFiniteSet(torn)
  <2> DEFINE f == [g \in torn |-> CHOOSE i \in bad : g[1] = part[i].seq]
  <2>1. \A g \in torn : f[g] \in bad /\ g[1] = part[f[g]].seq
    OBVIOUS
  <2>2. f \in [torn -> bad]
    BY <2>1
  <2> HIDE DEF f
  <2>3. ASSUME NEW g \in torn, NEW h \in torn, f[g] = f[h] PROVE g = h
    <3>1. g[1] = h[1] /\ g \in G /\ h \in G
      BY <2>1, <2>3
    <3> QED
      BY <1>7, <3>1, GapIs
  <2> QED
    BY <1>6, <2>2, <2>3, OneToOne
<1>11. ASSUME NEW g \in G \ torn PROVE \E h \in GapIntervals(A) : h[1] = g[1]
  <2>1. PICK a \in S, b \in S : IsGap(S, a, b) /\ g = <<a + 1, b - 1>>
    BY <1>7, GapIs
  <2>2. a \in Nat /\ b \in Nat /\ a \in A /\ b \in A /\ g[1] = a + 1
    BY <1>5, <1>7, <2>1
  <2>3. a + 1 \notin A
    <3> SUFFICES ASSUME NEW k \in 1..Len(lines), lines[k].seq = a + 1 PROVE FALSE
      BY <1>2
    <3>1. PICK j \in 1..n : b = lines[j].seq
      BY <1>4
    <3>2. a + 1 < b
      BY <2>1, <2>2 DEF IsGap
    <3>3. j \in 1..Len(lines) /\ k \in Nat /\ j \in Nat
      BY <1>2, <1>3
    <3>4. \A u, v \in 1..Len(lines) : u < v => lines[u].seq < lines[v].seq
      BY <1>2 DEF IsLog, Ascends
    <3>5. k \in 1..n
      <4>1. ~(j < k)
        BY <2>2, <3>1, <3>2, <3>3, <3>4
      <4> QED
        BY <1>2, <1>3, <3>3, <4>1
    <3>6. part[k].parses # "no"
      BY <1>3, <2>2, <3>5
    <3>7. a + 1 \in S
      BY <1>4, <3>5, <3>6
    <3> QED
      BY <2>1, <2>2, <3>2, <3>7 DEF IsGap
  <2> DEFINE T == {s \in A : s > a}
  <2>4. PICK c \in T : \A s \in T : c <= s
    <3>1. b > a
      BY <2>1, <2>2 DEF IsGap
    <3>2. b \in T /\ T \subseteq Nat
      BY <1>2, <2>2, <3>1
    <3> QED
      BY <3>2, LeastNat
  <2>5. c \in A /\ c \in Nat /\ c - a > 1
    BY <1>2, <2>2, <2>3, <2>4
  <2>6. IsGap(A, a, c)
    BY <1>2, <2>2, <2>4, <2>5 DEF IsGap
  <2>7. <<a + 1, c - 1>> \in GapIntervals(A)
    BY <1>2, <2>2, <2>5, <2>6, GapIs
  <2> QED
    BY <2>2, <2>7
<1>12. Cardinality(G \ torn) <= Cardinality(GapIntervals(A)) /\ IsFiniteSet(G \ torn)
  <2> DEFINE f == [g \in G \ torn |-> CHOOSE h \in GapIntervals(A) : h[1] = g[1]]
  <2>1. \A g \in G \ torn : f[g] \in GapIntervals(A) /\ f[g][1] = g[1]
    BY <1>11
  <2>2. f \in [G \ torn -> GapIntervals(A)]
    BY <2>1
  <2> HIDE DEF f
  <2>3. ASSUME NEW g \in G \ torn, NEW h \in G \ torn, f[g] = f[h] PROVE g = h
    <3>1. g[1] = h[1] /\ g \in G /\ h \in G
      BY <2>1, <2>3
    <3> QED
      BY <1>7, <3>1, GapIs
  <2> QED
    BY <1>9, <2>2, <2>3, OneToOne
<1>13. Cardinality(G) <= Cardinality(GapIntervals(A)) + Cardinality(bad)
  <2>1. torn \subseteq G
    OBVIOUS
  <2> HIDE DEF torn, G
  <2>2. G = torn \cup (G \ torn) /\ torn \cap (G \ torn) = {}
    BY <2>1
  <2>3. Cardinality(G) = Cardinality(torn) + Cardinality(G \ torn) - Cardinality({})
    BY <1>10, <1>12, <2>2, FS_Union
  <2>4. Cardinality(torn) \in Nat /\ Cardinality(G \ torn) \in Nat /\ Cardinality({}) = 0
    BY <1>10, <1>12, FS_CardinalityType, FS_EmptySet
  <2> HIDE DEF A, bad
  <2> QED
    BY <1>6, <1>9, <1>10, <1>12, <2>3, <2>4
<1> QED
  BY <1>1, <1>6, <1>8, <1>13 DEF A, part

(* A line appended after a loss opens at most one gap, and none when it is the first. *)
LEMMA GapsOfLonger ==
    ASSUME NEW lines, IsLog(lines), NEW lost \in Nat, NEW x, x.seq = LastSeq(lines) + 1 + lost
    PROVE  /\ IsLog(Append(lines, x)) /\ LastSeq(lines) \in Nat
           /\ Cardinality(GapIntervals(SeqsOf(Append(lines, x))))
                 <= Cardinality(GapIntervals(SeqsOf(lines))) + NewGaps(lines, lost)
<1> DEFINE more == Append(lines, x)
           n == Len(lines)
           A == SeqsOf(lines)
           B == SeqsOf(more)
           last == LastSeq(lines)
<1>1. /\ n \in Nat /\ DOMAIN lines = 1..n /\ A \subseteq Nat /\ IsFiniteSet(A)
      /\ \A s : s \in A <=> \E i \in 1..n : s = lines[i].seq
      /\ Cardinality(GapIntervals(A)) \in Nat
  BY SeqsFacts
<1>2. /\ more \in Seq(Range(lines) \cup {x}) /\ Len(more) = n + 1
      /\ (\A i \in 1..n : more[i] = lines[i]) /\ more[n + 1] = x
  <2>1. lines \in Seq(Range(lines) \cup {x}) /\ x \in Range(lines) \cup {x}
    BY SeqMonotonic DEF IsLog
  <2> QED
    BY <2>1, AppendProperties
<1>3. DOMAIN more = 1..n + 1
  BY <1>1, <1>2, LenProperties
<1> HIDE DEF more
<1>4. more \in Seq(Range(more))
  <2>1. \A i \in 1..n + 1 : more[i] \in Range(more)
    BY <1>3 DEF Range
  <2>2. n + 1 \in 1..n + 1 /\ \A i \in 1..n : i \in 1..n + 1
    BY <1>1
  <2>3. \A i \in 1..n : lines[i] \in Range(more)
    BY <1>2, <2>1, <2>2
  <2>4. Range(lines) \cup {x} \subseteq Range(more)
    <3>1. \A y \in Range(lines) : \E i \in 1..n : y = lines[i]
      BY <1>1 DEF Range
    <3> QED
      BY <1>2, <2>1, <2>2, <2>3, <3>1
  <2> QED
    BY <1>2, <2>4, SeqMonotonic
<1>5. /\ last \in Nat /\ \A i \in 1..n : lines[i].seq \in Nat /\ lines[i].seq <= last
      /\ n # 0 => last \in A
  <2>1. CASE n = 0
    <3>1. lines = <<>>
      BY <2>1, EmptySeq DEF IsLog
    <3> QED
      BY <2>1, <3>1 DEF LastSeq
  <2>2. CASE n # 0
    <3>1. lines # <<>> /\ n \in 1..n
      BY <1>1, <2>2, EmptySeq
    <3>2. last = lines[n].seq
      BY <3>1 DEF LastSeq
    <3>3. \A i \in 1..n : lines[i].seq \in Nat /\ (i = n \/ i < n)
      <4>1. \A i \in 1..n : lines[i].seq \in Nat
        BY <1>1 DEF IsLog
      <4>2. \A k \in Nat : \A i \in 1..k : i = k \/ i < k
        OBVIOUS
      <4> QED
        BY <1>1, <4>1, <4>2
    <3>4. \A i \in 1..n : i < n => lines[i].seq < lines[n].seq
      BY <1>1, <3>1 DEF IsLog, Ascends
    <3>5. \A i \in 1..n : lines[i].seq <= lines[n].seq
      BY <3>1, <3>3, <3>4
    <3> QED
      BY <1>1, <3>1, <3>2, <3>3, <3>5
  <2> QED
    BY <2>1, <2>2
<1>6. x.seq \in Nat /\ x.seq > last /\ x.seq - last = 1 + lost
  BY <1>5
<1>7. IsLog(more)
  <2>1. \A i \in 1..n + 1 : i = n + 1 \/ i \in 1..n
    BY <1>1
  <2>2. \A i \in 1..n + 1 : more[i].seq \in Nat
    BY <1>2, <1>5, <1>6, <2>1
  <2>3. ASSUME NEW i \in 1..n + 1, NEW j \in 1..n + 1, i < j PROVE more[i].seq < more[j].seq
    <3>1. i \in 1..n
      BY <1>1, <2>3
    <3>2. CASE j = n + 1
      <4>1. lines[i].seq \in Nat /\ lines[i].seq <= last /\ more[i] = lines[i] /\ more[j] = x
        BY <1>2, <1>5, <3>1, <3>2
      <4> QED
        BY <1>5, <1>6, <4>1
    <3>3. CASE j \in 1..n
      <4>1. lines[i].seq < lines[j].seq
        BY <1>1, <2>3, <3>1, <3>3 DEF IsLog, Ascends
      <4> QED
        BY <1>2, <3>1, <3>3, <4>1
    <3> QED
      BY <2>1, <3>2, <3>3
  <2> QED
    BY <1>3, <1>4, <2>2, <2>3 DEF IsLog, Ascends
<1>8. B \subseteq Nat /\ IsFiniteSet(B) /\ \A s : s \in B <=> s \in A \/ s = x.seq
  <2>1. B \subseteq Nat /\ IsFiniteSet(B) /\ \A s : s \in B <=> \E i \in 1..n + 1 : s = more[i].seq
    BY <1>2, <1>7, SeqsFacts
  <2>2. \A i : i \in 1..n + 1 <=> i \in 1..n \/ i = n + 1
    BY <1>1
  <2>3. \A i \in 1..n : more[i] = lines[i]
    BY <1>2
  <2>4. more[n + 1].seq = x.seq /\ n + 1 \in 1..n + 1
    BY <1>2, <2>2
  <2>5. \A s : s \in A <=> \E i \in 1..n : s = lines[i].seq
    BY <1>1
  <2> HIDE DEF A, B, n
  <2>6. \A s : s \in B <=> s \in A \/ s = x.seq
    <3>1. ASSUME NEW s \in B PROVE s \in A \/ s = x.seq
      <4>1. PICK i \in 1..n + 1 : s = more[i].seq
        BY ONLY <2>1, <3>1
      <4> QED
        BY ONLY <2>2, <2>3, <2>4, <2>5, <4>1
    <3>2. ASSUME NEW s \in A PROVE s \in B
      <4>1. PICK i \in 1..n : s = lines[i].seq
        BY ONLY <2>5, <3>2
      <4> QED
        BY ONLY <2>1, <2>2, <2>3, <4>1
    <3>3. x.seq \in B
      BY ONLY <2>1, <2>4
    <3> QED
      BY ONLY <3>1, <3>2, <3>3
  <2> QED
    BY ONLY <2>1, <2>6
<1>12. NewGaps(lines, lost) = IF n # 0 /\ lost > 0 THEN 1 ELSE 0
  <2>1. lines = <<>> <=> n = 0
    BY EmptySeq DEF IsLog
  <2> QED
    BY <2>1 DEF NewGaps
<1> HIDE DEF A, B, n, last
<1> DEFINE new == <<last + 1, x.seq - 1>>
<1>9. ASSUME NEW g \in GapIntervals(B) PROVE g \in GapIntervals(A) \/ (g = new /\ lost > 0 /\ n # 0)
  <2>1. PICK a \in B, b \in B : IsGap(B, a, b) /\ g = <<a + 1, b - 1>>
    BY <1>8, GapIs
  <2>2. a \in Nat /\ b \in Nat /\ a < b /\ b - a > 1
    BY <1>8, <2>1 DEF IsGap
  <2>3. \A s \in A : s \in Nat /\ s <= last
    BY <1>1, <1>5 DEF n
  <2>4. a \in A
    BY <1>6, <1>8, <2>2, <2>3, <1>5
  <2>5. CASE b \in A
    <3>1. IsGap(A, a, b) /\ A \subseteq Nat
      BY <1>1, <1>8, <2>1 DEF IsGap
    <3> QED
      BY ONLY <2>1, <2>4, <2>5, <3>1, GapIs
  <2>6. CASE b = x.seq
    <3>1. last \in A
      <4>1. n # 0
        BY <1>1, <2>4
      <4> QED
        BY <1>5, <4>1
    <3>2. last <= a
      <4>1. last \in B
        BY <1>8, <3>1
      <4> QED
        BY <1>6, <2>1, <2>6, <4>1, <1>5, <2>2 DEF IsGap
    <3>3. a = last
      BY <1>5, <2>2, <2>3, <2>4, <3>2
    <3>4. g = new
      BY <2>1, <2>6, <3>3
    <3>5. lost > 0 /\ n # 0
      BY <1>1, <1>6, <2>2, <2>4, <2>6, <3>3
    <3> QED
      BY ONLY <3>4, <3>5
  <2> QED
    BY <1>8, <2>1, <2>5, <2>6
<1>10. IsFiniteSet(GapIntervals(A)) /\ Cardinality(GapIntervals(A)) \in Nat /\ Cardinality(GapIntervals(B)) \in Nat
  BY <1>1, <1>8, GapsAreFinite
<1>11. Cardinality(GapIntervals(B)) <= Cardinality(GapIntervals(A)) + NewGaps(lines, lost)
  <2>1. CASE ~(n # 0 /\ lost > 0)
    <3>1. GapIntervals(B) \subseteq GapIntervals(A)
      BY <1>9, <2>1
    <3>2. NewGaps(lines, lost) = 0
      BY <1>12, <2>1
    <3> QED
      BY <1>10, <3>1, <3>2, FS_Subset
  <2>2. CASE n # 0 /\ lost > 0
    <3>4. NewGaps(lines, lost) = 1
      BY <1>12, <2>2
    <3>1. GapIntervals(B) \subseteq GapIntervals(A) \cup {new}
      BY <1>9
    <3>2. /\ IsFiniteSet(GapIntervals(A) \cup {new})
          /\ Cardinality(GapIntervals(A) \cup {new}) \in Nat
          /\ Cardinality(GapIntervals(A) \cup {new}) <= Cardinality(GapIntervals(A)) + 1
      <4> DEFINE G == GapIntervals(A)
                 c == Cardinality(G)
                 d == Cardinality(G \cup {new})
      <4>1. IsFiniteSet(G) /\ c \in Nat
        BY <1>10
      <4> HIDE DEF G, new
      <4>2. IsFiniteSet(G \cup {new}) /\ d = IF new \in G THEN c ELSE c + 1
        BY <4>1, FS_AddElement
      <4> HIDE DEF c, d
      <4>3. d \in Nat /\ d <= c + 1
        BY <4>1, <4>2
      <4> QED
        BY <4>2, <4>3 DEF c, d, G
    <3>3. Cardinality(GapIntervals(B)) <= Cardinality(GapIntervals(A) \cup {new})
      BY <3>1, <3>2, FS_Subset
    <3> QED
      BY <1>10, <3>2, <3>3, <3>4
  <2> QED
    BY <2>1, <2>2
<1> QED
  BY <1>5, <1>7, <1>11 DEF more, A, B, last

(* What was a part of a file stays one when the file grows. *)
LEMMA PartOfLonger ==
    ASSUME NEW lines, IsLog(lines), NEW x, NEW n \in 0..Len(lines)
    PROVE  /\ n \in 0..Len(Append(lines, x))
           /\ SubSeq(Append(lines, x), 1, n) = SubSeq(lines, 1, n)
<1> DEFINE more == Append(lines, x)
           T == Range(lines) \cup {x}
<1>1. lines \in Seq(T) /\ x \in T
  BY SeqMonotonic DEF IsLog
<1>2. /\ more \in Seq(T) /\ Len(more) = Len(lines) + 1 /\ Len(lines) \in Nat
      /\ \A i \in 1..Len(lines) : more[i] = lines[i] /\ lines[i] \in T
  BY <1>1, AppendProperties, LenProperties, ElementOfSeq
<1> HIDE DEF more, T
<1>3. n \in Nat /\ n \in 0..Len(more) /\ \A i \in 1..n : i \in 1..Len(lines)
  BY <1>2
<1>4. /\ SubSeq(lines, 1, n) \in Seq(T) /\ Len(SubSeq(lines, 1, n)) = n
      /\ \A i \in 1..n : SubSeq(lines, 1, n)[i] = lines[i]
  BY <1>2, <1>3, SubSeqProperties
<1>5. /\ SubSeq(more, 1, n) \in Seq(T) /\ Len(SubSeq(more, 1, n)) = n
      /\ \A i \in 1..n : SubSeq(more, 1, n)[i] = more[i]
  BY <1>2, <1>3, SubSeqProperties
<1>6. SubSeq(more, 1, n) = SubSeq(lines, 1, n)
  BY <1>2, <1>3, <1>4, <1>5, SeqEqual
<1> QED
  BY <1>3, <1>6 DEF more

(* What a read up to a line returns is a prefix of the file. *)
LEMMA PartIsPrefix ==
    ASSUME NEW lines, IsLog(lines), NEW n \in 0..Len(lines)
    PROVE  IsPrefix(SubSeq(lines, 1, n), lines)
<1>1. Len(lines) \in Nat /\ \A i \in 1..Len(lines) : lines[i] \in Range(lines)
  BY LenProperties, ElementOfSeq DEF IsLog
<1>2. Len(SubSeq(lines, 1, n)) = n
  <2>1. \A i \in 1..n : i \in 1..Len(lines)
    BY <1>1
  <2> QED
    BY <1>1, <2>1, SubSeqProperties
<1>3. SubSeq(SubSeq(lines, 1, n), 1, n) = SubSeq(lines, 1, n)
  <2> DEFINE part == SubSeq(lines, 1, n)
  <2>1. \A i \in 1..n : i \in 1..Len(lines)
    BY <1>1
  <2>2. /\ part \in Seq(Range(lines)) /\ Len(part) = n /\ n \in Nat
        /\ \A i \in 1..n : part[i] \in Range(lines)
    BY <1>1, <2>1, SubSeqProperties
  <2> HIDE DEF part
  <2>3. /\ SubSeq(part, 1, n) \in Seq(Range(lines)) /\ Len(SubSeq(part, 1, n)) = n
        /\ \A i \in 1..n : SubSeq(part, 1, n)[i] = part[i]
    BY <2>2, SubSeqProperties
  <2>4. SubSeq(part, 1, n) = part
    BY <2>2, <2>3, SeqEqual
  <2> QED
    BY <2>4 DEF part
<1> QED
  BY <1>1, <1>2, <1>3 DEF IsPrefix

(* A read of the whole file is such a prefix too. *)
LEMMA WholeIsPart ==
    ASSUME NEW lines, IsLog(lines)
    PROVE  Len(lines) \in 0..Len(lines) /\ lines = SubSeq(lines, 1, Len(lines))
<1> DEFINE n == Len(lines)
           part == SubSeq(lines, 1, n)
<1>1. lines \in Seq(Range(lines)) /\ n \in Nat /\ \A i \in 1..n : lines[i] \in Range(lines)
  BY LenProperties, ElementOfSeq DEF IsLog
<1>2. part \in Seq(Range(lines)) /\ Len(part) = n /\ \A i \in 1..n : part[i] = lines[i]
  BY <1>1, SubSeqProperties
<1> HIDE DEF part
<1>3. part = lines
  BY <1>1, <1>2, SeqEqual
<1> QED
  BY <1>1, <1>3 DEF part

-----------------------------------------------------------------------------
(* What the steps of the commands have in common. *)

(* What one atomic write of a command changes: its output, and no other. *)
LEMMA WritesFacts ==
    ASSUME TypeOK, NEW output \in Outputs, NEW content, NEW source,
           Writes(output, content, source)
    PROVE  /\ DOMAIN disk' = Outputs /\ DOMAIN basis' = Outputs
           /\ disk'[output] = content
           /\ basis'[output] = [log |-> job.read, now |-> job.now, of |-> source]
           /\ \A f \in Outputs \ {output} : disk'[f] = disk[f] /\ basis'[f] = basis[f]
BY DEF TypeOK, Writes

Kinds == {"none", "ledger", "liveness", "freeze", "extract", "publish", "lexical"}
Steps == {"none", "reading", "split", "clear", "retire", "install", "installOver", "drop",
          "compact", "compactMap", "manifest", "files", "hash", "manifestJson", "surface",
          "lexical", "docs", "lexicalAlone"}
Swapping == {"clear", "retire", "install", "installOver", "drop"}
JobFields == {"kind", "step", "now", "read", "held"}

FreezeFiles == {"archive", "manifest", "extract"}
ShardFiles == {"shards", "oldShards"}
KeepsFiles(F) == \A f \in F : disk'[f] = disk[f] /\ basis'[f] = basis[f]

LEMMA IdleFacts == DOMAIN Idle = JobFields /\ Idle.kind = "none" /\ Idle.step = "none"
BY DEF Idle, JobFields

(* The command goes on to another of its steps. *)
LEMMA GoesFacts ==
    ASSUME IInv, NEW step \in Steps, NEW held, NEW read
    PROVE  /\ DOMAIN [job EXCEPT !.step = step] = JobFields
           /\ [job EXCEPT !.step = step].kind = job.kind
           /\ [job EXCEPT !.step = step].step = step
           /\ [job EXCEPT !.step = step].held = job.held
           /\ DOMAIN [job EXCEPT !.step = step, !.held = held] = JobFields
           /\ [job EXCEPT !.step = step, !.held = held].kind = job.kind
           /\ [job EXCEPT !.step = step, !.held = held].step = step
           /\ [job EXCEPT !.step = step, !.held = held].held = held
           /\ [job EXCEPT !.step = step, !.held = held].read = job.read
           /\ DOMAIN [job EXCEPT !.step = step, !.read = read] = JobFields
           /\ [job EXCEPT !.step = step, !.read = read].kind = job.kind
           /\ [job EXCEPT !.step = step, !.read = read].step = step
BY DEF IInv, JobFits, JobFields

LEMMA JobType == IInv => job.kind \in Kinds /\ job.step \in Steps /\ DOMAIN job = JobFields
BY DEF IInv, TypeOK, JobFits, Kinds, Steps, JobFields

(* A command that swaps no shards and writes none leaves them as they were. *)
LEMMA ShardsKept ==
    ASSUME IInv, KeepsFiles(ShardFiles), opts' = opts, job'.step \notin Swapping \/ job' = job
    PROVE  ShardsInv'
<1>1. \A f \in ShardFiles : ShardsOnDisk(f) => ShardsOnDisk(f)'
  BY DEF KeepsFiles, ShardsOnDisk
<1>2. \A f \in ShardFiles : disk'[f] # NoFile => ShardsOnDisk(f)'
  BY <1>1 DEF IInv, ShardsInv, KeepsFiles, ShardFiles
<1>3. CASE job' = job
  BY <1>1, <1>2, <1>3 DEF IInv, ShardsInv, ShardFiles, Staged
<1>4. CASE job'.step \notin Swapping
  BY <1>2, <1>4 DEF ShardsInv, ShardFiles, Swapping
<1> QED
  BY <1>3, <1>4

(* The same of the archive, its manifest and what an extraction has done. *)
LEMMA FreezeKept ==
    ASSUME IInv, log' = log, KeepsFiles(FreezeFiles),
           job'.kind \notin {"freeze", "extract"} \/ job' = job
    PROVE  FreezeInv'
<1>1. /\ disk'.archive = disk.archive /\ disk'.manifest = disk.manifest
      /\ basis'.archive = basis.archive /\ basis'.extract = basis.extract
  BY DEF KeepsFiles, FreezeFiles
<1>2. PartOfLog(basis.archive.log) => PartOfLog(basis.archive.log)'
  BY <1>1 DEF PartOfLog
<1>3. job' = job /\ PartOfLog(job.read) => PartOfLog(job.read)'
  BY DEF PartOfLog
<1>4. FreezeInv
  BY DEF IInv
<1>5. CASE job' = job
  BY <1>1, <1>2, <1>3, <1>4, <1>5 DEF FreezeInv, Frozen, At
<1>6. CASE job'.kind \notin {"freeze", "extract"}
  BY <1>1, <1>2, <1>4, <1>6 DEF FreezeInv, Frozen, At
<1> QED
  BY <1>5, <1>6

(* A step that touches neither log nor recorded gaps opens no hole. *)
LEMMA LogKept == ASSUME IInv, log' = log, gaps' = gaps PROVE SoundLog'
BY DEF IInv, SoundLog

(* A step of a command that leaves the files of a freeze alone. *)
LEMMA ElsewhereStep ==
    ASSUME IInv, Untouched,
           jobs' \in 0..MaxJobs[site], kills' \in 0..MaxKills,
           DOMAIN disk' = Outputs, DOMAIN basis' = Outputs, DOMAIN job' = JobFields,
           job'.kind \in Kinds \ {"freeze", "extract"}, job'.step \in Steps \ {"manifest", "files"},
           KeepsFiles(FreezeFiles), ShardsInv'
    PROVE  IInv'
<1>1. TypeOK'
  BY DEF IInv, TypeOK, Untouched, Kinds, Steps
<1>2. JobFits'
  BY DEF JobFits, At, JobFields
<1>3. SoundLog'
  BY LogKept DEF Untouched
<1>4. FreezeInv'
  BY FreezeKept DEF Untouched
<1> QED
  BY <1>1, <1>2, <1>3, <1>4 DEF IInv

LEMMA NumbersKept ==
    ASSUME IInv
    PROVE  /\ jobs \in 0..MaxJobs[site] /\ kills \in 0..MaxKills
           /\ DOMAIN disk = Outputs /\ DOMAIN basis = Outputs
BY DEF IInv, TypeOK

LEMMA FailsStep == ASSUME IInv, Fails PROVE IInv'
<1>1. job' = Idle /\ UNCHANGED <<jobs, kills, disk, basis>> /\ Untouched
  BY DEF Fails, Goes
<1>2. KeepsFiles(FreezeFiles) /\ KeepsFiles(ShardFiles)
  BY <1>1 DEF KeepsFiles
<1>3. ShardsInv'
  BY <1>1, <1>2, IdleFacts, ShardsKept DEF Untouched, Swapping
<1> QED
  BY <1>1, <1>2, <1>3, IdleFacts, ElsewhereStep, NumbersKept DEF Kinds, Steps

(* A step that writes a file other than those, and goes on to another step. *)
LEMMA WritesStep ==
    ASSUME IInv, NEW output \in Outputs \ (FreezeFiles \cup ShardFiles), NEW content, NEW source,
           Writes(output, content, source), NEW next, Goes(next), DOMAIN next = JobFields,
           next.kind \in Kinds \ {"freeze", "extract"},
           next.step \in Steps \ ({"manifest", "files"} \cup Swapping)
    PROVE  IInv'
<1>1. job' = next /\ UNCHANGED <<jobs, kills>> /\ Untouched
  BY DEF Goes
<1>2. /\ DOMAIN disk' = Outputs /\ DOMAIN basis' = Outputs
      /\ \A f \in Outputs \ {output} : disk'[f] = disk[f] /\ basis'[f] = basis[f]
  <2>1. TypeOK /\ output \in Outputs
    BY DEF IInv
  <2> QED
    BY <2>1, WritesFacts
<1>4. FreezeFiles \cup ShardFiles \subseteq Outputs \ {output}
  BY DEF FreezeFiles, ShardFiles, Outputs
<1>5. KeepsFiles(FreezeFiles) /\ KeepsFiles(ShardFiles)
  BY <1>2, <1>4 DEF KeepsFiles
<1>3. ShardsInv'
  BY <1>1, <1>5, ShardsKept DEF Untouched
<1> QED
  BY <1>1, <1>2, <1>3, <1>5, ElsewhereStep, NumbersKept

(* A step that writes nothing. *)
LEMMA QuietStep ==
    ASSUME IInv, UNCHANGED <<disk, basis>>, Untouched,
           jobs' \in 0..MaxJobs[site], kills' \in 0..MaxKills, DOMAIN job' = JobFields,
           job'.kind \in Kinds \ {"freeze", "extract"},
           job'.step \in Steps \ ({"manifest", "files"} \cup Swapping)
    PROVE  IInv'
<1>1. KeepsFiles(FreezeFiles) /\ KeepsFiles(ShardFiles)
  BY DEF KeepsFiles
<1>2. ShardsInv'
  BY <1>1, ShardsKept DEF Untouched
<1> QED
  BY <1>1, <1>2, ElsewhereStep, NumbersKept

-----------------------------------------------------------------------------
(* Starting and reading. *)

(* What the start of any command sets, and what it leaves alone. *)
LEMMA StartFacts ==
    ASSUME IInv, NEW kind, NEW step, NEW held, Start(kind, step, held)
    PROVE  /\ Untouched /\ UNCHANGED <<disk, basis>>
           /\ jobs' \in 0..MaxJobs[site] /\ kills' \in 0..MaxKills
           /\ job' = [kind |-> kind, step |-> step, now |-> clock, read |-> << >>, held |-> held]
           /\ DOMAIN job' = JobFields
<1>1. jobs \in 0..MaxJobs[site] /\ jobs < MaxJobs[site] /\ MaxJobs[site] \in Nat /\ jobs' = jobs + 1
  BY DEF Start, IInv, TypeOK
<1>2. jobs' \in 0..MaxJobs[site]
  BY <1>1
<1> QED
  BY <1>2, NumbersKept DEF Start, JobFields

LEMMA StartOthersStep ==
    ASSUME IInv, \/ StartLedger \/ StartLiveness \/ StartPublish \/ StartLexical
    PROVE  IInv'
<1>1. CASE \E held : Start("ledger", "reading", held) \/ Start("liveness", "reading", held)
  BY <1>1, StartFacts, QuietStep DEF Kinds, Steps, Swapping
<1>2. CASE \E held : Start("publish", "hash", held) \/ Start("lexical", "docs", held)
  BY <1>2, StartFacts, QuietStep DEF Kinds, Steps, Swapping
<1> QED
  BY <1>1, <1>2 DEF StartLedger, StartLiveness, StartPublish, StartLexical

-----------------------------------------------------------------------------
(* The commands that only replace files. *)

LEMMA LedgerStep == ASSUME IInv, WriteLedger PROVE IInv'
<1>1. PICK ledger : ledger = BuiltLedger
  OBVIOUS
<1>2. CASE LedgerSize(ToJsonl(ledger)) > opts.maxLedger
  BY <1>1, <1>2, FailsStep DEF WriteLedger
<1>3. CASE ~(LedgerSize(ToJsonl(ledger)) > opts.maxLedger)
  <2> DEFINE next == IF opts.publishes THEN [job EXCEPT !.step = "split", !.held = ledger] ELSE Idle
  <2>1. Writes("ledger", ToJsonl(ledger), ledger) /\ Goes(next) /\ job.kind = "ledger"
    BY <1>1, <1>3 DEF WriteLedger, ReadyFor
  <2>2. /\ DOMAIN next = JobFields /\ next.kind \in {"ledger", "none"}
        /\ next.step \in {"split", "none"}
    BY <2>1, GoesFacts, IdleFacts DEF Steps
  <2> QED
    BY <2>1, <2>2, WritesStep DEF Outputs, FreezeFiles, ShardFiles, Kinds, Steps, Swapping
<1> QED
  BY <1>2, <1>3

LEMMA LivenessStep == ASSUME IInv, WriteMap PROVE IInv'
<1>1. PICK m : m = BuiltMap
  OBVIOUS
<1>2. CASE m = NoFile \/ FitFull(m, opts.maxMap) = NoFile
  BY <1>1, <1>2, FailsStep DEF WriteMap
<1>3. CASE ~(m = NoFile \/ FitFull(m, opts.maxMap) = NoFile)
  <2> DEFINE next == [job EXCEPT !.step = "compactMap", !.held = m]
  <2>1. Writes("map", FitFull(m, opts.maxMap), m) /\ Goes(next) /\ job.kind = "liveness"
    BY <1>1, <1>3 DEF WriteMap, ReadyFor
  <2>2. DOMAIN next = JobFields /\ next.kind = "liveness" /\ next.step = "compactMap"
    BY <2>1, GoesFacts DEF Steps
  <2> QED
    BY <2>1, <2>2, WritesStep DEF Outputs, FreezeFiles, ShardFiles, Kinds, Steps, Swapping
<1> QED
  BY <1>2, <1>3

(* The last step of a command. *)
LEMMA LastStep ==
    ASSUME IInv, NEW output \in Outputs \ (FreezeFiles \cup ShardFiles), NEW content, NEW source,
           Writes(output, content, source), Goes(Idle)
    PROVE  IInv'
BY IdleFacts, WritesStep DEF Kinds, Steps, Swapping

LEMMA LastSteps ==
    ASSUME IInv, \/ WriteCompact \/ WriteCompactMap \/ WriteLexical \/ WriteLexicalAlone
    PROVE  IInv'
<1>1. {"compact", "compactMap", "lexical"} \subseteq Outputs \ (FreezeFiles \cup ShardFiles)
  BY DEF Outputs, FreezeFiles, ShardFiles
<1>2. \/ Fails
      \/ \E output \in {"compact", "compactMap", "lexical"} : \E content, source :
            Writes(output, content, source) /\ Goes(Idle)
  <2>1. CASE WriteCompact
    BY <2>1 DEF WriteCompact
  <2>2. CASE WriteCompactMap
    BY <2>2 DEF WriteCompactMap
  <2>3. CASE WriteLexical
    BY <2>3 DEF WriteLexical
  <2>4. CASE WriteLexicalAlone
    BY <2>4 DEF WriteLexicalAlone
  <2> QED
    BY <2>1, <2>2, <2>3, <2>4
<1> QED
  BY <1>1, <1>2, FailsStep, LastStep

LEMMA PublishSteps ==
    ASSUME IInv, WriteManifestJson \/ WriteSurface
    PROVE  IInv'
<1>1. job.kind \notin {"freeze", "extract"}
  BY DEF WriteManifestJson, WriteSurface, At, IInv, JobFits
<1>2. CASE WriteManifestJson
  <2> DEFINE read == Surface(job.held.rows, store.extracted)
             next == [job EXCEPT !.step = "surface", !.read = read]
  <2>1. /\ Writes("manifestJson", ManifestObj(job.held.rows, job.held.db), job.held) /\ Goes(next)
    BY <1>2 DEF WriteManifestJson
  <2>2. DOMAIN next = JobFields /\ next.kind = job.kind /\ next.step = "surface"
    BY GoesFacts DEF Steps
  <2> HIDE DEF next
  <2> QED
    BY <1>1, <2>1, <2>2, JobType, WritesStep DEF Outputs, FreezeFiles, ShardFiles, Kinds, Steps, Swapping
<1>3. CASE WriteSurface
  <2> DEFINE next == [job EXCEPT !.step = "lexical", !.read = << >>]
  <2>1. Writes("surface", job.read, job.held) /\ Goes(next)
    BY <1>3 DEF WriteSurface
  <2>2. DOMAIN next = JobFields /\ next.kind = job.kind /\ next.step = "lexical"
    BY GoesFacts DEF Steps
  <2> HIDE DEF next
  <2> QED
    BY <1>1, <2>1, <2>2, JobType, WritesStep DEF Outputs, FreezeFiles, ShardFiles, Kinds, Steps, Swapping
<1> QED
  BY <1>2, <1>3

LEMMA ReadsOnlySteps ==
    ASSUME IInv, HashDatabase \/ ReadLexicalDocs
    PROVE  IInv'
<1>1. job.kind \notin {"freeze", "extract"}
  BY DEF HashDatabase, ReadLexicalDocs, At, IInv, JobFits
<1>5. PICK step \in {"manifestJson", "lexicalAlone"} : \E held :
         Goes([job EXCEPT !.step = step, !.held = held]) /\ UNCHANGED <<disk, basis>>
  BY DEF HashDatabase, ReadLexicalDocs
<1>2. PICK held :
         Goes([job EXCEPT !.step = step, !.held = held]) /\ UNCHANGED <<disk, basis>>
  BY <1>5
<1> DEFINE next == [job EXCEPT !.step = step, !.held = held]
<1>3. DOMAIN next = JobFields /\ next.kind = job.kind /\ next.step = step
  BY GoesFacts DEF Steps
<1> HIDE DEF next
<1>4. job' = next /\ Untouched /\ UNCHANGED <<jobs, kills, disk, basis>>
  BY <1>2 DEF Goes, next
<1> QED
  BY <1>1, <1>3, <1>4, JobType, NumbersKept, QuietStep DEF Kinds, Steps, Swapping

-----------------------------------------------------------------------------
(* Splitting the ledger and swapping the directories. *)

StagedIsWhole ==
    /\ Staged # NoFile
    /\ JoinShards(Staged.index, Staged.files) = ToJsonl(job.held)

(* A step of write_shards leaves the files of a freeze alone. *)
LEMMA SwapStep ==
    ASSUME IInv, NEW step \in Steps \ {"manifest", "files"}, Goes([job EXCEPT !.step = step]),
           job.step \in Swapping \cup {"split"},
           DOMAIN disk' = Outputs, DOMAIN basis' = Outputs, KeepsFiles(FreezeFiles), ShardsInv'
    PROVE  IInv'
<1> DEFINE next == [job EXCEPT !.step = step]
<1>1. DOMAIN next = JobFields /\ next.kind = job.kind /\ next.step = step
  BY GoesFacts
<1> HIDE DEF next
<1>2. job' = next /\ Untouched /\ UNCHANGED <<jobs, kills>>
  BY DEF Goes, next
<1>3. job.kind \notin {"freeze", "extract"}
  BY DEF IInv, JobFits, At, Swapping
<1> QED
  BY <1>1, <1>2, <1>3, JobType, NumbersKept, ElsewhereStep

LEMMA StageStep == ASSUME IInv, StageShards PROVE IInv'
<1>1. CASE Fails
  BY <1>1, FailsStep
<1>2. CASE ~Fails
  <2>1. PICK step \in {"install", "retire", "clear"} :
           /\ step # "install" => disk.shards # NoFile
           /\ Goes([job EXCEPT !.step = step]) /\ UNCHANGED <<disk, basis>>
           /\ StagedIsWhole
    BY <1>2 DEF StageShards, StagedIsWhole
  <2>2. job'.step = step /\ job'.held = job.held /\ opts' = opts
    BY <2>1, GoesFacts DEF Goes, Untouched, Steps
  <2>3. KeepsFiles(FreezeFiles) /\ KeepsFiles(ShardFiles)
    BY <2>1 DEF KeepsFiles
  <2>4. \A f \in ShardFiles : ShardsOnDisk(f)' <=> ShardsOnDisk(f)
    BY <2>1 DEF ShardsOnDisk
  <2>5. StagedIsWhole'
    BY <2>1, <2>2 DEF StagedIsWhole, Staged
  <2>6. ShardsInv'
    BY <2>1, <2>2, <2>4, <2>5 DEF IInv, ShardsInv, ShardFiles, StagedIsWhole
  <2> QED
    BY <1>2, <2>1, <2>3, <2>6, NumbersKept, SwapStep DEF StageShards, At, Steps
<1> QED
  BY <1>1, <1>2

LEMMA ClearStep == ASSUME IInv, ClearOldShards PROVE IInv'
<1>1. /\ At("clear") /\ disk' = [disk EXCEPT !.oldShards = NoFile]
      /\ basis' = [basis EXCEPT !.oldShards = NoFile] /\ Goes([job EXCEPT !.step = "retire"])
  BY DEF ClearOldShards
<1>2. /\ DOMAIN disk' = Outputs /\ DOMAIN basis' = Outputs /\ disk'["oldShards"] = NoFile
      /\ \A f \in Outputs \ {"oldShards"} : disk'[f] = disk[f] /\ basis'[f] = basis[f]
  BY <1>1, NumbersKept DEF Outputs
<1>3. job'.step = "retire" /\ job'.held = job.held /\ opts' = opts
  BY <1>1, GoesFacts DEF Goes, Untouched, Steps
<1>4. KeepsFiles(FreezeFiles)
  BY <1>2 DEF KeepsFiles, FreezeFiles, Outputs
<1>5. ShardsOnDisk("shards") /\ StagedIsWhole
  BY <1>1 DEF IInv, ShardsInv, At, StagedIsWhole
<1>6. ShardsOnDisk("shards")' /\ StagedIsWhole'
  BY <1>2, <1>3, <1>5 DEF ShardsOnDisk, StagedIsWhole, Staged, Outputs
<1>7. ShardsInv'
  BY <1>2, <1>3, <1>6 DEF ShardsInv, StagedIsWhole
<1> QED
  BY <1>1, <1>2, <1>4, <1>7, SwapStep DEF Swapping, At, Steps

LEMMA RetireStep == ASSUME IInv, RetireShards PROVE IInv'
<1>1. /\ At("retire") /\ disk' = [disk EXCEPT !.shards = NoFile, !.oldShards = disk.shards]
      /\ basis' = [basis EXCEPT !.shards = NoFile, !.oldShards = basis.shards]
      /\ Goes([job EXCEPT !.step = "installOver"])
  BY DEF RetireShards
<1>2. /\ DOMAIN disk' = Outputs /\ DOMAIN basis' = Outputs
      /\ disk'["shards"] = NoFile
      /\ disk'["oldShards"] = disk["shards"] /\ basis'["oldShards"] = basis["shards"]
      /\ \A f \in Outputs \ ShardFiles : disk'[f] = disk[f] /\ basis'[f] = basis[f]
  BY <1>1, NumbersKept DEF Outputs, ShardFiles
<1>3. job'.step = "installOver" /\ job'.held = job.held /\ opts' = opts
  BY <1>1, GoesFacts DEF Goes, Untouched, Steps
<1>4. KeepsFiles(FreezeFiles)
  BY <1>2 DEF KeepsFiles, FreezeFiles, ShardFiles, Outputs
<1>5. ShardsOnDisk("shards") /\ StagedIsWhole
  BY <1>1 DEF IInv, ShardsInv, At, StagedIsWhole
<1>6. ShardsOnDisk("oldShards")' /\ StagedIsWhole'
  BY <1>2, <1>3, <1>5 DEF ShardsOnDisk, StagedIsWhole, Staged
<1>7. ShardsInv'
  BY <1>2, <1>3, <1>6 DEF ShardsInv, StagedIsWhole
<1> QED
  BY <1>1, <1>2, <1>4, <1>7, SwapStep DEF Swapping, At, Steps

LEMMA InstallStep == ASSUME IInv, InstallShards PROVE IInv' /\ ShardsOnDisk("shards")'
<1>1. PICK step \in {"drop", "compact"} :
         /\ job.step \in {"install", "installOver"}
         /\ Writes("shards", Staged, job.held) /\ Goes([job EXCEPT !.step = step])
  BY DEF InstallShards, IInv, JobFits
<1>2. TypeOK /\ "shards" \in Outputs
  BY DEF IInv, Outputs
<1>3. /\ DOMAIN disk' = Outputs /\ DOMAIN basis' = Outputs
      /\ disk'["shards"] = Staged /\ basis'["shards"].of = job.held
      /\ \A f \in Outputs \ {"shards"} : disk'[f] = disk[f] /\ basis'[f] = basis[f]
  <2>1. /\ DOMAIN disk' = Outputs /\ DOMAIN basis' = Outputs
        /\ disk'["shards"] = Staged
        /\ basis'["shards"] = [log |-> job.read, now |-> job.now, of |-> job.held]
        /\ \A f \in Outputs \ {"shards"} : disk'[f] = disk[f] /\ basis'[f] = basis[f]
    BY ONLY <1>1, <1>2, WritesFacts
  <2> QED
    BY ONLY <2>1
<1>4. job'.step = step
  BY <1>1, GoesFacts DEF Goes, Steps
<1>5. KeepsFiles(FreezeFiles)
  BY <1>3 DEF KeepsFiles, FreezeFiles, Outputs
<1>6. StagedIsWhole
  BY <1>1 DEF IInv, ShardsInv, StagedIsWhole
<1>7. ShardsOnDisk("shards")'
  BY <1>3, <1>6 DEF ShardsOnDisk, StagedIsWhole
<1>8. disk'["oldShards"] # NoFile => ShardsOnDisk("oldShards")'
  BY <1>3 DEF IInv, ShardsInv, ShardsOnDisk, Outputs
<1>9. ShardsInv'
  BY <1>4, <1>7, <1>8 DEF ShardsInv
<1> QED
  BY <1>1, <1>3, <1>5, <1>7, <1>9, SwapStep DEF Swapping, Steps

LEMMA DropStep == ASSUME IInv, DropOldShards PROVE IInv'
<1>1. /\ At("drop") /\ disk' = [disk EXCEPT !.oldShards = NoFile]
      /\ basis' = [basis EXCEPT !.oldShards = NoFile] /\ Goes([job EXCEPT !.step = "compact"])
  BY DEF DropOldShards
<1>2. /\ DOMAIN disk' = Outputs /\ DOMAIN basis' = Outputs /\ disk'["oldShards"] = NoFile
      /\ \A f \in Outputs \ {"oldShards"} : disk'[f] = disk[f] /\ basis'[f] = basis[f]
  BY <1>1, NumbersKept DEF Outputs
<1>3. job'.step = "compact"
  BY <1>1, GoesFacts DEF Goes, Steps
<1>4. KeepsFiles(FreezeFiles)
  BY <1>2 DEF KeepsFiles, FreezeFiles, Outputs
<1>5. ShardsOnDisk("shards")'
  BY <1>1, <1>2 DEF IInv, ShardsInv, At, ShardsOnDisk, Outputs
<1>6. ShardsInv'
  BY <1>2, <1>3, <1>5 DEF ShardsInv
<1> QED
  BY <1>1, <1>2, <1>4, <1>6, SwapStep DEF Swapping, At, Steps

-----------------------------------------------------------------------------
(* Poller, indexer and kills. *)

LEMMA MaxIsNat ==
    ASSUME NEW S, IsFiniteSet(S), S # {}, S \subseteq Nat
    PROVE  Max(S) \in Nat
<1>1. S \subseteq Int
  OBVIOUS
<1> QED
  BY <1>1, MaxIsLargest

LEMMA IndexStep == ASSUME IInv, NEW change \in Changes, Index(change) PROVE IInv'
<1>1. /\ site = "static" /\ polls < MaxPolls[site] /\ polls' = polls + 1
      /\ UNCHANGED <<site, opts, log, gaps, clock, job, disk, basis, jobs, kills>>
  BY DEF Index
<1>2. DOMAIN store.rows \subseteq DOMAIN Words /\ store.db \in Nat
  BY DEF IInv, TypeOK
<1>3. DOMAIN store'.rows \subseteq DOMAIN Words /\ store'.db \in Nat
  <2>1. CASE change.what = "row"
    <3> DEFINE rows == Table!WriteManifestEntry(store.rows, change.doc, change.row)
    <3>1. DOMAIN rows \subseteq DOMAIN store.rows \cup {change.doc}
      BY DEF Table!WriteManifestEntry, Table!Upsert, Table!Supersede, Table!LiveAt
    <3> HIDE DEF rows
    <3>2. store' = [store EXCEPT !.rows = rows, !.db = store.db + 1]
      BY <2>1 DEF Index, rows
    <3>3. store'.rows \in {store.rows, rows} /\ store'.db \in {store.db, store.db + 1}
      BY <3>2
    <3> QED
      BY <1>2, <2>1, <3>1, <3>3
  <2>2. CASE change.what # "row"
    BY <1>2, <2>2 DEF Index
  <2> QED
    BY <2>1, <2>2
<1>4. polls' \in 0..MaxPolls[site]
  BY <1>1 DEF IInv, TypeOK
<1>5. TypeOK'
  BY <1>1, <1>3, <1>4 DEF IInv, TypeOK
<1>6. KeepsFiles(FreezeFiles) /\ KeepsFiles(ShardFiles)
  BY <1>1 DEF KeepsFiles
<1>7. JobFits' /\ SoundLog' /\ FreezeInv' /\ ShardsInv'
  BY <1>1, <1>6, LogKept, FreezeKept, ShardsKept DEF IInv, JobFits, At
<1> QED
  BY <1>5, <1>7 DEF IInv

LEMMA PollStep ==
    ASSUME IInv, NEW room \in DOMAIN log, NEW message \in Feed, Poll(room, message)
    PROVE  IInv'
<1>1. PICK x : /\ x.seq = LastSeq(log[room]) + 1 + message.lost
               /\ log' = [log EXCEPT ![room] = Append(log[room], x)]
  <2> DEFINE x == [seq |-> LastSeq(log[room]) + 1 + message.lost, ts |-> clock',
                   sender |-> message.sender, text |-> message.text,
                   signed |-> message.signed, parses |-> message.parses]
  <2>1. x.seq = LastSeq(log[room]) + 1 + message.lost
    OBVIOUS
  <2>2. log' = [log EXCEPT ![room] = Append(log[room], x)]
    BY DEF Poll
  <2> QED
    BY <2>1, <2>2
<1>2. /\ polls < MaxPolls[site] /\ polls' = polls + 1 /\ clock' = clock + message.later
      /\ gaps' = [gaps EXCEPT ![room] = gaps[room] + NewGaps(log[room], message.lost)]
      /\ UNCHANGED <<site, opts, store, job, disk, basis, jobs, kills>>
  BY DEF Poll
<1>3. /\ DOMAIN log' = DOMAIN log /\ log'[room] = Append(log[room], x)
      /\ \A r \in DOMAIN log \ {room} : log'[r] = log[r]
      /\ DOMAIN gaps' = DOMAIN gaps /\ gaps'[room] = gaps[room] + NewGaps(log[room], message.lost)
      /\ \A r \in DOMAIN log \ {room} : gaps'[r] = gaps[r]
  BY <1>1, <1>2 DEF IInv, TypeOK
<1>4. message.lost \in Nat /\ message.later \in Nat
  BY DEF OperatorAssumption
<1>added. NewGaps(log[room], message.lost) \in Nat
  BY DEF NewGaps
<1>5. SoundLog /\ TypeOK
  BY DEF IInv
<1>6. TypeOK'
  <2>1. clock' \in Nat
    BY <1>2, <1>4, <1>5 DEF TypeOK
  <2>2. polls' \in 0..MaxPolls[site]
    BY <1>2, <1>5 DEF TypeOK
  <2> QED
    BY <1>2, <1>3, <1>5, <2>1, <2>2 DEF TypeOK
<1>7. SoundLog'
  <2>1. IsLog(log[room]) /\ gaps[room] \in Nat
        /\ Cardinality(GapIntervals(SeqsOf(log[room]))) <= gaps[room]
    BY <1>5 DEF SoundLog
  <2>2. /\ IsLog(Append(log[room], x))
        /\ Cardinality(GapIntervals(SeqsOf(Append(log[room], x))))
              <= Cardinality(GapIntervals(SeqsOf(log[room]))) + NewGaps(log[room], message.lost)
    BY <1>1, <1>4, <2>1, GapsOfLonger
  <2>3. /\ Cardinality(GapIntervals(SeqsOf(log[room]))) \in Nat
        /\ Cardinality(GapIntervals(SeqsOf(Append(log[room], x)))) \in Nat
    BY <2>1, <2>2, SeqsFacts
  <2>4. Cardinality(GapIntervals(SeqsOf(Append(log[room], x)))) 
                <= gaps[room] + NewGaps(log[room], message.lost)
    BY <1>added, <2>1, <2>2, <2>3
  <2>5. gaps[room] + NewGaps(log[room], message.lost) \in Nat
    BY <1>added, <2>1
  <2>6. ASSUME NEW r \in DOMAIN log
        PROVE  /\ IsLog(log'[r]) /\ gaps'[r] \in Nat
               /\ Cardinality(GapIntervals(SeqsOf(log'[r]))) <= gaps'[r]
    <3>1. CASE r = room
      BY <1>3, <2>2, <2>4, <2>5, <3>1
    <3>2. CASE r # room
      BY <1>3, <1>5, <3>2 DEF SoundLog
    <3> QED
      BY <3>1, <3>2
  <2> QED
    BY <1>3, <1>5, <2>6 DEF SoundLog
<1>8. ASSUME NEW read, PartOfLog(read)
      PROVE  \A r \in DOMAIN read :
                r \in DOMAIN log' /\ \E n \in 0..Len(log'[r]) : read[r] = SubSeq(log'[r], 1, n)
  <2> SUFFICES ASSUME NEW r \in DOMAIN read
               PROVE  r \in DOMAIN log' /\ \E n \in 0..Len(log'[r]) : read[r] = SubSeq(log'[r], 1, n)
    OBVIOUS
  <2>1. r \in DOMAIN log /\ \E n \in 0..Len(log[r]) : read[r] = SubSeq(log[r], 1, n)
    BY <1>8 DEF PartOfLog
  <2>2. PICK n \in 0..Len(log[r]) : read[r] = SubSeq(log[r], 1, n)
    BY <2>1
  <2>3. CASE r = room
    <3>1. IsLog(log[r])
      BY <1>5, <2>1 DEF SoundLog
    <3>2. n \in 0..Len(Append(log[r], x)) /\ SubSeq(Append(log[r], x), 1, n) = SubSeq(log[r], 1, n)
      BY <3>1, PartOfLonger
    <3> QED
      BY <1>3, <2>1, <2>2, <2>3, <3>2
  <2>4. CASE r # room
    BY <1>3, <2>1, <2>4
  <2> QED
    BY <2>3, <2>4
<1>9. FreezeInv'
  <2>1. PartOfLog(job.read) => PartOfLog(job.read)'
    BY <1>2, <1>8 DEF PartOfLog
  <2>2. PartOfLog(basis.archive.log) => PartOfLog(basis.archive.log)'
    BY <1>2, <1>8 DEF PartOfLog
  <2>3. FreezeInv
    BY DEF IInv
  <2> QED
    BY <1>2, <2>1, <2>2, <2>3 DEF FreezeInv, Frozen, At
<1>10. JobFits' /\ ShardsInv'
  <2>1. KeepsFiles(ShardFiles)
    BY <1>2 DEF KeepsFiles
  <2> QED
    BY <1>2, <2>1, ShardsKept DEF IInv, JobFits, At
<1> QED
  BY <1>6, <1>7, <1>9, <1>10 DEF IInv

-----------------------------------------------------------------------------
(* Reading the rooms, freezing them, and extracting what was frozen. *)

(* The parts of the invariant that a step keeps that leaves log and shards. *)
LEMMA FreezeStep ==
    ASSUME IInv, Untouched,
           jobs' \in 0..MaxJobs[site], kills' \in 0..MaxKills,
           DOMAIN disk' = Outputs, DOMAIN basis' = Outputs, KeepsFiles(ShardFiles),
           job'.kind \in Kinds, job'.step \in Steps \ Swapping, JobFits', FreezeInv'
    PROVE  IInv'
<1>1. TypeOK'
  BY DEF IInv, TypeOK, Untouched, Kinds, Steps
<1>2. ShardsInv'
  BY ShardsKept DEF Untouched
<1>3. SoundLog'
  BY LogKept DEF Untouched
<1> QED
  BY <1>1, <1>2, <1>3 DEF IInv

LEMMA ReadStep == ASSUME IInv, ReadRoom PROVE IInv'
<1> DEFINE room == Min(Unread)
           read == [r \in DOMAIN job.read \cup {room} |-> IF r = room THEN log[r] ELSE job.read[r]]
<1>1. /\ job.kind \in {"ledger", "liveness", "freeze"} /\ At("reading") /\ Unread # {}
      /\ job' = [job EXCEPT !.read = read]
      /\ UNCHANGED <<disk, basis, jobs, kills>> /\ Untouched
  BY DEF ReadRoom, At
<1>2. room \in DOMAIN log
  <2>1. Unread \subseteq DOMAIN log
    BY DEF Unread, Scope
  <2>2. Unread \subseteq Nat
    BY <2>1 DEF IInv, SoundLog
  <2>3. room \in Unread
    BY <1>1, <2>2, MinIsLeast
  <2> QED
    BY <2>1, <2>3
<1> HIDE DEF room
<1>3. PartOfLog(job.read) => PartOfLog(read)
  <2> SUFFICES ASSUME PartOfLog(job.read), NEW r \in DOMAIN read
               PROVE  r \in DOMAIN log /\ \E n \in 0..Len(log[r]) : read[r] = SubSeq(log[r], 1, n)
    BY DEF PartOfLog
  <2>1. CASE r = room
    <3>1. IsLog(log[r])
      BY <1>2, <2>1 DEF IInv, SoundLog
    <3> QED
      BY <1>2, <2>1, <3>1, WholeIsPart
  <2>2. CASE r # room
    BY <2>2 DEF PartOfLog
  <2> QED
    BY <2>1, <2>2
<1> HIDE DEF read
<1>4. DOMAIN job' = JobFields /\ job'.kind = job.kind /\ job'.step = "reading" /\ job'.read = read
  BY <1>1, JobType DEF JobFields, At
<1>5. KeepsFiles(FreezeFiles) /\ KeepsFiles(ShardFiles)
  BY <1>1 DEF KeepsFiles
<1>6. FreezeInv'
  <2>1. CASE job.kind # "freeze"
    BY <1>1, <1>4, <1>5, <2>1, FreezeKept DEF Untouched
  <2>2. CASE job.kind = "freeze"
    <3>1. FreezeInv
      BY DEF IInv
    <3>2. PartOfLog(read)
      BY <1>3, <2>2, <3>1 DEF FreezeInv
    <3>3. log' = log
      BY <1>1 DEF Untouched
    <3>4. PartOfLog(job.read)'
      BY <1>4, <3>2, <3>3 DEF PartOfLog
    <3>5. PartOfLog(basis.archive.log) => PartOfLog(basis.archive.log)'
      BY <1>1, <3>3 DEF PartOfLog
    <3> QED
      BY <1>1, <1>4, <2>2, <3>1, <3>4, <3>5 DEF FreezeInv, Frozen, At
  <2> QED
    BY <2>1, <2>2
<1>7. JobFits'
  BY <1>1, <1>4 DEF JobFits, At, JobFields
<1> QED
  BY <1>1, <1>4, <1>5, <1>6, <1>7, NumbersKept, FreezeStep DEF Kinds, Steps, Swapping

LEMMA ArchiveFacts ==
    /\ \A read : /\ Archive(read) # NoFile /\ Archive(read) # Truncated
                 /\ Archive(read).whole /\ Archive(read).members = read
    /\ ~Truncated.whole /\ Truncated # NoFile
<1>1. DOMAIN NoFile = {"none"} /\ DOMAIN Truncated = {"whole"}
  BY DEF NoFile, Truncated
<1>2. \A read : DOMAIN Archive(read) = {"whole", "members"}
  BY DEF Archive
<1>3. /\ "whole" \in {"whole"} /\ "whole" \in {"whole", "members"} /\ "whole" \notin {"none"}
      /\ "members" \in {"whole", "members"} /\ "members" \notin {"whole"}
  OBVIOUS
<1>4. \A read : Archive(read).whole /\ Archive(read).members = read
  BY DEF Archive
<1>5. ~Truncated.whole
  BY DEF Truncated
<1> QED
  BY <1>1, <1>2, <1>3, <1>4, <1>5

LEMMA StartFreezeStep == ASSUME IInv, StartFreeze PROVE IInv'
<1>1. Start("freeze", "reading", NoFile) /\ disk.archive = NoFile /\ disk.manifest = NoFile
  BY DEF StartFreeze
<1>2. /\ Untouched /\ UNCHANGED <<disk, basis>>
      /\ jobs' \in 0..MaxJobs[site] /\ kills' \in 0..MaxKills /\ DOMAIN job' = JobFields
      /\ job'.kind = "freeze" /\ job'.step = "reading" /\ job'.read = << >>
  BY <1>1, StartFacts
<1>3. KeepsFiles(ShardFiles)
  BY <1>2 DEF KeepsFiles
<1>4. PartOfLog(job.read)'
  BY <1>2 DEF PartOfLog
<1>5. PartOfLog(basis.archive.log) => PartOfLog(basis.archive.log)'
  BY <1>2 DEF PartOfLog, Untouched
<1>6. FreezeInv'
  BY <1>1, <1>2, <1>4, <1>5 DEF IInv, FreezeInv, Frozen, At
<1>7. JobFits'
  BY <1>2 DEF JobFits, At, JobFields
<1> QED
  BY <1>2, <1>3, <1>6, <1>7, NumbersKept, FreezeStep DEF Kinds, Steps, Swapping

LEMMA ArchiveStep == ASSUME IInv, WriteArchive PROVE IInv'
<1> DEFINE held == ArchiveManifest(job.read, DOMAIN log \ DOMAIN job.read, job.now)
           next == [job EXCEPT !.step = "manifest", !.held = held]
<1>1. /\ job.kind = "freeze" /\ At("reading")
      /\ Writes("archive", Archive(job.read), NoFile) /\ Goes(next)
  BY DEF WriteArchive, ReadyFor, At
<1>2. Describes(held, job.read)
  BY DEF Describes, ArchiveManifest
<1>3. /\ DOMAIN next = JobFields /\ next.kind = "freeze" /\ next.step = "manifest"
      /\ next.held = held /\ next.read = job.read
  BY <1>1, GoesFacts DEF Steps
<1> HIDE DEF next, held
<1>4. job' = next /\ Untouched /\ UNCHANGED <<jobs, kills>>
  BY <1>1 DEF Goes
<1>5. /\ DOMAIN disk' = Outputs /\ DOMAIN basis' = Outputs
      /\ disk'["archive"] = Archive(job.read) /\ basis'["archive"].log = job.read
      /\ \A f \in Outputs \ {"archive"} : disk'[f] = disk[f] /\ basis'[f] = basis[f]
  <2>1. TypeOK /\ "archive" \in Outputs
    BY DEF IInv, Outputs
  <2>2. /\ DOMAIN disk' = Outputs /\ DOMAIN basis' = Outputs
        /\ disk'["archive"] = Archive(job.read)
        /\ basis'["archive"] = [log |-> job.read, now |-> job.now, of |-> NoFile]
        /\ \A f \in Outputs \ {"archive"} : disk'[f] = disk[f] /\ basis'[f] = basis[f]
    BY ONLY <1>1, <2>1, WritesFacts
  <2> QED
    BY ONLY <2>2
<1>6. KeepsFiles(ShardFiles)
  BY <1>5 DEF KeepsFiles, ShardFiles, Outputs
<1>7. /\ PartOfLog(job.read) /\ disk.archive = NoFile /\ disk.manifest = NoFile
      /\ basis.extract = NoFile
  BY <1>1, ArchiveFacts DEF IInv, FreezeInv, Frozen
<1>8. Frozen'
  BY <1>5 DEF Frozen
<1>9. PartOfLog(job.read)' /\ PartOfLog(basis.archive.log)'
  BY <1>3, <1>4, <1>5, <1>7 DEF PartOfLog, Untouched
<1>10. disk'["manifest"] = NoFile /\ basis'["extract"] = NoFile
  BY <1>5, <1>7 DEF Outputs
<1>11. Describes(job.held, job.read)'
  BY <1>2, <1>3, <1>4 DEF Describes
<1>12. FreezeInv'
  BY <1>3, <1>4, <1>5, <1>8, <1>9, <1>10, <1>11 DEF FreezeInv, At
<1>13. JobFits'
  BY <1>3, <1>4 DEF JobFits, At, JobFields
<1> QED
  BY <1>3, <1>4, <1>5, <1>6, <1>12, <1>13, NumbersKept, FreezeStep DEF Kinds, Steps, Swapping

LEMMA ManifestStep == ASSUME IInv, WriteManifest PROVE IInv'
<1>1. job.kind = "freeze" /\ At("manifest") /\ Writes("manifest", job.held, NoFile) /\ Goes(Idle)
  BY DEF WriteManifest, IInv, JobFits
<1>2. job' = Idle /\ Untouched /\ UNCHANGED <<jobs, kills>>
  BY <1>1 DEF Goes
<1>3. /\ DOMAIN disk' = Outputs /\ DOMAIN basis' = Outputs /\ disk'["manifest"] = job.held
      /\ \A f \in Outputs \ {"manifest"} : disk'[f] = disk[f] /\ basis'[f] = basis[f]
  <2>1. TypeOK /\ "manifest" \in Outputs
    BY DEF IInv, Outputs
  <2> QED
    BY ONLY <1>1, <2>1, WritesFacts
<1>4. KeepsFiles(ShardFiles)
  BY <1>3 DEF KeepsFiles, ShardFiles, Outputs
<1>5. /\ disk'["archive"] = disk["archive"] /\ basis'["archive"] = basis["archive"]
      /\ basis'["extract"] = basis["extract"]
  BY <1>3 DEF Outputs
<1>6. Frozen /\ PartOfLog(basis.archive.log) /\ Describes(disk'["manifest"], basis.archive.log)
  BY <1>1, <1>3 DEF IInv, FreezeInv
<1>7. Frozen' /\ PartOfLog(basis.archive.log)' /\ Describes(disk.manifest, basis.archive.log)'
  <2>1. Frozen'
    BY <1>5, <1>6 DEF Frozen
  <2>2. PartOfLog(basis.archive.log)'
    BY <1>2, <1>5, <1>6 DEF PartOfLog, Untouched
  <2>3. Describes(disk.manifest, basis.archive.log)'
    BY <1>5, <1>6 DEF Describes
  <2> QED
    BY <2>1, <2>2, <2>3
<1>8. basis.extract # NoFile => basis.extract.log = basis.archive.log
  BY DEF IInv, FreezeInv
<1>9. FreezeInv'
  BY <1>2, <1>5, <1>7, <1>8, IdleFacts DEF FreezeInv
<1>10. JobFits'
  BY <1>2, IdleFacts DEF JobFits, At, JobFields
<1> QED
  BY <1>2, <1>3, <1>4, <1>9, <1>10, IdleFacts, NumbersKept, FreezeStep DEF Kinds, Steps, Swapping

LEMMA StartExtractStep == ASSUME IInv, StartExtract PROVE IInv'
<1>1. /\ disk.archive # NoFile /\ disk.archive.whole /\ jobs < MaxJobs[site] /\ jobs' = jobs + 1
      /\ job' = [kind |-> "extract", step |-> "files", now |-> clock,
                 read |-> disk.archive.members, held |-> NoFile]
      /\ disk' = [disk EXCEPT !.extract = [members |-> << >>]]
      /\ UNCHANGED <<basis, kills>> /\ Untouched
  BY DEF StartExtract
<1>2. /\ DOMAIN disk' = Outputs /\ \A f \in Outputs \ {"extract"} : disk'[f] = disk[f]
  BY <1>1, NumbersKept
<1>3. KeepsFiles(ShardFiles)
  BY <1>1, <1>2 DEF KeepsFiles, ShardFiles, Outputs
<1>4. disk'["archive"] = disk["archive"] /\ disk'["manifest"] = disk["manifest"]
  BY <1>2 DEF Outputs
<1>5. disk.archive # Truncated
  BY <1>1, ArchiveFacts
<1>6. Frozen /\ PartOfLog(basis.archive.log)
  BY <1>1, <1>5 DEF IInv, FreezeInv
<1>7. disk.archive.members = basis.archive.log
  BY <1>6, ArchiveFacts DEF Frozen
<1>8. Frozen' /\ PartOfLog(basis.archive.log)'
  BY <1>1, <1>4, <1>6 DEF Frozen, PartOfLog, Untouched
<1>9. job'.kind = "extract" /\ job'.step = "files" /\ job'.read = basis.archive.log /\ DOMAIN job' = JobFields
  BY <1>1, <1>7 DEF JobFields
<1>10. FreezeInv'
  BY <1>1, <1>4, <1>8, <1>9 DEF IInv, FreezeInv, Describes
<1>11. JobFits'
  BY <1>9 DEF JobFits, At, JobFields
<1>12. jobs' \in 0..MaxJobs[site]
  BY <1>1 DEF IInv, TypeOK
<1> QED
  BY <1>1, <1>2, <1>3, <1>9, <1>10, <1>11, <1>12, NumbersKept, FreezeStep DEF Kinds, Steps, Swapping

LEMMA ExtractStep == ASSUME IInv, ExtractFile PROVE IInv'
<1> DEFINE content == WithMember(job.read[NextMember])
           next == IF DOMAIN disk'.extract.members = DOMAIN job.read THEN Idle ELSE job
<1>0. At("files") /\ Writes("extract", content, NoFile) /\ Goes(next)
  BY DEF ExtractFile
<1>1. At("files") /\ Writes("extract", content, NoFile) /\ Goes(next) /\ next \in {Idle, job}
  BY <1>0
<1> HIDE DEF content, next
<1>2. job' = next /\ Untouched /\ UNCHANGED <<jobs, kills>>
  BY <1>1 DEF Goes
<1>3. job.kind = "extract" /\ Frozen /\ job.read = basis.archive.log
  BY <1>1 DEF IInv, JobFits, FreezeInv
<1>4. /\ DOMAIN disk' = Outputs /\ DOMAIN basis' = Outputs /\ basis'["extract"].log = job.read
      /\ \A f \in Outputs \ {"extract"} : disk'[f] = disk[f] /\ basis'[f] = basis[f]
  <2>1. TypeOK /\ "extract" \in Outputs
    BY DEF IInv, Outputs
  <2>2. /\ DOMAIN disk' = Outputs /\ DOMAIN basis' = Outputs
        /\ basis'["extract"] = [log |-> job.read, now |-> job.now, of |-> NoFile]
        /\ \A f \in Outputs \ {"extract"} : disk'[f] = disk[f] /\ basis'[f] = basis[f]
    BY ONLY <1>1, <2>1, WritesFacts
  <2> QED
    BY ONLY <2>2
<1>5. KeepsFiles(ShardFiles)
  BY <1>4 DEF KeepsFiles, ShardFiles, Outputs
<1>6. /\ disk'["archive"] = disk["archive"] /\ basis'["archive"] = basis["archive"]
      /\ disk'["manifest"] = disk["manifest"]
  BY <1>4 DEF Outputs
<1>7. Frozen'
  BY <1>3, <1>6 DEF Frozen
<1>8. PartOfLog(basis.archive.log)'
  <2>1. PartOfLog(basis.archive.log)
    BY <1>3, ArchiveFacts DEF IInv, FreezeInv, Frozen
  <2> QED
    BY <1>2, <1>6, <2>1 DEF PartOfLog, Untouched
<1>9. next.kind \in {"none", "extract"} /\ next.step \in {"none", "files"} /\ DOMAIN next = JobFields
      /\ (next.step = "files" <=> next.kind = "extract")
      /\ (next.kind = "extract" => next.read = basis.archive.log)
  BY <1>1, <1>3, IdleFacts, JobType DEF At
<1>10. FreezeInv'
  BY <1>2, <1>3, <1>4, <1>6, <1>7, <1>8, <1>9 DEF IInv, FreezeInv, Describes
<1>11. JobFits'
  BY <1>2, <1>9 DEF JobFits, At, JobFields
<1> QED
  BY <1>2, <1>4, <1>5, <1>9, <1>10, <1>11, NumbersKept, FreezeStep DEF Kinds, Steps, Swapping

(* A kill leaves a whole archive alone: what it cuts short is a file that was
   not there, or one that is not the archive. *)
LEMMA KillStep == ASSUME IInv, Kill PROVE IInv'
<1>1. /\ kills < MaxKills /\ kills' = kills + 1 /\ job' = Idle /\ CutShort
      /\ UNCHANGED <<basis, jobs>> /\ Untouched
  BY DEF Kill
<1>2. FreezeInv /\ JobFits
  BY DEF IInv
<1>3. /\ DOMAIN disk' = Outputs
      /\ \A f \in Outputs \ FreezeFiles : disk'[f] = disk[f]
      /\ \/ disk'.archive = disk.archive
         \/ disk'.archive = Truncated /\ job.kind = "freeze" /\ At("reading")
      /\ disk'.manifest \in {disk.manifest, Truncated}
  <2>1. CASE disk' = disk
    BY <2>1, NumbersKept
  <2>2. CASE job.kind = "freeze" /\ ReadyFor("freeze") /\ disk' = [disk EXCEPT !.archive = Truncated]
    BY <2>2, NumbersKept DEF ReadyFor, At, FreezeFiles, Outputs
  <2>3. CASE disk' = [disk EXCEPT !.manifest = Truncated]
    BY <2>3, NumbersKept DEF FreezeFiles, Outputs
  <2>4. CASE \E content : disk' = [disk EXCEPT !.extract = content]
    BY <2>4, NumbersKept DEF FreezeFiles, Outputs
  <2> QED
    BY <1>1, <2>1, <2>2, <2>3, <2>4 DEF CutShort
<1>4. KeepsFiles(ShardFiles)
  BY <1>1, <1>3 DEF KeepsFiles, ShardFiles, FreezeFiles, Outputs
<1>5. /\ disk'.archive \in {NoFile, Truncated} \/ (Frozen' /\ PartOfLog(basis.archive.log)')
      /\ disk'.manifest \in {NoFile, Truncated}
           \/ (Frozen' /\ Describes(disk.manifest, basis.archive.log)')
      /\ basis'.extract # NoFile => Frozen' /\ basis'.extract.log = basis'.archive.log
  <2>1. PartOfLog(basis.archive.log) => PartOfLog(basis.archive.log)'
    BY <1>1 DEF PartOfLog, Untouched
  <2>2. CASE disk'.archive = disk.archive
    <3>1. Frozen => Frozen'
      BY <1>1, <2>2 DEF Frozen
    <3>2. disk'.manifest = disk.manifest /\ Describes(disk.manifest, basis.archive.log)
             => Describes(disk.manifest, basis.archive.log)'
      BY <1>1 DEF Describes
    <3> QED
      BY <1>1, <1>2, <1>3, <2>1, <2>2, <3>1, <3>2 DEF FreezeInv
  <2>3. CASE disk'.archive = Truncated /\ job.kind = "freeze" /\ At("reading")
    <3>1. disk.archive = NoFile /\ disk.manifest = NoFile
      BY <1>2, <2>3 DEF FreezeInv
    <3>2. basis.extract = NoFile
      BY <1>2, <3>1, ArchiveFacts DEF FreezeInv, Frozen
    <3> QED
      BY <1>1, <1>3, <2>3, <3>1, <3>2
  <2> QED
    BY <1>3, <2>2, <2>3
<1>6. FreezeInv'
  BY <1>1, <1>5, IdleFacts DEF FreezeInv
<1>7. JobFits'
  BY <1>1, IdleFacts DEF JobFits, At, JobFields
<1>8. kills' \in 0..MaxKills
  BY <1>1, NumbersKept DEF OperatorAssumption
<1> QED
  BY <1>1, <1>3, <1>4, <1>6, <1>7, <1>8, IdleFacts, NumbersKept, FreezeStep DEF Kinds, Steps, Swapping

-----------------------------------------------------------------------------
(* The invariant. *)

LEMMA InitIInv == Init => IInv
<1> SUFFICES ASSUME Init PROVE IInv
  OBVIOUS
<1>1. /\ site \in Sites /\ opts \in OptionSets /\ store = InitStore /\ log \in InitLogs /\ job = Idle
      /\ disk = [f \in Outputs |-> NoFile] /\ basis = [f \in Outputs |-> NoFile]
      /\ polls = 0 /\ jobs = 0 /\ kills = 0
  BY DEF Init
<1>2. /\ DOMAIN log \subseteq Nat /\ IsFiniteSet(DOMAIN log)
      /\ \A r \in DOMAIN log :
            /\ log[r] \in Seq(Range(log[r])) /\ Ascends(log[r])
            /\ \A i \in DOMAIN log[r] : log[r][i].seq \in Nat /\ log[r][i].ts \in Nat
  BY <1>1 DEF OperatorAssumption
<1>3. \A r \in DOMAIN log : IsLog(log[r])
  BY <1>2 DEF IsLog
<1>4. clock \in Nat
  <2> DEFINE tsOf == [r \in DOMAIN log |-> {log[r][i].ts : i \in DOMAIN log[r]}]
             all == {tsOf[r] : r \in DOMAIN log}
             times == {0} \cup UNION all
  <2>1. ASSUME NEW r \in DOMAIN log PROVE IsFiniteSet(tsOf[r]) /\ tsOf[r] \subseteq Nat
    <3> DEFINE f == [i \in DOMAIN log[r] |-> log[r][i].ts]
    <3>1. Len(log[r]) \in Nat /\ DOMAIN log[r] = 1..Len(log[r])
      BY <1>3, SeqsFacts
    <3>2. IsFiniteSet(DOMAIN log[r])
      BY <3>1, FS_Interval
    <3>3. IsFiniteSet({f[i] : i \in DOMAIN log[r]})
      BY <3>2, ImageFacts
    <3>4. {f[i] : i \in DOMAIN log[r]} = tsOf[r]
      OBVIOUS
    <3> QED
      BY <1>2, <3>3, <3>4
  <2>0. all = {{log[r][i].ts : i \in DOMAIN log[r]} : r \in DOMAIN log}
    BY Zenon
  <2>2. clock = Max(times)
    BY ONLY <2>0, Init DEF Init
  <2> HIDE DEF tsOf
  <2>3. IsFiniteSet(all) /\ \A T \in all : IsFiniteSet(T) /\ T \subseteq Nat
    BY <1>2, <2>1, ImageFacts
  <2>4. IsFiniteSet(UNION all) /\ UNION all \subseteq Nat
    BY <2>3, FS_UNION
  <2>5. IsFiniteSet(times) /\ times \subseteq Nat /\ times # {}
    <3> DEFINE some == UNION all
    <3>1. IsFiniteSet(some) /\ some \subseteq Nat
      BY <2>4
    <3> HIDE DEF some
    <3>2. IsFiniteSet({0})
      BY FS_Singleton
    <3>3. IsFiniteSet({0} \cup some)
      BY <3>1, <3>2, FS_Union
    <3>4. {0} \cup some \subseteq Nat /\ {0} \cup some # {}
      BY <3>1
    <3> QED
      BY <3>3, <3>4 DEF some
  <2> QED
    BY <2>2, <2>5, MaxIsNat
<1>5. gaps = [r \in DOMAIN log |-> Cardinality(GapIntervals(SeqsOf(log[r])))]
  BY DEF Init, SeqsOf
<1>6. SoundLog
  <2>1. \A r \in DOMAIN log : gaps[r] = Cardinality(GapIntervals(SeqsOf(log[r]))) /\ gaps[r] \in Nat
    BY <1>3, <1>5, SeqsFacts
  <2>2. \A r \in DOMAIN log :
           gaps[r] \in Nat /\ Cardinality(GapIntervals(SeqsOf(log[r]))) <= gaps[r]
    BY <2>1
  <2> QED
    BY <1>2, <1>3, <2>2 DEF SoundLog
<1>7. TypeOK
  <2>1. /\ polls \in 0..MaxPolls[site] /\ jobs \in 0..MaxJobs[site] /\ kills \in 0..MaxKills
    BY <1>1 DEF OperatorAssumption
  <2>2. DOMAIN store.rows \subseteq DOMAIN Words /\ store.db \in Nat
    BY <1>1 DEF OperatorAssumption
  <2> QED
    BY <1>1, <1>4, <1>5, <2>1, <2>2, IdleFacts DEF TypeOK
<1>8. JobFits
  BY <1>1, IdleFacts DEF JobFits, At, JobFields
<1>9. \A f \in Outputs : disk[f] = NoFile /\ basis[f] = NoFile
  BY <1>1
<1>10. FreezeInv
  BY <1>1, <1>9, IdleFacts DEF FreezeInv, Outputs
<1>11. ShardsInv
  BY <1>1, <1>9, IdleFacts DEF ShardsInv, Outputs
<1> QED
  BY <1>6, <1>7, <1>8, <1>10, <1>11 DEF IInv

LEMMA NextIInv == IInv /\ [Next]_vars => IInv'
<1> SUFFICES ASSUME IInv, [Next]_vars PROVE IInv'
  OBVIOUS
<1>1. CASE \E room \in DOMAIN log, message \in Feed : Poll(room, message)
  BY <1>1, PollStep
<1>2. CASE \E change \in Changes : Index(change)
  BY <1>2, IndexStep
<1>3. CASE ReadRoom
  BY <1>3, ReadStep
<1>4. CASE StartLedger \/ StartLiveness \/ StartPublish \/ StartLexical
  BY <1>4, StartOthersStep
<1>5. CASE WriteLedger \/ WriteMap
  BY <1>5, LedgerStep, LivenessStep
<1>6. CASE \/ StageShards \/ ClearOldShards \/ RetireShards \/ InstallShards \/ DropOldShards
  BY <1>6, StageStep, ClearStep, RetireStep, InstallStep, DropStep
<1>7. CASE WriteCompact \/ WriteCompactMap \/ WriteLexical \/ WriteLexicalAlone
  BY <1>7, LastSteps
<1>8. CASE StartFreeze \/ WriteArchive \/ WriteManifest
  BY <1>8, StartFreezeStep, ArchiveStep, ManifestStep
<1>9. CASE StartExtract \/ ExtractFile
  BY <1>9, StartExtractStep, ExtractStep
<1>10. CASE WriteManifestJson \/ WriteSurface
  BY <1>10, PublishSteps
<1>11. CASE HashDatabase \/ ReadLexicalDocs
  BY <1>11, ReadsOnlySteps
<1>12. CASE Kill
  BY <1>12, KillStep
<1>13. CASE UNCHANGED vars
  <2>1. /\ UNCHANGED <<disk, basis, job, jobs, kills, polls>>
        /\ UNCHANGED <<site, opts, log, gaps, clock, store>>
    BY <1>13 DEF vars
  <2>2. KeepsFiles(FreezeFiles) /\ KeepsFiles(ShardFiles)
    BY <2>1 DEF KeepsFiles
  <2>3. TypeOK' /\ JobFits'
    BY <2>1 DEF IInv, TypeOK, JobFits, At
  <2> QED
    BY <2>1, <2>2, <2>3, LogKept, FreezeKept, ShardsKept DEF IInv
<1> QED
  BY <1>1, <1>2, <1>3, <1>4, <1>5, <1>6, <1>7, <1>8, <1>9, <1>10, <1>11, <1>12, <1>13 DEF Next

(* The invariant holds of every behaviour. *)
THEOREM Invariance == Spec => []IInv
<1>1. IInv /\ [Next]_vars => IInv'
  BY NextIInv
<1> QED
  BY InitIInv, <1>1, PTL DEF Spec

(* Types, for any log root, index and options: the variables stay in the
   sets TypeOK gives them, whatever is built, polled, indexed or killed. *)
THEOREM WellTyped == Spec => []TypeOK
<1>1. IInv => TypeOK
  BY DEF IInv
<1> QED
  BY Invariance, <1>1, PTL

-----------------------------------------------------------------------------
(* The shards. *)

(* What a step that swaps nothing leaves on disk. *)
LEMMA OthersKeepShards ==
    ASSUME IInv, [Next]_vars, ~ClearOldShards, ~RetireShards, ~InstallShards, ~DropOldShards
    PROVE  disk'.shards = disk.shards /\ disk'.oldShards = disk.oldShards
<1>1. CASE disk' = disk
  BY <1>1
<1>2. CASE \E output \in Outputs \ ShardFiles : \E content, source : Writes(output, content, source)
  <2>3. PICK output \in Outputs \ ShardFiles : \E content, source : Writes(output, content, source)
    BY <1>2
  <2>1. PICK content, source : Writes(output, content, source)
    BY <2>3
  <2>2. "shards" # output /\ "oldShards" # output
    BY DEF ShardFiles
  <2> QED
    BY <2>1, <2>2, NumbersKept DEF Writes, Outputs
<1>3. CASE \/ disk' = [disk EXCEPT !.archive = Truncated] \/ disk' = [disk EXCEPT !.manifest = Truncated]
           \/ \E content : disk' = [disk EXCEPT !.extract = content]
  BY <1>3, NumbersKept DEF Outputs
<1>4. Outputs \ ShardFiles = {"ledger", "compact", "map", "compactMap", "archive", "manifest",
                              "extract", "manifestJson", "surface", "lexical"}
  BY DEF Outputs, ShardFiles
<1>5. \/ disk' = disk
      \/ \E output \in Outputs \ ShardFiles : \E content, source : Writes(output, content, source)
      \/ disk' = [disk EXCEPT !.archive = Truncated] \/ disk' = [disk EXCEPT !.manifest = Truncated]
      \/ \E content : disk' = [disk EXCEPT !.extract = content]
  <2> SUFFICES ASSUME disk' # disk
               PROVE  \/ \E output \in Outputs \ ShardFiles : \E content, source :
                            Writes(output, content, source)
                      \/ disk' = [disk EXCEPT !.archive = Truncated]
                      \/ disk' = [disk EXCEPT !.manifest = Truncated]
                      \/ \E content : disk' = [disk EXCEPT !.extract = content]
    OBVIOUS
  <2>1. \/ WriteLedger \/ WriteCompact \/ WriteMap \/ WriteCompactMap \/ WriteArchive
        \/ WriteManifest \/ StartExtract \/ ExtractFile \/ WriteManifestJson \/ WriteSurface
        \/ WriteLexical \/ WriteLexicalAlone \/ Kill
    BY DEF Next, vars, Poll, Index, ReadRoom, StartLedger, StageShards, Fails, Goes, StartLiveness,
           StartFreeze, StartPublish, HashDatabase, StartLexical, ReadLexicalDocs, Start
  <2>2. CASE WriteLedger \/ WriteCompact
    BY <1>4, <2>2 DEF WriteLedger, WriteCompact, Fails
  <2>3. CASE WriteMap \/ WriteCompactMap
    BY <1>4, <2>3 DEF WriteMap, WriteCompactMap, Fails
  <2>4. CASE WriteArchive \/ WriteManifest \/ ExtractFile
    BY <1>4, <2>4 DEF WriteArchive, WriteManifest, ExtractFile
  <2>5. CASE StartExtract
    BY <2>5 DEF StartExtract
  <2>6. CASE WriteManifestJson \/ WriteSurface
    BY <1>4, <2>6 DEF WriteManifestJson, WriteSurface
  <2>7. CASE WriteLexical \/ WriteLexicalAlone
    BY <1>4, <2>7 DEF WriteLexical, WriteLexicalAlone, Fails
  <2>8. CASE Kill
    BY <2>8 DEF Kill, CutShort
  <2> QED
    BY <2>1, <2>2, <2>3, <2>4, <2>5, <2>6, <2>7, <2>8
<1> QED
  BY <1>1, <1>2, <1>3, <1>5

(* No step of any command takes the last complete copy of the shards away. *)
LEMMA ShardsStep == ASSUME IInv, IInv', [Next]_vars, Published PROVE Published'
<1>1. disk.shards # NoFile \/ disk.oldShards # NoFile
  BY DEF Published, ShardsOnDisk
<1>2. CASE ClearOldShards
  <2>1. ShardsOnDisk("shards") /\ disk' = [disk EXCEPT !.oldShards = NoFile]
    BY <1>2 DEF ClearOldShards, At, IInv, ShardsInv
  <2>2. disk'["shards"] # NoFile
    BY <2>1 DEF ShardsOnDisk
  <2> QED
    BY <2>2 DEF Published, IInv, ShardsInv
<1>3. CASE DropOldShards
  <2>1. ShardsOnDisk("shards") /\ disk' = [disk EXCEPT !.oldShards = NoFile]
    BY <1>3 DEF DropOldShards, At, IInv, ShardsInv
  <2>2. disk'["shards"] # NoFile
    BY <2>1 DEF ShardsOnDisk
  <2> QED
    BY <2>2 DEF Published, IInv, ShardsInv
<1>4. CASE RetireShards
  <2>1. /\ ShardsOnDisk("shards")
        /\ disk' = [disk EXCEPT !.shards = NoFile, !.oldShards = disk.shards]
    BY <1>4 DEF RetireShards, At, IInv, ShardsInv
  <2>2. disk'["oldShards"] # NoFile
    BY <2>1, NumbersKept DEF ShardsOnDisk, Outputs
  <2> QED
    BY <2>2 DEF Published, IInv, ShardsInv
<1>5. CASE InstallShards
  BY <1>5, InstallStep DEF Published
<1>6. CASE ~ClearOldShards /\ ~RetireShards /\ ~InstallShards /\ ~DropOldShards
  <2>1. disk'["shards"] # NoFile \/ disk'["oldShards"] # NoFile
    BY <1>1, <1>6, OthersKeepShards
  <2> QED
    BY <2>1 DEF Published, IInv, ShardsInv
<1> QED
  BY <1>2, <1>3, <1>4, <1>5, <1>6

(* Once a ledger has been published in shards, every later state has, in
   did-ledger or in the directory kept aside, shards that join to the ledger
   they were split from: write_shards checks before it swaps, and a kill
   between its two renames, or before it removes the old copy, loses none. *)
THEOREM ShardsRemain == Spec => ShardsStayPublished
<1>1. IInv /\ IInv' /\ [Next]_vars => [Published => Published']_vars
  BY ShardsStep
<1> QED
  BY Invariance, <1>1, PTL DEF Spec, ShardsStayPublished

-----------------------------------------------------------------------------
(* Frozen logs. *)

(* A room of the archive shows no more gaps than the log has recorded, but
   for its lines that are no rows. *)
LEMMA FrozenRoom ==
    ASSUME IInv, PartOfLog(basis.archive.log), NEW r \in DOMAIN basis.archive.log
    PROVE  LET lines == basis.archive.log[r]
               facts == ComputeRoom(lines)
           IN  /\ IsPrefix(lines, log[r])
               /\ Cardinality(facts.gaps) <= gaps[r] + facts.malformed
<1>1. r \in DOMAIN log /\ \E n \in 0..Len(log[r]) : basis.archive.log[r] = SubSeq(log[r], 1, n)
  BY DEF PartOfLog
<1>2. PICK n \in 0..Len(log[r]) : basis.archive.log[r] = SubSeq(log[r], 1, n)
  BY <1>1
<1>3. /\ IsLog(log[r]) /\ gaps[r] \in Nat
      /\ Cardinality(GapIntervals(SeqsOf(log[r]))) <= gaps[r]
  BY <1>1 DEF IInv, SoundLog
<1>4. IsPrefix(SubSeq(log[r], 1, n), log[r])
  BY <1>3, PartIsPrefix
<1> DEFINE facts == ComputeRoom(SubSeq(log[r], 1, n))
<1>5. /\ Cardinality(facts.gaps) \in Nat /\ facts.malformed \in Nat
      /\ Cardinality(facts.gaps) <= Cardinality(GapIntervals(SeqsOf(log[r]))) + facts.malformed
  BY <1>3, GapsOfPart
<1>6. Cardinality(GapIntervals(SeqsOf(log[r]))) \in Nat
  BY <1>3, SeqsFacts
<1>7. Cardinality(facts.gaps) <= gaps[r] + facts.malformed
  <2> HIDE DEF facts
  <2> QED
    BY <1>3, <1>5, <1>6
<1> QED
  BY <1>2, <1>4, <1>7

LEMMA FrozenHolds == IInv => FrozenLogReproduces
<1> SUFFICES ASSUME IInv PROVE FrozenLogReproduces
  OBVIOUS
<1>1. FreezeInv
  BY DEF IInv
<1>2. ASSUME Verified
      PROVE  /\ \A r \in DOMAIN disk.archive.members : IsPrefix(disk.archive.members[r], log[r])
             /\ \A r \in DOMAIN disk.manifest.rooms :
                   Cardinality(disk.manifest.rooms[r].gaps) <= gaps[r] + disk.manifest.rooms[r].malformed
  <2>1. /\ disk.archive # NoFile /\ disk.archive # Truncated
        /\ disk.manifest # NoFile /\ disk.manifest # Truncated
    BY <1>2, ArchiveFacts DEF Verified, Verify
  <2>2. /\ Frozen /\ PartOfLog(basis.archive.log) /\ Describes(disk.manifest, basis.archive.log)
    BY <1>1, <2>1 DEF FreezeInv
  <2>3. disk.archive.members = basis.archive.log
    BY <2>2, ArchiveFacts DEF Frozen
  <2>4. disk.manifest.rooms = [r \in DOMAIN basis.archive.log |-> ComputeRoom(basis.archive.log[r])]
    BY <2>2 DEF Describes
  <2> QED
    BY <2>2, <2>3, <2>4, FrozenRoom
<1>3. ASSUME disk.manifest # NoFile, disk.manifest.whole PROVE Verified
  <2>1. disk.manifest # Truncated
    BY <1>3, ArchiveFacts
  <2>2. Frozen /\ Describes(disk.manifest, basis.archive.log)
    BY <1>1, <1>3, <2>1 DEF FreezeInv
  <2>3. /\ disk.archive # NoFile /\ disk.archive.whole /\ disk.archive.members = basis.archive.log
    BY <2>2, ArchiveFacts DEF Frozen
  <2> QED
    BY <1>3, <2>2, <2>3 DEF Verified, Verify, Describes
<1>4. ASSUME Extracted PROVE disk.extract.members = basis.archive.log
  BY <1>1, <1>4 DEF Extracted, FreezeInv
<1> QED
  BY <1>2, <1>3, <1>4 DEF FrozenLogReproduces

(* Frozen logs are what they say, for any log: whatever the poller appends
   while freeze_message_log reads the rooms, and wherever freeze or extract
   is killed, an archive that verifies holds a prefix of every room and shows
   no gap but those the poller recorded and the lines that are no rows; a
   manifest that is whole has an archive that verifies against it; and an
   extraction that came to its end gives the ledger of what was frozen. *)
THEOREM FrozenLogsReproduce == Spec => []FrozenLogReproduces
BY Invariance, FrozenHolds, PTL

HIDE OperatorAssumption

-----------------------------------------------------------------------------
(* Fitting an artifact to its limit. *)

(* DIDs and times of last posts are numbers. *)
IsLastSeen(lastSeen) ==
    /\ IsFiniteSet(DOMAIN lastSeen)
    /\ \A d \in DOMAIN lastSeen : d \in Int /\ lastSeen[d] \in Int

(* No tie is split after place k. *)
Clean(k, ranked, lastSeen) ==
    k \in {0, Len(ranked)} \/ lastSeen[ranked[k]] # lastSeen[ranked[k + 1]]

(* The order in which entries are kept: all of them, once each, the newest
   first, and ties by identifier. *)
LEMMA RankedFacts ==
    ASSUME NEW lastSeen, IsLastSeen(lastSeen)
    PROVE  LET ranked == Ranked(lastSeen)
               n == Cardinality(DOMAIN lastSeen)
           IN  /\ n \in Nat /\ ranked \in Seq(DOMAIN lastSeen)
               /\ Len(ranked) = n /\ DOMAIN ranked = 1..n
               /\ Range(ranked) = DOMAIN lastSeen /\ IsInjective(ranked)
               /\ \A i, j \in 1..n : i < j => lastSeen[ranked[i]] >= lastSeen[ranked[j]]
<1> DEFINE D == DOMAIN lastSeen
           ranked == Ranked(lastSeen)
           n == Cardinality(D)
<1>1. ASSUME NEW a \in D, NEW b \in D
      PROVE  <<a, b>> \in Newer(lastSeen) <=>
                lastSeen[a] > lastSeen[b] \/ (lastSeen[a] = lastSeen[b] /\ a < b)
  <2> DEFINE p == <<a, b>>
  <2>1. p \in D \X D /\ p[1] = a /\ p[2] = b
    OBVIOUS
  <2> HIDE DEF p
  <2> QED
    BY <2>1 DEF Newer, p
<1>2. Orders(Newer(lastSeen), D)
  <2>1. \A a \in D : a \in Int /\ lastSeen[a] \in Int
    BY DEF IsLastSeen
  <2> HIDE DEF D
  <2>2. \A a \in D : <<a, a>> \notin Newer(lastSeen)
    BY <1>1, <2>1
  <2>3. ASSUME NEW a \in D, NEW b \in D, NEW c \in D,
               <<a, b>> \in Newer(lastSeen), <<b, c>> \in Newer(lastSeen)
        PROVE  <<a, c>> \in Newer(lastSeen)
    BY <1>1, <2>1, <2>3
  <2>4. ASSUME NEW a \in D, NEW b \in D, a # b
        PROVE  <<a, b>> \in Newer(lastSeen) \/ <<b, a>> \in Newer(lastSeen)
    BY <1>1, <2>1, <2>4
  <2> QED
    BY <2>2, <2>3, <2>4 DEF Orders
<1>3. /\ ranked \in Seq(D) /\ Len(ranked) = n /\ n \in Nat /\ DOMAIN ranked = 1..n
      /\ Range(ranked) = D /\ IsInjective(ranked)
      /\ \A i, j \in 1..n : i < j <=> <<ranked[i], ranked[j]>> \in Newer(lastSeen)
  <2>1. IsFiniteSet(D)
    BY DEF IsLastSeen
  <2>2. ranked = SortedBy(D, Newer(lastSeen))
    BY DEF Ranked
  <2> HIDE DEF D, n, ranked
  <2> QED
    BY <1>2, <2>1, <2>2, Ordered DEF n
<1>4. ASSUME NEW i \in 1..n, NEW j \in 1..n, i < j PROVE lastSeen[ranked[i]] >= lastSeen[ranked[j]]
  <2>1. ranked[i] \in D /\ ranked[j] \in D
    BY <1>3 DEF Range
  <2>2. <<ranked[i], ranked[j]>> \in Newer(lastSeen)
    BY <1>3, <1>4
  <2>3. lastSeen[ranked[i]] \in Int /\ lastSeen[ranked[j]] \in Int
    BY <2>1 DEF IsLastSeen
  <2> HIDE DEF D, n, ranked
  <2> QED
    BY <1>1, <2>1, <2>2, <2>3
<1> HIDE DEF ranked
<1> QED
  BY <1>3, <1>4 DEF ranked

(* The last place before k, or k, where no tie is split. *)
LEMMA BoundaryFacts ==
    ASSUME NEW ranked, NEW lastSeen, NEW k \in Nat
    PROVE  /\ Boundary(k, ranked, lastSeen) \in 0..k
           /\ Clean(Boundary(k, ranked, lastSeen), ranked, lastSeen)
           /\ \A j \in 0..k : Clean(j, ranked, lastSeen) => j <= Boundary(k, ranked, lastSeen)
           /\ Clean(k, ranked, lastSeen) <=> Boundary(k, ranked, lastSeen) = k
<1> DEFINE S == {j \in 0..k : Clean(j, ranked, lastSeen)}
<1>1. Boundary(k, ranked, lastSeen) = Max(S)
  BY DEF Boundary, Clean
<1>2. S \subseteq Int /\ S # {} /\ IsFiniteSet(S)
  <2>1. 0 \in S
    BY DEF Clean
  <2>2. IsFiniteSet(0..k) /\ S \subseteq 0..k
    BY FS_Interval
  <2> QED
    BY <2>1, <2>2, FS_Subset
<1>3. Max(S) \in S /\ \A x \in S : x <= Max(S)
  <2> HIDE DEF S
  <2> QED
    BY <1>2, MaxIsLargest
<1>4. Clean(k, ranked, lastSeen) => Max(S) = k
  <2>1. ASSUME k \in S PROVE Max(S) = k
    BY <1>3, <2>1
  <2> QED
    BY <2>1
<1> QED
  BY <1>1, <1>3, <1>4

(* Cut where no tie is split, the newest k are those last seen at or after
   the cutoff. *)
LEMMA NewestFacts ==
    ASSUME NEW lastSeen, IsLastSeen(lastSeen),
           NEW k \in 0..Cardinality(DOMAIN lastSeen)
    PROVE  LET ranked == Ranked(lastSeen)
               newest == Newest(k, ranked)
           IN  /\ newest \subseteq DOMAIN lastSeen /\ IsFiniteSet(newest) /\ Cardinality(newest) = k
               /\ newest = DOMAIN lastSeen <=> k = Cardinality(DOMAIN lastSeen)
               /\ k # 0 /\ Clean(k, ranked, lastSeen) =>
                     newest = {d \in DOMAIN lastSeen : lastSeen[d] >= lastSeen[ranked[k]]}
<1> DEFINE ranked == Ranked(lastSeen)
           n == Cardinality(DOMAIN lastSeen)
           newest == Newest(k, ranked)
<1>1. /\ n \in Nat /\ ranked \in Seq(DOMAIN lastSeen) /\ Len(ranked) = n /\ DOMAIN ranked = 1..n
      /\ Range(ranked) = DOMAIN lastSeen /\ IsInjective(ranked)
      /\ \A i, j \in 1..n : i < j => lastSeen[ranked[i]] >= lastSeen[ranked[j]]
  BY RankedFacts
<1>2. k \in Nat /\ k <= n /\ \A i \in 1..k : i \in 1..n
  BY <1>1
<1> HIDE DEF ranked, n
<1>3. newest \subseteq DOMAIN lastSeen
  BY <1>1, <1>2 DEF Newest, Range
<1>4. IsFiniteSet(newest) /\ Cardinality(newest) = k
  <2> DEFINE a == [i \in 1..k |-> ranked[i]]
  <2>1. Range(a) = newest
    BY DEF Range, Newest
  <2>2. IsInjective(a)
    BY <1>1, <1>2 DEF IsInjective
  <2>3. a \in [1..k -> Range(a)]
    BY DEF Range
  <2> HIDE DEF a
  <2> QED
    BY <1>2, <2>1, <2>2, <2>3, AsManyAsPlaces
<1>5. newest = DOMAIN lastSeen <=> k = n
  <2>1. ASSUME k = n PROVE newest = DOMAIN lastSeen
    BY <1>1, <2>1 DEF Newest, Range
  <2> QED
    BY <1>4, <2>1 DEF n
<1>6. ASSUME k # 0, Clean(k, ranked, lastSeen)
      PROVE  newest = {d \in DOMAIN lastSeen : lastSeen[d] >= lastSeen[ranked[k]]}
  <2>1. k \in 1..k /\ k \in 1..n
    BY <1>2, <1>6
  <2>2. \A i \in 1..n : ranked[i] \in DOMAIN lastSeen /\ lastSeen[ranked[i]] \in Int
    BY <1>1 DEF Range, IsLastSeen
  <2>3. ASSUME NEW i \in 1..k PROVE lastSeen[ranked[i]] >= lastSeen[ranked[k]]
    <3>1. i \in 1..n /\ (i < k \/ i = k)
      BY <1>2
    <3> QED
      BY <1>1, <2>1, <2>2, <3>1
  <2>4. ASSUME NEW i \in 1..n, i > k PROVE ~(lastSeen[ranked[i]] >= lastSeen[ranked[k]])
    <3>1. k + 1 \in 1..n /\ k # n /\ (i = k + 1 \/ k + 1 < i) /\ k < k + 1
      BY <1>1, <1>2, <2>4
    <3>2. lastSeen[ranked[k]] # lastSeen[ranked[k + 1]]
      BY <1>1, <1>6, <3>1 DEF Clean
    <3>3. lastSeen[ranked[k + 1]] >= lastSeen[ranked[i]]
      BY <1>1, <2>2, <3>1
    <3>4. lastSeen[ranked[k]] >= lastSeen[ranked[k + 1]]
      BY <1>1, <2>1, <3>1
    <3> QED
      BY <2>1, <2>2, <3>1, <3>2, <3>3, <3>4
  <2>5. \A d \in DOMAIN lastSeen : \E i \in 1..n : d = ranked[i]
    BY <1>1 DEF Range
  <2>6. \A i \in 1..n : i \in 1..k \/ i > k
    BY <1>2
  <2>7. newest = {ranked[i] : i \in 1..k}
    BY DEF Newest
  <2> HIDE DEF newest
  <2> QED
    BY <1>2, <2>2, <2>3, <2>4, <2>5, <2>6, <2>7
<1> QED
  BY <1>3, <1>4, <1>5, <1>6 DEF ranked, n

(* A cut at a boundary between two times serves all entries from its cutoff
   on, and says so. *)
LEMMA ServesFacts ==
    ASSUME NEW lastSeen, IsLastSeen(lastSeen),
           NEW k \in 1..Cardinality(DOMAIN lastSeen),
           k # Cardinality(DOMAIN lastSeen), Clean(k, Ranked(lastSeen), lastSeen)
    PROVE  LET ranked == Ranked(lastSeen)
           IN  /\ ServesExactly(Newest(k, ranked), Served(k, ranked, lastSeen), lastSeen)
               /\ Served(k, ranked, lastSeen) # NoServed
<1> DEFINE ranked == Ranked(lastSeen)
<1>1. k \in 0..Cardinality(DOMAIN lastSeen) /\ k # 0 /\ k \in Nat
  BY RankedFacts
<1>2. /\ Cardinality(Newest(k, ranked)) = k
      /\ Newest(k, ranked) # DOMAIN lastSeen
      /\ Newest(k, ranked) = {d \in DOMAIN lastSeen : lastSeen[d] >= lastSeen[ranked[k]]}
  BY <1>1, NewestFacts
<1> HIDE DEF ranked
<1>3. /\ Served(k, ranked, lastSeen).kept = k
      /\ Served(k, ranked, lastSeen).cutoff = lastSeen[ranked[k]]
      /\ Served(k, ranked, lastSeen) # NoServed
  BY <1>1 DEF Served, NoServed
<1> QED
  BY <1>2, <1>3 DEF ServesExactly, ranked

(* The binary search ends between what fits and what does not. *)
LEMMA SearchEnds ==
    ASSUME NEW n \in Nat, NEW fitting
    PROVE  LET k == LargestFit(n, fitting)
           IN  k \in 0..n /\ (k = 0 \/ k \in fitting) /\ (k = n \/ k + 1 \notin fitting)
<1> DEFINE X == [lo : Int, hi : Int]
           a == [lo |-> 0, hi |-> n]
           g == [i \in 1..n |-> [b \in X |-> Halved(b, fitting)]]
           F(h) == [turn \in 0..n |-> IF turn = 0 THEN a ELSE Halved(h[turn - 1], fitting)]
           search == CHOOSE h : h = F(h)
<1>1. LargestFit(n, fitting) = search[n].lo
  BY DEF LargestFit
<1>2. ASSUME NEW b \in X PROVE Halved(b, fitting) \in X
  BY DEF Halved
<1>3. \E h : h = F(h)
  <2>1. g \in [1..n -> [X -> X]] /\ a \in X
    BY <1>2
  <2> HIDE DEF g, a
  <2>2. PICK h : IsIteration(h, n, X, a, g)
    BY <2>1, IterationExists
  <2>3. h \in [0..n -> X] /\ h[0] = a /\ \A i \in 1..n : h[i] = g[i][h[i - 1]]
    BY <2>2 DEF IsIteration
  <2>4. \A i \in 0..n : h[i] = IF i = 0 THEN a ELSE Halved(h[i - 1], fitting)
    <3> SUFFICES ASSUME NEW i \in 1..n PROVE h[i] = Halved(h[i - 1], fitting)
      BY <2>3
    <3>1. h[i - 1] \in X
      BY <2>3
    <3> QED
      BY <2>3, <3>1 DEF g
  <2>5. h = F(h)
    BY <2>3, <2>4
  <2> QED
    BY <2>5
<1>4. search = F(search)
  <2> HIDE DEF F
  <2> QED
    BY <1>3
<1> HIDE DEF search
<1>5. /\ search[0] = a
      /\ \A i \in 1..n : search[i] = Halved(search[i - 1], fitting)
  BY <1>4
<1> DEFINE Good(b, left) ==
              /\ b \in X /\ b.lo \in 0..n /\ b.hi \in 0..n /\ b.lo <= b.hi
              /\ b.lo = 0 \/ b.lo \in fitting
              /\ b.hi = n \/ b.hi + 1 \notin fitting
              /\ b.hi - b.lo <= left
           T == {i \in 0..n : Good(search[i], n - i)}
<1>6. 0 \in T
  BY <1>5
<1>7. ASSUME NEW i \in 1..n, i - 1 \in T PROVE i \in T
  <2> DEFINE b == search[i - 1]
             mid == (b.lo + b.hi + 1) \div 2
  <2>1. Good(b, n - (i - 1)) /\ search[i] = Halved(b, fitting)
    BY <1>5, <1>7
  <2> HIDE DEF b
  <2>2. b = [lo |-> b.lo, hi |-> b.hi] /\ b.lo \in Int /\ b.hi \in Int
    BY <2>1
  <2>3. CASE b.lo >= b.hi
    <3>1. search[i] = b
      BY <2>1, <2>3 DEF Halved
    <3> QED
      BY <2>1, <2>3, <3>1
  <2>4. CASE ~(b.lo >= b.hi)
    <3>1. mid \in Int /\ b.lo < mid /\ mid <= b.hi
      BY <2>2, <2>4
    <3>2. CASE mid \in fitting
      <4>1. search[i] = [lo |-> mid, hi |-> b.hi]
        BY <2>1, <2>2, <2>4, <3>2 DEF Halved
      <4> HIDE DEF mid
      <4> QED
        BY <2>1, <3>1, <3>2, <4>1
    <3>3. CASE mid \notin fitting
      <4>1. search[i] = [lo |-> b.lo, hi |-> mid - 1]
        BY <2>1, <2>2, <2>4, <3>3 DEF Halved
      <4> HIDE DEF mid
      <4>2. mid - 1 + 1 = mid
        BY <3>1
      <4> QED
        BY <2>1, <3>1, <3>3, <4>1, <4>2
    <3> QED
      BY <3>2, <3>3
  <2> QED
    BY <2>3, <2>4
<1>8. n \in T
  <2>1. n \in 0..n
    OBVIOUS
  <2> HIDE DEF T
  <2> QED
    BY <1>6, <1>7, <2>1, CountingUp
<1>9. Good(search[n], n - n)
  BY <1>8
<1>10. search[n].hi = search[n].lo
  BY <1>9
<1> QED
  BY <1>1, <1>9, <1>10

-----------------------------------------------------------------------------
(* What a build reads. *)

(* What a build holds of the log. *)
IsRead(read) ==
    /\ DOMAIN read \subseteq Nat /\ IsFiniteSet(DOMAIN read)
    /\ \A r \in DOMAIN read :
          /\ IsLog(read[r])
          /\ \A i \in DOMAIN read[r] : /\ read[r][i].ts \in Nat /\ read[r][i].sender \in Nat
                                       /\ read[r][i].text \in DOMAIN Attr

(* Rows: no two have the same number in the same room. *)
AreRows(rows) ==
    /\ IsFiniteSet(rows)
    /\ \A r \in rows : /\ r.room \in Nat /\ r.seq \in Nat /\ r.ts \in Nat /\ r.sender \in Nat
                       /\ r.text \in DOMAIN Attr
    /\ \A r, q \in rows : r.room = q.room /\ r.seq = q.seq => r = q

(* A build reads finitely many lines. *)
LEMMA LinesFinite ==
    ASSUME NEW read, IsRead(read), NEW scope
    PROVE  IsFiniteSet(LinesOf(read, scope))
<1> DEFINE Of(room) == {[room |-> room, i |-> i] : i \in DOMAIN read[room]}
           rooms == scope \cap DOMAIN read
           f == [room \in rooms |-> Of(room)]
<1>1. IsFiniteSet(rooms)
  BY FS_Subset DEF IsRead
<1>2. ASSUME NEW room \in rooms PROVE IsFiniteSet(Of(room))
  <2> DEFINE g == [i \in DOMAIN read[room] |-> [room |-> room, i |-> i]]
  <2>1. DOMAIN read[room] = 1..Len(read[room]) /\ Len(read[room]) \in Nat
    BY SeqsFacts DEF IsRead
  <2>2. IsFiniteSet(DOMAIN read[room])
    BY <2>1, FS_Interval
  <2>3. Of(room) = {g[i] : i \in DOMAIN read[room]}
    OBVIOUS
  <2> HIDE DEF g, Of
  <2> QED
    BY <2>2, <2>3, ImageFacts
<1>3. {f[room] : room \in rooms} = {Of(room) : room \in rooms}
  OBVIOUS
<1>4. IsFiniteSet({Of(room) : room \in rooms})
  <2> HIDE DEF f, Of
  <2> QED
    BY <1>1, <1>3, ImageFacts
<1>5. \A X \in {Of(room) : room \in rooms} : IsFiniteSet(X)
  BY <1>2
<1>6. LinesOf(read, scope) = UNION {Of(room) : room \in rooms}
  BY DEF LinesOf
<1> HIDE DEF Of, rooms
<1> QED
  BY <1>4, <1>5, <1>6, FS_UNION

(* The rows it loads are well formed, no more than the lines; the signed
   ones are the posts of the ledger. *)
LEMMA RowsFacts ==
    ASSUME NEW read, IsRead(read), NEW scope
    PROVE  /\ AreRows(LoadRows(read, scope))
           /\ Cardinality(LoadRows(read, scope)) <= Cardinality(LinesOf(read, scope))
           /\ Cardinality(LinesOf(read, scope)) \in Nat
           /\ LoadPosts(read, scope) = {r \in LoadRows(read, scope) : r.signed}
<1> DEFINE lines == LinesOf(read, scope)
           good == {a \in lines : read[a.room][a.i].parses = "yes"}
           f == [a \in good |-> RowAt(read, a)]
           rows == LoadRows(read, scope)
<1>1. IsFiniteSet(lines)
  BY LinesFinite
<1>2. IsFiniteSet(good) /\ Cardinality(good) <= Cardinality(lines) /\ Cardinality(lines) \in Nat
      /\ Cardinality(good) \in Nat
  BY <1>1, PartFacts
<1>3. rows = {f[a] : a \in good}
  BY DEF LoadRows
<1>4. IsFiniteSet(rows) /\ Cardinality(rows) <= Cardinality(good) /\ Cardinality(rows) \in Nat
  <2> HIDE DEF good, f, rows
  <2> QED
    BY <1>2, <1>3, ImageFacts
<1>5. \A a \in lines : a.room \in DOMAIN read /\ a.i \in DOMAIN read[a.room] /\ a = [room |-> a.room, i |-> a.i]
  BY DEF LinesOf
<1>6. ASSUME NEW r \in rows
      PROVE  \E a \in lines : /\ r.room = a.room /\ r.seq = read[a.room][a.i].seq
                              /\ r.ts = read[a.room][a.i].ts /\ r.sender = read[a.room][a.i].sender
                              /\ r.text = read[a.room][a.i].text
                              /\ r = RowAt(read, a)
  BY DEF LoadRows, RowAt
<1>7. \A r \in rows : /\ r.room \in Nat /\ r.seq \in Nat /\ r.ts \in Nat /\ r.sender \in Nat
                     /\ r.text \in DOMAIN Attr
  <2> SUFFICES ASSUME NEW r \in rows
               PROVE  /\ r.room \in Nat /\ r.seq \in Nat /\ r.ts \in Nat /\ r.sender \in Nat
                      /\ r.text \in DOMAIN Attr
    OBVIOUS
  <2>1. PICK a \in lines : /\ r.room = a.room /\ r.seq = read[a.room][a.i].seq
                           /\ r.ts = read[a.room][a.i].ts /\ r.sender = read[a.room][a.i].sender
                           /\ r.text = read[a.room][a.i].text
    BY <1>6
  <2> QED
    BY <1>5, <2>1 DEF IsRead, IsLog
<1>8. ASSUME NEW r \in rows, NEW q \in rows, r.room = q.room, r.seq = q.seq PROVE r = q
  <2>1. PICK a \in lines : r.room = a.room /\ r.seq = read[a.room][a.i].seq /\ r = RowAt(read, a)
    BY <1>6
  <2>2. PICK b \in lines : q.room = b.room /\ q.seq = read[b.room][b.i].seq /\ q = RowAt(read, b)
    BY <1>6
  <2> DEFINE file == read[a.room]
  <2>3. a.room = b.room /\ a.i \in DOMAIN file /\ b.i \in DOMAIN file /\ file[a.i].seq = file[b.i].seq
    BY <1>5, <1>8, <2>1, <2>2
  <2>4. IsLog(file) /\ DOMAIN file = 1..Len(file) /\ Len(file) \in Nat
    BY <1>5, SeqsFacts DEF IsRead
  <2> HIDE DEF file
  <2>5. \A i, j \in DOMAIN file : i < j => file[i].seq < file[j].seq
    BY <2>4 DEF IsLog, Ascends
  <2>6. file[a.i].seq \in Nat /\ a.i \in Int /\ b.i \in Int
    BY <2>3, <2>4 DEF IsLog
  <2>7. a.i = b.i
    BY <2>3, <2>5, <2>6
  <2>8. a = b
    BY <1>5, <2>3, <2>7
  <2> QED
    BY <2>1, <2>2, <2>8
<1>9. LoadPosts(read, scope) = {r \in rows : r.signed}
  BY DEF LoadPosts, LoadRows, RowAt
<1> HIDE DEF rows, lines, good
<1>10. Cardinality(rows) <= Cardinality(lines)
  BY <1>2, <1>4
<1> QED
  BY <1>2, <1>4, <1>7, <1>8, <1>9, <1>10 DEF AreRows, rows, lines

(* A share is a fraction of the unit. *)
LEMMA RoundedFacts ==
    ASSUME NEW den \in Nat, den # 0, NEW num \in 0..den, Unit \in Nat
    PROVE  Rounded(num, den) \in 0..Unit
<1> DEFINE a == Unit * num
           b == Unit * den
<1>1. a \in Nat /\ b \in Nat /\ a <= b
  OBVIOUS
<1>2. Rounded(num, den) = (2 * a + den) \div (2 * den)
  BY DEF Rounded
<1> DEFINE q == (2 * a + den) \div (2 * den)
<1>3. q \in Nat /\ (2 * den) * q <= 2 * a + den
  <2> HIDE DEF a
  <2> QED
    BY <1>1
<1>4. q <= Unit
  <2> SUFFICES ASSUME q >= Unit + 1 PROVE FALSE
    BY <1>3
  <2>1. (2 * den) * (Unit + 1) <= (2 * den) * q
    <3> HIDE DEF q
    <3> QED
      BY <1>3
  <2>2. (2 * den) * (Unit + 1) = 2 * b + 2 * den
    OBVIOUS
  <2> HIDE DEF a, b, q
  <2>3. (2 * den) * q \in Int
    BY <1>3
  <2> QED
    BY <1>1, <1>3, <2>1, <2>2
<1> QED
  BY <1>2, <1>3, <1>4

-----------------------------------------------------------------------------
(* The liveness map: signals, rooms, the map itself, and its two files. *)

(* What a liveness build needs of a ledger. *)
GoodLedger(ledger) ==
    /\ ledger.dids \in Nat
    /\ \A d \in DOMAIN ledger.rows :
          ledger.rows[d].facts.firstSeen.ts \in Int /\ ledger.rows[d].facts.lastSeen \in Int

(* Senders and texts of some rows are finitely many, and no more than the
   rows. *)
LEMMA SendersFacts ==
    ASSUME NEW rows, IsFiniteSet(rows)
    PROVE  /\ IsFiniteSet(SendersOf(rows)) /\ Cardinality(SendersOf(rows)) <= Cardinality(rows)
           /\ Cardinality(SendersOf(rows)) \in Nat
           /\ IsFiniteSet(TextsOf(rows)) /\ Cardinality(TextsOf(rows)) <= Cardinality(rows)
           /\ Cardinality(TextsOf(rows)) \in Nat
           /\ Cardinality(rows) \in Nat
<1> DEFINE f == [r \in rows |-> r.sender]
           g == [r \in rows |-> Attr[r.text].norm]
<1>1. SendersOf(rows) = {f[r] : r \in rows} /\ TextsOf(rows) = {g[r] : r \in rows}
  BY DEF SendersOf, TextsOf
<1> HIDE DEF f, g
<1> QED
  BY <1>1, ImageFacts

(* The signals of the agents that posted and are in the ledger; the others
   are only counted. *)
LEMMA SignalsFacts ==
    ASSUME NEW rows, AreRows(rows), NEW ledger, GoodLedger(ledger), NEW classes, NEW now \in Nat
    PROVE  LET sig == AgentSignals(rows, ledger, classes, now)
               posters == SendersOf({r \in rows : r.signed})
           IN  /\ DOMAIN sig.of = posters \cap DOMAIN ledger.rows
               /\ sig.notInLedger = Cardinality(posters \ DOMAIN ledger.rows)
               /\ \A d \in DOMAIN sig.of : ValidSignals(sig.of[d]) /\ sig.of[d].lastSeen \in Int
<1> DEFINE sig == AgentSignals(rows, ledger, classes, now)
           posters == SendersOf({r \in rows : r.signed})
<1>1. /\ DOMAIN sig.of = posters \cap DOMAIN ledger.rows
      /\ sig.notInLedger = Cardinality(posters \ DOMAIN ledger.rows)
  BY DEF AgentSignals
<1>2. ASSUME NEW d \in DOMAIN sig.of PROVE ValidSignals(sig.of[d]) /\ sig.of[d].lastSeen \in Int
  <2> DEFINE own == {r \in rows : r.signed /\ r.sender = d}
             inRooms == {r.room : r \in own}
             toIt == {r \in rows : d \in ReplyTargets(r.sender, r.text, SendersOf(rows))}
             live == {room \in inRooms : room \in DOMAIN classes /\ classes[room] \in {"live", "mixed"}}
             nonBurst == {s \in SendersOf(toIt) \cap DOMAIN ledger.rows : ~ledger.rows[s].score.burst}
             inRoom == [room \in inRooms |-> Cardinality(own \cap {r \in rows : r.room = room})]
             first == ledger.rows[d].facts.firstSeen.ts
  <2>1. /\ sig.of[d].posts = Cardinality(own)
        /\ sig.of[d].rooms = inRoom
        /\ sig.of[d].liveRooms = Cardinality(live)
        /\ sig.of[d].replyIn = Cardinality(toIt)
        /\ sig.of[d].replyFrom = Cardinality(SendersOf(toIt))
        /\ sig.of[d].replyFromNonBurst = Cardinality(nonBurst)
        /\ sig.of[d].ratio = Rounded(Cardinality(TextsOf(own)), Cardinality(own))
        /\ sig.of[d].age = Max({0, now - first})
        /\ sig.of[d].lastSeen = ledger.rows[d].facts.lastSeen
    BY <1>1 DEF AgentSignals
  <2>2. IsFiniteSet(own) /\ IsFiniteSet(toIt) /\ Cardinality(own) \in Nat
    BY PartFacts DEF AreRows
  <2>3. own # {}
    BY <1>1 DEF SendersOf
  <2>4. Cardinality(own) # 0
    BY <2>2, <2>3, FS_EmptySet
  <2>5. d \in DOMAIN ledger.rows
    BY <1>1
  <2>6. IsFiniteSet(inRooms)
    <3> DEFINE f == [r \in own |-> r.room]
    <3>1. inRooms = {f[r] : r \in own}
      OBVIOUS
    <3> HIDE DEF f, own, inRooms
    <3> QED
      BY <2>2, <3>1, ImageFacts
  <2>7. SumFunction(inRoom) = Cardinality(own)
    <3> DEFINE key == [r \in own |-> r.room]
    <3>1. \A r \in own : key[r] \in inRooms
      OBVIOUS
    <3>2. \A room : {r \in own : key[r] = room} = own \cap {r \in rows : r.room = room}
      OBVIOUS
    <3>3. inRoom = [room \in inRooms |-> Cardinality({r \in own : key[r] = room})]
      BY <3>2
    <3> HIDE DEF own, inRooms, key, inRoom
    <3> QED
      BY <2>2, <2>6, <3>1, <3>3, CountByKey
  <2>8. Cardinality(nonBurst) <= Cardinality(SendersOf(toIt)) /\ Cardinality(SendersOf(toIt)) <= Cardinality(toIt)
    <3>1. IsFiniteSet(SendersOf(toIt)) /\ Cardinality(SendersOf(toIt)) <= Cardinality(toIt)
      BY <2>2, SendersFacts
    <3>2. nonBurst \subseteq SendersOf(toIt)
      OBVIOUS
    <3> HIDE DEF nonBurst, toIt
    <3> QED
      BY <3>1, <3>2, PartFacts
  <2>9. Cardinality(live) <= Cardinality(inRooms) /\ DOMAIN inRoom = inRooms
    <3>1. live \subseteq inRooms
      OBVIOUS
    <3>2. DOMAIN inRoom = inRooms
      OBVIOUS
    <3> HIDE DEF live, inRooms, inRoom
    <3> QED
      BY <2>6, <3>1, <3>2, PartFacts
  <2>10. Rounded(Cardinality(TextsOf(own)), Cardinality(own)) \in 0..Unit
    <3>1. Cardinality(TextsOf(own)) \in 0..Cardinality(own)
      BY <2>2, SendersFacts
    <3>2. Unit \in Nat
      BY SizesAssumption
    <3> HIDE DEF own
    <3> QED
      BY <2>2, <2>4, <3>1, <3>2, RoundedFacts
  <2>11. Max({0, now - first}) >= 0
    <3>1. now - first \in Int
      BY <2>5 DEF GoodLedger
    <3> DEFINE x == now - first
    <3>0. x \in Int
      BY <3>1
    <3> HIDE DEF x
    <3>2. IsFiniteSet({0, x}) /\ {0, x} \subseteq Int /\ {0, x} # {}
      <4>1. IsFiniteSet({0} \cup {x})
        BY FS_Singleton, FS_Union
      <4>2. {0, x} = {0} \cup {x}
        OBVIOUS
      <4> QED
        BY <3>0, <4>1, <4>2
    <3>3. Max({0, x}) \in Int /\ 0 <= Max({0, x})
      BY <3>0, <3>2, MaxIsLargest
    <3> QED
      BY <3>3 DEF x
  <2>12. sig.of[d].lastSeen \in Int
    BY <2>1, <2>5 DEF GoodLedger
  <2> HIDE DEF own, inRooms, toIt, live, nonBurst, inRoom, first, sig
  <2>13. sig.of[d].posts >= 1
    BY <2>1, <2>2, <2>4
  <2> QED
    BY <2>1, <2>7, <2>8, <2>9, <2>10, <2>11, <2>12, <2>13 DEF ValidSignals
<1> QED
  BY <1>1, <1>2

MapFields == {"generatedAt", "span", "logRows", "signedRows", "ledgerAt", "ledgerDids",
              "notInLedger", "rooms", "agents", "outside", "candidates", "served"}

(* A map as build_liveness leaves it, of the rows that were read. *)
GoodRooms(m) ==
    \A r \in DOMAIN m.rooms :
       LET v == m.rooms[r].verdict
       IN  /\ ValidFacts(m.rooms[r].window) /\ ValidFacts(m.rooms[r].allTime) /\ ValidVerdict(v)
           /\ ~v.fallback => v.class = ClassFromTable(v.decidedOn, v.signals)

GoodAgents(m) ==
    /\ IsLastSeen(LastSeenIn(m))
    /\ m.agents = [d \in DOMAIN m.agents |-> m.agents[d]]
    /\ \A d \in DOMAIN m.agents :
          /\ ValidSignals(m.agents[d].signals)
          /\ m.agents[d].verdict = ClassifyAgent(m.agents[d].signals)

GoodMap(m, read) ==
    /\ DOMAIN m = MapFields /\ m.served = NoServed
    /\ GoodRooms(m) /\ GoodAgents(m)
    /\ {m.outside, m.notInLedger, m.ledgerDids, m.signedRows, m.logRows} \subseteq Nat
    /\ m.signedRows <= m.logRows
    /\ Cardinality(SignedPosters(read)) = Cardinality(DOMAIN m.agents) + m.outside + m.notInLedger

(* classify_room answers by the table it applied: the verdict passes the
   check of its own class. *)
LEMMA RoomVerdict ==
    ASSUME NEW window, NEW allTime
    PROVE  LET v == ClassifyRoom(window, allTime)
           IN  ValidVerdict(v) /\ (~v.fallback => v.class = ClassFromTable(v.decidedOn, v.signals))
<1> DEFINE v == ClassifyRoom(window, allTime)
<1>1. \A f, s : ClassFromTable(f, s) \in RoomClassNames
  BY DEF ClassFromTable, RoomClassNames
<1>2. \A s : ClassFromTable(DecidedOn(window), s) = ClassFromTable(window, s)
  <2>1. DecidedOn(window).rows = window.rows /\ DecidedOn(window).senders = window.senders
    BY DEF DecidedOn
  <2> QED
    BY <2>1 DEF ClassFromTable
<1>3. /\ v.decidedOn = DecidedOn(window) /\ v.signals = Signals(window)
      /\ v.classAll = ClassFromTable(allTime, Signals(allTime))
      /\ v.class = IF v.fallback THEN "quiet" ELSE ClassFromTable(window, Signals(window))
  BY DEF ClassifyRoom
<1>4. "quiet" \in RoomClassNames
  BY DEF RoomClassNames
<1> QED
  BY <1>1, <1>2, <1>3, <1>4 DEF ValidVerdict

(* The options of a command are those of every command, but for the time. *)
LEMMA OptsFacts ==
    ASSUME opts \in OptionSets, NEW now
    PROVE  /\ OptsAt(now).now = now /\ OptsAt(now).rooms = opts.rooms
BY SizesAssumption DEF OptsAt

(* A map that a build returns is sound: its rooms and agents pass the checks
   of the loaders, and its counts are those of the rows read. *)
LEMMA MapFacts ==
    ASSUME opts \in OptionSets, NEW read, IsRead(read), NEW ledger, GoodLedger(ledger),
           NEW now \in Nat, NEW of,
           BuildLiveness(read, of, ledger, Directory, OptsAt(now)) # NoFile
    PROVE  GoodMap(BuildLiveness(read, of, ledger, Directory, OptsAt(now)), read)
<1> DEFINE o == OptsAt(now)
           rooms == RoomEntries(read, of, ledger, o)
           classes == [room \in DOMAIN rooms |-> rooms[room].verdict.class]
           rows == LoadRows(read, o.rooms)
           sig == AgentSignals(rows, ledger, classes, now)
           m == MapOf(read, ledger, Directory, o, rooms, sig)
           posters == SendersOf({r \in rows : r.signed})
           known == DOMAIN sig.of
           listed == {d \in known : sig.of[d].lastSeen >= o.now - o.span}
<1>1. o.now = now /\ o.rooms = opts.rooms
  BY OptsFacts
<1>2. /\ BuildLiveness(read, of, ledger, Directory, o) = m
      /\ \A r \in DOMAIN rooms : ValidFacts(rooms[r].window) /\ ValidFacts(rooms[r].allTime)
  BY <1>1 DEF BuildLiveness, MapOfRooms
<1>3. /\ AreRows(rows) /\ Cardinality(rows) <= Cardinality(LinesOf(read, o.rooms))
      /\ Cardinality(LinesOf(read, o.rooms)) \in Nat
  BY RowsFacts
<1>4. /\ known = posters \cap DOMAIN ledger.rows
      /\ sig.notInLedger = Cardinality(posters \ DOMAIN ledger.rows)
      /\ \A d \in known : ValidSignals(sig.of[d]) /\ sig.of[d].lastSeen \in Int
  <2> HIDE DEF rows, classes
  <2> QED
    BY <1>3, SignalsFacts
<1>5. IsFiniteSet(posters) /\ posters \subseteq Nat
  <2>1. IsFiniteSet({r \in rows : r.signed})
    BY <1>3, PartFacts DEF AreRows
  <2>2. \A r \in rows : r.sender \in Nat
    BY <1>3 DEF AreRows
  <2> HIDE DEF rows
  <2> QED
    BY <2>1, <2>2, SendersFacts DEF SendersOf
<1>6. /\ Cardinality({r \in rows : r.signed}) \in Nat
      /\ Cardinality({r \in rows : r.signed}) <= Cardinality(LinesOf(read, o.rooms))
  <2> DEFINE signed == {r \in rows : r.signed}
  <2>1. /\ Cardinality(signed) <= Cardinality(rows)
        /\ Cardinality(signed) \in Nat /\ Cardinality(rows) \in Nat
    BY <1>3, PartFacts DEF AreRows
  <2> HIDE DEF rows, signed
  <2>2. Cardinality(signed) <= Cardinality(LinesOf(read, o.rooms))
    BY <1>3, <2>1
  <2> QED
    BY <2>1, <2>2 DEF signed
<1> DEFINE agents == [d \in listed |-> [signals |-> sig.of[d], verdict |-> ClassifyAgent(sig.of[d])]]
<1>7. /\ DOMAIN m = MapFields /\ m.served = NoServed /\ m.rooms = rooms
      /\ m.agents = agents
      /\ m.outside = Cardinality(known \ listed) /\ m.notInLedger = sig.notInLedger
      /\ m.ledgerDids = ledger.dids
      /\ m.signedRows = Cardinality({r \in rows : r.signed})
      /\ m.logRows = Cardinality(LinesOf(read, o.rooms))
  <2> HIDE DEF rooms, rows, sig
  <2> QED
    BY DEF MapOf, MapFields, rows
<1> HIDE DEF m
<1>8. GoodRooms(m)
  <2> SUFFICES ASSUME NEW r \in DOMAIN rooms
               PROVE  LET v == rooms[r].verdict
                      IN  /\ ValidVerdict(v)
                          /\ ~v.fallback => v.class = ClassFromTable(v.decidedOn, v.signals)
    BY <1>2, <1>7 DEF GoodRooms
  <2>1. rooms[r].verdict = ClassifyRoom(rooms[r].window, rooms[r].allTime)
    BY DEF RoomEntries, RoomEntry
  <2> HIDE DEF rooms
  <2> QED
    BY <2>1, RoomVerdict
<1> HIDE DEF rooms, rows, sig
<1>9. GoodAgents(m)
  <2>0. /\ DOMAIN agents = listed
        /\ \A d \in listed : agents[d].signals = sig.of[d] /\ agents[d].verdict = ClassifyAgent(sig.of[d])
    <3> HIDE DEF listed
    <3> QED
      OBVIOUS
  <2>1. DOMAIN m.agents = listed
    BY <1>7, <2>0
  <2>2. \A d \in listed : m.agents[d].signals = sig.of[d] /\ m.agents[d].verdict = ClassifyAgent(sig.of[d])
    BY <1>7, <2>0
  <2>3. DOMAIN LastSeenIn(m) = listed /\ \A d \in listed : LastSeenIn(m)[d] = sig.of[d].lastSeen
    BY <2>1, <2>2 DEF LastSeenIn
  <2>4. IsFiniteSet(listed) /\ listed \subseteq known /\ listed \subseteq Nat
    BY <1>4, <1>5, PartFacts
  <2> HIDE DEF listed, known, agents
  <2>5. IsLastSeen(LastSeenIn(m))
    <3>0. \A d \in known : sig.of[d].lastSeen \in Int
      BY ONLY <1>4
    <3>1. \A d \in listed : d \in Int /\ sig.of[d].lastSeen \in Int
      <4>1. \A d \in listed : d \in known /\ d \in Nat
        BY ONLY <2>4
      <4>2. \A d \in listed : d \in Int
        BY ONLY <4>1
      <4> QED
        BY ONLY <4>1, <4>2, <3>0
    <3> QED
      BY ONLY <2>3, <2>4, <3>1 DEF IsLastSeen
  <2>6. m.agents = [d \in DOMAIN m.agents |-> m.agents[d]]
    BY <1>7 DEF agents
  <2> QED
    BY <1>4, <2>1, <2>2, <2>4, <2>5, <2>6 DEF GoodAgents
<1>10. /\ Cardinality(posters) = Cardinality(DOMAIN m.agents) + m.outside + m.notInLedger
       /\ m.outside \in Nat /\ m.notInLedger \in Nat
  <2> DEFINE out == known \ listed
             strange == posters \ DOMAIN ledger.rows
  <2>1. /\ IsFiniteSet(listed) /\ IsFiniteSet(out) /\ IsFiniteSet(strange)
        /\ Cardinality(listed) \in Nat /\ Cardinality(out) \in Nat /\ Cardinality(strange) \in Nat
    BY <1>4, <1>5, PartFacts
  <2>2. listed \cap out = {} /\ (listed \cup out) \cap strange = {} /\ (listed \cup out) \cup strange = posters
    BY <1>4
  <2>3. DOMAIN m.agents = listed /\ m.outside = Cardinality(out) /\ m.notInLedger = Cardinality(strange)
    BY <1>4, <1>7
  <2> HIDE DEF listed, out, strange, posters, known
  <2>4. IsFiniteSet(listed \cup out) /\ Cardinality(listed \cup out) = Cardinality(listed) + Cardinality(out)
    BY <2>1, <2>2, FS_Union, FS_EmptySet
  <2>5. Cardinality((listed \cup out) \cup strange) = Cardinality(listed \cup out) + Cardinality(strange)
    <3> DEFINE both == listed \cup out
    <3>1. IsFiniteSet(both) /\ both \cap strange = {}
      BY <2>2, <2>4
    <3>2. Cardinality(both) \in Nat
      BY <3>1, FS_CardinalityType
    <3> HIDE DEF both
    <3>3. Cardinality(both \cup strange) = Cardinality(both) + Cardinality(strange) - Cardinality(both \cap strange)
      BY <2>1, <3>1, FS_Union
    <3>4. Cardinality(both \cup strange) = Cardinality(both) + Cardinality(strange)
      BY <2>1, <3>1, <3>2, <3>3, FS_EmptySet
    <3> QED
      BY <3>4 DEF both
  <2> QED
    BY <2>1, <2>2, <2>3, <2>4, <2>5
<1>11. SignedPosters(read) = posters
  BY <1>1 DEF SignedPosters, rows
<1> HIDE DEF posters, listed, known, agents
<1>12. GoodMap(m, read)
  BY <1>3, <1>6, <1>7, <1>8, <1>9, <1>10, <1>11 DEF GoodMap, GoodLedger
<1> QED
  BY <1>2, <1>12

(* The tier of an agent is the one its compact entry gives back. *)
LEMMA TierFacts ==
    ASSUME NEW s
    PROVE  LET v == ClassifyAgent(s)
           IN  /\ ValidAgentVerdict(v)
               /\ v.tier = IF s.burst THEN "farm" ELSE TierFromPoints(CompactAgent(s, v))
<1> DEFINE v == ClassifyAgent(s)
           c == CompactAgent(s, v)
<1>1. /\ v.tier = (IF s.burst THEN "farm" ELSE TierFromPoints(s))
      /\ v.points = PointsFor(Used(s)) /\ v.used = Used(s)
  BY DEF ClassifyAgent, PointsOf
<1>2. /\ c.cycles = s.cycles /\ c.replyFromNonBurst = s.replyFromNonBurst
      /\ c.replyOut = s.replyOut /\ c.githubRows = s.githubRows /\ c.liveRooms = s.liveRooms
      /\ c.note = s.note /\ c.ratio = s.ratio /\ c.posts = s.posts /\ c.age = s.age
      /\ c.faucetRows = s.faucetRows /\ c.templateRows = s.templateRows
  BY DEF CompactAgent
<1> HIDE DEF c, v
<1>3. ASSUME NEW marker PROVE Fires(marker, c) <=> Fires(marker, s)
  BY <1>2 DEF Fires
<1>4. Used(c) = Used(s)
  BY <1>3 DEF Used
<1>5. TierFromPoints(c) = TierFromPoints(s)
  BY <1>2, <1>4 DEF TierFromPoints, PointsOf
<1>6. TierFromPoints(s) \in TierNames /\ "farm" \in TierNames
  BY DEF TierFromPoints, TierNames
<1>7. ValidAgentVerdict(v)
  BY <1>1, <1>6 DEF ValidAgentVerdict
<1> QED
  BY <1>1, <1>5, <1>7 DEF c, v

(* The fitting of a map returns nothing, or a cut that fits and separates no
   equal times. *)
LEMMA RunFacts ==
    ASSUME NEW m, GoodAgents(m), NEW fitting, fitting \subseteq 1..Cardinality(DOMAIN m.agents)
    PROVE  LET k == FitLiveness(m, fitting)
           IN  \/ k = 0
               \/ k \in fitting /\ Clean(k, Ranked(LastSeenIn(m)), LastSeenIn(m))
<1> DEFINE lastSeen == LastSeenIn(m)
           ranked == Ranked(lastSeen)
           top == LargestFit(Len(ranked), fitting)
           runs == {k \in fitting \cap 1..top : Boundary(k, ranked, lastSeen) = k}
<1>1. IsLastSeen(lastSeen) /\ DOMAIN lastSeen = DOMAIN m.agents
  BY DEF GoodAgents, LastSeenIn
<1>2. FitLiveness(m, fitting) = Max({0} \cup runs)
  BY DEF FitLiveness
<1>3. Cardinality(DOMAIN m.agents) \in Nat
  BY <1>1, FS_CardinalityType DEF IsLastSeen
<1>4. runs \subseteq fitting /\ runs \subseteq Nat /\ IsFiniteSet(runs)
  <2>1. IsFiniteSet(1..Cardinality(DOMAIN m.agents))
    BY <1>3, FS_Interval
  <2>2. runs \subseteq 1..Cardinality(DOMAIN m.agents)
    OBVIOUS
  <2> HIDE DEF runs
  <2>3. IsFiniteSet(runs)
    BY <2>1, <2>2, FS_Subset
  <2> QED
    BY <2>2, <2>3 DEF runs
<1>5. \A k \in runs : k \in fitting /\ Clean(k, ranked, lastSeen)
  <2>1. ASSUME NEW k \in Nat, Boundary(k, ranked, lastSeen) = k PROVE Clean(k, ranked, lastSeen)
    BY <2>1, BoundaryFacts
  <2> HIDE DEF ranked, lastSeen, top
  <2> QED
    BY <1>4, <2>1
<1> HIDE DEF runs, ranked, lastSeen
<1>6. Max({0} \cup runs) \in {0} \cup runs
  <2> DEFINE S == {0} \cup runs
  <2>1. IsFiniteSet(S) /\ S # {} /\ S \subseteq Int
    <3>1. IsFiniteSet({0})
      BY FS_Singleton
    <3>2. IsFiniteSet({0} \cup runs)
      BY ONLY <1>4, <3>1, FS_Union
    <3> QED
      BY <1>4, <3>2
  <2> HIDE DEF S
  <2>2. Max(S) \in S
    BY <2>1, MaxIsLargest
  <2> QED
    BY <2>2 DEF S
<1> QED
  BY <1>2, <1>5, <1>6 DEF ranked, lastSeen

(* A file of as many entries that says less of what was cut is not larger. *)
LEMMA SizeFacts ==
    ASSUME NEW a, NEW b, NEW bytes \in Nat,
           IsFiniteSet(DOMAIN a.agents), IsFiniteSet(DOMAIN a.counts.byTier), a.served = NoServed,
           DOMAIN b.agents = DOMAIN a.agents, b.counts = a.counts
    PROVE  \A limit \in Nat : MapSize(b, bytes) <= limit => MapSize(a, bytes) <= limit
<1> DEFINE x == MapBytes + bytes * Cardinality(DOMAIN a.agents)
                  + TierBytes * Cardinality(DOMAIN a.counts.byTier)
           y == IF b.served = NoServed THEN 0 ELSE ServedBytes
<1>1. MapSize(a, bytes) = x + 0 /\ MapSize(b, bytes) = x + y
  BY DEF MapSize
<1>2. Cardinality(DOMAIN a.agents) \in Nat /\ Cardinality(DOMAIN a.counts.byTier) \in Nat
  BY FS_CardinalityType
<1>3. x \in Int /\ y \in Nat
  <2>1. MapBytes \in Nat /\ TierBytes \in Nat /\ ServedBytes \in Nat
    BY SizesAssumption
  <2> DEFINE p == Cardinality(DOMAIN a.agents)
             q == Cardinality(DOMAIN a.counts.byTier)
  <2>2. p \in Nat /\ q \in Nat
    BY <1>2
  <2> HIDE DEF p, q
  <2>3. bytes * p \in Int /\ TierBytes * q \in Int
    BY <2>1, <2>2
  <2>4. MapBytes + bytes * p + TierBytes * q \in Int
    BY <2>1, <2>3
  <2> QED
    BY <2>1, <2>4 DEF p, q
<1> HIDE DEF x, y
<1> QED
  BY <1>1, <1>3

(* What is kept of a map. *)
LEMMA KeepFacts ==
    ASSUME NEW m, DOMAIN m = MapFields, NEW k
    PROVE  /\ DOMAIN Keep(m, k) = MapFields
           /\ Keep(m, k).agents = [d \in Newest(k, Ranked(LastSeenIn(m))) |-> m.agents[d]]
           /\ Keep(m, k).served = Served(k, Ranked(LastSeenIn(m)), LastSeenIn(m))
           /\ \A f \in MapFields \ {"agents", "served"} : Keep(m, k)[f] = m[f]
           /\ Keep(m, k).rooms = m.rooms
BY DEF Keep, MapFields

(* The full form of a map, whole or cut. *)
LEMMA FullForm ==
    ASSUME NEW m, DOMAIN m = MapFields, NEW a, a = FullObj(m)
    PROVE  /\ a.rooms = m.rooms /\ a.agents = m.agents /\ a.served = m.served
           /\ a.outside = m.outside /\ a.signedRows = m.signedRows /\ a.logRows = m.logRows
           /\ a.ledgerDids = m.ledgerDids /\ a.notInLedger = m.notInLedger
           /\ a.counts = CountsObj(m.rooms, Tiers(m.agents))
           /\ a # NoFile
<1>1. DOMAIN NoFile = {"none"} /\ "rooms" # "none"
  BY DEF NoFile
<1>2. DOMAIN a = MapFields \cup {"counts"} /\ "rooms" \in DOMAIN a
  BY DEF FullObj, MapFields
<1> QED
  BY <1>1, <1>2 DEF FullObj, MapFields

(* The compact form of a map, whole or cut. *)
LEMMA CompactMapForm ==
    ASSUME NEW m, NEW a, a = CompactMap(m)
    PROVE  /\ a.rooms = m.rooms /\ a.served = m.served /\ a.outside = m.outside
           /\ a.agents = [d \in DOMAIN m.agents |->
                            CompactAgent(m.agents[d].signals, m.agents[d].verdict)]
           /\ a.counts = CountsObj(m.rooms, CompactTiers(a.agents))
           /\ a # NoFile
<1>1. DOMAIN NoFile = {"none"} /\ "rooms" # "none"
  BY DEF NoFile
<1>2. "rooms" \in DOMAIN a
  BY DEF CompactMap
<1> QED
  BY <1>1, <1>2 DEF CompactMap

(* The tiers counted are finitely many. *)
LEMMA TiersCounted ==
    ASSUME NEW rooms, NEW tierOf, IsFiniteSet(DOMAIN tierOf)
    PROVE  IsFiniteSet(DOMAIN CountsObj(rooms, tierOf).byTier)
<1>1. DOMAIN CountsObj(rooms, tierOf).byTier = Range(tierOf)
  BY DEF CountsObj
<1>2. Range(tierOf) = {tierOf[d] : d \in DOMAIN tierOf}
  BY DEF Range
<1> QED
  BY <1>1, <1>2, ImageFacts

(* An artifact made of m or of the newest k agents of m. *)
Cut(m, k) == IF k = 0 THEN m ELSE Keep(m, k)

(* k says how much of m was kept, 0 that all of it was. *)
CutWell(m, k) ==
    LET lastSeen == LastSeenIn(m)
    IN  k = 0 \/ (k \in 1..(Cardinality(DOMAIN m.agents) - 1) /\ Clean(k, Ranked(lastSeen), lastSeen))

(* What a cut of a map keeps, and how its counts come down to the agents
   kept. *)
LEMMA CutFacts ==
    ASSUME NEW m, NEW read, GoodMap(m, read), NEW k, CutWell(m, k)
    PROVE  LET c == Cut(m, k)
           IN  /\ DOMAIN c = MapFields /\ \A f \in MapFields \ {"agents", "served"} : c[f] = m[f]
               /\ ServesExactly(DOMAIN c.agents, c.served, LastSeenIn(m))
               /\ DOMAIN c.agents \subseteq DOMAIN m.agents
               /\ \A d \in DOMAIN c.agents : c.agents[d] = m.agents[d]
               /\ c.served # NoServed =>
                    /\ c.served.kept >= 1 /\ c.served.kept = Cardinality(DOMAIN c.agents)
                    /\ \A d \in DOMAIN c.agents : m.agents[d].signals.lastSeen >= c.served.cutoff
<1> DEFINE lastSeen == LastSeenIn(m)
           ranked == Ranked(lastSeen)
           n == Cardinality(DOMAIN m.agents)
           c == Cut(m, k)
<1>1. IsLastSeen(lastSeen) /\ DOMAIN lastSeen = DOMAIN m.agents /\ DOMAIN m = MapFields
      /\ m.served = NoServed /\ n \in Nat
      /\ \A d \in DOMAIN m.agents : lastSeen[d] = m.agents[d].signals.lastSeen
  BY FS_CardinalityType DEF GoodMap, GoodAgents, LastSeenIn, IsLastSeen
<1>2. CASE k = 0
  <2>1. c = m
    BY <1>2 DEF Cut
  <2> QED
    BY <1>1, <2>1 DEF ServesExactly
<1>3. CASE k # 0
  <2>1. c = Keep(m, k) /\ k \in 1..(n - 1) /\ Clean(k, ranked, lastSeen)
    BY <1>3 DEF Cut, CutWell
  <2>2. /\ DOMAIN c = MapFields
        /\ c.agents = [d \in Newest(k, ranked) |-> m.agents[d]]
        /\ c.served = Served(k, ranked, lastSeen)
        /\ \A f \in MapFields \ {"agents", "served"} : c[f] = m[f]
    BY <1>1, <2>1, KeepFacts
  <2> HIDE DEF c
  <2>3. k \in 1..n /\ k # n /\ k \in 0..n /\ k \in Nat
    BY <1>1, <2>1
  <2> HIDE DEF n
  <2>4. /\ Newest(k, ranked) \subseteq DOMAIN m.agents /\ Cardinality(Newest(k, ranked)) = k
        /\ Newest(k, ranked) = {d \in DOMAIN lastSeen : lastSeen[d] >= lastSeen[ranked[k]]}
    BY <1>1, <1>3, <2>1, <2>3, NewestFacts DEF n
  <2>5. ServesExactly(Newest(k, ranked), Served(k, ranked, lastSeen), lastSeen)
    BY <1>1, <2>1, <2>3, ServesFacts DEF n
  <2>6. Served(k, ranked, lastSeen).kept = k /\ Served(k, ranked, lastSeen).cutoff = lastSeen[ranked[k]]
    BY DEF Served
  <2> HIDE DEF ranked, lastSeen
  <2>7. DOMAIN c.agents = Newest(k, ranked)
    BY <2>2
  <2>8. k >= 1
    BY <2>3
  <2>9. \A d \in Newest(k, ranked) : m.agents[d].signals.lastSeen >= lastSeen[ranked[k]]
    BY <1>1, <2>4
  <2>10. \A d \in DOMAIN c.agents : c.agents[d] = m.agents[d]
    BY <2>2, <2>7
  <2> QED
    BY <2>2, <2>4, <2>5, <2>6, <2>7, <2>8, <2>9, <2>10 DEF lastSeen, c
<1> QED
  BY <1>2, <1>3

(* Fitting takes all of a map or a cut of it. *)
LEMMA FitFacts ==
    ASSUME NEW m, NEW read, GoodMap(m, read), NEW limit \in Nat
    PROVE  /\ FitFull(m, limit) # NoFile =>
                 \E k : /\ CutWell(m, k) /\ FitFull(m, limit) = FullObj(Cut(m, k))
                        /\ FullSize(FullObj(Cut(m, k))) <= limit
           /\ FitCompactMap(m, limit) # NoFile =>
                 \E k : /\ CutWell(m, k) /\ FitCompactMap(m, limit) = CompactMap(Cut(m, k))
                        /\ CompactMapSize(CompactMap(Cut(m, k))) <= limit
<1> DEFINE lastSeen == LastSeenIn(m)
           ranked == Ranked(lastSeen)
           n == Cardinality(DOMAIN m.agents)
           fullFits == {j \in 1..n : FullSize(FullObj(Keep(m, j))) <= limit}
           compactFits == {j \in 1..n : CompactMapSize(CompactMap(Keep(m, j))) <= limit}
<1>1. /\ DOMAIN m = MapFields /\ m.served = NoServed /\ GoodAgents(m)
      /\ m.agents = [d \in DOMAIN m.agents |-> m.agents[d]]
      /\ IsLastSeen(lastSeen) /\ DOMAIN lastSeen = DOMAIN m.agents /\ IsFiniteSet(DOMAIN m.agents)
      /\ n \in Nat
  BY FS_CardinalityType DEF GoodMap, GoodAgents, LastSeenIn, IsLastSeen
<1>2. Keep(m, n).agents = m.agents
  <2>1. Newest(n, ranked) = DOMAIN m.agents
    <3>1. n \in 0..n
      BY <1>1
    <3> QED
      BY <1>1, <3>1, NewestFacts
  <2> QED
    BY <1>1, <2>1, KeepFacts
<1>3. DOMAIN Keep(m, n) = MapFields /\ Keep(m, n).rooms = m.rooms
  <2> HIDE DEF n
  <2> QED
    BY <1>1, KeepFacts
<1> DEFINE kept == Keep(m, n)
<1>31. DOMAIN kept = MapFields /\ kept.rooms = m.rooms /\ kept.agents = m.agents
  BY <1>2, <1>3
<1> HIDE DEF kept
<1>4. FullSize(FullObj(kept)) <= limit => FullSize(FullObj(m)) <= limit
  <2> DEFINE a == FullObj(m)
             b == FullObj(kept)
  <2>1. /\ a.agents = m.agents /\ b.agents = m.agents /\ a.served = NoServed /\ b.counts = a.counts
        /\ a.counts = CountsObj(m.rooms, Tiers(m.agents))
    <3>1. /\ a.agents = m.agents /\ a.served = NoServed
          /\ a.counts = CountsObj(m.rooms, Tiers(m.agents))
      BY <1>1, FullForm
    <3>2. b.agents = kept.agents /\ b.counts = CountsObj(kept.rooms, Tiers(kept.agents))
      BY <1>31, FullForm
    <3> HIDE DEF a, b
    <3> QED
      BY <1>31, <3>1, <3>2
  <2>2. IsFiniteSet(DOMAIN a.counts.byTier)
    <3>1. DOMAIN Tiers(m.agents) = DOMAIN m.agents
      BY DEF Tiers
    <3> QED
      BY <1>1, <2>1, <3>1, TiersCounted
  <2> HIDE DEF a, b
  <2>3. AgentBytes \in Nat
    BY SizesAssumption
  <2> QED
    BY <1>1, <2>1, <2>2, <2>3, SizeFacts DEF FullSize, a, b
<1>5. CompactMapSize(CompactMap(kept)) <= limit => CompactMapSize(CompactMap(m)) <= limit
  <2> DEFINE a == CompactMap(m)
             b == CompactMap(kept)
  <2>1. /\ a.agents = b.agents /\ a.served = NoServed /\ b.counts = a.counts
        /\ DOMAIN a.agents = DOMAIN m.agents
        /\ a.counts = CountsObj(m.rooms, CompactTiers(a.agents))
    <3> DEFINE row(agents) == [d \in DOMAIN agents |-> CompactAgent(agents[d].signals, agents[d].verdict)]
    <3>1. /\ a.agents = row(m.agents) /\ a.served = NoServed
          /\ a.counts = CountsObj(m.rooms, CompactTiers(a.agents))
      BY <1>1, CompactMapForm
    <3>2. /\ b.agents = row(kept.agents)
          /\ b.counts = CountsObj(kept.rooms, CompactTiers(b.agents))
      BY <1>31, CompactMapForm
    <3>3. DOMAIN row(m.agents) = DOMAIN m.agents
      OBVIOUS
    <3> HIDE DEF a, b, row
    <3> QED
      BY <1>31, <3>1, <3>2, <3>3
  <2>2. IsFiniteSet(DOMAIN a.counts.byTier)
    <3>1. DOMAIN CompactTiers(a.agents) = DOMAIN m.agents
      BY <2>1 DEF CompactTiers
    <3> QED
      BY <1>1, <2>1, <3>1, TiersCounted
  <2> HIDE DEF a, b
  <2>3. CompactAgentBytes \in Nat
    BY SizesAssumption
  <2> QED
    BY <1>1, <2>1, <2>2, <2>3, SizeFacts DEF CompactMapSize, a, b
<1>6. ASSUME NEW fitting \in SUBSET (1..n), n \notin fitting
      PROVE  CutWell(m, FitLiveness(m, fitting)) /\ FitLiveness(m, fitting) \in Nat
  <2> DEFINE k == FitLiveness(m, fitting)
  <2>1. k = 0 \/ (k \in fitting /\ Clean(k, ranked, lastSeen))
    BY <1>1, RunFacts
  <2> HIDE DEF k, ranked, lastSeen, n
  <2>2. k = 0 \/ (k \in 1..(n - 1) /\ Clean(k, ranked, lastSeen))
    <3>1. n \in Nat /\ fitting \subseteq 1..n /\ n \notin fitting
      BY <1>1, <1>6
    <3>2. \A j \in fitting : j \in 1..(n - 1)
      BY ONLY <3>1
    <3> QED
      BY ONLY <2>1, <3>2
  <2>3. k \in Nat
    BY ONLY <1>1, <2>2
  <2>4. CutWell(m, k)
    BY ONLY <2>2 DEF CutWell, ranked, lastSeen, n
  <2> QED
    BY <2>3, <2>4 DEF k
<1>7. ASSUME FitFull(m, limit) # NoFile
      PROVE  \E k : /\ CutWell(m, k) /\ FitFull(m, limit) = FullObj(Cut(m, k))
                    /\ FullSize(FullObj(Cut(m, k))) <= limit
  <2>1. CASE FullSize(FullObj(m)) <= limit
    <3>1. CutWell(m, 0) /\ Cut(m, 0) = m
      BY DEF CutWell, Cut
    <3>2. FitFull(m, limit) = FullObj(m)
      BY <2>1 DEF FitFull
    <3> QED
      BY <2>1, <3>1, <3>2
  <2>2. CASE ~(FullSize(FullObj(m)) <= limit)
    <3> DEFINE k == FitLiveness(m, fullFits)
    <3>1. k # 0 /\ FitFull(m, limit) = FullObj(Keep(m, k))
      BY <1>7, <2>2 DEF FitFull
    <3>2. n \notin fullFits /\ fullFits \in SUBSET (1..n)
      BY <1>4, <2>2 DEF kept
    <3>3. k \in fullFits
      BY <1>1, <3>1, RunFacts
    <3>4. FullSize(FullObj(Keep(m, k))) <= limit
      BY <3>3
    <3> HIDE DEF fullFits
    <3>5. CutWell(m, k)
      BY <1>6, <3>2
    <3> QED
      BY <3>1, <3>4, <3>5 DEF Cut
  <2> QED
    BY <2>1, <2>2
<1>8. ASSUME FitCompactMap(m, limit) # NoFile
      PROVE  \E k : /\ CutWell(m, k) /\ FitCompactMap(m, limit) = CompactMap(Cut(m, k))
                    /\ CompactMapSize(CompactMap(Cut(m, k))) <= limit
  <2>1. CASE CompactMapSize(CompactMap(m)) <= limit
    <3>1. CutWell(m, 0) /\ Cut(m, 0) = m
      BY DEF CutWell, Cut
    <3>2. FitCompactMap(m, limit) = CompactMap(m)
      BY <2>1 DEF FitCompactMap
    <3> QED
      BY <2>1, <3>1, <3>2
  <2>2. CASE ~(CompactMapSize(CompactMap(m)) <= limit)
    <3> DEFINE k == FitLiveness(m, compactFits)
    <3>1. k # 0 /\ FitCompactMap(m, limit) = CompactMap(Keep(m, k))
      BY <1>8, <2>2 DEF FitCompactMap
    <3>2. n \notin compactFits /\ compactFits \in SUBSET (1..n)
      BY <1>5, <2>2 DEF kept
    <3>3. k \in compactFits
      BY <1>1, <3>1, RunFacts
    <3>4. CompactMapSize(CompactMap(Keep(m, k))) <= limit
      BY <3>3
    <3> HIDE DEF compactFits
    <3>5. CutWell(m, k)
      BY <1>6, <3>2
    <3> QED
      BY <3>1, <3>4, <3>5 DEF Cut
  <2> QED
    BY <2>1, <2>2
<1> QED
  BY <1>7, <1>8

(* One post comes first. *)
LEMMA FirstPostFacts ==
    ASSUME NEW posts, AreRows(posts), posts # {}
    PROVE  FirstPost(posts) \in posts
<1> DEFINE before == {p \in posts \X posts : Earlier(p[1], p[2])}
           n == Cardinality(posts)
           s == SortedBy(posts, before)
<1>1. ASSUME NEW p \in posts, NEW q \in posts PROVE <<p, q>> \in before <=> Earlier(p, q)
  OBVIOUS
<1>2. Orders(before, posts)
  <2>1. \A p \in posts : p.ts \in Int /\ p.room \in Int /\ p.seq \in Int
    BY DEF AreRows
  <2>2. \A p \in posts : ~Earlier(p, p)
    BY <2>1 DEF Earlier
  <2>3. \A p, q, r \in posts : Earlier(p, q) /\ Earlier(q, r) => Earlier(p, r)
    BY <2>1 DEF Earlier
  <2>4. \A p, q \in posts : p = q \/ Earlier(p, q) \/ Earlier(q, p)
    <3> SUFFICES ASSUME NEW p \in posts, NEW q \in posts, p # q, ~Earlier(p, q), ~Earlier(q, p)
                 PROVE  FALSE
      OBVIOUS
    <3>1. p.room = q.room /\ p.seq = q.seq
      BY <2>1 DEF Earlier
    <3> QED
      BY <3>1 DEF AreRows
  <2> HIDE DEF before
  <2> QED
    BY <1>1, <2>2, <2>3, <2>4 DEF Orders
<1>3. /\ n \in Nat /\ Range(s) = posts /\ DOMAIN s = 1..n
      /\ \A i, j \in 1..n : i < j <=> <<s[i], s[j]>> \in before
  <2>1. IsFiniteSet(posts)
    BY DEF AreRows
  <2> HIDE DEF before
  <2> QED
    BY <1>2, <2>1, Ordered
<1> HIDE DEF s, before, n
<1>4. n >= 1 /\ \A i \in 1..n : s[i] \in posts
  BY <1>3 DEF Range
<1>5. s[1] \in posts /\ \A q \in posts \ {s[1]} : Earlier(s[1], q)
  <2> SUFFICES ASSUME NEW q \in posts \ {s[1]} PROVE Earlier(s[1], q)
    BY <1>3, <1>4
  <2>1. PICK j \in 1..n : q = s[j]
    BY <1>3 DEF Range
  <2>2. 1 \in 1..n /\ 1 < j
    BY <1>3, <1>4, <2>1
  <2> QED
    BY <1>1, <1>3, <1>4, <2>1, <2>2
<1> QED
  BY <1>5 DEF FirstPost

(* The ledger of the rows that were read. *)
LEMMA BuiltFacts ==
    ASSUME NEW read, IsRead(read), NEW o
    PROVE  LET L == BuildLedger(read, o)
               D == SendersOf(LoadPosts(read, o.rooms))
           IN  /\ DOMAIN L.rows = D /\ L.dids = Cardinality(D) /\ L.dids \in Nat
               /\ IsFiniteSet(D) /\ D \subseteq Nat
               /\ \A d \in D : /\ L.rows[d].facts.did = d
                               /\ L.rows[d].facts.firstSeen.ts \in Nat
                               /\ L.rows[d].facts.lastSeen \in Nat
<1> DEFINE posts == LoadPosts(read, o.rooms)
           D == SendersOf(posts)
           L == BuildLedger(read, o)
           facts == BuildFacts(posts, LoadDidNotes(o.notes), o.window, o.minNew)
<1>1. AreRows(posts)
  <2> DEFINE rows == LoadRows(read, o.rooms)
  <2>1. AreRows(rows) /\ posts = {r \in rows : r.signed}
    BY RowsFacts
  <2> HIDE DEF rows, posts
  <2>2. IsFiniteSet(posts) /\ posts \subseteq rows
    BY <2>1, PartFacts DEF AreRows
  <2> QED
    BY <2>1, <2>2 DEF AreRows
<1> HIDE DEF posts
<1>2. IsFiniteSet(D) /\ D \subseteq Nat /\ Cardinality(D) \in Nat
  <2>1. IsFiniteSet(posts) /\ \A p \in posts : p.sender \in Nat
    BY <1>1 DEF AreRows
  <2> QED
    BY <2>1, SendersFacts DEF SendersOf
<1>3. DOMAIN facts = D
  BY DEF BuildFacts
<1>4. ASSUME NEW d \in D
      PROVE  /\ facts[d].did = d
             /\ facts[d].firstSeen.ts = FirstPost(PostsOf(posts, d)).ts
             /\ facts[d].lastSeen = LastSeen(PostsOf(posts, d))
  BY DEF BuildFacts
<1> HIDE DEF facts
<1>5. /\ DOMAIN L.rows = DOMAIN facts /\ L.dids = Cardinality(DOMAIN facts)
      /\ \A d \in DOMAIN facts : L.rows[d].facts = facts[d]
  BY DEF BuildLedger, facts, posts
<1> HIDE DEF L, D
<1>6. ASSUME NEW d \in D
      PROVE  FirstPost(PostsOf(posts, d)).ts \in Nat /\ LastSeen(PostsOf(posts, d)) \in Nat
  <2> DEFINE own == PostsOf(posts, d)
  <2>1. own \subseteq posts /\ own # {}
    BY DEF PostsOf, D, SendersOf
  <2> HIDE DEF own
  <2>2. AreRows(own)
    BY <1>1, <2>1, PartFacts DEF AreRows
  <2>3. FirstPost(own) \in own
    BY <2>1, <2>2, FirstPostFacts
  <2> DEFINE times == {p.ts : p \in own}
             f == [p \in own |-> p.ts]
  <2>4. times \subseteq Nat /\ times # {}
    BY <2>1, <2>2 DEF AreRows
  <2>5. IsFiniteSet(times)
    <3>1. times = {f[p] : p \in own} /\ IsFiniteSet(own)
      BY <2>2 DEF AreRows
    <3> HIDE DEF f, times
    <3> QED
      BY <3>1, ImageFacts
  <2>6. Max(times) \in Nat
    <3> HIDE DEF times
    <3> QED
      BY <2>4, <2>5, MaxIsNat
  <2> QED
    BY <2>2, <2>3, <2>6 DEF AreRows, LastSeen, own
<1> QED
  BY <1>2, <1>3, <1>4, <1>5, <1>6 DEF L, D, posts

(* What load_ledger makes of the file of such a ledger. *)
LEMMA LoadedFacts ==
    ASSUME NEW read, IsRead(read), NEW o
    PROVE  GoodLedger(LoadLedger(ToJsonl(BuildLedger(read, o))))
<1> DEFINE L == BuildLedger(read, o)
           D == DOMAIN L.rows
           before == {p \in D \X D : p[1] < p[2]}
           dids == SortedNumbers(D)
           file == ToJsonl(L)
<1>1. /\ L.dids \in Nat /\ IsFiniteSet(D) /\ D \subseteq Nat
      /\ \A d \in D : L.rows[d].facts.firstSeen.ts \in Int /\ L.rows[d].facts.lastSeen \in Int
  <2>1. \A x \in Nat : x \in Int
    OBVIOUS
  <2> QED
    BY <2>1, BuiltFacts
<1> HIDE DEF L
<1>2. Orders(before, D)
  <2>1. \A a, b \in D : <<a, b>> \in before <=> a < b
    OBVIOUS
  <2>2. \A a \in D : a \in Int
    BY <1>1
  <2> HIDE DEF before, D
  <2> QED
    BY <2>1, <2>2 DEF Orders
<1>3. Range(dids) = D /\ \A i \in DOMAIN dids : dids[i] \in D
  <2>1. dids = SortedBy(D, before)
    BY DEF SortedNumbers
  <2> HIDE DEF dids, before, D
  <2>2. Range(dids) = D
    BY <1>1, <1>2, <2>1, Ordered DEF D
  <2> QED
    BY <2>2 DEF Range
<1>4. /\ file.header.dids = L.dids /\ file.lines = [i \in DOMAIN dids |-> L.rows[dids[i]]]
  BY DEF ToJsonl, HeaderOf
<1> DEFINE loaded == LoadLedger(file)
<1>5. loaded.dids = L.dids /\ loaded.rows = RowsOfFile(file)
  BY <1>4 DEF LoadLedger
<1> HIDE DEF file, dids, D
<1>6. \A row \in Range(file.lines) : \E d \in D : row = L.rows[d]
  BY <1>3, <1>4 DEF Range
<1>7. \A d \in DOMAIN RowsOfFile(file) : RowsOfFile(file)[d] \in Range(file.lines)
  BY DEF RowsOfFile
<1> QED
  BY <1>1, <1>5, <1>6, <1>7 DEF GoodLedger, D, file, L

(* A map on disk is one that was built, fitted to its limit. *)
MapOk ==
    disk.map # NoFile =>
      /\ GoodMap(basis.map.of, basis.map.log)
      /\ disk.map = FitFull(basis.map.of, opts.maxMap)
CompactMapOk ==
    disk.compactMap # NoFile =>
      /\ GoodMap(basis.compactMap.of, basis.compactMap.log)
      /\ disk.compactMap = FitCompactMap(basis.compactMap.of, opts.maxCompactMap)

(* The full map, when one is written, passes its loader and says of every
   room and agent it keeps what was built. *)
LEMMA FullFaithful ==
    ASSUME NEW m, NEW read, GoodMap(m, read), NEW limit \in Nat, NEW a,
           a = FitFull(m, limit), a # NoFile
    PROVE  /\ FullLoads(a, limit)
           /\ ServesExactly(DOMAIN Tiers(a.agents), a.served, LastSeenIn(m))
           /\ a.rooms = m.rooms /\ DOMAIN Tiers(a.agents) = DOMAIN a.agents
           /\ \A d \in DOMAIN a.agents : /\ d \in DOMAIN m.agents /\ a.agents[d] = m.agents[d]
                                         /\ Tiers(a.agents)[d] = m.agents[d].verdict.tier
<1>1. PICK k : CutWell(m, k) /\ a = FullObj(Cut(m, k)) /\ FullSize(FullObj(Cut(m, k))) <= limit
  BY FitFacts
<1> DEFINE c == Cut(m, k)
<1>2. /\ DOMAIN c = MapFields /\ \A f \in MapFields \ {"agents", "served"} : c[f] = m[f]
      /\ ServesExactly(DOMAIN c.agents, c.served, LastSeenIn(m))
      /\ DOMAIN c.agents \subseteq DOMAIN m.agents
      /\ \A d \in DOMAIN c.agents : c.agents[d] = m.agents[d]
      /\ c.served # NoServed =>
           /\ c.served.kept >= 1 /\ c.served.kept = Cardinality(DOMAIN c.agents)
           /\ \A d \in DOMAIN c.agents : m.agents[d].signals.lastSeen >= c.served.cutoff
  BY <1>1, CutFacts
<1> HIDE DEF c
<1>3. a = FullObj(c) /\ FullSize(a) <= limit
  BY <1>1 DEF c
<1>4. /\ a.rooms = c.rooms /\ a.agents = c.agents /\ a.served = c.served
      /\ a.outside = c.outside /\ a.signedRows = c.signedRows /\ a.logRows = c.logRows
      /\ a.ledgerDids = c.ledgerDids /\ a.notInLedger = c.notInLedger
      /\ a.counts = CountsObj(c.rooms, Tiers(c.agents))
  BY <1>2, <1>3, FullForm
<1>5. /\ a.rooms = m.rooms /\ a.outside = m.outside /\ a.signedRows = m.signedRows
      /\ a.logRows = m.logRows /\ a.ledgerDids = m.ledgerDids /\ a.notInLedger = m.notInLedger
  BY <1>2, <1>4 DEF MapFields
<1>6. RoomsOk(a)
  BY <1>5 DEF RoomsOk, GoodMap, GoodRooms
<1>7. AgentsOk(a)
  BY <1>2, <1>4, TierFacts DEF AgentsOk, GoodMap, GoodAgents
<1>8. WindowFieldsOk(a)
  BY <1>2, <1>4, <1>5 DEF WindowFieldsOk, GoodMap
<1>9. ValidMap(a)
  BY <1>5 DEF ValidMap, GoodMap
<1>10. FullLoads(a, limit)
  BY <1>2, <1>3, <1>4, <1>6, <1>7, <1>8, <1>9 DEF FullLoads
<1>11. /\ DOMAIN Tiers(a.agents) = DOMAIN a.agents
       /\ \A d \in DOMAIN a.agents : Tiers(a.agents)[d] = a.agents[d].verdict.tier
  BY DEF Tiers
<1> QED
  BY <1>2, <1>4, <1>5, <1>10, <1>11

(* The compact map likewise, each agent with the tier its entry stands for. *)
LEMMA CompactMapFaithful ==
    ASSUME NEW m, NEW read, GoodMap(m, read), NEW limit \in Nat, NEW a,
           a = FitCompactMap(m, limit), a # NoFile
    PROVE  /\ CompactMapLoads(a, limit)
           /\ ServesExactly(DOMAIN CompactTiers(a.agents), a.served, LastSeenIn(m))
           /\ a.rooms = m.rooms /\ DOMAIN CompactTiers(a.agents) = DOMAIN a.agents
           /\ \A d \in DOMAIN a.agents : /\ d \in DOMAIN m.agents
                                         /\ a.agents[d].points = m.agents[d].verdict.points
                                         /\ CompactTiers(a.agents)[d] = m.agents[d].verdict.tier
<1>1. PICK k : /\ CutWell(m, k) /\ a = CompactMap(Cut(m, k))
               /\ CompactMapSize(CompactMap(Cut(m, k))) <= limit
  BY FitFacts
<1> DEFINE c == Cut(m, k)
           row(d) == CompactAgent(m.agents[d].signals, m.agents[d].verdict)
<1>2. /\ DOMAIN c = MapFields /\ \A f \in MapFields \ {"agents", "served"} : c[f] = m[f]
      /\ ServesExactly(DOMAIN c.agents, c.served, LastSeenIn(m))
      /\ DOMAIN c.agents \subseteq DOMAIN m.agents
      /\ \A d \in DOMAIN c.agents : c.agents[d] = m.agents[d]
      /\ c.served # NoServed => c.served.kept >= 1 /\ c.served.kept = Cardinality(DOMAIN c.agents)
  BY <1>1, CutFacts
<1> HIDE DEF c
<1>3. a = CompactMap(c) /\ CompactMapSize(a) <= limit
  BY <1>1 DEF c
<1>4. /\ a.rooms = c.rooms /\ a.served = c.served /\ a.outside = c.outside
      /\ a.agents = [d \in DOMAIN c.agents |-> CompactAgent(c.agents[d].signals, c.agents[d].verdict)]
      /\ a.counts = CountsObj(c.rooms, CompactTiers(a.agents))
  BY <1>3, CompactMapForm
<1>5. a.rooms = m.rooms /\ a.outside = m.outside /\ DOMAIN a.agents = DOMAIN c.agents
  BY <1>2, <1>4 DEF MapFields
<1>6. RoomsOk(a)
  BY <1>5 DEF RoomsOk, GoodMap, GoodRooms
<1>7. \A d \in DOMAIN a.agents : d \in DOMAIN m.agents /\ a.agents[d] = row(d)
  BY <1>2, <1>4, <1>5
<1>8. /\ DOMAIN CompactTiers(a.agents) = DOMAIN a.agents
      /\ \A d \in DOMAIN a.agents : CompactTiers(a.agents)[d] = a.agents[d].tier
  BY DEF CompactTiers
<1>9. \A d : /\ row(d).tier = m.agents[d].verdict.tier /\ row(d).points = m.agents[d].verdict.points
             /\ row(d).ratio = m.agents[d].signals.ratio /\ row(d).age = m.agents[d].signals.age
  BY DEF CompactAgent
<1> HIDE DEF row
<1>10. ASSUME NEW d \in DOMAIN a.agents PROVE ValidCompactAgent(a.agents[d])
  <2> DEFINE s == m.agents[d].signals
  <2>1. ValidSignals(s) /\ m.agents[d].verdict = ClassifyAgent(s)
    BY <1>7 DEF GoodMap, GoodAgents
  <2> HIDE DEF s
  <2>2. s.ratio \in 0..Unit /\ s.age >= 0 /\ ClassifyAgent(s).tier \in TierNames
    BY <2>1, TierFacts DEF ValidSignals, ValidAgentVerdict
  <2>3. s.ratio >= 0
    BY <2>2
  <2> QED
    BY <1>7, <1>9, <2>1, <2>2, <2>3 DEF ValidCompactAgent, s
<1>11. WindowFieldsOk(a)
  BY <1>2, <1>4, <1>5 DEF WindowFieldsOk, GoodMap
<1>12. CompactMapLoads(a, limit)
  BY <1>3, <1>4, <1>5, <1>6, <1>10, <1>11 DEF CompactMapLoads
<1>13. ServesExactly(DOMAIN CompactTiers(a.agents), a.served, LastSeenIn(m))
  BY <1>2, <1>4, <1>5, <1>8
<1>14. \A d \in DOMAIN a.agents : /\ d \in DOMAIN m.agents
                                  /\ a.agents[d].points = m.agents[d].verdict.points
                                  /\ CompactTiers(a.agents)[d] = m.agents[d].verdict.tier
  BY <1>7, <1>8, <1>9
<1> QED
  BY <1>5, <1>8, <1>12, <1>13, <1>14

(* Maps on disk that were built of their basis are faithful to it. *)
LEMMA LivenessHolds ==
    ASSUME opts \in OptionSets, MapOk, CompactMapOk
    PROVE  LivenessFaithful
<1>1. opts.maxMap \in Nat /\ opts.maxCompactMap \in Nat
  BY SizesAssumption
<1>2. ASSUME NEW f, NEW tierOf, NEW m, m = basis[f].of, GoodMap(m, basis[f].log), 
             disk[f].rooms = m.rooms, ServesExactly(DOMAIN tierOf, disk[f].served, LastSeenIn(m)),
             \A d \in DOMAIN tierOf : d \in DOMAIN m.agents /\ tierOf[d] = m.agents[d].verdict.tier
      PROVE  MapComplete(f, tierOf)
  <2>1. /\ Cardinality(SignedPosters(basis[f].log))
             = Cardinality(DOMAIN m.agents) + m.outside + m.notInLedger
        /\ GoodRooms(m) /\ GoodAgents(m)
    BY <1>2 DEF GoodMap
  <2>2. ASSUME NEW d \in DOMAIN tierOf
        PROVE  tierOf[d] = IF m.agents[d].signals.burst THEN "farm"
                             ELSE TierFromPoints(CompactAgent(m.agents[d].signals, m.agents[d].verdict))
    <3>1. m.agents[d].verdict = ClassifyAgent(m.agents[d].signals)
      BY <1>2, <2>1 DEF GoodAgents
    <3> QED
      BY <1>2, <3>1, TierFacts
  <2>3. \A r \in DOMAIN disk[f].rooms :
           LET v == disk[f].rooms[r].verdict
           IN  ~v.fallback => v.class = ClassFromTable(v.decidedOn, v.signals)
    BY <1>2, <2>1 DEF GoodRooms
  <2> QED
    BY <1>2, <2>1, <2>2, <2>3 DEF MapComplete
<1>3. ASSUME disk.map # NoFile
      PROVE  /\ FullLoads(disk.map, opts.maxMap) /\ MapComplete("map", Tiers(disk.map.agents))
             /\ disk.map.rooms = basis.map.of.rooms
             /\ \A d \in DOMAIN disk.map.agents : disk.map.agents[d] = basis.map.of.agents[d]
  <2> DEFINE m == basis.map.of
             a == disk.map
  <2>1. GoodMap(m, basis.map.log) /\ a = FitFull(m, opts.maxMap) /\ a # NoFile
    BY <1>3 DEF MapOk
  <2>2. /\ FullLoads(a, opts.maxMap)
        /\ ServesExactly(DOMAIN Tiers(a.agents), a.served, LastSeenIn(m))
        /\ a.rooms = m.rooms /\ DOMAIN Tiers(a.agents) = DOMAIN a.agents
        /\ \A d \in DOMAIN a.agents : /\ d \in DOMAIN m.agents /\ a.agents[d] = m.agents[d]
                                      /\ Tiers(a.agents)[d] = m.agents[d].verdict.tier
    BY <1>1, <2>1, FullFaithful
  <2>3. MapComplete("map", Tiers(a.agents))
    BY <1>2, <2>1, <2>2
  <2> QED
    BY <2>2, <2>3
<1>4. ASSUME disk.compactMap # NoFile
      PROVE  /\ CompactMapLoads(disk.compactMap, opts.maxCompactMap)
             /\ MapComplete("compactMap", CompactTiers(disk.compactMap.agents))
             /\ disk.compactMap.rooms = basis.compactMap.of.rooms
             /\ \A d \in DOMAIN disk.compactMap.agents :
                   disk.compactMap.agents[d].points = basis.compactMap.of.agents[d].verdict.points
  <2> DEFINE m == basis.compactMap.of
             a == disk.compactMap
  <2>1. GoodMap(m, basis.compactMap.log) /\ a = FitCompactMap(m, opts.maxCompactMap) /\ a # NoFile
    BY <1>4 DEF CompactMapOk
  <2>2. /\ CompactMapLoads(a, opts.maxCompactMap)
        /\ ServesExactly(DOMAIN CompactTiers(a.agents), a.served, LastSeenIn(m))
        /\ a.rooms = m.rooms /\ DOMAIN CompactTiers(a.agents) = DOMAIN a.agents
        /\ \A d \in DOMAIN a.agents : /\ d \in DOMAIN m.agents
                                      /\ a.agents[d].points = m.agents[d].verdict.points
                                      /\ CompactTiers(a.agents)[d] = m.agents[d].verdict.tier
    BY <1>1, <2>1, CompactMapFaithful
  <2>3. MapComplete("compactMap", CompactTiers(a.agents))
    BY <1>2, <2>1, <2>2
  <2> QED
    BY <2>2, <2>3
<1>5. ASSUME disk.map # NoFile, disk.compactMap # NoFile, basis.map = basis.compactMap
      PROVE  /\ disk.map.rooms = disk.compactMap.rooms
             /\ \A d \in DOMAIN disk.map.agents \cap DOMAIN disk.compactMap.agents :
                   disk.compactMap.agents[d].points = disk.map.agents[d].verdict.points
  BY <1>3, <1>4, <1>5
<1> QED
  BY <1>3, <1>4, <1>5 DEF LivenessFaithful

-----------------------------------------------------------------------------
(* What the builds have written and hold, of the rows they have read. *)

LedgerSteps == {"split", "clear", "retire", "install", "installOver", "drop", "compact"}
BuildKinds == {"ledger", "liveness"}
BuildFiles == {"ledger", "compact", "map", "compactMap"}

(* What was built of the rows read, and when. *)
IsBuilt(ledger, read, now) ==
    IsRead(read) /\ now \in Nat /\ ledger = BuildLedger(read, OptsAt(now))

LedgerOk ==
    disk.ledger # NoFile =>
      /\ IsBuilt(basis.ledger.of, basis.ledger.log, basis.ledger.now)
      /\ disk.ledger = ToJsonl(basis.ledger.of)
CompactOk ==
    disk.compact # NoFile =>
      /\ IsBuilt(basis.compact.of, basis.compact.log, basis.compact.now)
      /\ disk.compact = FitCompact(basis.compact.of, opts.maxCompact)

(* What a build holds of the log and has made of it. *)
HeldOk ==
    /\ job.step \in LedgerSteps => job.kind = "ledger" /\ IsBuilt(job.held, job.read, job.now)
    /\ At("compactMap") => job.kind = "liveness" /\ GoodMap(job.held, job.read)
    /\ job.kind \in BuildKinds /\ At("reading") => IsRead(job.read) /\ job.now \in Nat
    /\ job.kind = "liveness" /\ At("reading") => GoodLedger(job.held)
    /\ job.kind \in BuildKinds => job.step \in {"reading", "compactMap"} \cup LedgerSteps

BuildInv ==
    /\ IsRead(log)
    /\ HeldOk
    /\ LedgerOk /\ CompactOk /\ MapOk /\ CompactMapOk

(* A file that is neither written nor rebased stays as good as it was. *)
LEMMA OkKept ==
    ASSUME BuildInv, opts' = opts
    PROVE  /\ disk'.ledger = disk.ledger /\ basis'.ledger = basis.ledger => LedgerOk'
           /\ disk'.compact = disk.compact /\ basis'.compact = basis.compact => CompactOk'
           /\ disk'.map = disk.map /\ basis'.map = basis.map => MapOk'
           /\ disk'.compactMap = disk.compactMap /\ basis'.compactMap = basis.compactMap => CompactMapOk'
<1>1. LedgerOk /\ CompactOk /\ MapOk /\ CompactMapOk
  BY DEF BuildInv
<1>2. ASSUME disk'.ledger = disk.ledger, basis'.ledger = basis.ledger PROVE LedgerOk'
  BY <1>1, <1>2 DEF LedgerOk, IsBuilt, OptsAt
<1>3. ASSUME disk'.compact = disk.compact, basis'.compact = basis.compact PROVE CompactOk'
  BY <1>1, <1>3 DEF CompactOk, IsBuilt, OptsAt
<1>4. ASSUME disk'.map = disk.map, basis'.map = basis.map PROVE MapOk'
  BY <1>1, <1>4 DEF MapOk, GoodMap, SignedPosters
<1>5. ASSUME disk'.compactMap = disk.compactMap, basis'.compactMap = basis.compactMap PROVE CompactMapOk'
  BY <1>1, <1>5 DEF CompactMapOk, GoodMap, SignedPosters
<1> QED
  BY <1>2, <1>3, <1>4, <1>5

(* Work in progress stays sound when no build moves. *)
LEMMA HeldKept ==
    ASSUME BuildInv, opts' = opts,
           job' = job \/ (job'.kind \notin BuildKinds /\ job'.step \notin LedgerSteps \cup {"compactMap"})
    PROVE  HeldOk'
<1>1. CASE job' = job
  BY <1>1 DEF BuildInv, HeldOk, At, IsBuilt, OptsAt, GoodMap, SignedPosters
<1>2. CASE job'.kind \notin BuildKinds /\ job'.step \notin LedgerSteps \cup {"compactMap"}
  BY <1>2 DEF HeldOk, At, BuildKinds
<1> QED
  BY <1>1, <1>2

(* A step that leaves the files of the builds. *)
LEMMA BuildFilesKept ==
    ASSUME BuildInv, opts' = opts, IsRead(log)', HeldOk', KeepsFiles(BuildFiles)
    PROVE  BuildInv'
<1>1. \A f \in BuildFiles : disk'[f] = disk[f] /\ basis'[f] = basis[f]
  BY DEF KeepsFiles
<1>2. LedgerOk' /\ CompactOk' /\ MapOk' /\ CompactMapOk'
  BY <1>1, OkKept DEF BuildFiles
<1> QED
  BY <1>2 DEF BuildInv

(* A write of another output leaves the files of the builds alone. *)
LEMMA OtherFiles ==
    ASSUME IInv, NEW output \in Outputs \ BuildFiles, NEW content, NEW source,
           Writes(output, content, source)
    PROVE  KeepsFiles(BuildFiles)
<1>1. TypeOK /\ output \in Outputs /\ BuildFiles \subseteq Outputs \ {output}
  BY DEF IInv, BuildFiles, Outputs
<1>2. \A f \in Outputs \ {output} : disk'[f] = disk[f] /\ basis'[f] = basis[f]
  BY ONLY <1>1, Writes(output, content, source), WritesFacts
<1> QED
  BY <1>1, <1>2 DEF KeepsFiles

(* A build that ends, or gives up, leaves its files as they are. *)
LEMMA ToIdle ==
    ASSUME IInv, BuildInv, job' = Idle, Untouched, KeepsFiles(BuildFiles)
    PROVE  BuildInv'
<1>1. HeldOk'
  BY IdleFacts, HeldKept DEF Untouched, BuildKinds, LedgerSteps
<1>2. IsRead(log)'
  BY DEF Untouched, BuildInv
<1> QED
  BY <1>1, <1>2, BuildFilesKept DEF Untouched

LEMMA FailsBuild == ASSUME IInv, BuildInv, Fails PROVE BuildInv'
BY ToIdle DEF Fails, Goes, KeepsFiles

(* A step of a command that is no build. *)
LEMMA OtherJobStep ==
    ASSUME IInv, BuildInv, Untouched, KeepsFiles(BuildFiles),
           job'.kind \notin BuildKinds, job'.step \notin LedgerSteps \cup {"compactMap"}
    PROVE  BuildInv'
<1>1. HeldOk'
  BY HeldKept DEF Untouched
<1>2. IsRead(log)'
  BY DEF Untouched, BuildInv
<1> QED
  BY <1>1, <1>2, BuildFilesKept DEF Untouched

LEMMA OtherStarts ==
    ASSUME IInv, BuildInv, StartFreeze \/ StartExtract \/ StartPublish \/ StartLexical
    PROVE  BuildInv'
<1>1. ASSUME NEW kind \in {"freeze", "publish", "lexical"}, NEW step \in {"reading", "hash", "docs"},
             NEW held, Start(kind, step, held)
      PROVE  BuildInv'
  <2>1. Untouched /\ KeepsFiles(BuildFiles) /\ job'.kind = kind /\ job'.step = step
    BY <1>1, StartFacts DEF KeepsFiles
  <2> QED
    BY <2>1, OtherJobStep DEF BuildKinds, LedgerSteps
<1>2. CASE StartExtract
  <2>1. Untouched /\ job'.kind = "extract" /\ job'.step = "files"
    BY <1>2 DEF StartExtract
  <2>2. basis' = basis /\ \E x : disk' = [disk EXCEPT !.extract = x]
    BY <1>2 DEF StartExtract
  <2>3. KeepsFiles(BuildFiles)
    BY <2>2, NumbersKept DEF KeepsFiles, BuildFiles, Outputs
  <2> QED
    BY <2>1, <2>3, OtherJobStep DEF BuildKinds, LedgerSteps
<1> QED
  BY <1>1, <1>2 DEF StartFreeze, StartPublish, StartLexical

(* The other commands: they write none of the builds' files. *)
LEMMA OtherWrites ==
    ASSUME IInv, BuildInv,
           NEW output \in Outputs \ BuildFiles, NEW content, NEW source, Writes(output, content, source),
           NEW next, Goes(next),
           next = Idle \/ (next.kind \notin BuildKinds /\ next.step \notin LedgerSteps \cup {"compactMap"})
    PROVE  BuildInv'
<1>1. Untouched /\ job' = next
  BY DEF Goes
<1>2. KeepsFiles(BuildFiles)
  BY OtherFiles
<1> QED
  BY <1>1, <1>2, ToIdle, OtherJobStep

LEMMA OtherCommands ==
    ASSUME IInv, BuildInv,
           \/ WriteArchive \/ WriteManifest \/ ExtractFile \/ HashDatabase \/ WriteManifestJson
           \/ WriteSurface \/ WriteLexical \/ ReadLexicalDocs \/ WriteLexicalAlone
    PROVE  BuildInv'
<1>1. {"archive", "manifest", "extract", "manifestJson", "surface", "lexical"} \subseteq Outputs \ BuildFiles
  BY DEF Outputs, BuildFiles
<1>2. ASSUME NEW step \in {"files", "manifest", "hash", "manifestJson", "surface", "lexical", "docs",
                           "lexicalAlone"}, At(step)
      PROVE  job.kind \notin BuildKinds
  BY <1>2 DEF BuildInv, HeldOk, At, LedgerSteps
<1>3. CASE WriteManifest
  BY <1>1, <1>3, OtherWrites DEF WriteManifest
<1>4. CASE WriteLexical
  <2>1. CASE Fails
    BY <2>1, FailsBuild
  <2>2. CASE ~Fails
    <3>1. \E content, source : Writes("lexical", content, source) /\ Goes(Idle)
      BY <1>4, <2>2 DEF WriteLexical
    <3> QED
      BY <1>1, <3>1, OtherWrites
  <2> QED
    BY <2>1, <2>2
<1>5. CASE WriteLexicalAlone
  <2>1. CASE Fails
    BY <2>1, FailsBuild
  <2>2. CASE ~Fails
    <3>1. \E content, source : Writes("lexical", content, source) /\ Goes(Idle)
      BY <1>5, <2>2 DEF WriteLexicalAlone
    <3> QED
      BY <1>1, <3>1, OtherWrites
  <2> QED
    BY <2>1, <2>2
<1>6. CASE WriteArchive
  <2>1. job.kind = "freeze" /\ \E content, held : 
           Writes("archive", content, NoFile) /\ Goes([job EXCEPT !.step = "manifest", !.held = held])
    BY <1>6 DEF WriteArchive, ReadyFor
  <2>2. PICK content, held :
           Writes("archive", content, NoFile) /\ Goes([job EXCEPT !.step = "manifest", !.held = held])
    BY <2>1
  <2> DEFINE next == [job EXCEPT !.step = "manifest", !.held = held]
  <2>3. next.kind = "freeze" /\ next.step = "manifest"
    BY <2>1, GoesFacts DEF Steps
  <2> HIDE DEF next
  <2>4. Goes(next) /\ next.kind \notin BuildKinds /\ next.step \notin LedgerSteps \cup {"compactMap"}
    BY <2>2, <2>3 DEF BuildKinds, LedgerSteps, next
  <2> QED
    BY <1>1, <2>2, <2>4, OtherWrites
<1>7. CASE ExtractFile
  <2>1. /\ At("files") /\ \E content : Writes("extract", content, NoFile)
        /\ \E next \in {Idle, job} : Goes(next)
    BY <1>7 DEF ExtractFile
  <2>2. job.kind \notin BuildKinds /\ job.step = "files"
    BY <1>2, <2>1 DEF At
  <2>3. job.step \notin LedgerSteps \cup {"compactMap"}
    BY <2>2 DEF LedgerSteps
  <2> QED
    BY <1>1, <2>1, <2>2, <2>3, OtherWrites
<1>8. CASE WriteManifestJson
  <2>1. /\ At("manifestJson") /\ \E content, source, read : 
           Writes("manifestJson", content, source) /\ Goes([job EXCEPT !.step = "surface", !.read = read])
    BY <1>8 DEF WriteManifestJson
  <2>2. PICK content, source, read :
           Writes("manifestJson", content, source) /\ Goes([job EXCEPT !.step = "surface", !.read = read])
    BY <2>1
  <2> DEFINE next == [job EXCEPT !.step = "surface", !.read = read]
  <2>3. next.kind = job.kind /\ next.step = "surface"
    BY GoesFacts DEF Steps
  <2> HIDE DEF next
  <2>4. Goes(next) /\ next.kind \notin BuildKinds /\ next.step \notin LedgerSteps \cup {"compactMap"}
    BY <1>2, <2>1, <2>2, <2>3 DEF LedgerSteps, next
  <2> QED
    BY <1>1, <2>2, <2>4, OtherWrites
<1>9. CASE WriteSurface
  <2> DEFINE next == [job EXCEPT !.step = "lexical", !.read = << >>]
  <2>1. At("surface") /\ Writes("surface", job.read, job.held) /\ Goes(next)
    BY <1>9 DEF WriteSurface
  <2>2. next.kind = job.kind /\ next.step = "lexical"
    BY GoesFacts DEF Steps
  <2> HIDE DEF next
  <2>3. next.kind \notin BuildKinds /\ next.step \notin LedgerSteps \cup {"compactMap"}
    BY <1>2, <2>1, <2>2 DEF LedgerSteps
  <2> QED
    BY <1>1, <2>1, <2>3, OtherWrites
<1>10. CASE HashDatabase \/ ReadLexicalDocs
  <2>1. /\ At("hash") \/ At("docs")
        /\ UNCHANGED <<disk, basis>>
        /\ \E step \in {"manifestJson", "lexicalAlone"} : \E held : Goes([job EXCEPT !.step = step, !.held = held])
    BY <1>10 DEF HashDatabase, ReadLexicalDocs
  <2>2. PICK step \in {"manifestJson", "lexicalAlone"} : \E held : Goes([job EXCEPT !.step = step, !.held = held])
    BY <2>1
  <2>3. PICK held : Goes([job EXCEPT !.step = step, !.held = held])
    BY <2>2
  <2> DEFINE next == [job EXCEPT !.step = step, !.held = held]
  <2>4. next.kind = job.kind /\ next.step = step
    BY GoesFacts DEF Steps
  <2> HIDE DEF next
  <2>5. job' = next /\ Untouched
    BY <2>3 DEF Goes, next
  <2>6. KeepsFiles(BuildFiles)
    BY <2>1 DEF KeepsFiles
  <2>7. job.kind \notin BuildKinds
    BY <1>2, <2>1
  <2>8. step \notin LedgerSteps \cup {"compactMap"}
    BY DEF LedgerSteps
  <2> QED
    BY <2>4, <2>5, <2>6, <2>7, <2>8, OtherJobStep
<1> QED
  BY <1>3, <1>4, <1>5, <1>6, <1>7, <1>8, <1>9, <1>10

LEMMA MovesFacts ==
    ASSUME IInv, NEW step \in Steps, NEW held
    PROVE  /\ [job EXCEPT !.step = step].read = job.read
           /\ [job EXCEPT !.step = step].now = job.now
           /\ [job EXCEPT !.step = step, !.held = held].now = job.now
BY DEF IInv, JobFits, JobFields

(* A build takes its next step. *)
LEMMA BuildGoes ==
    ASSUME IInv, BuildInv, NEW step \in LedgerSteps, job.kind = "ledger",
           IsBuilt(job.held, job.read, job.now),
           Goes([job EXCEPT !.step = step]),
           disk'.ledger = disk.ledger, basis'.ledger = basis.ledger,
           disk'.compact = disk.compact, basis'.compact = basis.compact,
           disk'.map = disk.map, basis'.map = basis.map,
           disk'.compactMap = disk.compactMap, basis'.compactMap = basis.compactMap
    PROVE  BuildInv'
<1>1. Untouched /\ job' = [job EXCEPT !.step = step]
  BY DEF Goes
<1>2. step \in Steps
  BY DEF LedgerSteps, Steps
<1>3. /\ job'.kind = "ledger" /\ job'.step = step /\ job'.held = job.held
      /\ job'.read = job.read /\ job'.now = job.now
  BY <1>1, <1>2, GoesFacts, MovesFacts
<1>4. opts' = opts /\ log' = log
  BY <1>1 DEF Untouched
<1>5. IsBuilt(job.held, job.read, job.now)'
  BY <1>3, <1>4 DEF IsBuilt, OptsAt
<1>6. step \notin {"reading", "compactMap"}
  BY DEF LedgerSteps
<1>7. HeldOk'
  BY <1>3, <1>5, <1>6 DEF HeldOk, At, LedgerSteps, BuildKinds
<1>8. LedgerOk' /\ CompactOk' /\ MapOk' /\ CompactMapOk'
  BY <1>4, OkKept
<1> QED
  BY <1>4, <1>7, <1>8 DEF BuildInv

(* A poll only adds rows to the log: what was read and written keeps its
   basis. *)
LEMMA BuildPoll ==
    ASSUME IInv, BuildInv, NEW room \in DOMAIN log, NEW message \in Feed, Poll(room, message)
    PROVE  BuildInv'
<1> DEFINE x == [seq |-> LastSeq(log[room]) + 1 + message.lost, ts |-> clock', sender |-> message.sender,
                 text |-> message.text, signed |-> message.signed, parses |-> message.parses]
           more == Append(log[room], x)
<1>1. /\ log' = [log EXCEPT ![room] = more]
      /\ clock' = clock + message.later
      /\ UNCHANGED <<opts, job, disk, basis>>
  BY DEF Poll
<1>2. clock' \in Nat /\ message.sender \in Nat /\ message.lost \in Nat
      /\ message.text \in DOMAIN Attr
  <2>1. clock \in Nat
    BY DEF IInv, TypeOK
  <2>2. message.later \in Nat /\ message.lost \in Nat
    BY OperatorAssumption
  <2>3. message.sender \in Nat /\ message.text \in DOMAIN Attr
    BY SizesAssumption
  <2> QED
    BY <1>1, <2>1, <2>2, <2>3
<1>3. x.seq = LastSeq(log[room]) + 1 + message.lost /\ x.ts \in Nat /\ x.sender \in Nat
      /\ x.text \in DOMAIN Attr
  BY <1>2
<1>4. IsRead(log) /\ IsLog(log[room])
  BY DEF BuildInv, IsRead
<1> HIDE DEF x
<1>5. IsLog(more)
  BY <1>2, <1>3, <1>4, GapsOfLonger
<1>6. ASSUME NEW i \in DOMAIN more 
      PROVE  more[i].ts \in Nat /\ more[i].sender \in Nat /\ more[i].text \in DOMAIN Attr
  <2>1. /\ Len(log[room]) \in Nat /\ DOMAIN log[room] = 1..Len(log[room])
    BY <1>4, SeqsFacts
  <2>2. log[room] \in Seq(Range(log[room]) \cup {x})
    BY <1>4, SeqMonotonic DEF IsLog
  <2>3. /\ more \in Seq(Range(log[room]) \cup {x}) /\ Len(more) = Len(log[room]) + 1
        /\ (\A j \in 1..Len(log[room]) : more[j] = log[room][j]) /\ more[Len(log[room]) + 1] = x
    BY <2>2, AppendProperties
  <2>4. i \in 1..Len(log[room]) \/ i = Len(log[room]) + 1
    BY <2>1, <2>3, LenProperties
  <2>5. \A j \in 1..Len(log[room]) : /\ log[room][j].ts \in Nat /\ log[room][j].sender \in Nat
                                    /\ log[room][j].text \in DOMAIN Attr
    BY <1>4, <2>1 DEF IsRead
  <2> QED
    BY <1>3, <2>3, <2>4, <2>5
<1> HIDE DEF more
<1>7. IsRead(log)'
  <2>1. DOMAIN log' = DOMAIN log /\ \A r \in DOMAIN log : log'[r] = IF r = room THEN more ELSE log[r]
    BY <1>1
  <2> QED
    BY <1>4, <1>5, <1>6, <2>1 DEF IsRead, IsLog
<1>8. HeldOk'
  BY <1>1, HeldKept
<1>9. KeepsFiles(BuildFiles)
  BY <1>1 DEF KeepsFiles
<1> QED
  BY <1>1, <1>7, <1>8, <1>9, BuildFilesKept

LEMMA BuildIndex ==
    ASSUME IInv, BuildInv, NEW change \in Changes, Index(change) PROVE BuildInv'
<1>1. UNCHANGED <<opts, log, job, disk, basis>>
  BY DEF Index
<1>2. HeldOk' /\ IsRead(log)' /\ KeepsFiles(BuildFiles)
  BY <1>1, HeldKept DEF BuildInv, KeepsFiles
<1> QED
  BY <1>1, <1>2, BuildFilesKept

LEMMA BuildRead == ASSUME IInv, BuildInv, ReadRoom PROVE BuildInv'
<1> DEFINE room == Min(Unread)
           read == [r \in DOMAIN job.read \cup {room} |-> IF r = room THEN log[r] ELSE job.read[r]]
<1>1. /\ At("reading") /\ job.step = "reading" /\ Unread # {}
      /\ job' = [job EXCEPT !.read = read]
      /\ UNCHANGED <<disk, basis>> /\ Untouched
  BY DEF ReadRoom, At
<1>2. DOMAIN job = JobFields
  BY JobType
<1>3. /\ job'.kind = job.kind /\ job'.step = "reading" /\ job'.read = read /\ job'.now = job.now
      /\ job'.held = job.held
  <2> HIDE DEF read
  <2> QED
    BY <1>1, <1>2 DEF JobFields
<1>4. log' = log /\ opts' = opts
  BY <1>1 DEF Untouched
<1>5. job.kind \in BuildKinds => IsRead(read)
  <2> SUFFICES ASSUME job.kind \in BuildKinds PROVE IsRead(read)
    OBVIOUS
  <2>1. IsRead(job.read) /\ IsRead(log)
    BY <1>1 DEF BuildInv, HeldOk, At
  <2>2. Unread \subseteq DOMAIN log /\ DOMAIN log \subseteq Nat
    BY <2>1 DEF Unread, Scope, IsRead
  <2>3. room \in DOMAIN log
    <3>1. Unread \subseteq Nat
      BY <2>2
    <3>2. room \in Unread
      BY <1>1, <3>1, MinIsLeast
    <3> QED
      BY <2>2, <3>2
  <2> HIDE DEF room
  <2>4. DOMAIN read = DOMAIN job.read \cup {room} /\ \A r \in DOMAIN read : read[r] = IF r = room THEN log[r] ELSE job.read[r]
    OBVIOUS
  <2>5. IsFiniteSet(DOMAIN read)
    BY <2>1, <2>4, FS_AddElement DEF IsRead
  <2> HIDE DEF read
  <2>6. \A r \in DOMAIN read : \/ r \in DOMAIN log /\ read[r] = log[r]
                               \/ r \in DOMAIN job.read /\ read[r] = job.read[r]
    BY <2>3, <2>4
  <2>7. DOMAIN read \subseteq Nat
    BY <2>1, <2>3, <2>4 DEF IsRead
  <2> QED
    BY <2>1, <2>5, <2>6, <2>7 DEF IsRead
<1> HIDE DEF read
<1>6. HeldOk'
  BY <1>1, <1>3, <1>4, <1>5 DEF BuildInv, HeldOk, At, LedgerSteps, BuildKinds
<1>7. KeepsFiles(BuildFiles) /\ IsRead(log)'
  BY <1>1, <1>4 DEF KeepsFiles, BuildInv
<1> QED
  BY <1>4, <1>6, <1>7, BuildFilesKept

LEMMA BuildStarts ==
    ASSUME IInv, BuildInv, NEW held, NEW kind \in BuildKinds, Start(kind, "reading", held),
           kind = "liveness" => GoodLedger(held)
    PROVE  BuildInv'
<1>1. /\ Untouched /\ UNCHANGED <<disk, basis>>
      /\ job' = [kind |-> kind, step |-> "reading", now |-> clock, read |-> << >>, held |-> held]
  BY StartFacts
<1>2. clock \in Nat
  BY DEF IInv, TypeOK
<1>3. IsRead(<< >>)
  BY FS_EmptySet DEF IsRead
<1>4. HeldOk'
  BY <1>1, <1>2, <1>3 DEF HeldOk, At, LedgerSteps, BuildKinds
<1>5. KeepsFiles(BuildFiles) /\ IsRead(log)'
  BY <1>1 DEF KeepsFiles, Untouched, BuildInv
<1> QED
  BY <1>1, <1>4, <1>5, BuildFilesKept DEF Untouched

LEMMA BuildStartLedger == ASSUME IInv, BuildInv, StartLedger PROVE BuildInv'
BY BuildStarts DEF StartLedger, BuildKinds

LEMMA BuildStartLiveness == ASSUME IInv, BuildInv, StartLiveness PROVE BuildInv'
<1>1. LedgerOk /\ disk.ledger # NoFile /\ Start("liveness", "reading", LoadLedger(disk.ledger))
  BY DEF BuildInv, StartLiveness
<1>2. disk.ledger = ToJsonl(BuildLedger(basis.ledger.log, OptsAt(basis.ledger.now)))
      /\ IsRead(basis.ledger.log)
  BY <1>1 DEF LedgerOk, IsBuilt
<1>3. GoodLedger(LoadLedger(disk.ledger))
  BY <1>2, LoadedFacts
<1> QED
  BY <1>1, <1>3, BuildStarts DEF BuildKinds

(* One of the builds' files is written, the others are left. *)
LEMMA BuildWrites ==
    ASSUME IInv, NEW output \in BuildFiles, NEW content, NEW source, Writes(output, content, source)
    PROVE  /\ disk'[output] = content
           /\ basis'[output] = [log |-> job.read, now |-> job.now, of |-> source]
           /\ \A f \in BuildFiles \ {output} : disk'[f] = disk[f] /\ basis'[f] = basis[f]
<1>1. TypeOK /\ output \in Outputs /\ BuildFiles \subseteq Outputs
  BY DEF IInv, BuildFiles, Outputs
<1>2. \A f \in Outputs \ {output} : disk'[f] = disk[f] /\ basis'[f] = basis[f]
  BY ONLY <1>1, Writes(output, content, source), WritesFacts
<1>3. DOMAIN disk = Outputs /\ DOMAIN basis = Outputs
  BY NumbersKept
<1> QED
  BY <1>1, <1>2, <1>3 DEF Writes

(* The ledger is written from what the same build has read. *)
LEMMA BuildWriteLedger == ASSUME IInv, BuildInv, WriteLedger PROVE BuildInv'
<1> DEFINE L == BuiltLedger
           next == IF opts.publishes THEN [job EXCEPT !.step = "split", !.held = L] ELSE Idle
<1>1. ReadyFor("ledger") /\ (Fails \/ (Writes("ledger", ToJsonl(L), L) /\ Goes(next)))
  BY DEF WriteLedger
<1>2. CASE Fails
  BY <1>2, FailsBuild
<1>3. CASE Writes("ledger", ToJsonl(L), L) /\ Goes(next)
  <2>1. job.kind = "ledger" /\ At("reading")
    BY <1>1 DEF ReadyFor, At
  <2>2. IsBuilt(L, job.read, job.now)
    BY <2>1 DEF BuildInv, HeldOk, BuildKinds, IsBuilt, BuiltLedger
  <2> HIDE DEF L
  <2>3. /\ disk'["ledger"] = ToJsonl(L)
        /\ basis'["ledger"] = [log |-> job.read, now |-> job.now, of |-> L]
        /\ \A f \in BuildFiles \ {"ledger"} : disk'[f] = disk[f] /\ basis'[f] = basis[f]
    BY <1>3, BuildWrites DEF BuildFiles
  <2>4. Untouched /\ job' = next
    BY <1>3 DEF Goes
  <2>5. opts' = opts /\ log' = log
    BY <2>4 DEF Untouched
  <2>6. LedgerOk'
    BY <2>2, <2>3, <2>5 DEF LedgerOk, IsBuilt, OptsAt
  <2>7. CompactOk' /\ MapOk' /\ CompactMapOk'
    BY <2>3, <2>5, OkKept DEF BuildFiles
  <2>8. HeldOk'
    <3>1. CASE ~opts.publishes
      BY <2>4, <2>5, <3>1, IdleFacts, HeldKept DEF BuildKinds, LedgerSteps
    <3>2. CASE opts.publishes
      <4>1. job' = [job EXCEPT !.step = "split", !.held = L]
        BY <2>4, <3>2
      <4>2. /\ job'.kind = "ledger" /\ job'.step = "split" /\ job'.held = L
            /\ job'.read = job.read /\ job'.now = job.now
        BY <2>1, <4>1, GoesFacts, MovesFacts DEF Steps
      <4> QED
        BY <2>2, <2>5, <4>2 DEF HeldOk, At, LedgerSteps, BuildKinds, IsBuilt, OptsAt
    <3> QED
      BY <3>1, <3>2
  <2> QED
    BY <2>5, <2>6, <2>7, <2>8 DEF BuildInv
<1> QED
  BY <1>1, <1>2, <1>3

LEMMA BuildSwaps ==
    ASSUME IInv, BuildInv,
           StageShards \/ ClearOldShards \/ RetireShards \/ InstallShards \/ DropOldShards
    PROVE  BuildInv'
<1>1. job.step \in LedgerSteps => job.kind = "ledger" /\ IsBuilt(job.held, job.read, job.now)
  BY DEF BuildInv, HeldOk
<1>2. ASSUME NEW step \in LedgerSteps, job.step \in LedgerSteps, Goes([job EXCEPT !.step = step]),
             KeepsFiles(BuildFiles)
      PROVE  BuildInv'
  <2>1. \A f \in BuildFiles : disk'[f] = disk[f] /\ basis'[f] = basis[f]
    BY <1>2 DEF KeepsFiles
  <2> QED
    BY <1>1, <1>2, <2>1, BuildGoes DEF BuildFiles
<1>3. CASE StageShards
  <2>1. CASE Fails
    BY <2>1, FailsBuild
  <2>2. CASE ~Fails
    <3>1. At("split") /\ UNCHANGED <<disk, basis>>
          /\ \E step \in {"install", "retire", "clear"} : Goes([job EXCEPT !.step = step])
      BY <1>3, <2>2 DEF StageShards
    <3>2. KeepsFiles(BuildFiles) /\ job.step = "split"
      BY <3>1 DEF KeepsFiles, At
    <3> QED
      BY <1>2, <3>1, <3>2 DEF LedgerSteps
  <2> QED
    BY <2>1, <2>2
<1>4. BuildFiles \cap ShardFiles = {} /\ BuildFiles \cup ShardFiles \subseteq Outputs
  BY DEF BuildFiles, ShardFiles, Outputs
<1>5. CASE ClearOldShards \/ RetireShards \/ DropOldShards
  <2>1. /\ \A f \in BuildFiles : disk'[f] = disk[f] /\ basis'[f] = basis[f]
        /\ job.step \in {"clear", "retire", "drop"}
        /\ \E step \in {"retire", "installOver", "compact"} : Goes([job EXCEPT !.step = step])
    BY <1>5, NumbersKept DEF ClearOldShards, RetireShards, DropOldShards, At, BuildFiles, Outputs
  <2>2. KeepsFiles(BuildFiles)
    BY <2>1 DEF KeepsFiles
  <2> QED
    BY <1>2, <2>1, <2>2 DEF LedgerSteps
<1>6. CASE InstallShards
  <2>1. /\ job.step \in {"install", "installOver"}
        /\ Writes("shards", Staged, job.held)
        /\ \E step \in {"drop", "compact"} : Goes([job EXCEPT !.step = step])
    BY <1>6 DEF InstallShards
  <2>2. KeepsFiles(BuildFiles)
    BY <2>1, OtherFiles DEF BuildFiles, Outputs
  <2> QED
    BY <1>2, <2>1, <2>2 DEF LedgerSteps
<1> QED
  BY <1>3, <1>5, <1>6

(* The compact ledger is fitted from the ledger of the same build, not from
   the file. *)
LEMMA BuildWriteCompact == ASSUME IInv, BuildInv, WriteCompact PROVE BuildInv'
<1> DEFINE a == FitCompact(job.held, opts.maxCompact)
<1>1. At("compact") /\ (Fails \/ (a # NoFile /\ Writes("compact", a, job.held) /\ Goes(Idle)))
  BY DEF WriteCompact
<1>2. CASE Writes("compact", a, job.held) /\ Goes(Idle)
  <2>1. IsBuilt(job.held, job.read, job.now)
    BY <1>1 DEF BuildInv, HeldOk, At, LedgerSteps
  <2>2. /\ disk'["compact"] = a
        /\ basis'["compact"] = [log |-> job.read, now |-> job.now, of |-> job.held]
        /\ \A f \in BuildFiles \ {"compact"} : disk'[f] = disk[f] /\ basis'[f] = basis[f]
    BY <1>2, BuildWrites DEF BuildFiles
  <2>3. opts' = opts /\ log' = log /\ job' = Idle
    BY <1>2 DEF Goes, Untouched
  <2>4. CompactOk'
    BY <2>1, <2>2, <2>3 DEF CompactOk, IsBuilt, OptsAt
  <2>5. LedgerOk' /\ MapOk' /\ CompactMapOk'
    BY <2>2, <2>3, OkKept DEF BuildFiles
  <2>6. HeldOk'
    BY <2>3, IdleFacts, HeldKept DEF BuildKinds, LedgerSteps
  <2> QED
    BY <2>3, <2>4, <2>5, <2>6 DEF BuildInv
<1> QED
  BY <1>1, <1>2, FailsBuild

(* The map is written from what the same build has read, with the ledger it
   found. *)
LEMMA BuildWriteMap == ASSUME IInv, BuildInv, WriteMap PROVE BuildInv'
<1> DEFINE m == BuiltMap
           a == FitFull(m, opts.maxMap)
           next == [job EXCEPT !.step = "compactMap", !.held = m]
<1>1. /\ ReadyFor("liveness")
      /\ Fails \/ (m # NoFile /\ Writes("map", a, m) /\ Goes(next))
  BY DEF WriteMap
<1>2. CASE m # NoFile /\ Writes("map", a, m) /\ Goes(next)
  <2>1. job.kind = "liveness" /\ At("reading")
    BY <1>1 DEF ReadyFor, At
  <2>2. IsRead(job.read) /\ job.now \in Nat /\ GoodLedger(job.held) /\ opts \in OptionSets
    BY <2>1 DEF BuildInv, HeldOk, BuildKinds, IInv, TypeOK
  <2>3. GoodMap(m, job.read)
    BY <1>2, <2>2, MapFacts DEF BuiltMap
  <2> HIDE DEF m
  <2>4. /\ disk'["map"] = a
        /\ basis'["map"] = [log |-> job.read, now |-> job.now, of |-> m]
        /\ \A f \in BuildFiles \ {"map"} : disk'[f] = disk[f] /\ basis'[f] = basis[f]
    BY <1>2, BuildWrites DEF BuildFiles
  <2>5. opts' = opts /\ log' = log /\ job' = next
    BY <1>2 DEF Goes, Untouched
  <2>6. /\ job'.kind = "liveness" /\ job'.step = "compactMap" /\ job'.held = m
        /\ job'.read = job.read
    BY <2>1, <2>5, GoesFacts DEF Steps
  <2>7. MapOk'
    BY <2>3, <2>4, <2>5 DEF MapOk, GoodMap, SignedPosters
  <2>8. LedgerOk' /\ CompactOk' /\ CompactMapOk'
    BY <2>4, <2>5, OkKept DEF BuildFiles
  <2>9. HeldOk'
    BY <2>3, <2>5, <2>6 DEF HeldOk, At, LedgerSteps, BuildKinds, GoodMap, SignedPosters
  <2> QED
    BY <2>5, <2>7, <2>8, <2>9 DEF BuildInv
<1> QED
  BY <1>1, <1>2, FailsBuild

(* The compact map is fitted from the map of the same build. *)
LEMMA BuildWriteCompactMap == ASSUME IInv, BuildInv, WriteCompactMap PROVE BuildInv'
<1> DEFINE a == FitCompactMap(job.held, opts.maxCompactMap)
<1>1. /\ At("compactMap")
      /\ Fails \/ (a # NoFile /\ Writes("compactMap", a, job.held) /\ Goes(Idle))
  BY DEF WriteCompactMap
<1>2. CASE a # NoFile /\ Writes("compactMap", a, job.held) /\ Goes(Idle)
  <2>1. PICK m, read : m = job.held /\ read = job.read /\ GoodMap(m, read)
    BY <1>1 DEF BuildInv, HeldOk
  <2>2. /\ disk'["compactMap"] = a
        /\ a = FitCompactMap(m, opts.maxCompactMap)
        /\ basis'["compactMap"] = [log |-> read, now |-> job.now, of |-> m]
        /\ \A f \in BuildFiles \ {"compactMap"} : disk'[f] = disk[f] /\ basis'[f] = basis[f]
    BY <1>2, <2>1, BuildWrites DEF BuildFiles
  <2>3. opts' = opts /\ log' = log /\ job' = Idle
    BY <1>2 DEF Goes, Untouched
  <2>4. CompactMapOk'
    <3>1. /\ disk'.compactMap = FitCompactMap(m, opts'.maxCompactMap)
          /\ basis'.compactMap.of = m /\ basis'.compactMap.log = read
      BY <2>2, <2>3
    <3>2. GoodMap(m, read)'
      BY <2>1, <2>3 DEF GoodMap, SignedPosters
    <3> QED
      BY <3>1, <3>2 DEF CompactMapOk
  <2>5. LedgerOk' /\ CompactOk' /\ MapOk'
    BY <2>2, <2>3, OkKept DEF BuildFiles
  <2>6. HeldOk'
    BY <2>3, IdleFacts, HeldKept DEF BuildKinds, LedgerSteps
  <2> QED
    BY <2>3, <2>4, <2>5, <2>6 DEF BuildInv
<1> QED
  BY <1>1, <1>2, FailsBuild

LEMMA BuildKill == ASSUME IInv, BuildInv, Kill PROVE BuildInv'
<1>1. job' = Idle /\ basis' = basis /\ Untouched /\ CutShort
  BY DEF Kill
<1>2. \/ disk' = disk
      \/ \E f \in FreezeFiles : \E x : disk' = [disk EXCEPT ![f] = x]
  <2>1. CutShort
    BY <1>1
  <2> QED
    BY <2>1 DEF CutShort, FreezeFiles
<1>3. KeepsFiles(BuildFiles)
  BY <1>1, <1>2, NumbersKept DEF KeepsFiles, BuildFiles, FreezeFiles, Outputs
<1> QED
  BY <1>1, <1>3, ToIdle

LEMMA InitBuild == Init => BuildInv
<1> SUFFICES ASSUME Init PROVE BuildInv
  OBVIOUS
<1>1. IsRead(log)
  <2>1. log \in InitLogs
    BY DEF Init
  <2> QED
    BY <2>1, OperatorAssumption, SizesAssumption DEF IsRead, IsLog
<1>2. \A f \in Outputs : disk[f] = NoFile
  BY DEF Init
<1>3. job = Idle
  BY DEF Init
<1> QED
  BY <1>1, <1>2, <1>3, IdleFacts
     DEF BuildInv, HeldOk, LedgerOk, CompactOk, MapOk, CompactMapOk, At, LedgerSteps, BuildKinds, Outputs

LEMMA NextBuild == IInv /\ BuildInv /\ [Next]_vars => BuildInv'
<1> SUFFICES ASSUME IInv, BuildInv, [Next]_vars PROVE BuildInv'
  OBVIOUS
<1>1. CASE \E room \in DOMAIN log, message \in Feed : Poll(room, message)
  BY <1>1, BuildPoll
<1>2. CASE \E change \in Changes : Index(change)
  BY <1>2, BuildIndex
<1>3. CASE ReadRoom \/ StartLedger \/ StartLiveness
  BY <1>3, BuildRead, BuildStartLedger, BuildStartLiveness
<1>4. CASE WriteLedger \/ WriteCompact \/ WriteMap \/ WriteCompactMap
  BY <1>4, BuildWriteLedger, BuildWriteCompact, BuildWriteMap, BuildWriteCompactMap
<1>5. CASE StageShards \/ ClearOldShards \/ RetireShards \/ InstallShards \/ DropOldShards
  BY <1>5, BuildSwaps
<1>6. CASE StartFreeze \/ StartExtract \/ StartPublish \/ StartLexical
  BY <1>6, OtherStarts
<1>7. CASE \/ WriteArchive \/ WriteManifest \/ ExtractFile \/ HashDatabase \/ WriteManifestJson
           \/ WriteSurface \/ WriteLexical \/ ReadLexicalDocs \/ WriteLexicalAlone
  BY <1>7, OtherCommands
<1>8. CASE Kill
  BY <1>8, BuildKill
<1>9. CASE UNCHANGED vars
  <2>1. UNCHANGED <<opts, log, job, disk, basis>>
    BY <1>9 DEF vars
  <2>2. HeldOk' /\ IsRead(log)' /\ KeepsFiles(BuildFiles)
    BY <2>1, HeldKept DEF BuildInv, KeepsFiles
  <2> QED
    BY <2>1, <2>2, BuildFilesKept
<1> QED
  BY <1>1, <1>2, <1>3, <1>4, <1>5, <1>6, <1>7, <1>8, <1>9 DEF Next

(* Whoever appends meanwhile and wherever a build is killed, every file of a
   build holds what was computed of the rows its command read, and of those
   alone: the ledger and its compact form of one ledger of them, a map of a
   map in which every signed poster is accounted for. *)
THEOREM BuildsKeepTheirBasis == Spec => []BuildInv
<1>1. Init => BuildInv
  BY InitBuild
<1>2. IInv /\ BuildInv /\ [Next]_vars => BuildInv'
  BY NextBuild
<1> QED
  BY Invariance, <1>1, <1>2, PTL DEF Spec

(* The two liveness maps say the same, and say it completely, for any log,
   ledger and limits: see LivenessFaithful.  liveness.build may read a ledger
   older than the log, and either map may be cut or be refused. *)
THEOREM LivenessMapsAreFaithful == Spec => []LivenessFaithful
<1>1. IInv /\ BuildInv => LivenessFaithful
  BY LivenessHolds DEF BuildInv, IInv, TypeOK
<1> QED
  BY Invariance, BuildsKeepTheirBasis, <1>1, PTL

-----------------------------------------------------------------------------
(* The ledger: its facts, its rows and its compact form. *)

(* The steps of _group_bursts. *)
RunFrom(firstSeen, window, i) ==
    {j \in i..Len(firstSeen) : firstSeen[j][1] - firstSeen[i][1] <= window}
GroupStep(firstSeen, window, minNew, acc, i) ==
    IF i < acc.next \/ Cardinality(RunFrom(firstSeen, window, i)) < minNew
      THEN acc
      ELSE [next   |-> Max(RunFrom(firstSeen, window, i)) + 1,
            groups |-> Append(acc.groups, RunFrom(firstSeen, window, i))]
AreGroupSteps(scan, firstSeen, window, minNew) ==
    LET n == Len(firstSeen)
    IN  /\ scan[0] = [next |-> 1, groups |-> << >>]
        /\ \A i \in 1..n : scan[i] = GroupStep(firstSeen, window, minNew, scan[i - 1], i)
        /\ \A i \in 0..n : scan[i].groups \in Seq(SUBSET (1..n))

LEMMA GroupSteps ==
    ASSUME NEW firstSeen, Len(firstSeen) \in Nat, NEW window, NEW minNew
    PROVE  \E scan : /\ AreGroupSteps(scan, firstSeen, window, minNew)
                     /\ GroupBursts(firstSeen, window, minNew) = scan[Len(firstSeen)].groups
<1> DEFINE n == Len(firstSeen)
           Run(i) == RunFrom(firstSeen, window, i)
           Scan(acc, i) == GroupStep(firstSeen, window, minNew, acc, i)
           X == [next : {1} \cup {Max(Run(i)) + 1 : i \in 1..n}, groups : Seq(SUBSET (1..n))]
           a == [next |-> 1, groups |-> << >>]
           g == [i \in 1..n |-> [acc \in X |-> Scan(acc, i)]]
           F(h) == [i \in 0..n |-> IF i = 0 THEN a ELSE Scan(h[i - 1], i)]
           scan == CHOOSE h : h = F(h)
<1>1. GroupBursts(firstSeen, window, minNew) = scan[n].groups
  BY DEF GroupBursts, GroupStep, RunFrom
<1>2. ASSUME NEW acc \in X, NEW i \in 1..n PROVE Scan(acc, i) \in X
  <2>1. Run(i) \in SUBSET (1..n)
    BY DEF RunFrom
  <2> HIDE DEF Run
  <2>2. Append(acc.groups, Run(i)) \in Seq(SUBSET (1..n))
    BY <2>1, AppendProperties
  <2>3. Max(Run(i)) + 1 \in {Max(Run(j)) + 1 : j \in 1..n}
    OBVIOUS
  <2>4. Scan(acc, i) \in {acc, [next |-> Max(Run(i)) + 1, groups |-> Append(acc.groups, Run(i))]}
    BY DEF GroupStep, Run
  <2>5. [next |-> Max(Run(i)) + 1, groups |-> Append(acc.groups, Run(i))] \in X
    BY <2>2, <2>3
  <2> HIDE DEF Scan, X
  <2> QED
    BY <2>4, <2>5
<1>3. \E h : h = F(h)
  <2>1. g \in [1..n -> [X -> X]]
    <3> HIDE DEF Scan, X
    <3> QED
      BY <1>2
  <2>2. a \in X
    <3>1. << >> \in Seq(SUBSET (1..n))
      BY EmptySeq
    <3> QED
      BY <3>1
  <2> HIDE DEF g, a, X
  <2>3. PICK h : IsIteration(h, n, X, a, g)
    BY <2>1, <2>2, IterationExists
  <2>4. h \in [0..n -> X] /\ h[0] = a /\ \A i \in 1..n : h[i] = g[i][h[i - 1]]
    BY <2>3 DEF IsIteration
  <2> HIDE DEF Scan
  <2>5. \A i \in 0..n : h[i] = IF i = 0 THEN a ELSE Scan(h[i - 1], i)
    <3> SUFFICES ASSUME NEW i \in 1..n PROVE h[i] = Scan(h[i - 1], i)
      BY <2>4
    <3>1. h[i - 1] \in X
      BY <2>4
    <3> QED
      BY <2>4, <3>1 DEF g
  <2>6. h = F(h)
    BY <2>4, <2>5
  <2> QED
    BY <2>6
<1>4. scan = F(scan)
  <2> HIDE DEF F
  <2> QED
    BY <1>3
<1> HIDE DEF scan, Scan
<1>5. scan[0] = a /\ \A i \in 1..n : scan[i] = Scan(scan[i - 1], i)
  BY <1>4
<1> DEFINE T == {i \in 0..n : scan[i] \in X}
<1>6. 0 \in T
  <2>1. << >> \in Seq(SUBSET (1..n))
    BY EmptySeq
  <2>2. a \in X /\ 0 \in 0..n
    BY <2>1
  <2> HIDE DEF X, a
  <2> QED
    BY <1>5, <2>2
<1>7. ASSUME NEW i \in 1..n, i - 1 \in T PROVE i \in T
  <2> HIDE DEF X
  <2> QED
    BY <1>2, <1>5, <1>7
<1>8. 0..n \subseteq T
  <2> HIDE DEF T
  <2> QED
    BY <1>6, <1>7, CountingUp
<1>9. \A i \in 0..n : scan[i].groups \in Seq(SUBSET (1..n))
  BY <1>8
<1>10. AreGroupSteps(scan, firstSeen, window, minNew)
  BY <1>5, <1>9 DEF AreGroupSteps, Scan
<1> QED
  BY <1>1, <1>10

(* The groups of first posts are sets of their positions. *)
LEMMA GroupsFacts ==
    ASSUME NEW firstSeen, Len(firstSeen) \in Nat, NEW window, NEW minNew
    PROVE  GroupBursts(firstSeen, window, minNew) \in Seq(SUBSET (1..Len(firstSeen)))
BY GroupSteps DEF AreGroupSteps

(* A sorted set has a length, whatever the order. *)
LEMMA SortedHasLength ==
    ASSUME NEW S, Cardinality(S) \in Nat, NEW before
    PROVE  Len(SortedBy(S, before)) \in Nat
<1> DEFINE n == Cardinality(S)
           Place(i) == CHOOSE x \in S : Cardinality({y \in S : <<y, x>> \in before}) = i - 1
           T == {Place(i) : i \in 1..n}
<1>1. SortedBy(S, before) = [i \in 1..n |-> Place(i)]
  BY DEF SortedBy
<1> HIDE DEF Place, n
<1>2. n \in Nat /\ [i \in 1..n |-> Place(i)] \in [1..n -> T]
  BY DEF n
<1> HIDE DEF T
<1>3. [i \in 1..n |-> Place(i)] \in Seq(T)
  BY <1>2
<1> QED
  BY <1>1, <1>3, LenProperties

(* A burst is named by a number, or there is none. *)
LEMMA BurstIds ==
    ASSUME NEW posts, AreRows(posts), NEW window, NEW minNew, NEW d
    PROVE  LET id == BurstIdOf(d, Bursts(posts, window, minNew))
           IN  id = NoBurst \/ id \in Nat
<1> DEFINE f == [e \in SendersOf(posts) |-> <<FirstPost(PostsOf(posts, e)).ts, e>>]
           firsts == {<<FirstPost(PostsOf(posts, e)).ts, e>> : e \in SendersOf(posts)}
           before == {p \in firsts \X firsts :
                        p[1][1] < p[2][1] \/ (p[1][1] = p[2][1] /\ p[1][2] < p[2][2])}
           s == SortedBy(firsts, before)
           groups == GroupBursts(s, window, minNew)
           bursts == Bursts(posts, window, minNew)
<1>1. Cardinality(firsts) \in Nat
  <2>1. firsts = {f[e] : e \in SendersOf(posts)}
    OBVIOUS
  <2>2. IsFiniteSet(SendersOf(posts))
    BY SendersFacts DEF AreRows
  <2> HIDE DEF f, firsts
  <2> QED
    BY <2>1, <2>2, ImageFacts
<1>2. Len(s) \in Nat
  <2> HIDE DEF firsts, before
  <2> QED
    BY <1>1, SortedHasLength
<1>3. DOMAIN bursts = DOMAIN groups
  BY DEF Bursts
<1> HIDE DEF s, bursts
<1>4. groups \in Seq(SUBSET (1..Len(s)))
  BY <1>2, GroupsFacts
<1> HIDE DEF groups
<1>5. DOMAIN bursts \subseteq 1..Len(groups) /\ Len(groups) \in Nat
  BY <1>3, <1>4, LenProperties
<1> QED
  BY <1>5 DEF BurstIdOf, bursts

(* The suffixes that a mention may name are finitely many. *)
LEMMA SuffixesFinite ==
    ASSUME NEW dids, IsFiniteSet(dids)
    PROVE  /\ IsFiniteSet(AllSuffixes(dids)) /\ IsFiniteSet(Ambiguous(dids))
           /\ IsFiniteSet(DOMAIN Known(dids))
<1> DEFINE f == [d \in dids |-> SuffixesOf(d)]
           sets == {SuffixesOf(d) : d \in dids}
<1>1. sets = {f[d] : d \in dids}
  OBVIOUS
<1>2. \A X \in sets : IsFiniteSet(X)
  <2>1. \A d : IsFiniteSet({Suffix8[d]}) /\ SuffixesOf(d) = {Suffix8[d]} \cup {Suffix4[d]}
    BY FS_Singleton DEF SuffixesOf
  <2>2. \A d : IsFiniteSet(SuffixesOf(d))
    BY <2>1, FS_AddElement
  <2> QED
    BY <2>2
<1> HIDE DEF f, sets
<1>3. IsFiniteSet(UNION sets)
  <2>1. IsFiniteSet(sets)
    BY <1>1, ImageFacts
  <2> QED
    BY <1>2, <2>1, FS_UNION
<1>4. AllSuffixes(dids) = UNION sets
  BY DEF AllSuffixes, sets
<1>5. Ambiguous(dids) \subseteq AllSuffixes(dids)
  BY DEF Ambiguous
<1>6. DOMAIN Known(dids) \subseteq AllSuffixes(dids)
  BY DEF Known
<1> QED
  BY <1>3, <1>4, <1>5, <1>6, FS_Subset

(* A post mentions finitely many senders. *)
LEMMA MentionsFinite ==
    ASSUME NEW p, p.text \in DOMAIN Attr, NEW known, IsFiniteSet(DOMAIN known)
    PROVE  IsFiniteSet(Mentions(p, known))
<1> DEFINE in == (Attr[p.text].at \cup Attr[p.text].abbr) \cap DOMAIN known
           found == {known[s] : s \in in}
<1>1. IsFiniteSet(in)
  BY FS_Subset
<1>2. Mentions(p, known) = (Attr[p.text].dids \cup found) \ {p.sender}
  BY DEF Mentions, MentionTargets, Resolved
<1> HIDE DEF in
<1>3. IsFiniteSet(found)
  BY <1>1, ImageFacts
<1>4. IsFiniteSet(Attr[p.text].dids)
  BY AttrAssumption
<1> HIDE DEF found
<1>5. IsFiniteSet(Attr[p.text].dids \cup found)
  BY <1>3, <1>4, FS_Union
<1> QED
  BY <1>2, <1>5, FS_Subset

(* Every post of a DID, and so of the mentions in them. *)
LEMMA MentionedFinite ==
    ASSUME NEW posts, AreRows(posts), NEW known, IsFiniteSet(DOMAIN known)
    PROVE  IsFiniteSet(UNION {Mentions(p, known) : p \in posts})
<1> DEFINE f == [p \in posts |-> Mentions(p, known)]
           sets == {Mentions(p, known) : p \in posts}
<1>1. sets = {f[p] : p \in posts}
  OBVIOUS
<1>2. \A X \in sets : IsFiniteSet(X)
  BY MentionsFinite DEF AreRows
<1>3. IsFiniteSet(sets)
  <2> HIDE DEF f, sets
  <2> QED
    BY <1>1, ImageFacts DEF AreRows
<1> QED
  BY <1>2, <1>3, FS_UNION

(* Inbound mentions are counted from one on, of finitely many senders. *)
LEMMA InboundFacts ==
    ASSUME NEW posts, AreRows(posts), NEW did, NEW known
    PROVE  /\ IsFiniteSet(DOMAIN Inbound(posts, did, known))
           /\ \A from \in DOMAIN Inbound(posts, did, known) : Inbound(posts, did, known)[from] >= 1
<1> DEFINE mentioning == {p \in posts : did \in Mentions(p, known)}
<1>1. IsFiniteSet(mentioning)
  BY PartFacts DEF AreRows
<1>2. Inbound(posts, did, known)
        = [from \in SendersOf(mentioning) |-> Cardinality(PostsOf(mentioning, from))]
  BY DEF Inbound
<1> HIDE DEF mentioning
<1>3. ASSUME NEW from \in SendersOf(mentioning) PROVE Cardinality(PostsOf(mentioning, from)) >= 1
  <2>1. PostsOf(mentioning, from) # {} /\ PostsOf(mentioning, from) \subseteq mentioning
    BY DEF SendersOf, PostsOf
  <2>2. IsFiniteSet(PostsOf(mentioning, from)) /\ Cardinality(PostsOf(mentioning, from)) \in Nat
    BY <1>1, <2>1, PartFacts
  <2>3. Cardinality(PostsOf(mentioning, from)) # 0
    BY <2>1, <2>2, FS_EmptySet
  <2> QED
    BY <2>2, <2>3
<1>4. IsFiniteSet(SendersOf(mentioning))
  BY <1>1, SendersFacts
<1> QED
  BY <1>2, <1>3, <1>4

(* Mentions that resolve to nobody are counted. *)
LEMMA UnresolvedFacts ==
    ASSUME NEW posts, AreRows(posts), NEW ambiguous, IsFiniteSet(ambiguous)
    PROVE  Unresolved(posts, ambiguous) \in Nat
<1> DEFINE Of(p) == (Attr[p.text].at \cup Attr[p.text].abbr) \cap ambiguous
           w == [p \in posts |-> Cardinality(Of(p))]
<1>1. \A p \in posts : Cardinality(Of(p)) \in Nat
  BY PartFacts
<1>2. Unresolved(posts, ambiguous) = SumFunctionOnSet(w, posts)
  BY DEF Unresolved, SumFunction
<1>3. \A p \in posts : w[p] \in Nat
  BY <1>1
<1> HIDE DEF w
<1> QED
  BY <1>2, <1>3, SumSteps DEF AreRows

(* The rate of a sender is a count. *)
LEMMA PerMinuteFacts ==
    ASSUME NEW posts, AreRows(posts), posts # {}
    PROVE  MaxPostsPerMinute(posts) \in Nat
<1> DEFINE Window(p) == {q \in posts : q.ts \in (p.ts - RateWindow)..p.ts}
           counts == {Cardinality(Window(p)) : p \in posts}
           f == [p \in posts |-> Cardinality(Window(p))]
<1>1. \A p \in posts : Cardinality(Window(p)) \in Nat
  BY PartFacts DEF AreRows
<1>2. counts = {f[p] : p \in posts}
  OBVIOUS
<1>3. counts # {} /\ counts \subseteq Nat
  BY <1>1
<1>4. MaxPostsPerMinute(posts) = Max(counts)
  BY DEF MaxPostsPerMinute
<1> HIDE DEF counts, f
<1>5. IsFiniteSet(counts)
  BY <1>2, ImageFacts DEF AreRows
<1> QED
  BY <1>3, <1>4, <1>5, MaxIsNat

GoodFacts(f) ==
    /\ ValidDidFacts(f)
    /\ f.posts \in Nat /\ f.perMinute \in Nat
    /\ IsFiniteSet(f.outbound) /\ IsFiniteSet(DOMAIN f.inbound)

(* The facts of every sender pass the checks of DidFacts. *)
LEMMA AllFacts ==
    ASSUME NEW posts, AreRows(posts), NEW notes, NEW window, NEW minNew, NEW d \in SendersOf(posts)
    PROVE  GoodFacts(BuildFacts(posts, notes, window, minNew)[d])
<1> DEFINE own == PostsOf(posts, d)
           known == Known(SendersOf(posts))
           ambiguous == Ambiguous(SendersOf(posts))
           f == BuildFacts(posts, notes, window, minNew)[d]
<1>1. /\ f.firstSeen.seq = FirstPost(own).seq
      /\ f.posts = Cardinality(own) /\ f.texts = Cardinality(TextsOf(own))
      /\ f.outbound = UNION {Mentions(p, known) : p \in own}
      /\ f.inbound = Inbound(posts, d, known)
      /\ f.unresolved = Unresolved(own, ambiguous)
      /\ f.burstId = BurstIdOf(d, Bursts(posts, window, minNew))
      /\ f.perMinute = MaxPostsPerMinute(own)
  BY DEF BuildFacts
<1> HIDE DEF f
<1>2. own \subseteq posts /\ own # {}
  BY DEF PostsOf, SendersOf
<1>3. IsFiniteSet(DOMAIN known) /\ IsFiniteSet(ambiguous)
  <2>1. IsFiniteSet(SendersOf(posts))
    BY SendersFacts DEF AreRows
  <2> QED
    BY <2>1, SuffixesFinite
<1> HIDE DEF own, known, ambiguous
<1>4. AreRows(own)
  BY <1>2, PartFacts DEF AreRows
<1>5. f.posts \in Nat /\ f.posts >= 1
  <2>1. IsFiniteSet(own) /\ Cardinality(own) \in Nat
    BY <1>4, FS_CardinalityType DEF AreRows
  <2>2. Cardinality(own) # 0
    BY <1>2, <2>1, FS_EmptySet
  <2> QED
    BY <1>1, <2>1, <2>2
<1>6. f.texts \in 0..f.posts
  <2>1. /\ Cardinality(TextsOf(own)) <= Cardinality(own)
        /\ Cardinality(TextsOf(own)) \in Nat /\ Cardinality(own) \in Nat
    BY <1>4, SendersFacts DEF AreRows
  <2> QED
    BY <1>1, <2>1
<1>7. f.firstSeen.seq \in Nat
  <2>1. FirstPost(own) \in own
    BY <1>2, <1>4, FirstPostFacts
  <2> QED
    BY <1>1, <1>4, <2>1 DEF AreRows
<1>8. f.unresolved \in Nat /\ f.perMinute \in Nat
  BY <1>1, <1>2, <1>3, <1>4, UnresolvedFacts, PerMinuteFacts
<1>9. f.burstId = NoBurst \/ f.burstId \in Nat
  BY <1>1, BurstIds
<1>10. IsFiniteSet(f.outbound)
  BY <1>1, <1>3, <1>4, MentionedFinite
<1>11. IsFiniteSet(DOMAIN f.inbound) /\ \A from \in DOMAIN f.inbound : f.inbound[from] >= 1
  BY <1>1, InboundFacts
<1>12. ValidDidFacts(f)
  BY <1>5, <1>6, <1>7, <1>8, <1>9, <1>11 DEF ValidDidFacts
<1> QED
  BY <1>5, <1>8, <1>10, <1>11, <1>12 DEF GoodFacts, f

(* A row of a ledger, and a ledger, as build_ledger leaves them. *)
GoodRow(row, d) ==
    /\ ValidRow(row) /\ row.facts.did = d
    /\ row.facts.posts \in Nat /\ row.facts.perMinute \in Nat
    /\ row.score.burst \in BOOLEAN
    /\ RowSize(row) \in Nat

SoundLedger(ledger) ==
    /\ IsLastSeen(LastSeenOf(ledger))
    /\ ledger.dids = Cardinality(DOMAIN ledger.rows)
    /\ Counts(HeaderOf(ledger))
    /\ \A d \in DOMAIN ledger.rows : GoodRow(ledger.rows[d], d)

(* The posts a build loads are rows, no more than the lines. *)
LEMMA PostsAreRows ==
    ASSUME NEW read, IsRead(read), NEW scope
    PROVE  LET posts == LoadPosts(read, scope)
           IN  /\ AreRows(posts) /\ Cardinality(posts) \in Nat
               /\ Cardinality(posts) <= Cardinality(LinesOf(read, scope))
               /\ Cardinality(LinesOf(read, scope)) \in Nat
<1> DEFINE rows == LoadRows(read, scope)
           posts == LoadPosts(read, scope)
<1>1. /\ AreRows(rows) /\ posts = {r \in rows : r.signed}
      /\ Cardinality(rows) <= Cardinality(LinesOf(read, scope))
      /\ Cardinality(LinesOf(read, scope)) \in Nat
  BY RowsFacts
<1> HIDE DEF rows, posts
<1>2. IsFiniteSet(posts) /\ posts \subseteq rows /\ Cardinality(posts) <= Cardinality(rows)
      /\ Cardinality(posts) \in Nat /\ Cardinality(rows) \in Nat
  BY <1>1, PartFacts DEF AreRows
<1>3. AreRows(posts)
  BY <1>1, <1>2 DEF AreRows
<1> QED
  BY <1>1, <1>2, <1>3 DEF posts

(* Facts and score make a row that its own checks and the loader accept. *)
LEMMA RowIsGood ==
    ASSUME NEW facts, GoodFacts(facts), NEW all, NEW now, NEW perMinute
    PROVE  LET row == [facts |-> facts, score |-> ScoreDid(facts, all, now, perMinute)]
           IN  GoodRow(row, facts.did)
<1> DEFINE score == ScoreDid(facts, all, now, perMinute)
           row == [facts |-> facts, score |-> score]
           burst == IsBurstMember(facts, perMinute)
<1>1. score.did = facts.did /\ score.burst = burst /\ (burst => score.score = 0)
  BY DEF ScoreDid, ScoreFromFacts
<1>2. burst \in BOOLEAN
  BY DEF IsBurstMember
<1>3. row.facts = facts /\ row.score = score
  OBVIOUS
<1> HIDE DEF row, score, burst
<1>4. ValidRow(row)
  BY <1>1, <1>2, <1>3 DEF ValidRow, ValidScore, GoodFacts
<1>5. RowSize(row) \in Nat
  <2>1. Cardinality(facts.outbound) \in Nat /\ Cardinality(DOMAIN facts.inbound) \in Nat
    BY FS_CardinalityType DEF GoodFacts
  <2>2. RowBytes \in Nat
    BY SizesAssumption
  <2> QED
    BY <1>3, <2>1, <2>2 DEF RowSize
<1>6. GoodRow(row, facts.did)
  BY <1>1, <1>2, <1>3, <1>4, <1>5 DEF GoodRow, GoodFacts
<1> QED
  BY <1>6 DEF row, score

(* A ledger that a build returns is sound: every row is one the loader
   accepts, under its own identifier, and the counts agree with the rows. *)
LEMMA BuiltIsSound ==
    ASSUME NEW read, IsRead(read), NEW o
    PROVE  SoundLedger(BuildLedger(read, o))
<1> DEFINE posts == LoadPosts(read, o.rooms)
           D == SendersOf(posts)
           facts == BuildFacts(posts, LoadDidNotes(o.notes), o.window, o.minNew)
           ids == {facts[d].burstId : d \in D}
           L == BuildLedger(read, o)
<1>1. /\ AreRows(posts) /\ Cardinality(posts) \in Nat
      /\ Cardinality(posts) <= Cardinality(LinesOf(read, o.rooms))
      /\ Cardinality(LinesOf(read, o.rooms)) \in Nat
  BY PostsAreRows
<1>2. /\ DOMAIN L.rows = D /\ L.dids = Cardinality(D) /\ IsFiniteSet(D) /\ D \subseteq Nat
      /\ \A d \in D : L.rows[d].facts.did = d /\ L.rows[d].facts.lastSeen \in Nat
  BY BuiltFacts
<1>3. DOMAIN facts = D
  BY DEF BuildFacts
<1>4. \A d \in D : GoodFacts(facts[d])
  BY <1>1, AllFacts
<1> HIDE DEF facts
<1>5. /\ L.posts = Cardinality(posts) /\ L.logRows = Cardinality(LinesOf(read, o.rooms))
      /\ L.bursts = Cardinality(ids \ {NoBurst})
      /\ \A d \in D : L.rows[d] = [facts |-> facts[d],
                                   score |-> ScoreDid(facts[d], facts, o.now, o.perMinute)]
  BY <1>3 DEF BuildLedger, LoadReport, facts
<1>6. Cardinality(D) <= Cardinality(posts) /\ Cardinality(D) \in Nat
  BY <1>1, SendersFacts DEF AreRows
<1> HIDE DEF posts, D, L
<1>7. L.bursts <= L.dids
  <2> DEFINE f == [d \in D |-> facts[d].burstId]
  <2>1. ids = {f[d] : d \in D}
    OBVIOUS
  <2> HIDE DEF f, ids
  <2>2. IsFiniteSet(ids) /\ Cardinality(ids) <= Cardinality(D) /\ Cardinality(ids) \in Nat
    <3>1. IsFiniteSet(D)
      BY <1>2
    <3> QED
      BY ONLY <2>1, <3>1, ImageFacts
  <2>3. Cardinality(ids \ {NoBurst}) <= Cardinality(ids) /\ Cardinality(ids \ {NoBurst}) \in Nat
    BY <2>2, PartFacts
  <2> QED
    BY <1>2, <1>5, <1>6, <2>2, <2>3
<1>8. Counts(HeaderOf(L))
  <2>1. L.posts <= L.logRows /\ L.dids <= L.posts
    BY <1>1, <1>2, <1>5, <1>6
  <2> QED
    BY <1>7, <2>1 DEF Counts, HeaderOf
<1>9. ASSUME NEW d \in D PROVE GoodRow(L.rows[d], d)
  <2>1. L.rows[d] = [facts |-> facts[d], score |-> ScoreDid(facts[d], facts, o.now, o.perMinute)]
    BY <1>5
  <2>2. facts[d].did = d
    BY <1>2, <2>1
  <2> QED
    BY <1>4, <2>1, <2>2, RowIsGood
<1>10. IsLastSeen(LastSeenOf(L))
  <2>1. DOMAIN LastSeenOf(L) = D /\ \A d \in D : LastSeenOf(L)[d] = L.rows[d].facts.lastSeen
    BY <1>2 DEF LastSeenOf
  <2>2. \A d \in D : d \in Nat /\ L.rows[d].facts.lastSeen \in Nat
    BY <1>2
  <2>3. \A x \in Nat : x \in Int
    OBVIOUS
  <2> QED
    BY <1>2, <2>1, <2>2, <2>3 DEF IsLastSeen
<1> QED
  BY <1>2, <1>8, <1>9, <1>10 DEF SoundLedger, L

(* Separators of more entries are not fewer. *)
LEMMA CommasGrow ==
    ASSUME NEW m \in Nat, NEW n \in Nat, m <= n
    PROVE  Commas(m) \in Nat /\ Commas(n) \in Nat /\ Commas(m) <= Commas(n)
<1>1. ASSUME NEW k \in Nat PROVE Commas(k) = IF k = 0 THEN 0 ELSE k - 1
  <2> DEFINE S == {k - 1} \cup {0}
  <2>1. S \subseteq Int /\ S # {} /\ \A x \in S : x = k - 1 \/ x = 0
    OBVIOUS
  <2>2. IsFiniteSet(S)
    <3>1. IsFiniteSet({k - 1})
      BY FS_Singleton
    <3> QED
      BY <3>1, FS_AddElement
  <2>3. Commas(k) = Max(S)
    <3>1. S = {k - 1, 0}
      OBVIOUS
    <3> QED
      BY <3>1 DEF Commas
  <2>4. k - 1 \in S /\ 0 \in S
    OBVIOUS
  <2> HIDE DEF S
  <2>5. Max(S) \in S /\ \A x \in S : x <= Max(S)
    BY <2>1, <2>2, MaxIsLargest
  <2>6. Max(S) = k - 1 \/ Max(S) = 0
    BY <2>1, <2>5
  <2>7. k - 1 <= Max(S) /\ 0 <= Max(S)
    BY <2>4, <2>5
  <2> QED
    BY <2>3, <2>6, <2>7
<1> QED
  BY <1>1

(* A compact form of more DIDs is no smaller. *)
LEMMA SizeGrows ==
    ASSUME NEW L, SoundLedger(L), NEW U, U \subseteq DOMAIN L.rows, NEW T, T \subseteq U,
           NEW s, NEW t, s = NoServed \/ t # NoServed
    PROVE  /\ CompactSize(CompactObj(L, T, s)) \in Nat
           /\ CompactSize(CompactObj(L, U, t)) \in Nat
           /\ CompactSize(CompactObj(L, T, s)) <= CompactSize(CompactObj(L, U, t))
<1> DEFINE D == DOMAIN L.rows
           w == [d \in D |-> RowSize(L.rows[d])]
           Burst(X) == {d \in X : L.rows[d].score.burst}
           ServedSize(x) == IF x = NoServed THEN 0 ELSE ServedBytes
           Rest(X) == X \ Burst(X)
           Sum(X) == SumFunctionOnSet(w, Rest(X))
           Marks(X) == BurstBytes * Cardinality(Burst(X))
           All(X, x) == HeaderBytes + ServedSize(x) + Sum(X) + Marks(X)
                           + Commas(Cardinality(Rest(X))) + Commas(Cardinality(Burst(X)))
<1>1. IsFiniteSet(D) /\ \A d \in D : RowSize(L.rows[d]) \in Nat
  BY DEF SoundLedger, IsLastSeen, LastSeenOf, GoodRow
<1>2. /\ HeaderBytes \in Nat /\ ServedBytes \in Nat /\ BurstBytes \in Nat
  BY SizesAssumption
<1>3. ASSUME NEW X \in SUBSET D, NEW x PROVE CompactSize(CompactObj(L, X, x)) = All(X, x)
  <2> DEFINE a == CompactObj(L, X, x)
             v == [d \in DOMAIN a.nonBurst |-> RowSize(a.nonBurst[d])]
  <2>1. /\ a.served = x /\ DOMAIN a.nonBurst = Rest(X) /\ DOMAIN a.burst = Burst(X)
        /\ \A d \in Rest(X) : a.nonBurst[d] = L.rows[d]
    BY DEF CompactObj
  <2>2. IsFiniteSet(Rest(X)) /\ Rest(X) \subseteq D
    BY <1>1, FS_Subset
  <2> HIDE DEF a
  <2>3. /\ DOMAIN v = Rest(X)
        /\ \A d \in Rest(X) : v[d] = w[d] /\ w[d] \in Nat
    BY <1>1, <2>1, <2>2
  <2> HIDE DEF v, w, Rest, Burst
  <2>4. SumFunction(v) = Sum(X)
    BY <2>2, <2>3, SumAgrees DEF SumFunction
  <2> QED
    BY <2>1, <2>4 DEF CompactSize, a, v
<1>4. ASSUME NEW A, NEW B, A \subseteq B, B \subseteq D
      PROVE  /\ SumFunctionOnSet(w, A) \in Nat /\ SumFunctionOnSet(w, B) \in Nat
             /\ SumFunctionOnSet(w, A) <= SumFunctionOnSet(w, B)
             /\ Cardinality(A) \in Nat /\ Cardinality(B) \in Nat /\ Cardinality(A) <= Cardinality(B)
             /\ Commas(Cardinality(A)) \in Nat /\ Commas(Cardinality(B)) \in Nat
             /\ Commas(Cardinality(A)) <= Commas(Cardinality(B))
  <2>1. IsFiniteSet(B)
    BY <1>1, <1>4, FS_Subset
  <2>2. \A d \in B : w[d] \in Nat
    BY <1>1, <1>4
  <2> HIDE DEF w, D
  <2>3. Cardinality(A) \in Nat /\ Cardinality(B) \in Nat /\ Cardinality(A) <= Cardinality(B)
    BY <1>4, <2>1, PartFacts
  <2> QED
    BY <1>4, <2>1, <2>2, <2>3, SumGrows, CommasGrow
<1>5. /\ Rest(T) \subseteq Rest(U) /\ Rest(U) \subseteq D
      /\ Burst(T) \subseteq Burst(U) /\ Burst(U) \subseteq D
      /\ T \in SUBSET D /\ U \in SUBSET D
  OBVIOUS
<1>6. Marks(T) \in Nat /\ Marks(U) \in Nat /\ Marks(T) <= Marks(U)
  <2>1. ASSUME NEW a \in Nat, NEW b \in Nat, a <= b
        PROVE  BurstBytes * a \in Nat /\ BurstBytes * b \in Nat /\ BurstBytes * a <= BurstBytes * b
    BY <1>2, <2>1
  <2> HIDE DEF Burst, D
  <2> QED
    BY <1>4, <1>5, <2>1
<1>7. ServedSize(s) \in Nat /\ ServedSize(t) \in Nat /\ ServedSize(s) <= ServedSize(t)
  BY <1>2
<1> HIDE DEF w, Burst, Rest, ServedSize, Marks, D
<1>8. /\ Sum(T) \in Nat /\ Sum(U) \in Nat /\ Sum(T) <= Sum(U)
      /\ Commas(Cardinality(Rest(T))) \in Nat /\ Commas(Cardinality(Rest(U))) \in Nat
      /\ Commas(Cardinality(Rest(T))) <= Commas(Cardinality(Rest(U)))
      /\ Commas(Cardinality(Burst(T))) \in Nat /\ Commas(Cardinality(Burst(U))) \in Nat
      /\ Commas(Cardinality(Burst(T))) <= Commas(Cardinality(Burst(U)))
  BY <1>4, <1>5
<1> HIDE DEF Sum
<1>9. All(T, s) \in Nat /\ All(U, t) \in Nat /\ All(T, s) <= All(U, t)
  BY <1>2, <1>6, <1>7, <1>8
<1> QED
  BY <1>3, <1>5, <1>9

(* The DIDs a compact form holds, and what it answers of them. *)
HeldBy(a) == DOMAIN a.nonBurst \cup DOMAIN a.burst

(* What a compact object holds is what was kept, split by burst. *)
LEMMA CompactForm ==
    ASSUME NEW L, SoundLedger(L), NEW T, T \subseteq DOMAIN L.rows, NEW s,
           IF s = NoServed THEN T = DOMAIN L.rows
           ELSE /\ T # DOMAIN L.rows /\ s.kept = Cardinality(T)
                /\ \A d \in T : LastSeenOf(L)[d] >= s.cutoff
    PROVE  LET a == CompactObj(L, T, s)
           IN  /\ HeldBy(a) = T /\ a.served = s
               /\ \A d \in DOMAIN a.nonBurst : ValidRow(a.nonBurst[d])
               /\ \A d \in DOMAIN a.burst : ValidBurst(a.burst[d])
               /\ CompactHolds(a)
<1> DEFINE D == DOMAIN L.rows
           burst == {d \in T : L.rows[d].score.burst}
           a == CompactObj(L, T, s)
<1>1. /\ DOMAIN a.nonBurst = T \ burst /\ DOMAIN a.burst = burst /\ a.served = s
      /\ a.header = HeaderOf(L)
      /\ \A d \in T \ burst : a.nonBurst[d] = L.rows[d]
      /\ \A d \in burst : a.burst[d] = BurstRecord(L.rows[d])
  BY DEF CompactObj
<1> HIDE DEF a
<1>2. HeldBy(a) = T
  BY <1>1 DEF HeldBy
<1>3. \A d \in T : GoodRow(L.rows[d], d)
  BY DEF SoundLedger
<1>4. ASSUME NEW d \in DOMAIN a.nonBurst PROVE ValidRow(a.nonBurst[d]) /\ a.nonBurst[d].facts.did = d
  BY <1>1, <1>3 DEF GoodRow
<1>5. ASSUME NEW d \in DOMAIN a.burst PROVE ValidBurst(a.burst[d])
  <2>1. GoodRow(L.rows[d], d) /\ a.burst[d] = BurstRecord(L.rows[d])
    BY <1>1, <1>3
  <2> QED
    BY <2>1 DEF ValidBurst, BurstRecord, GoodRow, ValidRow, ValidDidFacts
<1>6. /\ IsFiniteSet(D) /\ Cardinality(D) \in Nat /\ L.dids = Cardinality(D)
      /\ a.header.dids = Cardinality(D) /\ Counts(a.header)
  <2>1. IsFiniteSet(D) /\ L.dids = Cardinality(D) /\ Counts(HeaderOf(L))
    BY DEF SoundLedger, IsLastSeen, LastSeenOf
  <2> QED
    BY <1>1, <2>1, FS_CardinalityType DEF HeaderOf
<1>7. Cardinality(T \ burst) + Cardinality(burst) = Cardinality(T) /\ Cardinality(T) \in Nat
  <2>1. IsFiniteSet(T) /\ burst \subseteq T
    BY <1>6, FS_Subset
  <2> HIDE DEF burst
  <2>2. IsFiniteSet(burst) /\ IsFiniteSet(T \ burst)
    BY <2>1, FS_Subset
  <2>3. T = (T \ burst) \cup burst /\ (T \ burst) \cap burst = {}
    BY <2>1
  <2>4. Cardinality(T) = Cardinality(T \ burst) + Cardinality(burst) - Cardinality({})
    BY <2>2, <2>3, FS_Union
  <2>5. Cardinality(T \ burst) \in Nat /\ Cardinality(burst) \in Nat /\ Cardinality({}) = 0
    BY <2>2, FS_CardinalityType, FS_EmptySet
  <2> QED
    BY <2>4, <2>5
<1>8. ASSUME s # NoServed PROVE Cardinality(T) < Cardinality(D)
  <2>1. T \subseteq D /\ T # D
    BY <1>8
  <2>2. Cardinality(T) <= Cardinality(D) /\ (Cardinality(T) = Cardinality(D) => T = D)
    BY <1>6, <2>1, FS_Subset
  <2> QED
    BY <1>6, <1>7, <2>1, <2>2
<1>9. ASSUME s # NoServed, NEW d \in DOMAIN a.nonBurst PROVE a.nonBurst[d].facts.lastSeen >= s.cutoff
  <2>1. d \in T /\ LastSeenOf(L)[d] >= s.cutoff /\ a.nonBurst[d] = L.rows[d]
    BY <1>1, <1>9
  <2> QED
    BY <2>1 DEF LastSeenOf
<1>10. CompactHolds(a)
  <2> DEFINE held == Cardinality(DOMAIN a.nonBurst) + Cardinality(DOMAIN a.burst)
  <2>1. held = Cardinality(T)
    BY <1>1, <1>7
  <2>2. DOMAIN a.nonBurst \cap DOMAIN a.burst = {}
    BY <1>1
  <2> HIDE DEF held
  <2>3. IF a.served = NoServed
          THEN held = a.header.dids
          ELSE /\ held = a.served.kept /\ a.served.kept < a.header.dids
               /\ \A d \in DOMAIN a.nonBurst : a.nonBurst[d].facts.lastSeen >= a.served.cutoff
    BY <1>1, <1>6, <1>8, <1>9, <2>1
  <2> QED
    BY <1>4, <1>6, <2>2, <2>3 DEF CompactHolds, held
<1> QED
  BY <1>1, <1>2, <1>4, <1>5, <1>10 DEF a

(* A lookup finds exactly the identifiers kept, with the score and the burst
   of the full ledger. *)
LEMMA LookupFacts ==
    ASSUME NEW L, SoundLedger(L), NEW T, T \subseteq DOMAIN L.rows, NEW s, NEW d \in DOMAIN L.rows
    PROVE  LET answer == Lookup(CompactObj(L, T, s), d)
           IN  /\ answer.found <=> d \in T
               /\ answer.found => /\ answer.score = L.rows[d].score.score
                                  /\ answer.burst = L.rows[d].score.burst
               /\ answer.served = s
<1> DEFINE burst == {e \in T : L.rows[e].score.burst}
           a == CompactObj(L, T, s)
           answer == Lookup(a, d)
<1>1. /\ DOMAIN a.nonBurst = T \ burst /\ DOMAIN a.burst = burst /\ a.served = s
      /\ \A e \in T \ burst : a.nonBurst[e] = L.rows[e]
  BY DEF CompactObj
<1> HIDE DEF a
<1>2. ValidScore(L.rows[d].score) /\ L.rows[d].score.burst \in BOOLEAN
  BY DEF SoundLedger, GoodRow, ValidRow
<1>3. CASE d \in T \ burst
  <2>1. /\ answer.found = TRUE /\ answer.burst = FALSE /\ answer.score = L.rows[d].score.score
        /\ answer.served = s
    BY <1>1, <1>3 DEF Lookup
  <2> QED
    BY <1>2, <1>3, <2>1 DEF a
<1>4. CASE d \in burst
  <2>1. answer.found = TRUE /\ answer.burst = TRUE /\ answer.score = 0 /\ answer.served = s
    BY <1>1, <1>4 DEF Lookup
  <2> QED
    BY <1>2, <1>4, <2>1 DEF a, ValidScore
<1>5. CASE d \notin T
  <2>1. answer.found = FALSE /\ answer.served = s
    BY <1>1, <1>5 DEF Lookup
  <2> QED
    BY <1>5, <2>1 DEF a
<1> QED
  BY <1>3, <1>4, <1>5

(* What fitting cuts away has to go: no group of ties more would fit. *)
LEMMA CompactCut ==
    ASSUME NEW L, SoundLedger(L), NEW limit \in Nat, NEW a, a = FitCompact(L, limit), a # NoFile
    PROVE  LET lastSeen == LastSeenOf(L)
               ranked == Ranked(lastSeen)
               Prefix(k) == CompactObj(L, Newest(k, ranked), Served(k, ranked, lastSeen))
           IN  /\ CompactSize(a) <= limit
               /\ \/ a = CompactObj(L, DOMAIN L.rows, NoServed)
                  \/ \E k \in 1..Cardinality(DOMAIN L.rows) :
                        /\ k # Cardinality(DOMAIN L.rows) /\ Clean(k, ranked, lastSeen)
                        /\ a = Prefix(k)
                        /\ \A m \in k + 1..Cardinality(DOMAIN L.rows) :
                              Clean(m, ranked, lastSeen) => ~(CompactSize(Prefix(m)) <= limit)
<1> DEFINE D == DOMAIN L.rows
           n == Cardinality(D)
           lastSeen == LastSeenOf(L)
           ranked == Ranked(lastSeen)
           full == CompactObj(L, D, NoServed)
           Prefix(k) == CompactObj(L, Newest(k, ranked), Served(k, ranked, lastSeen))
           Size(k) == CompactSize(Prefix(k))
           fitting == {m \in DOMAIN ranked : Size(m) <= limit}
           j == LargestFit(Len(ranked), fitting)
           k == Boundary(j, ranked, lastSeen)
<1>1. IsLastSeen(lastSeen) /\ DOMAIN lastSeen = D
  BY DEF SoundLedger, LastSeenOf
<1>2. a = IF CompactSize(full) <= limit THEN full ELSE IF k = 0 THEN NoFile ELSE Prefix(k)
  BY DEF FitCompact
<1> HIDE DEF lastSeen
<1>3. n \in Nat /\ Len(ranked) = n /\ DOMAIN ranked = 1..n
  BY <1>1, RankedFacts
<1> HIDE DEF D
<1>4. \A m \in 1..n : Newest(m, ranked) \subseteq D /\ Served(m, ranked, lastSeen) # NoServed
  <2>1. ASSUME NEW m \in 1..n PROVE Newest(m, ranked) \subseteq D
    <3>1. m \in 0..Cardinality(DOMAIN lastSeen)
      BY <1>1, <1>3
    <3> HIDE DEF ranked
    <3> QED
      BY <1>1, <3>1, NewestFacts DEF ranked
  <2>2. ASSUME NEW m \in 1..n PROVE Served(m, ranked, lastSeen) # NoServed
    <3>1. Served(m, ranked, lastSeen).kept = m /\ NoServed.kept = 0 /\ m # 0
      BY DEF Served, NoServed
    <3> QED
      BY <3>1
  <2> QED
    BY <2>1, <2>2
<1>5. Newest(n, ranked) = D
  <2>1. n \in 0..Cardinality(DOMAIN lastSeen)
    BY <1>1, <1>3
  <2> QED
    BY <1>1, <2>1, NewestFacts
<1>6. ASSUME NEW l \in 1..n, NEW m \in 1..n, l <= m PROVE Size(l) \in Nat /\ Size(m) \in Nat /\ Size(l) <= Size(m)
  <2>1. Newest(l, ranked) \subseteq Newest(m, ranked)
    <3>1. 1..l \subseteq 1..m
      BY <1>6
    <3> QED
      BY <3>1 DEF Newest
  <2>2. Newest(m, ranked) \subseteq DOMAIN L.rows
    BY <1>4 DEF D
  <2> HIDE DEF ranked
  <2> QED
    BY <1>4, <2>1, <2>2, SizeGrows
<1>7. n # 0 => CompactSize(full) <= Size(n)
  <2> SUFFICES ASSUME n # 0 PROVE CompactSize(full) <= Size(n)
    OBVIOUS
  <2>1. n \in 1..n
    BY <1>3
  <2>2. Prefix(n) = CompactObj(L, D, Served(n, ranked, lastSeen))
    BY <1>5
  <2> HIDE DEF Prefix
  <2> QED
    BY <2>2, SizeGrows DEF D
<1>8. CompactSize(full) \in Nat
  BY SizeGrows DEF D
<1> HIDE DEF full, Prefix, ranked
<1>9. CASE CompactSize(full) <= limit
  BY <1>2, <1>9 DEF full, D
<1>10. CASE ~(CompactSize(full) <= limit)
  <2>1. a = Prefix(k) /\ k # 0
    BY <1>2, <1>10
  <2>2. j \in 0..n /\ (j = 0 \/ j \in fitting) /\ (j = n \/ j + 1 \notin fitting)
    BY <1>3, SearchEnds
  <2> HIDE DEF j
  <2>3. /\ k \in 0..j /\ Clean(k, ranked, lastSeen)
        /\ \A m \in 0..j : Clean(m, ranked, lastSeen) => m <= k
    BY <1>3, <2>2, BoundaryFacts
  <2> HIDE DEF k
  <2>4. j \in 1..n /\ k \in 1..n /\ k <= j
    BY <1>3, <2>1, <2>2, <2>3
  <2>5. Size(j) <= limit
    BY <2>2, <2>4
  <2>6. Size(k) <= limit
    BY <1>6, <2>4, <2>5
  <2>7. j # n
    BY <1>6, <1>7, <1>8, <1>10, <2>4, <2>5
  <2>8. j + 1 \in 1..n /\ ~(Size(j + 1) <= limit)
    BY <1>3, <2>2, <2>4, <2>7
  <2>9. ASSUME NEW m \in k + 1..n, Clean(m, ranked, lastSeen) PROVE ~(Size(m) <= limit)
    <3>1. m > j
      BY <1>3, <2>3, <2>4, <2>9
    <3>2. m \in 1..n /\ j + 1 <= m
      BY <1>3, <2>4, <3>1
    <3>3. Size(j + 1) \in Nat /\ Size(m) \in Nat /\ Size(j + 1) <= Size(m)
      BY <1>6, <2>8, <3>2
    <3> HIDE DEF Size
    <3> QED
      BY <2>8, <3>3
  <2>10. k # n
    BY <1>3, <2>4, <2>7
  <2> QED
    BY <2>1, <2>3, <2>4, <2>6, <2>9, <2>10 DEF Prefix, ranked, lastSeen, D
<1> QED
  BY <1>9, <1>10

(* A compact ledger on disk that was fitted to its basis is faithful to it. *)
LEMMA CompactCorrect ==
    ASSUME opts \in OptionSets, CompactOk
    PROVE  CompactFaithful
<1> SUFFICES ASSUME disk.compact # NoFile PROVE CompactFaithful
  BY DEF CompactFaithful
<1> DEFINE a == disk.compact
           L == basis.compact.of
           limit == opts.maxCompact
           D == DOMAIN L.rows
           n == Cardinality(D)
           lastSeen == LastSeenOf(L)
           ranked == Ranked(lastSeen)
           Prefix(k) == CompactObj(L, Newest(k, ranked), Served(k, ranked, lastSeen))
           held == DOMAIN a.nonBurst \cup DOMAIN a.burst
<1>1. a = FitCompact(L, limit) /\ SoundLedger(L)
  BY BuiltIsSound DEF CompactOk, IsBuilt
<1>2. limit \in Nat /\ a # NoFile
  BY SizesAssumption
<1>3. IsLastSeen(lastSeen) /\ DOMAIN lastSeen = D /\ IsFiniteSet(D) /\ n \in Nat
  BY <1>1, FS_CardinalityType DEF SoundLedger, LastSeenOf, IsLastSeen
<1>4. Len(ranked) = n
  BY <1>3, RankedFacts
<1> HIDE DEF a, L, limit
<1>5. /\ CompactSize(a) <= limit
      /\ \/ a = CompactObj(L, D, NoServed)
         \/ \E k \in 1..n :
               /\ k # n /\ Clean(k, ranked, lastSeen) /\ a = Prefix(k)
               /\ \A m \in k + 1..n : Clean(m, ranked, lastSeen) => ~(CompactSize(Prefix(m)) <= limit)
  BY <1>1, <1>2, CompactCut
<1>6. ASSUME NEW T, T \subseteq D, NEW s, a = CompactObj(L, T, s), ServesExactly(T, s, lastSeen),
             IF s = NoServed THEN T = D
             ELSE T # D /\ s.kept = Cardinality(T) /\ \A d \in T : lastSeen[d] >= s.cutoff,
             \A k \in Cardinality(T) + 1..n : Clean(k, ranked, lastSeen) => CompactSize(Prefix(k)) > limit
      PROVE  CompactFaithful
  <2>1. /\ HeldBy(a) = T /\ a.served = s
        /\ \A d \in DOMAIN a.nonBurst : ValidRow(a.nonBurst[d])
        /\ \A d \in DOMAIN a.burst : ValidBurst(a.burst[d])
        /\ CompactHolds(a)
    BY <1>1, <1>6, CompactForm
  <2>2. held = T
    BY <2>1 DEF HeldBy
  <2>3. CompactLoads(a, limit)
    BY <1>5, <2>1 DEF CompactLoads
  <2>4. \A d \in D : LET answer == Lookup(a, d)
                     IN  /\ answer.found <=> d \in T
                         /\ answer.found => /\ answer.score = L.rows[d].score.score
                                            /\ answer.burst = L.rows[d].score.burst
                         /\ answer.served = s
    BY <1>1, <1>6, LookupFacts
  <2>5. \A d \in D \ T : s # NoServed
    BY <1>6
  <2>6. Cardinality(T) \in Nat
    BY <1>3, <1>6, PartFacts
  <2>7. \A k \in Cardinality(held) + 1..Len(ranked) :
           Boundary(k, ranked, lastSeen) = k => CompactSize(Prefix(k)) > limit
    <3> SUFFICES ASSUME NEW k \in Cardinality(T) + 1..n, Boundary(k, ranked, lastSeen) = k
                 PROVE  CompactSize(Prefix(k)) > limit
      BY <1>4, <2>2
    <3>1. k \in Nat
      BY <1>3, <2>6
    <3>2. Clean(k, ranked, lastSeen)
      BY <3>1, BoundaryFacts
    <3> HIDE DEF Prefix
    <3> QED
      BY <1>6, <3>2
  <2>8. /\ ServesExactly(held, a.served, lastSeen)
        /\ \A d \in D : LET answer == Lookup(a, d)
                        IN  /\ answer.found <=> d \in held
                            /\ answer.found => /\ answer.score = L.rows[d].score.score
                                               /\ answer.burst = L.rows[d].score.burst
                            /\ ~answer.found => answer.served # NoServed
    BY <1>6, <2>1, <2>2, <2>4, <2>5
  <2> HIDE DEF held, lastSeen, ranked, D
  <2> QED
    BY <2>3, <2>7, <2>8 DEF CompactFaithful, a, L, limit, held, lastSeen, ranked, D
<1>7. CASE a = CompactObj(L, D, NoServed)
  <2>1. ServesExactly(D, NoServed, lastSeen)
    BY <1>3 DEF ServesExactly
  <2>2. \A k \in Cardinality(D) + 1..n : FALSE
    BY <1>3
  <2> HIDE DEF D, lastSeen, ranked, Prefix
  <2> QED
    BY <1>6, <1>7, <2>1, <2>2
<1>8. ASSUME NEW k \in 1..n, k # n, Clean(k, ranked, lastSeen), a = Prefix(k),
             \A m \in k + 1..n : Clean(m, ranked, lastSeen) => ~(CompactSize(Prefix(m)) <= limit)
      PROVE  CompactFaithful
  <2> DEFINE T == Newest(k, ranked)
             s == Served(k, ranked, lastSeen)
  <2>1. ServesExactly(T, s, lastSeen) /\ s # NoServed
    BY <1>3, <1>8, ServesFacts
  <2>2. T \subseteq D /\ Cardinality(T) = k
    <3>1. k \in 0..Cardinality(DOMAIN lastSeen)
      BY <1>3
    <3> QED
      BY <1>3, <3>1, NewestFacts
  <2>3. T # D /\ s.kept = Cardinality(T) /\ \A d \in T : lastSeen[d] >= s.cutoff
    <3> HIDE DEF T, s
    <3> QED
      BY <1>3, <2>1 DEF ServesExactly
  <2>4. \A m \in k + 1..n : Clean(m, ranked, lastSeen) => CompactSize(Prefix(m)) > limit
    <3> SUFFICES ASSUME NEW m \in k + 1..n, Clean(m, ranked, lastSeen)
                 PROVE  CompactSize(Prefix(m)) > limit
      OBVIOUS
    <3>1. CompactSize(Prefix(m)) \in Nat
      <4>1. m \in 0..Cardinality(DOMAIN lastSeen)
        BY <1>3
      <4>2. Newest(m, ranked) \subseteq D
        BY <1>3, <4>1, NewestFacts
      <4> HIDE DEF ranked, lastSeen
      <4>3. CompactSize(CompactObj(L, Newest(m, ranked), Served(m, ranked, lastSeen))) \in Nat
        <5> DEFINE U == Newest(m, ranked)
                   t == Served(m, ranked, lastSeen)
        <5>1. U \subseteq DOMAIN L.rows
          BY <4>2
        <5> HIDE DEF U, t
        <5>2. CompactSize(CompactObj(L, U, t)) \in Nat
          BY <1>1, <5>1, SizeGrows
        <5> QED
          BY <5>2 DEF U, t
      <4> QED
        BY <4>3
    <3>2. ~(CompactSize(Prefix(m)) <= limit)
      BY <1>8
    <3> HIDE DEF Prefix
    <3> QED
      BY <1>2, <3>1, <3>2
  <2>5. a = CompactObj(L, T, s)
    BY <1>8
  <2> HIDE DEF T, s, Prefix, D, lastSeen, ranked
  <2> QED
    BY <1>6, <2>1, <2>2, <2>3, <2>4, <2>5
<1> QED
  BY <1>5, <1>7, <1>8

(* What /did answers from a published compact ledger is what its ledger says,
   for any log and any limit: the binary search and the cut of compact._fit
   keep every tie group that would still have fitted and split none. *)
THEOREM CompactLedgersAreFaithful == Spec => []CompactFaithful
<1>1. IInv /\ BuildInv => CompactFaithful
  BY CompactCorrect DEF BuildInv, IInv, TypeOK
<1> QED
  BY Invariance, BuildsKeepTheirBasis, <1>1, PTL

-----------------------------------------------------------------------------
(* What bursts buy: nothing. *)

(* Whom a place of firstSeen is grouped with, if anybody. *)
IsGrouped(groups, i) == \E g \in DOMAIN groups : i \in groups[g]
IsSmall(firstSeen, window, minNew, i) == Cardinality(RunFrom(firstSeen, window, i)) < minNew
IsAscending(firstSeen) ==
    /\ Len(firstSeen) \in Nat
    /\ \A i \in 1..Len(firstSeen) : firstSeen[i][1] \in Nat
    /\ \A i, j \in 1..Len(firstSeen) : i < j => firstSeen[i][1] <= firstSeen[j][1]

(* A run is an interval that starts where it is taken from. *)
LEMMA RunIsInterval ==
    ASSUME NEW firstSeen, IsAscending(firstSeen), NEW window \in Nat, NEW i \in 1..Len(firstSeen)
    PROVE  /\ Max(RunFrom(firstSeen, window, i)) \in i..Len(firstSeen)
           /\ \A j \in i..Max(RunFrom(firstSeen, window, i)) : j \in RunFrom(firstSeen, window, i)
<1> DEFINE n == Len(firstSeen)
           R == RunFrom(firstSeen, window, i)
<1>0. n \in Nat /\ \A j \in 1..n : firstSeen[j][1] \in Nat
  BY DEF IsAscending
<1>1. i \in R /\ R \subseteq i..n
  BY <1>0 DEF RunFrom
<1>2. \A j \in i..n : j \in R <=> firstSeen[j][1] - firstSeen[i][1] <= window
  BY DEF RunFrom
<1> HIDE DEF R
<1>3. IsFiniteSet(R) /\ R # {} /\ R \subseteq Int
  <2>1. IsFiniteSet(i..n)
    BY <1>0, FS_Interval
  <2>2. \A x \in i..n : x \in Int
    BY <1>0
  <2> QED
    BY <1>1, <2>1, <2>2, FS_Subset
<1>4. Max(R) \in R /\ \A x \in R : x <= Max(R)
  BY <1>3, MaxIsLargest
<1> DEFINE m == Max(R)
<1> HIDE DEF m
<1>5. m \in R /\ m \in i..n
  BY <1>1, <1>4 DEF m
<1>6. ASSUME NEW j \in i..m PROVE j \in R
  <2>1. i \in 1..n /\ j \in 1..n /\ m \in 1..n /\ j \in i..n
    BY <1>0, <1>5
  <2>2. firstSeen[j][1] <= firstSeen[m][1]
    <3>1. j = m \/ j < m
      BY <2>1
    <3> QED
      BY <1>0, <2>1, <3>1 DEF IsAscending
  <2>3. firstSeen[m][1] - firstSeen[i][1] <= window
    BY <1>2, <1>5
  <2> DEFINE a == firstSeen[i][1]
             b == firstSeen[j][1]
             c == firstSeen[m][1]
  <2>4. a \in Nat /\ b \in Nat /\ c \in Nat
    BY <1>0, <2>1
  <2>5. b - a <= window
    <3> HIDE DEF a, b, c
    <3>1. b <= c /\ c - a <= window
      BY <2>2, <2>3 DEF a, b, c
    <3> QED
      BY <2>4, <3>1
  <2> QED
    BY <1>2, <2>1, <2>5
<1> QED
  BY <1>5, <1>6 DEF m, R

(* Only who starts no run of minNew is left out of every group. *)
LEMMA LeftOutIsSmall ==
    ASSUME NEW firstSeen, IsAscending(firstSeen), NEW window \in Nat, NEW minNew \in Nat,
           NEW i \in 1..Len(firstSeen),
           ~IsGrouped(GroupBursts(firstSeen, window, minNew), i)
    PROVE  IsSmall(firstSeen, window, minNew, i)
<1> DEFINE n == Len(firstSeen)
           Run(k) == RunFrom(firstSeen, window, k)
           Small(k) == IsSmall(firstSeen, window, minNew, k)
<1>0. n \in Nat
  BY DEF IsAscending
<1>1. PICK scan : /\ AreGroupSteps(scan, firstSeen, window, minNew)
                  /\ GroupBursts(firstSeen, window, minNew) = scan[n].groups
  BY <1>0, GroupSteps
<1> DEFINE Done(k) == /\ scan[k].next \in 1..n + 1
                      /\ \A m \in 1..n : m <= k \/ m < scan[k].next
                            => IsGrouped(scan[k].groups, m) \/ Small(m)
           T == {k \in 0..n : Done(k)}
<1>2. 0 \in T
  <2>1. scan[0] = [next |-> 1, groups |-> << >>]
    BY <1>1 DEF AreGroupSteps
  <2>2. scan[0].next = 1
    BY <2>1
  <2>3. \A m \in 1..n : ~(m <= 0 \/ m < 1)
    BY <1>0
  <2> QED
    BY <1>0, <2>2, <2>3
<1>3. ASSUME NEW k \in 1..n, k - 1 \in T PROVE k \in T
  <2> DEFINE old == scan[k - 1]
  <2>1. /\ old.next \in 1..n + 1
        /\ \A m \in 1..n : m <= k - 1 \/ m < old.next => IsGrouped(old.groups, m) \/ Small(m)
    BY <1>3
  <2>2. scan[k] = GroupStep(firstSeen, window, minNew, old, k)
    BY <1>1 DEF AreGroupSteps
  <2>3. k - 1 \in 0..n
    BY <1>0
  <2>4. old.groups \in Seq(SUBSET (1..n))
    BY <1>1, <2>3 DEF AreGroupSteps
  <2> HIDE DEF old
  <2>5. CASE k < old.next \/ Small(k)
    <3>1. scan[k] = old
      BY <2>2, <2>5 DEF GroupStep, IsSmall
    <3>2. \A m \in 1..n : m <= k \/ m < old.next => IsGrouped(old.groups, m) \/ Small(m)
      <4> SUFFICES ASSUME NEW m \in 1..n, m <= k \/ m < old.next
                   PROVE  IsGrouped(old.groups, m) \/ Small(m)
        OBVIOUS
      <4>1. m <= k - 1 \/ m < old.next \/ m = k
        BY <1>0
      <4> HIDE DEF Small
      <4> QED
        BY <2>1, <2>5, <4>1
    <3> HIDE DEF Small
    <3> QED
      BY <2>1, <3>1, <3>2
  <2>6. CASE ~(k < old.next \/ Small(k))
    <3> DEFINE top == Max(Run(k))
    <3>1. scan[k].next = top + 1 /\ scan[k].groups = Append(old.groups, Run(k))
      BY <2>2, <2>6 DEF GroupStep, IsSmall
    <3>2. top \in k..n /\ \A j \in k..top : j \in Run(k)
      BY RunIsInterval
    <3> HIDE DEF top
    <3>3. Run(k) \in SUBSET (1..n)
      BY DEF RunFrom
    <3> DEFINE g == scan[k].groups
    <3> HIDE DEF Run
    <3>4. /\ Len(old.groups) \in Nat /\ DOMAIN old.groups = 1..Len(old.groups)
          /\ DOMAIN g = 1..Len(old.groups) + 1
          /\ \A l \in 1..Len(old.groups) : g[l] = old.groups[l]
          /\ g[Len(old.groups) + 1] = Run(k)
      BY <2>4, <3>1, <3>3, AppendProperties, LenProperties
    <3> HIDE DEF g
    <3>5. \A m : IsGrouped(old.groups, m) => IsGrouped(g, m)
      <4> SUFFICES ASSUME NEW m, NEW l \in DOMAIN old.groups, m \in old.groups[l]
                   PROVE  IsGrouped(g, m)
        BY DEF IsGrouped
      <4>1. l \in DOMAIN g /\ g[l] = old.groups[l]
        BY <3>4
      <4> QED
        BY <4>1 DEF IsGrouped
    <3>6. \A m \in Run(k) : IsGrouped(g, m)
      <4>1. Len(old.groups) + 1 \in DOMAIN g
        BY <3>4
      <4> QED
        BY <3>4, <4>1 DEF IsGrouped
    <3>7. ASSUME NEW m \in 1..n, m <= k \/ m < top + 1 PROVE IsGrouped(g, m) \/ Small(m)
      <4>1. m <= k - 1 \/ m \in k..top
        BY <1>0, <3>2, <3>7
      <4> HIDE DEF Small
      <4> QED
        BY <2>1, <3>2, <3>5, <3>6, <4>1
    <3>8. top + 1 \in 1..n + 1
      BY <1>0, <3>2
    <3> HIDE DEF Small
    <3>9. scan[k].next = top + 1
      BY <3>1
    <3>10. \A m \in 1..n : m <= k \/ m < scan[k].next => IsGrouped(g, m) \/ Small(m)
      BY <3>7, <3>9
    <3>11. Done(k)
      BY <3>8, <3>9, <3>10 DEF g
    <3> HIDE DEF Done
    <3> QED
      BY <1>0, <3>11
  <2> HIDE DEF T, Small
  <2> QED
    BY <2>5, <2>6
<1>4. n \in T
  <2>1. n \in 0..n
    BY <1>0
  <2> HIDE DEF T
  <2> QED
    BY <1>0, <1>2, <1>3, <2>1, CountingUp
<1>5. i <= n
  BY <1>0
<1> HIDE DEF Small
<1>6. IsGrouped(scan[n].groups, i) \/ Small(i)
  BY <1>4, <1>5
<1> QED
  BY <1>1, <1>6 DEF Small

(* Where nobody starts a run of minNew there is no group. *)
LEMMA SmallIsLeftOut ==
    ASSUME NEW firstSeen, Len(firstSeen) \in Nat, NEW window, NEW minNew,
           \A i \in 1..Len(firstSeen) : IsSmall(firstSeen, window, minNew, i)
    PROVE  GroupBursts(firstSeen, window, minNew) = << >>
<1> DEFINE n == Len(firstSeen)
           a == [next |-> 1, groups |-> << >>]
<1>1. PICK scan : /\ AreGroupSteps(scan, firstSeen, window, minNew)
                  /\ GroupBursts(firstSeen, window, minNew) = scan[n].groups
  BY GroupSteps
<1> DEFINE T == {k \in 0..n : scan[k] = a}
<1>2. 0 \in T
  BY <1>1 DEF AreGroupSteps
<1>3. ASSUME NEW k \in 1..n, k - 1 \in T PROVE k \in T
  <2>1. scan[k] = GroupStep(firstSeen, window, minNew, a, k)
    BY <1>1, <1>3 DEF AreGroupSteps
  <2>2. GroupStep(firstSeen, window, minNew, a, k) = a
    BY DEF GroupStep, IsSmall
  <2> QED
    BY <2>1, <2>2
<1>4. n \in T
  <2>1. n \in 0..n
    OBVIOUS
  <2> HIDE DEF T
  <2> QED
    BY <1>2, <1>3, <2>1, CountingUp
<1> QED
  BY <1>1, <1>4

(* Who comes into the log with d or after it, within the window. *)
FirstTs(posts, d) == FirstPost(PostsOf(posts, d)).ts
Later(posts, window, d) ==
    {e \in SendersOf(posts) :
       /\ FirstTs(posts, d) < FirstTs(posts, e)
             \/ (FirstTs(posts, d) = FirstTs(posts, e) /\ d <= e)
       /\ FirstTs(posts, e) - FirstTs(posts, d) <= window}

(* A sender's own posts are rows, one of them the first. *)
LEMMA OwnPosts ==
    ASSUME NEW posts, AreRows(posts), NEW d \in SendersOf(posts)
    PROVE  /\ AreRows(PostsOf(posts, d)) /\ PostsOf(posts, d) # {}
           /\ FirstTs(posts, d) \in Nat /\ d \in Nat
<1> DEFINE own == PostsOf(posts, d)
<1>1. own \subseteq posts /\ own # {}
  BY DEF PostsOf, SendersOf
<1>2. d \in Nat
  BY DEF SendersOf, AreRows
<1> HIDE DEF own
<1>3. AreRows(own)
  BY <1>1, PartFacts DEF AreRows
<1>4. FirstPost(own) \in own
  BY <1>1, <1>3, FirstPostFacts
<1> QED
  BY <1>1, <1>2, <1>3, <1>4 DEF AreRows, FirstTs, own

(* The first posts in order: a place for each sender, and as many places in
   the run from it as senders that come later. *)
LEMMA PlacesOfSenders ==
    ASSUME NEW posts, AreRows(posts), NEW window \in Nat
    PROVE  LET firsts == {<<FirstPost(PostsOf(posts, d)).ts, d>> : d \in SendersOf(posts)}
               s == SortedBy(firsts, {p \in firsts \X firsts :
                        p[1][1] < p[2][1] \/ (p[1][1] = p[2][1] /\ p[1][2] < p[2][2])})
           IN  /\ IsAscending(s)
               /\ \A i \in 1..Len(s) :
                     /\ s[i][2] \in SendersOf(posts)
                     /\ Cardinality(RunFrom(s, window, i)) = Cardinality(Later(posts, window, s[i][2]))
               /\ \A d \in SendersOf(posts) : \E i \in 1..Len(s) : s[i][2] = d
<1> DEFINE D == SendersOf(posts)
           At1(d) == <<FirstTs(posts, d), d>>
           f == [d \in D |-> At1(d)]
           firsts == {<<FirstPost(PostsOf(posts, d)).ts, d>> : d \in D}
           before == {p \in firsts \X firsts :
                        p[1][1] < p[2][1] \/ (p[1][1] = p[2][1] /\ p[1][2] < p[2][2])}
           s == SortedBy(firsts, before)
           n == Cardinality(firsts)
<1>1. firsts = {f[d] : d \in D} /\ \A d \in D : f[d] = <<FirstTs(posts, d), d>>
  BY DEF FirstTs
<1>2. IsFiniteSet(D) /\ \A d \in D : FirstTs(posts, d) \in Nat /\ d \in Nat
  BY OwnPosts, SendersFacts DEF AreRows
<1>3. \A x, y \in firsts :
         <<x, y>> \in before <=> x[1] < y[1] \/ (x[1] = y[1] /\ x[2] < y[2])
  OBVIOUS
<1>4. \A x \in firsts : /\ x[1] \in Nat /\ x[2] \in D /\ x[2] \in Nat
                        /\ x = <<x[1], x[2]>> /\ x[1] = FirstTs(posts, x[2])
  BY <1>1, <1>2
<1>5. \A d \in D : <<FirstTs(posts, d), d>> \in firsts
  BY <1>1
<1> HIDE DEF D
<1>6. IsFiniteSet(firsts)
  <2> HIDE DEF f, firsts
  <2> QED
    BY <1>1, <1>2, ImageFacts
<1> HIDE DEF firsts, before, f
<1>7. Orders(before, firsts)
  <2>1. ASSUME NEW x \in firsts PROVE <<x, x>> \notin before
    BY <1>3, <1>4
  <2>2. ASSUME NEW x \in firsts, NEW y \in firsts, NEW z \in firsts,
               <<x, y>> \in before, <<y, z>> \in before
        PROVE  <<x, z>> \in before
    <3> DEFINE x1 == x[1] x2 == x[2] y1 == y[1] y2 == y[2] z1 == z[1] z2 == z[2]
    <3>1. {x1, x2, y1, y2, z1, z2} \subseteq Nat
      BY <1>4
    <3>2. (x1 < y1 \/ (x1 = y1 /\ x2 < y2)) /\ (y1 < z1 \/ (y1 = z1 /\ y2 < z2))
      BY <1>3, <2>2
    <3> HIDE DEF x1, x2, y1, y2, z1, z2
    <3>3. x1 < z1 \/ (x1 = z1 /\ x2 < z2)
      BY <3>1, <3>2
    <3> QED
      BY <1>3, <3>3 DEF x1, x2, z1, z2
  <2>3. ASSUME NEW x \in firsts, NEW y \in firsts, x # y
        PROVE  <<x, y>> \in before \/ <<y, x>> \in before
    <3> DEFINE x1 == x[1] x2 == x[2] y1 == y[1] y2 == y[2]
    <3>1. {x1, x2, y1, y2} \subseteq Nat /\ (x1 # y1 \/ x2 # y2)
      BY <1>4, <2>3
    <3> HIDE DEF x1, x2, y1, y2
    <3>2. (x1 < y1 \/ (x1 = y1 /\ x2 < y2)) \/ (y1 < x1 \/ (y1 = x1 /\ y2 < x2))
      BY <3>1
    <3> QED
      BY <1>3, <3>2 DEF x1, x2, y1, y2
  <2> QED
    BY <2>1, <2>2, <2>3 DEF Orders
<1>8. /\ s \in Seq(firsts) /\ Len(s) = n /\ n \in Nat /\ DOMAIN s = 1..n /\ Range(s) = firsts
      /\ IsInjective(s)
      /\ \A i, j \in 1..n : i < j <=> <<s[i], s[j]>> \in before
  BY <1>6, <1>7, Ordered
<1> HIDE DEF s, n
<1>9. \A i \in 1..n : s[i] \in firsts
  BY <1>8 DEF Range
<1>10. \A x \in firsts : \E i \in 1..n : s[i] = x
  BY <1>8 DEF Range
<1>11. IsAscending(s)
  <2>1. \A i \in 1..n : s[i][1] \in Nat
    BY <1>4, <1>9
  <2>2. ASSUME NEW i \in 1..n, NEW j \in 1..n, i < j PROVE s[i][1] <= s[j][1]
    <3>1. s[i][1] < s[j][1] \/ s[i][1] = s[j][1]
      BY <1>3, <1>8, <1>9, <2>2
    <3> QED
      BY <2>1, <3>1
  <2> QED
    BY <1>8, <2>1, <2>2 DEF IsAscending
<1>12. ASSUME NEW i \in 1..n
       PROVE  Cardinality(RunFrom(s, window, i)) = Cardinality(Later(posts, window, s[i][2]))
  <2> DEFINE R == RunFrom(s, window, i)
             d == s[i][2]
             L == Later(posts, window, d)
             g == [j \in R |-> s[j][2]]
  <2>1. /\ R \subseteq 1..n /\ \A j \in 1..n : j \in R <=> i <= j /\ s[j][1] - s[i][1] <= window
    <3>1. \A j \in i..n : j \in 1..n
      OBVIOUS
    <3>2. R = {j \in i..n : s[j][1] - s[i][1] <= window}
      BY <1>8 DEF RunFrom
    <3>3. \A j \in 1..n : j \in i..n <=> i <= j
      BY <1>8
    <3> HIDE DEF R
    <3> QED
      BY <3>1, <3>2, <3>3
  <2>2. ASSUME NEW j \in 1..n
        PROVE  s[j][1] = FirstTs(posts, s[j][2]) /\ s[j][2] \in D /\ s[j][1] \in Nat /\ s[j][2] \in Nat
    BY <1>4, <1>9
  <2>3. \A e : e \in L <=> /\ e \in D
                           /\ \/ FirstTs(posts, d) < FirstTs(posts, e)
                              \/ FirstTs(posts, d) = FirstTs(posts, e) /\ d <= e
                           /\ FirstTs(posts, e) - FirstTs(posts, d) <= window
    BY DEF Later, D
  <2>4. ASSUME NEW j \in 1..n
        PROVE  i <= j <=> s[i][1] < s[j][1] \/ (s[i][1] = s[j][1] /\ s[i][2] <= s[j][2])
    <3>1. j < i <=> s[j][1] < s[i][1] \/ (s[j][1] = s[i][1] /\ s[j][2] < s[i][2])
      BY <1>3, <1>8, <1>9
    <3> DEFINE a == s[i][1] b == s[i][2] c == s[j][1] e == s[j][2]
    <3>2. {a, b, c, e} \subseteq Nat
      BY <2>2
    <3>3. j < i <=> c < a \/ (c = a /\ e < b)
      BY <3>1
    <3> HIDE DEF a, b, c, e
    <3>4. i <= j <=> a < c \/ (a = c /\ b <= e)
      BY <1>8, <3>2, <3>3
    <3> QED
      BY <3>4 DEF a, b, c, e
  <2>5. \A j \in 1..n : j \in R <=> s[j][2] \in L
    <3> SUFFICES ASSUME NEW j \in 1..n PROVE j \in R <=> s[j][2] \in L
      OBVIOUS
    <3>1. j \in R <=> i <= j /\ s[j][1] - s[i][1] <= window
      BY <2>1
    <3>2. s[j][2] \in L <=> /\ s[i][1] < s[j][1] \/ (s[i][1] = s[j][1] /\ s[i][2] <= s[j][2])
                            /\ s[j][1] - s[i][1] <= window
      <4> HIDE DEF L
      <4> QED
        BY <2>2, <2>3
    <3> HIDE DEF R, L
    <3> QED
      BY <2>4, <3>1, <3>2
  <2> HIDE DEF R, L
  <2>6. ASSUME NEW e \in L PROVE \E j \in R : g[j] = e
    <3>1. e \in D
      BY <2>3
    <3>2. PICK j \in 1..n : s[j] = <<FirstTs(posts, e), e>>
      BY <1>5, <1>10, <3>1
    <3>3. s[j][2] = e
      BY <3>2
    <3> QED
      BY <2>5, <3>3
  <2>7. g \in [R -> L] /\ \A j, k \in R : g[j] = g[k] => j = k
    <3>1. \A j \in R : g[j] \in L
      BY <2>1, <2>5
    <3>2. ASSUME NEW j \in R, NEW k \in R, g[j] = g[k] PROVE j = k
      <4>1. j \in 1..n /\ k \in 1..n /\ s[j][2] = s[k][2]
        BY <2>1, <3>2
      <4>2. s[j][1] = s[k][1]
        BY <2>2, <4>1
      <4>3. s[j] = s[k]
        BY <1>4, <1>9, <4>1, <4>2
      <4> QED
        BY <1>8, <4>1, <4>3 DEF IsInjective
    <3> QED
      BY <3>1, <3>2
  <2> HIDE DEF g
  <2>8. IsFiniteSet(R)
    <3>1. IsFiniteSet(1..n)
      BY <1>8, FS_Interval
    <3> QED
      BY <2>1, <3>1, FS_Subset
  <2>9. g \in Bijection(R, L)
    BY <2>6, <2>7 DEF Bijection, Injection, Surjection, IsInjective
  <2>10. Cardinality(R) = Cardinality(L)
    BY <2>8, <2>9, FS_Bijection DEF ExistsBijection
  <2> QED
    BY <2>10 DEF R, L
<1>13. \A d \in D : \E i \in 1..n : s[i][2] = d
  <2> SUFFICES ASSUME NEW d \in D PROVE \E i \in 1..n : s[i][2] = d
    OBVIOUS
  <2>1. PICK i \in 1..n : s[i] = <<FirstTs(posts, d), d>>
    BY <1>5, <1>10
  <2> QED
    BY <2>1
<1>14. \A i \in 1..n : s[i][2] \in D
  BY <1>4, <1>9
<1> QED
  BY <1>8, <1>11, <1>12, <1>13, <1>14 DEF s, before, firsts, D

(* Who is in no burst is followed by fewer than minNew. *)
LEMMA NoBurstIsSmall ==
    ASSUME NEW posts, AreRows(posts), NEW window \in Nat, NEW minNew \in Nat,
           NEW d \in SendersOf(posts), BurstIdOf(d, Bursts(posts, window, minNew)) = NoBurst
    PROVE  Cardinality(Later(posts, window, d)) < minNew
<1> DEFINE firsts == {<<FirstPost(PostsOf(posts, e)).ts, e>> : e \in SendersOf(posts)}
           before == {p \in firsts \X firsts :
                        p[1][1] < p[2][1] \/ (p[1][1] = p[2][1] /\ p[1][2] < p[2][2])}
           s == SortedBy(firsts, before)
           groups == GroupBursts(s, window, minNew)
           bursts == Bursts(posts, window, minNew)
<1>1. bursts = [g \in DOMAIN groups |-> {s[i][2] : i \in groups[g]}]
  BY DEF Bursts
<1>2. /\ IsAscending(s)
      /\ \A i \in 1..Len(s) : Cardinality(RunFrom(s, window, i)) = Cardinality(Later(posts, window, s[i][2]))
      /\ \E i \in 1..Len(s) : s[i][2] = d
  BY PlacesOfSenders
<1> HIDE DEF s, bursts
<1>3. PICK i \in 1..Len(s) : s[i][2] = d
  BY <1>2
<1>4. groups \in Seq(SUBSET (1..Len(s))) /\ DOMAIN groups = 1..Len(groups) /\ Len(groups) \in Nat
  BY <1>2, GroupsFacts, LenProperties DEF IsAscending
<1> HIDE DEF groups
<1>5. ~\E g \in DOMAIN bursts : d \in bursts[g]
  <2> SUFFICES ASSUME \E g \in DOMAIN bursts : d \in bursts[g] PROVE FALSE
    OBVIOUS
  <2> DEFINE c == CHOOSE g \in DOMAIN bursts : d \in bursts[g]
  <2>1. c \in DOMAIN bursts
    OBVIOUS
  <2>2. BurstIdOf(d, bursts) = c - 1
    BY DEF BurstIdOf
  <2> HIDE DEF c
  <2>3. c \in Nat /\ c >= 1
    BY <1>1, <1>4, <2>1
  <2> QED
    BY <2>2, <2>3 DEF NoBurst, bursts
<1>6. ~IsGrouped(groups, i)
  BY <1>1, <1>3, <1>5 DEF IsGrouped
<1>7. IsSmall(s, window, minNew, i)
  BY <1>2, <1>6, LeftOutIsSmall DEF groups
<1> QED
  BY <1>2, <1>3, <1>7 DEF IsSmall

(* Where everybody is followed by fewer than minNew there is no burst. *)
LEMMA AllSmallNoBurst ==
    ASSUME NEW posts, AreRows(posts), NEW window \in Nat, NEW minNew \in Nat,
           \A d \in SendersOf(posts) : Cardinality(Later(posts, window, d)) < minNew,
           NEW d
    PROVE  BurstIdOf(d, Bursts(posts, window, minNew)) = NoBurst
<1> DEFINE firsts == {<<FirstPost(PostsOf(posts, e)).ts, e>> : e \in SendersOf(posts)}
           before == {p \in firsts \X firsts :
                        p[1][1] < p[2][1] \/ (p[1][1] = p[2][1] /\ p[1][2] < p[2][2])}
           s == SortedBy(firsts, before)
           groups == GroupBursts(s, window, minNew)
           bursts == Bursts(posts, window, minNew)
<1>1. bursts = [g \in DOMAIN groups |-> {s[i][2] : i \in groups[g]}]
  BY DEF Bursts
<1>2. /\ IsAscending(s)
      /\ \A i \in 1..Len(s) :
            /\ s[i][2] \in SendersOf(posts)
            /\ Cardinality(RunFrom(s, window, i)) = Cardinality(Later(posts, window, s[i][2]))
  BY PlacesOfSenders
<1> HIDE DEF s, bursts
<1>3. \A i \in 1..Len(s) : IsSmall(s, window, minNew, i)
  BY <1>2 DEF IsSmall
<1>4. groups = << >>
  BY <1>2, <1>3, SmallIsLeftOut DEF IsAscending
<1> HIDE DEF groups
<1>5. DOMAIN bursts = {}
  BY <1>1, <1>4
<1> QED
  BY <1>5 DEF BurstIdOf, bursts

(* The posts of everybody else. *)
Without(posts, dids) == {p \in posts : p.sender \notin dids}

(* Lines taken out of the files are posts taken out of those loaded. *)
LEMMA LoadedWithout ==
    ASSUME NEW read, IsRead(read), NEW dids, NEW scope
    PROVE  LoadPosts(WithoutSenders(read, dids), scope) = Without(LoadPosts(read, scope), dids)
<1> DEFINE less == WithoutSenders(read, dids)
           rooms == scope \cap DOMAIN read
           Rest(r) == {l \in Range(read[r]) : l.sender \notin dids}
           Loads(l) == l.parses = "yes" /\ l.signed
           Row(r, l) == [room |-> r, seq |-> l.seq, ts |-> l.ts, sender |-> l.sender,
                         text |-> l.text, signed |-> l.signed]
<1>1. DOMAIN less = DOMAIN read /\ \A r \in DOMAIN read : less[r] = Kept(read[r], Rest(r))
  BY DEF WithoutSenders
<1> HIDE DEF less
<1>2. ASSUME NEW r \in DOMAIN read
      PROVE  {less[r][i] : i \in DOMAIN less[r]} = Rest(r)
  <2>1. read[r] \in Seq(Range(read[r]))
    BY DEF IsRead, IsLog
  <2>2. /\ Kept(read[r], Rest(r)) \in Seq(Range(read[r]))
        /\ ToSet(Kept(read[r], Rest(r))) = ToSet(read[r]) \cap Rest(r)
    BY <2>1, KeptInOrder
  <2>3. ToSet(read[r]) = Range(read[r])
    BY ToSetIsRange
  <2>4. ToSet(less[r]) = {less[r][i] : i \in DOMAIN less[r]}
    BY DEF ToSet
  <2> QED
    BY <1>1, <2>2, <2>3, <2>4
<1>3. \A log1 : DOMAIN log1 = DOMAIN read =>
         \A x : x \in LoadPosts(log1, scope) <=>
                  \E r \in rooms : \E i \in DOMAIN log1[r] :
                     Loads(log1[r][i]) /\ x = Row(r, log1[r][i])
  <2> SUFFICES ASSUME NEW log1, DOMAIN log1 = DOMAIN read, NEW x
               PROVE  x \in LoadPosts(log1, scope) <=>
                        \E r \in rooms : \E i \in DOMAIN log1[r] :
                           Loads(log1[r][i]) /\ x = Row(r, log1[r][i])
    OBVIOUS
  <2>1. \A at : at \in LinesOf(log1, scope) <=>
                  \E r \in rooms : \E i \in DOMAIN log1[r] : at = [room |-> r, i |-> i]
    BY DEF LinesOf
  <2> DEFINE P(at) == Loads(log1[at.room][at.i]) /\ x = RowAt(log1, at)
             Q(r, i) == Loads(log1[r][i]) /\ x = Row(r, log1[r][i])
  <2>2. x \in LoadPosts(log1, scope) <=> \E at \in LinesOf(log1, scope) : P(at)
    BY DEF LoadPosts
  <2>3. \A r, i : P([room |-> r, i |-> i]) <=> Q(r, i)
    BY DEF RowAt
  <2>4. x \in LoadPosts(log1, scope) <=> \E r \in rooms : \E i \in DOMAIN log1[r] : Q(r, i)
    <3> HIDE DEF P, Q, rooms
    <3>1. ASSUME NEW at \in LinesOf(log1, scope), P(at)
          PROVE  \E r \in rooms : \E i \in DOMAIN log1[r] : Q(r, i)
      <4>1. PICK r \in rooms : \E i \in DOMAIN log1[r] : at = [room |-> r, i |-> i]
        BY <2>1
      <4>2. PICK i \in DOMAIN log1[r] : at = [room |-> r, i |-> i]
        BY <4>1
      <4>3. Q(r, i)
        BY ONLY <2>3, <3>1, <4>2
      <4> QED
        BY ONLY <4>3
    <3>2. ASSUME NEW r \in rooms, NEW i \in DOMAIN log1[r], Q(r, i)
          PROVE  \E at \in LinesOf(log1, scope) : P(at)
      <4> DEFINE at == [room |-> r, i |-> i]
      <4>1. P(at)
        BY ONLY <2>3, <3>2
      <4>2. at \in LinesOf(log1, scope)
        BY <2>1
      <4> HIDE DEF at
      <4> QED
        BY ONLY <4>1, <4>2
    <3> QED
      BY ONLY <2>2, <3>1, <3>2
  <2> QED
    BY <2>4
<1>4. \A r, l : Row(r, l).sender = l.sender
  OBVIOUS
<1>5. \A r \in rooms : r \in DOMAIN read
  OBVIOUS
<1> DEFINE All(r) == Range(read[r])
<1>6. \A r : {read[r][i] : i \in DOMAIN read[r]} = All(r)
  BY DEF Range
<1>7. \A r, l : l \in Rest(r) <=> l \in All(r) /\ l.sender \notin dids
  OBVIOUS
<1> HIDE DEF Row, Loads, rooms, Rest, All
<1>8. \A x : x \in LoadPosts(read, scope) <=>
               \E r \in rooms : \E l \in All(r) : Loads(l) /\ x = Row(r, l)
  BY <1>3, <1>5, <1>6
<1>9. \A x : x \in LoadPosts(less, scope) <=>
               \E r \in rooms : \E l \in Rest(r) : Loads(l) /\ x = Row(r, l)
  BY <1>1, <1>2, <1>3, <1>5
<1>10. \A x : x \in LoadPosts(less, scope) <=> x \in Without(LoadPosts(read, scope), dids)
  BY <1>4, <1>7, <1>8, <1>9 DEF Without
<1> QED
  BY <1>10 DEF less

(* Fewer senders, fewer suffixes that two of them share. *)
LEMMA KnownWithout ==
    ASSUME NEW S, IsFiniteSet(S), NEW U, U \subseteq S, NEW x \in DOMAIN Known(S), Known(S)[x] \in U
    PROVE  x \in DOMAIN Known(U) /\ Known(U)[x] = Known(S)[x]
<1> DEFINE d == Known(S)[x]
<1>1. x \in AllSuffixes(S) /\ ~(Cardinality(Owners(x, S)) > 1) /\ d = CHOOSE e \in S : x \in SuffixesOf(e)
  BY DEF Known, Ambiguous
<1>2. \E e \in S : x \in SuffixesOf(e)
  BY <1>1 DEF AllSuffixes
<1>3. d \in S /\ x \in SuffixesOf(d)
  BY <1>1, <1>2
<1>4. d \in U
  OBVIOUS
<1> HIDE DEF d
<1>5. Owners(x, S) \subseteq S /\ Owners(x, U) \subseteq Owners(x, S) /\ d \in Owners(x, S)
  BY <1>3 DEF Owners
<1>6. IsFiniteSet(Owners(x, S)) /\ Cardinality(Owners(x, S)) \in Nat
  BY <1>5, PartFacts
<1>7. Cardinality(Owners(x, U)) \in Nat /\ Cardinality(Owners(x, U)) <= Cardinality(Owners(x, S))
  BY <1>5, <1>6, PartFacts
<1>8. x \notin Ambiguous(U)
  BY <1>1, <1>6, <1>7 DEF Ambiguous
<1>9. x \in AllSuffixes(U)
  BY <1>3, <1>4 DEF AllSuffixes
<1>10. \A e \in Owners(x, S) : e = d
  <2> SUFFICES ASSUME NEW e \in Owners(x, S), e # d PROVE FALSE
    OBVIOUS
  <2>1. {e, d} \subseteq Owners(x, S)
    BY <1>5
  <2>2. IsFiniteSet({d}) /\ Cardinality({d}) = 1 /\ e \notin {d}
    BY FS_Singleton
  <2> DEFINE one == {d}
  <2>3. Cardinality(one \cup {e}) = 2
    <3> HIDE DEF one
    <3>1. IsFiniteSet(one) /\ Cardinality(one) = 1 /\ e \notin one
      BY <2>2 DEF one
    <3>2. Cardinality(one \cup {e}) = Cardinality(one) + 1
      BY <3>1, FS_AddElement
    <3> QED
      BY <3>1, <3>2
  <2>4. one \cup {e} = {e, d}
    OBVIOUS
  <2>5. Cardinality({e, d}) <= Cardinality(Owners(x, S))
    BY <1>6, <2>1, PartFacts
  <2> QED
    BY <1>1, <1>6, <2>3, <2>4, <2>5
<1>11. \A e \in U : x \in SuffixesOf(e) => e = d
  BY <1>10 DEF Owners
<1>12. Known(U)[x] = CHOOSE e \in U : x \in SuffixesOf(e)
  BY <1>8, <1>9 DEF Known
<1>13. Known(U)[x] = d
  BY <1>3, <1>11, <1>4, <1>12
<1> QED
  BY <1>8, <1>9, <1>13 DEF Known, d

(* A mention that resolves to one who is left still does. *)
LEMMA MentionsWithout ==
    ASSUME NEW S, IsFiniteSet(S), NEW U, U \subseteq S, NEW d \in U, NEW p,
           d \in Mentions(p, Known(S))
    PROVE  d \in Mentions(p, Known(U))
<1>1. d # p.sender /\ d \in Attr[p.text].dids \cup Resolved(Attr[p.text].at \cup Attr[p.text].abbr, Known(S))
  BY DEF Mentions, MentionTargets
<1>2. CASE d \in Attr[p.text].dids
  BY <1>1, <1>2 DEF Mentions, MentionTargets
<1>3. CASE d \in Resolved(Attr[p.text].at \cup Attr[p.text].abbr, Known(S))
  <2>1. PICK x \in (Attr[p.text].at \cup Attr[p.text].abbr) \cap DOMAIN Known(S) : d = Known(S)[x]
    BY <1>3 DEF Resolved
  <2>2. x \in DOMAIN Known(U) /\ d = Known(U)[x]
    BY <2>1, KnownWithout
  <2>3. d \in Resolved(Attr[p.text].at \cup Attr[p.text].abbr, Known(U))
    BY <2>1, <2>2 DEF Resolved
  <2> QED
    BY <1>1, <2>3 DEF Mentions, MentionTargets
<1> QED
  BY <1>1, <1>2, <1>3

(* More mentions, no lower score. *)
LEMMA ScoreGrows ==
    ASSUME NEW c \in Nat, NEW m \in Nat, NEW n \in Nat, m <= n
    PROVE  c * (1 + m) <= c * (1 + n)
<1>1. n - m \in Nat /\ n = m + (n - m)
  OBVIOUS
<1>2. c * (1 + n) = c * (1 + m) + c * (n - m)
  OBVIOUS
<1>3. c * (n - m) \in Nat /\ c * (1 + m) \in Nat
  BY <1>1
<1> QED
  BY <1>2, <1>3

(* The value of a score, of one who is in no burst. *)
LEMMA ScoreOfFacts ==
    ASSUME NEW facts, NEW all, NEW now \in Nat, NEW perMinute, GoodFacts(facts), facts.firstSeen.ts \in Nat
    PROVE  /\ ScoreDid(facts, all, now, perMinute).burst = IsBurstMember(facts, perMinute)
           /\ IsBurstMember(facts, perMinute) => ScoreDid(facts, all, now, perMinute).score = 0
           /\ ~IsBurstMember(facts, perMinute) =>
                 LET age == Max({0, Min({now - facts.firstSeen.ts, MaxAge})})
                     ratio == Rounded(facts.texts, facts.posts)
                 IN  /\ age * ratio \in Nat
                     /\ ScoreDid(facts, all, now, perMinute).score
                          = age * ratio * (1 + InboundFromNonBurst(facts, all, perMinute))
<1> DEFINE age == Max({0, Min({now - facts.firstSeen.ts, MaxAge})})
           ratio == Rounded(facts.texts, facts.posts)
<1>1. age \in Nat
  <2> DEFINE a == now - facts.firstSeen.ts
             b == Min({a, MaxAge})
  <2>1. MaxAge \in Nat /\ a \in Int
    BY SizesAssumption
  <2> HIDE DEF a
  <2>2. b \in Int
    <3>1. \E x \in {a, MaxAge} : \A y \in {a, MaxAge} : x <= y
      BY <2>1
    <3>2. b \in {a, MaxAge}
      BY <3>1 DEF Min
    <3> QED
      BY <2>1, <3>2
  <2> HIDE DEF b
  <2>3. Max({0, b}) \in {0, b} /\ Max({0, b}) >= 0
    <3>1. \E x \in {0, b} : \A y \in {0, b} : x >= y
      BY <2>2
    <3> QED
      BY <2>2, <3>1 DEF Max
  <2> QED
    BY <2>2, <2>3 DEF b, a
<1>2. ratio \in Nat
  <2>1. facts.posts \in Nat /\ facts.posts >= 1 /\ facts.texts \in 0..facts.posts
    BY DEF GoodFacts, ValidDidFacts
  <2>2. Unit \in Nat
    BY SizesAssumption
  <2>3. ratio \in 0..Unit
    BY <2>1, <2>2, RoundedFacts
  <2> QED
    BY <2>2, <2>3
<1> DEFINE score == ScoreDid(facts, all, now, perMinute)
<1>3. /\ score.burst = IsBurstMember(facts, perMinute)
      /\ score.score = IF IsBurstMember(facts, perMinute) THEN 0
                       ELSE age * ratio * (1 + InboundFromNonBurst(facts, all, perMinute))
  BY DEF ScoreDid, ScoreFromFacts
<1> HIDE DEF age, ratio
<1>4. age * ratio \in Nat
  BY <1>1, <1>2
<1> QED
  BY <1>3, <1>4 DEF age, ratio

(* Take every burst member out of the log, and nobody else's facts get worse:
   no new burst forms, and each mention from outside the bursts stays. *)
LEMMA ScoreWithout ==
    ASSUME NEW posts, AreRows(posts), NEW notes, NEW window \in Nat, NEW minNew \in Nat,
           NEW perMinute, NEW now \in Nat,
           NEW bad, bad = {d \in SendersOf(posts) :
                  IsBurstMember(BuildFacts(posts, notes, window, minNew)[d], perMinute)},
           NEW d \in SendersOf(posts) \ bad
    PROVE  LET facts == BuildFacts(posts, notes, window, minNew)
               less == BuildFacts(Without(posts, bad), notes, window, minNew)
           IN  /\ d \in SendersOf(Without(posts, bad))
               /\ ScoreDid(facts[d], facts, now, perMinute).score
                    <= ScoreDid(less[d], less, now, perMinute).score
<1> DEFINE S == SendersOf(posts)
           rest == Without(posts, bad)
           U == SendersOf(rest)
           facts == BuildFacts(posts, notes, window, minNew)
           less == BuildFacts(rest, notes, window, minNew)
<1>1. U = S \ bad
  BY DEF SendersOf, Without
<1>2. rest \subseteq posts /\ AreRows(rest)
  <2>1. rest \subseteq posts
    BY DEF Without
  <2> HIDE DEF rest
  <2> QED
    BY <2>1, PartFacts DEF AreRows
<1>3. ASSUME NEW e \in U PROVE PostsOf(rest, e) = PostsOf(posts, e)
  BY <1>1 DEF PostsOf, Without
<1>4. /\ DOMAIN facts = S /\ DOMAIN less = U
      /\ \A e \in S : /\ facts[e].firstSeen.ts = FirstTs(posts, e)
                      /\ facts[e].posts = Cardinality(PostsOf(posts, e))
                      /\ facts[e].texts = Cardinality(TextsOf(PostsOf(posts, e)))
                      /\ facts[e].inbound = Inbound(posts, e, Known(S))
                      /\ facts[e].burstId = BurstIdOf(e, Bursts(posts, window, minNew))
                      /\ facts[e].perMinute = MaxPostsPerMinute(PostsOf(posts, e))
      /\ \A e \in U : /\ less[e].firstSeen.ts = FirstTs(rest, e)
                      /\ less[e].posts = Cardinality(PostsOf(rest, e))
                      /\ less[e].texts = Cardinality(TextsOf(PostsOf(rest, e)))
                      /\ less[e].inbound = Inbound(rest, e, Known(U))
                      /\ less[e].burstId = BurstIdOf(e, Bursts(rest, window, minNew))
                      /\ less[e].perMinute = MaxPostsPerMinute(PostsOf(rest, e))
  BY DEF BuildFacts, FirstTs
<1>5. \A e \in S : e \in bad <=> IsBurstMember(facts[e], perMinute)
  OBVIOUS
<1>6. \A e \in S : GoodFacts(facts[e])
  BY AllFacts
<1>7. \A e \in U : GoodFacts(less[e])
  BY <1>2, AllFacts
<1>8. IsFiniteSet(S) /\ \A e \in S : FirstTs(posts, e) \in Nat
  BY OwnPosts, SendersFacts DEF AreRows
<1> HIDE DEF facts, less, S, U, rest
<1>9. U \subseteq S /\ d \in U /\ \A e \in S : e \in U <=> ~IsBurstMember(facts[e], perMinute)
  BY <1>1, <1>5 DEF S
<1>10. \A e \in U : FirstTs(rest, e) = FirstTs(posts, e)
  BY <1>3 DEF FirstTs
<1>11. ASSUME NEW e \in U PROVE Cardinality(Later(rest, window, e)) < minNew
  <2>1. facts[e].burstId = NoBurst
    BY <1>9 DEF IsBurstMember
  <2>2. Cardinality(Later(posts, window, e)) < minNew
    BY <1>4, <1>9, <2>1, NoBurstIsSmall DEF S
  <2>3. Later(rest, window, e) \subseteq Later(posts, window, e) /\ Later(posts, window, e) \subseteq S
    BY <1>9, <1>10 DEF Later, U, S
  <2>4. IsFiniteSet(Later(posts, window, e)) /\ Cardinality(Later(posts, window, e)) \in Nat
    BY <1>8, <2>3, PartFacts
  <2>5. /\ Cardinality(Later(rest, window, e)) <= Cardinality(Later(posts, window, e))
        /\ Cardinality(Later(rest, window, e)) \in Nat
    BY <2>3, <2>4, PartFacts
  <2> QED
    BY <2>2, <2>4, <2>5
<1>12. ASSUME NEW e \in U PROVE ~IsBurstMember(less[e], perMinute)
  <2>1. less[e].burstId = NoBurst
    BY <1>2, <1>4, <1>11, AllSmallNoBurst DEF U
  <2>2. less[e].perMinute = facts[e].perMinute
    BY <1>3, <1>4, <1>9
  <2> QED
    BY <1>9, <2>1, <2>2 DEF IsBurstMember
<1> DEFINE in == {from \in DOMAIN facts[d].inbound \cap DOMAIN facts :
                    ~IsBurstMember(facts[from], perMinute)}
           inLess == {from \in DOMAIN less[d].inbound \cap DOMAIN less :
                        ~IsBurstMember(less[from], perMinute)}
<1>13. in \subseteq inLess
  <2> SUFFICES ASSUME NEW from \in in PROVE from \in inLess
    OBVIOUS
  <2>1. from \in S /\ from \in U
    BY <1>4, <1>9
  <2>2. from \in DOMAIN Inbound(posts, d, Known(S))
    BY <1>4, <1>9
  <2>3. PICK p \in posts : d \in Mentions(p, Known(S)) /\ from = p.sender
    BY <2>2 DEF Inbound, SendersOf
  <2>4. p \in rest
    BY <1>1, <2>1, <2>3 DEF rest, Without
  <2>5. d \in Mentions(p, Known(U))
    BY <1>8, <1>9, <2>3, MentionsWithout
  <2>6. from \in DOMAIN Inbound(rest, d, Known(U))
    BY <2>3, <2>4, <2>5 DEF Inbound, SendersOf
  <2>7. from \in DOMAIN less[d].inbound
    BY <1>4, <1>9, <2>6
  <2> QED
    BY <1>4, <1>12, <2>1, <2>7
<1> DEFINE a == InboundFromNonBurst(facts[d], facts, perMinute)
           b == InboundFromNonBurst(less[d], less, perMinute)
<1>14. a = Cardinality(in) /\ b = Cardinality(inLess)
  BY DEF InboundFromNonBurst
<1>15. IsFiniteSet(inLess)
  <2>1. IsFiniteSet(DOMAIN less[d].inbound)
    BY <1>7, <1>9 DEF GoodFacts
  <2>2. inLess \subseteq DOMAIN less[d].inbound
    OBVIOUS
  <2> QED
    BY <2>1, <2>2, FS_Subset
<1> HIDE DEF in, inLess
<1>16. a \in Nat /\ b \in Nat /\ a <= b
  BY <1>13, <1>14, <1>15, PartFacts
<1> HIDE DEF a, b
<1>17. /\ GoodFacts(facts[d]) /\ ~IsBurstMember(facts[d], perMinute) /\ facts[d].firstSeen.ts \in Nat
       /\ GoodFacts(less[d]) /\ ~IsBurstMember(less[d], perMinute) /\ less[d].firstSeen.ts \in Nat
       /\ less[d].firstSeen.ts = facts[d].firstSeen.ts
       /\ less[d].texts = facts[d].texts /\ less[d].posts = facts[d].posts
  BY <1>3, <1>4, <1>6, <1>7, <1>8, <1>9, <1>10, <1>12
<1> DEFINE c == Max({0, Min({now - facts[d].firstSeen.ts, MaxAge})})
                  * Rounded(facts[d].texts, facts[d].posts)
<1>18. c \in Nat /\ ScoreDid(facts[d], facts, now, perMinute).score = c * (1 + a)
  BY <1>17, ScoreOfFacts DEF a
<1>19. ScoreDid(less[d], less, now, perMinute).score = c * (1 + b)
  <2>1. ScoreDid(less[d], less, now, perMinute).score
          = Max({0, Min({now - less[d].firstSeen.ts, MaxAge})})
              * Rounded(less[d].texts, less[d].posts) * (1 + b)
    BY <1>17, ScoreOfFacts DEF b
  <2> QED
    BY <1>17, <2>1
<1> HIDE DEF c
<1>20. c * (1 + a) <= c * (1 + b)
  BY <1>16, <1>18, ScoreGrows
<1> QED
  BY <1>9, <1>18, <1>19, <1>20 DEF facts, less, U, rest

(* A ledger file gives back the rows it was written from. *)
LEMMA RowsComeBack ==
    ASSUME NEW L, SoundLedger(L)
    PROVE  /\ DOMAIN RowsOfFile(ToJsonl(L)) = DOMAIN L.rows
           /\ \A d \in DOMAIN L.rows : RowsOfFile(ToJsonl(L))[d] = L.rows[d]
<1> DEFINE D == DOMAIN L.rows
           before == {p \in D \X D : p[1] < p[2]}
           dids == SortedNumbers(D)
           lines == ToJsonl(L).lines
           rows == RowsOfFile(ToJsonl(L))
<1>1. IsFiniteSet(D) /\ \A d \in D : d \in Int /\ L.rows[d].facts.did = d
  BY DEF SoundLedger, IsLastSeen, LastSeenOf, GoodRow
<1>2. Orders(before, D)
  <2>1. \A a, b \in D : <<a, b>> \in before <=> a < b
    OBVIOUS
  <2> HIDE DEF before, D
  <2> QED
    BY <1>1, <2>1 DEF Orders
<1>3. Range(dids) = D
  <2>1. dids = SortedBy(D, before)
    BY DEF SortedNumbers
  <2> HIDE DEF dids, before, D
  <2> QED
    BY <1>1, <1>2, <2>1, Ordered
<1>4. lines = [i \in DOMAIN dids |-> L.rows[dids[i]]]
  BY DEF ToJsonl
<1>5. rows = [did \in {LineDid(row) : row \in Range(lines)} |->
                CHOOSE row \in Range(lines) : LineDid(row) = did]
  BY DEF RowsOfFile
<1> HIDE DEF lines, dids, D, rows
<1>6. \A row : row \in Range(lines) <=> \E d \in D : row = L.rows[d]
  BY <1>3, <1>4 DEF Range
<1>7. \A d \in D : LineDid(L.rows[d]) = d
  BY <1>1 DEF LineDid
<1>8. DOMAIN rows = D
  BY <1>5, <1>6, <1>7
<1>9. ASSUME NEW d \in D PROVE rows[d] = L.rows[d]
  <2>1. \A row \in Range(lines) : LineDid(row) = d => row = L.rows[d]
    BY <1>6, <1>7
  <2>2. L.rows[d] \in Range(lines) /\ LineDid(L.rows[d]) = d
    BY <1>6, <1>7
  <2>3. rows[d] = CHOOSE row \in Range(lines) : LineDid(row) = d
    BY <1>5, <1>8
  <2> QED
    BY <2>1, <2>2, <2>3
<1> QED
  BY <1>8, <1>9 DEF rows, D

(* A build's rows are the posts' senders, each with the score of its facts. *)
LEMMA BuiltScores ==
    ASSUME NEW read, NEW o
    PROVE  LET posts == LoadPosts(read, o.rooms)
               facts == BuildFacts(posts, LoadDidNotes(o.notes), o.window, o.minNew)
               rows  == BuildLedger(read, o).rows
           IN  /\ DOMAIN rows = SendersOf(posts)
               /\ \A d \in SendersOf(posts) :
                     rows[d].score = ScoreDid(facts[d], facts, o.now, o.perMinute)
<1> DEFINE posts == LoadPosts(read, o.rooms)
           D == SendersOf(posts)
           facts == BuildFacts(posts, LoadDidNotes(o.notes), o.window, o.minNew)
           rows == BuildLedger(read, o).rows
<1>1. DOMAIN facts = D
  BY DEF BuildFacts
<1> HIDE DEF facts
<1>2. rows = [d \in DOMAIN facts |->
                [facts |-> facts[d], score |-> ScoreDid(facts[d], facts, o.now, o.perMinute)]]
  BY DEF BuildLedger, LoadReport, facts
<1> HIDE DEF rows, D, posts
<1>3. DOMAIN rows = D /\ \A d \in D : rows[d].score = ScoreDid(facts[d], facts, o.now, o.perMinute)
  BY <1>1, <1>2
<1> QED
  BY <1>3 DEF rows, facts, D, posts

(* A score says whether its DID is in a burst, and a burst member's is 0. *)
LEMMA ScoreOfBurst ==
    ASSUME NEW f, NEW all, NEW now, NEW perMinute
    PROVE  /\ ScoreDid(f, all, now, perMinute).burst = IsBurstMember(f, perMinute)
           /\ IsBurstMember(f, perMinute) => ScoreDid(f, all, now, perMinute).score = 0
  BY DEF ScoreDid, ScoreFromFacts

(* What a build's bursts posted gives nobody anything. *)
LEMMA BurstsGiveNothing ==
    ASSUME NEW read, IsRead(read), NEW o, NEW now \in Nat, o.now = now,
           o.window \in Nat, o.minNew \in Nat
    PROVE  LET rows == BuildLedger(read, o).rows
               burst == {d \in DOMAIN rows : rows[d].score.burst}
               without == BuildLedger(WithoutSenders(read, burst), o).rows
           IN  \A d \in DOMAIN rows :
                 IF d \in burst
                   THEN rows[d].score.score = 0
                   ELSE d \in DOMAIN without /\ rows[d].score.score <= without[d].score.score
<1> DEFINE rows == BuildLedger(read, o).rows
           posts == LoadPosts(read, o.rooms)
           notes == LoadDidNotes(o.notes)
           facts == BuildFacts(posts, notes, o.window, o.minNew)
           S == SendersOf(posts)
           bad == {d \in S : IsBurstMember(facts[d], o.perMinute)}
           burst == {d \in DOMAIN rows : rows[d].score.burst}
           rest == Without(posts, bad)
           less == BuildFacts(rest, notes, o.window, o.minNew)
           without == BuildLedger(WithoutSenders(read, burst), o).rows
<1>3. AreRows(posts)
  BY PostsAreRows
<1>8. /\ DOMAIN rows = S
      /\ \A d \in S : rows[d].score = ScoreDid(facts[d], facts, now, o.perMinute)
  <2>1. /\ DOMAIN rows = S
        /\ \A d \in S : rows[d].score = ScoreDid(facts[d], facts, o.now, o.perMinute)
    BY ONLY BuiltScores
  <2> HIDE DEF facts, S, rows
  <2> QED
    BY <2>1
<1> HIDE DEF facts, posts, notes
<1>10. ASSUME NEW d \in S
       PROVE  /\ rows[d].score.burst = IsBurstMember(facts[d], o.perMinute)
              /\ IsBurstMember(facts[d], o.perMinute) => rows[d].score.score = 0
  <2> HIDE DEF rows, S
  <2>1. rows[d].score = ScoreDid(facts[d], facts, now, o.perMinute)
    BY <1>8
  <2> QED
    BY <2>1, ScoreOfBurst
<1> HIDE DEF rows
<1>11. burst = bad
  BY <1>8, <1>10
<1>12. LoadPosts(WithoutSenders(read, burst), o.rooms) = rest
  <2> HIDE DEF burst, bad, S
  <2>1. posts = LoadPosts(read, o.rooms)
    BY DEF posts
  <2> QED
    BY <1>11, <2>1, LoadedWithout
<1>13. /\ DOMAIN without = SendersOf(rest)
       /\ \A d \in SendersOf(rest) : without[d].score = ScoreDid(less[d], less, now, o.perMinute)
  <2> DEFINE q == WithoutSenders(read, burst)
             back == LoadPosts(q, o.rooms)
             own == BuildFacts(back, LoadDidNotes(o.notes), o.window, o.minNew)
  <2> HIDE DEF burst
  <2> HIDE DEF q
  <2>1. /\ DOMAIN BuildLedger(q, o).rows = SendersOf(back)
        /\ \A d \in SendersOf(back) :
              BuildLedger(q, o).rows[d].score = ScoreDid(own[d], own, o.now, o.perMinute)
    BY ONLY BuiltScores
  <2>2. back = rest
    BY <1>12 DEF q
  <2>3. own = less
    BY <2>2 DEF notes
  <2>4. without = BuildLedger(q, o).rows
    BY DEF q
  <2> HIDE DEF back, own, without, less, rest
  <2> QED
    BY <2>1, <2>2, <2>3, <2>4
<1>16. ASSUME NEW d \in S \ bad
       PROVE  /\ d \in SendersOf(rest)
              /\ ScoreDid(facts[d], facts, now, o.perMinute).score
                   <= ScoreDid(less[d], less, now, o.perMinute).score
  <2> DEFINE w == o.window
             mn == o.minNew
             pm == o.perMinute
  <2>1. bad = {e \in SendersOf(posts) : IsBurstMember(BuildFacts(posts, notes, w, mn)[e], pm)}
    BY DEF facts
  <2>2. d \in SendersOf(posts) \ bad /\ w \in Nat /\ mn \in Nat
    OBVIOUS
  <2>3. facts = BuildFacts(posts, notes, w, mn) /\ less = BuildFacts(Without(posts, bad), notes, w, mn)
    BY DEF facts
  <2>4. rest = Without(posts, bad)
    OBVIOUS
  <2> HIDE DEF bad, w, mn, pm, less, rest
  <2>5. /\ d \in SendersOf(Without(posts, bad))
        /\ ScoreDid(BuildFacts(posts, notes, w, mn)[d], BuildFacts(posts, notes, w, mn), now, pm).score
             <= ScoreDid(BuildFacts(Without(posts, bad), notes, w, mn)[d],
                         BuildFacts(Without(posts, bad), notes, w, mn), now, pm).score
    <3> USE <1>3, <2>1, <2>2
    <3>1. d \in SendersOf(Without(posts, bad))
      BY DEF SendersOf, Without
    <3>2. ScoreDid(BuildFacts(posts, notes, w, mn)[d], BuildFacts(posts, notes, w, mn), now, pm).score
            <= ScoreDid(BuildFacts(Without(posts, bad), notes, w, mn)[d],
                        BuildFacts(Without(posts, bad), notes, w, mn), now, pm).score
      BY ScoreWithout
    <3> QED
      BY <3>1, <3>2
  <2> QED
    BY <2>3, <2>4, <2>5 DEF pm
<1> HIDE DEF less, without, rest
<1>17. ASSUME NEW d \in DOMAIN rows
       PROVE  IF d \in burst
                THEN rows[d].score.score = 0
                ELSE d \in DOMAIN without /\ rows[d].score.score <= without[d].score.score
  <2>1. d \in S
    BY <1>8
  <2>2. CASE d \in burst
    <3>1. IsBurstMember(facts[d], o.perMinute)
      BY <1>11, <2>2
    <3> QED
      BY <1>10, <2>1, <2>2, <3>1
  <2>3. CASE d \notin burst
    <3>1. d \in S \ bad
      BY <1>11, <2>1, <2>3
    <3>2. d \in DOMAIN without /\ without[d].score = ScoreDid(less[d], less, now, o.perMinute)
      BY <1>13, <1>16, <3>1
    <3>3. rows[d].score = ScoreDid(facts[d], facts, now, o.perMinute)
      BY <1>8, <2>1
    <3>4. ScoreDid(facts[d], facts, now, o.perMinute).score
            <= ScoreDid(less[d], less, now, o.perMinute).score
      BY <1>16, <3>1
    <3> QED
      BY <2>3, <3>2, <3>3, <3>4
  <2> QED
    BY <2>2, <2>3
<1> QED
  BY <1>17 DEF rows, burst, without

(* A ledger on disk that was built of its basis gives nothing for bursts. *)
LEMMA BurstHolds ==
    ASSUME opts \in OptionSets, LedgerOk
    PROVE  BurstBuysNothing
<1> SUFFICES ASSUME disk.ledger # NoFile PROVE BurstBuysNothing
  BY DEF BurstBuysNothing
<1> DEFINE read == basis.ledger.log
           now == basis.ledger.now
           o == OptsAt(now)
           built == BuildLedger(read, o)
           rows == RowsOfFile(disk.ledger)
           Gives(of) ==
              LET burst == {d \in DOMAIN of : of[d].score.burst}
                  without == BuildLedger(WithoutSenders(read, burst), o).rows
              IN  \A d \in DOMAIN of :
                    IF d \in burst
                      THEN of[d].score.score = 0
                      ELSE d \in DOMAIN without /\ of[d].score.score <= without[d].score.score
<1>1. IsRead(read) /\ now \in Nat /\ disk.ledger = ToJsonl(built)
  BY DEF LedgerOk, IsBuilt
<1>2. o.window \in Nat /\ o.minNew \in Nat /\ o.now = now
  BY SizesAssumption DEF OptsAt
<1>3. SoundLedger(built)
  <2> HIDE DEF read, o
  <2> QED
    BY <1>1, BuiltIsSound
<1>4. rows = built.rows
  <2>1. DOMAIN rows = DOMAIN built.rows /\ \A d \in DOMAIN built.rows : rows[d] = built.rows[d]
    <3> HIDE DEF built
    <3> QED
      BY <1>1, <1>3, RowsComeBack
  <2>2. rows = [d \in DOMAIN rows |-> rows[d]]
    BY DEF RowsOfFile
  <2>3. built.rows = [d \in DOMAIN built.rows |-> built.rows[d]]
    BY DEF BuildLedger
  <2> HIDE DEF rows, built
  <2> QED
    BY <2>1, <2>2, <2>3
<1>5. Gives(built.rows)
  <2> HIDE DEF read, o, now
  <2> QED
    BY <1>1, <1>2, BurstsGiveNothing
<1>6. Gives(rows)
  <2> HIDE DEF Gives, rows, built
  <2> QED
    BY <1>4, <1>5
<1> QED
  BY <1>6 DEF BurstBuysNothing

(* For every log, every order of reads, polls and kills, and all options: a
   burst member scores 0, and nobody scores more for what bursts posted. *)
THEOREM BurstsBuyNothing == Spec => []BurstBuysNothing
<1>1. IInv /\ BuildInv => BurstBuysNothing
  BY BurstHolds DEF IInv, TypeOK, BuildInv
<1> QED
  BY Invariance, BuildsKeepTheirBasis, <1>1, PTL

-----------------------------------------------------------------------------
(* What is published of an index. *)

StaticFiles == {"manifestJson", "surface", "lexical"}
StepsOfPublish == {"hash", "manifestJson", "surface", "lexical"}
LexicalSteps == {"docs", "lexicalAlone"}

(* The documents a lexical index is built of. *)
IsText(tokens) ==
    /\ IsFiniteSet(DOMAIN tokens) /\ \A t \in DOMAIN tokens : tokens[t] \in Nat \ {0}
    /\ SumFunction(tokens) <= MaxTokens
AreDocs(docs) ==
    /\ docs \in Seq(Range(docs)) /\ Len(docs) <= Cardinality(DOMAIN Words)
    /\ \A i \in DOMAIN docs :
          /\ DOMAIN docs[i] = {"doc", "url", "kind", "abstract", "tokens", "length"}
          /\ IsText(docs[i].tokens) /\ docs[i].length = SumFunction(docs[i].tokens)

(* What a publication holds, and has already written of it. *)
PublishHeld ==
    /\ job.kind = "publish" <=> job.step \in StepsOfPublish
    /\ job.kind = "lexical" <=> job.step \in LexicalSteps
    /\ job.kind \in {"publish", "lexical"} =>
          job.held.run = jobs /\ job.held.at \in Nat /\ job.held.at <= store.db
    /\ job.kind = "publish" \/ At("docs") => IsIndex(job.held.rows)
    /\ job.step \in {"manifestJson", "surface", "lexical"} => job.held.db \in Nat /\ job.held.at <= job.held.db
    /\ At("surface") =>
          /\ disk.manifestJson # NoFile /\ basis.manifestJson.of = job.held
          /\ \E found \in SUBSET store.extracted : job.read = Surface(job.held.rows, found)
    /\ At("lexical") =>
          /\ basis.surface.of = job.held
          /\ \E found \in SUBSET store.extracted : disk.surface = Surface(job.held.rows, found)
    /\ At("lexicalAlone") => AreDocs(job.held.docs)

(* The files that the command that runs has still to write. *)
Unwritten(f) ==
    \/ job.step \in {"hash", "manifestJson"} \cup LexicalSteps
    \/ At("surface") /\ f # "manifestJson"
    \/ At("lexical") /\ f = "lexical"
RunsOk ==
    \A f \in StaticFiles : disk[f] # NoFile =>
       /\ basis[f].of.run \in Nat /\ basis[f].of.run <= jobs
       /\ Unwritten(f) => basis[f].of.run < jobs

ManifestJsonOk ==
    disk.manifestJson # NoFile =>
      LET of == basis.manifestJson.of
      IN  /\ IsIndex(of.rows) /\ of.at \in Nat /\ of.db \in Nat /\ of.at <= of.db
          /\ disk.manifestJson = ManifestObj(of.rows, of.db)

SurfaceOk ==
    disk.surface # NoFile =>
      LET of == basis.surface.of
      IN  /\ IsIndex(of.rows)
          /\ \E found \in SUBSET store.extracted : disk.surface = Surface(of.rows, found)
          /\ disk.manifestJson # NoFile /\ of.run <= basis.manifestJson.of.run
          /\ basis.manifestJson.of.run = of.run => basis.manifestJson.of = of

LexicalOk ==
    disk.lexical # NoFile =>
      LET of == basis.lexical.of
          db == disk.lexical.db
      IN  /\ AreDocs(of.docs) /\ of.at \in Nat /\ db \in Nat /\ of.at <= db
          /\ disk.lexical = BuildLexicalIndex(of.docs, db)
          /\ LexicalSize(disk.lexical) <= Max({opts.maxLexical, opts.maxLexicalAlone})
          /\ OfOnePublication("surface", "lexical") => SameDocuments(disk.lexical, disk.surface)

StaticInv ==
    /\ IsIndex(store.rows)
    /\ PublishHeld /\ RunsOk
    /\ ManifestJsonOk /\ SurfaceOk /\ LexicalOk

LiveIn(rows) == {d \in DOMAIN rows : rows[d].status = "indexed"}

(* A transaction of the indexer leaves one live document for each URL. *)
LEMMA IndexKept ==
    ASSUME NEW rows, IsIndex(rows), NEW d \in DOMAIN Words, NEW row \in Entries
    PROVE  IsIndex(Table!WriteManifestEntry(rows, d, row))
<1> DEFINE up == Table!Upsert(rows, d, row)
           new == Table!WriteManifestEntry(rows, d, row)
<1>1. /\ DOMAIN up \subseteq DOMAIN Words
      /\ \A x \in DOMAIN up : up[x] \in Entries
      /\ \A x \in DOMAIN up \ {d} : x \in DOMAIN rows /\ up[x] = rows[x]
      /\ d \in DOMAIN up /\ (row.status = "indexed" => up[d] = row)
      /\ row.status # "indexed" /\ up[d].status = "indexed" => d \in DOMAIN rows /\ up[d] = rows[d]
  BY DEF Table!Upsert, IsIndex
<1>2. CASE row.status # "indexed"
  <2>1. new = up
    BY <1>2 DEF Table!WriteManifestEntry
  <2> HIDE DEF up, new
  <2>2. \A x \in DOMAIN up : up[x].status = "indexed" => x \in DOMAIN rows /\ up[x] = rows[x]
    BY <1>1, <1>2
  <2>3. IsIndex(up)
    BY <1>1, <2>2 DEF IsIndex
  <2> QED
    BY <2>1, <2>3 DEF new
<1>3. CASE row.status = "indexed"
  <2>1. new = Table!Supersede(up, d, row.source_url)
    BY <1>3 DEF Table!WriteManifestEntry
  <2> HIDE DEF up, new
  <2>2. DOMAIN new = DOMAIN up
    BY <2>1 DEF Table!Supersede
  <2>3. ASSUME NEW x \in DOMAIN up
        PROVE  new[x] = IF x # d /\ up[x].status = "indexed" /\ up[x].source_url = row.source_url
                          THEN [up[x] EXCEPT !.status = "superseded"] ELSE up[x]
    BY <2>1 DEF Table!Supersede, Table!LiveAt
  <2>4. ASSUME NEW x \in DOMAIN up
        PROVE  /\ new[x] \in Entries /\ new[x].source_url = up[x].source_url
               /\ new[x].status = "indexed" =>
                     up[x].status = "indexed" /\ (x # d => up[x].source_url # row.source_url)
    <3>1. up[x] \in Entries
      BY <1>1
    <3>2. [up[x] EXCEPT !.status = "superseded"] \in Entries
          /\ [up[x] EXCEPT !.status = "superseded"].source_url = up[x].source_url
          /\ [up[x] EXCEPT !.status = "superseded"].status = "superseded"
      BY <3>1 DEF Entries, Table!Statuses
    <3> QED
      BY <2>3, <3>1, <3>2
  <2>5. ASSUME NEW x \in DOMAIN new, NEW y \in DOMAIN new,
               new[x].status = "indexed", new[y].status = "indexed",
               new[x].source_url = new[y].source_url
        PROVE  x = y
    <3>1. up[d] = row
      BY <1>1, <1>3
    <3>2. CASE x = d \/ y = d
      BY <2>2, <2>4, <2>5, <3>1, <3>2
    <3>3. CASE x # d /\ y # d
      <4>1. x \in DOMAIN rows /\ y \in DOMAIN rows /\ up[x] = rows[x] /\ up[y] = rows[y]
        BY <1>1, <2>2, <3>3
      <4> QED
        BY <2>2, <2>4, <2>5, <4>1 DEF IsIndex
    <3> QED
      BY <3>2, <3>3
  <2>6. DOMAIN new \subseteq DOMAIN Words /\ \A x \in DOMAIN new : new[x] \in Entries
    BY <1>1, <2>2, <2>4
  <2>7. IsIndex(new)
    BY <2>5, <2>6 DEF IsIndex
  <2> QED
    BY <2>7 DEF new
<1> QED
  BY <1>2, <1>3

(* The indexed rows in their order are the live documents, each once. *)
LEMMA IndexedFacts ==
    ASSUME NEW rows, IsIndex(rows)
    PROVE  LET docs == IndexedOf(rows)
           IN  /\ docs \in Seq(LiveIn(rows)) /\ DOMAIN docs = 1..Len(docs) /\ Len(docs) \in Nat
               /\ Range(docs) = LiveIn(rows) /\ IsInjective(docs)
               /\ Len(docs) = Cardinality(LiveIn(rows)) /\ IsFiniteSet(LiveIn(rows))
               /\ Len(docs) <= Cardinality(DOMAIN Words)
<1> DEFINE live == {d \in DOMAIN rows : rows[d].status = "indexed"}
           At1(d) == <<rows[d].source_kind, rows[d].source_url, d>>
           Before(a, b) == \E i \in 1..3 : a[i] < b[i] /\ \A j \in 1..(i - 1) : a[j] = b[j]
           before == {p \in live \X live : Before(At1(p[1]), At1(p[2]))}
           docs == IndexedOf(rows)
<1>1. docs = SortedBy(live, before)
  BY DEF IndexedOf
<1>2. /\ IsFiniteSet(live) /\ Cardinality(live) <= Cardinality(DOMAIN Words)
      /\ \A d \in live : d \in Nat /\ rows[d].source_kind \in Nat /\ rows[d].source_url \in Nat
  <2>1. live \subseteq DOMAIN Words /\ IsFiniteSet(DOMAIN Words)
    BY StaticAssumption DEF IsIndex
  <2>2. \A d \in live : d \in Nat /\ rows[d].source_kind \in Nat /\ rows[d].source_url \in Nat
    BY <2>1, StaticAssumption DEF IsIndex, Entries
  <2> QED
    BY <2>1, <2>2, PartFacts
<1>3. ASSUME NEW d \in live, NEW e \in live
      PROVE  <<d, e>> \in before <=>
               \/ rows[d].source_kind < rows[e].source_kind
               \/ rows[d].source_kind = rows[e].source_kind /\ rows[d].source_url < rows[e].source_url
               \/ /\ rows[d].source_kind = rows[e].source_kind
                  /\ rows[d].source_url = rows[e].source_url /\ d < e
  <2> DEFINE a == At1(d)
             b == At1(e)
  <2>1. <<d, e>> \in before <=> Before(a, b)
    OBVIOUS
  <2>2. /\ a[1] = rows[d].source_kind /\ a[2] = rows[d].source_url /\ a[3] = d
        /\ b[1] = rows[e].source_kind /\ b[2] = rows[e].source_url /\ b[3] = e
    OBVIOUS
  <2> HIDE DEF a, b
  <2>3. Before(a, b) <=> \/ a[1] < b[1]
                         \/ a[1] = b[1] /\ a[2] < b[2]
                         \/ a[1] = b[1] /\ a[2] = b[2] /\ a[3] < b[3]
    <3>1. 1..3 = {1, 2, 3} /\ 1..(1 - 1) = {} /\ 1..(2 - 1) = {1} /\ 1..(3 - 1) = {1, 2}
      OBVIOUS
    <3> QED
      BY <3>1
  <2> HIDE DEF before, Before
  <2> QED
    BY <2>1, <2>2, <2>3
<1>4. Orders(before, live)
  <2> HIDE DEF before, live
  <2> QED
    BY <1>2, <1>3 DEF Orders
<1> HIDE DEF before
<1>5. LET s == SortedBy(live, before)
      IN  /\ s \in Seq(live) /\ Len(s) = Cardinality(live) /\ Cardinality(live) \in Nat
          /\ DOMAIN s = 1..Cardinality(live) /\ Range(s) = live /\ IsInjective(s)
  <2> HIDE DEF live
  <2> QED
    BY <1>2, <1>4, Ordered
<1> QED
  BY <1>1, <1>2, <1>5 DEF LiveIn

(* What build_lexical_index reads of an index are documents with a text. *)
LEMMA DocsFacts ==
    ASSUME NEW rows, IsIndex(rows), NEW found
    PROVE  AreDocs(LexicalDocs(rows, found))
<1> DEFINE order == IndexedOf(rows)
           docs == LexicalDocs(rows, found)
           Doc(d) == LET url == rows[d].source_url
                     IN  [doc |-> d, url |-> url, kind |-> rows[d].source_kind,
                          abstract |-> AbstractOf(d, found),
                          tokens |-> TokensOf(d, url, found),
                          length |-> SumFunction(TokensOf(d, url, found))]
<1>1. docs = [i \in DOMAIN order |-> Doc(order[i])]
  BY DEF LexicalDocs
<1>2. /\ DOMAIN order = 1..Len(order) /\ Len(order) \in Nat
      /\ Len(order) <= Cardinality(DOMAIN Words)
      /\ \A i \in DOMAIN order : order[i] \in DOMAIN rows
  <2>1. Range(order) = LiveIn(rows)
    BY IndexedFacts
  <2>2. \A i \in DOMAIN order : order[i] \in LiveIn(rows)
    BY <2>1 DEF Range
  <2> QED
    BY <2>2, IndexedFacts DEF LiveIn
<1>3. ASSUME NEW d \in DOMAIN rows PROVE IsText(TokensOf(d, rows[d].source_url, found))
  <2>1. d \in DOMAIN Words /\ rows[d].source_url \in DOMAIN UrlWords
    BY DEF IsIndex, Entries
  <2>2. \E some \in {{}, DOMAIN Words} :
           TokensOf(d, rows[d].source_url, found) = TokensOf(d, rows[d].source_url, some)
    BY <2>1 DEF TokensOf
  <2> QED
    BY <2>1, <2>2, StaticAssumption DEF IsText
<1> HIDE DEF order, docs
<1>4. DOMAIN docs = 1..Len(order) /\ \A i \in DOMAIN docs : docs[i] = Doc(order[i])
  BY <1>1, <1>2
<1>5. docs \in Seq(Range(docs)) /\ Len(docs) = Len(order)
  <2>1. docs \in [1..Len(order) -> Range(docs)]
    BY <1>1, <1>4 DEF Range
  <2>2. docs \in Seq(Range(docs))
    BY <1>2, <2>1
  <2> QED
    BY <1>2, <1>4, <2>2, LenProperties
<1>6. ASSUME NEW i \in DOMAIN docs
      PROVE  /\ DOMAIN docs[i] = {"doc", "url", "kind", "abstract", "tokens", "length"}
             /\ IsText(docs[i].tokens) /\ docs[i].length = SumFunction(docs[i].tokens)
  <2>1. docs[i] = Doc(order[i]) /\ order[i] \in DOMAIN rows
    BY <1>2, <1>4
  <2> QED
    BY <1>3, <2>1
<1> QED
  BY <1>2, <1>5, <1>6 DEF AreDocs, docs

(* The lines of the surface file, and those of a lexical index of the same
   rows that is built later. *)
LEMMA SameLines ==
    ASSUME NEW rows, IsIndex(rows), NEW found, NEW more, found \subseteq more, NEW db
    PROVE  SameDocuments(BuildLexicalIndex(LexicalDocs(rows, more), db), Surface(rows, found))
<1> DEFINE order == IndexedOf(rows)
           docs == LexicalDocs(rows, more)
           surface == Surface(rows, found)
           index == BuildLexicalIndex(docs, db)
<1>1. /\ DOMAIN docs = DOMAIN order
      /\ \A i \in DOMAIN order :
            /\ docs[i].doc = order[i] /\ docs[i].url = rows[order[i]].source_url
            /\ docs[i].abstract = AbstractOf(order[i], more)
            /\ DOMAIN docs[i] = {"doc", "url", "kind", "abstract", "tokens", "length"}
  BY DEF LexicalDocs
<1>2. /\ DOMAIN surface = DOMAIN order
      /\ \A i \in DOMAIN order :
            /\ surface[i].doc = order[i] /\ surface[i].url = rows[order[i]].source_url
            /\ surface[i].abstract = AbstractOf(order[i], found)
  BY DEF Surface
<1> HIDE DEF docs, surface
<1>3. index.docs = [i \in DOMAIN docs |-> [f \in DOMAIN docs[i] \ {"tokens"} |-> docs[i][f]]]
  BY DEF BuildLexicalIndex
<1>4. Len(index.docs) = Len(surface)
  <2>1. /\ DOMAIN order = 1..Len(order) /\ Len(order) \in Nat
    BY IndexedFacts
  <2> HIDE DEF index, order
  <2>2. index.docs \in [1..Len(order) -> Range(index.docs)] /\ surface \in [1..Len(order) -> Range(surface)]
    <3>1. surface = [i \in DOMAIN surface |-> surface[i]]
      BY DEF surface, Surface
    <3> QED
      BY <1>1, <1>2, <1>3, <2>1, <3>1 DEF Range
  <2>3. index.docs \in Seq(Range(index.docs)) /\ surface \in Seq(Range(surface))
    BY <2>1, <2>2
  <2> QED
    BY <2>1, <2>2, <2>3, LenProperties
<1> HIDE DEF index
<1>5. ASSUME NEW i \in DOMAIN surface
      PROVE  /\ index.docs[i].doc = surface[i].doc /\ index.docs[i].url = surface[i].url
             /\ surface[i].abstract \in {NoText, index.docs[i].abstract}
  <2>1. i \in DOMAIN order /\ i \in DOMAIN docs
    BY <1>1, <1>2
  <2>2. /\ index.docs[i].doc = order[i] /\ index.docs[i].url = rows[order[i]].source_url
        /\ index.docs[i].abstract = AbstractOf(order[i], more)
    BY <1>1, <1>3, <2>1
  <2>3. AbstractOf(order[i], found) \in {NoText, AbstractOf(order[i], more)}
    BY DEF AbstractOf
  <2> QED
    BY <1>2, <2>1, <2>2, <2>3
<1> QED
  BY <1>4, <1>5 DEF SameDocuments, index, docs, surface

(* manifest.json and the surface file of the same rows. *)
ListsAlike(m, surface) ==
    LET live == {e \in Range(m.documents) : e[3].status = "indexed"}
    IN  /\ {<<s.url, s.doc>> : s \in Range(surface)} = {<<e[1], e[2]>> : e \in live}
        /\ Cardinality({e[1] : e \in live}) = Cardinality(live)
        /\ m.counts["indexed"] = Len(surface)

LEMMA SameListing ==
    ASSUME NEW rows, IsIndex(rows), NEW found, NEW db
    PROVE  ListsAlike(ManifestObj(rows, db), Surface(rows, found))
<1> DEFINE entries == {<<rows[d].source_url, d, rows[d]>> : d \in DOMAIN rows}
           before == {p \in entries \X entries :
                        \/ p[1][1] < p[2][1]
                        \/ p[1][1] = p[2][1] /\ p[1][2] < p[2][2]}
           m == ManifestObj(rows, db)
           surface == Surface(rows, found)
           order == IndexedOf(rows)
           live == {e \in Range(m.documents) : e[3].status = "indexed"}
<1>1. m.documents = SortedBy(entries, before) /\ m.db = db
      /\ m.counts["indexed"] = Cardinality({d \in DOMAIN rows : rows[d].status = "indexed"})
  BY DEF ManifestObj, CountsFromEntries, Table!Statuses
<1>2. IsFiniteSet(entries) /\ \A e \in entries : e[1] \in Nat /\ e[2] \in Nat
  <2> DEFINE f == [d \in DOMAIN rows |-> <<rows[d].source_url, d, rows[d]>>]
  <2>1. IsFiniteSet(DOMAIN rows) /\ \A d \in DOMAIN rows : d \in Nat /\ rows[d].source_url \in Nat
    BY StaticAssumption, PartFacts DEF IsIndex, Entries
  <2>2. entries = {f[d] : d \in DOMAIN rows}
    OBVIOUS
  <2>3. IsFiniteSet({f[d] : d \in DOMAIN rows})
    <3> HIDE DEF f
    <3> QED
      BY <2>1, ImageFacts
  <2>4. \A e \in entries : e[1] \in Nat /\ e[2] \in Nat
    BY <2>1
  <2> QED
    BY <2>2, <2>3, <2>4
<1>3. \A e, x \in entries : e[2] = x[2] => e = x
  OBVIOUS
<1>4. Orders(before, entries)
  <2>1. \A e, x \in entries : <<e, x>> \in before <=> e[1] < x[1] \/ (e[1] = x[1] /\ e[2] < x[2])
    OBVIOUS
  <2> HIDE DEF before, entries
  <2> QED
    BY <1>2, <1>3, <2>1 DEF Orders
<1>5. Range(SortedBy(entries, before)) = entries
  <2> HIDE DEF entries, before
  <2> QED
    BY <1>2, <1>4, Ordered
<1> HIDE DEF m, before
<1>6. \A e : e \in live <=> \E d \in LiveIn(rows) : e = <<rows[d].source_url, d, rows[d]>>
  BY <1>1, <1>5 DEF LiveIn
<1>7. Range(order) = LiveIn(rows) /\ Len(order) = Cardinality(LiveIn(rows)) /\ IsFiniteSet(LiveIn(rows))
      /\ DOMAIN order = 1..Len(order) /\ Len(order) \in Nat
  BY IndexedFacts
<1>8. /\ DOMAIN surface = DOMAIN order /\ surface = [i \in DOMAIN order |-> surface[i]]
      /\ \A i \in DOMAIN order : surface[i].doc = order[i] /\ surface[i].url = rows[order[i]].source_url
  BY DEF Surface
<1> HIDE DEF surface, order, live
<1>9. \A s : s \in Range(surface) => \E d \in LiveIn(rows) : s.doc = d /\ s.url = rows[d].source_url
  BY <1>7, <1>8 DEF Range
<1>10. \A d \in LiveIn(rows) : \E s \in Range(surface) : s.doc = d /\ s.url = rows[d].source_url
  BY <1>7, <1>8 DEF Range
<1>11. {<<s.url, s.doc>> : s \in Range(surface)} = {<<e[1], e[2]>> : e \in live}
  <2>1. ASSUME NEW s \in Range(surface) PROVE \E e \in live : <<s.url, s.doc>> = <<e[1], e[2]>>
    <3>1. PICK d \in LiveIn(rows) : s.doc = d /\ s.url = rows[d].source_url
      BY <1>9
    <3>2. <<rows[d].source_url, d, rows[d]>> \in live
      BY <1>6
    <3> QED
      BY <3>1, <3>2
  <2>2. ASSUME NEW e \in live PROVE \E s \in Range(surface) : <<s.url, s.doc>> = <<e[1], e[2]>>
    <3>1. PICK d \in LiveIn(rows) : e = <<rows[d].source_url, d, rows[d]>>
      BY <1>6
    <3>2. PICK s \in Range(surface) : s.doc = d /\ s.url = rows[d].source_url
      BY <1>10
    <3> QED
      BY <3>1, <3>2
  <2> QED
    BY <2>1, <2>2
<1>12. Cardinality({e[1] : e \in live}) = Cardinality(live)
  <2> DEFINE g == [e \in live |-> e[1]]
             urls == {e[1] : e \in live}
  <2>1. \A e, x \in live : e[1] = x[1] => e = x
    BY <1>6 DEF LiveIn, IsIndex
  <2>2. g \in Bijection(live, urls)
    <3>1. g \in [live -> urls] /\ \A y \in urls : \E e \in live : g[e] = y
      OBVIOUS
    <3>2. \A e, x \in live : g[e] = g[x] => e = x
      BY <2>1
    <3> HIDE DEF g, urls
    <3> QED
      BY <3>1, <3>2 DEF Bijection, Injection, Surjection, IsInjective
  <2>3. IsFiniteSet(live)
    <3> DEFINE f == [d \in LiveIn(rows) |-> <<rows[d].source_url, d, rows[d]>>]
    <3>1. live = {f[d] : d \in LiveIn(rows)}
      BY <1>6
    <3> HIDE DEF f
    <3> QED
      BY <1>7, <3>1, ImageFacts
  <2> HIDE DEF g, urls
  <2>4. Cardinality(urls) = Cardinality(live)
    BY <2>2, <2>3, FS_Bijection DEF ExistsBijection
  <2> QED
    BY <2>4 DEF urls
<1>13. Len(surface) = Len(order)
  <2>1. surface \in [1..Len(order) -> Range(surface)]
    BY <1>7, <1>8 DEF Range
  <2>2. surface \in Seq(Range(surface))
    BY <1>7, <2>1
  <2> QED
    BY <1>7, <1>8, <2>2, LenProperties
<1>14. m.counts["indexed"] = Len(surface)
  BY <1>1, <1>7, <1>13 DEF LiveIn
<1> QED
  BY <1>1, <1>11, <1>12, <1>14 DEF m, surface, live, ListsAlike

(* The documents of a term, and its postings. *)
LEMMA PostingsFacts ==
    ASSUME NEW docs, AreDocs(docs), NEW t
    PROVE  LET having == Having(t, docs)
               postings == Postings(t, docs)
           IN  /\ IsFiniteSet(having) /\ having \subseteq DOMAIN docs /\ having \subseteq Nat
               /\ Len(postings) = Cardinality(having) /\ Len(postings) \in Nat
               /\ DOMAIN postings = 1..Len(postings)
               /\ \A i \in having : \E n \in DOMAIN postings : postings[n][1] = i
               /\ \A n \in DOMAIN postings : /\ postings[n][1] \in having
                                             /\ postings[n][2] = docs[postings[n][1]].tokens[t]
                                             /\ postings[n][2] \in Nat \ {0}
               /\ \A n, l \in DOMAIN postings : n < l => postings[n][1] < postings[l][1]
<1> DEFINE having == Having(t, docs)
           with == SortedNumbers(having)
           postings == Postings(t, docs)
<1>1. DOMAIN docs = 1..Len(docs) /\ Len(docs) \in Nat
  BY LenProperties DEF AreDocs
<1>2. IsFiniteSet(having) /\ having \subseteq DOMAIN docs /\ having \subseteq Nat
  <2>1. having \subseteq 1..Len(docs)
    BY <1>1 DEF Having
  <2>2. IsFiniteSet(1..Len(docs))
    BY <1>1, FS_Interval
  <2> QED
    BY <1>1, <2>1, <2>2, FS_Subset
<1>3. \A i \in having : docs[i].tokens[t] \in Nat \ {0}
  BY DEF Having, AreDocs, IsText
<1> HIDE DEF having
<1>4. /\ with \in Seq(having) /\ Len(with) = Cardinality(having) /\ Len(with) \in Nat
      /\ DOMAIN with = 1..Len(with) /\ Range(with) = having
      /\ \A i, j \in 1..Len(with) : i < j => with[i] < with[j]
  BY <1>2, NumbersInOrder
<1>5. postings = [n \in DOMAIN with |-> <<with[n], docs[with[n]].tokens[t]>>]
  BY DEF Postings, having
<1> HIDE DEF with, postings
<1>6. DOMAIN postings = 1..Len(with) /\ Len(postings) = Len(with)
  <2>1. postings \in [1..Len(with) -> Range(postings)]
    BY <1>4, <1>5 DEF Range
  <2>2. postings \in Seq(Range(postings))
    BY <1>4, <2>1
  <2> QED
    BY <1>4, <1>5, <2>2, LenProperties
<1>7. \A n \in DOMAIN with : with[n] \in having
  BY <1>4 DEF Range
<1>8. \A i \in having : \E n \in DOMAIN postings : postings[n][1] = i
  BY <1>4, <1>5 DEF Range
<1>9. \A n \in DOMAIN postings : /\ postings[n][1] \in having
                                 /\ postings[n][2] = docs[postings[n][1]].tokens[t]
                                 /\ postings[n][2] \in Nat \ {0}
  BY <1>3, <1>5, <1>7
<1>10. \A n, l \in DOMAIN postings : n < l => postings[n][1] < postings[l][1]
  BY <1>4, <1>5, <1>6
<1> QED
  BY <1>2, <1>4, <1>6, <1>8, <1>9, <1>10 DEF having, postings

(* The terms of documents are finitely many. *)
LEMMA TermsFinite ==
    ASSUME NEW docs, AreDocs(docs)
    PROVE  IsFiniteSet(TermsIn(docs))
<1> DEFINE f == [i \in DOMAIN docs |-> DOMAIN docs[i].tokens]
           sets == {f[i] : i \in DOMAIN docs}
<1>1. IsFiniteSet(DOMAIN docs)
  <2>1. DOMAIN docs = 1..Len(docs) /\ Len(docs) \in Nat
    BY LenProperties DEF AreDocs
  <2> QED
    BY <2>1, FS_Interval
<1>2. \A i \in DOMAIN docs : IsFiniteSet(f[i])
  BY DEF AreDocs, IsText
<1>3. TermsIn(docs) = UNION sets
  BY DEF TermsIn
<1> HIDE DEF f
<1>4. IsFiniteSet(sets) /\ \A X \in sets : IsFiniteSet(X)
  BY <1>1, <1>2, ImageFacts
<1> HIDE DEF sets
<1> QED
  BY <1>3, <1>4, FS_UNION

-----------------------------------------------------------------------------
(* The lexical index, and the search in it. *)

(* The lexical index of documents. *)
KeptTerms(docs) == {t \in TermsIn(docs) : ~TooFrequent(Cardinality(Having(t, docs)), Len(docs))}

LEMMA IndexForm ==
    ASSUME NEW docs, AreDocs(docs), NEW db
    PROVE  LET index == BuildLexicalIndex(docs, db)
           IN  /\ DOMAIN docs = 1..Len(docs) /\ Len(docs) \in Nat
               /\ index.db = db /\ Len(index.docs) = Len(docs) /\ DOMAIN index.docs = DOMAIN docs
               /\ \A i \in DOMAIN docs : index.docs[i].length = docs[i].length
               /\ \A i \in DOMAIN docs : docs[i].length \in 0..MaxTokens /\ docs[i].length <= index.total
               /\ index.total \in Nat /\ index.total <= Len(docs) * MaxTokens
               /\ DOMAIN index.terms = KeptTerms(docs)
               /\ \A t \in KeptTerms(docs) : index.terms[t] = Postings(t, docs)
               /\ LexicalSize(index) \in Nat
<1> DEFINE index == BuildLexicalIndex(docs, db)
           lengths == [i \in DOMAIN docs |-> docs[i].length]
           having == [t \in KeptTerms(docs) |-> Cardinality(Having(t, docs))]
<1>1. /\ index.db = db /\ index.total = SumFunction(lengths)
      /\ index.docs = [i \in DOMAIN docs |-> [f \in DOMAIN docs[i] \ {"tokens"} |-> docs[i][f]]]
      /\ index.terms = [t \in KeptTerms(docs) |-> Postings(t, docs)]
      /\ index.counts.postings = SumFunction(having)
  BY DEF BuildLexicalIndex, KeptTerms
<1> HIDE DEF index
<1>2. DOMAIN docs = 1..Len(docs) /\ Len(docs) \in Nat
  BY LenProperties DEF AreDocs
<1>3. Len(index.docs) = Len(docs) /\ DOMAIN index.docs = DOMAIN docs
  <2>1. index.docs \in [1..Len(docs) -> Range(index.docs)]
    BY <1>1, <1>2 DEF Range
  <2>2. index.docs \in Seq(Range(index.docs))
    BY <1>2, <2>1
  <2> QED
    BY <1>1, <1>2, <2>2, LenProperties
<1>4. \A i \in DOMAIN docs : index.docs[i].length = docs[i].length
  <2> SUFFICES ASSUME NEW i \in DOMAIN docs PROVE index.docs[i].length = docs[i].length
    OBVIOUS
  <2>1. index.docs[i] = [f \in DOMAIN docs[i] \ {"tokens"} |-> docs[i][f]]
    BY <1>1
  <2>2. "length" \in DOMAIN docs[i] \ {"tokens"}
    BY DEF AreDocs
  <2> QED
    BY <2>1, <2>2
<1>5. \A i \in DOMAIN docs : docs[i].length \in 0..MaxTokens
  <2> SUFFICES ASSUME NEW i \in DOMAIN docs PROVE docs[i].length \in 0..MaxTokens
    OBVIOUS
  <2> DEFINE tokens == docs[i].tokens
  <2>1. IsText(tokens) /\ docs[i].length = SumFunction(tokens)
    BY DEF AreDocs
  <2> HIDE DEF tokens
  <2>2. SumFunctionOnSet(tokens, DOMAIN tokens) \in Nat
    <3>1. IsFiniteSet(DOMAIN tokens) /\ \A t \in DOMAIN tokens : tokens[t] \in Nat
      BY <2>1 DEF IsText
    <3> QED
      BY <3>1, SumSteps
  <2>3. SumFunction(tokens) \in Nat /\ SumFunction(tokens) <= MaxTokens
    BY <2>1, <2>2 DEF IsText, SumFunction
  <2> QED
    BY <2>1, <2>3, StaticAssumption
<1>6. /\ index.total \in Nat /\ index.total <= Len(docs) * MaxTokens
      /\ \A i \in DOMAIN docs : docs[i].length <= index.total
  <2>1. DOMAIN lengths = DOMAIN docs /\ \A i \in DOMAIN docs : lengths[i] = docs[i].length
    OBVIOUS
  <2>2. IsFiniteSet(DOMAIN docs) /\ Cardinality(DOMAIN docs) = Len(docs)
    <3> DEFINE k == Len(docs)
    <3>1. k \in Nat /\ DOMAIN docs = 1..k
      BY <1>2
    <3> HIDE DEF k
    <3>2. IsFiniteSet(1..k) /\ Cardinality(1..k) = k
      BY <3>1, FS_Interval
    <3> QED
      BY <3>1, <3>2 DEF k
  <2>3. MaxTokens \in Nat
    BY StaticAssumption
  <2>4. \A i \in DOMAIN docs : lengths[i] \in Nat /\ lengths[i] <= MaxTokens
    BY <1>5, <2>1, <2>3
  <2> HIDE DEF lengths
  <2>5. /\ SumFunctionOnSet(lengths, DOMAIN docs) \in Nat
        /\ SumFunctionOnSet(lengths, DOMAIN docs) <= Cardinality(DOMAIN docs) * MaxTokens
        /\ \A i \in DOMAIN docs : lengths[i] <= SumFunctionOnSet(lengths, DOMAIN docs)
    BY <2>2, <2>3, <2>4, SumAtMost
  <2>6. index.total = SumFunctionOnSet(lengths, DOMAIN docs)
    BY <1>1, <2>1 DEF SumFunction
  <2> QED
    BY <2>1, <2>2, <2>5, <2>6
<1>7. LexicalSize(index) \in Nat
  <2>1. IsFiniteSet(KeptTerms(docs))
    BY TermsFinite, FS_Subset DEF KeptTerms
  <2>2. DOMAIN having = KeptTerms(docs) /\ \A t \in KeptTerms(docs) : having[t] \in Nat
    <3>1. \A t : Cardinality(Having(t, docs)) \in Nat
      BY PostingsFacts, FS_CardinalityType
    <3> QED
      BY <3>1
  <2> HIDE DEF having
  <2>3. SumFunction(having) \in Nat
    BY <2>1, <2>2, SumSteps DEF SumFunction
  <2>4. LexicalBytes \in Nat
    BY StaticAssumption
  <2> QED
    BY <1>1, <1>2, <1>3, <2>3, <2>4 DEF LexicalSize
<1> QED
  BY <1>1, <1>2, <1>3, <1>4, <1>5, <1>6, <1>7 DEF index

(* An index that was not refused for its size loads again. *)
LEMMA IndexLoads ==
    ASSUME NEW docs, AreDocs(docs), NEW db, NEW limit,
           LexicalSize(BuildLexicalIndex(docs, db)) <= limit
    PROVE  LexicalLoads(BuildLexicalIndex(docs, db), limit)
<1> DEFINE index == BuildLexicalIndex(docs, db)
<1>1. /\ DOMAIN index.docs = DOMAIN docs
      /\ \A i \in DOMAIN docs : index.docs[i].length = docs[i].length
      /\ \A i \in DOMAIN docs : docs[i].length \in 0..MaxTokens
      /\ DOMAIN index.terms = KeptTerms(docs)
      /\ \A t \in KeptTerms(docs) : index.terms[t] = Postings(t, docs)
  BY IndexForm
<1>2. LexicalSize(index) <= limit
  OBVIOUS
<1> HIDE DEF index
<1>3. \A i \in DOMAIN index.docs : index.docs[i].length >= 0
  BY <1>1, StaticAssumption
<1>4. ASSUME NEW t \in DOMAIN index.terms
      PROVE  LET postings == index.terms[t]
             IN  /\ \A n \in DOMAIN postings :
                       postings[n][1] \in DOMAIN index.docs /\ postings[n][2] >= 0
                 /\ \A n \in 2..Len(postings) : postings[n - 1][1] < postings[n][1]
  <2> DEFINE postings == Postings(t, docs)
  <2>1. index.terms[t] = postings
    BY <1>1
  <2>2. /\ Having(t, docs) \subseteq DOMAIN docs
        /\ DOMAIN postings = 1..Len(postings) /\ Len(postings) \in Nat
        /\ \A n \in DOMAIN postings : postings[n][1] \in Having(t, docs) /\ postings[n][2] \in Nat \ {0}
        /\ \A n, l \in DOMAIN postings : n < l => postings[n][1] < postings[l][1]
    BY PostingsFacts
  <2> HIDE DEF postings
  <2>3. \A n \in DOMAIN postings : postings[n][1] \in DOMAIN index.docs /\ postings[n][2] >= 0
    BY <1>1, <2>2
  <2>4. ASSUME NEW n \in 2..Len(postings) PROVE postings[n - 1][1] < postings[n][1]
    <3>1. n - 1 \in DOMAIN postings /\ n \in DOMAIN postings /\ n - 1 < n
      BY <2>2
    <3> QED
      BY <2>2, <3>1
  <2> QED
    BY <2>1, <2>3, <2>4
<1> QED
  BY <1>2, <1>3, <1>4 DEF LexicalLoads, index

(* A query of one term. *)
LEMMA OneTerm ==
    ASSUME NEW t
    PROVE  QueryTerms(<<t>>) = {t}
<1> DEFINE query == <<t>>
           first == {i \in DOMAIN query : \A j \in 1..(i - 1) : query[j] # query[i]}
           early == {j \in first : Cardinality({l \in first : l <= j}) <= MaxTerms}
<1>1. DOMAIN query = {1} /\ query[1] = t
  OBVIOUS
<1> HIDE DEF query
<1>2. first = {1}
  BY <1>1
<1>3. {l \in first : l <= 1} = {1}
  BY <1>2
<1>4. Cardinality({1}) = 1
  BY FS_Singleton
<1>5. 1 <= MaxTerms
  BY StaticAssumption
<1>6. early = {1}
  <2> HIDE DEF first
  <2> QED
    BY <1>2, <1>3, <1>4, <1>5
<1>7. QueryTerms(query) = {query[i] : i \in early}
  BY DEF QueryTerms
<1> HIDE DEF early
<1> QED
  BY <1>1, <1>6, <1>7 DEF query

(* What a term of the index adds to the score of a document: something where
   it stands, nothing elsewhere. *)
LEMMA TermScoreFacts ==
    ASSUME NEW docs, AreDocs(docs), NEW db, NEW t \in KeptTerms(docs), NEW i \in DOMAIN docs
    PROVE  LET score == TermScore(BuildLexicalIndex(docs, db), t, i)
           IN  score \in Nat /\ (score # 0 <=> i \in Having(t, docs))
<1> DEFINE index == BuildLexicalIndex(docs, db)
           postings == Postings(t, docs)
           having == Having(t, docs)
           ofDoc == {n \in DOMAIN postings : postings[n][1] = i}
           w == [n \in ofDoc |-> Weight(Len(index.docs), Len(postings), postings[n][2],
                                        index.docs[i].length, index.total)]
<1>1. /\ Len(index.docs) = Len(docs) /\ index.docs[i].length = docs[i].length
      /\ docs[i].length \in 0..MaxTokens /\ docs[i].length <= index.total
      /\ index.total \in Nat /\ index.total <= Len(docs) * MaxTokens
      /\ index.terms[t] = postings /\ DOMAIN docs = 1..Len(docs) /\ Len(docs) \in Nat
  BY IndexForm
<1>2. /\ IsFiniteSet(having) /\ having \subseteq DOMAIN docs /\ having \subseteq Nat
      /\ Len(postings) = Cardinality(having) /\ Len(postings) \in Nat
      /\ DOMAIN postings = 1..Len(postings)
      /\ \A j \in having : \E n \in DOMAIN postings : postings[n][1] = j
      /\ \A n \in DOMAIN postings : /\ postings[n][1] \in having
                                    /\ postings[n][2] = docs[postings[n][1]].tokens[t]
                                    /\ postings[n][2] \in Nat \ {0}
      /\ \A n, l \in DOMAIN postings : n < l => postings[n][1] < postings[l][1]
  BY PostingsFacts
<1>3. TermScore(index, t, i) = SumFunction(w)
  <2>1. TermScore(index, t, i)
          = LET own == {n \in DOMAIN index.terms[t] : index.terms[t][n][1] = i}
            IN  SumFunction([n \in own |-> Weight(Len(index.docs), Len(index.terms[t]),
                                                  index.terms[t][n][2],
                                                  index.docs[i].length, index.total)])
    BY DEF TermScore
  <2> HIDE DEF index, postings
  <2> QED
    BY <1>1, <2>1
<1> HIDE DEF index
<1>4. CASE i \notin having
  <2>1. DOMAIN w = {}
    BY <1>2, <1>4
  <2> HIDE DEF w
  <2>2. SumFunction(w) = 0
    BY <2>1, SumOfNone
  <2> QED
    BY <1>3, <1>4, <2>2 DEF index
<1>5. CASE i \in having
  <2>1. PICK n \in DOMAIN postings : postings[n][1] = i
    BY <1>2, <1>5
  <2>2. ofDoc = {n}
    <3>1. \A l \in ofDoc : ~(l < n) /\ ~(n < l) /\ l \in Nat /\ n \in Nat
      <4> HIDE DEF postings
      <4> QED
        BY <1>2, <2>1
    <3> HIDE DEF postings
    <3> QED
      BY <2>1, <3>1
  <2> DEFINE df == Len(postings)
             tf == docs[i].tokens[t]
             length == docs[i].length
             total == index.total
             k == Len(docs)
  <2>3. DOMAIN w = {n} /\ w[n] = Weight(k, df, tf, length, total)
    <3>1. postings[n][2] = tf
      BY <1>2, <2>1
    <3>2. DOMAIN w = {n}
      BY <2>2
    <3>3. w[n] = Weight(Len(index.docs), Len(postings), postings[n][2], index.docs[i].length, index.total)
      BY <2>2
    <3> QED
      BY <1>1, <3>1, <3>2, <3>3
  <2>4. k \in 1..Cardinality(DOMAIN Words)
    <3>1. k <= Cardinality(DOMAIN Words) /\ IsFiniteSet(DOMAIN Words)
      BY StaticAssumption DEF AreDocs
    <3>2. Cardinality(DOMAIN Words) \in Nat /\ i \in 1..k
      BY <1>1, <3>1, FS_CardinalityType
    <3> QED
      BY <1>1, <3>1, <3>2
  <2>5. df \in 1..k /\ ~TooFrequent(df, k)
    <3>1. Cardinality(having) <= Cardinality(DOMAIN docs)
      <4>1. IsFiniteSet(1..k)
        BY <1>1, FS_Interval
      <4> QED
        BY <1>1, <1>2, <4>1, PartFacts
    <3>2. Cardinality(DOMAIN docs) = k
      <4> HIDE DEF k
      <4>1. k \in Nat /\ DOMAIN docs = 1..k
        BY <1>1 DEF k
      <4>2. Cardinality(1..k) = k
        BY <4>1, FS_Interval
      <4> QED
        BY <4>1, <4>2
    <3>3. n \in 1..df /\ df \in Nat /\ df = Cardinality(having)
      BY <1>2, <2>1
    <3>4. ~TooFrequent(Cardinality(having), k)
      BY DEF KeptTerms
    <3> HIDE DEF df, having, k
    <3> QED
      BY <1>1, <3>1, <3>2, <3>3, <3>4 DEF k
  <2>6. tf \in 1..length /\ length \in 1..MaxTokens
    <3>1. IsText(docs[i].tokens) /\ length = SumFunction(docs[i].tokens) /\ t \in DOMAIN docs[i].tokens
      BY <1>5 DEF AreDocs, Having
    <3> DEFINE tokens == docs[i].tokens
    <3>2. IsFiniteSet(DOMAIN tokens) /\ \A x \in DOMAIN tokens : tokens[x] \in Nat \ {0}
      BY <3>1 DEF IsText
    <3> HIDE DEF tokens
    <3>3. tokens[t] <= SumFunctionOnSet(tokens, DOMAIN tokens)
      <4>1. t \in DOMAIN tokens
        BY <3>1 DEF tokens
      <4>2. \A S \in SUBSET DOMAIN tokens : SumFunctionOnSet(tokens, S) \in Nat
        BY <3>2, SumSteps
      <4>3. SumFunctionOnSet(tokens, DOMAIN tokens)
              = tokens[t] + SumFunctionOnSet(tokens, DOMAIN tokens \ {t})
        BY <3>2, <4>1, SumSteps
      <4>4. SumFunctionOnSet(tokens, DOMAIN tokens \ {t}) \in Nat
        BY <4>2
      <4> QED
        BY <3>2, <4>1, <4>3, <4>4
    <3>4. length = SumFunctionOnSet(tokens, DOMAIN tokens) /\ tf = tokens[t]
      BY <3>1 DEF tokens, SumFunction
    <3>5. tf \in Nat \ {0} /\ tf <= length
      BY <3>1, <3>2, <3>3, <3>4 DEF tokens
    <3> HIDE DEF tf, length
    <3>6. length \in 0..MaxTokens /\ MaxTokens \in Nat
      BY <1>1, StaticAssumption DEF length
    <3> QED
      BY <3>5, <3>6
  <2>7. total \in length..(k * MaxTokens)
    <3>1. length \in Int /\ k * MaxTokens \in Int
      BY <1>1, <2>6, StaticAssumption
    <3> QED
      BY <1>1, <3>1
  <2>8. Weight(k, df, tf, length, total) \in Nat \ {0}
    <3> HIDE DEF k, df, tf, length, total
    <3> QED
      BY <2>4, <2>5, <2>6, <2>7, WeightAssumption
  <2>9. SumFunction(w) = w[n]
    <3>1. w[n] \in Nat
      BY <2>3, <2>8
    <3> HIDE DEF w
    <3> QED
      BY <2>3, <3>1, SumOfOne
  <2> QED
    BY <1>3, <1>5, <2>3, <2>8, <2>9 DEF index
<1> QED
  BY <1>4, <1>5

(* The documents that a query of one term scores. *)
LEMMA OneTermScore ==
    ASSUME NEW docs, AreDocs(docs), NEW db, NEW t, NEW i \in DOMAIN docs
    PROVE  LET score == ScoreOf(BuildLexicalIndex(docs, db), {t}, i)
           IN  score \in Nat /\ (score # 0 <=> t \in KeptTerms(docs) /\ i \in Having(t, docs))
<1> DEFINE index == BuildLexicalIndex(docs, db)
           terms == {t} \cap DOMAIN index.terms
           w == [x \in terms |-> TermScore(index, x, i)]
<1>1. DOMAIN index.terms = KeptTerms(docs)
  BY IndexForm
<1>2. ScoreOf(index, {t}, i) = SumFunction(w)
  BY DEF ScoreOf
<1>3. t \in KeptTerms(docs) => TermScore(index, t, i) \in Nat /\ (TermScore(index, t, i) # 0 <=> i \in Having(t, docs))
  BY TermScoreFacts
<1> HIDE DEF index
<1>4. CASE t \in KeptTerms(docs)
  <2>1. DOMAIN w = {t} /\ w[t] = TermScore(index, t, i)
    BY <1>1, <1>4
  <2>2. SumFunction(w) = w[t]
    <3> HIDE DEF w
    <3> QED
      BY <1>3, <1>4, <2>1, SumOfOne
  <2> QED
    BY <1>2, <1>3, <1>4, <2>1, <2>2 DEF index
<1>5. CASE t \notin KeptTerms(docs)
  <2>1. DOMAIN w = {}
    BY <1>1, <1>5
  <2>2. SumFunction(w) = 0
    <3> HIDE DEF w
    <3> QED
      BY <2>1, SumOfNone
  <2> QED
    BY <1>2, <1>5, <2>2 DEF index
<1> QED
  BY <1>4, <1>5

(* The first of a sequence of different elements, at most k of them. *)
LEMMA FirstOf ==
    ASSUME NEW S, NEW s \in Seq(S), NEW k \in Nat, Len(s) \in Nat
    PROVE  LET first == SubSeq(s, 1, Min({Len(s), k}))
           IN  /\ Len(first) = k \/ Range(first) = Range(s)
               /\ s = <<>> => first = <<>>
<1> DEFINE n == Min({Len(s), k})
           first == SubSeq(s, 1, n)
<1>1. n \in {Len(s), k} /\ n <= Len(s) /\ n <= k
  <2>1. {Len(s), k} \subseteq Nat /\ {Len(s), k} # {}
    OBVIOUS
  <2> QED
    BY <2>1, MinIsLeast
<1> HIDE DEF n
<1>2. first = [i \in 1..n |-> s[i]]
  BY <1>1
<1>3. Len(first) = n
  BY <1>1, <1>2
<1>4. n = Len(s) => Range(first) = Range(s)
  BY <1>2, LenProperties DEF Range
<1>5. s = <<>> => n = 0 /\ first = <<>>
  BY <1>1, <1>2
<1> QED
  BY <1>1, <1>3, <1>4, <1>5 DEF n

(* A term finds the documents it stands in, unless they are too many. *)
LEMMA TermsAreFound ==
    ASSUME NEW docs, AreDocs(docs), NEW db
    PROVE  FindsByTerm(BuildLexicalIndex(docs, db), docs)
<1> DEFINE index == BuildLexicalIndex(docs, db)
<1>1. DOMAIN index.docs = DOMAIN docs
  BY IndexForm
<1>2. \A t : \A i \in DOMAIN docs :
         /\ ScoreOf(index, {t}, i) \in Nat
         /\ ScoreOf(index, {t}, i) # 0 <=> t \in KeptTerms(docs) /\ i \in Having(t, docs)
  BY OneTermScore
<1> HIDE DEF index
<1> SUFFICES ASSUME NEW t \in TermsIn(docs)
             PROVE  LET hits == Search(index, <<t>>, MaxK, AnyKind)
                    IN  IF TooFrequent(Cardinality(Having(t, docs)), Len(docs))
                          THEN hits = <<>>
                          ELSE Range(hits) = Having(t, docs) \/ Len(hits) = MaxK
  BY DEF FindsByTerm, index
<1> DEFINE score == [i \in DOMAIN index.docs |-> ScoreOf(index, {t}, i)]
           hits == {i \in DOMAIN index.docs : score[i] # 0 /\ AnyKind \in {AnyKind, index.docs[i].kind}}
           before == {p \in hits \X hits :
                        score[p[1]] > score[p[2]] \/ (score[p[1]] = score[p[2]] /\ p[1] < p[2])}
           ranked == SortedBy(hits, before)
           found == Search(index, <<t>>, MaxK, AnyKind)
<1>3. found = SubSeq(ranked, 1, Min({Len(ranked), MaxK}))
  <2> DEFINE Found(terms) ==
               LET scores == [i \in DOMAIN index.docs |-> ScoreOf(index, terms, i)]
                   scored == {i \in DOMAIN index.docs :
                                scores[i] # 0 /\ AnyKind \in {AnyKind, index.docs[i].kind}}
                   order == SortedBy(scored, {p \in scored \X scored :
                              scores[p[1]] > scores[p[2]] \/ (scores[p[1]] = scores[p[2]] /\ p[1] < p[2])})
               IN  SubSeq(order, 1, Min({Len(order), MaxK}))
  <2>1. found = Found(QueryTerms(<<t>>))
    BY DEF Search
  <2>2. Found({t}) = SubSeq(ranked, 1, Min({Len(ranked), MaxK}))
    OBVIOUS
  <2>3. QueryTerms(<<t>>) = {t}
    BY OneTerm
  <2> HIDE DEF Found, found, ranked
  <2> QED
    BY <2>1, <2>2, <2>3
<1>4. hits = IF t \in KeptTerms(docs) THEN Having(t, docs) ELSE {}
  <2>1. \A i : i \in hits <=> i \in DOMAIN docs /\ t \in KeptTerms(docs) /\ i \in Having(t, docs)
    BY <1>1, <1>2
  <2>2. Having(t, docs) \subseteq DOMAIN docs
    BY DEF Having
  <2> HIDE DEF hits
  <2> QED
    BY <2>1, <2>2
<1>5. IsFiniteSet(hits) /\ hits \subseteq DOMAIN docs /\ hits \subseteq Nat
  <2>1. IsFiniteSet(Having(t, docs)) /\ Having(t, docs) \subseteq DOMAIN docs /\ Having(t, docs) \subseteq Nat
    BY PostingsFacts
  <2> HIDE DEF hits
  <2> QED
    BY <1>4, <2>1, FS_EmptySet
<1>6. \A i \in hits : score[i] \in Nat
  BY <1>1, <1>2, <1>5
<1>7. \A i, j \in hits : <<i, j>> \in before <=>
         score[i] > score[j] \/ (score[i] = score[j] /\ i < j)
  OBVIOUS
<1> HIDE DEF score, hits, before
<1>8. Orders(before, hits)
  BY <1>5, <1>6, <1>7 DEF Orders
<1>9. /\ ranked \in Seq(hits) /\ Len(ranked) = Cardinality(hits) /\ Len(ranked) \in Nat
      /\ Range(ranked) = hits
  BY <1>5, <1>8, Ordered
<1> HIDE DEF ranked
<1>10. MaxK \in Nat
  BY StaticAssumption
<1>11. (Len(found) = MaxK \/ Range(found) = hits) /\ (ranked = <<>> => found = <<>>)
  BY <1>3, <1>9, <1>10, FirstOf
<1> HIDE DEF found
<1>12. CASE TooFrequent(Cardinality(Having(t, docs)), Len(docs))
  <2>1. hits = {}
    BY <1>4, <1>12 DEF KeptTerms
  <2>2. Len(ranked) = 0
    BY <1>9, <2>1, FS_EmptySet
  <2>3. ranked = <<>>
    BY <1>9, <2>2
  <2> QED
    BY <1>11, <1>12, <2>3 DEF found
<1>13. CASE ~TooFrequent(Cardinality(Having(t, docs)), Len(docs))
  <2>1. hits = Having(t, docs)
    BY <1>4, <1>13 DEF KeptTerms
  <2> QED
    BY <1>11, <1>13, <2>1 DEF found
<1> QED
  BY <1>12, <1>13

-----------------------------------------------------------------------------
(* What each step leaves of it. *)

StaticKinds == {"publish", "lexical"}
StaticSteps == StepsOfPublish \cup LexicalSteps

LEMMA JobsIsNat == IInv => jobs \in Nat /\ store.db \in Nat /\ opts \in OptionSets
<1> SUFFICES ASSUME IInv PROVE jobs \in Nat /\ store.db \in Nat /\ opts \in OptionSets
  OBVIOUS
<1>1. jobs \in 0..MaxJobs[site] /\ site \in Sites /\ store.db \in Nat /\ opts \in OptionSets
  BY DEF IInv, TypeOK
<1>2. MaxJobs[site] \in Nat
  BY <1>1, OperatorAssumption
<1> QED
  BY <1>1, <1>2

(* A step that writes no file of an index. *)
LEMMA StaticKept ==
    ASSUME IInv, StaticInv, KeepsFiles(StaticFiles), opts' = opts, jobs' \in {jobs, jobs + 1},
           IsIndex(store'.rows), store.extracted \subseteq store'.extracted, PublishHeld',
           \A f \in StaticFiles : Unwritten(f)' => Unwritten(f) \/ jobs' = jobs + 1
    PROVE  StaticInv'
<1>1. /\ RunsOk /\ ManifestJsonOk /\ SurfaceOk /\ LexicalOk /\ jobs \in Nat
  BY JobsIsNat DEF StaticInv
<1>2. /\ disk'.manifestJson = disk.manifestJson /\ basis'.manifestJson = basis.manifestJson
      /\ disk'.surface = disk.surface /\ basis'.surface = basis.surface
      /\ disk'.lexical = disk.lexical /\ basis'.lexical = basis.lexical
  BY DEF KeepsFiles, StaticFiles
<1>3. RunsOk'
  <2> SUFFICES ASSUME NEW f \in StaticFiles, disk'[f] # NoFile
               PROVE  /\ basis'[f].of.run \in Nat /\ basis'[f].of.run <= jobs'
                      /\ Unwritten(f)' => basis'[f].of.run < jobs'
    BY DEF RunsOk
  <2>1. disk'[f] = disk[f] /\ basis'[f] = basis[f]
    BY DEF KeepsFiles
  <2>2. /\ basis[f].of.run \in Nat /\ basis[f].of.run <= jobs
        /\ Unwritten(f) => basis[f].of.run < jobs
    BY <1>1, <2>1 DEF RunsOk
  <2>3. Unwritten(f)' => Unwritten(f) \/ jobs' = jobs + 1
    OBVIOUS
  <2> QED
    BY <1>1, <2>1, <2>2, <2>3
<1>4. ManifestJsonOk'
  BY <1>1, <1>2 DEF ManifestJsonOk
<1>5. SurfaceOk'
  BY <1>1, <1>2 DEF SurfaceOk
<1>6. LexicalOk'
  BY <1>1, <1>2 DEF LexicalOk, OfOnePublication
<1> QED
  BY <1>3, <1>4, <1>5, <1>6 DEF StaticInv

(* A step of another command, of the poller, or the end of any. *)
LEMMA StaticOther ==
    ASSUME IInv, StaticInv, KeepsFiles(StaticFiles), UNCHANGED <<opts, store>>,
           \/ job' = job /\ jobs' = jobs
           \/ /\ jobs' \in {jobs, jobs + 1}
              /\ job'.kind \notin StaticKinds /\ job'.step \notin StaticSteps
    PROVE  StaticInv'
<1>1. PublishHeld /\ IsIndex(store.rows)
  BY DEF StaticInv
<1>2. disk'.manifestJson = disk.manifestJson /\ basis'.manifestJson = basis.manifestJson
      /\ disk'.surface = disk.surface /\ basis'.surface = basis.surface
  BY DEF KeepsFiles, StaticFiles
<1>3. CASE job' = job /\ jobs' = jobs
  <2>1. PublishHeld'
    BY <1>1, <1>2, <1>3 DEF PublishHeld, At
  <2>2. \A f \in StaticFiles : Unwritten(f)' => Unwritten(f)
    BY <1>3 DEF Unwritten, At
  <2> QED
    BY <1>1, <1>3, <2>1, <2>2, StaticKept
<1>4. CASE /\ jobs' \in {jobs, jobs + 1}
           /\ job'.kind \notin StaticKinds /\ job'.step \notin StaticSteps
  <2>1. PublishHeld'
    BY <1>4 DEF PublishHeld, At, StaticKinds, StaticSteps, StepsOfPublish, LexicalSteps
  <2>2. \A f \in StaticFiles : ~Unwritten(f)'
    BY <1>4 DEF Unwritten, At, StaticSteps, StepsOfPublish, LexicalSteps
  <2> QED
    BY <1>1, <1>4, <2>1, <2>2, StaticKept
<1> QED
  BY <1>3, <1>4

LEMMA StaticEnds ==
    ASSUME IInv, StaticInv, job' = Idle, jobs' = jobs, UNCHANGED <<opts, store>>, KeepsFiles(StaticFiles)
    PROVE  StaticInv'
BY IdleFacts, StaticOther DEF StaticKinds, StaticSteps, StepsOfPublish, LexicalSteps

LEMMA StaticFails == ASSUME IInv, StaticInv, Fails PROVE StaticInv'
BY StaticEnds DEF Fails, Goes, Untouched, KeepsFiles

(* What a write of one output leaves of the files of an index. *)
LEMMA StaticFilesKept ==
    ASSUME IInv, NEW output \in Outputs, NEW content, NEW source, Writes(output, content, source)
    PROVE  /\ disk'[output] = content
           /\ basis'[output].of = source
           /\ \A f \in StaticFiles \ {output} : disk'[f] = disk[f] /\ basis'[f] = basis[f]
<1>1. TypeOK /\ StaticFiles \subseteq Outputs
  BY DEF IInv, StaticFiles, Outputs
<1>2. /\ disk'[output] = content
      /\ basis'[output] = [log |-> job.read, now |-> job.now, of |-> source]
      /\ \A f \in Outputs \ {output} : disk'[f] = disk[f] /\ basis'[f] = basis[f]
  BY ONLY <1>1, Writes(output, content, source), output \in Outputs, WritesFacts
<1> QED
  BY <1>1, <1>2

LEMMA StaticOtherWrites ==
    ASSUME IInv, StaticInv,
           NEW output \in Outputs \ StaticFiles, NEW content, NEW source, Writes(output, content, source),
           NEW next, Goes(next),
           next = Idle \/ (next.kind \notin StaticKinds /\ next.step \notin StaticSteps)
    PROVE  StaticInv'
<1>1. UNCHANGED <<opts, store, jobs>> /\ job' = next
  BY DEF Goes, Untouched
<1>2. KeepsFiles(StaticFiles)
  BY StaticFilesKept DEF KeepsFiles
<1> QED
  BY <1>1, <1>2, StaticEnds, StaticOther

(* The other commands, whose steps are none of these, start and go on. *)
LEMMA OtherSteps ==
    IInv /\ StaticInv /\ job.step \notin StaticSteps => job.kind \notin StaticKinds
BY DEF StaticInv, PublishHeld, StaticSteps, StaticKinds

LEMMA StaticOtherStarts ==
    ASSUME IInv, StaticInv, StartLedger \/ StartLiveness \/ StartFreeze \/ StartExtract
    PROVE  StaticInv'
<1>1. ASSUME NEW kind \in {"ledger", "liveness", "freeze"}, NEW held, Start(kind, "reading", held)
      PROVE  StaticInv'
  <2>1. /\ job' = [kind |-> kind, step |-> "reading", now |-> clock, read |-> << >>, held |-> held]
        /\ Untouched /\ UNCHANGED <<disk, basis>>
    BY <1>1, StartFacts
  <2>2. jobs' = jobs + 1
    BY <1>1 DEF Start
  <2>3. /\ job'.kind = kind /\ job'.step = "reading" /\ KeepsFiles(StaticFiles)
        /\ UNCHANGED <<opts, store>>
    BY <2>1 DEF Untouched, KeepsFiles
  <2>4. job'.kind \notin StaticKinds /\ job'.step \notin StaticSteps
    BY <2>3 DEF StaticKinds, StaticSteps, StepsOfPublish, LexicalSteps
  <2> QED
    BY <2>2, <2>3, <2>4, StaticOther
<1>2. CASE StartExtract
  <2>1. /\ UNCHANGED <<opts, store>> /\ job'.kind = "extract" /\ job'.step = "files" /\ jobs' = jobs + 1
    BY <1>2 DEF StartExtract, Untouched
  <2>2. basis' = basis /\ \E x : disk' = [disk EXCEPT !.extract = x]
    BY <1>2 DEF StartExtract
  <2>3. KeepsFiles(StaticFiles)
    BY <2>2, NumbersKept DEF KeepsFiles, StaticFiles, Outputs
  <2>4. job'.kind \notin StaticKinds /\ job'.step \notin StaticSteps
    BY <2>1 DEF StaticKinds, StaticSteps, StepsOfPublish, LexicalSteps
  <2> QED
    BY <2>1, <2>3, <2>4, StaticOther
<1>3. ASSUME StartLedger \/ StartLiveness \/ StartFreeze
      PROVE  \E kind \in {"ledger", "liveness", "freeze"} : \E held : Start(kind, "reading", held)
  BY <1>3 DEF StartLedger, StartLiveness, StartFreeze
<1> QED
  BY <1>1, <1>2, <1>3

LEMMA StaticRead == ASSUME IInv, StaticInv, ReadRoom PROVE StaticInv'
<1>1. /\ job.kind \in {"ledger", "liveness", "freeze"} /\ job.step = "reading"
      /\ \E read : job' = [job EXCEPT !.read = read]
      /\ UNCHANGED <<disk, basis, jobs, opts, store>>
  BY DEF ReadRoom, Untouched
<1>2. job'.kind = job.kind /\ job'.step = job.step
  BY <1>1
<1>3. KeepsFiles(StaticFiles)
  BY <1>1 DEF KeepsFiles
<1>4. job'.kind \notin StaticKinds /\ job'.step \notin StaticSteps
  BY <1>1, <1>2 DEF StaticKinds, StaticSteps, StepsOfPublish, LexicalSteps
<1> QED
  BY <1>1, <1>3, <1>4, StaticOther

(* Their steps of writing. *)
StepsOfOthers == {"split", "clear", "retire", "install", "installOver", "drop", "compact", "compactMap",
                "manifest", "files"}

LEMMA StaticOtherGoes ==
    ASSUME IInv, StaticInv, NEW output \in Outputs \ StaticFiles, NEW content, NEW source,
           Writes(output, content, source), job.step \notin StaticSteps,
           NEW step \in StepsOfOthers, NEW held,
           Goes([job EXCEPT !.step = step, !.held = held]) \/ Goes([job EXCEPT !.step = step])
             \/ Goes(Idle) \/ Goes(job)
    PROVE  StaticInv'
<1>1. step \in Steps /\ step \notin StaticSteps
  BY DEF StepsOfOthers, Steps, StaticSteps, StepsOfPublish, LexicalSteps
<1>2. job.kind \notin StaticKinds
  BY OtherSteps
<1>3. PICK next \in {[job EXCEPT !.step = step, !.held = held], [job EXCEPT !.step = step], Idle, job} :
         Goes(next)
  OBVIOUS
<1>4. next = Idle \/ (next.kind \notin StaticKinds /\ next.step \notin StaticSteps)
  <2> DEFINE to == [job EXCEPT !.step = step, !.held = held]
             on == [job EXCEPT !.step = step]
  <2>1. to.kind = job.kind /\ to.step = step /\ on.kind = job.kind /\ on.step = step
    BY <1>1, GoesFacts
  <2>2. next \in {to, on, Idle, job}
    OBVIOUS
  <2> HIDE DEF to, on
  <2> QED
    BY <1>1, <1>2, <2>1, <2>2
<1> QED
  BY <1>3, <1>4, StaticOtherWrites

LEMMA StaticOtherCommands ==
    ASSUME IInv, StaticInv,
           \/ WriteLedger \/ WriteCompact \/ WriteMap \/ WriteCompactMap
           \/ InstallShards \/ WriteArchive \/ WriteManifest \/ ExtractFile
    PROVE  StaticInv'
<1> DEFINE Others == {"ledger", "compact", "map", "compactMap", "shards", "archive", "manifest", "extract"}
           Go(step, held) == \/ Goes([job EXCEPT !.step = step, !.held = held])
                             \/ Goes([job EXCEPT !.step = step]) \/ Goes(Idle) \/ Goes(job)
<1>1. Others \subseteq Outputs \ StaticFiles
  BY DEF Outputs, StaticFiles
<1>2. Fails \/ \E output \in Others : \E content, source : \E step \in StepsOfOthers : \E held :
                  Writes(output, content, source) /\ Go(step, held)
  <2>1. CASE WriteLedger
    <3>1. PICK ledger : ledger = BuiltLedger
      OBVIOUS
    <3>2. Fails \/ (Writes("ledger", ToJsonl(ledger), ledger)
                      /\ (Goes([job EXCEPT !.step = "split", !.held = ledger]) \/ Goes(Idle)))
      BY <2>1, <3>1 DEF WriteLedger
    <3> QED
      BY <3>2 DEF StepsOfOthers
  <2>2. CASE WriteCompact
    BY <2>2 DEF WriteCompact, StepsOfOthers
  <2>3. CASE WriteMap
    <3>1. PICK m : m = BuiltMap
      OBVIOUS
    <3>2. Fails \/ (Writes("map", FitFull(m, opts.maxMap), m)
                      /\ Goes([job EXCEPT !.step = "compactMap", !.held = m]))
      BY <2>3, <3>1 DEF WriteMap
    <3> QED
      BY <3>2 DEF StepsOfOthers
  <2>4. CASE WriteCompactMap
    BY <2>4 DEF WriteCompactMap, StepsOfOthers
  <2>5. CASE InstallShards
    <3>1. Writes("shards", Staged, job.held)
          /\ (Goes([job EXCEPT !.step = "drop"]) \/ Goes([job EXCEPT !.step = "compact"]))
      <4>1. Goes([job EXCEPT !.step = IF @ = "installOver" THEN "drop" ELSE "compact"])
        BY <2>5 DEF InstallShards
      <4>2. Goes([job EXCEPT !.step = IF job.step = "installOver" THEN "drop" ELSE "compact"])
        BY <4>1
      <4>3. CASE job.step = "installOver"
        BY <2>5, <4>2, <4>3 DEF InstallShards
      <4>4. CASE job.step # "installOver"
        BY <2>5, <4>2, <4>4 DEF InstallShards
      <4> QED
        BY <4>3, <4>4
    <3> QED
      BY <3>1 DEF StepsOfOthers
  <2>6. CASE WriteArchive
    <3>1. Writes("archive", Archive(job.read), NoFile)
          /\ \E held : Goes([job EXCEPT !.step = "manifest", !.held = held])
      BY <2>6 DEF WriteArchive
    <3> QED
      BY <3>1 DEF StepsOfOthers
  <2>7. CASE WriteManifest
    BY <2>7 DEF WriteManifest, StepsOfOthers
  <2>8. CASE ExtractFile
    <3>1. \E content : Writes("extract", content, NoFile) /\ (Goes(Idle) \/ Goes(job))
      BY <2>8 DEF ExtractFile
    <3> QED
      BY <3>1 DEF StepsOfOthers
  <2> QED
    BY <2>1, <2>2, <2>3, <2>4, <2>5, <2>6, <2>7, <2>8
<1>3. job.step \notin StaticSteps
  BY DEF WriteLedger, WriteCompact, WriteMap, WriteCompactMap, InstallShards, WriteArchive,
         WriteManifest, ExtractFile, ReadyFor, At, StaticSteps, StepsOfPublish, LexicalSteps
<1>4. CASE Fails
  BY <1>4, StaticFails
<1>5. ASSUME NEW output \in Others, NEW content, NEW source, NEW step \in StepsOfOthers, NEW held,
             Writes(output, content, source), Go(step, held)
      PROVE  StaticInv'
  BY <1>1, <1>3, <1>5, StaticOtherGoes
<1> QED
  BY <1>2, <1>4, <1>5

(* The swap of the shards, and kills. *)
LEMMA StaticSwaps ==
    ASSUME IInv, StaticInv, StageShards \/ ClearOldShards \/ RetireShards \/ DropOldShards
    PROVE  StaticInv'
<1>1. CASE Fails
  BY <1>1, StaticFails
<1>2. CASE ~Fails
  <2>1. \E step \in StepsOfOthers : Goes([job EXCEPT !.step = step])
    <3>1. CASE StageShards
      <4>1. Goes([job EXCEPT !.step = IF disk.shards = NoFile THEN "install"
                                      ELSE IF disk.oldShards = NoFile THEN "retire" ELSE "clear"])
        BY <1>2, <3>1 DEF StageShards
      <4> DEFINE step == IF disk.shards = NoFile THEN "install"
                         ELSE IF disk.oldShards = NoFile THEN "retire" ELSE "clear"
      <4>2. step \in StepsOfOthers
        BY DEF StepsOfOthers
      <4> QED
        BY <4>1, <4>2
    <3> QED
      BY <1>2, <3>1 DEF ClearOldShards, RetireShards, DropOldShards, StepsOfOthers
  <2>2. PICK step \in StepsOfOthers : Goes([job EXCEPT !.step = step])
    BY <2>1
  <2>3. job.step \notin StaticSteps
    BY DEF StageShards, ClearOldShards, RetireShards, DropOldShards, At,
           StaticSteps, StepsOfPublish, LexicalSteps
  <2>4. job.kind \notin StaticKinds
    BY <2>3, OtherSteps
  <2>5. step \in Steps /\ step \notin StaticSteps
    BY DEF StepsOfOthers, Steps, StaticSteps, StepsOfPublish, LexicalSteps
  <2>6. job'.kind = job.kind /\ job'.step = step /\ UNCHANGED <<opts, store, jobs>>
    BY <2>2, <2>5, GoesFacts DEF Goes, Untouched
  <2>7. KeepsFiles(StaticFiles)
    <3>1. DOMAIN disk = Outputs /\ DOMAIN basis = Outputs
      BY NumbersKept
    <3>2. \/ UNCHANGED <<disk, basis>>
          \/ /\ \E x, y : disk' = [disk EXCEPT !.shards = x, !.oldShards = y]
             /\ \E x, y : basis' = [basis EXCEPT !.shards = x, !.oldShards = y]
          \/ /\ \E y : disk' = [disk EXCEPT !.oldShards = y]
             /\ \E y : basis' = [basis EXCEPT !.oldShards = y]
      BY <1>2 DEF StageShards, ClearOldShards, RetireShards, DropOldShards
    <3> QED
      BY <3>1, <3>2 DEF KeepsFiles, StaticFiles, Outputs
  <2> QED
    BY <2>4, <2>5, <2>6, <2>7, StaticOther
<1> QED
  BY <1>1, <1>2

LEMMA StaticKill == ASSUME IInv, StaticInv, Kill PROVE StaticInv'
<1>1. job' = Idle /\ basis' = basis /\ UNCHANGED <<opts, store, jobs>> /\ CutShort
  BY DEF Kill, Untouched
<1>2. \/ disk' = disk
      \/ \E f \in FreezeFiles : \E x : disk' = [disk EXCEPT ![f] = x]
  <2>1. CutShort
    BY <1>1
  <2> QED
    BY <2>1 DEF CutShort, FreezeFiles
<1>3. KeepsFiles(StaticFiles)
  BY <1>1, <1>2, NumbersKept DEF KeepsFiles, StaticFiles, FreezeFiles, Outputs
<1> QED
  BY <1>1, <1>3, StaticEnds

(* The indexer meanwhile: rows and texts are only added to what was read. *)
LEMMA StaticIndexStep ==
    ASSUME IInv, StaticInv, NEW change \in Changes, Index(change)
    PROVE  StaticInv'
<1>1. UNCHANGED <<opts, job, disk, basis, jobs>>
  BY DEF Index
<1>2. IsIndex(store.rows) /\ PublishHeld /\ store.db \in Nat
  BY JobsIsNat DEF StaticInv
<1>3. /\ IsIndex(store'.rows) /\ store'.db \in Nat /\ store.db <= store'.db
      /\ store.extracted \subseteq store'.extracted
  <2>1. CASE change.what = "row"
    <3> DEFINE rows == Table!WriteManifestEntry(store.rows, change.doc, change.row)
    <3>1. change.doc \in DOMAIN Words /\ change.row \in Entries
      BY <2>1, OperatorAssumption, IndexAssumption
    <3>2. IsIndex(rows)
      BY <1>2, <3>1, IndexKept
    <3> HIDE DEF rows
    <3>3. store' = [store EXCEPT !.rows = rows, !.db = store.db + 1]
      BY <2>1 DEF Index, rows
    <3>4. store'.rows \in {store.rows, rows} /\ store'.db \in {store.db, store.db + 1}
          /\ store'.extracted = store.extracted
      BY <3>3
    <3> QED
      BY <1>2, <3>2, <3>4
  <2>2. CASE change.what # "row"
    <3>1. store' = [store EXCEPT !.extracted = store.extracted \cup {change.doc}]
      BY <2>2 DEF Index
    <3>2. store'.rows = store.rows /\ store'.db = store.db
          /\ store'.extracted \in {store.extracted, store.extracted \cup {change.doc}}
      BY <3>1
    <3> QED
      BY <1>2, <3>2
  <2> QED
    BY <2>1, <2>2
<1>4. PublishHeld'
  <2>1. job.held.at \in Nat /\ job.held.at <= store.db => job.held.at <= store'.db
    BY <1>2, <1>3
  <2>2. \A found \in SUBSET store.extracted : found \in SUBSET store'.extracted
    BY <1>3
  <2> QED
    BY <1>1, <1>2, <2>1, <2>2 DEF PublishHeld, At
<1>5. \A f \in StaticFiles : Unwritten(f)' => Unwritten(f)
  BY <1>1 DEF Unwritten, At
<1>6. KeepsFiles(StaticFiles)
  BY <1>1 DEF KeepsFiles
<1> QED
  BY <1>1, <1>3, <1>4, <1>5, <1>6, StaticKept

(* A publication starts from one read of the manifest. *)
LEMMA StaticStarts ==
    ASSUME IInv, StaticInv, StartPublish \/ StartLexical
    PROVE  StaticInv'
<1> DEFINE held == [rows |-> store.rows, at |-> store.db, run |-> jobs + 1]
<1>1. Start("publish", "hash", held) \/ Start("lexical", "docs", held)
  BY DEF StartPublish, StartLexical
<1>2. PICK kind \in StaticKinds, step \in {"hash", "docs"} :
         /\ Start(kind, step, held) /\ (kind = "publish" <=> step = "hash")
  BY <1>1 DEF StaticKinds
<1>3. /\ job' = [kind |-> kind, step |-> step, now |-> clock, read |-> << >>, held |-> held]
      /\ Untouched /\ UNCHANGED <<disk, basis>> /\ jobs' = jobs + 1
  BY <1>2, StartFacts DEF Start
<1>4. /\ job'.kind = kind /\ job'.step = step /\ job'.held = held
      /\ held.rows = store.rows /\ held.at = store.db /\ held.run = jobs'
  BY <1>3
<1>5. UNCHANGED <<opts, store>> /\ KeepsFiles(StaticFiles) /\ IsIndex(store.rows) /\ store.db \in Nat
  BY <1>3, JobsIsNat DEF Untouched, KeepsFiles, StaticInv
<1> HIDE DEF held
<1>6. PublishHeld'
  BY <1>2, <1>4, <1>5 DEF PublishHeld, At, StaticKinds, StepsOfPublish, LexicalSteps
<1> QED
  BY <1>3, <1>5, <1>6, StaticKept

(* What the steps of a publication hold. *)
LEMMA HashStep == ASSUME IInv, StaticInv, HashDatabase PROVE StaticInv'
<1> DEFINE held == [rows |-> job.held.rows, at |-> job.held.at, run |-> job.held.run, db |-> store.db]
<1>1. /\ job.step = "hash" /\ UNCHANGED <<disk, basis, opts, store, jobs>>
      /\ job' = [job EXCEPT !.step = "manifestJson", !.held = held]
  <2>1. Goes([job EXCEPT !.step = "manifestJson",
                         !.held = [rows |-> @.rows, at |-> @.at, run |-> @.run, db |-> store.db]])
    BY DEF HashDatabase
  <2>2. job' = [job EXCEPT !.step = "manifestJson",
                           !.held = [rows |-> @.rows, at |-> @.at, run |-> @.run, db |-> store.db]]
    BY <2>1 DEF Goes
  <2> QED
    BY <2>1, <2>2 DEF HashDatabase, At, Goes, Untouched
<1>2. job'.kind = job.kind /\ job'.step = "manifestJson" /\ job'.held = held
  BY <1>1, GoesFacts DEF Steps
<1>3. /\ job.kind = "publish" /\ job.held.run = jobs /\ job.held.at \in Nat /\ job.held.at <= store.db
      /\ IsIndex(job.held.rows) /\ IsIndex(store.rows) /\ store.db \in Nat
  BY <1>1, JobsIsNat DEF StaticInv, PublishHeld, StepsOfPublish
<1>4. /\ held.rows = job.held.rows /\ held.at = job.held.at /\ held.run = job.held.run
      /\ held.db = store.db
  OBVIOUS
<1> HIDE DEF held
<1>5. PublishHeld'
  BY <1>1, <1>2, <1>3, <1>4 DEF PublishHeld, At, StepsOfPublish, LexicalSteps
<1>6. \A f \in StaticFiles : Unwritten(f)
  BY <1>1 DEF Unwritten
<1>7. KeepsFiles(StaticFiles)
  BY <1>1 DEF KeepsFiles
<1> QED
  BY <1>1, <1>3, <1>5, <1>6, <1>7, StaticKept

LEMMA ReadDocsStep == ASSUME IInv, StaticInv, ReadLexicalDocs PROVE StaticInv'
<1> DEFINE docs == LexicalDocs(job.held.rows, store.extracted)
           held == [at |-> job.held.at, run |-> job.held.run, docs |-> docs]
<1>1. /\ job.step = "docs" /\ UNCHANGED <<disk, basis, opts, store, jobs>>
      /\ job' = [job EXCEPT !.step = "lexicalAlone", !.held = held]
  <2>1. Goes([job EXCEPT !.step = "lexicalAlone",
                         !.held = [at |-> @.at, run |-> @.run,
                                   docs |-> LexicalDocs(@.rows, store.extracted)]])
    BY DEF ReadLexicalDocs
  <2>2. job' = [job EXCEPT !.step = "lexicalAlone",
                           !.held = [at |-> @.at, run |-> @.run,
                                     docs |-> LexicalDocs(@.rows, store.extracted)]]
    BY <2>1 DEF Goes
  <2> QED
    BY <2>1, <2>2 DEF ReadLexicalDocs, At, Goes, Untouched
<1>2. job'.kind = job.kind /\ job'.step = "lexicalAlone" /\ job'.held = held
  BY <1>1, GoesFacts DEF Steps
<1>3. /\ job.kind = "lexical" /\ job.held.run = jobs /\ job.held.at \in Nat /\ job.held.at <= store.db
      /\ IsIndex(job.held.rows) /\ IsIndex(store.rows)
  BY <1>1 DEF StaticInv, PublishHeld, LexicalSteps, At
<1>4. AreDocs(docs)
  BY <1>3, DocsFacts
<1>5. held.at = job.held.at /\ held.run = job.held.run /\ held.docs = docs
  OBVIOUS
<1> HIDE DEF held, docs
<1>6. PublishHeld'
  BY <1>1, <1>2, <1>3, <1>4, <1>5 DEF PublishHeld, At, StepsOfPublish, LexicalSteps
<1>7. \A f \in StaticFiles : Unwritten(f)
  BY <1>1 DEF Unwritten, LexicalSteps
<1>8. KeepsFiles(StaticFiles)
  BY <1>1 DEF KeepsFiles
<1> QED
  BY <1>1, <1>3, <1>6, <1>7, <1>8, StaticKept

(* manifest.json of the rows and the hash that the publication holds: no
   other file is of this publication yet. *)
LEMMA ManifestJsonStep == ASSUME IInv, StaticInv, WriteManifestJson PROVE StaticInv'
<1> DEFINE read == Surface(job.held.rows, store.extracted)
           next == [job EXCEPT !.step = "surface", !.read = read]
<1>1. /\ job.step = "manifestJson" /\ Goes(next)
      /\ Writes("manifestJson", ManifestObj(job.held.rows, job.held.db), job.held)
  BY DEF WriteManifestJson, At
<1>2. next.kind = job.kind /\ next.step = "surface" /\ next.held = job.held /\ next.read = read
  <2>1. DOMAIN job = JobFields
    BY JobType
  <2> QED
    BY <2>1, GoesFacts DEF Steps, JobFields
<1> HIDE DEF next
<1>3. /\ job' = next /\ UNCHANGED <<opts, store, jobs>>
  BY <1>1 DEF Goes, Untouched
<1>4. /\ disk'.manifestJson = ManifestObj(job.held.rows, job.held.db)
      /\ basis'.manifestJson.of = job.held
      /\ disk'.surface = disk.surface /\ basis'.surface = basis.surface
      /\ disk'.lexical = disk.lexical /\ basis'.lexical = basis.lexical
  <2>1. "manifestJson" \in Outputs /\ {"surface", "lexical"} \subseteq StaticFiles \ {"manifestJson"}
    BY DEF Outputs, StaticFiles
  <2> QED
    BY <1>1, <2>1, StaticFilesKept
<1>5. /\ job.kind = "publish" /\ job.held.run = jobs /\ job.held.at \in Nat /\ job.held.at <= store.db
      /\ IsIndex(job.held.rows) /\ job.held.db \in Nat /\ job.held.at <= job.held.db
      /\ IsIndex(store.rows) /\ jobs \in Nat
  BY <1>1, JobsIsNat DEF StaticInv, PublishHeld, StepsOfPublish
<1>6. ASSUME NEW f \in {"surface", "lexical"}, disk[f] # NoFile
      PROVE  basis[f].of.run \in Nat /\ basis[f].of.run < jobs
  <2>1. Unwritten(f) /\ f \in StaticFiles
    BY <1>1 DEF Unwritten, StaticFiles
  <2> QED
    BY <1>6, <2>1 DEF StaticInv, RunsOk
<1>7. disk'.manifestJson # NoFile
  BY <1>4 DEF ManifestObj, NoFile
<1>8. PublishHeld'
  <2>1. read = Surface(job.held.rows, store.extracted) /\ store.extracted \in SUBSET store'.extracted
    BY <1>3
  <2> HIDE DEF read
  <2> QED
    BY <1>2, <1>3, <1>4, <1>5, <1>7, <2>1 DEF PublishHeld, At, StepsOfPublish, LexicalSteps
<1>9. RunsOk'
  <2>1. ~Unwritten("manifestJson")'
    BY <1>2, <1>3 DEF Unwritten, At, LexicalSteps
  <2>2. /\ basis'.manifestJson.of.run \in Nat /\ basis'.manifestJson.of.run <= jobs'
    BY <1>3, <1>4, <1>5
  <2>3. \A f \in {"surface", "lexical"} : disk'[f] # NoFile =>
           basis'[f].of.run \in Nat /\ basis'[f].of.run < jobs'
    BY <1>3, <1>4, <1>6
  <2> QED
    BY <1>3, <1>5, <2>1, <2>2, <2>3 DEF RunsOk, StaticFiles
<1>10. ManifestJsonOk'
  BY <1>4, <1>5 DEF ManifestJsonOk
<1>11. SurfaceOk'
  <2>1. SurfaceOk
    BY DEF StaticInv
  <2> QED
    BY <1>3, <1>4, <1>5, <1>6, <1>7, <2>1 DEF SurfaceOk
<1>12. LexicalOk'
  <2>1. LexicalOk
    BY DEF StaticInv
  <2> QED
    BY <1>3, <1>4, <2>1 DEF LexicalOk, OfOnePublication
<1> QED
  BY <1>3, <1>5, <1>8, <1>9, <1>10, <1>11, <1>12 DEF StaticInv

(* The surface file, of the rows of the manifest.json before it. *)
LEMMA SurfaceStep == ASSUME IInv, StaticInv, WriteSurface PROVE StaticInv'
<1> DEFINE next == [job EXCEPT !.step = "lexical", !.read = << >>]
<1>1. job.step = "surface" /\ Goes(next) /\ Writes("surface", job.read, job.held)
  BY DEF WriteSurface, At
<1>2. next.kind = job.kind /\ next.step = "lexical" /\ next.held = job.held
  <2>1. DOMAIN job = JobFields
    BY JobType
  <2> QED
    BY <2>1, GoesFacts DEF Steps, JobFields
<1> HIDE DEF next
<1>3. /\ job' = next /\ UNCHANGED <<opts, store, jobs>>
  BY <1>1 DEF Goes, Untouched
<1>4. /\ disk'.surface = job.read /\ basis'.surface.of = job.held
      /\ disk'.manifestJson = disk.manifestJson /\ basis'.manifestJson = basis.manifestJson
      /\ disk'.lexical = disk.lexical /\ basis'.lexical = basis.lexical
  <2>1. "surface" \in Outputs /\ {"manifestJson", "lexical"} \subseteq StaticFiles \ {"surface"}
    BY DEF Outputs, StaticFiles
  <2> QED
    BY <1>1, <2>1, StaticFilesKept
<1>5. /\ job.kind = "publish" /\ job.held.run = jobs /\ job.held.at \in Nat /\ job.held.at <= store.db
      /\ IsIndex(job.held.rows) /\ job.held.db \in Nat /\ job.held.at <= job.held.db
      /\ disk.manifestJson # NoFile /\ basis.manifestJson.of = job.held
      /\ \E found \in SUBSET store.extracted : job.read = Surface(job.held.rows, found)
      /\ IsIndex(store.rows) /\ jobs \in Nat
  BY <1>1, JobsIsNat DEF StaticInv, PublishHeld, StepsOfPublish, At
<1>6. disk.lexical # NoFile => basis.lexical.of.run \in Nat /\ basis.lexical.of.run < jobs
  <2>1. Unwritten("lexical") /\ "lexical" \in StaticFiles
    BY <1>1 DEF Unwritten, StaticFiles, At
  <2> QED
    BY <2>1 DEF StaticInv, RunsOk
<1>8. PublishHeld'
  BY <1>2, <1>3, <1>4, <1>5 DEF PublishHeld, At, StepsOfPublish, LexicalSteps
<1>9. RunsOk'
  <2>1. ~Unwritten("manifestJson")' /\ ~Unwritten("surface")'
    BY <1>2, <1>3 DEF Unwritten, At, LexicalSteps
  <2> QED
    BY <1>3, <1>4, <1>5, <1>6, <2>1 DEF RunsOk, StaticFiles
<1>10. ManifestJsonOk'
  BY <1>4 DEF StaticInv, ManifestJsonOk
<1>11. SurfaceOk'
  BY <1>3, <1>4, <1>5 DEF SurfaceOk
<1>12. LexicalOk'
  <2>1. LexicalOk
    BY DEF StaticInv
  <2>2. disk.lexical # NoFile => ~OfOnePublication("surface", "lexical")'
    BY <1>4, <1>5, <1>6 DEF OfOnePublication
  <2> QED
    BY <1>3, <1>4, <2>1, <2>2 DEF LexicalOk
<1> QED
  BY <1>3, <1>5, <1>8, <1>9, <1>10, <1>11, <1>12 DEF StaticInv

(* The lexical index, of a publication or on its own. *)
LEMMA LexicalWritten ==
    ASSUME IInv, StaticInv, NEW docs, AreDocs(docs), NEW db \in Nat, NEW source,
           source.docs = docs, source.run = jobs, source.at \in Nat, source.at <= db,
           NEW limit \in {opts.maxLexical, opts.maxLexicalAlone},
           ~(LexicalSize(BuildLexicalIndex(docs, db)) > limit),
           Writes("lexical", BuildLexicalIndex(docs, db), source), Goes(Idle),
           disk.surface # NoFile /\ basis.surface.of.run = jobs =>
              SameDocuments(BuildLexicalIndex(docs, db), disk.surface)
    PROVE  StaticInv'
<1> DEFINE index == BuildLexicalIndex(docs, db)
<1>1. /\ job' = Idle /\ UNCHANGED <<opts, store, jobs>>
  BY DEF Goes, Untouched
<1>2. /\ disk'.lexical = index /\ basis'.lexical.of = source
      /\ disk'.manifestJson = disk.manifestJson /\ basis'.manifestJson = basis.manifestJson
      /\ disk'.surface = disk.surface /\ basis'.surface = basis.surface
  <2>1. "lexical" \in Outputs /\ {"manifestJson", "surface"} \subseteq StaticFiles \ {"lexical"}
    BY DEF Outputs, StaticFiles
  <2> QED
    BY <2>1, StaticFilesKept
<1>3. index.db = db /\ LexicalSize(index) \in Nat
  BY IndexForm
<1> HIDE DEF index
<1>4. LexicalSize(index) <= Max({opts.maxLexical, opts.maxLexicalAlone})
  <2>1. {opts.maxLexical, opts.maxLexicalAlone} \subseteq Nat
    BY JobsIsNat, IndexAssumption
  <2> DEFINE limits == {opts.maxLexical, opts.maxLexicalAlone}
  <2>2. IsFiniteSet(limits) /\ limits # {} /\ limits \subseteq Int
    <3>1. limits = {opts.maxLexical} \cup {opts.maxLexicalAlone}
      OBVIOUS
    <3>2. IsFiniteSet({opts.maxLexical}) /\ IsFiniteSet({opts.maxLexicalAlone})
      BY FS_Singleton
    <3>3. IsFiniteSet(limits)
      BY <3>1, <3>2, FS_Union
    <3> QED
      BY <2>1, <3>3
  <2>3. limit \in limits /\ limit \in Nat
    BY <2>1
  <2> HIDE DEF limits
  <2>4. Max(limits) \in limits /\ limit <= Max(limits)
    BY <2>2, <2>3, MaxIsLargest
  <2>5. LexicalSize(index) <= limit
    BY <1>3, <2>3 DEF index
  <2>6. Max(limits) \in Int
    BY <2>2, <2>4
  <2> QED
    BY <1>3, <2>3, <2>4, <2>5, <2>6 DEF limits
<1>5. PublishHeld'
  BY <1>1, IdleFacts DEF PublishHeld, At, StepsOfPublish, LexicalSteps
<1>6. RunsOk'
  <2>1. \A f \in StaticFiles : ~Unwritten(f)'
    BY <1>1, IdleFacts DEF Unwritten, At, LexicalSteps
  <2>2. RunsOk /\ jobs \in Nat
    BY JobsIsNat DEF StaticInv
  <2> QED
    BY <1>1, <1>2, <2>1, <2>2 DEF RunsOk, StaticFiles
<1>7. ManifestJsonOk' /\ SurfaceOk'
  BY <1>1, <1>2 DEF StaticInv, ManifestJsonOk, SurfaceOk
<1>8. LexicalOk'
  <2>1. OfOnePublication("surface", "lexical")' => SameDocuments(index, disk.surface)
    BY <1>2 DEF OfOnePublication, index
  <2> QED
    BY <1>1, <1>2, <1>3, <1>4, <2>1 DEF LexicalOk, index
<1> QED
  BY <1>1, <1>5, <1>6, <1>7, <1>8 DEF StaticInv

LEMMA LexicalStep == ASSUME IInv, StaticInv, WriteLexical PROVE StaticInv'
<1> DEFINE docs == LexicalDocs(job.held.rows, store.extracted)
           index == BuildLexicalIndex(docs, job.held.db)
           source == [at |-> job.held.at, run |-> job.held.run, docs |-> docs]
<1>1. /\ job.step = "lexical"
      /\ IF LexicalSize(index) > opts.maxLexical
           THEN Fails
           ELSE Writes("lexical", index, source) /\ Goes(Idle)
  BY DEF WriteLexical, At
<1>2. /\ job.held.run = jobs /\ job.held.at \in Nat /\ job.held.at <= job.held.db
      /\ IsIndex(job.held.rows) /\ job.held.db \in Nat
      /\ \E found \in SUBSET store.extracted : disk.surface = Surface(job.held.rows, found)
  BY <1>1 DEF StaticInv, PublishHeld, StepsOfPublish, At
<1>3. AreDocs(docs)
  BY <1>2, DocsFacts
<1>4. SameDocuments(index, disk.surface)
  <2>1. PICK found \in SUBSET store.extracted : disk.surface = Surface(job.held.rows, found)
    BY <1>2
  <2> QED
    BY <1>2, <2>1, SameLines
<1>5. source.docs = docs /\ source.run = jobs /\ source.at \in Nat /\ source.at <= job.held.db
  BY <1>2
<1>6. CASE LexicalSize(index) > opts.maxLexical
  BY <1>1, <1>6, StaticFails
<1>7. CASE ~(LexicalSize(index) > opts.maxLexical)
  <2>1. Writes("lexical", index, source) /\ Goes(Idle)
    BY <1>1, <1>7
  <2> HIDE DEF docs, source
  <2> QED
    BY <1>2, <1>3, <1>4, <1>5, <1>7, <2>1, LexicalWritten
<1> QED
  BY <1>6, <1>7

LEMMA LexicalAloneStep == ASSUME IInv, StaticInv, WriteLexicalAlone PROVE StaticInv'
<1> DEFINE index == BuildLexicalIndex(job.held.docs, store.db)
<1>1. /\ job.step = "lexicalAlone"
      /\ IF LexicalSize(index) > opts.maxLexicalAlone
           THEN Fails
           ELSE Writes("lexical", index, job.held) /\ Goes(Idle)
  BY DEF WriteLexicalAlone, At
<1>2. /\ job.held.run = jobs /\ job.held.at \in Nat /\ job.held.at <= store.db
      /\ AreDocs(job.held.docs) /\ store.db \in Nat
  BY <1>1, JobsIsNat DEF StaticInv, PublishHeld, LexicalSteps, At
<1>3. disk.surface # NoFile => basis.surface.of.run # jobs
  <2>1. Unwritten("surface") /\ "surface" \in StaticFiles
    BY <1>1 DEF Unwritten, StaticFiles, LexicalSteps
  <2>2. disk.surface # NoFile => basis.surface.of.run \in Nat /\ basis.surface.of.run < jobs
    BY <2>1 DEF StaticInv, RunsOk
  <2> QED
    BY <2>2, JobsIsNat
<1>4. CASE LexicalSize(index) > opts.maxLexicalAlone
  BY <1>1, <1>4, StaticFails
<1>5. CASE ~(LexicalSize(index) > opts.maxLexicalAlone)
  <2>1. Writes("lexical", index, job.held) /\ Goes(Idle)
    BY <1>1, <1>5
  <2> QED
    BY <1>2, <1>3, <1>5, <2>1, LexicalWritten
<1> QED
  BY <1>4, <1>5

LEMMA InitStatic == Init => StaticInv
<1> SUFFICES ASSUME Init PROVE StaticInv
  OBVIOUS
<1>1. IsIndex(store.rows) /\ job = Idle /\ \A f \in Outputs : disk[f] = NoFile
  BY IndexAssumption DEF Init
<1>2. disk.manifestJson = NoFile /\ disk.surface = NoFile /\ disk.lexical = NoFile
  BY <1>1 DEF Outputs
<1>3. PublishHeld
  BY <1>1, IdleFacts DEF PublishHeld, At, StepsOfPublish, LexicalSteps
<1>4. RunsOk
  BY <1>2 DEF RunsOk, StaticFiles
<1> QED
  BY <1>1, <1>2, <1>3, <1>4 DEF StaticInv, ManifestJsonOk, SurfaceOk, LexicalOk

LEMMA NextStatic == IInv /\ StaticInv /\ [Next]_vars => StaticInv'
<1> SUFFICES ASSUME IInv, StaticInv, [Next]_vars PROVE StaticInv'
  OBVIOUS
<1>1. CASE \E room \in DOMAIN log, message \in Feed : Poll(room, message)
  <2>1. UNCHANGED <<opts, store, job, disk, basis, jobs>>
    BY <1>1 DEF Poll
  <2> QED
    BY <2>1, StaticOther DEF KeepsFiles
<1>2. CASE \E change \in Changes : Index(change)
  BY <1>2, StaticIndexStep
<1>3. CASE ReadRoom
  BY <1>3, StaticRead
<1>4. CASE StartLedger \/ StartLiveness \/ StartFreeze \/ StartExtract
  BY <1>4, StaticOtherStarts
<1>5. CASE \/ WriteLedger \/ WriteCompact \/ WriteMap \/ WriteCompactMap
           \/ InstallShards \/ WriteArchive \/ WriteManifest \/ ExtractFile
  BY <1>5, StaticOtherCommands
<1>6. CASE StageShards \/ ClearOldShards \/ RetireShards \/ DropOldShards
  BY <1>6, StaticSwaps
<1>7. CASE StartPublish \/ StartLexical
  BY <1>7, StaticStarts
<1>8. CASE HashDatabase \/ ReadLexicalDocs
  BY <1>8, HashStep, ReadDocsStep
<1>9. CASE WriteManifestJson \/ WriteSurface \/ WriteLexical \/ WriteLexicalAlone
  BY <1>9, ManifestJsonStep, SurfaceStep, LexicalStep, LexicalAloneStep
<1>10. CASE Kill
  BY <1>10, StaticKill
<1>11. CASE UNCHANGED vars
  <2>1. UNCHANGED <<opts, store, job, disk, basis, jobs>>
    BY <1>11 DEF vars
  <2> QED
    BY <2>1, StaticOther DEF KeepsFiles
<1> QED
  BY <1>1, <1>2, <1>3, <1>4, <1>5, <1>6, <1>7, <1>8, <1>9, <1>10, <1>11 DEF Next

(* Whoever indexes meanwhile and wherever a publication is killed, each file
   of an index holds what was computed of one read of the manifest, of texts
   that are still there, and of a database no older than that read: and what
   two files of one publication hold comes of the same read. *)
THEOREM PublicationsKeepTheirBasis == Spec => []StaticInv
<1>1. IInv /\ StaticInv /\ [Next]_vars => StaticInv'
  BY NextStatic
<1> QED
  BY Invariance, InitStatic, <1>1, PTL DEF Spec

LEMMA StaticHolds == IInv /\ StaticInv => StaticFaithful
<1> SUFFICES ASSUME IInv, StaticInv PROVE StaticFaithful
  OBVIOUS
<1>1. ManifestJsonOk /\ SurfaceOk /\ LexicalOk
  BY DEF StaticInv
<1>2. ASSUME disk.manifestJson # NoFile PROVE disk.manifestJson.db >= basis.manifestJson.of.at
  <2> DEFINE of == basis.manifestJson.of
  <2>1. of.at \in Nat /\ of.db \in Nat /\ of.at <= of.db /\ disk.manifestJson = ManifestObj(of.rows, of.db)
    BY <1>1, <1>2 DEF ManifestJsonOk
  <2>2. ManifestObj(of.rows, of.db).db = of.db
    BY DEF ManifestObj
  <2> QED
    BY <2>1, <2>2
<1>3. ASSUME disk.lexical # NoFile
      PROVE  /\ disk.lexical.db >= basis.lexical.of.at
             /\ LexicalLoads(disk.lexical, Max({opts.maxLexical, opts.maxLexicalAlone}))
             /\ FindsByTerm(disk.lexical, basis.lexical.of.docs)
  <2> DEFINE docs == basis.lexical.of.docs
             db == disk.lexical.db
             limit == Max({opts.maxLexical, opts.maxLexicalAlone})
  <2>1. /\ AreDocs(docs) /\ basis.lexical.of.at \in Nat /\ db \in Nat /\ basis.lexical.of.at <= db
        /\ disk.lexical = BuildLexicalIndex(docs, db)
        /\ LexicalSize(disk.lexical) <= limit
    BY <1>1, <1>3 DEF LexicalOk
  <2> HIDE DEF docs, db, limit
  <2>2. LexicalLoads(BuildLexicalIndex(docs, db), limit) /\ FindsByTerm(BuildLexicalIndex(docs, db), docs)
    BY <2>1, IndexLoads, TermsAreFound
  <2> QED
    BY <2>1, <2>2 DEF docs, db, limit
<1>4. ASSUME OfOnePublication("manifestJson", "surface")
      PROVE  LET live == {e \in Range(disk.manifestJson.documents) : e[3].status = "indexed"}
             IN  /\ {<<s.url, s.doc>> : s \in Range(disk.surface)} = {<<e[1], e[2]>> : e \in live}
                 /\ Cardinality({e[1] : e \in live}) = Cardinality(live)
                 /\ disk.manifestJson.counts["indexed"] = Len(disk.surface)
  <2> DEFINE rows == basis.surface.of.rows
             db == basis.surface.of.db
  <2>1. /\ disk.manifestJson # NoFile /\ disk.surface # NoFile
        /\ basis.manifestJson.of.run = basis.surface.of.run
    BY <1>4 DEF OfOnePublication
  <2>2. basis.manifestJson.of = basis.surface.of /\ IsIndex(rows)
    BY <1>1, <2>1 DEF SurfaceOk
  <2>3. PICK found : disk.surface = Surface(rows, found)
    BY <1>1, <2>1 DEF SurfaceOk
  <2>4. disk.manifestJson = ManifestObj(rows, db)
    BY <1>1, <2>1, <2>2 DEF ManifestJsonOk
  <2> HIDE DEF rows, db
  <2> QED
    <3>1. ListsAlike(ManifestObj(rows, db), Surface(rows, found))
      BY <2>2, SameListing
    <3>2. ListsAlike(disk.manifestJson, disk.surface)
      BY ONLY <2>3, <2>4, <3>1
    <3> QED
      BY ONLY <3>2 DEF ListsAlike
<1>5. disk.surface # NoFile => disk.manifestJson # NoFile
                                 /\ basis.manifestJson.of.run >= basis.surface.of.run
  <2> SUFFICES ASSUME disk.surface # NoFile
               PROVE  disk.manifestJson # NoFile /\ basis.manifestJson.of.run >= basis.surface.of.run
    OBVIOUS
  <2>1. disk.manifestJson # NoFile /\ basis.surface.of.run <= basis.manifestJson.of.run
    BY <1>1 DEF SurfaceOk
  <2>2. basis.surface.of.run \in Nat /\ basis.manifestJson.of.run \in Nat
    BY <2>1 DEF StaticInv, RunsOk, StaticFiles
  <2> QED
    BY <2>1, <2>2
<1>6. OfOnePublication("surface", "lexical") => SameDocuments(disk.lexical, disk.surface)
  BY <1>1 DEF LexicalOk, OfOnePublication
<1>7. \A f \in {"manifestJson", "lexical"} : disk[f] # NoFile => disk[f].db >= basis[f].of.at
  BY <1>2, <1>3
<1> QED
  BY <1>3, <1>4, <1>5, <1>6, <1>7 DEF StaticFaithful

(* What the published files of an index say of each other, for any index and
   any limits: see StaticFaithful.  The one read of the manifest that
   build_static_index hands on is what the listings agree by. *)
THEOREM StaticFilesAreFaithful == Spec => []StaticFaithful
BY Invariance, PublicationsKeepTheirBasis, StaticHolds, PTL
=============================================================================
