-------------------------- MODULE KnowledgeProofs ---------------------------
(***************************************************************************)
(* Proofs about Knowledge and Chunking.                                     *)
(***************************************************************************)
EXTENDS Knowledge, DataLemmas

-----------------------------------------------------------------------------
(* Greatest numbers.  Nothing here counts or recurses: a set of numbers below *)
(* a bound has a greatest element because < on the naturals is well-founded.  *)

LEMMA BoundedSetHasMax ==
    ASSUME NEW n \in Nat, NEW S \in SUBSET (-n..n), S # {}
    PROVE  \E s \in S : \A r \in S : r <= s
<1> DEFINE R == OpToRel(<, Nat)
           T == {n - s : s \in S}
<1>1. T \subseteq Nat /\ T # {}
  <2>1. \A s \in S : n - s \in Nat
    OBVIOUS
  <2>2. PICK s \in S : TRUE
    OBVIOUS
  <2>3. n - s \in T
    BY <2>2
  <2> QED  BY <2>1, <2>3
<1>2. IsWellFoundedOn(R, Nat)
  BY NatLessThanWellFounded
<1>3. \E x \in T : \A y \in T : <<y, x>> \notin R
  <2> HIDE DEF R, T
  <2> QED  BY <1>1, <1>2, WFMin
<1>4. PICK x \in T : \A y \in T : <<y, x>> \notin R
  BY <1>3
<1>5. \A y \in T : ~(y < x)
  BY <1>4, <1>1 DEF OpToRel
<1>6. PICK s \in S : x = n - s
  BY <1>4
<1>7. \A r \in S : r <= s
  <2> TAKE r \in S
  <2>1. ~(n - r < x)
    BY <1>5
  <2> QED  BY <2>1, <1>6
<1> QED  BY <1>7

LEMMA MaxIsGreatest ==
    ASSUME NEW n \in Nat, NEW S \in SUBSET (-n..n), S # {}
    PROVE  Max(S) \in S /\ \A r \in S : r <= Max(S)
<1>1. PICK s \in S : \A r \in S : s >= r
  BY BoundedSetHasMax
<1>2. Max(S) \in S /\ \A r \in S : Max(S) >= r
  BY <1>1, Zenon DEF Max
<1> QED  BY <1>2

\* What is chosen as the latest boundary is one, and the greatest.
LEMMA LatestIsGreatest ==
    ASSUME NEW n \in Nat, NEW S \in SUBSET (0..n)
    PROVE  /\ S = {} => Latest(S) = -1
           /\ S # {} => Latest(S) \in S /\ \A r \in S : r <= Latest(S)
<1>1. ASSUME S # {}
      PROVE  Latest(S) \in S /\ \A r \in S : r <= Latest(S)
  <2>1. 0..n \subseteq -n..n
    OBVIOUS
  <2>2. S \in SUBSET (-n..n)
    BY <2>1, Zenon
  <2> QED  BY <1>1, <2>2, BoundedSetHasMax DEF Latest
<1> QED  BY <1>1 DEF Latest

-----------------------------------------------------------------------------
(* Chunking.                                                               *)

\* A boundary is an offset of the window.
LEMMA BoundaryInWindow ==
    ASSUME NEW w \in Seq(STRING)
    PROVE  LastBoundary(w) \in 0..Len(w)
<1> DEFINE half == Len(w) \div 2
           P == {i \in 0..Len(w) - 2 : w[i+1] = "\n" /\ w[i+2] = "\n"}
           S == {e \in 2..Len(w) :
                    /\ w[e] \in White /\ (e < Len(w) => w[e+1] \notin White)
                    /\ \E s \in 1..e-1 : w[s] = "." /\ \A k \in s+1..e : w[k] \in White}
           B == {i \in 0..Len(w) - 1 : w[i+1] = " "}
<1>1. Len(w) \in Nat /\ half \in Nat
  OBVIOUS
<1>2. P \in SUBSET (0..Len(w)) /\ S \in SUBSET (0..Len(w)) /\ B \in SUBSET (0..Len(w))
  <2>1. /\ 0..Len(w) - 2 \subseteq 0..Len(w) /\ 2..Len(w) \subseteq 0..Len(w)
        /\ 0..Len(w) - 1 \subseteq 0..Len(w)
    BY <1>1
  <2>2. P \subseteq 0..Len(w) - 2 /\ S \subseteq 2..Len(w) /\ B \subseteq 0..Len(w) - 1
    BY Zenon
  <2> HIDE DEF P, S, B
  <2> QED  BY <2>1, <2>2
<1>3. Latest(P) \in -1..Len(w) /\ Latest(S) \in -1..Len(w) /\ Latest(B) \in -1..Len(w)
  <2> HIDE DEF P, S, B
  <2>1. \A X \in SUBSET (0..Len(w)) : Latest(X) \in -1..Len(w)
    <3> TAKE X \in SUBSET (0..Len(w))
    <3>1. CASE X = {}
      BY <3>1, <1>1, LatestIsGreatest
    <3>2. CASE X # {}
      <4>1. Latest(X) \in X
        BY <3>2, <1>1, LatestIsGreatest
      <4>2. Latest(X) \in 0..Len(w)
        BY <4>1, Zenon
      <4>3. 0..Len(w) \subseteq -1..Len(w)
        BY <1>1
      <4> QED  BY <4>2, <4>3, Zenon
    <3> QED  BY <3>1, <3>2
  <2> QED  BY <2>1, <1>2
<1>4. LastBoundary(w) = CASE Latest(P) >= half -> Latest(P)
                          [] Latest(P) < half /\ Latest(S) >= half -> Latest(S)
                          [] Latest(P) < half /\ Latest(S) < half /\ Latest(B) >= half -> Latest(B)
                          [] OTHER -> 0
  BY DEF LastBoundary
<1> HIDE DEF P, S, B, half
<1> QED  BY <1>1, <1>3, <1>4

\* A window begins inside the text, is no longer than CHUNK_SIZE and is not empty.
LEMMA WindowBounds ==
    ASSUME NEW t \in Seq(STRING), NEW start \in 0..Len(t) - 1
    PROVE  /\ EndOfWindow(t, start) \in start + 1..Len(t)
           /\ EndOfWindow(t, start) <= start + ChunkSize
<1> DEFINE full == start + ChunkSize
           window == SubSeq(t, start + 1, full)
<1>1. ChunkSize \in Nat \ {0} /\ Len(t) \in Nat /\ start \in Nat
  BY ChunkAssumption
<1>2. CASE full >= Len(t)
  BY <1>1, <1>2 DEF EndOfWindow
<1>3. CASE full < Len(t)
  <2>1. window \in Seq(STRING) /\ Len(window) = ChunkSize
    BY <1>1, <1>3
  <2>2. LastBoundary(window) \in 0..ChunkSize
    BY <2>1, BoundaryInWindow
  <2>3. EndOfWindow(t, start) = IF LastBoundary(window) > 0
                                THEN start + LastBoundary(window) ELSE full
    BY <1>1, <1>3, <2>2 DEF EndOfWindow
  <2> HIDE DEF window
  <2> QED  BY <1>1, <1>3, <2>2, <2>3
<1> QED  BY <1>1, <1>2, <1>3

\* Cutting a text makes progress and skips no character: the next window begins after
\* this one and not after its end, and repeats no more than CHUNK_OVERLAP of it.  So
\* chunk_text comes to the end of every text, whatever its boundaries, for every size
\* and every smaller overlap.
THEOREM WindowsOverlap ==
    ASSUME NEW t \in Seq(STRING), NEW start \in 0..Len(t) - 1
    PROVE  LET end == EndOfWindow(t, start)
               next == NextStart(start, end)
           IN  /\ next \in start + 1..end
               /\ end - next <= ChunkOverlap
               /\ end - next < ChunkOverlap => next = start + 1
               /\ end < Len(t) => next \in 0..Len(t) - 1
<1>1. /\ ChunkSize \in Nat \ {0} /\ ChunkOverlap \in Nat
      /\ Len(t) \in Nat /\ start \in Nat
  BY ChunkAssumption
<1> QED  BY <1>1, WindowBounds DEF NextStart

-----------------------------------------------------------------------------
(* Similarity and the nearest passages.                                     *)

Cosines == -One..One
Embedded(hits) == \A h \in hits : h.model \in Model

LEMMA OneIsNat == One \in Nat /\ Weak \in Nat /\ HalfOfLastDecimal \in Nat
BY SMT DEF One, Weak, HalfOfLastDecimal

LEMMA WeakBelowOne == Weak <= One
BY SMT DEF One, Weak

LEMMA CosineIsInt == Cosines \subseteq Int /\ 0 \in Cosines
BY OneIsNat DEF Cosines

LEMMA ScoreIsCosine ==
    ASSUME NEW query \in SUBSET Word, NEW hit, hit.model \in Model
    PROVE  Score(query, hit) \in Cosines
<1>1. WordsOf(hit.passage) \in SUBSET Word
  BY DEF WordsOf
<1> QED  BY <1>1, KnowledgeConstants DEF Score, Cosines

\* The best score is that of a hit, and none is better.
LEMMA BestIsGreatest ==
    ASSUME NEW query \in SUBSET Word, NEW hits, Embedded(hits)
    PROVE  /\ BestOf(query, hits) \in Cosines
           /\ hits = {} => BestOf(query, hits) = 0
           /\ hits # {} => \E h \in hits : Score(query, h) = BestOf(query, hits)
           /\ \A h \in hits : Score(query, h) <= BestOf(query, hits)
<1> DEFINE scores == {Score(query, h) : h \in hits}
<1>1. scores \in SUBSET Cosines
  BY ScoreIsCosine DEF Embedded
<1>2. CASE hits = {}
  BY <1>2, CosineIsInt DEF BestOf
<1>3. CASE hits # {}
  <2>1. scores # {}
    BY <1>3
  <2>2. BestOf(query, hits) = Max(scores)
    BY <1>3 DEF BestOf
  <2>3. One \in Nat
    BY OneIsNat
  <2>4. BestOf(query, hits) \in scores /\ \A r \in scores : r <= BestOf(query, hits)
    <3> HIDE DEF scores
    <3> QED  BY <1>1, <2>1, <2>2, <2>3, MaxIsGreatest DEF Cosines
  <2>5. \E h \in hits : Score(query, h) = BestOf(query, hits)
    BY <2>4
  <2>6. \A h \in hits : Score(query, h) <= BestOf(query, hits)
    BY <2>4
  <2>7. BestOf(query, hits) \in Cosines
    BY <2>4, <1>1
  <2> QED  BY <2>5, <2>6, <2>7, <1>3
<1> QED  BY <1>2, <1>3

LEMMA ScoresAreInts ==
    ASSUME NEW query \in SUBSET Word, NEW hits, Embedded(hits)
    PROVE  /\ \A h \in hits : Score(query, h) \in Int
           /\ BestOf(query, hits) \in Int
<1>1. \A h \in hits : Score(query, h) \in Int
  BY ScoreIsCosine, CosineIsInt DEF Embedded
<1>2. BestOf(query, hits) \in Int
  BY BestIsGreatest, CosineIsInt, Zenon
<1> QED  BY <1>1, <1>2

-----------------------------------------------------------------------------
(* The inductive invariant.                                                *)

RowsByKey ==
    /\ documents = [d \in Doc |-> documents[d]] /\ crashes = [k \in Crash |-> crashes[k]]
    /\ diagnoses = [g \in Diagnosis |-> diagnoses[g]]
    /\ job = [c \in Connection |-> job[c]]

\* A request with the fields of its call.
JobOK(j) ==
    /\ Request(j)
    /\ \/ j.call = "ingest" /\ j = [call |-> j.call, step |-> j.step, text |-> j.text]
       \/ /\ j.call = "diagnose"
          /\ j = [call |-> j.call, step |-> j.step, crash |-> j.crash, query |-> j.query,
                  sources |-> j.sources, model |-> j.model, best |-> j.best]

\* Types, and a diagnosis stored needs its crash, which the request remembers by id only.
TypeInv ==
    /\ RowsByKey /\ may \in Scenario /\ embedder \in Model
    /\ \A d \in Doc : documents[d] # None => DocumentRow(documents[d])
    /\ \A k \in Crash : crashes[k] # None => crashes[k] \subseteq Word
    /\ \A g \in Diagnosis : diagnoses[g] # None => DiagnosisRow(diagnoses[g])
    /\ \A c \in Connection : Running(c) => JobOK(job[c])

\* A content past the insert is neither stored nor past it on another connection.
ContentInv ==
    /\ OneDocumentPerContent
    /\ \A c \in Connection : At(c, "embed") => ~Stored(job[c].text)
    /\ \A c, d \in Connection :
          c # d /\ At(c, "embed") /\ At(d, "embed") => job[c].text # job[d].text

OnShelf(model, hits) == \A h \in hits : [model |-> model, passage |-> h.passage] \in shelf

\* What is stored, asked about or answered from has been indexed with the model it says.
ShelfInv ==
    /\ \A d \in Doc : documents[d] # None =>
          \A p \in documents[d].passages :
              [model |-> documents[d].model, passage |-> p] \in shelf
    /\ \A c \in Connection : At(c, "ask") => OnShelf(job[c].model, job[c].sources)
    /\ \A g \in Diagnosis : diagnoses[g] # None =>
          OnShelf(diagnoses[g].model, diagnoses[g].sources)

\* The sources are few; there are some exactly if the best passage there was is near
\* enough, and then it, or one as near, is among them.
Judged(query, sources, best) ==
    /\ query \in SUBSET Word /\ Embedded(sources) /\ best \in Cosines \cup {None}
    /\ IsFiniteSet(sources) /\ Cardinality(sources) <= TopK
    /\ sources # {} <=> Near(best)
    /\ Near(best) => BestOf(query, sources) = best

ConfidenceInv ==
    /\ \A c \in Connection : At(c, "ask") => Judged(job[c].query, job[c].sources, job[c].best)
    /\ ConfidenceGrounded

IInv == TypeInv /\ ContentInv /\ ShelfInv /\ ConfidenceInv
\* Of what is found, the nearest few are taken, and the best of all is among them: their
\* score is the best there was.
LEMMA NearestHasBest ==
    ASSUME NEW query \in SUBSET Word, NEW found, Embedded(found),
           NEW top \in Nearest(query, found)
    PROVE  /\ top \subseteq found /\ IsFiniteSet(top) /\ Cardinality(top) <= TopK
           /\ found # {} => \E h \in top : Score(query, h) = BestOf(query, found)
<1>1. /\ top \subseteq found /\ IsFiniteSet(top) /\ Cardinality(top) <= TopK
      /\ top = found \/ Cardinality(top) = TopK
      /\ \A h \in top, o \in found \ top : Score(query, h) >= Score(query, o)
  BY DEF Nearest
<1>2. ASSUME found # {}
      PROVE  \E h \in top : Score(query, h) = BestOf(query, found)
  <2>1. PICK o \in found : Score(query, o) = BestOf(query, found)
    BY <1>2, BestIsGreatest
  <2>2. top # {}
    BY <1>1, <1>2, FS_EmptySet, KnowledgeConstants
  <2>3. PICK h \in top : TRUE
    BY <2>2
  <2>4. CASE o \in top
    BY <2>1, <2>4
  <2>5. CASE o \notin top
    <3>1. Score(query, h) >= BestOf(query, found)
      BY <1>1, <2>1, <2>5
    <3>2. h \in found /\ Score(query, h) <= BestOf(query, found)
      BY <1>1, BestIsGreatest
    <3>3. Score(query, h) \in Int /\ BestOf(query, found) \in Int
      BY <3>2, ScoresAreInts
    <3> QED  BY <3>1, <3>2, <3>3
  <2> QED  BY <2>4, <2>5
<1> QED  BY <1>1, <1>2

\* Dropping what is not near enough keeps the best if it is near enough, and else nothing:
\* so the confidence is judged by the best passage there was, not by what was cut away.
LEMMA RetrievalIsJudged ==
    ASSUME NEW query \in SUBSET Word, NEW found, Embedded(found),
           NEW top \in Nearest(query, found),
           NEW sources, sources = {h \in top : Score(query, h) >= MinRelevance},
           NEW best, best = IF found = {} THEN None ELSE BestOf(query, found)
    PROVE  Judged(query, sources, best)
<1> USE KnowledgeConstants
<1>1. /\ top \subseteq found /\ IsFiniteSet(top) /\ Cardinality(top) <= TopK
      /\ found # {} => \E h \in top : Score(query, h) = BestOf(query, found)
  BY NearestHasBest
<1>2. IsFiniteSet(sources) /\ Cardinality(sources) <= TopK
  <2>1. sources \in SUBSET top
    OBVIOUS
  <2>2. IsFiniteSet(sources) /\ Cardinality(sources) <= Cardinality(top)
    BY <1>1, <2>1, FS_Subset
  <2> QED  BY <1>1, <2>2, FS_CardinalityType
<1>3. BestOf(query, found) \in Cosines /\ BestOf(query, found) \in Int
  BY BestIsGreatest, ScoresAreInts
<1>4. best \in Cosines \cup {None} /\ (found = {} <=> best = None)
  BY <1>3
<1>5. sources \subseteq found /\ Embedded(sources) /\ \A h \in found : Score(query, h) \in Int
  BY <1>1, ScoresAreInts DEF Embedded
<1>6. ASSUME Near(best)
      PROVE  sources # {} /\ BestOf(query, sources) = best
  <2>1. found # {} /\ best = BestOf(query, found) /\ best >= MinRelevance
    BY <1>6, <1>4 DEF Near
  <2>2. PICK h \in top : Score(query, h) = best
    BY <1>1, <2>1
  <2>3. h \in sources
    BY <2>1, <2>2
  <2>4. best <= BestOf(query, sources)
    BY <2>2, <2>3, <1>5, BestIsGreatest
  <2>5. PICK o \in sources : Score(query, o) = BestOf(query, sources)
    <3>1. sources # {}
      BY <2>3
    <3> QED  BY <3>1, <1>5, BestIsGreatest, Zenon
  <2>6. o \in found
    BY <1>1, <2>5
  <2>7. BestOf(query, sources) <= best
    BY <2>1, <2>5, <2>6, BestIsGreatest
  <2>8. BestOf(query, sources) \in Int
    BY <1>5, ScoresAreInts
  <2> QED  BY <2>3, <2>4, <2>7, <2>8, <2>1, <1>3
<1>7. ASSUME sources # {}
      PROVE  Near(best)
  <2>1. PICK h \in sources : Score(query, h) >= MinRelevance
    BY <1>7
  <2>2. h \in found
    BY <1>1, <2>1
  <2>3. best = BestOf(query, found) /\ Score(query, h) <= best
    BY <2>2, BestIsGreatest
  <2>4. best \in Int /\ Score(query, h) \in Int
    BY <2>2, <2>3, <1>3, <1>5
  <2> QED  BY <2>1, <2>2, <2>3, <2>4, <1>4 DEF Near
<1> QED  BY <1>2, <1>4, <1>5, <1>6, <1>7 DEF Judged

\* Rounding to four decimals moves a number by half of the last one at most.
LEMMA RoundingError ==
    ASSUME NEW n \in Int, NEW d \in {1, 2, 100}, NEW support \in Int, n <= d * support
    PROVE  RoundTo4(n, d) <= support + HalfOfLastDecimal
<1> DEFINE q == (n + 50 * d) \div (100 * d)
<1>1. CASE d = 1
  BY <1>1, SMT DEF RoundTo4, HalfOfLastDecimal
<1>2. CASE d = 2
  BY <1>2, SMT DEF RoundTo4, HalfOfLastDecimal
<1>3. CASE d = 100
  BY <1>3, SMT DEF RoundTo4, HalfOfLastDecimal
<1> QED  BY <1>1, <1>2, <1>3

\* Whatever is claimed, the answer from judged sources has the confidence they support.
LEMMA ClaimsCannotRaise ==
    ASSUME NEW query, NEW sources, NEW best, Judged(query, sources, best),
           NEW claim \in Int \cup {None}
    PROVE  LET grounded == GroundedConfidence(claim, BestOf(query, sources), Cardinality(sources))
               uncertain == grounded.label = "uncertain"
           IN  /\ grounded.label \in {"certain", "likely", "uncertain"}
               /\ uncertain <=> ~(Near(best) /\ best >= ConfidenceFloor)
               /\ grounded.score <= Support(best) + (IF uncertain THEN 0 ELSE HalfOfLastDecimal)
               /\ grounded.label = "certain" => best >= CertainThreshold
<1> DEFINE top == BestOf(query, sources)
           n == Cardinality(sources)
           grounded == GroundedConfidence(claim, top, n)
           near == Near(best)
           support == Lesser(One, top)
<1>1. /\ n = 0 <=> sources = {}
      /\ sources = {} => top = 0
      /\ sources # {} <=> near
      /\ near => top = best
      /\ near => best # None
      /\ best \in Cosines \cup {None}
  BY FS_EmptySet, BestIsGreatest DEF Judged, Near
<1>2. near => best \in Int
  BY <1>1, CosineIsInt
<1>3. /\ ConfidenceFloor \in Int /\ CertainThreshold \in Int
      /\ None \notin Int
  BY KnowledgeConstants
<1>4. Support(best) = IF near THEN Greater(0, Lesser(One, best)) ELSE 0
  BY DEF Support
<1>5. /\ grounded.label \in {"certain", "likely", "uncertain"}
      /\ grounded.label = "uncertain" <=> ~(near /\ best >= ConfidenceFloor)
      /\ grounded.score <= Support(best) +
             (IF grounded.label = "uncertain" THEN 0 ELSE HalfOfLastDecimal)
      /\ grounded.label = "certain" => best >= CertainThreshold
  <2> HIDE DEF top, n, near
  <2>1. CASE ~near
    <3>1. n = 0 /\ top = 0
      BY <1>1, <2>1
    <3>2. grounded = [score |-> 0, label |-> "uncertain"] /\ Support(best) = 0
      BY <3>1, <1>4, <2>1, OneIsNat DEF GroundedConfidence, Lesser, Greater
    <3> HIDE DEF grounded
    <3> QED  BY <3>2, <2>1
  <2>2. CASE near /\ best < ConfidenceFloor
    <3>1. top = best /\ best \in Int
      BY <1>1, <1>2, <2>2
    <3>2. grounded = [score |-> Lesser(Weak, Greater(0, best)), label |-> "uncertain"]
      BY <3>1, <2>2 DEF GroundedConfidence
    <3>3. Lesser(Weak, Greater(0, best)) <= Support(best)
      <4>1. Support(best) = Greater(0, Lesser(One, best)) /\ Weak <= One
        BY <1>4, <2>2, WeakBelowOne, Zenon
      <4> QED  BY <3>1, <4>1, OneIsNat DEF Lesser, Greater
    <3>4. Support(best) \in Int
      BY <3>1, <1>4, <2>2, OneIsNat DEF Lesser, Greater
    <3> HIDE DEF grounded
    <3> QED  BY <3>1, <3>2, <3>3, <3>4, <2>2, <1>3
  <2>3. CASE near /\ ~(best < ConfidenceFloor)
    <3>1. top = best /\ best \in Int /\ n # 0
      BY <1>1, <1>2, <2>3
    <3>2. support \in Int /\ support <= best /\ support <= Support(best) /\ Support(best) \in Nat
      BY <3>1, <1>4, <2>3, OneIsNat DEF Lesser, Greater
    <3>3. grounded.label = IF support >= CertainThreshold THEN "certain" ELSE "likely"
      BY <3>1, <2>3 DEF GroundedConfidence
    <3>4. grounded.score = CASE claim = None -> RoundTo4(85 * support, 100)
                             [] claim # None /\ claim >= support -> RoundTo4(support, 1)
                             [] OTHER -> RoundTo4(support + claim, 2)
      BY <3>1, <2>3 DEF GroundedConfidence
    <3> HIDE DEF grounded, support
    <3>5. PICK bound \in Nat : bound = Support(best)
      BY <3>2
    <3>6. grounded.score <= bound + HalfOfLastDecimal
      <4>1. CASE claim = None
        <5>1. 85 * support \in Int /\ 85 * support <= 100 * bound
          BY <3>2, <3>5
        <5>2. grounded.score = RoundTo4(85 * support, 100)
          BY <3>4, <4>1
        <5> QED  BY <5>1, <5>2, <3>5, RoundingError
      <4>2. CASE claim # None /\ claim >= support
        <5>1. grounded.score = RoundTo4(support, 1)
          BY <3>4, <4>2
        <5>2. support <= 1 * bound
          BY <3>2, <3>5
        <5> QED  BY <5>1, <5>2, <3>2, <3>5, RoundingError
      <4>3. CASE claim # None /\ ~(claim >= support)
        <5>1. claim \in Int /\ support + claim \in Int /\ support + claim <= 2 * bound
          BY <4>3, <3>2, <3>5
        <5>2. grounded.score = RoundTo4(support + claim, 2)
          BY <3>4, <4>3
        <5> QED  BY <5>1, <5>2, <3>5, RoundingError
      <4> QED  BY <4>1, <4>2, <4>3
    <3>7. best >= ConfidenceFloor
      BY <3>1, <2>3, <1>3
    <3>8. grounded.label = "certain" => best >= CertainThreshold
      BY <3>1, <3>2, <3>3, <1>3
    <3>9. grounded.label \in {"certain", "likely"}
      BY <3>3
    <3> QED  BY <3>5, <3>6, <3>7, <3>8, <3>9, <2>3
  <2> QED  BY <2>1, <2>2, <2>3
<1> QED  BY <1>5

-----------------------------------------------------------------------------
(* Types.                                                                  *)

\* The length of a normalised text is a number, 0 only for the empty one.
LEMMA NormalizedLength ==
    ASSUME NEW t \in Seq(STRING)
    PROVE  /\ Len(NormalizeText(t)) \in Nat
           /\ NormalizeText(t) # <<>> => Len(NormalizeText(t)) # 0
<1> DEFINE Kept(i) ==
            \/ i \in Ink(t)
            \/ /\ t[i] = " " /\ \E j \in Ink(t) : j < i
               /\ \E j \in Ink(t) : i < j /\ \A k \in i..j : t[k] # "\n"
            \/ /\ t[i] = "\n" /\ \E j \in Ink(t) : i < j
               /\ \E j \in Ink(t) : j < i /\ Cardinality({k \in j..i : t[k] = "\n"}) <= 2
                                          /\ \A k \in j+1..i : k \notin Ink(t)
           kept == {i \in DOMAIN t : Kept(i)}
           n == Cardinality(kept)
           Char(m) == t[CHOOSE i \in DOMAIN t : Kept(i) /\ Cardinality({j \in 1..i : Kept(j)}) = m]
<1>1. NormalizeText(t) = [m \in 1..n |-> Char(m)]
  BY Zenon DEF NormalizeText
<1>2. n \in Nat
  <2>1. kept \in SUBSET (1..Len(t))
    <3>1. DOMAIN t = 1..Len(t)
      OBVIOUS
    <3> QED  BY <3>1, Zenon
  <2> HIDE DEF kept
  <2>2. IsFiniteSet(1..Len(t))
    BY FS_Interval
  <2> QED  BY <2>1, <2>2, FS_Subset, FS_CardinalityType
<1> HIDE DEF n, Char
<1>3. Len(NormalizeText(t)) = n
  BY <1>1, <1>2
<1>4. n = 0 => NormalizeText(t) = <<>>
  BY <1>1
<1> QED  BY <1>2, <1>3, <1>4

LEMMA InitTypes == Init => TypeInv
<1> SUFFICES ASSUME Init
             PROVE  TypeInv
  OBVIOUS
<1>1. /\ may \in Scenario /\ embedder \in may.models
      /\ documents = [d \in Doc |-> None] /\ crashes = [k \in Crash |-> {"a"}]
      /\ diagnoses = [g \in Diagnosis |-> None] /\ job = [c \in Connection |-> None]
  BY DEF Init
<1>2. RowsByKey
  BY <1>1 DEF RowsByKey
<1>3. embedder \in Model
  BY <1>1, KnowledgeConstants
<1>4. \A k \in Crash : crashes[k] \subseteq Word
  BY <1>1 DEF Word
<1> QED  BY <1>1, <1>2, <1>3, <1>4 DEF TypeInv, Running

\* One connection moves on and the tables stay as they are.
LEMMA TypesOfOneJob ==
    ASSUME TypeInv, NEW c \in Connection, NEW j,
           job' = [job EXCEPT ![c] = j], j # None => JobOK(j),
           UNCHANGED <<may, documents, crashes, diagnoses, embedder>>
    PROVE  TypeInv'
<1>1. RowsByKey'
  BY DEF TypeInv, RowsByKey
<1>2. \A e \in Connection : job'[e] = IF e = c THEN j ELSE job[e]
  BY DEF TypeInv, RowsByKey
<1>3. \A e \in Connection : Running(e)' => JobOK(job[e])'
  BY <1>2 DEF TypeInv, Running, Request, JobOK
<1>4. \A g \in Diagnosis : diagnoses'[g] # None => DiagnosisRow(diagnoses[g])'
  BY DEF TypeInv, DiagnosisRow
<1> QED  BY <1>1, <1>3, <1>4 DEF TypeInv, DocumentRow

LEMMA EndsKeepTypes ==
    ASSUME TypeInv, NEW c \in Connection, End(c),
           UNCHANGED <<may, documents, crashes, diagnoses, embedder>>
    PROVE  TypeInv'
BY TypesOfOneJob DEF End

\* A document is saved and its connection ends.
LEMMA SavesKeepTypes ==
    ASSUME TypeInv, NEW c \in Connection, At(c, "embed"), End(c),
           NEW status \in {"indexed", "failed"}, NEW passages, Save(status, c, passages),
           UNCHANGED <<may, crashes, diagnoses, embedder>>
    PROVE  TypeInv'
<1> DEFINE row == [text |-> job[c].text, model |-> embedder, status |-> status,
                   passages |-> passages]
           free == CHOOSE d \in Unused : TRUE
<1>1. documents' = [documents EXCEPT ![free] = row]
  BY DEF Save
<1>2. DocumentRow(row)
  BY DEF TypeInv, DocumentRow, At, Running, Request, JobOK
<1> HIDE DEF row, free
<1>3. \A d \in Doc : documents'[d] = documents[d] \/ documents'[d] = row
  BY <1>1 DEF TypeInv, RowsByKey
<1>4. \A d \in Doc : documents'[d] # None => DocumentRow(documents[d])'
  BY <1>2, <1>3 DEF TypeInv, DocumentRow
<1>5. RowsByKey'
  BY <1>1 DEF TypeInv, RowsByKey, End
<1>6. \A e \in Connection : Running(e)' => JobOK(job[e])'
  BY DEF TypeInv, RowsByKey, Running, Request, JobOK, End
<1>7. \A g \in Diagnosis : diagnoses'[g] # None => DiagnosisRow(diagnoses[g])'
  BY DEF TypeInv, DiagnosisRow
<1> QED  BY <1>4, <1>5, <1>6, <1>7 DEF TypeInv

\* What is stored of an answer, and that it may be stored.
LEMMA AnswersHaveTypes ==
    ASSUME TypeInv, NEW c \in Connection, At(c, "ask"), crashes[job[c].crash] # None,
           Judged(job[c].query, job[c].sources, job[c].best), NEW claim \in Int \cup {None}
    PROVE  DiagnosisRow(Assemble(c, claim))
<1> DEFINE j == job[c]
           grounded == GroundedConfidence(claim, BestOf(j.query, j.sources), Cardinality(j.sources))
<1>1. j.crash \in Crash
  BY DEF TypeInv, At, Running, Request, JobOK
<1>2. grounded.label \in {"certain", "likely", "uncertain"}
  BY ClaimsCannotRaise
<1>3. IsFiniteSet(j.sources) /\ Cardinality(j.sources) <= TopK
  BY DEF Judged
<1>4. /\ Assemble(c, claim).crash = j.crash /\ Assemble(c, claim).label = grounded.label
      /\ Assemble(c, claim).sources = j.sources
  BY DEF Assemble
<1> QED  BY <1>1, <1>2, <1>3, <1>4 DEF DiagnosisRow

\* A claim is a number or none.
LEMMA ClaimsAreNumbers ==
    ASSUME TypeInv, NEW sources
    PROVE  Claims(sources) \subseteq Int \cup {None} /\ Claims(sources) # {}
<1>1. may.claims \subseteq Int \cup {None}
  BY KnowledgeConstants DEF TypeInv
<1> QED  BY <1>1, SMT DEF Claims

LEMMA ConcludeKeepsTypes ==
    ASSUME TypeInv, ConfidenceInv, NEW c \in Connection, Conclude(c)
    PROVE  TypeInv'
<1>1. CASE UNCHANGED diagnoses
  BY <1>1, EndsKeepTypes DEF Conclude
<1>2. CASE ~UNCHANGED diagnoses
  <2>1. /\ At(c, "ask") /\ crashes[job[c].crash] # None
        /\ UNCHANGED <<may, documents, crashes, embedder>> /\ End(c)
    BY <1>2 DEF Conclude
  <2>2. PICK claim, free :
            /\ claim \in Claims(job[c].sources)
            /\ diagnoses' = [diagnoses EXCEPT ![free] = Assemble(c, claim)]
    BY <1>2 DEF Conclude
  <2>3. claim \in Int \cup {None}
    BY <2>2, ClaimsAreNumbers
  <2>4. DiagnosisRow(Assemble(c, claim))
    BY <2>1, <2>3, AnswersHaveTypes DEF ConfidenceInv
  <2>5. PICK row : row = Assemble(c, claim)
    OBVIOUS
  <2>6. \A g \in Diagnosis : diagnoses'[g] = diagnoses[g] \/ diagnoses'[g] = row
    BY <2>2, <2>5 DEF TypeInv, RowsByKey
  <2>7. \A g \in Diagnosis : diagnoses'[g] # None => DiagnosisRow(diagnoses[g])'
    BY <2>1, <2>4, <2>5, <2>6 DEF TypeInv, DiagnosisRow
  <2>8. RowsByKey'
    BY <2>1, <2>2, <2>5 DEF TypeInv, RowsByKey, End
  <2>9. \A e \in Connection : Running(e)' => JobOK(job[e])'
    BY <2>1 DEF TypeInv, RowsByKey, Running, Request, JobOK, End
  <2> QED  BY <2>1, <2>7, <2>8, <2>9 DEF TypeInv, DocumentRow
<1> QED  BY <1>1, <1>2

LEMMA DeleteDocumentKeepsTypes ==
    ASSUME TypeInv, NEW d \in Doc, DeleteDocument(d)
    PROVE  TypeInv'
<1>1. /\ documents' = [documents EXCEPT ![d] = None]
      /\ UNCHANGED <<may, crashes, diagnoses, embedder, job>>
  BY DEF DeleteDocument
<1>2. \A e \in Doc : documents'[e] # None => documents'[e] = documents[e]
  BY <1>1 DEF TypeInv, RowsByKey
<1>3. \A e \in Doc : documents'[e] # None => DocumentRow(documents[e])'
  BY <1>1, <1>2 DEF TypeInv, DocumentRow
<1>4. RowsByKey'
  BY <1>1 DEF TypeInv, RowsByKey
<1>5. \A g \in Diagnosis : diagnoses'[g] # None => DiagnosisRow(diagnoses[g])'
  BY <1>1 DEF TypeInv, DiagnosisRow
<1> QED  BY <1>1, <1>3, <1>4, <1>5 DEF TypeInv, Running, Request, JobOK

LEMMA SymbolicateKeepsTypes ==
    ASSUME TypeInv, NEW k \in Crash, Symbolicate(k)
    PROVE  TypeInv'
<1>1. /\ crashes' = [crashes EXCEPT ![k] = crashes[k] \cup {"f"}] /\ crashes[k] # None
      /\ UNCHANGED <<may, documents, diagnoses, embedder, job>>
  BY DEF Symbolicate
<1>2. crashes[k] \cup {"f"} \in SUBSET Word
  BY <1>1 DEF TypeInv, Word
<1>3. crashes[k] \cup {"f"} # None
  BY <1>2, KnowledgeConstants
<1>4. \A e \in Crash : crashes'[e] = IF e = k THEN crashes[k] \cup {"f"} ELSE crashes[e]
  BY <1>1 DEF TypeInv, RowsByKey
<1>5. \A e \in Crash : /\ crashes'[e] # None => crashes'[e] \subseteq Word
                       /\ crashes[e] # None => crashes'[e] # None
  BY <1>2, <1>3, <1>4 DEF TypeInv
<1>6. RowsByKey'
  BY <1>1 DEF TypeInv, RowsByKey
<1>7. \A g \in Diagnosis : diagnoses'[g] # None => DiagnosisRow(diagnoses[g])'
  BY <1>1, <1>5 DEF TypeInv, DiagnosisRow
<1> QED  BY <1>1, <1>5, <1>6, <1>7 DEF TypeInv, DocumentRow, Running, Request, JobOK

LEMMA DeleteCrashKeepsTypes ==
    ASSUME TypeInv, NEW k \in Crash, DeleteCrash(k)
    PROVE  TypeInv'
<1>1. /\ crashes' = [crashes EXCEPT ![k] = None]
      /\ diagnoses' = [g \in Diagnosis |-> IF diagnoses[g] # None /\ diagnoses[g].crash = k
                                           THEN None ELSE diagnoses[g]]
      /\ UNCHANGED <<may, documents, embedder, job>>
  BY DEF DeleteCrash
<1>2. \A e \in Crash : crashes'[e] = IF e = k THEN None ELSE crashes[e]
  BY <1>1 DEF TypeInv, RowsByKey
<1>3. \A g \in Diagnosis : diagnoses'[g] # None =>
            diagnoses'[g] = diagnoses[g] /\ diagnoses[g].crash # k
  BY <1>1
<1>4. \A g \in Diagnosis : diagnoses'[g] # None => DiagnosisRow(diagnoses[g])'
  BY <1>2, <1>3 DEF TypeInv, DiagnosisRow
<1>5. RowsByKey'
  BY <1>1 DEF TypeInv, RowsByKey
<1> QED  BY <1>1, <1>2, <1>4, <1>5 DEF TypeInv, DocumentRow, Running, Request, JobOK

LEMMA RedeployKeepsTypes ==
    ASSUME TypeInv, NEW model \in Model, Redeploy(model)
    PROVE  TypeInv'
<1>1. /\ embedder' = model /\ job' = [c \in Connection |-> None]
      /\ UNCHANGED <<may, documents, crashes, diagnoses>>
  BY DEF Redeploy
<1>2. RowsByKey'
  BY <1>1 DEF TypeInv, RowsByKey
<1>3. \A g \in Diagnosis : diagnoses'[g] # None => DiagnosisRow(diagnoses[g])'
  BY <1>1 DEF TypeInv, DiagnosisRow
<1> QED  BY <1>1, <1>2, <1>3 DEF TypeInv, DocumentRow, Running

LEMMA IngestKeepsTypes ==
    ASSUME TypeInv, NEW c \in Connection, KnowledgeRouter(c)
    PROVE  TypeInv'
<1>1. PICK content \in may.texts : Ingest(c, content)
  BY DEF KnowledgeRouter
<1>2. content \in Seq(STRING)
  BY <1>1, KnowledgeConstants DEF TypeInv
<1> DEFINE text == NormalizeText(content)
           j == [call |-> "ingest", step |-> "insert", text |-> text]
<1>3. Len(text) \in 1..MaxDocumentSize
  <2>1. text # <<>> /\ Len(text) <= MaxDocumentSize
    BY <1>1 DEF Ingest
  <2>2. Len(text) \in Nat /\ Len(text) # 0
    BY <1>2, <2>1, NormalizedLength
  <2> HIDE DEF text
  <2> QED  BY <2>1, <2>2, KnowledgeConstants
<1>4. /\ job' = [job EXCEPT ![c] = j]
      /\ UNCHANGED <<may, documents, crashes, diagnoses, embedder>>
  BY <1>1 DEF Ingest, Begin
<1> HIDE DEF text
<1>5. JobOK(j)
  BY <1>3 DEF Request, JobOK
<1> QED  BY <1>4, <1>5, TypesOfOneJob

LEMMA InsertKeepsTypes ==
    ASSUME TypeInv, NEW c \in Connection, InsertDocument(c)
    PROVE  TypeInv'
<1>1. /\ UNCHANGED <<may, documents, crashes, diagnoses, embedder>>
      /\ At(c, "insert")
      /\ End(c) \/ job' = [job EXCEPT ![c].step = "embed"]
  BY DEF InsertDocument
<1>2. CASE End(c)
  BY <1>1, <1>2, EndsKeepTypes
<1>3. CASE job' = [job EXCEPT ![c].step = "embed"]
  <2>1. PICK j : j = [job[c] EXCEPT !.step = "embed"]
    OBVIOUS
  <2>2. JobOK(job[c]) /\ job[c].step = "insert"
    BY <1>1 DEF TypeInv, At, Running
  <2>3. /\ job[c].call = "ingest"
        /\ job[c] = [call |-> "ingest", step |-> "insert", text |-> job[c].text]
    BY <2>2 DEF JobOK, Request
  <2>4. j = [call |-> "ingest", step |-> "embed", text |-> job[c].text]
    BY <2>1, <2>3
  <2>5. JobOK(j)
    BY <2>2, <2>3, <2>4 DEF JobOK, Request
  <2>6. job' = [job EXCEPT ![c] = j]
    BY <1>3, <2>1
  <2> QED  BY <1>1, <2>5, <2>6, TypesOfOneJob
<1> QED  BY <1>1, <1>2, <1>3

LEMMA DiagnoseKeepsTypes ==
    ASSUME TypeInv, NEW c \in Connection, DiagnosisRouter(c)
    PROVE  TypeInv'
<1>1. PICK k \in Crash : DiagnoseCrash(c, k)
  BY DEF DiagnosisRouter
<1> DEFINE j == [call |-> "diagnose", step |-> "retrieve", crash |-> k, query |-> crashes[k],
                 sources |-> {}, model |-> None, best |-> None]
<1>2. /\ job' = [job EXCEPT ![c] = j] /\ crashes[k] # None
      /\ UNCHANGED <<may, documents, crashes, diagnoses, embedder>>
  BY <1>1 DEF DiagnoseCrash, Begin
<1>3. JobOK(j)
  BY <1>2 DEF TypeInv, Request, JobOK
<1> QED  BY <1>2, <1>3, TypesOfOneJob

\* What a retrieval leaves on its connection.
LEMMA RetrievedJob ==
    ASSUME TypeInv, NEW c \in Connection, Retrieve(c)
    PROVE  \E j :
              /\ job' = [job EXCEPT ![c] = j] /\ JobOK(j) /\ j.step = "ask"
              /\ j.model = embedder /\ Judged(j.query, j.sources, j.best)
              /\ j.sources \subseteq Candidates(embedder)
              /\ UNCHANGED <<may, documents, crashes, diagnoses, embedder, shelf>>
<1> DEFINE query == job[c].query
           found == Candidates(embedder)
           best == IF found = {} THEN None ELSE BestOf(query, found)
<1>1. At(c, "retrieve") /\ UNCHANGED <<may, documents, crashes, diagnoses, embedder, shelf>>
  BY DEF Retrieve
<1>2. {h \in found : h.model = embedder} = found
  <2>1. \A h \in found : h.model = embedder
    BY DEF Candidates
  <2> QED  BY <2>1
<1>3. PICK top \in Nearest(query, found) :
          job' = [job EXCEPT ![c].step = "ask", ![c].model = embedder,
                    ![c].sources = {h \in top : Score(query, h) >= MinRelevance},
                    ![c].best = best]
  BY <1>2 DEF Retrieve
<1>3a. query \in SUBSET Word /\ Embedded(found)
  <2>1. JobOK(job[c]) /\ job[c].step = "retrieve"
    BY <1>1 DEF TypeInv, At, Running
  <2>2. query \in SUBSET Word
    BY <2>1 DEF JobOK, Request
  <2>3. Embedded(found)
    BY DEF Embedded, Candidates, TypeInv
  <2> QED  BY <2>2, <2>3
<1> HIDE DEF found
<1>4. PICK sources : sources = {h \in top : Score(query, h) >= MinRelevance}
  OBVIOUS
<1>5. Judged(query, sources, best) /\ sources \subseteq found
  BY <1>4, <1>3a, RetrievalIsJudged, NearestHasBest
<1> HIDE DEF best
<1>7. PICK old : old = job[c]
  OBVIOUS
<1>8. PICK j : j = [old EXCEPT !.step = "ask", !.model = embedder, !.sources = sources,
                               !.best = best]
  OBVIOUS
<1>9. JobOK(old) /\ old.step = "retrieve"
  BY <1>1, <1>7 DEF TypeInv, At, Running
<1>10. /\ old.crash \in Crash /\ old.query \subseteq Word
       /\ old = [call |-> "diagnose", step |-> "retrieve", crash |-> old.crash,
                 query |-> old.query, sources |-> old.sources, model |-> old.model,
                 best |-> old.best]
  BY <1>9 DEF JobOK, Request
<1>11. j = [call |-> "diagnose", step |-> "ask", crash |-> old.crash, query |-> old.query,
            sources |-> sources, model |-> embedder, best |-> best]
  <2>1. PICK k, q, s, m, b :
            /\ k = old.crash /\ q = old.query
            /\ old = [call |-> "diagnose", step |-> "retrieve", crash |-> k, query |-> q,
                      sources |-> s, model |-> m, best |-> b]
    BY <1>10
  <2> DEFINE Row(step, ss, mm, bb) == [call |-> "diagnose", step |-> step, crash |-> k,
                query |-> q, sources |-> ss, model |-> mm, best |-> bb]
  <2>2. [Row("retrieve", s, m, b) EXCEPT !.step = "ask"] = Row("ask", s, m, b)
    OBVIOUS
  <2>3. [Row("ask", s, m, b) EXCEPT !.model = embedder] = Row("ask", s, embedder, b)
    OBVIOUS
  <2>4. [Row("ask", s, embedder, b) EXCEPT !.sources = sources] = Row("ask", sources, embedder, b)
    OBVIOUS
  <2>5. [Row("ask", sources, embedder, b) EXCEPT !.best = best] =
            Row("ask", sources, embedder, best)
    OBVIOUS
  <2>6. old = Row("retrieve", s, m, b)
    BY <2>1
  <2>7. j = Row("ask", sources, embedder, best)
    <3> HIDE DEF Row
    <3> QED  BY <1>8, <2>2, <2>3, <2>4, <2>5, <2>6
  <2> QED  BY <2>1, <2>7
<1>12. JobOK(j)
  BY <1>10, <1>11 DEF JobOK, Request
<1>13. job' = [job EXCEPT ![c] = j]
  BY <1>3, <1>4, <1>7, <1>8
<1>14. /\ j.step = "ask" /\ j.model = embedder /\ j.query = query /\ j.sources = sources
       /\ j.best = best
  BY <1>7, <1>11
<1> HIDE DEF query
<1> QED  BY <1>1, <1>5, <1>12, <1>13, <1>14 DEF found

-----------------------------------------------------------------------------
(* Steps that add nothing keep the other three.                             *)

\* No document but those there were, and no upload past its insert but those there were.
OldDocuments ==
    \A d \in Doc : documents'[d] # None => documents[d] # None /\ documents'[d] = documents[d]
OldAt(step) == \A c \in Connection : At(c, step)' => At(c, step) /\ job'[c] = job[c]
OldDiagnoses ==
    \A g \in Diagnosis : diagnoses'[g] # None => diagnoses[g] # None /\ diagnoses'[g] = diagnoses[g]

LEMMA NoNewContent == ContentInv /\ OldDocuments /\ OldAt("embed") => ContentInv'
<1> SUFFICES ASSUME ContentInv, OldDocuments, OldAt("embed")
             PROVE  ContentInv'
  OBVIOUS
<1>1. OneDocumentPerContent'
  BY DEF ContentInv, OneDocumentPerContent, OldDocuments
<1>2. \A c \in Connection : At(c, "embed")' => ~Stored(job[c].text)'
  BY DEF ContentInv, Stored, OldDocuments, OldAt
<1>3. \A c, d \in Connection :
          c # d /\ At(c, "embed")' /\ At(d, "embed")' => job'[c].text # job'[d].text
  BY DEF ContentInv, OldAt
<1> QED  BY <1>1, <1>2, <1>3 DEF ContentInv

LEMMA NoNewSource ==
    ShelfInv /\ OldDocuments /\ OldAt("ask") /\ OldDiagnoses /\ shelf \subseteq shelf' => ShelfInv'
<1> SUFFICES ASSUME ShelfInv, OldDocuments, OldAt("ask"), OldDiagnoses, shelf \subseteq shelf'
             PROVE  ShelfInv'
  OBVIOUS
<1>1. \A d \in Doc : documents'[d] # None =>
          \A p \in documents'[d].passages :
              [model |-> documents'[d].model, passage |-> p] \in shelf'
  BY DEF ShelfInv, OldDocuments
<1>2. \A c \in Connection : At(c, "ask")' => OnShelf(job[c].model, job[c].sources)'
  BY DEF ShelfInv, OnShelf, OldAt
<1>3. \A g \in Diagnosis : diagnoses'[g] # None =>
          OnShelf(diagnoses[g].model, diagnoses[g].sources)'
  BY DEF ShelfInv, OnShelf, OldDiagnoses
<1> QED  BY <1>1, <1>2, <1>3 DEF ShelfInv

LEMMA NoNewAnswer == ConfidenceInv /\ OldAt("ask") /\ OldDiagnoses => ConfidenceInv'
<1> SUFFICES ASSUME ConfidenceInv, OldAt("ask"), OldDiagnoses
             PROVE  ConfidenceInv'
  OBVIOUS
<1>1. \A c \in Connection :
          At(c, "ask")' => Judged(job[c].query, job[c].sources, job[c].best)'
  BY DEF ConfidenceInv, OldAt
<1>2. ConfidenceGrounded'
  BY DEF ConfidenceInv, ConfidenceGrounded, OldDiagnoses
<1> QED  BY <1>1, <1>2 DEF ConfidenceInv

\* A connection ends, or goes to a step where nothing was chosen yet.
LEMMA OthersStay ==
    ASSUME TypeInv, NEW c \in Connection, NEW j, job' = [job EXCEPT ![c] = j],
           NEW step, j # None => j.step # step
    PROVE  OldAt(step)
<1>1. \A e \in Connection : job'[e] = IF e = c THEN j ELSE job[e]
  BY DEF TypeInv, RowsByKey
<1> QED  BY <1>1 DEF OldAt, At, Running

LEMMA TablesStay ==
    /\ UNCHANGED documents => OldDocuments
    /\ UNCHANGED diagnoses => OldDiagnoses
BY DEF OldDocuments, OldDiagnoses

AddsNothing ==
    OldDocuments /\ OldDiagnoses /\ OldAt("embed") /\ OldAt("ask") /\ UNCHANGED shelf

LEMMA AddingNothingKeeps ==
    ContentInv /\ ShelfInv /\ ConfidenceInv /\ AddsNothing =>
        (ContentInv /\ ShelfInv /\ ConfidenceInv)'
<1>1. AddsNothing => shelf \subseteq shelf'
  BY DEF AddsNothing
<1> QED  BY <1>1, NoNewContent, NoNewSource, NoNewAnswer DEF AddsNothing

LEMMA RequestsAddNothing ==
    ASSUME TypeInv, NEW c \in Connection,
           KnowledgeRouter(c) \/ DiagnosisRouter(c) \/ Fail(c)
    PROVE  AddsNothing
<1>1. /\ UNCHANGED <<documents, diagnoses, shelf>>
      /\ \E j : job' = [job EXCEPT ![c] = j] /\ (j # None => j.step \in {"insert", "retrieve"})
  <2>1. CASE KnowledgeRouter(c)
    <3>1. PICK content \in may.texts : Ingest(c, content)
      BY <2>1 DEF KnowledgeRouter
    <3> DEFINE j == [call |-> "ingest", step |-> "insert", text |-> NormalizeText(content)]
    <3>2. job' = [job EXCEPT ![c] = j]
      BY <3>1 DEF Ingest, Begin
    <3>3. j.step = "insert"
      OBVIOUS
    <3>4. UNCHANGED <<documents, diagnoses, shelf>>
      BY <3>1 DEF Ingest
    <3> HIDE DEF j
    <3> QED  BY <3>2, <3>3, <3>4
  <2>2. CASE DiagnosisRouter(c)
    <3>1. PICK k \in Crash : DiagnoseCrash(c, k)
      BY <2>2 DEF DiagnosisRouter
    <3> DEFINE j == [call |-> "diagnose", step |-> "retrieve", crash |-> k, query |-> crashes[k],
                     sources |-> {}, model |-> None, best |-> None]
    <3>2. job' = [job EXCEPT ![c] = j]
      BY <3>1 DEF DiagnoseCrash, Begin
    <3>3. j.step = "retrieve"
      OBVIOUS
    <3>4. UNCHANGED <<documents, diagnoses, shelf>>
      BY <3>1 DEF DiagnoseCrash
    <3> HIDE DEF j
    <3> QED  BY <3>2, <3>3, <3>4
  <2>3. CASE Fail(c)
    BY <2>3 DEF Fail, End
  <2> QED  BY <2>1, <2>2, <2>3
<1>2. PICK j : job' = [job EXCEPT ![c] = j] /\ (j # None => j.step \in {"insert", "retrieve"})
  BY <1>1
<1>3. OldAt("embed") /\ OldAt("ask")
  BY <1>2, OthersStay
<1> QED  BY <1>1, <1>3, TablesStay DEF AddsNothing

LEMMA SurroundingsAddNothing ==
    ASSUME TypeInv,
           \/ \E d \in Doc : DeleteDocument(d)
           \/ \E k \in Crash : Symbolicate(k) \/ DeleteCrash(k)
           \/ \E model \in Model : Redeploy(model)
           \/ UNCHANGED vars
    PROVE  AddsNothing
<1>1. ASSUME NEW d \in Doc, DeleteDocument(d)
      PROVE  AddsNothing
  <2>1. OldDocuments
    BY <1>1 DEF DeleteDocument, OldDocuments, TypeInv, RowsByKey
  <2> QED  BY <1>1, <2>1, TablesStay DEF DeleteDocument, AddsNothing, OldAt, At, Running
<1>2. ASSUME NEW k \in Crash, Symbolicate(k)
      PROVE  AddsNothing
  BY <1>2, TablesStay DEF Symbolicate, AddsNothing, OldAt, At, Running
<1>3. ASSUME NEW k \in Crash, DeleteCrash(k)
      PROVE  AddsNothing
  <2>1. OldDiagnoses
    BY <1>3 DEF DeleteCrash, OldDiagnoses
  <2> QED  BY <1>3, <2>1, TablesStay DEF DeleteCrash, AddsNothing, OldAt, At, Running
<1>4. ASSUME NEW model \in Model, Redeploy(model)
      PROVE  AddsNothing
  <2>1. \A c \in Connection : job'[c] = None
    BY <1>4 DEF Redeploy
  <2> QED  BY <1>4, <2>1, TablesStay DEF Redeploy, AddsNothing, OldAt, At, Running
<1>5. ASSUME UNCHANGED vars
      PROVE  AddsNothing
  BY <1>5, TablesStay DEF vars, AddsNothing, OldAt, At, Running
<1> QED  BY <1>1, <1>2, <1>3, <1>4, <1>5

-----------------------------------------------------------------------------
(* Steps that add a content, a source or an answer.                         *)

\* The insert lets one upload of a content past, and only if no document has it.
LEMMA InsertKeepsContent ==
    ASSUME TypeInv, ContentInv, ShelfInv, ConfidenceInv, NEW c \in Connection, InsertDocument(c)
    PROVE  (ContentInv /\ ShelfInv /\ ConfidenceInv)'
<1>1. /\ At(c, "insert") /\ UNCHANGED <<documents, diagnoses, shelf>>
      /\ OldDocuments /\ OldDiagnoses
  BY TablesStay DEF InsertDocument
<1>2. CASE End(c)
  <2>1. OldAt("embed") /\ OldAt("ask")
    BY <1>2, OthersStay DEF End
  <2> QED  BY <1>1, <2>1, AddingNothingKeeps DEF AddsNothing
<1>3. CASE ~End(c)
  <2>1. /\ ~Stored(job[c].text) /\ job' = [job EXCEPT ![c].step = "embed"]
        /\ \A d \in Connection \ {c} : ~(At(d, "embed") /\ job[d].text = job[c].text)
    BY <1>3 DEF InsertDocument
  <2>2. PICK j : j = [job[c] EXCEPT !.step = "embed"]
    OBVIOUS
  <2>3. /\ job[c].call = "ingest"
        /\ job[c] = [call |-> "ingest", step |-> "insert", text |-> job[c].text]
    BY <1>1 DEF TypeInv, At, Running, JobOK, Request
  <2>4. j = [call |-> "ingest", step |-> "embed", text |-> job[c].text]
    BY <2>2, <2>3
  <2>5. j.step = "embed" /\ j.text = job[c].text
    BY <2>4
  <2>6. job' = [job EXCEPT ![c] = j]
    BY <2>1, <2>2
  <2>7. \A e \in Connection : job'[e] = IF e = c THEN j ELSE job[e]
    BY <2>6 DEF TypeInv, RowsByKey
  <2>8. ContentInv'
    <3>1. OneDocumentPerContent'
      BY <1>1 DEF ContentInv, OneDocumentPerContent
    <3>2. \A e \in Connection : At(e, "embed")' =>
              /\ job'[e].text = job[e].text
              /\ e # c => At(e, "embed")
      BY <2>5, <2>7 DEF At, Running
    <3>3. \A e \in Connection : At(e, "embed")' => ~Stored(job[e].text)'
      BY <1>1, <2>1, <3>2 DEF ContentInv, Stored
    <3>4. \A d, e \in Connection :
              d # e /\ At(d, "embed")' /\ At(e, "embed")' => job'[d].text # job'[e].text
      BY <2>1, <3>2 DEF ContentInv
    <3> QED  BY <3>1, <3>3, <3>4 DEF ContentInv
  <2>9. OldAt("ask")
    BY <2>5, <2>6, OthersStay
  <2>10. shelf \subseteq shelf'
    BY <1>1
  <2> QED  BY <1>1, <2>8, <2>9, <2>10, NoNewSource, NoNewAnswer
<1> QED  BY <1>2, <1>3

\* A content is saved once, with passages that are on the shelf.
LEMMA SavesKeepTheRest ==
    ASSUME TypeInv, ContentInv, ShelfInv, ConfidenceInv,
           NEW c \in Connection, At(c, "embed"), End(c),
           NEW status, NEW passages, Save(status, c, passages),
           shelf \subseteq shelf', UNCHANGED <<diagnoses, embedder>>,
           \A p \in passages : [model |-> embedder, passage |-> p] \in shelf'
    PROVE  (ContentInv /\ ShelfInv /\ ConfidenceInv)'
<1> DEFINE row == [text |-> job[c].text, model |-> embedder, status |-> status,
                   passages |-> passages]
           free == CHOOSE d \in Unused : TRUE
<1>1. documents' = [documents EXCEPT ![free] = row]
  BY DEF Save
<1>2. row.text = job[c].text /\ row.model = embedder /\ row.passages = passages
  OBVIOUS
<1> HIDE DEF row, free
<1>3. \A d \in Doc : documents'[d] = IF d = free THEN row ELSE documents[d]
  BY <1>1 DEF TypeInv, RowsByKey
<1>4. OldAt("embed") /\ OldAt("ask") /\ OldDiagnoses
  BY OthersStay, TablesStay DEF End
<1>5. ~Stored(row.text)
  BY <1>2 DEF ContentInv
<1>6. OneDocumentPerContent'
  <2>1. ASSUME NEW d \in Doc, NEW e \in Doc, d # e, documents'[d] # None, documents'[e] # None
        PROVE  documents'[d].text # documents'[e].text
    BY <1>3, <1>5, <2>1 DEF ContentInv, OneDocumentPerContent, Stored
  <2> QED  BY <2>1 DEF OneDocumentPerContent
<1>7. ASSUME NEW e \in Connection, At(e, "embed")'
      PROVE  ~Stored(job[e].text)'
  <2>1. At(e, "embed") /\ job'[e] = job[e]
    BY <1>4, <1>7 DEF OldAt
  <2>2. e # c
    BY <1>7 DEF End, At, Running, TypeInv, RowsByKey
  <2>3. job[e].text # row.text /\ ~Stored(job[e].text)
    BY <1>2, <2>1, <2>2 DEF ContentInv
  <2>4. \A d \in Doc : documents'[d] # None => documents'[d].text # job[e].text
    BY <1>3, <2>3 DEF Stored
  <2> QED  BY <2>1, <2>4 DEF Stored
<1>8. \A d, e \in Connection :
          d # e /\ At(d, "embed")' /\ At(e, "embed")' => job'[d].text # job'[e].text
  BY <1>4 DEF OldAt, ContentInv
<1>9. ContentInv'
  BY <1>6, <1>7, <1>8 DEF ContentInv
<1>10. ShelfInv'
  <2>1. \A d \in Doc : documents'[d] # None =>
            \A p \in documents'[d].passages :
                [model |-> documents'[d].model, passage |-> p] \in shelf'
    BY <1>2, <1>3 DEF ShelfInv
  <2>2. \A e \in Connection : At(e, "ask")' => OnShelf(job[e].model, job[e].sources)'
    BY <1>4 DEF ShelfInv, OnShelf, OldAt
  <2>3. \A g \in Diagnosis : diagnoses'[g] # None =>
            OnShelf(diagnoses[g].model, diagnoses[g].sources)'
    BY DEF ShelfInv, OnShelf
  <2> QED  BY <2>1, <2>2, <2>3 DEF ShelfInv
<1>11. ConfidenceInv'
  BY <1>4, NoNewAnswer
<1> QED  BY <1>9, <1>10, <1>11

\* What is found is on the shelf under the model it was searched with.
LEMMA CandidatesAreOnShelf ==
    ASSUME ShelfInv, NEW model
    PROVE  OnShelf(model, Candidates(model))
<1> SUFFICES ASSUME NEW h \in Candidates(model)
             PROVE  [model |-> model, passage |-> h.passage] \in shelf
  BY DEF OnShelf
<1>1. PICK d \in Doc : /\ documents[d] # None /\ documents[d].model = model
                       /\ \E p \in documents[d].passages :
                             h = [doc |-> d, model |-> model, passage |-> p]
  BY DEF Candidates
<1>2. PICK p \in documents[d].passages : h = [doc |-> d, model |-> model, passage |-> p]
  BY <1>1
<1> QED  BY <1>1, <1>2 DEF ShelfInv

LEMMA RetrieveKeepsTheRest ==
    ASSUME TypeInv, ContentInv, ShelfInv, ConfidenceInv, NEW c \in Connection, Retrieve(c)
    PROVE  (ContentInv /\ ShelfInv /\ ConfidenceInv)'
<1>1. PICK j :
          /\ job' = [job EXCEPT ![c] = j] /\ j.step = "ask"
          /\ j.model = embedder /\ Judged(j.query, j.sources, j.best)
          /\ j.sources \subseteq Candidates(embedder)
          /\ UNCHANGED <<may, documents, crashes, diagnoses, embedder, shelf>>
  BY RetrievedJob
<1>2. \A e \in Connection : job'[e] = IF e = c THEN j ELSE job[e]
  BY <1>1 DEF TypeInv, RowsByKey
<1>3. OldAt("embed") /\ OldDocuments
  BY <1>1, OthersStay, TablesStay
<1>4. OnShelf(j.model, j.sources)
  BY <1>1, CandidatesAreOnShelf DEF OnShelf
<1>5. ContentInv'
  BY <1>3, NoNewContent
<1>6. \A e \in Connection : At(e, "ask")' => e = c \/ At(e, "ask")
  BY <1>2 DEF At, Running
<1>7. ShelfInv'
  <2>1. \A e \in Connection : At(e, "ask")' => OnShelf(job[e].model, job[e].sources)'
    BY <1>1, <1>2, <1>4, <1>6 DEF ShelfInv, OnShelf
  <2> QED  BY <1>1, <2>1 DEF ShelfInv, OnShelf
<1>8. ConfidenceInv'
  <2>1. \A e \in Connection :
            At(e, "ask")' => Judged(job[e].query, job[e].sources, job[e].best)'
    BY <1>1, <1>2, <1>6 DEF ConfidenceInv
  <2>2. ConfidenceGrounded'
    BY <1>1 DEF ConfidenceInv, ConfidenceGrounded
  <2> QED  BY <2>1, <2>2 DEF ConfidenceInv
<1> QED  BY <1>5, <1>7, <1>8

\* The answer stored has the sources, and the confidence, of what was retrieved.
LEMMA ConcludeKeepsTheRest ==
    ASSUME TypeInv, ContentInv, ShelfInv, ConfidenceInv, NEW c \in Connection, Conclude(c)
    PROVE  (ContentInv /\ ShelfInv /\ ConfidenceInv)'
<1>1. /\ At(c, "ask") /\ UNCHANGED <<documents, shelf>> /\ End(c)
      /\ OldDocuments /\ OldAt("embed") /\ OldAt("ask")
  BY OthersStay, TablesStay DEF Conclude, End
<1>2. CASE UNCHANGED diagnoses
  BY <1>1, <1>2, AddingNothingKeeps, TablesStay DEF AddsNothing
<1>3. CASE ~UNCHANGED diagnoses
  <2>1. PICK claim, free :
            /\ claim \in Claims(job[c].sources)
            /\ diagnoses' = [diagnoses EXCEPT ![free] = Assemble(c, claim)]
    BY <1>3 DEF Conclude
  <2>2. claim \in Int \cup {None}
    BY <2>1, ClaimsAreNumbers
  <2> DEFINE j == job[c]
             grounded == GroundedConfidence(claim, BestOf(j.query, j.sources),
                                            Cardinality(j.sources))
  <2>3. PICK row : row = Assemble(c, claim)
    OBVIOUS
  <2>4. /\ row.sources = j.sources /\ row.model = j.model /\ row.best = j.best
        /\ row.label = grounded.label /\ row.score = grounded.score
    BY <2>3 DEF Assemble
  <2>5. Judged(j.query, j.sources, j.best) /\ OnShelf(j.model, j.sources)
    BY <1>1 DEF ConfidenceInv, ShelfInv
  <2>6. /\ grounded.label = "uncertain" <=> ~(Near(j.best) /\ j.best >= ConfidenceFloor)
        /\ grounded.score <= Support(j.best) +
               (IF grounded.label = "uncertain" THEN 0 ELSE HalfOfLastDecimal)
        /\ grounded.label = "certain" => j.best >= CertainThreshold
    BY <2>2, <2>5, ClaimsCannotRaise
  <2> HIDE DEF j, grounded
  <2>7. /\ row.label = "uncertain" <=> ~(Near(row.best) /\ row.best >= ConfidenceFloor)
        /\ row.score <= Support(row.best) +
               (IF row.label = "uncertain" THEN 0 ELSE HalfOfLastDecimal)
        /\ row.label = "certain" => row.best >= CertainThreshold
    BY <2>4, <2>6
  <2>8. \A g \in Diagnosis : diagnoses'[g] = diagnoses[g] \/ diagnoses'[g] = row
    BY <2>1, <2>3 DEF TypeInv, RowsByKey
  <2>9. ContentInv'
    BY <1>1, NoNewContent
  <2>10. ShelfInv'
    <3>1. \A g \in Diagnosis : diagnoses'[g] # None =>
              OnShelf(diagnoses'[g].model, diagnoses'[g].sources)
      BY <2>4, <2>5, <2>8 DEF ShelfInv
    <3>2. \A e \in Connection : At(e, "ask")' => OnShelf(job'[e].model, job'[e].sources)
      BY <1>1 DEF ShelfInv, OldAt
    <3> QED  BY <1>1, <3>1, <3>2 DEF ShelfInv, OnShelf
  <2>11. ConfidenceInv'
    <3>1. ConfidenceGrounded'
      BY <2>7, <2>8 DEF ConfidenceInv, ConfidenceGrounded
    <3>2. \A e \in Connection :
              At(e, "ask")' => Judged(job[e].query, job[e].sources, job[e].best)'
      BY <1>1 DEF ConfidenceInv, OldAt
    <3> QED  BY <3>1, <3>2 DEF ConfidenceInv
  <2> QED  BY <2>9, <2>10, <2>11
<1> QED  BY <1>2, <1>3

-----------------------------------------------------------------------------
(* The inductive invariant, and the theorems.                               *)

LEMMA UploadKeepsIInv ==
    ASSUME IInv, NEW c \in Connection, ChunkAndEmbed(c) \/ RecordFailure(c)
    PROVE  IInv'
<1>1. CASE ChunkAndEmbed(c)
  <2>1. PICK passages :
            /\ At(c, "embed") /\ Save("indexed", c, passages) /\ End(c)
            /\ shelf' = shelf \cup {[model |-> embedder, passage |-> p] : p \in passages}
            /\ UNCHANGED <<may, crashes, diagnoses, embedder>>
    BY <1>1, Zenon DEF ChunkAndEmbed
  <2>2. /\ shelf \subseteq shelf'
        /\ \A p \in passages : [model |-> embedder, passage |-> p] \in shelf'
    BY <2>1
  <2>3. TypeInv'
    BY <2>1, SavesKeepTypes DEF IInv
  <2>4. (ContentInv /\ ShelfInv /\ ConfidenceInv)'
    BY <2>1, <2>2, SavesKeepTheRest DEF IInv
  <2> QED  BY <2>3, <2>4 DEF IInv
<1>2. CASE RecordFailure(c)
  <2>1. /\ At(c, "embed") /\ Save("failed", c, {}) /\ End(c)
        /\ UNCHANGED <<may, crashes, diagnoses, embedder, shelf>>
    BY <1>2 DEF RecordFailure
  <2>2. TypeInv'
    BY <2>1, SavesKeepTypes DEF IInv
  <2>3. \A p \in {} : [model |-> embedder, passage |-> p] \in shelf'
    OBVIOUS
  <2>4. (ContentInv /\ ShelfInv /\ ConfidenceInv)'
    BY <2>1, <2>3, SavesKeepTheRest DEF IInv
  <2> QED  BY <2>2, <2>4 DEF IInv
<1> QED  BY <1>1, <1>2

LEMMA InitIsInvariant == Init => IInv
<1> SUFFICES ASSUME Init
             PROVE  IInv
  OBVIOUS
<1>1. /\ documents = [d \in Doc |-> None] /\ diagnoses = [g \in Diagnosis |-> None]
      /\ job = [c \in Connection |-> None]
  BY DEF Init
<1>2. ContentInv
  BY <1>1 DEF ContentInv, OneDocumentPerContent, At, Running
<1>3. ShelfInv
  BY <1>1 DEF ShelfInv, At, Running
<1>4. ConfidenceInv
  BY <1>1 DEF ConfidenceInv, ConfidenceGrounded, At, Running
<1> QED  BY <1>2, <1>3, <1>4, InitTypes DEF IInv

LEMMA StepsKeepInvariant == IInv /\ [Next]_vars => IInv'
<1> SUFFICES ASSUME IInv, [Next]_vars
             PROVE  IInv'
  OBVIOUS
<1> USE DEF IInv
<1>1. ASSUME NEW c \in Connection, KnowledgeRouter(c)
      PROVE  IInv'
  BY <1>1, IngestKeepsTypes, RequestsAddNothing, AddingNothingKeeps
<1>2. ASSUME NEW c \in Connection, InsertDocument(c)
      PROVE  IInv'
  BY <1>2, InsertKeepsTypes, InsertKeepsContent
<1>3. ASSUME NEW c \in Connection, ChunkAndEmbed(c) \/ RecordFailure(c)
      PROVE  IInv'
  BY <1>3, UploadKeepsIInv
<1>4. ASSUME NEW c \in Connection, DiagnosisRouter(c)
      PROVE  IInv'
  BY <1>4, DiagnoseKeepsTypes, RequestsAddNothing, AddingNothingKeeps
<1>5. ASSUME NEW c \in Connection, Retrieve(c)
      PROVE  IInv'
  <2>1. TypeInv'
    BY <1>5, RetrievedJob, TypesOfOneJob
  <2> QED  BY <1>5, <2>1, RetrieveKeepsTheRest
<1>6. ASSUME NEW c \in Connection, Conclude(c)
      PROVE  IInv'
  BY <1>6, ConcludeKeepsTypes, ConcludeKeepsTheRest
<1>7. ASSUME NEW c \in Connection, Fail(c)
      PROVE  IInv'
  <2>1. TypeInv'
    BY <1>7, EndsKeepTypes DEF Fail
  <2> QED  BY <1>7, <2>1, RequestsAddNothing, AddingNothingKeeps
<1>8. ASSUME NEW d \in Doc, DeleteDocument(d)
      PROVE  IInv'
  BY <1>8, DeleteDocumentKeepsTypes, SurroundingsAddNothing, AddingNothingKeeps
<1>9. ASSUME NEW k \in Crash, Symbolicate(k)
      PROVE  IInv'
  BY <1>9, SymbolicateKeepsTypes, SurroundingsAddNothing, AddingNothingKeeps
<1>10. ASSUME NEW k \in Crash, DeleteCrash(k)
       PROVE  IInv'
  BY <1>10, DeleteCrashKeepsTypes, SurroundingsAddNothing, AddingNothingKeeps
<1>11. ASSUME NEW model \in Model, Redeploy(model)
       PROVE  IInv'
  BY <1>11, RedeployKeepsTypes, SurroundingsAddNothing, AddingNothingKeeps
<1>12. ASSUME UNCHANGED vars
       PROVE  IInv'
  <2>1. TypeInv'
    BY <1>12 DEF vars, TypeInv, RowsByKey, DocumentRow, DiagnosisRow, Running
  <2> QED  BY <1>12, <2>1, SurroundingsAddNothing, AddingNothingKeeps
<1> QED  BY <1>1, <1>2, <1>3, <1>4, <1>5, <1>6, <1>7, <1>8, <1>9, <1>10, <1>11, <1>12
         DEF Next

LEMMA AlwaysIInv == Spec => []IInv
BY InitIsInvariant, StepsKeepInvariant, PTL DEF Spec

\* Rows and requests keep their types; in every state no two documents have one content,
\* however many uploads of it overlap, and no diagnosis outlives the report it is about,
\* however long the model took to answer.
THEOREM TypeCorrect == Spec => []TypeOK
<1>1. IInv => TypeOK
  BY DEF IInv, TypeInv, ContentInv, TypeOK, JobOK
<1> QED  BY <1>1, AlwaysIInv, PTL

\* _grounded_confidence never lets a claim raise a confidence: for all thresholds, claims,
\* documents and interleavings, a diagnosis is uncertain exactly if the best passage there
\* was is too far, and its score is never more than that passage supports.
THEOREM ClaimsStayGrounded == Spec => []ConfidenceGrounded
<1>1. IInv => ConfidenceGrounded
  BY DEF IInv, ConfidenceInv
<1> QED  BY <1>1, AlwaysIInv, PTL

\* Retrieval cites only passages indexed with the model the query was embedded with,
\* whatever was deleted or redeployed since.
THEOREM CitedIsIndexed == Spec => []SourcesOnRecord
<1>1. IInv => SourcesOnRecord
  BY DEF IInv, ShelfInv, OnShelf, SourcesOnRecord
<1> QED  BY <1>1, AlwaysIInv, PTL

-----------------------------------------------------------------------------
(* The windows of a text.                                                  *)

\* A boundary that is accepted lies in the back half of its window.
LEMMA BoundaryInBackHalf ==
    ASSUME NEW w \in Seq(STRING)
    PROVE  LastBoundary(w) = 0 \/ LastBoundary(w) >= Len(w) \div 2
<1> DEFINE half == Len(w) \div 2
           p == Latest({i \in 0..Len(w) - 2 : w[i+1] = "\n" /\ w[i+2] = "\n"})
           s == Latest({e \in 2..Len(w) :
                    /\ w[e] \in White /\ (e < Len(w) => w[e+1] \notin White)
                    /\ \E s \in 1..e-1 : w[s] = "." /\ \A k \in s+1..e : w[k] \in White})
           b == Latest({i \in 0..Len(w) - 1 : w[i+1] = " "})
<1>1. LastBoundary(w) = CASE p >= half -> p
                          [] p < half /\ s >= half -> s
                          [] p < half /\ s < half /\ b >= half -> b
                          [] OTHER -> 0
  BY DEF LastBoundary
<1> HIDE DEF p, s, b
<1> QED  BY <1>1

\* So a window that is not the last covers at least half of CHUNK_SIZE.
LEMMA WindowIsLong ==
    ASSUME NEW t \in Seq(STRING), NEW start \in 0..Len(t) - 1, EndOfWindow(t, start) < Len(t)
    PROVE  EndOfWindow(t, start) - start >= ChunkSize \div 2
<1> DEFINE full == start + ChunkSize
           window == SubSeq(t, start + 1, full)
<1>1. ChunkSize \in Nat \ {0} /\ Len(t) \in Nat /\ start \in Nat
  BY ChunkAssumption
<1>2. full < Len(t)
  BY <1>1 DEF EndOfWindow
<1>3. window \in Seq(STRING) /\ Len(window) = ChunkSize
  BY <1>1, <1>2
<1>4. LastBoundary(window) \in 0..ChunkSize
  BY <1>3, BoundaryInWindow
<1>5. LastBoundary(window) = 0 \/ LastBoundary(window) >= ChunkSize \div 2
  BY <1>3, BoundaryInBackHalf
<1>6. EndOfWindow(t, start) = IF LastBoundary(window) > 0
                              THEN start + LastBoundary(window) ELSE full
  BY <1>1, <1>2, <1>4 DEF EndOfWindow
<1> HIDE DEF window
<1> QED  BY <1>1, <1>4, <1>5, <1>6

\* What chunk_text cuts from each start.
CutFrom(t, cuts, start) ==
    LET end == EndOfWindow(t, start)
    IN  <<[from |-> start, to |-> end]>>
        \o (IF end >= Len(t) THEN <<>> ELSE cuts[NextStart(start, end)])
Window(t) == [from : 0..Len(t), to : 0..Len(t)]
CutsOf(t, first) ==
    {cuts \in [first..Len(t) -> Seq(Window(t))] :
        \A start \in first..Len(t) : cuts[start] = CutFrom(t, cuts, start)}

LEMMA NextWindow ==
    ASSUME NEW t \in Seq(STRING), NEW start \in 0..Len(t)
    PROVE  /\ EndOfWindow(t, start) \in start..Len(t)
           /\ EndOfWindow(t, start) <= start + ChunkSize
           /\ EndOfWindow(t, start) < Len(t) =>
                 /\ start < Len(t) /\ EndOfWindow(t, start) > start
                 /\ NextStart(start, EndOfWindow(t, start)) \in start + 1..Len(t)
<1>1. Len(t) \in Nat /\ ChunkSize \in Nat
  BY ChunkAssumption
<1>2. CASE start = Len(t)
  <2>1. EndOfWindow(t, start) = Len(t)
    BY <1>1, <1>2 DEF EndOfWindow
  <2> QED  BY <1>1, <1>2, <2>1
<1>3. CASE start # Len(t)
  <2>1. start \in 0..Len(t) - 1
    BY <1>1, <1>3
  <2>2. /\ EndOfWindow(t, start) \in start + 1..Len(t)
        /\ EndOfWindow(t, start) <= start + ChunkSize
    BY <2>1, WindowBounds
  <2>3. NextStart(start, EndOfWindow(t, start)) \in start + 1..EndOfWindow(t, start)
    BY <2>1, WindowsOverlap
  <2> QED  BY <1>1, <2>1, <2>2, <2>3
<1> QED  BY <1>2, <1>3

LEMMA CutsExist ==
    ASSUME NEW t \in Seq(STRING)
    PROVE  CutsOf(t, 0) # {}
<1> DEFINE L == Len(t)
           T == {n \in 0..L : CutsOf(t, L - n) # {}}
<1>1. L \in Nat
  OBVIOUS
<1>2. 0 \in T
  <2> DEFINE cuts == [start \in L..L |-> <<[from |-> L, to |-> L]>>]
  <2>1. L - 0 = L /\ EndOfWindow(t, L) = L /\ L..L = {L}
    BY <1>1, NextWindow
  <2>2. CutFrom(t, cuts, L) = <<[from |-> L, to |-> L]>>
    BY <1>1, <2>1 DEF CutFrom
  <2>3. cuts \in [L..L -> Seq(Window(t))] /\ cuts[L] = CutFrom(t, cuts, L)
    BY <1>1, <2>2 DEF Window
  <2>4. cuts \in CutsOf(t, L)
    BY <2>1, <2>3 DEF CutsOf
  <2> QED  BY <1>1, <2>1, <2>4
<1>3. ASSUME NEW n \in 0..L - 1, n \in T
      PROVE  n + 1 \in T
  <2> DEFINE m == L - (n + 1)
  <2>1. m \in 0..L /\ L - n = m + 1 /\ n + 1 \in 0..L /\ m \in Nat
    BY <1>1
  <2>2. PICK old : old \in CutsOf(t, m + 1)
    BY <1>3, <2>1
  <2>3. /\ old \in [m + 1..L -> Seq(Window(t))]
        /\ \A start \in m + 1..L : old[start] = CutFrom(t, old, start)
    BY <2>2 DEF CutsOf
  <2> HIDE DEF m
  <2> DEFINE cuts == [start \in m..L |-> IF start = m THEN CutFrom(t, old, m) ELSE old[start]]
             end == EndOfWindow(t, m)
  <2>4. CutFrom(t, old, m) \in Seq(Window(t))
    <3>1. /\ end \in 0..L
          /\ end < L => NextStart(m, end) \in m + 1..L
      <4>1. m \in 0..Len(t)
        BY <2>1
      <4> HIDE DEF end
      <4>2. /\ end \in m..Len(t)
            /\ end < Len(t) => NextStart(m, end) \in m + 1..Len(t)
        BY <4>1, NextWindow DEF end
      <4> QED  BY <1>1, <2>1, <4>2
    <3>2. <<[from |-> m, to |-> end]>> \in Seq(Window(t))
      BY <2>1, <3>1 DEF Window
    <3>3. (IF end >= L THEN <<>> ELSE old[NextStart(m, end)]) \in Seq(Window(t))
      <4>1. CASE end >= L
        BY <4>1
      <4>2. CASE ~(end >= L)
        BY <1>1, <2>3, <3>1, <4>2
      <4> QED  BY <4>1, <4>2
    <3> QED  BY <3>2, <3>3, ConcatProperties DEF CutFrom
  <2>5. cuts \in [m..L -> Seq(Window(t))]
    <3>1. \A start \in m..L : start = m \/ start \in m + 1..L
      BY <1>1, <2>1
    <3> QED  BY <2>3, <2>4, <3>1
  <2>6. ASSUME NEW start \in m..L
        PROVE  cuts[start] = CutFrom(t, cuts, start)
    <3> DEFINE at == EndOfWindow(t, start)
    <3>1. /\ start \in 0..L /\ at \in 0..L
          /\ at < L => NextStart(start, at) \in start + 1..L
      <4>1. start \in 0..Len(t)
        BY <1>1, <2>1
      <4> HIDE DEF at
      <4>2. /\ at \in start..Len(t)
            /\ at < Len(t) => NextStart(start, at) \in start + 1..Len(t)
        BY <4>1, NextWindow DEF at
      <4> QED  BY <1>1, <4>1, <4>2
    <3>2. \A s \in m + 1..L : s \in m..L /\ cuts[s] = old[s]
      BY <1>1, <2>1
    <3>3. ~(at >= L) => cuts[NextStart(start, at)] = old[NextStart(start, at)]
      BY <1>1, <2>1, <3>1, <3>2
    <3>4. CutFrom(t, cuts, start) = CutFrom(t, old, start)
      <4> HIDE DEF cuts
      <4> QED  BY <3>3 DEF CutFrom
    <3>5. CASE start = m
      BY <3>4, <3>5
    <3>6. CASE start # m
      <4>1. start \in m + 1..L
        BY <1>1, <2>1, <3>6
      <4> QED  BY <2>3, <3>2, <3>4, <4>1
    <3> QED  BY <3>5, <3>6
  <2>7. cuts \in CutsOf(t, m)
    <3> HIDE DEF cuts
    <3> QED  BY <2>5, <2>6 DEF CutsOf
  <2>8. CutsOf(t, L - (n + 1)) # {}
    <3>1. CutsOf(t, m) # {}
      BY <2>7
    <3> QED  BY <3>1 DEF m
  <2> QED  BY <2>1, <2>8
<1> HIDE DEF T, L
<1>4. \A n \in 0..L : n \in T
  BY <1>1, <1>2, <1>3, BoundedInduction
<1>5. L \in 0..L /\ L - L = 0
  BY <1>1
<1> QED  BY <1>4, <1>5 DEF T, L

\* chunk_text keeps those of the windows from the first character that hold ink.
ChunksOf(t) ==
    {cuts \in CutsOf(t, 0) :
        ChunkText(t) = Select(cuts[0], {w \in ToSet(cuts[0]) : Blankless(t, w)})}

LEMMA ChunksExist ==
    ASSUME NEW t \in Seq(STRING), t # <<>>
    PROVE  ChunksOf(t) # {}
<1> DEFINE Body(v) == [start \in 0..Len(t) |->
              LET end == EndOfWindow(t, start)
              IN  <<[from |-> start, to |-> end]>>
                  \o (IF end >= Len(t) THEN <<>> ELSE v[NextStart(start, end)])]
           windows == CHOOSE v : v = Body(v)
<1>1. PICK cuts : cuts \in CutsOf(t, 0)
  BY CutsExist
<1>2. cuts = Body(cuts)
  BY <1>1 DEF CutsOf, CutFrom
<1>3. windows = Body(windows)
  <2> HIDE DEF Body
  <2> QED  BY <1>2
<1>4. ChunkText(t) = Select(windows[0], {w \in ToSet(windows[0]) : Blankless(t, w)})
  BY DEF ChunkText
<1> HIDE DEF windows
<1>5. \A start \in 0..Len(t) : windows[start] = CutFrom(t, windows, start)
  BY <1>3 DEF CutFrom
<1> DEFINE L == Len(t)
<1>6. L \in Nat
  OBVIOUS
<1>7. ASSUME NEW start \in 0..L, \A s \in start + 1..L : windows[s] \in Seq(Window(t))
      PROVE  windows[start] \in Seq(Window(t))
  <2> DEFINE end == EndOfWindow(t, start)
             rest == IF end >= L THEN <<>> ELSE windows[NextStart(start, end)]
  <2> HIDE DEF end
  <2>1. /\ end \in start..Len(t)
        /\ end < Len(t) => NextStart(start, end) \in start + 1..Len(t)
    BY NextWindow DEF end
  <2>2. <<[from |-> start, to |-> end]>> \in Seq(Window(t))
    BY <1>6, <2>1 DEF Window
  <2>3. rest \in Seq(Window(t))
    <3>1. CASE end >= L
      BY <3>1
    <3>2. CASE ~(end >= L)
      BY <1>6, <1>7, <2>1, <3>2
    <3> QED  BY <3>1, <3>2
  <2>4. windows[start] = <<[from |-> start, to |-> end]>> \o rest
    BY <1>5 DEF CutFrom, end
  <2> HIDE DEF rest
  <2> QED  BY <2>2, <2>3, <2>4, ConcatProperties
<1> DEFINE T == {s \in 0..L : windows[s] \in Seq(Window(t))}
<1>8. \A s \in 0..L : (\A r \in s + 1..L : r \in T) => s \in T
  BY <1>7
<1>9. \A s \in 0..L : s \in T
  <2> HIDE DEF T, L
  <2> QED  BY <1>6, <1>8, BackwardInduction
<1>10. \A s \in 0..L : windows[s] \in Seq(Window(t))
  BY <1>9
<1>11. windows \in [0..Len(t) -> Seq(Window(t))]
  BY <1>3, <1>10
<1>12. windows \in CutsOf(t, 0)
  BY <1>5, <1>11 DEF CutsOf
<1> QED  BY <1>4, <1>12 DEF ChunksOf

\* A fact that is no longer than the overlap, or a single character, is inside one of
\* the windows, if the overlap is at most half of a window.
LEMMA FactInWindow ==
    ASSUME NEW t \in Seq(STRING), NEW cuts \in CutsOf(t, 0),
           NEW i \in 1..Len(t), NEW n \in Nat, i + n <= Len(t),
           n = 0 \/ (n < ChunkOverlap /\ ChunkOverlap <= ChunkSize \div 2)
    PROVE  \E k \in 1..Len(cuts[0]) :
              /\ cuts[0][k].from \in 0..i - 1 /\ cuts[0][k].to \in i + n..Len(t)
              /\ cuts[0][k].to <= cuts[0][k].from + ChunkSize
<1> DEFINE L == Len(t)
           Inside(w) == /\ w.from \in 0..i - 1 /\ w.to \in i + n..L
                        /\ w.to <= w.from + ChunkSize
           T == {s \in 0..L : s < i => \E k \in 1..Len(cuts[s]) : Inside(cuts[s][k])}
<1>1. /\ L \in Nat /\ ChunkSize \in Nat /\ ChunkOverlap \in Nat
      /\ cuts \in [0..L -> Seq(Window(t))]
      /\ \A s \in 0..L : cuts[s] = CutFrom(t, cuts, s)
  BY ChunkAssumption DEF CutsOf
<1>2. ASSUME NEW s \in 0..L, \A r \in s + 1..L : r \in T
      PROVE  s \in T
  <2> SUFFICES ASSUME s < i
               PROVE  \E k \in 1..Len(cuts[s]) : Inside(cuts[s][k])
    OBVIOUS
  <2> DEFINE end == EndOfWindow(t, s)
             next == NextStart(s, end)
             rest == IF end >= L THEN <<>> ELSE cuts[next]
  <2>1. /\ end \in s..L /\ end <= s + ChunkSize
        /\ end < L => s < L /\ end > s /\ next \in s + 1..L
    BY NextWindow
  <2>2. end < L => end - s >= ChunkSize \div 2
    BY <1>1, <2>1, WindowIsLong
  <2>3. next = IF end - ChunkOverlap > s + 1 THEN end - ChunkOverlap ELSE s + 1
    BY DEF NextStart
  <2>4. cuts[s] = <<[from |-> s, to |-> end]>> \o rest
    BY <1>1 DEF CutFrom
  <2> HIDE DEF end, next
  <2>5. rest \in Seq(Window(t))
    <3>1. CASE end >= L
      BY <3>1
    <3>2. CASE ~(end >= L)
      BY <1>1, <2>1, <3>2
    <3> QED  BY <3>1, <3>2
  <2> HIDE DEF rest
  <2>6. /\ Len(cuts[s]) = 1 + Len(rest) /\ cuts[s][1] = [from |-> s, to |-> end]
        /\ \A k \in 1..Len(rest) : cuts[s][k + 1] = rest[k]
    BY <2>4, <2>5
  <2>7. CASE i + n <= end
    <3>1. Inside(cuts[s][1])
      BY <1>1, <2>1, <2>6, <2>7
    <3>2. 1 \in 1..Len(cuts[s])
      BY <2>5, <2>6
    <3> QED  BY <3>1, <3>2
  <2>8. CASE ~(i + n <= end)
    <3>1. end < L
      BY <1>1, <2>1, <2>8
    <3>2. next < i
      <4> DEFINE half == ChunkSize \div 2
      <4>1. half \in Nat
        BY <1>1
      <4> HIDE DEF half
      <4>2. end - s >= half /\ (n = 0 \/ (n < ChunkOverlap /\ ChunkOverlap <= half))
        BY <2>2, <3>1 DEF half
      <4> QED  BY <1>1, <2>1, <2>3, <2>8, <3>1, <4>1, <4>2
    <3>3. rest = cuts[next] /\ next \in s + 1..L
      BY <1>1, <2>1, <3>1 DEF rest
    <3>4. PICK k \in 1..Len(rest) : Inside(rest[k])
      BY <1>2, <3>2, <3>3
    <3>5. k + 1 \in 1..Len(cuts[s]) /\ cuts[s][k + 1] = rest[k]
      <4>1. Len(rest) \in Nat
        BY <2>5
      <4> QED  BY <2>6, <4>1
    <3> HIDE DEF Inside
    <3>6. Inside(cuts[s][k + 1])
      BY <3>4, <3>5
    <3> QED  BY <3>5, <3>6
  <2> QED  BY <2>7, <2>8
<1>3. \A s \in 0..L : s \in T
  <2> HIDE DEF T, L
  <2> QED  BY <1>1, <1>2, BackwardInduction
<1>4. 0 \in T /\ 0 < i
  BY <1>1, <1>3
<1> QED  BY <1>4

\* The passages of a text.
PassagesOf(t) == {Passage(t, ChunkText(t)[k]) : k \in DOMAIN ChunkText(t)}

\* A window with ink in it is a chunk.
LEMMA ChunkOfWindow ==
    ASSUME NEW t \in Seq(STRING), NEW cuts \in ChunksOf(t),
           NEW k \in 1..Len(cuts[0]), Blankless(t, cuts[0][k])
    PROVE  Passage(t, cuts[0][k]) \in PassagesOf(t)
<1> DEFINE s == cuts[0]
           S == {w \in ToSet(s) : Blankless(t, w)}
           I == {j \in 1..Len(s) : s[j] \in S}
           at == Chosen(Len(s), I)
<1>1. s \in Seq(Window(t)) /\ ChunkText(t) = Select(s, S)
  BY DEF ChunksOf, CutsOf
<1>2. s[k] \in S
  BY <1>1 DEF ToSet
<1> HIDE DEF s, S
<1>3. /\ ChunkText(t) \in Seq(Window(t)) /\ Len(ChunkText(t)) = Len(at)
      /\ \A m \in 1..Len(at) : ChunkText(t)[m] = s[at[m]]
  <2> DEFINE W == Window(t)
             kept == Select(s, S)
  <2>1. s \in Seq(W) /\ ChunkText(t) = kept
    BY <1>1
  <2> HIDE DEF W
  <2>2. kept \in Seq(W) /\ Len(kept) = Len(at) /\ \A m \in 1..Len(at) : kept[m] = s[at[m]]
    BY <2>1, SelectChosen
  <2> HIDE DEF kept, at
  <2> QED  BY <2>1, <2>2 DEF W
<1>4. Len(s) \in Nat
  BY <1>1
<1>5. InOrder(Len(s), I, at)
  BY <1>4, ChosenInOrder
<1>6. k \in 1..Len(s) /\ k \in I
  BY <1>2 DEF s
<1>7. PICK m \in 1..Len(at) : at[m] = k
  BY <1>5, <1>6 DEF InOrder
<1>8. m \in DOMAIN ChunkText(t) /\ ChunkText(t)[m] = s[k]
  BY <1>3, <1>7
<1> QED  BY <1>8 DEF PassagesOf, s

-----------------------------------------------------------------------------
(* Ink.                                                                    *)

Inked(t) == t \in Seq(STRING) /\ Ink(t) # {}

\* What is left of a text that is not blank has ink, as the text has.
LEMMA NormalizedHasInk ==
    ASSUME NEW t \in Seq(STRING), NormalizeText(t) # <<>>
    PROVE  Inked(NormalizeText(t))
<1> DEFINE Kept(i) ==
            \/ i \in Ink(t)
            \/ /\ t[i] = " " /\ \E j \in Ink(t) : j < i
               /\ \E j \in Ink(t) : i < j /\ \A k \in i..j : t[k] # "\n"
            \/ /\ t[i] = "\n" /\ \E j \in Ink(t) : i < j
               /\ \E j \in Ink(t) : j < i /\ Cardinality({k \in j..i : t[k] = "\n"}) <= 2
                                          /\ \A k \in j+1..i : k \notin Ink(t)
           K == {i \in DOMAIN t : Kept(i)}
           N == Cardinality(K)
           Upto(i) == {j \in 1..i : Kept(j)}
           Nth(m) == CHOOSE i \in DOMAIN t : Kept(i) /\ Cardinality(Upto(i)) = m
<1>1. NormalizeText(t) = [m \in 1..N |-> t[Nth(m)]]
  BY Zenon DEF NormalizeText
<1>2. \A i \in DOMAIN t : Kept(i) => Ink(t) # {}
  BY Zenon
<1>3. Ink(t) \in SUBSET (DOMAIN t) /\ \A i \in Ink(t) : Kept(i)
  BY Zenon DEF Ink
<1> HIDE DEF Kept
<1>4. DOMAIN t = 1..Len(t) /\ Len(t) \in Nat
  OBVIOUS
<1>5. K \in SUBSET Nat /\ K \in SUBSET (DOMAIN t) /\ IsFiniteSet(K)
  <2>1. K \in SUBSET (1..Len(t)) /\ K \in SUBSET Nat
    BY <1>4
  <2>2. IsFiniteSet(1..Len(t))
    BY <1>4, FS_Interval
  <2> HIDE DEF K
  <2> QED  BY <1>4, <2>1, <2>2, FS_Subset
<1>6. /\ N \in Nat
      /\ \A i \in K : Rank(K, i) \in 0..N - 1
      /\ \A i, j \in K : i < j => Rank(K, i) < Rank(K, j)
      /\ \A m \in 0..N - 1 : \E i \in K : Rank(K, i) = m
  <2> HIDE DEF K
  <2> QED  BY <1>5, Ranks
<1>7. ASSUME NEW i \in K
      PROVE  Cardinality(Upto(i)) = Rank(K, i) + 1
  <2> DEFINE B == {b \in K : b < i}
  <2>1. Upto(i) = B \cup {i} /\ i \notin B /\ B \in SUBSET K
    BY <1>4
  <2> HIDE DEF B, Upto, K
  <2>2. IsFiniteSet(B)
    BY <1>5, <2>1, FS_Subset
  <2>3. Cardinality(Upto(i)) = Cardinality(B) + 1
    BY <2>1, <2>2, FS_AddElement
  <2> QED  BY <2>3 DEF Rank, B
<1>8. ASSUME NEW i \in DOMAIN t, NEW m \in 1..N
      PROVE  (Kept(i) /\ Cardinality(Upto(i)) = m) <=> (i \in K /\ Rank(K, i) = m - 1)
  <2>1. Kept(i) <=> i \in K
    OBVIOUS
  <2> HIDE DEF K, Upto
  <2> QED  BY <1>6, <1>7, <2>1
<1>9. ASSUME NEW m \in 1..N
      PROVE  Nth(m) \in K /\ Rank(K, Nth(m)) = m - 1
  <2>1. m - 1 \in 0..N - 1
    BY <1>6
  <2>2. PICK i \in K : Rank(K, i) = m - 1
    BY <1>6, <2>1
  <2>3. i \in DOMAIN t /\ Kept(i) /\ Cardinality(Upto(i)) = m
    BY <1>5, <1>8, <2>2
  <2> DEFINE a == Nth(m)
  <2>4. a \in DOMAIN t /\ Kept(a) /\ Cardinality(Upto(a)) = m
    <3> HIDE DEF Upto
    <3> QED  BY <2>3
  <2> HIDE DEF a
  <2>5. a \in K /\ Rank(K, a) = m - 1
    BY <1>8, <2>4
  <2> QED  BY <2>5 DEF a
<1> HIDE DEF Nth, Upto, K, N
<1>10. PICK i \in K : i \in Ink(t)
  <2>1. N # 0
    BY <1>1
  <2>2. 0 \in 0..N - 1
    BY <1>6, <2>1
  <2>3. PICK i \in K : TRUE
    BY <1>6, <2>2
  <2>4. i \in DOMAIN t /\ Kept(i)
    BY <1>5 DEF K
  <2>5. Ink(t) # {}
    BY <1>2, <2>4
  <2>6. \A j \in Ink(t) : j \in K
    BY <1>3 DEF K
  <2> QED  BY <2>5, <2>6
<1>11. PICK m \in 1..N : Nth(m) = i
  <2>1. Rank(K, i) + 1 \in 1..N /\ (Rank(K, i) + 1) - 1 = Rank(K, i)
    BY <1>6
  <2>2. PICK n \in 1..N : n = Rank(K, i) + 1
    BY <2>1
  <2>3. Nth(n) \in K /\ Rank(K, Nth(n)) = Rank(K, i) /\ Rank(K, i) \in Nat
    BY <1>6, <1>9, <2>1, <2>2
  <2>4. /\ Nth(n) < i => Rank(K, Nth(n)) < Rank(K, i)
        /\ i < Nth(n) => Rank(K, i) < Rank(K, Nth(n))
    BY <1>6, <2>3
  <2>5. Nth(n) \in Nat /\ i \in Nat
    BY <1>5, <2>3
  <2>6. Nth(n) = i
    BY <2>3, <2>4, <2>5
  <2> QED  BY <2>6
<1>12. NormalizeText(t) \in Seq(STRING)
  <2>1. \A n \in 1..N : Nth(n) \in DOMAIN t
    BY <1>5, <1>9
  <2>2. \A j \in DOMAIN t : t[j] \in STRING
    OBVIOUS
  <2>3. \A n \in 1..N : t[Nth(n)] \in STRING
    BY <2>1, <2>2
  <2> QED  BY <1>1, <1>6, <2>3
<1>13. NormalizeText(t)[m] \notin White /\ m \in DOMAIN NormalizeText(t)
  BY <1>1, <1>10, <1>11 DEF Ink
<1> QED  BY <1>12, <1>13 DEF Inked, Ink

-----------------------------------------------------------------------------
(* Facts.                                                                  *)

OverlapFits == ChunkOverlap <= ChunkSize \div 2

\* A part of a part.
LEMMA PartOfPart ==
    ASSUME NEW t \in Seq(STRING), NEW from \in Nat, NEW to \in from..Len(t),
           NEW i \in from + 1..to, NEW n \in Nat, i + n <= to
    PROVE  LET p == SubSeq(t, from + 1, to)
               k == i - from
           IN  k + n <= Len(p) /\ SubSeq(p, k, k + n) = SubSeq(t, i, i + n)
<1> DEFINE p == SubSeq(t, from + 1, to)
           k == i - from
<1>1. Len(p) = to - from
  <2>1. Len(t) \in Nat /\ from + 1 \in 1..Len(t) + 1 /\ to \in from..Len(t)
    OBVIOUS
  <2> QED  BY <2>1, SubSeqProperties
<1>2. /\ from + 1 \in 1..Len(t) /\ to \in 1..Len(t) /\ Len(t) \in Nat
      /\ k \in 1..to - (from + 1) + 1 /\ k + n \in 1..to - (from + 1) + 1
      /\ (from + 1) + k - 1 = i /\ (from + 1) + (k + n) - 1 = i + n /\ k + n <= to - from
  OBVIOUS
<1>3. SubSeq(p, k, k + n) = SubSeq(t, (from + 1) + k - 1, (from + 1) + (k + n) - 1)
  <2> HIDE DEF k
  <2> QED  BY <1>2, SubSeqOfSubSeq
<1> QED  BY <1>1, <1>2, <1>3

FactsIn(t, passages) ==
    \A i \in Ink(t), n \in 0..ChunkOverlap - 1 : i + n \in Ink(t) =>
        \E p \in passages, k \in 1..ChunkSize :
            k + n <= Len(p) /\ SubSeq(p, k, k + n) = SubSeq(t, i, i + n)

\* A passage that holds the characters from i to i + n.
LEMMA PassageAround ==
    ASSUME NEW t \in Seq(STRING), NEW i \in Ink(t), NEW n \in Nat, i + n <= Len(t),
           n = 0 \/ (n < ChunkOverlap /\ OverlapFits)
    PROVE  \E p \in PassagesOf(t), k \in 1..ChunkSize :
              k + n <= Len(p) /\ SubSeq(p, k, k + n) = SubSeq(t, i, i + n)
<1>1. i \in 1..Len(t) /\ t[i] \notin White /\ Len(t) \in Nat /\ t # <<>>
  BY DEF Ink
<1>2. PICK cuts : cuts \in ChunksOf(t)
  BY <1>1, ChunksExist
<1>3. cuts \in CutsOf(t, 0)
  BY <1>2 DEF ChunksOf
<1>4. PICK c \in 1..Len(cuts[0]) :
          /\ cuts[0][c].from \in 0..i - 1 /\ cuts[0][c].to \in i + n..Len(t)
          /\ cuts[0][c].to <= cuts[0][c].from + ChunkSize
  BY <1>1, <1>3, FactInWindow DEF OverlapFits
<1> DEFINE w == cuts[0][c]
           p == Passage(t, w)
           k == i - w.from
<1>5. /\ w.from \in Nat /\ w.to \in w.from..Len(t) /\ i \in w.from + 1..w.to /\ i + n <= w.to
      /\ k \in 1..ChunkSize
  <2>1. /\ w.from \in 0..i - 1 /\ w.to \in i + n..Len(t) /\ w.to <= w.from + ChunkSize
        /\ i \in Nat /\ Len(t) \in Nat
    BY <1>1, <1>4
  <2>2. ChunkSize \in Nat
    BY ChunkAssumption
  <2>3. PICK a \in Int, b \in Int : a = w.from /\ b = w.to
    <3> HIDE DEF w
    <3>1. w.from \in Int /\ w.to \in Int
      BY <2>1
    <3> QED  BY <3>1
  <2>4. a \in 0..i - 1 /\ b \in i + n..Len(t) /\ b <= a + ChunkSize
    BY <2>1, <2>3
  <2>5. /\ a \in Nat /\ b \in a..Len(t) /\ i \in a + 1..b /\ i + n <= b
        /\ i - a \in 1..ChunkSize
    BY <2>1, <2>2, <2>4
  <2> QED  BY <2>3, <2>5
<1>6. Blankless(t, w)
  BY <1>1, <1>5 DEF Blankless
<1>7. p \in PassagesOf(t)
  BY <1>2, <1>6, ChunkOfWindow
<1>8. k + n <= Len(p) /\ SubSeq(p, k, k + n) = SubSeq(t, i, i + n)
  <2> HIDE DEF w
  <2> QED  BY <1>5, PartOfPart DEF Passage
<1> HIDE DEF p, k
<1> QED  BY <1>5, <1>7, <1>8 DEF k

\* A text with ink in it has a passage, and its facts are in its passages.
LEMMA TextIsCovered ==
    ASSUME NEW t, Inked(t)
    PROVE  PassagesOf(t) # {} /\ (OverlapFits => FactsIn(t, PassagesOf(t)))
<1>1. t \in Seq(STRING) /\ Len(t) \in Nat /\ \A i \in Ink(t) : i \in 1..Len(t)
  BY DEF Inked, Ink
<1>2. PassagesOf(t) # {}
  <2>1. PICK i \in Ink(t) : TRUE
    BY DEF Inked
  <2>2. i + 0 <= Len(t)
    BY <1>1
  <2> QED  BY <1>1, <2>2, PassageAround
<1>3. ASSUME OverlapFits, NEW i \in Ink(t), NEW n \in 0..ChunkOverlap - 1, i + n \in Ink(t)
      PROVE  \E p \in PassagesOf(t), k \in 1..ChunkSize :
                k + n <= Len(p) /\ SubSeq(p, k, k + n) = SubSeq(t, i, i + n)
  <2>1. i + n <= Len(t) /\ n \in Nat /\ n < ChunkOverlap
    BY <1>1, <1>3, ChunkAssumption
  <2> QED  BY <1>1, <1>3, <2>1, PassageAround
<1> QED  BY <1>2, <1>3 DEF FactsIn

\* What an upload carries has ink.
UploadsInv == \A c \in Connection : Running(c) /\ job[c].call = "ingest" => Inked(job[c].text)

\* A document is whole: it says it is indexed exactly if it has passages, and then its
\* facts are in them.
Whole(row) ==
    /\ row.status = "indexed" <=> row.passages # {}
    /\ row.status = "indexed" => FactsIn(row.text, row.passages)
WholeInv == \A d \in Doc : documents[d] # None => Whole(documents[d])

\* No upload but those there were.
LEMMA NoNewUpload ==
    ASSUME UploadsInv,
           \A c \in Connection : Running(c)' /\ job'[c].call = "ingest" =>
              \/ Inked(job'[c].text)
              \/ Running(c) /\ job[c].call = "ingest" /\ job'[c].text = job[c].text
    PROVE  UploadsInv'
BY DEF UploadsInv, Inked

LEMMA OneNewUpload ==
    ASSUME TypeInv, UploadsInv, NEW c \in Connection, NEW j, job' = [job EXCEPT ![c] = j],
           j # None /\ j.call = "ingest" => Inked(j.text)
    PROVE  UploadsInv'
<1>1. \A e \in Connection : job'[e] = IF e = c THEN j ELSE job[e]
  BY DEF TypeInv, RowsByKey
<1> QED  BY <1>1 DEF UploadsInv, Running

LEMMA SavesStayWhole ==
    ASSUME TypeInv, WholeInv, NEW c, NEW status, NEW passages, Save(status, c, passages),
           Whole([text |-> job[c].text, model |-> embedder, status |-> status,
                  passages |-> passages])
    PROVE  WholeInv'
<1> DEFINE row == [text |-> job[c].text, model |-> embedder, status |-> status,
                   passages |-> passages]
           free == CHOOSE d \in Unused : TRUE
<1>1. documents' = [documents EXCEPT ![free] = row]
  BY DEF Save
<1>2. Whole(row)
  OBVIOUS
<1> HIDE DEF row, free
<1>3. \A d \in Doc : documents'[d] = documents[d] \/ documents'[d] = row
  BY <1>1 DEF TypeInv, RowsByKey
<1> QED  BY <1>2, <1>3 DEF WholeInv

LEMMA StepsKeepFacts ==
    ASSUME OverlapFits, IInv, UploadsInv, WholeInv, [Next]_vars
    PROVE  UploadsInv' /\ WholeInv'
<1>1. TypeInv
  BY DEF IInv
<1>2. OldDocuments => WholeInv'
  BY DEF WholeInv, OldDocuments
<1>3. ASSUME NEW c \in Connection, KnowledgeRouter(c)
      PROVE  UploadsInv' /\ WholeInv'
  <2>1. PICK content \in may.texts : Ingest(c, content)
    BY <1>3 DEF KnowledgeRouter
  <2> DEFINE text == NormalizeText(content)
             j == [call |-> "ingest", step |-> "insert", text |-> text]
  <2>2. content \in Seq(STRING) /\ text # <<>>
    BY <1>1, <2>1, KnowledgeConstants DEF TypeInv, Ingest
  <2>3. Inked(text)
    BY <2>2, NormalizedHasInk
  <2>4. job' = [job EXCEPT ![c] = j] /\ UNCHANGED documents
    BY <2>1 DEF Ingest, Begin
  <2> HIDE DEF text
  <2>5. Inked(j.text)
    BY <2>3
  <2> HIDE DEF j
  <2> QED  BY <1>1, <1>2, <2>4, <2>5, OneNewUpload, TablesStay
<1>4. ASSUME NEW c \in Connection, InsertDocument(c)
      PROVE  UploadsInv' /\ WholeInv'
  <2>1. UNCHANGED documents /\ At(c, "insert") /\ (End(c) \/ job' = [job EXCEPT ![c].step = "embed"])
    BY <1>4 DEF InsertDocument
  <2>2. CASE End(c)
    BY <1>1, <1>2, <2>1, <2>2, OneNewUpload, TablesStay DEF End
  <2>3. CASE job' = [job EXCEPT ![c].step = "embed"]
    <3>1. PICK j : j = [job[c] EXCEPT !.step = "embed"]
      OBVIOUS
    <3>2. /\ job[c].call = "ingest"
          /\ job[c] = [call |-> "ingest", step |-> "insert", text |-> job[c].text]
      BY <1>1, <2>1 DEF TypeInv, At, Running, JobOK, Request
    <3>3. j = [call |-> "ingest", step |-> "embed", text |-> job[c].text]
      BY <3>1, <3>2
    <3>4. Inked(j.text)
      BY <2>1, <3>2, <3>3 DEF UploadsInv, At
    <3>5. job' = [job EXCEPT ![c] = j]
      BY <2>3, <3>1
    <3> QED  BY <1>1, <1>2, <2>1, <3>4, <3>5, OneNewUpload, TablesStay
  <2> QED  BY <2>1, <2>2, <2>3
<1>5. ASSUME NEW c \in Connection, ChunkAndEmbed(c)
      PROVE  UploadsInv' /\ WholeInv'
  <2>1. At(c, "embed") /\ End(c) /\ Save("indexed", c, PassagesOf(job[c].text))
    BY <1>5 DEF ChunkAndEmbed, PassagesOf
  <2>2. Inked(job[c].text)
    BY <1>1, <2>1 DEF UploadsInv, TypeInv, At, Running, JobOK, Request
  <2>3. PICK row : row = [text |-> job[c].text, model |-> embedder, status |-> "indexed",
                          passages |-> PassagesOf(job[c].text)]
    OBVIOUS
  <2>4. /\ row.text = job[c].text /\ row.status = "indexed"
        /\ row.passages = PassagesOf(job[c].text)
    BY <2>3
  <2>5. Whole(row)
    BY <2>2, <2>4, TextIsCovered DEF Whole
  <2> QED  BY <1>1, <2>1, <2>3, <2>5, SavesStayWhole, OneNewUpload DEF End
<1>6. ASSUME NEW c \in Connection, RecordFailure(c)
      PROVE  UploadsInv' /\ WholeInv'
  <2>1. End(c) /\ Save("failed", c, {})
    BY <1>6 DEF RecordFailure
  <2>2. PICK row : row = [text |-> job[c].text, model |-> embedder, status |-> "failed",
                          passages |-> {}]
    OBVIOUS
  <2>3. row.status = "failed" /\ row.passages = {}
    BY <2>2
  <2>4. Whole(row)
    BY <2>3 DEF Whole
  <2> QED  BY <1>1, <2>1, <2>2, <2>4, SavesStayWhole, OneNewUpload DEF End
<1>7. ASSUME NEW c \in Connection, DiagnosisRouter(c)
      PROVE  UploadsInv' /\ WholeInv'
  <2>1. PICK k \in Crash : DiagnoseCrash(c, k)
    BY <1>7 DEF DiagnosisRouter
  <2> DEFINE j == [call |-> "diagnose", step |-> "retrieve", crash |-> k, query |-> crashes[k],
                   sources |-> {}, model |-> None, best |-> None]
  <2>2. job' = [job EXCEPT ![c] = j] /\ UNCHANGED documents
    BY <2>1 DEF DiagnoseCrash, Begin
  <2>3. j.call # "ingest"
    OBVIOUS
  <2> HIDE DEF j
  <2> QED  BY <1>1, <1>2, <2>2, <2>3, OneNewUpload, TablesStay
<1>8. ASSUME NEW c \in Connection, Retrieve(c)
      PROVE  UploadsInv' /\ WholeInv'
  <2>1. PICK j : job' = [job EXCEPT ![c] = j] /\ JobOK(j) /\ j.step = "ask"
    BY <1>1, <1>8, RetrievedJob
  <2>2. j.call # "ingest"
    BY <2>1 DEF JobOK, Request
  <2>3. UNCHANGED documents
    BY <1>8, Zenon DEF Retrieve
  <2> QED  BY <1>1, <1>2, <2>1, <2>2, <2>3, OneNewUpload, TablesStay
<1>9. ASSUME NEW c \in Connection, Conclude(c) \/ Fail(c)
      PROVE  UploadsInv' /\ WholeInv'
  <2>1. End(c) /\ UNCHANGED documents
    BY <1>9 DEF Conclude, Fail
  <2> QED  BY <1>1, <1>2, <2>1, OneNewUpload, TablesStay DEF End
<1>10. ASSUME \/ \E d \in Doc : DeleteDocument(d)
              \/ \E k \in Crash : Symbolicate(k) \/ DeleteCrash(k)
              \/ UNCHANGED vars
       PROVE  UploadsInv' /\ WholeInv'
  <2>1. UNCHANGED job
    BY <1>10 DEF DeleteDocument, Symbolicate, DeleteCrash, vars
  <2>2. OldDocuments
    BY <1>1, <1>10, SurroundingsAddNothing DEF AddsNothing
  <2> QED  BY <1>2, <2>1, <2>2 DEF UploadsInv, Running
<1>11. ASSUME NEW model \in Model, Redeploy(model)
       PROVE  UploadsInv' /\ WholeInv'
  <2>1. job' = [c \in Connection |-> None] /\ UNCHANGED documents
    BY <1>11 DEF Redeploy
  <2> QED  BY <1>2, <2>1, TablesStay DEF UploadsInv, Running
<1> QED  BY <1>3, <1>4, <1>5, <1>6, <1>7, <1>8, <1>9, <1>10, <1>11 DEF Next

\* Cutting keeps facts whole: for every document, chunk size and boundary, uploaded among
\* whatever other requests, if the overlap is at most half of a chunk, as it is in the
\* settings the code ships with.  chunk_text itself only demands that it be smaller than a
\* chunk, which is not enough: ". bcdd" in chunks of 4 that overlap in 3 becomes ".", "bcd"
\* and "bcdd", and no chunk has ". b".
THEOREM FactsAreKept ==
    ASSUME OverlapFits
    PROVE  Spec => []FactsStayWhole
<1>1. Init => UploadsInv /\ WholeInv
  BY DEF Init, UploadsInv, WholeInv, Running
<1>2. IInv /\ (UploadsInv /\ WholeInv) /\ [Next]_vars => (UploadsInv /\ WholeInv)'
  BY StepsKeepFacts
<1>3. WholeInv => FactsStayWhole
  BY DEF WholeInv, Whole, FactsIn, FactsStayWhole
<1> QED  BY <1>1, <1>2, <1>3, AlwaysIInv, PTL DEF Spec
=============================================================================
