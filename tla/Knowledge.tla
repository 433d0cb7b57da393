----------------------------- MODULE Knowledge ------------------------------
(***************************************************************************)
(* The knowledge base and the diagnoses made from it.  Engineers upload      *)
(* documents, which are cut into passages and embedded; a diagnosis embeds    *)
(* what is known of a crash, takes the nearest passages, asks a language      *)
(* model and stores the answer with its sources and a confidence.           *)
(* Embedding and asking leave the process for seconds, in the middle of a     *)
(* transaction; meanwhile documents and crashes come and go.                *)
(*                                                                         *)
(* Relevances and confidences are in millionths.                            *)
(***************************************************************************)
EXTENDS Chunking, Optional

CONSTANTS
    Connection,         \* requests under way at once
    Doc,                \* document ids
    Crash,              \* crash reports
    Diagnosis,          \* diagnosis ids
    Model,              \* embedding models
    Similarity,         \* the cosine a model gives two sets of words
    MaxDocumentSize,
    TopK,               \* RAG_TOP_K
    MinRelevance,       \* RAG_MIN_RELEVANCE
    ConfidenceFloor,    \* RAG_CONFIDENCE_FLOOR
    CertainThreshold,   \* RAG_CERTAIN_THRESHOLD
    Scenario            \* what one behaviour is about: its calls, texts and answers

Word == {"a", "b", "f"}
One == 1000000
Weak == 200000      \* the most an ungrounded diagnosis is given

\* None is no number and no set of words; at least one passage is retrieved; nothing is
\* assumed of a model but that a cosine is at most one, of either sign.
ASSUME KnowledgeConstants ==
    /\ None \notin Int /\ \A W \in SUBSET Word : W # None
    /\ MaxDocumentSize \in Nat /\ TopK \in Nat \ {0}
    /\ Similarity \in [Model -> [SUBSET Word -> [SUBSET Word -> -One..One]]]
    /\ MinRelevance \in Int /\ ConfidenceFloor \in Int /\ CertainThreshold \in Int
    /\ \A s \in Scenario :
          /\ s.models \subseteq Model /\ s.claims \subseteq Int \cup {None}
          /\ s.texts \subseteq Seq(STRING)

VARIABLES
    may,            \* the scenario of this behaviour
    documents,      \* tables documents and document_chunks
    crashes,        \* what the crash reports say: sets of words
    diagnoses,      \* table ai_diagnoses
    embedder,       \* the embedding model configured
    job,            \* the request under way on a connection
    shelf           \* history: every passage ever indexed

vars == <<may, documents, crashes, diagnoses, embedder, job, shelf>>

\* Words of the fault; the function, "f", is known once the report is symbolicated.
Init ==
    /\ may \in Scenario
    /\ documents = [d \in Doc |-> None]
    /\ crashes = [k \in Crash |-> {"a"}]
    /\ diagnoses = [g \in Diagnosis |-> None]
    /\ embedder \in may.models
    /\ job = [c \in Connection |-> None]
    /\ shelf = {}

Running(c) == job[c] # None
At(c, step) == Running(c) /\ job[c].step = step
Ready(c, call) == ~Running(c) /\ call \in may.calls
Begin(c, j) == job' = [job EXCEPT ![c] = j]
End(c) == job' = [job EXCEPT ![c] = None]

-----------------------------------------------------------------------------
(* Embedding and search.                                                   *)

\* What an embedding depends on here: the words of the text.
WordsOf(t) == {t[i] : i \in DOMAIN t} \cap Word

Passage(text, w) == SubSeq(text, w.from + 1, w.to)

\* Mutant of Candidates: vectors of every model are compared.
CandidatesOfAnyModel(model) ==
    UNION {{[doc |-> d, model |-> documents[d].model, passage |-> p] : p \in documents[d].passages} :
              d \in {e \in Doc : documents[e] # None}}

\* Only passages embedded with the same model are comparable.
Candidates(model) ==
    UNION {{[doc |-> d, model |-> model, passage |-> p] : p \in documents[d].passages} :
              d \in {e \in Doc : documents[e] # None /\ documents[e].model = model}}

Score(query, hit) == Similarity[hit.model][query][WordsOf(hit.passage)]

\* The best of them, ties in any order; fewer than TopK only if there are no more.
Nearest(query, found) ==
    {top \in SUBSET found :
        /\ IsFiniteSet(top) /\ Cardinality(top) <= TopK
        /\ top = found \/ Cardinality(top) = TopK
        /\ \A h \in top, o \in found \ top : Score(query, h) >= Score(query, o)}

BestOf(query, hits) == IF hits = {} THEN 0 ELSE Max({Score(query, h) : h \in hits})

-----------------------------------------------------------------------------
(* Documents.                                                              *)

Stored(text) == \E d \in Doc : documents[d] # None /\ documents[d].text = text
Unused == {d \in Doc : documents[d] = None}
Uploads == {c \in Connection : Running(c) /\ job[c].call = "ingest"}

\* An empty or oversized document, and one whose content is stored, are refused.
Ingest(c, content) ==
    LET text == NormalizeText(content) IN
    /\ Ready(c, "ingest")
    /\ Cardinality(Unused) > Cardinality(Uploads)
    /\ text # <<>> /\ Len(text) <= MaxDocumentSize
    /\ ~Stored(text)
    /\ Begin(c, [call |-> "ingest", step |-> "insert", text |-> text])
    /\ UNCHANGED <<may, documents, crashes, diagnoses, embedder, shelf>>

\* The content is unique: the insert waits for an upload of the same content that has
\* not committed, and fails if it did.
InsertDocument(c) ==
    LET Same(d) == At(d, "embed") /\ job[d].text = job[c].text IN
    /\ At(c, "insert")
    /\ \A d \in Connection \ {c} : ~Same(d)
    /\ IF Stored(job[c].text) THEN End(c) ELSE job' = [job EXCEPT ![c].step = "embed"]
    /\ UNCHANGED <<may, documents, crashes, diagnoses, embedder, shelf>>

Save(status, c, passages) ==
    documents' = [documents EXCEPT ![CHOOSE d \in Unused : TRUE] =
                     [text |-> job[c].text, model |-> embedder, status |-> status,
                      passages |-> passages]]

\* Every passage is embedded, and document and passages are committed together.
ChunkAndEmbed(c) ==
    LET text == job[c].text
        windows == ChunkText(text)
        passages == {Passage(text, windows[i]) : i \in DOMAIN windows}
    IN  /\ At(c, "embed")
        /\ Save("indexed", c, passages)
        /\ shelf' = shelf \cup {[model |-> embedder, passage |-> p] : p \in passages}
        /\ End(c)
        /\ UNCHANGED <<may, crashes, diagnoses, embedder>>

\* The embedder fails: the document is kept, without a passage.
RecordFailure(c) ==
    /\ At(c, "embed") /\ "failure" \in may.calls
    /\ Save("failed", c, {})
    /\ End(c)
    /\ UNCHANGED <<may, crashes, diagnoses, embedder, shelf>>

\* Its passages go with it.
DeleteDocument(d) ==
    /\ "delete" \in may.calls
    /\ documents[d] # None
    /\ documents' = [documents EXCEPT ![d] = None]
    /\ UNCHANGED <<may, crashes, diagnoses, embedder, job, shelf>>

-----------------------------------------------------------------------------
(* Diagnoses.                                                              *)

DiagnoseCrash(c, k) ==
    /\ Ready(c, "diagnose")
    /\ \E g \in Diagnosis : diagnoses[g] = None
    /\ crashes[k] # None
    /\ Begin(c, [call |-> "diagnose", step |-> "retrieve", crash |-> k, query |-> crashes[k],
                 sources |-> {}, model |-> None, best |-> None])
    /\ UNCHANGED <<may, documents, crashes, diagnoses, embedder, shelf>>

\* The nearest first, then those that are near enough.  best is a history: the score
\* of the best passage there was, None if there was none.
Retrieve(c) ==
    LET query == job[c].query
        found == Candidates(embedder)
        comparable == {h \in found : h.model = embedder}
    IN  /\ At(c, "retrieve")
        /\ \E top \in Nearest(query, found) :
              job' = [job EXCEPT ![c].step = "ask", ![c].model = embedder,
                        ![c].sources = {h \in top : Score(query, h) >= MinRelevance},
                        ![c].best = IF comparable = {} THEN None ELSE BestOf(query, comparable)]
        /\ UNCHANGED <<may, documents, crashes, diagnoses, embedder, shelf>>

Lesser(x, y) == IF x < y THEN x ELSE y
Greater(x, y) == IF x < y THEN y ELSE x

\* round(n / d, 4): to the nearest hundred millionths.
RoundTo4(n, d) == 100 * ((n + 50 * d) \div (100 * d))

\* Mutant of GroundedConfidence: the model's claim is averaged in, up as well as down.
ConfidenceBlended(claim, top, n) ==
    LET support == Lesser(One, top) IN
    IF n = 0 \/ top < ConfidenceFloor
    THEN [score |-> Lesser(Weak, Greater(0, top)), label |-> "uncertain"]
    ELSE [score |-> IF claim = None THEN RoundTo4(85 * support, 100)
                                    ELSE RoundTo4(support + claim, 2),
          label |-> IF support >= CertainThreshold THEN "certain" ELSE "likely"]

\* What the retrieval supports; the model's own claim can only lower it.  A grounded
\* confidence is rounded, an uncertain one is not.
GroundedConfidence(claim, top, n) ==
    LET support == Lesser(One, top) IN
    IF n = 0 \/ top < ConfidenceFloor
    THEN [score |-> Lesser(Weak, Greater(0, top)), label |-> "uncertain"]
    ELSE [score |-> CASE claim = None -> RoundTo4(85 * support, 100)
                      [] claim # None /\ claim >= support -> RoundTo4(support, 1)
                      [] OTHER -> RoundTo4(support + claim, 2),
          label |-> IF support >= CertainThreshold THEN "certain" ELSE "likely"]

\* What the template answers, else what a remote model may: a reply that is no JSON
\* object, or whose confidence is no number, claims none; a number is taken as it is.
Claims(sources) ==
    IF may.claims # {} THEN may.claims
    ELSE IF sources = {} THEN {100000} ELSE {700000}

Assemble(c, claim) ==
    LET j == job[c]
        grounded == GroundedConfidence(claim, BestOf(j.query, j.sources), Cardinality(j.sources))
    IN  [crash |-> j.crash, query |-> j.query, sources |-> j.sources, model |-> j.model,
         score |-> grounded.score, label |-> grounded.label, best |-> j.best]

\* Mutant of Conclude: no foreign key.
ConcludeAnyway(c) ==
    /\ At(c, "ask")
    /\ \E claim \in Claims(job[c].sources), g \in Diagnosis :
        /\ diagnoses[g] = None
        /\ diagnoses' = [diagnoses EXCEPT ![g] = Assemble(c, claim)]
    /\ End(c)
    /\ UNCHANGED <<may, documents, crashes, embedder, shelf>>

\* The answer is stored, unless its crash has been deleted (or, here, Diagnosis is full).
Conclude(c) ==
    /\ At(c, "ask")
    /\ IF crashes[job[c].crash] = None \/ \A g \in Diagnosis : diagnoses[g] # None
       THEN UNCHANGED diagnoses
       ELSE \E claim \in Claims(job[c].sources) :
                LET free == CHOOSE g \in Diagnosis : diagnoses[g] = None
                IN  diagnoses' = [diagnoses EXCEPT ![free] = Assemble(c, claim)]
    /\ End(c)
    /\ UNCHANGED <<may, documents, crashes, embedder, shelf>>

\* A provider fails, or the process dies: nothing is stored.
Fail(c) ==
    /\ Running(c) /\ "failure" \in may.calls
    /\ End(c)
    /\ UNCHANGED <<may, documents, crashes, diagnoses, embedder, shelf>>

-----------------------------------------------------------------------------
(* What happens around them.                                               *)

\* Symbols turn up; the report is symbolicated again.
Symbolicate(k) ==
    /\ "diagnose" \in may.calls
    /\ crashes[k] # None /\ "f" \notin crashes[k]
    /\ crashes' = [crashes EXCEPT ![k] = @ \cup {"f"}]
    /\ UNCHANGED <<may, documents, diagnoses, embedder, job, shelf>>

\* A deleted report takes its diagnoses along.
DeleteCrash(k) ==
    /\ "delete" \in may.calls
    /\ crashes[k] # None
    /\ crashes' = [crashes EXCEPT ![k] = None]
    /\ diagnoses' = [g \in Diagnosis |-> IF diagnoses[g] # None /\ diagnoses[g].crash = k
                                         THEN None ELSE diagnoses[g]]
    /\ UNCHANGED <<may, documents, embedder, job, shelf>>

\* The service is restarted with another embedding model.
Redeploy(model) ==
    /\ model \in may.models
    /\ embedder' = model /\ embedder # model
    /\ job' = [c \in Connection |-> None]
    /\ UNCHANGED <<may, documents, crashes, diagnoses, shelf>>

\* The requests, by router.
KnowledgeRouter(c) == \E content \in may.texts : Ingest(c, content)
DiagnosisRouter(c) == \E k \in Crash : DiagnoseCrash(c, k)

Next ==
    \/ \E c \in Connection :
          \/ KnowledgeRouter(c) \/ InsertDocument(c) \/ ChunkAndEmbed(c) \/ RecordFailure(c)
          \/ DiagnosisRouter(c) \/ Retrieve(c) \/ Conclude(c) \/ Fail(c)
    \/ \E d \in Doc : DeleteDocument(d)
    \/ \E k \in Crash : Symbolicate(k) \/ DeleteCrash(k)
    \/ \E model \in Model : Redeploy(model)

Spec == Init /\ [][Next]_vars

-----------------------------------------------------------------------------
(* Properties.                                                             *)

DocumentRow(row) ==
    /\ Len(row.text) \in 1..MaxDocumentSize /\ row.model \in Model
    /\ row.status \in {"indexed", "failed"}
DiagnosisRow(row) ==
    /\ row.crash \in Crash /\ crashes[row.crash] # None
    /\ row.label \in {"certain", "likely", "uncertain"}
    /\ IsFiniteSet(row.sources) /\ Cardinality(row.sources) <= TopK
Request(j) ==
    \/ /\ j.call = "ingest" /\ j.step \in {"insert", "embed"}
       /\ Len(j.text) \in 1..MaxDocumentSize
    \/ /\ j.call = "diagnose" /\ j.step \in {"retrieve", "ask"}
       /\ j.crash \in Crash /\ j.query \subseteq Word

OneDocumentPerContent ==
    \A d, e \in Doc :
        d # e /\ documents[d] # None /\ documents[e] # None =>
            documents[d].text # documents[e].text

\* Types; a document of one content; no diagnosis outlives its crash.
TypeOK ==
    /\ embedder \in Model
    /\ \A d \in Doc : documents[d] # None => DocumentRow(documents[d])
    /\ OneDocumentPerContent
    /\ \A k \in Crash : crashes[k] # None => crashes[k] \subseteq Word
    /\ \A g \in Diagnosis : diagnoses[g] # None => DiagnosisRow(diagnoses[g])
    /\ \A c \in Connection : Running(c) => Request(job[c])

\* A document is indexed as a whole or not at all: it has passages exactly if it says so,
\* and a fact no longer than the overlap is found whole in one of them, wherever the
\* document was cut; in particular no word is lost.
FactsStayWhole ==
    \A d \in Doc : documents[d] # None =>
        LET t == documents[d].text IN
        /\ documents[d].status = "indexed" <=> documents[d].passages # {}
        /\ documents[d].status = "indexed" =>
           \A i \in Ink(t), n \in 0..ChunkOverlap - 1 : i + n \in Ink(t) =>
             \E p \in documents[d].passages, k \in 1..ChunkSize :
                 k + n <= Len(p) /\ SubSeq(p, k, k + n) = SubSeq(t, i, i + n)

\* The best passage there was is near enough to be a source.
Near(best) == best # None /\ best >= MinRelevance

\* What such a passage supports, and how much rounding to four decimals may add.
Support(best) == IF Near(best) THEN Greater(0, Lesser(One, best)) ELSE 0
HalfOfLastDecimal == 50

\* Whatever the model claims, whichever passages were retrieved and however the ties fell:
\* a diagnosis is uncertain exactly if the best passage there was is too far (or there was
\* none), its confidence is more than that passage supports by no more than the rounding
\* of a grounded one, and it is called certain only for a strong one.
ConfidenceGrounded ==
    \A g \in Diagnosis : diagnoses[g] # None =>
        LET row == diagnoses[g]
            uncertain == row.label = "uncertain"
        IN  /\ uncertain <=> ~(Near(row.best) /\ row.best >= ConfidenceFloor)
            /\ row.score <= Support(row.best) + (IF uncertain THEN 0 ELSE HalfOfLastDecimal)
            /\ row.label = "certain" => row.best >= CertainThreshold

\* Every source of a diagnosis was once indexed, with the model its query was embedded
\* with, though its document may be gone: never a passage of a failed or unfinished
\* upload.
SourcesOnRecord ==
    \A g \in Diagnosis : diagnoses[g] # None =>
        \A h \in diagnoses[g].sources :
            [model |-> diagnoses[g].model, passage |-> h.passage] \in shelf
=============================================================================
