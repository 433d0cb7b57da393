------------------------ MODULE BuildArtifactsProofs ------------------------
(***************************************************************************)
(* Theorems about BuildArtifacts, for any number of sessions and uploads:  *)
(* every safety property its runs check.                                   *)
(*                                                                         *)
(* The argument goes in layers, each an invariant of its own that rests on *)
(* the ones before.  ShapeInv types the state and says what a request has  *)
(* in memory in each phase; SymbolInv, that what it is about to commit is  *)
(* what its artifact holds; FreshInv, that nobody else speaks of a new     *)
(* upload; RowLockInv, that a written row has one writer.  OrphanInv and   *)
(* IdentityInv (the latter where the identity has a version) follow from   *)
(* these.  AloneInv and VolumeInv are about requests that do not overlap.  *)
(***************************************************************************)
EXTENDS BuildArtifacts, TLAPS

\* What other sessions may read: a row as it is committed.
Stable == [art : Upload, suffix : Suffix, status : {"indexed", "failed"}]

\* The locals of a request in each phase.
JobShape(t) ==
    /\ phase[t] = "idle" => job[t] = NoJob
    /\ phase[t] \in {"find", "insert", "clear", "clearing", "store", "save", "index"} =>
          job[t].art \in Upload /\ ~job[t].deletes
    /\ phase[t] = "find" => job[t].build = None /\ job[t].loaded = None
    /\ phase[t] = "insert" => job[t].build = job[t].art /\ job[t].loaded = None
    /\ phase[t] \in {"remove", "clear", "clearing", "save", "erase", "cascade"} =>
          job[t].build \in Upload /\ job[t].loaded \in Stable
    /\ phase[t] \in {"store", "index", "commit"} =>
          /\ job[t].build \in Upload
          /\ job[t].loaded = None => job[t].build = job[t].art
          /\ job[t].loaded # None => job[t].loaded \in Stable
    /\ phase[t] \in {"remove", "commit"} => (job[t].deletes \/ job[t].art \in Upload)
    /\ phase[t] \in {"erase", "cascade"} => job[t].deletes
    /\ job[t].deletes => job[t].art = None /\ job[t].loaded # None

\* What it has written and not committed.
WriteShape(t) ==
    /\ phase[t] \in {"idle", "find", "insert", "remove", "clear", "clearing", "save", "erase"} =>
          wrote[t] = None
    /\ phase[t] = "store" =>
          IF job[t].loaded = None THEN wrote[t] \in Row ELSE wrote[t] = None
    /\ phase[t] = "index" =>
          wrote[t] \in Row /\ (job[t].loaded # None => wrote[t].suffix \in Suffix)
    /\ phase[t] = "cascade" => wrote[t] = Gone
    /\ phase[t] = "commit" =>
          IF job[t].deletes THEN wrote[t] \in {None, Gone} ELSE wrote[t] \in Stable

ShapeInv == TypeOK /\ \A t \in Session : JobShape(t) /\ WriteShape(t)

-----------------------------------------------------------------------------

\* A committed row is a row, and none of the values that stand for no row.
LEMMA StableRows ==
    /\ Stable \subseteq Row
    /\ None \notin Row /\ Gone \notin Row /\ None # Gone /\ None \notin Upload
    /\ None \notin Suffix
  BY BuildConstants DEF Stable, Row, Status

\* The shapes of a session speak of its own variables only.
LEMMA ShapeFrame ==
    ASSUME NEW u \in Session, JobShape(u), WriteShape(u),
           phase'[u] = phase[u], job'[u] = job[u], wrote'[u] = wrote[u]
    PROVE  JobShape(u)' /\ WriteShape(u)'
  BY DEF JobShape, WriteShape

\* A session that ends its request is idle, and nobody else notices.
LEMMA EndShape ==
    ASSUME ShapeInv, NEW t \in Session, End(t)
    PROVE  /\ phase' \in [Session -> Phase] /\ job' \in [Session -> Job]
           /\ wrote' \in [Session -> Row \cup {Gone, None}]
           /\ seen' \in [Session -> SUBSET Upload]
           /\ cut' \in [Session -> SUBSET Upload]
           /\ added' \in [Session -> SUBSET Upload]
           /\ \A u \in Session : JobShape(u)' /\ WriteShape(u)'
<1> USE DEF ShapeInv, TypeOK, End, EndTransaction
<1>1. NoJob \in Job
  BY DEF NoJob, Job
<1>2. JobShape(t)' /\ WriteShape(t)'
  BY DEF JobShape, WriteShape, NoJob
<1>3. ASSUME NEW u \in Session, u # t PROVE JobShape(u)' /\ WriteShape(u)'
  BY <1>3, ShapeFrame
<1> QED
  BY <1>1, <1>2, <1>3 DEF Phase

\* Every action keeps the shapes.
LEMMA ShapeStep == ShapeInv /\ [Next]_vars => ShapeInv'
<1> SUFFICES ASSUME ShapeInv, [Next]_vars PROVE ShapeInv'
  OBVIOUS
<1> USE DEF ShapeInv
<1>1. ASSUME NEW t \in Session, Fail(t) PROVE ShapeInv'
  BY <1>1, EndShape DEF Fail, TypeOK, tables
<1>2. ASSUME NEW t \in Session, Commit(t) PROVE ShapeInv'
  <2>1. rows' \in [Upload -> Stable \cup {None}]
    <3>1. job[t].build \in Upload /\ (wrote[t] \in Stable \cup {None, Gone})
      BY <1>2 DEF Commit, JobShape, WriteShape
    <3> QED
      BY <1>2, <3>1 DEF Commit, TypeOK, Stable
  <2>2. symbols' \in [Upload -> SUBSET Upload]
    BY <1>2 DEF Commit, TypeOK
  <2> QED
    BY <1>2, <2>1, <2>2, EndShape DEF Commit, TypeOK, Stable, histories
<1>3. ASSUME NEW t \in Session, NEW a \in Upload, Spool(t, a) PROVE ShapeInv'
  <2>1. JobShape(t) /\ WriteShape(t)
    OBVIOUS
  <2>2. TypeOK'
    BY <1>3, <2>1, StableRows, BuildConstants
    DEF Spool, TypeOK, JobShape, WriteShape, Stable, Row, Status, Job, NoJob, Phase, Starts, tables, writes, histories
  <2>3. JobShape(t)' /\ WriteShape(t)'
    BY <1>3, <2>1, StableRows, BuildConstants
    DEF Spool, TypeOK, JobShape, WriteShape, Stable, Row, Status, NoJob, Job, tables, writes
  <2>4. ASSUME NEW u \in Session, u # t PROVE JobShape(u)' /\ WriteShape(u)'
    BY <1>3, <2>4, ShapeFrame DEF Spool, TypeOK, tables, writes
  <2> QED
    BY <2>2, <2>3, <2>4
<1>4. ASSUME NEW t \in Session, Find(t) PROVE ShapeInv'
  <2> DEFINE j == job'[t]
  <2>1. phase[t] = "find" /\ job[t].art \in Upload /\ job[t] \in Job /\ ~job[t].deletes
        /\ job[t].loaded = None /\ wrote[t] = None
    BY <1>4 DEF Find, JobShape, WriteShape, TypeOK
  <2>2. /\ j \in Job /\ job' \in [Session -> Job]
        /\ j.art \in Upload /\ ~j.deletes /\ j.build \in Upload
        /\ \/ phase'[t] = "insert" /\ j.build = j.art /\ j.loaded = None
           \/ phase'[t] = "remove" /\ j.loaded \in Stable
    <3>1. CASE \A b \in Upload : rows[b] = None
      <4>1. job' = [job EXCEPT ![t].build = job[t].art] /\ phase'[t] = "insert"
        BY <1>4, <3>1 DEF Find, TypeOK
      <4> QED
        BY <2>1, <4>1 DEF TypeOK, Job
    <3>2. CASE ~ \A b \in Upload : rows[b] = None
      <4>1. PICK b \in Upload : /\ rows[b] # None
                                /\ job' = [job EXCEPT ![t].build = b, ![t].loaded = rows[b]]
                                /\ phase'[t] = "remove"
        BY <1>4, <3>2 DEF Find, TypeOK
      <4>2. rows[b] \in Stable
        BY <4>1 DEF TypeOK, Stable
      <4> QED
        BY <2>1, <4>1, <4>2, StableRows DEF TypeOK, Job
    <3> QED
      BY <3>1, <3>2
  <2>3. TypeOK'
    BY <1>4, <2>2 DEF Find, TypeOK, Phase, tables, writes, histories
  <2>4. JobShape(t)' /\ WriteShape(t)'
    BY <1>4, <2>1, <2>2, StableRows DEF Find, JobShape, WriteShape, Stable, Row, writes
  <2>5. ASSUME NEW u \in Session, u # t PROVE JobShape(u)' /\ WriteShape(u)'
    BY <1>4, <2>5, ShapeFrame DEF Find, TypeOK, writes
  <2> QED
    BY <2>3, <2>4, <2>5
<1>5. ASSUME NEW t \in Session, Insert(t) PROVE ShapeInv'
  <2>1. JobShape(t) /\ WriteShape(t)
    OBVIOUS
  <2>2. TypeOK'
    BY <1>5, <2>1, StableRows, BuildConstants
    DEF Insert, TypeOK, JobShape, WriteShape, Stable, Row, Status, Job, NoJob, Phase, Starts, tables, writes, histories
  <2>3. JobShape(t)' /\ WriteShape(t)'
    BY <1>5, <2>1, StableRows, BuildConstants
    DEF Insert, TypeOK, JobShape, WriteShape, Stable, Row, Status, NoJob, Job, tables, writes
  <2>4. ASSUME NEW u \in Session, u # t PROVE JobShape(u)' /\ WriteShape(u)'
    BY <1>5, <2>4, ShapeFrame DEF Insert, TypeOK, tables, writes
  <2> QED
    BY <2>2, <2>3, <2>4
<1>6. ASSUME NEW t \in Session, Remove(t) PROVE ShapeInv'
  <2>1. JobShape(t) /\ WriteShape(t)
    OBVIOUS
  <2>2. TypeOK'
    BY <1>6, <2>1, StableRows, BuildConstants
    DEF Remove, WithoutFile, TypeOK, JobShape, WriteShape, Stable, Row, Status, Job, NoJob, Phase, Starts, tables, writes, histories
  <2>3. JobShape(t)' /\ WriteShape(t)'
    BY <1>6, <2>1, StableRows, BuildConstants
    DEF Remove, WithoutFile, TypeOK, JobShape, WriteShape, Stable, Row, Status, NoJob, Job, tables, writes
  <2>4. ASSUME NEW u \in Session, u # t PROVE JobShape(u)' /\ WriteShape(u)'
    BY <1>6, <2>4, ShapeFrame DEF Remove, TypeOK, tables, writes
  <2> QED
    BY <2>2, <2>3, <2>4
<1>7. ASSUME NEW t \in Session, RemoveFails(t) PROVE ShapeInv'
  <2>1. JobShape(t) /\ WriteShape(t)
    OBVIOUS
  <2>2. TypeOK'
    BY <1>7, <2>1, StableRows, BuildConstants
    DEF RemoveFails, TypeOK, JobShape, WriteShape, Stable, Row, Status, Job, NoJob, Phase, Starts, tables, writes, histories
  <2>3. JobShape(t)' /\ WriteShape(t)'
    BY <1>7, <2>1, StableRows, BuildConstants
    DEF RemoveFails, TypeOK, JobShape, WriteShape, Stable, Row, Status, NoJob, Job, tables, writes
  <2>4. ASSUME NEW u \in Session, u # t PROVE JobShape(u)' /\ WriteShape(u)'
    BY <1>7, <2>4, ShapeFrame DEF RemoveFails, TypeOK, tables, writes
  <2> QED
    BY <2>2, <2>3, <2>4
<1>8. ASSUME NEW t \in Session, Clear(t) PROVE ShapeInv'
  <2>1. JobShape(t) /\ WriteShape(t)
    OBVIOUS
  <2>2. TypeOK'
    BY <1>8, <2>1, StableRows, BuildConstants
    DEF Clear, Found, TypeOK, JobShape, WriteShape, Stable, Row, Status, Job, NoJob, Phase, Starts, tables, writes, histories
  <2>3. JobShape(t)' /\ WriteShape(t)'
    BY <1>8, <2>1, StableRows, BuildConstants
    DEF Clear, Found, TypeOK, JobShape, WriteShape, Stable, Row, Status, NoJob, Job, tables, writes
  <2>4. ASSUME NEW u \in Session, u # t PROVE JobShape(u)' /\ WriteShape(u)'
    BY <1>8, <2>4, ShapeFrame DEF Clear, TypeOK, tables, writes
  <2> QED
    BY <2>2, <2>3, <2>4
<1>9. ASSUME NEW t \in Session, Clearing(t) PROVE ShapeInv'
  <2>1. JobShape(t) /\ WriteShape(t)
    OBVIOUS
  <2>2. TypeOK'
    BY <1>9, <2>1, StableRows, BuildConstants
    DEF Clearing, TypeOK, JobShape, WriteShape, Stable, Row, Status, Job, NoJob, Phase, Starts, tables, writes, histories
  <2>3. JobShape(t)' /\ WriteShape(t)'
    BY <1>9, <2>1, StableRows, BuildConstants
    DEF Clearing, TypeOK, JobShape, WriteShape, Stable, Row, Status, NoJob, Job, tables, writes
  <2>4. ASSUME NEW u \in Session, u # t PROVE JobShape(u)' /\ WriteShape(u)'
    BY <1>9, <2>4, ShapeFrame DEF Clearing, TypeOK, tables, writes
  <2> QED
    BY <2>2, <2>3, <2>4
<1>10. ASSUME NEW t \in Session, Store(t) PROVE ShapeInv'
  <2>1. JobShape(t) /\ WriteShape(t)
    OBVIOUS
  <2>2. TypeOK'
    BY <1>10, <2>1, StableRows, BuildConstants
    DEF Store, TypeOK, JobShape, WriteShape, Stable, Row, Status, Job, NoJob, Phase, Starts, tables, writes, histories
  <2>3. JobShape(t)' /\ WriteShape(t)'
    BY <1>10, <2>1, StableRows, BuildConstants
    DEF Store, TypeOK, JobShape, WriteShape, Stable, Row, Status, NoJob, Job, tables, writes
  <2>4. ASSUME NEW u \in Session, u # t PROVE JobShape(u)' /\ WriteShape(u)'
    BY <1>10, <2>4, ShapeFrame DEF Store, TypeOK, tables, writes
  <2> QED
    BY <2>2, <2>3, <2>4
<1>11. ASSUME NEW t \in Session, Save(t) PROVE ShapeInv'
  <2>1. JobShape(t) /\ WriteShape(t)
    OBVIOUS
  <2>2. TypeOK'
    BY <1>11, <2>1, StableRows, BuildConstants
    DEF Save, SavedSuffix, TypeOK, JobShape, WriteShape, Stable, Row, Status, Job, NoJob, Phase, Starts, tables, writes, histories
  <2>3. JobShape(t)' /\ WriteShape(t)'
    BY <1>11, <2>1, StableRows, BuildConstants
    DEF Save, SavedSuffix, TypeOK, JobShape, WriteShape, Stable, Row, Status, NoJob, Job, tables, writes
  <2>4. ASSUME NEW u \in Session, u # t PROVE JobShape(u)' /\ WriteShape(u)'
    BY <1>11, <2>4, ShapeFrame DEF Save, TypeOK, tables, writes
  <2> QED
    BY <2>2, <2>3, <2>4
<1>12. ASSUME NEW t \in Session, Index(t) PROVE ShapeInv'
  <2>1. JobShape(t) /\ WriteShape(t) /\ phase[t] = "index" /\ wrote[t] \in Row
    BY <1>12 DEF Index, WriteShape
  <2>2. /\ wrote'[t] = [wrote[t] EXCEPT !.suffix = PathOf(t), !.status = StatusOf(job[t].art)]
        /\ PathOf(t) \in Suffix /\ StatusOf(job[t].art) \in {"indexed", "failed"}
    BY <1>12, <2>1, BuildConstants DEF Index, TypeOK, PathOf, StatusOf, JobShape, WriteShape
  <2>3. wrote'[t] \in Stable
    BY <2>1, <2>2 DEF Stable, Row
  <2>4. TypeOK'
    BY <1>12, <2>1, <2>3, StableRows
    DEF Index, TypeOK, JobShape, Phase, tables, writes, histories
  <2>5. JobShape(t)' /\ WriteShape(t)'
    BY <1>12, <2>1, <2>3 DEF Index, JobShape, WriteShape, TypeOK
  <2>6. ASSUME NEW u \in Session, u # t PROVE JobShape(u)' /\ WriteShape(u)'
    BY <1>12, <2>6, ShapeFrame DEF Index, TypeOK
  <2> QED
    BY <2>4, <2>5, <2>6
<1>13. ASSUME NEW t \in Session, NEW b \in Upload, BeginDelete(t, b) PROVE ShapeInv'
  <2>1. JobShape(t) /\ WriteShape(t)
    OBVIOUS
  <2>2. TypeOK'
    BY <1>13, <2>1, StableRows, BuildConstants
    DEF BeginDelete, TypeOK, JobShape, WriteShape, Stable, Row, Status, Job, NoJob, Phase, Starts, tables, writes, histories
  <2>3. JobShape(t)' /\ WriteShape(t)'
    BY <1>13, <2>1, StableRows, BuildConstants
    DEF BeginDelete, TypeOK, JobShape, WriteShape, Stable, Row, Status, NoJob, Job, tables, writes
  <2>4. ASSUME NEW u \in Session, u # t PROVE JobShape(u)' /\ WriteShape(u)'
    BY <1>13, <2>4, ShapeFrame DEF BeginDelete, TypeOK, tables, writes
  <2> QED
    BY <2>2, <2>3, <2>4
<1>14. ASSUME NEW t \in Session, Erase(t) PROVE ShapeInv'
  <2>1. JobShape(t) /\ WriteShape(t)
    OBVIOUS
  <2>2. TypeOK'
    BY <1>14, <2>1, StableRows, BuildConstants
    DEF Erase, TypeOK, JobShape, WriteShape, Stable, Row, Status, Job, NoJob, Phase, Starts, tables, writes, histories
  <2>3. JobShape(t)' /\ WriteShape(t)'
    BY <1>14, <2>1, StableRows, BuildConstants
    DEF Erase, TypeOK, JobShape, WriteShape, Stable, Row, Status, NoJob, Job, tables, writes
  <2>4. ASSUME NEW u \in Session, u # t PROVE JobShape(u)' /\ WriteShape(u)'
    BY <1>14, <2>4, ShapeFrame DEF Erase, TypeOK, tables, writes
  <2> QED
    BY <2>2, <2>3, <2>4
<1>15. ASSUME NEW t \in Session, Cascade(t) PROVE ShapeInv'
  <2>1. JobShape(t) /\ WriteShape(t)
    OBVIOUS
  <2>2. TypeOK'
    BY <1>15, <2>1, StableRows, BuildConstants
    DEF Cascade, Cascaded, TypeOK, JobShape, WriteShape, Stable, Row, Status, Job, NoJob, Phase, Starts, tables, writes, histories
  <2>3. JobShape(t)' /\ WriteShape(t)'
    BY <1>15, <2>1, StableRows, BuildConstants
    DEF Cascade, Cascaded, TypeOK, JobShape, WriteShape, Stable, Row, Status, NoJob, Job, tables, writes
  <2>4. ASSUME NEW u \in Session, u # t PROVE JobShape(u)' /\ WriteShape(u)'
    BY <1>15, <2>4, ShapeFrame DEF Cascade, TypeOK, tables, writes
  <2> QED
    BY <2>2, <2>3, <2>4
<1>16. CASE UNCHANGED vars
  BY <1>16 DEF vars, tables, writes, histories, TypeOK, JobShape, WriteShape
<1> QED
  BY <1>1, <1>2, <1>3, <1>4, <1>5, <1>6, <1>7, <1>8, <1>9, <1>10, <1>11, <1>12, <1>13, <1>14, <1>15, <1>16 DEF Next, Advance, InsertConflict, SaveStale, DeadlockVictim, Abort

LEMMA ShapeInit == Init => ShapeInv
<1> SUFFICES ASSUME Init PROVE ShapeInv
  OBVIOUS
<1>1. NoJob \in Job
  BY DEF NoJob, Job
<1>2. TypeOK
  <2>1. files \in [Upload -> [Suffix -> Upload \cup {None}]]
    BY DEF Init
  <2>2. symbols \in [Upload -> SUBSET Upload] /\ rows \in [Upload -> {None}]
    BY DEF Init
  <2>3. phase \in [Session -> Phase] /\ job \in [Session -> Job] /\ wrote \in [Session -> {None}]
    BY <1>1 DEF Init, Phase
  <2>4. /\ seen \in [Session -> SUBSET Upload]
        /\ cut \in [Session -> SUBSET Upload]
        /\ added \in [Session -> SUBSET Upload]
    BY DEF Init
  <2>5. uploaded = {} /\ deletions \in 0..MaxDeletes /\ overlapped = FALSE /\ failed = FALSE
    BY BuildConstants DEF Init
  <2> QED
    BY <2>1, <2>2, <2>3, <2>4, <2>5 DEF TypeOK
<1>3. ASSUME NEW t \in Session PROVE JobShape(t) /\ WriteShape(t)
  BY DEF Init, JobShape, WriteShape, NoJob
<1> QED
  BY <1>2, <1>3 DEF ShapeInv

-----------------------------------------------------------------------------
(* What a request writes is what its artifact holds.                       *)

\* A request that replaces or creates a build, with its row written.
Writing(t) == wrote[t] # None /\ wrote[t] # Gone

\* What a session deletes and inserts before its commit.
SymbolShape(t) ==
    /\ phase[t] # "commit" => added[t] = {}
    /\ phase[t] = "commit" =>
          added[t] = IF job[t].deletes THEN {} ELSE {job[t].art} \cap HasSymbols
    /\ Writing(t) => wrote[t].art = job[t].art
    /\ phase[t] = "commit" /\ ~job[t].deletes => wrote[t].status = StatusOf(job[t].art)
    /\ cut[t] # {} =>
          \/ phase[t] \in {"store", "save", "index", "commit"} /\ job[t].loaded # None
                /\ ~job[t].deletes
          \/ phase[t] = "commit" /\ wrote[t] = Gone

SymbolInv ==
    /\ \A t \in Session : SymbolShape(t)
    /\ \A b \in Upload : symbols[b] \subseteq HasSymbols
    /\ UsableHasItsSymbols

-----------------------------------------------------------------------------
(* Who names a build, and who holds its row.                               *)

\* An artifact names a build only when its own upload created it, and until then
\* nobody else speaks of it.
FreshInv ==
    /\ \A b \in Upload : rows[b] # None => b \in uploaded
    /\ \A t \in Session :
          /\ job[t].art # None => job[t].art \in uploaded /\ rows[job[t].art] = None
          /\ job[t].build # None => job[t].build \in uploaded
    /\ \A t, u \in Session : t # u /\ job[t].art # None =>
          job[u].art # job[t].art /\ job[u].build # job[t].art

\* A written row has one writer; it is there unless this request creates it.
RowLockInv ==
    /\ \A t, u \in Session :
          t # u /\ wrote[t] # None /\ wrote[u] # None => job[t].build # job[u].build
    /\ \A t \in Session : wrote[t] # None => (rows[job[t].build] = None <=> job[t].loaded = None)

\* While a build is being created there is no other, stored or under way.
IdentityInv ==
    /\ OneBuildPerIdentity
    /\ \A t \in Session : wrote[t] # None /\ job[t].loaded = None =>
          /\ \A b \in Upload : rows[b] = None
          /\ \A u \in Session : u # t => wrote[u] = None

\* A deletion about to commit takes every symbol its build has by then.
OrphanInv ==
    /\ NoOrphanSymbols
    /\ \A t \in Session : phase[t] = "commit" /\ wrote[t] = Gone => symbols[job[t].build] \subseteq cut[t]

-----------------------------------------------------------------------------
(* Requests one after another.                                             *)

\* What a lone request has read is still so, and it deletes every symbol of the
\* artifact it replaces.
AloneShape(t) ==
    /\ phase[t] # "idle" /\ job[t].loaded # None => rows[job[t].build] = job[t].loaded
    /\ phase[t] = "clearing" => seen[t] = symbols[job[t].build]
    /\ phase[t] \in {"store", "save", "index", "commit"} /\ job[t].loaded # None /\ ~job[t].deletes =>
          cut[t] = symbols[job[t].build]

AloneInv ==
    ~ overlapped =>
        /\ \A t, u \in Session : t # u => phase[t] = "idle" \/ phase[u] = "idle"
        /\ \A t \in Session : AloneShape(t)
        /\ OnlyItsSymbols

\* What the volume holds of a build while a lone request works on it.
FileOf(b, s) == IF rows[b] # None /\ rows[b].suffix = s THEN rows[b].art ELSE None

Emptied(t) ==
    \/ phase[t] \in {"clear", "clearing", "store", "erase", "cascade"}
    \/ phase[t] = "commit" /\ job[t].deletes

Filled(t) ==
    \/ phase[t] \in {"save", "index"}
    \/ phase[t] = "commit" /\ ~job[t].deletes

Touches(t) == Emptied(t) \/ Filled(t)

VolumeShape(t) ==
    /\ Emptied(t) => \A s \in Suffix : files[job[t].build][s] = None
    /\ Filled(t) => \A s \in Suffix : files[job[t].build][s] =
          IF s = SuffixOf[job[t].art] THEN job[t].art ELSE None
    /\ phase[t] = "index" /\ job[t].loaded # None => wrote[t].suffix = SuffixOf[job[t].art]
    /\ phase[t] = "commit" =>
          IF job[t].deletes THEN wrote[t] = Gone ELSE wrote[t].suffix = SuffixOf[job[t].art]

VolumeInv ==
    ~ overlapped /\ ~ failed =>
        /\ \A t \in Session : VolumeShape(t)
        /\ \A b \in Upload, s \in Suffix :
              (\A t \in Session : Touches(t) => job[t].build # b) => files[b][s] = FileOf(b, s)

-----------------------------------------------------------------------------
(* Symbols.                                                                *)

LEMMA SymbolFrame ==
    ASSUME NEW u \in Session, SymbolShape(u), phase'[u] = phase[u], job'[u] = job[u],
           wrote'[u] = wrote[u], cut'[u] = cut[u], added'[u] = added[u]
    PROVE  SymbolShape(u)'
  BY DEF SymbolShape, Writing

LEMMA SymbolEnd ==
    ASSUME ShapeInv, SymbolInv, NEW t \in Session, End(t)
    PROVE  \A u \in Session : SymbolShape(u)'
<1> USE DEF ShapeInv, SymbolInv, TypeOK, End, EndTransaction
<1>1. SymbolShape(t)'
  BY DEF SymbolShape, NoJob, Writing
<1>2. ASSUME NEW u \in Session, u # t PROVE SymbolShape(u)'
  BY <1>2, SymbolFrame
<1> QED
  BY <1>1, <1>2

\* Only a commit changes what the tables hold.
LEMMA SymbolStep == ShapeInv /\ SymbolInv /\ [Next]_vars => SymbolInv'
<1> SUFFICES ASSUME ShapeInv, SymbolInv, [Next]_vars PROVE SymbolInv'
  OBVIOUS
<1> USE DEF ShapeInv, SymbolInv
<1>1. ASSUME NEW t \in Session, Fail(t) PROVE SymbolInv'
  BY <1>1, SymbolEnd DEF Fail, tables, UsableHasItsSymbols
<1>2. ASSUME NEW t \in Session, Commit(t) PROVE SymbolInv'
  <2> DEFINE b == job[t].build
  <2>1. b \in Upload /\ JobShape(t) /\ WriteShape(t) /\ SymbolShape(t) /\ phase[t] = "commit"
    BY <1>2 DEF Commit, JobShape
  <2>2. \A c \in Upload \ {b} : rows'[c] = rows[c] /\ symbols'[c] = symbols[c]
    BY <1>2, <2>1 DEF Commit, TypeOK
  <2>3. symbols'[b] = (symbols[b] \ cut[t]) \cup added[t] /\ added[t] \subseteq HasSymbols
    BY <1>2, <2>1 DEF Commit, TypeOK, SymbolShape
  <2>4. CASE job[t].deletes /\ wrote[t] = Gone
    <3>1. rows'[b] = None
      BY <1>2, <2>1, <2>4, StableRows DEF Commit, TypeOK
    <3> QED
      BY <1>2, <2>1, <2>2, <2>3, <3>1, SymbolEnd DEF Commit, UsableHasItsSymbols
  <2>5. CASE job[t].deletes /\ wrote[t] = None
    <3>1. rows'[b] = rows[b] /\ symbols'[b] = symbols[b]
      BY <1>2, <2>1, <2>5, BuildConstants DEF Commit, TypeOK, SymbolShape
    <3> QED
      BY <1>2, <2>1, <2>2, <3>1, SymbolEnd DEF Commit, UsableHasItsSymbols
  <2>6. CASE ~job[t].deletes
    <3>1. wrote[t] \in Stable /\ wrote[t] # None /\ wrote[t] # Gone
      BY <2>1, <2>6, StableRows DEF WriteShape
    <3>2. rows'[b] = wrote[t]
      BY <1>2, <2>1, <3>1 DEF Commit, TypeOK
    <3>3. /\ wrote[t].art = job[t].art /\ wrote[t].status = StatusOf(job[t].art)
          /\ added[t] = {job[t].art} \cap HasSymbols
      BY <2>1, <2>6, <3>1 DEF SymbolShape, Writing
    <3>4. wrote[t].status = "indexed" <=> wrote[t].art \in symbols'[b]
      BY <2>1, <2>3, <3>3 DEF StatusOf
    <3> QED
      BY <1>2, <2>1, <2>2, <2>3, <3>2, <3>4, SymbolEnd DEF Commit, UsableHasItsSymbols
  <2> QED
    BY <2>1, <2>4, <2>5, <2>6 DEF WriteShape
<1>3. ASSUME NEW t \in Session, NEW a \in Upload, Spool(t, a) PROVE SymbolInv'
  <2>1. JobShape(t) /\ WriteShape(t) /\ SymbolShape(t)
    OBVIOUS
  <2>2. SymbolShape(t)'
    BY <1>3, <2>1, StableRows DEF Spool, SymbolShape, Writing, JobShape, WriteShape, TypeOK, NoJob, tables, writes
  <2>3. ASSUME NEW u \in Session, u # t PROVE SymbolShape(u)'
    BY <1>3, <2>3, SymbolFrame DEF Spool, TypeOK, writes
  <2> QED
    BY <1>3, <2>2, <2>3 DEF Spool, tables, UsableHasItsSymbols
<1>4. ASSUME NEW t \in Session, Find(t) PROVE SymbolInv'
  <2>1. JobShape(t) /\ WriteShape(t) /\ SymbolShape(t)
    OBVIOUS
  <2>2. SymbolShape(t)'
    BY <1>4, <2>1, StableRows DEF Find, SymbolShape, Writing, JobShape, WriteShape, TypeOK, NoJob, tables, writes
  <2>3. ASSUME NEW u \in Session, u # t PROVE SymbolShape(u)'
    BY <1>4, <2>3, SymbolFrame DEF Find, TypeOK, writes
  <2> QED
    BY <1>4, <2>2, <2>3 DEF Find, tables, UsableHasItsSymbols
<1>5. ASSUME NEW t \in Session, Insert(t) PROVE SymbolInv'
  <2>1. JobShape(t) /\ WriteShape(t) /\ SymbolShape(t)
    OBVIOUS
  <2>2. SymbolShape(t)'
    BY <1>5, <2>1, StableRows DEF Insert, SymbolShape, Writing, JobShape, WriteShape, TypeOK, NoJob, tables, writes
  <2>3. ASSUME NEW u \in Session, u # t PROVE SymbolShape(u)'
    BY <1>5, <2>3, SymbolFrame DEF Insert, TypeOK, writes
  <2> QED
    BY <1>5, <2>2, <2>3 DEF Insert, tables, UsableHasItsSymbols
<1>6. ASSUME NEW t \in Session, Remove(t) PROVE SymbolInv'
  <2>1. JobShape(t) /\ WriteShape(t) /\ SymbolShape(t)
    OBVIOUS
  <2>2. SymbolShape(t)'
    BY <1>6, <2>1, StableRows DEF Remove, WithoutFile, SymbolShape, Writing, JobShape, WriteShape, TypeOK, NoJob, tables, writes
  <2>3. ASSUME NEW u \in Session, u # t PROVE SymbolShape(u)'
    BY <1>6, <2>3, SymbolFrame DEF Remove, TypeOK, writes
  <2> QED
    BY <1>6, <2>2, <2>3 DEF Remove, tables, UsableHasItsSymbols
<1>7. ASSUME NEW t \in Session, RemoveFails(t) PROVE SymbolInv'
  <2>1. JobShape(t) /\ WriteShape(t) /\ SymbolShape(t)
    OBVIOUS
  <2>2. SymbolShape(t)'
    BY <1>7, <2>1, StableRows DEF RemoveFails, SymbolShape, Writing, JobShape, WriteShape, TypeOK, NoJob, tables, writes
  <2>3. ASSUME NEW u \in Session, u # t PROVE SymbolShape(u)'
    BY <1>7, <2>3, SymbolFrame DEF RemoveFails, TypeOK, writes
  <2> QED
    BY <1>7, <2>2, <2>3 DEF RemoveFails, tables, UsableHasItsSymbols
<1>8. ASSUME NEW t \in Session, Clear(t) PROVE SymbolInv'
  <2>1. JobShape(t) /\ WriteShape(t) /\ SymbolShape(t)
    OBVIOUS
  <2>2. SymbolShape(t)'
    BY <1>8, <2>1, StableRows DEF Clear, Found, SymbolShape, Writing, JobShape, WriteShape, TypeOK, NoJob, tables, writes
  <2>3. ASSUME NEW u \in Session, u # t PROVE SymbolShape(u)'
    BY <1>8, <2>3, SymbolFrame DEF Clear, TypeOK, writes
  <2> QED
    BY <1>8, <2>2, <2>3 DEF Clear, tables, UsableHasItsSymbols
<1>9. ASSUME NEW t \in Session, Clearing(t) PROVE SymbolInv'
  <2>1. JobShape(t) /\ WriteShape(t) /\ SymbolShape(t)
    OBVIOUS
  <2>2. SymbolShape(t)'
    BY <1>9, <2>1, StableRows DEF Clearing, SymbolShape, Writing, JobShape, WriteShape, TypeOK, NoJob, tables, writes
  <2>3. ASSUME NEW u \in Session, u # t PROVE SymbolShape(u)'
    BY <1>9, <2>3, SymbolFrame DEF Clearing, TypeOK, writes
  <2> QED
    BY <1>9, <2>2, <2>3 DEF Clearing, tables, UsableHasItsSymbols
<1>10. ASSUME NEW t \in Session, Store(t) PROVE SymbolInv'
  <2>1. JobShape(t) /\ WriteShape(t) /\ SymbolShape(t)
    OBVIOUS
  <2>2. SymbolShape(t)'
    BY <1>10, <2>1, StableRows DEF Store, SymbolShape, Writing, JobShape, WriteShape, TypeOK, NoJob, tables, writes
  <2>3. ASSUME NEW u \in Session, u # t PROVE SymbolShape(u)'
    BY <1>10, <2>3, SymbolFrame DEF Store, TypeOK, writes
  <2> QED
    BY <1>10, <2>2, <2>3 DEF Store, tables, UsableHasItsSymbols
<1>11. ASSUME NEW t \in Session, Save(t) PROVE SymbolInv'
  <2>1. JobShape(t) /\ WriteShape(t) /\ SymbolShape(t)
    OBVIOUS
  <2>2. SymbolShape(t)'
    BY <1>11, <2>1, StableRows DEF Save, SymbolShape, Writing, JobShape, WriteShape, TypeOK, NoJob, tables, writes
  <2>3. ASSUME NEW u \in Session, u # t PROVE SymbolShape(u)'
    BY <1>11, <2>3, SymbolFrame DEF Save, TypeOK, writes
  <2> QED
    BY <1>11, <2>2, <2>3 DEF Save, tables, UsableHasItsSymbols
<1>12. ASSUME NEW t \in Session, Index(t) PROVE SymbolInv'
  <2>1. JobShape(t) /\ WriteShape(t) /\ SymbolShape(t)
    OBVIOUS
  <2>2. SymbolShape(t)'
    BY <1>12, <2>1, StableRows DEF Index, SymbolShape, Writing, JobShape, WriteShape, TypeOK, NoJob, tables, writes
  <2>3. ASSUME NEW u \in Session, u # t PROVE SymbolShape(u)'
    BY <1>12, <2>3, SymbolFrame DEF Index, TypeOK, writes
  <2> QED
    BY <1>12, <2>2, <2>3 DEF Index, tables, UsableHasItsSymbols
<1>13. ASSUME NEW t \in Session, NEW b \in Upload, BeginDelete(t, b) PROVE SymbolInv'
  <2>1. JobShape(t) /\ WriteShape(t) /\ SymbolShape(t)
    OBVIOUS
  <2>2. SymbolShape(t)'
    BY <1>13, <2>1, StableRows DEF BeginDelete, SymbolShape, Writing, JobShape, WriteShape, TypeOK, NoJob, tables, writes
  <2>3. ASSUME NEW u \in Session, u # t PROVE SymbolShape(u)'
    BY <1>13, <2>3, SymbolFrame DEF BeginDelete, TypeOK, writes
  <2> QED
    BY <1>13, <2>2, <2>3 DEF BeginDelete, tables, UsableHasItsSymbols
<1>14. ASSUME NEW t \in Session, Erase(t) PROVE SymbolInv'
  <2>1. JobShape(t) /\ WriteShape(t) /\ SymbolShape(t)
    OBVIOUS
  <2>2. SymbolShape(t)'
    BY <1>14, <2>1, StableRows DEF Erase, SymbolShape, Writing, JobShape, WriteShape, TypeOK, NoJob, tables, writes
  <2>3. ASSUME NEW u \in Session, u # t PROVE SymbolShape(u)'
    BY <1>14, <2>3, SymbolFrame DEF Erase, TypeOK, writes
  <2> QED
    BY <1>14, <2>2, <2>3 DEF Erase, tables, UsableHasItsSymbols
<1>15. ASSUME NEW t \in Session, Cascade(t) PROVE SymbolInv'
  <2>1. JobShape(t) /\ WriteShape(t) /\ SymbolShape(t)
    OBVIOUS
  <2>2. SymbolShape(t)'
    BY <1>15, <2>1, StableRows DEF Cascade, Cascaded, SymbolShape, Writing, JobShape, WriteShape, TypeOK, NoJob, tables, writes
  <2>3. ASSUME NEW u \in Session, u # t PROVE SymbolShape(u)'
    BY <1>15, <2>3, SymbolFrame DEF Cascade, TypeOK, writes
  <2> QED
    BY <1>15, <2>2, <2>3 DEF Cascade, tables, UsableHasItsSymbols
<1>16. CASE UNCHANGED vars
  BY <1>16 DEF vars, tables, writes, histories, SymbolShape, UsableHasItsSymbols, Writing
<1> QED
  BY <1>1, <1>2, <1>3, <1>4, <1>5, <1>6, <1>7, <1>8, <1>9, <1>10, <1>11, <1>12, <1>13, <1>14, <1>15, <1>16
  DEF Next, Advance, InsertConflict, SaveStale, DeadlockVictim, Abort

-----------------------------------------------------------------------------
(* Builds and their locks.                                                 *)

\* What Find leaves in the request's memory.
LEMMA FindFacts ==
    ASSUME ShapeInv, NEW t \in Session, Find(t)
    PROVE  /\ phase[t] = "find" /\ wrote[t] = None /\ job[t].art \in Upload
           /\ job'[t].art = job[t].art /\ job'[t].build \in Upload /\ ~job'[t].deletes
           /\ \/ /\ phase'[t] = "insert" /\ job'[t].build = job[t].art /\ job'[t].loaded = None
                 /\ \A b \in Upload : rows[b] = None
              \/ /\ phase'[t] = "remove" /\ rows[job'[t].build] # None
                 /\ job'[t].loaded = rows[job'[t].build]
           /\ \A u \in Session : u # t => job'[u] = job[u] /\ phase'[u] = phase[u]
           /\ UNCHANGED <<tables, files, writes, histories>>
<1> USE DEF ShapeInv
<1>1. /\ phase[t] = "find" /\ wrote[t] = None /\ job[t].art \in Upload /\ job[t] \in Job
      /\ ~job[t].deletes /\ job[t].loaded = None
  BY DEF Find, JobShape, WriteShape, TypeOK
<1>2. CASE \A b \in Upload : rows[b] = None
  <2>1. job' = [job EXCEPT ![t].build = job[t].art] /\ phase' = [phase EXCEPT ![t] = "insert"]
    BY <1>2 DEF Find
  <2> QED
    BY <1>1, <1>2, <2>1 DEF Find, TypeOK, Job
<1>3. CASE ~ \A b \in Upload : rows[b] = None
  <2>1. PICK b \in Upload : /\ rows[b] # None
                            /\ job' = [job EXCEPT ![t].build = b, ![t].loaded = rows[b]]
                            /\ phase' = [phase EXCEPT ![t] = "remove"]
    BY <1>3 DEF Find
  <2> QED
    BY <1>1, <2>1 DEF Find, TypeOK, Job
<1> QED
  BY <1>2, <1>3

LEMMA FreshInit == Init => FreshInv
  BY BuildConstants DEF Init, FreshInv, NoJob

\* An upload is new, and what Find and BeginDelete name is stored.
LEMMA FreshStep == ShapeInv /\ FreshInv /\ [Next]_vars => FreshInv'
<1> SUFFICES ASSUME ShapeInv, FreshInv, [Next]_vars PROVE FreshInv'
  OBVIOUS
<1>1. ASSUME NEW t \in Session, Fail(t) PROVE FreshInv'
  <2>1. JobShape(t) /\ WriteShape(t) /\ TypeOK
    BY DEF ShapeInv
  <2> QED
    BY <1>1, <2>1, StableRows DEF Fail, End, EndTransaction, FreshInv, JobShape, WriteShape, TypeOK, NoJob, tables, writes, histories
<1>2. ASSUME NEW t \in Session, Commit(t) PROVE FreshInv'
  <2>1. JobShape(t) /\ WriteShape(t) /\ TypeOK
    BY DEF ShapeInv
  <2> QED
    BY <1>2, <2>1, StableRows DEF Commit, End, EndTransaction, FreshInv, JobShape, WriteShape, TypeOK, NoJob, tables, writes, histories
<1>3. ASSUME NEW t \in Session, NEW a \in Upload, Spool(t, a) PROVE FreshInv'
  <2>1. JobShape(t) /\ WriteShape(t) /\ TypeOK
    BY DEF ShapeInv
  <2> QED
    BY <1>3, <2>1, StableRows DEF Spool, FreshInv, JobShape, WriteShape, TypeOK, NoJob, tables, writes, histories
<1>4. ASSUME NEW t \in Session, Find(t) PROVE FreshInv'
  <2>1. job'[t].build \in uploaded
    BY <1>4, FindFacts, StableRows DEF FreshInv
  <2>2. \A u \in Session : u # t /\ job[u].art # None => job[u].art # job'[t].build
    BY <1>4, FindFacts, StableRows DEF FreshInv
  <2>3. /\ rows' = rows /\ uploaded' = uploaded /\ job'[t].art = job[t].art
        /\ \A u \in Session : u # t => job'[u] = job[u]
    BY <1>4, FindFacts DEF tables, histories
  <2> QED
    BY <2>1, <2>2, <2>3 DEF FreshInv
<1>5. ASSUME NEW t \in Session, Insert(t) PROVE FreshInv'
  <2>1. JobShape(t) /\ WriteShape(t) /\ TypeOK
    BY DEF ShapeInv
  <2> QED
    BY <1>5, <2>1, StableRows DEF Insert, KeyHolders, KeyTaken, FreshInv, JobShape, WriteShape, TypeOK, NoJob, tables, writes, histories
<1>6. ASSUME NEW t \in Session, Remove(t) PROVE FreshInv'
  <2>1. JobShape(t) /\ WriteShape(t) /\ TypeOK
    BY DEF ShapeInv
  <2> QED
    BY <1>6, <2>1, StableRows DEF Remove, WithoutFile, FreshInv, JobShape, WriteShape, TypeOK, NoJob, tables, writes, histories
<1>7. ASSUME NEW t \in Session, RemoveFails(t) PROVE FreshInv'
  <2>1. JobShape(t) /\ WriteShape(t) /\ TypeOK
    BY DEF ShapeInv
  <2> QED
    BY <1>7, <2>1, StableRows DEF RemoveFails, FreshInv, JobShape, WriteShape, TypeOK, NoJob, tables, writes, histories
<1>8. ASSUME NEW t \in Session, Clear(t) PROVE FreshInv'
  <2>1. JobShape(t) /\ WriteShape(t) /\ TypeOK
    BY DEF ShapeInv
  <2> QED
    BY <1>8, <2>1, StableRows DEF Clear, Found, FreshInv, JobShape, WriteShape, TypeOK, NoJob, tables, writes, histories
<1>9. ASSUME NEW t \in Session, Clearing(t) PROVE FreshInv'
  <2>1. JobShape(t) /\ WriteShape(t) /\ TypeOK
    BY DEF ShapeInv
  <2> QED
    BY <1>9, <2>1, StableRows DEF Clearing, FreshInv, JobShape, WriteShape, TypeOK, NoJob, tables, writes, histories
<1>10. ASSUME NEW t \in Session, Store(t) PROVE FreshInv'
  <2>1. JobShape(t) /\ WriteShape(t) /\ TypeOK
    BY DEF ShapeInv
  <2> QED
    BY <1>10, <2>1, StableRows DEF Store, FreshInv, JobShape, WriteShape, TypeOK, NoJob, tables, writes, histories
<1>11. ASSUME NEW t \in Session, Save(t) PROVE FreshInv'
  <2>1. JobShape(t) /\ WriteShape(t) /\ TypeOK
    BY DEF ShapeInv
  <2> QED
    BY <1>11, <2>1, StableRows DEF Save, FreshInv, JobShape, WriteShape, TypeOK, NoJob, tables, writes, histories, RowHolders
<1>12. ASSUME NEW t \in Session, Index(t) PROVE FreshInv'
  <2>1. JobShape(t) /\ WriteShape(t) /\ TypeOK
    BY DEF ShapeInv
  <2> QED
    BY <1>12, <2>1, StableRows DEF Index, FreshInv, JobShape, WriteShape, TypeOK, NoJob, tables, writes, histories
<1>13. ASSUME NEW t \in Session, NEW b \in Upload, BeginDelete(t, b) PROVE FreshInv'
  <2>1. JobShape(t) /\ WriteShape(t) /\ TypeOK
    BY DEF ShapeInv
  <2> QED
    BY <1>13, <2>1, StableRows DEF BeginDelete, FreshInv, JobShape, WriteShape, TypeOK, NoJob, tables, writes, histories
<1>14. ASSUME NEW t \in Session, Erase(t) PROVE FreshInv'
  <2>1. JobShape(t) /\ WriteShape(t) /\ TypeOK
    BY DEF ShapeInv
  <2> QED
    BY <1>14, <2>1, StableRows DEF Erase, FreshInv, JobShape, WriteShape, TypeOK, NoJob, tables, writes, histories, RowHolders
<1>15. ASSUME NEW t \in Session, Cascade(t) PROVE FreshInv'
  <2>1. JobShape(t) /\ WriteShape(t) /\ TypeOK
    BY DEF ShapeInv
  <2> QED
    BY <1>15, <2>1, StableRows DEF Cascade, Cascaded, FreshInv, JobShape, WriteShape, TypeOK, NoJob, tables, writes, histories
<1>16. CASE UNCHANGED vars
  BY <1>16 DEF vars, tables, writes, histories, FreshInv
<1> QED
  BY <1>1, <1>2, <1>3, <1>4, <1>5, <1>6, <1>7, <1>8, <1>9, <1>10, <1>11, <1>12, <1>13, <1>14, <1>15, <1>16
  DEF Next, Advance, InsertConflict, SaveStale, DeadlockVictim, Abort

LEMMA RowLockInit == Init => RowLockInv
  BY BuildConstants DEF Init, RowLockInv, NoJob

\* A row is written once no other session holds it.
LEMMA RowLockStep == ShapeInv /\ FreshInv /\ RowLockInv /\ [Next]_vars => RowLockInv'
<1> SUFFICES ASSUME ShapeInv, FreshInv, RowLockInv, [Next]_vars PROVE RowLockInv'
  OBVIOUS
<1>1. ASSUME NEW t \in Session, Fail(t) PROVE RowLockInv'
  <2>1. JobShape(t) /\ WriteShape(t) /\ TypeOK
    BY DEF ShapeInv
  <2> QED
    BY <1>1, <2>1, StableRows DEF Fail, End, EndTransaction, RowLockInv, FreshInv, JobShape, WriteShape, TypeOK, NoJob, tables, writes, histories
<1>2. ASSUME NEW t \in Session, Commit(t) PROVE RowLockInv'
  <2>1. JobShape(t) /\ WriteShape(t) /\ TypeOK
    BY DEF ShapeInv
  <2> QED
    BY <1>2, <2>1, StableRows DEF Commit, End, EndTransaction, RowLockInv, FreshInv, JobShape, WriteShape, TypeOK, NoJob, tables, writes, histories
<1>3. ASSUME NEW t \in Session, NEW a \in Upload, Spool(t, a) PROVE RowLockInv'
  <2>1. JobShape(t) /\ WriteShape(t) /\ TypeOK
    BY DEF ShapeInv
  <2> QED
    BY <1>3, <2>1, StableRows DEF Spool, RowLockInv, FreshInv, JobShape, WriteShape, TypeOK, NoJob, tables, writes, histories
<1>4. ASSUME NEW t \in Session, Find(t) PROVE RowLockInv'
  <2>1. /\ rows' = rows /\ wrote' = wrote /\ wrote[t] = None
        /\ \A u \in Session : u # t => job'[u] = job[u]
    BY <1>4, FindFacts DEF tables, writes
  <2> QED
    BY <2>1 DEF RowLockInv
<1>5. ASSUME NEW t \in Session, Insert(t) PROVE RowLockInv'
  <2>1. JobShape(t) /\ WriteShape(t) /\ TypeOK
    BY DEF ShapeInv
  <2> QED
    BY <1>5, <2>1, StableRows DEF Insert, KeyHolders, KeyTaken, RowLockInv, FreshInv, JobShape, WriteShape, TypeOK, NoJob, tables, writes, histories
<1>6. ASSUME NEW t \in Session, Remove(t) PROVE RowLockInv'
  <2>1. JobShape(t) /\ WriteShape(t) /\ TypeOK
    BY DEF ShapeInv
  <2> QED
    BY <1>6, <2>1, StableRows DEF Remove, WithoutFile, RowLockInv, FreshInv, JobShape, WriteShape, TypeOK, NoJob, tables, writes, histories
<1>7. ASSUME NEW t \in Session, RemoveFails(t) PROVE RowLockInv'
  <2>1. JobShape(t) /\ WriteShape(t) /\ TypeOK
    BY DEF ShapeInv
  <2> QED
    BY <1>7, <2>1, StableRows DEF RemoveFails, RowLockInv, FreshInv, JobShape, WriteShape, TypeOK, NoJob, tables, writes, histories
<1>8. ASSUME NEW t \in Session, Clear(t) PROVE RowLockInv'
  <2>1. JobShape(t) /\ WriteShape(t) /\ TypeOK
    BY DEF ShapeInv
  <2> QED
    BY <1>8, <2>1, StableRows DEF Clear, Found, RowLockInv, FreshInv, JobShape, WriteShape, TypeOK, NoJob, tables, writes, histories
<1>9. ASSUME NEW t \in Session, Clearing(t) PROVE RowLockInv'
  <2>1. JobShape(t) /\ WriteShape(t) /\ TypeOK
    BY DEF ShapeInv
  <2> QED
    BY <1>9, <2>1, StableRows DEF Clearing, RowLockInv, FreshInv, JobShape, WriteShape, TypeOK, NoJob, tables, writes, histories
<1>10. ASSUME NEW t \in Session, Store(t) PROVE RowLockInv'
  <2>1. JobShape(t) /\ WriteShape(t) /\ TypeOK
    BY DEF ShapeInv
  <2> QED
    BY <1>10, <2>1, StableRows DEF Store, RowLockInv, FreshInv, JobShape, WriteShape, TypeOK, NoJob, tables, writes, histories
<1>11. ASSUME NEW t \in Session, Save(t) PROVE RowLockInv'
  <2>1. JobShape(t) /\ WriteShape(t) /\ TypeOK
    BY DEF ShapeInv
  <2>2. /\ rows[job[t].build] # None /\ job[t].loaded # None
        /\ \A u \in Session : u # t /\ wrote[u] # None => job[u].build # job[t].build
    BY <1>11, <2>1, StableRows DEF Save, RowHolders, Others, JobShape
  <2>3. /\ \A u \in Session : u # t => wrote'[u] = wrote[u]
        /\ rows' = rows /\ job' = job
    BY <1>11, <2>1 DEF Save, TypeOK, tables
  <2> QED
    BY <2>2, <2>3 DEF RowLockInv
<1>12. ASSUME NEW t \in Session, Index(t) PROVE RowLockInv'
  <2>1. JobShape(t) /\ WriteShape(t) /\ TypeOK
    BY DEF ShapeInv
  <2> QED
    BY <1>12, <2>1, StableRows DEF Index, RowLockInv, FreshInv, JobShape, WriteShape, TypeOK, NoJob, tables, writes, histories
<1>13. ASSUME NEW t \in Session, NEW b \in Upload, BeginDelete(t, b) PROVE RowLockInv'
  <2>1. JobShape(t) /\ WriteShape(t) /\ TypeOK
    BY DEF ShapeInv
  <2> QED
    BY <1>13, <2>1, StableRows DEF BeginDelete, RowLockInv, FreshInv, JobShape, WriteShape, TypeOK, NoJob, tables, writes, histories
<1>14. ASSUME NEW t \in Session, Erase(t) PROVE RowLockInv'
  <2>1. JobShape(t) /\ WriteShape(t) /\ TypeOK
    BY DEF ShapeInv
  <2>2. /\ job[t].loaded # None
        /\ \A u \in Session : u # t /\ wrote[u] # None => job[u].build # job[t].build
    BY <1>14, <2>1, StableRows DEF Erase, RowHolders, Others, JobShape
  <2>3. /\ \A u \in Session : u # t => wrote'[u] = wrote[u]
        /\ rows' = rows /\ job' = job
        /\ wrote'[t] # None => rows[job[t].build] # None
    BY <1>14, <2>1 DEF Erase, TypeOK, tables
  <2> QED
    BY <2>2, <2>3 DEF RowLockInv
<1>15. ASSUME NEW t \in Session, Cascade(t) PROVE RowLockInv'
  <2>1. JobShape(t) /\ WriteShape(t) /\ TypeOK
    BY DEF ShapeInv
  <2> QED
    BY <1>15, <2>1, StableRows DEF Cascade, Cascaded, RowLockInv, FreshInv, JobShape, WriteShape, TypeOK, NoJob, tables, writes, histories
<1>16. CASE UNCHANGED vars
  BY <1>16 DEF vars, tables, writes, histories, RowLockInv, FreshInv
<1> QED
  BY <1>1, <1>2, <1>3, <1>4, <1>5, <1>6, <1>7, <1>8, <1>9, <1>10, <1>11, <1>12, <1>13, <1>14, <1>15, <1>16
  DEF Next, Advance, InsertConflict, SaveStale, DeadlockVictim, Abort

LEMMA IdentityInit == Init => IdentityInv
  BY BuildConstants DEF Init, IdentityInv, OneBuildPerIdentity, NoJob

\* The unique key makes a creation wait for every other, and for a deletion.
LEMMA IdentityStep == Versioned /\ ShapeInv /\ FreshInv /\ RowLockInv /\ IdentityInv /\ [Next]_vars => IdentityInv'
<1> SUFFICES ASSUME Versioned, ShapeInv, FreshInv, RowLockInv, IdentityInv, [Next]_vars PROVE IdentityInv'
  OBVIOUS
<1>1. ASSUME NEW t \in Session, Fail(t) PROVE IdentityInv'
  <2>1. JobShape(t) /\ WriteShape(t) /\ TypeOK
    BY DEF ShapeInv
  <2> QED
    BY <1>1, <2>1, StableRows DEF Fail, End, EndTransaction, IdentityInv, OneBuildPerIdentity, RowLockInv, FreshInv, JobShape, WriteShape, TypeOK, NoJob, tables, writes, histories
<1>2. ASSUME NEW t \in Session, Commit(t) PROVE IdentityInv'
  <2>1. JobShape(t) /\ WriteShape(t) /\ TypeOK
    BY DEF ShapeInv
  <2> QED
    BY <1>2, <2>1, StableRows DEF Commit, End, EndTransaction, IdentityInv, OneBuildPerIdentity, RowLockInv, FreshInv, JobShape, WriteShape, TypeOK, NoJob, tables, writes, histories
<1>3. ASSUME NEW t \in Session, NEW a \in Upload, Spool(t, a) PROVE IdentityInv'
  <2>1. JobShape(t) /\ WriteShape(t) /\ TypeOK
    BY DEF ShapeInv
  <2> QED
    BY <1>3, <2>1, StableRows DEF Spool, IdentityInv, OneBuildPerIdentity, RowLockInv, FreshInv, JobShape, WriteShape, TypeOK, NoJob, tables, writes, histories
<1>4. ASSUME NEW t \in Session, Find(t) PROVE IdentityInv'
  <2>1. JobShape(t) /\ WriteShape(t) /\ TypeOK
    BY DEF ShapeInv
  <2> QED
    BY <1>4, <2>1, StableRows, ZenonT(60) DEF Find, IdentityInv, OneBuildPerIdentity, RowLockInv, FreshInv, JobShape, WriteShape, TypeOK, NoJob, tables, writes, histories
<1>5. ASSUME NEW t \in Session, Insert(t) PROVE IdentityInv'
  <2>1. JobShape(t) /\ WriteShape(t) /\ TypeOK
    BY DEF ShapeInv
  <2>2. \A b \in Upload : rows[b] = None
    BY <1>5 DEF Insert, KeyTaken
  <2>3. ASSUME NEW u \in Session, u # t PROVE wrote[u] = None
    <3> SUFFICES ASSUME wrote[u] # None PROVE FALSE
      OBVIOUS
    <3>1. wrote[u] # Gone /\ rows[job[u].build] # None
      BY <1>5, <2>3 DEF Insert, KeyHolders, Others
    <3>2. job[u].build \in Upload
      BY <2>3 DEF ShapeInv, JobShape, WriteShape, TypeOK, Phase
    <3> QED
      BY <3>1, <3>2, <2>2
  <2>4. /\ \A u \in Session : u # t => wrote'[u] = None
        /\ rows' = rows /\ job' = job
    BY <1>5, <2>1, <2>3 DEF Insert, TypeOK, tables
  <2> QED
    BY <2>2, <2>4 DEF IdentityInv, OneBuildPerIdentity
<1>6. ASSUME NEW t \in Session, Remove(t) PROVE IdentityInv'
  <2>1. JobShape(t) /\ WriteShape(t) /\ TypeOK
    BY DEF ShapeInv
  <2> QED
    BY <1>6, <2>1, StableRows DEF Remove, WithoutFile, IdentityInv, OneBuildPerIdentity, RowLockInv, FreshInv, JobShape, WriteShape, TypeOK, NoJob, tables, writes, histories
<1>7. ASSUME NEW t \in Session, RemoveFails(t) PROVE IdentityInv'
  <2>1. JobShape(t) /\ WriteShape(t) /\ TypeOK
    BY DEF ShapeInv
  <2> QED
    BY <1>7, <2>1, StableRows DEF RemoveFails, IdentityInv, OneBuildPerIdentity, RowLockInv, FreshInv, JobShape, WriteShape, TypeOK, NoJob, tables, writes, histories
<1>8. ASSUME NEW t \in Session, Clear(t) PROVE IdentityInv'
  <2>1. JobShape(t) /\ WriteShape(t) /\ TypeOK
    BY DEF ShapeInv
  <2> QED
    BY <1>8, <2>1, StableRows DEF Clear, Found, IdentityInv, OneBuildPerIdentity, RowLockInv, FreshInv, JobShape, WriteShape, TypeOK, NoJob, tables, writes, histories
<1>9. ASSUME NEW t \in Session, Clearing(t) PROVE IdentityInv'
  <2>1. JobShape(t) /\ WriteShape(t) /\ TypeOK
    BY DEF ShapeInv
  <2> QED
    BY <1>9, <2>1, StableRows DEF Clearing, IdentityInv, OneBuildPerIdentity, RowLockInv, FreshInv, JobShape, WriteShape, TypeOK, NoJob, tables, writes, histories
<1>10. ASSUME NEW t \in Session, Store(t) PROVE IdentityInv'
  <2>1. JobShape(t) /\ WriteShape(t) /\ TypeOK
    BY DEF ShapeInv
  <2> QED
    BY <1>10, <2>1, StableRows DEF Store, IdentityInv, OneBuildPerIdentity, RowLockInv, FreshInv, JobShape, WriteShape, TypeOK, NoJob, tables, writes, histories
<1>11. ASSUME NEW t \in Session, Save(t) PROVE IdentityInv'
  <2>1. JobShape(t) /\ WriteShape(t) /\ TypeOK
    BY DEF ShapeInv
  <2> QED
    BY <1>11, <2>1, StableRows DEF Save, IdentityInv, OneBuildPerIdentity, RowLockInv, FreshInv, JobShape, WriteShape, TypeOK, NoJob, tables, writes, histories, RowHolders
<1>12. ASSUME NEW t \in Session, Index(t) PROVE IdentityInv'
  <2>1. JobShape(t) /\ WriteShape(t) /\ TypeOK
    BY DEF ShapeInv
  <2> QED
    BY <1>12, <2>1, StableRows DEF Index, IdentityInv, OneBuildPerIdentity, RowLockInv, FreshInv, JobShape, WriteShape, TypeOK, NoJob, tables, writes, histories
<1>13. ASSUME NEW t \in Session, NEW b \in Upload, BeginDelete(t, b) PROVE IdentityInv'
  <2>1. JobShape(t) /\ WriteShape(t) /\ TypeOK
    BY DEF ShapeInv
  <2> QED
    BY <1>13, <2>1, StableRows DEF BeginDelete, IdentityInv, OneBuildPerIdentity, RowLockInv, FreshInv, JobShape, WriteShape, TypeOK, NoJob, tables, writes, histories
<1>14. ASSUME NEW t \in Session, Erase(t) PROVE IdentityInv'
  <2>1. JobShape(t) /\ WriteShape(t) /\ TypeOK
    BY DEF ShapeInv
  <2> QED
    BY <1>14, <2>1, StableRows DEF Erase, IdentityInv, OneBuildPerIdentity, RowLockInv, FreshInv, JobShape, WriteShape, TypeOK, NoJob, tables, writes, histories, RowHolders
<1>15. ASSUME NEW t \in Session, Cascade(t) PROVE IdentityInv'
  <2>1. JobShape(t) /\ WriteShape(t) /\ TypeOK
    BY DEF ShapeInv
  <2> QED
    BY <1>15, <2>1, StableRows DEF Cascade, Cascaded, IdentityInv, OneBuildPerIdentity, RowLockInv, FreshInv, JobShape, WriteShape, TypeOK, NoJob, tables, writes, histories
<1>16. CASE UNCHANGED vars
  BY <1>16 DEF vars, tables, writes, histories, IdentityInv, OneBuildPerIdentity, RowLockInv, FreshInv
<1> QED
  BY <1>1, <1>2, <1>3, <1>4, <1>5, <1>6, <1>7, <1>8, <1>9, <1>10, <1>11, <1>12, <1>13, <1>14, <1>15, <1>16
  DEF Next, Advance, InsertConflict, SaveStale, DeadlockVictim, Abort

LEMMA OrphanInit == Init => OrphanInv
  BY BuildConstants DEF Init, OrphanInv, NoOrphanSymbols, NoJob

\* No symbol is added under a deletion that holds the row.
LEMMA OrphanStep == ShapeInv /\ SymbolInv /\ FreshInv /\ RowLockInv /\ OrphanInv /\ [Next]_vars => OrphanInv'
<1> SUFFICES ASSUME ShapeInv, SymbolInv, FreshInv, RowLockInv, OrphanInv, [Next]_vars PROVE OrphanInv'
  OBVIOUS
<1>1. ASSUME NEW t \in Session, Fail(t) PROVE OrphanInv'
  <2>1. JobShape(t) /\ WriteShape(t) /\ TypeOK
    BY DEF ShapeInv
  <2> QED
    BY <1>1, <2>1, StableRows DEF Fail, End, EndTransaction, OrphanInv, NoOrphanSymbols, RowLockInv, SymbolInv, SymbolShape, Writing, JobShape, WriteShape, TypeOK, NoJob, tables, writes, histories
<1>2. ASSUME NEW t \in Session, Commit(t) PROVE OrphanInv'
  <2>1. JobShape(t) /\ WriteShape(t) /\ TypeOK
    BY DEF ShapeInv
  <2> QED
    BY <1>2, <2>1, StableRows DEF Commit, End, EndTransaction, OrphanInv, NoOrphanSymbols, RowLockInv, SymbolInv, SymbolShape, Writing, JobShape, WriteShape, TypeOK, NoJob, tables, writes, histories
<1>3. ASSUME NEW t \in Session, NEW a \in Upload, Spool(t, a) PROVE OrphanInv'
  <2>1. JobShape(t) /\ WriteShape(t) /\ TypeOK
    BY DEF ShapeInv
  <2> QED
    BY <1>3, <2>1, StableRows DEF Spool, OrphanInv, NoOrphanSymbols, RowLockInv, SymbolInv, SymbolShape, Writing, JobShape, WriteShape, TypeOK, NoJob, tables, writes, histories
<1>4. ASSUME NEW t \in Session, Find(t) PROVE OrphanInv'
  BY <1>4, FindFacts, StableRows DEF OrphanInv, NoOrphanSymbols, TypeOK, ShapeInv, tables, writes, histories
<1>5. ASSUME NEW t \in Session, Insert(t) PROVE OrphanInv'
  <2>1. JobShape(t) /\ WriteShape(t) /\ TypeOK
    BY DEF ShapeInv
  <2> QED
    BY <1>5, <2>1, StableRows DEF Insert, KeyHolders, KeyTaken, OrphanInv, NoOrphanSymbols, RowLockInv, SymbolInv, SymbolShape, Writing, JobShape, WriteShape, TypeOK, NoJob, tables, writes, histories
<1>6. ASSUME NEW t \in Session, Remove(t) PROVE OrphanInv'
  <2>1. JobShape(t) /\ WriteShape(t) /\ TypeOK
    BY DEF ShapeInv
  <2> QED
    BY <1>6, <2>1, StableRows DEF Remove, WithoutFile, OrphanInv, NoOrphanSymbols, RowLockInv, SymbolInv, SymbolShape, Writing, JobShape, WriteShape, TypeOK, NoJob, tables, writes, histories
<1>7. ASSUME NEW t \in Session, RemoveFails(t) PROVE OrphanInv'
  <2>1. JobShape(t) /\ WriteShape(t) /\ TypeOK
    BY DEF ShapeInv
  <2> QED
    BY <1>7, <2>1, StableRows DEF RemoveFails, OrphanInv, NoOrphanSymbols, RowLockInv, SymbolInv, SymbolShape, Writing, JobShape, WriteShape, TypeOK, NoJob, tables, writes, histories
<1>8. ASSUME NEW t \in Session, Clear(t) PROVE OrphanInv'
  <2>1. JobShape(t) /\ WriteShape(t) /\ TypeOK
    BY DEF ShapeInv
  <2> QED
    BY <1>8, <2>1, StableRows DEF Clear, Found, OrphanInv, NoOrphanSymbols, RowLockInv, SymbolInv, SymbolShape, Writing, JobShape, WriteShape, TypeOK, NoJob, tables, writes, histories
<1>9. ASSUME NEW t \in Session, Clearing(t) PROVE OrphanInv'
  <2>1. JobShape(t) /\ WriteShape(t) /\ TypeOK
    BY DEF ShapeInv
  <2> QED
    BY <1>9, <2>1, StableRows DEF Clearing, OrphanInv, NoOrphanSymbols, RowLockInv, SymbolInv, SymbolShape, Writing, JobShape, WriteShape, TypeOK, NoJob, tables, writes, histories
<1>10. ASSUME NEW t \in Session, Store(t) PROVE OrphanInv'
  <2>1. JobShape(t) /\ WriteShape(t) /\ TypeOK
    BY DEF ShapeInv
  <2> QED
    BY <1>10, <2>1, StableRows DEF Store, OrphanInv, NoOrphanSymbols, RowLockInv, SymbolInv, SymbolShape, Writing, JobShape, WriteShape, TypeOK, NoJob, tables, writes, histories
<1>11. ASSUME NEW t \in Session, Save(t) PROVE OrphanInv'
  <2>1. JobShape(t) /\ WriteShape(t) /\ TypeOK
    BY DEF ShapeInv
  <2> QED
    BY <1>11, <2>1, StableRows DEF Save, OrphanInv, NoOrphanSymbols, RowLockInv, SymbolInv, SymbolShape, Writing, JobShape, WriteShape, TypeOK, NoJob, tables, writes, histories, RowHolders
<1>12. ASSUME NEW t \in Session, Index(t) PROVE OrphanInv'
  <2>1. JobShape(t) /\ WriteShape(t) /\ TypeOK
    BY DEF ShapeInv
  <2>2. wrote'[t] # Gone
    <3>1. wrote'[t] \in Stable
      BY <1>12, ShapeStep, <2>1 DEF Index, ShapeInv, WriteShape, JobShape, TypeOK, Next, Advance
    <3> QED
      BY <3>1, StableRows
  <2>3. \A u \in Session : u # t => wrote'[u] = wrote[u] /\ phase'[u] = phase[u]
    BY <1>12, <2>1 DEF Index, TypeOK
  <2> QED
    BY <1>12, <2>1, <2>2, <2>3 DEF Index, OrphanInv, NoOrphanSymbols, tables
<1>13. ASSUME NEW t \in Session, NEW b \in Upload, BeginDelete(t, b) PROVE OrphanInv'
  <2>1. JobShape(t) /\ WriteShape(t) /\ TypeOK
    BY DEF ShapeInv
  <2> QED
    BY <1>13, <2>1, StableRows DEF BeginDelete, OrphanInv, NoOrphanSymbols, RowLockInv, SymbolInv, SymbolShape, Writing, JobShape, WriteShape, TypeOK, NoJob, tables, writes, histories
<1>14. ASSUME NEW t \in Session, Erase(t) PROVE OrphanInv'
  <2>1. JobShape(t) /\ WriteShape(t) /\ TypeOK
    BY DEF ShapeInv
  <2> QED
    BY <1>14, <2>1, StableRows DEF Erase, OrphanInv, NoOrphanSymbols, RowLockInv, SymbolInv, SymbolShape, Writing, JobShape, WriteShape, TypeOK, NoJob, tables, writes, histories, RowHolders
<1>15. ASSUME NEW t \in Session, Cascade(t) PROVE OrphanInv'
  <2>1. JobShape(t) /\ WriteShape(t) /\ TypeOK
    BY DEF ShapeInv
  <2> QED
    BY <1>15, <2>1, StableRows DEF Cascade, Cascaded, OrphanInv, NoOrphanSymbols, RowLockInv, SymbolInv, SymbolShape, Writing, JobShape, WriteShape, TypeOK, NoJob, tables, writes, histories
<1>16. CASE UNCHANGED vars
  BY <1>16 DEF vars, tables, writes, histories, OrphanInv, NoOrphanSymbols, RowLockInv, SymbolInv, SymbolShape, Writing
<1> QED
  BY <1>1, <1>2, <1>3, <1>4, <1>5, <1>6, <1>7, <1>8, <1>9, <1>10, <1>11, <1>12, <1>13, <1>14, <1>15, <1>16
  DEF Next, Advance, InsertConflict, SaveStale, DeadlockVictim, Abort

-----------------------------------------------------------------------------
(* Requests one after another.                                             *)

LEMMA AloneInit == Init => AloneInv
  BY DEF Init, AloneInv, AloneShape, OnlyItsSymbols, NoJob

\* A request that starts alone is alone; what it reads stays so until it commits.
LEMMA AloneStep ==
    ShapeInv /\ SymbolInv /\ FreshInv /\ OrphanInv /\ AloneInv /\ [Next]_vars => AloneInv'
<1> SUFFICES ASSUME ShapeInv, SymbolInv, FreshInv, OrphanInv, AloneInv, [Next]_vars, ~overlapped'
             PROVE  /\ \A t, u \in Session : t # u => phase'[t] = "idle" \/ phase'[u] = "idle"
                    /\ \A t \in Session : AloneShape(t)'
                    /\ OnlyItsSymbols'
  BY DEF AloneInv
<1> DEFINE Alone == /\ \A t, u \in Session : t # u => phase'[t] = "idle" \/ phase'[u] = "idle"
                    /\ \A t \in Session : AloneShape(t)'
                    /\ OnlyItsSymbols'
<1> HIDE DEF Alone
<1>0. ASSUME ~overlapped, NEW t \in Session, phase[t] # "idle",
             \A u \in Session : u # t => phase'[u] = phase[u],
             AloneShape(t)', OnlyItsSymbols'
      PROVE  Alone
  <2>1. ASSUME NEW u \in Session, u # t PROVE phase'[u] = "idle"
    BY <1>0, <2>1 DEF AloneInv
  <2>2. ASSUME NEW u \in Session, u # t PROVE AloneShape(u)'
    BY <2>1, <2>2 DEF AloneShape
  <2> QED
    BY <1>0, <2>1, <2>2 DEF Alone
<1>1. ASSUME NEW t \in Session, phase[t] # "idle", Fail(t) PROVE Alone
  <2>1. ~overlapped /\ phase'[t] = "idle" /\ \A u \in Session : u # t => phase'[u] = phase[u]
    BY <1>1 DEF Fail, End, ShapeInv, TypeOK
  <2>2. OnlyItsSymbols'
    BY <1>1, <2>1 DEF Fail, tables, AloneInv, OnlyItsSymbols
  <2> QED
    BY <1>0, <1>1, <2>1, <2>2 DEF AloneShape
<1>2. ASSUME NEW t \in Session, Commit(t) PROVE Alone
  <2> DEFINE b == job[t].build
  <2>1. /\ ~overlapped /\ phase[t] = "commit" /\ phase'[t] = "idle"
        /\ \A u \in Session : u # t => phase'[u] = phase[u]
        /\ b \in Upload /\ JobShape(t) /\ WriteShape(t) /\ SymbolShape(t) /\ AloneShape(t)
    BY <1>2 DEF Commit, End, ShapeInv, TypeOK, JobShape, SymbolInv, AloneInv, histories
  <2>2. \A c \in Upload \ {b} : rows'[c] = rows[c] /\ symbols'[c] = symbols[c]
    BY <1>2, <2>1 DEF Commit, ShapeInv, TypeOK
  <2>3. symbols'[b] = (symbols[b] \ cut[t]) \cup added[t]
    BY <1>2, <2>1 DEF Commit, ShapeInv, TypeOK
  <2>4. CASE ~job[t].deletes
    <3>1. wrote[t] \in Stable /\ wrote[t] # None /\ wrote[t] # Gone
      BY <2>1, <2>4, StableRows DEF WriteShape
    <3>2. rows'[b] = wrote[t]
      BY <1>2, <2>1, <3>1 DEF Commit, ShapeInv, TypeOK
    <3>3. wrote[t].art = job[t].art /\ added[t] \subseteq {job[t].art}
      BY <2>1, <2>4, <3>1 DEF SymbolShape, Writing
    <3>4. symbols[b] \ cut[t] = {}
      <4>1. CASE job[t].loaded = None
        <5>1. rows[b] = None
          BY <2>1, <2>4, <4>1, StableRows DEF JobShape, FreshInv
        <5> QED
          BY <2>1, <5>1 DEF OrphanInv, NoOrphanSymbols
      <4>2. CASE job[t].loaded # None
        BY <2>1, <2>4, <4>2 DEF AloneShape
      <4> QED
        BY <4>1, <4>2
    <3>5. OnlyItsSymbols'
      BY <2>1, <2>2, <2>3, <3>2, <3>3, <3>4 DEF OnlyItsSymbols, AloneInv
    <3> QED
      BY <1>0, <2>1, <3>5 DEF AloneShape
  <2>5. CASE job[t].deletes
    <3>1. rows'[b] = None \/ rows'[b] = rows[b]
      BY <1>2, <2>1, <2>5, StableRows DEF Commit, ShapeInv, TypeOK, WriteShape
    <3>2. symbols'[b] \subseteq symbols[b]
      BY <2>1, <2>3, <2>5 DEF SymbolShape
    <3>3. OnlyItsSymbols'
      BY <2>1, <2>2, <3>1, <3>2 DEF OnlyItsSymbols, AloneInv
    <3> QED
      BY <1>0, <2>1, <3>3 DEF AloneShape
  <2> QED
    BY <2>4, <2>5
<1>3. ASSUME NEW t \in Session, NEW a \in Upload, Spool(t, a) PROVE Alone
  <2>1. ~overlapped /\ (\A u \in Session : phase[u] = "idle") /\ rows' = rows /\ symbols' = symbols
    BY <1>3 DEF Spool, Starts, tables
  <2>2. /\ \A u \in Session : u # t => phase'[u] = phase[u]
        /\ phase'[t] = "find" /\ job'[t].loaded = None
    BY <1>3 DEF Spool, ShapeInv, TypeOK, NoJob
  <2> QED
    BY <2>1, <2>2 DEF Alone, AloneShape, AloneInv, OnlyItsSymbols
<1>4. ASSUME NEW t \in Session, NEW b \in Upload, BeginDelete(t, b) PROVE Alone
  <2>1. ~overlapped /\ (\A u \in Session : phase[u] = "idle") /\ rows' = rows /\ symbols' = symbols
    BY <1>4 DEF BeginDelete, Starts, tables
  <2>2. /\ \A u \in Session : u # t => phase'[u] = phase[u]
        /\ phase'[t] = "remove" /\ job'[t].loaded = rows'[job'[t].build]
    BY <1>4, <2>1 DEF BeginDelete, ShapeInv, TypeOK
  <2> QED
    BY <2>1, <2>2 DEF Alone, AloneShape, AloneInv, OnlyItsSymbols
<1>5. ASSUME NEW t \in Session, Find(t) PROVE Alone
  <2>1. /\ ~overlapped /\ rows' = rows /\ symbols' = symbols
        /\ phase[t] = "find" /\ phase'[t] \in {"insert", "remove"}
        /\ \A u \in Session : u # t => phase'[u] = phase[u]
        /\ job'[t].loaded # None => job'[t].loaded = rows'[job'[t].build]
    BY <1>5, FindFacts DEF tables, histories
  <2>2. AloneShape(t)' /\ OnlyItsSymbols'
    BY <2>1 DEF AloneShape, AloneInv, OnlyItsSymbols
  <2> QED
    BY <1>0, <2>1, <2>2
<1>6. ASSUME NEW t \in Session, Insert(t) PROVE Alone
  <2>1. /\ ~overlapped /\ phase[t] # "idle" /\ rows' = rows /\ symbols' = symbols
        /\ \A u \in Session : u # t => phase'[u] = phase[u]
        /\ JobShape(t) /\ SymbolShape(t) /\ AloneShape(t)
    BY <1>6 DEF Insert, ShapeInv, TypeOK, SymbolInv, AloneInv, tables, histories
  <2>2. AloneShape(t)'
    BY <1>6, <2>1 DEF Insert, ShapeInv, TypeOK, JobShape, SymbolShape, AloneShape, writes
  <2>3. OnlyItsSymbols'
    BY <2>1 DEF AloneInv, OnlyItsSymbols
  <2> QED
    BY <1>0, <2>1, <2>2, <2>3
<1>7. ASSUME NEW t \in Session, Remove(t) PROVE Alone
  <2>1. /\ ~overlapped /\ phase[t] # "idle" /\ rows' = rows /\ symbols' = symbols
        /\ \A u \in Session : u # t => phase'[u] = phase[u]
        /\ JobShape(t) /\ SymbolShape(t) /\ AloneShape(t)
    BY <1>7 DEF Remove, ShapeInv, TypeOK, SymbolInv, AloneInv, tables, histories
  <2>2. AloneShape(t)'
    BY <1>7, <2>1 DEF Remove, WithoutFile, ShapeInv, TypeOK, JobShape, SymbolShape, AloneShape, writes
  <2>3. OnlyItsSymbols'
    BY <2>1 DEF AloneInv, OnlyItsSymbols
  <2> QED
    BY <1>0, <2>1, <2>2, <2>3
<1>8. ASSUME NEW t \in Session, RemoveFails(t) PROVE Alone
  <2>1. /\ ~overlapped /\ phase[t] # "idle" /\ rows' = rows /\ symbols' = symbols
        /\ \A u \in Session : u # t => phase'[u] = phase[u]
        /\ JobShape(t) /\ SymbolShape(t) /\ AloneShape(t)
    BY <1>8 DEF RemoveFails, ShapeInv, TypeOK, SymbolInv, AloneInv, tables, histories
  <2>2. AloneShape(t)'
    BY <1>8, <2>1 DEF RemoveFails, ShapeInv, TypeOK, JobShape, SymbolShape, AloneShape, writes
  <2>3. OnlyItsSymbols'
    BY <2>1 DEF AloneInv, OnlyItsSymbols
  <2> QED
    BY <1>0, <2>1, <2>2, <2>3
<1>9. ASSUME NEW t \in Session, Clear(t) PROVE Alone
  <2>1. /\ ~overlapped /\ phase[t] # "idle" /\ rows' = rows /\ symbols' = symbols
        /\ \A u \in Session : u # t => phase'[u] = phase[u]
        /\ JobShape(t) /\ SymbolShape(t) /\ AloneShape(t)
    BY <1>9 DEF Clear, ShapeInv, TypeOK, SymbolInv, AloneInv, tables, histories
  <2>2. AloneShape(t)'
    BY <1>9, <2>1 DEF Clear, Found, ShapeInv, TypeOK, JobShape, SymbolShape, AloneShape, writes
  <2>3. OnlyItsSymbols'
    BY <2>1 DEF AloneInv, OnlyItsSymbols
  <2> QED
    BY <1>0, <2>1, <2>2, <2>3
<1>10. ASSUME NEW t \in Session, Clearing(t) PROVE Alone
  <2>1. /\ ~overlapped /\ phase[t] # "idle" /\ rows' = rows /\ symbols' = symbols
        /\ \A u \in Session : u # t => phase'[u] = phase[u]
        /\ JobShape(t) /\ SymbolShape(t) /\ AloneShape(t)
    BY <1>10 DEF Clearing, ShapeInv, TypeOK, SymbolInv, AloneInv, tables, histories
  <2>2. AloneShape(t)'
    BY <1>10, <2>1 DEF Clearing, ShapeInv, TypeOK, JobShape, SymbolShape, AloneShape, writes
  <2>3. OnlyItsSymbols'
    BY <2>1 DEF AloneInv, OnlyItsSymbols
  <2> QED
    BY <1>0, <2>1, <2>2, <2>3
<1>11. ASSUME NEW t \in Session, Store(t) PROVE Alone
  <2>1. /\ ~overlapped /\ phase[t] # "idle" /\ rows' = rows /\ symbols' = symbols
        /\ \A u \in Session : u # t => phase'[u] = phase[u]
        /\ JobShape(t) /\ SymbolShape(t) /\ AloneShape(t)
    BY <1>11 DEF Store, ShapeInv, TypeOK, SymbolInv, AloneInv, tables, histories
  <2>2. AloneShape(t)'
    BY <1>11, <2>1 DEF Store, ShapeInv, TypeOK, JobShape, SymbolShape, AloneShape, writes
  <2>3. OnlyItsSymbols'
    BY <2>1 DEF AloneInv, OnlyItsSymbols
  <2> QED
    BY <1>0, <2>1, <2>2, <2>3
<1>12. ASSUME NEW t \in Session, Save(t) PROVE Alone
  <2>1. /\ ~overlapped /\ phase[t] # "idle" /\ rows' = rows /\ symbols' = symbols
        /\ \A u \in Session : u # t => phase'[u] = phase[u]
        /\ JobShape(t) /\ SymbolShape(t) /\ AloneShape(t)
    BY <1>12 DEF Save, ShapeInv, TypeOK, SymbolInv, AloneInv, tables, histories
  <2>2. AloneShape(t)'
    BY <1>12, <2>1 DEF Save, ShapeInv, TypeOK, JobShape, SymbolShape, AloneShape, writes
  <2>3. OnlyItsSymbols'
    BY <2>1 DEF AloneInv, OnlyItsSymbols
  <2> QED
    BY <1>0, <2>1, <2>2, <2>3
<1>13. ASSUME NEW t \in Session, Index(t) PROVE Alone
  <2>1. /\ ~overlapped /\ phase[t] # "idle" /\ rows' = rows /\ symbols' = symbols
        /\ \A u \in Session : u # t => phase'[u] = phase[u]
        /\ JobShape(t) /\ SymbolShape(t) /\ AloneShape(t)
    BY <1>13 DEF Index, ShapeInv, TypeOK, SymbolInv, AloneInv, tables, histories
  <2>2. AloneShape(t)'
    BY <1>13, <2>1 DEF Index, ShapeInv, TypeOK, JobShape, SymbolShape, AloneShape, writes
  <2>3. OnlyItsSymbols'
    BY <2>1 DEF AloneInv, OnlyItsSymbols
  <2> QED
    BY <1>0, <2>1, <2>2, <2>3
<1>14. ASSUME NEW t \in Session, Erase(t) PROVE Alone
  <2>1. /\ ~overlapped /\ phase[t] # "idle" /\ rows' = rows /\ symbols' = symbols
        /\ \A u \in Session : u # t => phase'[u] = phase[u]
        /\ JobShape(t) /\ SymbolShape(t) /\ AloneShape(t)
    BY <1>14 DEF Erase, ShapeInv, TypeOK, SymbolInv, AloneInv, tables, histories
  <2>2. AloneShape(t)'
    BY <1>14, <2>1 DEF Erase, ShapeInv, TypeOK, JobShape, SymbolShape, AloneShape, writes
  <2>3. OnlyItsSymbols'
    BY <2>1 DEF AloneInv, OnlyItsSymbols
  <2> QED
    BY <1>0, <2>1, <2>2, <2>3
<1>15. ASSUME NEW t \in Session, Cascade(t) PROVE Alone
  <2>1. /\ ~overlapped /\ phase[t] # "idle" /\ rows' = rows /\ symbols' = symbols
        /\ \A u \in Session : u # t => phase'[u] = phase[u]
        /\ JobShape(t) /\ SymbolShape(t) /\ AloneShape(t)
    BY <1>15 DEF Cascade, ShapeInv, TypeOK, SymbolInv, AloneInv, tables, histories
  <2>2. AloneShape(t)'
    BY <1>15, <2>1 DEF Cascade, ShapeInv, TypeOK, JobShape, SymbolShape, AloneShape, writes
  <2>3. OnlyItsSymbols'
    BY <2>1 DEF AloneInv, OnlyItsSymbols
  <2> QED
    BY <1>0, <2>1, <2>2, <2>3
<1>16. ASSUME UNCHANGED vars PROVE Alone
  BY <1>16 DEF vars, tables, writes, histories, AloneInv, AloneShape, OnlyItsSymbols, Alone
<1>17. ASSUME NEW t \in Session, InsertConflict(t) \/ SaveStale(t) \/ DeadlockVictim(t) \/ Abort(t)
       PROVE  phase[t] # "idle" /\ Fail(t)
  BY <1>17 DEF InsertConflict, SaveStale, DeadlockVictim, WaitsFor, Abort
<1>18. ASSUME NEW t \in Session, Advance(t) PROVE Alone
  BY <1>18, <1>1, <1>2, <1>5, <1>6, <1>7, <1>9, <1>10, <1>11, <1>12, <1>13, <1>14, <1>15, <1>17
  DEF Advance
<1>19. ASSUME NEW t \in Session, Abort(t) PROVE Alone
  BY <1>19, <1>1, <1>17
<1>20. Alone
  BY <1>3, <1>4, <1>8, <1>16, <1>18, <1>19 DEF Next
<1> QED
  BY <1>20 DEF Alone

LEMMA VolumeInit == Init => VolumeInv
  BY DEF Init, VolumeInv, VolumeShape, Touches, Emptied, Filled, FileOf

\* The file of a replaced or deleted build is removed where its row says it is, and
\* the new one stored where the new row will say.
LEMMA VolumeStep ==
    /\ ShapeInv /\ SymbolInv /\ FreshInv /\ AloneInv /\ AloneInv' /\ VolumeInv /\ [Next]_vars
    => VolumeInv'
<1> SUFFICES ASSUME ShapeInv, SymbolInv, FreshInv, AloneInv, AloneInv', VolumeInv, [Next]_vars,
                    ~overlapped', ~failed'
             PROVE  VolumeInv'
  BY DEF VolumeInv
<1>0. ASSUME NEW t \in Session, \A u \in Session : u # t => phase'[u] = "idle",
             VolumeShape(t)',
             \A b \in Upload, s \in Suffix :
                (Touches(t)' => job'[t].build # b) => files'[b][s] = FileOf(b, s)'
      PROVE  VolumeInv'
  <2>1. ASSUME NEW u \in Session, u # t PROVE VolumeShape(u)' /\ ~Touches(u)'
    BY <1>0, <2>1 DEF VolumeShape, Touches, Emptied, Filled
  <2> QED
    BY <1>0, <2>1 DEF VolumeInv
<1>1. ASSUME ~overlapped, ~failed, NEW t \in Session, phase[t] # "idle"
      PROVE  /\ \A u \in Session : u # t => phase[u] = "idle"
             /\ VolumeShape(t)
             /\ \A b \in Upload, s \in Suffix :
                   (Touches(t) => job[t].build # b) => files[b][s] = FileOf(b, s)
  <2>1. \A u \in Session : u # t => phase[u] = "idle"
    BY <1>1 DEF AloneInv
  <2>2. \A u \in Session : u # t => ~Touches(u)
    BY <2>1 DEF Touches, Emptied, Filled
  <2> QED
    BY <1>1, <2>1, <2>2 DEF VolumeInv
<1>2. ASSUME NEW t \in Session, Fail(t) \/ RemoveFails(t) PROVE FALSE
  BY <1>2 DEF Fail, RemoveFails
<1>3. ASSUME NEW t \in Session, NEW a \in Upload, Spool(t, a) PROVE VolumeInv'
  <2>1. ~overlapped /\ ~failed /\ (\A u \in Session : phase[u] = "idle") /\ rows' = rows /\ files' = files
    BY <1>3 DEF Spool, Starts, tables
  <2>2. \A u \in Session : phase'[u] \in {"idle", "find"}
    BY <1>3, <2>1 DEF Spool, ShapeInv, TypeOK
  <2> QED
    BY <2>1, <2>2 DEF VolumeInv, VolumeShape, Touches, Emptied, Filled, FileOf
<1>4. ASSUME NEW t \in Session, NEW b \in Upload, BeginDelete(t, b) PROVE VolumeInv'
  <2>1. ~overlapped /\ ~failed /\ (\A u \in Session : phase[u] = "idle") /\ rows' = rows /\ files' = files
    BY <1>4 DEF BeginDelete, Starts, tables
  <2>2. \A u \in Session : phase'[u] \in {"idle", "remove"}
    BY <1>4, <2>1 DEF BeginDelete, ShapeInv, TypeOK
  <2> QED
    BY <2>1, <2>2 DEF VolumeInv, VolumeShape, Touches, Emptied, Filled, FileOf
<1>5. ASSUME NEW t \in Session, Find(t) PROVE VolumeInv'
  <2>1. /\ ~overlapped /\ ~failed /\ phase[t] # "idle"
        /\ \A u \in Session : u # t => phase'[u] = phase[u]
        /\ JobShape(t) /\ WriteShape(t) /\ SymbolShape(t)
    BY <1>5, FindFacts DEF Find, ShapeInv, TypeOK, SymbolInv, histories
  <2>2. /\ VolumeShape(t) /\ AloneShape(t)
        /\ \A u \in Session : u # t => phase'[u] = "idle"
    BY <1>1, <2>1 DEF AloneInv
  <2>3. VolumeShape(t)'
    BY <1>5, FindFacts DEF VolumeShape, Emptied, Filled
  <2>4. ASSUME NEW b \in Upload, NEW s \in Suffix
        PROVE  files'[b][s] = FileOf(b, s)'
    BY <1>5, <1>1, <2>1, FindFacts DEF Touches, Emptied, Filled, FileOf, tables
  <2> QED
    BY <1>0, <2>2, <2>3, <2>4
<1>6. ASSUME NEW t \in Session, Insert(t) PROVE VolumeInv'
  <2>1. /\ ~overlapped /\ ~failed /\ phase[t] # "idle"
        /\ \A u \in Session : u # t => phase'[u] = phase[u]
        /\ JobShape(t) /\ WriteShape(t) /\ SymbolShape(t)
    BY <1>6 DEF Insert, ShapeInv, TypeOK, SymbolInv, histories
  <2>2. /\ VolumeShape(t) /\ AloneShape(t)
        /\ \A u \in Session : u # t => phase'[u] = "idle"
    BY <1>1, <2>1 DEF AloneInv
  <2>3. VolumeShape(t)'
    <3>1. /\ phase[t] = "insert" /\ phase'[t] = "store" /\ job' = job /\ files' = files
          /\ job[t].build \in Upload /\ rows[job[t].build] = None
      BY <1>6, <2>1, StableRows DEF Insert, JobShape, FreshInv, ShapeInv, TypeOK
    <3> QED
      BY <1>1, <2>1, <3>1 DEF VolumeShape, Touches, Emptied, Filled, FileOf
  <2>4. ASSUME NEW b \in Upload, NEW s \in Suffix
        PROVE  files'[b][s] = FileOf(b, s)'
    BY <1>6, <1>1, <2>1 DEF Insert, Touches, Emptied, Filled, FileOf, tables
  <2> QED
    BY <1>0, <2>2, <2>3, <2>4
<1>7. ASSUME NEW t \in Session, Remove(t) PROVE VolumeInv'
  <2>1. /\ ~overlapped /\ ~failed /\ phase[t] # "idle"
        /\ \A u \in Session : u # t => phase'[u] = phase[u]
        /\ JobShape(t) /\ WriteShape(t) /\ SymbolShape(t)
    BY <1>7 DEF Remove, ShapeInv, TypeOK, SymbolInv, histories
  <2>2. /\ VolumeShape(t) /\ AloneShape(t)
        /\ \A u \in Session : u # t => phase'[u] = "idle"
    BY <1>1, <2>1 DEF AloneInv
  <2>3. VolumeShape(t)'
    <3> DEFINE b == job[t].build
    <3>1. /\ phase[t] = "remove" /\ phase'[t] \in {"erase", "clear"} /\ job' = job
          /\ b \in Upload /\ rows[b] = job[t].loaded /\ rows[b] # None
      BY <1>7, <2>1, <2>2, StableRows DEF Remove, JobShape, AloneShape, ShapeInv, TypeOK
    <3>2. files' = [files EXCEPT ![b][rows[b].suffix] = None]
      BY <1>7, <3>1 DEF Remove, WithoutFile
    <3>3. \A s \in Suffix : files[b][s] = FileOf(b, s)
      BY <1>1, <2>1, <3>1 DEF Touches, Emptied, Filled
    <3>4. \A s \in Suffix : files'[b][s] = None
      BY <3>1, <3>3, <3>2 DEF FileOf, ShapeInv, TypeOK
    <3> QED
      BY <3>1, <3>4 DEF VolumeShape, Emptied, Filled
  <2>4. ASSUME NEW b \in Upload, NEW s \in Suffix, Touches(t)' => job'[t].build # b
        PROVE  files'[b][s] = FileOf(b, s)'
    BY <1>7, <1>1, <2>1, <2>4 DEF Remove, WithoutFile, Touches, Emptied, Filled, FileOf, JobShape, ShapeInv, TypeOK, tables
  <2> QED
    BY <1>0, <2>2, <2>3, <2>4
<1>8. ASSUME NEW t \in Session, Clear(t) PROVE VolumeInv'
  <2>1. /\ ~overlapped /\ ~failed /\ phase[t] # "idle"
        /\ \A u \in Session : u # t => phase'[u] = phase[u]
        /\ JobShape(t) /\ WriteShape(t) /\ SymbolShape(t)
    BY <1>8 DEF Clear, ShapeInv, TypeOK, SymbolInv, histories
  <2>2. /\ VolumeShape(t) /\ AloneShape(t)
        /\ \A u \in Session : u # t => phase'[u] = "idle"
    BY <1>1, <2>1 DEF AloneInv
  <2>3. VolumeShape(t)'
    BY <1>8, <2>1, <2>2, StableRows, BuildConstants DEF Clear, Found, VolumeShape, AloneShape, Emptied, Filled, JobShape, WriteShape, ShapeInv, TypeOK, writes
  <2>4. ASSUME NEW b \in Upload, NEW s \in Suffix, Touches(t)' => job'[t].build # b
        PROVE  files'[b][s] = FileOf(b, s)'
    BY <1>8, <1>1, <2>1, <2>4, SMTT(30) DEF Clear, Found, Touches, Emptied, Filled, FileOf, JobShape, ShapeInv, TypeOK, tables
  <2> QED
    BY <1>0, <2>2, <2>3, <2>4
<1>9. ASSUME NEW t \in Session, Clearing(t) PROVE VolumeInv'
  <2>1. /\ ~overlapped /\ ~failed /\ phase[t] # "idle"
        /\ \A u \in Session : u # t => phase'[u] = phase[u]
        /\ JobShape(t) /\ WriteShape(t) /\ SymbolShape(t)
    BY <1>9 DEF Clearing, ShapeInv, TypeOK, SymbolInv, histories
  <2>2. /\ VolumeShape(t) /\ AloneShape(t)
        /\ \A u \in Session : u # t => phase'[u] = "idle"
    BY <1>1, <2>1 DEF AloneInv
  <2>3. VolumeShape(t)'
    BY <1>9, <2>1, <2>2, StableRows, BuildConstants DEF Clearing, VolumeShape, AloneShape, Emptied, Filled, JobShape, WriteShape, ShapeInv, TypeOK, writes
  <2>4. ASSUME NEW b \in Upload, NEW s \in Suffix, Touches(t)' => job'[t].build # b
        PROVE  files'[b][s] = FileOf(b, s)'
    BY <1>9, <1>1, <2>1, <2>4 DEF Clearing, Touches, Emptied, Filled, FileOf, JobShape, ShapeInv, TypeOK, tables
  <2> QED
    BY <1>0, <2>2, <2>3, <2>4
<1>10. ASSUME NEW t \in Session, Store(t) PROVE VolumeInv'
  <2>1. /\ ~overlapped /\ ~failed /\ phase[t] # "idle"
        /\ \A u \in Session : u # t => phase'[u] = phase[u]
        /\ JobShape(t) /\ WriteShape(t) /\ SymbolShape(t)
    BY <1>10 DEF Store, ShapeInv, TypeOK, SymbolInv, histories
  <2>2. /\ VolumeShape(t) /\ AloneShape(t)
        /\ \A u \in Session : u # t => phase'[u] = "idle"
    BY <1>1, <2>1 DEF AloneInv
  <2>3. VolumeShape(t)'
    BY <1>10, <2>1, <2>2, StableRows, BuildConstants DEF Store, VolumeShape, AloneShape, Emptied, Filled, JobShape, WriteShape, ShapeInv, TypeOK, writes
  <2>4. ASSUME NEW b \in Upload, NEW s \in Suffix, Touches(t)' => job'[t].build # b
        PROVE  files'[b][s] = FileOf(b, s)'
    BY <1>10, <1>1, <2>1, <2>4 DEF Store, Touches, Emptied, Filled, FileOf, JobShape, ShapeInv, TypeOK, tables
  <2> QED
    BY <1>0, <2>2, <2>3, <2>4
<1>11. ASSUME NEW t \in Session, Save(t) PROVE VolumeInv'
  <2>1. /\ ~overlapped /\ ~failed /\ phase[t] # "idle"
        /\ \A u \in Session : u # t => phase'[u] = phase[u]
        /\ JobShape(t) /\ WriteShape(t) /\ SymbolShape(t)
    BY <1>11 DEF Save, ShapeInv, TypeOK, SymbolInv, histories
  <2>2. /\ VolumeShape(t) /\ AloneShape(t)
        /\ \A u \in Session : u # t => phase'[u] = "idle"
    BY <1>1, <2>1 DEF AloneInv
  <2>3. VolumeShape(t)'
    <3>1. /\ phase[t] = "save" /\ phase'[t] = "index" /\ job' = job /\ files' = files
          /\ rows[job[t].build] = job[t].loaded
          /\ wrote'[t].suffix = SavedSuffix(t, job[t].art)
      BY <1>11, <2>1, <2>2, StableRows DEF Save, JobShape, AloneShape, ShapeInv, TypeOK
    <3>2. SavedSuffix(t, job[t].art) = SuffixOf[job[t].art]
      BY <3>1 DEF SavedSuffix
    <3> QED
      BY <2>2, <3>1, <3>2 DEF VolumeShape, Emptied, Filled
  <2>4. ASSUME NEW b \in Upload, NEW s \in Suffix, Touches(t)' => job'[t].build # b
        PROVE  files'[b][s] = FileOf(b, s)'
    BY <1>11, <1>1, <2>1, <2>4 DEF Save, Touches, Emptied, Filled, FileOf, ShapeInv, TypeOK, tables
  <2> QED
    BY <1>0, <2>2, <2>3, <2>4
<1>12. ASSUME NEW t \in Session, Index(t) PROVE VolumeInv'
  <2>1. /\ ~overlapped /\ ~failed /\ phase[t] # "idle"
        /\ \A u \in Session : u # t => phase'[u] = phase[u]
        /\ JobShape(t) /\ WriteShape(t) /\ SymbolShape(t)
    BY <1>12 DEF Index, ShapeInv, TypeOK, SymbolInv, histories
  <2>2. /\ VolumeShape(t) /\ AloneShape(t)
        /\ \A u \in Session : u # t => phase'[u] = "idle"
    BY <1>1, <2>1 DEF AloneInv
  <2>3. VolumeShape(t)'
    <3>1. /\ phase[t] = "index" /\ phase'[t] = "commit" /\ job' = job /\ files' = files
          /\ ~job[t].deletes /\ wrote[t] \in Row
          /\ wrote'[t] = [wrote[t] EXCEPT !.suffix = PathOf(t), !.status = StatusOf(job[t].art)]
      BY <1>12, <2>1 DEF Index, JobShape, WriteShape, ShapeInv, TypeOK
    <3>2. wrote'[t].suffix = PathOf(t)
      BY <3>1 DEF Row
    <3>3. PathOf(t) = SuffixOf[job[t].art]
      BY <2>2, <3>1 DEF PathOf, VolumeShape
    <3> QED
      BY <2>2, <3>1, <3>2, <3>3 DEF VolumeShape, Emptied, Filled
  <2>4. ASSUME NEW b \in Upload, NEW s \in Suffix, Touches(t)' => job'[t].build # b
        PROVE  files'[b][s] = FileOf(b, s)'
    BY <1>12, <1>1, <2>1, <2>4, SMTT(30) DEF Index, Touches, Emptied, Filled, FileOf, JobShape, ShapeInv, TypeOK, tables
  <2> QED
    BY <1>0, <2>2, <2>3, <2>4
<1>13. ASSUME NEW t \in Session, Erase(t) PROVE VolumeInv'
  <2>1. /\ ~overlapped /\ ~failed /\ phase[t] # "idle"
        /\ \A u \in Session : u # t => phase'[u] = phase[u]
        /\ JobShape(t) /\ WriteShape(t) /\ SymbolShape(t)
    BY <1>13 DEF Erase, ShapeInv, TypeOK, SymbolInv, histories
  <2>2. /\ VolumeShape(t) /\ AloneShape(t)
        /\ \A u \in Session : u # t => phase'[u] = "idle"
    BY <1>1, <2>1 DEF AloneInv
  <2>3. VolumeShape(t)'
    BY <1>13, <2>1, <2>2, StableRows, BuildConstants DEF Erase, VolumeShape, AloneShape, Emptied, Filled, JobShape, WriteShape, ShapeInv, TypeOK, writes
  <2>4. ASSUME NEW b \in Upload, NEW s \in Suffix, Touches(t)' => job'[t].build # b
        PROVE  files'[b][s] = FileOf(b, s)'
    BY <1>13, <1>1, <2>1, <2>4, SMTT(30) DEF Erase, Touches, Emptied, Filled, FileOf, JobShape, ShapeInv, TypeOK, tables
  <2> QED
    BY <1>0, <2>2, <2>3, <2>4
<1>14. ASSUME NEW t \in Session, Cascade(t) PROVE VolumeInv'
  <2>1. /\ ~overlapped /\ ~failed /\ phase[t] # "idle"
        /\ \A u \in Session : u # t => phase'[u] = phase[u]
        /\ JobShape(t) /\ WriteShape(t) /\ SymbolShape(t)
    BY <1>14 DEF Cascade, ShapeInv, TypeOK, SymbolInv, histories
  <2>2. /\ VolumeShape(t) /\ AloneShape(t)
        /\ \A u \in Session : u # t => phase'[u] = "idle"
    BY <1>1, <2>1 DEF AloneInv
  <2>3. VolumeShape(t)'
    BY <1>14, <2>1, <2>2, StableRows, BuildConstants DEF Cascade, Cascaded, VolumeShape, AloneShape, Emptied, Filled, JobShape, WriteShape, ShapeInv, TypeOK, writes
  <2>4. ASSUME NEW b \in Upload, NEW s \in Suffix, Touches(t)' => job'[t].build # b
        PROVE  files'[b][s] = FileOf(b, s)'
    <3>1. /\ UNCHANGED <<rows, files, job>>
          /\ phase[t] = "cascade" /\ phase' = [phase EXCEPT ![t] = "commit"]
      BY <1>14 DEF Cascade, tables
    <3>2. phase'[t] = "commit"
      BY <3>1 DEF ShapeInv, TypeOK
    <3>3. Touches(t)' /\ Touches(t)
      BY <3>1, <3>2 DEF Touches, Emptied, Filled
    <3>4. job[t].build # b
      BY <2>4, <3>1, <3>3
    <3>5. files[b][s] = FileOf(b, s)
      BY <1>1, <2>1, <3>4
    <3> QED
      BY <3>1, <3>5 DEF FileOf
  <2> QED
    BY <1>0, <2>2, <2>3, <2>4
<1>15. ASSUME NEW t \in Session, Commit(t) PROVE VolumeInv'
  <2>1. /\ ~overlapped /\ ~failed /\ phase[t] # "idle"
        /\ \A u \in Session : u # t => phase'[u] = phase[u]
        /\ JobShape(t) /\ WriteShape(t) /\ SymbolShape(t)
    BY <1>15 DEF Commit, End, ShapeInv, TypeOK, SymbolInv, histories
  <2>2. /\ VolumeShape(t) /\ AloneShape(t)
        /\ \A u \in Session : u # t => phase'[u] = "idle"
    BY <1>1, <2>1 DEF AloneInv
  <2>3. VolumeShape(t)' /\ ~Touches(t)'
    BY <1>15 DEF Commit, End, VolumeShape, Touches, Emptied, Filled, ShapeInv, TypeOK
  <2>4. ASSUME NEW b \in Upload, NEW s \in Suffix
        PROVE  files'[b][s] = FileOf(b, s)'
    <3>1. phase[t] = "commit" /\ job[t].build \in Upload /\ files' = files
      BY <1>15, <2>1 DEF Commit, JobShape
    <3>2. CASE b # job[t].build
      <4>1. rows'[b] = rows[b]
        BY <1>15, <3>1, <3>2 DEF Commit, ShapeInv, TypeOK
      <4> QED
        BY <1>1, <2>1, <3>1, <3>2, <4>1 DEF FileOf
    <3>3. CASE b = job[t].build /\ job[t].deletes
      <4>1. wrote[t] = Gone /\ files[b][s] = None
        BY <2>2, <3>1, <3>3 DEF VolumeShape, Emptied
      <4>2. rows'[b] = None
        BY <1>15, <3>1, <3>3, <4>1, StableRows DEF Commit, ShapeInv, TypeOK
      <4> QED
        BY <3>1, <4>1, <4>2 DEF FileOf
    <3>4. CASE b = job[t].build /\ ~job[t].deletes
      <4>1. wrote[t] \in Stable /\ wrote[t] # None /\ wrote[t] # Gone
        BY <2>1, <3>1, <3>4, StableRows DEF WriteShape
      <4>2. rows'[b] = wrote[t]
        BY <1>15, <3>1, <3>4, <4>1 DEF Commit, ShapeInv, TypeOK
      <4>3. wrote[t].art = job[t].art /\ wrote[t].suffix = SuffixOf[job[t].art]
        BY <2>1, <2>2, <3>1, <3>4, <4>1 DEF SymbolShape, Writing, VolumeShape
      <4>4. files[b][s] = IF s = SuffixOf[job[t].art] THEN job[t].art ELSE None
        BY <2>2, <3>1, <3>4 DEF VolumeShape, Filled
      <4> QED
        BY <3>1, <4>1, <4>2, <4>3, <4>4 DEF FileOf
    <3> QED
      BY <3>2, <3>3, <3>4
  <2> QED
    BY <1>0, <2>2, <2>3, <2>4
<1>16. ASSUME UNCHANGED vars PROVE VolumeInv'
  BY <1>16 DEF vars, tables, writes, histories, VolumeInv, VolumeShape, Touches, Emptied, Filled, FileOf
<1>17. ASSUME NEW t \in Session, Advance(t) PROVE VolumeInv'
  BY <1>17, <1>2, <1>5, <1>6, <1>7, <1>8, <1>9, <1>10, <1>11, <1>12, <1>13, <1>14, <1>15
  DEF Advance, InsertConflict, SaveStale, DeadlockVictim
<1> QED
  BY <1>2, <1>3, <1>4, <1>16, <1>17 DEF Next, Abort

-----------------------------------------------------------------------------
(* The theorems.                                                           *)

\* Every state is well formed: a committed row is never half indexed and names its
\* file, and nobody's memory or undecided write is out of shape.
THEOREM TypeCorrect == Spec => []TypeOK
<1>1. ShapeInv => TypeOK
  BY DEF ShapeInv
<1> QED
  BY <1>1, ShapeInit, ShapeStep, PTL DEF Spec

LEMMA SymbolInit == Init => SymbolInv
  BY DEF Init, SymbolInv, SymbolShape, Writing, UsableHasItsSymbols

\* What ties the tables together, whatever requests do side by side.
SharedInv == ShapeInv /\ SymbolInv /\ FreshInv /\ RowLockInv /\ OrphanInv

LEMMA SharedAlways == Spec => []SharedInv
<1>1. Init => SharedInv
  BY ShapeInit, SymbolInit, FreshInit, RowLockInit, OrphanInit DEF SharedInv
<1>2. SharedInv /\ [Next]_vars => SharedInv'
  BY ShapeStep, SymbolStep, FreshStep, RowLockStep, OrphanStep DEF SharedInv
<1> QED
  BY <1>1, <1>2, PTL DEF Spec

\* A build that find_for_crash may choose has the symbols of the artifact its row
\* names, whoever replaced it and whatever failed.
THEOREM UsableBuildsResolve == Spec => []UsableHasItsSymbols
<1>1. SharedInv => UsableHasItsSymbols
  BY DEF SharedInv, SymbolInv
<1> QED
  BY <1>1, SharedAlways, PTL

\* No symbols without a build, also when a deletion waits for a replacement.
THEOREM SymbolsGoWithTheirBuild == Spec => []NoOrphanSymbols
<1>1. SharedInv => NoOrphanSymbols
  BY DEF SharedInv, OrphanInv
<1> QED
  BY <1>1, SharedAlways, PTL

\* Where the identity has a version the unique key keeps it to one build, however
\* many uploads find none.
THEOREM OneBuildStays == ASSUME Versioned PROVE Spec => []OneBuildPerIdentity
<1>1. Init => IdentityInv
  BY IdentityInit
<1>2. SharedInv /\ IdentityInv /\ [Next]_vars => IdentityInv'
  BY IdentityStep DEF SharedInv
<1>3. IdentityInv => OneBuildPerIdentity
  BY DEF IdentityInv
<1> QED
  BY <1>1, <1>2, <1>3, SharedAlways, PTL DEF Spec

\* Requests that come one after another leave a build the symbols of its own
\* artifact only, whatever failed on the way.
THEOREM AloneSymbolsExact == Spec => []AloneOnlyItsSymbols
<1>1. Init => AloneInv
  BY AloneInit
<1>2. SharedInv /\ AloneInv /\ [Next]_vars => AloneInv'
  BY AloneStep DEF SharedInv
<1>3. AloneInv => AloneOnlyItsSymbols
  BY DEF AloneInv, AloneOnlyItsSymbols
<1> QED
  BY <1>1, <1>2, <1>3, SharedAlways, PTL DEF Spec

\* And, while none fails, between two requests the volume holds the files of the
\* rows and no other.
THEOREM AloneFilesExact == Spec => []AloneVolumeExact
<1>1. Init => AloneInv /\ VolumeInv
  BY AloneInit, VolumeInit
<1>2. SharedInv /\ AloneInv /\ VolumeInv /\ [Next]_vars => AloneInv' /\ VolumeInv'
  BY AloneStep, VolumeStep DEF SharedInv
<1>3. VolumeInv => AloneVolumeExact
  BY DEF VolumeInv, AloneVolumeExact, Touches, Emptied, Filled, FileOf
<1> QED
  BY <1>1, <1>2, <1>3, SharedAlways, PTL DEF Spec
=============================================================================
