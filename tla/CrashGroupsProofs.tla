------------------------- MODULE CrashGroupsProofs -------------------------
(***************************************************************************)
(* Theorems about CrashGroups, for any number of sessions, reports, groups *)
(* and builds.                                                             *)
(***************************************************************************)
EXTENDS CrashGroups, FiniteSetTheorems, TLAPS

Working == {"lookup", "insert", "touch", "move", "flushPrevious", "bump", "file", "tally"}
Grouped == {"touch", "move", "flushPrevious", "bump", "file", "tally"}

\* What a session has in memory in each phase.
SessionShape(t) ==
    /\ phase[t] = "idle" =>
          /\ job[t] = NoJob
          /\ objR[t] = NoReports
          /\ objG[t] = NoGroups
          /\ wR[t] = NoReports
          /\ wG[t] = NoGroups
    /\ \A r \in job[t].todo : objR[t][r] # None
    /\ phase[t] \in Working =>
          /\ job[t].cur \in Report
          /\ job[t].target \in Sig
          /\ objR[t][job[t].cur] # None
    /\ phase[t] \in Grouped => objG[t][job[t].target] # None
    /\ phase[t] \in {"move", "flushPrevious"} =>
          job[t].prev \in Sig /\ job[t].prev # job[t].target
    /\ phase[t] = "flushPrevious" => objG[t][job[t].prev] # None

\* A session names only groups it can see.
SessionKnows(t) ==
    /\ \A s \in Sig : objG[t][s] # None => ViewG(t, s) # None
    /\ \A r \in Report :
          objR[t][r] # None /\ objR[t][r].group # None => ViewG(t, objR[t][r].group) # None
    /\ \A r \in Report :
          wR[t][r] # None /\ wR[t][r].group # None => ViewG(t, wR[t][r].group) # None
    /\ job[t].prev # None => ViewG(t, job[t].prev) # None

\* A committed report, and an engineer's PATCH, name a committed group.
GroupsKnown ==
    /\ \A r \in Report : reports[r] # None /\ reports[r].group # None
          => groups[reports[r].group] # None
    /\ triage # None => groups[triage.group] # None

ShapeInv ==
    /\ TypeOK
    /\ GroupsKnown
    /\ \A t \in Session : SessionShape(t) /\ SessionKnows(t)

-----------------------------------------------------------------------------
(* Types of the helpers.                                                   *)

\* A set of reports is finite, and so are its devices.
LEMMA DevicesFinite ==
    ASSUME NEW R \in SUBSET Report
    PROVE  IsFiniteSet(R) /\ IsFiniteSet(DevicesOf(R))
<1>1. IsFiniteSet(R)
  BY FS_Subset, ConstantsAssumption
<1> DEFINE f == [r \in R |-> DeviceOf[r]]
<1>2. f \in Surjection(R, DevicesOf(R))
  BY DEF Surjection, DevicesOf
<1> QED
  BY <1>1, <1>2, FS_Surjection

\* A recount yields a group row: cardinalities of finite sets are numbers.
LEMMA RecountedType ==
    ASSUME NEW row \in GroupRow, NEW R \in SUBSET Report,
           NEW lo \in FirstSeen(R, row.first), NEW hi \in LastSeen(R, row.last)
    PROVE  Recounted(row, R, lo, hi) \in GroupRow
<1>1. Cardinality(R) \in Int /\ Cardinality(DevicesOf(R)) \in Int
  BY DevicesFinite, FS_CardinalityType
<1>2. {FirmwareOf[r] : r \in R} \in SUBSET Firmware
  BY ConstantsAssumption
<1>3. lo \in Nat /\ hi \in Nat
  BY ConstantsAssumption DEF FirstSeen, LastSeen, GroupRow
<1> QED
  BY <1>1, <1>2, <1>3 DEF Recounted, GroupRow

LEMMA BumpedType ==
    ASSUME NEW t \in Session, NEW row \in GroupRow,
           job[t].cur \in Report, objR[t][job[t].cur] \in ReportRow
    PROVE  Bumped(t, row) \in GroupRow
<1>1. /\ OccurredAt[job[t].cur] \in Nat
      /\ FirmwareOf[job[t].cur] \in Firmware
      /\ objR[t][job[t].cur].severity \in Severity
  BY ConstantsAssumption DEF ReportRow
<1> DEFINE c == [row EXCEPT !.count = IF AlreadyCounted(t) THEN @ ELSE @ + 1]
           w == WidenWindow(c, OccurredAt[job[t].cur])
           e == EscalateSeverity(w, objR[t][job[t].cur].severity)
           v == RecordFirmwareVersion(e, FirmwareOf[job[t].cur])
<1>2. c \in GroupRow
  <2>1. row.count \in Int /\ row.count + 1 \in Int
    BY DEF GroupRow
  <2>2. (IF AlreadyCounted(t) THEN row.count ELSE row.count + 1) \in Int
    BY <2>1
  <2> QED
    BY <2>2 DEF GroupRow
<1>3. w \in GroupRow
  BY <1>1, <1>2 DEF GroupRow, WidenWindow
<1>4. e \in GroupRow
  BY <1>1, <1>3 DEF GroupRow, EscalateSeverity
<1>5. v \in GroupRow
  BY <1>1, <1>4 DEF GroupRow, RecordFirmwareVersion
<1>6. MaybeRegress(t, v) \in GroupRow
  BY <1>5 DEF GroupRow, MaybeRegress, Regressed, GroupStatus
<1> QED
  BY <1>6 DEF Bumped

LEMMA FlushedGroupType ==
    ASSUME NEW row \in GroupRow, NEW obj \in [was : GroupRow, now : GroupRow]
    PROVE  FlushedGroup(obj, row) \in GroupRow
  BY DEF FlushedGroup, GroupRow, Col

LEMMA FlushedReportType ==
    ASSUME NEW row \in ReportRow, NEW obj \in ReportRow,
           NEW s \in Sig \cup {None}, NEW g \in Sig \cup {None}
    PROVE  /\ FlushedReport(row, obj, s, g) \in ReportRow
           /\ [obj EXCEPT !.sig = s, !.group = g] \in ReportRow
  BY DEF FlushedReport, ReportRow, Col

\* flush() of a group object: its row, and the object, stay with the session.
LEMMA FlushGroupFacts ==
    ASSUME TypeOK, NEW t \in Session, NEW s \in Sig, ViewG(t, s) # None,
           NEW obj \in [was : GroupRow, now : GroupRow], FlushGroup(t, s, obj)
    PROVE  /\ wG' \in [Session -> [Sig -> GroupRow \cup {None}]]
           /\ objG' \in [Session -> [Sig -> [was : GroupRow, now : GroupRow] \cup {None}]]
           /\ objG'[t][s] # None
           /\ \A q \in Sig : q # s => objG'[t][q] = objG[t][q]
           /\ \A q \in Sig : wG[t][q] # None => wG'[t][q] # None
           /\ \A u \in Session : u # t => wG'[u] = wG[u] /\ objG'[u] = objG[u]
<1>1. ViewG(t, s) \in GroupRow
  BY DEF TypeOK, ViewG
<1>2. FlushedGroup(obj, ViewG(t, s)) \in GroupRow
  BY <1>1, FlushedGroupType
<1>3. Loaded(obj.now) \in [was : GroupRow, now : GroupRow]
  BY DEF Loaded
<1>4. CASE Dirty(obj)
  <2>1. /\ wG' = [wG EXCEPT ![t][s] = FlushedGroup(obj, ViewG(t, s))]
        /\ objG' = [objG EXCEPT ![t][s] = Loaded(obj.now)]
    BY <1>4 DEF FlushGroup
  <2> QED
    BY <1>2, <1>3, <2>1, NoneAssumption DEF TypeOK
<1>5. CASE ~Dirty(obj)
  <2>1. wG' = wG /\ objG' = [objG EXCEPT ![t][s] = obj]
    BY <1>5 DEF FlushGroup
  <2> QED
    BY <2>1, NoneAssumption DEF TypeOK
<1> QED
  BY <1>4, <1>5

\* flush() of a report object: likewise, and the row names the group it named
\* before or the new one.
LEMMA FlushReportFacts ==
    ASSUME TypeOK, NEW t \in Session, NEW r \in Report, objR[t][r] # None,
           NEW s \in Sig \cup {None}, NEW g \in Sig \cup {None}, FlushReport(t, r, s, g)
    PROVE  /\ wR' \in [Session -> [Report -> ReportRow \cup {None}]]
           /\ objR' \in [Session -> [Report -> ReportRow \cup {None}]]
           /\ objR'[t][r] \in ReportRow
           /\ objR'[t][r].sig = s /\ objR'[t][r].group = g
           /\ wR'[t][r] = FlushedReport(ViewR(t, r), objR[t][r], s, g)
           /\ wR'[t][r] \in ReportRow
           /\ \A q \in Report : q # r => wR'[t][q] = wR[t][q] /\ objR'[t][q] = objR[t][q]
           /\ \A u \in Session : u # t => wR'[u] = wR[u] /\ objR'[u] = objR[u]
<1>1. ViewR(t, r) \in ReportRow /\ objR[t][r] \in ReportRow
  BY DEF TypeOK, ViewR, FlushReport
<1>2. /\ FlushedReport(ViewR(t, r), objR[t][r], s, g) \in ReportRow
      /\ [objR[t][r] EXCEPT !.sig = s, !.group = g] \in ReportRow
  BY <1>1, FlushedReportType
<1>3. /\ wR' = [wR EXCEPT ![t][r] = FlushedReport(ViewR(t, r), objR[t][r], s, g)]
      /\ objR' = [objR EXCEPT ![t][r] = [objR[t][r] EXCEPT !.sig = s, !.group = g]]
  BY DEF FlushReport
<1>4. objR'[t][r] = [objR[t][r] EXCEPT !.sig = s, !.group = g]
  BY <1>3 DEF TypeOK
<1>5. objR'[t][r].sig = s /\ objR'[t][r].group = g
  BY <1>1, <1>4 DEF ReportRow
<1> QED
  BY <1>2, <1>3, <1>4, <1>5 DEF TypeOK

LEMMA CloseType ==
    ASSUME TypeOK, NEW t \in Session, Close(t)
    PROVE  /\ phase' \in [Session -> Phase]
           /\ job' \in [Session -> Job]
           /\ objR' \in [Session -> [Report -> ReportRow \cup {None}]]
           /\ objG' \in [Session -> [Sig -> [was : GroupRow, now : GroupRow] \cup {None}]]
           /\ wR' \in [Session -> [Report -> ReportRow \cup {None}]]
           /\ wG' \in [Session -> [Sig -> GroupRow \cup {None}]]
  BY DEF TypeOK, Close, EndTransaction, NoJob, Job, Phase, NoReports, NoGroups

-----------------------------------------------------------------------------
(* What a step of session t leaves alone.                                  *)

Kept(u) ==
    /\ phase'[u] = phase[u]
    /\ job'[u] = job[u]
    /\ objR'[u] = objR[u]
    /\ objG'[u] = objG[u]
    /\ wR'[u] = wR[u]
    /\ wG'[u] = wG[u]

Untouched(t) == \A u \in Session \ {t} : Kept(u)

GroupsStay == \A s \in Sig : groups[s] # None => groups'[s] # None

\* The shape of a session survives what others do.
LEMMA KeptShape ==
    ASSUME ShapeInv, NEW u \in Session, Kept(u), GroupsStay
    PROVE  SessionShape(u)' /\ SessionKnows(u)'
<1>1. SessionShape(u) /\ SessionKnows(u) /\ TypeOK
  BY DEF ShapeInv
<1>2. /\ phase'[u] = phase[u] /\ job'[u] = job[u] /\ objR'[u] = objR[u]
      /\ objG'[u] = objG[u] /\ wR'[u] = wR[u] /\ wG'[u] = wG[u]
  BY DEF Kept
<1>3. SessionShape(u)'
  BY <1>1, <1>2 DEF SessionShape, Working, Grouped
<1>4. \A s \in Sig : ViewG(u, s) # None => ViewG(u, s)' # None
  BY <1>2 DEF ViewG, GroupsStay
<1>5. /\ \A s \in Sig : objG[u][s] # None => ViewG(u, s) # None
      /\ \A r \in Report : objR[u][r] # None /\ objR[u][r].group # None
            => objR[u][r].group \in Sig /\ ViewG(u, objR[u][r].group) # None
      /\ \A r \in Report : wR[u][r] # None /\ wR[u][r].group # None
            => wR[u][r].group \in Sig /\ ViewG(u, wR[u][r].group) # None
      /\ job[u].prev # None => job[u].prev \in Sig /\ ViewG(u, job[u].prev) # None
  BY <1>1 DEF SessionKnows, TypeOK, ReportRow, Job
<1> QED
  BY <1>2, <1>3, <1>4, <1>5 DEF SessionKnows

\* So a step of session t only has to keep the types, the committed rows and its own shape.
LEMMA SessionStep ==
    ASSUME ShapeInv, NEW t \in Session, Untouched(t), GroupsStay,
           TypeOK', GroupsKnown', SessionShape(t)', SessionKnows(t)'
    PROVE  ShapeInv'
  BY KeptShape DEF ShapeInv, Untouched

-----------------------------------------------------------------------------
(* Each step keeps the shape.                                              *)

LEMMA InitShape == Init => ShapeInv
<1> SUFFICES ASSUME Init PROVE ShapeInv
  OBVIOUS
<1>1. TypeOK
  BY DEF Init, TypeOK, NoReports, NoGroups, NoJob, Job, Phase
<1>2. GroupsKnown
  BY DEF Init, GroupsKnown, NoReports
<1>3. ASSUME NEW t \in Session
      PROVE  SessionShape(t) /\ SessionKnows(t)
  BY DEF Init, SessionShape, SessionKnows, NoReports, NoGroups, NoJob, Working, Grouped
<1> QED
  BY <1>1, <1>2, <1>3 DEF ShapeInv

\* A session that ends leaves committed groups only growing.
LEMMA CloseShape ==
    ASSUME ShapeInv, NEW t \in Session, Close(t), GroupsStay, GroupsKnown',
           reports' \in [Report -> ReportRow \cup {None}],
           groups' \in [Sig -> GroupRow \cup {None}],
           UNCHANGED <<indexed, received, deleted, triage>>
    PROVE  ShapeInv'
<1>1. TypeOK'
  BY CloseType DEF ShapeInv, TypeOK
<1>2. Untouched(t)
  BY DEF ShapeInv, TypeOK, Close, EndTransaction, Untouched, Kept
<1>3. /\ phase'[t] = "idle" /\ job'[t] = NoJob /\ objR'[t] = NoReports
      /\ objG'[t] = NoGroups /\ wR'[t] = NoReports /\ wG'[t] = NoGroups
  BY DEF ShapeInv, TypeOK, Close, EndTransaction
<1>4. SessionShape(t)' /\ SessionKnows(t)'
  BY <1>3 DEF SessionShape, SessionKnows, NoReports, NoGroups, NoJob, Working, Grouped
<1> QED
  BY <1>1, <1>2, <1>4, SessionStep

LEMMA RollbackShape ==
    ASSUME ShapeInv, NEW t \in Session, Rollback(t)
    PROVE  ShapeInv'
<1>1. GroupsStay /\ GroupsKnown'
  BY DEF ShapeInv, GroupsKnown, GroupsStay, Rollback
<1> QED
  BY <1>1, CloseShape DEF Rollback, ShapeInv, TypeOK

LEMMA CommitShape ==
    ASSUME ShapeInv, NEW t \in Session, Commit(t)
    PROVE  ShapeInv'
<1>1. /\ reports' = [r \in Report |-> ViewR(t, r)]
      /\ groups' = [s \in Sig |-> ViewG(t, s)]
      /\ Close(t) /\ UNCHANGED <<indexed, received, deleted, triage>>
  BY DEF Commit
<1>2. /\ reports' \in [Report -> ReportRow \cup {None}]
      /\ groups' \in [Sig -> GroupRow \cup {None}]
  BY <1>1 DEF ShapeInv, TypeOK, ViewR, ViewG
<1>3. GroupsStay
  BY <1>1 DEF GroupsStay, ViewG
<1>4. ASSUME NEW r \in Report, reports'[r] # None, reports'[r].group # None
      PROVE  groups'[reports'[r].group] # None
  <2>1. reports'[r] = ViewR(t, r) /\ reports'[r].group \in Sig
    BY <1>1, <1>2, <1>4 DEF ReportRow
  <2>2. CASE wR[t][r] # None
    BY <1>1, <1>4, <2>1, <2>2 DEF ShapeInv, SessionKnows, ViewR
  <2>3. CASE wR[t][r] = None
    BY <1>3, <1>4, <2>1, <2>3 DEF ShapeInv, GroupsKnown, GroupsStay, ViewR
  <2> QED
    BY <2>2, <2>3
<1>5. triage' # None => groups'[triage'.group] # None
  BY <1>1, <1>3 DEF ShapeInv, TypeOK, GroupsKnown, GroupsStay, Triage
<1> QED
  BY <1>1, <1>2, <1>3, <1>4, <1>5, CloseShape DEF GroupsKnown

LEMMA IngestShape ==
    ASSUME ShapeInv, NEW t \in Session, NEW r \in Report, Ingest(t, r)
    PROVE  ShapeInv'
<1>1. NewReport(r) \in ReportRow /\ NewReport(r) # None /\ NewReport(r).group = None
  BY ConstantsAssumption, NoneAssumption DEF NewReport, ReportRow
<1>2. Untouched(t) /\ GroupsStay
  BY DEF ShapeInv, TypeOK, Ingest, Untouched, Kept, GroupsStay
<1>3. TypeOK'
  <2>1. job' \in [Session -> Job]
    <3>1. ASSUME NEW j \in Job
          PROVE  [j EXCEPT !.todo = {r}] \in Job
      BY DEF Job
    <3>2. job' = [job EXCEPT ![t] = [job[t] EXCEPT !.todo = {r}]]
      BY DEF ShapeInv, TypeOK, Ingest
    <3> QED
      BY <3>1, <3>2 DEF ShapeInv, TypeOK
  <2> QED
    BY <1>1, <2>1 DEF ShapeInv, TypeOK, Ingest, Phase
<1>4. GroupsKnown'
  BY <1>1 DEF ShapeInv, TypeOK, Ingest, GroupsKnown
<1>5. /\ job[t] = NoJob /\ objR[t] = NoReports /\ objG[t] = NoGroups
      /\ wR[t] = NoReports /\ wG[t] = NoGroups
  BY DEF ShapeInv, SessionShape, Ingest
<1>6. /\ phase'[t] = "resolve" /\ job'[t].todo = {r} /\ job'[t].prev = None
      /\ objR'[t][r] = NewReport(r) /\ \A q \in Report : q # r => objR'[t][q] = None
      /\ objG'[t] = NoGroups /\ wR'[t] = NoReports
  BY <1>5 DEF ShapeInv, TypeOK, Ingest, NoJob, NoReports, Job
<1>7. SessionShape(t)'
  BY <1>1, <1>6 DEF SessionShape, Working, Grouped
<1>8. SessionKnows(t)'
  BY <1>1, <1>6 DEF SessionKnows, NoReports, NoGroups
<1> QED
  BY <1>2, <1>3, <1>4, <1>7, <1>8, SessionStep

LEMMA LoadShape ==
    ASSUME ShapeInv, NEW t \in Session, NEW R \in SUBSET Report,
           \A r \in R : reports[r] # None, Load(t, R)
    PROVE  ShapeInv'
<1> DEFINE held == {reports[r].group : r \in R} \ {None}
<1>1. /\ objR' = [objR EXCEPT ![t] = [r \in Report |-> IF r \in R THEN reports[r] ELSE None]]
      /\ objG' = [objG EXCEPT ![t] =
                     [s \in Sig |-> IF s \in held THEN Loaded(groups[s]) ELSE None]]
      /\ job' = [job EXCEPT ![t].todo = R, ![t].held = held]
      /\ phase[t] = "idle" /\ phase' = [phase EXCEPT ![t] = "resolve"]
      /\ UNCHANGED <<reports, groups, indexed, received, deleted, wR, wG, triage>>
  BY DEF Load
<1>2. \A r \in R : reports[r] \in ReportRow
  BY DEF ShapeInv, TypeOK
<1>3. held \subseteq Sig
  BY <1>2 DEF ReportRow
<1>4. \A s \in held : groups[s] # None /\ groups[s] \in GroupRow
  BY <1>3 DEF ShapeInv, TypeOK, GroupsKnown
<1>5. \A s \in held : Loaded(groups[s]) \in [was : GroupRow, now : GroupRow]
  BY <1>4 DEF Loaded
<1>6. Untouched(t) /\ GroupsStay
  BY <1>1 DEF ShapeInv, TypeOK, Untouched, Kept, GroupsStay
<1>7. TypeOK'
  <2>1. job' \in [Session -> Job]
    <3>1. ASSUME NEW j \in Job
          PROVE  [j EXCEPT !.todo = R, !.held = held] \in Job
      BY <1>3 DEF Job
    <3>2. job' = [job EXCEPT ![t] = [job[t] EXCEPT !.todo = R, !.held = held]]
      BY <1>1 DEF ShapeInv, TypeOK
    <3> QED
      BY <3>1, <3>2 DEF ShapeInv, TypeOK
  <2>2. objG' \in [Session -> [Sig -> [was : GroupRow, now : GroupRow] \cup {None}]]
    BY <1>1, <1>5 DEF ShapeInv, TypeOK
  <2>3. objR' \in [Session -> [Report -> ReportRow \cup {None}]]
    BY <1>1, <1>2 DEF ShapeInv, TypeOK
  <2>4. phase' \in [Session -> Phase]
    BY <1>1 DEF ShapeInv, TypeOK, Phase
  <2> QED
    BY <1>1, <2>1, <2>2, <2>3, <2>4 DEF ShapeInv, TypeOK
<1>8. GroupsKnown'
  BY <1>1 DEF ShapeInv, GroupsKnown
<1>9. /\ phase'[t] = "resolve" /\ job'[t].todo = R /\ job'[t].prev = job[t].prev
      /\ objR'[t] = [r \in Report |-> IF r \in R THEN reports[r] ELSE None]
      /\ objG'[t] = [s \in Sig |-> IF s \in held THEN Loaded(groups[s]) ELSE None]
      /\ wR'[t] = wR[t]
  BY <1>1 DEF ShapeInv, TypeOK, Job
<1>10. SessionShape(t)'
  BY <1>9 DEF SessionShape, Working, Grouped
<1>11. /\ job[t].prev = None /\ \A r \in Report : wR[t][r] = None
  BY <1>1 DEF ShapeInv, SessionShape, NoJob, NoReports
<1>12. \A s \in Sig : groups[s] # None => ViewG(t, s)' # None
  BY <1>1 DEF ViewG
<1>13. ASSUME NEW r \in Report, objR'[t][r] # None, objR'[t][r].group # None
       PROVE  ViewG(t, objR[t][r].group)' # None
  BY <1>2, <1>9, <1>12, <1>13 DEF ShapeInv, GroupsKnown, ReportRow
<1>14. SessionKnows(t)'
  BY <1>4, <1>9, <1>11, <1>12, <1>13 DEF SessionKnows
<1> QED
  BY <1>6, <1>7, <1>8, <1>10, <1>14, SessionStep

LEMMA ResolveShape ==
    ASSUME ShapeInv, NEW t \in Session, Resolve(t)
    PROVE  ShapeInv'
<1>1. PICK r \in job[t].todo :
        job' = [job EXCEPT ![t].todo = @ \ {r}, ![t].cur = r,
                           ![t].target = SignatureOf(r), ![t].prev = objR[t][r].group]
  BY DEF Resolve
<1>2. r \in Report /\ objR[t][r] # None /\ objR[t][r] \in ReportRow
  BY DEF ShapeInv, TypeOK, SessionShape, Job
<1>3. SignatureOf(r) \in Sig /\ objR[t][r].group \in Sig \cup {None}
  BY <1>2, ConstantsAssumption DEF SignatureOf, ReportRow
<1> DEFINE kept == job[t].held \cup {job[t].target}
           j == [job[t] EXCEPT !.todo = @ \ {r}, !.cur = r,
                               !.target = SignatureOf(r), !.prev = objR[t][r].group]
<1>4. /\ j \in Job /\ j.todo = job[t].todo \ {r} /\ j.cur = r
      /\ j.target = SignatureOf(r) /\ j.prev = objR[t][r].group
  <2>1. job[t] \in Job
    BY DEF ShapeInv, TypeOK
  <2> QED
    BY <1>2, <1>3, <2>1 DEF Job
<1>5. job' = [job EXCEPT ![t] = j]
  BY <1>1 DEF ShapeInv, TypeOK
<1>6. /\ objG' = [objG EXCEPT ![t] = [s \in Sig |-> IF s \in kept THEN objG[t][s] ELSE None]]
      /\ phase' = [phase EXCEPT ![t] = "lookup"]
      /\ UNCHANGED <<reports, groups, indexed, received, deleted, objR, wR, wG, triage>>
  BY DEF Resolve
<1>7. Untouched(t) /\ GroupsStay
  BY <1>5, <1>6 DEF ShapeInv, TypeOK, Untouched, Kept, GroupsStay
<1>8. TypeOK'
  BY <1>4, <1>5, <1>6 DEF ShapeInv, TypeOK, Phase
<1>9. GroupsKnown'
  BY <1>6 DEF ShapeInv, GroupsKnown
<1>10. /\ job'[t] = j /\ phase'[t] = "lookup"
       /\ objG'[t] = [s \in Sig |-> IF s \in kept THEN objG[t][s] ELSE None]
  BY <1>5, <1>6 DEF ShapeInv, TypeOK
<1>11. SessionShape(t)'
  BY <1>2, <1>3, <1>4, <1>6, <1>10 DEF ShapeInv, SessionShape, Working, Grouped
<1>12. \A s \in Sig : ViewG(t, s)' = ViewG(t, s)
  BY <1>6 DEF ViewG
<1>13. SessionKnows(t)'
  <2>1. /\ \A s \in Sig : objG'[t][s] # None => ViewG(t, s)' # None
    BY <1>10, <1>12 DEF ShapeInv, SessionKnows
  <2>2. \A q \in Report : objR[t][q] # None /\ objR[t][q].group # None
           => objR[t][q].group \in Sig /\ ViewG(t, objR[t][q].group) # None
    BY DEF ShapeInv, SessionKnows, TypeOK, ReportRow
  <2>3. \A q \in Report : wR[t][q] # None /\ wR[t][q].group # None
           => wR[t][q].group \in Sig /\ ViewG(t, wR[t][q].group) # None
    BY DEF ShapeInv, SessionKnows, TypeOK, ReportRow
  <2> QED
    BY <1>2, <1>3, <1>4, <1>6, <1>10, <1>12, <2>1, <2>2, <2>3 DEF SessionKnows
<1> QED
  BY <1>7, <1>8, <1>9, <1>11, <1>13, SessionStep

\* After a step, everything session t names is among the known groups.
NamesOnly(t, known) ==
    /\ \A s \in known : wG'[t][s] # None \/ groups[s] # None
    /\ \A s \in Sig : objG'[t][s] # None => s \in known
    /\ \A r \in Report : objR'[t][r] # None /\ objR'[t][r].group # None
          => objR'[t][r].group \in known
    /\ \A r \in Report : wR'[t][r] # None /\ wR'[t][r].group # None
          => wR'[t][r].group \in known

\* The common case: a step of session t writes no table, no job, and lets the
\* session's objects and rows only grow; reports and rows name known groups.
LEMMA WorkingStep ==
    ASSUME ShapeInv, NEW t \in Session, NEW next \in Phase,
           phase[t] \in Working, next # "idle", phase' = [phase EXCEPT ![t] = next],
           UNCHANGED <<reports, groups, indexed, received, deleted, job, triage>>,
           objR' \in [Session -> [Report -> ReportRow \cup {None}]],
           objG' \in [Session -> [Sig -> [was : GroupRow, now : GroupRow] \cup {None}]],
           wR' \in [Session -> [Report -> ReportRow \cup {None}]],
           wG' \in [Session -> [Sig -> GroupRow \cup {None}]],
           \A u \in Session : u # t =>
               objR'[u] = objR[u] /\ objG'[u] = objG[u] /\ wR'[u] = wR[u] /\ wG'[u] = wG[u],
           \A r \in Report : objR[t][r] # None => objR'[t][r] # None,
           \A s \in Sig : wG[t][s] # None => wG'[t][s] # None,
           NEW known, NamesOnly(t, known),
           next \in Grouped => objG'[t][job[t].target] # None,
           next \in {"move", "flushPrevious"} =>
               job[t].prev \in Sig /\ job[t].prev # job[t].target,
           next = "flushPrevious" => objG'[t][job[t].prev] # None
    PROVE  ShapeInv'
<1>1. Untouched(t) /\ GroupsStay
  BY DEF ShapeInv, TypeOK, Untouched, Kept, GroupsStay
<1>2. TypeOK'
  BY DEF ShapeInv, TypeOK
<1>3. GroupsKnown'
  BY DEF ShapeInv, GroupsKnown
<1>4. phase'[t] = next /\ job'[t] = job[t]
  BY DEF ShapeInv, TypeOK
<1>5. SessionShape(t)'
  <2>1. \A r \in job[t].todo : r \in Report /\ objR[t][r] # None
    BY DEF ShapeInv, SessionShape, TypeOK, Job
  <2>2. /\ job[t].cur \in Report /\ job[t].target \in Sig
        /\ objR[t][job[t].cur] # None
    BY DEF ShapeInv, SessionShape
  <2> QED
    BY <1>4, <2>1, <2>2 DEF SessionShape, Working, Grouped
<1>6. job[t].prev # None => job[t].prev \in Sig /\ ViewG(t, job[t].prev) # None
  BY DEF ShapeInv, SessionKnows, TypeOK, Job
<1>7. SessionKnows(t)'
  BY <1>4, <1>6 DEF SessionKnows, ViewG, NamesOnly
<1> QED
  BY <1>1, <1>2, <1>3, <1>5, <1>7, SessionStep

\* The groups session t can see.
Known(t) == {s \in Sig : ViewG(t, s) # None}

\* What a working session has at hand.
LEMMA AtHand ==
    ASSUME ShapeInv, NEW t \in Session, phase[t] \in Working
    PROVE  /\ job[t] \in Job /\ job[t].cur \in Report /\ job[t].target \in Sig
           /\ job[t].prev \in Sig \cup {None}
           /\ objR[t][job[t].cur] # None /\ objR[t][job[t].cur] \in ReportRow
           /\ \A r \in Report : objR[t][r] # None /\ objR[t][r].group # None
                  => objR[t][r].group \in Known(t)
           /\ \A r \in Report : wR[t][r] # None /\ wR[t][r].group # None
                  => wR[t][r].group \in Known(t)
           /\ \A s \in Sig : objG[t][s] # None
                  => s \in Known(t) /\ objG[t][s] \in [was : GroupRow, now : GroupRow]
           /\ \A s \in Known(t) : ViewG(t, s) \in GroupRow /\ (wG[t][s] # None \/ groups[s] # None)
<1>1. job[t] \in Job
  BY DEF ShapeInv, TypeOK
<1>2. job[t].cur \in Report /\ job[t].target \in Sig /\ objR[t][job[t].cur] # None
  BY DEF ShapeInv, SessionShape
<1>3. \A s \in Known(t) : ViewG(t, s) \in GroupRow /\ (wG[t][s] # None \/ groups[s] # None)
  BY DEF ShapeInv, TypeOK, ViewG, Known
<1>4. \A r \in Report : /\ objR[t][r] # None => objR[t][r] \in ReportRow
                        /\ wR[t][r] # None => wR[t][r] \in ReportRow
  BY DEF ShapeInv, TypeOK
<1>5. \A s \in Sig : objG[t][s] # None => objG[t][s] \in [was : GroupRow, now : GroupRow]
  BY DEF ShapeInv, TypeOK
<1> QED
  BY <1>1, <1>2, <1>3, <1>4, <1>5 DEF ShapeInv, SessionKnows, Known, Job, ReportRow

LEMMA LookupShape ==
    ASSUME ShapeInv, NEW t \in Session, Lookup(t)
    PROVE  ShapeInv'
<1> DEFINE s == job[t].target
<1>1. phase[t] = "lookup" /\ phase[t] \in Working
  BY DEF Lookup, Working
<1>2. UNCHANGED <<reports, groups, indexed, received, deleted, job, objR, wR, wG, triage>>
  BY DEF Lookup
<1>3. TypeOK /\ Known(t) \in SUBSET Sig /\ s \in Sig
  BY <1>1, AtHand DEF ShapeInv, Known
<1>4. \A q \in Known(t) : wG'[t][q] # None \/ groups[q] # None
  BY <1>1, <1>2, AtHand
<1>5. CASE ViewG(t, s) = None
  <2>1. phase' = [phase EXCEPT ![t] = "insert"] /\ objG' = objG
    BY <1>5 DEF Lookup
  <2>2. NamesOnly(t, Known(t))
    BY <1>1, <1>2, <1>4, <2>1, AtHand DEF NamesOnly
  <2> QED
    BY <1>1, <1>2, <1>3, <2>1, <2>2, WorkingStep DEF TypeOK, Phase, Grouped
<1>6. CASE ViewG(t, s) # None
  <2>1. /\ phase' = [phase EXCEPT ![t] = AfterGroup(t)]
        /\ objG' = IF objG[t][s] = None
                   THEN [objG EXCEPT ![t][s] = Loaded(ViewG(t, s))] ELSE objG
    BY <1>6 DEF Lookup
  <2>2. s \in Known(t) /\ ViewG(t, s) \in GroupRow
    BY <1>1, <1>3, <1>6, AtHand DEF Known
  <2>3. Loaded(ViewG(t, s)) \in [was : GroupRow, now : GroupRow]
    BY <2>2 DEF Loaded
  <2>4. /\ objG' \in [Session -> [Sig -> [was : GroupRow, now : GroupRow] \cup {None}]]
        /\ \A u \in Session : u # t => objG'[u] = objG[u]
        /\ \A q \in Sig : q # s => objG'[t][q] = objG[t][q]
        /\ objG'[t][s] # None
    BY <1>3, <2>1, <2>3, NoneAssumption DEF TypeOK
  <2>5. AfterGroup(t) \in Phase /\ AfterGroup(t) \in {"move", "bump"}
    BY DEF AfterGroup, Phase
  <2>6. AfterGroup(t) = "move" => job[t].prev \in Sig /\ job[t].prev # s
    BY <1>1, AtHand DEF AfterGroup, Leaves
  <2>7. NamesOnly(t, Known(t))
    BY <1>1, <1>2, <1>4, <2>2, <2>4, AtHand DEF NamesOnly
  <2> QED
    BY <1>1, <1>2, <1>3, <2>1, <2>4, <2>5, <2>6, <2>7, WorkingStep DEF TypeOK, Grouped
<1> QED
  BY <1>5, <1>6

LEMMA InsertShape ==
    ASSUME ShapeInv, NEW t \in Session, Insert(t)
    PROVE  ShapeInv'
<1> DEFINE s == job[t].target
           row == NewGroup(t, job[t].cur)
<1>1. phase[t] = "insert" /\ phase[t] \in Working /\ phase' = [phase EXCEPT ![t] = "touch"]
  BY DEF Insert, Working
<1>2. /\ UNCHANGED <<reports, groups, indexed, received, deleted, job, objR, wR, triage>>
      /\ wG' = [wG EXCEPT ![t][s] = row]
      /\ objG' = [objG EXCEPT ![t][s] = Loaded(row)]
  BY DEF Insert
<1>3. row \in GroupRow /\ row # None
  <2>1. OccurredAt[job[t].cur] \in Nat /\ objR[t][job[t].cur].severity \in Severity
    BY <1>1, AtHand, ConstantsAssumption DEF ReportRow
  <2>2. row \in GroupRow
    BY <2>1 DEF NewGroup, GroupRow, GroupStatus
  <2> QED
    BY <2>2, NoneAssumption
<1>4. Loaded(row) \in [was : GroupRow, now : GroupRow] /\ Loaded(row) # None
  BY <1>3, NoneAssumption DEF Loaded
<1>5. TypeOK /\ s \in Sig
  BY <1>1, AtHand DEF ShapeInv
<1> HIDE DEF row
<1>6. /\ wG' \in [Session -> [Sig -> GroupRow \cup {None}]]
      /\ objG' \in [Session -> [Sig -> [was : GroupRow, now : GroupRow] \cup {None}]]
      /\ \A u \in Session : u # t => objG'[u] = objG[u] /\ wG'[u] = wG[u]
      /\ \A q \in Sig : q # s => objG'[t][q] = objG[t][q] /\ wG'[t][q] = wG[t][q]
      /\ objG'[t][s] # None /\ wG'[t][s] # None
  BY <1>2, <1>3, <1>4, <1>5 DEF TypeOK
<1> DEFINE known == Known(t) \cup {s}
<1>7. \A q \in known : wG'[t][q] # None \/ groups[q] # None
  BY <1>1, <1>5, <1>6, AtHand DEF Known
<1>8. NamesOnly(t, known)
  BY <1>1, <1>2, <1>6, <1>7, AtHand DEF NamesOnly
<1>9. /\ objR' \in [Session -> [Report -> ReportRow \cup {None}]]
      /\ wR' \in [Session -> [Report -> ReportRow \cup {None}]]
      /\ objR' = objR /\ wR' = wR
  BY <1>2, <1>5 DEF TypeOK
<1>10. \A q \in Sig : wG[t][q] # None => wG'[t][q] # None
  BY <1>6
<1>11. "touch" \in Phase
  BY DEF Phase
<1>12. /\ UNCHANGED <<reports, groups, indexed, received, deleted, job, triage>>
       /\ \A u \in Session : u # t =>
             objR'[u] = objR[u] /\ objG'[u] = objG[u] /\ wR'[u] = wR[u] /\ wG'[u] = wG[u]
       /\ \A r \in Report : objR[t][r] # None => objR'[t][r] # None
       /\ objG'[t][job[t].target] # None
  BY <1>2, <1>6, <1>9
<1> HIDE DEF known, s, row
<1> QED
  BY <1>1, <1>6, <1>8, <1>9, <1>10, <1>11, <1>12, WorkingStep, ZenonT(60)

\* A step that flushes the report, and may change one group object.
LEMMA FilingStep ==
    ASSUME ShapeInv, NEW t \in Session, phase[t] \in Grouped,
           NEW g \in Sig \cup {None}, g # None => g \in Known(t),
           FlushReport(t, job[t].cur, job[t].target, g),
           NEW next \in Phase \ {"idle"}, phase' = [phase EXCEPT ![t] = next],
           UNCHANGED <<reports, groups, indexed, received, deleted, job, wG, triage>>,
           NEW s \in Known(t),
           objG' \in [Session -> [Sig -> [was : GroupRow, now : GroupRow] \cup {None}]],
           \A u \in Session : u # t => objG'[u] = objG[u],
           \A q \in Sig : q # s => objG'[t][q] = objG[t][q],
           objG[t][s] # None => objG'[t][s] # None,
           next \in {"move", "flushPrevious"} =>
               job[t].prev \in Sig /\ job[t].prev # job[t].target,
           next = "flushPrevious" => objG'[t][job[t].prev] # None
    PROVE  ShapeInv'
<1> DEFINE r == job[t].cur
           row == FlushedReport(ViewR(t, r), objR[t][r], job[t].target, g)
<1>1. TypeOK /\ phase[t] \in Working
  BY DEF ShapeInv, Grouped, Working
<1>2. /\ wR' \in [Session -> [Report -> ReportRow \cup {None}]]
      /\ objR' \in [Session -> [Report -> ReportRow \cup {None}]]
      /\ objR'[t][r] \in ReportRow /\ objR'[t][r].group = g
      /\ wR'[t][r] = row /\ wR'[t][r] \in ReportRow
      /\ \A q \in Report : q # r => wR'[t][q] = wR[t][q] /\ objR'[t][q] = objR[t][q]
      /\ \A u \in Session : u # t => wR'[u] = wR[u] /\ objR'[u] = objR[u]
  BY <1>1, AtHand, FlushReportFacts
<1>3. ViewR(t, r) # None /\ ViewR(t, r) \in ReportRow
  BY <1>1, AtHand DEF TypeOK, ViewR, FlushReport
<1>4. ViewR(t, r).group # None => ViewR(t, r).group \in Known(t)
  <2>1. CASE wR[t][r] # None
    BY <1>1, <2>1, AtHand DEF ViewR
  <2>2. CASE wR[t][r] = None
    <3>1. reports[r] # None /\ ViewR(t, r) = reports[r] /\ r \in Report
      BY <1>1, <1>3, <2>2, AtHand DEF ViewR
    <3>2. ViewR(t, r).group \in Sig \cup {None}
      BY <1>3 DEF ReportRow
    <3>3. ViewR(t, r).group # None => groups[ViewR(t, r).group] # None
      BY <3>1 DEF ShapeInv, GroupsKnown
    <3> QED
      BY <3>2, <3>3 DEF Known, ViewG
  <2> QED
    BY <2>1, <2>2
<1>5. row.group = g \/ row.group = ViewR(t, r).group
  BY <1>3 DEF FlushedReport, Col, ReportRow
<1>6. row.group # None => row.group \in Known(t)
  BY <1>4, <1>5
<1> HIDE DEF row
<1>7. \A q \in Report :
         /\ objR'[t][q] # None /\ objR'[t][q].group # None => objR'[t][q].group \in Known(t)
         /\ wR'[t][q] # None /\ wR'[t][q].group # None => wR'[t][q].group \in Known(t)
  BY <1>1, <1>2, <1>6, AtHand, SMTT(30)
<1>8. \A q \in Report : objR[t][q] # None => objR'[t][q] # None
  BY <1>2, NoneAssumption
<1>9. NamesOnly(t, Known(t))
  BY <1>1, <1>7, AtHand DEF NamesOnly, Known
<1>10. objG'[t][job[t].target] # None
  BY <1>1, AtHand DEF ShapeInv, SessionShape
<1>11. wG' \in [Session -> [Sig -> GroupRow \cup {None}]] /\ wG' = wG
  BY <1>1 DEF TypeOK
<1>12. next \in Phase /\ next # "idle"
  OBVIOUS
<1> QED
  BY <1>1, <1>2, <1>8, <1>9, <1>10, <1>11, <1>12, WorkingStep

\* A step that flushes a group object.
LEMMA FlushStep ==
    ASSUME ShapeInv, NEW t \in Session, phase[t] \in Grouped,
           NEW s \in Known(t), NEW obj \in [was : GroupRow, now : GroupRow],
           FlushGroup(t, s, obj),
           NEW next \in Phase \ {"idle", "move", "flushPrevious"},
           phase' = [phase EXCEPT ![t] = next],
           UNCHANGED <<reports, groups, indexed, received, deleted, job, objR, wR, triage>>
    PROVE  ShapeInv'
<1>1. TypeOK /\ phase[t] \in Working /\ s \in Sig /\ ViewG(t, s) # None
  BY DEF ShapeInv, Grouped, Working, Known
<1>2. /\ wG' \in [Session -> [Sig -> GroupRow \cup {None}]]
      /\ objG' \in [Session -> [Sig -> [was : GroupRow, now : GroupRow] \cup {None}]]
      /\ objG'[t][s] # None
      /\ \A q \in Sig : q # s => objG'[t][q] = objG[t][q]
      /\ \A q \in Sig : wG[t][q] # None => wG'[t][q] # None
      /\ \A u \in Session : u # t => wG'[u] = wG[u] /\ objG'[u] = objG[u]
  BY <1>1, FlushGroupFacts
<1>3. NamesOnly(t, Known(t))
  <2>1. \A q \in Known(t) : q \in Sig /\ (wG'[t][q] # None \/ groups[q] # None)
    BY <1>1, <1>2, AtHand DEF Known
  <2> QED
    BY <1>1, <1>2, <2>1, AtHand DEF NamesOnly
<1>4. objG'[t][job[t].target] # None
  BY <1>1, <1>2, AtHand DEF ShapeInv, SessionShape
<1>5. /\ objR' \in [Session -> [Report -> ReportRow \cup {None}]]
      /\ wR' \in [Session -> [Report -> ReportRow \cup {None}]]
      /\ objR' = objR /\ wR' = wR
  BY <1>1 DEF TypeOK
<1>6. next \in Phase /\ next # "idle" /\ next \notin {"move", "flushPrevious"}
  OBVIOUS
<1> QED
  BY <1>1, <1>2, <1>3, <1>4, <1>5, <1>6, WorkingStep

LEMMA TouchShape ==
    ASSUME ShapeInv, NEW t \in Session, Touch(t)
    PROVE  ShapeInv'
<1> DEFINE g == objR[t][job[t].cur].group
<1>1. phase[t] = "touch" /\ phase[t] \in Working /\ phase[t] \in Grouped
  BY DEF Touch, Working, Grouped
<1>2. /\ FlushReport(t, job[t].cur, job[t].target, g)
      /\ phase' = [phase EXCEPT ![t] = AfterGroup(t)]
      /\ UNCHANGED <<reports, groups, indexed, received, deleted, job, wG, triage>>
      /\ objG' = objG
  BY DEF Touch
<1>3. g \in Sig \cup {None} /\ (g # None => g \in Known(t))
  BY <1>1, AtHand DEF ReportRow
<1>4. job[t].target \in Known(t)
  BY <1>1, AtHand DEF ShapeInv, SessionShape
<1>5. AfterGroup(t) \in Phase \ {"idle"} /\ AfterGroup(t) # "flushPrevious"
  BY DEF AfterGroup, Phase
<1>6. AfterGroup(t) = "move" => job[t].prev \in Sig /\ job[t].prev # job[t].target
  BY <1>1, AtHand DEF AfterGroup, Leaves
<1>7. objG' \in [Session -> [Sig -> [was : GroupRow, now : GroupRow] \cup {None}]]
  BY <1>2 DEF ShapeInv, TypeOK
<1> HIDE DEF g
<1> QED
  BY <1>1, <1>2, <1>3, <1>4, <1>5, <1>6, <1>7, FilingStep

LEMMA MoveShape ==
    ASSUME ShapeInv, NEW t \in Session, Move(t)
    PROVE  ShapeInv'
<1> DEFINE r == job[t].cur
           p == job[t].prev
           previous == IF objG[t][p] = None THEN Loaded(ViewG(t, p)) ELSE objG[t][p]
           left == OtherMembers(t, r, p)
<1>1. phase[t] = "move" /\ phase[t] \in Working /\ phase[t] \in Grouped
  BY DEF Move, Working, Grouped
<1>2. p \in Sig /\ p # job[t].target /\ p \in Known(t)
  <2>1. p \in Sig /\ p # job[t].target
    BY <1>1 DEF ShapeInv, SessionShape
  <2>2. ViewG(t, p) # None
    BY <2>1, NoneAssumption DEF ShapeInv, SessionKnows
  <2> QED
    BY <2>1, <2>2 DEF Known
<1>3. job[t].target \in Known(t)
  BY <1>1, AtHand DEF ShapeInv, SessionShape
<1>4. previous \in [was : GroupRow, now : GroupRow]
  BY <1>1, <1>2, AtHand DEF Loaded
<1>5. left \in SUBSET Report
  BY DEF OtherMembers
<1>6. PICK lo \in FirstSeen(left, previous.now.first),
           hi \in LastSeen(left, previous.now.last) :
        objG' = [objG EXCEPT ![t][p] =
                    [previous EXCEPT !.now = Recounted(previous.now, left, lo, hi)]]
  BY DEF Move
<1>7. Recounted(previous.now, left, lo, hi) \in GroupRow
  BY <1>4, <1>5, <1>6, RecountedType
<1>8. /\ FlushReport(t, r, job[t].target, job[t].target)
      /\ phase' = [phase EXCEPT ![t] = "flushPrevious"]
      /\ UNCHANGED <<reports, groups, indexed, received, deleted, job, wG, triage>>
  BY DEF Move
<1> DEFINE object == [previous EXCEPT !.now = Recounted(previous.now, left, lo, hi)]
<1>9. object \in [was : GroupRow, now : GroupRow] /\ object # None
  BY <1>4, <1>7, NoneAssumption
<1>10. objG' = [objG EXCEPT ![t][p] = object]
  BY <1>6
<1> HIDE DEF object, previous, left
<1>11. /\ objG' \in [Session -> [Sig -> [was : GroupRow, now : GroupRow] \cup {None}]]
       /\ \A u \in Session : u # t => objG'[u] = objG[u]
       /\ \A q \in Sig : q # p => objG'[t][q] = objG[t][q]
       /\ objG'[t][p] # None
  BY <1>2, <1>9, <1>10 DEF ShapeInv, TypeOK
<1>12. "flushPrevious" \in Phase \ {"idle"}
  BY DEF Phase
<1>13. job[t].target \in Sig \cup {None}
  BY <1>1, AtHand
<1> QED
  BY <1>1, <1>2, <1>3, <1>8, <1>11, <1>12, <1>13, FilingStep

LEMMA FlushPreviousShape ==
    ASSUME ShapeInv, NEW t \in Session, FlushPrevious(t)
    PROVE  ShapeInv'
<1> DEFINE p == job[t].prev
<1>1. phase[t] = "flushPrevious" /\ phase[t] \in Working /\ phase[t] \in Grouped
  BY DEF FlushPrevious, Working, Grouped
<1>2. p \in Sig /\ objG[t][p] # None
  BY <1>1 DEF ShapeInv, SessionShape
<1>3. p \in Known(t) /\ objG[t][p] \in [was : GroupRow, now : GroupRow]
  BY <1>1, <1>2, AtHand
<1>4. "bump" \in Phase \ {"idle", "move", "flushPrevious"}
  BY DEF Phase
<1> QED
  BY <1>1, <1>3, <1>4, FlushStep DEF FlushPrevious

\* The group object a session files its report in.
LEMMA TargetObject ==
    ASSUME ShapeInv, NEW t \in Session, phase[t] \in Grouped
    PROVE  /\ job[t].target \in Known(t)
           /\ objG[t][job[t].target] \in [was : GroupRow, now : GroupRow]
  BY AtHand DEF ShapeInv, SessionShape, Grouped, Working

LEMMA BumpShape ==
    ASSUME ShapeInv, NEW t \in Session, Bump(t)
    PROVE  ShapeInv'
<1> DEFINE s == job[t].target
<1>1. phase[t] = "bump" /\ phase[t] \in Working /\ phase[t] \in Grouped
  BY DEF Bump, Working, Grouped
<1>2. s \in Known(t) /\ objG[t][s] \in [was : GroupRow, now : GroupRow]
  BY <1>1, TargetObject
<1>3. Bumped(t, objG[t][s].now) \in GroupRow
  BY <1>1, <1>2, AtHand, BumpedType
<1>4. BumpedObject(t) \in [was : GroupRow, now : GroupRow]
  BY <1>2, <1>3 DEF BumpedObject
<1>5. "file" \in Phase \ {"idle", "move", "flushPrevious"}
  BY DEF Phase
<1> QED
  BY <1>1, <1>2, <1>4, <1>5, FlushStep DEF Bump

LEMMA FileShape ==
    ASSUME ShapeInv, NEW t \in Session, File(t)
    PROVE  ShapeInv'
<1> DEFINE s == job[t].target
           n == Cardinality(DevicesOf(OtherMembers(t, job[t].cur, s) \cup {job[t].cur}))
<1>1. phase[t] = "file" /\ phase[t] \in Working /\ phase[t] \in Grouped
  BY DEF File, Working, Grouped
<1>2. s \in Known(t) /\ objG[t][s] \in [was : GroupRow, now : GroupRow] /\ s \in Sig
  BY <1>1, TargetObject DEF Known
<1>3. /\ FlushReport(t, job[t].cur, s, s)
      /\ phase' = [phase EXCEPT ![t] = "tally"]
      /\ UNCHANGED <<reports, groups, indexed, received, deleted, job, wG, triage>>
  BY DEF File
<1>4. n \in Int
  <2> DEFINE R == OtherMembers(t, job[t].cur, s) \cup {job[t].cur}
  <2>1. R \in SUBSET Report
    BY <1>1, AtHand DEF OtherMembers
  <2>2. IsFiniteSet(DevicesOf(R))
    BY <2>1, DevicesFinite
  <2> QED
    BY <2>2, FS_CardinalityType
<1> DEFINE object == [objG[t][s] EXCEPT !.now = [objG[t][s].now EXCEPT !.devices = n]]
<1>5. object \in [was : GroupRow, now : GroupRow] /\ object # None
  <2>1. [objG[t][s].now EXCEPT !.devices = n] \in GroupRow
    BY <1>2, <1>4 DEF GroupRow
  <2> QED
    BY <1>2, <2>1, NoneAssumption
<1>6. objG' = [objG EXCEPT ![t][s] = object]
  BY <1>2 DEF ShapeInv, TypeOK, File
<1> HIDE DEF object, n
<1>7. /\ objG' \in [Session -> [Sig -> [was : GroupRow, now : GroupRow] \cup {None}]]
      /\ \A u \in Session : u # t => objG'[u] = objG[u]
      /\ \A q \in Sig : q # s => objG'[t][q] = objG[t][q]
      /\ objG'[t][s] # None
  BY <1>2, <1>5, <1>6 DEF ShapeInv, TypeOK
<1>8. "tally" \in Phase \ {"idle"} /\ "tally" \notin {"move", "flushPrevious"}
  BY DEF Phase
<1>9. s \in Sig \cup {None}
  BY <1>2
<1> QED
  BY <1>1, <1>2, <1>3, <1>7, <1>8, <1>9, FilingStep, ZenonT(60)

LEMMA TallyShape ==
    ASSUME ShapeInv, NEW t \in Session, Tally(t)
    PROVE  ShapeInv'
<1> DEFINE next == IF job[t].todo = {} THEN "commit" ELSE "resolve"
<1>1. phase[t] = "tally" /\ phase[t] \in Grouped
  BY DEF Tally, Grouped
<1>2. next \in Phase \ {"idle", "move", "flushPrevious"}
  BY DEF Phase
<1>3. phase' = [phase EXCEPT ![t] = next]
  BY DEF Tally
<1> HIDE DEF next
<1> QED
  BY <1>1, <1>2, <1>3, TargetObject, FlushStep DEF Tally

\* Engineers touch no session, and no step of theirs takes a group away.
LEMMA EngineerShape ==
    ASSUME ShapeInv, Engineer
    PROVE  ShapeInv'
<1>1. UNCHANGED sessionVars
  BY DEF Engineer, DeleteReport, TriageReport, TriageGroup, SaveTriage, IndexBuild,
         DeleteBuild, sessionVars
<1>2. TypeOK' /\ GroupsKnown' /\ GroupsStay
  <2> USE DEF ShapeInv, TypeOK, GroupsKnown, GroupsStay, sessionVars
  <2>1. ASSUME NEW r \in Report, DeleteReport(r)
        PROVE  TypeOK' /\ GroupsKnown' /\ GroupsStay
    BY <2>1 DEF DeleteReport
  <2>2. ASSUME NEW r \in Report, NEW v \in TriageSeverity, TriageReport(r, v)
        PROVE  TypeOK' /\ GroupsKnown' /\ GroupsStay
    <3>1. reports[r] \in ReportRow /\ v \in Severity
      BY <2>2, ConstantsAssumption DEF TriageReport
    <3>2. /\ [reports[r] EXCEPT !.severity = v] \in ReportRow
          /\ [reports[r] EXCEPT !.severity = v].group = reports[r].group
      BY <3>1 DEF ReportRow
    <3> QED
      BY <2>2, <3>2 DEF TriageReport
  <2>3. ASSUME NEW s \in Sig, TriageGroup(s)
        PROVE  TypeOK' /\ GroupsKnown' /\ GroupsStay
    BY <2>3 DEF TriageGroup, Triage, GroupRow
  <2>4. ASSUME NEW v \in TriageStatus, SaveTriage(v)
        PROVE  TypeOK' /\ GroupsKnown' /\ GroupsStay
    <3> DEFINE s == triage.group
               stamp == StampAfter(v, triage.regressed)
               row == [groups[s] EXCEPT
                          !.status = Col(v, triage.status, groups[s].status),
                          !.regressed = Col(stamp, triage.regressed, groups[s].regressed)]
    <3>1. /\ triage \in Triage /\ s \in Sig /\ stamp \in BOOLEAN /\ v \in GroupStatus
          /\ groups' = [groups EXCEPT ![s] = row] /\ triage' = None
          /\ UNCHANGED <<reports, indexed, received, deleted, sessionVars>>
      BY <2>4, ConstantsAssumption DEF SaveTriage, Triage, StampAfter
    <3>2. groups[s] \in GroupRow
      BY <2>4, <3>1 DEF SaveTriage
    <3>3. row \in GroupRow
      BY <3>1, <3>2 DEF GroupRow, Col, Triage
    <3> HIDE DEF row
    <3> QED
      BY <3>1, <3>3, NoneAssumption
  <2>5. ASSUME NEW f \in Firmware, IndexBuild(f) \/ DeleteBuild(f)
        PROVE  TypeOK' /\ GroupsKnown' /\ GroupsStay
    BY <2>5 DEF IndexBuild, DeleteBuild
  <2> QED
    BY <2>1, <2>2, <2>3, <2>4, <2>5 DEF Engineer
<1>3. \A u \in Session : SessionShape(u)' /\ SessionKnows(u)'
  BY <1>1, <1>2, KeptShape DEF Kept, sessionVars
<1> QED
  BY <1>2, <1>3 DEF ShapeInv

LEMMA StepShape ==
    ASSUME ShapeInv, [Next]_vars
    PROVE  ShapeInv'
<1>1. ASSUME NEW t \in Session, Begin(t)
      PROVE  ShapeInv'
  <2>1. ASSUME NEW r \in Report, Ingest(t, r)
        PROVE  ShapeInv'
    BY <2>1, IngestShape
  <2>2. ASSUME NEW r \in Report, Symbolicate(t, r)
        PROVE  ShapeInv'
    <3>1. {r} \in SUBSET Report /\ \A q \in {r} : reports[q] # None
      BY <2>2 DEF Symbolicate
    <3> QED
      BY <2>2, <3>1, LoadShape DEF Symbolicate
  <2>3. ASSUME NEW f \in Firmware, Resymbolicate(t, f)
        PROVE  ShapeInv'
    <3> DEFINE R == {r \in Report : reports[r] # None /\ FirmwareOf[r] = f}
    <3>1. R \in SUBSET Report /\ \A q \in R : reports[q] # None
      OBVIOUS
    <3>2. Load(t, R)
      BY <2>3 DEF Resymbolicate
    <3> HIDE DEF R
    <3> QED
      BY <3>1, <3>2, LoadShape
  <2> QED
    BY <1>1, <2>1, <2>2, <2>3 DEF Begin
<1>2. ASSUME NEW t \in Session, Advance(t) \/ Abort(t)
      PROVE  ShapeInv'
  <2>1. CASE InsertConflict(t) \/ StaleReport(t) \/ DeadlockVictim(t) \/ Abort(t)
    BY <2>1, RollbackShape DEF InsertConflict, StaleReport, DeadlockVictim, Abort
  <2> QED
    BY <1>2, <2>1, ResolveShape, LookupShape, InsertShape, TouchShape, MoveShape,
       FlushPreviousShape, BumpShape, FileShape, TallyShape, CommitShape DEF Advance
<1>3. CASE Engineer
  BY <1>3, EngineerShape
<1>4. CASE UNCHANGED vars
  <2>1. /\ UNCHANGED <<reports, groups, indexed, received, deleted, triage>>
        /\ UNCHANGED sessionVars
    BY <1>4 DEF vars
  <2>2. TypeOK' /\ GroupsKnown' /\ GroupsStay
    BY <2>1 DEF ShapeInv, TypeOK, GroupsKnown, GroupsStay, sessionVars
  <2>3. \A u \in Session : Kept(u)
    BY <2>1 DEF Kept, sessionVars
  <2> QED
    BY <2>2, <2>3, KeptShape DEF ShapeInv
<1> QED
  BY <1>1, <1>2, <1>3, <1>4 DEF Next

\* Every state is well formed: each table, each session's memory and each row
\* it has written hold values of their types, whatever the interleaving.
THEOREM TypeCorrect == Spec => []TypeOK
<1>1. Init => ShapeInv
  BY InitShape
<1>2. ShapeInv /\ [Next]_vars => ShapeInv'
  BY StepShape
<1>3. ShapeInv => TypeOK
  BY DEF ShapeInv
<1> QED
  BY <1>1, <1>2, <1>3, PTL DEF Spec

-----------------------------------------------------------------------------
(* The signature and the group of a report are written in different        *)
(* flushes; each step keeps them together, or between the two.             *)

\* A report as session t has it in memory, and as it has written it, names one
\* group by signature and by reference ...
Matched(t, r) ==
    /\ objR[t][r] # None => objR[t][r].sig = objR[t][r].group
    /\ wR[t][r] # None => wR[t][r].sig = wR[t][r].group

\* ... but for the report whose new signature was written with its new group,
\* until it is filed there.
Between(t, r) ==
    /\ r = job[t].cur
    /\ phase[t] \in {"move", "bump", "file"}
    /\ wR[t][r] # None /\ wR[t][r].sig = job[t].target
    /\ objR[t][r].sig = job[t].target /\ objR[t][r].group # job[t].target

Filed(t) ==
    /\ \A r \in Report : Matched(t, r) \/ Between(t, r)
    /\ phase[t] \in {"insert", "touch"} => objR[t][job[t].cur].group # job[t].target

RowsMatch == \A r \in Report : reports[r] # None => reports[r].sig = reports[r].group

FilingInv == RowsMatch /\ \A t \in Session : Filed(t)

\* A step of session t that keeps the committed rows filed and what t itself has
\* in hand: the other sessions' memory and rows are untouched.
LEMMA FiledStep ==
    ASSUME FilingInv, NEW t \in Session, Untouched(t), RowsMatch', Filed(t)'
    PROVE  FilingInv'
<1>1. ASSUME NEW u \in Session \ {t}
      PROVE  Filed(u)'
  BY DEF FilingInv, Filed, Matched, Between, Untouched, Kept
<1> QED
  BY <1>1 DEF FilingInv

\* Filing report r under signature s, after a first flush or at once, writes the
\* two columns together.
LEMMA FlushMatches ==
    ASSUME NEW row \in ReportRow, NEW obj \in ReportRow, NEW s \in Sig,
           \/ obj.sig = obj.group /\ row.sig = row.group
           \/ obj.sig = s /\ obj.group # s /\ row.sig = s
    PROVE  FlushedReport(row, obj, s, s).sig = FlushedReport(row, obj, s, s).group
  BY DEF FlushedReport, Col, ReportRow

\* Move and File: the report is filed.
LEMMA FilesReport ==
    ASSUME ShapeInv, FilingInv, NEW t \in Session, phase[t] \in {"move", "file"},
           FlushReport(t, job[t].cur, job[t].target, job[t].target),
           NEW next \in {"flushPrevious", "tally"}, phase' = [phase EXCEPT ![t] = next],
           UNCHANGED <<reports, job, wG>>,
           \A u \in Session : u # t => objG'[u] = objG[u]
    PROVE  FilingInv'
<1> DEFINE r == job[t].cur
           s == job[t].target
           row == FlushedReport(ViewR(t, r), objR[t][r], s, s)
<1>1. TypeOK /\ phase[t] \in Working
  BY DEF ShapeInv, Working
<1>2. r \in Report /\ s \in Sig /\ objR[t][r] # None /\ objR[t][r] \in ReportRow
  BY <1>1, AtHand
<1>3. /\ objR'[t][r].sig = s /\ objR'[t][r].group = s
      /\ wR'[t][r] = row
      /\ \A q \in Report : q # r => wR'[t][q] = wR[t][q] /\ objR'[t][q] = objR[t][q]
      /\ \A u \in Session : u # t => wR'[u] = wR[u] /\ objR'[u] = objR[u]
  BY <1>1, <1>2, FlushReportFacts
<1>4. ViewR(t, r) # None /\ ViewR(t, r) \in ReportRow
  BY <1>1, <1>2 DEF TypeOK, ViewR, FlushReport
<1>5. row.sig = row.group
  <2>1. CASE Matched(t, r)
    <3>1. objR[t][r].sig = objR[t][r].group /\ ViewR(t, r).sig = ViewR(t, r).group
      BY <1>2, <1>4, <2>1 DEF Matched, ViewR, FilingInv, RowsMatch
    <3> QED
      BY <1>2, <1>4, <3>1, FlushMatches
  <2>2. CASE Between(t, r)
    <3>1. objR[t][r].sig = s /\ objR[t][r].group # s /\ ViewR(t, r).sig = s
      BY <2>2 DEF Between, ViewR
    <3> QED
      BY <1>2, <1>4, <3>1, FlushMatches
  <2> QED
    BY <1>2, <2>1, <2>2 DEF FilingInv, Filed
<1> HIDE DEF row
<1>6. phase'[t] = next /\ job'[t] = job[t]
  BY <1>1 DEF TypeOK
<1>7. \A q \in Report : Matched(t, q)'
  BY <1>2, <1>3, <1>5 DEF FilingInv, Filed, Matched, Between
<1>8. Filed(t)'
  BY <1>6, <1>7 DEF Filed
<1>9. Untouched(t)
  BY <1>1, <1>3 DEF TypeOK, Untouched, Kept
<1> QED
  BY <1>8, <1>9, FiledStep DEF FilingInv, RowsMatch

\* Touch: the new signature is written ahead of the new group.
LEMMA TouchFiling ==
    ASSUME ShapeInv, FilingInv, NEW t \in Session, Touch(t)
    PROVE  FilingInv'
<1> DEFINE r == job[t].cur
           s == job[t].target
           g == objR[t][r].group
           row == FlushedReport(ViewR(t, r), objR[t][r], s, g)
<1>1. TypeOK /\ phase[t] = "touch" /\ phase[t] \in Working
  BY DEF ShapeInv, Touch, Working
<1>2. r \in Report /\ s \in Sig /\ objR[t][r] # None /\ objR[t][r] \in ReportRow
      /\ g \in Sig \cup {None}
  BY <1>1, AtHand DEF ReportRow
<1>3. /\ FlushReport(t, r, s, g)
      /\ phase' = [phase EXCEPT ![t] = AfterGroup(t)]
      /\ UNCHANGED <<reports, job, objG, wG>>
  BY DEF Touch
<1>4. /\ objR'[t][r].sig = s /\ objR'[t][r].group = g
      /\ wR'[t][r] = row /\ wR'[t][r] \in ReportRow
      /\ \A q \in Report : q # r => wR'[t][q] = wR[t][q] /\ objR'[t][q] = objR[t][q]
      /\ \A u \in Session : u # t => wR'[u] = wR[u] /\ objR'[u] = objR[u]
  BY <1>1, <1>2, <1>3, FlushReportFacts
<1>5. g # s /\ \A q \in Report : Matched(t, q)
  BY <1>1 DEF FilingInv, Filed, Between
<1>6. ViewR(t, r) \in ReportRow
  BY <1>1, <1>2, <1>3 DEF TypeOK, ViewR, FlushReport
<1>7. row.sig = s
  BY <1>2, <1>5, <1>6 DEF FlushedReport, Col, Matched, ReportRow
<1>8. AfterGroup(t) \in {"move", "bump"}
  BY DEF AfterGroup
<1> HIDE DEF row
<1>9. phase'[t] = AfterGroup(t) /\ job'[t] = job[t]
  BY <1>1, <1>3 DEF TypeOK
<1>10. Between(t, r)'
  BY <1>4, <1>5, <1>7, <1>8, <1>9, NoneAssumption DEF Between
<1>11. \A q \in Report : q # r => Matched(t, q)'
  BY <1>4, <1>5 DEF Matched
<1>12. Filed(t)'
  BY <1>8, <1>9, <1>10, <1>11 DEF Filed
<1>13. Untouched(t)
  BY <1>1, <1>3, <1>4 DEF TypeOK, Untouched, Kept
<1> QED
  BY <1>3, <1>12, <1>13, FiledStep DEF FilingInv, RowsMatch

\* A step that writes no report: what was matched stays matched.
LEMMA WritesNoReport ==
    ASSUME ShapeInv, FilingInv, NEW t \in Session, Untouched(t),
           UNCHANGED <<reports, objR, wR>>,
           phase[t] \in {"resolve", "lookup", "insert", "flushPrevious", "tally"},
           phase'[t] \in {"insert", "touch"} =>
               objR[t][job'[t].cur].group # job'[t].target
    PROVE  FilingInv'
<1>1. Filed(t)'
  BY DEF FilingInv, Filed, Matched, Between
<1> QED
  BY <1>1, FiledStep DEF FilingInv, RowsMatch

LEMMA StepFiling ==
    ASSUME ShapeInv, FilingInv, [Next]_vars
    PROVE  FilingInv'
<1> USE DEF ShapeInv
<1>1. ASSUME NEW t \in Session, Begin(t)
      PROVE  FilingInv'
  <2>1. ASSUME NEW r \in Report, Ingest(t, r)
        PROVE  FilingInv'
    <3>1. RowsMatch'
      BY <2>1 DEF FilingInv, RowsMatch, TypeOK, Ingest, NewReport
    <3>2. /\ objR[t] = NoReports /\ wR'[t] = NoReports
      BY <2>1 DEF SessionShape, Ingest
    <3>3. Filed(t)'
      BY <2>1, <3>2 DEF Filed, Matched, TypeOK, Ingest, NewReport, NoReports
    <3>4. Untouched(t)
      BY <2>1 DEF TypeOK, Ingest, Untouched, Kept
    <3> QED
      BY <3>1, <3>3, <3>4, FiledStep
  <2>2. ASSUME NEW R \in SUBSET Report, Load(t, R)
        PROVE  FilingInv'
    <3>1. RowsMatch'
      BY <2>2 DEF FilingInv, RowsMatch, Load
    <3>2. wR'[t] = NoReports /\ phase'[t] = "resolve"
      BY <2>2 DEF TypeOK, SessionShape, Load
    <3>3. objR'[t] = [r \in Report |-> IF r \in R THEN reports[r] ELSE None]
      BY <2>2 DEF TypeOK, Load
    <3>4. Filed(t)'
      BY <3>2, <3>3 DEF FilingInv, RowsMatch, Filed, Matched, NoReports
    <3>5. Untouched(t)
      BY <2>2 DEF TypeOK, Load, Untouched, Kept
    <3> QED
      BY <3>1, <3>4, <3>5, FiledStep
  <2>3. ASSUME NEW r \in Report, Symbolicate(t, r)
        PROVE  FilingInv'
    BY <2>2, <2>3 DEF Symbolicate
  <2>4. ASSUME NEW f \in Firmware, Resymbolicate(t, f)
        PROVE  FilingInv'
    <3> DEFINE R == {r \in Report : reports[r] # None /\ FirmwareOf[r] = f}
    <3>1. R \in SUBSET Report /\ Load(t, R)
      BY <2>4 DEF Resymbolicate
    <3> HIDE DEF R
    <3> QED
      BY <2>2, <3>1
  <2> QED
    BY <1>1, <2>1, <2>3, <2>4 DEF Begin
<1>2. ASSUME NEW t \in Session, Close(t), RowsMatch'
      PROVE  FilingInv'
  <2>1. objR'[t] = NoReports /\ wR'[t] = NoReports /\ phase'[t] = "idle"
    BY <1>2 DEF TypeOK, Close, EndTransaction
  <2>2. Filed(t)'
    BY <2>1 DEF Filed, Matched, NoReports
  <2>3. Untouched(t)
    BY <1>2 DEF TypeOK, Close, EndTransaction, Untouched, Kept
  <2> QED
    BY <1>2, <2>2, <2>3, FiledStep
<1>3. ASSUME NEW t \in Session, Rollback(t)
      PROVE  FilingInv'
  BY <1>2, <1>3 DEF Rollback, FilingInv, RowsMatch
<1>4. ASSUME NEW t \in Session, Commit(t)
      PROVE  FilingInv'
  <2>1. \A r \in Report : Matched(t, r)
    BY <1>4 DEF FilingInv, Filed, Between, Commit
  <2>2. RowsMatch'
    BY <1>4, <2>1 DEF FilingInv, RowsMatch, Matched, Commit, ViewR
  <2> QED
    BY <1>2, <1>4, <2>2 DEF Commit
<1>5. ASSUME NEW t \in Session, Resolve(t)
      PROVE  FilingInv'
  <2>1. Untouched(t)
    BY <1>5 DEF TypeOK, Resolve, Untouched, Kept
  <2>2. phase[t] = "resolve" /\ phase'[t] = "lookup" /\ UNCHANGED <<reports, objR, wR>>
    BY <1>5 DEF TypeOK, Resolve
  <2> QED
    BY <2>1, <2>2, WritesNoReport
<1>6. ASSUME NEW t \in Session, Lookup(t)
      PROVE  FilingInv'
  <2>1. Untouched(t)
    BY <1>6 DEF TypeOK, Lookup, Untouched, Kept
  <2>2. phase[t] = "lookup" /\ phase[t] \in Working /\ UNCHANGED <<reports, objR, wR, job>>
    BY <1>6 DEF Lookup, Working
  <2>3. CASE ViewG(t, job[t].target) = None
    <3>1. job[t].target \notin Known(t) /\ job[t].target # None
      BY <2>2, <2>3, AtHand, NoneAssumption DEF Known
    <3>2. objR[t][job[t].cur].group # job[t].target
      BY <2>2, <3>1, AtHand
    <3> QED
      BY <2>1, <2>2, <3>2, WritesNoReport
  <2>4. CASE ViewG(t, job[t].target) # None
    <3>1. phase'[t] \in {"move", "bump"}
      BY <1>6, <2>4 DEF TypeOK, Lookup, AfterGroup
    <3> QED
      BY <2>1, <2>2, <3>1, WritesNoReport
  <2> QED
    BY <2>3, <2>4
<1>7. ASSUME NEW t \in Session, Insert(t)
      PROVE  FilingInv'
  <2>1. Untouched(t)
    BY <1>7 DEF TypeOK, Insert, Untouched, Kept
  <2>2. phase[t] = "insert" /\ UNCHANGED <<reports, objR, wR, job>>
    BY <1>7 DEF Insert
  <2> QED
    BY <2>1, <2>2, WritesNoReport DEF FilingInv, Filed
<1>8. ASSUME NEW t \in Session, Touch(t)
      PROVE  FilingInv'
  BY <1>8, TouchFiling
<1>9. ASSUME NEW t \in Session, Move(t)
      PROVE  FilingInv'
  <2>1. \A u \in Session : u # t => objG'[u] = objG[u]
    BY <1>9 DEF TypeOK, Move
  <2>2. /\ phase[t] = "move"
        /\ FlushReport(t, job[t].cur, job[t].target, job[t].target)
        /\ phase' = [phase EXCEPT ![t] = "flushPrevious"]
        /\ UNCHANGED <<reports, job, wG>>
    BY <1>9 DEF Move
  <2> QED
    BY <2>1, <2>2, FilesReport
<1>10. ASSUME NEW t \in Session, File(t)
       PROVE  FilingInv'
  <2>1. \A u \in Session : u # t => objG'[u] = objG[u]
    BY <1>10 DEF TypeOK, File
  <2>2. /\ phase[t] = "file"
        /\ FlushReport(t, job[t].cur, job[t].target, job[t].target)
        /\ phase' = [phase EXCEPT ![t] = "tally"]
        /\ UNCHANGED <<reports, job, wG>>
    BY <1>10 DEF File
  <2> QED
    BY <2>1, <2>2, FilesReport
<1>11. ASSUME NEW t \in Session, FlushPrevious(t)
       PROVE  FilingInv'
  <2>1. Untouched(t)
    BY <1>11 DEF TypeOK, FlushPrevious, FlushGroup, Untouched, Kept
  <2>2. phase[t] = "flushPrevious" /\ phase'[t] = "bump" /\ UNCHANGED <<reports, objR, wR>>
    BY <1>11 DEF TypeOK, FlushPrevious
  <2> QED
    BY <2>1, <2>2, WritesNoReport
<1>12. ASSUME NEW t \in Session, Bump(t)
       PROVE  FilingInv'
  <2>1. Untouched(t)
    BY <1>12 DEF TypeOK, Bump, FlushGroup, Untouched, Kept
  <2>2. phase[t] = "bump" /\ phase'[t] = "file" /\ UNCHANGED <<reports, objR, wR, job>>
    BY <1>12 DEF TypeOK, Bump
  <2>3. Filed(t)'
    BY <2>2 DEF FilingInv, Filed, Matched, Between
  <2> QED
    BY <2>1, <2>2, <2>3, FiledStep DEF FilingInv, RowsMatch
<1>13. ASSUME NEW t \in Session, Tally(t)
       PROVE  FilingInv'
  <2>1. Untouched(t)
    BY <1>13 DEF TypeOK, Tally, FlushGroup, Untouched, Kept
  <2>2. /\ phase[t] = "tally" /\ phase'[t] \in {"commit", "resolve"}
        /\ UNCHANGED <<reports, objR, wR>>
    BY <1>13 DEF TypeOK, Tally
  <2> QED
    BY <2>1, <2>2, WritesNoReport
<1>14. CASE Engineer
  <2>1. UNCHANGED sessionVars
    BY <1>14 DEF Engineer, DeleteReport, TriageReport, TriageGroup, SaveTriage,
           IndexBuild, DeleteBuild, sessionVars
  <2>2. RowsMatch'
    <3>1. ASSUME NEW r \in Report, NEW v \in TriageSeverity, TriageReport(r, v)
          PROVE  RowsMatch'
      <4>1. reports[r] \in ReportRow
        BY <3>1 DEF TypeOK, TriageReport
      <4>2. LET row == [reports[r] EXCEPT !.severity = v]
            IN  row.sig = reports[r].sig /\ row.group = reports[r].group
        BY <4>1 DEF ReportRow
      <4> QED
        BY <3>1, <4>2 DEF FilingInv, RowsMatch, TypeOK, TriageReport
    <3>2. ASSUME NEW r \in Report, DeleteReport(r)
          PROVE  RowsMatch'
      BY <3>2 DEF FilingInv, RowsMatch, TypeOK, DeleteReport
    <3> QED
      BY <1>14, <3>1, <3>2 DEF Engineer, TriageGroup, SaveTriage, IndexBuild, DeleteBuild,
             FilingInv, RowsMatch
  <2> QED
    BY <2>1, <2>2 DEF FilingInv, Filed, Matched, Between, sessionVars
<1>15. CASE UNCHANGED vars
  BY <1>15 DEF vars, sessionVars, FilingInv, RowsMatch, Filed, Matched, Between
<1>16. ASSUME NEW t \in Session, Advance(t) \/ Abort(t)
       PROVE  FilingInv'
  <2>1. CASE InsertConflict(t) \/ StaleReport(t) \/ DeadlockVictim(t) \/ Abort(t)
    BY <1>3, <2>1 DEF InsertConflict, StaleReport, DeadlockVictim, Abort
  <2> QED
    BY <1>4, <1>5, <1>6, <1>7, <1>8, <1>9, <1>10, <1>11, <1>12, <1>13, <1>16, <2>1
    DEF Advance
<1> QED
  BY <1>1, <1>14, <1>15, <1>16 DEF Next

\* The signature a stored report carries and the group it is filed in agree, and
\* the group exists, whatever sessions run, wait, fail or overwrite each other.
THEOREM SignaturesMatchGroups == Spec => []SignatureMatchesGroup
<1>1. Init => ShapeInv /\ FilingInv
  <2> SUFFICES ASSUME Init PROVE FilingInv
    BY InitShape
  <2> QED
    BY DEF Init, FilingInv, RowsMatch, Filed, Matched, NoReports
<1>2. ShapeInv /\ FilingInv /\ [Next]_vars => ShapeInv' /\ FilingInv'
  BY StepShape, StepFiling
<1>3. ShapeInv /\ FilingInv => SignatureMatchesGroup
  BY DEF ShapeInv, GroupsKnown, FilingInv, RowsMatch, SignatureMatchesGroup
<1> QED
  BY <1>1, <1>2, <1>3, PTL DEF Spec

-----------------------------------------------------------------------------
(* Stored reports.                                                         *)

\* A row a session has written is committed, and only what was received can be
\* deleted.
StoredInv ==
    /\ \A t \in Session, r \in Report : wR[t][r] # None => reports[r] # None
    /\ deleted \subseteq received
    /\ AcceptedReportsKept

\* The table of reports, and what was received and deleted, stay; a session writes
\* only reports it can see.
LEMMA StoredStep ==
    ASSUME TypeOK, StoredInv, UNCHANGED <<reports, received, deleted>>,
           \A t \in Session, r \in Report : wR'[t][r] # None => ViewR(t, r) # None
    PROVE  StoredInv'
  BY DEF StoredInv, AcceptedReportsKept, ViewR

LEMMA StepStored ==
    ASSUME ShapeInv, StoredInv, [Next]_vars
    PROVE  StoredInv'
<1> USE DEF ShapeInv
<1>1. ASSUME NEW t \in Session, NEW r \in Report, Ingest(t, r)
      PROVE  StoredInv'
  <2>1. NewReport(r) # None
    <3>1. NewReport(r) \in ReportRow
      BY ConstantsAssumption DEF NewReport, ReportRow
    <3> QED
      BY <3>1, NoneAssumption
  <2> QED
    BY <1>1, <2>1 DEF StoredInv, AcceptedReportsKept, TypeOK, Ingest
<1>2. CASE UNCHANGED <<reports, received, deleted, wR>>
  BY <1>2, StoredStep DEF ViewR
<1>3. ASSUME NEW t \in Session, Close(t), UNCHANGED <<received, deleted>>,
             \A r \in Report : reports'[r] # None <=> reports[r] # None
      PROVE  StoredInv'
  <2>1. \A u \in Session, r \in Report : wR'[u][r] # None => wR[u][r] # None
    BY <1>3 DEF TypeOK, Close, EndTransaction, NoReports
  <2> QED
    BY <1>3, <2>1 DEF StoredInv, AcceptedReportsKept
<1>4. ASSUME NEW t \in Session, Commit(t)
      PROVE  StoredInv'
  <2>1. \A r \in Report : reports'[r] # None <=> reports[r] # None
    BY <1>4 DEF StoredInv, Commit, ViewR
  <2> QED
    BY <1>3, <1>4, <2>1 DEF Commit
<1>5. ASSUME NEW t \in Session, Rollback(t)
      PROVE  StoredInv'
  BY <1>3, <1>5 DEF Rollback
<1>6. ASSUME NEW t \in Session, NEW r, NEW s, NEW g, FlushReport(t, r, s, g),
             UNCHANGED <<reports, received, deleted>>
      PROVE  StoredInv'
  <2>1. \A u \in Session, q \in Report : wR'[u][q] # None => ViewR(u, q) # None
    BY <1>6 DEF TypeOK, FlushReport, ViewR
  <2> QED
    BY <1>6, <2>1, StoredStep
<1>7. ASSUME NEW t \in Session, Advance(t) \/ Abort(t)
      PROVE  StoredInv'
  <2>1. CASE InsertConflict(t) \/ StaleReport(t) \/ DeadlockVictim(t) \/ Abort(t)
    BY <1>5, <2>1 DEF InsertConflict, StaleReport, DeadlockVictim, Abort
  <2>2. CASE Resolve(t) \/ Lookup(t) \/ Insert(t) \/ FlushPrevious(t) \/ Bump(t) \/ Tally(t)
    BY <1>2, <2>2 DEF Resolve, Lookup, Insert, FlushPrevious, Bump, Tally
  <2>3. CASE Touch(t) \/ Move(t) \/ File(t)
    BY <1>6, <2>3 DEF Touch, Move, File
  <2> QED
    BY <1>4, <1>7, <2>1, <2>2, <2>3 DEF Advance
<1>8. ASSUME NEW t \in Session, Begin(t)
      PROVE  StoredInv'
  BY <1>1, <1>2, <1>8 DEF Begin, Symbolicate, Resymbolicate, Load
<1>9. CASE Engineer
  <2>1. ASSUME NEW r \in Report, DeleteReport(r)
        PROVE  StoredInv'
    BY <2>1 DEF StoredInv, AcceptedReportsKept, TypeOK, DeleteReport, sessionVars
  <2>2. ASSUME NEW r \in Report, NEW v \in TriageSeverity, TriageReport(r, v)
        PROVE  StoredInv'
    <3>1. [reports[r] EXCEPT !.severity = v] # None
      <4>1. reports[r] \in ReportRow /\ v \in Severity
        BY <2>2, ConstantsAssumption DEF TypeOK, TriageReport
      <4>2. [reports[r] EXCEPT !.severity = v] \in ReportRow
        BY <4>1 DEF ReportRow
      <4> QED
        BY <4>2, NoneAssumption
    <3> QED
      BY <2>2, <3>1 DEF StoredInv, AcceptedReportsKept, TypeOK, TriageReport, sessionVars
  <2> QED
    BY <1>2, <1>9, <2>1, <2>2 DEF Engineer, TriageGroup, SaveTriage, IndexBuild, DeleteBuild,
           sessionVars
<1>10. CASE UNCHANGED vars
  BY <1>2, <1>10 DEF vars, sessionVars
<1> QED
  BY <1>7, <1>8, <1>9, <1>10 DEF Next

\* A report whose ingestion was committed stays stored until an engineer deletes
\* it, and then nothing brings it back.
THEOREM AcceptedReportsAreKept == Spec => []AcceptedReportsKept
<1>1. Init => ShapeInv /\ StoredInv
  <2> SUFFICES ASSUME Init PROVE StoredInv
    BY InitShape
  <2> QED
    BY DEF Init, StoredInv, AcceptedReportsKept, NoReports
<1>2. ShapeInv /\ StoredInv /\ [Next]_vars => ShapeInv' /\ StoredInv'
  BY StepShape, StepStored
<1>3. StoredInv => AcceptedReportsKept
  BY DEF StoredInv
<1> QED
  BY <1>1, <1>2, <1>3, PTL DEF Spec
=============================================================================
