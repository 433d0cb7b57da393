--------------------- MODULE CrashGroupsSerialProofs ---------------------
(***************************************************************************)
(* Theorems about CrashGroups when requests run one at a time, with every  *)
(* failure: counters, evidence, statuses, and the ledger they keep.        *)
(***************************************************************************)
EXTENDS CrashGroupsProofs

\* The reports a session's SELECT finds in group s.
ViewMembers(t, s) == {q \in Report : ViewR(t, q) # None /\ ViewR(t, q).group = s}

Alone ==
    /\ \A t, u \in Session : t # u => phase[t] = "idle" \/ phase[u] = "idle"
    /\ triage # None =>
          /\ \A t \in Session : phase[t] = "idle"
          /\ groups[triage.group].status = triage.status
          /\ groups[triage.group].regressed = triage.regressed

\* What a lone session has in memory of a report is what a SELECT would return.
SyncedR(t) ==
    /\ \A q \in Report : objR[t][q] # None => objR[t][q] = ViewR(t, q)
    /\ \A q \in Report : wR[t][q] # None =>
          reports[q] # None /\ wR[t][q].severity = reports[q].severity

\* And so of a group, except for the counters it has computed and not flushed.
SyncedG(t) ==
    \A g \in Sig : objG[t][g] # None =>
        /\ objG[t][g].was = ViewG(t, g)
        /\ \/ objG[t][g].now = ViewG(t, g)
           \/ phase[t] = "flushPrevious" /\ g = job[t].prev
           \/ phase[t] = "tally" /\ g = job[t].target

\* Its current report is filed where the phase says.
Located(t) ==
    LET r == job[t].cur
        s == job[t].target
        p == job[t].prev
    IN  /\ phase[t] \in {"lookup", "insert", "touch", "move"} => objR[t][r].group = p
        /\ phase[t] = "insert" => ViewG(t, s) = None
        /\ phase[t] \in {"bump", "file"} =>
              objR[t][r].group = IF p = None THEN None ELSE s
        /\ phase[t] \in {"flushPrevious", "tally"} => objR[t][r].group = s

\* The columns a count changes.
Pending(t) ==
    LET s == job[t].target
        p == job[t].prev
    IN  /\ phase[t] = "flushPrevious" =>
              /\ objG[t][p].now.status = objG[t][p].was.status
              /\ objG[t][p].now.regressed = objG[t][p].was.regressed
              /\ objG[t][p].now.severity = objG[t][p].was.severity
        /\ phase[t] = "tally" =>
              objG[t][s].now = [objG[t][s].was EXCEPT !.devices = objG[t][s].now.devices]

Synced(t) == SyncedR(t) /\ SyncedG(t) /\ Located(t) /\ Pending(t)

SerialInv == Alone /\ \A t \in Session : Synced(t)

\* The counters a session would read, group by group.
Tallied(row, R) == row.count = Cardinality(R) /\ row.devices = Cardinality(DevicesOf(R))

CountersFit(t) ==
    LET r == job[t].cur
        s == job[t].target
        p == job[t].prev
    IN  /\ \A g \in Sig : ViewG(t, g) # None =>
              \/ Tallied(ViewG(t, g), ViewMembers(t, g))
              \/ phase[t] = "flushPrevious" /\ g = p
              \/ phase[t] \in {"flushPrevious", "bump", "file", "tally"} /\ g = s
        /\ phase[t] = "flushPrevious" => Tallied(objG[t][p].now, ViewMembers(t, p))
        /\ phase[t] \in {"flushPrevious", "bump"} =>
              ViewG(t, s).count = Cardinality(IF AlreadyCounted(t) THEN ViewMembers(t, s)
                                              ELSE ViewMembers(t, s) \ {r})
        /\ phase[t] = "file" => ViewG(t, s).count = Cardinality(ViewMembers(t, s) \cup {r})
        /\ phase[t] = "tally" => Tallied(objG[t][s].now, ViewMembers(t, s))

TallyInv == TallyExact /\ \A t \in Session : phase[t] # "idle" => CountersFit(t)

\* The row of group g covers a report as session t sees it: by window and versions, and
\* by severity if the session files it there anew.
Covers(t, g, row, q) ==
    /\ q \notin Members(g) => ViewR(t, q).severity <= row.severity
    /\ row.first <= OccurredAt[q] /\ OccurredAt[q] <= row.last
    /\ FirmwareOf[q] \in row.versions

EvidenceFits(t) ==
    LET r == job[t].cur
        s == job[t].target
        p == job[t].prev
    IN  /\ \A g \in Sig : \A q \in ViewMembers(t, g) :
              \/ Covers(t, g, ViewG(t, g), q)
              \/ phase[t] \in {"flushPrevious", "bump"} /\ g = s /\ q = r
        /\ phase[t] = "flushPrevious" =>
              \A q \in ViewMembers(t, p) : Covers(t, p, objG[t][p].now, q)
        /\ phase[t] = "file" => Covers(t, s, ViewG(t, s), r)

\* The session makes no group less severe.
NotLowered(t) ==
    \A g \in Sig : groups[g] # None =>
        ViewG(t, g) # None /\ groups[g].severity <= ViewG(t, g).severity

EvidenceInv ==
    /\ WindowCovered
    /\ \A t \in Session : phase[t] # "idle" => EvidenceFits(t) /\ NotLowered(t)

Stamped(row) == row.regressed => row.status = "regressed"

StampInv ==
    /\ RegressionStamped
    /\ \A t \in Session, s \in Sig :
          /\ ViewG(t, s) # None => Stamped(ViewG(t, s))

\* The reports a session is done with, and the groups it has filed reports in.
Done(t) == {q \in Report : wR[t][q] # None /\ (phase[t] \in Working => q # job[t].cur)}
Hit(t, s) ==
    \/ \E q \in Done(t) : wR[t][q].group = s
    \/ phase[t] \in {"file", "tally"} /\ s = job[t].target

StatusFits(t) ==
    /\ \A q \in job[t].todo : wR[t][q] = None
    /\ phase[t] \in Working => job[t].cur \notin job[t].todo
    /\ \A q \in Done(t) : wR[t][q].group # None
    /\ phase[t] = "tally" => wR[t][job[t].cur] # None
    /\ phase[t] = "commit" => \E q \in Report : wR[t][q] # None
    /\ \A s \in Sig : ViewG(t, s) # None =>
          ViewG(t, s).status = IF groups[s] = None THEN "open"
                               ELSE IF Hit(t, s) /\ groups[s].status = "resolved" THEN "regressed"
                               ELSE groups[s].status
    /\ \A s \in Sig : groups[s] = None /\ ViewG(t, s) # None =>
          Hit(t, s) \/ (phase[t] \in Grouped /\ s = job[t].target)

StatusInv == \A t \in Session : phase[t] # "idle" => StatusFits(t)

-----------------------------------------------------------------------------
(* What a step does to what a session sees.                                *)

\* A step within a request: nothing is committed, and others stand still.
Inside(t) ==
    Untouched(t) /\ UNCHANGED <<reports, groups, triage>> /\ job'[t] = job[t]

\* What a session would read after the step.
NextR(t, q) == IF wR'[t][q] # None THEN wR'[t][q] ELSE reports'[q]
NextG(t, g) == IF wG'[t][g] # None THEN wG'[t][g] ELSE groups'[g]

KeepsReports(t) ==
    \A q \in Report : NextR(t, q) = ViewR(t, q) /\ objR'[t][q] = objR[t][q] /\ wR'[t][q] = wR[t][q]

KeepsGroups(t) ==
    \A g \in Sig : NextG(t, g) = ViewG(t, g) /\ objG'[t][g] = objG[t][g]

\* The current report's row now names group g.
Refiles(t, g) ==
    LET r == job[t].cur
    IN  /\ NextR(t, r) # None /\ objR'[t][r] = NextR(t, r) /\ wR'[t][r] = NextR(t, r)
        /\ ViewR(t, r) # None
        /\ NextR(t, r).group = g /\ NextR(t, r).severity = ViewR(t, r).severity
        /\ \A q \in Report : q # r =>
              NextR(t, q) = ViewR(t, q) /\ objR'[t][q] = objR[t][q] /\ wR'[t][q] = wR[t][q]

\* Group s now has the row a flush of its object gives it.
Flushes(t, s, row) ==
    /\ ViewG(t, s) # None
    /\ NextG(t, s) = row /\ objG'[t][s] = Loaded(row)
    /\ \A g \in Sig : g # s => NextG(t, g) = ViewG(t, g) /\ objG'[t][g] = objG[t][g]

\* A lone session's flush of a report writes what it has in memory.
LEMMA ReportFlush ==
    ASSUME ShapeInv, NEW t \in Session, phase[t] \in Working,
           objR[t][job[t].cur] = ViewR(t, job[t].cur), NEW g \in Sig \cup {None},
           FlushReport(t, job[t].cur, job[t].target, g), reports' = reports
    PROVE  Refiles(t, g)
<1> DEFINE r == job[t].cur
           s == job[t].target
           row == FlushedReport(ViewR(t, r), objR[t][r], s, g)
<1>1. TypeOK /\ r \in Report /\ s \in Sig /\ objR[t][r] # None /\ objR[t][r] \in ReportRow
  BY AtHand DEF ShapeInv
<1>2. row = [objR[t][r] EXCEPT !.sig = s, !.group = g]
  BY <1>1 DEF FlushedReport, Col, ReportRow
<1>3. row \in ReportRow /\ row # None /\ row.group = g /\ row.severity = ViewR(t, r).severity
  BY <1>1, <1>2, NoneAssumption DEF ReportRow
<1>4. objR'[t][r] = row
  BY <1>1, <1>2 DEF FlushReport, TypeOK
<1>5. /\ wR'[t][r] = row
      /\ \A q \in Report : q # r => wR'[t][q] = wR[t][q] /\ objR'[t][q] = objR[t][q]
  BY <1>1, FlushReportFacts
<1> HIDE DEF row
<1>6. NextR(t, r) = row /\ \A q \in Report : q # r => NextR(t, q) = ViewR(t, q)
  BY <1>1, <1>3, <1>5 DEF ViewR, NextR
<1>7. ViewR(t, r) # None
  BY <1>1
<1> QED
  BY <1>3, <1>4, <1>5, <1>6, <1>7 DEF Refiles

\* Its flush of a group object that it has kept in step writes what it has in memory.
LEMMA GroupFlush ==
    ASSUME ShapeInv, NEW t \in Session, NEW s \in Sig, ViewG(t, s) # None,
           NEW obj \in [was : GroupRow, now : GroupRow], obj.was = ViewG(t, s),
           obj.now.regressed <=> obj.now.status # obj.was.status \/ obj.was.regressed,
           FlushGroup(t, s, obj), groups' = groups
    PROVE  Flushes(t, s, obj.now)
<1>1. obj.was \in GroupRow /\ obj.now \in GroupRow /\ obj.now # None
  BY NoneAssumption
<1>2. FlushedGroup(obj, ViewG(t, s)) = obj.now
  BY <1>1 DEF FlushedGroup, Col, GroupRow
<1>3. CASE Dirty(obj)
  <2>1. /\ wG' = [wG EXCEPT ![t][s] = obj.now]
        /\ objG' = [objG EXCEPT ![t][s] = Loaded(obj.now)]
    BY <1>2, <1>3 DEF FlushGroup
  <2>2. /\ wG'[t][s] = obj.now /\ objG'[t][s] = Loaded(obj.now)
        /\ \A g \in Sig : g # s => wG'[t][g] = wG[t][g] /\ objG'[t][g] = objG[t][g]
    BY <2>1 DEF ShapeInv, TypeOK
  <2> QED
    BY <1>1, <2>2 DEF Flushes, ViewG, NextG
<1>4. CASE ~Dirty(obj)
  <2>1. wG' = wG /\ objG' = [objG EXCEPT ![t][s] = obj]
    BY <1>4 DEF FlushGroup
  <2>2. obj = Loaded(obj.now)
    BY <1>4 DEF Dirty, Loaded
  <2>3. /\ objG'[t][s] = obj
        /\ \A g \in Sig : g # s => objG'[t][g] = objG[t][g]
    BY <2>1 DEF ShapeInv, TypeOK
  <2> QED
    BY <1>1, <1>4, <2>1, <2>2, <2>3 DEF Flushes, ViewG, NextG, Dirty
<1> QED
  BY <1>3, <1>4

\* What a lone session has at hand is what it would read.
LEMMA InStep ==
    ASSUME ShapeInv, SerialInv, NEW t \in Session, phase[t] \in Working
    PROVE  /\ job[t].cur \in Report /\ job[t].target \in Sig /\ job[t].prev \in Sig \cup {None}
           /\ objR[t][job[t].cur] = ViewR(t, job[t].cur) /\ ViewR(t, job[t].cur) \in ReportRow
           /\ \A q \in Report : ViewR(t, q) # None => ViewR(t, q) \in ReportRow
           /\ \A g \in Sig : ViewG(t, g) # None => ViewG(t, g) \in GroupRow
           /\ \A q \in Report : ViewR(t, q) # None /\ ViewR(t, q).group # None
                 => ViewR(t, q).group \in Sig /\ ViewG(t, ViewR(t, q).group) # None
           /\ job[t].prev # None => ViewG(t, job[t].prev) # None
<1>1. /\ job[t].cur \in Report /\ job[t].target \in Sig /\ job[t].prev \in Sig \cup {None}
      /\ objR[t][job[t].cur] = ViewR(t, job[t].cur) /\ ViewR(t, job[t].cur) \in ReportRow
  BY AtHand DEF SerialInv, Synced, SyncedR, SyncedG, Located, Pending
<1>2. /\ \A q \in Report : ViewR(t, q) # None => ViewR(t, q) \in ReportRow
      /\ \A g \in Sig : ViewG(t, g) # None => ViewG(t, g) \in GroupRow
  BY DEF ShapeInv, TypeOK, ViewR, ViewG
<1>3. \A g \in Sig : groups[g] # None => ViewG(t, g) # None
  BY DEF ViewG
<1>4. \A q \in Report : ViewR(t, q) # None /\ ViewR(t, q).group # None
         => ViewR(t, q).group \in Sig /\ ViewG(t, ViewR(t, q).group) # None
  <2> SUFFICES ASSUME NEW q \in Report, ViewR(t, q) # None, ViewR(t, q).group # None
               PROVE  ViewR(t, q).group \in Sig /\ ViewG(t, ViewR(t, q).group) # None
    OBVIOUS
  <2>1. ViewR(t, q).group \in Sig
    BY <1>2 DEF ReportRow
  <2> QED
    BY <1>3, <2>1 DEF ShapeInv, GroupsKnown, SessionKnows, ViewR
<1> QED
  BY <1>1, <1>2, <1>4 DEF ShapeInv, SessionKnows

-----------------------------------------------------------------------------
(* The steps of symbolicate_report, as the session sees them.              *)

LEMMA ResolveEffect ==
    ASSUME ShapeInv, NEW t \in Session, Resolve(t)
    PROVE  /\ phase[t] = "resolve" /\ phase'[t] = "lookup"
           /\ Untouched(t) /\ UNCHANGED <<reports, groups, triage>> /\ KeepsReports(t)
           /\ \A g \in Sig : /\ NextG(t, g) = ViewG(t, g) /\ wG'[t][g] = wG[t][g]
                             /\ objG'[t][g] # None => objG'[t][g] = objG[t][g]
           /\ \E r \in job[t].todo :
                 /\ r \in Report /\ objR[t][r] # None
                 /\ job'[t].todo = job[t].todo \ {r} /\ job'[t].cur = r
                 /\ job'[t].target \in Sig /\ job'[t].prev = objR[t][r].group
<1>1. /\ phase[t] = "resolve" /\ phase' = [phase EXCEPT ![t] = "lookup"]
      /\ UNCHANGED <<reports, groups, indexed, received, deleted, objR, wR, wG, triage>>
      /\ objG' = [objG EXCEPT ![t] =
                     [s \in Sig |-> IF s \in job[t].held \cup {job[t].target}
                                    THEN objG[t][s] ELSE None]]
  BY DEF Resolve
<1>2. PICK r \in job[t].todo :
         job' = [job EXCEPT ![t].todo = @ \ {r}, ![t].cur = r,
                            ![t].target = SignatureOf(r), ![t].prev = objR[t][r].group]
  BY DEF Resolve
<1>3. job[t] \in Job /\ r \in Report /\ objR[t][r] # None
  BY DEF ShapeInv, TypeOK, SessionShape, Job
<1>4. SignatureOf(r) \in Sig
  BY <1>3, ConstantsAssumption DEF SignatureOf
<1>5. job'[t] = [job[t] EXCEPT !.todo = @ \ {r}, !.cur = r,
                               !.target = SignatureOf(r), !.prev = objR[t][r].group]
  BY <1>2 DEF ShapeInv, TypeOK
<1>6. /\ job'[t].todo = job[t].todo \ {r} /\ job'[t].cur = r
      /\ job'[t].target = SignatureOf(r) /\ job'[t].prev = objR[t][r].group
  BY <1>3, <1>5 DEF Job
<1>7. phase'[t] = "lookup" /\ Untouched(t)
  BY <1>1, <1>2 DEF ShapeInv, TypeOK, Untouched, Kept
<1>8. \A g \in Sig : objG'[t][g] # None => objG'[t][g] = objG[t][g]
  BY <1>1 DEF ShapeInv, TypeOK
<1> QED
  BY <1>1, <1>3, <1>4, <1>6, <1>7, <1>8 DEF KeepsReports, NextR, NextG, ViewR, ViewG

LEMMA LookupEffect ==
    ASSUME ShapeInv, NEW t \in Session, Lookup(t)
    PROVE  /\ phase[t] = "lookup" /\ Inside(t) /\ KeepsReports(t)
           /\ \A g \in Sig : /\ NextG(t, g) = ViewG(t, g) /\ wG'[t][g] = wG[t][g]
                             /\ \/ objG'[t][g] = objG[t][g]
                                \/ objG'[t][g] = Loaded(ViewG(t, g))
           /\ \/ ViewG(t, job[t].target) = None /\ phase'[t] = "insert"
              \/ /\ ViewG(t, job[t].target) # None /\ phase'[t] = AfterGroup(t)
                 /\ objG'[t][job[t].target] # None
<1> DEFINE s == job[t].target
<1>1. /\ phase[t] = "lookup"
      /\ UNCHANGED <<reports, groups, indexed, received, deleted, job, objR, wR, wG, triage>>
  BY DEF Lookup
<1>2. s \in Sig
  BY <1>1 DEF ShapeInv, SessionShape, Working
<1>3. CASE ViewG(t, s) = None
  <2>1. phase' = [phase EXCEPT ![t] = "insert"] /\ objG' = objG
    BY <1>3 DEF Lookup
  <2> QED
    BY <1>1, <1>3, <2>1 DEF ShapeInv, TypeOK, Inside, Untouched, Kept, KeepsReports, NextR, NextG,
                            ViewR, ViewG
<1>4. CASE ViewG(t, s) # None
  <2>1. /\ phase' = [phase EXCEPT ![t] = AfterGroup(t)]
        /\ objG' = IF objG[t][s] = None THEN [objG EXCEPT ![t][s] = Loaded(ViewG(t, s))] ELSE objG
    BY <1>4 DEF Lookup
  <2>2. Loaded(ViewG(t, s)) # None
    BY <1>2, <1>4, NoneAssumption DEF ShapeInv, TypeOK, ViewG, Loaded
  <2>3. /\ \A g \in Sig : \/ objG'[t][g] = objG[t][g]
                          \/ objG'[t][g] = Loaded(ViewG(t, g))
        /\ objG'[t][s] # None /\ \A u \in Session : u # t => objG'[u] = objG[u]
    BY <1>2, <2>1, <2>2 DEF ShapeInv, TypeOK
  <2>4. phase'[t] = AfterGroup(t) /\ Inside(t)
    BY <1>1, <2>1, <2>3 DEF ShapeInv, TypeOK, Inside, Untouched, Kept
  <2> QED
    BY <1>1, <1>4, <2>3, <2>4 DEF KeepsReports, NextR, NextG, ViewR, ViewG
<1> QED
  BY <1>3, <1>4

LEMMA InsertEffect ==
    ASSUME ShapeInv, NEW t \in Session, Insert(t)
    PROVE  /\ phase[t] = "insert" /\ phase'[t] = "touch" /\ Inside(t) /\ KeepsReports(t)
           /\ groups[job[t].target] = None
           /\ NewGroup(t, job[t].cur) \in GroupRow /\ NewGroup(t, job[t].cur) # None
           /\ NextG(t, job[t].target) = NewGroup(t, job[t].cur)
           /\ objG'[t][job[t].target] = Loaded(NewGroup(t, job[t].cur))
           /\ \A g \in Sig : g # job[t].target =>
                 NextG(t, g) = ViewG(t, g) /\ objG'[t][g] = objG[t][g]
<1> DEFINE s == job[t].target
           row == NewGroup(t, job[t].cur)
<1>1. /\ phase[t] = "insert" /\ groups[s] = None /\ phase' = [phase EXCEPT ![t] = "touch"]
      /\ wG' = [wG EXCEPT ![t][s] = row] /\ objG' = [objG EXCEPT ![t][s] = Loaded(row)]
      /\ UNCHANGED <<reports, groups, indexed, received, deleted, job, objR, wR, triage>>
  BY DEF Insert
<1>2. /\ s \in Sig /\ OccurredAt[job[t].cur] \in Nat
      /\ objR[t][job[t].cur].severity \in Severity
  BY <1>1, AtHand, ConstantsAssumption DEF ReportRow, Working
<1>3. row \in GroupRow
  BY <1>2 DEF NewGroup, GroupRow, GroupStatus
<1>5. row # None
  BY <1>3, NoneAssumption
<1> HIDE DEF row
<1>4. /\ wG'[t][s] = row /\ objG'[t][s] = Loaded(row)
      /\ \A g \in Sig : g # s => wG'[t][g] = wG[t][g] /\ objG'[t][g] = objG[t][g]
      /\ \A u \in Session : u # t => wG'[u] = wG[u] /\ objG'[u] = objG[u]
      /\ phase'[t] = "touch" /\ \A u \in Session : u # t => phase'[u] = phase[u]
  BY <1>1, <1>2 DEF ShapeInv, TypeOK
<1> QED
  BY <1>1, <1>3, <1>4, <1>5 DEF Inside, Untouched, Kept, KeepsReports, NextR, NextG, ViewR,
         ViewG, row

\* A flush of the report leaves the rest of the database and the other sessions alone.
LEMMA WithinRequest ==
    ASSUME ShapeInv, NEW t \in Session, NEW next, phase' = [phase EXCEPT ![t] = next],
           UNCHANGED <<reports, groups, job, triage>>,
           \A u \in Session : u # t =>
              objR'[u] = objR[u] /\ objG'[u] = objG[u] /\ wR'[u] = wR[u] /\ wG'[u] = wG[u]
    PROVE  Inside(t) /\ phase'[t] = next
  BY DEF ShapeInv, TypeOK, Inside, Untouched, Kept

LEMMA FlushesOthers ==
    ASSUME TypeOK, NEW t \in Session, NEW s \in Sig, NEW obj, FlushGroup(t, s, obj)
    PROVE  \A u \in Session : u # t => wG'[u] = wG[u] /\ objG'[u] = objG[u]
  BY DEF FlushGroup, TypeOK

LEMMA TouchEffect ==
    ASSUME ShapeInv, SerialInv, NEW t \in Session, Touch(t)
    PROVE  /\ phase[t] = "touch" /\ phase'[t] = AfterGroup(t) /\ Inside(t)
           /\ Refiles(t, job[t].prev) /\ KeepsGroups(t)
<1>1. /\ phase[t] = "touch" /\ FlushReport(t, job[t].cur, job[t].target, objR[t][job[t].cur].group)
      /\ phase' = [phase EXCEPT ![t] = AfterGroup(t)]
      /\ UNCHANGED <<reports, groups, indexed, received, deleted, job, objG, wG, triage>>
  BY DEF Touch
<1>2. phase[t] \in Working
  BY <1>1 DEF Working
<1>3. objR[t][job[t].cur].group = job[t].prev
  BY <1>1 DEF SerialInv, Synced, SyncedR, SyncedG, Located, Pending
<1>4. Refiles(t, job[t].prev)
  BY <1>1, <1>2, <1>3, InStep, ReportFlush
<1>5. \A u \in Session : u # t => wR'[u] = wR[u] /\ objR'[u] = objR[u]
  BY <1>1, <1>2, AtHand, FlushReportFacts DEF ShapeInv, ReportRow
<1>6. Inside(t) /\ phase'[t] = AfterGroup(t)
  BY <1>1, <1>5, WithinRequest
<1> QED
  BY <1>1, <1>4, <1>6 DEF KeepsGroups, NextG, ViewG

\* The row of the group a report leaves is counted without it.
LEMMA MoveEffect ==
    ASSUME ShapeInv, SerialInv, NEW t \in Session, Move(t)
    PROVE  LET p == job[t].prev
               left == OtherMembers(t, job[t].cur, p)
               row == ViewG(t, p)
           IN  /\ phase[t] = "move" /\ phase'[t] = "flushPrevious" /\ Inside(t)
               /\ Refiles(t, job[t].target) /\ \A g \in Sig : NextG(t, g) = ViewG(t, g)
               /\ p \in Sig /\ p # job[t].target /\ row \in GroupRow
               /\ \A g \in Sig : g # p => objG'[t][g] = objG[t][g]
               /\ \E lo \in FirstSeen(left, row.first), hi \in LastSeen(left, row.last) :
                     objG'[t][p] = [was |-> row, now |-> Recounted(row, left, lo, hi)]
<1> DEFINE r == job[t].cur
           p == job[t].prev
           previous == IF objG[t][p] = None THEN Loaded(ViewG(t, p)) ELSE objG[t][p]
           left == OtherMembers(t, r, p)
           row == ViewG(t, p)
<1>1. /\ phase[t] = "move" /\ FlushReport(t, r, job[t].target, job[t].target)
      /\ phase' = [phase EXCEPT ![t] = "flushPrevious"]
      /\ UNCHANGED <<reports, groups, indexed, received, deleted, job, wG, triage>>
  BY DEF Move
<1>2. phase[t] \in Working /\ p \in Sig /\ p # job[t].target
  BY <1>1 DEF Working, ShapeInv, SessionShape
<1>3. row \in GroupRow /\ row # None
  BY <1>2, InStep, NoneAssumption
<1>4. previous = [was |-> row, now |-> row]
  <2>1. CASE objG[t][p] = None
    BY <2>1 DEF Loaded
  <2>2. CASE objG[t][p] # None
    <3>1. objG[t][p].was = row /\ objG[t][p].now = row
      BY <1>1, <1>2, <2>2 DEF SerialInv, Synced, SyncedR, SyncedG, Located, Pending
    <3>2. objG[t][p] \in [was : GroupRow, now : GroupRow]
      BY <1>2, <2>2 DEF ShapeInv, TypeOK
    <3> QED
      BY <2>2, <3>1, <3>2
  <2> QED
    BY <2>1, <2>2
<1>5. PICK lo \in FirstSeen(left, previous.now.first), hi \in LastSeen(left, previous.now.last) :
         objG' = [objG EXCEPT ![t][p] =
                     [previous EXCEPT !.now = Recounted(previous.now, left, lo, hi)]]
  BY DEF Move
<1> HIDE DEF left, previous, row
<1>6. /\ lo \in FirstSeen(left, row.first) /\ hi \in LastSeen(left, row.last)
      /\ objG' = [objG EXCEPT ![t][p] = [was |-> row, now |-> Recounted(row, left, lo, hi)]]
  <2>1. previous.now = row
    BY <1>4
  <2>2. \A x : [previous EXCEPT !.now = x] = [was |-> row, now |-> x]
    BY <1>4
  <2> QED
    BY <1>5, <2>1, <2>2
<1>7. /\ objG'[t][p] = [was |-> row, now |-> Recounted(row, left, lo, hi)]
      /\ \A g \in Sig : g # p => objG'[t][g] = objG[t][g]
      /\ \A u \in Session : u # t => objG'[u] = objG[u]
  BY <1>2, <1>6 DEF ShapeInv, TypeOK
<1>8. \A u \in Session : u # t => wR'[u] = wR[u] /\ objR'[u] = objR[u]
  BY <1>1, <1>2, AtHand, FlushReportFacts DEF ShapeInv
<1>9. Inside(t) /\ phase'[t] = "flushPrevious"
  <2>1. UNCHANGED <<reports, groups, job, triage>> /\ phase' = [phase EXCEPT ![t] = "flushPrevious"]
    BY <1>1
  <2>2. \A u \in Session : u # t =>
           objR'[u] = objR[u] /\ objG'[u] = objG[u] /\ wR'[u] = wR[u] /\ wG'[u] = wG[u]
    BY <1>1, <1>7, <1>8
  <2> QED
    BY <2>1, <2>2, WithinRequest
<1>10. Refiles(t, job[t].target)
  BY <1>1, <1>2, InStep, ReportFlush
<1>11. \A g \in Sig : NextG(t, g) = ViewG(t, g)
  BY <1>1 DEF NextG, ViewG
<1> QED
  BY <1>1, <1>2, <1>3, <1>6, <1>7, <1>9, <1>10, <1>11 DEF left, row

LEMMA FlushPreviousEffect ==
    ASSUME ShapeInv, SerialInv, NEW t \in Session, FlushPrevious(t)
    PROVE  /\ phase[t] = "flushPrevious" /\ phase'[t] = "bump" /\ Inside(t) /\ KeepsReports(t)
           /\ job[t].prev \in Sig /\ job[t].prev # job[t].target
           /\ Flushes(t, job[t].prev, objG[t][job[t].prev].now)
<1> DEFINE p == job[t].prev
<1>1. /\ phase[t] = "flushPrevious" /\ FlushGroup(t, p, objG[t][p])
      /\ phase' = [phase EXCEPT ![t] = "bump"]
      /\ UNCHANGED <<reports, groups, indexed, received, deleted, job, objR, wR, triage>>
  BY DEF FlushPrevious
<1>2. phase[t] \in Working /\ p \in Sig /\ p # job[t].target /\ objG[t][p] # None
  BY <1>1 DEF Working, ShapeInv, SessionShape
<1>3. objG[t][p] \in [was : GroupRow, now : GroupRow] /\ ViewG(t, p) # None
  BY <1>2 DEF ShapeInv, TypeOK, SessionKnows
<1>4. /\ objG[t][p].was = ViewG(t, p) /\ objG[t][p].now.status = objG[t][p].was.status
      /\ objG[t][p].now.regressed = objG[t][p].was.regressed
  BY <1>1, <1>2 DEF SerialInv, Synced, SyncedR, SyncedG, Located, Pending
<1>5. Flushes(t, p, objG[t][p].now)
  BY <1>1, <1>2, <1>3, <1>4, GroupFlush DEF GroupRow
<1>6. \A u \in Session : u # t => wG'[u] = wG[u] /\ objG'[u] = objG[u]
  BY <1>1, <1>2, FlushesOthers DEF ShapeInv
<1>7. Inside(t) /\ phase'[t] = "bump"
  BY <1>1, <1>6, WithinRequest
<1> QED
  BY <1>1, <1>2, <1>5, <1>7 DEF KeepsReports, NextR, ViewR

\* What _assign_group writes of a group, column by column.
LEMMA BumpedFields ==
    ASSUME NEW t \in Session, NEW row \in GroupRow,
           job[t].cur \in Report, objR[t][job[t].cur] \in ReportRow
    PROVE  LET r == job[t].cur
               new == Bumped(t, row)
               sev == objR[t][r].severity
           IN  /\ new \in GroupRow /\ new # None
               /\ new.count = IF AlreadyCounted(t) THEN row.count ELSE row.count + 1
               /\ new.devices = row.devices
               /\ new.severity = IF sev > row.severity THEN sev ELSE row.severity
               /\ new.first = IF OccurredAt[r] < row.first THEN OccurredAt[r] ELSE row.first
               /\ new.last = IF OccurredAt[r] > row.last THEN OccurredAt[r] ELSE row.last
               /\ new.versions = row.versions \cup {FirmwareOf[r]}
               /\ new.status = IF row.status = "resolved" THEN "regressed" ELSE row.status
               /\ new.regressed <=> row.status = "resolved" \/ row.regressed
<1> DEFINE r == job[t].cur
           sev == objR[t][r].severity
           c == [row EXCEPT !.count = IF AlreadyCounted(t) THEN @ ELSE @ + 1]
           w == WidenWindow(c, OccurredAt[r])
           e == EscalateSeverity(w, sev)
           v == RecordFirmwareVersion(e, FirmwareOf[r])
<1>1. Bumped(t, row) \in GroupRow /\ Bumped(t, row) # None
  BY BumpedType, NoneAssumption
<1>2. v = [status |-> row.status, regressed |-> row.regressed,
           count |-> IF AlreadyCounted(t) THEN row.count ELSE row.count + 1,
           devices |-> row.devices, severity |-> IF sev > row.severity THEN sev ELSE row.severity,
           first |-> IF OccurredAt[r] < row.first THEN OccurredAt[r] ELSE row.first,
           last |-> IF OccurredAt[r] > row.last THEN OccurredAt[r] ELSE row.last,
           versions |-> row.versions \cup {FirmwareOf[r]}]
  <2>1. row = [status |-> row.status, regressed |-> row.regressed, count |-> row.count,
               devices |-> row.devices, severity |-> row.severity, first |-> row.first,
               last |-> row.last, versions |-> row.versions]
    BY DEF GroupRow
  <2>2. PICK n : n = IF AlreadyCounted(t) THEN row.count ELSE row.count + 1
    OBVIOUS
  <2>3. c = [status |-> row.status, regressed |-> row.regressed, count |-> n,
             devices |-> row.devices, severity |-> row.severity, first |-> row.first,
             last |-> row.last, versions |-> row.versions]
    BY <2>1, <2>2
  <2>4. w = [status |-> row.status, regressed |-> row.regressed, count |-> n,
             devices |-> row.devices, severity |-> row.severity,
             first |-> IF OccurredAt[r] < row.first THEN OccurredAt[r] ELSE row.first,
             last |-> IF OccurredAt[r] > row.last THEN OccurredAt[r] ELSE row.last,
             versions |-> row.versions]
    <3>1. c.first = row.first /\ c.last = row.last
      BY <2>3
    <3>2. PICK f : f = IF OccurredAt[r] < row.first THEN OccurredAt[r] ELSE row.first
      OBVIOUS
    <3>3. PICK l : l = IF OccurredAt[r] > row.last THEN OccurredAt[r] ELSE row.last
      OBVIOUS
    <3> HIDE DEF c
    <3>4. w = [c EXCEPT !.first = f, !.last = l]
      BY <3>1, <3>2, <3>3 DEF WidenWindow
    <3>5. w = [status |-> row.status, regressed |-> row.regressed, count |-> n,
               devices |-> row.devices, severity |-> row.severity, first |-> f, last |-> l,
               versions |-> row.versions]
      BY <2>3, <3>4
    <3> QED
      BY <3>2, <3>3, <3>5
  <2> HIDE DEF w
  <2>5. e = [w EXCEPT !.severity = IF sev > row.severity THEN sev ELSE row.severity]
    BY <2>4 DEF EscalateSeverity
  <2>6. v = [e EXCEPT !.versions = row.versions \cup {FirmwareOf[r]}]
    BY <2>4, <2>5 DEF RecordFirmwareVersion
  <2> HIDE DEF e, v
  <2>7. PICK m : m = IF sev > row.severity THEN sev ELSE row.severity
    OBVIOUS
  <2>8. PICK f : f = IF OccurredAt[r] < row.first THEN OccurredAt[r] ELSE row.first
    OBVIOUS
  <2>9. PICK l : l = IF OccurredAt[r] > row.last THEN OccurredAt[r] ELSE row.last
    OBVIOUS
  <2>10. e = [status |-> row.status, regressed |-> row.regressed, count |-> n,
              devices |-> row.devices, severity |-> m, first |-> f, last |-> l,
              versions |-> row.versions]
    BY <2>4, <2>5, <2>7, <2>8, <2>9
  <2>11. v = [status |-> row.status, regressed |-> row.regressed, count |-> n,
              devices |-> row.devices, severity |-> m, first |-> f, last |-> l,
              versions |-> row.versions \cup {FirmwareOf[r]}]
    BY <2>6, <2>10
  <2> QED
    BY <2>2, <2>7, <2>8, <2>9, <2>11
<1>3. Bumped(t, row) = MaybeRegress(t, v)
  BY DEF Bumped
<1> HIDE DEF v
<1>4. CASE row.status = "resolved"
  <2>1. Bumped(t, row) = [v EXCEPT !.status = "regressed", !.regressed = TRUE]
    BY <1>2, <1>3, <1>4 DEF MaybeRegress, Regressed
  <2> QED
    BY <1>1, <1>2, <1>4, <2>1
<1>5. CASE row.status # "resolved"
  <2>1. Bumped(t, row) = v
    BY <1>2, <1>3, <1>5 DEF MaybeRegress
  <2> QED
    BY <1>1, <1>2, <1>5, <2>1
<1> QED
  BY <1>4, <1>5

LEMMA BumpEffect ==
    ASSUME ShapeInv, SerialInv, NEW t \in Session, Bump(t)
    PROVE  /\ phase[t] = "bump" /\ phase'[t] = "file" /\ Inside(t) /\ KeepsReports(t)
           /\ ViewG(t, job[t].target) \in GroupRow
           /\ Flushes(t, job[t].target, Bumped(t, ViewG(t, job[t].target)))
<1> DEFINE s == job[t].target
           obj == [objG[t][s] EXCEPT !.now = Bumped(t, objG[t][s].now)]
<1>1. /\ phase[t] = "bump" /\ FlushGroup(t, s, obj)
      /\ phase' = [phase EXCEPT ![t] = "file"]
      /\ UNCHANGED <<reports, groups, indexed, received, deleted, job, objR, wR, triage>>
  BY DEF Bump, BumpedObject
<1>2. phase[t] \in Working /\ phase[t] \in Grouped
  BY <1>1 DEF Working, Grouped
<1>3. s \in Sig /\ objG[t][s] \in [was : GroupRow, now : GroupRow] /\ ViewG(t, s) # None
  BY <1>2, TargetObject DEF Known
<1>4. objG[t][s].was = ViewG(t, s) /\ objG[t][s].now = ViewG(t, s) /\ ViewG(t, s) \in GroupRow
  <2>1. objG[t][s] # None
    BY <1>2 DEF ShapeInv, SessionShape
  <2> QED
    BY <1>1, <1>3, <2>1 DEF SerialInv, Synced, SyncedR, SyncedG, Located, Pending
<1> DEFINE row == ViewG(t, s)
           new == Bumped(t, row)
<1>5. /\ new \in GroupRow
      /\ new.status = IF row.status = "resolved" THEN "regressed" ELSE row.status
      /\ new.regressed <=> row.status = "resolved" \/ row.regressed
  BY <1>2, <1>4, AtHand, BumpedFields
<1> HIDE DEF row, new
<1>6. obj = [was |-> row, now |-> new]
  BY <1>3, <1>4 DEF row, new
<1> HIDE DEF obj
<1>7. /\ obj \in [was : GroupRow, now : GroupRow] /\ obj.was = row /\ obj.now = new
  BY <1>4, <1>5, <1>6 DEF row
<1>8. obj.now.regressed <=> obj.now.status # obj.was.status \/ obj.was.regressed
  BY <1>5, <1>7
<1>9. Flushes(t, s, new)
  BY <1>1, <1>3, <1>7, <1>8, GroupFlush DEF row
<1>10. \A u \in Session : u # t => wG'[u] = wG[u] /\ objG'[u] = objG[u]
  BY <1>1, <1>3, FlushesOthers DEF ShapeInv
<1>11. Inside(t) /\ phase'[t] = "file"
  BY <1>1, <1>10, WithinRequest
<1> QED
  BY <1>1, <1>4, <1>9, <1>11 DEF KeepsReports, NextR, ViewR, new, row

LEMMA FileEffect ==
    ASSUME ShapeInv, SerialInv, NEW t \in Session, File(t)
    PROVE  LET r == job[t].cur
               s == job[t].target
               members == OtherMembers(t, r, s) \cup {r}
           IN  /\ phase[t] = "file" /\ phase'[t] = "tally" /\ Inside(t) /\ Refiles(t, s)
               /\ \A g \in Sig : NextG(t, g) = ViewG(t, g)
               /\ \A g \in Sig : g # s => objG'[t][g] = objG[t][g]
               /\ ViewG(t, s) \in GroupRow
               /\ objG'[t][s] = [was |-> ViewG(t, s),
                     now |-> [ViewG(t, s) EXCEPT !.devices = Cardinality(DevicesOf(members))]]
<1> DEFINE r == job[t].cur
           s == job[t].target
           n == Cardinality(DevicesOf(OtherMembers(t, r, s) \cup {r}))
<1>1. /\ phase[t] = "file" /\ FlushReport(t, r, s, s)
      /\ objG' = [objG EXCEPT ![t][s].now.devices = n]
      /\ phase' = [phase EXCEPT ![t] = "tally"]
      /\ UNCHANGED <<reports, groups, indexed, received, deleted, job, wG, triage>>
  BY DEF File
<1>2. phase[t] \in Working /\ phase[t] \in Grouped
  BY <1>1 DEF Working, Grouped
<1>3. s \in Sig /\ objG[t][s] \in [was : GroupRow, now : GroupRow] /\ objG[t][s] # None
  BY <1>2, TargetObject DEF Known, ShapeInv, SessionShape
<1>4. objG[t][s].was = ViewG(t, s) /\ objG[t][s].now = ViewG(t, s)
  BY <1>1, <1>3 DEF SerialInv, Synced, SyncedR, SyncedG, Located, Pending
<1> HIDE DEF n
<1>5. /\ objG'[t][s] = [objG[t][s] EXCEPT !.now = [objG[t][s].now EXCEPT !.devices = n]]
      /\ \A g \in Sig : g # s => objG'[t][g] = objG[t][g]
      /\ \A u \in Session : u # t => objG'[u] = objG[u]
  BY <1>1, <1>3 DEF ShapeInv, TypeOK
<1>6. objG'[t][s] = [was |-> ViewG(t, s), now |-> [ViewG(t, s) EXCEPT !.devices = n]]
  BY <1>3, <1>4, <1>5
<1>7. \A u \in Session : u # t => wR'[u] = wR[u] /\ objR'[u] = objR[u]
  BY <1>1, <1>2, AtHand, FlushReportFacts DEF ShapeInv
<1>8. Inside(t) /\ phase'[t] = "tally"
  <2>1. UNCHANGED <<reports, groups, job, triage>> /\ phase' = [phase EXCEPT ![t] = "tally"]
    BY <1>1
  <2>2. \A u \in Session : u # t =>
           objR'[u] = objR[u] /\ objG'[u] = objG[u] /\ wR'[u] = wR[u] /\ wG'[u] = wG[u]
    BY <1>1, <1>5, <1>7
  <2> QED
    BY <2>1, <2>2, WithinRequest
<1>9. Refiles(t, s)
  BY <1>1, <1>2, <1>3, InStep, ReportFlush
<1> QED
  BY <1>1, <1>3, <1>4, <1>5, <1>6, <1>8, <1>9 DEF NextG, ViewG, n

LEMMA TallyEffect ==
    ASSUME ShapeInv, SerialInv, NEW t \in Session, Tally(t)
    PROVE  /\ phase[t] = "tally" /\ phase'[t] = IF job[t].todo = {} THEN "commit" ELSE "resolve"
           /\ Inside(t) /\ KeepsReports(t)
           /\ Flushes(t, job[t].target, objG[t][job[t].target].now)
<1> DEFINE s == job[t].target
           next == IF job[t].todo = {} THEN "commit" ELSE "resolve"
<1>1. /\ phase[t] = "tally" /\ FlushGroup(t, s, objG[t][s])
      /\ phase' = [phase EXCEPT ![t] = next]
      /\ UNCHANGED <<reports, groups, indexed, received, deleted, job, objR, wR, triage>>
  BY DEF Tally
<1>2. phase[t] \in Working /\ phase[t] \in Grouped
  BY <1>1 DEF Working, Grouped
<1>3. /\ s \in Sig /\ objG[t][s] \in [was : GroupRow, now : GroupRow] /\ objG[t][s] # None
      /\ ViewG(t, s) # None
  BY <1>2, TargetObject DEF Known, ShapeInv, SessionShape
<1>4. /\ objG[t][s].was = ViewG(t, s)
      /\ objG[t][s].now = [objG[t][s].was EXCEPT !.devices = objG[t][s].now.devices]
  BY <1>1, <1>3 DEF SerialInv, Synced, SyncedR, SyncedG, Located, Pending
<1>5. /\ objG[t][s].now.status = objG[t][s].was.status
      /\ objG[t][s].now.regressed = objG[t][s].was.regressed
  BY <1>3, <1>4 DEF GroupRow
<1>6. Flushes(t, s, objG[t][s].now)
  BY <1>1, <1>3, <1>4, <1>5, GroupFlush DEF GroupRow
<1>7. \A u \in Session : u # t => wG'[u] = wG[u] /\ objG'[u] = objG[u]
  BY <1>1, <1>3, FlushesOthers DEF ShapeInv
<1>8. Inside(t) /\ phase'[t] = next
  BY <1>1, <1>7, WithinRequest
<1> QED
  BY <1>1, <1>6, <1>8 DEF KeepsReports, NextR, ViewR

-----------------------------------------------------------------------------
(* Requests one at a time.                                                 *)

LEMMA CommitEffect ==
    ASSUME ShapeInv, NEW t \in Session, Commit(t)
    PROVE  /\ phase[t] = "commit" /\ phase'[t] = "idle" /\ Untouched(t) /\ triage' = triage
           /\ \A q \in Report : reports'[q] = ViewR(t, q)
           /\ \A g \in Sig : groups'[g] = ViewG(t, g)
  BY DEF Commit, Close, EndTransaction, ShapeInv, TypeOK, Untouched, Kept

LEMMA RollbackEffect ==
    ASSUME ShapeInv, NEW t \in Session, Rollback(t)
    PROVE  phase'[t] = "idle" /\ Untouched(t) /\ UNCHANGED <<reports, groups, triage>>
  BY DEF Rollback, Close, EndTransaction, ShapeInv, TypeOK, Untouched, Kept

LEMMA IngestEffect ==
    ASSUME ShapeInv, NEW t \in Session, NEW r \in Report, Ingest(t, r)
    PROVE  /\ phase[t] = "idle" /\ phase'[t] = "resolve" /\ MayBegin /\ r \notin received
           /\ Untouched(t) /\ UNCHANGED <<groups, triage>>
           /\ reports'[r] = NewReport(r) /\ NewReport(r) # None /\ NewReport(r).group = None
           /\ NewReport(r).severity = ParsedSeverity[r]
           /\ \A q \in Report : q # r => reports'[q] = reports[q] /\ objR'[t][q] = None
           /\ objR'[t][r] = NewReport(r) /\ job'[t].todo = {r}
           /\ \A q \in Report : wR'[t][q] = None
           /\ \A g \in Sig : wG'[t][g] = None /\ objG'[t][g] = None
<1>1. NewReport(r) \in ReportRow /\ NewReport(r).group = None
      /\ NewReport(r).severity = ParsedSeverity[r]
  BY ConstantsAssumption DEF NewReport, ReportRow
<1>2. /\ phase[t] = "idle" /\ MayBegin /\ r \notin received
      /\ reports' = [reports EXCEPT ![r] = NewReport(r)]
      /\ objR' = [objR EXCEPT ![t][r] = NewReport(r)]
      /\ job' = [job EXCEPT ![t].todo = {r}] /\ phase' = [phase EXCEPT ![t] = "resolve"]
      /\ UNCHANGED <<groups, indexed, deleted, objG, wR, wG, triage>>
  BY DEF Ingest
<1>3. /\ job[t] = NoJob /\ objR[t] = NoReports /\ objG[t] = NoGroups
      /\ wR[t] = NoReports /\ wG[t] = NoGroups
  BY <1>2 DEF ShapeInv, SessionShape
<1> HIDE DEF NewReport
<1>4. job'[t].todo = {r} /\ phase'[t] = "resolve" /\ Untouched(t)
  BY <1>2, <1>3 DEF ShapeInv, TypeOK, NoJob, Untouched, Kept
<1>5. /\ reports'[r] = NewReport(r) /\ objR'[t][r] = NewReport(r)
      /\ \A q \in Report : q # r => reports'[q] = reports[q] /\ objR'[t][q] = objR[t][q]
  BY <1>2 DEF ShapeInv, TypeOK
<1> QED
  BY <1>1, <1>2, <1>3, <1>4, <1>5, NoneAssumption DEF NoReports, NoGroups

LEMMA LoadEffect ==
    ASSUME ShapeInv, NEW t \in Session, NEW R \in SUBSET Report, Load(t, R)
    PROVE  /\ phase[t] = "idle" /\ phase'[t] = "resolve" /\ MayBegin /\ R # {}
           /\ Untouched(t) /\ UNCHANGED <<reports, groups, triage>> /\ job'[t].todo = R
           /\ \A q \in Report : wR'[t][q] = None /\ objR'[t][q] \in {reports[q], None}
           /\ \A g \in Sig : wG'[t][g] = None /\ objG'[t][g] \in {Loaded(groups[g]), None}
<1> DEFINE held == {reports[r].group : r \in R} \ {None}
<1>1. /\ phase[t] = "idle" /\ MayBegin /\ R # {}
      /\ objR' = [objR EXCEPT ![t] = [r \in Report |-> IF r \in R THEN reports[r] ELSE None]]
      /\ objG' = [objG EXCEPT ![t] =
                     [s \in Sig |-> IF s \in held THEN Loaded(groups[s]) ELSE None]]
      /\ job' = [job EXCEPT ![t].todo = R, ![t].held = held]
      /\ phase' = [phase EXCEPT ![t] = "resolve"]
      /\ UNCHANGED <<reports, groups, indexed, received, deleted, wR, wG, triage>>
  BY DEF Load
<1> HIDE DEF held
<1>2. job[t] = NoJob /\ wR[t] = NoReports /\ wG[t] = NoGroups
  BY <1>1 DEF ShapeInv, SessionShape
<1>3. job'[t].todo = R /\ phase'[t] = "resolve" /\ Untouched(t)
  BY <1>1, <1>2 DEF ShapeInv, TypeOK, NoJob, Untouched, Kept
<1>4. /\ objR'[t] = [r \in Report |-> IF r \in R THEN reports[r] ELSE None]
      /\ objG'[t] = [s \in Sig |-> IF s \in held THEN Loaded(groups[s]) ELSE None]
  BY <1>1 DEF ShapeInv, TypeOK
<1> QED
  BY <1>1, <1>2, <1>3, <1>4 DEF NoReports, NoGroups

\* An idle session remembers nothing.
LEMMA IdleSyncedNext ==
    ASSUME ShapeInv', NEW t \in Session, phase'[t] = "idle"
    PROVE  Synced(t)'
<1>1. objR'[t] = NoReports /\ objG'[t] = NoGroups /\ wR'[t] = NoReports
  BY DEF ShapeInv, SessionShape
<1>2. SyncedR(t)'
  BY <1>1 DEF SyncedR, NoReports
<1>3. SyncedG(t)'
  BY <1>1 DEF SyncedG, NoGroups
<1>4. Located(t)' /\ Pending(t)'
  BY DEF Located, Pending
<1> QED
  BY <1>2, <1>3, <1>4 DEF Synced

\* A step of a session that runs alone.
LEMMA AloneStep ==
    ASSUME ShapeInv, ShapeInv', NEW t \in Session, Untouched(t), triage' = triage, triage = None,
           \A u \in Session : u # t => phase[u] = "idle", Synced(t)'
    PROVE  SerialInv'
<1>1. \A u \in Session : u # t => phase'[u] = "idle"
  BY DEF Untouched, Kept
<1>2. Alone'
  BY <1>1 DEF Alone
<1>3. \A u \in Session : phase'[u] = "idle" => Synced(u)'
  BY IdleSyncedNext
<1> QED
  BY <1>1, <1>2, <1>3 DEF SerialInv

LEMMA AloneNow ==
    ASSUME SerialInv, NEW t \in Session, phase[t] # "idle"
    PROVE  triage = None /\ \A u \in Session : u # t => phase[u] = "idle"
  BY DEF SerialInv, Alone

\* Where nothing is flushed, or one report is, memory stays in step.
LEMMA KeepsSynced ==
    ASSUME NEW t \in Session, SyncedR(t), reports' = reports, KeepsReports(t)
    PROVE  SyncedR(t)'
  BY DEF SyncedR, KeepsReports, NextR, ViewR

LEMMA RefilesSynced ==
    ASSUME NEW t \in Session, SyncedR(t), reports' = reports, job[t].cur \in Report,
           NEW g, Refiles(t, g)
    PROVE  SyncedR(t)'
<1> DEFINE r == job[t].cur
<1>1. wR'[t][r] = NextR(t, r) /\ objR'[t][r] = NextR(t, r) /\ NextR(t, r) # None
      /\ NextR(t, r).severity = ViewR(t, r).severity /\ ViewR(t, r) # None
      /\ \A q \in Report : q # r =>
            NextR(t, q) = ViewR(t, q) /\ objR'[t][q] = objR[t][q] /\ wR'[t][q] = wR[t][q]
  BY DEF Refiles
<1>2. reports[r] # None /\ NextR(t, r).severity = reports[r].severity
  BY <1>1 DEF SyncedR, ViewR
<1> QED
  BY <1>1, <1>2 DEF SyncedR, NextR, ViewR

\* Each step of a request keeps its memory in step with what it would read.
LEMMA ResolveSynced ==
    ASSUME ShapeInv, NEW t \in Session, Synced(t), Resolve(t)
    PROVE  Synced(t)'
<1>1. /\ phase[t] = "resolve" /\ phase'[t] = "lookup" /\ reports' = reports /\ KeepsReports(t)
      /\ \A g \in Sig : /\ NextG(t, g) = ViewG(t, g)
                        /\ objG'[t][g] # None => objG'[t][g] = objG[t][g]
  BY ResolveEffect
<1>2. job'[t].cur \in Report /\ job'[t].prev = objR[t][job'[t].cur].group
  BY ResolveEffect
<1>3. SyncedR(t)'
  BY <1>1, KeepsSynced DEF Synced
<1>4. SyncedG(t)'
  BY <1>1 DEF Synced, SyncedG, NextG, ViewG
<1>5. Located(t)'
  BY <1>1, <1>2 DEF Located, KeepsReports
<1>6. Pending(t)'
  BY <1>1 DEF Pending
<1> QED
  BY <1>3, <1>4, <1>5, <1>6 DEF Synced

LEMMA LookupSynced ==
    ASSUME ShapeInv, NEW t \in Session, Synced(t), Lookup(t)
    PROVE  Synced(t)'
<1> DEFINE r == job[t].cur
           s == job[t].target
           p == job[t].prev
<1>1. /\ phase[t] = "lookup" /\ reports' = reports /\ KeepsReports(t) /\ job'[t] = job[t]
      /\ \A g \in Sig : /\ NextG(t, g) = ViewG(t, g)
                        /\ objG'[t][g] = objG[t][g] \/ objG'[t][g] = Loaded(ViewG(t, g))
      /\ \/ ViewG(t, s) = None /\ phase'[t] = "insert"
         \/ phase'[t] = AfterGroup(t)
  BY LookupEffect DEF Inside
<1>2. r \in Report /\ s \in Sig
  BY <1>1, AtHand DEF Working
<1>3. SyncedR(t)'
  BY <1>1, KeepsSynced DEF Synced
<1>4. SyncedG(t)'
  <2> SUFFICES ASSUME NEW g \in Sig, objG'[t][g] # None
               PROVE  objG'[t][g].was = NextG(t, g) /\ objG'[t][g].now = NextG(t, g)
    BY DEF SyncedG, NextG, ViewG
  <2>1. CASE objG'[t][g] = objG[t][g]
    BY <1>1, <2>1 DEF Synced, SyncedG
  <2>2. CASE objG'[t][g] = Loaded(ViewG(t, g))
    BY <1>1, <2>2 DEF Loaded
  <2> QED
    BY <1>1, <2>1, <2>2
<1>5. objR'[t][r].group = p
  BY <1>1, <1>2 DEF Synced, Located, KeepsReports
<1>6. CASE ViewG(t, s) = None /\ phase'[t] = "insert"
  BY <1>1, <1>2, <1>3, <1>4, <1>5, <1>6 DEF Synced, Located, Pending, NextG, ViewG
<1>7. CASE phase'[t] = AfterGroup(t)
  BY <1>1, <1>3, <1>4, <1>5, <1>7 DEF Synced, Located, Pending, AfterGroup, Leaves
<1> QED
  BY <1>1, <1>6, <1>7

LEMMA InsertSynced ==
    ASSUME ShapeInv, NEW t \in Session, Synced(t), Insert(t)
    PROVE  Synced(t)'
<1> DEFINE r == job[t].cur
           s == job[t].target
           row == NewGroup(t, r)
<1> HIDE DEF row
<1>1. /\ phase[t] = "insert" /\ phase'[t] = "touch" /\ reports' = reports /\ KeepsReports(t)
      /\ job'[t] = job[t] /\ NextG(t, s) = row /\ objG'[t][s] = Loaded(row)
      /\ \A g \in Sig : g # s => NextG(t, g) = ViewG(t, g) /\ objG'[t][g] = objG[t][g]
  BY InsertEffect DEF Inside, row
<1>2. r \in Report /\ s \in Sig
  BY <1>1, AtHand DEF Working
<1>3. SyncedR(t)'
  BY <1>1, KeepsSynced DEF Synced
<1>4. SyncedG(t)'
  BY <1>1 DEF Synced, SyncedG, NextG, ViewG, Loaded
<1>5. Located(t)' /\ Pending(t)'
  BY <1>1, <1>2 DEF Synced, Located, Pending, KeepsReports
<1> QED
  BY <1>3, <1>4, <1>5 DEF Synced

LEMMA TouchSynced ==
    ASSUME ShapeInv, SerialInv, NEW t \in Session, Touch(t)
    PROVE  Synced(t)'
<1> DEFINE r == job[t].cur
           p == job[t].prev
<1>1. /\ phase[t] = "touch" /\ phase'[t] = AfterGroup(t) /\ reports' = reports /\ Refiles(t, p)
      /\ job'[t] = job[t] /\ \A g \in Sig : NextG(t, g) = ViewG(t, g) /\ objG'[t][g] = objG[t][g]
  BY TouchEffect DEF Inside, KeepsGroups
<1>2. r \in Report /\ Synced(t)
  BY <1>1, AtHand DEF Working, SerialInv
<1>3. SyncedR(t)'
  BY <1>1, <1>2, RefilesSynced DEF Synced
<1>4. SyncedG(t)'
  BY <1>1, <1>2 DEF Synced, SyncedG, NextG, ViewG
<1>5. objR'[t][r].group = p
  BY <1>1 DEF Refiles
<1>6. Located(t)' /\ Pending(t)'
  BY <1>1, <1>5 DEF Located, Pending, AfterGroup, Leaves
<1> QED
  BY <1>3, <1>4, <1>6 DEF Synced

LEMMA MoveSynced ==
    ASSUME ShapeInv, SerialInv, NEW t \in Session, Move(t)
    PROVE  Synced(t)'
<1> DEFINE r == job[t].cur
           s == job[t].target
           p == job[t].prev
           row == ViewG(t, p)
           left == OtherMembers(t, r, p)
<1> HIDE DEF row, left
<1>1. /\ phase[t] = "move" /\ phase'[t] = "flushPrevious" /\ reports' = reports /\ Refiles(t, s)
      /\ job'[t] = job[t] /\ \A g \in Sig : NextG(t, g) = ViewG(t, g)
      /\ p \in Sig /\ row \in GroupRow /\ \A g \in Sig : g # p => objG'[t][g] = objG[t][g]
      /\ \E lo, hi : objG'[t][p] = [was |-> row, now |-> Recounted(row, left, lo, hi)]
  BY MoveEffect DEF Inside, row, left
<1>2. r \in Report /\ Synced(t)
  BY <1>1, AtHand DEF Working, SerialInv
<1>3. PICK lo, hi : objG'[t][p] = [was |-> row, now |-> Recounted(row, left, lo, hi)]
  BY <1>1
<1>4. /\ objG'[t][p].was = row /\ objG'[t][p].now.status = row.status
      /\ objG'[t][p].now.regressed = row.regressed /\ objG'[t][p].now.severity = row.severity
  <2>1. /\ Recounted(row, left, lo, hi).status = row.status
        /\ Recounted(row, left, lo, hi).regressed = row.regressed
        /\ Recounted(row, left, lo, hi).severity = row.severity
    BY <1>1 DEF Recounted, GroupRow
  <2> QED
    BY <1>3, <2>1
<1>5. SyncedR(t)'
  BY <1>1, <1>2, RefilesSynced DEF Synced
<1>6. SyncedG(t)'
  <2>1. \A g \in Sig : ViewG(t, g)' = ViewG(t, g)
    BY <1>1 DEF NextG, ViewG
  <2>2. \A g \in Sig : g # p /\ objG[t][g] # None =>
           objG[t][g].was = ViewG(t, g) /\ objG[t][g].now = ViewG(t, g)
    BY <1>1, <1>2 DEF Synced, SyncedG
  <2> QED
    BY <1>1, <1>4, <2>1, <2>2 DEF SyncedG, row
<1>7. Located(t)' /\ Pending(t)'
  BY <1>1, <1>4 DEF Located, Pending, Refiles
<1> QED
  BY <1>5, <1>6, <1>7 DEF Synced

LEMMA FlushPreviousSynced ==
    ASSUME ShapeInv, SerialInv, NEW t \in Session, FlushPrevious(t)
    PROVE  Synced(t)'
<1> DEFINE r == job[t].cur
           s == job[t].target
           p == job[t].prev
           row == objG[t][p].now
<1> HIDE DEF row
<1>1. /\ phase[t] = "flushPrevious" /\ phase'[t] = "bump" /\ reports' = reports /\ KeepsReports(t)
      /\ job'[t] = job[t] /\ p \in Sig /\ NextG(t, p) = row /\ objG'[t][p] = Loaded(row)
      /\ \A g \in Sig : g # p => NextG(t, g) = ViewG(t, g) /\ objG'[t][g] = objG[t][g]
  BY FlushPreviousEffect DEF Inside, Flushes, row
<1>2. r \in Report /\ Synced(t)
  BY <1>1, AtHand DEF Working, SerialInv
<1>3. SyncedR(t)'
  BY <1>1, <1>2, KeepsSynced DEF Synced
<1>4. SyncedG(t)'
  BY <1>1, <1>2 DEF Synced, SyncedG, NextG, ViewG, Loaded
<1>5. p # None
  BY <1>1, NoneAssumption
<1>6. Located(t)' /\ Pending(t)'
  BY <1>1, <1>2, <1>5 DEF Synced, Located, Pending, KeepsReports
<1> QED
  BY <1>3, <1>4, <1>6 DEF Synced

LEMMA BumpSynced ==
    ASSUME ShapeInv, SerialInv, NEW t \in Session, Bump(t)
    PROVE  Synced(t)'
<1> DEFINE r == job[t].cur
           s == job[t].target
           row == Bumped(t, ViewG(t, s))
<1> HIDE DEF row
<1>1. /\ phase[t] = "bump" /\ phase'[t] = "file" /\ reports' = reports /\ KeepsReports(t)
      /\ job'[t] = job[t] /\ NextG(t, s) = row /\ objG'[t][s] = Loaded(row)
      /\ \A g \in Sig : g # s => NextG(t, g) = ViewG(t, g) /\ objG'[t][g] = objG[t][g]
  BY BumpEffect DEF Inside, Flushes, row
<1>2. r \in Report /\ Synced(t)
  BY <1>1, AtHand DEF Working, SerialInv
<1>3. SyncedR(t)'
  BY <1>1, <1>2, KeepsSynced DEF Synced
<1>4. SyncedG(t)'
  BY <1>1, <1>2 DEF Synced, SyncedG, NextG, ViewG, Loaded
<1>5. Located(t)' /\ Pending(t)'
  BY <1>1, <1>2 DEF Synced, Located, Pending, KeepsReports
<1> QED
  BY <1>3, <1>4, <1>5 DEF Synced

LEMMA FileSynced ==
    ASSUME ShapeInv, SerialInv, NEW t \in Session, File(t)
    PROVE  Synced(t)'
<1> DEFINE r == job[t].cur
           s == job[t].target
           row == ViewG(t, s)
           n == Cardinality(DevicesOf(OtherMembers(t, r, s) \cup {r}))
<1> HIDE DEF row, n
<1>1. /\ phase[t] = "file" /\ phase'[t] = "tally" /\ reports' = reports /\ Refiles(t, s)
      /\ job'[t] = job[t] /\ \A g \in Sig : NextG(t, g) = ViewG(t, g)
      /\ row \in GroupRow /\ \A g \in Sig : g # s => objG'[t][g] = objG[t][g]
      /\ objG'[t][s] = [was |-> row, now |-> [row EXCEPT !.devices = n]]
  BY FileEffect DEF Inside, row, n
<1>2. r \in Report /\ Synced(t)
  BY <1>1, AtHand DEF Working, SerialInv
<1>3. /\ objG'[t][s].was = row
      /\ objG'[t][s].now = [objG'[t][s].was EXCEPT !.devices = objG'[t][s].now.devices]
  BY <1>1 DEF GroupRow
<1>4. SyncedR(t)'
  BY <1>1, <1>2, RefilesSynced DEF Synced
<1>5. SyncedG(t)'
  <2>1. objG'[t][s].was = NextG(t, s)
    BY <1>1, <1>2, <1>3, AtHand DEF Working, row
  <2> QED
    BY <1>1, <1>2, <2>1 DEF Synced, SyncedG, NextG, ViewG
<1>6. Located(t)' /\ Pending(t)'
  BY <1>1, <1>3 DEF Located, Pending, Refiles
<1> QED
  BY <1>4, <1>5, <1>6 DEF Synced

LEMMA TallySynced ==
    ASSUME ShapeInv, SerialInv, NEW t \in Session, Tally(t)
    PROVE  Synced(t)'
<1> DEFINE s == job[t].target
           row == objG[t][s].now
<1> HIDE DEF row
<1>1. /\ phase[t] = "tally" /\ phase'[t] \in {"commit", "resolve"} /\ reports' = reports
      /\ KeepsReports(t) /\ NextG(t, s) = row /\ objG'[t][s] = Loaded(row)
      /\ \A g \in Sig : g # s => NextG(t, g) = ViewG(t, g) /\ objG'[t][g] = objG[t][g]
  BY TallyEffect DEF Inside, Flushes, row
<1>2. Synced(t)
  BY DEF SerialInv
<1>3. SyncedR(t)'
  BY <1>1, <1>2, KeepsSynced DEF Synced
<1>4. SyncedG(t)'
  BY <1>1, <1>2 DEF Synced, SyncedG, NextG, ViewG, Loaded
<1>5. Located(t)' /\ Pending(t)'
  BY <1>1 DEF Located, Pending
<1> QED
  BY <1>3, <1>4, <1>5 DEF Synced

-----------------------------------------------------------------------------
(* The steps of a system that runs one request at a time.                  *)

\* What a request does between its start and its end.
Within(t) ==
    \/ Resolve(t) \/ Lookup(t) \/ Insert(t) \/ Touch(t) \/ Move(t) \/ FlushPrevious(t)
    \/ Bump(t) \/ File(t) \/ Tally(t)

Starts(t) ==
    \/ \E r \in Report : Ingest(t, r)
    \/ \E R \in SUBSET Report : (\A r \in R : reports[r] # None) /\ Load(t, R)

\* An idle session waits for nobody, so it is never the victim.
LEMMA VictimBusy ==
    ASSUME NEW t \in Session, DeadlockVictim(t)
    PROVE  phase[t] # "idle"
<1>1. WaitsFor(t) # {}
  BY DEF DeadlockVictim
<1>2. phase[t] = "idle" => WaitsFor(t) = {}
  BY DEF WaitsFor
<1> QED
  BY <1>1, <1>2

LEMMA StepKinds ==
    ASSUME Next
    PROVE  \/ \E t \in Session : Within(t) \/ Starts(t) \/ Commit(t)
           \/ \E t \in Session : phase[t] # "idle" /\ Rollback(t)
           \/ Engineer
<1>1. ASSUME NEW t \in Session, Begin(t) PROVE Starts(t)
  <2>1. \A f \in Firmware :
           LET R == {r \in Report : reports[r] # None /\ FirmwareOf[r] = f}
           IN  R \in SUBSET Report /\ \A r \in R : reports[r] # None
    OBVIOUS
  <2>2. \A r \in Report : Symbolicate(t, r) => Starts(t)
    BY DEF Symbolicate, Starts
  <2>3. \A f \in Firmware : Resymbolicate(t, f) => Starts(t)
    BY <2>1 DEF Resymbolicate, Starts
  <2> QED
    BY <1>1, <2>2, <2>3 DEF Begin, Starts
<1>2. ASSUME NEW t \in Session, Advance(t)
      PROVE  Within(t) \/ Commit(t) \/ (phase[t] # "idle" /\ Rollback(t))
  <2>1. InsertConflict(t) => phase[t] # "idle" /\ Rollback(t)
    BY DEF InsertConflict
  <2>2. StaleReport(t) => phase[t] # "idle" /\ Rollback(t)
    BY DEF StaleReport
  <2>3. DeadlockVictim(t) => phase[t] # "idle" /\ Rollback(t)
    BY VictimBusy DEF DeadlockVictim
  <2> QED
    BY <1>2, <2>1, <2>2, <2>3 DEF Advance, Within
<1>3. ASSUME NEW t \in Session, Abort(t) PROVE phase[t] # "idle" /\ Rollback(t)
  BY <1>3 DEF Abort
<1> QED
  BY <1>1, <1>2, <1>3 DEF Next

\* While every session is idle, only a PATCH in flight says anything.
LEMMA AllIdle ==
    ASSUME ShapeInv', \A t \in Session : phase'[t] = "idle",
           triage' # None => /\ groups'[triage'.group].status = triage'.status
                             /\ groups'[triage'.group].regressed = triage'.regressed
    PROVE  SerialInv'
<1>1. \A t \in Session : Synced(t)'
  BY IdleSyncedNext
<1>2. Alone'
  BY DEF Alone
<1> QED
  BY <1>1, <1>2 DEF SerialInv

LEMMA WithinSynced ==
    ASSUME ShapeInv, SerialInv, NEW t \in Session, Within(t)
    PROVE  Synced(t)' /\ Untouched(t) /\ triage' = triage /\ phase[t] # "idle"
           /\ reports' = reports /\ groups' = groups
<1>1. Synced(t)
  BY DEF SerialInv
<1>2. Synced(t)'
  BY <1>1, ResolveSynced, LookupSynced, InsertSynced, TouchSynced, MoveSynced,
     FlushPreviousSynced, BumpSynced, FileSynced, TallySynced DEF Within
<1>3. CASE Resolve(t)
  BY <1>2, <1>3, ResolveEffect
<1>4. CASE Lookup(t)
  BY <1>2, <1>4, LookupEffect DEF Inside
<1>5. CASE Insert(t)
  BY <1>2, <1>5, InsertEffect DEF Inside
<1>6. CASE Touch(t)
  BY <1>2, <1>6, TouchEffect DEF Inside
<1>7. CASE Move(t)
  BY <1>2, <1>7, MoveEffect DEF Inside
<1>8. CASE FlushPrevious(t)
  BY <1>2, <1>8, FlushPreviousEffect DEF Inside
<1>9. CASE Bump(t)
  BY <1>2, <1>9, BumpEffect DEF Inside
<1>10. CASE File(t)
  BY <1>2, <1>10, FileEffect DEF Inside
<1>11. CASE Tally(t)
  BY <1>2, <1>11, TallyEffect DEF Inside
<1> QED
  BY <1>3, <1>4, <1>5, <1>6, <1>7, <1>8, <1>9, <1>10, <1>11 DEF Within

LEMMA StartSynced ==
    ASSUME ShapeInv, NEW t \in Session, Starts(t)
    PROVE  Synced(t)' /\ Untouched(t) /\ triage' = triage /\ MayBegin
           /\ phase'[t] = "resolve" /\ groups' = groups
<1>1. ASSUME NEW r \in Report, Ingest(t, r)
      PROVE  Synced(t)' /\ Untouched(t) /\ triage' = triage /\ MayBegin
             /\ phase'[t] = "resolve" /\ groups' = groups
  <2>1. /\ Untouched(t) /\ MayBegin /\ UNCHANGED <<groups, triage>> /\ phase'[t] = "resolve"
        /\ reports'[r] = NewReport(r) /\ objR'[t][r] = NewReport(r)
        /\ \A q \in Report : q # r => objR'[t][q] = None
        /\ \A q \in Report : wR'[t][q] = None
        /\ \A g \in Sig : objG'[t][g] = None
    BY <1>1, IngestEffect
  <2>2. SyncedR(t)'
    BY <2>1 DEF SyncedR, ViewR
  <2> QED
    BY <2>1, <2>2 DEF Synced, SyncedG, Located, Pending
<1>2. ASSUME NEW R \in SUBSET Report, Load(t, R)
      PROVE  Synced(t)' /\ Untouched(t) /\ triage' = triage /\ MayBegin
             /\ phase'[t] = "resolve" /\ groups' = groups
  <2>1. /\ Untouched(t) /\ MayBegin /\ UNCHANGED <<reports, groups, triage>>
        /\ phase'[t] = "resolve"
        /\ \A q \in Report : wR'[t][q] = None /\ objR'[t][q] \in {reports[q], None}
        /\ \A g \in Sig : wG'[t][g] = None /\ objG'[t][g] \in {Loaded(groups[g]), None}
    BY <1>2, LoadEffect
  <2>2. SyncedR(t)'
    BY <2>1 DEF SyncedR, ViewR
  <2>3. SyncedG(t)'
    BY <2>1 DEF SyncedG, ViewG, Loaded
  <2> QED
    BY <2>1, <2>2, <2>3 DEF Synced, Located, Pending
<1> QED
  BY <1>1, <1>2 DEF Starts

\* What engineers do finds every session idle.
LEMMA EngineerAlone ==
    ASSUME OneAtATime, SerialInv, Engineer
    PROVE  /\ \A t \in Session : phase[t] = "idle" /\ phase' = phase
           /\ UNCHANGED sessionVars
<1>1. ASSUME MayBegin PROVE \A t \in Session : phase[t] = "idle"
  BY <1>1 DEF MayBegin
<1>2. triage # None => \A t \in Session : phase[t] = "idle"
  BY DEF SerialInv, Alone
<1>3. \A r \in Report : DeleteReport(r) => MayBegin /\ UNCHANGED sessionVars
  BY DEF DeleteReport
<1>4. \A r \in Report, v \in TriageSeverity : TriageReport(r, v) => MayBegin /\ UNCHANGED sessionVars
  BY DEF TriageReport
<1>5. \A s \in Sig : TriageGroup(s) => MayBegin /\ UNCHANGED sessionVars
  BY DEF TriageGroup
<1>6. \A v \in TriageStatus : SaveTriage(v) => triage # None /\ UNCHANGED sessionVars
  BY DEF SaveTriage
<1>7. \A f \in Firmware : IndexBuild(f) \/ DeleteBuild(f) => MayBegin /\ UNCHANGED sessionVars
  BY DEF IndexBuild, DeleteBuild
<1>8. UNCHANGED sessionVars /\ (MayBegin \/ triage # None)
  BY <1>3, <1>4, <1>5, <1>6, <1>7 DEF Engineer
<1>9. phase' = phase
  BY <1>8 DEF sessionVars
<1> QED
  BY <1>1, <1>2, <1>8, <1>9

LEMMA SerialStep ==
    ASSUME OneAtATime, ShapeInv, ShapeInv', SerialInv, Next
    PROVE  SerialInv'
<1>1. ASSUME NEW t \in Session, Within(t) PROVE SerialInv'
  <2>1. Synced(t)' /\ Untouched(t) /\ triage' = triage /\ phase[t] # "idle"
    BY <1>1, WithinSynced
  <2> QED
    BY <2>1, AloneNow, AloneStep
<1>2. ASSUME NEW t \in Session, Starts(t) PROVE SerialInv'
  <2>1. Synced(t)' /\ Untouched(t) /\ triage' = triage /\ MayBegin
    BY <1>2, StartSynced
  <2>2. triage = None /\ \A u \in Session : phase[u] = "idle"
    BY <2>1 DEF MayBegin
  <2> QED
    BY <2>1, <2>2, AloneStep
<1>3. ASSUME NEW t \in Session, phase[t] # "idle", Commit(t) \/ Rollback(t) PROVE SerialInv'
  <2>1. phase'[t] = "idle" /\ Untouched(t) /\ triage' = triage
    BY <1>3, CommitEffect, RollbackEffect
  <2>2. triage = None /\ \A u \in Session : phase'[u] = "idle"
    BY <1>3, <2>1, AloneNow DEF Untouched, Kept
  <2> QED
    BY <2>1, <2>2, AllIdle
<1>4. ASSUME Engineer PROVE SerialInv'
  <2>1. \A t \in Session : phase'[t] = "idle"
    BY <1>4, EngineerAlone
  <2>2. triage # None => /\ groups[triage.group].status = triage.status
                         /\ groups[triage.group].regressed = triage.regressed
    BY DEF SerialInv, Alone
  <2>3. triage' # None => /\ groups'[triage'.group].status = triage'.status
                          /\ groups'[triage'.group].regressed = triage'.regressed
    <3>1. ASSUME NEW s \in Sig, TriageGroup(s)
          PROVE  /\ groups' = groups
                 /\ triage'.group = s /\ triage'.status = groups[s].status
                 /\ triage'.regressed = groups[s].regressed
      BY <3>1 DEF TriageGroup
    <3>2. \A v \in TriageStatus : SaveTriage(v) => triage' = None
      BY DEF SaveTriage
    <3>3. \A r \in Report : DeleteReport(r) => UNCHANGED <<groups, triage>>
      BY DEF DeleteReport
    <3>4. \A r \in Report, v \in TriageSeverity : TriageReport(r, v) => UNCHANGED <<groups, triage>>
      BY DEF TriageReport
    <3>5. \A f \in Firmware : IndexBuild(f) \/ DeleteBuild(f) => UNCHANGED <<groups, triage>>
      BY DEF IndexBuild, DeleteBuild
    <3> QED
      BY <1>4, <2>2, <3>1, <3>2, <3>3, <3>4, <3>5 DEF Engineer
  <2> QED
    BY <2>1, <2>3, AllIdle
<1>5. \A t \in Session : Commit(t) => phase[t] # "idle"
  BY DEF Commit
<1>6. ASSUME NEW t \in Session, Within(t) \/ Starts(t) \/ Commit(t) PROVE SerialInv'
  BY <1>1, <1>2, <1>3, <1>5, <1>6
<1>7. ASSUME NEW t \in Session, phase[t] # "idle", Rollback(t) PROVE SerialInv'
  BY <1>3, <1>7
<1> QED
  BY <1>4, <1>6, <1>7, StepKinds

LEMMA SerialStutters ==
    ASSUME SerialInv, UNCHANGED vars
    PROVE  SerialInv'
<1>1. UNCHANGED <<reports, groups, phase, job, objR, objG, wR, wG, triage>>
  BY DEF vars, sessionVars
<1>2. Alone'
  BY <1>1 DEF SerialInv, Alone
<1>3. ASSUME NEW t \in Session PROVE Synced(t)'
  <2>1. Synced(t) /\ \A q \in Report : ViewR(t, q)' = ViewR(t, q)
    BY <1>1 DEF SerialInv, ViewR
  <2>2. \A g \in Sig : ViewG(t, g)' = ViewG(t, g)
    BY <1>1 DEF ViewG
  <2>3. SyncedR(t)'
    BY <1>1, <2>1 DEF Synced, SyncedR
  <2>4. SyncedG(t)'
    BY <1>1, <2>1, <2>2 DEF Synced, SyncedG
  <2>5. Located(t)'
    BY <1>1, <2>1 DEF Synced, Located, ViewG
  <2>6. Pending(t)'
    BY <1>1, <2>1 DEF Synced, Pending
  <2> QED
    BY <2>3, <2>4, <2>5, <2>6 DEF Synced
<1> QED
  BY <1>2, <1>3 DEF SerialInv

LEMMA InitSerial ==
    ASSUME Init
    PROVE  SerialInv
  BY DEF Init, SerialInv, Alone, Synced, SyncedR, SyncedG, Located, Pending, ViewR, ViewG,
         NoReports, NoGroups

\* In every reachable state of a system that runs one request at a time.
LEMMA SerialAlways ==
    ASSUME OneAtATime
    PROVE  Spec => [](ShapeInv /\ StoredInv /\ SerialInv)
<1> DEFINE J == ShapeInv /\ StoredInv /\ SerialInv
<1>1. Init => J
  BY InitShape, InitSerial DEF Init, StoredInv, AcceptedReportsKept, NoReports
<1>2. J /\ [Next]_vars => J'
  <2> SUFFICES ASSUME J, [Next]_vars PROVE J'
    OBVIOUS
  <2>1. ShapeInv' /\ StoredInv'
    BY StepShape, StepStored
  <2> QED
    BY <2>1, SerialStep, SerialStutters
<1> QED
  BY <1>1, <1>2, PTL DEF Spec

-----------------------------------------------------------------------------
(* The counters.                                                           *)

\* The reports a SELECT finds in group s after the step.
NextMembers(t, s) == {q \in Report : NextR(t, q) # None /\ NextR(t, q).group = s}

LEMMA KeptMembers ==
    ASSUME NEW t \in Session, KeepsReports(t)
    PROVE  \A h : NextMembers(t, h) = ViewMembers(t, h)
  BY DEF KeepsReports, NextMembers, ViewMembers

LEMMA RefiledMembers ==
    ASSUME NEW t \in Session, job[t].cur \in Report, NEW g, Refiles(t, g)
    PROVE  \A h : NextMembers(t, h) = IF h = g THEN ViewMembers(t, h) \cup {job[t].cur}
                                      ELSE ViewMembers(t, h) \ {job[t].cur}
  BY DEF Refiles, NextMembers, ViewMembers

\* Where the current report is, and what its set of neighbours is called in the code.
LEMMA Whereabouts ==
    ASSUME ShapeInv, SerialInv, NEW t \in Session, phase[t] \in Working
    PROVE  /\ \A g \in Sig : job[t].cur \in ViewMembers(t, g) <=> objR[t][job[t].cur].group = g
           /\ \A g : OtherMembers(t, job[t].cur, g) = ViewMembers(t, g) \ {job[t].cur}
           /\ \A g \in Sig : ViewG(t, g) = None => ViewMembers(t, g) = {}
<1>1. /\ job[t].cur \in Report /\ objR[t][job[t].cur] = ViewR(t, job[t].cur)
      /\ ViewR(t, job[t].cur) # None
      /\ \A q \in Report : ViewR(t, q) # None /\ ViewR(t, q).group # None
            => ViewR(t, q).group \in Sig /\ ViewG(t, ViewR(t, q).group) # None
  BY InStep, NoneAssumption
<1>2. \A g \in Sig : g # None
  BY NoneAssumption
<1> QED
  BY <1>1, <1>2 DEF ViewMembers, OtherMembers

LEMMA MembersFinite ==
    ASSUME NEW t \in Session, NEW g, NEW r \in Report
    PROVE  /\ IsFiniteSet(ViewMembers(t, g)) /\ Cardinality(ViewMembers(t, g)) \in Nat
           /\ IsFiniteSet(ViewMembers(t, g) \ {r}) /\ Cardinality(ViewMembers(t, g) \ {r}) \in Nat
           /\ r \notin ViewMembers(t, g) =>
                 Cardinality(ViewMembers(t, g) \cup {r}) = Cardinality(ViewMembers(t, g)) + 1
<1>1. ViewMembers(t, g) \in SUBSET Report /\ ViewMembers(t, g) \ {r} \in SUBSET Report
  BY DEF ViewMembers
<1>2. IsFiniteSet(ViewMembers(t, g)) /\ IsFiniteSet(ViewMembers(t, g) \ {r})
  BY <1>1, DevicesFinite
<1> HIDE DEF ViewMembers
<1> QED
  BY <1>2, FS_AddElement, FS_CardinalityType

\* The counters fit after a step of a request, told in terms of what is read next.
LEMMA CountersCarry ==
    ASSUME NEW t \in Session, NEW j, job[t] = j, job'[t] = j,
           \A g \in Sig : NextG(t, g) # None =>
              \/ Tallied(NextG(t, g), NextMembers(t, g))
              \/ phase'[t] = "flushPrevious" /\ g = j.prev
              \/ phase'[t] \in {"flushPrevious", "bump", "file", "tally"} /\ g = j.target,
           phase'[t] = "flushPrevious" => Tallied(objG'[t][j.prev].now, NextMembers(t, j.prev)),
           phase'[t] \in {"flushPrevious", "bump"} =>
              NextG(t, j.target).count =
                 Cardinality(IF j.prev = j.target THEN NextMembers(t, j.target)
                             ELSE NextMembers(t, j.target) \ {j.cur}),
           phase'[t] = "file" =>
              NextG(t, j.target).count = Cardinality(NextMembers(t, j.target) \cup {j.cur}),
           phase'[t] = "tally" => Tallied(objG'[t][j.target].now, NextMembers(t, j.target))
    PROVE  CountersFit(t)'
<1>1. \A g : ViewMembers(t, g)' = NextMembers(t, g) /\ ViewG(t, g)' = NextG(t, g)
  BY DEF ViewMembers, NextMembers, ViewR, NextR, ViewG, NextG
<1>2. /\ ViewMembers(t, job[t].prev)' = NextMembers(t, j.prev)
      /\ ViewMembers(t, job[t].target)' = NextMembers(t, j.target)
      /\ ViewG(t, job[t].target)' = NextG(t, j.target)
  BY DEF ViewMembers, NextMembers, ViewR, NextR, ViewG, NextG
<1>3. AlreadyCounted(t)' <=> j.prev = j.target
  BY DEF AlreadyCounted
<1> QED
  BY <1>1, <1>2, <1>3 DEF CountersFit, Tallied

\* Each step of a request, while its session's counters fit.
LEMMA ResolveCounts ==
    ASSUME ShapeInv, NEW t \in Session, CountersFit(t), Resolve(t)
    PROVE  CountersFit(t)'
<1>1. /\ phase[t] = "resolve" /\ phase'[t] = "lookup"
      /\ \A g \in Sig : NextG(t, g) = ViewG(t, g)
      /\ \A g : NextMembers(t, g) = ViewMembers(t, g)
  BY ResolveEffect, KeptMembers
<1>2. \A g \in Sig : ViewG(t, g) # None => Tallied(ViewG(t, g), ViewMembers(t, g))
  BY <1>1 DEF CountersFit
<1>3. \A g : ViewMembers(t, g)' = NextMembers(t, g) /\ ViewG(t, g)' = NextG(t, g)
  BY DEF ViewMembers, NextMembers, ViewR, NextR, ViewG, NextG
<1> QED
  BY <1>1, <1>2, <1>3 DEF CountersFit, Tallied

LEMMA LookupCounts ==
    ASSUME ShapeInv, SerialInv, NEW t \in Session, CountersFit(t), Lookup(t)
    PROVE  CountersFit(t)'
<1> DEFINE r == job[t].cur
           s == job[t].target
           p == job[t].prev
<1>1. /\ phase[t] = "lookup" /\ job'[t] = job[t]
      /\ \A g \in Sig : NextG(t, g) = ViewG(t, g)
      /\ \A g : NextMembers(t, g) = ViewMembers(t, g)
      /\ phase'[t] = "insert" \/ (ViewG(t, s) # None /\ phase'[t] = AfterGroup(t))
  BY LookupEffect, KeptMembers DEF Inside
<1>2. \A g \in Sig : ViewG(t, g) # None => Tallied(ViewG(t, g), ViewMembers(t, g))
  BY <1>1 DEF CountersFit
<1>3. phase'[t] \in {"insert", "move", "bump"}
  BY <1>1 DEF AfterGroup
<1>4. ASSUME phase'[t] = "bump"
      PROVE  ViewG(t, s).count = Cardinality(IF p = s THEN ViewMembers(t, s)
                                             ELSE ViewMembers(t, s) \ {r})
  <2>1. ViewG(t, s) # None /\ (p = None \/ p = s)
    BY <1>1, <1>4 DEF AfterGroup, Leaves
  <2>2. s \in Sig /\ s # None /\ objR[t][r].group = p
    BY <1>1, AtHand, NoneAssumption DEF Working, SerialInv, Synced, Located
  <2>3. p = None => ViewMembers(t, s) \ {r} = ViewMembers(t, s)
    BY <1>1, <2>2, Whereabouts DEF Working
  <2> QED
    BY <1>2, <2>1, <2>2, <2>3 DEF Tallied
<1>5. \A g \in Sig : NextG(t, g) # None => Tallied(NextG(t, g), NextMembers(t, g))
  BY <1>1, <1>2
<1>6. phase'[t] = "bump" => NextG(t, s).count = Cardinality(IF p = s THEN NextMembers(t, s)
                                                            ELSE NextMembers(t, s) \ {r})
  BY <1>1, <1>4, AtHand DEF Working
<1> QED
  BY <1>3, <1>5, <1>6, <1>1, CountersCarry

LEMMA InsertCounts ==
    ASSUME ShapeInv, SerialInv, NEW t \in Session, CountersFit(t), Insert(t)
    PROVE  CountersFit(t)'
<1> DEFINE s == job[t].target
           row == NewGroup(t, job[t].cur)
<1>1. /\ phase[t] = "insert" /\ phase'[t] = "touch" /\ job'[t] = job[t] /\ NextG(t, s) = row
      /\ \A g \in Sig : g # s => NextG(t, g) = ViewG(t, g)
      /\ \A g : NextMembers(t, g) = ViewMembers(t, g)
  BY InsertEffect, KeptMembers DEF Inside
<1>2. \A g \in Sig : ViewG(t, g) # None => Tallied(ViewG(t, g), ViewMembers(t, g))
  BY <1>1 DEF CountersFit
<1>3. ViewMembers(t, s) = {}
  <2>1. s \in Sig /\ ViewG(t, s) = None
    BY <1>1, AtHand DEF Working, SerialInv, Synced, Located
  <2> QED
    BY <1>1, <2>1, Whereabouts DEF Working
<1>4. Tallied(row, ViewMembers(t, s))
  <2>1. DevicesOf({}) = {}
    BY DEF DevicesOf
  <2> QED
    BY <1>3, <2>1, FS_EmptySet DEF NewGroup, Tallied
<1> HIDE DEF row
<1>5. \A g \in Sig : NextG(t, g) # None => Tallied(NextG(t, g), NextMembers(t, g))
  BY <1>1, <1>2, <1>4
<1> QED
  BY <1>1, <1>5, CountersCarry

LEMMA TouchCounts ==
    ASSUME ShapeInv, SerialInv, NEW t \in Session, CountersFit(t), Touch(t)
    PROVE  CountersFit(t)'
<1> DEFINE r == job[t].cur
           s == job[t].target
           p == job[t].prev
<1>1. /\ phase[t] = "touch" /\ phase'[t] = AfterGroup(t) /\ job'[t] = job[t] /\ Refiles(t, p)
      /\ \A g \in Sig : NextG(t, g) = ViewG(t, g)
  BY TouchEffect DEF Inside, KeepsGroups
<1>2. /\ r \in Report /\ s \in Sig /\ s # None /\ p \in Sig \cup {None}
      /\ objR[t][r].group = p /\ ViewG(t, s) # None
  BY <1>1, AtHand, TargetObject, NoneAssumption DEF Working, Grouped, SerialInv, Synced, Located,
         Known
<1>3. \A g \in Sig : r \in ViewMembers(t, g) <=> p = g
  BY <1>1, <1>2, Whereabouts DEF Working
<1>4. \A g \in Sig : NextMembers(t, g) = ViewMembers(t, g)
  BY <1>1, <1>2, <1>3, RefiledMembers
<1>5. \A g \in Sig : ViewG(t, g) # None => Tallied(ViewG(t, g), ViewMembers(t, g))
  BY <1>1 DEF CountersFit
<1>6. phase'[t] \in {"move", "bump"} /\ (phase'[t] = "bump" => p = None \/ p = s)
  BY <1>1 DEF AfterGroup, Leaves
<1>7. p = None => ViewMembers(t, s) \ {r} = ViewMembers(t, s)
  BY <1>2, <1>3
<1> QED
  BY <1>1, <1>2, <1>4, <1>5, <1>6, <1>7, CountersCarry DEF Tallied

LEMMA MoveCounts ==
    ASSUME ShapeInv, SerialInv, NEW t \in Session, CountersFit(t), Move(t)
    PROVE  CountersFit(t)'
<1> DEFINE r == job[t].cur
           s == job[t].target
           p == job[t].prev
           left == OtherMembers(t, r, p)
           row == ViewG(t, p)
<1> HIDE DEF left, row
<1>1. /\ phase[t] = "move" /\ phase'[t] = "flushPrevious" /\ job'[t] = job[t] /\ Refiles(t, s)
      /\ \A g \in Sig : NextG(t, g) = ViewG(t, g)
      /\ p \in Sig /\ p # s /\ row \in GroupRow
      /\ \E lo, hi : objG'[t][p].now = Recounted(row, left, lo, hi)
  <2>1. \E lo, hi : objG'[t][p] = [was |-> row, now |-> Recounted(row, left, lo, hi)]
    BY MoveEffect DEF left, row
  <2>2. \E lo, hi : objG'[t][p].now = Recounted(row, left, lo, hi)
    BY <2>1
  <2> QED
    BY <2>2, MoveEffect DEF Inside, row
<1>2. /\ r \in Report /\ s \in Sig /\ p # None /\ objR[t][r].group = p /\ ViewG(t, s) # None
  BY <1>1, AtHand, TargetObject, NoneAssumption DEF Working, Grouped, SerialInv, Synced, Located,
         Known
<1>3. /\ \A g \in Sig : r \in ViewMembers(t, g) <=> p = g
      /\ left = ViewMembers(t, p) \ {r}
  BY <1>1, <1>2, Whereabouts DEF Working, left
<1>4. \A g \in Sig : NextMembers(t, g) = IF g = s THEN ViewMembers(t, s) \cup {r}
                                         ELSE ViewMembers(t, g) \ {r}
  BY <1>1, <1>2, RefiledMembers
<1>5. \A g \in Sig : ViewG(t, g) # None => Tallied(ViewG(t, g), ViewMembers(t, g))
  BY <1>1 DEF CountersFit
<1>6. Tallied(objG'[t][p].now, NextMembers(t, p))
  <2>1. \A lo, hi : Recounted(row, left, lo, hi).count = Cardinality(left)
                    /\ Recounted(row, left, lo, hi).devices = Cardinality(DevicesOf(left))
    BY <1>1 DEF Recounted, GroupRow
  <2>2. NextMembers(t, p) = left
    BY <1>1, <1>3, <1>4
  <2> QED
    BY <1>1, <2>1, <2>2 DEF Tallied
<1>7. NextG(t, s).count = Cardinality(NextMembers(t, s) \ {r})
  <2>1. NextMembers(t, s) \ {r} = ViewMembers(t, s)
    BY <1>1, <1>2, <1>3, <1>4
  <2> QED
    BY <1>1, <1>2, <1>5, <2>1 DEF Tallied
<1>8. \A g \in Sig : g \notin {p, s} => NextMembers(t, g) = ViewMembers(t, g)
  BY <1>3, <1>4
<1>9. \A g \in Sig : NextG(t, g) # None =>
         Tallied(NextG(t, g), NextMembers(t, g)) \/ g = p \/ g = s
  BY <1>1, <1>5, <1>8
<1> QED
  BY <1>1, <1>6, <1>7, <1>9, CountersCarry

LEMMA FlushPreviousCounts ==
    ASSUME ShapeInv, SerialInv, NEW t \in Session, CountersFit(t), FlushPrevious(t)
    PROVE  CountersFit(t)'
<1> DEFINE s == job[t].target
           p == job[t].prev
           row == objG[t][p].now
<1>1. /\ phase[t] = "flushPrevious" /\ phase'[t] = "bump" /\ job'[t] = job[t]
      /\ p \in Sig /\ p # s /\ NextG(t, p) = row
      /\ \A g \in Sig : g # p => NextG(t, g) = ViewG(t, g)
      /\ \A g : NextMembers(t, g) = ViewMembers(t, g)
  BY FlushPreviousEffect, KeptMembers DEF Inside, Flushes
<1>2. s \in Sig
  BY <1>1, AtHand DEF Working
<1>3. /\ \A g \in Sig : ViewG(t, g) # None => Tallied(ViewG(t, g), ViewMembers(t, g)) \/ g = p \/ g = s
      /\ Tallied(row, ViewMembers(t, p))
      /\ ViewG(t, s).count = Cardinality(ViewMembers(t, s) \ {job[t].cur})
  BY <1>1 DEF CountersFit, AlreadyCounted
<1> HIDE DEF row
<1> QED
  BY <1>1, <1>2, <1>3, CountersCarry

LEMMA BumpCounts ==
    ASSUME ShapeInv, SerialInv, NEW t \in Session, CountersFit(t), Bump(t)
    PROVE  CountersFit(t)'
<1> DEFINE r == job[t].cur
           s == job[t].target
           p == job[t].prev
           row == Bumped(t, ViewG(t, s))
<1> HIDE DEF row
<1>1. /\ phase[t] = "bump" /\ phase'[t] = "file" /\ job'[t] = job[t] /\ NextG(t, s) = row
      /\ \A g \in Sig : g # s => NextG(t, g) = ViewG(t, g)
      /\ \A g : NextMembers(t, g) = ViewMembers(t, g)
      /\ ViewG(t, s) \in GroupRow
  BY BumpEffect, KeptMembers DEF Inside, Flushes, row
<1>2. /\ r \in Report /\ s \in Sig /\ s # None /\ objR[t][r] \in ReportRow
      /\ p # None => objR[t][r].group = s
  BY <1>1, AtHand, NoneAssumption DEF Working, SerialInv, Synced, Located
<1>3. row.count = IF p = s THEN ViewG(t, s).count ELSE ViewG(t, s).count + 1
  BY <1>1, <1>2, BumpedFields DEF row, AlreadyCounted
<1>4. /\ \A g \in Sig : ViewG(t, g) # None => Tallied(ViewG(t, g), ViewMembers(t, g)) \/ g = s
      /\ ViewG(t, s).count = Cardinality(IF p = s THEN ViewMembers(t, s)
                                         ELSE ViewMembers(t, s) \ {r})
  BY <1>1 DEF CountersFit, AlreadyCounted
<1>5. row.count = Cardinality(ViewMembers(t, s) \cup {r})
  <2>1. CASE p = s
    <3>1. r \in ViewMembers(t, s)
      BY <1>1, <1>2, <2>1, Whereabouts DEF Working
    <3>2. ViewMembers(t, s) \cup {r} = ViewMembers(t, s)
      BY <3>1
    <3> QED
      BY <1>3, <1>4, <2>1, <3>2
  <2>2. CASE p # s
    <3>1. (ViewMembers(t, s) \ {r}) \cup {r} = ViewMembers(t, s) \cup {r}
      OBVIOUS
    <3>2. IsFiniteSet(ViewMembers(t, s) \ {r})
      BY <1>2, MembersFinite
    <3>3. Cardinality((ViewMembers(t, s) \ {r}) \cup {r}) = Cardinality(ViewMembers(t, s) \ {r}) + 1
      BY <3>2, FS_AddElement
    <3> QED
      BY <1>3, <1>4, <2>2, <3>1, <3>3
  <2> QED
    BY <2>1, <2>2
<1> QED
  BY <1>1, <1>4, <1>5, CountersCarry

LEMMA FileCounts ==
    ASSUME ShapeInv, SerialInv, NEW t \in Session, CountersFit(t), File(t)
    PROVE  CountersFit(t)'
<1> DEFINE r == job[t].cur
           s == job[t].target
           p == job[t].prev
           row == ViewG(t, s)
           others == OtherMembers(t, r, s)
           n == Cardinality(DevicesOf(others \cup {r}))
<1> HIDE DEF n, others
<1>1. /\ phase[t] = "file" /\ phase'[t] = "tally" /\ job'[t] = job[t] /\ Refiles(t, s)
      /\ \A g \in Sig : NextG(t, g) = ViewG(t, g)
      /\ row \in GroupRow /\ objG'[t][s].now = [row EXCEPT !.devices = n]
  <2>1. objG'[t][s] = [was |-> row, now |-> [row EXCEPT !.devices = n]]
    BY FileEffect DEF n, others
  <2>2. objG'[t][s].now = [row EXCEPT !.devices = n]
    BY <2>1
  <2> QED
    BY <2>2, FileEffect DEF Inside
<1>2. /\ r \in Report /\ s \in Sig /\ s # None /\ objR[t][r].group \in {None, s}
  BY <1>1, AtHand, NoneAssumption DEF Working, SerialInv, Synced, Located
<1>3. /\ \A g \in Sig : g # s => r \notin ViewMembers(t, g)
      /\ others \cup {r} = ViewMembers(t, s) \cup {r}
  BY <1>1, <1>2, Whereabouts, NoneAssumption DEF Working, others
<1>4. \A g \in Sig : NextMembers(t, g) = IF g = s THEN ViewMembers(t, s) \cup {r}
                                         ELSE ViewMembers(t, g)
  <2>1. \A g : NextMembers(t, g) = IF g = s THEN ViewMembers(t, g) \cup {r}
                                   ELSE ViewMembers(t, g) \ {r}
    BY <1>1, <1>2, RefiledMembers
  <2> QED
    BY <1>3, <2>1
<1>5. /\ \A g \in Sig : ViewG(t, g) # None => Tallied(ViewG(t, g), ViewMembers(t, g)) \/ g = s
      /\ row.count = Cardinality(ViewMembers(t, s) \cup {r})
  BY <1>1 DEF CountersFit
<1>6. Tallied(objG'[t][s].now, NextMembers(t, s))
  <2>1. objG'[t][s].now.count = row.count /\ objG'[t][s].now.devices = n
    BY <1>1 DEF GroupRow
  <2> QED
    BY <1>2, <1>3, <1>4, <1>5, <2>1 DEF Tallied, n
<1>7. /\ \A g \in Sig : NextG(t, g) # None => Tallied(NextG(t, g), NextMembers(t, g)) \/ g = s
      /\ phase'[t] = "tally"
  BY <1>1, <1>4, <1>5
<1> QED
  BY <1>1, <1>6, <1>7, CountersCarry

LEMMA TallyCounts ==
    ASSUME ShapeInv, SerialInv, NEW t \in Session, CountersFit(t), Tally(t)
    PROVE  CountersFit(t)'
<1> DEFINE s == job[t].target
           row == objG[t][s].now
<1>1. /\ phase[t] = "tally" /\ phase'[t] \in {"commit", "resolve"} /\ job'[t] = job[t]
      /\ NextG(t, s) = row /\ \A g \in Sig : g # s => NextG(t, g) = ViewG(t, g)
      /\ \A g : NextMembers(t, g) = ViewMembers(t, g)
  BY TallyEffect, KeptMembers DEF Inside, Flushes
<1>2. /\ \A g \in Sig : ViewG(t, g) # None => Tallied(ViewG(t, g), ViewMembers(t, g)) \/ g = s
      /\ Tallied(row, ViewMembers(t, s))
  BY <1>1 DEF CountersFit
<1> HIDE DEF row
<1> QED
  BY <1>1, <1>2, CountersCarry

LEMMA WithinCounts ==
    ASSUME ShapeInv, SerialInv, NEW t \in Session, CountersFit(t), Within(t)
    PROVE  CountersFit(t)'
  BY ResolveCounts, LookupCounts, InsertCounts, TouchCounts, MoveCounts, FlushPreviousCounts,
     BumpCounts, FileCounts, TallyCounts DEF Within

\* A session that has written nothing reads the committed rows.
LEMMA FreshCounts ==
    ASSUME TallyExact', NEW t \in Session, phase'[t] = "resolve",
           \A q \in Report : wR'[t][q] = None, \A g \in Sig : wG'[t][g] = None
    PROVE  CountersFit(t)'
<1>1. \A g \in Sig : ViewG(t, g)' = groups'[g] /\ ViewMembers(t, g)' = Members(g)'
  BY DEF ViewG, ViewR, ViewMembers, Members
<1>2. \A g \in Sig : ViewG(t, g)' # None => Tallied(ViewG(t, g), ViewMembers(t, g))'
  BY <1>1 DEF TallyExact, Tallied
<1> QED
  BY <1>2 DEF CountersFit

\* A session that starts sees the members and counters that are committed.
LEMMA StartsFresh ==
    ASSUME ShapeInv, StoredInv, NEW t \in Session, Starts(t)
    PROVE  /\ phase'[t] = "resolve" /\ groups' = groups /\ MayBegin /\ Untouched(t)
           /\ \A g \in Sig : Members(g)' = Members(g)
           /\ \A q \in Report : wR'[t][q] = None
           /\ \A g \in Sig : wG'[t][g] = None
<1>1. ASSUME NEW r \in Report, Ingest(t, r)
      PROVE  /\ \A g \in Sig : Members(g)' = Members(g)
             /\ \A q \in Report : wR'[t][q] = None
             /\ \A g \in Sig : wG'[t][g] = None
  <2>1. /\ r \notin received /\ reports'[r].group = None
        /\ \A q \in Report : q # r => reports'[q] = reports[q]
        /\ \A q \in Report : wR'[t][q] = None
        /\ \A g \in Sig : wG'[t][g] = None
    BY <1>1, IngestEffect
  <2>2. reports[r] = None
    BY <2>1 DEF StoredInv, AcceptedReportsKept
  <2>3. \A g \in Sig : g # None
    BY NoneAssumption
  <2> QED
    BY <2>1, <2>2, <2>3 DEF Members
<1>2. ASSUME NEW R \in SUBSET Report, Load(t, R)
      PROVE  /\ \A g \in Sig : Members(g)' = Members(g)
             /\ \A q \in Report : wR'[t][q] = None
             /\ \A g \in Sig : wG'[t][g] = None
  BY <1>2, LoadEffect DEF Members
<1> QED
  BY <1>1, <1>2, StartSynced DEF Starts

\* What a commit makes of the members of a group.
LEMMA CommitMembers ==
    ASSUME ShapeInv, NEW t \in Session, Commit(t)
    PROVE  \A g \in Sig : Members(g)' = ViewMembers(t, g) /\ groups'[g] = ViewG(t, g)
  BY CommitEffect DEF Members, ViewMembers

\* What engineers do, apart from deleting reports, moves no report.
LEMMA EngineerMembers ==
    ASSUME ShapeInv, SerialInv, Engineer, \A r \in Report : ~DeleteReport(r)
    PROVE  /\ \A g \in Sig : Members(g)' = Members(g)
           /\ \A g \in Sig : groups[g] = None <=> groups'[g] = None
           /\ \A g \in Sig : groups[g] # None =>
                 /\ groups'[g].count = groups[g].count /\ groups'[g].devices = groups[g].devices
                 /\ groups'[g].severity = groups[g].severity
                 /\ groups'[g].first = groups[g].first /\ groups'[g].last = groups[g].last
                 /\ groups'[g].versions = groups[g].versions
<1>1. ASSUME NEW r \in Report, NEW v \in TriageSeverity, TriageReport(r, v)
      PROVE  groups' = groups /\ \A g \in Sig : Members(g)' = Members(g)
  <2>1. /\ groups' = groups /\ reports[r] # None
        /\ reports' = [reports EXCEPT ![r] = [reports[r] EXCEPT !.severity = v]]
    BY <1>1 DEF TriageReport
  <2>2. reports[r] \in ReportRow
    BY <2>1 DEF ShapeInv, TypeOK
  <2>3. [reports[r] EXCEPT !.severity = v] \in ReportRow
        /\ [reports[r] EXCEPT !.severity = v].group = reports[r].group
    BY <2>2, ConstantsAssumption DEF ReportRow
  <2>4. /\ reports'[r] # None /\ reports'[r].group = reports[r].group
        /\ \A q \in Report : q # r => reports'[q] = reports[q]
    BY <2>1, <2>3, NoneAssumption DEF ShapeInv, TypeOK
  <2> QED
    BY <2>1, <2>4 DEF Members
<1>2. ASSUME NEW v \in TriageStatus, SaveTriage(v)
      PROVE  /\ reports' = reports
             /\ \A g \in Sig : groups[g] = None <=> groups'[g] = None
             /\ \A g \in Sig : groups[g] # None =>
                   /\ groups'[g].count = groups[g].count /\ groups'[g].devices = groups[g].devices
                   /\ groups'[g].severity = groups[g].severity
                   /\ groups'[g].first = groups[g].first /\ groups'[g].last = groups[g].last
                   /\ groups'[g].versions = groups[g].versions
  <2> DEFINE s == triage.group
             st == Col(v, triage.status, groups[s].status)
             rg == Col(StampAfter(v, triage.regressed), triage.regressed, groups[s].regressed)
  <2> HIDE DEF st, rg
  <2>1. /\ reports' = reports /\ triage # None
        /\ groups' = [groups EXCEPT ![s] = [groups[s] EXCEPT !.status = st, !.regressed = rg]]
    BY <1>2 DEF SaveTriage, st, rg
  <2>2. s \in Sig /\ groups[s] # None /\ groups[s] \in GroupRow
    BY <2>1 DEF ShapeInv, TypeOK, GroupsKnown, Triage
  <2>3. st \in GroupStatus /\ rg \in BOOLEAN
    BY <2>1, <2>2, ConstantsAssumption DEF st, rg, Col, StampAfter, ShapeInv, TypeOK, Triage, GroupRow
  <2> DEFINE row == [groups[s] EXCEPT !.status = st, !.regressed = rg]
  <2>4. /\ row \in GroupRow /\ row.count = groups[s].count /\ row.devices = groups[s].devices
        /\ row.severity = groups[s].severity /\ row.first = groups[s].first
        /\ row.last = groups[s].last /\ row.versions = groups[s].versions
    BY <2>2, <2>3 DEF GroupRow
  <2> HIDE DEF row
  <2>5. groups'[s] = row /\ \A g \in Sig : g # s => groups'[g] = groups[g]
    BY <2>1, <2>2 DEF ShapeInv, TypeOK, row
  <2> QED
    BY <2>1, <2>2, <2>4, <2>5, NoneAssumption
<1>3. \A s \in Sig : TriageGroup(s) => UNCHANGED <<reports, groups>>
  BY DEF TriageGroup
<1>4. \A f \in Firmware : IndexBuild(f) \/ DeleteBuild(f) => UNCHANGED <<reports, groups>>
  BY DEF IndexBuild, DeleteBuild
<1>5. \/ \E r \in Report, v \in TriageSeverity : TriageReport(r, v)
      \/ \E v \in TriageStatus : SaveTriage(v)
      \/ UNCHANGED <<reports, groups>>
  BY <1>3, <1>4 DEF Engineer
<1>6. \A g \in Sig : reports' = reports => Members(g)' = Members(g)
  BY DEF Members
<1> QED
  BY <1>1, <1>2, <1>5, <1>6

LEMMA TallyStep ==
    ASSUME OneAtATime, ~Deletes, ShapeInv, StoredInv, SerialInv, TallyInv, Next
    PROVE  TallyInv'
<1>1. ASSUME NEW t \in Session, Within(t) PROVE TallyInv'
  <2>1. /\ Untouched(t) /\ phase[t] # "idle" /\ UNCHANGED <<reports, groups>>
        /\ \A u \in Session : u # t => phase[u] = "idle"
    BY <1>1, WithinSynced, AloneNow
  <2>2. CountersFit(t)'
    BY <1>1, <2>1, WithinCounts DEF TallyInv
  <2>3. TallyExact'
    BY <2>1 DEF TallyInv, TallyExact, Members
  <2> QED
    BY <2>1, <2>2, <2>3 DEF TallyInv, Untouched, Kept
<1>2. ASSUME NEW t \in Session, Starts(t) PROVE TallyInv'
  <2>1. /\ phase'[t] = "resolve" /\ groups' = groups /\ MayBegin /\ Untouched(t)
        /\ \A g \in Sig : Members(g)' = Members(g)
        /\ \A q \in Report : wR'[t][q] = None
        /\ \A g \in Sig : wG'[t][g] = None
    BY <1>2, StartsFresh
  <2>2. TallyExact'
    BY <2>1 DEF TallyInv, TallyExact
  <2>3. CountersFit(t)'
    BY <2>1, <2>2, FreshCounts
  <2> QED
    BY <2>1, <2>2, <2>3 DEF TallyInv, Untouched, Kept, MayBegin
<1>3. ASSUME NEW t \in Session, Commit(t) PROVE TallyInv'
  <2>1. phase[t] = "commit" /\ phase'[t] = "idle" /\ Untouched(t)
    BY <1>3, CommitEffect
  <2>2. CountersFit(t) /\ \A u \in Session : phase'[u] = "idle"
    BY <2>1, AloneNow DEF TallyInv, Untouched, Kept
  <2>3. \A g \in Sig : ViewG(t, g) # None => Tallied(ViewG(t, g), ViewMembers(t, g))
    BY <2>1, <2>2 DEF CountersFit
  <2>4. TallyExact'
    BY <1>3, <2>3, CommitMembers DEF TallyExact, Tallied
  <2> QED
    BY <2>2, <2>4 DEF TallyInv
<1>4. ASSUME NEW t \in Session, phase[t] # "idle", Rollback(t) PROVE TallyInv'
  <2>1. phase'[t] = "idle" /\ Untouched(t) /\ UNCHANGED <<reports, groups>>
    BY <1>4, RollbackEffect
  <2>2. \A u \in Session : phase'[u] = "idle"
    BY <1>4, <2>1, AloneNow DEF Untouched, Kept
  <2> QED
    BY <2>1, <2>2 DEF TallyInv, TallyExact, Members
<1>5. ASSUME Engineer PROVE TallyInv'
  <2>1. \A r \in Report : ~DeleteReport(r)
    BY DEF DeleteReport
  <2>2. \A u \in Session : phase'[u] = "idle"
    BY <1>5, EngineerAlone
  <2>3. TallyExact'
    BY <1>5, <2>1, EngineerMembers DEF TallyInv, TallyExact
  <2> QED
    BY <2>2, <2>3 DEF TallyInv
<1> QED
  BY <1>1, <1>2, <1>3, <1>4, <1>5, StepKinds

\* The counters of every group are those of its reports, at every instant, when
\* requests run one at a time and engineers delete no report: whatever moves,
\* recounts, rollbacks and failures there are (symbolication.py _assign_group,
\* recompute_counters).
THEOREM CountersExact ==
    ASSUME OneAtATime, ~Deletes
    PROVE  Spec => []TallyExact
<1> DEFINE J == ShapeInv /\ StoredInv /\ SerialInv
<1>1. Spec => []J
  BY SerialAlways
<1>2. Init => TallyInv
  BY DEF Init, TallyInv, TallyExact, NoGroups
<1>3. J /\ J' /\ TallyInv /\ [Next]_vars => TallyInv'
  <2> SUFFICES ASSUME J, TallyInv, [Next]_vars PROVE TallyInv'
    OBVIOUS
  <2>1. CASE Next
    BY <2>1, TallyStep
  <2>2. CASE UNCHANGED vars
    <3>1. TallyExact'
      BY <2>2 DEF TallyInv, TallyExact, Members, vars
    <3>2. ASSUME NEW t \in Session, phase[t] # "idle" PROVE CountersFit(t)'
      <4>1. /\ phase' = phase /\ job' = job /\ objG' = objG
            /\ \A g : NextG(t, g) = ViewG(t, g) /\ NextMembers(t, g) = ViewMembers(t, g)
        BY <2>2 DEF vars, sessionVars, NextG, ViewG, NextMembers, ViewMembers, NextR, ViewR
      <4>2. CountersFit(t)
        BY <3>2 DEF TallyInv
      <4>3. PICK j : job[t] = j
        OBVIOUS
      <4>4. /\ \A g \in Sig : ViewG(t, g) # None =>
                  \/ Tallied(ViewG(t, g), ViewMembers(t, g))
                  \/ phase[t] = "flushPrevious" /\ g = j.prev
                  \/ phase[t] \in {"flushPrevious", "bump", "file", "tally"} /\ g = j.target
            /\ phase[t] = "flushPrevious" => Tallied(objG[t][j.prev].now, ViewMembers(t, j.prev))
            /\ phase[t] \in {"flushPrevious", "bump"} =>
                  ViewG(t, j.target).count =
                     Cardinality(IF j.prev = j.target THEN ViewMembers(t, j.target)
                                 ELSE ViewMembers(t, j.target) \ {j.cur})
            /\ phase[t] = "file" =>
                  ViewG(t, j.target).count = Cardinality(ViewMembers(t, j.target) \cup {j.cur})
            /\ phase[t] = "tally" => Tallied(objG[t][j.target].now, ViewMembers(t, j.target))
        BY <4>2, <4>3 DEF CountersFit, AlreadyCounted
      <4>5. NextG(t, j.target) = ViewG(t, j.target)
        BY <2>2 DEF vars, sessionVars, NextG, ViewG
      <4> QED
        BY <4>1, <4>3, <4>4, <4>5, CountersCarry
    <3> QED
      BY <2>2, <3>1, <3>2 DEF TallyInv, vars, sessionVars
  <2> QED
    BY <2>1, <2>2
<1>4. TallyInv => TallyExact
  BY DEF TallyInv
<1> QED
  BY <1>1, <1>2, <1>3, <1>4, PTL DEF Spec

-----------------------------------------------------------------------------
(* Severity, window and versions.                                          *)

LEMMA EvidenceCarry ==
    ASSUME NEW t \in Session, NEW j, job[t] = j, job'[t] = j, reports' = reports,
           \A q \in Report : NextR(t, q) # None => NextR(t, q).severity = ViewR(t, q).severity,
           \A g \in Sig : \A q \in NextMembers(t, g) :
              \/ Covers(t, g, NextG(t, g), q)
              \/ phase'[t] \in {"flushPrevious", "bump"} /\ g = j.target /\ q = j.cur,
           phase'[t] = "flushPrevious" =>
              \A q \in NextMembers(t, j.prev) : Covers(t, j.prev, objG'[t][j.prev].now, q),
           phase'[t] = "file" => /\ j.cur \in Report /\ NextR(t, j.cur) # None
                                 /\ Covers(t, j.target, NextG(t, j.target), j.cur)
    PROVE  EvidenceFits(t)'
<1>1. /\ \A g : ViewMembers(t, g)' = NextMembers(t, g) /\ ViewG(t, g)' = NextG(t, g)
      /\ \A q : ViewR(t, q)' = NextR(t, q)
  BY DEF ViewMembers, NextMembers, ViewR, NextR, ViewG, NextG
<1>2. /\ ViewMembers(t, job[t].prev)' = NextMembers(t, j.prev)
      /\ ViewG(t, job[t].target)' = NextG(t, j.target)
      /\ ViewR(t, job[t].cur)' = NextR(t, j.cur)
  BY DEF ViewMembers, NextMembers, ViewR, NextR, ViewG, NextG
<1>3. \A g, row : \A q \in NextMembers(t, g) : Covers(t, g, row, q) =>
         /\ q \notin Members(g) => NextR(t, q).severity <= row.severity
         /\ row.first <= OccurredAt[q] /\ OccurredAt[q] <= row.last
         /\ FirmwareOf[q] \in row.versions
  BY DEF Covers, NextMembers
<1>7. \A g : Members(g)' = Members(g)
  BY DEF Members
<1>4. \A g \in Sig : \A q \in ViewMembers(t, g)' :
         \/ Covers(t, g, ViewG(t, g), q)'
         \/ phase'[t] \in {"flushPrevious", "bump"} /\ g = job'[t].target /\ q = job'[t].cur
  BY <1>1, <1>3, <1>7 DEF Covers
<1>5. phase'[t] = "flushPrevious" =>
         \A q \in ViewMembers(t, job[t].prev)' : Covers(t, job[t].prev, objG[t][job[t].prev].now, q)'
  BY <1>1, <1>2, <1>3, <1>7 DEF Covers
<1>6. phase'[t] = "file" => Covers(t, job[t].target, ViewG(t, job[t].target), job[t].cur)'
  BY <1>1, <1>2, <1>7 DEF Covers
<1> QED
  BY <1>4, <1>5, <1>6 DEF EvidenceFits

\* A flush of a report keeps its severity; other steps keep the reports.
LEMMA SeverityKept ==
    ASSUME NEW t \in Session,
           KeepsReports(t) \/ (job[t].cur \in Report /\ \E g : Refiles(t, g))
    PROVE  \A q \in Report : NextR(t, q) # None => NextR(t, q).severity = ViewR(t, q).severity
  BY DEF KeepsReports, Refiles

\* A recount covers the reports it counts; the severity stays.
LEMMA RecountCovers ==
    ASSUME NEW t \in Session, NEW g \in Sig, NEW row \in GroupRow, NEW R \in SUBSET Report,
           NEW lo \in FirstSeen(R, row.first), NEW hi \in LastSeen(R, row.last),
           NEW q \in R, q \notin Members(g) => ViewR(t, q).severity <= row.severity
    PROVE  Covers(t, g, Recounted(row, R, lo, hi), q)
<1>1. lo <= OccurredAt[q] /\ OccurredAt[q] <= hi
  BY ConstantsAssumption DEF FirstSeen, LastSeen
<1>2. /\ Recounted(row, R, lo, hi).severity = row.severity
      /\ Recounted(row, R, lo, hi).first = lo /\ Recounted(row, R, lo, hi).last = hi
      /\ Recounted(row, R, lo, hi).versions = {FirmwareOf[r] : r \in R}
  BY DEF Recounted, GroupRow
<1> QED
  BY <1>1, <1>2 DEF Covers

\* Filing a report in a group covers it, and what was covered stays so.
LEMMA BumpCovers ==
    ASSUME ShapeInv, SerialInv, NEW t \in Session, phase[t] \in Working, NEW g \in Sig,
           NEW row \in GroupRow
    PROVE  /\ Covers(t, g, Bumped(t, row), job[t].cur)
           /\ \A q \in Report :
                 ViewR(t, q) # None /\ Covers(t, g, row, q) => Covers(t, g, Bumped(t, row), q)
           /\ row.severity <= Bumped(t, row).severity
<1> DEFINE r == job[t].cur
           new == Bumped(t, row)
           sev == objR[t][r].severity
<1>1. /\ r \in Report /\ objR[t][r] = ViewR(t, r) /\ objR[t][r] \in ReportRow
      /\ \A q \in Report : ViewR(t, q) # None => ViewR(t, q) \in ReportRow
  BY InStep
<1>2. /\ new.severity = IF sev > row.severity THEN sev ELSE row.severity
      /\ new.first = IF OccurredAt[r] < row.first THEN OccurredAt[r] ELSE row.first
      /\ new.last = IF OccurredAt[r] > row.last THEN OccurredAt[r] ELSE row.last
      /\ new.versions = row.versions \cup {FirmwareOf[r]}
  BY <1>1, BumpedFields
<1> HIDE DEF new
<1>3. /\ row.severity \in Int /\ row.first \in Int /\ row.last \in Int
      /\ \A q \in Report : OccurredAt[q] \in Int
      /\ \A q \in Report : ViewR(t, q) # None => ViewR(t, q).severity \in Int
      /\ sev \in Int
  BY <1>1, ConstantsAssumption DEF GroupRow, ReportRow, Severity
<1>4. Covers(t, g, new, r)
  BY <1>1, <1>2, <1>3 DEF Covers
<1>5. ASSUME NEW q \in Report, ViewR(t, q) # None, Covers(t, g, row, q)
      PROVE  Covers(t, g, new, q)
  BY <1>1, <1>2, <1>3, <1>5 DEF Covers
<1>6. row.severity <= new.severity
  BY <1>2, <1>3
<1> QED
  BY <1>4, <1>5, <1>6 DEF new

LEMMA ResolveEvidence ==
    ASSUME ShapeInv, NEW t \in Session, EvidenceFits(t), Resolve(t)
    PROVE  EvidenceFits(t)'
<1>1. /\ phase[t] = "resolve" /\ phase'[t] = "lookup"
      /\ \A g \in Sig : NextG(t, g) = ViewG(t, g)
      /\ \A g : NextMembers(t, g) = ViewMembers(t, g)
      /\ \A q \in Report : NextR(t, q) = ViewR(t, q)
  BY ResolveEffect, KeptMembers DEF KeepsReports
<1>2. \A g \in Sig : \A q \in ViewMembers(t, g) : Covers(t, g, ViewG(t, g), q)
  BY <1>1 DEF EvidenceFits
<1>3. /\ \A g : ViewMembers(t, g)' = NextMembers(t, g) /\ ViewG(t, g)' = NextG(t, g)
      /\ \A q : ViewR(t, q)' = NextR(t, q)
  BY DEF ViewMembers, NextMembers, ViewR, NextR, ViewG, NextG
<1>4. \A g : NextMembers(t, g) \in SUBSET Report
  BY DEF NextMembers
<1>6. \A g : Members(g)' = Members(g)
  BY ResolveEffect DEF Inside, Members
<1>5. \A g \in Sig : \A q \in ViewMembers(t, g)' : Covers(t, g, ViewG(t, g), q)'
  BY <1>1, <1>2, <1>3, <1>4, <1>6 DEF Covers
<1> QED
  BY <1>1, <1>5 DEF EvidenceFits

\* Before the report is filed, a step that adds no report to a group and keeps
\* the rows of groups with reports keeps them covered.
LEMMA StillCovered ==
    ASSUME NEW t \in Session, EvidenceFits(t), phase[t] \in {"lookup", "insert", "touch"},
           phase'[t] \in {"insert", "touch", "move", "bump"}, job'[t] = job[t],
           reports' = reports,
           \A q \in Report : NextR(t, q) # None => NextR(t, q).severity = ViewR(t, q).severity,
           \A g \in Sig : NextMembers(t, g) = ViewMembers(t, g),
           \A g \in Sig : NextG(t, g) = ViewG(t, g) \/ ViewMembers(t, g) = {}
    PROVE  EvidenceFits(t)'
<1>1. \A g \in Sig : \A q \in ViewMembers(t, g) : Covers(t, g, ViewG(t, g), q)
  BY DEF EvidenceFits
<1>2. \A g \in Sig : \A q \in NextMembers(t, g) : Covers(t, g, NextG(t, g), q)
  BY <1>1
<1> QED
  BY <1>2, EvidenceCarry

LEMMA LookupEvidence ==
    ASSUME ShapeInv, NEW t \in Session, EvidenceFits(t), Lookup(t)
    PROVE  EvidenceFits(t)'
<1>1. /\ phase[t] = "lookup" /\ phase'[t] \in {"insert", "move", "bump"} /\ job'[t] = job[t] /\ reports' = reports
      /\ \A g \in Sig : NextG(t, g) = ViewG(t, g)
      /\ \A g : NextMembers(t, g) = ViewMembers(t, g)
      /\ KeepsReports(t)
  BY LookupEffect, KeptMembers DEF Inside, AfterGroup
<1> QED
  BY <1>1, SeverityKept, StillCovered

LEMMA InsertEvidence ==
    ASSUME ShapeInv, SerialInv, NEW t \in Session, EvidenceFits(t), Insert(t)
    PROVE  EvidenceFits(t)'
<1> DEFINE s == job[t].target
<1>1. /\ phase[t] = "insert" /\ phase'[t] = "touch" /\ job'[t] = job[t] /\ reports' = reports
      /\ \A g \in Sig : g # s => NextG(t, g) = ViewG(t, g)
      /\ \A g : NextMembers(t, g) = ViewMembers(t, g)
      /\ KeepsReports(t)
  BY InsertEffect, KeptMembers DEF Inside
<1>2. s \in Sig /\ ViewG(t, s) = None
  BY <1>1, AtHand DEF Working, SerialInv, Synced, Located
<1>3. ViewMembers(t, s) = {}
  BY <1>1, <1>2, Whereabouts DEF Working
<1> QED
  BY <1>1, <1>3, SeverityKept, StillCovered

LEMMA TouchEvidence ==
    ASSUME ShapeInv, SerialInv, NEW t \in Session, EvidenceFits(t), Touch(t)
    PROVE  EvidenceFits(t)'
<1> DEFINE r == job[t].cur
           p == job[t].prev
<1>1. /\ phase[t] = "touch" /\ phase'[t] \in {"move", "bump"} /\ job'[t] = job[t] /\ reports' = reports
      /\ Refiles(t, p) /\ \A g \in Sig : NextG(t, g) = ViewG(t, g)
  BY TouchEffect DEF Inside, KeepsGroups, AfterGroup
<1>2. r \in Report /\ objR[t][r].group = p
  BY <1>1, AtHand DEF Working, SerialInv, Synced, Located
<1>3. \A g \in Sig : r \in ViewMembers(t, g) <=> p = g
  BY <1>1, <1>2, Whereabouts DEF Working
<1>4. \A g \in Sig : NextMembers(t, g) = ViewMembers(t, g)
  BY <1>1, <1>2, <1>3, RefiledMembers
<1> QED
  BY <1>1, <1>2, <1>4, SeverityKept, StillCovered

LEMMA MoveEvidence ==
    ASSUME ShapeInv, SerialInv, NEW t \in Session, EvidenceFits(t), Move(t)
    PROVE  EvidenceFits(t)'
<1> DEFINE r == job[t].cur
           s == job[t].target
           p == job[t].prev
           left == OtherMembers(t, r, p)
           row == ViewG(t, p)
<1> HIDE DEF left, row
<1>1. /\ phase[t] = "move" /\ phase'[t] = "flushPrevious" /\ job'[t] = job[t] /\ reports' = reports /\ Refiles(t, s)
      /\ \A g \in Sig : NextG(t, g) = ViewG(t, g)
      /\ p \in Sig /\ p # s /\ row \in GroupRow
      /\ \E lo \in FirstSeen(left, row.first), hi \in LastSeen(left, row.last) :
            objG'[t][p] = [was |-> row, now |-> Recounted(row, left, lo, hi)]
  BY MoveEffect DEF Inside, left, row
<1>2. r \in Report /\ s \in Sig /\ objR[t][r].group = p
  BY <1>1, AtHand DEF Working, SerialInv, Synced, Located
<1>3. /\ \A g \in Sig : r \in ViewMembers(t, g) <=> p = g
      /\ left = ViewMembers(t, p) \ {r}
  BY <1>1, <1>2, Whereabouts DEF Working, left
<1>4. \A g \in Sig : NextMembers(t, g) = IF g = s THEN ViewMembers(t, g) \cup {r}
                                         ELSE ViewMembers(t, g) \ {r}
  BY <1>1, <1>2, RefiledMembers
<1>5. \A g \in Sig : \A q \in ViewMembers(t, g) : Covers(t, g, ViewG(t, g), q)
  BY <1>1 DEF EvidenceFits
<1>6. \A g \in Sig : \A q \in NextMembers(t, g) : Covers(t, g, NextG(t, g), q) \/ (g = s /\ q = r)
  BY <1>1, <1>4, <1>5
<1>7. ASSUME NEW q \in NextMembers(t, p) PROVE Covers(t, p, objG'[t][p].now, q)
  <2>1. q \in left /\ left \in SUBSET Report
    BY <1>1, <1>3, <1>4, <1>7 DEF ViewMembers
  <2>2. q \notin Members(p) => ViewR(t, q).severity <= row.severity
    BY <1>1, <1>3, <1>5, <2>1 DEF Covers, row
  <2>3. PICK lo \in FirstSeen(left, row.first), hi \in LastSeen(left, row.last) :
           objG'[t][p] = [was |-> row, now |-> Recounted(row, left, lo, hi)]
    BY <1>1
  <2>4. Covers(t, p, Recounted(row, left, lo, hi), q)
    BY <1>1, <2>1, <2>2, RecountCovers
  <2>5. objG'[t][p].now = Recounted(row, left, lo, hi)
    BY <2>3
  <2> QED
    BY <2>4, <2>5
<1> QED
  BY <1>1, <1>2, <1>6, <1>7, SeverityKept, EvidenceCarry

LEMMA FlushPreviousEvidence ==
    ASSUME ShapeInv, SerialInv, NEW t \in Session, EvidenceFits(t), FlushPrevious(t)
    PROVE  EvidenceFits(t)'
<1> DEFINE r == job[t].cur
           s == job[t].target
           p == job[t].prev
           row == objG[t][p].now
<1>1. /\ phase[t] = "flushPrevious" /\ phase'[t] = "bump" /\ job'[t] = job[t] /\ reports' = reports
      /\ p \in Sig /\ p # s /\ NextG(t, p) = row
      /\ \A g \in Sig : g # p => NextG(t, g) = ViewG(t, g)
      /\ \A g : NextMembers(t, g) = ViewMembers(t, g)
      /\ KeepsReports(t)
  BY FlushPreviousEffect, KeptMembers DEF Inside, Flushes
<1>2. /\ \A g \in Sig : \A q \in ViewMembers(t, g) : Covers(t, g, ViewG(t, g), q) \/ (g = s /\ q = r)
      /\ \A q \in ViewMembers(t, p) : Covers(t, p, row, q)
  BY <1>1 DEF EvidenceFits
<1> HIDE DEF row
<1>3. \A g \in Sig : \A q \in NextMembers(t, g) : Covers(t, g, NextG(t, g), q) \/ (g = s /\ q = r)
  BY <1>1, <1>2
<1> QED
  BY <1>1, <1>3, SeverityKept, EvidenceCarry

LEMMA BumpEvidence ==
    ASSUME ShapeInv, SerialInv, NEW t \in Session, EvidenceFits(t), Bump(t)
    PROVE  EvidenceFits(t)'
<1> DEFINE r == job[t].cur
           s == job[t].target
           row == Bumped(t, ViewG(t, s))
<1> HIDE DEF row
<1>1. /\ phase[t] = "bump" /\ phase'[t] = "file" /\ job'[t] = job[t] /\ reports' = reports /\ NextG(t, s) = row
      /\ \A g \in Sig : g # s => NextG(t, g) = ViewG(t, g)
      /\ \A g : NextMembers(t, g) = ViewMembers(t, g)
      /\ KeepsReports(t) /\ ViewG(t, s) \in GroupRow
  BY BumpEffect, KeptMembers DEF Inside, Flushes, row
<1>2. /\ r \in Report /\ s \in Sig /\ ViewR(t, r) # None /\ NextR(t, r) = ViewR(t, r)
  BY <1>1, InStep, NoneAssumption DEF Working, KeepsReports
<1>3. \A g \in Sig : \A q \in ViewMembers(t, g) : Covers(t, g, ViewG(t, g), q) \/ (g = s /\ q = r)
  BY <1>1 DEF EvidenceFits
<1>4. /\ Covers(t, s, row, r)
      /\ \A q \in Report :
            ViewR(t, q) # None /\ Covers(t, s, ViewG(t, s), q) => Covers(t, s, row, q)
  BY <1>1, <1>2, BumpCovers DEF Working, row
<1>5. \A g : \A q \in ViewMembers(t, g) : q \in Report /\ ViewR(t, q) # None
  BY DEF ViewMembers
<1>6. \A g \in Sig : \A q \in NextMembers(t, g) : Covers(t, g, NextG(t, g), q)
  BY <1>1, <1>3, <1>4, <1>5
<1> QED
  BY <1>1, <1>2, <1>4, <1>6, SeverityKept, EvidenceCarry

LEMMA FileEvidence ==
    ASSUME ShapeInv, SerialInv, NEW t \in Session, EvidenceFits(t), File(t)
    PROVE  EvidenceFits(t)'
<1> DEFINE r == job[t].cur
           s == job[t].target
<1>1. /\ phase[t] = "file" /\ phase'[t] = "tally" /\ job'[t] = job[t] /\ reports' = reports /\ Refiles(t, s)
      /\ \A g \in Sig : NextG(t, g) = ViewG(t, g)
  BY FileEffect DEF Inside
<1>2. r \in Report
  BY <1>1, AtHand DEF Working
<1>3. \A g : NextMembers(t, g) = IF g = s THEN ViewMembers(t, g) \cup {r}
                                 ELSE ViewMembers(t, g) \ {r}
  BY <1>1, <1>2, RefiledMembers
<1>4. /\ \A g \in Sig : \A q \in ViewMembers(t, g) : Covers(t, g, ViewG(t, g), q)
      /\ Covers(t, s, ViewG(t, s), r)
  BY <1>1 DEF EvidenceFits
<1>5. \A g \in Sig : \A q \in NextMembers(t, g) : Covers(t, g, NextG(t, g), q)
  BY <1>1, <1>3, <1>4
<1> QED
  BY <1>1, <1>2, <1>5, SeverityKept, EvidenceCarry

LEMMA TallyEvidence ==
    ASSUME ShapeInv, SerialInv, NEW t \in Session, EvidenceFits(t), Tally(t)
    PROVE  EvidenceFits(t)'
<1> DEFINE s == job[t].target
           row == objG[t][s].now
<1>1. /\ phase[t] = "tally" /\ phase'[t] \in {"commit", "resolve"} /\ job'[t] = job[t] /\ reports' = reports
      /\ NextG(t, s) = row /\ \A g \in Sig : g # s => NextG(t, g) = ViewG(t, g)
      /\ \A g : NextMembers(t, g) = ViewMembers(t, g)
      /\ KeepsReports(t)
  BY TallyEffect, KeptMembers DEF Inside, Flushes
<1>2. /\ s \in Sig /\ objG[t][s] # None /\ objG[t][s].was = ViewG(t, s)
      /\ objG[t][s].now = [objG[t][s].was EXCEPT !.devices = objG[t][s].now.devices]
      /\ ViewG(t, s) \in GroupRow
  <2>1. s \in Sig /\ objG[t][s] # None /\ s \in Known(t)
    BY <1>1, AtHand, TargetObject DEF Working, Grouped, ShapeInv, SessionShape
  <2>2. ViewG(t, s) \in GroupRow
    BY <1>1, <2>1, AtHand DEF Working
  <2> QED
    BY <1>1, <2>1, <2>2 DEF SerialInv, Synced, SyncedG, Pending
<1>3. /\ row.severity = ViewG(t, s).severity /\ row.first = ViewG(t, s).first
      /\ row.last = ViewG(t, s).last /\ row.versions = ViewG(t, s).versions
  BY <1>2 DEF GroupRow
<1>4. \A g \in Sig : \A q \in ViewMembers(t, g) : Covers(t, g, ViewG(t, g), q)
  BY <1>1 DEF EvidenceFits
<1> HIDE DEF row
<1>5. \A q : Covers(t, s, ViewG(t, s), q) => Covers(t, s, row, q)
  BY <1>3 DEF Covers
<1>6. \A g \in Sig : \A q \in NextMembers(t, g) : Covers(t, g, NextG(t, g), q)
  BY <1>1, <1>4, <1>5
<1> QED
  BY <1>1, <1>6, SeverityKept, EvidenceCarry

LEMMA WithinEvidence ==
    ASSUME ShapeInv, SerialInv, NEW t \in Session, EvidenceFits(t), Within(t)
    PROVE  EvidenceFits(t)'
  BY ResolveEvidence, LookupEvidence, InsertEvidence, TouchEvidence, MoveEvidence,
     FlushPreviousEvidence, BumpEvidence, FileEvidence, TallyEvidence DEF Within

LEMMA SeverityNumbers ==
    ASSUME ShapeInv, NEW g \in Sig, groups[g] # None
    PROVE  groups[g].severity \in Int
<1>1. groups[g] \in GroupRow
  BY DEF ShapeInv, TypeOK
<1> QED
  BY <1>1 DEF GroupRow, Severity

\* No step of a request makes a group less severe: a recount leaves its severity alone,
\* a filing only raises it.
LEMMA RowsNotLowered ==
    ASSUME ShapeInv, SerialInv, NEW t \in Session, Within(t), NEW g \in Sig, ViewG(t, g) # None
    PROVE  NextG(t, g) # None /\ ViewG(t, g).severity <= NextG(t, g).severity
<1> DEFINE s == job[t].target
           p == job[t].prev
<1>1. ViewG(t, g) \in GroupRow
  BY DEF ShapeInv, TypeOK, ViewG
<1>2. ViewG(t, g).severity \in Int
  BY <1>1 DEF GroupRow, Severity
<1>3. CASE NextG(t, g) = ViewG(t, g)
  BY <1>2, <1>3
<1>4. CASE Insert(t)
  <2>1. g # s
    BY <1>4, InsertEffect, AtHand DEF Working, SerialInv, Synced, Located
  <2> QED  BY <1>3, <1>4, <2>1, InsertEffect
<1>5. CASE FlushPrevious(t)
  <2>1. /\ Flushes(t, p, objG[t][p].now) /\ phase[t] = "flushPrevious" /\ p \in Sig
    BY <1>5, FlushPreviousEffect
  <2>2. CASE g = p
    <3>1. objG[t][p] # None /\ objG[t][p].was = ViewG(t, p)
      BY <2>1 DEF ShapeInv, SessionShape, Working, SerialInv, Synced, SyncedG
    <3>2. objG[t][p].now.severity = ViewG(t, p).severity
      BY <2>1, <3>1 DEF SerialInv, Synced, Pending
    <3>3. objG[t][p].now # None
      BY <2>1, <3>1, NoneAssumption DEF ShapeInv, TypeOK
    <3> QED  BY <1>2, <2>1, <2>2, <3>2, <3>3 DEF Flushes
  <2> QED  BY <1>3, <2>1, <2>2 DEF Flushes
<1>6. CASE Bump(t)
  <2>1. /\ Flushes(t, s, Bumped(t, ViewG(t, s))) /\ phase[t] \in Working
        /\ ViewG(t, s) \in GroupRow
    BY <1>6, BumpEffect DEF Working
  <2>2. CASE g = s
    <3>1. ViewG(t, s).severity <= Bumped(t, ViewG(t, s)).severity
      BY <2>1, <2>2, BumpCovers
    <3>2. Bumped(t, ViewG(t, s)) \in GroupRow
      BY <2>1, AtHand, BumpedFields
    <3>3. Bumped(t, ViewG(t, s)) # None
      BY <3>2, NoneAssumption
    <3> QED  BY <2>1, <2>2, <3>1, <3>3 DEF Flushes
  <2> QED  BY <1>3, <2>1, <2>2 DEF Flushes
<1>7. CASE Tally(t)
  <2>1. Flushes(t, s, objG[t][s].now) /\ phase[t] = "tally"
    BY <1>7, TallyEffect
  <2>2. CASE g = s
    <3>1. objG[t][s] # None /\ objG[t][s] \in [was : GroupRow, now : GroupRow]
      BY <2>1, <2>2, AtHand, TargetObject DEF Working, Grouped, ShapeInv, SessionShape, TypeOK
    <3>2. /\ objG[t][s].was = ViewG(t, s)
          /\ objG[t][s].now = [objG[t][s].was EXCEPT !.devices = objG[t][s].now.devices]
      BY <2>1, <2>2, <3>1 DEF SerialInv, Synced, SyncedG, Pending
    <3>3. objG[t][s].now.severity = ViewG(t, s).severity /\ objG[t][s].now # None
      BY <3>1, <3>2, NoneAssumption DEF GroupRow
    <3> QED  BY <1>2, <2>1, <2>2, <3>3 DEF Flushes
  <2> QED  BY <1>3, <2>1, <2>2 DEF Flushes
<1>8. Resolve(t) \/ Lookup(t) \/ Touch(t) \/ Move(t) \/ File(t) => NextG(t, g) = ViewG(t, g)
  <2>1. Resolve(t) => NextG(t, g) = ViewG(t, g)
    BY ResolveEffect
  <2>2. Lookup(t) => NextG(t, g) = ViewG(t, g)
    BY LookupEffect
  <2>3. Touch(t) => NextG(t, g) = ViewG(t, g)
    BY TouchEffect DEF KeepsGroups
  <2>4. Move(t) => NextG(t, g) = ViewG(t, g)
    BY MoveEffect
  <2>5. File(t) => NextG(t, g) = ViewG(t, g)
    BY FileEffect
  <2> QED  BY <2>1, <2>2, <2>3, <2>4, <2>5
<1> QED  BY <1>3, <1>4, <1>5, <1>6, <1>7, <1>8 DEF Within

LEMMA WithinNotLowered ==
    ASSUME ShapeInv, ShapeInv', SerialInv, NEW t \in Session, NotLowered(t), Within(t)
    PROVE  NotLowered(t)'
<1>1. groups' = groups
  BY WithinSynced
<1> SUFFICES ASSUME NEW g \in Sig, groups[g] # None
             PROVE  NextG(t, g) # None /\ groups[g].severity <= NextG(t, g).severity
  BY <1>1 DEF NotLowered, NextG, ViewG
<1>2. ViewG(t, g) # None /\ groups[g].severity <= ViewG(t, g).severity
  BY DEF NotLowered
<1>3. NextG(t, g) # None /\ ViewG(t, g).severity <= NextG(t, g).severity
  BY <1>2, RowsNotLowered
<1>4. groups[g] \in GroupRow /\ ViewG(t, g) \in GroupRow /\ NextG(t, g) \in GroupRow
  BY <1>2, <1>3 DEF ShapeInv, TypeOK, ViewG, NextG
<1>5. /\ groups[g].severity \in Int /\ ViewG(t, g).severity \in Int
      /\ NextG(t, g).severity \in Int
  BY <1>4 DEF GroupRow, Severity
<1> QED  BY <1>2, <1>3, <1>5

LEMMA StartEvidence ==
    ASSUME ShapeInv, StoredInv, EvidenceInv, NEW t \in Session, Starts(t)
    PROVE  WindowCovered' /\ EvidenceFits(t)' /\ NotLowered(t)'
<1>1. /\ phase'[t] = "resolve" /\ groups' = groups
      /\ \A g \in Sig : Members(g)' = Members(g)
      /\ \A q \in Report : wR'[t][q] = None
      /\ \A g \in Sig : wG'[t][g] = None
  BY StartsFresh
<1>2. WindowCovered'
  BY <1>1 DEF EvidenceInv, WindowCovered
<1>3. /\ \A g \in Sig : ViewG(t, g)' = groups'[g] /\ ViewMembers(t, g)' = Members(g)'
      /\ \A q \in Report : ViewR(t, q)' = reports'[q]
      /\ \A g : Members(g)' \in SUBSET Report
  BY <1>1 DEF ViewG, ViewR, ViewMembers, Members
<1>4. \A g \in Sig : \A q \in ViewMembers(t, g)' : Covers(t, g, ViewG(t, g), q)'
  BY <1>2, <1>3 DEF WindowCovered, Covers
<1>5. NotLowered(t)'
  <2>1. \A g \in Sig : groups[g] # None => groups[g].severity \in Int
    BY SeverityNumbers
  <2> QED  BY <1>1, <1>3, <2>1 DEF NotLowered
<1> QED
  BY <1>1, <1>2, <1>4, <1>5 DEF EvidenceFits

LEMMA CommitEvidence ==
    ASSUME ShapeInv, SerialInv, EvidenceInv, NEW t \in Session, Commit(t)
    PROVE  WindowCovered' /\ WorstSeverityKept
<1>1. /\ phase[t] = "commit" /\ \A q \in Report : reports'[q] = ViewR(t, q)
      /\ \A g \in Sig : Members(g)' = ViewMembers(t, g) /\ groups'[g] = ViewG(t, g)
  BY CommitEffect, CommitMembers
<1>2. \A g \in Sig : \A q \in ViewMembers(t, g) : q \in Report /\ Covers(t, g, ViewG(t, g), q)
  BY <1>1 DEF EvidenceInv, EvidenceFits, ViewMembers
<1>3. WindowCovered'
  BY <1>1, <1>2 DEF WindowCovered, Covers
<1>4. WorstSeverityKept
  <2>1. NotLowered(t)
    BY <1>1 DEF EvidenceInv
  <2>2. ASSUME NEW g \in Sig, NEW q \in Members(g)', q \notin Members(g)
        PROVE  reports'[q].severity <= groups'[g].severity
    BY <1>1, <1>2, <2>2 DEF Covers
  <2> QED  BY <1>1, <2>1, <2>2 DEF WorstSeverityKept, NotLowered
<1> QED
  BY <1>3, <1>4

LEMMA EngineerEvidence ==
    ASSUME ShapeInv, SerialInv, EvidenceInv, Engineer
    PROVE  WindowCovered' /\ WorstSeverityKept
<1>1. \A g \in Sig : groups[g] # None => groups[g].severity \in Int
  BY SeverityNumbers
<1>2. ASSUME NEW r \in Report, DeleteReport(r) PROVE WindowCovered' /\ WorstSeverityKept
  <2>1. groups' = groups /\ reports'[r] = None /\ \A q \in Report : q # r => reports'[q] = reports[q]
    BY <1>2 DEF DeleteReport, ShapeInv, TypeOK
  <2>2. \A g \in Sig : Members(g)' \subseteq Members(g)
    BY <2>1 DEF Members
  <2> QED
    BY <1>1, <2>1, <2>2 DEF EvidenceInv, WindowCovered, WorstSeverityKept
<1>3. ASSUME \A r \in Report : ~DeleteReport(r)
      PROVE  WindowCovered' /\ WorstSeverityKept
  <2>1. /\ \A g \in Sig : Members(g)' = Members(g)
        /\ \A g \in Sig : groups[g] # None =>
              /\ groups'[g].severity = groups[g].severity
              /\ groups'[g].first = groups[g].first /\ groups'[g].last = groups[g].last
              /\ groups'[g].versions = groups[g].versions
    BY <1>3, EngineerMembers
  <2>2. \A g \in Sig : \A q \in Members(g) : groups[g] # None
    BY NoneAssumption DEF ShapeInv, GroupsKnown, Members
  <2> QED
    BY <1>1, <2>1, <2>2 DEF EvidenceInv, WindowCovered, WorstSeverityKept
<1> QED
  BY <1>2, <1>3

\* Where nothing is committed, no group and no report changes.
LEMMA NothingCommitted ==
    ASSUME ShapeInv, UNCHANGED <<reports, groups>>
    PROVE  /\ WindowCovered => WindowCovered'
           /\ WorstSeverityKept
<1>1. \A g \in Sig : groups[g] # None => groups[g].severity \in Int
  BY SeverityNumbers
<1>2. \A g : Members(g)' = Members(g)
  BY DEF Members
<1> QED  BY <1>1, <1>2 DEF WindowCovered, WorstSeverityKept

LEMMA EvidenceStep ==
    ASSUME OneAtATime, ShapeInv, ShapeInv', StoredInv, SerialInv, EvidenceInv, Next
    PROVE  EvidenceInv' /\ WorstSeverityKept
<1>1. ASSUME NEW t \in Session, Within(t) PROVE EvidenceInv' /\ WorstSeverityKept
  <2>1. /\ Untouched(t) /\ phase[t] # "idle" /\ UNCHANGED <<reports, groups>>
        /\ \A u \in Session : u # t => phase[u] = "idle"
    BY <1>1, WithinSynced, AloneNow
  <2>2. EvidenceFits(t)' /\ NotLowered(t)'
    BY <1>1, <2>1, WithinEvidence, WithinNotLowered DEF EvidenceInv
  <2>3. WindowCovered' /\ WorstSeverityKept
    BY <2>1, NothingCommitted DEF EvidenceInv
  <2> QED
    BY <2>1, <2>2, <2>3 DEF EvidenceInv, Untouched, Kept
<1>2. ASSUME NEW t \in Session, Starts(t) PROVE EvidenceInv' /\ WorstSeverityKept
  <2>1. EvidenceInv'
    BY <1>2, StartEvidence, StartsFresh DEF EvidenceInv, Untouched, Kept, MayBegin
  <2>2. /\ groups' = groups /\ \A g \in Sig : Members(g)' = Members(g)
    BY <1>2, StartsFresh
  <2>3. \A g \in Sig : groups[g] # None => groups[g].severity \in Int
    BY SeverityNumbers
  <2> QED
    BY <2>1, <2>2, <2>3 DEF WorstSeverityKept
<1>3. ASSUME NEW t \in Session, Commit(t) PROVE EvidenceInv' /\ WorstSeverityKept
  <2>1. phase[t] = "commit" /\ phase'[t] = "idle" /\ Untouched(t)
    BY <1>3, CommitEffect
  <2>2. \A u \in Session : phase'[u] = "idle"
    BY <2>1, AloneNow DEF Untouched, Kept
  <2> QED
    BY <1>3, <2>2, CommitEvidence DEF EvidenceInv
<1>4. ASSUME NEW t \in Session, phase[t] # "idle", Rollback(t) PROVE EvidenceInv' /\ WorstSeverityKept
  <2>1. phase'[t] = "idle" /\ Untouched(t) /\ UNCHANGED <<reports, groups>>
    BY <1>4, RollbackEffect
  <2>2. \A u \in Session : phase'[u] = "idle"
    BY <1>4, <2>1, AloneNow DEF Untouched, Kept
  <2> QED
    BY <2>1, <2>2, NothingCommitted DEF EvidenceInv
<1>5. ASSUME Engineer PROVE EvidenceInv' /\ WorstSeverityKept
  <2>1. \A u \in Session : phase'[u] = "idle"
    BY <1>5, EngineerAlone
  <2> QED
    BY <1>5, <2>1, EngineerEvidence DEF EvidenceInv
<1> QED
  BY <1>1, <1>2, <1>3, <1>4, <1>5, StepKinds

LEMMA EvidenceStutters ==
    ASSUME ShapeInv, SerialInv, EvidenceInv, UNCHANGED vars
    PROVE  EvidenceInv'
<1>1. WindowCovered'
  BY NothingCommitted DEF EvidenceInv, vars
<1>2. ASSUME NEW t \in Session, phase[t] # "idle" PROVE EvidenceFits(t)' /\ NotLowered(t)'
  <2>1. /\ phase' = phase /\ job' = job /\ objG' = objG /\ groups' = groups
        /\ reports' = reports
        /\ \A g : NextG(t, g) = ViewG(t, g) /\ NextMembers(t, g) = ViewMembers(t, g)
        /\ \A q : NextR(t, q) = ViewR(t, q)
    BY DEF vars, sessionVars, NextG, ViewG, NextMembers, ViewMembers, NextR, ViewR
  <2>2. PICK j : job[t] = j
    OBVIOUS
  <2>3. /\ \A g \in Sig : \A q \in ViewMembers(t, g) :
              \/ Covers(t, g, ViewG(t, g), q)
              \/ phase[t] \in {"flushPrevious", "bump"} /\ g = j.target /\ q = j.cur
        /\ phase[t] = "flushPrevious" =>
              \A q \in ViewMembers(t, j.prev) : Covers(t, j.prev, objG[t][j.prev].now, q)
        /\ phase[t] = "file" => Covers(t, j.target, ViewG(t, j.target), j.cur)
    BY <1>2, <2>2 DEF EvidenceInv, EvidenceFits
  <2>4. phase[t] = "file" => j.cur \in Report /\ ViewR(t, j.cur) # None
    BY <2>2, InStep, NoneAssumption DEF Working
  <2>5. NextG(t, j.target) = ViewG(t, j.target) /\ NextR(t, j.cur) = ViewR(t, j.cur)
    BY DEF vars, sessionVars, NextG, ViewG, NextR, ViewR
  <2>6. EvidenceFits(t)'
    BY <2>1, <2>2, <2>3, <2>4, <2>5, EvidenceCarry
  <2>7. NotLowered(t)'
    BY <1>2 DEF EvidenceInv, NotLowered, ViewG, vars, sessionVars
  <2> QED  BY <2>6, <2>7
<1> QED
  BY <1>1, <1>2 DEF EvidenceInv, vars, sessionVars

LEMMA EvidenceAlways ==
    ASSUME OneAtATime
    PROVE  Spec => [](ShapeInv /\ StoredInv /\ SerialInv /\ EvidenceInv)
<1> DEFINE J == ShapeInv /\ StoredInv /\ SerialInv
<1>1. Spec => []J
  BY SerialAlways
<1>2. Init => EvidenceInv
  BY DEF Init, EvidenceInv, WindowCovered, Members, NoReports
<1>3. J /\ J' /\ EvidenceInv /\ [Next]_vars => EvidenceInv'
  BY EvidenceStep, EvidenceStutters
<1> QED
  BY <1>1, <1>2, <1>3, PTL DEF Spec

\* When requests run one at a time, a group's window and versions cover every report in
\* it: through moves, recounts that forget what no report shows any more, and deletions.
\* A step that files a report in a group leaves the group no less severe than the report
\* is then, and no step makes a group less severe, whatever severities engineers set
\* meanwhile (symbolication.py widen_window, record_firmware_version, escalate_severity,
\* recompute_counters; crash.py update).
THEOREM EvidenceKept ==
    ASSUME OneAtATime
    PROVE  Spec => EvidenceCovered
<1> DEFINE J == ShapeInv /\ StoredInv /\ SerialInv /\ EvidenceInv
<1>1. EvidenceInv => WindowCovered
  BY DEF EvidenceInv
<1>2. J /\ J' /\ [Next]_vars => [WorstSeverityKept]_vars
  BY EvidenceStep
<1>3. Spec => []J
  BY EvidenceAlways
<1> QED
  BY <1>1, <1>2, <1>3, PTL DEF Spec, EvidenceCovered

-----------------------------------------------------------------------------
(* Statuses and stamps.                                                    *)

\* A step leaves the status and the stamp of group g as they are.
StatusKept(t, g) ==
    /\ NextG(t, g) = None <=> ViewG(t, g) = None
    /\ ViewG(t, g) # None => /\ NextG(t, g).status = ViewG(t, g).status
                             /\ NextG(t, g).regressed = ViewG(t, g).regressed

\* Within a request, only the INSERT of a group and a bump set a status.
LEMMA StatusSteps ==
    ASSUME ShapeInv, SerialInv, NEW t \in Session, Within(t)
    PROVE  LET s == job[t].target
           IN  \/ /\ phase[t] \notin {"insert", "bump"}
                  /\ \A g \in Sig : StatusKept(t, g)
               \/ /\ phase[t] = "insert" /\ phase'[t] = "touch" /\ groups[s] = None
                  /\ NextG(t, s) # None /\ NextG(t, s).status = "open" /\ ~NextG(t, s).regressed
                  /\ \A g \in Sig : g # s => NextG(t, g) = ViewG(t, g)
               \/ /\ phase[t] = "bump" /\ phase'[t] = "file"
                  /\ ViewG(t, s) # None /\ NextG(t, s) # None
                  /\ NextG(t, s).status = IF ViewG(t, s).status = "resolved" THEN "regressed"
                                          ELSE ViewG(t, s).status
                  /\ NextG(t, s).regressed <=>
                        ViewG(t, s).status = "resolved" \/ ViewG(t, s).regressed
                  /\ \A g \in Sig : g # s => NextG(t, g) = ViewG(t, g)
<1> DEFINE s == job[t].target
           p == job[t].prev
<1>1. CASE Resolve(t) \/ Lookup(t) \/ Touch(t)
  <2>1. phase[t] \in {"resolve", "lookup", "touch"} /\ \A g \in Sig : NextG(t, g) = ViewG(t, g)
    BY <1>1, ResolveEffect, LookupEffect, TouchEffect DEF KeepsGroups
  <2> QED
    BY <2>1 DEF StatusKept
<1>2. CASE Insert(t)
  <2> DEFINE row == NewGroup(t, job[t].cur)
  <2>1. row.status = "open" /\ ~row.regressed
    BY DEF NewGroup
  <2> HIDE DEF row
  <2>2. /\ phase[t] = "insert" /\ phase'[t] = "touch" /\ groups[s] = None
        /\ NextG(t, s) = row /\ row # None
        /\ \A g \in Sig : g # s => NextG(t, g) = ViewG(t, g)
    BY <1>2, InsertEffect DEF row
  <2> QED
    BY <2>1, <2>2
<1>3. CASE Move(t) \/ File(t)
  <2>1. phase[t] \in {"move", "file"} /\ \A g \in Sig : NextG(t, g) = ViewG(t, g)
    BY <1>3, MoveEffect, FileEffect
  <2> QED
    BY <2>1 DEF StatusKept
<1>4. CASE FlushPrevious(t)
  <2>1. /\ phase[t] = "flushPrevious" /\ p \in Sig /\ NextG(t, p) = objG[t][p].now
        /\ ViewG(t, p) # None /\ \A g \in Sig : g # p => NextG(t, g) = ViewG(t, g)
    BY <1>4, FlushPreviousEffect DEF Flushes
  <2>2. objG[t][p] # None /\ objG[t][p] \in [was : GroupRow, now : GroupRow]
    BY <2>1 DEF ShapeInv, SessionShape, TypeOK
  <2>3. /\ objG[t][p].was = ViewG(t, p)
        /\ objG[t][p].now.status = ViewG(t, p).status
        /\ objG[t][p].now.regressed = ViewG(t, p).regressed
    BY <2>1, <2>2 DEF SerialInv, Synced, SyncedG, Pending
  <2>4. objG[t][p].now # None
    BY <2>2, NoneAssumption
  <2> QED
    BY <2>1, <2>3, <2>4 DEF StatusKept
<1>5. CASE Bump(t)
  <2> DEFINE old == ViewG(t, s)
             new == Bumped(t, old)
  <2>1. /\ phase[t] = "bump" /\ phase'[t] = "file" /\ old \in GroupRow /\ old # None
        /\ NextG(t, s) = new
        /\ \A g \in Sig : g # s => NextG(t, g) = ViewG(t, g)
    BY <1>5, BumpEffect, NoneAssumption DEF Flushes
  <2>2. /\ new # None
        /\ new.status = IF old.status = "resolved" THEN "regressed" ELSE old.status
        /\ new.regressed <=> old.status = "resolved" \/ old.regressed
    BY <2>1, AtHand, BumpedFields DEF Working
  <2> HIDE DEF new
  <2> QED
    BY <2>1, <2>2
<1>6. CASE Tally(t)
  <2>1. /\ phase[t] = "tally" /\ NextG(t, s) = objG[t][s].now
        /\ ViewG(t, s) # None /\ \A g \in Sig : g # s => NextG(t, g) = ViewG(t, g)
    BY <1>6, TallyEffect DEF Flushes
  <2>2. s \in Sig /\ objG[t][s] # None /\ objG[t][s] \in [was : GroupRow, now : GroupRow]
    <3>1. s \in Sig /\ objG[t][s] \in [was : GroupRow, now : GroupRow]
      BY <2>1, TargetObject DEF Grouped, Known
    <3> QED
      BY <2>1, <3>1 DEF Grouped, ShapeInv, SessionShape
  <2>3. /\ objG[t][s].was = ViewG(t, s)
        /\ objG[t][s].now = [objG[t][s].was EXCEPT !.devices = objG[t][s].now.devices]
    BY <2>1, <2>2 DEF SerialInv, Synced, SyncedG, Pending
  <2>4. /\ objG[t][s].now.status = ViewG(t, s).status
        /\ objG[t][s].now.regressed = ViewG(t, s).regressed
    BY <2>2, <2>3 DEF GroupRow
  <2>5. objG[t][s].now # None
    BY <2>2, NoneAssumption
  <2> QED
    BY <2>1, <2>4, <2>5 DEF StatusKept
<1> QED
  BY <1>1, <1>2, <1>3, <1>4, <1>5, <1>6 DEF Within

\* What engineers make of a group: a PATCH that nobody overtook sets the status
\* it was given, and keeps the stamp only of a group that stays regressed.
LEMMA PatchSets ==
    ASSUME ShapeInv, SerialInv, NEW v \in TriageStatus, SaveTriage(v)
    PROVE  /\ triage # None /\ triage.group \in Sig /\ groups[triage.group] # None
           /\ groups'[triage.group] # None /\ groups'[triage.group].status = v
           /\ groups'[triage.group].regressed => v = "regressed"
           /\ groups'[triage.group].count = groups[triage.group].count
           /\ \A g \in Sig : g # triage.group => groups'[g] = groups[g]
           /\ UNCHANGED <<reports, sessionVars>>
<1> DEFINE s == triage.group
           stamp == StampAfter(v, triage.regressed)
           row == [groups[s] EXCEPT !.status = Col(v, triage.status, groups[s].status),
                                    !.regressed = Col(stamp, triage.regressed, groups[s].regressed)]
<1>1. triage # None /\ groups' = [groups EXCEPT ![s] = row] /\ UNCHANGED <<reports, sessionVars>>
  BY DEF SaveTriage
<1>2. /\ s \in Sig /\ groups[s] # None /\ groups[s] \in GroupRow
      /\ triage.regressed \in BOOLEAN
      /\ groups[s].status = triage.status /\ groups[s].regressed = triage.regressed
  BY <1>1 DEF ShapeInv, TypeOK, GroupsKnown, Triage, SerialInv, Alone
<1>3. Col(v, triage.status, groups[s].status) = v
      /\ Col(stamp, triage.regressed, groups[s].regressed) = stamp
  BY <1>2 DEF Col
<1>4. stamp \in BOOLEAN /\ (stamp => v = "regressed")
  BY <1>2 DEF StampAfter
<1> HIDE DEF stamp
<1>5. /\ row \in GroupRow /\ row.status = v /\ row.regressed = stamp
      /\ row.count = groups[s].count
  BY <1>2, <1>3, <1>4, ConstantsAssumption DEF GroupRow
<1> HIDE DEF row
<1>6. groups'[s] = row /\ \A g \in Sig : g # s => groups'[g] = groups[g]
  BY <1>1, <1>2 DEF ShapeInv, TypeOK
<1> QED
  BY <1>1, <1>2, <1>4, <1>5, <1>6, NoneAssumption

LEMMA StampStep ==
    ASSUME OneAtATime, ShapeInv, ShapeInv', SerialInv, StampInv, Next
    PROVE  StampInv'
<1>1. \A t \in Session, g \in Sig : ViewG(t, g)' = NextG(t, g)
  BY DEF ViewG, NextG
<1>2. ASSUME NEW u \in Session, wG'[u] = wG[u], groups' = groups, NEW g \in Sig,
             NextG(u, g) # None
      PROVE  Stamped(NextG(u, g))
  BY <1>2 DEF StampInv, NextG, ViewG
<1>3. ASSUME NEW t \in Session, Within(t) PROVE StampInv'
  <2>1. Untouched(t) /\ UNCHANGED <<reports, groups>>
    BY <1>3, WithinSynced
  <2>2. \A g \in Sig : ViewG(t, g) # None => Stamped(ViewG(t, g))
    BY DEF StampInv
  <2>3. \A g \in Sig : NextG(t, g) # None => Stamped(NextG(t, g))
    BY <1>3, <2>2, StatusSteps DEF StatusKept, Stamped
  <2>4. \A u \in Session, g \in Sig : NextG(u, g) # None => Stamped(NextG(u, g))
    BY <1>2, <2>1, <2>3 DEF Untouched, Kept
  <2>5. RegressionStamped'
    BY <2>1 DEF StampInv, RegressionStamped
  <2> QED
    BY <1>1, <2>4, <2>5 DEF StampInv, Stamped
<1>4. ASSUME RegressionStamped', \A u \in Session : NoGroups = wG'[u] PROVE StampInv'
  <2>1. \A u \in Session, g \in Sig : ViewG(u, g)' = groups'[g]
    BY <1>4 DEF ViewG, NoGroups
  <2> QED
    BY <1>4, <2>1 DEF StampInv, RegressionStamped, Stamped
<1>5. ASSUME NEW t \in Session, Starts(t) PROVE StampInv'
  <2>1. /\ groups' = groups /\ MayBegin /\ Untouched(t)
        /\ \A g \in Sig : wG'[t][g] = None
    BY <1>5, StartSynced, IngestEffect, LoadEffect DEF Starts
  <2>2. wG'[t] = NoGroups /\ \A u \in Session : u # t => wG'[u] = NoGroups
    BY <2>1 DEF ShapeInv, SessionShape, TypeOK, NoGroups, MayBegin, Untouched, Kept
  <2> QED
    BY <1>4, <2>1, <2>2 DEF StampInv, RegressionStamped
<1>6. ASSUME NEW t \in Session, phase[t] # "idle", Commit(t) \/ Rollback(t) PROVE StampInv'
  <2>1. /\ phase'[t] = "idle" /\ Untouched(t)
        /\ groups' = groups \/ \A g \in Sig : groups'[g] = ViewG(t, g)
    BY <1>6, CommitEffect, RollbackEffect
  <2>2. \A u \in Session : phase'[u] = "idle"
    BY <1>6, <2>1, AloneNow DEF Untouched, Kept
  <2>3. RegressionStamped'
    BY <2>1 DEF StampInv, RegressionStamped, Stamped
  <2> QED
    BY <1>4, <2>2, <2>3 DEF ShapeInv, SessionShape
<1>7. ASSUME Engineer PROVE StampInv'
  <2>1. \A u \in Session : phase'[u] = "idle"
    BY <1>7, EngineerAlone
  <2>2. RegressionStamped'
    <3>1. \A v \in TriageStatus : SaveTriage(v) => RegressionStamped'
      BY PatchSets DEF StampInv, RegressionStamped
    <3>2. \A r \in Report : DeleteReport(r) => groups' = groups
      BY DEF DeleteReport
    <3>3. \A r \in Report, v \in TriageSeverity : TriageReport(r, v) => groups' = groups
      BY DEF TriageReport
    <3>4. \A s \in Sig : TriageGroup(s) => groups' = groups
      BY DEF TriageGroup
    <3>5. \A f \in Firmware : IndexBuild(f) \/ DeleteBuild(f) => groups' = groups
      BY DEF IndexBuild, DeleteBuild
    <3>6. groups' = groups => RegressionStamped'
      BY DEF StampInv, RegressionStamped
    <3> QED
      BY <1>7, <3>1, <3>2, <3>3, <3>4, <3>5, <3>6 DEF Engineer
  <2> QED
    BY <1>4, <2>1, <2>2 DEF ShapeInv, SessionShape
<1>8. \A t \in Session : Commit(t) => phase[t] # "idle"
  BY DEF Commit
<1> QED
  BY <1>3, <1>5, <1>6, <1>7, <1>8, StepKinds

\* regressed_at stands on a group only while the group is regressed, when requests
\* run one at a time: the PATCH that sets a status clears it, and the report that
\* regresses a group sets it (crash_groups.py update_group, _maybe_regress).
THEOREM StampsGo ==
    ASSUME OneAtATime
    PROVE  Spec => []RegressionStamped
<1> DEFINE J == ShapeInv /\ StoredInv /\ SerialInv
<1>1. Spec => []J
  BY SerialAlways
<1>2. Init => StampInv
  BY DEF Init, StampInv, RegressionStamped, ViewG, NoGroups
<1>3. J /\ J' /\ StampInv /\ [Next]_vars => StampInv'
  <2> SUFFICES ASSUME J, J', StampInv, [Next]_vars PROVE StampInv'
    OBVIOUS
  <2>1. CASE Next
    BY <2>1, StampStep
  <2>2. CASE UNCHANGED vars
    BY <2>2 DEF StampInv, RegressionStamped, Stamped, ViewG, vars, sessionVars
  <2> QED
    BY <2>1, <2>2
<1>4. StampInv => RegressionStamped
  BY DEF StampInv
<1> QED
  BY <1>1, <1>2, <1>3, <1>4, PTL DEF Spec

\* After a step of session t it has done Done', and hit the groups Hit' says.
LEMMA StatusCarry ==
    ASSUME NEW t \in Session, StatusFits(t), job'[t] = job[t],
           phase[t] \in Working, phase'[t] \in Working,
           \A q \in Report : q # job[t].cur => wR'[t][q] = wR[t][q],
           phase[t] \in Grouped => phase'[t] \in Grouped,
           phase'[t] = "tally" => wR'[t][job[t].cur] # None,
           phase[t] \in {"file", "tally"} => phase'[t] \in {"file", "tally"},
           \A s \in Sig : ViewG(t, s) = None => NextG(t, s) = None \/
              (s = job[t].target /\ phase'[t] \in Grouped),
           \A s \in Sig : NextG(t, s) # None =>
              NextG(t, s).status =
                 IF groups[s] = None THEN "open"
                 ELSE IF (Hit(t, s) \/ (phase'[t] \in {"file", "tally"} /\ s = job[t].target))
                         /\ groups[s].status = "resolved"
                      THEN "regressed" ELSE groups[s].status,
           job[t].todo \in SUBSET Report, job[t].cur \in Report,
           groups' = groups
    PROVE  StatusFits(t)'
<1>1. Done(t) = {q \in Report : wR[t][q] # None /\ q # job[t].cur}
  BY DEF Done
<1>2. Done(t)' = Done(t) /\ \A q \in Done(t) : wR'[t][q] = wR[t][q]
  BY <1>1 DEF Done
<1>3. \A s : Hit(t, s)' <=> Hit(t, s) \/ (phase'[t] \in {"file", "tally"} /\ s = job[t].target)
  BY <1>2 DEF Hit
<1>4. \A s : ViewG(t, s)' = NextG(t, s)
  BY DEF ViewG, NextG
<1>5. \A q \in job'[t].todo : wR'[t][q] = None
  BY DEF StatusFits
<1>6. phase'[t] # "commit" /\ job'[t].cur \notin job'[t].todo
  BY DEF StatusFits, Working
<1>7. \A q \in Done(t)' : wR'[t][q].group # None
  BY <1>2 DEF StatusFits
<1>8. \A s \in Sig : ViewG(t, s)' # None =>
          ViewG(t, s)'.status = IF groups'[s] = None THEN "open"
                                ELSE IF Hit(t, s)' /\ groups'[s].status = "resolved" THEN "regressed"
                                ELSE groups'[s].status
  BY <1>3, <1>4
<1>9. \A s \in Sig : groups'[s] = None /\ ViewG(t, s)' # None =>
          Hit(t, s)' \/ (phase'[t] \in Grouped /\ s = job'[t].target)
  BY <1>3, <1>4 DEF StatusFits
<1> QED
  BY <1>5, <1>6, <1>7, <1>8, <1>9 DEF StatusFits

\* The course of a request between its first look for the group and its last count.
LEMMA Course ==
    ASSUME ShapeInv, SerialInv, NEW t \in Session, Within(t), phase[t] \notin {"resolve", "tally"}
    PROVE  /\ phase[t] \in Working /\ phase'[t] \in Working /\ job'[t] = job[t]
           /\ \A q \in Report : q # job[t].cur => wR'[t][q] = wR[t][q]
           /\ phase[t] \in Grouped => phase'[t] \in Grouped
           /\ phase'[t] = "file" => phase[t] = "bump"
           /\ phase'[t] = "tally" => phase[t] = "file" /\ wR'[t][job[t].cur] # None
           /\ phase[t] = "file" => phase'[t] = "tally"
<1>1. \/ Lookup(t) \/ Insert(t) \/ Touch(t) \/ Move(t) \/ FlushPrevious(t) \/ Bump(t) \/ File(t)
  <2>1. ~Resolve(t) /\ ~Tally(t)
    BY ResolveEffect, TallyEffect
  <2> QED
    BY <2>1 DEF Within
<1>2. CASE Lookup(t)
  BY <1>2, LookupEffect DEF Inside, KeepsReports, Working, Grouped, AfterGroup
<1>3. CASE Insert(t)
  BY <1>3, InsertEffect DEF Inside, KeepsReports, Working, Grouped
<1>4. CASE Touch(t)
  BY <1>4, TouchEffect DEF Inside, Refiles, Working, Grouped, AfterGroup
<1>5. CASE Move(t)
  BY <1>5, MoveEffect DEF Inside, Refiles, Working, Grouped
<1>6. CASE FlushPrevious(t)
  BY <1>6, FlushPreviousEffect DEF Inside, KeepsReports, Working, Grouped
<1>7. CASE Bump(t)
  BY <1>7, BumpEffect DEF Inside, KeepsReports, Working, Grouped
<1>8. CASE File(t)
  BY <1>8, FileEffect DEF Inside, Refiles, Working, Grouped
<1> QED
  BY <1>1, <1>2, <1>3, <1>4, <1>5, <1>6, <1>7, <1>8

LEMMA MiddleStatus ==
    ASSUME ShapeInv, SerialInv, NEW t \in Session, StatusFits(t), Within(t),
           phase[t] \notin {"resolve", "tally"}
    PROVE  StatusFits(t)'
<1> DEFINE s == job[t].target
           Hits(g) == Hit(t, g) \/ (phase'[t] \in {"file", "tally"} /\ g = s)
<1>1. /\ phase[t] \in Working /\ phase'[t] \in Working /\ job'[t] = job[t]
      /\ \A q \in Report : q # job[t].cur => wR'[t][q] = wR[t][q]
      /\ phase[t] \in Grouped => phase'[t] \in Grouped
      /\ phase'[t] = "file" => phase[t] = "bump"
      /\ phase'[t] = "tally" => phase[t] = "file" /\ wR'[t][job[t].cur] # None
      /\ phase[t] = "file" => phase'[t] = "tally"
  BY Course
<1>2. /\ job[t].cur \in Report /\ s \in Sig /\ job[t].todo \in SUBSET Report /\ groups' = groups
  BY <1>1, AtHand, WithinSynced DEF Job
<1>3. \A g \in Sig : ViewG(t, g) # None =>
         ViewG(t, g).status = IF groups[g] = None THEN "open"
                              ELSE IF Hit(t, g) /\ groups[g].status = "resolved" THEN "regressed"
                              ELSE groups[g].status
  BY DEF StatusFits
<1>4. phase[t] = "file" => Hit(t, s)
  BY DEF Hit
<1>5. /\ \A g \in Sig : ViewG(t, g) = None => NextG(t, g) = None \/ (g = s /\ phase'[t] \in Grouped)
      /\ \A g \in Sig : NextG(t, g) # None =>
            NextG(t, g).status = IF groups[g] = None THEN "open"
                                 ELSE IF Hits(g) /\ groups[g].status = "resolved" THEN "regressed"
                                 ELSE groups[g].status
  <2>1. CASE phase[t] \notin {"insert", "bump"} /\ \A g \in Sig : StatusKept(t, g)
    <3>1. \A g \in Sig : Hits(g) <=> Hit(t, g)
      BY <1>1, <1>4, <2>1
    <3> HIDE DEF Hits
    <3> QED
      BY <1>3, <2>1, <3>1 DEF StatusKept
  <2>2. CASE /\ phase[t] = "insert" /\ phase'[t] = "touch" /\ groups[s] = None
             /\ NextG(t, s) # None /\ NextG(t, s).status = "open"
             /\ \A g \in Sig : g # s => NextG(t, g) = ViewG(t, g)
    BY <1>3, <2>2 DEF Grouped
  <2>3. CASE /\ phase[t] = "bump" /\ phase'[t] = "file"
             /\ ViewG(t, s) # None /\ NextG(t, s) # None
             /\ NextG(t, s).status = IF ViewG(t, s).status = "resolved" THEN "regressed"
                                     ELSE ViewG(t, s).status
             /\ \A g \in Sig : g # s => NextG(t, g) = ViewG(t, g)
    BY <1>2, <1>3, <2>3
  <2> QED
    BY <2>1, <2>2, <2>3, StatusSteps
<1>6. phase[t] \in {"file", "tally"} => phase'[t] \in {"file", "tally"}
  BY <1>1
<1> QED
  BY <1>1, <1>2, <1>5, <1>6, StatusCarry

LEMMA ResolveStatus ==
    ASSUME ShapeInv, NEW t \in Session, StatusFits(t), Resolve(t)
    PROVE  StatusFits(t)'
<1>1. /\ phase[t] = "resolve" /\ phase'[t] = "lookup" /\ groups' = groups
      /\ \A q \in Report : wR'[t][q] = wR[t][q]
      /\ \A g \in Sig : NextG(t, g) = ViewG(t, g)
  BY ResolveEffect DEF KeepsReports
<1>2. PICK r \in job[t].todo : /\ r \in Report /\ job'[t].todo = job[t].todo \ {r}
                               /\ job'[t].cur = r
  BY ResolveEffect
<1>3. job[t].todo \in SUBSET Report /\ wR[t][r] = None
  BY DEF ShapeInv, TypeOK, Job, StatusFits
<1>4. Done(t) = {q \in Report : wR[t][q] # None} /\ Done(t)' = Done(t)
  BY <1>1, <1>2, <1>3 DEF Done, Working
<1>5. \A g : Hit(t, g)' <=> Hit(t, g)
  BY <1>1, <1>4 DEF Hit, Done
<1>6. \A g : ViewG(t, g)' = NextG(t, g)
  BY DEF ViewG, NextG
<1>7. \A q \in job'[t].todo : wR'[t][q] = None
  BY <1>1, <1>2, <1>3 DEF StatusFits
<1>8. \A q \in Done(t)' : wR'[t][q].group # None
  BY <1>1, <1>4 DEF StatusFits, Done
<1>9. \A g \in Sig : ViewG(t, g)' # None =>
         ViewG(t, g)'.status = IF groups'[g] = None THEN "open"
                               ELSE IF Hit(t, g)' /\ groups'[g].status = "resolved" THEN "regressed"
                               ELSE groups'[g].status
  BY <1>1, <1>5, <1>6 DEF StatusFits
<1>10. \A g \in Sig : groups'[g] = None /\ ViewG(t, g)' # None => Hit(t, g)'
  BY <1>1, <1>5, <1>6 DEF StatusFits, Grouped
<1> QED
  BY <1>1, <1>2, <1>7, <1>8, <1>9, <1>10 DEF StatusFits

LEMMA TallyStatus ==
    ASSUME ShapeInv, SerialInv, NEW t \in Session, StatusFits(t), Tally(t)
    PROVE  StatusFits(t)'
<1> DEFINE r == job[t].cur
           s == job[t].target
<1>1. /\ phase[t] = "tally" /\ phase'[t] \in {"commit", "resolve"} /\ job'[t] = job[t]
      /\ \A q \in Report : wR'[t][q] = wR[t][q]
  BY TallyEffect DEF Inside, KeepsReports
<1>2. /\ \A g \in Sig : StatusKept(t, g)
      /\ groups' = groups
  <2>1. Within(t)
    BY DEF Within
  <2> QED
    BY <1>1, <2>1, StatusSteps, WithinSynced
<1>3. /\ r \in Report /\ s \in Sig /\ s # None /\ wR[t][r] # None /\ wR[t][r].group = s
      /\ job[t].todo \in SUBSET Report
  <2>1. /\ r \in Report /\ s \in Sig /\ objR[t][r] # None /\ job[t].todo \in SUBSET Report
    BY <1>1, AtHand DEF Working, Job
  <2>2. wR[t][r] # None
    BY <1>1 DEF StatusFits
  <2>3. objR[t][r].group = s /\ objR[t][r] = ViewR(t, r)
    BY <1>1, <2>1 DEF SerialInv, Synced, SyncedR, Located
  <2> QED
    BY <2>1, <2>2, <2>3, NoneAssumption DEF ViewR
<1>4. Done(t) = {q \in Report : wR[t][q] # None /\ q # r}
  BY <1>1 DEF Done, Working
<1>5. Done(t)' = Done(t) \cup {r}
  BY <1>1, <1>3, <1>4 DEF Done, Working
<1>6. \A g : Hit(t, g)' <=> Hit(t, g)
  <2>1. \A q \in Report : wR'[t][q] = wR[t][q]
    BY <1>1
  <2>2. \A g : Hit(t, g) <=> (\E q \in Done(t) : wR[t][q].group = g) \/ g = s
    BY <1>1 DEF Hit
  <2>3. \A g : Hit(t, g)' <=> \E q \in Done(t)' : wR'[t][q].group = g
    BY <1>1 DEF Hit
  <2> QED
    BY <1>3, <1>4, <1>5, <2>1, <2>2, <2>3
<1>7. \A g : ViewG(t, g)' = NextG(t, g)
  BY DEF ViewG, NextG
<1>8. \A q \in job'[t].todo : wR'[t][q] = None
  BY <1>1, <1>3 DEF StatusFits
<1>9. \A q \in Done(t)' : wR'[t][q].group # None
  BY <1>1, <1>3, <1>4, <1>5 DEF StatusFits
<1>10. \A g \in Sig : ViewG(t, g)' # None =>
         ViewG(t, g)'.status = IF groups'[g] = None THEN "open"
                               ELSE IF Hit(t, g)' /\ groups'[g].status = "resolved" THEN "regressed"
                               ELSE groups'[g].status
  BY <1>2, <1>6, <1>7 DEF StatusFits, StatusKept
<1>11. \A g \in Sig : groups'[g] = None /\ ViewG(t, g)' # None => Hit(t, g)'
  <2>1. Hit(t, s)
    BY <1>1 DEF Hit
  <2> QED
    BY <1>2, <1>6, <1>7, <2>1 DEF StatusFits, StatusKept
<1>12. phase'[t] \notin Working /\ phase'[t] # "tally" /\ \E q \in Report : wR'[t][q] # None
  BY <1>1, <1>3 DEF Working
<1> QED
  BY <1>8, <1>9, <1>10, <1>11, <1>12 DEF StatusFits

LEMMA WithinStatus ==
    ASSUME ShapeInv, SerialInv, NEW t \in Session, StatusFits(t), Within(t)
    PROVE  StatusFits(t)'
<1>1. CASE phase[t] = "resolve"
  <2>1. Resolve(t)
    BY <1>1 DEF Within, Lookup, Insert, Touch, Move, FlushPrevious, Bump, File, Tally
  <2> QED
    BY <2>1, ResolveStatus
<1>2. CASE phase[t] = "tally"
  <2>1. Tally(t)
    BY <1>2 DEF Within, Resolve, Lookup, Insert, Touch, Move, FlushPrevious, Bump, File
  <2> QED
    BY <2>1, TallyStatus
<1> QED
  BY <1>1, <1>2, MiddleStatus

LEMMA StatusStep ==
    ASSUME OneAtATime, ShapeInv, ShapeInv', SerialInv, StatusInv, Next
    PROVE  StatusInv'
<1>1. ASSUME NEW t \in Session, Within(t) PROVE StatusInv'
  <2>1. Untouched(t) /\ phase[t] # "idle" /\ \A u \in Session : u # t => phase[u] = "idle"
    BY <1>1, WithinSynced, AloneNow
  <2>2. StatusFits(t)'
    BY <1>1, <2>1, WithinStatus DEF StatusInv
  <2> QED
    BY <2>1, <2>2 DEF StatusInv, Untouched, Kept
<1>2. ASSUME NEW t \in Session, Starts(t) PROVE StatusInv'
  <2>1. /\ phase'[t] = "resolve" /\ groups' = groups /\ MayBegin /\ Untouched(t)
        /\ \A q \in Report : wR'[t][q] = None
        /\ \A g \in Sig : wG'[t][g] = None
    BY <1>2, StartSynced, IngestEffect, LoadEffect DEF Starts
  <2>2. Done(t)' = {} /\ \A g : ~Hit(t, g)'
    BY <2>1 DEF Done, Hit
  <2>3. job'[t].todo \in SUBSET Report
    BY DEF ShapeInv, TypeOK, Job
  <2>4. \A g \in Sig : ViewG(t, g)' = groups'[g]
    BY <2>1 DEF ViewG
  <2>5. StatusFits(t)'
    BY <2>1, <2>2, <2>3, <2>4 DEF StatusFits, Working
  <2> QED
    BY <2>1, <2>5 DEF StatusInv, Untouched, Kept, MayBegin
<1>3. ASSUME NEW t \in Session, phase[t] # "idle", Commit(t) \/ Rollback(t) PROVE StatusInv'
  <2>1. phase'[t] = "idle" /\ Untouched(t)
    BY <1>3, CommitEffect, RollbackEffect
  <2> QED
    BY <1>3, <2>1, AloneNow DEF StatusInv, Untouched, Kept
<1>4. ASSUME Engineer PROVE StatusInv'
  BY <1>4, EngineerAlone DEF StatusInv
<1>5. \A t \in Session : Commit(t) => phase[t] # "idle"
  BY DEF Commit
<1> QED
  BY <1>1, <1>2, <1>3, <1>4, <1>5, StepKinds

\* The status layer, in every reachable state.
LEMMA StatusAlways ==
    ASSUME OneAtATime
    PROVE  Spec => []StatusInv
<1> DEFINE J == ShapeInv /\ StoredInv /\ SerialInv
<1>1. Spec => []J
  BY SerialAlways
<1>2. Init => StatusInv
  BY DEF Init, StatusInv
<1>3. J /\ J' /\ StatusInv /\ [Next]_vars => StatusInv'
  <2> SUFFICES ASSUME J, J', StatusInv, [Next]_vars PROVE StatusInv'
    OBVIOUS
  <2>1. CASE Next
    BY <2>1, StatusStep
  <2>2. CASE UNCHANGED vars
    <3> SUFFICES ASSUME NEW t \in Session, phase[t] # "idle" PROVE StatusFits(t)'
      BY <2>2 DEF StatusInv, vars, sessionVars
    <3>1. /\ phase' = phase /\ job' = job /\ wR' = wR /\ wG' = wG /\ groups' = groups
      BY <2>2 DEF vars, sessionVars
    <3>2. Done(t)' = Done(t) /\ \A g : (Hit(t, g)' <=> Hit(t, g)) /\ ViewG(t, g)' = ViewG(t, g)
      BY <3>1 DEF Done, Hit, ViewG
    <3>3. StatusFits(t)
      BY DEF StatusInv
    <3> QED
      BY <3>1, <3>2, <3>3 DEF StatusFits
  <2> QED
    BY <2>1, <2>2
<1> QED
  BY <1>1, <1>2, <1>3, PTL DEF Spec

\* What a commit files: the reports the session wrote, each in a group it hit.
LEMMA CommitFiles ==
    ASSUME ShapeInv, StatusInv, NEW t \in Session, Commit(t)
    PROVE  /\ \E q \in Report : wR[t][q] # None
           /\ \A q \in Report : wR[t][q] # None =>
                 /\ wR[t][q].group \in Sig /\ groups'[wR[t][q].group] # None
                 /\ reports'[q] = wR[t][q]
           /\ \A q \in Report : wR[t][q] = None => reports'[q] = reports[q]
           /\ \A s \in Sig :
                 IF \E q \in Report : wR[t][q] # None /\ wR[t][q].group = s
                 THEN groups'[s].status = IF groups[s] = None THEN "open"
                                          ELSE IF groups[s].status = "resolved" THEN "regressed"
                                          ELSE groups[s].status
                 ELSE /\ groups'[s] = None <=> groups[s] = None
                      /\ groups[s] # None => groups'[s].status = groups[s].status
<1>1. /\ phase[t] = "commit" /\ \A q \in Report : reports'[q] = ViewR(t, q)
      /\ \A g \in Sig : groups'[g] = ViewG(t, g)
  BY CommitEffect
<1>2. StatusFits(t)
  BY <1>1 DEF StatusInv
<1>3. Done(t) = {q \in Report : wR[t][q] # None}
  BY <1>1 DEF Done, Working
<1>4. \A s : Hit(t, s) <=> \E q \in Report : wR[t][q] # None /\ wR[t][q].group = s
  BY <1>1, <1>3 DEF Hit
<1>5. \A q \in Report : wR[t][q] # None => /\ wR[t][q].group \in Sig
                                           /\ ViewG(t, wR[t][q].group) # None
  <2> SUFFICES ASSUME NEW q \in Report, wR[t][q] # None
               PROVE  wR[t][q].group \in Sig /\ ViewG(t, wR[t][q].group) # None
    OBVIOUS
  <2>1. wR[t][q].group # None /\ wR[t][q] \in ReportRow
    BY <1>2, <1>3 DEF StatusFits, ShapeInv, TypeOK
  <2> QED
    BY <2>1 DEF ReportRow, ShapeInv, SessionKnows
<1>6. \A s \in Sig : groups[s] # None => ViewG(t, s) # None
  BY DEF ViewG
<1>7. \A s \in Sig : groups[s] = None /\ ViewG(t, s) # None => Hit(t, s)
  BY <1>1, <1>2 DEF StatusFits, Grouped
<1>8. \A s \in Sig : ViewG(t, s) # None =>
         ViewG(t, s).status = IF groups[s] = None THEN "open"
                              ELSE IF Hit(t, s) /\ groups[s].status = "resolved" THEN "regressed"
                              ELSE groups[s].status
  BY <1>2 DEF StatusFits
<1>9. \E q \in Report : wR[t][q] # None
  BY <1>1, <1>2 DEF StatusFits
<1>10. \A q \in Report : /\ wR[t][q] # None => ViewR(t, q) = wR[t][q]
                         /\ wR[t][q] = None => ViewR(t, q) = reports[q]
  BY DEF ViewR
<1>11. \A s \in Sig : Hit(t, s) => ViewG(t, s) # None
  BY <1>4, <1>5
<1>12. ASSUME NEW s \in Sig
       PROVE  IF Hit(t, s)
              THEN groups'[s].status = IF groups[s] = None THEN "open"
                                       ELSE IF groups[s].status = "resolved" THEN "regressed"
                                       ELSE groups[s].status
              ELSE /\ groups'[s] = None <=> groups[s] = None
                   /\ groups[s] # None => groups'[s].status = groups[s].status
  BY <1>1, <1>6, <1>7, <1>8, <1>11
<1> QED
  BY <1>1, <1>4, <1>5, <1>9, <1>10, <1>12

\* No step files one more report in a resolved group and leaves it resolved, when
\* requests run one at a time (symbolication.py _maybe_regress, on every path that
\* files a report).
THEOREM ResolvedRegresses ==
    ASSUME OneAtATime
    PROVE  Spec => ResolvedTakesNoReport
<1> DEFINE J == ShapeInv /\ StoredInv /\ SerialInv
<1>1. Spec => []J /\ []StatusInv
  BY SerialAlways, StatusAlways, PTL
<1>2. J /\ StatusInv /\ [Next]_vars => [RegressesWhenHit]_vars
  <2> SUFFICES ASSUME J, StatusInv, Next, NEW s \in Sig,
                      groups[s] # None, groups[s].status = "resolved", groups'[s].status = "resolved"
               PROVE  Members(s)' \subseteq Members(s)
    BY DEF RegressesWhenHit
  <2>1. ASSUME NEW t \in Session, Within(t) PROVE Members(s)' = Members(s)
    BY <2>1, WithinSynced DEF Members
  <2>2. ASSUME NEW t \in Session, Starts(t) PROVE Members(s)' = Members(s)
    BY <2>2, StartsFresh
  <2>3. ASSUME NEW t \in Session, Commit(t) PROVE Members(s)' \subseteq Members(s)
    <3>1. \A q \in Report : ~(wR[t][q] # None /\ wR[t][q].group = s)
      BY <2>3, CommitFiles
    <3>2. \A q \in Report : /\ wR[t][q] # None => reports'[q] = wR[t][q]
                            /\ wR[t][q] = None => reports'[q] = reports[q]
      BY <2>3, CommitFiles
    <3> QED
      BY <3>1, <3>2 DEF Members
  <2>4. ASSUME NEW t \in Session, Rollback(t) PROVE Members(s)' = Members(s)
    BY <2>4, RollbackEffect DEF Members
  <2>5. ASSUME NEW r \in Report, DeleteReport(r) PROVE Members(s)' \subseteq Members(s)
    <3>1. reports'[r] = None /\ \A q \in Report : q # r => reports'[q] = reports[q]
      BY <2>5 DEF DeleteReport, ShapeInv, TypeOK
    <3> QED
      BY <3>1 DEF Members
  <2>6. ASSUME Engineer, \A r \in Report : ~DeleteReport(r) PROVE Members(s)' = Members(s)
    BY <2>6, EngineerMembers
  <2> QED
    BY <2>1, <2>2, <2>3, <2>4, <2>5, <2>6, StepKinds
<1> QED
  BY <1>1, <1>2, PTL DEF Spec, ResolvedTakesNoReport

-----------------------------------------------------------------------------
(* The ledger.                                                             *)

\* What GroupLedger sees of the tables.
Place == [r \in Report |-> IF reports[r] = None THEN None ELSE reports[r].group]
Count == [s \in Sig |-> IF groups[s] = None THEN 0 ELSE groups[s].count]
Status == [s \in Sig |-> IF groups[s] = None THEN None ELSE groups[s].status]

\* It files the reports of a commit in one step.
LEMMA CommitMaps ==
    ASSUME ShapeInv, StatusInv, TallyExact', GroupsKnown', NEW t \in Session, Commit(t)
    PROVE  \E R \in SUBSET Report : R # {} /\ Ledger!FileReports(R)
<1>0. PICK R \in SUBSET Report : R = {q \in Report : wR[t][q] # None}
  OBVIOUS
<1>1. /\ R # {}
      /\ \A q \in R : /\ wR[t][q].group \in Sig /\ groups'[wR[t][q].group] # None
                      /\ reports'[q] = wR[t][q] /\ wR[t][q] # None
      /\ \A q \in Report \ R : reports'[q] = reports[q]
      /\ \A s \in Sig :
            IF \E q \in R : wR[t][q].group = s
            THEN groups'[s].status = IF groups[s] = None THEN "open"
                                     ELSE IF groups[s].status = "resolved" THEN "regressed"
                                     ELSE groups[s].status
            ELSE /\ groups'[s] = None <=> groups[s] = None
                 /\ groups[s] # None => groups'[s].status = groups[s].status
  BY <1>0, CommitFiles
<1>2. PICK target \in [R -> Sig] : \A q \in R : target[q] = wR[t][q].group
  <2>1. [q \in R |-> wR[t][q].group] \in [R -> Sig]
    BY <1>1
  <2> QED
    BY <2>1
<1>3. Place' = [r \in Report |-> IF r \in R THEN target[r] ELSE Place[r]]
  BY <1>1, <1>2 DEF Place
<1>4. Count' = [s \in Sig |-> Cardinality({r \in Report : Place'[r] = s})]
  <2> SUFFICES ASSUME NEW s \in Sig
               PROVE  (IF groups'[s] = None THEN 0 ELSE groups'[s].count)
                         = Cardinality({r \in Report : Place'[r] = s})
    BY DEF Count
  <2>1. s # None
    BY NoneAssumption
  <2>2. {r \in Report : Place'[r] = s} = Members(s)'
    BY <2>1 DEF Place, Members
  <2>3. groups'[s] = None => Members(s)' = {}
    BY <2>1 DEF GroupsKnown, Members
  <2> QED
    BY <2>2, <2>3, FS_EmptySet DEF TallyExact
<1>5. Status' = [s \in Sig |-> IF \A r \in R : target[r] # s THEN Status[s]
                               ELSE IF Status[s] = None THEN "open"
                               ELSE IF Status[s] = "resolved" THEN "regressed"
                               ELSE Status[s]]
  <2> SUFFICES ASSUME NEW s \in Sig
               PROVE  (IF groups'[s] = None THEN None ELSE groups'[s].status)
                         = IF \A r \in R : target[r] # s THEN Status[s]
                           ELSE IF Status[s] = None THEN "open"
                           ELSE IF Status[s] = "resolved" THEN "regressed"
                           ELSE Status[s]
    BY DEF Status
  <2>1. Status[s] = IF groups[s] = None THEN None ELSE groups[s].status
    BY DEF Status
  <2>2. groups[s] # None => groups[s].status # None
    BY NoneAssumption DEF ShapeInv, TypeOK, GroupRow
  <2>3. (\E q \in R : wR[t][q].group = s) => groups'[s] # None
    BY <1>1
  <2> QED
    BY <1>1, <1>2, <2>1, <2>2, <2>3
<1>6. Ledger!FileReports(R)
  <2>1. Place' = [r \in Report |-> IF reports'[r] = None THEN None ELSE reports'[r].group]
    BY DEF Place
  <2>2. \A s \in Sig : Ledger!Members(s)' = {r \in Report : Place'[r] = s}
    BY DEF Ledger!Members, Place
  <2>3. \A S : Ledger!Cardinality(S) = Cardinality(S)
    BY DEF Cardinality, Ledger!Cardinality
  <2>4. Count' = [s \in Sig |-> Ledger!Cardinality(Ledger!Members(s)')]
    BY <1>4, <2>2, <2>3
  <2> QED
    BY <1>2, <1>3, <1>5, <2>4 DEF Ledger!FileReports, Place, Count, Status
<1> QED
  BY <1>1, <1>2, <1>6

\* A PATCH that nobody overtook sets a status of the ledger.
LEMMA PatchMaps ==
    ASSUME ShapeInv, SerialInv, NEW v \in TriageStatus, SaveTriage(v)
    PROVE  \E s \in Sig : Ledger!SetStatus(s, v)
<1>1. PICK s \in Sig : s = triage.group
  BY PatchSets
<1>2. /\ groups[s] # None /\ groups'[s] # None /\ groups'[s].status = v
      /\ groups'[s].count = groups[s].count
      /\ \A g \in Sig : g # s => groups'[g] = groups[g]
      /\ reports' = reports
  BY <1>1, PatchSets
<1>3. Status[s] # None
  BY <1>2, NoneAssumption DEF Status, ShapeInv, TypeOK, GroupRow
<1>4. Status' = [Status EXCEPT ![s] = v] /\ Count' = Count /\ Place' = Place
  BY <1>2 DEF Status, Count, Place
<1> QED
  BY <1>3, <1>4 DEF Ledger!SetStatus, Status, Count, Place

\* Steps that move no report and keep counts and statuses are nothing to the ledger.
LEMMA LedgerStutters ==
    ASSUME \A r \in Report : /\ reports'[r] = None \/ reports'[r].group = None
                                   <=> reports[r] = None \/ reports[r].group = None
                             /\ reports[r] # None /\ reports'[r] # None
                                   => reports'[r].group = reports[r].group,
           groups' = groups
    PROVE  UNCHANGED Ledger!vars
<1>1. Place' = Place
  BY DEF Place
<1>2. Count' = Count /\ Status' = Status
  BY DEF Count, Status
<1> QED
  BY <1>1, <1>2 DEF Ledger!vars, Place, Count, Status

LEMMA LedgerStep ==
    ASSUME OneAtATime, ~Deletes, ShapeInv, ShapeInv', StoredInv, SerialInv, StatusInv,
           TallyExact', Next
    PROVE  Ledger!Next \/ UNCHANGED Ledger!vars
<1>1. reports' = reports /\ groups' = groups => UNCHANGED Ledger!vars
  BY LedgerStutters
<1>2. ASSUME NEW t \in Session, Within(t) PROVE UNCHANGED Ledger!vars
  BY <1>1, <1>2, WithinSynced
<1>3. ASSUME NEW t \in Session, Starts(t) PROVE UNCHANGED Ledger!vars
  <2>1. ASSUME NEW r \in Report, Ingest(t, r) PROVE UNCHANGED Ledger!vars
    <3>1. /\ r \notin received /\ reports'[r] # None /\ reports'[r].group = None /\ groups' = groups
          /\ \A q \in Report : q # r => reports'[q] = reports[q]
      BY <2>1, IngestEffect
    <3>2. reports[r] = None
      BY <3>1 DEF StoredInv, AcceptedReportsKept
    <3> QED
      BY <3>1, <3>2, LedgerStutters
  <2>2. ASSUME NEW R \in SUBSET Report, Load(t, R) PROVE UNCHANGED Ledger!vars
    BY <1>1, <2>2, LoadEffect
  <2> QED
    BY <1>3, <2>1, <2>2 DEF Starts
<1>4. ASSUME NEW t \in Session, Commit(t) PROVE Ledger!Next
  <2>1. GroupsKnown'
    BY DEF ShapeInv
  <2> QED
    BY <1>4, <2>1, CommitMaps DEF Ledger!Next
<1>5. ASSUME NEW t \in Session, Rollback(t) PROVE UNCHANGED Ledger!vars
  BY <1>1, <1>5, RollbackEffect
<1>6. ASSUME NEW v \in TriageStatus, SaveTriage(v) PROVE Ledger!Next
  BY <1>6, PatchMaps, ConstantsAssumption DEF Ledger!Next
<1>7. ASSUME NEW r \in Report, NEW v \in TriageSeverity, TriageReport(r, v)
      PROVE  UNCHANGED Ledger!vars
  <2>1. /\ groups' = groups /\ reports[r] # None
        /\ reports' = [reports EXCEPT ![r] = [reports[r] EXCEPT !.severity = v]]
    BY <1>7 DEF TriageReport
  <2>2. reports[r] \in ReportRow
    BY <2>1 DEF ShapeInv, TypeOK
  <2>3. /\ reports'[r] = [reports[r] EXCEPT !.severity = v]
        /\ \A q \in Report : q # r => reports'[q] = reports[q]
    BY <2>1 DEF ShapeInv, TypeOK
  <2>4. reports'[r] \in ReportRow /\ reports'[r].group = reports[r].group
    BY <2>2, <2>3, ConstantsAssumption DEF ReportRow
  <2> QED
    BY <2>1, <2>3, <2>4, NoneAssumption, LedgerStutters
<1>8. \A r \in Report : ~DeleteReport(r)
  BY DEF DeleteReport
<1>9. \A s \in Sig : TriageGroup(s) => reports' = reports /\ groups' = groups
  BY DEF TriageGroup
<1>10. \A f \in Firmware : IndexBuild(f) \/ DeleteBuild(f) => reports' = reports /\ groups' = groups
  BY DEF IndexBuild, DeleteBuild
<1>11. Engineer => Ledger!Next \/ UNCHANGED Ledger!vars
  BY <1>1, <1>6, <1>7, <1>8, <1>9, <1>10 DEF Engineer
<1> QED
  BY <1>2, <1>3, <1>4, <1>5, <1>11, StepKinds

\* Grouping implements the ledger, when requests run one at a time and engineers
\* delete no report: every transaction files its reports and counts them in the
\* step that commits it, with the regressions they cause, and every other step but
\* an engineer's PATCH is invisible (symbolication.py symbolicate_report).
THEOREM LedgerKept ==
    ASSUME OneAtATime, ~Deletes
    PROVE  Spec => KeepsLedger
<1> DEFINE J == ShapeInv /\ StoredInv /\ SerialInv
<1>1. Spec => []J /\ []StatusInv /\ []TallyExact
  BY SerialAlways, StatusAlways, CountersExact, PTL
<1>2. Init => Ledger!Init
  BY DEF Init, NoReports, NoGroups, Ledger!Init
<1>3. J /\ J' /\ StatusInv /\ TallyExact' /\ [Next]_vars => [Ledger!Next]_(Ledger!vars)
  <2> SUFFICES ASSUME J, J', StatusInv, TallyExact', [Next]_vars
               PROVE  Ledger!Next \/ UNCHANGED Ledger!vars
    OBVIOUS
  <2>1. CASE Next
    BY <2>1, LedgerStep
  <2>2. CASE UNCHANGED vars
    BY <2>2, LedgerStutters DEF vars
  <2> QED
    BY <2>1, <2>2
<1> QED
  BY <1>1, <1>2, <1>3, PTL DEF Spec, KeepsLedger, Ledger!Spec
=============================================================================
