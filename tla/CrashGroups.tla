---------------------------- MODULE CrashGroups ----------------------------
(***************************************************************************)
(* Crash reports and the groups they are filed in.                         *)
(*                                                                         *)
(* A session is one request, or one Celery task, with its own database     *)
(* session and its own transaction.  Sessions run side by side: the API is *)
(* asynchronous and the worker is another process.  The database is        *)
(* PostgreSQL at READ COMMITTED:                                           *)
(*   - a SELECT sees committed rows and the session's own writes;          *)
(*   - an UPDATE, or the INSERT of a unique key, waits for the session     *)
(*     that holds the row, and then works on the newest committed row.     *)
(* The ORM on top of it matters as much:                                   *)
(*   - an object once loaded stays in the session as it was loaded;        *)
(*   - a flush writes only the columns whose value in memory changed, and  *)
(*     writes the value computed in memory.                                *)
(* Each phase below is the code between two points where another session   *)
(* can be seen, or can see this one.                                       *)
(***************************************************************************)
EXTENDS Integers, FiniteSets

CONSTANTS
    Report,            \* crash reports that devices may send
    Session,           \* requests and tasks that can be in flight together
    Sig,               \* crash signatures; a group is named by its signature
    Firmware, Device,
    FirmwareOf,        \* Report -> Firmware
    DeviceOf,          \* Report -> Device
    OccurredAt,        \* Report -> Nat
    ParsedSeverity,    \* Report -> Severity
    RawSignature,      \* Report -> Sig, when no build resolves its frames
    SymbolSignature,   \* Report -> Sig, when a build does
    Does,              \* Session -> the requests it may carry
    TriageStatus,      \* statuses engineers set on groups
    TriageSeverity,    \* severities engineers set on reports
    Deletes,           \* whether engineers delete reports
    Unbuilt,           \* firmware versions whose builds engineers delete again
    OneAtATime,        \* whether a request starts only when none is running
    None

Severity == 0..3       \* low, medium, high, critical

RequestKind == {"ingest", "symbolicate", "resymbolicate"}

GroupStatus == {"open", "investigating", "resolved", "ignored", "regressed"}

ReportRow == [sig : Sig \cup {None}, group : Sig \cup {None}, severity : Severity]

GroupRow == [status : GroupStatus, regressed : BOOLEAN,
             count : Int, devices : Int, severity : Severity,
             first : Nat, last : Nat, versions : SUBSET Firmware]

Triage == [group : Sig, status : GroupStatus, regressed : BOOLEAN]

ASSUME ConstantsAssumption ==
    /\ IsFiniteSet(Report)
    /\ FirmwareOf \in [Report -> Firmware]
    /\ DeviceOf \in [Report -> Device]
    /\ OccurredAt \in [Report -> Nat]
    /\ ParsedSeverity \in [Report -> Severity]
    /\ RawSignature \in [Report -> Sig]
    /\ SymbolSignature \in [Report -> Sig]
    /\ Does \in [Session -> SUBSET RequestKind]
    /\ TriageStatus \subseteq GroupStatus
    /\ TriageSeverity \subseteq Severity
    /\ Deletes \in BOOLEAN
    /\ Unbuilt \subseteq Firmware
    /\ OneAtATime \in BOOLEAN

ASSUME NoneAssumption ==
    /\ None \notin Report
    /\ None \notin Sig
    /\ None \notin GroupStatus
    /\ None \notin ReportRow
    /\ None \notin GroupRow
    /\ None \notin [was : GroupRow, now : GroupRow]
    /\ None \notin Triage

VARIABLES
    reports,    \* table crash_reports: the committed row of a report, or None
    groups,     \* table crash_groups: the committed row of a signature, or None
    indexed,    \* firmware versions for which find_for_crash finds a build
    received,   \* history: reports whose ingestion was committed
    deleted,    \* history: reports that engineers deleted
    phase,      \* what each session does next
    job,        \* the session's local variables
    objR,       \* report objects in the session's identity map
    objG,       \* group objects there: as last flushed, and as they are now
    wR, wG,     \* rows the session wrote and has not committed; it locks them
    triage      \* the PATCH of a group that is in flight, or None

sessionVars == <<phase, job, objR, objG, wR, wG>>
vars == <<reports, groups, indexed, received, deleted, sessionVars, triage>>

Phase == {"idle", "resolve", "lookup", "insert", "touch", "move", "flushPrevious",
          "bump", "file", "tally", "commit"}

Job == [todo : SUBSET Report, cur : Report \cup {None}, target : Sig \cup {None},
        prev : Sig \cup {None}, held : SUBSET Sig]

NoJob == [todo |-> {}, cur |-> None, target |-> None, prev |-> None, held |-> {}]

TypeOK ==
    /\ reports \in [Report -> ReportRow \cup {None}]
    /\ groups \in [Sig -> GroupRow \cup {None}]
    /\ indexed \in SUBSET Firmware
    /\ received \in SUBSET Report
    /\ deleted \in SUBSET Report
    /\ phase \in [Session -> Phase]
    /\ job \in [Session -> Job]
    /\ objR \in [Session -> [Report -> ReportRow \cup {None}]]
    /\ objG \in [Session -> [Sig -> [was : GroupRow, now : GroupRow] \cup {None}]]
    /\ wR \in [Session -> [Report -> ReportRow \cup {None}]]
    /\ wG \in [Session -> [Sig -> GroupRow \cup {None}]]
    /\ triage \in Triage \cup {None}

NoReports == [r \in Report |-> None]
NoGroups == [s \in Sig |-> None]

Init ==
    /\ reports = NoReports
    /\ groups = NoGroups
    /\ indexed = {}
    /\ received = {}
    /\ deleted = {}
    /\ phase = [t \in Session |-> "idle"]
    /\ job = [t \in Session |-> NoJob]
    /\ objR = [t \in Session |-> NoReports]
    /\ objG = [t \in Session |-> NoGroups]
    /\ wR = [t \in Session |-> NoReports]
    /\ wG = [t \in Session |-> NoGroups]
    /\ triage = None

-----------------------------------------------------------------------------
(* The database and the ORM.                                               *)

\* The row a SELECT of session t returns.
ViewR(t, r) == IF wR[t][r] # None THEN wR[t][r] ELSE reports[r]
ViewG(t, s) == IF wG[t][s] # None THEN wG[t][s] ELSE groups[s]

\* The reports a SELECT of session t finds in group s, leaving report r aside.
OtherMembers(t, r, s) ==
    {q \in Report \ {r} : ViewR(t, q) # None /\ ViewR(t, q).group = s}

DevicesOf(R) == {DeviceOf[r] : r \in R}

\* The sessions that hold a row session t wants to write.
HoldersR(t, r) == {u \in Session \ {t} : wR[u][r] # None}
HoldersG(t, s) == {u \in Session \ {t} : wG[u][s] # None}

\* A column after a flush: the value in memory if it changed there.  A session
\* changes a status only together with a new regressed_at.
Col(new, old, stored) == IF new # old THEN new ELSE stored

Loaded(row) == [was |-> row, now |-> row]
Dirty(obj) == obj.was # obj.now

FlushedGroup(obj, row) ==
    [status    |-> Col(obj.now.status, obj.was.status, row.status),
     regressed |-> obj.now.status # obj.was.status \/ row.regressed,
     count     |-> Col(obj.now.count, obj.was.count, row.count),
     devices   |-> Col(obj.now.devices, obj.was.devices, row.devices),
     severity  |-> Col(obj.now.severity, obj.was.severity, row.severity),
     first     |-> Col(obj.now.first, obj.was.first, row.first),
     last      |-> Col(obj.now.last, obj.was.last, row.last),
     versions  |-> Col(obj.now.versions, obj.was.versions, row.versions)]

\* flush() of group object obj: an UPDATE only if a column changed.
FlushGroup(t, s, obj) ==
    IF Dirty(obj)
    THEN /\ HoldersG(t, s) = {}
         /\ wG' = [wG EXCEPT ![t][s] = FlushedGroup(obj, ViewG(t, s))]
         /\ objG' = [objG EXCEPT ![t][s] = Loaded(obj.now)]
    ELSE /\ objG' = [objG EXCEPT ![t][s] = obj]
         /\ UNCHANGED wG

\* Mutant of FlushedReport: the signature is never written.
FlushedGroupOnly(row, obj, s, g) == [row EXCEPT !.group = Col(g, obj.group, @)]

FlushedReport(row, obj, s, g) ==
    [row EXCEPT !.sig = Col(s, obj.sig, @), !.group = Col(g, obj.group, @)]

\* flush() of a report object that now has signature s and group g.  The UPDATE
\* is always emitted, because symbolicated_at changed.
FlushReport(t, r, s, g) ==
    /\ HoldersR(t, r) = {}
    /\ ViewR(t, r) # None
    /\ wR' = [wR EXCEPT ![t][r] = FlushedReport(ViewR(t, r), objR[t][r], s, g)]
    /\ objR' = [objR EXCEPT ![t][r] = [objR[t][r] EXCEPT !.sig = s, !.group = g]]

\* Mutant of EndTransaction: the connection goes back with its transaction open.
LeaveTransaction(t) == UNCHANGED <<wR, wG>>

EndTransaction(t) ==
    /\ wR' = [wR EXCEPT ![t] = NoReports]
    /\ wG' = [wG EXCEPT ![t] = NoGroups]

\* The session ends: its memory and its uncommitted rows are gone.
Close(t) ==
    /\ phase' = [phase EXCEPT ![t] = "idle"]
    /\ job' = [job EXCEPT ![t] = NoJob]
    /\ objR' = [objR EXCEPT ![t] = NoReports]
    /\ objG' = [objG EXCEPT ![t] = NoGroups]
    /\ EndTransaction(t)

Rollback(t) ==
    /\ Close(t)
    /\ UNCHANGED <<reports, groups, indexed, received, deleted, triage>>

MayBegin == OneAtATime => triage = None /\ \A t \in Session : phase[t] = "idle"

-----------------------------------------------------------------------------
(* A session starts.                                                       *)

NewReport(r) == [sig |-> None, group |-> None, severity |-> ParsedSeverity[r]]

\* Mutant of Ingest: the report is left to the transaction that symbolizes it.
IngestUncommitted(t, r) ==
    /\ phase[t] = "idle"
    /\ MayBegin
    /\ r \notin received
    /\ wR' = [wR EXCEPT ![t][r] = NewReport(r)]
    /\ received' = received \cup {r}
    /\ objR' = [objR EXCEPT ![t][r] = NewReport(r)]
    /\ job' = [job EXCEPT ![t].todo = {r}]
    /\ phase' = [phase EXCEPT ![t] = "resolve"]
    /\ UNCHANGED <<reports, groups, indexed, deleted, objG, wG, triage>>

\* CrashService.ingest: the report is stored and committed, and the same session
\* goes on to symbolize it with the object it has in memory.
Ingest(t, r) ==
    /\ phase[t] = "idle"
    /\ MayBegin
    /\ r \notin received
    /\ reports' = [reports EXCEPT ![r] = NewReport(r)]
    /\ received' = received \cup {r}
    /\ objR' = [objR EXCEPT ![t][r] = NewReport(r)]
    /\ job' = [job EXCEPT ![t].todo = {r}]
    /\ phase' = [phase EXCEPT ![t] = "resolve"]
    /\ UNCHANGED <<groups, indexed, deleted, objG, wR, wG, triage>>

\* Reports are loaded with the groups they are in.
Load(t, R) ==
    LET held == {reports[r].group : r \in R} \ {None}
    IN  /\ phase[t] = "idle"
        /\ MayBegin
        /\ R # {}
        /\ objR' = [objR EXCEPT ![t] = [r \in Report |-> IF r \in R THEN reports[r] ELSE None]]
        /\ objG' = [objG EXCEPT ![t] =
                       [s \in Sig |-> IF s \in held THEN Loaded(groups[s]) ELSE None]]
        /\ job' = [job EXCEPT ![t].todo = R, ![t].held = held]
        /\ phase' = [phase EXCEPT ![t] = "resolve"]
        /\ UNCHANGED <<reports, groups, indexed, received, deleted, wR, wG, triage>>

\* SymbolicationService.symbolicate: one stored report, again.
Symbolicate(t, r) == reports[r] # None /\ Load(t, {r})

\* resymbolicate_for_build: every stored report of a firmware version.
Resymbolicate(t, f) == Load(t, {r \in Report : reports[r] # None /\ FirmwareOf[r] = f})

-----------------------------------------------------------------------------
(* symbolicate_report and _assign_group, for each report in turn.          *)

SignatureOf(r) == IF FirmwareOf[r] \in indexed THEN SymbolSignature[r] ELSE RawSignature[r]

\* The newest report comes first.  Of the groups in memory only those loaded with
\* a report, and the group of the report just finished, are still referenced.
Resolve(t) ==
    /\ phase[t] = "resolve"
    /\ objG' = [objG EXCEPT ![t] =
                   [s \in Sig |-> IF s \in job[t].held \cup {job[t].target}
                                  THEN objG[t][s] ELSE None]]
    /\ \E r \in job[t].todo :
          /\ \A q \in job[t].todo : OccurredAt[q] <= OccurredAt[r]
          /\ job' = [job EXCEPT ![t].todo = @ \ {r}, ![t].cur = r,
                                ![t].target = SignatureOf(r),
                                ![t].prev = objR[t][r].group]
    /\ phase' = [phase EXCEPT ![t] = "lookup"]
    /\ UNCHANGED <<reports, groups, indexed, received, deleted, objR, wR, wG, triage>>

\* Where a report goes once its group exists.
Leaves(t) == job[t].prev \notin {None, job[t].target}
AfterGroup(t) == IF Leaves(t) THEN "move" ELSE "bump"

\* get_by_signature: a group already in the identity map keeps its loaded values.
Lookup(t) ==
    LET s == job[t].target
    IN  /\ phase[t] = "lookup"
        /\ IF ViewG(t, s) = None
           THEN /\ phase' = [phase EXCEPT ![t] = "insert"]
                /\ UNCHANGED objG
           ELSE /\ phase' = [phase EXCEPT ![t] = AfterGroup(t)]
                /\ objG' = IF objG[t][s] = None
                           THEN [objG EXCEPT ![t][s] = Loaded(ViewG(t, s))]
                           ELSE objG
        /\ UNCHANGED <<reports, groups, indexed, received, deleted, job, objR, wR, wG, triage>>

NewGroup(t, r) ==
    [status |-> "open", regressed |-> FALSE, count |-> 0, devices |-> 0,
     severity |-> objR[t][r].severity,
     first |-> OccurredAt[r], last |-> OccurredAt[r], versions |-> {}]

\* The INSERT of a group nobody has committed; it waits while another session's
\* INSERT of the same signature is undecided.
Insert(t) ==
    LET s == job[t].target
    IN  /\ phase[t] = "insert"
        /\ HoldersG(t, s) = {}
        /\ groups[s] = None
        /\ wG' = [wG EXCEPT ![t][s] = NewGroup(t, job[t].cur)]
        /\ objG' = [objG EXCEPT ![t][s] = Loaded(NewGroup(t, job[t].cur))]
        /\ phase' = [phase EXCEPT ![t] = "touch"]
        /\ UNCHANGED <<reports, groups, indexed, received, deleted, job, objR, wR, triage>>

\* The other session committed the signature first: unique violation.
InsertConflict(t) ==
    /\ phase[t] = "insert"
    /\ groups[job[t].target] # None
    /\ Rollback(t)

\* The flush that inserts the group also writes the report's new signature.
Touch(t) ==
    LET r == job[t].cur
    IN  /\ phase[t] = "touch"
        /\ FlushReport(t, r, job[t].target, objR[t][r].group)
        /\ phase' = [phase EXCEPT ![t] = AfterGroup(t)]
        /\ UNCHANGED <<reports, groups, indexed, received, deleted, job, objG, wG, triage>>

\* The earliest and the latest time the members R occurred at; an empty group
\* keeps what is stored.  (Sets of one element.)
\* Mutant of FirstSeen: the empty aggregate is written as it comes, NULL.
FirstSeenOrNull(R, stored) ==
    IF R = {} THEN {None} ELSE {x \in {OccurredAt[r] : r \in R} : \A r \in R : x <= OccurredAt[r]}

FirstSeen(R, stored) ==
    IF R = {} THEN {stored}
    ELSE {x \in {OccurredAt[r] : r \in R} : \A r \in R : x <= OccurredAt[r]}

LastSeen(R, stored) ==
    IF R = {} THEN {stored}
    ELSE {x \in {OccurredAt[r] : r \in R} : \A r \in R : x >= OccurredAt[r]}

\* Mutant of Recounted: the group a report leaves keeps its counters.
RecountedNever(row, R, lo, hi) == row

\* recompute_counters: the row with what the queries return for the members R.
Recounted(row, R, lo, hi) ==
    [row EXCEPT !.count = Cardinality(R), !.devices = Cardinality(DevicesOf(R)),
                !.first = lo, !.last = hi, !.versions = {FirmwareOf[r] : r \in R}]

\* The report changes group: its row is written first, then the group it left is
\* loaded, unless it is loaded already, and counted from the table.
Move(t) ==
    LET r == job[t].cur
        p == job[t].prev
        previous == IF objG[t][p] = None THEN Loaded(ViewG(t, p)) ELSE objG[t][p]
        left == OtherMembers(t, r, p)
    IN  /\ phase[t] = "move"
        /\ FlushReport(t, r, job[t].target, job[t].target)
        /\ \E lo \in FirstSeen(left, previous.now.first),
              hi \in LastSeen(left, previous.now.last) :
              objG' = [objG EXCEPT ![t][p] =
                          [previous EXCEPT !.now = Recounted(previous.now, left, lo, hi)]]
        /\ phase' = [phase EXCEPT ![t] = "flushPrevious"]
        /\ UNCHANGED <<reports, groups, indexed, received, deleted, job, wG, triage>>

FlushPrevious(t) ==
    /\ phase[t] = "flushPrevious"
    /\ FlushGroup(t, job[t].prev, objG[t][job[t].prev])
    /\ phase' = [phase EXCEPT ![t] = "bump"]
    /\ UNCHANGED <<reports, groups, indexed, received, deleted, job, objR, wR, triage>>

\* Mutant of AlreadyCounted: a report filed in its own group is counted again.
AlreadyCountedNever(t) == FALSE

AlreadyCounted(t) == job[t].prev = job[t].target

\* Mutant of WidenWindow: the window is not widened to the past.
WidenForward(row, at) == [row EXCEPT !.last = IF at > @ THEN at ELSE @]

WidenWindow(row, at) ==
    [row EXCEPT !.first = IF at < @ THEN at ELSE @, !.last = IF at > @ THEN at ELSE @]

\* Mutant of EscalateSeverity: the severity of the report filed last.
SeverityOverwritten(row, severity) == [row EXCEPT !.severity = severity]

EscalateSeverity(row, severity) ==
    [row EXCEPT !.severity = IF severity > @ THEN severity ELSE @]

RecordFirmwareVersion(row, f) == [row EXCEPT !.versions = @ \cup {f}]

Regressed(row) == [row EXCEPT !.status = "regressed", !.regressed = TRUE]

\* Mutant of MaybeRegress: only a report that had no group yet regresses one.
RegressFirstOnly(t, row) ==
    IF row.status = "resolved" /\ job[t].prev = None THEN Regressed(row) ELSE row

MaybeRegress(t, row) == IF row.status = "resolved" THEN Regressed(row) ELSE row

\* What _assign_group makes of the group object the report is filed in.
Bumped(t, row) ==
    LET r == job[t].cur
        counted == [row EXCEPT !.count = IF AlreadyCounted(t) THEN @ ELSE @ + 1]
        widened == WidenWindow(counted, OccurredAt[r])
        escalated == EscalateSeverity(widened, objR[t][r].severity)
        recorded == RecordFirmwareVersion(escalated, FirmwareOf[r])
    IN  MaybeRegress(t, recorded)

BumpedObject(t) ==
    [objG[t][job[t].target] EXCEPT !.now = Bumped(t, objG[t][job[t].target].now)]

Bump(t) ==
    /\ phase[t] = "bump"
    /\ FlushGroup(t, job[t].target, BumpedObject(t))
    /\ phase' = [phase EXCEPT ![t] = "file"]
    /\ UNCHANGED <<reports, groups, indexed, received, deleted, job, objR, wR, triage>>

\* The same flush files the report; then the distinct devices are counted.
File(t) ==
    LET r == job[t].cur
        s == job[t].target
        members == OtherMembers(t, r, s) \cup {r}
    IN  /\ phase[t] = "file"
        /\ FlushReport(t, r, s, s)
        /\ objG' = [objG EXCEPT ![t][s].now.devices = Cardinality(DevicesOf(members))]
        /\ phase' = [phase EXCEPT ![t] = "tally"]
        /\ UNCHANGED <<reports, groups, indexed, received, deleted, job, wG, triage>>

\* The device count is written, and the session goes to the next report.
Tally(t) ==
    /\ phase[t] = "tally"
    /\ FlushGroup(t, job[t].target, objG[t][job[t].target])
    /\ phase' = [phase EXCEPT ![t] = IF job[t].todo = {} THEN "commit" ELSE "resolve"]
    /\ UNCHANGED <<reports, groups, indexed, received, deleted, job, objR, wR, triage>>

Commit(t) ==
    /\ phase[t] = "commit"
    /\ reports' = [r \in Report |-> ViewR(t, r)]
    /\ groups' = [s \in Sig |-> ViewG(t, s)]
    /\ Close(t)
    /\ UNCHANGED <<indexed, received, deleted, triage>>

\* An UPDATE of a report another session deleted matches no row, and raises.
StaleReport(t) ==
    /\ phase[t] \in {"touch", "move", "file"}
    /\ ViewR(t, job[t].cur) = None
    /\ Rollback(t)

\* The process dies, the connection drops or a statement fails.
Abort(t) ==
    /\ phase[t] # "idle"
    /\ Rollback(t)

\* The sessions that hold what session t needs for its next flush.
WaitsFor(t) ==
    LET s == job[t].target
        p == job[t].prev
    IN  CASE phase[t] = "insert" /\ groups[s] = None -> HoldersG(t, s)
          [] phase[t] \in {"touch", "move", "file"} -> HoldersR(t, job[t].cur)
          [] phase[t] = "flushPrevious" /\ Dirty(objG[t][p]) -> HoldersG(t, p)
          [] phase[t] = "bump" /\ Dirty(BumpedObject(t)) -> HoldersG(t, s)
          [] phase[t] = "tally" /\ Dirty(objG[t][s]) -> HoldersG(t, s)
          [] OTHER -> {}

\* PostgreSQL breaks a circle of waiting sessions by failing one of them.
DeadlockVictim(t) ==
    /\ \E circle \in SUBSET Session :
          /\ t \in circle
          /\ \A u \in circle : WaitsFor(u) \cap circle # {}
    /\ Rollback(t)

-----------------------------------------------------------------------------
(* Engineers, and the builds they upload and delete.                       *)

\* CrashService.delete: the row goes, the counters of its group stay.
DeleteReport(r) ==
    /\ Deletes
    /\ MayBegin
    /\ reports[r] # None
    /\ \A u \in Session : wR[u][r] = None
    /\ reports' = [reports EXCEPT ![r] = None]
    /\ deleted' = deleted \cup {r}
    /\ UNCHANGED <<groups, indexed, received, sessionVars, triage>>

\* CrashService.update: severity is the triage field that grouping reads.
TriageReport(r, severity) ==
    /\ MayBegin
    /\ reports[r] # None
    /\ \A u \in Session : wR[u][r] = None
    /\ reports' = [reports EXCEPT ![r] = [reports[r] EXCEPT !.severity = severity]]
    /\ UNCHANGED <<groups, indexed, received, deleted, sessionVars, triage>>

\* update_group loads the group ...
TriageGroup(s) ==
    /\ MayBegin
    /\ triage = None
    /\ groups[s] # None
    /\ triage' = [group |-> s, status |-> groups[s].status, regressed |-> groups[s].regressed]
    /\ UNCHANGED <<reports, groups, indexed, received, deleted, sessionVars>>

\* regressed_at once an engineer has set the status.
\* Mutant of StampAfter: regressed_at is never cleared.
StampKept(status, stamp) == stamp

StampAfter(status, stamp) == stamp /\ status = "regressed"

\* ... and saves the columns that changed against what it loaded.
SaveTriage(status) ==
    /\ triage # None
    /\ LET s == triage.group
           stamp == StampAfter(status, triage.regressed)
       IN  /\ \A u \in Session : wG[u][s] = None
           /\ groups' = [groups EXCEPT ![s] =
                 [groups[s] EXCEPT
                     !.status = Col(status, triage.status, groups[s].status),
                     !.regressed = Col(stamp, triage.regressed, groups[s].regressed)]]
    /\ triage' = None
    /\ UNCHANGED <<reports, indexed, received, deleted, sessionVars>>

IndexBuild(f) ==
    /\ MayBegin
    /\ f \notin indexed
    /\ indexed' = indexed \cup {f}
    /\ UNCHANGED <<reports, groups, received, deleted, sessionVars, triage>>

DeleteBuild(f) ==
    /\ MayBegin
    /\ f \in indexed \cap Unbuilt
    /\ indexed' = indexed \ {f}
    /\ UNCHANGED <<reports, groups, received, deleted, sessionVars, triage>>

-----------------------------------------------------------------------------
Begin(t) ==
    \/ "ingest" \in Does[t] /\ \E r \in Report : Ingest(t, r)
    \/ "symbolicate" \in Does[t] /\ \E r \in Report : Symbolicate(t, r)
    \/ "resymbolicate" \in Does[t] /\ \E f \in Firmware : Resymbolicate(t, f)

\* What a started session does by itself, to its end.
Advance(t) ==
    \/ Resolve(t)
    \/ Lookup(t)
    \/ Insert(t)
    \/ InsertConflict(t)
    \/ Touch(t)
    \/ Move(t)
    \/ FlushPrevious(t)
    \/ Bump(t)
    \/ File(t)
    \/ Tally(t)
    \/ Commit(t)
    \/ StaleReport(t)
    \/ DeadlockVictim(t)

Engineer ==
    \/ \E r \in Report : DeleteReport(r)
    \/ \E r \in Report, v \in TriageSeverity : TriageReport(r, v)
    \/ \E s \in Sig : TriageStatus # {} /\ TriageGroup(s)
    \/ \E v \in TriageStatus : SaveTriage(v)
    \/ \E f \in Firmware : IndexBuild(f)
    \/ \E f \in Firmware : DeleteBuild(f)

Next ==
    \/ \E t \in Session : Begin(t)
    \/ \E t \in Session : Advance(t)
    \/ \E t \in Session : Abort(t)
    \/ Engineer

Spec == Init /\ [][Next]_vars

-----------------------------------------------------------------------------
(* What grouping promises.                                                 *)

Members(s) == {r \in Report : reports[r] # None /\ reports[r].group = s}

\* The signature a stored report carries and the group it is filed in always
\* agree, and the group exists.  symbolicate_report writes the two columns in
\* different flushes, from objects other sessions may have outdated.
SignatureMatchesGroup ==
    \A r \in Report : reports[r] # None =>
        /\ reports[r].sig = reports[r].group
        /\ reports[r].group # None => groups[reports[r].group] # None

\* A report whose ingestion was committed stays stored, whatever becomes of its
\* symbolication, until an engineer deletes it; then no session that still holds
\* it in memory brings it back.
AcceptedReportsKept ==
    \A r \in Report : reports[r] # None <=> r \in received \ deleted

\* The denormalised counters of a group are those of its reports: "maintained
\* transactionally on ingest" (CrashGroup) and repaired when reports move.
TallyExact ==
    \A s \in Sig : groups[s] # None =>
        /\ groups[s].count = Cardinality(Members(s))
        /\ groups[s].devices = Cardinality(DevicesOf(Members(s)))

WindowCovered ==
    \A s \in Sig : \A r \in Members(s) :
        /\ groups[s].first <= OccurredAt[r]
        /\ OccurredAt[r] <= groups[s].last
        /\ FirmwareOf[r] \in groups[s].versions

WorstSeverityKept ==
    \A s \in Sig :
        /\ groups[s] # None => groups[s].severity <= groups'[s].severity
        /\ \A r \in Members(s)' \ Members(s) : reports'[r].severity <= groups'[s].severity

\* A group's time window and firmware versions cover every report in it, through moves in
\* and out and recounts that forget what no report shows any more.  Its severity is that
\* of the worst report as far as grouping sees them: a step that files a report leaves the
\* group no less severe than the report is then, and no step makes a group less severe,
\* neither a move away, nor a recount, nor a report of low severity.  (An engineer may
\* raise the severity of a filed report; its group does not hear of that.)
EvidenceCovered == []WindowCovered /\ [][WorstSeverityKept]_vars

\* regressed_at stands on a group only while the group is regressed.
RegressionStamped ==
    \A s \in Sig : groups[s] # None /\ groups[s].regressed => groups[s].status = "regressed"

\* A step that files one more report in a resolved group does not leave it so.
RegressesWhenHit ==
    \A s \in Sig :
        groups[s] # None /\ groups[s].status = "resolved" /\ groups'[s].status = "resolved"
            => Members(s)' \subseteq Members(s)

\* No step files one more report in a group that is resolved and leaves it so.
ResolvedTakesNoReport == [][RegressesWhenHit]_vars

\* "A group marked resolved that receives a new matching crash flips to
\* regressed": a step that flips a group brings a report the group did not have.
RegressionNeedsNewReport ==
    [][\A s \in Sig :
          groups[s] # None /\ groups[s].status = "resolved" /\ groups'[s].status = "regressed"
              => ~ Members(s)' \subseteq Members(s)]_vars

\* Requests that run one at a time keep the ledger of GroupLedger.
Ledger == INSTANCE GroupLedger WITH
    place  <- [r \in Report |-> IF reports[r] = None THEN None ELSE reports[r].group],
    tally  <- [s \in Sig |-> IF groups[s] = None THEN 0 ELSE groups[s].count],
    status <- [s \in Sig |-> IF groups[s] = None THEN None ELSE groups[s].status]

KeepsLedger == Ledger!Spec

\* Sessions that wait for each other's rows, in orders nobody agreed on, never
\* come to a standstill: while a session is open, one can take its next step.
NoStandstill ==
    (\E t \in Session : phase[t] # "idle") => \E t \in Session : ENABLED Advance(t)
=============================================================================
