----------------------------- MODULE Ingestion ------------------------------
(***************************************************************************)
(* Crash reports from the field: a device sends its crash until it is       *)
(* answered; the service authenticates, parses, looks for the report it may  *)
(* already have, stores it, symbolicates it and alerts, each in its own      *)
(* transaction; any process may die or step fail in between.                *)
(***************************************************************************)
EXTENDS Devices, Integers, Sequences

CONSTANTS
    Report,         \* report ids
    Window          \* how near two crashes of one place count as one (60 s)

VARIABLES
    reports,    \* table crash_reports
    policies,   \* table alert_settings, oldest first
    pending,    \* the crash a device has not been answered for
    parser,     \* version of the parser in service
    faults,     \* history: failures, and deletions of a single report, so far (bounded)
    acked,      \* history: the answers of success that still stand
    seen        \* history: crashes each device has had

reporting == <<reports, policies, pending, parser, faults, acked, seen>>
vars == <<may, devices, keys, job, reporting>>

Severity == 0..3
Crash == UNION {s.crashes : s \in Scenario}

Site == UNION {{k.site, k.reparsed} : k \in Crash}
ReportRow == [device : Device, crash : Crash, site : Site, at : Int,
              symbolicated : BOOLEAN, alerts : 0..2, reparsed : BOOLEAN]

\* What a device is told: the report its crash, as of that time, is kept in.
Receipt == [device : Device, crash : Crash, at : Int, report : Report]

PolicyRow == [enabled : BOOLEAN, least : Severity]

JobStep == {"key", "device", "file", "store", "symbolicate", "alert", "answer", "save",
            "insert", "strike", "delete", "cascade", "settings", "rewrite", "discard"}

\* The locals of a request.
Job == [call : {"ingest", "submit", "heartbeat", "configure", "register", "mint", "revoke",
                "remove", "policy", "reparse", "discard"},
        device : Device \cup {None}, key : Key \cup {None},
        loaded : DeviceRow \cup PolicyRow \cup {None}, now : DeviceRow \cup PolicyRow \cup {None},
        crash : Crash \cup {None}, site : Site \cup {None}, at : Int \cup {None},
        report : Report \cup {None},
        told : {None, "no body", "active"},
        step : JobStep]

ASSUME IngestionConstants ==
    /\ None \notin Device /\ None \notin Key /\ None \notin Report /\ None \notin Crash
    /\ None \notin DeviceRow /\ None \notin KeyRow /\ None \notin ReportRow
    /\ None \notin PolicyRow /\ None \notin Job
    /\ Window \in Nat
    /\ \A s \in Scenario : s.faults \in Nat
    /\ \A k \in Crash : k.times \subseteq Int

TypeOK ==
    /\ devices \in [Device -> DeviceRow \cup {None}]
    /\ keys \in [Key -> KeyRow \cup {None}]
    /\ job \in [Connection -> Job \cup {None}]
    /\ reports \in [Report -> ReportRow \cup {None}]
    /\ policies \in Seq(PolicyRow)
    /\ pending \in [Device -> Crash \cup {None}]
    /\ faults \in 0..may.faults /\ parser \in 1..2
    /\ \A r \in Report : reports[r] # None => devices[reports[r].device] # None
    /\ \A k \in Key : keys[k] # None => devices[keys[k].device] # None

\* A policy is not stored until it is saved.
Init ==
    /\ FleetInit
    /\ reports = [r \in Report |-> None]
    /\ policies = <<>>
    /\ pending = [d \in Device |-> None]
    /\ parser = 1
    /\ faults = 0
    /\ acked = {}
    /\ seen = {}

-----------------------------------------------------------------------------
(* The device's side.                                                      *)

\* The firmware crashes, restarts and has something to report.
HardFault(d, k) ==
    /\ k \in may.crashes /\ <<d, k>> \notin seen
    /\ devices[d] # None /\ pending[d] = None
    /\ pending' = [pending EXCEPT ![d] = k]
    /\ seen' = seen \cup {<<d, k>>}
    /\ UNCHANGED <<may, fleet, job, reports, policies, parser, faults, acked>>

\* It sends, and sends again when it has waited long enough, whatever became of the
\* request before.
Send(c, k) ==
    /\ Ready(c, "ingest")
    /\ GoodKey(k) /\ pending[keys[k].device] # None
    /\ Begin(c, [Authenticated(k, "ingest") EXCEPT !.crash = pending[keys[k].device]])
    /\ UNCHANGED <<may, fleet, reporting>>

\* An engineer submits on the device's behalf.
Submit(c, d, k) ==
    /\ Ready(c, "submit")
    /\ devices[d] # None
    /\ k \in may.crashes
    /\ Begin(c, [Blank EXCEPT !.call = "submit", !.device = d, !.crash = k, !.step = "device"])
    /\ UNCHANGED <<may, fleet, reporting>>

\* The answer names the report.
Answer(c, r) ==
    LET j == job[c] IN
    /\ End(c)
    /\ pending' = IF pending[j.device] = j.crash THEN [pending EXCEPT ![j.device] = None]
                  ELSE pending
    /\ acked' = acked \cup {[device |-> j.device, crash |-> j.crash, at |-> j.at, report |-> r]}

-----------------------------------------------------------------------------
(* The service's side.                                                     *)

\* What the parser makes of a crash: where it happened.
SiteOf(k) == IF parser = 1 THEN k.site ELSE k.reparsed

\* A payload that cannot be parsed is audited and refused.
Reject(c) ==
    /\ At(c, "device") /\ ~job[c].crash.valid
    /\ End(c)
    /\ pending' = IF pending[job[c].device] = job[c].crash
                  THEN [pending EXCEPT ![job[c].device] = None] ELSE pending
    /\ UNCHANGED <<may, fleet, reports, policies, parser, faults, acked, seen>>

\* Mutant of TouchLastOnline: the row is neither waited for nor held.
TouchLastOnlineUnheld(c) ==
    /\ At(c, "device") /\ job[c].crash.valid
    /\ \E t \in job[c].crash.times :
          job' = [job EXCEPT ![c].step = "file", ![c].site = SiteOf(job[c].crash), ![c].at = t]
    /\ UNCHANGED <<may, fleet, reporting>>

\* touch_last_online: from here to the commit the row is held.  The crash bears the time
\* in its payload, or else that of its receipt, another with every attempt.
TouchLastOnline(c) ==
    /\ At(c, "device") /\ job[c].crash.valid
    /\ RowFree(c, job[c].device)
    /\ \E t \in job[c].crash.times :
          job' = [job EXCEPT ![c].step = "file", ![c].site = SiteOf(job[c].crash), ![c].at = t]
    /\ UNCHANGED <<may, fleet, reporting>>

Near(t, u) == t <= u + Window /\ u <= t + Window

\* Mutant of Duplicates: the place does not count.
DuplicatesAnywhere(d, site, at) ==
    {r \in Report : /\ reports[r] # None /\ reports[r].device = d
                    /\ Near(reports[r].at, at)}

\* find_recent_duplicate
Duplicates(d, site, at) ==
    {r \in Report : /\ reports[r] # None /\ reports[r].device = d
                    /\ reports[r].site = site /\ Near(reports[r].at, at)}

Found(c) == Duplicates(job[c].device, job[c].site, job[c].at)

\* The commit shows that the device is online.
Online(d) ==
    IF devices[d] = None THEN devices ELSE [devices EXCEPT ![d].fresh = TRUE]

\* Mutant of FileDuplicate: the duplicate goes the way of a new report.
FileDuplicateAgain(c) ==
    /\ At(c, "file") /\ Found(c) # {}
    /\ devices' = Online(job[c].device)
    /\ job' = [job EXCEPT ![c].step = "alert", ![c].report = CHOOSE r \in Found(c) : TRUE]
    /\ UNCHANGED <<may, keys, reporting>>

\* Mutant of FileDuplicate: a duplicate is an error.
FileDuplicateRefused(c) ==
    /\ At(c, "file") /\ Found(c) # {}
    /\ End(c)
    /\ UNCHANGED <<may, fleet, reporting>>

\* The report is there already: a success that stores nothing and alerts nobody.
FileDuplicate(c) ==
    /\ At(c, "file") /\ Found(c) # {}
    /\ devices' = Online(job[c].device)
    /\ \E r \in Found(c) : Answer(c, r)
    /\ UNCHANGED <<may, keys, reports, policies, parser, faults, seen>>

FileNew(c) ==
    /\ At(c, "file") /\ Found(c) = {}
    /\ Step(c, "store")
    /\ UNCHANGED <<may, fleet, reporting>>

Free == {r \in Report : reports[r] = None
                            /\ \A c \in Connection : Running(c) => job[c].report # r}

Filed(c) ==
    /\ devices' = Online(job[c].device)
    /\ \E r \in Free :
        /\ \A q \in Free : r <= q
        /\ reports' = [reports EXCEPT ![r] =
              [device |-> job[c].device, crash |-> job[c].crash, site |-> job[c].site,
               at |-> job[c].at, symbolicated |-> FALSE, alerts |-> 0, reparsed |-> FALSE]]
        /\ job' = [job EXCEPT ![c].step = "symbolicate", ![c].report = r]
    /\ UNCHANGED <<may, keys, policies, pending, parser, faults, acked, seen>>

\* Mutant of Store: no foreign key.
StoreAnyway(c) == At(c, "store") /\ Filed(c)

\* The insert, the audit entry and the commit; the foreign key refuses a report of
\* a device that has been deleted.
Store(c) ==
    /\ At(c, "store")
    /\ \/ devices[job[c].device] # None /\ Filed(c)
       \/ /\ devices[job[c].device] = None
          /\ End(c)
          /\ UNCHANGED <<may, fleet, reporting>>

\* Symbolication commits on its own.  When the report has been deleted it fails, and
\* the handler, whose rollback expired the report, fails with it.
SymbolicateReport(c) ==
    LET r == job[c].report IN
    /\ At(c, "symbolicate")
    /\ IF reports[r] = None THEN End(c) /\ UNCHANGED reports
       ELSE Step(c, "alert") /\ reports' = [reports EXCEPT ![r].symbolicated = TRUE]
    /\ UNCHANGED <<may, fleet, policies, pending, parser, faults, acked, seen>>

\* The stored policy, or the configured one.
Policy == IF policies = <<>> THEN [enabled |-> TRUE, least |-> 3] ELSE policies[1]

AlertForCrash(c) ==
    LET r == job[c].report
        due == Policy.enabled /\ job[c].crash.severity >= Policy.least
    IN  /\ At(c, "alert")
        /\ reports' = IF due /\ reports[r] # None
                      THEN [reports EXCEPT ![r].alerts = @ + 1] ELSE reports
        /\ Step(c, "answer")
        /\ UNCHANGED <<may, fleet, policies, pending, parser, faults, acked, seen>>

\* The report is read once more; it may have been deleted.
Acknowledge(c) ==
    /\ At(c, "answer")
    /\ IF reports[job[c].report] # None THEN Answer(c, job[c].report)
       ELSE End(c) /\ UNCHANGED <<pending, acked>>
    /\ UNCHANGED <<may, fleet, reports, policies, parser, faults, seen>>

\* The process dies, or symbolication or the alert fails and takes the handler that
\* should tolerate it along: what is not committed is gone, nobody is answered.
Fail(c) ==
    /\ Running(c)
    /\ faults < may.faults
    /\ faults' = faults + 1
    /\ End(c)
    /\ UNCHANGED <<may, fleet, reports, policies, pending, parser, acked, seen>>

-----------------------------------------------------------------------------
(* Policy, parser and deletions.                                           *)

\* An administrator's PATCH: of the row it loaded, or of a new one.
UpdateSettings(c, policy) ==
    /\ Ready(c, "policy")
    /\ Begin(c, [Blank EXCEPT !.call = "policy", !.now = policy, !.step = "settings",
                    !.loaded = IF policies = <<>> THEN None ELSE policies[1]])
    /\ UNCHANGED <<may, fleet, reporting>>

SaveSettings(c) ==
    /\ At(c, "settings")
    /\ policies' = IF job[c].loaded = None THEN Append(policies, job[c].now)
                   ELSE [policies EXCEPT ![1] = job[c].now]
    /\ End(c)
    /\ UNCHANGED <<may, fleet, reports, pending, parser, faults, acked, seen>>

\* A new version of the parser goes into service.
Upgrade ==
    /\ "reparse" \in may.calls /\ parser = 1
    /\ parser' = 2
    /\ UNCHANGED <<may, fleet, job, reports, policies, pending, faults, acked, seen>>

\* The worker parses the stored payload again; it writes what changed, no severity.
ReparseCrashReport(c, r) ==
    /\ Ready(c, "reparse")
    /\ reports[r] # None
    /\ Begin(c, [Blank EXCEPT !.call = "reparse", !.report = r, !.step = "rewrite",
                    !.site = SiteOf(reports[r].crash)])
    /\ UNCHANGED <<may, fleet, reporting>>

Rewrite(c) ==
    LET r == job[c].report IN
    /\ At(c, "rewrite")
    /\ reports' = IF reports[r] = None THEN reports
                  ELSE [reports EXCEPT ![r].site = job[c].site, ![r].reparsed = TRUE]
    /\ End(c)
    /\ UNCHANGED <<may, fleet, policies, pending, parser, faults, acked, seen>>

\* An administrator deletes a report; bounded together with the failures.
Discard(c, r) ==
    /\ Ready(c, "discard")
    /\ reports[r] # None
    /\ faults < may.faults /\ faults' = faults + 1
    /\ Begin(c, [Blank EXCEPT !.call = "discard", !.report = r, !.step = "discard"])
    /\ UNCHANGED <<may, fleet, reports, policies, pending, parser, acked, seen>>

\* The row may be gone already: no error.  Nobody was promised it for longer.
DeleteReport(c) ==
    LET r == job[c].report IN
    /\ At(c, "discard")
    /\ reports' = [reports EXCEPT ![r] = None]
    /\ acked' = {a \in acked : a.report # r}
    /\ End(c)
    /\ UNCHANGED <<may, fleet, policies, pending, parser, faults, seen>>

\* The reports of a device go with it.
CascadeToReports(c) ==
    LET d == job[c].device IN
    /\ Cascade(c)
    /\ reports' = [r \in Report |-> IF reports[r] # None /\ reports[r].device = d
                                    THEN None ELSE reports[r]]
    /\ acked' = {a \in acked : a.device # d}
    /\ UNCHANGED <<may, policies, pending, parser, faults, seen>>

-----------------------------------------------------------------------------
(* The specification.                                                      *)

OfFleet(c) ==
    /\ \/ TouchKey(c) \/ Save(c) \/ Insert(c) \/ Strike(c) \/ LockRow(c)
    /\ UNCHANGED <<may, reporting>>

\* One step of the request on a connection.
Serve(c) ==
    \/ OfFleet(c)
    \/ Reject(c) \/ TouchLastOnline(c) \/ FileDuplicate(c) \/ FileNew(c) \/ Store(c)
    \/ SymbolicateReport(c) \/ AlertForCrash(c) \/ Acknowledge(c)
    \/ SaveSettings(c) \/ Rewrite(c) \/ DeleteReport(c) \/ CascadeToReports(c)

\* The requests, by router, and the worker's task.
CrashRouter(c) ==
    \/ \E k \in Key : Send(c, k)
    \/ \E d \in Device, k \in Crash : Submit(c, d, k)

CheckIns(c) ==
    \E told \in {None, "no body", "active"} :
        \/ \E k \in Key : Heartbeat(c, k, told)
        \/ \E d \in Device : HeartbeatById(c, d, told)

DeviceRouter(c) ==
    \E d \in Device : \/ \E s \in Status : Configure(c, d, s)
                      \/ \E s \in {"active", "maintenance"} : Register(c, d, s)
                      \/ Remove(c, d)

KeyRouter(c) == \/ \E d \in Device : Mint(c, d)
                \/ \E k \in Key : Revoke(c, k)

Calls(c) ==
    \/ CrashRouter(c)
    \/ (CheckIns(c) \/ DeviceRouter(c) \/ KeyRouter(c)) /\ UNCHANGED <<may, reporting>>
    \/ \E p \in [enabled : BOOLEAN, least : {1}] : UpdateSettings(c, p)
    \/ \E r \in Report : ReparseCrashReport(c, r) \/ Discard(c, r)

Environment ==
    \/ \E d \in Device, k \in Crash : HardFault(d, k)
    \/ Upgrade
    \/ /\ \/ MarkStaleDevicesInactive
          \/ \E d \in Device : Silence(d)
          \/ \E k \in Key : Expire(k)
       /\ UNCHANGED <<may, reporting>>

Break(c) == Victim(c) /\ UNCHANGED <<may, reporting>>

Next ==
    \/ Environment
    \/ \E c \in Connection : Calls(c) \/ Serve(c) \/ Break(c) \/ Fail(c)

\* A request goes on when its locks are granted, and the database grants them in
\* turn; a device keeps sending.
Sends(d) == \E c \in Connection, k \in Key : keys[k] # None /\ keys[k].device = d /\ Send(c, k)

Spec ==
    /\ Init /\ [][Next]_vars
    /\ \A c \in Connection : /\ SF_vars(Serve(c)) /\ SF_vars(TouchLastOnline(c))
                              /\ WF_vars(Break(c))
    /\ \A d \in Device : SF_vars(Sends(d))

-----------------------------------------------------------------------------
(* Properties.                                                             *)

\* Within the window, however often a device sends a crash, and with whatever else it
\* sends at the same time, the table has one report of it: two of one place and time are
\* never both stored, unless a later parser changed its mind about one.
OneReportPerCrash ==
    \A r, s \in Report :
        /\ r # s /\ reports[r] # None /\ reports[s] # None
        /\ reports[r].device = reports[s].device /\ reports[r].site = reports[s].site
        /\ ~reports[r].reparsed /\ ~reports[s].reparsed
        => ~Near(reports[r].at, reports[s].at)

\* A device that was told its crash has been received may forget it: the report the
\* answer names is stored, and of this device and crash or of another of the same place
\* and time, until somebody deletes it or the device.
AckMeansStored ==
    \A a \in acked :
        LET row == reports[a.report]
        IN  /\ row # None /\ row.device = a.device /\ Near(row.at, a.at)
            /\ {row.crash.site, row.crash.reparsed} \cap {a.crash.site, a.crash.reparsed} # {}

\* Retries page nobody twice.
OneAlertPerReport == \A r \in Report : reports[r] # None => reports[r].alerts <= 1

\* A device that an operator has put in maintenance or decommissioned stays so until
\* an operator changes it or a check-in carries another status.  A check-in that carries
\* none, however long ago it loaded the row, has one way to overrule him: it loaded the
\* device as inactive and brings it back.
KeepsDecision ==
    \A d \in Device :
        /\ devices[d] # None /\ devices[d].status \in {"maintenance", "decommissioned"}
        /\ devices'[d] # None /\ devices'[d].status # devices[d].status
        => \E c \in Connection :
              /\ At(c, "save") /\ job'[c] = None /\ job[c].device = d
              /\ \/ job[c].call = "configure"
                 \/ job[c].told = devices'[d].status
                 \/ job[c].loaded.status = "inactive" /\ devices'[d].status = "active"

\* No step of a check-in or of the sweep overrules an operator's decision.
OperatorDecisionHolds == [][KeepsDecision]_vars

\* A device that keeps sending its crash is answered, or loses its key or its row.
Reachable(d) == \E k \in Key : keys[k] # None /\ keys[k].device = d /\ GoodKey(k)
EventuallyAnswered ==
    \A d \in Device : pending[d] # None ~> (pending[d] = None \/ ~Reachable(d))
=============================================================================
