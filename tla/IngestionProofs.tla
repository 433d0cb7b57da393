--------------------------- MODULE IngestionProofs ---------------------------
(***************************************************************************)
(* Theorems about Ingestion, for any number of connections, devices, keys  *)
(* and reports, any scenario and any window: every safety property its run *)
(* checks, and its action property.                                        *)
(*                                                                         *)
(* The argument goes in layers.  ShapeInv types the state, says what a     *)
(* request has in memory at each step, and that no report or key outlives  *)
(* its device.  AlertInv counts the alerts a request may still raise with  *)
(* those raised.  RowLockInv: one request at a time is between the lock of *)
(* a device's row and its commit.  OwnInv: a report that a request names   *)
(* is of the request's device.  DuplicateInv rests on the three: a crash   *)
(* about to be stored is near no report of its device and place.           *)
(***************************************************************************)
EXTENDS Ingestion, SequenceTheorems, TLAPS

\* The locals of a request at each of its steps.
JobShape(j) ==
    /\ j.step \in {"key", "device", "file", "store", "symbolicate", "alert", "answer", "save",
                   "insert", "delete", "cascade"} => j.device \in Device
    /\ j.step \in {"key", "strike"} => j.key \in Key
    /\ j.step = "key" => j.call \in {"ingest", "heartbeat"}
    /\ j.call = "ingest" \/ j.step \in {"device", "file", "store", "symbolicate", "alert", "answer"} =>
          j.crash \in Crash
    /\ j.step \in {"file", "store"} => j.site \in {j.crash.site, j.crash.reparsed}
    /\ j.step \in {"file", "store", "symbolicate", "alert", "answer"} => j.at \in Int
    /\ j.step \in {"symbolicate", "alert", "answer", "rewrite", "discard"} => j.report \in Report
    /\ j.step = "rewrite" => j.site \in Site
    /\ j.call = "heartbeat" => j.loaded \in DeviceRow /\ j.now = CheckedIn(j.loaded, j.told)
    /\ j.step = "save" => /\ j.call \in {"configure", "heartbeat"}
                          /\ j.loaded \in DeviceRow /\ j.now \in DeviceRow
    /\ j.step = "insert" => /\ j.call \in {"register", "mint"}
                            /\ j.call = "register" => j.now \in DeviceRow
    /\ j.step = "settings" => j.now \in PolicyRow

JobsOK ==
    /\ job \in [Connection -> Job \cup {None}]
    /\ \A c \in Connection : Running(c) => JobShape(job[c])

\* What the foreign keys keep: every report and key is of a device there is.
Kept ==
    /\ \A r \in Report : reports[r] # None => devices[reports[r].device] # None
    /\ \A k \in Key : keys[k] # None => devices[keys[k].device] # None

TablesOK ==
    /\ devices \in [Device -> DeviceRow \cup {None}]
    /\ keys \in [Key -> KeyRow \cup {None}]
    /\ reports \in [Report -> ReportRow \cup {None}]
    /\ policies \in Seq(PolicyRow)
    /\ pending \in [Device -> Crash \cup {None}]
    /\ faults \in 0..may.faults /\ parser \in 1..2
    /\ may \in Scenario
    /\ acked \subseteq Receipt

ShapeInv ==
    /\ TypeOK
    /\ may \in Scenario
    /\ acked \subseteq Receipt
    /\ JobsOK

-----------------------------------------------------------------------------
(* Records.                                                                *)

LEMMA CheckedInType ==
    ASSUME NEW row \in DeviceRow, NEW told PROVE CheckedIn(row, told) \in DeviceRow
<1>1. /\ row.status \in Status
      /\ (CASE told \in Status -> told
            [] told = None /\ row.status = "inactive" -> "active"
            [] OTHER -> row.status) \in Status
  BY DEF DeviceRow, Status
<1> QED
  BY <1>1 DEF CheckedIn, DeviceRow

\* A request that goes on keeps its locals.
LEMMA Restep ==
    ASSUME NEW j \in Job, NEW s \in JobStep
    PROVE  LET k == [j EXCEPT !.step = s]
           IN  /\ k \in Job /\ k.step = s /\ k.call = j.call /\ k.device = j.device
               /\ k.key = j.key /\ k.loaded = j.loaded /\ k.now = j.now /\ k.crash = j.crash
               /\ k.site = j.site /\ k.at = j.at /\ k.report = j.report /\ k.told = j.told
  BY ZenonT(60) DEF Job

LEMMA Resite ==
    ASSUME NEW j \in Job, NEW x \in Site
    PROVE  LET k == [j EXCEPT !.site = x]
           IN  /\ k \in Job /\ k.step = j.step /\ k.call = j.call /\ k.device = j.device
               /\ k.key = j.key /\ k.loaded = j.loaded /\ k.now = j.now /\ k.crash = j.crash
               /\ k.site = x /\ k.at = j.at /\ k.report = j.report /\ k.told = j.told
  BY ZenonT(60) DEF Job

LEMMA Retime ==
    ASSUME NEW j \in Job, NEW t \in Int
    PROVE  LET k == [j EXCEPT !.at = t]
           IN  /\ k \in Job /\ k.step = j.step /\ k.call = j.call /\ k.device = j.device
               /\ k.key = j.key /\ k.loaded = j.loaded /\ k.now = j.now /\ k.crash = j.crash
               /\ k.site = j.site /\ k.at = t /\ k.report = j.report /\ k.told = j.told
  BY ZenonT(60) DEF Job

\* What a request keeps from its beginning.
Kin(j, i) ==
    /\ j.call = i.call /\ j.device = i.device /\ j.key = i.key /\ j.loaded = i.loaded
    /\ j.now = i.now /\ j.crash = i.crash /\ j.told = i.told

\* Its crash is parsed: where and when it happened.
LEMMA Located ==
    ASSUME NEW c \in Connection, job[c] \in Job, job[c].crash \in Crash, NEW t \in Int,
           job' = [job EXCEPT ![c].step = "file", ![c].site = SiteOf(job[c].crash), ![c].at = t]
    PROVE  \E j \in Job : /\ job' = [job EXCEPT ![c] = j] /\ j.step = "file" /\ j.at = t
                          /\ j.site = SiteOf(job[c].crash) /\ Kin(j, job[c])
<1>1. PICK x : x = SiteOf(job[c].crash)
  OBVIOUS
<1>2. x \in Site
  BY <1>1 DEF SiteOf, Site
<1>3. PICK j : j = [job[c] EXCEPT !.step = "file", !.site = x, !.at = t]
  OBVIOUS
<1>4. PICK k : k = [job[c] EXCEPT !.step = "file"]
  OBVIOUS
<1>5. PICK l : l = [k EXCEPT !.site = x]
  OBVIOUS
<1>6. k \in Job /\ k.step = "file" /\ Kin(k, job[c])
  <2>1. "file" \in JobStep
    BY DEF JobStep
  <2> QED
    BY <1>4, <2>1, Restep DEF Kin
<1>7. l \in Job /\ l.step = "file" /\ l.site = x /\ Kin(l, job[c])
  BY <1>2, <1>5, <1>6, Resite DEF Kin
<1>8. j = [l EXCEPT !.at = t]
  <2>1. j = [[[job[c] EXCEPT !.step = "file"] EXCEPT !.site = x] EXCEPT !.at = t]
    BY <1>3
  <2> QED
    BY <1>4, <1>5, <2>1
<1>9. /\ j \in Job /\ j.step = "file" /\ j.site = x /\ j.at = t /\ Kin(j, job[c])
  BY <1>7, <1>8, Retime DEF Kin
<1>10. job' = [job EXCEPT ![c] = j]
  BY <1>1, <1>3
<1> QED
  BY <1>1, <1>9, <1>10

\* One connection's request changes, to one in shape or to none.
LEMMA PutShape ==
    ASSUME ShapeInv, NEW c \in Connection, NEW j,
           j = None \/ (j \in Job /\ JobShape(j)), job' = [job EXCEPT ![c] = j]
    PROVE  JobsOK'
  BY DEF ShapeInv, JobsOK, Running

\* ... as when a request takes one step.
LEMMA StepShape ==
    ASSUME ShapeInv, NEW c \in Connection, Running(c), NEW s \in JobStep, Step(c, s),
           JobShape([job[c] EXCEPT !.step = s])
    PROVE  JobsOK'
<1>1. job[c] \in Job
  BY DEF ShapeInv, JobsOK, Running
<1>2. job' = [job EXCEPT ![c] = [job[c] EXCEPT !.step = s]]
  BY DEF Step
<1> QED
  BY <1>1, <1>2, Restep, PutShape

\* The steps that only follow one another.
LEMMA NextShape ==
    ASSUME NEW j \in Job, JobShape(j), NEW s \in JobStep,
           \/ j.step = "delete" /\ s = "cascade"
           \/ j.step = "file" /\ s = "store"
           \/ j.step = "symbolicate" /\ s = "alert"
           \/ j.step = "alert" /\ s = "answer"
    PROVE  JobShape([j EXCEPT !.step = s])
<1>1. PICK k : k = [j EXCEPT !.step = s]
  OBVIOUS
<1>2. /\ k.step = s /\ k.call = j.call /\ k.device = j.device /\ k.key = j.key
      /\ k.loaded = j.loaded /\ k.now = j.now /\ k.crash = j.crash /\ k.site = j.site
      /\ k.at = j.at /\ k.report = j.report /\ k.told = j.told
  BY <1>1, Restep
<1>3. JobShape(k)
  BY <1>2 DEF JobShape
<1> QED
  BY <1>1, <1>3

LEMMA EndShape ==
    ASSUME ShapeInv, NEW c \in Connection, End(c)
    PROVE  JobsOK'
  BY PutShape DEF End

\* What a request is asked with.
LEMMA BlankFields ==
    /\ Blank.step = "none" /\ Blank.call = "none" /\ Blank.device = None /\ Blank.key = None
    /\ Blank.loaded = None /\ Blank.now = None /\ Blank.crash = None /\ Blank.site = None
    /\ Blank.at = None /\ Blank.report = None /\ Blank.told = None
  BY DEF Blank

LEMMA CrashesKnown == ASSUME ShapeInv, NEW k \in may.crashes PROVE k \in Crash
  BY DEF ShapeInv, Crash

-----------------------------------------------------------------------------
(* Every step keeps the shapes.                                            *)

LEMMA CallShape ==
    ASSUME ShapeInv, NEW c \in Connection, Calls(c)
    PROVE  JobsOK' /\ job'[c] \in Job
<1> USE DEF ShapeInv, TypeOK
<1>1. ASSUME NEW k \in Key, Send(c, k) PROVE JobsOK' /\ job'[c] \in Job
  <2> DEFINE j == job'[c]
  <2>1. j \in Job /\ JobShape(j)
    BY <1>1, CheckedInType, CrashesKnown DEF Send, GoodKey, Authenticated, KeyRow, Ready, Begin, Blank, Job, JobShape, JobStep, Running
  <2> QED
    BY <1>1, <2>1, PutShape DEF Send, GoodKey, Authenticated, KeyRow, Begin
<1>2. ASSUME NEW d \in Device, NEW k \in Crash, Submit(c, d, k) PROVE JobsOK' /\ job'[c] \in Job
  <2> DEFINE j == job'[c]
  <2>1. j \in Job /\ JobShape(j)
    BY <1>2, CheckedInType, CrashesKnown DEF Submit, Ready, Begin, Blank, Job, JobShape, JobStep, Running
  <2> QED
    BY <1>2, <2>1, PutShape DEF Submit, Begin
<1>3. ASSUME NEW k \in Key, NEW told \in {None, "no body", "active"}, Heartbeat(c, k, told) PROVE JobsOK' /\ job'[c] \in Job
  <2> DEFINE j == job'[c]
  <2>1. j \in Job /\ JobShape(j)
    BY <1>3, CheckedInType, CrashesKnown, ZenonT(60) DEF Heartbeat, GoodKey, Authenticated, KeyRow, Ready, Begin, Blank, Job, JobShape, JobStep, Running
  <2> QED
    BY <1>3, <2>1, PutShape DEF Heartbeat, GoodKey, Authenticated, KeyRow, Begin
<1>4. ASSUME NEW d \in Device, NEW told \in {None, "no body", "active"}, HeartbeatById(c, d, told) PROVE JobsOK' /\ job'[c] \in Job
  <2> DEFINE j == job'[c]
  <2>1. j \in Job /\ JobShape(j)
    BY <1>4, CheckedInType, CrashesKnown, ZenonT(60) DEF HeartbeatById, Ready, Begin, Blank, Job, JobShape, JobStep, Running
  <2> QED
    BY <1>4, <2>1, PutShape DEF HeartbeatById, Begin
<1>5. ASSUME NEW d \in Device, NEW s \in Status, Configure(c, d, s) PROVE JobsOK' /\ job'[c] \in Job
  <2> DEFINE j == job'[c]
  <2>1. devices[d] \in DeviceRow /\ [devices[d] EXCEPT !.status = s] \in DeviceRow
    BY <1>5 DEF Configure, DeviceRow
  <2>2. j \in Job /\ JobShape(j)
    BY <1>5, <2>1, CheckedInType DEF Configure, Ready, Begin, Blank, Job, JobShape, JobStep, Running
  <2> QED
    BY <1>5, <2>2, PutShape DEF Configure, Begin
<1>6. ASSUME NEW d \in Device, NEW s \in {"active", "maintenance"}, Register(c, d, s) PROVE JobsOK' /\ job'[c] \in Job
  <2> DEFINE j == job'[c]
  <2>1. PICK row \in DeviceRow : row = [status |-> s, fresh |-> FALSE]
    BY <1>6 DEF DeviceRow, Status
  <2>2. Begin(c, [Blank EXCEPT !.call = "register", !.device = d, !.step = "insert", !.now = row])
    BY <1>6, <2>1 DEF Register
  <2>3. j \in Job /\ JobShape(j)
    BY <2>1, <2>2, CheckedInType DEF Ready, Begin, Blank, Job, JobShape, JobStep, Running
  <2> QED
    BY <2>2, <2>3, PutShape DEF Begin
<1>7. ASSUME NEW d \in Device, Remove(c, d) PROVE JobsOK' /\ job'[c] \in Job
  <2> DEFINE j == job'[c]
  <2>1. j \in Job /\ JobShape(j)
    BY <1>7, CheckedInType, CrashesKnown DEF Remove, Ready, Begin, Blank, Job, JobShape, JobStep, Running
  <2> QED
    BY <1>7, <2>1, PutShape DEF Remove, Begin
<1>8. ASSUME NEW d \in Device, Mint(c, d) PROVE JobsOK' /\ job'[c] \in Job
  <2> DEFINE j == job'[c]
  <2>1. j \in Job /\ JobShape(j)
    BY <1>8, CheckedInType, CrashesKnown DEF Mint, Ready, Begin, Blank, Job, JobShape, JobStep, Running
  <2> QED
    BY <1>8, <2>1, PutShape DEF Mint, Begin
<1>9. ASSUME NEW k \in Key, Revoke(c, k) PROVE JobsOK' /\ job'[c] \in Job
  <2> DEFINE j == job'[c]
  <2>1. j \in Job /\ JobShape(j)
    BY <1>9, CheckedInType, CrashesKnown DEF Revoke, KeyRow, Ready, Begin, Blank, Job, JobShape, JobStep, Running
  <2> QED
    BY <1>9, <2>1, PutShape DEF Revoke, KeyRow, Begin
<1>10. ASSUME NEW p \in [enabled : BOOLEAN, least : {1}], UpdateSettings(c, p) PROVE JobsOK' /\ job'[c] \in Job
  <2> DEFINE j == job'[c]
  <2>1. p \in PolicyRow /\ (policies # <<>> => policies[1] \in PolicyRow)
    <3>1. p \in PolicyRow
      BY DEF PolicyRow, Severity
    <3> QED
      BY <3>1
  <2>2. j \in Job /\ JobShape(j)
    BY <1>10, <2>1, CheckedInType DEF UpdateSettings, Ready, Begin, Blank, Job, JobShape, JobStep, Running
  <2> QED
    BY <1>10, <2>2, PutShape DEF UpdateSettings, Begin
<1>11. ASSUME NEW r \in Report, ReparseCrashReport(c, r) PROVE JobsOK' /\ job'[c] \in Job
  <2> DEFINE j == job'[c]
  <2>1. reports[r] \in ReportRow /\ SiteOf(reports[r].crash) \in Site
    BY <1>11 DEF ReparseCrashReport, SiteOf, Site, ReportRow
  <2>2. j \in Job /\ JobShape(j)
    BY <1>11, <2>1, CheckedInType DEF ReparseCrashReport, Ready, Begin, Blank, Job, JobShape, JobStep, Running
  <2> QED
    BY <1>11, <2>2, PutShape DEF ReparseCrashReport, Begin
<1>12. ASSUME NEW r \in Report, Discard(c, r) PROVE JobsOK' /\ job'[c] \in Job
  <2> DEFINE j == job'[c]
  <2>1. j \in Job /\ JobShape(j)
    BY <1>12, CheckedInType DEF Discard, Ready, Begin, Blank, Job, JobShape, JobStep, Running
  <2> QED
    BY <1>12, <2>1, PutShape DEF Discard, Begin
<1> QED
  BY <1>1, <1>2, <1>3, <1>4, <1>5, <1>6, <1>7, <1>8, <1>9, <1>10, <1>11, <1>12 DEF Calls, CrashRouter, CheckIns, DeviceRouter, KeyRouter

LEMMA ServeShape ==
    ASSUME ShapeInv, NEW c \in Connection, Serve(c)
    PROVE  JobsOK'
<1>1. job[c] \in Job /\ JobShape(job[c])
  BY DEF Serve, OfFleet, TouchKey, Save, Insert, Strike, LockRow, Reject, TouchLastOnline,
         FileDuplicate, FileNew, Store, SymbolicateReport, AlertForCrash, Acknowledge,
         SaveSettings, Rewrite, DeleteReport, CascadeToReports, Cascade, At, Running, ShapeInv, JobsOK
<1>2. CASE TouchKey(c)
  <2> DEFINE s == IF job[c].call = "heartbeat" THEN "save" ELSE "device"
  <2>1. /\ Running(c) /\ Step(c, s) /\ s \in JobStep
        /\ job[c].step = "key" /\ (job[c].call = "heartbeat" \/ s = "device")
        /\ (job[c].call = "heartbeat" => s = "save")
    BY <1>2 DEF TouchKey, At, JobStep
  <2>2. JobShape([job[c] EXCEPT !.step = s])
    BY <1>1, <2>1, Restep, CheckedInType DEF JobShape
  <2> QED
    BY <2>1, <2>2, StepShape
<1>3. CASE LockRow(c)
  <2>1. /\ Running(c) /\ Step(c, "cascade") /\ "cascade" \in JobStep
        /\ job[c].step = "delete"
    BY <1>3 DEF LockRow, At, JobStep
  <2> QED
    BY <1>1, <2>1, NextShape, StepShape
<1>4. CASE FileNew(c)
  <2>1. Running(c) /\ Step(c, "store") /\ "store" \in JobStep /\ job[c].step = "file"
    BY <1>4 DEF FileNew, At, JobStep
  <2> QED
    BY <1>1, <2>1, NextShape, StepShape
<1>5. CASE Save(c) \/ Insert(c) \/ Strike(c) \/ Reject(c) \/ FileDuplicate(c)
              \/ SaveSettings(c) \/ Rewrite(c) \/ DeleteReport(c) \/ CascadeToReports(c)
  BY <1>5, EndShape DEF Save, Insert, Strike, Reject, FileDuplicate, SaveSettings, Rewrite, DeleteReport,
                       CascadeToReports, Answer, Cascade
<1>6. CASE TouchLastOnline(c)
  <2>1. /\ SiteOf(job[c].crash) \in {job[c].crash.site, job[c].crash.reparsed}
        /\ job[c].crash \in Crash /\ job[c].device \in Device /\ job[c].step = "device"
    BY <1>1, <1>6 DEF TouchLastOnline, At, JobShape, SiteOf
  <2>2. PICK t \in job[c].crash.times :
            job' = [job EXCEPT ![c].step = "file", ![c].site = SiteOf(job[c].crash), ![c].at = t]
    BY <1>6 DEF TouchLastOnline
  <2>3. t \in Int
    BY <2>1, <2>2, IngestionConstants
  <2>4. PICK j \in Job : /\ job' = [job EXCEPT ![c] = j] /\ j.step = "file" /\ j.at = t
                         /\ j.site = SiteOf(job[c].crash) /\ Kin(j, job[c])
    <3>1. job[c] \in Job /\ job[c].crash \in Crash
      BY <1>1, <2>1
    <3> QED
      BY <2>2, <2>3, <3>1, Located
  <2>5. JobShape(j)
    BY <1>1, <2>1, <2>3, <2>4 DEF JobShape, Kin
  <2> QED
    BY <2>4, <2>5, PutShape
<1>7. CASE Store(c)
  <2>1. CASE Filed(c)
    <3>1. PICK r \in Report : job' = [job EXCEPT ![c].step = "symbolicate", ![c].report = r]
      BY <2>1 DEF Filed, Free
    <3>2. PICK j : j = [job[c] EXCEPT !.step = "symbolicate", !.report = r]
      OBVIOUS
    <3>3. job[c].step = "store"
      BY <1>7 DEF Store, At
    <3>4. j \in Job /\ JobShape(j)
      BY <1>1, <3>2, <3>3 DEF Job, JobShape, JobStep
    <3>5. job' = [job EXCEPT ![c] = j]
      BY <3>1, <3>2
    <3> QED
      BY <3>4, <3>5, PutShape
  <2> QED
    BY <1>7, <2>1, EndShape DEF Store
<1>8. CASE SymbolicateReport(c)
  <2>1. CASE Step(c, "alert")
    <3>1. Running(c) /\ "alert" \in JobStep /\ job[c].step = "symbolicate"
      BY <1>8 DEF SymbolicateReport, At, JobStep
    <3> QED
      BY <1>1, <2>1, <3>1, NextShape, StepShape
  <2> QED
    BY <1>8, <2>1, EndShape DEF SymbolicateReport
<1>9. CASE AlertForCrash(c)
  <2>1. Running(c) /\ Step(c, "answer") /\ "answer" \in JobStep /\ job[c].step = "alert"
    BY <1>9 DEF AlertForCrash, At, JobStep
  <2> QED
    BY <1>1, <2>1, NextShape, StepShape
<1>10. CASE Acknowledge(c)
  BY <1>10, EndShape DEF Acknowledge, Answer
<1> QED
  BY <1>2, <1>3, <1>4, <1>5, <1>6, <1>7, <1>8, <1>9, <1>10 DEF Serve, OfFleet

LEMMA JobsStep == ShapeInv /\ [Next]_vars => JobsOK'
<1> SUFFICES ASSUME ShapeInv, [Next]_vars PROVE JobsOK'
  OBVIOUS
<1>1. CASE Environment \/ UNCHANGED vars
  BY <1>1 DEF Environment, HardFault, Upgrade, MarkStaleDevicesInactive, Silence, Expire, vars,
              ShapeInv, JobsOK, Running
<1>2. ASSUME NEW c \in Connection, Break(c) \/ Fail(c) PROVE JobsOK'
  BY <1>2, EndShape DEF Break, Victim, Fail
<1> QED
  BY <1>1, <1>2, CallShape, ServeShape DEF Next

-----------------------------------------------------------------------------

LEMMA TablesFromShape == ShapeInv <=> TablesOK /\ Kept /\ JobsOK
  BY DEF ShapeInv, TablesOK, Kept, JobsOK, TypeOK

\* What a check-in or the sweep makes of a row is a row.
LEMMA RowUpdates ==
    ASSUME NEW row \in DeviceRow, NEW s \in Status, NEW f \in BOOLEAN
    PROVE  /\ [row EXCEPT !.status = s] \in DeviceRow
           /\ [row EXCEPT !.fresh = f] \in DeviceRow
           /\ [status |-> s, fresh |-> f] \in DeviceRow
           /\ row.status \in Status /\ row.fresh \in BOOLEAN
  BY DEF DeviceRow

LEMMA KeyUpdates ==
    ASSUME NEW row \in KeyRow, NEW s \in {"good", "revoked", "expired"}
    PROVE  [row EXCEPT !.state = s] \in KeyRow /\ [row EXCEPT !.state = s].device = row.device
  BY DEF KeyRow

LEMMA OnlineType ==
    ASSUME ShapeInv, NEW d \in Device
    PROVE  /\ Online(d) \in [Device -> DeviceRow \cup {None}]
           /\ \A e \in Device : Online(d)[e] = None <=> devices[e] = None
<1>1. devices \in [Device -> DeviceRow \cup {None}] /\ None \notin DeviceRow
  BY IngestionConstants DEF ShapeInv, TypeOK
<1>2. CASE devices[d] = None
  BY <1>1, <1>2 DEF Online
<1>3. CASE devices[d] # None
  <2>1. [devices[d] EXCEPT !.fresh = TRUE] \in DeviceRow
    BY <1>1, <1>3 DEF DeviceRow
  <2>2. Online(d) = [devices EXCEPT ![d] = [devices[d] EXCEPT !.fresh = TRUE]]
    BY <1>3 DEF Online
  <2> QED
    BY <1>1, <1>3, <2>1, <2>2
<1> QED
  BY <1>2, <1>3

LEMMA ReportUpdates ==
    ASSUME NEW row \in ReportRow, NEW x \in Site
    PROVE  /\ [row EXCEPT !.symbolicated = TRUE] \in ReportRow
           /\ [row EXCEPT !.symbolicated = TRUE].device = row.device
           /\ [row EXCEPT !.symbolicated = TRUE].crash = row.crash
           /\ [row EXCEPT !.symbolicated = TRUE].site = row.site
           /\ [row EXCEPT !.symbolicated = TRUE].at = row.at
           /\ [row EXCEPT !.symbolicated = TRUE].alerts = row.alerts
           /\ [row EXCEPT !.symbolicated = TRUE].reparsed = row.reparsed
           /\ [row EXCEPT !.site = x, !.reparsed = TRUE] \in ReportRow
           /\ [row EXCEPT !.site = x, !.reparsed = TRUE].device = row.device
           /\ [row EXCEPT !.site = x, !.reparsed = TRUE].crash = row.crash
           /\ [row EXCEPT !.site = x, !.reparsed = TRUE].site = x
           /\ [row EXCEPT !.site = x, !.reparsed = TRUE].at = row.at
           /\ [row EXCEPT !.site = x, !.reparsed = TRUE].alerts = row.alerts
           /\ [row EXCEPT !.site = x, !.reparsed = TRUE].reparsed
           /\ [row EXCEPT !.alerts = @ + 1].device = row.device
           /\ [row EXCEPT !.alerts = @ + 1].crash = row.crash
           /\ [row EXCEPT !.alerts = @ + 1].site = row.site
           /\ [row EXCEPT !.alerts = @ + 1].at = row.at
           /\ [row EXCEPT !.alerts = @ + 1].reparsed = row.reparsed
           /\ [row EXCEPT !.alerts = @ + 1].alerts = row.alerts + 1
           /\ row.alerts < 2 => [row EXCEPT !.alerts = @ + 1] \in ReportRow
<1> DEFINE a == [row EXCEPT !.symbolicated = TRUE]
           b == [row EXCEPT !.site = x, !.reparsed = TRUE]
           d == [row EXCEPT !.alerts = @ + 1]
<1>1. /\ a \in ReportRow /\ a.device = row.device /\ a.crash = row.crash /\ a.site = row.site
      /\ a.at = row.at /\ a.alerts = row.alerts /\ a.reparsed = row.reparsed
  BY DEF ReportRow
<1>2. /\ b \in ReportRow /\ b.device = row.device /\ b.crash = row.crash /\ b.site = x
      /\ b.at = row.at /\ b.alerts = row.alerts /\ b.reparsed
  BY DEF ReportRow
<1>3. /\ d.device = row.device /\ d.crash = row.crash /\ d.site = row.site
      /\ d.at = row.at /\ d.alerts = row.alerts + 1 /\ d.reparsed = row.reparsed
  BY DEF ReportRow
<1>4. row.alerts < 2 => d \in ReportRow
  BY DEF ReportRow
<1> QED
  BY <1>1, <1>2, <1>3, <1>4

-----------------------------------------------------------------------------
(* The invariants of the requests under way.                                *)


\* A row has one holder.
RowLockInv ==
    \A c, e \in Connection, d \in Device :
        c # e /\ Running(c) /\ Running(e) => ~(HoldsRow(job[c], d) /\ HoldsRow(job[e], d))

\* While a request holds the row of its device and is about to store, nobody stores
\* what it has found missing; a parser may move a stored report there meanwhile.
DuplicateInv ==
    /\ OneReportPerCrash
    /\ \A c \in Connection : At(c, "store") => \A r \in Found(c) : reports[r].reparsed

\* The report a request names is its own as long as it is there: no other takes its id.
OwnInv ==
    /\ \A r \in Report : reports[r] # None =>
          reports[r].site \in {reports[r].crash.site, reports[r].crash.reparsed}
    /\ \A c \in Connection : Running(c) =>
          LET j == job[c]
              row == reports[j.report]
          IN  /\ j.step \in {"symbolicate", "alert", "answer"} /\ row # None =>
                    row.device = j.device /\ row.crash = j.crash /\ row.at = j.at
              /\ j.step = "rewrite" /\ row # None =>
                    j.site \in {row.crash.site, row.crash.reparsed}

\* A report is alerted for by the request that stored it, once.
MayPage(c) == Running(c) /\ job[c].step \in {"symbolicate", "alert"}

AlertInv ==
    /\ OneAlertPerReport
    /\ \A c \in Connection : MayPage(c) /\ reports[job[c].report] # None =>
          reports[job[c].report].alerts = 0
    /\ \A c, e \in Connection : c # e /\ MayPage(c) /\ MayPage(e) => job[e].report # job[c].report

-----------------------------------------------------------------------------
(* Every step keeps the tables.                                            *)

LEMMA AnswerType ==
    ASSUME NEW c \in Connection, NEW r \in Report, Answer(c, r), job[c].device \in Device,
           job[c].crash \in Crash, job[c].at \in Int, acked \subseteq Receipt,
           pending \in [Device -> Crash \cup {None}]
    PROVE  acked' \subseteq Receipt /\ pending' \in [Device -> Crash \cup {None}]
<1> DEFINE a == [device |-> job[c].device, crash |-> job[c].crash, at |-> job[c].at, report |-> r]
<1>1. a \in Receipt
  BY DEF Receipt
<1>2. acked' = acked \cup {a}
  BY DEF Answer
<1>3. pending' \in [Device -> Crash \cup {None}]
  BY DEF Answer
<1> QED
  BY <1>1, <1>2, <1>3

LEMMA ServeTables ==
    ASSUME ShapeInv, AlertInv, NEW c \in Connection, Serve(c)
    PROVE  TablesOK' /\ Kept'
<1> USE TablesFromShape, IngestionConstants
<1> DEFINE d == job[c].device
<1>1. /\ Running(c) /\ job[c] \in Job /\ JobShape(job[c])
      /\ TablesOK /\ Kept
  BY DEF Serve, OfFleet, TouchKey, Save, Insert, Strike, LockRow, Reject, TouchLastOnline,
         FileDuplicate, FileNew, Store, SymbolicateReport, AlertForCrash, Acknowledge,
         SaveSettings, Rewrite, DeleteReport, CascadeToReports, Cascade, At, Running, JobsOK
<1>2. CASE (TouchKey(c) \/ LockRow(c)) /\ UNCHANGED <<may, reporting>>
  BY <1>1, <1>2 DEF TouchKey, LockRow, fleet, reporting, TablesOK, Kept
<1>3. CASE TouchLastOnline(c) \/ FileNew(c)
  BY <1>1, <1>3 DEF TouchLastOnline, FileNew, fleet, reporting, TablesOK, Kept
<1>4. CASE Save(c) /\ UNCHANGED <<may, reporting>>
  <2>1. job[c].now \in DeviceRow /\ d \in Device
    BY <1>1, <1>4 DEF Save, At, JobShape
  <2>2. CASE devices[d] = None
    BY <1>1, <1>4, <2>2 DEF Save, reporting, TablesOK, Kept
  <2>3. CASE devices[d] # None
    <3>1. PICK row \in DeviceRow : devices' = [devices EXCEPT ![d] = row]
      <4>1. devices[d] \in DeviceRow
        BY <1>1, <2>1, <2>3 DEF TablesOK
      <4>2. [status |-> IF job[c].now.status # job[c].loaded.status THEN job[c].now.status
                        ELSE devices[d].status,
             fresh |-> job[c].call = "heartbeat" \/ devices[d].fresh] \in DeviceRow
        BY <2>1, <4>1 DEF DeviceRow
      <4> QED
        BY <1>4, <2>3, <4>2 DEF Save
    <3> QED
      BY <1>1, <1>4, <2>1, <3>1 DEF Save, reporting, TablesOK, Kept
  <2> QED
    BY <2>2, <2>3
<1>5. CASE Insert(c) /\ UNCHANGED <<may, reporting>>
  <2>1. d \in Device /\ (job[c].call = "register" => job[c].now \in DeviceRow)
    BY <1>1, <1>5 DEF Insert, At, JobShape
  <2>2. CASE job[c].call = "register"
    <3>1. devices' = (IF devices[d] # None THEN devices ELSE [devices EXCEPT ![d] = job[c].now])
          /\ keys' = keys /\ UNCHANGED <<may, reporting>>
      BY <1>5, <2>2 DEF Insert
    <3> QED
      BY <1>1, <2>1, <2>2, <3>1 DEF reporting, TablesOK, Kept
  <2>3. CASE job[c].call # "register"
    <3> DEFINE free == {k \in Key : keys[k] = None}
               new == [device |-> d, state |-> "good"]
    <3>1. /\ keys' = IF devices[d] = None \/ free = {} THEN keys
                     ELSE [keys EXCEPT ![CHOOSE k \in free : TRUE] = new]
          /\ devices' = devices /\ UNCHANGED <<may, reporting>>
      BY <1>5, <2>3 DEF Insert
    <3>2. new \in KeyRow /\ new.device = d
      BY <2>1 DEF KeyRow
    <3>3. CASE devices[d] = None \/ free = {}
      BY <1>1, <3>1, <3>3 DEF reporting, TablesOK, Kept
    <3>4. CASE ~(devices[d] = None \/ free = {})
      <4>1. PICK k \in Key : keys' = [keys EXCEPT ![k] = new]
        BY <3>1, <3>4
      <4> QED
        BY <1>1, <3>1, <3>2, <3>4, <4>1 DEF reporting, TablesOK, Kept
    <3> QED
      BY <3>3, <3>4
  <2> QED
    BY <2>2, <2>3
<1>6. CASE Strike(c) /\ UNCHANGED <<may, reporting>>
  <2> DEFINE k == job[c].key
  <2>1. k \in Key
    BY <1>1, <1>6 DEF Strike, At, JobShape
  <2>2. CASE keys[k] = None
    BY <1>1, <1>6, <2>2 DEF Strike, reporting, TablesOK, Kept
  <2>3. CASE keys[k] # None
    <3>1. keys[k] \in KeyRow
      BY <1>1, <2>1, <2>3 DEF TablesOK
    <3>2. PICK row \in KeyRow : row.device = keys[k].device /\ keys' = [keys EXCEPT ![k] = row]
      BY <1>6, <2>3, <3>1, KeyUpdates DEF Strike
    <3> QED
      BY <1>1, <1>6, <2>1, <2>3, <3>2 DEF Strike, reporting, TablesOK, Kept
  <2> QED
    BY <2>2, <2>3
<1>7. CASE Reject(c)
  BY <1>1, <1>7 DEF Reject, fleet, TablesOK, Kept
<1>8. CASE FileDuplicate(c)
  <2>1. d \in Device /\ job[c].crash \in Crash /\ job[c].at \in Int
    BY <1>1, <1>8 DEF FileDuplicate, At, JobShape
  <2>2. PICK r \in Report : Answer(c, r)
    BY <1>8 DEF FileDuplicate, Found, Duplicates
  <2>3. acked' \subseteq Receipt /\ pending' \in [Device -> Crash \cup {None}]
    BY <1>1, <2>1, <2>2, AnswerType DEF TablesOK
  <2>4. devices' = Online(d) /\ UNCHANGED <<may, keys, reports, policies, parser, faults>>
    BY <1>8 DEF FileDuplicate
  <2> QED
    BY <1>1, <2>1, <2>3, <2>4, OnlineType DEF TablesOK, Kept, KeyRow, ReportRow
<1>9. CASE Store(c)
  <2>1. CASE Filed(c) /\ devices[d] # None
    <3>1. /\ d \in Device /\ job[c].crash \in Crash /\ job[c].at \in Int
          /\ job[c].site \in {job[c].crash.site, job[c].crash.reparsed}
      BY <1>1, <1>9 DEF Store, At, JobShape
    <3> DEFINE new == [device |-> d, crash |-> job[c].crash, site |-> job[c].site,
                       at |-> job[c].at, symbolicated |-> FALSE, alerts |-> 0, reparsed |-> FALSE]
    <3>2. new \in ReportRow /\ new.device = d
      BY <3>1 DEF ReportRow, Site
    <3>3. PICK r \in Report : reports' = [reports EXCEPT ![r] = new]
      BY <2>1 DEF Filed, Free
    <3>4. devices' = Online(d) /\ UNCHANGED <<may, keys, policies, pending, parser, faults, acked>>
      BY <2>1 DEF Filed
    <3> HIDE DEF new
    <3>5. TablesOK'
      BY <1>1, <3>1, <3>2, <3>3, <3>4, OnlineType DEF TablesOK
    <3>6. Kept'
      BY <1>1, <2>1, <3>1, <3>2, <3>3, <3>4, OnlineType DEF TablesOK, Kept, KeyRow, ReportRow
    <3> QED
      BY <3>5, <3>6
  <2>2. CASE UNCHANGED <<may, fleet, reporting>>
    BY <1>1, <2>2 DEF fleet, reporting, TablesOK, Kept
  <2> QED
    BY <1>9, <2>1, <2>2 DEF Store
<1>10. ASSUME NEW r \in Report, NEW row \in ReportRow, reports[r] # None, row.device = reports[r].device,
              reports' = [reports EXCEPT ![r] = row],
              UNCHANGED <<may, fleet, policies, pending, parser, faults, acked>>
       PROVE  TablesOK' /\ Kept'
  BY <1>1, <1>10 DEF fleet, TablesOK, Kept
<1>11. CASE SymbolicateReport(c)
  <2> DEFINE r == job[c].report
  <2>1. r \in Report
    BY <1>1, <1>11 DEF SymbolicateReport, At, JobShape
  <2>2. CASE reports[r] = None
    BY <1>1, <1>11, <2>2 DEF SymbolicateReport, fleet, TablesOK, Kept
  <2>3. CASE reports[r] # None
    <3>1. reports[r] \in ReportRow
      BY <1>1, <2>1, <2>3 DEF TablesOK
    <3>2. [reports[r] EXCEPT !.symbolicated = TRUE] \in ReportRow
          /\ [reports[r] EXCEPT !.symbolicated = TRUE].device = reports[r].device
      BY <3>1 DEF ReportRow
    <3> QED
      BY <1>10, <1>11, <2>1, <2>3, <3>2 DEF SymbolicateReport
  <2> QED
    BY <2>2, <2>3
<1>12. CASE AlertForCrash(c)
  <2> DEFINE r == job[c].report
             due == Policy.enabled /\ job[c].crash.severity >= Policy.least
  <2>1. r \in Report /\ job[c].step = "alert"
    BY <1>1, <1>12 DEF AlertForCrash, At, JobShape
  <2>2. CASE due /\ reports[r] # None
    <3>1. reports[r] \in ReportRow /\ reports[r].alerts = 0
      BY <1>1, <2>1, <2>2 DEF TablesOK, AlertInv, MayPage
    <3>2. [reports[r] EXCEPT !.alerts = @ + 1] \in ReportRow
          /\ [reports[r] EXCEPT !.alerts = @ + 1].device = reports[r].device
      BY <3>1 DEF ReportRow
    <3>3. reports' = [reports EXCEPT ![r] = [reports[r] EXCEPT !.alerts = @ + 1]]
          /\ UNCHANGED <<may, fleet, policies, pending, parser, faults, acked>>
      BY <1>12, <2>2 DEF AlertForCrash
    <3> QED
      BY <1>10, <2>1, <2>2, <3>2, <3>3
  <2>3. CASE ~(due /\ reports[r] # None)
    <3>1. reports' = reports
      BY <1>12, <2>3 DEF AlertForCrash
    <3> QED
      BY <1>1, <1>12, <3>1 DEF AlertForCrash, fleet, TablesOK, Kept
  <2> QED
    BY <2>2, <2>3
<1>13. CASE Acknowledge(c)
  <2>1. d \in Device /\ job[c].crash \in Crash /\ job[c].at \in Int /\ job[c].report \in Report
    BY <1>1, <1>13 DEF Acknowledge, At, JobShape
  <2>2. acked' \subseteq Receipt /\ pending' \in [Device -> Crash \cup {None}]
    <3>1. CASE Answer(c, job[c].report)
      BY <1>1, <2>1, <3>1, AnswerType DEF TablesOK
    <3>2. CASE UNCHANGED <<pending, acked>>
      BY <1>1, <3>2 DEF TablesOK
    <3> QED
      BY <1>13, <3>1, <3>2 DEF Acknowledge
  <2>3. UNCHANGED <<may, fleet, reports, policies, parser, faults>>
    BY <1>13 DEF Acknowledge
  <2> QED
    BY <1>1, <2>2, <2>3 DEF fleet, TablesOK, Kept
<1>14. CASE SaveSettings(c)
  <2>1. job[c].now \in PolicyRow
    BY <1>1, <1>14 DEF SaveSettings, At, JobShape
  <2>2. policies' \in Seq(PolicyRow)
    <3>1. policies \in Seq(PolicyRow)
      BY <1>1 DEF TablesOK
    <3>2. CASE job[c].loaded = None
      BY <1>14, <2>1, <3>1, <3>2 DEF SaveSettings
    <3>3. CASE job[c].loaded # None
      <4>1. policies' = [policies EXCEPT ![1] = job[c].now]
        BY <1>14, <3>3 DEF SaveSettings
      <4>2. CASE 1 \in 1..Len(policies)
        BY <2>1, <3>1, <4>1, <4>2, ExceptSeq
      <4>3. CASE 1 \notin 1..Len(policies)
        <5>1. policies = <<>> /\ policies \in [{} -> PolicyRow]
          BY <3>1, <4>3
        <5>2. policies' \in [{} -> PolicyRow]
          BY <4>1, <5>1
        <5>3. policies' = policies
          BY <5>1, <5>2
        <5> QED
          BY <3>1, <5>3
      <4> QED
        BY <4>2, <4>3
    <3> QED
      BY <3>2, <3>3
  <2> QED
    BY <1>1, <1>14, <2>2 DEF SaveSettings, fleet, TablesOK, Kept
<1>15. CASE Rewrite(c)
  <2> DEFINE r == job[c].report
  <2>1. r \in Report /\ job[c].site \in Site
    BY <1>1, <1>15 DEF Rewrite, At, JobShape
  <2>2. CASE reports[r] = None
    BY <1>1, <1>15, <2>2 DEF Rewrite, fleet, TablesOK, Kept
  <2>3. CASE reports[r] # None
    <3>1. reports[r] \in ReportRow
      BY <1>1, <2>1, <2>3 DEF TablesOK
    <3> DEFINE row == [reports[r] EXCEPT !.site = job[c].site, !.reparsed = TRUE]
    <3>2. row \in ReportRow /\ row.device = reports[r].device
      BY <2>1, <3>1, ReportUpdates
    <3>3. reports' = [reports EXCEPT ![r] = row]
      BY <1>15, <2>3 DEF Rewrite
    <3> HIDE DEF row
    <3> QED
      BY <1>10, <1>15, <2>1, <2>3, <3>2, <3>3 DEF Rewrite
  <2> QED
    BY <2>2, <2>3
<1>16. CASE CascadeToReports(c)
  <2>1. /\ devices' = [devices EXCEPT ![d] = None] /\ d \in Device
        /\ keys' = [k \in Key |-> IF keys[k] # None /\ keys[k].device = d THEN None ELSE keys[k]]
        /\ reports' = [r \in Report |-> IF reports[r] # None /\ reports[r].device = d THEN None ELSE reports[r]]
        /\ acked' \subseteq acked /\ UNCHANGED <<may, policies, pending, parser, faults>>
    BY <1>1, <1>16 DEF CascadeToReports, Cascade, At, JobShape
  <2> QED
    BY <1>1, <2>1 DEF TablesOK, Kept, KeyRow, ReportRow
<1>17. CASE DeleteReport(c)
  <2>1. /\ reports' = [reports EXCEPT ![job[c].report] = None] /\ acked' \subseteq acked
        /\ UNCHANGED <<may, fleet, policies, pending, parser, faults>>
    BY <1>17 DEF DeleteReport
  <2> QED
    BY <1>1, <2>1 DEF fleet, TablesOK, Kept
<1> QED
  BY <1>2, <1>3, <1>4, <1>5, <1>6, <1>7, <1>8, <1>9, <1>11, <1>12, <1>13, <1>14, <1>15, <1>16, <1>17
  DEF Serve, OfFleet

\* A request changes no table when it begins.
LEMMA CallKeeps ==
    ASSUME NEW c \in Connection, Calls(c)
    PROVE  /\ UNCHANGED <<may, fleet, reports, policies, pending, parser, acked>>
           /\ faults' = faults \/ (faults < may.faults /\ faults' = faults + 1)
           /\ ~Running(c)
<1>1. CASE \E r \in Report : Discard(c, r)
  BY <1>1 DEF Discard, Ready
<1>2. CASE ~\E r \in Report : Discard(c, r)
  <2>1. UNCHANGED <<may, fleet, reporting>> /\ ~Running(c)
    BY <1>2 DEF Calls, CrashRouter, CheckIns, DeviceRouter, KeyRouter, Send, Submit, Heartbeat,
                HeartbeatById, Configure, Register, Remove, Mint, Revoke, UpdateSettings,
                ReparseCrashReport, Ready
  <2> QED
    BY <2>1 DEF reporting
<1> QED
  BY <1>1, <1>2

LEMMA ShapeStep == ShapeInv /\ AlertInv /\ [Next]_vars => ShapeInv'
<1> SUFFICES ASSUME ShapeInv, AlertInv, [Next]_vars PROVE TablesOK' /\ Kept'
  BY JobsStep, TablesFromShape DEF ShapeInv, TypeOK, TablesOK, Kept, JobsOK
<1> USE TablesFromShape, IngestionConstants
<1>1. CASE UNCHANGED vars
  BY <1>1 DEF vars, reporting, TablesOK, Kept
<1>2. CASE Environment
  <2>1. ASSUME NEW e \in Device, NEW k \in Crash, HardFault(e, k) PROVE TablesOK' /\ Kept'
    BY <2>1 DEF HardFault, fleet, TablesOK, Kept
  <2>2. CASE Upgrade
    BY <2>2 DEF Upgrade, fleet, TablesOK, Kept
  <2>3. CASE MarkStaleDevicesInactive /\ UNCHANGED <<may, reporting>>
    <3>1. \A e \in Device : IsStale(devices[e]) => [devices[e] EXCEPT !.status = "inactive"] \in DeviceRow
      BY DEF IsStale, TablesOK, DeviceRow, Status
    <3> QED
      BY <2>3, <3>1 DEF MarkStaleDevicesInactive, reporting, TablesOK, Kept, IsStale, KeyRow, ReportRow
  <2>4. ASSUME NEW e \in Device, Silence(e), UNCHANGED <<may, reporting>> PROVE TablesOK' /\ Kept'
    <3>1. [devices[e] EXCEPT !.fresh = FALSE] \in DeviceRow
      BY <2>4 DEF Silence, TablesOK, DeviceRow
    <3>2. PICK row \in DeviceRow : devices' = [devices EXCEPT ![e] = row]
      BY <2>4, <3>1 DEF Silence
    <3>3. devices[e] # None /\ keys' = keys /\ UNCHANGED <<may, reporting>>
      BY <2>4 DEF Silence
    <3>4. TablesOK /\ Kept
      OBVIOUS
    <3> QED
      BY <3>2, <3>3, <3>4 DEF reporting, TablesOK, Kept
  <2>5. ASSUME NEW k \in Key, Expire(k), UNCHANGED <<may, reporting>> PROVE TablesOK' /\ Kept'
    <3>1. [keys[k] EXCEPT !.state = "expired"] \in KeyRow
          /\ [keys[k] EXCEPT !.state = "expired"].device = keys[k].device
      BY <2>5 DEF Expire, TablesOK, KeyRow
    <3> QED
      BY <2>5, <3>1 DEF Expire, reporting, TablesOK, Kept
  <2> QED
    BY <1>2, <2>1, <2>2, <2>3, <2>4, <2>5 DEF Environment
<1>3. ASSUME NEW c \in Connection, Calls(c) PROVE TablesOK' /\ Kept'
  <2>1. /\ UNCHANGED <<may, fleet, reports, policies, pending, parser, acked>>
        /\ faults' = faults \/ (faults < may.faults /\ faults' = faults + 1)
    BY <1>3, CallKeeps
  <2>2. faults' \in 0..may.faults
    BY <1>3, <2>1, IngestionConstants DEF TablesOK
  <2> QED
    BY <2>1, <2>2 DEF fleet, TablesOK, Kept
<1>4. ASSUME NEW c \in Connection, Break(c) \/ Fail(c) PROVE TablesOK' /\ Kept'
  BY <1>4 DEF Break, Victim, Fail, fleet, reporting, TablesOK, Kept
<1> QED
  BY <1>1, <1>2, <1>3, <1>4, ServeTables DEF Next

-----------------------------------------------------------------------------
(* What a step does to the requests and the reports.                       *)

\* A new request, of an idle connection, holds no row and names no report but to
\* parse it again.
Asked(c, j) ==
    /\ ~Running(c)
    /\ j.step \in {"key", "device", "save", "insert", "strike", "delete", "settings", "rewrite",
                   "discard"}
    /\ j.step = "rewrite" =>
          /\ reports[j.report] # None
          /\ j.site \in {reports[j.report].crash.site, reports[j.report].crash.reparsed}
    /\ reports' = reports

LEMMA CallBegins ==
    ASSUME NEW c \in Connection, Calls(c)
    PROVE  \E j : job' = [job EXCEPT ![c] = j]
  BY DEF Calls, CrashRouter, CheckIns, DeviceRouter, KeyRouter, Send, Submit, Heartbeat,
         HeartbeatById, Configure, Register, Remove, Mint, Revoke, UpdateSettings,
         ReparseCrashReport, Discard, Begin

LEMMA CallMove ==
    ASSUME ShapeInv, NEW c \in Connection, Calls(c)
    PROVE  /\ \E j \in Job : job' = [job EXCEPT ![c] = j] /\ Asked(c, j)
           /\ UNCHANGED <<may, fleet, reports, acked>>
<1> DEFINE j == job'[c]
<1>1. UNCHANGED <<may, fleet, reports, acked>> /\ ~Running(c)
  BY CallKeeps
<1>2. job' = [job EXCEPT ![c] = j]
  BY CallBegins DEF ShapeInv, JobsOK
<1>3. j \in Job
  BY CallShape
<1>4. Asked(c, j)
  <2>1. CASE \E r \in Report : ReparseCrashReport(c, r)
    <3>1. PICK r \in Report : ReparseCrashReport(c, r)
      BY <2>1
    <3>2. j.step = "rewrite" /\ j.report = r /\ j.site = SiteOf(reports[r].crash) /\ reports[r] # None
      BY <3>1 DEF ReparseCrashReport, Begin, Blank, ShapeInv, JobsOK
    <3> QED
      BY <1>1, <3>2 DEF Asked, SiteOf
  <2>2. CASE ~\E r \in Report : ReparseCrashReport(c, r)
    <3>1. j.step \in {"key", "device", "save", "insert", "strike", "delete", "settings", "discard"}
      <4> USE DEF Begin, Blank, ShapeInv, JobsOK
      <4>1. CASE CrashRouter(c)
        BY <4>1, ZenonT(60) DEF CrashRouter, Send, Submit, Authenticated
      <4>2. CASE CheckIns(c)
        BY <4>2 DEF CheckIns, Heartbeat, HeartbeatById, Authenticated
      <4>3. CASE DeviceRouter(c)
        BY <4>3 DEF DeviceRouter, Configure, Register, Remove
      <4>4. CASE KeyRouter(c)
        BY <4>4 DEF KeyRouter, Mint, Revoke
      <4>5. CASE \E p \in [enabled : BOOLEAN, least : {1}] : UpdateSettings(c, p)
        BY <4>5 DEF UpdateSettings
      <4>6. CASE \E r \in Report : Discard(c, r)
        BY <4>6 DEF Discard
      <4> QED
        BY <2>2, <4>1, <4>2, <4>3, <4>4, <4>5, <4>6 DEF Calls
    <3> QED
      BY <1>1, <3>1 DEF Asked
  <2> QED
    BY <2>1, <2>2
<1> QED
  BY <1>1, <1>2, <1>3, <1>4

\* The next step of a request under way: it keeps its locals but for what it learns,
\* or ends.
Ends(c) == job' = [job EXCEPT ![c] = None] /\ reports' = reports

Rewrites(c) ==
    LET r == job[c].report
    IN  /\ job' = [job EXCEPT ![c] = None]
        /\ job[c].step = "rewrite" /\ reports[r] # None
        /\ reports' = [reports EXCEPT ![r].site = job[c].site, ![r].reparsed = TRUE]

Deletes(c) ==
    /\ job' = [job EXCEPT ![c] = None]
    /\ \/ /\ job[c].step = "cascade"
          /\ reports' = [r \in Report |-> IF reports[r] # None /\ reports[r].device = job[c].device
                                          THEN None ELSE reports[r]]
       \/ job[c].step = "discard" /\ reports' = [reports EXCEPT ![job[c].report] = None]

\* Within a request.
Goes(c, j) ==
    /\ job' = [job EXCEPT ![c] = j]
    /\ j.call = job[c].call /\ j.device = job[c].device /\ j.crash = job[c].crash
    /\ \/ job[c].step = "key" /\ j.step \in {"save", "device"} /\ reports' = reports
       \/ /\ job[c].step = "delete" /\ j.step = "cascade" /\ RowFree(c, job[c].device)
          /\ reports' = reports
       \/ /\ job[c].step = "device" /\ j.step = "file" /\ RowFree(c, job[c].device)
          /\ reports' = reports
       \/ /\ job[c].step = "file" /\ j.step = "store" /\ Found(c) = {} /\ j.site = job[c].site
          /\ j.at = job[c].at /\ reports' = reports
       \/ /\ job[c].step = "store" /\ j.step = "symbolicate" /\ j.report \in Free
          /\ j.at = job[c].at
          /\ reports' = [reports EXCEPT ![j.report] =
                [device |-> j.device, crash |-> j.crash, site |-> job[c].site, at |-> job[c].at,
                 symbolicated |-> FALSE, alerts |-> 0, reparsed |-> FALSE]]
       \/ /\ job[c].step = "symbolicate" /\ j.step = "alert" /\ j.report = job[c].report
          /\ j.at = job[c].at /\ reports[j.report] # None
          /\ reports' = [reports EXCEPT ![j.report].symbolicated = TRUE]
       \/ /\ job[c].step = "alert" /\ j.step = "answer" /\ j.report = job[c].report
          /\ j.at = job[c].at
          /\ reports' = IF reports[j.report] # None /\ reports' # reports
                        THEN [reports EXCEPT ![j.report].alerts = @ + 1] ELSE reports

LEMMA ServeMove ==
    ASSUME ShapeInv, NEW c \in Connection, Serve(c)
    PROVE  /\ Running(c) /\ job[c] \in Job /\ JobShape(job[c])
           /\ Ends(c) \/ Rewrites(c) \/ Deletes(c) \/ \E j \in Job : Goes(c, j)
<1>1. Running(c) /\ job[c] \in Job /\ JobShape(job[c])
  BY DEF Serve, OfFleet, TouchKey, Save, Insert, Strike, LockRow, Reject, TouchLastOnline,
         FileDuplicate, FileNew, Store, SymbolicateReport, AlertForCrash, Acknowledge,
         SaveSettings, Rewrite, DeleteReport, CascadeToReports, Cascade, At, Running, ShapeInv, JobsOK
<1> SUFFICES Ends(c) \/ Rewrites(c) \/ Deletes(c) \/ \E j \in Job : Goes(c, j)
  BY <1>1
<1>2. CASE /\ Save(c) \/ Insert(c) \/ Strike(c)
           /\ UNCHANGED <<may, reporting>>
  BY <1>2 DEF Save, Insert, Strike, End, Ends, reporting
<1>3. CASE Reject(c) \/ FileDuplicate(c) \/ Acknowledge(c) \/ SaveSettings(c)
  BY <1>3 DEF Reject, FileDuplicate, Acknowledge, SaveSettings, Answer, End, Ends
<1>4. CASE Rewrite(c)
  BY <1>4 DEF Rewrite, At, End, Ends, Rewrites
<1>5. CASE CascadeToReports(c) \/ DeleteReport(c)
  BY <1>5 DEF CascadeToReports, Cascade, DeleteReport, At, End, Deletes
<1>6. ASSUME NEW s \in JobStep, Step(c, s)
      PROVE  LET j == [job[c] EXCEPT !.step = s]
             IN  /\ job' = [job EXCEPT ![c] = j] /\ j \in Job /\ j.step = s
                 /\ j.call = job[c].call /\ j.device = job[c].device /\ j.crash = job[c].crash
                 /\ j.site = job[c].site /\ j.at = job[c].at /\ j.report = job[c].report
  BY <1>1, <1>6, Restep DEF Step
<1>7. CASE (TouchKey(c) \/ LockRow(c)) /\ UNCHANGED <<may, reporting>>
  <2> DEFINE s == IF job[c].step = "delete" THEN "cascade"
                  ELSE IF job[c].call = "heartbeat" THEN "save" ELSE "device"
  <2>1. Step(c, s) /\ s \in JobStep /\ reports' = reports
    BY <1>7 DEF TouchKey, LockRow, At, JobStep, reporting
  <2> QED
    BY <1>6, <1>7, <2>1, ZenonT(60) DEF TouchKey, LockRow, At, Goes
<1>8. CASE TouchLastOnline(c)
  <2>1. job[c].step = "device" /\ RowFree(c, job[c].device) /\ reports' = reports
    BY <1>8 DEF TouchLastOnline, At, reporting
  <2>2. PICK t \in job[c].crash.times :
            job' = [job EXCEPT ![c].step = "file", ![c].site = SiteOf(job[c].crash), ![c].at = t]
    BY <1>8 DEF TouchLastOnline
  <2>3. job[c].crash \in Crash /\ t \in Int
    BY <1>1, <2>1, <2>2, IngestionConstants DEF JobShape
  <2>4. PICK j \in Job : /\ job' = [job EXCEPT ![c] = j] /\ j.step = "file" /\ j.at = t
                         /\ j.site = SiteOf(job[c].crash) /\ Kin(j, job[c])
    BY <1>1, <2>2, <2>3, Located
  <2> QED
    BY <2>1, <2>4 DEF Goes, Kin
<1>9. CASE FileNew(c)
  <2>1. Step(c, "store") /\ "store" \in JobStep /\ reports' = reports /\ job[c].step = "file" /\ Found(c) = {}
    BY <1>9 DEF FileNew, At, JobStep, reporting
  <2> QED
    BY <1>6, <2>1 DEF Goes
<1>10. CASE Store(c)
  <2>1. CASE Filed(c)
    <3>1. PICK r \in Free :
             /\ job' = [job EXCEPT ![c].step = "symbolicate", ![c].report = r]
             /\ reports' = [reports EXCEPT ![r] =
                  [device |-> job[c].device, crash |-> job[c].crash, site |-> job[c].site,
                   at |-> job[c].at, symbolicated |-> FALSE, alerts |-> 0, reparsed |-> FALSE]]
      BY <2>1 DEF Filed
    <3>2. PICK j : j = [job[c] EXCEPT !.step = "symbolicate", !.report = r]
      OBVIOUS
    <3>3. /\ j \in Job /\ j.step = "symbolicate" /\ j.report = r /\ j.at = job[c].at
          /\ j.call = job[c].call /\ j.device = job[c].device /\ j.crash = job[c].crash
      BY <1>1, <3>1, <3>2 DEF Job, JobStep, Free
    <3>4. job' = [job EXCEPT ![c] = j] /\ job[c].step = "store"
      BY <1>10, <3>1, <3>2 DEF Store, At
    <3> QED
      BY <3>1, <3>3, <3>4 DEF Goes
  <2> QED
    BY <1>10, <2>1 DEF Store, End, Ends, reporting
<1>11. CASE SymbolicateReport(c)
  <2> DEFINE r == job[c].report
  <2>1. CASE reports[r] = None
    BY <1>11, <2>1 DEF SymbolicateReport, End, Ends
  <2>2. CASE reports[r] # None
    <3>1. /\ Step(c, "alert") /\ "alert" \in JobStep /\ job[c].step = "symbolicate"
          /\ reports' = [reports EXCEPT ![r].symbolicated = TRUE]
      BY <1>11, <2>2 DEF SymbolicateReport, At, JobStep
    <3>2. PICK j : j = [job[c] EXCEPT !.step = "alert"]
      OBVIOUS
    <3>3. /\ job' = [job EXCEPT ![c] = j] /\ j \in Job /\ j.step = "alert" /\ j.report = r /\ j.at = job[c].at
          /\ j.call = job[c].call /\ j.device = job[c].device /\ j.crash = job[c].crash
      BY <1>6, <3>1, <3>2
    <3> QED
      BY <2>2, <3>1, <3>3 DEF Goes
  <2> QED
    BY <2>1, <2>2
<1>12. CASE AlertForCrash(c)
  <2> DEFINE r == job[c].report
  <2>1. /\ Step(c, "answer") /\ "answer" \in JobStep /\ job[c].step = "alert"
        /\ reports' = IF reports[r] # None /\ reports' # reports
                      THEN [reports EXCEPT ![r].alerts = @ + 1] ELSE reports
    BY <1>12 DEF AlertForCrash, At, JobStep
  <2>2. PICK j : j = [job[c] EXCEPT !.step = "answer"]
    OBVIOUS
  <2>3. /\ job' = [job EXCEPT ![c] = j] /\ j \in Job /\ j.step = "answer" /\ j.report = r /\ j.at = job[c].at
        /\ j.call = job[c].call /\ j.device = job[c].device /\ j.crash = job[c].crash
    BY <1>6, <2>1, <2>2
  <2> QED
    BY <2>1, <2>3 DEF Goes
<1> QED
  BY <1>1, <1>2, <1>3, <1>4, <1>5, <1>7, <1>8, <1>9, <1>10, <1>11, <1>12 DEF Serve, OfFleet

\* All steps.
LEMMA StepMove ==
    ASSUME ShapeInv, [Next]_vars
    PROVE  \/ job' = job /\ reports' = reports
           \/ \E c \in Connection :
                 \/ \E j \in Job : job' = [job EXCEPT ![c] = j] /\ Asked(c, j)
                 \/ /\ Running(c) /\ job[c] \in Job /\ JobShape(job[c])
                    /\ Ends(c) \/ Rewrites(c) \/ Deletes(c) \/ \E j \in Job : Goes(c, j)
<1>1. CASE Environment \/ UNCHANGED vars
  BY <1>1 DEF Environment, HardFault, Upgrade, MarkStaleDevicesInactive, Silence, Expire, vars, reporting
<1>2. ASSUME NEW c \in Connection, Break(c) \/ Fail(c)
      PROVE  Running(c) /\ job[c] \in Job /\ JobShape(job[c]) /\ Ends(c)
  BY <1>2 DEF Break, Victim, Fail, Ends, End, reporting, ShapeInv, JobsOK, Running
<1> QED
  BY <1>1, <1>2, CallMove, ServeMove DEF Next

\* What changes of a report, and of a request, in a step.
LEMMA JobAfter ==
    ASSUME ShapeInv, NEW c \in Connection, NEW j, job' = [job EXCEPT ![c] = j]
    PROVE  job'[c] = j /\ \A e \in Connection : e # c => job'[e] = job[e] /\ (Running(e)' <=> Running(e))
  BY DEF ShapeInv, JobsOK, Running

LEMMA ReportAfter ==
    ASSUME ShapeInv, NEW r \in Report, NEW row, reports' = [reports EXCEPT ![r] = row]
    PROVE  reports'[r] = row /\ \A q \in Report : q # r => reports'[q] = reports[q]
  BY DEF ShapeInv, TypeOK

\* A deletion leaves the other reports as they are.
LEMMA DeletesOnly ==
    ASSUME ShapeInv, NEW c \in Connection, JobShape(job[c]), Deletes(c)
    PROVE  \A q \in Report : reports'[q] # None => reports[q] # None /\ reports'[q] = reports[q]
<1>1. CASE job[c].step = "cascade"
  BY <1>1 DEF Deletes
<1>2. CASE job[c].step = "discard"
  <2>1. job[c].report \in Report /\ reports' = [reports EXCEPT ![job[c].report] = None]
    BY <1>2 DEF Deletes, JobShape
  <2> QED
    BY <2>1, ReportAfter
<1> QED
  BY <1>1, <1>2 DEF Deletes

\* A request that ends takes nothing along, so each invariant need only hold of the
\* requests that stay.
-----------------------------------------------------------------------------
(* One holder of a row.                                                    *)

LEMMA RowLockInit == Init => RowLockInv
  BY DEF Init, FleetInit, RowLockInv, Running

LEMMA RowLockStep == ShapeInv /\ RowLockInv /\ [Next]_vars => RowLockInv'
<1> SUFFICES ASSUME ShapeInv, RowLockInv, [Next]_vars PROVE RowLockInv'
  OBVIOUS
<1>1. CASE job' = job
  BY <1>1 DEF RowLockInv, Running
<1>2. ASSUME NEW c \in Connection, NEW j, job' = [job EXCEPT ![c] = j],
             j = None \/ \A d \in Device : HoldsRow(j, d) =>
                            RowFree(c, d) \/ (Running(c) /\ HoldsRow(job[c], d))
      PROVE  RowLockInv'
  <2> SUFFICES ASSUME NEW e \in Connection \ {c}, NEW d \in Device,
                      j # None, Running(e), HoldsRow(j, d), HoldsRow(job[e], d)
               PROVE  FALSE
    BY <1>2, JobAfter DEF RowLockInv, Running
  <2> QED
    BY <1>2 DEF RowLockInv, RowFree, Others
<1>3. ASSUME NEW c \in Connection, Ends(c) \/ Rewrites(c) \/ Deletes(c) PROVE RowLockInv'
  BY <1>2, <1>3 DEF Ends, Rewrites, Deletes
<1>4. ASSUME NEW c \in Connection, NEW j \in Job, job' = [job EXCEPT ![c] = j], Asked(c, j)
      PROVE  RowLockInv'
  BY <1>2, <1>4 DEF Asked, HoldsRow
<1>5. ASSUME NEW c \in Connection, NEW j \in Job, Running(c), Goes(c, j) PROVE RowLockInv'
  <2>1. \A d \in Device : HoldsRow(j, d) => RowFree(c, d) \/ HoldsRow(job[c], d)
    BY <1>5 DEF Goes, HoldsRow
  <2> QED
    BY <1>2, <1>5, <2>1 DEF Goes
<1> QED
  BY <1>1, <1>3, <1>4, <1>5, StepMove

-----------------------------------------------------------------------------
(* The report a request names.                                             *)

LEMMA OwnInit == Init => OwnInv
  BY DEF Init, FleetInit, OwnInv, Running

LEMMA OwnStep == ShapeInv /\ OwnInv /\ [Next]_vars => OwnInv'
<1> SUFFICES ASSUME ShapeInv, OwnInv, [Next]_vars PROVE OwnInv'
  OBVIOUS
<1> DEFINE Of(e) == /\ job[e].step \in {"symbolicate", "alert", "answer"} /\ reports[job[e].report] # None =>
                          /\ reports[job[e].report].device = job[e].device
                          /\ reports[job[e].report].crash = job[e].crash
                          /\ reports[job[e].report].at = job[e].at
                    /\ job[e].step = "rewrite" /\ reports[job[e].report] # None =>
                          job[e].site \in {reports[job[e].report].crash.site,
                                           reports[job[e].report].crash.reparsed}
           Sites == \A r \in Report : reports[r] # None =>
                       reports[r].site \in {reports[r].crash.site, reports[r].crash.reparsed}
<1>0. OwnInv <=> Sites /\ \A e \in Connection : Running(e) => Of(e)
  BY DEF OwnInv
<1>00. OwnInv' <=> Sites' /\ \A e \in Connection : Running(e)' => Of(e)'
  BY DEF OwnInv
\* A change of one report that keeps its crash, time and device, and its site among the two.
<1>1. ASSUME NEW r \in Report, NEW row, reports[r] # None,
             row.device = reports[r].device, row.crash = reports[r].crash, row.at = reports[r].at,
             row.site \in {row.crash.site, row.crash.reparsed},
             reports' = [reports EXCEPT ![r] = row]
      PROVE  /\ Sites'
             /\ \A q \in Report : reports'[q] # None =>
                   /\ reports[q] # None
                   /\ reports'[q].device = reports[q].device /\ reports'[q].crash = reports[q].crash
                   /\ reports'[q].at = reports[q].at
  BY <1>0, <1>1, ReportAfter
<1>2. ASSUME NEW e \in Connection, Running(e), job'[e] = job[e],
             job[e].report \in Report =>
                LET q == job[e].report
                IN  reports'[q] # None => reports[q] # None /\ reports'[q].device = reports[q].device
                                                /\ reports'[q].crash = reports[q].crash
                                                /\ reports'[q].at = reports[q].at
      PROVE  Of(e)'
  <2>1. JobShape(job[e])
    BY <1>2 DEF ShapeInv, JobsOK
  <2> QED
    BY <1>0, <1>2, <2>1 DEF JobShape
<1>3. CASE job' = job /\ reports' = reports
  BY <1>3 DEF OwnInv, Running
<1>4. ASSUME NEW c \in Connection, NEW j \in Job, job' = [job EXCEPT ![c] = j], Asked(c, j)
      PROVE  OwnInv'
  <2>1. reports' = reports
    BY <1>4 DEF Asked
  <2>2. Of(c)'
    BY <1>4, JobAfter, <2>1 DEF Asked
  <2>3. ASSUME NEW e \in Connection, e # c, Running(e)' PROVE Of(e)'
    <3>1. Running(e) /\ job'[e] = job[e]
      BY <1>4, <2>3, JobAfter
    <3> QED
      BY <1>2, <2>1, <3>1
  <2> QED
    BY <1>0, <1>00, <2>1, <2>2, <2>3
<1>5. ASSUME NEW c \in Connection, Ends(c) PROVE OwnInv'
  <2>1. reports' = reports /\ ~Running(c)'
    BY <1>5, JobAfter DEF Ends, Running
  <2>2. ASSUME NEW e \in Connection, e # c, Running(e)' PROVE Of(e)'
    <3>1. Running(e) /\ job'[e] = job[e]
      BY <1>5, <2>2, JobAfter DEF Ends
    <3> QED
      BY <1>2, <2>1, <3>1
  <2> QED
    BY <1>0, <1>00, <2>1, <2>2
<1>6. ASSUME NEW c \in Connection, Running(c), JobShape(job[c]), Rewrites(c) PROVE OwnInv'
  <2> DEFINE r == job[c].report
             row == [reports[r] EXCEPT !.site = job[c].site, !.reparsed = TRUE]
  <2>1. r \in Report /\ reports[r] # None /\ reports[r] \in ReportRow /\ job[c].site \in Site
        /\ job[c].site \in {reports[r].crash.site, reports[r].crash.reparsed}
    BY <1>0, <1>6 DEF Rewrites, JobShape, ShapeInv, TypeOK
  <2>2. row \in ReportRow /\ row.device = reports[r].device /\ row.crash = reports[r].crash /\ row.site = job[c].site
        /\ row.at = reports[r].at
    BY <2>1, ReportUpdates
  <2>3. reports' = [reports EXCEPT ![r] = row] /\ ~Running(c)'
    BY <1>6, JobAfter, ZenonT(60) DEF Rewrites, Running
  <2> HIDE DEF row
  <2>4. /\ Sites'
        /\ \A q \in Report : reports'[q] # None =>
              /\ reports[q] # None /\ reports'[q].device = reports[q].device
              /\ reports'[q].crash = reports[q].crash /\ reports'[q].at = reports[q].at
    BY <1>1, <2>1, <2>2, <2>3
  <2>5. ASSUME NEW e \in Connection, e # c, Running(e)' PROVE Of(e)'
    <3>1. Running(e) /\ job'[e] = job[e]
      BY <1>6, <2>5, JobAfter DEF Rewrites
    <3> QED
      BY <1>2, <2>4, <3>1
  <2> QED
    BY <1>00, <2>3, <2>4, <2>5
<1>7. ASSUME NEW c \in Connection, Running(c), JobShape(job[c]), Deletes(c) PROVE OwnInv'
  <2>1. /\ ~Running(c)'
        /\ \A q \in Report : reports'[q] # None => reports[q] # None /\ reports'[q] = reports[q]
    BY <1>7, JobAfter, DeletesOnly DEF Deletes, Running
  <2>2. ASSUME NEW e \in Connection, e # c, Running(e)' PROVE Of(e)'
    <3>1. Running(e) /\ job'[e] = job[e]
      BY <1>7, <2>2, JobAfter DEF Deletes
    <3> QED
      BY <1>2, <2>1, <3>1
  <2> QED
    BY <1>0, <1>00, <2>1, <2>2
<1>8. ASSUME NEW c \in Connection, NEW j \in Job, Running(c), JobShape(job[c]), Goes(c, j) PROVE OwnInv'
  <2>1. job'[c] = j /\ \A e \in Connection : e # c => job'[e] = job[e] /\ (Running(e)' <=> Running(e))
    BY <1>8, JobAfter DEF Goes
  <2>2. CASE job[c].step \in {"key", "delete", "device", "file"}
    <3>1. reports' = reports /\ j.step \in {"save", "device", "cascade", "file", "store"}
      BY <1>8, <2>2 DEF Goes
    <3>2. Of(c)'
      BY <2>1, <3>1
    <3> QED
      BY <1>0, <1>00, <1>2, <2>1, <3>1, <3>2
  <2>3. CASE job[c].step = "store"
    <3> DEFINE row == [device |-> j.device, crash |-> j.crash, site |-> job[c].site,
                       at |-> job[c].at, symbolicated |-> FALSE, alerts |-> 0, reparsed |-> FALSE]
    <3>1. /\ j.report \in Free /\ j.step = "symbolicate" /\ reports' = [reports EXCEPT ![j.report] = row]
          /\ row.device = j.device /\ row.crash = j.crash /\ row.at = j.at
          /\ row.site \in {row.crash.site, row.crash.reparsed}
      BY <1>8, <2>3 DEF Goes, JobShape
    <3> HIDE DEF row
    <3>2. j.report \in Report /\ reports'[j.report] = row /\ \A q \in Report : q # j.report => reports'[q] = reports[q]
      BY <3>1, ReportAfter DEF Free
    <3>3. Of(c)'
      BY <2>1, <3>1, <3>2
    <3>4. ASSUME NEW e \in Connection, e # c, Running(e)' PROVE Of(e)'
      <4>1. job[e].report # j.report
        BY <2>1, <3>1, <3>4 DEF Free
      <4>2. Running(e) /\ job'[e] = job[e]
        BY <2>1, <3>4
      <4>3. job[e].report \in Report => reports'[job[e].report] = reports[job[e].report]
        BY <3>2, <4>1
      <4> QED
        BY <1>2, <3>4, <4>2, <4>3
    <3>5. Sites'
      BY <1>0, <3>1, <3>2
    <3> QED
      BY <1>00, <3>3, <3>4, <3>5
  <2>4. CASE job[c].step \in {"symbolicate", "alert"}
    <3> DEFINE r == j.report
    <3>1. r = job[c].report /\ r \in Report /\ j.step \in {"alert", "answer"}
      BY <1>8, <2>4 DEF Goes, JobShape
    <3>2. CASE reports' = reports
      <4>1. Of(c)'
        BY <1>0, <1>8, <2>1, <2>4, <3>1, <3>2 DEF Goes
      <4> QED
        BY <1>0, <1>00, <1>2, <2>1, <3>2, <4>1
    <3>3. CASE reports' # reports
      <4>1. reports[r] # None /\ reports[r] \in ReportRow
        BY <1>8, <2>4, <3>1, <3>3 DEF Goes, ShapeInv, TypeOK
      <4>2. PICK row : /\ reports' = [reports EXCEPT ![r] = row]
                       /\ row = [reports[r] EXCEPT !.symbolicated = TRUE] \/ row = [reports[r] EXCEPT !.alerts = @ + 1]
        BY <1>8, <2>4, <3>1, <3>3 DEF Goes
      <4>3. /\ row.device = reports[r].device /\ row.crash = reports[r].crash
            /\ row.site = reports[r].site /\ row.at = reports[r].at
        BY <4>1, <4>2 DEF ReportRow
      <4>4. reports[r].site \in {reports[r].crash.site, reports[r].crash.reparsed}
        BY <1>0, <3>1, <4>1
      <4> HIDE DEF r
      <4>5. r \in Report
        BY <3>1
      <4>6. Sites' /\ \A q \in Report : reports'[q] # None =>
              /\ reports[q] # None /\ reports'[q].device = reports[q].device
              /\ reports'[q].crash = reports[q].crash /\ reports'[q].at = reports[q].at
        BY <1>1, <4>1, <4>2, <4>3, <4>4, <4>5
      <4>7. Of(c)
        BY <1>0, <1>8
      <4>8. j.device = job[c].device /\ j.crash = job[c].crash /\ j.at = job[c].at /\ job'[c] = j
        BY <1>8, <2>1, <2>4 DEF Goes
      <4>9. Of(c)'
        BY <2>4, <3>1, <4>1, <4>6, <4>7, <4>8 DEF r
      <4>10. ASSUME NEW e \in Connection, e # c, Running(e)' PROVE Of(e)'
        <5>1. Running(e) /\ job'[e] = job[e]
          BY <2>1, <4>10
        <5> QED
          BY <1>2, <4>6, <4>10, <5>1
      <4> QED
        BY <1>00, <4>6, <4>9, <4>10
    <3> QED
      BY <3>2, <3>3
  <2> QED
    BY <1>8, <2>2, <2>3, <2>4 DEF Goes
<1> QED
  BY <1>3, <1>4, <1>5, <1>6, <1>7, <1>8, StepMove

-----------------------------------------------------------------------------
(* One alert.                                                              *)

LEMMA AlertInit == Init => AlertInv
  BY DEF Init, FleetInit, AlertInv, MayPage, Running, OneAlertPerReport

LEMMA AlertStep == ShapeInv /\ AlertInv /\ [Next]_vars => AlertInv'
<1> SUFFICES ASSUME ShapeInv, AlertInv, [Next]_vars PROVE AlertInv'
  OBVIOUS
\* Nobody new may page, and no report is alerted for.
<1>1. ASSUME \A q \in Report : reports'[q] # None =>
                reports[q] # None /\ reports'[q].alerts = reports[q].alerts,
             \A e \in Connection : MayPage(e)' =>
                /\ MayPage(e) /\ job'[e].report = job[e].report /\ job[e].report \in Report
      PROVE  AlertInv'
  BY <1>1 DEF AlertInv, OneAlertPerReport
<1>2. ASSUME NEW e \in Connection, MayPage(e) PROVE job[e].report \in Report
  BY <1>2 DEF MayPage, ShapeInv, JobsOK, JobShape
<1>3. CASE job' = job /\ reports' = reports
  BY <1>1, <1>2, <1>3 DEF MayPage, Running
<1>4. ASSUME NEW c \in Connection, NEW j, job' = [job EXCEPT ![c] = j],
             j = None \/ j.step \notin {"symbolicate", "alert"},
             \A q \in Report : reports'[q] # None =>
                reports[q] # None /\ reports'[q].alerts = reports[q].alerts
      PROVE  AlertInv'
  <2>1. \A e \in Connection : MayPage(e)' => e # c
    BY <1>4, JobAfter DEF MayPage, Running
  <2>2. \A e \in Connection : MayPage(e)' => MayPage(e) /\ job'[e] = job[e]
    BY <1>4, <2>1, JobAfter DEF MayPage
  <2> QED
    BY <1>1, <1>2, <1>4, <2>2
<1>5. ASSUME NEW c \in Connection, NEW j \in Job, job' = [job EXCEPT ![c] = j], Asked(c, j)
      PROVE  AlertInv'
  BY <1>4, <1>5 DEF Asked
<1>6. ASSUME NEW c \in Connection, Running(c), JobShape(job[c]), Ends(c) \/ Rewrites(c) \/ Deletes(c)
      PROVE  AlertInv'
  <2>1. CASE Ends(c)
    BY <1>4, <2>1 DEF Ends
  <2>2. CASE Deletes(c)
    BY <1>4, <1>6, <2>2, DeletesOnly DEF Deletes
  <2>3. CASE Rewrites(c)
    <3> DEFINE r == job[c].report
               row == [reports[r] EXCEPT !.site = job[c].site, !.reparsed = TRUE]
    <3>1. r \in Report /\ reports[r] # None /\ reports[r] \in ReportRow /\ job[c].site \in Site
      BY <1>6, <2>3 DEF Rewrites, JobShape, ShapeInv, TypeOK
    <3>2. row.alerts = reports[r].alerts /\ reports' = [reports EXCEPT ![r] = row]
      BY <2>3, <3>1, ReportUpdates DEF Rewrites
    <3> HIDE DEF row
    <3>3. \A q \in Report : reports'[q] # None => reports[q] # None /\ reports'[q].alerts = reports[q].alerts
      BY <3>1, <3>2, ReportAfter
    <3> QED
      BY <1>4, <2>3, <3>3 DEF Rewrites
  <2> QED
    BY <1>6, <2>1, <2>2, <2>3
<1>7. ASSUME NEW c \in Connection, NEW j \in Job, Running(c), JobShape(job[c]), Goes(c, j)
      PROVE  AlertInv'
  <2>1. /\ job' = [job EXCEPT ![c] = j] /\ job'[c] = j
        /\ \A e \in Connection : e # c => job'[e] = job[e] /\ (MayPage(e)' <=> MayPage(e))
    BY <1>7, JobAfter DEF Goes, MayPage
  <2>2. CASE job[c].step \in {"key", "delete", "device", "file"}
    <3>1. reports' = reports /\ j.step \in {"save", "device", "cascade", "file", "store"}
      BY <1>7, <2>2 DEF Goes
    <3> QED
      BY <1>4, <2>1, <3>1
  <2>3. CASE job[c].step = "store"
    <3> DEFINE row == [device |-> j.device, crash |-> j.crash, site |-> job[c].site,
                       at |-> job[c].at, symbolicated |-> FALSE, alerts |-> 0, reparsed |-> FALSE]
    <3>1. j.report \in Free /\ j.step = "symbolicate" /\ reports' = [reports EXCEPT ![j.report] = row]
          /\ row.alerts = 0
      BY <1>7, <2>3 DEF Goes
    <3> HIDE DEF row
    <3>2. j.report \in Report /\ reports'[j.report] = row /\ \A q \in Report : q # j.report => reports'[q] = reports[q]
      BY <3>1, ReportAfter DEF Free
    <3>3. ASSUME NEW e \in Connection, e # c, MayPage(e) PROVE job[e].report # j.report /\ job[e].report \in Report
      BY <1>2, <3>1, <3>3 DEF Free, MayPage
    <3>4. OneAlertPerReport'
      BY <3>1, <3>2 DEF AlertInv, OneAlertPerReport
    <3> QED
      BY <2>1, <3>1, <3>2, <3>3, <3>4 DEF AlertInv
  <2>4. CASE job[c].step = "symbolicate"
    <3> DEFINE r == job[c].report
               row == [reports[r] EXCEPT !.symbolicated = TRUE]
    <3>1. /\ j.step = "alert" /\ j.report = r /\ r \in Report /\ reports[r] # None /\ reports[r] \in ReportRow
          /\ reports' = [reports EXCEPT ![r] = row]
      BY <1>7, <2>4 DEF Goes, JobShape, ShapeInv, TypeOK
    <3>2. row.alerts = reports[r].alerts
      BY <3>1 DEF ReportRow
    <3> HIDE DEF row
    <3>3. \A q \in Report : reports'[q] # None => reports[q] # None /\ reports'[q].alerts = reports[q].alerts
      BY <3>1, <3>2, ReportAfter
    <3>4. MayPage(c)
      BY <1>7, <2>4 DEF MayPage
    <3> QED
      BY <1>1, <1>2, <2>1, <3>1, <3>3, <3>4
  <2>5. CASE job[c].step = "alert"
    <3> DEFINE r == job[c].report
               row == [reports[r] EXCEPT !.alerts = @ + 1]
    <3>1. /\ j.step = "answer" /\ r \in Report /\ MayPage(c)
          /\ reports' = reports \/ (reports[r] # None /\ reports' = [reports EXCEPT ![r] = row])
      BY <1>7, <2>5 DEF Goes, JobShape, MayPage
    <3>2. ~MayPage(c)'
      BY <2>1, <3>1 DEF MayPage
    <3>3. CASE reports' = reports
      BY <1>4, <2>1, <3>1, <3>3
    <3>4. CASE reports[r] # None /\ reports' = [reports EXCEPT ![r] = row]
      <4>1. reports[r] \in ReportRow /\ reports[r].alerts = 0
        BY <3>1, <3>4 DEF ShapeInv, TypeOK, AlertInv
      <4>2. row.alerts = 1
        BY <4>1 DEF ReportRow
      <4> HIDE DEF row
      <4>3. reports'[r] = row /\ \A q \in Report : q # r => reports'[q] = reports[q]
        BY <3>1, <3>4, ReportAfter
      <4>4. \A e \in Connection : MayPage(e)' => MayPage(e) /\ job'[e] = job[e] /\ job[e].report # r
                                                 /\ job[e].report \in Report
        BY <1>2, <2>1, <3>1, <3>2 DEF AlertInv
      <4>5. OneAlertPerReport'
        BY <4>2, <4>3 DEF AlertInv, OneAlertPerReport
      <4> QED
        BY <4>3, <4>4, <4>5 DEF AlertInv
    <3> QED
      BY <3>1, <3>3, <3>4
  <2> QED
    BY <1>7, <2>2, <2>3, <2>4, <2>5 DEF Goes
<1> QED
  BY <1>3, <1>5, <1>6, <1>7, StepMove

-----------------------------------------------------------------------------
(* What becomes of the stored reports.                                     *)

\* Save for a deletion, of one or of their device, reports stay, and stay what they were, but
\* that a later parser may move one.
Same(q) ==
    /\ reports[q] # None /\ reports'[q] # None
    /\ reports'[q].device = reports[q].device /\ reports'[q].crash = reports[q].crash
    /\ reports'[q].at = reports[q].at
    /\ reports'[q].reparsed \/ (reports'[q].site = reports[q].site
                                   /\ reports'[q].reparsed = reports[q].reparsed)

LEMMA GoesSame ==
    ASSUME ShapeInv, AlertInv, NEW c \in Connection, NEW j \in Job, Running(c), JobShape(job[c]),
           Goes(c, j)
    PROVE  IF job[c].step = "store"
           THEN /\ reports[j.report] = None /\ j.report \in Report
                /\ reports'[j.report] =
                      [device |-> job[c].device, crash |-> job[c].crash, site |-> job[c].site,
                       at |-> job[c].at, symbolicated |-> FALSE, alerts |-> 0, reparsed |-> FALSE]
                /\ \A q \in Report : q # j.report => reports'[q] = reports[q]
           ELSE \A q \in Report : reports'[q] = reports[q] \/ Same(q)
<1>1. CASE job[c].step = "store"
  <2> DEFINE row == [device |-> j.device, crash |-> j.crash, site |-> job[c].site,
                     at |-> job[c].at, symbolicated |-> FALSE, alerts |-> 0, reparsed |-> FALSE]
  <2>1. /\ j.report \in Report /\ reports[j.report] = None /\ reports' = [reports EXCEPT ![j.report] = row]
        /\ j.device = job[c].device /\ j.crash = job[c].crash
    BY <1>1 DEF Goes, Free
  <2>2. /\ reports'[j.report] = row
        /\ \A q \in Report : q # j.report => reports'[q] = reports[q]
    BY <2>1, ReportAfter
  <2> QED
    BY <1>1, <2>1, <2>2
<1>2. CASE job[c].step \in {"key", "delete", "device", "file"}
  BY <1>2 DEF Goes
<1>3. CASE job[c].step \in {"symbolicate", "alert"}
  <2> DEFINE r == job[c].report
  <2>1. CASE reports' = reports
    BY <1>3, <2>1
  <2>2. CASE reports' # reports
    <3>1. r \in Report /\ reports[r] # None /\ reports[r] \in ReportRow
      BY <1>3, <2>2 DEF Goes, JobShape, ShapeInv, TypeOK
    <3>2. PICK row : /\ reports' = [reports EXCEPT ![r] = row]
                     /\ row = [reports[r] EXCEPT !.symbolicated = TRUE] \/ row = [reports[r] EXCEPT !.alerts = @ + 1]
      BY <1>3, <2>2 DEF Goes
    <3>3. /\ row.device = reports[r].device /\ row.crash = reports[r].crash /\ row.at = reports[r].at
          /\ row.site = reports[r].site /\ row.reparsed = reports[r].reparsed
      BY <3>1, <3>2 DEF ReportRow
    <3>4. reports[r].alerts < 2
      BY <1>3, <3>1 DEF AlertInv, MayPage
    <3>5. row \in ReportRow /\ row # None
      <4>1. [reports[r] EXCEPT !.symbolicated = TRUE] \in ReportRow
        BY <3>1 DEF ReportRow
      <4>2. [reports[r] EXCEPT !.alerts = @ + 1] \in ReportRow
        BY <3>1, <3>4 DEF ReportRow
      <4> QED
        BY <3>2, <4>1, <4>2, IngestionConstants
    <3>6. reports'[r] = row /\ \A q \in Report : q # r => reports'[q] = reports[q]
      BY <3>1, <3>2, ReportAfter
    <3>7. Same(r)
      BY <3>1, <3>3, <3>5, <3>6 DEF Same
    <3> QED
      BY <1>3, <3>6, <3>7
  <2> QED
    BY <2>1, <2>2
<1> QED
  BY <1>1, <1>2, <1>3 DEF Goes

LEMMA RewritesSame ==
    ASSUME ShapeInv, NEW c \in Connection, Running(c), JobShape(job[c]), Rewrites(c)
    PROVE  \A q \in Report : reports'[q] = reports[q] \/ Same(q)
<1> DEFINE r == job[c].report
           row == [reports[r] EXCEPT !.site = job[c].site, !.reparsed = TRUE]
<1>1. r \in Report /\ reports[r] # None /\ reports[r] \in ReportRow /\ job[c].site \in Site
  BY DEF Rewrites, JobShape, ShapeInv, TypeOK
<1>2. /\ row \in ReportRow /\ row.device = reports[r].device /\ row.crash = reports[r].crash
      /\ row.at = reports[r].at /\ row.reparsed
      /\ reports' = [reports EXCEPT ![r] = row]
  BY <1>1, ReportUpdates DEF Rewrites
<1> HIDE DEF row
<1> QED
  BY <1>1, <1>2, ReportAfter, IngestionConstants DEF Same

-----------------------------------------------------------------------------
(* One report of a crash.                                                  *)

LEMMA DuplicateInit == Init => DuplicateInv
  BY DEF Init, FleetInit, DuplicateInv, At, Running, OneReportPerCrash

LEMMA DuplicateStep ==
    ShapeInv /\ RowLockInv /\ AlertInv /\ DuplicateInv /\ [Next]_vars => DuplicateInv'
<1> SUFFICES ASSUME ShapeInv, RowLockInv, AlertInv, DuplicateInv, [Next]_vars PROVE DuplicateInv'
  OBVIOUS
\* No report is new, and no request about to store.
<1>1. ASSUME \A q \in Report : reports'[q] # None => reports'[q] = reports[q] \/ Same(q),
             \A e \in Connection : At(e, "store")' => At(e, "store") /\ job'[e] = job[e]
      PROVE  DuplicateInv'
  <2>1. OneReportPerCrash'
    BY <1>1 DEF DuplicateInv, OneReportPerCrash, Same
  <2>2. ASSUME NEW e \in Connection, At(e, "store")', NEW r \in Found(e)' PROVE reports'[r].reparsed
    BY <1>1, <2>2 DEF DuplicateInv, Found, Duplicates, Same
  <2> QED
    BY <2>1, <2>2 DEF DuplicateInv
<1>2. ASSUME NEW c \in Connection, NEW j, job' = [job EXCEPT ![c] = j], j = None \/ j.step # "store"
      PROVE  \A e \in Connection : At(e, "store")' => At(e, "store") /\ job'[e] = job[e]
  BY <1>2, JobAfter DEF At, Running
<1>3. CASE job' = job /\ reports' = reports
  BY <1>1, <1>3 DEF At, Running
<1>4. ASSUME NEW c \in Connection, NEW j \in Job, job' = [job EXCEPT ![c] = j], Asked(c, j)
      PROVE  DuplicateInv'
  BY <1>1, <1>2, <1>4 DEF Asked
<1>5. ASSUME NEW c \in Connection, Running(c), JobShape(job[c]), Ends(c) \/ Rewrites(c) \/ Deletes(c)
      PROVE  DuplicateInv'
  <2>1. CASE Ends(c)
    BY <1>1, <1>2, <2>1 DEF Ends
  <2>2. CASE Rewrites(c)
    BY <1>1, <1>2, <1>5, <2>2, RewritesSame DEF Rewrites
  <2>3. CASE Deletes(c)
    BY <1>1, <1>2, <1>5, <2>3, DeletesOnly DEF Deletes
  <2> QED
    BY <1>5, <2>1, <2>2, <2>3
<1>6. ASSUME NEW c \in Connection, NEW j \in Job, Running(c), JobShape(job[c]), Goes(c, j)
      PROVE  DuplicateInv'
  <2>1. /\ job' = [job EXCEPT ![c] = j] /\ job'[c] = j
        /\ \A e \in Connection : e # c => job'[e] = job[e] /\ (Running(e)' <=> Running(e))
    BY <1>6, JobAfter DEF Goes
  <2>2. CASE job[c].step = "file"
    <3>1. /\ reports' = reports /\ Found(c) = {} /\ j.site = job[c].site /\ j.at = job[c].at
          /\ j.device = job[c].device /\ j.crash = job[c].crash
      BY <1>6, <2>2 DEF Goes
    <3>2. Found(c)' = {}
      BY <2>1, <3>1 DEF Found, Duplicates
    <3>3. ASSUME NEW e \in Connection, e # c, At(e, "store")' PROVE \A r \in Found(e)' : reports'[r].reparsed
      BY <2>1, <3>1, <3>3 DEF DuplicateInv, At, Found, Duplicates
    <3>4. OneReportPerCrash'
      BY <3>1 DEF DuplicateInv, OneReportPerCrash
    <3> QED
      BY <3>2, <3>3, <3>4 DEF DuplicateInv
  <2>3. CASE job[c].step = "store"
    <3> DEFINE n == j.report
    <3>1. /\ reports[n] = None /\ n \in Report /\ j.step = "symbolicate"
          /\ reports'[n].device = job[c].device /\ reports'[n].at = job[c].at
          /\ reports'[n].site = job[c].site /\ \A q \in Report : q # n => reports'[q] = reports[q]
      <4>1. j.step = "symbolicate"
        BY <1>6, <2>3 DEF Goes
      <4>2. reports'[n] = [device |-> job[c].device, crash |-> job[c].crash, site |-> job[c].site,
                           at |-> job[c].at, symbolicated |-> FALSE, alerts |-> 0, reparsed |-> FALSE]
        BY <1>6, <2>3, GoesSame
      <4> QED
        BY <1>6, <2>3, <4>1, <4>2, GoesSame
    <3>2. \A r \in Report : r # n /\ reports[r] # None /\ reports[r].device = job[c].device
              /\ reports[r].site = job[c].site /\ Near(reports[r].at, job[c].at)
              => reports[r].reparsed
      BY <1>6, <2>3 DEF DuplicateInv, At, Found, Duplicates
    <3>3. OneReportPerCrash'
      BY <3>1, <3>2 DEF DuplicateInv, OneReportPerCrash, Near
    <3>4. ASSUME NEW e \in Connection, At(e, "store")', NEW r \in Found(e)' PROVE reports'[r].reparsed
      <4>1. e # c /\ At(e, "store") /\ job'[e] = job[e]
        BY <1>2, <2>1, <3>1, <3>4 DEF At
      <4>2. job[e].device # job[c].device
        <5>1. job[c].device \in Device
          BY <1>6, <2>3 DEF JobShape
        <5> QED
          BY <1>6, <2>3, <4>1, <5>1 DEF RowLockInv, HoldsRow, At
      <4>3. r \in Report /\ reports'[r] # None /\ reports'[r].device = job[e].device
            /\ reports'[r].site = job[e].site /\ Near(reports'[r].at, job[e].at)
        BY <3>4, <4>1 DEF Found, Duplicates
      <4>4. r # n /\ reports'[r] = reports[r]
        BY <3>1, <4>2, <4>3
      <4> QED
        BY <4>1, <4>3, <4>4 DEF DuplicateInv, Found, Duplicates
    <3> QED
      BY <3>3, <3>4 DEF DuplicateInv
  <2>4. CASE job[c].step \notin {"file", "store"}
    <3>1. j.step # "store"
      BY <1>6, <2>4 DEF Goes
    <3> QED
      BY <1>1, <1>2, <1>6, <2>1, <2>4, <3>1, GoesSame
  <2> QED
    BY <2>2, <2>3, <2>4
<1> QED
  BY <1>3, <1>4, <1>5, <1>6, StepMove

-----------------------------------------------------------------------------
(* Receipts.                                                               *)

\* What a receipt promises.
Stored(a) ==
    LET row == reports[a.report]
    IN  /\ row # None /\ row.device = a.device /\ Near(row.at, a.at)
        /\ {row.crash.site, row.crash.reparsed} \cap {a.crash.site, a.crash.reparsed} # {}

\* The receipt of a request.
Told(c, r) == [device |-> job[c].device, crash |-> job[c].crash, at |-> job[c].at, report |-> r]

\* Who is answered has a report stored.
LEMMA Answered ==
    ASSUME ShapeInv, OwnInv, [Next]_vars
    PROVE  \A a \in acked' : a \in acked \/ (reports' = reports /\ Stored(a))
<1>1. ASSUME NEW c \in Connection, FileDuplicate(c)
      PROVE  /\ reports' = reports
             /\ \E r \in Report : acked' = acked \cup {Told(c, r)} /\ Stored(Told(c, r))
  <2>1. Running(c) /\ JobShape(job[c]) /\ job[c].step = "file" /\ reports' = reports
    BY <1>1 DEF FileDuplicate, At, ShapeInv, JobsOK
  <2>2. PICK r \in Found(c) : Answer(c, r)
    BY <1>1 DEF FileDuplicate
  <2>3. /\ r \in Report /\ reports[r] # None /\ reports[r].device = job[c].device
        /\ reports[r].site = job[c].site /\ Near(reports[r].at, job[c].at)
    BY <2>2 DEF Found, Duplicates
  <2>4. job[c].site \in {job[c].crash.site, job[c].crash.reparsed}
    BY <2>1 DEF JobShape
  <2>5. reports[r].site \in {reports[r].crash.site, reports[r].crash.reparsed}
    BY <2>3 DEF OwnInv
  <2>6. Stored(Told(c, r))
    BY <2>3, <2>4, <2>5 DEF Stored, Told
  <2>7. acked' = acked \cup {Told(c, r)}
    BY <2>2 DEF Answer, Told
  <2> QED
    BY <2>1, <2>3, <2>6, <2>7
<1>2. ASSUME NEW c \in Connection, Acknowledge(c)
      PROVE  /\ reports' = reports
             /\ \/ acked' = acked
                \/ \E r \in Report : acked' = acked \cup {Told(c, r)} /\ Stored(Told(c, r))
  <2>1. Running(c) /\ JobShape(job[c]) /\ job[c].step = "answer"
    BY <1>2 DEF Acknowledge, At, ShapeInv, JobsOK
  <2> DEFINE r == job[c].report
  <2>2. CASE reports[r] = None
    BY <1>2, <2>2 DEF Acknowledge
  <2>3. CASE reports[r] # None
    <3>1. /\ r \in Report /\ reports[r].device = job[c].device /\ reports[r].crash = job[c].crash
          /\ reports[r].at = job[c].at /\ job[c].at \in Int
      BY <2>1, <2>3 DEF JobShape, OwnInv
    <3>2. Near(reports[r].at, job[c].at)
      BY <3>1, IngestionConstants DEF Near
    <3>3. Stored(Told(c, r))
      BY <2>3, <3>1, <3>2 DEF Stored, Told
    <3>4. acked' = acked \cup {Told(c, r)}
      BY <1>2, <2>3 DEF Acknowledge, Answer, Told
    <3> QED
      BY <1>2, <3>1, <3>3, <3>4 DEF Acknowledge
  <2> QED
    BY <2>2, <2>3
<1>3. ASSUME NEW c \in Connection, Serve(c) PROVE acked' \subseteq acked \/ FileDuplicate(c) \/ Acknowledge(c)
  BY <1>3 DEF Serve, OfFleet, reporting, Reject, TouchLastOnline, FileNew, Store, Filed,
              SymbolicateReport, AlertForCrash, SaveSettings, Rewrite, DeleteReport, CascadeToReports
<1>4. ASSUME NEW c \in Connection, Calls(c) \/ Break(c) \/ Fail(c) PROVE acked' = acked
  BY <1>4, CallMove DEF Break, Fail, reporting
<1>5. CASE Environment \/ UNCHANGED vars
  BY <1>5 DEF Environment, HardFault, Upgrade, vars, reporting
<1>6. ASSUME NEW c \in Connection, Serve(c)
      PROVE  \A a \in acked' : a \in acked \/ (reports' = reports /\ Stored(a))
  <2>1. CASE acked' \subseteq acked
    BY <2>1
  <2>2. CASE FileDuplicate(c)
    BY <1>1, <2>2
  <2>3. CASE Acknowledge(c)
    BY <1>2, <2>3
  <2> QED
    BY <1>3, <1>6, <2>1, <2>2, <2>3
<1>7. CASE acked' = acked
  BY <1>7
<1> QED
  BY <1>4, <1>5, <1>6, <1>7 DEF Next

\* A deletion takes the receipts along: they were given for its reports.
LEMMA DeletesForget ==
    ASSUME ShapeInv, [Next]_vars, NEW c \in Connection, Running(c), JobShape(job[c]), Deletes(c),
           NEW a \in acked', a \in acked, Stored(a)
    PROVE  reports'[a.report] = reports[a.report]
<1>0. job'[c] = None /\ job[c].step \in {"cascade", "discard"} /\ job[c] # None
      /\ \A e \in Connection : e # c => job'[e] = job[e]
  BY JobAfter DEF Deletes, Running
<1>1. CASE Environment \/ UNCHANGED vars
  BY <1>1 DEF Environment, HardFault, Upgrade, vars, reporting
<1>2. ASSUME NEW e \in Connection, Calls(e) \/ Break(e) \/ Fail(e) PROVE reports' = reports
  BY <1>2, CallMove DEF Break, Fail, reporting
<1>3. ASSUME NEW e \in Connection, Serve(e) PROVE reports'[a.report] = reports[a.report]
  <2>1. Running(e) /\ (Ends(e) \/ Rewrites(e) \/ Deletes(e) \/ \E j \in Job : Goes(e, j))
    BY <1>3, ServeMove
  <2>2. e = c
    <3>1. job'[e] # job[e]
      <4>1. CASE Ends(e) \/ Rewrites(e) \/ Deletes(e)
        BY <2>1, <4>1, JobAfter DEF Ends, Rewrites, Deletes, Running
      <4>2. ASSUME NEW j \in Job, Goes(e, j) PROVE job'[e] # job[e]
        BY <4>2, JobAfter DEF Goes
      <4> QED
        BY <2>1, <4>1, <4>2
    <3> QED
      BY <1>0, <3>1
  <2>3. a.report \in Report
    BY DEF ShapeInv, Receipt
  <2>4. CASE CascadeToReports(c)
    <3>1. a.device # job[c].device /\ job[c].step = "cascade"
      BY <2>4 DEF CascadeToReports, Cascade, At
    <3>2. reports[a.report].device # job[c].device
      BY <3>1 DEF Stored
    <3> QED
      BY <2>3, <3>1, <3>2 DEF Deletes
  <2>5. CASE DeleteReport(c)
    <3>1. a.report # job[c].report /\ reports' = [reports EXCEPT ![job[c].report] = None]
      BY <2>5 DEF DeleteReport
    <3>2. job[c].report \in Report
      BY <2>5 DEF DeleteReport, At, JobShape
    <3> QED
      BY <2>3, <3>1, <3>2, ReportAfter
  <2>6. CASE ~CascadeToReports(c) /\ ~DeleteReport(c)
    BY <1>0, <1>3, <2>2, <2>6 DEF Serve, OfFleet, reporting, Reject, TouchLastOnline, FileDuplicate, FileNew,
       Store, Filed, SymbolicateReport, AlertForCrash, Acknowledge, SaveSettings, Rewrite, At
  <2> QED
    BY <2>4, <2>5, <2>6
<1> QED
  BY <1>1, <1>2, <1>3 DEF Next

LEMMA AckStep ==
    ShapeInv /\ AlertInv /\ OwnInv /\ AckMeansStored /\ [Next]_vars => AckMeansStored'
<1> SUFFICES ASSUME ShapeInv, AlertInv, OwnInv, AckMeansStored, [Next]_vars, NEW a \in acked'
             PROVE  Stored(a)'
  BY DEF AckMeansStored, Stored
<1> DEFINE q == a.report
<1>1. CASE a \notin acked
  BY <1>1, Answered DEF Stored
<1>2. ASSUME a \in acked PROVE q \in Report /\ reports[q] # None /\ Stored(a)
  BY <1>2 DEF ShapeInv, Receipt, AckMeansStored, Stored
<1>3. ASSUME a \in acked, reports'[q] = reports[q] \/ Same(q) PROVE Stored(a)'
  BY <1>2, <1>3 DEF Stored, Same
<1> HIDE DEF q
<1>4. ASSUME a \in acked, NEW c \in Connection, Running(c), JobShape(job[c]), Rewrites(c)
      PROVE  Stored(a)'
  BY <1>2, <1>3, <1>4, RewritesSame
<1>5. ASSUME a \in acked, NEW c \in Connection, NEW j \in Job, Running(c), JobShape(job[c]), Goes(c, j)
      PROVE  Stored(a)'
  BY <1>2, <1>3, <1>5, GoesSame
<1>6. ASSUME a \in acked, NEW c \in Connection, Running(c), JobShape(job[c]), Deletes(c)
      PROVE  Stored(a)'
  BY <1>2, <1>3, <1>6, DeletesForget DEF q
<1>7. ASSUME a \in acked, reports' = reports PROVE Stored(a)'
  BY <1>3, <1>7
<1> QED
  BY <1>1, <1>4, <1>5, <1>6, <1>7, StepMove DEF Ends, Asked

-----------------------------------------------------------------------------
(* An operator's decision about a device.                                  *)

\* Only a flush gives a device another status, but for the sweep, which touches none
\* but active ones.
LEMMA DecisionStep == ShapeInv /\ [Next]_vars => [KeepsDecision]_vars
<1> SUFFICES ASSUME ShapeInv, [Next]_vars, vars' # vars, NEW d \in Device,
                    devices[d] # None, devices[d].status \in {"maintenance", "decommissioned"},
                    devices'[d] # None, devices'[d].status # devices[d].status
             PROVE  \E c \in Connection :
                       /\ At(c, "save") /\ job'[c] = None /\ job[c].device = d
                       /\ \/ job[c].call = "configure"
                          \/ job[c].told = devices'[d].status
                          \/ job[c].loaded.status = "inactive" /\ devices'[d].status = "active"
  BY DEF KeepsDecision
<1>0. /\ devices \in [Device -> DeviceRow \cup {None}] /\ devices[d] \in DeviceRow
      /\ devices'[d] # devices[d]
  BY DEF ShapeInv, TypeOK
<1>1. ASSUME NEW e \in Device, Online(e)[d] # None PROVE Online(e)[d].status = devices[d].status
  BY <1>0, <1>1 DEF Online, DeviceRow
<1>2. PICK c \in Connection : Serve(c)
  <2>1. ASSUME Environment PROVE FALSE
    <3>1. ASSUME NEW e \in Device, Silence(e) PROVE FALSE
      BY <1>0, <3>1 DEF Silence, DeviceRow
    <3>2. ASSUME MarkStaleDevicesInactive PROVE FALSE
      BY <1>0, <3>2 DEF MarkStaleDevicesInactive, IsStale
    <3> QED
      BY <1>0, <2>1, <3>1, <3>2 DEF Environment, HardFault, Upgrade, Expire, fleet
  <2>2. ASSUME NEW c \in Connection, Calls(c) \/ Break(c) \/ Fail(c) PROVE FALSE
    BY <1>0, <2>2, CallMove DEF Break, Victim, Fail, fleet
  <2> QED
    BY <2>1, <2>2 DEF Next
<1>3. /\ Running(c) /\ JobShape(job[c])
  BY <1>2, ServeMove
<1>4. Save(c)
  <2>1. ASSUME FileDuplicate(c) \/ Store(c) PROVE FALSE
    <3>1. devices' = devices \/ devices' = Online(job[c].device)
      BY <2>1 DEF FileDuplicate, Store, Filed, fleet
    <3>2. job[c].device \in Device
      BY <1>3, <2>1 DEF FileDuplicate, Store, At, JobShape
    <3> QED
      BY <1>0, <1>1, <3>1, <3>2
  <2>2. ASSUME Insert(c) PROVE FALSE
    BY <1>0, <2>2 DEF Insert
  <2>3. ASSUME CascadeToReports(c) PROVE FALSE
    BY <1>0, <2>3 DEF CascadeToReports, Cascade
  <2> QED
    BY <1>0, <1>2, <2>1, <2>2, <2>3
    DEF Serve, OfFleet, TouchKey, Strike, LockRow, Reject, TouchLastOnline, FileNew, SymbolicateReport,
        AlertForCrash, Acknowledge, SaveSettings, Rewrite, DeleteReport, fleet
<1> DEFINE j == job[c]
           row == devices[j.device]
<1>5. /\ At(c, "save") /\ job'[c] = None /\ j.device \in Device
      /\ j.call \in {"configure", "heartbeat"} /\ j.loaded \in DeviceRow
      /\ j.call = "heartbeat" => j.now = CheckedIn(j.loaded, j.told)
  BY <1>3, <1>4 DEF Save, At, End, JobShape, ShapeInv, JobsOK
<1>6. j.device = d /\ j.now.status # j.loaded.status /\ devices'[d].status = j.now.status
  <2>1. CASE row = None
    BY <1>0, <1>4, <2>1 DEF Save
  <2>2. CASE row # None
    <3> DEFINE new == [status |-> IF j.now.status # j.loaded.status THEN j.now.status ELSE row.status,
                       fresh |-> j.call = "heartbeat" \/ row.fresh]
    <3>1. devices' = [devices EXCEPT ![j.device] = new]
      BY <1>4, <2>2 DEF Save
    <3>2. j.device = d /\ devices'[d] = new
      BY <1>0, <1>5, <3>1
    <3>3. devices'[d].status = IF j.now.status # j.loaded.status THEN j.now.status ELSE devices[d].status
      BY <3>2
    <3> QED
      BY <3>2, <3>3
  <2> QED
    BY <2>1, <2>2
<1>7. CASE j.call = "heartbeat"
  <2>1. j.now.status = CASE j.told \in Status -> j.told
                         [] j.told = None /\ j.loaded.status = "inactive" -> "active"
                         [] OTHER -> j.loaded.status
    BY <1>5, <1>7 DEF CheckedIn, DeviceRow
  <2>2. CASE j.told \in Status
    BY <1>5, <1>6, <2>1, <2>2
  <2>3. CASE j.told \notin Status
    <3>1. j.loaded.status = "inactive" /\ j.now.status = "active"
      BY <1>6, <2>1, <2>3
    <3> QED
      BY <1>5, <1>6, <3>1
  <2> QED
    BY <2>2, <2>3
<1> QED
  BY <1>5, <1>6, <1>7

-----------------------------------------------------------------------------
(* The theorems.                                                           *)

LEMMA ShapeInit == Init => ShapeInv
<1> SUFFICES ASSUME Init PROVE ShapeInv
  OBVIOUS
<1>1. job \in [Connection -> {None}] /\ \A c \in Connection : ~Running(c)
  BY DEF Init, FleetInit, Running
<1>2. devices \in [Device -> DeviceRow \cup {None}]
  BY DEF Init, FleetInit, DeviceRow, Status
<1>3. keys \in [Key -> KeyRow \cup {None}] /\ \A k \in Key : keys[k] # None => devices[keys[k].device] # None
  <2>1. PICK d \in Device : LET first == CHOOSE k \in Key : TRUE
          IN  keys = [k \in Key |-> IF k = first /\ d \notin may.absent
                                    THEN [device |-> d, state |-> "good"] ELSE None]
    BY DEF Init, FleetInit
  <2>2. d \notin may.absent => devices[d] # None
    <3>1. d \notin may.absent => devices[d] \in DeviceRow
      BY DEF Init, FleetInit, DeviceRow, Status
    <3> QED
      BY <3>1, IngestionConstants
  <2> QED
    BY <2>1, <2>2 DEF KeyRow
<1>4. reports \in [Report -> {None}] /\ policies = <<>> /\ pending \in [Device -> {None}]
  BY DEF Init
<1>5. faults \in 0..may.faults /\ parser \in 1..2 /\ may \in Scenario /\ acked = {}
  BY IngestionConstants DEF Init, FleetInit
<1> QED
  BY <1>1, <1>2, <1>3, <1>4, <1>5 DEF ShapeInv, TypeOK, JobsOK

\* The invariant the theorems rest on: shapes, one alert, one holder of a row, one
\* report of a crash, and the reports requests name.
IInv == ShapeInv /\ AlertInv /\ RowLockInv /\ OwnInv /\ DuplicateInv

LEMMA IInvAlways == Spec => []IInv
<1>1. Init => IInv
  BY ShapeInit, AlertInit, RowLockInit, OwnInit, DuplicateInit DEF IInv
<1>2. IInv /\ [Next]_vars => IInv'
  BY ShapeStep, AlertStep, RowLockStep, OwnStep, DuplicateStep DEF IInv
<1> QED
  BY <1>1, <1>2, PTL DEF Spec

\* Every state is well formed: tables, requests under way, and the foreign keys, so
\* that no report and no key outlives its device.
THEOREM TypeCorrect == Spec => []TypeOK
<1>1. IInv => TypeOK
  BY DEF IInv, ShapeInv
<1> QED
  BY <1>1, IInvAlways, PTL

\* Within the window one crash is one report, however often and on however many
\* connections it is sent.
THEOREM RetriesAddNothing == Spec => []OneReportPerCrash
<1>1. IInv => OneReportPerCrash
  BY DEF IInv, DuplicateInv
<1> QED
  BY <1>1, IInvAlways, PTL

\* Whatever fails after the answer, the report it names stays stored until somebody
\* deletes it.
THEOREM AnsweredIsStored == Spec => []AckMeansStored
<1>1. Init => AckMeansStored
  BY DEF Init, AckMeansStored
<1>2. IInv /\ AckMeansStored /\ [Next]_vars => AckMeansStored'
  BY AckStep DEF IInv
<1> QED
  BY <1>1, <1>2, IInvAlways, PTL DEF Spec

\* A report is alerted for once at most.
THEOREM OnePage == Spec => []OneAlertPerReport
<1>1. IInv => OneAlertPerReport
  BY DEF IInv, AlertInv
<1> QED
  BY <1>1, IInvAlways, PTL

\* No check-in and no sweep overrules an operator whose decision it could have seen.
THEOREM OperatorsDecide == Spec => OperatorDecisionHolds
<1>1. IInv /\ [Next]_vars => [KeepsDecision]_vars
  BY DecisionStep DEF IInv
<1> QED
  BY <1>1, IInvAlways, PTL DEF Spec, OperatorDecisionHolds
=============================================================================
