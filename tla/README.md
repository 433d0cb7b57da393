# Verification of the crash diagnosis backend

TLA+ models of the BlackBox crash diagnosis system (`src/`), checked with TLC, and
theorems about them checked with TLAPS.

The system collects crash reports from embedded devices, resolves their addresses
against uploaded firmware builds, files them in groups by signature, alerts engineers
and lets a language model explain them. The backend is a FastAPI service on PostgreSQL
with an asynchronous ORM (SQLAlchemy), and a Celery worker that runs the same services
in another process. The frontend is a React application.

What is hard about this code is that nearly every operation reads rows into objects,
awaits, computes on the objects and writes back, while other requests and the worker do
the same: the correctness of the counters, statuses, symbols and files rests on the order
in which flushes, locks and commits happen. The models therefore keep those steps apart.

## 1. Inventory

Paths are under `src/backend/app/` unless they start with `src/`.

| Component | State it keeps | Operations | What makes it correct |
|---|---|---|---|
| Symbolication and grouping: `services/symbolication.py`, `repositories/crash_group.py`, `api/v1/endpoints/crash_groups.py` | `crash_groups` (status, `regressed_at`, counters, window, severity, versions); `crash_signature`, `group_id` of reports | symbolicate, bulk re-symbolicate, assign group, recompute counters, triage a group | counters equal the reports in the group; signature and group of a report agree; window and versions cover the reports, and filing a report never leaves the group less severe; a resolved group regresses when a crash arrives, and only then |
| Crash ingestion: `services/crash.py`, `repositories/crash.py` | `crash_reports`, `devices.last_online_at` | ingest (parse, find device, touch, duplicate check, store, symbolicate, alert), triage, delete | an accepted report is kept; a retry is stored once; symbolication and alert failures never lose it |
| Firmware builds: `services/build.py`, `repositories/build.py` | `firmware_builds`, `build_symbols`, the artifact volume | upload (create or replace), delete, find for a crash | one build per identity; its row, symbols and file come from one artifact |
| Database sessions: `db/session.py`, `repositories/base.py` | transaction, identity map | flush, commit, rollback | no autoflush, objects do not expire on commit: what was loaded stays as it was loaded |
| Background worker: `worker.py` | the broker's queue | symbolicate, re-symbolicate, diagnose, reparse, token purge, stale-device sweep | a redelivered task (`task_acks_late`) does no harm |
| Authentication: `services/auth.py`, `repositories/user.py` | users (password, lockout counter), refresh tokens, reset tokens | register, login, refresh, logout, reset, change password | a refresh token is spent once; a password change ends every session; the lockout counts every failure, and a lock holds; only the newest reset link works |
| User administration: `services/user.py` | users, roles | create, update, deactivate | deactivation ends sessions; administrators cannot shut themselves out |
| Devices: `services/device.py`, `repositories/device.py` | devices, tags, API keys | create, update, heartbeat, keys, delete | a device that checks in is not inactive; an operator's status is not overwritten by a device that says nothing of it |
| Stack analysis and symbol lookup: `services/stack_analyzer.py`, `services/symbolizer.py`, `services/elf_parser.py` | none | signature, stack reconstruction, address lookup | the signature ignores what differs between occurrences of one bug; a lookup returns the symbol that covers the address |
| Crash parser: `services/crash_parser.py` | none | payload to fields | unknown input becomes a warning, not a failure; nothing is dropped without one |
| Knowledge base: `services/knowledge_base.py`, `services/ai/` | documents, chunks, vectors | ingest, retrieve, delete | an indexed document has all its chunks and no fact is cut in all of them; identical content is stored once; a query meets only vectors of its own model |
| Diagnosis: `services/diagnosis.py` | diagnoses | diagnose, history | confidence is bounded by the evidence |
| Notifications: `services/notifications.py` | notifications, alert settings | alert, read, settings | one settings row; an alert never endangers the report |
| Frontend session: `src/frontend/src/api/client.ts`, `tokenStore.ts`, `auth/AuthProvider.tsx` | tokens in storage, one refresh in flight | request, refresh, replay, sign out | a burst of 401 answers spends the refresh token once |
| Analytics, export, audit, email, configuration, logging, pages, deployment | none of their own, or append-only | queries, formatting, I/O | not modelled, see section 12 |

How they meet: ingestion calls symbolication with the report object it has in memory, in
the same database session, after it committed the report; the endpoints and the worker
call symbolication on stored reports; the build endpoint calls the bulk re-symbolication;
engineers triage groups, and delete reports and builds at any time. All of it goes through
the database: there is no lock in the code, so two sessions meet only in row locks, unique
keys and what a SELECT sees.

The hard behaviours, line by line, are the `hazards` of `PROJECT.json`.

## 2. Plan

| Modules | Part of the system | State |
|---|---|---|
| `GroupLedger`, `CrashGroups`, `MCCrashGroups`, `CrashGroupsProofs`, `CrashGroupsSerialProofs` | symbolication and grouping, step by step | checked, and proved but for `NoStandstill` |
| `BuildArtifacts`, `MCBuildArtifacts`, `BuildArtifactsProofs` | rows, symbols and files of a build | checked, and proved but for liveness |
| `Accounts`, `MCAccounts`, `AccountsProofs` | accounts, sessions, reset links, the tabs that hold tokens | checked, and proved |
| `ElfParser`, `CrashParser`, `Symbolizer`, `Analysis`, `MCAnalysis`, `AnalysisProofs` | from payload and artifact to frames and signature | checked, and proved |
| `Devices`, `Ingestion`, `MCIngestion`, `IngestionProofs` | the fleet and the path of a crash report from a device | checked, and proved but for liveness |
| `Chunking`, `Knowledge`, `MCKnowledge`, `KnowledgeProofs` | documents, retrieval, diagnoses | checked, and proved |
| `Selection`, `DataLemmas` | a list comprehension with a filter, which parser, readers of symbols, chain and signature are written with; what it and other folds compute, for the proofs | proved |

`Analysis` composes the three algorithm modules; `Ingestion` extends `Devices` with the
requests that carry crashes; `Knowledge` extends `Chunking`. `Optional` holds what a column
that may be NULL is. `CrashGroups` takes the result of `Analysis` as the functions
`RawSignature` and `SymbolSignature`, and that of `BuildArtifacts` as the set `indexed`;
`Ingestion` takes grouping as one step that may fail.

Each of the later MC modules gives a set of *scenarios*: a behaviour starts by choosing one,
which says which calls it may contain and with what inputs. A scenario keeps together the
operations that can disturb each other, so that each instance is small enough to be searched
whole; all scenarios are checked in one run.

Every safety invariant and action property of the runs is proved, with the hypotheses section 11
gives; what stays with TLC alone is liveness and `NoStandstill`.

## 3. CrashGroups: symbolication and grouping

One *session* is a request or a worker task with its own database session. The state:

| Variable | In the code |
|---|---|
| `reports`, `groups` | committed rows of `crash_reports` and `crash_groups`, with the columns grouping reads or writes; a group is named by its signature, which is unique |
| `indexed` | the firmware versions for which `find_for_crash` finds a build |
| `objR`, `objG` | the objects in the session's identity map; of a group the values as last flushed and as they are now |
| `wR`, `wG` | rows the session has written and not committed; it holds their locks |
| `phase`, `job` | where the session stands in `symbolicate_report`, and its locals: the reports still to do, the current one, its target group, `previous_group_id` |
| `triage` | the PATCH of a group between its load and its commit |
| `received`, `deleted` | histories for the properties |

Three facts about the database and the ORM carry the model, and are stated as operators
of their own: a SELECT returns committed rows and the session's own (`ViewR`, `ViewG`; READ
COMMITTED is PostgreSQL's default and the engine sets no other); `flush()` writes the
columns whose value in memory differs from the loaded one, with the value computed in
memory (`Col`, `FlushedGroup`); and with `expire_on_commit=False` and `autoflush=False`
(`db/session.py:61-66`) an object stays as it was loaded, also over a commit.

The actions follow the code between two points where sessions can see each other:

| Action | Code |
|---|---|
| `Ingest` | `CrashService.ingest` from the insert to its commit; the session goes on with the object it has |
| `Symbolicate`, `Resymbolicate` | loading one report, or every report of a version, with their groups |
| `Resolve` | `find_for_crash`, frames and signature: the target group of the report, newest report first |
| `Lookup`, `Insert`, `InsertConflict`, `Touch` | `get_by_signature`; the insert of a missing group, which waits for another session's undecided insert of the same signature and then fails or goes on; the report's signature, which the same flush writes |
| `Move`, `FlushPrevious` | the report leaves a group: its row is written, the group it left is counted from the table and written |
| `Bump`, `File`, `Tally` | count, window, severity, versions and regression of the group it joins; the report's group; the distinct devices |
| `Commit` | the commit at the end of a report, or of a bulk run |
| `StaleReport`, `DeadlockVictim`, `Abort` | an UPDATE of a deleted report raises; PostgreSQL fails one session of a circle of waiters; the process dies or a statement fails. Each rolls back |
| `DeleteReport`, `TriageReport`, `TriageGroup`, `SaveTriage` | `CrashService.delete`, `CrashService.update`, `update_group` |
| `IndexBuild`, `DeleteBuild` | a build of a version becomes usable, or is gone |

`Ingest` is one action up to its commit although the code has several statements there: no
other session sees anything of the report before that commit. The steps before it (duplicate
check, device row) are those of `Ingestion` (section 7). A report's resolved frames
are abstracted to the signature they lead to, with a build and without one; of the two
PATCH endpoints the model keeps the fields grouping reads. Reports whose `occurred_at` is equal are
taken in either order. `triage` is a single request: two engineers who patch one group at
once are not modelled.

`GroupLedger` is the abstract specification: reports stand in groups, tallies are exact, a
resolved group regresses in the step that files a report in it. `CrashGroups` implements
it by the mapping `Ledger` when requests run one at a time (`KeepsLedger`).

Where code and text part, beside what `groups_delete`, `groups_race` and `groups_regress` show:
`CrashService.update` (`services/crash.py:349-352`) sets the severity of a filed report and
does not touch its group, although `models/crash_group.py:54` calls the group's column the
"highest severity seen across the group's occurrences" and `services/symbolication.py:332` says
that "a group carries the worst severity any of its occurrences reached". The group learns of it
only when the report is symbolicated again: a report and one PATCH are enough. `EvidenceCovered`
therefore claims of severity what grouping itself keeps, whatever engineers set: a step that files a
report leaves the group no less severe than the report is at that moment, and no step, not even a
recount, makes a group less severe (`WorstSeverityKept`). The stronger sentence, that a group's severity
is at no time below that of one of its reports, is false of the code.

## 4. BuildArtifacts: rows, symbols and files of a build

The model has one identity (firmware version, build version, type), because builds of
different identities share no row, symbol or file. A row and a set of symbols are named by
the upload that made them, in place of uuids; each upload is a different artifact.

| Variable | In the code |
|---|---|
| `rows`, `symbols` | committed `firmware_builds` and `build_symbols`; of a row the artifact (its sha256), the suffix of its path, its status |
| `files` | the artifact volume: `{build id}{suffix}`. Every change of it is final at once |
| `wrote`, `cut`, `added` | the row a session wrote, the symbols it deleted, those it inserted: uncommitted, and locked |
| `seen` | what a DELETE of symbols saw when it started. A DELETE that waited for another one deletes what is left of that, and nothing that was inserted meanwhile |
| `job` | `existing` or the new build, and the row as it was loaded |
| `uploaded`, `deletions`, `overlapped`, `failed` | histories: what engineers asked for, whether requests have overlapped, whether anything failed |

Upload is `Spool`, `Find` (`get_by_identity`), then either `Insert` and `Store`
(`_create_build`) or `Remove`, `Clear`, `Clearing`, `Store`, `Save` (`_replace_artifact`),
then `Index` and `Commit`. Deletion is `BeginDelete`, `Remove`, `Erase`, `Cascade`,
`Commit`. `SaveStale`, `InsertConflict`, `DeadlockVictim` and `Abort` roll the transaction
back and leave the volume as it is; `RemoveFails` is the unlink error the code logs and
ignores. The spooled temporary file is the request's own and is left out; so is
`file_size`, which nothing else reads. (In a replacement `services/build.py:274` reads it
from the temporary path after the file was moved away and an empty one was put there.)

## 5. Accounts: accounts, sessions, reset links

One *client* is a browser tab, or another user of the API; it has one call under way.

| Variable | In the code |
|---|---|
| `users` | `users`: email, whether an administrator, active, `failed_login_attempts`, `locked_until` |
| `tickets` | `refresh_tokens` and `password_reset_tokens`: both are rows that are good until they are spent (`revoked_at`, `used_at`) or lapse |
| `held` | the refresh token the tab has in memory (`tokenStore.ts`) |
| `job` | the request: the account as loaded, the values to write, which tickets a bulk UPDATE saw and has taken, the ticket it presented, what it issues |
| `origin`, `epoch`, `survivors`, `spends`, `failures`, `overlaps` | histories |

Each call loads and decides in the action with its name (`Register`, `Login`, `Refresh`,
`Logout`, `RequestPasswordReset`, `ResetPassword`, `ChangePassword`, `Create`, `Update`,
`UpdateOwnProfile`, `Delete`); then come its writes that others can wait for, `Scan` and
`Take` (the bulk revocations, and the flush of a rotated token), and `Finish`, the last flush
with the commit and the answer. `Abort` is a failing statement or a dying process.
`RefreshRejected` is the interceptor's answer to a 401 of the refresh; `OpenTab` is a second
tab, which reads the stored tokens and has its own single flight. `Lapse`, `LapseLock` and
`PurgeExpiredTokens` are time and the worker.

The properties name the races they except, and each exception is one TLC finds when it is
taken out: two refreshes that present one token at once both succeed; a session that was being
issued while the password changed survives it; concurrent failures are counted once; two
requests for a reset leave two links. What they claim is that nothing *else*, over any
sequence of calls, aborts and expiries, has these effects.

Where code and text part: signing out in the frontend (`AuthProvider.tsx`) sends no refresh
token, so that it revokes nothing, although `endpoints/auth.py:92` calls it "Revoke the
current session"; and two tabs share `localStorage` but not the memory in front of it
(`tokenStore.ts:14-15`), so that the tab which spends a token second signs both out.

## 6. Analysis: from payload and artifact to a signature

Pure algorithms, translated as operators, and a small machine that feeds them: `Upload`
(creating or replacing a row; a file the parser cannot read is refused, `Readable`), `Prune` (the file leaves the volume), `Receive` (a payload is
parsed, or rejected), `Symbolicate` (and again, against whatever builds there are by then).

| Module | Code |
|---|---|
| `ElfParser` | `ElfParser.parse`, `MapParser.parse_text`, what is stored of a symbol, `build_address_index`, `lookup_symbol` |
| `CrashParser` | field aliases, identifiers, addresses, registers, the stack dump, time stamps, severity and warnings |
| `Symbolizer` | `find_for_crash`, `Symbolizer.resolve`, the DWARF line table and its file names, `reconstruct_stack`, `build_signature`, `build_title` |

A file is a record of its tables, an address a small number, a function's name its source name
and the suffixes a compiler added; a payload is a function from keys to typed values, and what
Python reads in a text is the constant `Reading`. The reference definitions in the properties
are written from what the results mean, not from the algorithms: `FramesTruthful` looks in the
file's own symbol table, `ChainInOrder` says which addresses of the report belong in the
chain, `SameBugSameSignature` rebuilds the artifact at other addresses with cloned names.

`Addr2Line` is the external tool, if one is configured: one fixed answer per file and address, or
none. A tool that answers once and times out the next time is not modelled: it would add a
source line to a frame, or leave one out, and change nothing else.

What the model shows of the code, and the properties except:

- `load_symbols` (`repositories/build.py:151`) has no order. Two symbols of equal address and
  size (`Twins`: an interrupt handler and its weak alias) resolve to either name, so that
  repeating a symbolication may change the signature.
- `lookup_symbol` looks at the nearest start only: an address in a function behind a smaller
  symbol nested in it gets no name. `CoveredResolves` claims what holds for functions that
  neither overlap nor lie at zero.
- `MapParser` clears the Thumb bit of every address (`elf_parser.py:313`), while the lookup
  in a build without an architecture does not (`symbolication.py:186-188`): in a map,
  offsets of odd addresses are one too large.
- The line table has no upper bound: an address past the last row takes that row's line unless
  a sequence ended. `LinesOfOwnFunction` claims lines of functions that have rows.
- `find_for_crash` takes any build of the version as a last resort (lines 61-63), which point
  3 of its docstring rules out. The model follows the code.
- A stack start address that cannot be read, and a register given twice, are dropped without
  a warning; `DropsAreTold` speaks of the words, of unusable registers and of the three key
  addresses.

Two details are left out, and touch no property: names longer than 255 characters are cut when they
are stored (`repositories/build.py:137`), and `MAX_INDEXED_SYMBOLS` (`services/build.py:299`)
cuts a table that `elf_parser.MAX_SYMBOLS` has cut before at the same number, 200 000. A time stamp
past the last one a `datetime` holds (`LastInstant`) is no time, with a warning.

## 7. Devices and Ingestion: a crash report from the field

| Variable | In the code |
|---|---|
| `devices`, `keys` | `devices` (status; whether `last_online_at` is newer than the sweep's cutoff), `device_api_keys` |
| `reports` | `crash_reports`: device, crash, the place it is filed under (fault type and program counter), `occurred_at`, whether symbolicated, how often alerted |
| `policies` | the rows of `alert_settings` |
| `job` | the request on a connection: the device as loaded and as it will be written, the key, the crash, where it stands |
| `pending` | the crash a device keeps until it is answered |
| `parser` | its version |
| `faults`, `acked`, `seen` | histories; `acked` holds the answers of success, each with the report it names, until somebody deletes that report or the device |

A submission is `Send` (by a device's key) or `Submit` (on its behalf), then `TouchKey`,
`Reject` or `TouchLastOnline`, `FileDuplicate` or `FileNew`, `Store`, `SymbolicateReport`,
`AlertForCrash`, `Acknowledge`; `Fail` breaks it at any point, and what that means depends on
the point: before `Store` nothing is kept; after it the report is, without symbols or alert,
and the device gets an error and retries. The request holds the lock of the key's row from
`TouchKey` to its commit, and that of the device's row from `TouchLastOnline`. Beside it run
`Heartbeat`, `HeartbeatById`, `Configure`, `Register`, `Mint`, `Revoke`, `Remove` with its
cascades, `MarkStaleDevicesInactive`, `ReparseCrashReport` with an upgraded parser,
`UpdateSettings`, and `Discard` with `DeleteReport`, the deletion of a single report. Deletions of
reports are bounded together with the faults: an administrator who deletes each report between its
commit and its answer keeps a device waiting as long as he does so.

A crash has a set of `times`. One that carries its own time has one; one that does not takes the
time of receipt of each attempt (`services/crash.py:94-97`), so an attempt picks any of several.
The model lets a later attempt pick an earlier time, which only adds behaviours. Two attempts
of an undated crash further apart than the duplicate window are stored twice, in the code and in the model:
`OneReportPerCrash` is about reports within the window. `FileDuplicate` is the lookup and its
answer in one step, since what is found needs no further write.

`OneReportPerCrash` rests on a lock nobody wrote for it: `touch_last_online` is an UPDATE of
the device's row before the duplicate check, so a second submission of that device waits until
the first has committed. The mutant without it stores a retry twice. `AckMeansStored` is the
device's side: told that the crash was received, it may forget it, because the very report
the answer names stays until somebody deletes it or the device. `OperatorDecisionHolds`
rests on the flush of changed columns: a check-in that loaded an active device writes no status, so it
undoes nothing an operator set meanwhile; only one that loaded an inactive device does, and that is
excepted. `EventuallyAnswered` is
liveness under faults: they are bounded by the scenario, deadlocks (`Victim`) are not.

Where code and text part: after a failed symbolication the rollback expires the report object,
so `report.severity` of the alert and `report.id` of the log raise and the request ends in an
error, although `services/crash.py:179-180` says ingestion never fails because symbolication
did; the retry is a duplicate, and the report stays without symbols and alert until the worker
is asked for it. An ingest does not reactivate an inactive device, although the docstring of
`heartbeat` says it is "called on every crash submission". Two first saves of the alert settings
make two rows of a table documented as a single row, and `notify_on_regression` is stored
and read by nothing.

## 8. Chunking and Knowledge: documents and diagnoses

| Variable | In the code |
|---|---|
| `documents` | `documents` with their `document_chunks`: text, status, embedding model, passages |
| `crashes` | what a report says, as the set of its words; "f" is the function, known once it is symbolicated |
| `diagnoses` | `ai_diagnoses`: crash, sources, model, score, label |
| `embedder` | the configured embedding model |
| `job` | the upload or diagnosis under way |
| `shelf` | history: every passage that was ever indexed |

`Chunking` is `chunk_text` with its normalisation, its windows and boundaries, on texts as
sequences of letters, blanks, line ends and full stops. `Ingest`, `InsertDocument`,
`ChunkAndEmbed`, `RecordFailure` are an upload; `DiagnoseCrash`, `Retrieve`, `Conclude` a
diagnosis, with the embedding and the language model, which take seconds, between them.
An embedding depends on the set of words of a passage. What cosine a model gives two such sets is the
constant `Similarity`, of either sign, of which nothing is assumed but that it is at most one;
the run has values that are not whole at four decimals. Relevances, claims and scores are in millionths.
The model's claim is any of the scenario's; with none the template answers. `Redeploy` restarts the service with another embedding model.

Where code and text part: the next window starts "`overlap` characters back so a fact spanning
a boundary is retrievable from both chunks" (`chunking.py:51-52`), but never before the second
character of the last one (`chunking.py:94`), and `strip` cuts its blanks. With an overlap of
more than half a chunk, which line 61 lets pass, a short window is followed by one that starts
after a fact of the overlap's length: ". bcdd" in chunks of 4 with overlap 3 becomes ".", "bcd",
"bcdd", and no chunk has ". b". The shipped settings (1000 and 150) are far from that, and the
theorem `FactsAreKept` says that half a chunk is enough. A document whose indexing failed keeps its hash, so its upload is
refused (409) until it is deleted, and so is a document of a former embedding model, which
retrieval no longer sees. The confidence a model claims is taken as it is: a negative claim gives
a score below zero, although `models/diagnosis.py` says 0.0 to 1.0; `ConfidenceGrounded`
therefore bounds it from above. The score is stored rounded to four decimals
(`services/diagnosis.py:317`) beside a relevance that is not (line 269): a best passage of
0.61237 under a claim of 0.7 stores 0.6124. So the docstring's "never to raise it above what the retrieval
supports" (lines 287-288) holds up to that rounding, and `ConfidenceGrounded` claims it with `HalfOfLastDecimal`, 0.00005, for
grounded diagnoses; an uncertain one is not rounded and bounded exactly. The history `best` is what the property holds a diagnosis
against: the similarity of the best passage there was of the query's model, and `None`
when there was none to compare. The Chroma store's docstring says the service fills its
collection, and nothing writes it. `Conclude` stores nothing once `Diagnosis` is
used up: that set is a bound.

## 9. Runs

`tlc -config <cfg> <MC module>`; distinct states in parentheses.

| Run | Instance | Shows |
|---|---|---|
| `groups_serial` (1,163,778) | one session, 3 reports, 3 signatures, 2 firmware versions, 2 devices; triage to `resolved` and to severity 3; one version's build comes and goes; an abort anywhere; no deletion of reports | `TallyExact`, `EvidenceCovered`, `RegressionStamped`, of every step `ResolvedTakesNoReport`, and the refinement `KeepsLedger` |
| `groups_concurrent` (1,225,210) | two sessions, one with ingest and symbolicate, one with ingest and the bulk run; 2 reports that exchange groups when the build comes; deletions | `TypeOK`, `SignatureMatchesGroup`, `AcceptedReportsKept`, `NoStandstill` |
| `groups_delete` | as `groups_serial`, with deletions | `TallyExact` is violated: `delete` never recounts the group |
| `groups_race` | as `groups_concurrent`, without deletions | `TallyExact` is violated: an ingest and a bulk run count one report twice |
| `groups_regress` | as `groups_serial` | `RegressionNeedsNewReport` is violated: re-symbolicating an old report flips a resolved group |
| `builds` (88,784) | two sessions, 3 uploads of which two share a suffix and one has no symbols, 3 deletions, a build version | `OneBuildPerIdentity`, `NoOrphanSymbols`, `UsableHasItsSymbols`, and as long as requests have not overlapped `AloneOnlyItsSymbols`, `AloneVolumeExact`; liveness `RequestsEnd` |
| `builds_replaced` | the same | `OnlyItsSymbols` is violated: two replacements leave both symbol tables |
| `builds_identity` | the same, no build version | `OneBuildPerIdentity` is violated: two rows of one identity |
| `sessions` (216,519) | two tabs, 2 accounts, 3 tickets, one password change or deactivation, lock after 2 failures; 7 scenarios | `TypeOK`, `SpentOnce`, `OldSessionsOnlyByRace`, `LockoutExact`, `OneLiveLink`, and of every step `LockHolds` |
| `analysis` (49,095) | addresses 0..127, 8 artifacts (ARM, hosted, aliases, nested symbols, map, stripped, and one that is not an ELF and is refused), 2 stored at once, payloads with every alias and malformation | `TypeOK`, `FramesTruthful`, `CoveredResolves`, `ChainInOrder`, `LinesOfOwnFunction`, `SameBugSameSignature`, `DropsAreTold`, and of every two analyses `ReanalysisStable` |
| `ingestion` (102,533) | two connections, one device in the field and one to register, 2 keys, 3 reports, crashes in and out of the window and undated ones, a report deleted, at most 2 faults; 11 scenarios | `TypeOK`, `OneReportPerCrash`, `AckMeansStored`, `OneAlertPerReport`, of every step `OperatorDecisionHolds`, liveness `EventuallyAnswered` |
| `knowledge` (98,430) | every text of 4 letters and every one of 6 without outer blanks, in chunks of 4 with overlap 2; two connections, 2 documents, 2 diagnoses, 2 embedding models | `TypeOK`, `FactsStayWhole`, `ConfidenceGrounded`, `SourcesOnRecord` |

**Why the bounds are enough.** Grouping is about one report entering, staying in or leaving
a group; with three reports a group can be empty, hold one, and keep one when
another leaves, with the same or another device and version, and the newest-first order of a
bulk run matters. The signatures are chosen so that a build sends two reports together to
one group and a third to another, and takes them back when it goes. In the concurrent instance the two reports exchange
groups, which is the shortest way to two sessions that write two groups in opposite orders;
the deadlock victim, the unique conflict and the stale report all occur in it. Builds need two
sessions for every conflict of rows, symbols and keys, and a third upload for the one that comes
after it; deletions are bounded by `MaxDeletes`, uploads by the set `Upload`.

The scenarios of the later runs are in their MC modules. Sessions race in pairs, so two tabs
show each conflict; the third ticket is the one issued after the race. In ingestion
two connections of one device are the retry that overtakes its original; the second crash is at
the edge of the window, the third beyond it, and an undated one may fall on either side; the second device is needed only for
registration, since devices share no row. The texts of `knowledge` are all there are of
their length: a window, a boundary in each half of it, and a second window occur among them.
The addresses of `analysis` contain the first and last byte of a function, one past it, gaps,
Thumb bits and data.

**Why the two grouping instances differ.** Side by side the counters are not exact (that is
`groups_race`), so the properties about counters, windows and statuses are claimed for
requests that do not overlap, with every failure, and the properties that survive any
interleaving are claimed for requests that do. In `groups_serial` engineers raise
severities to 3, above what the parser gave some of the reports, so that moves and recounts meet reports more severe
than the group they leave.

**Symmetry** is not used: sessions, reports and versions differ in what they carry.

**Deadlock checking** is off where the system may really stop: in `groups_concurrent` once
every report was received and deleted, in the `builds` runs once the uploads and
deletions are used up, and in the later runs when a scenario's calls, tickets or reports are.

## 10. Fairness

`CrashGroups` and `Knowledge` state none, and neither does `Analysis`: what must not happen to waiting
sessions is stated as an invariant, `NoStandstill`, that while a session is open some session
can take a step.

`BuildArtifacts` and `Accounts` assume weak fairness of a running request's own steps: the
event loop resumes a coroutine whose database answer has come, and PostgreSQL grants a lock that
is free and fails one session of a circle. Engineers and failures are under no fairness, and
their requests are bounded, so no request can be starved by an endless row of others.

`Ingestion` needs more, because its connections are reused without end: a row that two of
them want is free again and again without staying so. It assumes strong fairness of a request's
steps (PostgreSQL grants a row lock in the order of arrival, so a waiter is not overtaken for
ever), of `TouchLastOnline` by itself (a request that may either go on or fail does not fail
for ever), weak fairness of the deadlock detector, and strong fairness of `Sends`: a device
with an unanswered crash and a good key sends again. Faults are bounded by the scenario.

## 11. Theorems

One module of proofs per component, a second one for grouping with requests one at a
time, and `DataLemmas` for what folds and selections over sequences compute. A theorem holds for every value of the constants: any
number of sessions, connections, clients, reports, uploads, devices and documents, and every
scenario of calls.

| Module | Theorem | Statement |
|---|---|---|
| `CrashGroupsProofs` | `TypeCorrect` | `Spec => []TypeOK` |
| | `SignaturesMatchGroups` | `Spec => []SignatureMatchesGroup` |
| | `AcceptedReportsAreKept` | `Spec => []AcceptedReportsKept` |
| `CrashGroupsSerialProofs` | `CountersExact` | `ASSUME OneAtATime, ~Deletes PROVE Spec => []TallyExact` |
| | `EvidenceKept` | `ASSUME OneAtATime PROVE Spec => EvidenceCovered`: window and versions always, severity at every step |
| | `StampsGo` | `ASSUME OneAtATime PROVE Spec => []RegressionStamped` |
| | `ResolvedRegresses` | `ASSUME OneAtATime PROVE Spec => ResolvedTakesNoReport`, an action property |
| | `LedgerKept` | `ASSUME OneAtATime, ~Deletes PROVE Spec => KeepsLedger`: `CrashGroups` implements `GroupLedger` |
| `BuildArtifactsProofs` | `TypeCorrect` | `Spec => []TypeOK` |
| | `UsableBuildsResolve` | `Spec => []UsableHasItsSymbols` |
| | `SymbolsGoWithTheirBuild` | `Spec => []NoOrphanSymbols` |
| | `OneBuildStays` | `ASSUME Versioned PROVE Spec => []OneBuildPerIdentity` |
| | `AloneSymbolsExact` | `Spec => []AloneOnlyItsSymbols` |
| | `AloneFilesExact` | `Spec => []AloneVolumeExact` |
| `IngestionProofs` | `TypeCorrect` | `Spec => []TypeOK` |
| | `RetriesAddNothing` | `Spec => []OneReportPerCrash` |
| | `AnsweredIsStored` | `Spec => []AckMeansStored` |
| | `OnePage` | `Spec => []OneAlertPerReport` |
| | `OperatorsDecide` | `Spec => OperatorDecisionHolds`, an action property |
| `AccountsProofs` | `TypeCorrect` | `Spec => []TypeOK` |
| | `ExchangedOnce` | `Spec => []SpentOnce` |
| | `NoOldSession` | `Spec => []OldSessionsOnlyByRace` |
| | `CounterCounts` | `Spec => []LockoutExact` |
| | `NewestLink` | `Spec => []OneLiveLink` |
| | `LocksHold` | `Spec => LockHolds`, an action property |
| `KnowledgeProofs` | `TypeCorrect` | `Spec => []TypeOK` |
| | `ClaimsStayGrounded` | `Spec => []ConfidenceGrounded` |
| | `CitedIsIndexed` | `Spec => []SourcesOnRecord` |
| | `WindowsOverlap` | the next window of `chunk_text` begins in or right after this one, and repeats no more than the overlap |
| | `FactsAreKept` | `ASSUME OverlapFits PROVE Spec => []FactsStayWhole` |
| `AnalysisProofs` | `TypeCorrect` | `Spec => []TypeOK` |
| | `NothingDroppedInSilence` | `Spec => []DropsAreTold` |
| | `ChainsInOrder` | `Spec => []ChainInOrder` |
| | `NamesAreTrue` | `Spec => []FramesTruthful` |
| | `NothingCoveredIsMissed` | `Spec => []CoveredResolves` |
| | `Repeatable` | `Spec => ReanalysisStable`, an action property |
| | `LinesAreOwn` | `ASSUME ToolAgrees PROVE Spec => []LinesOfOwnFunction` |
| | `SignaturesSurvive` | `ASSUME Relinks PROVE Spec => []SameBugSameSignature` |

The hypotheses are parameters of the models, and each is needed. `OneAtATime` lets a request
start only when none runs: `groups_race` shows `TallyExact` violated without it. `~Deletes`
leaves out deletions of reports: `groups_delete` shows it violated with them.
What triage may set is not restricted. `Versioned` in `OneBuildStays` is the case the property is about: an identity with a NULL in
it is outside PostgreSQL's unique key, and `builds_identity` shows the two rows.
`OverlapFits` says that the overlap is at most half a chunk; section 8 has the document that
loses a fact otherwise. `ToolAgrees` is about the external `addr2line`, which the code runs and
does not check: where it answers, it answers what the file's own line table says, or for an address
of a function at whose start the table has no row. `ADDR2LINE_BINARY` is unset by default, and then
there is no answer and nothing to assume. `Relinks` says which rebuilds are meant: code moves by
an even distance (an odd one would turn Thumb bits around), and a moved row is a row. TLC
finds `ToolAgrees` and `Relinks` true of the instance of `analysis`.

**The form of the proofs.** None of the properties is inductive. Each module defines layers
of invariants, and `IInv` (in `CrashGroupsProofs`, which
`CrashGroupsSerialProofs` builds on, and in `BuildArtifactsProofs` the theorems use the layers
they need); every layer was checked with TLC as an invariant of the passing run before it was
proved, in a module that extends the MC module and the module of proofs. A lemma says that a layer holds initially, a lemma per action or kind
of step that it is kept, and the temporal step is by PTL. An action property follows from the
invariant of the state the step starts in.

**CrashGroups.** The type of a flushed row depends on the objects
it is computed from being there. `ShapeInv` adds what a session has in hand in each phase
(the current report and its object from `lookup` on, the target group's object from
`touch` on, the group left while it moves) and that every group named anywhere in rows or
memory exists for the session that names it. `FilingInv` adds, for each report and session, that what
the session wrote or remembers of the report names the same signature and group
(`Matched`), except for the current report of a session that is between the flush of the
signature and the flush of the group (`Between`); a commit is only reached outside that
interval. `StoredInv` says that a session's uncommitted rows and commits only ever concern
reports that are still stored, because a flush of a deleted report raises and a deletion
waits for whoever holds the row.

**CrashGroups, one request at a time.** `SerialInv` says what "alone" buys: at most one session
is open, and none while a PATCH is (`Alone`), and what a session has in memory is what a
SELECT would return, except for the counters it has computed and not flushed yet (`Synced`, whose
parts `Located` and `Pending` say for each phase in which group the current report is filed
and which columns are ahead). On it stand four layers, each about the rows as the open
session sees them, so that a commit makes them true of the committed ones and a rollback needs
nothing. `TallyInv`: every group is counted right but the two a report is between,
and of those it says by how much they are off in each phase (`CountersFit`).
`EvidenceInv`: every group's window and versions cover its members but the one the current report has
joined and not yet widened, its severity those members the transaction files in it (`Covers`),
and no row the session has written is less severe than the committed one (`NotLowered`). `StampInv`: no
uncommitted row is stamped unless it is regressed. `StatusInv` follows each group from its committed
row to the uncommitted one: its status differs exactly if a report of this transaction was filed in it
(`Hit`) and it was new or resolved. The refinement
takes the reports the transaction wrote as the set `R` of `FileReports`, and their groups as its `target`;
tallies are exact by `CountersExact` and statuses by `StatusInv`, `SaveTriage` is
`SetStatus`, and all other steps leave `Ledger!vars` as they are.

**BuildArtifacts.** `ShapeInv` says what a request has loaded, written and holds at each of
its points. Shared by all requests: `SymbolInv` follows a replacement's symbols through
`cut` and `added` until its commit; `FreshInv` that a new build's id is known to its own
upload only; `RowLockInv` that a written row has one writer, and is stored unless it is being
created; `OrphanInv` that a deletion about to commit has every symbol its build has by then,
which needs the lock. `IdentityInv` is the unique key as a lock: while one session has
inserted the identity nobody else has. Requests alone: `AloneInv` says that what a lone request
has read is still so and that it deletes exactly the symbols its build had; `VolumeInv` where
on the volume the artifact is at each point.

**Ingestion.** `ShapeInv` ties a request to what it holds. `RowLockInv` is the heart:
two requests never both hold a device's row, from `TouchLastOnline` to the commit; so
`DuplicateInv` can say that what a request found missing is missing still when it stores,
except for a report the worker's parser has moved there meanwhile, which the property excepts
too. `OwnInv` says that a report a request names is the one it stored, with the place and time
it found missing, or is gone, never another of the same id; `AlertInv` that who may still alert for a report has not yet done so,
and is the only one.

**Accounts.** `ShapeInv` includes the rows a request will need (`TicketsOK`, `RequestsOK`).
`BoundInv` shows that the bounds leave room for everything under way. The other four are one
for each race the properties except. `SpendInv`: who presents a ticket is alone with it
as long as `overlaps` does not name it, and an exchanged ticket is spent. `EndInv`: a request
that ends sessions has seen, and then taken, every good session but the survivors; this
is what a property about the *past* of a session needs. `LinkInv` and `AttemptInv` say the same of
links, and that a login under way, alone, has loaded the counter as it is.

**Knowledge.** `ContentInv` is the unique hash across uploads under way. `ShelfInv` says that
what is stored, in hand or cited was indexed with the model it names. `ConfidenceInv` carries,
through the seconds the language model takes, that the sources at hand are judged by the best
passage there was; the lemmas behind it say that the `TopK` nearest passages contain the best
one whichever of equal ones are left out, and that rounding to four decimals adds at most half of
the last one (`RoundingError`).
`WindowsOverlap` is about one step of `chunk_text`: it rules out that it loops or skips a
character, for every `ChunkSize` and every smaller `ChunkOverlap`.

For `FactsAreKept`, `WholeInv` says of every stored document what the property does, and `UploadsInv`
that the text of an upload under way is not blank. The rest is about `chunk_text` as a whole: the
windows from every position on exist by recursion from the end of the text, and
backward induction over positions shows that a fact which starts after a window's start is
in that window or one of those that follow (`FactInWindow`). Where the window ends short of the
fact, the next one starts early enough, since a boundary is only accepted in the back half of a
window and the overlap is no longer than that half; and `strip` takes nothing of a fact,
which begins and ends with ink.

**Analysis.** The machine is small and the inductive invariant is too: each row is an upload,
with its file or without (`BuildsInv`), the report is its payload parsed (`ReportInv`), and the trace is
what one of the rows that can be used yields, for some order of its symbols (`TraceInv`; the
row may have been replaced since, so the trace keeps a copy). None of the properties is
inductive without it, as they speak of the file behind a stored frame, or of the payload behind
a report. The work is in the lemmas about the operators, for all inputs.

- *Parser*: a field's first alias with a value; an address that is stored is in the address
  space; a dump's words are the readable ones in order, cut at the limit, so that a shorter list
  than the tokens means a warning.
- *Symbols*: the reader's fold keeps every wanted symbol once, in the order of the table, as
  long as the limit is not reached (`Keeps`). `build_address_index` and `lookup_symbol`
  find the last symbol in the order of the index that starts at or below an address
  (`NearestExists`), and answer it if it covers the address. So a name found is code of the
  file that holds the address, and in a file without overlaps nothing is missed.
- *Chain*: the fold of `reconstruct_stack` yields, after n addresses, the frames at the
  *changes* of address among them, as far as the limit allows (`ChainUpTo`); the return addresses
  are the chosen positions of the dump in increasing order (`DataLemmas`).
- *Order of rows*: two arrangements of one list without twins give the same lookup
  everywhere, so the same frames and signature: `Repeatable`.
- *Rebuild*: a lookup at a moved address finds the moved symbol (`MovedLookup`), a word is a
  return address in the rebuild exactly if it was one and moved, so the chain is the old one
  shifted, and names differ in clone suffixes, which normalisation strips.

**Assumptions on the constants.** `None` and `Gone` are no rows and no ids; this is what they
are for. Beyond that:

| Assumption | What it says, and why |
|---|---|
| `ConstantsAssumption`, `NoneAssumption` (`CrashGroups`) | the set of reports is finite, so that counting them means something; the functions have their types; a status is not `None`, which the ledger shows for a group without a row |
| `BuildConstants` | types only |
| `IngestionConstants` | the duplicate window is a natural number (60 seconds in `repositories/crash.py:198`), faults are counted, the times a crash may bear are integers |
| `AccountConstants` | finitely many clients (their requests are counted), positive bounds and lock threshold (`MAX_FAILED_LOGIN_ATTEMPTS` is 5) |
| `AnalysisConstants` | bounds and readings are numbers, and so are what the tables of a file hold: addresses and sizes are unsigned there; a file's tables, a payload's lists and a text's words are finite sequences; a name is a source name with known suffixes. About files nothing else: symbols may overlap, lie anywhere, be cut, and come in any order |
| `ChunkAssumption`, `KnowledgeConstants` | the overlap is smaller than the chunk, or `chunk_text` raises (`chunking.py:61`); a cosine is between -1 and 1; thresholds and claims are integers of any sign; at least one passage is asked for (`RAG_TOP_K` is 6; `core/config.py` does not validate it, and with 0 every diagnosis would be uncertain) |

**Only model-checked.**

- Liveness (`RequestsEnd` of `BuildArtifacts`, `EventuallyAnswered` of `Ingestion`) under
  fairness, and `NoStandstill` of `CrashGroups`, which speaks of `ENABLED`: TLAPS reasons about
  neither here.

The library's induction and recursion theorems take an operator as parameter, which none of the
provers can instantiate. `DataLemmas` therefore proves both again with a *set* of numbers in place
of a predicate and a function in place of a step (`Induction`, `BackwardInduction`, `Recursion`),
from the well-foundedness of `<`, and from them what a fold over a sequence leaves (`FoldTable`,
`SelectRun`, `SelectPicks`). That is how properties of whole texts, stacks and symbol tables can
be proved here.

## 12. Not modelled

- Analytics, export and audit queries: read-only over rows the models have, or one insert per
  action; no state of theirs can go wrong over several steps.
- Email, configuration, logging, middleware, migrations, containers, proxy, pages: I/O and
  rendering. The unique keys and cascades of the schema are part of the models.
- Byte formats and text processing: pyelftools, the regular expressions of map files and
  prompts, JWT and password hashes, time zones. Their results enter the models as values of
  small sets.
- Tags of devices: two requests that both miss a tag insert it, and the second ends in an
  error; nothing else of a device depends on tags. Locations and descriptive columns.
- The rows of single alert recipients and their being read, mails, and the page limit of the
  bulk re-symbolication (the newest 500 reports, `services/symbolication.py:381`).
- SQLite, which the tests use: it has one writer at a time and shows none of the waits.
