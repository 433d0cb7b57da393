--------------------------- MODULE BuildArtifacts ---------------------------
(***************************************************************************)
(* Firmware builds: a row, its symbol table and its artifact file.         *)
(*                                                                         *)
(* BuildService keeps the three together for one identity, the triple      *)
(* (firmware version, build version, artifact type).  The row and the      *)
(* symbols are in the database, in one transaction per request; the file   *)
(* is on a volume, where every change is final at once.  Requests run side *)
(* by side, as in CrashGroups: a SELECT sees committed rows, a DELETE sees *)
(* the rows committed when it started, and a write waits for the session   *)
(* that wrote the row before.                                              *)
(*                                                                         *)
(* A build's row is named by the upload that creates it (uuid4 in the      *)
(* code), and so is the set of symbols an upload inserts.                  *)
(***************************************************************************)
EXTENDS Naturals, FiniteSets

CONSTANTS
    Session,
    Upload,        \* artifacts that engineers upload, each once
    Suffix,        \* file suffixes; a build's file is named by its id and suffix
    SuffixOf,      \* Upload -> Suffix
    HasSymbols,    \* uploads whose symbol table is not empty
    Versioned,     \* whether the identity has a build version (else it is NULL)
    MaxDeletes,    \* bound: how many deletions engineers ask for
    None, Gone

Status == {"indexing", "indexed", "failed"}

Row == [art : Upload, suffix : Suffix \cup {None}, status : Status]

ASSUME BuildConstants ==
    /\ SuffixOf \in [Upload -> Suffix]
    /\ HasSymbols \subseteq Upload
    /\ Versioned \in BOOLEAN
    /\ MaxDeletes \in Nat
    /\ None \notin Upload \cup Suffix \cup Row
    /\ Gone \notin Row \cup {None}

VARIABLES
    rows,        \* table firmware_builds
    symbols,     \* table build_symbols: the uploads whose symbols a build has
    files,       \* the artifact volume: file of a build under a suffix
    phase, job,
    wrote,       \* the row a session wrote and has not committed; it locks it
    seen,        \* symbols a session's DELETE found when it started
    cut,         \* symbols the session deleted and has not committed; locked
    added,       \* symbols it inserted and has not committed
    uploaded,    \* history: uploads that were started
    deletions,   \* history: how many deletions were
    overlapped,  \* history: two requests have run side by side
    failed       \* history: a request, or the volume, has failed

tables == <<rows, symbols>>
writes == <<wrote, seen, cut, added>>
histories == <<uploaded, deletions, overlapped, failed>>
vars == <<rows, symbols, files, phase, job, writes, histories>>

Phase == {"idle", "find", "insert", "remove", "clear", "clearing", "store",
          "save", "index", "erase", "cascade", "commit"}

Job == [art : Upload \cup {None}, build : Upload \cup {None},
        loaded : Row \cup {None}, deletes : BOOLEAN]

NoJob == [art |-> None, build |-> None, loaded |-> None, deletes |-> FALSE]

\* A committed row is never half indexed and always names its file.
TypeOK ==
    /\ rows \in [Upload -> [art : Upload, suffix : Suffix, status : {"indexed", "failed"}]
                               \cup {None}]
    /\ symbols \in [Upload -> SUBSET Upload]
    /\ files \in [Upload -> [Suffix -> Upload \cup {None}]]
    /\ phase \in [Session -> Phase]
    /\ job \in [Session -> Job]
    /\ wrote \in [Session -> Row \cup {Gone, None}]
    /\ seen \in [Session -> SUBSET Upload]
    /\ cut \in [Session -> SUBSET Upload]
    /\ added \in [Session -> SUBSET Upload]
    /\ uploaded \in SUBSET Upload
    /\ deletions \in 0..MaxDeletes
    /\ overlapped \in BOOLEAN
    /\ failed \in BOOLEAN

Init ==
    /\ rows = [b \in Upload |-> None]
    /\ symbols = [b \in Upload |-> {}]
    /\ files = [b \in Upload |-> [s \in Suffix |-> None]]
    /\ phase = [t \in Session |-> "idle"]
    /\ job = [t \in Session |-> NoJob]
    /\ wrote = [t \in Session |-> None]
    /\ seen = [t \in Session |-> {}]
    /\ cut = [t \in Session |-> {}]
    /\ added = [t \in Session |-> {}]
    /\ uploaded = {}
    /\ deletions = 0
    /\ overlapped = FALSE
    /\ failed = FALSE

-----------------------------------------------------------------------------
(* The database and the volume.                                            *)

Others(t) == Session \ {t}

\* The sessions that hold the row of build b, or symbols of it.
RowHolders(t, b) == {u \in Others(t) : job[u].build = b /\ wrote[u] # None}
SymbolHolders(t, b, S) == {u \in Others(t) : job[u].build = b /\ cut[u] \cap S # {}}

\* The sessions whose undecided INSERT or DELETE the unique key waits for.
\* SQL does not compare NULLs, so it keeps nobody from a second unversioned row.
KeyHolders(t) ==
    IF Versioned
    THEN {u \in Others(t) : wrote[u] # None /\ (wrote[u] = Gone \/ rows[job[u].build] = None)}
    ELSE {}

\* Mutant of KeyTaken: the unique constraint is missing.
KeyTakenNever == FALSE

KeyTaken == Versioned /\ \E b \in Upload : rows[b] # None

EndTransaction(t) ==
    /\ wrote' = [wrote EXCEPT ![t] = None]
    /\ seen' = [seen EXCEPT ![t] = {}]
    /\ cut' = [cut EXCEPT ![t] = {}]
    /\ added' = [added EXCEPT ![t] = {}]

End(t) ==
    /\ phase' = [phase EXCEPT ![t] = "idle"]
    /\ job' = [job EXCEPT ![t] = NoJob]
    /\ EndTransaction(t)

\* The request raises or the process dies: the transaction is rolled back, and what
\* the request did to the volume stays.
Fail(t) ==
    /\ End(t)
    /\ failed' = TRUE
    /\ UNCHANGED <<tables, files, uploaded, deletions, overlapped>>

Starts(t) == overlapped' = (overlapped \/ \E u \in Session : phase[u] # "idle")

-----------------------------------------------------------------------------
(* Upload.                                                                 *)

\* _spool_to_disk and the parse.  The spooled file is the request's own, and the
\* finally of upload removes it; it is left out.
Spool(t, a) ==
    /\ phase[t] = "idle"
    /\ a \notin uploaded
    /\ uploaded' = uploaded \cup {a}
    /\ job' = [job EXCEPT ![t] = [NoJob EXCEPT !.art = a]]
    /\ phase' = [phase EXCEPT ![t] = "find"]
    /\ Starts(t)
    /\ UNCHANGED <<tables, files, writes, deletions, failed>>

\* get_by_identity: any row of the identity.
Find(t) ==
    /\ phase[t] = "find"
    /\ IF \A b \in Upload : rows[b] = None
       THEN /\ job' = [job EXCEPT ![t].build = job[t].art]
            /\ phase' = [phase EXCEPT ![t] = "insert"]
       ELSE /\ \E b \in Upload :
                  /\ rows[b] # None
                  /\ job' = [job EXCEPT ![t].build = b, ![t].loaded = rows[b]]
            /\ phase' = [phase EXCEPT ![t] = "remove"]
    /\ UNCHANGED <<tables, files, writes, histories>>

\* _create_build inserts the row before it knows the path of the file.
Insert(t) ==
    /\ phase[t] = "insert"
    /\ KeyHolders(t) = {}
    /\ ~ KeyTaken
    /\ wrote' = [wrote EXCEPT ![t] = [art |-> job[t].art, suffix |-> None, status |-> "indexing"]]
    /\ phase' = [phase EXCEPT ![t] = "store"]
    /\ UNCHANGED <<tables, files, job, seen, cut, added, histories>>

\* Mutant of InsertConflict: the insert is tried again and again.
InsertRetry(t) ==
    /\ phase[t] = "insert"
    /\ KeyHolders(t) = {}
    /\ KeyTaken
    /\ UNCHANGED vars

\* Another request created the build first: unique violation.
InsertConflict(t) ==
    /\ phase[t] = "insert"
    /\ KeyHolders(t) = {}
    /\ KeyTaken
    /\ Fail(t)

\* Mutant of WithoutFile: the old file is left on the volume.
WithFile(b, s) == files

WithoutFile(b, s) == [files EXCEPT ![b][s] = None]

\* _remove_stored_file, of a replaced and of a deleted build.
Remove(t) ==
    /\ phase[t] = "remove"
    /\ files' = WithoutFile(job[t].build, job[t].loaded.suffix)
    /\ phase' = [phase EXCEPT ![t] = IF job[t].deletes THEN "erase" ELSE "clear"]
    /\ UNCHANGED <<tables, job, writes, histories>>

\* The volume refuses: the code logs it and goes on.
RemoveFails(t) ==
    /\ phase[t] = "remove"
    /\ phase' = [phase EXCEPT ![t] = IF job[t].deletes THEN "erase" ELSE "clear"]
    /\ failed' = TRUE
    /\ UNCHANGED <<tables, files, job, writes, uploaded, deletions, overlapped>>

\* Mutant of Found: the symbols of the old artifact are not deleted.
FoundNothing(b) == {}

Found(b) == symbols[b]

\* delete_for_build: the DELETE starts ...
Clear(t) ==
    /\ phase[t] = "clear"
    /\ seen' = [seen EXCEPT ![t] = Found(job[t].build)]
    /\ phase' = [phase EXCEPT ![t] = "clearing"]
    /\ UNCHANGED <<tables, files, job, wrote, cut, added, histories>>

\* ... waits for whoever deletes the same rows, and deletes what is left of them.
Clearing(t) ==
    LET b == job[t].build
    IN  /\ phase[t] = "clearing"
        /\ SymbolHolders(t, b, seen[t]) = {}
        /\ cut' = [cut EXCEPT ![t] = seen[t] \cap symbols[b]]
        /\ phase' = [phase EXCEPT ![t] = "store"]
        /\ UNCHANGED <<tables, files, job, wrote, seen, added, histories>>

\* _store_artifact moves the spooled file to its place, over what is there.
Store(t) ==
    LET a == job[t].art
    IN  /\ phase[t] = "store"
        /\ files' = [files EXCEPT ![job[t].build][SuffixOf[a]] = a]
        /\ phase' = [phase EXCEPT ![t] = IF job[t].loaded = None THEN "index" ELSE "save"]
        /\ UNCHANGED <<tables, job, writes, histories>>

\* The path is written only if it differs from the one that was loaded.
SavedSuffix(t, a) ==
    IF SuffixOf[a] # job[t].loaded.suffix THEN SuffixOf[a] ELSE rows[job[t].build].suffix

\* _replace_artifact flushes the row.
Save(t) ==
    LET a == job[t].art
    IN  /\ phase[t] = "save"
        /\ RowHolders(t, job[t].build) = {}
        /\ rows[job[t].build] # None
        /\ wrote' = [wrote EXCEPT ![t] = [art |-> a, suffix |-> SavedSuffix(t, a),
                                            status |-> "indexing"]]
        /\ phase' = [phase EXCEPT ![t] = "index"]
        /\ UNCHANGED <<tables, files, job, seen, cut, added, histories>>

\* The UPDATE matches no row: the build was deleted meanwhile.
SaveStale(t) ==
    /\ phase[t] = "save"
    /\ RowHolders(t, job[t].build) = {}
    /\ rows[job[t].build] = None
    /\ Fail(t)

\* Mutant of PathOf: a created row keeps the empty path it was inserted with.
PathInserted(t) == wrote[t].suffix

PathOf(t) == IF job[t].loaded = None THEN SuffixOf[job[t].art] ELSE wrote[t].suffix

\* Mutant of StatusOf: a build is usable whatever its artifact held.
StatusIndexed(a) == "indexed"

StatusOf(a) == IF a \in HasSymbols THEN "indexed" ELSE "failed"

\* _index_symbols: the symbols, then the row.
Index(t) ==
    LET a == job[t].art
    IN  /\ phase[t] = "index"
        /\ added' = [added EXCEPT ![t] = {a} \cap HasSymbols]
        /\ wrote' = [wrote EXCEPT ![t].suffix = PathOf(t), ![t].status = StatusOf(a)]
        /\ phase' = [phase EXCEPT ![t] = "commit"]
        /\ UNCHANGED <<tables, files, job, seen, cut, histories>>

-----------------------------------------------------------------------------
(* Delete, and the end of every request.                                   *)

BeginDelete(t, b) ==
    /\ phase[t] = "idle"
    /\ rows[b] # None
    /\ deletions < MaxDeletes
    /\ deletions' = deletions + 1
    /\ job' = [job EXCEPT ![t] = [art |-> None, build |-> b, loaded |-> rows[b], deletes |-> TRUE]]
    /\ phase' = [phase EXCEPT ![t] = "remove"]
    /\ Starts(t)
    /\ UNCHANGED <<tables, files, writes, uploaded, failed>>

\* The DELETE of the row.  If another request deleted it first this one goes on.
Erase(t) ==
    LET b == job[t].build
    IN  /\ phase[t] = "erase"
        /\ RowHolders(t, b) = {}
        /\ wrote' = [wrote EXCEPT ![t] = IF rows[b] = None THEN None ELSE Gone]
        /\ phase' = [phase EXCEPT ![t] = IF rows[b] = None THEN "commit" ELSE "cascade"]
        /\ UNCHANGED <<tables, files, job, seen, cut, added, histories>>

\* Mutant of Cascaded: the symbols stay when their build goes.
CascadedNot(b) == {}

Cascaded(b) == symbols[b]

\* ON DELETE CASCADE: the statement then deletes the symbols the build has now.
Cascade(t) ==
    LET b == job[t].build
    IN  /\ phase[t] = "cascade"
        /\ SymbolHolders(t, b, symbols[b]) = {}
        /\ cut' = [cut EXCEPT ![t] = Cascaded(b)]
        /\ phase' = [phase EXCEPT ![t] = "commit"]
        /\ UNCHANGED <<tables, files, job, wrote, seen, added, histories>>

Commit(t) ==
    LET b == job[t].build
    IN  /\ phase[t] = "commit"
        /\ rows' = [rows EXCEPT ![b] = CASE wrote[t] = Gone -> None
                                         [] wrote[t] = None -> @
                                         [] OTHER -> wrote[t]]
        /\ symbols' = [symbols EXCEPT ![b] = (@ \ cut[t]) \cup added[t]]
        /\ End(t)
        /\ UNCHANGED <<files, histories>>

\* A failure, at any point of a request.
Abort(t) ==
    /\ phase[t] # "idle"
    /\ Fail(t)

WaitsFor(t) ==
    LET b == job[t].build
    IN  CASE phase[t] = "insert" -> KeyHolders(t)
          [] phase[t] = "clearing" -> SymbolHolders(t, b, seen[t])
          [] phase[t] \in {"save", "erase"} -> RowHolders(t, b)
          [] phase[t] = "cascade" -> SymbolHolders(t, b, symbols[b])
          [] OTHER -> {}

DeadlockVictim(t) ==
    /\ \E circle \in SUBSET Session :
          /\ t \in circle
          /\ \A u \in circle : WaitsFor(u) \cap circle # {}
    /\ Fail(t)

-----------------------------------------------------------------------------
Advance(t) ==
    \/ Find(t)
    \/ Insert(t)
    \/ InsertConflict(t)
    \/ Remove(t)
    \/ Clear(t)
    \/ Clearing(t)
    \/ Store(t)
    \/ Save(t)
    \/ SaveStale(t)
    \/ Index(t)
    \/ Erase(t)
    \/ Cascade(t)
    \/ Commit(t)
    \/ DeadlockVictim(t)

Next ==
    \/ \E t \in Session, a \in Upload : Spool(t, a)
    \/ \E t \in Session, b \in Upload : BeginDelete(t, b)
    \/ \E t \in Session : Advance(t)
    \/ \E t \in Session : RemoveFails(t)
    \/ \E t \in Session : Abort(t)

\* A request that is running goes on by itself: the event loop resumes it, and the
\* database grants a lock once it is free.  Nothing is assumed of engineers.
Fairness == \A t \in Session : WF_vars(Advance(t))

Spec == Init /\ [][Next]_vars /\ Fairness

-----------------------------------------------------------------------------
(* What the build registry promises.                                       *)

\* "One artifact per (firmware, build, type)", also when two uploads of a new
\* identity both find no row to replace.
OneBuildPerIdentity ==
    \A b, c \in Upload : rows[b] # None /\ rows[c] # None => b = c

\* Symbols belong to a stored build: a deletion takes with it the symbols of an
\* upload that replaced the artifact while the deletion was waiting.
NoOrphanSymbols == \A b \in Upload : symbols[b] # {} => rows[b] # None

\* A build find_for_crash would use has the symbols of the artifact its row names,
\* whoever else replaced it meanwhile and whatever failed.
UsableHasItsSymbols ==
    \A b \in Upload : rows[b] # None =>
        (rows[b].status = "indexed" <=> rows[b].art \in symbols[b])

\* "Keeping both would make symbolization ambiguous": a build has the symbols of
\* no artifact but its own.
OnlyItsSymbols ==
    \A b \in Upload : rows[b] # None => symbols[b] \subseteq {rows[b].art}

\* Until requests overlap that holds, through replacements and failures.
AloneOnlyItsSymbols == ~ overlapped => OnlyItsSymbols

\* And until one fails, the volume holds exactly the artifacts of the rows
\* whenever nothing runs: a replaced artifact leaves no file under its old suffix.
AloneVolumeExact ==
    ~ overlapped /\ ~ failed /\ (\A t \in Session : phase[t] = "idle") =>
        \A b \in Upload, s \in Suffix :
            files[b][s] = IF rows[b] # None /\ rows[b].suffix = s THEN rows[b].art ELSE None

\* Every request that does not fail comes to its end, whatever it waits for.
RequestsEnd == \A t \in Session : phase[t] # "idle" ~> phase[t] = "idle"
=============================================================================
