--------------------------- MODULE MCCrashGroups ---------------------------
(* Small instances of CrashGroups.                                         *)
EXTENDS CrashGroups

CONSTANTS t1, t2, r1, r2, r3, f1, f2, d1, d2, raw, sym, other

\* One session that carries every kind of request.
AllRequests == [t \in Session |-> RequestKind]

\* One report at a time beside another device's report or the worker's bulk task.
MixedRequests == [t \in Session |-> IF t = t1 THEN {"ingest", "symbolicate"}
                                    ELSE {"ingest", "resymbolicate"}]

\* Three reports of two devices.  r1 and r2 share a firmware version and, once
\* a build is indexed, a signature; r3 has the other version and the signature
\* that r1 and r2 share without a build.
SerialFirmware == [r \in Report |-> IF r = r3 THEN f2 ELSE f1]
SerialDevice == [r \in Report |-> IF r = r2 THEN d2 ELSE d1]
SerialTime == [r \in Report |-> IF r = r1 THEN 2 ELSE IF r = r2 THEN 1 ELSE 3]
SerialSeverity == [r \in Report |-> IF r = r2 THEN 3 ELSE 1]
SerialRaw == [r \in Report |-> raw]
SerialSym == [r \in Report |-> IF r = r3 THEN other ELSE sym]

\* Two reports of one device and firmware version that exchange groups when the
\* build comes: the raw signature of each is the symbolized one of the other.
RaceFirmware == [r \in Report |-> f1]
RaceDevice == [r \in Report |-> d1]
RaceTime == [r \in Report |-> 1]
RaceSeverity == [r \in Report |-> IF r = r1 THEN 0 ELSE 1]
RaceRaw == [r \in Report |-> IF r = r1 THEN raw ELSE sym]
RaceSym == [r \in Report |-> IF r = r1 THEN sym ELSE raw]
=============================================================================
