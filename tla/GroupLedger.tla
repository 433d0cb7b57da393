---------------------------- MODULE GroupLedger ----------------------------
(***************************************************************************)
(* What crash grouping promises, without sessions, locks or objects: every *)
(* stored report stands in at most one group, a group's tally is the       *)
(* number of reports that stand in it, and a group marked resolved regresses *)
(* in the very step that files a report in it.                             *)
(***************************************************************************)
EXTENDS Integers, FiniteSets

CONSTANTS Report, Sig, GroupStatus, None

VARIABLES
    place,     \* Report -> the group the report stands in, or None
    tally,     \* Sig -> how many reports the group says it has
    status     \* Sig -> the group's status, or None before its first report

vars == <<place, tally, status>>

Members(s) == {r \in Report : place[r] = s}

Init ==
    /\ place = [r \in Report |-> None]
    /\ tally = [s \in Sig |-> 0]
    /\ status = [s \in Sig |-> None]

\* One request files a set of reports, each in one group; a report that is filed
\* again may stay where it is or move.
FileReports(R) ==
    \E target \in [R -> Sig] :
        /\ place' = [r \in Report |-> IF r \in R THEN target[r] ELSE place[r]]
        /\ tally' = [s \in Sig |-> Cardinality(Members(s)')]
        /\ status' = [s \in Sig |->
              IF \A r \in R : target[r] # s THEN status[s]
              ELSE IF status[s] = None THEN "open"
              ELSE IF status[s] = "resolved" THEN "regressed"
              ELSE status[s]]

\* An engineer sets the status of a group that exists.
SetStatus(s, v) ==
    /\ status[s] # None
    /\ status' = [status EXCEPT ![s] = v]
    /\ UNCHANGED <<place, tally>>

Next ==
    \/ \E R \in SUBSET Report : R # {} /\ FileReports(R)
    \/ \E s \in Sig, v \in GroupStatus : SetStatus(s, v)

Spec == Init /\ [][Next]_vars
=============================================================================
