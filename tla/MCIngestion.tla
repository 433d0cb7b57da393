---------------------------- MODULE MCIngestion -----------------------------
(* A small instance of Ingestion: one device in the field, one to register.  *)
EXTENDS Ingestion

CONSTANTS d1, d2, here, there

At0 == [site |-> here, reparsed |-> here, times |-> {0}, severity |-> 3, valid |-> TRUE]
Again == [At0 EXCEPT !.times = {1}]
Later == [At0 EXCEPT !.times = {3}, !.severity = 1, !.reparsed = there]
Elsewhere == [At0 EXCEPT !.site = there, !.reparsed = there]
Undated == [At0 EXCEPT !.times = {0, 3}]
Garbled == [At0 EXCEPT !.valid = FALSE, !.site = there]

Of(calls, crashes, number) ==
    [calls |-> calls, crashes |-> crashes, faults |-> number, absent |-> {d2}]

\* Retries and faults; deletion and revocation; check-ins against operators and the
\* sweep; payloads without a time; deletion of a report; a new parser; the policy; new
\* devices and keys.
Scenarios == {
    Of({"ingest"}, {At0, Again}, 2),
    Of({"ingest", "submit"}, {At0, Elsewhere}, 0),
    Of({"ingest", "submit", "remove"}, {At0}, 1),
    Of({"ingest", "heartbeat", "revoke"}, {Garbled}, 0),
    Of({"heartbeat", "configure", "sweep"}, {}, 0),
    Of({"heartbeat", "configure", "remove"}, {}, 0),
    Of({"ingest"}, {Undated}, 1),
    Of({"ingest", "discard"}, {At0}, 1),
    Of({"ingest", "reparse"}, {At0, Later}, 0),
    Of({"ingest", "policy"}, {Later}, 0),
    Of({"register", "mint", "remove"}, {}, 0)}
=============================================================================
