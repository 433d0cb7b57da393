---------------------------- MODULE MCKnowledge -----------------------------
(* Small instances of Knowledge: every short text alone; a few together.     *)
EXTENDS Knowledge

ShortText == UNION {[1..n -> {"a", " ", ".", "\n"}] : n \in 0..4}
LongText == {t \in [1..6 -> {"a", " ", ".", "\n"}] : {1, 6} \subseteq Ink(t)}
Fault == <<"a", ".">>
Function == <<"a", "f", "b", " ", "b", "a", "b">>
Offtopic == <<"b", "b">>

\* A text is the direction of its words.  The hashing model puts "b" and "f" in one
\* bucket, with opposite signs; the other has a dimension for each word.
Directions == [hashing |-> [a |-> <<1, 0, 0>>, b |-> <<0, 1, 0>>, f |-> <<0, -1, 0>>],
               openai  |-> [a |-> <<1, 0, 0>>, b |-> <<0, 1, 0>>, f |-> <<0, 0, 1>>]]
Vector(m, W) == [i \in 1..3 |-> FoldSet(LAMBDA w, sum : sum + Directions[m][w][i], 0, W)]

\* Billionths, and rounded to millionths; a zero vector is like nothing.
InverseRoot == [n \in {1, 2, 3, 4, 6, 9} |->
    CASE n = 1 -> 1000000000 [] n = 2 -> 707106781 [] n = 3 -> 577350269
      [] n = 4 -> 500000000  [] n = 6 -> 408248290 [] n = 9 -> 333333333]
Dot(v, w) == v[1] * w[1] + v[2] * w[2] + v[3] * w[3]
CosineOf(v, w) ==
    LET norms == Dot(v, v) * Dot(w, w) IN
    IF norms = 0 THEN 0 ELSE (Dot(v, w) * InverseRoot[norms] + 500) \div 1000
Cosine == [m \in {"hashing", "openai"} |-> [V \in SUBSET Word |-> [W \in SUBSET Word |->
              CosineOf(Vector(m, V), Vector(m, W))]]]

Of(calls, texts, claims, models) ==
    [calls |-> calls, texts |-> texts, claims |-> claims, models |-> models]

\* The chunking; uploads against each other and failures; diagnoses by the template
\* and by a remote model; a change of the embedding model.
Scenarios ==
    {Of({"ingest"}, {t}, {}, {"hashing"}) : t \in ShortText \cup LongText} \cup {
    Of({"ingest", "failure", "delete"}, {Fault, Function}, {}, {"hashing", "openai"}),
    Of({"ingest", "diagnose", "delete"}, {Fault, Offtopic}, {}, {"hashing"}),
    Of({"ingest", "diagnose"}, {Fault, Function}, {None, -1000000, 400000, 3000000}, {"openai"}),
    Of({"ingest", "diagnose", "failure"}, {Fault}, {}, {"hashing", "openai"})}
=============================================================================
