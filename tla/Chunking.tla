------------------------------ MODULE Chunking ------------------------------
(***************************************************************************)
(* How the knowledge base cuts a document into passages.  A text is a       *)
(* sequence of characters; " " and "\n" are white, "." ends a sentence, any  *)
(* other is part of a word.  Offsets count from 0, as in the source.        *)
(***************************************************************************)
EXTENDS Selection, FiniteSets

CONSTANTS
    ChunkSize,      \* CHUNK_SIZE
    ChunkOverlap    \* CHUNK_OVERLAP

ASSUME ChunkAssumption == ChunkSize \in Nat /\ ChunkOverlap \in 0..ChunkSize - 1

White == {" ", "\n"}

Latest(S) == IF S = {} THEN -1 ELSE CHOOSE i \in S : \A j \in S : j <= i

Ink(t) == {i \in DOMAIN t : t[i] \notin White}

\* Spaces before a line's end go, blank lines collapse into one, the ends are stripped.
NormalizeText(t) ==
    LET Kept(i) ==
            \/ i \in Ink(t)
            \/ /\ t[i] = " " /\ \E j \in Ink(t) : j < i
               /\ \E j \in Ink(t) : i < j /\ \A k \in i..j : t[k] # "\n"
            \/ /\ t[i] = "\n" /\ \E j \in Ink(t) : i < j
               /\ \E j \in Ink(t) : j < i /\ Cardinality({k \in j..i : t[k] = "\n"}) <= 2
                                          /\ \A k \in j+1..i : k \notin Ink(t)
    IN  [n \in 1..Cardinality({i \in DOMAIN t : Kept(i)}) |->
            t[CHOOSE i \in DOMAIN t : Kept(i) /\ Cardinality({j \in 1..i : Kept(j)}) = n]]

\* Where a window may best end: at its last paragraph break, else after its last
\* sentence, else at its last space, if that is in its back half; else nowhere (0).
LastBoundary(w) ==
    LET half == Len(w) \div 2
        paragraph == Latest({i \in 0..Len(w) - 2 : w[i+1] = "\n" /\ w[i+2] = "\n"})
        sentence == Latest({e \in 2..Len(w) :
                        /\ w[e] \in White /\ (e < Len(w) => w[e+1] \notin White)
                        /\ \E s \in 1..e-1 : w[s] = "." /\ \A k \in s+1..e : w[k] \in White})
        space == Latest({i \in 0..Len(w) - 1 : w[i+1] = " "})
    IN  CASE paragraph >= half -> paragraph
          [] paragraph < half /\ sentence >= half -> sentence
          [] paragraph < half /\ sentence < half /\ space >= half -> space
          [] OTHER -> 0

EndOfWindow(t, start) ==
    LET full == start + ChunkSize
        boundary == LastBoundary(SubSeq(t, start + 1, full))
    IN  CASE full >= Len(t) -> Len(t)
          [] full < Len(t) /\ boundary > 0 -> start + boundary
          [] OTHER -> full

\* Mutant of NextStart: the next window starts where this one ends.
NextStartAfter(start, end) == end

NextStart(start, end) ==
    IF end - ChunkOverlap > start + 1 THEN end - ChunkOverlap ELSE start + 1

Blankless(t, w) == \E i \in w.from + 1..w.to : t[i] \notin White

\* The windows of a text, from offset from to offset to; one of white only is no chunk.
ChunkText(t) ==
    LET windows[start \in 0..Len(t)] ==
            LET end == EndOfWindow(t, start)
            IN  <<[from |-> start, to |-> end]>>
                \o (IF end >= Len(t) THEN <<>> ELSE windows[NextStart(start, end)])
    IN  IF t = <<>> THEN <<>> ELSE Select(windows[0], {w \in ToSet(windows[0]) : Blankless(t, w)})
=============================================================================
