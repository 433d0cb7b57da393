------------------------- MODULE MCBuildArtifacts -------------------------
(* Small instances of BuildArtifacts.                                      *)
EXTENDS BuildArtifacts

CONSTANTS t1, t2, u1, u2, u3, elf, axf

\* A replacement may change the suffix; the third artifact comes with the suffix
\* of the first and has no symbols.
MixedSuffix == [a \in Upload |-> IF a = u2 THEN axf ELSE elf]
=============================================================================
