----------------------------- MODULE MCOrderStore -----------------------------
EXTENDS OrderStore, TLC

CONSTANTS r1, r2, r3, A, B, C

\* r3 asks for a version no mapping covers
OneUnmapped == {r3}
NoneUnmapped == {}

\* The calls that can be answered are interchangeable, and so are identifiers
Interchangeable == Permutations({r1, r2}) \cup Permutations({A, B, C})
================================================================================
