------------------------------ MODULE MCBufferPool ------------------------------
EXTENDS BufferPool, TLC

CONSTANTS r1, r2, r3

\* One response fits a new buffer, one makes it grow once, one past what is kept
Sizes == r1 :> 1 @@ r2 :> 3 @@ r3 :> 5
================================================================================
