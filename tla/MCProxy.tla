-------------------------------- MODULE MCProxy --------------------------------
EXTENDS Proxy, TLC

CONSTANTS p1, p2, x1, x2, air

\* Both exchanges have the same operation and route, so their names may meet
Labels == x1 :> air @@ x2 :> air
\* An earlier run left two captures and a gap between them
Left == {<<air, 1>>, <<air, 3>>}
================================================================================
