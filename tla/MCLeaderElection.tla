-------------------------- MODULE MCLeaderElection --------------------------
\* LeaderElection on small instances: three operator pods and a few ticks of
\* time.
EXTENDS LeaderElection

CONSTANTS p1, p2, p3

PodsDef == {p1, p2, p3}

=============================================================================
