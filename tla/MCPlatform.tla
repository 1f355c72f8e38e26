------------------------------ MODULE MCPlatform ------------------------------
EXTENDS Platform, TLC

CONSTANTS p1, p2

Procs == {p1, p2}
Builds == p1 :> 1 @@ p2 :> 2

\* The requests are also the tokens; the invitations are also the emails and the calls: since
\* one component runs at a time, its values need no others.
Symm == Permutations(Requests) \cup Permutations(Invitations)
=============================================================================
