------------------------------- MODULE MCDesk -------------------------------
EXTENDS Desk, TLC
CONSTANTS hero, orc, jump, h1, h2, p1, p2
MCAuthor == [a \in Actions |-> hero]
Hands == Permutations(Handlers) \cup Permutations(Places)
=============================================================================
