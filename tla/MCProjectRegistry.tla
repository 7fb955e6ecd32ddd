------------------------ MODULE MCProjectRegistry ------------------------
EXTENDS ProjectRegistry
CONSTANTS p1, p2, r1, r2, a1, a2, t1, w1, w2, q1, q2
Symmetric == Permutations(Paths) \cup Permutations(Windows) \cup Permutations(Projects)
             \cup Permutations(Repos) \cup Permutations(Requests)
=============================================================================
