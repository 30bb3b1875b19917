------------------------ MODULE MCPostgresDispatch ------------------------
\* Instances of PostgresDispatch for TLC.
EXTENDS PostgresDispatch, Functions, TLC

TaskSymmetry == Permutations(Tasks)

\* Bound of the run overlap: launches of all tasks together, after which a
\* behaviour is not followed any further.  One task may have all of them.
FewLaunches == FoldFunction(+, 0, launched) <= 3
=============================================================================
