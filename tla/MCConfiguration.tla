--------------------------- MODULE MCConfiguration ---------------------------
EXTENDS Configuration, TLC

CONSTANTS a, b, x, y, p1, p2

MCCompatible == {<<a, a>>, <<b, b>>, <<a, b>>}
MCSymmetry == Permutations(Procs) \cup Permutations(Foreign)

\* The version is only ever compared with the one the worker last read.
MCView == <<authority.desired, authority.drifted, authority.version = actor[Worker].seen.version,
            generations, claims, active, fileVars, lock, loaded,
            [actor EXCEPT ![Worker].seen.version = 0], edits, troubles>>
==============================================================================
