---------------------------- MODULE MCBuildOrder ----------------------------
(***************************************************************************)
(* Small instances of the build order for TLC.                             *)
(***************************************************************************)
EXTENDS BuildOrder

CONSTANTS a, b, c, x

ThreePackages == {a, b, c}
OneOther == {x}

\* All imports among the packages, and x imported by one of them or by none.
AllGraphs ==
    {g \in [ThreePackages -> SUBSET {a, b, c, x}] :
        x \notin g[b] \cup g[c] /\ b \notin g[b] /\ c \notin g[c]}
=============================================================================
