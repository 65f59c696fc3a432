---------------------------- MODULE MCGoImports ----------------------------
(***************************************************************************)
(* A service that imports two packages of one library, one of which needs  *)
(* a package of another library.                                           *)
(***************************************************************************)
EXTENDS GoImports

MCRepos == {"svc", "lib", "base"}
MCPackages == {"lib/a", "lib/b", "base"}
MCRepo == [p \in MCPackages |-> IF p = "base" THEN "base" ELSE "lib"]
MCDeps == [p \in MCPackages |-> IF p = "lib/a" THEN {"base"} ELSE {}]
\* Two commits of each library; those of the service do not matter.
MCMaxRev == [r \in MCRepos |-> IF r = "svc" THEN 1 ELSE 2]
============================================================================
