----------------------------- MODULE BuildOrder -----------------------------
(***************************************************************************)
(* The order in which build-go-service compiles the packages it finds in a *)
(* directory (Build, src/cmd/build-go-service/build.go:24-209): imports    *)
(* that already have an archive are dropped, missing ones are downloaded,  *)
(* and the packages are sorted in place, pass by pass, until each comes    *)
(* after those of its imports that are left.  The compiler finds an import *)
(* by its archive, be it of this build or of an earlier one.               *)
(***************************************************************************)
EXTENDS Integers, Sequences

CONSTANTS Project,   \* the packages FindPackages finds
          Others,    \* packages elsewhere that they may import
          Graphs     \* the import relations considered

ASSUME PackageAssumption == Project # {} /\ Project \cap Others = {}
ASSUME GraphAssumption == Graphs \subseteq [Project -> SUBSET (Project \cup Others)]

VARIABLES imports,   \* what the sources of each package import
          archives,  \* the packages with an archive below pkgPaths
          rest,      \* the packages of packageMap that Build has not ranged over
          deps,      \* p.Imports, once pruned
          notFound,  \* imports to download
          sorted,    \* the array of packages
          base,      \* the slice packages is what follows the first base of them
          i, j,      \* the indexes of the loop over it, from 0
          moved,
          built,     \* how many of sorted have been compiled
          pc

sortVars == <<sorted, base, i, j, moved>>
vars == <<imports, archives, rest, deps, notFound, sortVars, built, pc>>

Packages == Project \cup Others
Exits == {"done", "cycle", "failed", "unsaved"}

\* packages[i] and packages[j]
At(k) == base + k + 1

TypeOK ==
    /\ imports \in [Project -> SUBSET Packages]
    /\ archives \subseteq Packages
    /\ rest \subseteq Project
    /\ deps \in [Project -> SUBSET Project]
    /\ notFound \subseteq Others
    /\ sorted \in Seq(Project)
    /\ base \in 0..Len(sorted)
    /\ i \in 0..(Len(sorted) - base)
    /\ j \in 0..i
    /\ moved \subseteq Project
    /\ built \in 0..Len(sorted)
    /\ pc \in {"prune", "download", "sort", "compile"} \cup Exits

\* Archives may be left from any earlier build.
Init ==
    /\ imports \in Graphs
    /\ archives \in SUBSET Packages
    /\ rest = Project
    /\ deps = [p \in Project |-> {}]
    /\ notFound = {}
    /\ sorted = <<>>
    /\ base = 0 /\ i = 0 /\ j = 0
    /\ moved = {}
    /\ built = 0
    /\ pc = "prune"

-----------------------------------------------------------------------------
\* The packages come in any order, as they do from a map.
Prune(p, missing) ==
    /\ pc = "prune"
    /\ p \in rest
    /\ rest' = rest \ {p}
    /\ deps' = [deps EXCEPT ![p] = missing \cap Project]
    /\ notFound' = notFound \cup (missing \ Project)
    /\ sorted' = Append(sorted, p)
    /\ pc' = IF rest' = {} THEN "download" ELSE "prune"
    /\ UNCHANGED <<imports, archives, base, i, j, moved, built>>

\* MUTANT: a package counts as compiled once it has been seen.
PruneSeen(p) == Prune(p, imports[p] \ (archives \cup (Project \ rest)))

PrunePackage(p) == Prune(p, imports[p] \ archives)

\* What go get returns is ignored: any of the imports may still be missing.
\* SaveImports (GoImports) follows; it may exit, as it does for a package that go
\* list does not find, and goes on if just the archive is missing.
Download ==
    /\ pc = "download"
    /\ \E got \in SUBSET notFound : archives' = archives \cup got
    /\ pc' \in {"sort", "unsaved"}
    /\ UNCHANGED <<imports, rest, deps, notFound, sortVars, built>>

-----------------------------------------------------------------------------
InPass == pc = "sort" /\ base < Len(sorted) /\ i < Len(sorted) - base

\* nextPackage: packages[i] waits for an import that has not been moved.
Skip ==
    /\ InPass
    /\ ~ deps[sorted[At(i)]] \subseteq moved
    /\ i' = i + 1
    /\ UNCHANGED <<imports, archives, rest, deps, notFound, sorted, base, j, moved, built, pc>>

MoveTo(s) ==
    /\ InPass
    /\ deps[sorted[At(i)]] \subseteq moved
    /\ moved' = moved \cup {sorted[At(i)]}
    /\ sorted' = s
    /\ i' = i + 1
    /\ j' = j + 1
    /\ UNCHANGED <<imports, archives, rest, deps, notFound, base, built, pc>>

\* MUTANT: packages[j] = p, as if the slices were two arrays.
Overwrite == MoveTo([sorted EXCEPT ![At(j)] = sorted[At(i)]])

Move == MoveTo([sorted EXCEPT ![At(i)] = sorted[At(j)], ![At(j)] = sorted[At(i)]])

\* The end of a pass: nothing has moved, or packages = packages[j:].
PassEnds(stuck, from) ==
    /\ pc = "sort"
    /\ base < Len(sorted)
    /\ i = Len(sorted) - base
    /\ IF stuck THEN pc' = "cycle" /\ UNCHANGED sortVars
       ELSE /\ base' = base + j
            /\ i' = from
            /\ j' = 0
            /\ UNCHANGED <<sorted, moved, pc>>
    /\ UNCHANGED <<imports, archives, rest, deps, notFound, built>>

\* MUTANT: one package moved is taken for none.
PassEndsEarly == PassEnds(j <= 1, 0)

\* MUTANT: a pass that moves nothing is not noticed.
PassEndsUnchecked == PassEnds(FALSE, 0)

\* MUTANT: the next pass goes on at the old index.
PassEndsWithin == PassEnds(j = 0, i)

NextPass == PassEnds(j = 0, 0)

Sorted ==
    /\ pc = "sort"
    /\ base = Len(sorted)
    /\ pc' = "compile"
    /\ UNCHANGED <<imports, archives, rest, deps, notFound, sortVars, built>>

-----------------------------------------------------------------------------
\* The compiler finds what the package imports and no fault in it.
Compile ==
    /\ pc = "compile"
    /\ built < Len(sorted)
    /\ imports[sorted[built + 1]] \subseteq archives
    /\ archives' = archives \cup {sorted[built + 1]}
    /\ built' = built + 1
    /\ UNCHANGED <<imports, rest, deps, notFound, sortVars, pc>>

\* The binary is compiled and linked.
Link ==
    /\ pc = "compile"
    /\ built = Len(sorted)
    /\ pc' = "done"
    /\ UNCHANGED <<imports, archives, rest, deps, notFound, sortVars, built>>

\* The compiler or linker reports an error, and Build gives up.
Fail ==
    /\ pc = "compile"
    /\ pc' = "failed"
    /\ UNCHANGED <<imports, archives, rest, deps, notFound, sortVars, built>>

Next ==
    \/ \E p \in Project : PrunePackage(p)
    \/ Download \/ Skip \/ Move \/ NextPass \/ Sorted
    \/ Compile \/ Link \/ Fail

Spec == Init /\ [][Next]_vars

\* The programs Build runs come to an end.
FairSpec == Spec /\ WF_vars(Next)

-----------------------------------------------------------------------------
\* The in-place sort loses no package and repeats none, and the packages it
\* has moved are those before packages[j], each after what it waits for
\* (build.go:113-131).
SortedSoFar ==
    /\ \A k, l \in 1..Len(sorted) : sorted[k] = sorted[l] => k = l
    /\ moved = {sorted[k] : k \in 1..(base + j)}
    /\ \A k \in 1..(base + j) : deps[sorted[k]] \subseteq {sorted[l] : l \in 1..(k - 1)}

\* A package is not compiled before those packages of the project that it
\* imports, except where an archive of an earlier build takes their place:
\* the compiler finds all of them (build.go:153-171).
ImportsAvailable ==
    pc = "compile" /\ built < Len(sorted) =>
        imports[sorted[built + 1]] \cap Project \subseteq archives

\* Some packages wait for each other.
Cyclic == \E S \in SUBSET Project : S # {} /\ \A p \in S : deps[p] \cap S # {}

\* The error about cyclical imports is printed for cycles of what is to be
\* compiled and for nothing else (build.go:132-143).
CyclesReported ==
    /\ pc = "cycle" => Cyclic
    /\ pc \in {"compile", "done", "failed"} => ~ Cyclic

\* Only packages that have been ranged over are in the array, all of them once
\* the sort begins; what they import has an archive or is in deps, and has an
\* archive for those compiled.  A package passed over is still waiting
\* as long as its pass has moved nothing.
Progress ==
    /\ {sorted[k] : k \in 1..Len(sorted)} = Project \ rest
    /\ (pc = "prune") = (rest # {})
    /\ pc \in {"prune", "download"} => base = 0 /\ i = 0
    /\ pc \in {"prune", "download", "sort", "cycle", "unsaved"} => built = 0
    /\ pc \in {"compile", "done", "failed"} => base = Len(sorted)
    /\ pc = "cycle" => base < Len(sorted) /\ i = Len(sorted) - base /\ j = 0
    /\ \A p \in Project \ rest : imports[p] \cap Project \subseteq archives \cup deps[p]
    /\ \A k \in 1..built : sorted[k] \in archives
    /\ j = 0 => \A k \in (base + 1)..(base + i) : ~ deps[sorted[k]] \subseteq moved

\* The inductive invariant of the build: the loop invariant of the sort, with
\* what pruning leaves it and compiling takes from it (build.go:55-173).
IInv == TypeOK /\ SortedSoFar /\ Progress

\* The passes of the sort come to an end, whatever the imports (build.go:116).
BuildEnds == <>(pc \in Exits)
=============================================================================
