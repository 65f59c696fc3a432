------------------------- MODULE BuildOrder_proofs -------------------------
(***************************************************************************)
(* The sort of build-go-service, for any packages and any imports among    *)
(* them.                                                                   *)
(***************************************************************************)
EXTENDS BuildOrder, SequenceTheorems, WellFoundedInduction, TLAPS

LEMMA InitInv == Init => IInv
  BY PackageAssumption, GraphAssumption
  DEF Init, IInv, TypeOK, SortedSoFar, Progress, Packages, Exits

LEMMA PruneInv == ASSUME IInv, NEW p \in Project, PrunePackage(p) PROVE IInv'
<1> USE DEF IInv, PrunePackage, Prune
<1>1. sorted \in Seq(Project) /\ p \in rest /\ rest \subseteq Project
  BY DEF TypeOK
<1>2. /\ sorted' = Append(sorted, p)
      /\ sorted' \in Seq(Project)
      /\ Len(sorted') = Len(sorted) + 1
      /\ sorted'[Len(sorted) + 1] = p
      /\ \A k \in 1..Len(sorted) : sorted'[k] = sorted[k]
  BY <1>1, AppendProperties
<1>3. Len(sorted) \in Nat /\ base = 0 /\ i = 0 /\ j = 0 /\ built = 0
  BY <1>1, LenProperties DEF TypeOK, Progress
<1>4. {sorted[k] : k \in 1..Len(sorted)} = Project \ rest
  BY DEF Progress
<1>5. TypeOK'
  BY <1>1, <1>2, <1>3 DEF TypeOK, Packages, Exits
<1>6. SortedSoFar'
  BY <1>1, <1>2, <1>3, <1>4 DEF SortedSoFar
<1>7. {sorted'[k] : k \in 1..Len(sorted')} = Project \ rest'
  BY <1>1, <1>2, <1>3, <1>4
<1>8. \A q \in Project \ rest' : imports'[q] \cap Project \subseteq archives' \cup deps'[q]
  BY <1>1 DEF Progress, TypeOK
<1>9. Progress'
  BY <1>1, <1>2, <1>3, <1>7, <1>8 DEF Progress
<1> QED
  BY <1>5, <1>6, <1>9

\* Two elements of a sequence change places: the others stay, none is lost and
\* none is repeated.
LEMMA Swap ==
    ASSUME NEW S, NEW s \in Seq(S), NEW m \in 1..Len(s), NEW n \in 1..Len(s), n <= m
    PROVE  LET t == [s EXCEPT ![m] = s[n], ![n] = s[m]]
           IN  /\ t \in Seq(S) /\ Len(t) = Len(s)
               /\ t[n] = s[m]
               /\ \A k \in 1..(n - 1) : t[k] = s[k]
               /\ (\A k, l \in 1..Len(s) : s[k] = s[l] => k = l)
                      => (\A k, l \in 1..Len(t) : t[k] = t[l] => k = l)
               /\ {t[k] : k \in 1..Len(t)} = {s[k] : k \in 1..Len(s)}
<1> DEFINE t == [s EXCEPT ![m] = s[n], ![n] = s[m]]
           other(k) == IF k = m THEN n ELSE IF k = n THEN m ELSE k
<1>1. Len(s) \in Nat /\ \A k \in 1..Len(s) : other(k) \in 1..Len(s)
  BY LenProperties
<1>2. t \in Seq(S) /\ Len(t) = Len(s)
  OBVIOUS
<1>3. \A k \in 1..Len(s) : t[k] = s[other(k)] /\ s[k] = t[other(k)]
  BY <1>1
<1>4. \A k, l \in 1..Len(s) : other(k) = other(l) => k = l
  OBVIOUS
<1>5. t[n] = s[m] /\ \A k \in 1..(n - 1) : t[k] = s[k]
  BY <1>1, <1>3
<1> HIDE DEF t, other
<1>6. {t[k] : k \in 1..Len(s)} = {s[k] : k \in 1..Len(s)}
  <2>1. ASSUME NEW k \in 1..Len(s)
        PROVE  /\ t[k] \in {s[l] : l \in 1..Len(s)}
               /\ s[k] \in {t[l] : l \in 1..Len(s)}
    <3>1. other(k) \in 1..Len(s) /\ t[k] = s[other(k)] /\ s[k] = t[other(k)]
      BY <1>1, <1>3
    <3> QED
      BY <3>1
  <2> QED
    BY <2>1
<1>7. ASSUME \A k, l \in 1..Len(s) : s[k] = s[l] => k = l,
             NEW k \in 1..Len(s), NEW l \in 1..Len(s), t[k] = t[l]
      PROVE  k = l
  <2>1. other(k) \in 1..Len(s) /\ other(l) \in 1..Len(s)
    BY <1>1
  <2>2. s[other(k)] = s[other(l)]
    BY <1>3, <1>7
  <2>3. other(k) = other(l)
    BY <1>7, <2>1, <2>2
  <2> QED
    BY <1>4, <2>3
<1>8. (\A k, l \in 1..Len(s) : s[k] = s[l] => k = l)
          => (\A k, l \in 1..Len(t) : t[k] = t[l] => k = l)
  BY <1>2, <1>7
<1> QED
  BY <1>2, <1>5, <1>6, <1>8 DEF t

LEMMA MoveInv == ASSUME IInv, Move PROVE IInv'
<1> DEFINE m == base + i + 1
           n == base + j + 1
<1>1. /\ sorted \in Seq(Project) /\ Len(sorted) \in Nat
      /\ base \in Nat /\ i \in Nat /\ j \in Nat
      /\ n \in 1..Len(sorted) /\ m \in 1..Len(sorted) /\ n <= m
  BY LenProperties DEF IInv, TypeOK, Move, MoveTo, InPass
<1>2. /\ sorted' = [sorted EXCEPT ![m] = sorted[n], ![n] = sorted[m]]
      /\ deps[sorted[m]] \subseteq moved /\ moved' = moved \cup {sorted[m]}
      /\ pc = "sort" /\ i' = i + 1 /\ j' = j + 1
      /\ UNCHANGED <<imports, archives, rest, deps, notFound, base, built, pc>>
  BY DEF Move, MoveTo, InPass, At
<1>3. /\ sorted' \in Seq(Project) /\ Len(sorted') = Len(sorted)
      /\ sorted'[n] = sorted[m]
      /\ \A k \in 1..(base + j) : sorted'[k] = sorted[k]
      /\ {sorted'[k] : k \in 1..Len(sorted')} = {sorted[k] : k \in 1..Len(sorted)}
  BY <1>1, <1>2, Swap, SMTT(30)
<1>4. \A k, l \in 1..Len(sorted') : sorted'[k] = sorted'[l] => k = l
  <2>1. \A k, l \in 1..Len(sorted) : sorted[k] = sorted[l] => k = l
    BY DEF IInv, SortedSoFar
  <2>2. \A k, l \in 1..Len([sorted EXCEPT ![m] = sorted[n], ![n] = sorted[m]]) :
            [sorted EXCEPT ![m] = sorted[n], ![n] = sorted[m]][k]
                = [sorted EXCEPT ![m] = sorted[n], ![n] = sorted[m]][l] => k = l
    <3> HIDE DEF m, n
    <3> QED
      BY <1>1, <2>1, Swap
  <2> QED
    BY <1>2, <2>2
<1>5. TypeOK'
  BY <1>1, <1>2, <1>3 DEF IInv, TypeOK, Packages, Exits
<1>6. moved' = {sorted'[k] : k \in 1..(base' + j')}
  <2>1. moved = {sorted'[k] : k \in 1..(base + j)}
    BY <1>3 DEF IInv, SortedSoFar
  <2>2. base' + j' = n /\ 1..n = 1..(base + j) \cup {n}
    BY <1>1, <1>2, SMTT(30)
  <2> HIDE DEF m, n
  <2> QED
    BY <1>2, <1>3, <2>1, <2>2
<1>7. ASSUME NEW k \in 1..(base' + j')
      PROVE  deps'[sorted'[k]] \subseteq {sorted'[l] : l \in 1..(k - 1)}
  <2>1. CASE k = n
    <3>1. deps[sorted[m]] \subseteq {sorted[l] : l \in 1..(base + j)}
      BY <1>2 DEF IInv, SortedSoFar
    <3>2. k - 1 = base + j /\ deps'[sorted'[k]] = deps[sorted[m]]
      BY <1>1, <1>2, <1>3, <2>1
    <3> QED
      BY <1>3, <3>1, <3>2
  <2>2. CASE k # n
    <3>1. k \in 1..(base + j)
      BY <1>1, <1>2, <2>2
    <3>2. deps[sorted[k]] \subseteq {sorted[l] : l \in 1..(k - 1)}
      BY <3>1 DEF IInv, SortedSoFar
    <3>3. deps'[sorted'[k]] = deps[sorted[k]]
      BY <1>2, <1>3, <3>1
    <3>4. \A l \in 1..(k - 1) : sorted'[l] = sorted[l]
      <4>1. \A l \in 1..(k - 1) : l \in 1..(base + j)
        BY <1>1, <3>1
      <4> QED
        BY <1>3, <4>1
    <3> QED
      BY <3>2, <3>3, <3>4
  <2> QED
    BY <2>1, <2>2
<1>8. Progress'
  <2>1. built = 0 /\ rest = {} /\ j' # 0
    BY <1>1, <1>2 DEF IInv, Progress
  <2>2. {sorted'[k] : k \in 1..Len(sorted')} = Project \ rest'
    BY <1>2, <1>3 DEF IInv, Progress
  <2>3. \A p \in Project \ rest' : imports'[p] \cap Project \subseteq archives' \cup deps'[p]
    BY <1>2 DEF IInv, Progress
  <2> QED
    BY <1>2, <2>1, <2>2, <2>3 DEF Progress
<1> QED
  BY <1>4, <1>5, <1>6, <1>7, <1>8 DEF IInv, SortedSoFar

LEMMA SortInv == ASSUME IInv, Skip \/ NextPass \/ Sorted PROVE IInv'
<1> USE DEF IInv, At
<1>1. sorted \in Seq(Project) /\ Len(sorted) \in Nat
  BY LenProperties DEF TypeOK
<1>2. CASE Skip
  <2>1. TypeOK' /\ SortedSoFar'
    BY <1>1, <1>2 DEF Skip, InPass, TypeOK, SortedSoFar
  <2>2. j' = 0 => \A k \in (base' + 1)..(base' + i') : ~ deps'[sorted'[k]] \subseteq moved'
    BY <1>1, <1>2 DEF Skip, InPass, TypeOK, Progress
  <2>3. Progress'
    BY <1>1, <1>2, <2>2 DEF Skip, InPass, TypeOK, Progress
  <2> QED
    BY <2>1, <2>3
<1>3. CASE NextPass
  <2>1. CASE j = 0
    <3>1. /\ pc = "sort" /\ pc' = "cycle" /\ base < Len(sorted) /\ i = Len(sorted) - base
          /\ UNCHANGED <<imports, archives, rest, deps, notFound, sortVars, built>>
      BY <1>3, <2>1 DEF NextPass, PassEnds
    <3>2. TypeOK' /\ SortedSoFar'
      BY <3>1 DEF sortVars, TypeOK, SortedSoFar, Packages, Exits
    <3>3. Progress'
      BY <2>1, <3>1 DEF sortVars, Progress
    <3> QED
      BY <3>2, <3>3
  <2>2. CASE j # 0
    BY <1>1, <1>3, <2>2 DEF NextPass, PassEnds, TypeOK, SortedSoFar, Progress, Packages, Exits
  <2> QED
    BY <2>1, <2>2
<1>4. CASE Sorted
  BY <1>1, <1>4 DEF Sorted, sortVars, TypeOK, SortedSoFar, Progress, Packages, Exits
<1> QED
  BY <1>2, <1>3, <1>4

LEMMA CompileInv == ASSUME IInv, Download \/ Compile \/ Link \/ Fail PROVE IInv'
<1> USE DEF IInv, sortVars, TypeOK, SortedSoFar, Progress, Packages, Exits
<1>1. sorted \in Seq(Project) /\ Len(sorted) \in Nat
  BY LenProperties
<1>2. CASE Download
  BY <1>1, <1>2 DEF Download
<1>3. CASE Compile
  BY <1>1, <1>3 DEF Compile
<1>4. CASE Link
  BY <1>1, <1>4 DEF Link
<1>5. CASE Fail
  BY <1>1, <1>5 DEF Fail
<1> QED
  BY <1>2, <1>3, <1>4, <1>5

LEMMA StutterInv == ASSUME IInv, UNCHANGED vars PROVE IInv'
<1> USE DEF vars, sortVars
<1>1. TypeOK'
  BY DEF IInv, TypeOK
<1>2. SortedSoFar'
  BY DEF IInv, SortedSoFar
<1>3. Progress'
  BY DEF IInv, Progress
<1> QED
  BY <1>1, <1>2, <1>3 DEF IInv

\* The inductive invariant, for any project and any archives left from earlier
\* builds.
THEOREM BuildInvariant == Spec => []IInv
<1>1. IInv /\ [Next]_vars => IInv'
  BY PruneInv, MoveInv, SortInv, CompileInv, StutterInv DEF Next
<1> QED
  BY <1>1, InitInv, PTL DEF Spec

\* The loop invariant of the in-place sort (build.go:113-131).
THEOREM BuildSorts == Spec => []SortedSoFar
<1>1. IInv => SortedSoFar
  BY DEF IInv
<1> QED
  BY <1>1, BuildInvariant, PTL

\* No package is compiled before one of the project that it imports, unless that
\* has an archive already (build.go:153-171).
THEOREM BuildFindsImports == Spec => []ImportsAvailable
<1>1. ASSUME IInv PROVE ImportsAvailable
  <2> SUFFICES ASSUME pc = "compile", built < Len(sorted)
               PROVE  imports[sorted[built + 1]] \cap Project \subseteq archives
    BY DEF ImportsAvailable
  <2>1. /\ sorted \in Seq(Project) /\ Len(sorted) \in Nat
        /\ base = Len(sorted) /\ j = 0 /\ built + 1 \in 1..Len(sorted)
    BY <1>1, LenProperties DEF IInv, TypeOK, Progress
  <2>2. sorted[built + 1] \in Project \ rest
    BY <1>1, <2>1 DEF IInv, Progress
  <2>3. imports[sorted[built + 1]] \cap Project \subseteq archives \cup deps[sorted[built + 1]]
    BY <1>1, <2>2 DEF IInv, Progress
  <2>4. deps[sorted[built + 1]] \subseteq {sorted[l] : l \in 1..built}
    <3>1. (built + 1) - 1 = built /\ built + 1 \in 1..(base + j)
      BY <1>1, <2>1 DEF IInv, TypeOK
    <3> QED
      BY <1>1, <3>1 DEF IInv, SortedSoFar
  <2>5. {sorted[l] : l \in 1..built} \subseteq archives
    BY <1>1 DEF IInv, Progress
  <2> QED
    BY <2>3, <2>4, <2>5
<1> QED
  BY <1>1, BuildInvariant, PTL

\* When a pass has moved nothing, what is left waits for what is left.
LEMMA StuckIsCyclic == ASSUME IInv, pc = "cycle" PROVE Cyclic
<1> DEFINE S == {sorted[k] : k \in (base + 1)..Len(sorted)}
<1>1. /\ sorted \in Seq(Project) /\ Len(sorted) \in Nat
      /\ base \in Nat /\ base < Len(sorted) /\ i = Len(sorted) - base /\ j = 0
      /\ rest = {}
  BY LenProperties DEF IInv, TypeOK, Progress
<1>2. S \subseteq Project /\ S # {}
  <2>1. sorted[base + 1] \in S
    BY <1>1
  <2> QED
    <3>1. \A k \in (base + 1)..Len(sorted) : k \in 1..Len(sorted)
      BY <1>1
    <3>2. \A k \in 1..Len(sorted) : sorted[k] \in Project
      BY <1>1, ElementOfSeq
    <3> QED
      BY <2>1, <3>1, <3>2
<1>3. ASSUME NEW p \in S PROVE deps[p] \cap S # {}
  <2>1. PICK k \in (base + 1)..Len(sorted) : p = sorted[k]
    OBVIOUS
  <2>2. ~ deps[sorted[k]] \subseteq moved
    BY <1>1, <2>1 DEF IInv, Progress
  <2>3. PICK q \in deps[p] : q \notin moved
    BY <2>1, <2>2
  <2>4. p \in Project
    BY <1>2
  <2>5. q \in Project
    BY <2>3, <2>4 DEF IInv, TypeOK
  <2>6. PICK l \in 1..Len(sorted) : q = sorted[l]
    BY <1>1, <2>5 DEF IInv, Progress
  <2>7. l \notin 1..base
    BY <1>1, <2>3, <2>6 DEF IInv, SortedSoFar
  <2>8. q \in S
    BY <1>1, <2>6, <2>7
  <2> QED
    BY <2>3, <2>8
<1> QED
  BY <1>2, <1>3 DEF Cyclic

\* Of packages in order, the first of a set waits for none of the set.
LEMMA OrderedIsAcyclic ==
    ASSUME IInv, pc # "prune", base = Len(sorted)
    PROVE  ~ Cyclic
<1> SUFFICES ASSUME NEW S \in SUBSET Project, S # {},
                    \A p \in S : deps[p] \cap S # {}
             PROVE  FALSE
  BY DEF Cyclic
<1> DEFINE T == {k \in 1..Len(sorted) : sorted[k] \in S}
<1>1. Len(sorted) \in Nat /\ base \in Nat /\ j = 0 /\ {sorted[k] : k \in 1..Len(sorted)} = Project
  BY LenProperties DEF IInv, TypeOK, Progress
<1>2. T \subseteq Nat /\ T # {}
  <2>1. PICK p \in S : p \in Project
    OBVIOUS
  <2>2. \E k \in 1..Len(sorted) : sorted[k] \in S
    BY <1>1, <2>1
  <2>3. T # {}
    BY <2>2
  <2>4. T \subseteq Nat
    BY <1>1
  <2> QED
    BY <2>3, <2>4
<1> HIDE DEF T
<1>3. PICK k \in T : \A l \in T : ~ (<<l, k>> \in OpToRel(<, Nat))
  BY <1>2, NatLessThanWellFounded, WFMin, Zenon
<1> USE DEF T
<1>4. \A l \in T : ~ l < k
  BY <1>2, <1>3 DEF OpToRel
<1>5. deps[sorted[k]] \subseteq {sorted[l] : l \in 1..(k - 1)}
  <2>1. k \in 1..(base + j)
    BY <1>1
  <2> QED
    BY <2>1 DEF IInv, SortedSoFar
<1>6. PICK q \in S : q \in deps[sorted[k]]
  OBVIOUS
<1>7. PICK l \in 1..(k - 1) : q = sorted[l]
  BY <1>5, <1>6
<1>8. l \in T /\ l < k
  BY <1>1, <1>6, <1>7
<1> QED
  BY <1>4, <1>8

\* The error about cyclical imports is printed for cycles and for nothing else
\* (build.go:132-143).
THEOREM BuildReportsCycles == Spec => []CyclesReported
<1>1. ASSUME IInv PROVE CyclesReported
  <2>1. pc \in {"compile", "done", "failed"} => pc # "prune" /\ base = Len(sorted)
    BY <1>1 DEF IInv, Progress
  <2> QED
    BY <1>1, <2>1, StuckIsCyclic, OrderedIsAcyclic DEF CyclesReported
<1> QED
  BY <1>1, BuildInvariant, PTL
=============================================================================
