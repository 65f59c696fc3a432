-------------------------- MODULE FileCache_proofs --------------------------
(***************************************************************************)
(* Proofs about the file cache, for any tree of files, any order in which  *)
(* a walk may take it, and any number of writes and Updates.               *)
(***************************************************************************)
EXTENDS FileCache, SequenceTheorems, NaturalsInduction, WellFoundedInduction, TLAPS

-----------------------------------------------------------------------------
(* The tree and the walk *)

\* What is above a file is in every set of directories that has its own and
\* goes upward.
LEMMA AboveProperties ==
    /\ \A x \in Paths : Above[x] \subseteq Dirs
    /\ \A f \in Files : f \in Paths /\ f # Root /\ f \notin Dirs /\ Parent[f] \in Dirs
    /\ \A d \in Dirs \ {Root} : Parent[d] \in Dirs
    /\ \A f \in Files : \A S \in SUBSET Dirs :
         Parent[f] \in S /\ Upward(S) => Above[f] \subseteq S
<1>1. \A f \in Files : f \in Paths /\ f # Root /\ f \notin Dirs /\ Parent[f] \in Dirs
  BY TreeAssumption DEF Paths
<1>2. \A d \in Dirs \ {Root} : Parent[d] \in Dirs
  BY TreeAssumption
<1> QED
  BY <1>1, <1>2 DEF Above

WalkSteps ==
    {Step("list", d) : d \in Dirs} \cup {Step("leave", d) : d \in Dirs}
        \cup {Step("file", f) : f \in Files} \cup {Step("finish", Root)}

LEMMA WalkProperties ==
    /\ Walk \in Seq(WalkSteps) /\ Len(Walk) \in Nat \ {0}
    /\ Walk[Len(Walk)] = Step("finish", Root)
    /\ \A i \in 1..Len(Walk) : Walk[i] = Step("finish", Root) => i = Len(Walk)
<1>1. Walk \in Seq(WalkSteps) /\ Walk # <<>>
  BY WalkAssumption DEF WalkSteps
<1>2. Len(Walk) \in Nat \ {0}
  BY <1>1, EmptySeq
<1> QED
  BY <1>1, <1>2, WalkAssumption

\* Done says where the walk is.
LEMMA WalkPosition ==
    ASSUME TypeOK
    PROVE  /\ Done \in 0..Len(Walk) /\ todo = SubSeq(Walk, Done + 1, Len(Walk))
           /\ Idle <=> Done = Len(Walk)
<1>1. PICK i \in 0..Len(Walk) : todo = SubSeq(Walk, i + 1, Len(Walk))
  BY DEF TypeOK
<1>2. Len(Walk) \in Nat /\ \A k \in (i + 1)..Len(Walk) : Walk[k] \in WalkSteps
  BY WalkProperties, ElementOfSeq
<1>3. todo \in Seq(WalkSteps) /\ Len(todo) = Len(Walk) - i
  BY <1>1, <1>2, SubSeqProperties
<1>4. Done = i
  BY <1>2, <1>3 DEF Done
<1>5. Idle <=> Len(todo) = 0
  BY <1>3, EmptySeq DEF Idle
<1> QED
  BY <1>1, <1>2, <1>3, <1>4, <1>5

\* The step the walk is about to take.
LEMMA WalkHead ==
    ASSUME TypeOK, NEW do, NEW x, Doing(do, x)
    PROVE  ~Idle /\ Done + 1 \in 1..Len(Walk) /\ Walk[Done + 1] = Step(do, x)
<1>1. ~Idle
  BY DEF Doing, Idle
<1>2. Done + 1 \in 1..Len(Walk)
  BY <1>1, WalkPosition, WalkProperties
<1>3. Head(SubSeq(Walk, Done + 1, Len(Walk))) = Walk[Done + 1]
  BY <1>2, WalkProperties, HeadTailOfSubSeq
<1> QED
  BY <1>1, <1>2, <1>3, WalkPosition DEF Doing

Suffix == \E i \in 0..Len(Walk) : todo = SubSeq(Walk, i + 1, Len(Walk))

\* A step of the walk that is not the last one takes it to the next.
LEMMA WalkGoesOn ==
    ASSUME TypeOK, NEW do, NEW x, Doing(do, x), do # "finish", todo' = Tail(todo)
    PROVE  /\ Suffix' /\ ~Idle' /\ Done' = Done + 1 /\ Done \in Nat /\ Done + 2 <= Len(Walk)
<1>1. Done \in 0..Len(Walk) /\ todo = SubSeq(Walk, Done + 1, Len(Walk))
  BY WalkPosition
<1>2. Done + 1 \in 1..Len(Walk) /\ Walk[Done + 1] = Step(do, x) /\ Len(Walk) \in Nat
  BY WalkHead, WalkProperties
<1>3. Done + 1 # Len(Walk)
  BY <1>2, WalkProperties DEF Step
<1>4. PICK i \in Nat : i = Done + 1
  BY <1>1
<1>5. i \in 1..(Len(Walk) - 1) /\ i \in 0..Len(Walk)
  BY <1>2, <1>3, <1>4
<1> DEFINE rest == SubSeq(Walk, i + 1, Len(Walk))
<1>6. todo' = rest
  BY <1>1, <1>2, <1>4, WalkProperties, HeadTailOfSubSeq
<1>7. \A k \in (i + 1)..Len(Walk) : Walk[k] \in WalkSteps
  BY <1>2, WalkProperties, ElementOfSeq
<1>8. rest \in Seq(WalkSteps) /\ Len(rest) = Len(Walk) - (i + 1) + 1
  BY <1>2, <1>5, <1>7, SubSeqProperties
<1>9. Suffix'
  BY <1>5, <1>6 DEF Suffix
<1> HIDE DEF rest
<1>10. Len(rest) = Len(Walk) - i /\ rest # <<>>
  <2>1. Len(rest) = Len(Walk) - i /\ Len(rest) # 0
    BY <1>2, <1>5, <1>8
  <2> QED
    BY <2>1, EmptySeq
<1>11. Done' = i /\ Done \in Nat /\ Done + 2 <= Len(Walk)
  <2>1. Done' = Len(Walk) - Len(rest)
    BY <1>6 DEF Done
  <2>2. Done \in Nat /\ Done + 2 <= Len(Walk)
    BY <1>1, <1>2, <1>4, <1>5
  <2> QED
    BY <1>2, <1>5, <1>10, <2>1, <2>2
<1> QED
  BY <1>4, <1>6, <1>9, <1>10, <1>11 DEF Idle

\* The walk is over.
LEMMA WalkEnds ==
    ASSUME todo' = <<>> PROVE Suffix' /\ Idle'
<1>1. SubSeq(Walk, Len(Walk) + 1, Len(Walk)) = <<>>
  BY WalkProperties, SubSeqEmpty
<1> QED
  BY <1>1, WalkProperties DEF Suffix, Idle

\* An Update starts at the first step.
LEMMA WalkStarts ==
    ASSUME todo' = Walk PROVE Suffix' /\ ~Idle' /\ Done' = 0
<1>1. SubSeq(Walk, 1, Len(Walk)) = Walk
  BY WalkProperties, SubSeqFull
<1>2. Suffix'
  <2>1. PICK n \in 0..Len(Walk) : n + 1 = 1
    BY WalkProperties
  <2>2. todo' = SubSeq(Walk, n + 1, Len(Walk))
    BY <1>1, <2>1
  <2> QED
    BY <2>2 DEF Suffix
<1> QED
  BY <1>2, WalkProperties, WalkAssumption DEF Done, Idle

\* The types of the files and of what the cache knows of them, of the walk apart.
CacheTypes ==
    /\ disk \in [Files -> {Absent} \cup 1..MaxWrites] /\ clock \in 0..MaxWrites
    /\ Index \in 0..MaxUpdates
    /\ cache \in [Files -> [data : Absent..MaxWrites, mtime : 0..MaxWrites, index : 0..MaxUpdates]]
    /\ Changed \in [Paths -> {Absent} \cup 1..MaxUpdates]
    /\ listing \in [Files -> {Absent} \cup 1..MaxWrites] /\ dirty \subseteq Dirs
    /\ result \in {"none", "ok", "nothing", "error"}
    /\ Tracked \in [Paths -> Absent..MaxUpdates]
    /\ token.index \in 0..MaxUpdates /\ token.paths \subseteq Paths
    /\ settled \in [Files -> Absent..MaxWrites]

LEMMA Types == (TypeOK <=> CacheTypes /\ Suffix) /\ (TypeOK' <=> CacheTypes' /\ Suffix')
  BY DEF TypeOK, CacheTypes, Suffix
-----------------------------------------------------------------------------
(* What most steps leave as it is *)

LEMMA Since ==
    ASSUME NEW x
    PROVE  /\ ChangedSince(token.index, {x}) <=> Changed[x] = Absent \/ Changed[x] > token.index
           /\ ChangedSince(token.index, {x})' <=>
                 Changed'[x] = Absent \/ Changed'[x] > token'.index
  BY DEF ChangedSince

\* A step that neither begins nor ends an Update and finds no change.
LEMMA KnowledgeKept ==
    ASSUME Session, TokenHolds, Settled, Idle' <=> Idle,
           UNCHANGED <<Index, Contents, Changed, dirty, Tracked, token, seen, settled, failed>>
    PROVE  Session' /\ TokenHolds' /\ Settled'
<1>1. Session'
  BY DEF Session
<1>2. \A x : ChangedSince(token.index, {x})' <=> ChangedSince(token.index, {x})
  BY DEF ChangedSince
<1>3. TokenHolds'
  BY <1>2 DEF TokenHolds
<1>4. Settled'
  BY DEF Settled
<1> QED
  BY <1>1, <1>3, <1>4

\* A step of the walk that is no return from a directory.
LEMMA MarksKept ==
    ASSUME TypeOK, Marks, NEW do, NEW x, Doing(do, x), do \notin {"leave", "finish"},
           todo' = Tail(todo), UNCHANGED <<Index, Changed, dirty>>
    PROVE  Marks'
<1>1. Done' = Done + 1 /\ Done \in Nat /\ ~Idle /\ Walk[Done + 1] = Step(do, x)
  BY WalkGoesOn, WalkHead
<1>2. \A i \in (Done + 1)..Len(Walk) : \A d \in dirty :
        Walk[i] = Step("leave", d) => i \in (Done' + 1)..Len(Walk)
  BY <1>1, WalkProperties DEF Step
<1> QED
  BY <1>1, <1>2 DEF Marks

\* An Update that fails: what it leaves has to be told to those who track files.
LEMMA FailureKeeps ==
    ASSUME CacheInv, ~Idle, todo' = <<>>, result' = "error", failed' = TRUE,
           UNCHANGED <<Index, Tracked, token>>, CacheTypes', Times',
           \A x \in token.paths \cap Files :
              token.seen[x][x] # Contents'[x] => ChangedSince(token.index, {x})'
    PROVE  CacheInv'
<1>1. Suffix' /\ Idle'
  BY WalkEnds
<1>2. TypeOK'
  BY <1>1, Types
<1>3. Session'
  BY DEF CacheInv, Session
<1>4. TokenHolds'
  BY <1>1 DEF CacheInv, TokenHolds
<1>5. Marks' /\ Settled' /\ Undisturbed' /\ CacheFresh'
  BY <1>1 DEF Marks, Settled, Undisturbed, CacheFresh
<1> QED
  BY <1>2, <1>3, <1>4, <1>5 DEF CacheInv
-----------------------------------------------------------------------------
(* Someone edits the tree *)

LEMMA EditKeeps ==
    ASSUME CacheInv, NEW f \in Files, Write(f) \/ Remove(f)
    PROVE  CacheInv'
<1>1. /\ clock < MaxWrites /\ clock' = clock + 1 /\ quiet' = FALSE
      /\ UNCHANGED <<Index, cache, Changed, todo, listing, dirty, result, Tracked, token,
                     seen, settled, failed>>
  BY DEF Write, Remove, walkVars
<1>2. PICK t \in {Absent, clock + 1} : disk' = [disk EXCEPT ![f] = t]
  BY DEF Write, Remove
<1>3. CacheTypes /\ Suffix /\ Times
  BY Types DEF CacheInv
<1>4. CacheTypes'
  BY <1>1, <1>2, <1>3, TreeAssumption DEF CacheTypes, Absent
<1>5. TypeOK'
  BY <1>1, <1>3, <1>4, Types DEF Suffix
<1>6. Times'
  <2>1. \A g \in Files : disk'[g] = IF g = f THEN t ELSE disk[g]
    BY <1>2, <1>3 DEF CacheTypes
  <2> QED
    BY <1>1, <1>2, <1>3, <2>1 DEF Times, CacheTypes, Absent
<1>7. Idle' = Idle /\ Contents' = Contents /\ Done' = Done
  BY <1>1 DEF Idle, Contents, Done
<1>8. Session' /\ TokenHolds' /\ Settled'
  BY <1>1, <1>7, KnowledgeKept DEF CacheInv
<1>9. Marks'
  BY <1>1, <1>7 DEF CacheInv, Marks
<1>10. Undisturbed' /\ CacheFresh'
  BY <1>1 DEF Undisturbed, CacheFresh
<1> QED
  BY <1>5, <1>6, <1>8, <1>9, <1>10 DEF CacheInv
-----------------------------------------------------------------------------
(* Update *)

LEMMA StartKeeps ==
    ASSUME CacheInv, NoSession, StartUpdate
    PROVE  CacheInv'
<1>1. /\ Idle /\ Index < MaxUpdates /\ Index' = Index + 1 /\ todo' = Walk /\ dirty' = {}
      /\ quiet' = TRUE
      /\ UNCHANGED <<disk, clock, cache, Changed, listing, result, Tracked, token, seen,
                     settled, failed>>
  BY DEF StartUpdate
<1>2. Suffix' /\ ~Idle' /\ Done' = 0
  BY <1>1, WalkStarts
<1>3. CacheTypes /\ Times /\ Index \in Nat
  BY Types DEF CacheInv, CacheTypes
<1>4. CacheTypes'
  BY <1>1, <1>3, TreeAssumption DEF CacheTypes
<1>5. TypeOK'
  BY <1>2, <1>4, Types
<1>6. Times'
  BY <1>1, <1>3 DEF Times, CacheTypes, Absent
<1>7. Contents' = Contents /\ \A x : ChangedSince(token.index, {x})' <=> ChangedSince(token.index, {x})
  BY <1>1 DEF Contents, ChangedSince
<1>8. Session'
  BY <1>1 DEF Session, NoSession
<1>9. Marks'
  BY <1>1 DEF Marks
<1>10. TokenHolds'
  <2>1. token.index <= Index' /\ token.index < Index'
    BY <1>1, <1>3 DEF CacheInv, TokenHolds, CacheTypes
  <2>2. \A x \in token.paths \cap Files :
          token.seen[x][x] # Contents'[x] => ChangedSince(token.index, {x})'
    BY <1>7 DEF CacheInv, TokenHolds
  <2>3. failed \/ \A x \in token.paths \cap Dirs, f \in Files :
          x \in Above[f] /\ token.seen[x][f] # Contents'[f] => ChangedSince(token.index, {x})'
    BY <1>1, <1>7 DEF CacheInv, TokenHolds
  <2> QED
    BY <1>1, <2>1, <2>2, <2>3 DEF TokenHolds
<1>11. Settled'
  BY <1>1, <1>7 DEF CacheInv, Settled
<1>12. Undisturbed'
  <2>1. \A f \in Files : cache'[f].index # Index'
    BY <1>1, <1>3 DEF Times, CacheTypes
  <2> QED
    BY <1>2, <2>1 DEF Undisturbed
<1>13. CacheFresh'
  BY <1>2 DEF CacheFresh
<1> QED
  BY <1>5, <1>6, <1>8, <1>9, <1>10, <1>11, <1>12, <1>13 DEF CacheInv

LEMMA ListKeeps ==
    ASSUME CacheInv, NEW d \in Dirs, List(d)
    PROVE  CacheInv'
<1>1. /\ Doing("list", d)
      /\ UNCHANGED <<disk, clock, Index, cache, Changed, Tracked, token, dirty, seen, settled, quiet>>
  BY DEF List, Abort, ghosts
<1>2. CacheTypes /\ Times /\ TypeOK /\ ~Idle /\ Contents' = Contents
  BY <1>1, Types, WalkHead DEF CacheInv, Contents
<1>3. CASE Abort
  <2>1. todo' = <<>> /\ result' = "error" /\ failed' = TRUE /\ listing' = listing
    BY <1>3 DEF Abort
  <2>2. CacheTypes' /\ Times'
    BY <1>1, <1>2, <2>1 DEF CacheTypes, Times
  <2>3. \A x \in token.paths \cap Files :
          token.seen[x][x] # Contents'[x] => ChangedSince(token.index, {x})'
    BY <1>1, <1>2 DEF CacheInv, TokenHolds, ChangedSince
  <2> QED
    BY <1>1, <1>2, <2>1, <2>2, <2>3, FailureKeeps
<1>4. CASE /\ todo' = Tail(todo)
           /\ listing' = [f \in Files |-> IF Parent[f] = d THEN disk[f] ELSE listing[f]]
           /\ UNCHANGED <<dirty, result, ghosts>>
  <2>1. UNCHANGED <<result, failed>>
    BY <1>4 DEF ghosts
  <2>2. Suffix' /\ ~Idle' /\ Done' = Done + 1 /\ Done \in Nat /\ Walk[Done + 1] = Step("list", d)
    BY <1>1, <1>2, <1>4, WalkGoesOn, WalkHead
  <2>3. CacheTypes'
    BY <1>1, <1>2, <1>4, <2>1 DEF CacheTypes
  <2>4. Times'
    BY <1>1, <1>2, <1>4 DEF Times, CacheTypes
  <2>5. Session' /\ TokenHolds' /\ Settled'
    BY <1>1, <1>2, <2>1, <2>2, KnowledgeKept DEF CacheInv
  <2>6. Marks'
    BY <1>1, <1>2, <1>4, MarksKept DEF CacheInv
  <2>7. Undisturbed'
    <3> SUFFICES ASSUME quiet, NEW f \in Files
                 PROVE  /\ (\E i \in 1..(Done + 1) : Walk[i] = Step("list", Parent[f]))
                               => listing'[f] = disk[f]
                        /\ (\E i \in 1..(Done + 1) : Walk[i] = Step("file", f)) =>
                               disk[f] = Absent \/ cache[f].index = Index
                        /\ cache[f].index = Index => disk[f] # Absent /\ cache[f].data = disk[f]
      BY <1>1, <2>2 DEF Undisturbed
    <3>1. \A i \in 1..(Done + 1) : i \in 1..Done \/ i = Done + 1
      BY <2>2
    <3>2. /\ (\E i \in 1..Done : Walk[i] = Step("list", Parent[f])) => listing[f] = disk[f]
          /\ (\E i \in 1..Done : Walk[i] = Step("file", f)) =>
                disk[f] = Absent \/ cache[f].index = Index
          /\ cache[f].index = Index => disk[f] # Absent /\ cache[f].data = disk[f]
      BY <1>2 DEF CacheInv, Undisturbed
    <3>3. Step("list", d) = Step("list", Parent[f]) => d = Parent[f]
      BY DEF Step
    <3>4. Step("list", d) # Step("file", f)
      BY DEF Step
    <3>5. listing'[f] = IF Parent[f] = d THEN disk[f] ELSE listing[f]
      BY <1>4
    <3> QED
      BY <2>2, <3>1, <3>2, <3>3, <3>4, <3>5
  <2>8. CacheFresh'
    BY <2>2 DEF CacheFresh
  <2> QED
    BY <2>2, <2>3, <2>4, <2>5, <2>6, <2>7, <2>8, Types DEF CacheInv
<1> QED
  BY <1>3, <1>4 DEF List

\* What an undisturbed Update knows of a file is kept by the step that deals with
\* another one.
LEMMA OthersUndisturbed ==
    ASSUME CacheInv, NEW f \in Files, Doing("file", f), todo' = Tail(todo),
           UNCHANGED <<disk, listing, quiet, Index>>, quiet,
           NEW g \in Files \ {f}, cache'[g] = cache[g]
    PROVE  /\ (\E i \in 1..Done' : Walk[i] = Step("list", Parent[g])) => listing'[g] = disk'[g]
           /\ (\E i \in 1..Done' : Walk[i] = Step("file", g)) =>
                 disk'[g] = Absent \/ cache'[g].index = Index'
           /\ cache'[g].index = Index' => disk'[g] # Absent /\ cache'[g].data = disk'[g]
<1>1. /\ Done' = Done + 1 /\ Done \in Nat /\ ~Idle
      /\ \A i \in 1..(Done + 1) : i \in 1..Done \/ Walk[i] = Step("file", f)
  BY WalkGoesOn, WalkHead DEF CacheInv
<1>2. Step("file", f) # Step("file", g) /\ Step("file", f) # Step("list", Parent[g])
  BY DEF Step
<1>3. /\ (\E i \in 1..Done : Walk[i] = Step("list", Parent[g])) => listing[g] = disk[g]
      /\ (\E i \in 1..Done : Walk[i] = Step("file", g)) =>
            disk[g] = Absent \/ cache[g].index = Index
      /\ cache[g].index = Index => disk[g] # Absent /\ cache[g].data = disk[g]
  BY <1>1 DEF CacheInv, Undisturbed
<1> QED
  BY <1>1, <1>2, <1>3

\* The walk comes to a file: its directory has been listed.
LEMMA FileListed ==
    ASSUME CacheInv, NEW f \in Files, Doing("file", f), quiet
    PROVE  /\ listing[f] = disk[f]
           /\ cache[f].index = Index => disk[f] # Absent /\ cache[f].data = disk[f]
<1>1. ~Idle /\ Done + 1 \in 1..Len(Walk) /\ Walk[Done + 1] = Step("file", f)
  BY WalkHead DEF CacheInv
<1>2. Done \in Nat
  BY WalkPosition, WalkProperties DEF CacheInv
<1>3. PICK j \in 1..((Done + 1) - 1) : Walk[j] = Step("list", Parent[f])
  BY <1>1, WalkAssumption
<1>4. j \in 1..Done
  BY <1>2, <1>3
<1> QED
  BY <1>1, <1>3, <1>4 DEF CacheInv, Undisturbed

\* Skip and Keep find nothing new.
LEMMA UnchangedFileKeeps ==
    ASSUME CacheInv, NEW f \in Files, Skip(f) \/ Keep(f)
    PROVE  CacheInv'
<1>1. /\ Doing("file", f) /\ todo' = Tail(todo)
      /\ UNCHANGED <<disk, clock, Index, Changed, listing, dirty, result, Tracked, token,
                     seen, settled, quiet, failed>>
      /\ \/ listing[f] = Absent /\ cache' = cache
         \/ /\ listing[f] # Absent /\ cache[f].data # Absent /\ cache[f].mtime = listing[f]
            /\ cache' = [cache EXCEPT ![f].index = Index]
  BY DEF Skip, Keep, ghosts
<1>2. CacheTypes /\ Times /\ TypeOK
  BY Types DEF CacheInv
<1>3. Suffix' /\ ~Idle /\ ~Idle' /\ Done' = Done + 1 /\ Done \in Nat
  BY <1>1, <1>2, WalkGoesOn, WalkHead
<1>4. /\ cache' \in [Files -> [data : Absent..MaxWrites, mtime : 0..MaxWrites, index : 0..MaxUpdates]]
      /\ \A g \in Files : /\ cache'[g].data = cache[g].data /\ cache'[g].mtime = cache[g].mtime
                          /\ g # f => cache'[g] = cache[g]
      /\ cache'[f].index = IF listing[f] = Absent THEN cache[f].index ELSE Index
  <2>1. /\ cache \in [Files -> [data : Absent..MaxWrites, mtime : 0..MaxWrites, index : 0..MaxUpdates]]
        /\ Index \in 0..MaxUpdates
    BY <1>2 DEF CacheTypes
  <2>2. CASE listing[f] = Absent /\ cache' = cache
    BY <2>1, <2>2
  <2>3. CASE listing[f] # Absent /\ cache' = [cache EXCEPT ![f].index = Index]
    <3>1. cache' = [cache EXCEPT ![f] = [cache[f] EXCEPT !.index = Index]]
      BY <2>3
    <3>2. /\ [cache[f] EXCEPT !.index = Index]
                 \in [data : Absent..MaxWrites, mtime : 0..MaxWrites, index : 0..MaxUpdates]
          /\ [cache[f] EXCEPT !.index = Index].data = cache[f].data
          /\ [cache[f] EXCEPT !.index = Index].mtime = cache[f].mtime
          /\ [cache[f] EXCEPT !.index = Index].index = Index
      BY <2>1
    <3> QED
      BY <2>1, <2>3, <3>1, <3>2
  <2> QED
    BY <1>1, <2>2, <2>3
<1>5. CacheTypes'
  BY <1>1, <1>2, <1>4 DEF CacheTypes
<1>6. Times'
  <2>1. \A g \in Files : cache'[g].index <= Index
    BY <1>2, <1>4 DEF Times, CacheTypes
  <2> QED
    BY <1>1, <1>2, <1>4, <2>1 DEF Times
<1>7. Contents' = Contents
  BY <1>4 DEF Contents
<1>8. Session' /\ TokenHolds' /\ Settled'
  BY <1>1, <1>3, <1>7, KnowledgeKept DEF CacheInv
<1>9. Marks'
  BY <1>1, <1>2, MarksKept DEF CacheInv
<1>10. ASSUME quiet PROVE cache'[f].index = Index => disk[f] # Absent /\ cache'[f].data = disk[f]
  <2>1. listing[f] = disk[f] /\ (cache[f].index = Index => disk[f] # Absent /\ cache[f].data = disk[f])
    BY <1>1, <1>10, FileListed
  <2>2. CASE listing[f] = Absent
    BY <1>4, <2>1, <2>2
  <2>3. CASE listing[f] # Absent
    <3>1. disk[f] \in 1..MaxWrites /\ cache[f].mtime = disk[f] /\ cache[f].data # Absent
      BY <1>1, <1>2, <2>1, <2>3 DEF CacheTypes
    <3>2. cache[f].data <= disk[f] /\ cache[f].mtime <= cache[f].data
      BY <1>2, <3>1 DEF Times, Absent, CacheTypes
    <3>3. cache[f].data = disk[f]
      BY <1>2, <3>1, <3>2 DEF CacheTypes, Absent
    <3> QED
      BY <1>4, <2>1, <2>3, <3>3
  <2> QED
    BY <2>2, <2>3
<1>11. Undisturbed'
  <2> SUFFICES ASSUME quiet, NEW g \in Files
               PROVE  /\ (\E i \in 1..Done' : Walk[i] = Step("list", Parent[g]))
                             => listing'[g] = disk'[g]
                      /\ (\E i \in 1..Done' : Walk[i] = Step("file", g)) =>
                             disk'[g] = Absent \/ cache'[g].index = Index'
                      /\ cache'[g].index = Index' => disk'[g] # Absent /\ cache'[g].data = disk'[g]
    BY <1>1 DEF Undisturbed
  <2>1. CASE g # f
    BY <1>1, <1>4, <2>1, OthersUndisturbed
  <2>2. CASE g = f
    BY <1>1, <1>4, <1>10, <2>2, FileListed
  <2> QED
    BY <2>1, <2>2
<1>12. CacheFresh'
  BY <1>3 DEF CacheFresh
<1> QED
  BY <1>3, <1>5, <1>6, <1>8, <1>9, <1>11, <1>12, Types DEF CacheInv

\* A failure to load a file leaves at most that file changed, and marked.
LEMMA LoadFailureKeeps ==
    ASSUME CacheInv, NEW f \in Files, LoadFails(f) \/ LoadOutOfScope(f)
    PROVE  CacheInv'
<1>1. /\ Doing("file", f) /\ listing[f] # Absent
      /\ todo' = <<>> /\ result' = "error" /\ failed' = TRUE
      /\ Changed' = [Changed EXCEPT ![f] = Index]
      /\ UNCHANGED <<disk, clock, Index, listing, dirty, Tracked, token, settled>>
  BY DEF LoadFails, LoadOutOfScope, Modified, Abort
<1>2. CacheTypes /\ Times /\ TypeOK
  BY Types DEF CacheInv
<1>3. ~Idle /\ Index \in Nat /\ token.index \in Nat /\ token.index < Index
  BY <1>1, <1>2, WalkHead DEF CacheInv, TokenHolds, CacheTypes
<1>4. PICK e \in [data : Absent..MaxWrites, mtime : 0..MaxWrites, index : 0..MaxUpdates] :
        /\ cache' = [cache EXCEPT ![f] = e]
        /\ e.data <= clock /\ (disk[f] # Absent => e.data <= disk[f])
        /\ e.mtime <= IF e.data = Absent THEN 0 ELSE e.data
        /\ e.index <= Index
  <2>1. CASE LoadFails(f)
    <3>1. CASE cache[f].data = Absent
      <4>1. cache' = [cache EXCEPT ![f] = EmptyFile]
        BY <2>1, <3>1, <1>2 DEF LoadFails, CacheTypes
      <4> QED
        <5> DEFINE new == EmptyFile
        <5>1. /\ new \in [data : Absent..MaxWrites, mtime : 0..MaxWrites, index : 0..MaxUpdates]
              /\ new.data = 0 /\ new.mtime = 0 /\ new.index = 0
          BY TreeAssumption DEF EmptyFile, Nil, Absent
        <5> HIDE DEF new
        <5>2. 0 <= clock /\ (disk[f] # Absent => 0 <= disk[f])
          BY <1>2 DEF CacheTypes, Absent
        <5>3. cache' = [cache EXCEPT ![f] = new]
          BY <4>1 DEF new
        <5>4. /\ new.mtime <= IF new.data = Absent THEN 0 ELSE new.data
              /\ new.index <= Index
          BY <1>3, <5>1 DEF Absent
        <5>5. new.data <= clock /\ (disk[f] # Absent => new.data <= disk[f])
          BY <5>1, <5>2
        <5> QED
          BY <5>1, <5>3, <5>4, <5>5
    <3>2. CASE cache[f].data # Absent
      <4>1. cache' = [cache EXCEPT ![f] = cache[f]]
        BY <2>1, <3>2, <1>2 DEF LoadFails, CacheTypes
      <4> QED
        BY <1>2, <4>1 DEF CacheTypes, Times
    <3> QED
      BY <3>1, <3>2
  <2>2. CASE LoadOutOfScope(f)
    <3>1. /\ disk[f] # Absent
          /\ cache' = [cache EXCEPT ![f] = [data |-> disk[f], mtime |-> listing[f], index |-> Index]]
      BY <2>2 DEF LoadOutOfScope
    <3> QED
      <4> DEFINE new == [data |-> disk[f], mtime |-> listing[f], index |-> Index]
      <4>1. /\ new \in [data : Absent..MaxWrites, mtime : 0..MaxWrites, index : 0..MaxUpdates]
            /\ new.data = disk[f] /\ new.mtime = listing[f] /\ new.index = Index
        BY <1>1, <1>2, <3>1 DEF CacheTypes, Absent
      <4>2. cache' = [cache EXCEPT ![f] = new]
        BY <3>1
      <4> HIDE DEF new
      <4>3. disk[f] <= clock /\ listing[f] <= disk[f] /\ disk[f] <= disk[f] /\ Index <= Index
        BY <1>2, <1>3, <3>1 DEF Times, CacheTypes, Absent
      <4> QED
        BY <3>1, <4>1, <4>2, <4>3
  <2> QED
    BY <2>1, <2>2
<1>5. /\ CacheTypes'
      /\ \A g \in Files : cache'[g] = IF g = f THEN e ELSE cache[g]
      /\ \A x \in Paths : Changed'[x] = IF x = f THEN Index ELSE Changed[x]
  <2>1. f \in Paths /\ Index \in 1..MaxUpdates
    BY <1>2, <1>3, AboveProperties DEF CacheTypes
  <2>2. result' \in {"none", "ok", "nothing", "error"}
    BY <1>1
  <2> QED
    BY <1>1, <1>2, <1>4, <2>1, <2>2 DEF CacheTypes
<1>6. Times'
  BY <1>1, <1>2, <1>4, <1>5, SMTT(30) DEF Times, CacheTypes
<1>7. ASSUME NEW x \in token.paths \cap Files, token.seen[x][x] # Contents'[x]
      PROVE  ChangedSince(token.index, {x})'
  <2>1. x \in Paths
    BY AboveProperties
  <2>2. CASE x = f
    BY <1>1, <1>3, <1>5, <2>1, <2>2, Since
  <2>3. CASE x # f
    <3>1. Contents'[x] = Contents[x]
      BY <1>5, <2>3 DEF Contents
    <3>2. ChangedSince(token.index, {x})
      BY <1>7, <3>1 DEF CacheInv, TokenHolds
    <3> QED
      BY <1>1, <1>5, <2>1, <2>3, <3>2, Since
  <2> QED
    BY <2>2, <2>3
<1> QED
  BY <1>1, <1>3, <1>5, <1>6, <1>7, FailureKeeps

\* A file that is loaded marks its directory, which has yet to return.
LEMMA LoadMarks ==
    ASSUME CacheInv, NEW f \in Files, Load(f)
    PROVE  /\ dirty' = dirty \cup {Parent[f]}
           /\ \A x \in Paths : Changed'[x] = IF x \in {f, Parent[f]} /\ (x = f \/ x \notin dirty)
                                             THEN Index ELSE Changed[x]
           /\ Changed' \in [Paths -> {Absent} \cup 1..MaxUpdates]
           /\ Marks'
<1>1. /\ Doing("file", f) /\ todo' = Tail(todo) /\ Index' = Index
      /\ dirty' = dirty \cup {Parent[f]}
      /\ Changed' = IF Parent[f] \in dirty THEN [Changed EXCEPT ![f] = Index]
                    ELSE [Changed EXCEPT ![f] = Index, ![Parent[f]] = Index]
  BY DEF Load, Modified, MarkDir
<1>2. CacheTypes /\ TypeOK
  BY Types DEF CacheInv
<1>3. /\ Suffix' /\ ~Idle /\ ~Idle' /\ Done' = Done + 1 /\ Done \in Nat
      /\ Walk[Done + 1] = Step("file", f) /\ Done + 1 \in 1..Len(Walk)
  BY <1>1, <1>2, WalkGoesOn, WalkHead
<1>4. f \in Paths /\ Parent[f] \in Paths /\ Parent[f] # f /\ Index \in 1..MaxUpdates
  <2>1. Index > 0
    BY <1>2, <1>3 DEF CacheInv, TokenHolds, CacheTypes
  <2> QED
    BY <1>2, <2>1, AboveProperties DEF Paths, CacheTypes
<1>5. /\ \A x \in Paths : Changed'[x] = IF x \in {f, Parent[f]} /\ (x = f \/ x \notin dirty)
                                        THEN Index ELSE Changed[x]
      /\ Changed' \in [Paths -> {Absent} \cup 1..MaxUpdates]
  BY <1>1, <1>2, <1>4 DEF CacheTypes
<1>6. ASSUME NEW d \in dirty'
      PROVE  /\ Changed'[d] = Index
             /\ d # Root => \/ Parent[d] \in dirty'
                            \/ \E i \in (Done + 2)..Len(Walk) : Walk[i] = Step("leave", d)
  <2>1. d \in Dirs /\ d \in Paths /\ d # f
    BY <1>1, <1>2, AboveProperties DEF CacheTypes, Paths
  <2>2. CASE d \in dirty
    <3>1. /\ Changed[d] = Index
          /\ d # Root => \/ Parent[d] \in dirty
                         \/ \E i \in (Done + 1)..Len(Walk) : Walk[i] = Step("leave", d)
      BY <1>3, <2>2 DEF CacheInv, Marks
    <3>2. \A i \in (Done + 1)..Len(Walk) : Walk[i] = Step("leave", d) => i \in (Done + 2)..Len(Walk)
      BY <1>3, WalkProperties DEF Step
    <3> QED
      BY <1>1, <1>5, <2>1, <2>2, <3>1, <3>2
  <2>3. CASE d = Parent[f] /\ d \notin dirty
    <3>1. PICK j \in ((Done + 1) + 1)..Len(Walk) : Walk[j] = Step("leave", Parent[f])
      BY <1>3, WalkAssumption
    <3>2. j \in (Done + 2)..Len(Walk)
      BY <1>3, <3>1, WalkProperties
    <3> QED
      BY <1>5, <2>1, <2>3, <3>1, <3>2
  <2> QED
    BY <1>1, <2>2, <2>3
<1>7. Marks'
  <2>1. (Done' + 1)..Len(Walk) = (Done + 2)..Len(Walk)
    BY <1>3, WalkProperties
  <2> QED
    BY <1>1, <1>6, <2>1 DEF Marks
<1> QED
  BY <1>1, <1>5, <1>7

\* A file that is loaded may have changed: it and its directory know.
LEMMA LoadKeeps ==
    ASSUME CacheInv, NEW f \in Files, Load(f)
    PROVE  CacheInv'
<1>1. /\ Doing("file", f) /\ todo' = Tail(todo) /\ disk[f] # Absent /\ listing[f] # Absent
      /\ cache' = [cache EXCEPT ![f] = [data |-> disk[f], mtime |-> listing[f], index |-> Index]]
      /\ UNCHANGED <<disk, clock, Index, listing, result, Tracked, token, seen, settled, quiet, failed>>
  BY DEF Load, Modified, ghosts
<1>2. CacheTypes /\ Times /\ TypeOK
  BY Types DEF CacheInv
<1>3. Suffix' /\ ~Idle /\ ~Idle' /\ token.index < Index
  BY <1>1, <1>2, WalkGoesOn, WalkHead DEF CacheInv, TokenHolds
<1>4. /\ dirty' = dirty \cup {Parent[f]} /\ Marks'
      /\ \A x \in Paths : Changed'[x] = Changed[x] \/ Changed'[x] = Index
      /\ Changed'[f] = Index
      /\ Changed' \in [Paths -> {Absent} \cup 1..MaxUpdates]
  BY LoadMarks, AboveProperties
<1>5. /\ \A g \in Files \ {f} : cache'[g] = cache[g] /\ Contents'[g] = Contents[g]
      /\ cache'[f] = [data |-> disk[f], mtime |-> listing[f], index |-> Index]
  BY <1>1, <1>2 DEF CacheTypes, Contents
<1>6. CacheTypes'
  <2>1. [data |-> disk[f], mtime |-> listing[f], index |-> Index]
            \in [data : Absent..MaxWrites, mtime : 0..MaxWrites, index : 0..MaxUpdates]
    BY <1>1, <1>2 DEF CacheTypes, Absent
  <2>2. dirty' \subseteq Dirs
    BY <1>2, <1>4, AboveProperties DEF CacheTypes
  <2> QED
    BY <1>1, <1>2, <1>4, <2>1, <2>2 DEF CacheTypes
<1>7. Times'
  <2>1. \A x \in Paths : Changed'[x] <= Index
    BY <1>2, <1>4 DEF Times, CacheTypes
  <2>2. disk[f] <= clock /\ listing[f] <= disk[f] /\ disk[f] <= disk[f] /\ Index <= Index
    BY <1>1, <1>2 DEF Times, CacheTypes, Absent
  <2>3. /\ cache'[f].data = disk[f] /\ cache'[f].mtime = listing[f] /\ cache'[f].index = Index
        /\ listing'[f] = listing[f] /\ disk'[f] = disk[f] /\ clock' = clock /\ Index' = Index
    BY <1>1, <1>5
  <2>4. \A g \in Files \ {f} :
          /\ disk[g] <= clock /\ listing[g] <= clock /\ cache'[g].data <= clock
          /\ disk[g] # Absent => listing[g] <= disk[g] /\ cache'[g].data <= disk[g]
          /\ cache'[g].mtime <= IF cache'[g].data = Absent THEN 0 ELSE cache'[g].data
          /\ cache'[g].index <= Index
    BY <1>2, <1>5 DEF Times
  <2>5. listing[f] <= clock
    BY <1>2 DEF Times
  <2> QED
    BY <1>1, <2>1, <2>2, <2>3, <2>4, <2>5 DEF Times
<1>8. Index > token.index /\ token' = token
  BY <1>1, <1>2, <1>3 DEF CacheTypes
<1>9. ASSUME NEW x \in Paths, ChangedSince(token.index, {x})
      PROVE  ChangedSince(token.index, {x})'
  <2>1. Changed'[x] = Changed[x] \/ Changed'[x] = Index
    BY <1>4
  <2> QED
    BY <1>8, <1>9, <2>1, Since
<1>10. Session'
  BY <1>1, <1>3 DEF CacheInv, Session
<1>11. TokenHolds'
  <2>1. ASSUME NEW x \in token.paths \cap Files, token.seen[x][x] # Contents'[x]
        PROVE  ChangedSince(token.index, {x})'
    <3>1. CASE x = f
      BY <1>4, <1>8, <3>1, Since
    <3>2. CASE x # f
      BY <1>5, <1>9, <2>1, <3>2, AboveProperties DEF CacheInv, TokenHolds
    <3> QED
      BY <3>1, <3>2
  <2>2. ASSUME ~failed, NEW x \in token.paths \cap Dirs, NEW g \in Files,
               x \in Above[g], token.seen[x][g] # Contents'[g]
        PROVE  ChangedSince(token.index, {x})' \/ Parent[g] \in dirty'
    <3>1. CASE g = f
      BY <1>4, <3>1
    <3>2. CASE g # f
      <4>1. token.seen[x][g] # Contents[g]
        BY <1>5, <2>2, <3>2
      <4>2. ChangedSince(token.index, {x}) \/ Parent[g] \in dirty
        BY <1>3, <2>2, <4>1 DEF CacheInv, TokenHolds
      <4> QED
        BY <1>4, <1>9, <4>2 DEF Paths
    <3> QED
      BY <3>1, <3>2
  <2> QED
    <3>1. token'.index <= Index' /\ token'.index < Index'
      BY <1>1, <1>3 DEF CacheInv, TokenHolds
    <3> QED
      BY <1>1, <1>3, <2>1, <2>2, <3>1 DEF TokenHolds
<1>12. Settled'
  BY <1>1, <1>3, <1>4, <1>5 DEF CacheInv, Settled
<1>13. Undisturbed'
  <2> SUFFICES ASSUME quiet, NEW g \in Files
               PROVE  /\ (\E i \in 1..Done' : Walk[i] = Step("list", Parent[g]))
                             => listing'[g] = disk'[g]
                      /\ (\E i \in 1..Done' : Walk[i] = Step("file", g)) =>
                             disk'[g] = Absent \/ cache'[g].index = Index'
                      /\ cache'[g].index = Index' => disk'[g] # Absent /\ cache'[g].data = disk'[g]
    BY <1>1 DEF Undisturbed
  <2>1. CASE g # f
    BY <1>1, <1>5, <2>1, OthersUndisturbed
  <2>2. CASE g = f
    BY <1>1, <1>5, <2>2, FileListed
  <2> QED
    BY <2>1, <2>2
<1>14. CacheFresh'
  BY <1>3 DEF CacheFresh
<1> QED
  BY <1>3, <1>4, <1>6, <1>7, <1>10, <1>11, <1>12, <1>13, <1>14, Types DEF CacheInv

\* A directory that returns tells the one above, which has yet to return.
LEMMA LeaveMarks ==
    ASSUME CacheInv, NEW d \in Dirs, Leave(d)
    PROVE  /\ dirty \subseteq dirty' /\ dirty' \subseteq Dirs
           /\ \A x \in Paths : Changed'[x] = Changed[x] \/ Changed'[x] = Index
           /\ Changed' \in [Paths -> {Absent} \cup 1..MaxUpdates]
           /\ Marks'
<1>1. /\ Doing("leave", d) /\ todo' = Tail(todo) /\ Index' = Index
  BY DEF Leave
<1>2. CacheTypes /\ TypeOK
  BY Types DEF CacheInv
<1>3. /\ Suffix' /\ ~Idle /\ ~Idle' /\ Done' = Done + 1 /\ Done \in Nat
      /\ Walk[Done + 1] = Step("leave", d) /\ Done + 1 \in 1..Len(Walk)
  BY <1>1, <1>2, WalkGoesOn, WalkHead
<1>4. Index \in 1..MaxUpdates /\ dirty \subseteq Paths
  BY <1>2, <1>3 DEF CacheInv, TokenHolds, CacheTypes, Paths
<1>5. ASSUME NEW e \in dirty, e # Root, e # d, Parent[e] \notin dirty
      PROVE  \E i \in (Done + 2)..Len(Walk) : Walk[i] = Step("leave", e)
  <2>1. PICK i \in (Done + 1)..Len(Walk) : Walk[i] = Step("leave", e)
    BY <1>3, <1>5 DEF CacheInv, Marks
  <2>2. Step("leave", e) # Step("leave", d)
    BY <1>5 DEF Step
  <2>3. i \in (Done + 2)..Len(Walk)
    BY <1>3, <2>1, <2>2, WalkProperties
  <2> QED
    BY <2>1, <2>3
<1>6. \A e \in dirty : Changed[e] = Index
  BY <1>3 DEF CacheInv, Marks
<1>7. CASE d \in dirty /\ d # Root /\ Parent[d] \notin dirty
  <2>1. /\ dirty' = dirty \cup {Parent[d]}
        /\ Changed' = [Changed EXCEPT ![Parent[d]] = Index]
    BY <1>7 DEF Leave
  <2>2. Parent[d] \in Dirs /\ Parent[d] \in Paths
    BY <1>7, AboveProperties DEF Paths
  <2>3. /\ Changed' \in [Paths -> {Absent} \cup 1..MaxUpdates]
        /\ \A x \in Paths : Changed'[x] = IF x = Parent[d] THEN Index ELSE Changed[x]
    BY <1>2, <1>4, <2>1, <2>2 DEF CacheTypes
  <2>4. \E i \in (Done + 2)..Len(Walk) : Walk[i] = Step("leave", Parent[d])
    <3>1. PICK j \in ((Done + 1) + 1)..Len(Walk) : Walk[j] = Step("leave", Parent[d])
      BY <1>3, <1>7, WalkAssumption
    <3>2. j \in (Done + 2)..Len(Walk)
      BY <1>3, <3>1, WalkProperties
    <3> QED
      BY <3>1, <3>2
  <2>5. Marks'
    BY <1>1, <1>3, <1>4, <1>5, <1>6, <2>1, <2>3, <2>4 DEF Marks
  <2> QED
    BY <1>2, <2>1, <2>2, <2>3, <2>5 DEF CacheTypes
<1>8. CASE ~(d \in dirty /\ d # Root /\ Parent[d] \notin dirty)
  <2>1. dirty' = dirty /\ Changed' = Changed
    BY <1>8 DEF Leave
  <2>2. Marks'
    BY <1>1, <1>3, <1>5, <1>6, <1>8, <2>1 DEF Marks
  <2> QED
    BY <1>2, <2>1, <2>2 DEF CacheTypes
<1> QED
  BY <1>7, <1>8

LEMMA LeaveKeeps ==
    ASSUME CacheInv, NEW d \in Dirs, Leave(d)
    PROVE  CacheInv'
<1>1. /\ Doing("leave", d) /\ todo' = Tail(todo)
      /\ UNCHANGED <<disk, clock, Index, cache, listing, result, Tracked, token, seen, settled,
                     quiet, failed>>
  BY DEF Leave, ghosts
<1>2. CacheTypes /\ Times /\ TypeOK /\ Contents' = Contents
  BY <1>1, Types DEF CacheInv, Contents
<1>3. /\ Suffix' /\ ~Idle /\ ~Idle' /\ Done' = Done + 1 /\ Done \in Nat
      /\ Walk[Done + 1] = Step("leave", d) /\ token.index < Index
  BY <1>1, <1>2, WalkGoesOn, WalkHead DEF CacheInv, TokenHolds
<1>4. /\ dirty \subseteq dirty' /\ dirty' \subseteq Dirs
      /\ \A x \in Paths : Changed'[x] = Changed[x] \/ Changed'[x] = Index
      /\ Changed' \in [Paths -> {Absent} \cup 1..MaxUpdates]
      /\ Marks'
  BY LeaveMarks
<1>5. CacheTypes'
  BY <1>1, <1>2, <1>4 DEF CacheTypes
<1>6. Times'
  <2>1. \A x \in Paths : Changed'[x] <= Index
    BY <1>2, <1>4 DEF Times, CacheTypes
  <2> QED
    BY <1>1, <1>2, <2>1 DEF Times
<1>7. ASSUME NEW x \in Paths, ChangedSince(token.index, {x})
      PROVE  ChangedSince(token.index, {x})'
  <2>1. Changed'[x] = Changed[x] \/ Changed'[x] = Index
    BY <1>4
  <2>2. Index > token.index /\ token' = token
    BY <1>1, <1>2, <1>3 DEF CacheTypes
  <2> QED
    BY <1>7, <2>1, <2>2, Since
<1>8. Session'
  BY <1>1, <1>3 DEF CacheInv, Session
<1>9. TokenHolds'
  <2>1. \A x \in token.paths \cap Files :
          token.seen[x][x] # Contents'[x] => ChangedSince(token.index, {x})'
    BY <1>2, <1>7, AboveProperties DEF CacheInv, TokenHolds
  <2>2. failed \/ \A x \in token.paths \cap Dirs, g \in Files :
          x \in Above[g] /\ token.seen[x][g] # Contents'[g] =>
             ChangedSince(token.index, {x})' \/ Parent[g] \in dirty'
    BY <1>2, <1>3, <1>4, <1>7 DEF CacheInv, TokenHolds, Paths
  <2> QED
    <3>1. token'.index <= Index' /\ token'.index < Index'
      BY <1>1, <1>3 DEF CacheInv, TokenHolds
    <3> QED
      BY <1>1, <1>3, <2>1, <2>2, <3>1 DEF TokenHolds
<1>10. Settled'
  BY <1>1, <1>2, <1>3, <1>4 DEF CacheInv, Settled
<1>11. Undisturbed'
  <2>1. \A i \in 1..(Done + 1) : i \in 1..Done \/ i = Done + 1
    BY <1>3
  <2>2. \A g \in Files : /\ Step("leave", d) # Step("list", Parent[g])
                         /\ Step("leave", d) # Step("file", g)
    BY DEF Step
  <2> QED
    BY <1>1, <1>3, <2>1, <2>2 DEF CacheInv, Undisturbed
<1>12. CacheFresh'
  BY <1>3 DEF CacheFresh
<1> QED
  BY <1>3, <1>4, <1>5, <1>6, <1>8, <1>9, <1>10, <1>11, <1>12, Types DEF CacheInv
-----------------------------------------------------------------------------
(* The end of an Update *)

\* When the walk is over every directory has told the one above it, so that all
\* the directories above a file that was loaded know.
LEMMA AllMarked ==
    ASSUME CacheInv, Doing("finish", Root)
    PROVE  /\ ~Idle /\ Done + 1 = Len(Walk) /\ Done \in Nat
           /\ \A f \in Files : Parent[f] \in dirty => Above[f] \subseteq dirty
           /\ \A d \in dirty : Changed[d] = Index
<1>1. ~Idle /\ Done + 1 \in 1..Len(Walk) /\ Walk[Done + 1] = Step("finish", Root)
  BY WalkHead DEF CacheInv
<1>2. Done + 1 = Len(Walk) /\ Done \in Nat
  <2>1. Done \in Nat
    BY WalkPosition, WalkProperties DEF CacheInv
  <2> QED
    BY <1>1, <2>1, WalkProperties
<1>3. \A i \in (Done + 1)..Len(Walk), d \in dirty : Walk[i] # Step("leave", d)
  BY <1>1, <1>2 DEF Step
<1>4. Upward(dirty) /\ \A d \in dirty : Changed[d] = Index
  BY <1>1, <1>3 DEF CacheInv, Marks, Upward
<1>5. dirty \in SUBSET Dirs
  BY DEF CacheInv, TypeOK
<1> QED
  BY <1>1, <1>2, <1>4, <1>5, AboveProperties

\* Every file has been dealt with.
LEMMA AllVisited ==
    ASSUME CacheInv, Doing("finish", Root), quiet, NEW f \in Files
    PROVE  /\ disk[f] = Absent \/ cache[f].index = Index
           /\ cache[f].index = Index => disk[f] # Absent /\ cache[f].data = disk[f]
<1>1. PICK i \in 1..Len(Walk) : Walk[i] = Step("file", f)
  BY WalkAssumption
<1>2. i # Len(Walk)
  BY <1>1, WalkProperties DEF Step
<1>3. i \in 1..Done /\ ~Idle
  BY <1>1, <1>2, AllMarked
<1> QED
  BY <1>1, <1>3 DEF CacheInv, Undisturbed

LEMMA FinishKeeps ==
    ASSUME CacheInv, Finish
    PROVE  CacheInv'
<1> DEFINE gone == {f \in Files : cache[f].data # Absent /\ cache[f].index # Index}
<1>1. /\ Doing("finish", Root) /\ todo' = <<>>
      /\ cache' = [f \in Files |-> IF f \in gone THEN NoFile ELSE cache[f]]
      /\ Changed' = [x \in Paths |-> IF x \in gone THEN Absent
                                     ELSE IF \E f \in gone : x \in Above[f] THEN Index
                                     ELSE Changed[x]]
      /\ result' \in {"ok", "nothing"}
      /\ settled' = [f \in Files |-> cache'[f].data]
      /\ UNCHANGED <<disk, clock, Index, listing, dirty, Tracked, token, seen, quiet, failed>>
  BY DEF Finish
<1>2. CacheTypes /\ Times /\ TypeOK
  BY Types DEF CacheInv
<1>3. /\ Suffix' /\ Idle' /\ ~Idle /\ token.index < Index /\ token' = token
      /\ Index \in 1..MaxUpdates /\ Index > token.index
  <2>1. Suffix' /\ Idle' /\ ~Idle
    BY <1>1, WalkEnds, AllMarked
  <2>2. token.index < Index
    BY <2>1 DEF CacheInv, TokenHolds
  <2>3. Index \in 0..MaxUpdates /\ token.index \in 0..MaxUpdates
    BY <1>2 DEF CacheTypes
  <2> QED
    BY <1>1, <2>1, <2>2, <2>3
<1>4. /\ gone \subseteq Files
      /\ \A f \in Files : f \in gone <=> cache[f].data # Absent /\ cache[f].index # Index
  OBVIOUS
<1> HIDE DEF gone
<1>5. \A f \in Files : /\ cache'[f] = IF f \in gone THEN NoFile ELSE cache[f]
                       /\ Contents'[f] = IF f \in gone THEN Absent ELSE Contents[f]
  BY <1>1 DEF Contents, NoFile
<1>6. \A x \in Paths : Changed'[x] = IF x \in gone THEN Absent
                                     ELSE IF \E f \in gone : x \in Above[f] THEN Index
                                     ELSE Changed[x]
  BY <1>1
<1>7. NoFile \in [data : Absent..MaxWrites, mtime : 0..MaxWrites, index : 0..MaxUpdates]
  BY TreeAssumption DEF NoFile, Absent, Nil
<1>8. CacheTypes'
  <2>1. cache' \in [Files -> [data : Absent..MaxWrites, mtime : 0..MaxWrites, index : 0..MaxUpdates]]
    BY <1>1, <1>2, <1>7 DEF CacheTypes
  <2>2. Changed' \in [Paths -> {Absent} \cup 1..MaxUpdates]
    BY <1>1, <1>2, <1>3 DEF CacheTypes
  <2>3. settled' \in [Files -> Absent..MaxWrites]
    BY <1>1, <2>1
  <2> QED
    BY <1>1, <1>2, <2>1, <2>2, <2>3 DEF CacheTypes
<1>9. Times'
  <2>1. \A x \in Paths : Changed'[x] <= Index
    BY <1>2, <1>3, <1>6 DEF Times, Absent
  <2>2. ASSUME NEW f \in Files
        PROVE  /\ disk[f] <= clock /\ listing[f] <= clock /\ cache'[f].data <= clock
               /\ disk[f] # Absent => listing[f] <= disk[f] /\ cache'[f].data <= disk[f]
               /\ cache'[f].mtime <= IF cache'[f].data = Absent THEN 0 ELSE cache'[f].data
               /\ cache'[f].index <= Index
    <3>1. CASE f \in gone
      <4>1. cache'[f].data = -1 /\ cache'[f].mtime = 0 /\ cache'[f].index = 0
        BY <1>5, <3>1 DEF NoFile, Absent, Nil
      <4>2. -1 <= clock /\ 0 <= Index /\ (disk[f] # Absent => -1 <= disk[f])
        BY <1>2, <1>3 DEF CacheTypes
      <4>3. disk[f] <= clock /\ listing[f] <= clock /\ (disk[f] # Absent => listing[f] <= disk[f])
        BY <1>2 DEF Times
      <4> QED
        BY <4>1, <4>2, <4>3 DEF Absent
    <3>2. CASE f \notin gone
      BY <1>2, <1>5, <3>2 DEF Times
    <3> QED
      BY <3>1, <3>2
  <2> QED
    BY <1>1, <2>1, <2>2 DEF Times
<1>10. Session'
  BY <1>1, <1>3 DEF CacheInv, Session
<1>11. Marks' /\ Undisturbed'
  BY <1>3 DEF Marks, Undisturbed
<1>12. ASSUME NEW x \in Paths, x \notin gone, ChangedSince(token.index, {x})
       PROVE  ChangedSince(token.index, {x})'
  <2>1. Changed[x] = Absent \/ Changed[x] > token.index
    BY <1>12, Since
  <2>2. Changed'[x] = Changed[x] \/ Changed'[x] = Index
    BY <1>6, <1>12
  <2>3. Changed'[x] = Absent \/ Changed'[x] > token'.index
    BY <1>3, <2>1, <2>2
  <2> QED
    BY <2>3, Since
<1>13. TokenHolds'
  <2>1. ASSUME NEW x \in token.paths \cap Files, token.seen[x][x] # Contents'[x]
        PROVE  ChangedSince(token.index, {x})'
    <3>1. x \in Paths
      BY AboveProperties
    <3>2. CASE x \in gone
      BY <1>6, <3>1, <3>2, Since
    <3>3. CASE x \notin gone
      <4>1. ChangedSince(token.index, {x})
        BY <1>5, <2>1, <3>3 DEF CacheInv, TokenHolds
      <4> QED
        BY <1>12, <3>1, <3>3, <4>1
    <3> QED
      BY <3>2, <3>3
  <2>2. ASSUME ~failed, NEW x \in token.paths \cap Dirs, NEW g \in Files,
               x \in Above[g], token.seen[x][g] # Contents'[g]
        PROVE  ChangedSince(token.index, {x})'
    <3>1. x \in Paths /\ x \notin gone
      BY <1>4, TreeAssumption DEF Paths
    <3>2. CASE Changed'[x] = Index
      BY <1>3, <3>1, <3>2, Since
    <3>3. CASE g \in gone
      BY <1>6, <2>2, <3>1, <3>2, <3>3
    <3>4. CASE g \notin gone
      <4>1. token.seen[x][g] # Contents[g]
        BY <1>5, <2>2, <3>4
      <4>2. ChangedSince(token.index, {x}) \/ Parent[g] \in dirty
        BY <1>3, <2>2, <4>1 DEF CacheInv, TokenHolds
      <4>3. CASE ChangedSince(token.index, {x})
        BY <1>12, <3>1, <4>3
      <4>4. CASE Parent[g] \in dirty
        <5>1. Changed[x] = Index
          BY <1>1, <2>2, <4>4, AllMarked
        <5> QED
          BY <1>6, <3>1, <3>2, <5>1
      <4> QED
        BY <4>2, <4>3, <4>4
    <3> QED
      BY <3>3, <3>4
  <2>3. token'.index <= Index' /\ token'.index < Index'
    BY <1>1, <1>3 DEF CacheInv, TokenHolds
  <2> QED
    BY <1>1, <1>3, <2>1, <2>2, <2>3 DEF TokenHolds
<1>14. Settled'
  BY <1>1 DEF Settled, Contents
<1>15. CacheFresh'
  <2> SUFFICES ASSUME quiet PROVE Contents' = disk'
    BY <1>1 DEF CacheFresh
  <2>1. \A f \in Files : Contents'[f] = disk[f]
    <3> SUFFICES ASSUME NEW f \in Files PROVE Contents'[f] = disk[f]
      OBVIOUS
    <3>1. /\ disk[f] = Absent \/ cache[f].index = Index
          /\ cache[f].index = Index => disk[f] # Absent /\ cache[f].data = disk[f]
      BY <1>1, AllVisited
    <3> QED
      BY <1>4, <1>5, <3>1 DEF Contents
  <2>2. disk = [f \in Files |-> disk[f]]
    BY <1>2 DEF CacheTypes
  <2>3. Contents' = [f \in Files |-> Contents'[f]]
    BY DEF Contents
  <2> QED
    BY <1>1, <2>1, <2>2, <2>3
<1> QED
  BY <1>3, <1>8, <1>9, <1>10, <1>11, <1>13, <1>14, <1>15, Types DEF CacheInv
-----------------------------------------------------------------------------
(* Tracking *)

\* Between two Updates: what is tracked, and what a caller has been given.
LEMMA SessionKeeps ==
    ASSUME CacheInv, Idle, CacheTypes', Session', TokenHolds',
           UNCHANGED <<disk, clock, Index, cache, Changed, walkVars, result, settled, quiet, failed>>
    PROVE  CacheInv'
<1>1. UNCHANGED <<todo, listing, dirty>>
  BY DEF walkVars
<1>2. Idle' /\ Contents' = Contents
  BY <1>1 DEF Idle, Contents
<1>3. TypeOK'
  BY <1>1, Types DEF CacheInv, Suffix
<1>4. Times' /\ Settled'
  BY <1>1, <1>2 DEF CacheInv, Times, Settled
<1>5. Marks' /\ Undisturbed' /\ CacheFresh'
  BY <1>1, <1>2 DEF CacheInv, Marks, Undisturbed, CacheFresh
<1> QED
  BY <1>3, <1>4, <1>5 DEF CacheInv

LEMMA TrackKeeps ==
    ASSUME CacheInv, NEW x \in Watched, Track(x)
    PROVE  CacheInv'
<1>1. /\ Idle
      /\ Tracked' = [Tracked EXCEPT ![x] = IF Changed[x] = Absent THEN 0 ELSE Changed[x]]
      /\ seen' = [y \in (DOMAIN seen) \cup {x} |-> IF y = x THEN Contents ELSE seen[y]]
      /\ UNCHANGED <<disk, clock, Index, cache, Changed, walkVars, result, token, settled, quiet, failed>>
      /\ UNCHANGED <<todo, listing, dirty>>
  BY DEF Track, walkVars
<1>2. CacheTypes /\ Times /\ x \in Paths
  BY Types, TreeAssumption DEF CacheInv, Paths
<1>3. CacheTypes'
  BY <1>1, <1>2, TreeAssumption DEF CacheTypes, Absent
<1>4. Idle' /\ Contents' = Contents
  BY <1>1 DEF Idle, Contents
<1>5. Session'
  <2> SUFFICES ASSUME NEW y \in Paths, Tracked'[y] # Absent
               PROVE  y \in DOMAIN seen' /\ seen'[y] = Contents /\ Tracked'[y] <= Index
    BY <1>1, <1>4 DEF Session
  <2>1. CASE y = x
    <3>1. Tracked'[x] \in {0, Changed[x]} /\ Changed[x] <= Index /\ 0 <= Index
      BY <1>1, <1>2 DEF CacheTypes, Times
    <3> QED
      BY <1>1, <2>1, <3>1
  <2>2. CASE y # x
    <3>1. Tracked[y] # Absent /\ Tracked'[y] = Tracked[y]
      BY <1>1, <1>2, <2>2 DEF CacheTypes
    <3> QED
      BY <1>1, <2>2, <3>1 DEF CacheInv, Session
  <2> QED
    BY <2>1, <2>2
<1>6. TokenHolds'
  <2>1. \A y : ChangedSince(token.index, {y})' <=> ChangedSince(token.index, {y})
    BY <1>1 DEF ChangedSince
  <2> QED
    BY <1>1, <1>4, <2>1 DEF CacheInv, TokenHolds
<1> QED
  BY <1>1, <1>3, <1>5, <1>6, SessionKeeps

\* The highest of some indexes is one of them.
LEMMA MaxOfIndexes ==
    ASSUME NEW n \in Nat, NEW S \in SUBSET (0..n), S # {}
    PROVE  Max(S) \in S
<1> DEFINE T == {k \in Nat : n - k \in S}
<1>1. T # {} /\ T \subseteq Nat
  <2>1. PICK y \in S : TRUE
    OBVIOUS
  <2>2. n - y \in Nat /\ n - (n - y) = y
    OBVIOUS
  <2> QED
    BY <2>2
<1> HIDE DEF T
<1>2. PICK k \in T : \A l \in T : ~ (<<l, k>> \in OpToRel(<, Nat))
  BY <1>1, NatLessThanWellFounded, WFMin, Zenon
<1> USE DEF T
<1>3. \A l \in T : ~ l < k
  BY <1>1, <1>2 DEF OpToRel
<1>4. n - k \in S /\ \A y \in S : n - k >= y
  <2>1. ASSUME NEW y \in S PROVE n - k >= y
    <3>1. n - y \in Nat /\ n - (n - y) = y
      OBVIOUS
    <3>2. ~ (n - y) < k
      BY <1>3, <3>1
    <3> QED
      BY <3>1, <3>2
  <2> QED
    BY <2>1
<1>5. \E m \in S : \A y \in S : m >= y
  BY <1>4
<1> QED
  BY <1>5 DEF Max

LEMMA TrackingDataKeeps ==
    ASSUME CacheInv, TrackingData
    PROVE  CacheInv'
<1> DEFINE paths == {x \in Paths : Tracked[x] # Absent}
           indexes == {Tracked[x] : x \in paths}
<1>1. /\ Idle /\ paths # {}
      /\ token' = [index |-> Max(indexes), paths |-> paths, seen |-> seen]
      /\ Tracked' = [x \in Paths |-> Absent]
      /\ UNCHANGED <<disk, clock, Index, cache, Changed, walkVars, result, settled, quiet, failed>>
      /\ UNCHANGED <<todo, listing, dirty>>
  BY DEF TrackingData, walkVars
<1>2. CacheTypes /\ Times
  BY Types DEF CacheInv
<1>3. Max(indexes) \in 0..MaxUpdates /\ Max(indexes) <= Index
  <2>1. indexes # {} /\ indexes \in SUBSET (0..MaxUpdates)
    <3>1. \A x \in paths : Tracked[x] \in 0..MaxUpdates
      BY <1>2 DEF CacheTypes, Absent
    <3>2. indexes # {}
      BY <1>1
    <3> QED
      BY <3>1, <3>2
  <2>2. Max(indexes) \in indexes
    <3> HIDE DEF indexes
    <3> QED
      BY <2>1, MaxOfIndexes, TreeAssumption
  <2>3. \A x \in paths : Tracked[x] <= Index
    BY DEF CacheInv, Session
  <2> QED
    BY <2>1, <2>2, <2>3
<1>4. \A x \in paths : seen[x] = Contents
  BY DEF CacheInv, Session
<1> HIDE DEF indexes
<1>5. token'.index = Max(indexes) /\ token'.paths = paths /\ token'.seen = seen
  BY <1>1
<1>6. CacheTypes'
  <2>1. Tracked' \in [Paths -> Absent..MaxUpdates]
    BY <1>1, TreeAssumption DEF Absent
  <2>2. token'.index \in 0..MaxUpdates /\ token'.paths \subseteq Paths
    BY <1>3, <1>5
  <2> HIDE DEF paths
  <2> QED
    BY <1>1, <1>2, <2>1, <2>2 DEF CacheTypes
<1>7. Session'
  BY <1>1 DEF Session
<1>8. TokenHolds'
  <2>1. Contents' = Contents /\ Idle' /\ Index' = Index
    BY <1>1 DEF Contents, Idle
  <2> QED
    BY <1>3, <1>4, <1>5, <2>1 DEF TokenHolds
<1> QED
  BY <1>1, <1>6, <1>7, <1>8, SessionKeeps

LEMMA ResetKeeps ==
    ASSUME CacheInv, ResetTracking
    PROVE  CacheInv'
<1>1. /\ Idle /\ Tracked' = [x \in Paths |-> Absent]
      /\ UNCHANGED <<disk, clock, Index, cache, Changed, walkVars, result, token, settled, quiet, failed>>
      /\ UNCHANGED <<todo, listing, dirty>>
  BY DEF ResetTracking, walkVars
<1>2. CacheTypes /\ Contents' = Contents /\ Idle'
  BY <1>1, Types DEF CacheInv, Contents, Idle
<1>3. CacheTypes'
  BY <1>1, <1>2, TreeAssumption DEF CacheTypes, Absent
<1>4. Session'
  BY <1>1 DEF Session
<1>5. TokenHolds'
  <2>1. \A y : ChangedSince(token.index, {y})' <=> ChangedSince(token.index, {y})
    BY <1>1 DEF ChangedSince
  <2> QED
    BY <1>1, <1>2, <2>1 DEF CacheInv, TokenHolds
<1> QED
  BY <1>1, <1>3, <1>4, <1>5, SessionKeeps
-----------------------------------------------------------------------------
(* The theorems *)

LEMMA CacheInit ==
    ASSUME Init PROVE CacheInv
<1>1. /\ disk = [f \in Files |-> Absent] /\ clock = 0 /\ Index = 0
      /\ cache = [f \in Files |-> NoFile]
      /\ Changed = [x \in Paths |-> Absent]
      /\ todo = <<>> /\ listing = [f \in Files |-> Absent] /\ dirty = {}
      /\ result = "none" /\ Tracked = [x \in Paths |-> Absent]
      /\ token = NoToken /\ settled = Contents
  BY DEF Init
<1>2. Suffix /\ Idle
  <2>1. SubSeq(Walk, Len(Walk) + 1, Len(Walk)) = <<>>
    BY WalkProperties, SubSeqEmpty
  <2> QED
    BY <1>1, <2>1, WalkProperties DEF Suffix, Idle
<1>3. token.index = 0 /\ token.paths = {}
  BY <1>1 DEF NoToken
<1>4. /\ cache \in [Files -> [data : Absent..MaxWrites, mtime : 0..MaxWrites, index : 0..MaxUpdates]]
      /\ \A f \in Files : cache[f].data = -1 /\ cache[f].mtime = 0 /\ cache[f].index = 0
  BY <1>1, TreeAssumption DEF NoFile, Absent, Nil
<1>5. settled \in [Files -> Absent..MaxWrites]
  BY <1>1, <1>4 DEF Contents
<1>6. CacheTypes
  BY <1>1, <1>3, <1>4, <1>5, TreeAssumption DEF CacheTypes, Absent
<1>7. Times
  BY <1>1, <1>4, TreeAssumption DEF Times, Absent
<1>8. Session
  BY <1>1 DEF Session
<1>9. TokenHolds
  BY <1>1, <1>2, <1>3 DEF TokenHolds
<1>10. Settled
  BY <1>1 DEF Settled
<1>11. Marks /\ Undisturbed /\ CacheFresh
  BY <1>1, <1>2 DEF Marks, Undisturbed, CacheFresh
<1> QED
  BY <1>2, <1>6, <1>7, <1>8, <1>9, <1>10, <1>11, Types DEF CacheInv

LEMMA CacheStep ==
    ASSUME CacheInv, [Next]_vars PROVE CacheInv'
<1>1. CASE Next
  <2>1. CASE \E f \in Files : Write(f) \/ Remove(f)
    BY <2>1, EditKeeps
  <2>2. CASE NoSession /\ StartUpdate
    BY <2>2, StartKeeps
  <2>3. CASE UpdateStep
    <3>1. CASE \E d \in Dirs : List(d) \/ Leave(d)
      BY <3>1, ListKeeps, LeaveKeeps
    <3>2. CASE \E f \in Files : Skip(f) \/ Keep(f)
      BY <3>2, UnchangedFileKeeps
    <3>3. CASE \E f \in Files : Load(f)
      BY <3>3, LoadKeeps
    <3>4. CASE \E f \in Files : LoadFails(f) \/ LoadOutOfScope(f)
      BY <3>4, LoadFailureKeeps
    <3>5. CASE Finish
      BY <3>5, FinishKeeps
    <3> QED
      BY <2>3, <3>1, <3>2, <3>3, <3>4, <3>5 DEF UpdateStep
  <2>4. CASE \E x \in Watched : Track(x)
    BY <2>4, TrackKeeps
  <2>5. CASE TrackingData
    BY <2>5, TrackingDataKeeps
  <2>6. CASE ResetTracking
    BY <2>6, ResetKeeps
  <2> QED
    BY <1>1, <2>1, <2>2, <2>3, <2>4, <2>5, <2>6 DEF Next
<1>2. CASE UNCHANGED vars
  <2>1. /\ UNCHANGED <<disk, clock, Index, cache, Changed, todo, listing, dirty, result, Tracked,
                       token, seen, settled, quiet, failed>>
    BY <1>2 DEF vars, walkVars, ghosts
  <2>2. Idle' = Idle /\ Contents' = Contents /\ Done' = Done
    BY <2>1 DEF Idle, Contents, Done
  <2>3. TypeOK'
    BY <2>1, Types DEF CacheInv, CacheTypes, Suffix
  <2>4. Session' /\ TokenHolds' /\ Settled'
    BY <2>1, <2>2, KnowledgeKept DEF CacheInv
  <2>5. Times' /\ Marks'
    BY <2>1, <2>2 DEF CacheInv, Times, Marks
  <2>6. Undisturbed' /\ CacheFresh'
    BY <2>1, <2>2 DEF CacheInv, Undisturbed, CacheFresh
  <2> QED
    BY <2>3, <2>4, <2>5, <2>6 DEF CacheInv
<1> QED
  BY <1>1, <1>2

\* The invariant of the cache: the types; the marks that an Update leaves in
\* Changed on its way; what callers of ChangedSince rest on; and CacheFresh, that
\* an Update nobody disturbs leaves the cache as the disk is
\* (filecache.go:116-160, 162-266).
THEOREM CacheInvariant == Spec => []CacheInv
<1>1. Init => CacheInv
  BY CacheInit
<1>2. CacheInv /\ [Next]_vars => CacheInv'
  BY CacheStep
<1> QED
  BY <1>1, <1>2, PTL DEF Spec

\* ChangedSince tells of every file that is no longer what it was when it was
\* tracked, also after an Update that failed (filecache.go:60-71, 91-106, 206-238).
THEOREM FileChangesAreSeen == Spec => []FileChangesSeen
<1>1. CacheInv => FileChangesSeen
  <2> SUFFICES ASSUME CacheInv, Idle, NEW x \in token.paths \cap Files,
                      Differs(x, token.seen[x])
               PROVE  ChangedSince(token.index, {x})
    BY DEF FileChangesSeen
  <2>1. PICK f \in Files : (f = x \/ x \in Above[f]) /\ Contents[f] # token.seen[x][f]
    BY DEF Differs
  <2>2. f = x
    BY <2>1, AboveProperties, TreeAssumption DEF Paths
  <2> QED
    BY <2>1, <2>2 DEF CacheInv, TokenHolds
<1> QED
  BY <1>1, CacheInvariant, PTL

\* ChangedSince tells of a change of any file below a directory that was tracked,
\* as long as no Update has failed (filecache.go:186-194).
THEOREM DirChangesAreSeen == Spec => []DirChangesSeen
<1>1. CacheInv => DirChangesSeen
  <2> SUFFICES ASSUME CacheInv, Idle, ~failed, NEW x \in token.paths \cap Dirs,
                      Differs(x, token.seen[x])
               PROVE  ChangedSince(token.index, {x})
    BY DEF DirChangesSeen
  <2>1. PICK f \in Files : (f = x \/ x \in Above[f]) /\ Contents[f] # token.seen[x][f]
    BY DEF Differs
  <2>2. f # x
    BY TreeAssumption
  <2> QED
    BY <2>1, <2>2 DEF CacheInv, TokenHolds
<1> QED
  BY <1>1, CacheInvariant, PTL

\* Update returns ErrNothingChanged only if the cache is what it was when an Update
\* last succeeded, and the disk too unless a file was written since the Update
\* began, as long as none has failed (filecache.go:20, 157).
THEOREM NothingChangedIsTrue == Spec => NothingChanged
<1>1. CacheInv /\ CacheInv' /\ [Next]_vars =>
        [Finish /\ result' = "nothing" /\ ~failed =>
            settled' = settled /\ (quiet => disk = settled)]_vars
  <2> SUFFICES ASSUME CacheInv, CacheInv', Finish, result' = "nothing", ~failed
               PROVE  settled' = settled /\ (quiet => disk = settled)
    OBVIOUS
  <2> DEFINE gone == {f \in Files : cache[f].data # Absent /\ cache[f].index # Index}
  <2>1. /\ cache' = [f \in Files |-> IF f \in gone THEN NoFile ELSE cache[f]]
        /\ settled' = [f \in Files |-> cache'[f].data]
        /\ dirty = {} /\ gone = {}
    BY DEF Finish
  <2> HIDE DEF gone
  <2>2. \A f \in Files : settled'[f] = Contents[f]
    BY <2>1 DEF Contents
  <2>3. \A f \in Files : Contents[f] = settled[f]
    BY <2>1 DEF CacheInv, Settled
  <2>4. settled = [f \in Files |-> settled[f]]
    BY DEF CacheInv, TypeOK
  <2>5. settled' = [f \in Files |-> settled'[f]]
    BY <2>1
  <2>6. settled' = settled
    BY <2>2, <2>3, <2>4, <2>5
  <2>7. quiet => Contents' = disk'
    BY DEF Finish, CacheInv, CacheFresh, Idle
  <2>8. Contents' = settled' /\ disk' = disk
    BY <2>1 DEF Contents, Finish
  <2> QED
    BY <2>6, <2>7, <2>8
<1> QED
  BY <1>1, CacheInvariant, PTL DEF Spec, NothingChanged
=============================================================================
