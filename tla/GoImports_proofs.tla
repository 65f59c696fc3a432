-------------------------- MODULE GoImports_proofs --------------------------
(***************************************************************************)
(* Proofs about the dependencies of a service (GoImports), for any         *)
(* packages and repositories: what SaveImports leaves in .goimports, what  *)
(* a developer has cleared there, and how Install ends.                    *)
(***************************************************************************)
EXTENDS GoImports, TLAPS

\* What every state of the tool satisfies, in one piece.
Inv == ImportsInv /\ SavedImports /\ InstallEnds
-----------------------------------------------------------------------------
(* Revisions, files and packages *)

\* A revision is a repository with one of its commits, and not the empty one.
LEMMA Revisions ==
    /\ \A r \in Repos : \A n \in 1..MaxRev[r] : <<r, n>> \in Revision
    /\ \A v \in Revision : \E r \in Repos : \E n \in 1..MaxRev[r] : v = <<r, n>>
    /\ NoRevision \notin Revision
<1>1. \A r \in Repos : \A n \in 1..MaxRev[r] : <<r, n>> \in Revision
  BY DEF Revision
<1>2. \A v \in Revision : \E r \in Repos : \E n \in 1..MaxRev[r] : v = <<r, n>>
  BY DEF Revision
<1>3. \A r, n : <<r, n>> # <<>>
  OBVIOUS
<1>4. NoRevision \notin Revision
  BY <1>2, <1>3 DEF NoRevision
<1> QED
  BY <1>1, <1>2, <1>4

\* A listing is a function from some repositories to entries.
LEMMA ListingIsFunction ==
    \A f : f \in Listings <=> (DOMAIN f \subseteq Repos /\ f \in [DOMAIN f -> Entry])
<1>1. ASSUME NEW f, f \in Listings PROVE DOMAIN f \subseteq Repos /\ f \in [DOMAIN f -> Entry]
  <2>1. PICK S \in SUBSET Repos : f \in [S -> Entry]
    BY <1>1 DEF Listings
  <2> QED
    BY <2>1
<1>2. ASSUME NEW f, DOMAIN f \subseteq Repos, f \in [DOMAIN f -> Entry] PROVE f \in Listings
  BY <1>2 DEF Listings
<1> QED
  BY <1>1, <1>2

\* The file without entries, which pins nothing.
LEMMA EmptyListing ==
    NoEntries \in Listings /\ DOMAIN NoEntries = {}
<1>1. DOMAIN NoEntries = {}
  BY DEF NoEntries
<1>2. NoEntries \in [{} -> Entry]
  BY DEF NoEntries
<1> QED
  BY <1>1, <1>2 DEF Listings

\* go list finds packages, and they are in repositories.
LEMMA NeedsRepos ==
    \A imports \in SUBSET Packages :
        GetInfo(imports) \subseteq Packages /\ Needs(imports) \subseteq Repos
<1> SUFFICES ASSUME NEW imports \in SUBSET Packages
             PROVE  GetInfo(imports) \subseteq Packages /\ Needs(imports) \subseteq Repos
  OBVIOUS
<1>1. GetInfo(imports) \subseteq Packages
  BY RepoAssumption DEF GetInfo
<1> QED
  BY <1>1, RepoAssumption DEF Needs
-----------------------------------------------------------------------------
(* The world around the tool *)

\* What is still to be shown of a step of the developer: the tool does not run,
\* and there is no result to account for.
LEMMA DeveloperStep ==
    ASSUME Inv, Developer, TypeOK', Clones', unpinned' \cap Pinned' = {},
           unpinned' \subseteq Listed', Committed'
    PROVE  Inv'
<1>1. pc = "idle" /\ pc' = "idle" /\ result' = "none"
  BY DEF Developer
<1>2. UnpinnedStays' /\ Cleared'
  BY <1>1 DEF UnpinnedStays, Cleared
<1>3. Running' /\ Gathered' /\ Restoring'
  BY <1>1 DEF Running, Gathered, Restoring
<1>4. SavedImports' /\ InstallEnds'
  BY <1>1 DEF SavedImports, SavedComplete, SavedRevisions, InstallEnds, InstallRestores,
      InstallAvailable
<1> QED
  BY <1>2, <1>3, <1>4 DEF Inv, ImportsInv

\* While the file and the list of what strayed are left alone, and no commit is
\* lost, what the file says stays true.
LEMMA FileKept ==
    ASSUME Committed, file' = file, strayed' = strayed, latest \in [Repos -> Nat],
           latest' \in [Repos -> Nat], \A r \in Repos : latest[r] <= latest'[r],
           Listed \subseteq Repos
    PROVE  Committed' /\ Listed' = Listed /\ Pinned' = Pinned
<1>1. Listed' = Listed /\ Pinned' = Pinned
  BY DEF Listed, Pinned
<1>2. \A r \in Pinned : 1..latest[r] \subseteq 1..latest'[r]
  BY DEF Pinned
<1> QED
  BY <1>1, <1>2 DEF Committed

LEMMA CommitStep ==
    ASSUME Inv, NEW r \in Repos, Commit(r)
    PROVE  Inv'
<1> USE DEF Inv, ImportsInv
<1>0. /\ latest' = [latest EXCEPT ![r] = latest[r] + 1] /\ latest[r] < MaxRev[r]
      /\ UNCHANGED <<head, known, outside, file, torn, pc, todo, repos, dir, skip, result,
                     wanted, strayed, unpinned, had>>
  BY DEF Commit, tool, history
<1>1. latest \in [Repos -> Nat] /\ latest' \in [Repos -> Nat] /\ Listed \subseteq Repos
  BY <1>0, ListingIsFunction DEF TypeOK, Listed
<1>2. \A q \in Repos : latest[q] <= latest'[q]
  BY <1>0, <1>1
<1>3. Committed' /\ Listed' = Listed /\ Pinned' = Pinned
  BY <1>0, <1>1, <1>2, FileKept
<1>4. TypeOK'
  BY <1>0, <1>1 DEF TypeOK
<1>5. Clones'
  BY <1>0, <1>1, <1>2, RepoAssumption DEF Clones, TypeOK
<1>6. UnpinnedStays' /\ Cleared' /\ Running'
  BY <1>0, <1>3 DEF UnpinnedStays, Cleared, Running
<1>7. \A q : At(q)' = At(q)
  BY <1>0 DEF At
<1>8. Gathered' /\ Restoring'
  BY <1>0, <1>3, <1>7 DEF Gathered, Restoring
<1>9. SavedImports' /\ InstallEnds'
  BY <1>0, <1>3, <1>7 DEF SavedImports, SavedComplete, SavedRevisions, InstallEnds,
      InstallRestores, InstallAvailable
<1> QED
  BY <1>3, <1>4, <1>5, <1>6, <1>8, <1>9

LEMMA PullStep ==
    ASSUME Inv, NEW r \in Repos, Pull(r)
    PROVE  Inv'
<1>0. /\ Developer /\ latest' = latest
      /\ head' = [head EXCEPT ![r] = latest[r]] /\ known' = [known EXCEPT ![r] = latest[r]]
      /\ UNCHANGED <<outside, file, torn, unpinned, strayed>>
  BY DEF Pull, Developer
<1>1. TypeOK /\ Clones /\ Committed /\ UnpinnedStays /\ Cleared
  BY DEF Inv, ImportsInv
<1>2. TypeOK'
  BY <1>0, <1>1, RepoAssumption DEF TypeOK, Developer
<1>3. Clones'
  BY <1>0, <1>1, RepoAssumption DEF TypeOK, Clones
<1>4. Committed' /\ Listed' = Listed /\ Pinned' = Pinned
  BY <1>0, <1>1, FileKept, ListingIsFunction DEF TypeOK, Listed
<1>5. unpinned' \cap Pinned' = {} /\ unpinned' \subseteq Listed'
  BY <1>0, <1>1, <1>4 DEF UnpinnedStays, Cleared, Developer
<1> QED
  BY <1>0, <1>2, <1>3, <1>4, <1>5, DeveloperStep

LEMMA CheckoutStep ==
    ASSUME Inv, NEW r \in Repos, Checkout(r)
    PROVE  Inv'
<1>0. PICK n \in 1..known[r] : head' = [head EXCEPT ![r] = n]
  BY DEF Checkout
<1>1. Developer /\ UNCHANGED <<latest, known, outside, file, torn, unpinned, strayed>>
  BY DEF Checkout, Developer
<1>2. TypeOK /\ Clones /\ Committed /\ UnpinnedStays /\ Cleared
  BY DEF Inv, ImportsInv
<1>3. TypeOK'
  BY <1>0, <1>1, <1>2, RepoAssumption DEF TypeOK, Developer
<1>4. Clones'
  BY <1>0, <1>1, <1>2, RepoAssumption DEF TypeOK, Clones
<1>5. Committed' /\ Listed' = Listed /\ Pinned' = Pinned
  BY <1>1, <1>2, FileKept, ListingIsFunction DEF TypeOK, Listed
<1>6. unpinned' \cap Pinned' = {} /\ unpinned' \subseteq Listed'
  BY <1>1, <1>2, <1>5 DEF UnpinnedStays, Cleared, Developer
<1> QED
  BY <1>1, <1>3, <1>4, <1>5, <1>6, DeveloperStep

LEMMA NewMachineStep ==
    ASSUME Inv, NewMachine
    PROVE  Inv'
<1>0. /\ Developer /\ latest' = latest
      /\ head' = [r \in Repos |-> IF r = Project THEN latest[r] ELSE 0]
      /\ known' = head' /\ outside' = {}
      /\ UNCHANGED <<file, torn, unpinned, strayed>>
  BY DEF NewMachine, Developer
<1>1. TypeOK /\ Clones /\ Committed /\ UnpinnedStays /\ Cleared
  BY DEF Inv, ImportsInv
<1>2. TypeOK'
  BY <1>0, <1>1, RepoAssumption DEF TypeOK, Developer
<1>3. Clones'
  BY <1>0, <1>1, RepoAssumption DEF TypeOK, Clones
<1>4. Committed' /\ Listed' = Listed /\ Pinned' = Pinned
  BY <1>0, <1>1, FileKept, ListingIsFunction DEF TypeOK, Listed
<1>5. unpinned' \cap Pinned' = {} /\ unpinned' \subseteq Listed'
  BY <1>0, <1>1, <1>4 DEF UnpinnedStays, Cleared, Developer
<1> QED
  BY <1>0, <1>2, <1>3, <1>4, <1>5, DeveloperStep

LEMMA UnpinStep ==
    ASSUME Inv, NEW r \in Repos, Unpin(r)
    PROVE  Inv'
<1>0. /\ Developer /\ latest' = latest /\ r \in Pinned
      /\ file' = [file EXCEPT ![r].rev = NoRevision] /\ unpinned' = unpinned \cup {r}
      /\ UNCHANGED <<head, known, outside, torn, strayed>>
  BY DEF Unpin, Developer
<1>1. TypeOK /\ Clones /\ Committed /\ UnpinnedStays /\ Cleared
  BY DEF Inv, ImportsInv
<1>2. Listed \subseteq Repos /\ file \in [Listed -> Entry] /\ r \in Listed
  BY <1>0, <1>1, ListingIsFunction DEF TypeOK, Listed, Pinned
<1>3. Listed' = Listed /\ file'[r] = [file[r] EXCEPT !.rev = NoRevision]
      /\ \A q \in Listed : q # r => file'[q] = file[q]
  BY <1>0, <1>2 DEF Listed
<1>4. file' \in [Listed -> Entry]
  BY <1>0, <1>2 DEF Entry
<1>5. file' \in Listings
  BY <1>2, <1>3, <1>4, ListingIsFunction DEF Listed
<1>6. Pinned' = Pinned \ {r}
  BY <1>2, <1>3 DEF Pinned, Entry
<1>7. TypeOK'
  BY <1>0, <1>1, <1>5, RepoAssumption DEF TypeOK, Developer
<1>8. Clones' /\ Committed'
  BY <1>0, <1>1, <1>3, <1>6 DEF Clones, Committed, Pinned
<1>9. unpinned' \cap Pinned' = {} /\ unpinned' \subseteq Listed'
  BY <1>0, <1>1, <1>2, <1>3, <1>6 DEF UnpinnedStays, Cleared, Developer
<1> QED
  BY <1>0, <1>7, <1>8, <1>9, DeveloperStep
-----------------------------------------------------------------------------
(* SaveImports *)

\* go get keeps the clones there are, and makes of the missing ones it gets what
\* has been committed last.
LEMMA GoGetStep ==
    ASSUME TypeOK, Clones, NEW pkgs \in SUBSET Packages, GoGet(pkgs)
    PROVE  /\ latest' = latest /\ outside' = outside
           /\ head' \in [Repos -> Nat] /\ known' \in [Repos -> Nat] /\ Clones'
           /\ \A r \in Repos :
                \/ head'[r] = head[r] /\ known'[r] = known[r]
                \/ head[r] = 0 /\ head'[r] = latest[r] /\ known'[r] = latest[r]
<1>1. PICK got \in SUBSET {r \in Needs(pkgs) : head[r] = 0} :
         /\ head' = [r \in Repos |-> IF r \in got THEN latest[r] ELSE head[r]]
         /\ known' = [r \in Repos |-> IF r \in got THEN latest[r] ELSE known[r]]
         /\ UNCHANGED <<latest, outside>>
  BY DEF GoGet
<1>2. head' \in [Repos -> Nat] /\ known' \in [Repos -> Nat]
  BY <1>1 DEF TypeOK
<1>3. \A r \in Repos :
         \/ head'[r] = head[r] /\ known'[r] = known[r]
         \/ head[r] = 0 /\ head'[r] = latest[r] /\ known'[r] = latest[r]
  BY <1>1
<1>4. Clones'
  BY <1>1, <1>2, <1>3, RepoAssumption DEF Clones, TypeOK
<1> QED
  BY <1>1, <1>2, <1>3, <1>4

\* A run that ends without having changed a clone or the file leaves the rest of
\* the invariant to its result.
LEMMA ExitStep ==
    ASSUME Inv, NEW how \in {"saved", "installed", "unavailable", "stopped"}, Exit(how),
           UNCHANGED <<workspace, dir, wanted, had>>,
           file' \in Listings, torn' \in BOOLEAN, strayed' \subseteq Repos,
           unpinned' \subseteq (Listed \ Pinned)', Committed',
           SavedImports', InstallEnds'
    PROVE  Inv'
<1> USE DEF Exit
<1>1. TypeOK'
  <2>1. pc' = "idle" /\ todo' = {} /\ repos' = NoEntries /\ skip' = {} /\ result' = how
    OBVIOUS
  <2>2. unpinned' \subseteq Repos
    BY ListingIsFunction DEF Listed
  <2> QED
    BY <2>1, <2>2, EmptyListing DEF TypeOK, workspace, Inv, ImportsInv
<1>2. Clones' /\ Running' /\ Gathered' /\ Restoring'
  BY DEF Clones, Running, Gathered, Restoring, workspace, Inv, ImportsInv
<1>3. UnpinnedStays' /\ Cleared'
  BY DEF UnpinnedStays, Cleared
<1> QED
  BY <1>1, <1>2, <1>3 DEF Inv, ImportsInv

\* While the tool runs there is no result, and nothing to show of one.
LEMMA NoResult ==
    ASSUME result' = "none", pc' = "save" => dir' = Project
    PROVE  Running' /\ SavedImports' /\ InstallEnds'
  BY DEF Running, SavedImports, SavedComplete, SavedRevisions, InstallEnds, InstallRestores,
      InstallAvailable

LEMMA DownloadStep ==
    ASSUME Inv, NEW imports \in SUBSET Packages, Download(imports)
    PROVE  Inv'
<1>0. /\ pc = "idle" /\ pc' = "save" /\ dir' = Project /\ result' = "none"
      /\ GoGet(imports) /\ wanted' = GetInfo(imports) /\ had' = {}
      /\ UNCHANGED <<file, torn, todo, repos, skip, strayed, unpinned>>
  BY DEF Download, Start
<1>1. TypeOK /\ Clones /\ Committed /\ UnpinnedStays /\ Cleared
  BY DEF Inv, ImportsInv
<1>2. /\ latest' = latest /\ outside' = outside
      /\ head' \in [Repos -> Nat] /\ known' \in [Repos -> Nat] /\ Clones'
  BY <1>0, <1>1, GoGetStep
<1>3. TypeOK'
  BY <1>0, <1>1, <1>2, NeedsRepos, RepoAssumption DEF TypeOK
<1>4. Committed' /\ Listed' = Listed /\ Pinned' = Pinned
  BY <1>0, <1>1, <1>2, FileKept, ListingIsFunction DEF TypeOK, Listed
<1>5. UnpinnedStays' /\ Cleared' /\ Gathered' /\ Restoring'
  BY <1>0, <1>1, <1>4 DEF UnpinnedStays, Cleared, Gathered, Restoring
<1> QED
  BY <1>0, <1>2, <1>3, <1>4, <1>5, NoResult DEF Inv, ImportsInv

LEMMA ReadPreviousStep ==
    ASSUME Inv, ReadPrevious
    PROVE  Inv'
<1>0. /\ pc = "save" /\ \A p \in wanted : head[Repo[p]] # 0
      /\ skip' = Listed \ Pinned /\ todo' = wanted /\ repos' = NoEntries /\ pc' = "scan"
      /\ UNCHANGED <<latest, head, known, outside, file, torn, dir, result,
                     wanted, strayed, unpinned, had>>
  BY DEF ReadPrevious, workspace, history
<1>1. TypeOK /\ Clones /\ Committed /\ UnpinnedStays /\ Cleared /\ Running
  BY DEF Inv, ImportsInv
<1>2. Listed' = Listed /\ Pinned' = Pinned /\ Listed \subseteq Repos
  BY <1>0, <1>1, ListingIsFunction DEF TypeOK, Listed, Pinned
<1>3. TypeOK'
  BY <1>0, <1>1, <1>2, EmptyListing DEF TypeOK
<1>4. UnpinnedStays' /\ Cleared' /\ Committed' /\ Clones'
  BY <1>0, <1>1, <1>2 DEF UnpinnedStays, Cleared, Committed, Clones
<1>5. Gathered'
  <2>1. DOMAIN repos' = {} /\ wanted' \ todo' = {}
    BY <1>0, EmptyListing
  <2>2. \A p \in wanted : 1 <= head[Repo[p]]
    BY <1>0, <1>1, RepoAssumption DEF TypeOK
  <2>3. 1 <= head[dir] /\ dir \notin outside
    BY <1>0, <1>1 DEF Running, Clones
  <2> QED
    BY <1>0, <2>1, <2>2, <2>3 DEF Gathered
<1>6. Restoring'
  BY <1>0 DEF Restoring
<1> QED
  BY <1>0, <1>1, <1>3, <1>4, <1>5, <1>6, NoResult DEF Inv, ImportsInv, Running

LEMMA SaveNothingStep ==
    ASSUME Inv, SaveNothing
    PROVE  Inv'
<1>0. /\ wanted = {} /\ file' = NoEntries /\ torn' = FALSE /\ unpinned' = {} /\ strayed' = {}
      /\ Exit("saved") /\ UNCHANGED <<workspace, dir, wanted, had>>
  BY DEF SaveNothing
<1>1. file' \in Listings /\ Listed' = {} /\ Pinned' = {}
  BY <1>0, EmptyListing DEF Listed, Pinned
<1>2. Committed' /\ unpinned' \subseteq (Listed \ Pinned)'
  BY <1>0, <1>1 DEF Committed
<1>3. SavedImports' /\ InstallEnds'
  BY <1>0, <1>1 DEF SavedImports, SavedComplete, SavedRevisions, InstallEnds, InstallRestores,
      InstallAvailable, Exit
<1> QED
  BY <1>0, <1>1, <1>2, <1>3, ExitStep

\* AddPackage and AddRepo keep the entries of the other repositories.
LEMMA ScanStep ==
    ASSUME Inv, NEW p \in Packages, Scan(p)
    PROVE  Inv'
<1>0. /\ pc = "scan" /\ p \in todo /\ todo' = todo \ {p}
      /\ IF Repo[p] \in DOMAIN repos THEN repos' = AddPackage(p) /\ UNCHANGED dir
         ELSE /\ dir' = IF Repo[p] \in outside THEN dir ELSE Repo[p]
              /\ repos' = AddRepo(p, At(dir'))
      /\ UNCHANGED <<latest, head, known, outside, file, torn, pc, skip, result,
                     wanted, strayed, unpinned, had>>
  BY DEF Scan, workspace, history
<1>1. TypeOK /\ Clones /\ Committed /\ UnpinnedStays /\ Cleared /\ Running /\ Gathered
  BY DEF Inv, ImportsInv
<1>2. /\ todo \subseteq wanted /\ DOMAIN repos = {Repo[q] : q \in wanted \ todo}
      /\ \A r \in DOMAIN repos :
           /\ repos[r].pkgs = {q \in wanted \ todo : Repo[q] = r}
           /\ r \notin outside => repos[r].rev = At(r)
           /\ r \in outside => \E q \in Repos \ outside : repos[r].rev = At(q)
      /\ \A q \in wanted : 1 <= head[Repo[q]]
      /\ 1 <= head[dir] /\ dir \notin outside
  BY <1>0, <1>1 DEF Gathered
<1>3. /\ DOMAIN repos \subseteq Repos /\ repos \in [DOMAIN repos -> Entry]
      /\ Repo[p] \in Repos /\ wanted \subseteq Packages
  BY <1>1, ListingIsFunction, RepoAssumption DEF TypeOK
<1>4. dir' \in Repos \ outside /\ 1 <= head[dir'] /\ (Repo[p] \notin DOMAIN repos
                                    /\ Repo[p] \notin outside => dir' = Repo[p])
  BY <1>0, <1>1, <1>2, <1>3 DEF TypeOK
<1>5. At(dir') \in Revision
  BY <1>1, <1>4, Revisions, RepoAssumption DEF At, TypeOK, Clones
<1>6. wanted \ todo' = (wanted \ todo) \cup {p}
  BY <1>0, <1>2
<1>7. /\ DOMAIN repos' = DOMAIN repos \cup {Repo[p]} /\ repos' \in [DOMAIN repos' -> Entry]
      /\ \A r \in DOMAIN repos : r # Repo[p] => repos'[r] = repos[r]
      /\ repos'[Repo[p]].pkgs = {q \in wanted \ todo' : Repo[q] = Repo[p]}
      /\ Repo[p] \notin outside => repos'[Repo[p]].rev = At(Repo[p])
      /\ Repo[p] \in outside => \E q \in Repos \ outside : repos'[Repo[p]].rev = At(q)
  <2>1. CASE Repo[p] \in DOMAIN repos
    <3>1. repos' = [repos EXCEPT ![Repo[p]].pkgs = repos[Repo[p]].pkgs \cup {p}]
      BY <1>0, <2>1 DEF AddPackage
    <3>2. /\ DOMAIN repos' = DOMAIN repos
          /\ \A r \in DOMAIN repos : r # Repo[p] => repos'[r] = repos[r]
          /\ repos'[Repo[p]] = [repos[Repo[p]] EXCEPT !.pkgs = repos[Repo[p]].pkgs \cup {p}]
      BY <1>3, <2>1, <3>1
    <3>3. repos[Repo[p]] \in Entry
      BY <1>3, <2>1
    <3>4. /\ repos'[Repo[p]] \in Entry /\ repos'[Repo[p]].rev = repos[Repo[p]].rev
          /\ repos'[Repo[p]].pkgs = repos[Repo[p]].pkgs \cup {p}
      BY <3>2, <3>3 DEF Entry
    <3>5. repos' \in [DOMAIN repos' -> Entry]
      BY <1>3, <2>1, <3>1, <3>4
    <3>6. repos'[Repo[p]].pkgs = {q \in wanted \ todo' : Repo[q] = Repo[p]}
      BY <1>2, <1>6, <2>1, <3>4
    <3> QED
      BY <1>2, <2>1, <3>2, <3>4, <3>5, <3>6
  <2>2. CASE Repo[p] \notin DOMAIN repos
    <3> DEFINE new == [rev |-> At(dir'), pkgs |-> {p}]
    <3>1. new \in Entry /\ new.rev = At(dir') /\ new.pkgs = {p}
      BY <1>5 DEF Entry
    <3> HIDE DEF new
    <3>2. repos' = [r \in DOMAIN repos \cup {Repo[p]} |->
                      IF r = Repo[p] THEN new ELSE repos[r]]
      BY <1>0, <2>2 DEF AddRepo, new
    <3>3. {q \in wanted \ todo' : Repo[q] = Repo[p]} = {p}
      BY <1>0, <1>2, <1>6, <2>2
    <3>4. repos' \in [DOMAIN repos' -> Entry] /\ repos'[Repo[p]] = new
      BY <1>3, <3>1, <3>2
    <3> QED
      BY <1>4, <2>2, <3>1, <3>2, <3>3, <3>4
  <2> QED
    BY <2>1, <2>2
<1>8. repos' \in Listings
  BY <1>3, <1>7, ListingIsFunction
<1>9. TypeOK'
  BY <1>0, <1>1, <1>4, <1>8 DEF TypeOK
<1>10. Gathered'
  <2>1. DOMAIN repos' = {Repo[q] : q \in wanted \ todo'}
    BY <1>2, <1>6, <1>7
  <2>2. ASSUME NEW r \in DOMAIN repos'
        PROVE  /\ repos'[r].pkgs = {q \in wanted \ todo' : Repo[q] = r}
               /\ r \notin outside => repos'[r].rev = At(r)
               /\ r \in outside => \E q \in Repos \ outside : repos'[r].rev = At(q)
    <3>1. CASE r = Repo[p]
      BY <1>7, <3>1
    <3>2. CASE r # Repo[p]
      <4>1. {q \in wanted \ todo' : Repo[q] = r} = {q \in wanted \ todo : Repo[q] = r}
        BY <1>6, <3>2
      <4> QED
        BY <1>2, <1>7, <3>2, <4>1
    <3> QED
      BY <3>1, <3>2
  <2>3. \A r : At(r)' = At(r)
    BY <1>0 DEF At
  <2> QED
    BY <1>0, <1>2, <1>4, <2>1, <2>2, <2>3 DEF Gathered
<1>11. Listed' = Listed /\ Pinned' = Pinned
  BY <1>0 DEF Listed, Pinned
<1>12. UnpinnedStays' /\ Cleared' /\ Committed' /\ Clones' /\ Restoring' /\ result' = "none"
  BY <1>0, <1>1, <1>11 DEF UnpinnedStays, Cleared, Committed, Clones, Restoring, Running
<1> QED
  BY <1>0, <1>9, <1>10, <1>12, NoResult DEF Inv, ImportsInv

LEMMA CreateStep ==
    ASSUME Inv, Create
    PROVE  Inv'
<1>0. /\ pc = "scan" /\ todo = {} /\ pc' = "write"
      /\ file' = NoEntries /\ torn' = FALSE /\ strayed' = {}
      /\ UNCHANGED <<latest, head, known, outside, todo, repos, dir, skip, result,
                     wanted, unpinned, had>>
  BY DEF Create, workspace
<1>1. TypeOK /\ Clones /\ Cleared /\ Running /\ Gathered
  BY DEF Inv, ImportsInv
<1>2. file' \in Listings /\ Listed' = {} /\ Pinned' = {}
  BY <1>0, EmptyListing DEF Listed, Pinned
<1>3. TypeOK'
  BY <1>0, <1>1, <1>2 DEF TypeOK
<1>4. \A r : At(r)' = At(r)
  BY <1>0 DEF At
<1>5. Gathered'
  BY <1>0, <1>1, <1>4 DEF Gathered
<1>6. UnpinnedStays' /\ Cleared' /\ Committed' /\ Clones' /\ Restoring' /\ result' = "none"
  BY <1>0, <1>1, <1>2 DEF UnpinnedStays, Cleared, Committed, Clones, Restoring, Running
<1> QED
  BY <1>0, <1>3, <1>5, <1>6, NoResult DEF Inv, ImportsInv

\* What is about to be written: the entries, but for the revisions that had been
\* cleared.
LEMMA FinalEntries ==
    ASSUME TypeOK, Gathered, Clones, pc = "write"
    PROVE  /\ Final \in Listings /\ DOMAIN Final = DOMAIN repos
           /\ \A r \in DOMAIN repos :
                /\ Final[r].pkgs = repos[r].pkgs
                /\ Final[r].rev = IF r \in skip THEN NoRevision ELSE repos[r].rev
<1>1. DOMAIN repos \subseteq Repos /\ repos \in [DOMAIN repos -> Entry]
  BY ListingIsFunction DEF TypeOK
<1>2. DOMAIN Final = DOMAIN repos
  BY DEF Final
<1>3. ASSUME NEW r \in DOMAIN repos
      PROVE  /\ Final[r] \in Entry /\ Final[r].pkgs = repos[r].pkgs
             /\ Final[r].rev = IF r \in skip THEN NoRevision ELSE repos[r].rev
  <2>1. Final[r] = IF r \in skip THEN [repos[r] EXCEPT !.rev = NoRevision] ELSE repos[r]
    BY DEF Final
  <2>2. repos[r] \in Entry
    BY <1>1
  <2> QED
    BY <2>1, <2>2 DEF Entry
<1>4. Final \in [DOMAIN Final -> Entry]
  BY <1>2, <1>3 DEF Final
<1> QED
  BY <1>1, <1>2, <1>3, <1>4, ListingIsFunction

LEMMA WriteStep ==
    ASSUME Inv, Write
    PROVE  Inv'
<1>0. /\ pc = "write" /\ Exit("saved") /\ file' = Final
      /\ unpinned' = unpinned \cap DOMAIN repos /\ strayed' = outside \cap DOMAIN repos
      /\ UNCHANGED <<workspace, torn, dir, wanted, had>>
  BY DEF Write
<1>1. TypeOK /\ Clones /\ Cleared /\ Running /\ Gathered
  BY DEF Inv, ImportsInv
<1>2. /\ todo = {} /\ DOMAIN repos = {Repo[q] : q \in wanted}
      /\ \A r \in DOMAIN repos :
           /\ repos[r].pkgs = {q \in wanted : Repo[q] = r}
           /\ r \notin outside => repos[r].rev = At(r)
           /\ r \in outside => \E q \in Repos \ outside : repos[r].rev = At(q)
      /\ \A q \in wanted : 1 <= head[Repo[q]]
  BY <1>0, <1>1 DEF Gathered
<1>3. /\ file' \in Listings /\ Listed' = DOMAIN repos
      /\ \A r \in DOMAIN repos :
           /\ file'[r].pkgs = repos[r].pkgs
           /\ file'[r].rev = IF r \in skip THEN NoRevision ELSE repos[r].rev
  BY <1>0, <1>1, FinalEntries DEF Listed
<1>4. /\ head' = head /\ latest' = latest /\ \A r : At(r)' = At(r)
      /\ outside' = outside /\ DOMAIN repos \subseteq Repos
  BY <1>0, <1>1, ListingIsFunction DEF workspace, At, TypeOK
<1>5. \A r \in Pinned' : r \in DOMAIN repos /\ r \notin skip
  BY <1>3 DEF Pinned
<1>6. /\ \A r \in Pinned' \ outside : file'[r].rev = At(r)
      /\ \A r \in Pinned' \cap outside : \E q \in Repos \ outside : file'[r].rev = At(q)
  BY <1>2, <1>3, <1>5
<1>7. Committed'
  <2> SUFFICES ASSUME NEW r \in Pinned' \ strayed'
               PROVE  file'[r].rev \in {<<r, n>> : n \in 1..latest[r]}
    BY <1>4 DEF Committed
  <2>1. r \in Repos /\ 1 <= head[r]
    BY <1>2, <1>4, <1>5
  <2>2. head[r] \in 1..latest[r]
    BY <1>1, <2>1 DEF TypeOK, Clones
  <2> QED
    BY <1>0, <1>5, <1>6, <2>2 DEF At
<1>8. unpinned' \subseteq (Listed \ Pinned)'
  BY <1>0, <1>1, <1>3, <1>5 DEF Cleared
<1>9. SavedImports' /\ InstallEnds'
  <2>1. wanted' = wanted /\ result' = "saved"
    BY <1>0 DEF Exit
  <2>2. SavedComplete' /\ SavedRevisions'
    BY <1>2, <1>3, <1>4, <1>6, <2>1 DEF SavedComplete, SavedRevisions
  <2> QED
    BY <2>1, <2>2 DEF SavedImports, InstallEnds, InstallRestores, InstallAvailable
<1> QED
  BY <1>0, <1>1, <1>3, <1>4, <1>7, <1>8, <1>9, ExitStep DEF TypeOK

LEMMA WriteFailsStep ==
    ASSUME Inv, WriteFails
    PROVE  Inv'
<1>0. /\ pc = "write" /\ Exit("saved") /\ torn' = TRUE /\ unpinned' = {}
      /\ UNCHANGED <<workspace, file, dir, wanted, strayed, had>>
  BY DEF WriteFails
<1>1. TypeOK /\ Clones /\ Cleared /\ Committed
  BY DEF Inv, ImportsInv
<1>2. file' \in Listings /\ Listed' = {} /\ Pinned' = {}
  BY <1>0, <1>1, EmptyListing DEF Listed, Pinned, Cleared
<1>3. Committed' /\ unpinned' \subseteq (Listed \ Pinned)'
  BY <1>0, <1>2 DEF Committed
<1>4. SavedImports' /\ InstallEnds'
  BY <1>0, <1>2 DEF SavedImports, SavedComplete, SavedRevisions, InstallEnds, InstallRestores,
      InstallAvailable, Exit
<1> QED
  BY <1>0, <1>1, <1>2, <1>3, <1>4, ExitStep DEF TypeOK
-----------------------------------------------------------------------------
(* Install *)

LEMMA InstallStep ==
    ASSUME Inv, Install
    PROVE  Inv'
<1>0. /\ pc = "idle" /\ pc' = "install" /\ dir' = Project /\ result' = "none" /\ ~torn
      /\ todo' = Pinned /\ had' = {r \in Repos : head[r] # 0} /\ wanted' = {}
      /\ UNCHANGED <<latest, head, known, outside, file, torn, repos, skip, strayed, unpinned>>
  BY DEF Install, Start, workspace
<1>1. TypeOK /\ Clones /\ Committed /\ UnpinnedStays /\ Cleared
  BY DEF Inv, ImportsInv
<1>2. Listed' = Listed /\ Pinned' = Pinned /\ Pinned \subseteq Repos
  BY <1>0, <1>1, ListingIsFunction DEF TypeOK, Listed, Pinned
<1>3. TypeOK'
  BY <1>0, <1>1, <1>2, RepoAssumption DEF TypeOK
<1>4. UnpinnedStays' /\ Cleared' /\ Committed' /\ Clones' /\ Gathered'
  BY <1>0, <1>1, <1>2 DEF UnpinnedStays, Cleared, Committed, Clones, Gathered
<1>5. Restoring'
  BY <1>0, <1>1, <1>2 DEF Restoring, TypeOK
<1> QED
  BY <1>0, <1>3, <1>4, <1>5, NoResult DEF Inv, ImportsInv

\* go get does not touch a clone that is at its revision, and what it makes has
\* the revision of the file.
LEMMA InstallGetsStep ==
    ASSUME Inv, NEW r \in Repos, InstallGets(r)
    PROVE  Inv'
<1>0. /\ pc = "install" /\ r \in todo /\ GoGet(file[r].pkgs)
      /\ pc' = "check" /\ todo' = todo \ {r} /\ dir' = r
      /\ UNCHANGED <<file, torn, repos, skip, result, wanted, strayed, unpinned, had>>
  BY DEF InstallGets, history
<1>1. TypeOK /\ Clones /\ Committed /\ UnpinnedStays /\ Cleared /\ Running /\ Restoring
  BY DEF Inv, ImportsInv
<1>2. /\ todo \subseteq Pinned
      /\ \A q \in Pinned \ todo : file[q].rev = At(q)
      /\ \A q \in Pinned \ (strayed \cup had) :
           head[q] = 0 \/ file[q].rev[2] <= known[q]
  BY <1>0, <1>1 DEF Restoring
<1>3. Listed \subseteq Repos /\ file \in [Listed -> Entry] /\ Pinned \subseteq Listed
  BY <1>1, ListingIsFunction DEF TypeOK, Listed, Pinned
<1>4. file[r].pkgs \in SUBSET Packages
  BY <1>0, <1>2, <1>3 DEF Entry
<1>5. /\ latest' = latest /\ outside' = outside
      /\ head' \in [Repos -> Nat] /\ known' \in [Repos -> Nat] /\ Clones'
      /\ \A q \in Repos :
           \/ head'[q] = head[q] /\ known'[q] = known[q]
           \/ head[q] = 0 /\ head'[q] = latest[q] /\ known'[q] = latest[q]
  BY <1>0, <1>1, <1>4, GoGetStep
<1>6. Committed' /\ Listed' = Listed /\ Pinned' = Pinned
  BY <1>0, <1>1, <1>3, <1>5, FileKept DEF TypeOK
<1>7. TypeOK'
  BY <1>0, <1>1, <1>5 DEF TypeOK
<1>8. UnpinnedStays' /\ Cleared' /\ Gathered' /\ result' = "none"
  BY <1>0, <1>1, <1>6 DEF UnpinnedStays, Cleared, Gathered, Running
<1>9. ASSUME NEW q \in Pinned \ todo PROVE head'[q] = head[q] /\ file[q].rev = At(q)
  <2>1. file[q].rev = <<q, head[q]>>
    BY <1>2 DEF At
  <2>2. file[q].rev \in Revision
    BY <1>3 DEF Pinned, Entry
  <2>3. PICK s \in Repos : \E n \in 1..MaxRev[s] : file[q].rev = <<s, n>>
    BY <2>2, Revisions
  <2>4. PICK n \in 1..MaxRev[s] : file[q].rev = <<s, n>>
    BY <2>3
  <2>5. s = q /\ n = head[q]
    BY <2>1, <2>4
  <2>6. head[q] # 0
    BY <2>4, <2>5
  <2> QED
    BY <1>2, <1>3, <1>5, <2>6
<1>10. ASSUME NEW q \in Pinned \ (strayed \cup had)
       PROVE  head'[q] = 0 \/ file[q].rev[2] <= known'[q]
  <2>1. PICK n \in 1..latest[q] : file[q].rev = <<q, n>>
    BY <1>1 DEF Committed
  <2>2. CASE head'[q] = head[q] /\ known'[q] = known[q]
    BY <1>2, <2>2
  <2>3. CASE known'[q] = latest[q]
    BY <2>1, <2>3
  <2> QED
    BY <1>3, <1>5, <2>2, <2>3
<1>11. Restoring'
  <2>1. \A q \in Pinned' \ todo' : file'[q].rev = At(q)' \/ (pc' = "check" /\ q = dir')
    BY <1>0, <1>6, <1>9 DEF At
  <2>2. todo' \subseteq Pinned' /\ dir' \in Pinned' \ todo'
    BY <1>0, <1>2, <1>6
  <2> QED
    BY <1>0, <1>6, <1>10, <2>1, <2>2 DEF Restoring
<1> QED
  BY <1>0, <1>5, <1>6, <1>7, <1>8, <1>11, NoResult DEF Inv, ImportsInv

LEMMA InstallChecksOutStep ==
    ASSUME Inv, InstallChecksOut
    PROVE  Inv'
<1>0. /\ pc = "check" /\ pc' = "install"
      /\ head' = [head EXCEPT ![dir] = file[dir].rev[2]]
      /\ UNCHANGED <<latest, known, outside, file, torn, todo, repos, dir, skip, result,
                     wanted, strayed, unpinned, had>>
  BY DEF InstallChecksOut, history
<1>1. TypeOK /\ Clones /\ Committed /\ UnpinnedStays /\ Cleared /\ Running /\ Restoring
  BY DEF Inv, ImportsInv
<1>2. PICK n \in 1..known[dir] : file[dir].rev = <<dir, n>>
  BY DEF InstallChecksOut
<1>3. /\ dir \in Repos /\ n \in Nat /\ 1 <= n /\ n <= known[dir]
      /\ head' = [head EXCEPT ![dir] = n]
  BY <1>0, <1>1, <1>2 DEF TypeOK
<1>4. Listed' = Listed /\ Pinned' = Pinned
  BY <1>0 DEF Listed, Pinned
<1>5. TypeOK'
  BY <1>0, <1>1, <1>3 DEF TypeOK
<1>6. Clones'
  BY <1>0, <1>1, <1>3, RepoAssumption DEF TypeOK, Clones
<1>7. UnpinnedStays' /\ Cleared' /\ Gathered' /\ Committed' /\ result' = "none"
  BY <1>0, <1>1, <1>4 DEF UnpinnedStays, Cleared, Gathered, Committed, Running
<1>8. Restoring'
  <2>1. /\ todo \subseteq Pinned /\ dir \in Pinned \ todo
        /\ \A q \in Pinned \ todo : file[q].rev = At(q) \/ q = dir
        /\ \A q \in Pinned \ (strayed \cup had) :
             head[q] = 0 \/ file[q].rev[2] <= known[q]
    BY <1>0, <1>1 DEF Restoring
  <2>2. Pinned \subseteq Repos
    BY <1>1, ListingIsFunction DEF TypeOK, Listed, Pinned
  <2>3. \A q \in Pinned \ todo : file[q].rev = At(q)'
    BY <1>0, <1>1, <1>2, <1>3, <2>1, <2>2 DEF At, TypeOK
  <2>4. \A q \in Pinned \ (strayed \cup had) :
             head'[q] = 0 \/ file[q].rev[2] <= known[q]
    BY <1>1, <1>2, <1>3, <2>1, <2>2 DEF TypeOK
  <2> QED
    BY <1>0, <1>4, <2>1, <2>3, <2>4 DEF Restoring
<1> QED
  BY <1>0, <1>5, <1>6, <1>7, <1>8, NoResult DEF Inv, ImportsInv

\* A clone without the revision of its entry was there before Install, or go get
\* has not brought it.
LEMMA InstallFailsStep ==
    ASSUME Inv, InstallFails
    PROVE  Inv'
<1>0. /\ pc = "check" /\ Exit("unavailable")
      /\ dir \in outside \/ file[dir].rev \notin {<<dir, n>> : n \in 1..known[dir]}
      /\ UNCHANGED <<workspace, file, torn, dir, wanted, strayed, unpinned, had>>
  BY DEF InstallFails, history
<1>1. TypeOK /\ Clones /\ Committed /\ UnpinnedStays /\ Cleared /\ Restoring
  BY DEF Inv, ImportsInv
<1>2. Listed' = Listed /\ Pinned' = Pinned
  BY <1>0 DEF Listed, Pinned
<1>3. Committed' /\ unpinned' \subseteq (Listed \ Pinned)'
  BY <1>0, <1>1, <1>2 DEF Committed, Cleared, workspace
<1>4. ASSUME head[dir] # 0, dir \notin outside \cup strayed
      PROVE  dir \in had /\ known[dir] < file[dir].rev[2]
  <2>1. dir \in Pinned /\ dir \in Repos
    BY <1>0, <1>1 DEF Restoring, TypeOK
  <2>2. PICK n \in 1..latest[dir] : file[dir].rev = <<dir, n>>
    BY <1>1, <1>4, <2>1 DEF Committed
  <2>3. file[dir].rev \notin {<<dir, m>> : m \in 1..known[dir]}
    BY <1>0, <1>4
  <2>4. n \notin 1..known[dir]
    BY <2>2, <2>3
  <2>5. known[dir] < n
    BY <1>1, <2>1, <2>2, <2>4 DEF TypeOK
  <2>6. dir \notin had => head[dir] = 0 \/ n <= known[dir]
    BY <1>0, <1>1, <1>4, <2>1, <2>2 DEF Restoring
  <2> QED
    BY <1>1, <1>4, <2>1, <2>2, <2>5, <2>6 DEF TypeOK
<1>5. SavedImports' /\ InstallEnds'
  <2>1. result' = "unavailable" /\ file' = file /\ dir' = dir /\ had' = had
        /\ head' = head /\ known' = known /\ outside' = outside /\ strayed' = strayed
    BY <1>0 DEF Exit, workspace
  <2>2. InstallAvailable'
    BY <1>4, <2>1 DEF InstallAvailable
  <2> QED
    BY <2>1, <2>2 DEF SavedImports, SavedComplete, SavedRevisions, InstallEnds, InstallRestores
<1> QED
  BY <1>0, <1>1, <1>3, <1>5, ExitStep DEF TypeOK

LEMMA InstalledStep ==
    ASSUME Inv, Installed
    PROVE  Inv'
<1>0. /\ pc = "install" /\ todo = {} /\ Exit("installed")
      /\ UNCHANGED <<workspace, file, torn, dir, wanted, strayed, unpinned, had>>
  BY DEF Installed, history
<1>1. TypeOK /\ Committed /\ Cleared /\ Restoring
  BY DEF Inv, ImportsInv
<1>2. Listed' = Listed /\ Pinned' = Pinned /\ \A r : At(r)' = At(r)
  BY <1>0 DEF Listed, Pinned, At, workspace
<1>3. Committed' /\ unpinned' \subseteq (Listed \ Pinned)'
  BY <1>0, <1>1, <1>2 DEF Committed, Cleared, workspace
<1>4. SavedImports' /\ InstallEnds'
  BY <1>0, <1>1, <1>2 DEF Restoring, SavedImports, SavedComplete, SavedRevisions, InstallEnds,
      InstallRestores, InstallAvailable, Exit
<1> QED
  BY <1>0, <1>1, <1>3, <1>4, ExitStep DEF TypeOK

LEMMA StopStep ==
    ASSUME Inv, Stop
    PROVE  Inv'
<1>0. /\ pc # "idle" /\ Exit("stopped")
      /\ UNCHANGED <<workspace, file, dir, wanted, strayed, had>>
      /\ \/ pc = "write" /\ torn' \in BOOLEAN /\ unpinned' = {}
         \/ pc # "write" /\ torn' = torn /\ unpinned' = unpinned
  BY DEF Stop
<1>1. TypeOK /\ Committed /\ Cleared /\ torn' \in BOOLEAN
  BY <1>0 DEF Inv, ImportsInv, TypeOK
<1>2. Listed' = Listed /\ Pinned' = Pinned
  BY <1>0 DEF Listed, Pinned
<1>3. Committed' /\ unpinned' \subseteq (Listed \ Pinned)'
  BY <1>0, <1>1, <1>2 DEF Committed, Cleared, workspace
<1>4. SavedImports' /\ InstallEnds'
  BY <1>0 DEF SavedImports, SavedComplete, SavedRevisions, InstallEnds, InstallRestores,
      InstallAvailable, Exit
<1> QED
  BY <1>0, <1>1, <1>3, <1>4, ExitStep DEF TypeOK
-----------------------------------------------------------------------------
(* The theorems *)

LEMMA InitInv == Init => Inv
<1> SUFFICES ASSUME Init PROVE Inv
  OBVIOUS
<1> USE DEF Init
<1>1. Listed = {} /\ Pinned = {}
  BY EmptyListing DEF Listed, Pinned
<1>2. TypeOK
  BY EmptyListing, RepoAssumption DEF TypeOK
<1>3. Clones
  BY RepoAssumption DEF Clones
<1>4. UnpinnedStays /\ Running /\ Cleared /\ Gathered /\ Committed /\ Restoring
  BY <1>1 DEF UnpinnedStays, Running, Cleared, Gathered, Committed, Restoring
<1>5. SavedImports /\ InstallEnds
  BY DEF SavedImports, SavedComplete, SavedRevisions, InstallEnds, InstallRestores,
      InstallAvailable
<1> QED
  BY <1>2, <1>3, <1>4, <1>5 DEF Inv, ImportsInv

LEMMA StutterStep ==
    ASSUME Inv, UNCHANGED vars
    PROVE  Inv'
<1>0. UNCHANGED <<latest, head, known, outside, file, torn, pc, todo, repos, dir, skip, result,
                  wanted, strayed, unpinned, had>>
  BY DEF vars, workspace, tool, history
<1>1. Listed' = Listed /\ Pinned' = Pinned /\ \A r : At(r)' = At(r)
  BY <1>0 DEF Listed, Pinned, At
<1>2. TypeOK' /\ Clones'
  BY <1>0 DEF TypeOK, Clones, Inv, ImportsInv
<1>3. UnpinnedStays' /\ Running' /\ Cleared' /\ Committed'
  BY <1>0, <1>1 DEF UnpinnedStays, Running, Cleared, Committed, Inv, ImportsInv
<1>4. Gathered'
  BY <1>0, <1>1 DEF Gathered, Inv, ImportsInv
<1>5. Restoring'
  BY <1>0, <1>1 DEF Restoring, Inv, ImportsInv
<1>6. SavedImports' /\ InstallEnds'
  BY <1>0, <1>1 DEF SavedImports, SavedComplete, SavedRevisions, InstallEnds, InstallRestores,
      InstallAvailable, Inv, ImportsInv
<1> QED
  BY <1>2, <1>3, <1>4, <1>5, <1>6 DEF Inv, ImportsInv

LEMMA NextInv == Inv /\ [Next]_vars => Inv'
<1> SUFFICES ASSUME Inv, [Next]_vars PROVE Inv'
  OBVIOUS
<1>1. ASSUME NEW r \in Repos, Commit(r) \/ Pull(r) \/ Checkout(r) \/ Unpin(r) \/ InstallGets(r)
      PROVE  Inv'
  BY <1>1, CommitStep, PullStep, CheckoutStep, UnpinStep, InstallGetsStep
<1>2. ASSUME NEW imports \in SUBSET Packages, Download(imports) PROVE Inv'
  BY <1>2, DownloadStep
<1>3. CASE NewMachine \/ ReadPrevious \/ SaveNothing
  BY <1>3, NewMachineStep, ReadPreviousStep, SaveNothingStep
<1>4. ASSUME NEW p \in Packages, Scan(p) PROVE Inv'
  BY <1>4, ScanStep
<1>5. CASE Create \/ Write \/ WriteFails
  BY <1>5, CreateStep, WriteStep, WriteFailsStep
<1>6. CASE Install \/ InstallChecksOut \/ InstallFails \/ Installed \/ Stop
  BY <1>6, InstallStep, InstallChecksOutStep, InstallFailsStep, InstalledStep, StopStep
<1>7. CASE UNCHANGED vars
  BY <1>7, StutterStep
<1> QED
  BY <1>1, <1>2, <1>3, <1>4, <1>5, <1>6, <1>7 DEF Next

\* What a developer has cleared in .goimports is never pinned again, and
\* SaveImports and Install keep in step with what they have ranged over, for any
\* packages, repositories and commits (deps.go:50-274).
THEOREM ImportsInvariant == Spec => []ImportsInv
<1>1. Inv => ImportsInv
  BY DEF Inv
<1> QED
  BY InitInv, NextInv, <1>1, PTL DEF Spec

\* A save that has not failed lists every repository the service needs, with its
\* packages and the revision its clone is at, or one of another clone if it is
\* outside of srcPath (deps.go:151-274).
THEOREM SavesWhatIsNeeded == Spec => []SavedImports
<1>1. Inv => SavedImports
  BY DEF Inv
<1> QED
  BY InitInv, NextInv, <1>1, PTL DEF Spec

\* When Install returns, every clone is at the revision of its entry; it gives up
\* only for a clone that it could not get or that was there before
\* (deps.go:50-121).
THEOREM InstallRestoresRevisions == Spec => []InstallEnds
<1>1. Inv => InstallEnds
  BY DEF Inv
<1> QED
  BY InitInv, NextInv, <1>1, PTL DEF Spec
=============================================================================
