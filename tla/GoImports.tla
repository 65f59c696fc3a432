----------------------------- MODULE GoImports -----------------------------
(***************************************************************************)
(* The dependencies of a service (src/cmd/build-go-service/deps.go): a     *)
(* build writes the revision of every repository the service needs to the  *)
(* file .goimports (SaveImports), and Install brings another workspace to  *)
(* these revisions.  The developer may clear the revision of an entry, and *)
(* it is not to be pinned again.                                           *)
(*                                                                         *)
(* A revision is a repository and a number, the commits of a repository    *)
(* are 1..latest[r].  A clone has the commits 1..known[r], head[r] is the  *)
(* one checked out, and 0 stands for no clone.  git, hg, the go tool and   *)
(* vcs.RepoRootForImportPath are external: go get clones what is missing   *)
(* and leaves clones that exist alone.                                     *)
(*                                                                         *)
(* What is saved is the commit a clone is at when SaveImports runs.  That  *)
(* is not always what the service is linked with: Build links an archive   *)
(* of an earlier build without compiling it again (build.go:71-81), and    *)
(* archives are not modelled here (BuildOrder has them).                   *)
(***************************************************************************)
EXTENDS Integers, FiniteSets

CONSTANTS Repos, Packages,
          Repo,     \* Repo[p]: the repository of a package
          Deps,     \* Deps[p]: the packages p depends on, in any number of steps
          Project,  \* the repository the service itself is in
          MaxRev    \* bound: MaxRev[r] commits of a repository

ASSUME RepoAssumption ==
    /\ Repo \in [Packages -> Repos] /\ Project \in Repos
    /\ Deps \in [Packages -> SUBSET Packages]
    /\ \A p \in Packages : \A q \in Deps[p] : Deps[q] \subseteq Deps[p]
    /\ MaxRev \in [Repos -> Nat \ {0}]

VARIABLES latest,        \* the commits of each repository
          head, known,   \* the clones of the workspace
          outside,       \* those that are not below srcPath, the first GOPATH entry
          file,          \* the entries of .goimports
          torn           \* it is there, but does not parse

workspace == <<latest, head, known, outside>>

\* build-go-service, one process that runs SaveImports or Install.
VARIABLES pc,
          todo,    \* what its loop has not ranged over yet: packages or entries
          repos,   \* the map repos of SaveImports
          dir,     \* the repository of the working directory
          skip,    \* the entries whose revision had been cleared
          result   \* how the last run ended

tool == <<pc, todo, repos, dir, skip, result>>

\* History.
VARIABLES wanted,    \* the packages of the last save
          strayed,   \* the repositories that were outside at the last save
          unpinned,  \* the entries a developer has cleared since they were listed
          had        \* the repositories cloned when Install began

history == <<wanted, strayed, unpinned, had>>
vars == <<workspace, file, torn, tool, history>>

Revision == UNION {{<<r, n>> : n \in 1..MaxRev[r]} : r \in Repos}
NoRevision == <<>>
Entry == [rev : Revision \cup {NoRevision}, pkgs : SUBSET Packages]
NoEntries == [r \in {} |-> NoRevision]
Listings == UNION {[S -> Entry] : S \in SUBSET Repos}

Listed == DOMAIN file
Pinned == {r \in Listed : file[r].rev # NoRevision}

\* go list -json for imports, and then for the packages they depend on.  (Each
\* import depends on something, if only of the standard library: without any
\* dependency the second go list is for the working directory, deps.go:199.)
GetInfo(imports) == imports \cup UNION {Deps[p] : p \in imports}
Needs(imports) == {Repo[p] : p \in GetInfo(imports)}

\* The commit the clone is at, which git rev-parse HEAD prints.
At(r) == <<r, head[r]>>

Init ==
    /\ latest = [r \in Repos |-> 1]
    /\ head = latest /\ known = latest
    /\ outside \in SUBSET (Repos \ {Project})
    /\ file = NoEntries /\ torn = FALSE
    /\ pc = "idle" /\ todo = {} /\ repos = NoEntries
    /\ dir = Project /\ skip = {} /\ result = "none"
    /\ wanted = {} /\ strayed = {} /\ unpinned = {} /\ had = {}
-----------------------------------------------------------------------------
(* The world around the tool. *)

Commit(r) ==
    /\ latest[r] < MaxRev[r]
    /\ latest' = [latest EXCEPT ![r] = @ + 1]
    /\ UNCHANGED <<head, known, outside, file, torn, tool, history>>

\* The developer works on the workspace between two runs of the tool.
Developer ==
    /\ pc = "idle" /\ result' = "none" /\ dir' = Project
    /\ wanted' = {} /\ had' = {}
    /\ UNCHANGED <<latest, pc, todo, repos, skip, strayed>>

Pull(r) ==
    /\ Developer /\ head[r] # 0
    /\ head' = [head EXCEPT ![r] = latest[r]] /\ known' = [known EXCEPT ![r] = latest[r]]
    /\ UNCHANGED <<outside, file, torn, unpinned>>

Checkout(r) ==
    /\ Developer
    /\ \E n \in 1..known[r] : head' = [head EXCEPT ![r] = n]
    /\ UNCHANGED <<known, outside, file, torn, unpinned>>

\* The project is cloned to another machine.
NewMachine ==
    /\ Developer
    /\ head' = [r \in Repos |-> IF r = Project THEN latest[r] ELSE 0]
    /\ known' = head' /\ outside' = {}
    /\ UNCHANGED <<file, torn, unpinned>>

Unpin(r) ==
    /\ Developer /\ r \in Pinned
    /\ file' = [file EXCEPT ![r].rev = NoRevision]
    /\ unpinned' = unpinned \cup {r}
    /\ UNCHANGED <<head, known, outside, torn>>

\* go get for some packages of Build or Install, the result of which is ignored.
GoGet(pkgs) ==
    \E got \in SUBSET {r \in Needs(pkgs) : head[r] = 0} :
        /\ head' = [r \in Repos |-> IF r \in got THEN latest[r] ELSE head[r]]
        /\ known' = [r \in Repos |-> IF r \in got THEN latest[r] ELSE known[r]]
        /\ UNCHANGED <<latest, outside>>
-----------------------------------------------------------------------------
(* SaveImports, at the end of the first part of Build. *)

Start(do) == pc = "idle" /\ pc' = do /\ dir' = Project /\ result' = "none"
Exit(how) ==
    /\ pc' = "idle" /\ result' = how
    /\ todo' = {} /\ repos' = NoEntries /\ skip' = {}

\* Build downloads what it has not found.
Download(imports) ==
    /\ Start("save") /\ GoGet(imports)
    /\ wanted' = GetInfo(imports) /\ had' = {}
    /\ UNCHANGED <<file, torn, todo, repos, skip, strayed, unpinned>>

\* MUTANT: the file that is about to be overwritten is not read.
ReadNothing ==
    /\ pc = "save" /\ wanted # {}
    /\ \A p \in wanted : head[Repo[p]] # 0
    /\ skip' = {} /\ todo' = wanted /\ repos' = NoEntries /\ pc' = "scan"
    /\ UNCHANGED <<workspace, file, torn, dir, result, history>>

\* MUTANT: the failure of go list is ignored.
ReadAnyway ==
    /\ pc = "save" /\ wanted # {}
    /\ skip' = Listed \ Pinned /\ todo' = wanted /\ repos' = NoEntries /\ pc' = "scan"
    /\ UNCHANGED <<workspace, file, torn, dir, result, history>>

\* The revisions that were cleared are kept in mind, and go list finds out what
\* there is to save; it fails if a package is not in the workspace.
ReadPrevious ==
    /\ pc = "save" /\ wanted # {}
    /\ \A p \in wanted : head[Repo[p]] # 0
    /\ skip' = Listed \ Pinned /\ todo' = wanted /\ repos' = NoEntries /\ pc' = "scan"
    /\ UNCHANGED <<workspace, file, torn, dir, result, history>>

\* A service without imports has an empty file.
SaveNothing ==
    /\ pc = "save" /\ wanted = {}
    /\ file' = NoEntries /\ torn' = FALSE /\ unpinned' = {} /\ strayed' = {}
    /\ Exit("saved")
    /\ UNCHANGED <<workspace, dir, wanted, had>>

AddPackage(p) == [repos EXCEPT ![Repo[p]].pkgs = @ \cup {p}]
AddRepo(p, rev) ==
    [r \in DOMAIN repos \cup {Repo[p]} |->
        IF r = Repo[p] THEN [rev |-> rev, pkgs |-> {p}] ELSE repos[r]]

\* MUTANT: the revision is asked for before the directory is changed.
ScanFirst(p) ==
    /\ pc = "scan" /\ p \in todo /\ todo' = todo \ {p}
    /\ IF Repo[p] \in DOMAIN repos THEN repos' = AddPackage(p) /\ UNCHANGED dir
       ELSE /\ dir' = IF Repo[p] \in outside THEN dir ELSE Repo[p]
            /\ repos' = AddRepo(p, At(dir))
    /\ UNCHANGED <<workspace, file, torn, pc, skip, result, history>>

\* One package of infoMap, which comes in any order.  An os.Chdir that fails is
\* ignored, and the revision is that of the repository visited before.
Scan(p) ==
    /\ pc = "scan" /\ p \in todo /\ todo' = todo \ {p}
    /\ IF Repo[p] \in DOMAIN repos THEN repos' = AddPackage(p) /\ UNCHANGED dir
       ELSE /\ dir' = IF Repo[p] \in outside THEN dir ELSE Repo[p]
            /\ repos' = AddRepo(p, At(dir'))
    /\ UNCHANGED <<workspace, file, torn, pc, skip, result, history>>

\* os.Create empties the file, and what it held is lost from here on.
Create ==
    /\ pc = "scan" /\ todo = {} /\ pc' = "write"
    /\ file' = NoEntries /\ torn' = FALSE
    /\ strayed' = {}
    /\ UNCHANGED <<workspace, todo, repos, dir, skip, result, wanted, unpinned, had>>

Final == [r \in DOMAIN repos |->
            IF r \in skip THEN [repos[r] EXCEPT !.rev = NoRevision] ELSE repos[r]]

Write ==
    /\ pc = "write" /\ Exit("saved")
    /\ file' = Final
    /\ unpinned' = unpinned \cap DOMAIN repos
    /\ strayed' = outside \cap DOMAIN repos
    /\ UNCHANGED <<workspace, torn, dir, wanted, had>>

\* The error of f.Write is ignored: the tool goes on with a torn file.
WriteFails ==
    /\ pc = "write" /\ Exit("saved")
    /\ torn' = TRUE /\ unpinned' = {}
    /\ UNCHANGED <<workspace, file, dir, wanted, strayed, had>>
-----------------------------------------------------------------------------
(* Install *)

\* A torn file is fatal; entries without a revision are passed over.
Install ==
    /\ Start("install") /\ ~torn
    /\ todo' = Pinned /\ had' = {r \in Repos : head[r] # 0} /\ wanted' = {}
    /\ UNCHANGED <<workspace, file, torn, repos, skip, strayed, unpinned>>

InstallGets(r) ==
    /\ pc = "install" /\ r \in todo /\ GoGet(file[r].pkgs)
    /\ pc' = "check" /\ todo' = todo \ {r} /\ dir' = r
    /\ UNCHANGED <<file, torn, repos, skip, result, history>>

\* MUTANT: the error of git checkout is ignored, as that of go get is.
CheckoutOrNot ==
    /\ pc = "check"
    /\ \/ /\ file[dir].rev \in {<<dir, n>> : n \in 1..known[dir]} /\ dir \notin outside
          /\ head' = [head EXCEPT ![dir] = file[dir].rev[2]]
       \/ /\ file[dir].rev \notin {<<dir, n>> : n \in 1..known[dir]}
          /\ UNCHANGED head
    /\ pc' = "install"
    /\ UNCHANGED <<latest, known, outside, file, torn, todo, repos, dir, skip, result, history>>

\* The clone below srcPath is set to the revision, if it is not there already.
InstallChecksOut ==
    /\ pc = "check" /\ dir \notin outside
    /\ file[dir].rev \in {<<dir, n>> : n \in 1..known[dir]}
    /\ head' = [head EXCEPT ![dir] = file[dir].rev[2]]
    /\ pc' = "install"
    /\ UNCHANGED <<latest, known, outside, file, torn, todo, repos, dir, skip, result, history>>

\* There is no clone below srcPath, or it does not have the revision.
InstallFails ==
    /\ pc = "check"
    /\ dir \in outside \/ file[dir].rev \notin {<<dir, n>> : n \in 1..known[dir]}
    /\ Exit("unavailable")
    /\ UNCHANGED <<workspace, file, torn, dir, history>>

Installed ==
    /\ pc = "install" /\ todo = {} /\ Exit("installed")
    /\ UNCHANGED <<workspace, file, torn, dir, history>>

\* log.Fatal or a crash, wherever the tool is; between os.Create and the end of
\* f.Write it leaves an empty file, or a part of one.
Stop ==
    /\ pc # "idle" /\ Exit("stopped")
    /\ \/ pc = "write" /\ torn' \in BOOLEAN /\ unpinned' = {}
       \/ pc # "write" /\ UNCHANGED <<torn, unpinned>>
    /\ UNCHANGED <<workspace, file, dir, wanted, strayed, had>>

Next ==
    \/ \E r \in Repos : Commit(r) \/ Pull(r) \/ Checkout(r) \/ Unpin(r) \/ InstallGets(r)
    \/ \E imports \in SUBSET Packages : Download(imports)
    \/ NewMachine \/ ReadPrevious \/ SaveNothing
    \/ \E p \in Packages : Scan(p)
    \/ Create \/ Write \/ WriteFails
    \/ Install \/ InstallChecksOut \/ InstallFails \/ Installed \/ Stop

Spec == Init /\ [][Next]_vars
-----------------------------------------------------------------------------
(* Properties *)

TypeOK ==
    /\ latest \in [Repos -> Nat] /\ head \in [Repos -> Nat] /\ known \in [Repos -> Nat]
    /\ outside \subseteq Repos /\ dir \in Repos
    /\ file \in Listings /\ torn \in BOOLEAN /\ repos \in Listings
    /\ pc \in {"idle", "save", "scan", "write", "install", "check"}
    /\ todo \subseteq Packages \cup Repos /\ skip \subseteq Repos
    /\ wanted \subseteq Packages /\ strayed \subseteq Repos /\ unpinned \subseteq Repos
    /\ had \subseteq Repos
    /\ result \in {"none", "saved", "installed", "unavailable", "stopped"}

\* In whatever order the packages come, a save lists every repository the
\* service needs, each with all of its packages and nothing else
\* (deps.go:205-249).
SavedComplete ==
    result = "saved" /\ ~torn =>
        /\ Listed = {Repo[p] : p \in wanted}
        /\ \A r \in Listed : file[r].pkgs = {p \in wanted : Repo[p] = r}

\* The revision saved for a repository is the one its clone is at when the save
\* ends, unless this clone is not below srcPath: then it is the one of another
\* clone that is, and so never a revision of the repository itself (deps.go:223).
SavedRevisions ==
    result = "saved" =>
        /\ \A r \in Pinned \ outside : file[r].rev = At(r)
        /\ \A r \in Pinned \cap outside : \E q \in Repos \ outside : file[r].rev = At(q)

\* When Install returns, every repository with a revision is at that revision,
\* whatever the go gets for the entries after it have brought (deps.go:73-120).
InstallRestores == result = "installed" => \A r \in Pinned : file[r].rev = At(r)

\* A revision that was cleared by hand is not set again by a later build
\* (deps.go:153-166, 244-246), unless the file was lost half written.
UnpinnedStays == unpinned \cap Pinned = {}

\* Where Install gives up for a revision, go get could not bring the clone, or
\* there was one from before that has to be updated by hand, or is outside of
\* srcPath: a clone that Install made itself always has the revision saved on
\* another machine (deps.go:77-118).
InstallAvailable ==
    result = "unavailable" =>
        \/ head[dir] = 0 \/ dir \in outside \cup strayed
        \/ dir \in had /\ known[dir] < file[dir].rev[2]

\* What a save that has not failed leaves in .goimports (deps.go:151-274).
SavedImports == SavedComplete /\ SavedRevisions

\* How Install ends (deps.go:50-121).
InstallEnds == InstallRestores /\ InstallAvailable

\* A clone has what is checked out in it and nothing that has not been committed;
\* the service itself is always there (deps.go works in its directory).
Clones ==
    /\ \A r \in Repos :
         head[r] <= known[r] /\ known[r] <= latest[r] /\ 1 <= latest[r] /\ latest[r] <= MaxRev[r]
    /\ 1 <= head[Project] /\ Project \notin outside

\* A run that has not ended has no result, and begins where the service is.
Running == (pc # "idle" => result = "none") /\ (pc = "save" => dir = Project)

\* What has been cleared is either in the file, cleared, or kept in mind for the
\* one that is being written.
Cleared ==
    /\ pc # "write" => unpinned \subseteq Listed \ Pinned
    /\ pc \in {"scan", "write"} => unpinned \subseteq skip
    /\ pc = "write" => file = NoEntries

\* The entries so far are for the packages ranged over so far, with the revisions
\* their clones are at, or one of the clones below srcPath that were visited.
Gathered ==
    pc \in {"scan", "write"} =>
        /\ todo \subseteq wanted
        /\ pc = "write" => todo = {}
        /\ DOMAIN repos = {Repo[p] : p \in wanted \ todo}
        /\ \A r \in DOMAIN repos :
             /\ repos[r].pkgs = {p \in wanted \ todo : Repo[p] = r}
             /\ r \notin outside => repos[r].rev = At(r)
             /\ r \in outside => \E q \in Repos \ outside : repos[r].rev = At(q)
        /\ \A p \in wanted : 1 <= head[Repo[p]]
        /\ 1 <= head[dir] /\ dir \notin outside

\* A revision in the file is one that has been committed to its repository.
Committed ==
    \A r \in Pinned \ strayed : file[r].rev \in {<<r, n>> : n \in 1..latest[r]}

\* Install has brought the entries it has ranged over to their revisions, and has
\* made no clone that is older than the revision of its entry.
Restoring ==
    pc \in {"install", "check"} =>
        /\ todo \subseteq Pinned /\ (pc = "check" => dir \in Pinned \ todo)
        /\ \A r \in Pinned \ todo : file[r].rev = At(r) \/ (pc = "check" /\ r = dir)
        /\ \A r \in Pinned \ (strayed \cup had) :
             head[r] = 0 \/ file[r].rev[2] <= known[r]

\* The invariant of the tool and of its file: its types, what a developer has
\* cleared in it, and what SaveImports and Install have done so far.
ImportsInv ==
    /\ TypeOK /\ UnpinnedStays
    /\ Clones /\ Running /\ Cleared /\ Gathered /\ Committed /\ Restoring
=============================================================================
