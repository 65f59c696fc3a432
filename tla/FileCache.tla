----------------------------- MODULE FileCache -----------------------------
(***************************************************************************)
(* The cache of src/pkg/filecache/filecache.go: Update walks a tree of     *)
(* files and records, per path, the Index of the Update it last changed    *)
(* in; Track, TrackingData and ChangedSince let a caller find out whether  *)
(* what it has read has changed.                                           *)
(*                                                                         *)
(* The cache is used by one goroutine, but files are written while Update  *)
(* walks: it lists a directory, then reads its files one by one.  Each     *)
(* write of a file gives it a new modification time, and its data is       *)
(* identified by the time it was written at.                               *)
(***************************************************************************)
EXTENDS Integers, Sequences, FiniteSetsExt

CONSTANTS Files, Dirs,
          Root,         \* the path Update is called with
          Parent,       \* Parent[x]: filepath.Dir of a path other than Root
          Walk,         \* the order of the walk: steps [do, path]
          Watched,      \* the paths the caller tracks
          MaxWrites,    \* bound: writes and removals of files
          MaxUpdates    \* bound: calls of Update

ASSUME TreeAssumption ==
    /\ Root \in Dirs /\ Files \cap Dirs = {}
    /\ Parent \in [(Files \cup Dirs) \ {Root} -> Dirs]
    /\ Watched \subseteq Files \cup Dirs
    /\ MaxWrites \in Nat /\ MaxUpdates \in Nat

Paths == Files \cup Dirs
Step(do, x) == [do |-> do, path |-> x]

\* updateDir lists a directory before it looks at the files in it, returns after
\* that, and a directory returns before the one above it; no file is left out.
ASSUME WalkAssumption ==
    /\ Walk \in Seq({Step("list", d) : d \in Dirs} \cup {Step("leave", d) : d \in Dirs}
                        \cup {Step("file", f) : f \in Files} \cup {Step("finish", Root)})
    /\ \A i \in 1..Len(Walk) : Walk[i] = Step("finish", Root) <=> i = Len(Walk)
    /\ Walk # <<>>
    /\ \A f \in Files :
         /\ \E i \in 1..Len(Walk) : Walk[i] = Step("file", f)
         /\ \A i \in 1..Len(Walk) : Walk[i] = Step("file", f) =>
              /\ \E j \in 1..(i - 1) : Walk[j] = Step("list", Parent[f])
              /\ \E j \in (i + 1)..Len(Walk) : Walk[j] = Step("leave", Parent[f])
    /\ \A d \in Dirs \ {Root} :
         \A i \in 1..Len(Walk) : Walk[i] = Step("leave", d) =>
            \E j \in (i + 1)..Len(Walk) : Walk[j] = Step("leave", Parent[d])

Absent == -1   \* no such file, no such entry of a map
Nil == 0       \* the data and the modification time of an empty File

VARIABLES disk,     \* disk[f]: when f was last written, or Absent
          clock,    \* the modification time of the last write
          Index,
          cache,    \* cache[f]: the entry of Files, with data Absent if none
          Changed,  \* Changed[x]: the map Changed, Absent if no entry
          todo,     \* the steps of the walk still to do
          listing,  \* listing[f]: the modification time when it was listed
          dirty,    \* the directories whose local variable changed is true
          result,   \* what the last Update returned
          Tracked,  \* Tracked[x]: the map Tracked, Absent if no entry
          token     \* what TrackingData returned last

walkVars == <<todo, listing, dirty>>
\* What the properties compare with: the cache as it was when a path was tracked
\* or an Update last succeeded, whether nobody has written since the last Update
\* began, and whether an Update has failed.
VARIABLES seen, settled, quiet, failed
ghosts == <<seen, settled, quiet, failed>>

vars == <<disk, clock, Index, cache, Changed, walkVars, result, Tracked, token, ghosts>>

NoFile == [data |-> Absent, mtime |-> Nil, index |-> 0]
EmptyFile == [data |-> Nil, mtime |-> Nil, index |-> 0]
Contents == [f \in Files |-> cache[f].data]
NoToken == [index |-> 0, paths |-> {}, seen |-> [x \in {} |-> Contents]]

Init ==
    /\ disk = [f \in Files |-> Absent] /\ clock = 0
    /\ Index = 0
    /\ cache = [f \in Files |-> NoFile]
    /\ Changed = [x \in Paths |-> Absent]
    /\ todo = <<>> /\ listing = [f \in Files |-> Absent] /\ dirty = {}
    /\ result = "none"
    /\ Tracked = [x \in Paths |-> Absent]
    /\ token = NoToken
    /\ seen = [x \in {} |-> Contents] /\ settled = Contents
    /\ quiet = TRUE /\ failed = FALSE

\* Between two calls of the package.
Idle == todo = <<>>

\* The directories above a path: the fewest that hold its own, and with each
\* directory the one above.  (Update climbs from a deleted path to ".",
\* filecache.go:150; there is none above an absolute path, and it would not end:
\* paths are relative here.)
Upward(S) == \A d \in S \ {Root} : Parent[d] \in S
Above ==
    [x \in Paths |-> {d \in Dirs : x # Root /\
                        \A S \in SUBSET Dirs : Parent[x] \in S /\ Upward(S) => d \in S}]
-----------------------------------------------------------------------------
(* Someone edits the tree. *)

Write(f) ==
    /\ clock < MaxWrites
    /\ clock' = clock + 1
    /\ disk' = [disk EXCEPT ![f] = clock']
    /\ quiet' = FALSE
    /\ UNCHANGED <<Index, cache, Changed, walkVars, result, Tracked, token, seen, settled, failed>>

Remove(f) ==
    /\ clock < MaxWrites /\ disk[f] # Absent
    /\ clock' = clock + 1
    /\ disk' = [disk EXCEPT ![f] = Absent]
    /\ quiet' = FALSE
    /\ UNCHANGED <<Index, cache, Changed, walkVars, result, Tracked, token, seen, settled, failed>>
-----------------------------------------------------------------------------
(* Update *)

StartUpdate ==
    /\ Idle /\ Index < MaxUpdates
    /\ Index' = Index + 1
    /\ todo' = Walk
    /\ dirty' = {}
    /\ quiet' = TRUE
    /\ UNCHANGED <<disk, clock, cache, Changed, listing, result, Tracked, token, seen, settled, failed>>

Doing(do, x) == todo # <<>> /\ Head(todo) = Step(do, x)

Abort ==
    /\ todo' = <<>> /\ result' = "error" /\ failed' = TRUE
    /\ UNCHANGED <<listing, dirty, seen, settled, quiet>>

\* updateDir begins: ioutil.ReadDir returns the files of d and their times.
List(d) ==
    /\ Doing("list", d)
    /\ \/ /\ todo' = Tail(todo)
          /\ listing' = [f \in Files |-> IF Parent[f] = d THEN disk[f] ELSE listing[f]]
          /\ UNCHANGED <<dirty, result, ghosts>>
       \/ Abort
    /\ UNCHANGED <<disk, clock, Index, cache, Changed, Tracked, token>>

\* updateFile returns what it has found to updateDir, which marks its directory.
MarkDir(f) ==
    LET d == Parent[f] IN
    /\ dirty' = dirty \cup {d}
    /\ Changed' = IF d \in dirty THEN [Changed EXCEPT ![f] = Index]
                  ELSE [Changed EXCEPT ![f] = Index, ![d] = Index]

\* A file that was not there when its directory was listed.
Skip(f) ==
    /\ Doing("file", f) /\ listing[f] = Absent
    /\ todo' = Tail(todo)
    /\ UNCHANGED <<disk, clock, Index, cache, Changed, listing, dirty, result, Tracked, token, ghosts>>

Keep(f) ==
    /\ Doing("file", f) /\ listing[f] # Absent
    /\ cache[f].data # Absent /\ cache[f].mtime = listing[f]
    /\ cache' = [cache EXCEPT ![f].index = Index]
    /\ todo' = Tail(todo)
    /\ UNCHANGED <<disk, clock, Index, Changed, listing, dirty, result, Tracked, token, ghosts>>

Modified(f) ==
    /\ Doing("file", f) /\ listing[f] # Absent
    /\ cache[f].data = Absent \/ cache[f].mtime # listing[f]

\* MUTANT: the entry of the file in Changed is forgotten.
LoadUnmarked(f) ==
    /\ Modified(f) /\ disk[f] # Absent
    /\ cache' = [cache EXCEPT ![f] = [data |-> disk[f], mtime |-> listing[f], index |-> Index]]
    /\ Changed' = [Changed EXCEPT ![Parent[f]] = Index]
    /\ dirty' = dirty \cup {Parent[f]}
    /\ todo' = Tail(todo)
    /\ UNCHANGED <<disk, clock, Index, listing, result, Tracked, token, ghosts>>

\* The file is read; the time kept is the one of the listing.
Load(f) ==
    /\ Modified(f) /\ disk[f] # Absent
    /\ cache' = [cache EXCEPT ![f] = [data |-> disk[f], mtime |-> listing[f], index |-> Index]]
    /\ MarkDir(f)
    /\ todo' = Tail(todo)
    /\ UNCHANGED <<disk, clock, Index, listing, result, Tracked, token, ghosts>>

\* ioutil.ReadFile fails: the file is gone, or cannot be read.  Files has an
\* entry for it, maybe an empty one.
LoadFails(f) ==
    /\ Modified(f)
    /\ cache' = [cache EXCEPT ![f] = IF @.data = Absent THEN EmptyFile ELSE @]
    /\ Changed' = [Changed EXCEPT ![f] = Index]
    /\ Abort
    /\ UNCHANGED <<disk, clock, Index, Tracked, token>>

\* EvalSymlinks fails, or the file is outside of SymlinkScope: Update ends, but
\* only after the entry got the new data and modification time.
LoadOutOfScope(f) ==
    /\ Modified(f) /\ disk[f] # Absent
    /\ cache' = [cache EXCEPT ![f] = [data |-> disk[f], mtime |-> listing[f], index |-> Index]]
    /\ Changed' = [Changed EXCEPT ![f] = Index]
    /\ Abort
    /\ UNCHANGED <<disk, clock, Index, Tracked, token>>

\* MUTANT: a directory does not tell the one above that it has changed.
LeaveSilently(d) ==
    /\ Doing("leave", d)
    /\ UNCHANGED <<dirty, Changed>>
    /\ todo' = Tail(todo)
    /\ UNCHANGED <<disk, clock, Index, cache, listing, result, Tracked, token, ghosts>>

\* updateDir returns to the updateDir of the directory above.
Leave(d) ==
    /\ Doing("leave", d)
    /\ IF d \in dirty /\ d # Root /\ Parent[d] \notin dirty
       THEN /\ dirty' = dirty \cup {Parent[d]}
            /\ Changed' = [Changed EXCEPT ![Parent[d]] = Index]
       ELSE UNCHANGED <<dirty, Changed>>
    /\ todo' = Tail(todo)
    /\ UNCHANGED <<disk, clock, Index, cache, listing, result, Tracked, token, ghosts>>

\* MUTANT: files the walk has not met stay in the cache.
FinishKeepingGone ==
    /\ Doing("finish", Root)
    /\ result' = IF dirty # {} THEN "ok" ELSE "nothing"
    /\ settled' = Contents
    /\ todo' = <<>>
    /\ UNCHANGED <<disk, clock, Index, cache, Changed, listing, dirty, Tracked, token, seen, quiet, failed>>

\* MUTANT: dropping files is not a change.
FinishDropsSilently ==
    LET gone == {f \in Files : cache[f].data # Absent /\ cache[f].index # Index} IN
    /\ Doing("finish", Root)
    /\ cache' = [f \in Files |-> IF f \in gone THEN NoFile ELSE cache[f]]
    /\ result' = IF dirty # {} THEN "ok" ELSE "nothing"
    /\ settled' = [f \in Files |-> cache'[f].data]
    /\ todo' = <<>>
    /\ UNCHANGED <<disk, clock, Index, Changed, listing, dirty, Tracked, token, seen, quiet, failed>>

\* Files the walk has not met are dropped, and the directories above them have
\* changed.
Finish ==
    LET gone == {f \in Files : cache[f].data # Absent /\ cache[f].index # Index} IN
    /\ Doing("finish", Root)
    /\ cache' = [f \in Files |-> IF f \in gone THEN NoFile ELSE cache[f]]
    /\ Changed' = [x \in Paths |-> IF x \in gone THEN Absent
                                   ELSE IF \E f \in gone : x \in Above[f] THEN Index
                                   ELSE Changed[x]]
    /\ result' = IF dirty # {} \/ gone # {} THEN "ok" ELSE "nothing"
    /\ settled' = [f \in Files |-> cache'[f].data]
    /\ todo' = <<>>
    /\ UNCHANGED <<disk, clock, Index, listing, dirty, Tracked, token, seen, quiet, failed>>
-----------------------------------------------------------------------------
(* Tracking *)

\* The map yields 0 for a path without an entry.
Track(x) ==
    /\ Idle
    /\ Tracked' = [Tracked EXCEPT ![x] = IF Changed[x] = Absent THEN 0 ELSE Changed[x]]
    /\ seen' = [y \in (DOMAIN seen) \cup {x} |-> IF y = x THEN Contents ELSE seen[y]]
    /\ UNCHANGED <<disk, clock, Index, cache, Changed, walkVars, result, token, settled, quiet, failed>>

\* MUTANT: the index of the session is the number of the last Update, plus one.
TrackingDataAhead ==
    LET paths == {x \in Paths : Tracked[x] # Absent} IN
    /\ Idle /\ paths # {}
    /\ token' = [index |-> Index + 1, paths |-> paths, seen |-> seen]
    /\ Tracked' = [x \in Paths |-> Absent]
    /\ seen' = [x \in {} |-> Contents]
    /\ UNCHANGED <<disk, clock, Index, cache, Changed, walkVars, result, settled, quiet, failed>>

\* The highest index of the session stands for all of its paths.
TrackingData ==
    LET paths == {x \in Paths : Tracked[x] # Absent} IN
    /\ Idle /\ paths # {}
    /\ token' = [index |-> Max({Tracked[x] : x \in paths}), paths |-> paths, seen |-> seen]
    /\ Tracked' = [x \in Paths |-> Absent]
    /\ seen' = [x \in {} |-> Contents]
    /\ UNCHANGED <<disk, clock, Index, cache, Changed, walkVars, result, settled, quiet, failed>>

ResetTracking ==
    /\ Idle
    /\ Tracked' = [x \in Paths |-> Absent]
    /\ seen' = [x \in {} |-> Contents]
    /\ UNCHANGED <<disk, clock, Index, cache, Changed, walkVars, result, token, settled, quiet, failed>>

ChangedSince(i, paths) == \E x \in paths : Changed[x] = Absent \/ Changed[x] > i
-----------------------------------------------------------------------------
\* The caller takes the tracking data, or resets it, before it updates: an index
\* of a later Update would stand for the paths tracked before it as well.
NoSession == \A x \in Paths : Tracked[x] = Absent

UpdateStep ==
    \/ \E d \in Dirs : List(d) \/ Leave(d)
    \/ \E f \in Files : Skip(f) \/ Keep(f) \/ Load(f) \/ LoadFails(f) \/ LoadOutOfScope(f)
    \/ Finish

Next ==
    \/ \E f \in Files : Write(f) \/ Remove(f)
    \/ NoSession /\ StartUpdate
    \/ UpdateStep
    \/ \E x \in Watched : Track(x)
    \/ TrackingData \/ ResetTracking

Spec == Init /\ [][Next]_vars
-----------------------------------------------------------------------------
(* Properties *)

TypeOK ==
    /\ disk \in [Files -> {Absent} \cup 1..MaxWrites] /\ clock \in 0..MaxWrites
    /\ Index \in 0..MaxUpdates
    /\ cache \in [Files -> [data : Absent..MaxWrites, mtime : 0..MaxWrites, index : 0..MaxUpdates]]
    /\ Changed \in [Paths -> {Absent} \cup 1..MaxUpdates]
    /\ \E i \in 0..Len(Walk) : todo = SubSeq(Walk, i + 1, Len(Walk))
    /\ listing \in [Files -> {Absent} \cup 1..MaxWrites] /\ dirty \subseteq Dirs
    /\ result \in {"none", "ok", "nothing", "error"}
    /\ Tracked \in [Paths -> Absent..MaxUpdates]
    /\ token.index \in 0..MaxUpdates /\ token.paths \subseteq Paths
    /\ settled \in [Files -> Absent..MaxWrites]

Differs(x, then) ==
    \E f \in Files : (f = x \/ x \in Above[f]) /\ Contents[f] # then[f]

\* A caller who asks ChangedSince about what TrackingData gave it is told of any
\* file that is no longer what it was when it was tracked, even after an Update
\* that failed half way (filecache.go:60-71, 91-106, 206-238).
FileChangesSeen ==
    Idle => \A x \in token.paths \cap Files :
                Differs(x, token.seen[x]) => ChangedSince(token.index, {x})

\* The same for a directory that was tracked and any file below it, as long as
\* no Update has failed: one that does returns before it has marked the
\* directories above the files it has already loaded (filecache.go:186-194).
DirChangesSeen ==
    Idle /\ ~failed => \A x \in token.paths \cap Dirs :
                          Differs(x, token.seen[x]) => ChangedSince(token.index, {x})

\* After an Update that succeeded and that nobody has written a file since it
\* began, the cache is what is on the disk, whatever was written during the
\* Updates before it.
CacheFresh ==
    Idle /\ quiet /\ result \in {"ok", "nothing"} => Contents = disk

\* Update returns ErrNothingChanged ("filecache: no files changed",
\* filecache.go:20, 157) only if the cache is what it was when an Update last
\* succeeded, and the disk too if nobody has written a file since this one began,
\* as long as none has failed: the next one after a failure finds nothing to load
\* of what that one has loaded already.
NothingChanged ==
    [][Finish /\ result' = "nothing" /\ ~failed =>
          settled' = settled /\ (quiet => disk = settled)]_vars

Done == Len(Walk) - Len(todo)   \* the steps of the walk that have been taken

\* No time is in the future.  The time kept of a file is never later than its data,
\* which is never later than the file, if it is still there.
Times ==
    /\ \A f \in Files :
         /\ disk[f] <= clock /\ listing[f] <= clock /\ cache[f].data <= clock
         /\ disk[f] # Absent => listing[f] <= disk[f] /\ cache[f].data <= disk[f]
         /\ cache[f].mtime <= IF cache[f].data = Absent THEN 0 ELSE cache[f].data
         /\ cache[f].index <= Index
    /\ \A x \in Paths : Changed[x] <= Index

\* Between the first Track and TrackingData the cache does not change.
Session ==
    \A x \in Paths : Tracked[x] # Absent =>
        Idle /\ x \in DOMAIN seen /\ seen[x] = Contents /\ Tracked[x] <= Index

\* A directory whose updateDir has found a change is marked, and tells the one
\* above: it has, or will when it returns.
Marks ==
    ~Idle => \A d \in dirty :
        /\ Changed[d] = Index
        /\ d # Root => \/ Parent[d] \in dirty
                       \/ \E i \in (Done + 1)..Len(Walk) : Walk[i] = Step("leave", d)

\* A change of a tracked path shows, or will when the Update in progress ends.
TokenHolds ==
    /\ token.index <= Index /\ (~Idle => token.index < Index)
    /\ \A x \in token.paths \cap Files :
         token.seen[x][x] # Contents[x] => ChangedSince(token.index, {x})
    /\ ~failed => \A x \in token.paths \cap Dirs, f \in Files :
         x \in Above[f] /\ token.seen[x][f] # Contents[f] =>
            ChangedSince(token.index, {x}) \/ (~Idle /\ Parent[f] \in dirty)

\* What has changed since an Update last succeeded is in a directory that knows.
Settled ==
    ~failed => \A f \in Files : Contents[f] # settled[f] => ~Idle /\ Parent[f] \in dirty

\* What an Update that nobody disturbs has dealt with is as it is on the disk.
Undisturbed ==
    ~Idle /\ quiet => \A f \in Files :
        /\ (\E i \in 1..Done : Walk[i] = Step("list", Parent[f])) => listing[f] = disk[f]
        /\ (\E i \in 1..Done : Walk[i] = Step("file", f)) =>
              disk[f] = Absent \/ cache[f].index = Index
        /\ cache[f].index = Index => disk[f] # Absent /\ cache[f].data = disk[f]

\* The invariant of the cache: its types, what an Update that nobody disturbs
\* leaves in it, whatever happened to the Updates before, and what these rest on.
CacheInv ==
    /\ TypeOK /\ Times /\ Session /\ Marks /\ TokenHolds /\ Settled /\ Undisturbed
    /\ CacheFresh
=============================================================================
