CONSTANTS
    Files <- MCFiles
    Dirs <- MCDirs
    Root = "app"
    Parent <- MCParent
    Walk <- MCWalk
    Watched <- MCWatched
    MaxWrites = 3
    MaxUpdates = 3
SPECIFICATION Spec
CHECK_DEADLOCK FALSE
INVARIANTS CacheInv FileChangesSeen DirChangesSeen
PROPERTIES NothingChanged
