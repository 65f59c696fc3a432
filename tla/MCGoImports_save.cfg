CONSTANTS
    Repos <- MCRepos
    Packages <- MCPackages
    Repo <- MCRepo
    Deps <- MCDeps
    Project = "svc"
    MaxRev <- MCMaxRev
SPECIFICATION Spec
INVARIANTS ImportsInv SavedImports InstallEnds
