---------------------------- MODULE MCFileCache ----------------------------
(***************************************************************************)
(* A small tree for TLC: app/a and app/sub/b.                             *)
(***************************************************************************)
EXTENDS FileCache

MCFiles == {"a", "b"}
MCDirs == {"app", "sub"}
MCParent == [x \in {"a", "b", "sub"} |-> IF x = "b" THEN "sub" ELSE "app"]

MCWatched == {"b", "app"}

MCWalk == <<Step("list", "app"), Step("file", "a"),
            Step("list", "sub"), Step("file", "b"), Step("leave", "sub"),
            Step("leave", "app"), Step("finish", "app")>>
============================================================================
