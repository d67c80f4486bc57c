---------------------------- MODULE MCFileExplorer ----------------------------
(* Two files in the root, one in a directory that has the name of one of    *)
(* them, and one that the watcher ignores.                                  *)
EXTENDS FileExplorer, TLC

CONSTANTS a, b, da, log, d, root, u1, u2, s1

MCParentOf == a :> root @@ b :> root @@ da :> d @@ log :> root
MCNameOf == a :> "a" @@ b :> "b" @@ da :> "a" @@ log :> "log"
MCDisks == {{a}, {b, d, da}}
=============================================================================
