------------------------------- MODULE Runtime -------------------------------
(***************************************************************************)
(* require and its resolution together: Module, what Require takes a       *)
(* specifier for, is one of the answers of RequireFrom (see MCRequire).    *)
(* The search for a file reads no variable: what is true of it is true in  *)
(* all states or in none, and is stated for the first ones.                *)
(***************************************************************************)
EXTENDS Require, Resolve

(***************************************************************************)
(* What require finds is a file, and a module that requires this file by   *)
(* its absolute path finds it again, wherever it is: the path can stand    *)
(* for the module in the cache.  (Extensions are tried first: a second     *)
(* file whose name is this file's with an extension would be found in its  *)
(* place; v8_runtime.go:247, 299.)                                         *)
(***************************************************************************)
AnswersAreStableFiles == Init =>
    \A fs \in FileSystems, path \in Paths, id \in Names :
        \A file \in RequireFrom(fs, path, id) \ {Nothing, Endless} :
            /\ IsFile(fs, file)
            /\ \/ ~ IsAbs(file)
               \/ \A other \in Paths : RequireFrom(fs, other, file) = {file}
               \/ \E n \in DOMAIN Extensions : Exists(fs, WithExtension(file, Extensions[n]))

(***************************************************************************)
(* From a module in a file require always comes to an answer; and for      *)
(* packages and absolute paths require.resolve, although it begins its     *)
(* search at the file and not at its directory, has the same answer        *)
(* (v8_runtime.go:275, 309, 434).                                          *)
(***************************************************************************)
ResolveAgrees == Init =>
    \A fs \in FileSystems, path \in {p \in Paths : IsAbs(p)}, id \in Names :
        /\ Endless \notin RequireFrom(fs, path, id)
        /\ ~ IsRelative(id) => RequireResolve(fs, path, id) = RequireFrom(fs, path, id)
===============================================================================
