------------------------------ MODULE MCRequire ------------------------------
(***************************************************************************)
(* A small program on a file system: the file a, a package whose exports   *)
(* have two keys for the same path, "." and "./", and a name with two      *)
(* registered parts, whose path is relative; a specifier that is refused   *)
(* and those for which nothing is found.                                   *)
(***************************************************************************)
EXTENDS Runtime

App == <<"/", "app">>
Package == App \o <<"node_modules", "pkg">>
A == App \o <<"a.js">>
Main == Package \o <<"main.js">>
IndexJs == Package \o <<"index.js">>
Vm == <<"vm">>
Dot == <<".">>

MCIds == {A, Main, IndexJs, Vm}
MCParts == [id \in MCIds |-> IF id = Vm THEN <<"factory", "factory">> ELSE <<"file">>]

AbsoluteA == App \o <<"a">>
FromPackage == <<"..", "..", "a">>
Beside == <<".", "a">>
Refused1 == <<"fs">>
MCSpecifiers == {AbsoluteA, FromPackage, Beside, <<"pkg">>, Vm, Refused1}
MCRefused == {Refused1}

MCComponents == STRING
MCExtensions == <<".js", ".cjs">>
MCScopes == {"@scope"}

InPath(path) == [is |-> "path", path |-> path]
Export(key, value) == [key |-> key, value |-> value]

\* The directories of a set of files are there too.
WithDirectories(files) ==
    [p \in UNION {{SubSeq(f, 1, n) : n \in 1 .. Len(f)} : f \in files} |->
        IF p \in files THEN "file" ELSE "directory"]

Disk ==
    [kind |-> WithDirectories({A, Main, IndexJs}),
     description |-> [dir \in {Package} |->
        [exports |-> {Export(Dot, 1), Export(Dot, 2)},
         json |-> <<InPath(Append(Dot, "main.js")), InPath(Dot)>>,
         main |-> None]]]

PathOf(id) == IF id = None THEN AbsoluteA ELSE IF id = Vm THEN Dot \o Vm ELSE id

\* The names that are registered come first.
MCModule ==
    [from \in MCIds \cup {None} |-> [s \in MCSpecifiers |->
        IF s = Vm THEN {Vm} ELSE RequireFrom(Disk, PathOf(from), s)]]

-----------------------------------------------------------------------------
(* Every file system with some of these files, for the properties of Resolve. *)

Outer == <<"/", "node_modules", "pkg">>
Optional ==
    {A, App \o <<"a">>, Main, IndexJs, Package \o <<"lib", "index.js">>,
     Package \o <<"lib.cjs">>, Outer \o <<"index.js">>}

\* The first is a tree of conditions.
Json ==
    <<[is |-> "object", of |-> [default |-> 4, node |-> 2, require |-> 3, solid |-> 6]],
      [is |-> "object", of |-> [browser |-> 5]],
      [is |-> "array"],
      InPath(Append(Dot, "main")), InPath(Dot), InPath(Append(Dot, "lib")), InPath(Append(Dot, "index"))>>

Descriptions ==
    {[exports |-> e, json |-> Json, main |-> m] :
        e \in {{}, {Export(Dot, 1)}, {Export(Dot, 6), Export(Dot, 5)}, {Export(Append(Dot, "lib"), 7)}},
        m \in {None, <<"main">>}}

MCFileSystems ==
    {[kind |-> WithDirectories(files \cup {Append(Package, "package.json"), Append(Outer, "package.json")}),
      description |-> [dir \in {Package, Outer} |->
          IF dir = Package THEN d ELSE [exports |-> {}, json |-> Json, main |-> None]]] :
        files \in SUBSET Optional, d \in Descriptions}

MCPaths == {A, Main, Dot \o Vm}
MCNames ==
    {AbsoluteA, Beside, FromPackage, <<"pkg">>, <<"pkg", "lib">>, <<"@scope">>, <<"@scope", "x">>,
     App \o <<"node_modules", "pkg">>}

===============================================================================
