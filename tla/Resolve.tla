-------------------------------- MODULE Resolve --------------------------------
(***************************************************************************)
(* How require finds the file of a specifier.  A path, and a specifier, is *)
(* the sequence of its components, of which the first is "/" when it is    *)
(* absolute; "." (the directory of the process) or ".." when it is         *)
(* relative; and otherwise the name of a package.  A file system is a      *)
(* record: kind says of the paths that exist whether they are a "file" or  *)
(* a "directory", and description what the package.json of a directory     *)
(* says.  The answers are sets, since exports is visited in the random     *)
(* order of a Go map.                                                      *)
(***************************************************************************)
EXTENDS Naturals, Sequences

CONSTANTS
    Components,     \* strings
    Extensions,     \* the keys of require.extensions, in their order
    Scopes,         \* the component names that begin with "@"
    FileSystems,
    LongestPath,    \* how many components a path of a file has at most
    Paths,          \* the paths of modules that call require
    Names,          \* what they call it with
    Nothing,        \* nothing is found
    Endless         \* the search does not end

SomePaths == Seq(Components) \ {<<>>}

Conditions == <<"solid", "node", "require", "default">>

Root == <<"/">>
Here == <<".">>

IsAbs(path) == Head(path) = "/"
IsRelative(id) == Head(id) \in {".", ".."}

Dir(path) == IF Len(path) = 1 THEN path ELSE SubSeq(path, 1, Len(path) - 1)

\* ".." leads out of a name, and stays where there is none to leave.
Enter(path, name) ==
    CASE name \in {"/", "."} -> path
      [] name = ".." /\ path[Len(path)] \notin {".", ".."} -> Dir(path)
      [] OTHER -> Append(path, name)

Join(path, names) ==
    LET Joined[n \in 0 .. Len(names)] == IF n = 0 THEN path ELSE Enter(Joined[n - 1], names[n])
    IN Joined[Len(names)]

WithExtension(path, ext) ==
    IF path = Root THEN Append(path, ext) ELSE [path EXCEPT ![Len(path)] = @ \o ext]

Exists(fs, path) == path \in DOMAIN fs.kind
IsFile(fs, path) == Exists(fs, path) /\ fs.kind[path] = "file"
IsDirectory(fs, path) == Exists(fs, path) /\ fs.kind[path] = "directory"

Directories(fs) == {path \in DOMAIN fs.kind : IsDirectory(fs, path)}

\* The first of the answers that is one.
FirstFound(answers) ==
    LET found == {n \in DOMAIN answers : answers[n] # Nothing}
    IN IF found = {} THEN Nothing ELSE answers[CHOOSE n \in found : \A m \in found : n <= m]

-----------------------------------------------------------------------------
(* Inside a package: resolveFromDescriptionFile *)

\* Mutant: the first extension is taken without a look at the file.
Look_Unchecked(fs, index, path, extended) ==
    LET At(p) == CASE IsFile(fs, p) -> p
                   [] IsDirectory(fs, p) -> index[p]
                   [] OTHER -> p
    IN IF Exists(fs, path) THEN At(path)
       ELSE FirstFound([n \in DOMAIN Extensions |-> At(extended[n])])

\* The path itself, or else the first that is there with an extension; a
\* directory stands for its index.
Look(fs, index, path, extended) ==
    LET At(p) == CASE IsFile(fs, p) -> p
                   [] IsDirectory(fs, p) -> index[p]
                   [] OTHER -> Nothing
    IN IF Exists(fs, path) THEN At(path)
       ELSE FirstFound([n \in DOMAIN Extensions |-> At(extended[n])])

IndexOf(dir) == Append(dir, "index")

Index(fs) ==
    LET Found[dir \in Directories(fs)] ==
            Look(fs, Found, IndexOf(dir),
                 [n \in DOMAIN Extensions |-> WithExtension(IndexOf(dir), Extensions[n])])
    IN Found

Extension(fs, dir, file) ==
    Look(fs, Index(fs), Join(dir, file),
         [n \in DOMAIN Extensions |-> Join(dir, WithExtension(file, Extensions[n]))])

\* A value of exports: a path; or an object, of which the first condition that
\* leads to a file counts.  JSON arrays are never of the type []string, and lead
\* nowhere.
Leads(fs, dir, value, follow) ==
    CASE value.is = "path"   -> Extension(fs, dir, value.path)
      [] value.is = "object" ->
            FirstFound([n \in DOMAIN Conditions |->
                IF Conditions[n] \in DOMAIN value.of THEN follow[value.of[Conditions[n]]] ELSE Nothing])
      [] OTHER               -> Nothing

\* json lists the values of a package.json, objects before what they hold.
Condition(fs, dir, value) ==
    LET json == fs.description[dir].json
        Follow[v \in DOMAIN json] == Leads(fs, dir, json[v], Follow)
    IN Follow[value]

\* The exports of a package, then its main file, or the file of the sub-path.
\* A package.json that is not to be parsed is one without exports and main.
FromDescriptionFile(fs, dir, packagePath) ==
    LET d == fs.description[dir]
        exported == {Condition(fs, dir, e.value) :
                        e \in {x \in d.exports : x.key = packagePath}} \ {Nothing}
        plain == IF packagePath = Here /\ d.main # Nothing THEN d.main ELSE packagePath
    IN IF dir \notin DOMAIN fs.description THEN {Nothing}
       ELSE IF exported # {} THEN exported
       ELSE {Extension(fs, dir, plain)}

-----------------------------------------------------------------------------
(* resolve *)

\* An absolute path: with an extension; then as it is; a directory by its
\* package.json, then by its index.
AbsoluteBy(fs, path, try) ==
    LET Extended(n) == WithExtension(path, Extensions[n])
        file == FirstFound([n \in DOMAIN Extensions |->
                               IF IsFile(fs, Extended(n)) THEN Extended(n) ELSE Nothing])
        described == FromDescriptionFile(fs, path, Here)
    IN IF file # Nothing THEN {file}
       ELSE IF IsDirectory(fs, path)
            THEN (described \ {Nothing}) \cup
                 (IF Nothing \in described THEN try[IndexOf(path)] ELSE {})
       ELSE IF IsFile(fs, path) THEN {path}
       ELSE {Nothing}

ResolveAbsolute(fs, path) ==
    LET Try[p \in SomePaths] == AbsoluteBy(fs, p, Try)
    IN Try[path]

\* How many components of a specifier name the package.
PackageLength(id) == IF Head(id) \in Scopes THEN 2 ELSE 1

\* A package in the node_modules of a directory.
InDirectory(fs, dir, id) ==
    LET n == PackageLength(id) IN
    FromDescriptionFile(fs, Join(Append(dir, "node_modules"), SubSeq(id, 1, n)),
                        Here \o SubSeq(id, n + 1, Len(id)))

\* What is found in a directory, and if nothing is, outside.
Outward(fs, id, at, from) ==
    LET here == InDirectory(fs, at, id) IN
    (here \ {Nothing}) \cup
    (IF Nothing \notin here THEN {}
     ELSE IF Dir(at) = at THEN {IF at = Root THEN Nothing ELSE Endless}
     ELSE from[Dir(at)])

\* Mutant: the directory the search begins in is left out.
Search_Outside(fs, context, id) ==
    LET From[at \in SomePaths] == Outward(fs, id, at, From)
    IN From[Dir(context)]

\* A package: in the node_modules of the directory and of those around it, up to
\* "/".  The directory of "." is ".", from which no search comes to an end.
Search(fs, context, id) ==
    LET From[at \in SomePaths] == Outward(fs, id, at, From)
    IN From[context]

\* A specifier that is a scope alone is an index out of range, which ends as an error.
ResolvePackage(fs, context, id) ==
    IF PackageLength(id) > Len(id) THEN {Nothing} ELSE Search(fs, context, id)

\* From the directory context.  Names that are registered are found before (Registered).
ResolveIn(fs, context, id) ==
    LET joined == IF IsRelative(id) THEN Join(context, id) ELSE id
        name == IF Head(joined) = "." /\ joined # Here THEN Tail(joined) ELSE joined
    IN IF IsAbs(joined) THEN ResolveAbsolute(fs, joined) ELSE ResolvePackage(fs, context, name)

\* require in the module path, and its require.resolve, which does not take the
\* directory of path first.
RequireFrom(fs, path, id) == ResolveIn(fs, Dir(path), id)
RequireResolve(fs, path, id) == ResolveIn(fs, path, id)

-----------------------------------------------------------------------------
(* Assumptions on the constants *)

ASSUME ComponentsAssumption ==
    /\ {"/", ".", "..", "index", "node_modules"} \subseteq Components
    /\ Extensions \in Seq(Components)

\* Paths lead through directories, and package.json is in one.
ASSUME FileSystemsAssumption ==
    /\ LongestPath \in Nat
    /\ \A fs \in FileSystems :
          /\ \A path \in DOMAIN fs.kind :
                /\ path \in SomePaths /\ Len(path) <= LongestPath
                /\ fs.kind[path] \in {"file", "directory"}
                /\ \A n \in 1 .. (Len(path) - 1) : IsDirectory(fs, SubSeq(path, 1, n))
          /\ DOMAIN fs.description \subseteq Directories(fs)
          /\ {Nothing, Endless} \cap DOMAIN fs.kind = {}
    /\ Nothing # Endless

\* An object of a package.json comes before what it holds.
ASSUME JsonAssumption ==
    \A fs \in FileSystems : \A dir \in DOMAIN fs.description :
        LET d == fs.description[dir] IN
        /\ DOMAIN d.json = 1 .. Len(d.json) /\ Len(d.json) \in Nat
        /\ \A e \in d.exports : e.value \in DOMAIN d.json
        /\ \A v \in DOMAIN d.json : d.json[v].is = "object" =>
              \A c \in DOMAIN d.json[v].of : d.json[v].of[c] \in (v + 1) .. Len(d.json)

\* A module is not a directory.
ASSUME NamesAssumption ==
    /\ \A path \in Paths : path \in SomePaths /\ \A fs \in FileSystems : ~ IsDirectory(fs, path)
    /\ \A id \in Names : id \in SomePaths
===============================================================================
