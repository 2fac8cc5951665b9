---------------------------- MODULE ModuleLoader -----------------------------
(***************************************************************************)
(* The front door of the compiler: v2/driver/ModuleLoader.cpp turns an     *)
(* entry file and the files it imports into one flat list of items, and    *)
(* v2/driver/Driver.cpp takes that list through the stages of the compiler *)
(* to the virtual machine.  appendModule is recursive; here its activations*)
(* are frames, the innermost first.                                        *)
(*                                                                         *)
(* A path is the sequence of its names from the root of the file system; a *)
(* file is a path with the form under which it is stored.                  *)
(***************************************************************************)
EXTENDS Naturals, Sequences, FiniteSets, SequencesExt

CONSTANTS
    Programs,      \* what may be on disk and on the command line, records of
                   \*   present, broken : sets of files
                   \*   entry : file, configured, env, cwd : paths or NoPath
                   \*   imports : file -> sequence of [module, items]
                   \*   declares : file -> sequence of [name, private]
                   \*   dumps : set of stages to show, compileOnly : BOOLEAN
    NoPath,        \* an absent directory
    MaxWalk        \* how many parent directories a search visits

VARIABLES
    program,       \* what this run of the compiler was given
    pending,       \* roots load() has still to append
    frames,        \* activations of appendModule
    loading, loaded,   \* its two sets of files
    combined,      \* items of the combined module
    loadOrder,     \* files in the order they were completed
    intrinsics,    \* files that may name intrinsics
    failure,       \* "none", or what the loader threw
    stage,         \* where compileAndRun stands
    stdout,        \* kinds of text written so far
    status         \* exit status, NoStatus before the end

loaderVars == <<program, pending, frames, loading, loaded, combined, loadOrder,
                intrinsics, failure, stage, stdout, status>>

NoFile == [path |-> <<>>, form |-> "none"]
NoStatus == 2
WholeModule == {}
NotImported == [module |-> <<>>, items |-> WholeModule]

Forms == <<"lx", "lxs", "mod", "package", "index">>

\* The directory a file's own imports are resolved from.
DirOf(file) == IF file.form \in {"lx", "lxs"} THEN Front(file.path) ELSE file.path

\* The source file for a path: with either extension, then a directory's index.
tryLxFile(path) ==
    LET stored == SelectSeq(Forms, LAMBDA form : [path |-> path, form |-> form] \in program.present)
    IN IF stored = <<>> THEN NoFile ELSE [path |-> path, form |-> Head(stored)]

\* Prefixes of dir a search visits, the nearest first.
Ancestors(dir) ==
    [k \in 1 .. (IF Len(dir) < MaxWalk THEN Len(dir) + 1 ELSE MaxWalk) |-> SubSeq(dir, 1, Len(dir) + 1 - k)]

HasPrelude(root) == [path |-> root \o <<"loxis", "prelude">>, form |-> "lx"] \in program.present

findStdlibRoot ==
    LET near == [k \in DOMAIN Ancestors(DirOf(program.entry)) |->
                     Ancestors(DirOf(program.entry))[k] \o <<"stdlib">>]
        from(p, sub) == IF p = NoPath THEN <<>> ELSE <<p \o sub>>
        usable == SelectSeq(from(program.configured, <<>>) \o from(program.env, <<>>)
                            \o near \o from(program.cwd, <<"stdlib">>), HasPrelude)
    IN IF usable = <<>> THEN NoPath ELSE Head(usable)

resolveStdlibModule(module) ==
    IF findStdlibRoot = NoPath \/ module = <<>> THEN NoFile
    ELSE IF module[1] # "loxis" THEN NoFile
    ELSE tryLxFile(findStdlibRoot \o IF Len(module) = 1 THEN <<"loxis", "prelude">> ELSE module)

\* The nearest match above the importing file, then above the entry file.
resolveSourceModule(module, near) ==
    LET dirs == Ancestors(near) \o Ancestors(DirOf(program.entry))
        hits == SelectSeq(dirs, LAMBDA dir : tryLxFile(dir \o module) # NoFile)
    IN IF module = <<>> \/ hits = <<>> THEN NoFile ELSE tryLxFile(Head(hits) \o module)

\* A module of the standard library hides one of the program.
resolveModulePath(module, near) ==
    IF resolveStdlibModule(module) # NoFile THEN resolveStdlibModule(module)
    ELSE resolveSourceModule(module, near)

isExported(item) == ~item.private
matchesImportList(item, by) == by.items = WholeModule \/ item.name \in by.items

\* A file of the standard library, or one that imports loxis.unsafe, is trusted.
IntrinsicSource(file) ==
    \/ findStdlibRoot # NoPath /\ IsPrefix(findStdlibRoot, file.path)
    \/ \E k \in DOMAIN program.imports[file] :
           program.imports[file][k].module = <<"loxis", "unsafe">>

Roots ==
    (IF findStdlibRoot = NoPath THEN <<>>
     ELSE <<[path |-> findStdlibRoot \o <<"loxis", "prelude">>, form |-> "lx"]>>) \o <<program.entry>>

LoaderStart ==
    /\ pending = Roots
    /\ frames = <<>> /\ loading = {} /\ loaded = {}
    /\ combined = <<>> /\ loadOrder = <<>> /\ intrinsics = {}
    /\ failure = "none" /\ stage = "load" /\ status = NoStatus
    /\ stdout = IF "tokens" \in program.dumps THEN <<"ir">> ELSE <<>>

LoaderInit == program \in Programs /\ LoaderStart
-----------------------------------------------------------------------------
Loading == stage = "load" /\ failure = "none"

Throw(what) ==
    /\ failure' = what /\ frames' = <<>> /\ pending' = <<>>
    /\ UNCHANGED <<loading, loaded, combined, loadOrder, intrinsics>>

MarkLoadingLoaded(file) == loading' = loading \cup {file} /\ loaded' = loaded \cup {file}
MarkLoading(file) == loading' = loading \cup {file} /\ UNCHANGED loaded

\* The prologue of appendModule, over the frames that remain.
Append_(file, by, rest) ==
    \/ /\ file \in loaded
       /\ frames' = rest
       /\ UNCHANGED <<loading, loaded, combined, loadOrder, intrinsics, failure>>
    \/ /\ file \notin loaded /\ file \in loading
       /\ Throw("cycle")
    \/ /\ file \notin loaded \cup loading /\ file \in program.broken
       /\ Throw("syntax")
    \/ /\ file \notin loaded \cup loading \cup program.broken
       /\ frames' = <<[file |-> file, by |-> by, imports |-> program.imports[file]]>> \o rest
       /\ MarkLoading(file)
       /\ intrinsics' = intrinsics \cup IF IntrinsicSource(file) THEN {file} ELSE {}
       /\ UNCHANGED <<combined, loadOrder, failure>>

LoadRoot ==
    /\ Loading /\ frames = <<>> /\ pending # <<>>
    /\ Append_(Head(pending), NotImported, <<>>)
    /\ pending' = IF failure' = "none" THEN Tail(pending) ELSE <<>>
    /\ UNCHANGED <<program, stage, stdout, status>>

\* The import loop; what is imported twice is appended once.
ImportNext ==
    /\ Loading /\ frames # <<>>
    /\ Head(frames).imports # <<>>
    /\ LET top == Head(frames)
           import == Head(top.imports)
           found == resolveModulePath(import.module, DirOf(top.file))
       IN IF found = NoFile THEN Throw("unresolved")
          ELSE /\ Append_(found, import, <<[top EXCEPT !.imports = Tail(@)]>> \o Tail(frames))
               /\ pending' = IF failure' = "none" THEN pending ELSE <<>>
    /\ UNCHANGED <<program, stage, stdout, status>>

\* The items that go into the combined module.
TakenItems(file, by) ==
    SelectSeq([k \in DOMAIN program.declares[file] |->
                   [file |-> file, name |-> program.declares[file][k].name,
                    private |-> program.declares[file][k].private]],
              LAMBDA item : by = NotImported \/ (isExported(item) /\ matchesImportList(item, by)))

\* The file is done only now: an import that comes back to it before is a cycle.
MarkLoaded(file) == loading' = loading \ {file} /\ loaded' = loaded \cup {file}

FinishModule ==
    /\ Loading /\ frames # <<>>
    /\ Head(frames).imports = <<>>
    /\ LET file == Head(frames).file
       IN /\ combined' = combined \o TakenItems(file, Head(frames).by)
          /\ MarkLoaded(file)
          /\ loadOrder' = Append(loadOrder, file)
    /\ frames' = Tail(frames)
    /\ UNCHANGED <<program, pending, intrinsics, failure, stage, stdout, status>>
-----------------------------------------------------------------------------
Shown(what) == IF what \in program.dumps THEN <<"ir">> ELSE <<>>
Stages == <<"load", "typecheck", "hir", "lower", "compile", "run", "done">>
DumpsOf(s) ==
    CASE s = "load" -> Shown("ast") [] s = "typecheck" -> Shown("scopes") [] s = "hir" -> Shown("hir")
      [] s = "lower" -> Shown("mir") [] s = "compile" -> Shown("bytecode")
After(s) == Stages[1 + CHOOSE k \in DOMAIN Stages : Stages[k] = s]

Leave(code) == stage' = "done" /\ status' = code
KeepsLoader == UNCHANGED <<program, pending, frames, loading, loaded, combined, loadOrder, intrinsics, failure>>

\* One stage of compileToChunk: its dump, and on to the next.
StageSucceeds ==
    /\ stage \in {"load", "typecheck", "hir", "lower", "compile"}
    /\ stage = "load" => failure = "none" /\ frames = <<>> /\ pending = <<>>
    /\ stdout' = stdout \o DumpsOf(stage)
    /\ stage' = After(stage)
    /\ UNCHANGED status /\ KeepsLoader

\* A diagnostic or an exception of any stage ends the compiler.
StageFails ==
    /\ stage \in {"load", "typecheck", "hir", "lower", "compile"}
    /\ stage = "load" => failure # "none"
    /\ Leave(1)
    /\ UNCHANGED stdout /\ KeepsLoader

CompileOnlyChecks == program.compileOnly
CompileOnly == program.compileOnly \/ program.dumps # {}

\* The virtual machine runs only for a plain run; it may finish, raise or be cut short.
Run ==
    /\ stage = "run"
    /\ \/ CompileOnly /\ Leave(0) /\ UNCHANGED stdout
       \/ /\ ~CompileOnly
          /\ stdout' = Append(stdout, "program")
          /\ \E code \in {0, 1} : Leave(code)
    /\ KeepsLoader

LoaderNext == LoadRoot \/ ImportNext \/ FinishModule \/ StageSucceeds \/ StageFails \/ Run
-----------------------------------------------------------------------------
Targets(file) ==
    {resolveModulePath(program.imports[file][k].module, DirOf(file)) : k \in DOMAIN program.imports[file]}

\* The files an import chain from the roots reaches, and those it reaches from one file.
RECURSIVE Close(_)
Close(files) ==
    LET more == files \cup (UNION {Targets(f) : f \in files \ {NoFile}})
    IN IF more = files THEN files ELSE Close(more)
Needed == Close(Range(Roots))
Cyclic == \E f \in Needed \ {NoFile} : f \in Close(Targets(f))

Loaded == stage # "load"

(* A load that succeeds has read every file the program needs, once, each  *)
(* after the files it imports (appendModule's loaded set and post-order),  *)
(* and no item is in the combined module twice.                            *)
LoadsOnceInOrder ==
    Loaded /\ failure = "none" =>
        /\ Range(loadOrder) = Needed
        /\ IsInjective(loadOrder) /\ IsInjective(combined)
        /\ \A k \in DOMAIN loadOrder : Targets(loadOrder[k]) \subseteq Range(SubSeq(loadOrder, 1, k - 1))

(* The loader refuses exactly the programs that import a file in a cycle,  *)
(* import a file that is not there, or contain one that does not parse: an *)
(* error about a cycle is never reported for a diamond (ModuleLoader.cpp,  *)
(* lines 190 to 193).                                                      *)
RefusesOnlyBadImports ==
    Loaded =>
        /\ failure # "none" <=> NoFile \in Needed \/ Cyclic \/ Needed \cap program.broken # {}
        /\ failure = "cycle" => Cyclic
        /\ failure = "unresolved" => NoFile \in Needed

(* An item of an imported file is visible only if it is public and some    *)
(* import names it or its whole module; and an importer finds every public *)
(* item it names, unless another import of the same file has another list. *)
ExposesWhatWasAsked ==
    LET asks(g) == {im \in UNION {Range(program.imports[f]) \X {f} : f \in loaded} :
                        resolveModulePath(im[1].module, DirOf(im[2])) = g}
    IN Loaded /\ failure = "none" =>
        /\ \A item \in Range(combined) :
               \/ item.file \in Range(Roots)
               \/ ~item.private /\ \E im \in asks(item.file) :
                                       im[1].items = {} \/ item.name \in im[1].items
        /\ \A g \in loaded : Cardinality({im[1].items : im \in asks(g)}) = 1 /\ g \notin Range(Roots) =>
               \A im \in asks(g), k \in DOMAIN program.declares[g] :
                   LET d == program.declares[g][k]
                   IN ~d.private /\ (im[1].items = {} \/ d.name \in im[1].items) =>
                          \E item \in Range(combined) : item.file = g /\ item.name = d.name

(* IR text and program output never share stdout, and the machine never    *)
(* runs a program some stage refused (Driver.cpp, compileAndRun).          *)
OutputIsPure ==
    /\ ~("ir" \in Range(stdout) /\ "program" \in Range(stdout))
    /\ "program" \in Range(stdout) => failure = "none" /\ Range(loadOrder) = Needed

(* What load promises its caller: the files in order, errors for the wrong *)
(* imports only, and each importer the names it asked for.                 *)
ImportsAreSound == LoadsOnceInOrder /\ RefusesOnlyBadImports /\ ExposesWhatWasAsked
=============================================================================
