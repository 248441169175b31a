--------------------------- MODULE Specification ---------------------------
(* The bundle of a specification at work: the require function at its head,   *)
(* Verifier::new, which runs it in an engine of its own and sorts its exports *)
(* (specification/verifier.rs), and every document of the page, which runs it *)
(* again.  The runner has the page's extractors run (runner.rs, internal.ts)  *)
(* and the verifier hands their values to the extractors of its own           *)
(* (specification/js.rs, snapshots.rs) before it evaluates.                   *)
(*                                                                            *)
(* What the page and the verifier have in common is the order in which their  *)
(* bundles make extractors.  The files may change between the two bundlings,  *)
(* and a module may throw in a page that did not in the verifier.             *)
EXTENDS Bundler

CONSTANTS
    Runtime,             \* @antithesishq/bombadil
    Edits(_),            \* what a user may make of a program
    MaxDocuments,        \* bound: documents the page shows
    MaxThrows,           \* bound: documents the bundle throws in
    MaxStates            \* bound: states of the test

ASSUME SpecificationAssumption ==
    /\ Runtime \in Embedded
    /\ \A bound \in {MaxDocuments, MaxThrows, MaxStates} : bound \in Nat
    /\ \A modules \in Programs : \A other \in Edits(modules) : IsProgram(other)

VARIABLES
    engine,              \* the verifier's: modules run so far
    properties,          \* the names of the exports that are formulas
    generators,          \* and of those that are action generators
    cells,               \* what the verifier's extractors hold
    page,                \* the runtime of the page's document
    snapshots,           \* of the latest state
    thunk,               \* what the thunks of that state read, with evidence
    documents, throws, states,
    edited               \* history: a file changed between the two bundlings

pageVars == <<page, documents, throws>>
stepVars == <<cells, snapshots, thunk, states>>
vars == <<bundlerVars, edited, engine, properties, generators, pageVars, stepVars>>

-----------------------------------------------------------------------------
(* Values, known by the declaration they come from                            *)
Value(of, name, kind) == [of |-> of, name |-> name, kind |-> kind]
Undefined == Value("none", "none", "undefined")
Marker == Value("none", "none", "marker")
MarkerName == "__esModule"

At(exports, name) ==
    IF name \in DOMAIN exports THEN exports[name] ELSE Undefined
Put(exports, name, value) ==
    [n \in DOMAIN exports \cup {name} |->
        IF n = name THEN value ELSE exports[n]]

(* An engine that runs a bundle: the call stack of require, the cache with    *)
(* what each module has exported, the local names of each and the runtime's   *)
(* extractors.                                                                *)
Called(path) == [path |-> path, pc |-> 1]
NothingRun == [stack |-> <<>>, cache |-> <<>>, locals |-> <<>>,
               extractors |-> <<>>, threw |-> FALSE]

(* require: a module is cached before it runs, so a cycle sees what it has    *)
(* exported so far; a path without a module is cached and throws.             *)
RequirePath(script, e, path) ==
    IF path \in DOMAIN e.cache THEN e
    ELSE [e EXCEPT !.cache = Put(e.cache, path, <<>>),
                   !.locals = Put(e.locals, path, <<>>),
                   !.threw = path \notin DOMAIN script,
                   !.stack = Append(@, Called(path))]

Top(e) == Last(e.stack)
Ended(e) == e.stack = <<>> \/ e.threw

(* A module that is no ES module and has no default is its own default.       *)
Interop(path, exports) ==
    IF MarkerName \in DOMAIN exports \/ "default" \in DOMAIN exports
    THEN exports
    ELSE Put(exports, "default", Value(path, "exports", "object"))

Return(e) ==
    [e EXCEPT !.stack = Front(@),
              !.cache[Top(e).path] = Interop(Top(e).path, @)]

Bind(locals, exports, names) ==
    [n \in DOMAIN locals \cup names |->
        IF n \in names THEN At(exports, n) ELSE locals[n]]

(* Object.assign: what is copied replaces what is there                       *)
Assign(own, other) ==
    [n \in DOMAIN own \cup DOMAIN other |->
        IF n \in DOMAIN other THEN other[n] ELSE own[n]]

(* An extractor's index is its place among those of the runtime.              *)
Extractor(of, name, label) == [of |-> of, name |-> name, label |-> label]
Registered(extractors, path, i) ==
    IF i.kind = "extractor"
    THEN Append(extractors, Extractor(path, i.name, i.label))
    ELSE extractors

Effect(e, i) ==
    LET path == Top(e).path
    IN  CASE i.do = "mark" ->
                [e EXCEPT !.cache[path] = Put(@, MarkerName, Marker)]
          [] i.do = "require" ->
                [e EXCEPT !.locals[path] = Bind(@, e.cache[i.path], i.names)]
          [] i.do = "assign" ->
                [e EXCEPT !.cache[path] = Assign(@, e.cache[i.path])]
          [] i.do = "make" ->
                [e EXCEPT !.locals[path] =
                              Put(@, i.name, Value(path, i.name, i.kind)),
                          !.extractors = Registered(@, path, i)]
          [] OTHER ->    \* export
                [e EXCEPT !.cache[path] =
                              Put(@, i.name, At(e.locals[path], i.name))]

(* One statement of the module on top; one that requires a module that has    *)
(* not run yet is suspended while that runs.                                  *)
Step1(script, e) ==
    LET top == Top(e)
        code == script[top.path]
        i == code[top.pc]
    IN  IF top.pc > Len(code) THEN Return(e)
        ELSE IF i.do \in {"require", "assign"} /\ i.path \notin DOMAIN e.cache
        THEN RequirePath(script, e, i.path)
        ELSE [Effect(e, i) EXCEPT !.stack[Len(e.stack)].pc = @ + 1]

(* The script ends with `return require(the first module)'.  A reexport binds *)
(* what it reexports in its module; where the module has the name already,    *)
(* nothing of the script runs.                                                *)
Bound(i) ==
    CASE i.do = "require" -> i.names
      [] i.do = "make" -> {i.name}
      [] OTHER -> {}
Redeclares(code) ==
    \E i, j \in DOMAIN code :
        i < j /\ (Bound(code[i]) \cap Bound(code[j])) \ {"default"} # {}
Parses(script) == \A m \in DOMAIN script : ~Redeclares(script[m])

Begun(script) ==
    IF Parses(script) THEN RequirePath(script, NothingRun, Entry)
    ELSE [NothingRun EXCEPT !.threw = TRUE]

-----------------------------------------------------------------------------
(* Verifier::new                                                              *)
Quiet == [reads |-> {}, evidence |-> {}]

SpecificationInit ==
    /\ Init
    /\ engine = NothingRun
    /\ properties = {} /\ generators = {}
    /\ cells = <<>> /\ snapshots = <<>> /\ thunk = Quiet
    /\ page = NothingRun
    /\ documents = 0 /\ throws = 0 /\ states = 0
    /\ edited = FALSE

StartEngine ==
    /\ phase = "loading" /\ engine = NothingRun
    /\ engine' = Begun(bundle)
    /\ UNCHANGED <<bundlerVars, edited, properties, generators, pageVars,
                   stepVars>>

RunEngine ==
    /\ phase = "loading" /\ engine # NothingRun /\ ~Ended(engine)
    /\ engine' = Step1(bundle, engine)
    /\ UNCHANGED <<bundlerVars, edited, properties, generators, pageVars,
                   stepVars>>

Loaded == phase = "loading" /\ engine # NothingRun /\ Ended(engine)
EntryExports ==
    IF Entry \in DOMAIN engine.cache THEN engine.cache[Entry] ELSE <<>>

Named(kind) == {n \in DOMAIN EntryExports : EntryExports[n].kind = kind}
Ignored == {MarkerName}
Unknown ==
    DOMAIN EntryExports
        \ (Named("formula") \cup Named("generator") \cup Ignored)

(* The runtime is looked up by its name: a specification that nowhere imports *)
(* it has no module of that name.                                             *)
Refused ==
    \/ engine.threw
    \/ Runtime \notin DOMAIN engine.cache
    \/ Unknown # {}
    \/ Named("generator") = {}

RefuseSpecification ==
    /\ Loaded /\ Refused
    /\ phase' = "failed"
    /\ UNCHANGED <<program, queue, importTypes, bundle, edited, engine,
                   properties, generators, pageVars, stepVars>>

(* The cells follow the order of the runtime's array.                         *)
Unset == [time |-> 0]
RegisterBackwards(extractors) ==
    [i \in DOMAIN extractors |->
        [extractor |-> extractors[Len(extractors) + 1 - i], value |-> Unset]]
Register(extractors) ==
    [i \in DOMAIN extractors |->
        [extractor |-> extractors[i], value |-> Unset]]

AcceptSpecification ==
    /\ Loaded /\ ~Refused
    /\ BundleAgain
    /\ properties' = Named("formula")
    /\ generators' = Named("generator")
    /\ cells' = Register(engine.extractors)
    /\ UNCHANGED <<program, edited, engine, pageVars, snapshots, thunk, states>>

-----------------------------------------------------------------------------
(* The files may be edited until the page's bundle has been made.             *)
Edit ==
    /\ phase = "bundlingForPage" /\ ~edited
    /\ bundle = NothingBundled
    /\ program' \in Edits(program)
    /\ edited' = TRUE
    /\ UNCHANGED <<queue, importTypes, bundle, phase, engine, properties,
                   generators, pageVars, stepVars>>

(* The page: every document runs the bundle from nothing.                     *)
NewDocument ==
    /\ phase = "ready" /\ documents < MaxDocuments
    /\ documents = 0 \/ Ended(page)
    /\ documents' = documents + 1
    /\ page' = Begun(bundle)
    /\ UNCHANGED <<bundlerVars, edited, engine, properties, generators, throws,
                   stepVars>>

RunPage ==
    /\ phase = "ready" /\ documents > 0 /\ ~Ended(page)
    /\ page' = Step1(bundle, page)
    /\ UNCHANGED <<bundlerVars, edited, engine, properties, generators,
                   documents, throws, stepVars>>

PageThrows ==
    /\ phase = "ready" /\ documents > 0 /\ ~Ended(page)
    /\ throws < MaxThrows /\ Top(page).path \notin Embedded
    /\ throws' = throws + 1
    /\ page' = [page EXCEPT !.threw = TRUE]
    /\ UNCHANGED <<bundlerVars, edited, engine, properties, generators,
                   documents, stepVars>>

(* run_extractors: the page's runtime runs its extractors, in their order.    *)
(* A bundle that threw has defined require by then, and with it a runtime of  *)
(* the extractors made so far; one that does not parse has defined nothing.   *)
HasRuntime == Parses(bundle) /\ Runtime \in DOMAIN bundle

RunExtractors ==
    [i \in DOMAIN page.extractors |->
        [index |-> i, name |-> page.extractors[i].label,
         value |-> [of |-> page.extractors[i], time |-> states + 1]]]

(* Extractors::update_from_snapshots goes by position; what the page has no   *)
(* snapshot for keeps its value.                                              *)
Updated(of, new) ==
    [i \in DOMAIN of |->
        IF i \in DOMAIN new THEN [of[i] EXCEPT !.value = new[i].value]
        ELSE of[i]]

(* with_snapshot_tracking: the snapshots at the indices that were read        *)
Accessed(of, reads) == {of[i] : i \in reads \cap DOMAIN of}

(* Verifier::step: the thunks read some of the cells, as the tracking of      *)
(* accesses records, and the snapshots at those indices are their evidence.   *)
(* A cell that never had a value throws.                                      *)
StateChanged ==
    /\ phase = "ready" /\ documents > 0 /\ Ended(page) /\ HasRuntime
    /\ states < MaxStates
    /\ snapshots' = RunExtractors
    /\ cells' = Updated(cells, RunExtractors)
    /\ states' = states + 1
    /\ \E reads \in SUBSET DOMAIN cells :
        IF \E i \in reads : cells'[i].value = Unset
        THEN phase' = "failed" /\ thunk' = Quiet
        ELSE /\ UNCHANGED phase
             /\ thunk' = [reads |-> {cells'[i] : i \in reads},
                          evidence |-> Accessed(snapshots', reads)]
    /\ UNCHANGED <<program, queue, importTypes, bundle, edited, engine,
                   properties, generators, pageVars>>

ExtractorsFail ==
    /\ phase = "ready" /\ documents > 0 /\ Ended(page) /\ ~HasRuntime
    /\ phase' = "failed"
    /\ UNCHANGED <<program, queue, importTypes, bundle, edited, engine,
                   properties, generators, pageVars, stepVars>>

Bundling ==
    /\ BundlerNext
    /\ UNCHANGED <<edited, engine, properties, generators, pageVars, stepVars>>

Next ==
    \/ Bundling
    \/ StartEngine \/ RunEngine \/ RefuseSpecification \/ AcceptSpecification
    \/ Edit
    \/ NewDocument \/ RunPage \/ PageThrows \/ StateChanged
    \/ ExtractorsFail

Spec == SpecificationInit /\ [][Next]_vars

-----------------------------------------------------------------------------
(* What an ES module system makes of the modules, for programs without        *)
(* cycles: a module's own exports, and by `export *' those of others where it *)
(* has none of that name itself.  The default export is left out, and so is   *)
(* the marker, which no ES module has.                                        *)
Hidden == {"default", MarkerName}

Stars(m) == {s.from : s \in {l \in Links(program[m]) : l.op = "exportAll"}}
OwnNames(m) ==
    LET statements == ToSet(program[m])
    IN  ({s.name : s \in {t \in statements : t.op = "exportDeclaration"}}
          \cup UNION {s.names : s \in {t \in statements :
                                         t.op \in {"reexport", "exportNames"}}})
        \ Hidden

(* Where a local name of a module, or one it reexports, comes from            *)
Source(m, name) ==
    {l.from : l \in {k \in Links(program[m]) :
                        k.op \in {"import", "reexport"} /\ name \in k.names}}
Declarations(m, name) ==
    {Value(m, name, s.kind) :
        s \in {t \in ToSet(program[m]) :
                  t.op \in {"exportDeclaration", "declaration"} /\ t.name = name}}

(* The modules in which an export of a module is looked up, and all of those  *)
(* that this leads to.                                                        *)
LooksIn(m, name) ==
    IF m \notin Code THEN {}
    ELSE IF name \in OwnNames(m) THEN Source(m, name) ELSE Stars(m)
LeadsTo(m, name) ==
    {k \in Processed :
        \A C \in SUBSET Processed :
            m \in C /\ (\A l \in C : LooksIn(l, name) \subseteq C) => k \in C}

EsExport(m, name) ==
    UNION {Declarations(k, name) :
             k \in {l \in LeadsTo(m, name) \cap Code : name \in OwnNames(l)}}
EsExports(m) ==
    UNION {{<<name, value>> : value \in EsExport(m, name)} :
             name \in UNION {OwnNames(k) : k \in Processed \cap Code}}

(* Two different declarations under one name are ambiguous: no reference.     *)
Ambiguous(exports) ==
    \E a, b \in exports : a[1] = b[1] /\ a[2] # b[2]

(* What is exported but nowhere declared is a syntax error of ES modules.     *)
Missing ==
    \E m \in Processed \cap Code : \E name \in OwnNames(m) : EsExport(m, name) = {}

Imports(m) == IF m \in Code THEN {s.from : s \in Links(program[m])} ELSE {}
Acyclic ==
    \A C \in SUBSET Processed :
        C # {} => \E m \in C : Imports(m) \cap C = {}

-----------------------------------------------------------------------------
Kinds == DeclaredKinds \cup {"object", "undefined", "marker"} \cup ImportTypes
EngineOK(e) ==
    /\ \A i \in DOMAIN e.stack :
        e.stack[i].path \in DOMAIN e.cache \cap Keys /\ e.stack[i].pc \in Nat
    /\ DOMAIN e.locals = DOMAIN e.cache
    /\ \A m \in DOMAIN e.cache :
        \A n \in DOMAIN e.cache[m] : e.cache[m][n].kind \in Kinds
    /\ Cardinality({f.path : f \in ToSet(e.stack)}) = Len(e.stack)

(* The types, and with them: a module is on the call stack once, and no       *)
(* module is bundled as something it is not (bundle, the require function).   *)
TypeOK ==
    /\ program \in Programs \/ edited
    /\ ToSet(queue) \cup DOMAIN bundle \subseteq Keys
    /\ \A key \in DOMAIN importTypes : importTypes[key] \in ImportTypes
    /\ phase \in Phases
    /\ EngineOK(engine) /\ EngineOK(page)
    /\ properties \cap generators = {}
    /\ \A i \in DOMAIN cells :
        cells[i].value = Unset \/ cells[i].value.time \in 1..states
    /\ documents \in 0..MaxDocuments /\ throws \in 0..MaxThrows
    /\ states \in 0..MaxStates /\ edited \in BOOLEAN

(* When the bundle parses and has run in the verifier, no module was missing  *)
(* and every one has run, once: the queue has bundled what any module         *)
(* requires, and nothing that none does (bundle, the require function).       *)
HasRun == phase = "loading" /\ engine # NothingRun /\ Ended(engine) /\ Parses(bundle)
EveryModuleRuns ==
    HasRun => ~engine.threw /\ DOMAIN bundle = DOMAIN engine.cache

(* And where no modules import each other in a circle and what they export    *)
(* exists, each exports what an ES module system would have it export: its    *)
(* own declarations before those it has by export *, under every name but     *)
(* default, however the modules were ordered in the bundle (the rewriter's    *)
(* exports at the end of a module, Object.assign in place, require's cache).  *)
ModulesExportTheirs ==
    /\ EveryModuleRuns
    /\ HasRun /\ Acyclic /\ ~Missing =>
        \A m \in Processed \cap Code :
            ~Ambiguous(EsExports(m)) =>
                {<<n, engine.cache[m][n]>> : n \in DOMAIN engine.cache[m] \ Hidden}
                    = EsExports(m)

(* What a thunk reads from an extractor is what the same extractor of the     *)
(* page gave for the state under evaluation, and it is named as evidence.     *)
(* Two things are outside of this: a test whose files were edited between the *)
(* two bundlings, where positions need not agree, and a document in which the *)
(* bundle threw, where a cell keeps the value of an earlier state; even then  *)
(* it is the cell's own extractor's (Extractors::update_from_snapshots,       *)
(* with_snapshot_tracking, Verifier::new's registration).                     *)
SnapshotsReachTheirExtractors ==
    [][~edited /\ states' # states =>
        \A cell \in thunk'.reads :
            /\ cell.value.of = cell.extractor
            /\ \/ /\ cell.value.time = states'
                  /\ \E s \in thunk'.evidence : s.value = cell.value
               \/ page.threw]_vars
=============================================================================
