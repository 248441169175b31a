------------------------------ MODULE Bundler ------------------------------
(* How a specification and what it imports become one script: the resolver    *)
(* (specification/resolver.rs), the queue of modules of bundle and the        *)
(* rewriting of a module's imports and exports (specification/bundler).       *)
(* Modules are lists of the statements the rewriter has an arm for; parsing   *)
(* and the stripping of types leave nothing else behind.                      *)
EXTENDS Integers, SequencesExt

CONSTANTS
    Embedded,            \* specifiers under @antithesishq/bombadil
    OnDisk,              \* code files
    Files,               \* files without a code extension
    Stubs,               \* packages with browser: false
    Sorted(_),           \* a set of keys in the order of ModuleKey: a BTreeSet
    Extension(_),        \* of a file: json or other
    Decodes(_, _),       \* whether a file can be read as a type
    Entry,               \* the specification
    Programs             \* what the code files and embedded files may hold

Code == Embedded \cup OnDisk
Keys == Code \cup Files \cup Stubs

(* The extension says which of a package's files is code, and a stub is none. *)
ASSUME BundlerAssumption ==
    /\ Entry \in OnDisk
    /\ Files \cap (Code \cup Stubs) = {} /\ Stubs \cap Code = {}
    /\ \A keys \in SUBSET Keys :
          Sorted(keys) \in Seq(Keys) /\ ToSet(Sorted(keys)) = keys
    /\ \A program \in Programs : DOMAIN program = Code

VARIABLES
    program,             \* the statements of every code module
    queue,               \* keys still to bundle
    importTypes,         \* import_types: key |-> the type an import named
    bundle,              \* the modules so far: path |-> rewritten code
    phase                \* of the start of a test

bundlerVars == <<program, queue, importTypes, bundle, phase>>

(* Runner::new bundles twice: in VerifierWorker::start for the verifier,      *)
(* which loads the script, and once more for the page.                        *)
BundlingPhases == {"bundling", "bundlingForPage"}
Phases == BundlingPhases \cup {"loading", "ready", "failed"}

-----------------------------------------------------------------------------
(* Statements.  A name stands for what is imported and for its local binding. *)
NoType == "none"
ImportTypes == {"json", "text", "binary"}

Import(from, type, names) ==
    [op |-> "import", from |-> from, type |-> type, names |-> names]
ExportAll(from, type) == [op |-> "exportAll", from |-> from, type |-> type]
Reexport(from, type, names) ==
    [op |-> "reexport", from |-> from, type |-> type, names |-> names]
Require(from) == [op |-> "require", from |-> from, type |-> NoType]
ExportDeclared(name, kind) ==
    [op |-> "exportDeclaration", name |-> name, kind |-> kind]
Declare(name, kind) == [op |-> "declaration", name |-> name, kind |-> kind]
ExportNames(names) == [op |-> "exportNames", names |-> names]
ExportDefault(kind) == [op |-> "exportDefault", kind |-> kind]
Broken == [op |-> "broken"]

Linking == {"import", "exportAll", "reexport", "require"}
Links(statements) == {s \in ToSet(statements) : s.op \in Linking}

(* What parsing leaves: types and kinds that exist, and names one can list    *)
DeclaredKinds == {"formula", "generator", "extractor", "other"}
IsStatement(s) ==
    /\ s.op \in Linking => s.type \in ImportTypes \cup {NoType}
    /\ s.op \in {"reexport", "exportNames"} => IsFiniteSet(s.names)
    /\ s.op \in {"exportDeclaration", "declaration", "exportDefault"} =>
          s.kind \in DeclaredKinds
IsProgram(modules) ==
    \A m \in Code :
        /\ modules[m] \in Seq(ToSet(modules[m]))
        /\ \A s \in ToSet(modules[m]) : IsStatement(s)
ASSUME ProgramsAssumption == \A modules \in Programs : IsProgram(modules)

-----------------------------------------------------------------------------
(* The rewriter.  `require' runs a module and binds names of its exports,     *)
(* `assign' copies all of its exports, `make' evaluates a declaration and     *)
(* `export' assigns to module.exports.                                        *)
Requires(from, names) == [do |-> "require", path |-> from, names |-> names]
Assigns(from) == [do |-> "assign", path |-> from]
Makes(name, kind, label) ==
    [do |-> "make", name |-> name, kind |-> kind, label |-> label]
Exports(name) == [do |-> "export", name |-> name]
Unnamed == "null"

(* In its place a statement leaves what it runs.  Only a declaration that is  *)
(* not itself exported gets the .named of its variable: the rewriter does not *)
(* come back to what it has put in the place of an export.                    *)
InPlace(s) ==
    CASE s.op \in {"import", "reexport"} -> <<Requires(s.from, s.names)>>
      [] s.op = "require" -> <<Requires(s.from, {})>>
      [] s.op = "exportAll" -> <<Assigns(s.from)>>
      [] s.op = "exportDeclaration" -> <<Makes(s.name, s.kind, Unnamed)>>
      [] s.op = "declaration" -> <<Makes(s.name, s.kind, s.name)>>
      [] s.op = "exportDefault" ->
            <<Makes("default", s.kind, Unnamed), Exports("default")>>
      [] OTHER -> <<>>

(* At the end of its module it assigns the names it exports.                  *)
AtEnd(s) ==
    CASE s.op = "exportDeclaration" -> <<Exports(s.name)>>
      [] s.op \in {"reexport", "exportNames"} ->
            SetToSeq({Exports(name) : name \in s.names})
      [] OTHER -> <<>>

RewrittenInPlace(statements) ==
    FlattenSeq([i \in DOMAIN statements |->
                    InPlace(statements[i]) \o AtEnd(statements[i])])
Rewritten(statements) ==
    FlattenSeq([i \in DOMAIN statements |-> InPlace(statements[i])])
        \o FlattenSeq([i \in DOMAIN statements |-> AtEnd(statements[i])])

(* Every module that was code, and one that JSON or text was made into, is    *)
(* marked as an ES module; the bytes of a file and a stub are not.            *)
Marks == [do |-> "mark"]
CodeModule(statements) == <<Marks>> \o Rewritten(statements)
Contents(type) == <<Makes("default", type, Unnamed), Exports("default")>>
FileModule(type) ==
    IF type = "binary" THEN Contents(type) ELSE <<Marks>> \o Contents(type)
StubModule == <<>>

-----------------------------------------------------------------------------
(* Resolver::resolve: no key for what it does not find                        *)
Resolve(specifier) == {key \in Keys : key = specifier}

(* A module names a type for a file in some of its imports; a module that     *)
(* names two for one is refused, like one that imports what is not there.     *)
TypesNamed(statements) ==
    {<<s.from, s.type>> : s \in {l \in Links(statements) : l.type # NoType}}
Disagrees(types) ==
    \E a, b \in types : a[1] = b[1] /\ a[2] # b[2]
ResolutionErrors(statements) ==
    \/ \E s \in Links(statements) : Resolve(s.from) = {}
    \/ Disagrees(TypesNamed(statements))

NothingBundled == <<>>

Init ==
    /\ program \in Programs
    /\ queue = <<Entry>>
    /\ importTypes = NothingBundled
    /\ bundle = NothingBundled
    /\ phase = "bundling"

BundleAgain ==
    /\ queue' = <<Entry>>
    /\ importTypes' = NothingBundled
    /\ bundle' = NothingBundled
    /\ phase' = "bundlingForPage"

Processed == DOMAIN bundle
Fail ==
    /\ phase' = "failed"
    /\ UNCHANGED <<program, queue, importTypes, bundle>>

(* The loop of bundle takes the first key of the queue                        *)
Next1 == Head(queue)
Taking == phase \in BundlingPhases /\ queue # <<>>

SkipProcessed ==
    /\ Taking /\ Next1 \in Processed
    /\ queue' = Tail(queue)
    /\ UNCHANGED <<program, importTypes, bundle, phase>>

Bundled(key, code) ==
    [k \in Processed \cup {key} |-> IF k = key THEN code ELSE bundle[k]]

BundleStub ==
    /\ Taking /\ Next1 \in Stubs \ Processed
    /\ bundle' = Bundled(Next1, StubModule)
    /\ queue' = Tail(queue)
    /\ UNCHANGED <<program, importTypes, phase>>

(* A file becomes what the imports known by now ask for.                      *)
FileTypeUnset(key) ==
    IF key \in DOMAIN importTypes THEN importTypes[key] ELSE NoType
FileType(key) ==
    IF key \in DOMAIN importTypes THEN importTypes[key]
    ELSE IF Extension(key) = "json" THEN "json" ELSE "binary"

BundleFile ==
    /\ Taking /\ Next1 \in Files \ Processed
    /\ Decodes(Next1, FileType(Next1))
    /\ bundle' = Bundled(Next1, FileModule(FileType(Next1)))
    /\ queue' = Tail(queue)
    /\ UNCHANGED <<program, importTypes, phase>>

BundleFileFails ==
    /\ Taking /\ Next1 \in Files \ Processed
    /\ ~Decodes(Next1, FileType(Next1))
    /\ Fail

(* A type that another module has named differently ends the bundling.        *)
NeverConflicts(types) == FALSE
Conflicts(types) ==
    \E t \in types : t[1] \in DOMAIN importTypes /\ importTypes[t[1]] # t[2]

CodeFails(statements) ==
    \/ Broken \in ToSet(statements)
    \/ ResolutionErrors(statements)
    \/ Conflicts(TypesNamed(statements))

ToBundle(statements) == Sorted({s.from : s \in Links(statements)} \ Processed)

BundleCode ==
    /\ Taking /\ Next1 \in Code \ Processed
    /\ LET statements == program[Next1]
           types == TypesNamed(statements)
       IN  /\ ~CodeFails(statements)
           /\ queue' = Tail(queue) \o ToBundle(statements)
           /\ importTypes' =
                [key \in DOMAIN importTypes \cup {t[1] : t \in types} |->
                    IF key \in DOMAIN importTypes THEN importTypes[key]
                    ELSE (CHOOSE t \in types : t[1] = key)[2]]
           /\ bundle' = Bundled(Next1, CodeModule(statements))
    /\ UNCHANGED <<program, phase>>

BundleCodeFails ==
    /\ Taking /\ Next1 \in Code \ Processed
    /\ CodeFails(program[Next1])
    /\ Fail

(* The script is complete, for Verifier::new or for the page.                 *)
Emit ==
    /\ phase \in BundlingPhases /\ queue = <<>>
    /\ phase' = IF phase = "bundling" THEN "loading" ELSE "ready"
    /\ UNCHANGED <<program, queue, importTypes, bundle>>

BundlerNext ==
    \/ SkipProcessed \/ BundleStub \/ BundleFile \/ BundleFileFails
    \/ BundleCode \/ BundleCodeFails \/ Emit

-----------------------------------------------------------------------------
(* Every import of the file in the bundle names a type.                       *)
Importers(file) ==
    {s \in UNION {Links(program[m]) : m \in Processed \cap Code} :
        s.from = file}

(* A file that every import asks for with a type is of that type in the       *)
(* bundle, whichever module was bundled first (bundle, ConflictingImportTypes *)
(* and the types known when a file is taken off the queue).  An import        *)
(* without a type takes part in this only when it comes first: then the file  *)
(* is what its extension says, and the later import gets that silently.       *)
TypedImportsGetTheirType ==
    phase \in {"loading", "ready"} =>
        \A file \in Processed \cap Files :
            (\A s \in Importers(file) : s.type # NoType) =>
                \A s \in Importers(file) : bundle[file] = FileModule(s.type)
=============================================================================
