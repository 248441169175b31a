------------------------ MODULE SpecificationProofs ------------------------
(* The bundle of a specification and the two engines that run it, for every   *)
(* set of files, imports between them, edits and documents of the page.       *)
EXTENDS Specification, SequenceTheorems, FiniteSetTheorems, WellFoundedInduction,
        TLAPS

-----------------------------------------------------------------------------
(* Files and their types                                                      *)

(* What is queued was asked for, by the runner or by a module in the bundle.  *)
QueueImported ==
    \A i \in 1..Len(queue) : queue[i] = Entry \/ Importers(queue[i]) # {}

(* No type that an import names is forgotten or overruled.                    *)
TypesRemembered ==
    \A m \in Processed \cap Code : \A s \in Links(program[m]) :
        s.type # NoType => /\ s.from \in DOMAIN importTypes
                           /\ importTypes[s.from] = s.type

(* A file is bundled as one of its imports has it.                            *)
FilesTyped ==
    \A file \in Processed \cap Files : \E s \in Importers(file) :
        s.type = NoType \/ bundle[file] = FileModule(s.type)

BundlerInv ==
    /\ queue \in Seq(Keys) /\ Processed \subseteq Keys
    /\ QueueImported /\ TypesRemembered /\ FilesTyped

(* A new bundle holds nothing, and only the specification is asked for.       *)
LEMMA NewBundle ==
    ASSUME queue = <<Entry>>, bundle = NothingBundled PROVE BundlerInv
<1>1. Processed = {}
  BY DEF Processed, NothingBundled
<1>2. queue \in Seq(Keys) /\ \A i \in 1..Len(queue) : queue[i] = Entry
  BY BundlerAssumption DEF Keys, Code
<1> QED
  BY <1>1, <1>2 DEF BundlerInv, QueueImported, TypesRemembered, FilesTyped

(* More modules have more imports.                                            *)
LEMMA ImportersStay ==
    ASSUME program' = program, Processed \subseteq Processed', NEW file
    PROVE  Importers(file) \subseteq Importers(file)'
BY DEF Importers

(* The rest of the queue is still asked for.                                  *)
LEMMA QueueShortened ==
    ASSUME BundlerInv, Taking
    PROVE  /\ Next1 = queue[1] /\ Next1 \in Keys
           /\ Next1 = Entry \/ Importers(Next1) # {}
           /\ Tail(queue) \in Seq(Keys)
           /\ \A i \in 1..Len(Tail(queue)) :
                 Tail(queue)[i] = Entry \/ Importers(Tail(queue)[i]) # {}
<1>1. /\ Tail(queue) \in Seq(Keys) /\ Len(Tail(queue)) = Len(queue) - 1
      /\ \A i \in 1..Len(Tail(queue)) : Tail(queue)[i] = queue[i + 1]
      /\ Len(queue) \in Nat \ {0} /\ Head(queue) = queue[1]
  BY HeadTailProperties, LenProperties, EmptySeq DEF BundlerInv, Taking
<1>2. 1 \in 1..Len(queue)
  BY <1>1
<1>3. queue[1] \in Keys
  BY <1>2, ElementOfSeq DEF BundlerInv
<1>4. \A i \in 1..Len(Tail(queue)) : i + 1 \in 1..Len(queue)
  BY <1>1
<1> QED
  BY <1>1, <1>2, <1>3, <1>4 DEF BundlerInv, QueueImported, Next1

(* What is asked for stays so when modules are added.                         *)
LEMMA QueueStays ==
    ASSUME program' = program, Processed \subseteq Processed',
           NEW keys, \A i \in 1..Len(keys) :
                        keys[i] = Entry \/ Importers(keys[i]) # {},
           queue' = keys
    PROVE  QueueImported'
<1> SUFFICES ASSUME NEW i \in 1..Len(keys)
             PROVE  keys[i] = Entry \/ Importers(keys[i])' # {}
  BY DEF QueueImported, Importers
<1> DEFINE key == keys[i]
<1>1. PICK k : k = keys[i]
  OBVIOUS
<1>2. k = Entry \/ Importers(k) # {}
  BY <1>1
<1>3. Importers(k) \subseteq Importers(k)'
  BY ImportersStay
<1> QED
  BY <1>1, <1>2, <1>3

(* A module that is no code adds no imports.                                  *)
LEMMA NoCodeKeeps ==
    ASSUME BundlerInv, Taking, Next1 \notin Code \cup Processed,
           UNCHANGED <<program, importTypes>>, queue' = Tail(queue),
           NEW code, bundle' = Bundled(Next1, code),
           Next1 \in Files => \E s \in Importers(Next1) :
                                 s.type = NoType \/ code = FileModule(s.type)
    PROVE  BundlerInv'
<1> USE DEF Processed
<1>1. /\ Processed' = Processed \cup {Next1} /\ bundle'[Next1] = code
      /\ \A k \in Processed : bundle'[k] = bundle[k]
  BY DEF Bundled
<1>2. Processed' \cap Code = Processed \cap Code
  BY <1>1
<1>3. QueueImported'
  BY <1>1, QueueShortened, QueueStays
<1>4. TypesRemembered'
  BY <1>2 DEF BundlerInv, TypesRemembered
<1>5. ASSUME NEW file \in Processed' \cap Files
      PROVE  \E s \in Importers(file)' :
                s.type = NoType \/ bundle'[file] = FileModule(s.type)
  <2>1. Importers(file)' = Importers(file)
    BY <1>2 DEF Importers
  <2>2. CASE file = Next1
    BY <1>1, <2>1, <2>2
  <2>3. CASE file # Next1
    BY <1>1, <2>1, <2>3 DEF BundlerInv, FilesTyped
  <2> QED
    BY <2>2, <2>3
<1>6. FilesTyped'
  BY <1>5 DEF FilesTyped, Importers
<1> QED
  BY <1>1, <1>3, <1>4, <1>6, QueueShortened DEF BundlerInv

(* A file is bundled as one of those that asked for it has it.                *)
LEMMA FileAsImported ==
    ASSUME BundlerInv, Taking, Next1 \in Files
    PROVE  \E s \in Importers(Next1) :
              s.type = NoType \/ FileType(Next1) = s.type
<1>1. PICK s \in Importers(Next1) : TRUE
  BY QueueShortened, BundlerAssumption DEF Code
<1>2. PICK m \in Processed \cap Code : s \in Links(program[m]) /\ s.from = Next1
  BY <1>1 DEF Importers
<1>3. s.type # NoType => FileType(Next1) = s.type
  BY <1>2 DEF BundlerInv, TypesRemembered, FileType
<1> QED
  BY <1>1, <1>3

(* The keys a module adds to the queue.                                       *)
LEMMA ImportsQueued ==
    ASSUME NEW statements, ~ResolutionErrors(statements),
           NEW keys, keys = ToBundle(statements)
    PROVE  /\ keys \in Seq(Keys)
           /\ \A i \in 1..Len(keys) :
                 \E s \in Links(statements) : s.from = keys[i]
<1> DEFINE asked == {s.from : s \in Links(statements)} \ Processed
<1>1. asked \in SUBSET Keys
  BY DEF ResolutionErrors, Resolve
<1>2. keys \in Seq(Keys) /\ ToSet(keys) = asked
  BY <1>1, BundlerAssumption DEF ToBundle
<1>3. DOMAIN keys = 1..Len(keys)
  BY <1>2, LenProperties
<1> QED
  BY <1>2, <1>3 DEF ToSet

(* The types a module names agree with one another and with those known.      *)
LEMMA TypesAgree ==
    ASSUME BundleCode, NEW s \in Links(program[Next1]), s.type # NoType
    PROVE  /\ s.from \in DOMAIN importTypes'
           /\ importTypes'[s.from] = s.type
<1> DEFINE types == TypesNamed(program[Next1])
<1>1. /\ ~Disagrees(types) /\ ~Conflicts(types)
      /\ importTypes' =
            [key \in DOMAIN importTypes \cup {t[1] : t \in types} |->
                IF key \in DOMAIN importTypes THEN importTypes[key]
                ELSE (CHOOSE t \in types : t[1] = key)[2]]
  BY DEF BundleCode, CodeFails, ResolutionErrors
<1>2. <<s.from, s.type>> \in types
  BY DEF TypesNamed
<1>3. <<s.from, s.type>>[1] = s.from /\ <<s.from, s.type>>[2] = s.type
  OBVIOUS
<1> HIDE DEF types
<1>4. s.from \in {t[1] : t \in types}
  BY <1>2, <1>3
<1>5. CASE s.from \in DOMAIN importTypes
  <2>1. importTypes[s.from] = s.type
    BY <1>1, <1>2, <1>3, <1>5 DEF Conflicts
  <2> QED
    BY <1>1, <1>5, <2>1
<1>6. CASE s.from \notin DOMAIN importTypes
  <2> DEFINE chosen == CHOOSE t \in types : t[1] = s.from
  <2>1. chosen \in types /\ chosen[1] = s.from
    BY <1>2, <1>3
  <2>2. chosen[2] = s.type
    BY <1>1, <1>2, <1>3, <2>1 DEF Disagrees
  <2>3. importTypes'[s.from] = chosen[2]
    BY <1>1, <1>4, <1>6
  <2> QED
    BY <1>1, <1>4, <2>2, <2>3
<1> QED
  BY <1>5, <1>6

(* A code module adds its imports, with their types.                          *)
LEMMA CodeKeeps == ASSUME BundlerInv, BundleCode PROVE BundlerInv'
<1> USE DEF Processed
<1> DEFINE statements == program[Next1]
<1>1. PICK keys : keys = ToBundle(statements) /\ queue' = Tail(queue) \o keys
  BY DEF BundleCode
<1>2. /\ Taking /\ Next1 \in Code \ Processed /\ ~CodeFails(statements)
      /\ bundle' = Bundled(Next1, CodeModule(statements)) /\ program' = program
      /\ \A key \in DOMAIN importTypes : /\ key \in DOMAIN importTypes'
                                         /\ importTypes'[key] = importTypes[key]
  BY DEF BundleCode
<1>3. /\ Processed' = Processed \cup {Next1}
      /\ \A k \in Processed : bundle'[k] = bundle[k]
  BY <1>2 DEF Bundled
<1>4. /\ keys \in Seq(Keys)
      /\ \A i \in 1..Len(keys) : \E s \in Links(statements) : s.from = keys[i]
  BY <1>1, <1>2, ImportsQueued DEF CodeFails
<1>5. /\ Tail(queue) \in Seq(Keys)
      /\ \A i \in 1..Len(Tail(queue)) :
            Tail(queue)[i] = Entry \/ Importers(Tail(queue)[i]) # {}
  BY <1>2, QueueShortened
<1>6. QueueImported'
  <2>0. PICK q : q = queue'
    OBVIOUS
  <2> SUFFICES ASSUME NEW i \in 1..Len(q)
               PROVE  q[i] = Entry \/ Importers(q[i])' # {}
    BY <2>0 DEF QueueImported, Importers
  <2>1. PICK k : k = q[i]
    OBVIOUS
  <2> DEFINE old == Tail(queue)
  <2>2. /\ Len(old) \in Nat /\ Len(keys) \in Nat
        /\ Len(q) = Len(old) + Len(keys)
        /\ \A j \in 1..Len(q) :
              q[j] = IF j <= Len(old) THEN old[j] ELSE keys[j - Len(old)]
    BY <1>1, <1>4, <1>5, <2>0, ConcatProperties, LenProperties
  <2>3. CASE i <= Len(old)
    <3>1. k = old[i] /\ i \in 1..Len(old)
      BY <2>1, <2>2, <2>3
    <3>2. k = Entry \/ Importers(k) # {}
      BY <1>5, <3>1
    <3>3. Importers(k) \subseteq Importers(k)'
      BY <1>2, <1>3, ImportersStay
    <3> QED
      BY <2>1, <3>2, <3>3
  <2>4. CASE ~(i <= Len(old))
    <3>1. k = keys[i - Len(old)] /\ i - Len(old) \in 1..Len(keys)
      BY <2>1, <2>2, <2>4
    <3>2. PICK s \in Links(statements) : s.from = k
      BY <1>4, <3>1
    <3>3. s \in Importers(k)'
      BY <1>2, <1>3, <3>2 DEF Importers
    <3> QED
      BY <2>1, <3>3
  <2> QED
    BY <2>3, <2>4
<1>7. TypesRemembered'
  <2> SUFFICES ASSUME NEW m \in (Processed \cup {Next1}) \cap Code,
                      NEW s \in Links(program[m]), s.type # NoType
               PROVE  /\ s.from \in DOMAIN importTypes'
                      /\ importTypes'[s.from] = s.type
    BY <1>2, <1>3 DEF TypesRemembered
  <2>1. CASE m \in Processed
    BY <1>2, <2>1 DEF BundlerInv, TypesRemembered
  <2>2. CASE m = Next1
    BY <2>2, TypesAgree
  <2> QED
    BY <2>1, <2>2
<1>8. ASSUME NEW file \in Processed' \cap Files
      PROVE  \E s \in Importers(file)' :
                s.type = NoType \/ bundle'[file] = FileModule(s.type)
  <2>1. file \in Processed
    BY <1>2, <1>3, BundlerAssumption
  <2>2. Importers(file) \subseteq Importers(file)'
    BY <1>2, <1>3, ImportersStay
  <2> QED
    BY <1>3, <2>1, <2>2 DEF BundlerInv, FilesTyped
<1>9. FilesTyped'
  BY <1>8 DEF FilesTyped, Importers
<1>10. queue' \in Seq(Keys) /\ Processed' \subseteq Keys
  BY <1>1, <1>2, <1>3, <1>4, <1>5, ConcatProperties DEF BundlerInv, Keys
<1> QED
  BY <1>6, <1>7, <1>9, <1>10 DEF BundlerInv

(* Every step of the bundling keeps it.                                       *)
LEMMA BundlingKeeps == ASSUME BundlerInv, BundlerNext PROVE BundlerInv'
<1>1. CASE SkipProcessed
  <2>1. /\ queue' = Tail(queue) /\ UNCHANGED <<program, importTypes, bundle>>
        /\ Taking
    BY <1>1 DEF SkipProcessed
  <2>2. QueueImported'
    BY <2>1, QueueShortened, QueueStays DEF Processed
  <2>3. TypesRemembered' /\ FilesTyped'
    BY <2>1 DEF BundlerInv, TypesRemembered, FilesTyped, Importers, Processed
  <2> QED
    BY <2>1, <2>2, <2>3, QueueShortened DEF BundlerInv, Processed
<1>2. CASE BundleStub
  BY <1>2, NoCodeKeeps, BundlerAssumption DEF BundleStub
<1>3. CASE BundleFile
  <2>1. \E s \in Importers(Next1) :
           \/ s.type = NoType
           \/ FileModule(FileType(Next1)) = FileModule(s.type)
    BY <1>3, FileAsImported DEF BundleFile
  <2> QED
    BY <1>3, <2>1, NoCodeKeeps, BundlerAssumption DEF BundleFile
<1>4. CASE BundleCode
  BY <1>4, CodeKeeps
<1>5. CASE BundleFileFails \/ BundleCodeFails \/ Emit
  BY <1>5 DEF BundleFileFails, BundleCodeFails, Emit, Fail, BundlerInv,
     QueueImported, TypesRemembered, FilesTyped, Importers, Processed
<1> QED
  BY <1>1, <1>2, <1>3, <1>4, <1>5 DEF BundlerNext

(* An edit comes before anything is bundled.                                  *)
LEMMA EditKeeps == ASSUME BundlerInv, Edit PROVE BundlerInv'
<1>1. Processed = {} /\ Processed' = {} /\ queue' = queue
  <2>1. bundle = <<>> /\ bundle' = bundle /\ queue' = queue
    BY DEF Edit, NothingBundled
  <2>2. DOMAIN bundle = {}
    BY <2>1
  <2> QED
    BY <2>1, <2>2 DEF Processed
<1>2. \A key : Importers(key) = {}
  BY <1>1 DEF Importers
<1> QED
  BY <1>1, <1>2 DEF BundlerInv, QueueImported, TypesRemembered, FilesTyped

(* And so does every other: nothing else touches a bundle that was begun.     *)
LEMMA BundlerNextKeeps == BundlerInv /\ [Next]_vars => BundlerInv'
<1> SUFFICES ASSUME BundlerInv, [Next]_vars PROVE BundlerInv'
  OBVIOUS
<1>1. CASE Bundling
  BY <1>1, BundlingKeeps DEF Bundling
<1>2. CASE AcceptSpecification
  <2>1. queue' = <<Entry>> /\ bundle' = NothingBundled
    BY <1>2 DEF AcceptSpecification, BundleAgain
  <2>2. (queue = <<Entry>> /\ bundle = NothingBundled => BundlerInv)'
    BY NewBundle, PTL
  <2> QED
    BY <2>1, <2>2
<1>3. CASE Edit
  BY <1>3, EditKeeps
<1>4. CASE UNCHANGED <<program, queue, importTypes, bundle>>
  BY <1>4 DEF BundlerInv, QueueImported, TypesRemembered, FilesTyped, Importers,
              Processed
<1> QED
  BY <1>1, <1>2, <1>3, <1>4
     DEF Next, vars, bundlerVars, StartEngine, RunEngine, RefuseSpecification,
         NewDocument, RunPage, PageThrows, StateChanged, ExtractorsFail

(* A file that all its importers want under a type is of that type, in the    *)
(* bundle of the verifier and in that of the page: TypedImportsGetTheirType   *)
(* is an invariant of every specification.                                    *)
THEOREM TypedImportsAreHonoured == Spec => []TypedImportsGetTheirType
<1>1. SpecificationInit => BundlerInv
  BY NewBundle DEF SpecificationInit, Init
<1>2. BundlerInv => TypedImportsGetTheirType
  <2> SUFFICES ASSUME BundlerInv, NEW file \in Processed \cap Files,
                      \A s \in Importers(file) : s.type # NoType,
                      NEW s \in Importers(file)
               PROVE  bundle[file] = FileModule(s.type)
    BY DEF TypedImportsGetTheirType
  <2>1. \A r \in Importers(file) : r.type = importTypes[file]
    <3> SUFFICES ASSUME NEW r \in Importers(file)
                 PROVE  r.type = importTypes[file]
      OBVIOUS
    <3>1. PICK m \in Processed \cap Code :
             r \in Links(program[m]) /\ r.from = file
      BY DEF Importers
    <3> QED
      BY <3>1 DEF BundlerInv, TypesRemembered
  <2>2. PICK r \in Importers(file) :
           r.type = NoType \/ bundle[file] = FileModule(r.type)
    BY DEF BundlerInv, FilesTyped
  <2> QED
    BY <2>1, <2>2
<1> QED
  BY <1>1, <1>2, BundlerNextKeeps, PTL DEF Spec

-----------------------------------------------------------------------------
(* Runs                                                                       *)

(* Every set of naturals that has an element has a least one.                 *)
LEMMA LeastNumber ==
    ASSUME NEW T \in SUBSET Nat, T # {}
    PROVE  \E least \in T : \A n \in T : least <= n
<1>1. \E x \in T : \A y \in T : ~ (<<y, x>> \in OpToRel(<, Nat))
  BY NatLessThanWellFounded, WFMin
<1>2. PICK x \in T : \A y \in T : ~ (<<y, x>> \in OpToRel(<, Nat))
  BY <1>1
<1>3. ASSUME NEW y \in T PROVE x <= y
  <2>1. x \in Nat /\ y \in Nat
    OBVIOUS
  <2>2. ~(y < x)
    BY <1>2, <2>1 DEF OpToRel
  <2> QED
    BY <2>1, <2>2
<1> QED
  BY <1>3

(* Two runs that begin alike and whose steps depend on where they are only    *)
(* are the same, as far as both go.                                           *)
LEMMA RunsAgree ==
    ASSUME NEW n \in Nat, NEW f, NEW g, f[0] = g[0],
           \A i \in Nat : i < n /\ f[i] = g[i] => f[i + 1] = g[i + 1]
    PROVE  \A i \in 0..n : f[i] = g[i]
<1> DEFINE T == {i \in 0..n : f[i] # g[i]}
<1> SUFFICES ASSUME T # {} PROVE FALSE
  OBVIOUS
<1>0. T \in SUBSET Nat
  OBVIOUS
<1> HIDE DEF T
<1>1. PICK least \in T : \A i \in T : least <= i
  BY <1>0, LeastNumber
<1> USE DEF T
<1>2. least # 0 /\ least \in 0..n
  BY <1>1
<1>3. least - 1 \in 0..n /\ ~(least <= least - 1)
  BY <1>2
<1>4. f[least - 1] = g[least - 1]
  BY <1>1, <1>3
<1>5. f[(least - 1) + 1] = g[(least - 1) + 1]
  BY <1>2, <1>3, <1>4
<1>6. (least - 1) + 1 = least
  BY <1>2
<1> QED
  BY <1>1, <1>5, <1>6

(* What begins a run and is kept by its steps holds all along; the set of     *)
(* places where it does stands for it.                                        *)
LEMMA HoldsAlong ==
    ASSUME NEW k \in Nat, NEW n \in Nat, k <= n, NEW H, k \in H,
           \A i \in Nat : k <= i /\ i < n /\ i \in H => i + 1 \in H
    PROVE  n \in H
<1> DEFINE T == {i \in k..n : i \notin H}
<1> SUFFICES ASSUME n \notin H PROVE FALSE
  OBVIOUS
<1>1. n \in T /\ T \in SUBSET Nat
  OBVIOUS
<1>2. PICK least \in T : \A i \in T : least <= i
  BY <1>1, LeastNumber
<1>3. least # k /\ least \in k..n
  BY <1>2
<1>4. least - 1 \in k..n /\ ~(least <= least - 1)
  BY <1>3
<1>5. least - 1 \in H
  BY <1>2, <1>4
<1>6. (least - 1) + 1 \in H
  BY <1>3, <1>4, <1>5
<1>7. (least - 1) + 1 = least
  BY <1>3
<1> QED
  BY <1>2, <1>6, <1>7

-----------------------------------------------------------------------------
(* The bundling of a program as a run: it never stops but at the end of its   *)
(* queue, and everything else depends on the program and on where it is.      *)
Bundling1(q, t, b) == [queue |-> q, types |-> t, bundle |-> b]
Now == Bundling1(queue, importTypes, bundle)
Start == Bundling1(<<Entry>>, NothingBundled, NothingBundled)

With(b, key, code) ==
    [k \in DOMAIN b \cup {key} |-> IF k = key THEN code ELSE b[k]]

AfterCode(c, key, statements) ==
    LET types == TypesNamed(statements)
    IN  Bundling1(
            Tail(c.queue)
              \o Sorted({s.from : s \in Links(statements)} \ DOMAIN c.bundle),
            [k \in DOMAIN c.types \cup {t[1] : t \in types} |->
                IF k \in DOMAIN c.types THEN c.types[k]
                ELSE (CHOOSE t \in types : t[1] = k)[2]],
            With(c.bundle, key, CodeModule(statements)))

TypeOf(t, key) ==
    IF key \in DOMAIN t THEN t[key]
    ELSE IF Extension(key) = "json" THEN "json" ELSE "binary"

After(p, c) ==
    LET key == Head(c.queue)
    IN  IF key \in DOMAIN c.bundle
        THEN Bundling1(Tail(c.queue), c.types, c.bundle)
        ELSE IF key \in Code THEN AfterCode(c, key, p[key])
        ELSE Bundling1(Tail(c.queue), c.types,
                       With(c.bundle, key,
                            IF key \in Stubs THEN StubModule
                            ELSE FileModule(TypeOf(c.types, key))))

BundlingRun(p, n, f) ==
    /\ f[0] = Start
    /\ \A i \in Nat : i < n => f[i].queue # <<>> /\ f[i + 1] = After(p, f[i])

Bundles(p, c) == \E n \in Nat : \E f : BundlingRun(p, n, f) /\ f[n] = c
BundleOf(p, b) == \E c : Bundles(p, c) /\ c.queue = <<>> /\ c.bundle = b

(* An action that does not end the bundling is its next step.                 *)
LEMMA NextIsAfter ==
    ASSUME SkipProcessed \/ BundleStub \/ BundleFile \/ BundleCode
    PROVE  Now.queue # <<>> /\ Now' = After(program, Now)
<1>1. /\ Now.queue = queue /\ Now.types = importTypes /\ Now.bundle = bundle
      /\ Now' = Bundling1(queue', importTypes', bundle')
  BY DEF Now, Bundling1
<1>2. queue # <<>>
  BY DEF SkipProcessed, BundleStub, BundleFile, BundleCode, Taking
<1>0. After(program, Now) =
         IF Next1 \in Processed
         THEN Bundling1(Tail(queue), importTypes, bundle)
         ELSE IF Next1 \in Code THEN AfterCode(Now, Next1, program[Next1])
         ELSE Bundling1(Tail(queue), importTypes,
                        With(bundle, Next1,
                             IF Next1 \in Stubs THEN StubModule
                             ELSE FileModule(TypeOf(importTypes, Next1))))
  BY <1>1 DEF After, Next1, Processed
<1>3. CASE SkipProcessed
  BY <1>1, <1>2, <1>0, <1>3 DEF SkipProcessed
<1>4. CASE BundleStub
  BY <1>1, <1>2, <1>0, <1>4, BundlerAssumption
     DEF BundleStub, Processed, Bundled, With
<1>5. CASE BundleFile
  BY <1>1, <1>2, <1>0, <1>5, BundlerAssumption
     DEF BundleFile, Processed, Bundled, With, FileType, TypeOf
<1>6. CASE BundleCode
  <2>1. Next1 \in Code /\ Next1 \notin Processed
    BY <1>6 DEF BundleCode
  <2>2. Now' = AfterCode(Now, Next1, program[Next1])
    BY <1>1, <1>6
       DEF BundleCode, AfterCode, Processed, Bundled, With, ToBundle
  <2> QED
    BY <1>1, <1>2, <1>0, <2>1, <2>2
<1> QED
  BY <1>1, <1>2, <1>3, <1>4, <1>5, <1>6

(* The beginning is a run, and a run with a step more is one.                 *)
LEMMA RunBegins == ASSUME NEW p PROVE Bundles(p, Start)
<1> DEFINE f == [i \in {0} |-> Start]
<1>1. BundlingRun(p, 0, f) /\ f[0] = Start
  BY DEF BundlingRun
<1> QED
  BY <1>1 DEF Bundles

(* A run that has not ended goes on with the next step.                       *)
LEMMA RunGoesOn ==
    ASSUME NEW p, NEW c, Bundles(p, c), c.queue # <<>>
    PROVE  Bundles(p, After(p, c))
<1>1. PICK n, f : n \in Nat /\ BundlingRun(p, n, f) /\ f[n] = c
  BY DEF Bundles
<1> DEFINE g == [i \in 0..(n + 1) |-> IF i <= n THEN f[i] ELSE After(p, c)]
<1>2. g[0] = f[0] /\ g[n + 1] = After(p, c) /\ n + 1 \in Nat
  BY <1>1
<1>3. ASSUME NEW i \in Nat, i < n + 1
      PROVE  g[i].queue # <<>> /\ g[i + 1] = After(p, g[i])
  <2>1. g[i] = f[i]
    BY <1>1, <1>3
  <2>2. CASE i < n
    <3>1. g[i + 1] = f[i + 1]
      BY <1>1, <2>2
    <3> QED
      BY <1>1, <2>1, <2>2, <3>1 DEF BundlingRun
  <2>3. CASE i = n
    BY <1>1, <1>2, <2>1, <2>3
  <2> QED
    BY <1>1, <1>3, <2>2, <2>3
<1>4. BundlingRun(p, n + 1, g)
  BY <1>1, <1>2, <1>3 DEF BundlingRun
<1> QED
  BY <1>2, <1>4 DEF Bundles

(* A program has one bundle.                                                  *)
LEMMA OneBundle ==
    ASSUME NEW p, NEW a, NEW b, BundleOf(p, a), BundleOf(p, b) PROVE a = b
<1>1. PICK m, f : /\ m \in Nat /\ BundlingRun(p, m, f)
                  /\ f[m].queue = <<>> /\ f[m].bundle = a
  BY DEF BundleOf, Bundles
<1>2. PICK n, g : /\ n \in Nat /\ BundlingRun(p, n, g)
                  /\ g[n].queue = <<>> /\ g[n].bundle = b
  BY DEF BundleOf, Bundles
<1>3. CASE m <= n
  <2>0. /\ f[0] = g[0]
        /\ \A i \in Nat : i < m /\ f[i] = g[i] => f[i + 1] = g[i + 1]
    BY <1>1, <1>2, <1>3 DEF BundlingRun
  <2>1. \A i \in 0..m : f[i] = g[i]
    BY <1>1, <2>0, RunsAgree
  <2>2. f[m] = g[m]
    BY <1>1, <2>1
  <2>3. ~(m < n)
    BY <1>1, <1>2, <2>2 DEF BundlingRun
  <2> QED
    BY <1>1, <1>2, <1>3, <2>2, <2>3
<1>4. CASE n <= m
  <2>0. /\ g[0] = f[0]
        /\ \A i \in Nat : i < n /\ g[i] = f[i] => g[i + 1] = f[i + 1]
    BY <1>1, <1>2, <1>4 DEF BundlingRun
  <2>1. \A i \in 0..n : g[i] = f[i]
    BY <1>2, <2>0, RunsAgree
  <2>2. f[n] = g[n]
    BY <1>2, <2>1
  <2>3. ~(n < m)
    BY <1>1, <1>2, <2>2 DEF BundlingRun
  <2> QED
    BY <1>1, <1>2, <1>4, <2>2, <2>3
<1> QED
  BY <1>1, <1>2, <1>3, <1>4

-----------------------------------------------------------------------------
(* The run of a bundle in an engine, which is as deterministic                *)
EngineRun(script, n, f) ==
    /\ f[0] = Begun(script)
    /\ \A i \in Nat : i < n => ~Ended(f[i]) /\ f[i + 1] = Step1(script, f[i])

Runs(script, e) == \E n \in Nat : \E f : EngineRun(script, n, f) /\ f[n] = e

(* As before: its beginning, and one step more                                *)
LEMMA EngineBegins == ASSUME NEW script PROVE Runs(script, Begun(script))
<1> DEFINE f == [i \in {0} |-> Begun(script)]
<1>1. EngineRun(script, 0, f) /\ f[0] = Begun(script)
  BY DEF EngineRun
<1> QED
  BY <1>1 DEF Runs

(* A run of an engine that has not ended goes on with the next statement.     *)
LEMMA EngineGoesOn ==
    ASSUME NEW script, NEW e, Runs(script, e), ~Ended(e)
    PROVE  Runs(script, Step1(script, e))
<1>1. PICK n, f : n \in Nat /\ EngineRun(script, n, f) /\ f[n] = e
  BY DEF Runs
<1> DEFINE g == [i \in 0..(n + 1) |-> IF i <= n THEN f[i] ELSE Step1(script, e)]
<1>2. g[0] = f[0] /\ g[n + 1] = Step1(script, e) /\ n + 1 \in Nat
  BY <1>1
<1>3. ASSUME NEW i \in Nat, i < n + 1
      PROVE  ~Ended(g[i]) /\ g[i + 1] = Step1(script, g[i])
  <2>1. g[i] = f[i]
    BY <1>1, <1>3
  <2>2. CASE i < n
    <3>1. g[i + 1] = f[i + 1]
      BY <1>1, <2>2
    <3> QED
      BY <1>1, <2>1, <2>2, <3>1 DEF EngineRun
  <2>3. CASE i = n
    BY <1>1, <1>2, <2>1, <2>3
  <2> QED
    BY <1>1, <1>3, <2>2, <2>3
<1>4. EngineRun(script, n + 1, g)
  BY <1>1, <1>2, <1>3 DEF EngineRun
<1> QED
  BY <1>2, <1>4 DEF Runs

(* An engine is a record of these, with a list of extractors.                 *)
IsList(s) == \E S : s \in Seq(S)
IsEngine(e) ==
    /\ DOMAIN e = {"stack", "cache", "locals", "extractors", "threw"}
    /\ IsList(e.extractors)

(* Extractors are only added.                                                 *)
Extends(new, old) ==
    /\ Len(old) <= Len(new)
    /\ \A i \in 1..Len(old) : new[i] = old[i]

(* A list with one element more extends it.                                   *)
LEMMA Appended ==
    ASSUME NEW s, IsList(s), NEW x
    PROVE  IsList(Append(s, x)) /\ Extends(Append(s, x), s)
<1>1. PICK S : s \in Seq(S)
  BY DEF IsList
<1> DEFINE T == S \cup {x}
<1>2. s \in Seq(T) /\ x \in T
  BY <1>1
<1>3. /\ Append(s, x) \in Seq(T) /\ Len(Append(s, x)) = Len(s) + 1
      /\ \A i \in 1..Len(s) : Append(s, x)[i] = s[i]
  BY <1>2, AppendProperties
<1>4. Len(s) \in Nat
  BY <1>1, LenProperties
<1> QED
  BY <1>3, <1>4 DEF IsList, Extends

(* Lists extend themselves ...                                                *)
LEMMA ExtendsItself == ASSUME NEW s, IsList(s) PROVE Extends(s, s)
BY LenProperties DEF IsList, Extends

(* ... and what their extensions extend.                                      *)
LEMMA ExtendsThrough ==
    ASSUME NEW a, NEW b, NEW c, IsList(a), IsList(b), IsList(c),
           Extends(b, a), Extends(c, b)
    PROVE  Extends(c, a)
<1>1. Len(a) \in Nat /\ Len(b) \in Nat /\ Len(c) \in Nat
  BY LenProperties DEF IsList
<1>2. \A i \in 1..Len(a) : i \in 1..Len(b)
  BY <1>1 DEF Extends
<1> QED
  BY <1>1, <1>2 DEF Extends

(* To require a module makes no extractor ...                                 *)
LEMMA RequireKeeps ==
    ASSUME NEW script, NEW e, IsEngine(e), NEW path
    PROVE  /\ IsEngine(RequirePath(script, e, path))
           /\ RequirePath(script, e, path).extractors = e.extractors
BY DEF RequirePath, IsEngine

(* ... and so an engine that begins has none.                                 *)
LEMMA BegunIsEngine == ASSUME NEW script PROVE IsEngine(Begun(script))
<1>1. IsEngine(NothingRun)
  <2>1. <<>> \in Seq({})
    OBVIOUS
  <2> QED
    BY <2>1 DEF NothingRun, IsEngine, IsList
<1>2. CASE Parses(script)
  BY <1>1, <1>2, RequireKeeps DEF Begun
<1>3. CASE ~Parses(script)
  BY <1>1, <1>3 DEF Begun, IsEngine
<1> QED
  BY <1>2, <1>3

(* A statement makes one at most, ...                                         *)
LEMMA EffectKeeps ==
    ASSUME NEW e, IsEngine(e), NEW i
    PROVE  /\ IsEngine(Effect(e, i))
           /\ Extends(Effect(e, i).extractors, e.extractors)
<1>1. CASE i.do = "make"
  <2>1. /\ DOMAIN Effect(e, i) = DOMAIN e
        /\ Effect(e, i).extractors = Registered(e.extractors, Top(e).path, i)
    BY <1>1 DEF Effect, IsEngine
  <2> DEFINE new == Extractor(Top(e).path, i.name, i.label)
  <2>2. \/ Effect(e, i).extractors = e.extractors
        \/ Effect(e, i).extractors = Append(e.extractors, new)
    BY <2>1 DEF Registered
  <2> QED
    BY <2>1, <2>2, Appended, ExtendsItself DEF IsEngine
<1>2. CASE i.do # "make"
  <2>1. /\ DOMAIN Effect(e, i) = DOMAIN e
        /\ Effect(e, i).extractors = e.extractors
    BY <1>2 DEF Effect, IsEngine
  <2> QED
    BY <2>1, ExtendsItself DEF IsEngine
<1> QED
  BY <1>1, <1>2

(* ... and a step takes none away.                                            *)
LEMMA StepKeeps ==
    ASSUME NEW script, NEW e, IsEngine(e)
    PROVE  /\ IsEngine(Step1(script, e))
           /\ Extends(Step1(script, e).extractors, e.extractors)
<1> DEFINE top == Top(e)
           code == script[top.path]
           i == code[top.pc]
           step == Step1(script, e)
<1>1. CASE top.pc > Len(code)
  <2>1. step = Return(e)
    BY <1>1 DEF Step1
  <2>2. DOMAIN Return(e) = DOMAIN e /\ Return(e).extractors = e.extractors
    BY DEF Return, IsEngine
  <2> QED
    BY <2>1, <2>2, ExtendsItself DEF IsEngine
<1>2. CASE /\ ~(top.pc > Len(code))
           /\ i.do \in {"require", "assign"} /\ i.path \notin DOMAIN e.cache
  <2>1. step = RequirePath(script, e, i.path)
    BY <1>2 DEF Step1
  <2> QED
    BY <2>1, RequireKeeps, ExtendsItself DEF IsEngine
<1>3. CASE /\ ~(top.pc > Len(code))
           /\ ~(i.do \in {"require", "assign"} /\ i.path \notin DOMAIN e.cache)
  <2> DEFINE made == Effect(e, i)
  <2>1. step = [made EXCEPT !.stack[Len(e.stack)].pc = @ + 1]
    BY <1>3 DEF Step1
  <2>2. IsEngine(made) /\ Extends(made.extractors, e.extractors)
    BY EffectKeeps
  <2> HIDE DEF made
  <2>3. DOMAIN step = DOMAIN made /\ step.extractors = made.extractors
    BY <2>1, <2>2 DEF IsEngine
  <2> QED
    BY <2>2, <2>3 DEF IsEngine
<1> QED
  BY <1>1, <1>2, <1>3

(* All along a run                                                            *)
LEMMA RunIsOfEngines ==
    ASSUME NEW script, NEW n \in Nat, NEW f, EngineRun(script, n, f),
           NEW k \in Nat, k <= n
    PROVE  /\ IsEngine(f[k])
           /\ Extends(f[n].extractors, f[k].extractors)
<1>1. ASSUME NEW j \in Nat, j <= n PROVE IsEngine(f[j])
  <2> DEFINE H == {i \in Nat : IsEngine(f[i])}
  <2>1. 0 \in H
    BY BegunIsEngine DEF EngineRun
  <2>2. \A i \in Nat : 0 <= i /\ i < j /\ i \in H => i + 1 \in H
    BY <1>1, StepKeeps DEF EngineRun
  <2> HIDE DEF H
  <2>3. j \in H
    BY <2>1, <2>2, HoldsAlong
  <2> QED
    BY <2>3 DEF H
<1>2. Extends(f[n].extractors, f[k].extractors)
  <2> DEFINE H == {i \in Nat : Extends(f[i].extractors, f[k].extractors)}
  <2>1. k \in H
    BY <1>1, ExtendsItself DEF IsEngine
  <2>2. ASSUME NEW i \in Nat, k <= i, i < n, i \in H PROVE i + 1 \in H
    <3>1. IsEngine(f[k]) /\ IsEngine(f[i]) /\ IsEngine(f[i + 1])
      BY <1>1, <2>2
    <3>2. Extends(f[i + 1].extractors, f[i].extractors)
      BY <2>2, <3>1, StepKeeps DEF EngineRun
    <3> QED
      BY <2>2, <3>1, <3>2, ExtendsThrough DEF IsEngine
  <2> HIDE DEF H
  <2>3. n \in H
    BY <2>1, <2>2, HoldsAlong
  <2> QED
    BY <2>3 DEF H
<1> QED
  BY <1>1, <1>2

(* Of two runs of a script in which one has ended, the other is no further,   *)
(* has made some of the same extractors, and all when it has ended too.       *)
LEMMA OneEnd ==
    ASSUME NEW script, NEW e, NEW d, Runs(script, e), Ended(e), Runs(script, d)
    PROVE  /\ IsEngine(e) /\ IsEngine(d)
           /\ Extends(e.extractors, d.extractors)
           /\ Ended(d) => d = e
<1>1. PICK n, f : n \in Nat /\ EngineRun(script, n, f) /\ f[n] = e
  BY DEF Runs
<1>2. PICK k, g : k \in Nat /\ EngineRun(script, k, g) /\ g[k] = d
  BY DEF Runs
<1>3. k <= n
  <2> SUFFICES ASSUME n < k PROVE FALSE
    BY <1>1, <1>2
  <2>1. \A i \in 0..n : f[i] = g[i]
    BY <1>1, <1>2, RunsAgree DEF EngineRun
  <2> QED
    BY <1>1, <1>2, <2>1 DEF EngineRun
<1>4. \A i \in 0..k : g[i] = f[i]
  BY <1>1, <1>2, <1>3, RunsAgree DEF EngineRun
<1>5. f[k] = d
  BY <1>2, <1>4
<1>6. k < n => ~Ended(f[k])
  BY <1>1, <1>2 DEF EngineRun
<1>7. Ended(d) => k = n
  BY <1>1, <1>2, <1>3, <1>5, <1>6
<1>8. /\ IsEngine(f[n]) /\ IsEngine(f[k])
      /\ Extends(f[n].extractors, f[k].extractors)
  BY <1>1, <1>2, <1>3, RunIsOfEngines
<1> QED
  BY <1>1, <1>5, <1>7, <1>8

-----------------------------------------------------------------------------
(* The two bundles, the two engines and the cells                             *)

(* Before it is edited, the program has the bundle that is being made, or was.*)
BundlesMade ==
    /\ phase \in BundlingPhases => Bundles(program, Now)
    /\ phase \in {"loading", "ready"} => BundleOf(program, bundle)

(* The verifier runs what was bundled first, ...                              *)
EngineLoading ==
    phase = "loading" /\ engine # NothingRun => Runs(bundle, engine)

(* ... and its run is over when the bundle is made once more.                 *)
EngineDone ==
    phase \in {"bundlingForPage", "ready"} =>
        /\ Ended(engine)
        /\ \E script : BundleOf(program, script) /\ Runs(script, engine)

(* A document runs the second bundle, and may throw on its way.               *)
PageRuns ==
    phase = "ready" /\ documents > 0 =>
        \E e : /\ Runs(bundle, e)
               /\ page \in {e, [e EXCEPT !.threw = TRUE]}

(* A cell is of the verifier's extractor at its position, and its value is of *)
(* the same one.                                                              *)
CellsOfExtractors ==
    phase \in {"bundlingForPage", "ready"} =>
        /\ DOMAIN cells = DOMAIN engine.extractors
        /\ \A i \in DOMAIN cells :
              /\ cells[i].extractor = engine.extractors[i]
              /\ \/ cells[i].value = Unset
                 \/ cells[i].value.of = cells[i].extractor

(* Nothing runs before it is bundled.                                         *)
NothingYet ==
    /\ phase = "bundling" => engine = NothingRun
    /\ phase \in BundlingPhases \cup {"loading"} => documents = 0

RunsInv ==
    ~edited => /\ BundlesMade /\ EngineLoading /\ EngineDone /\ PageRuns
               /\ CellsOfExtractors /\ NothingYet

(* What a document has made when it has ended: the verifier's extractors, or, *)
(* if it threw, some of them from the first on.                               *)
LEMMA PageAgrees ==
    ASSUME RunsInv, ~edited, phase = "ready", documents > 0, Ended(page)
    PROVE  /\ IsEngine(engine) /\ IsList(page.extractors)
           /\ Extends(engine.extractors, page.extractors)
           /\ page.threw \/ page.extractors = engine.extractors
<1>1. PICK script : BundleOf(program, script) /\ Runs(script, engine)
  BY DEF RunsInv, EngineDone
<1>2. script = bundle /\ Ended(engine)
  BY <1>1, OneBundle DEF RunsInv, BundlesMade, EngineDone
<1>3. PICK e : Runs(bundle, e) /\ page \in {e, [e EXCEPT !.threw = TRUE]}
  BY DEF RunsInv, PageRuns
<1>4. /\ IsEngine(engine) /\ IsEngine(e)
      /\ Extends(engine.extractors, e.extractors)
      /\ Ended(e) => e = engine
  BY <1>1, <1>2, <1>3, OneEnd
<1>5. page.extractors = e.extractors /\ (page = e \/ page.threw)
  BY <1>3, <1>4 DEF IsEngine
<1> QED
  BY <1>4, <1>5 DEF IsEngine

(* What a state gives to the cells is of their own extractors, and all of it  *)
(* is new unless the document threw.                                          *)
LEMMA ValuesAgree ==
    ASSUME RunsInv, ~edited, StateChanged
    PROVE  /\ DOMAIN cells' = DOMAIN cells
           /\ \A i \in DOMAIN cells :
                 /\ cells'[i].extractor = cells[i].extractor
                 /\ \/ cells'[i].value = cells[i].value /\ page.threw
                    \/ /\ cells'[i].value.of = cells[i].extractor
                       /\ cells'[i].value.time = states'
                       /\ i \in DOMAIN snapshots'
                       /\ snapshots'[i].value = cells'[i].value
<1>1. /\ phase = "ready" /\ documents > 0 /\ Ended(page)
      /\ snapshots' = RunExtractors /\ cells' = Updated(cells, RunExtractors)
      /\ states' = states + 1
  BY DEF StateChanged
<1>2. /\ IsEngine(engine) /\ IsList(page.extractors)
      /\ Extends(engine.extractors, page.extractors)
      /\ page.threw \/ page.extractors = engine.extractors
  BY <1>1, PageAgrees
<1>3. /\ DOMAIN cells = DOMAIN engine.extractors
      /\ \A i \in DOMAIN cells : cells[i].extractor = engine.extractors[i]
  BY <1>1 DEF RunsInv, CellsOfExtractors
<1>4. DOMAIN page.extractors = 1..Len(page.extractors)
  BY <1>2, LenProperties DEF IsList
<1>5. /\ DOMAIN RunExtractors = DOMAIN page.extractors
      /\ \A i \in DOMAIN page.extractors :
            RunExtractors[i].value =
                [of |-> page.extractors[i], time |-> states + 1]
  BY DEF RunExtractors
<1>6. DOMAIN cells' = DOMAIN cells
  BY <1>1 DEF Updated
<1>7. ASSUME NEW i \in DOMAIN cells, i \in DOMAIN page.extractors
      PROVE  /\ cells'[i].extractor = cells[i].extractor
             /\ cells'[i].value.of = cells[i].extractor
             /\ cells'[i].value.time = states'
             /\ i \in DOMAIN snapshots'
             /\ snapshots'[i].value = cells'[i].value
  <2>1. cells'[i] = [cells[i] EXCEPT !.value = RunExtractors[i].value]
    BY <1>1, <1>5, <1>7 DEF Updated
  <2>2. /\ cells'[i].extractor = cells[i].extractor
        /\ cells'[i].value = RunExtractors[i].value
    BY <2>1
  <2>3. page.extractors[i] = engine.extractors[i]
    BY <1>2, <1>4, <1>7 DEF Extends
  <2>4. cells'[i].value = [of |-> cells[i].extractor, time |-> states']
    BY <1>1, <1>3, <1>5, <1>7, <2>2, <2>3
  <2>5. /\ cells'[i].value.of = cells[i].extractor
        /\ cells'[i].value.time = states'
    BY <2>4
  <2>6. i \in DOMAIN snapshots' /\ snapshots'[i].value = cells'[i].value
    BY <1>1, <1>5, <1>7, <2>2
  <2> QED
    BY <2>2, <2>5, <2>6
<1>8. ASSUME NEW i \in DOMAIN cells, i \notin DOMAIN page.extractors
      PROVE  cells'[i] = cells[i] /\ page.threw
  BY <1>1, <1>2, <1>3, <1>5, <1>8 DEF Updated
<1> QED
  BY <1>6, <1>7, <1>8

(* In the beginning nothing is bundled and nothing runs.                      *)
LEMMA RunsInit == SpecificationInit => RunsInv
<1> SUFFICES ASSUME SpecificationInit PROVE RunsInv
  OBVIOUS
<1>1. phase = "bundling" /\ Now = Start
  BY DEF SpecificationInit, Init, Now, Start
<1>2. Bundles(program, Now)
  BY <1>1, RunBegins
<1> QED
  BY <1>1, <1>2 DEF RunsInv, BundlesMade, EngineLoading, EngineDone, PageRuns,
                    CellsOfExtractors, NothingYet, SpecificationInit

(* A step of the bundling                                                     *)
LEMMA BundlingRuns == ASSUME RunsInv, Bundling PROVE RunsInv'
<1> SUFFICES ASSUME ~edited PROVE RunsInv'
  BY DEF RunsInv, Bundling
<1>1. UNCHANGED <<program, engine, cells, page, documents>>
  BY DEF Bundling, BundlerNext, SkipProcessed, BundleStub, BundleFile,
         BundleFileFails, BundleCode, BundleCodeFails, Emit, Fail, pageVars,
         stepVars
<1>2. CASE SkipProcessed \/ BundleStub \/ BundleFile \/ BundleCode
  <2>1. phase' = phase /\ phase \in BundlingPhases
    BY <1>2 DEF SkipProcessed, BundleStub, BundleFile, BundleCode, Taking
  <2>2. PICK now : now = Now
    OBVIOUS
  <2>3. now.queue # <<>> /\ Now' = After(program, now)
    BY <1>2, <2>2, NextIsAfter
  <2>4. Bundles(program, After(program, now))
    BY <2>1, <2>2, <2>3, RunGoesOn DEF RunsInv, BundlesMade
  <2>5. BundlesMade'
    BY <1>1, <2>1, <2>3, <2>4 DEF BundlesMade, BundlingPhases
  <2>6. EngineLoading' /\ PageRuns'
    BY <2>1 DEF EngineLoading, PageRuns, BundlingPhases
  <2>7. EngineDone' /\ CellsOfExtractors' /\ NothingYet'
    BY <1>1, <2>1 DEF RunsInv, EngineDone, CellsOfExtractors, NothingYet
  <2> QED
    BY <2>5, <2>6, <2>7 DEF RunsInv
<1>3. CASE Emit
  <2>1. /\ phase \in BundlingPhases /\ queue = <<>>
        /\ phase' = IF phase = "bundling" THEN "loading" ELSE "ready"
        /\ UNCHANGED <<queue, importTypes, bundle>>
    BY <1>3 DEF Emit
  <2>2. BundleOf(program, bundle)
    <3>1. Now.queue = <<>> /\ Now.bundle = bundle
      BY <2>1 DEF Now, Bundling1
    <3> QED
      BY <2>1, <3>1 DEF RunsInv, BundlesMade, BundleOf
  <2>3. BundlesMade'
    BY <1>1, <2>1, <2>2 DEF BundlesMade, BundlingPhases
  <2>4. EngineLoading' /\ PageRuns' /\ NothingYet'
    <3>1. NothingYet /\ phase \in {"bundling", "bundlingForPage"}
      BY <2>1 DEF RunsInv, BundlingPhases
    <3>2. documents = 0 /\ (phase = "bundling" => engine = NothingRun)
      BY <3>1 DEF NothingYet, BundlingPhases
    <3>3. phase' = "loading" <=> phase = "bundling"
      BY <2>1
    <3>4. phase' \in {"loading", "ready"} /\ ~(documents' > 0)
      BY <1>1, <2>1, <3>2
    <3> QED
      BY <1>1, <3>2, <3>3, <3>4
         DEF EngineLoading, PageRuns, NothingYet, BundlingPhases
  <2>5. EngineDone' /\ CellsOfExtractors'
    BY <1>1, <2>1 DEF RunsInv, EngineDone, CellsOfExtractors, BundlingPhases
  <2> QED
    BY <2>3, <2>4, <2>5 DEF RunsInv
<1>4. CASE BundleFileFails \/ BundleCodeFails
  BY <1>4 DEF BundleFileFails, BundleCodeFails, Fail, RunsInv, BundlesMade,
     EngineLoading, EngineDone, PageRuns, CellsOfExtractors, NothingYet,
     BundlingPhases
<1> QED
  BY <1>2, <1>3, <1>4 DEF Bundling, BundlerNext
(* Verifier::new begins to run what was bundled, ...                          *)
LEMMA EngineStarts == ASSUME RunsInv, StartEngine PROVE RunsInv'
<1> SUFFICES ASSUME ~edited PROVE RunsInv'
  BY DEF RunsInv, StartEngine
<1>1. /\ phase = "loading" /\ phase' = "loading" /\ engine' = Begun(bundle)
      /\ UNCHANGED <<program, bundle, documents>>
  BY DEF StartEngine, bundlerVars, pageVars
<1>2. Runs(bundle, Begun(bundle))
  BY EngineBegins
<1>3. EngineLoading'
  BY <1>1, <1>2 DEF EngineLoading
<1>4. BundlesMade' /\ EngineDone' /\ PageRuns' /\ CellsOfExtractors'
  BY <1>1 DEF RunsInv, BundlesMade, EngineDone, PageRuns, CellsOfExtractors,
              BundlingPhases
<1>5. NothingYet'
  BY <1>1 DEF RunsInv, NothingYet
<1> QED
  BY <1>3, <1>4, <1>5 DEF RunsInv

(* ... and runs it statement by statement.                                    *)
LEMMA EngineRunsOn == ASSUME RunsInv, RunEngine PROVE RunsInv'
<1> SUFFICES ASSUME ~edited PROVE RunsInv'
  BY DEF RunsInv, RunEngine
<1>1. /\ phase = "loading" /\ phase' = "loading"
      /\ engine # NothingRun /\ ~Ended(engine)
      /\ engine' = Step1(bundle, engine)
      /\ UNCHANGED <<program, bundle, documents>>
  BY DEF RunEngine, bundlerVars, pageVars
<1>2. Runs(bundle, engine)
  BY <1>1 DEF RunsInv, EngineLoading
<1>3. Runs(bundle, Step1(bundle, engine))
  BY <1>1, <1>2, EngineGoesOn
<1>4. EngineLoading'
  BY <1>1, <1>3 DEF EngineLoading
<1>5. BundlesMade' /\ EngineDone' /\ PageRuns' /\ CellsOfExtractors'
  BY <1>1 DEF RunsInv, BundlesMade, EngineDone, PageRuns, CellsOfExtractors,
              BundlingPhases
<1>6. NothingYet'
  BY <1>1 DEF RunsInv, NothingYet
<1> QED
  BY <1>4, <1>5, <1>6 DEF RunsInv

(* The engine has run the first bundle; the second begins.                    *)
LEMMA SpecificationAccepted ==
    ASSUME RunsInv, AcceptSpecification PROVE RunsInv'
<1> SUFFICES ASSUME ~edited PROVE RunsInv'
  BY DEF RunsInv, AcceptSpecification
<1>1. /\ phase = "loading" /\ engine # NothingRun /\ Ended(engine)
      /\ phase' = "bundlingForPage"
      /\ queue' = <<Entry>> /\ importTypes' = NothingBundled
      /\ bundle' = NothingBundled
      /\ cells' = Register(engine.extractors)
      /\ UNCHANGED <<program, engine, documents>>
  BY DEF AcceptSpecification, Loaded, BundleAgain, pageVars
<1>2. Now' = Start
  BY <1>1 DEF Now, Start
<1>3. Bundles(program, Start)
  BY RunBegins
<1>4. BundlesMade'
  BY <1>1, <1>2, <1>3 DEF BundlesMade, BundlingPhases
<1>5. EngineDone'
  BY <1>1 DEF RunsInv, BundlesMade, EngineLoading, EngineDone
<1>6. /\ DOMAIN cells' = DOMAIN engine.extractors
      /\ \A i \in DOMAIN cells' : /\ cells'[i].extractor = engine.extractors[i]
                                 /\ cells'[i].value = Unset
  BY <1>1 DEF Register
<1>7. CellsOfExtractors'
  BY <1>1, <1>6 DEF CellsOfExtractors
<1>8. EngineLoading' /\ PageRuns' /\ NothingYet'
  BY <1>1 DEF RunsInv, EngineLoading, PageRuns, NothingYet, BundlingPhases
<1> QED
  BY <1>4, <1>5, <1>7, <1>8 DEF RunsInv

(* The page's documents                                                       *)
LEMMA PageMoves ==
    ASSUME RunsInv, NewDocument \/ RunPage \/ PageThrows PROVE RunsInv'
<1> SUFFICES ASSUME ~edited PROVE RunsInv'
  BY DEF RunsInv, NewDocument, RunPage, PageThrows
<1>1. /\ phase = "ready" /\ phase' = "ready"
      /\ UNCHANGED <<program, bundle, engine, cells>>
  BY DEF NewDocument, RunPage, PageThrows, bundlerVars, stepVars
<1>2. \E e : Runs(bundle, e) /\ page' \in {e, [e EXCEPT !.threw = TRUE]}
  <2>1. CASE NewDocument
    <3>1. page' = Begun(bundle) /\ Runs(bundle, Begun(bundle))
      BY <2>1, EngineBegins DEF NewDocument
    <3> QED
      BY <3>1
  <2>2. ASSUME RunPage \/ PageThrows
        PROVE  Runs(bundle, page) /\ ~Ended(page)
    <3>1. PICK e : /\ Runs(bundle, e)
                   /\ page \in {e, [e EXCEPT !.threw = TRUE]}
      BY <2>2 DEF RunPage, PageThrows, RunsInv, PageRuns
    <3>2. ~Ended(page)
      BY <2>2 DEF RunPage, PageThrows
    <3>3. IsEngine(e)
      <4>1. PICK n, f : n \in Nat /\ EngineRun(bundle, n, f) /\ f[n] = e
        BY <3>1 DEF Runs
      <4> QED
        BY <4>1, RunIsOfEngines
    <3>4. page # [e EXCEPT !.threw = TRUE]
      BY <3>2, <3>3 DEF Ended, IsEngine
    <3> QED
      BY <3>1, <3>2, <3>4
  <2>3. CASE RunPage
    <3>1. page' = Step1(bundle, page) /\ Runs(bundle, Step1(bundle, page))
      BY <2>2, <2>3, EngineGoesOn DEF RunPage
    <3> QED
      BY <3>1
  <2>4. CASE PageThrows
    BY <2>2, <2>4 DEF PageThrows
  <2> QED
    BY <2>1, <2>3, <2>4
<1>3. PageRuns'
  BY <1>1, <1>2 DEF PageRuns
<1>4. BundlesMade' /\ EngineLoading' /\ NothingYet'
  BY <1>1 DEF RunsInv, BundlesMade, EngineLoading, NothingYet, BundlingPhases
<1>5. EngineDone' /\ CellsOfExtractors'
  BY <1>1 DEF RunsInv, EngineDone, CellsOfExtractors
<1> QED
  BY <1>3, <1>4, <1>5 DEF RunsInv

(* A state of the test                                                        *)
LEMMA StateRuns == ASSUME RunsInv, StateChanged PROVE RunsInv'
<1> SUFFICES ASSUME ~edited PROVE RunsInv'
  BY DEF RunsInv, StateChanged
<1>1. /\ phase = "ready" /\ phase' \in {"ready", "failed"}
      /\ UNCHANGED <<program, bundle, engine, page, documents>>
  BY DEF StateChanged, pageVars
<1>2. /\ DOMAIN cells' = DOMAIN cells
      /\ \A i \in DOMAIN cells :
            /\ cells'[i].extractor = cells[i].extractor
            /\ \/ cells'[i].value = cells[i].value
               \/ cells'[i].value.of = cells[i].extractor
  BY ValuesAgree
<1>3. CellsOfExtractors
  BY DEF RunsInv
<1>4. CellsOfExtractors'
  <2>1. /\ DOMAIN cells' = DOMAIN engine.extractors
        /\ \A i \in DOMAIN cells' :
              /\ cells'[i].extractor = engine.extractors[i]
              /\ \/ cells'[i].value = Unset
                 \/ cells'[i].value.of = cells'[i].extractor
    BY <1>1, <1>2, <1>3 DEF CellsOfExtractors
  <2> QED
    BY <1>1, <2>1 DEF CellsOfExtractors
<1>5. BundlesMade' /\ EngineLoading' /\ NothingYet'
  BY <1>1 DEF RunsInv, BundlesMade, EngineLoading, NothingYet, BundlingPhases
<1>6. EngineDone' /\ PageRuns'
  BY <1>1 DEF RunsInv, EngineDone, PageRuns
<1> QED
  BY <1>4, <1>5, <1>6 DEF RunsInv

(* Every step of the specification keeps it; an edit ends what it promises.   *)
LEMMA RunsNext == RunsInv /\ [Next]_vars => RunsInv'
<1> SUFFICES ASSUME RunsInv, [Next]_vars PROVE RunsInv'
  OBVIOUS
<1>1. CASE RefuseSpecification \/ ExtractorsFail
  BY <1>1 DEF RefuseSpecification, ExtractorsFail, RunsInv, BundlesMade,
     EngineLoading, EngineDone, PageRuns, CellsOfExtractors, NothingYet,
     BundlingPhases
<1>2. CASE Edit
  BY <1>2 DEF Edit, RunsInv
<1>3. CASE UNCHANGED vars
  <2>1. UNCHANGED <<program, queue, importTypes, bundle, phase, edited, engine,
                    cells, page, documents>>
    BY <1>3 DEF vars, bundlerVars, pageVars, stepVars
  <2>2. Now' = Now
    BY <2>1 DEF Now
  <2> QED
    BY <2>1, <2>2 DEF RunsInv, BundlesMade, EngineLoading, EngineDone, PageRuns,
                      CellsOfExtractors, NothingYet
<1> QED
  BY <1>1, <1>2, <1>3, BundlingRuns, EngineStarts, EngineRunsOn,
     SpecificationAccepted, PageMoves, StateRuns DEF Next

(* What a state's thunks read is of the cell's extractor, and of this state   *)
(* and its evidence unless the document threw: SnapshotsReachTheirExtractors  *)
(* holds of every step, however many modules, extractors, documents and       *)
(* states there are.                                                          *)
THEOREM SnapshotsAreOfTheirExtractors == Spec => SnapshotsReachTheirExtractors
<1> DEFINE Reached ==
        ~edited /\ states' # states =>
            \A cell \in thunk'.reads :
                /\ cell.value.of = cell.extractor
                /\ \/ /\ cell.value.time = states'
                      /\ \E s \in thunk'.evidence : s.value = cell.value
                   \/ page.threw
<1>1. SpecificationInit => RunsInv
  BY RunsInit
<1>2. RunsInv /\ [Next]_vars => RunsInv'
  BY RunsNext
<1>3. RunsInv /\ [Next]_vars => [Reached]_vars
  <2> SUFFICES ASSUME RunsInv, [Next]_vars, ~edited, states' # states,
                      NEW cell \in thunk'.reads
               PROVE  /\ cell.value.of = cell.extractor
                      /\ \/ /\ cell.value.time = states'
                            /\ \E s \in thunk'.evidence : s.value = cell.value
                         \/ page.threw
    OBVIOUS
  <2>1. StateChanged
    BY DEF Next, vars, Bundling, StartEngine, RunEngine, RefuseSpecification,
       AcceptSpecification, Edit, NewDocument, RunPage, PageThrows,
       ExtractorsFail, stepVars
  <2>2. PICK reads \in SUBSET DOMAIN cells :
           IF \E i \in reads : cells'[i].value = Unset
           THEN phase' = "failed" /\ thunk' = Quiet
           ELSE /\ UNCHANGED phase
                /\ thunk' = [reads |-> {cells'[i] : i \in reads},
                             evidence |-> Accessed(snapshots', reads)]
    BY <2>1 DEF StateChanged
  <2>3. /\ thunk'.reads = {cells'[i] : i \in reads}
        /\ thunk'.evidence = Accessed(snapshots', reads)
        /\ \A i \in reads : cells'[i].value # Unset
    BY <2>2 DEF Quiet
  <2>4. PICK i \in reads : cell = cells'[i]
    BY <2>3
  <2>5. cell.value # Unset /\ i \in DOMAIN cells
    BY <2>3, <2>4
  <2>6. /\ cell.extractor = cells[i].extractor
        /\ \/ cell.value = cells[i].value /\ page.threw
           \/ /\ cell.value.of = cells[i].extractor
              /\ cell.value.time = states'
              /\ i \in DOMAIN snapshots' /\ snapshots'[i].value = cell.value
    BY <2>1, <2>4, <2>5, ValuesAgree
  <2>7. cells[i].value = Unset \/ cells[i].value.of = cells[i].extractor
    BY <2>1, <2>5 DEF RunsInv, CellsOfExtractors, StateChanged
  <2>8. i \in DOMAIN snapshots' => snapshots'[i] \in thunk'.evidence
    BY <2>3 DEF Accessed
  <2> QED
    BY <2>5, <2>6, <2>7, <2>8
<1>4. SnapshotsReachTheirExtractors <=> [][Reached]_vars
  BY DEF SnapshotsReachTheirExtractors
<1> HIDE DEF Reached
<1> QED
  BY <1>1, <1>2, <1>3, <1>4, PTL DEF Spec

-----------------------------------------------------------------------------
(* Lists                                                                      *)
LEMMA ElementsOfConcat ==
    ASSUME NEW S, NEW s \in Seq(S), NEW t \in Seq(S)
    PROVE  s \o t \in Seq(S) /\ ToSet(s \o t) = ToSet(s) \cup ToSet(t)
<1> DEFINE st == s \o t
<1>1. /\ st \in Seq(S) /\ Len(st) = Len(s) + Len(t)
      /\ Len(s) \in Nat /\ Len(t) \in Nat
      /\ \A i \in 1..Len(st) :
            st[i] = IF i <= Len(s) THEN s[i] ELSE t[i - Len(s)]
  BY ConcatProperties, LenProperties
<1>2. DOMAIN st = 1..Len(st) /\ DOMAIN s = 1..Len(s) /\ DOMAIN t = 1..Len(t)
  BY <1>1, LenProperties
<1> HIDE DEF st
<1>3. ASSUME NEW x \in ToSet(st) PROVE x \in ToSet(s) \cup ToSet(t)
  <2>1. PICK i \in 1..Len(st) : x = st[i]
    BY <1>2, <1>3 DEF ToSet
  <2>2. CASE i <= Len(s)
    <3>1. i \in 1..Len(s) /\ x = s[i]
      BY <1>1, <2>1, <2>2
    <3> QED
      BY <1>2, <3>1 DEF ToSet
  <2>3. CASE ~(i <= Len(s))
    <3>1. i - Len(s) \in 1..Len(t) /\ x = t[i - Len(s)]
      BY <1>1, <2>1, <2>3
    <3> QED
      BY <1>2, <3>1 DEF ToSet
  <2> QED
    BY <2>2, <2>3
<1>4. ASSUME NEW x \in ToSet(s) PROVE x \in ToSet(st)
  <2>1. PICK i \in 1..Len(s) : x = s[i]
    BY <1>2, <1>4 DEF ToSet
  <2>2. i \in 1..Len(st) /\ st[i] = s[i]
    BY <1>1
  <2> QED
    BY <1>2, <2>1, <2>2 DEF ToSet
<1>5. ASSUME NEW x \in ToSet(t) PROVE x \in ToSet(st)
  <2>1. PICK i \in 1..Len(t) : x = t[i]
    BY <1>2, <1>5 DEF ToSet
  <2>2. /\ i + Len(s) \in 1..Len(st) /\ ~(i + Len(s) <= Len(s))
        /\ (i + Len(s)) - Len(s) = i
    BY <1>1
  <2>3. st[i + Len(s)] = t[i]
    BY <1>1, <2>2
  <2> QED
    BY <1>2, <2>1, <2>2, <2>3 DEF ToSet
<1> QED
  BY <1>1, <1>3, <1>4, <1>5 DEF st

(* The lists along which a list of lists is flattened                         *)
Flattens(f, n, lists) ==
    f = [i \in 1..n |-> IF i = 1 THEN lists[i] ELSE f[i - 1] \o lists[i]]

LEMMA SomeFlattens ==
    ASSUME NEW lists, NEW n \in Nat PROVE \E f : Flattens(f, n, lists)
<1> DEFINE H == {i \in Nat : \E f : Flattens(f, i, lists)}
<1>1. 0 \in H
  <2>1. Flattens([i \in 1..0 |-> 0], 0, lists)
    BY DEF Flattens
  <2> QED
    BY <2>1
<1>2. ASSUME NEW k \in Nat, k \in H PROVE k + 1 \in H
  <2>1. PICK f : Flattens(f, k, lists)
    BY <1>2
  <2> DEFINE next == [i \in 1..(k + 1) |->
                         IF i <= k THEN f[i]
                         ELSE IF i = 1 THEN lists[i] ELSE f[i - 1] \o lists[i]]
  <2>2. ASSUME NEW i \in 1..(k + 1)
        PROVE  next[i] = IF i = 1 THEN lists[i] ELSE next[i - 1] \o lists[i]
    <3>1. CASE i = 1
      <4>1. 1 <= k => f[1] = lists[1]
        BY <2>1 DEF Flattens
      <4> QED
        BY <3>1, <4>1
    <3>2. CASE i # 1
      <4>1. i - 1 \in 1..(k + 1) /\ i - 1 <= k
        BY <3>2
      <4>2. next[i - 1] = f[i - 1]
        BY <4>1
      <4>3. ASSUME i <= k PROVE f[i] = f[i - 1] \o lists[i]
        <5>1. i \in 1..k
          BY <4>3
        <5> QED
          BY <2>1, <3>2, <5>1 DEF Flattens
      <4> QED
        BY <3>2, <4>2, <4>3
    <3> QED
      BY <3>1, <3>2
  <2>3. Flattens(next, k + 1, lists)
    BY <2>2 DEF Flattens
  <2> QED
    BY <2>3
<1> HIDE DEF H
<1>3. n \in H
  BY <1>1, <1>2, HoldsAlong
<1> QED
  BY <1>3 DEF H

(* A flattened list has the elements of the lists in it.                      *)
LEMMA ElementsOfFlattened ==
    ASSUME NEW S, NEW lists \in Seq(Seq(S))
    PROVE  /\ FlattenSeq(lists) \in Seq(S)
           /\ ToSet(FlattenSeq(lists)) =
                UNION {ToSet(lists[i]) : i \in 1..Len(lists)}
<1> DEFINE f == CHOOSE g : Flattens(g, Len(lists), lists)
<1>1. Len(lists) \in Nat /\ \A i \in 1..Len(lists) : lists[i] \in Seq(S)
  BY LenProperties, ElementOfSeq
<1>2. CASE Len(lists) = 0
  <2>1. FlattenSeq(lists) = <<>>
    BY <1>2, EmptySeq DEF FlattenSeq
  <2> QED
    BY <1>2, <2>1 DEF ToSet
<1>3. CASE Len(lists) # 0
  <2>1. FlattenSeq(lists) = f[Len(lists)]
    BY <1>3 DEF FlattenSeq, Flattens
  <2>2. Flattens(f, Len(lists), lists)
    BY <1>1, SomeFlattens
  <2> HIDE DEF f
  <2> DEFINE H == {i \in Nat : /\ f[i] \in Seq(S)
                               /\ ToSet(f[i]) =
                                    UNION {ToSet(lists[j]) : j \in 1..i}}
  <2>3. 1 \in H
    <3>1. f[1] = lists[1] /\ lists[1] \in Seq(S)
      BY <1>1, <1>3, <2>2 DEF Flattens
    <3>2. \A j \in 1..1 : j = 1
      OBVIOUS
    <3>3. ToSet(lists[1]) = UNION {ToSet(lists[j]) : j \in 1..1}
      BY <3>2
    <3> QED
      BY <3>1, <3>3
  <2>4. ASSUME NEW i \in Nat, 1 <= i, i < Len(lists), i \in H PROVE i + 1 \in H
    <3>1. i + 1 \in 1..Len(lists) /\ i + 1 # 1 /\ (i + 1) - 1 = i
      BY <1>1, <2>4
    <3>2. f[i + 1] = f[i] \o lists[i + 1]
      BY <2>2, <3>1 DEF Flattens
    <3>3. f[i] \in Seq(S) /\ lists[i + 1] \in Seq(S)
      BY <1>1, <2>4, <3>1
    <3>4. /\ f[i + 1] \in Seq(S)
          /\ ToSet(f[i + 1]) = ToSet(f[i]) \cup ToSet(lists[i + 1])
      BY <3>2, <3>3, ElementsOfConcat
    <3>5. \A j : j \in 1..(i + 1) <=> j \in 1..i \/ j = i + 1
      OBVIOUS
    <3>6. UNION {ToSet(lists[j]) : j \in 1..(i + 1)} =
            (UNION {ToSet(lists[j]) : j \in 1..i}) \cup ToSet(lists[i + 1])
      BY <3>5
    <3>7. ToSet(f[i]) = UNION {ToSet(lists[j]) : j \in 1..i}
      BY <2>4
    <3>8. ToSet(f[i + 1]) = UNION {ToSet(lists[j]) : j \in 1..(i + 1)}
      BY <3>4, <3>6, <3>7
    <3> QED
      BY <3>1, <3>4, <3>8
  <2> HIDE DEF H
  <2>5. 1 <= Len(lists)
    BY <1>1, <1>3
  <2>6. Len(lists) \in H
    BY <1>1, <2>3, <2>4, <2>5, HoldsAlong
  <2> QED
    BY <2>1, <2>6 DEF H
<1> QED
  BY <1>2, <1>3

(* A finite set has a list.                                                   *)
LEMMA ListOfSet ==
    ASSUME NEW S, IsFiniteSet(S)
    PROVE  SetToSeq(S) \in Seq(S) /\ ToSet(SetToSeq(S)) = S
<1>1. Cardinality(S) \in Nat /\ ExistsBijection(1..Cardinality(S), S)
  BY FS_CardinalityType
<1>2. PICK g \in [1..Cardinality(S) -> S] : IsInjective(g)
  BY <1>1 DEF ExistsBijection, Bijection, Injection, IsInjective
<1>3. PICK f : f = SetToSeq(S)
  OBVIOUS
<1>4. f \in [1..Cardinality(S) -> S] /\ IsInjective(f)
  BY <1>2, <1>3 DEF SetToSeq
<1>5. Cardinality(1..Cardinality(S)) = Cardinality(S)
  BY <1>1, FS_Interval
<1>6. f \in Injection(1..Cardinality(S), S)
  BY <1>4 DEF Injection
<1>7. f \in Surjection(1..Cardinality(S), S)
  BY <1>5, <1>6, FS_Injection
<1>8. DOMAIN f = 1..Cardinality(S) /\ \A t \in S : \E i \in DOMAIN f : f[i] = t
  BY <1>4, <1>7 DEF Surjection
<1>9. ToSet(f) = S
  BY <1>4, <1>8 DEF ToSet
<1>10. f \in Seq(S)
  BY <1>1, <1>4
<1> QED
  BY <1>3, <1>9, <1>10

-----------------------------------------------------------------------------
(* The code of modules                                                        *)

(* The modules that a module requires, and code whose values have a kind      *)
Calls(code) == {i.path : i \in {j \in ToSet(code) : j.do \in {"require", "assign"}}}
IsCode(code) ==
    /\ code \in Seq(ToSet(code))
    /\ \A i \in ToSet(code) : i.do = "make" => i.kind \in Kinds

(* Code without instructions, with one and with two                           *)
LEMMA ShortCode ==
    ASSUME NEW code
    PROVE  /\ code = <<>> => code \in Seq(ToSet(code)) /\ ToSet(code) = {}
           /\ \A i : code = <<i>> =>
                code \in Seq(ToSet(code)) /\ ToSet(code) = {i}
           /\ \A i, j : code = <<i, j>> =>
                code \in Seq(ToSet(code)) /\ ToSet(code) = {i, j}
<1>1. ASSUME code = <<>> PROVE code \in Seq(ToSet(code)) /\ ToSet(code) = {}
  BY <1>1 DEF ToSet
<1>2. ASSUME NEW i, code = <<i>>
      PROVE  code \in Seq(ToSet(code)) /\ ToSet(code) = {i}
  <2>1. DOMAIN code = {1} /\ code[1] = i
    BY <1>2
  <2> QED
    BY <1>2, <2>1 DEF ToSet
<1>3. ASSUME NEW i, NEW j, code = <<i, j>>
      PROVE  code \in Seq(ToSet(code)) /\ ToSet(code) = {i, j}
  <2>1. DOMAIN code = {1, 2} /\ code[1] = i /\ code[2] = j
    BY <1>3
  <2> QED
    BY <1>3, <2>1 DEF ToSet
<1> QED
  BY <1>1, <1>2, <1>3

(* One code after another                                                     *)
LEMMA JoinedCode ==
    ASSUME NEW a, NEW b, IsCode(a), IsCode(b)
    PROVE  IsCode(a \o b) /\ Calls(a \o b) = Calls(a) \cup Calls(b)
<1> DEFINE S == ToSet(a) \cup ToSet(b)
           ab == a \o b
<1>1. a \in Seq(S) /\ b \in Seq(S)
  BY DEF IsCode
<1>2. ab \in Seq(S) /\ ToSet(ab) = S
  BY <1>1, ElementsOfConcat
<1> HIDE DEF ab
<1>3. IsCode(ab)
  BY <1>2 DEF IsCode
<1>4. Calls(ab) = Calls(a) \cup Calls(b)
  BY <1>2 DEF Calls
<1> QED
  BY <1>3, <1>4 DEF ab

(* And many                                                                   *)
LEMMA FlattenedCode ==
    ASSUME NEW n \in Nat, NEW lists, DOMAIN lists = 1..n,
           lists = [i \in 1..n |-> lists[i]], \A i \in 1..n : IsCode(lists[i])
    PROVE  /\ IsCode(FlattenSeq(lists))
           /\ Calls(FlattenSeq(lists)) = UNION {Calls(lists[i]) : i \in 1..n}
<1> DEFINE S == UNION {ToSet(lists[i]) : i \in 1..n}
           flat == FlattenSeq(lists)
<1>1. \A i \in 1..n : lists[i] \in Seq(S)
  BY DEF IsCode
<1>2. lists \in Seq(Seq(S)) /\ Len(lists) = n
  BY <1>1
<1>3. flat \in Seq(S) /\ ToSet(flat) = S
  BY <1>2, ElementsOfFlattened
<1> HIDE DEF flat
<1>4. IsCode(flat)
  BY <1>3 DEF IsCode
<1>5. Calls(flat) = UNION {Calls(lists[i]) : i \in 1..n}
  BY <1>3 DEF Calls
<1> QED
  BY <1>4, <1>5 DEF flat

(* What a statement leaves in its place requires what the statement links to, *)
LEMMA InPlaceIsCode ==
    ASSUME NEW s, IsStatement(s)
    PROVE  /\ IsCode(InPlace(s))
           /\ Calls(InPlace(s)) = IF s.op \in Linking THEN {s.from} ELSE {}
<1>1. CASE s.op \in {"import", "reexport", "require", "exportAll"}
  <2>1. PICK i : /\ InPlace(s) = <<i>>
                 /\ i.do \in {"require", "assign"} /\ i.path = s.from
    BY <1>1 DEF InPlace, Requires, Assigns
  <2>2. ToSet(InPlace(s)) = {i} /\ InPlace(s) \in Seq(ToSet(InPlace(s)))
    BY <2>1, ShortCode
  <2> QED
    BY <1>1, <2>1, <2>2 DEF IsCode, Calls, Linking
<1>2. CASE s.op \in {"exportDeclaration", "declaration"}
  <2>1. PICK i : InPlace(s) = <<i>> /\ i.do = "make" /\ i.kind = s.kind
    BY <1>2 DEF InPlace, Makes
  <2>2. ToSet(InPlace(s)) = {i} /\ InPlace(s) \in Seq(ToSet(InPlace(s)))
    BY <2>1, ShortCode
  <2> QED
    BY <1>2, <2>1, <2>2 DEF IsCode, Calls, Linking, IsStatement, Kinds
<1>3. CASE s.op = "exportDefault"
  <2>1. PICK i, j : /\ InPlace(s) = <<i, j>> /\ i.do = "make"
                    /\ i.kind = s.kind /\ j.do = "export"
    BY <1>3 DEF InPlace, Makes, Exports
  <2>2. ToSet(InPlace(s)) = {i, j} /\ InPlace(s) \in Seq(ToSet(InPlace(s)))
    BY <2>1, ShortCode
  <2> QED
    BY <1>3, <2>1, <2>2 DEF IsCode, Calls, Linking, IsStatement, Kinds
<1>4. CASE s.op \notin {"import", "reexport", "require", "exportAll",
                        "exportDeclaration", "declaration", "exportDefault"}
  <2>1. InPlace(s) = <<>>
    BY <1>4 DEF InPlace
  <2>2. ToSet(InPlace(s)) = {} /\ InPlace(s) \in Seq(ToSet(InPlace(s)))
    BY <2>1, ShortCode
  <2> QED
    BY <1>4, <2>2 DEF IsCode, Calls, Linking
<1> QED
  BY <1>1, <1>2, <1>3, <1>4

(* and what it leaves at the end requires nothing.                            *)
LEMMA AtEndIsCode ==
    ASSUME NEW s, IsStatement(s)
    PROVE  IsCode(AtEnd(s)) /\ Calls(AtEnd(s)) = {}
<1>1. \E S : AtEnd(s) \in Seq(S) /\ \A i \in ToSet(AtEnd(s)) : i.do = "export"
  <2>1. CASE s.op = "exportDeclaration"
    <3>1. PICK i : AtEnd(s) = <<i>> /\ i.do = "export"
      BY <2>1 DEF AtEnd, Exports
    <3>2. AtEnd(s) \in Seq(ToSet(AtEnd(s))) /\ ToSet(AtEnd(s)) = {i}
      BY <3>1, ShortCode
    <3> QED
      BY <3>1, <3>2
  <2>2. CASE s.op \in {"reexport", "exportNames"}
    <3> DEFINE leaves == {Exports(name) : name \in s.names}
    <3>1. AtEnd(s) = SetToSeq(leaves) /\ IsFiniteSet(s.names)
      BY <2>2 DEF AtEnd, IsStatement
    <3>2. IsFiniteSet(leaves)
      <4> DEFINE g == [name \in s.names |-> Exports(name)]
      <4>1. g \in Surjection(s.names, leaves)
        BY DEF Surjection
      <4> QED
        BY <3>1, <4>1, FS_Surjection
    <3>3. \A i \in leaves : i.do = "export"
      BY DEF Exports
    <3> HIDE DEF leaves
    <3>4. SetToSeq(leaves) \in Seq(leaves) /\ ToSet(SetToSeq(leaves)) \subseteq leaves
      BY <3>2, ListOfSet
    <3> QED
      BY <3>1, <3>3, <3>4
  <2>3. CASE s.op \notin {"exportDeclaration", "reexport", "exportNames"}
    <3>1. AtEnd(s) = <<>>
      BY <2>3 DEF AtEnd
    <3> QED
      BY <3>1, ShortCode
  <2> QED
    BY <2>1, <2>2, <2>3
<1>2. PICK S : AtEnd(s) \in Seq(S) /\ \A i \in ToSet(AtEnd(s)) : i.do = "export"
  BY <1>1
<1>3. AtEnd(s) \in Seq(ToSet(AtEnd(s)))
  <2>1. DOMAIN AtEnd(s) = 1..Len(AtEnd(s)) /\ Len(AtEnd(s)) \in Nat
    BY <1>2, LenProperties
  <2> DEFINE code == AtEnd(s)
  <2>2. code = [i \in 1..Len(code) |-> code[i]] /\ \A i \in 1..Len(code) : code[i] \in ToSet(code)
    BY <1>2, <2>1 DEF ToSet
  <2> QED
    BY <2>1, <2>2
<1> QED
  BY <1>2, <1>3 DEF IsCode, Calls

(* A code module requires what its statements link to, ...                    *)
LEMMA ModuleIsCode ==
    ASSUME NEW modules, IsProgram(modules), NEW m \in Code
    PROVE  /\ IsCode(CodeModule(modules[m]))
           /\ Calls(CodeModule(modules[m])) = {s.from : s \in Links(modules[m])}
<1> DEFINE statements == modules[m]
           n == Len(statements)
           before == [i \in DOMAIN statements |-> InPlace(statements[i])]
           after == [i \in DOMAIN statements |-> AtEnd(statements[i])]
<1>1. /\ n \in Nat /\ DOMAIN statements = 1..n
      /\ \A i \in 1..n : IsStatement(statements[i])
  <2>1. /\ statements \in Seq(ToSet(statements))
        /\ \A s \in ToSet(statements) : IsStatement(s)
    BY DEF IsProgram
  <2>2. n \in Nat /\ DOMAIN statements = 1..n
    BY <2>1, LenProperties
  <2> QED
    BY <2>1, <2>2 DEF ToSet
<1> HIDE DEF statements, n
<1>2. /\ DOMAIN before = 1..n /\ before = [i \in 1..n |-> before[i]]
      /\ \A i \in 1..n : before[i] = InPlace(statements[i])
  BY <1>1
<1>3. /\ DOMAIN after = 1..n /\ after = [i \in 1..n |-> after[i]]
      /\ \A i \in 1..n : after[i] = AtEnd(statements[i])
  BY <1>1
<1>4. \A i \in 1..n : /\ IsCode(before[i]) /\ IsCode(after[i])
                      /\ Calls(after[i]) = {}
                      /\ Calls(before[i]) = IF statements[i].op \in Linking
                                            THEN {statements[i].from} ELSE {}
  BY <1>1, <1>2, <1>3, InPlaceIsCode, AtEndIsCode
<1>5. Rewritten(statements) = FlattenSeq(before) \o FlattenSeq(after)
  BY DEF Rewritten
<1> HIDE DEF before, after
<1>6. /\ IsCode(FlattenSeq(before)) /\ IsCode(FlattenSeq(after))
      /\ Calls(FlattenSeq(before)) = UNION {Calls(before[i]) : i \in 1..n}
      /\ Calls(FlattenSeq(after)) = UNION {Calls(after[i]) : i \in 1..n}
  BY <1>1, <1>2, <1>3, <1>4, FlattenedCode
<1>7. /\ IsCode(Rewritten(statements))
      /\ Calls(Rewritten(statements)) =
            Calls(FlattenSeq(before)) \cup Calls(FlattenSeq(after))
  BY <1>5, <1>6, JoinedCode
<1>8. Calls(Rewritten(statements)) = {s.from : s \in Links(statements)}
  <2>1. UNION {Calls(after[i]) : i \in 1..n} = {}
    BY <1>4
  <2>2. ASSUME NEW x \in UNION {Calls(before[i]) : i \in 1..n}
        PROVE  x \in {s.from : s \in Links(statements)}
    <3>1. PICK i \in 1..n : x \in Calls(before[i])
      OBVIOUS
    <3>2. statements[i].op \in Linking /\ x = statements[i].from
      BY <1>4, <3>1
    <3>3. statements[i] \in Links(statements)
      BY <1>1, <3>2 DEF Links, ToSet
    <3> QED
      BY <3>2, <3>3
  <2>3. ASSUME NEW s \in Links(statements)
        PROVE  s.from \in UNION {Calls(before[i]) : i \in 1..n}
    <3>1. PICK i \in 1..n : s = statements[i] /\ s.op \in Linking
      BY <1>1 DEF Links, ToSet
    <3>2. Calls(before[i]) = {s.from}
      BY <1>4, <3>1
    <3> QED
      BY <3>2
  <2> QED
    BY <1>6, <1>7, <2>1, <2>2, <2>3
<1>9. PICK marked : marked = <<Marks>>
  OBVIOUS
<1>10. IsCode(marked) /\ Calls(marked) = {}
  <2>1. marked \in Seq(ToSet(marked)) /\ ToSet(marked) = {Marks}
    BY <1>9, ShortCode
  <2> QED
    BY <2>1 DEF IsCode, Calls, Marks
<1>11. CodeModule(statements) = marked \o Rewritten(statements)
  BY <1>9 DEF CodeModule
<1>12. /\ IsCode(CodeModule(statements))
       /\ Calls(CodeModule(statements)) = Calls(Rewritten(statements))
  BY <1>7, <1>10, <1>11, JoinedCode
<1> QED
  BY <1>8, <1>12 DEF statements

(* ... and any other requires nothing.                                        *)
LEMMA OtherIsCode ==
    /\ IsCode(StubModule) /\ Calls(StubModule) = {}
    /\ \A type \in ImportTypes :
          IsCode(FileModule(type)) /\ Calls(FileModule(type)) = {}
<1>1. IsCode(StubModule) /\ Calls(StubModule) = {}
  <2>1. StubModule \in Seq(ToSet(StubModule)) /\ ToSet(StubModule) = {}
    BY ShortCode DEF StubModule
  <2> QED
    BY <2>1 DEF IsCode, Calls
<1>2. ASSUME NEW type \in ImportTypes
      PROVE  IsCode(FileModule(type)) /\ Calls(FileModule(type)) = {}
  <2>1. PICK code : code = Contents(type)
    OBVIOUS
  <2>2. PICK i, j : /\ code = <<i, j>> /\ i.do = "make" /\ i.kind = type
                    /\ j.do = "export"
    BY <2>1 DEF Contents, Makes, Exports
  <2>3. code \in Seq(ToSet(code)) /\ ToSet(code) = {i, j}
    BY <2>2, ShortCode
  <2>4. IsCode(code) /\ Calls(code) = {}
    BY <2>2, <2>3 DEF IsCode, Calls, Kinds
  <2>5. PICK marked : marked = <<Marks>>
    OBVIOUS
  <2>6. marked \in Seq(ToSet(marked)) /\ ToSet(marked) = {Marks}
    BY <2>5, ShortCode
  <2>7. IsCode(marked) /\ Calls(marked) = {}
    BY <2>6 DEF IsCode, Calls, Marks
  <2>8. FileModule(type) = code \/ FileModule(type) = marked \o code
    BY <2>1, <2>5 DEF FileModule
  <2>9. IsCode(marked \o code) /\ Calls(marked \o code) = {}
    BY <2>4, <2>7, JoinedCode
  <2> QED
    BY <2>4, <2>8, <2>9
<1> QED
  BY <1>1, <1>2

-----------------------------------------------------------------------------
(* What is in a bundle                                                        *)

(* Programs and types are what parsing leaves.                                *)
Programmed ==
    /\ IsProgram(program) /\ (program \in Programs \/ edited)
    /\ \A key \in DOMAIN importTypes : importTypes[key] \in ImportTypes
    /\ phase \in Phases

(* The specification, and what a bundled module requires, is bundled or       *)
(* queued, ...                                                                *)
Known == Processed \cup ToSet(queue)
Asked ==
    /\ Entry \in Known
    /\ \A m \in Processed : IsCode(bundle[m]) /\ Calls(bundle[m]) \subseteq Known

(* ... and nothing else is: it is in every set that holds the specification   *)
(* and, with a bundled module, what that requires.                            *)
HoldsCalls(C) ==
    /\ Entry \in C
    /\ \A m \in C \cap Processed : Calls(bundle[m]) \subseteq C
Needed == \A C : HoldsCalls(C) => Known \subseteq C

(* A bundle that is run has nothing left to bundle.                           *)
Emptied == phase \in {"loading", "ready"} => queue = <<>>

BundleInv == Programmed /\ Asked /\ Needed /\ Emptied

(* What is queued is the next key and what is queued behind it.               *)
LEMMA QueueOfTwo ==
    ASSUME NEW q \in Seq(Keys), q # <<>>
    PROVE  ToSet(q) = {Head(q)} \cup ToSet(Tail(q))
<1>1. /\ Tail(q) \in Seq(Keys) /\ Len(Tail(q)) = Len(q) - 1
      /\ \A i \in 1..Len(Tail(q)) : Tail(q)[i] = q[i + 1]
      /\ Len(q) \in Nat \ {0} /\ Head(q) = q[1]
  BY HeadTailProperties, LenProperties, EmptySeq
<1>2. DOMAIN q = 1..Len(q) /\ DOMAIN Tail(q) = 1..(Len(q) - 1)
  BY <1>1, LenProperties
<1>3. ASSUME NEW x \in ToSet(q) PROVE x \in {Head(q)} \cup ToSet(Tail(q))
  <2>1. PICK i \in 1..Len(q) : x = q[i]
    BY <1>2 DEF ToSet
  <2>2. CASE i = 1
    BY <1>1, <2>1, <2>2
  <2>3. CASE i # 1
    <3>1. i - 1 \in 1..Len(Tail(q)) /\ (i - 1) + 1 = i
      BY <1>1, <2>3
    <3>2. Tail(q)[i - 1] = x
      BY <1>1, <2>1, <3>1
    <3> QED
      BY <1>1, <1>2, <3>1, <3>2 DEF ToSet
  <2> QED
    BY <2>2, <2>3
<1>4. Head(q) \in ToSet(q)
  BY <1>1, <1>2 DEF ToSet
<1>5. ASSUME NEW x \in ToSet(Tail(q)) PROVE x \in ToSet(q)
  <2>1. PICK i \in 1..Len(Tail(q)) : x = Tail(q)[i]
    BY <1>1, <1>2 DEF ToSet
  <2>2. i + 1 \in 1..Len(q) /\ q[i + 1] = x
    BY <1>1, <2>1
  <2> QED
    BY <1>2, <2>2 DEF ToSet
<1> QED
  BY <1>3, <1>4, <1>5

(* Only the specification is asked for before anything is bundled.            *)
LEMMA NothingButEntry ==
    ASSUME queue = <<Entry>>, bundle = NothingBundled PROVE Asked /\ Needed
<1>1. Processed = {}
  BY DEF Processed, NothingBundled
<1>2. ToSet(queue) = {Entry}
  BY ShortCode
<1> QED
  BY <1>1, <1>2 DEF Asked, Needed, Known, HoldsCalls

(* A module is bundled, and what it requires and is not there yet is queued.  *)
LEMMA ModuleTaken ==
    ASSUME BundlerInv, Asked, Needed, Taking, Next1 \notin Processed,
           NEW code, IsCode(code), bundle' = Bundled(Next1, code),
           NEW asked, asked = Calls(code) \ Processed,
           ToSet(queue') = ToSet(Tail(queue)) \cup asked
    PROVE  Asked' /\ Needed'
<1>1. ToSet(queue) = {Next1} \cup ToSet(Tail(queue))
  BY QueueOfTwo DEF BundlerInv, Taking, Next1
<1>2. /\ Processed' = Processed \cup {Next1} /\ bundle'[Next1] = code
      /\ \A k \in Processed : bundle'[k] = bundle[k]
  BY DEF Bundled, Processed
<1>3. Known' = Known \cup Calls(code)
  BY <1>1, <1>2 DEF Known
<1>4. Asked'
  BY <1>2, <1>3 DEF Asked
<1>5. ASSUME NEW C, Entry \in C,
             \A m \in C \cap Processed' : Calls(bundle'[m]) \subseteq C
      PROVE  Known' \subseteq C
  <2>1. HoldsCalls(C)
    BY <1>2, <1>5 DEF HoldsCalls
  <2>2. Known \subseteq C /\ Next1 \in Known
    BY <1>1, <2>1 DEF Needed, Known
  <2>3. Calls(code) \subseteq C
    BY <1>2, <1>5, <2>2
  <2> QED
    BY <1>3, <2>2, <2>3
<1>6. Needed'
  BY <1>5 DEF Needed, HoldsCalls
<1> QED
  BY <1>4, <1>6

(* A step of the bundling                                                     *)
LEMMA BundlingCompletes ==
    ASSUME BundlerInv, BundleInv, BundlerNext, UNCHANGED edited
    PROVE  BundleInv'
<1>1. program' = program /\ (phase' = phase \/ phase' \in Phases)
  BY DEF BundlerNext, SkipProcessed, BundleStub, BundleFile, BundleFileFails,
         BundleCode, BundleCodeFails, Emit, Fail, Phases
<1>2. CASE SkipProcessed
  <2>1. ToSet(queue) = {Next1} \cup ToSet(Tail(queue))
    BY <1>2, QueueOfTwo DEF SkipProcessed, BundlerInv, Taking, Next1
  <2>2. /\ Next1 \in Processed /\ queue' = Tail(queue) /\ phase \in BundlingPhases
        /\ UNCHANGED <<importTypes, bundle, phase>>
    BY <1>2 DEF SkipProcessed, Taking
  <2>3. Processed' = Processed /\ Known' = Known
    BY <2>1, <2>2 DEF Processed, Known
  <2>4. Asked' /\ Needed'
    BY <2>2, <2>3 DEF BundleInv, Asked, Needed, HoldsCalls
  <2> QED
    BY <1>1, <2>2, <2>4 DEF BundleInv, Programmed, Emptied, BundlingPhases
<1>3. ASSUME BundleStub \/ BundleFile \/ BundleCode PROVE BundleInv'
  <2>1. /\ phase \in BundlingPhases /\ phase' = phase /\ Taking
        /\ Next1 \notin Processed
    BY <1>3 DEF BundleStub, BundleFile, BundleCode, Taking
  <2>2. \E code : /\ IsCode(code) /\ bundle' = Bundled(Next1, code)
                  /\ ToSet(queue') = ToSet(Tail(queue)) \cup (Calls(code) \ Processed)
    <3>1. CASE BundleStub
      <4>1. bundle' = Bundled(Next1, StubModule) /\ queue' = Tail(queue)
        BY <3>1 DEF BundleStub
      <4> QED
        BY <4>1, OtherIsCode
    <3>2. CASE BundleFile
      <4>1. FileType(Next1) \in ImportTypes
        BY DEF FileType, BundleInv, Programmed, ImportTypes
      <4>2. /\ bundle' = Bundled(Next1, FileModule(FileType(Next1)))
            /\ queue' = Tail(queue)
        BY <3>2 DEF BundleFile
      <4> QED
        BY <4>1, <4>2, OtherIsCode
    <3>3. CASE BundleCode
      <4> DEFINE statements == program[Next1]
      <4>1. /\ Next1 \in Code /\ ~ResolutionErrors(statements)
            /\ queue' = Tail(queue) \o ToBundle(statements)
            /\ bundle' = Bundled(Next1, CodeModule(statements))
        BY <3>3 DEF BundleCode, CodeFails
      <4>2. /\ IsCode(CodeModule(statements))
            /\ Calls(CodeModule(statements)) = {s.from : s \in Links(statements)}
        BY <4>1, ModuleIsCode DEF BundleInv, Programmed
      <4>3. {s.from : s \in Links(statements)} \ Processed \in SUBSET Keys
        BY <4>1 DEF ResolutionErrors, Resolve
      <4>4. /\ ToBundle(statements) \in Seq(Keys)
            /\ ToSet(ToBundle(statements)) =
                  {s.from : s \in Links(statements)} \ Processed
        BY <4>3, BundlerAssumption DEF ToBundle
      <4>5. Tail(queue) \in Seq(Keys)
        BY <2>1, QueueShortened
      <4>6. PICK rest, more, all : /\ rest = Tail(queue)
                                   /\ more = ToBundle(statements)
                                   /\ all = queue'
        OBVIOUS
      <4>7. all = rest \o more /\ rest \in Seq(Keys) /\ more \in Seq(Keys)
        BY <4>1, <4>4, <4>5, <4>6
      <4>8. ToSet(all) = ToSet(rest) \cup ToSet(more)
        BY <4>7, ElementsOfConcat
      <4>9. ToSet(queue') = ToSet(Tail(queue)) \cup ToSet(ToBundle(statements))
        BY <4>6, <4>8
      <4> QED
        BY <4>1, <4>2, <4>4, <4>9
    <3> QED
      BY <1>3, <3>1, <3>2, <3>3
  <2>3. PICK code : /\ IsCode(code) /\ bundle' = Bundled(Next1, code)
                    /\ ToSet(queue') =
                          ToSet(Tail(queue)) \cup (Calls(code) \ Processed)
    BY <2>2
  <2>4. Asked' /\ Needed'
    BY <2>1, <2>3, ModuleTaken DEF BundleInv
  <2>5. \A key \in DOMAIN importTypes' : importTypes'[key] \in ImportTypes
    <3>1. CASE BundleStub \/ BundleFile
      BY <3>1 DEF BundleStub, BundleFile, BundleInv, Programmed
    <3>2. CASE BundleCode
      <4> DEFINE types == TypesNamed(program[Next1])
      <4>1. /\ Next1 \in Code
            /\ importTypes' =
                  [key \in DOMAIN importTypes \cup {t[1] : t \in types} |->
                      IF key \in DOMAIN importTypes THEN importTypes[key]
                      ELSE (CHOOSE t \in types : t[1] = key)[2]]
        BY <3>2 DEF BundleCode
      <4>2. \A t \in types : t[2] \in ImportTypes
        <5> SUFFICES ASSUME NEW t \in types PROVE t[2] \in ImportTypes
          OBVIOUS
        <5>1. PICK s \in Links(program[Next1]) :
                 s.type # NoType /\ t = <<s.from, s.type>>
          BY DEF TypesNamed
        <5>2. s \in ToSet(program[Next1]) /\ s.op \in Linking
          BY <5>1 DEF Links
        <5>3. IsStatement(s)
          BY <4>1, <5>2 DEF BundleInv, Programmed, IsProgram
        <5>4. s.type \in ImportTypes
          BY <5>1, <5>2, <5>3 DEF IsStatement
        <5> QED
          BY <5>1, <5>4
      <4> HIDE DEF types
      <4>3. ASSUME NEW key, key \in {t[1] : t \in types}
            PROVE  (CHOOSE t \in types : t[1] = key)[2] \in ImportTypes
        <5>1. (CHOOSE t \in types : t[1] = key) \in types
          BY <4>3
        <5> QED
          BY <4>2, <5>1
      <4> QED
        BY <4>1, <4>3 DEF BundleInv, Programmed
    <3> QED
      BY <1>3, <3>1, <3>2
  <2> QED
    BY <1>1, <2>1, <2>4, <2>5
       DEF BundleInv, Programmed, Emptied, BundlingPhases
<1>4. CASE Emit \/ BundleFileFails \/ BundleCodeFails
  <2>1. /\ UNCHANGED <<queue, importTypes, bundle>>
        /\ phase' \in {"loading", "ready"} => queue = <<>>
    BY <1>4 DEF Emit, BundleFileFails, BundleCodeFails, Fail
  <2>2. Asked' /\ Needed'
    BY <2>1 DEF BundleInv, Asked, Needed, HoldsCalls, Known, Processed
  <2> QED
    BY <1>1, <2>1, <2>2 DEF BundleInv, Programmed, Emptied
<1> QED
  BY <1>2, <1>3, <1>4 DEF BundlerNext

(* Every other step leaves a bundle as it is, edits what is not bundled yet   *)
(* or begins a new one.                                                       *)
LEMMA BundleCompletes == BundlerInv /\ BundleInv /\ [Next]_vars => BundleInv'
<1> SUFFICES ASSUME BundlerInv, BundleInv, [Next]_vars PROVE BundleInv'
  OBVIOUS
<1>1. CASE Bundling
  BY <1>1, BundlingCompletes DEF Bundling
<1>2. CASE AcceptSpecification
  <2>1. /\ queue' = <<Entry>> /\ bundle' = NothingBundled
        /\ importTypes' = NothingBundled /\ phase' = "bundlingForPage"
        /\ UNCHANGED <<program, edited>>
    BY <1>2 DEF AcceptSpecification, BundleAgain
  <2>2. (queue = <<Entry>> /\ bundle = NothingBundled => Asked /\ Needed)'
    BY NothingButEntry, PTL
  <2>3. DOMAIN importTypes' = {}
    BY <2>1 DEF NothingBundled
  <2> QED
    BY <2>1, <2>2, <2>3
       DEF BundleInv, Programmed, Emptied, Phases, BundlingPhases
<1>3. CASE Edit
  <2>1. /\ UNCHANGED <<queue, importTypes, bundle, phase>> /\ edited' = TRUE
        /\ program \in Programs /\ program' \in Edits(program)
    BY <1>3 DEF Edit, BundleInv, Programmed
  <2>2. IsProgram(program')
    BY <2>1, SpecificationAssumption
  <2> QED
    BY <2>1, <2>2 DEF BundleInv, Programmed, Asked, Needed, HoldsCalls, Known,
                      Processed, Emptied
<1>4. CASE /\ UNCHANGED <<program, queue, importTypes, bundle, edited>>
           /\ phase' \in {phase, "failed"}
  BY <1>4 DEF BundleInv, Programmed, Asked, Needed, HoldsCalls, Known,
              Processed, Emptied, Phases
<1> QED
  BY <1>1, <1>2, <1>3, <1>4
     DEF Next, vars, bundlerVars, StartEngine, RunEngine, RefuseSpecification,
         NewDocument, RunPage, PageThrows, StateChanged, ExtractorsFail

(* The program is there and the specification is queued.                      *)
LEMMA BundleBegins == SpecificationInit => BundlerInv /\ BundleInv
<1> SUFFICES ASSUME SpecificationInit PROVE BundlerInv /\ BundleInv
  OBVIOUS
<1>1. /\ queue = <<Entry>> /\ bundle = NothingBundled /\ program \in Programs
      /\ importTypes = NothingBundled /\ phase = "bundling"
  BY DEF SpecificationInit, Init
<1>2. IsProgram(program) /\ DOMAIN importTypes = {}
  BY <1>1, ProgramsAssumption DEF NothingBundled
<1> QED
  BY <1>1, <1>2, NewBundle, NothingButEntry
     DEF BundleInv, Programmed, Emptied, Phases, BundlingPhases

-----------------------------------------------------------------------------
(* Engines and their types                                                    *)

(* A stack of calls of some modules, each called once                         *)
IsStack(stack, paths) ==
    /\ stack \in Seq([path : paths, pc : Nat \ {0}])
    /\ \A a, b \in 1..Len(stack) : stack[a].path = stack[b].path => a = b

Valued(names) == \A n \in DOMAIN names : names[n].kind \in Kinds

EngineTyped(e) ==
    /\ IsEngine(e)
    /\ DOMAIN e.cache \subseteq Keys /\ DOMAIN e.locals = DOMAIN e.cache
    /\ \A m \in DOMAIN e.cache : Valued(e.cache[m]) /\ Valued(e.locals[m])
    /\ IsStack(e.stack, DOMAIN e.cache)

(* A call of a module that was not called before                              *)
LEMMA StackPushed ==
    ASSUME NEW paths, NEW stack, IsStack(stack, paths), NEW path, path \notin paths,
           NEW new, new = Append(stack, Called(path))
    PROVE  /\ IsStack(new, paths \cup {path})
           /\ Len(stack) \in Nat /\ Len(new) = Len(stack) + 1
           /\ new[Len(new)] = Called(path)
           /\ \A a \in 1..Len(stack) : new[a] = stack[a]
<1> DEFINE calls == [path : paths \cup {path}, pc : Nat \ {0}]
<1>1. stack \in Seq([path : paths, pc : Nat \ {0}]) /\ Len(stack) \in Nat
  BY LenProperties DEF IsStack
<1>5. \A a \in 1..Len(stack) : stack[a] \in [path : paths, pc : Nat \ {0}]
  BY <1>1, ElementOfSeq
<1>2. stack \in Seq(calls)
  <2>1. \A a \in 1..Len(stack) : stack[a] \in calls
    BY <1>5
  <2>2. stack = [a \in 1..Len(stack) |-> stack[a]]
    BY <1>1
  <2> HIDE DEF calls
  <2> QED
    BY <1>1, <2>1, <2>2
<1>3. Called(path) \in calls
  BY DEF Called
<1> HIDE DEF calls
<1>4. /\ new \in Seq(calls) /\ Len(new) = Len(stack) + 1
      /\ \A a \in 1..Len(stack) : new[a] = stack[a]
      /\ new[Len(stack) + 1] = Called(path)
  BY <1>2, <1>3, AppendProperties
<1>6. Called(path).path = path
  BY DEF Called
<1>7. ASSUME NEW a \in 1..Len(new), NEW b \in 1..Len(new),
             new[a].path = new[b].path
      PROVE  a = b
  <2>1. /\ a \in 1..Len(stack) \/ a = Len(stack) + 1
        /\ b \in 1..Len(stack) \/ b = Len(stack) + 1
    BY <1>1, <1>4
  <2> QED
    BY <1>4, <1>5, <1>6, <1>7, <2>1 DEF IsStack
<1> QED
  BY <1>1, <1>4, <1>7 DEF IsStack, calls

(* The top of a stack                                                         *)
LEMMA StackTop ==
    ASSUME NEW paths, NEW stack, IsStack(stack, paths), stack # <<>>
    PROVE  /\ Len(stack) \in Nat \ {0} /\ DOMAIN stack = 1..Len(stack)
           /\ Last(stack) = stack[Len(stack)]
           /\ Last(stack).path \in paths /\ Last(stack).pc \in Nat \ {0}
<1>1. Len(stack) \in Nat \ {0} /\ DOMAIN stack = 1..Len(stack)
  BY LenProperties, EmptySeq DEF IsStack
<1>2. Last(stack) = stack[Len(stack)] /\ Len(stack) \in 1..Len(stack)
  BY <1>1 DEF Last
<1>3. stack[Len(stack)] \in [path : paths, pc : Nat \ {0}]
  BY <1>2, ElementOfSeq DEF IsStack
<1> QED
  BY <1>1, <1>2, <1>3

(* A return                                                                   *)
LEMMA StackPopped ==
    ASSUME NEW paths, NEW stack, IsStack(stack, paths), stack # <<>>,
           NEW new, new = Front(stack)
    PROVE  /\ IsStack(new, paths) /\ Len(new) = Len(stack) - 1
           /\ \A a \in 1..Len(new) : new[a] = stack[a]
<1>1. Len(stack) \in Nat \ {0}
  BY StackTop
<1>2. \A a \in 1..Len(stack) : stack[a] \in [path : paths, pc : Nat \ {0}]
  BY ElementOfSeq DEF IsStack
<1>3. new = [a \in 1..(Len(stack) - 1) |-> stack[a]]
  BY DEF Front
<1>4. new \in Seq([path : paths, pc : Nat \ {0}]) /\ Len(new) = Len(stack) - 1
  BY <1>1, <1>2, <1>3
<1>5. \A a \in 1..Len(new) : new[a] = stack[a] /\ a \in 1..Len(stack)
  BY <1>1, <1>3, <1>4
<1>6. ASSUME NEW a \in 1..Len(new), NEW b \in 1..Len(new),
             new[a].path = new[b].path
      PROVE  a = b
  BY <1>5, <1>6 DEF IsStack
<1> QED
  BY <1>4, <1>5, <1>6 DEF IsStack

(* A step of the module on top                                                *)
LEMMA StackStepped ==
    ASSUME NEW paths, NEW stack, IsStack(stack, paths), stack # <<>>,
           NEW new, new = [stack EXCEPT ![Len(stack)].pc = @ + 1]
    PROVE  /\ IsStack(new, paths) /\ Len(new) = Len(stack)
           /\ \A a \in 1..Len(stack) :
                 /\ new[a].path = stack[a].path
                 /\ a # Len(stack) => new[a] = stack[a]
                 /\ a = Len(stack) => new[a].pc = stack[a].pc + 1
<1> DEFINE calls == [path : paths, pc : Nat \ {0}]
           n == Len(stack)
           top == [stack[n] EXCEPT !.pc = @ + 1]
<1>1. n \in Nat \ {0} /\ DOMAIN stack = 1..n /\ stack \in Seq(calls)
  BY StackTop DEF IsStack
<1>2. \A a \in 1..n : stack[a] \in calls
  BY <1>1, ElementOfSeq
<1>3. /\ top \in calls /\ top.path = stack[n].path
      /\ top.pc = stack[n].pc + 1
  <2>1. PICK call : call = stack[n]
    OBVIOUS
  <2>2. n \in 1..n
    BY <1>1
  <2>3. call \in [path : paths, pc : Nat \ {0}]
    BY <1>2, <2>1, <2>2
  <2> HIDE DEF n
  <2>4. top = [call EXCEPT !.pc = call.pc + 1]
    BY <2>1
  <2> QED
    BY <2>1, <2>3, <2>4
<1>4. new = [stack EXCEPT ![n] = top]
  OBVIOUS
<1> HIDE DEF top, calls, n
<1>5. /\ new = [a \in 1..n |-> IF a = n THEN top ELSE stack[a]]
  BY <1>1, <1>4
<1>6. new \in Seq(calls) /\ Len(new) = n
  BY <1>1, <1>2, <1>3, <1>5
<1>7. \A a \in 1..n : /\ new[a].path = stack[a].path
                      /\ a # n => new[a] = stack[a]
                      /\ a = n => new[a].pc = stack[a].pc + 1
  BY <1>3, <1>5
<1> QED
  BY <1>6, <1>7 DEF IsStack, calls, n

(* Values put among others, looked up, copied and bound                       *)
LEMMA ValuesStay ==
    ASSUME NEW a, Valued(a), NEW b, Valued(b)
    PROVE  /\ \A name, value : value.kind \in Kinds => Valued(Put(a, name, value))
           /\ \A name : At(a, name).kind \in Kinds
           /\ Valued(Assign(a, b))
           /\ \A names : Valued(Bind(a, b, names))
           /\ \A path : Valued(Interop(path, a))
<1>1. ASSUME NEW name, NEW value, value.kind \in Kinds
      PROVE  Valued(Put(a, name, value))
  BY <1>1 DEF Valued, Put
<1>2. Undefined.kind \in Kinds
  BY DEF Undefined, Value, Kinds
<1>3. \A name : At(a, name).kind \in Kinds /\ At(b, name).kind \in Kinds
  BY <1>2 DEF Valued, At
<1>4. Valued(Assign(a, b))
  BY DEF Valued, Assign
<1>5. ASSUME NEW names PROVE Valued(Bind(a, b, names))
  BY <1>3 DEF Valued, Bind
<1>6. ASSUME NEW path PROVE Valued(Interop(path, a))
  <2>1. Value(path, "exports", "object").kind \in Kinds
    BY DEF Value, Kinds
  <2> QED
    BY <1>1, <2>1 DEF Interop
<1> QED
  BY <1>1, <1>3, <1>4, <1>5, <1>6

(* A module is called.                                                        *)
LEMMA RequireTyped ==
    ASSUME NEW e, EngineTyped(e), NEW path \in Keys, path \notin DOMAIN e.cache,
           NEW script, NEW d, d = RequirePath(script, e, path)
    PROVE  /\ EngineTyped(d)
           /\ d.stack = Append(e.stack, Called(path))
           /\ DOMAIN d.cache = DOMAIN e.cache \cup {path}
           /\ d.threw = (path \notin DOMAIN script)
<1>1. d = [e EXCEPT !.cache = Put(e.cache, path, <<>>),
                    !.locals = Put(e.locals, path, <<>>),
                    !.threw = path \notin DOMAIN script,
                    !.stack = Append(e.stack, Called(path))]
  BY DEF RequirePath
<1>2. /\ d.cache = Put(e.cache, path, <<>>)
      /\ d.locals = Put(e.locals, path, <<>>)
      /\ d.stack = Append(e.stack, Called(path))
      /\ d.threw = (path \notin DOMAIN script)
  BY <1>1 DEF EngineTyped, IsEngine
<1>3. IsEngine(d)
  BY RequireKeeps DEF EngineTyped
<1>4. /\ DOMAIN d.cache = DOMAIN e.cache \cup {path}
      /\ DOMAIN d.locals = DOMAIN e.locals \cup {path}
  BY <1>2 DEF Put
<1>5. Valued(<<>>)
  BY DEF Valued
<1>6. \A m \in DOMAIN d.cache : Valued(d.cache[m]) /\ Valued(d.locals[m])
  BY <1>2, <1>4, <1>5 DEF Put, EngineTyped
<1>7. IsStack(d.stack, DOMAIN d.cache)
  <2>1. IsStack(e.stack, DOMAIN e.cache)
    BY DEF EngineTyped
  <2>2. IsStack(d.stack, DOMAIN e.cache \cup {path})
    BY <1>2, <2>1, StackPushed
  <2> QED
    BY <1>4, <2>2
<1> QED
  BY <1>2, <1>3, <1>4, <1>6, <1>7 DEF EngineTyped

(* The module on top returns.                                                 *)
LEMMA ReturnTyped ==
    ASSUME NEW e, EngineTyped(e), e.stack # <<>>, NEW d, d = Return(e)
    PROVE  /\ EngineTyped(d) /\ d.stack = Front(e.stack)
           /\ DOMAIN d.cache = DOMAIN e.cache /\ d.threw = e.threw
<1> DEFINE path == Top(e).path
<1>0. path \in DOMAIN e.cache
  BY StackTop DEF EngineTyped, Top
<1>1. /\ DOMAIN d = DOMAIN e
      /\ d.cache = [e.cache EXCEPT ![path] = Interop(path, @)]
      /\ d.stack = Front(e.stack)
      /\ d.locals = e.locals /\ d.extractors = e.extractors
      /\ d.threw = e.threw
  BY DEF Return, EngineTyped, IsEngine
<1> HIDE DEF path
<1>2. /\ DOMAIN d.cache = DOMAIN e.cache
      /\ \A m \in DOMAIN e.cache :
            d.cache[m] = IF m = path THEN Interop(path, e.cache[path])
                         ELSE e.cache[m]
  BY <1>1
<1>3. \A m \in DOMAIN d.cache : Valued(d.cache[m]) /\ Valued(d.locals[m])
  <2>1. \A m \in DOMAIN e.cache : Valued(e.cache[m]) /\ Valued(e.locals[m])
    BY DEF EngineTyped
  <2>2. Valued(Interop(path, e.cache[path]))
    BY <1>0, <2>1, ValuesStay
  <2> QED
    BY <1>0, <1>1, <1>2, <2>1, <2>2
<1>4. IsStack(d.stack, DOMAIN d.cache)
  BY <1>1, <1>2, StackPopped DEF EngineTyped
<1> QED
  BY <1>1, <1>2, <1>3, <1>4 DEF EngineTyped, IsEngine

(* A statement works on the exports and the local names of the module on top. *)
LEMMA EffectTyped ==
    ASSUME NEW e, EngineTyped(e), e.stack # <<>>,
           NEW i, i.do = "make" => i.kind \in Kinds,
           i.do \in {"require", "assign"} => i.path \in DOMAIN e.cache,
           NEW d, d = Effect(e, i)
    PROVE  /\ EngineTyped(d) /\ d.stack = e.stack
           /\ DOMAIN d.cache = DOMAIN e.cache /\ d.threw = e.threw
<1> DEFINE path == Top(e).path
<1>0. path \in DOMAIN e.cache
  BY StackTop DEF EngineTyped, Top
<1>1. Valued(e.cache[path]) /\ Valued(e.locals[path])
  BY <1>0 DEF EngineTyped
<1>2. IsEngine(d)
  BY EffectKeeps DEF EngineTyped
<1>3. d.stack = e.stack /\ d.threw = e.threw
  <2>1. /\ Effect(e, i).stack = e.stack
        /\ Effect(e, i).threw = e.threw
    BY DEF Effect, EngineTyped, IsEngine
  <2> QED
    BY <2>1
<1>4. ASSUME i.do \in {"mark", "assign"} \/ i.do \notin {"require", "make"}
      PROVE  /\ d.locals = e.locals
             /\ \E exports : /\ Valued(exports)
                             /\ d.cache = [e.cache EXCEPT ![path] = exports]
  <2>1. CASE i.do = "mark"
    <3>1. /\ d.cache = [e.cache EXCEPT ![path] =
                            Put(e.cache[path], MarkerName, Marker)]
          /\ d.locals = e.locals
      BY <2>1 DEF Effect, EngineTyped, IsEngine
    <3>2. Marker.kind \in Kinds
      BY DEF Marker, Value, Kinds
    <3> QED
      BY <1>1, <3>1, <3>2, ValuesStay
  <2>2. CASE i.do = "assign"
    <3>1. /\ d.cache = [e.cache EXCEPT ![path] =
                            Assign(e.cache[path], e.cache[i.path])]
          /\ d.locals = e.locals
      BY <2>2 DEF Effect, EngineTyped, IsEngine
    <3>2. Valued(e.cache[i.path])
      BY <2>2 DEF EngineTyped
    <3> QED
      BY <1>1, <3>1, <3>2, ValuesStay
  <2>3. CASE i.do \notin {"mark", "require", "assign", "make"}
    <3>1. /\ d.cache = [e.cache EXCEPT ![path] =
                            Put(e.cache[path], i.name, At(e.locals[path], i.name))]
          /\ d.locals = e.locals
      BY <2>3 DEF Effect, EngineTyped, IsEngine
    <3> QED
      BY <1>1, <3>1, ValuesStay
  <2> QED
    BY <1>4, <2>1, <2>2, <2>3
<1>5. ASSUME i.do \in {"require", "make"}
      PROVE  /\ d.cache = e.cache
             /\ \E names : /\ Valued(names)
                           /\ d.locals = [e.locals EXCEPT ![path] = names]
  <2>1. CASE i.do = "require"
    <3>1. /\ d.locals = [e.locals EXCEPT ![path] =
                            Bind(e.locals[path], e.cache[i.path], i.names)]
          /\ d.cache = e.cache
      BY <2>1 DEF Effect, EngineTyped, IsEngine
    <3>2. Valued(e.cache[i.path])
      BY <2>1 DEF EngineTyped
    <3> QED
      BY <1>1, <3>1, <3>2, ValuesStay
  <2>2. CASE i.do = "make"
    <3>1. /\ d.locals = [e.locals EXCEPT ![path] =
                            Put(e.locals[path], i.name,
                                Value(path, i.name, i.kind))]
          /\ d.cache = e.cache
      BY <2>2 DEF Effect, EngineTyped, IsEngine
    <3>2. Value(path, i.name, i.kind).kind \in Kinds
      BY <2>2 DEF Value
    <3> QED
      BY <1>1, <3>1, <3>2, ValuesStay
  <2> QED
    BY <1>5, <2>1, <2>2
<1> HIDE DEF path
<1>6. /\ DOMAIN d.cache = DOMAIN e.cache /\ DOMAIN d.locals = DOMAIN e.locals
      /\ \A m \in DOMAIN e.cache : Valued(d.cache[m]) /\ Valued(d.locals[m])
  <2>1. CASE i.do \in {"require", "make"}
    BY <1>5, <2>1 DEF EngineTyped
  <2>2. CASE i.do \notin {"require", "make"}
    BY <1>4, <2>2 DEF EngineTyped
  <2> QED
    BY <2>1, <2>2
<1> QED
  BY <1>2, <1>3, <1>6 DEF EngineTyped

(* The statement that the module on top is at, and the move to the next one   *)
Current(script, e) == script[Top(e).path][Top(e).pc]
Moved(e, n) == [e EXCEPT !.stack[n].pc = @ + 1]

(* A statement that calls no module has its effect, and the module moves on;  *)
LEMMA StepMoves ==
    ASSUME NEW script, NEW e, ~(Top(e).pc > Len(script[Top(e).path])),
           ~(/\ Current(script, e).do \in {"require", "assign"}
             /\ Current(script, e).path \notin DOMAIN e.cache)
    PROVE  Step1(script, e) = Moved(Effect(e, Current(script, e)), Len(e.stack))
BY Zenon DEF Step1, Current, Moved

(* to move on leaves the rest as it was.                                      *)
LEMMA MovedTyped ==
    ASSUME NEW e, EngineTyped(e), e.stack # <<>>,
           NEW d, d = Moved(e, Len(e.stack))
    PROVE  /\ EngineTyped(d)
           /\ d.stack = [e.stack EXCEPT ![Len(e.stack)].pc = @ + 1]
           /\ Len(d.stack) = Len(e.stack)
           /\ \A a \in 1..Len(e.stack) : d.stack[a].path = e.stack[a].path
           /\ DOMAIN d.cache = DOMAIN e.cache /\ d.threw = e.threw
<1>1. /\ DOMAIN d = DOMAIN e
      /\ d.stack = [e.stack EXCEPT ![Len(e.stack)].pc = @ + 1]
      /\ d.cache = e.cache /\ d.locals = e.locals
      /\ d.extractors = e.extractors /\ d.threw = e.threw
  BY DEF Moved, EngineTyped, IsEngine
<1>2. /\ IsStack(d.stack, DOMAIN e.cache) /\ Len(d.stack) = Len(e.stack)
      /\ \A a \in 1..Len(e.stack) : d.stack[a].path = e.stack[a].path
  BY <1>1, StackStepped DEF EngineTyped
<1> QED
  BY <1>1, <1>2 DEF EngineTyped, IsEngine

(* Scripts that require only keys; what an engine calls is in its script      *)
(* unless it has thrown.                                                      *)
ScriptOK(script) ==
    \A m \in DOMAIN script : IsCode(script[m]) /\ Calls(script[m]) \subseteq Keys
Grounded(script, e) ==
    ~e.threw => \A a \in 1..Len(e.stack) : e.stack[a].path \in DOMAIN script

(* An instruction that requires a module                                      *)
AsksFor(i, path) == i.do \in {"require", "assign"} /\ i.path = path

(* The three ways an engine goes on: the module on top returns, calls one     *)
(* that was not called yet, or goes on with its next statement.               *)
Returns(script, e, d) ==
    /\ Top(e).pc > Len(script[Top(e).path])
    /\ d.stack = Front(e.stack)
    /\ DOMAIN d.cache = DOMAIN e.cache /\ ~d.threw
CallsFor(script, e, d, path) ==
    /\ AsksFor(Current(script, e), path)
    /\ path \in Calls(script[Top(e).path]) \ DOMAIN e.cache
    /\ d.stack = Append(e.stack, Called(path))
    /\ DOMAIN d.cache = DOMAIN e.cache \cup {path}
    /\ d.threw = (path \notin DOMAIN script)
GoesOn(script, e, d) ==
    /\ \A path : AsksFor(Current(script, e), path) =>
                    path \in DOMAIN e.cache
    /\ d.stack = [e.stack EXCEPT ![Len(e.stack)].pc = @ + 1]
    /\ DOMAIN d.cache = DOMAIN e.cache /\ ~d.threw

(* A step of a typed engine is one of them and leaves it typed.                *)
LEMMA StepTyped ==
    ASSUME NEW script, ScriptOK(script),
           NEW e, EngineTyped(e), Grounded(script, e), ~Ended(e),
           NEW d, d = Step1(script, e)
    PROVE  /\ EngineTyped(d) /\ Grounded(script, d)
           /\ \/ Returns(script, e, d)
              \/ \E path : CallsFor(script, e, d, path)
              \/ GoesOn(script, e, d)
<1> DEFINE top == Top(e)
           code == script[top.path]
           i == code[top.pc]
<1>1. e.stack # <<>> /\ ~e.threw
  BY DEF Ended
<1>2. /\ Len(e.stack) \in Nat \ {0} /\ DOMAIN e.stack = 1..Len(e.stack)
      /\ top = e.stack[Len(e.stack)]
      /\ top.path \in DOMAIN e.cache /\ top.pc \in Nat \ {0}
  BY <1>1, StackTop DEF EngineTyped, Top
<1>3. top.path \in DOMAIN script
  BY <1>1, <1>2 DEF Grounded
<1>4. /\ IsCode(code) /\ Calls(code) \subseteq Keys
      /\ Len(code) \in Nat /\ DOMAIN code = 1..Len(code)
  BY <1>3, LenProperties DEF ScriptOK, IsCode
<1>5. CASE top.pc > Len(code)
  <2>1. d = Return(e)
    BY <1>5 DEF Step1
  <2>2. /\ EngineTyped(d) /\ d.stack = Front(e.stack)
        /\ DOMAIN d.cache = DOMAIN e.cache /\ d.threw = e.threw
    BY <1>1, <2>1, ReturnTyped
  <2>3. Returns(script, e, d)
    BY <1>1, <1>5, <2>2 DEF Returns
  <2>4. Grounded(script, d)
    BY <1>1, <1>2, <2>2, StackPopped DEF Grounded, EngineTyped
  <2> QED
    BY <2>2, <2>3, <2>4
<1>6. ASSUME ~(top.pc > Len(code)) PROVE i \in ToSet(code)
  BY <1>2, <1>4, <1>6 DEF ToSet
<1>7. CASE /\ ~(top.pc > Len(code))
           /\ i.do \in {"require", "assign"} /\ i.path \notin DOMAIN e.cache
  <2>1. PICK path : path = i.path
    OBVIOUS
  <2>2. d = RequirePath(script, e, path)
    BY <1>7, <2>1 DEF Step1
  <2>3. path \in Calls(code) /\ path \in Keys /\ path \notin DOMAIN e.cache
    BY <1>4, <1>6, <1>7, <2>1 DEF Calls
  <2>4. /\ EngineTyped(d)
        /\ d.stack = Append(e.stack, Called(path))
        /\ DOMAIN d.cache = DOMAIN e.cache \cup {path}
        /\ d.threw = (path \notin DOMAIN script)
    BY <2>2, <2>3, RequireTyped
  <2>6. CallsFor(script, e, d, path)
    BY <1>7, <2>1, <2>3, <2>4 DEF CallsFor, AsksFor, Current
  <2>5. Grounded(script, d)
    <3> SUFFICES ASSUME ~d.threw, NEW a \in 1..Len(d.stack)
                 PROVE  d.stack[a].path \in DOMAIN script
      BY DEF Grounded
    <3>1. /\ Len(e.stack) \in Nat /\ Len(d.stack) = Len(e.stack) + 1
          /\ d.stack[Len(d.stack)] = Called(path)
          /\ \A b \in 1..Len(e.stack) : d.stack[b] = e.stack[b]
      BY <2>3, <2>4, StackPushed DEF EngineTyped
    <3>2. a \in 1..Len(e.stack) \/ a = Len(d.stack)
      BY <3>1
    <3>3. Called(path).path = path
      BY DEF Called
    <3>4. path \in DOMAIN script
      BY <2>4, Zenon
    <3> QED
      BY <1>1, <3>1, <3>2, <3>3, <3>4 DEF Grounded
  <2> QED
    BY <2>4, <2>5, <2>6
<1>8. CASE /\ ~(top.pc > Len(code))
           /\ ~(i.do \in {"require", "assign"} /\ i.path \notin DOMAIN e.cache)
  <2>1. PICK made : made = Effect(e, i)
    OBVIOUS
  <2>2. d = Moved(made, Len(e.stack))
    BY <1>8, <2>1, StepMoves DEF Current
  <2>3. i.do = "make" => i.kind \in Kinds
    BY <1>4, <1>6, <1>8 DEF IsCode
  <2>4. /\ EngineTyped(made) /\ made.stack = e.stack
        /\ DOMAIN made.cache = DOMAIN e.cache /\ made.threw = e.threw
    BY <1>1, <1>8, <2>1, <2>3, EffectTyped
  <2>5. /\ EngineTyped(d) /\ Len(d.stack) = Len(e.stack)
        /\ d.stack = [e.stack EXCEPT ![Len(e.stack)].pc = @ + 1]
        /\ \A a \in 1..Len(e.stack) : d.stack[a].path = e.stack[a].path
        /\ DOMAIN d.cache = DOMAIN e.cache /\ d.threw = e.threw
    BY <1>1, <2>2, <2>4, MovedTyped
  <2>6. GoesOn(script, e, d)
    BY <1>1, <1>8, <2>5 DEF GoesOn, AsksFor, Current
  <2>7. Grounded(script, d)
    BY <1>1, <2>5 DEF Grounded
  <2> QED
    BY <2>5, <2>6, <2>7
<1> QED
  BY <1>5, <1>7, <1>8

(* An engine that runs nothing                                                *)
LEMMA NothingTyped ==
    EngineTyped(NothingRun) /\ \A script : Grounded(script, NothingRun)
<1>1. /\ NothingRun.stack = <<>> /\ NothingRun.cache = <<>>
      /\ NothingRun.locals = <<>> /\ ~NothingRun.threw
      /\ NothingRun.extractors = <<>>
      /\ DOMAIN NothingRun = {"stack", "cache", "locals", "extractors", "threw"}
  BY DEF NothingRun
<1>2. PICK none : none = <<>>
  OBVIOUS
<1>3. DOMAIN none = {} /\ Len(none) = 0 /\ \A S : none \in Seq(S)
  BY <1>2
<1>4. IsEngine(NothingRun)
  BY <1>1, <1>2, <1>3 DEF IsEngine, IsList
<1>5. IsStack(none, {})
  BY <1>3 DEF IsStack
<1> QED
  BY <1>1, <1>2, <1>3, <1>4, <1>5 DEF EngineTyped, Grounded

(* An engine that begins has called the specification, or has thrown.         *)
LEMMA BegunTyped ==
    ASSUME NEW script, NEW d, d = Begun(script)
    PROVE  /\ EngineTyped(d) /\ Grounded(script, d)
           /\ Parses(script) =>
                 /\ d.stack = Append(<<>>, Called(Entry))
                 /\ DOMAIN d.cache = {Entry}
                 /\ d.threw = (Entry \notin DOMAIN script)
<1>1. NothingRun.cache = <<>> /\ NothingRun.stack = <<>> /\ DOMAIN <<>> = {}
  BY DEF NothingRun
<1>2. CASE Parses(script)
  <2>1. d = RequirePath(script, NothingRun, Entry)
    BY <1>2 DEF Begun
  <2>2. Entry \in Keys /\ Entry \notin DOMAIN NothingRun.cache
    BY <1>1, BundlerAssumption DEF Keys, Code
  <2>3. /\ EngineTyped(d) /\ d.stack = Append(NothingRun.stack, Called(Entry))
        /\ DOMAIN d.cache = DOMAIN NothingRun.cache \cup {Entry}
        /\ d.threw = (Entry \notin DOMAIN script)
    BY <2>1, <2>2, NothingTyped, RequireTyped
  <2>4. Grounded(script, d)
    <3>1. PICK none : none = <<>>
      OBVIOUS
    <3>2. none \in Seq({Called(Entry)}) /\ Len(none) = 0
      BY <3>1
    <3>3. /\ d.stack = Append(none, Called(Entry))
      BY <1>1, <2>3, <3>1
    <3>4. Len(d.stack) = 1 /\ d.stack[1] = Called(Entry)
      BY <3>2, <3>3, AppendProperties
    <3>5. ~d.threw => Entry \in DOMAIN script
      BY <2>3, Zenon
    <3>6. Called(Entry).path = Entry
      BY DEF Called
    <3> QED
      BY <3>4, <3>5, <3>6 DEF Grounded
  <2> QED
    BY <1>1, <2>3, <2>4
<1>3. CASE ~Parses(script)
  <2>1. d = [NothingRun EXCEPT !.threw = TRUE]
    BY <1>3 DEF Begun
  <2>2. /\ DOMAIN d = DOMAIN NothingRun /\ d.threw
        /\ d.stack = NothingRun.stack /\ d.cache = NothingRun.cache
        /\ d.locals = NothingRun.locals
        /\ d.extractors = NothingRun.extractors
    BY <2>1 DEF NothingRun
  <2> QED
    BY <1>3, <2>2, NothingTyped DEF EngineTyped, IsEngine, Grounded
<1> QED
  BY <1>2, <1>3

(* An engine that throws is one.                                              *)
LEMMA ThrownTyped ==
    ASSUME NEW e, EngineTyped(e), NEW d, d = [e EXCEPT !.threw = TRUE]
    PROVE  EngineTyped(d) /\ \A script : Grounded(script, d)
<1>1. /\ DOMAIN d = DOMAIN e /\ d.threw
      /\ d.stack = e.stack /\ d.cache = e.cache
      /\ d.locals = e.locals /\ d.extractors = e.extractors
  BY DEF EngineTyped, IsEngine
<1> QED
  BY <1>1 DEF EngineTyped, IsEngine, Grounded

(* The two engines, and what each runs                                        *)
EnginesTyped ==
    /\ EngineTyped(engine) /\ EngineTyped(page)
    /\ phase = "loading" => Grounded(bundle, engine)
    /\ phase = "ready" => Grounded(bundle, page)
    /\ phase = "bundling" => engine = NothingRun
    /\ phase \in {"bundling", "bundlingForPage", "loading"} => page = NothingRun

(* What the verifier has read and counted                                     *)
Counted ==
    /\ properties \cap generators = {}
    /\ \A i \in DOMAIN cells :
          cells[i].value = Unset \/ cells[i].value.time \in 1..states
    /\ documents \in 0..MaxDocuments /\ throws \in 0..MaxThrows
    /\ states \in 0..MaxStates /\ edited \in BOOLEAN

(* A bundle requires only keys.                                               *)
LEMMA BundleIsOK == ASSUME BundlerInv, BundleInv PROVE ScriptOK(bundle)
<1>1. Known \subseteq Keys
  <2>1. DOMAIN queue = 1..Len(queue)
    BY LenProperties DEF BundlerInv
  <2> QED
    BY <2>1, ElementOfSeq DEF BundlerInv, Known, ToSet
<1> QED
  BY <1>1 DEF ScriptOK, BundleInv, Asked, Processed

(* An engine only runs what has been bundled, from the beginning.             *)
LEMMA EnginesStayTyped ==
    ASSUME BundlerInv, BundleInv, EnginesTyped, [Next]_vars PROVE EnginesTyped'
<1>0. ScriptOK(bundle)
  BY BundleIsOK
<1>1. CASE Bundling
  <2>1. /\ UNCHANGED <<engine, page>>
        /\ \/ phase' = phase /\ phase \in BundlingPhases
           \/ phase' = "failed"
           \/ phase = "bundling" /\ phase' = "loading"
           \/ phase = "bundlingForPage" /\ phase' = "ready"
    BY <1>1 DEF Bundling, BundlerNext, SkipProcessed, BundleStub, BundleFile,
       BundleFileFails, BundleCode, BundleCodeFails, Emit, Fail, Taking,
       BundlingPhases, pageVars
  <2>2. (\A script : Grounded(script, NothingRun))
    BY NothingTyped
  <2>3. phase' = "loading" => engine' = NothingRun
    BY <2>1 DEF EnginesTyped, BundlingPhases
  <2>4. phase' = "ready" => page' = NothingRun
    BY <2>1 DEF EnginesTyped, BundlingPhases
  <2>5. /\ phase' = "loading" => Grounded(bundle', engine')
        /\ phase' = "ready" => Grounded(bundle', page')
    BY <2>2, <2>3, <2>4
  <2> QED
    BY <2>1, <2>5 DEF EnginesTyped, BundlingPhases, Grounded
<1>2. CASE StartEngine \/ RunEngine
  <2>1. /\ phase = "loading" /\ UNCHANGED <<phase, bundle, page>>
        /\ \/ engine' = Begun(bundle)
           \/ ~Ended(engine) /\ engine' = Step1(bundle, engine)
    BY <1>2 DEF StartEngine, RunEngine, bundlerVars, pageVars
  <2>2. PICK d, b, e : d = engine' /\ b = bundle /\ e = engine
    OBVIOUS
  <2>3. EngineTyped(d) /\ Grounded(b, d)
    <3>1. CASE d = Begun(b)
      BY <3>1, BegunTyped
    <3>2. CASE ~Ended(e) /\ d = Step1(b, e)
      BY <1>0, <2>1, <2>2, <3>2, StepTyped DEF EnginesTyped
    <3> QED
      BY <2>1, <2>2, <3>1, <3>2
  <2> QED
    BY <2>1, <2>2, <2>3 DEF EnginesTyped, Grounded
<1>3. CASE NewDocument \/ RunPage \/ PageThrows
  <2>1. /\ phase = "ready" /\ UNCHANGED <<phase, bundle, engine>>
        /\ \/ page' = Begun(bundle)
           \/ ~Ended(page) /\ page' = Step1(bundle, page)
           \/ page' = [page EXCEPT !.threw = TRUE]
    BY <1>3 DEF NewDocument, RunPage, PageThrows, bundlerVars
  <2>2. PICK d, b, e : d = page' /\ b = bundle /\ e = page
    OBVIOUS
  <2>3. EngineTyped(d) /\ Grounded(b, d)
    <3>1. CASE d = Begun(b)
      BY <3>1, BegunTyped
    <3>2. CASE ~Ended(e) /\ d = Step1(b, e)
      BY <1>0, <2>1, <2>2, <3>2, StepTyped DEF EnginesTyped
    <3>3. CASE d = [e EXCEPT !.threw = TRUE]
      BY <2>1, <2>2, <3>3, ThrownTyped DEF EnginesTyped
    <3> QED
      BY <2>1, <2>2, <3>1, <3>2, <3>3
  <2> QED
    BY <2>1, <2>2, <2>3 DEF EnginesTyped, Grounded
<1>4. CASE AcceptSpecification
  BY <1>4 DEF AcceptSpecification, Loaded, BundleAgain, EnginesTyped, pageVars,
              Grounded
<1>5. CASE UNCHANGED <<bundle, engine, page>> /\ phase' \in {phase, "failed"}
  BY <1>5 DEF EnginesTyped, Grounded
<1> QED
  BY <1>1, <1>2, <1>3, <1>4, <1>5
     DEF Next, vars, bundlerVars, pageVars, RefuseSpecification, Edit,
         StateChanged, ExtractorsFail

(* The counters stay in their bounds, and cells hold values of past states.   *)
LEMMA CountsStay == ASSUME Counted, [Next]_vars PROVE Counted'
<1> USE SpecificationAssumption
<1>1. CASE AcceptSpecification
  <2>1. /\ properties' = Named("formula") /\ generators' = Named("generator")
        /\ cells' = Register(engine.extractors)
        /\ UNCHANGED <<documents, throws, states, edited>>
    BY <1>1 DEF AcceptSpecification, pageVars
  <2>2. Named("formula") \cap Named("generator") = {}
    BY DEF Named
  <2>3. \A i \in DOMAIN cells' : cells'[i].value = Unset
    BY <2>1 DEF Register
  <2> QED
    BY <2>1, <2>2, <2>3 DEF Counted
<1>2. CASE StateChanged
  <2>1. /\ cells' = Updated(cells, RunExtractors) /\ states' = states + 1
        /\ states < MaxStates
        /\ UNCHANGED <<properties, generators, documents, throws, edited>>
    BY <1>2 DEF StateChanged, pageVars
  <2>2. states \in Nat /\ MaxStates \in Nat
    BY DEF Counted
  <2>3. ASSUME NEW i \in DOMAIN cells'
        PROVE  cells'[i].value = Unset \/ cells'[i].value.time \in 1..states'
    <3>1. i \in DOMAIN cells
      BY <2>1, <2>3 DEF Updated
    <3>2. CASE i \in DOMAIN RunExtractors
      <4>1. RunExtractors[i].value =
               [of |-> page.extractors[i], time |-> states + 1]
        BY <3>2 DEF RunExtractors
      <4>2. cells'[i] = [cells[i] EXCEPT !.value = RunExtractors[i].value]
        BY <2>1, <3>1, <3>2 DEF Updated
      <4>3. cells'[i].value = RunExtractors[i].value
        BY <4>2
      <4>4. cells'[i].value.time = states'
        BY <2>1, <4>1, <4>3
      <4>5. states' \in 1..states'
        BY <2>1, <2>2
      <4> QED
        BY <4>4, <4>5
    <3>3. CASE i \notin DOMAIN RunExtractors
      <4>1. cells'[i] = cells[i]
        BY <2>1, <3>1, <3>3 DEF Updated
      <4>2. 1..states \subseteq 1..states'
        BY <2>1, <2>2
      <4> QED
        BY <3>1, <4>1, <4>2 DEF Counted
    <3> QED
      BY <3>2, <3>3
  <2>4. states' \in 0..MaxStates
    BY <2>1, <2>2
  <2> QED
    BY <2>1, <2>3, <2>4 DEF Counted
<1>3. CASE NewDocument \/ PageThrows
  <2>1. /\ UNCHANGED <<properties, generators, cells, states, edited>>
        /\ \/ documents < MaxDocuments /\ documents' = documents + 1
              /\ throws' = throws
           \/ throws < MaxThrows /\ throws' = throws + 1
              /\ documents' = documents
    BY <1>3 DEF NewDocument, PageThrows, stepVars
  <2> QED
    BY <2>1 DEF Counted
<1>4. CASE /\ UNCHANGED <<properties, generators, cells, states, documents, throws>>
           /\ edited' \in {edited, TRUE}
  BY <1>4 DEF Counted
<1> QED
  BY <1>1, <1>2, <1>3, <1>4
     DEF Next, vars, Bundling, pageVars, stepVars, StartEngine, RunEngine,
         RefuseSpecification, Edit, RunPage, ExtractorsFail

(* As many modules are called as calls are on the stack.                      *)
LEMMA CalledOnce ==
    ASSUME NEW paths, NEW stack, IsStack(stack, paths)
    PROVE  Cardinality({f.path : f \in ToSet(stack)}) = Len(stack)
<1> DEFINE called == {f.path : f \in ToSet(stack)}
           n == Len(stack)
           g == [a \in 1..n |-> stack[a].path]
<1>1. n \in Nat /\ DOMAIN stack = 1..n
  BY LenProperties DEF IsStack
<1>2. \A x \in called : \E a \in 1..n : x = stack[a].path
  BY <1>1 DEF ToSet
<1>3. \A a \in 1..n : stack[a].path \in called
  BY <1>1 DEF ToSet
<1>4. \A a, b \in 1..n : stack[a].path = stack[b].path => a = b
  BY DEF IsStack
<1> HIDE DEF called, n
<1>5. g \in [1..n -> called]
  BY <1>3
<1>6. g \in Injection(1..n, called) /\ g \in Surjection(1..n, called)
  BY <1>2, <1>4, <1>5 DEF Injection, Surjection, IsInjective
<1>7. g \in Bijection(1..n, called)
  BY <1>6 DEF Bijection
<1>8. IsFiniteSet(1..n) /\ Cardinality(1..n) = n
  <2>1. 1 \in Int /\ n \in Int
    BY <1>1
  <2>2. /\ IsFiniteSet(1..n)
        /\ Cardinality(1..n) = IF 1 > n THEN 0 ELSE n - 1 + 1
    BY <2>1, FS_Interval
  <2> QED
    BY <1>1, <2>2
<1>9. Cardinality(called) = Cardinality(1..n)
  <2>1. ExistsBijection(1..n, called)
    BY <1>7 DEF ExistsBijection
  <2> QED
    BY <1>8, <2>1, FS_Bijection
<1> QED
  BY <1>8, <1>9 DEF called, n

(* A typed engine is what the type invariant asks for.                        *)
LEMMA EngineIsOK == ASSUME NEW e, EngineTyped(e) PROVE EngineOK(e)
<1>1. IsStack(e.stack, DOMAIN e.cache) /\ DOMAIN e.cache \subseteq Keys
  BY DEF EngineTyped
<1>2. Cardinality({f.path : f \in ToSet(e.stack)}) = Len(e.stack)
  BY <1>1, CalledOnce
<1>3. ASSUME NEW i \in DOMAIN e.stack
      PROVE  /\ e.stack[i].path \in DOMAIN e.cache \cap Keys
             /\ e.stack[i].pc \in Nat
  <2>1. i \in 1..Len(e.stack)
    BY <1>1, LenProperties DEF IsStack
  <2>2. e.stack[i] \in [path : DOMAIN e.cache, pc : Nat \ {0}]
    BY <1>1, <2>1, ElementOfSeq DEF IsStack
  <2> QED
    BY <1>1, <2>2
<1>4. \A m \in DOMAIN e.cache :
         \A n \in DOMAIN e.cache[m] : e.cache[m][n].kind \in Kinds
  BY DEF EngineTyped, Valued
<1> QED
  BY <1>2, <1>3, <1>4 DEF EngineOK, EngineTyped

(* Types, for every set of files and however many documents and states: no    *)
(* module is on the call stack twice, in the verifier or in a page, and every *)
(* value an engine has comes from a declaration, a file or the bundler.       *)
THEOREM TypeCorrect == Spec => []TypeOK
<1> DEFINE Inv == BundlerInv /\ BundleInv /\ EnginesTyped /\ Counted
<1>1. SpecificationInit => Inv
  <2> SUFFICES ASSUME SpecificationInit PROVE Inv
    OBVIOUS
  <2>1. EnginesTyped
    BY NothingTyped DEF EnginesTyped, SpecificationInit, Init
  <2>2. Counted
    <3>1. DOMAIN cells = {}
      BY DEF SpecificationInit
    <3>2. documents = 0 /\ throws = 0 /\ states = 0
      BY DEF SpecificationInit
    <3>3. 0 \in 0..MaxDocuments /\ 0 \in 0..MaxThrows /\ 0 \in 0..MaxStates
      BY SpecificationAssumption
    <3>4. properties \cap generators = {} /\ edited \in BOOLEAN
      BY DEF SpecificationInit
    <3> QED
      BY <3>1, <3>2, <3>3, <3>4 DEF Counted
  <2> QED
    BY <2>1, <2>2, BundleBegins
<1>2. Inv /\ [Next]_vars => Inv'
  BY BundlerNextKeeps, BundleCompletes, EnginesStayTyped, CountsStay
<1>3. Inv => TypeOK
  <2> SUFFICES ASSUME Inv PROVE TypeOK
    OBVIOUS
  <2>1. EngineOK(engine) /\ EngineOK(page)
    BY EngineIsOK DEF EnginesTyped
  <2>2. ToSet(queue) \cup DOMAIN bundle \subseteq Keys
    <3>1. DOMAIN queue = 1..Len(queue)
      BY LenProperties DEF BundlerInv
    <3> QED
      BY <3>1, ElementOfSeq DEF BundlerInv, Processed, ToSet
  <2> QED
    BY <2>1, <2>2 DEF TypeOK, Counted, BundleInv, Programmed
<1> QED
  BY <1>1, <1>2, <1>3, PTL DEF Spec

-----------------------------------------------------------------------------
(* Every module of a bundle is run                                            *)

(* A script with every module that one of its modules requires                *)
Closed(script) ==
    /\ Entry \in DOMAIN script
    /\ \A m \in DOMAIN script :
          IsCode(script[m]) /\ Calls(script[m]) \subseteq DOMAIN script

(* A module that was called has called what it requires, up to the statement  *)
(* it is at if it is still on the stack.                                      *)
IsYetAt(e, m, k) ==
    \E a \in 1..Len(e.stack) : e.stack[a].path = m /\ e.stack[a].pc <= k
RunsAll(script, e) ==
    /\ ~e.threw
    /\ Entry \in DOMAIN e.cache /\ DOMAIN e.cache \subseteq DOMAIN script
    /\ \A m \in DOMAIN e.cache : \A k \in 1..Len(script[m]) : \A path :
          AsksFor(script[m][k], path) =>
              path \in DOMAIN e.cache \/ IsYetAt(e, m, k)

(* It begins so, ...                                                          *)
LEMMA BegunRunsAll ==
    ASSUME NEW script, Closed(script), Parses(script),
           NEW d, d = Begun(script)
    PROVE  RunsAll(script, d)
<1>1. /\ d.stack = Append(<<>>, Called(Entry))
      /\ DOMAIN d.cache = {Entry} /\ d.threw = (Entry \notin DOMAIN script)
  BY BegunTyped
<1>2. Entry \in DOMAIN script
  BY DEF Closed
<1>3. ~d.threw
  BY <1>1, <1>2, Zenon
<1>4. Len(d.stack) = 1 /\ d.stack[1] = Called(Entry)
  <2>1. PICK none : none = <<>>
    OBVIOUS
  <2>2. none \in Seq({Called(Entry)}) /\ Len(none) = 0
    BY <2>1
  <2>3. d.stack = Append(none, Called(Entry))
    BY <1>1, <2>1
  <2> QED
    BY <2>2, <2>3, AppendProperties
<1>5. Called(Entry).path = Entry /\ Called(Entry).pc = 1
  BY DEF Called
<1>6. ASSUME NEW k \in 1..Len(script[Entry]) PROVE IsYetAt(d, Entry, k)
  <2>1. 1 <= k
    BY <1>2, LenProperties DEF Closed, IsCode
  <2>2. 1 \in 1..Len(d.stack)
    BY <1>4
  <2> QED
    BY <1>4, <1>5, <2>1, <2>2 DEF IsYetAt
<1> QED
  BY <1>1, <1>2, <1>3, <1>6 DEF RunsAll

(* ... and every step keeps it, ...                                           *)
LEMMA StepRunsAll ==
    ASSUME NEW script, ScriptOK(script), Closed(script),
           NEW e, EngineTyped(e), Grounded(script, e), ~Ended(e),
           RunsAll(script, e), NEW d, d = Step1(script, e)
    PROVE  RunsAll(script, d)
<1>1. /\ EngineTyped(d)
      /\ \/ Returns(script, e, d)
         \/ \E path : CallsFor(script, e, d, path)
         \/ GoesOn(script, e, d)
  BY StepTyped
<1> DEFINE n == Len(e.stack)
<1>2. /\ e.stack # <<>> /\ n \in Nat \ {0}
      /\ Top(e) = e.stack[n]
      /\ Top(e).path \in DOMAIN e.cache /\ Top(e).pc \in Nat \ {0}
      /\ IsStack(e.stack, DOMAIN e.cache)
  BY StackTop DEF EngineTyped, Top, Ended
<1>3. \A a \in 1..n : e.stack[a].pc \in Nat \ {0}
  <2>1. \A a \in 1..n : e.stack[a] \in [path : DOMAIN e.cache, pc : Nat \ {0}]
    BY <1>2, ElementOfSeq DEF IsStack
  <2> QED
    BY <2>1
<1>4. \A m \in DOMAIN script : Len(script[m]) \in Nat
  BY LenProperties DEF Closed, IsCode
<1>5. CASE Returns(script, e, d)
  <2>1. /\ Top(e).pc > Len(script[Top(e).path]) /\ d.stack = Front(e.stack)
        /\ DOMAIN d.cache = DOMAIN e.cache /\ ~d.threw
    BY <1>5 DEF Returns
  <2>2. Len(d.stack) = n - 1 /\ \A a \in 1..Len(d.stack) : d.stack[a] = e.stack[a]
    <3>1. PICK stack, new, paths :
             stack = e.stack /\ new = d.stack /\ paths = DOMAIN e.cache
      OBVIOUS
    <3>2. IsStack(stack, paths) /\ stack # <<>> /\ new = Front(stack)
      BY <1>2, <2>1, <3>1
    <3>3. Len(new) = Len(stack) - 1 /\ \A a \in 1..Len(new) : new[a] = stack[a]
      BY <3>2, StackPopped
    <3> QED
      BY <3>1, <3>3
  <2>3. ASSUME NEW m \in DOMAIN e.cache, NEW k \in 1..Len(script[m]),
               IsYetAt(e, m, k)
        PROVE  IsYetAt(d, m, k)
    <3>1. PICK a \in 1..n : e.stack[a].path = m /\ e.stack[a].pc <= k
      BY <2>3 DEF IsYetAt
    <3>2. Len(script[m]) \in Nat
      BY <1>4 DEF RunsAll
    <3>3. a # n
      BY <1>2, <1>3, <2>1, <3>1, <3>2
    <3>4. a \in 1..Len(d.stack)
      BY <1>2, <2>2, <3>3
    <3> QED
      BY <2>2, <3>1, <3>4 DEF IsYetAt
  <2> QED
    BY <2>1, <2>3 DEF RunsAll
<1>6. ASSUME NEW path, CallsFor(script, e, d, path) PROVE RunsAll(script, d)
  <2>1. /\ path \in Calls(script[Top(e).path]) /\ path \notin DOMAIN e.cache
        /\ d.stack = Append(e.stack, Called(path))
        /\ DOMAIN d.cache = DOMAIN e.cache \cup {path}
        /\ d.threw = (path \notin DOMAIN script)
    BY <1>6 DEF CallsFor
  <2>2. path \in DOMAIN script
    BY <1>2, <2>1 DEF Closed, RunsAll
  <2>3. ~d.threw
    BY <2>1, <2>2, Zenon
  <2>4. /\ Len(d.stack) = n + 1 /\ d.stack[Len(d.stack)] = Called(path)
        /\ \A a \in 1..n : d.stack[a] = e.stack[a]
    BY <1>2, <2>1, StackPushed
  <2>5. ASSUME NEW m \in DOMAIN e.cache, NEW k \in 1..Len(script[m]),
               IsYetAt(e, m, k)
        PROVE  IsYetAt(d, m, k)
    <3>1. PICK a \in 1..n : e.stack[a].path = m /\ e.stack[a].pc <= k
      BY <2>5 DEF IsYetAt
    <3>2. a \in 1..Len(d.stack)
      BY <1>2, <2>4
    <3> QED
      BY <2>4, <3>1, <3>2 DEF IsYetAt
  <2>6. ASSUME NEW k \in 1..Len(script[path]) PROVE IsYetAt(d, path, k)
    <3>1. Called(path).path = path /\ Called(path).pc = 1
      BY DEF Called
    <3>2. 1 <= k /\ Len(d.stack) \in 1..Len(d.stack)
      BY <1>2, <1>4, <2>2, <2>4
    <3> QED
      BY <2>4, <3>1, <3>2 DEF IsYetAt
  <2> QED
    BY <2>1, <2>2, <2>3, <2>5, <2>6 DEF RunsAll
<1>7. CASE GoesOn(script, e, d)
  <2>1. /\ \A path : AsksFor(Current(script, e), path) => path \in DOMAIN e.cache
        /\ d.stack = [e.stack EXCEPT ![n].pc = @ + 1]
        /\ DOMAIN d.cache = DOMAIN e.cache /\ ~d.threw
    BY <1>7 DEF GoesOn
  <2>2. PICK stack, new : stack = e.stack /\ new = d.stack
    OBVIOUS
  <2>3. /\ Len(new) = n
        /\ \A a \in 1..n : /\ new[a].path = stack[a].path
                           /\ a # n => new[a] = stack[a]
                           /\ a = n => new[a].pc = stack[a].pc + 1
    BY <1>2, <2>1, <2>2, StackStepped
  <2>4. ASSUME NEW m \in DOMAIN e.cache, NEW k \in 1..Len(script[m]), NEW path,
               AsksFor(script[m][k], path)
        PROVE  path \in DOMAIN e.cache \/ IsYetAt(d, m, k)
    <3>1. SUFFICES ASSUME IsYetAt(e, m, k)
                   PROVE  path \in DOMAIN e.cache \/ IsYetAt(d, m, k)
      BY <2>4 DEF RunsAll
    <3>2. PICK a \in 1..n : stack[a].path = m /\ stack[a].pc <= k
      BY <2>2, <3>1 DEF IsYetAt
    <3>3. /\ k \in Nat /\ a \in 1..Len(new) /\ new[a].path = m
          /\ stack[a].pc \in Nat
      BY <1>3, <1>4, <2>2, <2>3, <3>2 DEF RunsAll
    <3>4. CASE new[a].pc <= k
      BY <2>2, <3>3, <3>4 DEF IsYetAt
    <3>5. CASE ~(new[a].pc <= k)
      <4>1. a = n
        BY <2>3, <3>2, <3>5
      <4>2. stack[a].pc = k
        BY <2>3, <3>2, <3>3, <3>5, <4>1
      <4>3. Current(script, e) = script[m][k]
        BY <1>2, <2>2, <3>2, <4>1, <4>2 DEF Current
      <4> QED
        BY <2>1, <2>4, <4>3
    <3> QED
      BY <3>4, <3>5
  <2> QED
    BY <2>1, <2>4 DEF RunsAll
<1> QED
  BY <1>1, <1>5, <1>6, <1>7

(* While the verifier loads a bundle that parses                              *)
EngineRunsAll ==
    phase = "loading" /\ engine # NothingRun /\ Parses(bundle) =>
        RunsAll(bundle, engine)

(* What is loaded has all that its modules require and nothing is queued.     *)
LEMMA BundleClosed ==
    ASSUME BundleInv, phase = "loading"
    PROVE  Closed(bundle) /\ Known = Processed
<1>1. queue = <<>>
  BY DEF BundleInv, Emptied
<1>2. ToSet(queue) = {}
  BY <1>1, ShortCode
<1> QED
  BY <1>2 DEF BundleInv, Asked, Known, Closed, Processed

(* ... and so it is when the verifier's engine has ended.                     *)
LEMMA EngineRunsOnAll ==
    ASSUME BundlerInv, BundleInv, EnginesTyped, EngineRunsAll, [Next]_vars
    PROVE  EngineRunsAll'
<1>1. CASE StartEngine \/ RunEngine
  <2>1. /\ phase = "loading" /\ UNCHANGED <<phase, bundle>>
        /\ \/ engine' = Begun(bundle)
           \/ /\ engine # NothingRun /\ ~Ended(engine)
              /\ engine' = Step1(bundle, engine)
    BY <1>1 DEF StartEngine, RunEngine, bundlerVars
  <2>2. PICK d, b, e : d = engine' /\ b = bundle /\ e = engine
    OBVIOUS
  <2>3. ScriptOK(b) /\ Closed(b)
    BY <2>1, <2>2, BundleIsOK, BundleClosed
  <2>4. ASSUME Parses(b) PROVE RunsAll(b, d)
    <3>1. CASE d = Begun(b)
      BY <2>3, <2>4, <3>1, BegunRunsAll
    <3>2. CASE e # NothingRun /\ ~Ended(e) /\ d = Step1(b, e)
      <4>1. EngineTyped(e) /\ Grounded(b, e) /\ RunsAll(b, e)
        BY <2>1, <2>2, <2>4, <3>2 DEF EnginesTyped, EngineRunsAll
      <4> QED
        BY <2>3, <3>2, <4>1, StepRunsAll
    <3> QED
      BY <2>1, <2>2, <3>1, <3>2
  <2> QED
    BY <2>1, <2>2, <2>4 DEF EngineRunsAll
<1>2. CASE Bundling
  <2>1. /\ engine' = engine
        /\ phase' = "loading" => phase = "bundling"
    BY <1>2 DEF Bundling, BundlerNext, SkipProcessed, BundleStub, BundleFile,
       BundleFileFails, BundleCode, BundleCodeFails, Emit, Fail, Taking,
       BundlingPhases
  <2> QED
    BY <2>1 DEF EngineRunsAll, EnginesTyped
<1>3. CASE phase' # "loading" \/ UNCHANGED <<phase, bundle, engine>>
  BY <1>3 DEF EngineRunsAll
<1> QED
  BY <1>1, <1>2, <1>3
     DEF Next, vars, bundlerVars, pageVars, RefuseSpecification, Edit,
         AcceptSpecification, BundleAgain, NewDocument, RunPage, PageThrows,
         StateChanged, ExtractorsFail

(* A bundle that parses runs in the verifier without a module missing, and    *)
(* when it has ended every module of it has been called; none is in the       *)
(* bundle that is not required.                                               *)
THEOREM ModulesAllRun == Spec => []EveryModuleRuns
<1> DEFINE Inv == BundlerInv /\ BundleInv /\ EnginesTyped /\ EngineRunsAll
<1>1. SpecificationInit => Inv
  <2> SUFFICES ASSUME SpecificationInit PROVE Inv
    OBVIOUS
  <2>1. EnginesTyped /\ EngineRunsAll
    BY NothingTyped DEF EnginesTyped, EngineRunsAll, SpecificationInit, Init
  <2> QED
    BY <2>1, BundleBegins
<1>2. Inv /\ [Next]_vars => Inv'
  BY BundlerNextKeeps, BundleCompletes, EnginesStayTyped, EngineRunsOnAll
<1>3. Inv => EveryModuleRuns
  <2> SUFFICES ASSUME Inv, HasRun
               PROVE  ~engine.threw /\ DOMAIN bundle = DOMAIN engine.cache
    BY DEF EveryModuleRuns
  <2>1. RunsAll(bundle, engine) /\ engine.stack = <<>> /\ phase = "loading"
    BY DEF HasRun, EngineRunsAll, Ended, RunsAll
  <2>2. Closed(bundle) /\ Known = Processed
    BY <2>1, BundleClosed
  <2>3. HoldsCalls(DOMAIN engine.cache)
    <3> SUFFICES ASSUME NEW m \in DOMAIN engine.cache,
                        NEW path \in Calls(bundle[m])
                 PROVE  path \in DOMAIN engine.cache
      BY <2>1 DEF HoldsCalls, RunsAll
    <3>1. m \in DOMAIN bundle
      BY <2>1 DEF RunsAll
    <3>2. IsCode(bundle[m])
      BY <2>2, <3>1 DEF Closed
    <3>3. DOMAIN bundle[m] = 1..Len(bundle[m])
      BY <3>2, LenProperties DEF IsCode
    <3>4. PICK k \in 1..Len(bundle[m]) : AsksFor(bundle[m][k], path)
      BY <3>3 DEF Calls, ToSet, AsksFor
    <3>5. ~IsYetAt(engine, m, k)
      <4>1. Len(engine.stack) = 0
        BY <2>1
      <4> QED
        BY <4>1 DEF IsYetAt
    <3> QED
      BY <2>1, <3>4, <3>5 DEF RunsAll
  <2>4. DOMAIN bundle \subseteq DOMAIN engine.cache
    BY <2>2, <2>3 DEF BundleInv, Needed, Processed
  <2> QED
    BY <2>1, <2>4 DEF RunsAll
<1> QED
  BY <1>1, <1>2, <1>3, PTL DEF Spec

-----------------------------------------------------------------------------
(* What a module has exported                                                 *)

(* Code of known instructions, with the named exports at its end, ...         *)
Dos == {"mark", "require", "assign", "make", "export"}
InOrder(code) ==
    \A j, k \in 1..Len(code) :
        j < k /\ code[j].do = "export" /\ code[j].name \notin Hidden =>
            code[k].do = "export"
WellMade(script) ==
    \A m \in DOMAIN script :
        /\ IsCode(script[m]) /\ InOrder(script[m])
        /\ \A k \in 1..Len(script[m]) : script[m][k].do \in Dos

(* ... in scripts in which no modules require each other in a circle          *)
NoCircle(script) ==
    \A C \in SUBSET DOMAIN script :
        C # {} => \E m \in C : Calls(script[m]) \cap C = {}

(* A module that has run, the statements of a module that have, and who waits *)
(* for whom.                                                                  *)
Returned(e, f) ==
    f \in DOMAIN e.cache /\ \A a \in 1..Len(e.stack) : e.stack[a].path # f
Past(script, e, m) == {k \in 1..Len(script[m]) : ~IsYetAt(e, m, k)}
Waiting(script, e) ==
    \A a \in 1..Len(e.stack) :
        a + 1 \in 1..Len(e.stack) =>
            /\ e.stack[a].pc \in 1..Len(script[e.stack[a].path])
            /\ AsksFor(script[e.stack[a].path][e.stack[a].pc], e.stack[a + 1].path)

(* As far as what has run goes, and all but one module, nothing changes.      *)
SameReturned(e, d) == \A f : Returned(e, f) <=> Returned(d, f)
OthersAlone(e, d, path) ==
    \A m : m # path => d.cache[m] = e.cache[m] /\ d.locals[m] = e.locals[m]
Steps(e, d) == d.stack = [e.stack EXCEPT ![Len(e.stack)].pc = @ + 1]

(* A statement has had its effect: what it requires has run, and its module   *)
(* has by now what it bound, made, exported or copied.                        *)
Told(e, m, i) ==
    /\ i.do \in {"require", "assign"} => Returned(e, i.path)
    /\ i.do = "require" => \A n \in i.names \ Hidden :
          n \in DOMAIN e.locals[m] /\ e.locals[m][n] = At(e.cache[i.path], n)
    /\ i.do = "make" /\ i.name \notin Hidden =>
          /\ i.name \in DOMAIN e.locals[m]
          /\ e.locals[m][i.name] = Value(m, i.name, i.kind)
    /\ i.do = "export" /\ i.name \notin Hidden =>
          /\ i.name \in DOMAIN e.cache[m]
          /\ e.cache[m][i.name] = At(e.locals[m], i.name)
    /\ i.do = "assign" => (DOMAIN e.cache[i.path]) \ Hidden \subseteq DOMAIN e.cache[m]

(* The statement that an export of a module comes from                        *)
GivenBy(e, m, i, n) ==
    \/ i.do = "export" /\ i.name = n
    \/ /\ i.do = "assign" /\ Returned(e, i.path)
       /\ n \in DOMAIN e.cache[i.path] /\ e.cache[m][n] = e.cache[i.path][n]

Tells(e, m, J) ==
    /\ \A j \in J : Told(e, m, j)
    /\ \A n \in (DOMAIN e.cache[m]) \ Hidden : \E j \in J : GivenBy(e, m, j, n)
Ran(script, e, m) == {script[m][k] : k \in Past(script, e, m)}
TruthOf(script, e, m) == Tells(e, m, Ran(script, e, m))
Truthful(script, e) ==
    Waiting(script, e) /\ \A m \in DOMAIN e.cache : TruthOf(script, e, m)

(* The same exports but for the hidden                                        *)
Alike(a, b) ==
    \A n : n \notin Hidden =>
        /\ n \in DOMAIN a <=> n \in DOMAIN b
        /\ n \in DOMAIN a => a[n] = b[n]

(* What stays the same is alike.                                              *)
LEMMA AlikeItself == ASSUME NEW a PROVE Alike(a, a)
BY DEF Alike

(* What statements have done stays where only hidden exports change.          *)
LEMMA ToldStays ==
    ASSUME NEW e, NEW d, NEW m, Alike(e.cache[m], d.cache[m]),
           d.locals[m] = e.locals[m],
           \A f : Returned(e, f) => Returned(d, f) /\ Alike(e.cache[f], d.cache[f]),
           NEW i
    PROVE  /\ Told(e, m, i) => Told(d, m, i)
           /\ \A n \in (DOMAIN e.cache[m]) \ Hidden :
                 GivenBy(e, m, i, n) => GivenBy(d, m, i, n)
<1>1. ASSUME Told(e, m, i) PROVE Told(d, m, i)
  <2>1. i.do \in {"require", "assign"} =>
            Returned(d, i.path) /\ Alike(e.cache[i.path], d.cache[i.path])
    BY <1>1 DEF Told
  <2>2. i.do = "require" => \A n \in i.names \ Hidden :
            n \in DOMAIN d.locals[m] /\ d.locals[m][n] = At(d.cache[i.path], n)
    BY <1>1, <2>1 DEF Told, Alike, At
  <2>3. i.do = "make" /\ i.name \notin Hidden =>
            /\ i.name \in DOMAIN d.locals[m]
            /\ d.locals[m][i.name] = Value(m, i.name, i.kind)
    BY <1>1 DEF Told
  <2>4. i.do = "export" /\ i.name \notin Hidden =>
            /\ i.name \in DOMAIN d.cache[m]
            /\ d.cache[m][i.name] = At(d.locals[m], i.name)
    BY <1>1 DEF Told, Alike
  <2>5. i.do = "assign" =>
            (DOMAIN d.cache[i.path]) \ Hidden \subseteq DOMAIN d.cache[m]
    BY <1>1, <2>1 DEF Told, Alike
  <2> QED
    BY <2>1, <2>2, <2>3, <2>4, <2>5 DEF Told
<1>2. ASSUME NEW n \in (DOMAIN e.cache[m]) \ Hidden, GivenBy(e, m, i, n)
      PROVE  GivenBy(d, m, i, n)
  BY <1>2 DEF GivenBy, Alike
<1> QED
  BY <1>1, <1>2

(* The statements that have run when a module returns, ...                    *)
LEMMA PastOnReturn ==
    ASSUME NEW script, WellMade(script), NEW e, EngineTyped(e), e.stack # <<>>,
           \A a \in 1..Len(e.stack) : e.stack[a].path \in DOMAIN script,
           Top(e).pc > Len(script[Top(e).path]),
           NEW d, d.stack = Front(e.stack), DOMAIN d.cache = DOMAIN e.cache
    PROVE  /\ \A m \in DOMAIN script : Past(script, d, m) = Past(script, e, m)
           /\ \A f : Returned(e, f) => Returned(d, f)
           /\ Waiting(script, e) => Waiting(script, d)
<1> DEFINE n == Len(e.stack)
<1>1. /\ n \in Nat \ {0} /\ Top(e) = e.stack[n]
      /\ \A a \in 1..n : e.stack[a].pc \in Nat \ {0}
  <2>1. \A a \in 1..n : e.stack[a] \in [path : DOMAIN e.cache, pc : Nat \ {0}]
    BY ElementOfSeq DEF EngineTyped, IsStack
  <2> QED
    BY <2>1, StackTop DEF EngineTyped, Top
<1>2. /\ Len(d.stack) = n - 1
      /\ \A a \in 1..Len(d.stack) : d.stack[a] = e.stack[a]
  <2>1. PICK stack, new, paths :
           stack = e.stack /\ new = d.stack /\ paths = DOMAIN e.cache
    OBVIOUS
  <2>2. IsStack(stack, paths) /\ stack # <<>> /\ new = Front(stack)
    BY <2>1 DEF EngineTyped
  <2>3. Len(new) = Len(stack) - 1 /\ \A a \in 1..Len(new) : new[a] = stack[a]
    BY ONLY <2>2, StackPopped
  <2> QED
    BY <2>1, <2>3
<1>3. ASSUME NEW m \in DOMAIN script, NEW k \in 1..Len(script[m])
      PROVE  IsYetAt(d, m, k) <=> IsYetAt(e, m, k)
  <2>1. Len(script[m]) \in Nat
    BY LenProperties DEF WellMade, IsCode
  <2>2. ASSUME NEW a \in 1..n, e.stack[a].path = m, e.stack[a].pc <= k
        PROVE  a \in 1..Len(d.stack)
    <3>1. a # n
      BY <1>1, <2>1, <2>2
    <3> QED
      BY <1>1, <1>2, <3>1
  <2>3. \A a \in 1..Len(d.stack) : a \in 1..n
    BY <1>1, <1>2
  <2> QED
    BY <1>2, <2>2, <2>3 DEF IsYetAt
<1>4. \A f : Returned(e, f) => Returned(d, f)
  BY <1>1, <1>2 DEF Returned
<1>5. Waiting(script, e) => Waiting(script, d)
  <2>1. \A a : a \in 1..Len(d.stack) => a \in 1..n
    BY <1>1, <1>2
  <2> QED
    BY <1>2, <2>1 DEF Waiting
<1> QED
  BY <1>3, <1>4, <1>5 DEF Past

(* ... when it calls another, ...                                             *)
LEMMA PastOnCall ==
    ASSUME NEW script, WellMade(script), NEW e, EngineTyped(e), e.stack # <<>>,
           NEW path, path \notin DOMAIN e.cache, path \in DOMAIN script,
           Top(e).pc \in 1..Len(script[Top(e).path]),
           AsksFor(Current(script, e), path),
           NEW d, d.stack = Append(e.stack, Called(path)),
           DOMAIN d.cache = DOMAIN e.cache \cup {path}
    PROVE  /\ \A m \in DOMAIN e.cache : Past(script, d, m) = Past(script, e, m)
           /\ Past(script, d, path) = {}
           /\ \A f : Returned(e, f) => Returned(d, f)
           /\ Waiting(script, e) => Waiting(script, d)
<1> DEFINE n == Len(e.stack)
<1>1. /\ n \in Nat \ {0} /\ Top(e) = e.stack[n]
      /\ \A a \in 1..n : e.stack[a].path \in DOMAIN e.cache
  <2>1. \A a \in 1..n : e.stack[a] \in [path : DOMAIN e.cache, pc : Nat \ {0}]
    BY ElementOfSeq DEF EngineTyped, IsStack
  <2> QED
    BY <2>1, StackTop DEF EngineTyped, Top
<1>2. /\ Len(d.stack) = n + 1 /\ d.stack[n + 1] = Called(path)
      /\ \A a \in 1..n : d.stack[a] = e.stack[a]
  BY StackPushed DEF EngineTyped
<1>3. Called(path).path = path /\ Called(path).pc = 1
  BY DEF Called
<1>4. \A a : a \in 1..Len(d.stack) <=> a \in 1..n \/ a = n + 1
  BY <1>1, <1>2
<1>5. ASSUME NEW m \in DOMAIN e.cache, NEW k
      PROVE  IsYetAt(d, m, k) <=> IsYetAt(e, m, k)
  BY <1>2, <1>3, <1>4 DEF IsYetAt
<1>6. ASSUME NEW k \in 1..Len(script[path]) PROVE IsYetAt(d, path, k)
  <2>1. 1 <= k
    BY LenProperties DEF WellMade, IsCode
  <2> QED
    BY <1>2, <1>3, <1>4, <2>1 DEF IsYetAt
<1>7. \A f : Returned(e, f) => Returned(d, f)
  BY <1>2, <1>3, <1>4 DEF Returned
<1>8. ASSUME Waiting(script, e) PROVE Waiting(script, d)
  <2> SUFFICES ASSUME NEW a \in 1..Len(d.stack), a + 1 \in 1..Len(d.stack)
               PROVE  /\ d.stack[a].pc \in 1..Len(script[d.stack[a].path])
                      /\ AsksFor(script[d.stack[a].path][d.stack[a].pc],
                                 d.stack[a + 1].path)
    BY DEF Waiting
  <2>1. a \in 1..n /\ (a + 1 \in 1..n \/ a = n)
    BY <1>1, <1>2
  <2>2. CASE a + 1 \in 1..n
    BY <1>2, <1>8, <2>1, <2>2 DEF Waiting
  <2>3. CASE a = n
    BY <1>1, <1>2, <1>3, <2>1, <2>3 DEF Current
  <2> QED
    BY <2>1, <2>2, <2>3
<1> QED
  BY <1>5, <1>6, <1>7, <1>8 DEF Past

(* ... and when it goes on.                                                   *)
PastGrows(script, e, d, path, pc) ==
    /\ \A m \in DOMAIN script : m # path => Past(script, d, m) = Past(script, e, m)
    /\ Past(script, d, path) = Past(script, e, path) \cup {pc}
    /\ \A k \in Past(script, e, path) : k < pc

LEMMA PastOnMove ==
    ASSUME NEW script, WellMade(script), NEW e, EngineTyped(e), e.stack # <<>>,
           \A a \in 1..Len(e.stack) : e.stack[a].path \in DOMAIN script,
           Top(e).pc \in 1..Len(script[Top(e).path]),
           NEW d, Steps(e, d),
           DOMAIN d.cache = DOMAIN e.cache
    PROVE  /\ PastGrows(script, e, d, Top(e).path, Top(e).pc)
           /\ SameReturned(e, d)
           /\ ~Returned(e, Top(e).path)
           /\ Waiting(script, e) => Waiting(script, d)
<1> DEFINE n == Len(e.stack)
           path == Top(e).path
           pc == Top(e).pc
<1>1. /\ n \in Nat \ {0} /\ Top(e) = e.stack[n] /\ n \in 1..n
      /\ \A a \in 1..n : e.stack[a].pc \in Nat \ {0}
      /\ \A a \in 1..n : e.stack[a].path = path => a = n
  <2>1. \A a \in 1..n : e.stack[a] \in [path : DOMAIN e.cache, pc : Nat \ {0}]
    BY ElementOfSeq DEF EngineTyped, IsStack
  <2>2. n \in Nat \ {0} /\ Top(e) = e.stack[n]
    BY StackTop DEF EngineTyped, Top
  <2>3. n \in 1..n
    BY <2>2
  <2>4. \A a \in 1..n : e.stack[a].path = e.stack[n].path => a = n
    BY <2>3 DEF EngineTyped, IsStack
  <2> QED
    BY <2>1, <2>2, <2>3, <2>4
<1>2. /\ Len(d.stack) = n
      /\ \A a \in 1..n : /\ d.stack[a].path = e.stack[a].path
                         /\ a # n => d.stack[a] = e.stack[a]
                         /\ a = n => d.stack[a].pc = e.stack[a].pc + 1
  BY StackStepped DEF EngineTyped, Steps
<1>3. ASSUME NEW m \in DOMAIN script, m # path, NEW k
      PROVE  IsYetAt(d, m, k) <=> IsYetAt(e, m, k)
  BY <1>1, <1>2, <1>3 DEF IsYetAt
<1>4. path \in DOMAIN script /\ Len(script[path]) \in Nat
  BY <1>1, LenProperties DEF WellMade, IsCode
<1>5. ASSUME NEW k \in 1..Len(script[path])
      PROVE  /\ IsYetAt(e, path, k) <=> pc <= k
             /\ IsYetAt(d, path, k) <=> pc + 1 <= k
  BY <1>1, <1>2 DEF IsYetAt
<1>6. \A f : Returned(e, f) <=> Returned(d, f)
  BY <1>2 DEF Returned
<1>7. ~Returned(e, path)
  BY <1>1 DEF Returned
<1>8. Waiting(script, e) => Waiting(script, d)
  <2>1. \A a \in 1..n : a + 1 \in 1..n => a # n
    BY <1>1
  <2> QED
    BY <1>2, <2>1 DEF Waiting
<1>9. pc \in 1..Len(script[path])
  OBVIOUS
<1> HIDE DEF n, path, pc
<1>10. Past(script, d, path) = Past(script, e, path) \cup {pc}
  <2>1. \A k \in 1..Len(script[path]) : ~(pc + 1 <= k) <=> ~(pc <= k) \/ k = pc
    BY <1>4, <1>9
  <2> QED
    BY <1>5, <1>9, <2>1 DEF Past
<1>11. \A k \in Past(script, e, path) : k < pc
  BY <1>4, <1>5, <1>9 DEF Past
<1> QED
  BY <1>3, <1>6, <1>7, <1>8, <1>10, <1>11 DEF PastGrows, SameReturned, Past, path, pc

(* What a module on the stack requires, if it was called, has returned: it    *)
(* would be in a circle otherwise.                                            *)
LEMMA RequiredHasReturned ==
    ASSUME NEW script, WellMade(script), NoCircle(script),
           NEW e, EngineTyped(e), e.stack # <<>>,
           \A a \in 1..Len(e.stack) : e.stack[a].path \in DOMAIN script,
           Top(e).pc \in 1..Len(script[Top(e).path]), Waiting(script, e),
           NEW path \in DOMAIN e.cache, AsksFor(Current(script, e), path)
    PROVE  Returned(e, path)
<1> DEFINE n == Len(e.stack)
<1>1. n \in Nat \ {0} /\ Top(e) = e.stack[n]
  BY StackTop DEF EngineTyped, Top
<1>2. ASSUME NEW m \in DOMAIN script, NEW k \in 1..Len(script[m]), NEW p,
             AsksFor(script[m][k], p)
      PROVE  p \in Calls(script[m])
  <2>1. DOMAIN script[m] = 1..Len(script[m])
    BY LenProperties DEF WellMade, IsCode
  <2> QED
    BY <1>2, <2>1 DEF Calls, AsksFor, ToSet
<1> SUFFICES ASSUME NEW b \in 1..n, e.stack[b].path = path PROVE FALSE
  BY DEF Returned
<1> DEFINE C == {e.stack[a].path : a \in b..n}
<1>3. C \in SUBSET DOMAIN script /\ path \in C
  <2>1. b \in b..n /\ \A a \in b..n : a \in 1..n
    BY <1>1
  <2> QED
    BY <2>1
<1>4. ASSUME NEW m \in C PROVE Calls(script[m]) \cap C # {}
  <2>1. PICK a \in b..n : e.stack[a].path = m
    OBVIOUS
  <2>2. a \in 1..n /\ m \in DOMAIN script
    BY <1>1, <1>3, <2>1
  <2>3. CASE a = n
    <3>1. path \in Calls(script[m])
      BY <1>1, <1>2, <2>1, <2>2, <2>3 DEF Current
    <3> QED
      BY <1>3, <3>1
  <2>4. CASE a # n
    <3>1. a + 1 \in b..n /\ a + 1 \in 1..n
      BY <1>1, <2>1, <2>4
    <3>2. /\ e.stack[a].pc \in 1..Len(script[m])
          /\ AsksFor(script[m][e.stack[a].pc], e.stack[a + 1].path)
      BY <2>1, <2>2, <3>1 DEF Waiting
    <3>3. e.stack[a + 1].path \in Calls(script[m])
      BY <1>2, <2>2, <3>2
    <3>4. e.stack[a + 1].path \in C
      BY <3>1
    <3> QED
      BY <3>3, <3>4
  <2> QED
    BY <2>3, <2>4
<1> HIDE DEF C
<1> QED
  BY <1>3, <1>4 DEF NoCircle

(* What a statement does to the module on top                                 *)
LEMMA EffectDoes ==
    ASSUME NEW e, EngineTyped(e), e.stack # <<>>, NEW i, i.do \in Dos,
           NEW d, d = Moved(Effect(e, i), Len(e.stack)),
           NEW path, path = Top(e).path
    PROVE  /\ path \in DOMAIN e.cache
           /\ i.do = "require" =>
                 /\ d.cache = e.cache
                 /\ d.locals = [e.locals EXCEPT ![path] =
                                   Bind(e.locals[path], e.cache[i.path], i.names)]
           /\ i.do = "make" =>
                 /\ d.cache = e.cache
                 /\ d.locals = [e.locals EXCEPT ![path] =
                                   Put(e.locals[path], i.name,
                                       Value(path, i.name, i.kind))]
           /\ i.do \notin {"require", "make"} => d.locals = e.locals
           /\ i.do = "mark" =>
                 d.cache = [e.cache EXCEPT ![path] =
                              Put(e.cache[path], MarkerName, Marker)]
           /\ i.do = "assign" =>
                 d.cache = [e.cache EXCEPT ![path] =
                              Assign(e.cache[path], e.cache[i.path])]
           /\ i.do = "export" =>
                 d.cache = [e.cache EXCEPT ![path] =
                              Put(e.cache[path], i.name, At(e.locals[path], i.name))]
<1>. PICK made : made = Effect(e, i)
  OBVIOUS
<1>0. path \in DOMAIN e.cache
  BY StackTop DEF EngineTyped, Top
<1>1. d.cache = made.cache /\ d.locals = made.locals
  <2>1. IsEngine(made) /\ d = Moved(made, Len(e.stack))
    BY EffectKeeps DEF EngineTyped
  <2> QED
    BY ONLY <2>1 DEF Moved, IsEngine
<1>2. CASE i.do = "require"
  <2>1. /\ made.locals = [e.locals EXCEPT ![path] =
                            Bind(e.locals[path], e.cache[i.path], i.names)]
        /\ made.cache = e.cache
    BY <1>2 DEF Effect, EngineTyped, IsEngine
  <2> QED
    BY <1>0, <1>1, <1>2, <2>1
<1>3. CASE i.do = "make"
  <2>1. /\ made.locals = [e.locals EXCEPT ![path] =
                            Put(e.locals[path], i.name, Value(path, i.name, i.kind))]
        /\ made.cache = e.cache
    BY <1>3 DEF Effect, EngineTyped, IsEngine
  <2> QED
    BY <1>0, <1>1, <1>3, <2>1
<1>4. CASE i.do = "mark"
  <2>1. /\ made.cache = [e.cache EXCEPT ![path] =
                            Put(e.cache[path], MarkerName, Marker)]
        /\ made.locals = e.locals
    BY <1>4 DEF Effect, EngineTyped, IsEngine
  <2> QED
    BY <1>0, <1>1, <1>4, <2>1
<1>5. CASE i.do = "assign"
  <2>1. /\ made.cache = [e.cache EXCEPT ![path] =
                            Assign(e.cache[path], e.cache[i.path])]
        /\ made.locals = e.locals
    BY <1>5 DEF Effect, EngineTyped, IsEngine
  <2> QED
    BY <1>0, <1>1, <1>5, <2>1
<1>6. CASE i.do = "export"
  <2>1. /\ made.cache = [e.cache EXCEPT ![path] =
                            Put(e.cache[path], i.name, At(e.locals[path], i.name))]
        /\ made.locals = e.locals
    BY <1>6 DEF Effect, EngineTyped, IsEngine
  <2> QED
    BY <1>0, <1>1, <1>6, <2>1
<1> QED
  BY <1>2, <1>3, <1>4, <1>5, <1>6 DEF Dos

(* A return changes no export but the default.                                *)
LEMMA InteropAlike ==
    ASSUME NEW path, NEW exports PROVE Alike(exports, Interop(path, exports))
BY DEF Alike, Interop, Put, Hidden

(* A new statement of the module on top, after others that have had their     *)
(* effect and that bind other names                                           *)
Follows(i, J) ==
    /\ \A j \in J : j.do = "export" /\ j.name \notin Hidden => i.do = "export"
    /\ \A j \in J : (Bound(j) \cap Bound(i)) \ {"default"} = {}

LEMMA EffectTells ==
    ASSUME NEW e, EngineTyped(e), e.stack # <<>>, NEW i, i.do \in Dos,
           NEW d, d = Moved(Effect(e, i), Len(e.stack)),
           NEW path, path = Top(e).path, ~Returned(e, path),
           SameReturned(e, d),
           i.do \in {"require", "assign"} => Returned(e, i.path),
           NEW J, Tells(e, path, J), Follows(i, J)
    PROVE  /\ Tells(d, path, J \cup {i})
           /\ DOMAIN d.cache = DOMAIN e.cache
           /\ OthersAlone(e, d, path)
<1> SUFFICES
        ASSUME \A j \in J : Told(e, path, j),
               \A n \in (DOMAIN e.cache[path]) \ Hidden :
                  \E j \in J : GivenBy(e, path, j, n),
               \A j \in J : j.do = "export" /\ j.name \notin Hidden => i.do = "export",
               \A j \in J : (Bound(j) \cap Bound(i)) \ {"default"} = {},
               \A f : Returned(e, f) <=> Returned(d, f)
        PROVE  /\ \A j \in J \cup {i} : Told(d, path, j)
               /\ \A n \in (DOMAIN d.cache[path]) \ Hidden :
                     \E j \in J \cup {i} : GivenBy(d, path, j, n)
               /\ DOMAIN d.cache = DOMAIN e.cache
               /\ \A m : m # path => /\ d.cache[m] = e.cache[m]
                                     /\ d.locals[m] = e.locals[m]
  BY Zenon DEF Tells, Follows, SameReturned, OthersAlone
<1>a. /\ path \in DOMAIN e.cache
      /\ i.do = "require" =>
            /\ d.cache = e.cache
            /\ d.locals = [e.locals EXCEPT ![path] =
                              Bind(e.locals[path], e.cache[i.path], i.names)]
      /\ i.do = "make" =>
            /\ d.cache = e.cache
            /\ d.locals = [e.locals EXCEPT ![path] =
                              Put(e.locals[path], i.name,
                                  Value(path, i.name, i.kind))]
      /\ i.do \notin {"require", "make"} => d.locals = e.locals
      /\ i.do = "mark" =>
            d.cache = [e.cache EXCEPT ![path] =
                         Put(e.cache[path], MarkerName, Marker)]
      /\ i.do = "assign" =>
            d.cache = [e.cache EXCEPT ![path] =
                         Assign(e.cache[path], e.cache[i.path])]
      /\ i.do = "export" =>
            d.cache = [e.cache EXCEPT ![path] =
                         Put(e.cache[path], i.name, At(e.locals[path], i.name))]
  BY ONLY EffectDoes, EngineTyped(e), e.stack # <<>>, i.do \in Dos,
          d = Moved(Effect(e, i), Len(e.stack)), path = Top(e).path
<1>0. path \in DOMAIN e.cache /\ path \in DOMAIN e.locals
  BY <1>a DEF EngineTyped
<1>1. CASE i.do \in {"require", "make"}
  <2> DEFINE names == IF i.do = "require"
                      THEN Bind(e.locals[path], e.cache[i.path], i.names)
                      ELSE Put(e.locals[path], i.name, Value(path, i.name, i.kind))
  <2>1. d.cache = e.cache /\ d.locals = [e.locals EXCEPT ![path] = names]
    BY <1>1, <1>a
  <2>2. /\ d.locals[path] = names
        /\ \A m : m # path => d.locals[m] = e.locals[m]
    BY <1>0, <2>1
  <2>3. \A n \in DOMAIN e.locals[path] : n \notin Bound(i) =>
            n \in DOMAIN names /\ names[n] = e.locals[path][n]
    BY <1>1 DEF Bound, Bind, Put
  <2>4. /\ i.do = "require" => \A n \in i.names :
              n \in DOMAIN names /\ names[n] = At(e.cache[i.path], n)
        /\ i.do = "make" => /\ i.name \in DOMAIN names
                            /\ names[i.name] = Value(path, i.name, i.kind)
    BY DEF Bind, Put
  <2> HIDE DEF names
  <2>5. Told(d, path, i)
    BY <1>1, <2>1, <2>2, <2>4 DEF Told
  <2>6. ASSUME NEW j \in J PROVE Told(d, path, j)
    <3>1. Told(e, path, j) /\ ~(j.do = "export" /\ j.name \notin Hidden)
      BY <1>1
    <3>2. \A n \in Bound(j) : n \notin Hidden => n \notin Bound(i)
      BY DEF Hidden
    <3>4. j.do = "require" => \A n \in j.names \ Hidden :
              /\ n \in DOMAIN d.locals[path]
              /\ d.locals[path][n] = At(d.cache[j.path], n)
      <4> SUFFICES ASSUME j.do = "require", NEW n \in j.names \ Hidden
                   PROVE  /\ n \in DOMAIN d.locals[path]
                          /\ d.locals[path][n] = At(d.cache[j.path], n)
        OBVIOUS
      <4>1. n \notin Bound(i)
        BY <3>2 DEF Bound
      <4>2. /\ n \in DOMAIN e.locals[path]
            /\ e.locals[path][n] = At(e.cache[j.path], n)
        BY <3>1 DEF Told
      <4> QED
        BY <2>1, <2>2, <2>3, <4>1, <4>2
    <3>5. j.do = "make" /\ j.name \notin Hidden =>
              /\ j.name \in DOMAIN d.locals[path]
              /\ d.locals[path][j.name] = Value(path, j.name, j.kind)
      <4> SUFFICES ASSUME j.do = "make", j.name \notin Hidden
                   PROVE  /\ j.name \in DOMAIN d.locals[path]
                          /\ d.locals[path][j.name] = Value(path, j.name, j.kind)
        OBVIOUS
      <4>1. j.name \notin Bound(i)
        BY <3>2 DEF Bound
      <4>2. /\ j.name \in DOMAIN e.locals[path]
            /\ e.locals[path][j.name] = Value(path, j.name, j.kind)
        BY <3>1 DEF Told
      <4> QED
        BY <2>2, <2>3, <4>1, <4>2
    <3> QED
      BY <2>1, <3>1, <3>4, <3>5 DEF Told
  <2>7. \A n \in (DOMAIN d.cache[path]) \ Hidden :
            \E j \in J \cup {i} : GivenBy(d, path, j, n)
    BY <2>1 DEF GivenBy
  <2> QED
    BY <2>1, <2>2, <2>5, <2>6, <2>7
<1>2. ASSUME i.do \notin {"require", "make"},
             NEW exports, d.cache = [e.cache EXCEPT ![path] = exports],
             \A n \in (DOMAIN e.cache[path]) \ Hidden : n \in DOMAIN exports,
             \A n \in (DOMAIN exports) \ Hidden :
                 \/ GivenBy(d, path, i, n)
                 \/ n \in DOMAIN e.cache[path] /\ exports[n] = e.cache[path][n],
             Told(d, path, i),
             \A j \in J : j.do = "export" /\ j.name \notin Hidden =>
                 \/ exports[j.name] = e.cache[path][j.name]
                 \/ exports[j.name] = At(e.locals[path], j.name)
      PROVE  /\ \A j \in J \cup {i} : Told(d, path, j)
             /\ \A n \in (DOMAIN d.cache[path]) \ Hidden :
                   \E j \in J \cup {i} : GivenBy(d, path, j, n)
             /\ DOMAIN d.cache = DOMAIN e.cache
             /\ \A m : m # path => /\ d.cache[m] = e.cache[m]
                                   /\ d.locals[m] = e.locals[m]
  <2>1. d.locals = e.locals
    BY <1>2, <1>a
  <2>2. /\ d.cache[path] = exports /\ DOMAIN d.cache = DOMAIN e.cache
        /\ \A m : m # path => d.cache[m] = e.cache[m]
    BY <1>0, <1>2
  <2>3. \A f : Returned(e, f) => Returned(d, f) /\ d.cache[f] = e.cache[f]
    BY <2>2
  <2>4. ASSUME NEW j \in J PROVE Told(d, path, j)
    <3>1. Told(e, path, j)
      OBVIOUS
    <3>2. j.do \in {"require", "assign"} =>
              Returned(d, j.path) /\ d.cache[j.path] = e.cache[j.path]
      BY <2>3, <3>1 DEF Told
    <3>3. j.do = "require" => \A n \in j.names \ Hidden :
              /\ n \in DOMAIN d.locals[path]
              /\ d.locals[path][n] = At(d.cache[j.path], n)
      BY <2>1, <3>1, <3>2 DEF Told
    <3>4. j.do = "make" /\ j.name \notin Hidden =>
              /\ j.name \in DOMAIN d.locals[path]
              /\ d.locals[path][j.name] = Value(path, j.name, j.kind)
      BY <2>1, <3>1 DEF Told
    <3>5. j.do = "export" /\ j.name \notin Hidden =>
              /\ j.name \in DOMAIN d.cache[path]
              /\ d.cache[path][j.name] = At(d.locals[path], j.name)
      BY <1>2, <2>1, <2>2, <3>1 DEF Told
    <3>6. j.do = "assign" =>
              (DOMAIN d.cache[j.path]) \ Hidden \subseteq DOMAIN d.cache[path]
      BY <1>2, <2>2, <3>1, <3>2 DEF Told
    <3> QED
      BY <3>2, <3>3, <3>4, <3>5, <3>6 DEF Told
  <2>5. ASSUME NEW n \in (DOMAIN d.cache[path]) \ Hidden
        PROVE  \E j \in J \cup {i} : GivenBy(d, path, j, n)
    <3>1. CASE GivenBy(d, path, i, n)
      BY <3>1
    <3>2. CASE n \in DOMAIN e.cache[path] /\ exports[n] = e.cache[path][n]
      <4>1. PICK j \in J : GivenBy(e, path, j, n)
        BY <3>2
      <4>2. GivenBy(d, path, j, n)
        BY <2>2, <2>3, <3>2, <4>1 DEF GivenBy
      <4> QED
        BY <4>2
    <3> QED
      BY <1>2, <2>2, <3>1, <3>2
  <2> QED
    BY <1>2, <2>1, <2>2, <2>4, <2>5
<1>3. CASE i.do = "mark"
  <2> DEFINE exports == Put(e.cache[path], MarkerName, Marker)
  <2>1. d.cache = [e.cache EXCEPT ![path] = exports]
    BY <1>3, <1>a
  <2>2. /\ \A n \in DOMAIN e.cache[path] : n \in DOMAIN exports
        /\ \A n : n \notin Hidden => exports[n] = e.cache[path][n] \/ n \notin DOMAIN exports
        /\ \A n \in (DOMAIN exports) \ Hidden :
              n \in DOMAIN e.cache[path] /\ exports[n] = e.cache[path][n]
    BY DEF Put, Hidden
  <2>3. Told(d, path, i)
    BY <1>3 DEF Told
  <2>4. \A j \in J : j.do = "export" /\ j.name \notin Hidden =>
            exports[j.name] = e.cache[path][j.name]
    BY <2>2 DEF Told
  <2> HIDE DEF exports
  <2> QED
    BY <1>2, <1>3, <2>1, <2>2, <2>3, <2>4
<1>4. CASE i.do = "assign"
  <2> DEFINE exports == Assign(e.cache[path], e.cache[i.path])
  <2>1. d.cache = [e.cache EXCEPT ![path] = exports]
    BY <1>4, <1>a
  <2>2. /\ DOMAIN exports = (DOMAIN e.cache[path]) \cup DOMAIN e.cache[i.path]
        /\ \A n \in DOMAIN exports :
              exports[n] = IF n \in DOMAIN e.cache[i.path]
                           THEN e.cache[i.path][n] ELSE e.cache[path][n]
    BY DEF Assign
  <2> HIDE DEF exports
  <2>3. /\ Returned(d, i.path) /\ i.path # path
        /\ d.cache[i.path] = e.cache[i.path] /\ d.cache[path] = exports
    BY <1>0, <1>4, <2>1
  <2>4. Told(d, path, i)
    BY <1>4, <2>2, <2>3 DEF Told
  <2>5. ASSUME NEW n \in (DOMAIN exports) \ Hidden
        PROVE  \/ GivenBy(d, path, i, n)
               \/ n \in DOMAIN e.cache[path] /\ exports[n] = e.cache[path][n]
    BY <1>4, <2>2, <2>3 DEF GivenBy
  <2>6. \A j \in J : ~(j.do = "export" /\ j.name \notin Hidden)
    BY <1>4
  <2> QED
    BY <1>2, <1>4, <2>1, <2>2, <2>4, <2>5, <2>6
<1>5. CASE i.do = "export"
  <2> DEFINE exports == Put(e.cache[path], i.name, At(e.locals[path], i.name))
  <2>1. d.cache = [e.cache EXCEPT ![path] = exports]
    BY <1>5, <1>a
  <2>2. /\ DOMAIN exports = (DOMAIN e.cache[path]) \cup {i.name}
        /\ \A n \in DOMAIN exports :
              exports[n] = IF n = i.name THEN At(e.locals[path], i.name)
                           ELSE e.cache[path][n]
    BY DEF Put
  <2> HIDE DEF exports
  <2>3. d.cache[path] = exports /\ d.locals = e.locals
    BY <1>0, <1>5, <2>1, <1>a
  <2>4. Told(d, path, i)
    BY <1>5, <2>2, <2>3 DEF Told
  <2>5. ASSUME NEW n \in (DOMAIN exports) \ Hidden
        PROVE  \/ GivenBy(d, path, i, n)
               \/ n \in DOMAIN e.cache[path] /\ exports[n] = e.cache[path][n]
    BY <1>5, <2>2 DEF GivenBy
  <2>6. \A j \in J : j.do = "export" /\ j.name \notin Hidden =>
            \/ exports[j.name] = e.cache[path][j.name]
            \/ exports[j.name] = At(e.locals[path], j.name)
    BY <2>2 DEF Told
  <2> QED
    BY <1>2, <1>5, <2>1, <2>2, <2>4, <2>5, <2>6
<1> QED
  BY <1>1, <1>3, <1>4, <1>5 DEF Dos

(* A module that runs nothing keeps what is so of it.                         *)
LEMMA TruthStays ==
    ASSUME NEW script, NEW e, NEW d, NEW m, TruthOf(script, e, m),
           Past(script, d, m) = Past(script, e, m),
           Alike(e.cache[m], d.cache[m]), d.locals[m] = e.locals[m],
           \A f : Returned(e, f) => Returned(d, f) /\ Alike(e.cache[f], d.cache[f])
    PROVE  TruthOf(script, d, m)
<1>1. PICK J : J = Ran(script, e, m) /\ J = Ran(script, d, m)
  BY DEF Ran
<1>2. Tells(e, m, J)
  BY <1>1 DEF TruthOf
<1>3. ASSUME NEW j \in J PROVE Told(d, m, j)
  <2>1. Told(e, m, j)
    BY <1>2 DEF Tells
  <2> QED
    BY <2>1, ToldStays
<1>4. ASSUME NEW n \in (DOMAIN d.cache[m]) \ Hidden
      PROVE  \E j \in J : GivenBy(d, m, j, n)
  <2>1. n \in (DOMAIN e.cache[m]) \ Hidden
    BY DEF Alike
  <2>2. PICK j \in J : GivenBy(e, m, j, n)
    BY <1>2, <2>1 DEF Tells
  <2>3. GivenBy(d, m, j, n)
    BY <2>1, <2>2, ToldStays
  <2> QED
    BY <2>3
<1>5. Tells(d, m, J)
  BY <1>3, <1>4 DEF Tells
<1> QED
  BY <1>1, <1>5 DEF TruthOf

(* Every step keeps it: the return of a module, ...                           *)
LEMMA ReturnTruthful ==
    ASSUME NEW script, WellMade(script), NEW e, EngineTyped(e), e.stack # <<>>,
           \A a \in 1..Len(e.stack) : e.stack[a].path \in DOMAIN script,
           DOMAIN e.cache \subseteq DOMAIN script, Truthful(script, e),
           Top(e).pc > Len(script[Top(e).path]), NEW d, d = Return(e)
    PROVE  Truthful(script, d)
<1>1. PICK path : path = Top(e).path
  OBVIOUS
<1>2. path \in DOMAIN e.cache
  BY <1>1, StackTop DEF EngineTyped, Top
<1>3. /\ d.stack = Front(e.stack) /\ d.locals = e.locals
      /\ d.cache = [e.cache EXCEPT ![path] = Interop(path, e.cache[path])]
  BY <1>1 DEF Return, EngineTyped, IsEngine
<1>4. /\ \A m \in DOMAIN script : Past(script, d, m) = Past(script, e, m)
      /\ \A f : Returned(e, f) => Returned(d, f)
      /\ Waiting(script, e) => Waiting(script, d)
  <2>1. DOMAIN d.cache = DOMAIN e.cache
    BY <1>3
  <2> QED
    BY <1>3, <2>1, PastOnReturn
<1>5. ASSUME NEW f \in DOMAIN e.cache PROVE Alike(e.cache[f], d.cache[f])
  <2>1. PICK now, new : now = e.cache[f] /\ new = d.cache[f]
    OBVIOUS
  <2>2. new = now \/ new = Interop(path, now)
    BY <1>3, <2>1
  <2>3. Alike(now, new)
    BY ONLY <2>2, InteropAlike, AlikeItself
  <2> QED
    BY <2>1, <2>3
<1>6. \A f : Returned(e, f) => Returned(d, f) /\ Alike(e.cache[f], d.cache[f])
  BY <1>4, <1>5 DEF Returned
<1>7. ASSUME NEW m \in DOMAIN e.cache PROVE TruthOf(script, d, m)
  <2>1. /\ TruthOf(script, e, m) /\ Past(script, d, m) = Past(script, e, m)
        /\ Alike(e.cache[m], d.cache[m]) /\ d.locals[m] = e.locals[m]
    BY <1>3, <1>4, <1>5 DEF Truthful
  <2> QED
    BY ONLY <1>6, <2>1, TruthStays
<1> QED
  BY <1>3, <1>4, <1>7 DEF Truthful

(* ... the call of another, ...                                               *)
LEMMA CallTruthful ==
    ASSUME NEW script, WellMade(script), NEW e, EngineTyped(e), e.stack # <<>>,
           DOMAIN e.cache \subseteq DOMAIN script, Truthful(script, e),
           NEW path, path \notin DOMAIN e.cache, path \in DOMAIN script,
           Top(e).pc \in 1..Len(script[Top(e).path]),
           AsksFor(Current(script, e), path),
           NEW d, d = RequirePath(script, e, path)
    PROVE  Truthful(script, d)
<1>1. PICK none : none = <<>>
  OBVIOUS
<1>2. DOMAIN none = {}
  BY <1>1
<1>3. /\ d.stack = Append(e.stack, Called(path))
      /\ d.cache = Put(e.cache, path, none) /\ d.locals = Put(e.locals, path, none)
  BY <1>1 DEF RequirePath, EngineTyped, IsEngine
<1>4. /\ DOMAIN d.cache = DOMAIN e.cache \cup {path} /\ d.cache[path] = none
      /\ \A m \in DOMAIN e.cache : /\ d.cache[m] = e.cache[m]
                                  /\ d.locals[m] = e.locals[m]
  BY <1>3 DEF Put, EngineTyped
<1>5. /\ \A m \in DOMAIN e.cache : Past(script, d, m) = Past(script, e, m)
      /\ Past(script, d, path) = {}
      /\ \A f : Returned(e, f) => Returned(d, f)
      /\ Waiting(script, e) => Waiting(script, d)
  BY <1>3, <1>4, PastOnCall
<1>6. \A f : Returned(e, f) => Returned(d, f) /\ Alike(e.cache[f], d.cache[f])
  BY <1>4, <1>5 DEF Returned, Alike
<1>7. ASSUME NEW m \in DOMAIN e.cache PROVE TruthOf(script, d, m)
  <2>1. /\ TruthOf(script, e, m) /\ Past(script, d, m) = Past(script, e, m)
        /\ Alike(e.cache[m], d.cache[m]) /\ d.locals[m] = e.locals[m]
    BY <1>4, <1>5 DEF Truthful, Alike
  <2> QED
    BY ONLY <1>6, <2>1, TruthStays
<1>8. TruthOf(script, d, path)
  BY <1>2, <1>4, <1>5 DEF TruthOf, Tells, Ran
<1> QED
  BY <1>4, <1>5, <1>7, <1>8 DEF Truthful

(* ... and a statement that has its effect.                                   *)
LEMMA MoveTruthful ==
    ASSUME NEW script, WellMade(script), NoCircle(script), Parses(script),
           NEW e, EngineTyped(e), e.stack # <<>>,
           \A a \in 1..Len(e.stack) : e.stack[a].path \in DOMAIN script,
           DOMAIN e.cache \subseteq DOMAIN script, Truthful(script, e),
           Top(e).pc \in 1..Len(script[Top(e).path]),
           \A f : AsksFor(Current(script, e), f) => f \in DOMAIN e.cache,
           NEW d, d = Moved(Effect(e, Current(script, e)), Len(e.stack)),
           Steps(e, d),
           DOMAIN d.cache = DOMAIN e.cache
    PROVE  Truthful(script, d)
<1>1. PICK path, pc, i : /\ path = Top(e).path /\ pc = Top(e).pc
                         /\ i = Current(script, e)
  OBVIOUS
<1>2. /\ path \in DOMAIN e.cache /\ path \in DOMAIN script
      /\ pc \in 1..Len(script[path]) /\ i = script[path][pc]
  <2>1. Top(e).path \in DOMAIN e.cache
    BY StackTop DEF EngineTyped, Top
  <2> QED
    BY <1>1, <2>1 DEF Current
<1>3. /\ PastGrows(script, e, d, path, pc) /\ SameReturned(e, d)
      /\ ~Returned(e, path)
      /\ Waiting(script, e) => Waiting(script, d)
  BY <1>1, PastOnMove
<1>4. PICK J : J = Ran(script, e, path)
  OBVIOUS
<1>5. ASSUME i.do \in {"require", "assign"} PROVE Returned(e, i.path)
  <2>1. PICK f : f = i.path
    OBVIOUS
  <2>2. AsksFor(Current(script, e), f)
    BY <1>1, <1>5, <2>1 DEF AsksFor
  <2>3. f \in DOMAIN e.cache /\ Waiting(script, e)
    BY <2>2 DEF Truthful
  <2> QED
    BY <2>1, <2>2, <2>3, RequiredHasReturned
<1>6. Tells(e, path, J)
  BY <1>2, <1>4 DEF Truthful, TruthOf
<1>7. ASSUME NEW j \in J
      PROVE  \E k \in 1..Len(script[path]) : k < pc /\ j = script[path][k]
  <2>1. PICK k \in Past(script, e, path) : j = script[path][k]
    BY <1>4 DEF Ran
  <2>2. k < pc
    BY <1>3, <2>1 DEF PastGrows
  <2> QED
    BY <2>1, <2>2 DEF Past
<1>8. Follows(i, J)
  <2>1. PICK code : code = script[path]
    OBVIOUS
  <2>2. InOrder(code) /\ ~Redeclares(code) /\ DOMAIN code = 1..Len(code)
    BY <1>2, <2>1, LenProperties DEF Parses, WellMade, IsCode
  <2>3. ASSUME NEW j \in J
        PROVE  /\ j.do = "export" /\ j.name \notin Hidden => i.do = "export"
               /\ (Bound(j) \cap Bound(i)) \ {"default"} = {}
    <3>1. PICK k \in 1..Len(code) : k < pc /\ j = code[k]
      BY <1>7, <2>1
    <3>2. pc \in 1..Len(code) /\ i = code[pc]
      BY <1>2, <2>1
    <3>3. j.do = "export" /\ j.name \notin Hidden => i.do = "export"
      BY ONLY <2>2, <3>1, <3>2 DEF InOrder
    <3>4. (Bound(j) \cap Bound(i)) \ {"default"} = {}
      BY ONLY <2>2, <3>1, <3>2 DEF Redeclares
    <3> QED
      BY <3>3, <3>4
  <2> QED
    BY <2>3 DEF Follows
<1>9. Tells(d, path, J \cup {i}) /\ OthersAlone(e, d, path)
  <2>1. i.do \in Dos
    BY <1>2, LenProperties DEF WellMade
  <2>2. d = Moved(Effect(e, i), Len(e.stack))
    BY <1>1
  <2>3. path = Top(e).path
    BY <1>1
  <2>4. ~Returned(e, path)
    BY <1>3
  <2>5. SameReturned(e, d)
    BY <1>3
  <2>6. i.do \in {"require", "assign"} => Returned(e, i.path)
    BY <1>5
  <2> QED
    BY ONLY EngineTyped(e), e.stack # <<>>, <1>6, <1>8, <2>1, <2>2, <2>3, <2>4,
            <2>5, <2>6, EffectTells
<1>10. J \cup {i} = Ran(script, d, path)
  BY <1>2, <1>3, <1>4 DEF Ran, PastGrows
<1>11. TruthOf(script, d, path)
  BY <1>9, <1>10 DEF TruthOf
<1>12. \A f : Returned(e, f) => Returned(d, f) /\ Alike(e.cache[f], d.cache[f])
  BY <1>3, <1>9 DEF Alike, Returned, SameReturned, OthersAlone
<1>13. ASSUME NEW m \in DOMAIN e.cache, m # path PROVE TruthOf(script, d, m)
  <2>1. /\ TruthOf(script, e, m) /\ Past(script, d, m) = Past(script, e, m)
        /\ Alike(e.cache[m], d.cache[m]) /\ d.locals[m] = e.locals[m]
    BY <1>3, <1>9, <1>13 DEF Truthful, Alike, PastGrows, OthersAlone
  <2> QED
    BY ONLY <1>12, <2>1, TruthStays
<1> QED
  BY <1>3, <1>11, <1>13 DEF Truthful

(* So every step of an engine that has every module it needs keeps it.        *)
LEMMA StepTruthful ==
    ASSUME NEW script, ScriptOK(script), Closed(script), WellMade(script),
           NoCircle(script), Parses(script),
           NEW e, EngineTyped(e), Grounded(script, e), RunsAll(script, e),
           ~Ended(e), Truthful(script, e), NEW d, d = Step1(script, e)
    PROVE  Truthful(script, d)
<1>1. /\ e.stack # <<>> /\ ~e.threw /\ DOMAIN e.cache \subseteq DOMAIN script
      /\ \A a \in 1..Len(e.stack) : e.stack[a].path \in DOMAIN script
  BY DEF Ended, Grounded, RunsAll
<1>2. /\ Top(e).path \in DOMAIN script
      /\ Top(e).pc \in Nat \ {0} /\ Len(script[Top(e).path]) \in Nat
  <2>1. Top(e).path \in DOMAIN e.cache /\ Top(e).pc \in Nat \ {0}
    BY <1>1, StackTop DEF EngineTyped, Top
  <2>2. Top(e).path \in DOMAIN script
    BY <1>1, <2>1
  <2> QED
    BY <2>1, <2>2, LenProperties DEF WellMade, IsCode
<1>3. CASE Top(e).pc > Len(script[Top(e).path])
  <2>1. d = Return(e)
    BY <1>3 DEF Step1
  <2> QED
    BY <1>1, <1>3, <2>1, ReturnTruthful
<1>4. ASSUME ~(Top(e).pc > Len(script[Top(e).path]))
      PROVE  Top(e).pc \in 1..Len(script[Top(e).path])
  BY <1>2, <1>4
<1>5. CASE /\ ~(Top(e).pc > Len(script[Top(e).path]))
           /\ Current(script, e).do \in {"require", "assign"}
           /\ Current(script, e).path \notin DOMAIN e.cache
  <2>1. PICK path : path = Current(script, e).path
    OBVIOUS
  <2>2. d = RequirePath(script, e, path)
    BY <1>5, <2>1 DEF Step1, Current
  <2>3. AsksFor(Current(script, e), path) /\ path \notin DOMAIN e.cache
    BY <1>5, <2>1 DEF AsksFor
  <2>4. path \in DOMAIN script
    <3>1. Current(script, e) \in ToSet(script[Top(e).path])
      BY <1>2, <1>4, <1>5, LenProperties DEF Current, ToSet, WellMade, IsCode
    <3>2. path \in Calls(script[Top(e).path])
      BY <2>3, <3>1 DEF Calls, AsksFor
    <3> QED
      BY <1>2, <3>2 DEF Closed
  <2> QED
    BY <1>1, <1>4, <1>5, <2>2, <2>3, <2>4, CallTruthful
<1>6. CASE /\ ~(Top(e).pc > Len(script[Top(e).path]))
           /\ ~(/\ Current(script, e).do \in {"require", "assign"}
                /\ Current(script, e).path \notin DOMAIN e.cache)
  <2>1. d = Moved(Effect(e, Current(script, e)), Len(e.stack))
    BY <1>6, StepMoves
  <2>2. \A f : AsksFor(Current(script, e), f) => f \in DOMAIN e.cache
    BY <1>6 DEF AsksFor
  <2>3. ~Returns(script, e, d) /\ \A path : ~CallsFor(script, e, d, path)
    BY <1>6, <2>2 DEF Returns, CallsFor
  <2>4. GoesOn(script, e, d)
    BY <2>3, StepTyped
  <2>5. Steps(e, d) /\ DOMAIN d.cache = DOMAIN e.cache
    BY <2>4 DEF GoesOn, Steps
  <2> QED
    BY <1>1, <1>4, <1>6, <2>1, <2>2, <2>5, MoveTruthful
<1> QED
  BY <1>3, <1>5, <1>6

(* It is so of an engine that begins.                                         *)
LEMMA BegunTruthful ==
    ASSUME NEW script, Closed(script), WellMade(script), Parses(script),
           NEW d, d = Begun(script)
    PROVE  Truthful(script, d)
<1>1. /\ d.stack = Append(<<>>, Called(Entry)) /\ DOMAIN d.cache = {Entry}
  BY BegunTyped
<1>2. Entry \in DOMAIN script
  BY DEF Closed
<1>3. Len(d.stack) = 1 /\ d.stack[1] = Called(Entry)
  <2>1. PICK none : none = <<>>
    OBVIOUS
  <2>2. none \in Seq({Called(Entry)}) /\ Len(none) = 0
    BY <2>1
  <2>3. d.stack = Append(none, Called(Entry))
    BY <1>1, <2>1
  <2> QED
    BY <2>2, <2>3, AppendProperties
<1>4. Called(Entry).path = Entry /\ Called(Entry).pc = 1
  BY DEF Called
<1>5. Waiting(script, d)
  BY <1>3 DEF Waiting
<1>6. Past(script, d, Entry) = {}
  <2>1. ASSUME NEW k \in 1..Len(script[Entry]) PROVE IsYetAt(d, Entry, k)
    <3>1. 1 <= k
      BY <1>2, LenProperties DEF Closed, IsCode
    <3>2. 1 \in 1..Len(d.stack)
      BY <1>3
    <3> QED
      BY <1>3, <1>4, <3>1, <3>2 DEF IsYetAt
  <2> QED
    BY <2>1 DEF Past
<1>7. DOMAIN d.cache[Entry] = {}
  <2>1. PICK none : none = <<>>
    OBVIOUS
  <2>2. d.cache = Put(NothingRun.cache, Entry, none)
    BY <2>1 DEF Begun, RequirePath, NothingRun
  <2>3. d.cache[Entry] = none
    BY <2>2 DEF Put
  <2> QED
    BY <2>1, <2>3
<1>8. TruthOf(script, d, Entry)
  BY <1>6, <1>7 DEF TruthOf, Tells, Ran
<1> QED
  BY <1>1, <1>5, <1>8 DEF Truthful

(* Every module is bundled as what it is.                                     *)
BundledAs ==
    \A m \in Processed :
        /\ m \in Code => bundle[m] = CodeModule(program[m])
        /\ m \in Files => \E type \in ImportTypes : bundle[m] = FileModule(type)
        /\ m \in Stubs => bundle[m] = StubModule

(* It begins with nothing, ...                                                *)
LEMMA BundledAsBegins ==
    ASSUME SpecificationInit PROVE BundledAs
<1>1. DOMAIN bundle = {}
  BY DEF SpecificationInit, Init, NothingBundled
<1> QED
  BY <1>1 DEF BundledAs, Processed

(* ... and what is added is bundled as what it is.                            *)
LEMMA BundledAsStays ==
    ASSUME BundleInv, BundledAs, [Next]_vars PROVE BundledAs'
<1>1. ASSUME NEW code, bundle' = Bundled(Next1, code), UNCHANGED program,
             /\ Next1 \in Code => code = CodeModule(program[Next1])
             /\ Next1 \in Files => \E type \in ImportTypes : code = FileModule(type)
             /\ Next1 \in Stubs => code = StubModule
      PROVE  BundledAs'
  <2>1. /\ Processed' = Processed \cup {Next1} /\ bundle'[Next1] = code
        /\ \A k \in Processed : k # Next1 => bundle'[k] = bundle[k]
    BY <1>1 DEF Bundled, Processed
  <2> QED
    BY <1>1, <2>1 DEF BundledAs
<1>2. CASE Bundling
  <2>1. CASE BundleStub
    <3>1. /\ Next1 \in Stubs /\ bundle' = Bundled(Next1, StubModule)
          /\ UNCHANGED program
      BY <2>1 DEF BundleStub
    <3>2. Next1 \notin Code /\ Next1 \notin Files
      BY <3>1, BundlerAssumption
    <3> QED
      BY <1>1, <3>1, <3>2
  <2>2. CASE BundleFile
    <3>1. /\ Next1 \in Files
          /\ bundle' = Bundled(Next1, FileModule(FileType(Next1)))
          /\ UNCHANGED program
      BY <2>2 DEF BundleFile
    <3>2. Next1 \notin Code /\ Next1 \notin Stubs
      BY <3>1, BundlerAssumption
    <3>3. FileType(Next1) \in ImportTypes
      BY DEF FileType, BundleInv, Programmed, ImportTypes
    <3> QED
      BY <1>1, <3>1, <3>2, <3>3
  <2>3. CASE BundleCode
    <3>1. /\ Next1 \in Code
          /\ bundle' = Bundled(Next1, CodeModule(program[Next1]))
          /\ UNCHANGED program
      BY <2>3 DEF BundleCode
    <3>2. Next1 \notin Files /\ Next1 \notin Stubs
      BY <3>1, BundlerAssumption
    <3> QED
      BY <1>1, <3>1, <3>2
  <2>4. CASE SkipProcessed \/ BundleFileFails \/ BundleCodeFails \/ Emit
    BY <2>4 DEF SkipProcessed, BundleFileFails, BundleCodeFails, Emit, Fail,
                BundledAs, Processed
  <2> QED
    BY <1>2, <2>1, <2>2, <2>3, <2>4 DEF Bundling, BundlerNext
<1>3. CASE bundle' = NothingBundled
  <2>1. DOMAIN bundle' = {}
    BY <1>3 DEF NothingBundled
  <2> QED
    BY <2>1 DEF BundledAs, Processed
<1>4. CASE UNCHANGED <<program, bundle>>
  BY <1>4 DEF BundledAs, Processed
<1> QED
  BY <1>2, <1>3, <1>4
     DEF Next, vars, bundlerVars, StartEngine, RunEngine, RefuseSpecification,
         AcceptSpecification, BundleAgain, Edit, NewDocument, RunPage, PageThrows,
         StateChanged, ExtractorsFail

-----------------------------------------------------------------------------
(* The statements of bundled modules                                          *)

(* What a statement leaves in its place, ...                                  *)
LEMMA InPlaceHas ==
    ASSUME NEW s
    PROVE  /\ InPlace(s) \in Seq(ToSet(InPlace(s)))
           /\ s.op \in {"import", "reexport"} =>
                 ToSet(InPlace(s)) = {Requires(s.from, s.names)}
           /\ s.op = "exportAll" => ToSet(InPlace(s)) = {Assigns(s.from)}
           /\ s.op = "exportDeclaration" =>
                 ToSet(InPlace(s)) = {Makes(s.name, s.kind, Unnamed)}
           /\ s.op = "declaration" =>
                 ToSet(InPlace(s)) = {Makes(s.name, s.kind, s.name)}
           /\ \A i \in ToSet(InPlace(s)) :
                 /\ i.do \in Dos
                 /\ i.do = "export" => i.name = "default"
                 /\ i.do = "assign" => s.op = "exportAll" /\ i.path = s.from
<1>1. CASE s.op \in {"import", "reexport"}
  <2>1. InPlace(s) = <<Requires(s.from, s.names)>>
    BY <1>1 DEF InPlace
  <2>2. /\ ToSet(InPlace(s)) = {Requires(s.from, s.names)}
        /\ InPlace(s) \in Seq(ToSet(InPlace(s)))
    BY <2>1, ShortCode
  <2> QED
    BY <1>1, <2>2 DEF Requires, Dos
<1>2. CASE s.op = "require"
  <2>1. InPlace(s) = <<Requires(s.from, {})>>
    BY <1>2 DEF InPlace
  <2>2. /\ ToSet(InPlace(s)) = {Requires(s.from, {})}
        /\ InPlace(s) \in Seq(ToSet(InPlace(s)))
    BY <2>1, ShortCode
  <2> QED
    BY <1>2, <2>2 DEF Requires, Dos
<1>3. CASE s.op = "exportAll"
  <2>1. InPlace(s) = <<Assigns(s.from)>>
    BY <1>3 DEF InPlace
  <2>2. /\ ToSet(InPlace(s)) = {Assigns(s.from)}
        /\ InPlace(s) \in Seq(ToSet(InPlace(s)))
    BY <2>1, ShortCode
  <2> QED
    BY <1>3, <2>2 DEF Assigns, Dos
<1>4. CASE s.op = "exportDeclaration"
  <2>1. InPlace(s) = <<Makes(s.name, s.kind, Unnamed)>>
    BY <1>4 DEF InPlace
  <2>2. /\ ToSet(InPlace(s)) = {Makes(s.name, s.kind, Unnamed)}
        /\ InPlace(s) \in Seq(ToSet(InPlace(s)))
    BY <2>1, ShortCode
  <2> QED
    BY <1>4, <2>2 DEF Makes, Dos
<1>5. CASE s.op = "declaration"
  <2>1. InPlace(s) = <<Makes(s.name, s.kind, s.name)>>
    BY <1>5 DEF InPlace
  <2>2. /\ ToSet(InPlace(s)) = {Makes(s.name, s.kind, s.name)}
        /\ InPlace(s) \in Seq(ToSet(InPlace(s)))
    BY <2>1, ShortCode
  <2> QED
    BY <1>5, <2>2 DEF Makes, Dos
<1>6. CASE s.op = "exportDefault"
  <2>1. InPlace(s) = <<Makes("default", s.kind, Unnamed), Exports("default")>>
    BY <1>6 DEF InPlace
  <2>2. /\ ToSet(InPlace(s)) =
              {Makes("default", s.kind, Unnamed), Exports("default")}
        /\ InPlace(s) \in Seq(ToSet(InPlace(s)))
    BY <2>1, ShortCode
  <2> QED
    BY <1>6, <2>2 DEF Makes, Exports, Dos
<1>7. CASE s.op \notin {"import", "reexport", "require", "exportAll",
                        "exportDeclaration", "declaration", "exportDefault"}
  <2>1. InPlace(s) = <<>>
    BY <1>7 DEF InPlace
  <2>2. ToSet(InPlace(s)) = {} /\ InPlace(s) \in Seq(ToSet(InPlace(s)))
    BY <2>1, ShortCode
  <2> QED
    BY <1>7, <2>2
<1> QED
  BY <1>1, <1>2, <1>3, <1>4, <1>5, <1>6, <1>7

(* ... and what at the end of its module                                      *)
LEMMA AtEndHas ==
    ASSUME NEW s, IsStatement(s)
    PROVE  /\ AtEnd(s) \in Seq(ToSet(AtEnd(s)))
           /\ s.op = "exportDeclaration" => ToSet(AtEnd(s)) = {Exports(s.name)}
           /\ s.op \in {"reexport", "exportNames"} =>
                 ToSet(AtEnd(s)) = {Exports(name) : name \in s.names}
           /\ s.op \notin {"exportDeclaration", "reexport", "exportNames"} =>
                 ToSet(AtEnd(s)) = {}
<1>1. CASE s.op = "exportDeclaration"
  <2>1. AtEnd(s) = <<Exports(s.name)>>
    BY <1>1 DEF AtEnd
  <2>2. AtEnd(s) \in Seq(ToSet(AtEnd(s))) /\ ToSet(AtEnd(s)) = {Exports(s.name)}
    BY <2>1, ShortCode
  <2> QED
    BY <1>1, <2>2
<1>2. CASE s.op \in {"reexport", "exportNames"}
  <2>1. PICK leaves : leaves = {Exports(name) : name \in s.names}
    OBVIOUS
  <2>2. AtEnd(s) = SetToSeq(leaves) /\ IsFiniteSet(s.names)
    BY <1>2, <2>1 DEF AtEnd, IsStatement
  <2>3. IsFiniteSet(leaves)
    <3> DEFINE g == [name \in s.names |-> Exports(name)]
    <3>1. g \in Surjection(s.names, leaves)
      BY <2>1 DEF Surjection
    <3> QED
      BY <2>2, <3>1, FS_Surjection
  <2>4. SetToSeq(leaves) \in Seq(leaves) /\ ToSet(SetToSeq(leaves)) = leaves
    BY <2>3, ListOfSet
  <2> QED
    BY <1>2, <2>1, <2>2, <2>4
<1>3. CASE s.op \notin {"exportDeclaration", "reexport", "exportNames"}
  <2>1. AtEnd(s) = <<>>
    BY <1>3 DEF AtEnd
  <2>2. AtEnd(s) \in Seq(ToSet(AtEnd(s))) /\ ToSet(AtEnd(s)) = {}
    BY <2>1, ShortCode
  <2> QED
    BY <1>3, <2>2
<1> QED
  BY <1>1, <1>2, <1>3

(* Many of them, one after another                                            *)
LEMMA FlattenedHas ==
    ASSUME NEW n \in Nat, NEW lists, DOMAIN lists = 1..n,
           lists = [i \in 1..n |-> lists[i]],
           \A i \in 1..n : lists[i] \in Seq(ToSet(lists[i]))
    PROVE  /\ FlattenSeq(lists) \in Seq(ToSet(FlattenSeq(lists)))
           /\ ToSet(FlattenSeq(lists)) = UNION {ToSet(lists[i]) : i \in 1..n}
<1> DEFINE S == UNION {ToSet(lists[i]) : i \in 1..n}
           flat == FlattenSeq(lists)
<1>1. \A i \in 1..n : lists[i] \in Seq(S)
  OBVIOUS
<1>2. lists \in Seq(Seq(S)) /\ Len(lists) = n
  BY <1>1
<1>3. flat \in Seq(S) /\ ToSet(flat) = S
  BY <1>2, ElementsOfFlattened
<1> QED
  BY <1>3

(* A bundled code module: first what its statements leave in their places,    *)
(* then the exports at its end.                                               *)
LEMMA ModuleInParts ==
    ASSUME NEW modules, IsProgram(modules), NEW m \in Code
    PROVE  \E a, b :
              /\ CodeModule(modules[m]) = a \o b
              /\ a \in Seq(ToSet(a)) /\ b \in Seq(ToSet(b))
              /\ ToSet(a) = {Marks} \cup
                    UNION {ToSet(InPlace(s)) : s \in ToSet(modules[m])}
              /\ ToSet(b) = UNION {ToSet(AtEnd(s)) : s \in ToSet(modules[m])}
<1> DEFINE statements == modules[m]
           n == Len(statements)
           before == [i \in DOMAIN statements |-> InPlace(statements[i])]
           after == [i \in DOMAIN statements |-> AtEnd(statements[i])]
<1>1. /\ n \in Nat /\ DOMAIN statements = 1..n
      /\ \A i \in 1..n : IsStatement(statements[i])
      /\ ToSet(statements) = {statements[i] : i \in 1..n}
  <2>1. /\ statements \in Seq(ToSet(statements))
        /\ \A s \in ToSet(statements) : IsStatement(s)
    BY DEF IsProgram
  <2>2. n \in Nat /\ DOMAIN statements = 1..n
    BY <2>1, LenProperties
  <2> QED
    BY <2>1, <2>2 DEF ToSet
<1> HIDE DEF statements, n
<1>2. /\ DOMAIN before = 1..n /\ before = [i \in 1..n |-> before[i]]
      /\ \A i \in 1..n : before[i] = InPlace(statements[i])
  BY <1>1
<1>3. /\ DOMAIN after = 1..n /\ after = [i \in 1..n |-> after[i]]
      /\ \A i \in 1..n : after[i] = AtEnd(statements[i])
  BY <1>1
<1>4. Rewritten(statements) = FlattenSeq(before) \o FlattenSeq(after)
  BY DEF Rewritten
<1> HIDE DEF before, after
<1>5. PICK first, last : first = FlattenSeq(before) /\ last = FlattenSeq(after)
  OBVIOUS
<1>6. /\ first \in Seq(ToSet(first))
      /\ ToSet(first) = UNION {ToSet(InPlace(s)) : s \in ToSet(statements)}
  <2>1. \A i \in 1..n : before[i] \in Seq(ToSet(before[i]))
    BY <1>2, InPlaceHas
  <2>2. /\ first \in Seq(ToSet(first))
        /\ ToSet(first) = UNION {ToSet(before[i]) : i \in 1..n}
    BY <1>1, <1>2, <1>5, <2>1, FlattenedHas
  <2>3. UNION {ToSet(before[i]) : i \in 1..n} =
          UNION {ToSet(InPlace(s)) : s \in ToSet(statements)}
    BY <1>1, <1>2
  <2> QED
    BY <2>2, <2>3
<1>7. /\ last \in Seq(ToSet(last))
      /\ ToSet(last) = UNION {ToSet(AtEnd(s)) : s \in ToSet(statements)}
  <2>1. \A i \in 1..n : after[i] \in Seq(ToSet(after[i]))
    BY <1>1, <1>3, AtEndHas
  <2>2. /\ last \in Seq(ToSet(last))
        /\ ToSet(last) = UNION {ToSet(after[i]) : i \in 1..n}
    BY <1>1, <1>3, <1>5, <2>1, FlattenedHas
  <2>3. UNION {ToSet(after[i]) : i \in 1..n} =
          UNION {ToSet(AtEnd(s)) : s \in ToSet(statements)}
    BY <1>1, <1>3
  <2> QED
    BY <2>2, <2>3
<1>8. PICK marked : marked = <<Marks>>
  OBVIOUS
<1>9. marked \in Seq(ToSet(marked)) /\ ToSet(marked) = {Marks}
  BY <1>8, ShortCode
<1>10. PICK a : a = marked \o first
  OBVIOUS
<1>11. /\ a \in Seq(ToSet(marked) \cup ToSet(first))
       /\ ToSet(a) = ToSet(marked) \cup ToSet(first)
  <2>1. PICK S : S = ToSet(marked) \cup ToSet(first)
    OBVIOUS
  <2>2. marked \in Seq(S) /\ first \in Seq(S)
    BY <1>6, <1>9, <2>1
  <2>3. marked \o first \in Seq(S) /\ ToSet(marked \o first) = S
    BY <2>1, <2>2, ElementsOfConcat
  <2> QED
    BY <1>10, <2>1, <2>3
<1>12. CodeModule(statements) = a \o last
  <2>1. CodeModule(statements) = marked \o (first \o last)
    BY <1>4, <1>5, <1>8 DEF CodeModule
  <2>2. PICK S : S = ToSet(marked) \cup ToSet(first) \cup ToSet(last)
    OBVIOUS
  <2>3. marked \in Seq(S) /\ first \in Seq(S) /\ last \in Seq(S)
    BY <1>6, <1>7, <1>9, <2>2
  <2>4. marked \o (first \o last) = (marked \o first) \o last
    BY ONLY <2>3, ConcatAssociative
  <2> QED
    BY <1>10, <2>1, <2>4
<1>13. a \in Seq(ToSet(a)) /\ ToSet(a) = {Marks} \cup ToSet(first)
  BY <1>9, <1>11
<1> QED
  BY <1>6, <1>7, <1>12, <1>13 DEF statements

(* It requires and makes what its names come from, assigns what it exports    *)
(* all of and exports its own names, at its end.                              *)
LEMMA ModuleHas ==
    ASSUME IsProgram(program), NEW m \in Code,
           NEW code, code = CodeModule(program[m])
    PROVE  /\ \A n : \A f \in Source(m, n) : \E i \in ToSet(code) :
                 i.do = "require" /\ i.path = f /\ n \in i.names
           /\ \A n : \A v \in Declarations(m, n) : \E i \in ToSet(code) :
                 i.do = "make" /\ i.name = n /\ v = Value(m, n, i.kind)
           /\ \A n \in OwnNames(m) : \E i \in ToSet(code) :
                 i.do = "export" /\ i.name = n
           /\ \A i \in ToSet(code) :
                 i.do = "export" /\ i.name \notin Hidden => i.name \in OwnNames(m)
           /\ \A f \in Stars(m) : \E i \in ToSet(code) :
                 i.do = "assign" /\ i.path = f
           /\ \A i \in ToSet(code) : i.do = "assign" => i.path \in Stars(m)
           /\ \A i \in ToSet(code) : i.do \in Dos
           /\ InOrder(code)
<1>1. PICK a, b : /\ code = a \o b
                  /\ a \in Seq(ToSet(a)) /\ b \in Seq(ToSet(b))
                  /\ ToSet(a) = {Marks} \cup
                        UNION {ToSet(InPlace(s)) : s \in ToSet(program[m])}
                  /\ ToSet(b) = UNION {ToSet(AtEnd(s)) : s \in ToSet(program[m])}
  BY ModuleInParts
<1>2. PICK statements : statements = ToSet(program[m])
  OBVIOUS
<1>3. \A s \in statements : IsStatement(s)
  BY <1>2 DEF IsProgram
<1>4. ToSet(code) = ToSet(a) \cup ToSet(b)
  <2>1. PICK S : S = ToSet(a) \cup ToSet(b)
    OBVIOUS
  <2>2. a \in Seq(S) /\ b \in Seq(S)
    BY <1>1, <2>1
  <2> QED
    BY ONLY <1>1, <2>1, <2>2, ElementsOfConcat
<1>5. \A s \in statements : ToSet(InPlace(s)) \subseteq ToSet(code)
                            /\ ToSet(AtEnd(s)) \subseteq ToSet(code)
  BY <1>1, <1>2, <1>4
<1>6. ASSUME NEW i \in ToSet(a)
      PROVE  /\ i.do \in Dos
             /\ i.do = "export" => i.name = "default"
             /\ i.do = "assign" => i.path \in Stars(m)
  <2>1. CASE i = Marks
    BY <2>1 DEF Marks, Dos
  <2>2. CASE i # Marks
    <3>1. PICK s \in statements : i \in ToSet(InPlace(s))
      BY <1>1, <1>2, <2>2
    <3>2. /\ i.do \in Dos
          /\ i.do = "export" => i.name = "default"
          /\ i.do = "assign" => s.op = "exportAll" /\ i.path = s.from
      BY <3>1, InPlaceHas
    <3>3. s.op = "exportAll" => s.from \in Stars(m)
      BY <1>2 DEF Stars, Links, Linking
    <3> QED
      BY <3>2, <3>3
  <2> QED
    BY <2>1, <2>2
<1>7. ASSUME NEW i \in ToSet(b)
      PROVE  i.do = "export" /\ (i.name \notin Hidden => i.name \in OwnNames(m))
  <2>1. PICK s \in statements : i \in ToSet(AtEnd(s))
    BY <1>1, <1>2
  <2>2. /\ s.op = "exportDeclaration" => ToSet(AtEnd(s)) = {Exports(s.name)}
        /\ s.op \in {"reexport", "exportNames"} =>
              ToSet(AtEnd(s)) = {Exports(name) : name \in s.names}
        /\ s.op \notin {"exportDeclaration", "reexport", "exportNames"} =>
              ToSet(AtEnd(s)) = {}
    BY <1>3, AtEndHas
  <2>3. CASE s.op = "exportDeclaration"
    BY <1>2, <2>1, <2>2, <2>3 DEF Exports, OwnNames
  <2>4. CASE s.op \in {"reexport", "exportNames"}
    <3>1. PICK name \in s.names : i = Exports(name)
      BY <2>1, <2>2, <2>4
    <3> QED
      BY <1>2, <2>4, <3>1 DEF Exports, OwnNames
  <2> QED
    BY <2>1, <2>2, <2>3, <2>4
<1>8. ASSUME NEW n, NEW f \in Source(m, n)
      PROVE  \E i \in ToSet(code) : i.do = "require" /\ i.path = f /\ n \in i.names
  <2>1. PICK s \in statements : /\ s.op \in {"import", "reexport"}
                                /\ n \in s.names /\ f = s.from
    BY <1>2 DEF Source, Links
  <2>2. Requires(s.from, s.names) \in ToSet(code)
    BY <1>5, <2>1, InPlaceHas
  <2> QED
    BY <2>1, <2>2 DEF Requires
<1>9. ASSUME NEW n, NEW v \in Declarations(m, n)
      PROVE  \E i \in ToSet(code) :
                i.do = "make" /\ i.name = n /\ v = Value(m, n, i.kind)
  <2>1. PICK s \in statements : /\ s.op \in {"exportDeclaration", "declaration"}
                                /\ s.name = n /\ v = Value(m, n, s.kind)
    BY <1>2 DEF Declarations
  <2>2. PICK label : Makes(n, s.kind, label) \in ToSet(code)
    BY <1>5, <2>1, InPlaceHas
  <2> QED
    BY <2>1, <2>2 DEF Makes
<1>10. ASSUME NEW n \in OwnNames(m)
       PROVE  \E i \in ToSet(code) : i.do = "export" /\ i.name = n
  <2>1. PICK s \in statements :
           \/ s.op = "exportDeclaration" /\ n = s.name
           \/ s.op \in {"reexport", "exportNames"} /\ n \in s.names
    BY <1>2 DEF OwnNames
  <2>2. Exports(n) \in ToSet(code)
    <3>1. Exports(n) \in ToSet(AtEnd(s))
      BY <1>3, <2>1, AtEndHas
    <3> QED
      BY <1>5, <3>1
  <2> QED
    BY <2>2 DEF Exports
<1>11. ASSUME NEW f \in Stars(m)
       PROVE  \E i \in ToSet(code) : i.do = "assign" /\ i.path = f
  <2>1. PICK s \in statements : s.op = "exportAll" /\ f = s.from
    BY <1>2 DEF Stars, Links
  <2>2. Assigns(s.from) \in ToSet(code)
    BY <1>5, <2>1, InPlaceHas
  <2> QED
    BY <2>1, <2>2 DEF Assigns
<1>12. InOrder(code)
  <2> SUFFICES ASSUME NEW j \in 1..Len(code), NEW k \in 1..Len(code), j < k,
                      code[j].do = "export", code[j].name \notin Hidden
               PROVE  code[k].do = "export"
    BY DEF InOrder
  <2>1. PICK S : S = ToSet(a) \cup ToSet(b)
    OBVIOUS
  <2>2. a \in Seq(S) /\ b \in Seq(S)
    BY <1>1, <2>1
  <2>3. /\ Len(code) = Len(a) + Len(b) /\ Len(a) \in Nat /\ Len(b) \in Nat
        /\ \A i \in 1..Len(code) :
              code[i] = IF i <= Len(a) THEN a[i] ELSE b[i - Len(a)]
    BY <1>1, <2>2, ConcatProperties, LenProperties
  <2>4. DOMAIN a = 1..Len(a) /\ DOMAIN b = 1..Len(b)
    BY <2>2, LenProperties
  <2>5. ~(j <= Len(a))
    <3> SUFFICES ASSUME j <= Len(a) PROVE FALSE
      OBVIOUS
    <3>1. j \in DOMAIN a /\ code[j] = a[j]
      BY <2>3, <2>4
    <3>2. code[j] \in ToSet(a)
      BY <3>1 DEF ToSet
    <3> QED
      BY <1>6, <3>2 DEF Hidden
  <2>6. k - Len(a) \in DOMAIN b /\ code[k] = b[k - Len(a)]
    BY <2>3, <2>4, <2>5
  <2>7. code[k] \in ToSet(b)
    BY <2>6 DEF ToSet
  <2> QED
    BY <1>7, <2>7
<1>13. ASSUME NEW i \in ToSet(code)
       PROVE  /\ i.do = "export" /\ i.name \notin Hidden => i.name \in OwnNames(m)
              /\ i.do = "assign" => i.path \in Stars(m)
              /\ i.do \in Dos
  BY <1>4, <1>6, <1>7 DEF Hidden, Dos
<1> QED
  BY <1>8, <1>9, <1>10, <1>11, <1>12, <1>13

(* Any other module makes and exports its default and nothing else.           *)
LEMMA OtherHas ==
    ASSUME NEW code,
           code = StubModule \/ \E type \in ImportTypes : code = FileModule(type)
    PROVE  \A i \in ToSet(code) :
              /\ i.do \in {"mark", "make", "export"}
              /\ i.do = "export" => i.name = "default"
<1>1. CASE code = StubModule
  <2>1. ToSet(code) = {}
    BY <1>1, ShortCode DEF StubModule
  <2> QED
    BY <2>1
<1>2. ASSUME NEW type \in ImportTypes, code = FileModule(type)
      PROVE  \A i \in ToSet(code) :
                /\ i.do \in {"mark", "make", "export"}
                /\ i.do = "export" => i.name = "default"
  <2>1. PICK content, marked : content = Contents(type) /\ marked = <<Marks>>
    OBVIOUS
  <2>2. /\ content \in Seq(ToSet(content))
        /\ ToSet(content) = {Makes("default", type, Unnamed), Exports("default")}
    BY <2>1, ShortCode DEF Contents
  <2>3. marked \in Seq(ToSet(marked)) /\ ToSet(marked) = {Marks}
    BY <2>1, ShortCode
  <2>4. PICK S : S = ToSet(marked) \cup ToSet(content)
    OBVIOUS
  <2>5. marked \in Seq(S) /\ content \in Seq(S)
    BY <2>2, <2>3, <2>4
  <2>6. ToSet(marked \o content) = S
    BY <2>4, <2>5, ElementsOfConcat
  <2>7. code = content \/ code = marked \o content
    BY <1>2, <2>1 DEF FileModule
  <2>8. ToSet(code) \subseteq
            {Marks, Makes("default", type, Unnamed), Exports("default")}
    BY <2>2, <2>3, <2>4, <2>6, <2>7
  <2> QED
    BY <2>8 DEF Marks, Makes, Exports
<1> QED
  BY <1>1, <1>2

(* What is bundled and not code is a file or a stub.                          *)
LEMMA OtherBundled ==
    ASSUME BundlerInv, BundledAs, NEW m \in Processed, m \notin Code
    PROVE  bundle[m] = StubModule \/ \E type \in ImportTypes : bundle[m] = FileModule(type)
BY DEF BundlerInv, BundledAs, Keys

(* The bundle is made of such modules, ...                                    *)
LEMMA BundleWellMade ==
    ASSUME BundlerInv, BundleInv, BundledAs PROVE WellMade(bundle)
<1> SUFFICES ASSUME NEW m \in DOMAIN bundle
             PROVE  /\ IsCode(bundle[m]) /\ InOrder(bundle[m])
                    /\ \A k \in 1..Len(bundle[m]) : bundle[m][k].do \in Dos
  BY DEF WellMade
<1>1. PICK code : code = bundle[m]
  OBVIOUS
<1>2. IsCode(code) /\ DOMAIN code = 1..Len(code)
  BY <1>1, LenProperties DEF BundleInv, Asked, IsCode, Processed
<1>3. CASE m \in Code
  <2>1. code = CodeModule(program[m]) /\ IsProgram(program)
    BY <1>1, <1>3 DEF BundledAs, BundleInv, Programmed, Processed
  <2>2. InOrder(code) /\ \A i \in ToSet(code) : i.do \in Dos
    BY <1>3, <2>1, ModuleHas
  <2> QED
    BY <1>1, <1>2, <2>2 DEF ToSet
<1>4. CASE m \notin Code
  <2>1. \A i \in ToSet(code) : /\ i.do \in {"mark", "make", "export"}
                               /\ i.do = "export" => i.name = "default"
    BY <1>1, <1>4, OtherBundled, OtherHas DEF Processed
  <2>2. \A k \in 1..Len(code) : code[k] \in ToSet(code)
    BY <1>2 DEF ToSet
  <2>3. InOrder(code)
    BY <2>1, <2>2 DEF InOrder, Hidden
  <2>4. \A k \in 1..Len(code) : code[k].do \in Dos
    BY <2>1, <2>2 DEF Dos
  <2> QED
    BY <1>1, <1>2, <2>3, <2>4
<1> QED
  BY <1>3, <1>4

(* ... and they require each other in a circle only if they import so.        *)
LEMMA BundleNoCircle ==
    ASSUME BundlerInv, BundleInv, BundledAs, Acyclic PROVE NoCircle(bundle)
<1>1. ASSUME NEW m \in Processed PROVE Calls(bundle[m]) = Imports(m)
  <2>1. CASE m \in Code
    BY <2>1, ModuleIsCode DEF BundledAs, BundleInv, Programmed, Imports
  <2>2. CASE m \notin Code
    BY <2>2, OtherBundled, OtherIsCode DEF Imports
  <2> QED
    BY <2>1, <2>2
<1> SUFFICES ASSUME NEW C \in SUBSET DOMAIN bundle, C # {}
             PROVE  \E m \in C : Calls(bundle[m]) \cap C = {}
  BY DEF NoCircle
<1>2. PICK m \in C : Imports(m) \cap C = {}
  BY DEF Acyclic, Processed
<1>3. Calls(bundle[m]) = Imports(m)
  BY <1>1 DEF Processed
<1> QED
  BY <1>2, <1>3

(* So while the verifier's engine runs it, every statement has the effect it  *)
(* had.                                                                       *)
EngineTruthful ==
    phase = "loading" /\ engine # NothingRun /\ Parses(bundle) /\ Acyclic =>
        Truthful(bundle, engine)

(* Every step keeps this.                                                     *)
LEMMA EngineStaysTruthful ==
    ASSUME BundlerInv, BundleInv, EnginesTyped, EngineRunsAll, BundledAs,
           EngineTruthful, [Next]_vars
    PROVE  EngineTruthful'
<1>1. CASE StartEngine \/ RunEngine
  <2>1. /\ phase = "loading" /\ UNCHANGED <<phase, bundle, program>>
        /\ \/ engine' = Begun(bundle)
           \/ /\ engine # NothingRun /\ ~Ended(engine)
              /\ engine' = Step1(bundle, engine)
    BY <1>1 DEF StartEngine, RunEngine, bundlerVars
  <2>2. Acyclic' <=> Acyclic
    BY <2>1 DEF Acyclic, Imports, Processed
  <2> SUFFICES ASSUME Parses(bundle), Acyclic PROVE Truthful(bundle, engine')
    BY <2>1, <2>2 DEF EngineTruthful
  <2>3. PICK d, b, e : d = engine' /\ b = bundle /\ e = engine
    OBVIOUS
  <2>4. ScriptOK(b) /\ Closed(b) /\ WellMade(b) /\ NoCircle(b) /\ Parses(b)
    BY <2>1, <2>3, BundleIsOK, BundleClosed, BundleWellMade, BundleNoCircle
  <2>5. CASE d = Begun(b)
    BY <2>3, <2>4, <2>5, BegunTruthful
  <2>6. CASE e # NothingRun /\ ~Ended(e) /\ d = Step1(b, e)
    <3>1. EngineTyped(e) /\ Grounded(b, e) /\ RunsAll(b, e) /\ Truthful(b, e)
      BY <2>1, <2>3, <2>4, <2>6 DEF EnginesTyped, EngineRunsAll, EngineTruthful
    <3> QED
      BY <2>3, <2>4, <2>6, <3>1, StepTruthful
  <2> QED
    BY <2>1, <2>3, <2>5, <2>6
<1>2. CASE Bundling
  <2>1. /\ engine' = engine
        /\ phase' = "loading" => phase = "bundling"
    BY <1>2 DEF Bundling, BundlerNext, SkipProcessed, BundleStub, BundleFile,
       BundleFileFails, BundleCode, BundleCodeFails, Emit, Fail, Taking,
       BundlingPhases
  <2> QED
    BY <2>1 DEF EngineTruthful, EnginesTyped
<1>3. CASE phase' # "loading" \/ UNCHANGED <<program, phase, bundle, engine>>
  BY <1>3 DEF EngineTruthful, Acyclic, Imports, Processed
<1> QED
  BY <1>1, <1>2, <1>3
     DEF Next, vars, bundlerVars, pageVars, RefuseSpecification, Edit,
         AcceptSpecification, BundleAgain, NewDocument, RunPage, PageThrows,
         StateChanged, ExtractorsFail

-----------------------------------------------------------------------------
(* What a module exports as an ES module                                      *)

(* All that a bundled module imports is bundled.                              *)
ImportsBundled == \A m \in Processed : Imports(m) \subseteq Processed

(* A name is looked up in what a module imports.                              *)
LEMMA LooksInImports ==
    ASSUME NEW m, NEW name PROVE LooksIn(m, name) \subseteq Imports(m)
BY DEF LooksIn, Imports, Source, Stars

(* A look-up leads to a module itself and to where those lead that it is      *)
(* looked up in, ...                                                          *)
LEMMA LeadsThrough ==
    ASSUME ImportsBundled, NEW m \in Processed, NEW name
    PROVE  LeadsTo(m, name) =
              {m} \cup UNION {LeadsTo(f, name) : f \in LooksIn(m, name)}
<1>1. \A l \in Processed : LooksIn(l, name) \subseteq Processed
  BY LooksInImports DEF ImportsBundled
<1>2. \A f \in Processed : f \in LeadsTo(f, name)
  BY DEF LeadsTo
<1>3. ASSUME NEW f \in Processed, NEW l \in LeadsTo(f, name), NEW x \in LooksIn(l, name)
      PROVE  x \in LeadsTo(f, name)
  <2>1. l \in Processed /\ x \in Processed
    BY <1>1 DEF LeadsTo
  <2>2. ASSUME NEW C \in SUBSET Processed, f \in C,
               \A k \in C : LooksIn(k, name) \subseteq C
        PROVE  x \in C
    <3>1. l \in C
      BY <2>2 DEF LeadsTo
    <3> QED
      BY <2>2, <3>1
  <2> QED
    BY <2>1, <2>2 DEF LeadsTo
<1> DEFINE all == {m} \cup UNION {LeadsTo(f, name) : f \in LooksIn(m, name)}
<1>4. ASSUME NEW k \in LeadsTo(m, name) PROVE k \in all
  <2>1. all \in SUBSET Processed
    BY DEF LeadsTo
  <2>2. ASSUME NEW l \in all PROVE LooksIn(l, name) \subseteq all
    <3>1. CASE l = m
      BY <1>1, <1>2, <3>1
    <3>2. CASE l # m
      <4>1. PICK f \in LooksIn(m, name) : l \in LeadsTo(f, name)
        BY <3>2
      <4>2. f \in Processed
        BY <1>1
      <4>3. LooksIn(l, name) \subseteq LeadsTo(f, name)
        BY <1>3, <4>1, <4>2
      <4> QED
        BY <4>3
    <3> QED
      BY <3>1, <3>2
  <2>3. m \in all
    OBVIOUS
  <2> HIDE DEF all
  <2> QED
    BY <2>1, <2>2, <2>3 DEF LeadsTo
<1>5. ASSUME NEW f \in LooksIn(m, name), NEW k \in LeadsTo(f, name)
      PROVE  k \in LeadsTo(m, name)
  <2>1. ASSUME NEW C \in SUBSET Processed, m \in C,
               \A l \in C : LooksIn(l, name) \subseteq C
        PROVE  k \in C
    <3>1. f \in C
      BY <2>1
    <3> QED
      BY <2>1, <3>1 DEF LeadsTo
  <2>2. k \in Processed
    BY DEF LeadsTo
  <2> QED
    BY <2>1, <2>2 DEF LeadsTo
<1>6. m \in LeadsTo(m, name)
  BY <1>2
<1> QED
  BY <1>4, <1>5, <1>6

(* ... so an export is the module's own declaration or that of one it is      *)
(* looked up in.                                                              *)
LEMMA ExportComesFrom ==
    ASSUME ImportsBundled, NEW m \in Processed, NEW name
    PROVE  /\ \A v \in EsExport(m, name) :
                 \/ m \in Code /\ name \in OwnNames(m) /\ v \in Declarations(m, name)
                 \/ \E f \in LooksIn(m, name) : v \in EsExport(f, name)
           /\ m \in Code /\ name \in OwnNames(m) =>
                 Declarations(m, name) \subseteq EsExport(m, name)
           /\ \A f \in LooksIn(m, name) : EsExport(f, name) \subseteq EsExport(m, name)
<1>1. /\ \A k : k \in LeadsTo(m, name) <=>
                   k = m \/ \E f \in LooksIn(m, name) : k \in LeadsTo(f, name)
  BY LeadsThrough
<1>2. ASSUME NEW x, NEW v
      PROVE  v \in EsExport(x, name) <=>
                \E k \in LeadsTo(x, name) \cap Code :
                    name \in OwnNames(k) /\ v \in Declarations(k, name)
  BY DEF EsExport
<1> QED
  BY <1>1, <1>2

-----------------------------------------------------------------------------
(* What a module exports when all have run                                    *)

(* What is so while the verifier loads a bundle, and an export that is right  *)
Loads ==
    /\ BundlerInv /\ BundleInv /\ EnginesTyped /\ EngineRunsAll
    /\ BundledAs /\ EngineTruthful
IsRight(m, n) ==
    /\ n \in DOMAIN engine.cache[m] <=> EsExport(m, n) # {}
    /\ n \in DOMAIN engine.cache[m] => engine.cache[m][n] \in EsExport(m, n)

(* Every statement has had its effect then.                                   *)
LEMMA AllTold ==
    ASSUME Loads, EveryModuleRuns, HasRun, Acyclic, NEW m \in Processed
    PROVE  /\ \A i \in ToSet(bundle[m]) : Told(engine, m, i)
           /\ \A n \in (DOMAIN engine.cache[m]) \ Hidden :
                 \E i \in ToSet(bundle[m]) : GivenBy(engine, m, i, n)
           /\ \A f \in Processed : Returned(engine, f)
           /\ ImportsBundled /\ IsProgram(program)
<1>1. /\ engine.stack = <<>> /\ Processed = DOMAIN engine.cache
      /\ phase = "loading" /\ Truthful(bundle, engine)
  BY DEF Loads, EveryModuleRuns, HasRun, Ended, EngineTruthful, Processed
<1>2. Len(engine.stack) = 0
  BY <1>1
<1>3. IsCode(bundle[m]) /\ DOMAIN bundle[m] = 1..Len(bundle[m])
  BY LenProperties DEF Loads, BundleInv, Asked, IsCode
<1>4. Past(bundle, engine, m) = 1..Len(bundle[m])
  BY <1>2 DEF Past, IsYetAt
<1>5. Ran(bundle, engine, m) = ToSet(bundle[m])
  BY <1>3, <1>4 DEF Ran, ToSet
<1>6. Tells(engine, m, ToSet(bundle[m]))
  BY <1>1, <1>5 DEF Truthful, TruthOf
<1>7. \A f \in Processed : Returned(engine, f)
  BY <1>1, <1>2 DEF Returned
<1>8. IsProgram(program)
  BY DEF Loads, BundleInv, Programmed
<1>9. ImportsBundled
  <2> SUFFICES ASSUME NEW l \in Processed PROVE Imports(l) \subseteq Processed
    BY DEF ImportsBundled
  <2>1. Closed(bundle)
    BY <1>1, BundleClosed DEF Loads
  <2>2. CASE l \in Code
    <3>1. Calls(bundle[l]) = Imports(l)
      BY <1>8, <2>2, ModuleIsCode DEF BundledAs, Loads, Imports
    <3> QED
      BY <2>1, <3>1 DEF Closed, Processed
  <2>3. CASE l \notin Code
    BY <2>3 DEF Imports
  <2> QED
    BY <2>2, <2>3
<1> QED
  BY <1>6, <1>7, <1>8, <1>9 DEF Tells

(* A module that has no code exports but its default.                         *)
LEMMA OtherIsRight ==
    ASSUME Loads, EveryModuleRuns, HasRun, Acyclic, NEW m \in Processed,
           m \notin Code, NEW n, n \notin Hidden
    PROVE  IsRight(m, n)
<1>1. PICK code : code = bundle[m]
  OBVIOUS
<1>2. \A i \in ToSet(code) : /\ i.do \in {"mark", "make", "export"}
                             /\ i.do = "export" => i.name = "default"
  BY <1>1, OtherBundled, OtherHas DEF Loads
<1>3. n \notin DOMAIN engine.cache[m]
  <2> SUFFICES ASSUME n \in DOMAIN engine.cache[m] PROVE FALSE
    OBVIOUS
  <2>1. PICK i \in ToSet(code) : GivenBy(engine, m, i, n)
    BY <1>1, AllTold
  <2> QED
    BY <1>2, <2>1 DEF GivenBy, Hidden
<1>4. EsExport(m, n) = {}
  <2>1. LooksIn(m, n) = {}
    BY DEF LooksIn
  <2> QED
    BY <2>1, AllTold, ExportComesFrom
<1> QED
  BY <1>3, <1>4 DEF IsRight

(* A code module has its own exports, ...                                     *)
LEMMA OwnIsRight ==
    ASSUME Loads, EveryModuleRuns, HasRun, Acyclic, ~Missing,
           NEW m \in Processed, m \in Code, NEW n, n \notin Hidden,
           n \in OwnNames(m),
           \A f \in Imports(m) : IsRight(f, n)
    PROVE  IsRight(m, n)
<1>1. PICK code : code = bundle[m]
  OBVIOUS
<1>2. /\ \A i \in ToSet(code) : Told(engine, m, i)
      /\ ImportsBundled /\ IsProgram(program)
  BY <1>1, AllTold
<1>3. code = CodeModule(program[m])
  BY <1>1 DEF Loads, BundledAs
<1>4. /\ \A f \in Source(m, n) : \E i \in ToSet(code) :
            i.do = "require" /\ i.path = f /\ n \in i.names
      /\ \A v \in Declarations(m, n) : \E i \in ToSet(code) :
            i.do = "make" /\ i.name = n /\ v = Value(m, n, i.kind)
      /\ \E i \in ToSet(code) : i.do = "export" /\ i.name = n
  BY <1>2, <1>3, ModuleHas
<1>5. /\ n \in DOMAIN engine.cache[m]
      /\ engine.cache[m][n] = At(engine.locals[m], n)
  <2>1. PICK i \in ToSet(code) : i.do = "export" /\ i.name = n
    BY <1>4
  <2> QED
    BY <1>2, <2>1 DEF Told
<1>6. PICK w : w \in EsExport(m, n)
  BY DEF Missing
<1>7. LooksIn(m, n) = Source(m, n)
  BY DEF LooksIn
<1>8. CASE Declarations(m, n) # {}
  <2>1. PICK v : v \in Declarations(m, n)
    BY <1>8
  <2>2. PICK i \in ToSet(code) : i.do = "make" /\ i.name = n /\ v = Value(m, n, i.kind)
    BY <1>4, <2>1
  <2>3. n \in DOMAIN engine.locals[m] /\ engine.locals[m][n] = v
    BY <1>2, <2>2 DEF Told
  <2>4. v \in EsExport(m, n)
    BY <1>2, <2>1, ExportComesFrom
  <2>5. engine.cache[m][n] = v
    BY <1>5, <2>3 DEF At
  <2> QED
    BY <1>5, <2>4, <2>5 DEF IsRight
<1>9. CASE Declarations(m, n) = {}
  <2>1. PICK f \in Source(m, n) : w \in EsExport(f, n)
    BY <1>2, <1>6, <1>7, <1>9, ExportComesFrom
  <2>2. f \in Imports(m) /\ EsExport(f, n) \subseteq EsExport(m, n)
    BY <1>2, <1>7, <2>1, LooksInImports, ExportComesFrom
  <2>3. n \in DOMAIN engine.cache[f] /\ engine.cache[f][n] \in EsExport(f, n)
    BY <2>1, <2>2 DEF IsRight
  <2>4. PICK i \in ToSet(code) : i.do = "require" /\ i.path = f /\ n \in i.names
    BY <1>4, <2>1
  <2>5. n \in DOMAIN engine.locals[m] /\ engine.locals[m][n] = At(engine.cache[f], n)
    BY <1>2, <2>4 DEF Told
  <2>6. engine.cache[m][n] = engine.cache[f][n]
    BY <1>5, <2>3, <2>5 DEF At
  <2>7. engine.cache[m][n] \in EsExport(m, n)
    BY <2>2, <2>3, <2>6
  <2> QED
    BY <1>5, <2>7 DEF IsRight
<1> QED
  BY <1>8, <1>9

(* ... and of other names what one that it exports all of has.                *)
LEMMA StarIsRight ==
    ASSUME Loads, EveryModuleRuns, HasRun, Acyclic,
           NEW m \in Processed, m \in Code, NEW n, n \notin Hidden,
           n \notin OwnNames(m),
           \A f \in Imports(m) : IsRight(f, n)
    PROVE  IsRight(m, n)
<1>1. PICK code : code = bundle[m]
  OBVIOUS
<1>2. /\ \A i \in ToSet(code) : Told(engine, m, i)
      /\ n \in DOMAIN engine.cache[m] =>
            \E i \in ToSet(code) : GivenBy(engine, m, i, n)
      /\ ImportsBundled /\ IsProgram(program)
  BY <1>1, AllTold
<1>3. code = CodeModule(program[m])
  BY <1>1 DEF Loads, BundledAs
<1>4. /\ \A i \in ToSet(code) :
            i.do = "export" /\ i.name \notin Hidden => i.name \in OwnNames(m)
      /\ \A f \in Stars(m) : \E i \in ToSet(code) :
            i.do = "assign" /\ i.path = f
      /\ \A i \in ToSet(code) : i.do = "assign" => i.path \in Stars(m)
  BY <1>2, <1>3, ModuleHas
<1>5. LooksIn(m, n) = Stars(m) /\ Stars(m) \subseteq Imports(m)
  BY LooksInImports DEF LooksIn
<1>6. ASSUME n \in DOMAIN engine.cache[m]
      PROVE  engine.cache[m][n] \in EsExport(m, n)
  <2>1. PICK i \in ToSet(code) : GivenBy(engine, m, i, n)
    BY <1>2, <1>6
  <2>2. /\ i.do = "assign" /\ i.path \in Stars(m)
        /\ n \in DOMAIN engine.cache[i.path]
        /\ engine.cache[m][n] = engine.cache[i.path][n]
    BY <1>4, <2>1 DEF GivenBy
  <2>3. PICK f : f = i.path
    OBVIOUS
  <2>4. f \in LooksIn(m, n) /\ IsRight(f, n)
    BY <1>5, <2>2, <2>3
  <2>5. EsExport(f, n) \subseteq EsExport(m, n)
    BY <1>2, <2>4, ExportComesFrom
  <2> QED
    BY <2>2, <2>3, <2>4, <2>5 DEF IsRight
<1>7. ASSUME EsExport(m, n) # {} PROVE n \in DOMAIN engine.cache[m]
  <2>1. PICK w : w \in EsExport(m, n)
    BY <1>7
  <2>2. PICK f \in Stars(m) : w \in EsExport(f, n)
    BY <1>2, <1>5, <2>1, ExportComesFrom
  <2>3. n \in DOMAIN engine.cache[f]
    BY <1>5, <2>2 DEF IsRight
  <2>4. PICK i \in ToSet(code) : i.do = "assign" /\ i.path = f
    BY <1>4, <2>2
  <2>5. (DOMAIN engine.cache[f]) \ Hidden \subseteq DOMAIN engine.cache[m]
    BY <1>2, <2>4 DEF Told
  <2> QED
    BY <2>3, <2>5
<1> QED
  BY <1>6, <1>7 DEF IsRight

(* No module is the first to be wrong.                                        *)
LEMMA AllAreRight ==
    ASSUME Loads, EveryModuleRuns, HasRun, Acyclic, ~Missing
    PROVE  \A m \in Processed : \A n : n \notin Hidden => IsRight(m, n)
<1> SUFFICES ASSUME NEW x \in Processed, NEW n, n \notin Hidden, ~IsRight(x, n)
             PROVE  FALSE
  OBVIOUS
<1> DEFINE C == {m \in Processed : ~IsRight(m, n)}
<1>1. C \in SUBSET Processed /\ C # {}
  OBVIOUS
<1>2. PICK m \in C : Imports(m) \cap C = {}
  BY <1>1 DEF Acyclic
<1>3. m \in Processed /\ ~IsRight(m, n)
  BY <1>2
<1>4. Imports(m) \subseteq Processed
  BY <1>3, AllTold DEF ImportsBundled
<1>5. \A f \in Imports(m) : IsRight(f, n)
  BY <1>2, <1>4
<1> HIDE DEF C
<1>6. IsRight(m, n)
  <2>1. CASE m \notin Code
    BY <1>3, <2>1, OtherIsRight
  <2>2. CASE m \in Code /\ n \in OwnNames(m)
    BY <1>3, <1>5, <2>2, OwnIsRight
  <2>3. CASE m \in Code /\ n \notin OwnNames(m)
    BY <1>3, <1>5, <2>3, StarIsRight
  <2> QED
    BY <2>1, <2>2, <2>3
<1> QED
  BY <1>3, <1>6

(* Where no name is ambiguous that says what each module exports.             *)
LEMMA ExportsAreTheirs ==
    ASSUME Loads, EveryModuleRuns PROVE ModulesExportTheirs
<1> SUFFICES ASSUME HasRun, Acyclic, ~Missing, NEW m \in Processed \cap Code,
                    ~Ambiguous(EsExports(m))
             PROVE  {<<n, engine.cache[m][n]>> :
                        n \in (DOMAIN engine.cache[m]) \ Hidden} = EsExports(m)
  BY DEF ModulesExportTheirs
<1>1. PICK own : own = engine.cache[m]
  OBVIOUS
<1>2. ASSUME NEW n, n \notin Hidden
      PROVE  /\ n \in DOMAIN own <=> EsExport(m, n) # {}
             /\ n \in DOMAIN own => own[n] \in EsExport(m, n)
  BY <1>1, <1>2, AllAreRight DEF IsRight
<1>3. ASSUME NEW n, NEW v \in EsExport(m, n)
      PROVE  <<n, v>> \in EsExports(m)
  <2>1. PICK k \in LeadsTo(m, n) \cap Code : n \in OwnNames(k)
    BY DEF EsExport
  <2>2. n \in UNION {OwnNames(l) : l \in Processed \cap Code}
    BY <2>1 DEF LeadsTo
  <2> QED
    BY <2>2 DEF EsExports
<1>4. ASSUME NEW x \in EsExports(m)
      PROVE  \E n : /\ n \notin Hidden
                    /\ \E v \in EsExport(m, n) : x = <<n, v>>
  BY DEF EsExports, OwnNames
<1>5. ASSUME NEW n \in (DOMAIN own) \ Hidden PROVE <<n, own[n]>> \in EsExports(m)
  BY <1>2, <1>3
<1>6. ASSUME NEW x \in EsExports(m)
      PROVE  \E n \in (DOMAIN own) \ Hidden : x = <<n, own[n]>>
  <2>1. PICK n, v : n \notin Hidden /\ v \in EsExport(m, n) /\ x = <<n, v>>
    BY <1>4
  <2>2. n \in DOMAIN own
    BY <1>2, <2>1
  <2>3. <<n, own[n]>> \in EsExports(m)
    BY <1>5, <2>1, <2>2
  <2>4. own[n] = v
    BY <2>1, <2>3 DEF Ambiguous
  <2> QED
    BY <2>1, <2>2, <2>4
<1> QED
  BY <1>1, <1>5, <1>6

(* When a bundle that parses has run, and its modules import each other in no *)
(* circle and what they export exists, each has exported what an ES module    *)
(* system would have it export.                                               *)
THEOREM ModulesExportAsTheyShould == Spec => []ModulesExportTheirs
<1>1. SpecificationInit => Loads
  <2> SUFFICES ASSUME SpecificationInit PROVE Loads
    OBVIOUS
  <2>1. EnginesTyped /\ EngineRunsAll /\ EngineTruthful
    BY NothingTyped
       DEF EnginesTyped, EngineRunsAll, EngineTruthful, SpecificationInit, Init
  <2> QED
    BY <2>1, BundleBegins, BundledAsBegins DEF Loads
<1>2. Loads /\ [Next]_vars => Loads'
  BY BundlerNextKeeps, BundleCompletes, EnginesStayTyped, EngineRunsOnAll,
     BundledAsStays, EngineStaysTruthful DEF Loads
<1>3. Loads /\ EveryModuleRuns => ModulesExportTheirs
  BY ExportsAreTheirs
<1> QED
  BY <1>1, <1>2, <1>3, ModulesAllRun, PTL DEF Spec
=============================================================================
