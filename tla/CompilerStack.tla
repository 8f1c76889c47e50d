---------------------------- MODULE CompilerStack ----------------------------
(* CompilerStack (interface/CompilerStack.cpp) and its two drivers, the command      *)
(* line and the standard JSON interface: one compilation from the sources given to   *)
(* the answer.                                                                       *)
(*                                                                                   *)
(* A file is a natural number, its place in the std::map of the sources.  What a     *)
(* file says is reduced to its imports, its contracts and the errors that each check *)
(* finds in it.  The checks themselves are not modelled, only the order in which     *)
(* they run, what each one answers and what becomes of the answer.  Warnings,        *)
(* remappings, the experimental pragma and the import of an AST are left out.        *)
EXTENDS Naturals, Sequences, FiniteSets, SequencesExt

CONSTANTS
  Files,      \* the files there are
  Stdlib,     \* those of the standard library, stdlib::sources
  Inputs,     \* the compilations to perform
  MaxErrors   \* c_maxErrorsAllowed, ErrorReporter.h:193

Contract == [name : STRING \ {""}, library : BOOLEAN, deployable : BOOLEAN]

\* The lists of functions with their identifiers: the public ones, and the private ones.
Lists == {"functionIds", "privateFunctionIds"}

\* What is asked for, what the files say, and which can be read.
Input ==
  [driver : {"cli", "json"}, given : (SUBSET Files) \ {{}}, requested : SUBSET Files,
   main : STRING, abi : BOOLEAN, code : BOOLEAN, ids : SUBSET Lists, ton : BOOLEAN,
   readable : SUBSET Files, imports : [Files -> Seq(Files)], contracts : [Files -> Seq(Contract)],
   faults : SUBSET [check : STRING, file : Files, kind : {"error", "fatal"}]]

ASSUME FilesAreOrdered == Files \subseteq Nat /\ IsFiniteSet(Files) /\ Stdlib \subseteq Files
ASSUME LimitIsNumber == MaxErrors \in Nat

\* Compilations as the drivers start them: the command line gives one file, and the
\* standard JSON interface is asked for sources that are given, and always makes the ABI
\* and both lists.
ASSUME InputsAreStarted ==
  /\ Inputs \subseteq Input
  /\ \A i \in Inputs : /\ i.driver = "cli" => Cardinality(i.given) = 1 /\ i.requested = {}
                       /\ i.driver = "json" => i.abi /\ i.ids = Lists
                       /\ i.requested \subseteq i.given

VARIABLES
  input,          \* what this compilation is about
  pc,             \* the function that runs
  m_stackState,   \* CompilerStack::State
  m_sources,      \* file -> "given" (not parsed yet), "ast" or "null"
  sourcesToParse, \* the worklist of parse, from its loop index on
  path,           \* the source that was parsed last
  importing,      \* its imports that the loop over them has not reached
  newSources,     \* the files loadMissingSources has read
  m_contracts,    \* the contract definitions, by file and name
  roots,          \* the sources resolveImports has not looked at yet
  visiting,       \* the calls of toposort: the file and its imports still to visit
  sourcesSeen,    \* the set of that name
  m_sourceOrder,
  pass,           \* the check of analyze that runs, an index into Passes
  toCheck,        \* the sources it has not seen yet
  noErrors,       \* the local flag of analyze and analyzeLegacy
  m_errorReporter,\* the errors reported
  artifacts,      \* what was generated, under which contract
  outcome         \* what the driver tells its user

vars == <<input, pc, m_stackState, m_sources, sourcesToParse, path, importing, newSources, m_contracts,
          roots, visiting, sourcesSeen, m_sourceOrder, pass, toCheck, noErrors, m_errorReporter,
          artifacts, outcome>>

parsing  == <<m_sources, sourcesToParse, path, importing, newSources, m_contracts>>
sorting  == <<roots, visiting, sourcesSeen, m_sourceOrder>>
checking == <<pass, toCheck, noErrors>>

NoContract == [name |-> "", library |-> FALSE, deployable |-> FALSE]

\* The order of a std::map.
Sorted(S) ==
  CHOOSE s \in [1 .. Cardinality(S) -> S] :
    Range(s) = S /\ \A i \in DOMAIN s : \A j \in DOMAIN s : i < j => s[i] < s[j]

-------------------------------------------------------------------------------
(* The error reporter.                                                               *)

\* checkForExcessiveErrors: the error behind the last allowed one becomes a
\* notice, and the report ends in a FatalError.
Reported(errors, error) ==
  Append(errors, IF Len(errors) < MaxErrors THEN error ELSE <<"excessive", 0>>)

Throws(errors, kind) == kind = "fatal" \/ Len(errors) >= MaxErrors

\* What the checks find: the kinds of error a check reports for a source.
Faults(check, file) == {f \in input.faults : f.check = check /\ f.file = file}

-------------------------------------------------------------------------------
(* The checks of analyze and analyzeLegacy, in their order.  `answer` says what the  *)
(* check returns: whether there are no errors "all" in all, whether it found none of *)
(* its "own", or nothing that depends on errors ("none": registerDeclarations fails  *)
(* only by a FatalError, the answer of ImmutableValidator is not looked at).         *)
(* `onFailure` is what becomes of a negative answer: "note" it in the flag, "return" *)
(* from the analysis, or "assign" the answer, whatever it is, to the flag.           *)

Check(name, answer, onFailure, guarded) ==
  [name |-> name, answer |-> answer, onFailure |-> onFailure, guarded |-> guarded]

Passes ==
  << Check("syntax", "all", "note", FALSE),
     Check("declarations", "none", "return", FALSE),
     Check("imports", "own", "return", FALSE),
     Check("docTags", "own", "note", FALSE),
     Check("names", "own", "return", FALSE),
     Check("declarationTypes", "own", "return", FALSE),
     Check("docTypes", "own", "note", FALSE),
     Check("contractLevel", "all", "assign", FALSE),
     Check("types", "all", "note", FALSE),
     Check("docStrings", "own", "note", TRUE),
     Check("postTypes", "all", "note", TRUE),
     Check("postContractLevel", "all", "note", TRUE),
     Check("immutables", "none", "note", TRUE),
     Check("flowGraph", "all", "note", TRUE),
     Check("flowAnalysis", "all", "note", TRUE),
     Check("static", "all", "note", TRUE),
     Check("viewPure", "own", "note", TRUE),
     Check("tvm", "all", "note", TRUE),
     Check("flag128", "all", "note", TRUE),
     Check("tvmTypes", "all", "note", TRUE),
     Check("packUnpack", "all", "note", TRUE) >>

\* `if (noErrors)` around a check, and the version of the TVM that TVMAnalyzerFlag128 is for.
Runs(p, clean) ==
  /\ Passes[p].guarded => clean
  /\ Passes[p].name = "flag128" => input.ton

\* Mutant: every check answers for itself, as with an ErrorWatcher.
Answer_Own(p, faults, errors) == Passes[p].answer # "none" => faults = {}

\* The answer of a check that found `faults`, when `errors` have been reported.
Answer(p, faults, errors) ==
  CASE Passes[p].answer = "all"  -> errors = << >>
    [] Passes[p].answer = "own"  -> faults = {}
    [] Passes[p].answer = "none" -> TRUE

-------------------------------------------------------------------------------
(* Starting, and the contract to generate code for.                                  *)

m_inputFile == CHOOSE f \in input.given : \A g \in input.given : f <= g

isRequestedSource(file) == input.requested = {} \/ file \in input.requested

\* The contracts that findMainContract takes into account: with a name asked
\* for, those of that name, otherwise all that could be meant.
Candidates ==
  {c \in Range(input.contracts[m_inputFile]) :
     /\ ~c.library
     /\ IF input.main # "" THEN c.name = input.main
        ELSE (input.abi /\ ~input.code) \/ c.deployable}

\* It looks only at the sources in their order; with no error and no
\* contract there is nothing to generate.
findMainContract ==
  LET found == IF m_inputFile \in Range(m_sourceOrder) THEN Candidates ELSE {}
      failed == \/ Cardinality(found) > 1
                \/ input.main # "" /\ found = {}
                \/ input.main # "" /\ input.code /\ \E c \in found : ~c.deployable
  IN [failed |-> failed,
      target |-> IF failed \/ found = {} THEN NoContract ELSE CHOOSE c \in found : TRUE]

\* contract(): the first definition with this name, whatever its file.
contract(name) ==
  LET all == {c \in m_contracts : c.name = name}
  IN CHOOSE c \in all : \A d \in all : c.file <= d.file

Init ==
  /\ input \in Inputs
  /\ pc = "setSources"
  /\ m_stackState = "Empty"
  /\ m_sources = << >>
  /\ sourcesToParse = << >>
  /\ path = m_inputFile /\ importing = << >> /\ newSources = {}
  /\ m_contracts = {}
  /\ roots = << >> /\ visiting = << >> /\ sourcesSeen = {} /\ m_sourceOrder = << >>
  /\ pass = 0 /\ toCheck = << >> /\ noErrors = TRUE
  /\ m_errorReporter = << >>
  /\ artifacts = {}
  /\ outcome = "none"

\* The driver sets the sources and calls compile, which calls parse.
setSources ==
  /\ pc = "setSources"
  /\ m_sources' = [f \in input.given |-> "given"]
  /\ sourcesToParse' = Sorted(input.given)
  /\ m_stackState' = "SourcesSet"
  /\ pc' = "parse"
  /\ UNCHANGED <<input, path, importing, newSources, m_contracts, m_errorReporter, artifacts, outcome>>
  /\ UNCHANGED sorting /\ UNCHANGED checking

-------------------------------------------------------------------------------
(* parse                                                                             *)

\* Parser::parse gives no AST after a FatalError, and an AST after other errors.
ParseSource ==
  /\ pc = "parse"
  /\ sourcesToParse # << >>
  /\ LET file   == Head(sourcesToParse)
         faults == Faults("parse", file)
         null   == \E f \in faults : Throws(m_errorReporter, f.kind)
     IN /\ m_sources' = [m_sources EXCEPT ![file] = IF null THEN "null" ELSE "ast"]
        /\ m_errorReporter' = IF faults = {} THEN m_errorReporter ELSE Reported(m_errorReporter, <<"parse", file>>)
        /\ pc' = IF null THEN pc ELSE "imports"
        /\ path' = file
        /\ importing' = IF null THEN << >> ELSE input.imports[file]
  /\ sourcesToParse' = Tail(sourcesToParse)
  /\ UNCHANGED <<input, m_stackState, newSources, m_contracts, artifacts, outcome>>
  /\ UNCHANGED sorting /\ UNCHANGED checking

\* A file of the standard library becomes a source, and is parsed (again) for every import.
FindInStdlib ==
  /\ pc = "imports"
  /\ importing # << >>
  /\ LET g == Head(importing)
     IN IF g \in Stdlib
        THEN /\ m_sources' = [f \in DOMAIN m_sources \cup {g} |-> IF f \in DOMAIN m_sources THEN m_sources[f] ELSE "given"]
             /\ sourcesToParse' = Append(sourcesToParse, g)
        ELSE UNCHANGED <<m_sources, sourcesToParse>>
  /\ importing' = Tail(importing)
  /\ UNCHANGED <<input, pc, m_stackState, path, newSources, m_contracts, m_errorReporter, artifacts, outcome>>
  /\ UNCHANGED sorting /\ UNCHANGED checking

StartLoading ==
  /\ pc = "imports"
  /\ importing = << >>
  /\ pc' = "missing"
  /\ importing' = input.imports[path]
  /\ newSources' = {}
  /\ UNCHANGED <<input, m_stackState, m_sources, sourcesToParse, path, m_contracts, m_errorReporter, artifacts, outcome>>
  /\ UNCHANGED sorting /\ UNCHANGED checking

\* Mutant: a known source is read again.
LoadImport_Known ==
  /\ pc = "missing"
  /\ importing # << >>
  /\ LET g       == Head(importing)
         known   == g \in newSources
         missing == ~known /\ g \notin input.readable
     IN /\ newSources' = IF known \/ missing THEN newSources ELSE newSources \cup {g}
        /\ m_errorReporter' = IF missing THEN Reported(m_errorReporter, <<"not found", g>>) ELSE m_errorReporter
        /\ importing' = IF missing /\ Throws(m_errorReporter, "error") THEN << >> ELSE Tail(importing)
  /\ UNCHANGED <<input, pc, m_stackState, m_sources, sourcesToParse, path, m_contracts, artifacts, outcome>>
  /\ UNCHANGED sorting /\ UNCHANGED checking

\* loadMissingSources reads the imports that are not known yet; a report that exceeds the
\* limit ends its loop, and what was read before is kept.
LoadImport ==
  /\ pc = "missing"
  /\ importing # << >>
  /\ LET g       == Head(importing)
         known   == g \in DOMAIN m_sources \cup newSources
         missing == ~known /\ g \notin input.readable
     IN /\ newSources' = IF known \/ missing THEN newSources ELSE newSources \cup {g}
        /\ m_errorReporter' = IF missing THEN Reported(m_errorReporter, <<"not found", g>>) ELSE m_errorReporter
        /\ importing' = IF missing /\ Throws(m_errorReporter, "error") THEN << >> ELSE Tail(importing)
  /\ UNCHANGED <<input, pc, m_stackState, m_sources, sourcesToParse, path, m_contracts, artifacts, outcome>>
  /\ UNCHANGED sorting /\ UNCHANGED checking

\* What was read is parsed later, in the order of the std::map.
EndLoading ==
  /\ pc = "missing"
  /\ importing = << >>
  /\ pc' = "parse"
  /\ m_sources' = [f \in DOMAIN m_sources \cup newSources |-> IF f \in newSources THEN "given" ELSE m_sources[f]]
  /\ sourcesToParse' = sourcesToParse \o Sorted(newSources)
  /\ UNCHANGED <<input, m_stackState, path, importing, newSources, m_contracts, m_errorReporter, artifacts, outcome>>
  /\ UNCHANGED sorting /\ UNCHANGED checking

\* The end of parse with storeContractDefinitions, and analyze up to its loop over m_sources.
EndParse ==
  /\ pc = "parse"
  /\ sourcesToParse = << >>
  /\ IF m_errorReporter # << >>
     THEN /\ pc' = "failed"
          /\ UNCHANGED <<m_stackState, m_contracts, roots>>
     ELSE /\ pc' = "resolveImports"
          /\ m_stackState' = "ParsedAndImported"
          /\ m_contracts' = UNION {{[file |-> f, name |-> c.name] : c \in Range(input.contracts[f])} : f \in DOMAIN m_sources}
          /\ roots' = Sorted(DOMAIN m_sources)
  /\ UNCHANGED <<input, m_sources, sourcesToParse, path, importing, newSources, visiting, sourcesSeen,
                 m_sourceOrder, m_errorReporter, artifacts, outcome>>
  /\ UNCHANGED checking

-------------------------------------------------------------------------------
(* resolveImports: a depth first search, one visit per step.                         *)

\* A call of toposort for a source not seen yet; it asserts that the source was parsed.
Enter(file, calls) ==
  IF file \in sourcesSeen THEN visiting' = calls /\ UNCHANGED <<sourcesSeen, pc>>
  ELSE /\ sourcesSeen' = sourcesSeen \cup {file}
       /\ visiting' = Append(calls, [file |-> file, todo |-> input.imports[file]])
       /\ pc' = IF m_sources[file] = "ast" THEN pc ELSE "assert"

SortRoot ==
  /\ pc = "resolveImports"
  /\ visiting = << >> /\ roots # << >>
  /\ roots' = Tail(roots)
  /\ IF isRequestedSource(Head(roots)) THEN Enter(Head(roots), << >>)
     ELSE UNCHANGED <<visiting, sourcesSeen, pc>>
  /\ UNCHANGED <<input, m_stackState, m_sourceOrder, m_errorReporter, artifacts, outcome>>
  /\ UNCHANGED parsing /\ UNCHANGED checking

\* The next import of the source on top, which must be a source.
SortImport ==
  /\ pc = "resolveImports"
  /\ visiting # << >> /\ Last(visiting).todo # << >>
  /\ LET file  == Head(Last(visiting).todo)
         calls == [visiting EXCEPT ![Len(visiting)].todo = Tail(@)]
     IN IF file \in DOMAIN m_sources THEN Enter(file, calls)
        ELSE pc' = "assert" /\ UNCHANGED <<visiting, sourcesSeen>>
  /\ UNCHANGED <<input, m_stackState, roots, m_sourceOrder, m_errorReporter, artifacts, outcome>>
  /\ UNCHANGED parsing /\ UNCHANGED checking

\* Mutant: the source goes to the front.
SortLeave_Front ==
  /\ pc = "resolveImports"
  /\ visiting # << >> /\ Last(visiting).todo = << >>
  /\ m_sourceOrder' = <<Last(visiting).file>> \o m_sourceOrder
  /\ visiting' = Front(visiting)
  /\ UNCHANGED <<input, pc, m_stackState, roots, sourcesSeen, m_errorReporter, artifacts, outcome>>
  /\ UNCHANGED parsing /\ UNCHANGED checking

\* sourceOrder.push_back at the end of toposort.
SortLeave ==
  /\ pc = "resolveImports"
  /\ visiting # << >> /\ Last(visiting).todo = << >>
  /\ m_sourceOrder' = Append(m_sourceOrder, Last(visiting).file)
  /\ visiting' = Front(visiting)
  /\ UNCHANGED <<input, pc, m_stackState, roots, sourcesSeen, m_errorReporter, artifacts, outcome>>
  /\ UNCHANGED parsing /\ UNCHANGED checking

EndSort ==
  /\ pc = "resolveImports"
  /\ visiting = << >> /\ roots = << >>
  /\ pc' = "analyze"
  /\ UNCHANGED <<input, m_stackState, m_errorReporter, artifacts, outcome>>
  /\ UNCHANGED parsing /\ UNCHANGED sorting /\ UNCHANGED checking

-------------------------------------------------------------------------------
(* analyze                                                                           *)

\* Mutant: the analysis does not look for the main contract.
StartPass_NoMain ==
  /\ pc = "analyze"
  /\ toCheck = << >> /\ pass < Len(Passes)
  /\ pass' = pass + 1
  /\ toCheck' = IF Runs(pass + 1, noErrors) THEN m_sourceOrder ELSE << >>
  /\ UNCHANGED <<input, pc, m_stackState, noErrors, m_errorReporter, artifacts, outcome>>
  /\ UNCHANGED parsing /\ UNCHANGED sorting

\* The next check; TVMTypeChecker's begins with the search for the main contract.
\* A FatalError is caught at the end of analyze.
StartPass ==
  /\ pc = "analyze"
  /\ toCheck = << >> /\ pass < Len(Passes)
  /\ pass' = pass + 1
  /\ LET reports == Passes[pass + 1].name = "tvmTypes" /\ noErrors /\ findMainContract.failed
     IN /\ m_errorReporter' = IF reports THEN Reported(m_errorReporter, <<"main", m_inputFile>>) ELSE m_errorReporter
        /\ pc' = IF reports /\ Throws(m_errorReporter, "error") THEN "failed" ELSE pc
  /\ toCheck' = IF Runs(pass + 1, noErrors) THEN m_sourceOrder ELSE << >>
  /\ UNCHANGED <<input, m_stackState, noErrors, artifacts, outcome>>
  /\ UNCHANGED parsing /\ UNCHANGED sorting

\* One source in one check.
CheckSource ==
  /\ pc = "analyze"
  /\ toCheck # << >>
  /\ LET file   == Head(toCheck)
         faults == Faults(Passes[pass].name, file)
         errors == IF faults = {} THEN m_errorReporter ELSE Reported(m_errorReporter, <<Passes[pass].name, file>>)
         thrown == \E f \in faults : Throws(m_errorReporter, f.kind)
         ok     == Answer(pass, faults, errors)
     IN /\ m_errorReporter' = errors
        /\ pc' = IF thrown \/ (~ok /\ Passes[pass].onFailure = "return") THEN "failed" ELSE pc
        /\ noErrors' = IF Passes[pass].onFailure = "assign" THEN ok ELSE noErrors /\ ok
  /\ toCheck' = Tail(toCheck)
  /\ UNCHANGED <<input, m_stackState, pass, artifacts, outcome>>
  /\ UNCHANGED parsing /\ UNCHANGED sorting

EndAnalysis ==
  /\ pc = "analyze"
  /\ toCheck = << >> /\ pass = Len(Passes)
  /\ IF noErrors THEN pc' = "compile" /\ m_stackState' = "AnalysisSuccessful"
     ELSE pc' = "failed" /\ UNCHANGED m_stackState
  /\ UNCHANGED <<input, m_errorReporter, artifacts, outcome>>
  /\ UNCHANGED parsing /\ UNCHANGED sorting /\ UNCHANGED checking

-------------------------------------------------------------------------------
(* compile, and what the drivers make of it.                                         *)

\* The contract that the results belong to: the main contract on the command line, and what
\* contract() finds under its name for the standard JSON interface.
Home(main) ==
  IF input.driver = "json" THEN contract(main.name) ELSE [file |-> m_inputFile, name |-> main.name]

canBeDeployed(home) == \E c \in Range(input.contracts[home.file]) : c.name = home.name /\ c.deployable

\* What compile sets out to make.  On the command line a list replaces the files.
Wanted(home) ==
  LET files == {k \in {"abi", "code"} : input[k]} IN
  IF input.driver = "json"
  THEN files \cup {k \in Lists : k = "privateFunctionIds" => canBeDeployed(home)}
  ELSE IF input.ids = {} THEN files
  ELSE {k \in input.ids : k = "privateFunctionIds" => "functionIds" \notin input.ids}

\* In which order: the command line writes the file with the code first.
Place == IF input.driver = "json" THEN [abi |-> 1, code |-> 2, functionIds |-> 3, privateFunctionIds |-> 4]
                                  ELSE [code |-> 1, abi |-> 2, functionIds |-> 3, privateFunctionIds |-> 4]

\* What ends in a FatalError: the code generator, which runs again for the list of private
\* functions, the command line's check of the contract for that list, and a file of the
\* command line that cannot be opened.
Fails(kind, home) ==
  LET file == CASE kind = "code" -> {"codeFile"} [] kind = "abi" -> {"abiFile"} [] kind \in Lists -> {}
  IN \/ kind = "code" /\ Faults("codegen", m_inputFile) # {}
     \/ kind = "privateFunctionIds" /\ (~canBeDeployed(home) \/ Faults("codegen", home.file) # {})
     \/ input.driver = "cli" /\ \E c \in file : Faults(c, m_inputFile) # {}

\* What was made before the first failure stays.
compile ==
  /\ pc = "compile"
  /\ LET main   == findMainContract
         home   == Home(main.target)
         asked  == input.abi \/ input.code \/ input.ids # {}
         wanted == IF asked /\ main.target # NoContract THEN Wanted(home) ELSE {}
         failed == {k \in wanted : Fails(k, home)}
         made   == {k \in wanted : \A j \in failed : Place[k] < Place[j]}
     IN /\ pc' = IF failed # {} THEN "failed" ELSE "succeeded"
        /\ m_stackState' = IF failed # {} THEN m_stackState ELSE "CompilationSuccessful"
        /\ m_errorReporter' =
             IF asked /\ main.failed THEN Reported(m_errorReporter, <<"main", m_inputFile>>)
             ELSE IF failed # {} THEN Reported(m_errorReporter, <<"compile", m_inputFile>>) ELSE m_errorReporter
        /\ artifacts' = {[of |-> home, kind |-> k] : k \in made}
  /\ UNCHANGED <<input, outcome>>
  /\ UNCHANGED parsing /\ UNCHANGED sorting /\ UNCHANGED checking

\* The command line fails if compile did; StandardCompiler goes by the state reached and by
\* the errors, and reports failures without errors as its own.
Report ==
  /\ pc \in {"failed", "succeeded"}
  /\ LET analysisFailed    == m_stackState \notin {"AnalysisSuccessful", "CompilationSuccessful"}
         compilationFailed == m_stackState # "CompilationSuccessful" /\ input.code
     IN outcome' = IF input.driver = "cli" THEN IF pc = "failed" THEN "errors" ELSE "ok"
                   ELSE IF m_errorReporter # << >> THEN "errors"
                   ELSE IF compilationFailed \/ analysisFailed THEN "inconsistent" ELSE "ok"
  /\ pc' = "done"
  /\ UNCHANGED <<input, m_stackState, m_errorReporter, artifacts>>
  /\ UNCHANGED parsing /\ UNCHANGED sorting /\ UNCHANGED checking

Next ==
  \/ setSources
  \/ ParseSource \/ FindInStdlib \/ StartLoading \/ LoadImport \/ EndLoading \/ EndParse
  \/ SortRoot \/ SortImport \/ SortLeave \/ EndSort
  \/ StartPass \/ CheckSource \/ EndAnalysis
  \/ compile \/ Report

Spec == Init /\ [][Next]_vars /\ WF_vars(Next)

-------------------------------------------------------------------------------
(* Properties.                                                                       *)

\* After a successful analysis the sources that were looked at contain the requested
\* ones and all that they import, and no check has, or would have, an error to report about
\* one of them: none of the answers that analyze drops, forgets or overwrites matters.
AnalysisIsComplete ==
  m_stackState \in {"AnalysisSuccessful", "CompilationSuccessful"} =>
    LET looked == Range(m_sourceOrder) IN
    /\ {f \in input.given : isRequestedSource(f)} \subseteq looked
    /\ \A f \in looked : Range(input.imports[f]) \subseteq looked
    /\ \A f \in looked : \A p \in DOMAIN Passes :
         (Passes[p].name = "flag128" => input.ton) => Faults(Passes[p].name, f) = {}

\* The files that can be reached from a file along imports.
Imported(file) ==
  {g \in Files : \A S \in SUBSET Files :
      (Range(input.imports[file]) \subseteq S /\ \A f \in S : Range(input.imports[f]) \subseteq S) => g \in S}

\* toposort puts every source behind those it imports, unless they import it in turn,
\* and none twice.  registerDeclarations, performImports and all checks rely on this order.
ImportsComeFirst ==
  /\ IsInjective(m_sourceOrder)
  /\ \A i \in DOMAIN m_sourceOrder : \A g \in Range(input.imports[m_sourceOrder[i]]) :
       m_sourceOrder[i] \in Imported(g) \/ \E j \in 1 .. i : m_sourceOrder[j] = g

\* The user learns the truth, and not of an assertion of toposort (an import that is not
\* among the sources, or was not parsed): a failure comes with an error that says why, success
\* means that no error was reported and what was asked for was generated.  Something is
\* generated only after a successful analysis; if compile then fails over something later,
\* what is left comes with an error, and the code that is left is from a code generator that
\* had no error.  "No error reported, but compilation failed." never appears.
OutcomeIsTrue ==
  /\ pc # "assert" /\ outcome # "inconsistent"
  /\ outcome = "ok" => m_errorReporter = << >> /\ m_stackState = "CompilationSuccessful"
  /\ outcome = "errors" => m_errorReporter # << >>
  /\ artifacts # {} => \/ m_stackState = "CompilationSuccessful"
                       \/ m_stackState = "AnalysisSuccessful" /\ m_errorReporter # << >> /\ outcome # "ok"
  /\ (\E a \in artifacts : a.kind = "code") => Faults("codegen", m_inputFile) = {}
  /\ pc = "done" /\ input.main # "" /\ outcome = "ok" /\ (input.driver = "cli" => input.ids = {}) =>
       \A k \in {"abi", "code"} : input[k] => \E a \in artifacts : a.kind = k /\ a.of.name = input.main

\* Every compilation ends, also with imports in a circle.
CompilationEnds == <>(pc = "done")
=============================================================================
