------------------------- MODULE CompilerStackProofs -------------------------
(* CompilerStack for every set of files, every import graph, all errors that the     *)
(* checks may find and every limit on their number.                                  *)
(*                                                                                   *)
(* The inductive invariant follows the phases: what is known of the sources while    *)
(* they are parsed (ParseOK), of the calls of toposort (SortOK), of the errors that  *)
(* analyze has heard of or not (ErrorsOK, ClearedOK), and of the answer (AnswerOK).  *)
EXTENDS CompilerStack, SequenceTheorems, FiniteSetTheorems, WellFoundedInduction, TLAPS

Imports(f) == Range(input.imports[f])
Looked == Range(m_sourceOrder)

Before == {"setSources", "parse", "imports", "missing"}
Phase == Before \cup {"resolveImports", "analyze", "compile", "failed", "succeeded", "done"}
State == {"Empty", "SourcesSet", "ParsedAndImported", "AnalysisSuccessful", "CompilationSuccessful"}
Call == [file : Files, todo : Seq(Files)]
Message == ({Passes[p].name : p \in DOMAIN Passes} \cup {"parse", "not found", "main", "compile", "excessive"}) \X Nat

\* The types of the variables; "assert" is no phase.
TypeOK ==
  /\ input \in Inputs
  /\ pc \in Phase
  /\ m_stackState \in State
  /\ DOMAIN m_sources \subseteq Files /\ \A f \in DOMAIN m_sources : m_sources[f] \in {"given", "ast", "null"}
  /\ sourcesToParse \in Seq(Files) /\ path \in Files /\ importing \in Seq(Files) /\ newSources \subseteq Files
  /\ m_contracts \subseteq [file : Files, name : STRING]
  /\ roots \in Seq(Files) /\ visiting \in Seq(Call) /\ sourcesSeen \subseteq Files /\ m_sourceOrder \in Seq(Files)
  /\ pass \in 0 .. 21 /\ toCheck \in Seq(Files) /\ noErrors \in BOOLEAN
  /\ m_errorReporter \in Seq(Message)
  /\ outcome \in {"none", "ok", "errors", "inconsistent"}

\* No error so far: sources are parsed or waiting, and imports of parsed ones are sources.
ParseOK ==
  /\ pc # "setSources" => input.given \subseteq DOMAIN m_sources
  /\ Range(sourcesToParse) \subseteq DOMAIN m_sources
  /\ pc \in {"imports", "missing"} => path \in DOMAIN m_sources
  /\ pc \in {"parse", "imports", "missing"} /\ m_errorReporter = << >> =>
       \A f \in DOMAIN m_sources :
         /\ m_sources[f] # "null"
         /\ m_sources[f] = "given" => f \in Range(sourcesToParse)
         /\ m_sources[f] = "ast" /\ (f # path \/ pc = "parse") => Imports(f) \subseteq DOMAIN m_sources
  /\ pc = "missing" /\ m_errorReporter = << >> =>
       Imports(path) \subseteq DOMAIN m_sources \cup newSources \cup Range(importing)
  /\ pc \in {"resolveImports", "analyze", "compile"} =>
       \A f \in DOMAIN m_sources : m_sources[f] = "ast" /\ Imports(f) \subseteq DOMAIN m_sources
  /\ pc \in {"resolveImports", "analyze", "compile"} => \A c \in Range(input.contracts[m_inputFile]) :
       [file |-> m_inputFile, name |-> c.name] \in m_contracts

\* The calls of toposort: every file is entered once; whoever is called is imported
\* by the caller, directly and so by all callers below; an import is seen or still to come.
SortOK ==
  /\ pc \in Before => visiting = << >> /\ sourcesSeen = {} /\ m_sourceOrder = << >>
  /\ pc \notin Before \cup {"resolveImports"} => visiting = << >>
  /\ pc = "resolveImports" =>
       /\ Range(roots) \cup sourcesSeen \subseteq DOMAIN m_sources
       /\ \A f \in DOMAIN m_sources : isRequestedSource(f) => f \in Range(roots) \cup sourcesSeen
  /\ sourcesSeen = Looked \cup {visiting[i].file : i \in DOMAIN visiting}
  /\ \A i \in DOMAIN visiting : \A j \in DOMAIN visiting : visiting[i].file = visiting[j].file => i = j
  /\ \A i \in DOMAIN visiting : visiting[i].file \notin Looked
  /\ \A i \in DOMAIN visiting : \A j \in DOMAIN visiting : i < j => visiting[j].file \in Imported(visiting[i].file)
  /\ \A i \in DOMAIN visiting : /\ Range(visiting[i].todo) \subseteq Imports(visiting[i].file)
                                /\ Imports(visiting[i].file) \subseteq sourcesSeen \cup Range(visiting[i].todo)
  /\ \A f \in Looked : Imports(f) \subseteq sourcesSeen

\* What analyze goes through is complete and not empty.
OrderOK ==
  pc \in {"analyze", "compile", "succeeded"} \/ m_stackState \in {"AnalysisSuccessful", "CompilationSuccessful"} =>
    /\ {f \in input.given : isRequestedSource(f)} \subseteq Looked
    /\ \A f \in Looked : Imports(f) \subseteq Looked

\* Where an error can be that the flag does not know of: behind registerDeclarations until
\* the answer of the contract level check overwrites the flag, behind the validator of
\* immutables until the flow graph, and behind the search for the main contract.
ErrorsOK ==
  /\ pc \in Before \cup {"resolveImports"} => pass = 0 /\ toCheck = << >> /\ noErrors
  /\ pc = "resolveImports" \/ (pc = "analyze" /\ pass = 0) => m_errorReporter = << >> /\ toCheck = << >>
  /\ pc = "analyze" /\ ~noErrors => m_errorReporter # << >>
  /\ pc = "analyze" /\ noErrors /\ m_errorReporter # << >> =>
       pass \in (2 .. 7) \cup {13} \/ (pass \in {8, 14, 20} /\ toCheck # << >>)
  /\ pc = "compile" => m_errorReporter = << >>
  /\ pc = "failed" => m_errorReporter # << >>
  /\ pc = "compile" <=> m_stackState = "AnalysisSuccessful" /\ pc \notin {"failed", "done"}

\* The checks that concern this version of the TVM.
Concerns(p) == Passes[p].name = "flag128" => input.ton
Clear(p, f) == Concerns(p) => Faults(Passes[p].name, f) = {}

\* Without errors all sources have passed the checks so far.
ClearedOK ==
  /\ pc = "analyze" /\ m_errorReporter = << >> =>
       /\ \A f \in Looked : \A p \in 1 .. 21 :
            p < pass \/ (p = pass /\ f \notin Range(toCheck)) => Clear(p, f)
       /\ pass >= 20 => ~findMainContract.failed
  /\ pc \in {"compile", "succeeded"} \/ m_stackState \in {"AnalysisSuccessful", "CompilationSuccessful"} =>
       (\A f \in Looked : \A p \in 1 .. 21 : Clear(p, f)) /\ ~findMainContract.failed

\* The answer and what has been generated.
AnswerOK ==
  /\ pc # "done" => outcome = "none"
  /\ pc \notin {"failed", "succeeded", "done"} => artifacts = {}
  /\ pc = "succeeded" => m_stackState = "CompilationSuccessful"
  /\ m_stackState = "CompilationSuccessful" => pc \in {"succeeded", "done"} /\ m_errorReporter = << >>
  /\ pc \in {"succeeded", "done"} /\ input.main # "" /\ m_stackState = "CompilationSuccessful"
     /\ (input.driver = "cli" => input.ids = {}) =>
         \A k \in {"abi", "code"} : input[k] => \E a \in artifacts : a.kind = k /\ a.of.name = input.main
  /\ OutcomeIsTrue

StackInv == TypeOK /\ ParseOK /\ SortOK /\ OrderOK /\ ErrorsOK /\ ClearedOK /\ AnswerOK /\ ImportsComeFirst
-------------------------------------------------------------------------------
(* Facts about the operators.                                                        *)

\* Sets of numbers have a least element.
LEMMA LeastExists ==
  ASSUME NEW S \in SUBSET Nat, S # {}
  PROVE  \E x \in S : \A y \in S : x <= y
<1> DEFINE R == {ss \in Nat \X Nat : ss[1] < ss[2]}
<1>1. IsWellFoundedOn(R, Nat)
  BY NatLessThanWellFounded, Zenon DEF OpToRel
<1> HIDE DEF R
<1>2. PICK x \in S : \A y \in S : ~(<<y, x>> \in R)
  BY <1>1, WFMin
<1>3. ASSUME NEW y \in S PROVE x <= y
  <2>1. <<y, x>> \in Nat \X Nat /\ <<y, x>>[1] = y /\ <<y, x>>[2] = x
    OBVIOUS
  <2>2. ~(<<y, x>>[1] < <<y, x>>[2])
    BY <1>2, <2>1, Zenon DEF R
  <2> QED BY <2>1, <2>2
<1> QED BY <1>3

\* The files can be put in order: the least one first, then the others.
LEMMA SortedExists ==
  ASSUME NEW S \in SUBSET Files
  PROVE  \E s \in [1 .. Cardinality(S) -> S] :
            Range(s) = S /\ \A i \in DOMAIN s : \A j \in DOMAIN s : i < j => s[i] < s[j]
<1> DEFINE Enum(T) == \E s \in [1 .. Cardinality(T) -> T] :
                         Range(s) = T /\ \A i \in DOMAIN s : \A j \in DOMAIN s : i < j => s[i] < s[j]
           Bad == {n \in Nat : \E T \in SUBSET Files : Cardinality(T) = n /\ ~Enum(T)}
<1>1. \A T \in SUBSET Files : IsFiniteSet(T) /\ Cardinality(T) \in Nat
  BY FilesAreOrdered, FS_Subset, FS_CardinalityType
<1>2. SUFFICES Bad = {}
  BY <1>1
<1>3. SUFFICES ASSUME Bad # {} PROVE FALSE
  OBVIOUS
<1>4. PICK n \in Bad : \A m \in Bad : n <= m
  <2>1. Bad \in SUBSET Nat
    OBVIOUS
  <2> HIDE DEF Bad
  <2> QED BY <1>3, <2>1, LeastExists
<1>5. PICK T \in SUBSET Files : Cardinality(T) = n /\ ~Enum(T)
  BY <1>4
<1>6. CASE T = {}
  <2>1. Cardinality(T) = 0
    BY <1>6, FS_EmptySet
  <2>2. << >> \in [1 .. 0 -> {}] /\ DOMAIN << >> = {} /\ Range(<< >>) = {}
    BY DEF Range
  <2> QED BY <1>5, <1>6, <2>1, <2>2
<1>7. CASE T # {}
  <2>1. PICK x \in T : \A y \in T : x <= y
    BY <1>7, LeastExists, FilesAreOrdered
  <2> DEFINE U == T \ {x}
  <2>2. U \in SUBSET Files /\ Cardinality(U) = n - 1 /\ n \in Nat /\ n - 1 \in Nat
    <3>1. n \in Nat /\ IsFiniteSet(T) /\ Cardinality(T) = n
      BY <1>1, <1>5
    <3>2. n # 0
      BY <1>7, <3>1, FS_EmptySet
    <3>3. Cardinality(T \ {x}) = Cardinality(T) - 1
      BY <2>1, <3>1, FS_RemoveElement
    <3>4. T \ {x} \in SUBSET Files
      BY <1>5
    <3> QED BY <3>1, <3>2, <3>3, <3>4
  <2>3. Enum(U)
    <3>1. ~(n <= n - 1)
      BY <2>2
    <3>2. n - 1 \notin Bad
      BY <1>4, <3>1
    <3> HIDE DEF Enum, U
    <3> QED BY <2>2, <3>2
  <2>4. PICK s \in [1 .. n - 1 -> U] : Range(s) = U /\ \A i \in DOMAIN s : \A j \in DOMAIN s : i < j => s[i] < s[j]
    BY <2>2, <2>3
  <2> DEFINE t == [i \in 1 .. n |-> IF i = 1 THEN x ELSE s[i - 1]]
  <2>5. \A i \in 2 .. n : i - 1 \in 1 .. n - 1 /\ t[i] = s[i - 1] /\ t[i] \in U
    BY <2>2, <2>4
  <2>6. t[1] = x /\ 1 \in 1 .. n /\ DOMAIN t = 1 .. n
    BY <2>2
  <2>7. t \in [1 .. n -> T]
    BY <2>1, <2>2, <2>5, <2>6
  <2>8. Range(t) = T
    <3>1. ASSUME NEW y \in U PROVE \E i \in 1 .. n : t[i] = y
      <4>1. PICK j \in 1 .. n - 1 : s[j] = y
        BY <2>4 DEF Range
      <4>2. j + 1 \in 2 .. n /\ (j + 1) - 1 = j /\ j + 1 \in 1 .. n
        BY <2>2
      <4> QED BY <2>5, <4>1, <4>2
    <3>2. \A y \in T : \E i \in 1 .. n : t[i] = y
      BY <2>6, <3>1
    <3> HIDE DEF t
    <3> QED BY <2>6, <2>7, <3>2 DEF Range
  <2>9. ASSUME NEW i \in 1 .. n, NEW j \in 1 .. n, i < j PROVE t[i] < t[j]
    <3>1. j \in 2 .. n /\ t[j] \in U
      BY <2>2, <2>5, <2>9
    <3>2. CASE i = 1
      <4>1. x \in Nat /\ t[j] \in Nat /\ x # t[j] /\ x <= t[j]
        BY <2>1, <3>1, FilesAreOrdered
      <4>2. x < t[j]
        BY <4>1
      <4> QED BY <2>6, <3>2, <4>2
    <3>3. CASE i # 1
      <4>1. i \in 2 .. n /\ i - 1 < j - 1
        BY <2>2, <2>9, <3>1, <3>3
      <4>2. s[i - 1] < s[j - 1]
        BY <2>4, <2>5, <3>1, <4>1
      <4> QED BY <2>5, <3>1, <4>1, <4>2
    <3> QED BY <3>2, <3>3
  <2> HIDE DEF t
  <2>10. Enum(T)
    BY <1>5, <2>6, <2>7, <2>8, <2>9
  <2> QED BY <1>5, <2>10
<1> QED BY <1>6, <1>7

\* What Sorted returns.
LEMMA SortedFacts ==
  ASSUME NEW S \in SUBSET Files
  PROVE  Sorted(S) \in Seq(Files) /\ Range(Sorted(S)) = S
<1>1. Sorted(S) \in [1 .. Cardinality(S) -> S] /\ Range(Sorted(S)) = S
  BY SortedExists DEF Sorted
<1>2. Cardinality(S) \in Nat
  BY FilesAreOrdered, FS_Subset, FS_CardinalityType
<1>3. Sorted(S) \in [1 .. Cardinality(S) -> Files]
  BY <1>1
<1> QED BY <1>1, <1>2, <1>3

\* The elements of sequences.
LEMMA HeadAndTail ==
  ASSUME NEW S, NEW s \in Seq(S), s # << >>
  PROVE  /\ Head(s) \in S /\ Tail(s) \in Seq(S)
         /\ Range(s) = {Head(s)} \cup Range(Tail(s))
<1>1. Head(s) \in S /\ Tail(s) \in Seq(S) /\ Len(s) \in Nat \ {0} /\ Len(Tail(s)) = Len(s) - 1
  BY HeadTailProperties, EmptySeq
<1>2. \A i \in 1 .. Len(s) - 1 : Tail(s)[i] = s[i + 1]
  BY <1>1, HeadTailProperties
<1>3. Head(s) = s[1] /\ DOMAIN s = 1 .. Len(s) /\ DOMAIN Tail(s) = 1 .. Len(s) - 1
  BY <1>1
<1>4. ASSUME NEW i \in 2 .. Len(s) PROVE s[i] \in Range(Tail(s))
  <2>1. i - 1 \in 1 .. Len(s) - 1 /\ (i - 1) + 1 = i
    BY <1>1
  <2> QED BY <1>2, <1>3, <2>1 DEF Range
<1>5. ASSUME NEW i \in 1 .. Len(s) - 1 PROVE Tail(s)[i] \in Range(s)
  BY <1>1, <1>2, <1>3 DEF Range
<1>6. Range(s) \subseteq {Head(s)} \cup Range(Tail(s))
  BY <1>1, <1>3, <1>4 DEF Range
<1>7. {Head(s)} \cup Range(Tail(s)) \subseteq Range(s)
  BY <1>1, <1>3, <1>5 DEF Range
<1> QED BY <1>1, <1>6, <1>7

\* push_back.
LEMMA AppendFacts ==
  ASSUME NEW S, NEW s \in Seq(S), NEW e \in S
  PROVE  /\ Append(s, e) \in Seq(S) /\ Append(s, e) # << >> /\ Range(Append(s, e)) = Range(s) \cup {e}
         /\ Len(s) \in Nat /\ Len(Append(s, e)) = Len(s) + 1 /\ Append(s, e)[Len(s) + 1] = e
         /\ \A i \in 1 .. Len(s) : Append(s, e)[i] = s[i]
<1> DEFINE t == Append(s, e)
<1>1. /\ t \in Seq(S) /\ Len(s) \in Nat /\ Len(t) = Len(s) + 1 /\ t[Len(s) + 1] = e
      /\ \A i \in 1 .. Len(s) : t[i] = s[i]
  OBVIOUS
<1>2. DOMAIN t = 1 .. Len(s) + 1 /\ DOMAIN s = 1 .. Len(s)
  BY <1>1
<1> HIDE DEF t
<1>3. Range(t) = Range(s) \cup {e}
  BY <1>1, <1>2 DEF Range
<1>4. t # << >>
  BY <1>1
<1> QED BY <1>1, <1>3, <1>4 DEF t

\* The sources read are put behind the others.
LEMMA ConcatFacts ==
  ASSUME NEW S, NEW s \in Seq(S), NEW t \in Seq(S)
  PROVE  s \o t \in Seq(S) /\ Range(s \o t) = Range(s) \cup Range(t)
<1> DEFINE u == s \o t
<1>1. /\ u \in Seq(S) /\ Len(s) \in Nat /\ Len(t) \in Nat /\ Len(u) = Len(s) + Len(t)
      /\ \A i \in 1 .. Len(s) + Len(t) : u[i] = IF i <= Len(s) THEN s[i] ELSE t[i - Len(s)]
  BY ConcatProperties, LenProperties
<1>2. DOMAIN u = 1 .. Len(s) + Len(t) /\ DOMAIN s = 1 .. Len(s) /\ DOMAIN t = 1 .. Len(t)
  BY <1>1
<1> HIDE DEF u
<1>3. ASSUME NEW i \in 1 .. Len(t) PROVE t[i] \in Range(u)
  <2>1. i + Len(s) \in 1 .. Len(s) + Len(t) /\ ~(i + Len(s) <= Len(s)) /\ (i + Len(s)) - Len(s) = i
    BY <1>1
  <2> QED BY <1>1, <1>2, <2>1 DEF Range
<1>4. ASSUME NEW i \in 1 .. Len(s) PROVE s[i] \in Range(u)
  BY <1>1, <1>2 DEF Range
<1>5. ASSUME NEW i \in 1 .. Len(s) + Len(t) PROVE u[i] \in Range(s) \cup Range(t)
  <2>1. CASE i <= Len(s)
    <3>1. i \in 1 .. Len(s) /\ u[i] = s[i]
      BY <1>1, <2>1
    <3> QED BY <1>2, <3>1 DEF Range
  <2>2. CASE ~(i <= Len(s))
    <3>1. i - Len(s) \in 1 .. Len(t)
      BY <1>1, <2>2
    <3>2. u[i] = t[i - Len(s)]
      BY <1>1, <2>2
    <3> QED BY <1>2, <3>1, <3>2 DEF Range
  <2> QED BY <2>1, <2>2
<1>6. Range(u) = Range(s) \cup Range(t)
  BY <1>2, <1>3, <1>4, <1>5 DEF Range
<1> QED BY <1>1, <1>6 DEF u

\* The top of the stack of calls.
LEMMA LastAndFront ==
  ASSUME NEW S, NEW s \in Seq(S), s # << >>
  PROVE  /\ Len(s) \in Nat \ {0} /\ Len(s) \in DOMAIN s /\ DOMAIN s = 1 .. Len(s)
         /\ Last(s) = s[Len(s)] /\ Last(s) \in S
         /\ Front(s) \in Seq(S) /\ DOMAIN Front(s) = 1 .. Len(s) - 1
         /\ \A i \in 1 .. Len(s) - 1 : Front(s)[i] = s[i]
<1>1. Len(s) \in Nat \ {0} /\ DOMAIN s = 1 .. Len(s)
  BY EmptySeq
<1>2. Last(s) = s[Len(s)] /\ s[Len(s)] \in S /\ Len(s) \in DOMAIN s
  BY <1>1 DEF Last
<1>3. /\ Front(s) \in Seq(S) /\ Len(Front(s)) = Len(s) - 1
      /\ \A i \in 1 .. Len(s) - 1 : Front(s)[i] = s[i]
  BY <1>1, SubSeqProperties, Z3 DEF Front
<1>4. DOMAIN Front(s) = 1 .. Len(s) - 1
  BY <1>3
<1> QED BY <1>1, <1>2, <1>3, <1>4

\* The fields of the input, and the file the command line names.
LEMMA InputFacts ==
  ASSUME input \in Inputs
  PROVE  /\ input.given \subseteq Files /\ input.given # {} /\ input.requested \subseteq input.given
         /\ input.imports \in [Files -> Seq(Files)] /\ input.contracts \in [Files -> Seq(Contract)]
         /\ input.abi \in BOOLEAN /\ input.code \in BOOLEAN /\ input.ton \in BOOLEAN
         /\ input.main \in STRING /\ input.driver \in {"cli", "json"}
         /\ m_inputFile \in input.given /\ m_inputFile \in Files
<1>1. input \in Input /\ input.requested \subseteq input.given
  BY InputsAreStarted
<1>2. /\ input.given \subseteq Files /\ input.given # {}
      /\ input.imports \in [Files -> Seq(Files)] /\ input.contracts \in [Files -> Seq(Contract)]
      /\ input.abi \in BOOLEAN /\ input.code \in BOOLEAN /\ input.ton \in BOOLEAN
      /\ input.main \in STRING /\ input.driver \in {"cli", "json"}
  BY <1>1 DEF Input
<1>3. \E f \in input.given : \A g \in input.given : f <= g
  BY <1>2, LeastExists, FilesAreOrdered
<1>4. m_inputFile \in input.given
  BY <1>3, Zenon DEF m_inputFile
<1> QED BY <1>1, <1>2, <1>4

\* What the proofs need to know of the list of checks.
LEMMA PassFacts ==
  /\ Len(Passes) = 21 /\ DOMAIN Passes = 1 .. 21
  /\ \A p \in 1 .. 21 :
       /\ Passes[p].answer \in {"all", "own", "none"}
       /\ Passes[p].answer = "none" => p \in {2, 13}
       /\ Passes[p].answer = "own" => p \notin {1, 8, 14, 20}
       /\ Passes[p].onFailure = "assign" => Passes[p].answer = "all"
       /\ Passes[p].name = "tvmTypes" <=> p = 20
       /\ p \in {8, 14, 20} => Passes[p].name # "flag128"
  /\ ~Passes[8].guarded
<1>1. Len(Passes) = 21 /\ DOMAIN Passes = 1 .. 21
  BY DEF Passes
<1>2. /\ Passes[1].answer = "all" /\ Passes[1].onFailure = "note" /\ Passes[1].name = "syntax"
      /\ Passes[2].answer = "none" /\ Passes[2].onFailure = "return" /\ Passes[2].name = "declarations"
      /\ Passes[3].answer = "own" /\ Passes[3].onFailure = "return" /\ Passes[3].name = "imports"
      /\ Passes[4].answer = "own" /\ Passes[4].onFailure = "note" /\ Passes[4].name = "docTags"
      /\ Passes[5].answer = "own" /\ Passes[5].onFailure = "return" /\ Passes[5].name = "names"
      /\ Passes[6].answer = "own" /\ Passes[6].onFailure = "return" /\ Passes[6].name = "declarationTypes"
      /\ Passes[7].answer = "own" /\ Passes[7].onFailure = "note" /\ Passes[7].name = "docTypes"
  BY DEF Passes, Check
<1>3. /\ Passes[8].answer = "all" /\ Passes[8].onFailure = "assign" /\ Passes[8].name = "contractLevel"
      /\ Passes[9].answer = "all" /\ Passes[9].onFailure = "note" /\ Passes[9].name = "types"
      /\ Passes[10].answer = "own" /\ Passes[10].onFailure = "note" /\ Passes[10].name = "docStrings"
      /\ Passes[11].answer = "all" /\ Passes[11].onFailure = "note" /\ Passes[11].name = "postTypes"
      /\ Passes[12].answer = "all" /\ Passes[12].onFailure = "note" /\ Passes[12].name = "postContractLevel"
      /\ Passes[13].answer = "none" /\ Passes[13].onFailure = "note" /\ Passes[13].name = "immutables"
      /\ Passes[14].answer = "all" /\ Passes[14].onFailure = "note" /\ Passes[14].name = "flowGraph"
      /\ Passes[8].guarded = FALSE
  BY DEF Passes, Check
<1>4. /\ Passes[15].answer = "all" /\ Passes[15].onFailure = "note" /\ Passes[15].name = "flowAnalysis"
      /\ Passes[16].answer = "all" /\ Passes[16].onFailure = "note" /\ Passes[16].name = "static"
      /\ Passes[17].answer = "own" /\ Passes[17].onFailure = "note" /\ Passes[17].name = "viewPure"
      /\ Passes[18].answer = "all" /\ Passes[18].onFailure = "note" /\ Passes[18].name = "tvm"
      /\ Passes[19].answer = "all" /\ Passes[19].onFailure = "note" /\ Passes[19].name = "flag128"
      /\ Passes[20].answer = "all" /\ Passes[20].onFailure = "note" /\ Passes[20].name = "tvmTypes"
      /\ Passes[21].answer = "all" /\ Passes[21].onFailure = "note" /\ Passes[21].name = "packUnpack"
  BY DEF Passes, Check
<1>5. ASSUME NEW p \in 1 .. 21
      PROVE  \/ p = 1 \/ p = 2 \/ p = 3 \/ p = 4 \/ p = 5 \/ p = 6 \/ p = 7
             \/ p = 8 \/ p = 9 \/ p = 10 \/ p = 11 \/ p = 12 \/ p = 13 \/ p = 14
             \/ p = 15 \/ p = 16 \/ p = 17 \/ p = 18 \/ p = 19 \/ p = 20 \/ p = 21
  OBVIOUS
<1>6. ASSUME NEW p \in 1 .. 21
      PROVE  /\ Passes[p].answer \in {"all", "own", "none"}
             /\ Passes[p].answer = "none" => p \in {2, 13}
             /\ Passes[p].answer = "own" => p \notin {1, 8, 14, 20}
             /\ Passes[p].onFailure = "assign" => Passes[p].answer = "all"
  BY <1>2, <1>3, <1>4, <1>5
<1>7. ASSUME NEW p \in 1 .. 21
      PROVE  /\ Passes[p].name = "tvmTypes" <=> p = 20
             /\ p \in {8, 14, 20} => Passes[p].name # "flag128"
  BY <1>2, <1>3, <1>4, <1>5
<1> QED BY <1>1, <1>3, <1>6, <1>7

\* What a check answers.
LEMMA AnswerFacts ==
  ASSUME NEW p \in 1 .. 21, NEW faults, NEW errors
  PROVE  /\ Answer(p, faults, errors) \in BOOLEAN
         /\ Passes[p].answer = "all" => (Answer(p, faults, errors) <=> errors = << >>)
         /\ Passes[p].answer = "own" => (Answer(p, faults, errors) <=> faults = {})
         /\ Passes[p].answer = "none" => Answer(p, faults, errors)
<1>1. Passes[p].answer \in {"all", "own", "none"}
  BY PassFacts
<1> QED BY <1>1 DEF Answer

\* Imports of imports.
LEMMA ImportedFacts ==
  ASSUME input \in Inputs, NEW f \in Files
  PROVE  /\ Imports(f) \subseteq Files /\ Imports(f) \subseteq Imported(f) /\ Imported(f) \subseteq Files
         /\ \A g \in Imported(f) : Imports(g) \subseteq Imported(f)
<1>1. \A g \in Files : Imports(g) \subseteq Files
  BY InputFacts DEF Imports, Range
<1>2. Imports(f) \subseteq Imported(f) /\ Imported(f) \subseteq Files
  BY <1>1 DEF Imported, Imports
<1>3. ASSUME NEW g \in Imported(f), NEW h \in Imports(g) PROVE h \in Imported(f)
  <2>1. g \in Files /\ h \in Files
    BY <1>1, <1>2
  <2>2. ASSUME NEW S \in SUBSET Files, Imports(f) \subseteq S, \A k \in S : Imports(k) \subseteq S PROVE h \in S
    <3>1. g \in S
      BY <2>2 DEF Imported, Imports
    <3> QED BY <2>2, <3>1
  <2> QED BY <2>1, <2>2 DEF Imported, Imports
<1> QED BY <1>1, <1>2, <1>3

\* A report is never the end of all reports.
LEMMA ReportedFacts ==
  ASSUME NEW errors \in Seq(Message), NEW error \in Message
  PROVE  Reported(errors, error) \in Seq(Message) /\ Reported(errors, error) # << >>
<1>1. <<"excessive", 0>> \in Message
  BY DEF Message
<1> DEFINE e == IF Len(errors) < MaxErrors THEN error ELSE <<"excessive", 0>>
<1>2. e \in Message
  BY <1>1
<1> HIDE DEF e
<1>3. Append(errors, e) \in Seq(Message) /\ Append(errors, e) # << >>
  BY <1>2, AppendFacts
<1> QED BY <1>3 DEF Reported, e
-------------------------------------------------------------------------------
(* What the steps of toposort do.                                                    *)

\* A root is a parsed source, and entered at most once.
LEMMA SortRootIs ==
  ASSUME TypeOK, ParseOK, SortOK, SortRoot
  PROVE  /\ pc' = pc /\ Head(roots) \in Files /\ Head(roots) \in DOMAIN m_sources
         /\ Range(roots) = {Head(roots)} \cup Range(roots') /\ roots' \in Seq(Files)
         /\ \/ /\ Head(roots) \in sourcesSeen \/ ~isRequestedSource(Head(roots))
               /\ visiting' = visiting /\ sourcesSeen' = sourcesSeen
            \/ /\ Head(roots) \notin sourcesSeen
               /\ visiting' = <<[file |-> Head(roots), todo |-> input.imports[Head(roots)]]>>
               /\ sourcesSeen' = sourcesSeen \cup {Head(roots)}
<1>1. roots \in Seq(Files) /\ roots # << >> /\ roots' = Tail(roots) /\ pc = "resolveImports" /\ visiting = << >>
  BY DEF TypeOK, SortRoot
<1>2. Head(roots) \in Files /\ Tail(roots) \in Seq(Files) /\ Range(roots) = {Head(roots)} \cup Range(Tail(roots))
  BY <1>1, HeadAndTail
<1>3. Head(roots) \in DOMAIN m_sources /\ m_sources[Head(roots)] = "ast"
  BY <1>1, <1>2 DEF ParseOK, SortOK
<1> DEFINE c == [file |-> Head(roots), todo |-> input.imports[Head(roots)]]
<1>4. Append(<< >>, c) = <<c>>
  OBVIOUS
<1> QED BY <1>1, <1>2, <1>3, <1>4 DEF SortRoot, Enter

\* The source on top of the calls: what is known of it.
LEMMA TopIs ==
  ASSUME TypeOK, ParseOK, SortOK, pc = "resolveImports", visiting # << >>
  PROVE  LET n == Len(visiting) IN
         /\ n \in Nat \ {0} /\ DOMAIN visiting = 1 .. n /\ n \in DOMAIN visiting
         /\ Last(visiting) = visiting[n]
         /\ \A i \in 1 .. n : visiting[i] \in Call /\ visiting[i].file \in Files /\ visiting[i].todo \in Seq(Files)
         /\ visiting[n].file \in sourcesSeen /\ visiting[n].file \in DOMAIN m_sources
         /\ Imports(visiting[n].file) \subseteq DOMAIN m_sources
<1>1. visiting \in Seq(Call)
  BY DEF TypeOK
<1>2. /\ Len(visiting) \in Nat \ {0} /\ DOMAIN visiting = 1 .. Len(visiting) /\ Len(visiting) \in DOMAIN visiting
      /\ Last(visiting) = visiting[Len(visiting)]
  BY <1>1, LastAndFront
<1>3. \A i \in 1 .. Len(visiting) : visiting[i] \in Call
  BY <1>1, <1>2
<1>4. \A i \in 1 .. Len(visiting) : visiting[i].file \in Files /\ visiting[i].todo \in Seq(Files)
  BY <1>3 DEF Call
<1>5. visiting[Len(visiting)].file \in sourcesSeen
  BY <1>2 DEF SortOK
<1>6. visiting[Len(visiting)].file \in DOMAIN m_sources
  BY <1>5 DEF SortOK
<1>7. Imports(visiting[Len(visiting)].file) \subseteq DOMAIN m_sources
  BY <1>6 DEF ParseOK
<1> QED BY <1>2, <1>3, <1>4, <1>5, <1>6, <1>7

\* The calls when the one on top goes on to its next import.
Advanced(calls) ==
  /\ calls \in Seq(Call) /\ Len(calls) = Len(visiting) /\ DOMAIN calls = DOMAIN visiting
  /\ \A i \in DOMAIN visiting : calls[i].file = visiting[i].file
  /\ \A i \in DOMAIN visiting : i # Len(visiting) => calls[i].todo = visiting[i].todo
  /\ calls[Len(visiting)].todo = Tail(visiting[Len(visiting)].todo)

\* An import is a parsed source, and entered at most once.
LEMMA SortImportIs ==
  ASSUME TypeOK, ParseOK, SortOK, SortImport
  PROVE  LET n    == Len(visiting)
             file == Head(visiting[n].todo)
         IN /\ pc' = pc /\ visiting[n].todo # << >> /\ visiting[n].todo \in Seq(Files)
            /\ file \in Files /\ file \in Imports(visiting[n].file) /\ file \in DOMAIN m_sources
            /\ Range(visiting[n].todo) = {file} \cup Range(Tail(visiting[n].todo))
            /\ \E calls : /\ Advanced(calls)
                          /\ \/ file \in sourcesSeen /\ visiting' = calls /\ sourcesSeen' = sourcesSeen
                             \/ /\ file \notin sourcesSeen /\ sourcesSeen' = sourcesSeen \cup {file}
                                /\ visiting' = Append(calls, [file |-> file, todo |-> input.imports[file]])
<1> DEFINE n == Len(visiting)
           todo == visiting[n].todo
           file == Head(todo)
           calls == [visiting EXCEPT ![n].todo = Tail(@)]
<1>1. pc = "resolveImports" /\ visiting # << >>
  BY DEF SortImport
<1>2. /\ n \in Nat \ {0} /\ DOMAIN visiting = 1 .. n /\ n \in DOMAIN visiting
      /\ Last(visiting) = visiting[n]
      /\ \A i \in 1 .. n : visiting[i] \in Call /\ visiting[i].file \in Files /\ visiting[i].todo \in Seq(Files)
      /\ Imports(visiting[n].file) \subseteq DOMAIN m_sources
  BY <1>1, TopIs
<1>3. todo # << >> /\ todo \in Seq(Files)
  BY <1>2 DEF SortImport
<1>4. file \in Files /\ Tail(todo) \in Seq(Files) /\ Range(todo) = {file} \cup Range(Tail(todo))
  BY <1>3, HeadAndTail
<1>5. file \in Imports(visiting[n].file)
  BY <1>2, <1>4 DEF SortOK
<1>6. file \in DOMAIN m_sources /\ m_sources[file] = "ast"
  BY <1>1, <1>2, <1>5 DEF ParseOK
<1>7. Advanced(calls)
  <2>1. DOMAIN calls = DOMAIN visiting
    OBVIOUS
  <2>2. \A i \in DOMAIN visiting : i # n => calls[i] = visiting[i]
    BY <1>2
  <2>3. calls[n] = [visiting[n] EXCEPT !.todo = Tail(todo)]
    BY <1>2
  <2>4. calls[n] \in Call /\ calls[n].file = visiting[n].file /\ calls[n].todo = Tail(todo)
    BY <1>2, <1>4, <2>3 DEF Call
  <2>5. \A i \in 1 .. n : calls[i] \in Call
    BY <1>2, <2>2, <2>4
  <2>6. calls = [i \in 1 .. n |-> calls[i]]
    BY <1>2
  <2>7. calls \in Seq(Call) /\ Len(calls) = n
    <3> HIDE DEF calls
    <3> QED BY <1>2, <2>5, <2>6
  <2> HIDE DEF calls
  <2> QED BY <1>2, <2>1, <2>2, <2>4, <2>7 DEF Advanced
<1>8. \/ file \in sourcesSeen /\ visiting' = calls /\ sourcesSeen' = sourcesSeen /\ pc' = pc
      \/ /\ file \notin sourcesSeen /\ sourcesSeen' = sourcesSeen \cup {file} /\ pc' = pc
         /\ visiting' = Append(calls, [file |-> file, todo |-> input.imports[file]])
  BY <1>1, <1>2, <1>6 DEF SortImport, Enter
<1> HIDE DEF calls, file, todo
<1>9. pc' = pc
  BY <1>8
<1>10. \E cs : /\ Advanced(cs)
               /\ \/ file \in sourcesSeen /\ visiting' = cs /\ sourcesSeen' = sourcesSeen
                  \/ /\ file \notin sourcesSeen /\ sourcesSeen' = sourcesSeen \cup {file}
                     /\ visiting' = Append(cs, [file |-> file, todo |-> input.imports[file]])
  BY <1>7, <1>8
<1> QED BY <1>3, <1>4, <1>5, <1>6, <1>9, <1>10 DEF file, todo

\* The next source of a check: who is left, and what the errors become.
LEMMA CheckSourceIs ==
  ASSUME TypeOK, ErrorsOK, CheckSource
  PROVE  LET file   == Head(toCheck)
             faults == Faults(Passes[pass].name, file)
         IN /\ pass \in 1 .. 21 /\ pass' = pass /\ file \in Files
            /\ toCheck' \in Seq(Files) /\ Range(toCheck) = {file} \cup Range(toCheck')
            /\ m_errorReporter' \in Seq(Message)
            /\ faults = {} => m_errorReporter' = m_errorReporter
            /\ faults # {} => m_errorReporter' # << >>
            /\ pc' \in {"analyze", "failed"}
            /\ pc' = "failed" => faults # {} \/ ~Answer(pass, faults, m_errorReporter')
            /\ noErrors' = IF Passes[pass].onFailure = "assign" THEN Answer(pass, faults, m_errorReporter')
                           ELSE noErrors /\ Answer(pass, faults, m_errorReporter')
<1> DEFINE file   == Head(toCheck)
           faults == Faults(Passes[pass].name, file)
           report == Reported(m_errorReporter, <<Passes[pass].name, file>>)
<1>1. pc = "analyze" /\ toCheck # << >> /\ toCheck \in Seq(Files) /\ pass' = pass /\ toCheck' = Tail(toCheck)
  BY DEF CheckSource, TypeOK
<1>2. file \in Files /\ toCheck' \in Seq(Files) /\ Range(toCheck) = {file} \cup Range(toCheck')
  BY <1>1, HeadAndTail
<1>3. pass \in 1 .. 21
  <2>1. pass # 0
    BY <1>1 DEF ErrorsOK
  <2> QED BY <2>1 DEF TypeOK
<1>4. <<Passes[pass].name, file>> \in Message
  BY <1>2, <1>3, PassFacts, FilesAreOrdered DEF Message
<1>5. report \in Seq(Message) /\ report # << >>
  BY <1>4, ReportedFacts DEF TypeOK
<1> HIDE DEF report
<1>6. m_errorReporter' = IF faults = {} THEN m_errorReporter ELSE report
  BY DEF CheckSource, report
<1>7. m_errorReporter \in Seq(Message)
  BY DEF TypeOK
<1> HIDE DEF faults
<1>8. /\ pc' = IF (\E f \in faults : Throws(m_errorReporter, f.kind))
                   \/ (~Answer(pass, faults, m_errorReporter') /\ Passes[pass].onFailure = "return") THEN "failed" ELSE pc
      /\ noErrors' = IF Passes[pass].onFailure = "assign" THEN Answer(pass, faults, m_errorReporter')
                     ELSE noErrors /\ Answer(pass, faults, m_errorReporter')
  BY Zenon DEF CheckSource, faults
<1>9. pc' \in {"analyze", "failed"} /\ (pc' = "failed" => faults # {} \/ ~Answer(pass, faults, m_errorReporter'))
  BY <1>1, <1>8
<1> QED BY <1>1, <1>2, <1>3, <1>5, <1>6, <1>7, <1>8, <1>9 DEF faults
-------------------------------------------------------------------------------
(* Every part of the invariant is kept by every step.                                *)

\* The variables keep their types, and no assertion of toposort fails.
LEMMA TypeStep ==
  ASSUME TypeOK, ParseOK, SortOK, ErrorsOK, [Next]_vars
  PROVE  TypeOK'
<1> USE DEF TypeOK, Before, Phase, State
<1>1. m_inputFile \in Files /\ input.given \subseteq Files /\ input.imports \in [Files -> Seq(Files)]
  BY InputFacts
<1>2. \A f \in Files : input.imports[f] \in Seq(Files) /\ f \in Nat
  BY <1>1, FilesAreOrdered
<1>3. CASE setSources
  <2>1. Sorted(input.given) \in Seq(Files)
    BY <1>1, SortedFacts
  <2> QED BY <1>1, <1>3, <2>1 DEF setSources, sorting, checking
<1>4. CASE ParseSource
  <2> DEFINE file == Head(sourcesToParse)
             report == Reported(m_errorReporter, <<"parse", file>>)
  <2>1. file \in Files /\ Tail(sourcesToParse) \in Seq(Files)
    BY <1>4, HeadAndTail DEF ParseSource
  <2>2. <<"parse", file>> \in Message
    BY <1>2, <2>1 DEF Message
  <2>3. report \in Seq(Message)
    BY <2>2, ReportedFacts
  <2> HIDE DEF report
  <2>4. m_errorReporter' \in {m_errorReporter, report}
    BY <1>4 DEF ParseSource, report
  <2>5. m_errorReporter' \in Seq(Message)
    BY <2>3, <2>4
  <2>6. importing' \in Seq(Files) /\ path' \in Files /\ pc' \in Phase /\ sourcesToParse' \in Seq(Files)
    BY <1>2, <1>4, <2>1, EmptySeq DEF ParseSource
  <2>7. DOMAIN m_sources' = DOMAIN m_sources /\ \A f \in DOMAIN m_sources' : m_sources'[f] \in {"given", "ast", "null"}
    BY <1>4 DEF ParseSource
  <2> QED BY <1>4, <2>5, <2>6, <2>7 DEF ParseSource, sorting, checking
<1>5. CASE FindInStdlib
  <2>1. Head(importing) \in Files /\ Tail(importing) \in Seq(Files)
    BY <1>5, HeadAndTail DEF FindInStdlib
  <2>2. Append(sourcesToParse, Head(importing)) \in Seq(Files)
    BY <2>1
  <2>3. sourcesToParse' \in Seq(Files)
    BY <1>5, <2>2 DEF FindInStdlib
  <2>4. DOMAIN m_sources' \subseteq Files /\ \A f \in DOMAIN m_sources' : m_sources'[f] \in {"given", "ast", "null"}
    BY <1>5, <2>1 DEF FindInStdlib
  <2> QED BY <1>5, <2>1, <2>3, <2>4 DEF FindInStdlib, sorting, checking
<1>6. CASE StartLoading
  BY <1>2, <1>6 DEF StartLoading, sorting, checking
<1>7. CASE LoadImport
  <2> DEFINE report == Reported(m_errorReporter, <<"not found", Head(importing)>>)
  <2>1. Head(importing) \in Files /\ Tail(importing) \in Seq(Files)
    BY <1>7, HeadAndTail DEF LoadImport
  <2>2. <<"not found", Head(importing)>> \in Message
    BY <1>2, <2>1 DEF Message
  <2>3. report \in Seq(Message)
    BY <2>2, ReportedFacts
  <2> HIDE DEF report
  <2>4. m_errorReporter' \in {m_errorReporter, report}
    BY <1>7 DEF LoadImport, report
  <2>5. m_errorReporter' \in Seq(Message)
    BY <2>3, <2>4
  <2>6. importing' \in Seq(Files) /\ newSources' \subseteq Files
    BY <1>7, <2>1, EmptySeq DEF LoadImport
  <2> QED BY <1>7, <2>5, <2>6 DEF LoadImport, sorting, checking
<1>8. CASE EndLoading
  <2>1. Sorted(newSources) \in Seq(Files)
    BY SortedFacts
  <2>2. sourcesToParse' \in Seq(Files)
    BY <1>8, <2>1, ConcatFacts DEF EndLoading
  <2>3. DOMAIN m_sources' \subseteq Files /\ \A f \in DOMAIN m_sources' : m_sources'[f] \in {"given", "ast", "null"}
    BY <1>8 DEF EndLoading
  <2> QED BY <1>8, <2>2, <2>3 DEF EndLoading, sorting, checking
<1>9. CASE EndParse
  <2>1. Sorted(DOMAIN m_sources) \in Seq(Files)
    BY SortedFacts
  <2>2. UNION {{[file |-> f, name |-> c.name] : c \in Range(input.contracts[f])} : f \in DOMAIN m_sources}
          \subseteq [file : Files, name : STRING]
    <3>1. ASSUME NEW f \in DOMAIN m_sources, NEW c \in Range(input.contracts[f]) PROVE c.name \in STRING
      <4>1. input.contracts[f] \in Seq(Contract)
        BY InputFacts
      <4>2. c \in Contract
        BY <4>1 DEF Range
      <4> QED BY <4>2 DEF Contract
    <3> QED BY <3>1
  <2> QED BY <1>9, <2>1, <2>2 DEF EndParse, checking
<1>10. CASE SortRoot
  <2>1. /\ pc' = pc /\ roots' \in Seq(Files) /\ Head(roots) \in Files
        /\ \/ visiting' = visiting /\ sourcesSeen' = sourcesSeen
           \/ /\ visiting' = <<[file |-> Head(roots), todo |-> input.imports[Head(roots)]]>>
              /\ sourcesSeen' = sourcesSeen \cup {Head(roots)}
    BY <1>10, SortRootIs
  <2>2. [file |-> Head(roots), todo |-> input.imports[Head(roots)]] \in Call
    BY <1>2, <2>1 DEF Call
  <2>3. visiting' \in Seq(Call) /\ sourcesSeen' \subseteq Files
    <3> DEFINE c == [file |-> Head(roots), todo |-> input.imports[Head(roots)]]
    <3> HIDE DEF c
    <3>1. <<c>> \in Seq(Call)
      BY <2>2 DEF c
    <3>2. visiting' \in {visiting, <<c>>}
      BY <2>1, Zenon DEF c
    <3> QED BY <2>1, <3>1, <3>2
  <2> QED BY <1>10, <2>1, <2>3 DEF SortRoot, parsing, checking
<1>11. CASE SortImport
  <2> DEFINE file == Head(visiting[Len(visiting)].todo)
  <2>1. pc' = pc /\ file \in Files
    BY <1>11, SortImportIs
  <2>2. PICK calls : /\ Advanced(calls)
                     /\ \/ file \in sourcesSeen /\ visiting' = calls /\ sourcesSeen' = sourcesSeen
                        \/ /\ file \notin sourcesSeen /\ sourcesSeen' = sourcesSeen \cup {file}
                           /\ visiting' = Append(calls, [file |-> file, todo |-> input.imports[file]])
    BY <1>11, SortImportIs
  <2> HIDE DEF file
  <2>3. [file |-> file, todo |-> input.imports[file]] \in Call
    BY <1>2, <2>1 DEF Call
  <2>4. calls \in Seq(Call)
    BY <2>2 DEF Advanced
  <2>5. visiting' \in Seq(Call) /\ sourcesSeen' \subseteq Files
    <3> DEFINE c == [file |-> file, todo |-> input.imports[file]]
    <3> HIDE DEF c
    <3>1. Append(calls, c) \in Seq(Call)
      BY <2>3, <2>4 DEF c
    <3>2. visiting' \in {calls, Append(calls, c)}
      BY <2>2, Zenon DEF c
    <3>3. visiting' \in Seq(Call)
      BY <2>4, <3>1, <3>2
    <3>4. sourcesSeen' \in {sourcesSeen, sourcesSeen \cup {file}}
      BY <2>2, Zenon
    <3> QED BY <2>1, <3>3, <3>4
  <2> QED BY <1>11, <2>1, <2>5 DEF SortImport, parsing, checking
<1>12. CASE SortLeave
  <2>1. Last(visiting) \in Call /\ Front(visiting) \in Seq(Call)
    BY <1>12, LastAndFront DEF SortLeave
  <2>2. Last(visiting).file \in Files
    BY <2>1 DEF Call
  <2> QED BY <1>12, <2>1, <2>2 DEF SortLeave, parsing, checking
<1>13. CASE EndSort
  BY <1>13 DEF EndSort, parsing, checking, sorting
<1>14. CASE StartPass
  <2> DEFINE report == Reported(m_errorReporter, <<"main", m_inputFile>>)
  <2>1. <<"main", m_inputFile>> \in Message
    BY <1>1, <1>2 DEF Message
  <2>2. report \in Seq(Message)
    BY <2>1, ReportedFacts
  <2> HIDE DEF report
  <2>3. m_errorReporter' \in {m_errorReporter, report} /\ pc' \in {"failed", pc}
    BY <1>14 DEF StartPass, report
  <2>4. m_errorReporter' \in Seq(Message) /\ pc' \in Phase
    BY <2>2, <2>3
  <2>5. pass' \in 0 .. 21 /\ toCheck' \in Seq(Files)
    BY <1>14, PassFacts, EmptySeq DEF StartPass
  <2> QED BY <1>14, <2>4, <2>5 DEF StartPass, parsing, sorting
<1>15. CASE CheckSource
  <2>1. pc' \in {"analyze", "failed"} /\ pass' = pass /\ toCheck' \in Seq(Files) /\ m_errorReporter' \in Seq(Message)
    BY <1>15, CheckSourceIs
  <2>2. noErrors' \in BOOLEAN
    <3>1. /\ pass \in 1 .. 21
          /\ noErrors' = IF Passes[pass].onFailure = "assign" THEN Answer(pass, Faults(Passes[pass].name, Head(toCheck)), m_errorReporter')
                         ELSE noErrors /\ Answer(pass, Faults(Passes[pass].name, Head(toCheck)), m_errorReporter')
      BY <1>15, CheckSourceIs
    <3>2. Answer(pass, Faults(Passes[pass].name, Head(toCheck)), m_errorReporter') \in BOOLEAN
      BY <3>1, AnswerFacts
    <3> QED BY <3>1, <3>2
  <2> QED BY <1>15, <2>1, <2>2 DEF CheckSource, parsing, sorting
<1>16. CASE EndAnalysis
  BY <1>16 DEF EndAnalysis, parsing, sorting, checking
<1>17. CASE compile
  <2> DEFINE report1 == Reported(m_errorReporter, <<"main", m_inputFile>>)
             report2 == Reported(m_errorReporter, <<"compile", m_inputFile>>)
  <2>1. <<"main", m_inputFile>> \in Message /\ <<"compile", m_inputFile>> \in Message
    BY <1>1, <1>2 DEF Message
  <2>2. report1 \in Seq(Message) /\ report2 \in Seq(Message)
    BY <2>1, ReportedFacts
  <2> HIDE DEF report1, report2
  <2>3. m_errorReporter' \in {m_errorReporter, report1, report2}
    BY <1>17 DEF compile, report1, report2
  <2>4. pc' \in {"failed", "succeeded"} /\ m_stackState' \in {m_stackState, "CompilationSuccessful"}
    BY <1>17 DEF compile
  <2>5. m_errorReporter' \in Seq(Message)
    BY <2>2, <2>3
  <2> QED BY <1>17, <2>4, <2>5 DEF compile, parsing, sorting, checking
<1>18. CASE Report
  BY <1>18 DEF Report, parsing, sorting, checking
<1>19. CASE UNCHANGED vars
  BY <1>19 DEF vars
<1> QED BY <1>3, <1>4, <1>5, <1>6, <1>7, <1>8, <1>9, <1>10, <1>11, <1>12, <1>13, <1>14, <1>15, <1>16, <1>17, <1>18, <1>19 DEF Next

\* What does not change with the input.
LEMMA InputStays ==
  ASSUME input' = input
  PROVE  /\ m_inputFile' = m_inputFile
         /\ \A f : Imports(f)' = Imports(f) /\ isRequestedSource(f)' = isRequestedSource(f) /\ Imported(f)' = Imported(f)
         /\ \A f : \A p : Faults(Passes[p].name, f)' = Faults(Passes[p].name, f) /\ Clear(p, f)' = Clear(p, f)
<1>1. m_inputFile' = m_inputFile
  BY Zenon DEF m_inputFile
<1>2. \A f : Imports(f)' = Imports(f) /\ isRequestedSource(f)' = isRequestedSource(f)
  BY DEF Imports, isRequestedSource
<1>3. \A f : Imported(f)' = Imported(f)
  BY Zenon DEF Imported
<1>4. \A f : \A p : Faults(Passes[p].name, f)' = Faults(Passes[p].name, f)
  BY Zenon DEF Faults
<1>5. \A f : \A p : Clear(p, f)' = Clear(p, f)
  BY <1>4, Zenon DEF Clear, Concerns
<1> QED BY <1>1, <1>2, <1>3, <1>4, <1>5

\* parse leaves no source unparsed and no import unread without an error.
LEMMA ParseStep ==
  ASSUME TypeOK, ParseOK, SortOK, ErrorsOK, [Next]_vars
  PROVE  ParseOK'
<1> USE DEF Before
<1>1. input' = input
  BY DEF Next, vars, setSources, ParseSource, FindInStdlib, StartLoading, LoadImport, EndLoading, EndParse,
         SortRoot, SortImport, SortLeave, EndSort, StartPass, CheckSource, EndAnalysis, compile, Report
<1>2. m_inputFile' = m_inputFile /\ \A f : Imports(f)' = Imports(f)
  BY <1>1, InputStays
<1>3. m_inputFile \in input.given /\ input.given \subseteq Files
  BY InputFacts DEF TypeOK
<1>4. CASE setSources
  <2>1. Range(Sorted(input.given)) = input.given
    BY <1>3, SortedFacts
  <2>2. pc' = "parse" /\ m_sources' = [f \in input.given |-> "given"] /\ sourcesToParse' = Sorted(input.given)
    BY <1>4 DEF setSources
  <2> QED BY <1>1, <2>1, <2>2 DEF ParseOK
<1>5. CASE ParseSource
  <2> DEFINE file == Head(sourcesToParse)
  <2>1. Range(sourcesToParse) = {file} \cup Range(Tail(sourcesToParse))
    BY <1>5, HeadAndTail DEF ParseSource, TypeOK
  <2>2. /\ pc = "parse" /\ sourcesToParse' = Tail(sourcesToParse) /\ path' = file /\ pc' \in {"parse", "imports"}
        /\ DOMAIN m_sources' = DOMAIN m_sources
        /\ \A f \in DOMAIN m_sources : f # file => m_sources'[f] = m_sources[f]
    BY <1>5 DEF ParseSource
  <2>3. file \in DOMAIN m_sources
    BY <2>1 DEF ParseOK
  <2>4. ASSUME m_errorReporter' = << >>
        PROVE  m_errorReporter = << >> /\ pc' = "imports" /\ m_sources'[file] = "ast"
    <3>1. <<"parse", file>> \in Message /\ m_errorReporter \in Seq(Message)
      BY <2>3, FilesAreOrdered DEF TypeOK, Message
    <3>2. Reported(m_errorReporter, <<"parse", file>>) # << >>
      BY <3>1, ReportedFacts
    <3>3. Faults("parse", file) = {} /\ m_errorReporter = << >>
      BY <1>5, <2>4, <3>2 DEF ParseSource
    <3> QED BY <1>5, <2>3, <3>3 DEF ParseSource
  <2> HIDE DEF file
  <2>5. pc' # "setSources" => input'.given \subseteq DOMAIN m_sources'
    BY <1>1, <2>2 DEF ParseOK
  <2>6. Range(sourcesToParse') \subseteq DOMAIN m_sources'
    BY <2>1, <2>2 DEF ParseOK
  <2>7. ASSUME m_errorReporter' = << >>, NEW f \in DOMAIN m_sources'
        PROVE  /\ m_sources'[f] # "null"
               /\ m_sources'[f] = "given" => f \in Range(sourcesToParse')
               /\ m_sources'[f] = "ast" /\ f # path' => Imports(f)' \subseteq DOMAIN m_sources'
    <3>1. CASE f = file
      BY <2>2, <2>4, <2>7, <3>1
    <3>2. CASE f # file
      BY <1>2, <2>1, <2>2, <2>4, <2>7, <3>2 DEF ParseOK
    <3> QED BY <3>1, <3>2
  <2> QED BY <2>2, <2>3, <2>4, <2>5, <2>6, <2>7 DEF ParseOK
<1>6. CASE FindInStdlib
  <2> DEFINE g == Head(importing)
  <2>1. g \in Files
    BY <1>6, HeadAndTail DEF FindInStdlib, TypeOK
  <2>2. pc = "imports" /\ pc' = pc /\ path' = path /\ m_errorReporter' = m_errorReporter
    BY <1>6 DEF FindInStdlib
  <2>3. CASE g \in Stdlib
    <3>1. Range(Append(sourcesToParse, g)) = Range(sourcesToParse) \cup {g}
      BY <2>1, AppendFacts DEF TypeOK
    <3>2. /\ DOMAIN m_sources' = DOMAIN m_sources \cup {g}
          /\ \A f \in DOMAIN m_sources' : m_sources'[f] = IF f \in DOMAIN m_sources THEN m_sources[f] ELSE "given"
          /\ sourcesToParse' = Append(sourcesToParse, g)
      BY <1>6, <2>3 DEF FindInStdlib
    <3> HIDE DEF g
    <3>3. Range(sourcesToParse') = Range(sourcesToParse) \cup {g}
      BY <3>1, <3>2
    <3>4. input'.given \subseteq DOMAIN m_sources' /\ Range(sourcesToParse') \subseteq DOMAIN m_sources' /\ path' \in DOMAIN m_sources'
      BY <1>1, <2>2, <3>2, <3>3 DEF ParseOK
    <3>5. ASSUME m_errorReporter' = << >>, NEW f \in DOMAIN m_sources'
          PROVE  /\ m_sources'[f] # "null"
                 /\ m_sources'[f] = "given" => f \in Range(sourcesToParse')
                 /\ m_sources'[f] = "ast" /\ f # path' => Imports(f)' \subseteq DOMAIN m_sources'
      <4>1. CASE f \in DOMAIN m_sources
        BY <1>2, <2>2, <3>2, <3>3, <3>5, <4>1 DEF ParseOK
      <4>2. CASE f \notin DOMAIN m_sources
        BY <3>2, <3>3, <3>5, <4>2
      <4> QED BY <4>1, <4>2
    <3> QED BY <2>2, <3>4, <3>5 DEF ParseOK
  <2>4. CASE g \notin Stdlib
    <3>1. m_sources' = m_sources /\ sourcesToParse' = sourcesToParse
      BY <1>6, <2>4 DEF FindInStdlib
    <3> QED BY <1>1, <1>2, <2>2, <3>1 DEF ParseOK
  <2> QED BY <2>3, <2>4
<1>7. CASE StartLoading
  <2>1. /\ pc = "imports" /\ pc' = "missing" /\ importing' = input.imports[path] /\ path' = path
        /\ m_sources' = m_sources /\ sourcesToParse' = sourcesToParse /\ m_errorReporter' = m_errorReporter
    BY <1>7 DEF StartLoading
  <2>2. Imports(path)' = Range(importing')
    BY <1>2, <2>1 DEF Imports
  <2> QED BY <1>1, <1>2, <2>1, <2>2 DEF ParseOK
<1>8. CASE LoadImport
  <2> DEFINE g == Head(importing)
  <2>1. g \in Files /\ Range(importing) = {g} \cup Range(Tail(importing))
    BY <1>8, HeadAndTail DEF LoadImport, TypeOK
  <2>2. /\ pc = "missing" /\ pc' = pc /\ path' = path
        /\ m_sources' = m_sources /\ sourcesToParse' = sourcesToParse
    BY <1>8 DEF LoadImport
  <2>3. ASSUME m_errorReporter' = << >>
        PROVE  /\ m_errorReporter = << >> /\ importing' = Tail(importing)
               /\ newSources \cup {g} \subseteq newSources' \cup DOMAIN m_sources
    <3>1. <<"not found", g>> \in Message /\ m_errorReporter \in Seq(Message)
      BY <2>1, FilesAreOrdered DEF TypeOK, Message
    <3>2. Reported(m_errorReporter, <<"not found", g>>) # << >>
      BY <3>1, ReportedFacts
    <3> QED BY <1>8, <2>3, <3>2 DEF LoadImport
  <2> HIDE DEF g
  <2>4. m_errorReporter' = << >> =>
          Imports(path)' \subseteq DOMAIN m_sources' \cup newSources' \cup Range(importing')
    BY <1>2, <2>1, <2>2, <2>3 DEF ParseOK
  <2> QED BY <1>1, <1>2, <2>2, <2>3, <2>4 DEF ParseOK
<1>9. CASE EndLoading
  <2>1. Range(sourcesToParse') = Range(sourcesToParse) \cup newSources
    <3>1. Sorted(newSources) \in Seq(Files) /\ Range(Sorted(newSources)) = newSources
      BY SortedFacts DEF TypeOK
    <3>2. Range(sourcesToParse \o Sorted(newSources)) = Range(sourcesToParse) \cup Range(Sorted(newSources))
      BY <3>1, ConcatFacts DEF TypeOK
    <3> QED BY <1>9, <3>1, <3>2 DEF EndLoading
  <2>2. /\ pc = "missing" /\ pc' = "parse" /\ path' = path /\ m_errorReporter' = m_errorReporter
        /\ DOMAIN m_sources' = DOMAIN m_sources \cup newSources
        /\ \A f \in DOMAIN m_sources' : m_sources'[f] = IF f \in newSources THEN "given" ELSE m_sources[f]
    BY <1>9 DEF EndLoading
  <2>3. Range(importing) = {}
    BY <1>9 DEF EndLoading, Range
  <2>4. input'.given \subseteq DOMAIN m_sources' /\ Range(sourcesToParse') \subseteq DOMAIN m_sources'
    BY <1>1, <2>1, <2>2 DEF ParseOK
  <2>5. ASSUME m_errorReporter' = << >>, NEW f \in DOMAIN m_sources'
        PROVE  /\ m_sources'[f] # "null"
               /\ m_sources'[f] = "given" => f \in Range(sourcesToParse')
               /\ m_sources'[f] = "ast" => Imports(f)' \subseteq DOMAIN m_sources'
    <3>1. CASE f \in newSources
      BY <2>1, <2>2, <2>5, <3>1
    <3>2. CASE f \notin newSources /\ f # path
      BY <1>2, <2>1, <2>2, <2>5, <3>2 DEF ParseOK
    <3>3. CASE f \notin newSources /\ f = path
      BY <1>2, <2>1, <2>2, <2>3, <2>5, <3>3 DEF ParseOK
    <3> QED BY <3>1, <3>2, <3>3
  <2> QED BY <2>2, <2>4, <2>5 DEF ParseOK
<1>10. CASE EndParse
  <2>1. pc = "parse" /\ Range(sourcesToParse) = {} /\ m_sources' = m_sources /\ sourcesToParse' = sourcesToParse
    BY <1>10 DEF EndParse, Range
  <2>2. CASE m_errorReporter # << >>
    <3>1. pc' = "failed"
      BY <1>10, <2>2 DEF EndParse
    <3> QED BY <1>1, <2>1, <3>1 DEF ParseOK
  <2>3. CASE m_errorReporter = << >>
    <3>1. /\ pc' = "resolveImports"
          /\ m_contracts' = UNION {{[file |-> f, name |-> c.name] : c \in Range(input.contracts[f])} : f \in DOMAIN m_sources}
      BY <1>10, <2>3 DEF EndParse
    <3>2. \A f \in DOMAIN m_sources : m_sources[f] = "ast" /\ Imports(f) \subseteq DOMAIN m_sources
      BY <2>1, <2>3 DEF ParseOK, TypeOK
    <3>3. m_inputFile \in DOMAIN m_sources
      BY <1>3, <2>1 DEF ParseOK
    <3>4. \A c \in Range(input.contracts[m_inputFile]) : [file |-> m_inputFile, name |-> c.name] \in m_contracts'
      BY <3>1, <3>3
    <3> QED BY <1>1, <1>2, <2>1, <3>1, <3>2, <3>4 DEF ParseOK
  <2> QED BY <2>2, <2>3
<1>11. ASSUME UNCHANGED parsing, pc \notin Before, pc' \notin Before,
              pc' \in {"resolveImports", "analyze", "compile"} => pc \in {"resolveImports", "analyze", "compile"}
       PROVE  ParseOK'
  <2>1. m_sources' = m_sources /\ sourcesToParse' = sourcesToParse /\ m_contracts' = m_contracts
    BY <1>11 DEF parsing
  <2> QED BY <1>1, <1>2, <1>11, <2>1 DEF ParseOK
<1>12. CASE SortRoot
  <2>1. pc' = pc
    BY <1>12, SortRootIs
  <2> QED BY <1>11, <1>12, <2>1 DEF SortRoot
<1>13. CASE SortImport
  <2>1. pc' = pc
    BY <1>13, SortImportIs
  <2> QED BY <1>11, <1>13, <2>1 DEF SortImport
<1>14. CASE SortLeave
  BY <1>11, <1>14 DEF SortLeave
<1>15. CASE EndSort
  BY <1>11, <1>15 DEF EndSort
<1>16. CASE StartPass
  <2>1. pc = "analyze" /\ pc' \in {"failed", pc} /\ UNCHANGED parsing
    BY <1>16 DEF StartPass
  <2> QED BY <1>11, <2>1
<1>17. CASE CheckSource
  <2>1. pc = "analyze" /\ pc' \in {"failed", pc} /\ UNCHANGED parsing
    BY <1>17 DEF CheckSource
  <2> QED BY <1>11, <2>1
<1>18. CASE EndAnalysis
  BY <1>11, <1>18 DEF EndAnalysis
<1>19. CASE compile
  <2>1. pc = "compile" /\ pc' \in {"failed", "succeeded"} /\ UNCHANGED parsing
    BY <1>19 DEF compile
  <2> QED BY <1>11, <2>1
<1>20. CASE Report
  BY <1>11, <1>20 DEF Report
<1>21. CASE UNCHANGED vars
  BY <1>2, <1>21 DEF vars, ParseOK
<1> QED BY <1>4, <1>5, <1>6, <1>7, <1>8, <1>9, <1>10, <1>12, <1>13, <1>14, <1>15, <1>16, <1>17, <1>18, <1>19, <1>20, <1>21 DEF Next

\* Only toposort and the end of parse touch the order of the sources.
LEMMA InputAndOrderStay ==
  ASSUME [Next]_vars
  PROVE  /\ input' = input
         /\ ~EndParse /\ ~SortRoot /\ ~SortImport /\ ~SortLeave => UNCHANGED sorting
         /\ ~SortLeave => m_sourceOrder' = m_sourceOrder
BY DEF Next, vars, setSources, ParseSource, FindInStdlib, StartLoading, LoadImport, EndLoading, EndParse,
       SortRoot, SortImport, SortLeave, EndSort, StartPass, CheckSource, EndAnalysis, compile, Report, sorting

\* The same for the phases: toposort is entered at the end of parse, and left at EndSort.
LEMMA PhaseFacts ==
  ASSUME TypeOK, [Next]_vars, ~EndParse, ~SortRoot, ~SortImport, ~SortLeave, ~EndSort
  PROVE  /\ pc' \in Before => pc \in Before
         /\ pc' = "resolveImports" => pc = "resolveImports" /\ UNCHANGED m_sources
         /\ pc = "resolveImports" => pc' = "resolveImports"
<1> USE DEF Before, Phase
<1>1. CASE setSources
  BY <1>1 DEF setSources
<1>2. CASE ParseSource
  BY <1>2 DEF ParseSource
<1>3. CASE FindInStdlib
  BY <1>3 DEF FindInStdlib
<1>4. CASE StartLoading
  BY <1>4 DEF StartLoading
<1>5. CASE LoadImport
  BY <1>5 DEF LoadImport
<1>6. CASE EndLoading
  BY <1>6 DEF EndLoading
<1>7. CASE StartPass
  BY <1>7 DEF StartPass
<1>8. CASE CheckSource
  BY <1>8 DEF CheckSource
<1>9. CASE EndAnalysis
  BY <1>9 DEF EndAnalysis
<1>10. CASE compile
  BY <1>10 DEF compile
<1>11. CASE Report
  BY <1>11 DEF Report
<1>12. CASE UNCHANGED vars
  BY <1>12 DEF vars
<1> QED BY <1>1, <1>2, <1>3, <1>4, <1>5, <1>6, <1>7, <1>8, <1>9, <1>10, <1>11, <1>12 DEF Next

\* toposort enters every source once, and knows why it entered it.
LEMMA SortStep ==
  ASSUME TypeOK, ParseOK, SortOK, [Next]_vars
  PROVE  SortOK'
<1> USE DEF Before, Looked
<1>1. input' = input
  BY InputAndOrderStay
<1>2. \A f : Imports(f)' = Imports(f) /\ isRequestedSource(f)' = isRequestedSource(f) /\ Imported(f)' = Imported(f)
  BY <1>1, InputStays
<1>3. CASE EndParse
  <2>1. /\ pc = "parse" /\ visiting = << >> /\ sourcesSeen = {} /\ m_sourceOrder = << >> /\ m_sources' = m_sources
        /\ visiting' = << >> /\ sourcesSeen' = {} /\ m_sourceOrder' = << >>
    BY <1>3 DEF EndParse, SortOK
  <2>2. Range(Sorted(DOMAIN m_sources)) = DOMAIN m_sources
    BY SortedFacts DEF TypeOK
  <2>3. pc' = "failed" \/ (pc' = "resolveImports" /\ Range(roots') = DOMAIN m_sources)
    BY <1>3, <2>2 DEF EndParse
  <2>4. Range(<< >>) = {} /\ DOMAIN << >> = {}
    BY DEF Range
  <2> QED BY <2>1, <2>3, <2>4 DEF SortOK
<1>4. CASE SortRoot
  <2> DEFINE f == Head(roots)
             c == [file |-> f, todo |-> input.imports[f]]
  <2>1. /\ pc = "resolveImports" /\ visiting = << >> /\ m_sources' = m_sources /\ m_sourceOrder' = m_sourceOrder
    BY <1>4 DEF SortRoot, parsing
  <2>2. /\ pc' = pc /\ f \in Files /\ f \in DOMAIN m_sources /\ Range(roots) = {f} \cup Range(roots')
        /\ \/ (f \in sourcesSeen \/ ~isRequestedSource(f)) /\ visiting' = visiting /\ sourcesSeen' = sourcesSeen
           \/ f \notin sourcesSeen /\ visiting' = <<c>> /\ sourcesSeen' = sourcesSeen \cup {f}
    BY <1>4, SortRootIs
  <2>3. c.file = f /\ c.todo = input.imports[f] /\ Range(c.todo) = Imports(f)
    BY DEF Imports
  <2> HIDE DEF c, f
  <2>4. DOMAIN visiting = {} /\ DOMAIN <<c>> = {1} /\ <<c>>[1] = c
    BY <2>1
  <2>5. /\ Range(roots') \cup sourcesSeen' \subseteq DOMAIN m_sources
        /\ \A g \in DOMAIN m_sources : isRequestedSource(g) => g \in Range(roots') \cup sourcesSeen'
    BY <2>1, <2>2 DEF SortOK
  <2>6. CASE visiting' = visiting /\ sourcesSeen' = sourcesSeen
    BY <1>2, <2>1, <2>2, <2>4, <2>5, <2>6 DEF SortOK
  <2>7. CASE f \notin sourcesSeen /\ visiting' = <<c>> /\ sourcesSeen' = sourcesSeen \cup {f}
    <3>1. sourcesSeen = Looked
      BY <2>4 DEF SortOK
    <3>2. {visiting'[i].file : i \in DOMAIN visiting'} = {f}
      BY <2>3, <2>4, <2>7
    <3>3. DOMAIN visiting' = {1} /\ visiting'[1].file = f /\ Range(visiting'[1].todo) = Imports(f)
      BY <2>3, <2>4, <2>7
    <3>4. Looked' = Looked
      BY <2>1
    <3>5. \A g \in Looked : Imports(g) \subseteq sourcesSeen'
      BY <2>7 DEF SortOK
    <3>6. /\ sourcesSeen' = Looked' \cup {visiting'[i].file : i \in DOMAIN visiting'}
          /\ \A i \in DOMAIN visiting' : visiting'[i].file \notin Looked'
      BY <2>7, <3>1, <3>2, <3>3, <3>4
    <3>7. \A i \in DOMAIN visiting' : \A j \in DOMAIN visiting' : i = j
      BY <3>3
    <3>8. \A i \in DOMAIN visiting' : ~(i < i)
      BY <3>3
    <3>9. \A i \in DOMAIN visiting' : /\ Range(visiting'[i].todo) \subseteq Imports(visiting'[i].file)
                                      /\ Imports(visiting'[i].file) \subseteq sourcesSeen' \cup Range(visiting'[i].todo)
      BY <3>3
    <3> HIDE DEF Looked
    <3> QED BY <1>2, <2>1, <2>2, <2>5, <3>4, <3>5, <3>6, <3>7, <3>8, <3>9 DEF SortOK
  <2> QED BY <2>2, <2>6, <2>7
<1>5. CASE SortImport
  <2> DEFINE n == Len(visiting)
             top == visiting[n].file
             f == Head(visiting[n].todo)
             c == [file |-> f, todo |-> input.imports[f]]
  <2>1. /\ pc = "resolveImports" /\ visiting # << >> /\ m_sources' = m_sources /\ m_sourceOrder' = m_sourceOrder /\ roots' = roots
    BY <1>5 DEF SortImport, parsing
  <2>2. /\ n \in Nat \ {0} /\ DOMAIN visiting = 1 .. n /\ n \in DOMAIN visiting
        /\ \A i \in 1 .. n : visiting[i].file \in Files /\ visiting[i].todo \in Seq(Files)
    BY <2>1, TopIs
  <2>3. /\ pc' = pc /\ f \in Files /\ f \in Imports(top) /\ f \in DOMAIN m_sources
        /\ Range(visiting[n].todo) = {f} \cup Range(Tail(visiting[n].todo))
    BY <1>5, SortImportIs
  <2>4. PICK calls : /\ Advanced(calls)
                     /\ \/ f \in sourcesSeen /\ visiting' = calls /\ sourcesSeen' = sourcesSeen
                        \/ /\ f \notin sourcesSeen /\ sourcesSeen' = sourcesSeen \cup {f}
                           /\ visiting' = Append(calls, c)
    BY <1>5, SortImportIs
  <2>5. c.file = f /\ Range(c.todo) = Imports(f)
    BY DEF Imports
  <2>6. c \in Call
    BY <2>3, InputFacts DEF Call, TypeOK
  <2> HIDE DEF n, c, f, top
  <2>7. /\ calls \in Seq(Call) /\ DOMAIN calls = 1 .. n /\ Len(calls) = n
        /\ \A i \in 1 .. n : calls[i].file = visiting[i].file
        /\ \A i \in 1 .. n : i # n => calls[i].todo = visiting[i].todo
        /\ calls[n].todo = Tail(visiting[n].todo)
    BY <2>2, <2>4 DEF Advanced, n
  <2>8. \A i \in 1 .. n : /\ Range(calls[i].todo) \subseteq Imports(calls[i].file)
                          /\ Imports(calls[i].file) \subseteq sourcesSeen \cup {f} \cup Range(calls[i].todo)
    <3>1. ASSUME NEW i \in 1 .. n
          PROVE  /\ Range(calls[i].todo) \subseteq Imports(calls[i].file)
                 /\ Imports(calls[i].file) \subseteq sourcesSeen \cup {f} \cup Range(calls[i].todo)
      <4>1. /\ Range(visiting[i].todo) \subseteq Imports(visiting[i].file)
            /\ Imports(visiting[i].file) \subseteq sourcesSeen \cup Range(visiting[i].todo)
        BY <2>2 DEF SortOK
      <4>2. CASE i = n
        BY <2>3, <2>7, <4>1, <4>2
      <4>3. CASE i # n
        BY <2>7, <4>1, <4>3
      <4> QED BY <4>2, <4>3
    <3> QED BY <3>1
  <2>9. /\ \A i \in 1 .. n : \A j \in 1 .. n : calls[i].file = calls[j].file => i = j
        /\ \A i \in 1 .. n : calls[i].file \notin Looked /\ calls[i].file \in sourcesSeen
        /\ \A i \in 1 .. n : \A j \in 1 .. n : i < j => calls[j].file \in Imported(calls[i].file)
    <3>1. /\ \A i \in 1 .. n : \A j \in 1 .. n : visiting[i].file = visiting[j].file => i = j
          /\ \A i \in 1 .. n : visiting[i].file \notin Looked
          /\ \A i \in 1 .. n : \A j \in 1 .. n : i < j => visiting[j].file \in Imported(visiting[i].file)
      BY <2>2 DEF SortOK
    <3>2. \A i \in 1 .. n : visiting[i].file \in sourcesSeen
      BY <2>2 DEF SortOK
    <3>3. \A i \in 1 .. n : calls[i].file = visiting[i].file
      BY <2>7
    <3> HIDE DEF Looked
    <3> QED BY <3>1, <3>2, <3>3
  <2>10. sourcesSeen = Looked \cup {calls[i].file : i \in 1 .. n}
    <3>1. {calls[i].file : i \in 1 .. n} = {visiting[i].file : i \in 1 .. n}
      BY <2>7
    <3> QED BY <2>2, <3>1 DEF SortOK
  <2>11. Looked' = Looked /\ \A g \in Looked : Imports(g) \subseteq sourcesSeen
    BY <2>1 DEF SortOK
  <2>12. /\ Range(roots) \cup sourcesSeen \cup {f} \subseteq DOMAIN m_sources
         /\ \A g \in DOMAIN m_sources : isRequestedSource(g) => g \in Range(roots) \cup sourcesSeen
    BY <2>1, <2>3 DEF SortOK
  <2> HIDE DEF Looked
  <2>13. CASE f \in sourcesSeen /\ visiting' = calls /\ sourcesSeen' = sourcesSeen
    <3>1. /\ \A i \in DOMAIN visiting' : /\ Range(visiting'[i].todo) \subseteq Imports(visiting'[i].file)
                                         /\ Imports(visiting'[i].file) \subseteq sourcesSeen' \cup Range(visiting'[i].todo)
          /\ \A i \in DOMAIN visiting' : visiting'[i].file \notin Looked'
      BY <2>7, <2>8, <2>9, <2>11, <2>13
    <3>2. sourcesSeen' = Looked' \cup {visiting'[i].file : i \in DOMAIN visiting'}
      BY <2>7, <2>10, <2>11, <2>13
    <3>3. \A i \in DOMAIN visiting' : \A j \in DOMAIN visiting' :
            /\ visiting'[i].file = visiting'[j].file => i = j
            /\ i < j => visiting'[j].file \in Imported(visiting'[i].file)
      BY <2>7, <2>9, <2>13
    <3>4. /\ Range(roots') \cup sourcesSeen' \subseteq DOMAIN m_sources'
          /\ \A g \in DOMAIN m_sources' : isRequestedSource(g)' => g \in Range(roots') \cup sourcesSeen'
          /\ \A g \in Looked' : Imports(g)' \subseteq sourcesSeen'
      BY <1>2, <2>1, <2>11, <2>12, <2>13
    <3> QED BY <1>2, <2>1, <2>3, <3>1, <3>2, <3>3, <3>4 DEF SortOK
  <2>14. CASE f \notin sourcesSeen /\ sourcesSeen' = sourcesSeen \cup {f} /\ visiting' = Append(calls, c)
    <3>1. /\ DOMAIN visiting' = 1 .. n + 1 /\ n + 1 \in 1 .. n + 1 /\ visiting'[n + 1] = c
          /\ \A i \in 1 .. n : visiting'[i] = calls[i]
      BY <2>2, <2>6, <2>7, <2>14, AppendFacts
    <3>2. \A i \in 1 .. n + 1 : i \in 1 .. n \/ i = n + 1
      BY <2>2
    <3>3. {visiting'[i].file : i \in DOMAIN visiting'} = {calls[i].file : i \in 1 .. n} \cup {f}
      <4>1. ASSUME NEW x \in {visiting'[i].file : i \in DOMAIN visiting'}
            PROVE  x \in {calls[i].file : i \in 1 .. n} \cup {f}
        BY <2>5, <3>1, <3>2
      <4>2. ASSUME NEW i \in 1 .. n PROVE calls[i].file \in {visiting'[j].file : j \in DOMAIN visiting'}
        <5>1. i \in DOMAIN visiting' /\ visiting'[i].file = calls[i].file
          BY <2>2, <3>1
        <5> QED BY <5>1
      <4>3. f \in {visiting'[j].file : j \in DOMAIN visiting'}
        BY <2>5, <3>1
      <4> QED BY <4>1, <4>2, <4>3
    <3>4. sourcesSeen' = Looked' \cup {visiting'[i].file : i \in DOMAIN visiting'}
      BY <2>10, <2>11, <2>14, <3>3
    <3>5. \A i \in DOMAIN visiting' : visiting'[i].file \notin Looked'
      <4>1. f \notin Looked
        BY <2>10, <2>14
      <4> QED BY <2>5, <2>9, <2>11, <3>1, <3>2, <4>1
    <3>6. \A i \in DOMAIN visiting' : \A j \in DOMAIN visiting' : visiting'[i].file = visiting'[j].file => i = j
      <4>1. \A i \in 1 .. n : calls[i].file # f
        BY <2>9, <2>14
      <4> QED BY <2>5, <2>9, <3>1, <3>2, <4>1
    <3>7. ASSUME NEW i \in DOMAIN visiting', NEW j \in DOMAIN visiting', i < j
          PROVE  visiting'[j].file \in Imported(visiting'[i].file)
      <4>1. i \in 1 .. n /\ visiting'[i].file = calls[i].file
        BY <2>2, <3>1, <3>7
      <4>2. CASE j \in 1 .. n
        BY <2>9, <3>1, <3>7, <4>1, <4>2
      <4>3. CASE j = n + 1
        <5>1. visiting'[j].file = f /\ visiting[i].file \in Files /\ calls[i].file = visiting[i].file
          BY <2>2, <2>5, <2>7, <3>1, <4>1, <4>3
        <5>2. calls[n].file = top
          BY <2>2, <2>7 DEF top
        <5>3. CASE i = n
          <6>1. visiting[n].file \in Files /\ Imports(visiting[n].file) \subseteq Imported(visiting[n].file)
            BY <2>2, ImportedFacts DEF TypeOK
          <6> QED BY <2>3, <4>1, <5>1, <5>3, <6>1 DEF top
        <5>4. CASE i # n
          <6>1. i < n
            BY <2>2, <4>1, <5>4
          <6>2. top \in Imported(visiting[i].file)
            BY <2>2, <2>9, <4>1, <5>1, <5>2, <6>1
          <6>3. Imports(top) \subseteq Imported(visiting[i].file)
            BY <5>1, <6>2, ImportedFacts DEF TypeOK
          <6> QED BY <2>3, <4>1, <5>1, <6>3
        <5> QED BY <5>3, <5>4
      <4> QED BY <3>1, <3>2, <4>2, <4>3
    <3>8. \A i \in DOMAIN visiting' :
             /\ Range(visiting'[i].todo) \subseteq Imports(visiting'[i].file)
             /\ Imports(visiting'[i].file) \subseteq sourcesSeen' \cup Range(visiting'[i].todo)
      BY <2>5, <2>8, <2>14, <3>1, <3>2
    <3>9. /\ Range(roots') \cup sourcesSeen' \subseteq DOMAIN m_sources'
          /\ \A g \in DOMAIN m_sources' : isRequestedSource(g)' => g \in Range(roots') \cup sourcesSeen'
      BY <1>2, <2>1, <2>12, <2>14
    <3>10. \A g \in Looked' : Imports(g)' \subseteq sourcesSeen'
      BY <1>2, <2>11, <2>14
    <3> QED BY <1>2, <2>1, <2>3, <3>4, <3>5, <3>6, <3>7, <3>8, <3>9, <3>10 DEF SortOK
  <2> QED BY <2>4, <2>13, <2>14
<1>6. CASE SortLeave
  <2> DEFINE n == Len(visiting)
             f == visiting[n].file
  <2>1. /\ pc = "resolveImports" /\ visiting # << >> /\ m_sources' = m_sources /\ pc' = pc /\ roots' = roots /\ sourcesSeen' = sourcesSeen
        /\ Last(visiting).todo = << >> /\ visiting' = Front(visiting)
        /\ m_sourceOrder' = Append(m_sourceOrder, Last(visiting).file)
    BY <1>6 DEF SortLeave, parsing
  <2>2. /\ n \in Nat \ {0} /\ DOMAIN visiting = 1 .. n /\ n \in DOMAIN visiting /\ Last(visiting) = visiting[n] /\ f \in Files
    BY <2>1, TopIs
  <2>3. /\ DOMAIN visiting' = 1 .. n - 1 /\ \A i \in 1 .. n - 1 : visiting'[i] = visiting[i]
    BY <2>1, LastAndFront DEF TypeOK
  <2>4. Looked' = Looked \cup {f}
    BY <2>1, <2>2, AppendFacts DEF TypeOK
  <2> HIDE DEF Looked, n
  <2>5. \A i \in 1 .. n - 1 : i \in 1 .. n /\ i # n
    BY <2>2
  <2>6. \A i \in 1 .. n : i \in 1 .. n - 1 \/ i = n
    BY <2>2
  <2>7. sourcesSeen' = Looked' \cup {visiting'[i].file : i \in DOMAIN visiting'}
    <3>1. {visiting[i].file : i \in 1 .. n} = {visiting'[i].file : i \in 1 .. n - 1} \cup {f}
      <4>1. ASSUME NEW i \in 1 .. n PROVE visiting[i].file \in {visiting'[j].file : j \in 1 .. n - 1} \cup {f}
        BY <2>3, <2>6
      <4>2. ASSUME NEW i \in 1 .. n - 1 PROVE visiting'[i].file \in {visiting[j].file : j \in 1 .. n}
        BY <2>3, <2>5
      <4>3. f \in {visiting[j].file : j \in 1 .. n}
        BY <2>2
      <4> QED BY <4>1, <4>2, <4>3
    <3> QED BY <2>1, <2>2, <2>3, <2>4, <3>1 DEF SortOK
  <2>8. \A i \in 1 .. n - 1 : visiting'[i].file # f /\ visiting'[i].file \notin Looked'
    BY <2>2, <2>3, <2>4, <2>5 DEF SortOK
  <2>9. Imports(f) \subseteq sourcesSeen
    <3>1. Range(visiting[n].todo) = {}
      BY <2>1, <2>2 DEF Range
    <3> QED BY <2>2, <3>1 DEF SortOK
  <2>10. \A g \in Looked' : Imports(g)' \subseteq sourcesSeen'
    BY <1>2, <2>1, <2>4, <2>9 DEF SortOK
  <2>11. /\ \A i \in DOMAIN visiting' : \A j \in DOMAIN visiting' : visiting'[i].file = visiting'[j].file => i = j
         /\ \A i \in DOMAIN visiting' : \A j \in DOMAIN visiting' : i < j => visiting'[j].file \in Imported(visiting'[i].file)
    BY <2>2, <2>3, <2>5 DEF SortOK
  <2>12. \A i \in DOMAIN visiting' : /\ Range(visiting'[i].todo) \subseteq Imports(visiting'[i].file)
                                     /\ Imports(visiting'[i].file) \subseteq sourcesSeen' \cup Range(visiting'[i].todo)
    BY <2>1, <2>2, <2>3, <2>5 DEF SortOK
  <2>13. /\ Range(roots') \cup sourcesSeen' \subseteq DOMAIN m_sources'
         /\ \A g \in DOMAIN m_sources' : isRequestedSource(g)' => g \in Range(roots') \cup sourcesSeen'
    BY <1>2, <2>1 DEF SortOK
  <2> QED BY <1>2, <2>1, <2>3, <2>7, <2>8, <2>10, <2>11, <2>12, <2>13 DEF SortOK
<1>7. CASE EndSort
  <2>1. /\ pc' = "analyze" /\ visiting = << >> /\ visiting' = << >>
        /\ sourcesSeen' = sourcesSeen /\ m_sourceOrder' = m_sourceOrder
    BY <1>7 DEF EndSort, sorting
  <2> QED BY <1>2, <2>1 DEF SortOK
<1>8. CASE ~EndParse /\ ~SortRoot /\ ~SortImport /\ ~SortLeave /\ ~EndSort
  <2>1. /\ roots' = roots /\ visiting' = visiting /\ sourcesSeen' = sourcesSeen /\ m_sourceOrder' = m_sourceOrder
    BY <1>8, InputAndOrderStay DEF sorting
  <2>2. /\ pc' \in Before => pc \in Before
        /\ pc' = "resolveImports" => pc = "resolveImports" /\ m_sources' = m_sources
        /\ pc = "resolveImports" => pc' = "resolveImports"
    BY <1>8, PhaseFacts
  <2> QED BY <1>2, <2>1, <2>2 DEF SortOK
<1> QED BY <1>3, <1>4, <1>5, <1>6, <1>7, <1>8

\* The order of the sources: SortLeave is the only step that adds to it.
LEMMA ImportsStep ==
  ASSUME TypeOK, ParseOK, SortOK, ImportsComeFirst, [Next]_vars
  PROVE  ImportsComeFirst'
<1>1. input' = input
  BY InputAndOrderStay
<1>2. \A f : Imports(f)' = Imports(f) /\ Imported(f)' = Imported(f)
  BY <1>1, InputStays
<1>3. CASE ~SortLeave
  <2>1. m_sourceOrder' = m_sourceOrder
    BY <1>3, InputAndOrderStay
  <2> QED BY <1>1, <1>2, <2>1 DEF ImportsComeFirst
<1>4. CASE SortLeave
  <2> DEFINE n == Len(visiting)
             f == visiting[n].file
             m == Len(m_sourceOrder)
  <2>1. /\ pc = "resolveImports" /\ visiting # << >> /\ Last(visiting).todo = << >>
        /\ m_sourceOrder' = Append(m_sourceOrder, Last(visiting).file)
    BY <1>4 DEF SortLeave
  <2>2. /\ n \in Nat \ {0} /\ DOMAIN visiting = 1 .. n /\ n \in DOMAIN visiting /\ Last(visiting) = visiting[n] /\ f \in Files
    BY <2>1, TopIs
  <2>3. /\ m_sourceOrder \in Seq(Files) /\ m \in Nat /\ DOMAIN m_sourceOrder = 1 .. m
    BY DEF TypeOK
  <2>4. /\ m_sourceOrder' \in Seq(Files) /\ Len(m_sourceOrder') = m + 1 /\ m_sourceOrder'[m + 1] = f
        /\ \A i \in 1 .. m : m_sourceOrder'[i] = m_sourceOrder[i]
    BY <2>1, <2>2, <2>3, AppendFacts
  <2>5. DOMAIN m_sourceOrder' = 1 .. m + 1 /\ \A i \in 1 .. m + 1 : i \in 1 .. m \/ i = m + 1
    BY <2>3, <2>4
  <2>6. \A i \in 1 .. m : m_sourceOrder[i] # f
    <3>1. f \notin Looked
      BY <2>2 DEF SortOK
    <3> QED BY <2>3, <3>1 DEF Looked, Range
  <2> HIDE DEF m, n
  <2>7. IsInjective(m_sourceOrder)'
    BY <2>3, <2>4, <2>5, <2>6 DEF ImportsComeFirst, IsInjective
  <2>8. ASSUME NEW i \in 1 .. m, NEW g \in Range(input.imports[m_sourceOrder'[i]])
        PROVE  m_sourceOrder'[i] \in Imported(g) \/ \E j \in 1 .. i : m_sourceOrder'[j] = g
    <3>1. m_sourceOrder[i] \in Imported(g) \/ \E j \in 1 .. i : m_sourceOrder[j] = g
      BY <2>3, <2>4, <2>8 DEF ImportsComeFirst
    <3>2. \A j \in 1 .. i : j \in 1 .. m
      BY <2>3
    <3> QED BY <2>4, <3>1, <3>2
  <2>9. ASSUME NEW g \in Imports(f)
        PROVE  f \in Imported(g) \/ \E j \in 1 .. m + 1 : m_sourceOrder'[j] = g
    <3>1. Range(visiting[n].todo) = {}
      BY <2>1, <2>2 DEF Range
    <3>2. g \in sourcesSeen
      BY <2>2, <2>9, <3>1 DEF SortOK
    <3>3. CASE g \in Looked
      <4>1. PICK j \in 1 .. m : m_sourceOrder[j] = g
        BY <2>3, <3>3 DEF Looked, Range
      <4>2. j \in 1 .. m + 1
        BY <2>3
      <4> QED BY <2>4, <4>1, <4>2
    <3>4. CASE g \notin Looked
      <4>1. PICK i \in 1 .. n : visiting[i].file = g
        BY <2>2, <3>2, <3>4 DEF SortOK
      <4>2. CASE i = n
        <5>1. m + 1 \in 1 .. m + 1
          BY <2>3
        <5> QED BY <2>4, <4>1, <4>2, <5>1
      <4>3. CASE i # n
        <5>1. i < n
          BY <2>2, <4>3
        <5> QED BY <2>2, <4>1, <5>1 DEF SortOK
      <4> QED BY <4>2, <4>3
    <3> QED BY <3>3, <3>4
  <2>10. ASSUME NEW i \in DOMAIN m_sourceOrder', NEW g \in Range(input.imports[m_sourceOrder'[i]])
         PROVE  m_sourceOrder'[i] \in Imported(g) \/ \E j \in 1 .. i : m_sourceOrder'[j] = g
    <3>1. CASE i \in 1 .. m
      BY <2>8, <3>1
    <3>2. CASE i = m + 1
      BY <2>4, <2>9, <2>10, <3>2 DEF Imports
    <3> QED BY <2>5, <3>1, <3>2
  <2> QED BY <1>1, <1>2, <2>7, <2>10 DEF ImportsComeFirst
<1> QED BY <1>3, <1>4

\* Toposort ends when all sources that were asked for, and their imports, are in order.
LEMMA OrderStep ==
  ASSUME TypeOK, ParseOK, SortOK, OrderOK, ErrorsOK, AnswerOK, [Next]_vars
  PROVE  OrderOK'
<1> DEFINE After == pc \in {"analyze", "compile", "succeeded"} \/ m_stackState \in {"AnalysisSuccessful", "CompilationSuccessful"}
<1>1. input' = input
  BY InputAndOrderStay
<1>2. \A f : Imports(f)' = Imports(f) /\ isRequestedSource(f)' = isRequestedSource(f)
  BY <1>1, InputStays
<1>3. CASE EndSort
  <2>1. /\ pc = "resolveImports" /\ visiting = << >> /\ roots = << >> /\ m_sourceOrder' = m_sourceOrder
    BY <1>3 DEF EndSort, sorting
  <2>2. DOMAIN visiting = {} /\ Range(roots) = {}
    BY <2>1 DEF Range
  <2>3. sourcesSeen = Looked
    BY <2>2 DEF SortOK
  <2>4. \A f \in Looked : Imports(f) \subseteq Looked
    BY <2>3 DEF SortOK
  <2>5. {f \in input.given : isRequestedSource(f)} \subseteq Looked
    BY <2>1, <2>2, <2>3 DEF SortOK, ParseOK
  <2>6. Looked' = Looked
    BY <2>1 DEF Looked
  <2> QED BY <1>1, <1>2, <2>4, <2>5, <2>6 DEF OrderOK
<1>4. CASE SortLeave
  <2>1. pc = "resolveImports" /\ pc' = pc /\ m_stackState' = m_stackState
    BY <1>4 DEF SortLeave
  <2>2. m_stackState \notin {"AnalysisSuccessful", "CompilationSuccessful"}
    BY <2>1 DEF ErrorsOK, AnswerOK
  <2> QED BY <2>1, <2>2 DEF OrderOK
<1>5. CASE ~EndSort /\ ~SortLeave
  <2>1. Looked' = Looked
    BY <1>5, InputAndOrderStay DEF Looked
  <2>2. After' => After
    <3>1. CASE setSources
      BY <3>1 DEF setSources
    <3>2. CASE ParseSource
      BY <3>2 DEF ParseSource
    <3>3. CASE FindInStdlib
      BY <3>3 DEF FindInStdlib
    <3>4. CASE StartLoading
      BY <3>4 DEF StartLoading
    <3>5. CASE LoadImport
      BY <3>5 DEF LoadImport
    <3>6. CASE EndLoading
      BY <3>6 DEF EndLoading
    <3>7. CASE EndParse
      BY <3>7 DEF EndParse
    <3>8. CASE SortRoot
      BY <3>8, SortRootIs DEF SortRoot
    <3>9. CASE SortImport
      BY <3>9, SortImportIs DEF SortImport
    <3>10. CASE StartPass
      BY <3>10 DEF StartPass
    <3>11. CASE CheckSource
      BY <3>11 DEF CheckSource
    <3>12. CASE EndAnalysis
      BY <3>12 DEF EndAnalysis
    <3>13. CASE compile
      BY <3>13 DEF compile
    <3>14. CASE Report
      BY <3>14 DEF Report
    <3>15. CASE UNCHANGED vars
      BY <3>15 DEF vars
    <3> QED BY <1>5, <3>1, <3>2, <3>3, <3>4, <3>5, <3>6, <3>7, <3>8, <3>9, <3>10, <3>11, <3>12, <3>13, <3>14, <3>15 DEF Next
  <2> QED BY <1>1, <1>2, <2>1, <2>2 DEF OrderOK
<1> QED BY <1>3, <1>4, <1>5

\* There is a source to analyze.
LEMMA OrderIsNotEmpty ==
  ASSUME TypeOK, OrderOK, pc = "analyze"
  PROVE  m_sourceOrder # << >>
<1>1. input.given # {} /\ input.requested \subseteq input.given
  BY InputFacts DEF TypeOK
<1>2. PICK f \in input.given : isRequestedSource(f)
  BY <1>1 DEF isRequestedSource
<1>3. f \in Looked
  BY <1>2 DEF OrderOK
<1> QED BY <1>3 DEF Looked, Range

\* The beginning of a check: who has to pass it, and the search for the main contract.
LEMMA StartPassIs ==
  ASSUME TypeOK, StartPass
  PROVE  LET reports == Passes[pass + 1].name = "tvmTypes" /\ noErrors /\ findMainContract.failed
         IN /\ pc = "analyze" /\ toCheck = << >> /\ pass + 1 \in 1 .. 21 /\ pass' = pass + 1 /\ pass \in 0 .. 20
            /\ noErrors' = noErrors /\ m_stackState' = m_stackState
            /\ toCheck' = IF Runs(pass + 1, noErrors) THEN m_sourceOrder ELSE << >>
            /\ reports => m_errorReporter' # << >>
            /\ ~reports => m_errorReporter' = m_errorReporter
            /\ pc' \in {"analyze", "failed"}
            /\ pc' = "failed" => reports
<1> DEFINE report == Reported(m_errorReporter, <<"main", m_inputFile>>)
           reports == Passes[pass + 1].name = "tvmTypes" /\ noErrors /\ findMainContract.failed
<1>1. m_inputFile \in Nat
  BY InputFacts, FilesAreOrdered DEF TypeOK
<1>2. report # << >>
  <2>1. <<"main", m_inputFile>> \in Message /\ m_errorReporter \in Seq(Message)
    BY <1>1 DEF Message, TypeOK
  <2> QED BY <2>1, ReportedFacts
<1> HIDE DEF report
<1>3. /\ pc = "analyze" /\ toCheck = << >> /\ pass < Len(Passes) /\ pass' = pass + 1
      /\ noErrors' = noErrors /\ m_stackState' = m_stackState
      /\ toCheck' = IF Runs(pass + 1, noErrors) THEN m_sourceOrder ELSE << >>
  BY DEF StartPass
<1>4. m_errorReporter' = IF reports THEN report ELSE m_errorReporter
  BY Zenon DEF StartPass, report
<1>5. pc' = IF reports /\ Throws(m_errorReporter, "error") THEN "failed" ELSE pc
  BY Zenon DEF StartPass
<1>6. pass + 1 \in 1 .. 21 /\ pass \in 0 .. 20
  BY <1>3, PassFacts DEF TypeOK
<1> HIDE DEF reports
<1>7. /\ reports => m_errorReporter' # << >>
      /\ ~reports => m_errorReporter' = m_errorReporter
      /\ pc' \in {"analyze", "failed"}
      /\ pc' = "failed" => reports
  BY <1>2, <1>3, <1>4, <1>5
<1> QED BY <1>3, <1>6, <1>7 DEF reports

\* An error that the flag of analyze does not know of is noticed by a later check.
LEMMA ErrorsStep ==
  ASSUME TypeOK, ParseOK, SortOK, OrderOK, ErrorsOK, AnswerOK, [Next]_vars
  PROVE  ErrorsOK'
<1> USE DEF Before
<1>1. ASSUME pc \in Before, pc' \in Before, UNCHANGED checking, m_stackState' \in {"SourcesSet", m_stackState}
      PROVE  ErrorsOK'
  BY <1>1 DEF ErrorsOK, checking
<1>2. CASE setSources
  BY <1>1, <1>2 DEF setSources
<1>3. CASE ParseSource
  BY <1>1, <1>3 DEF ParseSource
<1>4. CASE FindInStdlib
  BY <1>1, <1>4 DEF FindInStdlib
<1>5. CASE StartLoading
  BY <1>1, <1>5 DEF StartLoading
<1>6. CASE LoadImport
  BY <1>1, <1>6 DEF LoadImport
<1>7. CASE EndLoading
  BY <1>1, <1>7 DEF EndLoading
<1>8. CASE EndParse
  BY <1>8 DEF EndParse, checking, ErrorsOK
<1>9. ASSUME pc = "resolveImports", pc' \in {"resolveImports", "analyze"}, UNCHANGED checking, UNCHANGED <<m_stackState, m_errorReporter>>
      PROVE  ErrorsOK'
  BY <1>9 DEF ErrorsOK, checking
<1>10. CASE SortRoot
  BY <1>9, <1>10, SortRootIs DEF SortRoot
<1>11. CASE SortImport
  BY <1>9, <1>11, SortImportIs DEF SortImport
<1>12. CASE SortLeave
  BY <1>9, <1>12 DEF SortLeave
<1>13. CASE EndSort
  BY <1>9, <1>13 DEF EndSort
<1>14. CASE StartPass
  <2> DEFINE reports == Passes[pass + 1].name = "tvmTypes" /\ noErrors /\ findMainContract.failed
  <2>1. /\ pc = "analyze" /\ toCheck = << >> /\ pass + 1 \in 1 .. 21 /\ pass' = pass + 1 /\ pass \in 0 .. 20
        /\ noErrors' = noErrors /\ m_stackState' = m_stackState
        /\ toCheck' = IF Runs(pass + 1, noErrors) THEN m_sourceOrder ELSE << >>
        /\ reports => m_errorReporter' # << >>
        /\ ~reports => m_errorReporter' = m_errorReporter
        /\ pc' \in {"analyze", "failed"}
        /\ pc' = "failed" => reports
    BY <1>14, StartPassIs
  <2>2. reports => pass + 1 = 20 /\ noErrors
    BY <2>1, PassFacts
  <2> HIDE DEF reports
  <2>3. m_sourceOrder # << >>
    BY <2>1, OrderIsNotEmpty
  <2>4. pass + 1 \in {8, 14, 20} /\ noErrors => toCheck' # << >>
    <3>1. ASSUME pass + 1 \in {8, 14, 20}, noErrors PROVE Runs(pass + 1, noErrors)
      BY <2>1, <3>1, PassFacts DEF Runs
    <3> QED BY <2>1, <2>3, <3>1
  <2>5. ~noErrors => m_errorReporter' # << >>
    BY <2>1 DEF ErrorsOK
  <2>6. ASSUME noErrors, m_errorReporter' # << >>
        PROVE  pass' \in (2 .. 7) \cup {13} \/ (pass' \in {8, 14, 20} /\ toCheck' # << >>)
    <3>1. CASE reports
      BY <2>1, <2>2, <2>4, <2>6, <3>1
    <3>2. CASE ~reports
      <4>1. m_errorReporter # << >>
        BY <2>1, <2>6, <3>2
      <4>2. pass \in (2 .. 7) \cup {13}
        BY <2>1, <2>6, <4>1 DEF ErrorsOK
      <4>3. pass + 1 \in (3 .. 7) \cup {8, 14}
        BY <4>2
      <4>4. CASE pass + 1 \in 3 .. 7
        BY <2>1, <4>4
      <4>5. CASE pass + 1 \in {8, 14}
        <5>1. toCheck' # << >>
          BY <2>4, <2>6, <4>5
        <5>2. pass' \in {8, 14, 20}
          BY <2>1, <4>5
        <5> QED BY <5>1, <5>2
      <4> QED BY <4>3, <4>4, <4>5
    <3> QED BY <3>1, <3>2
  <2>7. pass' # 0
    BY <2>1
  <2> QED BY <2>1, <2>5, <2>6, <2>7 DEF ErrorsOK
<1>15. CASE CheckSource
  <2> DEFINE faults == Faults(Passes[pass].name, Head(toCheck))
             ok == Answer(pass, faults, m_errorReporter')
  <2>1. /\ pc = "analyze" /\ toCheck # << >> /\ m_stackState' = m_stackState
    BY <1>15 DEF CheckSource
  <2>2. /\ pass \in 1 .. 21 /\ pass' = pass
        /\ faults = {} => m_errorReporter' = m_errorReporter
        /\ faults # {} => m_errorReporter' # << >>
        /\ pc' \in {"analyze", "failed"}
        /\ pc' = "failed" => faults # {} \/ ~ok
        /\ noErrors' = IF Passes[pass].onFailure = "assign" THEN ok ELSE noErrors /\ ok
    BY <1>15, CheckSourceIs
  <2>3. /\ ok \in BOOLEAN
        /\ Passes[pass].answer = "all" => (ok <=> m_errorReporter' = << >>)
        /\ Passes[pass].answer = "own" => (ok <=> faults = {})
        /\ Passes[pass].answer = "none" => ok
    BY <2>2, AnswerFacts
  <2>4. /\ Passes[pass].answer \in {"all", "own", "none"}
        /\ Passes[pass].answer = "none" => pass \in {2, 13}
        /\ Passes[pass].answer = "own" => pass \notin {1, 8, 14, 20}
        /\ Passes[pass].onFailure = "assign" => Passes[pass].answer = "all"
    BY <2>2, PassFacts
  <2> HIDE DEF faults, ok
  <2>5. ~ok => m_errorReporter' # << >>
    BY <2>2, <2>3, <2>4
  <2>6. ~noErrors' => m_errorReporter' # << >>
    <3>1. ~noErrors => m_errorReporter' # << >>
      BY <2>1, <2>2 DEF ErrorsOK
    <3> QED BY <2>2, <2>3, <2>5, <3>1
  <2>7. pc' = "failed" => m_errorReporter' # << >>
    BY <2>2, <2>5
  <2>8. ASSUME noErrors', m_errorReporter' # << >> PROVE pass' \in (2 .. 7) \cup {13}
    <3>1. ok
      BY <2>2, <2>8
    <3>2. CASE Passes[pass].answer = "all"
      BY <2>3, <2>8, <3>1, <3>2
    <3>3. CASE Passes[pass].answer = "own"
      <4>1. Passes[pass].onFailure # "assign"
        BY <2>4, <3>3
      <4>2. noErrors /\ m_errorReporter # << >>
        BY <2>2, <2>3, <2>8, <3>1, <3>3, <4>1
      <4> QED BY <2>1, <2>2, <2>4, <3>3, <4>2 DEF ErrorsOK
    <3>4. CASE Passes[pass].answer = "none"
      BY <2>2, <2>4, <3>4
    <3> QED BY <2>4, <3>2, <3>3, <3>4
  <2>9. pass' # 0
    BY <2>2
  <2> QED BY <2>1, <2>2, <2>6, <2>7, <2>8, <2>9 DEF ErrorsOK
<1>16. CASE EndAnalysis
  <2>1. /\ pc = "analyze" /\ toCheck = << >> /\ pass = 21 /\ UNCHANGED checking /\ m_errorReporter' = m_errorReporter
        /\ IF noErrors THEN pc' = "compile" /\ m_stackState' = "AnalysisSuccessful"
           ELSE pc' = "failed" /\ m_stackState' = m_stackState
    BY <1>16, PassFacts DEF EndAnalysis
  <2>2. noErrors <=> m_errorReporter = << >>
    BY <2>1 DEF ErrorsOK
  <2> QED BY <2>1, <2>2 DEF ErrorsOK, checking
<1>17. CASE compile
  <2> DEFINE report1 == Reported(m_errorReporter, <<"main", m_inputFile>>)
             report2 == Reported(m_errorReporter, <<"compile", m_inputFile>>)
  <2>1. <<"main", m_inputFile>> \in Message /\ <<"compile", m_inputFile>> \in Message
    BY InputFacts, FilesAreOrdered DEF Message, TypeOK
  <2>2. report1 # << >> /\ report2 # << >>
    BY <2>1, ReportedFacts DEF TypeOK
  <2> HIDE DEF report1, report2
  <2>3. \/ pc' = "succeeded" /\ m_stackState' = "CompilationSuccessful"
        \/ pc' = "failed" /\ m_stackState' = m_stackState /\ m_errorReporter' \in {report1, report2}
    BY <1>17 DEF compile, report1, report2
  <2>4. pc = "compile" /\ UNCHANGED checking
    BY <1>17 DEF compile
  <2> QED BY <2>2, <2>3, <2>4 DEF ErrorsOK, checking
<1>18. CASE Report
  BY <1>18 DEF Report, ErrorsOK, checking
<1>19. CASE UNCHANGED vars
  BY <1>19 DEF vars, ErrorsOK
<1> QED BY <1>2, <1>3, <1>4, <1>5, <1>6, <1>7, <1>8, <1>10, <1>11, <1>12, <1>13, <1>14, <1>15, <1>16, <1>17, <1>18, <1>19 DEF Next

\* What findMainContract says depends on the input and on the order alone.
LEMMA MainStays ==
  ASSUME input' = input, m_sourceOrder' = m_sourceOrder
  PROVE  findMainContract.failed' = findMainContract.failed
<1>1. m_inputFile' = m_inputFile
  BY InputStays
<1>2. Candidates' = Candidates
  BY <1>1, Zenon DEF Candidates
<1> QED BY <1>1, <1>2 DEF findMainContract

\* Without an error, a check that is over has seen all sources and found nothing.
LEMMA ClearedStep ==
  ASSUME TypeOK, ParseOK, SortOK, OrderOK, ErrorsOK, ClearedOK, AnswerOK, [Next]_vars
  PROVE  ClearedOK'
<1> DEFINE Past == pc \in {"compile", "succeeded"} \/ m_stackState \in {"AnalysisSuccessful", "CompilationSuccessful"}
<1>1. input' = input
  BY InputAndOrderStay
<1>2. \A f : \A p : Clear(p, f)' = Clear(p, f)
  BY <1>1, InputStays
<1>3. CASE SortLeave
  <2>1. pc = "resolveImports" /\ pc' = pc /\ m_stackState' = m_stackState
    BY <1>3 DEF SortLeave
  <2>2. m_stackState \notin {"AnalysisSuccessful", "CompilationSuccessful"}
    BY <2>1 DEF ErrorsOK, AnswerOK
  <2> QED BY <2>1, <2>2 DEF ClearedOK
<1> SUFFICES ASSUME ~SortLeave PROVE ClearedOK'
  BY <1>3
<1>4. /\ Looked' = Looked /\ m_sourceOrder' = m_sourceOrder /\ findMainContract.failed' = findMainContract.failed
  BY <1>1, InputAndOrderStay, MainStays DEF Looked
<1>5. ASSUME pc' # "analyze", Past' => Past
      PROVE  ClearedOK'
  BY <1>2, <1>4, <1>5 DEF ClearedOK
<1>6. CASE setSources
  BY <1>5, <1>6 DEF setSources
<1>7. CASE ParseSource
  BY <1>5, <1>7 DEF ParseSource
<1>8. CASE FindInStdlib
  BY <1>5, <1>8 DEF FindInStdlib
<1>9. CASE StartLoading
  BY <1>5, <1>9 DEF StartLoading
<1>10. CASE LoadImport
  BY <1>5, <1>10 DEF LoadImport
<1>11. CASE EndLoading
  BY <1>5, <1>11 DEF EndLoading
<1>12. CASE EndParse
  BY <1>5, <1>12 DEF EndParse
<1>13. CASE SortRoot
  <2>1. pc = "resolveImports" /\ pc' = pc /\ m_stackState' = m_stackState
    BY <1>13, SortRootIs DEF SortRoot
  <2> QED BY <1>5, <2>1
<1>14. CASE SortImport
  <2>1. pc = "resolveImports" /\ pc' = pc /\ m_stackState' = m_stackState
    BY <1>14, SortImportIs DEF SortImport
  <2> QED BY <1>5, <2>1
<1>15. CASE EndSort
  <2>1. pc = "resolveImports" /\ pc' = "analyze" /\ m_stackState' = m_stackState /\ pass' = pass
    BY <1>15 DEF EndSort, checking
  <2>2. pass = 0 /\ ~Past
    BY <2>1 DEF ErrorsOK, AnswerOK, Before
  <2>3. \A p \in 1 .. 21 : ~(p < 0) /\ p # 0
    OBVIOUS
  <2> QED BY <2>1, <2>2, <2>3 DEF ClearedOK
<1>16. ASSUME pc = "analyze" PROVE ~Past
  BY <1>16 DEF ErrorsOK, AnswerOK
<1>17. CASE StartPass
  <2> DEFINE reports == Passes[pass + 1].name = "tvmTypes" /\ noErrors /\ findMainContract.failed
  <2>1. /\ pc = "analyze" /\ toCheck = << >> /\ pass + 1 \in 1 .. 21 /\ pass' = pass + 1 /\ pass \in 0 .. 20
        /\ m_stackState' = m_stackState
        /\ toCheck' = IF Runs(pass + 1, noErrors) THEN m_sourceOrder ELSE << >>
        /\ reports => m_errorReporter' # << >>
        /\ ~reports => m_errorReporter' = m_errorReporter
        /\ pc' \in {"analyze", "failed"}
    BY <1>17, StartPassIs
  <2>2. ~Past'
    BY <1>16, <2>1
  <2> SUFFICES ASSUME m_errorReporter' = << >>
               PROVE  /\ \A f \in Looked : \A p \in 1 .. 21 :
                           p < pass' \/ (p = pass' /\ f \notin Range(toCheck')) => Clear(p, f)
                      /\ pass' >= 20 => ~findMainContract.failed
    BY <1>2, <1>4, <2>2 DEF ClearedOK
  <2>3. m_errorReporter = << >> /\ ~reports
    BY <2>1
  <2>4. noErrors
    BY <2>1, <2>3 DEF ErrorsOK
  <2>5. ASSUME NEW f \in Looked, NEW p \in 1 .. 21, p < pass' \/ (p = pass' /\ f \notin Range(toCheck'))
        PROVE  Clear(p, f)
    <3>1. CASE p = pass'
      <4>1. ~Runs(pass + 1, noErrors)
        BY <2>1, <2>5, <3>1 DEF Looked
      <4>2. ~Concerns(p)
        BY <2>1, <2>4, <3>1, <4>1 DEF Runs, Concerns
      <4> QED BY <4>2 DEF Clear
    <3>2. CASE p # pass'
      <4>1. p < pass \/ (p = pass /\ f \notin Range(toCheck))
        <5>1. Range(toCheck) = {}
          BY <2>1 DEF Range
        <5>2. p < pass + 1
          BY <2>1, <2>5, <3>2
        <5> QED BY <2>1, <5>1, <5>2
      <4> QED BY <2>1, <2>3, <4>1 DEF ClearedOK
    <3> QED BY <3>1, <3>2
  <2>6. ASSUME pass' >= 20 PROVE ~findMainContract.failed
    <3>1. CASE pass + 1 = 20
      <4>1. Passes[pass + 1].name = "tvmTypes"
        BY <2>1, <3>1, PassFacts
      <4> QED BY <2>3, <2>4, <4>1
    <3>2. CASE pass + 1 # 20
      <4>1. pass >= 20
        BY <2>1, <2>6, <3>2
      <4> QED BY <2>1, <2>3, <4>1 DEF ClearedOK
    <3> QED BY <3>1, <3>2
  <2> QED BY <2>5, <2>6
<1>18. CASE CheckSource
  <2> DEFINE file == Head(toCheck)
             faults == Faults(Passes[pass].name, file)
  <2>1. /\ pc = "analyze" /\ m_stackState' = m_stackState
    BY <1>18 DEF CheckSource
  <2>2. /\ pass \in 1 .. 21 /\ pass' = pass /\ Range(toCheck) = {file} \cup Range(toCheck')
        /\ faults = {} => m_errorReporter' = m_errorReporter
        /\ faults # {} => m_errorReporter' # << >>
        /\ pc' \in {"analyze", "failed"}
    BY <1>18, CheckSourceIs
  <2>3. ~Past'
    BY <1>16, <2>1, <2>2
  <2> SUFFICES ASSUME m_errorReporter' = << >>
               PROVE  /\ \A f \in Looked : \A p \in 1 .. 21 :
                           p < pass' \/ (p = pass' /\ f \notin Range(toCheck')) => Clear(p, f)
                      /\ pass' >= 20 => ~findMainContract.failed
    BY <1>2, <1>4, <2>3 DEF ClearedOK
  <2>4. m_errorReporter = << >> /\ faults = {}
    BY <2>2
  <2>5. Clear(pass, file)
    BY <2>4 DEF Clear
  <2> HIDE DEF file, faults
  <2>6. ASSUME NEW f \in Looked, NEW p \in 1 .. 21, p < pass' \/ (p = pass' /\ f \notin Range(toCheck'))
        PROVE  Clear(p, f)
    <3>1. CASE p = pass /\ f = file
      BY <2>5, <3>1
    <3>2. CASE ~(p = pass /\ f = file)
      <4>1. p < pass \/ (p = pass /\ f \notin Range(toCheck))
        BY <2>2, <2>6, <3>2
      <4> QED BY <2>1, <2>4, <4>1 DEF ClearedOK
    <3> QED BY <3>1, <3>2
  <2>7. pass' >= 20 => ~findMainContract.failed
    BY <2>1, <2>2, <2>4 DEF ClearedOK
  <2> QED BY <2>6, <2>7
<1>19. CASE EndAnalysis
  <2>1. /\ pc = "analyze" /\ toCheck = << >> /\ pass = 21
        /\ IF noErrors THEN pc' = "compile" /\ m_stackState' = "AnalysisSuccessful"
           ELSE pc' = "failed" /\ m_stackState' = m_stackState
    BY <1>19, PassFacts DEF EndAnalysis
  <2>2. CASE ~noErrors
    BY <1>5, <2>1, <2>2
  <2>3. CASE noErrors
    <3>1. m_errorReporter = << >>
      BY <2>1, <2>3 DEF ErrorsOK
    <3>2. Range(toCheck) = {}
      BY <2>1 DEF Range
    <3>3. \A p \in 1 .. 21 : p < pass \/ p = pass
      BY <2>1
    <3>4. (\A f \in Looked : \A p \in 1 .. 21 : Clear(p, f)) /\ ~findMainContract.failed
      BY <2>1, <3>1, <3>2, <3>3 DEF ClearedOK
    <3>5. pc' # "analyze"
      BY <2>1, <2>3
    <3> QED BY <1>2, <1>4, <3>4, <3>5 DEF ClearedOK
  <2> QED BY <2>2, <2>3
<1>20. CASE compile
  <2>1. pc = "compile" /\ pc' \in {"failed", "succeeded"}
    BY <1>20 DEF compile
  <2> QED BY <1>5, <2>1
<1>21. CASE Report
  BY <1>5, <1>21 DEF Report
<1>22. CASE UNCHANGED vars
  BY <1>2, <1>4, <1>22 DEF vars, ClearedOK
<1> QED BY <1>6, <1>7, <1>8, <1>9, <1>10, <1>11, <1>12, <1>13, <1>14, <1>15, <1>17, <1>18, <1>19, <1>20, <1>21, <1>22 DEF Next

\* The contract asked for is found, and contract() finds one of its name.
LEMMA TargetFacts ==
  ASSUME TypeOK, ParseOK, pc = "compile", ~findMainContract.failed, input.main # ""
  PROVE  LET main == findMainContract
         IN main.target # NoContract /\ main.target.name = input.main /\ contract(input.main).name = input.main
<1> DEFINE found == IF m_inputFile \in Range(m_sourceOrder) THEN Candidates ELSE {}
           target == findMainContract.target
           all == {c \in m_contracts : c.name = input.main}
<1>1. found # {}
  BY DEF findMainContract
<1>2. target = CHOOSE c \in found : TRUE
  <2>1. ~(\/ Cardinality(found) > 1
          \/ input.main # "" /\ found = {}
          \/ input.main # "" /\ input.code /\ \E c \in found : ~c.deployable)
    BY DEF findMainContract
  <2> HIDE DEF found
  <2> QED BY <1>1, <2>1 DEF findMainContract, found
<1>3. target \in found
  <2> HIDE DEF found, target
  <2> QED BY <1>1, <1>2
<1>4. target \in Candidates
  BY <1>1, <1>3
<1> HIDE DEF found, target
<1>5. target.name = input.main /\ target \in Range(input.contracts[m_inputFile])
  BY <1>4 DEF Candidates
<1>6. target # NoContract
  <2>1. NoContract.name = ""
    BY DEF NoContract
  <2> QED BY <1>5, <2>1
<1>7. [file |-> m_inputFile, name |-> target.name] \in m_contracts
  BY <1>5 DEF ParseOK
<1>8. all # {} /\ \A c \in all : c.file \in Nat
  <2>1. [file |-> m_inputFile, name |-> target.name].name = input.main
    BY <1>5
  <2>2. all # {}
    BY <1>7, <2>1
  <2>3. m_contracts \subseteq [file : Files, name : STRING]
    BY DEF TypeOK
  <2>4. \A c \in m_contracts : c.file \in Nat
    BY <2>3, FilesAreOrdered
  <2> QED BY <2>2, <2>4
<1>9. \E c \in all : \A d \in all : c.file <= d.file
  <2> DEFINE F == {c.file : c \in all}
  <2>1. F \in SUBSET Nat /\ F # {}
    BY <1>8
  <2> HIDE DEF all
  <2>2. PICK x \in F : \A y \in F : x <= y
    <3> HIDE DEF F
    <3> QED BY <2>1, LeastExists
  <2>3. PICK c \in all : c.file = x
    BY <2>2
  <2> QED BY <2>2, <2>3
<1>10. contract(input.main) \in all
  <2>1. contract(input.main) = CHOOSE c \in all : \A d \in all : c.file <= d.file
    BY DEF contract
  <2> HIDE DEF all
  <2> QED BY <1>9, <2>1
<1> QED BY <1>5, <1>6, <1>10 DEF target

\* What is generated and reported.
LEMMA AnswerStep ==
  ASSUME TypeOK, ParseOK, SortOK, OrderOK, ErrorsOK, ClearedOK, AnswerOK, [Next]_vars, TypeOK'
  PROVE  AnswerOK'
<1>1. input' = input
  BY InputAndOrderStay
<1>2. pc' # "assert"
  BY DEF TypeOK, Phase, Before
<1>0. Faults("codegen", m_inputFile)' = Faults("codegen", m_inputFile)
  <2>1. m_inputFile' = m_inputFile
    BY <1>1, InputStays
  <2> QED BY <1>1, <2>1 DEF Faults
<1>3. ASSUME pc \notin {"failed", "succeeded", "done"}, pc' \notin {"succeeded", "done"},
             UNCHANGED <<artifacts, outcome>>, m_stackState' # "CompilationSuccessful"
      PROVE  AnswerOK'
  <2>1. artifacts' = {} /\ outcome' = "none"
    BY <1>3 DEF AnswerOK
  <2> QED BY <1>2, <1>3, <2>1 DEF AnswerOK, OutcomeIsTrue
<1>4. pc \notin {"succeeded", "done"} => m_stackState # "CompilationSuccessful"
  BY DEF AnswerOK
<1>5. CASE setSources
  BY <1>3, <1>5 DEF setSources
<1>6. CASE ParseSource
  <2>1. pc = "parse" /\ pc' \in {pc, "imports"} /\ UNCHANGED <<artifacts, outcome, m_stackState>>
    BY <1>6 DEF ParseSource
  <2> QED BY <1>3, <1>4, <2>1
<1>7. CASE FindInStdlib
  BY <1>3, <1>4, <1>7 DEF FindInStdlib
<1>8. CASE StartLoading
  BY <1>3, <1>4, <1>8 DEF StartLoading
<1>9. CASE LoadImport
  BY <1>3, <1>4, <1>9 DEF LoadImport
<1>10. CASE EndLoading
  BY <1>3, <1>4, <1>10 DEF EndLoading
<1>11. CASE EndParse
  BY <1>3, <1>4, <1>11 DEF EndParse
<1>12. CASE SortRoot
  BY <1>3, <1>4, <1>12, SortRootIs DEF SortRoot
<1>13. CASE SortImport
  BY <1>3, <1>4, <1>13, SortImportIs DEF SortImport
<1>14. CASE SortLeave
  BY <1>3, <1>4, <1>14 DEF SortLeave
<1>15. CASE EndSort
  BY <1>3, <1>4, <1>15 DEF EndSort
<1>16. CASE StartPass
  <2>1. pc = "analyze" /\ pc' \in {pc, "failed"} /\ UNCHANGED <<artifacts, outcome, m_stackState>>
    BY <1>16 DEF StartPass
  <2> QED BY <1>3, <1>4, <2>1
<1>17. CASE CheckSource
  <2>1. pc = "analyze" /\ pc' \in {pc, "failed"} /\ UNCHANGED <<artifacts, outcome, m_stackState>>
    BY <1>17 DEF CheckSource
  <2> QED BY <1>3, <1>4, <2>1
<1>18. CASE EndAnalysis
  BY <1>3, <1>4, <1>18 DEF EndAnalysis
<1>19. CASE compile
  <2> DEFINE main   == findMainContract
             home   == Home(main.target)
             wanted == IF (input.abi \/ input.code \/ input.ids # {}) /\ main.target # NoContract THEN Wanted(home) ELSE {}
             failed == {k \in wanted : Fails(k, home)}
             made   == {k \in wanted : \A j \in failed : Place[k] < Place[j]}
  <2>1. pc = "compile" /\ m_errorReporter = << >> /\ ~main.failed /\ outcome' = outcome /\ outcome = "none"
    BY <1>19 DEF compile, ErrorsOK, ClearedOK, AnswerOK
  <2>2. /\ pc' = IF failed # {} THEN "failed" ELSE "succeeded"
        /\ m_stackState' = IF failed # {} THEN m_stackState ELSE "CompilationSuccessful"
        /\ m_errorReporter' = IF failed # {} THEN Reported(m_errorReporter, <<"compile", m_inputFile>>) ELSE m_errorReporter
        /\ artifacts' = {[of |-> home, kind |-> k] : k \in made}
    BY <1>19, <2>1, Zenon DEF compile
  <2>3. m_stackState = "AnalysisSuccessful"
    BY <2>1 DEF ErrorsOK
  <2>4. Reported(m_errorReporter, <<"compile", m_inputFile>>) # << >>
    <3>1. <<"compile", m_inputFile>> \in Message
      BY InputFacts, FilesAreOrdered DEF Message, TypeOK
    <3> QED BY <3>1, ReportedFacts DEF TypeOK
  <2>5. (\E a \in artifacts' : a.kind = "code") => Faults("codegen", m_inputFile) = {}
    <3>1. SUFFICES ASSUME NEW a \in artifacts', a.kind = "code"
                   PROVE  Faults("codegen", m_inputFile) = {}
      OBVIOUS
    <3>2. "code" \in made
      <4> HIDE DEF made, home
      <4>1. PICK k \in made : a = [of |-> home, kind |-> k]
        BY <2>2, <3>1
      <4> QED BY <3>1, <4>1
    <3>3. ~(Place["code"] < Place["code"])
      BY DEF Place
    <3>4. "code" \notin failed /\ "code" \in wanted
      <4> HIDE DEF wanted, failed
      <4> QED BY <3>2, <3>3
    <3>5. ~Fails("code", home)
      <4> HIDE DEF wanted, home
      <4> QED BY <3>4
    <3> HIDE DEF home
    <3> QED BY <3>5 DEF Fails
  <2>6. CASE failed # {}
    <3> HIDE DEF failed, made, home, wanted
    <3>1. /\ pc' = "failed" /\ m_stackState' = "AnalysisSuccessful" /\ outcome' = "none"
          /\ m_errorReporter' # << >>
      BY <2>1, <2>2, <2>3, <2>4, <2>6
    <3> QED BY <1>0, <2>5, <3>1 DEF AnswerOK, OutcomeIsTrue
  <2>7. CASE failed = {}
    <3>1. pc' = "succeeded" /\ m_stackState' = "CompilationSuccessful" /\ m_errorReporter' = << >> /\ outcome' = "none"
      <4> HIDE DEF failed, made
      <4> QED BY <2>1, <2>2, <2>7
    <3>2. made = wanted
      <4> HIDE DEF wanted, failed
      <4> QED BY <2>7
    <3>3. ASSUME input.main # "", input.driver = "cli" => input.ids = {}, NEW k \in {"abi", "code"}, input[k]
          PROVE  \E a \in artifacts' : a.kind = k /\ a.of.name = input.main
      <4>1. main.target # NoContract /\ main.target.name = input.main /\ contract(input.main).name = input.main
        BY <2>1, <3>3, TargetFacts
      <4>2. k \in Wanted(home)
        <5>1. input.driver \in {"cli", "json"}
          BY InputFacts DEF TypeOK
        <5> HIDE DEF home
        <5> QED BY <3>3, <5>1 DEF Wanted
      <4>3. k \in wanted
        <5> HIDE DEF main, home
        <5> QED BY <3>3, <4>1, <4>2
      <4>4. home.name = input.main
        <5> HIDE DEF main
        <5> QED BY <4>1 DEF Home
      <4>5. [of |-> home, kind |-> k] \in artifacts'
        <5> HIDE DEF home, wanted, made
        <5> QED BY <2>2, <3>2, <4>3
      <4>6. [of |-> home, kind |-> k].kind = k /\ [of |-> home, kind |-> k].of = home
        OBVIOUS
      <4> HIDE DEF home
      <4> QED BY <4>4, <4>5, <4>6
    <3> HIDE DEF main, home, wanted, failed, made
    <3> QED BY <1>0, <1>1, <2>5, <3>1, <3>3 DEF AnswerOK, OutcomeIsTrue
  <2> QED BY <2>6, <2>7
<1>20. CASE Report
  <2>1. /\ pc \in {"failed", "succeeded"} /\ pc' = "done"
        /\ m_stackState' = m_stackState /\ m_errorReporter' = m_errorReporter /\ artifacts' = artifacts
    BY <1>20 DEF Report
  <2>2. CASE pc = "failed"
    <3>1. m_errorReporter # << >> /\ m_stackState # "CompilationSuccessful"
      BY <2>2 DEF ErrorsOK, AnswerOK
    <3>2. outcome' = "errors"
      BY <1>20, <2>2, <3>1 DEF Report
    <3> QED BY <1>0, <1>1, <2>1, <3>1, <3>2 DEF AnswerOK, OutcomeIsTrue
  <2>3. CASE pc = "succeeded"
    <3>1. m_errorReporter = << >> /\ m_stackState = "CompilationSuccessful"
      BY <2>3 DEF AnswerOK
    <3>2. outcome' = "ok"
      BY <1>20, <2>3, <3>1 DEF Report
    <3> QED BY <1>0, <1>1, <2>1, <2>3, <3>1, <3>2 DEF AnswerOK, OutcomeIsTrue
  <2> QED BY <2>1, <2>2, <2>3
<1>21. CASE UNCHANGED vars
  BY <1>0, <1>21 DEF vars, AnswerOK, OutcomeIsTrue
<1> QED BY <1>5, <1>6, <1>7, <1>8, <1>9, <1>10, <1>11, <1>12, <1>13, <1>14, <1>15, <1>16, <1>17, <1>18, <1>19, <1>20, <1>21 DEF Next

\* The invariant holds when the driver starts.
LEMMA StackInit ==
  ASSUME Init
  PROVE  StackInv
<1>1. input \in Inputs /\ m_inputFile \in Files
  BY InputFacts DEF Init
<1>2. /\ pc = "setSources" /\ m_stackState = "Empty" /\ m_sources = << >> /\ sourcesToParse = << >> /\ path = m_inputFile
      /\ importing = << >> /\ newSources = {} /\ m_contracts = {} /\ roots = << >> /\ visiting = << >> /\ sourcesSeen = {}
      /\ m_sourceOrder = << >> /\ pass = 0 /\ toCheck = << >> /\ noErrors = TRUE /\ m_errorReporter = << >>
      /\ artifacts = {} /\ outcome = "none"
  BY DEF Init
<1>3. DOMAIN << >> = {} /\ Range(<< >>) = {}
  BY DEF Range
<1>4. TypeOK
  BY <1>1, <1>2, <1>3, EmptySeq DEF TypeOK, Phase, Before, State
<1>5. ParseOK /\ OrderOK /\ ErrorsOK /\ ClearedOK
  BY <1>2, <1>3 DEF ParseOK, OrderOK, ErrorsOK, ClearedOK, Before
<1>6. SortOK
  BY <1>2, <1>3 DEF SortOK, Before, Looked
<1>7. AnswerOK /\ ImportsComeFirst
  BY <1>2, <1>3 DEF AnswerOK, OutcomeIsTrue, ImportsComeFirst, IsInjective
<1> QED BY <1>4, <1>5, <1>6, <1>7 DEF StackInv

\* The steps above, together.
LEMMA StackStep ==
  ASSUME StackInv, [Next]_vars
  PROVE  StackInv'
<1> USE DEF StackInv
<1>1. TypeOK'
  BY TypeStep
<1>2. ParseOK' /\ SortOK' /\ ImportsComeFirst'
  BY ParseStep, SortStep, ImportsStep
<1>3. OrderOK' /\ ErrorsOK' /\ ClearedOK'
  BY OrderStep, ErrorsStep, ClearedStep
<1>4. AnswerOK'
  BY <1>1, AnswerStep
<1> QED BY <1>1, <1>2, <1>3, <1>4

\* The invariant holds in every state of every compilation.
THEOREM StackIsSound == Spec => []StackInv
<1>1. Init => StackInv
  BY StackInit
<1>2. StackInv /\ [Next]_vars => StackInv'
  BY StackStep
<1> QED BY <1>1, <1>2, PTL DEF Spec

\* Whatever the checks find and in whichever order they find it, analyze succeeds only if the
\* sources it went through are complete and no check has an error to report about one of them.
THEOREM SuccessMeansChecked == Spec => []AnalysisIsComplete
<1>1. StackInv => AnalysisIsComplete
  <2> SUFFICES ASSUME StackInv, m_stackState \in {"AnalysisSuccessful", "CompilationSuccessful"}
               PROVE  AnalysisIsComplete
    BY DEF AnalysisIsComplete
  <2>1. /\ {f \in input.given : isRequestedSource(f)} \subseteq Looked
        /\ \A f \in Looked : Imports(f) \subseteq Looked
    BY DEF StackInv, OrderOK
  <2>2. \A f \in Looked : \A p \in 1 .. 21 : Clear(p, f)
    BY DEF StackInv, ClearedOK
  <2>3. \A f \in Looked : \A p \in DOMAIN Passes : (Passes[p].name = "flag128" => input.ton) => Faults(Passes[p].name, f) = {}
    BY <2>2, PassFacts DEF Clear, Concerns
  <2> QED BY <2>1, <2>3 DEF AnalysisIsComplete, Looked, Imports
<1> QED BY <1>1, StackIsSound, PTL

\* toposort puts imports first and no source twice, for every import graph.
THEOREM SourcesAreSorted == Spec => []ImportsComeFirst
<1>1. StackInv => ImportsComeFirst
  BY DEF StackInv
<1> QED BY <1>1, StackIsSound, PTL

\* Both drivers tell the truth about every compilation, and no assertion of toposort fails.
THEOREM AnswersAreTrue == Spec => []OutcomeIsTrue
<1>1. StackInv => OutcomeIsTrue
  BY DEF StackInv, AnswerOK
<1> QED BY <1>1, StackIsSound, PTL
=============================================================================
