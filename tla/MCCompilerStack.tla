-------------------------- MODULE MCCompilerStack --------------------------
(* Compilations of up to three files and one of the standard library for TLC.       *)
EXTENDS CompilerStack

MCFiles == 1 .. 4
MCStdlib == {4}

C == [name |-> "C", library |-> FALSE, deployable |-> TRUE]
D == [name |-> "D", library |-> FALSE, deployable |-> TRUE]
I == [name |-> "I", library |-> FALSE, deployable |-> FALSE]
L == [name |-> "L", library |-> TRUE, deployable |-> FALSE]

Fault(check, file, kind) == [check |-> check, file |-> file, kind |-> kind]
Checks == {Passes[p].name : p \in DOMAIN Passes}

\* Import directives of one file, in every order.
ImportLists == {<< >>, <<1>>, <<2>>, <<3>>, <<1, 3>>, <<2, 3>>, <<3, 2>>}

Compilation ==
  [driver |-> "cli", given |-> {1}, imports |-> <<<<2>>, <<3>>, << >>, << >>>>, readable |-> {2, 3},
   requested |-> {}, faults |-> {}, contracts |-> <<<<C, L>>, << >>, <<I>>, <<L>>>>,
   main |-> "", abi |-> TRUE, code |-> TRUE, ids |-> {}, ton |-> FALSE]

\* The same by a driver: the standard JSON interface always makes the lists.
By(d, g) == [g EXCEPT !.driver = d, !.ids = IF d = "json" THEN Lists ELSE @]

\* Every import graph, with files that cannot be read or parsed and with part of the
\* sources requested; the second file fails one of the checks.
Graphs == {[Compilation EXCEPT !.imports = <<i, j, k, << >>>>] : i, j, k \in ImportLists}

GraphInputs ==
  Graphs
  \cup {[g EXCEPT !.readable = {3}] : g \in Graphs}
  \cup {By("json", [g EXCEPT !.given = {1, 2}, !.requested = r]) : g \in Graphs, r \in {{1}, {2}}}

FewGraphs == {[Compilation EXCEPT !.imports = g] :
                g \in {<<<<2>>, <<3>>, << >>, << >>>>, <<<<3, 2>>, <<1>>, <<2>>, << >>>>,
                      <<<<2, 3>>, << >>, <<3>>, << >>>>, <<<<4, 2>>, <<3, 4>>, <<1>>, << >>>>}}

Kinds == {"error", "fatal"}

\* Up to two errors in any two checks and sources.
FaultInputs ==
  {By(d, [g EXCEPT !.faults = {Fault(c, f, k)}, !.ton = TRUE]) :
     g \in FewGraphs, c \in Checks \cup {"parse", "codegen"}, f \in MCFiles, k \in Kinds, d \in {"cli", "json"}}
  \cup {[g EXCEPT !.faults = {Fault("parse", 1, "error"), Fault("parse", f, "error")}, !.readable = r] :
          g \in FewGraphs, f \in {2, 3}, r \in {{2}, {2, 3}, {}}}
  \cup {[Compilation EXCEPT !.faults = {Fault(c, f, "error"), Fault(e, h, "error")}] :
          c \in Checks, e \in {"docTags", "contractLevel", "viewPure"}, f \in {3}, h \in {1, 2}}

\* Which contract is meant.
MainInputs ==
  {By(d, [Compilation EXCEPT !.contracts[1] = cs, !.main = m, !.abi = o[1], !.code = o[2]]) :
     cs \in {<< >>, <<C>>, <<L, I>>, <<C, I>>, <<C, D, L>>, <<I, D>>},
     m \in {"", "C", "I", "L", "D"}, o \in {<<TRUE, TRUE>>, <<TRUE, FALSE>>}, d \in {"cli", "json"}}
  \cup {[Compilation EXCEPT !.contracts[1] = cs, !.main = m, !.abi = FALSE, !.code = c] :
          cs \in {<<C>>, <<C, D>>, <<I>>}, m \in {"", "C"}, c \in BOOLEAN}

\* What is made: every choice of outputs, with contracts of one name in two files of which
\* the first is not the main contract's, and one or two failures on the way.
OutputFaults == {Fault(c, f, "fatal") : c \in {"codegen", "codeFile", "abiFile"}, f \in {1, 2}}

OutputInputs ==
  {By(d, [Compilation EXCEPT !.contracts = cs, !.given = {g}, !.imports = <<<< >>, <<1>>, << >>, << >>>>,
                             !.readable = {1, 2}, !.main = m, !.abi = o[1], !.code = o[2], !.ids = l, !.faults = fs]) :
     d \in {"cli", "json"}, g \in {1, 2}, m \in {"", "C", "I"},
     cs \in {<<<<C>>, <<C, L>>, << >>, << >>>>, <<<<I>>, <<C, I>>, << >>, << >>>>, <<<<C, I>>, <<I>>, << >>, << >>>>},
     o \in {<<TRUE, TRUE>>, <<TRUE, FALSE>>, <<FALSE, FALSE>>}, l \in SUBSET Lists,
     fs \in {{}} \cup {{a, b} : a \in OutputFaults, b \in OutputFaults}}

MCInputs == GraphInputs \cup FaultInputs \cup MainInputs \cup {i \in OutputInputs : i.driver = "json" => i.abi}
=============================================================================
