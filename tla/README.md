# Verification of the TVM Solidity compiler

The repository is a Solidity compiler whose back end (`compiler/libsolidity/codegen`)
generates code for the Threaded Virtual Machine (TVM). The front end (scanner, parser,
name resolution, types) comes from upstream Solidity; what is this repository's own is
the code generator, the run-time protocol that it wraps around every contract, and the
optimizers that rewrite TVM stack code. This project models those in TLA+, checks
them with TLC on small instances and proves the central facts with TLAPS.

In this file FC is `TVMFunctionCompiler.cpp` and all files without a directory are
those of `src/compiler/libsolidity/codegen/`.

## 1. Inventory

### 1.1 The run-time protocol (what the compiler emits around a contract)

*State.* The persistent cell `c4` (public key, replay value "time", constructor flag, state
variables), the globals `c7` into which it is loaded, the output actions `c5`, the
last COMMIT, whether the message was accepted.

*Operations.* `main_external` (load `c4`, check the signature, replay protection or the
user's `afterSignatureCheck`, expiration, function selector), `main_internal` (constructor
flag, bounced messages, receive or fallback for short bodies, selector), `onTickTock`, the
entry code of constructors and functions, the return code (`c7_to_c4`,
`upd_only_time_in_c4`, return messages), and the built-ins `tvm.accept`, `commit`,
`rawCommit`, `exit`, `resetStorage`, `onCodeUpgrade`.

*What is hard.* The network delivers external messages repeatedly and in any order; a
transaction fails at any point and rolls back to the last COMMIT; which fragment loads and
which saves the state depends on mutability, markers (`externalMsg`, `internalMsg`),
headers, the kind of protection and the number of state variables, decided in several
places of the generator that must agree; "was c4 loaded" is guessed at run time from one
global being null.

*Correct means.* An external message takes effect at most once; nothing takes effect before
the constructor, and that only once; no assignment is lost; view and pure functions keep
the state; globals that were not loaded are never saved.

### 1.2 Stack optimizer and simulator (`StackOptimizer.cpp`, `TVMSimulator.cpp`)

*State.* The code of a function, a stack of blocks being visited, each with a cursor and
the tracked stack size; the number of the pass.

*Operations.* Fourteen rewritings tried at every node (`successfullyUpdate`), most of them
justified by a symbolic run of the rest of the block (`Simulator`): will this stack
element be dropped unread, or overwritten? Visiting nodes and the bodies of
conditionals; starting the next pass.

*What is hard.* Rewritings follow each other at the same node on code changed by the
previous ones; code is moved across effects; the tracked stack size must stay true while the
code behind it changes; the loop must end.

*Correct means.* The code does the same before and after; the tracked size is real; only
instructions with legal operands are built; the optimizer ends.

### 1.3 Stack opcode squasher (`StackOpcodeSquasher.cpp`) and its use in `PeepholeOptimizer.cpp`

*State.* Two families of tables, by start size: stack -> (price, previous stack,
instruction), filled by a best-first search with a queue.

*Operations.* One expansion of the queue, the next table, `recover`, the replacement of a
run of instructions.

*What is hard.* `StackState` keeps old values behind its size; entries of the queue are
replaced while the search runs; a replacement found for one assumed stack size is used
whatever the real size.

*Correct means.* Table entries are true of the TVM; a replacement leaves the same
stack, is cheaper and needs no deeper stack; the search ends.

### 1.4 Calls and their order (`FunctionCallGraph` in `TVMPusher.cpp`, `TVMContractCompiler.cpp`)

*State.* The graph of accepted calls, the colours and the order of the last search, the
private ids, the code made so far.

*Operations.* Every call site tries to add its edge; a depth-first search over the whole
graph refuses it if it closes a loop, and the call is then made through a private id.
`fillInlineFunctions` generates inline functions first, `DAG` orders the output.

*What is hard.* The answer depends on all calls compiled before; the refused edge is taken
out in the middle of a search whose members live on; code that was emitted for an edge
relies on that edge staying.

*Correct means.* The graph has no loop and still holds every edge for which code refers to a
fragment; a fragment precedes its users; an id is used only for a call that would
close a loop, and has a function behind it; the compilation ends.

### 1.5 Cells: state variables and messages (`TVMABI.cpp`, `TVMFunctionCompiler.cpp`, `TVMFunctionCall.cpp`)

*State.* The persistent cell, the globals with the slice of unpacked variables, the builder of a
message; at compile time the position of every value in a chain of cells (`AbiV2Position`).

*Operations.* Default data, `c4_to_c7`, `c7_to_c4`, `tvm.unpackData`, `tvm.packData`,
`tvm.resetStorage`; building an internal or external message, or a body; decoding the
arguments of a public function.

*What is hard.* Writer and reader compute cell boundaries separately, from greatest
sizes, offsets and references; cells hold 1023 bits and 4 references; `packData` takes a
slice apart and puts it together again by recounting its parts.

*Correct means.* No cell over- or underflows; a value read is the value last written.

### 1.6 Statements (`TVMFunctionCompiler.cpp` 708-1576)

*State.* At compile time the image of the stack and a list of `ControlFlowInfo`; at run
time the stack with flags, the continuations in c0, c1, c2.

*Operations.* One visitor per statement: blocks, `if`, five loops, `try`, `break`, `continue`,
`return`.

*What is hard.* How a nested statement was left is told by a flag on the stack, which is
dropped, copied or kept depending on all statements around; the number of slots to drop is
computed far from where they were pushed.

*Correct means.* The compiled function does what the statements say; the stack is as deep as
the compiler believes; a function gives back c1 and c2.

### 1.7 Peephole optimizer (`PeepholeOptimizer.cpp`, passes in `TVMContractCompiler.cpp` 285)

*State.* The block, the place in it, whether something was replaced; the flags of the pass.

*Operations.* About a hundred and fifty rules on one to six instructions or on runs of them,
tried in a fixed order; squashing into and unsquashing of compound opcodes; constant
slices; the same inside nested blocks; four passes with different flags.

*What is hard.* A rule sees what other rules made; several rules are wrong unless an earlier one
has removed certain code; operands are computed and must still be encodable; rules run until
none applies.

*Correct means.* The block does the same, every instruction can be encoded, no rule undoes
another.

### 1.8 The phases of a compilation (`interface/CompilerStack.cpp`, `StandardCompiler.cpp`, `ErrorReporter.cpp`)

*State.* `m_stackState`, the sources, their order, the flag `noErrors`, the reported errors, what
was generated.

*Operations.* Parsing with a worklist that grows with the imports; sorting the sources along
imports that may be circular; twenty-one checks over all sources; choice of the main
contract; code generation; the report of the driver.

*What is hard.* A check's negative answer is noted, ends the analysis, overwrites the flag, or is
ignored; some checks answer for themselves and some for all errors so far; one error too
many is an exception wherever the compiler is.

*Correct means.* Success means that all sources, in the order of their imports, passed all checks;
failure comes with a reason; the compilation ends.

### 1.9 Components that are not modelled

Listed in `PROJECT.json` with reasons, see section 6.

Components interact along the pipeline: phases (1.8) call the front end, then the code
generator, which emits the protocol (1.1) around code for statements (1.6) and messages (1.5)
and decides about calls (1.4); the result goes through the stack optimizer (1.2) and the peephole
optimizer (1.7, with the squasher 1.3), then to the size optimizer and the assembler. The stack
optimizer, the peephole optimizer and the squasher share `TvmStack`, one definition of what
stack instructions do, as their reference; state variables and messages share `AbiCells`.

## 2. Plan

Done, in this order: the run-time protocol with its abstract specification and first proofs,
the stack optimizer, the squasher; then the call graph, the state variables, the message
bodies, the statements, the peephole optimizer and the phases of a compilation.

Proved so far (section 7): the safety properties of the run-time protocol and its refinement, the
call graph with the order of the output, the phases of a compilation, the tables and the
replacements of the squasher, the way of arguments from sender to receiver, the state variables in
c4 and in the slice of unpacked variables. What is left to model checking, and why, is at the end of
section 7.

## 3. Modules

| module | what it is |
|---|---|
| `ContractRuntime` | the run-time protocol, its properties and the inductive invariant |
| `ContractInvariants` | the inductive invariant behind its other properties, and the contracts they are about |
| `AbstractContract` | what a contract promises, seen through its persistent data |
| `ContractRefinement` | the refinement mapping from `ContractRuntime` to it |
| `ContractRuntimeProofs` | TLAPS proofs about these four |
| `ContractSamples`, `MCContractRuntime` | contracts and messages; the instance |
| `TvmStack` | stack instructions and their effect (external: the TVM) |
| `TvmSimulator` | `Simulator`: what becomes of a stack segment |
| `StackOptimizer` | the optimizer's rewritings and passes, and the meaning of code |
| `FunctionSamples`, `MCStackOptimizer` | functions; the instance |
| `StackOpcodeSquasher`, `MCStackOpcodeSquasher` | search, tables, replacement; the instance |
| `StackOpcodeSquasherProofs` | TLAPS proofs about the search, and about what it replaces |
| `CallGraph`, `MCCallGraph` | calls, edges, ids, order of the output; the instance |
| `CallGraphProofs` | TLAPS proofs about it |
| `AbiCells` | types, sizes, `AbiV2Position`, `encodeParameters`, `decodeParameters` |
| `StateStorage`, `MCStateStorage` | the state variables in c4 and c7; the instance |
| `StorageInvariants` | the contracts its properties are about, and the inductive invariant |
| `MessageBody`, `MCMessageBody` | messages between contracts; the instance |
| `AbiCellsProofs`, `StorageProofs`, `MessageBodyProofs` | TLAPS proofs about encoder and decoder, about the state variables, and about messages |
| `NumberRecursion` | TLAPS lemmas: induction and recursion on numbers |
| `StatementCompiler` | the code generator on statements |
| `TvmMachine` | stack, continuations and control flow instructions (external: the TVM) |
| `ControlFlow` | the compiled function on the machine, against the meaning of statements |
| `ProgramSamples`, `MCControlFlow` | functions; the instance |
| `PeepholeRules` | the rules, in the order of the source |
| `TvmInstructions` | the effect of the other instructions of blocks (external: the TVM) |
| `PeepholeOptimizer` | sweeps, parts of a pass, nested blocks, passes |
| `CodeSamples`, `MCPeepholeOptimizer` | blocks; the instance |
| `CompilerStack`, `MCCompilerStack` | the phases of a compilation; the instance |
| `CompilerStackProofs` | TLAPS proofs about it |
| `ContractFindings`, `StorageFindings`, `ControlFindings` | a statement each that the code does not keep |

### 3.1 ContractRuntime

A behaviour is the life of one deployed contract. The constant `Contracts` holds what the
generator knows of a contract (`ContractType`: headers, protection, number of variables,
functions with kind, mutability, markers and return). A transaction starts with
`MainExternal`, `MainInternal` or `OnTickTock`, moves through the program counter `pc`
(signature, replay, expire, dispatch, select, entry, body, end) and finishes with
`EndTransaction`, which applies the TVM's rule: nothing if the message was not accepted, the
registers after success, the last COMMIT after an exception. The user's function is a
free sequence of built-ins limited by `Gas`. Data is reduced to what the properties
distinguish: the state variables are one counter of assignments, a message is its
signing key, claimed key, time, expiry, body shape and whether its arguments decode.
`loaded` in `c7` stands for the globals not being null. The TVM, the network and block time
are external. The history variables `effects` and `built` count what persisted.

The generator's tests (`pushC4ToC7IfNeed`, `updC4IfItNeeds`, `was_c4_to_c7_called`,
`checkCtorCalled`, ...) are operators with the source's names; the emitted code that they
choose is the action's effect.

Left out: `tvm.setPubkey`, `tvm.setData` (TVMFunctionCall.cpp:2927) and
`tvm.setReplayProtectionValue` (2969), which write `c4` and the replay time without any check, getters,
`await`, the code that runs after `tvm.setcode`,
`nostorage` and unpacked variables, gas prices. A `receive` function with an empty body is
treated as no `receive`, as the generator does.

### 3.2 TvmStack, TvmSimulator, StackOptimizer

A block is a sequence of nodes, an instruction a record with up to three operands.
`TvmSimulator!Run` is `Simulator::run`, one operator per visited node kind.
Each rewriting of `StackOptimizer` is an operator that yields the set of blocks it may
produce (empty when it does not apply); `Rewritten` takes the first that applies, in the
order of the source. The actions are `Rewrite`, `VisitNode`, `EnterIf`, `LeaveIf`, `EndPass`.
`Meaning` executes a function symbolically: values are terms, a call may change the
globals, impure instructions and throws are logged in order, and both outcomes of a
condition are followed.

Left out: loops, try/catch, sub-programs, LogCircuit, `RETURN` inside a conditional that does
not jump. The solAsserts inside the simulator are not stated; compound opcodes do not
occur, because the stack optimizer runs before they are introduced.

### 3.3 StackOpcodeSquasher

`apply` follows `StackState::apply` on the fixed array, stale cells included; `Key` is
its `operator==`. `Expand` is one turn of the search loop (all edges from the front of the
queue; edges of equal price are tried in the order of the source, here any one), `NextTable`
the end of a table, `Squash` one use by the peephole optimizer. The hash only orders the queue;
for digits below 31 it has no collisions, so the set of the source never merges two entries.
`gasCost` calls `init` at the first use, which is the initial state here.

### 3.4 CallGraph

A name is a number, since `std::map` iterates in order of names. A program tells which
functions a function calls, which are inline, and which is `onCodeUpgrade`. The phases
follow `generateContractCode`: the check of `TVMInlineFunctionChecker`, the inline functions,
the other functions, the order. `Call` starts a call site, `TryEdge` and `StartSearch` begin
`tryToAddEdge`, each visit of `dfs` is a step, `EdgeAdded` and `EdgeRefused` are its two
outcomes with the code that the caller emits. `StartOutput`, `EmitOrdered`, `StartRest`, `EmitOther` and
`Done` are the loops that put the functions into the output, first along `DAG()`, then the ones
left in `functionsInMap`. The entry point is compiled behind all other functions; in the source
`main_internal` and `main_external` (TVMContractCompiler.cpp:172) come before the functions of libraries
(178) and free functions (200). Nothing calls the entry point, so its edges never close a loop and
the graph is the same. Private ids are one per function (see 5).

### 3.5 AbiCells, StateStorage, MessageBody

A type is its greatest size in bits and references and how it is stored; a value is its type,
the number of its variable and a tag. A cell is the sequence of stored fields with its
references; a store that exceeds 1023 bits or 4 references, and a load of anything that is not
next in the slice, breaks. `AbiV2Position` is the position computation on suffix sums; encoder and
decoder are recursive functions on the list that follow it. What a type may be is `TypeSizes`:
one value of it fits into a cell beside a reference to the next one.

`StateStorage` has one action per operation on the state of a contract. What `UnpackedCoderDecoder`
emits is a loop over the members (`Iterate` with the body of the loop as a step): `unpackedData`
decodes or skips; `TakeApart`, the first half of `packData`, collects new values and pieces of the old
slice, with its cases for a replaced value, a kept cell and a kept run; `PutTogether`, the second half,
puts them into builders. What the code keeps on the stack in between is a list of parts.
`StorageInvariants` says what a contract is (`ContractsAssumption`): types as `ABITypeSize` knows them
(a type with a fixed number of references that is not of fixed size, such as an address, has none), a
header without references that fits into the first cell, variables with at least one member, and
`PositionsAgree`: the positions that `c4_to_c7` computes from the usual variables alone are those
computed from all. The last is not true of every contract; where it is not, the finding `four_refs`
is what happens.
`MessageBody` builds a message from a request (`Send`) and decodes it in a receiver (`Receive`)
that knows only the function's parameters. A request has a tag for each argument, so that every
mixture of small and large values is sent. `RequestsAssumption` says what a request is;
its part `Counted` leaves out what the compiler does not count (section 5, *Cells*), and only where a
body is appended to its header. The receiver is one of internal messages; `main_external`, which
takes headers off the body first, is not modelled as a receiver here.

### 3.6 StatementCompiler, TvmMachine, ControlFlow

`Compile(s, c)` maps a statement and the compiler's state (image of the stack, control flow
around, open block) to the state afterwards; one operator per visitor, with the
names of the source for the helpers that handle flags. Dead code behind an instruction that
leaves is dropped as by `DeleterAfterRet`. Expressions are reduced to conditions, which the
environment answers, and to assignments, increments and logs of variables. A `for` declares one
variable and has a condition and a loop expression; without them (`haveDeclLoopVar`,
TVMFunctionCompiler.cpp:1437-1466) a part of the same code is emitted, which for no variable and no
expression is that of `while`. `TvmMachine` executes
the code with continuations that save registers. `Do` in `ControlFlow` is the meaning of the
statements, written without stack, flags or continuations.

### 3.7 PeepholeRules, TvmInstructions, PeepholeOptimizer

A rule is a condition with the number of instructions it replaces and the replacement;
`r ?? q` is "r, otherwise q", the sequence of `if ... return` of the source. `optimizeAt` tries
rules for one to six instructions and for runs, in that order, then `unsquash`, `squash` and
`optimizeSlice` in their parts of a pass. A step of the specification is one replacement
(`Replace`, with `updateLinesAndIndex` and the step back by ten), a new sweep, the next part, or the
visit of the blocks inside. `Effect` executes a block on a stack of small integers, with
builders, slices, tuples, globals, exceptions and the ways to return. Bits of constants are lists of bits;
`MaxSTSLICECONST` and `CellBitLength` are scaled down (6 and 12) so that both limits are met.

Left out: the rule with the squasher's tables (`StackOpcodeSquasher`), `.loc` lines (the rules
skip them), WHILE{TRUE} to AGAIN, `concatenateStrings`, INDEX2/INDEX3, LDREF, LDDICT and
PLDREFIDX, the LogCircuit and `c7_to_c4` rules of DUP, rules on 256-bit operands, and
the difference between PUSHREFCONT and PUSHCONT. The eleven passes with the same flags
between which the stack optimizer runs are one pass here.

### 3.8 CompilerStack

What a file says is reduced to imports, contracts and the errors that each check would find.
`Passes` lists the checks of `analyze` and `analyzeLegacy` in their order with what each
answers and what becomes of the answer. Parsing follows the nested loops of `parse`: `ParseSource`
takes the next source of the worklist, `FindInStdlib` looks up one of its imports in the standard
library, `StartLoading`, `LoadImport` and `EndLoading` are `loadMissingSources`, import by import;
`toposort` is one visit per step; `StartPass` includes the search for the main contract, which
`TVMTypeChecker` starts; `Report` is the driver.

`compile` makes up to four things: code, ABI, and the lists of function ids and of private function
ids. `Wanted` says which, `Place` in which order, `Fails` what ends in a FatalError, and the artifacts
are what came before the first failure. The drivers differ in all three. The command line
(`TVMCompilerProceedContract`) makes a list *instead of* the files, or the file with the code and then
the one with the ABI, and either file may not open (TVMContractCompiler.cpp:66, 87): code can be there
without ABI and without success. The standard JSON interface stores ABI, then code, then, always, both
lists (StandardCompiler.cpp:1033); the list of private functions of a contract that can be deployed
runs the code generator again (TVMABI.cpp:69), also when no code was asked for, and for the contract
that `contract()` finds under the main contract's name, which may be another one.

Left out: warnings, remappings, the experimental pragma, AST import, metadata, the exit of the process
when the output directory cannot be created (TVM.cpp:54), exceptions other than FatalError, files
left by an earlier compilation.

## 4. Runs

| run | bounds | checks |
|---|---|---|
| `runtime` | 5 contracts, 7 external and 9 internal messages, `MaxNow` 1, `MaxWrites` 2, `Gas` 3 | TypeOK, AtMostOnce, EffectsAreChecked, ConstructedFirst, NoLostUpdate, ViewKeepsState, SavesOnlyLoaded, ReplayValueMonotone, ImplementsAbstract |
| `stack_optimizer` | functions of 3 parameters: straight code of 3 nodes, assignments of 4 or 5, one conditional of each form | SameEffect, StackSizeIsReal, OperandsWellFormed, Terminates |
| `squasher` | stacks of up to 4 cells, both instruction sets, all pairs of simple instructions and triples of twelve | TablesAreReal, SquashKeepsStack, SquashNeedsNoMore, SearchEnds |
| `call_graph` | all programs of 3 functions with at most 4 calls, 2 of them perhaps inline, 1 perhaps `onCodeUpgrade`, and the entry point | CodeIsInGraph, GraphHasNoLoop, DefinedBeforeUse, IdsResolve, IdOnlyForLoop, CompilationEnds |
| `state_storage` | 4 lists of usual variables, all lists of up to 2 (behind one of them 3) unpacked variables of 5 kinds, values by two tags | NothingBreaks, UsualIsCurrent, AnswerIsCurrent, SliceIsCurrent |
| `message_body` | all lists of up to 4 parameters of 6 types, values all default, all large or in turn; calls, events and encoded bodies | MessageIsBuilt, ReceivedIsSent |
| `control_flow` | a way out under up to 3 statements of 11 kinds, at most 5 conditions answered | SourceSemantics, StackSizeIsKnown, RegistersAreRestored |
| `peephole` | blocks of up to 6 instructions, and runs of up to 20 | TypeOK, SameEffect, NeverUndone |
| `compiler_stack` | 3 files and one of the standard library, all import graphs of 7 lists each, 1 or 2 errors in any check, `MaxErrors` 2 | AnalysisIsComplete, ImportsComeFirst, OutcomeIsTrue, CompilationEnds |

Why the bounds are enough to meet the interesting cases.

*runtime*: the contracts together take every branch of the generated code (both
protections, the custom one, no external messages; constructors with and without external
messages; every handler); two seconds of block time make a message both early and late for the
replay window (`MsPerSecond` 2, `Interval` 2) and valid and expired; three built-ins allow
accept, assign or send, then commit, then an exception. ImplementsAbstract is a statement about the three
contracts that use neither `tvm.rawCommit` nor their own replay protection nor go without a
constructor.

*stack_optimizer*: every one of the fourteen rewritings fires, at depths where the
parameters are and are not in the scope; a rewriting looks at most at two nodes besides
the simulated rest, and the longer functions give the simulation two nodes to cross.
`IterStackOptQty` is the source's 10. Code that replaces `c7` after reading a global is a known
exception (5).

*squasher*: depth 4 instead of the source's 8; compound instructions touch at most three
cells besides the one they push, so depth 4 already gives every instruction an accepted and a
refused case. The same properties were also checked at depth 5 with pairs of instructions.

*call_graph*: three functions suffice for loops of one, two and three calls, for a
loop refused while others wait, and for an inline function between two others.

*state_storage*: the lists contain the boundary of a cell in bits (702 + 321 header bits are
exactly 1023) and in references, structures that straddle it, and every choice of variables to
pack or unpack. Layouts for which `c4_to_c7` and the default data disagree are the finding
`four_refs`.

*message_body*: four parameters exceed a cell in bits (256) and in references (strings,
mappings), with a body that fits behind the header and one that does not. Lists of every length
and all types are covered by the proof (section 7).

*control_flow*: three levels are needed for a loop inside a loop with a conditional, the
nesting at which flags of different loops meet; with three levels the way out is
conditional. Five answers let every loop run at least twice. The programs of the finding
`nested_continue` (`LeavesFlag`) are left out here.

*peephole*: the sample blocks were built rule by rule. Every rule of `PeepholeRules` applies in some
state, except three that earlier rules shadow: DUP with BLKDROP2 and SWAP with POP 2, whose blocks
are taken by the rules for pushes and for runs (`optimizeAtInf` precedes `optimizeAt2`,
PeepholeOptimizer.cpp:227), and two zeroes stored one after the other, of which the rule for the first alone
(1089) makes STZEROES. For most rules the samples contain a neighbour that nearly applies, and the
boundaries of operands: -1, 0, 127, 128, 256, runs of 15 and of 16. At four places the code is
wrong (section 5). The blocks are samples all the same and the properties name what they exclude:
TypeOK does not speak about `SplitsNothing` and `PushesMany`, and SameEffect not about the exception that is
lost in `DropsNullTest` and in `DropsRangeCheck`. Without any one of the four TLC finds a violation.

*compiler_stack*: three files give every kind of circle; two errors with `MaxErrors` 2 reach the
limit in every phase. Failures of the outputs (code generator, either file) are combined with every choice of
code, ABI and lists, for contracts that can and cannot be deployed, with a contract of the same
name in another file.

Fairness. `WF(Next)` of the stack
optimizer, the call graph and the compiler stack, and `WF(Expand \/ NextTable)` of the squasher:
sequential code that goes on running. The protocol is checked without fairness; only the finding about
`tvm.exit` has `WF(VmStep)`: gas bounds the compute phase, and a transaction that has begun is
carried to its end. Deadlock is not checked where the modelled program ends
(`squasher`, `state_storage` after a break, `control_flow`, `peephole`, `compiler_stack`).
That the peephole optimizer ends is stated as NeverUndone, an invariant: a block never comes back
within a part of a pass.

Each property has a mutant, a definition with a plausible error (operators named
`Definition_WhatIsWrong` in the modules), for which TLC finds the property violated.

### Findings

Runs that end with a violation, each with one property that states what a document says:

| run | what happens |
|---|---|
| `exit_null_first_variable` | `tvm.exit` saves nothing if the first state variable is an empty mapping and the contract has no external messages |
| `four_refs` | four usual variables with a reference each before an unpacked one: the default data and `c4_to_c7` disagree on the first cell, a new contract cannot be read |
| `nested_continue` | `continue` in a conditional of a loop inside a loop with a return leaves its flag on the stack; variables are then read from wrong slots |

## 5. Known exceptions

Disagreements that were met while modelling. No property above speaks about them: the instances
avoid them, or the model shows them and the properties say nothing about such a failure.

*Run-time protocol.* `API.md` promises the fallback function for bodies of 1 to 31 bits, but
`main_external` loads 32 bits first and throws (FC:1699). A fallback marked `externalMsg` is run
for a short internal message (FC:1968). A tick-tock transaction before the constructor
stores the constructor flag, and the constructor then throws 51, "has already been called"
(FC:364). `onCodeUpgrade` called by an internal message from a pure function, as in the manual's
example, saves globals that were never loaded (FC:329). `tvm.rawCommit` persists without the replay
time, as documented.

*Stack optimizer.* The read of a state variable may be moved behind the `POP c7` of
`tvm.resetStorage()` (TVMSimulator.cpp:160, StackOptimizer.cpp:342, TVMPusher.cpp:925).
`Simulator` accepts XCPU without the test for the segment's end that PUSH2 has; compound
opcodes never reach it. *Squasher:* `apply` for XCHG2 does not ask for two cells; with one, a wrong
entry is in the table until a cheaper real one replaces it, which always happens before the table
is finished (TablesAreReal).

*Call graph.* An inline function and another one that call each other meet the assertion in
`pushInlineFunction` (TVMPusher.cpp:425). Private ids are 14-bit hashes; two that clash meet
the assertion at TVMPusher.hpp:64. The comment at TVMPusher.hpp:59 says the opposite of what
`tryToAddEdge` returns.

*Cells.* `packData` of the first and third of three unpacked variables meets an assertion,
because the branch for a single value does not advance the position (TVMABI.cpp:1275, 614); of a
user-defined value type, another one (TVMABI.cpp:1382). The header's tag, the bit that tells where the
body is, and the references of the header, are not counted (TVMABI.cpp:1029-1031), so that
arguments of an exact size, or with as many references as the header leaves no room for, overflow the builder if
they are appended (`Counted`). `abi.encodeBody` counts 32 bits of offset although a responsible
function's body has 64 (TVMFunctionCall.cpp:2744).

*Peephole optimizer.* Sixteen and more PUSH of the same cell below the top become one BLKPUSH
(PeepholeOptimizer.cpp:2351) that an assertion of the printer refuses (TvmAstVisitor.cpp:416); only of
the top cell does the printer split it (`PushesMany`). PUSHINT n, PUSHINT 0, SPLIT becomes LDSLICE n
also for n = 0, which cannot be encoded (1583, `SplitsNothing`). Two additions with the same range check behind each become one
(1639); if the second goes back, an overflow of the first is no longer noticed (`DropsRangeCheck`). DUP, ISNULL, THROWIF 63,
UNTUPLE 1 becomes UNTUPLE 1 alone (1704, `DropsNullTest`). This is what `get()` of an optional makes whose value
is kept in a tuple (TVMFunctionCall.cpp:1851): an empty one ends in a type check error of the machine,
while `API.md` says that it throws 63 (6054).

*Compiler stack.* The standard JSON interface stores results with the first contract of the main
contract's unqualified name (CompilerStack.cpp:823, 1333). Requested sources that are not
given leave the order of the sources empty: the analysis then succeeds on nothing. "Only one source
is allowed." is put into an object that is discarded (StandardCompiler.cpp:1024). `stopAfter` is ignored,
since `compile(true)` is called without it. On the command line, `--function-ids` and `--private-function-ids` make a list and
silently no code and no ABI (TVM.cpp:76). An AST given as JSON always fails, because
`setSources` precedes `importASTs`. `reset()` keeps `m_maxAstId` and the numbers of errors.

## 6. Not modelled, and why

The map covers the code generator's control logic. Most lines of the repository are outside of
what a model checker can say something about:

* parser, types, analysis passes, AST (`parsing/`, `ast/`, `analysis/`): single passes over a
  tree, taken over from upstream Solidity; their state is the tree, their rules are the language.
  `CompilerStack` models what becomes of their answers.
* expression compiler, dictionaries, structs and most built-ins: fixed sequences of opcodes per
  type, without state besides the output.
* size optimizer, printer, location squasher: identity and layout of text.
* formal verification backends, experimental front end: upstream code that plays no part for TVM.
* language server: constructor and `compile()` end with `solUnimplemented` here, so that its loop
  never runs.
* command line, file reader, `sold`: strings and I/O; the outcome of a compilation is modelled.

## 7. Proofs

`ContractRuntimeProofs`, for every set of contracts, messages, keys and every bound, from
`ConstantsAssumption` (the numbers are naturals, the owner is a key, "no key" is not) and
`InputsAssumption` (contracts and messages have their types):

* `TypeCorrect`: `Spec => []TypeOK`. TypeOK is inductive by itself.
* `ExternalAtMostOnce`: `Spec => []AtMostOnce`. AtMostOnce is not inductive: it says nothing about
  `c4`'s time while messages are processed. `IInv` adds to it *PhaseOK* (which messages are
  processed where, and that only functions marked external are entered by external
  messages), *AppliedIsPast* (a message that took effect is not later than `c4`'s time),
  *ExternalTime* (inside the transaction of an external message, the globals are loaded,
  and everything that may be saved or has been committed carries the message's time, which is
  ahead of `c4`'s) and *OtherTime* (inside any other transaction everything carries `c4`'s
  time). The last three hold for contracts with a standard protection and without
  `tvm.rawCommit` (`Guarded`). The step splits into the checks (`OnceCheckStep`), the entry code
  (`OnceEnterStep`), the built-ins and the return (`OnceBodyStep`) and the end
  (`OnceEndStep`). The heart is `OnceEnterStep`: the entry code may load `c4` again only when it
  finds the globals not loaded, which for an external message is never the case.
* `ReplayMonotone`: `Spec => ReplayValueMonotone`, from the same invariant.

In the same module, from the same assumptions:

* `ChecksPassed`, `ConstructorFirst`, `UpdatesAreSaved`, `ViewsKeepState` and `SavesAreLoaded`:
  EffectsAreChecked, ConstructedFirst, NoLostUpdate, ViewKeepsState and SavesOnlyLoaded are
  invariants. Their strengthening is `SafetyInv` in `ContractInvariants`: *FunctionOK* (which
  function runs for which message), *NothingYet* (nothing is accepted, saved or committed before a
  body is entered), *Passed* (what a message has passed at which place), *LoadedOK* (when the globals are
  loaded), *FlagOK* (the constructor flag in the cell, in the globals and in what is saved or
  committed), *VarsOK* (the variables, likewise) and *CodeOK*.
* Three of them (ConstructorFirst, UpdatesAreSaved, SavesAreLoaded) are about contracts without a known
  exception of section 5, and say so:
  `FlagIsSaved` (no `tvm.rawCommit` in a contract with a constructor, and NullTestWorks), `NullTestWorks` (the global that is
  tested for null is not one that can be null when it is loaded: the finding
  `exit_null_first_variable`), `FallbackLoads` (a fallback marked `externalMsg` only, which short internal
  messages reach all the same, finds its globals loaded) and `UpgradeLoads` (no pure function calls
  `onCodeUpgrade`). All five contracts of the run `runtime` satisfy all four (`SamplesAreCovered`, which TLC
  evaluates); the proofs show that these conditions are sufficient for every other contract.

Also there: `Refinement`, `Spec => ImplementsAbstract`. Initial states map to initial
states; a step inside a transaction changes neither the persistent data nor the applied
messages and maps to a stutter; `EndTransaction` maps to a step of `AbstractContract` that is chosen by how
the transaction ended and which function ran. What such a step must know (the message is new,
the contract was or was not constructed, a view function left the variables alone) is
`SafetyInv`.

`CallGraphProofs`, for every set of names, ids and programs, from `NamesAreOrdered` (finitely many
naturals), `NoneIsNothing`, `IdAssumption` and `ProgramsAreTyped`:

* `GraphTypes`, `AcceptedIsAcyclic` (GraphHasNoLoop), `FragmentsAreInGraph` (CodeIsInGraph),
  `PrivateIdsResolve` (IdsResolve), from the inductive invariant `GraphInv`. GraphHasNoLoop is about the
  end of a search and says nothing of what happens in it. *SearchOK* says that m_order lists the Black
  nodes once, each behind its successors; *StackOK* that the Red nodes are the activations of
  `dfs`, each a successor of the next, whose successors done with are Black. When a search ends, all
  nodes are Black and the order itself excludes a loop (a loop would have a first member in it);
  when it meets a Red node, the edge is taken back and the graph is the one before. *FragmentsOK* says
  that a fragment is reached by accepted edges alone, which is why taking back the edge that is tried never
  breaks it. *PendingOK* is needed for the same step: the edge was not in the graph before.
* `OutputIsOrdered` (DefinedBeforeUse): on top of `GraphInv`, *GeneratedOK* (every function is generated
  once, all before `DAG()`, and no fragment is inline) and *OutputOK* (what each of the two loops has
  passed, what is left in the map and what is in the output). Lemma `OrderIsRight` gives the order of
  `DAG()`.
* `IdsOnlyForLoops` (IdOnlyForLoop): from *StackOK*, since the activations on the stack are a path
  from the callee back to the caller.

`CompilerStackProofs`, for every set of files and inputs and every limit of errors, from
`FilesAreOrdered`, `LimitIsNumber` and `InputsAreStarted` (the command line gives one file, the standard
JSON interface asks for sources that are given):

* `StackIsSound`: `Spec => []StackInv`, with *ParseOK* (every import of a parsed source is a source,
  or there is an error), *SortOK* and *OrderOK* (what toposort has visited and put into the
  order), *ErrorsOK* (where there can be an error that the flag does not know of), *ClearedOK* (without
  errors, every source has passed the checks that have seen it), *AnswerOK* (what the driver has
  told and what was generated) and ImportsComeFirst.
* `SuccessMeansChecked` (AnalysisIsComplete). The flag is not enough for an invariant: it is true while
  there are errors if they come from a check that answers for others or for nobody, or when
  ContractLevelChecker overwrites it. *ErrorsOK* lists where this can be (in the checks 2 to 7 and 13, and
  while the checks 8, 14 and 20, which answer for all errors, have sources left) and that each of these
  places is followed by a check that answers for all.
* `SourcesAreSorted` (ImportsComeFirst): the activations of toposort are a path of imports, so that
  an import that is not yet in the order when its importer is put there leads back to the
  importer.
* `AnswersAreTrue` (OutcomeIsTrue). There can be code and ABI without success, and the theorem says under
  which conditions: they were made after a successful analysis, an error was reported for what failed
  behind them, the driver's answer is not "ok", and code is there only if the code generator had no error.
  The last needs that a run of the code generator that fails is a failure of the code itself: it comes
  first on the command line, and for the JSON interface the code is stored before the generator runs again.

`StackOpcodeSquasherProofs`, for stacks of every depth from 2 and every number of instructions from 1
(`DepthAssumption`; the source has 8 and 3), with the prices of operands up to 15:

* `FinishedTablesAreReal`: `Spec => []TablesAreReal`. Its first half, `ApplyIsReal`, is about
  `StackState::apply`: whenever it accepts an instruction, what it does to the array and the
  size is what `ExecStack` does to the stack that they stand for, and the stack has all the cells the
  instruction touches. There is one exception, `WrongXchg2`: XCHG2 on a stack of one cell.
* The second half is the search, with the inductive invariant `SearchInv`: *QueueOK* (what is queued is
  in the table at the same price), *TableOK* (each entry comes from one that is not dearer than
  anything queued, at the sum of the prices, by a real step unless it is the wrong one), *CompoundOK* (the
  queue holds the start or results of one instruction) and *RescueOK*. TablesAreReal
  is not inductive without the last one. The wrong entry can only be the stack <<1>>, at a price above
  `RescueCost`. RescueOK says that the table has that stack at `RescueCost` or less, or that the stack after
  one DROP, from which it will get there, is still queued; when the queue is empty, only the first is
  left.

`NumberRecursion` is the ground of what follows. What a recursive function computes
for every argument needs induction, and the library's induction theorems take an operator as a
parameter, which no installed prover instantiates. `Upwards` states induction for the *set* of the
numbers for which something holds, from the least element of a set of numbers (`LeastExists`), and
`Recursion` proves that a function with given steps exists, so that `f[n] = IF n = 0 THEN ... ELSE ...
f[n - 1] ...` can be unfolded. The model's definitions that a proof is about are recursive functions
for that reason.

The second half of `StackOpcodeSquasherProofs`, from `DepthAssumption` and `CodesAssumption` (a code is
a sequence of stack instructions with the operands that generator and optimizer give them):

* `ReplacementsKeepStack`: `Spec => []SquashKeepsStack`. What `Squash` puts in place of a run of stack
  instructions leaves the same stack, on a stack with anything below the cells it looked at, and
  costs less. There are four parts to it. *Framing* (`ExecFramed`): an instruction that does something to a
  stack does the same to it with more cells below. *The old code* (`AfterLeads`): the state at which
  the squasher arrives by `apply` stands for the stack that the old code leaves. *The search*
  (`PathInv`): every entry of every table, finished or not, leads back to the start along `prev` in no
  more steps than `recover()` looks for: an entry that others lead back to is not dearer than anything
  queued, so that no cheaper one replaces it any more; a table is only asked for when it is finished
  (`TablesDone`). *The new
  code* (`RecoverLeads`): the instructions along that way lead from the start to the state and cost
  what the entry says. PathInv stands beside `SearchInv`, which says that each single step is real.

`AbiCellsProofs`, about `AbiV2Position`, `encodeParameters` and `decodeParameters`, for lists of any
length of any types:

* `PlacesAreSound`: the assertions in `AbiV2Position` (a value never needs more than a cell) hold
  wherever it starts.
* `EncodedIsDecoded`: a list stored behind at most as many bits as the compiler was told never breaks a
  builder, and the decoder compiled from the same types and offset reads exactly this list and leaves
  nothing. The heart is a description of the encoding that begins at its end: `E[i]` is the slice
  behind the first `i` values, `E[i - 1]` is value `i` in front of it, in a cell of its own where
  `load[i]` says so (`IsEncoding`). The encoder builds `E[0]` behind what the builder holds (`Encoded`)
  if there is room for every value, and the decoder goes from `E[i - 1]` to `E[i]` (`Decoded`). That there
  is room follows from the sums of greatest sizes by which `AbiV2Position` decides
  (`PositionHasRoom`), since real values are no larger (`ValueFits`).

`MessageBodyProofs`, for every set of requests, from `RequestsAssumption`:

* `MessageBuilt` and `RoundTrip`: MessageIsBuilt and ReceivedIsSent are invariants. The inductive
  invariant `Sound` says of a sent body that decoding it would give the arguments. The two sides
  compile different offsets. If the body is in a cell of its own, or is an encoded body, the offsets
  agree and it is `EncodedIsDecoded`. If it is appended, the sender has counted the header too, and
  the point is that no cell begins: when none begins behind the longer offset, none begins behind the
  receiver's shorter one (`NothingBegins`, `Shifted`), so that both sides follow the same
  plan, and cutting the header off the message leaves the body (`CutFront`). The bit before the body,
  which is not counted, has room in the tag of an internal header and in the difference between the longest
  address counted and the longest in use; without a destination it has none, which is the second part
  of `Counted`.

`StorageProofs`, for every set of contracts, with any number of variables of any number of members,
from `ContractsAssumption`:

* `StorageSound`: `Spec => []StorageInv`. The invariant says what the four properties of the run do
  not: that `c4`, and in a transaction the slice in `c7`, is *equal* to what the plain encoder makes of the
  current values. SliceIsCurrent, that the plain decoder reads the current values from the slice,
  is not inductive: `unpackData` and `packData` jump to the last reference of a cell or cut
  by a sum of sizes, and work only on slices that are built as the encoder builds them. TLC
  checked StorageInv on the instance of the run `state_storage` before it was proved.
* `StorageUnbroken` (NothingBreaks), `UsualVariables` (UsualIsCurrent), `UnpackedVariables`
  (AnswerIsCurrent) and `PackedVariables` (SliceIsCurrent) follow from it.
* *The layout.* All values of a contract have one layout (`IsLaid`): `E[i]` is the slice behind the
  first `i` members. `c4` is the header in front of `E[0]`; the slice in `c7` is `E[n]`, behind the usual
  members (`LoadIs`, `SaveIs`, `DefaultData`). `PositionsAgree` is needed here, and nowhere else.
* *The walk.* Wherever the generated code stands, its slice is that of the next member, entered if a
  cell begins there (`SliceAt`). A step decodes a variable (`UnpackNext`) or skips a run of members in one
  of the four ways of `skipTypesAndLoadCellIfNeeded`: by reference index, by skipping one value of unknown
  references, by the last reference of the cell, or by cutting value after value. That each is right
  rests on what a stretch of values in one cell takes: as many bits and references as its types say if
  they are fixed, no more otherwise (`ContentsSized`), and on one reference and no more leading
  to the next cell.
* *The parts.* The first half of `packData` takes the same walk and leaves a list of parts, each with the
  members it stands for (`PartsUpTo`): new values, old values, a run of the old cell, the rest of an old
  cell. The second half stores them while the layout of the *new* values is followed (`PutNext`,
  `PackedIs`): since cells begin where the types say, not the values, both layouts begin cells at the
  same members, an old piece between two of them is the same in both, and whatever is stored has room by
  the greatest sizes. The two halves count parts separately (`RunsIn` against `EndOfRun`), and the
  proof shows that they agree. Where the compiler's assertion on the position fails, `mode` is
  "assert" and nothing is generated.

Only model-checked, and why:

* liveness (Terminates, SearchEnds, both CompilationEnds): fairness is outside of what
  the prover does;
* `TvmSimulator`, `StackOptimizer`, `StatementCompiler`, `TvmMachine`, `ControlFlow`, `TvmInstructions`,
  `PeepholeRules`, `PeepholeOptimizer`: their recursive operators follow the nesting of code, which the prover does
  not support;
* SquashNeedsNoMore: that a replacement needs no deeper stack than what it replaces is true of the
  prices of the instructions as they are (a dearer way would need less), which is a fact about the finished
  tables as a whole and not about their steps.
