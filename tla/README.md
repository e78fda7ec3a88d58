# Causis in TLA+

Causis is a small language for robots on a grid. Its C++ toolchain turns a source file into bytecode
and runs it on a stack machine for a given number of ticks:

    source -> Lexer -> Parser -> Analyzer -> Lower (IR) -> Optimizer -> Compiler -> Vm -> Simulation(World)
                                                                                     \-> tick log

and a browser page shows the log. These modules model all of it, from the characters of the source file to the
picture of the last frame, check it with TLC, and prove the parts that hold for every instance with TLAPS. Paths
below are relative to the repository.

## 1. Inventory

The toolchain has one thread. What is hard in it is not interleaving but the length of the chain: seven
representations of one behaviour, each step of which must preserve what the program does, and a world
whose state is kept twice. Concurrency is at the rim: a run may be killed, or its disk may fill, while it replaces a log
that an earlier run has written; and the page reads its files asynchronously.

| component | code | state | operations | used by |
|---|---|---|---|---|
| World | `src/runtime/world.cpp`, `types.cpp` | grid of cells, robot list, target list, indices | place, move (5 + `move_toward`), turn, query, clear flags | Simulation, host |
| Simulation | `src/runtime/simulation.cpp` | `initial_world_`, `world_`, `tick_` | `begin_tick`, `end_tick`, `tick`, `reset`, `world()` | VM, executor, tests |
| Virtual machine | `src/vm/vm.cpp` | ip, stack, variables, current robot, ticks, recorder flag, simulation | one per opcode, `Halt`, running off the code | `run_program` |
| Bytecode | `include/bytecode/bytecode.h` | code and two pools | - | compiler, VM |
| Analyzer | `src/semantic/analyzer.cpp` | names, types, occupied cells, first error | one per node type | `load_program` |
| Lowering | `src/ir/lower.cpp`, `builder.cpp` | emitted IR, label counter, first error | one per node type | `run_program` |
| Optimizer | `src/ir/optimizer.cpp` | none (IR to IR) | folding, branch pruning, code after `stop`, turn pairs | `run_program`, `optimize` |
| Bytecode compiler | `src/bytecode/compiler.cpp` | labels, pools, code | `intern`, `resolve_label`, one per IR opcode | `run_program` |
| Program runner | `src/runtime/program_runner.cpp` | result, tick log | `run_program`, recorder | CLI |
| Reference executor | `src/runtime/executor.cpp` | variables, `stopped_` | statements, expressions | superseded by the VM; our reference |
| Tick log | `src/runtime/tick_log.cpp` | frames; the log file | `capture_frame`, JSON, `write_tick_log_file` | recorder, CLI |
| Lexer | `src/lexer/lexer.cpp` | position, line, column, first error | `tokenize` | `load_program` |
| Parser | `src/parser/parser.cpp` | position, first error | one function per rule of the grammar | `load_program` |
| Command line | `src/main.cpp`, `src/cli/frontend.cpp` | options, exit code | one per sub-command | user |
| Visualizer | `visualizer/index.html` | log, frame index, popup, buttons, canvas | load (asynchronous), next, reset, close | user |
| Printers, benchmark | `ast_printer.cpp`, `ir.cpp`, `disassembler.cpp`, `tools/benchmark` | - | text | user |

What makes each of them correct:

- *World, Simulation*: grid and robot list agree; no two robots on one cell; obstacles stay; a flag says
  exactly that a move failed since the flags were last cleared; queries predict moves.
- *VM*: exactly the ticks asked for; frames 0, 1, 2, ...; success means a complete run; errors leave a
  consistent world; it ends.
- *Analyzer*: an accepted program places its entities without failure and, where it has no branches, has no
  type error.
- *Lowering, optimizer, compiler*: the code does what the tree says, optimized or not; the stack is balanced;
  labels resolve to where they stood.
- *Lexer, parser*: no text is lost or doubled; every token is as long as it can be and knows its place; a program is
  accepted exactly if the grammar has it, with the one tree it gives; the error is at the first token that is wrong.
- *Command line*: options mean what they say; a log is touched only by a run that has succeeded, and is then of that
  run.
- *Visualizer*: the picture is the current frame's; buttons are enabled when they do something; every goal stops the
  stepping and is celebrated; the log shown is the one chosen.

`PROJECT.json` lists the hazards behind these properties, each at its line.

## 2. Modules

| module | models | uses |
|---|---|---|
| `World` | the grid world, as operators on a world record | |
| `Simulation` | the Simulation and an arbitrary host: one action per public operation | `World` |
| `Arith` | int arithmetic with its width | |
| `Bytecode` | programs; the shape of compiled code: `WellFormed` (its parts and jumps), `Balanced` (its stack), `Placeable` (what it builds) | `Arith` |
| `Vm` | the machine, one action per group of opcodes | `World`, `Arith`, `Bytecode` |
| `VmClient` | the machine as the host of a `Simulation`: the refinement mapping | `Vm`, `Simulation` |
| `Ast` | the syntax tree | |
| `Ir` | IR programs; the shape of lowered code: `Structured` (its parts and jumps), `Level` (its stack), `Nested` (its branches), `Placing` (what it declares) | `Bytecode` |
| `Analyzer`, `Lower` | the stages that follow the tree, as operators | `Ast`, `Arith`, `Ir` |
| `Optimizer`, `Compiler` | the stages that walk along the IR: a pass is a function of the position reached | `Ir` |
| `Toolchain` | the stages composed as `run_program` composes them | the four stages |
| `Executor` | the tree-walking reference executor | `World`, `Arith`, `Ast` |
| `Semantics` | abstract specification: a run is a sequence of frames, one step per tick | `Executor` |
| `Pipeline` | a program chosen, built and run by `Vm`; refinements to `Semantics` and, by `VmClient`, to `Simulation` | all |
| `Lexer` | `tokenize`, one action per kind of token, blank and comment | |
| `Parser` | the recursive descent, as operators of a token sequence | `Ast` |
| `Grammar` | `docs/grammar.md` as a recognizer, the two rules in which the parser differs, and the trees of an expression | `Ast` |
| `FrontEnd` | a text typed token by token and parsed after each | `Parser`, `Grammar` |
| `CommandLine` | one invocation of `causis` after another over files that stay, with kills and disk errors | |
| `Visualizer` | the page's event handlers and its reads under way | |
| `World_proofs`, `Simulation_proofs`, `Vm_proofs`, `VmCompiled_proofs`, `Ir_proofs`, `CommandLine_proofs`, `Visualizer_proofs`, `Lexer_proofs` | lemmas and theorems | TLAPS |
| `MCSimulation`, `MCVm`, `MCPipeline`, `MCFindings`, `MCLexer`, `MCFrontEnd`, `MCCommandLine`, `MCVisualizer` | instances for TLC | |

The correspondence is by name: operators and actions bear the names of the member functions, opcodes and
passes they model, and variables those of the members, without the trailing underscore. `PROJECT.json` maps every
definition to its lines. Abstractions that are not a matter of naming:

- A **world** is a record: `grid` is a function on cells instead of a vector indexed by `y * width + x`, and each
  vector with its name index (`robots_` with `robot_index_`) is a function on names. The order of the robot list
  only shows in the log's text.
- An **action of `Vm`** is one turn of the loop of `run()`: fetch, execute, next `ip`. Exceptions of the machine
  (`raise_error`) set `status` to "error" and change nothing else, as the code pops before it throws only from a
  stack nobody reads again. An exception that `run()` does not catch (the world's constructor on dimensions that are
  not positive, or whose product is no int) and a trapped division set `status` to "aborted".
- **Undefined behaviour**: signed overflow wraps, which is what the build does; INT_MIN / -1 kills the process.
  Dimensions whose product wraps to a number that is not negative leave a grid that is too small; `Vm` lets the
  machine die there at once, the build when a cell is missed.
  `EndTick` before `CreateWorld` dereferences an empty `optional`; such bytecode is not compiled code, and `Vm`
  leaves it without a step (`MCVm` leaves it out).
- **Frames** hold the tick and the whole world, of which the log shows robots, targets and obstacles.
- **Error positions** and message texts are left out, kinds of errors are kept.
- `Analyzer`, `Lower`, `Executor` and `Semantics` follow the tree, as RECURSIVE operators, so no theorem is stated in a
  module that reaches them. `Optimizer` and `Compiler` follow a sequence, as recursive functions on its positions, and
  are proved about. `Vm` reaches none of them: `Pipeline` brings them in with INSTANCE.
- A fold that **kills the optimizer** leaves `<<Trap>>` as the whole code: no other step of the optimizer comes after it.
- The **lexer's token types** are six classes; which keyword or operator a token is, its lexeme says. The **parser's**
  tokens are written as they are in the text. Neither the text of a message nor the line and column of a tree's node is
  kept; the place of a token (lexer) and the token an error is reported at (parser) are.
- In **`CommandLine`** a program is what becomes of it: the stage that stops it, how, and in which tick. The other
  modules say how that comes about. A file holds nothing, a program, a log, or a part of one. A path names a file or
  nothing; a directory given as the source is left out.
- In **`Visualizer`** a frame is plain, a goal (a robot on a target), or broken (without its lists: only the log as a
  whole is validated; a frame that has some of its lists and not the others is left out). The canvas is the frame it shows.
- The **raw build** (no optimizer) is not what `run_program` runs. It is the one the `ir` and `optimize`
  commands print and the benchmark tool executes; running both shows what the optimizer changes.

## 3. Runs

| run | instance | distinct states | shows |
|---|---|---|---|
| `MCSimulation` | 3 x 2, two symmetric robots, a target, an obstacle, sites shared and out of bounds, tick up to 1; before the constructor robots may collide but not move away or turn | 228,394 | `World` and `Simulation` under any host |
| `MCVm` | 4-bit ints; all pairs of 34 instructions in two slots of a two-robot skeleton; all triples of pieces of broken code; ticks -1, 0, 2; with and without a recorder | 83,842 | the machine on any bytecode |
| `MCPipeline` | 8-bit ints; about 1,130 candidate programs, of which the analyzer accepts 645, of two robots on a 3 x 2 world (and one robot on a world too large for an int), raw and optimized; ticks -1, 0, 1, 3; with and without a recorder | 200,924 | the toolchain's output, the machine's errors and its final world |
| `MCRefinement` | the same programs but for the large world, with a recorder | 100,448 | refinement of `Semantics` and `Simulation`; termination |
| `MCLexer` | all texts of at most five of nine characters, one reserved word, ints up to 127 | 334,593 | the lexer |
| `MCFrontEnd` | token sequences in three places: up to 11 tokens of declarations, 7 of statements, 6 of an expression | 36,074 | the parser against its grammar |
| `MCCommandLine` | two files, three programs, some 250 command lines, 5-bit ints | 115,425 | options, and what becomes of a log |
| `MCVisualizer` | six files, two reads under way | 5,787 | the page |
| `MCChained`, `MCInitialWorld`, `MCTrap` | three programs of one robot | - | findings 1 to 3 of section 6 |
| `MCLostLog` | the instance of `MCCommandLine` | - | finding 4 |

Why the bounds are enough:

- *3 x 2*: the smallest world with a cell all of whose kinds of neighbours occur (border, obstacle, target, robot), with
  room to walk around the obstacle, two different axes for `move_toward` and a tie between them. Two robots are what
  collisions and order of declaration need; robots are interchangeable in `Simulation`, which gives them no order.
- *`AsPlaced` in `MCSimulation`*: before the constructor, robots may collide but neither move away nor turn (`MCNext`
  leaves those steps out), since each World that is handed over starts a state space of its own. Moves and turns
  are explored after it; what only an early request can bring about, a flag in the copy, which `begin_tick` clears and `reset`
  brings back, is reached. `Simulation` and its theorems have no such bound.
- *Tick bound 1 in `MCSimulation`*: `tick_` is only counted, and `reset` after a tick is reached. 3 ticks in
  the pipeline: the flag of one tick, its clearing, and a variable that is unassigned again in the next.
- *Programs*: A's body is every sequence of at most two statements of a pool of 22, plus triples of a move, a
  conditional assignment and a use. Each statement of the pool is there for a pass of the optimizer, a rule of the
  analyzer, a runtime error or a stop at some depth; pairs put a stop, a pruned branch or a label next to
  everything else. A constant with ten levels outlasts the eight folding passes. The pairs also come as two every-tick
  blocks. B walks into A, reads A's variables, assigns them, or does nothing. Programs that the analyzer rejects are
  candidates too, so that a rule that is lost shows.
- *8-bit ints* overflow in the programs (`100 * (x + 1)`), 4-bit ints in the machine's slots and in the number of cells of a world (12 x 12 with 8 bits).
- *Texts*: five characters hold two tokens with a blank line or a comment between, before or behind them, a comment that
  ends with the text, names that begin with a keyword, and each pair of characters that may join. A number of three
  digits, which is no int, fits before, behind and between them, and into a comment or a name.
- *Tokens*: a sequence is only continued while it can still become a program, by either grammar, so the bounds count
  viable tokens: 11 are a world and a robot, or a behaviour with an empty block; 7 an `if` with `else`; 6 every pair of
  binary operators, unary ones next to them, calls with two arguments and chained assignments.
- *Files*: with two, a log may be the source, another program's log, or new. Programs succeed, fail in their second
  tick, or kill the process in the lexer. Ticks are asked for in 5-bit ints, of which "35" and "31" are too large.
- *Two reads*: one is enough to interleave with clicks, two to overtake each other. The logs have a goal at the
  beginning, in the middle or nowhere, and a broken frame in each position.

Deadlock is checked in all runs: `Simulation`'s host always has a call, a shell another command, a page a file to
choose; a machine or a lexer that has returned (`Returned`), and a text that is finished (`Closed`), stutter explicitly, so
one that is stuck without a result is a deadlock.

**Fairness.** `Vm!Spec` has `WF_vars(Step)`: `run()` is a `while` loop in one thread, which does not wait for anything.
Only `EveryRunEnds` uses it. `Lexer!Spec` has `WF_vars(Step)` for the same reason (`EveryScanEnds`), and so has
`CommandLine!Spec` for the steps of a process (`EveryInvocationEnds`): nobody has to start one, to kill one, or to return to
the shell. `Simulation` and `Visualizer` have no fairness: a host may stop calling, a user clicking, and a read may never
end. `Semantics!Spec` has none
either; that a run ends is shown of the machine.

Each property has a mutant, a plausible bug in one definition (the operators commented as mutants), that violates it in
that run. They are not used by the specification.

## 4. Properties

- `Simulation`: `WorldConsistent`, `NoSharedCell`, `FlagsTellFailedMoves` (of the world and
  of the copy, against the history variables `failed` and `initially_failed`),
  `AheadPredictsForward`, `TowardApproaches`, and the action properties `OneRobotOneCell`, `ObstaclesStatic`.
- `Vm`: `WorldSound` and `SuccessHasSimulation` for any bytecode; `FramesInOrder` and `ExactTicks` for `WellFormed`
  bytecode, `StackDrained` and `NoInternalError` for compiled bytecode. `CodeIsWellFormed` in `Pipeline` says which shape
  compiled bytecode has, and its part `IrIsShaped` which shape lowered IR has.
- `Pipeline`: `FramesAsSpecified` (the run refines `Semantics`: same frames, same outcome, an error in the same tick),
  `DrivesSimulation` (it refines `Simulation`), `SuccessIsComplete`, `TypesAreSound`, `CodeIsWellFormed`,
  `EveryRunEnds`; and of the machine's properties those of compiled bytecode.
- `Lexer`: `PlacesAreTrue` (lines and columns against the text itself), `TextIsTiled`, `LongestMatch`,
  `StopsAtFirstFault`, `EveryScanEnds`.
- `FrontEnd`: `AcceptsItsGrammar`, `ErrorAtFirstBadToken`, `TreeSaysTheText`, `OnlyDerivation`. The references are
  `Grammar`'s: sets of positions where a rule may end, and sets of trees by splitting at the last operator. They share
  nothing with the descent but the nodes.
- `CommandLine`: `OptionsAsGiven`, `OnlyASuccessTouchesItsLog`, `LogIsOfThisRun` (also when the log is the source, or what
  a killed run has left), `EveryInvocationEnds`.
- `Visualizer`: `ButtonsTellTheTruth`, `PictureIsCurrent`, `EveryGoalIsCelebrated`; `PictureIsCurrent` uses a history
  variable `overtaken`.

`FramesAsSpecified` and `SuccessIsComplete` overlap on purpose: the first one compares every frame but needs a
recorder, the second one compares only the final world and holds without one.

## 5. Proofs

What is proved holds for every value of the constants, where a run shows it for one. Each module of proofs has one
inductive invariant or a few that rest on each other; this says which, and why the property alone would not do.

`World_proofs` proves that each operation of `World` keeps `Good`: a world stays a world of the same dimensions, over
the same set of names, and `Consistent` (`RobotsOnGrid`, `GridHoldsRobots`, `GridHoldsTargets`). The move is the one
that needs all three: the old cell is found through `RobotsOnGrid`, and that no other robot or target loses its cell, or
keeps a ghost, through the other two.

`Simulation_proofs`, for every size, set of names, sites and tick bound, has every property of `Simulation`:

- `TypeCorrect`, `GridAgrees`: `TypeOK /\ WorldConsistent` is inductive. `WorldConsistent` includes the initial
  copy, without which `Reset` would not preserve it.
- `Exclusion`: no shared cell, which follows from it because two robots on one cell would give it two names.
- `RobotsMoveOneByOne`, `ObstaclesStay`: every step is a placement, the constructor, a request, a turn, a clearing of the
  flags, a reset or none of these (`StepProperties`), and `Effect`, `SamePlaces` and `Placement` say what each may do to
  the robots and the obstacles.
- `FlagsAreTrue`, by an invariant of its own (`Flags`). A host may have moved the robots of its World before the
  constructor, as the tests do with a World that has no Simulation, so the copy may have flags, and `Reset` brings them back
  even after `begin_tick` has cleared them. What holds is that the flags of each of the two worlds tell of the requests
  that failed in the past of that world since its last clearing: the constructor copies `failed` to `initially_failed` with
  the World, and a reset goes back to both. `Flags` says this of the two together, and that only robots that are placed have
  failed, without which the next placement would break it.
- `AheadIsAhead`, `TowardIsCloser`: what the queries and `move_toward` promise follows in every consistent world from
  when a step is taken (`TryMove`).

`Vm_proofs`, for every bytecode program, compiled or not, tick count, recorder and width of int:

- `MachineKeepsWorldSound`: the machine's world, its copy and every frame are consistent, whatever the program does
  wrong.
- `SuccessMeansSimulation`: success means that the world exists and that there is a frame for the recorder. Both follow
  from `Sound`: the worlds are worlds over the strings of the pool (the machine only ever places names from there) and
  consistent, so are the frames, and after the initial frame was recorded there is a frame.
- `MachineIsTyped`: the stack and the variables hold values of the language, and the results of arithmetic are ints
  (`WrapFits`). That a value which is popped as an int is one rests on the checks of the machine, not on the program.

`VmCompiled_proofs`, for every program of the shape of compiled code. The hypotheses are those that `CodeIsWellFormed`
checks, where the machine starts, of everything that the toolchain makes in `MCPipeline`, and that `Ir_proofs` derives
from the IR. Of other programs the theorems say nothing.

- `TicksAreExact`: never a tick too many, and exactly the ticks asked for when the machine succeeds.
  `LogIsInOrder`: the frames are 0, 1, 2, ..., the initial one exactly once. Both need `WellFormed` and follow from
  `Ticking`, which is `Counts` (how `tick`, the ticks left and the frames relate) and `Where` (where in the code the
  machine is and what that implies: the world exists after the first instruction, the initial frame is there
  inside the loop, a tick is left to do inside it, none at `Halt`). The properties alone are not inductive: that a
  tick is not begun twice depends on which instruction comes next. The lemmas `Shape`, `BodyJumps`
  and `HaltIsLast` take from `WellFormed` what this needs: jumps lead forward except the loop's own, stay between
  `BeginTick` and `EndTick`, and the `Halt` that a skipped loop looks for is the last instruction.
- `StackIsDrained` needs `Balanced` too: a height for each place that the places around it agree with. `Depth` says that
  the stack of the running machine has that height, however it got there: along a branch, over it, or by the `Stop` of a
  behaviour.
- `OnlyProgramErrors` needs `Placeable` too. `Fine` says that no error is the machine's own and, for the placements,
  `Built`: what stands on the grid is what the code before `ip` has placed. With `Depth` there is no underflow, with
  `Where` no jump out of the code and no end of it, with `Built` no placement that fails.
- `MachineDrivesSimulation`: of a program that also declares the constants' world (`Declares`), the machine implements
  `Simulation`. Initial states are mapped to initial states, and every
  step to an operation or to a stutter, also a step that fails. Before the machine has created its Simulation the
  abstract one is the host's own new world. That the robots and targets are of the declared names is an invariant of
  its own (`Hosted`); that a tick begins only while one is left to do is `Where`'s, and the bound on the abstract
  counter follows from it. The lemmas named `Same...` say that the operators of the instance are those of `World`;
  `RequestedFlags` that the flags in the world are the abstract history variable `failed`. The other one,
  `initially_failed`, is empty: the machine hands over a World that has no robots yet.

- `ToolchainIsSound` puts this and `Ir_proofs` together: for every IR of the shape of lowered code, optimized or not, the
  machine runs its bytecode for exactly the ticks asked for, leaves nothing on the stack, fails only by the program's own
  errors, and drives `Simulation`. Its hypothesis is what TLC checks of `lower` (`IrIsShaped`, a part of `CodeIsWellFormed`).

`Ir_proofs`, for every IR of that shape, of any length, with any constants, labels and branches:

- `OptimizedIsShaped`: what the optimizer leaves is of the shape too, with the same world and entities, unless a fold
  kills it (a trap stays a trap through the later passes, so only the result is asked). Each pass is a walk, and
  `WalkExists` gives its states by induction on the position. All that a pass does is to leave instructions out, and folding
  to put a push in the place of another one. `Leaves` says so, with a count of what is left before each position, and
  `RestIsShaped` what then stays true: the frame, because it is never left out; a jump's label, because it is left with
  the jump; the order of a jump and its label, because the count is monotone; and a stop's jump. For the stack
  `LeavesHeights` asks that the height after what is left is as it was before, which each pass shows at its own drops:
  operands with their operator, a push with its `Pop`, code that begins and ends with an empty stack, turns that push
  nothing.
- `Nested` is needed for the branches: `eliminate_dead_branches` drops from a branch to its label, found by name, and
  takes the jump before the `else` label for the end of the then-branch. That this is no stop's jump, that no other jump
  leads to a label that goes, and that the height is zero at both ends, follows from how an `if` is lowered. It is
  not an invariant of the whole chain, and does not have to be: branches are pruned second, and `RestNested` says that
  the folding before it keeps the nesting.
- `CompiledIsSound`: compile finds every label (its hypothesis `Compilable` holds), and its bytecode is a program,
  `WellFormed`, `Balanced` and, when the IR declares each entity on a cell and under a name of its own, `Placeable`.
  `CompileWalk` says that the instruction at each position became one at the address that `Pcs` counts (`Translates`),
  with indices into pools that only grow (`Keeps`). A jump leads to the next instruction behind its label, whose
  address is the label's (`PcsPlaces`); as labels do nothing to the stack, the heights of the IR are those of the bytecode
  (`CompiledBalanced`).

`CommandLine_proofs`, for all command lines, files, programs and even numbers of ints:

- `OptionsAreAsGiven`. The loop over the options is an induction over the words: `ReadBelow` says that what has been read
  are pairs, and that the last of each kind is in `options`; at the end that is what the words ask for (`AllRead`).
  `NarrowProperties` is the arithmetic of the conversion.
- `OnlySuccessesTouchLogs`, `LogsAreOfTheirRuns`. Neither is inductive: that the log is written after a success, and into
  an emptied file, is known from where the process is. `Where` says it for every place: nothing differs from `before`
  until the log is opened, and then only the log, which is empty, of a run that does not stop.
- `CommandIsTyped`. That the log in a file is one of a program for a number of ticks needs `Where` as well: only what is
  stopped by no stage is written (`OnlyProgramsRun`).

`Visualizer_proofs`, for every set of files and any number of reads under way:

- `ButtonsAreTrue`, from `ButtonsUpdated`: `updateButtons` sets them right for the log and index it is called with, and
  the one handler that does not reach it leaves a broken frame.
- `GoalsAreCelebrated`, strengthened to `Celebrates`: `goalReachedShown` too is down unless a goal is shown, without which
  the next goal would not raise the popup.
- `PictureIsTrue`, strengthened by `ReadsLast`: until a read is overtaken, the last of the reads under way is of the file
  chosen last. `RemoveAtProperties` is the lemma on sequences that this needs.
- `PageIsTyped`: the index is one of the log's in every order of choices, reads and clicks.

`Lexer_proofs`, for every text over any characters, letters and keywords, has every safety property of `Lexer`:

- `PlacesAreAlwaysTrue`, `TextIsAlwaysTiled`, `TokensAreAlwaysLongest`, from one invariant (`Inv`). What the properties lack
  to be inductive is `Behind` (the tokens end before the position) and `Closed`: no comment that began before the position
  is open at it, or the next character ends it. Without `Closed` a token could stand in a comment. `NoToken` and
  `TokenStep` say what a turn without and with a token does; each kind of token then only shows that it holds no
  blank, begins no comment and stops no character too early (`IsToken`).
- `ScanIsTyped`, and with it that a token's number is an int. `ValueOf` is a recursive function: `SomeCount` shows that
  there is one, with the least prefix of the digits that would have none, and `ValueCounts` that it is the one meant.
- `ScanStopsAtFirstFault`, strengthened to `Faults`: while the scan goes on there is no fault behind it (`NoFault`), and it
  does not stand within a name, whose digits are no number. The last digits of a number that fits are a number that fits
  (`LastDigitsCount`), or the property would find a fault inside a token.

The assumptions are those of the modules, which say only that constants have their types, that no robot or target has
the empty name and no file the name of none, that a log has a frame (the page refuses others), that an int has an even number
of values, ten ticks among them, and that letters are neither digits nor any other character the lexer knows, and keywords are made of
them.

Only model-checked:

- `SuccessIsComplete`, `FramesAsSpecified`, `TypesAreSound` and `CodeIsWellFormed` of `Pipeline`, and everything of `FrontEnd`.
  They are about what the analyzer, lowering, the reference executor and the parser compute of a tree. Those are RECURSIVE
  operators, as the trees have no bound, and out of the provers' reach. In particular that lowered code has its shape
  (`IrIsShaped`), and that the optimizer changes nothing a program *does*, is checked and not proved. That it keeps the
  shape is proved: the rest of `CodeIsWellFormed` follows from `IrIsShaped` by `OptimizedIsShaped`, `CompiledIsSound` and
  `MadeAsCompiled`.
- That a run, a scan and an invocation end: these need fairness and ENABLED.

## 6. What the code does otherwise than it says

All of these were met while modelling. The first four are shown by runs that TLC finds violated; of the others a
property of a passing run says exactly where they begin, so that nothing else can hide behind them.

1. **Chained assignments underflow the stack** (`AssignmentsChain`). `docs/language.md:408` says that assignment is
   right-associative and `docs/grammar.md:71` that its right side may be an assignment. `lower_expression`
   (`src/ir/lower.cpp:235`) emits `StoreVar` for it, which leaves no value: `x = y = 1;` passes the analyzer and stops with
   "stack underflow". The same goes for an assignment as an operand or a condition. The reference executor has it right.
2. **The Simulation's initial world is empty** (`InitialWorldIsDeclared`). `include/runtime/simulation.h:10` calls
   `initial_world_` "the world at the start of the simulation", for `reset()`. `CreateWorld` (`src/vm/vm.cpp:313`)
   constructs the Simulation before it places anything, so `reset()` on the result would lose every entity. Nothing
   in the toolchain calls `reset()` today.
3. **INT_MIN / -1 kills the process** (`NeverAborts`), in the machine (`src/vm/vm.cpp:242`) and already while folding
   (`src/ir/optimizer.cpp:35`), even in a branch that is never taken. `docs/semantics.md:308` wants runtime errors to be
   reported.
4. **A log that is lost is reported as written** (`ReportedMeansWritten`). The result is taken from the stream before its
   buffer is flushed (`src/runtime/tick_log.cpp:162`), against `include/runtime/tick_log.h:50`. No other failure goes
   unreported (`LogIsOfThisRun`).
5. **A world may be too large.** The constructor multiplies the dimensions as ints (`src/runtime/world.cpp:13`);
   `docs/language.md:194` and the analyzer ask only that they are positive. Of the accepted programs of `MCPipeline` this
   kills the process, and nothing else does (`NoInternalError`).
6. **A long number kills the process.** `std::stoi` throws (`src/lexer/lexer.cpp:156`); `docs/grammar.md:107` has no
   bound. It is the only text that does, and only outside names and comments (`StopsAtFirstFault`).
7. **Parentheses around the target of an assignment** are accepted (`src/parser/parser.cpp:262`), by `docs/grammar.md:71`
   they are not. **Calls of what is no name** are refused (`src/parser/parser.cpp:377`), by `docs/grammar.md:85` they are
   derivable. In nothing else do the parser and the document differ (`AcceptsItsGrammar`).
8. **`--ticks` is narrowed** (`src/main.cpp:273`): 4294967299 runs three ticks and succeeds; `README.md:396` promises N.
   Every number that is an int is taken as it is (`OptionsAsGiven`).
9. **Of two logs chosen in a row the first may stay**: the page loads what is read last, not what was chosen last
   (`visualizer/index.html:533`, `README.md:247`). Unless a read is overtaken, the log shown is the one chosen last
   (`PictureIsCurrent`).
10. **The grid forgets targets.** The cell that a robot leaves becomes empty (`src/runtime/world.cpp:161`), also when a
    target is there, and a host of the library may then put an obstacle on it, against `docs/semantics.md:33`. Queries and
    moves use the list of targets, and a program places everything before it moves, so no program meets it. No property
    covers it.

## 7. Not modelled, and the plan

Written, in this order: `World` and `Simulation` with their proofs; `Vm` with its proofs; the stages, `Semantics`
and `Pipeline` with the refinements; the front end, `Lexer` and `FrontEnd`; the rim, `CommandLine` and `Visualizer`.

Proved since: the machine's types, its stack, its errors and its refinement of `Simulation`; the rest of the lexer; the
types of the rim; the passes of the optimizer and the compiler on IR, and with them the way from the IR to the machine.
What is left is on the trees, and is TLC's.

Not modelled:

- The printers (`ast_printer.cpp`, `ir.cpp`, `bytecode.cpp`, `disassembler.cpp`, `token.cpp`) and the log's JSON text turn a
  value into a text that nothing in the repository reads but the page. There is no state in them that a property could
  be about.
- The benchmark tool times the functions that are modelled and keeps nothing.
- What the visualizer draws, apart from which frame it is.
- The depth of the C++ stack: a text nested deeply enough exhausts it in the parser and in every stage that follows the
  tree.
