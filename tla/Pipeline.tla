-------------------------------- MODULE Pipeline --------------------------------
(***************************************************************************)
(* The whole chain of run_program: programs that the semantic analyzer     *)
(* accepts are lowered, optimized (or not), compiled, and run by the       *)
(* machine.  Its runs are compared with the reference executor.            *)
(***************************************************************************)
EXTENDS VmClient

CONSTANT Candidates     \* programs as the parser leaves them, by name

VARIABLES
    source,         \* the name of the program that is run
    build           \* is it optimized?

\* analyze, lower, optimize and compile
T == INSTANCE Toolchain

\* A build that fails ends the run before the machine starts: by an error of
\* run_program, or because a division that is folded traps.
BuildFailed ==
    /\ program = T!EmptyProgram
    /\ Ready
    /\ IF max_ticks < 0 THEN status = "error" /\ error = "negative tick count"
       ELSE IF T!FoldTraps(Candidates[source], build)
       THEN status = "aborted" /\ error = NoError
       ELSE status = "error" /\ error = "the program does not compile"

\* load_program stops at the analyzer's first error; run_program goes on.
PipelineInit ==
    /\ source \in {n \in DOMAIN Candidates : T!Accepts(Candidates[n])}
    /\ build \in T!Builds
    /\ IF T!CanBuild(Candidates[source], build)
       THEN program = T!Build(Candidates[source], build) /\ Start
       ELSE BuildFailed

PipelineNext == Next /\ UNCHANGED <<source, build>>

PipelineSpec ==
    PipelineInit /\ [][PipelineNext]_<<vars, source, build>> /\ WF_vars(Step)

declarations == Candidates[source]

\* The abstract machine that the frames and the outcome implement.
Reference == INSTANCE Semantics WITH Sources <- Candidates

-----------------------------------------------------------------------------
(* Properties.                                                              *)

\* Run after run, build after build, the tick log's frames are the ones that the
\* reference executor yields, tick by tick, and the run ends as it does there:
\* normally, or by a runtime error in the same tick.  (Lowering, each pass of the
\* optimizer, label resolution and the machine's stack are all in between.)
FramesAsSpecified == Reference!Spec

RECURSIVE WorldAfter(_, _)
WorldAfter(p, n) ==
    IF n = 0 THEN Reference!Declaration(p)
    ELSE Reference!TickOf(p, WorldAfter(p, n - 1)).world

\* With a recorder or without one, a run that succeeds has done all its ticks
\* and no more, and leaves the world where the reference executor leaves it.
SuccessIsComplete ==
    status = "ok" =>
        /\ tick = max_ticks /\ ticks_completed = max_ticks
        /\ Len(frames) = IF recording THEN max_ticks + 1 ELSE 0
        /\ world = WorldAfter(declarations, max_ticks)

\* Does a statement have an if in it?
RECURSIVE Branches(_)
Branches(s) ==
    \/ s.stmt = "if"
    \/ s.stmt = "block" /\ \E i \in DOMAIN s.statements : Branches(s.statements[i])

\* Where there is no branch the analyzer's types are exact: in a program without
\* if, division by zero is the only error left.
TypesAreSound ==
    LET Straight(d) == d.decl = "behavior" =>
            \A b \in DOMAIN d.event_blocks : ~Branches(d.event_blocks[b])
    IN  max_ticks >= 0 /\ (\A i \in DOMAIN declarations : Straight(declarations[i]))
            => error \in {NoError, "division by zero"}

\* What lowering hands to the optimizer and the compiler has the shape that the
\* theorems about them assume: its frame, its jumps, its stack, the nesting of its
\* branches, and what it declares.
IrIsShaped ==
    LET code == T!lower(declarations).code
    IN  T!Shaped(code) /\ T!Nested(code) /\ (~NoGrid => T!Placing(code))

\* What each stage of the toolchain hands on has the shape that the theorems about the
\* next ones assume, and the machine's most of all: every label was resolved into the
\* behaviours' part of the code, though labels and whole branches were removed before,
\* and only one jump goes back; no way through the code takes too much from the stack
\* or leaves anything on it; and it builds what was declared, each entity on a cell of
\* its own.  (Looked at where the machine starts, as no step changes the program; and
\* the IR in one run of a program, as the others of it begin with the same.)
CodeIsWellFormed == ip = 0 =>
    /\ WellFormed(program) /\ Balanced(program) /\ Placeable(program)
    /\ ~NoGrid => Declares(program)
    /\ max_ticks = 0 /\ ~recording /\ build = "raw" => IrIsShaped

\* Every run ends, by success or by an error, whatever the tick count: the only
\* backward jump is the tick loop's.
EveryRunEnds == <>(status # "running")

\* language.md, sections 12 and 13: assignments are expressions, and assignment
\* is right-associative; so a chain of them runs.  (It does not: StoreVar leaves
\* no value on the stack.  See the README.)
AssignmentsChain == error # "stack underflow"

\* simulation.h: initial_world_ is the world at the start of the simulation, which
\* reset() restores.  (In the machine it is the world without its entities.)
InitialWorldIsDeclared ==
    ticks_completed > 0 => initial_world = Reference!Declaration(declarations)

\* semantics.md, section 16: runtime errors stop execution and report the source
\* line.  (The division of the least int by -1 kills the process, a constant one
\* even when it is never executed.  See the README.)
NeverAborts == status # "aborted"
=============================================================================
