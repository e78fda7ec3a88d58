------------------------------- MODULE Toolchain -------------------------------
(***************************************************************************)
(* run_program of src/runtime/program_runner.cpp, up to the machine, and   *)
(* the unoptimized build that the bytecode dump and the benchmark make.    *)
(***************************************************************************)
EXTENDS Analyzer, Lower, Optimizer, Compiler

Builds == {"raw", "optimized"}

IrOf(declarations, build) ==
    LET code == lower(declarations).code
    IN  IF build = "optimized" THEN optimize(code) ELSE code

\* A constant division that traps is folded.
FoldTraps(declarations, build) == Trap \in ToSet(IrOf(declarations, build))

\* Lowering and compilation report no error, and folding does not trap.
CanBuild(declarations, build) ==
    /\ lower(declarations).error = ""
    /\ Compilable(IrOf(declarations, build))
    /\ ~FoldTraps(declarations, build)

Build(declarations, build) == compile(IrOf(declarations, build))
=============================================================================
