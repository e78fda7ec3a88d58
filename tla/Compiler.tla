------------------------------- MODULE Compiler -------------------------------
(***************************************************************************)
(* From IR to bytecode: src/bytecode/compiler.cpp.  Labels disappear: a    *)
(* jump goes to the index of the instruction after its label.  Names and   *)
(* ints are interned in pools, in the order they are first met.            *)
(***************************************************************************)
EXTENDS Ir

\* build_label_map: how many instructions of the bytecode there are when the first i
\* instructions of the IR have been compiled.
Pcs(code) ==
    LET pc[i \in 0 .. Len(code)] ==
            IF i = 0 THEN 0 ELSE IF IsLabel(code[i]) THEN pc[i - 1] ELSE pc[i - 1] + 1
    IN  pc

\* Mutants of resolve_label: labels are counted; one instruction too early.
LabelsCounted(code, label) == LabelIndex(code, label) - 1
OneTooEarly(code, label) == Pcs(code)[LabelIndex(code, label)] - 1

resolve_label(code, label) == Pcs(code)[LabelIndex(code, label)]

HasLabel(code, label) == LabelIndex(code, label) # 0

\* A pool with a value in it, and the value's index (from zero).
intern(pool, value) == IF Contains(pool, value) THEN pool ELSE Append(pool, value)
IndexIn(pool, value) == SelectInSeq(pool, LAMBDA v : v = value) - 1

\* Code is the IR the labels are looked up in.
emit_instruction(program, i, code) ==
    LET opcode == CompiledOpcode(i.opcode)
        strings == IF opcode \in NamesString THEN intern(program.strings, i.text)
                   ELSE program.strings
        ints == IF opcode = "PushConst" THEN intern(program.int_constants, i.int_value)
                ELSE program.int_constants
        name == IndexIn(strings, i.text)
        out == CASE opcode = "PushConst" ->
                        Instruction(opcode, IndexIn(ints, i.int_value), 0, 0)
                 [] opcode = "PushBool" ->
                        Instruction(opcode, IF i.bool_value THEN 1 ELSE 0, 0, 0)
                 [] opcode \in {"Jump", "JumpIfFalse"} ->
                        Instruction(opcode, resolve_label(code, i.text), 0, 0)
                 [] opcode \in {"CreateWorld", "CreateObstacle"} ->
                        Instruction(opcode, i.int_value, i.int_value2, 0)
                 [] opcode \in {"CreateRobot", "CreateTarget"} ->
                        Instruction(opcode, name, i.int_value, i.int_value2)
                 [] opcode \in NamesString \ {"CreateRobot", "CreateTarget"} ->
                        Instruction(opcode, name, 0, 0)
                 [] OTHER -> Instruction(opcode, 0, 0, 0)
    IN  [code |-> Append(program.code, out), strings |-> strings,
         int_constants |-> ints]

EmptyProgram == [code |-> << >>, strings |-> << >>, int_constants |-> << >>]

\* Every jump names a label that is there; compile reports "unknown label" else.
Compilable(code) ==
    \A i \in DOMAIN code :
        code[i].opcode \in {"Jump", "JumpIfFalse"} => HasLabel(code, code[i].text)

compile(code) ==
    LET output[i \in 0 .. Len(code)] ==
            IF i = 0 THEN EmptyProgram
            ELSE IF IsLabel(code[i]) THEN output[i - 1]
            ELSE emit_instruction(output[i - 1], code[i], code)
    IN  [output[Len(code)] EXCEPT !.code = Append(@, Instruction("Halt", 0, 0, 0))]
=============================================================================
