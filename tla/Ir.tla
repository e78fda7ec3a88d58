----------------------------------- MODULE Ir -----------------------------------
(***************************************************************************)
(* IR programs (include/ir/ir.h, src/ir/builder.cpp) and the shape that    *)
(* lowering gives them: what the optimizer and the bytecode compiler rely  *)
(* on.  A program is a sequence of instructions; labels are instructions.  *)
(***************************************************************************)
EXTENDS Bytecode, SequencesExt

\* An IR instruction, its unused fields at their defaults.
Ir(opcode) == [opcode |-> opcode, text |-> "", int_value |-> 0,
               int_value2 |-> 0, bool_value |-> FALSE]
IrText(opcode, text) == [Ir(opcode) EXCEPT !.text = text]
IrInt(n) == [Ir("PushInt") EXCEPT !.int_value = n]
IrBool(b) == [Ir("PushBool") EXCEPT !.bool_value = b]
IrPlace(opcode, text, x, y) ==
    [IrText(opcode, text) EXCEPT !.int_value = x, !.int_value2 = y]

Entities == {"Robot", "Target", "Obstacle"}

\* Those of ir.h, and the one that stands for the trap of a constant division.
IrOpcodes ==
    (BodyOpcodes \ {"PushConst"}) \cup Entities
    \cup {"PushInt", "World", "Label", "BeginTick", "EndTick", "Trap"}

IrInstructions ==
    [opcode : IrOpcodes, text : Texts, int_value : IntValues, int_value2 : IntValues,
     bool_value : BOOLEAN]

Op(code, i) == IF i \in 1 .. Len(code) THEN code[i].opcode ELSE ""

IsLabel(instruction) == instruction.opcode = "Label"

\* build_label_index: where a label stands (the last one of a name), 0 if nowhere.
LabelIndex(code, label) ==
    SelectLastInSeq(code, LAMBDA i : IsLabel(i) /\ i.text = label)

\* Where a jump goes.
GoesTo(code, i) == LabelIndex(code, code[i].text)

\* The opcodes that have another name in the bytecode.
Renamed ==
    [PushInt |-> "PushConst", World |-> "CreateWorld", Robot |-> "CreateRobot",
     Target |-> "CreateTarget", Obstacle |-> "CreateObstacle"]

CompiledOpcode(opcode) ==
    IF opcode \in DOMAIN Renamed THEN Renamed[opcode] ELSE opcode

-----------------------------------------------------------------------------
(* The shape of lowered code.                                               *)

Branches == {"Jump", "JumpIfFalse"}

\* The index of BeginTick.
TickBegin(code) == CHOOSE i \in DOMAIN code : code[i].opcode = "BeginTick"

\* Lowered code is: one World, entities, the label of the loop, BeginTick, behaviours,
\* EndTick, Jump to the label of the loop.  Jumps of the behaviours go forward, to
\* a label before EndTick, and each Stop is followed by a Jump.
Structured(code) ==
    LET last == Len(code)
        first == TickBegin(code)
    IN  /\ first \in 3 .. last - 2
        /\ Op(code, 1) = "World" /\ code[1].int_value > 0 /\ code[1].int_value2 > 0
        /\ \A i \in 2 .. first - 2 : Op(code, i) \in Entities
        /\ Op(code, first - 1) = "Label" /\ Op(code, first) = "BeginTick"
        /\ \A i \in first + 1 .. last - 2 :
              /\ Op(code, i) = "Label" \/ CompiledOpcode(Op(code, i)) \in BodyOpcodes
              /\ Op(code, i) \in Branches => GoesTo(code, i) \in i + 1 .. last - 2
              /\ Op(code, i) = "Stop" => Op(code, i + 1) = "Jump"
        /\ Op(code, last - 1) = "EndTick"
        /\ Op(code, last) = "Jump" /\ GoesTo(code, last) = first - 1

\* The height of the stack before each instruction, were they executed one after the
\* other; a label does nothing.
IrHeightAfter(opcode, height) == HeightAfter(CompiledOpcode(opcode), height)

IrHeights(code) ==
    LET height[i \in DOMAIN code] ==
            IF i = 1 THEN 0 ELSE IrHeightAfter(code[i - 1].opcode, height[i - 1])
    IN  height

\* No instruction finds too few values.  The stack is empty at each label and jump
\* (but for the condition of a branch), where a robot is loaded, and at a turn.
IsIrHeight(code, height) ==
    \A i \in DOMAIN code :
        LET opcode == code[i].opcode
        IN  /\ height[i] \in Nat
            /\ height[i] >= Pops(CompiledOpcode(opcode))
            /\ i = 1 => height[i] = 0
            /\ opcode \in Clean \cup Turns \cup {"Label"} => height[i] = 0
            /\ opcode = "JumpIfFalse" => height[i] = 1
            /\ i < Len(code) => height[i + 1] = IrHeightAfter(opcode, height[i])

Level(code) == IsIrHeight(code, IrHeights(code))

\* A branch leads around what is nested in it: no other jump shares its label, and
\* none from before it goes into it.  A jump is either the end of a then-branch,
\* which leads around the else-branch and is followed by its label, or it is a stop's
\* and followed by a Pop.  No two labels have the same name.
Nested(code) ==
    LET jumps == {i \in TickBegin(code) .. Len(code) - 2 : Op(code, i) \in Branches}
    IN  /\ \A i, j \in DOMAIN code :
              IsLabel(code[i]) /\ IsLabel(code[j]) /\ code[i].text = code[j].text => i = j
        /\ \A i, j \in jumps :
              i # j /\ Op(code, i) = "JumpIfFalse" =>
                 /\ GoesTo(code, j) # GoesTo(code, i)
                 /\ j < i => GoesTo(code, j) \notin i + 1 .. GoesTo(code, i)
        /\ \A i \in jumps :
              Op(code, i) = "Jump" =>
                 IF Op(code, i - 1) = "Stop" THEN Op(code, i + 1) = "Pop"
                 ELSE /\ Op(code, i + 1) = "Label"
                      /\ \A j \in jumps : j < i =>
                            GoesTo(code, j) \notin i + 2 .. GoesTo(code, i) - 1

\* Each entity is inside the world, on a cell of its own; no two robots have the same
\* name, and no two targets.
Placing(code) ==
    LET Cell(i) == <<code[i].int_value, code[i].int_value2>>
    IN  \A i \in 2 .. TickBegin(code) - 2 :
            /\ Cell(i) \in (0 .. code[1].int_value - 1) \X (0 .. code[1].int_value2 - 1)
            /\ \A j \in 2 .. i - 1 :
                  /\ Cell(j) # Cell(i)
                  /\ code[i].opcode \in {"Robot", "Target"} /\ code[i].opcode = code[j].opcode
                        => code[i].text # code[j].text

\* What compile needs to know of its code, and optimize besides.
Shaped(code) == code \in Seq(IrInstructions) /\ Structured(code) /\ Level(code)
=============================================================================
