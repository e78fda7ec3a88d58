------------------------------- MODULE Bytecode -------------------------------
(***************************************************************************)
(* Bytecode programs (include/bytecode/bytecode.h) and the shape that the  *)
(* bytecode compiler gives them.  Pool indices and jump targets count from *)
(* zero, as in the code; At, Text and Constant index the TLA+ sequences.   *)
(***************************************************************************)
EXTENDS Arith, Sequences

Instruction(opcode, a, b, c) == [opcode |-> opcode, a |-> a, b |-> b, c |-> c]

At(program, ip) == program.code[ip + 1]
Text(program, index) == program.strings[index + 1]
Constant(program, index) == program.int_constants[index + 1]

Placements == {"CreateRobot", "CreateTarget", "CreateObstacle"}
Moves == {"MoveUp", "MoveDown", "MoveLeft", "MoveRight", "MoveForward"}
Turns == {"TurnLeft", "TurnRight"}

\* Opcodes whose first operand is an index into the string pool.
NamesString == {"LoadVar", "StoreVar", "CreateRobot", "CreateTarget",
                "LoadAgent", "MoveToward", "DistanceTo"}

\* Opcodes of a behaviour: what may stand between BeginTick and EndTick.
BodyOpcodes ==
    {"PushConst", "PushBool", "LoadVar", "StoreVar", "Pop",
     "Add", "Sub", "Mul", "Div", "Eq", "Ne", "Lt", "Le", "Gt", "Ge",
     "Not", "Neg", "Jump", "JumpIfFalse", "LoadAgent", "Stop",
     "MoveToward", "DistanceTo", "ObstacleAhead", "Collision"} \cup Moves \cup Turns

Opcodes == {"CreateWorld", "BeginTick", "EndTick", "Halt"} \cup Placements \cup BodyOpcodes

Instructions == [opcode : Opcodes, a : Int, b : Int, c : Int]

\* (The empty string is one of STRING; to say so is for the provers.)
Texts == STRING \cup {""}

IsProgram(program) ==
    /\ program.code \in Seq(Instructions)
    /\ program.strings \in Seq(Texts)
    /\ program.int_constants \in Seq(IntValues)

\* The index of BeginTick in a compiled program.
LoopStart(program) ==
    CHOOSE ip \in 0 .. Len(program.code) - 1 : At(program, ip).opcode = "BeginTick"

\* Compiled code is: one CreateWorld, placements, BeginTick, behaviours,
\* EndTick, Jump back to BeginTick, Halt.  Jumps of the behaviours go forward, at
\* most to EndTick, and each Stop is followed by a Jump.
WellFormed(program) ==
    LET last == Len(program.code) - 1
        first == LoopStart(program)
        Op(ip) == At(program, ip).opcode
    IN  /\ last >= 4
        /\ first \in 1 .. last - 3
        /\ Op(0) = "CreateWorld" /\ At(program, 0).a > 0 /\ At(program, 0).b > 0
        /\ \A ip \in 1 .. first - 1 : Op(ip) \in Placements
        /\ Op(first) = "BeginTick"
        /\ \A ip \in first + 1 .. last - 3 :
              /\ Op(ip) \in BodyOpcodes
              /\ Op(ip) \in {"Jump", "JumpIfFalse"} =>
                    At(program, ip).a \in ip + 1 .. last - 2
              /\ Op(ip) = "Stop" => ip + 1 <= last - 3 /\ Op(ip + 1) = "Jump"
        /\ Op(last - 2) = "EndTick"
        /\ Op(last - 1) = "Jump" /\ At(program, last - 1).a = first
        /\ Op(last) = "Halt"
        /\ \A ip \in 0 .. last :
              /\ Op(ip) \in NamesString =>
                    At(program, ip).a \in 0 .. Len(program.strings) - 1
              /\ Op(ip) = "PushConst" =>
                    At(program, ip).a \in 0 .. Len(program.int_constants) - 1

-----------------------------------------------------------------------------
(* What compiled code does to the stack.                                    *)

\* How many values an instruction pops; Pop itself pops none of an empty stack.
Pops(opcode) ==
    IF opcode \in ArithOps \cup CompareOps \cup EqualityOps THEN 2
    ELSE IF opcode \in {"Not", "Neg", "StoreVar", "JumpIfFalse"} THEN 1
    ELSE 0

\* Those that push a value.
Pushing ==
    ArithOps \cup CompareOps \cup EqualityOps
    \cup {"PushConst", "PushBool", "LoadVar", "Not", "Neg",
          "DistanceTo", "ObstacleAhead", "Collision"}

HeightAfter(opcode, height) ==
    IF opcode = "Pop" THEN IF height = 0 THEN 0 ELSE height - 1
    ELSE IF opcode \in Pushing THEN height - Pops(opcode) + 1
    ELSE height - Pops(opcode)

\* The height of the stack before each instruction, were they executed one after
\* the other.
Heights(program) ==
    LET height[ip \in 0 .. Len(program.code) - 1] ==
            IF ip = 0 THEN 0
            ELSE HeightAfter(At(program, ip - 1).opcode, height[ip - 1])
    IN  height

\* Where a statement begins or has ended.
Clean == {"Jump", "Stop", "LoadAgent", "BeginTick", "EndTick", "Halt"}

\* No instruction finds too few values, and every jump is made from an empty stack
\* to an empty stack: so the heights are those of every way through the code.
IsHeight(program, height) ==
    LET last == Len(program.code) - 1
        Op(ip) == At(program, ip).opcode
    IN  /\ height[0] = 0
        /\ \A ip \in 0 .. last :
              /\ height[ip] \in Nat
              /\ height[ip] >= Pops(Op(ip))
              /\ Op(ip) \in Clean => height[ip] = 0
              /\ Op(ip) = "JumpIfFalse" => height[ip] = 1
              /\ Op(ip) \in {"Jump", "JumpIfFalse"} => height[At(program, ip).a] = 0
              /\ ip < last => height[ip + 1] = HeightAfter(Op(ip), height[ip])

Balanced(program) == IsHeight(program, Heights(program))

-----------------------------------------------------------------------------
(* What compiled code builds.                                               *)

Site(program, ip) ==
    LET here == At(program, ip)
    IN  IF here.opcode = "CreateObstacle" THEN <<here.a, here.b>> ELSE <<here.b, here.c>>

\* Each placement is inside the world, on a cell of its own; no two robots have the
\* same name, and no two targets.
Placeable(program) ==
    LET Op(ip) == At(program, ip).opcode
        Name(ip) == Text(program, At(program, ip).a)
    IN  \A ip \in 1 .. LoopStart(program) - 1 :
            /\ Site(program, ip) \in (0 .. At(program, 0).a - 1) \X (0 .. At(program, 0).b - 1)
            /\ \A before \in 1 .. ip - 1 :
                  /\ Site(program, before) # Site(program, ip)
                  /\ Op(ip) \in {"CreateRobot", "CreateTarget"} /\ Op(before) = Op(ip)
                        => Name(before) # Name(ip)
=============================================================================
