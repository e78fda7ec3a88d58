---------------------------------- MODULE MCVm ----------------------------------
(***************************************************************************)
(* Hand-assembled bytecode for the machine alone.  The skeleton is         *)
(* well-formed code for two robots with two free slots in A's behaviour,   *)
(* after two ints were pushed; the others are what a broken compiler might *)
(* emit.                                                                   *)
(***************************************************************************)
EXTENDS Vm

I(opcode) == Instruction(opcode, 0, 0, 0)
Ia(opcode, a) == Instruction(opcode, a, 0, 0)

Strings4 == <<"A", "B", "T", "v">>
Ints == <<0, 1, -8>>

Code(instructions) ==
    [code |-> instructions, strings |-> Strings4, int_constants |-> Ints]

\* Index 5 is BeginTick, 9 and 10 the slots, 11 B's behaviour, 13 EndTick.
Skeleton(first, second) == Code(<<
    Instruction("CreateWorld", 3, 2, 0), Instruction("CreateRobot", 0, 0, 0),
    Instruction("CreateTarget", 2, 2, 1), Instruction("CreateObstacle", 1, 1, 0),
    Instruction("CreateRobot", 1, 2, 0),
    I("BeginTick"), Ia("LoadAgent", 0), Ia("PushConst", 2), Ia("PushConst", 1),
    first, second,
    Ia("LoadAgent", 1), I("MoveLeft"), I("EndTick"), Ia("Jump", 5), I("Halt")>>)

Slots ==
    {I(o) : o \in ArithOps \cup {"Lt", "Ge", "Eq", "Ne", "Neg", "Not", "Pop", "Stop",
                                 "ObstacleAhead", "Collision"}
                  \cup Moves \cup Turns}
    \cup {Ia(o, 3) : o \in {"LoadVar", "StoreVar", "PushConst"}}
    \cup {Ia(o, 2) : o \in {"MoveToward", "DistanceTo"}}
    \cup {Ia("PushBool", 1), Ia("PushConst", 0), Ia("LoadAgent", 3), Ia("LoadAgent", 4),
          Ia("Jump", 10), Ia("Jump", 13), Ia("Jump", 40), Ia("JumpIfFalse", 13)}

\* Pieces of code in orders that no compiler emits: without a world, with a
\* placement that fails or comes twice, inside a tick, without an end.
Pieces ==
    {Instruction("CreateWorld", 2, 1, 0), Instruction("CreateWorld", 0, 1, 0),
     Instruction("CreateWorld", 3, 3, 0),
     Instruction("CreateRobot", 0, 0, 0), Instruction("CreateRobot", 7, 0, 0),
     Instruction("CreateTarget", 0, 1, 0), Instruction("CreateObstacle", 1, 0, 0),
     I("BeginTick"), I("Halt"), I("MoveUp"), I("ObstacleAhead"), Ia("MoveToward", 0)}

Broken == {Code(<<first, second, third>>) :
              first \in Pieces, second \in Pieces, third \in Pieces \cup {I("EndTick")}}

\* Ending a tick without a world is undefined.
Defined(p) ==
    \A i \in DOMAIN p.code : p.code[i].opcode = "EndTick" =>
        \E j \in 1 .. i - 1 : p.code[j].opcode = "CreateWorld" /\ p.code[j].a > 0

\* (In two steps: TLC evaluates AllPrograms once, what replaces a constant often.)
AllPrograms == {Skeleton(first, second) : first \in Slots, second \in Slots}
               \cup {p \in Broken : Defined(p)} \cup {Code(<< >>)}

MCPrograms == AllPrograms

MCTickCounts == {-1, 0, 2}
=============================================================================
