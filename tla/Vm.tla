---------------------------------- MODULE Vm ----------------------------------
(***************************************************************************)
(* The bytecode virtual machine: src/vm/vm.cpp, with the frame recorder of *)
(* src/runtime/program_runner.cpp and capture_frame of                     *)
(* src/runtime/tick_log.cpp.  The program is any bytecode program of the   *)
(* set Programs, compiled or not: the errors the machine raises on bad     *)
(* code are part of it.  One action is one turn of the loop of run().      *)
(***************************************************************************)
EXTENDS World, Arith, Bytecode

CONSTANTS
    Programs,       \* the bytecode programs the host may give it
    TickCounts,     \* the tick counts the host may ask for
    Recordings      \* may the host give a recorder?

ASSUME ProgramsAssumption == \A p \in Programs : IsProgram(p)

ASSUME TickCountsAssumption == TickCounts \subseteq Int

ASSUME RecordingsAssumption == Recordings \subseteq BOOLEAN

VARIABLES
    \* the arguments of run_bytecode
    program,            \* program_
    max_ticks,          \* max_ticks_: tick_count
    recording,          \* is recorder_.on_frame given?
    \* the machine
    ip,
    stack,              \* stack_, its back the last element
    variables,          \* variables_: a function on the names assigned so far
    current_robot,      \* current_robot_
    ticks_completed,    \* ticks_completed_
    recorded_initial,   \* recorded_initial_
    \* simulation_: created is has_value(), the rest is the Simulation
    created, world, initial_world, tick,
    \* the TickLog behind the recorder
    frames,
    \* VmResult: "running" until run() returns "ok" or "error"; "aborted" when
    \* an exception leaves run() or the process dies
    status, error

arguments == <<program, max_ticks, recording>>
simulation == <<created, world, initial_world, tick>>
result == <<status, error>>
vars == <<arguments, ip, stack, variables, current_robot, ticks_completed,
          recorded_initial, simulation, frames, result>>

NoError == ""

\* The machine before its first step, whatever its program.
Ready ==
    /\ max_ticks \in TickCounts
    /\ recording \in Recordings
    /\ ip = 0
    /\ stack = << >>
    /\ variables = [name \in {} |-> 0]
    /\ current_robot = NoLabel
    /\ ticks_completed = 0
    /\ recorded_initial = FALSE
    /\ created = FALSE
    /\ world = NewWorld(1, 1)       \* nothing: not read before created
    /\ initial_world = world
    /\ tick = 0
    /\ frames = << >>

Start ==
    /\ Ready
    /\ IF max_ticks < 0 THEN status = "error" /\ error = "negative tick count"
                        ELSE status = "running" /\ error = NoError

Init == program \in Programs /\ Start

-----------------------------------------------------------------------------
(* Helpers.                                                                 *)

\* The next instruction is one of these.
Executes(opcodes) ==
    /\ status = "running"
    /\ ip < Len(program.code)
    /\ At(program, ip).opcode \in opcodes

instruction == At(program, ip)

Raise(message) ==
    /\ status' = "error" /\ error' = message
    /\ UNCHANGED <<arguments, ip, stack, variables, current_robot,
                   ticks_completed, recorded_initial, simulation, frames>>

\* An exception that run() does not catch, or a trap.
Die ==
    /\ status' = "aborted"
    /\ UNCHANGED <<arguments, ip, stack, variables, current_robot,
                   ticks_completed, recorded_initial, simulation, frames, error>>

KnownString == instruction.a \in 0 .. Len(program.strings) - 1
string == Text(program, instruction.a)

Top(i) == stack[Len(stack) - i + 1]

\* What popping n values of a kind ("any" for either) raises, from the top.
PopError(n, kind) ==
    LET Short(i) == Len(stack) < i
        Bad(i) == Short(i) \/ (kind # "any" /\ Top(i).kind # kind)
    IN  IF n >= 1 /\ Bad(1)
        THEN IF Short(1) THEN "stack underflow" ELSE "expected another type"
        ELSE IF n >= 2 /\ Bad(2)
        THEN IF Short(2) THEN "stack underflow" ELSE "expected another type"
        ELSE NoError

\* The stack with its n top values replaced by v.
Replaced(n, v) == Append(SubSeq(stack, 1, Len(stack) - n), v)

\* An instruction that only works on the stack and goes on to the next one.
Compute(new_stack) ==
    /\ stack' = new_stack
    /\ ip' = ip + 1
    /\ UNCHANGED <<arguments, variables, current_robot, ticks_completed,
                   recorded_initial, simulation, frames, result>>

\* An instruction that only changes the world and goes on to the next one.
Act(new_world) ==
    /\ world' = new_world
    /\ ip' = ip + 1
    /\ UNCHANGED <<arguments, stack, variables, current_robot, ticks_completed,
                   recorded_initial, created, initial_world, tick, frames, result>>

Frame(number) == [tick |-> number, world |-> world]

\* Mutant of record_initial_if_needed: forgets that it has recorded.
RecordsInitialAgain ==
    IF recording /\ ~recorded_initial /\ created
    THEN UNCHANGED recorded_initial /\ frames' = Append(frames, Frame(0))
    ELSE UNCHANGED <<recorded_initial, frames>>

record_initial_if_needed ==
    IF recording /\ ~recorded_initial /\ created
    THEN recorded_initial' = TRUE /\ frames' = Append(frames, Frame(0))
    ELSE UNCHANGED <<recorded_initial, frames>>

\* The first Halt at or after here; the end of the code when there is none.
find_halt(here) ==
    LET halts == {j \in here .. Len(program.code) - 1 : At(program, j).opcode = "Halt"}
    IN  IF halts = {} THEN Len(program.code)
        ELSE CHOOSE j \in halts : \A k \in halts : j <= k

jump_in_range(target) == target \in 0 .. Len(program.code) - 1

-----------------------------------------------------------------------------
(* Constants, variables and the stack.                                      *)

PushConst ==
    /\ Executes({"PushConst"})
    /\ IF instruction.a \in 0 .. Len(program.int_constants) - 1
       THEN Compute(Append(stack, Int32(Constant(program, instruction.a))))
       ELSE Raise("invalid constant pool index")

PushBool ==
    /\ Executes({"PushBool"})
    /\ Compute(Append(stack, Bool(instruction.a # 0)))

LoadVar ==
    /\ Executes({"LoadVar"})
    /\ IF ~KnownString THEN Raise("invalid string pool index")
       ELSE IF string \notin DOMAIN variables THEN Raise("unknown variable")
       ELSE Compute(Append(stack, variables[string]))

StoreVar ==
    /\ Executes({"StoreVar"})
    /\ IF ~KnownString THEN Raise("invalid string pool index")
       ELSE IF stack = << >> THEN Raise("stack underflow")
       ELSE /\ variables' = With(variables, string, Top(1))
            /\ stack' = SubSeq(stack, 1, Len(stack) - 1)
            /\ ip' = ip + 1
            /\ UNCHANGED <<arguments, current_robot, ticks_completed,
                           recorded_initial, simulation, frames, result>>

\* Popping an empty stack is not an error here: actions push no value, but the
\* statement they stand in still pops one.
Pop ==
    /\ Executes({"Pop"})
    /\ Compute(IF stack = << >> THEN stack ELSE SubSeq(stack, 1, Len(stack) - 1))

Arithmetic ==
    /\ Executes(ArithOps)
    /\ IF PopError(2, "int") # NoError THEN Raise(PopError(2, "int"))
       ELSE IF instruction.opcode = "Div" /\ Top(1).int = 0
       THEN Raise("division by zero")
       ELSE IF Traps(instruction.opcode, Top(2).int, Top(1).int) THEN Die
       ELSE Compute(Replaced(2, Int32(Calculate(instruction.opcode,
                                                Top(2).int, Top(1).int))))

Comparison ==
    /\ Executes(CompareOps)
    /\ IF PopError(2, "int") # NoError THEN Raise(PopError(2, "int"))
       ELSE Compute(Replaced(2, Bool(Compare(instruction.opcode,
                                             Top(2).int, Top(1).int))))

Equality ==
    /\ Executes(EqualityOps)
    /\ IF PopError(2, "any") # NoError THEN Raise(PopError(2, "any"))
       ELSE IF Top(1).kind # Top(2).kind
       THEN Raise("equality operands must have the same type")
       ELSE Compute(Replaced(2, Bool(Equal(Top(2), Top(1))
                                     = (instruction.opcode = "Eq"))))

Not ==
    /\ Executes({"Not"})
    /\ IF PopError(1, "bool") # NoError THEN Raise(PopError(1, "bool"))
       ELSE Compute(Replaced(1, Bool(~Top(1).bool)))

\* Mutant of Neg: the width of an int is forgotten.
NegUnbounded ==
    /\ Executes({"Neg"})
    /\ IF PopError(1, "int") # NoError THEN Raise(PopError(1, "int"))
       ELSE Compute(Replaced(1, Int32(-Top(1).int)))

Neg ==
    /\ Executes({"Neg"})
    /\ IF PopError(1, "int") # NoError THEN Raise(PopError(1, "int"))
       ELSE Compute(Replaced(1, Int32(Wrap(-Top(1).int))))

-----------------------------------------------------------------------------
(* Control flow.                                                            *)

GoTo(target) ==
    IF ~jump_in_range(target) THEN Raise("jump target out of range")
    ELSE /\ ip' = target
         /\ UNCHANGED <<arguments, stack, variables, current_robot,
                        ticks_completed, recorded_initial, simulation, frames,
                        result>>

Jump == Executes({"Jump"}) /\ GoTo(instruction.a)

\* Mutant of JumpIfFalse: a jump leaves the condition on the stack.
JumpIfFalseKeeps ==
    /\ Executes({"JumpIfFalse"})
    /\ IF PopError(1, "bool") # NoError THEN Raise(PopError(1, "bool"))
       ELSE IF Top(1).bool THEN Compute(SubSeq(stack, 1, Len(stack) - 1))
       ELSE GoTo(instruction.a)

JumpIfFalse ==
    /\ Executes({"JumpIfFalse"})
    /\ IF PopError(1, "bool") # NoError THEN Raise(PopError(1, "bool"))
       ELSE IF Top(1).bool THEN Compute(SubSeq(stack, 1, Len(stack) - 1))
       ELSE IF ~jump_in_range(instruction.a) THEN Raise("jump target out of range")
       ELSE /\ ip' = instruction.a
            /\ stack' = SubSeq(stack, 1, Len(stack) - 1)
            /\ UNCHANGED <<arguments, variables, current_robot, ticks_completed,
                           recorded_initial, simulation, frames, result>>

\* Stop goes where the Jump after it goes.
Stop ==
    /\ Executes({"Stop"})
    /\ IF ip + 1 >= Len(program.code) \/ At(program, ip + 1).opcode # "Jump"
       THEN Raise("STOP is not followed by a jump to the robot end label")
       ELSE GoTo(At(program, ip + 1).a)

\* Mutant of Halt: no frame of a program without ticks.
HaltRecordsNothing ==
    /\ Executes({"Halt"})
    /\ IF created THEN status' = "ok" /\ UNCHANGED error
       ELSE status' = "error" /\ error' = "program halted before world was created"
    /\ UNCHANGED <<arguments, ip, stack, variables, current_robot, ticks_completed,
                   recorded_initial, simulation, frames>>

Halt ==
    /\ Executes({"Halt"})
    /\ IF created
       THEN /\ record_initial_if_needed
            /\ status' = "ok"
            /\ UNCHANGED error
       ELSE /\ status' = "error"
            /\ error' = "program halted before world was created"
            /\ UNCHANGED <<recorded_initial, frames>>
    /\ UNCHANGED <<arguments, ip, stack, variables, current_robot,
                   ticks_completed, simulation>>

\* The code ran out.
NoHalt ==
    /\ status = "running"
    /\ ip >= Len(program.code)
    /\ Raise("program ended without HALT")

-----------------------------------------------------------------------------
(* Building the world.                                                      *)

\* Does World have a grid for these dimensions?  Its constructor throws for one that
\* is not positive; for a product that does not fit an int, resize throws when it
\* wraps to a negative number, and the grid is too small when it does not.
Fits(width, height) ==
    width > 0 /\ height > 0 /\ width * height < Modulus \div 2

\* The Simulation, with its initial_world_, is made of the empty world, before
\* any entity is placed in it.  Nothing catches what the constructor throws.
CreateWorld ==
    /\ Executes({"CreateWorld"})
    /\ IF ~Fits(instruction.a, instruction.b) THEN Die
       ELSE /\ created' = TRUE
            /\ world' = NewWorld(instruction.a, instruction.b)
            /\ initial_world' = world'
            /\ tick' = 0
            /\ ip' = ip + 1
            /\ UNCHANGED <<arguments, stack, variables, current_robot,
                           ticks_completed, recorded_initial, frames, result>>

Place(placed) ==
    IF ~created THEN Raise("world has not been created")
    ELSE IF ~placed.ok THEN Raise("failed to place")
    ELSE Act(placed.world)

CreateRobot ==
    /\ Executes({"CreateRobot"})
    /\ IF ~KnownString THEN Raise("invalid string pool index")
       ELSE Place(place_robot(world, string, instruction.b, instruction.c))

CreateTarget ==
    /\ Executes({"CreateTarget"})
    /\ IF ~KnownString THEN Raise("invalid string pool index")
       ELSE Place(place_target(world, string, instruction.b, instruction.c))

CreateObstacle ==
    /\ Executes({"CreateObstacle"})
    /\ Place(place_obstacle(world, instruction.a, instruction.b))

-----------------------------------------------------------------------------
(* Ticks.                                                                   *)

\* Mutant of BeginTick: one tick more when none is left.
BeginTickOnceMore ==
    /\ Executes({"BeginTick"})
    /\ IF ticks_completed > max_ticks
       THEN /\ record_initial_if_needed
            /\ ip' = find_halt(ip)
            /\ UNCHANGED <<world, result>>
       ELSE IF ~created
       THEN /\ status' = "error" /\ error' = "world has not been created"
            /\ UNCHANGED <<ip, world, recorded_initial, frames>>
       ELSE /\ record_initial_if_needed
            /\ world' = clear_collision_flags(world)
            /\ ip' = ip + 1
            /\ UNCHANGED result
    /\ UNCHANGED <<arguments, stack, variables, current_robot, ticks_completed,
                   created, initial_world, tick>>

BeginTick ==
    /\ Executes({"BeginTick"})
    /\ IF ticks_completed >= max_ticks
       THEN /\ record_initial_if_needed
            /\ ip' = find_halt(ip)
            /\ UNCHANGED <<world, result>>
       ELSE IF ~created
       THEN /\ status' = "error" /\ error' = "world has not been created"
            /\ UNCHANGED <<ip, world, recorded_initial, frames>>
       ELSE /\ record_initial_if_needed
            /\ world' = clear_collision_flags(world)
            /\ ip' = ip + 1
            /\ UNCHANGED result
    /\ UNCHANGED <<arguments, stack, variables, current_robot, ticks_completed,
                   created, initial_world, tick>>

\* After the last tick the jump back to the loop is skipped.  (simulation_ is
\* dereferenced without a check: code that ends a tick before it creates a world
\* is not defined.)
EndTick ==
    /\ Executes({"EndTick"})
    /\ created
    /\ tick' = tick + 1
    /\ frames' = IF recording THEN Append(frames, Frame(tick')) ELSE frames
    /\ ticks_completed' = ticks_completed + 1
    /\ ip' = IF ticks_completed' < max_ticks THEN ip + 1
             ELSE IF ip + 1 < Len(program.code) /\ At(program, ip + 1).opcode = "Jump"
             THEN find_halt(ip + 2)
             ELSE find_halt(ip + 1)
    /\ UNCHANGED <<arguments, stack, variables, current_robot, recorded_initial,
                   created, world, initial_world, result>>

-----------------------------------------------------------------------------
(* Behaviours.                                                              *)

LoadAgent ==
    /\ Executes({"LoadAgent"})
    /\ IF ~KnownString THEN Raise("invalid string pool index")
       ELSE /\ current_robot' = string
            /\ variables' = [name \in {} |-> 0]
            /\ ip' = ip + 1
            /\ UNCHANGED <<arguments, stack, ticks_completed, recorded_initial,
                           simulation, frames, result>>

OnWorld(new_world) ==
    IF created THEN Act(new_world) ELSE Raise("world has not been created")

Move ==
    /\ Executes(Moves)
    /\ OnWorld(CASE instruction.opcode = "MoveUp" -> move_up(world, current_robot).world
                 [] instruction.opcode = "MoveDown" -> move_down(world, current_robot).world
                 [] instruction.opcode = "MoveLeft" -> move_left(world, current_robot).world
                 [] instruction.opcode = "MoveRight" -> move_right(world, current_robot).world
                 [] instruction.opcode = "MoveForward" -> move_forward(world, current_robot).world)

\* Mutant of MoveToward: steps twice.
MoveTowardTwice ==
    /\ Executes({"MoveToward"})
    /\ IF ~KnownString THEN Raise("invalid string pool index")
       ELSE OnWorld(move_toward(move_toward(world, current_robot, string).world,
                                current_robot, string).world)

MoveToward ==
    /\ Executes({"MoveToward"})
    /\ IF ~KnownString THEN Raise("invalid string pool index")
       ELSE OnWorld(move_toward(world, current_robot, string).world)

Turn ==
    /\ Executes(Turns)
    /\ OnWorld(IF instruction.opcode = "TurnLeft"
               THEN turn_robot_left(world, current_robot)
               ELSE turn_robot_right(world, current_robot))

Query(value) ==
    IF created THEN Compute(Append(stack, value))
    ELSE Raise("world has not been created")

DistanceTo ==
    /\ Executes({"DistanceTo"})
    /\ IF ~KnownString THEN Raise("invalid string pool index")
       ELSE Query(Int32(distance_to(world, current_robot, string)))

ObstacleAhead ==
    /\ Executes({"ObstacleAhead"})
    /\ Query(Bool(obstacle_ahead(world, current_robot)))

Collision ==
    /\ Executes({"Collision"})
    /\ Query(Bool(collision(world, current_robot)))

-----------------------------------------------------------------------------
(* The machine returns once status is not "running".                        *)

Returned == status # "running" /\ UNCHANGED vars

Step ==
    \/ PushConst \/ PushBool \/ LoadVar \/ StoreVar \/ Pop
    \/ Arithmetic \/ Comparison \/ Equality \/ Not \/ Neg
    \/ Jump \/ JumpIfFalse \/ Stop \/ Halt \/ NoHalt
    \/ CreateWorld \/ CreateRobot \/ CreateTarget \/ CreateObstacle
    \/ BeginTick \/ EndTick \/ LoadAgent
    \/ Move \/ MoveToward \/ Turn \/ DistanceTo \/ ObstacleAhead \/ Collision

Next == Step \/ Returned

\* run() is a loop in one thread: it keeps taking steps.
Spec == Init /\ [][Next]_vars /\ WF_vars(Step)
-----------------------------------------------------------------------------
(* Properties, of any bytecode or of well-formed bytecode.                  *)

Strings == {program.strings[i] : i \in DOMAIN program.strings}

Value == [kind : {"int"}, int : IntValues] \cup [kind : {"bool"}, bool : BOOLEAN]

\* Every variable has its type; worlds name what the string pool names, and the
\* stack and the variables hold values that fit an int.
TypeOK ==
    /\ max_ticks \in TickCounts /\ recording \in Recordings
    /\ ip \in Nat
    /\ stack \in Seq(Value)
    /\ DOMAIN variables \subseteq Strings
    /\ \A name \in DOMAIN variables : variables[name] \in Value
    /\ current_robot \in Strings \cup {NoLabel}
    /\ ticks_completed \in Nat /\ tick \in Nat
    /\ recorded_initial \in BOOLEAN /\ created \in BOOLEAN
    /\ IsWorld(world, Strings) /\ IsWorld(initial_world, Strings)
    /\ status \in {"running", "ok", "error", "aborted"}
    /\ \A i \in DOMAIN frames : frames[i].tick \in Nat

\* Whatever the bytecode, also when a placement or an instruction fails halfway,
\* the machine's world and each frame it recorded are consistent: the robot list
\* and the grid agree.
WorldSound ==
    /\ Consistent(world) /\ Consistent(initial_world)
    /\ \A i \in DOMAIN frames : Consistent(frames[i].world)

\* What run_program relies on after run_bytecode: success means that there is a
\* simulation and, if a recorder was given, at least one frame.
SuccessHasSimulation ==
    status = "ok" => created /\ (recording => frames # << >>)

\* The tick log of well-formed code numbers its frames 0, 1, 2, ... without a gap
\* or a repetition, and is never behind the simulation between two ticks.
FramesInOrder ==
    WellFormed(program) =>
        /\ \A i \in DOMAIN frames : frames[i].tick = i - 1
        /\ recorded_initial => recording /\ Len(frames) = tick + 1

\* Well-formed code never does a tick too many, and when it succeeds it has done
\* exactly the ticks asked for; the machine's count and the simulation's agree.
ExactTicks ==
    WellFormed(program) =>
        /\ ticks_completed = tick
        /\ max_ticks >= 0 => tick <= max_ticks
        /\ status = "ok" => tick = max_ticks

\* Statements leave nothing behind: whenever a behaviour starts or a tick begins
\* or ends the stack is empty, through stops and pruned branches alike.
StackDrained ==
    \A opcode \in {"BeginTick", "LoadAgent", "EndTick", "Halt"} :
        Executes({opcode}) => stack = << >>

\* The errors that semantics.md, section 16, leaves to run time for a program
\* that the analyzer has accepted: it follows no paths, so variables may turn
\* out unassigned or of another type.
RuntimeErrors ==
    {NoError, "division by zero", "unknown variable", "expected another type",
     "equality operands must have the same type"}

\* language.md, section 8, asks of the dimensions of a world only that they are
\* positive, and so does the analyzer.  Has the program's world no grid?
NoGrid == program.code # << >> /\ ~Fits(At(program, 0).a, At(program, 0).b)

\* Was the machine killed by the division it is at?
DivisionTraps ==
    /\ ip < Len(program.code) /\ instruction.opcode = "Div"
    /\ Traps("Div", Top(2).int, Top(1).int)

\* Compiled code does not make the machine fail on its own account: the stack never
\* underflows, placements never fail, and jumps, pools and the end of the code are
\* as the machine expects them.  Only a world that has no grid, before anything is
\* placed in it, or the division that traps kills the process.
NoInternalError ==
    /\ status = "aborted" => NoGrid \/ DivisionTraps
    /\ created => ~NoGrid
    /\ max_ticks >= 0 => error \in RuntimeErrors
=============================================================================
