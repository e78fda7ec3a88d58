------------------------------- MODULE Vm_proofs -------------------------------
(***************************************************************************)
(* Theorems about the machine on any bytecode whatever, compiled or not.   *)
(* VmCompiled_proofs has those about the code that the toolchain emits.    *)
(***************************************************************************)
EXTENDS Vm, World_proofs, Ir_proofs

\* A sequence, of whatever.
IsSeq(s) == \E S : s \in Seq(S)

LEMMA AppendSeq ==
    ASSUME NEW s, IsSeq(s), NEW e
    PROVE  /\ IsSeq(Append(s, e))
           /\ DOMAIN s = 1 .. Len(s) /\ Len(s) \in Nat
           /\ Len(Append(s, e)) = Len(s) + 1
           /\ DOMAIN Append(s, e) = 1 .. Len(s) + 1
           /\ \A i \in 1 .. Len(s) : Append(s, e)[i] = s[i]
           /\ Append(s, e)[Len(s) + 1] = e
<1>1. PICK S : s \in Seq(S)
    BY DEF IsSeq
<1>2. s \in Seq(S \cup {e})
    BY <1>1
<1>3. Append(s, e) \in Seq(S \cup {e})
    BY <1>2
<1>4. IsSeq(Append(s, e))
    BY <1>3 DEF IsSeq
<1> QED
    BY <1>1, <1>2, <1>3, <1>4

LEMMA ElementOf ==
    ASSUME NEW S, NEW s \in Seq(S), NEW i \in 1 .. Len(s)
    PROVE  s[i] \in S
OBVIOUS

\* An instruction that is executed has int operands, and the name its first one
\* indexes is in the string pool.
LEMMA Operands ==
    ASSUME IsProgram(program), ip \in Nat, ip < Len(program.code)
    PROVE  /\ instruction.a \in Int /\ instruction.b \in Int /\ instruction.c \in Int
           /\ KnownString => string \in Strings
<1>1. ip + 1 \in 1 .. Len(program.code)
    BY DEF IsProgram
<1>2. program.code[ip + 1] \in Instructions
    BY <1>1, ElementOf DEF IsProgram
<1>3. instruction.a \in Int /\ instruction.b \in Int /\ instruction.c \in Int
    BY <1>2 DEF instruction, At, Instructions
<1>4. ASSUME KnownString PROVE string \in Strings
  <2>1. instruction.a + 1 \in 1 .. Len(program.strings)
      BY <1>3, <1>4 DEF KnownString, IsProgram
  <2>2. instruction.a + 1 \in DOMAIN program.strings
      BY <2>1 DEF IsProgram
  <2> QED
      BY <2>2 DEF Strings, string, Text
<1> QED
    BY <1>3, <1>4

-----------------------------------------------------------------------------
(* Any bytecode: the world is sound.                                        *)

SoundWorld(w) == IsWorld(w, Strings) /\ Consistent(w)

\* Inductive: what WorldSound and SuccessHasSimulation say, with the types that
\* make each operand an int and each name a string of the pool.
Sound ==
    /\ program \in Programs
    /\ ip \in Nat
    /\ SoundWorld(world) /\ SoundWorld(initial_world)
    /\ IsSeq(frames) /\ \A i \in DOMAIN frames : Consistent(frames[i].world)
    /\ recorded_initial => frames # << >>
    /\ SuccessHasSimulation

LEMMA InitSound == Init => Sound
<1> SUFFICES ASSUME Init PROVE Sound
    OBVIOUS
<1>1. SoundWorld(NewWorld(1, 1))
    BY NewWorldGood DEF SoundWorld
<1>. frames = << >>
    BY DEF Init, Start, Ready
<1>2. frames \in Seq({}) /\ DOMAIN frames = {}
    OBVIOUS
<1>3. status # "ok"
    BY DEF Init, Start, Ready
<1> QED
    BY <1>1, <1>2, <1>3 DEF Init, Start, Ready, Sound, IsSeq, SuccessHasSimulation

\* The frames after a step that records the sound world, or records nothing.
Recorded ==
    \/ UNCHANGED <<frames, recorded_initial>>
    \/ /\ frames' = Append(frames, Frame(0)) /\ recorded_initial' = TRUE
    \/ /\ frames' = Append(frames, Frame(tick')) /\ UNCHANGED recorded_initial

LEMMA RecordSound ==
    ASSUME Sound, Recorded
    PROVE  /\ IsSeq(frames')
           /\ \A i \in DOMAIN frames' : Consistent(frames'[i].world)
           /\ recorded_initial' => frames' # << >>
<1>1. CASE UNCHANGED <<frames, recorded_initial>>
    BY <1>1 DEF Sound
<1>2. ASSUME NEW n, frames' = Append(frames, Frame(n))
      PROVE  /\ IsSeq(frames') /\ frames' # << >>
             /\ \A i \in DOMAIN frames' : Consistent(frames'[i].world)
  <2>1. Consistent(Frame(n).world)
      BY DEF Frame, Sound, SoundWorld
  <2>2. \A i \in 1 .. Len(frames) : Consistent(frames[i].world)
      BY AppendSeq DEF Sound
  <2>3. IsSeq(frames)
      BY DEF Sound
  <2>4. /\ IsSeq(frames') /\ Len(frames') = Len(frames) + 1 /\ Len(frames) \in Nat
        /\ DOMAIN frames' = 1 .. Len(frames) + 1
        /\ \A i \in 1 .. Len(frames) : frames'[i] = frames[i]
        /\ frames'[Len(frames) + 1] = Frame(n)
      BY <1>2, <2>3, AppendSeq
  <2>5. frames' # << >>
      BY <2>4
  <2>6. ASSUME NEW i \in DOMAIN frames' PROVE Consistent(frames'[i].world)
    <3>1. CASE i \in 1 .. Len(frames)
        BY <3>1, <2>2, <2>4
    <3>2. CASE i = Len(frames) + 1
        BY <3>2, <2>1, <2>4
    <3> QED
        BY <3>1, <3>2, <2>4, <2>6
  <2> QED
      BY <2>4, <2>5, <2>6
<1> QED
    BY <1>1, <1>2 DEF Recorded

\* What a step has to do to keep the invariant.
LEMMA StepSound ==
    ASSUME Sound, UNCHANGED program, ip' \in Nat,
           SoundWorld(world'), SoundWorld(initial_world'), Recorded,
           SuccessHasSimulation'
    PROVE  Sound'
<1>1. Strings' = Strings
    BY DEF Strings
<1>2. SoundWorld(world)' /\ SoundWorld(initial_world)'
    BY <1>1 DEF SoundWorld
<1> QED
    BY <1>2, RecordSound DEF Sound

\* A step that touches neither the world nor the frames, and does not succeed.
LEMMA QuietSound ==
    ASSUME Sound, UNCHANGED <<program, world, initial_world, created, recording,
                              recorded_initial, frames>>,
           ip' \in Nat, UNCHANGED status \/ status' # "ok"
    PROVE  Sound'
<1>1. SoundWorld(world') /\ SoundWorld(initial_world')
    BY DEF Sound
<1>2. SuccessHasSimulation'
    BY DEF Sound, SuccessHasSimulation
<1> QED
    BY <1>1, <1>2, StepSound DEF Recorded

LEMMA RaiseSound == ASSUME Sound, NEW m, Raise(m) PROVE Sound'
BY QuietSound DEF Raise, Sound, arguments, simulation

LEMMA DieSound == ASSUME Sound, Die PROVE Sound'
BY QuietSound DEF Die, Sound, arguments, simulation

LEMMA ComputeSound == ASSUME Sound, NEW s, Compute(s) PROVE Sound'
BY QuietSound DEF Compute, Sound, arguments, simulation, result

LEMMA ActSound ==
    ASSUME Sound, NEW w, Good(world, w, Strings), Act(w)
    PROVE  Sound'
<1>1. SoundWorld(world') /\ SoundWorld(initial_world')
    BY DEF Act, Good, Sound, SoundWorld
<1>2. SuccessHasSimulation'
    BY DEF Act, Sound, SuccessHasSimulation, arguments, result
<1> QED
    BY <1>1, <1>2, StepSound DEF Act, Recorded, Sound, arguments

LEMMA GoToSound == ASSUME Sound, NEW t, GoTo(t) PROVE Sound'
<1>1. CASE ~jump_in_range(t)
    BY <1>1, RaiseSound DEF GoTo
<1>2. CASE jump_in_range(t)
  <2>1. ip' \in Nat
      BY <1>2 DEF GoTo, jump_in_range
  <2>2. UNCHANGED <<program, world, initial_world, created, recording,
                    recorded_initial, frames, status>>
      BY <1>2 DEF GoTo, arguments, simulation, result
  <2> QED
      BY <2>1, <2>2, QuietSound
<1> QED
    BY <1>1, <1>2

\* The stack machine's own instructions.
LEMMA ComputingSound ==
    ASSUME Sound,
           \/ PushConst \/ PushBool \/ LoadVar \/ StoreVar \/ Pop
           \/ Arithmetic \/ Comparison \/ Equality \/ Not \/ Neg
           \/ Jump \/ JumpIfFalse \/ Stop \/ NoHalt \/ LoadAgent
    PROVE  Sound'
<1>1. CASE PushConst
    BY <1>1, ComputeSound, RaiseSound DEF PushConst
<1>2. CASE PushBool
    BY <1>2, ComputeSound DEF PushBool
<1>3. CASE LoadVar
    BY <1>3, ComputeSound, RaiseSound DEF LoadVar
<1>4. CASE StoreVar
  <2>1. CASE \E m : Raise(m)
      BY <2>1, RaiseSound
  <2>2. CASE /\ ip' = ip + 1
             /\ UNCHANGED <<arguments, current_robot, ticks_completed,
                            recorded_initial, simulation, frames, result>>
      BY <2>2, QuietSound DEF Sound, arguments, simulation, result
  <2> QED
      BY <1>4, <2>1, <2>2 DEF StoreVar
<1>5. CASE Pop
    BY <1>5, ComputeSound DEF Pop
<1>6. CASE Arithmetic
    BY <1>6, ComputeSound, RaiseSound, DieSound DEF Arithmetic
<1>7. CASE Comparison
    BY <1>7, ComputeSound, RaiseSound DEF Comparison
<1>8. CASE Equality
    BY <1>8, ComputeSound, RaiseSound DEF Equality
<1>9. CASE Not
    BY <1>9, ComputeSound, RaiseSound DEF Not
<1>10. CASE Neg
    BY <1>10, ComputeSound, RaiseSound DEF Neg
<1>11. CASE Jump
    BY <1>11, GoToSound DEF Jump
<1>12. CASE JumpIfFalse
  <2>1. CASE ip' = instruction.a /\ jump_in_range(instruction.a)
             /\ UNCHANGED <<arguments, variables, current_robot, ticks_completed,
                            recorded_initial, simulation, frames, result>>
      BY <2>1, QuietSound DEF jump_in_range, Sound, arguments, simulation, result
  <2>2. CASE \E m : Raise(m)
      BY <2>2, RaiseSound
  <2>3. CASE \E s : Compute(s)
      BY <2>3, ComputeSound
  <2> QED
      BY <1>12, <2>1, <2>2, <2>3 DEF JumpIfFalse
<1>13. CASE Stop
    BY <1>13, GoToSound, RaiseSound DEF Stop
<1>14. CASE NoHalt
    BY <1>14, RaiseSound DEF NoHalt
<1>15. CASE LoadAgent
  <2>1. CASE \E m : Raise(m)
      BY <2>1, RaiseSound
  <2>2. CASE /\ ip' = ip + 1
             /\ UNCHANGED <<arguments, stack, ticks_completed, recorded_initial,
                            simulation, frames, result>>
      BY <2>2, QuietSound DEF Sound, arguments, simulation, result
  <2> QED
      BY <1>15, <2>1, <2>2 DEF LoadAgent
<1> QED
    BY <1>1, <1>2, <1>3, <1>4, <1>5, <1>6, <1>7, <1>8, <1>9, <1>10, <1>11, <1>12,
       <1>13, <1>14, <1>15

\* The instructions that change the world, if they get so far as to change it.
LEMMA PlaceSound ==
    ASSUME Sound, NEW placed, Good(world, placed.world, Strings), Place(placed)
    PROVE  Sound'
BY ActSound, RaiseSound DEF Place

LEMMA OnWorldSound ==
    ASSUME Sound, NEW w, Good(world, w, Strings), OnWorld(w)
    PROVE  Sound'
BY ActSound, RaiseSound DEF OnWorld

LEMMA QuerySound == ASSUME Sound, NEW v, Query(v) PROVE Sound'
BY ComputeSound, RaiseSound DEF Query

LEMMA ExecutesOperands ==
    ASSUME Sound, NEW ops, Executes(ops)
    PROVE  /\ instruction.a \in Int /\ instruction.b \in Int /\ instruction.c \in Int
           /\ KnownString => string \in Strings
           /\ instruction.opcode \in ops
<1>1. IsProgram(program) /\ ip \in Nat
    BY ProgramsAssumption DEF Sound
<1>2. ip < Len(program.code) /\ instruction.opcode \in ops
    BY DEF Executes, instruction
<1> QED
    BY <1>1, <1>2, Operands

LEMMA BuildingSound ==
    ASSUME Sound, CreateRobot \/ CreateTarget \/ CreateObstacle
    PROVE  Sound'
<1>. IsWorld(world, Strings) /\ Consistent(world)
    BY DEF Sound, SoundWorld
<1>1. CASE CreateRobot
  <2>1. /\ instruction.b \in Int /\ instruction.c \in Int
        /\ KnownString => string \in Strings
      BY <1>1, ExecutesOperands DEF CreateRobot
  <2>2. CASE ~KnownString
      BY <1>1, <2>2, RaiseSound DEF CreateRobot
  <2>3. CASE KnownString
    <3>1. Good(world, place_robot(world, string, instruction.b, instruction.c).world,
               Strings)
        BY <2>1, <2>3, PlaceRobotGood
    <3> QED
        BY <1>1, <2>3, <3>1, PlaceSound DEF CreateRobot
  <2> QED
      BY <2>2, <2>3
<1>2. CASE CreateTarget
  <2>1. /\ instruction.b \in Int /\ instruction.c \in Int
        /\ KnownString => string \in Strings
      BY <1>2, ExecutesOperands DEF CreateTarget
  <2>2. CASE ~KnownString
      BY <1>2, <2>2, RaiseSound DEF CreateTarget
  <2>3. CASE KnownString
    <3>1. Good(world, place_target(world, string, instruction.b, instruction.c).world,
               Strings)
        BY <2>1, <2>3, PlaceTargetGood
    <3> QED
        BY <1>2, <2>3, <3>1, PlaceSound DEF CreateTarget
  <2> QED
      BY <2>2, <2>3
<1>3. CASE CreateObstacle
  <2>1. instruction.a \in Int /\ instruction.b \in Int
      BY <1>3, ExecutesOperands DEF CreateObstacle
  <2>2. Good(world, place_obstacle(world, instruction.a, instruction.b).world, Strings)
      BY <2>1, PlaceObstacleGood
  <2> QED
      BY <1>3, <2>2, PlaceSound DEF CreateObstacle
<1> QED
    BY <1>1, <1>2, <1>3

LEMMA BehaviourSound ==
    ASSUME Sound,
           Move \/ MoveToward \/ Turn \/ DistanceTo \/ ObstacleAhead \/ Collision
    PROVE  Sound'
<1>. IsWorld(world, Strings) /\ Consistent(world)
    BY DEF Sound, SoundWorld
<1>1. CASE Move
  <2>1. instruction.opcode \in Moves
      BY <1>1, ExecutesOperands DEF Move
  <2>2. ASSUME NEW w,
               \/ w = move_up(world, current_robot).world
               \/ w = move_down(world, current_robot).world
               \/ w = move_left(world, current_robot).world
               \/ w = move_right(world, current_robot).world
               \/ w = move_forward(world, current_robot).world,
               OnWorld(w)
        PROVE  Sound'
      BY <2>2, MoveGood, OnWorldSound
  <2>3. \E w : /\ \/ w = move_up(world, current_robot).world
                  \/ w = move_down(world, current_robot).world
                  \/ w = move_left(world, current_robot).world
                  \/ w = move_right(world, current_robot).world
                  \/ w = move_forward(world, current_robot).world
               /\ OnWorld(w)
      BY <1>1, <2>1 DEF Move, Moves
  <2> QED
      BY <2>2, <2>3
<1>2. CASE MoveToward
    BY <1>2, MoveGood, OnWorldSound, RaiseSound DEF MoveToward
<1>3. CASE Turn
  <2>1. \E w : /\ \/ w = turn_robot_left(world, current_robot)
                  \/ w = turn_robot_right(world, current_robot)
               /\ OnWorld(w)
      BY <1>3 DEF Turn
  <2> QED
      BY <2>1, TurnGood, OnWorldSound
<1>4. CASE DistanceTo
    BY <1>4, QuerySound, RaiseSound DEF DistanceTo
<1>5. CASE ObstacleAhead
    BY <1>5, QuerySound DEF ObstacleAhead
<1>6. CASE Collision
    BY <1>6, QuerySound DEF Collision
<1> QED
    BY <1>1, <1>2, <1>3, <1>4, <1>5, <1>6

LEMMA CreateWorldSound == ASSUME Sound, CreateWorld PROVE Sound'
<1>1. instruction.a \in Int /\ instruction.b \in Int
    BY ExecutesOperands DEF CreateWorld
<1>2. CASE ~Fits(instruction.a, instruction.b)
    BY <1>2, DieSound DEF CreateWorld
<1>3. CASE Fits(instruction.a, instruction.b)
  <2>1. instruction.a \in Nat \ {0} /\ instruction.b \in Nat \ {0}
      BY <1>1, <1>3 DEF Fits
  <2>2. SoundWorld(NewWorld(instruction.a, instruction.b))
      BY <2>1, NewWorldGood DEF SoundWorld
  <2>3. /\ world' = NewWorld(instruction.a, instruction.b)
        /\ initial_world' = world' /\ created' = TRUE /\ ip' = ip + 1
        /\ UNCHANGED <<program, recording, recorded_initial, frames, status>>
      BY <1>3 DEF CreateWorld, arguments, result
  <2>4. SoundWorld(world') /\ SoundWorld(initial_world')
      BY <2>2, <2>3
  <2>5. SuccessHasSimulation' /\ ip' \in Nat
      BY <2>3 DEF Sound, SuccessHasSimulation
  <2> QED
      BY <2>3, <2>4, <2>5, StepSound DEF Recorded
<1> QED
    BY <1>2, <1>3

LEMMA InitialRecorded == record_initial_if_needed => Recorded
BY DEF record_initial_if_needed, Recorded

\* find_halt finds the first Halt, or the end of the code.
LEMMA FindHalt ==
    ASSUME IsProgram(program), NEW here \in Nat
    PROVE  LET halts == {j \in here .. Len(program.code) - 1 :
                            At(program, j).opcode = "Halt"}
           IN  /\ find_halt(here) \in Nat
               /\ halts = {} => find_halt(here) = Len(program.code)
               /\ halts # {} => /\ find_halt(here) \in halts
                                /\ \A k \in halts : find_halt(here) <= k
<1> DEFINE halts == {j \in here .. Len(program.code) - 1 :
                        At(program, j).opcode = "Halt"}
<1>1. Len(program.code) \in Nat
    BY DEF IsProgram
<1>2. halts \subseteq Nat
    BY <1>1
<1>3. find_halt(here) = IF halts = {} THEN Len(program.code)
                        ELSE CHOOSE j \in halts : \A k \in halts : j <= k
    BY DEF find_halt
<1> HIDE DEF halts
<1>4. CASE halts = {}
    BY <1>1, <1>3, <1>4 DEF halts
<1>5. CASE halts # {}
  <2>1. \E j \in halts : \A k \in halts : j <= k
      BY <1>2, <1>5, LeastIndex
  <2>2. find_halt(here) \in halts /\ \A k \in halts : find_halt(here) <= k
      BY <1>3, <1>5, <2>1
  <2> QED
      BY <1>2, <1>5, <2>2 DEF halts
<1> QED
    BY <1>4, <1>5

\* A step that records at most, and keeps the worlds but for the flags.
LEMMA TickSound ==
    ASSUME Sound, BeginTick \/ EndTick \/ Halt
    PROVE  Sound'
<1>. IsProgram(program) /\ ip \in Nat /\ SoundWorld(world) /\ SoundWorld(initial_world)
    BY ProgramsAssumption DEF Sound
<1>1. CASE BeginTick
  <2>1. UNCHANGED <<program, recording, created, initial_world, tick>>
      BY <1>1 DEF BeginTick, arguments
  <2>2. ip' \in Nat
    <3>1. find_halt(ip) \in Nat
        BY FindHalt
    <3>2. ip' \in {ip, ip + 1, find_halt(ip)}
        BY <1>1 DEF BeginTick
    <3> QED
        BY <3>1, <3>2
  <2>3. SoundWorld(clear_collision_flags(world))
      BY ClearFlagsGood DEF SoundWorld, Good
  <2>4. SoundWorld(world') /\ SoundWorld(initial_world')
      BY <1>1, <2>1, <2>3 DEF BeginTick
  <2>5. Recorded
      BY <1>1, InitialRecorded DEF BeginTick, Recorded
  <2>6. status' # "ok"
      BY <1>1 DEF BeginTick, Executes, result
  <2> QED
      BY <2>1, <2>2, <2>4, <2>5, <2>6, StepSound DEF SuccessHasSimulation
<1>2. CASE EndTick
  <2>1. UNCHANGED <<program, recording, created, initial_world, world,
                    recorded_initial, status>> /\ status # "ok"
      BY <1>2 DEF EndTick, Executes, arguments, result
  <2>2. ip' \in Nat
    <3>1. find_halt(ip + 1) \in Nat /\ find_halt(ip + 2) \in Nat
        BY FindHalt
    <3>2. ip' \in {ip + 1, find_halt(ip + 1), find_halt(ip + 2)}
        BY <1>2 DEF EndTick
    <3> QED
        BY <3>1, <3>2
  <2>3. Recorded
      BY <1>2, <2>1 DEF EndTick, Recorded
  <2> QED
      BY <2>1, <2>2, <2>3, StepSound DEF SuccessHasSimulation
<1>3. CASE Halt
  <2>1. UNCHANGED <<program, ip, recording, created, initial_world, world>>
      BY <1>3 DEF Halt, arguments, simulation
  <2>2. Recorded
      BY <1>3, InitialRecorded DEF Halt, Recorded
  <2>3. SuccessHasSimulation'
    <3>1. CASE created
      <4>1. record_initial_if_needed
          BY <1>3, <3>1 DEF Halt
      <4>2. recording => recorded_initial'
          BY <4>1, <3>1 DEF record_initial_if_needed
      <4>3. recorded_initial' => frames' # << >>
          BY <2>2, RecordSound
      <4> QED
          BY <2>1, <3>1, <4>2, <4>3 DEF SuccessHasSimulation
    <3>2. CASE ~created
        BY <1>3, <3>2 DEF Halt, SuccessHasSimulation
    <3> QED
        BY <3>1, <3>2
  <2> QED
      BY <2>1, <2>2, <2>3, StepSound
<1> QED
    BY <1>1, <1>2, <1>3

LEMMA NextSound == Sound /\ [Next]_vars => Sound'
<1> SUFFICES ASSUME Sound, [Next]_vars PROVE Sound'
    OBVIOUS
<1>1. CASE UNCHANGED vars
    BY <1>1, QuietSound DEF vars, arguments, simulation, result, Sound
<1>2. CASE Step
    BY <1>2, ComputingSound, CreateWorldSound, BuildingSound, BehaviourSound,
       TickSound DEF Step
<1>3. CASE Returned
    BY <1>1, <1>3 DEF Returned
<1> QED
    BY <1>1, <1>2, <1>3 DEF Next

LEMMA SoundAlways == Spec => []Sound
BY InitSound, NextSound, PTL DEF Spec

\* Whatever bytecode it is given, the machine never leaves a world, or a frame,
\* in which the grid and the list of robots disagree: no instruction, and no
\* failure of one, comes between the two updates of World.
THEOREM MachineKeepsWorldSound == Spec => []WorldSound
<1>1. Sound => WorldSound
    BY DEF Sound, SoundWorld, WorldSound
<1> QED
    BY <1>1, SoundAlways, PTL

\* run_program dereferences the simulation, and the CLI writes the log, only on
\* success: success means both are there, whatever the bytecode.
THEOREM SuccessMeansSimulation == Spec => []SuccessHasSimulation
<1>1. Sound => SuccessHasSimulation
    BY DEF Sound
<1> QED
    BY <1>1, SoundAlways, PTL

-----------------------------------------------------------------------------
(* Any bytecode: every variable has its type, and every int fits.           *)

\* A world whose cells an int can count is less wide and high than any int.
LEMMA FitsBound ==
    ASSUME NEW width \in Int, NEW height \in Int, Fits(width, height)
    PROVE  0 .. width + height - 2 \subseteq IntValues
<1>1. width >= 1 /\ height >= 1 /\ width * height < Modulus \div 2
    BY DEF Fits
<1>2. (width - 1) * (height - 1) >= 0
  <2>1. \A a, b \in Nat : a * b >= 0
      OBVIOUS
  <2>2. width - 1 \in Nat /\ height - 1 \in Nat
      BY <1>1
  <2> QED
      BY <2>1, <2>2
<1>3. (width - 1) * (height - 1) = width * height - width - height + 1
    OBVIOUS
<1>4. width * height \in Int /\ Modulus \div 2 \in Int
      /\ Modulus \div 2 <= (Modulus - 1) \div 2 + 1 /\ Modulus \div 2 >= 0
      /\ (Modulus - 1) \div 2 \in Int
    BY ModulusAssumption
<1>5. width + height - 2 < Modulus \div 2
    BY <1>1, <1>2, <1>3, <1>4
<1> QED
    BY <1>4, <1>5 DEF IntValues

LEMMA Values ==
    /\ \A n \in IntValues : Int32(n) \in Value
    /\ \A b \in BOOLEAN : Bool(b) \in Value
    /\ \A v \in Value : /\ v.kind = "int" => v.int \in IntValues
                        /\ v.kind = "bool" => v.bool \in BOOLEAN
BY DEF Value, Int32, Bool

\* What is on a stack that is high enough, and what is below it.
LEMMA Popped ==
    ASSUME NEW s \in Seq(Value), NEW n \in {1, 2}, Len(s) >= n
    PROVE  /\ s[Len(s)] \in Value /\ (n = 2 => s[Len(s) - 1] \in Value)
           /\ SubSeq(s, 1, Len(s) - n) \in Seq(Value)
           /\ Len(SubSeq(s, 1, Len(s) - n)) = Len(s) - n
<1>1. Len(s) \in Nat
    OBVIOUS
<1>2. Len(s) - n \in 0 .. Len(s)
    BY <1>1
<1>3. Len(s) \in 1 .. Len(s) /\ (n = 2 => Len(s) - 1 \in 1 .. Len(s))
    BY <1>1
<1>4. \A i \in 1 .. Len(s) : s[i] \in Value
    OBVIOUS
<1> QED
    BY <1>2, <1>3, <1>4

\* What PopError lets through.
LEMMA PopErrorNone ==
    ASSUME stack \in Seq(Value), NEW n \in {1, 2}, NEW kind, PopError(n, kind) = NoError
    PROVE  /\ Len(stack) >= n
           /\ Top(1) \in Value /\ (kind = "any" \/ Top(1).kind = kind)
           /\ n = 2 => Top(2) \in Value /\ (kind = "any" \/ Top(2).kind = kind)
           /\ \A v \in Value : Replaced(n, v) \in Seq(Value)
<1>1. Len(stack) \in Nat
    OBVIOUS
<1>2. ~(Len(stack) < 1) /\ (kind = "any" \/ Top(1).kind = kind)
    BY DEF PopError, NoError
<1>3. n = 2 => ~(Len(stack) < 2) /\ (kind = "any" \/ Top(2).kind = kind)
    BY DEF PopError, NoError
<1>4. Len(stack) >= n
    BY <1>1, <1>2, <1>3
<1>5. Top(1) = stack[Len(stack)] /\ Top(2) = stack[Len(stack) - 1]
    BY <1>1 DEF Top
<1>6. /\ stack[Len(stack)] \in Value /\ (n = 2 => stack[Len(stack) - 1] \in Value)
      /\ SubSeq(stack, 1, Len(stack) - n) \in Seq(Value)
    BY <1>4, Popped
<1>7. ASSUME NEW v \in Value PROVE Replaced(n, v) \in Seq(Value)
    BY <1>6 DEF Replaced
<1> QED
    BY <1>2, <1>3, <1>4, <1>5, <1>6, <1>7

VariablesTyped ==
    /\ DOMAIN variables \subseteq Strings
    /\ \A name \in DOMAIN variables : variables[name] \in Value

\* The grid of the world can be counted, and its targets are in it.
Measured == created => Fits(world.width, world.height) /\ TargetsInside(world)

\* Inductive, with Sound: TypeOK, and what makes a distance fit an int.
Typed == TypeOK /\ Measured

\* A step that neither counts nor records.
LEMMA StepTyped ==
    ASSUME Typed, Sound',
           UNCHANGED <<arguments, ticks_completed, tick, recorded_initial, frames>>,
           stack' \in Seq(Value), VariablesTyped',
           current_robot' \in Strings \cup {NoLabel}, created' \in BOOLEAN, Measured',
           status' \in {"running", "ok", "error", "aborted"}
    PROVE  Typed'
BY DEF Typed, TypeOK, VariablesTyped, Sound, SoundWorld, Strings, arguments

LEMMA QuietTyped ==
    ASSUME Typed, Sound',
           UNCHANGED <<arguments, variables, current_robot, ticks_completed,
                       recorded_initial, simulation, frames>>,
           stack' \in Seq(Value),
           status' \in {"running", "ok", "error", "aborted"}
    PROVE  Typed'
<1>1. VariablesTyped' /\ Measured' /\ current_robot' \in Strings \cup {NoLabel}
      /\ created' \in BOOLEAN
    BY DEF Typed, TypeOK, VariablesTyped, Measured, simulation, arguments, Strings
<1> QED
    BY <1>1, StepTyped DEF simulation

LEMMA RaiseTyped == ASSUME Typed, Sound', NEW m, Raise(m) PROVE Typed'
BY QuietTyped DEF Raise, Typed, TypeOK

LEMMA DieTyped == ASSUME Typed, Sound', Die PROVE Typed'
BY QuietTyped DEF Die, Typed, TypeOK

LEMMA ComputeTyped ==
    ASSUME Typed, Sound', NEW s \in Seq(Value), Compute(s)
    PROVE  Typed'
BY QuietTyped DEF Compute, Typed, TypeOK, result

LEMMA ActTyped ==
    ASSUME Typed, Sound', NEW w, Act(w), w.width = world.width, w.height = world.height,
           TargetsInside(world) => TargetsInside(w)
    PROVE  Typed'
<1>1. Measured'
    BY DEF Typed, Measured, Act
<1>2. VariablesTyped' /\ current_robot' \in Strings \cup {NoLabel} /\ created' \in BOOLEAN
      /\ stack' \in Seq(Value) /\ status' \in {"running", "ok", "error", "aborted"}
    BY DEF Typed, TypeOK, VariablesTyped, Act, arguments, Strings, result
<1> QED
    BY <1>1, <1>2, StepTyped DEF Act

LEMMA GoToTyped == ASSUME Typed, Sound', NEW t, GoTo(t) PROVE Typed'
<1>1. (\E m : Raise(m))
      \/ UNCHANGED <<arguments, stack, variables, current_robot, ticks_completed,
                     recorded_initial, simulation, frames, result>>
    BY DEF GoTo
<1> QED
    BY <1>1, RaiseTyped, QuietTyped DEF Typed, TypeOK, result

LEMMA StackTyped ==
    ASSUME Sound, Sound', Typed, PushConst \/ PushBool \/ LoadVar \/ StoreVar \/ Pop
    PROVE  Typed'
<1>. stack \in Seq(Value) /\ IsProgram(program)
    BY ProgramsAssumption DEF Typed, TypeOK, Sound
<1>1. \A v \in Value : Append(stack, v) \in Seq(Value)
    OBVIOUS
<1>2. stack # << >> => /\ Top(1) \in Value
                       /\ SubSeq(stack, 1, Len(stack) - 1) \in Seq(Value)
  <2>1. stack # << >> => Len(stack) >= 1
      OBVIOUS
  <2>2. Len(stack) \in Nat /\ Len(stack) - 1 + 1 = Len(stack)
      OBVIOUS
  <2> QED
      BY <2>1, <2>2, Popped DEF Top
<1>3. CASE PushConst
  <2>1. ASSUME instruction.a \in 0 .. Len(program.int_constants) - 1
        PROVE  Int32(Constant(program, instruction.a)) \in Value
    <3>1. instruction.a + 1 \in 1 .. Len(program.int_constants)
        BY <2>1 DEF IsProgram
    <3>2. program.int_constants[instruction.a + 1] \in IntValues
        BY <3>1, ElementOf DEF IsProgram
    <3> QED
        BY <3>2, Values DEF Constant
  <2> QED
      BY <1>1, <1>3, <2>1, ComputeTyped, RaiseTyped DEF PushConst
<1>4. CASE PushBool
  <2>1. (instruction.a # 0) \in BOOLEAN
      OBVIOUS
  <2>2. Bool(instruction.a # 0) \in Value
      BY <2>1, Values
  <2> QED
      BY <1>1, <1>4, <2>2, ComputeTyped DEF PushBool
<1>5. CASE LoadVar
  <2>1. string \in DOMAIN variables => variables[string] \in Value
      BY DEF Typed, TypeOK
  <2> QED
      BY <1>1, <1>5, <2>1, ComputeTyped, RaiseTyped DEF LoadVar
<1>6. CASE StoreVar
  <2>1. CASE \E m : Raise(m)
      BY <2>1, RaiseTyped
  <2>2. CASE /\ KnownString /\ stack # << >>
             /\ variables' = With(variables, string, Top(1))
             /\ stack' = SubSeq(stack, 1, Len(stack) - 1)
             /\ UNCHANGED <<arguments, current_robot, ticks_completed,
                            recorded_initial, simulation, frames, result>>
    <3>1. string \in Strings
        BY <1>6, ExecutesOperands, <2>2 DEF StoreVar
    <3>2. VariablesTyped'
        BY <1>2, <2>2, <3>1 DEF Typed, TypeOK, VariablesTyped, With, Strings, arguments
    <3>3. Measured' /\ current_robot' \in Strings \cup {NoLabel} /\ created' \in BOOLEAN
          /\ status' \in {"running", "ok", "error", "aborted"}
        BY <2>2 DEF Typed, TypeOK, Measured, simulation, result
    <3> QED
        BY <1>2, <2>2, <3>2, <3>3, StepTyped DEF simulation
  <2> QED
      BY <1>6, <2>1, <2>2 DEF StoreVar
<1>7. CASE Pop
    BY <1>2, <1>7, ComputeTyped DEF Pop
<1> QED
    BY <1>3, <1>4, <1>5, <1>6, <1>7

LEMMA OperatorTyped ==
    ASSUME Sound, Sound', Typed, Arithmetic \/ Comparison \/ Equality \/ Not \/ Neg
    PROVE  Typed'
<1>. stack \in Seq(Value)
    BY DEF Typed, TypeOK
<1>0. IntValues \subseteq Int
    BY DEF IntValues
<1>1. CASE Arithmetic
  <2>1. ASSUME PopError(2, "int") = NoError,
               ~(instruction.opcode = "Div" /\ Top(1).int = 0)
        PROVE  Replaced(2, Int32(Calculate(instruction.opcode, Top(2).int, Top(1).int)))
                   \in Seq(Value)
    <3>0. Top(1) \in Value /\ Top(1).kind = "int" /\ Top(2) \in Value /\ Top(2).kind = "int"
        BY <2>1, PopErrorNone
    <3>1. Top(1).int \in Int /\ Top(2).int \in Int
        BY <1>0, <3>0, Values
    <3>2. instruction.opcode \in ArithOps
        BY <1>1 DEF Arithmetic, Executes, instruction
    <3>3. Calculate(instruction.opcode, Top(2).int, Top(1).int) \in IntValues
        BY <2>1, <3>1, <3>2, CalculateFits
    <3> QED
        BY <2>1, <3>3, PopErrorNone, Values
  <2> QED
      BY <1>1, <2>1, ComputeTyped, RaiseTyped, DieTyped DEF Arithmetic
<1>2. CASE Comparison
  <2>1. ASSUME PopError(2, "int") = NoError
        PROVE  Replaced(2, Bool(Compare(instruction.opcode, Top(2).int, Top(1).int)))
                   \in Seq(Value)
    <3>1. instruction.opcode \in CompareOps
        BY <1>2 DEF Comparison, Executes, instruction
    <3>2. Compare(instruction.opcode, Top(2).int, Top(1).int) \in BOOLEAN
        BY <3>1, CompareTyped
    <3> QED
        BY <2>1, <3>2, PopErrorNone, Values
  <2> QED
      BY <1>2, <2>1, ComputeTyped, RaiseTyped DEF Comparison
<1>3. CASE Equality
  <2>1. (Equal(Top(2), Top(1)) = (instruction.opcode = "Eq")) \in BOOLEAN
      OBVIOUS
  <2>2. ASSUME PopError(2, "any") = NoError
        PROVE  Replaced(2, Bool(Equal(Top(2), Top(1)) = (instruction.opcode = "Eq")))
                   \in Seq(Value)
      BY <2>1, <2>2, PopErrorNone, Values
  <2> QED
      BY <1>3, <2>2, ComputeTyped, RaiseTyped DEF Equality
<1>4. CASE Not
  <2>1. (~Top(1).bool) \in BOOLEAN
      OBVIOUS
  <2>2. ASSUME PopError(1, "bool") = NoError
        PROVE  Replaced(1, Bool(~Top(1).bool)) \in Seq(Value)
      BY <2>1, <2>2, PopErrorNone, Values
  <2> QED
      BY <1>4, <2>2, ComputeTyped, RaiseTyped DEF Not
<1>5. CASE Neg
  <2>1. ASSUME PopError(1, "int") = NoError
        PROVE  Replaced(1, Int32(Wrap(-Top(1).int))) \in Seq(Value)
    <3>0. Top(1) \in Value /\ Top(1).kind = "int"
        BY <2>1, PopErrorNone
    <3>1. Top(1).int \in Int
        BY <1>0, <3>0, Values
    <3>2. Wrap(-Top(1).int) \in IntValues
        BY <3>1, WrapFits
    <3> QED
        BY <2>1, <3>2, PopErrorNone, Values
  <2> QED
      BY <1>5, <2>1, ComputeTyped, RaiseTyped DEF Neg
<1> QED
    BY <1>1, <1>2, <1>3, <1>4, <1>5

LEMMA ControlTyped ==
    ASSUME Sound, Sound', Typed, Jump \/ JumpIfFalse \/ Stop \/ NoHalt \/ LoadAgent
    PROVE  Typed'
<1>. stack \in Seq(Value)
    BY DEF Typed, TypeOK
<1>1. CASE Jump
    BY <1>1, GoToTyped DEF Jump
<1>2. CASE JumpIfFalse
  <2>1. ASSUME PopError(1, "bool") = NoError
        PROVE  SubSeq(stack, 1, Len(stack) - 1) \in Seq(Value)
      BY <2>1, PopErrorNone, Popped
  <2>2. \/ \E m : Raise(m)
        \/ /\ PopError(1, "bool") = NoError
           /\ stack' = SubSeq(stack, 1, Len(stack) - 1)
           /\ UNCHANGED <<arguments, variables, current_robot, ticks_completed,
                          recorded_initial, simulation, frames, result>>
      BY <1>2 DEF JumpIfFalse, Compute
  <2> QED
      BY <2>1, <2>2, RaiseTyped, QuietTyped DEF Typed, TypeOK, result
<1>3. CASE Stop
    BY <1>3, GoToTyped, RaiseTyped DEF Stop
<1>4. CASE NoHalt
    BY <1>4, RaiseTyped DEF NoHalt
<1>5. CASE LoadAgent
  <2>1. CASE \E m : Raise(m)
      BY <2>1, RaiseTyped
  <2>2. CASE /\ KnownString /\ current_robot' = string
             /\ variables' = [name \in {} |-> 0]
             /\ UNCHANGED <<arguments, stack, ticks_completed, recorded_initial,
                            simulation, frames, result>>
    <3>1. string \in Strings
        BY <1>5, <2>2, ExecutesOperands DEF LoadAgent
    <3>2. VariablesTyped' /\ current_robot' \in Strings \cup {NoLabel}
        BY <2>2, <3>1 DEF VariablesTyped
    <3>3. Measured' /\ created' \in BOOLEAN /\ stack' \in Seq(Value)
          /\ status' \in {"running", "ok", "error", "aborted"}
        BY <2>2 DEF Typed, TypeOK, Measured, simulation, result
    <3>4. Strings' = Strings
        BY <2>2 DEF Strings, arguments
    <3> QED
        BY <2>2, <3>2, <3>3, <3>4, StepTyped DEF simulation
  <2> QED
      BY <1>5, <2>1, <2>2 DEF LoadAgent
<1> QED
    BY <1>1, <1>2, <1>3, <1>4, <1>5

\* An operation that keeps the size of the world and its targets.
LEMMA OnWorldTyped ==
    ASSUME Typed, Sound', NEW w, OnWorld(w), w.width = world.width,
           w.height = world.height, w.targets = world.targets
    PROVE  Typed'
BY SameTargetsInside, ActTyped, RaiseTyped DEF OnWorld

LEMMA PlaceTyped ==
    ASSUME Typed, Sound', NEW placed, Place(placed),
           placed.world.width = world.width, placed.world.height = world.height,
           TargetsInside(world) => TargetsInside(placed.world)
    PROVE  Typed'
BY ActTyped, RaiseTyped DEF Place

LEMMA QueryTyped ==
    ASSUME Typed, Sound', NEW v, created => v \in Value, Query(v)
    PROVE  Typed'
<1>1. stack \in Seq(Value)
    BY DEF Typed, TypeOK
<1>2. created => Append(stack, v) \in Seq(Value)
    BY <1>1
<1> QED
    BY <1>2, ComputeTyped, RaiseTyped DEF Query

LEMMA BuildingTyped ==
    ASSUME Sound, Sound', Typed, CreateWorld \/ CreateRobot \/ CreateTarget \/ CreateObstacle
    PROVE  Typed'
<1>. IsWorld(world, Strings) /\ Consistent(world)
    BY DEF Sound, SoundWorld
<1>0. ASSUME NEW op, Executes({op})
      PROVE  /\ instruction.a \in Int /\ instruction.b \in Int /\ instruction.c \in Int
             /\ KnownString => string \in Strings
    BY <1>0, ExecutesOperands
<1>1. CASE CreateWorld
  <2>1. CASE Die
      BY <2>1, DieTyped
  <2>2. CASE Fits(instruction.a, instruction.b)
    <3> DEFINE w == NewWorld(instruction.a, instruction.b)
    <3>1. instruction.a \in Int /\ instruction.b \in Int
        BY <1>0, <1>1 DEF CreateWorld
    <3>2. /\ created' = TRUE /\ world' = w /\ tick' = 0
          /\ UNCHANGED <<arguments, stack, variables, current_robot, ticks_completed,
                         recorded_initial, frames, result>>
        BY <1>1, <2>2 DEF CreateWorld
    <3>3. w.width = instruction.a /\ w.height = instruction.b /\ TargetsInside(w)
        BY DEF NewWorld, TargetsInside
    <3> HIDE DEF w
    <3>4. Measured'
        BY <2>2, <3>2, <3>3 DEF Measured
    <3> QED
        BY <3>2, <3>4 DEF Typed, TypeOK, Sound, SoundWorld, arguments, Strings, result
  <2> QED
      BY <1>1, <2>1, <2>2 DEF CreateWorld
<1>2. CASE CreateRobot
  <2>1. CASE ~KnownString
      BY <1>2, <2>1, RaiseTyped DEF CreateRobot
  <2>2. CASE KnownString
    <3>1. string \in Strings /\ instruction.b \in Int /\ instruction.c \in Int
        BY <1>0, <1>2, <2>2 DEF CreateRobot
    <3> DEFINE placed == place_robot(world, string, instruction.b, instruction.c)
    <3>2. /\ placed.world.width = world.width /\ placed.world.height = world.height
          /\ TargetsInside(world) => TargetsInside(placed.world)
        BY <3>1, PlaceRobotGood, PlacementTargets DEF Good
    <3>3. Place(placed)
        BY <1>2, <2>2 DEF CreateRobot
    <3> HIDE DEF placed
    <3> QED
        BY <3>2, <3>3, PlaceTyped
  <2> QED
      BY <2>1, <2>2
<1>3. CASE CreateTarget
  <2>1. CASE ~KnownString
      BY <1>3, <2>1, RaiseTyped DEF CreateTarget
  <2>2. CASE KnownString
    <3>1. string \in Strings /\ instruction.b \in Int /\ instruction.c \in Int
        BY <1>0, <1>3, <2>2 DEF CreateTarget
    <3> DEFINE placed == place_target(world, string, instruction.b, instruction.c)
    <3>2. /\ placed.world.width = world.width /\ placed.world.height = world.height
          /\ TargetsInside(world) => TargetsInside(placed.world)
        BY <3>1, PlaceTargetGood, PlacementTargets DEF Good
    <3>3. Place(placed)
        BY <1>3, <2>2 DEF CreateTarget
    <3> HIDE DEF placed
    <3> QED
        BY <3>2, <3>3, PlaceTyped
  <2> QED
      BY <2>1, <2>2
<1>4. CASE CreateObstacle
  <2>1. instruction.a \in Int /\ instruction.b \in Int
      BY <1>0, <1>4 DEF CreateObstacle
  <2> DEFINE placed == place_obstacle(world, instruction.a, instruction.b)
  <2>2. /\ placed.world.width = world.width /\ placed.world.height = world.height
        /\ TargetsInside(world) => TargetsInside(placed.world)
      BY <2>1, PlaceObstacleGood, PlacementTargets DEF Good
  <2>3. Place(placed)
      BY <1>4 DEF CreateObstacle
  <2> HIDE DEF placed
  <2> QED
      BY <2>2, <2>3, PlaceTyped
<1> QED
    BY <1>1, <1>2, <1>3, <1>4

\* What a behaviour's instruction puts in the place of the world.
LEMMA WorldKept ==
    ASSUME Sound
    PROVE  /\ \A w : \/ w = move_up(world, current_robot).world
                     \/ w = move_down(world, current_robot).world
                     \/ w = move_left(world, current_robot).world
                     \/ w = move_right(world, current_robot).world
                     \/ w = move_forward(world, current_robot).world
                     \/ w = turn_robot_left(world, current_robot)
                     \/ w = turn_robot_right(world, current_robot)
                     \/ \E t : w = move_toward(world, current_robot, t).world
                  => /\ w.width = world.width /\ w.height = world.height
                     /\ w.targets = world.targets
<1>. IsWorld(world, Strings) /\ Consistent(world)
    BY DEF Sound, SoundWorld
<1>1. \A w : (\E r : Requested(world, current_robot, r) /\ w = r.world)
             => w.targets = world.targets
    BY DEF Requested, Effect
<1>2. Failed(world).world = world
    BY DEF Failed
<1>3. \A r \in {move_up(world, current_robot), move_down(world, current_robot),
                move_left(world, current_robot), move_right(world, current_robot),
                move_forward(world, current_robot)} : r.world.targets = world.targets
    BY <1>1, <1>2, MoveEffect
<1>4. \A t : move_toward(world, current_robot, t).world.targets = world.targets
    BY <1>1, <1>2, MoveEffect
<1>5. \A w \in {turn_robot_left(world, current_robot), turn_robot_right(world, current_robot)} :
          /\ w.width = world.width /\ w.height = world.height
          /\ w.targets = world.targets
    BY TurnEffect DEF SamePlaces
<1>6. /\ Good(world, move_up(world, current_robot).world, Strings)
      /\ Good(world, move_down(world, current_robot).world, Strings)
      /\ Good(world, move_left(world, current_robot).world, Strings)
      /\ Good(world, move_right(world, current_robot).world, Strings)
      /\ Good(world, move_forward(world, current_robot).world, Strings)
      /\ \A t : Good(world, move_toward(world, current_robot, t).world, Strings)
    BY MoveGood
<1> QED
    BY <1>3, <1>4, <1>5, <1>6 DEF Good

LEMMA BehaviourTyped ==
    ASSUME Sound, Sound', Typed,
           Move \/ MoveToward \/ Turn \/ DistanceTo \/ ObstacleAhead \/ Collision
    PROVE  Typed'
<1>. IsWorld(world, Strings) /\ Consistent(world)
    BY DEF Sound, SoundWorld
<1>1. CASE Move
  <2>1. instruction.opcode \in Moves
      BY <1>1, ExecutesOperands DEF Move
  <2>2. \E w : /\ \/ w = move_up(world, current_robot).world
                  \/ w = move_down(world, current_robot).world
                  \/ w = move_left(world, current_robot).world
                  \/ w = move_right(world, current_robot).world
                  \/ w = move_forward(world, current_robot).world
               /\ OnWorld(w)
      BY <1>1, <2>1 DEF Move, Moves
  <2> QED
      BY <2>2, WorldKept, OnWorldTyped
<1>2. CASE MoveToward
    BY <1>2, WorldKept, OnWorldTyped, RaiseTyped DEF MoveToward
<1>3. CASE Turn
  <2>1. \E w : /\ \/ w = turn_robot_left(world, current_robot)
                  \/ w = turn_robot_right(world, current_robot)
               /\ OnWorld(w)
      BY <1>3 DEF Turn
  <2> QED
      BY <2>1, WorldKept, OnWorldTyped
<1>4. CASE DistanceTo
  <2> DEFINE d == distance_to(world, current_robot, string)
  <2>1. created => d \in IntValues
    <3>1. world.width \in Int /\ world.height \in Int
        BY DEF IsWorld
    <3>2. created => Fits(world.width, world.height) /\ TargetsInside(world)
        BY DEF Typed, Measured
    <3> QED
        BY <3>1, <3>2, FitsBound, DistanceBound
  <2>2. created => Int32(d) \in Value
      BY <2>1, Values
  <2> QED
      BY <1>4, <2>2, QueryTyped, RaiseTyped DEF DistanceTo
<1>5. CASE ObstacleAhead
  <2>1. obstacle_ahead(world, current_robot) \in BOOLEAN
      BY DEF obstacle_ahead
  <2>2. Bool(obstacle_ahead(world, current_robot)) \in Value
      BY <2>1, Values
  <2> QED
      BY <1>5, <2>2, QueryTyped DEF ObstacleAhead
<1>6. CASE Collision
  <2>1. collision(world, current_robot) \in BOOLEAN
      BY DEF collision
  <2>2. Bool(collision(world, current_robot)) \in Value
      BY <2>1, Values
  <2> QED
      BY <1>6, <2>2, QueryTyped DEF Collision
<1> QED
    BY <1>1, <1>2, <1>3, <1>4, <1>5, <1>6

\* The numbers of the frames after a step that records.
LEMMA RecordTyped ==
    ASSUME Sound, Typed, Recorded, tick' \in Nat
    PROVE  \A i \in DOMAIN frames' : frames'[i].tick \in Nat
<1>1. \A i \in DOMAIN frames : frames[i].tick \in Nat
    BY DEF Typed, TypeOK
<1>2. ASSUME NEW n \in Nat, frames' = Append(frames, Frame(n))
      PROVE  \A i \in DOMAIN frames' : frames'[i].tick \in Nat
  <2>1. /\ DOMAIN frames = 1 .. Len(frames) /\ Len(frames) \in Nat
        /\ DOMAIN frames' = 1 .. Len(frames) + 1
        /\ \A i \in 1 .. Len(frames) : frames'[i] = frames[i]
        /\ frames'[Len(frames) + 1] = Frame(n)
      BY <1>2, AppendSeq DEF Sound
  <2>2. Frame(n).tick = n
      BY DEF Frame
  <2> QED
      BY <1>1, <2>1, <2>2
<1> QED
    BY <1>1, <1>2 DEF Recorded

LEMMA TickTyped ==
    ASSUME Sound, Sound', Typed, BeginTick \/ EndTick \/ Halt
    PROVE  Typed'
<1>. IsWorld(world, Strings) /\ Consistent(world)
    BY DEF Sound, SoundWorld
<1>0. tick \in Nat /\ ticks_completed \in Nat /\ status \in {"running", "ok", "error", "aborted"}
    BY DEF Typed, TypeOK
<1>1. /\ UNCHANGED <<arguments, stack, variables, current_robot, created, initial_world>>
      /\ tick' \in Nat /\ ticks_completed' \in Nat
      /\ status' \in {"running", "ok", "error", "aborted"}
  <2>1. CASE BeginTick
      BY <1>0, <2>1 DEF BeginTick, result
  <2>2. CASE EndTick
      BY <1>0, <2>2 DEF EndTick, result
  <2>3. CASE Halt
      BY <1>0, <2>3 DEF Halt, simulation
  <2> QED
      BY <2>1, <2>2, <2>3
<1>2. world' = world \/ world' = clear_collision_flags(world)
    BY DEF BeginTick, EndTick, Halt, simulation
<1>3. Measured'
  <2>1. SamePlaces(world, clear_collision_flags(world))
      BY ClearEffect
  <2>2. /\ world'.width = world.width /\ world'.height = world.height
        /\ world'.targets = world.targets
      BY <1>2, <2>1 DEF SamePlaces
  <2> QED
      BY <1>1, <2>2, SameTargetsInside DEF Typed, Measured
<1>4. Recorded /\ recorded_initial' \in BOOLEAN
  <2>1. CASE EndTick
      BY <2>1 DEF EndTick, Recorded, Typed, TypeOK
  <2>2. CASE record_initial_if_needed
      BY <2>2, InitialRecorded DEF record_initial_if_needed, Typed, TypeOK
  <2>3. CASE UNCHANGED <<recorded_initial, frames>>
      BY <2>3 DEF Recorded, Typed, TypeOK
  <2> QED
      BY <2>1, <2>2, <2>3 DEF BeginTick, Halt
<1>5. \A i \in DOMAIN frames' : frames'[i].tick \in Nat
    BY <1>1, <1>4, RecordTyped
<1> QED
    BY <1>1, <1>3, <1>4, <1>5
    DEF Typed, TypeOK, Sound, SoundWorld, arguments, Strings

LEMMA InitTyped == Init => Typed
<1> SUFFICES ASSUME Init PROVE Typed
    OBVIOUS
<1>1. Sound
    BY InitSound
<1>2. /\ max_ticks \in TickCounts /\ recording \in Recordings
      /\ stack = << >> /\ DOMAIN variables = {} /\ current_robot = NoLabel
      /\ ticks_completed = 0 /\ tick = 0 /\ recorded_initial = FALSE /\ created = FALSE
      /\ frames = << >> /\ status \in {"running", "error"}
    BY DEF Init, Start, Ready
<1>3. stack \in Seq(Value) /\ DOMAIN frames = {}
    BY <1>2
<1> QED
    BY <1>1, <1>2, <1>3 DEF Typed, TypeOK, Measured, Sound, SoundWorld

LEMMA NextTyped == Sound /\ Typed /\ [Next]_vars => Typed'
<1> SUFFICES ASSUME Sound, Typed, [Next]_vars PROVE Typed'
    OBVIOUS
<1>0. Sound'
    BY NextSound
<1>1. CASE UNCHANGED vars
    BY <1>0, <1>1, QuietTyped DEF vars, result, Typed, TypeOK
<1>2. CASE Step
    BY <1>0, <1>2, StackTyped, OperatorTyped, ControlTyped, BuildingTyped,
       BehaviourTyped, TickTyped DEF Step
<1>3. CASE Returned
    BY <1>1, <1>3 DEF Returned
<1> QED
    BY <1>1, <1>2, <1>3 DEF Next

LEMMA TypedAlways == Spec => []Typed
<1>1. Init => Sound /\ Typed
    BY InitSound, InitTyped
<1>2. (Sound /\ Typed) /\ [Next]_vars => (Sound /\ Typed)'
    BY NextSound, NextTyped
<1> QED
    BY <1>1, <1>2, PTL DEF Spec

\* Whatever the bytecode, what the machine keeps on its stack and in its variables
\* fits an int: results wrap around, and no distance in a world that has a grid is
\* too large.
THEOREM MachineIsTyped == Spec => []TypeOK
<1>1. Typed => TypeOK
    BY DEF Typed
<1> QED
    BY <1>1, TypedAlways, PTL
=============================================================================
