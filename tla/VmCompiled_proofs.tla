--------------------------- MODULE VmCompiled_proofs ---------------------------
(***************************************************************************)
(* Theorems about the machine on the bytecode that the toolchain emits:    *)
(* well-formed, balanced and placeable code.  It does exactly the ticks it *)
(* is asked for, its frames are numbered without a gap, its stack is empty *)
(* between two statements, and nothing fails on the machine's own account. *)
(* The invariants say where in the code the instruction pointer is, what   *)
(* each place implies for the ticks left to do, how high the stack is      *)
(* there, and what has been built when it is among the placements.         *)
(***************************************************************************)
EXTENDS VmClient, Vm_proofs

last == Len(program.code) - 1
first == LoopStart(program)
OpAt(i) == At(program, i).opcode

\* What the place of a running machine in its code implies.
Where ==
    /\ max_ticks >= 0
    /\ ip \in 0 .. last
    /\ ip = 0 => tick = 0 /\ ~created
    /\ ip > 0 => created
    /\ ip \in first + 1 .. last => (recording => recorded_initial)
    /\ ip \in first + 1 .. last - 1 => tick < max_ticks
    /\ ip = last => tick = max_ticks

\* The counts and the numbers of the frames.
Counts ==
    /\ max_ticks \in Int /\ recording \in BOOLEAN /\ recorded_initial \in BOOLEAN
    /\ tick \in Nat /\ ticks_completed = tick
    /\ max_ticks >= 0 => tick <= max_ticks
    /\ IsSeq(frames) /\ \A i \in DOMAIN frames : frames[i].tick = i - 1
    /\ recorded_initial => recording /\ Len(frames) = tick + 1
    /\ ~recorded_initial => frames = << >> /\ (recording => tick = 0)

\* Inductive, of well-formed code.
Ticking ==
    WellFormed(program) =>
        /\ Counts
        /\ status = "running" => Where
        /\ status = "ok" => tick = max_ticks

-----------------------------------------------------------------------------
(* The shape of the code.                                                   *)

Loop == {"BeginTick", "EndTick", "Halt", "CreateWorld"}

\* The instruction at each place.
LEMMA Shape ==
    ASSUME IsProgram(program), WellFormed(program)
    PROVE  /\ last \in Nat /\ first \in Nat /\ first >= 1 /\ first <= last - 3
           /\ Len(program.code) = last + 1
           /\ OpAt(0) = "CreateWorld" /\ At(program, 0).a > 0 /\ At(program, 0).b > 0
           /\ \A i \in 1 .. first - 1 : OpAt(i) \in Placements
           /\ OpAt(first) = "BeginTick"
           /\ \A i \in first + 1 .. last - 3 : OpAt(i) \in BodyOpcodes
           /\ OpAt(last - 2) = "EndTick" /\ OpAt(last - 1) = "Jump"
           /\ At(program, last - 1).a = first /\ OpAt(last) = "Halt"
<1>1. Len(program.code) \in Nat
    BY DEF IsProgram
<1>2. /\ last >= 4 /\ first \in 1 .. last - 3
    BY DEF WellFormed, last, first
<1>3. last \in Int /\ Len(program.code) = last + 1
    BY <1>1 DEF last
<1>4. last \in Nat /\ first \in Nat /\ first >= 1 /\ first <= last - 3
    BY <1>2, <1>3
<1>5. /\ OpAt(0) = "CreateWorld" /\ At(program, 0).a > 0 /\ At(program, 0).b > 0
      /\ OpAt(first) = "BeginTick"
      /\ OpAt(last - 2) = "EndTick" /\ OpAt(last - 1) = "Jump"
      /\ At(program, last - 1).a = first /\ OpAt(last) = "Halt"
    BY DEF WellFormed, OpAt, last, first
<1>6. \A i \in 1 .. first - 1 : OpAt(i) \in Placements
    BY DEF WellFormed, OpAt, last, first
<1>7. \A i \in first + 1 .. last - 3 : OpAt(i) \in BodyOpcodes
    BY DEF WellFormed, OpAt, last, first
<1> QED
    BY <1>3, <1>4, <1>5, <1>6, <1>7

\* Where the jumps of the behaviours go.
LEMMA BodyJumps ==
    ASSUME WellFormed(program), NEW i \in first + 1 .. last - 3
    PROVE  /\ OpAt(i) \in {"Jump", "JumpIfFalse"} =>
                 At(program, i).a \in i + 1 .. last - 2
           /\ OpAt(i) = "Stop" => i + 1 <= last - 3 /\ OpAt(i + 1) = "Jump"
BY DEF WellFormed, OpAt, last, first

\* Each instruction of the loop stands in one place only.
LEMMA Places ==
    ASSUME IsProgram(program), WellFormed(program), NEW i \in 0 .. last
    PROVE  /\ OpAt(i) = "CreateWorld" <=> i = 0
           /\ OpAt(i) = "BeginTick" <=> i = first
           /\ OpAt(i) = "EndTick" <=> i = last - 2
           /\ OpAt(i) = "Halt" <=> i = last
           /\ i \in 1 .. first - 1 => OpAt(i) \in Placements
           /\ i \in first + 1 .. last - 3 => OpAt(i) \in BodyOpcodes
<1>1. /\ last \in Nat /\ first \in Nat /\ first >= 1 /\ first <= last - 3
    BY Shape
<1>2. \/ i = 0 \/ i \in 1 .. first - 1 \/ i = first
      \/ i \in first + 1 .. last - 3
      \/ i = last - 2 \/ i = last - 1 \/ i = last
    BY <1>1
<1>3. \A op \in Placements \cup BodyOpcodes : op \notin Loop
    BY DEF Placements, BodyOpcodes, Moves, Turns, Loop
<1>4. CASE i = 0
    BY <1>1, <1>4, Shape
<1>5. CASE i \in 1 .. first - 1
  <2>1. OpAt(i) \in Placements
      BY <1>5, Shape
  <2>2. OpAt(i) \notin Loop
      BY <2>1, <1>3
  <2> QED
      BY <2>1, <2>2, <1>1, <1>5 DEF Loop
<1>6. CASE i = first
    BY <1>1, <1>6, Shape
<1>7. CASE i \in first + 1 .. last - 3
  <2>1. OpAt(i) \in BodyOpcodes
      BY <1>7, Shape
  <2>2. OpAt(i) \notin Loop
      BY <2>1, <1>3
  <2> QED
      BY <2>1, <2>2, <1>1, <1>7 DEF Loop
<1>8. CASE i = last - 2
    BY <1>1, <1>8, Shape
<1>9. CASE i = last - 1
    BY <1>1, <1>9, Shape
<1>10. CASE i = last
    BY <1>1, <1>10, Shape
<1> QED
    BY <1>2, <1>4, <1>5, <1>6, <1>7, <1>8, <1>9, <1>10

\* find_halt always finds the last instruction.
LEMMA HaltIsLast ==
    ASSUME IsProgram(program), WellFormed(program), NEW here \in 0 .. last
    PROVE  find_halt(here) = last
<1> DEFINE halts == {j \in here .. Len(program.code) - 1 :
                        At(program, j).opcode = "Halt"}
<1>1. last \in Nat /\ here \in Nat
    BY Shape
<1>2. last \in halts
    BY <1>1, Shape DEF last, OpAt
<1>3. \A j \in halts : j = last
  <2> SUFFICES ASSUME NEW j \in halts PROVE j = last
      OBVIOUS
  <2>1. j \in 0 .. last /\ OpAt(j) = "Halt"
      BY <1>1 DEF last, OpAt
  <2> QED
      BY <2>1, Places
<1> HIDE DEF halts
<1>4. find_halt(here) \in halts
    BY <1>1, <1>2, FindHalt DEF halts
<1> QED
    BY <1>3, <1>4

-----------------------------------------------------------------------------
(* The instructions that neither count nor record.                          *)

Kept == UNCHANGED <<program, max_ticks, recording, ticks_completed,
                    recorded_initial, created, tick, frames>>

\* Where the machine goes from an instruction that does not fail.
Advances ==
    /\ OpAt(ip) \notin Loop
    /\ status' = status
    /\ IF OpAt(ip) = "Jump" THEN ip' = At(program, ip).a
       ELSE IF OpAt(ip) = "Stop" THEN ip' = At(program, ip + 1).a
       ELSE \/ ip' = ip + 1
            \/ OpAt(ip) = "JumpIfFalse" /\ ip' = At(program, ip).a

Ends == status' \in {"error", "aborted"}

Plain == Kept /\ (Advances \/ Ends)

LEMMA RaiseEnds == ASSUME NEW m, Raise(m) PROVE Kept /\ Ends
BY DEF Raise, Kept, Ends, arguments, simulation

LEMMA DieEnds == ASSUME Die PROVE Kept /\ Ends
BY DEF Die, Kept, Ends, arguments, simulation

\* An instruction that is none of the loop's or of the jumps' goes on.
Straight == OpAt(ip) \notin Loop \cup {"Jump", "Stop"}

LEMMA ComputePlain == ASSUME Straight, NEW s, Compute(s) PROVE Plain
BY DEF Straight, Compute, Plain, Kept, Advances, arguments, simulation, result

LEMMA ActPlain == ASSUME Straight, NEW w, Act(w) PROVE Plain
BY DEF Straight, Act, Plain, Kept, Advances, arguments, result

LEMMA EndsPlain == ASSUME Kept, Ends PROVE Plain
BY DEF Plain

LEMMA StackPlain ==
    ASSUME PushConst \/ PushBool \/ LoadVar \/ StoreVar \/ Pop
    PROVE  Plain
<1>1. CASE PushConst
  <2>1. Straight
      BY <1>1 DEF PushConst, Executes, Straight, Loop, OpAt
  <2> QED
      BY <1>1, <2>1, ComputePlain, RaiseEnds, EndsPlain DEF PushConst
<1>2. CASE PushBool
  <2>1. Straight
      BY <1>2 DEF PushBool, Executes, Straight, Loop, OpAt
  <2> QED
      BY <1>2, <2>1, ComputePlain DEF PushBool
<1>3. CASE LoadVar
  <2>1. Straight
      BY <1>3 DEF LoadVar, Executes, Straight, Loop, OpAt
  <2> QED
      BY <1>3, <2>1, ComputePlain, RaiseEnds, EndsPlain DEF LoadVar
<1>4. CASE StoreVar
  <2>1. Straight
      BY <1>4 DEF StoreVar, Executes, Straight, Loop, OpAt
  <2>2. \/ \E m : Raise(m)
        \/ ip' = ip + 1 /\ Kept /\ status' = status
      BY <1>4 DEF StoreVar, Kept, arguments, simulation, result
  <2> QED
      BY <2>1, <2>2, RaiseEnds, EndsPlain DEF Plain, Advances, Straight
<1>5. CASE Pop
  <2>1. Straight
      BY <1>5 DEF Pop, Executes, Straight, Loop, OpAt
  <2> QED
      BY <1>5, <2>1, ComputePlain DEF Pop
<1> QED
    BY <1>1, <1>2, <1>3, <1>4, <1>5

LEMMA OperatorPlain ==
    ASSUME Arithmetic \/ Comparison \/ Equality \/ Not \/ Neg
    PROVE  Plain
<1>1. CASE Arithmetic
  <2>1. Straight
      BY <1>1 DEF Arithmetic, ArithOps, Executes, Straight, Loop, OpAt
  <2>2. (\E m : Raise(m)) \/ Die \/ (\E s : Compute(s))
      BY <1>1 DEF Arithmetic
  <2> QED
      BY <2>1, <2>2, ComputePlain, RaiseEnds, DieEnds, EndsPlain
<1>2. CASE Comparison
  <2>1. Straight
      BY <1>2 DEF Comparison, CompareOps, Executes, Straight, Loop, OpAt
  <2>2. (\E m : Raise(m)) \/ (\E s : Compute(s))
      BY <1>2 DEF Comparison
  <2> QED
      BY <2>1, <2>2, ComputePlain, RaiseEnds, EndsPlain
<1>3. CASE Equality
  <2>1. Straight
      BY <1>3 DEF Equality, EqualityOps, Executes, Straight, Loop, OpAt
  <2>2. (\E m : Raise(m)) \/ (\E s : Compute(s))
      BY <1>3 DEF Equality
  <2> QED
      BY <2>1, <2>2, ComputePlain, RaiseEnds, EndsPlain
<1>4. CASE Not
  <2>1. Straight
      BY <1>4 DEF Not, Executes, Straight, Loop, OpAt
  <2>2. (\E m : Raise(m)) \/ (\E s : Compute(s))
      BY <1>4 DEF Not
  <2> QED
      BY <2>1, <2>2, ComputePlain, RaiseEnds, EndsPlain
<1>5. CASE Neg
  <2>1. Straight
      BY <1>5 DEF Neg, Executes, Straight, Loop, OpAt
  <2>2. (\E m : Raise(m)) \/ (\E s : Compute(s))
      BY <1>5 DEF Neg
  <2> QED
      BY <2>1, <2>2, ComputePlain, RaiseEnds, EndsPlain
<1> QED
    BY <1>1, <1>2, <1>3, <1>4, <1>5

LEMMA GoToPlain ==
    ASSUME NEW t, GoTo(t)
    PROVE  Kept /\ (Ends \/ (ip' = t /\ status' = status))
<1>1. (\E m : Raise(m)) \/ (ip' = t /\ Kept /\ status' = status)
    BY DEF GoTo, Kept, arguments, simulation, result
<1> QED
    BY <1>1, RaiseEnds

LEMMA JumpPlain ==
    ASSUME Jump \/ JumpIfFalse \/ Stop \/ NoHalt
    PROVE  Plain
<1>1. CASE Jump
  <2>1. OpAt(ip) = "Jump" /\ GoTo(At(program, ip).a)
      BY <1>1 DEF Jump, Executes, OpAt, instruction
  <2> QED
      BY <2>1, GoToPlain DEF Plain, Advances, Loop
<1>2. CASE JumpIfFalse
  <2>1. OpAt(ip) = "JumpIfFalse"
      BY <1>2 DEF JumpIfFalse, Executes, OpAt
  <2>2. Straight
      BY <2>1 DEF Straight, Loop
  <2>3. \/ \E m : Raise(m)
        \/ \E s : Compute(s)
        \/ ip' = At(program, ip).a /\ Kept /\ status' = status
      BY <1>2 DEF JumpIfFalse, Kept, arguments, simulation, result, instruction
  <2> QED
      BY <2>1, <2>2, <2>3, ComputePlain, RaiseEnds, EndsPlain
      DEF Plain, Advances, Straight
<1>3. CASE Stop
  <2>1. OpAt(ip) = "Stop"
      BY <1>3 DEF Stop, Executes, OpAt
  <2>2. (\E m : Raise(m)) \/ GoTo(At(program, ip + 1).a)
      BY <1>3 DEF Stop
  <2> QED
      BY <2>1, <2>2, GoToPlain, RaiseEnds, EndsPlain DEF Plain, Advances, Loop
<1>4. CASE NoHalt
    BY <1>4, RaiseEnds, EndsPlain DEF NoHalt
<1> QED
    BY <1>1, <1>2, <1>3, <1>4

LEMMA PlacePlain ==
    ASSUME CreateRobot \/ CreateTarget \/ CreateObstacle
    PROVE  Plain
<1>1. Straight
    BY DEF CreateRobot, CreateTarget, CreateObstacle, Executes, Straight, Loop, OpAt
<1>2. (\E m : Raise(m)) \/ (\E placed : Place(placed))
    BY DEF CreateRobot, CreateTarget, CreateObstacle
<1>3. (\E m : Raise(m)) \/ (\E w : Act(w))
    BY <1>2 DEF Place
<1> QED
    BY <1>1, <1>3, ActPlain, RaiseEnds, EndsPlain

LEMMA OnWorldPlain == ASSUME Straight, NEW w, OnWorld(w) PROVE Plain
BY ActPlain, RaiseEnds, EndsPlain DEF OnWorld

LEMMA QueryPlain == ASSUME Straight, NEW v, Query(v) PROVE Plain
BY ComputePlain, RaiseEnds, EndsPlain DEF Query

LEMMA BehaviourPlain ==
    ASSUME LoadAgent \/ Move \/ MoveToward \/ Turn
           \/ DistanceTo \/ ObstacleAhead \/ Collision
    PROVE  Plain
<1>1. CASE LoadAgent
  <2>1. Straight
      BY <1>1 DEF LoadAgent, Executes, Straight, Loop, OpAt
  <2>2. \/ \E m : Raise(m)
        \/ ip' = ip + 1 /\ Kept /\ status' = status
      BY <1>1 DEF LoadAgent, Kept, arguments, simulation, result
  <2> QED
      BY <2>1, <2>2, RaiseEnds, EndsPlain DEF Plain, Advances, Straight
<1>2. CASE Move
  <2>1. Straight
      BY <1>2 DEF Move, Moves, Executes, Straight, Loop, OpAt
  <2>2. \E w : OnWorld(w)
      BY <1>2 DEF Move
  <2> QED
      BY <2>1, <2>2, OnWorldPlain
<1>3. CASE MoveToward
  <2>1. Straight
      BY <1>3 DEF MoveToward, Executes, Straight, Loop, OpAt
  <2>2. (\E m : Raise(m)) \/ (\E w : OnWorld(w))
      BY <1>3 DEF MoveToward
  <2> QED
      BY <2>1, <2>2, OnWorldPlain, RaiseEnds, EndsPlain
<1>4. CASE Turn
  <2>1. Straight
      BY <1>4 DEF Turn, Turns, Executes, Straight, Loop, OpAt
  <2>2. \E w : OnWorld(w)
      BY <1>4 DEF Turn
  <2> QED
      BY <2>1, <2>2, OnWorldPlain
<1>5. CASE DistanceTo
  <2>1. Straight
      BY <1>5 DEF DistanceTo, Executes, Straight, Loop, OpAt
  <2>2. (\E m : Raise(m)) \/ (\E v : Query(v))
      BY <1>5 DEF DistanceTo
  <2> QED
      BY <2>1, <2>2, QueryPlain, RaiseEnds, EndsPlain
<1>6. CASE ObstacleAhead
  <2>1. Straight
      BY <1>6 DEF ObstacleAhead, Executes, Straight, Loop, OpAt
  <2>2. \E v : Query(v)
      BY <1>6 DEF ObstacleAhead
  <2> QED
      BY <2>1, <2>2, QueryPlain
<1>7. CASE Collision
  <2>1. Straight
      BY <1>7 DEF Collision, Executes, Straight, Loop, OpAt
  <2>2. \E v : Query(v)
      BY <1>7 DEF Collision
  <2> QED
      BY <2>1, <2>2, QueryPlain
<1> QED
    BY <1>1, <1>2, <1>3, <1>4, <1>5, <1>6, <1>7

-----------------------------------------------------------------------------
(* Each step keeps the invariant.                                           *)

\* A running machine goes on within its code, and back to the loop's start only from
\* its end.
LEMMA AdvanceGoes ==
    ASSUME IsProgram(program), WellFormed(program), ip \in 0 .. last, Advances
    PROVE  \/ ip \in 1 .. first - 1 /\ OpAt(ip) \in Placements /\ ip' = ip + 1
           \/ ip \in first + 1 .. last - 3 /\ ip' \in ip + 1 .. last - 2
           \/ ip = last - 1 /\ ip' = first
<1>1. /\ last \in Nat /\ first \in Nat /\ first >= 1 /\ first <= last - 3
      /\ At(program, last - 1).a = first /\ OpAt(last - 1) = "Jump"
    BY Shape
<1>2. OpAt(ip) \notin Loop
    BY DEF Advances
<1>3. ip # 0 /\ ip # first /\ ip # last - 2 /\ ip # last
    BY <1>2, Places DEF Loop
<1>4. CASE ip \in 1 .. first - 1
  <2>1. OpAt(ip) \in Placements
      BY <1>4, Places
  <2> QED
      BY <1>4, <2>1 DEF Advances, Placements
<1>5. CASE ip \in first + 1 .. last - 3
  <2>1. CASE OpAt(ip) = "Jump"
      BY <1>5, <2>1, BodyJumps DEF Advances
  <2>2. CASE OpAt(ip) = "Stop"
    <3>1. ip + 1 \in first + 1 .. last - 3 /\ OpAt(ip + 1) = "Jump"
        BY <1>1, <1>5, <2>2, BodyJumps
    <3>2. At(program, ip + 1).a \in ip + 2 .. last - 2
        BY <1>1, <1>5, <3>1, BodyJumps
    <3> QED
        BY <1>1, <1>5, <2>2, <3>2 DEF Advances
  <2>3. CASE OpAt(ip) = "JumpIfFalse"
    <3>1. At(program, ip).a \in ip + 1 .. last - 2
        BY <1>5, <2>3, BodyJumps
    <3> QED
        BY <1>1, <1>5, <2>3, <3>1 DEF Advances
  <2>4. CASE OpAt(ip) \notin {"Jump", "Stop", "JumpIfFalse"}
      BY <1>1, <1>5, <2>4 DEF Advances
  <2> QED
      BY <1>5, <2>1, <2>2, <2>3, <2>4
<1>6. CASE ip = last - 1
    BY <1>1, <1>6 DEF Advances
<1> QED
    BY <1>1, <1>3, <1>4, <1>5, <1>6

\* So it is not stopped by the end of its code.
LEMMA AdvanceStaysInPlace ==
    ASSUME IsProgram(program), WellFormed(program), Where, Kept, Advances
    PROVE  Where'
<1>1. last \in Nat /\ first \in Nat /\ first >= 1 /\ first <= last - 3
    BY Shape
<1>2. last' = last /\ first' = first
    BY DEF Kept, last, first, LoopStart
<1>3. \/ ip \in 1 .. first - 1 /\ OpAt(ip) \in Placements /\ ip' = ip + 1
      \/ ip \in first + 1 .. last - 3 /\ ip' \in ip + 1 .. last - 2
      \/ ip = last - 1 /\ ip' = first
    BY AdvanceGoes DEF Where
<1>4. CASE ip \in 1 .. first - 1 /\ ip' = ip + 1
    BY <1>1, <1>2, <1>4 DEF Where, Kept
<1>5. CASE ip \in first + 1 .. last - 3 /\ ip' \in ip + 1 .. last - 2
  <2>1. ip' \in first + 1 .. last - 2
      BY <1>1, <1>5
  <2> QED
      BY <1>1, <1>2, <1>5, <2>1 DEF Where, Kept
<1>6. CASE ip = last - 1 /\ ip' = first
    BY <1>1, <1>2, <1>6 DEF Where, Kept
<1> QED
    BY <1>3, <1>4, <1>5, <1>6

LEMMA PlainTicks ==
    ASSUME Sound, Ticking, status = "running", Plain
    PROVE  Ticking'
<1> SUFFICES ASSUME WellFormed(program)' PROVE (/\ Counts
                                                /\ status = "running" => Where
                                                /\ status = "ok" => tick = max_ticks)'
    BY DEF Ticking
<1>1. WellFormed(program) /\ IsProgram(program)
    BY ProgramsAssumption DEF Plain, Kept, Sound
<1>2. Counts /\ Where
    BY <1>1 DEF Ticking
<1>3. Counts'
    BY <1>2 DEF Counts, Plain, Kept
<1>4. CASE Advances
    BY <1>1, <1>2, <1>3, <1>4, AdvanceStaysInPlace DEF Plain, Advances
<1>5. CASE Ends
    BY <1>3, <1>5 DEF Ends
<1> QED
    BY <1>4, <1>5 DEF Plain

\* Where an instruction of the loop stands, and what is known there.
LEMMA AtPlace ==
    ASSUME Sound, Ticking, WellFormed(program), NEW op, Executes({op})
    PROVE  /\ IsProgram(program) /\ Counts /\ Where /\ status = "running"
           /\ ip \in 0 .. last /\ OpAt(ip) = op
BY ProgramsAssumption DEF Sound, Ticking, Executes, OpAt, Where

LEMMA CreateWorldTicks ==
    ASSUME Sound, Ticking, CreateWorld
    PROVE  Ticking'
<1>1. UNCHANGED program
    BY DEF CreateWorld, Die, arguments
<1> SUFFICES ASSUME WellFormed(program) PROVE Ticking'
    BY <1>1 DEF Ticking
<1>2. /\ IsProgram(program) /\ Counts /\ Where /\ status = "running"
      /\ ip \in 0 .. last /\ OpAt(ip) = "CreateWorld"
    BY AtPlace DEF CreateWorld
<1>3. ip = 0 /\ tick = 0
    BY <1>2, Places DEF Where
<1>4. CASE ~Fits(instruction.a, instruction.b)
    BY <1>2, <1>4, DieEnds, EndsPlain, PlainTicks DEF CreateWorld
<1>5. CASE Fits(instruction.a, instruction.b)
  <2>1. /\ created' = TRUE /\ tick' = 0 /\ ip' = 1 /\ status' = status
        /\ UNCHANGED <<max_ticks, recording, ticks_completed, recorded_initial, frames>>
      BY <1>3, <1>5 DEF CreateWorld, arguments, result
  <2>2. last' = last /\ first' = first
      BY <1>1 DEF last, first, LoopStart
  <2>3. Counts'
      BY <1>2, <1>3, <2>1 DEF Counts
  <2>4. Where'
      BY <1>2, <1>3, <2>1, <2>2, Shape DEF Where
  <2> QED
      BY <1>2, <2>1, <2>3, <2>4 DEF Ticking
<1> QED
    BY <1>4, <1>5

\* The counts after the initial frame was recorded, if it had to be.
LEMMA CountsRecorded ==
    ASSUME Counts, created, record_initial_if_needed,
           UNCHANGED <<max_ticks, recording, tick, ticks_completed>>
    PROVE  Counts' /\ (recording => recorded_initial')
<1>1. CASE recording /\ ~recorded_initial
  <2>1. recorded_initial' = TRUE /\ frames' = Append(frames, Frame(0))
      BY <1>1 DEF record_initial_if_needed
  <2>2. frames = << >> /\ tick = 0 /\ IsSeq(frames) /\ Frame(0).tick = 0
      BY <1>1 DEF Counts, Frame
  <2>3. Len(frames) = 0 /\ IsSeq(frames)
      BY <2>2
  <2>4. /\ IsSeq(frames') /\ Len(frames') = 1 /\ DOMAIN frames' = 1 .. 1
        /\ frames'[1] = Frame(0)
    <3>1. /\ IsSeq(frames') /\ Len(frames') = Len(frames) + 1
          /\ DOMAIN frames' = 1 .. Len(frames) + 1
          /\ frames'[Len(frames) + 1] = Frame(0)
        BY <2>1, <2>3, AppendSeq
    <3>2. Len(frames) + 1 = 1
        BY <2>3
    <3> QED
        BY <3>1, <3>2
  <2>5. \A i \in DOMAIN frames' : frames'[i].tick = i - 1
      BY <2>2, <2>4
  <2> QED
      BY <1>1, <2>1, <2>2, <2>4, <2>5 DEF Counts
<1>2. CASE ~(recording /\ ~recorded_initial)
    BY <1>2 DEF Counts, record_initial_if_needed
<1> QED
    BY <1>1, <1>2

LEMMA BeginTickTicks ==
    ASSUME Sound, Ticking, BeginTick
    PROVE  Ticking'
<1>1. UNCHANGED <<program, max_ticks, recording, tick, ticks_completed, created>>
    BY DEF BeginTick, arguments
<1> SUFFICES ASSUME WellFormed(program) PROVE Ticking'
    BY <1>1 DEF Ticking
<1>2. /\ IsProgram(program) /\ Counts /\ Where /\ status = "running"
      /\ ip \in 0 .. last /\ OpAt(ip) = "BeginTick"
    BY AtPlace DEF BeginTick
<1>3. ip = first /\ first >= 1 /\ first <= last - 3 /\ last \in Nat /\ first \in Nat
    BY <1>2, Places, Shape
<1>4. created
    BY <1>2, <1>3 DEF Where
<1>5. record_initial_if_needed /\ status' = status
    BY <1>4 DEF BeginTick, result
<1>6. Counts' /\ (recording => recorded_initial')
    BY <1>1, <1>2, <1>4, <1>5, CountsRecorded
<1>7. last' = last /\ first' = first
    BY <1>1 DEF last, first, LoopStart
<1>8. CASE ticks_completed >= max_ticks
  <2>1. ip' = last
      BY <1>2, <1>3, <1>8, HaltIsLast DEF BeginTick
  <2>2. tick = max_ticks
      BY <1>2, <1>8 DEF Counts, Where
  <2> QED
      BY <1>1, <1>2, <1>3, <1>4, <1>5, <1>6, <1>7, <2>1, <2>2 DEF Ticking, Where
<1>9. CASE ~(ticks_completed >= max_ticks)
  <2>1. ip' = first + 1
      BY <1>3, <1>4, <1>9 DEF BeginTick
  <2>2. tick < max_ticks
      BY <1>2, <1>9 DEF Counts
  <2> QED
      BY <1>1, <1>2, <1>3, <1>4, <1>5, <1>6, <1>7, <2>1, <2>2 DEF Ticking, Where
<1> QED
    BY <1>8, <1>9

LEMMA EndTickTicks ==
    ASSUME Sound, Ticking, EndTick
    PROVE  Ticking'
<1>1. UNCHANGED <<program, max_ticks, recording, recorded_initial, created, status>>
    BY DEF EndTick, arguments, result
<1> SUFFICES ASSUME WellFormed(program) PROVE Ticking'
    BY <1>1 DEF Ticking
<1>2. /\ IsProgram(program) /\ Counts /\ Where /\ status = "running"
      /\ ip \in 0 .. last /\ OpAt(ip) = "EndTick"
    BY AtPlace DEF EndTick
<1>3. ip = last - 2 /\ first >= 1 /\ first <= last - 3 /\ last \in Nat /\ first \in Nat
    BY <1>2, Places, Shape
<1>4. created /\ tick < max_ticks /\ (recording => recorded_initial)
    BY <1>2, <1>3 DEF Where
<1>5. /\ tick' = tick + 1 /\ ticks_completed' = ticks_completed + 1
      /\ frames' = IF recording THEN Append(frames, Frame(tick')) ELSE frames
    BY DEF EndTick
<1>6. tick' \in Nat /\ ticks_completed' = tick' /\ tick' <= max_ticks
    BY <1>2, <1>4, <1>5 DEF Counts
<1>7. Counts'
  <2>1. CASE recording
    <3>1. recorded_initial /\ Len(frames) = tick + 1 /\ IsSeq(frames)
        BY <1>2, <1>4, <2>1 DEF Counts
    <3>2. /\ IsSeq(frames') /\ Len(frames') = tick' + 1
          /\ DOMAIN frames' = 1 .. tick' + 1
          /\ \A i \in 1 .. tick' : frames'[i] = frames[i]
          /\ frames'[tick' + 1] = Frame(tick')
          /\ DOMAIN frames = 1 .. tick'
        BY <1>5, <2>1, <3>1, AppendSeq
    <3>3. \A i \in 1 .. tick' : frames[i].tick = i - 1
        BY <1>2, <3>2 DEF Counts
    <3>4. Frame(tick').tick = tick'
        BY DEF Frame
    <3>5. ASSUME NEW i \in DOMAIN frames' PROVE frames'[i].tick = i - 1
      <4>1. CASE i \in 1 .. tick'
          BY <3>2, <3>3, <4>1
      <4>2. CASE i = tick' + 1
        <5>1. frames'[i] = Frame(tick')
            BY <3>2, <4>2
        <5>2. tick' \in Nat
            BY <1>6
        <5>3. i - 1 = tick'
          <6>1. \A n \in Nat : (n + 1) - 1 = n
              OBVIOUS
          <6> QED
              BY <4>2, <5>2, <6>1
        <5>4. frames'[i].tick = tick'
            BY <3>4, <5>1
        <5> QED
            BY <5>3, <5>4
      <4> QED
          BY <1>6, <3>2, <3>5, <4>1, <4>2
    <3> QED
        BY <1>1, <1>2, <1>6, <3>1, <3>2, <3>5 DEF Counts
  <2>2. CASE ~recording
      BY <1>1, <1>2, <1>5, <1>6, <2>2 DEF Counts
  <2> QED
      BY <2>1, <2>2
<1>8. last' = last /\ first' = first
    BY <1>1 DEF last, first, LoopStart
<1>9. CASE ticks_completed' < max_ticks
  <2>1. ip' = last - 1
      BY <1>3, <1>9 DEF EndTick
  <2> QED
      BY <1>1, <1>2, <1>3, <1>4, <1>6, <1>7, <1>8, <1>9, <2>1 DEF Ticking, Where
<1>10. CASE ~(ticks_completed' < max_ticks)
  <2>1. ip + 1 < Len(program.code) /\ At(program, ip + 1).opcode = "Jump"
        /\ ip + 2 = last
      BY <1>2, <1>3, Shape DEF OpAt
  <2>2. ip' = find_halt(last)
      BY <1>10, <2>1 DEF EndTick
  <2>3. ip' = last
      BY <1>2, <1>3, <2>2, HaltIsLast
  <2>4. tick' = max_ticks
      BY <1>2, <1>6, <1>10 DEF Counts
  <2> QED
      BY <1>1, <1>2, <1>3, <1>4, <1>7, <1>8, <2>3, <2>4 DEF Ticking, Where
<1> QED
    BY <1>9, <1>10

LEMMA HaltTicks ==
    ASSUME Sound, Ticking, Halt
    PROVE  Ticking'
<1>1. UNCHANGED <<program, max_ticks, recording, tick, ticks_completed, created>>
    BY DEF Halt, arguments, simulation
<1> SUFFICES ASSUME WellFormed(program) PROVE Ticking'
    BY <1>1 DEF Ticking
<1>2. /\ IsProgram(program) /\ Counts /\ Where /\ status = "running"
      /\ ip \in 0 .. last /\ OpAt(ip) = "Halt"
    BY AtPlace DEF Halt
<1>3. ip = last /\ last > 0
    BY <1>2, Places, Shape
<1>4. created /\ tick = max_ticks
    BY <1>2, <1>3 DEF Where
<1>5. record_initial_if_needed /\ status' = "ok"
    BY <1>4 DEF Halt
<1>6. Counts'
    BY <1>1, <1>2, <1>4, <1>5, CountsRecorded
<1> QED
    BY <1>1, <1>4, <1>5, <1>6 DEF Ticking

LEMMA InitTicks == Init => Ticking
<1> SUFFICES ASSUME Init, WellFormed(program)
             PROVE  /\ Counts
                    /\ status = "running" => Where
                    /\ status = "ok" => tick = max_ticks
    BY DEF Ticking
<1>1. IsProgram(program)
    BY ProgramsAssumption DEF Init
<1>2. /\ frames = << >> /\ max_ticks \in TickCounts /\ recording \in Recordings
      /\ tick = 0 /\ ticks_completed = 0 /\ ip = 0 /\ recorded_initial = FALSE /\ ~created
    BY DEF Init, Start, Ready
<1>3. frames \in Seq({}) /\ DOMAIN frames = {}
    BY <1>2
<1>4. Counts
    BY <1>2, <1>3, TickCountsAssumption, RecordingsAssumption DEF Counts, IsSeq
<1>5. status = "running" => max_ticks >= 0
    BY <1>2, TickCountsAssumption DEF Init, Start
<1>6. status # "ok"
    BY DEF Init, Start
<1> QED
    BY <1>1, <1>2, <1>4, <1>5, <1>6, Shape DEF Where

LEMMA NextTicks == Sound /\ Ticking /\ [Next]_vars => Ticking'
<1> SUFFICES ASSUME Sound, Ticking, [Next]_vars PROVE Ticking'
    OBVIOUS
<1>1. CASE UNCHANGED vars
  <2>1. UNCHANGED <<program, max_ticks, recording, ip, ticks_completed,
                    recorded_initial, created, tick, frames, status>>
      BY <1>1 DEF vars, arguments, simulation, result
  <2> QED
      BY <2>1 DEF Ticking, Counts, Where, last, first, LoopStart
<1>2. CASE Returned
    BY <1>1, <1>2 DEF Returned
<1>3. CASE CreateWorld
    BY <1>3, CreateWorldTicks
<1>4. CASE BeginTick
    BY <1>4, BeginTickTicks
<1>5. CASE EndTick
    BY <1>5, EndTickTicks
<1>6. CASE Halt
    BY <1>6, HaltTicks
<1>7. CASE Step /\ ~(CreateWorld \/ BeginTick \/ EndTick \/ Halt)
  <2>1. Plain
      BY <1>7, StackPlain, OperatorPlain, JumpPlain, PlacePlain, BehaviourPlain
      DEF Step
  <2>2. status = "running"
      BY <1>7 DEF Step, Executes, PushConst, PushBool, LoadVar, StoreVar, Pop,
         Arithmetic, Comparison, Equality, Not, Neg, Jump, JumpIfFalse, Stop, NoHalt,
         CreateRobot, CreateTarget, CreateObstacle, LoadAgent, Move, MoveToward,
         Turn, DistanceTo, ObstacleAhead, Collision
  <2> QED
      BY <2>1, <2>2, PlainTicks
<1> QED
    BY <1>1, <1>2, <1>3, <1>4, <1>5, <1>6, <1>7 DEF Next

LEMMA TickingAlways == Spec => []Ticking
<1>1. Init => Sound /\ Ticking
    BY InitSound, InitTicks
<1>2. (Sound /\ Ticking) /\ [Next]_vars => (Sound /\ Ticking)'
    BY NextSound, NextTicks
<1> QED
    BY <1>1, <1>2, PTL DEF Spec

\* Compiled code never does a tick too many, whatever its behaviours, and when it
\* succeeds it has done exactly the ticks that run_program was asked for.
THEOREM TicksAreExact == Spec => []ExactTicks
<1>1. Ticking => ExactTicks
    BY DEF Ticking, Counts, ExactTicks
<1> QED
    BY <1>1, TickingAlways, PTL

\* The log of compiled code has the frames 0, 1, 2, ... and no others, the initial
\* one included exactly once, also when a tick fails halfway.
THEOREM LogIsInOrder == Spec => []FramesInOrder
<1>1. Ticking => FramesInOrder
    BY DEF Ticking, Counts, FramesInOrder
<1> QED
    BY <1>1, TickingAlways, PTL

-----------------------------------------------------------------------------
(* The height of the stack.                                                 *)

\* Inductive, of well-formed and balanced code: the stack is as high as a scan of the
\* code from its start to its end tells, however the machine got there.
Depth ==
    WellFormed(program) /\ Balanced(program) =>
        (status = "running" => Len(stack) = Heights(program)[ip])

LEMMA HeightAt ==
    ASSUME Balanced(program), NEW i \in 0 .. last
    PROVE  LET height == Heights(program)
           IN  /\ height[0] = 0
               /\ height[i] \in Nat /\ height[i] >= Pops(OpAt(i))
               /\ OpAt(i) \in Clean => height[i] = 0
               /\ OpAt(i) = "JumpIfFalse" => height[i] = 1
               /\ OpAt(i) \in {"Jump", "JumpIfFalse"} => height[At(program, i).a] = 0
               /\ i < last => height[i + 1] = HeightAfter(OpAt(i), height[i])
<1> DEFINE height == Heights(program)
<1>1. IsHeight(program, height)
    BY DEF Balanced
<1> HIDE DEF height
<1>2. /\ height[0] = 0
      /\ height[i] \in Nat /\ height[i] >= Pops(OpAt(i))
      /\ OpAt(i) \in Clean => height[i] = 0
      /\ OpAt(i) = "JumpIfFalse" => height[i] = 1
      /\ OpAt(i) \in {"Jump", "JumpIfFalse"} => height[At(program, i).a] = 0
      /\ i < last => height[i + 1] = HeightAfter(OpAt(i), height[i])
    BY <1>1 DEF IsHeight, OpAt, last
<1> QED
    BY <1>2 DEF height

Pushers == {"PushConst", "PushBool", "LoadVar", "DistanceTo", "ObstacleAhead", "Collision"}
Neutral == Moves \cup Turns \cup Placements \cup {"MoveToward", "LoadAgent", "CreateWorld",
                                                  "BeginTick", "EndTick"}

LEMMA HeightAfterIs ==
    ASSUME NEW op, NEW n \in Nat
    PROVE  /\ op \in Pushers => HeightAfter(op, n) = n + 1
           /\ op \in Binary => HeightAfter(op, n) = n - 1
           /\ op \in {"StoreVar", "JumpIfFalse"} => HeightAfter(op, n) = n - 1
           /\ op \in {"Not", "Neg"} => HeightAfter(op, n) = n
           /\ op = "Pop" => HeightAfter(op, n) = IF n = 0 THEN 0 ELSE n - 1
           /\ op \in Neutral => HeightAfter(op, n) = n
<1>. USE DEF HeightAfter, Pops, Pushing, ArithOps, CompareOps, EqualityOps
<1>1. op \in Pushers => HeightAfter(op, n) = n + 1
    BY DEF Pushers
<1>2. op \in Binary => HeightAfter(op, n) = n - 1
    BY DEF Binary
<1>3. op \in {"StoreVar", "JumpIfFalse"} => HeightAfter(op, n) = n - 1
    OBVIOUS
<1>4. op \in {"Not", "Neg"} => HeightAfter(op, n) = n
    OBVIOUS
<1>5. op = "Pop" => HeightAfter(op, n) = IF n = 0 THEN 0 ELSE n - 1
    OBVIOUS
<1>6. op \in Neutral => HeightAfter(op, n) = n
    BY DEF Neutral, Moves, Turns, Placements
<1> QED
    BY <1>1, <1>2, <1>3, <1>4, <1>5, <1>6

\* What a step that goes on does to the stack, by where it goes.
Straightforward ==
    /\ OpAt(ip) # "Halt" /\ ip' = ip + 1
    /\ Len(stack') = HeightAfter(OpAt(ip), Len(stack))

Jumps ==
    \/ /\ OpAt(ip) \in {"Jump", "JumpIfFalse"} /\ ip' = At(program, ip).a
       /\ Len(stack') = Len(stack) - Pops(OpAt(ip))
    \/ /\ OpAt(ip) = "Stop" /\ ip + 1 \in 0 .. last /\ OpAt(ip + 1) = "Jump"
       /\ ip' = At(program, ip + 1).a
       /\ Len(stack') = Len(stack)
    \/ /\ OpAt(ip) \in {"BeginTick", "EndTick"} /\ ip' = last
       /\ Len(stack') = Len(stack)

Settles == Straightforward \/ Jumps \/ Ends \/ status' # "running"

LEMMA SettlesDepth ==
    ASSUME Sound, Typed, Ticking, Depth, UNCHANGED program, status = "running", Settles
    PROVE  Depth'
<1> SUFFICES ASSUME WellFormed(program), Balanced(program), status' = "running"
             PROVE  Len(stack') = Heights(program)[ip']
    BY DEF Depth
<1> DEFINE H == Heights(program)
<1>1. IsProgram(program) /\ Where /\ ip \in 0 .. last /\ last \in Nat
    BY ProgramsAssumption, Shape DEF Sound, Ticking, Where
<1>2. Len(stack) = H[ip] /\ Len(stack) \in Nat
    BY DEF Depth, Typed, TypeOK
<1>3. /\ OpAt(ip) \in Clean => H[ip] = 0
      /\ OpAt(ip) = "JumpIfFalse" => H[ip] = 1
      /\ OpAt(ip) \in {"Jump", "JumpIfFalse"} => H[At(program, ip).a] = 0
      /\ ip < last => H[ip + 1] = HeightAfter(OpAt(ip), H[ip])
    BY <1>1, HeightAt
<1>4. OpAt(last) = "Halt" /\ H[last] = 0
  <2>1. OpAt(last) = "Halt" /\ last \in 0 .. last
      BY <1>1, Shape
  <2> QED
      BY <2>1, HeightAt DEF Clean
<1>5. \A i \in 0 .. last : OpAt(i) = "Jump" => H[At(program, i).a] = 0
    BY HeightAt
<1> HIDE DEF H
<1>6. CASE Straightforward
  <2>1. ip < last
      BY <1>1, <1>4, <1>6 DEF Straightforward
  <2> QED
      BY <1>2, <1>3, <1>6, <2>1 DEF Straightforward, H
<1>7. CASE Jumps
  <2>1. CASE OpAt(ip) \in {"Jump", "JumpIfFalse"} /\ ip' = At(program, ip).a
             /\ Len(stack') = Len(stack) - Pops(OpAt(ip))
      BY <1>2, <1>3, <2>1 DEF Clean, H, Pops, ArithOps, CompareOps, EqualityOps
  <2>2. CASE OpAt(ip) = "Stop" /\ ip + 1 \in 0 .. last /\ OpAt(ip + 1) = "Jump"
             /\ ip' = At(program, ip + 1).a /\ Len(stack') = Len(stack)
      BY <1>2, <1>3, <1>5, <2>2 DEF Clean, H
  <2>3. CASE OpAt(ip) \in {"BeginTick", "EndTick"} /\ ip' = last
             /\ Len(stack') = Len(stack)
      BY <1>2, <1>3, <1>4, <2>3 DEF Clean, H
  <2> QED
      BY <1>7, <2>1, <2>2, <2>3 DEF Jumps
<1> QED
    BY <1>6, <1>7 DEF Settles, Ends

LEMMA ComputeSettles ==
    ASSUME NEW s, Compute(s), OpAt(ip) # "Halt", Len(s) = HeightAfter(OpAt(ip), Len(stack))
    PROVE  Settles
BY DEF Compute, Settles, Straightforward

LEMMA ActSettles ==
    ASSUME Typed, NEW w, Act(w), OpAt(ip) \in Neutral
    PROVE  Settles
<1>1. Len(stack) \in Nat
    BY DEF Typed, TypeOK
<1>2. OpAt(ip) # "Halt"
    BY DEF Neutral, Moves, Turns, Placements
<1> QED
    BY <1>1, <1>2, HeightAfterIs DEF Act, Settles, Straightforward

LEMMA RaiseSettles == ASSUME NEW m, Raise(m) PROVE Settles
BY DEF Raise, Settles, Ends

LEMMA QuerySettles ==
    ASSUME Typed, NEW v, Query(v), OpAt(ip) \in Pushers
    PROVE  Settles
<1>1. stack \in Seq(Value) /\ Len(stack) \in Nat
    BY DEF Typed, TypeOK
<1>2. Len(Append(stack, v)) = Len(stack) + 1
    BY <1>1
<1>3. OpAt(ip) # "Halt"
    BY DEF Pushers
<1> QED
    BY <1>1, <1>2, <1>3, HeightAfterIs, ComputeSettles, RaiseSettles DEF Query

LEMMA StackSettles ==
    ASSUME Typed, PushConst \/ PushBool \/ LoadVar \/ StoreVar \/ Pop
    PROVE  Settles
<1>1. stack \in Seq(Value) /\ Len(stack) \in Nat
    BY DEF Typed, TypeOK
<1>2. \A v : Len(Append(stack, v)) = Len(stack) + 1
    BY <1>1
<1>3. stack # << >> => /\ Len(stack) >= 1
                       /\ Len(SubSeq(stack, 1, Len(stack) - 1)) = Len(stack) - 1
  <2>1. stack # << >> => Len(stack) >= 1
      BY <1>1
  <2> QED
      BY <1>1, <2>1, Popped
<1>4. stack = << >> => Len(stack) = 0
    OBVIOUS
<1>5. CASE PushConst \/ PushBool \/ LoadVar
  <2>1. OpAt(ip) \in Pushers
      BY <1>5 DEF PushConst, PushBool, LoadVar, Executes, OpAt, Pushers
  <2>2. (\E m : Raise(m)) \/ (\E v : Compute(Append(stack, v)))
      BY <1>5 DEF PushConst, PushBool, LoadVar
  <2>3. OpAt(ip) # "Halt"
      BY <2>1 DEF Pushers
  <2>4. HeightAfter(OpAt(ip), Len(stack)) = Len(stack) + 1
      BY <1>1, <2>1, HeightAfterIs
  <2>5. ASSUME NEW v, Compute(Append(stack, v)) PROVE Settles
      BY <1>2, <2>3, <2>4, <2>5, ComputeSettles
  <2> QED
      BY <2>2, <2>5, RaiseSettles
<1>6. CASE StoreVar
  <2>1. OpAt(ip) = "StoreVar"
      BY <1>6 DEF StoreVar, Executes, OpAt
  <2>2. \/ \E m : Raise(m)
        \/ stack # << >> /\ ip' = ip + 1 /\ stack' = SubSeq(stack, 1, Len(stack) - 1)
      BY <1>6 DEF StoreVar
  <2>3. HeightAfter(OpAt(ip), Len(stack)) = Len(stack) - 1
      BY <1>1, <2>1, HeightAfterIs
  <2> QED
      BY <1>3, <2>1, <2>2, <2>3, RaiseSettles DEF Settles, Straightforward
<1>7. CASE Pop
  <2>1. OpAt(ip) = "Pop"
      BY <1>7 DEF Pop, Executes, OpAt
  <2>2. HeightAfter(OpAt(ip), Len(stack))
            = IF Len(stack) = 0 THEN 0 ELSE Len(stack) - 1
      BY <1>1, <2>1, HeightAfterIs
  <2>3. PICK s : Compute(s) /\ s = IF stack = << >> THEN stack
                                   ELSE SubSeq(stack, 1, Len(stack) - 1)
      BY <1>7 DEF Pop
  <2>4. Len(s) = HeightAfter(OpAt(ip), Len(stack))
      BY <1>1, <1>3, <1>4, <2>2, <2>3
  <2> QED
      BY <2>1, <2>3, <2>4, ComputeSettles
<1> QED
    BY <1>5, <1>6, <1>7


LEMMA ReplacedLength ==
    ASSUME Typed, NEW n \in {1, 2}, NEW kind, PopError(n, kind) = NoError, NEW v
    PROVE  Len(Replaced(n, v)) = Len(stack) - n + 1
<1>1. stack \in Seq(Value) /\ Len(stack) \in Nat
    BY DEF Typed, TypeOK
<1>2. Len(stack) >= n
    BY <1>1, PopErrorNone
<1> DEFINE below == SubSeq(stack, 1, Len(stack) - n)
<1>3. below \in Seq(Value) /\ Len(below) = Len(stack) - n
    BY <1>1, <1>2, Popped
<1> HIDE DEF below
<1>4. Len(Append(below, v)) = Len(below) + 1
    BY <1>3
<1> QED
    BY <1>1, <1>3, <1>4 DEF Replaced, below

LEMMA OperatorSettles ==
    ASSUME Typed, Arithmetic \/ Comparison \/ Equality \/ Not \/ Neg
    PROVE  Settles
<1>1. Len(stack) \in Nat
    BY DEF Typed, TypeOK
<1>2. CASE Arithmetic \/ Comparison \/ Equality
  <2>1. OpAt(ip) \in Binary
      BY <1>2 DEF Arithmetic, Comparison, Equality, Executes, OpAt, Binary
  <2>2. HeightAfter(OpAt(ip), Len(stack)) = Len(stack) - 1 /\ OpAt(ip) # "Halt"
      BY <1>1, <2>1, HeightAfterIs DEF Binary, ArithOps, CompareOps, EqualityOps
  <2>3. ASSUME NEW kind, PopError(2, kind) = NoError, NEW v, Compute(Replaced(2, v))
        PROVE  Settles
    <3>1. Len(Replaced(2, v)) = Len(stack) - 1
        BY <1>1, <2>3, ReplacedLength
    <3> QED
        BY <2>2, <2>3, <3>1, ComputeSettles
  <2>4. Die => Settles
      BY DEF Die, Settles
  <2>5. \/ \E m : Raise(m)
        \/ Die
        \/ \E kind, v : PopError(2, kind) = NoError /\ Compute(Replaced(2, v))
      BY <1>2 DEF Arithmetic, Comparison, Equality
  <2> QED
      BY <2>3, <2>4, <2>5, RaiseSettles
<1>3. CASE Not \/ Neg
  <2>1. OpAt(ip) \in {"Not", "Neg"}
      BY <1>3 DEF Not, Neg, Executes, OpAt
  <2>2. HeightAfter(OpAt(ip), Len(stack)) = Len(stack) /\ OpAt(ip) # "Halt"
      BY <1>1, <2>1, HeightAfterIs
  <2>3. ASSUME NEW kind, PopError(1, kind) = NoError, NEW v, Compute(Replaced(1, v))
        PROVE  Settles
    <3>1. Len(Replaced(1, v)) = Len(stack)
        BY <1>1, <2>3, ReplacedLength
    <3> QED
        BY <2>2, <2>3, <3>1, ComputeSettles
  <2>4. \/ \E m : Raise(m)
        \/ \E kind, v : PopError(1, kind) = NoError /\ Compute(Replaced(1, v))
      BY <1>3 DEF Not, Neg
  <2> QED
      BY <2>3, <2>4, RaiseSettles
<1> QED
    BY <1>2, <1>3

LEMMA ControlSettles ==
    ASSUME Sound, Typed, Jump \/ JumpIfFalse \/ Stop \/ NoHalt \/ LoadAgent
    PROVE  Settles
<1>1. stack \in Seq(Value) /\ Len(stack) \in Nat /\ ip \in Nat
    BY DEF Typed, TypeOK, Sound
<1>2. ASSUME NEW t, GoTo(t)
      PROVE  (ip' = t /\ stack' = stack) \/ Settles
    BY <1>2, RaiseSettles DEF GoTo
<1>3. CASE Jump
  <2>1. OpAt(ip) = "Jump" /\ GoTo(At(program, ip).a)
      BY <1>3 DEF Jump, Executes, OpAt, instruction
  <2>2. Pops("Jump") = 0
      BY DEF Pops, ArithOps, CompareOps, EqualityOps
  <2> QED
      BY <1>1, <1>2, <2>1, <2>2 DEF Settles, Jumps
<1>4. CASE JumpIfFalse
  <2>1. OpAt(ip) = "JumpIfFalse"
      BY <1>4 DEF JumpIfFalse, Executes, OpAt
  <2>2. \/ \E m : Raise(m)
        \/ /\ PopError(1, "bool") = NoError
           /\ stack' = SubSeq(stack, 1, Len(stack) - 1)
           /\ ip' = ip + 1 \/ ip' = At(program, ip).a
      BY <1>4 DEF JumpIfFalse, Compute, instruction
  <2>3. PopError(1, "bool") = NoError
        => Len(SubSeq(stack, 1, Len(stack) - 1)) = Len(stack) - 1
      BY <1>1, PopErrorNone, Popped
  <2>4. /\ HeightAfter("JumpIfFalse", Len(stack)) = Len(stack) - 1
        /\ Pops("JumpIfFalse") = 1
      BY <1>1, HeightAfterIs DEF Pops, ArithOps, CompareOps, EqualityOps
  <2> QED
      BY <2>1, <2>2, <2>3, <2>4, RaiseSettles DEF Settles, Straightforward, Jumps
<1>5. CASE Stop
  <2>1. OpAt(ip) = "Stop"
      BY <1>5 DEF Stop, Executes, OpAt
  <2>2. \/ \E m : Raise(m)
        \/ /\ ~(ip + 1 >= Len(program.code)) /\ OpAt(ip + 1) = "Jump"
           /\ GoTo(At(program, ip + 1).a)
      BY <1>5 DEF Stop, OpAt
  <2>3. Len(program.code) \in Nat
      BY ProgramsAssumption DEF Sound, IsProgram
  <2> QED
      BY <1>1, <1>2, <2>1, <2>2, <2>3, RaiseSettles DEF Settles, Jumps, last
<1>6. CASE NoHalt
    BY <1>6, RaiseSettles DEF NoHalt
<1>7. CASE LoadAgent
  <2>1. OpAt(ip) = "LoadAgent"
      BY <1>7 DEF LoadAgent, Executes, OpAt
  <2>2. HeightAfter(OpAt(ip), Len(stack)) = Len(stack)
      BY <1>1, <2>1, HeightAfterIs DEF Neutral
  <2>3. (\E m : Raise(m)) \/ (ip' = ip + 1 /\ stack' = stack)
      BY <1>7 DEF LoadAgent
  <2> QED
      BY <2>1, <2>2, <2>3, RaiseSettles DEF Settles, Straightforward
<1> QED
    BY <1>3, <1>4, <1>5, <1>6, <1>7

LEMMA WorldSettles ==
    ASSUME Typed,
           CreateWorld \/ CreateRobot \/ CreateTarget \/ CreateObstacle
           \/ Move \/ MoveToward \/ Turn \/ DistanceTo \/ ObstacleAhead \/ Collision
    PROVE  Settles
<1>1. Len(stack) \in Nat
    BY DEF Typed, TypeOK
<1>2. CASE CreateWorld
  <2>1. OpAt(ip) = "CreateWorld"
      BY <1>2 DEF CreateWorld, Executes, OpAt
  <2>2. HeightAfter(OpAt(ip), Len(stack)) = Len(stack)
      BY <1>1, <2>1, HeightAfterIs DEF Neutral
  <2>3. Die \/ (ip' = ip + 1 /\ stack' = stack)
      BY <1>2 DEF CreateWorld
  <2> QED
      BY <2>1, <2>2, <2>3 DEF Die, Settles, Straightforward
<1>3. CASE CreateRobot \/ CreateTarget \/ CreateObstacle \/ Move \/ MoveToward \/ Turn
  <2>1. OpAt(ip) \in Neutral
      BY <1>3 DEF CreateRobot, CreateTarget, CreateObstacle, Move, MoveToward, Turn,
         Executes, OpAt, Neutral, Placements
  <2>2. (\E m : Raise(m)) \/ (\E w : Act(w))
      BY <1>3 DEF CreateRobot, CreateTarget, CreateObstacle, Move, MoveToward, Turn,
         Place, OnWorld
  <2> QED
      BY <2>1, <2>2, ActSettles, RaiseSettles
<1>4. CASE DistanceTo \/ ObstacleAhead \/ Collision
  <2>1. OpAt(ip) \in Pushers
      BY <1>4 DEF DistanceTo, ObstacleAhead, Collision, Executes, OpAt, Pushers
  <2>2. (\E m : Raise(m)) \/ (\E v : Query(v))
      BY <1>4 DEF DistanceTo, ObstacleAhead, Collision
  <2> QED
      BY <2>1, <2>2, QuerySettles, RaiseSettles
<1> QED
    BY <1>2, <1>3, <1>4

LEMMA TickSettles ==
    ASSUME Sound, Typed, Ticking, WellFormed(program), BeginTick \/ EndTick \/ Halt
    PROVE  Settles
<1>1. Len(stack) \in Nat /\ stack' = stack
  <2>1. Len(stack) \in Nat
      BY DEF Typed, TypeOK
  <2>2. stack' = stack
      BY DEF BeginTick, EndTick, Halt
  <2> QED
      BY <2>1, <2>2
<1>2. /\ HeightAfter("BeginTick", Len(stack)) = Len(stack)
      /\ HeightAfter("EndTick", Len(stack)) = Len(stack)
    BY <1>1, HeightAfterIs DEF Neutral
<1>3. IsProgram(program) /\ last \in Nat /\ first \in Nat /\ first <= last - 3
    BY ProgramsAssumption, Shape DEF Sound
<1>4. CASE BeginTick
  <2>1. OpAt(ip) = "BeginTick" /\ ip \in 0 .. last
      BY <1>4, AtPlace DEF BeginTick
  <2>2. status' # "running" \/ ip' = find_halt(ip) \/ ip' = ip + 1
      BY <1>4 DEF BeginTick
  <2> QED
      BY <1>1, <1>2, <1>3, <2>1, <2>2, HaltIsLast DEF Settles, Straightforward, Jumps
<1>5. CASE EndTick
  <2>1. OpAt(ip) = "EndTick" /\ ip \in 0 .. last
      BY <1>5, AtPlace DEF EndTick
  <2>2. ip = last - 2
      BY <1>3, <2>1, Places
  <2>3. ip' \in {ip + 1, find_halt(ip + 1), find_halt(ip + 2)}
      BY <1>5 DEF EndTick
  <2>4. find_halt(ip + 1) = last /\ find_halt(ip + 2) = last
      BY <1>3, <2>2, HaltIsLast
  <2> QED
      BY <1>1, <1>2, <2>1, <2>3, <2>4 DEF Settles, Straightforward, Jumps
<1>6. CASE Halt
    BY <1>6 DEF Halt, Settles
<1> QED
    BY <1>4, <1>5, <1>6

LEMMA ProgramStays == [Next]_vars => UNCHANGED program
<1> SUFFICES ASSUME [Next]_vars PROVE UNCHANGED program
    OBVIOUS
<1>1. CASE UNCHANGED vars
    BY <1>1 DEF vars, arguments
<1>2. CASE Returned
    BY <1>2 DEF Returned, vars, arguments
<1>3. CASE CreateWorld \/ BeginTick \/ EndTick \/ Halt
    BY <1>3 DEF CreateWorld, Die, BeginTick, EndTick, Halt, arguments
<1>4. CASE Step /\ ~(CreateWorld \/ BeginTick \/ EndTick \/ Halt)
    BY <1>4, StackPlain, OperatorPlain, JumpPlain, PlacePlain, BehaviourPlain
    DEF Step, Plain, Kept
<1> QED
    BY <1>1, <1>2, <1>3, <1>4 DEF Next

LEMMA InitDepth == Init => Depth
<1> SUFFICES ASSUME Init, WellFormed(program), Balanced(program)
             PROVE  Len(stack) = Heights(program)[ip]
    BY DEF Depth
<1>1. ip = 0 /\ stack = << >> /\ IsProgram(program)
    BY ProgramsAssumption DEF Init, Start, Ready
<1>2. 0 \in 0 .. last
    BY <1>1, Shape
<1> QED
    BY <1>1, <1>2, HeightAt

LEMMA NextDepth == Sound /\ Typed /\ Ticking /\ Depth /\ [Next]_vars => Depth'
<1> SUFFICES ASSUME Sound, Typed, Ticking, Depth, [Next]_vars, WellFormed(program)
             PROVE  Depth'
    BY ProgramStays DEF Depth
<1>1. CASE UNCHANGED vars
    BY <1>1 DEF vars, arguments, result, Depth
<1>2. CASE Returned
    BY <1>1, <1>2 DEF Returned
<1>3. CASE Step
  <2>1. Settles
      BY <1>3, StackSettles, OperatorSettles, ControlSettles, WorldSettles, TickSettles
      DEF Step
  <2>2. status = "running"
      BY <1>3 DEF Step, Executes, PushConst, PushBool, LoadVar, StoreVar, Pop,
         Arithmetic, Comparison, Equality, Not, Neg, Jump, JumpIfFalse, Stop, Halt, NoHalt,
         CreateWorld, CreateRobot, CreateTarget, CreateObstacle, BeginTick, EndTick,
         LoadAgent, Move, MoveToward, Turn, DistanceTo, ObstacleAhead, Collision
  <2> QED
      BY <2>1, <2>2, ProgramStays, SettlesDepth
<1> QED
    BY <1>1, <1>2, <1>3 DEF Next

LEMMA DepthAlways == Spec => [](Sound /\ Typed /\ Ticking /\ Depth)
<1>1. Init => Sound /\ Typed /\ Ticking /\ Depth
    BY InitSound, InitTyped, InitTicks, InitDepth
<1>2. (Sound /\ Typed /\ Ticking /\ Depth) /\ [Next]_vars
          => (Sound /\ Typed /\ Ticking /\ Depth)'
    BY NextSound, NextTyped, NextTicks, NextDepth
<1> QED
    BY <1>1, <1>2, PTL DEF Spec

\* Code that is balanced when it is read from top to bottom leaves nothing on the
\* stack between two statements, whatever way the machine takes through it: so the
\* Pop that silently ignores an empty stack never hides a value too many.
THEOREM StackIsDrained ==
    Spec /\ WellFormed(program) /\ Balanced(program) => []StackDrained
<1> DEFINE Compiled == WellFormed(program) /\ Balanced(program)
<1>1. Compiled /\ [Next]_vars => Compiled'
    BY ProgramStays
<1>2. Sound /\ Typed /\ Ticking /\ Depth /\ Compiled => StackDrained
  <2> SUFFICES ASSUME Sound, Typed, Ticking, Depth, Compiled,
                      NEW op \in {"BeginTick", "LoadAgent", "EndTick", "Halt"},
                      Executes({op})
               PROVE  stack = << >>
      BY DEF StackDrained
  <2>1. ip \in 0 .. last /\ OpAt(ip) = op /\ status = "running"
      BY AtPlace
  <2>2. Heights(program)[ip] = 0
      BY <2>1, HeightAt DEF Clean
  <2>3. Len(stack) = 0
      BY <2>1, <2>2 DEF Depth
  <2> QED
      BY <2>3 DEF Typed, TypeOK
<1> HIDE DEF Compiled
<1>3. Spec /\ Compiled => []Compiled
    BY <1>1, PTL DEF Spec
<1>4. Spec /\ Compiled => []StackDrained
    BY <1>2, <1>3, DepthAlways, PTL
<1> QED
    BY <1>4 DEF Compiled
-----------------------------------------------------------------------------
(* No error of the machine's own.                                           *)

Compiled == WellFormed(program) /\ Balanced(program) /\ Placeable(program)

\* What has been built when the machine is among the placements: only the sites of
\* those it has executed are taken, and only their names.
Built ==
    ip \in 1 .. first - 1 =>
        /\ world.width = At(program, 0).a /\ world.height = At(program, 0).b
        /\ \A c \in Cells(world) : world.grid[c].kind # "empty" =>
              \E j \in 1 .. ip - 1 : Site(program, j) = c
        /\ \A name \in DOMAIN world.robots : \E j \in 1 .. ip - 1 :
              OpAt(j) = "CreateRobot" /\ Text(program, At(program, j).a) = name
        /\ \A name \in DOMAIN world.targets : \E j \in 1 .. ip - 1 :
              OpAt(j) = "CreateTarget" /\ Text(program, At(program, j).a) = name

\* Inductive, of compiled code.
Fine == Compiled => NoInternalError /\ (status = "running" => Built)

\* What is known of compiled code that runs.
Runs ==
    /\ Sound /\ Typed /\ Ticking /\ Depth /\ Fine
    /\ Compiled /\ status = "running"

\* A step that keeps it so: it fails for a reason the analyzer leaves to run time,
\* it is killed for one the language allows, or it goes on.
Faultless ==
    \/ \E m \in RuntimeErrors : Raise(m)
    \/ Die /\ (NoGrid \/ DivisionTraps)
    \/ /\ UNCHANGED <<program, max_ticks, created, error>>
       /\ status' # "aborted" /\ (status' = "running" => Built')

LEMMA FaultlessFine ==
    ASSUME Runs, Faultless
    PROVE  Fine'
<1>1. UNCHANGED <<program, max_ticks, created>>
    BY DEF Faultless, Raise, Die, arguments, simulation
<1>2. NoGrid' <=> NoGrid
    BY <1>1 DEF NoGrid, Fits
<1>3. (created => ~NoGrid) /\ (max_ticks >= 0 => error \in RuntimeErrors)
    BY DEF Runs, Fine, NoInternalError
<1>4. (created => ~NoGrid)'
    BY <1>1, <1>2, <1>3
<1>5. CASE \E m \in RuntimeErrors : Raise(m)
  <2>1. status' = "error" /\ error' \in RuntimeErrors
      BY <1>5 DEF Raise
  <2> QED
      BY <1>4, <2>1 DEF Fine, NoInternalError, RuntimeErrors
<1>6. CASE Die /\ (NoGrid \/ DivisionTraps)
  <2>1. status' = "aborted" /\ UNCHANGED <<program, max_ticks, ip, stack, error>>
      BY <1>6 DEF Die, arguments
  <2>2. DivisionTraps' <=> DivisionTraps
      BY <2>1 DEF DivisionTraps, Traps, instruction, Top
  <2>3. (max_ticks >= 0 => error \in RuntimeErrors)'
      BY <1>3, <2>1 DEF RuntimeErrors
  <2> QED
      BY <1>2, <1>4, <1>6, <2>1, <2>2, <2>3 DEF Fine, NoInternalError
<1>7. CASE /\ UNCHANGED <<program, max_ticks, created, error>>
           /\ status' # "aborted" /\ (status' = "running" => Built')
  <2>1. (max_ticks >= 0 => error \in RuntimeErrors)'
      BY <1>3, <1>7 DEF RuntimeErrors
  <2> QED
      BY <1>4, <1>7, <2>1 DEF Fine, NoInternalError
<1> QED
    BY <1>5, <1>6, <1>7 DEF Faultless

\* Where it runs, it finds what its instruction needs.
LEMMA RunsAt ==
    ASSUME Runs
    PROVE  /\ IsProgram(program) /\ Where /\ ip \in 0 .. last /\ Len(stack) \in Nat
           /\ ip < Len(program.code) /\ (ip > 0 => created)
           /\ Len(stack) >= Pops(OpAt(ip))
           /\ OpAt(ip) \in NamesString => KnownString
           /\ OpAt(ip) = "PushConst" =>
                 instruction.a \in 0 .. Len(program.int_constants) - 1
<1>. WellFormed(program) /\ Balanced(program)
    BY DEF Runs, Compiled
<1>1. IsProgram(program) /\ Where /\ ip \in 0 .. last /\ (ip > 0 => created)
    BY ProgramsAssumption DEF Runs, Sound, Ticking, Where
<1>2. last \in Nat /\ Len(program.code) = last + 1
    BY <1>1, Shape
<1>3. Heights(program)[ip] >= Pops(OpAt(ip))
    BY <1>1, HeightAt
<1>4. Len(stack) = Heights(program)[ip] /\ Len(stack) \in Nat
    BY DEF Runs, Depth, Typed, TypeOK
<1>5. /\ OpAt(ip) \in NamesString => KnownString
      /\ OpAt(ip) = "PushConst" =>
            instruction.a \in 0 .. Len(program.int_constants) - 1
    BY <1>1 DEF WellFormed, OpAt, last, KnownString, instruction
<1> QED
    BY <1>1, <1>2, <1>3, <1>4, <1>5

\* Going on from anything but a placement leads to no placement.
LEMMA GoesOn ==
    ASSUME Runs, OpAt(ip) \notin Placements, Kept, Advances, UNCHANGED error
    PROVE  Faultless
<1>1. IsProgram(program) /\ WellFormed(program) /\ ip \in 0 .. last
    BY RunsAt DEF Runs, Compiled
<1>2. /\ last \in Nat /\ first \in Nat /\ first >= 1 /\ first <= last - 3
    BY <1>1, Shape
<1>3. first' = first
    BY DEF Kept, first, LoopStart
<1>4. \/ ip \in first + 1 .. last - 3 /\ ip' \in ip + 1 .. last - 2
      \/ ip = last - 1 /\ ip' = first
    BY <1>1, AdvanceGoes
<1>5. ip' \notin 1 .. first' - 1
    BY <1>2, <1>3, <1>4
<1> QED
    BY <1>5 DEF Faultless, Built, Kept, Advances, Runs

LEMMA ComputeFaultless ==
    ASSUME Runs, OpAt(ip) \notin Placements, Straight, NEW s, Compute(s)
    PROVE  Faultless
<1>1. Kept /\ Advances /\ UNCHANGED error
    BY DEF Straight, Compute, Kept, Advances, arguments, simulation, result
<1> QED
    BY <1>1, GoesOn

LEMMA OnWorldFaultless ==
    ASSUME Runs, OpAt(ip) \notin Placements, Straight, NEW w, OnWorld(w)
    PROVE  Faultless
<1>1. created
  <2>1. ip # 0
      BY RunsAt, Places DEF Runs, Compiled, Straight, Loop
  <2> QED
      BY <2>1, RunsAt, Shape DEF Runs, Compiled
<1>2. Kept /\ Advances /\ UNCHANGED error
    BY <1>1 DEF OnWorld, Straight, Act, Kept, Advances, arguments, result
<1> QED
    BY <1>2, GoesOn

LEMMA QueryFaultless ==
    ASSUME Runs, OpAt(ip) \notin Placements, Straight, NEW v, Query(v)
    PROVE  Faultless
<1>1. created
  <2>1. ip # 0
      BY RunsAt, Places DEF Runs, Compiled, Straight, Loop
  <2> QED
      BY <2>1, RunsAt, Shape DEF Runs, Compiled
<1> QED
    BY <1>1, ComputeFaultless DEF Query

LEMMA PopErrorRuntime ==
    ASSUME Runs, NEW n \in {1, 2}, NEW kind, Pops(OpAt(ip)) = n
    PROVE  PopError(n, kind) \in RuntimeErrors /\ PopError(n, "any") = NoError
<1>1. ~(Len(stack) < n) /\ ~(Len(stack) < 1)
    BY RunsAt
<1>2. PopError(n, kind) \in {NoError, "expected another type"}
    BY <1>1 DEF PopError, NoError
<1>3. PopError(n, "any") = NoError
    BY <1>1 DEF PopError, NoError
<1> QED
    BY <1>2, <1>3 DEF RuntimeErrors

LEMMA StackFaultless ==
    ASSUME Runs, PushConst \/ PushBool \/ LoadVar \/ StoreVar \/ Pop
    PROVE  Faultless
<1>1. OpAt(ip) \in {"PushConst", "PushBool", "LoadVar", "StoreVar", "Pop"}
    BY DEF PushConst, PushBool, LoadVar, StoreVar, Pop, Executes, OpAt
<1>2. Straight /\ OpAt(ip) \notin Placements
    BY <1>1 DEF Straight, Loop, Placements
<1>3. CASE PushConst
  <2>1. OpAt(ip) = "PushConst"
      BY <1>3 DEF PushConst, Executes, OpAt
  <2>2. \E s : Compute(s)
      BY <1>3, <2>1, RunsAt DEF PushConst
  <2> QED
      BY <1>2, <2>2, ComputeFaultless
<1>4. CASE PushBool
    BY <1>2, <1>4, ComputeFaultless DEF PushBool
<1>5. CASE LoadVar
  <2>1. OpAt(ip) = "LoadVar"
      BY <1>5 DEF LoadVar, Executes, OpAt
  <2>2. KnownString
      BY <2>1, RunsAt DEF NamesString
  <2>3. Raise("unknown variable") \/ \E s : Compute(s)
      BY <1>5, <2>2 DEF LoadVar
  <2>4. "unknown variable" \in RuntimeErrors
      BY DEF RuntimeErrors
  <2>5. Raise("unknown variable") => Faultless
      BY <2>4 DEF Faultless
  <2> QED
      BY <1>2, <2>3, <2>5, ComputeFaultless
<1>6. CASE StoreVar
  <2>1. OpAt(ip) = "StoreVar"
      BY <1>6 DEF StoreVar, Executes, OpAt
  <2>2. KnownString
      BY <2>1, RunsAt DEF NamesString
  <2>3. stack # << >>
    <3>1. Pops(OpAt(ip)) = 1
        BY <2>1 DEF Pops, ArithOps, CompareOps, EqualityOps
    <3>2. Len(stack) >= 1
        BY <3>1, RunsAt
    <3> QED
        BY <3>2
  <2>4. /\ ip' = ip + 1
        /\ UNCHANGED <<arguments, current_robot, ticks_completed,
                       recorded_initial, simulation, frames, result>>
      BY <1>6, <2>2, <2>3 DEF StoreVar
  <2>5. Kept /\ Advances /\ UNCHANGED error
      BY <1>2, <2>4 DEF Straight, Kept, Advances, arguments, simulation, result
  <2> QED
      BY <1>2, <2>5, GoesOn
<1>7. CASE Pop
    BY <1>2, <1>7, ComputeFaultless DEF Pop
<1> QED
    BY <1>3, <1>4, <1>5, <1>6, <1>7

LEMMA OperatorFaultless ==
    ASSUME Runs, Arithmetic \/ Comparison \/ Equality \/ Not \/ Neg
    PROVE  Faultless
<1>1. OpAt(ip) \in Binary \cup {"Not", "Neg"}
    BY DEF Arithmetic, Comparison, Equality, Not, Neg, Executes, OpAt, Binary
<1>2. Straight /\ OpAt(ip) \notin Placements
    BY <1>1 DEF Straight, Loop, Placements, Binary, ArithOps, CompareOps, EqualityOps
<1>3. \A m \in RuntimeErrors : Raise(m) => Faultless
    BY DEF Faultless
<1>4. /\ OpAt(ip) \in Binary => Pops(OpAt(ip)) = 2
      /\ OpAt(ip) \in {"Not", "Neg"} => Pops(OpAt(ip)) = 1
    BY DEF Pops, Binary, ArithOps, CompareOps, EqualityOps
<1>5. CASE Arithmetic
  <2>1. OpAt(ip) \in Binary
      BY <1>5 DEF Arithmetic, Executes, OpAt, Binary
  <2>2. PopError(2, "int") \in RuntimeErrors
      BY <1>4, <2>1, PopErrorRuntime
  <2>3. \/ Raise(PopError(2, "int")) \/ Raise("division by zero")
        \/ Traps(instruction.opcode, Top(2).int, Top(1).int) /\ Die
        \/ \E s : Compute(s)
      BY <1>5 DEF Arithmetic
  <2>4. ASSUME Traps(instruction.opcode, Top(2).int, Top(1).int), Die PROVE Faultless
    <3>1. DivisionTraps
        BY <2>4, RunsAt DEF DivisionTraps, Traps
    <3> QED
        BY <2>4, <3>1 DEF Faultless
  <2>5. "division by zero" \in RuntimeErrors
      BY DEF RuntimeErrors
  <2> QED
      BY <1>2, <1>3, <2>2, <2>3, <2>4, <2>5, ComputeFaultless
<1>6. CASE Comparison
  <2>1. OpAt(ip) \in Binary
      BY <1>6 DEF Comparison, Executes, OpAt, Binary
  <2>2. PopError(2, "int") \in RuntimeErrors
      BY <1>4, <2>1, PopErrorRuntime
  <2>3. Raise(PopError(2, "int")) \/ \E s : Compute(s)
      BY <1>6 DEF Comparison
  <2> QED
      BY <1>2, <1>3, <2>2, <2>3, ComputeFaultless
<1>7. CASE Equality
  <2>1. OpAt(ip) \in Binary
      BY <1>7 DEF Equality, Executes, OpAt, Binary
  <2>2. PopError(2, "any") \in RuntimeErrors
      BY <1>4, <2>1, PopErrorRuntime
  <2>3. \/ Raise(PopError(2, "any"))
        \/ Raise("equality operands must have the same type")
        \/ \E s : Compute(s)
      BY <1>7 DEF Equality
  <2>4. "equality operands must have the same type" \in RuntimeErrors
      BY DEF RuntimeErrors
  <2> QED
      BY <1>2, <1>3, <2>2, <2>3, <2>4, ComputeFaultless
<1>8. CASE Not
  <2>1. OpAt(ip) \in {"Not", "Neg"}
      BY <1>8 DEF Not, Executes, OpAt
  <2>2. PopError(1, "bool") \in RuntimeErrors
      BY <1>4, <2>1, PopErrorRuntime
  <2>3. Raise(PopError(1, "bool")) \/ \E s : Compute(s)
      BY <1>8 DEF Not
  <2> QED
      BY <1>2, <1>3, <2>2, <2>3, ComputeFaultless
<1>9. CASE Neg
  <2>1. OpAt(ip) \in {"Not", "Neg"}
      BY <1>9 DEF Neg, Executes, OpAt
  <2>2. PopError(1, "int") \in RuntimeErrors
      BY <1>4, <2>1, PopErrorRuntime
  <2>3. Raise(PopError(1, "int")) \/ \E s : Compute(s)
      BY <1>9 DEF Neg
  <2> QED
      BY <1>2, <1>3, <2>2, <2>3, ComputeFaultless
<1> QED
    BY <1>5, <1>6, <1>7, <1>8, <1>9

\* Jumps stay within the code.
LEMMA JumpsInRange ==
    ASSUME Runs
    PROVE  /\ OpAt(ip) \in {"Jump", "JumpIfFalse"} => jump_in_range(At(program, ip).a)
           /\ OpAt(ip) = "Stop" => /\ ip + 1 < Len(program.code) /\ OpAt(ip + 1) = "Jump"
                                   /\ jump_in_range(At(program, ip + 1).a)
<1>1. IsProgram(program) /\ WellFormed(program) /\ ip \in 0 .. last
    BY RunsAt DEF Runs, Compiled
<1>2. /\ last \in Nat /\ first \in Nat /\ first >= 1 /\ first <= last - 3
      /\ At(program, last - 1).a = first /\ OpAt(last - 1) = "Jump"
      /\ Len(program.code) = last + 1
    BY <1>1, Shape
<1>3. \A t \in 0 .. last : jump_in_range(t)
    BY <1>2 DEF jump_in_range
<1> SUFFICES ASSUME OpAt(ip) \in {"Jump", "JumpIfFalse", "Stop"}
             PROVE  /\ OpAt(ip) \in {"Jump", "JumpIfFalse"}
                          => jump_in_range(At(program, ip).a)
                    /\ OpAt(ip) = "Stop" => /\ ip + 1 < Len(program.code)
                                            /\ OpAt(ip + 1) = "Jump"
                                            /\ jump_in_range(At(program, ip + 1).a)
    OBVIOUS
<1>4. ip \in first + 1 .. last - 3 \/ ip = last - 1
  <2>1. ip # 0 /\ ip # first /\ ip # last - 2 /\ ip # last
      BY <1>1, Places
  <2>2. ip \notin 1 .. first - 1
      BY <1>1, Places DEF Placements
  <2> QED
      BY <1>1, <1>2, <2>1, <2>2
<1>5. CASE ip = last - 1
    BY <1>2, <1>3, <1>5
<1>6. CASE ip \in first + 1 .. last - 3
  <2>1. OpAt(ip) \in {"Jump", "JumpIfFalse"} => At(program, ip).a \in ip + 1 .. last - 2
      BY <1>1, <1>6, BodyJumps
  <2>2. CASE OpAt(ip) \in {"Jump", "JumpIfFalse"}
    <3>1. At(program, ip).a \in 0 .. last
        BY <1>2, <1>6, <2>1, <2>2
    <3> QED
        BY <1>3, <2>2, <3>1
  <2>3. CASE OpAt(ip) = "Stop"
    <3>1. ip + 1 \in first + 1 .. last - 3 /\ OpAt(ip + 1) = "Jump"
        BY <1>1, <1>2, <1>6, <2>3, BodyJumps
    <3>2. At(program, ip + 1).a \in ip + 2 .. last - 2
        BY <1>1, <1>2, <3>1, BodyJumps
    <3>3. At(program, ip + 1).a \in 0 .. last
        BY <1>2, <1>6, <3>2
    <3> QED
        BY <1>2, <1>3, <1>6, <2>3, <3>1, <3>3
  <2> QED
      BY <2>2, <2>3
<1> QED
    BY <1>4, <1>5, <1>6

LEMMA ControlFaultless ==
    ASSUME Runs, Jump \/ JumpIfFalse \/ Stop \/ NoHalt \/ LoadAgent
    PROVE  Faultless
<1>1. CASE Jump
  <2>1. OpAt(ip) = "Jump" /\ GoTo(At(program, ip).a)
      BY <1>1 DEF Jump, Executes, OpAt, instruction
  <2>2. jump_in_range(At(program, ip).a)
      BY <2>1, JumpsInRange
  <2>3. Kept /\ Advances /\ UNCHANGED error
      BY <2>1, <2>2 DEF GoTo, Kept, Advances, Loop, arguments, simulation, result
  <2> QED
      BY <2>1, <2>3, GoesOn DEF Placements
<1>2. CASE JumpIfFalse
  <2>1. OpAt(ip) = "JumpIfFalse"
      BY <1>2 DEF JumpIfFalse, Executes, OpAt
  <2>2. jump_in_range(instruction.a)
      BY <2>1, JumpsInRange DEF instruction
  <2>3. PopError(1, "bool") \in RuntimeErrors
    <3>1. Pops(OpAt(ip)) = 1
        BY <2>1 DEF Pops, ArithOps, CompareOps, EqualityOps
    <3> QED
        BY <3>1, PopErrorRuntime
  <2>4. \/ Raise(PopError(1, "bool"))
        \/ \E s : Compute(s)
        \/ ip' = At(program, ip).a /\ Kept /\ status' = status /\ UNCHANGED error
      BY <1>2, <2>2 DEF JumpIfFalse, Kept, arguments, simulation, result, instruction
  <2>5. Straight /\ OpAt(ip) \notin Placements
      BY <2>1 DEF Straight, Loop, Placements
  <2>6. Raise(PopError(1, "bool")) => Faultless
      BY <2>3 DEF Faultless
  <2>7. CASE ip' = At(program, ip).a /\ Kept /\ status' = status /\ UNCHANGED error
    <3>1. Advances
        BY <2>1, <2>7 DEF Advances, Loop
    <3> QED
        BY <2>5, <2>7, <3>1, GoesOn
  <2> QED
      BY <2>4, <2>5, <2>6, <2>7, ComputeFaultless
<1>3. CASE Stop
  <2>1. OpAt(ip) = "Stop"
      BY <1>3 DEF Stop, Executes, OpAt
  <2>2. /\ ip + 1 < Len(program.code) /\ OpAt(ip + 1) = "Jump"
        /\ jump_in_range(At(program, ip + 1).a)
      BY <2>1, JumpsInRange
  <2>3. ~(ip + 1 >= Len(program.code))
    <3>1. ip \in Int /\ Len(program.code) \in Int
        BY RunsAt, Shape DEF Runs, Compiled
    <3> QED
        BY <2>2, <3>1
  <2>4. GoTo(At(program, ip + 1).a)
      BY <1>3, <2>2, <2>3 DEF Stop, OpAt
  <2>5. Kept /\ Advances /\ UNCHANGED error
      BY <2>1, <2>2, <2>4 DEF GoTo, Kept, Advances, Loop, arguments, simulation, result
  <2> QED
      BY <2>1, <2>5, GoesOn DEF Placements
<1>4. CASE NoHalt
  <2>1. ip < Len(program.code) /\ ip \in Int /\ Len(program.code) \in Int
      BY RunsAt, Shape DEF Runs, Compiled
  <2>2. ip >= Len(program.code)
      BY <1>4 DEF NoHalt
  <2> QED
      BY <2>1, <2>2
<1>5. CASE LoadAgent
  <2>1. OpAt(ip) = "LoadAgent"
      BY <1>5 DEF LoadAgent, Executes, OpAt
  <2>2. KnownString
      BY <2>1, RunsAt DEF NamesString
  <2>3. ip' = ip + 1 /\ UNCHANGED <<arguments, ticks_completed, recorded_initial,
                                    simulation, frames, result>>
      BY <1>5, <2>2 DEF LoadAgent
  <2>4. Kept /\ Advances /\ UNCHANGED error
      BY <2>1, <2>3 DEF Kept, Advances, Loop, arguments, simulation, result
  <2> QED
      BY <2>1, <2>4, GoesOn DEF Placements
<1> QED
    BY <1>1, <1>2, <1>3, <1>4, <1>5

LEMMA BehaviourFaultless ==
    ASSUME Runs, Move \/ MoveToward \/ Turn \/ DistanceTo \/ ObstacleAhead \/ Collision
    PROVE  Faultless
<1>1. OpAt(ip) \in Moves \cup Turns
                   \cup {"MoveToward", "DistanceTo", "ObstacleAhead", "Collision"}
    BY DEF Move, MoveToward, Turn, DistanceTo, ObstacleAhead, Collision, Executes, OpAt
<1>2. Straight /\ OpAt(ip) \notin Placements
    BY <1>1 DEF Straight, Loop, Placements, Moves, Turns
<1>3. CASE MoveToward \/ DistanceTo
  <2>1. OpAt(ip) \in {"MoveToward", "DistanceTo"}
      BY <1>3 DEF MoveToward, DistanceTo, Executes, OpAt
  <2>2. KnownString
      BY <2>1, RunsAt DEF NamesString
  <2>3. (\E w : OnWorld(w)) \/ (\E v : Query(v))
      BY <1>3, <2>2 DEF MoveToward, DistanceTo
  <2> QED
      BY <1>2, <2>3, OnWorldFaultless, QueryFaultless
<1>4. CASE Move \/ Turn \/ ObstacleAhead \/ Collision
  <2>1. (\E w : OnWorld(w)) \/ (\E v : Query(v))
      BY <1>4 DEF Move, Turn, ObstacleAhead, Collision
  <2> QED
      BY <1>2, <2>1, OnWorldFaultless, QueryFaultless
<1> QED
    BY <1>3, <1>4

LEMMA TickFaultless ==
    ASSUME Runs, BeginTick \/ EndTick \/ Halt
    PROVE  Faultless
<1>. Sound /\ Ticking /\ WellFormed(program) /\ IsProgram(program)
    BY RunsAt DEF Runs, Compiled
<1>1. /\ last \in Nat /\ first \in Nat /\ first >= 1 /\ first <= last - 3
    BY Shape
<1>2. UNCHANGED <<program, max_ticks, created>>
    BY DEF BeginTick, EndTick, Halt, arguments, simulation
<1>3. first' = first
    BY <1>2 DEF first, LoopStart
<1>4. CASE BeginTick
  <2>1. ip \in 0 .. last /\ OpAt(ip) = "BeginTick"
      BY <1>4, AtPlace DEF BeginTick
  <2>2. ip = first /\ created
      BY <1>1, <2>1, Places, RunsAt
  <2>3. find_halt(ip) = last
      BY <1>1, <2>2, HaltIsLast
  <2>4. ip' \in {last, first + 1} /\ UNCHANGED <<status, error>>
      BY <1>4, <2>2, <2>3 DEF BeginTick, result
  <2>5. ip' \notin 1 .. first' - 1
      BY <1>1, <1>3, <2>4
  <2> QED
      BY <1>2, <2>4, <2>5 DEF Faultless, Built, Runs
<1>5. CASE EndTick
  <2>1. ip = last - 2
      BY <1>1, <1>5, AtPlace, Places DEF EndTick
  <2>2. find_halt(ip + 1) = last /\ find_halt(ip + 2) = last
      BY <1>1, <2>1, HaltIsLast
  <2>3. ip' \in {last, ip + 1} /\ UNCHANGED <<status, error>>
      BY <1>5, <2>2 DEF EndTick, result
  <2>4. ip' \notin 1 .. first' - 1
      BY <1>1, <1>3, <2>1, <2>3
  <2> QED
      BY <1>2, <2>3, <2>4 DEF Faultless, Built, Runs
<1>6. CASE Halt
  <2>1. ip \in 0 .. last /\ OpAt(ip) = "Halt"
      BY <1>6, AtPlace DEF Halt
  <2>2. ip = last /\ created
      BY <1>1, <2>1, Places, RunsAt
  <2>3. status' = "ok" /\ UNCHANGED error
      BY <1>6, <2>2 DEF Halt
  <2> QED
      BY <1>2, <2>3 DEF Faultless
<1> QED
    BY <1>4, <1>5, <1>6

\* The world is created as it is asked for, or the language asks for one that has
\* no grid.
LEMMA CreateWorldFine ==
    ASSUME Runs, CreateWorld
    PROVE  Fine'
<1>. Sound /\ Ticking /\ WellFormed(program) /\ IsProgram(program)
    BY RunsAt DEF Runs, Compiled
<1>1. ip = 0 /\ program.code # << >>
  <2>1. ip = 0 /\ ip < Len(program.code)
      BY AtPlace, Places, RunsAt DEF CreateWorld
  <2> QED
      BY <2>1
<1>2. /\ last \in Nat /\ first \in Nat /\ first >= 1 /\ first <= last - 3
    BY Shape
<1>3. At(program, 0).a \in Nat \ {0} /\ At(program, 0).b \in Nat \ {0}
    BY <1>1, Shape, ExecutesOperands DEF CreateWorld, instruction
<1>4. CASE ~Fits(instruction.a, instruction.b)
  <2>1. Die /\ NoGrid
      BY <1>1, <1>4 DEF CreateWorld, NoGrid, instruction
  <2> QED
      BY <2>1, FaultlessFine DEF Faultless
<1>5. CASE Fits(instruction.a, instruction.b)
  <2>1. /\ world' = NewWorld(At(program, 0).a, At(program, 0).b)
        /\ ip' = 1 /\ UNCHANGED <<program, max_ticks, status, error>>
      BY <1>1, <1>5 DEF CreateWorld, arguments, result, instruction
  <2>2. first' = first
      BY <2>1 DEF first, LoopStart
  <2>3. ~NoGrid'
      BY <1>1, <1>5, <2>1 DEF NoGrid, Fits, instruction
  <2>4. /\ world'.width = At(program, 0).a /\ world'.height = At(program, 0).b
        /\ \A c \in Cells(world') : world'.grid[c].kind = "empty"
        /\ DOMAIN world'.robots = {} /\ DOMAIN world'.targets = {}
      BY <2>1 DEF NewWorld, Cells
  <2>5. Built'
      BY <2>1, <2>4 DEF Built
  <2>6. status' = "running" /\ (max_ticks >= 0 => error \in RuntimeErrors)'
      BY <2>1 DEF Runs, Fine, NoInternalError, RuntimeErrors
  <2> QED
      BY <2>3, <2>5, <2>6 DEF Fine, NoInternalError
<1> QED
    BY <1>4, <1>5

\* A placement of compiled code finds its cell free and its name new.
LEMMA PlacementFine ==
    ASSUME Runs, CreateRobot \/ CreateTarget \/ CreateObstacle
    PROVE  Faultless
<1>. WellFormed(program) /\ IsProgram(program) /\ Placeable(program)
    BY RunsAt DEF Runs, Compiled
<1>. IsWorld(world, Strings)
    BY DEF Runs, Sound, SoundWorld
<1>1. OpAt(ip) \in Placements
    BY DEF CreateRobot, CreateTarget, CreateObstacle, Executes, OpAt, Placements
<1>2. /\ last \in Nat /\ first \in Nat /\ first >= 1 /\ first <= last - 3
      /\ At(program, last - 1).a = first /\ OpAt(last - 1) = "Jump"
    BY Shape
<1>3. ip \in 1 .. first - 1 /\ created
  <2>1. ip \in 0 .. last /\ OpAt(ip) \notin Loop
      BY <1>1, RunsAt DEF Placements, Loop
  <2>2. ip # 0 /\ ip # first /\ ip # last - 2 /\ ip # last
      BY <2>1, Places DEF Loop
  <2>3. ip # last - 1
      BY <1>1, <1>2 DEF Placements
  <2>4. ip \notin first + 1 .. last - 3
    <3>1. OpAt(ip) \notin BodyOpcodes
        BY <1>1 DEF Placements, BodyOpcodes, Moves, Turns
    <3> QED
        BY <2>1, <3>1, Places
  <2> QED
      BY <1>2, <2>1, <2>2, <2>3, <2>4, RunsAt
<1>4. /\ world.width = At(program, 0).a /\ world.height = At(program, 0).b
      /\ \A c \in Cells(world) : world.grid[c].kind # "empty" =>
            \E j \in 1 .. ip - 1 : Site(program, j) = c
      /\ \A name \in DOMAIN world.robots : \E j \in 1 .. ip - 1 :
            OpAt(j) = "CreateRobot" /\ Text(program, At(program, j).a) = name
      /\ \A name \in DOMAIN world.targets : \E j \in 1 .. ip - 1 :
            OpAt(j) = "CreateTarget" /\ Text(program, At(program, j).a) = name
    BY <1>3 DEF Runs, Fine, Built
<1> DEFINE x == Site(program, ip)[1]
           y == Site(program, ip)[2]
           name == Text(program, At(program, ip).a)
<1>5. /\ Site(program, ip) = <<x, y>> /\ <<x, y>> \in Cells(world)
      /\ x \in Int /\ y \in Int /\ in_bounds(world, x, y)
      /\ OpAt(ip) = "CreateObstacle" => x = instruction.a /\ y = instruction.b
      /\ OpAt(ip) # "CreateObstacle" => x = instruction.b /\ y = instruction.c
  <2>1. Site(program, ip) \in (0 .. world.width - 1) \X (0 .. world.height - 1)
      BY <1>3, <1>4 DEF Placeable, first
  <2>2. world.width \in Nat /\ world.height \in Nat
      BY DEF IsWorld
  <2>3. /\ Site(program, ip) = <<x, y>> /\ x \in 0 .. world.width - 1
        /\ y \in 0 .. world.height - 1
      BY <2>1
  <2>4. /\ OpAt(ip) = "CreateObstacle" => x = instruction.a /\ y = instruction.b
        /\ OpAt(ip) # "CreateObstacle" => x = instruction.b /\ y = instruction.c
      BY DEF Site, OpAt, instruction
  <2> HIDE DEF x, y
  <2> QED
      BY <2>2, <2>3, <2>4 DEF Cells, in_bounds
<1> HIDE DEF x, y
<1>6. is_passable(world, x, y)
  <2>1. \A j \in 1 .. ip - 1 : Site(program, j) # Site(program, ip)
      BY <1>3 DEF Placeable, first
  <2>2. world.grid[<<x, y>>].kind = "empty"
      BY <1>4, <1>5, <2>1
  <2> QED
      BY <1>5, <2>2 DEF is_passable
<1>7. /\ OpAt(ip) = "CreateRobot" => name \notin DOMAIN world.robots
      /\ OpAt(ip) = "CreateTarget" => name \notin DOMAIN world.targets
  <2>1. \A j \in 1 .. ip - 1 :
           OpAt(ip) \in {"CreateRobot", "CreateTarget"} /\ OpAt(j) = OpAt(ip)
               => Text(program, At(program, j).a) # name
      BY <1>3 DEF Placeable, first, OpAt
  <2> QED
      BY <1>4, <2>1
<1> HIDE DEF name
<1>8. ASSUME NEW v, Filled(world, v, x, y), Act(v),
             \/ OpAt(ip) = "CreateRobot" /\ DOMAIN v.robots = DOMAIN world.robots \cup {name}
                /\ v.targets = world.targets
             \/ OpAt(ip) = "CreateTarget" /\ DOMAIN v.targets = DOMAIN world.targets \cup {name}
                /\ v.robots = world.robots
             \/ v.robots = world.robots /\ v.targets = world.targets
      PROVE  Faultless
  <2>1. /\ world' = v /\ ip' = ip + 1
        /\ UNCHANGED <<program, max_ticks, created, status, error>>
      BY <1>8 DEF Act, arguments, result
  <2>2. ip \in Nat /\ ip >= 1
      BY <1>2, <1>3
  <2>3. /\ \A j \in 1 .. ip - 1 : j \in 1 .. ip' - 1
        /\ ip \in 1 .. ip' - 1
      BY <2>1, <2>2
  <2>4. v.width = world.width /\ v.height = world.height /\ Cells(v) = Cells(world)
      BY <1>8 DEF Filled, Cells
  <2>5. \A c \in Cells(v) : v.grid[c].kind # "empty" =>
            \E j \in 1 .. ip' - 1 : Site(program, j) = c
    <3> SUFFICES ASSUME NEW c \in Cells(v), v.grid[c].kind # "empty"
                 PROVE  \E j \in 1 .. ip' - 1 : Site(program, j) = c
        OBVIOUS
    <3>1. c = Site(program, ip) \/ world.grid[c].kind # "empty"
        BY <1>5, <1>8, <2>4 DEF Filled
    <3> QED
        BY <1>4, <2>3, <2>4, <3>1
  <2>6. \A n \in DOMAIN v.robots : \E j \in 1 .. ip' - 1 :
            OpAt(j) = "CreateRobot" /\ Text(program, At(program, j).a) = n
      BY <1>4, <1>8, <2>3 DEF name
  <2>7. \A n \in DOMAIN v.targets : \E j \in 1 .. ip' - 1 :
            OpAt(j) = "CreateTarget" /\ Text(program, At(program, j).a) = n
      BY <1>4, <1>8, <2>3 DEF name
  <2>8. Built'
      BY <1>4, <2>1, <2>4, <2>5, <2>6, <2>7 DEF Built, OpAt
  <2> QED
      BY <2>1, <2>8 DEF Faultless, Runs
<1>9. CASE CreateRobot
  <2>1. OpAt(ip) = "CreateRobot"
      BY <1>9 DEF CreateRobot, Executes, OpAt
  <2>2. KnownString
      BY <2>1, RunsAt DEF NamesString
  <2>3. Place(place_robot(world, name, x, y))
      BY <1>5, <1>9, <2>1, <2>2 DEF CreateRobot, string, instruction, name
  <2>4. LET placed == place_robot(world, name, x, y)
        IN  /\ placed.ok /\ Filled(world, placed.world, x, y)
            /\ DOMAIN placed.world.robots = DOMAIN world.robots \cup {name}
            /\ placed.world.targets = world.targets
      BY <1>5, <1>6, <1>7, <2>1, PlacementFills
  <2>5. Act(place_robot(world, name, x, y).world)
      BY <1>3, <2>3, <2>4 DEF Place
  <2> QED
      BY <1>8, <2>1, <2>4, <2>5
<1>10. CASE CreateTarget
  <2>1. OpAt(ip) = "CreateTarget"
      BY <1>10 DEF CreateTarget, Executes, OpAt
  <2>2. KnownString
      BY <2>1, RunsAt DEF NamesString
  <2>3. Place(place_target(world, name, x, y))
      BY <1>5, <1>10, <2>1, <2>2 DEF CreateTarget, string, instruction, name
  <2>4. LET placed == place_target(world, name, x, y)
        IN  /\ placed.ok /\ Filled(world, placed.world, x, y)
            /\ DOMAIN placed.world.targets = DOMAIN world.targets \cup {name}
            /\ placed.world.robots = world.robots
      BY <1>5, <1>6, <1>7, <2>1, PlacementFills
  <2>5. Act(place_target(world, name, x, y).world)
      BY <1>3, <2>3, <2>4 DEF Place
  <2> QED
      BY <1>8, <2>1, <2>4, <2>5
<1>11. CASE CreateObstacle
  <2>1. OpAt(ip) = "CreateObstacle"
      BY <1>11 DEF CreateObstacle, Executes, OpAt
  <2>2. Place(place_obstacle(world, x, y))
      BY <1>5, <1>11, <2>1 DEF CreateObstacle
  <2>3. LET placed == place_obstacle(world, x, y)
        IN  /\ placed.ok /\ Filled(world, placed.world, x, y)
            /\ placed.world.robots = world.robots
            /\ placed.world.targets = world.targets
      BY <1>5, <1>6, ObstacleFills
  <2>4. Act(place_obstacle(world, x, y).world)
      BY <1>3, <2>2, <2>3 DEF Place
  <2> QED
      BY <1>8, <2>3, <2>4
<1> QED
    BY <1>9, <1>10, <1>11

LEMMA InitFine == Init => Fine
<1> SUFFICES ASSUME Init, Compiled PROVE NoInternalError /\ Built
    BY DEF Fine
<1>1. ip = 0 /\ ~created /\ max_ticks \in Int
    BY TickCountsAssumption DEF Init, Start, Ready
<1>2. status # "aborted" /\ (max_ticks >= 0 => error = NoError)
  <2>1. CASE max_ticks < 0
    <3>1. status = "error"
        BY <2>1 DEF Init, Start
    <3>2. ~(max_ticks >= 0)
        BY <1>1, <2>1
    <3> QED
        BY <3>1, <3>2
  <2>2. CASE ~(max_ticks < 0)
      BY <2>2 DEF Init, Start
  <2> QED
      BY <2>1, <2>2
<1>3. first \in Nat
    BY ProgramsAssumption, Shape DEF Init, Compiled
<1>4. Built
    BY <1>1, <1>3 DEF Built
<1> QED
    BY <1>1, <1>2, <1>4 DEF NoInternalError, RuntimeErrors

LEMMA NextFine ==
    Sound /\ Typed /\ Ticking /\ Depth /\ Fine /\ [Next]_vars => Fine'
<1> SUFFICES ASSUME Sound, Typed, Ticking, Depth, Fine, [Next]_vars, Compiled
             PROVE  Fine'
    BY ProgramStays DEF Fine, Compiled
<1>1. CASE UNCHANGED vars
  <2>1. UNCHANGED <<program, max_ticks, ip, stack, created, world, status, error>>
      BY <1>1 DEF vars, arguments, simulation, result
  <2>2. NoInternalError' <=> NoInternalError
      BY <2>1 DEF NoInternalError, NoGrid, Fits, DivisionTraps, Traps, instruction, Top,
         RuntimeErrors
  <2>3. Built' <=> Built
      BY <2>1 DEF Built, first, LoopStart, OpAt, Cells
  <2> QED
      BY <2>1, <2>2, <2>3 DEF Fine
<1>2. CASE Returned
    BY <1>1, <1>2 DEF Returned
<1>3. CASE Step
  <2>1. Runs
      BY <1>3 DEF Runs, Step, Executes, PushConst, PushBool, LoadVar, StoreVar, Pop,
         Arithmetic, Comparison, Equality, Not, Neg, Jump, JumpIfFalse, Stop, Halt, NoHalt,
         CreateWorld, CreateRobot, CreateTarget, CreateObstacle, BeginTick, EndTick,
         LoadAgent, Move, MoveToward, Turn, DistanceTo, ObstacleAhead, Collision
  <2> QED
      BY <1>3, <2>1, StackFaultless, OperatorFaultless, ControlFaultless,
         BehaviourFaultless, TickFaultless, PlacementFine, CreateWorldFine, FaultlessFine
      DEF Step
<1> QED
    BY <1>1, <1>2, <1>3 DEF Next

LEMMA FineAlways == Spec => [](Sound /\ Typed /\ Ticking /\ Depth /\ Fine)
<1>1. Init => Sound /\ Typed /\ Ticking /\ Depth /\ Fine
    BY InitSound, InitTyped, InitTicks, InitDepth, InitFine
<1>2. (Sound /\ Typed /\ Ticking /\ Depth /\ Fine) /\ [Next]_vars
          => (Sound /\ Typed /\ Ticking /\ Depth /\ Fine)'
    BY NextSound, NextTyped, NextTicks, NextDepth, NextFine
<1> QED
    BY <1>1, <1>2, PTL DEF Spec

\* Compiled code never makes the machine fail on its own account: it finds its
\* operands, its strings, its jump targets and its Halt, and each of its placements
\* succeeds.  What is left are the errors of the program, and a world too big or a
\* division that traps.
THEOREM OnlyProgramErrors ==
    Spec /\ WellFormed(program) /\ Balanced(program) /\ Placeable(program)
        => []NoInternalError
<1>1. Compiled /\ [Next]_vars => Compiled'
    BY ProgramStays DEF Compiled
<1>2. Fine /\ Compiled => NoInternalError
    BY DEF Fine
<1>3. Spec /\ Compiled => []Compiled
    BY <1>1, PTL DEF Spec
<1>4. Spec /\ Compiled => []NoInternalError
    BY <1>2, <1>3, FineAlways, PTL
<1> QED
    BY <1>4 DEF Compiled

-----------------------------------------------------------------------------
(* The machine on compiled code is a legal client of the Simulation: the    *)
(* refinement DrivesSimulation, step by step.  The invariant says what the  *)
(* abstract machine asks of its client: the names of what is placed, the    *)
(* dimensions of the world, and that it is constructed once.                *)

-----------------------------------------------------------------------------
(* The operations of a world, seen from the Simulation, are the machine's.  *)

LEMMA SameHelpers ==
    /\ Client!NoLabel = NoLabel
    /\ \A width, height : Client!NewWorld(width, height) = NewWorld(width, height)
    /\ \A w, x, y : Client!in_bounds(w, x, y) <=> in_bounds(w, x, y)
    /\ \A f, k, v : Client!With(f, k, v) = With(f, k, v)
    /\ \A w : Client!Failed(w) = Failed(w)
    /\ \A w, name : Client!collide(w, name) = collide(w, name)
    /\ \A d : Client!direction_delta(d) = direction_delta(d)
    /\ \A n : Client!abs(n) = abs(n)
    /\ \A d : Client!turn_left(d) = turn_left(d) /\ Client!turn_right(d) = turn_right(d)
    /\ \A w, name, d : Client!turn_to(w, name, d) = turn_to(w, name, d)
<1>1. Client!NoLabel = NoLabel
    BY DEF Client!NoLabel, NoLabel
<1>2. \A width, height : Client!NewWorld(width, height) = NewWorld(width, height)
    BY <1>1 DEF Client!NewWorld, NewWorld
<1>3. \A w, x, y : Client!in_bounds(w, x, y) <=> in_bounds(w, x, y)
    BY DEF Client!in_bounds, in_bounds
<1>4. \A f, k, v : Client!With(f, k, v) = With(f, k, v)
    BY DEF Client!With, With
<1>5. \A w : Client!Failed(w) = Failed(w)
    BY DEF Client!Failed, Failed
<1>6. \A w, name : Client!collide(w, name) = collide(w, name)
    BY DEF Client!collide, collide
<1>7. \A d : Client!direction_delta(d) = direction_delta(d)
    BY DEF Client!direction_delta, direction_delta
<1>8. \A n : Client!abs(n) = abs(n)
    BY DEF Client!abs, abs
<1>9. \A d : Client!turn_left(d) = turn_left(d) /\ Client!turn_right(d) = turn_right(d)
    BY DEF Client!turn_left, turn_left, Client!turn_right, turn_right
<1>10. \A w, name, d : Client!turn_to(w, name, d) = turn_to(w, name, d)
    BY DEF Client!turn_to, turn_to
<1> QED
    BY <1>1, <1>2, <1>3, <1>4, <1>5, <1>6, <1>7, <1>8, <1>9, <1>10

LEMMA SamePlacements ==
    /\ \A w, name, x, y : Client!place_robot(w, name, x, y) = place_robot(w, name, x, y)
    /\ \A w, name, x, y : Client!place_target(w, name, x, y) = place_target(w, name, x, y)
    /\ \A w, x, y : Client!place_obstacle(w, x, y) = place_obstacle(w, x, y)
<1>1. \A w, x, y : Client!is_passable(w, x, y) <=> is_passable(w, x, y)
    BY SameHelpers DEF Client!is_passable, is_passable
<1>2. ASSUME NEW w, NEW name, NEW x, NEW y
      PROVE  Client!place_robot(w, name, x, y) = place_robot(w, name, x, y)
  <2>1. CASE name \in DOMAIN w.robots \/ ~is_passable(w, x, y)
      BY <1>1, <2>1, SameHelpers DEF Client!place_robot, place_robot
  <2>2. CASE ~(name \in DOMAIN w.robots \/ ~is_passable(w, x, y))
      BY <1>1, <2>2, SameHelpers DEF Client!place_robot, place_robot
  <2> QED
      BY <2>1, <2>2
<1>3. ASSUME NEW w, NEW name, NEW x, NEW y
      PROVE  Client!place_target(w, name, x, y) = place_target(w, name, x, y)
  <2>1. CASE name \in DOMAIN w.targets \/ ~is_passable(w, x, y)
      BY <1>1, <2>1, SameHelpers DEF Client!place_target, place_target
  <2>2. CASE ~(name \in DOMAIN w.targets \/ ~is_passable(w, x, y))
      BY <1>1, <2>2, SameHelpers DEF Client!place_target, place_target
  <2> QED
      BY <2>1, <2>2
<1>4. \A w, x, y : Client!place_obstacle(w, x, y) = place_obstacle(w, x, y)
    BY <1>1, SameHelpers DEF Client!place_obstacle, place_obstacle
<1> QED
    BY <1>2, <1>3, <1>4

LEMMA SameMoves ==
    /\ \A w, name : /\ Client!move_up(w, name) = move_up(w, name)
                    /\ Client!move_down(w, name) = move_down(w, name)
                    /\ Client!move_left(w, name) = move_left(w, name)
                    /\ Client!move_right(w, name) = move_right(w, name)
                    /\ Client!move_forward(w, name) = move_forward(w, name)
    /\ \A w, name, t : Client!move_toward(w, name, t) = move_toward(w, name, t)
<1>1. \A w, x, y : Client!can_enter_cell(w, x, y) <=> can_enter_cell(w, x, y)
    BY SameHelpers DEF Client!can_enter_cell, can_enter_cell
<1>2. \A w, name, dx, dy :
         Client!try_move_robot(w, name, dx, dy) = try_move_robot(w, name, dx, dy)
    BY <1>1, SameHelpers DEF Client!try_move_robot, try_move_robot
<1>3. \A w, name, dx, dy : Client!move(w, name, dx, dy) = move(w, name, dx, dy)
    BY <1>2, SameHelpers DEF Client!move, move
<1>4. \A w, name : /\ Client!move_up(w, name) = move_up(w, name)
                   /\ Client!move_down(w, name) = move_down(w, name)
                   /\ Client!move_left(w, name) = move_left(w, name)
                   /\ Client!move_right(w, name) = move_right(w, name)
    BY <1>3 DEF Client!move_up, move_up, Client!move_down, move_down,
       Client!move_left, move_left, Client!move_right, move_right
<1>5. \A w, name : Client!move_forward(w, name) = move_forward(w, name)
    BY <1>2, SameHelpers DEF Client!move_forward, move_forward
<1>6. \A w, name, t : Client!move_toward(w, name, t) = move_toward(w, name, t)
    BY <1>2, SameHelpers DEF Client!move_toward, move_toward
<1> QED
    BY <1>4, <1>5, <1>6

LEMMA SameTurns ==
    \A w, name : /\ Client!turn_robot_left(w, name) = turn_robot_left(w, name)
                 /\ Client!turn_robot_right(w, name) = turn_robot_right(w, name)
                 /\ Client!clear_collision_flags(w) = clear_collision_flags(w)
<1>1. \A r : Client!Unflagged(r) = Unflagged(r)
    BY DEF Client!Unflagged, Unflagged
<1>2. \A w : Client!clear_collision_flags(w) = clear_collision_flags(w)
    BY <1>1 DEF Client!clear_collision_flags, clear_collision_flags
<1>3. \A w, name : /\ Client!turn_robot_left(w, name) = turn_robot_left(w, name)
                   /\ Client!turn_robot_right(w, name) = turn_robot_right(w, name)
    BY SameHelpers DEF Client!turn_robot_left, turn_robot_left,
       Client!turn_robot_right, turn_robot_right
<1> QED
    BY <1>2, <1>3

-----------------------------------------------------------------------------
(* What the machine keeps.                                                  *)

Declared == WellFormed(program) /\ Declares(program)

\* Inductive, of code that declares this world: it has the dimensions of the
\* abstract one, and the names that may be placed.
Hosted ==
    Declared /\ created =>
        /\ world.width = Width /\ world.height = Height
        /\ DOMAIN world.robots \subseteq RobotNames
        /\ DOMAIN world.targets \subseteq TargetNames

\* The robots whose flags are set: those that have failed, to the abstract machine.
Flagged(w) == {r \in DOMAIN w.robots : collision(w, r)}

LEMMA RequestedFlags ==
    ASSUME NEW w, NEW name \in DOMAIN w.robots, NEW outcome, Requested(w, name, outcome)
    PROVE  /\ ~outcome.ok => Flagged(outcome.world) = Flagged(w) \cup {name}
           /\ outcome.ok => Flagged(outcome.world) = Flagged(w)
<1>1. Effect(w, outcome.world, name, ~outcome.ok)
    BY DEF Requested
<1>2. CASE outcome.ok
    BY <1>1, <1>2 DEF Effect, Flagged, collision
<1>3. CASE ~outcome.ok
    BY <1>1, <1>3 DEF Effect, Flagged, collision
<1> QED
    BY <1>2, <1>3

\* What a step that changes the world leaves alone.
Hosts == created /\ UNCHANGED <<program, created, initial_world, tick>>

\* What a step that is none of the Simulation's does.
Stands == UNCHANGED <<program, created, world, initial_world, tick>>

LEMMA StandsStutters ==
    ASSUME Stands, Hosted
    PROVE  Hosted' /\ UNCHANGED Client!vars
<1>1. Hosted'
    BY DEF Stands, Hosted, Declared
<1>2. UNCHANGED World0
    BY DEF Stands, World0
<1>3. UNCHANGED Client!vars
    BY <1>2 DEF Stands, Client!vars, Client!histories
<1> QED
    BY <1>1, <1>3

LEMMA HostWorld ==
    ASSUME Hosts
    PROVE  World0 = world /\ World0' = world' /\ created'
BY DEF Hosts, World0

LEMMA PlaceDrives ==
    ASSUME Hosts, NEW outcome, world' = outcome.world, Flagged(world') = Flagged(world)
    PROVE  Client!Place(outcome)
BY HostWorld DEF Client!Place, Client!histories, Hosts, Flagged

LEMMA MoveDrives ==
    ASSUME Hosts, NEW name \in DOMAIN world.robots, NEW outcome, world' = outcome.world,
           Requested(world, name, outcome)
    PROVE  /\ Client!Move(name, Client!Placed(name), outcome)
           /\ \A t \in DOMAIN world.targets :
                 Client!Move(name, Client!Placed(name) /\ t \in DOMAIN World0.targets, outcome)
<1>1. /\ ~outcome.ok => Flagged(world') = Flagged(world) \cup {name}
      /\ outcome.ok => Flagged(world') = Flagged(world)
    BY RequestedFlags
<1>2. CASE outcome.ok
    BY <1>1, <1>2, HostWorld DEF Client!Move, Client!Placed, Hosts, Flagged
<1>3. CASE ~outcome.ok
    BY <1>1, <1>3, HostWorld DEF Client!Move, Client!Placed, Hosts, Flagged
<1> QED
    BY <1>2, <1>3

-----------------------------------------------------------------------------
(* Each step is an operation of the Simulation, or none.                    *)

Drives == Hosted' /\ [Client!Next]_(Client!vars)

LEMMA StandsDrives == ASSUME Hosted, Stands PROVE Drives
BY StandsStutters DEF Drives

LEMMA EndsStands == ASSUME (\E m : Raise(m)) \/ Die PROVE Stands
BY DEF Raise, Die, Stands, arguments, simulation

LEMMA QuietStands ==
    ASSUME \/ PushConst \/ PushBool \/ LoadVar \/ StoreVar \/ Pop
           \/ Arithmetic \/ Comparison \/ Equality \/ Not \/ Neg
           \/ Jump \/ JumpIfFalse \/ Stop \/ Halt \/ NoHalt \/ LoadAgent
           \/ DistanceTo \/ ObstacleAhead \/ Collision
    PROVE  Stands
<1>1. ASSUME NEW s, Compute(s) PROVE Stands
    BY <1>1 DEF Compute, Stands, arguments, simulation
<1>2. ASSUME NEW t, GoTo(t) PROVE Stands
    BY <1>2, EndsStands DEF GoTo, Stands, arguments, simulation
<1>3. ASSUME NEW v, Query(v) PROVE Stands
    BY <1>1, <1>3, EndsStands DEF Query
<1>4. CASE PushConst \/ PushBool \/ LoadVar \/ StoreVar \/ Pop
  <2>1. \/ \E m : Raise(m)
        \/ \E s : Compute(s)
        \/ Stands
      BY <1>4 DEF PushConst, PushBool, LoadVar, StoreVar, Pop, Stands, arguments, simulation
  <2> QED
      BY <1>1, <2>1, EndsStands
<1>5. CASE Arithmetic \/ Comparison \/ Equality \/ Not \/ Neg
  <2>1. (\E m : Raise(m)) \/ Die \/ (\E s : Compute(s))
      BY <1>5 DEF Arithmetic, Comparison, Equality, Not, Neg
  <2> QED
      BY <1>1, <2>1, EndsStands
<1>6. CASE Jump \/ JumpIfFalse \/ Stop \/ NoHalt \/ LoadAgent
  <2>1. \/ \E m : Raise(m)
        \/ \E s : Compute(s)
        \/ \E t : GoTo(t)
        \/ Stands
      BY <1>6 DEF Jump, JumpIfFalse, Stop, NoHalt, LoadAgent, Stands, arguments, simulation
  <2> QED
      BY <1>1, <1>2, <2>1, EndsStands
<1>7. CASE Halt
    BY <1>7 DEF Halt, Stands, arguments, simulation
<1>8. CASE DistanceTo \/ ObstacleAhead \/ Collision
  <2>1. (\E m : Raise(m)) \/ (\E v : Query(v))
      BY <1>8 DEF DistanceTo, ObstacleAhead, Collision
  <2> QED
      BY <1>3, <2>1, EndsStands
<1> QED
    BY <1>4, <1>5, <1>6, <1>7, <1>8

\* The dimensions and the names after a step that changes neither.
LEMMA HostsKeeps ==
    ASSUME Hosted, Hosts, world'.width = world.width, world'.height = world.height,
           DOMAIN world'.robots = DOMAIN world.robots,
           DOMAIN world'.targets = DOMAIN world.targets
    PROVE  Hosted'
BY DEF Hosted, Hosts, Declared

LEMMA CreateWorldDrives ==
    ASSUME Sound, Ticking, Hosted, Declared, CreateWorld
    PROVE  Drives
<1>1. ip = 0 /\ tick = 0 /\ ~created
  <2>1. ip \in 0 .. last /\ OpAt(ip) = "CreateWorld" /\ Where /\ IsProgram(program)
      BY AtPlace DEF CreateWorld, Declared
  <2> QED
      BY <2>1, Places DEF Declared, Where
<1>2. CASE ~Fits(instruction.a, instruction.b)
    BY <1>2, EndsStands, StandsDrives DEF CreateWorld
<1>3. CASE Fits(instruction.a, instruction.b)
  <2>1. /\ created' /\ world' = NewWorld(Width, Height) /\ initial_world' = world'
        /\ tick' = 0
      BY <1>1, <1>3 DEF CreateWorld, instruction, Declared, Declares
  <2>2. World0 = NewWorld(Width, Height) /\ World0' = NewWorld(Width, Height)
      BY <1>1, <2>1 DEF World0
  <2>3. DOMAIN World0.robots = {} /\ DOMAIN World0'.robots = {}
      BY <2>2 DEF NewWorld
  <2>4. Client!Construct
      BY <1>1, <2>1, <2>2, <2>3 DEF Client!Construct
  <2>5. /\ world'.width = Width /\ world'.height = Height
        /\ DOMAIN world'.robots = {} /\ DOMAIN world'.targets = {}
      BY <2>1 DEF NewWorld
  <2>6. Hosted'
      BY <2>5 DEF Hosted
  <2> QED
      BY <2>4, <2>6 DEF Drives, Client!Next
<1> QED
    BY <1>2, <1>3

\* Where an instruction that places something stands, and what it names.
LEMMA PlacesDeclared ==
    ASSUME Sound, Ticking, Declared, NEW op \in Placements, Executes({op})
    PROVE  /\ op = "CreateRobot" => string \in RobotNames
           /\ op = "CreateTarget" => string \in TargetNames
<1>1. IsProgram(program) /\ ip \in 0 .. last /\ OpAt(ip) = op /\ WellFormed(program)
    BY AtPlace DEF Declared
<1>2. /\ last \in Nat /\ first \in Nat /\ first >= 1 /\ first <= last - 3
      /\ OpAt(last - 1) = "Jump"
    BY <1>1, Shape
<1>3. op \notin Loop /\ op \notin BodyOpcodes /\ op # "Jump"
    BY DEF Placements, Loop, BodyOpcodes, Moves, Turns
<1>4. ip # 0 /\ ip # first /\ ip # last - 2 /\ ip # last
    BY <1>1, <1>3, Places DEF Loop
<1>5. ip \notin first + 1 .. last - 3 /\ ip # last - 1
    BY <1>1, <1>2, <1>3, Places
<1>6. ip \in 1 .. first - 1
    BY <1>1, <1>2, <1>4, <1>5
<1> QED
    BY <1>1, <1>6 DEF Declared, Declares, OpAt, first, string, instruction

LEMMA PlacementDrives ==
    ASSUME Sound, Ticking, Hosted, Declared, CreateRobot \/ CreateTarget \/ CreateObstacle
    PROVE  Drives
<1>. IsWorld(world, Strings) /\ Consistent(world)
    BY DEF Sound, SoundWorld
<1>1. instruction.a \in Int /\ instruction.b \in Int /\ instruction.c \in Int
    BY ExecutesOperands DEF CreateRobot, CreateTarget, CreateObstacle
<1>2. ASSUME NEW x \in Int, NEW y \in Int, created, is_passable(world, x, y)
      PROVE  <<x, y>> \in Sites
    BY <1>2, DimensionsAssumption DEF is_passable, in_bounds, Sites, Hosted
<1>3. ASSUME NEW v, Act(v), created, Placement(world, v),
             NEW x, NEW y, Filled(world, v, x, y),
             DOMAIN v.robots \subseteq RobotNames, DOMAIN v.targets \subseteq TargetNames
      PROVE  Hosts /\ Flagged(world') = Flagged(world) /\ world' = v /\ Hosted'
  <2>1. Hosts /\ world' = v
      BY <1>3 DEF Act, Hosts, arguments
  <2>2. Flagged(v) = Flagged(world)
      BY <1>3 DEF Placement, Flagged, collision
  <2>3. Hosted'
      BY <1>3, <2>1 DEF Hosted, Hosts, Filled
  <2> QED
      BY <2>1, <2>2, <2>3
<1>4. CASE CreateRobot
  <2> DEFINE x == instruction.b
             y == instruction.c
             placed == place_robot(world, string, x, y)
  <2>1. Stands \/ (KnownString /\ created /\ placed.ok /\ Act(placed.world))
      BY <1>4, EndsStands DEF CreateRobot, Place
  <2>2. CASE KnownString /\ created /\ placed.ok /\ Act(placed.world)
    <3>1. is_passable(world, x, y) /\ string \notin DOMAIN world.robots
        BY <2>2 DEF place_robot, Failed
    <3>2. string \in RobotNames
        BY <1>4, PlacesDeclared DEF CreateRobot, Placements
    <3>3. /\ Filled(world, placed.world, x, y)
          /\ DOMAIN placed.world.robots = DOMAIN world.robots \cup {string}
          /\ placed.world.targets = world.targets
        BY <1>1, <3>1, PlacementFills
    <3>4. Placement(world, placed.world)
        BY <1>1, PlacementEffect
    <3>5. Hosts /\ Flagged(world') = Flagged(world) /\ world' = placed.world /\ Hosted'
        BY <1>3, <2>2, <3>2, <3>3, <3>4 DEF Hosted
    <3>6. <<x, y>> \in Sites
        BY <1>1, <1>2, <2>2, <3>1
    <3>7. Client!Place(Client!place_robot(World0, string, x, y))
        BY <3>5, HostWorld, PlaceDrives, SamePlacements
    <3>8. Client!PlaceRobot
        BY <3>2, <3>6, <3>7 DEF Client!PlaceRobot
    <3> QED
        BY <3>5, <3>8 DEF Drives, Client!Next
  <2> QED
      BY <2>1, <2>2, StandsDrives
<1>5. CASE CreateTarget
  <2> DEFINE x == instruction.b
             y == instruction.c
             placed == place_target(world, string, x, y)
  <2>1. Stands \/ (KnownString /\ created /\ placed.ok /\ Act(placed.world))
      BY <1>5, EndsStands DEF CreateTarget, Place
  <2>2. CASE KnownString /\ created /\ placed.ok /\ Act(placed.world)
    <3>1. is_passable(world, x, y) /\ string \notin DOMAIN world.targets
        BY <2>2 DEF place_target, Failed
    <3>2. string \in TargetNames
        BY <1>5, PlacesDeclared DEF CreateTarget, Placements
    <3>3. /\ Filled(world, placed.world, x, y)
          /\ DOMAIN placed.world.targets = DOMAIN world.targets \cup {string}
          /\ placed.world.robots = world.robots
        BY <1>1, <3>1, PlacementFills
    <3>4. Placement(world, placed.world)
        BY <1>1, PlacementEffect
    <3>5. Hosts /\ Flagged(world') = Flagged(world) /\ world' = placed.world /\ Hosted'
        BY <1>3, <2>2, <3>2, <3>3, <3>4 DEF Hosted
    <3>6. <<x, y>> \in Sites
        BY <1>1, <1>2, <2>2, <3>1
    <3>7. Client!Place(Client!place_target(World0, string, x, y))
        BY <3>5, HostWorld, PlaceDrives, SamePlacements
    <3>8. Client!PlaceTarget
        BY <3>2, <3>6, <3>7 DEF Client!PlaceTarget
    <3> QED
        BY <3>5, <3>8 DEF Drives, Client!Next
  <2> QED
      BY <2>1, <2>2, StandsDrives
<1>6. CASE CreateObstacle
  <2> DEFINE x == instruction.a
             y == instruction.b
             placed == place_obstacle(world, x, y)
  <2>1. Stands \/ (created /\ placed.ok /\ Act(placed.world))
      BY <1>6, EndsStands DEF CreateObstacle, Place
  <2>2. CASE created /\ placed.ok /\ Act(placed.world)
    <3>1. is_passable(world, x, y)
        BY <2>2 DEF place_obstacle, Failed
    <3>2. /\ Filled(world, placed.world, x, y)
          /\ placed.world.robots = world.robots /\ placed.world.targets = world.targets
        BY <1>1, <3>1, ObstacleFills
    <3>3. Placement(world, placed.world)
        BY <1>1, PlacementEffect
    <3>4. Hosts /\ Flagged(world') = Flagged(world) /\ world' = placed.world /\ Hosted'
        BY <1>3, <2>2, <3>2, <3>3 DEF Hosted
    <3>5. <<x, y>> \in Sites
        BY <1>1, <1>2, <2>2, <3>1
    <3>6. Client!Place(Client!place_obstacle(World0, x, y))
        BY <3>4, HostWorld, PlaceDrives, SamePlacements
    <3>7. Client!PlaceObstacle
        BY <3>5, <3>6 DEF Client!PlaceObstacle
    <3> QED
        BY <3>4, <3>7 DEF Drives, Client!Next
  <2> QED
      BY <2>1, <2>2, StandsDrives
<1> QED
    BY <1>4, <1>5, <1>6

LEMMA MovementDrives ==
    ASSUME Sound, Hosted, Declared, Move \/ MoveToward
    PROVE  Drives
<1>. IsWorld(world, Strings) /\ Consistent(world)
    BY DEF Sound, SoundWorld
<1>1. ASSUME NEW outcome, OnWorld(outcome.world), outcome = Failed(world)
      PROVE  Stands
    BY <1>1, EndsStands DEF OnWorld, Act, Failed, Stands, arguments
<1>2. ASSUME NEW outcome, OnWorld(outcome.world), current_robot \in DOMAIN world.robots,
             Requested(world, current_robot, outcome), Good(world, outcome.world, Strings)
      PROVE  Stands \/ (Hosts /\ world' = outcome.world /\ Hosted'
                        /\ current_robot \in RobotNames)
  <2>1. CASE ~created
      BY <1>2, <2>1, EndsStands DEF OnWorld
  <2>2. CASE created
    <3>1. Hosts /\ world' = outcome.world
        BY <1>2, <2>2 DEF OnWorld, Act, Hosts, arguments
    <3>2. Hosted'
        BY <1>2, <3>1, HostsKeeps DEF Requested, Effect, Good
    <3> QED
        BY <1>2, <2>2, <3>1, <3>2 DEF Hosted
  <2> QED
      BY <2>1, <2>2
<1>3. CASE Move
  <2>1. instruction.opcode \in Moves
      BY <1>3, ExecutesOperands DEF Move
  <2>2. PICK outcome \in {move_up(world, current_robot), move_down(world, current_robot),
                          move_left(world, current_robot), move_right(world, current_robot),
                          move_forward(world, current_robot)} : OnWorld(outcome.world)
      BY <1>3, <2>1 DEF Move, Moves
  <2>3. CASE current_robot \notin DOMAIN world.robots
    <3>1. outcome = Failed(world)
        BY <2>3, MoveEffect
    <3> QED
        BY <1>1, <2>2, <3>1, StandsDrives
  <2>4. CASE current_robot \in DOMAIN world.robots
    <3>1. Requested(world, current_robot, outcome)
        BY <2>4, MoveEffect
    <3>2. Good(world, outcome.world, Strings)
        BY MoveGood
    <3>3. CASE Hosts /\ world' = outcome.world /\ Hosted' /\ current_robot \in RobotNames
      <4>1. Client!Move(current_robot, Client!Placed(current_robot), outcome)
          BY <2>4, <3>1, <3>3, MoveDrives
      <4>2. outcome \in {Client!move_up(World0, current_robot),
                         Client!move_down(World0, current_robot),
                         Client!move_left(World0, current_robot),
                         Client!move_right(World0, current_robot),
                         Client!move_forward(World0, current_robot)}
          BY <3>3, HostWorld, SameMoves
      <4>3. Client!MoveUp \/ Client!MoveDown \/ Client!MoveLeft \/ Client!MoveRight
            \/ Client!MoveForward
          BY <3>3, <4>1, <4>2 DEF Client!MoveUp, Client!MoveDown, Client!MoveLeft,
             Client!MoveRight, Client!MoveForward
      <4> QED
          BY <3>3, <4>3 DEF Drives, Client!Next
    <3> QED
        BY <1>2, <2>2, <2>4, <3>1, <3>2, <3>3, StandsDrives
  <2> QED
      BY <2>3, <2>4
<1>4. CASE MoveToward
  <2> DEFINE outcome == move_toward(world, current_robot, string)
  <2>1. Stands \/ OnWorld(outcome.world)
      BY <1>4, EndsStands DEF MoveToward
  <2>2. CASE OnWorld(outcome.world)
             /\ ~(current_robot \in DOMAIN world.robots /\ string \in DOMAIN world.targets)
    <3>1. outcome = Failed(world)
        BY <2>2, MoveEffect
    <3> QED
        BY <1>1, <2>2, <3>1, StandsDrives
  <2>3. CASE OnWorld(outcome.world)
             /\ current_robot \in DOMAIN world.robots /\ string \in DOMAIN world.targets
    <3>1. Requested(world, current_robot, outcome)
        BY <2>3, MoveEffect
    <3>2. Good(world, outcome.world, Strings)
        BY MoveGood
    <3>3. CASE Hosts /\ world' = outcome.world /\ Hosted' /\ current_robot \in RobotNames
      <4>1. Client!Move(current_robot,
                        Client!Placed(current_robot) /\ string \in DOMAIN World0.targets,
                        outcome)
          BY <2>3, <3>1, <3>3, MoveDrives
      <4>2. outcome = Client!move_toward(World0, current_robot, string)
          BY <3>3, HostWorld, SameMoves
      <4>3. string \in TargetNames
          BY <2>3, <3>3 DEF Hosted, Hosts
      <4>4. Client!MoveToward
          BY <3>3, <4>1, <4>2, <4>3 DEF Client!MoveToward
      <4> QED
          BY <3>3, <4>4 DEF Drives, Client!Next
    <3> QED
        BY <1>2, <2>3, <3>1, <3>2, <3>3, StandsDrives
  <2> QED
      BY <2>1, <2>2, <2>3, StandsDrives
<1> QED
    BY <1>3, <1>4

LEMMA SamePlacesKeeps ==
    ASSUME Hosted, Hosts, SamePlaces(world, world')
    PROVE  Hosted'
BY HostsKeeps DEF SamePlaces

LEMMA TurnDrives ==
    ASSUME Sound, Hosted, Declared, Turn
    PROVE  Drives
<1>. IsWorld(world, Strings) /\ Consistent(world)
    BY DEF Sound, SoundWorld
<1>1. PICK v \in {turn_robot_left(world, current_robot),
                  turn_robot_right(world, current_robot)} : OnWorld(v)
    BY DEF Turn
<1>2. CASE ~created
    BY <1>1, <1>2, EndsStands, StandsDrives DEF OnWorld
<1>3. CASE created
  <2>1. Hosts /\ world' = v
      BY <1>1, <1>3 DEF OnWorld, Act, Hosts, arguments
  <2>2. CASE current_robot \notin DOMAIN world.robots
    <3>1. world' = world
        BY <2>1, <2>2 DEF turn_robot_left, turn_robot_right
    <3> QED
        BY <2>1, <3>1, StandsDrives DEF Hosts, Stands
  <2>3. CASE current_robot \in DOMAIN world.robots
    <3>1. /\ SamePlaces(world, world')
          /\ \A r \in DOMAIN world.robots :
                world'.robots[r].collision_flag = world.robots[r].collision_flag
        BY <2>1, TurnEffect
    <3>2. Flagged(world') = Flagged(world)
        BY <3>1 DEF SamePlaces, Flagged, collision
    <3>3. current_robot \in RobotNames
        BY <1>3, <2>3 DEF Hosted
    <3>4. Client!Turn(v)
        BY <2>1, <3>2, HostWorld DEF Client!Turn, Client!histories, Hosts, Flagged
    <3>5. v \in {Client!turn_robot_left(World0, current_robot),
                 Client!turn_robot_right(World0, current_robot)}
        BY <2>1, HostWorld, SameTurns
    <3>6. Client!TurnLeft \/ Client!TurnRight
        BY <3>3, <3>4, <3>5 DEF Client!TurnLeft, Client!TurnRight
    <3> QED
        BY <2>1, <3>1, <3>6, SamePlacesKeeps DEF Drives, Client!Next
  <2> QED
      BY <2>2, <2>3
<1> QED
    BY <1>2, <1>3

LEMMA TickDrives ==
    ASSUME Sound, Typed, Ticking, Hosted, Declared, BeginTick \/ EndTick
    PROVE  Drives
<1>. IsWorld(world, Strings) /\ Consistent(world)
    BY DEF Sound, SoundWorld
<1>1. CASE BeginTick
  <2>1. UNCHANGED <<program, created, initial_world, tick>>
      BY <1>1 DEF BeginTick, arguments
  <2>2. world' = world \/ (created /\ world' = clear_collision_flags(world))
      BY <1>1 DEF BeginTick
  <2>3. CASE world' = world
      BY <2>1, <2>3, StandsDrives DEF Stands
  <2>4. CASE created /\ world' = clear_collision_flags(world)
    <3>1. Hosts
        BY <2>1, <2>4 DEF Hosts
    <3>2. /\ SamePlaces(world, world')
          /\ \A r \in DOMAIN world.robots : world'.robots[r].collision_flag = FALSE
        BY <2>4, ClearEffect
    <3>3. {r \in DOMAIN world'.robots : collision(world', r)} = {}
        BY <3>2 DEF SamePlaces, collision
    <3>4. world' = Client!clear_collision_flags(World0)
        BY <2>4, <3>1, HostWorld, SameTurns
    <3>5. Client!BeginTick
        BY <3>1, <3>3, <3>4, HostWorld DEF Client!BeginTick, Client!ClearFlags, Hosts
    <3> QED
        BY <3>1, <3>2, <3>5, SamePlacesKeeps DEF Drives, Client!Next
  <2> QED
      BY <2>2, <2>3, <2>4
<1>2. CASE EndTick
  <2>1. created /\ tick' = tick + 1 /\ UNCHANGED <<program, created, world, initial_world>>
      BY <1>2 DEF EndTick, arguments
  <2>2. IsProgram(program) /\ Counts /\ Where /\ ip \in 0 .. last /\ OpAt(ip) = "EndTick"
      BY <1>2, AtPlace DEF EndTick, Declared
  <2>3. last \in Nat /\ first \in Nat /\ first >= 1 /\ first <= last - 3 /\ ip = last - 2
      BY <2>2, Places, Shape DEF Declared
  <2>4. tick < max_ticks
      BY <2>2, <2>3 DEF Where
  <2>5. max_ticks \in TickCounts /\ tick \in Nat
      BY DEF Typed, TypeOK
  <2>6. tick < MaxTick
      BY <2>4, <2>5, BoundAssumption, TickCountsAssumption
  <2>7. World0 = world /\ UNCHANGED World0
      BY <2>1 DEF World0
  <2>8. Client!EndTick
      BY <2>1, <2>6, <2>7 DEF Client!EndTick, Client!histories
  <2>9. Hosted'
      BY <2>1 DEF Hosted, Declared
  <2> QED
      BY <2>8, <2>9 DEF Drives, Client!Next
<1> QED
    BY <1>1, <1>2

LEMMA NextDrives ==
    ASSUME Sound, Typed, Ticking, Hosted, Declared, [Next]_vars
    PROVE  Drives
<1>1. CASE UNCHANGED vars
    BY <1>1, StandsDrives DEF vars, arguments, simulation, Stands
<1>2. CASE Returned
    BY <1>1, <1>2 DEF Returned
<1>3. CASE Step
    BY <1>3, QuietStands, StandsDrives, CreateWorldDrives, PlacementDrives,
       MovementDrives, TurnDrives, TickDrives DEF Step
<1> QED
    BY <1>1, <1>2, <1>3 DEF Next

LEMMA InitDrives == Init => Hosted /\ Client!Init
<1> SUFFICES ASSUME Init PROVE Hosted /\ Client!Init
    OBVIOUS
<1>1. ~created /\ created = FALSE /\ tick = 0
    BY DEF Init, Start, Ready
<1>2. World0 = Client!NewWorld(Width, Height) /\ DOMAIN World0.robots = {}
    BY <1>1, SameHelpers DEF World0, NewWorld
<1> QED
    BY <1>1, <1>2 DEF Hosted, Client!Init

\* Every run of compiled code is a behaviour of the Simulation: what is proved of the
\* Simulation for an arbitrary host, flags and obstacles included, holds of the world
\* of every program.
THEOREM MachineDrivesSimulation ==
    Spec /\ WellFormed(program) /\ Declares(program) => DrivesSimulation
<1>1. Declared /\ [Next]_vars => Declared'
    BY ProgramStays DEF Declared
<1>2. Sound /\ Typed /\ Ticking /\ Hosted /\ Declared /\ [Next]_vars
          => Hosted' /\ [Client!Next]_(Client!vars)
    BY NextDrives DEF Drives
<1>3. Spec => [](Sound /\ Typed /\ Ticking)
    BY DepthAlways, PTL
<1>4. Spec /\ Declared => Client!Init /\ [][Client!Next]_(Client!vars)
    BY <1>1, <1>2, <1>3, InitDrives, PTL DEF Spec
<1> QED
    BY <1>4 DEF Declared, DrivesSimulation

-----------------------------------------------------------------------------
(* From the IR to the machine.                                              *)

\* The IR declares a world of these dimensions, with these names.
IrDeclares(code) ==
    /\ code[1].int_value = Width /\ code[1].int_value2 = Height
    /\ \A i \in 2 .. TickBegin(code) - 2 :
          /\ code[i].opcode = "Robot" => code[i].text \in RobotNames
          /\ code[i].opcode = "Target" => code[i].text \in TargetNames

\* The programs that the toolchain makes of an IR program, optimized or not, unless
\* the optimizer was killed: the IR is of the shape that lowering gives it.
Makes(code, p) ==
    /\ Shaped(code) /\ Nested(code) /\ Placing(code) /\ IrDeclares(code)
    /\ \/ p = compile(code)
       \/ optimize(code) # <<Trap>> /\ p = compile(optimize(code))

LEMMA CompiledDeclares ==
    ASSUME NEW code \in Seq(IrInstructions), Structured(code), IrDeclares(code),
           NEW p, IsCompiled(code, p)
    PROVE  Declares(p)
<1>0. PICK f, s : f = TickBegin(code) /\ s = LoopStart(p)
    OBVIOUS
<1>1. f \in Nat /\ f >= 3 /\ f <= Len(code) - 2 /\ Len(code) \in Nat
    BY <1>0, IrShape
<1>2. s - 1 = f - 3
  <2>1. s = f - 2
      BY <1>0, CompiledLoop
  <2> QED
      BY <2>1, <1>1
<1>3. At(p, 0).a = Width /\ At(p, 0).b = Height
  <2>1. At(p, 0).a = code[1].int_value /\ At(p, 0).b = code[1].int_value2
      BY <1>0, Framed
  <2> QED
      BY <2>1 DEF IrDeclares
<1>4. ASSUME NEW i \in 1 .. s - 1
      PROVE  /\ At(p, i).opcode = "CreateRobot" => Text(p, At(p, i).a) \in RobotNames
             /\ At(p, i).opcode = "CreateTarget" => Text(p, At(p, i).a) \in TargetNames
  <2>1. i \in 1 .. f - 3 /\ i + 1 \in 2 .. f - 2 /\ i + 1 \in 1 .. Len(code)
      BY <1>1, <1>2
  <2>2. PICK x : x = code[i + 1]
      OBVIOUS
  <2>3. Op(code, i + 1) \in Entities /\ Op(code, i + 1) = x.opcode
    <3>1. Op(code, i + 1) \in Entities
        BY <1>0, <2>1, Placed
    <3>2. Op(code, i + 1) = code[i + 1].opcode
        BY <2>1, IrShape
    <3> QED
        BY <3>1, <3>2, <2>2
  <2>4. /\ At(p, i).opcode = CompiledOpcode(x.opcode)
        /\ x.opcode \in {"Robot", "Target"} => Text(p, At(p, i).a) = x.text
      BY <1>0, <2>1, <2>2, Placed
  <2>5. /\ x.opcode = "Robot" => x.text \in RobotNames
        /\ x.opcode = "Target" => x.text \in TargetNames
      BY <1>0, <2>1, <2>2 DEF IrDeclares
  <2> QED
      BY <2>3, <2>4, <2>5 DEF CompiledOpcode, Renamed, Entities
<1> QED
    BY <1>0, <1>3, <1>4 DEF Declares

\* What the proofs about compiled code assume of it, the toolchain makes so.
LEMMA MadeAsCompiled ==
    ASSUME NEW code, NEW p, Makes(code, p)
    PROVE  WellFormed(p) /\ Balanced(p) /\ Placeable(p) /\ Declares(p)
<1>1. ASSUME NEW c, Shaped(c), Placing(c), IrDeclares(c), p = compile(c)
      PROVE  WellFormed(p) /\ Balanced(p) /\ Placeable(p) /\ Declares(p)
  <2>1. WellFormed(p) /\ Balanced(p) /\ Placeable(p)
      BY <1>1, CompiledIsSound
  <2>2. c \in Seq(IrInstructions) /\ Structured(c)
      BY <1>1 DEF Shaped
  <2>3. IsCompiled(c, p)
    <3>1. \A i \in 1 .. Len(c) : IsLabel(c[i]) \/ Compiles(c[i])
        BY <2>2, ShapedCompiles
    <3> QED
        BY <3>1, <2>2, <1>1, CompiledFrom
  <2>4. Declares(p)
      BY <2>2, <2>3, <1>1, CompiledDeclares
  <2> QED
      BY <2>1, <2>4
<1>2. Shaped(code) /\ Nested(code) /\ Placing(code) /\ IrDeclares(code)
    BY DEF Makes
<1>3. CASE p = compile(code)
    BY <1>1, <1>2, <1>3
<1>4. CASE optimize(code) # <<Trap>> /\ p = compile(optimize(code))
  <2>0. PICK out : out = optimize(code)
      OBVIOUS
  <2>1. Shaped(out) /\ SameStart(code, out)
      BY <1>2, <1>4, <2>0, OptimizedIsShaped
  <2>2. code \in Seq(IrInstructions) /\ Structured(code)
      BY <1>2 DEF Shaped
  <2>3. Placing(out)
      BY <2>1, <2>2, <1>2, SamePlacing
  <2>4. IrDeclares(out)
    <3>1. TickBegin(code) \in Nat /\ TickBegin(code) >= 3
        BY <2>2, IrShape
    <3>2. out[1] = code[1] /\ TickBegin(out) = TickBegin(code)
        BY <2>1, <3>1 DEF SameStart
    <3>3. \A i \in 2 .. TickBegin(code) - 2 : out[i] = code[i]
      <4>1. \A i \in 2 .. TickBegin(code) - 2 : i \in 1 .. TickBegin(code)
          BY <3>1
      <4> QED
          BY <4>1, <2>1 DEF SameStart
    <3> QED
        BY <3>2, <3>3, <1>2 DEF IrDeclares
  <2> QED
      BY <2>0, <2>1, <2>3, <2>4, <1>1, <1>4
<1> QED
    BY <1>3, <1>4 DEF Makes

\* Whatever IR of its shape lowering hands on, optimized or not: its bytecode makes
\* the machine do exactly the ticks it is asked for, leave nothing on the stack
\* between two statements, fail on nothing but the program's own errors, and drive
\* the Simulation as one of its clients may.
THEOREM ToolchainIsSound ==
    Spec /\ (\E code : Makes(code, program))
        => [](ExactTicks /\ StackDrained /\ NoInternalError) /\ DrivesSimulation
<1> DEFINE Made == \E code : Makes(code, program)
<1>1. Made => WellFormed(program) /\ Balanced(program) /\ Placeable(program)
                 /\ Declares(program)
    BY MadeAsCompiled
<1> HIDE DEF Made
<1>2. Spec /\ Made => []ExactTicks /\ []StackDrained /\ []NoInternalError /\ DrivesSimulation
    BY <1>1, TicksAreExact, StackIsDrained, OnlyProgramErrors, MachineDrivesSimulation
<1>3. Spec /\ Made => [](ExactTicks /\ StackDrained /\ NoInternalError) /\ DrivesSimulation
    BY <1>2, PTL
<1> QED
    BY <1>3 DEF Made
=============================================================================
