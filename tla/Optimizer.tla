------------------------------- MODULE Optimizer -------------------------------
(***************************************************************************)
(* The IR optimizer: src/ir/optimizer.cpp.  A pass is a walk over the code *)
(* with an output, as a function of the position that has been reached;    *)
(* the operator named ..._at is the body of its loop.                      *)
(***************************************************************************)
EXTENDS Ir

\* Folding a division that traps kills the compiling process: the program this
\* instruction is in is never run.
Trap == Ir("Trap")

-----------------------------------------------------------------------------
(* Constant folding.                                                         *)

\* Mutant of try_fold_binary: ints are folded with their order swapped.
FoldSwapped(left, right, op) ==
    IF left.opcode # "PushInt" \/ right.opcode # "PushInt" THEN << >>
    ELSE CASE op \in ArithOps -> IF left.int_value = 0 THEN << >>
                ELSE <<IrInt(Calculate(op, right.int_value, left.int_value))>>
           [] op \in CompareOps -> <<IrBool(Compare(op, right.int_value, left.int_value))>>
           [] OTHER -> << >>

\* What three instructions fold to: << >> when they do not.
try_fold_binary(left, right, op) ==
    CASE op \in ArithOps \cup CompareOps \cup EqualityOps
         /\ left.opcode = "PushInt" /\ right.opcode = "PushInt" ->
            IF op = "Div" /\ right.int_value = 0 THEN << >>
            ELSE IF Traps(op, left.int_value, right.int_value) THEN <<Trap>>
            ELSE IF op \in ArithOps
            THEN <<IrInt(Calculate(op, left.int_value, right.int_value))>>
            ELSE IF op \in CompareOps
            THEN <<IrBool(Compare(op, left.int_value, right.int_value))>>
            ELSE <<IrBool((left.int_value = right.int_value) = (op = "Eq"))>>
      [] op \in EqualityOps
         /\ left.opcode = "PushBool" /\ right.opcode = "PushBool" ->
            <<IrBool((left.bool_value = right.bool_value) = (op = "Eq"))>>
      [] OTHER -> << >>

try_fold_unary(operand, op) ==
    CASE op = "Neg" /\ operand.opcode = "PushInt" ->
            <<IrInt(Wrap(-operand.int_value))>>
      [] op = "Not" /\ operand.opcode = "PushBool" ->
            <<IrBool(~operand.bool_value)>>
      [] OTHER -> << >>

dead_pop(push, pop) == push \in {"PushInt", "PushBool"} /\ pop = "Pop"

\* What a fold yields is not looked at again.  When it traps nothing else is left.
fold_at(done, code, i) ==
    LET binary == IF i + 2 <= Len(code)
                  THEN try_fold_binary(code[i], code[i + 1], Op(code, i + 2)) ELSE << >>
        unary == try_fold_unary(code[i], Op(code, i + 1))
        Emit(folded, skip) == [output |-> done.output \o folded, skip |-> skip]
    IN  IF done.skip > 0 THEN [done EXCEPT !.skip = @ - 1]
        ELSE IF binary = <<Trap>> THEN [output |-> <<Trap>>, skip |-> Len(code)]
        ELSE IF binary # << >> THEN Emit(binary, 2)
        ELSE IF unary # << >> THEN Emit(unary, 1)
        ELSE IF dead_pop(Op(code, i), Op(code, i + 1)) THEN Emit(<< >>, 1)
        ELSE Emit(<<code[i]>>, 0)

constant_fold_once(code) ==
    LET pass[i \in 0 .. Len(code)] ==
            IF i = 0 THEN [output |-> << >>, skip |-> 0]
            ELSE fold_at(pass[i - 1], code, i)
    IN  pass[Len(code)].output

FoldPasses == 8

\* (A pass that changes nothing is the last one, as those after it would not either.)
constant_fold(code) ==
    LET folded[pass \in 0 .. FoldPasses] ==
            IF pass = 0 THEN code ELSE constant_fold_once(folded[pass - 1])
    IN  folded[FoldPasses]

-----------------------------------------------------------------------------
(* Branches on a constant.                                                   *)

\* Up to next the code has been looked at: all but dropped stays as it is, constant
\* branches inside a branch that is kept included.
branch_at(done, code, i) ==
    LET else_index == GoesTo(code, i + 1)
        end_index == GoesTo(code, else_index - 1)
        constant == /\ Op(code, i) = "PushBool" /\ Op(code, i + 1) = "JumpIfFalse"
                    /\ else_index # 0
        has_else == /\ else_index > i + 2
                    /\ Op(code, else_index - 1) = "Jump"
                    /\ end_index # 0
        Resolve(dropped, next) == [done EXCEPT !.dropped = dropped, !.next = next]
    IN  IF i < done.next /\ i \in done.dropped THEN done
        ELSE IF i < done.next \/ ~constant
        THEN [done EXCEPT !.output = Append(@, code[i])]
        ELSE IF ~code[i].bool_value THEN Resolve(i .. else_index - 1, else_index)
        ELSE IF has_else
        THEN Resolve({i, i + 1} \cup (else_index - 1 .. end_index - 1), end_index)
        ELSE Resolve({i, i + 1}, Max({i + 2, else_index}))

eliminate_dead_branches(code) ==
    LET pass[i \in 0 .. Len(code)] ==
            IF i = 0 THEN [output |-> << >>, dropped |-> {}, next |-> 1]
            ELSE branch_at(pass[i - 1], code, i)
    IN  pass[Len(code)].output

-----------------------------------------------------------------------------
(* Code after a stop, and turns that undo each other.                        *)

\* Mutant of stop_at: the label goes too.
LabelGoesToo(done, code, i) ==
    IF done.skipping THEN [done EXCEPT !.skipping = ~IsLabel(code[i])]
    ELSE [output |-> Append(done.output, code[i]),
          skipping |-> code[i].opcode = "Jump" /\ Op(code, i - 1) = "Stop"]

\* After a stop and its jump everything is skipped up to the next label.
stop_at(done, code, i) ==
    IF done.skipping /\ ~IsLabel(code[i]) THEN done
    ELSE [output |-> Append(done.output, code[i]),
          skipping |-> code[i].opcode = "Jump" /\ Op(code, i - 1) = "Stop"]

eliminate_unreachable_after_stop(code) ==
    LET pass[i \in 0 .. Len(code)] ==
            IF i = 0 THEN [output |-> << >>, skipping |-> FALSE]
            ELSE stop_at(pass[i - 1], code, i)
    IN  pass[Len(code)].output

\* Mutant of turn_at: two equal turns cancel.
EqualTurnsCancel(done, code, i) ==
    LET j == IF Op(code, i + 1) = "Pop" THEN i + 2 ELSE i + 1
        last == IF Op(code, j + 1) = "Pop" THEN j + 1 ELSE j
    IN  IF done.skip > 0 THEN [done EXCEPT !.skip = @ - 1]
        ELSE IF Op(code, i) \in Turns /\ Op(code, j) = Op(code, i)
        THEN [done EXCEPT !.skip = last - i]
        ELSE [done EXCEPT !.output = Append(@, code[i])]

\* A turn, its Pop if there is one, the opposite turn, its Pop if there is one.
turn_at(done, code, i) ==
    LET j == IF Op(code, i + 1) = "Pop" THEN i + 2 ELSE i + 1
        last == IF Op(code, j + 1) = "Pop" THEN j + 1 ELSE j
    IN  IF done.skip > 0 THEN [done EXCEPT !.skip = @ - 1]
        ELSE IF {Op(code, i), Op(code, j)} = Turns THEN [done EXCEPT !.skip = last - i]
        ELSE [done EXCEPT !.output = Append(@, code[i])]

eliminate_redundant_turn_pairs(code) ==
    LET pass[i \in 0 .. Len(code)] ==
            IF i = 0 THEN [output |-> << >>, skip |-> 0]
            ELSE turn_at(pass[i - 1], code, i)
    IN  pass[Len(code)].output

optimize(code) ==
    constant_fold(
      eliminate_redundant_turn_pairs(
        eliminate_unreachable_after_stop(
          constant_fold(eliminate_dead_branches(constant_fold(code))))))
=============================================================================
