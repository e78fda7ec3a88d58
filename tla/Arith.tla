--------------------------------- MODULE Arith ---------------------------------
(***************************************************************************)
(* int arithmetic, shared by the bytecode VM, the optimizer's constant     *)
(* folding and the reference executor.  An int has Modulus values (2^32 in *)
(* the build).  Overflow is undefined in C++: what the compiled code does  *)
(* is to wrap around, but for the division of the least int by -1, which   *)
(* kills the process.                                                      *)
(***************************************************************************)
EXTENDS Integers

CONSTANT Modulus

ASSUME ModulusAssumption == Modulus \in Nat /\ Modulus >= 2

ArithOps == {"Add", "Sub", "Mul", "Div"}
CompareOps == {"Lt", "Le", "Gt", "Ge"}
EqualityOps == {"Eq", "Ne"}

\* What an int can be.
IntValues == -(Modulus \div 2) .. (Modulus - 1) \div 2

Wrap(n) == ((n + Modulus \div 2) % Modulus) - Modulus \div 2

\* Division truncates toward zero; \div rounds down.
Truncated(left, right) ==
    LET Magnitude(n) == IF n < 0 THEN -n ELSE n
        quotient == Magnitude(left) \div Magnitude(right)
    IN  IF (left < 0) = (right < 0) THEN quotient ELSE -quotient

\* The division that the processor traps.
Traps(op, left, right) ==
    op = "Div" /\ left = -(Modulus \div 2) /\ right = -1

\* The result of an operation that does not trap (and right # 0 for "Div").
Calculate(op, left, right) ==
    Wrap(CASE op = "Add" -> left + right
           [] op = "Sub" -> left - right
           [] op = "Mul" -> left * right
           [] op = "Div" -> Truncated(left, right))

Compare(op, left, right) ==
    CASE op = "Lt" -> left < right
      [] op = "Le" -> left <= right
      [] op = "Gt" -> left > right
      [] op = "Ge" -> left >= right

\* Values of the language, as the VM's stack and variables hold them.
Int32(n) == [kind |-> "int", int |-> n]
Bool(b) == [kind |-> "bool", bool |-> b]

Equal(left, right) ==
    IF left.kind = "int" THEN left.int = right.int ELSE left.bool = right.bool
=============================================================================
