------------------------------- MODULE MCFindings -------------------------------
(***************************************************************************)
(* Three programs on which the code and the words about it differ.         *)
(***************************************************************************)
EXTENDS Pipeline

Body(statements) == <<
    T!WorldDecl(2, 1), T!RobotDecl("A", 0, 0),
    T!BehaviorDecl("A", <<T!Block(statements)>>)>>

\* x = y = 1; x = (-127 - 1) / -1, where an int has eight bits, under an if that is
\* never taken; and a program that moves once.
MCCandidates == [
    chain |-> Body(<<T!ExprStmt(T!Assign("x", T!Assign("y", T!IntLiteral(1))))>>),
    trap |-> Body(<<T!If(T!BoolLiteral(FALSE), T!Block(<<T!ExprStmt(T!Assign("x",
                 T!Binary("Div", T!Binary("Sub", T!Unary("Neg", T!IntLiteral(127)),
                                                 T!IntLiteral(1)),
                                 T!Unary("Neg", T!IntLiteral(1)))))>>), << >>)>>),
    plain |-> Body(<<T!ExprStmt(T!Call("move_right", << >>))>>)]
=================================================================================
