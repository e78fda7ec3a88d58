------------------------------ MODULE MCPipeline ------------------------------
(***************************************************************************)
(* Small programs for the whole chain.  Robot A, declared first, runs      *)
(* every pair (or shorter sequence) of statements of a pool, and some      *)
(* triples; robot B moves left into its way.  The world is 3 by 2:         *)
(*                                                                         *)
(*     A . B                                                               *)
(*     . # T                                                               *)
(***************************************************************************)
EXTENDS Pipeline, TLC

Do(callee) == T!ExprStmt(T!Call(callee, << >>))
With1(callee, name) == T!Call(callee, <<T!Variable(name)>>)
Ask(callee) == T!Call(callee, << >>)
Set(name, value) == T!ExprStmt(T!Assign(name, value))
Num(n) == T!IntLiteral(n)
Var(name) == T!Variable(name)
When(condition, statements) == T!If(condition, T!Block(statements), << >>)
Choose(condition, statements, others) ==
    T!If(condition, T!Block(statements), <<T!Block(others)>>)

\* 1 + (1 + (... + 1)), n additions
Deep[n \in 0 .. 10] == IF n = 0 THEN Num(1) ELSE T!Binary("Add", Num(1), Deep[n - 1])

Pool == <<
    Do("move_right"),
    Do("stop"),
    T!ExprStmt(With1("move_toward", "T")),
    Do("turn_right"),
    T!Block(<<Do("turn_left"), Do("turn_right")>>),
    \* the flag, read in the tick of the failed move
    Choose(Ask("collision"), <<Do("turn_right")>>, <<Do("move_forward")>>),
    When(Ask("obstacle_ahead"), <<Do("stop"), Do("turn_left")>>),
    \* arithmetic that folds in several passes, next to what does not fold
    Set("x", T!Binary("Sub", With1("distance_to", "T"),
                      T!Binary("Mul", T!Unary("Neg", Num(3)), T!Unary("Neg", Num(1))))),
    When(T!Binary("Gt", Var("x"), Num(0)), <<Do("move_down")>>),
    Set("x", T!Binary("Div", Num(5), T!Binary("Add", Num(2), T!Unary("Neg", Num(2))))),
    Set("x", T!Binary("Mul", Num(100), T!Binary("Add", Var("x"), Num(1)))),
    \* a variable that a branch may leave unassigned, or make a bool
    When(Ask("collision"), <<Set("x", T!Binary("Eq", Num(1), Num(1)))>>),
    Set("y", T!Unary("Not", T!Binary("Ne", Var("x"), Num(1)))),
    \* constant branches, with stops and branches inside
    Choose(T!Binary("Lt", Num(1), Num(2)), <<Do("move_down")>>, <<Do("stop")>>),
    Choose(T!Binary("Eq", T!BoolLiteral(TRUE), T!BoolLiteral(FALSE)),
           <<Do("stop")>>,
           <<When(T!BoolLiteral(TRUE), <<Do("move_left"), Do("stop")>>)>>),
    When(T!BoolLiteral(TRUE),
         <<Choose(Ask("collision"), <<Do("stop")>>, <<Do("turn_left")>>)>>),
    When(T!BoolLiteral(FALSE), <<Set("x", Num(7))>>),
    \* more levels than constant_fold makes passes
    When(T!Binary("Eq", Deep[10], Num(11)), <<Do("turn_left")>>),
    \* assigned in a tick without a collision only
    When(T!Unary("Not", Ask("collision")), <<Set("x", Num(1))>>),
    \* what the analyzer rejects, alone or after some of the others
    T!ExprStmt(With1("move_toward", "A")),
    When(Var("x"), <<Do("stop")>>),
    Set("y", T!Binary("Add", Var("y"), T!BoolLiteral(TRUE)))
>>

\* The bodies of A: at most two statements of the pool, or a move, an assignment
\* that depends on its outcome, and a use of the variable.
Short == {<< >>} \cup {<<i>> : i \in DOMAIN Pool}
Pairs == (DOMAIN Pool) \X (DOMAIN Pool)
Triples == {1, 3, 6} \X {12, 19} \X {9, 11, 13}

\* The blocks of B's behaviour: the second one reads a variable that only the
\* other robot, or B itself in another tick, may have assigned; the third assigns
\* one that A may read.
OfB == [walks |-> <<T!Block(<<Do("move_left"), Do("move_left")>>)>>,
        reads |-> <<T!Block(<<Do("move_left"), Pool[19], Pool[9]>>)>>,
        sets |-> <<T!Block(<<Pool[8]>>)>>,
        idles |-> << >>]

\* One every-tick block for the statements of A, or one for each.
EventBlocks(body, split) ==
    IF split THEN [i \in DOMAIN body |-> T!Block(<<Pool[body[i]]>>)]
    ELSE <<T!Block([i \in DOMAIN body |-> Pool[body[i]]])>>

Named == [body : Pairs, split : BOOLEAN, x : {2}, b : {"walks"}]
         \cup [body : Short \cup Triples, split : {FALSE}, x : {2}, b : DOMAIN OfB]
         \cup [body : {<<1>>}, split : {FALSE}, x : 0 .. 3, b : {"walks"}]

\* B stands at <<n.x, 0>>: on A or outside the world for some n.
Source(n) == <<
    T!WorldDecl(3, 2), T!RobotDecl("A", 0, 0), T!TargetDecl("T", 2, 1),
    T!ObstacleDecl(1, 1), T!RobotDecl("B", n.x, 0)>>
    \o (IF OfB[n.b] = << >> THEN << >> ELSE <<T!BehaviorDecl("B", OfB[n.b])>>)
    \o <<T!BehaviorDecl("A", EventBlocks(n.body, n.split))>>

\* All of them, the ones that the analyzer rejects included.
MCCandidates == [n \in Named |-> Source(n)]

\* And one whose 144 cells no int of eight bits can count.
HugeName == [body |-> << >>, split |-> FALSE, x |-> 0, b |-> "none"]
MCAndHuge == MCCandidates @@ (HugeName :>
    <<T!WorldDecl(12, 12), T!RobotDecl("A", 0, 0),
      T!BehaviorDecl("A", <<T!Block(<<Do("move_right")>>)>>)>>)

MCTickCounts == {-1, 0, 1, 3}
=============================================================================
