-------------------------------- MODULE Ir_proofs --------------------------------
(***************************************************************************)
(* Theorems about what becomes of the IR: the compiler, and each pass of   *)
(* the optimizer, on every code of the shape that lowering gives it.       *)
(***************************************************************************)
EXTENDS Optimizer, Compiler, WellFoundedInduction, TLAPS

LEMMA LeastIndex ==
    ASSUME NEW S, S \subseteq Nat, S # {}
    PROVE  \E j \in S : \A k \in S : j <= k
<1> DEFINE R == OpToRel(<, Nat)
<1>1. IsWellFoundedOn(R, Nat)
    BY NatLessThanWellFounded
<1>2. R = {ss \in Nat \X Nat : ss[1] < ss[2]}
    BY DEF OpToRel
<1> HIDE DEF R
<1>3. PICK j \in S : \A k \in S : ~ (<<k, j>> \in R)
    BY <1>1, WFMin
<1>4. ASSUME NEW k \in S PROVE j <= k
  <2>1. ~ (<<k, j>> \in R) /\ j \in Nat /\ k \in Nat
      BY <1>3
  <2>2. ~ (k < j)
      BY <2>1, <1>2
  <2> QED
      BY <2>1, <2>2
<1> QED
    BY <1>3, <1>4

LEMMA GreatestIndex ==
    ASSUME NEW n \in Nat, NEW S, S \subseteq 0 .. n, S # {}
    PROVE  \E j \in S : \A k \in S : j >= k
<1> DEFINE D == {n - j : j \in S}
<1>0. ASSUME NEW j \in S PROVE n - j \in Nat
    OBVIOUS
<1>1. D \subseteq Nat /\ D # {}
    BY <1>0
<1>2. PICK d \in D : \A e \in D : d <= e
    BY <1>1, LeastIndex
<1>3. PICK j \in S : d = n - j
    BY <1>2
<1>4. ASSUME NEW k \in S PROVE j >= k
  <2>1. n - k \in D
      OBVIOUS
  <2> QED
      BY <2>1, <1>2, <1>3
<1> QED
    BY <1>4

\* Induction up to n: a set that has 0 and, with a number below n, the next one.
LEMMA UpTo ==
    ASSUME NEW n \in Nat, NEW T, 0 \in T,
           \A i \in 1 .. n : i - 1 \in T => i \in T
    PROVE  0 .. n \subseteq T
<1> DEFINE S == {i \in 0 .. n : i \notin T}
<1> SUFFICES ASSUME S # {} PROVE FALSE
    OBVIOUS
<1>1. S \subseteq Nat
    OBVIOUS
<1>2. PICK j \in S : \A k \in S : j <= k
    BY <1>1, LeastIndex
<1>3. j \in 1 .. n /\ j - 1 \in 0 .. n /\ j - 1 \notin S
    BY <1>2
<1> QED
    BY <1>2, <1>3

\* A walk over the numbers from 1 to n is a function of the number reached.
IsWalk(w, n, States, start, step) ==
    /\ w \in [0 .. n -> States]
    /\ w[0] = start /\ \A i \in 1 .. n : w[i] = step[i][w[i - 1]]

LEMMA WalkExists ==
    ASSUME NEW n \in Nat, NEW States, NEW start \in States,
           NEW step \in [1 .. n -> [States -> States]]
    PROVE  \E w : IsWalk(w, n, States, start, step)
<1> DEFINE Walk(m) == \E w \in [0 .. m -> States] :
                         w[0] = start /\ \A i \in 1 .. m : w[i] = step[i][w[i - 1]]
           T == {m \in 0 .. n : Walk(m)}
<1>1. Walk(0)
  <2> DEFINE w == [i \in 0 .. 0 |-> start]
  <2>1. w \in [0 .. 0 -> States] /\ w[0] = start /\ 1 .. 0 = {}
      OBVIOUS
  <2> QED
      BY <2>1
<1>2. ASSUME NEW i \in 1 .. n, Walk(i - 1) PROVE Walk(i)
  <2>1. PICK w \in [0 .. i - 1 -> States] :
           w[0] = start /\ \A j \in 1 .. i - 1 : w[j] = step[j][w[j - 1]]
      BY <1>2
  <2>2. i - 1 \in 0 .. i - 1 /\ w[i - 1] \in States
      BY <2>1 DEF Walk
  <2>3. PICK x \in States : x = step[i][w[i - 1]]
      BY <2>2
  <2> DEFINE v == [j \in 0 .. i |-> IF j = i THEN x ELSE w[j]]
  <2>4. i \in Nat /\ i >= 1 /\ v \in [0 .. i -> States] /\ v[0] = start
      BY <2>1
  <2>5. \A j \in 1 .. i : v[j - 1] = w[j - 1]
      BY <2>4
  <2>6. ASSUME NEW j \in 1 .. i PROVE v[j] = step[j][v[j - 1]]
    <3>1. CASE j = i
        BY <3>1, <2>3, <2>4, <2>5
    <3>2. CASE j # i
      <4>1. j \in 1 .. i - 1 /\ v[j] = w[j]
          BY <3>2, <2>4
      <4> QED
          BY <4>1, <2>1, <2>5
    <3> QED
        BY <3>1, <3>2
  <2> HIDE DEF v
  <2> QED
      BY <2>4, <2>6
<1> HIDE DEF Walk
<1>3. 0 \in T /\ \A i \in 1 .. n : i - 1 \in T => i \in T
    BY <1>1, <1>2
<1>4. 0 .. n \subseteq T
    BY <1>3, UpTo
<1>5. n \in T
    BY <1>4
<1> QED
    BY <1>5 DEF Walk, IsWalk

-----------------------------------------------------------------------------
(* Ints.                                                                    *)

\* Overflow wraps around into the range of an int.
LEMMA WrapFits == \A n \in Int : Wrap(n) \in IntValues
<1> SUFFICES ASSUME NEW n \in Int PROVE Wrap(n) \in IntValues
    OBVIOUS
<1> DEFINE half == Modulus \div 2
<1>1. half \in Int /\ (Modulus - 1) \div 2 \in Int /\ half + (Modulus - 1) \div 2 = Modulus - 1
    BY ModulusAssumption
<1>2. (n + half) % Modulus \in 0 .. Modulus - 1
    BY <1>1, ModulusAssumption
<1> HIDE DEF half
<1>3. ((n + half) % Modulus) - half \in -half .. (Modulus - 1) \div 2
    BY <1>1, <1>2, ModulusAssumption
<1> QED
    BY <1>3 DEF Wrap, IntValues, half

LEMMA CalculateFits ==
    ASSUME NEW op \in ArithOps, NEW left \in Int, NEW right \in Int,
           op = "Div" => right # 0
    PROVE  Calculate(op, left, right) \in IntValues
<1>1. Truncated(left, right) \in Int \/ right = 0
  <2>1. \A a \in Nat, b \in Nat \ {0} : a \div b \in Int
      OBVIOUS
  <2>2. left < 0 => -left \in Nat
      OBVIOUS
  <2>3. right < 0 => -right \in Nat \ {0}
      OBVIOUS
  <2>4. right # 0 =>
          (IF left < 0 THEN -left ELSE left) \div (IF right < 0 THEN -right ELSE right) \in Int
      BY <2>1, <2>2, <2>3
  <2> QED
      BY <2>4 DEF Truncated
<1>2. left + right \in Int /\ left - right \in Int /\ left * right \in Int
    OBVIOUS
<1> QED
    BY <1>1, <1>2, WrapFits DEF Calculate, ArithOps

LEMMA CompareTyped ==
    ASSUME NEW op \in CompareOps, NEW left, NEW right
    PROVE  Compare(op, left, right) \in BOOLEAN
<1>1. CASE op = "Lt"
    BY <1>1 DEF Compare
<1>2. CASE op = "Le"
    BY <1>2 DEF Compare
<1>3. CASE op = "Gt"
    BY <1>3 DEF Compare
<1>4. CASE op = "Ge"
    BY <1>4 DEF Compare
<1> QED
    BY <1>1, <1>2, <1>3, <1>4 DEF CompareOps

-----------------------------------------------------------------------------
(* Labels.                                                                  *)

\* A label's index is 0 if there is none, else that of the last one of the name.
LEMMA LabelFound ==
    ASSUME NEW code \in Seq(IrInstructions), NEW label
    PROVE  /\ LabelIndex(code, label) \in 0 .. Len(code)
           /\ LabelIndex(code, label) # 0 =>
                 /\ IsLabel(code[LabelIndex(code, label)])
                 /\ code[LabelIndex(code, label)].text = label
           /\ \A i \in 1 .. Len(code) :
                 IsLabel(code[i]) /\ code[i].text = label => i <= LabelIndex(code, label)
<1> DEFINE I == {i \in 1 .. Len(code) : IsLabel(code[i]) /\ code[i].text = label}
<1>1. LabelIndex(code, label) = IF I # {} THEN CHOOSE x \in I : \A y \in I : x >= y ELSE 0
    BY DEF LabelIndex, SelectLastInSeq, Max
<1>2. I \subseteq 0 .. Len(code) /\ Len(code) \in Nat
    OBVIOUS
<1>3. CASE I # {}
  <2>1. \E x \in I : \A y \in I : x >= y
      BY <1>2, <1>3, GreatestIndex
  <2>2. /\ LabelIndex(code, label) \in I
        /\ \A y \in I : LabelIndex(code, label) >= y
      BY <1>1, <1>3, <2>1
  <2> QED
      BY <2>2, <1>2
<1>4. CASE I = {}
    BY <1>1, <1>2, <1>4
<1> QED
    BY <1>3, <1>4

\* The walk that counts the instructions of the bytecode.
LEMMA PcsWalk ==
    ASSUME NEW code \in Seq(IrInstructions)
    PROVE  /\ Pcs(code) \in [0 .. Len(code) -> Nat]
           /\ Pcs(code)[0] = 0
           /\ \A i \in 1 .. Len(code) :
                 Pcs(code)[i] = IF IsLabel(code[i]) THEN Pcs(code)[i - 1]
                                ELSE Pcs(code)[i - 1] + 1
<1> DEFINE n == Len(code)
           Def(f) == f = [i \in 0 .. n |->
                            IF i = 0 THEN 0 ELSE IF IsLabel(code[i]) THEN f[i - 1]
                                                 ELSE f[i - 1] + 1]
           step == [i \in 1 .. n |-> [c \in Nat |-> IF IsLabel(code[i]) THEN c ELSE c + 1]]
           g == CHOOSE f : Def(f)
<1>1. n \in Nat
    OBVIOUS
<1>2. /\ step \in [1 .. n -> [Nat -> Nat]]
      /\ \A i \in 1 .. n, c \in Nat :
            step[i][c] = IF IsLabel(code[i]) THEN c ELSE c + 1
    OBVIOUS
<1> HIDE DEF step, n
<1>0. PICK v : IsWalk(v, n, Nat, 0, step)
    BY <1>1, <1>2, WalkExists
<1>3. PICK w \in [0 .. n -> Nat] : w[0] = 0 /\ \A i \in 1 .. n : w[i] = step[i][w[i - 1]]
    BY <1>0 DEF IsWalk
<1>4. \A i \in 1 .. n : w[i - 1] \in Nat /\ w[i] = IF IsLabel(code[i]) THEN w[i - 1]
                                                ELSE w[i - 1] + 1
  <2> SUFFICES ASSUME NEW i \in 1 .. n
               PROVE  w[i - 1] \in Nat /\ w[i] = IF IsLabel(code[i]) THEN w[i - 1]
                                                ELSE w[i - 1] + 1
      OBVIOUS
  <2>1. w[i - 1] \in Nat
      BY <1>1, <1>3
  <2> QED
      BY <2>1, <1>2, <1>3
<1>5. Def(w)
    BY <1>3, <1>4
<1>6. Def(g)
    BY <1>5
<1>7. Pcs(code) = g
    BY DEF Pcs, n
<1> HIDE DEF g
<1>8. g[0] = 0 /\ \A i \in 1 .. n : g[i] = IF IsLabel(code[i]) THEN g[i - 1] ELSE g[i - 1] + 1
    BY <1>1, <1>6
<1> DEFINE T == {i \in 0 .. n : g[i] \in Nat}
<1>9. 0 \in T /\ \A i \in 1 .. n : i - 1 \in T => i \in T
  <2>1. 0 \in T
      BY <1>1, <1>8
  <2>2. ASSUME NEW i \in 1 .. n, i - 1 \in T PROVE i \in T
    <3>1. g[i - 1] \in Nat
        BY <2>2
    <3>2. g[i] \in Nat
        BY <3>1, <1>8
    <3> QED
        BY <3>2, <1>1
  <2> QED
      BY <2>1, <2>2
<1>10. 0 .. n \subseteq T
    BY <1>1, <1>9, UpTo
<1>11. g \in [0 .. n -> Nat]
  <2>1. g = [i \in 0 .. n |-> g[i]]
      BY <1>6
  <2> QED
      BY <2>1, <1>10
<1> QED
    BY <1>7, <1>8, <1>11 DEF n

-----------------------------------------------------------------------------
(* What is left of a sequence when some of its elements are dropped.        *)

LEMMA Appended ==
    ASSUME NEW S, NEW s \in Seq(S), NEW x \in S
    PROVE  /\ Append(s, x) \in Seq(S)
           /\ Len(Append(s, x)) = Len(s) + 1
           /\ Append(s, x)[Len(s) + 1] = x
           /\ \A k \in 1 .. Len(s) : Append(s, x)[k] = s[k]
           /\ s \o <<x>> = Append(s, x)
           /\ s \o << >> = s
OBVIOUS

\* K[i] is how many of the first i elements are left.
Counting(K, n) ==
    /\ K \in [0 .. n -> Nat]
    /\ K[0] = 0
    /\ \A i \in 1 .. n : K[i] = K[i - 1] \/ K[i] = K[i - 1] + 1

Remains(K, i) == K[i] = K[i - 1] + 1

LEMMA CountsMonotone ==
    ASSUME NEW n \in Nat, NEW K, Counting(K, n), NEW i \in 0 .. n, NEW j \in i .. n
    PROVE  /\ K[i] <= K[j]
           /\ i < j /\ Remains(K, j) => K[i] < K[j]
<1> DEFINE T == {m \in 0 .. n : m >= i => K[i] <= K[m]}
<1>1. 0 \in T
    BY DEF Counting
<1>2. ASSUME NEW m \in 1 .. n, m - 1 \in T PROVE m \in T
  <2>1. K[m] \in Nat /\ K[m - 1] \in Nat /\ K[i] \in Nat /\ K[m - 1] <= K[m]
      BY DEF Counting
  <2>2. CASE m = i
      BY <2>1, <2>2
  <2>3. CASE m # i
      BY <2>1, <2>3, <1>2
  <2> QED
      BY <2>2, <2>3
<1>3. 0 .. n \subseteq T
    BY <1>1, <1>2, UpTo
<1>4. K[i] <= K[j]
    BY <1>3
<1>5. ASSUME i < j, Remains(K, j) PROVE K[i] < K[j]
  <2>1. j - 1 \in T /\ j - 1 >= i
      BY <1>3, <1>5
  <2>2. K[i] \in Nat /\ K[j - 1] \in Nat /\ K[j] = K[j - 1] + 1
      BY <1>5 DEF Counting, Remains
  <2> QED
      BY <2>1, <2>2
<1> QED
    BY <1>4, <1>5

\* Each element left was one of the sequence.
LEMMA CountsOnto ==
    ASSUME NEW n \in Nat, NEW K, Counting(K, n), NEW k \in 1 .. K[n]
    PROVE  \E i \in 1 .. n : K[i] = k /\ Remains(K, i)
<1> DEFINE T == {m \in 0 .. n : \A c \in 1 .. K[m] : \E i \in 1 .. n : K[i] = c /\ Remains(K, i)}
<1>1. 0 \in T
    BY DEF Counting
<1>2. ASSUME NEW m \in 1 .. n, m - 1 \in T PROVE m \in T
  <2> SUFFICES ASSUME NEW c \in 1 .. K[m]
               PROVE  \E i \in 1 .. n : K[i] = c /\ Remains(K, i)
      OBVIOUS
  <2>1. K[m] \in Nat /\ K[m - 1] \in Nat /\ (K[m] = K[m - 1] \/ K[m] = K[m - 1] + 1)
      BY DEF Counting
  <2>2. CASE c \in 1 .. K[m - 1]
      BY <1>2, <2>2
  <2>3. CASE c \notin 1 .. K[m - 1]
    <3>1. K[m] = c /\ Remains(K, m)
        BY <2>1, <2>3 DEF Remains
    <3> QED
        BY <3>1
  <2> QED
      BY <2>2, <2>3
<1>3. 0 .. n \subseteq T
    BY <1>1, <1>2, UpTo
<1>4. n \in T
    BY <1>3
<1> QED
    BY <1>4

\* A sequence that grows one element at a time, o[i] after i steps.
Grows(o, n, S) ==
    /\ o[0] = << >>
    /\ \A i \in 1 .. n : \/ o[i] = o[i - 1]
                         \/ \E x \in S : o[i] = Append(o[i - 1], x)

Lengths(o, n) == [i \in 0 .. n |-> Len(o[i])]

\* What has grown stays.
Prefixed(o, n) ==
    \A i \in 0 .. n : \A j \in i .. n : \A k \in 1 .. Lengths(o, n)[i] : o[j][k] = o[i][k]

LEMMA GrowsPrefix ==
    ASSUME NEW n \in Nat, NEW S, NEW o, o \in [0 .. n -> Seq(S)], Grows(o, n, S)
    PROVE  /\ Counting(Lengths(o, n), n)
           /\ \A i \in 0 .. n : Lengths(o, n)[i] = Len(o[i])
           /\ Prefixed(o, n)
<1> DEFINE K == Lengths(o, n)
<1>1. ASSUME NEW i \in 1 .. n
      PROVE  /\ Len(o[i - 1]) \in Nat /\ Len(o[i]) \in Nat
             /\ Len(o[i]) = Len(o[i - 1]) \/ Len(o[i]) = Len(o[i - 1]) + 1
             /\ \A k \in 1 .. Len(o[i - 1]) : o[i][k] = o[i - 1][k]
  <2>1. o[i - 1] \in Seq(S) /\ o[i] \in Seq(S)
      OBVIOUS
  <2>2. CASE o[i] = o[i - 1]
      BY <2>1, <2>2
  <2>3. CASE \E x \in S : o[i] = Append(o[i - 1], x)
      BY <2>1, <2>3, Appended
  <2> QED
      BY <2>2, <2>3 DEF Grows
<1>2. /\ \A i \in 0 .. n : K[i] = Len(o[i]) /\ K[i] \in Nat
      /\ K = [i \in 0 .. n |-> K[i]]
    BY DEF Lengths
<1> HIDE DEF K
<1>3. Counting(K, n)
  <2>1. K[0] = 0
      BY <1>2 DEF Grows
  <2>2. ASSUME NEW i \in 1 .. n PROVE K[i] = K[i - 1] \/ K[i] = K[i - 1] + 1
    <3>1. i \in 0 .. n /\ i - 1 \in 0 .. n
        OBVIOUS
    <3>2. K[i] = Len(o[i]) /\ K[i - 1] = Len(o[i - 1])
        BY <3>1, <1>2
    <3> QED
        BY <3>2, <1>1
  <2>3. K \in [0 .. n -> Nat]
      BY <1>2
  <2> QED
      BY <2>1, <2>2, <2>3 DEF Counting
<1>4. ASSUME NEW i \in 0 .. n, NEW j \in i .. n
      PROVE  \A k \in 1 .. K[i] : o[j][k] = o[i][k]
  <2> DEFINE T == {m \in 0 .. n : m >= i => \A k \in 1 .. K[i] : o[m][k] = o[i][k]}
  <2>1. 0 \in T
      OBVIOUS
  <2>2. ASSUME NEW m \in 1 .. n, m - 1 \in T PROVE m \in T
    <3> SUFFICES ASSUME m >= i, NEW k \in 1 .. K[i] PROVE o[m][k] = o[i][k]
        OBVIOUS
    <3>1. CASE m = i
        BY <3>1
    <3>2. CASE m # i
      <4>1. m - 1 >= i /\ o[m - 1][k] = o[i][k]
          BY <3>2, <2>2
      <4>2. m - 1 \in i .. n
          BY <4>1
      <4>3. K[i] <= K[m - 1]
          BY <1>3, <4>2, CountsMonotone
      <4>4. k \in 1 .. Len(o[m - 1])
          BY <4>3, <1>2
      <4> QED
          BY <4>1, <4>4, <1>1
    <3> QED
        BY <3>1, <3>2
  <2>3. 0 .. n \subseteq T
      BY <2>1, <2>2, UpTo
  <2> QED
      BY <2>3
<1> QED
    BY <1>2, <1>3, <1>4 DEF Prefixed, K

-----------------------------------------------------------------------------
(* Heights.  The function that goes by the code is the only one, so that    *)
(* one height that is right makes the code level, or the program balanced.  *)

LEMMA LevelIf ==
    ASSUME NEW code \in Seq(IrInstructions), NEW h, IsIrHeight(code, h)
    PROVE  Level(code) /\ \A i \in 1 .. Len(code) : IrHeights(code)[i] = h[i]
<1> DEFINE n == Len(code)
           Def(f) == f = [i \in DOMAIN code |->
                            IF i = 1 THEN 0 ELSE IrHeightAfter(code[i - 1].opcode, f[i - 1])]
           w == [i \in DOMAIN code |-> h[i]]
           g == CHOOSE f : Def(f)
<1>1. n \in Nat /\ DOMAIN code = 1 .. n
    OBVIOUS
<1>2. /\ \A i \in 1 .. n : i = 1 => h[i] = 0
      /\ \A i \in 1 .. n : i < n => h[i + 1] = IrHeightAfter(code[i].opcode, h[i])
    BY <1>1 DEF IsIrHeight
<1>3. ASSUME NEW i \in 1 .. n
      PROVE  h[i] = IF i = 1 THEN 0 ELSE IrHeightAfter(code[i - 1].opcode, h[i - 1])
  <2>1. CASE i = 1
      BY <2>1, <1>2
  <2>2. CASE i # 1
    <3>1. i - 1 \in 1 .. n /\ i - 1 < n /\ i - 1 + 1 = i
        BY <2>2, <1>1
    <3>2. h[i - 1 + 1] = IrHeightAfter(code[i - 1].opcode, h[i - 1])
        BY <3>1, <1>2
    <3> QED
        BY <3>1, <3>2, <2>2
  <2> QED
      BY <2>1, <2>2
<1>4. Def(w)
  <2>1. \A i \in 1 .. n : i # 1 => i - 1 \in 1 .. n
      BY <1>1
  <2>2. ASSUME NEW i \in 1 .. n
        PROVE  w[i] = IF i = 1 THEN 0 ELSE IrHeightAfter(code[i - 1].opcode, w[i - 1])
      BY <2>1, <1>1, <1>3
  <2> QED
      BY <2>2, <1>1
<1>5. Def(g)
    BY <1>4
<1>6. IrHeights(code) = g
    BY DEF IrHeights
<1> HIDE DEF g, n, w
<1>7. \A i \in 1 .. n : g[i] = IF i = 1 THEN 0 ELSE IrHeightAfter(code[i - 1].opcode, g[i - 1])
    BY <1>1, <1>5
<1> HIDE DEF Def
<1> DEFINE T == {i \in 0 .. n : i # 0 => g[i] = h[i]}
<1>8. 0 .. n \subseteq T
  <2>1. 0 \in T
      BY <1>1
  <2>2. ASSUME NEW i \in 1 .. n, i - 1 \in T PROVE i \in T
    <3>1. CASE i = 1
        BY <3>1, <1>1, <1>2, <1>7
    <3>2. CASE i # 1
      <4>1. g[i - 1] = h[i - 1]
          BY <3>2, <2>2, <1>1
      <4> QED
          BY <4>1, <3>2, <1>1, <1>3, <1>7
    <3> QED
        BY <3>1, <3>2
  <2> QED
      BY <2>1, <2>2, <1>1, UpTo
<1>9. \A i \in 1 .. n : g[i] = h[i]
    BY <1>8, <1>1
<1>10. IsIrHeight(code, g)
  <2> SUFFICES ASSUME NEW i \in DOMAIN code
               PROVE LET opcode == code[i].opcode
        IN  /\ g[i] \in Nat
            /\ g[i] >= Pops(CompiledOpcode(opcode))
            /\ i = 1 => g[i] = 0
            /\ opcode \in Clean \cup Turns \cup {"Label"} => g[i] = 0
            /\ opcode = "JumpIfFalse" => g[i] = 1
            /\ i < Len(code) => g[i + 1] = IrHeightAfter(opcode, g[i])
      BY DEF IsIrHeight
  <2>1. i \in 1 .. n /\ g[i] = h[i] /\ (i < n => g[i + 1] = h[i + 1])
      BY <1>1, <1>9
  <2> QED
      BY <2>1 DEF IsIrHeight, n
<1> QED
    BY <1>6, <1>9, <1>10 DEF Level, n

LEMMA BalancedIf ==
    ASSUME NEW p, IsProgram(p), Len(p.code) > 0, NEW h, IsHeight(p, h),
           \A ip \in 0 .. Len(p.code) - 1 :
              At(p, ip).opcode \in Branches => At(p, ip).a \in 0 .. Len(p.code) - 1
    PROVE  Balanced(p)
<1> DEFINE last == Len(p.code) - 1
           Def(f) == f = [i \in 0 .. Len(p.code) - 1 |->
                            IF i = 0 THEN 0 ELSE HeightAfter(At(p, i - 1).opcode, f[i - 1])]
           w == [i \in 0 .. last |-> h[i]]
           g == CHOOSE f : Def(f)
<1>1. last \in Nat /\ last = Len(p.code) - 1
    BY DEF IsProgram
<1>2. /\ h[0] = 0
      /\ \A i \in 0 .. last : i < last => h[i + 1] = HeightAfter(At(p, i).opcode, h[i])
    BY <1>1 DEF IsHeight
<1> HIDE DEF last
<1>3. ASSUME NEW i \in 0 .. last
      PROVE  h[i] = IF i = 0 THEN 0 ELSE HeightAfter(At(p, i - 1).opcode, h[i - 1])
  <2>1. CASE i = 0
      BY <2>1, <1>2
  <2>2. CASE i # 0
    <3>1. i - 1 \in 0 .. last /\ i - 1 < last /\ i - 1 + 1 = i
        BY <2>2, <1>1
    <3>2. h[i - 1 + 1] = HeightAfter(At(p, i - 1).opcode, h[i - 1])
        BY <3>1, <1>2
    <3> QED
        BY <3>1, <3>2, <2>2
  <2> QED
      BY <2>1, <2>2
<1>4. Def(w)
  <2>1. \A i \in 0 .. last : i # 0 => i - 1 \in 0 .. last
      BY <1>1
  <2>2. ASSUME NEW i \in 0 .. last
        PROVE  w[i] = IF i = 0 THEN 0 ELSE HeightAfter(At(p, i - 1).opcode, w[i - 1])
      BY <2>1, <1>1, <1>3
  <2> QED
      BY <2>2, <1>1
<1>5. Def(g)
    BY <1>4
<1>6. Heights(p) = g
    BY DEF Heights
<1> HIDE DEF g, w
<1>7. \A i \in 0 .. last : g[i] = IF i = 0 THEN 0 ELSE HeightAfter(At(p, i - 1).opcode, g[i - 1])
    BY <1>1, <1>5
<1> HIDE DEF Def
<1> DEFINE T == {i \in 0 .. last : g[i] = h[i]}
<1>8. 0 .. last \subseteq T
  <2>1. 0 \in T
      BY <1>1, <1>2, <1>7
  <2>2. ASSUME NEW i \in 1 .. last, i - 1 \in T PROVE i \in T
    <3>1. g[i - 1] = h[i - 1]
        BY <2>2, <1>1
    <3> QED
        BY <3>1, <1>1, <1>3, <1>7
  <2> QED
      BY <2>1, <2>2, <1>1, UpTo
<1>9. \A i \in 0 .. last : g[i] = h[i]
    BY <1>8, <1>1
<1>10. IsHeight(p, g)
  <2>1. g[0] = 0
      BY <1>1, <1>2, <1>9
  <2>2. ASSUME NEW i \in 0 .. last
        PROVE  /\ g[i] \in Nat
               /\ g[i] >= Pops(At(p, i).opcode)
               /\ At(p, i).opcode \in Clean => g[i] = 0
               /\ At(p, i).opcode = "JumpIfFalse" => g[i] = 1
               /\ At(p, i).opcode \in {"Jump", "JumpIfFalse"} => g[At(p, i).a] = 0
               /\ i < last => g[i + 1] = HeightAfter(At(p, i).opcode, g[i])
    <3>1. g[i] = h[i] /\ (i < last => g[i + 1] = h[i + 1])
        BY <1>1, <1>9
    <3>2. At(p, i).opcode \in {"Jump", "JumpIfFalse"} => g[At(p, i).a] = h[At(p, i).a]
        BY <1>1, <1>9 DEF Branches
    <3> QED
        BY <3>1, <3>2, <1>1 DEF IsHeight
  <2> QED
      BY <2>1, <2>2, <1>1 DEF IsHeight
<1> QED
    BY <1>6, <1>10 DEF Balanced

-----------------------------------------------------------------------------
(* The shape, one fact at a time.                                           *)

LEMMA IrShape ==
    ASSUME NEW code \in Seq(IrInstructions), Structured(code),
           NEW n, n = Len(code), NEW f, f = TickBegin(code)
    PROVE  /\ n \in Nat /\ f \in Nat /\ f >= 3 /\ f <= n - 2
           /\ Op(code, 1) = "World" /\ code[1].int_value > 0 /\ code[1].int_value2 > 0
           /\ \A i \in 2 .. f - 2 : Op(code, i) \in Entities
           /\ Op(code, f - 1) = "Label" /\ Op(code, f) = "BeginTick"
           /\ \A i \in f + 1 .. n - 2 :
                 /\ Op(code, i) = "Label" \/ CompiledOpcode(Op(code, i)) \in BodyOpcodes
                 /\ Op(code, i) \in Branches => GoesTo(code, i) \in i + 1 .. n - 2
                 /\ Op(code, i) = "Stop" => Op(code, i + 1) = "Jump"
           /\ Op(code, n - 1) = "EndTick"
           /\ Op(code, n) = "Jump" /\ GoesTo(code, n) = f - 1
           /\ \A i \in 1 .. n : Op(code, i) = code[i].opcode
<1>1. n \in Nat /\ f \in 3 .. n - 2
    BY DEF Structured
<1>2. \A i \in 1 .. n : Op(code, i) = code[i].opcode
    BY <1>1 DEF Op
<1> QED
    BY <1>1, <1>2 DEF Structured

\* The instruction at each place.
LEMMA IrPlaces ==
    ASSUME NEW code \in Seq(IrInstructions), Structured(code),
           NEW n, n = Len(code), NEW f, f = TickBegin(code), NEW i \in 1 .. n
    PROVE  /\ Op(code, i) = "BeginTick" <=> i = f
           /\ Op(code, i) = "EndTick" <=> i = n - 1
           /\ Op(code, i) = "World" <=> i = 1
           /\ Op(code, i) \in Entities <=> i \in 2 .. f - 2
           /\ Op(code, i) = "Label" => i = f - 1 \/ i \in f + 1 .. n - 2
           /\ Op(code, i) = "Jump" => i = n \/ i \in f + 1 .. n - 2
           /\ i = 1 \/ i \in 2 .. f - 2 \/ i = f - 1 \/ i = f \/ i \in f + 1 .. n - 2
              \/ i = n - 1 \/ i = n
           /\ i \in f + 1 .. n - 2 <=> i > f /\ i < n - 1
<1>1. n \in Nat /\ f \in Nat /\ f >= 3 /\ f <= n - 2
    BY IrShape
<1>12. /\ Op(code, 1) = "World" /\ Op(code, f - 1) = "Label" /\ Op(code, f) = "BeginTick"
       /\ Op(code, n - 1) = "EndTick" /\ Op(code, n) = "Jump"
    BY IrShape
<1>2. \/ i = 1 \/ i \in 2 .. f - 2 \/ i = f - 1 \/ i = f \/ i \in f + 1 .. n - 2
      \/ i = n - 1 \/ i = n
    BY <1>1
<1>3. \A op : op = "Label" \/ CompiledOpcode(op) \in BodyOpcodes =>
         op \notin {"BeginTick", "EndTick", "World"} \cup Entities
    BY DEF CompiledOpcode, Renamed, BodyOpcodes, Entities, Moves, Turns
<1>4. CASE i = 1
  <2>1. Op(code, i) = "World"
      BY <1>12, <1>4
  <2> QED
      BY <2>1, <1>1, <1>4 DEF Entities
<1>5. CASE i \in 2 .. f - 2
  <2>1. Op(code, i) \in Entities
      BY <1>5, IrShape
  <2> QED
      BY <2>1, <1>1, <1>5 DEF Entities
<1>6. CASE i = f - 1
  <2>1. Op(code, i) = "Label"
      BY <1>12, <1>6
  <2> QED
      BY <2>1, <1>1, <1>6 DEF Entities
<1>7. CASE i = f
  <2>1. Op(code, i) = "BeginTick"
      BY <1>12, <1>7
  <2> QED
      BY <2>1, <1>1, <1>7 DEF Entities
<1>8. CASE i \in f + 1 .. n - 2
  <2>1. Op(code, i) = "Label" \/ CompiledOpcode(Op(code, i)) \in BodyOpcodes
      BY <1>8, IrShape
  <2>2. Op(code, i) \notin {"BeginTick", "EndTick", "World"} \cup Entities
      BY <2>1, <1>3
  <2> QED
      BY <2>2, <1>1, <1>8 DEF Entities
<1>9. CASE i = n - 1
  <2>1. Op(code, i) = "EndTick"
      BY <1>12, <1>9
  <2> QED
      BY <2>1, <1>1, <1>9 DEF Entities
<1>10. CASE i = n
  <2>1. Op(code, i) = "Jump"
      BY <1>12, <1>10
  <2> QED
      BY <2>1, <1>1, <1>10 DEF Entities
<1>11. i \in f + 1 .. n - 2 <=> i > f /\ i < n - 1
    BY <1>1
<1> QED
    BY <1>2, <1>4, <1>5, <1>6, <1>7, <1>8, <1>9, <1>10, <1>11

LEMMA IrLevel ==
    ASSUME NEW code \in Seq(IrInstructions), Level(code), NEW i \in 1 .. Len(code),
           NEW h, h = IrHeights(code)
    PROVE  /\ h[i] \in Nat
           /\ h[i] >= Pops(CompiledOpcode(code[i].opcode))
           /\ i = 1 => h[i] = 0
           /\ code[i].opcode \in Clean \cup Turns \cup {"Label"} => h[i] = 0
           /\ code[i].opcode = "JumpIfFalse" => h[i] = 1
           /\ i < Len(code) => h[i + 1] = IrHeightAfter(code[i].opcode, h[i])
<1>1. IsIrHeight(code, h) /\ i \in DOMAIN code
    BY DEF Level
<1> QED
    BY <1>1 DEF IsIrHeight

-----------------------------------------------------------------------------
(* What a pass of the optimizer leaves of the code.                         *)

Pushes == {"PushInt", "PushBool"}

\* All but the behaviours.
Fixed(code) == 1 .. TickBegin(code) \cup {Len(code) - 1, Len(code)}

\* An instruction that is left is the same, but that a push may become another.
\* The frame is left, the label of a jump that is left, and the jump of a stop.
Leaves(code, K, out) ==
    /\ out \in Seq(IrInstructions)
    /\ Counting(K, Len(code)) /\ K[Len(code)] = Len(out)
    /\ \A i \in 1 .. Len(code) : Remains(K, i) =>
          \/ out[K[i]] = code[i]
          \/ out[K[i]].opcode \in Pushes /\ code[i].opcode \in Pushes
    /\ \A i \in Fixed(code) : Remains(K, i)
    /\ \A i \in 1 .. Len(code) : Remains(K, i) =>
          /\ Op(code, i) \in Branches => Remains(K, GoesTo(code, i))
          /\ Op(code, i) = "Stop" => Remains(K, i + 1)

\* G[i] is the height of the stack after what is left of the first i instructions:
\* it is that of the code wherever something is left.
LeavesHeights(code, K, G) ==
    LET h == IrHeights(code)
    IN  \A i \in 1 .. Len(code) :
            IF Remains(K, i) THEN G[i - 1] = h[i] /\ (i < Len(code) => G[i] = h[i + 1])
            ELSE G[i] = G[i - 1]

\* Both.
IsRest(code, K, G, out) == Leaves(code, K, out) /\ LeavesHeights(code, K, G)

\* Where an instruction that is left comes from.
LEMMA RestFrom ==
    ASSUME NEW code \in Seq(IrInstructions), NEW K, NEW out, Leaves(code, K, out),
           NEW k \in 1 .. Len(out)
    PROVE  \E i \in 1 .. Len(code) :
              /\ K[i] = k /\ Remains(K, i)
              /\ \/ out[k] = code[i]
                 \/ out[k].opcode \in Pushes /\ code[i].opcode \in Pushes
<1>1. k \in 1 .. K[Len(code)] /\ Counting(K, Len(code)) /\ Len(code) \in Nat
    BY DEF Leaves
<1>2. PICK i \in 1 .. Len(code) : K[i] = k /\ Remains(K, i)
    BY <1>1, CountsOnto
<1> QED
    BY <1>2 DEF Leaves

\* A label that is left, the last one of its name, still is.
LEMMA RestLabel ==
    ASSUME NEW code \in Seq(IrInstructions), NEW K, NEW out, Leaves(code, K, out),
           NEW text, LabelIndex(code, text) # 0, Remains(K, LabelIndex(code, text))
    PROVE  LabelIndex(out, text) = K[LabelIndex(code, text)]
<1> DEFINE L == LabelIndex(code, text)
           M == LabelIndex(out, text)
<1>1. /\ Counting(K, Len(code)) /\ Len(code) \in Nat /\ out \in Seq(IrInstructions)
      /\ K[Len(code)] = Len(out)
    BY DEF Leaves
<1>2. /\ L \in 1 .. Len(code) /\ IsLabel(code[L]) /\ code[L].text = text
      /\ \A i \in 1 .. Len(code) : IsLabel(code[i]) /\ code[i].text = text => i <= L
    BY LabelFound
<1> HIDE DEF L
<1>3. out[K[L]] = code[L]
    BY <1>2 DEF Leaves, IsLabel, Pushes, L
<1>4. K[L] \in 1 .. Len(out)
  <2>1. K[L] <= K[Len(code)]
      BY <1>1, <1>2, CountsMonotone
  <2>2. K[L] = K[L - 1] + 1 /\ K[L - 1] \in Nat /\ K[Len(code)] \in Nat
      BY <1>1, <1>2 DEF Counting, Remains, L
  <2> QED
      BY <2>1, <2>2, <1>1
<1>5. K[L] <= M /\ M \in 0 .. Len(out)
    BY <1>1, <1>2, <1>3, <1>4, LabelFound
<1>6. M \in 1 .. Len(out) /\ IsLabel(out[M]) /\ out[M].text = text
    BY <1>1, <1>4, <1>5, LabelFound
<1> HIDE DEF M
<1>7. PICK s \in 1 .. Len(code) :
         /\ K[s] = M /\ Remains(K, s)
         /\ out[M] = code[s] \/ (out[M].opcode \in Pushes /\ code[s].opcode \in Pushes)
    BY <1>6, RestFrom
<1>8. s <= L
    BY <1>2, <1>6, <1>7 DEF IsLabel, Pushes
<1>9. K[s] <= K[L]
    BY <1>1, <1>2, <1>8, CountsMonotone
<1> QED
    BY <1>4, <1>5, <1>7, <1>9 DEF L, M

\* The beginning of the code is as it was.
LEMMA RestBegins ==
    ASSUME NEW code \in Seq(IrInstructions), Structured(code),
           NEW K, NEW out, Leaves(code, K, out), NEW f, f = TickBegin(code)
    PROVE  /\ \A i \in 0 .. f : K[i] = i
           /\ \A i \in 1 .. f : Remains(K, i) /\ out[i] = code[i]
           /\ f <= Len(out)
<1>1. Len(code) \in Nat /\ f \in Nat /\ f >= 3 /\ f <= Len(code) - 2
    BY IrShape
<1>2. Counting(K, Len(code)) /\ K[Len(code)] = Len(out)
    BY DEF Leaves
<1>3. \A i \in 1 .. f : Remains(K, i)
    BY <1>1 DEF Leaves, Fixed
<1> DEFINE T == {i \in 0 .. f : K[i] = i}
<1>4. 0 .. f \subseteq T
  <2>1. 0 \in T
      BY <1>1, <1>2 DEF Counting
  <2>2. ASSUME NEW i \in 1 .. f, i - 1 \in T PROVE i \in T
      BY <2>2, <1>3 DEF Remains
  <2> QED
      BY <2>1, <2>2, <1>1, UpTo
<1>5. ASSUME NEW i \in 1 .. f PROVE out[i] = code[i]
  <2>1. K[i] = i /\ i \in 1 .. Len(code)
      BY <1>1, <1>4
  <2>2. code[i].opcode \notin Pushes
    <3>1. i = 1 \/ i \in 2 .. f - 2 \/ i = f - 1 \/ i = f
        BY <1>1
    <3>2. Op(code, i) = code[i].opcode
        BY <2>1, IrShape
    <3>3. /\ Op(code, 1) = "World" /\ Op(code, f - 1) = "Label" /\ Op(code, f) = "BeginTick"
          /\ \A j \in 2 .. f - 2 : Op(code, j) \in Entities
        BY IrShape
    <3> QED
        BY <3>1, <3>2, <3>3 DEF Pushes, Entities
  <2> QED
      BY <2>1, <2>2, <1>3 DEF Leaves
<1>6. f <= Len(out)
  <2>1. K[f] <= K[Len(code)] /\ K[f] = f
      BY <1>1, <1>2, <1>4, CountsMonotone
  <2> QED
      BY <2>1, <1>2
<1> QED
    BY <1>3, <1>4, <1>5, <1>6

LEMMA RestTickBegin ==
    ASSUME NEW code \in Seq(IrInstructions), Structured(code),
           NEW K, NEW out, Leaves(code, K, out)
    PROVE  TickBegin(out) = TickBegin(code)
<1> DEFINE f == TickBegin(code)
<1>1. /\ Len(code) \in Nat /\ f \in Nat /\ f >= 3 /\ f <= Len(code) - 2
      /\ Op(code, f) = "BeginTick"
    BY IrShape
<1>2. out[f] = code[f] /\ f \in 1 .. Len(out) /\ out \in Seq(IrInstructions)
  <2>1. out \in Seq(IrInstructions)
      BY DEF Leaves
  <2> HIDE DEF f
  <2>2. f \in 1 .. f
      BY <1>1
  <2> QED
      BY <2>1, <2>2, <1>1, RestBegins DEF f
<1>3. Counting(K, Len(code)) /\ K[f] = f
    BY <1>1, RestBegins DEF Leaves
<1>4. ASSUME NEW k \in 1 .. Len(out), out[k].opcode = "BeginTick" PROVE k = f
  <2>1. PICK i \in 1 .. Len(code) :
           /\ K[i] = k /\ Remains(K, i)
           /\ out[k] = code[i] \/ (out[k].opcode \in Pushes /\ code[i].opcode \in Pushes)
      BY RestFrom
  <2>2. code[i].opcode = "BeginTick"
      BY <2>1, <1>4 DEF Pushes
  <2>3. Op(code, i) = "BeginTick"
      BY <2>2, IrShape
  <2>4. i = f
      BY <2>3, IrPlaces
  <2> QED
      BY <2>1, <2>4, <1>3
<1>5. out[f].opcode = "BeginTick"
    BY <1>1, <1>2, IrShape
<1>6. DOMAIN out = 1 .. Len(out)
    BY <1>2
<1> QED
    BY <1>2, <1>4, <1>5, <1>6 DEF TickBegin

\* Where the end of the code has come.
LEMMA RestEnds ==
    ASSUME NEW code \in Seq(IrInstructions), Structured(code),
           NEW K, NEW out, Leaves(code, K, out), NEW n, n = Len(code),
           NEW f, f = TickBegin(code)
    PROVE  /\ Len(out) \in Nat /\ K[n - 2] \in Nat /\ f <= K[n - 2]
           /\ K[n - 2] = Len(out) - 2 /\ K[n - 1] = Len(out) - 1 /\ K[n] = Len(out)
           /\ out[Len(out) - 1] = code[n - 1] /\ out[Len(out)] = code[n]
           /\ \A i \in 1 .. n : Remains(K, i) =>
                 /\ K[i] \in 1 .. Len(out)
                 /\ i \in f + 1 .. n - 2 <=> K[i] \in f + 1 .. Len(out) - 2
<1>1. n \in Nat /\ f \in Nat /\ f >= 3 /\ f <= n - 2
    BY IrShape
<1>2. Counting(K, n) /\ K[n] = Len(out) /\ out \in Seq(IrInstructions)
    BY DEF Leaves
<1>3. Remains(K, n - 1) /\ Remains(K, n)
    BY <1>1 DEF Leaves, Fixed
<1>4. \A i \in 0 .. n : K[i] \in Nat
    BY <1>2 DEF Counting
<1>5. Len(out) \in Nat /\ K[n - 2] \in Nat
      /\ K[n - 2] = Len(out) - 2 /\ K[n - 1] = Len(out) - 1
  <2>1. n - 2 \in 0 .. n /\ n - 1 \in 0 .. n /\ n \in 0 .. n /\ n - 1 - 1 = n - 2
      BY <1>1
  <2>2. K[n - 2] \in Nat /\ K[n - 1] \in Nat /\ K[n] \in Nat
      BY <2>1, <1>4
  <2>3. K[n - 1] = K[n - 2] + 1 /\ K[n] = K[n - 1] + 1
      BY <2>1, <1>3 DEF Remains
  <2> QED
      BY <2>2, <2>3, <1>2
<1>6. K[f] = f /\ f <= K[n - 2]
  <2>1. K[f] = f
      BY <1>1, RestBegins
  <2>2. f \in 0 .. n /\ n - 2 \in f .. n
      BY <1>1
  <2>3. K[f] <= K[n - 2]
      BY <1>1, <1>2, <2>2, CountsMonotone
  <2> QED
      BY <2>1, <2>3
<1>7. out[K[n - 1]] = code[n - 1] /\ out[K[n]] = code[n]
  <2>1. n - 1 \in 1 .. n /\ n \in 1 .. n
      BY <1>1
  <2>2. code[n - 1].opcode \notin Pushes /\ code[n].opcode \notin Pushes
    <3>1. Op(code, n - 1) = "EndTick" /\ Op(code, n) = "Jump"
          /\ \A i \in 1 .. n : Op(code, i) = code[i].opcode
        BY IrShape
    <3> QED
        BY <3>1, <2>1 DEF Pushes
  <2> QED
      BY <2>1, <2>2, <1>3 DEF Leaves
<1>8. ASSUME NEW i \in 1 .. n, Remains(K, i)
      PROVE  /\ K[i] \in 1 .. Len(out)
             /\ i \in f + 1 .. n - 2 <=> K[i] \in f + 1 .. Len(out) - 2
  <2>1. K[i] = K[i - 1] + 1 /\ K[i - 1] \in Nat /\ K[i] \in Nat
      BY <1>4, <1>8 DEF Remains
  <2>2. i <= n /\ n \in i .. n /\ i \in 0 .. n
      BY <1>1
  <2>3. K[i] <= K[n]
      BY <1>1, <1>2, <2>2, CountsMonotone
  <2>4. CASE i <= f
    <3>1. i \in 0 .. n /\ f \in i .. n
        BY <1>1, <2>4
    <3>2. K[i] <= K[f]
        BY <1>1, <1>2, <3>1, CountsMonotone
    <3> QED
        BY SMTT(30), <1>1, <1>2, <1>5, <1>6, <2>1, <2>3, <2>4, <3>2
  <2>5. CASE i \in f + 1 .. n - 2
    <3>1. f \in 0 .. n /\ i \in f .. n /\ f < i
        BY <1>1, <2>5
    <3>2. K[f] < K[i]
        BY <1>1, <1>2, <1>8, <3>1, CountsMonotone
    <3>3. i \in 0 .. n /\ n - 2 \in i .. n
        BY <1>1, <2>5
    <3>4. K[i] <= K[n - 2]
        BY <1>1, <1>2, <3>3, CountsMonotone
    <3> QED
        BY SMTT(30), <1>1, <1>2, <1>5, <1>6, <2>1, <2>3, <2>5, <3>2, <3>4
  <2>6. CASE i = n - 1 \/ i = n
    <3>1. K[i] >= 1 /\ K[i] <= Len(out)
        BY <1>2, <2>1, <2>3
    <3>2. K[i] >= Len(out) - 1
      <4>1. CASE i = n - 1
          BY <1>5, <4>1
      <4>2. CASE i = n
          BY <1>2, <1>5, <4>2
      <4> QED
          BY <2>6, <4>1, <4>2
    <3>3. i \notin f + 1 .. n - 2
        BY <1>1, <2>6
    <3> QED
        BY SMTT(30), <1>1, <1>5, <2>1, <3>1, <3>2, <3>3
  <2> QED
      BY <1>1, <2>4, <2>5, <2>6
<1> QED
    BY <1>2, <1>5, <1>6, <1>7, <1>8

\* Where a jump that is left goes.
LEMMA RestGoesTo ==
    ASSUME NEW code \in Seq(IrInstructions), Structured(code),
           NEW K, NEW out, Leaves(code, K, out), NEW i \in 1 .. Len(code), Remains(K, i),
           code[i].opcode \in Branches
    PROVE  /\ out[K[i]] = code[i]
           /\ GoesTo(code, i) \in 1 .. Len(code) /\ Remains(K, GoesTo(code, i))
           /\ IsLabel(code[GoesTo(code, i)])
           /\ GoesTo(out, K[i]) = K[GoesTo(code, i)]
<1> DEFINE n == Len(code)
           f == TickBegin(code)
<1>1. n \in Nat /\ f \in Nat /\ f >= 3 /\ f <= n - 2
    BY IrShape
<1>2. out[K[i]] = code[i]
    BY DEF Leaves, Pushes, Branches
<1>3. Op(code, i) = code[i].opcode
    BY IrShape
<1>4. i = n \/ i \in f + 1 .. n - 2
  <2>1. i = 1 \/ i \in 2 .. f - 2 \/ i = f - 1 \/ i = f \/ i \in f + 1 .. n - 2
        \/ i = n - 1 \/ i = n
      BY IrPlaces
  <2>2. /\ Op(code, 1) = "World" /\ Op(code, f - 1) = "Label" /\ Op(code, f) = "BeginTick"
        /\ Op(code, n - 1) = "EndTick" /\ \A j \in 2 .. f - 2 : Op(code, j) \in Entities
      BY IrShape
  <2> QED
      BY <2>1, <2>2, <1>3 DEF Branches, Entities
<1>5. GoesTo(code, i) \in 1 .. n
  <2>1. CASE i = n
    <3>1. GoesTo(code, n) = f - 1
        BY IrShape
    <3> QED
        BY <3>1, <2>1, <1>1
  <2>2. CASE i \in f + 1 .. n - 2
    <3>1. GoesTo(code, i) \in i + 1 .. n - 2
        BY <2>2, <1>3, IrShape
    <3> QED
        BY <3>1, <2>2, <1>1
  <2> QED
      BY <2>1, <2>2, <1>4
<1>6. Remains(K, GoesTo(code, i))
    BY <1>3 DEF Leaves
<1>7. GoesTo(code, i) = LabelIndex(code, code[i].text)
    BY DEF GoesTo
<1>8. IsLabel(code[GoesTo(code, i)])
    BY <1>5, <1>7, <1>1, LabelFound
<1>9. LabelIndex(code, code[i].text) # 0
    BY <1>5, <1>7, <1>1
<1>10. LabelIndex(out, code[i].text) = K[GoesTo(code, i)]
    BY <1>6, <1>7, <1>9, RestLabel
<1> QED
    BY <1>2, <1>5, <1>6, <1>8, <1>10 DEF GoesTo

LEMMA RestStructured ==
    ASSUME NEW code \in Seq(IrInstructions), Structured(code),
           NEW K, NEW out, Leaves(code, K, out)
    PROVE  Structured(out)
<1> DEFINE n == Len(code)
           f == TickBegin(code)
           m == Len(out)
<1>1. /\ n \in Nat /\ f \in Nat /\ f >= 3 /\ f <= n - 2
      /\ Op(code, 1) = "World" /\ code[1].int_value > 0 /\ code[1].int_value2 > 0
      /\ \A i \in 2 .. f - 2 : Op(code, i) \in Entities
      /\ Op(code, f - 1) = "Label" /\ Op(code, f) = "BeginTick"
      /\ Op(code, n - 1) = "EndTick"
      /\ Op(code, n) = "Jump" /\ GoesTo(code, n) = f - 1
      /\ \A i \in 1 .. n : Op(code, i) = code[i].opcode
    BY IrShape
<1>2. /\ m \in Nat /\ K[n - 2] \in Nat /\ f <= K[n - 2]
      /\ K[n - 2] = m - 2 /\ K[n - 1] = m - 1 /\ K[n] = m
      /\ out[m - 1] = code[n - 1] /\ out[m] = code[n]
      /\ \A i \in 1 .. n : Remains(K, i) =>
            /\ K[i] \in 1 .. m
            /\ i \in f + 1 .. n - 2 <=> K[i] \in f + 1 .. m - 2
    BY RestEnds
<1>3. /\ \A i \in 0 .. f : K[i] = i
      /\ \A i \in 1 .. f : Remains(K, i) /\ out[i] = code[i]
    BY RestBegins
<1>4. TickBegin(out) = f
    BY RestTickBegin
<1>5. out \in Seq(IrInstructions) /\ Counting(K, n) /\ Remains(K, n)
    BY <1>1 DEF Leaves, Fixed
<1> HIDE DEF n, f, m
<1>6. \A k \in 1 .. m : Op(out, k) = out[k].opcode
    BY DEF Op, m
<1>7. f \in 3 .. m - 2
    BY <1>1, <1>2
<1>8. ASSUME NEW k \in 1 .. f PROVE Op(out, k) = Op(code, k) /\ out[k] = code[k]
  <2>1. k \in 1 .. m /\ k \in 1 .. n
      BY <1>1, <1>2, <1>7
  <2> QED
      BY <2>1, <1>1, <1>3, <1>6
<1>9. /\ Op(out, 1) = "World" /\ out[1].int_value > 0 /\ out[1].int_value2 > 0
      /\ \A i \in 2 .. f - 2 : Op(out, i) \in Entities
      /\ Op(out, f - 1) = "Label" /\ Op(out, f) = "BeginTick"
  <2>1. 1 \in 1 .. f /\ f - 1 \in 1 .. f /\ f \in 1 .. f /\ 2 .. f - 2 \subseteq 1 .. f
      BY <1>1
  <2> QED
      BY <2>1, <1>1, <1>8
<1>10. Op(out, m - 1) = "EndTick" /\ Op(out, m) = "Jump"
  <2>1. m - 1 \in 1 .. m /\ m \in 1 .. m /\ n - 1 \in 1 .. n /\ n \in 1 .. n
      BY SMTT(30), <1>1, <1>2, <1>7
  <2> QED
      BY <2>1, <1>1, <1>2, <1>6
<1>11. GoesTo(out, m) = f - 1
  <2>1. n \in 1 .. n /\ code[n].opcode \in Branches
      BY <1>1 DEF Branches
  <2>2. GoesTo(out, K[n]) = K[GoesTo(code, n)]
      BY <2>1, <1>5, RestGoesTo DEF n
  <2>3. f - 1 \in 0 .. f
      BY <1>1
  <2> QED
      BY <2>2, <2>3, <1>1, <1>2, <1>3
<1>12. ASSUME NEW k \in f + 1 .. m - 2
       PROVE  /\ Op(out, k) = "Label" \/ CompiledOpcode(Op(out, k)) \in BodyOpcodes
              /\ Op(out, k) \in Branches => GoesTo(out, k) \in k + 1 .. m - 2
              /\ Op(out, k) = "Stop" => Op(out, k + 1) = "Jump"
  <2>1. k \in 1 .. m /\ k + 1 \in 1 .. m
      BY <1>1, <1>2, <1>7
  <2>2. PICK i \in 1 .. n :
           /\ K[i] = k /\ Remains(K, i)
           /\ out[k] = code[i] \/ (out[k].opcode \in Pushes /\ code[i].opcode \in Pushes)
      BY <2>1, RestFrom DEF n, m
  <2>3. i \in f + 1 .. n - 2
      BY <2>2, <1>2
  <2>4. /\ Op(code, i) = "Label" \/ CompiledOpcode(Op(code, i)) \in BodyOpcodes
        /\ Op(code, i) \in Branches => GoesTo(code, i) \in i + 1 .. n - 2
        /\ Op(code, i) = "Stop" => Op(code, i + 1) = "Jump"
      BY <2>3, IrShape DEF n, f
  <2>5. Op(out, k) = out[k].opcode /\ Op(code, i) = code[i].opcode
      BY <2>1, <1>1, <1>6
  <2>6. CASE out[k].opcode \in Pushes /\ code[i].opcode \in Pushes
    <3>1. \A op \in Pushes : CompiledOpcode(op) \in BodyOpcodes /\ op \notin Branches
                             /\ op # "Stop"
        BY DEF Pushes, CompiledOpcode, Renamed, BodyOpcodes, Branches
    <3> QED
        BY <3>1, <2>5, <2>6
  <2>7. CASE out[k] = code[i]
    <3>1. ASSUME Op(out, k) \in Branches PROVE GoesTo(out, k) \in k + 1 .. m - 2
      <4>1. code[i].opcode \in Branches
          BY <2>5, <2>7, <3>1
      <4> DEFINE L == GoesTo(code, i)
      <4>2. GoesTo(out, k) = K[L] /\ L \in 1 .. n /\ Remains(K, L)
          BY <4>1, <2>2, RestGoesTo DEF n
      <4>3. L \in i + 1 .. n - 2
          BY <4>1, <2>4, <2>5
      <4>4. K[L] \in f + 1 .. m - 2
        <5>1. L \in f + 1 .. n - 2
            BY <4>3, <2>3, <1>1
        <5> QED
            BY <5>1, <4>2, <1>2
      <4>5. K[i] < K[L]
        <5>1. i \in 0 .. n /\ L \in i .. n /\ i < L
            BY <4>2, <4>3, <1>1, <2>3
        <5> HIDE DEF L
        <5> QED
            BY <5>1, <4>2, <1>1, <1>5, CountsMonotone
      <4> QED
          BY <4>2, <4>4, <4>5, <2>2, <1>1
    <3>2. ASSUME Op(out, k) = "Stop" PROVE Op(out, k + 1) = "Jump"
      <4>1. Op(code, i) = "Stop" /\ Op(code, i + 1) = "Jump" /\ i + 1 \in 1 .. n
          BY <3>2, <2>3, <2>4, <2>5, <2>7, <1>1
      <4>2. Remains(K, i + 1)
          BY <4>1, <2>2 DEF Leaves, n
      <4>3. K[i + 1] = k + 1
        <5>1. i + 1 - 1 = i
            BY <2>3, <1>1
        <5> QED
            BY <5>1, <4>2, <2>2 DEF Remains
      <4>4. out[k + 1] = code[i + 1]
        <5>1. code[i + 1].opcode \notin Pushes
            BY <4>1, <1>1 DEF Pushes
        <5> QED
            BY <5>1, <4>1, <4>2, <4>3 DEF Leaves, n
      <4> QED
          BY <4>1, <4>4, <2>1, <1>1, <1>6
    <3> QED
        BY <3>1, <3>2, <2>4, <2>5, <2>7
  <2> QED
      BY <2>2, <2>6, <2>7
<1> QED
    BY <1>4, <1>7, <1>9, <1>10, <1>11, <1>12 DEF Structured, m

\* What an instruction that is left does to the height.
LEMMA PushHeight ==
    ASSUME NEW op \in Pushes, NEW height \in Nat
    PROVE  /\ IrHeightAfter(op, height) = height + 1
           /\ Pops(CompiledOpcode(op)) = 0
           /\ op \notin Clean \cup Turns \cup {"Label", "JumpIfFalse"}
BY DEF Pushes, IrHeightAfter, HeightAfter, Pops, Pushing, CompiledOpcode, Renamed,
       ArithOps, CompareOps, EqualityOps, Clean, Turns

LEMMA RestLevel ==
    ASSUME NEW code \in Seq(IrInstructions), Structured(code), Level(code),
           NEW K, NEW G, NEW out, IsRest(code, K, G, out)
    PROVE  Level(out)
<1> DEFINE n == Len(code)
           h == IrHeights(code)
           m == Len(out)
           Source(k) == CHOOSE i \in 1 .. n :
                           /\ K[i] = k /\ Remains(K, i)
                           /\ \/ out[k] = code[i]
                              \/ out[k].opcode \in Pushes /\ code[i].opcode \in Pushes
           g == [k \in 1 .. m |-> h[Source(k)]]
<1>1. /\ Leaves(code, K, out) /\ out \in Seq(IrInstructions) /\ Counting(K, n)
      /\ n \in Nat /\ m \in Nat /\ K[n] = m
    BY DEF IsRest, Leaves
<1>2. \A i \in 1 .. n :
         IF Remains(K, i) THEN G[i - 1] = h[i] /\ (i < n => G[i] = h[i + 1])
         ELSE G[i] = G[i - 1]
    BY DEF IsRest, LeavesHeights
<1>3. \A k \in 1 .. m :
         /\ Source(k) \in 1 .. n
         /\ K[Source(k)] = k /\ Remains(K, Source(k))
         /\ \/ out[k] = code[Source(k)]
            \/ out[k].opcode \in Pushes /\ code[Source(k)].opcode \in Pushes
  <2> TAKE k \in 1 .. m
  <2>1. \E i \in 1 .. n :
           /\ K[i] = k /\ Remains(K, i)
           /\ out[k] = code[i] \/ (out[k].opcode \in Pushes /\ code[i].opcode \in Pushes)
      BY <1>1, RestFrom
  <2> QED
      BY <2>1
<1>4. \A i \in 1 .. n :
         /\ h[i] \in Nat
         /\ h[i] >= Pops(CompiledOpcode(code[i].opcode))
         /\ i = 1 => h[i] = 0
         /\ code[i].opcode \in Clean \cup Turns \cup {"Label"} => h[i] = 0
         /\ code[i].opcode = "JumpIfFalse" => h[i] = 1
         /\ i < n => h[i + 1] = IrHeightAfter(code[i].opcode, h[i])
    BY IrLevel
<1>5. \A k \in 1 .. m : g[k] = h[Source(k)]
    OBVIOUS
<1> HIDE DEF Source, g, h, n, m
<1>6. ASSUME NEW k \in 1 .. m, k < m
      PROVE  h[Source(k + 1)] = IrHeightAfter(code[Source(k)].opcode, h[Source(k)])
  <2> DEFINE i == Source(k)
             j == Source(k + 1)
  <2>1. /\ i \in 1 .. n /\ K[i] = k /\ Remains(K, i)
        /\ j \in 1 .. n /\ K[j] = k + 1 /\ Remains(K, j)
      BY <1>1, <1>3, <1>6
  <2> HIDE DEF i, j
  <2>2. K[j - 1] = k
    <3>1. K[j - 1] \in Nat /\ k + 1 = K[j - 1] + 1
        BY <1>1, <2>1 DEF Counting, Remains
    <3> QED
        BY <3>1
  <2>3. i < j
    <3> SUFFICES ASSUME j <= i PROVE FALSE
        BY <2>1
    <3>1. j \in 0 .. n /\ i \in j .. n
        BY <2>1, <1>1
    <3>2. K[j] <= K[i]
        BY <3>1, <1>1, CountsMonotone
    <3> QED
        BY <3>2, <2>1
  <2> DEFINE T == {c \in 0 .. j - 1 : c >= i => G[c] = G[i]}
  <2>4. j - 1 \in Nat /\ j - 1 <= n /\ i <= j - 1
      BY <2>1, <2>3, <1>1
  <2>5. 0 .. j - 1 \subseteq T
    <3>1. 0 \in T
        BY <2>1, <2>4
    <3>2. ASSUME NEW c \in 1 .. j - 1, c - 1 \in T PROVE c \in T
      <4>1. CASE c <= i
          BY <4>1, <2>1
      <4>2. CASE c > i
        <5>1. G[c - 1] = G[i]
            BY <3>2, <4>2, <2>1
        <5>2. ~ Remains(K, c)
          <6>1. i \in 0 .. n /\ c \in i .. n /\ c \in 0 .. n /\ j - 1 \in c .. n /\ i < c
              BY <2>1, <2>4, <4>2, <1>1
          <6>2. K[c] <= K[j - 1]
              BY <6>1, <1>1, CountsMonotone
          <6>3. Remains(K, c) => K[i] < K[c]
              BY <6>1, <1>1, CountsMonotone
          <6>4. K[c] \in Nat
              BY <6>1, <1>1 DEF Counting
          <6> QED
              BY <6>2, <6>3, <6>4, <2>1, <2>2
        <5>3. c \in 1 .. n
            BY <2>4, <1>1
        <5> QED
            BY <5>1, <5>2, <5>3, <1>2
      <4> QED
          BY <4>1, <4>2, <2>1
    <3> QED
        BY <3>1, <3>2, <2>4, UpTo
  <2>6. G[j - 1] = G[i]
    <3>1. j - 1 \in 0 .. j - 1
        BY <2>4
    <3> QED
        BY <3>1, <2>4, <2>5
  <2>7. G[j - 1] = h[j] /\ i < n /\ G[i] = h[i + 1]
      BY <2>1, <2>3, <1>1, <1>2
  <2> QED
      BY <2>1, <2>6, <2>7, <1>4 DEF i, j
<1>7. ASSUME NEW k \in 1 .. m
      PROVE  /\ g[k] \in Nat
             /\ g[k] >= Pops(CompiledOpcode(out[k].opcode))
             /\ k = 1 => g[k] = 0
             /\ out[k].opcode \in Clean \cup Turns \cup {"Label"} => g[k] = 0
             /\ out[k].opcode = "JumpIfFalse" => g[k] = 1
             /\ k < m => g[k + 1] = IrHeightAfter(out[k].opcode, g[k])
  <2> DEFINE i == Source(k)
  <2>1. i \in 1 .. n /\ K[i] = k /\ Remains(K, i) /\ g[k] = h[i] /\ h[i] \in Nat
      BY <1>3, <1>4, <1>5
  <2>2. k < m => g[k + 1] = IrHeightAfter(code[i].opcode, h[i])
    <3>1. k < m => k + 1 \in 1 .. m
        BY <1>1
    <3> QED
        BY <3>1, <1>5, <1>6
  <2>3. out[k] = code[i] \/ (out[k].opcode \in Pushes /\ code[i].opcode \in Pushes)
      BY <1>3
  <2> HIDE DEF i
  <2>4. k = 1 => g[k] = 0
    <3> SUFFICES ASSUME k = 1 PROVE h[i] = 0
        BY <2>1
    <3>1. i = 1
      <4> SUFFICES ASSUME i # 1 PROVE FALSE
          OBVIOUS
      <4>1. 1 \in 0 .. n /\ i \in 1 .. n /\ 1 < i /\ Remains(K, 1) /\ K[1] = 1
        <5>1. Remains(K, 1) /\ K[1] = 1
          <6>1. TickBegin(code) \in Nat /\ TickBegin(code) >= 3
              BY IrShape
          <6>2. 1 \in 1 .. TickBegin(code) /\ 1 \in 0 .. TickBegin(code)
              BY <6>1
          <6> QED
              BY <6>2, <1>1, RestBegins
        <5> QED
            BY <5>1, <2>1, <1>1
      <4>2. K[1] < K[i]
          BY <4>1, <2>1, <1>1, CountsMonotone
      <4> QED
          BY <4>1, <4>2, <2>1
    <3> QED
        BY <3>1, <2>1, <1>4
  <2>5. CASE out[k] = code[i]
      BY <2>1, <2>2, <2>4, <2>5, <1>4
  <2>6. CASE out[k].opcode \in Pushes /\ code[i].opcode \in Pushes
    <3>1. /\ IrHeightAfter(out[k].opcode, h[i]) = h[i] + 1
          /\ Pops(CompiledOpcode(out[k].opcode)) = 0
          /\ out[k].opcode \notin Clean \cup Turns \cup {"Label", "JumpIfFalse"}
        BY <2>1, <2>6, PushHeight
    <3>2. IrHeightAfter(code[i].opcode, h[i]) = h[i] + 1
        BY <2>1, <2>6, PushHeight
    <3> QED
        BY <3>1, <3>2, <2>1, <2>2, <2>4
  <2> QED
      BY <2>3, <2>5, <2>6
<1>8. IsIrHeight(out, g)
  <2>1. DOMAIN out = 1 .. m
      BY <1>1 DEF m
  <2> QED
      BY <2>1, <1>7 DEF IsIrHeight, m
<1> QED
    BY <1>1, <1>8, LevelIf

LEMMA RestIsShaped ==
    ASSUME NEW code, Shaped(code), NEW K, NEW G, NEW out, IsRest(code, K, G, out)
    PROVE  Shaped(out)
<1>1. Leaves(code, K, out) /\ code \in Seq(IrInstructions) /\ Structured(code) /\ Level(code)
    BY DEF IsRest, Shaped
<1>2. out \in Seq(IrInstructions)
    BY <1>1 DEF Leaves
<1> QED
    BY <1>1, <1>2, RestStructured, RestLevel DEF Shaped

-----------------------------------------------------------------------------
(* A pass that drops nothing but what computes values keeps the nesting.    *)

LEMMA CountsOrder ==
    ASSUME NEW n \in Nat, NEW K, Counting(K, n), NEW i \in 1 .. n, NEW j \in 1 .. n,
           Remains(K, i), Remains(K, j)
    PROVE  /\ K[i] \in Nat /\ K[j] \in Nat
           /\ K[i] < K[j] <=> i < j
           /\ K[i] = K[j] <=> i = j
<1>1. K[i] \in Nat /\ K[j] \in Nat
    BY DEF Counting
<1>2. i < j => K[i] < K[j]
  <2>1. i \in 0 .. n /\ (i < j => j \in i .. n)
      OBVIOUS
  <2> QED
      BY <2>1, CountsMonotone
<1>3. j < i => K[j] < K[i]
  <2>1. j \in 0 .. n /\ (j < i => i \in j .. n)
      OBVIOUS
  <2> QED
      BY <2>1, CountsMonotone
<1> QED
    BY <1>1, <1>2, <1>3

Computing == Pushes \cup ArithOps \cup CompareOps \cup EqualityOps \cup {"Not", "Neg"}

DropsComputing(code, K) ==
    \A i \in 1 .. Len(code) : ~ Remains(K, i) =>
        Op(code, i) \in Computing \/ (Op(code, i) = "Pop" /\ Op(code, i - 1) \in Pushes)

IrJumps(code) == {i \in TickBegin(code) .. Len(code) - 2 : Op(code, i) \in Branches}

LEMMA NestedIs ==
    ASSUME NEW code, Nested(code)
    PROVE  /\ \A i, j \in DOMAIN code :
                 IsLabel(code[i]) /\ IsLabel(code[j]) /\ code[i].text = code[j].text => i = j
           /\ \A i, j \in IrJumps(code) :
                 i # j /\ Op(code, i) = "JumpIfFalse" =>
                    /\ GoesTo(code, j) # GoesTo(code, i)
                    /\ j < i => GoesTo(code, j) \notin i + 1 .. GoesTo(code, i)
           /\ \A i \in IrJumps(code) :
                 /\ Op(code, i) = "Jump" /\ Op(code, i - 1) = "Stop" => Op(code, i + 1) = "Pop"
                 /\ Op(code, i) = "Jump" /\ Op(code, i - 1) # "Stop" =>
                       /\ Op(code, i + 1) = "Label"
                       /\ \A j \in IrJumps(code) : j < i =>
                             GoesTo(code, j) \notin i + 2 .. GoesTo(code, i) - 1
BY DEF Nested, IrJumps

\* Where a jump that is left comes from.
LEMMA RestJump ==
    ASSUME NEW code \in Seq(IrInstructions), Structured(code),
           NEW K, NEW out, Leaves(code, K, out), NEW k \in IrJumps(out)
    PROVE  \E i \in IrJumps(code) :
              /\ i \in TickBegin(code) + 1 .. Len(code) - 2 /\ K[i] = k /\ Remains(K, i)
              /\ Op(code, i) = Op(out, k)
              /\ GoesTo(code, i) \in i + 1 .. Len(code) - 2 /\ Remains(K, GoesTo(code, i))
              /\ GoesTo(out, k) = K[GoesTo(code, i)]
<1> DEFINE n == Len(code)
           f == TickBegin(code)
           m == Len(out)
<1>1. /\ n \in Nat /\ f \in Nat /\ f >= 3 /\ f <= n - 2 /\ Op(code, f) = "BeginTick"
    BY IrShape
<1>2. TickBegin(out) = f /\ out[f] = code[f] /\ f \in 1 .. m /\ out \in Seq(IrInstructions)
  <2>1. f \in 1 .. f
      BY <1>1
  <2>2. out[f] = code[f] /\ f <= m
      BY <2>1, RestBegins
  <2>3. out \in Seq(IrInstructions)
      BY DEF Leaves
  <2> QED
      BY <1>1, <2>2, <2>3, RestTickBegin
<1>3. k \in f .. m - 2 /\ Op(out, k) \in Branches /\ k \in 1 .. m /\ Op(out, k) = out[k].opcode
  <2>1. k \in f .. m - 2 /\ Op(out, k) \in Branches
      BY <1>2 DEF IrJumps
  <2>2. k \in 1 .. m
      BY <2>1, <1>1, <1>2
  <2> QED
      BY <2>1, <2>2 DEF Op
<1>4. k # f
  <2>1. f \in 1 .. n
      BY <1>1
  <2>2. out[f].opcode = "BeginTick"
      BY <2>1, <1>1, <1>2, IrShape
  <2> QED
      BY <2>2, <1>3 DEF Branches
<1>5. PICK i \in 1 .. n :
         /\ K[i] = k /\ Remains(K, i)
         /\ out[k] = code[i] \/ (out[k].opcode \in Pushes /\ code[i].opcode \in Pushes)
    BY SMTT(30), <1>3, RestFrom
<1>6. i \in f + 1 .. n - 2
  <2>1. k \in f + 1 .. m - 2
      BY <1>1, <1>2, <1>3, <1>4
  <2> QED
      BY <2>1, <1>5, RestEnds
<1>7. out[k] = code[i] /\ Op(code, i) = code[i].opcode /\ code[i].opcode \in Branches
  <2>1. out[k] = code[i]
      BY <1>3, <1>5 DEF Branches, Pushes
  <2> QED
      BY <2>1, <1>3, IrShape
<1>8. GoesTo(code, i) \in i + 1 .. n - 2
    BY <1>6, <1>7, IrShape
<1>9. Remains(K, GoesTo(code, i)) /\ GoesTo(out, k) = K[GoesTo(code, i)]
    BY <1>5, <1>7, RestGoesTo
<1>10. i \in IrJumps(code)
    BY <1>1, <1>6, <1>7 DEF IrJumps
<1> QED
    BY <1>3, <1>5, <1>6, <1>7, <1>8, <1>9, <1>10

LEMMA RestNested ==
    ASSUME NEW code \in Seq(IrInstructions), Structured(code), Nested(code),
           NEW K, NEW out, Leaves(code, K, out), DropsComputing(code, K)
    PROVE  Nested(out)
<1> DEFINE n == Len(code)
           f == TickBegin(code)
           m == Len(out)
<1>1. /\ n \in Nat /\ f \in Nat /\ f >= 3 /\ f <= n - 2
      /\ \A i \in 1 .. n : Op(code, i) = code[i].opcode
    BY IrShape
<1>2. /\ m \in Nat /\ DOMAIN out = 1 .. m /\ DOMAIN code = 1 .. n /\ Counting(K, n)
      /\ \A k \in 1 .. m : Op(out, k) = out[k].opcode
    BY DEF Leaves, Op
<1>3. ASSUME NEW k \in 1 .. m, NEW l \in 1 .. m, IsLabel(out[k]), IsLabel(out[l]),
             out[k].text = out[l].text
      PROVE  k = l
  <2>1. PICK i \in 1 .. n :
           /\ K[i] = k /\ Remains(K, i)
           /\ out[k] = code[i] \/ (out[k].opcode \in Pushes /\ code[i].opcode \in Pushes)
      BY RestFrom
  <2>2. PICK j \in 1 .. n :
           /\ K[j] = l /\ Remains(K, j)
           /\ out[l] = code[j] \/ (out[l].opcode \in Pushes /\ code[j].opcode \in Pushes)
      BY RestFrom
  <2>3. out[k] = code[i] /\ out[l] = code[j]
      BY <2>1, <2>2, <1>3 DEF IsLabel, Pushes
  <2>4. i = j
      BY <2>3, <1>2, <1>3, NestedIs
  <2> QED
      BY <2>1, <2>2, <2>4
\* An instruction that is left is followed by the one that followed it.
<1>4. ASSUME NEW i \in 1 .. n, i + 1 \in 1 .. n, Remains(K, i), Remains(K, i + 1),
             Op(code, i + 1) \notin Pushes
      PROVE  /\ K[i + 1] = K[i] + 1 /\ K[i] + 1 \in 1 .. m
             /\ Op(out, K[i] + 1) = Op(code, i + 1)
  <2>1. K[i + 1] = K[i] + 1
    <3>1. i + 1 - 1 = i
        OBVIOUS
    <3> QED
        BY <3>1, <1>4 DEF Remains
  <2>2. K[i + 1] \in 1 .. m
      BY <1>4, RestEnds
  <2>3. out[K[i + 1]] = code[i + 1]
      BY <1>4, <1>1 DEF Leaves
  <2> QED
      BY <2>1, <2>2, <2>3, <1>1, <1>2, <1>4
<1>5. \A i \in 1 .. n : Op(code, i) \in Branches \cup {"Label", "Stop"} => Remains(K, i)
    BY DEF DropsComputing, Computing, Pushes, Branches, ArithOps, CompareOps, EqualityOps
<1>6. ASSUME NEW k \in IrJumps(out), NEW l \in IrJumps(out), k # l, Op(out, k) = "JumpIfFalse"
      PROVE  /\ GoesTo(out, l) # GoesTo(out, k)
             /\ l < k => GoesTo(out, l) \notin k + 1 .. GoesTo(out, k)
  <2>1. PICK i \in IrJumps(code) :
              /\ i \in f + 1 .. n - 2 /\ K[i] = k /\ Remains(K, i)
              /\ Op(code, i) = Op(out, k)
              /\ GoesTo(code, i) \in i + 1 .. n - 2 /\ Remains(K, GoesTo(code, i))
              /\ GoesTo(out, k) = K[GoesTo(code, i)]
      BY RestJump
  <2>2. PICK j \in IrJumps(code) :
              /\ j \in f + 1 .. n - 2 /\ K[j] = l /\ Remains(K, j)
              /\ Op(code, j) = Op(out, l)
              /\ GoesTo(code, j) \in j + 1 .. n - 2 /\ Remains(K, GoesTo(code, j))
              /\ GoesTo(out, l) = K[GoesTo(code, j)]
      BY RestJump
  <2> DEFINE a == GoesTo(code, i)
             b == GoesTo(code, j)
  <2>3. i \in 1 .. n /\ j \in 1 .. n /\ a \in 1 .. n /\ b \in 1 .. n
      BY SMTT(30), <2>1, <2>2, <1>1
  <2>4. i # j
      BY <2>1, <2>2, <1>6
  <2>5. b # a /\ (j < i => b \notin i + 1 .. a)
      BY <2>1, <2>4, <1>6, NestedIs
  <2> HIDE DEF a, b
  <2>6. Remains(K, a) /\ Remains(K, b) /\ GoesTo(out, k) = K[a] /\ GoesTo(out, l) = K[b]
      BY <2>1, <2>2 DEF a, b
  <2>7. /\ K[a] \in Nat /\ K[b] \in Nat /\ K[i] \in Nat /\ K[j] \in Nat
        /\ (K[b] = K[a] <=> b = a) /\ (K[j] < K[i] <=> j < i)
        /\ (K[i] < K[b] <=> i < b) /\ (K[a] < K[b] <=> a < b)
    <3>1. K[b] \in Nat /\ K[a] \in Nat /\ (K[b] = K[a] <=> b = a) /\ (K[a] < K[b] <=> a < b)
        BY <2>3, <2>6, <1>1, <1>2, CountsOrder
    <3>2. K[j] \in Nat /\ K[i] \in Nat /\ (K[j] < K[i] <=> j < i)
        BY <2>1, <2>2, <2>3, <1>1, <1>2, CountsOrder
    <3>3. K[i] < K[b] <=> i < b
        BY <2>1, <2>3, <2>6, <1>1, <1>2, CountsOrder
    <3> QED
        BY <3>1, <3>2, <3>3
  <2>8. GoesTo(out, l) # GoesTo(out, k)
      BY <2>5, <2>6, <2>7
  <2>9. ASSUME l < k PROVE GoesTo(out, l) \notin k + 1 .. GoesTo(out, k)
    <3>1. b \notin i + 1 .. a
        BY <2>1, <2>2, <2>5, <2>7, <2>9
    <3>2. ~ (i < b) \/ a < b
        BY <3>1, <2>3
    <3>3. ~ (K[i] < K[b]) \/ K[a] < K[b]
        BY <3>2, <2>7
    <3> QED
        BY <3>3, <2>1, <2>6, <2>7
  <2> QED
      BY <2>8, <2>9
<1>7. ASSUME NEW k \in IrJumps(out), Op(out, k) = "Jump"
      PROVE  IF Op(out, k - 1) = "Stop" THEN Op(out, k + 1) = "Pop"
             ELSE /\ Op(out, k + 1) = "Label"
                  /\ \A l \in IrJumps(out) : l < k =>
                        GoesTo(out, l) \notin k + 2 .. GoesTo(out, k) - 1
  <2>1. PICK i \in IrJumps(code) :
              /\ i \in f + 1 .. n - 2 /\ K[i] = k /\ Remains(K, i)
              /\ Op(code, i) = Op(out, k)
              /\ GoesTo(code, i) \in i + 1 .. n - 2 /\ Remains(K, GoesTo(code, i))
              /\ GoesTo(out, k) = K[GoesTo(code, i)]
      BY RestJump
  <2>2. i \in 1 .. n /\ i + 1 \in 1 .. n /\ i - 1 \in 1 .. n /\ i - 1 + 1 = i
      BY <2>1, <1>1
  <2>3. CASE Op(code, i - 1) = "Stop"
    <3>1. Op(code, i + 1) = "Pop"
        BY <2>1, <2>3, <1>7, NestedIs
    <3>2. Remains(K, i + 1)
      <4>1. i + 1 - 1 = i /\ Op(code, i) = "Jump"
          BY <2>1, <2>2, <1>7
      <4>2. "Jump" \notin Pushes /\ "Pop" \notin Computing
          BY DEF Computing, Pushes, ArithOps, CompareOps, EqualityOps
      <4> QED
          BY <3>1, <4>1, <4>2, <2>2 DEF DropsComputing
    <3>3. Op(out, k + 1) = "Pop"
        BY <3>1, <3>2, <2>1, <2>2, <1>4 DEF Pushes
    <3>4. Remains(K, i - 1)
        BY <2>2, <2>3, <1>5
    <3>5. K[i - 1] + 1 = k /\ K[i - 1] \in 1 .. m
        BY <3>4, <2>1, <2>2, RestEnds DEF Remains
    <3>6. out[K[i - 1]] = code[i - 1]
        BY <3>4, <2>2, <2>3, <1>1 DEF Leaves, Pushes
    <3>7. k - 1 = K[i - 1]
        BY <3>5
    <3>8. Op(out, k - 1) = "Stop"
        BY <3>5, <3>6, <3>7, <2>2, <2>3, <1>1, <1>2
    <3> QED
        BY <3>3, <3>8
  <2>4. CASE Op(code, i - 1) # "Stop"
    <3>1. /\ Op(code, i + 1) = "Label"
          /\ \A j \in IrJumps(code) : j < i =>
                GoesTo(code, j) \notin i + 2 .. GoesTo(code, i) - 1
        BY <2>1, <2>4, <1>7, NestedIs
    <3>2. Remains(K, i + 1)
        BY <3>1, <2>2, <1>5
    <3>3. Op(out, k + 1) = "Label" /\ K[i + 1] = k + 1
        BY <3>1, <3>2, <2>1, <2>2, <1>4 DEF Pushes
    <3>4. Op(out, k - 1) # "Stop"
      <4> SUFFICES ASSUME Op(out, k - 1) = "Stop" PROVE FALSE
          OBVIOUS
      <4>1. k - 1 \in 1 .. m
          BY DEF Op
      <4>2. PICK s \in 1 .. n :
               /\ K[s] = k - 1 /\ Remains(K, s)
               /\ \/ out[k - 1] = code[s]
                  \/ out[k - 1].opcode \in Pushes /\ code[s].opcode \in Pushes
          BY <4>1, RestFrom
      <4>3. Op(code, s) = "Stop"
          BY <4>1, <4>2, <1>1, <1>2 DEF Pushes
      <4>4. s \in f + 1 .. n - 2
        <5>1. s = 1 \/ s \in 2 .. f - 2 \/ s = f - 1 \/ s = f \/ s \in f + 1 .. n - 2
              \/ s = n - 1 \/ s = n
            BY IrPlaces
        <5>2. /\ Op(code, 1) = "World" /\ Op(code, f - 1) = "Label" /\ Op(code, f) = "BeginTick"
              /\ Op(code, n - 1) = "EndTick" /\ Op(code, n) = "Jump"
              /\ \A j \in 2 .. f - 2 : Op(code, j) \in Entities
            BY IrShape
        <5> QED
            BY <5>1, <5>2, <4>3 DEF Entities
      <4>5. Op(code, s + 1) = "Jump" /\ s + 1 \in 1 .. n
          BY <4>3, <4>4, <1>1, IrShape
      <4>6. Remains(K, s + 1)
          BY <4>5, <1>5 DEF Branches
      <4>7. K[s + 1] = k
        <5>1. K[s + 1] = K[s] + 1
            BY <4>2, <4>5, <4>6, <1>4 DEF Pushes
        <5>2. k \in 1 .. m
            BY <2>1, <2>2, RestEnds
        <5> QED
            BY <5>1, <5>2, <4>2
      <4>8. s + 1 = i
          BY SMTT(30), <4>5, <4>6, <4>7, <2>1, <2>2, <1>1, <1>2, CountsOrder
      <4> QED
          BY <4>3, <4>8, <2>4
    <3>5. ASSUME NEW l \in IrJumps(out), l < k
          PROVE  GoesTo(out, l) \notin k + 2 .. GoesTo(out, k) - 1
      <4>1. PICK j \in IrJumps(code) :
                  /\ j \in f + 1 .. n - 2 /\ K[j] = l /\ Remains(K, j)
                  /\ Op(code, j) = Op(out, l)
                  /\ GoesTo(code, j) \in j + 1 .. n - 2 /\ Remains(K, GoesTo(code, j))
                  /\ GoesTo(out, l) = K[GoesTo(code, j)]
          BY RestJump
      <4> DEFINE a == GoesTo(code, i)
                 b == GoesTo(code, j)
      <4>2. j \in 1 .. n /\ a \in 1 .. n /\ b \in 1 .. n
          BY SMTT(30), <2>1, <4>1, <1>1
      <4>3. j < i => b \notin i + 2 .. a - 1
          BY <3>1
      <4>4. Remains(K, a) /\ Remains(K, b) /\ GoesTo(out, k) = K[a] /\ GoesTo(out, l) = K[b]
          BY <2>1, <4>1
      <4> HIDE DEF a, b
      <4>5. /\ K[a] \in Nat /\ K[b] \in Nat /\ K[i] \in Nat /\ K[j] \in Nat
            /\ (K[j] < K[i] <=> j < i) /\ (K[b] < K[a] <=> b < a)
            /\ K[i + 1] \in Nat /\ (K[i + 1] < K[b] <=> i + 1 < b)
          BY <4>1, <4>2, <4>4, <3>2, <2>1, <2>2, <1>1, <1>2, CountsOrder
      <4>6. b \notin i + 2 .. a - 1
          BY <4>1, <4>3, <4>5, <2>1, <3>5
      <4>7. ~ (i + 1 < b) \/ ~ (b < a)
          BY <4>2, <4>6, <2>2
      <4>8. ~ (K[i + 1] < K[b]) \/ ~ (K[b] < K[a])
          BY <4>5, <4>7
      <4> QED
          BY SMTT(30), <4>4, <4>5, <4>8, <3>3, <2>1
    <3> QED
        BY <3>3, <3>4, <3>5
  <2> QED
      BY <2>3, <2>4
<1>8. IrJumps(out) = {i \in TickBegin(out) .. Len(out) - 2 : Op(out, i) \in Branches}
    BY DEF IrJumps
<1> QED
    BY <1>2, <1>3, <1>6, <1>7, <1>8 DEF Nested

-----------------------------------------------------------------------------
(* Constant folding.                                                        *)

Binary == ArithOps \cup CompareOps \cup EqualityOps
Unary == {"Not", "Neg"}

LEMMA PushTyped ==
    /\ Trap \in IrInstructions /\ Trap.opcode = "Trap"
    /\ \A n \in IntValues : IrInt(n) \in IrInstructions /\ IrInt(n).opcode \in Pushes
    /\ \A b \in BOOLEAN : IrBool(b) \in IrInstructions /\ IrBool(b).opcode \in Pushes
<1>1. 0 \in IntValues
    BY ModulusAssumption DEF IntValues
<1>2. \A op \in IrOpcodes : Ir(op) \in IrInstructions /\ Ir(op).opcode = op
    BY <1>1 DEF Ir, IrInstructions, Texts
<1>5. {"PushInt", "PushBool", "Trap"} \subseteq IrOpcodes
    BY DEF IrOpcodes, BodyOpcodes
<1>3. ASSUME NEW n \in IntValues PROVE IrInt(n) \in IrInstructions /\ IrInt(n).opcode \in Pushes
  <2>1. Ir("PushInt") \in IrInstructions /\ Ir("PushInt").opcode = "PushInt"
      BY <1>2, <1>5
  <2> QED
      BY <2>1 DEF IrInt, IrInstructions, Pushes
<1>4. ASSUME NEW b \in BOOLEAN PROVE IrBool(b) \in IrInstructions /\ IrBool(b).opcode \in Pushes
  <2>1. Ir("PushBool") \in IrInstructions /\ Ir("PushBool").opcode = "PushBool"
      BY <1>2, <1>5
  <2> QED
      BY <2>1 DEF IrBool, IrInstructions, Pushes
<1> QED
    BY <1>2, <1>3, <1>4, <1>5 DEF Trap

\* What three instructions fold to, if they do and do not trap, is a push.
LEMMA BinaryFolds ==
    ASSUME NEW left \in IrInstructions, NEW right \in IrInstructions, NEW op,
           try_fold_binary(left, right, op) # << >>,
           try_fold_binary(left, right, op) # <<Trap>>
    PROVE  /\ left.opcode \in Pushes /\ right.opcode \in Pushes /\ op \in Binary
           /\ \E x \in IrInstructions :
                 x.opcode \in Pushes /\ try_fold_binary(left, right, op) = <<x>>
<1> DEFINE ints == /\ op \in Binary
                   /\ left.opcode = "PushInt" /\ right.opcode = "PushInt"
           bools == /\ op \in EqualityOps
                    /\ left.opcode = "PushBool" /\ right.opcode = "PushBool"
<1>1. CASE ints
  <2>1. /\ try_fold_binary(left, right, op) =
              IF op = "Div" /\ right.int_value = 0 THEN << >>
              ELSE IF Traps(op, left.int_value, right.int_value) THEN <<Trap>>
              ELSE IF op \in ArithOps
              THEN <<IrInt(Calculate(op, left.int_value, right.int_value))>>
              ELSE IF op \in CompareOps
              THEN <<IrBool(Compare(op, left.int_value, right.int_value))>>
              ELSE <<IrBool((left.int_value = right.int_value) = (op = "Eq"))>>
        /\ left.opcode \in Pushes /\ right.opcode \in Pushes /\ op \in Binary
      BY <1>1 DEF try_fold_binary, Pushes, Binary, EqualityOps
  <2>2. /\ left.int_value \in Int /\ right.int_value \in Int
      BY ModulusAssumption DEF IrInstructions, IntValues
  <2>3. ~ (op = "Div" /\ right.int_value = 0)
      BY <2>1
  <2>4. ~ Traps(op, left.int_value, right.int_value)
      BY <2>1, <2>3
  <2>5. CASE op \in ArithOps
    <3>1. Calculate(op, left.int_value, right.int_value) \in IntValues
        BY <2>2, <2>3, <2>5, CalculateFits
    <3> QED
        BY <3>1, <2>1, <2>3, <2>4, <2>5, PushTyped
  <2>6. CASE op \notin ArithOps /\ op \in CompareOps
    <3>1. Compare(op, left.int_value, right.int_value) \in BOOLEAN
        BY <2>2, <2>6, CompareTyped
    <3> QED
        BY <3>1, <2>1, <2>3, <2>4, <2>6, PushTyped
  <2>7. CASE op \notin ArithOps /\ op \notin CompareOps
    <3>1. ((left.int_value = right.int_value) = (op = "Eq")) \in BOOLEAN
        OBVIOUS
    <3> QED
        BY <3>1, <2>1, <2>3, <2>4, <2>7, PushTyped
  <2> QED
      BY <2>5, <2>6, <2>7
<1>2. CASE bools
  <2>1. /\ try_fold_binary(left, right, op) =
              <<IrBool((left.bool_value = right.bool_value) = (op = "Eq"))>>
        /\ left.opcode \in Pushes /\ right.opcode \in Pushes /\ op \in Binary
      BY <1>2 DEF try_fold_binary, Pushes, Binary
  <2>2. ((left.bool_value = right.bool_value) = (op = "Eq")) \in BOOLEAN
      OBVIOUS
  <2> QED
      BY <2>1, <2>2, PushTyped
<1>3. CASE ~ ints /\ ~ bools
  <2>1. try_fold_binary(left, right, op) = << >>
      BY <1>3 DEF try_fold_binary, Binary, EqualityOps
  <2> QED
      BY <2>1
<1> QED
    BY <1>1, <1>2, <1>3

LEMMA UnaryFolds ==
    ASSUME NEW operand \in IrInstructions, NEW op, try_fold_unary(operand, op) # << >>
    PROVE  /\ operand.opcode \in Pushes /\ op \in Unary
           /\ \E x \in IrInstructions :
                 x.opcode \in Pushes /\ try_fold_unary(operand, op) = <<x>>
<1>1. CASE op = "Neg" /\ operand.opcode = "PushInt"
  <2>1. try_fold_unary(operand, op) = <<IrInt(Wrap(-operand.int_value))>>
      BY <1>1 DEF try_fold_unary
  <2>2. operand.int_value \in Int
      BY ModulusAssumption DEF IrInstructions, IntValues
  <2>3. Wrap(-operand.int_value) \in IntValues
      BY <2>2, WrapFits
  <2> QED
      BY <1>1, <2>1, <2>3, PushTyped DEF Pushes, Unary
<1>2. CASE op = "Not" /\ operand.opcode = "PushBool"
  <2>1. try_fold_unary(operand, op) = <<IrBool(~operand.bool_value)>>
      BY <1>2 DEF try_fold_unary
  <2>2. (~operand.bool_value) \in BOOLEAN
      OBVIOUS
  <2> QED
      BY <1>2, <2>1, <2>2, PushTyped DEF Pushes, Unary
<1>3. CASE ~ (op = "Neg" /\ operand.opcode = "PushInt")
           /\ ~ (op = "Not" /\ operand.opcode = "PushBool")
  <2>1. try_fold_unary(operand, op) = << >>
      BY <1>3 DEF try_fold_unary
  <2> QED
      BY <2>1
<1> QED
    BY <1>1, <1>2, <1>3

FoldStates == [output : Seq(IrInstructions), skip : Nat]

\* A step of the pass: something to skip, a trap, one of the three foldings, or none.
Skips(done, next) == done.skip > 0 /\ next = [done EXCEPT !.skip = @ - 1]

FoldTraps(done, next, code) ==
    done.skip = 0 /\ next = [output |-> <<Trap>>, skip |-> Len(code)]

Emits(done, next, x, skip) ==
    done.skip = 0 /\ next = [output |-> Append(done.output, x), skip |-> skip]

FoldsTo(done, next, code, i) ==
    \E x \in IrInstructions :
        /\ x.opcode \in Pushes /\ Op(code, i) \in Pushes
        /\ \/ /\ Op(code, i + 1) \in Pushes /\ Op(code, i + 2) \in Binary
              /\ Emits(done, next, x, 2)
           \/ Op(code, i + 1) \in Unary /\ Emits(done, next, x, 1)

FoldsAway(done, next, code, i) ==
    /\ Op(code, i) \in Pushes /\ Op(code, i + 1) = "Pop"
    /\ done.skip = 0 /\ next = [output |-> done.output, skip |-> 1]

LEMMA FoldStep ==
    ASSUME NEW code \in Seq(IrInstructions), NEW done \in FoldStates,
           NEW i \in 1 .. Len(code), NEW next, next = fold_at(done, code, i)
    PROVE  /\ \/ Skips(done, next) \/ FoldTraps(done, next, code)
              \/ FoldsTo(done, next, code, i) \/ FoldsAway(done, next, code, i)
              \/ Emits(done, next, code[i], 0)
           /\ next \in FoldStates
<1> DEFINE binary == IF i + 2 <= Len(code)
                     THEN try_fold_binary(code[i], code[i + 1], Op(code, i + 2)) ELSE << >>
           unary == try_fold_unary(code[i], Op(code, i + 1))
           dead == dead_pop(Op(code, i), Op(code, i + 1))
<1>1. next =
         IF done.skip > 0 THEN [done EXCEPT !.skip = @ - 1]
         ELSE IF binary = <<Trap>> THEN [output |-> <<Trap>>, skip |-> Len(code)]
         ELSE IF binary # << >> THEN [output |-> done.output \o binary, skip |-> 2]
         ELSE IF unary # << >> THEN [output |-> done.output \o unary, skip |-> 1]
         ELSE IF dead THEN [output |-> done.output \o << >>, skip |-> 1]
         ELSE [output |-> done.output \o <<code[i]>>, skip |-> 0]
    BY DEF fold_at
<1>2. /\ code[i] \in IrInstructions /\ Op(code, i) = code[i].opcode /\ Len(code) \in Nat
      /\ done.output \in Seq(IrInstructions) /\ done.skip \in Nat
    BY DEF FoldStates, Op
<1>3. dead => Op(code, i) \in Pushes /\ Op(code, i + 1) = "Pop"
    BY DEF dead_pop, Pushes
<1>4. \A x \in IrInstructions :
         /\ done.output \o <<x>> = Append(done.output, x)
         /\ Append(done.output, x) \in Seq(IrInstructions)
    BY <1>2, Appended
<1>5. done.output \o << >> = done.output
    BY <1>2, Appended
<1>6. binary # << >> /\ binary # <<Trap>> =>
         /\ code[i].opcode \in Pushes /\ Op(code, i + 1) \in Pushes /\ Op(code, i + 2) \in Binary
         /\ \E x \in IrInstructions : x.opcode \in Pushes /\ binary = <<x>>
  <2> SUFFICES ASSUME binary # << >>, binary # <<Trap>>
               PROVE  /\ code[i].opcode \in Pushes /\ Op(code, i + 1) \in Pushes
                      /\ Op(code, i + 2) \in Binary
                      /\ \E x \in IrInstructions : x.opcode \in Pushes /\ binary = <<x>>
      OBVIOUS
  <2>1. i + 2 <= Len(code) /\ binary = try_fold_binary(code[i], code[i + 1], Op(code, i + 2))
      OBVIOUS
  <2>2. i + 1 \in 1 .. Len(code) /\ code[i + 1] \in IrInstructions
      BY <2>1, <1>2
  <2>3. Op(code, i + 1) = code[i + 1].opcode
      BY <2>2 DEF Op
  <2> HIDE DEF binary
  <2> QED
      BY <2>1, <2>2, <2>3, <1>2, BinaryFolds
<1>7. unary # << >> =>
         /\ code[i].opcode \in Pushes /\ Op(code, i + 1) \in Unary
         /\ \E x \in IrInstructions : x.opcode \in Pushes /\ unary = <<x>>
    BY <1>2, UnaryFolds
<1>15. << >> # <<Trap>>
    OBVIOUS
<1> HIDE DEF binary, unary, dead
<1>8. CASE done.skip > 0
    BY <1>1, <1>2, <1>8 DEF Skips, FoldStates
<1>9. CASE done.skip = 0 /\ binary = <<Trap>>
  <2>1. next = [output |-> <<Trap>>, skip |-> Len(code)]
      BY <1>1, <1>9
  <2>2. <<Trap>> \in Seq(IrInstructions)
      BY PushTyped
  <2> QED
      BY <2>1, <2>2, <1>2, <1>9 DEF FoldTraps, FoldStates
<1>10. CASE done.skip = 0 /\ binary # <<Trap>> /\ binary # << >>
  <2>1. PICK x \in IrInstructions : x.opcode \in Pushes /\ binary = <<x>>
      BY <1>6, <1>10
  <2>0. done.output \o binary = Append(done.output, x)
      BY <2>1, <1>4
  <2>2. next = [output |-> Append(done.output, x), skip |-> 2]
      BY <2>0, <1>1, <1>10
  <2>3. FoldsTo(done, next, code, i)
      BY <2>1, <2>2, <1>2, <1>6, <1>10 DEF FoldsTo, Emits
  <2>4. next \in FoldStates
      BY <2>2, <1>4 DEF FoldStates
  <2> QED
      BY <2>3, <2>4
<1>11. CASE done.skip = 0 /\ binary = << >> /\ unary # << >>
  <2>1. PICK x \in IrInstructions : x.opcode \in Pushes /\ unary = <<x>>
      BY <1>7, <1>11
  <2>0. done.output \o unary = Append(done.output, x)
      BY <2>1, <1>4
  <2>2. next = [output |-> Append(done.output, x), skip |-> 1]
      BY <2>0, <1>1, <1>11, <1>15
  <2>3. FoldsTo(done, next, code, i)
      BY <2>1, <2>2, <1>2, <1>7, <1>11 DEF FoldsTo, Emits
  <2>4. next \in FoldStates
      BY <2>2, <1>4 DEF FoldStates
  <2> QED
      BY <2>3, <2>4
<1>12. CASE done.skip = 0 /\ binary = << >> /\ unary = << >> /\ dead
  <2>1. next = [output |-> done.output, skip |-> 1]
      BY <1>1, <1>5, <1>12, <1>15
  <2> QED
      BY <2>1, <1>2, <1>3, <1>12 DEF FoldsAway, FoldStates
<1>13. CASE done.skip = 0 /\ binary = << >> /\ unary = << >> /\ ~dead
  <2>0. done.output \o <<code[i]>> = Append(done.output, code[i])
      BY <1>2, <1>4
  <2>1. next = [output |-> done.output \o <<code[i]>>, skip |-> 0]
      BY <1>1, <1>13, <1>15
  <2>2. next = [output |-> Append(done.output, code[i]), skip |-> 0]
      BY <2>0, <2>1
  <2>3. Emits(done, next, code[i], 0)
      BY <2>2, <1>13 DEF Emits
  <2>4. next \in FoldStates
      BY <2>2, <1>2, <1>4 DEF FoldStates
  <2> QED
      BY <2>3, <2>4
<1>14. done.skip > 0 \/ done.skip = 0
    BY <1>2
<1> QED
    BY <1>8, <1>9, <1>10, <1>11, <1>12, <1>13, <1>14

\* The states of the pass, one after each instruction.
LEMMA FoldWalk ==
    ASSUME NEW code \in Seq(IrInstructions)
    PROVE  \E w \in [0 .. Len(code) -> FoldStates] :
              /\ w[0] = [output |-> << >>, skip |-> 0]
              /\ \A i \in 1 .. Len(code) : w[i] = fold_at(w[i - 1], code, i)
              /\ constant_fold_once(code) = w[Len(code)].output
<1> DEFINE n == Len(code)
           Def(f) == f = [i \in 0 .. n |->
                            IF i = 0 THEN [output |-> << >>, skip |-> 0]
                            ELSE fold_at(f[i - 1], code, i)]
           step == [i \in 1 .. n |-> [s \in FoldStates |-> fold_at(s, code, i)]]
           g == CHOOSE f : Def(f)
<1>1. n \in Nat /\ [output |-> << >>, skip |-> 0] \in FoldStates
    BY DEF FoldStates
<1>2. \A i \in 1 .. n, s \in FoldStates : fold_at(s, code, i) \in FoldStates
    BY FoldStep
<1>3. /\ step \in [1 .. n -> [FoldStates -> FoldStates]]
      /\ \A i \in 1 .. n, s \in FoldStates : step[i][s] = fold_at(s, code, i)
    BY <1>2
<1> HIDE DEF step, n
<1>4. PICK w : IsWalk(w, n, FoldStates, [output |-> << >>, skip |-> 0], step)
    BY <1>1, <1>3, WalkExists
<1>5. /\ w \in [0 .. n -> FoldStates] /\ w[0] = [output |-> << >>, skip |-> 0]
      /\ \A i \in 1 .. n : w[i] = step[i][w[i - 1]]
    BY <1>4 DEF IsWalk
<1>6. \A i \in 1 .. n : w[i] = fold_at(w[i - 1], code, i)
  <2> TAKE i \in 1 .. n
  <2>1. w[i - 1] \in FoldStates
      BY <1>1, <1>5
  <2> QED
      BY <2>1, <1>3, <1>5
<1>7. Def(w)
    BY <1>1, <1>5, <1>6
<1>8. Def(g)
    BY <1>7
<1>9. constant_fold_once(code) = g[n].output
    BY DEF constant_fold_once, n
<1> HIDE DEF g
<1>10. /\ g[0] = [output |-> << >>, skip |-> 0]
       /\ \A i \in 1 .. n : g[i] = fold_at(g[i - 1], code, i)
    BY <1>1, <1>8
<1> DEFINE T == {i \in 0 .. n : g[i] \in FoldStates}
<1>11. 0 \in T /\ \A i \in 1 .. n : i - 1 \in T => i \in T
  <2>1. 0 \in T
      BY <1>1, <1>10
  <2>2. ASSUME NEW i \in 1 .. n, i - 1 \in T PROVE i \in T
    <3>1. g[i] \in FoldStates
        BY <2>2, <1>2, <1>10
    <3> QED
        BY <3>1, <1>1
  <2> QED
      BY <2>1, <2>2
<1>12. g \in [0 .. n -> FoldStates]
  <2>1. g = [i \in 0 .. n |-> g[i]]
      BY <1>8
  <2>2. 0 .. n \subseteq T
      BY <1>1, <1>11, UpTo
  <2> QED
      BY <2>1, <2>2
<1> QED
    BY <1>9, <1>10, <1>12 DEF n

\* What the computing does to the height.
LEMMA ComputingHeight ==
    ASSUME NEW height \in Nat
    PROVE  /\ \A op \in Binary : IrHeightAfter(op, height + 2) = height + 1
           /\ \A op \in Unary : IrHeightAfter(op, height + 1) = height + 1
           /\ IrHeightAfter("Pop", height + 1) = height
<1>1. ASSUME NEW op \in Binary PROVE IrHeightAfter(op, height + 2) = height + 1
  <2>1. CompiledOpcode(op) = op
      BY DEF CompiledOpcode, Renamed, Binary, ArithOps, CompareOps, EqualityOps
  <2>2. op # "Pop" /\ op \in Pushing /\ Pops(op) = 2
      BY DEF Binary, Pushing, Pops, ArithOps, CompareOps, EqualityOps
  <2> QED
      BY <2>1, <2>2 DEF IrHeightAfter, HeightAfter
<1>2. ASSUME NEW op \in Unary PROVE IrHeightAfter(op, height + 1) = height + 1
  <2>1. CompiledOpcode(op) = op
      BY DEF CompiledOpcode, Renamed, Unary
  <2>2. op # "Pop" /\ op \in Pushing /\ Pops(op) = 1
      BY DEF Unary, Pushing, Pops, ArithOps, CompareOps, EqualityOps
  <2> QED
      BY <2>1, <2>2 DEF IrHeightAfter, HeightAfter
<1>3. IrHeightAfter("Pop", height + 1) = height
  <2>1. CompiledOpcode("Pop") = "Pop" /\ height + 1 # 0
      BY DEF CompiledOpcode, Renamed
  <2> QED
      BY <2>1 DEF IrHeightAfter, HeightAfter
<1> QED
    BY <1>1, <1>2, <1>3

\* A pass that drops computing only leaves all that must be left.
LEMMA ComputingLeaves ==
    ASSUME NEW code \in Seq(IrInstructions), Structured(code), NEW K,
           DropsComputing(code, K)
    PROVE  /\ \A i \in Fixed(code) : Remains(K, i)
           /\ \A i \in 1 .. Len(code) :
                 /\ Op(code, i) \in Branches => Remains(K, GoesTo(code, i))
                 /\ Op(code, i) = "Stop" => Remains(K, i + 1)
<1> DEFINE n == Len(code)
           f == TickBegin(code)
<1>1. /\ n \in Nat /\ f \in Nat /\ f >= 3 /\ f <= n - 2
      /\ Op(code, 1) = "World" /\ \A i \in 2 .. f - 2 : Op(code, i) \in Entities
      /\ Op(code, f - 1) = "Label" /\ Op(code, f) = "BeginTick"
      /\ Op(code, n - 1) = "EndTick" /\ Op(code, n) = "Jump" /\ GoesTo(code, n) = f - 1
      /\ \A i \in 1 .. n : Op(code, i) = code[i].opcode
    BY IrShape
<1>2. \A i \in 1 .. n :
         Op(code, i) \in Entities \cup {"World", "Label", "BeginTick", "EndTick", "Jump"}
            => Remains(K, i)
    BY DEF DropsComputing, Computing, Pushes, ArithOps, CompareOps, EqualityOps, Entities
<1>3. ASSUME NEW i \in Fixed(code) PROVE Remains(K, i)
  <2>1. i \in 1 .. f \/ i = n - 1 \/ i = n
      BY DEF Fixed
  <2>2. i = 1 \/ i \in 2 .. f - 2 \/ i = f - 1 \/ i = f \/ i = n - 1 \/ i = n
      BY <2>1, <1>1
  <2>3. i \in 1 .. n
      BY <2>1, <1>1
  <2> QED
      BY <2>2, <2>3, <1>1, <1>2
<1>4. ASSUME NEW i \in 1 .. n, Op(code, i) \in Branches PROVE Remains(K, GoesTo(code, i))
  <2>1. GoesTo(code, i) = LabelIndex(code, code[i].text)
      BY DEF GoesTo
  <2>2. GoesTo(code, i) \in 1 .. n
    <3>1. i = 1 \/ i \in 2 .. f - 2 \/ i = f - 1 \/ i = f \/ i \in f + 1 .. n - 2
          \/ i = n - 1 \/ i = n
        BY <1>1
    <3>2. i \in f + 1 .. n - 2 \/ i = n
        BY <3>1, <1>1, <1>4 DEF Branches, Entities
    <3>3. CASE i \in f + 1 .. n - 2
      <4>1. GoesTo(code, i) \in i + 1 .. n - 2
          BY <3>3, <1>4, IrShape
      <4> QED
          BY <4>1, <3>3, <1>1
    <3>4. CASE i = n
        BY <3>4, <1>1
    <3> QED
        BY <3>2, <3>3, <3>4
  <2>3. IsLabel(code[GoesTo(code, i)])
      BY <2>1, <2>2, <1>1, LabelFound
  <2> QED
      BY <2>2, <2>3, <1>1, <1>2 DEF IsLabel
<1>5. ASSUME NEW i \in 1 .. n, Op(code, i) = "Stop" PROVE Remains(K, i + 1)
  <2>1. i = 1 \/ i \in 2 .. f - 2 \/ i = f - 1 \/ i = f \/ i \in f + 1 .. n - 2
        \/ i = n - 1 \/ i = n
      BY <1>1
  <2>2. i \in f + 1 .. n - 2
      BY <2>1, <1>1, <1>5 DEF Entities
  <2>3. Op(code, i + 1) = "Jump" /\ i + 1 \in 1 .. n
      BY <2>2, <1>1, <1>5, IrShape
  <2> QED
      BY <2>3, <1>2
<1> QED
    BY <1>3, <1>4, <1>5

LEMMA FoldRest ==
    ASSUME NEW code, Shaped(code), constant_fold_once(code) # <<Trap>>
    PROVE  \E K, G : IsRest(code, K, G, constant_fold_once(code)) /\ DropsComputing(code, K)
<1> DEFINE n == Len(code)
           h == IrHeights(code)
<1>1. code \in Seq(IrInstructions) /\ Structured(code) /\ Level(code) /\ n \in Nat
    BY DEF Shaped
<1>2. PICK w \in [0 .. n -> FoldStates] :
         /\ w[0] = [output |-> << >>, skip |-> 0]
         /\ \A i \in 1 .. n : w[i] = fold_at(w[i - 1], code, i)
         /\ constant_fold_once(code) = w[n].output
    BY <1>1, FoldWalk
<1> DEFINE out == w[n].output
<1> HIDE DEF n
<1>3. \A i \in 0 .. n : w[i] \in FoldStates /\ w[i].output \in Seq(IrInstructions)
                        /\ w[i].skip \in Nat
    BY <1>2 DEF FoldStates
<1>4. \A i \in 1 .. n :
         \/ Skips(w[i - 1], w[i]) \/ FoldTraps(w[i - 1], w[i], code)
         \/ FoldsTo(w[i - 1], w[i], code, i) \/ FoldsAway(w[i - 1], w[i], code, i)
         \/ Emits(w[i - 1], w[i], code[i], 0)
  <2> TAKE i \in 1 .. n
  <2>1. w[i - 1] \in FoldStates
      BY <1>1, <1>3
  <2> QED
      BY <2>1, <1>1, <1>2, FoldStep DEF n
\* A trap is all that is left.
<1>5. ASSUME NEW i \in 1 .. n, FoldTraps(w[i - 1], w[i], code) PROVE FALSE
  <2> DEFINE T == {j \in 0 .. n : j >= i => w[j].output = <<Trap>> /\ w[j].skip > n - j}
  <2>1. 0 \in T
      BY <1>1
  <2>2. ASSUME NEW j \in 1 .. n, j - 1 \in T PROVE j \in T
    <3>1. CASE j < i
        BY <3>1
    <3>2. CASE j = i
        BY <3>2, <1>1, <1>5 DEF FoldTraps, n
    <3>3. CASE j > i
      <4>1. w[j - 1].output = <<Trap>> /\ w[j - 1].skip > n - (j - 1)
          BY <3>3, <2>2
      <4>2. w[j - 1].skip > 0 /\ w[j - 1] \in FoldStates /\ w[j - 1].skip \in Nat
          BY <4>1, <1>1, <1>3
      <4>3. Skips(w[j - 1], w[j])
        <5>1. w[j - 1].skip # 0
            BY <4>2
        <5>2. ~ FoldTraps(w[j - 1], w[j], code) /\ ~ FoldsAway(w[j - 1], w[j], code, j)
            BY <5>1 DEF FoldTraps, FoldsAway
        <5>3. ~ FoldsTo(w[j - 1], w[j], code, j) /\ ~ Emits(w[j - 1], w[j], code[j], 0)
            BY <5>1 DEF FoldsTo, Emits
        <5> QED
            BY <5>2, <5>3, <1>4
      <4>4. w[j].output = w[j - 1].output /\ w[j].skip = w[j - 1].skip - 1
          BY <4>2, <4>3 DEF Skips, FoldStates
      <4> QED
          BY <4>1, <4>2, <4>4, <1>1
    <3> QED
        BY <3>1, <3>2, <3>3
  <2>3. 0 .. n \subseteq T
      BY <2>1, <2>2, <1>1, UpTo
  <2>4. n \in T /\ n >= i
      BY <2>3, <1>1
  <2> QED
      BY <2>4, <1>2
\* What is skipped.
<1> DEFINE Skipping(i) ==
      /\ w[i].skip \in 0 .. 2
      /\ w[i].skip = 2 => Op(code, i + 1) \in Pushes /\ Op(code, i + 2) \in Binary
      /\ w[i].skip = 1 => \/ Op(code, i + 1) \in Binary \cup Unary
                          \/ Op(code, i + 1) = "Pop" /\ Op(code, i) \in Pushes
<1>6. \A i \in 0 .. n : Skipping(i)
  <2> DEFINE T == {i \in 0 .. n : Skipping(i)}
  <2>1. 0 \in T
      BY <1>1, <1>2
  <2>2. ASSUME NEW i \in 1 .. n, i - 1 \in T PROVE i \in T
    <3>1. Skipping(i - 1) /\ i - 1 + 1 = i /\ i - 1 + 2 = i + 1
          /\ w[i - 1] \in FoldStates
        BY <2>2, <1>3
    <3> HIDE DEF T
    <3>2. CASE Skips(w[i - 1], w[i])
      <4>1. w[i].skip = w[i - 1].skip - 1 /\ w[i - 1].skip > 0 /\ w[i - 1].skip \in 0 .. 2
          BY <3>1, <3>2 DEF Skips, FoldStates
      <4>2. w[i].skip = 0 \/ (w[i].skip = 1 /\ w[i - 1].skip = 2)
          BY <4>1
      <4>3. w[i].skip = 1 => Op(code, i + 1) \in Binary
          BY <3>1, <4>2
      <4>4. Skipping(i)
          BY <4>2, <4>3
      <4> QED
          BY <4>4 DEF T
    <3>3. CASE FoldsTo(w[i - 1], w[i], code, i)
      <4>1. PICK x \in IrInstructions :
               /\ x.opcode \in Pushes /\ Op(code, i) \in Pushes
               /\ \/ /\ Op(code, i + 1) \in Pushes /\ Op(code, i + 2) \in Binary
                     /\ Emits(w[i - 1], w[i], x, 2)
                  \/ Op(code, i + 1) \in Unary /\ Emits(w[i - 1], w[i], x, 1)
          BY <3>3 DEF FoldsTo
      <4>2. Skipping(i)
          BY <4>1 DEF Emits
      <4> QED
          BY <4>2 DEF T
    <3>4. CASE FoldsAway(w[i - 1], w[i], code, i)
      <4>1. Skipping(i)
          BY <3>4 DEF FoldsAway
      <4> QED
          BY <4>1 DEF T
    <3>5. CASE Emits(w[i - 1], w[i], code[i], 0)
      <4>1. Skipping(i)
          BY <3>5 DEF Emits
      <4> QED
          BY <4>1 DEF T
    <3> QED
        BY <3>2, <3>3, <3>4, <3>5, <1>4, <1>5
  <2>3. 0 .. n \subseteq T
      BY <2>1, <2>2, <1>1, UpTo
  <2> QED
      BY <2>3
<1> DEFINE o == [i \in 0 .. n |-> w[i].output]
           K == Lengths(o, n)
           G == [i \in 0 .. n |-> IF i + 1 + w[i].skip \in 1 .. n THEN h[i + 1 + w[i].skip] ELSE 0]
<1>7. \A i \in 1 .. n : o[i - 1] = w[i - 1].output /\ o[i] = w[i].output
                        /\ K[i - 1] = Len(w[i - 1].output) /\ K[i] = Len(w[i].output)
                        /\ w[i - 1].output \in Seq(IrInstructions)
    BY <1>1, <1>3 DEF Lengths
<1>8. ASSUME NEW i \in 1 .. n
      PROVE  \/ /\ ~ Remains(K, i) /\ w[i].output = w[i - 1].output
                /\ Skips(w[i - 1], w[i]) \/ FoldsAway(w[i - 1], w[i], code, i)
             \/ /\ Remains(K, i)
                /\ FoldsTo(w[i - 1], w[i], code, i) \/ Emits(w[i - 1], w[i], code[i], 0)
                /\ \E x \in IrInstructions :
                      /\ w[i].output = Append(w[i - 1].output, x)
                      /\ w[i].output[K[i]] = x
                      /\ x = code[i] \/ (x.opcode \in Pushes /\ code[i].opcode \in Pushes)
  <2> HIDE DEF K, o, G
  <2>1. K[i - 1] = Len(w[i - 1].output) /\ K[i] = Len(w[i].output)
        /\ w[i - 1].output \in Seq(IrInstructions) /\ w[i - 1] \in FoldStates
        /\ Len(w[i - 1].output) \in Nat /\ Op(code, i) = code[i].opcode
        /\ code[i] \in IrInstructions
      BY <1>1, <1>3, <1>7 DEF n, Op
  <2>2. ASSUME NEW x \in IrInstructions, NEW s, Emits(w[i - 1], w[i], x, s)
        PROVE  /\ Remains(K, i) /\ w[i].output = Append(w[i - 1].output, x)
               /\ w[i].output[K[i]] = x
    <3>1. w[i].output = Append(w[i - 1].output, x)
        BY <2>2 DEF Emits
    <3>2. /\ Len(Append(w[i - 1].output, x)) = Len(w[i - 1].output) + 1
          /\ Append(w[i - 1].output, x)[Len(w[i - 1].output) + 1] = x
        BY <2>1, Appended
    <3> QED
        BY <3>1, <3>2, <2>1 DEF Remains
  <2>3. CASE Skips(w[i - 1], w[i])
    <3>1. w[i].output = w[i - 1].output
        BY <2>1, <2>3 DEF Skips, FoldStates
    <3> QED
        BY <3>1, <2>1, <2>3 DEF Remains
  <2>4. CASE FoldsAway(w[i - 1], w[i], code, i)
    <3>1. w[i].output = w[i - 1].output
        BY <2>4 DEF FoldsAway
    <3> QED
        BY <3>1, <2>1, <2>4 DEF Remains
  <2>5. CASE FoldsTo(w[i - 1], w[i], code, i)
    <3>1. PICK x \in IrInstructions :
             /\ x.opcode \in Pushes /\ Op(code, i) \in Pushes
             /\ Emits(w[i - 1], w[i], x, 2) \/ Emits(w[i - 1], w[i], x, 1)
        BY <2>5 DEF FoldsTo
    <3>2. Remains(K, i) /\ w[i].output = Append(w[i - 1].output, x) /\ w[i].output[K[i]] = x
        BY <3>1, <2>2
    <3> QED
        BY <3>1, <3>2, <2>1, <2>5
  <2>6. CASE Emits(w[i - 1], w[i], code[i], 0)
      BY <2>1, <2>2, <2>6
  <2> QED
      BY <2>3, <2>4, <2>5, <2>6, <1>4, <1>5
<1>9. Counting(K, n) /\ Prefixed(o, n)
  <2>1. o \in [0 .. n -> Seq(IrInstructions)]
      BY <1>3
  <2>2. o[0] = << >>
      BY <1>1, <1>2
  <2>3. ASSUME NEW i \in 1 .. n
        PROVE  o[i] = o[i - 1] \/ \E x \in IrInstructions : o[i] = Append(o[i - 1], x)
    <3>1. o[i] = w[i].output /\ o[i - 1] = w[i - 1].output
        BY <1>7
    <3> HIDE DEF o, K
    <3> QED
        BY <3>1, <1>8
  <2>4. Grows(o, n, IrInstructions)
      BY <2>2, <2>3 DEF Grows
  <2> HIDE DEF o
  <2> QED
      BY <2>1, <2>4, <1>1, GrowsPrefix
<1>10. o[n] = out /\ K[n] = Len(out) /\ out \in Seq(IrInstructions)
    BY <1>1, <1>3 DEF Lengths
<1>11. ASSUME NEW i \in 1 .. n, Remains(K, i)
       PROVE  out[K[i]] = code[i] \/ (out[K[i]].opcode \in Pushes /\ code[i].opcode \in Pushes)
  <2> HIDE DEF K, o
  <2>1. PICK x \in IrInstructions :
           /\ w[i].output[K[i]] = x
           /\ x = code[i] \/ (x.opcode \in Pushes /\ code[i].opcode \in Pushes)
      BY <1>8, <1>11
  <2>2. K[i] \in 1 .. K[i] /\ i \in 0 .. n /\ n \in i .. n
      BY <1>1, <1>9, <1>11 DEF Counting, Remains
  <2>3. o[n][K[i]] = o[i][K[i]]
      BY <2>2, <1>9 DEF Prefixed, K
  <2> QED
      BY <2>1, <2>3, <1>7, <1>10
<1>12. DropsComputing(code, K)
  <2> SUFFICES ASSUME NEW i \in 1 .. n, ~ Remains(K, i)
               PROVE  \/ Op(code, i) \in Computing
                      \/ Op(code, i) = "Pop" /\ Op(code, i - 1) \in Pushes
      BY DEF DropsComputing, n
  <2> HIDE DEF K, o
  <2>1. Skips(w[i - 1], w[i]) \/ FoldsAway(w[i - 1], w[i], code, i)
      BY <1>8
  <2>2. CASE Skips(w[i - 1], w[i])
    <3>1. Skipping(i - 1) /\ i - 1 + 1 = i
        BY <1>1, <1>6
    <3>2. w[i - 1].skip = 1 \/ w[i - 1].skip = 2
        BY <3>1, <2>2 DEF Skips
    <3> QED
        BY <3>1, <3>2 DEF Computing, Binary, Unary
  <2>3. CASE FoldsAway(w[i - 1], w[i], code, i)
      BY <2>3 DEF FoldsAway, Computing
  <2> QED
      BY <2>1, <2>2, <2>3
\* The heights.
<1>13. LeavesHeights(code, K, G)
  <2> SUFFICES ASSUME NEW i \in 1 .. n
               PROVE  IF Remains(K, i) THEN G[i - 1] = h[i] /\ (i < n => G[i] = h[i + 1])
                      ELSE G[i] = G[i - 1]
      BY DEF LeavesHeights, n
  <2>1. /\ w[i].skip \in Nat /\ w[i - 1].skip \in Nat /\ w[i - 1] \in FoldStates
        /\ i \in 0 .. n /\ i - 1 \in 0 .. n /\ i - 1 + 1 = i
      BY <1>1, <1>3
  <2>2. /\ G[i] = IF i + 1 + w[i].skip \in 1 .. n THEN h[i + 1 + w[i].skip] ELSE 0
        /\ G[i - 1] = IF i + w[i - 1].skip \in 1 .. n THEN h[i + w[i - 1].skip] ELSE 0
      BY <2>1
  <2>3. \A j \in 1 .. n : h[j] \in Nat /\ (j < n => h[j + 1] = IrHeightAfter(Op(code, j), h[j]))
    <3> TAKE j \in 1 .. n
    <3>1. Op(code, j) = code[j].opcode
        BY <1>1, IrShape DEF n
    <3> QED
        BY <3>1, <1>1, IrLevel DEF n
  <2>4. \A j : Op(code, j) \in Pushes \cup Binary \cup Unary \cup {"Pop"} => j \in 1 .. n /\ j < n
    <3> SUFFICES ASSUME NEW j, Op(code, j) \in Pushes \cup Binary \cup Unary \cup {"Pop"}
                 PROVE  j \in 1 .. n /\ j < n
        OBVIOUS
    <3>1. Op(code, j) # "" /\ Op(code, j) # "Jump"
        BY DEF Pushes, Binary, Unary, ArithOps, CompareOps, EqualityOps
    <3>2. j \in 1 .. n
        BY <3>1 DEF Op, n
    <3>3. Op(code, n) = "Jump"
        BY <1>1, IrShape DEF n
    <3>4. j # n
        BY <3>1, <3>3
    <3> QED
        BY <3>2, <3>4, <1>1
  <2>10. /\ \A x \in IrInstructions :
               w[i].output = Append(w[i - 1].output, x) => Remains(K, i)
         /\ w[i].output = w[i - 1].output => ~ Remains(K, i)
    <3>1. /\ w[i - 1].output \in Seq(IrInstructions)
          /\ K[i] = Len(w[i].output) /\ K[i - 1] = Len(w[i - 1].output)
        BY <1>7
    <3> HIDE DEF K
    <3> QED
        BY <3>1, Appended DEF Remains
  <2> HIDE DEF K, o, G, h
  <2>5. CASE Skips(w[i - 1], w[i])
    <3>1. ~ Remains(K, i)
        BY <2>1, <2>5, <2>10 DEF Skips, FoldStates
    <3>2. w[i].skip = w[i - 1].skip - 1 /\ w[i - 1].skip > 0
        BY <2>1, <2>5 DEF Skips, FoldStates
    <3>3. i + 1 + w[i].skip = i + w[i - 1].skip
        BY <3>2, <2>1
    <3> QED
        BY <3>1, <3>3, <2>2
  <2>6. CASE FoldsAway(w[i - 1], w[i], code, i)
    <3>1. /\ w[i - 1].skip = 0 /\ w[i].skip = 1 /\ w[i].output = w[i - 1].output
          /\ Op(code, i) \in Pushes /\ Op(code, i + 1) = "Pop"
        BY <2>6 DEF FoldsAway
    <3>2. ~ Remains(K, i)
        BY <3>1, <2>10
    <3>3. i + 1 \in 1 .. n /\ i + 1 < n /\ i < n
        BY <3>1, <2>4, <1>1
    <3>4. h[i + 1] = h[i] + 1
        BY <3>1, <3>3, <2>3, PushHeight
    <3>5. h[i + 1 + 1] = h[i]
        BY <3>1, <3>3, <3>4, <2>3, ComputingHeight
    <3>6. G[i - 1] = h[i] /\ G[i] = h[i + 1 + 1]
      <4>1. i + 1 + w[i].skip = i + 1 + 1 /\ i + w[i - 1].skip = i
            /\ i + 1 + 1 \in 1 .. n
          BY <3>1, <3>3, <1>1
      <4> QED
          BY <4>1, <2>2
    <3> QED
        BY <3>2, <3>5, <3>6
  <2>7. ASSUME NEW x, NEW s \in Nat, Emits(w[i - 1], w[i], x, s),
               i < n => i + 1 + s \in 1 .. n /\ h[i + 1 + s] = h[i + 1]
        PROVE  G[i - 1] = h[i] /\ (i < n => G[i] = h[i + 1])
    <3>1. w[i - 1].skip = 0 /\ w[i].skip = s
        BY <2>7 DEF Emits
    <3>2. i + w[i - 1].skip = i
        BY <3>1
    <3> QED
        BY <3>1, <3>2, <2>2, <2>7
  <2>8. CASE FoldsTo(w[i - 1], w[i], code, i)
    <3>1. PICK x \in IrInstructions :
             /\ x.opcode \in Pushes /\ Op(code, i) \in Pushes
             /\ \/ /\ Op(code, i + 1) \in Pushes /\ Op(code, i + 2) \in Binary
                   /\ Emits(w[i - 1], w[i], x, 2)
                \/ Op(code, i + 1) \in Unary /\ Emits(w[i - 1], w[i], x, 1)
        BY <2>8 DEF FoldsTo
    <3>2. Remains(K, i)
        BY <3>1, <2>10 DEF Emits
    <3>3. i + 1 \in 1 .. n /\ i + 1 < n /\ h[i + 1] = h[i] + 1
      <4>1. i + 1 \in 1 .. n /\ i + 1 < n
          BY <3>1, <2>4
      <4>2. h[i] \in Nat /\ h[i + 1] = IrHeightAfter(Op(code, i), h[i])
        <5>1. i < n
            BY <4>1, <1>1
        <5> QED
            BY <5>1, <2>3
      <4> QED
          BY <4>1, <4>2, <3>1, PushHeight
    <3>4. CASE Op(code, i + 1) \in Pushes /\ Op(code, i + 2) \in Binary /\ Emits(w[i - 1], w[i], x, 2)
      <4>1. i + 2 \in 1 .. n /\ i + 2 < n
          BY <3>4, <2>4
      <4>2. h[i] \in Nat /\ h[i + 1] \in Nat /\ i + 1 + 1 = i + 2 /\ i + 2 + 1 = i + 3
          BY <3>3, <2>3
      <4>3. h[i + 2] = IrHeightAfter(Op(code, i + 1), h[i + 1])
          BY <4>2, <3>3, <2>3
      <4>4. h[i + 2] = h[i] + 2
        <5>1. IrHeightAfter(Op(code, i + 1), h[i + 1]) = h[i + 1] + 1
            BY <3>4, <4>2, PushHeight
        <5> QED
            BY <5>1, <4>2, <4>3, <3>3
      <4>5. h[i + 3] = IrHeightAfter(Op(code, i + 2), h[i + 2])
          BY <4>1, <4>2, <2>3
      <4>6. h[i + 3] = h[i] + 1
          BY <4>2, <4>4, <4>5, <3>4, ComputingHeight
      <4>7. i + 1 + 2 = i + 3 /\ i + 3 \in 1 .. n
          BY <4>1, <1>1
      <4>8. i + 1 + 2 \in 1 .. n /\ h[i + 1 + 2] = h[i + 1]
          BY <4>6, <4>7, <3>3
      <4> QED
          BY <4>8, <3>2, <3>4, <2>7
    <3>5. CASE Op(code, i + 1) \in Unary /\ Emits(w[i - 1], w[i], x, 1)
      <4>1. h[i] \in Nat /\ h[i + 1 + 1] = IrHeightAfter(Op(code, i + 1), h[i + 1])
          BY <3>3, <2>3
      <4>2. h[i + 1 + 1] = h[i + 1]
          BY <4>1, <3>3, <3>5, ComputingHeight
      <4>3. i + 1 + 1 \in 1 .. n
          BY <3>3, <1>1
      <4> QED
          BY <4>2, <4>3, <3>2, <3>5, <2>7
    <3> QED
        BY <3>1, <3>4, <3>5
  <2>9. CASE Emits(w[i - 1], w[i], code[i], 0)
    <3>1. Remains(K, i)
      <4>1. code[i] \in IrInstructions
          BY <1>1 DEF n
      <4> QED
          BY <4>1, <2>9, <2>10 DEF Emits
    <3>2. i < n => i + 1 + 0 \in 1 .. n /\ h[i + 1 + 0] = h[i + 1]
        BY <1>1
    <3> QED
        BY <3>1, <3>2, <2>7, <2>9
  <2> QED
      BY <2>5, <2>6, <2>8, <2>9, <1>4, <1>5
<1>14. Leaves(code, K, out)
  <2> HIDE DEF K, o, G
  <2>1. /\ \A i \in Fixed(code) : Remains(K, i)
        /\ \A i \in 1 .. Len(code) :
              /\ Op(code, i) \in Branches => Remains(K, GoesTo(code, i))
              /\ Op(code, i) = "Stop" => Remains(K, i + 1)
      BY <1>1, <1>12, ComputingLeaves
  <2> QED
      BY <2>1, <1>9, <1>10, <1>11 DEF Leaves, n
<1> QED
    BY <1>2, <1>12, <1>13, <1>14 DEF IsRest

\* The code begins as it did: the same world, with the same entities.
SameStart(code, out) ==
    /\ TickBegin(out) = TickBegin(code)
    /\ \A i \in 1 .. TickBegin(code) : out[i] = code[i]

LEMMA RestSameStart ==
    ASSUME NEW code, Shaped(code), NEW K, NEW G, NEW out, IsRest(code, K, G, out)
    PROVE  SameStart(code, out)
<1>1. Leaves(code, K, out) /\ code \in Seq(IrInstructions) /\ Structured(code)
    BY DEF IsRest, Shaped
<1>2. TickBegin(out) = TickBegin(code)
    BY <1>1, RestTickBegin
<1>3. \A i \in 1 .. TickBegin(code) : out[i] = code[i]
    BY <1>1, RestBegins
<1> QED
    BY <1>2, <1>3 DEF SameStart

LEMMA SameStartTransitive ==
    ASSUME NEW a, NEW b, NEW c, SameStart(a, b), SameStart(b, c)
    PROVE  SameStart(a, c)
BY DEF SameStart

LEMMA FoldOnceKeeps ==
    ASSUME NEW code, Shaped(code), constant_fold_once(code) # <<Trap>>
    PROVE  /\ Shaped(constant_fold_once(code))
           /\ SameStart(code, constant_fold_once(code))
           /\ Nested(code) => Nested(constant_fold_once(code))
<1>1. PICK K, G : IsRest(code, K, G, constant_fold_once(code)) /\ DropsComputing(code, K)
    BY FoldRest
<1>2. Leaves(code, K, constant_fold_once(code)) /\ code \in Seq(IrInstructions)
      /\ Structured(code)
    BY <1>1 DEF IsRest, Shaped
<1> QED
    BY <1>1, <1>2, RestIsShaped, RestSameStart, RestNested

\* A trap is never folded away.
LEMMA TrapIsCode ==
    /\ <<Trap>> \in Seq(IrInstructions) /\ Len(<<Trap>>) = 1 /\ <<Trap>>[1] = Trap
    /\ Op(<<Trap>>, 1) = "Trap" /\ Op(<<Trap>>, 2) = ""
    /\ Append(<< >>, <<Trap>>[1]) = <<Trap>>
<1>1. Trap.opcode = "Trap" /\ Trap \in IrInstructions
    BY PushTyped
<1>2. <<Trap>> \in Seq(IrInstructions) /\ Len(<<Trap>>) = 1 /\ <<Trap>>[1] = Trap
    BY <1>1
<1>3. Op(<<Trap>>, 1) = "Trap" /\ Op(<<Trap>>, 2) = ""
    BY <1>1, <1>2 DEF Op
<1>4. Append(<< >>, <<Trap>>[1]) = <<Trap>>
    BY <1>2
<1> QED
    BY <1>2, <1>3, <1>4

LEMMA FoldOnceTraps == constant_fold_once(<<Trap>>) = <<Trap>>
<1> DEFINE code == <<Trap>>
<1>1. code \in Seq(IrInstructions) /\ Len(code) = 1 /\ Op(code, 1) = "Trap"
      /\ Append(<< >>, code[1]) = <<Trap>>
    BY TrapIsCode
<1> HIDE DEF code
<1>2. PICK w \in [0 .. Len(code) -> FoldStates] :
         /\ w[0] = [output |-> << >>, skip |-> 0]
         /\ \A i \in 1 .. Len(code) : w[i] = fold_at(w[i - 1], code, i)
         /\ constant_fold_once(code) = w[Len(code)].output
    BY <1>1, FoldWalk
<1>3. w[0] \in FoldStates /\ w[1] = fold_at(w[0], code, 1) /\ 1 \in 1 .. Len(code)
      /\ w[0].skip = 0 /\ w[0].output = << >>
    BY <1>1, <1>2
<1>4. \/ Skips(w[0], w[1]) \/ FoldTraps(w[0], w[1], code)
      \/ FoldsTo(w[0], w[1], code, 1) \/ FoldsAway(w[0], w[1], code, 1)
      \/ Emits(w[0], w[1], code[1], 0)
    BY <1>1, <1>3, FoldStep
<1>5. w[1].output = <<Trap>>
    BY <1>1, <1>3, <1>4 DEF Skips, FoldTraps, FoldsTo, FoldsAway, Emits, Pushes
<1> QED
    BY <1>1, <1>2, <1>5 DEF code

\* The code after each pass of folding.
LEMMA FoldedWalk ==
    ASSUME NEW code \in Seq(IrInstructions)
    PROVE  \E w \in [0 .. FoldPasses -> Seq(IrInstructions)] :
              /\ w[0] = code
              /\ \A i \in 1 .. FoldPasses : w[i] = constant_fold_once(w[i - 1])
              /\ constant_fold(code) = w[FoldPasses]
<1> DEFINE Codes == Seq(IrInstructions)
           n == FoldPasses
           Def(f) == f = [i \in 0 .. n |->
                            IF i = 0 THEN code ELSE constant_fold_once(f[i - 1])]
           step == [i \in 1 .. n |-> [c \in Codes |-> constant_fold_once(c)]]
           g == CHOOSE f : Def(f)
<1>1. n \in Nat
    BY DEF FoldPasses
<1>2. ASSUME NEW c \in Codes PROVE constant_fold_once(c) \in Codes
  <2>1. PICK w \in [0 .. Len(c) -> FoldStates] :
           constant_fold_once(c) = w[Len(c)].output
      BY FoldWalk
  <2>2. Len(c) \in 0 .. Len(c)
      OBVIOUS
  <2>3. w[Len(c)] \in FoldStates
      BY <2>2
  <2> QED
      BY <2>1, <2>3 DEF FoldStates
<1>3. /\ step \in [1 .. n -> [Codes -> Codes]]
      /\ \A i \in 1 .. n, c \in Codes : step[i][c] = constant_fold_once(c)
    BY <1>2
<1> HIDE DEF step, n, Codes
<1>4. PICK w : IsWalk(w, n, Codes, code, step)
    BY <1>1, <1>3, WalkExists DEF Codes
<1>5. /\ w \in [0 .. n -> Codes] /\ w[0] = code
      /\ \A i \in 1 .. n : w[i] = step[i][w[i - 1]]
    BY <1>4 DEF IsWalk
<1>6. \A i \in 1 .. n : w[i] = constant_fold_once(w[i - 1])
  <2> TAKE i \in 1 .. n
  <2>1. w[i - 1] \in Codes
      BY <1>1, <1>5
  <2> QED
      BY <2>1, <1>3, <1>5
<1>7. Def(w)
    BY <1>1, <1>5, <1>6
<1>8. Def(g)
    BY <1>7
<1>9. constant_fold(code) = g[n]
    BY DEF constant_fold, n
<1> HIDE DEF g
<1>10. g[0] = code /\ \A i \in 1 .. n : g[i] = constant_fold_once(g[i - 1])
    BY <1>1, <1>8
<1> DEFINE T == {i \in 0 .. n : g[i] \in Codes}
<1>11. 0 \in T /\ \A i \in 1 .. n : i - 1 \in T => i \in T
  <2>1. 0 \in T
      BY <1>1, <1>10 DEF Codes
  <2>2. ASSUME NEW i \in 1 .. n, i - 1 \in T PROVE i \in T
    <3>1. g[i] \in Codes
        BY <2>2, <1>2, <1>10
    <3> QED
        BY <3>1, <1>1
  <2> QED
      BY <2>1, <2>2
<1>12. g \in [0 .. n -> Codes]
  <2>1. g = [i \in 0 .. n |-> g[i]]
      BY <1>8
  <2>2. 0 .. n \subseteq T
      BY <1>1, <1>11, UpTo
  <2> QED
      BY <2>1, <2>2
<1> QED
    BY <1>9, <1>10, <1>12 DEF n, Codes

LEMMA FoldKeeps ==
    ASSUME NEW code, Shaped(code), constant_fold(code) # <<Trap>>
    PROVE  /\ Shaped(constant_fold(code))
           /\ SameStart(code, constant_fold(code))
           /\ Nested(code) => Nested(constant_fold(code))
<1>1. PICK w \in [0 .. FoldPasses -> Seq(IrInstructions)] :
              /\ w[0] = code
              /\ \A i \in 1 .. FoldPasses : w[i] = constant_fold_once(w[i - 1])
              /\ constant_fold(code) = w[FoldPasses]
    BY FoldedWalk DEF Shaped
<1> DEFINE Keeps(c) == c = <<Trap>> \/ (/\ Shaped(c) /\ SameStart(code, c)
                                        /\ Nested(code) => Nested(c))
           T == {i \in 0 .. FoldPasses : Keeps(w[i])}
<1>2. FoldPasses \in Nat
    BY DEF FoldPasses
<1>3. 0 \in T
  <2>1. SameStart(code, code)
      BY DEF SameStart
  <2> QED
      BY <2>1, <1>1, <1>2
<1>4. ASSUME NEW i \in 1 .. FoldPasses, i - 1 \in T PROVE i \in T
  <2>1. Keeps(w[i - 1]) /\ w[i] = constant_fold_once(w[i - 1])
      BY <1>1, <1>4
  <2>2. CASE w[i - 1] = <<Trap>>
      BY <2>1, <2>2, FoldOnceTraps
  <2>3. CASE w[i - 1] # <<Trap>> /\ w[i] # <<Trap>>
    <3>1. Shaped(w[i - 1]) /\ SameStart(code, w[i - 1]) /\ (Nested(code) => Nested(w[i - 1]))
        BY <2>1, <2>3
    <3>2. /\ Shaped(w[i]) /\ SameStart(w[i - 1], w[i])
          /\ Nested(w[i - 1]) => Nested(w[i])
        BY <3>1, <2>1, <2>3, FoldOnceKeeps
    <3>3. SameStart(code, w[i])
        BY <3>1, <3>2, SameStartTransitive
    <3> QED
        BY <3>1, <3>2, <3>3
  <2> QED
      BY <2>2, <2>3
<1>5. FoldPasses \in T
  <2> HIDE DEF T
  <2>1. 0 .. FoldPasses \subseteq T
      BY <1>2, <1>3, <1>4, UpTo
  <2> QED
      BY <2>1, <1>2
<1>6. Keeps(constant_fold(code))
    BY <1>1, <1>5
<1> QED
    BY <1>6

LEMMA FoldTrap == constant_fold(<<Trap>>) = <<Trap>>
<1>1. PICK w \in [0 .. FoldPasses -> Seq(IrInstructions)] :
              /\ w[0] = <<Trap>>
              /\ \A i \in 1 .. FoldPasses : w[i] = constant_fold_once(w[i - 1])
              /\ constant_fold(<<Trap>>) = w[FoldPasses]
    BY FoldedWalk, TrapIsCode
<1> DEFINE T == {i \in 0 .. FoldPasses : w[i] = <<Trap>>}
<1>2. FoldPasses \in Nat
    BY DEF FoldPasses
<1>3. 0 \in T
    BY <1>1, <1>2
<1>4. ASSUME NEW i \in 1 .. FoldPasses, i - 1 \in T PROVE i \in T
  <2>1. w[i - 1] = <<Trap>> /\ w[i] = constant_fold_once(w[i - 1])
      BY <1>1, <1>4
  <2> QED
      BY <2>1, <1>2, FoldOnceTraps
<1>5. FoldPasses \in T
  <2> HIDE DEF T
  <2>1. 0 .. FoldPasses \subseteq T
      BY <1>2, <1>3, <1>4, UpTo
  <2> QED
      BY <2>1, <1>2
<1> QED
    BY <1>1, <1>5

-----------------------------------------------------------------------------
(* The passes that only leave instructions out.                             *)

\* o[i] is what has been written when the first i instructions have been read.
Selecting(code, o) ==
    /\ o \in [0 .. Len(code) -> Seq(IrInstructions)] /\ o[0] = << >>
    /\ \A i \in 1 .. Len(code) : o[i] = o[i - 1] \/ o[i] = Append(o[i - 1], code[i])

Selected(code, o, K) ==
    /\ Counting(K, Len(code)) /\ K[Len(code)] = Len(o[Len(code)])
    /\ o[Len(code)] \in Seq(IrInstructions)
    /\ \A i \in 1 .. Len(code) :
          /\ Remains(K, i) => o[Len(code)][K[i]] = code[i]
          /\ o[i] = Append(o[i - 1], code[i]) => Remains(K, i)
          /\ o[i] = o[i - 1] => ~ Remains(K, i)

LEMMA Selects ==
    ASSUME NEW code \in Seq(IrInstructions), NEW o, Selecting(code, o)
    PROVE  Selected(code, o, Lengths(o, Len(code)))
<1> DEFINE n == Len(code)
           K == Lengths(o, n)
<1>0. /\ o \in [0 .. n -> Seq(IrInstructions)] /\ o[0] = << >>
      /\ \A i \in 1 .. n : o[i] = o[i - 1] \/ o[i] = Append(o[i - 1], code[i])
    BY DEF Selecting
<1>1. n \in Nat /\ \A i \in 1 .. n : code[i] \in IrInstructions
    OBVIOUS
<1>2. Grows(o, n, IrInstructions)
    BY <1>0, <1>1 DEF Grows
<1>3. Counting(K, n) /\ Prefixed(o, n) /\ \A i \in 0 .. n : K[i] = Len(o[i])
    BY <1>0, <1>1, <1>2, GrowsPrefix
<1> HIDE DEF K
<1>4. K[n] = Len(o[n]) /\ o[n] \in Seq(IrInstructions)
    BY <1>0, <1>1, <1>3
<1>5. ASSUME NEW i \in 1 .. n
      PROVE  /\ o[i] = Append(o[i - 1], code[i]) => Remains(K, i) /\ o[i][K[i]] = code[i]
             /\ o[i] = o[i - 1] => ~ Remains(K, i)
  <2>1. /\ K[i] = Len(o[i]) /\ K[i - 1] = Len(o[i - 1])
        /\ o[i - 1] \in Seq(IrInstructions) /\ code[i] \in IrInstructions
    <3>1. i \in 0 .. n /\ i - 1 \in 0 .. n
        BY <1>1
    <3> QED
        BY <3>1, <1>0, <1>1, <1>3
  <2>2. CASE o[i] = o[i - 1]
    <3>1. K[i] = K[i - 1] /\ K[i] \in Nat
        BY <2>1, <2>2
    <3>2. ~ Remains(K, i)
        BY <3>1 DEF Remains
    <3>3. o[i] # Append(o[i - 1], code[i])
        BY <2>1, <2>2, Appended
    <3> QED
        BY <3>2, <3>3
  <2>3. CASE o[i] = Append(o[i - 1], code[i])
    <3>1. Len(o[i]) = Len(o[i - 1]) + 1 /\ o[i][Len(o[i - 1]) + 1] = code[i]
        BY <2>1, <2>3, Appended
    <3>2. Remains(K, i) /\ o[i][K[i]] = code[i]
        BY <2>1, <3>1 DEF Remains
    <3>3. o[i] # o[i - 1]
        BY <3>1, <2>1
    <3> QED
        BY <3>2, <3>3
  <2> QED
      BY <2>2, <2>3, <1>0
<1>6. ASSUME NEW i \in 1 .. n, Remains(K, i) PROVE o[n][K[i]] = code[i]
  <2>1. o[i][K[i]] = code[i]
      BY <1>0, <1>5, <1>6
  <2>2. K[i] \in 1 .. Lengths(o, n)[i] /\ i \in 0 .. n /\ n \in i .. n
      BY <1>1, <1>3, <1>6 DEF Counting, Remains, K
  <2>3. o[n][K[i]] = o[i][K[i]]
      BY <2>2, <1>3 DEF Prefixed
  <2> QED
      BY <2>1, <2>3
<1>7. Selected(code, o, K)
    BY <1>3, <1>4, <1>5, <1>6 DEF Selected, n
<1> QED
    BY <1>7 DEF K, n

\* Where a jump stands, and that it goes to a label.
LEMMA IrGoesTo ==
    ASSUME NEW code \in Seq(IrInstructions), Structured(code), NEW i \in 1 .. Len(code),
           Op(code, i) \in Branches
    PROVE  /\ i = Len(code) \/ i \in TickBegin(code) + 1 .. Len(code) - 2
           /\ GoesTo(code, i) \in 1 .. Len(code)
           /\ IsLabel(code[GoesTo(code, i)])
           /\ i # Len(code) => GoesTo(code, i) \in i + 1 .. Len(code) - 2
<1> DEFINE n == Len(code)
           f == TickBegin(code)
<1>1. /\ n \in Nat /\ f \in Nat /\ f >= 3 /\ f <= n - 2
      /\ Op(code, f - 1) = "Label"
      /\ GoesTo(code, n) = f - 1
    BY IrShape
<1>2. i = n \/ i \in f + 1 .. n - 2
  <2>1. Op(code, i) \notin Entities \cup {"BeginTick", "EndTick", "World", "Label"}
      BY DEF Branches, Entities
  <2> QED
      BY <2>1, <1>1, IrPlaces
<1>3. i # n => GoesTo(code, i) \in i + 1 .. n - 2
    BY <1>2, IrShape
<1>4. GoesTo(code, i) \in 1 .. n
    BY <1>1, <1>2, <1>3
<1>5. IsLabel(code[GoesTo(code, i)])
    BY <1>1, <1>4, LabelFound DEF GoesTo
<1> QED
    BY <1>2, <1>3, <1>4, <1>5

-----------------------------------------------------------------------------
(* Code after a stop.                                                       *)

StopStates == [output : Seq(IrInstructions), skipping : BOOLEAN]

StopDrops(done, next, code, i) == done.skipping /\ ~ IsLabel(code[i]) /\ next = done

StopLeaves(done, next, code, i) ==
    /\ done.skipping => IsLabel(code[i])
    /\ next.output = Append(done.output, code[i])
    /\ next.skipping <=> (code[i].opcode = "Jump" /\ Op(code, i - 1) = "Stop")

LEMMA StopStep ==
    ASSUME NEW code \in Seq(IrInstructions), NEW done \in StopStates,
           NEW i \in 1 .. Len(code)
    PROVE  /\ \/ StopDrops(done, stop_at(done, code, i), code, i)
              \/ StopLeaves(done, stop_at(done, code, i), code, i)
           /\ stop_at(done, code, i) \in StopStates
<1>1. code[i] \in IrInstructions /\ done.output \in Seq(IrInstructions)
    BY DEF StopStates
<1>2. Append(done.output, code[i]) \in Seq(IrInstructions)
    BY <1>1, Appended
<1> QED
    BY <1>2 DEF stop_at, StopDrops, StopLeaves, StopStates

\* The states of the pass, one after each instruction.
LEMMA StopWalk ==
    ASSUME NEW code \in Seq(IrInstructions)
    PROVE  \E w \in [0 .. Len(code) -> StopStates] :
              /\ w[0] = [output |-> << >>, skipping |-> FALSE]
              /\ \A i \in 1 .. Len(code) : w[i] = stop_at(w[i - 1], code, i)
              /\ eliminate_unreachable_after_stop(code) = w[Len(code)].output
<1> DEFINE n == Len(code)
           Def(f) == f = [i \in 0 .. n |->
                            IF i = 0 THEN [output |-> << >>, skipping |-> FALSE]
                            ELSE stop_at(f[i - 1], code, i)]
           step == [i \in 1 .. n |-> [s \in StopStates |-> stop_at(s, code, i)]]
           g == CHOOSE f : Def(f)
<1>1. n \in Nat /\ [output |-> << >>, skipping |-> FALSE] \in StopStates
    BY DEF StopStates
<1>2. \A i \in 1 .. n, s \in StopStates : stop_at(s, code, i) \in StopStates
    BY StopStep
<1>3. /\ step \in [1 .. n -> [StopStates -> StopStates]]
      /\ \A i \in 1 .. n, s \in StopStates : step[i][s] = stop_at(s, code, i)
    BY <1>2
<1> HIDE DEF step, n
<1>4. PICK w : IsWalk(w, n, StopStates, [output |-> << >>, skipping |-> FALSE], step)
    BY <1>1, <1>3, WalkExists
<1>5. /\ w \in [0 .. n -> StopStates] /\ w[0] = [output |-> << >>, skipping |-> FALSE]
      /\ \A i \in 1 .. n : w[i] = step[i][w[i - 1]]
    BY <1>4 DEF IsWalk
<1>6. \A i \in 1 .. n : w[i] = stop_at(w[i - 1], code, i)
  <2> TAKE i \in 1 .. n
  <2>1. w[i - 1] \in StopStates
      BY <1>1, <1>5
  <2> QED
      BY <2>1, <1>3, <1>5
<1>7. Def(w)
    BY <1>1, <1>5, <1>6
<1>8. Def(g)
    BY <1>7
<1>9. eliminate_unreachable_after_stop(code) = g[n].output
    BY DEF eliminate_unreachable_after_stop, n
<1> HIDE DEF g
<1>10. /\ g[0] = [output |-> << >>, skipping |-> FALSE]
       /\ \A i \in 1 .. n : g[i] = stop_at(g[i - 1], code, i)
  <2>1. 0 \in 0 .. n /\ \A i \in 1 .. n : i \in 0 .. n /\ i # 0
      BY <1>1
  <2> QED
      BY <2>1, <1>8
<1> DEFINE T == {i \in 0 .. n : g[i] \in StopStates}
<1>11. 0 \in T /\ \A i \in 1 .. n : i - 1 \in T => i \in T
  <2>1. 0 \in T
      BY <1>1, <1>10
  <2>2. ASSUME NEW i \in 1 .. n, i - 1 \in T PROVE i \in T
    <3>1. g[i] \in StopStates
        BY <2>2, <1>2, <1>10
    <3> QED
        BY <3>1, <1>1
  <2> QED
      BY <2>1, <2>2
<1>12. g \in [0 .. n -> StopStates]
  <2>1. g = [i \in 0 .. n |-> g[i]]
      BY <1>8
  <2>2. 0 .. n \subseteq T
      BY <1>1, <1>11, UpTo
  <2> QED
      BY <2>1, <2>2
<1> QED
    BY <1>9, <1>10, <1>12 DEF n

LEMMA StopRest ==
    ASSUME NEW code, Shaped(code)
    PROVE  \E K, G : IsRest(code, K, G, eliminate_unreachable_after_stop(code))
<1> DEFINE n == Len(code)
           f == TickBegin(code)
           h == IrHeights(code)
<1>1. /\ code \in Seq(IrInstructions) /\ Structured(code) /\ Level(code)
      /\ n \in Nat /\ f \in Nat /\ f >= 3 /\ f <= n - 2
      /\ \A i \in 1 .. n : Op(code, i) = code[i].opcode
    BY IrShape DEF Shaped
<1>2. PICK w \in [0 .. n -> StopStates] :
         /\ w[0] = [output |-> << >>, skipping |-> FALSE]
         /\ \A i \in 1 .. n : w[i] = stop_at(w[i - 1], code, i)
         /\ eliminate_unreachable_after_stop(code) = w[n].output
    BY <1>1, StopWalk
<1>3. ASSUME NEW i \in 1 .. n
      PROVE  /\ w[i - 1] \in StopStates /\ w[i] \in StopStates
             /\ StopDrops(w[i - 1], w[i], code, i) \/ StopLeaves(w[i - 1], w[i], code, i)
  <2>1. w[i - 1] \in StopStates /\ w[i] \in StopStates
    <3>1. i - 1 \in 0 .. n /\ i \in 0 .. n
        BY <1>1
    <3> QED
        BY <3>1, <1>2
  <2>2. w[i] = stop_at(w[i - 1], code, i)
      BY <1>2
  <2> QED
      BY <2>1, <2>2, <1>1, StopStep
<1> DEFINE o == [i \in 0 .. n |-> w[i].output]
           K == Lengths(o, n)
           out == w[n].output
           G == [i \in 0 .. n |-> IF w[i].skipping THEN 0
                                  ELSE IF i + 1 \in 1 .. n THEN h[i + 1] ELSE 0]
<1>4. /\ Counting(K, n) /\ K[n] = Len(out) /\ out \in Seq(IrInstructions)
      /\ \A i \in 1 .. n :
            /\ Remains(K, i) => out[K[i]] = code[i]
            /\ StopLeaves(w[i - 1], w[i], code, i) => Remains(K, i)
            /\ StopDrops(w[i - 1], w[i], code, i) => ~ Remains(K, i)
  <2>1. \A i \in 0 .. n : w[i].output \in Seq(IrInstructions)
      BY <1>2 DEF StopStates
  <2>2. /\ o \in [0 .. n -> Seq(IrInstructions)] /\ o[0] = << >> /\ o[n] = out
        /\ \A i \in 1 .. n : o[i] = w[i].output /\ o[i - 1] = w[i - 1].output
        /\ K = Lengths(o, n) /\ n = Len(code)
      BY <1>1, <1>2, <2>1
  <2> HIDE DEF o, K, out, n
  <2>3. ASSUME NEW i \in 1 .. n
        PROVE  /\ o[i] = o[i - 1] \/ o[i] = Append(o[i - 1], code[i])
               /\ StopLeaves(w[i - 1], w[i], code, i) => o[i] = Append(o[i - 1], code[i])
               /\ StopDrops(w[i - 1], w[i], code, i) => o[i] = o[i - 1]
      BY <2>2, <1>3 DEF StopLeaves, StopDrops
  <2>4. Selecting(code, o)
      BY <2>2, <2>3 DEF Selecting
  <2>5. Selected(code, o, K)
    <3>1. Selected(code, o, Lengths(o, Len(code)))
        BY <1>1, <2>4, Selects
    <3> QED
        BY <3>1, <2>2
  <2> QED
      BY <2>2, <2>3, <2>5 DEF Selected
<1> HIDE DEF K, o
\* What is skipped is before the label a stop jumps to.
<1> DEFINE Skipped(i) == w[i].skipping =>
              \E p \in f + 1 .. n - 2 : /\ p <= i /\ Op(code, p) = "Jump"
                                        /\ i < GoesTo(code, p) /\ GoesTo(code, p) <= n - 2
           T == {i \in 0 .. n : Skipped(i)}
<1>5. \A i \in 0 .. n : Skipped(i)
  <2>1. 0 \in T
      BY <1>1, <1>2
  <2>2. ASSUME NEW i \in 1 .. n, i - 1 \in T PROVE i \in T
    <3> SUFFICES ASSUME w[i].skipping PROVE Skipped(i)
        BY <1>1
    <3>1. CASE StopDrops(w[i - 1], w[i], code, i)
      <4>1. w[i - 1].skipping /\ ~ IsLabel(code[i])
          BY <3>1 DEF StopDrops
      <4>2. PICK p \in f + 1 .. n - 2 : /\ p <= i - 1 /\ Op(code, p) = "Jump"
                                        /\ i - 1 < GoesTo(code, p) /\ GoesTo(code, p) <= n - 2
          BY <4>1, <2>2
      <4>3. GoesTo(code, p) \in 1 .. n /\ IsLabel(code[GoesTo(code, p)])
        <5>1. p \in 1 .. n /\ Op(code, p) \in Branches
            BY <4>2, <1>1 DEF Branches
        <5> QED
            BY <5>1, <1>1, IrGoesTo
      <4>4. i # GoesTo(code, p)
          BY <4>1, <4>3
      <4>5. p <= i /\ i < GoesTo(code, p)
          BY <4>2, <4>3, <4>4, <1>1
      <4> QED
          BY <4>2, <4>5
    <3>2. CASE StopLeaves(w[i - 1], w[i], code, i)
      <4>1. code[i].opcode = "Jump" /\ Op(code, i - 1) = "Stop"
          BY <3>2 DEF StopLeaves
      <4>2. Op(code, i) = "Jump" /\ Op(code, i) \in Branches
          BY <4>1, <1>1 DEF Branches
      <4>3. i # n
          BY <4>1, <1>1, IrShape
      <4>4. i \in f + 1 .. n - 2 /\ GoesTo(code, i) \in i + 1 .. n - 2
          BY <4>2, <4>3, <1>1, IrGoesTo
      <4>5. i <= i /\ i < GoesTo(code, i) /\ GoesTo(code, i) <= n - 2
          BY <4>4, <1>1
      <4> QED
          BY <4>2, <4>4, <4>5
    <3> QED
        BY <3>1, <3>2, <1>3
  <2> HIDE DEF T
  <2>3. 0 .. n \subseteq T
      BY <2>1, <2>2, <1>1, UpTo
  <2> QED
      BY <2>3 DEF T
<1>6. ASSUME NEW i \in 1 .. n, ~ Remains(K, i)
      PROVE  /\ w[i - 1].skipping /\ w[i] = w[i - 1] /\ ~ IsLabel(code[i])
             /\ i > f /\ i <= n - 2
  <2>1. StopDrops(w[i - 1], w[i], code, i)
      BY <1>3, <1>4, <1>6
  <2>2. w[i - 1].skipping /\ w[i] = w[i - 1] /\ ~ IsLabel(code[i])
      BY <2>1 DEF StopDrops
  <2>3. i - 1 \in 0 .. n
      BY <1>1
  <2>4. PICK p \in f + 1 .. n - 2 : /\ p <= i - 1 /\ Op(code, p) = "Jump"
                                    /\ i - 1 < GoesTo(code, p) /\ GoesTo(code, p) <= n - 2
      BY <2>2, <2>3, <1>5
  <2>5. GoesTo(code, p) \in Nat
    <3>1. p \in 1 .. n /\ Op(code, p) \in Branches
        BY <2>4, <1>1 DEF Branches
    <3>2. GoesTo(code, p) \in 1 .. n
        BY <3>1, <1>1, IrGoesTo
    <3> QED
        BY <3>2, <1>1
  <2>6. i > f /\ i <= n - 2
      BY <2>4, <2>5, <1>1
  <2> QED
      BY <2>2, <2>6
<1>7. ASSUME NEW i \in 1 .. n, Remains(K, i)
      PROVE  /\ w[i - 1].skipping => IsLabel(code[i])
             /\ w[i].skipping <=> (code[i].opcode = "Jump" /\ Op(code, i - 1) = "Stop")
    BY <1>3, <1>4, <1>7 DEF StopLeaves
<1>8. Leaves(code, K, out)
  <2>1. \A i \in Fixed(code) : Remains(K, i)
    <3> TAKE i \in Fixed(code)
    <3>1. i \in 1 .. n /\ (i <= f \/ i > n - 2)
        BY <1>1 DEF Fixed
    <3> QED
        BY <3>1, <1>1, <1>6
  <2>2. ASSUME NEW i \in 1 .. n, Op(code, i) \in Branches PROVE Remains(K, GoesTo(code, i))
    <3>1. GoesTo(code, i) \in 1 .. n /\ IsLabel(code[GoesTo(code, i)])
        BY <2>2, <1>1, IrGoesTo
    <3> QED
        BY <3>1, <1>6
  <2>3. ASSUME NEW i \in 1 .. n, Remains(K, i), Op(code, i) = "Stop" PROVE Remains(K, i + 1)
    <3>1. i # n /\ i + 1 \in 1 .. n /\ i + 1 - 1 = i
      <4>1. i # n
          BY <2>3, <1>1, IrShape
      <4> QED
          BY <4>1, <1>1
    <3>2. ~ w[i].skipping
        BY <2>3, <1>1, <1>7
    <3>3. ASSUME ~ Remains(K, i + 1) PROVE FALSE
      <4>1. w[i + 1 - 1].skipping
          BY <3>1, <3>3, <1>6
      <4> QED
          BY <4>1, <3>1, <3>2
    <3> QED
        BY <3>3
  <2> HIDE DEF out
  <2> QED
      BY <2>1, <2>2, <2>3, <1>4 DEF Leaves, n
<1>9. LeavesHeights(code, K, G)
  <2> SUFFICES ASSUME NEW i \in 1 .. n
               PROVE  IF Remains(K, i) THEN G[i - 1] = h[i] /\ (i < n => G[i] = h[i + 1])
                      ELSE G[i] = G[i - 1]
      BY DEF LeavesHeights, n, h
  <2>1. i \in 0 .. n /\ i - 1 \in 0 .. n /\ i - 1 + 1 = i /\ (i < n => i + 1 \in 1 .. n)
      BY <1>1
  <2>2. /\ G[i - 1] = IF w[i - 1].skipping THEN 0 ELSE h[i]
        /\ i < n => G[i] = IF w[i].skipping THEN 0 ELSE h[i + 1]
      BY <2>1
  <2>3. w[i] = w[i - 1] => (w[i].skipping => G[i] = 0)
      BY <2>1
  <2>4. /\ code[i].opcode \in {"Jump", "Label"} => h[i] = 0
        /\ i < n => h[i + 1] = IrHeightAfter(code[i].opcode, h[i])
    <3>1. /\ code[i].opcode \in Clean \cup Turns \cup {"Label"} => h[i] = 0
          /\ i < n => h[i + 1] = IrHeightAfter(code[i].opcode, h[i])
        BY <1>1, IrLevel
    <3> QED
        BY <3>1 DEF Clean
  <2> HIDE DEF G, h
  <2>5. CASE Remains(K, i)
    <3>1. G[i - 1] = h[i]
      <4>1. w[i - 1].skipping => code[i].opcode = "Label"
          BY <2>5, <1>7 DEF IsLabel
      <4> QED
          BY <4>1, <2>2, <2>4
    <3>2. ASSUME i < n PROVE G[i] = h[i + 1]
      <4>1. CASE w[i].skipping
        <5>1. code[i].opcode = "Jump"
            BY <2>5, <4>1, <1>7
        <5>2. h[i] = 0 /\ h[i + 1] = IrHeightAfter("Jump", 0)
            BY <5>1, <2>4, <3>2
        <5>3. IrHeightAfter("Jump", 0) = 0
            BY DEF IrHeightAfter, HeightAfter, CompiledOpcode, Renamed, Pushing, Pops,
                   ArithOps, CompareOps, EqualityOps
        <5> QED
            BY <4>1, <5>2, <5>3, <2>2, <3>2
      <4> QED
          BY <4>1, <2>2, <3>2
    <3> QED
        BY <2>5, <3>1, <3>2
  <2>6. CASE ~ Remains(K, i)
    <3>1. w[i - 1].skipping /\ w[i] = w[i - 1]
        BY <2>6, <1>6
    <3> QED
        BY <3>1, <2>2, <2>3, <2>6
  <2> QED
      BY <2>5, <2>6
<1> QED
    BY <1>2, <1>8, <1>9 DEF IsRest

LEMMA StopKeeps ==
    ASSUME NEW code, Shaped(code)
    PROVE  /\ Shaped(eliminate_unreachable_after_stop(code))
           /\ SameStart(code, eliminate_unreachable_after_stop(code))
<1>1. PICK K, G : IsRest(code, K, G, eliminate_unreachable_after_stop(code))
    BY StopRest
<1> QED
    BY <1>1, RestIsShaped, RestSameStart

LEMMA StopTrap == eliminate_unreachable_after_stop(<<Trap>>) = <<Trap>>
<1> DEFINE code == <<Trap>>
<1>1. code \in Seq(IrInstructions) /\ Len(code) = 1 /\ Append(<< >>, code[1]) = <<Trap>>
    BY TrapIsCode
<1> HIDE DEF code
<1>2. PICK w \in [0 .. Len(code) -> StopStates] :
         /\ w[0] = [output |-> << >>, skipping |-> FALSE]
         /\ \A i \in 1 .. Len(code) : w[i] = stop_at(w[i - 1], code, i)
         /\ eliminate_unreachable_after_stop(code) = w[Len(code)].output
    BY <1>1, StopWalk
<1>3. w[0] \in StopStates /\ w[1] = stop_at(w[0], code, 1) /\ 1 \in 1 .. Len(code)
      /\ ~ w[0].skipping /\ w[0].output = << >>
    BY <1>1, <1>2
<1>4. StopDrops(w[0], w[1], code, 1) \/ StopLeaves(w[0], w[1], code, 1)
    BY <1>1, <1>3, StopStep
<1>5. w[1].output = <<Trap>>
    BY <1>1, <1>3, <1>4 DEF StopDrops, StopLeaves
<1> QED
    BY <1>1, <1>2, <1>5 DEF code

-----------------------------------------------------------------------------
(* Turns that undo each other.                                              *)

Idle == Turns \cup {"Pop"}

TurnLeaves(done, next, code, i) ==
    next.output = Append(done.output, code[i]) /\ next.skip = 0

TurnsCancel(done, next, code, i) ==
    /\ next.output = done.output /\ next.skip \in 1 .. 3
    /\ Op(code, i) \in Turns
    /\ \A d \in 1 .. next.skip : Op(code, i + d) \in Idle

LEMMA TurnStep ==
    ASSUME NEW code \in Seq(IrInstructions), NEW done \in FoldStates,
           NEW i \in 1 .. Len(code)
    PROVE  /\ \/ Skips(done, turn_at(done, code, i))
              \/ TurnsCancel(done, turn_at(done, code, i), code, i)
              \/ TurnLeaves(done, turn_at(done, code, i), code, i)
           /\ turn_at(done, code, i) \in FoldStates
<1> DEFINE j == IF Op(code, i + 1) = "Pop" THEN i + 2 ELSE i + 1
           last == IF Op(code, j + 1) = "Pop" THEN j + 1 ELSE j
           next == turn_at(done, code, i)
<1>1. /\ code[i] \in IrInstructions /\ done.output \in Seq(IrInstructions)
      /\ done.skip \in Nat /\ i \in Nat
      /\ DOMAIN done = {"output", "skip"} /\ done = [output |-> done.output, skip |-> done.skip]
    BY DEF FoldStates
<1>2. Append(done.output, code[i]) \in Seq(IrInstructions)
    BY <1>1, Appended
<1>3. CASE done.skip > 0
    BY <1>1, <1>3 DEF turn_at, Skips, FoldStates
<1>4. CASE done.skip = 0 /\ {Op(code, i), Op(code, j)} = Turns
  <2>1. next = [done EXCEPT !.skip = last - i]
      BY <1>4 DEF turn_at
  <2>2. Op(code, i) \in Turns /\ Op(code, j) \in Turns
      BY <1>4
  <2>3. last - i \in 1 .. 3 /\ \A d \in 1 .. last - i : Op(code, i + d) \in Idle
    <3>1. CASE Op(code, i + 1) = "Pop" /\ Op(code, j + 1) = "Pop"
      <4>1. j = i + 2 /\ last = i + 3 /\ j + 1 = i + 3
          BY <3>1, <1>1
      <4>2. Op(code, i + 1) \in Idle /\ Op(code, i + 2) \in Idle /\ Op(code, i + 3) \in Idle
          BY <3>1, <4>1, <2>2 DEF Idle
      <4>3. last - i = 3 /\ \A d \in 1 .. 3 : d = 1 \/ d = 2 \/ d = 3
          BY <4>1, <1>1
      <4> HIDE DEF last
      <4> QED
          BY <4>2, <4>3
    <3>2. CASE Op(code, i + 1) = "Pop" /\ Op(code, j + 1) # "Pop"
      <4>1. j = i + 2 /\ last = i + 2
          BY <3>2, <1>1
      <4>2. Op(code, i + 1) \in Idle /\ Op(code, i + 2) \in Idle
          BY <3>2, <4>1, <2>2 DEF Idle
      <4>3. last - i = 2 /\ \A d \in 1 .. 2 : d = 1 \/ d = 2
          BY <4>1, <1>1
      <4> HIDE DEF last
      <4> QED
          BY <4>2, <4>3
    <3>3. CASE Op(code, i + 1) # "Pop" /\ Op(code, j + 1) = "Pop"
      <4>1. j = i + 1 /\ last = i + 2 /\ j + 1 = i + 2
          BY <3>3, <1>1
      <4>2. Op(code, i + 1) \in Idle /\ Op(code, i + 2) \in Idle
          BY <3>3, <4>1, <2>2 DEF Idle
      <4>3. last - i = 2 /\ \A d \in 1 .. 2 : d = 1 \/ d = 2
          BY <4>1, <1>1
      <4> HIDE DEF last
      <4> QED
          BY <4>2, <4>3
    <3>4. CASE Op(code, i + 1) # "Pop" /\ Op(code, j + 1) # "Pop"
      <4>1. j = i + 1 /\ last = i + 1
          BY <3>4, <1>1
      <4>2. Op(code, i + 1) \in Idle
          BY <3>4, <4>1, <2>2 DEF Idle
      <4>3. last - i = 1 /\ \A d \in 1 .. 1 : d = 1
          BY <4>1, <1>1
      <4> HIDE DEF last
      <4> QED
          BY <4>2, <4>3
    <3> QED
        BY <3>1, <3>2, <3>3, <3>4
  <2> HIDE DEF last, next, j
  <2>4. next.output = done.output /\ next.skip = last - i /\ next \in FoldStates
      BY <2>1, <2>3, <1>1 DEF FoldStates
  <2>5. TurnsCancel(done, next, code, i)
      BY <2>2, <2>3, <2>4 DEF TurnsCancel
  <2> QED
      BY <2>4, <2>5 DEF next
<1>5. CASE done.skip = 0 /\ {Op(code, i), Op(code, j)} # Turns
  <2>1. next = [done EXCEPT !.output = Append(@, code[i])]
      BY <1>5 DEF turn_at
  <2> HIDE DEF next
  <2>2. next.output = Append(done.output, code[i]) /\ next.skip = 0 /\ next \in FoldStates
      BY <2>1, <1>1, <1>2, <1>5 DEF FoldStates
  <2> QED
      BY <2>2 DEF TurnLeaves, next
<1> QED
    BY <1>1, <1>3, <1>4, <1>5

\* The states of the pass, one after each instruction.
LEMMA TurnWalk ==
    ASSUME NEW code \in Seq(IrInstructions)
    PROVE  \E w \in [0 .. Len(code) -> FoldStates] :
              /\ w[0] = [output |-> << >>, skip |-> 0]
              /\ \A i \in 1 .. Len(code) : w[i] = turn_at(w[i - 1], code, i)
              /\ eliminate_redundant_turn_pairs(code) = w[Len(code)].output
<1> DEFINE n == Len(code)
           Def(f) == f = [i \in 0 .. n |->
                            IF i = 0 THEN [output |-> << >>, skip |-> 0]
                            ELSE turn_at(f[i - 1], code, i)]
           step == [i \in 1 .. n |-> [s \in FoldStates |-> turn_at(s, code, i)]]
           g == CHOOSE f : Def(f)
<1>1. n \in Nat /\ [output |-> << >>, skip |-> 0] \in FoldStates
    BY DEF FoldStates
<1>2. \A i \in 1 .. n, s \in FoldStates : turn_at(s, code, i) \in FoldStates
    BY TurnStep
<1>3. /\ step \in [1 .. n -> [FoldStates -> FoldStates]]
      /\ \A i \in 1 .. n, s \in FoldStates : step[i][s] = turn_at(s, code, i)
    BY <1>2
<1> HIDE DEF step, n
<1>4. PICK w : IsWalk(w, n, FoldStates, [output |-> << >>, skip |-> 0], step)
    BY <1>1, <1>3, WalkExists
<1>5. /\ w \in [0 .. n -> FoldStates] /\ w[0] = [output |-> << >>, skip |-> 0]
      /\ \A i \in 1 .. n : w[i] = step[i][w[i - 1]]
    BY <1>4 DEF IsWalk
<1>6. \A i \in 1 .. n : w[i] = turn_at(w[i - 1], code, i)
  <2> TAKE i \in 1 .. n
  <2>1. w[i - 1] \in FoldStates
      BY <1>1, <1>5
  <2> QED
      BY <2>1, <1>3, <1>5
<1>7. Def(w)
    BY <1>1, <1>5, <1>6
<1>8. Def(g)
    BY <1>7
<1>9. eliminate_redundant_turn_pairs(code) = g[n].output
    BY DEF eliminate_redundant_turn_pairs, n
<1> HIDE DEF g
<1>10. /\ g[0] = [output |-> << >>, skip |-> 0]
       /\ \A i \in 1 .. n : g[i] = turn_at(g[i - 1], code, i)
  <2>1. 0 \in 0 .. n /\ \A i \in 1 .. n : i \in 0 .. n /\ i # 0
      BY <1>1
  <2> QED
      BY <2>1, <1>8
<1> DEFINE T == {i \in 0 .. n : g[i] \in FoldStates}
<1>11. 0 \in T /\ \A i \in 1 .. n : i - 1 \in T => i \in T
  <2>1. 0 \in T
      BY <1>1, <1>10
  <2>2. ASSUME NEW i \in 1 .. n, i - 1 \in T PROVE i \in T
    <3>1. g[i] \in FoldStates
        BY <2>2, <1>2, <1>10
    <3> QED
        BY <3>1, <1>1
  <2> QED
      BY <2>1, <2>2
<1>12. g \in [0 .. n -> FoldStates]
  <2>1. g = [i \in 0 .. n |-> g[i]]
      BY <1>8
  <2>2. 0 .. n \subseteq T
      BY <1>1, <1>11, UpTo
  <2> QED
      BY <2>1, <2>2
<1> QED
    BY <1>9, <1>10, <1>12 DEF n

LEMMA IdleAt ==
    ASSUME NEW code, Shaped(code), NEW i, Op(code, i) \in Idle
    PROVE  /\ i \in TickBegin(code) + 1 .. Len(code) - 2 /\ ~ IsLabel(code[i])
           /\ Op(code, i) \in Turns => IrHeights(code)[i] = 0
           /\ IrHeights(code)[i] = 0 => IrHeights(code)[i + 1] = 0
<1> DEFINE n == Len(code)
           f == TickBegin(code)
           h == IrHeights(code)
<1>1. /\ code \in Seq(IrInstructions) /\ Structured(code) /\ Level(code)
      /\ n \in Nat /\ f \in Nat /\ f >= 3 /\ f <= n - 2
      /\ \A k \in 1 .. n : Op(code, k) = code[k].opcode
      /\ Op(code, f - 1) = "Label" /\ Op(code, n) = "Jump"
    BY IrShape DEF Shaped
<1>2. Op(code, i) \notin Entities \cup {"", "BeginTick", "EndTick", "World", "Label", "Jump"}
    BY DEF Idle, Turns, Entities
<1>3. i \in 1 .. n
    BY <1>2 DEF Op
<1>4. i \in f + 1 .. n - 2
    BY <1>1, <1>2, <1>3, IrPlaces
<1>5. code[i].opcode = Op(code, i)
    BY <1>1, <1>3
<1>6. /\ code[i].opcode \in Turns => h[i] = 0
      /\ h[i + 1] = IrHeightAfter(code[i].opcode, h[i])
    BY <1>1, <1>3, <1>4, IrLevel
<1>7. ASSUME NEW op \in Idle PROVE IrHeightAfter(op, 0) = 0
  <2>1. CompiledOpcode(op) = op
      BY DEF CompiledOpcode, Renamed, Idle, Turns
  <2>2. op \notin Pushing /\ Pops(op) = 0
      BY DEF Pushing, Pops, ArithOps, CompareOps, EqualityOps, Idle, Turns
  <2> QED
      BY <2>1, <2>2 DEF IrHeightAfter, HeightAfter
<1> HIDE DEF h
<1> QED
    BY <1>2, <1>4, <1>5, <1>6, <1>7 DEF IsLabel, h

LEMMA TurnRest ==
    ASSUME NEW code, Shaped(code)
    PROVE  \E K, G : IsRest(code, K, G, eliminate_redundant_turn_pairs(code))
<1> DEFINE n == Len(code)
           f == TickBegin(code)
           h == IrHeights(code)
<1>1. /\ code \in Seq(IrInstructions) /\ Structured(code) /\ Level(code)
      /\ n \in Nat /\ f \in Nat /\ f >= 3 /\ f <= n - 2
      /\ \A i \in 1 .. n : Op(code, i) = code[i].opcode
    BY IrShape DEF Shaped
<1>2. PICK w \in [0 .. n -> FoldStates] :
         /\ w[0] = [output |-> << >>, skip |-> 0]
         /\ \A i \in 1 .. n : w[i] = turn_at(w[i - 1], code, i)
         /\ eliminate_redundant_turn_pairs(code) = w[n].output
    BY <1>1, TurnWalk
<1>3. ASSUME NEW i \in 1 .. n
      PROVE  /\ w[i - 1] \in FoldStates /\ w[i] \in FoldStates
             /\ \/ Skips(w[i - 1], w[i]) \/ TurnsCancel(w[i - 1], w[i], code, i)
                \/ TurnLeaves(w[i - 1], w[i], code, i)
  <2>1. w[i - 1] \in FoldStates /\ w[i] \in FoldStates
    <3>1. i - 1 \in 0 .. n /\ i \in 0 .. n
        BY <1>1
    <3> QED
        BY <3>1, <1>2
  <2>2. w[i] = turn_at(w[i - 1], code, i)
      BY <1>2
  <2> QED
      BY <2>1, <2>2, <1>1, TurnStep
<1> DEFINE o == [i \in 0 .. n |-> w[i].output]
           K == Lengths(o, n)
           out == w[n].output
           G == [i \in 0 .. n |-> IF i < n THEN h[i + 1] ELSE 0]
<1>4. /\ Counting(K, n) /\ K[n] = Len(out) /\ out \in Seq(IrInstructions)
      /\ \A i \in 1 .. n :
            /\ Remains(K, i) => out[K[i]] = code[i]
            /\ TurnLeaves(w[i - 1], w[i], code, i) => Remains(K, i)
  <2>1. \A i \in 0 .. n : w[i].output \in Seq(IrInstructions)
      BY <1>2 DEF FoldStates
  <2>2. /\ o \in [0 .. n -> Seq(IrInstructions)] /\ o[0] = << >> /\ o[n] = out
        /\ \A i \in 1 .. n : o[i] = w[i].output /\ o[i - 1] = w[i - 1].output
        /\ K = Lengths(o, n) /\ n = Len(code)
      BY <1>1, <1>2, <2>1
  <2> HIDE DEF o, K, out, n
  <2>3. ASSUME NEW i \in 1 .. n
        PROVE  /\ o[i] = o[i - 1] \/ o[i] = Append(o[i - 1], code[i])
               /\ TurnLeaves(w[i - 1], w[i], code, i) => o[i] = Append(o[i - 1], code[i])
      BY <2>2, <1>3 DEF TurnLeaves, TurnsCancel, Skips, FoldStates
  <2>4. Selecting(code, o)
      BY <2>2, <2>3 DEF Selecting
  <2>5. Selected(code, o, K)
    <3>1. Selected(code, o, Lengths(o, Len(code)))
        BY <1>1, <2>4, Selects
    <3> QED
        BY <3>1, <2>2
  <2> QED
      BY <2>2, <2>3, <2>5 DEF Selected
<1> HIDE DEF K, o
\* What is skipped does nothing to the stack, which is empty.
<1> DEFINE Skipped(i) == \A d \in 1 .. w[i].skip : Op(code, i + d) \in Idle /\ h[i + d] = 0
           T == {i \in 0 .. n : Skipped(i)}
<1>5. \A i \in 0 .. n : Skipped(i)
  <2>1. 0 \in T
      BY <1>1, <1>2
  <2>2. ASSUME NEW i \in 1 .. n, i - 1 \in T PROVE i \in T
    <3>0. w[i - 1] \in FoldStates /\ w[i].skip \in Nat /\ w[i - 1].skip \in Nat
        BY <1>3 DEF FoldStates
    <3>1. CASE Skips(w[i - 1], w[i])
      <4>1. w[i].skip = w[i - 1].skip - 1
          BY <3>0, <3>1 DEF Skips, FoldStates
      <4>2. ASSUME NEW d \in 1 .. w[i].skip PROVE Op(code, i + d) \in Idle /\ h[i + d] = 0
        <5>1. d + 1 \in 1 .. w[i - 1].skip /\ i - 1 + (d + 1) = i + d
            BY <4>1, <3>0
        <5>2. Skipped(i - 1)
            BY <2>2
        <5> HIDE DEF h
        <5>3. Op(code, i - 1 + (d + 1)) \in Idle /\ h[i - 1 + (d + 1)] = 0
            BY <5>1, <5>2
        <5> QED
            BY <5>1, <5>3
      <4> QED
          BY <4>2, <1>1
    <3>2. CASE TurnsCancel(w[i - 1], w[i], code, i)
      <4>1. /\ w[i].skip \in 1 .. 3 /\ Op(code, i) \in Turns
            /\ \A d \in 1 .. w[i].skip : Op(code, i + d) \in Idle
          BY <3>2 DEF TurnsCancel
      <4>2. h[i] = 0 /\ h[i + 1] = 0
          BY <4>1, IdleAt DEF Idle
      <4>3. 2 <= w[i].skip => h[i + 2] = 0
        <5>1. 2 <= w[i].skip => 1 \in 1 .. w[i].skip /\ i + 1 + 1 = i + 2
            BY <3>0
        <5> HIDE DEF h
        <5>2. ASSUME Op(code, i + 1) \in Idle PROVE h[i + 1 + 1] = 0
            BY <4>2, <5>2, IdleAt DEF h
        <5> QED
            BY <5>1, <5>2, <4>1
      <4>4. 3 <= w[i].skip => h[i + 3] = 0
        <5>1. 3 <= w[i].skip => 2 \in 1 .. w[i].skip /\ 2 <= w[i].skip /\ i + 2 + 1 = i + 3
            BY <3>0
        <5> HIDE DEF h
        <5>2. ASSUME Op(code, i + 2) \in Idle, h[i + 2] = 0 PROVE h[i + 2 + 1] = 0
            BY <5>2, IdleAt DEF h
        <5> QED
            BY <5>1, <5>2, <4>1, <4>3
      <4>5. ASSUME NEW d \in 1 .. w[i].skip PROVE h[i + d] = 0
        <5>1. d = 1 \/ (d = 2 /\ 2 <= w[i].skip) \/ (d = 3 /\ 3 <= w[i].skip)
            BY <4>1
        <5> HIDE DEF h
        <5> QED
            BY <5>1, <4>2, <4>3, <4>4
      <4> QED
          BY <4>1, <4>5, <1>1
    <3>3. CASE TurnLeaves(w[i - 1], w[i], code, i)
      <4>1. w[i].skip = 0
          BY <3>3 DEF TurnLeaves
      <4> QED
          BY <4>1, <1>1
    <3> QED
        BY <3>1, <3>2, <3>3, <1>3
  <2> HIDE DEF T
  <2>3. 0 .. n \subseteq T
      BY <2>1, <2>2, <1>1, UpTo
  <2> QED
      BY <2>3 DEF T
<1>6. ASSUME NEW i \in 1 .. n, ~ Remains(K, i) PROVE Op(code, i) \in Idle /\ h[i] = 0
  <2>1. Skips(w[i - 1], w[i]) \/ TurnsCancel(w[i - 1], w[i], code, i)
      BY <1>3, <1>4, <1>6
  <2>2. CASE Skips(w[i - 1], w[i])
    <3>1. w[i - 1].skip \in Nat /\ w[i - 1].skip > 0 /\ i - 1 \in 0 .. n /\ i - 1 + 1 = i
        BY <2>2, <1>1, <1>3 DEF Skips, FoldStates
    <3>2. 1 \in 1 .. w[i - 1].skip /\ Skipped(i - 1)
        BY <3>1, <1>5
    <3> HIDE DEF h
    <3>3. Op(code, i - 1 + 1) \in Idle /\ h[i - 1 + 1] = 0
        BY <3>2
    <3> QED
        BY <3>1, <3>3
  <2>3. CASE TurnsCancel(w[i - 1], w[i], code, i)
    <3>1. Op(code, i) \in Turns
        BY <2>3 DEF TurnsCancel
    <3> QED
        BY <3>1, IdleAt DEF Idle
  <2> QED
      BY <2>1, <2>2, <2>3
<1>7. ASSUME NEW i \in 1 .. n, ~ Remains(K, i)
      PROVE  /\ i \in f + 1 .. n - 2 /\ ~ IsLabel(code[i]) /\ code[i].opcode # "Jump"
             /\ h[i] = 0 /\ h[i + 1] = 0
  <2>1. Op(code, i) \in Idle /\ h[i] = 0
      BY <1>6, <1>7
  <2>2. i \in f + 1 .. n - 2 /\ ~ IsLabel(code[i]) /\ h[i + 1] = 0
      BY <2>1, IdleAt
  <2>3. code[i].opcode # "Jump"
      BY <2>1, <1>1 DEF Idle, Turns
  <2> QED
      BY <2>1, <2>2, <2>3
<1>8. Leaves(code, K, out)
  <2>1. \A i \in Fixed(code) : Remains(K, i)
    <3> TAKE i \in Fixed(code)
    <3>1. i \in 1 .. n /\ i \notin f + 1 .. n - 2
        BY <1>1 DEF Fixed
    <3> QED
        BY <3>1, <1>1, <1>7
  <2>2. ASSUME NEW i \in 1 .. n, Op(code, i) \in Branches PROVE Remains(K, GoesTo(code, i))
    <3>1. GoesTo(code, i) \in 1 .. n /\ IsLabel(code[GoesTo(code, i)])
        BY <2>2, <1>1, IrGoesTo
    <3> QED
        BY <3>1, <1>7
  <2>3. ASSUME NEW i \in 1 .. n, Op(code, i) = "Stop" PROVE Remains(K, i + 1)
    <3>1. i \in f + 1 .. n - 2
      <4>1. Op(code, i) \notin Entities \cup {"BeginTick", "EndTick", "World", "Label", "Jump"}
          BY <2>3 DEF Entities
      <4> QED
          BY <4>1, <1>1, IrPlaces, IrShape
    <3>2. i + 1 \in 1 .. n /\ Op(code, i + 1) = "Jump"
        BY <3>1, <2>3, <1>1, IrShape
    <3>3. code[i + 1].opcode = "Jump"
        BY <3>2, <1>1
    <3> QED
        BY <3>2, <3>3, <1>7
  <2> HIDE DEF out
  <2> QED
      BY <2>1, <2>2, <2>3, <1>4 DEF Leaves, n
<1>9. LeavesHeights(code, K, G)
  <2> SUFFICES ASSUME NEW i \in 1 .. n
               PROVE  IF Remains(K, i) THEN G[i - 1] = h[i] /\ (i < n => G[i] = h[i + 1])
                      ELSE G[i] = G[i - 1]
      BY DEF LeavesHeights, n, h
  <2>1. i \in 0 .. n /\ i - 1 \in 0 .. n /\ i - 1 + 1 = i /\ i - 1 < n
      BY <1>1
  <2>2. G[i - 1] = h[i] /\ (i < n => G[i] = h[i + 1])
      BY <2>1
  <2> HIDE DEF G, h
  <2>3. ~ Remains(K, i) => i < n /\ h[i] = 0 /\ h[i + 1] = 0
      BY <1>1, <1>7
  <2> QED
      BY <2>2, <2>3
<1> QED
    BY <1>2, <1>8, <1>9 DEF IsRest

LEMMA TurnKeeps ==
    ASSUME NEW code, Shaped(code)
    PROVE  /\ Shaped(eliminate_redundant_turn_pairs(code))
           /\ SameStart(code, eliminate_redundant_turn_pairs(code))
<1>1. PICK K, G : IsRest(code, K, G, eliminate_redundant_turn_pairs(code))
    BY TurnRest
<1> QED
    BY <1>1, RestIsShaped, RestSameStart

LEMMA TurnTrap == eliminate_redundant_turn_pairs(<<Trap>>) = <<Trap>>
<1> DEFINE code == <<Trap>>
<1>1. code \in Seq(IrInstructions) /\ Len(code) = 1 /\ Append(<< >>, code[1]) = <<Trap>>
      /\ Op(code, 1) = "Trap"
    BY TrapIsCode
<1> HIDE DEF code
<1>2. PICK w \in [0 .. Len(code) -> FoldStates] :
         /\ w[0] = [output |-> << >>, skip |-> 0]
         /\ \A i \in 1 .. Len(code) : w[i] = turn_at(w[i - 1], code, i)
         /\ eliminate_redundant_turn_pairs(code) = w[Len(code)].output
    BY <1>1, TurnWalk
<1>3. w[0] \in FoldStates /\ w[1] = turn_at(w[0], code, 1) /\ 1 \in 1 .. Len(code)
      /\ w[0].skip = 0 /\ w[0].output = << >>
    BY <1>1, <1>2
<1>4. Skips(w[0], w[1]) \/ TurnsCancel(w[0], w[1], code, 1) \/ TurnLeaves(w[0], w[1], code, 1)
    BY <1>1, <1>3, TurnStep
<1>5. w[1].output = <<Trap>>
    BY <1>1, <1>3, <1>4 DEF Skips, TurnsCancel, TurnLeaves, Turns
<1> QED
    BY <1>1, <1>2, <1>5 DEF code

-----------------------------------------------------------------------------
(* Branches on a constant.                                                  *)

BranchStates == [output : Seq(IrInstructions), dropped : SUBSET Nat, next : Nat]

LEMMA MaxOfTwo ==
    ASSUME NEW a \in Nat, NEW b \in Nat
    PROVE  Max({a, b}) = IF a >= b THEN a ELSE b
<1>1. Max({a, b}) = CHOOSE x \in {a, b} : \A y \in {a, b} : x >= y
    BY DEF Max
<1>2. CASE a >= b
  <2>1. \A x \in {a, b} : (\A y \in {a, b} : x >= y) <=> x = a
      BY <1>2
  <2> QED
      BY <1>1, <1>2, <2>1
<1>3. CASE ~ (a >= b)
  <2>1. \A x \in {a, b} : (\A y \in {a, b} : x >= y) <=> x = b
      BY <1>3
  <2> QED
      BY <1>1, <1>3, <2>1
<1> QED
    BY <1>2, <1>3

BranchDrops(done, next, i) ==
    i < done.next /\ i \in done.dropped /\ next = done

BranchLeaves(done, next, code, i) ==
    /\ ~ (i < done.next /\ i \in done.dropped)
    /\ next.output = Append(done.output, code[i])
    /\ next.dropped = done.dropped /\ next.next = done.next

\* What is dropped of a constant branch at i, and where it ends: the then-branch of
\* a false one, the condition and the else-branch of a true one, or the condition.
OnConstant(code, i) == Op(code, i) = "PushBool" /\ Op(code, i + 1) = "JumpIfFalse"

Resolves(code, i, dropped, next) ==
    LET else_index == GoesTo(code, i + 1)
        end_index == GoesTo(code, else_index - 1)
    IN  \/ dropped = i .. else_index - 1 /\ next = else_index
        \/ /\ else_index > i + 2 /\ Op(code, else_index - 1) = "Jump" /\ end_index # 0
           /\ dropped = {i, i + 1} \cup (else_index - 1 .. end_index - 1)
           /\ next = end_index
        \/ /\ dropped = {i, i + 1}
           /\ next = IF i + 2 >= else_index THEN i + 2 ELSE else_index

BranchResolves(done, next, code, i) ==
    /\ ~ (i < done.next)
    /\ next.output = done.output
    /\ OnConstant(code, i) /\ GoesTo(code, i + 1) # 0
    /\ Resolves(code, i, next.dropped, next.next)

LEMMA BranchStep ==
    ASSUME NEW code \in Seq(IrInstructions), NEW done \in BranchStates,
           NEW i \in 1 .. Len(code)
    PROVE  /\ \/ BranchDrops(done, branch_at(done, code, i), i)
              \/ BranchLeaves(done, branch_at(done, code, i), code, i)
              \/ BranchResolves(done, branch_at(done, code, i), code, i)
           /\ branch_at(done, code, i) \in BranchStates
<1> DEFINE e == GoesTo(code, i + 1)
           q == GoesTo(code, e - 1)
           constant == Op(code, i) = "PushBool" /\ Op(code, i + 1) = "JumpIfFalse" /\ e # 0
           has_else == e > i + 2 /\ Op(code, e - 1) = "Jump" /\ q # 0
           next == branch_at(done, code, i)
<1>1. /\ code[i] \in IrInstructions /\ done.output \in Seq(IrInstructions)
      /\ done.dropped \in SUBSET Nat /\ done.next \in Nat /\ i \in Nat
      /\ done = [output |-> done.output, dropped |-> done.dropped, next |-> done.next]
    BY DEF BranchStates
<1>2. Append(done.output, code[i]) \in Seq(IrInstructions)
    BY <1>1, Appended
<1>3. e \in Nat /\ q \in Nat
  <2>1. e \in 0 .. Len(code) /\ q \in 0 .. Len(code)
      BY LabelFound DEF GoesTo
  <2> HIDE DEF e, q
  <2> QED
      BY <2>1
<1>4. next =
         IF i < done.next /\ i \in done.dropped THEN done
         ELSE IF i < done.next \/ ~ constant
         THEN [done EXCEPT !.output = Append(@, code[i])]
         ELSE IF ~ code[i].bool_value
         THEN [done EXCEPT !.dropped = i .. e - 1, !.next = e]
         ELSE IF has_else
         THEN [done EXCEPT !.dropped = {i, i + 1} \cup (e - 1 .. q - 1), !.next = q]
         ELSE [done EXCEPT !.dropped = {i, i + 1}, !.next = Max({i + 2, e})]
    BY DEF branch_at
<1> HIDE DEF next
<1>5. CASE i < done.next /\ i \in done.dropped
    BY <1>4, <1>5 DEF BranchDrops, next
<1>6. CASE ~ (i < done.next /\ i \in done.dropped) /\ (i < done.next \/ ~ constant)
  <2>1. next = [output |-> Append(done.output, code[i]), dropped |-> done.dropped,
                next |-> done.next]
    <3>1. next = [done EXCEPT !.output = Append(@, code[i])]
        BY <1>4, <1>6
    <3> QED
        BY <3>1, <1>1
  <2>2. BranchLeaves(done, next, code, i) /\ next \in BranchStates
      BY <2>1, <1>1, <1>2, <1>6 DEF BranchLeaves, BranchStates
  <2> QED
      BY <2>2 DEF next
<1>7. ASSUME ~ (i < done.next), constant,
             NEW d \in SUBSET Nat, NEW x \in Nat, Resolves(code, i, d, x),
             next = [done EXCEPT !.dropped = d, !.next = x]
      PROVE  BranchResolves(done, next, code, i) /\ next \in BranchStates
  <2>1. next = [output |-> done.output, dropped |-> d, next |-> x]
      BY <1>1, <1>7
  <2>2. next.output = done.output /\ next.dropped = d /\ next.next = x /\ next \in BranchStates
      BY <2>1, <1>1 DEF BranchStates
  <2> QED
      BY <2>2, <1>7 DEF BranchResolves, OnConstant
<1>8. CASE ~ (i < done.next) /\ constant /\ ~ code[i].bool_value
  <2>1. next = [done EXCEPT !.dropped = i .. e - 1, !.next = e]
      BY <1>4, <1>8
  <2>2. i .. e - 1 \in SUBSET Nat /\ Resolves(code, i, i .. e - 1, e)
      BY <1>3, <1>1 DEF Resolves
  <2> QED
      BY <2>1, <2>2, <1>3, <1>7, <1>8 DEF next
<1>9. CASE ~ (i < done.next) /\ constant /\ code[i].bool_value /\ has_else
  <2>1. next = [done EXCEPT !.dropped = {i, i + 1} \cup (e - 1 .. q - 1), !.next = q]
      BY <1>4, <1>9
  <2>2. {i, i + 1} \cup (e - 1 .. q - 1) \in SUBSET Nat
    <3>1. e > i + 2
        BY <1>9
    <3> HIDE DEF e, q
    <3> QED
        BY <3>1, <1>3, <1>1
  <2>3. Resolves(code, i, {i, i + 1} \cup (e - 1 .. q - 1), q)
      BY <1>9 DEF Resolves
  <2> QED
      BY <2>1, <2>2, <2>3, <1>3, <1>7, <1>9 DEF next
<1>10. CASE ~ (i < done.next) /\ constant /\ code[i].bool_value /\ ~ has_else
  <2>1. next = [done EXCEPT !.dropped = {i, i + 1}, !.next = Max({i + 2, e})]
      BY <1>4, <1>10
  <2>2. Max({i + 2, e}) = IF i + 2 >= e THEN i + 2 ELSE e
    <3> HIDE DEF e
    <3>1. i + 2 \in Nat /\ e \in Nat
        BY <1>1, <1>3
    <3> QED
        BY <3>1, MaxOfTwo
  <2>3. {i, i + 1} \in SUBSET Nat /\ Max({i + 2, e}) \in Nat
    <3> HIDE DEF e
    <3> QED
        BY <2>2, <1>1, <1>3
  <2>4. Resolves(code, i, {i, i + 1}, Max({i + 2, e}))
      BY <2>2 DEF Resolves
  <2> QED
      BY <2>1, <2>3, <2>4, <1>7, <1>10 DEF next
<1> QED
    BY <1>5, <1>6, <1>8, <1>9, <1>10

\* The states of the pass, one after each instruction.
LEMMA BranchWalk ==
    ASSUME NEW code \in Seq(IrInstructions)
    PROVE  \E w \in [0 .. Len(code) -> BranchStates] :
              /\ w[0] = [output |-> << >>, dropped |-> {}, next |-> 1]
              /\ \A i \in 1 .. Len(code) : w[i] = branch_at(w[i - 1], code, i)
              /\ eliminate_dead_branches(code) = w[Len(code)].output
<1> DEFINE n == Len(code)
           Def(f) == f = [i \in 0 .. n |->
                            IF i = 0 THEN [output |-> << >>, dropped |-> {}, next |-> 1]
                            ELSE branch_at(f[i - 1], code, i)]
           step == [i \in 1 .. n |-> [s \in BranchStates |-> branch_at(s, code, i)]]
           g == CHOOSE f : Def(f)
<1>1. n \in Nat /\ [output |-> << >>, dropped |-> {}, next |-> 1] \in BranchStates
    BY DEF BranchStates
<1>2. \A i \in 1 .. n, s \in BranchStates : branch_at(s, code, i) \in BranchStates
    BY BranchStep
<1>3. /\ step \in [1 .. n -> [BranchStates -> BranchStates]]
      /\ \A i \in 1 .. n, s \in BranchStates : step[i][s] = branch_at(s, code, i)
    BY <1>2
<1> HIDE DEF step, n
<1>4. PICK w : IsWalk(w, n, BranchStates, [output |-> << >>, dropped |-> {}, next |-> 1], step)
    BY <1>1, <1>3, WalkExists
<1>5. /\ w \in [0 .. n -> BranchStates] /\ w[0] = [output |-> << >>, dropped |-> {}, next |-> 1]
      /\ \A i \in 1 .. n : w[i] = step[i][w[i - 1]]
    BY <1>4 DEF IsWalk
<1>6. \A i \in 1 .. n : w[i] = branch_at(w[i - 1], code, i)
  <2> TAKE i \in 1 .. n
  <2>1. w[i - 1] \in BranchStates
      BY <1>1, <1>5
  <2> QED
      BY <2>1, <1>3, <1>5
<1>7. Def(w)
    BY <1>1, <1>5, <1>6
<1>8. Def(g)
    BY <1>7
<1>9. eliminate_dead_branches(code) = g[n].output
    BY DEF eliminate_dead_branches, n
<1> HIDE DEF g
<1>10. /\ g[0] = [output |-> << >>, dropped |-> {}, next |-> 1]
       /\ \A i \in 1 .. n : g[i] = branch_at(g[i - 1], code, i)
  <2>1. 0 \in 0 .. n /\ \A i \in 1 .. n : i \in 0 .. n /\ i # 0
      BY <1>1
  <2> QED
      BY <2>1, <1>8
<1> DEFINE T == {i \in 0 .. n : g[i] \in BranchStates}
<1>11. 0 \in T /\ \A i \in 1 .. n : i - 1 \in T => i \in T
  <2>1. 0 \in T
      BY <1>1, <1>10
  <2>2. ASSUME NEW i \in 1 .. n, i - 1 \in T PROVE i \in T
    <3>1. g[i] \in BranchStates
        BY <2>2, <1>2, <1>10
    <3> QED
        BY <3>1, <1>1
  <2> QED
      BY <2>1, <2>2
<1>12. g \in [0 .. n -> BranchStates]
  <2>1. g = [i \in 0 .. n |-> g[i]]
      BY <1>8
  <2>2. 0 .. n \subseteq T
      BY <1>1, <1>11, UpTo
  <2> QED
      BY <2>1, <2>2
<1> QED
    BY <1>9, <1>10, <1>12 DEF n

\* A constant branch is among the behaviours, and so is what is dropped of it.
LEMMA Resolved ==
    ASSUME NEW code, Shaped(code), NEW p \in 1 .. Len(code), OnConstant(code, p),
           NEW d, NEW x, Resolves(code, p, d, x)
    PROVE  LET n == Len(code)
               f == TickBegin(code)
               e == GoesTo(code, p + 1)
               q == GoesTo(code, e - 1)
           IN
           /\ n \in Nat /\ f \in Nat /\ p \in Nat /\ p > f /\ p + 1 \in IrJumps(code)
           /\ e \in Nat /\ e >= p + 2 /\ e <= n - 2 /\ Op(code, e) = "Label"
           /\ x \in Nat /\ x <= n - 2 /\ d \subseteq p .. x - 1
           /\ \/ d = p .. e - 1
              \/ /\ e - 1 \in IrJumps(code) /\ Op(code, e - 1) = "Jump"
                 /\ q \in Nat /\ q >= e /\ q <= n - 2 /\ Op(code, q) = "Label"
                 /\ e > p + 2 /\ d = {p, p + 1} \cup (e - 1 .. q - 1)
              \/ d = {p, p + 1}
<1>0. PICK n, f, e, q : /\ n = Len(code) /\ f = TickBegin(code)
                         /\ e = GoesTo(code, p + 1) /\ q = GoesTo(code, e - 1)
    OBVIOUS
<1> DEFINE Goal == /\ n \in Nat /\ f \in Nat /\ p \in Nat /\ p > f /\ p + 1 \in IrJumps(code)
           /\ e \in Nat /\ e >= p + 2 /\ e <= n - 2 /\ Op(code, e) = "Label"
           /\ x \in Nat /\ x <= n - 2 /\ d \subseteq p .. x - 1
           /\ \/ d = p .. e - 1
              \/ /\ e - 1 \in IrJumps(code) /\ Op(code, e - 1) = "Jump"
                 /\ q \in Nat /\ q >= e /\ q <= n - 2 /\ Op(code, q) = "Label"
                 /\ e > p + 2 /\ d = {p, p + 1} \cup (e - 1 .. q - 1)
              \/ d = {p, p + 1}
<1>1. /\ code \in Seq(IrInstructions) /\ Structured(code)
      /\ n \in Nat /\ f \in Nat /\ f >= 3 /\ f <= n - 2 /\ p \in Nat
      /\ \A i \in 1 .. n : Op(code, i) = code[i].opcode
      /\ Op(code, n) = "Jump"
    BY <1>0, IrShape DEF Shaped
<1>2. /\ Op(code, p) = "PushBool" /\ Op(code, p + 1) = "JumpIfFalse"
      /\ Op(code, p + 1) \in Branches
    BY DEF OnConstant, Branches
<1>3. p + 1 \in f + 1 .. n - 2 /\ e \in p + 2 .. n - 2 /\ IsLabel(code[e])
  <2>1. p + 1 \in 1 .. n /\ p + 1 # n
      BY <1>0, <1>1, <1>2 DEF Op
  <2>2. /\ p + 1 \in f + 1 .. n - 2 /\ GoesTo(code, p + 1) \in p + 1 + 1 .. n - 2
        /\ IsLabel(code[GoesTo(code, p + 1)])
      BY <2>1, <1>0, <1>1, <1>2, IrGoesTo
  <2> QED
      BY <2>2, <1>0, <1>1
<1>4. p > f
  <2>1. Op(code, p) # "BeginTick"
      BY <1>2
  <2>2. p # f
      BY <2>1, <1>0, <1>1, IrShape
  <2> QED
      BY <2>2, <1>1, <1>3
<1>5. Op(code, e) = "Label"
    BY <1>1, <1>3 DEF IsLabel
<1>6. p + 1 \in IrJumps(code)
    BY <1>0, <1>1, <1>2, <1>3 DEF IrJumps
<1>7. ASSUME e > p + 2, Op(code, e - 1) = "Jump"
      PROVE  /\ e - 1 \in IrJumps(code)
             /\ q \in Nat /\ q >= e /\ q <= n - 2 /\ Op(code, q) = "Label"
  <2>1. e - 1 \in 1 .. n /\ e - 1 # n /\ Op(code, e - 1) \in Branches
      BY <1>1, <1>3, <1>7 DEF Branches
  <2>2. /\ e - 1 \in f + 1 .. n - 2 /\ GoesTo(code, e - 1) \in e - 1 + 1 .. n - 2
        /\ GoesTo(code, e - 1) \in 1 .. n
        /\ IsLabel(code[GoesTo(code, e - 1)])
      BY <2>1, <1>0, <1>1, IrGoesTo
  <2>3. Op(code, q) = "Label"
      BY <2>2, <1>0, <1>1 DEF IsLabel
  <2>4. e - 1 \in IrJumps(code)
      BY <2>1, <2>2, <1>0, <1>1 DEF IrJumps
  <2> QED
      BY SMTT(30), <2>2, <2>3, <2>4, <1>0, <1>1, <1>3
<1>8. ASSUME d = p .. e - 1, x = e PROVE Goal
    BY <1>1, <1>3, <1>4, <1>5, <1>6, <1>8
<1>9. ASSUME e > p + 2, Op(code, e - 1) = "Jump",
             d = {p, p + 1} \cup (e - 1 .. q - 1), x = q
      PROVE  Goal
  <2>1. /\ e - 1 \in IrJumps(code)
        /\ q \in Nat /\ q >= e /\ q <= n - 2 /\ Op(code, q) = "Label"
      BY <1>7, <1>9
  <2>2. d \subseteq p .. x - 1
      BY <2>1, <1>1, <1>3, <1>9
  <2> QED
      BY <2>1, <2>2, <1>1, <1>3, <1>4, <1>5, <1>6, <1>9
<1>10. ASSUME d = {p, p + 1}, x = IF p + 2 >= e THEN p + 2 ELSE e PROVE Goal
  <2>1. x = e
      BY <1>1, <1>3, <1>10
  <2>2. d \subseteq p .. x - 1
      BY <2>1, <1>1, <1>3, <1>10
  <2> QED
      BY <2>1, <2>2, <1>1, <1>3, <1>4, <1>5, <1>6, <1>10
<1>11. \/ d = p .. e - 1 /\ x = e
       \/ e > p + 2 /\ Op(code, e - 1) = "Jump" /\ d = {p, p + 1} \cup (e - 1 .. q - 1) /\ x = q
       \/ d = {p, p + 1} /\ x = IF p + 2 >= e THEN p + 2 ELSE e
    BY <1>0 DEF Resolves
<1>12. Goal
  <2> HIDE DEF Goal
  <2> QED
      BY <1>8, <1>9, <1>10, <1>11
<1> QED
    BY <1>0, <1>12

\* What is dropped has no stop whose jump is left, no label of a jump that is left, and
\* the stack is empty where it begins and where it ends.
LEMMA ResolvedLeaves ==
    ASSUME NEW code, Shaped(code), Nested(code),
           NEW p \in 1 .. Len(code), OnConstant(code, p),
           NEW d, NEW x, Resolves(code, p, d, x), NEW i \in 1 .. Len(code)
    PROVE  /\ i \in d => i \in TickBegin(code) + 1 .. Len(code) - 3
           /\ Op(code, i) = "Stop" /\ i + 1 \in d => i \in d
           /\ Op(code, i) \in Branches /\ GoesTo(code, i) \in d => i \in d
           /\ (i \in d) # (i + 1 \in d) => IrHeights(code)[i + 1] = 0
<1>0. PICK n, f, e, q, h : /\ n = Len(code) /\ f = TickBegin(code) /\ h = IrHeights(code)
                            /\ e = GoesTo(code, p + 1) /\ q = GoesTo(code, e - 1)
    OBVIOUS
<1>1. /\ n \in Nat /\ f \in Nat /\ p \in Nat /\ p > f /\ p + 1 \in IrJumps(code)
      /\ e \in Nat /\ e >= p + 2 /\ e <= n - 2 /\ Op(code, e) = "Label"
      /\ x \in Nat /\ x <= n - 2 /\ d \subseteq p .. x - 1
      /\ \/ d = p .. e - 1
         \/ /\ e - 1 \in IrJumps(code) /\ Op(code, e - 1) = "Jump"
            /\ q \in Nat /\ q >= e /\ q <= n - 2 /\ Op(code, q) = "Label"
            /\ e > p + 2 /\ d = {p, p + 1} \cup (e - 1 .. q - 1)
         \/ d = {p, p + 1}
    BY <1>0, Resolved
<1>9. /\ n \in Nat /\ f \in Nat /\ p \in Nat /\ p > f /\ e \in Nat /\ e >= p + 2 /\ e <= n - 2
      /\ x \in Nat /\ x <= n - 2 /\ i \in Nat /\ i >= 1 /\ i <= n
    BY <1>0, <1>1
<1>2. /\ code \in Seq(IrInstructions) /\ Structured(code) /\ Level(code)
      /\ f >= 3 /\ f <= n - 2 /\ i \in Nat
      /\ \A k \in 1 .. n : Op(code, k) = code[k].opcode
    BY <1>0, IrShape DEF Shaped
<1>3. Op(code, p) = "PushBool" /\ Op(code, p + 1) = "JumpIfFalse"
    BY DEF OnConstant
<1> DEFINE Else == /\ e - 1 \in IrJumps(code) /\ Op(code, e - 1) = "Jump"
                   /\ q \in Nat /\ q >= e /\ q <= n - 2 /\ Op(code, q) = "Label"
                   /\ e > p + 2 /\ d = {p, p + 1} \cup (e - 1 .. q - 1)
<1>10. ASSUME Else
       PROVE  /\ q \in Nat /\ q >= e /\ q <= n - 2 /\ e > p + 2
              /\ \A k \in Nat : k \in d <=> k = p \/ k = p + 1 \/ (e - 1 <= k /\ k <= q - 1)
    BY <1>9, <1>10
<1>11. ASSUME d = p .. e - 1
       PROVE  \A k \in Nat : k \in d <=> p <= k /\ k <= e - 1
    BY <1>9, <1>11
<1>4. Else => Op(code, e - 2) # "Stop"
  <2> SUFFICES ASSUME Else, Op(code, e - 2) = "Stop" PROVE FALSE
      OBVIOUS
  <2>1. e - 1 - 1 = e - 2 /\ e - 1 + 1 = e
      BY <1>1
  <2>2. Op(code, e) = "Pop"
    <3>1. Op(code, e - 1 + 1) = "Pop"
      <4>1. e - 1 \in IrJumps(code) /\ Op(code, e - 1) = "Jump" /\ Op(code, e - 1 - 1) = "Stop"
          BY <2>1
      <4> QED
          BY <1>0, <4>1, NestedIs
    <3> QED
        BY <3>1, <2>1
  <2> QED
      BY <2>2, <1>1
<1>5. i \in d => i \in f + 1 .. n - 3
  <2> QED
      BY <1>1
<1>6. ASSUME Op(code, i) = "Stop", i + 1 \in d PROVE i \in d
  <2>1. i + 1 \in 1 .. n /\ Op(code, i + 1) = "Jump"
    <3>1. Op(code, i) \notin Entities \cup {"BeginTick", "EndTick", "World", "Label", "Jump"}
        BY <1>6 DEF Entities
    <3>2. i \in f + 1 .. n - 2
      <4>1. Op(code, f - 1) = "Label" /\ Op(code, n) = "Jump"
          BY <1>0, <1>2, IrShape
      <4>2. i # f - 1 /\ i # n
          BY <3>1, <4>1
      <4> QED
          BY <1>0, <3>1, <4>2, <1>2, IrPlaces
    <3> QED
        BY <1>0, <3>2, <1>2, <1>6, IrShape
  <2>2. i + 1 # p /\ i + 1 # p + 1
      BY <2>1, <1>3
  <2> HIDE DEF Else
  <2>3. CASE d = p .. e - 1
      BY <2>2, <2>3, <1>1, <1>2, <1>6
  <2>4. CASE Else
    <3>1. i + 1 # e - 1
      <4>1. i + 1 = e - 1 => i = e - 2
          BY <1>9
      <4> QED
          BY <4>1, <2>4, <1>4, <1>6
    <3>2. /\ i + 1 \in d => i + 1 = p \/ i + 1 = p + 1 \/ (e - 1 <= i + 1 /\ i + 1 <= q - 1)
          /\ e - 1 <= i /\ i <= q - 1 => i \in d
      <4>1. i + 1 \in Nat
          BY <1>9
      <4> QED
          BY <4>1, <2>4, <1>9, <1>10
    <3>3. q \in Nat
        BY <2>4, <1>10
    <3> QED
        BY <3>1, <3>2, <3>3, <2>2, <1>6, <1>9
  <2>5. CASE d = {p, p + 1}
      BY <2>2, <2>5, <1>6
  <2> QED
      BY <2>3, <2>4, <2>5, <1>1 DEF Else
<1>7. ASSUME Op(code, i) \in Branches, GoesTo(code, i) \in d, i \notin d PROVE FALSE
  <2> DEFINE L == GoesTo(code, i)
  <2>1. L \in 1 .. n /\ IsLabel(code[L]) /\ (i = n \/ i \in f + 1 .. n - 2)
        /\ (i # n => L \in i + 1 .. n - 2)
      BY <1>0, <1>2, <1>7, IrGoesTo
  <2>2. Op(code, L) = "Label" /\ L \in Nat
    <3> HIDE DEF L
    <3> QED
        BY <2>1, <1>2 DEF IsLabel
  <2>3. i # n
    <3>1. L \in d /\ L \in p .. x - 1
        BY <1>1, <1>7
    <3>2. i = n => L = f - 1
        BY <1>0, <1>2, IrShape
    <3> HIDE DEF L
    <3> QED
        BY <3>1, <3>2, <1>1, <1>2
  <2>4. i \in IrJumps(code) /\ i < L
    <3> HIDE DEF L
    <3> QED
        BY SMTT(30), <1>0, <2>1, <2>2, <2>3, <1>2, <1>7, <1>9 DEF IrJumps
  <2>5. L # p /\ L # p + 1
      BY <2>2, <1>3
  <2>6. i # p + 1 => L # e /\ (i < p + 1 => L \notin p + 2 .. e)
    <3>1. \A k, j \in IrJumps(code) :
             k # j /\ Op(code, k) = "JumpIfFalse" =>
                    /\ GoesTo(code, j) # GoesTo(code, k)
                    /\ j < k => GoesTo(code, j) \notin k + 1 .. GoesTo(code, k)
        BY <1>0, NestedIs
    <3>2. p + 1 + 1 = p + 2
        BY <1>1
    <3> QED
        BY <3>1, <3>2, <2>4, <1>0, <1>1, <1>3
  <2>7. CASE d = p .. e - 1
    <3> HIDE DEF L, Else
    <3>1. /\ i \in Nat /\ L \in Nat /\ p <= L /\ L <= e - 1
          /\ ~ (p <= i /\ i <= e - 1)
      <4>1. \A k \in Nat : k \in d <=> p <= k /\ k <= e - 1
          BY <2>7, <1>11
      <4>2. L \in d
          BY <1>7 DEF L
      <4> QED
          BY <4>1, <4>2, <2>2, <1>7, <1>9
    <3>2. i < p + 1 /\ i # p + 1 /\ L \in p + 2 .. e
        BY <3>1, <2>4, <2>5, <1>9
    <3> QED
        BY <3>2, <2>6
  <2>8. CASE Else
    <3>1. ASSUME i < e - 1 PROVE L \notin e + 1 .. q - 1
      <4>1. \A k \in IrJumps(code) :
                 Op(code, k) = "Jump" /\ Op(code, k - 1) # "Stop" =>
                       \A j \in IrJumps(code) : j < k =>
                            GoesTo(code, j) \notin k + 2 .. GoesTo(code, k) - 1
          BY <1>0, NestedIs
      <4>2. e - 1 \in IrJumps(code) /\ Op(code, e - 1) = "Jump" /\ Op(code, e - 1 - 1) # "Stop"
        <5>1. e - 1 - 1 = e - 2
            BY <1>1
        <5> QED
            BY <5>1, <2>8, <1>4
      <4>3. L \notin e - 1 + 2 .. q - 1
        <5> QED
            BY <4>1, <4>2, <3>1, <2>4, <1>0
      <4>4. e - 1 + 2 = e + 1
          BY <1>1
      <4> QED
          BY <4>3, <4>4
    <3>2. L # e - 1
        BY <2>2, <2>8
    <3> HIDE DEF L
    <3>3. /\ q \in Nat /\ i \in Nat /\ L \in Nat /\ e - 1 <= L /\ L <= q - 1
          /\ ~ (e - 1 <= i /\ i <= q - 1) /\ i # p + 1
      <4>1. q \in Nat /\ \A k \in Nat : k \in d <=> k = p \/ k = p + 1 \/ (e - 1 <= k /\ k <= q - 1)
          BY <2>8, <1>10
      <4>2. L \in d
          BY <1>7 DEF L
      <4> QED
          BY <4>1, <4>2, <2>2, <2>5, <1>7, <1>9
    <3>4. e <= L /\ i < e - 1
        BY <3>2, <3>3, <2>4, <1>9
    <3>5. L # e
        BY <3>3, <2>6
    <3>6. L \in e + 1 .. q - 1
        BY <3>3, <3>4, <3>5, <1>9
    <3> QED
        BY <3>1, <3>4, <3>6
  <2>9. CASE d = {p, p + 1}
      BY <2>5, <2>9, <1>7
  <2> QED
      BY <2>7, <2>8, <2>9, <1>1
<1>8. ASSUME (i \in d) # (i + 1 \in d) PROVE h[i + 1] = 0
  <2>1. \A k \in 1 .. n :
           /\ h[k] \in Nat
           /\ Op(code, k) \in {"Jump", "Label"} => h[k] = 0
           /\ Op(code, k) = "JumpIfFalse" => h[k] = 1
           /\ k < n => h[k + 1] = IrHeightAfter(Op(code, k), h[k])
    <3> TAKE k \in 1 .. n
    <3>1. /\ h[k] \in Nat
          /\ code[k].opcode \in Clean \cup Turns \cup {"Label"} => h[k] = 0
          /\ code[k].opcode = "JumpIfFalse" => h[k] = 1
          /\ k < n => h[k + 1] = IrHeightAfter(code[k].opcode, h[k])
        BY <1>0, <1>2, IrLevel
    <3>2. Op(code, k) = code[k].opcode
        BY <1>2
    <3> QED
        BY <3>1, <3>2 DEF Clean
  <2>2. p \in 1 .. n /\ p < n /\ p + 1 \in 1 .. n /\ p + 1 < n /\ p + 1 + 1 = p + 2
    <3> HIDE DEF Else
    <3> QED
        BY <1>1, <1>2
  <2>3. h[p] = 0
    <3>1. h[p] \in Nat /\ h[p + 1] = 1 /\ h[p + 1] = IrHeightAfter("PushBool", h[p])
        BY <2>1, <2>2, <1>3
    <3>2. IrHeightAfter("PushBool", h[p]) = h[p] + 1
        BY <3>1, PushHeight DEF Pushes
    <3> QED
        BY <3>1, <3>2
  <2>4. h[p + 2] = 0
    <3>1. h[p + 1] = 1 /\ h[p + 2] = IrHeightAfter("JumpIfFalse", h[p + 1])
        BY <2>1, <2>2, <1>3
    <3>2. IrHeightAfter("JumpIfFalse", 1) = 0
      <4>1. CompiledOpcode("JumpIfFalse") = "JumpIfFalse"
          BY DEF CompiledOpcode, Renamed
      <4>2. "JumpIfFalse" \notin Pushing /\ Pops("JumpIfFalse") = 1
          BY DEF Pushing, Pops, ArithOps, CompareOps, EqualityOps
      <4> QED
          BY <4>1, <4>2 DEF IrHeightAfter, HeightAfter
    <3> QED
        BY <3>1, <3>2
  <2>5. h[e] = 0
    <3>1. e \in 1 .. n
        BY <1>1, <1>2
    <3> QED
        BY <3>1, <2>1, <1>1
  <2>6. Else => h[e - 1] = 0 /\ h[q] = 0
    <3> SUFFICES ASSUME Else PROVE h[e - 1] = 0 /\ h[q] = 0
        OBVIOUS
    <3>1. e - 1 \in 1 .. n /\ q \in 1 .. n
      <4>1. q \in Nat /\ q >= e /\ q <= n - 2
          OBVIOUS
      <4> QED
          BY <4>1, <1>1, <1>2
    <3> QED
        BY <3>1, <2>1
  <2>7. i + 1 = p \/ i + 1 = p + 2 \/ i + 1 = e \/ (Else /\ (i + 1 = e - 1 \/ i + 1 = q))
    <3> HIDE DEF Else
    <3>0. i \in Nat /\ i + 1 \in Nat
        BY <1>9
    <3>1. CASE d = p .. e - 1
      <4>1. \A k \in Nat : k \in d <=> p <= k /\ k <= e - 1
          BY <3>1, <1>11
      <4> QED
          BY <4>1, <3>0, <1>8, <1>9
    <3>2. CASE Else
      <4>1. q \in Nat /\ \A k \in Nat : k \in d <=> k = p \/ k = p + 1 \/ (e - 1 <= k /\ k <= q - 1)
          BY <3>2, <1>10
      <4>2. \/ i = p \/ i = p + 1 \/ (e - 1 <= i /\ i <= q - 1)
            \/ i + 1 = p \/ i + 1 = p + 1 \/ (e - 1 <= i + 1 /\ i + 1 <= q - 1)
          BY <4>1, <3>0, <1>8
      <4>3. i \in d <=> i = p \/ i = p + 1 \/ (e - 1 <= i /\ i <= q - 1)
          BY <4>1, <3>0
      <4>4. i + 1 \in d <=> i + 1 = p \/ i + 1 = p + 1 \/ (e - 1 <= i + 1 /\ i + 1 <= q - 1)
          BY <4>1, <3>0
      <4>5. i + 1 = p \/ i + 1 = p + 2 \/ i + 1 = e - 1 \/ i + 1 = q
          BY <4>1, <4>3, <4>4, <3>0, <1>8, <1>9
      <4> QED
          BY <4>5, <3>2
    <3>3. CASE d = {p, p + 1}
        BY <3>3, <1>1, <1>2, <1>8
    <3> QED
        BY <3>1, <3>2, <3>3, <1>1 DEF Else
  <2> HIDE DEF Else
  <2> QED
      BY <2>3, <2>4, <2>5, <2>6, <2>7
<1> QED
    BY <1>0, <1>5, <1>6, <1>7, <1>8

LEMMA BranchRest ==
    ASSUME NEW code, Shaped(code), Nested(code)
    PROVE  \E K, G : IsRest(code, K, G, eliminate_dead_branches(code))
<1>0. PICK n, f, h : n = Len(code) /\ f = TickBegin(code) /\ h = IrHeights(code)
    OBVIOUS
<1>1. /\ code \in Seq(IrInstructions) /\ Structured(code) /\ Level(code)
      /\ n \in Nat /\ f \in Nat /\ f >= 3 /\ f <= n - 2
    BY <1>0, IrShape DEF Shaped
<1>2. PICK w \in [0 .. n -> BranchStates] :
         /\ w[0] = [output |-> << >>, dropped |-> {}, next |-> 1]
         /\ \A i \in 1 .. n : w[i] = branch_at(w[i - 1], code, i)
         /\ eliminate_dead_branches(code) = w[n].output
    BY <1>0, <1>1, BranchWalk
<1>3. ASSUME NEW i \in 1 .. n
      PROVE  /\ w[i - 1] \in BranchStates /\ w[i] \in BranchStates
             /\ \/ BranchDrops(w[i - 1], w[i], i) \/ BranchLeaves(w[i - 1], w[i], code, i)
                \/ BranchResolves(w[i - 1], w[i], code, i)
  <2>1. w[i - 1] \in BranchStates /\ w[i] \in BranchStates
    <3>1. i - 1 \in 0 .. n /\ i \in 0 .. n
        BY <1>1
    <3> QED
        BY <3>1, <1>2
  <2>2. w[i] = branch_at(w[i - 1], code, i) /\ i \in 1 .. Len(code)
      BY <1>0, <1>2
  <2> QED
      BY <2>1, <2>2, <1>1, BranchStep
<1> DEFINE o == [i \in 0 .. n |-> w[i].output]
           K == Lengths(o, n)
           out == w[n].output
           G == [i \in 0 .. n |-> IF i < n /\ Remains(K, i + 1) THEN h[i + 1] ELSE 0]
<1>4. /\ Counting(K, n) /\ K[n] = Len(out) /\ out \in Seq(IrInstructions)
      /\ \A i \in 1 .. n :
            /\ Remains(K, i) => out[K[i]] = code[i]
            /\ BranchLeaves(w[i - 1], w[i], code, i) => Remains(K, i)
            /\ BranchDrops(w[i - 1], w[i], i) => ~ Remains(K, i)
            /\ BranchResolves(w[i - 1], w[i], code, i) => ~ Remains(K, i)
  <2>1. \A i \in 0 .. n : w[i].output \in Seq(IrInstructions)
      BY <1>2 DEF BranchStates
  <2>2. /\ o \in [0 .. n -> Seq(IrInstructions)] /\ o[0] = << >> /\ o[n] = out
        /\ \A i \in 1 .. n : o[i] = w[i].output /\ o[i - 1] = w[i - 1].output
        /\ K = Lengths(o, n)
      BY <1>1, <1>2, <2>1
  <2> HIDE DEF o, K, out
  <2>3. ASSUME NEW i \in 1 .. n
        PROVE  /\ o[i] = o[i - 1] \/ o[i] = Append(o[i - 1], code[i])
               /\ BranchLeaves(w[i - 1], w[i], code, i) => o[i] = Append(o[i - 1], code[i])
               /\ BranchDrops(w[i - 1], w[i], i) => o[i] = o[i - 1]
               /\ BranchResolves(w[i - 1], w[i], code, i) => o[i] = o[i - 1]
      BY <2>2, <1>3 DEF BranchLeaves, BranchDrops, BranchResolves
  <2>4. Selecting(code, o)
      BY <2>2, <2>3, <1>0 DEF Selecting
  <2>5. Selected(code, o, K)
    <3>1. Selected(code, o, Lengths(o, Len(code)))
        BY <1>1, <2>4, Selects
    <3> QED
        BY <3>1, <2>2, <1>0
  <2> QED
      BY <2>2, <2>3, <2>5, <1>0 DEF Selected
<1> HIDE DEF K, o
\* What a branch drops is known from its first instruction on.
<1> DEFINE Begins(p) == p \in 1 .. n /\ BranchResolves(w[p - 1], w[p], code, p)
<1>5. ASSUME NEW p, Begins(p)
      PROVE  /\ p \in 1 .. n /\ OnConstant(code, p) /\ Resolves(code, p, w[p].dropped, w[p].next)
             /\ w[p].next \in Nat /\ w[p].next <= n - 2
             /\ w[p].dropped \subseteq p .. w[p].next - 1
  <2>1. p \in 1 .. n /\ OnConstant(code, p) /\ Resolves(code, p, w[p].dropped, w[p].next)
      BY <1>5 DEF BranchResolves
  <2>2. /\ w[p].next \in Nat /\ w[p].next <= Len(code) - 2
        /\ w[p].dropped \subseteq p .. w[p].next - 1
    <3>1. p \in 1 .. Len(code)
        BY <2>1, <1>0
    <3> QED
        BY <2>1, <3>1, Resolved
  <2> QED
      BY <2>1, <2>2, <1>0
<1>6. ASSUME NEW p, Begins(p), NEW i \in p .. w[p].next - 1
      PROVE  w[i].dropped = w[p].dropped /\ w[i].next = w[p].next
  <2> DEFINE Same(k) == k >= p /\ k <= w[p].next - 1 =>
                           w[k].dropped = w[p].dropped /\ w[k].next = w[p].next
             T == {k \in 0 .. n : Same(k)}
  <2>1. p \in 1 .. n /\ w[p].next \in Nat /\ w[p].next <= n - 2
      BY <1>5, <1>6
  <2>2. 0 \in T
      BY <2>1, <1>1
  <2>3. ASSUME NEW k \in 1 .. n, k - 1 \in T PROVE k \in T
    <3> SUFFICES ASSUME k >= p, k <= w[p].next - 1
                 PROVE  w[k].dropped = w[p].dropped /\ w[k].next = w[p].next
        BY <1>1
    <3>1. CASE k = p
        BY <3>1
    <3>2. CASE k # p
      <4>1. k - 1 >= p /\ k - 1 <= w[p].next - 1
          BY <3>2, <2>1
      <4>2. w[k - 1].dropped = w[p].dropped /\ w[k - 1].next = w[p].next
          BY <4>1, <2>3
      <4>3. k < w[k - 1].next
          BY <4>2, <2>1
      <4> QED
          BY <4>2, <4>3, <1>3 DEF BranchDrops, BranchLeaves, BranchResolves
    <3> QED
        BY <3>1, <3>2
  <2> HIDE DEF T
  <2>4. 0 .. n \subseteq T
      BY <2>2, <2>3, <1>1, UpTo
  <2>5. i \in T /\ i >= p /\ i <= w[p].next - 1
      BY <2>1, <2>4, <1>1
  <2> QED
      BY <2>5 DEF T
<1>7. ASSUME NEW p, Begins(p), NEW u \in w[p].dropped
      PROVE  u \in 1 .. n /\ ~ Remains(K, u)
  <2>1. /\ p \in 1 .. n /\ w[p].next \in Nat /\ w[p].next <= n - 2
        /\ u \in p .. w[p].next - 1
      BY <1>5, <1>7
  <2>2. u \in 1 .. n
      BY <2>1, <1>1
  <2>3. CASE u = p
      BY <2>2, <2>3, <1>4, <1>7
  <2>4. CASE u # p
    <3>1. u - 1 \in p .. w[p].next - 1
        BY <2>1, <2>4
    <3>2. w[u - 1].dropped = w[p].dropped /\ w[u - 1].next = w[p].next
        BY <3>1, <1>6, <1>7
    <3>3. u < w[u - 1].next /\ u \in w[u - 1].dropped
        BY <3>2, <2>1
    <3>4. BranchDrops(w[u - 1], w[u], u)
        BY <3>3, <2>2, <1>3 DEF BranchLeaves, BranchResolves
    <3> QED
        BY <3>4, <2>2, <1>4
  <2> QED
      BY <2>2, <2>3, <2>4
\* And whatever is dropped is of such a branch.
<1> DEFINE Of(i) == w[i].dropped = {} \/ \E p : Begins(p) /\ w[i].dropped = w[p].dropped
           T == {i \in 0 .. n : Of(i)}
<1>8. \A i \in 0 .. n : Of(i)
  <2>1. 0 \in T
      BY <1>1, <1>2
  <2>2. ASSUME NEW i \in 1 .. n, i - 1 \in T PROVE i \in T
    <3>1. CASE w[i].dropped = w[i - 1].dropped
        BY <3>1, <2>2, <1>1
    <3>2. CASE BranchResolves(w[i - 1], w[i], code, i)
        BY <3>2, <1>1
    <3> QED
        BY <3>1, <3>2, <1>3 DEF BranchDrops, BranchLeaves
  <2> HIDE DEF T
  <2>3. 0 .. n \subseteq T
      BY <2>1, <2>2, <1>1, UpTo
  <2> QED
      BY <2>3 DEF T
<1>9. ASSUME NEW t \in 1 .. n, ~ Remains(K, t)
      PROVE  \E p, d, x :
                /\ p \in 1 .. n /\ OnConstant(code, p) /\ Resolves(code, p, d, x) /\ t \in d
                /\ \A u \in d : u \in 1 .. n /\ ~ Remains(K, u)
  <2>1. \E p : Begins(p) /\ t \in w[p].dropped
    <3>1. CASE BranchDrops(w[t - 1], w[t], t)
      <4>1. t \in w[t - 1].dropped /\ t - 1 \in 0 .. n
          BY <3>1, <1>1 DEF BranchDrops
      <4>2. Of(t - 1)
          BY <4>1, <1>8
      <4> HIDE DEF Begins
      <4> QED
          BY <4>1, <4>2
    <3>2. CASE BranchResolves(w[t - 1], w[t], code, t)
      <4>1. Begins(t) /\ OnConstant(code, t) /\ Resolves(code, t, w[t].dropped, w[t].next)
          BY <3>2 DEF BranchResolves
      <4>2. t \in w[t].dropped
        <5>1. /\ \/ w[t].dropped = t .. GoesTo(code, t + 1) - 1
                 \/ t \in w[t].dropped
              /\ GoesTo(code, t + 1) \in Nat /\ GoesTo(code, t + 1) >= t + 2
          <6>1. t \in 1 .. Len(code)
              BY <1>0
          <6>2. GoesTo(code, t + 1) \in Nat /\ GoesTo(code, t + 1) >= t + 2
              BY <6>1, <4>1, Resolved
          <6> QED
              BY <6>2, <4>1 DEF Resolves
        <5>2. t \in Nat
            BY <1>1
        <5> QED
            BY <5>1, <5>2
      <4> QED
          BY <4>1, <4>2
    <3> QED
        BY <3>1, <3>2, <1>3, <1>4, <1>9
  <2>2. PICK p : Begins(p) /\ t \in w[p].dropped
      BY <2>1
  <2>3. /\ p \in 1 .. n /\ OnConstant(code, p)
        /\ Resolves(code, p, w[p].dropped, w[p].next)
      BY <2>2, <1>5
  <2>4. \A u \in w[p].dropped : u \in 1 .. n /\ ~ Remains(K, u)
      BY <2>2, <1>7
  <2> HIDE DEF Begins
  <2> QED
      BY <2>2, <2>3, <2>4
<1> HIDE DEF Begins, Of, T, out, G
<1>10. ASSUME NEW t \in 1 .. n, ~ Remains(K, t), NEW i \in 1 .. n
       PROVE  \E d :
                 /\ t \in d /\ \A u \in d : ~ Remains(K, u)
                 /\ i \in d => i \in f + 1 .. n - 3
                 /\ Op(code, i) = "Stop" /\ i + 1 \in d => i \in d
                 /\ Op(code, i) \in Branches /\ GoesTo(code, i) \in d => i \in d
                 /\ (i \in d) # (i + 1 \in d) => h[i + 1] = 0
  <2>1. PICK p, d, x :
                /\ p \in 1 .. n /\ OnConstant(code, p) /\ Resolves(code, p, d, x) /\ t \in d
                /\ \A u \in d : u \in 1 .. n /\ ~ Remains(K, u)
      BY <1>9, <1>10
  <2>2. /\ i \in d => i \in TickBegin(code) + 1 .. Len(code) - 3
        /\ Op(code, i) = "Stop" /\ i + 1 \in d => i \in d
        /\ Op(code, i) \in Branches /\ GoesTo(code, i) \in d => i \in d
        /\ (i \in d) # (i + 1 \in d) => IrHeights(code)[i + 1] = 0
    <3>1. i \in 1 .. Len(code) /\ p \in 1 .. Len(code)
        BY <2>1, <1>0
    <3> QED
        BY <2>1, <3>1, ResolvedLeaves
  <2>3. /\ t \in d /\ \A u \in d : ~ Remains(K, u)
        /\ i \in d => i \in f + 1 .. n - 3
        /\ (i \in d) # (i + 1 \in d) => h[i + 1] = 0
      BY <2>1, <2>2, <1>0
  <2> QED
      BY <2>2, <2>3
<1>11. ASSUME NEW i \in 1 .. n, ~ Remains(K, i) PROVE i \in f + 1 .. n - 3
    BY <1>10, <1>11
<1>12. Leaves(code, K, out)
  <2>1. \A i \in Fixed(code) : Remains(K, i)
    <3> TAKE i \in Fixed(code)
    <3>1. i \in 1 .. n /\ i \notin f + 1 .. n - 3
        BY <1>0, <1>1 DEF Fixed
    <3> QED
        BY <3>1, <1>11
  <2>2. ASSUME NEW i \in 1 .. n, Remains(K, i), Op(code, i) \in Branches
        PROVE  Remains(K, GoesTo(code, i))
    <3>1. GoesTo(code, i) \in 1 .. n
        BY <2>2, <1>0, <1>1, IrGoesTo
    <3> SUFFICES ASSUME ~ Remains(K, GoesTo(code, i)) PROVE FALSE
        OBVIOUS
    <3>2. PICK d : /\ GoesTo(code, i) \in d /\ \A u \in d : ~ Remains(K, u)
                   /\ Op(code, i) \in Branches /\ GoesTo(code, i) \in d => i \in d
        BY <3>1, <1>10
    <3> QED
        BY <3>2, <2>2
  <2>3. ASSUME NEW i \in 1 .. n, Remains(K, i), Op(code, i) = "Stop" PROVE Remains(K, i + 1)
    <3>1. i + 1 \in 1 .. n
      <4>1. Op(code, n) = "Jump"
          BY <1>0, <1>1, IrShape
      <4> QED
          BY <4>1, <2>3, <1>1
    <3> SUFFICES ASSUME ~ Remains(K, i + 1) PROVE FALSE
        OBVIOUS
    <3>2. PICK d : /\ i + 1 \in d /\ \A u \in d : ~ Remains(K, u)
                   /\ Op(code, i) = "Stop" /\ i + 1 \in d => i \in d
        BY <3>1, <1>10
    <3> QED
        BY <3>2, <2>3
  <2> QED
      BY <2>1, <2>2, <2>3, <1>0, <1>4 DEF Leaves
<1>13. ASSUME NEW i \in 1 .. n, i + 1 \in 1 .. n, ~ (Remains(K, i) <=> Remains(K, i + 1))
       PROVE  h[i + 1] = 0
  <2>1. CASE ~ Remains(K, i)
    <3>1. PICK d : /\ i \in d /\ \A u \in d : ~ Remains(K, u)
                   /\ (i \in d) # (i + 1 \in d) => h[i + 1] = 0
        BY <2>1, <1>10
    <3> QED
        BY <3>1, <2>1, <1>13
  <2>2. CASE ~ Remains(K, i + 1)
    <3>1. PICK d : /\ i + 1 \in d /\ \A u \in d : ~ Remains(K, u)
                   /\ (i \in d) # (i + 1 \in d) => h[i + 1] = 0
        BY <2>2, <1>10, <1>13
    <3> QED
        BY <3>1, <2>2, <1>13
  <2> QED
      BY <2>1, <2>2, <1>13
<1>14. LeavesHeights(code, K, G)
  <2> SUFFICES ASSUME NEW i \in 1 .. n
               PROVE  IF Remains(K, i) THEN G[i - 1] = h[i] /\ (i < n => G[i] = h[i + 1])
                      ELSE G[i] = G[i - 1]
      BY <1>0 DEF LeavesHeights
  <2>1. i \in 0 .. n /\ i - 1 \in 0 .. n /\ i - 1 + 1 = i /\ i - 1 < n /\ (i < n => i + 1 \in 1 .. n)
      BY <1>1
  <2>2. /\ G[i - 1] = IF Remains(K, i) THEN h[i] ELSE 0
        /\ G[i] = IF i < n /\ Remains(K, i + 1) THEN h[i + 1] ELSE 0
      BY <2>1 DEF G
  <2>3. CASE Remains(K, i)
      BY <2>1, <2>2, <2>3, <1>13
  <2>4. CASE ~ Remains(K, i)
    <3>1. i < n
        BY <2>4, <1>1, <1>11
    <3>2. Remains(K, i + 1) => h[i + 1] = 0
        BY <3>1, <2>1, <2>4, <1>13
    <3> QED
        BY <3>2, <2>2, <2>4
  <2> QED
      BY <2>3, <2>4
<1> QED
    BY <1>2, <1>12, <1>14 DEF IsRest, out

LEMMA BranchKeeps ==
    ASSUME NEW code, Shaped(code), Nested(code)
    PROVE  /\ Shaped(eliminate_dead_branches(code))
           /\ SameStart(code, eliminate_dead_branches(code))
<1>1. PICK K, G : IsRest(code, K, G, eliminate_dead_branches(code))
    BY BranchRest
<1> QED
    BY <1>1, RestIsShaped, RestSameStart

LEMMA BranchTrap == eliminate_dead_branches(<<Trap>>) = <<Trap>>
<1> DEFINE code == <<Trap>>
<1>1. code \in Seq(IrInstructions) /\ Len(code) = 1 /\ Append(<< >>, code[1]) = <<Trap>>
      /\ Op(code, 1) = "Trap"
    BY TrapIsCode
<1> HIDE DEF code
<1>2. PICK w \in [0 .. Len(code) -> BranchStates] :
         /\ w[0] = [output |-> << >>, dropped |-> {}, next |-> 1]
         /\ \A i \in 1 .. Len(code) : w[i] = branch_at(w[i - 1], code, i)
         /\ eliminate_dead_branches(code) = w[Len(code)].output
    BY <1>1, BranchWalk
<1>3. w[0] \in BranchStates /\ w[1] = branch_at(w[0], code, 1) /\ 1 \in 1 .. Len(code)
      /\ w[0].output = << >>
  <2>1. 0 \in 0 .. Len(code) /\ 1 \in 1 .. Len(code) /\ 1 - 1 = 0
      BY <1>1
  <2>2. w[1] = branch_at(w[1 - 1], code, 1) /\ w[0].output = << >>
      BY <2>1, <1>2
  <2> QED
      BY <2>1, <2>2, <1>2
<1>4. \/ BranchDrops(w[0], w[1], 1) \/ BranchLeaves(w[0], w[1], code, 1)
      \/ BranchResolves(w[0], w[1], code, 1)
    BY <1>1, <1>3, BranchStep
<1>5. w[1].output = <<Trap>>
    BY <1>1, <1>3, <1>4 DEF BranchDrops, BranchLeaves, BranchResolves, OnConstant
<1> QED
    BY <1>1, <1>2, <1>5 DEF code

\* optimize: its six passes leave every code of the shape in the shape, with the same
\* world and the same entities, but when folding a division killed it (see Trap).
THEOREM OptimizedIsShaped ==
    ASSUME NEW code, Shaped(code), Nested(code), optimize(code) # <<Trap>>
    PROVE  Shaped(optimize(code)) /\ SameStart(code, optimize(code))
<1> DEFINE a == constant_fold(code)
           b == eliminate_dead_branches(a)
           c == constant_fold(b)
           d == eliminate_unreachable_after_stop(c)
           e == eliminate_redundant_turn_pairs(d)
<1>1. optimize(code) = constant_fold(e)
    BY DEF optimize
<1>2. e # <<Trap>> /\ d # <<Trap>> /\ c # <<Trap>> /\ b # <<Trap>> /\ a # <<Trap>>
  <2>1. e # <<Trap>>
    <3> HIDE DEF e
    <3> QED
        BY <1>1, FoldTrap
  <2>2. d # <<Trap>>
    <3> HIDE DEF d
    <3> QED
        BY <2>1, TurnTrap
  <2>3. c # <<Trap>>
    <3> HIDE DEF c
    <3> QED
        BY <2>2, StopTrap
  <2>4. b # <<Trap>>
    <3> HIDE DEF b
    <3> QED
        BY <2>3, FoldTrap
  <2>5. a # <<Trap>>
    <3> HIDE DEF a
    <3> QED
        BY <2>4, BranchTrap
  <2> QED
      BY <2>1, <2>2, <2>3, <2>4, <2>5
<1>3. Shaped(a) /\ Nested(a) /\ SameStart(code, a)
    BY <1>2, FoldKeeps
<1>4. Shaped(b) /\ SameStart(code, b)
  <2> HIDE DEF a
  <2>1. Shaped(b) /\ SameStart(a, b)
      BY <1>3, BranchKeeps
  <2> QED
      BY <2>1, <1>3, SameStartTransitive
<1>5. Shaped(c) /\ SameStart(code, c)
  <2> HIDE DEF b
  <2>1. Shaped(c) /\ SameStart(b, c)
      BY <1>2, <1>4, FoldKeeps
  <2> QED
      BY <2>1, <1>4, SameStartTransitive
<1>6. Shaped(d) /\ SameStart(code, d)
  <2> HIDE DEF c
  <2>1. Shaped(d) /\ SameStart(c, d)
      BY <1>5, StopKeeps
  <2> QED
      BY <2>1, <1>5, SameStartTransitive
<1>7. Shaped(e) /\ SameStart(code, e)
  <2> HIDE DEF d
  <2>1. Shaped(e) /\ SameStart(d, e)
      BY <1>6, TurnKeeps
  <2> QED
      BY <2>1, <1>6, SameStartTransitive
<1>8. Shaped(constant_fold(e)) /\ SameStart(code, constant_fold(e))
  <2>1. constant_fold(e) # <<Trap>>
      BY <1>1
  <2> HIDE DEF e
  <2>2. Shaped(constant_fold(e)) /\ SameStart(e, constant_fold(e))
      BY <1>7, <2>1, FoldKeeps
  <2> QED
      BY <2>2, <1>7, SameStartTransitive
<1> QED
    BY <1>1, <1>8

-----------------------------------------------------------------------------
(* The compiler.                                                            *)

\* The pool has the value at this index (from zero).
HasAt(pool, index, value) == index \in 0 .. Len(pool) - 1 /\ pool[index + 1] = value

\* What was in the pool keeps its index.
Keeps(pool, later) == Len(pool) <= Len(later) /\ \A k \in 1 .. Len(pool) : later[k] = pool[k]

LEMMA IndexInIs ==
    ASSUME NEW S, NEW pool \in Seq(S), NEW value, Contains(pool, value)
    PROVE  IndexIn(pool, value) \in Int /\ HasAt(pool, IndexIn(pool, value), value)
<1> DEFINE I == {i \in 1 .. Len(pool) : pool[i] = value}
<1>1. I # {} /\ I \subseteq Nat
    BY DEF Contains
<1>2. IndexIn(pool, value) = Min(I) - 1
    BY <1>1 DEF IndexIn, SelectInSeq
<1>3. Min(I) \in I
  <2>1. Min(I) = CHOOSE x \in I : \A y \in I : x <= y
      BY DEF Min
  <2> HIDE DEF I
  <2>2. \E x \in I : \A y \in I : x <= y
      BY <1>1, LeastIndex
  <2> QED
      BY <2>1, <2>2
<1>4. PICK m \in I : IndexIn(pool, value) = m - 1
    BY <1>2, <1>3
<1>5. m \in 1 .. Len(pool) /\ pool[m] = value /\ Len(pool) \in Nat
    OBVIOUS
<1>6. m - 1 \in Int /\ m - 1 \in 0 .. Len(pool) - 1 /\ m - 1 + 1 = m
    BY <1>5
<1> QED
    BY <1>4, <1>5, <1>6 DEF HasAt

LEMMA Interned ==
    ASSUME NEW S, NEW pool \in Seq(S), NEW value \in S
    PROVE  /\ intern(pool, value) \in Seq(S) /\ Keeps(pool, intern(pool, value))
           /\ IndexIn(intern(pool, value), value) \in Int
           /\ HasAt(intern(pool, value), IndexIn(intern(pool, value), value), value)
<1>1. Len(pool) \in Nat
    OBVIOUS
<1>2. CASE Contains(pool, value)
  <2>1. intern(pool, value) = pool
      BY <1>2 DEF intern
  <2> QED
      BY <2>1, <1>1, <1>2, IndexInIs DEF Keeps
<1>3. CASE ~ Contains(pool, value)
  <2> DEFINE later == Append(pool, value)
  <2>1. intern(pool, value) = later
      BY <1>3 DEF intern
  <2>2. /\ later \in Seq(S) /\ Len(later) = Len(pool) + 1 /\ later[Len(pool) + 1] = value
        /\ \A k \in 1 .. Len(pool) : later[k] = pool[k]
      BY Appended
  <2> HIDE DEF later
  <2>3. Contains(later, value) /\ Keeps(pool, later)
      BY <2>2, <1>1 DEF Contains, Keeps
  <2> QED
      BY <2>1, <2>2, <2>3, IndexInIs
<1> QED
    BY <1>2, <1>3

Emitted == [code : Seq(Instructions), strings : Seq(Texts), int_constants : Seq(IntValues)]

\* The later program has all that the program has.
Extends(program, later) ==
    /\ Keeps(program.code, later.code) /\ Keeps(program.strings, later.strings)
    /\ Keeps(program.int_constants, later.int_constants)

\* The instruction of the program at ip is what an instruction of the code becomes.
Translates(program, ip, i, code) ==
    LET out == At(program, ip)
        opcode == CompiledOpcode(i.opcode)
    IN  /\ out.opcode = opcode
        /\ opcode = "PushConst" => HasAt(program.int_constants, out.a, i.int_value)
        /\ opcode \in NamesString => HasAt(program.strings, out.a, i.text)
        /\ opcode \in Branches => out.a = resolve_label(code, i.text)
        /\ opcode \in {"CreateWorld", "CreateObstacle"} =>
              out.a = i.int_value /\ out.b = i.int_value2
        /\ opcode \in {"CreateRobot", "CreateTarget"} =>
              out.b = i.int_value /\ out.c = i.int_value2

LEMMA HasAtKept ==
    ASSUME NEW S, NEW pool \in Seq(S), NEW later, Keeps(pool, later), Len(later) \in Int,
           NEW index \in Int, NEW value, HasAt(pool, index, value)
    PROVE  HasAt(later, index, value)
<1>1. index + 1 \in 1 .. Len(pool) /\ index \in 0 .. Len(later) - 1
    BY DEF HasAt, Keeps
<1> QED
    BY <1>1 DEF HasAt, Keeps

LEMMA KeepsTransitive ==
    ASSUME NEW S, NEW a \in Seq(S), NEW b \in Seq(S), NEW c \in Seq(S), Keeps(a, b), Keeps(b, c)
    PROVE  Keeps(a, c)
<1>1. Len(a) \in Nat /\ Len(b) \in Nat /\ Len(c) \in Nat
    OBVIOUS
<1> QED
    BY <1>1 DEF Keeps

LEMMA TranslatesKept ==
    ASSUME NEW program \in Emitted, NEW later \in Emitted, Extends(program, later),
           NEW ip \in 0 .. Len(program.code) - 1, NEW i, NEW code,
           Translates(program, ip, i, code)
    PROVE  Translates(later, ip, i, code)
<1>1. /\ program.code \in Seq(Instructions) /\ program.strings \in Seq(Texts)
      /\ program.int_constants \in Seq(IntValues) /\ Len(program.code) \in Nat
      /\ Len(later.strings) \in Int /\ Len(later.int_constants) \in Int
    BY DEF Emitted
<1>2. At(later, ip) = At(program, ip)
  <2>1. ip + 1 \in 1 .. Len(program.code)
      BY <1>1
  <2> QED
      BY <2>1 DEF Extends, Keeps, At
<1>3. At(program, ip).a \in Int
  <2>1. ip + 1 \in 1 .. Len(program.code)
      BY <1>1
  <2>2. At(program, ip) \in Instructions
      BY <2>1, <1>1 DEF At
  <2> QED
      BY <2>2 DEF Instructions
<1>4. \A value : HasAt(program.int_constants, At(program, ip).a, value) =>
                 HasAt(later.int_constants, At(program, ip).a, value)
    BY <1>1, <1>3, HasAtKept DEF Extends
<1>5. \A value : HasAt(program.strings, At(program, ip).a, value) =>
                 HasAt(later.strings, At(program, ip).a, value)
    BY <1>1, <1>3, HasAtKept DEF Extends
<1> QED
    BY <1>2, <1>4, <1>5 DEF Translates

\* The instructions that are compiled.
Compiles(i) == i \in IrInstructions /\ i.opcode \notin {"Label", "Trap"}

LEMMA CompiledTo ==
    ASSUME NEW op \in IrOpcodes \ {"Label", "Trap"}
    PROVE  /\ CompiledOpcode(op) \in Opcodes
           /\ op \notin {"PushInt", "World"} \cup Entities => CompiledOpcode(op) = op
           /\ op \in Entities <=> CompiledOpcode(op) \in Placements
           /\ op = "World" <=> CompiledOpcode(op) = "CreateWorld"
           /\ op = "PushInt" <=> CompiledOpcode(op) = "PushConst"
<1>1. CASE op \in Entities \cup {"PushInt", "World"}
    BY <1>1 DEF CompiledOpcode, Renamed, Entities, Opcodes, Placements, BodyOpcodes
<1>2. CASE op \notin Entities \cup {"PushInt", "World"}
  <2>1. CompiledOpcode(op) = op
      BY <1>2 DEF CompiledOpcode, Renamed, Entities
  <2>2. op \in BodyOpcodes \cup {"BeginTick", "EndTick"} /\ op # "PushConst"
      BY <1>2 DEF IrOpcodes
  <2>3. op \notin Placements \cup {"CreateWorld"}
      BY <2>2 DEF Placements, BodyOpcodes, Moves, Turns
  <2> QED
      BY <2>1, <2>2, <2>3, <1>2 DEF Opcodes
<1> QED
    BY <1>1, <1>2

LEMMA EmitStep ==
    ASSUME NEW code \in Seq(IrInstructions), NEW program \in Emitted, NEW i, Compiles(i)
    PROVE  /\ emit_instruction(program, i, code) \in Emitted
           /\ Extends(program, emit_instruction(program, i, code))
           /\ Len(emit_instruction(program, i, code).code) = Len(program.code) + 1
           /\ Translates(emit_instruction(program, i, code), Len(program.code), i, code)
<1> DEFINE opcode == CompiledOpcode(i.opcode)
           strings == IF opcode \in NamesString THEN intern(program.strings, i.text)
                      ELSE program.strings
           ints == IF opcode = "PushConst" THEN intern(program.int_constants, i.int_value)
                   ELSE program.int_constants
           name == IndexIn(strings, i.text)
           out == CASE opcode = "PushConst" ->
                        Instruction(opcode, IndexIn(ints, i.int_value), 0, 0)
                    [] opcode = "PushBool" ->
                        Instruction(opcode, IF i.bool_value THEN 1 ELSE 0, 0, 0)
                    [] opcode \in {"Jump", "JumpIfFalse"} ->
                        Instruction(opcode, resolve_label(code, i.text), 0, 0)
                    [] opcode \in {"CreateWorld", "CreateObstacle"} ->
                        Instruction(opcode, i.int_value, i.int_value2, 0)
                    [] opcode \in {"CreateRobot", "CreateTarget"} ->
                        Instruction(opcode, name, i.int_value, i.int_value2)
                    [] opcode \in NamesString \ {"CreateRobot", "CreateTarget"} ->
                        Instruction(opcode, name, 0, 0)
                    [] OTHER -> Instruction(opcode, 0, 0, 0)
           next == emit_instruction(program, i, code)
<1>1. next = [code |-> Append(program.code, out), strings |-> strings, int_constants |-> ints]
    BY DEF emit_instruction
<1>2. /\ program.code \in Seq(Instructions) /\ program.strings \in Seq(Texts)
      /\ program.int_constants \in Seq(IntValues)
    BY DEF Emitted
<1>3. /\ opcode \in Opcodes /\ i.text \in Texts /\ i.int_value \in IntValues
      /\ i.int_value2 \in IntValues /\ i.bool_value \in BOOLEAN
    BY CompiledTo DEF Compiles, IrInstructions
<1>4. i.int_value \in Int /\ i.int_value2 \in Int
    BY <1>3 DEF IntValues
<1>5. resolve_label(code, i.text) \in Int
  <2>1. LabelIndex(code, i.text) \in 0 .. Len(code) /\ Pcs(code) \in [0 .. Len(code) -> Nat]
      BY LabelFound, PcsWalk
  <2> QED
      BY <2>1 DEF resolve_label
<1>6. /\ strings \in Seq(Texts) /\ Keeps(program.strings, strings)
      /\ opcode \in NamesString => name \in Int /\ HasAt(strings, name, i.text)
  <2>1. CASE opcode \in NamesString
    <3>1. strings = intern(program.strings, i.text)
        BY <2>1
    <3> HIDE DEF strings, opcode
    <3> QED
        BY <3>1, <1>2, <1>3, Interned
  <2>2. CASE opcode \notin NamesString
      BY <2>2, <1>2 DEF Keeps
  <2> QED
      BY <2>1, <2>2
<1>7. /\ ints \in Seq(IntValues) /\ Keeps(program.int_constants, ints)
      /\ opcode = "PushConst" => /\ IndexIn(ints, i.int_value) \in Int
                                 /\ HasAt(ints, IndexIn(ints, i.int_value), i.int_value)
  <2>1. CASE opcode = "PushConst"
    <3>1. ints = intern(program.int_constants, i.int_value)
        BY <2>1
    <3> HIDE DEF ints, opcode
    <3> QED
        BY <3>1, <1>2, <1>3, Interned
  <2>2. CASE opcode # "PushConst"
      BY <2>2, <1>2 DEF Keeps
  <2> QED
      BY <2>1, <2>2
<1> HIDE DEF opcode, strings, ints, name
<1>8. /\ out \in Instructions /\ out.opcode = opcode
      /\ opcode = "PushConst" => out.a = IndexIn(ints, i.int_value)
      /\ opcode \in NamesString => out.a = name
      /\ opcode \in Branches => out.a = resolve_label(code, i.text)
      /\ opcode \in {"CreateWorld", "CreateObstacle"} =>
            out.a = i.int_value /\ out.b = i.int_value2
      /\ opcode \in {"CreateRobot", "CreateTarget"} =>
            out.b = i.int_value /\ out.c = i.int_value2
  <2>1. \A a, b, c \in Int : /\ Instruction(opcode, a, b, c) \in Instructions
                             /\ Instruction(opcode, a, b, c).opcode = opcode
                             /\ Instruction(opcode, a, b, c).a = a
                             /\ Instruction(opcode, a, b, c).b = b
                             /\ Instruction(opcode, a, b, c).c = c
      BY <1>3 DEF Instruction, Instructions
  <2>2. CASE opcode = "PushConst"
    <3>1. out = Instruction(opcode, IndexIn(ints, i.int_value), 0, 0)
        BY <2>2 DEF NamesString
    <3> HIDE DEF out
    <3> QED
        BY <3>1, <2>1, <2>2, <1>7 DEF NamesString, Branches
  <2>3. CASE opcode = "PushBool"
    <3>1. out = Instruction(opcode, IF i.bool_value THEN 1 ELSE 0, 0, 0)
        BY <2>3 DEF NamesString
    <3> HIDE DEF out
    <3> QED
        BY <3>1, <2>1, <2>3 DEF NamesString, Branches
  <2>4. CASE opcode \in Branches
    <3>1. out = Instruction(opcode, resolve_label(code, i.text), 0, 0)
        BY <2>4 DEF Branches, NamesString
    <3> HIDE DEF out
    <3> QED
        BY <3>1, <2>1, <2>4, <1>5 DEF NamesString, Branches
  <2>5. CASE opcode \in {"CreateWorld", "CreateObstacle"}
    <3>1. out = Instruction(opcode, i.int_value, i.int_value2, 0)
        BY <2>5 DEF NamesString
    <3> HIDE DEF out
    <3> QED
        BY <3>1, <2>1, <2>5, <1>4 DEF NamesString, Branches
  <2>6. CASE opcode \in {"CreateRobot", "CreateTarget"}
    <3>1. out = Instruction(opcode, name, i.int_value, i.int_value2) /\ opcode \in NamesString
        BY <2>6 DEF NamesString
    <3> HIDE DEF out
    <3> QED
        BY <3>1, <2>1, <2>6, <1>4, <1>6 DEF Branches
  <2>7. CASE opcode \in NamesString \ {"CreateRobot", "CreateTarget"}
    <3>1. out = Instruction(opcode, name, 0, 0)
        BY <2>7 DEF NamesString
    <3> HIDE DEF out
    <3> QED
        BY <3>1, <2>1, <2>7, <1>6 DEF NamesString, Branches
  <2>8. CASE opcode \notin NamesString \cup Branches
                     \cup {"PushConst", "PushBool", "CreateWorld", "CreateObstacle"}
    <3>1. out = Instruction(opcode, 0, 0, 0)
        BY <2>8 DEF NamesString, Branches
    <3> HIDE DEF out
    <3> QED
        BY <3>1, <2>1, <2>8 DEF NamesString
  <2> HIDE DEF out
  <2> QED
      BY <2>2, <2>3, <2>4, <2>5, <2>6, <2>7, <2>8
<1> HIDE DEF out, next
<1>9. /\ Append(program.code, out) \in Seq(Instructions)
      /\ Len(Append(program.code, out)) = Len(program.code) + 1
      /\ Append(program.code, out)[Len(program.code) + 1] = out
      /\ Keeps(program.code, Append(program.code, out))
  <2>1. Len(program.code) \in Nat
      BY <1>2
  <2> QED
      BY <2>1, <1>2, <1>8, Appended DEF Keeps
<1>10. /\ next.code = Append(program.code, out) /\ next.strings = strings
       /\ next.int_constants = ints
    BY <1>1
<1>11. next \in Emitted
    BY <1>1, <1>6, <1>7, <1>9 DEF Emitted
<1>12. Extends(program, next)
    BY <1>6, <1>7, <1>9, <1>10 DEF Extends
<1>13. Translates(next, Len(program.code), i, code)
  <2>1. At(next, Len(program.code)) = out
      BY <1>9, <1>10 DEF At
  <2> QED
      BY <2>1, <1>6, <1>7, <1>8, <1>10 DEF Translates, opcode
<1> QED
    BY <1>9, <1>10, <1>11, <1>12, <1>13 DEF next

\* compile walks over the code once.
LEMMA CompileWalk ==
    ASSUME NEW code \in Seq(IrInstructions),
           \A i \in 1 .. Len(code) : IsLabel(code[i]) \/ Compiles(code[i])
    PROVE  \E w \in [0 .. Len(code) -> Emitted] :
              /\ w[0] = EmptyProgram
              /\ \A i \in 1 .. Len(code) :
                    w[i] = IF IsLabel(code[i]) THEN w[i - 1]
                           ELSE emit_instruction(w[i - 1], code[i], code)
              /\ compile(code) =
                    [w[Len(code)] EXCEPT !.code = Append(@, Instruction("Halt", 0, 0, 0))]
<1> DEFINE n == Len(code)
           After(i, s) == IF IsLabel(code[i]) THEN s ELSE emit_instruction(s, code[i], code)
           Def(f) == f = [i \in 0 .. n |->
                            IF i = 0 THEN EmptyProgram
                            ELSE IF IsLabel(code[i]) THEN f[i - 1]
                            ELSE emit_instruction(f[i - 1], code[i], code)]
           step == [i \in 1 .. n |-> [s \in Emitted |-> After(i, s)]]
           g == CHOOSE f : Def(f)
<1>1. n \in Nat /\ EmptyProgram \in Emitted
    BY DEF EmptyProgram, Emitted
<1>2. \A i \in 1 .. n, s \in Emitted : After(i, s) \in Emitted
    BY EmitStep
<1>3. /\ step \in [1 .. n -> [Emitted -> Emitted]]
      /\ \A i \in 1 .. n, s \in Emitted : step[i][s] = After(i, s)
  <2> HIDE DEF After
  <2> QED
      BY <1>2
<1> HIDE DEF step, n
<1>4. PICK w : IsWalk(w, n, Emitted, EmptyProgram, step)
    BY <1>1, <1>3, WalkExists
<1>5. /\ w \in [0 .. n -> Emitted] /\ w[0] = EmptyProgram
      /\ \A i \in 1 .. n : w[i] = step[i][w[i - 1]]
    BY <1>4 DEF IsWalk
<1>6. \A i \in 1 .. n : w[i] = After(i, w[i - 1])
  <2> TAKE i \in 1 .. n
  <2>1. w[i - 1] \in Emitted
      BY <1>1, <1>5
  <2> HIDE DEF After
  <2> QED
      BY <2>1, <1>3, <1>5
<1>7. Def(w)
    BY <1>1, <1>5, <1>6
<1>8. Def(g)
    BY <1>7
<1>9. compile(code) = [g[n] EXCEPT !.code = Append(@, Instruction("Halt", 0, 0, 0))]
    BY DEF compile, n
<1> HIDE DEF g
<1>10. /\ g[0] = EmptyProgram
       /\ \A i \in 1 .. n : g[i] = After(i, g[i - 1])
  <2>1. 0 \in 0 .. n /\ \A i \in 1 .. n : i \in 0 .. n /\ i # 0
      BY <1>1
  <2> QED
      BY <2>1, <1>8
<1> DEFINE T == {i \in 0 .. n : g[i] \in Emitted}
<1>11. 0 \in T /\ \A i \in 1 .. n : i - 1 \in T => i \in T
  <2>1. 0 \in T
      BY <1>1, <1>10
  <2>2. ASSUME NEW i \in 1 .. n, i - 1 \in T PROVE i \in T
    <3>1. g[i] \in Emitted
      <4> HIDE DEF After
      <4> QED
          BY <2>2, <1>2, <1>10
    <3> QED
        BY <3>1, <1>1
  <2> QED
      BY <2>1, <2>2
<1>12. g \in [0 .. n -> Emitted]
  <2>1. g = [i \in 0 .. n |-> g[i]]
      BY <1>8
  <2>2. 0 .. n \subseteq T
      BY <1>1, <1>11, UpTo
  <2> QED
      BY <2>1, <2>2
<1> QED
    BY <1>9, <1>10, <1>12 DEF n

\* The place of an instruction in the bytecode counts those before it that are no labels.
LEMMA PcsCount ==
    ASSUME NEW code \in Seq(IrInstructions)
    PROVE  /\ Counting(Pcs(code), Len(code))
           /\ \A i \in 1 .. Len(code) : Remains(Pcs(code), i) <=> ~ IsLabel(code[i])
<1> DEFINE n == Len(code)
<1>1. n \in Nat
    OBVIOUS
<1>2. PICK K \in [0 .. n -> Nat] :
         /\ K = Pcs(code) /\ K[0] = 0
         /\ \A i \in 1 .. n : K[i] = IF IsLabel(code[i]) THEN K[i - 1] ELSE K[i - 1] + 1
    BY PcsWalk
<1> HIDE DEF n
<1>3. \A i \in 1 .. n : K[i - 1] \in Nat
  <2> TAKE i \in 1 .. n
  <2>1. i - 1 \in 0 .. n
      BY <1>1
  <2> QED
      BY <2>1
<1>4. Counting(K, n)
    BY <1>2 DEF Counting
<1>5. \A i \in 1 .. n : Remains(K, i) <=> ~ IsLabel(code[i])
    BY <1>2, <1>3 DEF Remains
<1> QED
    BY <1>2, <1>4, <1>5 DEF n

\* What compile makes of the code: each instruction that is no label at its place, and Halt.
IsCompiled(code, program) ==
    /\ program \in Emitted
    /\ Len(program.code) = Pcs(code)[Len(code)] + 1
    /\ At(program, Pcs(code)[Len(code)]).opcode = "Halt"
    /\ \A i \in 1 .. Len(code) :
          ~ IsLabel(code[i]) => Translates(program, Pcs(code)[i - 1], code[i], code)

LEMMA ExtendsTransitive ==
    ASSUME NEW a \in Emitted, NEW b \in Emitted, NEW c \in Emitted,
           Extends(a, b), Extends(b, c)
    PROVE  Extends(a, c)
<1>1. \A x \in {a, b, c} : /\ x.code \in Seq(Instructions) /\ x.strings \in Seq(Texts)
                           /\ x.int_constants \in Seq(IntValues)
    BY DEF Emitted
<1>2. Keeps(a.code, c.code)
    BY <1>1, KeepsTransitive DEF Extends
<1>3. Keeps(a.strings, c.strings)
    BY <1>1, KeepsTransitive DEF Extends
<1>4. Keeps(a.int_constants, c.int_constants)
    BY <1>1, KeepsTransitive DEF Extends
<1> QED
    BY <1>2, <1>3, <1>4 DEF Extends

LEMMA CompiledFrom ==
    ASSUME NEW code \in Seq(IrInstructions),
           \A i \in 1 .. Len(code) : IsLabel(code[i]) \/ Compiles(code[i])
    PROVE  IsCompiled(code, compile(code))
<1>0. PICK n, K, halt : n = Len(code) /\ K = Pcs(code) /\ halt = Instruction("Halt", 0, 0, 0)
    OBVIOUS
<1>1. n \in Nat
    BY <1>0
<1>2. PICK w \in [0 .. n -> Emitted] :
              /\ w[0] = EmptyProgram
              /\ \A i \in 1 .. n :
                    w[i] = IF IsLabel(code[i]) THEN w[i - 1]
                           ELSE emit_instruction(w[i - 1], code[i], code)
              /\ compile(code) = [w[n] EXCEPT !.code = Append(@, halt)]
    BY <1>0, CompileWalk
<1>3. Counting(K, n) /\ \A i \in 1 .. n : Remains(K, i) <=> ~ IsLabel(code[i])
    BY <1>0, PcsCount
<1>4. \A i \in 1 .. n : IsLabel(code[i]) \/ Compiles(code[i])
    BY <1>0
<1> DEFINE Done(j) == /\ Len(w[j].code) = K[j]
                      /\ \A i \in 1 .. j : ~ IsLabel(code[i]) =>
                            Translates(w[j], K[i - 1], code[i], code)
           T == {j \in 0 .. n : Done(j)}
<1>5. Done(0)
    BY <1>1, <1>2, <1>3 DEF EmptyProgram, Counting
<1>6. ASSUME NEW j \in 1 .. n, Done(j - 1) PROVE Done(j)
  <2>1. /\ w[j - 1] \in Emitted /\ w[j] \in Emitted /\ K[j - 1] \in Nat /\ K[j] \in Nat
        /\ w[j - 1].code \in Seq(Instructions) /\ j - 1 \in Nat
    <3>1. j - 1 \in 0 .. n /\ j \in 0 .. n
        BY <1>1
    <3> QED
        BY <3>1, <1>2, <1>3 DEF Counting, Emitted
  <2>2. Len(w[j - 1].code) = K[j - 1]
        /\ \A i \in 1 .. j - 1 : ~ IsLabel(code[i]) =>
               Translates(w[j - 1], K[i - 1], code[i], code)
      BY <1>6
  <2> HIDE DEF Done
  <2>3. CASE IsLabel(code[j])
    <3>1. w[j] = w[j - 1] /\ K[j] = K[j - 1]
        BY <2>3, <1>2, <1>3 DEF Counting, Remains
    <3>2. \A i \in 1 .. j : ~ IsLabel(code[i]) => i \in 1 .. j - 1
        BY <2>3
    <3> QED
        BY <3>1, <3>2, <2>2 DEF Done
  <2>4. CASE ~ IsLabel(code[j])
    <3>1. w[j] = emit_instruction(w[j - 1], code[j], code) /\ K[j] = K[j - 1] + 1
        BY <2>4, <1>2, <1>3 DEF Remains
    <3>2. Compiles(code[j])
        BY <2>4, <1>4
    <3>3. /\ Extends(w[j - 1], w[j])
          /\ Len(w[j].code) = K[j]
          /\ Translates(w[j], K[j - 1], code[j], code)
        BY <3>1, <3>2, <2>1, <2>2, EmitStep
    <3>4. ASSUME NEW i \in 1 .. j - 1, ~ IsLabel(code[i])
          PROVE  Translates(w[j], K[i - 1], code[i], code)
      <4>1. K[i - 1] \in 0 .. K[j - 1] - 1
        <5>1. i - 1 \in 0 .. n /\ j - 1 \in i - 1 .. n /\ i \in 0 .. n /\ j - 1 \in i .. n
              /\ i \in 1 .. n
            BY <1>1
        <5>2. Remains(K, i) /\ K[i] <= K[j - 1]
            BY <5>1, <3>4, <1>1, <1>3, CountsMonotone
        <5>3. K[i - 1] \in Nat /\ K[i] = K[i - 1] + 1
            BY <5>1, <5>2, <1>3 DEF Counting, Remains
        <5> QED
            BY <5>2, <5>3, <2>1
      <4>2. Translates(w[j - 1], K[i - 1], code[i], code)
          BY <3>4, <2>2
      <4> QED
          BY <4>1, <4>2, <3>3, <2>1, <2>2, TranslatesKept
    <3>5. \A i \in 1 .. j : ~ IsLabel(code[i]) => Translates(w[j], K[i - 1], code[i], code)
      <4>1. \A i \in 1 .. j : i = j \/ i \in 1 .. j - 1
          OBVIOUS
      <4> QED
          BY <4>1, <3>3, <3>4
    <3> QED
        BY <3>3, <3>5 DEF Done
  <2> QED
      BY <2>3, <2>4
<1>7. Done(n)
  <2> HIDE DEF Done
  <2>1. 0 \in T /\ \A j \in 1 .. n : j - 1 \in T => j \in T
      BY <1>1, <1>5, <1>6
  <2>2. 0 .. n \subseteq T
      BY <2>1, <1>1, UpTo
  <2> QED
      BY <2>2, <1>1
<1>8. PICK before : before = w[n]
    OBVIOUS
<1>9. /\ before \in Emitted /\ Len(before.code) = K[n] /\ K[n] \in Nat
      /\ \A i \in 1 .. n : ~ IsLabel(code[i]) => Translates(before, K[i - 1], code[i], code)
  <2>1. n \in 0 .. n
      BY <1>1
  <2> QED
      BY <2>1, <1>2, <1>3, <1>7, <1>8 DEF Counting
<1>10. PICK after : /\ after = compile(code)
                    /\ after = [before EXCEPT !.code = Append(@, halt)]
    BY <1>2, <1>8
<1>11. halt \in Instructions /\ halt.opcode = "Halt"
    BY <1>0 DEF Instruction, Instructions, Opcodes
<1>12. /\ before.code \in Seq(Instructions) /\ before.strings \in Seq(Texts)
       /\ before.int_constants \in Seq(IntValues)
       /\ after.code = Append(before.code, halt) /\ after.strings = before.strings
       /\ after.int_constants = before.int_constants
    BY <1>9, <1>10 DEF Emitted
<1>13. /\ after.code \in Seq(Instructions) /\ Len(after.code) = K[n] + 1
       /\ after.code[K[n] + 1] = halt /\ Keeps(before.code, after.code)
  <2>1. after.code \in Seq(Instructions) /\ Len(after.code) = K[n] + 1
        /\ after.code[K[n] + 1] = halt
        /\ \A k \in 1 .. Len(before.code) : after.code[k] = before.code[k]
      BY <1>9, <1>11, <1>12, Appended
  <2> QED
      BY <2>1, <1>9 DEF Keeps
<1>14. after \in Emitted
    BY <1>9, <1>10, <1>12, <1>13 DEF Emitted
<1>15. Extends(before, after)
    BY <1>12, <1>13 DEF Extends, Keeps
<1>16. ASSUME NEW i \in 1 .. n, ~ IsLabel(code[i])
       PROVE  Translates(after, K[i - 1], code[i], code)
  <2>1. K[i - 1] \in 0 .. K[n] - 1
    <3>1. i - 1 \in 0 .. n /\ i \in 0 .. n /\ n \in i .. n
        BY <1>1
    <3>2. Remains(K, i) /\ K[i] <= K[n]
        BY <3>1, <1>16, <1>1, <1>3, CountsMonotone
    <3>3. K[i - 1] \in Nat /\ K[i] = K[i - 1] + 1
        BY <3>1, <3>2, <1>3 DEF Counting, Remains
    <3> QED
        BY <3>2, <3>3, <1>9
  <2> QED
      BY <2>1, <1>9, <1>14, <1>15, <1>16, TranslatesKept
<1>17. At(after, K[n]).opcode = "Halt"
    BY <1>11, <1>13 DEF At
<1> QED
    BY <1>0, <1>10, <1>13, <1>14, <1>16, <1>17 DEF IsCompiled

\* Nothing in code of the shape fails to compile.
LEMMA ShapedCompiles ==
    ASSUME NEW code \in Seq(IrInstructions), Structured(code), NEW i \in 1 .. Len(code)
    PROVE  IsLabel(code[i]) \/ Compiles(code[i])
<1>0. PICK n, f : n = Len(code) /\ f = TickBegin(code)
    OBVIOUS
<1>1. Op(code, i) = code[i].opcode /\ code[i] \in IrInstructions
    BY IrShape
<1>2. "Trap" \notin {"BeginTick", "EndTick", "World", "Jump"} \cup Entities
      /\ CompiledOpcode("Trap") \notin BodyOpcodes
    BY DEF Entities, BodyOpcodes, CompiledOpcode, Renamed, Moves, Turns
<1>3. Op(code, i) # "Trap"
  <2>1. \/ i = 1 \/ i \in 2 .. f - 2 \/ i = f - 1 \/ i = f \/ i \in f + 1 .. n - 2
        \/ i = n - 1 \/ i = n
      BY <1>0, IrPlaces
  <2>2. /\ Op(code, 1) = "World" /\ Op(code, f - 1) = "Label" /\ Op(code, f) = "BeginTick"
        /\ Op(code, n - 1) = "EndTick" /\ Op(code, n) = "Jump"
      BY <1>0, IrShape
  <2>3. CASE i \in 2 .. f - 2
    <3>1. Op(code, i) \in Entities
        BY <1>0, <2>3, IrShape
    <3> QED
        BY <3>1, <1>2
  <2>4. CASE i \in f + 1 .. n - 2
    <3>1. Op(code, i) = "Label" \/ CompiledOpcode(Op(code, i)) \in BodyOpcodes
        BY <1>0, <2>4, IrShape
    <3> QED
        BY <3>1, <1>2
  <2> QED
      BY <2>1, <2>2, <2>3, <2>4
<1> QED
    BY <1>1, <1>3 DEF IsLabel, Compiles

\* The opcodes that keep their name.
LEMMA SameOpcode ==
    ASSUME NEW op \in IrOpcodes \ {"Label", "Trap"},
           NEW c \in {"BeginTick", "EndTick", "Jump", "JumpIfFalse", "Stop"}
    PROVE  CompiledOpcode(op) = c <=> op = c
BY DEF CompiledOpcode, Renamed

\* Where the parts of the code are in the bytecode.
LEMMA PcsPlaces ==
    ASSUME NEW code \in Seq(IrInstructions), Structured(code),
           NEW n, n = Len(code), NEW f, f = TickBegin(code), NEW K, K = Pcs(code)
    PROVE  /\ \A i \in 0 .. f - 2 : K[i] = i
           /\ K[f - 1] = f - 2 /\ K[f] = f - 1
           /\ K[n - 1] = K[n - 2] + 1 /\ K[n] = K[n - 2] + 2
           /\ K[n - 2] \in Nat /\ K[n - 2] >= f - 1
           /\ Remains(K, f) /\ Remains(K, n - 1) /\ Remains(K, n)
           /\ \A i \in 1 .. f - 2 : Remains(K, i)
<1>1. n \in Nat /\ f \in Nat /\ f >= 3 /\ f <= n - 2
    BY IrShape
<1>2. Counting(K, n) /\ \A i \in 1 .. n : Remains(K, i) <=> ~ IsLabel(code[i])
    BY PcsCount
<1>3. \A i \in 1 .. n : Op(code, i) = code[i].opcode
    BY IrShape
<1>4. /\ Op(code, f - 1) = "Label" /\ Op(code, f) = "BeginTick" /\ Op(code, n - 1) = "EndTick"
      /\ Op(code, n) = "Jump" /\ Op(code, 1) = "World"
    BY IrShape
<1>5. \A i \in 2 .. f - 2 : Op(code, i) \in Entities
    BY IrShape
<1>6. f \in 1 .. n /\ f - 1 \in 1 .. n /\ n - 1 \in 1 .. n /\ n \in 1 .. n /\ 1 \in 1 .. n
      /\ f - 1 - 1 = f - 2 /\ n - 1 - 1 = n - 2 /\ f - 2 \in 0 .. n /\ n - 2 \in 0 .. n
      /\ f - 1 \in 0 .. n /\ n - 1 \in 0 .. n
    BY <1>1
<1>7. Remains(K, f) /\ ~ Remains(K, f - 1) /\ Remains(K, n - 1) /\ Remains(K, n)
    BY <1>2, <1>3, <1>4, <1>6 DEF IsLabel
<1>8. \A i \in 1 .. f - 2 : Remains(K, i)
  <2> TAKE i \in 1 .. f - 2
  <2>1. i \in 1 .. n /\ (i = 1 \/ i \in 2 .. f - 2)
      BY <1>1
  <2>2. Op(code, i) # "Label"
      BY <2>1, <1>4, <1>5 DEF Entities
  <2> QED
      BY <2>1, <2>2, <1>2, <1>3 DEF IsLabel
<1> DEFINE T == {i \in 0 .. f - 2 : K[i] = i}
<1>9. 0 .. f - 2 \subseteq T
  <2>1. 0 \in T
      BY <1>1, <1>2 DEF Counting
  <2>2. ASSUME NEW i \in 1 .. f - 2, i - 1 \in T PROVE i \in T
      BY <2>2, <1>8 DEF Remains
  <2>3. f - 2 \in Nat
      BY <1>1
  <2> QED
      BY <2>1, <2>2, <2>3, UpTo
<1>10. \A i \in 0 .. f - 2 : K[i] = i
    BY <1>9
<1>11. K[f - 1] = f - 2 /\ K[f] = f - 1
  <2>1. K[f - 2] = f - 2
      BY <1>1, <1>10
  <2>2. K[f - 1] = K[f - 2]
      BY <1>2, <1>6, <1>7 DEF Counting, Remains
  <2>3. K[f] = K[f - 1] + 1
      BY <1>7 DEF Remains
  <2> QED
      BY <2>1, <2>2, <2>3, <1>1
<1>12. K[n - 2] \in Nat /\ K[n - 1] = K[n - 2] + 1 /\ K[n] = K[n - 2] + 2
  <2>1. K[n - 2] \in Nat
      BY <1>2, <1>6 DEF Counting
  <2>2. K[n - 1] = K[n - 2] + 1 /\ K[n] = K[n - 1] + 1
      BY <1>6, <1>7 DEF Remains
  <2> QED
      BY <2>1, <2>2
<1>13. K[n - 2] >= f - 1
  <2>1. f \in 0 .. n /\ n - 2 \in f .. n
      BY <1>1
  <2>2. K[f] <= K[n - 2]
      BY <2>1, <1>1, <1>2, CountsMonotone
  <2> QED
      BY <2>2, <1>11, <1>12, <1>1
<1> QED
    BY <1>7, <1>8, <1>10, <1>11, <1>12, <1>13

\* The instruction of the code that an instruction of the bytecode comes from.
ComesFrom(code, ip, i) ==
    /\ i \in 1 .. Len(code) /\ ~ IsLabel(code[i])
    /\ Pcs(code)[i - 1] = ip /\ Pcs(code)[i] = ip + 1

LEMMA Comes ==
    ASSUME NEW code \in Seq(IrInstructions), Structured(code),
           NEW n, n = Len(code), NEW f, f = TickBegin(code), NEW K, K = Pcs(code),
           NEW ip \in 0 .. K[n] - 1
    PROVE  \E i \in 1 .. n :
              /\ ComesFrom(code, ip, i)
              /\ ip <= f - 3 => i = ip + 1
              /\ ip = f - 2 => i = f
              /\ ip \in f - 1 .. K[n - 2] - 1 => i \in f + 1 .. n - 2
              /\ ip = K[n - 2] => i = n - 1
              /\ ip = K[n - 2] + 1 => i = n
<1>1. n \in Nat /\ f \in Nat /\ f >= 3 /\ f <= n - 2
    BY IrShape
<1>2. Counting(K, n) /\ \A i \in 1 .. n : Remains(K, i) <=> ~ IsLabel(code[i])
    BY PcsCount
<1>3. /\ \A i \in 0 .. f - 2 : K[i] = i
      /\ K[f - 1] = f - 2 /\ K[f] = f - 1
      /\ K[n - 1] = K[n - 2] + 1 /\ K[n] = K[n - 2] + 2
      /\ K[n - 2] \in Nat /\ K[n - 2] >= f - 1
      /\ Remains(K, f) /\ Remains(K, n - 1) /\ Remains(K, n)
      /\ \A i \in 1 .. f - 2 : Remains(K, i)
    BY PcsPlaces
<1>4. ip \in Nat /\ ip + 1 \in 1 .. K[n]
    BY <1>3
<1>5. PICK i \in 1 .. n : K[i] = ip + 1 /\ Remains(K, i)
    BY <1>1, <1>2, <1>4, CountsOnto
<1>6. K[i - 1] = ip /\ K[i] \in Nat
  <2>1. i - 1 \in 0 .. n /\ i \in 0 .. n
      BY <1>1
  <2>2. K[i - 1] \in Nat /\ ip + 1 = K[i - 1] + 1
      BY <2>1, <1>2, <1>5 DEF Counting, Remains
  <2> QED
      BY <2>2, <1>4, <1>5
<1>7. \A j \in 1 .. n : Remains(K, j) => /\ K[i] = K[j] <=> i = j
                                         /\ K[i] < K[j] <=> i < j
                                         /\ K[j] < K[i] <=> j < i
    BY <1>1, <1>2, <1>5, CountsOrder
<1>8. ip <= f - 3 => i = ip + 1
  <2> SUFFICES ASSUME ip <= f - 3 PROVE i = ip + 1
      OBVIOUS
  <2>1. ip + 1 \in 1 .. f - 2 /\ ip + 1 \in 0 .. f - 2 /\ ip + 1 \in 1 .. n
      BY <1>1, <1>4
  <2> QED
      BY <2>1, <1>3, <1>5, <1>7
<1>9. f \in 1 .. n /\ n - 1 \in 1 .. n /\ n \in 1 .. n
    BY <1>1
<1>10. ip = f - 2 => i = f
  <2> SUFFICES ASSUME ip = f - 2 PROVE i = f
      OBVIOUS
  <2>1. K[i] = K[f]
      BY <1>1, <1>3, <1>5
  <2> QED
      BY <2>1, <1>3, <1>7, <1>9
<1>11. ip = K[n - 2] => i = n - 1
    BY <1>3, <1>5, <1>7, <1>9
<1>12. ip = K[n - 2] + 1 => i = n
  <2> SUFFICES ASSUME ip = K[n - 2] + 1 PROVE i = n
      OBVIOUS
  <2>1. K[i] = K[n]
      BY <1>3, <1>5
  <2> QED
      BY <2>1, <1>3, <1>7, <1>9
<1>13. ip \in f - 1 .. K[n - 2] - 1 => i \in f + 1 .. n - 2
  <2> SUFFICES ASSUME ip \in f - 1 .. K[n - 2] - 1 PROVE i \in f + 1 .. n - 2
      OBVIOUS
  <2>1. K[f] < K[i]
      BY <1>1, <1>3, <1>4, <1>5
  <2>2. K[i] < K[n - 1]
      BY SMTT(30), <1>1, <1>3, <1>4, <1>5
  <2>3. f < i /\ i < n - 1
      BY <2>1, <2>2, <1>3, <1>7, <1>9
  <2> QED
      BY <2>3, <1>1
<1>14. ComesFrom(code, ip, i)
    BY <1>2, <1>5, <1>6 DEF ComesFrom
<1> QED
    BY <1>8, <1>10, <1>11, <1>12, <1>13, <1>14

\* An instruction of the code in the bytecode.
LEMMA CompiledAt ==
    ASSUME NEW code \in Seq(IrInstructions), Structured(code), NEW p, IsCompiled(code, p),
           NEW n, n = Len(code), NEW K, K = Pcs(code), NEW i \in 1 .. n, ~ IsLabel(code[i])
    PROVE  /\ Translates(p, K[i - 1], code[i], code)
           /\ At(p, K[i - 1]).opcode = CompiledOpcode(Op(code, i))
           /\ Op(code, i) = code[i].opcode /\ code[i] \in IrInstructions
           /\ Op(code, i) \in IrOpcodes \ {"Label", "Trap"}
<1>1. Op(code, i) = code[i].opcode
    BY IrShape
<1>2. Translates(p, K[i - 1], code[i], code)
    BY DEF IsCompiled
<1>3. Compiles(code[i])
    BY ShapedCompiles
<1> QED
    BY <1>1, <1>2, <1>3 DEF Translates, Compiles, IrInstructions

LEMMA Placed ==
    ASSUME NEW code \in Seq(IrInstructions), Structured(code), NEW p, IsCompiled(code, p),
           NEW f, f = TickBegin(code), NEW ip \in 1 .. f - 3
    PROVE  /\ Op(code, ip + 1) \in Entities
           /\ At(p, ip).opcode \in Placements
           /\ At(p, ip).opcode = CompiledOpcode(code[ip + 1].opcode)
           /\ Site(p, ip) = <<code[ip + 1].int_value, code[ip + 1].int_value2>>
           /\ code[ip + 1].opcode \in {"Robot", "Target"} =>
                 Text(p, At(p, ip).a) = code[ip + 1].text
<1>0. PICK n, K, i : n = Len(code) /\ K = Pcs(code) /\ i = ip + 1
    OBVIOUS
<1>1. n \in Nat /\ f \in Nat /\ f >= 3 /\ f <= n - 2
    BY <1>0, IrShape
<1>2. i \in 2 .. f - 2 /\ i \in 1 .. n /\ ip \in 0 .. f - 2 /\ i - 1 = ip
    BY <1>0, <1>1
<1>3. Op(code, i) \in Entities
    BY <1>0, <1>2, IrShape
<1>4. K[i - 1] = ip
    BY <1>0, <1>2, PcsPlaces
<1>5. ~ IsLabel(code[i])
  <2>1. Op(code, i) = code[i].opcode
      BY <1>0, <1>2, IrShape
  <2> QED
      BY <2>1, <1>3 DEF IsLabel, Entities
<1>6. /\ Translates(p, ip, code[i], code)
      /\ At(p, ip).opcode = CompiledOpcode(Op(code, i))
      /\ Op(code, i) = code[i].opcode /\ code[i] \in IrInstructions
      /\ Op(code, i) \in IrOpcodes \ {"Label", "Trap"}
  <2>1. /\ Translates(p, K[i - 1], code[i], code)
        /\ At(p, K[i - 1]).opcode = CompiledOpcode(Op(code, i))
        /\ Op(code, i) = code[i].opcode /\ code[i] \in IrInstructions
        /\ Op(code, i) \in IrOpcodes \ {"Label", "Trap"}
      BY SMTT(30), <1>0, <1>2, <1>5, CompiledAt
  <2> QED
      BY <2>1, <1>4
<1>7. /\ At(p, ip).opcode = Renamed[code[i].opcode]
      /\ code[i].opcode \in Entities
    BY <1>3, <1>6 DEF CompiledOpcode, Renamed, Entities
<1>8. /\ code[i].opcode = "Robot" => At(p, ip).opcode = "CreateRobot"
      /\ code[i].opcode = "Target" => At(p, ip).opcode = "CreateTarget"
      /\ code[i].opcode = "Obstacle" => At(p, ip).opcode = "CreateObstacle"
    BY <1>7 DEF Renamed
<1>9. Site(p, ip) = <<code[i].int_value, code[i].int_value2>>
  <2>1. CASE code[i].opcode = "Obstacle"
      BY <2>1, <1>6, <1>8 DEF Translates, Site
  <2>2. CASE code[i].opcode \in {"Robot", "Target"}
      BY <2>2, <1>6, <1>8 DEF Translates, Site
  <2> QED
      BY <2>1, <2>2, <1>7 DEF Entities
<1>10. code[i].opcode \in {"Robot", "Target"} => Text(p, At(p, ip).a) = code[i].text
    BY <1>6, <1>8 DEF Translates, NamesString, HasAt, Text
<1> QED
    BY <1>0, <1>3, <1>6, <1>7, <1>8, <1>9, <1>10 DEF Entities, Placements

LEMMA Framed ==
    ASSUME NEW code \in Seq(IrInstructions), Structured(code), NEW p, IsCompiled(code, p),
           NEW n, n = Len(code), NEW f, f = TickBegin(code), NEW K, K = Pcs(code)
    PROVE  /\ At(p, 0).opcode = "CreateWorld"
           /\ At(p, 0).a = code[1].int_value /\ At(p, 0).b = code[1].int_value2
           /\ At(p, f - 2).opcode = "BeginTick"
           /\ At(p, K[n - 2]).opcode = "EndTick"
           /\ At(p, K[n - 2] + 1).opcode = "Jump" /\ At(p, K[n - 2] + 1).a = f - 2
           /\ At(p, K[n]).opcode = "Halt"
<1>1. n \in Nat /\ f \in Nat /\ f >= 3 /\ f <= n - 2
    BY IrShape
<1>2. /\ Op(code, 1) = "World" /\ Op(code, f) = "BeginTick" /\ Op(code, n - 1) = "EndTick"
      /\ Op(code, n) = "Jump" /\ GoesTo(code, n) = f - 1
      /\ \A i \in 1 .. n : Op(code, i) = code[i].opcode
  <2>1. Op(code, 1) = "World" /\ Op(code, f) = "BeginTick" /\ Op(code, n - 1) = "EndTick"
      BY IrShape
  <2>2. Op(code, n) = "Jump" /\ GoesTo(code, n) = f - 1
      BY IrShape
  <2>3. \A i \in 1 .. n : Op(code, i) = code[i].opcode
      BY IrShape
  <2> QED
      BY <2>1, <2>2, <2>3
<1>3. /\ K[0] = 0 /\ K[f - 1] = f - 2 /\ K[n - 1] = K[n - 2] + 1
  <2>1. 0 \in 0 .. f - 2
      BY <1>1
  <2> QED
      BY <2>1, PcsPlaces
<1>4. /\ 1 \in 1 .. n /\ f \in 1 .. n /\ n - 1 \in 1 .. n /\ n \in 1 .. n
      /\ 1 - 1 = 0 /\ n - 1 - 1 = n - 2
    BY <1>1
<1>5. \A i \in {1, f, n - 1, n} : i \in 1 .. n /\ ~ IsLabel(code[i])
    BY <1>2, <1>4 DEF IsLabel
<1>6. ASSUME NEW i \in {1, f, n - 1, n}
      PROVE  /\ Translates(p, K[i - 1], code[i], code)
             /\ At(p, K[i - 1]).opcode = CompiledOpcode(Op(code, i))
  <2>1. i \in 1 .. n /\ ~ IsLabel(code[i])
      BY <1>5
  <2> QED
      BY <2>1, CompiledAt
<1>7. /\ CompiledOpcode("World") = "CreateWorld" /\ CompiledOpcode("BeginTick") = "BeginTick"
      /\ CompiledOpcode("EndTick") = "EndTick" /\ CompiledOpcode("Jump") = "Jump"
    BY DEF CompiledOpcode, Renamed
<1>8. /\ At(p, 0).opcode = "CreateWorld"
      /\ At(p, 0).a = code[1].int_value /\ At(p, 0).b = code[1].int_value2
  <2>1. Translates(p, 0, code[1], code) /\ At(p, 0).opcode = CompiledOpcode("World")
      BY <1>2, <1>3, <1>4, <1>6
  <2> QED
      BY <2>1, <1>7 DEF Translates
<1>9. At(p, f - 2).opcode = "BeginTick"
  <2>1. At(p, K[f - 1]).opcode = CompiledOpcode("BeginTick")
      BY <1>2, <1>6
  <2> QED
      BY <2>1, <1>3, <1>7
<1>10. At(p, K[n - 2]).opcode = "EndTick"
  <2>1. At(p, K[n - 1 - 1]).opcode = CompiledOpcode("EndTick")
      BY <1>2, <1>6
  <2> QED
      BY <2>1, <1>4, <1>7
<1>11. At(p, K[n - 2] + 1).opcode = "Jump" /\ At(p, K[n - 2] + 1).a = f - 2
  <2>1. /\ Translates(p, K[n - 1], code[n], code)
        /\ At(p, K[n - 1]).opcode = CompiledOpcode("Jump")
      BY <1>2, <1>6
  <2>2. At(p, K[n - 1]).a = resolve_label(code, code[n].text)
      BY <2>1, <1>7 DEF Translates, Branches
  <2>3. resolve_label(code, code[n].text) = K[f - 1]
      BY <1>2 DEF resolve_label, GoesTo
  <2> QED
      BY <2>1, <2>2, <2>3, <1>3, <1>7
<1>12. At(p, K[n]).opcode = "Halt"
    BY DEF IsCompiled
<1> QED
    BY <1>8, <1>9, <1>10, <1>11, <1>12

\* A behaviour's instruction.
LEMMA InBody ==
    ASSUME NEW code \in Seq(IrInstructions), Structured(code), NEW p, IsCompiled(code, p),
           NEW n, n = Len(code), NEW f, f = TickBegin(code), NEW K, K = Pcs(code),
           NEW ip \in f - 1 .. K[n - 2] - 1
    PROVE  /\ At(p, ip).opcode \in BodyOpcodes
           /\ At(p, ip).opcode \in Branches => At(p, ip).a \in ip + 1 .. K[n - 2]
           /\ At(p, ip).opcode = "Stop" =>
                 ip + 1 <= K[n - 2] - 1 /\ At(p, ip + 1).opcode = "Jump"
<1>1. n \in Nat /\ f \in Nat /\ f >= 3 /\ f <= n - 2
    BY IrShape
<1>2. Counting(K, n) /\ \A i \in 1 .. n : Remains(K, i) <=> ~ IsLabel(code[i])
    BY PcsCount
<1>3. K[n - 2] \in Nat /\ K[n - 2] >= f - 1 /\ K[n] = K[n - 2] + 2
    BY PcsPlaces
<1>4. ip \in 0 .. K[n] - 1
    BY <1>1, <1>3
<1>5. PICK i \in 1 .. n : ComesFrom(code, ip, i) /\ i \in f + 1 .. n - 2
    BY <1>4, Comes
<1>6. ~ IsLabel(code[i]) /\ K[i - 1] = ip /\ K[i] = ip + 1
    BY <1>5 DEF ComesFrom
<1>7. /\ Translates(p, ip, code[i], code)
      /\ At(p, ip).opcode = CompiledOpcode(Op(code, i))
      /\ Op(code, i) = code[i].opcode
      /\ Op(code, i) \in IrOpcodes \ {"Label", "Trap"}
    BY <1>5, <1>6, CompiledAt
<1>8. /\ Op(code, i) = "Label" \/ CompiledOpcode(Op(code, i)) \in BodyOpcodes
      /\ Op(code, i) \in Branches => GoesTo(code, i) \in i + 1 .. n - 2
      /\ Op(code, i) = "Stop" => Op(code, i + 1) = "Jump"
    BY <1>5, IrShape
<1>9. At(p, ip).opcode \in BodyOpcodes
    BY <1>7, <1>8
<1>10. ASSUME At(p, ip).opcode \in Branches PROVE At(p, ip).a \in ip + 1 .. K[n - 2]
  <2>1. Op(code, i) \in Branches
      BY <1>7, <1>10, SameOpcode DEF Branches
  <2>2. PICK t : t = GoesTo(code, i)
      OBVIOUS
  <2>3. t \in i + 1 .. n - 2
      BY <2>1, <2>2, <1>8
  <2>4. At(p, ip).a = K[t]
      BY <2>2, <1>7, <1>10 DEF Translates, Branches, resolve_label, GoesTo
  <2>5. K[i] <= K[t] /\ K[t] <= K[n - 2] /\ K[t] \in Nat
    <3>1. i \in 0 .. n /\ t \in i .. n /\ t \in 0 .. n /\ n - 2 \in t .. n
        BY <2>3, <1>1
    <3> QED
        BY <3>1, <1>1, <1>2, CountsMonotone DEF Counting
  <2> QED
      BY <2>4, <2>5, <1>3, <1>6
<1>11. ASSUME At(p, ip).opcode = "Stop"
       PROVE  ip + 1 <= K[n - 2] - 1 /\ At(p, ip + 1).opcode = "Jump"
  <2>1. Op(code, i) = "Stop"
      BY <1>7, <1>11, SameOpcode
  <2>2. Op(code, i + 1) = "Jump"
      BY <2>1, <1>8
  <2>3. i + 1 \in f + 1 .. n - 2 /\ i + 1 \in 1 .. n
    <3>1. Op(code, n - 1) = "EndTick"
        BY IrShape
    <3>2. i + 1 # n - 1
        BY <3>1, <2>2
    <3> QED
        BY <3>2, <1>1, <1>5
  <2>4. PICK j : j = i + 1 /\ j - 1 = i
      BY <1>5
  <2>5. ~ IsLabel(code[j])
      BY SMTT(30), <2>2, <2>3, <2>4, IrShape DEF IsLabel
  <2>6. At(p, K[j - 1]).opcode = CompiledOpcode(Op(code, j))
      BY <2>3, <2>4, <2>5, CompiledAt
  <2>7. At(p, ip + 1).opcode = "Jump"
      BY <2>2, <2>4, <2>6, <1>6 DEF CompiledOpcode, Renamed
  <2>8. K[j] = K[i] + 1 /\ K[j] <= K[n - 2]
    <3>1. Remains(K, j)
        BY <2>3, <2>4, <2>5, <1>2
    <3>2. j \in 0 .. n /\ n - 2 \in j .. n
        BY <2>3, <2>4, <1>1
    <3>3. K[j] <= K[n - 2]
        BY <3>2, <1>1, <1>2, CountsMonotone
    <3> QED
        BY <3>1, <3>3, <2>4 DEF Remains
  <2> QED
      BY <2>7, <2>8, <1>3, <1>4, <1>6
<1> QED
    BY <1>9, <1>10, <1>11

\* The indices into the pools.
LEMMA InPools ==
    ASSUME NEW code \in Seq(IrInstructions), Structured(code), NEW p, IsCompiled(code, p),
           NEW ip \in 0 .. Len(p.code) - 1
    PROVE  /\ At(p, ip).opcode \in NamesString => At(p, ip).a \in 0 .. Len(p.strings) - 1
           /\ At(p, ip).opcode = "PushConst" =>
                 At(p, ip).a \in 0 .. Len(p.int_constants) - 1
<1>0. PICK n, K, f : n = Len(code) /\ K = Pcs(code) /\ f = TickBegin(code)
    OBVIOUS
<1>1. Len(p.code) = K[n] + 1 /\ At(p, K[n]).opcode = "Halt"
    BY <1>0 DEF IsCompiled
<1>2. K[n] \in Nat
  <2>1. K[n - 2] \in Nat /\ K[n] = K[n - 2] + 2
      BY <1>0, PcsPlaces
  <2> QED
      BY <2>1
<1>3. CASE ip = K[n]
    BY <1>1, <1>3 DEF NamesString
<1>4. CASE ip # K[n]
  <2>1. ip \in 0 .. K[n] - 1
      BY <1>1, <1>2, <1>4
  <2>2. PICK i \in 1 .. n : ComesFrom(code, ip, i)
      BY <1>0, <2>1, Comes
  <2>3. Translates(p, ip, code[i], code) /\ At(p, ip).opcode = CompiledOpcode(code[i].opcode)
      BY <1>0, <2>2, CompiledAt DEF ComesFrom
  <2> QED
      BY <2>3 DEF Translates, HasAt
<1> QED
    BY <1>3, <1>4

LEMMA CompiledLoop ==
    ASSUME NEW code \in Seq(IrInstructions), Structured(code), NEW p, IsCompiled(code, p)
    PROVE  LoopStart(p) = TickBegin(code) - 2
<1>0. PICK n, K, f : n = Len(code) /\ K = Pcs(code) /\ f = TickBegin(code)
    OBVIOUS
<1>1. n \in Nat /\ f \in Nat /\ f >= 3 /\ f <= n - 2
    BY <1>0, IrShape
<1>2. /\ K[f - 1] = f - 2 /\ K[n] = K[n - 2] + 2 /\ K[n - 2] \in Nat /\ K[n - 2] >= f - 1
    BY <1>0, PcsPlaces
<1>3. Len(p.code) - 1 = K[n] /\ At(p, K[n]).opcode = "Halt"
  <2>1. Len(p.code) = K[n] + 1 /\ At(p, K[n]).opcode = "Halt"
      BY <1>0 DEF IsCompiled
  <2> QED
      BY <2>1, <1>2
<1>4. f - 2 \in 0 .. Len(p.code) - 1 /\ At(p, f - 2).opcode = "BeginTick"
  <2>1. At(p, f - 2).opcode = "BeginTick"
      BY <1>0, Framed
  <2> QED
      BY <2>1, <1>1, <1>2, <1>3
<1>5. ASSUME NEW ip \in 0 .. Len(p.code) - 1, At(p, ip).opcode = "BeginTick"
      PROVE  ip = f - 2
  <2>1. ip # K[n]
      BY <1>3, <1>5
  <2>2. ip \in 0 .. K[n] - 1
      BY <2>1, <1>2, <1>3
  <2>3. PICK i \in 1 .. n : ComesFrom(code, ip, i)
      BY <1>0, <2>2, Comes
  <2>4. K[i - 1] = ip /\ ~ IsLabel(code[i])
      BY <1>0, <2>3 DEF ComesFrom
  <2>5. CompiledOpcode(Op(code, i)) = "BeginTick" /\ Op(code, i) \in IrOpcodes \ {"Label", "Trap"}
      BY <1>0, <1>5, <2>4, CompiledAt
  <2>6. Op(code, i) = "BeginTick"
      BY <2>5, SameOpcode
  <2>7. i = f
      BY <1>0, <2>6, IrPlaces
  <2> QED
      BY <2>4, <2>7, <1>2
<1> QED
    BY <1>0, <1>4, <1>5 DEF LoopStart

LEMMA CompiledWellFormed ==
    ASSUME NEW code \in Seq(IrInstructions), Structured(code), NEW p, IsCompiled(code, p)
    PROVE  IsProgram(p) /\ WellFormed(p)
<1>0. PICK n, K, f, L : /\ n = Len(code) /\ K = Pcs(code) /\ f = TickBegin(code)
                        /\ L = K[n - 2]
    OBVIOUS
<1>1. n \in Nat /\ f \in Nat /\ f >= 3 /\ f <= n - 2
    BY <1>0, IrShape
<1>2. K[n] = L + 2 /\ L \in Nat /\ L >= f - 1
    BY <1>0, PcsPlaces
<1>3. LoopStart(p) = f - 2 /\ Len(p.code) = L + 3
  <2>1. Len(p.code) = K[n] + 1
      BY <1>0 DEF IsCompiled
  <2> QED
      BY <2>1, <1>0, <1>2, CompiledLoop
<1>4. IsProgram(p)
    BY DEF IsCompiled, Emitted, IsProgram
<1>5. /\ At(p, 0).opcode = "CreateWorld"
      /\ At(p, 0).a = code[1].int_value /\ At(p, 0).b = code[1].int_value2
      /\ At(p, f - 2).opcode = "BeginTick"
      /\ At(p, L).opcode = "EndTick"
      /\ At(p, L + 1).opcode = "Jump" /\ At(p, L + 1).a = f - 2
      /\ At(p, L + 2).opcode = "Halt"
  <2>1. /\ At(p, 0).opcode = "CreateWorld"
        /\ At(p, 0).a = code[1].int_value /\ At(p, 0).b = code[1].int_value2
        /\ At(p, f - 2).opcode = "BeginTick"
      BY <1>0, Framed
  <2>2. At(p, L).opcode = "EndTick" /\ At(p, L + 1).opcode = "Jump" /\ At(p, L + 1).a = f - 2
      BY <1>0, Framed
  <2>3. At(p, K[n]).opcode = "Halt"
      BY <1>0, Framed
  <2> QED
      BY <2>1, <2>2, <2>3, <1>2
<1>6. code[1].int_value > 0 /\ code[1].int_value2 > 0
    BY <1>0, IrShape
<1>7. \A ip \in 1 .. f - 3 : At(p, ip).opcode \in Placements
    BY <1>0, Placed
<1>8. \A ip \in f - 1 .. L - 1 :
         /\ At(p, ip).opcode \in BodyOpcodes
         /\ At(p, ip).opcode \in Branches => At(p, ip).a \in ip + 1 .. L
         /\ At(p, ip).opcode = "Stop" => ip + 1 <= L - 1 /\ At(p, ip + 1).opcode = "Jump"
    BY <1>0, InBody
<1>9. \A ip \in 0 .. Len(p.code) - 1 :
         /\ At(p, ip).opcode \in NamesString => At(p, ip).a \in 0 .. Len(p.strings) - 1
         /\ At(p, ip).opcode = "PushConst" => At(p, ip).a \in 0 .. Len(p.int_constants) - 1
    BY InPools
<1>10. PICK e, s : e = Len(p.code) - 1 /\ s = LoopStart(p)
    OBVIOUS
<1>11. /\ e = L + 2 /\ s = f - 2 /\ e >= 4 /\ s \in 1 .. e - 3
       /\ e - 2 = L /\ e - 1 = L + 1 /\ e - 3 = L - 1 /\ s - 1 = f - 3 /\ s + 1 = f - 1
    BY <1>1, <1>2, <1>3, <1>10
<1>12. /\ At(p, 0).opcode = "CreateWorld" /\ At(p, 0).a > 0 /\ At(p, 0).b > 0
       /\ At(p, s).opcode = "BeginTick" /\ At(p, e - 2).opcode = "EndTick"
       /\ At(p, e - 1).opcode = "Jump" /\ At(p, e - 1).a = s
       /\ At(p, e).opcode = "Halt"
    BY <1>5, <1>6, <1>11
<1>13. \A ip \in 1 .. s - 1 : At(p, ip).opcode \in Placements
    BY <1>7, <1>11
<1>14. \A ip \in s + 1 .. e - 3 :
          /\ At(p, ip).opcode \in BodyOpcodes
          /\ At(p, ip).opcode \in {"Jump", "JumpIfFalse"} => At(p, ip).a \in ip + 1 .. e - 2
          /\ At(p, ip).opcode = "Stop" => ip + 1 <= e - 3 /\ At(p, ip + 1).opcode = "Jump"
    BY <1>8, <1>11 DEF Branches
<1>15. WellFormed(p)
    BY <1>9, <1>10, <1>11, <1>12, <1>13, <1>14 DEF WellFormed
<1> QED
    BY <1>4, <1>15

\* A jump is one of a behaviour, or the last instruction.
LEMMA BranchPlace ==
    ASSUME NEW code \in Seq(IrInstructions), Structured(code),
           NEW n, n = Len(code), NEW f, f = TickBegin(code), NEW i \in 1 .. n,
           Op(code, i) \in Branches
    PROVE  i = n \/ i \in f + 1 .. n - 2
<1>1. \/ i = 1 \/ i \in 2 .. f - 2 \/ i = f - 1 \/ i = f \/ i \in f + 1 .. n - 2
      \/ i = n - 1 \/ i = n
    BY IrPlaces
<1>2. Op(code, 1) = "World"
    BY IrShape
<1>3. Op(code, f - 1) = "Label" /\ Op(code, f) = "BeginTick"
    BY IrShape
<1>4. Op(code, n - 1) = "EndTick"
    BY IrShape
<1>5. i \in 2 .. f - 2 => Op(code, i) \in Entities
    BY IrPlaces
<1> QED
    BY <1>1, <1>2, <1>3, <1>4, <1>5 DEF Branches, Entities

\* A quantity that only instructions that remain change is the same after two steps
\* between which none remains.
LEMMA SameBetween ==
    ASSUME NEW n \in Nat, NEW K, Counting(K, n), NEW G,
           \A i \in 1 .. n : ~ Remains(K, i) => G[i] = G[i - 1],
           NEW i \in 0 .. n, NEW j \in i .. n, K[i] = K[j]
    PROVE  G[i] = G[j]
<1> DEFINE T == {c \in 0 .. j : c >= i => G[c] = G[i]}
<1>1. j \in Nat /\ j <= n /\ i \in Nat /\ i <= j
    OBVIOUS
<1>2. 0 \in T
    BY <1>1
<1>3. ASSUME NEW c \in 1 .. j, c - 1 \in T PROVE c \in T
  <2>1. CASE c <= i
      BY <2>1, <1>1
  <2>2. CASE c > i
    <3>1. G[c - 1] = G[i]
        BY <1>3, <2>2, <1>1
    <3>2. ~ Remains(K, c)
      <4>1. c \in i .. n /\ c \in 0 .. n /\ j \in c .. n /\ i < c
          BY <1>1, <2>2
      <4>2. K[c] <= K[j]
          BY <4>1, CountsMonotone
      <4>3. Remains(K, c) => K[i] < K[c]
          BY <4>1, CountsMonotone
      <4>4. K[c] \in Nat /\ K[i] \in Nat
          BY <4>1 DEF Counting
      <4> QED
          BY <4>2, <4>3, <4>4
    <3>3. c \in 1 .. n
        BY <1>1
    <3> QED
        BY <3>1, <3>2, <3>3
  <2> QED
      BY <2>1, <2>2, <1>1
<1>4. 0 .. j \subseteq T
    BY <1>1, <1>2, <1>3, UpTo
<1> QED
    BY <1>1, <1>4

\* The stack is as high before an instruction of the bytecode as before the one it
\* comes from, and before the one a jump leads to as at the label.
LEMMA CompiledBalanced ==
    ASSUME NEW code, Shaped(code), NEW p, IsCompiled(code, p)
    PROVE  Balanced(p)
<1>0. PICK n, K, h, L, f : /\ n = Len(code) /\ K = Pcs(code) /\ h = IrHeights(code)
                           /\ L = K[n] /\ f = TickBegin(code)
    OBVIOUS
<1>1. code \in Seq(IrInstructions) /\ Structured(code) /\ Level(code)
    BY DEF Shaped
<1>2. n \in Nat /\ f \in Nat /\ f >= 3 /\ f <= n - 2
    BY <1>0, <1>1, IrShape
<1>3. Counting(K, n) /\ \A i \in 1 .. n : Remains(K, i) <=> ~ IsLabel(code[i])
    BY <1>0, <1>1, PcsCount
<1>4. L \in Nat /\ Len(p.code) = L + 1 /\ At(p, L).opcode = "Halt" /\ K[0] = 0 /\ L > 0
  <2>1. K[n - 2] \in Nat /\ K[n] = K[n - 2] + 2
      BY <1>0, <1>1, PcsPlaces
  <2>2. Len(p.code) = K[n] + 1 /\ At(p, K[n]).opcode = "Halt"
      BY <1>0 DEF IsCompiled
  <2> QED
      BY <2>1, <2>2, <1>0, <1>3 DEF Counting
<1>5. \A i \in 1 .. n :
         /\ h[i] \in Nat
         /\ h[i] >= Pops(CompiledOpcode(code[i].opcode))
         /\ i = 1 => h[i] = 0
         /\ code[i].opcode \in Clean \cup Turns \cup {"Label"} => h[i] = 0
         /\ code[i].opcode = "JumpIfFalse" => h[i] = 1
         /\ i < n => h[i + 1] = IrHeightAfter(code[i].opcode, h[i])
    BY <1>0, <1>1, IrLevel
<1>6. Op(code, n) = "Jump" /\ \A i \in 1 .. n : Op(code, i) = code[i].opcode
    BY <1>0, <1>1, IrShape
<1> DEFINE g == [i \in 0 .. n |-> IF i < n THEN h[i + 1] ELSE 0]
<1>7. PICK G : G = g
    OBVIOUS
<1>8. /\ \A i \in 0 .. n - 1 : G[i] = h[i + 1]
      /\ G[n] = 0 /\ \A i \in 1 .. n : G[i - 1] = h[i]
  <2>1. \A i \in 0 .. n - 1 : i \in 0 .. n /\ i < n
      BY <1>2
  <2>2. \A i \in 1 .. n : i - 1 \in 0 .. n - 1 /\ i - 1 + 1 = i
      BY <1>2
  <2>3. \A i \in 0 .. n - 1 : G[i] = h[i + 1]
      BY <2>1, <1>7
  <2>4. G[n] = 0
      BY <1>2, <1>7
  <2>5. ASSUME NEW i \in 1 .. n PROVE G[i - 1] = h[i]
    <3>1. G[i - 1] = h[i - 1 + 1]
        BY <2>2, <2>3
    <3> QED
        BY <3>1, <2>2
  <2> QED
      BY <2>3, <2>4, <2>5
<1>9. \A i \in 1 .. n : ~ Remains(K, i) => G[i] = G[i - 1]
  <2> SUFFICES ASSUME NEW i \in 1 .. n, ~ Remains(K, i) PROVE G[i] = G[i - 1]
      OBVIOUS
  <2>1. code[i].opcode = "Label"
      BY <1>3 DEF IsLabel
  <2>2. i # n
      BY <2>1, <1>6
  <2>3. i \in 0 .. n - 1 /\ i < n
      BY <2>2, <1>2
  <2>4. IrHeightAfter("Label", h[i]) = h[i]
      BY <1>5 DEF IrHeightAfter, HeightAfter, CompiledOpcode, Renamed, Pops, Pushing,
                  ArithOps, CompareOps, EqualityOps
  <2> QED
      BY <2>1, <2>3, <2>4, <1>5, <1>8
<1> DEFINE Step(ip) == CHOOSE j \in 0 .. n : K[j] = ip
           hh == [ip \in 0 .. L |-> G[Step(ip)]]
<1>10. PICK H : H = hh
    OBVIOUS
<1>11. \A j \in 0 .. n : K[j] \in 0 .. L /\ H[K[j]] = G[j]
  <2> SUFFICES ASSUME NEW j \in 0 .. n PROVE K[j] \in 0 .. L /\ H[K[j]] = G[j]
      OBVIOUS
  <2>1. K[j] \in 0 .. L
    <3>1. n \in j .. n
        BY <1>2
    <3>2. K[j] <= K[n]
        BY <3>1, <1>2, <1>3, CountsMonotone
    <3> QED
        BY <3>2, <1>0, <1>3, <1>4 DEF Counting
  <2>2. PICK k \in 0 .. n : k = Step(K[j]) /\ K[k] = K[j]
      OBVIOUS
  <2>3. H[K[j]] = G[k]
      BY <2>1, <2>2, <1>10
  <2>4. CASE k <= j
    <3>1. j \in k .. n
        BY <2>4, <1>2
    <3> QED
        BY <3>1, <2>1, <2>2, <2>3, <1>2, <1>3, <1>9, SameBetween
  <2>5. CASE j <= k
    <3>1. k \in j .. n
        BY <2>5, <1>2
    <3> QED
        BY <3>1, <2>1, <2>2, <2>3, <1>2, <1>3, <1>9, SameBetween
  <2> QED
      BY <2>4, <2>5
<1> HIDE DEF hh, g, Step
<1>12. H[L] = 0
    BY <1>0, <1>2, <1>8, <1>11
<1>13. ASSUME NEW ip \in 0 .. L, ip # L
       PROVE  /\ H[ip] \in Nat /\ H[ip] >= Pops(At(p, ip).opcode)
              /\ At(p, ip).opcode \in Clean => H[ip] = 0
              /\ At(p, ip).opcode = "JumpIfFalse" => H[ip] = 1
              /\ At(p, ip).opcode \in Branches =>
                    At(p, ip).a \in 0 .. L /\ H[At(p, ip).a] = 0
              /\ H[ip + 1] = HeightAfter(At(p, ip).opcode, H[ip])
  <2>1. ip \in 0 .. L - 1
      BY <1>4, <1>13
  <2>2. PICK i \in 1 .. n : ComesFrom(code, ip, i)
      BY <1>0, <1>1, <2>1, Comes
  <2>3. ~ IsLabel(code[i]) /\ K[i - 1] = ip /\ K[i] = ip + 1
      BY <1>0, <2>2 DEF ComesFrom
  <2>4. /\ Translates(p, ip, code[i], code)
        /\ At(p, ip).opcode = CompiledOpcode(Op(code, i))
        /\ Op(code, i) = code[i].opcode /\ Op(code, i) \in IrOpcodes \ {"Label", "Trap"}
      BY <1>0, <1>1, <2>3, CompiledAt
  <2>5. i - 1 \in 0 .. n /\ i \in 0 .. n
      BY <1>2
  <2>6. H[ip] = h[i] /\ H[ip + 1] = G[i]
      BY <2>3, <2>5, <1>8, <1>11
  <2>7. G[i] = HeightAfter(At(p, ip).opcode, h[i])
    <3>1. CASE i < n
      <4>1. G[i] = h[i + 1]
          BY <3>1, <1>2, <1>8
      <4> QED
          BY <4>1, <3>1, <2>4, <1>5 DEF IrHeightAfter
    <3>2. CASE i = n
      <4>1. At(p, ip).opcode = "Jump"
          BY <3>2, <2>4, <1>6 DEF CompiledOpcode, Renamed
      <4>2. h[i] = 0
          BY <3>2, <1>5, <1>6 DEF Clean
      <4>3. HeightAfter("Jump", 0) = 0
        <5>1. Pops("Jump") = 0 /\ "Jump" \notin Pushing /\ "Jump" # "Pop"
            BY DEF Pops, Pushing, ArithOps, CompareOps, EqualityOps
        <5> QED
            BY <5>1 DEF HeightAfter
      <4> QED
          BY <4>1, <4>2, <4>3, <3>2, <1>8
    <3> QED
        BY <3>1, <3>2, <1>2
  <2>8. At(p, ip).opcode \in Clean => Op(code, i) \in Clean
    <3>1. Op(code, i) # "LoadAgent" => CompiledOpcode(Op(code, i)) # "LoadAgent"
        BY DEF CompiledOpcode, Renamed
    <3>2. CompiledOpcode(Op(code, i)) # "Halt"
        BY <2>4 DEF CompiledOpcode, Renamed, IrOpcodes, BodyOpcodes, Entities, Moves, Turns
    <3> QED
        BY <3>1, <3>2, <2>4, SameOpcode DEF Clean
  <2>9. At(p, ip).opcode = "JumpIfFalse" => Op(code, i) = "JumpIfFalse"
      BY <2>4, SameOpcode
  <2>10. ASSUME At(p, ip).opcode \in Branches
         PROVE  At(p, ip).a \in 0 .. L /\ H[At(p, ip).a] = 0
    <3>1. Op(code, i) \in Branches
        BY <2>4, <2>10, SameOpcode DEF Branches
    <3>2. PICK t : t = GoesTo(code, i)
        OBVIOUS
    <3>3. t \in 1 .. n /\ code[t].opcode = "Label"
      <4>1. t # 0
        <5>1. CASE i = n
            BY <5>1, <3>2, <1>0, <1>1, <1>2, IrShape
        <5>2. CASE i # n
          <6>3. i \in f + 1 .. n - 2
              BY <5>2, <3>1, <1>0, <1>1, BranchPlace
          <6>4. GoesTo(code, i) \in i + 1 .. n - 2
              BY <6>3, <3>1, <1>0, <1>1, IrShape
          <6> QED
              BY <6>4, <3>2
        <5> QED
            BY <5>1, <5>2
      <4>2. t \in 0 .. n /\ (t # 0 => IsLabel(code[t]))
          BY <3>2, <1>0, <1>1, LabelFound DEF GoesTo
      <4> QED
          BY <4>1, <4>2 DEF IsLabel
    <3>4. At(p, ip).a = K[t]
        BY <3>2, <2>4, <2>10, <1>0 DEF Translates, Branches, resolve_label, GoesTo
    <3>5. H[K[t]] = G[t] /\ K[t] \in 0 .. L
      <4>1. t \in 0 .. n
          BY <3>3
      <4> QED
          BY <4>1, <1>11
    <3>6. G[t] = 0
      <4>1. h[t] = 0 /\ G[t - 1] = h[t]
          BY <3>3, <1>5, <1>8
      <4>2. ~ Remains(K, t)
          BY <3>3, <1>3 DEF IsLabel
      <4> QED
          BY <4>1, <4>2, <3>3, <1>9
    <3> QED
        BY <3>4, <3>5, <3>6
  <2>11. /\ h[i] \in Nat /\ h[i] >= Pops(At(p, ip).opcode)
         /\ Op(code, i) \in Clean => h[i] = 0
         /\ Op(code, i) = "JumpIfFalse" => h[i] = 1
      BY <2>4, <1>5
  <2> QED
      BY <2>6, <2>7, <2>8, <2>9, <2>10, <2>11
<1>14. /\ 0 >= Pops("Halt") /\ "Halt" \notin Branches
    BY DEF Pops, ArithOps, CompareOps, EqualityOps, Branches
<1>15. H[0] = 0
  <2>1. H[K[0]] = G[0]
      BY <1>2, <1>11
  <2>2. G[0] = h[1]
      BY <1>2, <1>8
  <2> QED
      BY <2>1, <2>2, <1>2, <1>4, <1>5
<1>16. IsHeight(p, H)
  <2>1. Len(p.code) - 1 = L
      BY <1>4
  <2>2. ASSUME NEW ip \in 0 .. L
        PROVE  /\ H[ip] \in Nat
               /\ H[ip] >= Pops(At(p, ip).opcode)
               /\ At(p, ip).opcode \in Clean => H[ip] = 0
               /\ At(p, ip).opcode = "JumpIfFalse" => H[ip] = 1
               /\ At(p, ip).opcode \in {"Jump", "JumpIfFalse"} => H[At(p, ip).a] = 0
               /\ ip < L => H[ip + 1] = HeightAfter(At(p, ip).opcode, H[ip])
    <3>1. CASE ip = L
        BY <3>1, <1>4, <1>12, <1>14 DEF Branches
    <3>2. CASE ip # L
        BY <3>2, <1>13 DEF Branches
    <3> QED
        BY <3>1, <3>2
  <2> QED
      BY <2>1, <2>2, <1>15 DEF IsHeight
<1>17. \A ip \in 0 .. Len(p.code) - 1 :
          At(p, ip).opcode \in Branches => At(p, ip).a \in 0 .. Len(p.code) - 1
  <2>1. Len(p.code) - 1 = L
      BY <1>4
  <2>2. ASSUME NEW ip \in 0 .. L, At(p, ip).opcode \in Branches
        PROVE  At(p, ip).a \in 0 .. L
      BY <2>2, <1>4, <1>13, <1>14
  <2> QED
      BY <2>1, <2>2
<1>18. IsProgram(p) /\ Len(p.code) > 0
    BY <1>1, <1>4, CompiledWellFormed
<1> QED
    BY <1>16, <1>17, <1>18, BalancedIf

LEMMA PlacingIs ==
    ASSUME NEW code, Placing(code), NEW i \in 2 .. TickBegin(code) - 2
    PROVE  /\ <<code[i].int_value, code[i].int_value2>>
                  \in (0 .. code[1].int_value - 1) \X (0 .. code[1].int_value2 - 1)
           /\ \A j \in 2 .. i - 1 :
                 /\ <<code[j].int_value, code[j].int_value2>>
                       # <<code[i].int_value, code[i].int_value2>>
                 /\ code[i].opcode \in {"Robot", "Target"} /\ code[i].opcode = code[j].opcode
                       => code[i].text # code[j].text
BY DEF Placing

LEMMA CompiledPlaceable ==
    ASSUME NEW code \in Seq(IrInstructions), Structured(code), Placing(code),
           NEW p, IsCompiled(code, p)
    PROVE  Placeable(p)
<1>0. PICK f, s, width, height : /\ f = TickBegin(code) /\ s = LoopStart(p)
                                 /\ width = code[1].int_value /\ height = code[1].int_value2
    OBVIOUS
<1>1. f \in Nat /\ f >= 3 /\ s = f - 2 /\ s - 1 = f - 3
  <2>1. f \in Nat /\ f >= 3
      BY <1>0, IrShape
  <2>2. s = f - 2
      BY <1>0, CompiledLoop
  <2> QED
      BY <2>1, <2>2
<1>2. At(p, 0).a = width /\ At(p, 0).b = height
    BY <1>0, Framed
<1>3. \A ip \in 1 .. f - 3 :
         /\ At(p, ip).opcode = CompiledOpcode(code[ip + 1].opcode)
         /\ code[ip + 1].opcode \in Entities
         /\ Site(p, ip) = <<code[ip + 1].int_value, code[ip + 1].int_value2>>
         /\ code[ip + 1].opcode \in {"Robot", "Target"} =>
               Text(p, At(p, ip).a) = code[ip + 1].text
  <2> TAKE ip \in 1 .. f - 3
  <2>1. Op(code, ip + 1) \in Entities
      BY <1>0, Placed
  <2>2. Op(code, ip + 1) = code[ip + 1].opcode
    <3>1. TickBegin(code) <= Len(code) - 2 /\ Len(code) \in Nat
        BY IrShape
    <3>2. ip + 1 \in 1 .. Len(code)
        BY <3>1, <1>0, <1>1
    <3> QED
        BY <3>2, IrShape
  <2> QED
      BY <2>1, <2>2, <1>0, Placed
<1>4. \A op \in Entities : /\ CompiledOpcode(op) = "CreateRobot" <=> op = "Robot"
                           /\ CompiledOpcode(op) = "CreateTarget" <=> op = "Target"
    BY DEF CompiledOpcode, Renamed, Entities
<1>5. ASSUME NEW ip \in 1 .. s - 1
      PROVE  /\ Site(p, ip) \in (0 .. width - 1) \X (0 .. height - 1)
             /\ \A before \in 1 .. ip - 1 :
                   /\ Site(p, before) # Site(p, ip)
                   /\ /\ At(p, ip).opcode \in {"CreateRobot", "CreateTarget"}
                      /\ At(p, before).opcode = At(p, ip).opcode
                      => Text(p, At(p, before).a) # Text(p, At(p, ip).a)
  <2>1. ip \in 1 .. f - 3 /\ ip + 1 \in 2 .. f - 2
      BY <1>1
  <2>2. Site(p, ip) \in (0 .. width - 1) \X (0 .. height - 1)
    <3>1. PICK i : i = ip + 1
        OBVIOUS
    <3>2. <<code[i].int_value, code[i].int_value2>> \in (0 .. width - 1) \X (0 .. height - 1)
        BY <1>0, <2>1, <3>1, PlacingIs
    <3> QED
        BY <2>1, <3>1, <3>2, <1>3
  <2>3. ASSUME NEW before \in 1 .. ip - 1
        PROVE  /\ Site(p, before) # Site(p, ip)
               /\ /\ At(p, ip).opcode \in {"CreateRobot", "CreateTarget"}
                  /\ At(p, before).opcode = At(p, ip).opcode
                  => Text(p, At(p, before).a) # Text(p, At(p, ip).a)
    <3>1. PICK i, j : i = ip + 1 /\ j = before + 1
        OBVIOUS
    <3>2. before \in 1 .. f - 3 /\ i \in 2 .. f - 2 /\ j \in 2 .. i - 1
        BY <2>1, <3>1, <1>1
    <3>3. PICK x, y : x = code[i] /\ y = code[j]
        OBVIOUS
    <3>4. /\ <<y.int_value, y.int_value2>> # <<x.int_value, x.int_value2>>
          /\ x.opcode \in {"Robot", "Target"} /\ x.opcode = y.opcode => x.text # y.text
        BY <1>0, <3>2, <3>3, PlacingIs
    <3>5. /\ At(p, ip).opcode = CompiledOpcode(x.opcode) /\ x.opcode \in Entities
          /\ At(p, before).opcode = CompiledOpcode(y.opcode) /\ y.opcode \in Entities
          /\ Site(p, ip) = <<x.int_value, x.int_value2>>
          /\ Site(p, before) = <<y.int_value, y.int_value2>>
          /\ x.opcode \in {"Robot", "Target"} => Text(p, At(p, ip).a) = x.text
          /\ y.opcode \in {"Robot", "Target"} => Text(p, At(p, before).a) = y.text
        BY <2>1, <3>1, <3>2, <3>3, <1>3
    <3> QED
        BY <3>4, <3>5, <1>4
  <2> QED
      BY <2>2, <2>3
<1> QED
    BY <1>0, <1>2, <1>5 DEF Placeable

\* compile: its hypothesis holds of code of the shape, every jump names a label; and
\* its bytecode is well-formed and balanced, and builds its world when the code does.
THEOREM CompiledIsSound ==
    ASSUME NEW code, Shaped(code)
    PROVE  /\ Compilable(code)
           /\ IsProgram(compile(code)) /\ WellFormed(compile(code))
           /\ Balanced(compile(code))
           /\ Placing(code) => Placeable(compile(code))
<1>1. code \in Seq(IrInstructions) /\ Structured(code)
    BY DEF Shaped
<1>2. IsCompiled(code, compile(code))
  <2>1. \A i \in 1 .. Len(code) : IsLabel(code[i]) \/ Compiles(code[i])
      BY <1>1, ShapedCompiles
  <2> QED
      BY <2>1, <1>1, CompiledFrom
<1>3. Compilable(code)
  <2> SUFFICES ASSUME NEW i \in 1 .. Len(code), code[i].opcode \in Branches
               PROVE  GoesTo(code, i) # 0
      BY <1>1 DEF Compilable, HasLabel, GoesTo, Branches
  <2>0. PICK n, f : n = Len(code) /\ f = TickBegin(code)
      OBVIOUS
  <2>1. n \in Nat /\ f \in Nat /\ f >= 3 /\ f <= n - 2
      BY <1>1, <2>0, IrShape
  <2>2. Op(code, i) \in Branches
      BY <1>1, IrShape
  <2>3. i = n \/ i \in f + 1 .. n - 2
      BY <1>1, <2>0, <2>2, BranchPlace
  <2>4. CASE i = n
    <3>1. GoesTo(code, n) = f - 1
        BY <1>1, <2>0, IrShape
    <3> QED
        BY <3>1, <2>1, <2>4
  <2>5. CASE i \in f + 1 .. n - 2
    <3>1. GoesTo(code, i) \in i + 1 .. n - 2
        BY <1>1, <2>0, <2>2, <2>5, IrShape
    <3> QED
        BY <3>1, <2>1, <2>5
  <2> QED
      BY <2>3, <2>4, <2>5
<1>4. IsProgram(compile(code)) /\ WellFormed(compile(code))
    BY <1>1, <1>2, CompiledWellFormed
<1>5. Balanced(compile(code))
    BY <1>2, CompiledBalanced
<1>6. Placing(code) => Placeable(compile(code))
    BY <1>1, <1>2, CompiledPlaceable
<1> QED
    BY <1>3, <1>4, <1>5, <1>6

\* Code that begins the same builds the same.
LEMMA SamePlacing ==
    ASSUME NEW code \in Seq(IrInstructions), Structured(code), Placing(code), NEW out,
           SameStart(code, out)
    PROVE  Placing(out)
<1>0. PICK f : f = TickBegin(code)
    OBVIOUS
<1>1. f \in Nat /\ f >= 3
    BY <1>0, IrShape
<1>2. TickBegin(out) = f /\ \A i \in 1 .. f : out[i] = code[i]
    BY <1>0 DEF SameStart
<1>3. out[1] = code[1]
    BY <1>1, <1>2
<1>4. ASSUME NEW i \in 2 .. f - 2
      PROVE  out[i] = code[i] /\ \A j \in 2 .. i - 1 : out[j] = code[j]
  <2>1. i \in 1 .. f /\ \A j \in 2 .. i - 1 : j \in 1 .. f
      BY <1>1
  <2> QED
      BY <2>1, <1>2
<1>5. ASSUME NEW i \in 2 .. f - 2
      PROVE  /\ <<out[i].int_value, out[i].int_value2>>
                    \in (0 .. out[1].int_value - 1) \X (0 .. out[1].int_value2 - 1)
             /\ \A j \in 2 .. i - 1 :
                   /\ <<out[j].int_value, out[j].int_value2>>
                         # <<out[i].int_value, out[i].int_value2>>
                   /\ out[i].opcode \in {"Robot", "Target"} /\ out[i].opcode = out[j].opcode
                         => out[i].text # out[j].text
  <2>1. PICK x, w : x = code[i] /\ w = code[1]
      OBVIOUS
  <2>2. out[i] = x /\ out[1] = w
      BY <2>1, <1>3, <1>4
  <2>3. <<x.int_value, x.int_value2>> \in (0 .. w.int_value - 1) \X (0 .. w.int_value2 - 1)
      BY <2>1, <1>0, PlacingIs
  <2>4. ASSUME NEW j \in 2 .. i - 1
        PROVE  /\ <<out[j].int_value, out[j].int_value2>> # <<x.int_value, x.int_value2>>
               /\ x.opcode \in {"Robot", "Target"} /\ x.opcode = out[j].opcode
                     => x.text # out[j].text
    <3>1. PICK y : y = code[j]
        OBVIOUS
    <3>2. out[j] = y
        BY <3>1, <1>4
    <3>3. /\ <<y.int_value, y.int_value2>> # <<x.int_value, x.int_value2>>
          /\ x.opcode \in {"Robot", "Target"} /\ x.opcode = y.opcode => x.text # y.text
        BY <3>1, <2>1, <1>0, PlacingIs
    <3> QED
        BY <3>2, <3>3
  <2> QED
      BY <2>2, <2>3, <2>4
<1> QED
    BY <1>2, <1>5 DEF Placing
=============================================================================
