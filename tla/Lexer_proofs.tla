------------------------------ MODULE Lexer_proofs ------------------------------
(***************************************************************************)
(* Theorems about tokenize() for every text over every set of characters   *)
(* and letters.  Closed is what the lexer relies on between two tokens: no *)
(* comment that began before is open here, unless the line ends.           *)
(***************************************************************************)
EXTENDS Lexer, SequenceTheorems, FiniteSetTheorems, WellFoundedInduction, TLAPS

IsSequence(s) == \E S : s \in Seq(S)

Types ==
    /\ source \in Seq(Characters)
    /\ position \in 0 .. Len(source)
    /\ line \in Nat /\ column \in Nat
    /\ IsSequence(tokens) /\ IsSequence(starts) /\ Len(starts) = Len(tokens)
    /\ status \in {"scanning", "done", "aborted"}

End(i) == starts[i] + Len(tokens[i].lexeme)

\* The tokens are behind each other and before the position.
Behind ==
    /\ \A i \in DOMAIN tokens : /\ starts[i] \in Nat
                                /\ Len(tokens[i].lexeme) \in Nat
                                /\ End(i) <= position
    /\ \A i, j \in DOMAIN tokens : i < j => End(i) <= starts[j]

Slashes(i) == CharAt(i) = "/" /\ CharAt(i + 1) = "/"

Closed ==
    \A i \in 0 .. position - 1 : Slashes(i) =>
        \/ \E j \in i .. position - 1 : CharAt(j) = Newline
        \/ position = Len(source) \/ CharAt(position) = Newline

Tiled ==
    \A p \in 0 .. position - 1 :
        Significant(p) <=> \E i \in DOMAIN tokens : p \in Covers(i)

\* A token of this type and text that ends before end is as long as it can be.
Longest(type, lexeme, end) ==
    /\ type \in {"Keyword", "Identifier"} => ~is_identifier_part(CharAt(end))
    /\ type = "Keyword" <=> lexeme \in Keywords
    /\ type = "Integer" => ~is_digit_char(CharAt(end))
    /\ lexeme \in {<<ch>> : ch \in MayDouble} => CharAt(end) # "="

AllLongest == \A i \in DOMAIN tokens : Longest(tokens[i].type, tokens[i].lexeme, End(i))

Inv == Types /\ Behind /\ Closed /\ Tiled /\ AllLongest /\ PlacesAreTrue

-----------------------------------------------------------------------------
(* The text.                                                                *)

LEMMA SameText ==
    ASSUME source' = source
    PROVE  /\ \A p : CharAt(p)' = CharAt(p) /\ (Slashes(p)' <=> Slashes(p))
           /\ \A p : Significant(p)' <=> Significant(p)
           /\ \A l, c, p : IsPlaceOf(l, c, p)' <=> IsPlaceOf(l, c, p)
           /\ \A type, lexeme, end : Longest(type, lexeme, end)' <=> Longest(type, lexeme, end)
<1>1. \A p : CharAt(p)' = CharAt(p) /\ (Slashes(p)' <=> Slashes(p))
    BY DEF CharAt, Slashes
<1>2. \A p : Significant(p)' <=> Significant(p)
    BY <1>1 DEF Significant, Commented
<1>3. \A p : Newlines(p)' = Newlines(p)
    BY <1>1 DEF Newlines
<1>4. \A l, c, p : IsPlaceOf(l, c, p)' <=> IsPlaceOf(l, c, p)
    BY <1>3 DEF IsPlaceOf
<1>5. \A type, lexeme, end : Longest(type, lexeme, end)' <=> Longest(type, lexeme, end)
    BY <1>1 DEF Longest, is_identifier_part, is_digit_char
<1> QED BY <1>1, <1>2, <1>4, <1>5

LEMMA CharacterOrNull ==
    ASSUME Types, NEW i \in Int, 0 <= i
    PROVE  IF i < Len(source) THEN CharAt(i) \in Characters ELSE CharAt(i) = Null
<1>1. Len(source) \in Nat
    BY LenProperties DEF Types
<1> QED BY <1>1 DEF Types, CharAt

LEMMA LeastNat ==
    ASSUME NEW S, S \subseteq Nat, S # {}
    PROVE  \E j \in S : \A k \in S : j <= k
<1> DEFINE R == OpToRel(<, Nat)
<1>1. IsWellFoundedOn(R, Nat)
    BY NatLessThanWellFounded
<1>2. R = {ss \in Nat \X Nat : ss[1] < ss[2]}
    BY DEF OpToRel
<1> HIDE DEF R
<1>3. PICK j \in S : \A k \in S : ~ (<<k, j>> \in R)
    BY <1>1, WFMin
<1>4. ASSUME NEW k \in S PROVE j <= k
    <2>1. ~ (<<k, j>> \in R) /\ j \in Nat /\ k \in Nat
        BY <1>3
    <2>2. ~ (k < j)
        BY <1>2, <2>1
    <2> QED BY <2>1, <2>2
<1> QED BY <1>3, <1>4

\* Reading goes to the first character of another class, or to the end.
LEMMA EndOfProperties ==
    ASSUME Types, NEW class
    PROVE  /\ EndOf(class) \in position .. Len(source)
           /\ \A i \in position .. EndOf(class) - 1 : CharAt(i) \in class
           /\ EndOf(class) = Len(source) \/ CharAt(EndOf(class)) \notin class
<1> DEFINE ends == {e \in position .. Len(source) : e = Len(source) \/ CharAt(e) \notin class}
<1>1. Len(source) \in Nat /\ position \in 0 .. Len(source)
    BY LenProperties DEF Types
<1>2. ends \subseteq Nat /\ Len(source) \in ends
    BY <1>1
<1>3. PICK e \in ends : \A k \in ends : e <= k
    BY <1>2, LeastNat
<1>4. \A i \in position .. e - 1 : CharAt(i) \in class
    <2>1. ASSUME NEW i \in position .. e - 1, CharAt(i) \notin class PROVE FALSE
        <3>1. i \in ends /\ i < e /\ i \in Int /\ e \in Int
            BY <1>1, <1>3, <2>1
        <3>2. e <= i
            BY <1>3, <3>1
        <3> QED BY <3>1, <3>2
    <2> QED BY <2>1
<1>5. \E end \in position .. Len(source) :
         /\ \A i \in position .. end - 1 : CharAt(i) \in class
         /\ end = Len(source) \/ CharAt(end) \notin class
    BY <1>3, <1>4
<1> QED BY <1>5 DEF EndOf

LEMMA Appended ==
    ASSUME NEW s, NEW e, IsSequence(s)
    PROVE  /\ IsSequence(Append(s, e))
           /\ Len(s) \in Nat /\ Len(Append(s, e)) = Len(s) + 1
           /\ DOMAIN s = 1 .. Len(s)
           /\ DOMAIN Append(s, e) = 1 .. Len(s) + 1
           /\ Append(s, e)[Len(s) + 1] = e
           /\ \A i \in 1 .. Len(s) : Append(s, e)[i] = s[i]
<1>1. PICK S : s \in Seq(S)
    BY DEF IsSequence
<1>2. s \in Seq(S \cup {e}) /\ Len(s) \in Nat /\ DOMAIN s = 1 .. Len(s)
    BY <1>1, LenProperties
<1>3. /\ Append(s, e) \in Seq(S \cup {e})
      /\ Len(Append(s, e)) = Len(s) + 1
      /\ \A i \in 1 .. Len(s) : Append(s, e)[i] = s[i]
      /\ Append(s, e)[Len(s) + 1] = e
    BY <1>2, AppendProperties
<1>4. DOMAIN Append(s, e) = 1 .. Len(s) + 1
    BY <1>3, LenProperties
<1> QED BY <1>2, <1>3, <1>4 DEF IsSequence

-----------------------------------------------------------------------------
(* Lines and columns.                                                       *)

\* Along a line, the column goes with the position.
LEMMA AlongALine ==
    ASSUME Types, IsPlaceOf(line, column, position), NEW end \in position .. Len(source),
           \A i \in position .. end - 1 : CharAt(i) # Newline
    PROVE  IsPlaceOf(line, column + (end - position), end)
<1>1. position \in Nat /\ column \in Nat /\ end \in Nat /\ position <= end
    BY LenProperties DEF Types
<1>2. Newlines(end) = Newlines(position)
    BY <1>1 DEF Newlines
<1> DEFINE c == column + (end - position)
           before == Newlines(position)
<1>3. /\ line = 1 + Cardinality(before)
      /\ \A i \in before : i < position - (column - 1)
      /\ position - (column - 1) = 0 \/ position - column \in before
    BY DEF IsPlaceOf
<1>4. /\ end - c = position - column
      /\ end - (c - 1) = position - (column - 1)
    BY <1>1
<1>5. before = Newlines(end)
    BY <1>2
<1> HIDE DEF c, before
<1>6. IsPlaceOf(line, c, end)
    BY <1>3, <1>4, <1>5, Zenon DEF IsPlaceOf
<1> QED BY <1>6 DEF c

\* A newline begins a line.
LEMMA OverANewline ==
    ASSUME Types, IsPlaceOf(line, column, position), CharAt(position) = Newline
    PROVE  IsPlaceOf(line + 1, 1, position + 1)
<1>1. position \in Nat /\ line \in Nat
    BY LenProperties DEF Types
<1>2. Newlines(position + 1) = Newlines(position) \cup {position}
    BY <1>1 DEF Newlines
<1>3. position \notin Newlines(position) /\ Newlines(position) \subseteq 0 .. position - 1
    BY <1>1 DEF Newlines
<1>4. IsFiniteSet(Newlines(position))
    <2>1. IsFiniteSet(0 .. position - 1)
        BY <1>1, FS_Interval
    <2>2. Newlines(position) \in SUBSET (0 .. position - 1)
        BY <1>3
    <2> QED BY <2>1, <2>2, FS_Subset
<1>5. Cardinality(Newlines(position + 1)) = Cardinality(Newlines(position)) + 1
    BY <1>2, <1>3, <1>4, FS_AddElement
<1>6. Cardinality(Newlines(position)) \in Nat
    BY <1>4, FS_CardinalityType
<1>7. line + 1 = 1 + Cardinality(Newlines(position + 1))
    BY <1>1, <1>5, <1>6 DEF IsPlaceOf
<1> DEFINE p == position + 1
<1>8. \A i \in Newlines(p) : i < p - (1 - 1)
    BY <1>1 DEF Newlines
<1>9. p - 1 \in Newlines(p)
    BY <1>1, <1>2
<1>10. line + 1 = 1 + Cardinality(Newlines(p))
    BY <1>7
<1> HIDE DEF p
<1>11. IsPlaceOf(line + 1, 1, p)
    BY <1>8, <1>9, <1>10, Zenon DEF IsPlaceOf
<1> QED BY <1>11 DEF p

-----------------------------------------------------------------------------
(* A turn that makes no token.                                              *)

LEMMA NoToken ==
    ASSUME Inv, source' = source, tokens' = tokens, starts' = starts, error' = error,
           status' = status, NEW end \in position .. Len(source), position' = end,
           line' \in Nat, column' \in Nat, IsPlaceOf(line', column', end),
           \A p \in position .. end - 1 : ~Significant(p),
           Closed'
    PROVE  Inv'
<1>1. position \in Nat /\ end \in Nat /\ position <= end /\ Len(source) \in Nat
    BY LenProperties DEF Inv, Types
<1>2. Types'
    BY <1>1 DEF Inv, Types
<1>3. Behind'
    <2>1. \A i \in DOMAIN tokens : End(i)' = End(i)
        BY DEF End
    <2>2. \A i \in DOMAIN tokens : End(i) <= end
        BY <1>1 DEF Inv, Behind, End
    <2> QED BY <2>1, <2>2 DEF Inv, Behind
<1>4. Tiled'
    <2>1. ASSUME NEW p \in 0 .. end - 1
          PROVE  Significant(p) <=> \E i \in DOMAIN tokens : p \in Covers(i)
        <3>1. CASE p < position
            BY <1>1, <3>1 DEF Inv, Tiled
        <3>2. CASE p >= position
            <4>1. ~Significant(p)
                BY <1>1, <3>2
            <4>2. \A i \in DOMAIN tokens : p \notin Covers(i)
                BY <1>1, <3>2 DEF Inv, Behind, End, Covers
            <4> QED BY <4>1, <4>2
        <3> QED BY <1>1, <3>1, <3>2
    <2>2. \A i \in DOMAIN tokens : Covers(i)' = Covers(i)
        BY DEF Covers
    <2> QED BY <2>1, <2>2, SameText DEF Tiled
<1>5. AllLongest'
    BY SameText DEF Inv, AllLongest, End
<1>6. PlacesAreTrue'
    BY SameText DEF Inv, PlacesAreTrue
<1> QED BY <1>2, <1>3, <1>4, <1>5, <1>6 DEF Inv

LEMMA SkipBlankStep ==
    ASSUME Inv, SkipBlank
    PROVE  Inv'
<1>1. /\ position \in Nat /\ Len(source) \in Nat /\ position < Len(source)
      /\ line \in Nat /\ column \in Nat
    BY LenProperties DEF Inv, Types, SkipBlank, is_at_end
<1>2. current \in Blank /\ current = CharAt(position)
    BY DEF SkipBlank, current
<1>3. /\ line' \in Nat /\ column' \in Nat /\ position' = position + 1
      /\ source' = source /\ tokens' = tokens /\ starts' = starts
      /\ error' = error /\ status' = status
    BY <1>1 DEF SkipBlank
<1>4. IsPlaceOf(line', column', position + 1)
    <2>1. IsPlaceOf(line, column, position) /\ Types
        BY DEF Inv, PlacesAreTrue
    <2>2. CASE current = Newline
        BY <1>2, <2>1, <2>2, OverANewline DEF SkipBlank
    <2>3. CASE current # Newline
        <3>1. IsPlaceOf(line, column + (position + 1 - position), position + 1)
            BY <1>1, <1>2, <2>1, <2>3, AlongALine
        <3>2. column + (position + 1 - position) = column + 1
            BY <1>1
        <3> QED BY <2>3, <3>1, <3>2 DEF SkipBlank
    <2> QED BY <2>2, <2>3
<1>5. \A p \in position .. position : ~Significant(p)
    BY <1>1, <1>2 DEF Significant
<1>6. ASSUME NEW i \in 0 .. position, Slashes(i)
      PROVE  \E j \in i .. position : CharAt(j) = Newline
    <2>1. i # position
        BY <1>2, <1>6 DEF Slashes, Blank, Newline
    <2> QED BY <1>1, <1>6, <2>1 DEF Inv, Closed
<1>7. Closed'
    BY <1>1, <1>3, <1>6, SameText DEF Closed
<1> QED BY <1>1, <1>3, <1>4, <1>5, <1>7, NoToken

LEMMA SkipCommentStep ==
    ASSUME Inv, SkipComment
    PROVE  Inv'
<1> DEFINE end == EndOf(Characters \ {Newline})
<1>1. /\ position \in Nat /\ Len(source) \in Nat /\ position < Len(source)
      /\ line \in Nat /\ column \in Nat
    BY LenProperties DEF Inv, Types, SkipComment, is_at_end
<1>2. /\ end \in position .. Len(source)
      /\ \A i \in position .. end - 1 : CharAt(i) \in Characters \ {Newline}
      /\ end = Len(source) \/ CharAt(end) \notin Characters \ {Newline}
    BY EndOfProperties DEF Inv
<1>3. /\ position' = end /\ line' = line /\ column' = column + (end - position)
      /\ source' = source /\ tokens' = tokens /\ starts' = starts
      /\ error' = error /\ status' = status
    BY DEF SkipComment, MoveTo
<1>4. end = Len(source) \/ CharAt(end) = Newline
    BY <1>1, <1>2, CharacterOrNull DEF Inv
<1> HIDE DEF end
<1>5. IsPlaceOf(line', column', end)
    BY <1>2, <1>3, AlongALine DEF Inv, PlacesAreTrue
<1>6. \A p \in position .. end - 1 : ~Significant(p)
    <2>1. CharAt(position) = "/" /\ CharAt(position + 1) = "/"
        BY DEF SkipComment, current, peek_next
    <2> QED BY <1>1, <1>2, <2>1 DEF Significant, Commented
<1>7. Closed'
    BY <1>3, <1>4, SameText DEF Closed
<1>8. column' \in Nat
    BY <1>1, <1>2, <1>3
<1> QED BY <1>1, <1>2, <1>3, <1>5, <1>6, <1>7, <1>8, NoToken

-----------------------------------------------------------------------------
(* A turn that makes a token.                                               *)

\* What a token may be: nothing blank, no comment, and as long as possible.
IsToken(type, end) ==
    /\ \A i \in position .. end - 1 : CharAt(i) \notin Blank /\ ~Slashes(i)
    /\ Longest(type, SubSeq(source, position + 1, end), end)

\* A piece of the text, character by character.
LEMMA TextAt ==
    ASSUME Types, NEW p \in Nat, NEW end \in p .. Len(source)
    PROVE  LET text == SubSeq(source, p + 1, end)
           IN  /\ Len(text) = end - p
               /\ \A i \in 1 .. end - p : text[i] = CharAt(p + i - 1)
<1> DEFINE m == p + 1
           text == SubSeq(source, m, end)
<1>1. end \in Nat /\ p <= end /\ end <= Len(source) /\ Len(source) \in Nat
    BY LenProperties DEF Types
<1>2. m \in Int /\ end \in Int /\ \A i \in m .. end : source[i] \in Characters
    BY <1>1, ElementOfSeq DEF Types
<1>3. /\ m <= end <=> p < end
      /\ end - m + 1 = end - p
      /\ \A i \in 1 .. end - p : m + i - 1 = p + i
    BY <1>1
<1> HIDE DEF m
<1>4. /\ Len(text) = IF m <= end THEN end - m + 1 ELSE 0
      /\ \A i \in 1 .. end - m + 1 : text[i] = source[m + i - 1]
    BY <1>2, SubSeqProperties, SMTT(30)
<1> HIDE DEF text
<1>5. Len(text) = end - p
    BY <1>1, <1>3, <1>4
<1>6. \A i \in 1 .. end - p : text[i] = source[p + i]
    BY <1>3, <1>4
<1>7. \A i \in 1 .. end - p : CharAt(p + i - 1) = source[p + i]
    BY <1>1 DEF CharAt
<1> QED BY <1>5, <1>6, <1>7 DEF m, text

LEMMA TokenText ==
    ASSUME Types, NEW end \in position .. Len(source)
    PROVE  LET text == SubSeq(source, position + 1, end)
           IN  Len(text) = end - position /\ (position < end => text[1] = current)
<1> DEFINE text == SubSeq(source, position + 1, end)
<1>1. position \in Nat /\ end \in Nat /\ position <= end
    BY LenProperties DEF Types
<1>2. /\ Len(text) = end - position
      /\ \A i \in 1 .. end - position : text[i] = CharAt(position + i - 1)
    BY <1>1, TextAt
<1> HIDE DEF text
<1>3. ASSUME position < end PROVE text[1] = current
    <2>1. 1 \in 1 .. end - position /\ position + 1 - 1 = position
        BY <1>1, <1>3
    <2> QED BY <1>2, <2>1 DEF current
<1> QED BY <1>2, <1>3 DEF text

LEMMA TokenStep ==
    ASSUME Inv, NEW type, NEW value, NEW end \in position .. Len(source),
           Emit(type, end, value), MoveTo(end), IsToken(type, end), source' = source,
           status' \in {"scanning", "done", "aborted"},
           \/ error' = error
           \/ type = "Error" /\ error' = <<line, column>>
    PROVE  Inv'
<1> DEFINE text == SubSeq(source, position + 1, end)
<1>0. PICK n : n = Len(tokens)
    OBVIOUS
<1>1. /\ position \in Nat /\ end \in Nat /\ position <= end /\ end <= Len(source)
      /\ Len(source) \in Nat /\ line \in Nat /\ column \in Nat
      /\ position' = end /\ line' = line /\ column' = column + (end - position)
    BY LenProperties DEF Inv, Types, MoveTo
<1>2. /\ n \in Nat /\ IsSequence(tokens') /\ Len(tokens') = n + 1
      /\ DOMAIN tokens = 1 .. n /\ DOMAIN tokens' = 1 .. n + 1
      /\ tokens'[n + 1] = [type |-> type, lexeme |-> text, line |-> line,
                           column |-> column, int_value |-> value]
      /\ \A i \in 1 .. n : tokens'[i] = tokens[i]
    BY <1>0, Appended DEF Inv, Types, Emit
<1>3. /\ IsSequence(starts') /\ Len(starts') = n + 1
      /\ starts'[n + 1] = position
      /\ \A i \in 1 .. n : starts'[i] = starts[i]
    BY <1>0, Appended DEF Inv, Types, Emit
<1>4. Len(text) = end - position
    BY <1>1, TokenText DEF Inv
<1> HIDE DEF text
<1>5. Types'
    BY <1>0, <1>1, <1>2, <1>3 DEF Inv, Types
<1>6. /\ \A i \in 1 .. n : End(i)' = End(i) /\ End(i) \in Nat /\ End(i) <= position
      /\ End(n + 1)' = end
    <2>1. \A i \in 1 .. n : starts[i] \in Nat /\ Len(tokens[i].lexeme) \in Nat
                            /\ End(i) <= position
        BY <1>2 DEF Inv, Behind
    <2>2. \A i \in 1 .. n : End(i)' = End(i) /\ End(i) \in Nat
        BY <1>2, <1>3, <2>1 DEF End
    <2>3. End(n + 1)' = end
        BY <1>1, <1>2, <1>3, <1>4 DEF End
    <2> QED BY <2>1, <2>2, <2>3
<1>7. Behind'
    <2>1. \A i \in 1 .. n + 1 : i \in 1 .. n \/ i = n + 1
        BY <1>2
    <2>2. ASSUME NEW i \in 1 .. n + 1
          PROVE  starts'[i] \in Nat /\ Len(tokens'[i].lexeme) \in Nat /\ End(i)' <= end
        <3>1. CASE i \in 1 .. n
            <4>1. starts[i] \in Nat /\ Len(tokens[i].lexeme) \in Nat
                BY <1>2, <3>1 DEF Inv, Behind
            <4>2. End(i)' \in Nat /\ End(i)' <= position
                BY <1>6, <3>1
            <4>3. End(i)' <= end
                BY <1>1, <4>2
            <4> QED BY <1>2, <1>3, <3>1, <4>1, <4>3
        <3>2. CASE i = n + 1
            <4>1. starts'[i] = position /\ tokens'[i].lexeme = text
                BY <1>2, <1>3, <3>2
            <4>2. end - position \in Nat /\ end <= end
                BY <1>1
            <4> QED BY <1>1, <1>4, <1>6, <3>2, <4>1, <4>2
        <3> QED BY <2>1, <3>1, <3>2
    <2>3. ASSUME NEW i \in 1 .. n + 1, NEW j \in 1 .. n + 1, i < j
          PROVE  End(i)' <= starts'[j]
        <3>1. i \in 1 .. n
            BY <1>2, <2>3
        <3>2. CASE j \in 1 .. n
            BY <1>2, <1>3, <1>6, <2>3, <3>1, <3>2 DEF Inv, Behind
        <3>3. CASE j = n + 1
            BY <1>3, <1>6, <3>1, <3>3
        <3> QED BY <2>1, <3>2, <3>3
    <2> QED BY <1>1, <1>2, <2>2, <2>3 DEF Behind
<1>8. Closed'
    <2>1. ASSUME NEW i \in 0 .. end - 1, Slashes(i)
          PROVE  \/ \E j \in i .. end - 1 : CharAt(j) = Newline
                 \/ end = Len(source) \/ CharAt(end) = Newline
        <3>1. i < position
            BY <1>1, <2>1 DEF IsToken
        <3>2. CASE \E j \in i .. position - 1 : CharAt(j) = Newline
            BY <1>1, <3>2
        <3>3. CASE position = Len(source)
            BY <1>1, <3>3
        <3>4. CASE CharAt(position) = Newline
            <4>1. CASE position = end
                BY <3>4, <4>1
            <4>2. CASE position < end
                <5>1. position \in position .. end - 1 /\ Newline \in Blank
                    BY <1>1, <4>2 DEF Blank
                <5> QED BY <3>4, <5>1 DEF IsToken
            <4> QED BY <1>1, <4>1, <4>2
        <3>5. i \in 0 .. position - 1
            BY <1>1, <3>1
        <3>6. \/ \E j \in i .. position - 1 : CharAt(j) = Newline
              \/ position = Len(source) \/ CharAt(position) = Newline
            BY <2>1, <3>5 DEF Inv, Closed
        <3> QED BY <3>2, <3>3, <3>4, <3>6
    <2> QED BY <1>1, <2>1, SameText DEF Closed
<1>9. \A i \in position .. end - 1 : Significant(i)
    <2>1. ASSUME NEW p \in position .. end - 1, Commented(p)
          PROVE  FALSE
        <3>1. PICK i \in 0 .. p : Slashes(i) /\ \A j \in i .. p : CharAt(j) # Newline
            BY <2>1 DEF Commented, Slashes
        <3>2. i < position
            BY <1>1, <3>1 DEF IsToken
        <3>3. CharAt(position) # Newline /\ position # Len(source)
            BY <1>1, <3>1, <3>2
        <3> QED BY <1>1, <3>1, <3>2, <3>3 DEF Inv, Closed
    <2> QED BY <2>1 DEF Significant, IsToken
<1>10. Tiled'
    <2>1. /\ \A i \in 1 .. n : Covers(i)' = Covers(i)
          /\ Covers(n + 1)' = position .. end - 1
        <3>1. Covers(n + 1)' = position .. position + Len(text) - 1
            BY <1>2, <1>3 DEF Covers
        <3>2. position + Len(text) - 1 = end - 1
            BY <1>1, <1>4
        <3> QED BY <1>2, <1>3, <3>1, <3>2 DEF Covers
    <2>2. ASSUME NEW p \in 0 .. end - 1
          PROVE  Significant(p) <=> \E i \in 1 .. n + 1 : p \in Covers(i)'
        <3>1. CASE p < position
            <4>1. Significant(p) <=> \E i \in 1 .. n : p \in Covers(i)
                BY <1>1, <1>2, <3>1 DEF Inv, Tiled
            <4>2. p \notin Covers(n + 1)'
                BY <1>1, <2>1, <3>1
            <4>3. \A i \in 1 .. n + 1 : i \in 1 .. n \/ i = n + 1
                BY <1>2
            <4>4. \A i \in 1 .. n : i \in 1 .. n + 1
                BY <1>2
            <4> QED BY <2>1, <4>1, <4>2, <4>3, <4>4
        <3>2. CASE p >= position
            <4>1. p \in position .. end - 1 /\ n + 1 \in 1 .. n + 1
                BY <1>1, <1>2, <3>2
            <4> QED BY <1>9, <2>1, <4>1
        <3> QED BY <1>1, <3>1, <3>2
    <2> QED BY <1>1, <1>2, <2>2, SameText DEF Tiled
<1>11. AllLongest'
    <2>1. \A i \in 1 .. n + 1 : i \in 1 .. n \/ i = n + 1
        BY <1>2
    <2>2. ASSUME NEW i \in 1 .. n + 1
          PROVE  Longest(tokens'[i].type, tokens'[i].lexeme, End(i)')
        <3>1. CASE i \in 1 .. n
            BY <1>2, <1>6, <3>1 DEF Inv, AllLongest
        <3>2. CASE i = n + 1
            <4>1. Longest(type, text, end)
                BY DEF IsToken, text
            <4> QED BY <1>2, <1>6, <3>2, <4>1
        <3> QED BY <2>1, <3>1, <3>2
    <2> QED BY <1>2, <2>2, SameText DEF AllLongest
<1>12. PlacesAreTrue'
    <2>1. IsPlaceOf(line, column + (end - position), end)
        <3>1. \A i \in position .. end - 1 : CharAt(i) # Newline
            BY DEF IsToken, Blank
        <3> QED BY <3>1, AlongALine DEF Inv, PlacesAreTrue
    <2>2. \A i \in 1 .. n + 1 : i \in 1 .. n \/ i = n + 1
        BY <1>2
    <2>3. ASSUME NEW i \in 1 .. n + 1
          PROVE  IsPlaceOf(tokens'[i].line, tokens'[i].column, starts'[i])
        <3>1. CASE i \in 1 .. n
            BY <1>2, <1>3, <3>1 DEF Inv, PlacesAreTrue
        <3>2. CASE i = n + 1
            BY <1>2, <1>3, <3>2 DEF Inv, PlacesAreTrue
        <3> QED BY <2>2, <3>1, <3>2
    <2>4. error' # << >> => \E i \in 1 .. n + 1 :
              tokens'[i].type = "Error" /\ error' = <<tokens'[i].line, tokens'[i].column>>
        <3>1. CASE error' = error
            <4>1. \A i \in 1 .. n : i \in 1 .. n + 1
                BY <1>2
            <4> QED BY <1>2, <3>1, <4>1 DEF Inv, PlacesAreTrue
        <3>2. CASE type = "Error" /\ error' = <<line, column>>
            <4>1. n + 1 \in 1 .. n + 1
                BY <1>2
            <4> QED BY <1>2, <3>2, <4>1
        <3> QED BY <3>1, <3>2
    <2> QED BY <1>1, <1>2, <2>1, <2>3, <2>4, SameText DEF PlacesAreTrue
<1> QED BY <1>5, <1>7, <1>8, <1>10, <1>11, <1>12 DEF Inv

-----------------------------------------------------------------------------
(* The kinds of token.                                                      *)

\* The classes of characters are disjoint, and the null character is in none.
LEMMA Classes ==
    ASSUME NEW c
    PROVE  /\ c \in Letters => c \notin Digits /\ c \notin Blank /\ c \notin Single
                               /\ c \notin MayDouble /\ c # Null
           /\ c \in Digits => c \notin Blank /\ c \notin Single /\ c \notin MayDouble
                              /\ c # Null
           /\ c \in Single \cup MayDouble => c \notin Blank /\ c # Null
           /\ c \in {"/", "="} => c \in Single \cup MayDouble
           /\ "/" \notin MayDouble /\ "=" \notin Single /\ "=" # Null
           /\ Newline \in Blank
<1>1. c \in Letters => c \notin Digits /\ c \notin Blank /\ c \notin Single
                       /\ c \notin MayDouble /\ c # Null
    BY CharactersAssumption
<1>2. /\ c \in Digits => c \notin Blank /\ c \notin Single /\ c \notin MayDouble
                         /\ c # Null
      /\ c \in Single \cup MayDouble => c \notin Blank /\ c # Null
    BY DEF Digits, Blank, Newline, Single, MayDouble, Null
<1>3. /\ c \in {"/", "="} => c \in Single \cup MayDouble
      /\ "/" \notin MayDouble /\ "=" \notin Single /\ "=" # Null
      /\ Newline \in Blank
    BY DEF Blank, Single, MayDouble, Null
<1> QED BY <1>1, <1>2, <1>3

\* Only a text that begins with a letter is a keyword.
LEMMA KeywordsBeginWithLetters ==
    ASSUME NEW text \in Keywords
    PROVE  text[1] \in Letters
<1>1. text \in Seq(Letters) /\ text # << >>
    BY CharactersAssumption
<1>2. 1 \in 1 .. Len(text)
    BY <1>1, EmptySeq, LenProperties
<1> QED BY <1>1, <1>2, ElementOfSeq

LEMMA IdentifierStep ==
    ASSUME Inv, scan_identifier_or_keyword
    PROVE  Inv'
<1> DEFINE class == {ch \in Characters : is_identifier_part(ch)}
           end == EndOf(class)
           text == SubSeq(source, position + 1, end)
<1>1. /\ end \in position .. Len(source)
      /\ \A i \in position .. end - 1 : CharAt(i) \in class
      /\ end = Len(source) \/ CharAt(end) \notin class
    BY EndOfProperties DEF Inv
<1>2. /\ position \in Nat /\ Len(source) \in Nat /\ position < Len(source)
      /\ current = CharAt(position) /\ current \in Letters /\ current \in Characters
    BY LenProperties, CharacterOrNull
    DEF Inv, Types, scan_identifier_or_keyword, AtToken, is_at_end, current,
        is_identifier_start
<1>3. /\ Emit(keyword_type(text), end, 0) /\ MoveTo(end) /\ source' = source
      /\ error' = error /\ status' = status
    BY DEF scan_identifier_or_keyword
<1>4. current \in class
    BY <1>2 DEF is_identifier_part
<1>5. ~is_identifier_part(CharAt(end))
    <2>1. CASE end = Len(source)
        <3>1. CharAt(end) = Null
            BY <1>2, <2>1, CharacterOrNull DEF Inv
        <3> QED BY <3>1, Classes DEF is_identifier_part
    <2>2. CASE end < Len(source)
        <3>1. CharAt(end) \in Characters /\ CharAt(end) \notin class
            BY <1>1, <1>2, <2>2, CharacterOrNull DEF Inv
        <3> QED BY <3>1
    <2> QED BY <1>1, <1>2, <2>1, <2>2
<1>6. \A i \in position .. end - 1 : CharAt(i) \notin Blank /\ ~Slashes(i)
    BY <1>1, Classes DEF is_identifier_part, Slashes
<1> HIDE DEF class, end
<1>7. position < end
    BY <1>1, <1>2, <1>4
<1>8. text[1] \in Letters
    BY <1>1, <1>2, <1>7, TokenText DEF Inv
<1> HIDE DEF text
<1>9. text \notin {<<ch>> : ch \in MayDouble}
    BY <1>8, Classes
<1>10. /\ keyword_type(text) = "Keyword" <=> text \in Keywords
       /\ keyword_type(text) # "Integer" /\ keyword_type(text) # "Error"
    BY DEF keyword_type
<1>11. Longest(keyword_type(text), text, end)
    BY <1>5, <1>9, <1>10 DEF Longest
<1>12. IsToken(keyword_type(text), end)
    BY <1>6, <1>11 DEF IsToken, text
<1> QED BY <1>1, <1>3, <1>12, TokenStep DEF Inv, Types

\* A number that is no int ends the scan where it is.
LEMMA SameScan ==
    ASSUME Inv, source' = source, position' = position, line' = line, column' = column,
           error' = error, tokens' = tokens, starts' = starts,
           status' \in {"scanning", "done", "aborted"}
    PROVE  Inv'
<1>1. Types'
    BY DEF Inv, Types
<1>2. Behind'
    BY DEF Inv, Behind, End
<1>3. Closed' /\ Tiled' /\ AllLongest' /\ PlacesAreTrue'
    BY SameText DEF Inv, Closed, Tiled, Covers, AllLongest, End, PlacesAreTrue
<1> QED BY <1>1, <1>2, <1>3 DEF Inv

LEMMA IntegerStep ==
    ASSUME Inv, scan_integer
    PROVE  Inv'
<1> DEFINE class == {ch \in Characters : is_digit_char(ch)}
           end == EndOf(class)
           text == SubSeq(source, position + 1, end)
<1>1. /\ end \in position .. Len(source)
      /\ \A i \in position .. end - 1 : CharAt(i) \in class
      /\ end = Len(source) \/ CharAt(end) \notin class
    BY EndOfProperties DEF Inv
<1>2. /\ position \in Nat /\ Len(source) \in Nat /\ position < Len(source)
      /\ current = CharAt(position) /\ current \in Digits /\ current \in Characters
    BY LenProperties, CharacterOrNull
    DEF Inv, Types, scan_integer, AtToken, is_at_end, current, is_digit_char
<1>3. CASE ~(ValueOf(text) <= MaxInt)
    <2>1. status' = "aborted" /\ UNCHANGED <<source, position, line, column, error,
                                            tokens, starts>>
        BY <1>3 DEF scan_integer
    <2> QED BY <2>1, SameScan
<1>4. CASE ValueOf(text) <= MaxInt
    <2>1. /\ Emit("Integer", end, ValueOf(text)) /\ MoveTo(end) /\ source' = source
          /\ error' = error /\ status' = status
        BY <1>4 DEF scan_integer
    <2>2. current \in class
        BY <1>2 DEF is_digit_char
    <2>3. ~is_digit_char(CharAt(end))
        <3>1. CASE end = Len(source)
            <4>1. CharAt(end) = Null
                BY <1>2, <3>1, CharacterOrNull DEF Inv
            <4> QED BY <4>1, Classes DEF is_digit_char
        <3>2. CASE end < Len(source)
            <4>1. CharAt(end) \in Characters /\ CharAt(end) \notin class
                BY <1>1, <1>2, <3>2, CharacterOrNull DEF Inv
            <4> QED BY <4>1
        <3> QED BY <1>1, <1>2, <3>1, <3>2
    <2>4. \A i \in position .. end - 1 : CharAt(i) \notin Blank /\ ~Slashes(i)
        BY <1>1, Classes DEF is_digit_char, Slashes
    <2> HIDE DEF class, end
    <2>5. position < end
        BY <1>1, <1>2, <2>2
    <2>6. text[1] \in Digits
        BY <1>1, <1>2, <2>5, TokenText DEF Inv
    <2> HIDE DEF text
    <2>7. text \notin {<<ch>> : ch \in MayDouble} /\ text \notin Keywords
        BY <2>6, Classes, KeywordsBeginWithLetters
    <2>8. Longest("Integer", text, end)
        BY <2>3, <2>7 DEF Longest
    <2>9. IsToken("Integer", end)
        BY <2>4, <2>8 DEF IsToken, text
    <2> QED BY <1>1, <2>1, <2>9, TokenStep DEF Inv, Types
<1> QED BY <1>3, <1>4

\* A token of one or two characters that are neither blank nor letters.
LEMMA OtherToken ==
    ASSUME Inv, AtToken, current \notin Letters, NEW end \in {position + 1, position + 2},
           NEW type, type \notin {"Keyword", "Identifier", "Integer"},
           end <= Len(source),
           end = position + 2 => peek_next = "=",
           end = position + 1 => ~(current \in MayDouble /\ peek_next = "=")
    PROVE  end \in position .. Len(source) /\ IsToken(type, end)
<1> DEFINE text == SubSeq(source, position + 1, end)
<1>1. /\ position \in Nat /\ Len(source) \in Nat /\ position < Len(source)
      /\ current = CharAt(position) /\ peek_next = CharAt(position + 1)
      /\ current \notin Blank /\ ~Slashes(position)
    BY LenProperties DEF Inv, Types, AtToken, is_at_end, current, peek_next, Slashes
<1>2. end \in position .. Len(source) /\ position < end
    BY <1>1
<1>3. \A i \in position .. end - 1 : CharAt(i) \notin Blank /\ ~Slashes(i)
    <2>1. ASSUME NEW i \in position .. end - 1
          PROVE  i = position \/ (i = position + 1 /\ end = position + 2)
        BY <1>1
    <2>2. end = position + 2 => CharAt(position + 1) \notin Blank /\ ~Slashes(position + 1)
        BY <1>1, Classes DEF Slashes
    <2> QED BY <1>1, <2>1, <2>2
<1>4. text[1] = current /\ Len(text) = end - position
    BY <1>2, TokenText DEF Inv
<1> HIDE DEF text
<1>5. text \notin Keywords
    BY <1>4, KeywordsBeginWithLetters
<1>6. text \in {<<ch>> : ch \in MayDouble} => CharAt(end) # "="
    <2>1. ASSUME NEW ch \in MayDouble, text = <<ch>> PROVE CharAt(end) # "="
        <3>1. text[1] = ch /\ Len(text) = 1
            BY <2>1
        <3>2. end - position = 1
            BY <1>4, <3>1
        <3>3. end = position + 1
            BY <1>1, <3>2
        <3> QED BY <1>1, <1>4, <2>1, <3>1, <3>3
    <2> QED BY <2>1
<1>7. Longest(type, text, end)
    BY <1>5, <1>6 DEF Longest
<1> QED BY <1>2, <1>3, <1>7 DEF IsToken, text

LEMMA OperatorStep ==
    ASSUME Inv, scan_operator
    PROVE  Inv'
<1> DEFINE end == IF current \in MayDouble /\ peek_next = "=" THEN position + 2
                  ELSE position + 1
<1>1. /\ AtToken /\ current \in Single \cup MayDouble
      /\ Emit("Operator", end, 0) /\ MoveTo(end) /\ source' = source
      /\ error' = error /\ status' = status
    BY DEF scan_operator
<1>2. /\ position \in Nat /\ Len(source) \in Nat /\ position < Len(source)
      /\ peek_next = CharAt(position + 1)
    BY <1>1, LenProperties DEF Inv, Types, AtToken, is_at_end, peek_next
<1>3. end <= Len(source)
    <2>1. peek_next = "=" => position + 1 < Len(source)
        BY <1>2, CharacterOrNull, Classes DEF Inv
    <2> QED BY <1>2, <2>1
<1>4. current \notin Letters
    BY <1>1, Classes
<1>5. /\ end \in {position + 1, position + 2}
      /\ end = position + 2 => peek_next = "="
      /\ end = position + 1 => ~(current \in MayDouble /\ peek_next = "=")
    BY <1>2
<1> HIDE DEF end
<1>6. end \in position .. Len(source) /\ IsToken("Operator", end)
    BY <1>1, <1>3, <1>4, <1>5, OtherToken
<1> QED BY <1>1, <1>6, TokenStep DEF Inv, Types

LEMMA ErrorStep ==
    ASSUME Inv, error_token
    PROVE  Inv'
<1> DEFINE end == position + 1
<1>1. /\ AtToken /\ current \notin Letters \cup Digits \cup Single \cup MayDouble
      /\ Emit("Error", end, 0) /\ MoveTo(end) /\ source' = source
      /\ error' = <<line, column>> /\ status' = "done"
    BY DEF error_token
<1>2. position \in Nat /\ Len(source) \in Nat /\ position < Len(source)
    BY <1>1, LenProperties DEF Inv, Types, AtToken, is_at_end
<1>3. end \in {position + 1, position + 2} /\ end # position + 2 /\ end <= Len(source)
    BY <1>2
<1> HIDE DEF end
<1>4. end \in position .. Len(source) /\ IsToken("Error", end)
    BY <1>1, <1>3, OtherToken
<1> QED BY <1>1, <1>4, TokenStep

LEMMA EndOfFileStep ==
    ASSUME Inv, EndOfFile
    PROVE  Inv'
<1>1. /\ position \in Nat /\ position = Len(source) /\ column \in Nat
      /\ Emit("EndOfFile", position, 0) /\ status' = "done"
      /\ UNCHANGED <<source, position, line, column, error>>
    BY LenProperties DEF Inv, Types, EndOfFile, is_at_end
<1>2. position \in position .. Len(source) /\ MoveTo(position)
    BY <1>1 DEF MoveTo
<1>3. SubSeq(source, position + 1, position) = << >>
    BY <1>1, SubSeqEmpty
<1>4. << >> \notin Keywords /\ << >> \notin {<<ch>> : ch \in MayDouble}
    BY CharactersAssumption
<1>5. Longest("EndOfFile", << >>, position)
    BY <1>4 DEF Longest
<1>6. IsToken("EndOfFile", position)
    <2>1. \A i \in position .. position - 1 : FALSE
        BY <1>1
    <2> QED BY <1>3, <1>5, <2>1 DEF IsToken
<1> QED BY <1>1, <1>2, <1>6, TokenStep

-----------------------------------------------------------------------------
(* Numbers.  ValueOf is a recursive function: that it exists, and what it    *)
(* is, is shown with the least prefix for which it would not be so.          *)

LEMMA DigitsCount ==
    ASSUME NEW c \in Digits
    PROVE  DigitValue[c] \in 0 .. 9
<1> DEFINE names == <<"0", "1", "2", "3", "4", "5", "6", "7", "8", "9">>
<1>1. \E n \in 0 .. 9 : c = names[n + 1]
    BY DEF Digits
<1>2. DigitValue[c] = CHOOSE n \in 0 .. 9 : c = names[n + 1]
    BY DEF DigitValue
<1> HIDE DEF names
<1> QED BY <1>1, <1>2

\* What a value function is: it goes over the digits from the left.
Counts(value, digits, k) ==
    /\ value \in [0 .. k -> Nat]
    /\ value[0] = 0
    /\ \A n \in 1 .. k : value[n] = 10 * value[n - 1] + DigitValue[digits[n]]

LEMMA SomeCount ==
    ASSUME NEW digits, NEW N \in Nat, \A i \in 1 .. N : digits[i] \in Digits
    PROVE  \E value : Counts(value, digits, N)
<1> DEFINE bad == {k \in 0 .. N : ~ \E value : Counts(value, digits, k)}
<1> SUFFICES ASSUME ~ \E value : Counts(value, digits, N) PROVE FALSE
    OBVIOUS
<1>1. bad \subseteq Nat /\ N \in bad
    OBVIOUS
<1>2. PICK k \in bad : \A j \in bad : k <= j
    BY <1>1, LeastNat
<1>3. k \in 0 .. N /\ ~ \E value : Counts(value, digits, k)
    BY <1>2
<1>4. k # 0
    <2>1. Counts([n \in 0 .. 0 |-> 0], digits, 0)
        BY DEF Counts
    <2> QED BY <1>3, <2>1
<1>5. k - 1 \in 0 .. N /\ k - 1 \notin bad
    BY <1>2, <1>3, <1>4
<1>6. PICK f : Counts(f, digits, k - 1)
    BY <1>5
<1>7. DigitValue[digits[k]] \in Nat
    BY <1>3, <1>4, DigitsCount
<1> DEFINE g == [n \in 0 .. k |-> IF n = k THEN 10 * f[k - 1] + DigitValue[digits[k]] ELSE f[n]]
<1>8. Counts(g, digits, k)
    <2>1. k \in Nat /\ k - 1 \in Nat /\ k >= 1
        BY <1>3, <1>4
    <2>2. g \in [0 .. k -> Nat]
        BY <2>1, <1>6, <1>7 DEF Counts
    <2>3. g[0] = 0
        BY <2>1, <1>6 DEF Counts
    <2>4. ASSUME NEW n \in 1 .. k PROVE g[n] = 10 * g[n - 1] + DigitValue[digits[n]]
        BY <2>1, <1>6 DEF Counts
    <2> QED BY <2>2, <2>3, <2>4 DEF Counts
<1> QED BY <1>3, <1>8

LEMMA ValueCounts ==
    ASSUME NEW digits, Len(digits) \in Nat, \A i \in 1 .. Len(digits) : digits[i] \in Digits
    PROVE  \E value : Counts(value, digits, Len(digits)) /\ ValueOf(digits) = value[Len(digits)]
<1> DEFINE N == Len(digits)
           Def(f) == f = [n \in 0 .. N |->
                            IF n = 0 THEN 0 ELSE 10 * f[n - 1] + DigitValue[digits[n]]]
           g == CHOOSE f : Def(f)
<1>1. PICK v : Counts(v, digits, N)
    BY SomeCount
<1>2. Def(v)
    BY <1>1 DEF Counts
<1>3. Def(g)
    BY <1>2
<1>4. ValueOf(digits) = g[N]
    BY DEF ValueOf
<1> HIDE DEF g
<1>5. g[0] = 0 /\ \A n \in 1 .. N : g[n] = 10 * g[n - 1] + DigitValue[digits[n]]
    BY <1>3
<1>6. g = v
    <2> DEFINE differ == {n \in 0 .. N : g[n] # v[n]}
    <2> SUFFICES ASSUME differ # {} PROVE FALSE
        BY <1>2, <1>3
    <2>0. differ \subseteq Nat
        OBVIOUS
    <2>1. PICK k \in differ : \A j \in differ : k <= j
        BY <2>0, LeastNat
    <2>2. k \in 0 .. N /\ g[k] # v[k] /\ (k > 0 => g[k - 1] = v[k - 1])
        BY <2>1
    <2> QED BY <2>2, <1>1, <1>5 DEF Counts
<1> QED BY <1>1, <1>4, <1>6

\* A number is at least what its last digits say.
LEMMA LastDigitsCount ==
    ASSUME NEW digits, Len(digits) \in Nat, \A i \in 1 .. Len(digits) : digits[i] \in Digits,
           NEW ending, Len(ending) \in Nat, Len(ending) <= Len(digits),
           \A i \in 1 .. Len(ending) :
               ending[i] = digits[i + (Len(digits) - Len(ending))]
    PROVE  ValueOf(ending) \in Nat /\ ValueOf(ending) <= ValueOf(digits)
<1> DEFINE N == Len(ending)
           m == Len(digits) - Len(ending)
<1>1. N \in Nat /\ m \in Nat /\ Len(digits) = m + N
      /\ \A i \in 1 .. N : i + m \in 1 .. Len(digits) /\ ending[i] = digits[i + m]
    OBVIOUS
<1>2. \A i \in 1 .. N : ending[i] \in Digits
    BY <1>1
<1>3. PICK v : Counts(v, digits, Len(digits)) /\ ValueOf(digits) = v[Len(digits)]
    BY ValueCounts
<1>4. PICK w : Counts(w, ending, N) /\ ValueOf(ending) = w[N]
    BY <1>2, ValueCounts
<1> HIDE DEF N, m
<1>5. \A k \in 0 .. N : w[k] \in Nat /\ v[k + m] \in Nat
    BY <1>1, <1>3, <1>4 DEF Counts
<1>6. ASSUME NEW k \in 1 .. N, w[k - 1] <= v[k - 1 + m]
      PROVE  w[k] <= v[k + m]
    <2>1. k - 1 \in 0 .. N /\ k + m \in 1 .. Len(digits) /\ (k + m) - 1 = k - 1 + m
        BY <1>1
    <2>2. w[k] = 10 * w[k - 1] + DigitValue[ending[k]]
        BY <1>4 DEF Counts
    <2>3. v[k + m] = 10 * v[k - 1 + m] + DigitValue[digits[k + m]]
        BY <1>3, <2>1 DEF Counts
    <2>4. ending[k] = digits[k + m] /\ DigitValue[ending[k]] \in 0 .. 9
        BY <1>1, <1>2, DigitsCount
    <2>5. w[k - 1] \in Nat /\ v[k - 1 + m] \in Nat
        BY <1>5, <2>1
    <2>6. \A a, b, d \in Nat : a <= b => 10 * a + d <= 10 * b + d
        OBVIOUS
    <2>7. DigitValue[digits[k + m]] \in Nat
        BY <2>4
    <2>8. 10 * w[k - 1] + DigitValue[digits[k + m]]
          <= 10 * v[k - 1 + m] + DigitValue[digits[k + m]]
        BY <1>6, <2>5, <2>6, <2>7
    <2> QED BY <2>2, <2>3, <2>4, <2>8
<1>7. \A k \in 0 .. N : w[k] <= v[k + m]
    <2> DEFINE bad == {k \in 0 .. N : ~ (w[k] <= v[k + m])}
    <2> SUFFICES ASSUME bad # {} PROVE FALSE
        OBVIOUS
    <2>1. bad \subseteq Nat
        BY <1>1
    <2>2. PICK k \in bad : \A j \in bad : k <= j
        BY <2>1, LeastNat
    <2>3. k \in 0 .. N /\ ~ (w[k] <= v[k + m])
        BY <2>2
    <2>4. k # 0
        <3>1. w[0] = 0 /\ v[0 + m] \in Nat
            BY <1>1, <1>4, <1>5 DEF Counts
        <3> QED BY <2>3, <3>1
    <2>5. k \in 1 .. N /\ k - 1 \in 0 .. N /\ ~ (k <= k - 1)
        BY <1>1, <2>3, <2>4
    <2>6. k - 1 \notin bad
        BY <2>2, <2>5
    <2>7. w[k - 1] <= v[k - 1 + m]
        BY <2>5, <2>6
    <2> QED BY <1>6, <2>3, <2>5, <2>7
<1>8. w[N] <= v[N + m] /\ w[N] \in Nat
    BY <1>1, <1>5, <1>7
<1> QED BY <1>1, <1>3, <1>4, <1>8 DEF N

-----------------------------------------------------------------------------
(* Types.                                                                   *)

LEMMA TypedTokenStep ==
    ASSUME Inv, TypeOK, NEW type, NEW value \in 0 .. MaxInt, NEW end \in position .. Len(source),
           type \in {"Keyword", "Identifier", "Integer", "Operator", "Error", "EndOfFile"},
           Emit(type, end, value), MoveTo(end), source' = source,
           status' \in {"scanning", "done", "aborted"},
           error' \in {error, <<line, column>>}
    PROVE  TypeOK'
<1>0. PICK n : n = Len(tokens)
    OBVIOUS
<1>1. /\ position \in Nat /\ end \in Nat /\ position <= end /\ end <= Len(source)
      /\ Len(source) \in Nat /\ line \in Nat \ {0} /\ column \in Nat \ {0}
      /\ position' = end /\ line' = line /\ column' = column + (end - position)
    BY LenProperties DEF Inv, Types, MoveTo, TypeOK
<1>2. /\ n \in Nat /\ DOMAIN tokens = 1 .. n /\ DOMAIN tokens' = 1 .. n + 1
      /\ tokens'[n + 1] = [type |-> type, lexeme |-> SubSeq(source, position + 1, end),
                           line |-> line, column |-> column, int_value |-> value]
      /\ \A i \in 1 .. n : tokens'[i] = tokens[i]
    BY <1>0, Appended DEF Inv, Types, Emit
<1>3. /\ DOMAIN starts' = 1 .. n + 1 /\ starts'[n + 1] = position
      /\ \A i \in 1 .. n : starts'[i] = starts[i]
    BY <1>0, Appended DEF Inv, Types, Emit
<1>4. column' \in Nat \ {0} /\ position \in 0 .. Len(source) /\ end \in 0 .. Len(source)
    BY <1>1
<1>5. error' = << >> \/ error' \in (Nat \ {0}) \X (Nat \ {0})
    BY <1>1 DEF TypeOK
<1>6. ASSUME NEW i \in 1 .. n + 1
      PROVE  /\ [type |-> tokens'[i].type, line |-> tokens'[i].line,
                 column |-> tokens'[i].column, int_value |-> tokens'[i].int_value] \in Token
             /\ starts'[i] \in 0 .. Len(source)
    <2>1. CASE i \in 1 .. n
        BY <1>2, <1>3, <2>1 DEF TypeOK
    <2>2. CASE i = n + 1
        <3>1. [type |-> type, line |-> line, column |-> column, int_value |-> value] \in Token
            BY <1>1 DEF Token
        <3> QED BY <1>2, <1>3, <1>4, <2>2, <3>1
    <2> QED BY <1>2, <2>1, <2>2
<1> QED BY <1>1, <1>2, <1>3, <1>4, <1>5, <1>6 DEF TypeOK

\* std::stoi is given digits, and makes a number of them.
LEMMA NumbersCount ==
    ASSUME Types, NEW end \in position .. Len(source),
           \A i \in position .. end - 1 : CharAt(i) \in Digits
    PROVE  LET text == SubSeq(source, position + 1, end)
           IN  /\ Len(text) = end - position
               /\ \A i \in 1 .. Len(text) : text[i] = CharAt(position + i - 1)
               /\ \A i \in 1 .. Len(text) : text[i] \in Digits
               /\ ValueOf(text) \in Nat
<1>1. /\ position \in Nat /\ end \in Nat /\ position <= end /\ end <= Len(source)
      /\ Len(source) \in Nat
    BY LenProperties DEF Types
<1> DEFINE text == SubSeq(source, position + 1, end)
<1>2. /\ Len(text) = end - position
      /\ \A i \in 1 .. end - position : text[i] = CharAt(position + i - 1)
    BY <1>1, TextAt
<1>3. \A i \in 1 .. end - position : position + i - 1 \in position .. end - 1
    BY <1>1
<1>4. \A i \in 1 .. end - position : text[i] \in Digits
    BY <1>2, <1>3
<1> HIDE DEF text
<1>5. Len(text) \in Nat /\ \A i \in 1 .. Len(text) : text[i] \in Digits
    BY <1>1, <1>2, <1>4
<1>6. ValueOf(text) \in Nat
    <2>1. \A i \in 1 .. Len(text) : text[i] = text[i + (Len(text) - Len(text))]
        BY <1>5
    <2> QED BY <1>5, <2>1, LastDigitsCount
<1> QED BY <1>2, <1>5, <1>6 DEF text

LEMMA NextTyped ==
    ASSUME Inv, TypeOK, [Next]_vars
    PROVE  TypeOK'
<1>1. /\ position \in Nat /\ Len(source) \in Nat /\ position <= Len(source)
      /\ line \in Nat \ {0} /\ column \in Nat \ {0} /\ source \in Sources
      /\ 0 \in 0 .. MaxInt
    BY LenProperties, CharactersAssumption DEF Inv, Types, TypeOK
<1>2. CASE SkipBlank
    <2>1. position' \in 0 .. Len(source) /\ line' \in Nat \ {0} /\ column' \in Nat \ {0}
        BY <1>1, <1>2 DEF SkipBlank, is_at_end
    <2> QED BY <1>2, <2>1 DEF SkipBlank, TypeOK
<1>3. CASE SkipComment
    <2> DEFINE end == EndOf(Characters \ {Newline})
    <2>1. end \in position .. Len(source)
        BY EndOfProperties DEF Inv
    <2>2. position' = end /\ line' = line /\ column' = column + (end - position)
          /\ UNCHANGED <<source, error, tokens, status, starts>>
        BY <1>3 DEF SkipComment, MoveTo
    <2> HIDE DEF end
    <2>3. end \in 0 .. Len(source) /\ column + (end - position) \in Nat \ {0}
        BY <1>1, <2>1
    <2> QED BY <2>2, <2>3 DEF TypeOK
<1>4. CASE scan_identifier_or_keyword
    <2> DEFINE end == EndOf({ch \in Characters : is_identifier_part(ch)})
               type == keyword_type(SubSeq(source, position + 1, end))
    <2>1. end \in position .. Len(source)
        BY EndOfProperties DEF Inv
    <2>2. Emit(type, end, 0) /\ MoveTo(end) /\ UNCHANGED <<source, error, status>>
        BY <1>4 DEF scan_identifier_or_keyword
    <2>3. type \in {"Keyword", "Identifier"}
        BY DEF keyword_type
    <2> HIDE DEF end, type
    <2> QED BY <1>1, <2>1, <2>2, <2>3, TypedTokenStep DEF TypeOK
<1>5. CASE scan_integer
    <2> DEFINE class == {ch \in Characters : is_digit_char(ch)}
               end == EndOf(class)
               value == ValueOf(SubSeq(source, position + 1, end))
    <2>1. /\ end \in position .. Len(source)
          /\ \A i \in position .. end - 1 : CharAt(i) \in class
        BY EndOfProperties DEF Inv
    <2>2. CASE value <= MaxInt
        <3>1. Emit("Integer", end, value) /\ MoveTo(end) /\ UNCHANGED <<source, error, status>>
            BY <1>5, <2>2 DEF scan_integer
        <3>2. \A i \in position .. end - 1 : CharAt(i) \in Digits
            BY <2>1 DEF is_digit_char
        <3> HIDE DEF end
        <3>3. value \in Nat
            BY <2>1, <3>2, NumbersCount DEF Inv
        <3> HIDE DEF value
        <3>4. value \in 0 .. MaxInt
            BY <2>2, <3>3, CharactersAssumption
        <3> QED BY <1>1, <2>1, <3>1, <3>4, TypedTokenStep DEF TypeOK
    <2>3. CASE ~ (value <= MaxInt)
        <3>1. status' = "aborted"
              /\ UNCHANGED <<source, position, line, column, error, tokens, starts>>
            BY <1>5, <2>3 DEF scan_integer
        <3> QED BY <3>1 DEF TypeOK
    <2> QED BY <2>2, <2>3
<1>6. CASE scan_operator
    <2> DEFINE end == IF current \in MayDouble /\ peek_next = "=" THEN position + 2
                      ELSE position + 1
    <2>1. Emit("Operator", end, 0) /\ MoveTo(end) /\ UNCHANGED <<source, error, status>>
        BY <1>6 DEF scan_operator
    <2>2. position < Len(source)
        BY <1>1, <1>6 DEF scan_operator, AtToken, is_at_end
    <2>3. peek_next = "=" => position + 1 < Len(source)
        BY <1>1, CharacterOrNull, Classes DEF Inv, peek_next
    <2>4. end \in position .. Len(source)
        BY <1>1, <2>2, <2>3
    <2> HIDE DEF end
    <2> QED BY <1>1, <2>1, <2>4, TypedTokenStep DEF TypeOK
<1>7. CASE error_token
    <2>1. /\ Emit("Error", position + 1, 0) /\ MoveTo(position + 1) /\ source' = source
          /\ error' = <<line, column>> /\ status' = "done"
        BY <1>7 DEF error_token
    <2>2. position + 1 \in position .. Len(source)
        BY <1>1, <1>7 DEF error_token, AtToken, is_at_end
    <2> QED BY <1>1, <2>1, <2>2, TypedTokenStep
<1>8. CASE EndOfFile
    <2>1. /\ Emit("EndOfFile", position, 0) /\ MoveTo(position) /\ source' = source
          /\ error' = error /\ status' = "done"
        BY <1>1, <1>8 DEF EndOfFile, MoveTo
    <2> QED BY <1>1, <2>1, TypedTokenStep
<1>9. CASE UNCHANGED vars
    BY <1>9 DEF vars, TypeOK
<1> QED BY <1>2, <1>3, <1>4, <1>5, <1>6, <1>7, <1>8, <1>9 DEF Next, Step, Returned

-----------------------------------------------------------------------------
(* Faults.                                                                  *)

Bad(p) == Significant(p) /\ CharAt(p) \notin Known
Good(p) == ~Bad(p) /\ ~IsHuge(p)

\* A name that goes on at p begins before p.
InName(p) ==
    \E n \in 0 .. p - 1 : /\ is_identifier_start(CharAt(n))
                          /\ \A i \in n .. p - 1 : is_identifier_part(CharAt(i))

\* So far there is no fault, and the scan is not within a name.
NoFault ==
    /\ error = << >>
    /\ \A p \in 0 .. position - 1 : Good(p)
    /\ is_identifier_part(CharAt(position)) => ~InName(position)

Faults == (status = "scanning" => NoFault) /\ StopsAtFirstFault

LEMMA FaultsAre ==
    StopsAtFirstFault <=>
        /\ status = "done" =>
              IF error = << >> THEN \A p \in 0 .. Len(source) - 1 : Good(p)
              ELSE /\ Bad(starts[Len(starts)])
                   /\ \A p \in 0 .. starts[Len(starts)] - 1 : Good(p)
        /\ status = "aborted" => IsHuge(position) /\ \A p \in 0 .. position - 1 : Good(p)
BY DEF StopsAtFirstFault, Bad, Good

LEMMA HugeIs ==
    ASSUME NEW p
    PROVE  IsHuge(p) <=>
             /\ is_digit_char(CharAt(p)) /\ ~Commented(p) /\ ~InName(p)
             /\ \E q \in p + 1 .. Len(source) :
                   /\ \A i \in p .. q - 1 : is_digit_char(CharAt(i))
                   /\ ~is_digit_char(CharAt(q))
                   /\ ValueOf(SubSeq(source, p + 1, q)) > MaxInt
BY DEF IsHuge, InName

LEMMA SameFaults ==
    ASSUME source' = source
    PROVE  \A p : /\ Bad(p)' <=> Bad(p)
                  /\ IsHuge(p)' <=> IsHuge(p)
                  /\ Good(p)' <=> Good(p)
                  /\ InName(p)' <=> InName(p)
<1>1. \A p : CharAt(p)' = CharAt(p) /\ (Significant(p)' <=> Significant(p))
    BY SameText
<1>2. \A p : Commented(p)' <=> Commented(p)
    BY <1>1 DEF Commented
<1>3. \A p : Bad(p)' <=> Bad(p)
    BY <1>1 DEF Bad
<1>4. \A p : InName(p)' <=> InName(p)
    BY <1>1 DEF InName, is_identifier_start, is_identifier_part
<1>5. \A p : IsHuge(p)' <=> IsHuge(p)
    BY <1>1, <1>2 DEF IsHuge, is_identifier_start, is_identifier_part, is_digit_char
<1> QED BY <1>3, <1>4, <1>5 DEF Good

\* A turn of the loop that goes on.
LEMMA GoesOn ==
    ASSUME Inv, NoFault, source' = source, error' = error, status' = "scanning",
           NEW end \in position .. Len(source), position' = end,
           \A p \in position .. end - 1 : Good(p),
           is_identifier_part(CharAt(end)) => ~InName(end)
    PROVE  Faults'
<1>1. position \in Nat /\ end \in Nat /\ position <= end
    BY LenProperties DEF Inv, Types
<1>2. \A p \in 0 .. end - 1 : Good(p)
    <2>1. \A p \in 0 .. end - 1 : p \in 0 .. position - 1 \/ p \in position .. end - 1
        BY <1>1
    <2> QED BY <2>1 DEF NoFault
<1>3. is_identifier_part(CharAt(end)') => ~InName(end)'
    BY SameFaults, SameText
<1>4. NoFault'
    BY <1>2, <1>3, SameFaults DEF NoFault, is_identifier_part
<1>5. StopsAtFirstFault'
    BY DEF StopsAtFirstFault
<1> QED BY <1>4, <1>5 DEF Faults

\* Behind a character that is no part of a name, there is no name.
LEMMA NoNameBehind ==
    ASSUME NEW p \in Nat, ~is_identifier_part(CharAt(p))
    PROVE  ~InName(p + 1)
<1>1. ASSUME NEW n \in 0 .. (p + 1) - 1 PROVE p \in n .. (p + 1) - 1
    OBVIOUS
<1> QED BY <1>1 DEF InName

\* Where a token begins there is text that counts.
LEMMA TokenIsSignificant ==
    ASSUME Inv, AtToken
    PROVE  position < Len(source) /\ Significant(position) /\ ~Commented(position)
<1>1. /\ position \in Nat /\ Len(source) \in Nat /\ position < Len(source)
      /\ CharAt(position) \notin Blank /\ ~Slashes(position)
    BY LenProperties DEF Inv, Types, AtToken, is_at_end, current, peek_next, Slashes
<1>2. ASSUME Commented(position) PROVE FALSE
    <2>1. PICK i \in 0 .. position :
              Slashes(i) /\ \A j \in i .. position : CharAt(j) # Newline
        BY <1>2 DEF Commented, Slashes
    <2>2. i \in 0 .. position - 1
        BY <1>1, <2>1
    <2>3. CharAt(position) # Newline
        BY <1>1, <2>1
    <2>4. \E j \in i .. position - 1 : CharAt(j) = Newline
        BY <1>1, <2>1, <2>2, <2>3 DEF Inv, Closed
    <2> QED BY <1>1, <2>1, <2>2, <2>4
<1> QED BY <1>1, <1>2 DEF Significant

LEMMA BlankGoesOn ==
    ASSUME Inv, Faults, SkipBlank
    PROVE  Faults'
<1>1. position \in Nat /\ Len(source) \in Nat /\ position < Len(source)
    BY LenProperties DEF Inv, Types, SkipBlank, is_at_end
<1>2. /\ source' = source /\ error' = error /\ status' = "scanning"
      /\ position' = position + 1 /\ NoFault /\ CharAt(position) \in Blank
    BY DEF SkipBlank, Scanning, Faults, current
<1>3. ~is_digit_char(CharAt(position)) /\ ~is_identifier_part(CharAt(position))
    BY <1>2, Classes DEF is_digit_char, is_identifier_part
<1>4. Good(position)
    BY <1>2, <1>3, HugeIs DEF Good, Bad, Significant
<1>5. ~InName(position + 1)
    BY <1>1, <1>3, NoNameBehind
<1> DEFINE end == position + 1
<1>6. end \in position .. Len(source) /\ \A p \in position .. end - 1 : Good(p)
    BY <1>1, <1>4
<1> HIDE DEF end
<1>7. position' = end /\ ~InName(end)
    BY <1>2, <1>5 DEF end
<1> QED BY <1>2, <1>6, <1>7, GoesOn

LEMMA CommentGoesOn ==
    ASSUME Inv, Faults, SkipComment
    PROVE  Faults'
<1> DEFINE end == EndOf(Characters \ {Newline})
<1>1. position \in Nat /\ Len(source) \in Nat /\ position < Len(source)
    BY LenProperties DEF Inv, Types, SkipComment, is_at_end
<1>2. /\ end \in position .. Len(source)
      /\ \A i \in position .. end - 1 : CharAt(i) \in Characters \ {Newline}
      /\ end = Len(source) \/ CharAt(end) \notin Characters \ {Newline}
    BY EndOfProperties DEF Inv
<1>3. /\ source' = source /\ error' = error /\ status' = "scanning"
      /\ position' = end /\ NoFault
    BY DEF SkipComment, MoveTo, Scanning, Faults
<1>4. CharAt(end) \in {Null, Newline}
    <2>1. end = Len(source) => CharAt(end) = Null
        BY <1>1, CharacterOrNull DEF Inv
    <2>2. end < Len(source) => CharAt(end) \in Characters
        BY <1>1, <1>2, CharacterOrNull DEF Inv
    <2> QED BY <1>1, <1>2, <2>1, <2>2
<1> HIDE DEF end
<1>5. \A p \in position .. end - 1 : Commented(p)
    <2>1. CharAt(position) = "/" /\ CharAt(position + 1) = "/"
        BY DEF SkipComment, current, peek_next
    <2> QED BY <1>1, <1>2, <2>1 DEF Commented
<1>6. \A p \in position .. end - 1 : Good(p)
    BY <1>5, HugeIs DEF Good, Bad, Significant
<1>7. ~is_identifier_part(CharAt(end))
    BY <1>4, Classes DEF is_identifier_part
<1> QED BY <1>2, <1>3, <1>6, <1>7, GoesOn

\* The digits of a name are no number.
LEMMA NameGoesOn ==
    ASSUME Inv, Faults, scan_identifier_or_keyword
    PROVE  Faults'
<1> DEFINE class == {ch \in Characters : is_identifier_part(ch)}
           end == EndOf(class)
<1>1. /\ end \in position .. Len(source)
      /\ \A i \in position .. end - 1 : CharAt(i) \in class
      /\ end = Len(source) \/ CharAt(end) \notin class
    BY EndOfProperties DEF Inv
<1>2. /\ position \in Nat /\ Len(source) \in Nat
      /\ CharAt(position) \in Letters
    BY LenProperties
    DEF Inv, Types, scan_identifier_or_keyword, current, is_identifier_start
<1>3. /\ source' = source /\ error' = error /\ status' = "scanning"
      /\ position' = end /\ NoFault
    BY DEF scan_identifier_or_keyword, AtToken, MoveTo, Scanning, Faults
<1>4. ~is_identifier_part(CharAt(end))
    <2>1. end = Len(source) => CharAt(end) = Null
        BY <1>2, CharacterOrNull DEF Inv
    <2>2. end < Len(source) => CharAt(end) \in Characters
        BY <1>1, <1>2, CharacterOrNull DEF Inv
    <2>3. ~is_identifier_part(Null)
        BY Classes DEF is_identifier_part
    <2> QED BY <1>1, <1>2, <2>1, <2>2, <2>3
<1>5. \A i \in position .. end - 1 : is_identifier_part(CharAt(i))
    BY <1>1
<1> HIDE DEF end
<1>6. ASSUME NEW p \in position .. end - 1 PROVE Good(p)
    <2>1. ~Bad(p)
        BY <1>5 DEF Bad, Known, is_identifier_part
    <2>2. CASE p = position
        BY <1>2, <2>1, <2>2, Classes, HugeIs DEF Good, is_digit_char
    <2>3. CASE p # position
        <3>1. /\ position \in 0 .. p - 1
              /\ \A i \in position .. p - 1 : i \in position .. end - 1
            BY <1>1, <1>2, <2>3
        <3>2. InName(p)
            BY <1>2, <1>5, <3>1 DEF InName, is_identifier_start
        <3> QED BY <2>1, <3>2, HugeIs DEF Good
    <2> QED BY <2>2, <2>3
<1> QED BY <1>1, <1>3, <1>4, <1>6, GoesOn

LEMMA NumberGoesOn ==
    ASSUME Inv, Faults, scan_integer
    PROVE  Faults'
<1> DEFINE class == {ch \in Characters : is_digit_char(ch)}
           end == EndOf(class)
           text == SubSeq(source, position + 1, end)
<1>1. /\ end \in position .. Len(source)
      /\ \A i \in position .. end - 1 : CharAt(i) \in class
      /\ end = Len(source) \/ CharAt(end) \notin class
    BY EndOfProperties DEF Inv
<1>2. /\ position \in Nat /\ Len(source) \in Nat /\ position < Len(source)
      /\ CharAt(position) \in Digits /\ CharAt(position) \in Characters
      /\ ~Commented(position)
    BY LenProperties, TokenIsSignificant, CharacterOrNull
    DEF Inv, Types, scan_integer, current, is_digit_char
<1>3. source' = source /\ error' = error /\ NoFault /\ status = "scanning"
    BY DEF scan_integer, AtToken, Scanning, Faults
<1>4. ~is_digit_char(CharAt(end)) /\ position < end
    <2>1. end = Len(source) => CharAt(end) = Null
        BY <1>2, CharacterOrNull DEF Inv
    <2>2. end < Len(source) => CharAt(end) \in Characters
        BY <1>1, <1>2, CharacterOrNull DEF Inv
    <2>3. ~is_digit_char(Null)
        BY Classes DEF is_digit_char
    <2>4. CharAt(position) \in class
        BY <1>2 DEF is_digit_char
    <2> HIDE DEF class
    <2>5. end # position
        BY <1>1, <1>2, <2>4
    <2> QED BY <1>1, <1>2, <2>1, <2>2, <2>3, <2>5 DEF class
<1>5. \A i \in position .. end - 1 : CharAt(i) \in Digits
    BY <1>1 DEF is_digit_char
<1> HIDE DEF end
<1>6. /\ Len(text) = end - position
      /\ \A i \in 1 .. Len(text) : text[i] = CharAt(position + i - 1) /\ text[i] \in Digits
      /\ ValueOf(text) \in Nat
    BY <1>1, <1>5, NumbersCount DEF Inv
<1> HIDE DEF text
<1>7. CASE ~ (ValueOf(text) <= MaxInt)
    <2>1. status' = "aborted" /\ position' = position
        BY <1>7 DEF scan_integer, end, text
    <2>2. ~InName(position)
        BY <1>2, <1>3 DEF NoFault, is_identifier_part
    <2>3. /\ end \in position + 1 .. Len(source)
          /\ \A i \in position .. end - 1 : is_digit_char(CharAt(i))
          /\ ValueOf(text) > MaxInt
        BY <1>1, <1>2, <1>4, <1>5, <1>6, <1>7, CharactersAssumption DEF is_digit_char
    <2>4. IsHuge(position)
        BY <1>2, <1>4, <2>2, <2>3, HugeIs DEF is_digit_char, text
    <2>5. IsHuge(position)' /\ \A p \in 0 .. position - 1 : Good(p)'
        BY <1>3, <2>1, <2>4, SameFaults DEF NoFault
    <2>6. StopsAtFirstFault'
        BY <2>1, <2>5 DEF StopsAtFirstFault, Bad, Good
    <2> QED BY <2>1, <2>6 DEF Faults
<1>8. CASE ValueOf(text) <= MaxInt
    <2>1. position' = end /\ status' = "scanning"
        BY <1>3, <1>8 DEF scan_integer, end, text, MoveTo
    <2>2. ASSUME NEW p \in position .. end - 1 PROVE Good(p)
        <3>1. ~Bad(p)
            BY <1>5 DEF Bad, Known
        <3>2. ASSUME NEW q \in p + 1 .. Len(source),
                     \A i \in p .. q - 1 : is_digit_char(CharAt(i)),
                     ~is_digit_char(CharAt(q))
              PROVE  ~ (ValueOf(SubSeq(source, p + 1, q)) > MaxInt)
            <4>0. p \in Nat /\ q \in Nat /\ end \in Nat /\ p < end /\ p < q
                BY <1>1, <1>2, <2>2, <3>2
            <4>1. q = end
                <5>1. ~ (q < end)
                    BY <1>5, <1>2, <3>2, <4>0 DEF is_digit_char
                <5>2. ~ (end < q)
                    BY <1>2, <1>4, <3>2, <4>0
                <5> QED BY <4>0, <5>1, <5>2
            <4> DEFINE ending == SubSeq(source, p + 1, end)
            <4>2. /\ Len(ending) = end - p
                  /\ \A i \in 1 .. end - p : ending[i] = CharAt(p + i - 1)
                <5>1. end \in p .. Len(source)
                    BY <1>1, <1>2, <4>0
                <5> QED BY <4>0, <5>1, TextAt DEF Inv
            <4> HIDE DEF ending
            <4>3. /\ Len(ending) \in Nat /\ Len(text) \in Nat /\ Len(ending) <= Len(text)
                  /\ Len(text) - Len(ending) = p - position
                BY <1>2, <1>6, <2>2, <4>0, <4>2
            <4>4. ASSUME NEW i \in 1 .. Len(ending)
                  PROVE  ending[i] = text[i + (Len(text) - Len(ending))]
                <5>1. i + (p - position) \in 1 .. Len(text)
                    BY <1>2, <1>6, <2>2, <4>0, <4>2
                <5>2. text[i + (p - position)] = CharAt(position + (i + (p - position)) - 1)
                    BY <1>6, <5>1
                <5>3. position + (i + (p - position)) - 1 = p + i - 1
                    BY <1>2, <4>0, <4>3
                <5> QED BY <4>2, <4>3, <5>2, <5>3
            <4>5. ValueOf(ending) \in Nat /\ ValueOf(ending) <= ValueOf(text)
                BY <1>6, <4>3, <4>4, LastDigitsCount
            <4>6. ~ (ValueOf(ending) > MaxInt)
                BY <1>6, <1>8, <4>5, CharactersAssumption
            <4> QED BY <4>1, <4>6 DEF ending
        <3> QED BY <3>1, <3>2, HugeIs DEF Good
    <2>3. ~InName(end)
        <3>1. ASSUME NEW n \in 0 .. end - 1, is_identifier_start(CharAt(n)),
                     \A i \in n .. end - 1 : is_identifier_part(CharAt(i))
              PROVE  FALSE
            <4>1. CASE n >= position
                <5>1. CharAt(n) \in Digits
                    BY <1>1, <1>2, <1>5, <4>1
                <5> QED BY <3>1, <5>1, Classes DEF is_identifier_start
            <4>2. CASE n < position
                <5>1. n \in 0 .. position - 1 /\ \A i \in n .. position - 1 : i \in n .. end - 1
                    BY <1>1, <1>2, <4>2
                <5>2. InName(position)
                    BY <3>1, <5>1 DEF InName
                <5> QED BY <1>2, <1>3, <5>2 DEF NoFault, is_identifier_part
            <4> QED BY <1>1, <1>2, <4>1, <4>2
        <3> QED BY <3>1 DEF InName
    <2> QED BY <1>1, <1>3, <2>1, <2>2, <2>3, GoesOn
<1> QED BY <1>7, <1>8

LEMMA OperatorGoesOn ==
    ASSUME Inv, Faults, scan_operator
    PROVE  Faults'
<1> DEFINE end == IF current \in MayDouble /\ peek_next = "=" THEN position + 2
                  ELSE position + 1
<1>1. /\ source' = source /\ error' = error /\ status' = "scanning" /\ position' = end
      /\ NoFault /\ AtToken /\ current \in Single \cup MayDouble
    BY DEF scan_operator, AtToken, MoveTo, Scanning, Faults
<1>2. /\ position \in Nat /\ Len(source) \in Nat /\ position < Len(source)
      /\ current = CharAt(position) /\ peek_next = CharAt(position + 1)
    BY <1>1, LenProperties, TokenIsSignificant DEF Inv, Types, current, peek_next
<1>3. peek_next = "=" => position + 1 < Len(source)
    BY <1>2, CharacterOrNull, Classes DEF Inv
<1>4. end \in {position + 1, position + 2} /\ end \in position .. Len(source)
    BY <1>2, <1>3
<1>5. \A p \in position .. end - 1 : CharAt(p) \in Single \cup MayDouble
    BY <1>1, <1>2, Classes
<1> HIDE DEF end
<1>6. ASSUME NEW p \in position .. end - 1
      PROVE  Good(p) /\ ~is_identifier_part(CharAt(p))
    <2>1. ~is_digit_char(CharAt(p)) /\ ~is_identifier_part(CharAt(p))
        BY <1>5, Classes DEF is_digit_char, is_identifier_part
    <2> QED BY <1>5, <2>1, HugeIs DEF Good, Bad, Known
<1>7. ~InName(end)
    <2>1. end - 1 \in position .. end - 1 /\ end - 1 \in Nat /\ end - 1 + 1 = end
        BY <1>2, <1>4
    <2>2. ~is_identifier_part(CharAt(end - 1))
        BY <1>6, <2>1
    <2>3. ~InName(end - 1 + 1)
        BY <2>1, <2>2, NoNameBehind
    <2> QED BY <2>1, <2>3
<1> QED BY <1>1, <1>4, <1>6, <1>7, GoesOn

LEMMA LastStart ==
    ASSUME Inv, NEW type, NEW end, NEW value, Emit(type, end, value)
    PROVE  starts'[Len(starts')] = position
<1>1. Len(starts') = Len(starts) + 1 /\ starts'[Len(starts) + 1] = position
    BY Appended DEF Inv, Types, Emit
<1> QED BY <1>1

LEMMA FaultStep ==
    ASSUME Inv, Faults, error_token
    PROVE  Faults'
<1>1. /\ source' = source /\ error' = <<line, column>> /\ status' = "done"
      /\ NoFault /\ AtToken /\ Emit("Error", position + 1, 0) /\ current \notin Known
    BY DEF error_token, AtToken, Scanning, Faults, Known
<1>2. Bad(position)
    BY <1>1, TokenIsSignificant DEF Bad, current
<1> PICK here : here = position
    OBVIOUS
<1>3. starts'[Len(starts')] = here
    BY <1>1, LastStart
<1>4. Bad(here)' /\ \A p \in 0 .. here - 1 : Good(p)'
    BY <1>1, <1>2, SameFaults DEF NoFault
<1>5. error' # << >>
    BY <1>1
<1>6. StopsAtFirstFault'
    BY <1>1, <1>3, <1>4, <1>5 DEF StopsAtFirstFault, Bad, Good
<1> QED BY <1>1, <1>6 DEF Faults

LEMMA EndStep ==
    ASSUME Inv, Faults, EndOfFile
    PROVE  Faults'
<1>1. /\ source' = source /\ error' = error /\ status' = "done" /\ NoFault
    BY DEF EndOfFile, Scanning, Faults
<1>2. position = Len(source)
    BY LenProperties DEF Inv, Types, EndOfFile, is_at_end
<1>3. error' = << >> /\ \A p \in 0 .. Len(source') - 1 : Good(p)'
    BY <1>1, <1>2, SameFaults DEF NoFault
<1>4. StopsAtFirstFault'
    BY <1>1, <1>3 DEF StopsAtFirstFault, Bad, Good
<1> QED BY <1>1, <1>4 DEF Faults

LEMMA NextFaults ==
    ASSUME Inv, Faults, [Next]_vars
    PROVE  Faults'
<1>1. CASE UNCHANGED vars
    <2>1. NoFault => NoFault'
        BY <1>1, SameFaults, SameText DEF vars, NoFault, is_identifier_part
    <2>2. StopsAtFirstFault => StopsAtFirstFault'
        <3>1. \A p : (Bad(p)' <=> Bad(p)) /\ (IsHuge(p)' <=> IsHuge(p))
            BY <1>1, SameFaults DEF vars
        <3>2. /\ status' = status /\ error' = error /\ source' = source
              /\ starts' = starts /\ position' = position
            BY <1>1 DEF vars
        <3> QED BY <3>1, <3>2, FaultsAre DEF StopsAtFirstFault, Bad, Good
    <2> QED BY <1>1, <2>1, <2>2 DEF Faults, vars
<1> QED BY <1>1, BlankGoesOn, CommentGoesOn, NameGoesOn, NumberGoesOn, OperatorGoesOn,
           FaultStep, EndStep DEF Next, Step, Returned

-----------------------------------------------------------------------------
(* The theorems.                                                            *)

LEMMA InitInv ==
    ASSUME Init
    PROVE  Inv
<1>1. /\ source \in Seq(Characters) /\ Len(source) \in Nat
      /\ position = 0 /\ line = 1 /\ column = 1 /\ status = "scanning"
      /\ error = << >> /\ tokens = << >> /\ starts = << >>
    BY CharactersAssumption, LenProperties DEF Init
<1>2. IsSequence(<< >>) /\ Len(<< >>) = 0 /\ \A i \in DOMAIN << >> : FALSE
    BY DEF IsSequence
<1>3. \A i \in 0 .. 0 - 1 : FALSE
    OBVIOUS
<1>4. Types /\ Behind
    BY <1>1, <1>2 DEF Types, Behind
<1>5. Closed /\ Tiled /\ AllLongest
    BY <1>1, <1>2, <1>3 DEF Closed, Tiled, AllLongest
<1>6. PlacesAreTrue
    <2>1. Newlines(0) = {}
        BY <1>3 DEF Newlines
    <2>2. IsPlaceOf(1, 1, 0)
        BY <2>1, FS_EmptySet DEF IsPlaceOf
    <2> QED BY <1>1, <1>2, <2>2 DEF PlacesAreTrue
<1> QED BY <1>4, <1>5, <1>6 DEF Inv

LEMMA NextInv ==
    ASSUME Inv, [Next]_vars
    PROVE  Inv'
<1>1. CASE SkipBlank
    BY <1>1, SkipBlankStep
<1>2. CASE SkipComment
    BY <1>2, SkipCommentStep
<1>3. CASE scan_identifier_or_keyword
    BY <1>3, IdentifierStep
<1>4. CASE scan_integer
    BY <1>4, IntegerStep
<1>5. CASE scan_operator
    BY <1>5, OperatorStep
<1>6. CASE error_token
    BY <1>6, ErrorStep
<1>7. CASE EndOfFile
    BY <1>7, EndOfFileStep
<1>8. CASE UNCHANGED vars
    BY <1>8, SameScan DEF vars, Inv, Types
<1> QED BY <1>1, <1>2, <1>3, <1>4, <1>5, <1>6, <1>7, <1>8 DEF Next, Step, Returned

\* The invariant of the loop of tokenize().
THEOREM Invariant == Spec => []Inv
<1>1. Init => Inv
    BY InitInv
<1>2. Inv /\ [Next]_vars => Inv'
    BY NextInv
<1> QED BY <1>1, <1>2, PTL DEF Spec

\* Every token, the error and the lexer itself know their line and column, in a
\* text of any length over any characters.
THEOREM PlacesAreAlwaysTrue == Spec => []PlacesAreTrue
<1>1. Inv => PlacesAreTrue
    BY DEF Inv
<1> QED BY <1>1, Invariant, PTL

\* The tokens are the text without its blanks and comments, whatever the text.
THEOREM TextIsAlwaysTiled == Spec => []TextIsTiled
<1>1. Inv => TextIsTiled
    BY DEF Inv, Tiled, Behind, End, TextIsTiled
<1> QED BY <1>1, Invariant, PTL

\* Every token is as long as it can be, whatever the text and the keywords.
THEOREM TokensAreAlwaysLongest == Spec => []LongestMatch
<1>1. Inv => LongestMatch
    BY DEF Inv, AllLongest, Longest, End, LongestMatch
<1> QED BY <1>1, Invariant, PTL

\* Every variable has its type, and the number of every token is an int that std::stoi
\* returns: never negative, never more than the largest int, however long the text.
THEOREM ScanIsTyped == Spec => []TypeOK
<1>1. Init => TypeOK
    <2> SUFFICES ASSUME Init PROVE TypeOK
        OBVIOUS
    <2>1. Len(source) \in Nat
        BY CharactersAssumption, LenProperties DEF Init
    <2> QED BY <2>1 DEF Init, TypeOK
<1>2. Inv /\ TypeOK /\ [Next]_vars => TypeOK'
    BY NextTyped
<1> QED BY <1>1, <1>2, Invariant, PTL DEF Spec

\* A text is refused at its first character that no token has, given up at its first
\* number that is no int, and at nothing else, for texts and numbers of any length.
THEOREM ScanStopsAtFirstFault == Spec => []StopsAtFirstFault
<1>1. Init => Faults
    <2> SUFFICES ASSUME Init PROVE Faults
        OBVIOUS
    <2>1. ~InName(0) /\ \A p \in 0 .. 0 - 1 : Good(p)
        BY DEF InName
    <2>2. NoFault /\ status = "scanning"
        BY <2>1 DEF Init, NoFault
    <2> QED BY <2>2, FaultsAre DEF Faults
<1>2. Inv /\ Faults /\ [Next]_vars => Faults'
    BY NextFaults
<1>3. Faults => StopsAtFirstFault
    BY DEF Faults
<1> QED BY <1>1, <1>2, <1>3, Invariant, PTL DEF Spec
=============================================================================
