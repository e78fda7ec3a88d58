-------------------------------- MODULE MCLexer --------------------------------
(***************************************************************************)
(* All texts of at most MaxLength characters: two letters that make the    *)
(* keyword "if", a digit, the two characters of "!=" and "==", the comment *)
(* slash, two blanks, and a character that no token has.                   *)
(***************************************************************************)
EXTENDS Lexer

CONSTANT MaxLength

MCCharacters == {"i", "f", "7", "=", "!", "/", " ", "\n", "#"}

\* (In two steps: TLC evaluates Texts once.)
Texts == UNION {[1 .. n -> MCCharacters] : n \in 0 .. MaxLength}
MCSources == Texts

MCKeywords == {<<"i", "f">>}
=============================================================================
