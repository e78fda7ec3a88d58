--------------------------------- MODULE Lexer ---------------------------------
(***************************************************************************)
(* src/lexer/lexer.cpp: tokenize(), one step per token or per turn of the  *)
(* loop that skips whitespace and comments.  A character is a value; a     *)
(* token's type stands for the twelve keyword types and for the nineteen   *)
(* operator and punctuation types, which its lexeme tells apart.           *)
(***************************************************************************)
EXTENDS Integers, Sequences, FiniteSets

CONSTANTS
    Characters, \* the characters of
    Sources,    \* the texts that are tokenized
    Letters,    \* letters and "_"
    Keywords,   \* the reserved words: sequences of letters
    MaxInt      \* the largest int

Digits == {"0", "1", "2", "3", "4", "5", "6", "7", "8", "9"}
DigitValue == [c \in Digits |-> CHOOSE n \in 0 .. 9 :
                  c = <<"0", "1", "2", "3", "4", "5", "6", "7", "8", "9">>[n + 1]]
Newline == "\n"
Null == "\\0"
Blank == {" ", "\t", "\r", Newline}
Single == {"(", ")", "{", "}", ";", ",", "+", "-", "*", "/"}
MayDouble == {"!", "=", "<", ">"}      \* with "=" after them, another operator

ASSUME CharactersAssumption ==
    /\ Letters \cap (Digits \cup Blank \cup Single \cup MayDouble \cup {Null}) = {}
    /\ Keywords \subseteq Seq(Letters) \ {<< >>}
    /\ MaxInt \in Nat
    /\ Sources \subseteq Seq(Characters)

VARIABLES
    source, position, line, column,     \* source_, position_, line_, column_
    error,      \* error_: << >>, or its line and column
    tokens,     \* the tokens of the result
    status,     \* "scanning", "done", or "aborted": the process is killed
    starts      \* history: the position at which each token begins

vars == <<source, position, line, column, error, tokens, status, starts>>

is_identifier_start(ch) == ch \in Letters
is_identifier_part(ch) == ch \in Letters \cup Digits
is_digit_char(ch) == ch \in Digits

keyword_type(text) == IF text \in Keywords THEN "Keyword" ELSE "Identifier"

\* What std::stoi makes of digits, if it is an int.
ValueOf(digits) ==
    LET value[n \in 0 .. Len(digits)] ==
            IF n = 0 THEN 0 ELSE 10 * value[n - 1] + DigitValue[digits[n]]
    IN  value[Len(digits)]

Init ==
    /\ source \in Sources
    /\ position = 0 /\ line = 1 /\ column = 1
    /\ error = << >> /\ tokens = << >> /\ starts = << >>
    /\ status = "scanning"

-----------------------------------------------------------------------------
(* Reading.                                                                 *)

is_at_end == position >= Len(source)

\* Outside the text there is only the null character, which no token has.
CharAt(i) == IF i < Len(source) THEN source[i + 1] ELSE Null
current == CharAt(position)
peek_next == CharAt(position + 1)

\* The end of the longest run of characters of a class from here.
EndOf(class) ==
    CHOOSE end \in position .. Len(source) :
        /\ \A i \in position .. end - 1 : CharAt(i) \in class
        /\ end = Len(source) \/ CharAt(end) \notin class

\* advance() over characters that are no newlines.
MoveTo(end) ==
    /\ position' = end
    /\ column' = column + (end - position)
    /\ line' = line

Emit(type, end, value) ==
    /\ tokens' = Append(tokens,
           [type |-> type, lexeme |-> SubSeq(source, position + 1, end),
            line |-> line, column |-> column, int_value |-> value])
    /\ starts' = Append(starts, position)

Scanning == status = "scanning"
AtToken == Scanning /\ ~is_at_end /\ current \notin Blank
           /\ ~(current = "/" /\ peek_next = "/")

-----------------------------------------------------------------------------
(* skip_whitespace_and_comments.                                            *)

SkipBlank ==
    /\ Scanning /\ ~is_at_end /\ current \in Blank
    /\ position' = position + 1
    /\ IF current = Newline THEN line' = line + 1 /\ column' = 1
       ELSE line' = line /\ column' = column + 1
    /\ UNCHANGED <<source, error, tokens, status, starts>>

\* Mutants of SkipComment: it takes the newline with it; it skips the slashes only;
\* it waits for a newline that the last line may lack.
SkipCommentAndLine ==
    /\ Scanning /\ ~is_at_end /\ current = "/" /\ peek_next = "/"
    /\ LET end == EndOf(Characters \ {Newline})
       IN  /\ position' = IF end = Len(source) THEN end ELSE end + 1
           /\ column' = 1 /\ line' = line
    /\ UNCHANGED <<source, error, tokens, status, starts>>

SkipSlashes ==
    /\ Scanning /\ ~is_at_end /\ current = "/" /\ peek_next = "/"
    /\ MoveTo(position + 2)
    /\ UNCHANGED <<source, error, tokens, status, starts>>

SkipCommentInLine ==
    /\ Scanning /\ ~is_at_end /\ current = "/" /\ peek_next = "/"
    /\ LET end == EndOf(Characters \ {Newline})
       IN  MoveTo(IF end = Len(source) THEN position ELSE end)
    /\ UNCHANGED <<source, error, tokens, status, starts>>

SkipComment ==
    /\ Scanning /\ ~is_at_end /\ current = "/" /\ peek_next = "/"
    /\ MoveTo(EndOf(Characters \ {Newline}))
    /\ UNCHANGED <<source, error, tokens, status, starts>>

-----------------------------------------------------------------------------
(* next_token.                                                              *)

scan_identifier_or_keyword ==
    /\ AtToken /\ is_identifier_start(current)
    /\ LET end == EndOf({ch \in Characters : is_identifier_part(ch)})
       IN  /\ Emit(keyword_type(SubSeq(source, position + 1, end)), end, 0)
           /\ MoveTo(end)
    /\ UNCHANGED <<source, error, status>>

\* Mutant of scan_integer: a number that is no int is taken as it is.
AnyInteger ==
    /\ AtToken /\ is_digit_char(current)
    /\ LET end == EndOf({ch \in Characters : is_digit_char(ch)})
       IN  /\ Emit("Integer", end, ValueOf(SubSeq(source, position + 1, end)))
           /\ MoveTo(end)
    /\ UNCHANGED <<source, error, status>>

\* std::stoi throws when the number is no int, and nobody catches it.
scan_integer ==
    /\ AtToken /\ is_digit_char(current)
    /\ LET end == EndOf({ch \in Characters : is_digit_char(ch)})
           value == ValueOf(SubSeq(source, position + 1, end))
       IN  IF value <= MaxInt
           THEN /\ Emit("Integer", end, value)
                /\ MoveTo(end)
                /\ status' = status
           ELSE /\ status' = "aborted"
                /\ UNCHANGED <<position, line, column, tokens, starts>>
    /\ UNCHANGED <<source, error>>

\* Mutant of scan_operator: "=" is taken for a token before "==" is tried.
SingleOperators ==
    /\ AtToken /\ current \in Single \cup MayDouble
    /\ Emit("Operator", position + 1, 0) /\ MoveTo(position + 1)
    /\ UNCHANGED <<source, error, status>>

scan_operator ==
    /\ AtToken /\ current \in Single \cup MayDouble
    /\ LET end == IF current \in MayDouble /\ peek_next = "=" THEN position + 2
                  ELSE position + 1
       IN  Emit("Operator", end, 0) /\ MoveTo(end)
    /\ UNCHANGED <<source, error, status>>

\* Mutant of error_token: the scan goes on behind a bad character, and a later
\* error replaces the first one.
ErrorGoesOn ==
    /\ AtToken
    /\ current \notin Letters \cup Digits \cup Single \cup MayDouble
    /\ error' = <<line, column>>
    /\ Emit("Error", position + 1, 0)
    /\ MoveTo(position + 1)
    /\ UNCHANGED <<source, status>>

\* The first error ends tokenize().
error_token ==
    /\ AtToken
    /\ current \notin Letters \cup Digits \cup Single \cup MayDouble
    /\ error' = <<line, column>>
    /\ Emit("Error", position + 1, 0)
    /\ MoveTo(position + 1)
    /\ status' = "done"
    /\ UNCHANGED source

EndOfFile ==
    /\ Scanning /\ is_at_end
    /\ Emit("EndOfFile", position, 0)
    /\ status' = "done"
    /\ UNCHANGED <<source, position, line, column, error>>

Step == SkipBlank \/ SkipComment \/ scan_identifier_or_keyword \/ scan_integer
        \/ scan_operator \/ error_token \/ EndOfFile

Returned == ~Scanning /\ UNCHANGED vars

Next == Step \/ Returned

\* tokenize() is a loop in one thread.
Spec == Init /\ [][Next]_vars /\ WF_vars(Step)

-----------------------------------------------------------------------------
(* Properties.                                                              *)

Token == [type : {"Keyword", "Identifier", "Integer", "Operator", "Error", "EndOfFile"},
          line : Nat \ {0}, column : Nat \ {0}, int_value : 0 .. MaxInt]

\* Every variable has its type.
TypeOK ==
    /\ source \in Sources
    /\ position \in 0 .. Len(source) /\ line \in Nat \ {0} /\ column \in Nat \ {0}
    /\ status \in {"scanning", "done", "aborted"}
    /\ error = << >> \/ error \in (Nat \ {0}) \X (Nat \ {0})
    /\ DOMAIN starts = DOMAIN tokens
    /\ \A i \in DOMAIN tokens :
          /\ [type |-> tokens[i].type, line |-> tokens[i].line,
              column |-> tokens[i].column, int_value |-> tokens[i].int_value] \in Token
          /\ starts[i] \in 0 .. Len(source)

\* Is line l, column c the place of position p?  l - 1 newlines are before p, and
\* c - 1 characters between the last one, or the beginning, and p.
Newlines(p) == {i \in 0 .. p - 1 : CharAt(i) = Newline}

IsPlaceOf(l, c, p) ==
    /\ l = 1 + Cardinality(Newlines(p))
    /\ \A i \in Newlines(p) : i < p - (c - 1)
    /\ p - (c - 1) = 0 \/ p - c \in Newlines(p)

\* The line and column of every token, which every later error message goes by, and
\* the lexer's own error, are where the token stands in the file, through comments,
\* blank lines and tabs.
PlacesAreTrue ==
    /\ IsPlaceOf(line, column, position)
    /\ \A i \in DOMAIN tokens : IsPlaceOf(tokens[i].line, tokens[i].column, starts[i])
    /\ error # << >> =>
          \E i \in DOMAIN tokens : /\ tokens[i].type = "Error"
                                    /\ error = <<tokens[i].line, tokens[i].column>>

\* The text of a comment: everything in a line from its first "//" on.
Commented(p) ==
    \E i \in 0 .. p : /\ CharAt(i) = "/" /\ CharAt(i + 1) = "/"
                      /\ \A j \in i .. p : CharAt(j) # Newline

Significant(p) == CharAt(p) \notin Blank /\ ~Commented(p)

Covers(i) == starts[i] .. starts[i] + Len(tokens[i].lexeme) - 1

\* language.md, section 3, and grammar.md, section 6: the tokens are the text
\* without its blanks and comments.  Nothing else is dropped, nothing is in two
\* tokens, and what a comment says, bad characters included, is in none.
TextIsTiled ==
    /\ \A p \in 0 .. position - 1 :
          Significant(p) <=> \E i \in DOMAIN tokens : p \in Covers(i)
    /\ \A i, j \in DOMAIN tokens : i < j => starts[i] + Len(tokens[i].lexeme) <= starts[j]

\* Each token is as long as it can be: x1 is one name, 11 one number, == one
\* operator, and a name that begins with a keyword is a name.
LongestMatch ==
    \A i \in DOMAIN tokens :
        LET end == starts[i] + Len(tokens[i].lexeme)
            type == tokens[i].type
        IN  /\ type \in {"Keyword", "Identifier"} => ~is_identifier_part(CharAt(end))
            /\ type = "Keyword" <=> tokens[i].lexeme \in Keywords
            /\ type = "Integer" => ~is_digit_char(CharAt(end))
            /\ tokens[i].lexeme \in {<<ch>> : ch \in MayDouble} => CharAt(end) # "="

Known == Letters \cup Digits \cup Single \cup MayDouble

\* The number that begins at p, of digits that are not part of a name, is no int.
IsHuge(p) ==
    /\ is_digit_char(CharAt(p)) /\ ~Commented(p)
    /\ ~\E n \in 0 .. p - 1 : /\ is_identifier_start(CharAt(n))
                              /\ \A i \in n .. p - 1 : is_identifier_part(CharAt(i))
    /\ \E q \in p + 1 .. Len(source) :
          /\ \A i \in p .. q - 1 : is_digit_char(CharAt(i))
          /\ ~is_digit_char(CharAt(q))
          /\ ValueOf(SubSeq(source, p + 1, q)) > MaxInt

\* A text is refused exactly if it has, outside comments, a character that no token
\* has; the error is at the first of them, and no token comes after it.  The process
\* is killed at the first number that is no int, and by nothing else: not by the
\* digits of a name or of a comment, and not behind an error.  (grammar.md, section 5,
\* has no bound on numbers.  See the README.)
StopsAtFirstFault ==
    LET Bad(p) == Significant(p) /\ CharAt(p) \notin Known
        Good(p) == ~Bad(p) /\ ~IsHuge(p)
        last == starts[Len(starts)]
    IN  /\ status = "done" =>
              IF error = << >> THEN \A p \in 0 .. Len(source) - 1 : Good(p)
              ELSE Bad(last) /\ \A p \in 0 .. last - 1 : Good(p)
        /\ status = "aborted" =>
              IsHuge(position) /\ \A p \in 0 .. position - 1 : Good(p)

\* Every text is tokenized, refused or given up: no turn of the loop stands still.
EveryScanEnds == <>(status # "scanning")
=============================================================================
