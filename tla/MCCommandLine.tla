----------------------------- MODULE MCCommandLine -----------------------------
(***************************************************************************)
(* Two files, a program that runs, one that fails in its second tick and   *)
(* one that the lexer gives up on.  ints have five bits; "35" is more than *)
(* one of them, narrowed to 3, as "31" is to -1.                           *)
(***************************************************************************)
EXTENDS CommandLine

MCNumberOf == [word \in {"3", "1", "31", "35", "-2"} |->
                  CASE word = "3" -> 3 [] word = "1" -> 1 [] word = "31" -> 31
                    [] word = "35" -> 35 [] word = "-2" -> -2]

\* run, with up to three more words, or with two options in either order or twice.
Words == {"p", "l", "--ticks", "--log", "1"}
Ticks == {<<"--ticks", word>> : word \in DOMAIN MCNumberOf \cup {"x"}}
Logs == {<<"--log", word>> : word \in {"p", "l", "x"}}
Twice == {first \o second : first \in Ticks \cup Logs, second \in Ticks \cup Logs}

MCInvocations ==
    {<<"run">> \o words : words \in UNION {[1 .. n -> Words] : n \in 0 .. 3}}
    \cup {<<"run", "p">> \o options2 : options2 \in Twice}
    \cup {<<"run", "l">> \o options2 : options2 \in Logs}
    \cup {<<command, "p">> : command \in Commands \cup {"help", "x"}}
    \cup {<< >>, <<"ir">>, <<"parse", "p", "l">>, <<"optimize">>,
          <<"optimize", "p", "--stats">>, <<"optimize", "p", "--log">>}

MCPrograms ==
    [good |-> [stage |-> "None", how |-> "failed", tick |-> 0],
     fails |-> [stage |-> "Tick", how |-> "failed", tick |-> 2],
     huge |-> [stage |-> "Lexer", how |-> "aborted", tick |-> 0]]
=============================================================================
