------------------------------ MODULE CommandLine ------------------------------
(***************************************************************************)
(* The causis command: src/main.cpp, src/cli/frontend.cpp and the writing  *)
(* of the log, one invocation after another over files that stay.  What a  *)
(* command makes of a program is a function of the program: the stage that *)
(* stops it, if any (the other modules say which).  An invocation may be   *)
(* killed between any two steps.                                           *)
(***************************************************************************)
EXTENDS Integers, Sequences

CONSTANTS
    Invocations,    \* argv[1 ..]: sequences of words
    Paths,          \* the words that name a file which can be created
    NumberOf,       \* the numbers of the words that std::stoll reads to their end
    Modulus,        \* the number of ints
    Programs,       \* programs, by name: the stage that stops each, how, and its tick
    Faults          \* how a log can fail to be written: "open", "write", "close"

kDefaultTicks == 10

FrontEndStages == {"Lexer", "Parser", "Semantic"}
Stages == FrontEndStages \cup {"Lowering", "Optimizer", "Compiler", "Tick", "None"}

ASSUME ProgramsAssumption ==
    \A name \in DOMAIN Programs :
        Programs[name] \in [stage : Stages, how : {"failed", "aborted"}, tick : Nat]
ASSUME NumbersAssumption ==
    /\ Modulus \in Nat /\ Modulus % 2 = 0 /\ kDefaultTicks < Modulus \div 2
    /\ \A word \in DOMAIN NumberOf : NumberOf[word] \in Int
ASSUME InvocationsAssumption == Invocations \subseteq Seq(STRING)
ASSUME FaultsAssumption == Faults \subseteq {"open", "write", "close"}

\* What a file holds.
Absent == [kind |-> "absent"]
Empty == [kind |-> "empty"]
Torn == [kind |-> "torn"]       \* a part of a log, with a string in it
Source(name) == [kind |-> "program", name |-> name]
Log(name, ticks) == [kind |-> "log", name |-> name, ticks |-> ticks]

VARIABLES
    disk,       \* the contents of Paths
    argv,       \* the words of the invocation
    pc,         \* where it is; "ended" or, before the next one, "shell"
    index,      \* i of the loops over options
    options,    \* RunOptions
    loaded,     \* what the source file held when it was read
    outcome,    \* how it ended
    before,     \* history: the disk when it began
    fault       \* history: what went wrong with its log

vars == <<disk, argv, pc, index, options, loaded, outcome, before, fault>>

Commands == {"tokenize", "parse", "semantic", "ir", "optimize", "disassemble", "run"}
Helps == {"--help", "-h", "help"}

NoPath == "no path"
DefaultOptions == [tick_count |-> kDefaultTicks, log_path |-> NoPath]

Is(command) == argv # << >> /\ argv[1] = command
path == argv[2]

\* The source that a command is stopped by, and where.  A program without a world
\* is refused by the analyzer, and JSON by the lexer.
Stop(content) ==
    CASE content.kind = "program" -> Programs[content.name]
      [] content.kind = "empty" -> [stage |-> "Semantic", how |-> "failed", tick |-> 0]
      [] OTHER -> [stage |-> "Lexer", how |-> "failed", tick |-> 0]

Init ==
    /\ disk \in [Paths -> {Absent} \cup {Source(name) : name \in DOMAIN Programs}]
    /\ before = disk
    /\ pc = "shell" /\ argv = << >> /\ index = 3 /\ options = DefaultOptions
    /\ loaded = Absent /\ outcome = "none" /\ fault = "none"

Running == pc \notin {"shell", "ended"}

Exit(how) == pc' = "ended" /\ outcome' = how

-----------------------------------------------------------------------------
(* main.                                                                    *)

Dispatch(words) ==
    IF words = << >> THEN "help"
    ELSE CASE words[1] \in Helps -> "help"
           [] words[1] \in {"run", "optimize"} ->
                  IF Len(words) < 2 THEN "usage" ELSE "options"
           [] OTHER ->
                  IF words[1] \in Commands /\ Len(words) = 2 THEN "load" ELSE "usage"

\* A new process.
Invoke ==
    /\ pc = "shell"
    /\ argv' \in Invocations
    /\ pc' = Dispatch(argv')
    /\ UNCHANGED <<disk, index, options, loaded, outcome, before, fault>>

Help == pc = "help" /\ Exit("ok")
        /\ UNCHANGED <<disk, argv, index, options, loaded, before, fault>>

Usage == pc = "usage" /\ Exit("failed")
         /\ UNCHANGED <<disk, argv, index, options, loaded, before, fault>>

-----------------------------------------------------------------------------
(* The options of run and optimize.                                         *)

\* Mutant of Narrow: the conversion keeps the number.
AsItIs(n) == n

\* static_cast<int>
Narrow(n) ==
    LET low == n % Modulus
    IN  IF low < Modulus \div 2 THEN low ELSE low - Modulus

IsTickCount(word) == word \in DOMAIN NumberOf /\ NumberOf[word] >= 0

AtOption(command) == pc = "options" /\ Is(command) /\ index <= Len(argv)
Value == argv[index + 1]
HasValue == index < Len(argv)

Refuse == Exit("failed") /\ UNCHANGED <<index, options>>

\* Mutant of ReadTicks: the value is looked at again, as an option.
ValueIsNextOption ==
    /\ AtOption("run") /\ argv[index] = "--ticks"
    /\ IF HasValue /\ IsTickCount(Value)
       THEN /\ options' = [options EXCEPT !.tick_count = Narrow(NumberOf[Value])]
            /\ index' = index + 1
            /\ UNCHANGED <<pc, outcome>>
       ELSE Refuse
    /\ UNCHANGED <<disk, argv, loaded, before, fault>>

ReadTicks ==
    /\ AtOption("run") /\ argv[index] = "--ticks"
    /\ IF HasValue /\ IsTickCount(Value)
       THEN /\ options' = [options EXCEPT !.tick_count = Narrow(NumberOf[Value])]
            /\ index' = index + 2
            /\ UNCHANGED <<pc, outcome>>
       ELSE Refuse
    /\ UNCHANGED <<disk, argv, loaded, before, fault>>

ReadLog ==
    /\ AtOption("run") /\ argv[index] = "--log"
    /\ IF HasValue
       THEN /\ options' = [options EXCEPT !.log_path = Value]
            /\ index' = index + 2
            /\ UNCHANGED <<pc, outcome>>
       ELSE Refuse
    /\ UNCHANGED <<disk, argv, loaded, before, fault>>

\* Mutant of ReadStats: the loop does not go on.
ReadStatsAgain ==
    /\ AtOption("optimize") /\ argv[index] = "--stats"
    /\ UNCHANGED vars

ReadStats ==
    /\ AtOption("optimize") /\ argv[index] = "--stats"
    /\ index' = index + 1
    /\ UNCHANGED <<disk, argv, pc, options, loaded, outcome, before, fault>>

UnknownOption ==
    /\ \/ AtOption("run") /\ argv[index] \notin {"--ticks", "--log"}
       \/ AtOption("optimize") /\ argv[index] # "--stats"
    /\ Refuse
    /\ UNCHANGED <<disk, argv, loaded, before, fault>>

\* Mutant of OptionsRead: the log is opened at once.
OpensLogEarly ==
    /\ pc = "options" /\ index > Len(argv)
    /\ pc' = "load"
    /\ disk' = IF options.log_path \in Paths
               THEN [disk EXCEPT ![options.log_path] = Empty] ELSE disk
    /\ UNCHANGED <<argv, index, options, loaded, outcome, before, fault>>

OptionsRead ==
    /\ pc = "options" /\ index > Len(argv)
    /\ pc' = "load"
    /\ UNCHANGED <<disk, argv, index, options, loaded, outcome, before, fault>>

-----------------------------------------------------------------------------
(* The commands.                                                            *)

\* The stages that a command goes through; run's ticks apart.
StagesOf(command) ==
    CASE command = "tokenize" -> {"Lexer"}
      [] command = "parse" -> {"Lexer", "Parser"}
      [] command = "semantic" -> FrontEndStages
      [] command = "ir" -> FrontEndStages \cup {"Lowering"}
      [] command = "optimize" ->
            FrontEndStages \cup {"Lowering", "Optimizer"}
            \cup (IF Len(argv) > 2 THEN {"Compiler"} ELSE {})
      [] OTHER -> Stages \ {"Tick", "None"}

\* Reading the source, and lexer, parser and analyzer as far as the command has them.
Load ==
    /\ pc = "load"
    /\ LET content == IF path \in Paths THEN disk[path] ELSE Absent
           stop == Stop(content)
       IN  /\ loaded' = content
           /\ IF content = Absent THEN Exit("failed")
              ELSE IF stop.stage \in FrontEndStages \cap StagesOf(argv[1])
              THEN Exit(stop.how)
              ELSE pc' = "work" /\ UNCHANGED outcome
    /\ UNCHANGED <<disk, argv, index, options, before, fault>>

\* What a command other than run does then, output included.
Work ==
    /\ pc = "work" /\ ~Is("run")
    /\ IF Stop(loaded).stage \in StagesOf(argv[1]) THEN Exit(Stop(loaded).how)
       ELSE Exit("ok")
    /\ UNCHANGED <<disk, argv, index, options, loaded, before, fault>>

\* Does run_program stop without a result, and how?
RunStops(content, ticks) ==
    LET stop == Stop(content)
    IN  \/ ticks < 0
        \/ stop.stage \in StagesOf("run")
        \/ stop.stage = "Tick" /\ stop.tick <= ticks

\* run_simulation up to the log, whose frames are in memory.
Run ==
    /\ pc = "work" /\ Is("run")
    /\ IF options.tick_count < 0 THEN Exit("failed")
       ELSE IF RunStops(loaded, options.tick_count) THEN Exit(Stop(loaded).how)
       ELSE IF options.log_path = NoPath THEN Exit("ok")
       ELSE pc' = "open" /\ UNCHANGED outcome
    /\ UNCHANGED <<disk, argv, index, options, loaded, before, fault>>

-----------------------------------------------------------------------------
(* write_tick_log_file.                                                     *)

tick_log == Log(loaded.name, options.tick_count)
Holds(content) == disk' = [disk EXCEPT ![options.log_path] = content]

\* Mutant of OpenLog: it opens at the end of what is there.
OpenToAppend ==
    /\ pc = "open" /\ options.log_path \in Paths
    /\ pc' = "write"
    /\ Holds(IF disk[options.log_path] = Absent THEN Empty ELSE disk[options.log_path])
    /\ UNCHANGED <<argv, index, options, loaded, outcome, before, fault>>

\* std::ofstream empties the file.
OpenLog ==
    /\ pc = "open" /\ options.log_path \in Paths
    /\ pc' = "write"
    /\ Holds(Empty)
    /\ UNCHANGED <<argv, index, options, loaded, outcome, before, fault>>

OpenFails ==
    /\ pc = "open"
    /\ options.log_path \notin Paths \/ "open" \in Faults
    /\ fault' = "open"
    /\ Exit("failed")
    /\ UNCHANGED <<disk, argv, index, options, loaded, before>>

\* The log goes behind what is in the file.
WriteLog ==
    /\ pc = "write"
    /\ Holds(IF disk[options.log_path] = Empty THEN tick_log ELSE Torn)
    /\ Exit("ok")
    /\ UNCHANGED <<argv, index, options, loaded, before, fault>>

\* A write that fails while the text is inserted is reported.
WriteFails ==
    /\ pc = "write" /\ "write" \in Faults
    /\ \E rest \in {Empty, Torn} : Holds(rest)
    /\ fault' = "write"
    /\ Exit("failed")
    /\ UNCHANGED <<argv, index, options, loaded, before>>

\* What is still in the stream's buffer is written by its destructor, after the
\* result was taken from the stream.
CloseFails ==
    /\ pc = "write" /\ "close" \in Faults
    /\ \E rest \in {Empty, Torn} : Holds(rest)
    /\ fault' = "close"
    /\ Exit("ok")
    /\ UNCHANGED <<argv, index, options, loaded, before>>

-----------------------------------------------------------------------------

\* Somebody kills the process.
Kill ==
    /\ Running
    /\ Exit("killed")
    /\ \/ UNCHANGED disk
       \/ pc = "write" /\ \E rest \in {Torn, tick_log} : Holds(rest)
    /\ UNCHANGED <<argv, index, options, loaded, before, fault>>

\* The shell is back.
Prompt ==
    /\ pc = "ended"
    /\ pc' = "shell" /\ argv' = << >> /\ index' = 3 /\ options' = DefaultOptions
    /\ loaded' = Absent /\ outcome' = "none" /\ fault' = "none" /\ before' = disk
    /\ UNCHANGED disk

\* Somebody saves a program in a file.
Save ==
    /\ pc = "shell"
    /\ \E file \in Paths, name \in DOMAIN Programs :
          disk' = [disk EXCEPT ![file] = Source(name)]
    /\ before' = disk'
    /\ UNCHANGED <<argv, pc, index, options, loaded, outcome, fault>>

Step ==
    \/ Help \/ Usage
    \/ ReadTicks \/ ReadLog \/ ReadStats \/ UnknownOption \/ OptionsRead
    \/ Load \/ Work \/ Run
    \/ OpenLog \/ OpenFails \/ WriteLog \/ WriteFails \/ CloseFails

Next == Invoke \/ Step \/ Kill \/ Prompt \/ Save

\* The process runs; nobody has to start or kill one.
Spec == Init /\ [][Next]_vars /\ WF_vars(Step)

-----------------------------------------------------------------------------
(* Properties.                                                              *)

\* What the words behind a source file ask for, read as pairs.
Pairs == {n \in 3 .. Len(argv) : n % 2 = 1}
Last(flag) == {n \in Pairs : argv[n] = flag /\ \A m \in Pairs : m > n => argv[m] # flag}

AreOptions ==
    /\ Len(argv) % 2 = 0
    /\ \A n \in Pairs : /\ argv[n] \in {"--ticks", "--log"}
                        /\ argv[n] = "--ticks" => IsTickCount(argv[n + 1])

The(S) == CHOOSE x \in S : TRUE
AskedTicks == IF Last("--ticks") = {} THEN kDefaultTicks
              ELSE NumberOf[argv[The(Last("--ticks")) + 1]]
AskedLog == IF Last("--log") = {} THEN NoPath ELSE argv[The(Last("--log")) + 1]

Contents == {Absent, Empty, Torn} \cup {Source(name) : name \in DOMAIN Programs}
            \cup [kind : {"log"}, name : DOMAIN Programs, ticks : Nat]

\* Every variable has its type; a tick count is an int.
TypeOK ==
    /\ disk \in [Paths -> Contents] /\ before \in [Paths -> Contents]
    /\ argv = << >> \/ argv \in Invocations
    /\ pc \in {"shell", "ended", "help", "usage", "options", "load", "work", "open", "write"}
    /\ index \in Nat
    /\ options.tick_count \in -(Modulus \div 2) .. Modulus \div 2 - 1
    /\ loaded \in Contents
    /\ outcome \in {"none", "ok", "failed", "aborted", "killed"}
    /\ fault \in Faults \cup {"none", "open"}

\* run begins with what its words ask for: the last --ticks and the last --log count,
\* and a value is never an option.  README.md: "Add --ticks N to control simulation
\* length": N is the number of ticks if it is an int, and differs from it by a multiple
\* of Modulus if it is none.  A run is refused for its options exactly if they are none.
OptionsAsGiven ==
    Is("run") =>
        /\ pc \in {"load", "work", "open", "write"} =>
              /\ AreOptions
              /\ options.log_path = AskedLog
              /\ AskedTicks < Modulus \div 2 => options.tick_count = AskedTicks
              /\ (AskedTicks - options.tick_count) % Modulus = 0
        /\ outcome = "failed" /\ AreOptions => index > Len(argv)

\* An invocation changes no file but the log that run was asked for, and that one not
\* before the whole run has succeeded: after a refusal, a runtime error in the last
\* tick or a fault of the toolchain the log of an earlier run is still there.
OnlyASuccessTouchesItsLog ==
    \A file \in Paths : disk[file] # before[file] =>
        /\ Is("run") /\ AreOptions /\ file = AskedLog
        /\ path \in Paths /\ before[path] # Absent
        /\ ~RunStops(before[path], Narrow(AskedTicks))

\* When run reports success, its log is the one of this run: of the source as it was,
\* even if the log replaces it, and of nothing that was in the file before.  A log that
\* cannot be opened or written is no success.  (One that cannot be closed is.)
LogIsOfThisRun ==
    (pc = "ended" /\ outcome = "ok" /\ Is("run") /\ AskedLog # NoPath) =>
        \/ disk[AskedLog] = Log(before[path].name, Narrow(AskedTicks))
        \/ fault = "close"

\* Every invocation that nobody kills ends by itself.
EveryInvocationEnds == Running ~> (pc = "ended")

\* tick_log.h: write_tick_log_file "returns false if the file could not be written".
\* (What the destructor writes is not asked.)
ReportedMeansWritten ==
    (pc = "ended" /\ outcome = "ok" /\ Is("run") /\ AskedLog # NoPath) =>
        disk[AskedLog].kind = "log"
=============================================================================
