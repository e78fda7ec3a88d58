--------------------------- MODULE CommandLine_proofs ---------------------------
(***************************************************************************)
(* Theorems about the command for all command lines, files, programs and   *)
(* widths of int.  Where says what main relies on at each of its places:   *)
(* what the options read so far say, that nothing is written yet, and that *)
(* what is about to be written is the log of a run that has succeeded.     *)
(***************************************************************************)
EXTENDS CommandLine, SequenceTheorems, TLAPS

\* A program that is known; what else a file may hold does not matter.
Known(content) == content.kind = "program" => content.name \in DOMAIN Programs

IsRunOptions(o) == o = [tick_count |-> o.tick_count, log_path |-> o.log_path]

Types ==
    /\ argv \in Seq(STRING)
    /\ index \in Int /\ index >= 3
    /\ IsRunOptions(options)
    /\ DOMAIN disk = Paths /\ DOMAIN before = Paths
    /\ \A file \in Paths : Known(disk[file])
    /\ Known(loaded)
    /\ pc \in {"shell", "ended", "help", "usage", "options", "load", "work", "open", "write"}

\* Among the options below i, none is of this kind, or n is the last one that is.
None(flag, i) == \A m \in Pairs : m < i => argv[m] # flag
LastBelow(flag, i, n) ==
    /\ n \in Pairs /\ n < i /\ argv[n] = flag
    /\ \A m \in Pairs : n < m /\ m < i => argv[m] # flag

TicksBelow(i) ==
    \/ None("--ticks", i) /\ options.tick_count = kDefaultTicks
    \/ \E n \in Pairs : /\ LastBelow("--ticks", i, n)
                        /\ options.tick_count = Narrow(NumberOf[argv[n + 1]])
LogBelow(i) ==
    \/ None("--log", i) /\ options.log_path = NoPath
    \/ \E n \in Pairs : LastBelow("--log", i, n) /\ options.log_path = argv[n + 1]

\* The loop over the options, before the one at index.
ReadBelow ==
    /\ index <= Len(argv) + 1 /\ index % 2 = 1
    /\ \A n \in Pairs : n < index =>
          /\ argv[n] \in {"--ticks", "--log"}
          /\ argv[n] = "--ticks" => IsTickCount(argv[n + 1])
    /\ TicksBelow(index)
    /\ LogBelow(index)

\* All options are read.
Asked ==
    /\ AreOptions
    /\ AskedTicks \in Nat /\ options.tick_count = Narrow(AskedTicks)
    /\ options.log_path = AskedLog

Where ==
    /\ pc = "shell" => index = 3 /\ options = DefaultOptions
    /\ pc = "help" => ~Is("run")
    /\ pc \in {"open", "write"} => Is("run")
    /\ pc = "options" /\ Is("run") => ReadBelow
    /\ pc \in {"usage", "load", "work", "open", "write"} /\ Is("run") => index > Len(argv)
    /\ pc \in {"load", "work", "open", "write"} /\ Is("run") => Asked
    /\ pc \notin {"write", "ended"} => disk = before
    /\ pc \in {"work", "open", "write"} =>
          path \in Paths /\ loaded = before[path] /\ loaded # Absent
    /\ pc \in {"open", "write"} => ~RunStops(loaded, options.tick_count)
    /\ pc = "write" => /\ options.log_path \in Paths
                       /\ disk = [before EXCEPT ![options.log_path] = Empty]
    /\ pc # "ended" => outcome = "none"

RefusedForOptions ==
    Is("run") /\ outcome = "failed" /\ AreOptions => index > Len(argv)

Inv == Types /\ Where /\ RefusedForOptions /\ OnlyASuccessTouchesItsLog /\ LogIsOfThisRun

-----------------------------------------------------------------------------
(* Words and numbers.                                                       *)

LEMMA SameWords ==
    ASSUME argv' = argv
    PROVE  /\ AskedLog' = AskedLog /\ AskedTicks' = AskedTicks
           /\ AreOptions' = AreOptions
<1>1. Last("--ticks")' = Last("--ticks") /\ Last("--log")' = Last("--log")
    BY DEF Last, Pairs
<1>2. AskedLog' = AskedLog
    BY <1>1 DEF AskedLog
<1>3. AskedTicks' = AskedTicks
    BY <1>1 DEF AskedTicks
<1>4. AreOptions' = AreOptions
    BY DEF AreOptions, Pairs
<1> QED BY <1>2, <1>3, <1>4

\* The conversion to int keeps an int, and is off by the number of ints at most.
LEMMA NarrowProperties ==
    ASSUME NEW n \in Int
    PROVE  /\ Narrow(n) \in Int
           /\ 0 <= n /\ n < Modulus \div 2 => Narrow(n) = n
           /\ (n - Narrow(n)) % Modulus = 0
<1>1. Modulus \in Int /\ Modulus > 0 /\ Modulus \div 2 <= Modulus
    BY NumbersAssumption DEF kDefaultTicks
<1> DEFINE low == n % Modulus
           q == n \div Modulus
<1>2. low \in Int /\ q \in Int /\ n = Modulus * q + low /\ 0 <= low /\ low < Modulus
    BY <1>1
<1>3. 0 <= n /\ n < Modulus => low = n
    BY <1>1
<1>4. \A k \in Int : (Modulus * k) % Modulus = 0
    BY <1>1
<1> HIDE DEF low, q
<1>5. Narrow(n) = IF low < Modulus \div 2 THEN low ELSE low - Modulus
    BY DEF Narrow, low
<1>6. (n - Narrow(n)) % Modulus = 0
    <2>1. CASE low < Modulus \div 2
        <3>1. n - Narrow(n) = Modulus * q
            BY <1>1, <1>2, <1>5, <2>1
        <3> QED BY <1>2, <1>4, <3>1
    <2>2. CASE ~(low < Modulus \div 2)
        <3>1. n - Narrow(n) = Modulus * (q + 1)
            BY <1>1, <1>2, <1>5, <2>2
        <3> QED BY <1>2, <1>4, <3>1
    <2> QED BY <2>1, <2>2
<1> QED BY <1>1, <1>2, <1>3, <1>5, <1>6

LEMMA StopProperties ==
    ASSUME NEW content, Known(content)
    PROVE  Stop(content).how \in {"failed", "aborted"}
BY ProgramsAssumption DEF Known, Stop

LEMMA DispatchProperties ==
    ASSUME NEW words \in Seq(STRING)
    PROVE  /\ Dispatch(words) \in {"help", "usage", "options", "load"}
           /\ Dispatch(words) = "options" => Len(words) >= 2
           /\ words # << >> /\ words[1] = "run" =>
                 /\ Dispatch(words) \in {"usage", "options"}
                 /\ Dispatch(words) = "usage" => Len(words) < 2
<1>1. Len(words) \in Nat
    BY LenProperties
<1> QED BY <1>1 DEF Dispatch, Helps, Commands

-----------------------------------------------------------------------------
(* The loop over the options.                                               *)

\* Beyond the pair at index.
LEMMA OnePairOn ==
    ASSUME Types, ReadBelow, index <= Len(argv), NEW flag
    PROVE  /\ index \in Pairs /\ Len(argv) \in Nat
           /\ \A m \in Pairs : m < index + 2 => m < index \/ m = index
           /\ argv[index] = flag => LastBelow(flag, index + 2, index)
           /\ argv[index] # flag =>
                 /\ None(flag, index) => None(flag, index + 2)
                 /\ \A n \in Pairs : LastBelow(flag, index, n) => LastBelow(flag, index + 2, n)
<1>1. Len(argv) \in Nat /\ index \in Int /\ index >= 3 /\ index % 2 = 1
    BY LenProperties DEF Types, ReadBelow
<1>2. index \in Pairs
    BY <1>1 DEF Pairs
<1>3. \A m \in Pairs : m \in Int /\ (m < index + 2 => m < index \/ m = index)
    BY <1>1 DEF Pairs
<1>4. argv[index] = flag => LastBelow(flag, index + 2, index)
    BY <1>1, <1>2, <1>3 DEF LastBelow
<1>5. ASSUME argv[index] # flag
      PROVE  /\ None(flag, index) => None(flag, index + 2)
             /\ \A n \in Pairs : LastBelow(flag, index, n) => LastBelow(flag, index + 2, n)
    BY <1>1, <1>3, <1>5 DEF None, LastBelow
<1> QED BY <1>1, <1>2, <1>3, <1>4, <1>5

LEMMA Unique ==
    ASSUME Types, NEW flag, NEW n, LastBelow(flag, Len(argv) + 1, n)
    PROVE  Last(flag) # {} /\ The(Last(flag)) = n
<1>1. Len(argv) \in Nat
    BY LenProperties DEF Types
<1>2. \A m \in Pairs : m \in Int /\ m < Len(argv) + 1
    BY <1>1 DEF Pairs
<1>3. Last(flag) = {n}
    BY <1>2 DEF Last, LastBelow
<1> QED BY <1>3 DEF The

LEMMA AllRead ==
    ASSUME Types, ReadBelow, index > Len(argv)
    PROVE  Asked
<1>1. /\ Len(argv) \in Nat /\ index = Len(argv) + 1 /\ Len(argv) % 2 = 0
      /\ \A m \in Pairs : m \in Int /\ m < index
    BY LenProperties DEF Types, ReadBelow, Pairs
<1>2. AreOptions
    BY <1>1 DEF AreOptions, ReadBelow
<1>3. AskedTicks \in Nat /\ options.tick_count = Narrow(AskedTicks)
    <2>1. CASE None("--ticks", index) /\ options.tick_count = kDefaultTicks
        <3>1. Last("--ticks") = {}
            BY <1>1, <2>1 DEF Last, None
        <3>2. Narrow(kDefaultTicks) = kDefaultTicks
            BY NarrowProperties, NumbersAssumption DEF kDefaultTicks
        <3> QED BY <2>1, <3>1, <3>2 DEF AskedTicks, kDefaultTicks
    <2>2. ASSUME NEW n \in Pairs, LastBelow("--ticks", index, n),
                 options.tick_count = Narrow(NumberOf[argv[n + 1]])
          PROVE  AskedTicks \in Nat /\ options.tick_count = Narrow(AskedTicks)
        <3>1. AskedTicks = NumberOf[argv[n + 1]]
            BY <1>1, <2>2, Unique DEF AskedTicks
        <3>2. IsTickCount(argv[n + 1])
            BY <1>1, <2>2 DEF ReadBelow, LastBelow
        <3> QED BY <2>2, <3>1, <3>2, NumbersAssumption DEF IsTickCount
    <2> QED BY <2>1, <2>2 DEF ReadBelow, TicksBelow
<1>4. options.log_path = AskedLog
    <2>1. CASE None("--log", index) /\ options.log_path = NoPath
        <3>1. Last("--log") = {}
            BY <1>1, <2>1 DEF Last, None
        <3> QED BY <2>1, <3>1 DEF AskedLog
    <2>2. ASSUME NEW n \in Pairs, LastBelow("--log", index, n),
                 options.log_path = argv[n + 1]
          PROVE  options.log_path = AskedLog
        BY <1>1, <2>2, Unique DEF AskedLog
    <2> QED BY <2>1, <2>2 DEF ReadBelow, LogBelow
<1> QED BY <1>2, <1>3, <1>4 DEF Asked

-----------------------------------------------------------------------------
(* The invariant.                                                           *)

\* The process ends without having written anything.
LEMMA Ends ==
    ASSUME Inv, pc \notin {"shell", "write", "ended"}, pc' = "ended",
           UNCHANGED <<disk, argv, index, options, before>>, Known(loaded'),
           outcome' = "ok" /\ Is("run") => AskedLog = NoPath,
           outcome' = "failed" /\ Is("run") /\ AreOptions => index > Len(argv)
    PROVE  Inv'
<1>1. /\ disk' = disk /\ argv' = argv /\ index' = index /\ options' = options
      /\ before' = before
      /\ Types /\ Where /\ disk = before
    BY DEF Inv, Where
<1>2. AskedLog' = AskedLog /\ AreOptions' = AreOptions /\ (Is("run")' <=> Is("run"))
    BY <1>1, SameWords DEF Is
<1>3. Types'
    BY <1>1 DEF Types
<1>4. Where'
    BY DEF Where
<1>5. RefusedForOptions'
    BY <1>1, <1>2 DEF RefusedForOptions
<1>6. OnlyASuccessTouchesItsLog'
    BY <1>1 DEF OnlyASuccessTouchesItsLog
<1>7. LogIsOfThisRun'
    BY <1>2 DEF LogIsOfThisRun
<1> QED BY <1>3, <1>4, <1>5, <1>6, <1>7 DEF Inv

\* The process ends while it writes, or when it has.
LEMMA EndsWriting ==
    ASSUME Inv, pc = "write", pc' = "ended",
           UNCHANGED <<argv, index, options, loaded, before>>,
           NEW content, Known(content), disk' = disk \/ Holds(content),
           outcome' = "ok" =>
               fault' = "close" \/ (content = tick_log /\ Holds(content))
    PROVE  Inv'
<1>1. /\ argv' = argv /\ index' = index /\ options' = options
      /\ loaded' = loaded /\ before' = before
      /\ Types /\ Where
    BY DEF Inv
<1>2. /\ AskedLog' = AskedLog /\ AskedTicks' = AskedTicks
      /\ AreOptions' = AreOptions
      /\ (Is("run")' <=> Is("run")) /\ path' = path
    BY <1>1, SameWords DEF Is, path
<1>3. /\ Is("run") /\ Asked /\ index > Len(argv)
      /\ path \in Paths /\ loaded = before[path] /\ loaded # Absent
      /\ ~RunStops(loaded, options.tick_count)
      /\ options.log_path \in Paths
      /\ disk = [before EXCEPT ![options.log_path] = Empty]
    BY <1>1 DEF Where
<1>4. /\ AreOptions /\ options.tick_count = Narrow(AskedTicks)
      /\ options.log_path = AskedLog
    BY <1>3 DEF Asked
<1>5. /\ DOMAIN disk' = Paths
      /\ \A file \in Paths : /\ Known(disk'[file])
                             /\ file # AskedLog => disk'[file] = before[file]
    <2>1. Known(Empty)
        BY DEF Known, Empty
    <2>2. CASE disk' = disk
        BY <1>1, <1>3, <1>4, <2>1, <2>2 DEF Types
    <2>3. CASE Holds(content)
        BY <1>1, <1>3, <1>4, <2>3 DEF Types, Holds
    <2> QED BY <2>2, <2>3
<1>6. Types'
    BY <1>1, <1>5 DEF Types
<1>7. Where'
    BY DEF Where
<1>8. RefusedForOptions'
    BY <1>1, <1>3 DEF RefusedForOptions
<1>9. OnlyASuccessTouchesItsLog'
    <2>1. ~RunStops(before[path], Narrow(AskedTicks))
        BY <1>3, <1>4
    <2>2. ~RunStops(before[path], Narrow(AskedTicks))'
        BY <1>1, <1>2, <2>1 DEF RunStops, StagesOf, Is
    <2> QED BY <1>1, <1>2, <1>3, <1>4, <1>5, <2>2 DEF OnlyASuccessTouchesItsLog
<1>10. LogIsOfThisRun'
    <2>1. ASSUME content = tick_log, Holds(content)
          PROVE  disk'[AskedLog] = Log(before[path].name, Narrow(AskedTicks))
        BY <1>1, <1>3, <1>4, <2>1 DEF Types, Holds, tick_log
    <2> QED BY <1>1, <1>2, <2>1 DEF LogIsOfThisRun
<1> QED BY <1>6, <1>7, <1>8, <1>9, <1>10 DEF Inv

\* From one place to another before anything is written.
LEMMA GoesOn ==
    ASSUME Inv, pc \notin {"write", "ended"},
           pc' \in {"shell", "help", "usage", "options", "load", "work", "open"},
           disk' = before', outcome' = "none", Types', Where'
    PROVE  Inv'
<1>1. RefusedForOptions'
    BY DEF RefusedForOptions
<1>2. OnlyASuccessTouchesItsLog'
    BY DEF OnlyASuccessTouchesItsLog
<1>3. LogIsOfThisRun'
    BY DEF LogIsOfThisRun
<1> QED BY <1>1, <1>2, <1>3 DEF Inv

LEMMA InitInv == Init => Inv
<1> SUFFICES ASSUME Init PROVE Inv
    OBVIOUS
<1>1. /\ disk \in [Paths -> {Absent} \cup {Source(name) : name \in DOMAIN Programs}]
      /\ before = disk
      /\ pc = "shell" /\ argv = << >> /\ index = 3 /\ options = DefaultOptions
      /\ loaded = Absent /\ outcome = "none"
    BY DEF Init
<1>2. Known(Absent) /\ \A name \in DOMAIN Programs : Known(Source(name))
    BY DEF Known, Absent, Source
<1>3. IsRunOptions(DefaultOptions)
    BY DEF IsRunOptions, DefaultOptions
<1>4. Types
    BY <1>1, <1>2, <1>3 DEF Types
<1>5. Where
    BY <1>1 DEF Where
<1>6. RefusedForOptions /\ OnlyASuccessTouchesItsLog /\ LogIsOfThisRun
    BY <1>1 DEF RefusedForOptions, OnlyASuccessTouchesItsLog, LogIsOfThisRun
<1> QED BY <1>4, <1>5, <1>6 DEF Inv

LEMMA ShellInv == Inv /\ (Invoke \/ Prompt \/ Save) => Inv'
<1> SUFFICES ASSUME Inv, Invoke \/ Prompt \/ Save PROVE Inv'
    OBVIOUS
<1>1. Types /\ Where
    BY DEF Inv
<1>2. CASE Invoke
    <2>1. /\ pc = "shell" /\ argv' \in Seq(STRING) /\ pc' = Dispatch(argv')
          /\ UNCHANGED <<disk, index, options, loaded, outcome, before, fault>>
        BY <1>2, InvocationsAssumption DEF Invoke
    <2>2. /\ index = 3 /\ options = DefaultOptions /\ disk = before /\ outcome = "none"
        BY <1>1, <2>1 DEF Where
    <2>3. /\ pc' \in {"help", "usage", "options", "load"}
          /\ pc' = "help" => ~Is("run")'
          /\ pc' = "options" => Len(argv') >= 2
          /\ Is("run")' => /\ pc' \in {"usage", "options"}
                           /\ pc' = "usage" => Len(argv') < 2
        BY <2>1, DispatchProperties DEF Is
    <2>4. Types'
        BY <1>1, <2>1, <2>3 DEF Types
    <2>5. pc' = "options" => ReadBelow'
        <3>1. SUFFICES ASSUME pc' = "options" PROVE ReadBelow'
            OBVIOUS
        <3>2. index' = 3 /\ Len(argv') \in Nat /\ Len(argv') >= 2
            BY <2>1, <2>2, <2>3, <3>1, LenProperties
        <3>3. \A n \in Pairs' : ~(n < index')
            BY <3>2 DEF Pairs
        <3>4. None("--ticks", index)' /\ None("--log", index)'
            BY <3>3 DEF None
        <3>5. options'.tick_count = kDefaultTicks /\ options'.log_path = NoPath
            BY <2>1, <2>2 DEF DefaultOptions
        <3> QED BY <3>2, <3>3, <3>4, <3>5 DEF ReadBelow, TicksBelow, LogBelow
    <2>6. pc' = "usage" /\ Is("run")' => index' > Len(argv')
        <3>1. Len(argv') \in Nat
            BY <2>1, LenProperties
        <3> QED BY <2>1, <2>2, <2>3, <3>1
    <2>7. Where'
        BY <2>1, <2>2, <2>3, <2>5, <2>6 DEF Where
    <2> QED BY <2>1, <2>2, <2>3, <2>4, <2>7, GoesOn
<1>3. CASE Prompt
    <2>1. /\ pc = "ended" /\ pc' = "shell" /\ argv' = << >>
          /\ index' = 3 /\ options' = DefaultOptions /\ loaded' = Absent
          /\ outcome' = "none" /\ before' = disk /\ disk' = disk
        BY <1>3 DEF Prompt
    <2>2. Types'
        <3>1. IsRunOptions(DefaultOptions) /\ Known(Absent)
            BY DEF IsRunOptions, DefaultOptions, Known, Absent
        <3> QED BY <1>1, <2>1, <3>1 DEF Types
    <2>3. Where'
        BY <2>1 DEF Where
    <2>4. RefusedForOptions' /\ OnlyASuccessTouchesItsLog' /\ LogIsOfThisRun'
        BY <2>1 DEF RefusedForOptions, OnlyASuccessTouchesItsLog, LogIsOfThisRun
    <2> QED BY <2>2, <2>3, <2>4 DEF Inv
<1>4. CASE Save
    <2>1. /\ pc = "shell" /\ before' = disk'
          /\ UNCHANGED <<argv, pc, index, options, loaded, outcome, fault>>
        BY <1>4 DEF Save
    <2>2. PICK file \in Paths, name \in DOMAIN Programs :
             disk' = [disk EXCEPT ![file] = Source(name)]
        BY <1>4 DEF Save
    <2>3. Types'
        <3>1. Known(Source(name))
            BY DEF Known, Source
        <3>2. DOMAIN disk' = Paths /\ \A other \in Paths : Known(disk'[other])
            BY <1>1, <2>2, <3>1 DEF Types
        <3> QED BY <1>1, <2>1, <3>2 DEF Types
    <2>4. Where'
        BY <1>1, <2>1 DEF Where
    <2> QED BY <1>1, <2>1, <2>3, <2>4, GoesOn DEF Where
<1> QED BY <1>2, <1>3, <1>4

LEMMA OptionInv == Inv /\ (ReadTicks \/ ReadLog) => Inv'
<1> SUFFICES ASSUME Inv, ReadTicks \/ ReadLog PROVE Inv'
    OBVIOUS
<1>1. Types /\ Where
    BY DEF Inv
<1>2. /\ pc = "options" /\ Is("run") /\ index <= Len(argv)
      /\ UNCHANGED <<disk, argv, loaded, before, fault>>
      /\ argv[index] \in {"--ticks", "--log"}
    BY DEF ReadTicks, ReadLog, AtOption
<1>3. disk = before /\ ReadBelow /\ outcome = "none"
    BY <1>1, <1>2 DEF Where
<1>4. /\ index \in Pairs /\ Len(argv) \in Nat
      /\ \A m \in Pairs : m < index + 2 => m < index \/ m = index
      /\ \A flag : argv[index] = flag => LastBelow(flag, index + 2, index)
      /\ \A flag : argv[index] # flag =>
            /\ None(flag, index) => None(flag, index + 2)
            /\ \A n \in Pairs : LastBelow(flag, index, n) => LastBelow(flag, index + 2, n)
    BY <1>1, <1>2, <1>3, OnePairOn
<1>5. CASE Refuse
    <2>1. pc' = "ended" /\ outcome' = "failed" /\ index' = index /\ options' = options
        BY <1>5 DEF Refuse, Exit
    <2>2. \/ index = Len(argv)
          \/ argv[index] = "--ticks" /\ ~IsTickCount(argv[index + 1])
        BY <1>1, <1>2, <1>4, <1>5, <2>1
           DEF ReadTicks, ReadLog, HasValue, Value, Types
    <2>3. ~AreOptions
        BY <1>3, <1>4, <2>2 DEF AreOptions, ReadBelow
    <2> QED BY <1>1, <1>2, <2>1, <2>3, Ends DEF Types
<1>6. CASE /\ index < Len(argv) /\ index' = index + 2
           /\ UNCHANGED <<pc, outcome>>
           /\ \/ /\ argv[index] = "--ticks" /\ IsTickCount(argv[index + 1])
                 /\ options' = [options EXCEPT !.tick_count = Narrow(NumberOf[argv[index + 1]])]
              \/ /\ argv[index] = "--log"
                 /\ options' = [options EXCEPT !.log_path = argv[index + 1]]
    <2>1. /\ IsRunOptions(options')
          /\ \/ /\ argv[index] = "--ticks" /\ IsTickCount(argv[index + 1])
                /\ options'.tick_count = Narrow(NumberOf[argv[index + 1]])
                /\ options'.log_path = options.log_path
             \/ /\ argv[index] = "--log"
                /\ options'.log_path = argv[index + 1]
                /\ options'.tick_count = options.tick_count
        BY <1>1, <1>6 DEF Types, IsRunOptions
    <2>2. Types'
        BY <1>1, <1>2, <1>6, <2>1 DEF Types
    <2>3. argv' = argv /\ Pairs' = Pairs /\ index' = index + 2 /\ index \in Int
        BY <1>1, <1>2, <1>6 DEF Pairs, Types
    <2>4. ReadBelow'
        <3>1. index' <= Len(argv') + 1 /\ index' % 2 = 1
            BY <1>3, <1>4, <1>6, <2>3 DEF ReadBelow
        <3>2. \A n \in Pairs' : n < index' =>
                 /\ argv'[n] \in {"--ticks", "--log"}
                 /\ argv'[n] = "--ticks" => IsTickCount(argv'[n + 1])
            BY <1>2, <1>3, <1>4, <2>1, <2>3 DEF ReadBelow
        <3>3. TicksBelow(index + 2)
                 \/ argv[index] = "--ticks"
            BY <1>3, <1>4 DEF ReadBelow, TicksBelow
        <3>4. LogBelow(index + 2)
                 \/ argv[index] = "--log"
            BY <1>3, <1>4 DEF ReadBelow, LogBelow
        <3>5. TicksBelow(index)'
            <4>1. CASE argv[index] = "--ticks"
                BY <1>4, <2>1, <2>3, <4>1 DEF TicksBelow, LastBelow
            <4>2. CASE argv[index] # "--ticks"
                BY <2>1, <2>3, <3>3, <4>2 DEF TicksBelow, LastBelow, None
            <4> QED BY <4>1, <4>2
        <3>6. LogBelow(index)'
            <4>1. CASE argv[index] = "--log"
                BY <1>4, <2>1, <2>3, <4>1 DEF LogBelow, LastBelow
            <4>2. CASE argv[index] # "--log"
                BY <2>1, <2>3, <3>4, <4>2 DEF LogBelow, LastBelow, None
            <4> QED BY <4>1, <4>2
        <3> QED BY <3>1, <3>2, <3>5, <3>6 DEF ReadBelow
    <2>5. Where'
        BY <1>2, <1>3, <1>6, <2>4 DEF Where
    <2> QED BY <1>2, <1>3, <1>6, <2>2, <2>5, GoesOn
<1> QED BY <1>2, <1>5, <1>6 DEF ReadTicks, ReadLog, HasValue, Value

\* Help, a misuse, another option, or the end of the options.
LEMMA ArgumentInv == Inv /\ (Help \/ Usage \/ ReadStats \/ UnknownOption \/ OptionsRead) => Inv'
<1> SUFFICES ASSUME Inv, Help \/ Usage \/ ReadStats \/ UnknownOption \/ OptionsRead
             PROVE  Inv'
    OBVIOUS
<1>1. Types /\ Where
    BY DEF Inv
<1>2. CASE Help
    BY <1>1, <1>2, Ends DEF Help, Exit, Where, Types
<1>3. CASE Usage
    BY <1>1, <1>3, Ends DEF Usage, Exit, Where, Types
<1>4. CASE ReadStats
    <2>1. /\ pc = "options" /\ ~Is("run") /\ index' = index + 1
          /\ UNCHANGED <<disk, argv, pc, options, loaded, outcome, before, fault>>
        BY <1>4 DEF ReadStats, AtOption, Is
    <2>2. ~Is("run")' /\ disk = before /\ outcome = "none"
        BY <1>1, <2>1 DEF Is, Where
    <2>3. Types' /\ Where'
        BY <1>1, <2>1, <2>2 DEF Types, Where
    <2> QED BY <2>1, <2>2, <2>3, GoesOn
<1>5. CASE UnknownOption
    <2>1. /\ pc = "options" /\ pc' = "ended" /\ outcome' = "failed"
          /\ UNCHANGED <<disk, argv, index, options, loaded, before, fault>>
          /\ index <= Len(argv)
          /\ Is("run") => argv[index] \notin {"--ticks", "--log"}
        BY <1>5 DEF UnknownOption, AtOption, Refuse, Exit, Is
    <2>2. Is("run") => ~AreOptions
        BY <1>1, <2>1, OnePairOn DEF AreOptions, Where
    <2> QED BY <1>1, <2>1, <2>2, Ends DEF Types
<1>6. CASE OptionsRead
    <2>1. /\ pc = "options" /\ index > Len(argv) /\ pc' = "load"
          /\ UNCHANGED <<disk, argv, index, options, loaded, outcome, before, fault>>
        BY <1>6 DEF OptionsRead
    <2>2. disk = before /\ outcome = "none"
        BY <1>1, <2>1 DEF Where
    <2>3. Is("run") => Asked
        BY <1>1, <2>1, AllRead DEF Where
    <2>4. (Is("run")' <=> Is("run")) /\ (Asked' <=> Asked)
        BY <2>1, SameWords DEF Is, Asked
    <2>5. Types' /\ Where'
        BY <1>1, <2>1, <2>2, <2>3, <2>4 DEF Types, Where
    <2> QED BY <2>1, <2>2, <2>5, GoesOn
<1> QED BY <1>2, <1>3, <1>4, <1>5, <1>6

LEMMA CommandInv == Inv /\ (Load \/ Work \/ Run) => Inv'
<1> SUFFICES ASSUME Inv, Load \/ Work \/ Run PROVE Inv'
    OBVIOUS
<1>1. /\ Types /\ Where
      /\ UNCHANGED <<disk, argv, index, options, before, fault>>
      /\ pc \in {"load", "work"}
    BY DEF Inv, Load, Work, Run
<1>2. /\ disk = before /\ outcome = "none"
      /\ Is("run") => Asked /\ index > Len(argv)
    BY <1>1 DEF Where
<1>3. (Is("run")' <=> Is("run")) /\ (Asked' <=> Asked) /\ path' = path
    BY <1>1, SameWords DEF Is, Asked, path
<1>4. CASE Load
    <2> DEFINE content == IF path \in Paths THEN disk[path] ELSE Absent
    <2>1. /\ loaded' = content
          /\ \/ pc' = "ended" /\ outcome' \in {"failed", Stop(content).how}
             \/ content # Absent /\ pc' = "work" /\ outcome' = outcome
        BY <1>4 DEF Load, Exit
    <2>2. Known(content)
        BY <1>1 DEF Types, Known, Absent
    <2>3. CASE pc' = "ended"
        <3>1. outcome' \in {"failed", "aborted"}
            BY <2>1, <2>2, <2>3, StopProperties
        <3> QED BY <1>1, <1>2, <2>1, <2>2, <2>3, <3>1, Ends
    <2>4. CASE content # Absent /\ pc' = "work" /\ outcome' = outcome
        <3>1. path \in Paths /\ loaded' = before[path]
            BY <1>2, <2>1, <2>4
        <3>2. Types'
            BY <1>1, <2>1, <2>2, <2>4 DEF Types
        <3>3. Where'
            BY <1>1, <1>2, <1>3, <2>1, <2>4, <3>1 DEF Where
        <3> QED BY <1>1, <1>2, <2>4, <3>2, <3>3, GoesOn
    <2> QED BY <2>1, <2>3, <2>4
<1>5. Known(loaded) /\ Stop(loaded).how \in {"failed", "aborted"}
    BY <1>1, StopProperties DEF Types
<1>6. CASE Work
    BY <1>1, <1>5, <1>6, Ends DEF Work, Exit
<1>7. CASE Run
    <2>1. pc = "work" /\ Is("run") /\ loaded' = loaded
        BY <1>7 DEF Run
    <2>2. CASE pc' = "ended" /\ (outcome' = "ok" => options.log_path = NoPath)
        BY <1>1, <1>2, <1>5, <2>1, <2>2, Ends DEF Asked
    <2>3. CASE /\ ~RunStops(loaded, options.tick_count)
               /\ pc' = "open" /\ outcome' = outcome
        <3>1. RunStops(loaded, options.tick_count)' = RunStops(loaded, options.tick_count)
            BY <1>1, <2>1 DEF RunStops, StagesOf
        <3>2. Types' /\ Where'
            BY <1>1, <1>2, <1>3, <2>1, <2>3, <3>1 DEF Types, Where
        <3> QED BY <1>1, <1>2, <2>3, <3>2, GoesOn
    <2> QED BY <1>5, <1>7, <2>2, <2>3 DEF Run, Exit
<1> QED BY <1>4, <1>6, <1>7

LEMMA LogInv == Inv /\ (OpenLog \/ OpenFails \/ WriteLog \/ WriteFails \/ CloseFails) => Inv'
<1> SUFFICES ASSUME Inv, OpenLog \/ OpenFails \/ WriteLog \/ WriteFails \/ CloseFails
             PROVE  Inv'
    OBVIOUS
<1>1. /\ Types /\ Where
      /\ UNCHANGED <<argv, index, options, loaded, before>>
      /\ pc \in {"open", "write"}
    BY DEF Inv, OpenLog, OpenFails, WriteLog, WriteFails, CloseFails
<1>2. /\ Is("run") /\ Asked /\ index > Len(argv)
      /\ pc = "open" => disk = before
      /\ pc = "write" => /\ options.log_path \in Paths
                         /\ disk = [before EXCEPT ![options.log_path] = Empty]
    BY <1>1 DEF Where
<1>3. Known(Empty) /\ Known(Torn) /\ Known(tick_log)
    BY DEF Known, Empty, Torn, tick_log, Log
<1>4. CASE OpenLog
    <2>1. /\ pc = "open" /\ pc' = "write" /\ options.log_path \in Paths
          /\ disk' = [before EXCEPT ![options.log_path] = Empty] /\ outcome' = outcome
        BY <1>2, <1>4 DEF OpenLog, Holds
    <2>2. Types'
        <3>1. DOMAIN disk' = Paths /\ \A file \in Paths : Known(disk'[file])
            BY <1>1, <1>2, <1>3, <2>1 DEF Types
        <3> QED BY <1>1, <2>1, <3>1 DEF Types
    <2>3. /\ Is("run")' /\ Asked' /\ path' = path
          /\ AskedLog' = AskedLog /\ AskedTicks' = AskedTicks /\ AreOptions' = AreOptions
          /\ RunStops(loaded, options.tick_count)' = RunStops(loaded, options.tick_count)
        BY <1>1, <1>2, SameWords DEF Is, Asked, path, RunStops, StagesOf
    <2>4. Where'
        BY <1>1, <1>2, <2>1, <2>3 DEF Where
    <2>5. OnlyASuccessTouchesItsLog'
        <3>1. /\ path \in Paths /\ loaded = before[path] /\ loaded # Absent
              /\ ~RunStops(loaded, options.tick_count)
            BY <1>1 DEF Where
        <3>2. ~RunStops(before[path], Narrow(AskedTicks))
            BY <1>2, <3>1 DEF Asked
        <3>3. ~RunStops(before[path], Narrow(AskedTicks))'
            BY <1>1, <2>3, <3>2 DEF RunStops, StagesOf
        <3>4. \A file \in Paths : file # AskedLog => disk'[file] = before'[file]
            BY <1>1, <1>2, <2>1 DEF Asked, Types
        <3> QED BY <1>1, <1>2, <2>3, <3>1, <3>3, <3>4
                DEF OnlyASuccessTouchesItsLog, Asked
    <2>6. RefusedForOptions' /\ LogIsOfThisRun'
        BY <1>1, <1>2, <2>1 DEF RefusedForOptions, LogIsOfThisRun
    <2> QED BY <2>2, <2>4, <2>5, <2>6 DEF Inv
<1>5. CASE OpenFails
    BY <1>1, <1>2, <1>5, Ends DEF OpenFails, Exit, Types
<1>6. CASE WriteLog
    <2>1. pc = "write" /\ pc' = "ended"
        BY <1>6 DEF WriteLog, Exit
    <2>2. disk[options.log_path] = Empty
        BY <1>1, <1>2, <2>1 DEF Types
    <2>3. Holds(tick_log)
        BY <1>6, <2>2 DEF WriteLog
    <2> QED BY <1>1, <1>3, <2>1, <2>3, EndsWriting
<1>7. CASE WriteFails \/ CloseFails
    <2>1. /\ pc = "write" /\ pc' = "ended"
          /\ outcome' = "ok" => fault' = "close"
        BY <1>7 DEF WriteFails, CloseFails, Exit
    <2>2. PICK rest \in {Empty, Torn} : Holds(rest)
        BY <1>7 DEF WriteFails, CloseFails
    <2> QED BY <1>1, <1>3, <2>1, <2>2, EndsWriting
<1> QED BY <1>4, <1>5, <1>6, <1>7

LEMMA KillInv == Inv /\ Kill => Inv'
<1> SUFFICES ASSUME Inv, Kill PROVE Inv'
    OBVIOUS
<1>1. /\ Types
      /\ pc \notin {"shell", "ended"} /\ pc' = "ended" /\ outcome' = "killed"
      /\ UNCHANGED <<argv, index, options, loaded, before, fault>>
      /\ \/ disk' = disk
         \/ pc = "write" /\ \E rest \in {Torn, tick_log} : Holds(rest)
    BY DEF Inv, Kill, Running, Exit
<1>2. Known(Torn) /\ Known(tick_log)
    BY DEF Known, Torn, tick_log, Log
<1>3. CASE pc = "write"
    BY <1>1, <1>2, <1>3, EndsWriting
<1>4. CASE pc # "write"
    BY <1>1, <1>4, Ends DEF Types
<1> QED BY <1>3, <1>4

LEMMA StutterInv == Inv /\ UNCHANGED vars => Inv'
<1> SUFFICES ASSUME Inv, UNCHANGED vars PROVE Inv'
    OBVIOUS
<1>1. /\ disk' = disk /\ argv' = argv /\ pc' = pc /\ index' = index /\ options' = options
      /\ loaded' = loaded /\ outcome' = outcome /\ before' = before /\ fault' = fault
    BY DEF vars
<1>2. /\ AskedLog' = AskedLog /\ AskedTicks' = AskedTicks /\ AreOptions' = AreOptions
      /\ (Is("run")' <=> Is("run")) /\ path' = path
    BY <1>1, SameWords DEF Is, path
<1>3. Types'
    BY <1>1 DEF Inv, Types
<1>4. Where'
    <2>1. ReadBelow' <=> ReadBelow
        BY <1>1 DEF ReadBelow, TicksBelow, LogBelow, None, LastBelow, Pairs
    <2>2. Asked' <=> Asked
        BY <1>1, <1>2 DEF Asked
    <2>3. RunStops(loaded, options.tick_count)' <=> RunStops(loaded, options.tick_count)
        BY <1>1 DEF RunStops, StagesOf
    <2> QED BY <1>1, <1>2, <2>1, <2>2, <2>3 DEF Inv, Where
<1>5. RefusedForOptions'
    BY <1>1, <1>2 DEF Inv, RefusedForOptions
<1>6. OnlyASuccessTouchesItsLog'
    <2>1. RunStops(before[path], Narrow(AskedTicks))' <=> RunStops(before[path], Narrow(AskedTicks))
        BY <1>1, <1>2 DEF RunStops, StagesOf
    <2> QED BY <1>1, <1>2, <2>1 DEF Inv, OnlyASuccessTouchesItsLog
<1>7. LogIsOfThisRun'
    BY <1>1, <1>2 DEF Inv, LogIsOfThisRun
<1> QED BY <1>3, <1>4, <1>5, <1>6, <1>7 DEF Inv

LEMMA Invariant == Spec => []Inv
<1>1. Inv /\ [Next]_vars => Inv'
    BY ShellInv, OptionInv, ArgumentInv, CommandInv, LogInv, KillInv, StutterInv
       DEF Next, Step
<1> QED BY <1>1, InitInv, PTL DEF Spec

-----------------------------------------------------------------------------
(* Types.                                                                   *)

Ints == -(Modulus \div 2) .. Modulus \div 2 - 1

\* What is narrowed is an int.
LEMMA NarrowIsInt ==
    ASSUME NEW n \in Int
    PROVE  Narrow(n) \in Ints
<1> DEFINE half == Modulus \div 2
           low == n % Modulus
<1>1. Modulus \in Int /\ Modulus > 0 /\ half \in Int /\ Modulus = half + half
    BY NumbersAssumption DEF kDefaultTicks
<1>2. low \in Int /\ 0 <= low /\ low < Modulus
    BY <1>1
<1>3. Narrow(n) = IF low < half THEN low ELSE low - Modulus
    BY DEF Narrow
<1>4. Ints = -half .. half - 1
    BY DEF Ints
<1> HIDE DEF half, low
<1> QED BY <1>1, <1>2, <1>3, <1>4

\* Only a program is run to its end, and for no negative number of ticks.
LEMMA OnlyProgramsRun ==
    ASSUME NEW content \in Contents, content # Absent, Is("run"),
           NEW ticks, ~RunStops(content, ticks)
    PROVE  content.kind = "program" /\ content.name \in DOMAIN Programs /\ ~(ticks < 0)
<1>1. Stop(content).stage \notin Stages \ {"Tick", "None"} /\ ~(ticks < 0)
    BY DEF RunStops, StagesOf, Is
<1>2. CASE content.kind = "program"
    BY <1>1, <1>2 DEF Contents, Source, Absent, Empty, Torn
<1>3. CASE content.kind # "program"
    <2>1. Stop(content).stage \in {"Lexer", "Semantic"}
        BY <1>3 DEF Stop
    <2> QED BY <1>1, <2>1 DEF Stages, FrontEndStages
<1> QED BY <1>2, <1>3

\* What a write can leave in the file.
LEMMA WritingTyped ==
    ASSUME Inv, TypeOK, pc = "write", NEW content \in {Empty, Torn, tick_log}, Holds(content)
    PROVE  disk' \in [Paths -> Contents]
<1>1. content \in Contents
    <2>1. /\ Is("run") /\ loaded # Absent
          /\ ~RunStops(loaded, options.tick_count)
        BY DEF Inv, Where
    <2>2. loaded \in Contents /\ options.tick_count \in Ints
        BY DEF TypeOK, Ints
    <2>3. loaded.name \in DOMAIN Programs /\ ~(options.tick_count < 0)
        BY <2>1, <2>2, OnlyProgramsRun
    <2>4. options.tick_count \in Nat
        BY <2>2, <2>3, NumbersAssumption DEF Ints
    <2>5. tick_log \in Contents
        BY <2>3, <2>4 DEF tick_log, Log, Contents
    <2> QED BY <2>5 DEF Contents
<1> QED BY <1>1 DEF TypeOK, Holds

LEMMA NextTyped ==
    ASSUME Inv, TypeOK, [Next]_vars
    PROVE  TypeOK'
<1>1. /\ disk \in [Paths -> Contents] /\ before \in [Paths -> Contents]
      /\ argv = << >> \/ argv \in Invocations
      /\ index \in Nat
      /\ options.tick_count \in Ints
      /\ loaded \in Contents
      /\ outcome \in {"none", "ok", "failed", "aborted", "killed"}
      /\ fault \in Faults \cup {"none", "open"}
      /\ Known(loaded)
    BY DEF Inv, Types, TypeOK, Ints
<1>2. pc' \in {"shell", "ended", "help", "usage", "options", "load", "work", "open", "write"}
    <2>1. Inv'
        BY ShellInv, OptionInv, ArgumentInv, CommandInv, LogInv, KillInv, StutterInv
           DEF Next, Step
    <2> QED BY <2>1 DEF Inv, Types
<1>3. DefaultOptions.tick_count \in Ints
    BY NumbersAssumption DEF DefaultOptions, Ints, kDefaultTicks
<1>4. Absent \in Contents /\ Empty \in Contents
      /\ \A name \in DOMAIN Programs : Source(name) \in Contents
    BY DEF Contents
<1>5. CASE Invoke
    <2>1. argv' \in Invocations
          /\ UNCHANGED <<disk, index, options, loaded, outcome, before, fault>>
        BY <1>5 DEF Invoke
    <2> QED BY <1>1, <1>2, <2>1 DEF TypeOK, Ints
<1>6. CASE Help \/ Usage \/ UnknownOption
    <2>1. /\ UNCHANGED <<disk, argv, index, options, loaded, before, fault>>
          /\ outcome' \in {"ok", "failed"}
        BY <1>6 DEF Help, Usage, UnknownOption, Refuse, Exit
    <2> QED BY <1>1, <1>2, <2>1 DEF TypeOK, Ints
<1>7. CASE ReadTicks \/ ReadLog
    <2>1. /\ UNCHANGED <<disk, argv, loaded, before, fault>>
          /\ outcome' \in {outcome, "failed"}
          /\ index' \in {index, index + 2}
        BY <1>7 DEF ReadTicks, ReadLog, Refuse, Exit
    <2>2. options'.tick_count \in Ints
        <3>1. CASE options' = options
            BY <1>1, <3>1
        <3>2. CASE options' = [options EXCEPT !.log_path = Value]
            BY <1>1, <3>2 DEF Inv, Types, IsRunOptions
        <3>3. CASE IsTickCount(Value)
                   /\ options' = [options EXCEPT !.tick_count = Narrow(NumberOf[Value])]
            <4>1. NumberOf[Value] \in Int
                BY <3>3, NumbersAssumption DEF IsTickCount
            <4> QED BY <3>3, <4>1, NarrowIsInt DEF Inv, Types, IsRunOptions
        <3> QED BY <1>7, <3>1, <3>2, <3>3 DEF ReadTicks, ReadLog, Refuse
    <2>3. index' \in Nat
        BY <1>1, <2>1
    <2> QED BY <1>1, <1>2, <2>1, <2>2, <2>3 DEF TypeOK, Ints
<1>8. CASE ReadStats \/ OptionsRead
    <2>1. /\ UNCHANGED <<disk, argv, options, loaded, outcome, before, fault>>
          /\ index' \in {index, index + 1}
        BY <1>8 DEF ReadStats, OptionsRead
    <2>2. index' \in Nat
        BY <1>1, <2>1
    <2> QED BY <1>1, <1>2, <2>1, <2>2 DEF TypeOK, Ints
<1>9. CASE Load
    <2> DEFINE content == IF path \in Paths THEN disk[path] ELSE Absent
    <2>1. content \in Contents /\ Known(content)
        <3>1. \A file \in Paths : disk[file] \in Contents /\ Known(disk[file])
            BY <1>1 DEF Inv, Types
        <3>2. Known(Absent)
            BY DEF Known, Absent
        <3> QED BY <1>4, <3>1, <3>2
    <2>2. /\ UNCHANGED <<disk, argv, index, options, before, fault>>
          /\ loaded' = content
          /\ outcome' \in {outcome, "failed", Stop(content).how}
        BY <1>9 DEF Load, Exit
    <2>3. Stop(content).how \in {"failed", "aborted"}
        BY <2>1, StopProperties
    <2> HIDE DEF content
    <2> QED BY <1>1, <1>2, <2>1, <2>2, <2>3 DEF TypeOK, Ints
<1>10. CASE Work \/ Run
    <2>1. /\ UNCHANGED <<disk, argv, index, options, loaded, before, fault>>
          /\ outcome' \in {outcome, "ok", "failed", Stop(loaded).how}
        BY <1>10 DEF Work, Run, Exit
    <2>2. Stop(loaded).how \in {"failed", "aborted"}
        BY <1>1, StopProperties
    <2> QED BY <1>1, <1>2, <2>1, <2>2 DEF TypeOK, Ints
<1>11. CASE OpenLog \/ OpenFails
    <2>1. /\ UNCHANGED <<argv, index, options, loaded, before>>
          /\ outcome' \in {outcome, "failed"} /\ fault' \in {fault, "open"}
          /\ disk' = disk \/ Holds(Empty)
        BY <1>11 DEF OpenLog, OpenFails, Exit
    <2>2. disk' \in [Paths -> Contents]
        BY <1>1, <1>4, <2>1 DEF Holds
    <2> QED BY <1>1, <1>2, <2>1, <2>2 DEF TypeOK, Ints
<1>12. CASE WriteLog \/ WriteFails \/ CloseFails
    <2>1. /\ UNCHANGED <<argv, index, options, loaded, before>> /\ pc = "write"
          /\ outcome' \in {"ok", "failed"} /\ fault' \in Faults \cup {fault}
          /\ \E content \in {Empty, Torn, tick_log} : Holds(content)
        BY <1>12 DEF WriteLog, WriteFails, CloseFails, Exit
    <2>2. disk' \in [Paths -> Contents]
        BY <2>1, WritingTyped
    <2> QED BY <1>1, <1>2, <2>1, <2>2 DEF TypeOK, Ints
<1>13. CASE Kill
    <2>1. /\ UNCHANGED <<argv, index, options, loaded, before, fault>>
          /\ outcome' = "killed"
          /\ \/ disk' = disk
             \/ pc = "write" /\ \E content \in {Torn, tick_log} : Holds(content)
        BY <1>13 DEF Kill, Exit
    <2>2. disk' \in [Paths -> Contents]
        BY <1>1, <2>1, WritingTyped
    <2> QED BY <1>1, <1>2, <2>1, <2>2 DEF TypeOK, Ints
<1>14. CASE Prompt
    <2>1. /\ argv' = << >> /\ index' = 3 /\ options' = DefaultOptions /\ loaded' = Absent
          /\ outcome' = "none" /\ fault' = "none" /\ before' = disk /\ disk' = disk
        BY <1>14 DEF Prompt
    <2> QED BY <1>1, <1>2, <1>3, <1>4, <2>1 DEF TypeOK, Ints
<1>15. CASE Save
    <2>1. /\ UNCHANGED <<argv, index, options, loaded, outcome, fault>> /\ before' = disk'
          /\ \E file \in Paths, name \in DOMAIN Programs :
                disk' = [disk EXCEPT ![file] = Source(name)]
        BY <1>15 DEF Save
    <2>2. disk' \in [Paths -> Contents]
        BY <1>1, <1>4, <2>1
    <2> QED BY <1>1, <1>2, <2>1, <2>2 DEF TypeOK, Ints
<1>16. CASE UNCHANGED vars
    BY <1>1, <1>2, <1>16 DEF vars, TypeOK, Ints
<1> QED BY <1>5, <1>6, <1>7, <1>8, <1>9, <1>10, <1>11, <1>12, <1>13, <1>14, <1>15, <1>16
        DEF Next, Step

-----------------------------------------------------------------------------
(* The theorems.                                                            *)

\* Every variable has its type: whatever number --ticks names, the tick count is an
\* int, and a log in a file is one of a known program for a number of ticks that is
\* not negative, whoever was killed while writing it.
THEOREM CommandIsTyped == Spec => []TypeOK
<1>1. Init => TypeOK
    <2> SUFFICES ASSUME Init PROVE TypeOK
        OBVIOUS
    <2>1. /\ disk \in [Paths -> Contents] /\ before = disk /\ loaded \in Contents
        BY DEF Init, Contents
    <2>2. /\ pc = "shell" /\ argv = << >> /\ index = 3 /\ options = DefaultOptions
          /\ outcome = "none" /\ fault = "none"
        BY DEF Init
    <2>3. DefaultOptions.tick_count \in -(Modulus \div 2) .. Modulus \div 2 - 1
        BY NumbersAssumption DEF DefaultOptions, kDefaultTicks
    <2> QED BY <2>1, <2>2, <2>3 DEF TypeOK
<1>2. Inv /\ TypeOK /\ [Next]_vars => TypeOK'
    BY NextTyped
<1> QED BY <1>1, <1>2, Invariant, PTL DEF Spec

\* Whatever the words behind a source file are, run begins with what they ask for, the
\* last --ticks and the last --log; an int is taken as it is and a larger number
\* narrowed; and only words that are no options are refused as such.
THEOREM OptionsAreAsGiven == Spec => []OptionsAsGiven
<1>1. Inv => OptionsAsGiven
    <2>1. SUFFICES ASSUME Inv, Is("run") PROVE OptionsAsGiven
        BY DEF OptionsAsGiven
    <2>2. ASSUME pc \in {"load", "work", "open", "write"}
          PROVE  /\ AreOptions /\ options.log_path = AskedLog
                 /\ AskedTicks < Modulus \div 2 => options.tick_count = AskedTicks
                 /\ (AskedTicks - options.tick_count) % Modulus = 0
        <3>1. Asked
            BY <2>1, <2>2 DEF Inv, Where
        <3> QED BY <3>1, NarrowProperties DEF Asked
    <2> QED BY <2>1, <2>2 DEF Inv, RefusedForOptions, OptionsAsGiven
<1> QED BY <1>1, Invariant, PTL

\* Wherever an invocation is, fails or is killed, no file differs from what it was but
\* the log that run was asked for, and that one only if the whole run has succeeded.
THEOREM OnlySuccessesTouchLogs == Spec => []OnlyASuccessTouchesItsLog
<1>1. Inv => OnlyASuccessTouchesItsLog
    BY DEF Inv
<1> QED BY <1>1, Invariant, PTL

\* A run that reports success has left its own log and nothing else in the file, also
\* if that was its source or what a killed run had left, unless closing it failed.
THEOREM LogsAreOfTheirRuns == Spec => []LogIsOfThisRun
<1>1. Inv => LogIsOfThisRun
    BY DEF Inv
<1> QED BY <1>1, Invariant, PTL
=============================================================================
