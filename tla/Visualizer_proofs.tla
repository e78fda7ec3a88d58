--------------------------- MODULE Visualizer_proofs ---------------------------
(***************************************************************************)
(* Theorems about the page for every set of files and every number of      *)
(* reads under way.  Inv says what the handlers rely on without saying so: *)
(* the popup and its flag belong to the frame that is shown, the buttons   *)
(* to the index, and the read begun last to the file chosen last.          *)
(***************************************************************************)
EXTENDS Visualizer, SequenceTheorems, TLAPS

Types ==
    /\ reads \in Seq(DOMAIN Files) /\ Len(reads) <= MaxReads
    /\ tickLog \in {NoLog} \cup DOMAIN Files
    /\ tickLog # NoLog => Files[tickLog] # <<"junk">>
    /\ frameIndex \in -1 .. (IF tickLog = NoLog THEN -1 ELSE Len(Frames(tickLog)) - 1)
    /\ goalReachedShown \in BOOLEAN /\ popup \in BOOLEAN /\ error \in BOOLEAN
    /\ nextDisabled \in BOOLEAN /\ resetDisabled \in BOOLEAN
    /\ dismissed \in BOOLEAN /\ overtaken \in BOOLEAN
    /\ canvas = Blank \/ canvas[1] \in DOMAIN Files
    /\ chosen \in {NoLog} \cup DOMAIN Files

\* The popup is raised once for a goal, and is down for anything else.
Celebrates ==
    /\ AtGoal => popup \/ dismissed
    /\ popup \/ goalReachedShown => AtGoal \/ tickLog = NoLog
    /\ Shown => \A n \in 0 .. frameIndex - 1 : Frame(tickLog, n) # "goal"

\* Unless a read was overtaken, the last one is of the file chosen last.
ReadsLast ==
    ~overtaken =>
        /\ reads # << >> => reads[Len(reads)] = chosen
        /\ reads = << >> /\ tickLog # NoLog => tickLog = chosen

Painted == Shown => canvas = <<tickLog, frameIndex>>

Inv == Types /\ ButtonsTellTheTruth /\ Celebrates /\ ReadsLast /\ Painted

-----------------------------------------------------------------------------
(* What is removed from the reads.                                          *)

LEMMA RemoveAtProperties ==
    ASSUME NEW S, NEW s \in Seq(S), NEW n \in 1 .. Len(s)
    PROVE  /\ RemoveAt(s, n) \in Seq(S)
           /\ Len(RemoveAt(s, n)) = Len(s) - 1
           /\ n < Len(s) => RemoveAt(s, n)[Len(s) - 1] = s[Len(s)]
<1> DEFINE l == SubSeq(s, 1, n - 1)
           r == SubSeq(s, n + 1, Len(s))
<1>1. /\ Len(s) \in Nat /\ n \in Int /\ 1 <= n /\ n <= Len(s)
      /\ \A i \in 1 .. Len(s) : s[i] \in S
    BY LenProperties
<1>2. l \in Seq(S) /\ Len(l) = n - 1
    <2>1. \A i \in 1 .. n - 1 : s[i] \in S
        BY <1>1
    <2>2. n - 1 \in Int
        BY <1>1
    <2>3. l \in Seq(S) /\ Len(l) = IF 1 <= n - 1 THEN n - 1 - 1 + 1 ELSE 0
        BY <2>1, <2>2, SubSeqProperties
    <2> QED BY <1>1, <2>3
<1>3. /\ r \in Seq(S)
      /\ Len(r) = Len(s) - n
      /\ \A i \in 1 .. Len(s) - n : r[i] = s[n + i]
    <2>1. \A i \in n + 1 .. Len(s) : s[i] \in S
        BY <1>1
    <2>2. n + 1 \in Int /\ Len(s) \in Int
        BY <1>1
    <2>3. /\ r \in Seq(S)
          /\ Len(r) = IF n + 1 <= Len(s) THEN Len(s) - (n + 1) + 1 ELSE 0
          /\ \A i \in 1 .. Len(s) - (n + 1) + 1 : r[i] = s[n + 1 + i - 1]
        BY <2>1, <2>2, SubSeqProperties
    <2> HIDE DEF r
    <2>4. Len(r) = Len(s) - n
        BY <1>1, <2>3
    <2>5. ASSUME NEW i \in 1 .. Len(s) - n PROVE r[i] = s[n + i]
        <3>1. i \in 1 .. Len(s) - (n + 1) + 1 /\ n + 1 + i - 1 = n + i
            BY <1>1
        <3> QED BY <2>3, <3>1
    <2> QED BY <2>3, <2>4, <2>5
<1> HIDE DEF l, r
<1>4. /\ l \o r \in Seq(S)
      /\ Len(l \o r) = Len(s) - 1
      /\ \A i \in 1 .. Len(s) - 1 : i > n - 1 => (l \o r)[i] = r[i - (n - 1)]
    <2>1. /\ l \o r \in Seq(S)
          /\ Len(l \o r) = Len(l) + Len(r)
          /\ \A i \in 1 .. Len(l) + Len(r) :
                (l \o r)[i] = IF i <= Len(l) THEN l[i] ELSE r[i - Len(l)]
        BY <1>2, <1>3, ConcatProperties
    <2>2. Len(l) + Len(r) = Len(s) - 1
        BY <1>1, <1>2, <1>3
    <2> QED BY <1>1, <1>2, <2>1, <2>2
<1>5. RemoveAt(s, n) = l \o r
    BY DEF RemoveAt, l, r
<1>6. n < Len(s) => (l \o r)[Len(s) - 1] = s[Len(s)]
    <2>1. SUFFICES ASSUME n < Len(s) PROVE (l \o r)[Len(s) - 1] = s[Len(s)]
        OBVIOUS
    <2>2. (l \o r)[Len(s) - 1] = r[Len(s) - n]
        <3>1. Len(s) - 1 \in 1 .. Len(s) - 1 /\ Len(s) - 1 > n - 1
            BY <1>1, <2>1
        <3>2. Len(s) - 1 - (n - 1) = Len(s) - n
            BY <1>1
        <3> QED BY <1>4, <3>1, <3>2
    <2>3. Len(s) - n \in 1 .. Len(s) - n /\ n + (Len(s) - n) = Len(s)
        BY <1>1, <2>1
    <2> QED BY <1>3, <2>2, <2>3
<1> QED BY <1>4, <1>5, <1>6

-----------------------------------------------------------------------------
(* What the handlers have in common.                                        *)

LEMMA FramesProperties ==
    ASSUME NEW file \in DOMAIN Files, Files[file] # <<"junk">>
    PROVE  /\ Len(Frames(file)) \in Nat /\ Len(Frames(file)) > 0
           /\ \A i \in 0 .. Len(Frames(file)) - 1 :
                 Frame(file, i) \in {"plain", "goal", "broken"}
<1>1. Files[file][2] \in Seq({"plain", "goal", "broken"}) \ {<< >>}
    BY FilesAssumption
<1>2. /\ Len(Files[file][2]) \in Nat /\ Len(Files[file][2]) > 0
      /\ \A i \in 1 .. Len(Files[file][2]) :
            Files[file][2][i] \in {"plain", "goal", "broken"}
    BY <1>1, LenProperties, EmptySeq
<1>3. ASSUME NEW i \in 0 .. Len(Frames(file)) - 1
      PROVE  Frame(file, i) \in {"plain", "goal", "broken"}
    <2>1. i + 1 \in 1 .. Len(Files[file][2])
        BY <1>2 DEF Frames
    <2> QED BY <1>2, <2>1 DEF Frame, Frames
<1> QED BY <1>2, <1>3 DEF Frames

\* The log that is loaded and the frame that is shown.
LEMMA LoadedProperties ==
    ASSUME Types, tickLog # NoLog
    PROVE  /\ tickLog \in DOMAIN Files
           /\ Len(Frames(tickLog)) \in Nat /\ Len(Frames(tickLog)) > 0
           /\ frameIndex \in -1 .. Len(Frames(tickLog)) - 1
           /\ \A i \in 0 .. Len(Frames(tickLog)) - 1 :
                 Frame(tickLog, i) \in {"plain", "goal", "broken"}
BY FramesProperties DEF Types

\* updateButtons leaves them right for the frame that it is called for.
LEMMA ButtonsUpdated ==
    ASSUME Types', updateButtons
    PROVE  ButtonsTellTheTruth'
<1>1. CASE tickLog' = NoLog
    <2>1. ~CanAdvance(tickLog', frameIndex') /\ ~StepsOn' /\ ~Shown'
        BY <1>1 DEF CanAdvance, StepsOn, Shown
    <2> QED BY <1>1, <2>1 DEF updateButtons, ButtonsTellTheTruth
<1>2. CASE tickLog' # NoLog
    <2>1. /\ tickLog' \in DOMAIN Files
          /\ Len(Frames(tickLog')) \in Nat
          /\ frameIndex' \in -1 .. Len(Frames(tickLog')) - 1
          /\ \A i \in 0 .. Len(Frames(tickLog')) - 1 :
                Frame(tickLog', i) \in {"plain", "goal", "broken"}
        BY <1>2, FramesProperties DEF Types
    <2>2. Shown' <=> ~(frameIndex' < 0)
        BY <1>2, <2>1 DEF Shown
    <2>3. ~Broken' => (StepsOn' <=> CanAdvance(tickLog', frameIndex'))
        BY <1>2, <2>1 DEF Broken, Current, Shown, StepsOn, CanAdvance
    <2> QED BY <1>2, <2>2, <2>3 DEF updateButtons, ButtonsTellTheTruth
<1> QED BY <1>1, <1>2

\* A read that ends as the n-th of those under way.
LEMMA ReadsShrink ==
    ASSUME Types, ReadsLast, NEW n \in DOMAIN reads, reads' = RemoveAt(reads, n),
           overtaken' = (overtaken \/ n > 1), UNCHANGED chosen,
           tickLog' \in {NoLog, reads[n]}
    PROVE  /\ reads' \in Seq(DOMAIN Files) /\ Len(reads') <= MaxReads
           /\ ReadsLast'
<1>1. /\ n \in 1 .. Len(reads) /\ Len(reads) \in Nat /\ n \in Int
    BY LenProperties DEF Types
<1>2. /\ reads' \in Seq(DOMAIN Files)
      /\ Len(reads') = Len(reads) - 1
      /\ n < Len(reads) => reads'[Len(reads) - 1] = reads[Len(reads)]
    BY <1>1, RemoveAtProperties DEF Types
<1>3. Len(reads') <= MaxReads
    BY <1>1, <1>2, MaxReadsAssumption DEF Types
<1>4. ASSUME ~overtaken'
      PROVE  /\ reads' # << >> => reads'[Len(reads')] = chosen'
             /\ reads' = << >> /\ tickLog' # NoLog => tickLog' = chosen'
    <2>0. ~overtaken /\ ~(n > 1)
        BY <1>4, Zenon
    <2>1. ~overtaken /\ n = 1
        BY <1>1, <2>0
    <2>2. reads # << >> /\ reads[Len(reads)] = chosen
        BY <1>1, <2>1, EmptySeq DEF ReadsLast
    <2>3. CASE Len(reads) = 1
        <3>1. reads' = << >>
            BY <1>2, <2>3, EmptySeq
        <3> QED BY <2>1, <2>2, <2>3, <3>1
    <2>4. CASE Len(reads) # 1
        <3>1. n < Len(reads) /\ Len(reads') # 0
            BY <1>1, <1>2, <2>1, <2>4
        <3>2. reads' # << >>
            BY <3>1, EmptySeq
        <3> QED BY <1>2, <2>2, <3>1, <3>2
    <2> QED BY <2>3, <2>4
<1> QED BY <1>2, <1>3, <1>4 DEF ReadsLast

-----------------------------------------------------------------------------
(* The invariant.                                                           *)

LEMMA InitInv == Init => Inv
<1> SUFFICES ASSUME Init PROVE Inv
    OBVIOUS
<1>1. ~Shown /\ ~AtGoal /\ ~StepsOn
    BY DEF Init, Shown, AtGoal, StepsOn
<1>2. Types
    <2>1. reads \in Seq(DOMAIN Files) /\ Len(reads) <= MaxReads
        BY MaxReadsAssumption, EmptySeq DEF Init
    <2>2. /\ tickLog \in {NoLog} \cup DOMAIN Files
          /\ tickLog # NoLog => Files[tickLog] # <<"junk">>
          /\ chosen \in {NoLog} \cup DOMAIN Files
        BY DEF Init
    <2>3. frameIndex \in -1 .. (IF tickLog = NoLog THEN -1 ELSE Len(Frames(tickLog)) - 1)
        BY DEF Init
    <2>4. /\ goalReachedShown \in BOOLEAN /\ popup \in BOOLEAN /\ error \in BOOLEAN
          /\ nextDisabled \in BOOLEAN /\ resetDisabled \in BOOLEAN
          /\ dismissed \in BOOLEAN /\ overtaken \in BOOLEAN
        BY DEF Init
    <2>5. canvas = Blank \/ canvas[1] \in DOMAIN Files
        BY DEF Init
    <2> QED BY <2>1, <2>2, <2>3, <2>4, <2>5 DEF Types
<1> QED BY <1>1, <1>2
        DEF Init, Inv, ButtonsTellTheTruth, Celebrates, ReadsLast, Painted

\* A log is loaded: nothing of it is shown yet.
LEMMA LoadInv ==
    ASSUME Types, NEW file \in DOMAIN Files, Files[file] # <<"junk">>, loadTickLog(file),
           dismissed' = FALSE, overtaken' \in BOOLEAN, UNCHANGED chosen,
           reads' \in Seq(DOMAIN Files), Len(reads') <= MaxReads, ReadsLast'
    PROVE  Inv'
<1>1. /\ tickLog' = file /\ frameIndex' = -1
      /\ popup' = FALSE /\ goalReachedShown' = FALSE /\ error' = FALSE
      /\ updateButtons /\ canvas' = canvas
    BY DEF loadTickLog, hideCelebration
<1>2. tickLog' # NoLog /\ Len(Frames(file)) \in Nat
    BY <1>1, FilesAssumption, FramesProperties
<1>3. nextDisabled' \in BOOLEAN /\ resetDisabled' \in BOOLEAN
    BY <1>1, Zenon DEF updateButtons
<1>4. Types'
    <2>1. /\ tickLog' \in {NoLog} \cup DOMAIN Files
          /\ tickLog' # NoLog => Files[tickLog'] # <<"junk">>
          /\ chosen' \in {NoLog} \cup DOMAIN Files
        BY <1>1, <1>2, <1>3 DEF Types
    <2>2. frameIndex' \in -1 .. (IF tickLog' = NoLog THEN -1 ELSE Len(Frames(tickLog')) - 1)
        BY <1>1, <1>2, <1>3
    <2>3. /\ goalReachedShown' \in BOOLEAN /\ popup' \in BOOLEAN /\ error' \in BOOLEAN
          /\ nextDisabled' \in BOOLEAN /\ resetDisabled' \in BOOLEAN
          /\ dismissed' \in BOOLEAN /\ overtaken' \in BOOLEAN
        BY <1>1, <1>2, <1>3 DEF Types
    <2>4. canvas' = Blank \/ canvas'[1] \in DOMAIN Files
        BY <1>1, <1>2, <1>3 DEF Types
    <2> QED BY <2>1, <2>2, <2>3, <2>4 DEF Types
<1>5. ~Shown' /\ ~AtGoal'
    BY <1>1 DEF Shown, AtGoal
<1>6. Celebrates' /\ Painted'
    BY <1>1, <1>5 DEF Celebrates, Painted
<1> QED BY <1>1, <1>4, <1>6, ButtonsUpdated DEF Inv

\* A file is refused, or its read fails: there is no log.
LEMMA GiveUpInv ==
    ASSUME Types, GiveUp,
           dismissed' = FALSE, overtaken' \in BOOLEAN, UNCHANGED chosen,
           reads' \in Seq(DOMAIN Files), Len(reads') <= MaxReads, ReadsLast'
    PROVE  Inv'
<1>1. /\ tickLog' = NoLog /\ frameIndex' = -1 /\ canvas' = Blank /\ error' = TRUE
      /\ popup' = popup /\ goalReachedShown' = goalReachedShown
      /\ updateButtons
    BY DEF GiveUp
<1>2. nextDisabled' \in BOOLEAN /\ resetDisabled' \in BOOLEAN
    BY <1>1, Zenon DEF updateButtons
<1>3. Types'
    <2>1. /\ tickLog' \in {NoLog} \cup DOMAIN Files
          /\ tickLog' # NoLog => Files[tickLog'] # <<"junk">>
          /\ chosen' \in {NoLog} \cup DOMAIN Files
        BY <1>1, <1>2 DEF Types
    <2>2. frameIndex' \in -1 .. (IF tickLog' = NoLog THEN -1 ELSE Len(Frames(tickLog')) - 1)
        BY <1>1, <1>2
    <2>3. /\ goalReachedShown' \in BOOLEAN /\ popup' \in BOOLEAN /\ error' \in BOOLEAN
          /\ nextDisabled' \in BOOLEAN /\ resetDisabled' \in BOOLEAN
          /\ dismissed' \in BOOLEAN /\ overtaken' \in BOOLEAN
        BY <1>1, <1>2 DEF Types
    <2>4. canvas' = Blank \/ canvas'[1] \in DOMAIN Files
        BY <1>1, <1>2 DEF Types
    <2> QED BY <2>1, <2>2, <2>3, <2>4 DEF Types
<1>4. ~Shown' /\ ~AtGoal'
    BY <1>1 DEF Shown, AtGoal
<1>5. Celebrates' /\ Painted'
    BY <1>1, <1>4 DEF Celebrates, Painted
<1> QED BY <1>1, <1>3, <1>5, ButtonsUpdated DEF Inv

LEMMA ChooseInv == Inv /\ Choose => Inv'
<1> SUFFICES ASSUME Inv, Choose PROVE Inv'
    OBVIOUS
<1>1. PICK file \in DOMAIN Files : chosen' = file /\ reads' = Append(reads, file)
    BY DEF Choose
<1>2. /\ UNCHANGED <<tickLog, frameIndex, goalReachedShown, popup, canvas, error,
                     nextDisabled, resetDisabled, dismissed>>
      /\ Len(reads) < MaxReads
      /\ overtaken' = (reads # << >> /\ overtaken)
    BY DEF Choose
<1>3. Types /\ ButtonsTellTheTruth /\ Celebrates /\ ReadsLast /\ Painted
    BY DEF Inv
<1>4. /\ reads' \in Seq(DOMAIN Files)
      /\ Len(reads') = Len(reads) + 1
      /\ reads'[Len(reads')] = file
      /\ Len(reads) \in Nat
    BY <1>1, <1>3, LenProperties, AppendProperties DEF Types
<1>5. Len(reads') <= MaxReads /\ reads' # << >>
    BY <1>2, <1>4, MaxReadsAssumption, EmptySeq
<1>6. Types'
    <2>1. overtaken' \in BOOLEAN
        BY <1>2, Zenon
    <2>2. /\ tickLog' \in {NoLog} \cup DOMAIN Files
          /\ tickLog' # NoLog => Files[tickLog'] # <<"junk">>
          /\ chosen' \in {NoLog} \cup DOMAIN Files
        BY <1>1, <1>2, <1>3 DEF Types
    <2>3. frameIndex' \in -1 .. (IF tickLog' = NoLog THEN -1 ELSE Len(Frames(tickLog')) - 1)
        BY <1>2, <1>3 DEF Types
    <2>4. /\ goalReachedShown' \in BOOLEAN /\ popup' \in BOOLEAN /\ error' \in BOOLEAN
          /\ nextDisabled' \in BOOLEAN /\ resetDisabled' \in BOOLEAN
          /\ dismissed' \in BOOLEAN
        BY <1>2, <1>3 DEF Types
    <2>5. canvas' = Blank \/ canvas'[1] \in DOMAIN Files
        BY <1>2, <1>3 DEF Types
    <2> QED BY <1>4, <1>5, <2>1, <2>2, <2>3, <2>4, <2>5 DEF Types
<1>7. ReadsLast'
    BY <1>1, <1>4, <1>5 DEF ReadsLast
<1>8. ButtonsTellTheTruth'
    BY <1>2, <1>3 DEF ButtonsTellTheTruth, Broken, Shown, Current, StepsOn
<1>9. Celebrates' /\ Painted'
    BY <1>2, <1>3 DEF Celebrates, Painted, AtGoal, Shown, Current
<1> QED BY <1>6, <1>7, <1>8, <1>9 DEF Inv

LEMMA ReadInv == Inv /\ (ReadEnds \/ ReadFails) => Inv'
<1> SUFFICES ASSUME Inv, ReadEnds \/ ReadFails PROVE Inv'
    OBVIOUS
<1>1. Types /\ ReadsLast
    BY DEF Inv
<1>2. PICK n \in DOMAIN reads :
        /\ reads' = RemoveAt(reads, n)
        /\ \/ Files[reads[n]] # <<"junk">> /\ loadTickLog(reads[n])
           \/ GiveUp
        /\ overtaken' = (overtaken \/ n > 1)
        /\ dismissed' = FALSE
        /\ chosen' = chosen
    BY DEF ReadEnds, ReadFails
<1>3. reads[n] \in DOMAIN Files /\ overtaken' \in BOOLEAN
    <2>1. reads[n] \in DOMAIN Files
        BY <1>1, <1>2, LenProperties DEF Types
    <2>2. overtaken' \in BOOLEAN
        BY <1>2, Zenon
    <2> QED BY <2>1, <2>2
<1>4. tickLog' \in {NoLog, reads[n]}
    BY <1>2 DEF loadTickLog, GiveUp
<1>5. reads' \in Seq(DOMAIN Files) /\ Len(reads') <= MaxReads /\ ReadsLast'
    BY <1>1, <1>2, <1>4, ReadsShrink
<1>6. CASE Files[reads[n]] # <<"junk">> /\ loadTickLog(reads[n])
    BY <1>1, <1>2, <1>3, <1>5, <1>6, LoadInv
<1>7. CASE GiveUp
    BY <1>1, <1>2, <1>3, <1>5, <1>7, GiveUpInv
<1> QED BY <1>2, <1>6, <1>7

\* The next frame is shown only if the current one is plain: no popup is open then,
\* and none has been.
LEMMA NextTickInv == Inv /\ NextTick => Inv'
<1> SUFFICES ASSUME Inv, NextTick PROVE Inv'
    OBVIOUS
<1> DEFINE frame == Frame(tickLog, frameIndex + 1)
<1>1. /\ tickLog' = tickLog /\ frameIndex' = frameIndex + 1 /\ dismissed' = FALSE
      /\ canvas' = <<tickLog, frameIndex + 1>>
      /\ UNCHANGED <<reads, error, chosen, overtaken>>
      /\ tickLog # NoLog /\ frameIndex + 1 < Len(Frames(tickLog))
      /\ frameIndex >= 0 => Frame(tickLog, frameIndex) = "plain"
      /\ IF frame = "broken" THEN UNCHANGED <<nextDisabled, resetDisabled>>
         ELSE updateButtons
      /\ IF frame = "goal" THEN showCelebration
         ELSE UNCHANGED <<popup, goalReachedShown>>
    BY DEF NextTick, StepsOn, showNextFrame
<1>2. Types /\ Celebrates /\ ReadsLast
    BY DEF Inv
<1>3. /\ tickLog \in DOMAIN Files
      /\ Len(Frames(tickLog)) \in Nat
      /\ frameIndex \in -1 .. Len(Frames(tickLog)) - 1
      /\ frame \in {"plain", "goal", "broken"}
    BY <1>1, <1>2, LoadedProperties
<1>4. Shown' /\ Current' = frame
    BY <1>1, <1>3 DEF Shown, Current
<1> HIDE DEF frame
<1>5. popup = FALSE /\ goalReachedShown = FALSE
    <2>1. ~AtGoal
        BY <1>1 DEF AtGoal, Shown, Current
    <2> QED BY <1>1, <1>2, <2>1 DEF Types, Celebrates
<1>6. /\ popup' \in BOOLEAN /\ goalReachedShown' \in BOOLEAN
      /\ frame = "goal" => popup' = TRUE
      /\ frame # "goal" => popup' = FALSE /\ goalReachedShown' = FALSE
    <2>1. CASE frame = "goal"
        <3>1. popup' = TRUE /\ goalReachedShown' = TRUE
            BY <1>1, <1>5, <2>1, Zenon DEF showCelebration
        <3> QED BY <2>1, <3>1
    <2>2. CASE frame # "goal"
        BY <1>1, <1>5, <2>2
    <2> QED BY <2>1, <2>2
<1>7. nextDisabled' \in BOOLEAN /\ resetDisabled' \in BOOLEAN
    <2>1. CASE frame = "broken"
        BY <1>1, <1>2, <2>1 DEF Types
    <2>2. CASE frame # "broken"
        <3>1. updateButtons
            BY <1>1, <2>2
        <3> QED BY <3>1, Zenon DEF updateButtons
    <2> QED BY <2>1, <2>2
<1>8. Types'
    <2>1. /\ tickLog' \in {NoLog} \cup DOMAIN Files
          /\ tickLog' # NoLog => Files[tickLog'] # <<"junk">>
          /\ chosen' \in {NoLog} \cup DOMAIN Files
          /\ reads' \in Seq(DOMAIN Files) /\ Len(reads') <= MaxReads
        BY <1>1, <1>2 DEF Types
    <2>2. frameIndex' \in -1 .. (IF tickLog' = NoLog THEN -1 ELSE Len(Frames(tickLog')) - 1)
        BY <1>1, <1>3
    <2>3. /\ goalReachedShown' \in BOOLEAN /\ popup' \in BOOLEAN /\ error' \in BOOLEAN
          /\ dismissed' \in BOOLEAN /\ overtaken' \in BOOLEAN
        BY <1>1, <1>2, <1>6 DEF Types
    <2>4. canvas' = Blank \/ canvas'[1] \in DOMAIN Files
        BY <1>1, <1>3
    <2> QED BY <1>7, <2>1, <2>2, <2>3, <2>4 DEF Types
<1>9. ButtonsTellTheTruth'
    <2>1. CASE frame = "broken"
        BY <1>4, <2>1 DEF ButtonsTellTheTruth, Broken
    <2>2. CASE frame # "broken"
        BY <1>1, <1>8, <2>2, ButtonsUpdated
    <2> QED BY <2>1, <2>2
<1>10. Celebrates'
    <2>1. AtGoal' <=> frame = "goal"
        BY <1>4 DEF AtGoal
    <2>2. ASSUME NEW n \in 0 .. frameIndex' - 1 PROVE Frame(tickLog', n) # "goal"
        <3>1. n \in 0 .. frameIndex - 1 \/ n = frameIndex
            BY <1>1, <1>3
        <3>2. n >= 0 /\ frameIndex \in Int
            BY <1>3
        <3>3. CASE n = frameIndex
            BY <1>1, <3>2, <3>3
        <3>4. CASE n \in 0 .. frameIndex - 1
            <4>1. frameIndex >= 0
                BY <3>2, <3>4
            <4>2. Shown
                BY <1>1, <4>1 DEF Shown
            <4> QED BY <1>1, <1>2, <3>4, <4>2 DEF Celebrates
        <3> QED BY <3>1, <3>3, <3>4
    <2> QED BY <1>6, <2>1, <2>2 DEF Celebrates
<1>11. ReadsLast' /\ Painted'
    BY <1>1, <1>2 DEF ReadsLast, Painted
<1> QED BY <1>8, <1>9, <1>10, <1>11 DEF Inv

LEMMA ResetInv == Inv /\ Reset => Inv'
<1> SUFFICES ASSUME Inv, Reset PROVE Inv'
    OBVIOUS
<1>1. /\ tickLog' = tickLog /\ tickLog # NoLog /\ frameIndex' = -1
      /\ popup' = FALSE /\ goalReachedShown' = FALSE
      /\ canvas' = Blank /\ updateButtons /\ dismissed' = FALSE
      /\ UNCHANGED <<reads, error, chosen, overtaken>>
    BY DEF Reset, hideCelebration
<1>2. Types /\ ReadsLast
    BY DEF Inv
<1>3. Types'
    <2>1. nextDisabled' \in BOOLEAN /\ resetDisabled' \in BOOLEAN
        BY <1>1, Zenon DEF updateButtons
    <2>2. /\ tickLog' \in {NoLog} \cup DOMAIN Files
          /\ tickLog' # NoLog => Files[tickLog'] # <<"junk">>
          /\ chosen' \in {NoLog} \cup DOMAIN Files
          /\ reads' \in Seq(DOMAIN Files) /\ Len(reads') <= MaxReads
        BY <1>1, <1>2 DEF Types
    <2>3. Len(Frames(tickLog)) \in Nat
        BY <1>1, <1>2, LoadedProperties
    <2>4. frameIndex' \in -1 .. (IF tickLog' = NoLog THEN -1 ELSE Len(Frames(tickLog')) - 1)
        BY <1>1, <2>3
    <2>5. /\ goalReachedShown' \in BOOLEAN /\ popup' \in BOOLEAN /\ error' \in BOOLEAN
          /\ dismissed' \in BOOLEAN /\ overtaken' \in BOOLEAN
        BY <1>1, <1>2 DEF Types
    <2>6. canvas' = Blank
        BY <1>1
    <2> QED BY <2>1, <2>2, <2>4, <2>5, <2>6 DEF Types
<1>4. ~Shown' /\ ~AtGoal'
    BY <1>1 DEF Shown, AtGoal
<1>5. Celebrates' /\ Painted'
    BY <1>1, <1>4 DEF Celebrates, Painted
<1>6. ReadsLast'
    BY <1>1, <1>2 DEF ReadsLast
<1> QED BY <1>1, <1>3, <1>5, <1>6, ButtonsUpdated DEF Inv

\* The popup is closed, or nothing happens.
LEMMA CloseInv == Inv /\ (CloseCelebration \/ UNCHANGED vars) => Inv'
<1> SUFFICES ASSUME Inv, CloseCelebration \/ UNCHANGED vars PROVE Inv'
    OBVIOUS
<1>1. /\ UNCHANGED <<reads, tickLog, frameIndex, goalReachedShown, canvas, error,
                     nextDisabled, resetDisabled, chosen, overtaken>>
      /\ \/ popup' = popup /\ dismissed' = dismissed
         \/ popup' = FALSE /\ dismissed' = TRUE
    BY DEF CloseCelebration, vars
<1>2. Types /\ ButtonsTellTheTruth /\ Celebrates /\ ReadsLast /\ Painted
    BY DEF Inv
<1>3. Types'
    <2>1. popup' \in BOOLEAN /\ dismissed' \in BOOLEAN
        BY <1>1, <1>2 DEF Types
    <2>2. /\ frameIndex' = frameIndex /\ tickLog' = tickLog
          /\ reads' \in Seq(DOMAIN Files) /\ Len(reads') <= MaxReads
        BY <1>1, <1>2 DEF Types
    <2> QED BY <1>1, <1>2, <2>1, <2>2 DEF Types
<1>4. ButtonsTellTheTruth'
    BY <1>1, <1>2 DEF ButtonsTellTheTruth, Broken, Shown, Current, StepsOn
<1>5. Celebrates' /\ Painted'
    <2>1. (AtGoal' <=> AtGoal) /\ (Shown' <=> Shown)
        BY <1>1 DEF AtGoal, Shown, Current
    <2> QED BY <1>1, <1>2, <2>1 DEF Celebrates, Painted
<1>6. ReadsLast'
    BY <1>1, <1>2 DEF ReadsLast
<1> QED BY <1>3, <1>4, <1>5, <1>6 DEF Inv

LEMMA Invariant == Spec => []Inv
<1>1. Inv /\ [Next]_vars => Inv'
    BY ChooseInv, ReadInv, NextTickInv, ResetInv, CloseInv DEF Next
<1> QED BY <1>1, InitInv, PTL DEF Spec

-----------------------------------------------------------------------------
(* The theorems.                                                            *)

\* Every variable has its type: the index is always one of the log that is loaded,
\* also when another log comes in or is refused while this one is shown.
THEOREM PageIsTyped == Spec => []TypeOK
<1>1. Inv => TypeOK
    <2> SUFFICES ASSUME Types PROVE TypeOK
        BY DEF Inv
    <2>1. reads \in SeqOf(DOMAIN Files, MaxReads)
        <3>1. Len(reads) \in 0 .. MaxReads /\ reads \in [1 .. Len(reads) -> DOMAIN Files]
            BY LenProperties, MaxReadsAssumption DEF Types
        <3> QED BY <3>1, Zenon DEF SeqOf
    <2>2. {goalReachedShown, popup, error, nextDisabled, resetDisabled, dismissed,
           overtaken} \subseteq BOOLEAN
        BY Zenon DEF Types
    <2> QED BY <2>1, <2>2 DEF Types, TypeOK
<1> QED BY <1>1, Invariant, PTL

\* Whatever files are chosen and in whatever order their reads end or fail, "Next
\* tick" and "Reset" can be clicked exactly if their handlers would do something:
\* every handler that changes the log or the index refreshes both buttons.
THEOREM ButtonsAreTrue == Spec => []ButtonsTellTheTruth
<1>1. Inv => ButtonsTellTheTruth
    BY DEF Inv
<1> QED BY <1>1, Invariant, PTL

\* The canvas shows the current frame of the current log, which is the one chosen
\* last as soon as nothing is being read and no read was overtaken by a later one.
THEOREM PictureIsTrue == Spec => []PictureIsCurrent
<1>1. Inv => PictureIsCurrent
    BY DEF Inv, ReadsLast, Painted, PictureIsCurrent, Shown
<1> QED BY <1>1, Invariant, PTL

\* A frame with a robot on a target raises the popup whenever it is reached, again
\* after a reset and in every log; nothing else does, and nothing is stepped past it.
THEOREM GoalsAreCelebrated == Spec => []EveryGoalIsCelebrated
<1>1. Inv => EveryGoalIsCelebrated
    BY DEF Inv, Celebrates, EveryGoalIsCelebrated
<1> QED BY <1>1, Invariant, PTL
=============================================================================
