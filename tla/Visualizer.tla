------------------------------- MODULE Visualizer -------------------------------
(***************************************************************************)
(* The script of visualizer/index.html: one action per event handler, and  *)
(* one per end of an asynchronous read.  Handlers run to their end, but    *)
(* between the choice of a file and the end of its read others may run,    *)
(* and reads need not end in the order in which they began.  A frame is    *)
(* plain, has a robot on a target ("goal"), or lacks its lists ("broken":  *)
(* only the log as a whole is validated).                                  *)
(***************************************************************************)
EXTENDS Integers, SequencesExt

CONSTANTS
    Files,      \* what can be chosen, by name: <<"log", frames>> or <<"junk">>
    MaxReads    \* the bound on the reads under way

NoLog == "none"
Blank == <<"blank">>

ASSUME FilesAssumption ==
    /\ NoLog \notin DOMAIN Files
    /\ \A name \in DOMAIN Files :
          \/ Files[name] = <<"junk">>
          \/ /\ Files[name] = <<"log", Files[name][2]>>
             /\ Files[name][2] \in Seq({"plain", "goal", "broken"}) \ {<< >>}
ASSUME MaxReadsAssumption == MaxReads \in Nat

VARIABLES
    reads,              \* the files whose text() is awaited, in the order chosen
    tickLog, frameIndex, goalReachedShown,
    popup,              \* is celebrationOverlay shown?
    canvas,             \* Blank, or the log and frame painted last
    error,              \* is errorEl shown?
    nextDisabled, resetDisabled,
    chosen,             \* history: the file chosen last
    dismissed,          \* history: was the popup of this frame closed?
    overtaken           \* history: since no read was under way, did one end before
                        \* another that had begun earlier?

vars == <<reads, tickLog, frameIndex, goalReachedShown, popup, canvas, error,
          nextDisabled, resetDisabled, chosen, dismissed, overtaken>>

Frames(log) == Files[log][2]
Frame(log, index) == Frames(log)[index + 1]

Init ==
    /\ reads = << >>
    /\ tickLog = NoLog /\ frameIndex = -1 /\ goalReachedShown = FALSE
    /\ popup = FALSE /\ canvas = Blank /\ error = FALSE
    /\ nextDisabled = TRUE /\ resetDisabled = TRUE
    /\ chosen = NoLog /\ dismissed = FALSE /\ overtaken = FALSE

-----------------------------------------------------------------------------
(* What several handlers do.                                                *)

\* Mutant of hideCelebration: the next goal is not celebrated.
HidesOverlayOnly == popup' = FALSE /\ UNCHANGED goalReachedShown

hideCelebration == popup' = FALSE /\ goalReachedShown' = FALSE

showCelebration ==
    IF goalReachedShown THEN UNCHANGED <<popup, goalReachedShown>>
    ELSE popup' = TRUE /\ goalReachedShown' = TRUE

\* Mutant of CanAdvance: goals are forgotten.
AnyNext(log, index) == log # NoLog /\ index + 1 < Len(Frames(log))

CanAdvance(log, index) ==
    /\ log # NoLog
    /\ index + 1 < Len(Frames(log))
    /\ index >= 0 => Frame(log, index) # "goal"

\* For what the log and the index become.
updateButtons ==
    /\ nextDisabled' = ~CanAdvance(tickLog', frameIndex')
    /\ resetDisabled' = (tickLog' = NoLog \/ frameIndex' < 0)

-----------------------------------------------------------------------------
(* The handlers.                                                            *)

\* The change event of the file input, up to the await.
Choose ==
    /\ Len(reads) < MaxReads
    /\ chosen' \in DOMAIN Files
    /\ reads' = Append(reads, chosen')
    /\ overtaken' = (reads # << >> /\ overtaken)
    /\ UNCHANGED <<tickLog, frameIndex, goalReachedShown, popup, canvas, error,
                   nextDisabled, resetDisabled, dismissed>>

\* Mutant of loadTickLog: the page is set up for a log that is there only if there
\* is none.
loadOnce(file) ==
    /\ tickLog' = IF tickLog = NoLog THEN file ELSE tickLog
    /\ frameIndex' = -1
    /\ hideCelebration
    /\ error' = FALSE
    /\ updateButtons
    /\ UNCHANGED canvas

\* The canvas keeps the last picture.
loadTickLog(file) ==
    /\ tickLog' = file /\ frameIndex' = -1
    /\ hideCelebration
    /\ error' = FALSE
    /\ updateButtons
    /\ UNCHANGED canvas

\* Mutant of GiveUp: the index stays.
KeepsIndex ==
    /\ tickLog' = NoLog
    /\ canvas' = Blank /\ error' = TRUE
    /\ updateButtons
    /\ UNCHANGED <<frameIndex, popup, goalReachedShown>>

\* The catch of the handler: a popup that is open stays.
GiveUp ==
    /\ tickLog' = NoLog /\ frameIndex' = -1
    /\ canvas' = Blank /\ error' = TRUE
    /\ updateButtons
    /\ UNCHANGED <<popup, goalReachedShown>>

\* A read ends, or fails.
ReadEnds ==
    \E n \in DOMAIN reads :
        /\ reads' = RemoveAt(reads, n)
        /\ IF Files[reads[n]] # <<"junk">> THEN loadTickLog(reads[n]) ELSE GiveUp
        /\ overtaken' = (overtaken \/ n > 1)
        /\ dismissed' = FALSE
        /\ UNCHANGED chosen

ReadFails ==
    \E n \in DOMAIN reads :
        /\ reads' = RemoveAt(reads, n)
        /\ GiveUp
        /\ overtaken' = (overtaken \/ n > 1)
        /\ dismissed' = FALSE
        /\ UNCHANGED chosen

\* showCurrentFrame for the next frame.  A broken one throws after it has become
\* the current one and the canvas has been cleared.
showNextFrame ==
    LET frame == Frame(tickLog, frameIndex + 1)
    IN  /\ frameIndex' = frameIndex + 1
        /\ canvas' = <<tickLog, frameIndex + 1>>
        /\ IF frame = "broken" THEN UNCHANGED <<nextDisabled, resetDisabled>>
           ELSE updateButtons
        /\ IF frame = "goal" THEN showCelebration
           ELSE UNCHANGED <<popup, goalReachedShown>>

\* The click steps on; it returns at a goal and at the end, and throws at a broken
\* frame.
StepsOn ==
    /\ tickLog # NoLog /\ frameIndex + 1 < Len(Frames(tickLog))
    /\ frameIndex >= 0 => Frame(tickLog, frameIndex) = "plain"

NextTick ==
    /\ ~nextDisabled
    /\ StepsOn
    /\ tickLog' = tickLog
    /\ showNextFrame
    /\ dismissed' = FALSE
    /\ UNCHANGED <<reads, error, chosen, overtaken>>

Reset ==
    /\ ~resetDisabled /\ tickLog # NoLog
    /\ tickLog' = tickLog /\ frameIndex' = -1
    /\ hideCelebration
    /\ canvas' = Blank
    /\ updateButtons
    /\ dismissed' = FALSE
    /\ UNCHANGED <<reads, error, chosen, overtaken>>

\* The popup's button, or a click beside it.
CloseCelebration ==
    /\ popup
    /\ popup' = FALSE /\ dismissed' = TRUE
    /\ UNCHANGED <<reads, tickLog, frameIndex, goalReachedShown, canvas, error,
                   nextDisabled, resetDisabled, chosen, overtaken>>

Next == Choose \/ ReadEnds \/ ReadFails \/ NextTick \/ Reset \/ CloseCelebration

Spec == Init /\ [][Next]_vars

-----------------------------------------------------------------------------
(* Properties.                                                              *)

Shown == tickLog # NoLog /\ frameIndex >= 0
Current == Frame(tickLog, frameIndex)
Broken == Shown /\ Current = "broken"
AtGoal == Shown /\ Current = "goal"

\* Every variable has its type; the index is one of the log's.
TypeOK ==
    /\ reads \in SeqOf(DOMAIN Files, MaxReads)
    /\ tickLog \in {NoLog} \cup DOMAIN Files
    /\ tickLog # NoLog => Files[tickLog] # <<"junk">>
    /\ frameIndex \in -1 .. (IF tickLog = NoLog THEN -1 ELSE Len(Frames(tickLog)) - 1)
    /\ {goalReachedShown, popup, error, nextDisabled, resetDisabled, dismissed,
        overtaken} \subseteq BOOLEAN
    /\ canvas = Blank \/ canvas[1] \in DOMAIN Files
    /\ chosen \in {NoLog} \cup DOMAIN Files

\* A button can be clicked exactly if its handler would do something, whatever was
\* loaded, reset or refused before.  (At a broken frame the handler throws.)
ButtonsTellTheTruth ==
    ~Broken => /\ nextDisabled <=> ~StepsOn
               /\ resetDisabled <=> ~Shown

\* README.md: "load the JSON file, and use Next tick to advance".  The picture is the
\* current frame's, and what an earlier log left there is gone with the first step.
\* When nothing is being read, it is of the log chosen last, whatever was loaded or
\* refused in between, unless a read was overtaken by a later one.  (Then the one that
\* ends last wins.  See the README.)
PictureIsCurrent ==
    Shown => /\ canvas = <<tickLog, frameIndex>>
             /\ reads = << >> /\ ~overtaken => tickLog = chosen

\* README.md: "When the robot reaches the target, [...] stepping stops, and a
\* celebration popup appears": every time, in every log, and for nothing else.  (A
\* read that fails leaves a popup open that was open before.)
EveryGoalIsCelebrated ==
    /\ AtGoal => popup \/ dismissed
    /\ popup => AtGoal \/ tickLog = NoLog
    /\ Shown => \A n \in 0 .. frameIndex - 1 : Frame(tickLog, n) # "goal"
=============================================================================
