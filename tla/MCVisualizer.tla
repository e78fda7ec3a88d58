------------------------------ MODULE MCVisualizer ------------------------------
(***************************************************************************)
(* A log that ends at a goal in its middle, one without a goal, one whose  *)
(* first frame is broken, one whose second is, and a file that is no log.  *)
(***************************************************************************)
EXTENDS Visualizer

MCFiles == [
    goal |-> <<"log", <<"plain", "goal", "plain">>>>,
    plain |-> <<"log", <<"plain", "plain">>>>,
    started |-> <<"log", <<"goal", "plain">>>>,
    broken |-> <<"log", <<"broken", "plain">>>>,
    torn |-> <<"log", <<"plain", "broken", "goal">>>>,
    junk |-> <<"junk">>]
=============================================================================
