----------------------------- MODULE HintSession -----------------------------
(***************************************************************************)
(* What the notification of a decoder promises to its receiver, and        *)
(* through it to the daemon that switches the display: while a video plays *)
(* its frame rate may be told, again and again; when it ends the end is    *)
(* told if a rate was; between two videos nothing is said.                 *)
(***************************************************************************)
EXTENDS Naturals

CONSTANT Rates      \* the frame durations, positive numbers

VARIABLES
  playing,          \* a video is on
  told              \* the rate last told, 0 when none is in force

Init == playing = FALSE /\ told = 0

Start == /\ ~playing
         /\ playing' = TRUE
         /\ told' \in Rates \cup {told}

Tell == /\ playing
        /\ told' \in Rates
        /\ playing' = playing

Finish == /\ playing
          /\ playing' = FALSE
          /\ told' = 0

Next == Start \/ Tell \/ Finish

Spec == Init /\ [][Next]_<<playing, told>>
=============================================================================
