------------------------------- MODULE Viewport -------------------------------
(***************************************************************************)
(* What CameraViewport promises to the screen that shows it: at most one   *)
(* report for each showing, and none when it is off the screen.  A showing *)
(* begins when it is mounted, or drawn again with other callbacks.         *)
(***************************************************************************)
CONSTANTS
    None,
    Reports     \* what it may say: a code, a failure, nothing was read

VARIABLES
    mounted,
    told        \* in this showing

Init == mounted = FALSE /\ told = None

Mount == mounted' = TRUE /\ told' = None

Unmount == mounted /\ mounted' = FALSE /\ UNCHANGED told

Tell == mounted /\ told = None /\ told' \in Reports /\ UNCHANGED mounted

Spec == Init /\ [][Mount \/ Unmount \/ Tell]_<<mounted, told>>
=============================================================================
