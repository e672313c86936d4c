------------------------------ MODULE Launcher ------------------------------
(***************************************************************************)
(* What the core binary promises to the SDK that starts it, whatever the   *)
(* operating system: it takes controls and gives none back, tells at most  *)
(* once what came of it, and runs the command at most once.  A strict      *)
(* launcher, and one that has said "contained", runs the command only with *)
(* every required control in force.  It may report before the controls are *)
(* taken, as on macOS, between them and the command, as on Linux, or while *)
(* the command runs, as on Windows.                                        *)
(***************************************************************************)
VARIABLES
    required,   \* the controls the policy asks for
    strict,     \* whether the launcher must refuse what it cannot contain
    state,      \* "starting", "running" (the command), or "stopped"
    inforce,    \* the controls in force, inherited by the command
    told        \* "nothing", "contained" or "uncontained"

Init ==
    /\ state = "starting"
    /\ inforce = {}
    /\ told = "nothing"

Secure ==
    /\ state = "starting"
    /\ inforce \subseteq inforce'
    /\ UNCHANGED <<required, strict, state, told>>

\* Told of a command that runs, "contained" is a fact; before that, a promise.
Tell ==
    /\ state # "stopped"
    /\ told = "nothing"
    /\ told' \in {"contained", "uncontained"}
    /\ state = "running" /\ told' = "contained" => required \subseteq inforce
    /\ UNCHANGED <<required, strict, state, inforce>>

Run ==
    /\ state = "starting"
    /\ strict \/ told = "contained" => required \subseteq inforce
    /\ state' = "running"
    /\ UNCHANGED <<required, strict, inforce, told>>

\* The launcher gives up, perhaps saying so, or the command has ended.
Stop ==
    /\ state' = "stopped"
    /\ \/ told' = told
       \/ told = "nothing" /\ state = "starting" /\ told' = "uncontained"
    /\ UNCHANGED <<required, strict, inforce>>

Next == Secure \/ Tell \/ Run \/ Stop

Spec == Init /\ [][Next]_<<required, strict, state, inforce, told>>

=============================================================================
