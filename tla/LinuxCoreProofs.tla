--------------------------- MODULE LinuxCoreProofs ---------------------------
(***************************************************************************)
(* Proofs about the Linux launcher, for any set of resource limits.        *)
(***************************************************************************)
EXTENDS LinuxCoreProperties, TLAPS

\* What a write of the report may leave: if it kills the writer, no whole report.
LEMMA FlushTypes ==
    ASSUME file \in {"absent", "empty"}
    PROVE  \A written \in FlushOutcomes :
              /\ written.file \in {"absent", "empty", "part", "whole"}
              /\ written.killed \in BOOLEAN
<1>1. CASE file = "absent"
  <2>1. FlushOutcomes = {[file |-> "absent", killed |-> FALSE]}
    BY <1>1 DEF FlushOutcomes
  <2>2. \A written \in FlushOutcomes : written.file = "absent" /\ written.killed = FALSE
    BY <2>1
  <2>3. QED
    BY <2>2
<1>2. CASE file = "empty" /\ FileSize \in rlimits
  <2>1. FlushOutcomes = {[file |-> "whole", killed |-> FALSE]} \cup
                        [file : {"empty", "part"}, killed : BOOLEAN]
    BY <1>2 DEF FlushOutcomes
  <2>2. SUFFICES ASSUME NEW written \in FlushOutcomes
                 PROVE  /\ written.file \in {"absent", "empty", "part", "whole"}
                        /\ written.killed \in BOOLEAN
    OBVIOUS
  <2>3. CASE written = [file |-> "whole", killed |-> FALSE]
    <3>1. written.file = "whole" /\ written.killed = FALSE
      BY <2>3
    <3>2. QED
      BY <3>1, Zenon
  <2>4. CASE written \in [file : {"empty", "part"}, killed : BOOLEAN]
    BY <2>4
  <2>5. QED
    BY <2>1, <2>3, <2>4
<1>3. CASE file = "empty" /\ FileSize \notin rlimits
  <2>1. FlushOutcomes = [file : {"empty", "part", "whole"}, killed : {FALSE}]
    BY <1>3 DEF FlushOutcomes
  <2>2. SUFFICES ASSUME NEW written \in FlushOutcomes
                 PROVE  /\ written.file \in {"absent", "empty", "part", "whole"}
                        /\ written.killed \in BOOLEAN
    OBVIOUS
  <2>3. written.file \in {"empty", "part", "whole"}
    BY <2>1
  <2>4. written.killed \in {FALSE}
    BY <2>1
  <2>5. QED
    BY <2>3, <2>4, Zenon
<1>4. QED
  BY <1>1, <1>2, <1>3

\* A launcher that the write has killed leaves no whole report.
LEMMA KilledUnread ==
    ASSUME file \in {"absent", "empty"}
    PROVE  \A written \in FlushOutcomes : written.killed => written.file # "whole"
<1>1. CASE file = "absent"
  <2>1. FlushOutcomes = {[file |-> "absent", killed |-> FALSE]}
    BY <1>1 DEF FlushOutcomes
  <2>2. QED
    BY <2>1
<1>2. CASE file = "empty" /\ FileSize \in rlimits
  <2>1. FlushOutcomes = {[file |-> "whole", killed |-> FALSE]} \cup
                        [file : {"empty", "part"}, killed : BOOLEAN]
    BY <1>2 DEF FlushOutcomes
  <2>2. QED
    BY <2>1
<1>3. CASE file = "empty" /\ FileSize \notin rlimits
  <2>1. FlushOutcomes = [file : {"empty", "part", "whole"}, killed : {FALSE}]
    BY <1>3 DEF FlushOutcomes
  <2>2. QED
    BY <2>1
<1>4. QED
  BY <1>1, <1>2, <1>3

LEMMA InvInit == Init => IInv
<1> SUFFICES ASSUME Init PROVE IInv
  OBVIOUS
<1>1. TypeOK
  BY DEF Init, TypeOK, Reports, Statuses, Steps
<1>2. ControlInv
  BY DEF Init, ControlInv
<1>3. ReportInv
  BY DEF Init, ReportInv, BeforeLandlock
<1>4. QED
  BY <1>1, <1>2, <1>3 DEF IInv

LEMMA InvStep == IInv /\ [Next]_vars => IInv'
<1> SUFFICES ASSUME TypeOK, ControlInv, ReportInv, [Next]_vars
             PROVE  TypeOK' /\ ControlInv' /\ ReportInv'
  BY DEF IInv
<1> USE DEF controls
<1>1. CASE UNCHANGED vars
  <2>1. TypeOK'
    BY <1>1 DEF vars, TypeOK, Steps
  <2>2. ControlInv'
    BY <1>1 DEF vars, ControlInv, network_denied, filesystem_restricted, BeforeLandlock
  <2>3. ReportInv'
    BY <1>1
       DEF vars, ReportInv, Unenforced, landlock_enforced, filesystem_restricted, BeforeLandlock
  <2>4. QED
    BY <2>1, <2>2, <2>3
<1>2. CASE BadPolicy
  <2>1. TypeOK'
    BY <1>2 DEF BadPolicy, TypeOK, Steps
  <2>2. ControlInv'
    BY <1>2 DEF BadPolicy, ControlInv, network_denied, filesystem_restricted, BeforeLandlock
  <2>3. ReportInv'
    BY <1>2
       DEF BadPolicy, ReportInv, Unenforced, landlock_enforced, filesystem_restricted,
           BeforeLandlock
  <2>4. QED
    BY <2>1, <2>2, <2>3
<1>3. CASE OpenReport
  <2>1. TypeOK'
    BY <1>3 DEF OpenReport, TypeOK, Steps
  <2>2. ControlInv'
    BY <1>3 DEF OpenReport, ControlInv, network_denied, filesystem_restricted, BeforeLandlock
  <2>3. ReportInv'
    BY <1>3
       DEF OpenReport, ReportInv, Unenforced, landlock_enforced, filesystem_restricted,
           BeforeLandlock
  <2>4. QED
    BY <2>1, <2>2, <2>3
<1>4. CASE SetNoNewPrivs
  <2>1. TypeOK'
    BY <1>4 DEF SetNoNewPrivs, TypeOK, Steps
  <2>2. ControlInv'
    BY <1>4 DEF SetNoNewPrivs, ControlInv, network_denied, filesystem_restricted, BeforeLandlock
  <2>3. ReportInv'
    BY <1>4
       DEF SetNoNewPrivs, ReportInv, Unenforced, landlock_enforced, filesystem_restricted,
           BeforeLandlock
  <2>4. QED
    BY <2>1, <2>2, <2>3
<1>5. CASE ApplyLimits
  <2>0. report' \in Reports
    BY <1>5 DEF ApplyLimits, TypeOK, Reports, Statuses, Policies
  <2>1. TypeOK'
    <3>1. policy.limits \subseteq Limits
      BY DEF TypeOK, Policies
    <3>2. QED
      BY <1>5, <2>0, <3>1 DEF ApplyLimits, TypeOK, Steps
  <2>2. ControlInv'
    BY <1>5 DEF ApplyLimits, ControlInv, network_denied, filesystem_restricted, BeforeLandlock
  <2>3. ReportInv'
    BY <1>5
       DEF ApplyLimits, ReportInv, Unenforced, landlock_enforced, filesystem_restricted,
           BeforeLandlock
  <2>4. QED
    BY <2>1, <2>2, <2>3
<1>6. CASE EnterNamespace
  <2>0. report' \in Reports
    BY <1>6 DEF EnterNamespace, TypeOK, Reports, Statuses
  <2>1. TypeOK'
    BY <1>6, <2>0 DEF EnterNamespace, TypeOK, Steps
  <2>2. ControlInv'
    BY <1>6
       DEF EnterNamespace, ControlInv, network_denied, filesystem_restricted, BeforeLandlock
  <2>3. ReportInv'
    <3>1. /\ report'.rlimits = report.rlimits
          /\ report'.landlock_status = report.landlock_status
          /\ report'.seccomp_applied = report.seccomp_applied
          /\ report'.contained = report.contained
      BY <1>6 DEF EnterNamespace, TypeOK, Reports
    <3>2. QED
      BY <1>6, <3>1 DEF EnterNamespace, ReportInv, BeforeLandlock, TypeOK
  <2>4. QED
    BY <2>1, <2>2, <2>3
<1>7. CASE Landlock
  <2>0. report' \in Reports
    BY <1>7 DEF Landlock, TypeOK, Reports, Statuses
  <2>1. TypeOK'
    BY <1>7, <2>0 DEF Landlock, TypeOK, Steps
  <2>2. ControlInv'
    <3>1. landlocked' => filesystem_restricted
      <4>1. PICK status \in Statuses :
               /\ status = "not_requested" <=> ~filesystem_restricted
               /\ landlocked' <=> status \in {"partially_enforced", "fully_enforced"}
        BY <1>7 DEF Landlock, Statuses
      <4>2. QED
        BY <4>1
    <3>2. /\ filter = "none"
          /\ netns => network_denied
          /\ policy' = policy
          /\ filter' = filter
          /\ netns' = netns
          /\ step' = "landlocked"
      BY <1>7 DEF Landlock, ControlInv, BeforeLandlock
    <3>3. QED
      BY <3>1, <3>2 DEF ControlInv, network_denied, filesystem_restricted, BeforeLandlock
  <2>3. ReportInv'
    <3>1. landlock_enforced(report'.landlock_status) <=> landlocked'
      BY <1>7 DEF Landlock, landlock_enforced, TypeOK, Reports
    <3>2. /\ report'.rlimits = report.rlimits
          /\ report'.contained = report.contained
      BY <1>7 DEF Landlock, TypeOK, Reports
    <3>3. QED
      BY <1>7, <3>1, <3>2 DEF Landlock, ReportInv, landlock_enforced, BeforeLandlock, TypeOK
  <2>4. QED
    BY <2>1, <2>2, <2>3
<1>8. CASE RefuseFilesystem
  <2>0. report' \in Reports
    BY <1>8 DEF RefuseFilesystem, Refuse, TypeOK, Reports, Statuses
  <2>1. TypeOK'
    <3>1. file \in {"absent", "empty"}
      BY <1>8 DEF RefuseFilesystem, Refuse, ReportInv
    <3>2. /\ file' \in {"absent", "empty", "part", "whole"}
          /\ code' \in {"none", "usage", "refused", "not_found", "killed", "command"}
          /\ step' = "exited" <=> code' # "none"
          /\ step' \in Steps
      BY <1>8, <3>1, FlushTypes DEF RefuseFilesystem, Refuse, TypeOK, Steps
    <3>3. QED
      BY <1>8, <2>0, <3>2 DEF RefuseFilesystem, Refuse, TypeOK
  <2>2. ControlInv'
    BY <1>8
       DEF RefuseFilesystem, Refuse, ControlInv, network_denied, filesystem_restricted,
           BeforeLandlock
  <2>3. ReportInv'
    BY <1>8, FlushTypes
       DEF RefuseFilesystem, Refuse, ReportInv, Unenforced, landlock_enforced,
           filesystem_restricted, BeforeLandlock, TypeOK
  <2>4. QED
    BY <2>1, <2>2, <2>3
<1>9. CASE Seccomp
  <2>0. report' \in Reports
    BY <1>9 DEF Seccomp, TypeOK, Reports, Statuses
  <2>1. TypeOK'
    BY <1>9, <2>0 DEF Seccomp, TypeOK, Steps
  <2>2. ControlInv'
    BY <1>9 DEF Seccomp, ControlInv, network_denied, filesystem_restricted, BeforeLandlock
  <2>3. ReportInv'
    <3>1. report'.seccomp_applied <=> filter' # "none"
      BY <1>9 DEF Seccomp, TypeOK, Reports
    <3>2. /\ report'.rlimits = report.rlimits
          /\ report'.landlock_status = report.landlock_status
          /\ report'.contained = report.contained
      BY <1>9 DEF Seccomp, TypeOK, Reports
    <3>3. strict' => ~Unenforced'
      BY <1>9, <3>2 DEF Seccomp, Unenforced, landlock_enforced, filesystem_restricted
    <3>4. QED
      BY <1>9, <3>1, <3>2, <3>3
         DEF Seccomp, ReportInv, landlock_enforced, BeforeLandlock, TypeOK
  <2>4. QED
    BY <2>1, <2>2, <2>3
<1>10. CASE RefuseSyscalls
  <2>0. report' \in Reports
    BY <1>10 DEF RefuseSyscalls, Refuse, TypeOK, Reports, Statuses
  <2>1. TypeOK'
    <3>1. file \in {"absent", "empty"}
      BY <1>10 DEF RefuseSyscalls, Refuse, ReportInv
    <3>2. /\ file' \in {"absent", "empty", "part", "whole"}
          /\ code' \in {"none", "usage", "refused", "not_found", "killed", "command"}
          /\ step' = "exited" <=> code' # "none"
          /\ step' \in Steps
      BY <1>10, <3>1, FlushTypes DEF RefuseSyscalls, Refuse, TypeOK, Steps
    <3>3. QED
      BY <1>10, <2>0, <3>2 DEF RefuseSyscalls, Refuse, TypeOK
  <2>2. ControlInv'
    BY <1>10
       DEF RefuseSyscalls, Refuse, ControlInv, network_denied, filesystem_restricted,
           BeforeLandlock
  <2>3. ReportInv'
    BY <1>10, FlushTypes
       DEF RefuseSyscalls, Refuse, ReportInv, Unenforced, landlock_enforced,
           filesystem_restricted, BeforeLandlock, TypeOK
  <2>4. QED
    BY <2>1, <2>2, <2>3
<1>11. CASE WriteReport
  <2>0. report' \in Reports
    BY <1>11 DEF WriteReport, TypeOK, Reports, Statuses
  <2>1. TypeOK'
    <3>1. file \in {"absent", "empty"}
      BY <1>11 DEF WriteReport, ReportInv
    <3>2. /\ file' \in {"absent", "empty", "part", "whole"}
          /\ code' \in {"none", "usage", "refused", "not_found", "killed", "command"}
          /\ step' = "exited" <=> code' # "none"
          /\ step' \in Steps
      BY <1>11, <3>1, FlushTypes DEF WriteReport, TypeOK, Steps
    <3>3. QED
      BY <1>11, <2>0, <3>2 DEF WriteReport, TypeOK
  <2>2. ControlInv'
    BY <1>11 DEF WriteReport, ControlInv, network_denied, filesystem_restricted, BeforeLandlock
  <2>3. ReportInv'
    <3>1. /\ report'.rlimits = report.rlimits
          /\ report'.landlock_status = report.landlock_status
          /\ report'.seccomp_applied = report.seccomp_applied
          /\ report'.contained <=> ~Unenforced /\ report.seccomp_applied
      BY <1>11 DEF WriteReport, TypeOK, Reports
    <3>2. Unenforced' <=> Unenforced
      BY <1>11, <3>1 DEF WriteReport, Unenforced, landlock_enforced, filesystem_restricted
    <3>3. step' \in {"exited", "reported"} /\ code' \in {"none", "killed"}
      BY <1>11 DEF WriteReport, TypeOK
    <3>4. /\ rlimits' = rlimits
          /\ landlocked' = landlocked
          /\ filter' = filter
          /\ strict' = strict
      BY <1>11 DEF WriteReport
    <3>5. /\ landlock_enforced(report.landlock_status) <=> landlocked
          /\ report.seccomp_applied <=> filter # "none"
          /\ strict => ~Unenforced /\ report.seccomp_applied
          /\ report.rlimits = rlimits
      BY <1>11 DEF WriteReport, ReportInv
    <3>6. QED
      BY <3>1, <3>2, <3>3, <3>4, <3>5 DEF ReportInv, landlock_enforced, BeforeLandlock
  <2>4. QED
    BY <2>1, <2>2, <2>3
<1>12. CASE Exec
  <2>1. TypeOK'
    BY <1>12 DEF Exec, TypeOK, Steps
  <2>2. ControlInv'
    BY <1>12 DEF Exec, ControlInv, network_denied, filesystem_restricted, BeforeLandlock
  <2>3. ReportInv'
    BY <1>12
       DEF Exec, ReportInv, Unenforced, landlock_enforced, filesystem_restricted, BeforeLandlock
  <2>4. QED
    BY <2>1, <2>2, <2>3
<1>13. CASE Killed
  <2>1. TypeOK'
    BY <1>13 DEF Killed, TypeOK, Steps
  <2>2. ControlInv'
    BY <1>13 DEF Killed, ControlInv, network_denied, filesystem_restricted, BeforeLandlock
  <2>3. ReportInv'
    BY <1>13
       DEF Killed, ReportInv, Unenforced, landlock_enforced, filesystem_restricted,
           BeforeLandlock
  <2>4. QED
    BY <2>1, <2>2, <2>3
<1>14. CASE CommandEnds
  <2>1. TypeOK'
    BY <1>14 DEF CommandEnds, TypeOK, Steps
  <2>2. ControlInv'
    BY <1>14 DEF CommandEnds, ControlInv, network_denied, filesystem_restricted, BeforeLandlock
  <2>3. ReportInv'
    BY <1>14
       DEF CommandEnds, ReportInv, Unenforced, landlock_enforced, filesystem_restricted,
           BeforeLandlock
  <2>4. QED
    BY <2>1, <2>2, <2>3
<1>15. QED
  BY <1>1, <1>2, <1>3, <1>4, <1>5, <1>6, <1>7, <1>8, <1>9, <1>10, <1>11, <1>12, <1>13, <1>14
     DEF Next

LEMMA InvImplies == IInv => StrictRunsEnforced /\ ReportIsHonest /\ NothingUnrequested
  BY DEF IInv, TypeOK, ControlInv, ReportInv, StrictRunsEnforced, ReportIsHonest,
         NothingUnrequested, Required, InForce, Unenforced, network_denied,
         filesystem_restricted, Reports

\* Every variable keeps its type, and a launcher that has ended has an exit
\* code (main.rs:125-248).
THEOREM TypeCorrect == Spec => []TypeOK
<1>1. IInv => TypeOK
  BY DEF IInv
<1>2. QED
  BY <1>1, InvInit, InvStep, PTL DEF Spec

\* A strict launcher executes the command only with every control its policy
\* asks for in force, whatever fails on the way (main.rs:178-217).
THEOREM StrictAlwaysEnforced == Spec => []StrictRunsEnforced
  BY InvInit, InvStep, InvImplies, PTL DEF Spec

\* A report that can be read is true of the process that runs the command
\* (main.rs:219-227).
THEOREM ReportAlwaysHonest == Spec => []ReportIsHonest
  BY InvInit, InvStep, InvImplies, PTL DEF Spec

\* Nothing is restricted that the policy did not ask for, whichever control
\* fails (main.rs:181-200, policy.rs:62-73).
THEOREM NothingUnrequestedEver == Spec => []NothingUnrequested
  BY InvInit, InvStep, InvImplies, PTL DEF Spec

-----------------------------------------------------------------------------
(***************************************************************************)
(* The refinement: a step that takes no control and tells nothing is a     *)
(* stutter of the abstract launcher.                                       *)
(***************************************************************************)

Silent == UNCHANGED <<Required, strict, Phase, InForce, Told>>

LEMMA InitRefines == Init => Abstract!Init
<1> SUFFICES ASSUME Init PROVE Abstract!Init
  OBVIOUS
<1>1. Phase = "starting" /\ InForce = {} /\ Told = "nothing"
  BY DEF Init, Phase, InForce, Told
<1>2. QED
  BY <1>1 DEF Abstract!Init

LEMMA StepRefines == IInv /\ [Next]_vars => Abstract!Next \/ Silent
<1> SUFFICES ASSUME IInv, [Next]_vars PROVE Abstract!Next \/ Silent
  OBVIOUS
<1>0. TypeOK /\ ControlInv /\ ReportInv
  BY DEF IInv
<1> USE DEF controls
<1>1. CASE UNCHANGED vars
  BY <1>1
     DEF vars, Silent, Required, InForce, Told, Phase, network_denied, filesystem_restricted
<1>2. ASSUME OpenReport \/ SetNoNewPrivs \/ ApplyLimits \/ EnterNamespace PROVE Silent
  <2>1. Phase = "starting" /\ Phase' = "starting"
    BY <1>2 DEF OpenReport, SetNoNewPrivs, ApplyLimits, EnterNamespace, Phase
  <2>2. Told = "nothing" /\ Told' = "nothing"
    BY <1>2, <1>0 DEF OpenReport, SetNoNewPrivs, ApplyLimits, EnterNamespace, Told, ReportInv,
                      BeforeLandlock
  <2>3. UNCHANGED <<policy, strict, landlocked, filter>>
    BY <1>2 DEF OpenReport, SetNoNewPrivs, ApplyLimits, EnterNamespace
  <2>4. QED
    BY <2>1, <2>2, <2>3 DEF Silent, Required, InForce, network_denied, filesystem_restricted
<1>3. ASSUME Landlock \/ Seccomp PROVE Abstract!Next
  <2>1. Phase = "starting" /\ Phase' = "starting"
    BY <1>3 DEF Landlock, Seccomp, Phase
  <2>2. Told = "nothing" /\ Told' = "nothing"
    BY <1>3, <1>0 DEF Landlock, Seccomp, Told, ReportInv, BeforeLandlock
  <2>3. Required' = Required /\ strict' = strict
    BY <1>3 DEF Landlock, Seccomp, Required, network_denied, filesystem_restricted
  <2>4. InForce \subseteq InForce'
    BY <1>3, <1>0 DEF Landlock, Seccomp, ControlInv, InForce, BeforeLandlock
  <2>5. QED
    BY <2>1, <2>2, <2>3, <2>4 DEF Abstract!Next, Abstract!Secure
<1>4. ASSUME BadPolicy \/ Killed \/ CommandEnds PROVE Abstract!Next
  <2>1. Phase' = "stopped"
    BY <1>4 DEF BadPolicy, Killed, CommandEnds, Phase
  <2>2. UNCHANGED <<policy, strict, landlocked, filter, report, file>>
    BY <1>4 DEF BadPolicy, Killed, CommandEnds
  <2>3. UNCHANGED <<Required, strict, InForce, Told>>
    BY <2>2 DEF Required, InForce, Told, network_denied, filesystem_restricted
  <2>4. QED
    BY <2>1, <2>3 DEF Abstract!Next, Abstract!Stop
<1>5. ASSUME RefuseFilesystem \/ RefuseSyscalls PROVE Abstract!Next
  <2>1. Phase = "starting" /\ Phase' = "stopped"
    BY <1>5 DEF RefuseFilesystem, RefuseSyscalls, Refuse, Phase
  <2>2. Told = "nothing"
    BY <1>5, <1>0 DEF RefuseFilesystem, RefuseSyscalls, Refuse, Told, ReportInv
  <2>3. Told' \in {"nothing", "uncontained"}
    <3>1. report'.contained = FALSE
      BY <1>5, <1>0 DEF RefuseFilesystem, RefuseSyscalls, Refuse, TypeOK, Reports
    <3>2. QED
      BY <3>1 DEF Told
  <2>4. UNCHANGED <<policy, strict, landlocked, filter>>
    BY <1>5 DEF RefuseFilesystem, RefuseSyscalls, Refuse
  <2>5. UNCHANGED <<Required, strict, InForce>>
    BY <2>4 DEF Required, InForce, network_denied, filesystem_restricted
  <2>6. QED
    BY <2>1, <2>2, <2>3, <2>5 DEF Abstract!Next, Abstract!Stop
<1>6. ASSUME WriteReport PROVE Abstract!Next \/ Silent
  <2>1. Phase = "starting" /\ Phase' \in {"starting", "stopped"}
    BY <1>6 DEF WriteReport, Phase
  <2>2. Told = "nothing" /\ file \in {"absent", "empty"}
    BY <1>6, <1>0 DEF WriteReport, Told, ReportInv
  <2>3. UNCHANGED <<Required, strict, InForce>>
    BY <1>6 DEF WriteReport, Required, InForce, network_denied, filesystem_restricted
  <2>4. Phase' = "stopped" => Told' = "nothing"
    BY <1>6, <2>2, KilledUnread DEF WriteReport, Phase, Told
  <2>5. Told' \in {"nothing", "contained", "uncontained"}
    BY <1>6, <2>2, FlushTypes DEF WriteReport, Told
  <2>6. QED
    BY <2>1, <2>2, <2>3, <2>4, <2>5
       DEF Abstract!Next, Abstract!Tell, Abstract!Stop, Silent
<1>7. ASSUME Exec PROVE Abstract!Next
  <2>1. Phase = "starting" /\ Phase' \in {"running", "stopped"}
    BY <1>7 DEF Exec, Phase
  <2>2. UNCHANGED <<policy, strict, landlocked, filter, report, file>>
    BY <1>7 DEF Exec
  <2>3. UNCHANGED <<Required, strict, InForce, Told>>
    BY <2>2 DEF Required, InForce, Told, network_denied, filesystem_restricted
  <2>4. Phase' = "running" /\ (strict \/ Told = "contained") => Required \subseteq InForce
    <3>1. IInv'
      BY InvStep
    <3>2. Phase' = "running" => step' = "running"
      BY <1>7 DEF Exec, Phase
    <3>3. StrictRunsEnforced' /\ ReportIsHonest'
      BY <3>1, InvImplies, PTL
    <3>4. Told = "contained" => file' = "whole" /\ report'.contained
      BY <2>2 DEF Told
    <3>5. QED
      BY <3>2, <3>3, <3>4, <2>2, <2>3 DEF StrictRunsEnforced, ReportIsHonest
  <2>5. QED
    BY <2>1, <2>3, <2>4 DEF Abstract!Next, Abstract!Run, Abstract!Stop
<1>8. QED
  BY <1>1, <1>2, <1>3, <1>4, <1>5, <1>6, <1>7 DEF Next

\* The Linux launcher implements the launcher of Launcher.tla: one exec, after
\* the required controls and after the report (main.rs:125-248).
THEOREM LinuxCoreImplementsLauncher == Spec => ImplementsLauncher
<1>1. IInv /\ [Next]_vars => [Abstract!Next]_<<Required, strict, Phase, InForce, Told>>
  BY StepRefines DEF Silent
<1>2. QED
  BY <1>1, InitRefines, InvInit, InvStep, PTL DEF Spec, ImplementsLauncher, Abstract!Spec

=============================================================================
