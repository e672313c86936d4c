-------------------------- MODULE WindowsCoreProofs --------------------------
(***************************************************************************)
(* The guarantees of WindowsCoreProperties, for any number of launchers,   *)
(* any process ids, paths and policies, and however many calls fail and    *)
(* launchers are killed.                                                   *)
(***************************************************************************)
EXTENDS WindowsCoreProperties, TLAPS

USE DEF launcherVars, shared, CallFails

\* The report file after fs::write, or its failure.
LEMMA WrittenFile ==
    ASSUME TypeOK, NEW l \in Launchers, Written(l)
    PROVE  /\ file' \in [Launchers -> {"absent", "part", "whole"}]
           /\ \A m \in Launchers \ {l} : file'[m] = file[m]
BY DEF Written, TypeOK

\* The report as it is when the command is created.
LEMMA DescribedReport ==
    ASSUME TypeOK, NEW l \in Launchers
    PROVE  /\ Described(l) \in [Launchers -> Reports]
           /\ \A m \in Launchers \ {l} : Described(l)[m] = report[m]
           /\ Described(l)[l].contained = report[l].contained
           /\ Described(l)[l].network = "denied" => needs_appcontainer(l)
<1>1. policy[l].network \in {"deny", "allow"}
  BY PoliciesAssumption DEF TypeOK
<1>2. QED
  BY <1>1 DEF Described, TypeOK, Reports

\* A command that is in the job dies with its launcher.
LEMMA KilledCommand ==
    ASSUME TypeOK, NEW l \in Launchers, Kill(l)
    PROVE  /\ child' \in [Launchers -> {"none", "suspended", "running", "ended", "aborted"}]
           /\ ~injob[l] => child'[l] = child[l]
           /\ injob[l] /\ child[l] = "suspended" => child'[l] = "aborted"
           /\ injob[l] /\ child[l] # "suspended" => child'[l] = "ended"
           /\ \A m \in Launchers \ {l} : child'[m] = child[m]
BY DEF Kill, TypeOK

\* A policy's entries are entries of its paths.
LEMMA EntriesAreTyped ==
    ASSUME TypeOK, NEW l \in Launchers
    PROVE  EntriesOf(policy[l]) \subseteq Entries
<1>1. policy[l] \in [read : SUBSET Paths, write : SUBSET Paths, network : {"deny", "allow"}]
  BY PoliciesAssumption DEF TypeOK
<1>2. QED
  BY <1>1 DEF EntriesOf, Entries, Rights

-----------------------------------------------------------------------------
LEMMA InitInv == Init => IInv
<1> SUFFICES ASSUME Init PROVE IInv
  OBVIOUS
<1> USE WindowsAssumption DEF Init
<1>1. TypeOK
  BY DEF TypeOK, Steps, Reports
<1>2. StepInv /\ ReportInv
  BY DEF StepInv, StepsOf, ReportInv, ReportOf, Creating
<1>3. IdsInv /\ AclInv
  BY DEF IdsInv, AclInv, ListsOf, Live
<1>4. QED
  BY <1>1, <1>2, <1>3 DEF IInv

LEMMA TypeStep == TypeOK /\ [Next]_vars => TypeOK'
<1> SUFFICES ASSUME TypeOK, [Next]_vars PROVE TypeOK'
  OBVIOUS
<1> USE WindowsAssumption
<1>1. CASE UNCHANGED vars
  BY <1>1 DEF vars, TypeOK, Steps
<1>2. ASSUME NEW l \in Launchers, Start(l) PROVE TypeOK'
  BY <1>2 DEF Start, TypeOK, Steps
<1>3. ASSUME NEW l \in Launchers, BadPolicy(l) PROVE TypeOK'
  BY <1>3 DEF BadPolicy, TypeOK, Steps
<1>4. ASSUME NEW l \in Launchers, Prepare(l) PROVE TypeOK'
  <2>1. EntriesOf(policy[l]) \in SUBSET Entries /\ profiles' \subseteq Pids
    BY <1>4, EntriesAreTyped DEF Prepare, TypeOK, Sid
  <2>2. QED
    BY <1>4, <2>1 DEF Prepare, TypeOK, Steps
<1>5. ASSUME NEW l \in Launchers, Refuse(l) PROVE TypeOK'
  BY <1>5, WrittenFile DEF Refuse, TypeOK, Steps
<1>6. ASSUME NEW l \in Launchers, ReadAcl(l) PROVE TypeOK'
  <2>1. edit' \in [Launchers -> [entry : Entries, old : SUBSET Aces] \cup {None}]
    <3>1. PICK e \in todo[l] : edit' = [edit EXCEPT ![l] = [entry |-> e, old |-> acl[e.path]]]
      BY <1>6 DEF ReadAcl
    <3>2. e \in Entries /\ acl[e.path] \in SUBSET Aces
      BY <3>1 DEF TypeOK, Entries
    <3>3. QED
      BY <3>1, <3>2 DEF TypeOK
  <2>2. todo' \in [Launchers -> SUBSET Entries]
    BY <1>6 DEF ReadAcl, TypeOK
  <2>3. UNCHANGED <<policy, pid, pc, granted, job, injob, boxed, child, tree, report, file>>
    BY <1>6 DEF ReadAcl
  <2>4. UNCHANGED <<shared, failures, kills>>
    BY <1>6 DEF ReadAcl
  <2>5. QED
    BY <2>1, <2>2, <2>3, <2>4 DEF TypeOK
<1>7. ASSUME NEW l \in Launchers, WriteAcl(l) PROVE TypeOK'
  <2>1. acl' \in [Paths -> SUBSET Aces]
    <3>1. edit[l] \in [entry : Entries, old : SUBSET Aces] /\ pid[l] \in Pids
      BY <1>7 DEF WriteAcl, TypeOK, Live
    <3>2. QED
      BY <1>7, <3>1 DEF WriteAcl, TypeOK, Granting, Revoking, Sid, Aces, Entries
  <2>2. granted' \in [Launchers -> SUBSET Entries]
    BY <1>7 DEF WriteAcl, TypeOK
  <2>3. QED
    BY <1>7, <2>1, <2>2 DEF WriteAcl, TypeOK
<1>8. ASSUME NEW l \in Launchers, AclFails(l) PROVE TypeOK'
  BY <1>8 DEF AclFails, TypeOK, Steps
<1>9. ASSUME NEW l \in Launchers, CreateJob(l) PROVE TypeOK'
  BY <1>9 DEF CreateJob, TypeOK, Steps
<1>10. ASSUME NEW l \in Launchers, CreateProcess(l) PROVE TypeOK'
  <2>1. report' \in [Launchers -> Reports]
    BY <1>10, DescribedReport DEF CreateProcess
  <2>2. boxed' \in [Launchers -> BOOLEAN]
    BY <1>10 DEF CreateProcess, TypeOK, needs_appcontainer
  <2>3. /\ pc' = [pc EXCEPT ![l] = "created"] /\ pc[l] = "limited"
        /\ child' = [child EXCEPT ![l] = "suspended"]
    BY <1>10 DEF CreateProcess
  <2>4. UNCHANGED <<policy, pid, todo, edit, granted, job, injob, tree, file, acl, profiles>>
    BY <1>10 DEF CreateProcess
  <2>5. UNCHANGED <<failures, kills>>
    BY <1>10 DEF CreateProcess
  <2>6. QED
    BY <2>1, <2>2, <2>3, <2>4, <2>5 DEF TypeOK, Steps
<1>11. ASSUME NEW l \in Launchers, AssignToJob(l) PROVE TypeOK'
  BY <1>11 DEF AssignToJob, TypeOK, Steps
<1>12. ASSUME NEW l \in Launchers, SpawnFails(l) PROVE TypeOK'
  BY <1>12, WrittenFile, DescribedReport DEF SpawnFails, Abandon, Drop, TypeOK, Steps
<1>13. ASSUME NEW l \in Launchers, Resume(l) PROVE TypeOK'
  <2>1. report' \in [Launchers -> Reports]
    BY <1>13 DEF Resume, TypeOK, Reports
  <2>2. /\ child' \in [Launchers -> {"none", "suspended", "running", "ended", "aborted"}]
        /\ failures' \in 0 .. MaxFailures
    BY <1>13 DEF Resume, TypeOK
  <2>3. /\ pc' = [pc EXCEPT ![l] = "resumed"] /\ pc[l] = "assigned"
        /\ UNCHANGED <<policy, pid, todo, edit, granted, job, injob, boxed, tree, file, acl>>
        /\ UNCHANGED <<profiles, kills>>
    BY <1>13 DEF Resume
  <2>4. QED
    BY <2>1, <2>2, <2>3 DEF TypeOK, Steps
<1>14. ASSUME NEW l \in Launchers, WriteReport(l) PROVE TypeOK'
  BY <1>14, WrittenFile DEF WriteReport, TypeOK, Steps
<1>15. ASSUME NEW l \in Launchers, Spawn(l) PROVE TypeOK'
  BY <1>15 DEF Spawn, TypeOK, Steps
<1>16. ASSUME NEW l \in Launchers, CommandEnds(l) PROVE TypeOK'
  BY <1>16 DEF CommandEnds, TypeOK, Steps
<1>17. ASSUME NEW l \in Launchers, Collect(l) PROVE TypeOK'
  BY <1>17 DEF Collect, Drop, TypeOK, Steps
<1>18. ASSUME NEW l \in Launchers, Exit(l) PROVE TypeOK'
  BY <1>18 DEF Exit, TypeOK, Steps
<1>19. ASSUME NEW l \in Launchers, Kill(l) PROVE TypeOK'
  <2>1. child' \in [Launchers -> {"none", "suspended", "running", "ended", "aborted"}]
    BY <1>19, KilledCommand
  <2>2. job' \in [Launchers -> {"none", "open", "closed"}] /\ tree' \in [Launchers -> BOOLEAN]
    BY <1>19 DEF Kill, TypeOK
  <2>3. /\ edit' \in [Launchers -> [entry : Entries, old : SUBSET Aces] \cup {None}]
        /\ kills' \in 0 .. MaxKills
    BY <1>19 DEF Kill, TypeOK
  <2>4. /\ pc' = [pc EXCEPT ![l] = "killed"] /\ pc[l] # "idle"
        /\ UNCHANGED <<policy, pid, todo, granted, injob, boxed, report, file, acl, profiles>>
        /\ failures' = failures
    BY <1>19 DEF Kill, Live
  <2>5. QED
    BY <2>1, <2>2, <2>3, <2>4 DEF TypeOK, Steps
<1>20. QED
  BY <1>1, <1>2, <1>3, <1>4, <1>5, <1>6, <1>7, <1>8, <1>9, <1>10, <1>11, <1>12, <1>13, <1>14,
     <1>15, <1>16, <1>17, <1>18, <1>19
     DEF Next

-----------------------------------------------------------------------------
\* What a step of another launcher leaves alone.
Seen(l) ==
    <<pc[l], policy[l], job[l], injob[l], boxed[l], child[l], tree[l], report[l], file[l],
      todo[l], edit[l], granted[l]>>

StepOf(l) ==
    \/ Start(l) \/ BadPolicy(l) \/ Prepare(l) \/ Refuse(l) \/ ReadAcl(l) \/ WriteAcl(l)
    \/ AclFails(l) \/ CreateJob(l) \/ CreateProcess(l) \/ AssignToJob(l) \/ SpawnFails(l)
    \/ Resume(l) \/ WriteReport(l) \/ Spawn(l) \/ CommandEnds(l) \/ Collect(l) \/ Exit(l)
    \/ Kill(l)

LEMMA OthersAreUntouched ==
    ASSUME TypeOK, NEW l \in Launchers, NEW d \in Launchers, d # l, StepOf(l)
    PROVE  UNCHANGED Seen(d)
<1> USE DEF TypeOK, Seen
<1>1. CASE Start(l) \/ BadPolicy(l) \/ Prepare(l) \/ ReadAcl(l)
  BY <1>1 DEF Start, BadPolicy, Prepare, ReadAcl
<1>2. CASE WriteAcl(l) \/ AclFails(l) \/ CreateJob(l) \/ AssignToJob(l)
  BY <1>2 DEF WriteAcl, AclFails, CreateJob, AssignToJob
<1>3. CASE Resume(l) \/ Spawn(l) \/ CommandEnds(l)
  BY <1>3 DEF Resume, Spawn, CommandEnds
<1>4. CASE Refuse(l) \/ WriteReport(l) \/ SpawnFails(l)
  BY <1>4, WrittenFile, DescribedReport DEF Refuse, WriteReport, SpawnFails, Abandon, Drop
<1>5. CASE CreateProcess(l) \/ Collect(l) \/ Exit(l) \/ Kill(l)
  BY <1>5, DescribedReport DEF CreateProcess, Collect, Exit, Kill, Drop
<1>6. QED
  BY <1>1, <1>2, <1>3, <1>4, <1>5 DEF StepOf

LEMMA PolicyIsGiven ==
    ASSUME NEW l \in Launchers, StepOf(l)
    PROVE  \A d \in Launchers : needs_appcontainer(d)' <=> needs_appcontainer(d)
<1>1. policy' = policy
  BY
     DEF StepOf, Start, BadPolicy, Prepare, Refuse, ReadAcl, WriteAcl, AclFails, CreateJob,
         CreateProcess, AssignToJob, SpawnFails, Resume, WriteReport, Spawn, CommandEnds,
         Collect, Exit, Kill, Abandon
<1>2. QED
  BY <1>1 DEF needs_appcontainer

LEMMA OwnStep ==
    ASSUME TypeOK, StepInv, NEW l \in Launchers, StepOf(l)
    PROVE  StepsOf(l)'
<1>0. needs_appcontainer(l)' <=> needs_appcontainer(l)
  BY PolicyIsGiven
<1>1. CASE Start(l)
  BY <1>0, <1>1 DEF Start, TypeOK, StepInv, StepsOf, Creating, Live, Steps
<1>2. CASE BadPolicy(l)
  BY <1>0, <1>2 DEF BadPolicy, TypeOK, StepInv, StepsOf, Creating, Live, Steps
<1>3. CASE Prepare(l)
  BY <1>0, <1>3 DEF Prepare, TypeOK, StepInv, StepsOf, Creating, Live, Steps
<1>4. CASE Refuse(l)
  BY <1>0, <1>4, WrittenFile DEF Refuse, TypeOK, StepInv, StepsOf, Creating, Live, Steps
<1>5. CASE ReadAcl(l)
  BY <1>0, <1>5 DEF ReadAcl, TypeOK, StepInv, StepsOf, Creating, Live, Steps
<1>6. CASE WriteAcl(l)
  BY <1>0, <1>6 DEF WriteAcl, TypeOK, StepInv, StepsOf, Creating, Live, Steps
<1>7. CASE AclFails(l)
  BY <1>0, <1>7 DEF AclFails, TypeOK, StepInv, StepsOf, Creating, Live, Steps
<1>8. CASE CreateJob(l)
  BY <1>0, <1>8 DEF CreateJob, TypeOK, StepInv, StepsOf, Creating, Live, Steps
<1>9. CASE CreateProcess(l)
  BY <1>0, <1>9, DescribedReport
     DEF CreateProcess, TypeOK, StepInv, StepsOf, Creating, Live, Steps
<1>10. CASE AssignToJob(l)
  BY <1>0, <1>10 DEF AssignToJob, TypeOK, StepInv, StepsOf, Creating, Live, Steps
<1>11. CASE SpawnFails(l)
  BY <1>0, <1>11, WrittenFile, DescribedReport
     DEF SpawnFails, Abandon, Drop, TypeOK, StepInv, StepsOf, Creating, Live, Steps
<1>12. CASE Resume(l)
  BY <1>0, <1>12 DEF Resume, TypeOK, StepInv, StepsOf, Creating, Live, Steps
<1>13. CASE WriteReport(l)
  BY <1>0, <1>13, WrittenFile DEF WriteReport, TypeOK, StepInv, StepsOf, Creating, Live, Steps
<1>14. CASE Spawn(l)
  BY <1>0, <1>14 DEF Spawn, TypeOK, StepInv, StepsOf, Creating, Live, Steps
<1>15. CASE CommandEnds(l)
  BY <1>0, <1>15 DEF CommandEnds, TypeOK, StepInv, StepsOf, Creating, Live, Steps
<1>16. CASE Collect(l)
  BY <1>0, <1>16 DEF Collect, Drop, TypeOK, StepInv, StepsOf, Creating, Live, Steps
<1>17. CASE Exit(l)
  BY <1>0, <1>17 DEF Exit, TypeOK, StepInv, StepsOf, Creating, Live, Steps
<1>18. CASE Kill(l)
  <2>1. /\ pc' = [pc EXCEPT ![l] = "killed"] /\ pc[l] \notin {"idle", "exited", "killed"}
        /\ tree' = [tree EXCEPT ![l] = FALSE]
        /\ UNCHANGED <<injob, boxed, report, file>>
    BY <1>18 DEF Kill, Live
  <2>2. QED
    BY <1>0, <1>18, <2>1, KilledCommand DEF TypeOK, StepInv, StepsOf, Creating, Steps
<1>19. QED
  BY <1>1, <1>2, <1>3, <1>4, <1>5, <1>6, <1>7, <1>8, <1>9, <1>10, <1>11, <1>12, <1>13, <1>14,
     <1>15, <1>16, <1>17, <1>18
     DEF StepOf

LEMMA StepStep ==
    ASSUME TypeOK, StepInv, [Next]_vars
    PROVE  StepInv'
<1> SUFFICES ASSUME NEW d \in Launchers PROVE StepsOf(d)'
  BY DEF StepInv
<1>1. ASSUME UNCHANGED Seen(d) PROVE StepsOf(d)'
  BY <1>1 DEF Seen, StepInv, StepsOf, needs_appcontainer
<1>2. CASE UNCHANGED vars
  BY <1>1, <1>2 DEF vars, Seen
<1>3. ASSUME NEW l \in Launchers, StepOf(l) PROVE StepsOf(d)'
  BY <1>1, <1>3, OthersAreUntouched, OwnStep
<1>4. QED
  BY <1>2, <1>3 DEF Next, StepOf

LEMMA OwnReport ==
    ASSUME TypeOK, StepInv, ReportInv, NEW l \in Launchers, StepOf(l)
    PROVE  ReportOf(l)'
<1>0. needs_appcontainer(l)' <=> needs_appcontainer(l)
  BY PolicyIsGiven
<1>1. CASE Start(l)
  BY <1>0, <1>1 DEF Start, TypeOK, StepInv, StepsOf, ReportInv, ReportOf, Creating, Live, Steps
<1>2. CASE BadPolicy(l)
  BY <1>0, <1>2
     DEF BadPolicy, TypeOK, StepInv, StepsOf, ReportInv, ReportOf, Creating, Live, Steps
<1>3. CASE Prepare(l)
  BY <1>0, <1>3
     DEF Prepare, TypeOK, StepInv, StepsOf, ReportInv, ReportOf, Creating, Live, Steps
<1>4. CASE Refuse(l)
  BY <1>0, <1>4, WrittenFile
     DEF Refuse, TypeOK, StepInv, StepsOf, ReportInv, ReportOf, Creating, Live, Steps
<1>5. CASE ReadAcl(l)
  BY <1>0, <1>5
     DEF ReadAcl, TypeOK, StepInv, StepsOf, ReportInv, ReportOf, Creating, Live, Steps
<1>6. CASE WriteAcl(l)
  BY <1>0, <1>6
     DEF WriteAcl, TypeOK, StepInv, StepsOf, ReportInv, ReportOf, Creating, Live, Steps
<1>7. CASE AclFails(l)
  BY <1>0, <1>7
     DEF AclFails, TypeOK, StepInv, StepsOf, ReportInv, ReportOf, Creating, Live, Steps
<1>8. CASE CreateJob(l)
  BY <1>0, <1>8
     DEF CreateJob, TypeOK, StepInv, StepsOf, ReportInv, ReportOf, Creating, Live, Steps
<1>9. CASE CreateProcess(l)
  BY <1>0, <1>9, DescribedReport
     DEF CreateProcess, TypeOK, StepInv, StepsOf, ReportInv, ReportOf, Creating, Live, Steps
<1>10. CASE AssignToJob(l)
  BY <1>0, <1>10
     DEF AssignToJob, TypeOK, StepInv, StepsOf, ReportInv, ReportOf, Creating, Live, Steps
<1>11. CASE SpawnFails(l)
  BY <1>0, <1>11, WrittenFile, DescribedReport
     DEF SpawnFails, Abandon, Drop, TypeOK, StepInv, StepsOf, ReportInv, ReportOf, Creating,
         Live, Steps
<1>12. CASE Resume(l)
  BY <1>0, <1>12
     DEF Resume, TypeOK, StepInv, StepsOf, ReportInv, ReportOf, Creating, Live, Steps
<1>13. CASE WriteReport(l)
  BY <1>0, <1>13, WrittenFile
     DEF WriteReport, TypeOK, StepInv, StepsOf, ReportInv, ReportOf, Creating, Live, Steps
<1>14. CASE Spawn(l)
  BY <1>0, <1>14 DEF Spawn, TypeOK, StepInv, StepsOf, ReportInv, ReportOf, Creating, Live, Steps
<1>15. CASE CommandEnds(l)
  BY <1>0, <1>15
     DEF CommandEnds, TypeOK, StepInv, StepsOf, ReportInv, ReportOf, Creating, Live, Steps
<1>16. CASE Collect(l)
  BY <1>0, <1>16
     DEF Collect, Drop, TypeOK, StepInv, StepsOf, ReportInv, ReportOf, Creating, Live, Steps
<1>17. CASE Exit(l)
  BY <1>0, <1>17 DEF Exit, TypeOK, StepInv, StepsOf, ReportInv, ReportOf, Creating, Live, Steps
<1>18. CASE Kill(l)
  <2>1. /\ pc' = [pc EXCEPT ![l] = "killed"] /\ pc[l] \notin {"idle", "exited", "killed"}
        /\ tree' = [tree EXCEPT ![l] = FALSE]
        /\ UNCHANGED <<injob, boxed, report, file>>
    BY <1>18 DEF Kill, Live
  <2>2. QED
    BY <1>0, <1>18, <2>1, KilledCommand DEF TypeOK, StepInv, StepsOf, ReportInv,
       ReportOf, Creating, Steps
<1>19. QED
  BY <1>1, <1>2, <1>3, <1>4, <1>5, <1>6, <1>7, <1>8, <1>9, <1>10, <1>11, <1>12, <1>13, <1>14,
     <1>15, <1>16, <1>17, <1>18
     DEF StepOf

LEMMA ReportStep ==
    ASSUME TypeOK, StepInv, ReportInv, [Next]_vars
    PROVE  ReportInv'
<1> SUFFICES ASSUME NEW d \in Launchers PROVE ReportOf(d)'
  BY DEF ReportInv
<1>1. ASSUME UNCHANGED Seen(d) PROVE ReportOf(d)'
  BY <1>1 DEF Seen, ReportInv, ReportOf, needs_appcontainer
<1>2. CASE UNCHANGED vars
  BY <1>1, <1>2 DEF vars, Seen
<1>3. ASSUME NEW l \in Launchers, StepOf(l) PROVE ReportOf(d)'
  BY <1>1, <1>3, OthersAreUntouched, OwnReport
<1>4. QED
  BY <1>2, <1>3 DEF Next, StepOf

LEMMA IdsStep == TypeOK /\ IdsInv /\ [Next]_vars => IdsInv'
<1> SUFFICES ASSUME TypeOK, IdsInv, [Next]_vars PROVE IdsInv'
  OBVIOUS
<1> USE WindowsAssumption
<1>1. CASE UNCHANGED vars
  BY <1>1 DEF vars, IdsInv, Live, Sid, needs_appcontainer, Steps
<1>2. ASSUME NEW l \in Launchers, Start(l) PROVE IdsInv'
  BY <1>2 DEF Start, TypeOK, IdsInv, Live, Sid, needs_appcontainer, Steps
<1>3. ASSUME NEW l \in Launchers, BadPolicy(l) PROVE IdsInv'
  BY <1>3 DEF BadPolicy, TypeOK, IdsInv, Live, Sid, needs_appcontainer, Steps
<1>4. ASSUME NEW l \in Launchers, Prepare(l) PROVE IdsInv'
  BY <1>4 DEF Prepare, TypeOK, IdsInv, Live, Sid, needs_appcontainer, Steps
<1>5. ASSUME NEW l \in Launchers, Refuse(l) PROVE IdsInv'
  BY <1>5, WrittenFile DEF Refuse, TypeOK, IdsInv, Live, Sid, needs_appcontainer, Steps
<1>6. ASSUME NEW l \in Launchers, ReadAcl(l) PROVE IdsInv'
  BY <1>6 DEF ReadAcl, TypeOK, IdsInv, Live, Sid, needs_appcontainer, Steps
<1>7. ASSUME NEW l \in Launchers, WriteAcl(l) PROVE IdsInv'
  BY <1>7 DEF WriteAcl, TypeOK, IdsInv, Live, Sid, needs_appcontainer, Steps
<1>8. ASSUME NEW l \in Launchers, AclFails(l) PROVE IdsInv'
  BY <1>8 DEF AclFails, TypeOK, IdsInv, Live, Sid, needs_appcontainer, Steps
<1>9. ASSUME NEW l \in Launchers, CreateJob(l) PROVE IdsInv'
  BY <1>9 DEF CreateJob, TypeOK, IdsInv, Live, Sid, needs_appcontainer, Steps
<1>10. ASSUME NEW l \in Launchers, CreateProcess(l) PROVE IdsInv'
  BY <1>10, DescribedReport
     DEF CreateProcess, TypeOK, IdsInv, Live, Sid, needs_appcontainer, Steps
<1>11. ASSUME NEW l \in Launchers, AssignToJob(l) PROVE IdsInv'
  BY <1>11 DEF AssignToJob, TypeOK, IdsInv, Live, Sid, needs_appcontainer, Steps
<1>12. ASSUME NEW l \in Launchers, SpawnFails(l) PROVE IdsInv'
  BY <1>12, WrittenFile, DescribedReport
     DEF SpawnFails, Abandon, Drop, TypeOK, IdsInv, Live, Sid, needs_appcontainer, Steps
<1>13. ASSUME NEW l \in Launchers, Resume(l) PROVE IdsInv'
  BY <1>13 DEF Resume, TypeOK, IdsInv, Live, Sid, needs_appcontainer, Steps
<1>14. ASSUME NEW l \in Launchers, WriteReport(l) PROVE IdsInv'
  BY <1>14, WrittenFile DEF WriteReport, TypeOK, IdsInv, Live, Sid, needs_appcontainer, Steps
<1>15. ASSUME NEW l \in Launchers, Spawn(l) PROVE IdsInv'
  BY <1>15 DEF Spawn, TypeOK, IdsInv, Live, Sid, needs_appcontainer, Steps
<1>16. ASSUME NEW l \in Launchers, CommandEnds(l) PROVE IdsInv'
  BY <1>16 DEF CommandEnds, TypeOK, IdsInv, Live, Sid, needs_appcontainer, Steps
<1>17. ASSUME NEW l \in Launchers, Collect(l) PROVE IdsInv'
  BY <1>17 DEF Collect, Drop, TypeOK, IdsInv, Live, Sid, needs_appcontainer, Steps
<1>18. ASSUME NEW l \in Launchers, Exit(l) PROVE IdsInv'
  BY <1>18 DEF Exit, TypeOK, IdsInv, Live, Sid, needs_appcontainer, Steps
<1>19. ASSUME NEW l \in Launchers, Kill(l) PROVE IdsInv'
  BY <1>19 DEF Kill, TypeOK, IdsInv, Live, Sid, needs_appcontainer, Steps
<1>20. QED
  BY <1>1, <1>2, <1>3, <1>4, <1>5, <1>6, <1>7, <1>8, <1>9, <1>10, <1>11, <1>12, <1>13, <1>14,
     <1>15, <1>16, <1>17, <1>18, <1>19
     DEF Next

-----------------------------------------------------------------------------
\* An entry that a launcher may grant remains one: ids are given once.
LEMMA GrantableStays ==
    ASSUME TypeOK, NEW l \in Launchers, StepOf(l), NEW ace \in Aces, NEW path,
           Grantable(ace, path)
    PROVE  Grantable(ace, path)'
<1>1. PICK m \in Launchers :
         pid[m] = ace.sid /\ [path |-> path, right |-> ace.right] \in EntriesOf(policy[m])
  BY DEF Grantable
<1>2. policy' = policy
  BY
     DEF StepOf, Start, BadPolicy, Prepare, Refuse, ReadAcl, WriteAcl, AclFails, CreateJob,
         CreateProcess, AssignToJob, SpawnFails, Resume, WriteReport, Spawn, CommandEnds,
         Collect, Exit, Kill, Abandon
<1>3. pid[m] \in Pids
  BY <1>1 DEF Aces
<1>4. pid'[m] = pid[m]
  <2>1. CASE Start(l)
    BY <1>3, <2>1, WindowsAssumption DEF Start, TypeOK
  <2>2. CASE ~Start(l)
    BY <2>2
       DEF StepOf, Start, BadPolicy, Prepare, Refuse, ReadAcl, WriteAcl, AclFails, CreateJob,
           CreateProcess, AssignToJob, SpawnFails, Resume, WriteReport, Spawn, CommandEnds,
           Collect, Exit, Kill, Abandon
  <2>3. QED
    BY <2>1, <2>2
<1>5. QED
  BY <1>1, <1>2, <1>4 DEF Grantable, EntriesOf

\* The lists that a launcher works on, after a step of its own.
LEMMA OwnLists ==
    ASSUME TypeOK, AclInv, NEW l \in Launchers, StepOf(l)
    PROVE  /\ todo'[l] \subseteq EntriesOf(policy[l])
           /\ granted'[l] \subseteq EntriesOf(policy[l])
           /\ edit'[l] # None =>
                 /\ pc'[l] \in {"granting", "revoking"}
                 /\ edit'[l].entry \in EntriesOf(policy[l])
                 /\ edit'[l].old \subseteq Aces
                 /\ \A ace \in edit'[l].old : Grantable(ace, edit'[l].entry.path)
<1>0. ListsOf(l)
  BY DEF AclInv
<1>1. CASE ReadAcl(l)
  <2>1. PICK e \in todo[l] : /\ edit' = [edit EXCEPT ![l] = [entry |-> e, old |-> acl[e.path]]]
                             /\ todo' = [todo EXCEPT ![l] = @ \ {e}]
    BY <1>1 DEF ReadAcl
  <2>2. e \in EntriesOf(policy[l]) /\ e.path \in Paths /\ acl[e.path] \subseteq Aces
    BY <1>0, <2>1 DEF ListsOf, TypeOK, Entries
  <2>3. edit'[l].entry = e /\ edit'[l].old = acl[e.path]
    BY <2>1 DEF TypeOK
  <2>4. \A ace \in acl[e.path] : Grantable(ace, e.path)
    BY <2>2 DEF AclInv
  <2>5. pc'[l] \in {"granting", "revoking"} /\ granted' = granted
    BY <1>1 DEF ReadAcl
  <2>6. todo'[l] \subseteq EntriesOf(policy[l])
    BY <1>0, <2>1 DEF ListsOf, TypeOK
  <2>7. QED
    BY <1>0, <2>2, <2>3, <2>4, <2>5, <2>6 DEF ListsOf
<1>2. CASE WriteAcl(l)
  BY <1>0, <1>2 DEF WriteAcl, ListsOf, TypeOK
<1>3. CASE AclFails(l) \/ Kill(l)
  BY <1>0, <1>3 DEF AclFails, Kill, ListsOf, TypeOK
<1>4. CASE Prepare(l)
  BY <1>0, <1>4 DEF Prepare, ListsOf, TypeOK
<1>5. CASE SpawnFails(l) \/ Collect(l)
  <2>1. /\ todo' = [todo EXCEPT ![l] = granted[l]]
        /\ UNCHANGED <<granted, edit>>
        /\ edit[l] = None \/ pc[l] \notin {"granting", "revoking"}
    BY <1>5 DEF SpawnFails, Abandon, Collect, Drop
  <2>2. QED
    BY <1>0, <2>1 DEF ListsOf, TypeOK
<1>6. CASE Start(l) \/ BadPolicy(l) \/ Refuse(l) \/ CreateJob(l) \/ CreateProcess(l)
           \/ AssignToJob(l) \/ Resume(l) \/ WriteReport(l) \/ Exit(l)
  <2>1. /\ UNCHANGED <<todo, granted, edit>>
        /\ edit[l] = None \/ pc[l] \notin {"granting", "revoking"}
    BY <1>6
       DEF Start, BadPolicy, Refuse, CreateJob, CreateProcess, AssignToJob, Resume,
           WriteReport, Exit
  <2>2. QED
    BY <1>0, <2>1 DEF ListsOf
<1>7. CASE Spawn(l) \/ CommandEnds(l)
  <2>1. UNCHANGED <<pc, todo, granted, edit>>
    BY <1>7 DEF Spawn, CommandEnds
  <2>2. QED
    BY <1>0, <2>1 DEF ListsOf, TypeOK
<1>8. QED
  BY <1>1, <1>2, <1>3, <1>4, <1>5, <1>6, <1>7 DEF StepOf

\* What a list is set to holds entries that may be granted and no others.
LEMMA SetLists ==
    ASSUME TypeOK, AclInv, NEW l \in Launchers, StepOf(l),
           NEW path \in Paths, NEW ace \in acl'[path]
    PROVE  ace \in Aces /\ Grantable(ace, path)
<1>1. CASE ace \in acl[path]
  BY <1>1 DEF AclInv, TypeOK
<1>2. CASE ace \notin acl[path]
  <2>1. WriteAcl(l)
    BY <1>2
       DEF StepOf, Start, BadPolicy, Prepare, Refuse, ReadAcl, AclFails, CreateJob,
           CreateProcess, AssignToJob, SpawnFails, Resume, WriteReport, Spawn, CommandEnds,
           Collect, Exit, Kill, Abandon
  <2>2. /\ edit[l].entry \in EntriesOf(policy[l])
        /\ edit[l].old \subseteq Aces /\ pid[l] \in Pids /\ edit[l].entry \in Entries
        /\ \A a \in edit[l].old : Grantable(a, edit[l].entry.path)
    BY <2>1 DEF WriteAcl, AclInv, ListsOf, TypeOK
  <2>3. path = edit[l].entry.path
    BY <1>2, <2>1 DEF WriteAcl, TypeOK
  <2>4. CASE ace \in edit[l].old
    BY <2>2, <2>3, <2>4
  <2>5. CASE ace \notin edit[l].old
    <3>1. ace = [sid |-> pid[l], right |-> edit[l].entry.right]
      BY <2>1, <2>2, <2>3, <2>5 DEF WriteAcl, TypeOK, Granting, Revoking, Sid
    <3>2. ace \in Aces
      BY <2>2, <3>1 DEF Aces, Entries
    <3>3. [path |-> path, right |-> ace.right] = edit[l].entry
      BY <2>2, <2>3, <3>1 DEF Entries
    <3>4. Grantable(ace, path)
      BY <2>2, <3>1, <3>3 DEF Grantable
    <3>5. QED
      BY <3>2, <3>4
  <2>6. QED
    BY <2>4, <2>5
<1>3. QED
  BY <1>1, <1>2

LEMMA AclStep ==
    ASSUME TypeOK, AclInv, [Next]_vars
    PROVE  AclInv'
<1>1. CASE UNCHANGED vars
  BY <1>1 DEF vars, AclInv, ListsOf, Grantable, EntriesOf
<1>2. ASSUME NEW l \in Launchers, StepOf(l) PROVE AclInv'
  <2>1. policy' = policy
    BY <1>2
       DEF StepOf, Start, BadPolicy, Prepare, Refuse, ReadAcl, WriteAcl, AclFails, CreateJob,
           CreateProcess, AssignToJob, SpawnFails, Resume, WriteReport, Spawn, CommandEnds,
           Collect, Exit, Kill, Abandon
  <2>2. ASSUME NEW path \in Paths, NEW ace \in acl'[path] PROVE Grantable(ace, path)'
    BY <1>2, <2>2, SetLists, GrantableStays
  <2>3. ListsOf(l)'
    <3>1. edit'[l] # None =>
             \A ace \in edit'[l].old : \A p : p = edit'[l].entry.path => Grantable(ace, p)'
      BY <1>2, OwnLists, GrantableStays
    <3>2. EntriesOf(policy[l])' = EntriesOf(policy[l])
      BY <2>1 DEF EntriesOf
    <3>3. /\ todo'[l] \subseteq EntriesOf(policy[l])
          /\ granted'[l] \subseteq EntriesOf(policy[l])
          /\ edit'[l] # None =>
                pc'[l] \in {"granting", "revoking"} /\ edit'[l].entry \in EntriesOf(policy[l])
      BY <1>2, OwnLists
    <3>4. QED
      BY <3>1, <3>2, <3>3 DEF ListsOf, Grantable
  <2>4. ASSUME NEW d \in Launchers, d # l PROVE ListsOf(d)'
    <3>1. UNCHANGED Seen(d)
      BY <1>2, <2>4, OthersAreUntouched
    <3>2. EntriesOf(policy[d])' = EntriesOf(policy[d])
      BY <2>1 DEF EntriesOf
    <3>3. edit[d] # None =>
             \A ace \in edit[d].old : \A p : p = edit[d].entry.path => Grantable(ace, p)'
      <4>1. edit[d] # None => edit[d].old \subseteq Aces
        BY DEF TypeOK
      <4>2. edit[d] # None => \A ace \in edit[d].old : Grantable(ace, edit[d].entry.path)
        BY DEF AclInv, ListsOf
      <4>3. QED
        BY <1>2, <4>1, <4>2, GrantableStays
    <3>4. ListsOf(d)
      BY DEF AclInv
    <3>5. QED
      BY <3>1, <3>2, <3>3, <3>4 DEF Seen, ListsOf, Grantable
  <2>5. QED
    BY <2>2, <2>3, <2>4 DEF AclInv
<1>3. QED
  BY <1>1, <1>2 DEF Next, StepOf

LEMMA StepInvariant == IInv /\ [Next]_vars => IInv'
BY TypeStep, StepStep, ReportStep, IdsStep, AclStep DEF IInv

LEMMA Invariance == Spec => []IInv
BY InitInv, StepInvariant, PTL DEF Spec

\* Every variable keeps its type, and a started launcher has an id
\* (win_contain.rs:38-92, win_appcontainer.rs:42-46).
THEOREM TypeCorrect == Spec => []TypeOK
<1>1. IInv => TypeOK
  BY DEF IInv
<1>2. QED
  BY <1>1, Invariance, PTL

\* However many launchers share the host, and whichever calls fail, a command that
\* runs is in its open job and, if its policy needs one, in its registered
\* container (win_contain.rs:9-10, 219-228).
THEOREM CommandAlwaysConfined == Spec => []CommandConfined
<1>1. IInv => CommandConfined
  <2> SUFFICES ASSUME IInv, NEW l \in Launchers, child[l] = "running" \/ tree[l]
               PROVE  /\ injob[l] /\ job[l] = "open"
                      /\ needs_appcontainer(l) => boxed[l] /\ Sid(l) \in profiles
    BY DEF CommandConfined
  <2>1. StepsOf(l) /\ pc[l] \in Steps /\ child[l] # "none"
    BY DEF IInv, StepInv, StepsOf, TypeOK
  <2>2. pc[l] \in {"resumed", "waiting"} /\ injob[l] /\ job[l] = "open"
    BY <2>1 DEF StepsOf, Steps, Creating
  <2>3. needs_appcontainer(l) => boxed[l]
    BY <2>1, <2>2 DEF StepsOf, Creating
  <2>4. Live(l) /\ pc[l] # "invoked"
    BY <2>2 DEF Live
  <2>5. QED
    BY <2>2, <2>3, <2>4 DEF IInv, IdsInv
<1>2. QED
  BY <1>1, Invariance, PTL

\* No launcher, killed or ended, leaves a process that runs, and none that ends by
\* itself leaves a suspended one (win_contain.rs:4-5, 219-226).
THEOREM TreeAlwaysDies == Spec => []TreeDiesWithLauncher
<1>1. IInv => TreeDiesWithLauncher
  BY DEF IInv, StepInv, StepsOf, TreeDiesWithLauncher, Creating
<1>2. QED
  BY <1>1, Invariance, PTL

\* No interleaving of the launchers' unlocked edits lets a container whose id is
\* its launcher's alone reach a path beyond its policy (win_appcontainer.rs:5-8).
THEOREM OwnPathsAlways == Spec => []OwnPathsOnly
<1>1. IInv => OwnPathsOnly
  <2> SUFFICES ASSUME IInv, NEW l \in Launchers, child[l] = "running",
                      \A m \in Launchers \ {l} : pid[m] # pid[l],
                      NEW e \in Reach(l)
               PROVE  e \in EntriesOf(policy[l])
    BY DEF OwnPathsOnly
  <2>1. e \in Entries /\ e.path \in Paths /\ [sid |-> pid[l], right |-> e.right] \in acl[e.path]
    BY DEF Reach, Sid, Entries
  <2>2. Grantable([sid |-> pid[l], right |-> e.right], e.path)
    BY <2>1 DEF IInv, AclInv
  <2>3. [path |-> e.path, right |-> e.right] \in EntriesOf(policy[l])
    BY <2>2 DEF Grantable
  <2>4. QED
    BY <2>1, <2>3 DEF Entries
<1>2. QED
  BY <1>1, Invariance, PTL

\* What a report that can be read says of the job and the network is so, whichever
\* call fails and whoever is killed (win_contain.rs:69-91, 168-172).
THEOREM ReportAlwaysHonest == Spec => []ReportIsHonest
<1>1. IInv => ReportIsHonest
  BY DEF IInv, StepInv, StepsOf, ReportInv, ReportOf, ReportIsHonest, Creating
<1>2. QED
  BY <1>1, Invariance, PTL

-----------------------------------------------------------------------------
(***************************************************************************)
(* The refinement.  A step of one launcher is a step of its abstract       *)
(* counterpart and a stutter of all others'.                               *)
(***************************************************************************)
Silent(l) == UNCHANGED <<Required(l), Phase(l), InForce(l), Told(l)>>

LEMMA InitRefines == Init => \A l \in Launchers : Abstract(l)!Init
<1> SUFFICES ASSUME Init, NEW l \in Launchers PROVE Abstract(l)!Init
  OBVIOUS
<1>1. Phase(l) = "starting" /\ InForce(l) = {} /\ Told(l) = "nothing"
  BY DEF Init, Phase, InForce, Told
<1>2. QED
  BY <1>1 DEF Abstract!Init

LEMMA UnseenIsSilent ==
    ASSUME NEW l, UNCHANGED Seen(l)
    PROVE  Silent(l)
BY DEF Seen, Silent, Required, Phase, InForce, Told

\* A command that can be resumed has every control that its policy asks for.
LEMMA ControlsAreTaken ==
    ASSUME TypeOK, StepInv, NEW l \in Launchers, injob[l], pc[l] \notin Creating
    PROVE  Required(l) \subseteq InForce(l)
<1>1. boxed[l] <=> needs_appcontainer(l)
  BY DEF StepInv, StepsOf
<1>2. QED
  BY <1>1 DEF Required, InForce, needs_appcontainer

LEMMA OwnStepRefines ==
    ASSUME IInv, NEW d \in Launchers, StepOf(d)
    PROVE  Abstract(d)!Next \/ Silent(d)
<1>0. TypeOK /\ StepsOf(d) /\ ReportOf(d)
  BY DEF IInv, StepInv, ReportInv
<1>1. CASE \/ Start(d) \/ Prepare(d) \/ ReadAcl(d) \/ WriteAcl(d) \/ AclFails(d) \/ CreateJob(d)
           \/ Spawn(d) \/ CommandEnds(d) \/ Exit(d)
  <2>1. UNCHANGED <<policy, injob, boxed, report, file>>
    BY <1>1
       DEF Start, Prepare, ReadAcl, WriteAcl, AclFails, CreateJob, Spawn, CommandEnds, Exit
  <2>2. UNCHANGED <<Required(d), InForce(d), Told(d)>>
    BY <2>1 DEF Required, InForce, Told
  <2>3. Phase(d)' = Phase(d)
    <3>1. CASE Start(d) \/ Prepare(d) \/ CreateJob(d) \/ Exit(d)
      BY <1>0, <3>1 DEF Start, Prepare, CreateJob, Exit, Phase, TypeOK
    <3>2. CASE ReadAcl(d) \/ WriteAcl(d) \/ AclFails(d) \/ Spawn(d)
      BY <3>2 DEF ReadAcl, WriteAcl, AclFails, Spawn, Phase
    <3>3. CASE CommandEnds(d)
      BY <1>0, <3>3 DEF CommandEnds, Phase, TypeOK
    <3>4. QED
      BY <1>1, <3>1, <3>2, <3>3
  <2>4. QED
    BY <2>2, <2>3 DEF Silent
<1>2. CASE CreateProcess(d) \/ AssignToJob(d)
  <2>1. Phase(d) = "starting" /\ Phase(d)' = "starting"
    BY <1>0, <1>2 DEF CreateProcess, AssignToJob, Phase, StepsOf, Creating, TypeOK
  <2>2. UNCHANGED <<policy, file>> /\ file[d] = "absent"
    BY <1>0, <1>2 DEF CreateProcess, AssignToJob, ReportOf, Creating
  <2>3. UNCHANGED <<Required(d), Told(d)>>
    BY <2>2 DEF Required, Told
  <2>4. InForce(d) \subseteq InForce(d)'
    <3>1. CASE CreateProcess(d)
      <4>1. InForce(d) = {}
        BY <1>0, <3>1 DEF CreateProcess, InForce, StepsOf, Creating
      <4>2. QED
        BY <4>1
    <3>2. CASE AssignToJob(d)
      BY <1>0, <3>2 DEF AssignToJob, InForce, TypeOK
    <3>3. QED
      BY <1>2, <3>1, <3>2
  <2>5. QED
    BY <2>1, <2>3, <2>4 DEF Abstract!Next, Abstract!Secure
<1>3. CASE Resume(d)
  <2>1. UNCHANGED <<policy, injob, boxed, file>> /\ file[d] = "absent" /\ pc[d] = "assigned"
    BY <1>0, <1>3 DEF Resume, ReportOf, Creating
  <2>2. UNCHANGED <<Required(d), InForce(d), Told(d)>>
    BY <2>1 DEF Required, InForce, Told
  <2>3. Phase(d) = "starting" /\ child[d] = "suspended" /\ injob[d]
    BY <1>0, <2>1 DEF Phase, StepsOf
  <2>4. CASE child'[d] = "suspended"
    <3>1. Phase(d)' = "starting"
      BY <1>0, <1>3, <2>4 DEF Resume, Phase, TypeOK
    <3>2. QED
      BY <2>2, <2>3, <3>1 DEF Silent
  <2>5. CASE child'[d] = "running"
    <3>1. Phase(d)' = "running"
      BY <1>0, <1>3, <2>5 DEF Resume, Phase, TypeOK
    <3>2. Required(d) \subseteq InForce(d)
      BY <1>0, <2>1, <2>3, ControlsAreTaken DEF IInv, Creating
    <3>3. QED
      BY <2>2, <2>3, <3>1, <3>2 DEF Abstract!Next, Abstract!Run
  <2>6. QED
    BY <1>0, <1>3, <2>3, <2>4, <2>5 DEF Resume, TypeOK
<1>4. CASE WriteReport(d)
  <2>1. /\ UNCHANGED <<policy, injob, boxed, child, report>>
        /\ pc[d] = "resumed" /\ pc' = [pc EXCEPT ![d] = "waiting"] /\ file[d] = "absent"
        /\ child[d] \in {"suspended", "running", "ended"} /\ injob[d] /\ report[d].contained
    BY <1>0, <1>4 DEF WriteReport, ReportOf, StepsOf
  <2>2. UNCHANGED <<Required(d), InForce(d)>>
    BY <2>1 DEF Required, InForce
  <2>3. Phase(d)' = Phase(d) /\ Phase(d) # "stopped"
    BY <1>0, <2>1 DEF Phase, TypeOK
  <2>4. Told(d) = "nothing" /\ Told(d)' \in {"nothing", "contained"}
    BY <2>1 DEF Told
  <2>5. Required(d) \subseteq InForce(d)
    BY <1>0, <2>1, ControlsAreTaken DEF IInv, Creating
  <2>6. CASE Told(d)' = "nothing"
    BY <2>2, <2>3, <2>4, <2>6 DEF Silent
  <2>7. CASE Told(d)' = "contained"
    BY <2>2, <2>3, <2>4, <2>5, <2>7 DEF Abstract!Next, Abstract!Tell
  <2>8. QED
    BY <2>4, <2>6, <2>7
<1>5. CASE BadPolicy(d) \/ Refuse(d) \/ SpawnFails(d)
  <2>1. /\ UNCHANGED <<policy, injob, boxed>>
        /\ pc[d] \in {"invoked", "granting", "limited", "created"}
        /\ pc' \in {[pc EXCEPT ![d] = "exited"], [pc EXCEPT ![d] = "revoking"]}
    BY <1>5 DEF BadPolicy, Refuse, SpawnFails, Abandon, Drop
  <2>2. report'[d].contained = report[d].contained
    BY <1>0, <1>5, DescribedReport DEF BadPolicy, Refuse, SpawnFails, Abandon
  <2>3. UNCHANGED <<Required(d), InForce(d)>>
    BY <2>1 DEF Required, InForce
  <2>4. Phase(d) = "starting" /\ Phase(d)' = "stopped"
    BY <1>0, <2>1 DEF Phase, StepsOf, Creating, TypeOK
  <2>5. Told(d) = "nothing" /\ ~report[d].contained
    BY <1>0, <2>1 DEF Told, ReportOf, Creating
  <2>6. Told(d)' \in {"nothing", "uncontained"}
    BY <2>2, <2>5 DEF Told
  <2>7. QED
    BY <2>3, <2>4, <2>5, <2>6 DEF Abstract!Next, Abstract!Stop
<1>6. CASE Collect(d) \/ Kill(d)
  <2>1. /\ UNCHANGED <<policy, injob, boxed, report, file>>
        /\ pc' \in {[pc EXCEPT ![d] = "revoking"], [pc EXCEPT ![d] = "killed"]}
    BY <1>6 DEF Collect, Drop, Kill
  <2>2. UNCHANGED <<Required(d), InForce(d), Told(d)>>
    BY <2>1 DEF Required, InForce, Told
  <2>3. Phase(d)' = "stopped"
    BY <1>0, <2>1 DEF Phase, TypeOK
  <2>4. QED
    BY <2>2, <2>3 DEF Abstract!Next, Abstract!Stop
<1>7. QED
  BY <1>1, <1>2, <1>3, <1>4, <1>5, <1>6 DEF StepOf

LEMMA StepRefines ==
    ASSUME IInv, [Next]_vars, NEW d \in Launchers
    PROVE  Abstract(d)!Next \/ Silent(d)
<1>1. CASE UNCHANGED vars
  BY <1>1, UnseenIsSilent DEF vars, Seen
<1>2. ASSUME NEW l \in Launchers, StepOf(l), l # d PROVE Silent(d)
  BY <1>2, OthersAreUntouched, UnseenIsSilent DEF IInv
<1>3. CASE StepOf(d)
  BY <1>3, OwnStepRefines
<1>4. QED
  BY <1>1, <1>2, <1>3 DEF Next, StepOf

\* Every Windows launcher implements the launcher of Launcher.tla, strictly: the
\* one resume of its command comes after the container and the job, whatever the
\* other launchers do to the lists and profiles (win_contain.rs:38-92).
THEOREM WindowsCoreImplementsLauncher == Spec => ImplementsLauncher
<1>1. Init => BeginAsLaunchers
  BY InitRefines DEF BeginAsLaunchers
<1>2. IInv /\ [Next]_vars => [StepAsLaunchers]_vars
  BY StepRefines DEF Silent, StepAsLaunchers
<1>3. QED
  BY <1>1, <1>2, Invariance, PTL DEF Spec, ImplementsLauncher

=============================================================================
