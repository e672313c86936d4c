---------------------------- MODULE MacCoreProofs ----------------------------
(***************************************************************************)
(* The guarantees of MacCoreProperties, for any number of launchers, any   *)
(* process ids, paths and policies, and however many calls fail and        *)
(* launchers are killed.                                                   *)
(***************************************************************************)
EXTENDS MacCoreProperties, TLAPS

USE DEF launcherVars, commandVars, storeVars, Goto, CallFails

LEMMA ProfileIsTyped ==
    ASSUME TypeOK, NEW l \in Launchers, pid[l] \in Pids
    PROVE  build_profile(l) \in Profiles
<1>1. policy[l] \in [read : SUBSET Paths, write : SUBSET Paths, network : {"deny", "allow"}]
  BY PoliciesAssumption DEF TypeOK
<1>2. CaptureOf(l) \subseteq Pids
  BY DEF CaptureOf
<1>3. QED
  BY <1>1, <1>2 DEF build_profile, Profiles

\* The report file after fs::write, or its failure.
LEMMA WrittenFile ==
    ASSUME TypeOK, NEW l \in Launchers, Written(l)
    PROVE  /\ file' \in [Launchers -> {"absent", "part", "whole"}]
           /\ \A m \in Launchers \ {l} : file'[m] = file[m]
BY DEF Written, TypeOK

-----------------------------------------------------------------------------
LEMMA InitInv == Init => IInv
<1> SUFFICES ASSUME Init PROVE IInv
  OBVIOUS
<1> USE MacAssumption DEF Init
<1>1. TypeOK
  BY DEF TypeOK, Steps
<1>2. StepInv
  BY DEF StepInv, Steps
<1>3. OwnerInv /\ IdsInv
  BY DEF OwnerInv, IdsInv, Live
<1>4. FileInv /\ TextInv
  BY DEF FileInv, TextInv, Opened
<1>5. OutputIsItsOwn
  BY DEF OutputIsItsOwn
<1>6. QED
  BY <1>1, <1>2, <1>3, <1>4, <1>5 DEF IInv

LEMMA TypeStep == TypeOK /\ StepInv /\ FileInv /\ [Next]_vars => TypeOK'
<1> SUFFICES ASSUME TypeOK, StepInv, FileInv, [Next]_vars PROVE TypeOK'
  OBVIOUS
<1> USE MacAssumption DEF Steps
<1>1. CASE UNCHANGED vars
  BY <1>1 DEF TypeOK, vars
<1>2. ASSUME NEW l \in Launchers, Start(l) PROVE TypeOK'
  BY <1>2 DEF TypeOK, Start
<1>3. ASSUME NEW l \in Launchers, BadPolicy(l) PROVE TypeOK'
  BY <1>3 DEF TypeOK, BadPolicy, StepInv
<1>4. ASSUME NEW l \in Launchers, Refuse(l) PROVE TypeOK'
  BY <1>4, WrittenFile DEF TypeOK, Refuse, StepInv
<1>5. ASSUME NEW l \in Launchers, MakeCapture(l) PROVE TypeOK'
  <2>1. resolved' \in [Launchers -> BOOLEAN] /\ contained' \in [Launchers -> BOOLEAN]
    BY <1>5 DEF TypeOK, MakeCapture
  <2>2. capture' \subseteq Pids
    BY <1>5 DEF TypeOK, MakeCapture, StepInv
  <2>3. failures' \in 0 .. MaxFailures
    BY <1>5 DEF TypeOK, MakeCapture
  <2>4. pc' = [pc EXCEPT ![l] = "captured"]
    BY <1>5 DEF MakeCapture
  <2>5. /\ UNCHANGED <<available, policy, pid, file, commandVars, forwarded>>
        /\ UNCHANGED <<linked, text, kept, kills>>
    BY <1>5 DEF MakeCapture
  <2>6. QED
    BY <2>1, <2>2, <2>3, <2>4, <2>5 DEF TypeOK
<1>6. ASSUME NEW l \in Launchers, WriteReport(l) PROVE TypeOK'
  BY <1>6, WrittenFile DEF TypeOK, WriteReport
<1>7. ASSUME NEW l \in Launchers, OpenFiles(l) PROVE TypeOK'
  BY <1>7 DEF TypeOK, OpenFiles, StepInv
<1>8. ASSUME NEW l \in Launchers, OpenFails(l) PROVE TypeOK'
  BY <1>8 DEF TypeOK, OpenFails
<1>9. ASSUME NEW l \in Launchers, Launch(l) PROVE TypeOK'
  BY <1>9 DEF TypeOK, Launch, StepInv
<1>10. ASSUME NEW l \in Launchers, Confine(l) PROVE TypeOK'
  <2>1. pid[l] \in Pids /\ pc[l] \notin {"waited", "forwarded", "exited"}
    BY <1>10 DEF Confine, StepInv, TypeOK
  <2>2. profile' \in [Launchers -> Profiles \cup {None}]
    BY <1>10, <2>1, ProfileIsTyped DEF Confine, TypeOK
  <2>3. QED
    BY <1>10, <2>1, <2>2 DEF TypeOK, Confine
<1>11. ASSUME NEW l \in Launchers, Exec(l) PROVE TypeOK'
  BY <1>11 DEF TypeOK, Exec, StepInv
<1>12. ASSUME NEW l \in Launchers, Output(l) PROVE TypeOK'
  <2>1. text' \in [Launchers -> SUBSET Launchers]
    BY <1>12 DEF TypeOK, Output
  <2>2. QED
    BY <1>12, <2>1 DEF TypeOK, Output
<1>13. ASSUME NEW l \in Launchers, Spawn(l) PROVE TypeOK'
  BY <1>13 DEF TypeOK, Spawn
<1>14. ASSUME NEW l \in Launchers, CommandEnds(l) PROVE TypeOK'
  BY <1>14 DEF TypeOK, CommandEnds
<1>15. ASSUME NEW l \in Launchers, Collect(l) PROVE TypeOK'
  BY <1>15 DEF TypeOK, Collect
<1>16. ASSUME NEW l \in Launchers, Forward(l) PROVE TypeOK'
  BY <1>16 DEF TypeOK, Forward, StepInv
<1>17. ASSUME NEW l \in Launchers, Exit(l) PROVE TypeOK'
  <2>1. linked' \in [Pids -> Launchers \cup {None}]
    BY <1>17 DEF TypeOK, Exit
  <2>2. QED
    BY <1>17, <2>1 DEF TypeOK, Exit, StepInv
<1>18. ASSUME NEW l \in Launchers, Kill(l) PROVE TypeOK'
  BY <1>18 DEF TypeOK, Kill
<1>19. QED
  BY <1>1, <1>2, <1>3, <1>4, <1>5, <1>6, <1>7, <1>8, <1>9, <1>10, <1>11, <1>12, <1>13, <1>14,
     <1>15, <1>16, <1>17, <1>18 DEF Next

LEMMA StepStep == TypeOK /\ StepInv /\ [Next]_vars => StepInv'
<1> SUFFICES ASSUME TypeOK, StepInv, [Next]_vars PROVE StepInv'
  OBVIOUS
<1> USE MacAssumption
<1>1. CASE UNCHANGED vars
  BY <1>1 DEF vars, StepInv, Steps, build_profile, CaptureOf
<1>2. ASSUME NEW l \in Launchers, Start(l) PROVE StepInv'
  BY <1>2 DEF Start, TypeOK, StepInv, Steps, build_profile, CaptureOf
<1>3. ASSUME NEW l \in Launchers, BadPolicy(l) PROVE StepInv'
  BY <1>3 DEF BadPolicy, TypeOK, StepInv, Steps, build_profile, CaptureOf
<1>4. ASSUME NEW l \in Launchers, Refuse(l) PROVE StepInv'
  BY <1>4, WrittenFile DEF Refuse, TypeOK, StepInv, Steps, build_profile, CaptureOf
<1>5. ASSUME NEW l \in Launchers, MakeCapture(l) PROVE StepInv'
  BY <1>5 DEF MakeCapture, TypeOK, StepInv, Steps, build_profile, CaptureOf
<1>6. ASSUME NEW l \in Launchers, WriteReport(l) PROVE StepInv'
  BY <1>6, WrittenFile DEF WriteReport, TypeOK, StepInv, Steps, build_profile, CaptureOf
<1>7. ASSUME NEW l \in Launchers, OpenFiles(l) PROVE StepInv'
  BY <1>7 DEF OpenFiles, TypeOK, StepInv, Steps, build_profile, CaptureOf
<1>8. ASSUME NEW l \in Launchers, OpenFails(l) PROVE StepInv'
  BY <1>8 DEF OpenFails, TypeOK, StepInv, Steps, build_profile, CaptureOf
<1>9. ASSUME NEW l \in Launchers, Launch(l) PROVE StepInv'
  BY <1>9 DEF Launch, TypeOK, StepInv, Steps, build_profile, CaptureOf
<1>10. ASSUME NEW l \in Launchers, Confine(l) PROVE StepInv'
  <2>1. /\ profile' = [profile EXCEPT ![l] = build_profile(l)]
        /\ child' = [child EXCEPT ![l] = "confined"]
    BY <1>10 DEF Confine
  <2>2. \A m \in Launchers : build_profile(m)' = build_profile(m)
    BY <1>10 DEF Confine, build_profile, CaptureOf
  <2>3. UNCHANGED <<pc, pid, contained, resolved, file, tree, printed, failures>>
    BY <1>10 DEF Confine
  <2>4. pc[l] = "waiting" /\ child[l] = "starting"
    BY <1>10 DEF Confine, TypeOK, StepInv, Steps
  <2>5. QED
    BY <2>1, <2>2, <2>3, <2>4 DEF TypeOK, StepInv, Steps
<1>11. ASSUME NEW l \in Launchers, Exec(l) PROVE StepInv'
  BY <1>11 DEF Exec, TypeOK, StepInv, Steps, build_profile, CaptureOf
<1>12. ASSUME NEW l \in Launchers, Output(l) PROVE StepInv'
  BY <1>12 DEF Output, TypeOK, StepInv, Steps, build_profile, CaptureOf
<1>13. ASSUME NEW l \in Launchers, Spawn(l) PROVE StepInv'
  BY <1>13 DEF Spawn, TypeOK, StepInv, Steps, build_profile, CaptureOf
<1>14. ASSUME NEW l \in Launchers, CommandEnds(l) PROVE StepInv'
  BY <1>14 DEF CommandEnds, TypeOK, StepInv, Steps, build_profile, CaptureOf
<1>15. ASSUME NEW l \in Launchers, Collect(l) PROVE StepInv'
  BY <1>15 DEF Collect, TypeOK, StepInv, Steps, build_profile, CaptureOf
<1>16. ASSUME NEW l \in Launchers, Forward(l) PROVE StepInv'
  BY <1>16 DEF Forward, TypeOK, StepInv, Steps, build_profile, CaptureOf
<1>17. ASSUME NEW l \in Launchers, Exit(l) PROVE StepInv'
  BY <1>17 DEF Exit, TypeOK, StepInv, Steps, build_profile, CaptureOf
<1>18. ASSUME NEW l \in Launchers, Kill(l) PROVE StepInv'
  <2>1. /\ child' \in [Launchers -> {"none", "starting", "confined", "running", "ended", "failed"}]
        /\ child[l] = "none" => child'[l] = "none"
        /\ child[l] \in {"starting", "confined", "failed"} => child'[l] = "failed"
        /\ child[l] \in {"running", "ended"} => child'[l] = "ended"
        /\ \A m \in Launchers : m # l => child'[m] = child[m]
    BY <1>18 DEF Kill, TypeOK
  <2>2. \A m \in Launchers : build_profile(m)' = build_profile(m)
    BY <1>18 DEF Kill, build_profile, CaptureOf
  <2>3. /\ pc' = [pc EXCEPT ![l] = "killed"]
        /\ tree' = [tree EXCEPT ![l] = @ \ {"child"}]
        /\ UNCHANGED <<pid, contained, resolved, file, profile, printed, failures>>
        /\ Live(l)
    BY <1>18 DEF Kill
  <2>4. QED
    BY <2>1, <2>2, <2>3 DEF TypeOK, StepInv, Steps, Live
<1>19. QED
  BY <1>1, <1>2, <1>3, <1>4, <1>5, <1>6, <1>7, <1>8, <1>9, <1>10, <1>11, <1>12, <1>13, <1>14,
     <1>15, <1>16, <1>17, <1>18
     DEF Next

LEMMA OwnerStep == TypeOK /\ StepInv /\ OwnerInv /\ [Next]_vars => OwnerInv'
<1> SUFFICES ASSUME TypeOK, StepInv, OwnerInv, [Next]_vars PROVE OwnerInv'
  OBVIOUS
<1> USE MacAssumption
<1>1. CASE UNCHANGED vars
  BY <1>1 DEF vars, OwnerInv, StepInv, Live
<1>2. ASSUME NEW l \in Launchers, Start(l) PROVE OwnerInv'
  BY <1>2 DEF Start, TypeOK, OwnerInv, StepInv, Live
<1>3. ASSUME NEW l \in Launchers, BadPolicy(l) PROVE OwnerInv'
  BY <1>3 DEF BadPolicy, TypeOK, OwnerInv, StepInv, Live
<1>4. ASSUME NEW l \in Launchers, Refuse(l) PROVE OwnerInv'
  BY <1>4, WrittenFile DEF Refuse, TypeOK, OwnerInv, StepInv, Live
<1>5. ASSUME NEW l \in Launchers, MakeCapture(l) PROVE OwnerInv'
  BY <1>5 DEF MakeCapture, TypeOK, OwnerInv, StepInv, Live
<1>6. ASSUME NEW l \in Launchers, WriteReport(l) PROVE OwnerInv'
  BY <1>6, WrittenFile DEF WriteReport, TypeOK, OwnerInv, StepInv, Live
<1>7. ASSUME NEW l \in Launchers, OpenFiles(l) PROVE OwnerInv'
  BY <1>7 DEF OpenFiles, TypeOK, OwnerInv, StepInv, Live
<1>8. ASSUME NEW l \in Launchers, OpenFails(l) PROVE OwnerInv'
  BY <1>8 DEF OpenFails, TypeOK, OwnerInv, StepInv, Live
<1>9. ASSUME NEW l \in Launchers, Launch(l) PROVE OwnerInv'
  BY <1>9 DEF Launch, TypeOK, OwnerInv, StepInv, Live
<1>10. ASSUME NEW l \in Launchers, Confine(l) PROVE OwnerInv'
  BY <1>10 DEF Confine, TypeOK, OwnerInv, StepInv, Live
<1>11. ASSUME NEW l \in Launchers, Exec(l) PROVE OwnerInv'
  BY <1>11 DEF Exec, TypeOK, OwnerInv, StepInv, Live
<1>12. ASSUME NEW l \in Launchers, Output(l) PROVE OwnerInv'
  BY <1>12 DEF Output, TypeOK, OwnerInv, StepInv, Live
<1>13. ASSUME NEW l \in Launchers, Spawn(l) PROVE OwnerInv'
  BY <1>13 DEF Spawn, TypeOK, OwnerInv, StepInv, Live
<1>14. ASSUME NEW l \in Launchers, CommandEnds(l) PROVE OwnerInv'
  BY <1>14 DEF CommandEnds, TypeOK, OwnerInv, StepInv, Live
<1>15. ASSUME NEW l \in Launchers, Collect(l) PROVE OwnerInv'
  BY <1>15 DEF Collect, TypeOK, OwnerInv, StepInv, Live
<1>16. ASSUME NEW l \in Launchers, Forward(l) PROVE OwnerInv'
  BY <1>16 DEF Forward, TypeOK, OwnerInv, StepInv, Live
<1>17. ASSUME NEW l \in Launchers, Exit(l) PROVE OwnerInv'
  BY <1>17 DEF Exit, TypeOK, OwnerInv, StepInv, Live
<1>18. ASSUME NEW l \in Launchers, Kill(l) PROVE OwnerInv'
  BY <1>18 DEF Kill, TypeOK, OwnerInv, StepInv, Live
<1>19. QED
  BY <1>1, <1>2, <1>3, <1>4, <1>5, <1>6, <1>7, <1>8, <1>9, <1>10, <1>11, <1>12, <1>13, <1>14,
     <1>15, <1>16, <1>17, <1>18
     DEF Next

LEMMA IdsStep == TypeOK /\ StepInv /\ IdsInv /\ [Next]_vars => IdsInv'
<1> SUFFICES ASSUME TypeOK, StepInv, IdsInv, [Next]_vars PROVE IdsInv'
  OBVIOUS
<1> USE MacAssumption
<1>1. CASE UNCHANGED vars
  BY <1>1 DEF vars, IdsInv, StepInv, Live
<1>2. ASSUME NEW l \in Launchers, Start(l) PROVE IdsInv'
  <2>1. \A m \in Launchers : Live(m) \/ "child" \in tree[m] => pid[m] # pid'[l]
    BY <1>2 DEF Start, Taken, TypeOK
  <2>2. QED
    BY <1>2, <2>1 DEF Start, TypeOK, IdsInv, StepInv, Live
<1>3. ASSUME NEW l \in Launchers, BadPolicy(l) PROVE IdsInv'
  BY <1>3 DEF BadPolicy, TypeOK, IdsInv, StepInv, Live
<1>4. ASSUME NEW l \in Launchers, Refuse(l) PROVE IdsInv'
  BY <1>4, WrittenFile DEF Refuse, TypeOK, IdsInv, StepInv, Live
<1>5. ASSUME NEW l \in Launchers, MakeCapture(l) PROVE IdsInv'
  BY <1>5 DEF MakeCapture, TypeOK, IdsInv, StepInv, Live
<1>6. ASSUME NEW l \in Launchers, WriteReport(l) PROVE IdsInv'
  BY <1>6, WrittenFile DEF WriteReport, TypeOK, IdsInv, StepInv, Live
<1>7. ASSUME NEW l \in Launchers, OpenFiles(l) PROVE IdsInv'
  BY <1>7 DEF OpenFiles, TypeOK, IdsInv, StepInv, Live
<1>8. ASSUME NEW l \in Launchers, OpenFails(l) PROVE IdsInv'
  BY <1>8 DEF OpenFails, TypeOK, IdsInv, StepInv, Live
<1>9. ASSUME NEW l \in Launchers, Launch(l) PROVE IdsInv'
  BY <1>9 DEF Launch, TypeOK, IdsInv, StepInv, Live
<1>10. ASSUME NEW l \in Launchers, Confine(l) PROVE IdsInv'
  BY <1>10 DEF Confine, TypeOK, IdsInv, StepInv, Live
<1>11. ASSUME NEW l \in Launchers, Exec(l) PROVE IdsInv'
  BY <1>11 DEF Exec, TypeOK, IdsInv, StepInv, Live
<1>12. ASSUME NEW l \in Launchers, Output(l) PROVE IdsInv'
  BY <1>12 DEF Output, TypeOK, IdsInv, StepInv, Live
<1>13. ASSUME NEW l \in Launchers, Spawn(l) PROVE IdsInv'
  BY <1>13 DEF Spawn, TypeOK, IdsInv, StepInv, Live
<1>14. ASSUME NEW l \in Launchers, CommandEnds(l) PROVE IdsInv'
  BY <1>14 DEF CommandEnds, TypeOK, IdsInv, StepInv, Live
<1>15. ASSUME NEW l \in Launchers, Collect(l) PROVE IdsInv'
  BY <1>15 DEF Collect, TypeOK, IdsInv, StepInv, Live
<1>16. ASSUME NEW l \in Launchers, Forward(l) PROVE IdsInv'
  BY <1>16 DEF Forward, TypeOK, IdsInv, StepInv, Live
<1>17. ASSUME NEW l \in Launchers, Exit(l) PROVE IdsInv'
  BY <1>17 DEF Exit, TypeOK, IdsInv, StepInv, Live
<1>18. ASSUME NEW l \in Launchers, Kill(l) PROVE IdsInv'
  BY <1>18 DEF Kill, TypeOK, IdsInv, StepInv, Live
<1>19. QED
  BY <1>1, <1>2, <1>3, <1>4, <1>5, <1>6, <1>7, <1>8, <1>9, <1>10, <1>11, <1>12, <1>13, <1>14,
     <1>15, <1>16, <1>17, <1>18
     DEF Next

LEMMA FileStep == TypeOK /\ StepInv /\ OwnerInv /\ IdsInv /\ FileInv /\ [Next]_vars => FileInv'
<1> SUFFICES ASSUME TypeOK, StepInv, OwnerInv, IdsInv, FileInv, [Next]_vars PROVE FileInv'
  OBVIOUS
<1> USE MacAssumption
<1>1. CASE UNCHANGED vars
  BY <1>1 DEF vars, FileInv, Opened, IdsInv, StepInv, Live
<1>2. ASSUME NEW l \in Launchers, Start(l) PROVE FileInv'
  BY <1>2 DEF Start, TypeOK, FileInv, Opened, IdsInv, StepInv, Live
<1>3. ASSUME NEW l \in Launchers, BadPolicy(l) PROVE FileInv'
  BY <1>3 DEF BadPolicy, TypeOK, FileInv, Opened, IdsInv, StepInv, Live
<1>4. ASSUME NEW l \in Launchers, Refuse(l) PROVE FileInv'
  BY <1>4, WrittenFile DEF Refuse, TypeOK, FileInv, Opened, IdsInv, StepInv, Live
<1>5. ASSUME NEW l \in Launchers, MakeCapture(l) PROVE FileInv'
  BY <1>5 DEF MakeCapture, TypeOK, FileInv, Opened, IdsInv, StepInv, Live
<1>6. ASSUME NEW l \in Launchers, WriteReport(l) PROVE FileInv'
  BY <1>6, WrittenFile DEF WriteReport, TypeOK, FileInv, Opened, IdsInv, StepInv, Live
<1>7. ASSUME NEW l \in Launchers, OpenFiles(l) PROVE FileInv'
  BY <1>7 DEF OpenFiles, TypeOK, FileInv, Opened, IdsInv, StepInv, Live
<1>8. ASSUME NEW l \in Launchers, OpenFails(l) PROVE FileInv'
  BY <1>8 DEF OpenFails, TypeOK, FileInv, Opened, IdsInv, StepInv, Live
<1>9. ASSUME NEW l \in Launchers, Launch(l) PROVE FileInv'
  <2>1. /\ pc[l] = "opened"
        /\ \/ pc' = [pc EXCEPT ![l] = "waiting"] /\ child' = [child EXCEPT ![l] = "starting"]
           \/ pc' = [pc EXCEPT ![l] = "waited"] /\ child' = child
        /\ UNCHANGED <<pid, handle, linked, kept>>
    BY <1>9 DEF Launch
  <2>2. QED
    BY <2>1 DEF TypeOK, FileInv, Opened, Live
<1>10. ASSUME NEW l \in Launchers, Confine(l) PROVE FileInv'
  BY <1>10 DEF Confine, TypeOK, FileInv, Opened, IdsInv, StepInv, Live
<1>11. ASSUME NEW l \in Launchers, Exec(l) PROVE FileInv'
  BY <1>11 DEF Exec, TypeOK, FileInv, Opened, IdsInv, StepInv, Live
<1>12. ASSUME NEW l \in Launchers, Output(l) PROVE FileInv'
  BY <1>12 DEF Output, TypeOK, FileInv, Opened, IdsInv, StepInv, Live
<1>13. ASSUME NEW l \in Launchers, Spawn(l) PROVE FileInv'
  BY <1>13 DEF Spawn, TypeOK, FileInv, Opened, IdsInv, StepInv, Live
<1>14. ASSUME NEW l \in Launchers, CommandEnds(l) PROVE FileInv'
  BY <1>14 DEF CommandEnds, TypeOK, FileInv, Opened, IdsInv, StepInv, Live
<1>15. ASSUME NEW l \in Launchers, Collect(l) PROVE FileInv'
  BY <1>15 DEF Collect, TypeOK, FileInv, Opened, IdsInv, StepInv, Live
<1>16. ASSUME NEW l \in Launchers, Forward(l) PROVE FileInv'
  BY <1>16 DEF Forward, TypeOK, FileInv, Opened, IdsInv, StepInv, Live
<1>17. ASSUME NEW l \in Launchers, Exit(l) PROVE FileInv'
  BY <1>17 DEF Exit, TypeOK, FileInv, Opened, IdsInv, StepInv, Live
<1>18. ASSUME NEW l \in Launchers, Kill(l) PROVE FileInv'
  BY <1>18 DEF Kill, TypeOK, FileInv, Opened, IdsInv, StepInv, Live
<1>19. QED
  BY <1>1, <1>2, <1>3, <1>4, <1>5, <1>6, <1>7, <1>8, <1>9, <1>10, <1>11, <1>12, <1>13, <1>14,
     <1>15, <1>16, <1>17, <1>18
     DEF Next

LEMMA TextStep == TypeOK /\ StepInv /\ IdsInv /\ FileInv /\ TextInv /\ [Next]_vars => TextInv'
<1> SUFFICES ASSUME TypeOK, StepInv, IdsInv, FileInv, TextInv, [Next]_vars PROVE TextInv'
  OBVIOUS
<1> USE MacAssumption
<1>1. CASE UNCHANGED vars
  BY <1>1 DEF vars, TextInv, FileInv, Opened, IdsInv, StepInv, Live
<1>2. ASSUME NEW l \in Launchers, Start(l) PROVE TextInv'
  BY <1>2 DEF Start, TypeOK, TextInv, FileInv, Opened, IdsInv, StepInv, Live
<1>3. ASSUME NEW l \in Launchers, BadPolicy(l) PROVE TextInv'
  BY <1>3 DEF BadPolicy, TypeOK, TextInv, FileInv, Opened, IdsInv, StepInv, Live
<1>4. ASSUME NEW l \in Launchers, Refuse(l) PROVE TextInv'
  BY <1>4, WrittenFile DEF Refuse, TypeOK, TextInv, FileInv, Opened, IdsInv, StepInv, Live
<1>5. ASSUME NEW l \in Launchers, MakeCapture(l) PROVE TextInv'
  BY <1>5 DEF MakeCapture, TypeOK, TextInv, FileInv, Opened, IdsInv, StepInv, Live
<1>6. ASSUME NEW l \in Launchers, WriteReport(l) PROVE TextInv'
  BY <1>6, WrittenFile DEF WriteReport, TypeOK, TextInv, FileInv, Opened, IdsInv, StepInv, Live
<1>7. ASSUME NEW l \in Launchers, OpenFiles(l) PROVE TextInv'
  BY <1>7 DEF OpenFiles, TypeOK, TextInv, FileInv, Opened, IdsInv, StepInv, Live
<1>8. ASSUME NEW l \in Launchers, OpenFails(l) PROVE TextInv'
  BY <1>8 DEF OpenFails, TypeOK, TextInv, FileInv, Opened, IdsInv, StepInv, Live
<1>9. ASSUME NEW l \in Launchers, Launch(l) PROVE TextInv'
  BY <1>9 DEF Launch, TypeOK, TextInv, FileInv, Opened, IdsInv, StepInv, Live
<1>10. ASSUME NEW l \in Launchers, Confine(l) PROVE TextInv'
  BY <1>10 DEF Confine, TypeOK, TextInv, FileInv, Opened, IdsInv, StepInv, Live
<1>11. ASSUME NEW l \in Launchers, Exec(l) PROVE TextInv'
  BY <1>11 DEF Exec, TypeOK, TextInv, FileInv, Opened, IdsInv, StepInv, Live
<1>12. ASSUME NEW l \in Launchers, Output(l) PROVE TextInv'
  <2>1. /\ UNCHANGED <<pc, pid, child, profile, tree, handle, forwarded, linked, failures>>
        /\ printed' = [printed EXCEPT ![l] = @ \/ child[l] = "running"]
        /\ child[l] = "running" \/ tree[l] # {}
        /\ handle[l] \in Launchers
    BY <1>12 DEF Output, TypeOK, StepInv, FileInv
  \* An old process of the id that still prints has left its session.
  <2>2. \A d \in Launchers :
           pc[d] \in Opened /\ d # l /\ handle[d] = handle[l] => "escaped" \in tree[l]
    BY <2>1 DEF TypeOK, IdsInv, FileInv, StepInv, Opened, Live
  <2>3. /\ \A f \in Launchers : text[f] \subseteq text'[f]
        /\ \A f \in Launchers : f # handle[l] => text'[f] = text[f]
        /\ text'[handle[l]] \subseteq text[handle[l]] \cup {l}
    BY <1>12, <2>1 DEF Output, TypeOK
  \* Nothing is lost as long as no call fails.
  <2>4. child[l] = "running" /\ failures = 0 => l \in text'[handle[l]]
    <3>1. SUFFICES ASSUME child[l] = "running", failures = 0 PROVE l \in text'[handle[l]]
      OBVIOUS
    <3>2. contained[l] /\ profile[l] = build_profile(l)
      BY <3>1 DEF StepInv, TypeOK, Steps
    <3>3. profile[l].capture = {pid[l]}
      BY <3>1, <3>2 DEF StepInv, build_profile, CaptureOf
    <3>4. QED
      BY <1>12, <2>1, <3>1, <3>3 DEF Output, TypeOK
  <2>5. \A f \in Launchers : \A m \in text'[f] : handle'[m] = f
    BY <2>1, <2>3 DEF TextInv
  <2>6. ASSUME NEW d \in Launchers, pc'[d] \in Opened
        PROVE  \A m \in text'[handle'[d]] \ {d} : "escaped" \in tree'[m]
    BY <2>1, <2>2, <2>3, <2>6 DEF TextInv, FileInv, TypeOK
  <2>7. ASSUME NEW d \in Launchers, pc'[d] \in Opened, printed'[d], failures' = 0
        PROVE  /\ d \in text'[handle'[d]]
               /\ pc'[d] = "forwarded" => d \in forwarded'[d]
    <3>1. handle[d] \in Launchers
      BY <2>1, <2>7 DEF FileInv, TypeOK
    <3>2. CASE printed[d]
      BY <2>1, <2>3, <2>7, <3>1, <3>2 DEF TextInv
    <3>3. CASE ~printed[d]
      BY <2>1, <2>4, <2>7, <3>3 DEF StepInv, TypeOK
    <3>4. QED
      BY <3>2, <3>3
  <2>8. QED
    BY <2>5, <2>6, <2>7 DEF TextInv
<1>13. ASSUME NEW l \in Launchers, Spawn(l) PROVE TextInv'
  BY <1>13 DEF Spawn, TypeOK, TextInv, FileInv, Opened, IdsInv, StepInv, Live
<1>14. ASSUME NEW l \in Launchers, CommandEnds(l) PROVE TextInv'
  BY <1>14 DEF CommandEnds, TypeOK, TextInv, FileInv, Opened, IdsInv, StepInv, Live
<1>15. ASSUME NEW l \in Launchers, Collect(l) PROVE TextInv'
  BY <1>15 DEF Collect, TypeOK, TextInv, FileInv, Opened, IdsInv, StepInv, Live
<1>16. ASSUME NEW l \in Launchers, Forward(l) PROVE TextInv'
  BY <1>16 DEF Forward, TypeOK, TextInv, FileInv, Opened, IdsInv, StepInv, Live
<1>17. ASSUME NEW l \in Launchers, Exit(l) PROVE TextInv'
  BY <1>17 DEF Exit, TypeOK, TextInv, FileInv, Opened, IdsInv, StepInv, Live
<1>18. ASSUME NEW l \in Launchers, Kill(l) PROVE TextInv'
  BY <1>18 DEF Kill, TypeOK, TextInv, FileInv, Opened, IdsInv, StepInv, Live
<1>19. QED
  BY <1>1, <1>2, <1>3, <1>4, <1>5, <1>6, <1>7, <1>8, <1>9, <1>10, <1>11, <1>12, <1>13, <1>14,
     <1>15, <1>16, <1>17, <1>18
     DEF Next

LEMMA OutputStep ==
    /\ TypeOK /\ StepInv /\ OwnerInv /\ IdsInv /\ FileInv /\ TextInv
    /\ OutputIsItsOwn /\ [Next]_vars
    => OutputIsItsOwn'
<1> SUFFICES ASSUME TypeOK, StepInv, OwnerInv, IdsInv, FileInv, TextInv,
                    OutputIsItsOwn, [Next]_vars
             PROVE  OutputIsItsOwn'
  OBVIOUS
<1> USE MacAssumption
<1>1. CASE UNCHANGED vars
  BY <1>1 DEF vars, OutputIsItsOwn, OwnerInv, TextInv, FileInv, Opened, IdsInv, StepInv, Live
<1>2. ASSUME NEW l \in Launchers, Start(l) PROVE OutputIsItsOwn'
  BY <1>2
     DEF Start, TypeOK, OutputIsItsOwn, OwnerInv, TextInv, FileInv, Opened, IdsInv, StepInv,
         Live
<1>3. ASSUME NEW l \in Launchers, BadPolicy(l) PROVE OutputIsItsOwn'
  BY <1>3
     DEF BadPolicy, TypeOK, OutputIsItsOwn, OwnerInv, TextInv, FileInv, Opened, IdsInv, StepInv,
         Live
<1>4. ASSUME NEW l \in Launchers, Refuse(l) PROVE OutputIsItsOwn'
  BY <1>4, WrittenFile
     DEF Refuse, TypeOK, OutputIsItsOwn, OwnerInv, TextInv, FileInv, Opened, IdsInv, StepInv,
         Live
<1>5. ASSUME NEW l \in Launchers, MakeCapture(l) PROVE OutputIsItsOwn'
  BY <1>5
     DEF MakeCapture, TypeOK, OutputIsItsOwn, OwnerInv, TextInv, FileInv, Opened, IdsInv,
         StepInv, Live
<1>6. ASSUME NEW l \in Launchers, WriteReport(l) PROVE OutputIsItsOwn'
  BY <1>6, WrittenFile
     DEF WriteReport, TypeOK, OutputIsItsOwn, OwnerInv, TextInv, FileInv, Opened, IdsInv,
         StepInv, Live
<1>7. ASSUME NEW l \in Launchers, OpenFiles(l) PROVE OutputIsItsOwn'
  BY <1>7
     DEF OpenFiles, TypeOK, OutputIsItsOwn, OwnerInv, TextInv, FileInv, Opened, IdsInv, StepInv,
         Live
<1>8. ASSUME NEW l \in Launchers, OpenFails(l) PROVE OutputIsItsOwn'
  BY <1>8
     DEF OpenFails, TypeOK, OutputIsItsOwn, OwnerInv, TextInv, FileInv, Opened, IdsInv, StepInv,
         Live
<1>9. ASSUME NEW l \in Launchers, Launch(l) PROVE OutputIsItsOwn'
  BY <1>9
     DEF Launch, TypeOK, OutputIsItsOwn, OwnerInv, TextInv, FileInv, Opened, IdsInv, StepInv,
         Live
<1>10. ASSUME NEW l \in Launchers, Confine(l) PROVE OutputIsItsOwn'
  BY <1>10
     DEF Confine, TypeOK, OutputIsItsOwn, OwnerInv, TextInv, FileInv, Opened, IdsInv, StepInv,
         Live
<1>11. ASSUME NEW l \in Launchers, Exec(l) PROVE OutputIsItsOwn'
  BY <1>11
     DEF Exec, TypeOK, OutputIsItsOwn, OwnerInv, TextInv, FileInv, Opened, IdsInv, StepInv, Live
<1>12. ASSUME NEW l \in Launchers, Output(l) PROVE OutputIsItsOwn'
  BY <1>12
     DEF Output, TypeOK, OutputIsItsOwn, OwnerInv, TextInv, FileInv, Opened, IdsInv, StepInv,
         Live
<1>13. ASSUME NEW l \in Launchers, Spawn(l) PROVE OutputIsItsOwn'
  BY <1>13
     DEF Spawn, TypeOK, OutputIsItsOwn, OwnerInv, TextInv, FileInv, Opened, IdsInv, StepInv,
         Live
<1>14. ASSUME NEW l \in Launchers, CommandEnds(l) PROVE OutputIsItsOwn'
  BY <1>14
     DEF CommandEnds, TypeOK, OutputIsItsOwn, OwnerInv, TextInv, FileInv, Opened, IdsInv,
         StepInv, Live
<1>15. ASSUME NEW l \in Launchers, Collect(l) PROVE OutputIsItsOwn'
  BY <1>15
     DEF Collect, TypeOK, OutputIsItsOwn, OwnerInv, TextInv, FileInv, Opened, IdsInv, StepInv,
         Live
<1>16. ASSUME NEW l \in Launchers, Forward(l) PROVE OutputIsItsOwn'
  BY <1>16
     DEF Forward, TypeOK, OutputIsItsOwn, OwnerInv, TextInv, FileInv, Opened, IdsInv, StepInv,
         Live
<1>17. ASSUME NEW l \in Launchers, Exit(l) PROVE OutputIsItsOwn'
  BY <1>17
     DEF Exit, TypeOK, OutputIsItsOwn, OwnerInv, TextInv, FileInv, Opened, IdsInv, StepInv, Live
<1>18. ASSUME NEW l \in Launchers, Kill(l) PROVE OutputIsItsOwn'
  BY <1>18
     DEF Kill, TypeOK, OutputIsItsOwn, OwnerInv, TextInv, FileInv, Opened, IdsInv, StepInv, Live
<1>19. QED
  BY <1>1, <1>2, <1>3, <1>4, <1>5, <1>6, <1>7, <1>8, <1>9, <1>10, <1>11, <1>12, <1>13, <1>14,
     <1>15, <1>16, <1>17, <1>18
     DEF Next

LEMMA StepInvariant == IInv /\ [Next]_vars => IInv'
BY TypeStep, StepStep, OwnerStep, IdsStep, FileStep, TextStep, OutputStep DEF IInv

LEMMA Invariance == Spec => []IInv
BY InitInv, StepInvariant, PTL DEF Spec

\* Every variable keeps its type, and a launcher that reads the output has
\* waited for sandbox-exec to end (macos_sandbox.rs:57-133).
THEOREM TypeCorrect == Spec => []TypeOK
<1>1. IInv => TypeOK
  BY DEF IInv
<1>2. QED
  BY <1>1, Invariance, PTL

\* Of any launchers, under any process ids, each forwards what its own command
\* has printed; only what has left the session of an earlier one of its id can
\* add to it (macos_sandbox.rs:77-79, 94-131).
THEOREM OutputIsAlwaysItsOwn == Spec => []OutputIsItsOwn
<1>1. IInv => OutputIsItsOwn
  BY DEF IInv
<1>2. QED
  BY <1>1, Invariance, PTL

\* A launcher that ends by itself leaves no capture directory unless its removal
\* fails (macos_sandbox.rs:99-103, 131).
THEOREM CaptureIsAlwaysRemoved == Spec => []CaptureIsRemoved
<1>1. IInv => CaptureIsRemoved
  BY DEF IInv, OwnerInv, CaptureIsRemoved
<1>2. QED
  BY <1>1, Invariance, PTL

-----------------------------------------------------------------------------
(***************************************************************************)
(* The refinement.  A step of one launcher is a step of its abstract       *)
(* counterpart and a stutter of all others'.                               *)
(***************************************************************************)
Silent(l) == UNCHANGED <<Required(l), Phase(l), InForce(l), Told(l)>>

LEMMA InitRefines == Init => \A l \in Launchers : Abstract(l)!Init
<1> SUFFICES ASSUME Init, NEW l \in Launchers PROVE Abstract(l)!Init
  OBVIOUS
<1>1. Phase(l) = "starting" /\ InForce(l) = {} /\ Told(l) = "nothing"
  BY DEF Init, Phase, InForce, Told
<1>2. QED
  BY <1>1 DEF Abstract!Init

\* What the abstract launcher is made of.
Seen(l) == <<policy[l], pid[l], pc[l], child[l], profile[l], file[l], contained[l]>>

LEMMA UnseenIsSilent ==
    ASSUME NEW l, UNCHANGED Seen(l)
    PROVE  Silent(l)
BY DEF Seen, Silent, Required, Phase, InForce, Told, Restricts

LEMMA OthersAreSilent ==
    ASSUME TypeOK, NEW l \in Launchers, NEW d \in Launchers, d # l,
           \/ Start(l) \/ BadPolicy(l) \/ Refuse(l) \/ MakeCapture(l) \/ WriteReport(l)
           \/ OpenFiles(l) \/ OpenFails(l) \/ Launch(l) \/ Confine(l) \/ Exec(l) \/ Output(l)
           \/ Spawn(l) \/ CommandEnds(l) \/ Collect(l) \/ Forward(l) \/ Exit(l) \/ Kill(l)
    PROVE  Silent(d)
<1> SUFFICES UNCHANGED Seen(d)
  BY UnseenIsSilent
<1> USE DEF TypeOK, Seen
<1>1. CASE Start(l) \/ BadPolicy(l) \/ MakeCapture(l) \/ OpenFiles(l) \/ OpenFails(l) \/ Launch(l)
  BY <1>1 DEF Start, BadPolicy, MakeCapture, OpenFiles, OpenFails, Launch
<1>2. CASE Refuse(l) \/ WriteReport(l)
  BY <1>2, WrittenFile DEF Refuse, WriteReport
<1>3. CASE Confine(l) \/ Exec(l) \/ Output(l) \/ Spawn(l) \/ CommandEnds(l)
  BY <1>3 DEF Confine, Exec, Output, Spawn, CommandEnds
<1>4. CASE Collect(l) \/ Forward(l) \/ Exit(l) \/ Kill(l)
  BY <1>4 DEF Collect, Forward, Exit, Kill
<1>5. QED
  BY <1>1, <1>2, <1>3, <1>4

\* A profile that was built for a launcher has all that its policy asks for.
LEMMA ProfileEnforces ==
    ASSUME TypeOK, NEW l \in Launchers, profile[l] = build_profile(l), profile[l] # None
    PROVE  Required(l) \subseteq InForce(l)
<1>1. Restricts(profile[l], l)
  BY DEF Restricts, build_profile, CaptureOf
<1>2. policy[l].network = "deny" => ~profile[l].network
  <2>1. profile[l].network = (policy[l].network = "allow")
    BY DEF build_profile
  <2>2. QED
    BY <2>1
<1>3. QED
  BY <1>1, <1>2 DEF Required, InForce

LEMMA StepRefines ==
    ASSUME IInv, [Next]_vars, NEW d \in Launchers
    PROVE  Abstract(d)!Next \/ Silent(d)
<1>0. TypeOK /\ StepInv
  BY DEF IInv
<1>1. CASE UNCHANGED vars
  BY <1>1, UnseenIsSilent DEF vars, Seen
<1>2. CASE \E l \in Launchers \ {d} :
           \/ Start(l) \/ BadPolicy(l) \/ Refuse(l) \/ MakeCapture(l) \/ WriteReport(l)
           \/ OpenFiles(l) \/ OpenFails(l) \/ Launch(l) \/ Confine(l) \/ Exec(l) \/ Output(l)
           \/ Spawn(l) \/ CommandEnds(l) \/ Collect(l) \/ Forward(l) \/ Exit(l) \/ Kill(l)
  BY <1>0, <1>2, OthersAreSilent
<1>3. ASSUME Start(d) \/ MakeCapture(d) PROVE Silent(d)
  <2>1. Phase(d) = "starting" /\ Phase(d)' = "starting"
    BY <1>0, <1>3 DEF Start, MakeCapture, Phase, StepInv, TypeOK
  <2>2. InForce(d) = {} /\ InForce(d)' = {}
    BY <1>0, <1>3 DEF Start, MakeCapture, InForce, StepInv
  <2>3. Told(d) = "nothing" /\ Told(d)' = "nothing"
    BY <1>0, <1>3 DEF Start, MakeCapture, Told, StepInv
  <2>4. Required(d)' = Required(d)
    BY <1>3 DEF Start, MakeCapture, Required
  <2>5. QED
    BY <2>1, <2>2, <2>3, <2>4 DEF Silent
<1>4. ASSUME OpenFiles(d) \/ OpenFails(d) \/ Launch(d) \/ Output(d) \/ Spawn(d) \/ CommandEnds(d)
             \/ Collect(d) \/ Forward(d)
      PROVE  Silent(d)
  <2>1. UNCHANGED <<policy, pid, profile, file, contained>>
    BY <1>4 DEF OpenFiles, OpenFails, Launch, Output, Spawn, CommandEnds, Collect, Forward
  <2>2. UNCHANGED <<Required(d), InForce(d), Told(d)>>
    BY <2>1 DEF Required, InForce, Told, Restricts
  <2>3. Phase(d)' = Phase(d)
    <3>1. CASE OpenFiles(d) \/ OpenFails(d) \/ Launch(d)
      BY <1>0, <3>1 DEF OpenFiles, OpenFails, Launch, Phase, StepInv, TypeOK
    <3>2. CASE Output(d) \/ Spawn(d) \/ CommandEnds(d)
      BY <1>0, <3>2 DEF Output, Spawn, CommandEnds, Phase, TypeOK
    <3>3. CASE Collect(d) \/ Forward(d)
      BY <1>0, <3>3 DEF Collect, Forward, Phase, TypeOK
    <3>4. QED
      BY <1>4, <3>1, <3>2, <3>3
  <2>4. QED
    BY <2>2, <2>3 DEF Silent
<1>5. ASSUME WriteReport(d) PROVE Abstract(d)!Next \/ Silent(d)
  <2>1. Phase(d) = "starting" /\ Phase(d)' = "starting"
    BY <1>0, <1>5 DEF WriteReport, Phase, StepInv, TypeOK
  <2>2. UNCHANGED <<Required(d), InForce(d)>>
    BY <1>5 DEF WriteReport, Required, InForce, Restricts
  <2>3. CASE Told(d)' = Told(d)
    BY <2>1, <2>2, <2>3 DEF Silent
  <2>4. CASE Told(d) = "nothing" /\ Told(d)' = "contained"
    BY <2>1, <2>2, <2>4 DEF Abstract!Next, Abstract!Tell
  <2>5. Told(d)' \in {"nothing", "contained"}
    BY <1>0, <1>5 DEF WriteReport, Told, StepInv, Steps, TypeOK
  <2>6. Told(d) = "nothing"
    BY <1>0, <1>5 DEF WriteReport, Told, StepInv, Steps, TypeOK
  <2>7. QED
    BY <2>3, <2>4, <2>5, <2>6
<1>6. ASSUME Confine(d) PROVE Abstract(d)!Next
  <2>1. Phase(d) = "starting" /\ Phase(d)' = "starting"
    BY <1>0, <1>6 DEF Confine, Phase, StepInv, Steps, TypeOK
  <2>2. InForce(d) = {}
    BY <1>0, <1>6 DEF Confine, InForce, StepInv
  <2>3. UNCHANGED <<Required(d), Told(d)>>
    BY <1>6 DEF Confine, Required, Told
  <2>4. QED
    BY <2>1, <2>2, <2>3 DEF Abstract!Next, Abstract!Secure
<1>7. ASSUME Exec(d) PROVE Abstract(d)!Next \/ Silent(d)
  <2>1. UNCHANGED <<Required(d), InForce(d), Told(d)>>
    BY <1>7 DEF Exec, Required, InForce, Told, Restricts
  <2>2. Phase(d) = "starting"
    BY <1>0, <1>7 DEF Exec, Phase, StepInv, Steps, TypeOK
  <2>3. CASE child'[d] = "failed"
    <3>1. Phase(d)' = "starting"
      BY <1>0, <1>7, <2>3 DEF Exec, Phase, StepInv, Steps, TypeOK
    <3>2. QED
      BY <2>1, <2>2, <3>1 DEF Silent
  <2>4. CASE child[d] = "confined" /\ child'[d] = "running"
    <3>1. Phase(d)' = "running"
      BY <1>0, <1>7, <2>4 DEF Exec, Phase, StepInv, Steps, TypeOK
    <3>2. Required(d) \subseteq InForce(d)
      <4>1. profile[d] = build_profile(d)
        BY <1>0, <2>4 DEF StepInv
      <4>2. profile[d] # None
        <5>1. pid[d] \in Pids
          BY <1>0, <2>4 DEF StepInv, TypeOK
        <5>2. QED
          BY <1>0, <4>1, <5>1, ProfileIsTyped, ProfileAssumption
      <4>3. QED
        BY <1>0, <4>1, <4>2, ProfileEnforces
    <3>3. QED
      BY <2>1, <2>2, <3>1, <3>2 DEF Abstract!Next, Abstract!Run
  <2>5. QED
    BY <1>0, <1>7, <2>3, <2>4 DEF Exec, TypeOK
<1>8. ASSUME BadPolicy(d) \/ Refuse(d) PROVE Abstract(d)!Next
  <2>1. Phase(d) = "starting" /\ Phase(d)' = "stopped"
    BY <1>0, <1>8 DEF BadPolicy, Refuse, Phase, StepInv, TypeOK
  <2>2. UNCHANGED <<Required(d), InForce(d)>>
    BY <1>8 DEF BadPolicy, Refuse, Required, InForce, Restricts
  <2>3. Told(d) = "nothing"
    BY <1>0, <1>8 DEF BadPolicy, Refuse, Told, StepInv
  <2>4. Told(d)' \in {"nothing", "uncontained"}
    BY <1>0, <1>8 DEF BadPolicy, Refuse, Told, StepInv
  <2>5. QED
    BY <2>1, <2>2, <2>3, <2>4 DEF Abstract!Next, Abstract!Stop
<1>9. ASSUME Exit(d) \/ Kill(d) PROVE Abstract(d)!Next
  <2>1. Phase(d)' = "stopped"
    BY <1>0, <1>9 DEF Exit, Kill, Phase, TypeOK
  <2>2. UNCHANGED <<Required(d), InForce(d), Told(d)>>
    BY <1>9 DEF Exit, Kill, Required, InForce, Told, Restricts
  <2>3. QED
    BY <2>1, <2>2 DEF Abstract!Next, Abstract!Stop
<1>10. QED
  BY <1>1, <1>2, <1>3, <1>4, <1>5, <1>6, <1>7, <1>8, <1>9 DEF Next

\* Every macOS launcher implements the launcher of Launcher.tla: what its report
\* promises before the command is launched is kept when it is
\* (macos_sandbox.rs:83-120).
THEOREM MacCoreImplementsLauncher == Spec => ImplementsLauncher
<1>1. Init => BeginAsLaunchers
  BY InitRefines DEF BeginAsLaunchers
<1>2. IInv /\ [Next]_vars => [StepAsLaunchers]_vars
  BY StepRefines DEF Silent, StepAsLaunchers
<1>3. QED
  BY <1>1, <1>2, Invariance, PTL DEF Spec, ImplementsLauncher

=============================================================================
