---------------------------- MODULE SandboxProofs ----------------------------
(***************************************************************************)
(* The guarantees of SandboxProperties, for any number of runs, any        *)
(* options, policies and process trees, and however the host changes.      *)
(***************************************************************************)
EXTENDS SandboxProperties, FiniteSetTheorems, TLAPS

USE DEF host, monitor, Goto, End

\* What a step of a run is.
StepOf(r) ==
    Check(r) \/ Sdk(r) \/ SinkFails(r) \/ LauncherStep(r) \/ Spawn(r) \/ Exits(r)

\* The lines and answers of the points where a record is due.
LEMMA AuditLines ==
    /\ AuditPoints = {"admitted", "denied", "refused", "degrading", "untrusted", "collected"}
    /\ DOMAIN GoesOn = {"admitted", "degrading"}
    /\ Line["admitted"] = "allow" /\ Line["denied"] = "deny"
    /\ Line["refused"] = "containment_unavailable" /\ Line["degrading"] = "degraded"
    /\ Line["untrusted"] = "integrity" /\ Line["collected"] = "contained"
    /\ GoesOn["admitted"] = "lookup" /\ GoesOn["degrading"] = "bare"
    /\ Answers["denied"] = "violation" /\ Answers["refused"] = "unavailable"
    /\ Answers["untrusted"] = "integrity" /\ Answers["collected"] = "contained"
BY DEF AuditPoints, Line, GoesOn, Answers

LEMMA AppendedLine ==
    ASSUME TypeOK, NEW r \in Runs, NEW line \in Lines,
           trail' = [trail EXCEPT ![r] = Append(@, line)]
    PROVE  /\ trail' \in [Runs -> Seq(Lines)]
           /\ Written(r)' = Written(r) \cup {line}
           /\ \A d \in Runs \ {r} : trail'[d] = trail[d]
<1>1. trail[r] \in Seq(Lines)
  BY DEF TypeOK
<1>2. trail'[r] = Append(trail[r], line)
  BY DEF TypeOK
<1>3. trail' \in [Runs -> Seq(Lines)]
  BY <1>1 DEF TypeOK
<1>4. Written(r)' = Written(r) \cup {line}
  BY <1>1, <1>2, <1>3 DEF Written
<1>5. QED
  BY <1>3, <1>4 DEF TypeOK

LEMMA RecordedLine ==
    ASSUME TypeOK, NEW r \in Runs, Record(r)
    PROVE  /\ pc[r] \in AuditPoints
           /\ trail' \in [Runs -> Seq(Lines)]
           /\ Written(r)' = Written(r) \cup {Line[pc[r]]}
           /\ \A d \in Runs \ {r} : trail'[d] = trail[d]
<1>1. pc[r] \in AuditPoints /\ Line[pc[r]] \in Lines
  BY AuditLines DEF Record, Lines
<1>2. trail' = [trail EXCEPT ![r] = Append(@, Line[pc[r]])]
  BY DEF Record
<1>3. QED
  BY <1>1, <1>2, AppendedLine

\* The policy, the kernel and the manifest stay what they are.
LEMMA HostIsGiven ==
    ASSUME [Next]_vars
    PROVE  UNCHANGED <<requires, kernel, listed, Controls, Cores>>
<1>1. UNCHANGED <<requires, kernel, listed>>
  BY DEF vars, Next, Sdk, Check, Record, LookUp, Probe, ProbeRaises, Judge, Verify, Launch,
         LaunchBare, Finish, Timeout, Killed, SinkFails, LauncherStep, Spawn, Exits, Refresh,
         Replace
<1>2. QED
  BY <1>1 DEF Controls, Cores

\* What a probe finds is a set of capabilities.
LEMMA ProbesAreTyped ==
    ASSUME TypeOK, NEW found \in Probed
    PROVE  found \in Capabilities /\ found # Unprobed
<1>1. kernel \subseteq OSLimits /\ binary \in {"none", "genuine", "other"}
  BY DEF TypeOK
<1>2. \/ found \in {{}, {"core"}, {"core", "resource_limits", "process_kill"}}
      \/ \E limits \in SUBSET OSLimits :
            found = {"core", "resource_limits", "process_kill"} \cup limits
  <2>1. CASE binary = "none"
    BY <2>1 DEF Probed
  <2>2. CASE binary = "genuine"
    BY <1>1, <2>2 DEF Probed
  <2>3. CASE binary = "other"
    BY <2>3 DEF Probed
  <2>4. QED
    BY <1>1, <2>1, <2>2, <2>3
<1>3. QED
  BY <1>2 DEF Capabilities, Unprobed, OSLimits

LEMMA ProgramsAreTyped ==
    ASSUME TypeOK
    PROVE  Programs \subseteq {"genuine", "other"}
BY DEF TypeOK, Programs

-----------------------------------------------------------------------------
LEMMA InitInv == Init => IInv
<1> SUFFICES ASSUME Init PROVE IInv
  OBVIOUS
<1> USE SandboxAssumption DEF Init
<1>1. TypeOK
  BY DEF TypeOK, Points, Outcomes, Capabilities
<1>2. ProcessInv /\ VerifiedInv
  BY DEF ProcessInv, ProcessOf, NoCore, Late, VerifiedInv, VerifiedOf
<1>3. \A r \in Runs : Written(r) = {}
  BY DEF Written
<1>4. TrailInv /\ ExecutedInv /\ GroundsInv
  BY <1>3 DEF TrailInv, TrailOf, ExecutedInv, ExecutedOf, GroundsInv, GroundsOf, Launched, NoCore
<1>5. HostInv
  BY DEF HostInv
<1>6. Counted = {}
  BY DEF Counted, Launched, NoCore
<1>7. CountInv
  BY <1>6, FS_EmptySet DEF CountInv
<1>8. QED
  BY <1>1, <1>2, <1>4, <1>5, <1>7 DEF IInv

\* A run moves on, without an answer or with one.
LEMMA MovingOn ==
    ASSUME TypeOK, NEW r \in Runs, NEW p \in Points \ {"ended"}, pc[r] # "ended",
           pc' = [pc EXCEPT ![r] = p], UNCHANGED <<caps, outcome>>,
           p \in {"judging", "verifying", "launch", "waiting"} => caps[r] # Unprobed
    PROVE  /\ pc' \in [Runs -> Points]
           /\ \A d \in Runs :
                 /\ pc'[d] \in {"judging", "verifying", "launch", "waiting"} => caps'[d] # Unprobed
                 /\ pc'[d] = "ended" <=> outcome'[d] # "none"
BY DEF TypeOK

LEMMA Answering ==
    ASSUME TypeOK, NEW r \in Runs, NEW how \in Outcomes \ {"none"},
           pc' = [pc EXCEPT ![r] = "ended"], outcome' = [outcome EXCEPT ![r] = how],
           UNCHANGED caps
    PROVE  /\ pc' \in [Runs -> Points] /\ outcome' \in [Runs -> Outcomes]
           /\ \A d \in Runs :
                 /\ pc'[d] \in {"judging", "verifying", "launch", "waiting"} => caps'[d] # Unprobed
                 /\ pc'[d] = "ended" <=> outcome'[d] # "none"
<1>1. "ended" \in Points
  BY DEF Points
<1>2. QED
  BY <1>1 DEF TypeOK

LEMMA TypeStep == TypeOK /\ ProcessInv /\ GroundsInv /\ [Next]_vars => TypeOK'
<1> SUFFICES ASSUME TypeOK, ProcessInv, GroundsInv, [Next]_vars PROVE TypeOK'
  OBVIOUS
<1> USE SandboxAssumption, HostIsGiven
<1>1. CASE UNCHANGED vars
  BY <1>1 DEF vars, TypeOK
<1>2. ASSUME NEW r \in Runs, Check(r) PROVE TypeOK'
  <2>1. used' \in 0 .. MaxCalls
    BY <1>2 DEF Check, TypeOK
  <2>2. PICK p \in {"admitted", "denied"} : pc' = [pc EXCEPT ![r] = p]
    BY <1>2 DEF Check
  <2>3. /\ UNCHANGED <<host, cache, failures, args, caps, core, procs, monitor, overran, trail>>
        /\ outcome' = outcome
    BY <1>2 DEF Check
  <2>4. p \in Points \ {"ended"} /\ pc[r] = "idle"
    BY <1>2, AuditLines DEF Points, Check
  <2>5. QED
    BY <2>1, <2>2, <2>3, <2>4, MovingOn DEF TypeOK
<1>3. ASSUME NEW r \in Runs, Record(r) PROVE TypeOK'
  <2>1. trail' \in [Runs -> Seq(Lines)]
    BY <1>3, RecordedLine
  <2>2. UNCHANGED <<host, used, cache, failures, args, caps, core, procs, monitor, overran>>
    BY <1>3 DEF Record
  <2>3. CASE pc[r] \in {"admitted", "degrading"}
    <3>1. PICK p \in {"lookup", "bare"} : pc' = [pc EXCEPT ![r] = p]
      BY <1>3, <2>3, AuditLines DEF Record
    <3>2. outcome' = outcome
      BY <1>3, <2>3, AuditLines DEF Record
    <3>3. p \in Points \ {"ended"}
      BY DEF Points
    <3>4. QED
      BY <2>1, <2>2, <2>3, <3>1, <3>2, <3>3, MovingOn DEF TypeOK
  <2>4. CASE pc[r] \in {"denied", "refused", "untrusted", "collected"}
    <3>1. PICK how \in {"violation", "unavailable", "integrity", "contained"} :
             outcome' = [outcome EXCEPT ![r] = how]
      BY <1>3, <2>4, AuditLines DEF Record
    <3>2. pc' = [pc EXCEPT ![r] = "ended"]
      BY <1>3, <2>4, AuditLines DEF Record
    <3>3. how \in Outcomes \ {"none"}
      BY DEF Outcomes
    <3>4. QED
      BY <2>1, <2>2, <3>1, <3>2, <3>3, Answering DEF TypeOK
  <2>5. QED
    BY <1>3, <2>3, <2>4, AuditLines DEF Record
<1>4. ASSUME NEW r \in Runs, SinkFails(r) PROVE TypeOK'
  BY <1>4, AuditLines DEF SinkFails, TypeOK, Points, Outcomes
<1>5. ASSUME NEW r \in Runs, LookUp(r) PROVE TypeOK'
  <2>1. /\ UNCHANGED <<host, used, cache, failures, args, core, procs, monitor, overran, trail>>
        /\ outcome' = outcome
    BY <1>5 DEF LookUp
  <2>2. "judging" \in Points /\ "probing" \in Points
    BY DEF Points
  <2>3. CASE cache # Unprobed /\ caps' = [caps EXCEPT ![r] = cache] /\ Goto(r, "judging")
    BY <1>5, <2>1, <2>2, <2>3 DEF LookUp, TypeOK
  <2>4. CASE caps' = caps /\ Goto(r, "probing")
    BY <1>5, <2>1, <2>2, <2>4, MovingOn DEF LookUp, TypeOK
  <2>5. QED
    BY <1>5, <2>3, <2>4 DEF LookUp
<1>6. ASSUME NEW r \in Runs, Probe(r) PROVE TypeOK'
  <2>1. PICK found \in Probed : /\ cache' = found
                                /\ caps' = [caps EXCEPT ![r] = found]
                                /\ healthy' = (healthy /\ found = Answer)
    BY <1>6 DEF Probe
  <2>2. found \in Capabilities /\ found # Unprobed
    BY ProbesAreTyped
  <2>3. healthy' \in BOOLEAN
    BY <2>1
  <2>4. executed' \in [Runs -> SUBSET {"genuine", "other"}]
    BY <1>6, ProgramsAreTyped DEF Probe, TypeOK
  <2>5. QED
    BY <1>6, <2>1, <2>2, <2>3, <2>4 DEF Probe, TypeOK, Points
<1>7. ASSUME Refresh PROVE TypeOK'
  <2>1. PICK found \in Probed : cache' = found /\ healthy' = (healthy /\ found = Answer)
    BY <1>7 DEF Refresh
  <2>2. found \in Capabilities
    BY ProbesAreTyped
  <2>3. healthy' \in BOOLEAN
    BY <2>1
  <2>4. QED
    BY <1>7, <2>1, <2>2, <2>3 DEF Refresh, TypeOK
<1>8. ASSUME NEW r \in Runs, Judge(r) PROVE TypeOK'
  <2>1. PICK p \in {"verifying", "degrading", "refused"} : pc' = [pc EXCEPT ![r] = p]
    BY <1>8 DEF Judge
  <2>2. /\ pc[r] = "judging"
        /\ UNCHANGED <<host, used, cache, failures, args, caps, core, procs, monitor, overran>>
        /\ UNCHANGED <<trail, outcome>>
    BY <1>8 DEF Judge
  <2>3. p \in Points \ {"ended"} /\ caps[r] # Unprobed
    BY <2>2, AuditLines DEF Points, TypeOK
  <2>4. QED
    BY <2>1, <2>2, <2>3, MovingOn DEF TypeOK
<1>9. ASSUME NEW r \in Runs, Verify(r) PROVE TypeOK'
  <2>1. checked' \in [Runs -> {"nothing", "none", "genuine", "other"}]
    BY <1>9 DEF Verify, TypeOK
  <2>2. QED
    BY <1>9, <2>1, AuditLines DEF Verify, TypeOK, Points
<1>10. ASSUME NEW r \in Runs, Launch(r) \/ LaunchBare(r) PROVE TypeOK'
  <2>1. CASE LaunchBare(r) /\ Begin(r, Bare)
    <3>1. caps[r] # Unprobed
      BY <2>1 DEF GroundsInv, GroundsOf, LaunchBare
    <3>2. QED
      BY <2>1, <3>1 DEF LaunchBare, Begin, TypeOK, Points, Group
  <2>2. CASE Launch(r) /\ BeginCore(r, TRUE)
    <3>1. [NoCore EXCEPT !.state = "starting", !.strict = TRUE, !.from = binary] \in Cores
      BY <2>2 DEF NoCore, Cores, TypeOK, BeginCore
    <3>2. executed' \in [Runs -> SUBSET {"genuine", "other"}]
      BY <2>2, ProgramsAreTyped DEF BeginCore, TypeOK
    <3>3. QED
      BY <2>2, <3>1, <3>2 DEF Launch, BeginCore, Begin, TypeOK, Points, Group
  <2>3. CASE CannotBegin(r) /\ UNCHANGED executed
    BY <1>10, <2>3 DEF Launch, LaunchBare, CannotBegin, TypeOK, Points, Outcomes
  <2>4. QED
    BY <1>10, <2>1, <2>2, <2>3 DEF Launch, LaunchBare
<1>11. ASSUME NEW r \in Runs, LauncherStep(r) PROVE TypeOK'
  BY <1>11 DEF LauncherStep, TypeOK
<1>12. ASSUME NEW r \in Runs, Spawn(r) \/ Exits(r) PROVE TypeOK'
  <2>1. procs' \in [Runs -> SUBSET (Group \cup {"escaped"})]
    <3>1. CASE Spawn(r)
      <4>1. PICK p \in Children : procs' = [procs EXCEPT ![r] = @ \cup {p}]
        BY <3>1 DEF Spawn
      <4>2. p \in Group \cup {"escaped"}
        BY DEF Group
      <4>3. QED
        BY <4>1, <4>2 DEF TypeOK
    <3>2. CASE Exits(r)
      <4>1. PICK p \in procs[r] : procs' = [procs EXCEPT ![r] = @ \ {p}]
        BY <3>2 DEF Exits
      <4>2. QED
        BY <4>1 DEF TypeOK
    <3>3. QED
      BY <1>12, <3>1, <3>2
  <2>2. /\ UNCHANGED <<host, used, cache, failures, args, pc, caps, core, monitor, overran>>
        /\ UNCHANGED <<trail, outcome>>
    BY <1>12 DEF Spawn, Exits
  <2>3. QED
    BY <2>1, <2>2 DEF TypeOK
<1>13. ASSUME NEW r \in Runs, Finish(r) PROVE TypeOK'
  <2>1. UNCHANGED <<host, used, cache, failures, args, caps, core, procs, monitor, overran, trail>>
    BY <1>13 DEF Finish
  <2>2. CASE End(r, "degraded")
    <3>1. "degraded" \in Outcomes \ {"none"}
      BY DEF Outcomes
    <3>2. QED
      BY <2>1, <2>2, <3>1, Answering DEF TypeOK
  <2>3. CASE Goto(r, "collected") /\ outcome' = outcome
    <3>1. "collected" \in Points \ {"ended"} /\ pc[r] # "ended"
      BY <1>13, AuditLines DEF Points, Finish
    <3>2. QED
      BY <2>1, <2>3, <3>1, MovingOn DEF TypeOK
  <2>4. QED
    BY <1>13, <2>2, <2>3 DEF Finish
<1>14. ASSUME NEW r \in Runs, Timeout(r) PROVE TypeOK'
  <2>1. core' \in [Runs -> Cores \cup {NoCore, Bare}]
    <3>1. [core[r] EXCEPT !.state = IF @ = "bare" THEN @ ELSE "stopped"]
             \in Cores \cup {NoCore, Bare}
      <4>1. CASE core[r] \in Cores
        BY <4>1 DEF Cores
      <4>2. CASE core[r] = NoCore
        BY <1>14, <4>2 DEF Timeout, Killed, ProcessInv, ProcessOf, Late, Launched, NoCore
      <4>3. CASE core[r] = Bare
        BY <4>3 DEF NoCore, Bare
      <4>4. QED
        BY <4>1, <4>2, <4>3 DEF TypeOK
    <3>2. QED
      BY <1>14, <3>1 DEF Timeout, Killed, TypeOK
  <2>2. QED
    BY <1>14, <2>1 DEF Timeout, Killed, TypeOK, Points, Outcomes
<1>15. ASSUME Replace PROVE TypeOK'
  BY <1>15 DEF Replace, TypeOK
<1>16. ASSUME NEW r \in Runs, ProbeRaises(r) PROVE TypeOK'
  <2>1. executed' \in [Runs -> SUBSET {"genuine", "other"}]
    BY <1>16, ProgramsAreTyped DEF ProbeRaises, TypeOK
  <2>2. "error" \in Outcomes \ {"none"} /\ UNCHANGED caps
    BY <1>16 DEF Outcomes, ProbeRaises
  <2>3. QED
    BY <1>16, <2>1, <2>2, Answering DEF ProbeRaises, TypeOK
<1>17. QED
  BY <1>1, <1>2, <1>3, <1>4, <1>5, <1>6, <1>7, <1>8, <1>9, <1>10, <1>11, <1>12, <1>13, <1>14,
     <1>15, <1>16
     DEF Next, Sdk

-----------------------------------------------------------------------------
\* What a step of another run, of the application or of the host leaves alone.
Seen(r) ==
    <<args[r], pc[r], caps[r], core[r], procs[r], checked[r], executed[r], overran[r], trail[r],
      outcome[r]>>

LEMMA OthersAreUntouched ==
    ASSUME TypeOK, [Next]_vars, NEW d \in Runs
    PROVE  StepOf(d) \/ UNCHANGED Seen(d)
<1> USE DEF Seen
<1>1. CASE UNCHANGED vars
  BY <1>1 DEF vars
<1>2. CASE Refresh \/ Replace
  BY <1>2 DEF Refresh, Replace
<1>3. ASSUME NEW r \in Runs, r # d, StepOf(r) PROVE UNCHANGED Seen(d)
  <2> USE <1>3 DEF TypeOK
  <2>1. CASE Check(r) \/ LookUp(r) \/ Judge(r) \/ Verify(r)
    BY <2>1 DEF Check, LookUp, Judge, Verify
  <2>2. CASE Probe(r) \/ ProbeRaises(r) \/ SinkFails(r) \/ Finish(r)
    BY <2>2 DEF Probe, ProbeRaises, SinkFails, Finish
  <2>3. CASE Record(r)
    BY <2>3 DEF Record
  <2>4. CASE Launch(r) \/ LaunchBare(r)
    BY <2>4 DEF Launch, LaunchBare, BeginCore, Begin, CannotBegin
  <2>5. CASE LauncherStep(r) \/ Spawn(r) \/ Exits(r)
    BY <2>5 DEF LauncherStep, Spawn, Exits
  <2>6. CASE Timeout(r)
    BY <2>6 DEF Timeout, Killed
  <2>7. QED
    BY <2>1, <2>2, <2>3, <2>4, <2>5, <2>6 DEF StepOf, Sdk
<1>4. QED
  BY <1>1, <1>2, <1>3 DEF Next, StepOf

\* The process that runs the core, at its beginning.
Starting == [NoCore EXCEPT !.state = "starting", !.strict = TRUE, !.from = binary]

\* A step that neither launches nor ends anything leaves the processes alone.
LEMMA ProcessStep ==
    ASSUME TypeOK, ProcessInv, [Next]_vars
    PROVE  ProcessInv'
<1> SUFFICES ASSUME NEW r \in Runs PROVE ProcessOf(r)'
  BY DEF ProcessInv
<1>0. ProcessOf(r) /\ Controls' = Controls
  BY HostIsGiven DEF ProcessInv
<1>1. CASE UNCHANGED Seen(r)
  BY <1>0, <1>1 DEF Seen, ProcessOf, Launched
<1>2. ASSUME pc[r] \in Early, pc'[r] \in Early \cup {"ended"},
             UNCHANGED <<core, procs, overran>>
      PROVE  ProcessOf(r)'
  BY <1>0, <1>2 DEF ProcessOf, Launched, Early, Late
<1>3. CASE Check(r) \/ LookUp(r) \/ Probe(r) \/ Judge(r) \/ Verify(r)
  <2>1. pc[r] \in Early /\ UNCHANGED <<core, procs, overran>>
    BY <1>3 DEF Check, LookUp, Probe, Judge, Verify, Early
  <2>2. pc'[r] \in Early
    BY <1>3 DEF Check, LookUp, Probe, Judge, Verify, Early, TypeOK
  <2>3. QED
    BY <1>2, <2>1, <2>2
<1>4. CASE Record(r) \/ SinkFails(r)
  <2>1. UNCHANGED <<core, procs, overran>> /\ pc[r] \in AuditPoints
    BY <1>4 DEF Record, SinkFails
  <2>2. /\ pc[r] = "collected" => pc'[r] = "ended"
        /\ pc'[r] \in Early \cup {"ended"}
    BY <1>4, AuditLines DEF Record, SinkFails, TypeOK, Early
  <2>3. CASE pc[r] = "collected"
    BY <1>0, <2>1, <2>2, <2>3 DEF ProcessOf, Launched, Early, Late
  <2>4. CASE pc[r] # "collected"
    <3>1. pc[r] \in Early
      BY <2>1, <2>4, AuditLines DEF Early
    <3>2. QED
      BY <1>2, <2>1, <2>2, <3>1
  <2>5. QED
    BY <2>3, <2>4
<1>5. CASE Launch(r) \/ LaunchBare(r)
  <2>1. pc[r] \in Early /\ overran' = overran
    BY <1>5 DEF Launch, LaunchBare, Early
  <2>2. CASE CannotBegin(r)
    BY <1>2, <2>1, <2>2 DEF CannotBegin, TypeOK
  <2>3. CASE pc'[r] = "waiting" /\ core'[r] \in {Bare, Starting}
    BY <1>0, <2>1, <2>3 DEF ProcessOf, Launched, Starting, NoCore, Bare, Early, Late
  <2>4. QED
    BY <1>5, <2>2, <2>3 DEF Launch, LaunchBare, BeginCore, Begin, Starting, TypeOK
<1>12. CASE ProbeRaises(r)
  <2>1. pc[r] \in Early /\ pc'[r] = "ended" /\ UNCHANGED <<core, procs, overran>>
    BY <1>12 DEF ProbeRaises, Early, TypeOK
  <2>2. QED
    BY <1>2, <2>1
<1>6. CASE LauncherStep(r)
  <2>1. PICK c \in Cores : /\ c.strict = core[r].strict
                           /\ c.from = core[r].from
                           /\ core' = [core EXCEPT ![r] = c]
                           /\ Owes(r, c)
                           /\ procs' = [procs EXCEPT ![r] =
                                           IF c.state = "stopped" THEN @ \ {"leader"} ELSE @]
    BY <1>6 DEF LauncherStep
  <2>2. core'[r] = c /\ procs'[r] \subseteq procs[r]
    BY <2>1 DEF TypeOK
  <2>3. c.state \in {"starting", "running", "stopped"}
    BY DEF Cores
  <2>4. c.state = "running" /\ c.from # "other" => Controls \subseteq c.inforce
    BY <1>0, <2>1, <2>2
       DEF Owes, ProcessOf, Core!Next, Core!Secure, Core!Tell, Core!Run, Core!Stop
  <2>5. pc[r] \notin Early /\ UNCHANGED <<pc, overran>>
    BY <1>0, <1>6 DEF LauncherStep, ProcessOf, NoCore
  <2>6. QED
    BY <1>0, <2>1, <2>2, <2>3, <2>4, <2>5 DEF ProcessOf, Launched
<1>7. CASE Spawn(r)
  <2>1. /\ UNCHANGED <<pc, core, overran>> /\ core[r].state \in {"bare", "running"}
        /\ "leader" \in procs[r]
    BY <1>7 DEF Spawn, Commanded
  <2>2. pc[r] \notin Early /\ ~overran[r]
    BY <1>0, <2>1 DEF ProcessOf, NoCore, Group
  <2>3. QED
    BY <1>0, <2>1, <2>2 DEF ProcessOf, Launched
<1>8. CASE Exits(r)
  <2>1. UNCHANGED <<pc, core, overran>> /\ procs'[r] \subseteq procs[r]
    BY <1>8 DEF Exits, TypeOK
  <2>2. QED
    BY <1>0, <2>1 DEF ProcessOf, Launched
<1>9. CASE Finish(r)
  <2>1. UNCHANGED <<core, procs, overran>> /\ pc[r] \in Late /\ pc'[r] \in {"collected", "ended"}
    BY <1>9 DEF Finish, TypeOK, Late
  <2>2. QED
    BY <1>0, <2>1 DEF ProcessOf, Launched, Early, Late
<1>10. CASE Timeout(r)
  <2>1. /\ pc[r] = "waiting" /\ pc'[r] = "draining"
        /\ procs'[r] = procs[r] \ Group /\ overran'[r]
    BY <1>10 DEF Timeout, Killed, TypeOK
  <2>2. /\ core'[r].strict = core[r].strict
        /\ core'[r].state \in {"bare", "stopped"}
    BY <1>10 DEF Timeout, Killed, TypeOK, Cores, NoCore, Bare
  <2>3. QED
    BY <1>0, <2>1, <2>2 DEF ProcessOf, Launched, Early, Late
<1>11. QED
  BY <1>1, <1>3, <1>4, <1>5, <1>6, <1>7, <1>8, <1>9, <1>10, <1>12, OthersAreUntouched
     DEF StepOf, Sdk

\* What is verified stays so until it is started.
LEMMA VerifiedStep ==
    ASSUME TypeOK, ProcessInv, VerifiedInv, [Next]_vars
    PROVE  VerifiedInv'
<1> SUFFICES ASSUME NEW r \in Runs PROVE VerifiedOf(r)'
  BY DEF VerifiedInv
<1>1. ProcessOf(r) /\ VerifiedOf(r) /\ listed' = listed
  BY HostIsGiven DEF ProcessInv, VerifiedInv
<1>2. CASE UNCHANGED Seen(r)
  BY <1>1, <1>2 DEF Seen, VerifiedOf
<1>3. ASSUME UNCHANGED <<args, core, checked>>, pc'[r] # "launch"
      PROVE  VerifiedOf(r)'
  BY <1>1, <1>3 DEF VerifiedOf
<1>4. CASE Check(r) \/ LookUp(r) \/ Probe(r) \/ ProbeRaises(r) \/ Judge(r) \/ SinkFails(r)
  BY <1>3, <1>4 DEF Check, LookUp, Probe, ProbeRaises, Judge, SinkFails, TypeOK
<1>5. CASE Record(r)
  BY <1>3, <1>5, AuditLines DEF Record, TypeOK
<1>6. CASE Finish(r)
  BY <1>3, <1>6 DEF Finish, TypeOK
<1>7. CASE Spawn(r) \/ Exits(r)
  BY <1>1, <1>7 DEF Spawn, Exits, VerifiedOf
<1>8. CASE Verify(r)
  <2>1. UNCHANGED <<args, core>> /\ core[r].from = "none"
    BY <1>1, <1>8 DEF Verify, ProcessOf, Early, NoCore
  <2>2. pc'[r] = "launch" /\ args[r].verify_integrity /\ listed => checked'[r] = "genuine"
    BY <1>8 DEF Verify, verify_core, TypeOK
  <2>3. QED
    BY <1>1, <2>1, <2>2 DEF VerifiedOf
<1>9. CASE Launch(r) \/ LaunchBare(r)
  <2>1. UNCHANGED <<args, checked>> /\ pc'[r] # "launch"
    BY <1>9 DEF Launch, LaunchBare, BeginCore, Begin, CannotBegin, TypeOK
  <2>2. CASE Launch(r)
    BY <1>1, <2>1, <2>2 DEF VerifiedOf, Launch
  <2>3. CASE LaunchBare(r)
    <3>1. core'[r] \in {core[r], Bare}
      BY <2>3 DEF LaunchBare, Begin, CannotBegin, TypeOK
    <3>2. QED
      BY <1>1, <2>1, <3>1 DEF VerifiedOf, Bare, NoCore
  <2>4. QED
    BY <1>9, <2>2, <2>3
<1>10. CASE LauncherStep(r)
  <2>1. UNCHANGED <<args, checked, pc>> /\ core'[r].from = core[r].from
    BY <1>10 DEF LauncherStep, TypeOK
  <2>2. QED
    BY <1>1, <2>1 DEF VerifiedOf
<1>11. CASE Timeout(r)
  <2>1. UNCHANGED <<args, checked>> /\ pc'[r] # "launch" /\ core'[r].from = core[r].from
    BY <1>11 DEF Timeout, Killed, TypeOK, Cores, NoCore, Bare
  <2>2. QED
    BY <1>1, <2>1 DEF VerifiedOf
<1>12. QED
  BY <1>2, <1>4, <1>5, <1>6, <1>7, <1>8, <1>9, <1>10, <1>11, OthersAreUntouched DEF StepOf, Sdk

-----------------------------------------------------------------------------
\* The trail of a run that writes no record.
LEMMA SilentTrail ==
    ASSUME TypeOK, [Next]_vars, NEW r \in Runs
    PROVE  Record(r) \/ Written(r)' = Written(r)
<1>1. CASE trail'[r] = trail[r]
  BY <1>1 DEF Written
<1>2. CASE UNCHANGED Seen(r)
  BY <1>1, <1>2 DEF Seen
<1>3. CASE StepOf(r) /\ ~Record(r)
  <2>1. trail' = trail
    BY <1>3 DEF StepOf, Sdk, Check, LookUp, Probe, ProbeRaises, Judge, Verify, Launch, LaunchBare,
                Finish, Timeout, Killed, SinkFails, LauncherStep, Spawn, Exits
  <2>2. QED
    BY <1>1, <2>1
<1>4. QED
  BY <1>2, <1>3, OthersAreUntouched

LEMMA TrailStep ==
    ASSUME TypeOK, ProcessInv, TrailInv, [Next]_vars
    PROVE  TrailInv'
<1> SUFFICES ASSUME NEW r \in Runs PROVE TrailOf(r)'
  BY DEF TrailInv
<1>0. ProcessOf(r) /\ TrailOf(r)
  BY DEF ProcessInv, TrailInv
<1>1. CASE UNCHANGED Seen(r)
  <2>1. Written(r)' = Written(r)
    BY <1>1 DEF Seen, Written
  <2>2. QED
    BY <1>0, <1>1, <2>1 DEF Seen, TrailOf, Launched
<1>2. CASE Record(r)
  <2>1. Written(r)' = Written(r) \cup {Line[pc[r]]} /\ pc[r] \in AuditPoints
    BY <1>2, RecordedLine
  <2>2. UNCHANGED core
    BY <1>2 DEF Record
  <2>3. CASE pc[r] \in {"admitted", "degrading"}
    <3>1. /\ pc[r] = "admitted" => pc'[r] = "lookup" /\ Written(r)' = {"allow"}
          /\ pc[r] = "degrading" => pc'[r] = "bare" /\ Written(r)' = {"allow", "degraded"}
      BY <1>0, <1>2, <2>1, <2>3, AuditLines DEF Record, TypeOK, TrailOf, Early
    <3>2. ~Launched(r)
      BY <1>0, <2>3 DEF ProcessOf, Early, Launched, NoCore
    <3>3. QED
      BY <2>2, <2>3, <3>1, <3>2 DEF TrailOf, Launched, Early
  <2>4. CASE pc[r] \in {"denied", "refused", "untrusted"}
    <3>1. pc'[r] = "ended"
      BY <1>2, <2>4, AuditLines DEF Record, TypeOK
    <3>2. ~Launched(r)
      BY <1>0, <2>4 DEF ProcessOf, Early, Launched, NoCore
    <3>3. QED
      BY <2>2, <3>1, <3>2 DEF TrailOf, Launched, Early
  <2>5. CASE pc[r] = "collected"
    <3>1. pc'[r] = "ended" /\ outcome'[r] = "contained"
      BY <1>2, <2>5, AuditLines DEF Record, TypeOK
    <3>2. Launched(r)
      BY <1>0, <2>5 DEF ProcessOf, Late
    <3>3. Written(r)' = Written(r) \cup {"contained"}
      BY <2>1, <2>5, AuditLines
    <3>4. QED
      BY <1>0, <2>2, <3>1, <3>2, <3>3 DEF TrailOf, Launched, Early
  <2>6. QED
    BY <2>1, <2>3, <2>4, <2>5, AuditLines
<1>3. ASSUME Written(r)' = Written(r), UNCHANGED <<pc, outcome>>, Launched(r)' = Launched(r)
      PROVE  TrailOf(r)'
  BY <1>0, <1>3 DEF TrailOf
<1>4. CASE StepOf(r) /\ ~Record(r)
  <2>1. Written(r)' = Written(r)
    BY <1>4, SilentTrail
  <2>2. CASE Check(r) \/ LookUp(r) \/ Probe(r) \/ Judge(r) \/ Verify(r)
    <3>1. /\ \/ pc[r] = "idle" /\ pc'[r] \in {"admitted", "denied"}
             \/ /\ pc[r] \in {"lookup", "probing", "judging", "verifying"}
                /\ pc'[r] \in Early \ {"idle", "admitted", "denied", "bare"}
          /\ UNCHANGED core
      BY <2>2 DEF Check, LookUp, Probe, Judge, Verify, TypeOK, Early
    <3>2. ~Launched(r)
      BY <1>0, <3>1 DEF ProcessOf, Early, Launched, NoCore
    <3>3. QED
      BY <1>0, <2>1, <3>1, <3>2 DEF TrailOf, Launched, Early
  <2>3. CASE SinkFails(r) \/ ProbeRaises(r)
    <3>1. pc'[r] = "ended" /\ outcome'[r] = "error" /\ UNCHANGED core
      BY <2>3 DEF SinkFails, ProbeRaises, TypeOK
    <3>2. QED
      BY <1>0, <2>1, <3>1 DEF TrailOf, Launched, Early
  <2>4. CASE Launch(r) \/ LaunchBare(r)
    <3>1. pc[r] \in {"launch", "bare"}
      BY <2>4 DEF Launch, LaunchBare
    <3>2. \/ pc'[r] = "ended" /\ outcome'[r] = "error"
          \/ pc'[r] = "waiting" /\ outcome' = outcome
      <4>1. \/ pc' = [pc EXCEPT ![r] = "ended"] /\ outcome' = [outcome EXCEPT ![r] = "error"]
            \/ pc' = [pc EXCEPT ![r] = "waiting"] /\ outcome' = outcome
        BY <2>4 DEF Launch, LaunchBare, BeginCore, Begin, CannotBegin
      <4>2. QED
        BY <4>1 DEF TypeOK
    <3>3. outcome[r] = "none"
      BY <3>1 DEF TypeOK
    <3>4. "allow" \in Written(r) /\ Written(r) \subseteq {"allow", "degraded"}
      BY <1>0, <3>1 DEF TrailOf, Early
    <3>5. QED
      BY <2>1, <3>2, <3>3, <3>4 DEF TrailOf, Early
  <2>5. CASE LauncherStep(r)
    <3>1. core[r].state \in {"starting", "running"} /\ core'[r] \in Cores
      BY <2>5 DEF LauncherStep, TypeOK
    <3>2. Launched(r) /\ Launched(r)'
      BY <3>1 DEF Launched, Cores
    <3>3. QED
      BY <1>3, <2>1, <2>5, <3>2 DEF LauncherStep
  <2>6. CASE Spawn(r) \/ Exits(r)
    <3>1. UNCHANGED <<pc, core, outcome>>
      BY <2>6 DEF Spawn, Exits
    <3>2. QED
      BY <1>3, <2>1, <3>1 DEF Launched
  <2>7. CASE Finish(r) \/ Timeout(r)
    <3>1. pc[r] \in Late /\ pc'[r] \in Late \cup {"ended"}
      BY <2>7 DEF Finish, Timeout, Killed, TypeOK, Late
    <3>2. outcome'[r] \in {outcome[r], "degraded"}
      BY <2>7 DEF Finish, Timeout, Killed, TypeOK
    <3>3. Launched(r)
      BY <1>0, <3>1 DEF ProcessOf
    <3>4. QED
      BY <1>0, <2>1, <3>1, <3>2, <3>3 DEF TrailOf, Early, Late
  <2>8. QED
    BY <1>4, <2>2, <2>3, <2>4, <2>5, <2>6, <2>7 DEF StepOf, Sdk
<1>5. QED
  BY <1>1, <1>2, <1>4, OthersAreUntouched

\* What is executed is what has been admitted.
LEMMA ExecutedStep ==
    ASSUME TypeOK, ProcessInv, TrailInv, ExecutedInv, [Next]_vars
    PROVE  ExecutedInv'
<1> SUFFICES ASSUME NEW r \in Runs PROVE ExecutedOf(r)'
  BY DEF ExecutedInv
<1>1. TrailOf(r) /\ ExecutedOf(r)
  BY DEF TrailInv, ExecutedInv
<1>2. CASE UNCHANGED Seen(r)
  <2>1. Written(r)' = Written(r)
    BY <1>2 DEF Seen, Written
  <2>2. QED
    BY <1>1, <1>2, <2>1 DEF Seen, ExecutedOf
<1>3. CASE Record(r)
  <2>1. Written(r)' = Written(r) \cup {Line[pc[r]]} /\ pc[r] \in AuditPoints /\ executed' = executed
    BY <1>3, RecordedLine DEF Record
  <2>2. CASE pc[r] = "denied"
    BY <1>1, <2>1, <2>2 DEF ExecutedOf
  <2>3. CASE pc[r] # "denied"
    <3>1. /\ Line[pc[r]] # "deny"
          /\ outcome'[r] # "violation" \/ outcome'[r] = outcome[r]
          /\ pc'[r] \notin {"idle", "admitted", "denied"}
      BY <1>3, <2>1, <2>3, AuditLines DEF Record, TypeOK
    <3>2. QED
      BY <1>1, <2>1, <3>1 DEF ExecutedOf
  <2>4. QED
    BY <2>2, <2>3
<1>4. ASSUME Written(r)' = Written(r), executed'[r] = executed[r],
             \/ pc'[r] \notin {"idle", "admitted", "denied"}
             \/ executed[r] = {},
             outcome'[r] # "violation" \/ outcome'[r] = outcome[r]
      PROVE  ExecutedOf(r)'
  BY <1>1, <1>4 DEF ExecutedOf
<1>5. CASE StepOf(r) /\ ~Record(r)
  <2>1. Written(r)' = Written(r)
    BY <1>5, SilentTrail
  <2>2. CASE Check(r)
    <3>1. executed' = executed /\ executed[r] = {} /\ outcome' = outcome
      BY <1>1, <2>2 DEF Check, ExecutedOf
    <3>2. QED
      BY <1>4, <2>1, <3>1
  <2>3. CASE LookUp(r) \/ Judge(r) \/ Verify(r) \/ SinkFails(r)
    <3>1. /\ executed' = executed /\ pc'[r] \notin {"idle", "admitted", "denied"}
          /\ outcome'[r] \in {outcome[r], "error"}
      BY <2>3 DEF LookUp, Judge, Verify, SinkFails, TypeOK
    <3>2. QED
      BY <1>4, <2>1, <3>1
  <2>4. CASE Probe(r) \/ ProbeRaises(r) \/ Launch(r) \/ LaunchBare(r)
    <3>1. /\ pc'[r] \in {"judging", "waiting", "ended"}
          /\ pc[r] \in {"probing", "launch", "bare"}
          /\ outcome'[r] \in {outcome[r], "error"}
      BY <2>4 DEF Probe, ProbeRaises, Launch, LaunchBare, BeginCore, Begin, CannotBegin, TypeOK
    <3>2. outcome[r] = "none"
      BY <3>1 DEF TypeOK
    <3>3. "allow" \in Written(r) /\ "deny" \notin Written(r)
      BY <1>1, <3>1 DEF TrailOf, Early
    <3>4. QED
      BY <2>1, <3>1, <3>2, <3>3 DEF ExecutedOf
  <2>5. CASE Finish(r) \/ Timeout(r)
    <3>1. /\ executed' = executed /\ pc'[r] \notin {"idle", "admitted", "denied"}
          /\ outcome'[r] \in {outcome[r], "degraded"}
      BY <2>5 DEF Finish, Timeout, Killed, TypeOK
    <3>2. QED
      BY <1>4, <2>1, <3>1
  <2>6. CASE LauncherStep(r) \/ Spawn(r) \/ Exits(r)
    <3>1. UNCHANGED <<executed, pc, outcome>>
      BY <2>6 DEF LauncherStep, Spawn, Exits
    <3>2. QED
      BY <1>1, <2>1, <3>1 DEF ExecutedOf
  <2>7. QED
    BY <1>5, <2>2, <2>3, <2>4, <2>5, <2>6 DEF StepOf, Sdk
<1>6. QED
  BY <1>2, <1>3, <1>5, OthersAreUntouched

-----------------------------------------------------------------------------
LEMMA GroundsStep ==
    ASSUME TypeOK, ProcessInv, TrailInv, GroundsInv, [Next]_vars
    PROVE  GroundsInv'
<1> SUFFICES ASSUME NEW r \in Runs PROVE GroundsOf(r)'
  BY DEF GroundsInv
<1>0. ProcessOf(r) /\ TrailOf(r) /\ GroundsOf(r)
  BY DEF ProcessInv, TrailInv, GroundsInv
<1>1. \A c : covers(c)' = covers(c)
  BY HostIsGiven DEF covers
<1>2. CASE UNCHANGED Seen(r)
  BY <1>0, <1>1, <1>2 DEF Seen, GroundsOf, Written
<1>3. CASE Record(r)
  <2>1. Written(r)' = Written(r) \cup {Line[pc[r]]} /\ pc[r] \in AuditPoints
    BY <1>3, RecordedLine
  <2>2. UNCHANGED <<args, caps, core>>
    BY <1>3 DEF Record
  <2>3. pc'[r] \in {"lookup", "bare", "ended"} /\ (pc'[r] = "bare" => pc[r] = "degrading")
    BY <1>3, AuditLines DEF Record, TypeOK
  <2>4. Line[pc[r]] \in {"containment_unavailable", "degraded"} =>
           pc[r] \in {"refused", "degrading"}
    BY <2>1, AuditLines
  <2>5. QED
    BY <1>0, <1>1, <2>1, <2>2, <2>3, <2>4 DEF GroundsOf
<1>4. CASE StepOf(r) /\ ~Record(r)
  <2>1. Written(r)' = Written(r) /\ args' = args
    <3>1. args' = args
      BY <1>4 DEF StepOf, Sdk, Check, LookUp, Probe, ProbeRaises, Judge, Verify, Launch,
                  LaunchBare, Finish, Timeout, Killed, BeginCore, SinkFails, LauncherStep, Spawn, Exits
    <3>2. QED
      BY <1>4, <3>1, SilentTrail
  <2>2. CASE Check(r) \/ SinkFails(r) \/ Verify(r) \/ ProbeRaises(r)
    <3>1. pc'[r] \notin {"refused", "degrading", "bare"} /\ UNCHANGED <<caps, core>>
      BY <2>2 DEF Check, SinkFails, Verify, ProbeRaises, TypeOK
    <3>2. QED
      BY <1>0, <1>1, <2>1, <3>1 DEF GroundsOf
  <2>3. CASE LookUp(r) \/ Probe(r)
    <3>1. pc[r] \in {"lookup", "probing"} /\ pc'[r] \in {"probing", "judging"} /\ UNCHANGED core
      BY <2>3 DEF LookUp, Probe, TypeOK
    <3>2. core[r].state = "none" /\ Written(r) = {"allow"}
      BY <1>0, <3>1 DEF ProcessOf, TrailOf, Early, NoCore
    <3>3. QED
      BY <2>1, <3>1, <3>2 DEF GroundsOf
  <2>4. CASE Judge(r)
    <3>1. /\ pc'[r] \in {"verifying", "degrading", "refused"} /\ UNCHANGED <<caps, core>>
          /\ pc'[r] \in {"degrading", "refused"} => ~covers(caps[r])
          /\ pc'[r] = "degrading" => args[r].allow_degraded
          /\ caps[r] # Unprobed
      BY <2>4 DEF Judge, TypeOK
    <3>2. QED
      BY <1>0, <1>1, <2>1, <3>1 DEF GroundsOf
  <2>5. CASE Launch(r) \/ LaunchBare(r)
    <3>1. /\ pc'[r] \in {"waiting", "ended"} /\ UNCHANGED caps
          /\ core'[r].state = "bare" => core[r].state = "bare" \/ pc[r] = "bare"
      <4>1. CASE Launch(r)
        <5>1. core' = core \/ core'[r] = Starting
          BY <4>1 DEF Launch, BeginCore, Begin, CannotBegin, Starting, TypeOK
        <5>2. pc'[r] \in {"waiting", "ended"} /\ UNCHANGED caps
          BY <4>1 DEF Launch, BeginCore, Begin, CannotBegin, TypeOK
        <5>3. QED
          BY <5>1, <5>2 DEF Starting, NoCore
      <4>2. CASE LaunchBare(r)
        BY <4>2 DEF LaunchBare, Begin, CannotBegin, TypeOK
      <4>3. QED
        BY <2>5, <4>1, <4>2
    <3>2. pc[r] = "bare" => "degraded" \in Written(r)
      BY <1>0 DEF TrailOf
    <3>3. QED
      BY <1>0, <1>1, <2>1, <3>1, <3>2 DEF GroundsOf
  <2>6. CASE LauncherStep(r)
    <3>1. core'[r].state # "bare" /\ UNCHANGED <<pc, caps>>
      BY <2>6 DEF LauncherStep, TypeOK, Cores
    <3>2. QED
      BY <1>0, <1>1, <2>1, <3>1 DEF GroundsOf
  <2>7. CASE Spawn(r) \/ Exits(r)
    <3>1. UNCHANGED <<pc, caps, core>>
      BY <2>7 DEF Spawn, Exits
    <3>2. QED
      BY <1>0, <1>1, <2>1, <3>1 DEF GroundsOf
  <2>8. CASE Finish(r) \/ Timeout(r)
    <3>1. /\ pc'[r] \in {"collected", "draining", "ended"} /\ UNCHANGED caps
          /\ core'[r].state = "bare" => core[r].state = "bare"
      <4>1. CASE Finish(r)
        BY <4>1 DEF Finish, TypeOK
      <4>2. CASE Timeout(r)
        <5>1. pc'[r] = "draining" /\ UNCHANGED caps
          BY <4>2 DEF Timeout, Killed, TypeOK
        <5>2. core'[r] = [core[r] EXCEPT !.state = IF @ = "bare" THEN @ ELSE "stopped"]
          BY <4>2 DEF Timeout, Killed, TypeOK
        <5>3. core[r] \in Cores \/ core[r] = NoCore \/ core[r] = Bare
          BY DEF TypeOK
        <5>4. core'[r].state = "bare" => core[r].state = "bare"
          BY <5>2, <5>3 DEF Cores, NoCore, Bare
        <5>5. QED
          BY <5>1, <5>4
      <4>3. QED
        BY <2>8, <4>1, <4>2
    <3>2. QED
      BY <1>0, <1>1, <2>1, <3>1 DEF GroundsOf
  <2>9. QED
    BY <1>4, <2>2, <2>3, <2>4, <2>5, <2>6, <2>7, <2>8 DEF StepOf, Sdk
<1>5. QED
  BY <1>2, <1>3, <1>4, OthersAreUntouched

-----------------------------------------------------------------------------
LEMMA HostStep ==
    ASSUME TypeOK, HostInv, [Next]_vars
    PROVE  HostInv'
<1>0. Answer' = Answer
  BY HostIsGiven DEF Answer
<1>1. CASE UNCHANGED <<healthy, binary, cache, caps>>
  BY <1>0, <1>1 DEF HostInv
<1>2. ASSUME NEW r \in Runs, LookUp(r) PROVE HostInv'
  <2>1. UNCHANGED <<healthy, binary, cache>> /\ caps' \in {caps, [caps EXCEPT ![r] = cache]}
    BY <1>2 DEF LookUp
  <2>2. QED
    BY <1>0, <2>1 DEF HostInv, TypeOK
<1>3. ASSUME NEW r \in Runs, Probe(r) PROVE HostInv'
  <2>1. /\ UNCHANGED binary /\ caps' = [caps EXCEPT ![r] = cache']
        /\ healthy' = (healthy /\ cache' = Answer)
    BY <1>3 DEF Probe
  <2>2. healthy' => healthy /\ cache' = Answer
    BY <2>1
  <2>3. QED
    BY <1>0, <2>1, <2>2 DEF HostInv, TypeOK
<1>4. CASE Refresh
  <2>1. UNCHANGED <<binary, caps>> /\ healthy' = (healthy /\ cache' = Answer)
    BY <1>4 DEF Refresh
  <2>2. healthy' => healthy /\ cache' = Answer
    BY <2>1
  <2>3. QED
    BY <1>0, <2>1, <2>2 DEF HostInv
<1>5. CASE Replace
  <2>1. UNCHANGED <<cache, caps>> /\ healthy' = (healthy /\ binary' # "none")
    BY <1>5 DEF Replace
  <2>2. healthy' => healthy /\ binary' # "none"
    BY <2>1
  <2>3. QED
    BY <1>0, <2>1, <2>2 DEF HostInv
<1>6. CASE UNCHANGED vars
  BY <1>1, <1>6 DEF vars
<1>9. ASSUME NEW r \in Runs, ProbeRaises(r) PROVE HostInv'
  BY <1>9 DEF ProbeRaises, HostInv
<1>7. ASSUME NEW r \in Runs, StepOf(r), ~LookUp(r), ~Probe(r), ~ProbeRaises(r) PROVE HostInv'
  <2>1. UNCHANGED <<healthy, binary, cache, caps>>
    BY <1>7 DEF StepOf, Sdk, Check, Record, Judge, Verify, Launch, LaunchBare, Finish, Timeout,
                Killed, SinkFails, LauncherStep, Spawn, Exits
  <2>2. QED
    BY <1>1, <2>1
<1>8. QED
  BY <1>2, <1>3, <1>4, <1>5, <1>6, <1>7, <1>9 DEF Next, StepOf, Sdk

\* A run that is counted was before, or is admitted in this step.
LEMMA NewlyCounted ==
    ASSUME TypeOK, ProcessInv, [Next]_vars, NEW r \in Counted', r \notin Counted
    PROVE  Check(r) /\ used' = used + 1
<1>1. r \in Runs /\ ProcessOf(r)
  BY DEF Counted, ProcessInv
<1>2. pc[r] \in {"idle", "denied"} \/ pc[r] \notin Early
  BY <1>1 DEF Counted
<1>3. ~Launched(r) /\ pc[r] \notin Late
  BY <1>1 DEF Counted, ProcessOf
<1>4. ~UNCHANGED Seen(r)
  BY <1>1, <1>2, <1>3 DEF Counted, Seen, Launched
<1>5. StepOf(r)
  BY <1>1, <1>4, OthersAreUntouched
<1>6. CASE Check(r)
  BY <1>1, <1>6 DEF Check, Counted, Launched, Early, TypeOK
<1>7. CASE Record(r) \/ SinkFails(r)
  <2>1. UNCHANGED core /\ pc[r] \in AuditPoints
    BY <1>7 DEF Record, SinkFails
  <2>2. pc[r] = "denied"
    BY <1>2, <1>3, <2>1, AuditLines DEF Early, Late
  <2>3. pc'[r] = "ended"
    BY <1>1, <1>7, <2>2, AuditLines DEF Record, SinkFails, TypeOK
  <2>4. QED
    BY <1>1, <1>3, <2>1, <2>3 DEF Counted, Launched, Early
<1>8. CASE \/ LookUp(r) \/ Probe(r) \/ ProbeRaises(r) \/ Judge(r) \/ Verify(r) \/ Launch(r)
           \/ LaunchBare(r)
  <2>1. pc[r] \in Early \ {"idle", "denied"}
    BY <1>8 DEF LookUp, Probe, ProbeRaises, Judge, Verify, Launch, LaunchBare, Early
  <2>2. QED
    BY <1>2, <2>1
<1>9. CASE Finish(r) \/ Timeout(r)
  BY <1>3, <1>9 DEF Finish, Timeout, Killed, Late
<1>10. CASE LauncherStep(r)
  BY <1>3, <1>10 DEF LauncherStep, Launched
<1>11. CASE Spawn(r) \/ Exits(r)
  <2>1. UNCHANGED <<pc, core>>
    BY <1>11 DEF Spawn, Exits
  <2>2. QED
    BY <1>1, <1>2, <1>3, <2>1 DEF Counted, Launched
<1>12. QED
  BY <1>5, <1>6, <1>7, <1>8, <1>9, <1>10, <1>11 DEF StepOf, Sdk

LEMMA CountStep ==
    ASSUME TypeOK, ProcessInv, CountInv, [Next]_vars
    PROVE  CountInv'
<1>1. used' >= used /\ used \in Nat /\ used' \in Nat
  <2>1. used' = used \/ used' = used + 1
    BY DEF vars, Next, Sdk, Check, Record, LookUp, Probe, ProbeRaises, Judge, Verify, Launch,
           LaunchBare, Finish, Timeout, Killed, SinkFails, LauncherStep, Spawn, Exits, Refresh, Replace
  <2>2. used \in Nat
    BY SandboxAssumption DEF TypeOK
  <2>3. QED
    BY <2>1, <2>2
<1>2. CASE Counted' \subseteq Counted
  <2>1. IsFiniteSet(Counted') /\ Cardinality(Counted') <= Cardinality(Counted)
    BY <1>2, FS_Subset DEF CountInv
  <2>2. Cardinality(Counted) \in Nat /\ Cardinality(Counted') \in Nat
    BY <2>1, FS_CardinalityType DEF CountInv
  <2>3. QED
    BY <1>1, <2>1, <2>2 DEF CountInv
<1>3. CASE ~(Counted' \subseteq Counted)
  <2>1. PICK r \in Counted' : r \notin Counted
    BY <1>3
  <2>2. Check(r) /\ used' = used + 1 /\ r \in Runs
    BY <2>1, NewlyCounted DEF Counted
  <2>3. Counted' \subseteq Counted \cup {r}
    <3>1. pc' \in {[pc EXCEPT ![r] = "admitted"], [pc EXCEPT ![r] = "denied"]} /\ core' = core
      BY <2>2 DEF Check
    <3>2. \A d \in Runs \ {r} : pc'[d] = pc[d]
      BY <3>1 DEF TypeOK
    <3>3. QED
      BY <3>1, <3>2 DEF Counted, Launched
  <2>4. IsFiniteSet(Counted \cup {r}) /\ Cardinality(Counted \cup {r}) = Cardinality(Counted) + 1
    BY <2>1, FS_AddElement DEF CountInv
  <2>5. IsFiniteSet(Counted') /\ Cardinality(Counted') <= Cardinality(Counted \cup {r})
    BY <2>3, <2>4, FS_Subset
  <2>6. Cardinality(Counted) \in Nat /\ Cardinality(Counted') \in Nat
    BY <2>5, FS_CardinalityType DEF CountInv
  <2>7. QED
    BY <1>1, <2>2, <2>4, <2>5, <2>6 DEF CountInv
<1>4. QED
  BY <1>2, <1>3

LEMMA StepInvariant == IInv /\ [Next]_vars => IInv'
BY TypeStep, ProcessStep, VerifiedStep, TrailStep, ExecutedStep, GroundsStep, HostStep, CountStep
   DEF IInv

LEMMA Invariance == Spec => []IInv
BY InitInv, StepInvariant, PTL DEF Spec

\* Every variable has its type, and the engine never counts more than it admits
\* (sandbox.py:338-348).
THEOREM TypeCorrect == Spec => []TypeOK
<1>1. IInv => TypeOK
  BY DEF IInv
<1>2. QED
  BY <1>1, Invariance, PTL

\* However many runs share the host, and whatever is replaced, probed or refreshed
\* meanwhile, a command runs with what its policy requires in force, or degraded,
\* with leave and on record, or under a program that nothing vouches for
\* (sandbox.py:348-374, :388-396, :418).
THEOREM CommandsAreCovered == Spec => []CommandNeverUncovered
<1>1. IInv => CommandNeverUncovered
  <2> SUFFICES ASSUME IInv, NEW r \in Runs, Commanded(r)
               PROVE  \/ core[r].state = "running" /\ Controls \subseteq core[r].inforce
                      \/ core[r].state = "running" /\ Unvouched(r)
                      \/ /\ core[r].state = "bare" /\ args[r].allow_degraded
                         /\ ~covers(caps[r]) /\ "degraded" \in Written(r)
    BY DEF CommandNeverUncovered
  <2>1. ProcessOf(r) /\ VerifiedOf(r) /\ GroundsOf(r)
    BY DEF IInv, ProcessInv, VerifiedInv, GroundsInv
  <2>2. QED
    BY <2>1 DEF ProcessOf, VerifiedOf, GroundsOf, Unvouched, Commanded
<1>2. QED
  BY <1>1, Invariance, PTL

\* What the trail or the caller is told was refused has not been started, however the
\* sink fails and whatever stands in the place of the core; what the engine refuses
\* has not even had the core probed (sandbox.py:338-343, :360-364, :391-396).
THEOREM RefusedIsNeverRun == Spec => []RefusalsNeverRun
<1>1. IInv => RefusalsNeverRun
  <2> SUFFICES ASSUME IInv, NEW r \in Runs
               PROVE  /\ Launched(r) \/ executed[r] # {} => "allow" \in Written(r)
                      /\ "deny" \in Written(r) \/ outcome[r] = "violation" => executed[r] = {}
                      /\ \/ Written(r) \cap {"deny", "containment_unavailable", "integrity"} # {}
                         \/ outcome[r] \in {"violation", "unavailable", "integrity"}
                         => ~Launched(r)
    BY DEF RefusalsNeverRun
  <2>1. TrailOf(r) /\ ExecutedOf(r)
    BY DEF IInv, TrailInv, ExecutedInv
  <2>2. QED
    BY <2>1 DEF TrailOf, ExecutedOf
<1>2. QED
  BY <1>1, Invariance, PTL

\* On a host that has always been healthy and can enforce the policy no run is
\* refused or degraded, whenever it probes (sandbox.py:112-120, :226-237, :345-348).
THEOREM NeverNeedlesslyRefused == Spec => []NoNeedlessRefusal
<1>1. IInv => NoNeedlessRefusal
  <2> SUFFICES ASSUME IInv, healthy, requires \subseteq kernel, NEW r \in Runs,
                      Written(r) \cap {"containment_unavailable", "degraded"} # {}
               PROVE  FALSE
    BY DEF NoNeedlessRefusal
  <2>1. caps[r] # Unprobed /\ ~covers(caps[r]) /\ caps[r] \in {Unprobed, Answer}
    BY DEF IInv, GroundsInv, GroundsOf, HostInv
  <2>2. covers(Answer)
    BY DEF covers, can_contain, Answer
  <2>3. QED
    BY <2>1, <2>2
<1>2. QED
  BY <1>1, Invariance, PTL

\* Of a run that has overrun, whatever its tree was, the process group is gone when
\* it is answered (sandbox.py:456-462).
THEOREM TimeoutsEndGroups == Spec => []TimeoutEndsGroup
<1>1. IInv => TimeoutEndsGroup
  BY DEF IInv, ProcessInv, ProcessOf, TimeoutEndsGroup
<1>2. QED
  BY <1>1, Invariance, PTL

\* Any number of concurrent runs start no more processes than the engine admits
\* (sandbox.py:338).
THEOREM StartsAreCounted == Spec => []StartsWithinCalls
<1>1. IInv => StartsWithinCalls
  <2> SUFFICES ASSUME IInv PROVE Cardinality({r \in Runs : Launched(r)}) <= MaxCalls
    BY DEF StartsWithinCalls
  <2>1. {r \in Runs : Launched(r)} \subseteq Counted
    BY DEF Counted
  <2>2. /\ Cardinality({r \in Runs : Launched(r)}) <= Cardinality(Counted)
        /\ IsFiniteSet({r \in Runs : Launched(r)})
    BY <2>1, FS_Subset DEF IInv, CountInv
  <2>3. Cardinality(Counted) \in Nat /\ Cardinality({r \in Runs : Launched(r)}) \in Nat
    BY <2>2, FS_CardinalityType DEF IInv, CountInv
  <2>4. Cardinality(Counted) <= used /\ used \in 0 .. MaxCalls /\ MaxCalls \in Nat
    BY SandboxAssumption DEF IInv, CountInv, TypeOK
  <2>5. QED
    BY <2>2, <2>3, <2>4
<1>2. QED
  BY <1>1, Invariance, PTL

-----------------------------------------------------------------------------
\* What a step may do to the process of a run: start it, once, bare or as a launcher
\* that is at its beginning; or let the launcher, if it is the genuine one, do what a
\* launcher does.
OneProcess(r) ==
    \/ core'[r] = core[r]
    \/ core[r] = NoCore /\ core'[r] = Bare
    \/ core[r] = NoCore /\ core'[r].strict /\ Core(r)!Init'
    \/ /\ core[r].strict /\ core'[r].strict /\ core'[r].from = core[r].from
       /\ Core(r)!Next \/ core[r].from = "other"

LEMMA OneProcessStep ==
    ASSUME TypeOK, ProcessInv, [Next]_vars, NEW r \in Runs
    PROVE  OneProcess(r)
<1>1. ProcessOf(r) /\ Controls' = Controls
  BY HostIsGiven DEF ProcessInv
<1>2. CASE core'[r] = core[r]
  BY <1>2 DEF OneProcess
<1>3. CASE Launch(r) \/ LaunchBare(r)
  <2>1. core[r] = NoCore
    BY <1>1, <1>3 DEF Launch, LaunchBare, ProcessOf, Early
  <2>2. core'[r] \in {NoCore, Bare, Starting}
    BY <1>3, <2>1 DEF Launch, LaunchBare, BeginCore, Begin, CannotBegin, Starting, TypeOK
  <2>3. CASE core'[r] = Starting
    BY <2>1, <2>3 DEF OneProcess, Core!Init, Starting, NoCore
  <2>4. QED
    BY <2>1, <2>2, <2>3 DEF OneProcess
<1>4. CASE LauncherStep(r)
  <2>1. PICK c \in Cores : /\ c.strict = core[r].strict /\ c.from = core[r].from
                           /\ core' = [core EXCEPT ![r] = c]
                           /\ Core(r)!Next \/ core[r].from = "other"
    BY <1>4 DEF LauncherStep, Owes
  <2>2. core'[r] = c
    BY <2>1 DEF TypeOK
  <2>3. QED
    BY <1>1, <2>1, <2>2 DEF OneProcess, ProcessOf
<1>5. CASE Timeout(r)
  <2>1. core[r] \in Cores \cup {NoCore, Bare} /\ core[r].state # "none" /\ core[r].strict
    BY <1>1, <1>5 DEF Timeout, Killed, TypeOK, ProcessOf, Late, Launched
  <2>2. core'[r] = [core[r] EXCEPT !.state = IF @ = "bare" THEN @ ELSE "stopped"]
    BY <1>5 DEF Timeout, Killed, TypeOK
  <2>3. CASE core[r].state = "bare"
    BY <2>1, <2>2, <2>3 DEF OneProcess, Cores, NoCore, Bare
  <2>4. CASE core[r].state # "bare"
    <3>1. /\ core'[r].state = "stopped" /\ core'[r].strict
          /\ core'[r].told = core[r].told /\ core'[r].inforce = core[r].inforce
          /\ core'[r].strict = core[r].strict /\ core'[r].from = core[r].from
      BY <2>1, <2>2, <2>4 DEF Cores, NoCore, Bare
    <3>2. Core(r)!Next
      BY <1>1, <3>1 DEF Core!Next, Core!Stop
    <3>3. QED
      BY <2>1, <3>1, <3>2 DEF OneProcess
  <2>5. QED
    BY <2>3, <2>4
<1>6. CASE \/ Check(r) \/ LookUp(r) \/ Probe(r) \/ ProbeRaises(r) \/ Judge(r) \/ Verify(r)
           \/ Record(r) \/ SinkFails(r) \/ Spawn(r) \/ Exits(r) \/ Finish(r)
  BY <1>2, <1>6
     DEF Check, LookUp, Probe, ProbeRaises, Judge, Verify, Record, SinkFails, Spawn, Exits, Finish
<1>7. CASE UNCHANGED Seen(r)
  BY <1>2, <1>7 DEF Seen
<1>8. QED
  BY <1>3, <1>4, <1>5, <1>6, <1>7, OthersAreUntouched DEF StepOf, Sdk

\* A run starts one process and no other for its command, and what it starts under
\* the core is a strict launcher that, unless another program is in its place, does
\* as Launcher.tla says from its beginning on, also when its timeout passes: so what
\* the cores are proved to implement is what the run relies on (sandbox.py:399-463).
THEOREM RunsStartOneLauncher == Spec => [][\A r \in Runs : OneProcess(r)]_vars
<1>1. IInv /\ [Next]_vars => [\A r \in Runs : OneProcess(r)]_vars
  BY OneProcessStep DEF IInv
<1>2. QED
  BY <1>1, Invariance, PTL DEF Spec

=============================================================================
