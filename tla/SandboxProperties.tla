-------------------------- MODULE SandboxProperties --------------------------
(***************************************************************************)
(* What sandbox.run() guarantees about the commands it starts, the records *)
(* it writes and the answers it gives.                                     *)
(***************************************************************************)
EXTENDS Sandbox

Points == AuditPoints \cup {"idle", "lookup", "probing", "judging", "verifying", "launch",
                            "bare", "waiting", "draining", "ended"}
Lines == {"allow", "deny", "containment_unavailable", "degraded", "integrity", "contained"}
Outcomes == {"none", "violation", "unavailable", "integrity", "error", "contained", "degraded"}

\* Every variable has its type, a run goes by the capabilities of a probe once it
\* has looked them up, and the engine never counts more than it admits
\* (sandbox.py:338-348).
TypeOK ==
    /\ requires \in Requirements
    /\ kernel \subseteq OSLimits
    /\ listed \in BOOLEAN
    /\ binary \in {"none", "genuine", "other"}
    /\ healthy \in BOOLEAN
    /\ used \in 0 .. MaxCalls
    /\ cache \in Capabilities \cup {Unprobed}
    /\ failures \in 0 .. MaxFailures
    /\ args \in [Runs -> Options]
    /\ pc \in [Runs -> Points]
    /\ caps \in [Runs -> Capabilities \cup {Unprobed}]
    /\ core \in [Runs -> Cores \cup {NoCore, Bare}]
    /\ procs \in [Runs -> SUBSET (Group \cup {"escaped"})]
    /\ checked \in [Runs -> {"nothing", "none", "genuine", "other"}]
    /\ executed \in [Runs -> SUBSET {"genuine", "other"}]
    /\ overran \in [Runs -> BOOLEAN]
    /\ trail \in [Runs -> Seq(Lines)]
    /\ outcome \in [Runs -> Outcomes]
    /\ \A r \in Runs :
          /\ pc[r] \in {"judging", "verifying", "launch", "waiting"} => caps[r] # Unprobed
          /\ pc[r] = "ended" <=> outcome[r] # "none"

Launched(r) == core[r].state # "none"
Written(r) == {trail[r][i] : i \in DOMAIN trail[r]}

\* The binary a run has started its command under was not held against the manifest,
\* because the caller did not ask for it or the manifest has no entry, or is not the
\* one that was.
Unvouched(r) ==
    /\ core[r].from = "other"
    /\ ~args[r].verify_integrity \/ ~listed \/ checked[r] # "other"

\* A command runs with what its policy requires in force; or the caller has
\* allowed it to run degraded, the host could not cover the policy, and the trail
\* says so before the command starts; or another program stands where the core
\* should, and nothing vouches for it: it was not to be verified, or it took the
\* place of the one that was after it was verified (sandbox.py:348-374, :388-396, :418).
CommandNeverUncovered ==
    \A r \in Runs : Commanded(r) =>
        \/ core[r].state = "running" /\ Controls \subseteq core[r].inforce
        \/ core[r].state = "running" /\ Unvouched(r)
        \/ /\ core[r].state = "bare"
           /\ args[r].allow_degraded
           /\ ~covers(caps[r])
           /\ "degraded" \in Written(r)

\* What the trail or the caller is told was refused has not been started: the command
\* of such a run never ran, bare or under the core.  What the engine refuses has
\* executed nothing at all; what is refused afterwards, for the containment or for
\* the integrity of the core, has at most executed the core with --probe.  And
\* nothing is executed that the trail does not show as admitted
\* (sandbox.py:338-343, :360-364, :391-396).
RefusalsNeverRun ==
    \A r \in Runs :
        /\ Launched(r) \/ executed[r] # {} => "allow" \in Written(r)
        /\ "deny" \in Written(r) \/ outcome[r] = "violation" => executed[r] = {}
        /\ \/ Written(r) \cap {"deny", "containment_unavailable", "integrity"} # {}
           \/ outcome[r] \in {"violation", "unavailable", "integrity"}
           => ~Launched(r)

\* However many runs go on at once, no more processes are started than the engine
\* admits (sandbox.py:338).
StartsWithinCalls == Cardinality({r \in Runs : Launched(r)}) <= MaxCalls

\* On a host that can enforce what the policy requires, where the core has always
\* been in place and every probe answered, no run is refused or degraded for
\* lack of containment (sandbox.py:112-120, :226-237, :345-348).
NoNeedlessRefusal ==
    healthy /\ requires \subseteq kernel =>
        \A r \in Runs : Written(r) \cap {"containment_unavailable", "degraded"} = {}

\* When a run that has overrun its timeout is answered, nothing of the process
\* group it started is left, also of children that hold no pipe
\* (sandbox.py:456-471).
TimeoutEndsGroup ==
    \A r \in Runs : overran[r] /\ pc[r] \in {"collected", "ended"} => procs[r] \cap Group = {}

\* A run with a timeout is answered whatever the command and the launcher do, unless
\* a process has left the session (sandbox.py:443-463).
TimedRunsEnd ==
    \A r \in Runs :
        args[r].timed /\ pc[r] = "waiting" ~> pc[r] = "ended" \/ "escaped" \in procs[r]

-----------------------------------------------------------------------------
(***************************************************************************)
(* The inductive invariant behind the safety properties.                   *)
(***************************************************************************)

\* The points of run() before a process is started.
Early == {"idle", "admitted", "denied", "lookup", "probing", "judging", "refused", "degrading",
          "verifying", "untrusted", "launch", "bare"}
Late == {"waiting", "draining", "collected"}

\* The process a run has started, if any, and what is in force in it.
ProcessOf(r) ==
    /\ pc[r] \in Early => core[r] = NoCore /\ procs[r] = {} /\ ~overran[r]
    /\ pc[r] \in Late => Launched(r)
    /\ core[r].strict
    /\ core[r].state = "running" /\ core[r].from # "other" => Controls \subseteq core[r].inforce
    /\ overran[r] => pc[r] # "waiting" /\ procs[r] \cap Group = {}
ProcessInv == \A r \in Runs : ProcessOf(r)

\* What is about to be started under the core, or was, has been verified.
VerifiedOf(r) ==
    pc[r] = "launch" \/ core[r].from # "none" =>
        ~args[r].verify_integrity \/ ~listed \/ checked[r] = "genuine"
VerifiedInv == \A r \in Runs : VerifiedOf(r)

\* What a run has written on its way there.
TrailOf(r) ==
    /\ pc[r] \in {"idle", "admitted", "denied"} => Written(r) = {}
    /\ pc[r] \in Early \ {"idle", "admitted", "denied", "bare"} => Written(r) = {"allow"}
    /\ pc[r] = "bare" => Written(r) = {"allow", "degraded"}
    /\ Launched(r) => /\ "allow" \in Written(r)
                      /\ Written(r) \subseteq {"allow", "degraded", "contained"}
                      /\ outcome[r] \notin {"violation", "unavailable", "integrity"}
TrailInv == \A r \in Runs : TrailOf(r)

\* Whose run has executed anything.
ExecutedOf(r) ==
    /\ pc[r] \in {"idle", "admitted", "denied"} => executed[r] = {}
    /\ executed[r] # {} => /\ "allow" \in Written(r)
                           /\ "deny" \notin Written(r)
                           /\ outcome[r] # "violation"
ExecutedInv == \A r \in Runs : ExecutedOf(r)

\* Why a run was refused or degraded, and with whose leave.
GroundsOf(r) ==
    /\ \/ pc[r] \in {"refused", "degrading", "bare"} \/ core[r].state = "bare"
       \/ Written(r) \cap {"containment_unavailable", "degraded"} # {}
       => caps[r] # Unprobed /\ ~covers(caps[r])
    /\ pc[r] \in {"degrading", "bare"} \/ core[r].state = "bare" => args[r].allow_degraded
    /\ core[r].state = "bare" => "degraded" \in Written(r)
GroundsInv == \A r \in Runs : GroundsOf(r)

\* On a healthy host every run goes by what the kernel has.
HostInv ==
    healthy => /\ binary # "none"
               /\ cache \in {Unprobed, Answer}
               /\ \A r \in Runs : caps[r] \in {Unprobed, Answer}

\* What is started, or may still be, has been counted.
Counted == {r \in Runs : pc[r] \in Early \ {"idle", "denied"} \/ Launched(r)}
CountInv == IsFiniteSet(Counted) /\ Cardinality(Counted) <= used

IInv ==
    /\ TypeOK
    /\ ProcessInv
    /\ VerifiedInv
    /\ TrailInv
    /\ ExecutedInv
    /\ GroundsInv
    /\ HostInv
    /\ CountInv

-----------------------------------------------------------------------------
(***************************************************************************)
(* What the documentation says and the code does not do.                   *)
(***************************************************************************)

\* "True if OS containment was actually applied." (sandbox.py:170), also where the
\* core is the genuine one.
ContainedMeansApplied ==
    \A r \in Runs :
        outcome[r] = "contained" /\ core[r].from = "genuine" => core[r].told # "uncontained"

\* "Before the SDK runs that binary it recomputes the SHA-256 and refuses one that
\* does not match" (README.md:71-73); "At runtime the SDK recomputes the hash and
\* refuses to run a binary that does not match" (integrity.py:10-11).
VerifiedBeforeRunning ==
    \A r \in Runs : args[r].verify_integrity /\ listed => "other" \notin executed[r]

=============================================================================
