----------------------- MODULE WindowsCoreProperties -----------------------
(***************************************************************************)
(* What a Windows launcher guarantees about its command, its report and the*)
(* paths it shares with other launchers.                                   *)
(***************************************************************************)
EXTENDS WindowsCore

Steps == {"idle", "invoked", "granting", "limited", "created", "assigned", "resumed",
          "waiting", "revoking", "exited", "killed"}

Reports ==
    [contained : BOOLEAN, network : {"unset", "unrestricted", "denied", "allowed"}]
Entries == [path : Paths, right : Rights]
Aces == [sid : Pids, right : Rights]

\* Every variable has its type, and a started launcher has an id
\* (win_contain.rs:38-92, win_appcontainer.rs:42-46).
TypeOK ==
    /\ pc \in [Launchers -> Steps]
    /\ policy \in [Launchers -> Policies]
    /\ pid \in [Launchers -> Pids \cup {None}]
    /\ \A l \in Launchers : pid[l] = None <=> pc[l] = "idle"
    /\ todo \in [Launchers -> SUBSET Entries]
    /\ edit \in [Launchers -> [entry : Entries, old : SUBSET Aces] \cup {None}]
    /\ granted \in [Launchers -> SUBSET Entries]
    /\ job \in [Launchers -> {"none", "open", "closed"}]
    /\ injob \in [Launchers -> BOOLEAN]
    /\ boxed \in [Launchers -> BOOLEAN]
    /\ child \in [Launchers -> {"none", "suspended", "running", "ended", "aborted"}]
    /\ tree \in [Launchers -> BOOLEAN]
    /\ report \in [Launchers -> Reports]
    /\ file \in [Launchers -> {"absent", "part", "whole"}]
    /\ acl \in [Paths -> SUBSET Aces]
    /\ profiles \subseteq Pids
    /\ failures \in 0 .. MaxFailures
    /\ kills \in 0 .. MaxKills

\* While the command or what it started runs, it is in a job that is open, and
\* in a container that is registered if its policy names a path or denies the
\* network, whichever calls have failed (win_contain.rs:9-10, 219-228).
CommandConfined ==
    \A l \in Launchers :
       child[l] = "running" \/ tree[l] =>
          /\ injob[l] /\ job[l] = "open"
          /\ needs_appcontainer(l) => boxed[l] /\ Sid(l) \in profiles

\* The tree dies with its launcher, however that ends, and a launcher that ends by
\* itself leaves no process behind, not even a suspended one
\* (win_contain.rs:4-5, 219-226).
TreeDiesWithLauncher ==
    \A l \in Launchers :
       /\ pc[l] \in {"exited", "killed"} => child[l] # "running" /\ ~tree[l]
       /\ pc[l] \in {"revoking", "exited"} => child[l] \notin {"running", "suspended"}

\* A command in the container of an id that no other launcher has had reaches no
\* path beyond its policy and nothing in another way, although lists are
\* overwritten by launchers that read them long ago (win_appcontainer.rs:5-8).
Reach(l) ==
    {e \in Entries : [sid |-> Sid(l), right |-> e.right] \in acl[e.path]}

OwnPathsOnly ==
    \A l \in Launchers :
       /\ child[l] = "running" /\ boxed[l]
       /\ \A m \in Launchers \ {l} : pid[m] # pid[l]
       => Reach(l) \subseteq EntriesOf(policy[l])

\* A report that can be read says "contained" of a command that was resumed, or
\* could not be, in its job, and otherwise no command has run; and the network of
\* a command it calls denied is (win_contain.rs:69-91, 168-172).
ReportIsHonest ==
    \A l \in Launchers :
       file[l] = "whole" =>
          /\ report[l].contained => injob[l]
          /\ ~report[l].contained => child[l] \in {"none", "aborted"}
          /\ report[l].network = "denied" /\ report[l].contained => boxed[l]

-----------------------------------------------------------------------------
\* A launcher as the SDK sees it.  The policy's restrictions come with the
\* container, the base control is the job.
Required(l) ==
    {"base"}
    \cup (IF policy[l].read \cup policy[l].write # {} THEN {"filesystem"} ELSE {})
    \cup (IF policy[l].network = "deny" THEN {"network"} ELSE {})

InForce(l) ==
    (IF injob[l] THEN {"base"} ELSE {})
    \cup (IF boxed[l] THEN {"filesystem"} ELSE {})
    \cup (IF boxed[l] /\ policy[l].network = "deny" THEN {"network"} ELSE {})

Phase(l) ==
    CASE pc[l] \in {"revoking", "exited", "killed"} -> "stopped"
      [] pc[l] \notin {"revoking", "exited", "killed"} /\ child[l] \in {"running", "ended"} ->
            "running"
      [] pc[l] \notin {"revoking", "exited", "killed"} /\ child[l] \notin {"running", "ended"} ->
            "starting"

Told(l) ==
    CASE file[l] # "whole" -> "nothing"
      [] file[l] = "whole" /\ report[l].contained -> "contained"
      [] file[l] = "whole" /\ ~report[l].contained -> "uncontained"

Abstract(l) == INSTANCE Launcher WITH
    required <- Required(l),
    strict <- TRUE,
    state <- Phase(l),
    inforce <- InForce(l),
    told <- Told(l)

BeginAsLaunchers == \A l \in Launchers : Abstract(l)!Init
StepAsLaunchers ==
    \A l \in Launchers :
       \/ Abstract(l)!Next
       \/ UNCHANGED <<Required(l), Phase(l), InForce(l), Told(l)>>

\* Every launcher implements the launcher of Launcher.tla, strictly: one resume,
\* after the container and the job, and a report that is written while the
\* command runs (win_contain.rs:38-92).
ImplementsLauncher == BeginAsLaunchers /\ [][StepAsLaunchers]_vars

-----------------------------------------------------------------------------
(***************************************************************************)
(* The inductive invariant behind these properties.                        *)
(***************************************************************************)

\* The command, its job and its container go through the launcher's steps with
\* it; a killed launcher may leave a command that was never resumed.
Creating == {"idle", "invoked", "granting", "limited"}
StepsOf(l) ==
    /\ pc[l] \in Creating => child[l] = "none" /\ ~injob[l] /\ ~boxed[l]
    /\ pc[l] = "created" => child[l] = "suspended" /\ ~injob[l]
    /\ pc[l] = "assigned" => child[l] = "suspended" /\ injob[l]
    /\ pc[l] \in {"resumed", "waiting"} =>
          child[l] \in {"suspended", "running", "ended"} /\ injob[l] /\ report[l].contained
    /\ pc[l] \in {"revoking", "exited"} => child[l] \in {"none", "aborted", "ended"}
    /\ pc[l] = "killed" => child[l] # "running"
    /\ pc[l] \in {"limited", "created", "assigned", "resumed", "waiting"} => job[l] = "open"
    /\ pc[l] \notin Creating /\ child[l] # "none" => (boxed[l] <=> needs_appcontainer(l))
    /\ tree[l] => pc[l] \in {"resumed", "waiting"} /\ child[l] \in {"running", "ended"}
    /\ child[l] \in {"running", "ended"} => injob[l] /\ report[l].contained
    /\ injob[l] => child[l] # "none" /\ (child[l] = "aborted" => pc[l] = "killed")
StepInv == \A l \in Launchers : StepsOf(l)

\* What is reported has been done, or given up.
ReportOf(l) ==
    /\ report[l].contained => injob[l]
    /\ pc[l] \in Creating \cup {"created", "assigned"} => ~report[l].contained
    /\ pc[l] \in Creating \cup {"created", "assigned", "resumed"} => file[l] = "absent"
    /\ file[l] # "absent" => report[l].contained \/ child[l] \in {"none", "aborted"}
    /\ report[l].network = "denied" => needs_appcontainer(l)
ReportInv == \A l \in Launchers : ReportOf(l)

\* Ids are those of live launchers' own, and so are their containers.
IdsInv ==
    /\ \A l, m \in Launchers : l # m /\ Live(l) /\ pid[l] = pid[m] => ~Live(m)
    /\ \A l \in Launchers :
          Live(l) /\ pc[l] # "invoked" /\ needs_appcontainer(l) => Sid(l) \in profiles

\* An entry is one that some launcher of its id may grant, in a list that was read
\* as well as in one that is set.
Grantable(ace, path) ==
    \E m \in Launchers :
       pid[m] = ace.sid /\ [path |-> path, right |-> ace.right] \in EntriesOf(policy[m])
ListsOf(l) ==
    /\ todo[l] \subseteq EntriesOf(policy[l])
    /\ granted[l] \subseteq EntriesOf(policy[l])
    /\ edit[l] # None =>
          /\ pc[l] \in {"granting", "revoking"}
          /\ edit[l].entry \in EntriesOf(policy[l])
          /\ \A ace \in edit[l].old : Grantable(ace, edit[l].entry.path)
AclInv ==
    /\ \A path \in Paths : \A ace \in acl[path] : Grantable(ace, path)
    /\ \A l \in Launchers : ListsOf(l)

IInv ==
    /\ TypeOK
    /\ StepInv
    /\ ReportInv
    /\ IdsInv
    /\ AclInv

-----------------------------------------------------------------------------
\* What the documentation says and the code does not do.

\* The entries granted to a container are gone when its launcher has ended by
\* itself ("revoked when the sandbox is dropped, so the change does not outlive
\* the run", win_appcontainer.rs:12-14).
GrantsEndWithRun ==
    \A l \in Launchers :
       /\ pc[l] = "exited"
       /\ \A m \in Launchers \ {l} : pid[m] # pid[l]
       => Reach(l) = {}

=============================================================================
