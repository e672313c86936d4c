------------------------- MODULE PolicyBuilderProofs -------------------------
(***************************************************************************)
(* What a built policy is fit for and what it means, whatever calls a      *)
(* program or a document makes and wherever the paths resolve.             *)
(***************************************************************************)
EXTENDS PolicyBuilderProperties, SequenceTheorems, TLAPS

-----------------------------------------------------------------------------
(***************************************************************************)
(* The calls that from_dict makes.                                         *)
(***************************************************************************)

\* What is in two lists, one after the other, is in one of them.
LEMMA Joined ==
    ASSUME NEW s, IsList(s), NEW t, IsList(t)
    PROVE  IsList(s \o t) /\ CallsIn(s \o t) = CallsIn(s) \cup CallsIn(t)
<1> DEFINE S == CallsIn(s) \cup CallsIn(t)
<1>1. s \in Seq(S) /\ t \in Seq(S)
  BY DEF IsList
<1>2. /\ s \o t \in Seq(S)
      /\ Len(s) \in Nat /\ Len(t) \in Nat /\ Len(s \o t) = Len(s) + Len(t)
      /\ DOMAIN s = 1 .. Len(s) /\ DOMAIN t = 1 .. Len(t)
      /\ DOMAIN (s \o t) = 1 .. Len(s) + Len(t)
      /\ \A i \in 1 .. Len(s) + Len(t) :
            (s \o t)[i] = IF i <= Len(s) THEN s[i] ELSE t[i - Len(s)]
  <2> HIDE DEF S
  <2>1. QED
    BY <1>1, ConcatProperties, LenProperties
<1>3. \A i \in DOMAIN s : (s \o t)[i] = s[i] /\ i \in DOMAIN (s \o t)
  BY <1>2
<1>4. ASSUME NEW i \in DOMAIN t
      PROVE  \E j \in DOMAIN (s \o t) : (s \o t)[j] = t[i]
  <2>1. /\ i + Len(s) \in 1 .. Len(s) + Len(t) /\ ~(i + Len(s) <= Len(s))
        /\ (i + Len(s)) - Len(s) = i
    BY <1>2
  <2>2. QED
    BY <1>2, <2>1
<1>5. ASSUME NEW i \in DOMAIN (s \o t)
      PROVE  (s \o t)[i] \in S
  <2>1. \/ i \in DOMAIN s /\ (s \o t)[i] = s[i]
        \/ i - Len(s) \in DOMAIN t /\ (s \o t)[i] = t[i - Len(s)]
    BY <1>2
  <2>2. QED
    BY <2>1 DEF CallsIn
<1>6. CallsIn(s \o t) = S
  BY <1>3, <1>4, <1>5 DEF CallsIn
<1>7. QED
  BY <1>2, <1>6 DEF IsList

\* What has a place for each number up to some number is a list.
LEMMA Numbered ==
    ASSUME NEW n \in Nat, NEW s, DOMAIN s = 1 .. n, s = [i \in DOMAIN s |-> s[i]]
    PROVE  IsList(s)
<1>1. s \in [1 .. n -> CallsIn(s)]
  BY DEF CallsIn
<1>2. s \in Seq(CallsIn(s))
  BY <1>1
<1>3. QED
  BY <1>2 DEF IsList

LEMMA NamesListed ==
    ASSUME NEW m, NEW value, IsList(Entries(value))
    PROVE  /\ IsList(ForNames(m, value))
           /\ \A call \in CallsIn(ForNames(m, value)) : call.method = m
           /\ \A x : x \in Listed(value) <=>
                 \E call \in CallsIn(ForNames(m, value)) : x \in call.names
<1>1. /\ Len(Entries(value)) \in Nat /\ DOMAIN Entries(value) = 1 .. Len(Entries(value))
  BY LenProperties DEF IsList
<1>2. /\ DOMAIN ForNames(m, value) = DOMAIN Entries(value)
      /\ ForNames(m, value) = [i \in DOMAIN ForNames(m, value) |-> ForNames(m, value)[i]]
      /\ \A i \in DOMAIN Entries(value) :
            /\ ForNames(m, value)[i].method = m
            /\ ForNames(m, value)[i].names = {Entries(value)[i]}
  BY DEF ForNames
<1>3. IsList(ForNames(m, value))
  BY <1>1, <1>2, Numbered
<1>4. /\ \A call \in CallsIn(ForNames(m, value)) : call.method = m
      /\ \A x : x \in Listed(value) <=>
            \E call \in CallsIn(ForNames(m, value)) : x \in call.names
  BY <1>2 DEF CallsIn, Listed
<1>5. QED
  BY <1>3, <1>4

LEMMA PathsListed ==
    ASSUME NEW m, NEW value, IsList(Entries(value))
    PROVE  /\ IsList(ForPaths(m, value))
           /\ \A call \in CallsIn(ForPaths(m, value)) : call.method = m
           /\ \A x : x \in Listed(value) <=>
                 \E call \in CallsIn(ForPaths(m, value)) : x \in call.paths
<1>1. /\ Len(Entries(value)) \in Nat /\ DOMAIN Entries(value) = 1 .. Len(Entries(value))
  BY LenProperties DEF IsList
<1>2. /\ DOMAIN ForPaths(m, value) = DOMAIN Entries(value)
      /\ ForPaths(m, value) = [i \in DOMAIN ForPaths(m, value) |-> ForPaths(m, value)[i]]
      /\ \A i \in DOMAIN Entries(value) :
            /\ ForPaths(m, value)[i].method = m
            /\ ForPaths(m, value)[i].paths = {Entries(value)[i]}
  BY DEF ForPaths
<1>3. IsList(ForPaths(m, value))
  BY <1>1, <1>2, Numbered
<1>4. /\ \A call \in CallsIn(ForPaths(m, value)) : call.method = m
      /\ \A x : x \in Listed(value) <=>
            \E call \in CallsIn(ForPaths(m, value)) : x \in call.paths
  BY <1>2 DEF CallsIn, Listed
<1>5. QED
  BY <1>3, <1>4

LEMMA ToolsListed ==
    ASSUME NEW specs, IsList(specs)
    PROVE  /\ IsList(ForTools(specs))
           /\ \A call \in CallsIn(ForTools(specs)) : call.method = "tool" /\ call.allow
           /\ {call.name : call \in CallsIn(ForTools(specs))} =
                 {specs[i].name : i \in DOMAIN specs}
<1>1. Len(specs) \in Nat /\ DOMAIN specs = 1 .. Len(specs)
  BY LenProperties DEF IsList
<1>2. /\ DOMAIN ForTools(specs) = DOMAIN specs
      /\ ForTools(specs) = [i \in DOMAIN ForTools(specs) |-> ForTools(specs)[i]]
      /\ \A i \in DOMAIN specs :
            /\ ForTools(specs)[i].method = "tool"
            /\ ForTools(specs)[i].allow
            /\ ForTools(specs)[i].name = specs[i].name
  BY DEF ForTools
<1>3. /\ \A call \in CallsIn(ForTools(specs)) : call.method = "tool" /\ call.allow
      /\ {call.name : call \in CallsIn(ForTools(specs))} = {specs[i].name : i \in DOMAIN specs}
  BY <1>2 DEF CallsIn
<1>4. IsList(ForTools(specs))
  BY <1>1, <1>2, Numbered
<1>5. QED
  BY <1>3, <1>4

LEMMA OneListed ==
    ASSUME NEW call
    PROVE  IsList(<<call>>) /\ CallsIn(<<call>>) = {call}
BY DEF IsList, CallsIn

LEMMA OptionallyListed ==
    ASSUME NEW condition, NEW call
    PROVE  /\ IsList(Optional(condition, call))
           /\ CallsIn(Optional(condition, call)) \subseteq {call}
<1>1. IsList(<<>>) /\ CallsIn(<<>>) = {}
  BY DEF IsList, CallsIn
<1>2. QED
  BY <1>1, OneListed DEF Optional

\* A document stands for calls of its tools, paths, network and numbers, in lists.
LEMMA DocumentListed ==
    ASSUME NEW doc \in Documents
    PROVE  /\ IsList(CallsOf(doc))
           /\ \E rest :
                 /\ \A call \in rest :
                       call.method \notin {"allow_tools", "deny_tools", "tool", "read_paths",
                                          "write_paths", "network"}
                 /\ CallsIn(CallsOf(doc)) =
                       CallsIn(ForNames("allow_tools", doc.allow))
                       \cup CallsIn(ForNames("deny_tools", doc.deny))
                       \cup CallsIn(ForTools(doc.args))
                       \cup CallsIn(ForPaths("read_paths", doc.read))
                       \cup CallsIn(ForPaths("write_paths", doc.write))
                       \cup {[method |-> "network", default |-> doc.default]}
                       \cup rest
<1>1. PICK s1, s2, s3, s4, s5, s6, s7, s8, s9, s10, s11, s12, s13 :
         /\ s1 = ForNames("allow_tools", doc.allow)
         /\ s2 = ForNames("deny_tools", doc.deny)
         /\ s3 = ForTools(doc.args)
         /\ s4 = ForPaths("read_paths", doc.read)
         /\ s5 = ForPaths("write_paths", doc.write)
         /\ s6 = <<[method |-> "network", default |-> doc.default]>>
         /\ s7 = ForHosts("allow_hosts", doc.allow_hosts)
         /\ s8 = ForHosts("deny_hosts", doc.deny_hosts)
         /\ s9 = Optional(doc.timeout # None, [method |-> "timeout", seconds |-> doc.timeout])
         /\ s10 = doc.calls
         /\ s11 = doc.rate
         /\ s12 = Optional(doc.limits # None, [method |-> "limits", limits |-> doc.limits])
         /\ s13 = doc.spend
  OBVIOUS
<1>2. IsList(s1) /\ IsList(s2) /\ IsList(s3) /\ IsList(s4) /\ IsList(s5)
  <2>1. /\ IsList(Entries(doc.allow)) /\ IsList(Entries(doc.deny))
        /\ IsList(Entries(doc.read)) /\ IsList(Entries(doc.write))
        /\ IsList(doc.args)
    BY DocumentsAssumption
  <2>2. QED
    BY <1>1, <2>1, NamesListed, PathsListed, ToolsListed
<1>3. /\ IsList(s6) /\ IsList(s7) /\ IsList(s8)
      /\ CallsIn(s6) = {[method |-> "network", default |-> doc.default]}
      /\ CallsIn(s7) = {[method |-> "allow_hosts", hosts |-> Entries(doc.allow_hosts)]}
      /\ CallsIn(s8) = {[method |-> "deny_hosts", hosts |-> Entries(doc.deny_hosts)]}
  BY <1>1, OneListed DEF ForHosts
<1>4. /\ IsList(s9) /\ IsList(s12)
      /\ CallsIn(s9) \subseteq {[method |-> "timeout", seconds |-> doc.timeout]}
      /\ CallsIn(s12) \subseteq {[method |-> "limits", limits |-> doc.limits]}
  BY <1>1, OptionallyListed
<1>5. /\ IsList(s10) /\ IsList(s11) /\ IsList(s13)
      /\ \A call \in CallsIn(s10) : call.method = "max_calls"
      /\ \A call \in CallsIn(s11) : call.method = "rate_limit"
      /\ \A call \in CallsIn(s13) : call.method = "spend_cap"
  BY <1>1, DocumentsAssumption
<1> DEFINE some == s1 \o s2 \o s3 \o s4 \o s5
           more == some \o s6 \o s7 \o s8 \o s9
           rest == CallsIn(s7) \cup CallsIn(s8) \cup CallsIn(s9) \cup CallsIn(s10)
                   \cup CallsIn(s11) \cup CallsIn(s12) \cup CallsIn(s13)
<1>6. /\ IsList(some)
      /\ CallsIn(some) = CallsIn(s1) \cup CallsIn(s2) \cup CallsIn(s3) \cup CallsIn(s4)
                         \cup CallsIn(s5)
  BY <1>2, Joined
<1>7. CallsOf(doc) = more \o s10 \o s11 \o s12 \o s13
  BY <1>1 DEF CallsOf
<1> HIDE DEF some
<1>8. /\ IsList(more)
      /\ CallsIn(more) = CallsIn(some) \cup CallsIn(s6) \cup CallsIn(s7) \cup CallsIn(s8)
                         \cup CallsIn(s9)
  BY <1>3, <1>4, <1>6, Joined
<1> HIDE DEF more
<1>9. /\ IsList(CallsOf(doc))
      /\ CallsIn(CallsOf(doc)) = CallsIn(more) \cup CallsIn(s10) \cup CallsIn(s11)
                                 \cup CallsIn(s12) \cup CallsIn(s13)
  BY <1>4, <1>5, <1>7, <1>8, Joined
<1>10. \A call \in rest :
          call.method \notin {"allow_tools", "deny_tools", "tool", "read_paths", "write_paths",
                             "network"}
  BY <1>3, <1>4, <1>5
<1>11. CallsIn(CallsOf(doc)) = CallsIn(s1) \cup CallsIn(s2) \cup CallsIn(s3) \cup CallsIn(s4)
                               \cup CallsIn(s5) \cup CallsIn(s6) \cup rest
  BY <1>6, <1>8, <1>9
<1> HIDE DEF rest
<1>12. QED
  BY <1>1, <1>3, <1>9, <1>10, <1>11

-----------------------------------------------------------------------------
(***************************************************************************)
(* Builders and policies are sound.                                        *)
(***************************************************************************)

\* A limit that is set is one more number where there were numbers.
LEMMA SetKeepsRange ==
    ASSUME NEW S, NEW f, NEW key, NEW value \in S, f \in [DOMAIN f -> S]
    PROVE  Set(f, key, value) \in [DOMAIN Set(f, key, value) -> S]
BY DEF Set

\* A call keeps the builder sound, whether it is taken in, raises, or does both.
LEMMA MakeKeepsSound ==
    ASSUME NEW call, WellTyped(call), Sound(builder), Make(call)
    PROVE  Sound(builder')
<1> USE DEF Sound, Fields, FitForEngine
<1>1. CASE allow_tools(call)
  BY <1>1 DEF allow_tools, Did, Allowlisted
<1>2. CASE deny_tools(call)
  BY <1>2 DEF deny_tools, Did
<1>3. CASE tool(call)
  BY <1>3 DEF tool, Did, Allowlisted
<1>4. CASE read_paths(call)
  BY <1>4 DEF read_paths, Did
<1>5. CASE write_paths(call)
  BY <1>5 DEF write_paths, Did
<1>6. CASE network(call)
  BY <1>6 DEF network, Did
<1>7. CASE allow_hosts(call) \/ deny_hosts(call)
  BY <1>7 DEF allow_hosts, deny_hosts, TakeHosts
<1>8. CASE max_calls(call)
  <2>1. call.n \in Nat BY <1>8 DEF max_calls, WellTyped
  <2>2. Set(builder.max_calls, call.tool, call.n)
            \in [DOMAIN Set(builder.max_calls, call.tool, call.n) -> Nat]
    BY <2>1, SetKeepsRange
  <2> QED BY <1>8, <2>2 DEF max_calls, Did
<1>9. CASE spend_cap(call)
  <2>1. call.n \in Nat BY <1>9 DEF spend_cap, WellTyped
  <2>2. Set(builder.spend_caps, call.tool, call.n)
            \in [DOMAIN Set(builder.spend_caps, call.tool, call.n) -> Nat]
    BY <2>1, SetKeepsRange
  <2> QED BY <1>9, <2>2 DEF spend_cap, Did
<1>10. CASE rate_limit(call)
  <2> DEFINE Rates == [max_calls : Nat \ {0}, window_seconds : Nat \ {0}]
  <2>1. LimitOf(call) \in Rates
    BY <1>10 DEF rate_limit, WellTyped, UnitGiven, LimitOf
  <2>2. Set(builder.rate_limits, call.tool, LimitOf(call))
            \in [DOMAIN Set(builder.rate_limits, call.tool, LimitOf(call)) -> Rates]
    BY <2>1, SetKeepsRange
  <2> QED BY <1>10, <2>2 DEF rate_limit, Did
<1>11. CASE timeout(call)
  BY <1>11 DEF timeout, Did
<1>12. CASE limits(call)
  BY <1>12 DEF limits, Did, WellTyped
<1>13. CASE Rejected(call)
  BY <1>13 DEF Rejected
<1> QED
  BY <1>1, <1>2, <1>3, <1>4, <1>5, <1>6, <1>7, <1>8, <1>9, <1>10, <1>11, <1>12, <1>13 DEF Make

\* What is built of a sound builder is sound, and what it writes it reads.
LEMMA PolicySound ==
    ASSUME Sound(builder)
    PROVE  Sound(Policy) /\ Policy.write_paths \subseteq Policy.read_paths
BY DEF Sound, Fields, FitForEngine, Policy

LEMMA InitIInv == ASSUME Init PROVE IInv
<1>1. Sound(builder)
  BY DEF Init, Sound, Fields, FitForEngine, Empty, NoLimits, LimitNames
<1>2. document # None => todo \in Seq(CallsIn(CallsOf(document)))
  BY DocumentListed DEF Init, IsList
<1>3. document \in Documents \cup {None} /\ built = {}
  BY DEF Init
<1> QED BY <1>1, <1>2, <1>3 DEF IInv

LEMMA NextIInv == ASSUME IInv, [Next]_vars PROVE IInv'
<1> USE DEF IInv
<1>1. CASE Call
  <2>1. PICK call \in Statements : Make(call) BY <1>1 DEF Call
  <2>2. Sound(builder') BY <2>1, StatementsAssumption, MakeKeepsSound
  <2>3. UNCHANGED <<document, todo, built>> BY <1>1 DEF Call
  <2> QED BY <2>2, <2>3
<1>2. CASE Load
  <2> DEFINE calls == CallsIn(CallsOf(document))
  <2>1. /\ document \in Documents /\ document # None /\ todo # <<>>
        /\ Make(Head(todo)) /\ todo' = Tail(todo) /\ UNCHANGED <<document, built>>
    BY <1>2 DEF Load
  <2>2. \A call \in calls : WellTyped(call)
    BY <2>1, DocumentsAssumption
  <2> HIDE DEF calls
  <2>3. Head(todo) \in calls /\ Tail(todo) \in Seq(calls)
    BY <2>1 DEF calls
  <2>4. Sound(builder') BY <2>1, <2>2, <2>3, MakeKeepsSound
  <2> QED BY <2>1, <2>3, <2>4 DEF calls
<1>3. CASE build
  <2>1. \A b \in built' : b \in built \/ b.policy = Policy
    BY <1>3 DEF build
  <2>2. UNCHANGED <<document, todo, builder>> BY <1>3 DEF build
  <2>3. \A b \in built' : Sound(b.policy) /\ b.policy.write_paths \subseteq b.policy.read_paths
    BY <2>1, PolicySound
  <2> QED BY <2>2, <2>3
<1>4. CASE Relink \/ UNCHANGED vars
  BY <1>4 DEF Relink, vars
<1> QED BY <1>1, <1>2, <1>3, <1>4 DEF Next

THEOREM Invariant == Spec => []IInv
BY InitIInv, NextIInv, PTL DEF Spec

\* Whatever calls are made, in whatever order, by a program or a document, a
\* policy that is built satisfies what the engine's theorems assume of it.
THEOREM EnginesAlwaysFit == Spec => []EnginesAreFit
<1>1. IInv => EnginesAreFit
  BY DEF IInv, EnginesAreFit, Sound
<1> QED BY <1>1, Invariant, PTL

-----------------------------------------------------------------------------
(***************************************************************************)
(* What a call adds to what was said.                                      *)
(***************************************************************************)

\* The history with one more entry, and what an earlier point of it keeps.
LEMMA OneMore ==
    ASSUME said \in Seq(Saids), NEW e \in Saids, said' = Append(said, e)
    PROVE  /\ said' \in Seq(Saids)
           /\ Len(said) \in Nat /\ Len(said') = Len(said) + 1
           /\ \A i \in 1 .. Len(said) : said'[i] = said[i]
           /\ said'[Len(said) + 1] = e
           /\ \A i \in 1 .. Len(said) : said[i] \in Saids
  BY AppendProperties, LenProperties

LEMMA OneMoreOf ==
    ASSUME said \in Seq(Saids), NEW e \in Saids, said' = Append(said, e), NEW method
    PROVE  Said(Len(said), method)' =
              Said(Len(said), method) \cup (IF e.method = method THEN {Len(said) + 1} ELSE {})
<1>1. /\ Len(said) \in Nat /\ Len(said') = Len(said) + 1
      /\ \A i \in 1 .. Len(said) : said'[i] = said[i]
      /\ said'[Len(said) + 1] = e
  BY OneMore
<1>2. Said(Len(said), method)' = {i \in 1 .. Len(said) + 1 : said'[i].method = method}
  BY <1>1 DEF Said
<1>3. 1 .. Len(said) + 1 = (1 .. Len(said)) \cup {Len(said) + 1}
  BY <1>1
<1>4. QED
  BY <1>1, <1>2, <1>3 DEF Said

\* What was said up to some point stays, whatever is said later.
LEMMA PastKept ==
    ASSUME said \in Seq(Saids), NEW e \in Saids, said' = Append(said, e),
           NEW after \in 0 .. Len(said), NEW method
    PROVE  /\ Said(after, method)' = Said(after, method)
           /\ NamesSaid(after, method)' = NamesSaid(after, method)
           /\ ToolsSaid(after)' = ToolsSaid(after)
           /\ PathsSaid(after, method)' = PathsSaid(after, method)
           /\ HostsSaid(after, method)' = HostsSaid(after, method)
           /\ \A i \in Said(after, method) : said'[i] = said[i]
<1>1. \A i \in 1 .. after : said'[i] = said[i]
  BY OneMore
<1>2. \A m : Said(after, m)' = Said(after, m) /\ \A i \in Said(after, m) : said'[i] = said[i]
  BY <1>1 DEF Said
<1>3. NamesSaid(after, method)' = NamesSaid(after, method)
  <2>1. {said'[i].names : i \in Said(after, method)} = {said[i].names : i \in Said(after, method)}
    BY <1>2
  <2>2. QED
    BY <1>2, <2>1 DEF NamesSaid
<1>4. PathsSaid(after, method)' = PathsSaid(after, method)
  <2>1. {said'[i].paths : i \in Said(after, method)} = {said[i].paths : i \in Said(after, method)}
    BY <1>2
  <2>2. QED
    BY <1>2, <2>1 DEF PathsSaid
<1>5. HostsSaid(after, method)' = HostsSaid(after, method)
  <2>1. HostsSaid(after, method)' = UNION {Rules(said'[i].hosts) : i \in Said(after, method)}
    BY <1>2 DEF HostsSaid
  <2>2. {Rules(said'[i].hosts) : i \in Said(after, method)}
        = {Rules(said[i].hosts) : i \in Said(after, method)}
    BY <1>2
  <2>3. QED
    BY <2>1, <2>2 DEF HostsSaid
<1>6. ToolsSaid(after)' = ToolsSaid(after)
  <2>1. {said'[i].name : i \in {j \in Said(after, "tool") : said'[j].allow}}
        = {said[i].name : i \in {j \in Said(after, "tool") : said[j].allow}}
    BY <1>2
  <2>2. QED
    BY <1>2, <2>1 DEF ToolsSaid
<1>7. QED
  BY <1>2, <1>3, <1>4, <1>5, <1>6

\* So does what the rules of a policy hold.
LEMMA RulesKept ==
    ASSUME said \in Seq(Saids), NEW e \in Saids, said' = Append(said, e),
           NEW after \in 0 .. Len(said), NEW policy, RulesHold(policy, after)
    PROVE  RulesHold(policy, after)'
<1>1. \A m : /\ Said(after, m)' = Said(after, m)
             /\ NamesSaid(after, m)' = NamesSaid(after, m)
             /\ ToolsSaid(after)' = ToolsSaid(after)
             /\ \A i \in Said(after, m) : said'[i] = said[i]
  BY PastKept
<1>2. ToolsHeld(policy, after)'
  BY <1>1 DEF RulesHold, ToolsHeld
<1>3. DefaultHeld(policy, after)'
  BY <1>1 DEF RulesHold, DefaultHeld, IsLast
<1>4. ASSUME NEW f, NEW m, NumbersHeld(f, after, m)
      PROVE  NumbersHeld(f, after, m)'
  <2>1. \A t : SaidFor(after, m, t)' = SaidFor(after, m, t)
    <3> TAKE t
    <3>1. SaidFor(after, m, t)' = {i \in Said(after, m) : Subject(said'[i]) = t}
      BY <1>1 DEF SaidFor
    <3>2. QED
      BY <1>1, <3>1 DEF SaidFor
  <2>2. ASSUME NEW t, NEW i \in SaidFor(after, m, t) PROVE Number(said[i])' = Number(said[i])
    BY <1>1 DEF SaidFor, Number, LimitOf
  <2>3. QED
    BY <1>4, <2>1, <2>2 DEF NumbersHeld, IsLast
<1>5. LimitsHeld(policy, after)' /\ TimeoutHeld(policy, after)'
  BY <1>1 DEF RulesHold, LimitsHeld, TimeoutHeld, IsLast
<1>6. /\ NumbersHeld(policy.max_calls, after, "max_calls")'
      /\ NumbersHeld(policy.spend_caps, after, "spend_cap")'
      /\ NumbersHeld(policy.rate_limits, after, "rate_limit")'
      /\ NumbersHeld(policy.tool_args, after, "tool")'
  BY <1>4 DEF RulesHold
<1>7. QED
  BY <1>2, <1>3, <1>5, <1>6 DEF RulesHold

\* And what a policy holds that was built.
LEMMA PolicyKept ==
    ASSUME said \in Seq(Saids), NEW e \in Saids, said' = Append(said, e),
           NEW b, PolicyHolds(b)
    PROVE  PolicyHolds(b)'
<1>1. b.after \in 0 .. Len(said) /\ b.after \in 0 .. Len(said')
  BY OneMore DEF PolicyHolds
<1>2. RulesHold(b.policy, b.after)'
  BY <1>1, RulesKept DEF PolicyHolds
<1>3. /\ PathsSaid(b.after, "write_paths")' = PathsSaid(b.after, "write_paths")
      /\ PathsSaid(b.after, "read_paths")' = PathsSaid(b.after, "read_paths")
      /\ HostsSaid(b.after, "allow_hosts")' = HostsSaid(b.after, "allow_hosts")
      /\ HostsSaid(b.after, "deny_hosts")' = HostsSaid(b.after, "deny_hosts")
  BY <1>1, PastKept
<1>4. QED
  BY <1>1, <1>2, <1>3 DEF PolicyHolds

-----------------------------------------------------------------------------
(***************************************************************************)
(* What a call changes in the builder.                                     *)
(***************************************************************************)

\* A call that is taken in is added to the history, a host call with the hosts
\* that were parsed.
LEMMA CallIsAdded ==
    ASSUME NEW call \in Sayable, WellTyped(call), Make(call)
    PROVE  \/ raised' /\ UNCHANGED <<builder, said>>
           \/ \E e \in Saids :
                 /\ said' = Append(said, e)
                 /\ e.method = call.method
                 /\ call.method \notin HostMethods => e = call
                 /\ call.method \in HostMethods => e.hosts = Parsed(call.hosts)
                 /\ ~raised' => e = call
<1>1. CASE allow_hosts(call) \/ deny_hosts(call)
  <2> DEFINE e == [method |-> call.method, hosts |-> Parsed(call.hosts)]
  <2>1. call.method \in HostMethods /\ call = [method |-> call.method, hosts |-> call.hosts]
    BY <1>1 DEF allow_hosts, deny_hosts, HostMethods, WellTyped
  <2>2. [call EXCEPT !.hosts = Parsed(@)] = e
    BY <2>1
  <2>3. /\ said' = Append(said, [call EXCEPT !.hosts = Parsed(@)])
        /\ ~raised' => Parsed(call.hosts) = call.hosts
    BY <1>1 DEF allow_hosts, deny_hosts, TakeHosts
  <2>4. e \in Saids
    BY <2>1 DEF Saids
  <2>5. e.method = call.method /\ e.hosts = Parsed(call.hosts)
    OBVIOUS
  <2>6. ~raised' => e = call
    BY <2>1, <2>3
  <2> HIDE DEF e
  <2>7. QED
    BY <2>1, <2>2, <2>3, <2>4, <2>5, <2>6
<1>2. CASE ~(allow_hosts(call) \/ deny_hosts(call)) /\ ~Rejected(call)
  <2>1. said' = Append(said, call) /\ call.method \notin HostMethods
    BY <1>2 DEF Make, allow_tools, deny_tools, tool, read_paths, write_paths, network, max_calls,
                spend_cap, rate_limit, timeout, limits, Did, HostMethods
  <2>2. call \in Saids
    BY DEF Saids
  <2>3. QED
    BY <2>1, <2>2
<1>3. CASE Rejected(call)
  BY <1>3 DEF Rejected
<1>4. QED
  BY <1>1, <1>2, <1>3

\* Each method changes its own fields, as it is told to, and no other.
LEMMA ToolFields ==
    ASSUME NEW call, Sound(builder), Make(call), ~Rejected(call)
    PROVE  /\ builder'.denied_tools = builder.denied_tools \cup
                  (IF call.method = "deny_tools" THEN call.names ELSE {})
           /\ builder'.allowed_tools =
                  IF Allowlists(call) = {} \/ (call.method = "tool" /\ ~call.allow)
                  THEN builder.allowed_tools
                  ELSE (IF builder.allowed_tools = None THEN {} ELSE builder.allowed_tools)
                       \cup Allowlists(call)
<1> USE DEF Sound, Fields, Allowlists
<1>1. CASE allow_tools(call)
  BY <1>1 DEF allow_tools, Did, Allowlisted
<1>2. CASE deny_tools(call)
  BY <1>2 DEF deny_tools, Did
<1>3. CASE tool(call)
  BY <1>3 DEF tool, Did, Allowlisted
<1>4. CASE read_paths(call) \/ write_paths(call) \/ network(call) \/ allow_hosts(call)
           \/ deny_hosts(call)
  BY <1>4 DEF read_paths, write_paths, network, allow_hosts, deny_hosts, Did, TakeHosts
<1>5. CASE max_calls(call) \/ spend_cap(call) \/ rate_limit(call) \/ timeout(call)
           \/ limits(call)
  BY <1>5 DEF max_calls, spend_cap, rate_limit, timeout, limits, Did
<1>6. QED
  BY <1>1, <1>2, <1>3, <1>4, <1>5 DEF Make

LEMMA BoundaryFields ==
    ASSUME NEW call, Sound(builder), Make(call), ~Rejected(call)
    PROVE  /\ builder'.read_paths = builder.read_paths \cup
                  (IF call.method = "read_paths" THEN call.paths ELSE {})
           /\ builder'.write_paths = builder.write_paths \cup
                  (IF call.method = "write_paths" THEN call.paths ELSE {})
           /\ builder'.network_allow_hosts = builder.network_allow_hosts \cup
                  (IF call.method = "allow_hosts" THEN Rules(Parsed(call.hosts)) ELSE {})
           /\ builder'.network_deny_hosts = builder.network_deny_hosts \cup
                  (IF call.method = "deny_hosts" THEN Rules(Parsed(call.hosts)) ELSE {})
           /\ builder'.network = IF call.method = "network" THEN call.default ELSE builder.network
<1> USE DEF Sound, Fields
<1>1. CASE allow_tools(call) \/ deny_tools(call) \/ tool(call)
  BY <1>1 DEF allow_tools, deny_tools, tool, Did, Allowlisted
<1>2. CASE read_paths(call)
  BY <1>2 DEF read_paths, Did
<1>3. CASE write_paths(call)
  BY <1>3 DEF write_paths, Did
<1>4. CASE network(call)
  BY <1>4 DEF network, Did
<1>5. CASE allow_hosts(call)
  BY <1>5 DEF allow_hosts, TakeHosts
<1>6. CASE deny_hosts(call)
  BY <1>6 DEF deny_hosts, TakeHosts
<1>7. CASE max_calls(call) \/ spend_cap(call) \/ rate_limit(call) \/ timeout(call)
           \/ limits(call)
  BY <1>7 DEF max_calls, spend_cap, rate_limit, timeout, limits, Did
<1>8. QED
  BY <1>1, <1>2, <1>3, <1>4, <1>5, <1>6, <1>7 DEF Make

LEMMA NumberFields ==
    ASSUME NEW call, Sound(builder), Make(call), ~Rejected(call)
    PROVE  /\ builder'.max_calls = IF call.method = "max_calls"
                  THEN Set(builder.max_calls, call.tool, Number(call)) ELSE builder.max_calls
           /\ builder'.spend_caps = IF call.method = "spend_cap"
                  THEN Set(builder.spend_caps, call.tool, Number(call)) ELSE builder.spend_caps
           /\ builder'.rate_limits = IF call.method = "rate_limit"
                  THEN Set(builder.rate_limits, call.tool, Number(call)) ELSE builder.rate_limits
           /\ builder'.tool_args = IF call.method = "tool"
                  THEN Set(builder.tool_args, call.name, Number(call)) ELSE builder.tool_args
           /\ builder'.timeout_seconds =
                  IF call.method = "timeout" THEN call.seconds ELSE builder.timeout_seconds
           /\ builder'.limits = IF call.method = "limits" THEN call.limits ELSE builder.limits
<1> USE DEF Sound, Fields, Number
<1>1. CASE allow_tools(call) \/ deny_tools(call)
  BY <1>1 DEF allow_tools, deny_tools, Did, Allowlisted
<1>2. CASE tool(call)
  BY <1>2 DEF tool, Did, Allowlisted
<1>3. CASE read_paths(call) \/ write_paths(call) \/ network(call)
  BY <1>3 DEF read_paths, write_paths, network, Did
<1>4. CASE allow_hosts(call) \/ deny_hosts(call)
  BY <1>4 DEF allow_hosts, deny_hosts, TakeHosts
<1>5. CASE max_calls(call)
  BY <1>5 DEF max_calls, Did
<1>6. CASE spend_cap(call)
  BY <1>6 DEF spend_cap, Did
<1>7. CASE rate_limit(call)
  BY <1>7 DEF rate_limit, Did
<1>8. CASE timeout(call)
  BY <1>8 DEF timeout, Did
<1>9. CASE limits(call)
  BY <1>9 DEF limits, Did
<1>10. QED
  BY <1>1, <1>2, <1>3, <1>4, <1>5, <1>6, <1>7, <1>8, <1>9 DEF Make

-----------------------------------------------------------------------------
(***************************************************************************)
(* The builder holds what was said: one lemma for each kind of rule.       *)
(***************************************************************************)

\* What all the calls name together grows by what the new one names.
LEMMA OneMoreNamed ==
    ASSUME said \in Seq(Saids), NEW e \in Saids, said' = Append(said, e), NEW method
    PROVE  /\ NamesSaid(Len(said), method)' =
                 NamesSaid(Len(said), method) \cup (IF e.method = method THEN e.names ELSE {})
           /\ PathsSaid(Len(said), method)' =
                 PathsSaid(Len(said), method) \cup (IF e.method = method THEN e.paths ELSE {})
           /\ HostsSaid(Len(said), method)' =
                 HostsSaid(Len(said), method)
                 \cup (IF e.method = method THEN Rules(e.hosts) ELSE {})
           /\ ToolsSaid(Len(said))' =
                 ToolsSaid(Len(said))
                 \cup (IF e.method = "tool" /\ e.allow THEN {e.name} ELSE {})
<1> DEFINE Next_ == Len(said) + 1
           Old(m) == Said(Len(said), m)
           New(m) == IF e.method = m THEN {Next_} ELSE {}
<1>1. /\ \A m : Said(Len(said), m)' = Old(m) \cup New(m)
      /\ \A m : \A i \in Old(m) : said'[i] = said[i]
      /\ said'[Next_] = e
  BY OneMore, OneMoreOf DEF Said
<1>2. \A m : \A i \in New(m) : said'[i] = e /\ e.method = m
  BY <1>1
<1> HIDE DEF Old, New, Next_
<1>3. NamesSaid(Len(said), method)' =
         NamesSaid(Len(said), method) \cup (IF e.method = method THEN e.names ELSE {})
  <2>1. NamesSaid(Len(said), method)' = UNION {said'[i].names : i \in Old(method) \cup New(method)}
    BY <1>1 DEF NamesSaid
  <2>2. {said'[i].names : i \in Old(method) \cup New(method)}
        = {said[i].names : i \in Old(method)} \cup {e.names : i \in New(method)}
    <3>1. {said'[i].names : i \in Old(method)} = {said[i].names : i \in Old(method)}
      BY <1>1
    <3>2. {said'[i].names : i \in New(method)} = {e.names : i \in New(method)}
      BY <1>2
    <3>3. QED
      BY <3>1, <3>2
  <2>3. NamesSaid(Len(said), method) = UNION {said[i].names : i \in Old(method)}
    BY DEF NamesSaid, Old
  <2>4. UNION {e.names : i \in New(method)} = IF e.method = method THEN e.names ELSE {}
    BY DEF New
  <2>5. QED
    BY <2>1, <2>2, <2>3, <2>4
<1>4. PathsSaid(Len(said), method)' =
         PathsSaid(Len(said), method) \cup (IF e.method = method THEN e.paths ELSE {})
  <2>1. PathsSaid(Len(said), method)' = UNION {said'[i].paths : i \in Old(method) \cup New(method)}
    BY <1>1 DEF PathsSaid
  <2>2. {said'[i].paths : i \in Old(method) \cup New(method)}
        = {said[i].paths : i \in Old(method)} \cup {e.paths : i \in New(method)}
    <3>1. {said'[i].paths : i \in Old(method)} = {said[i].paths : i \in Old(method)}
      BY <1>1
    <3>2. {said'[i].paths : i \in New(method)} = {e.paths : i \in New(method)}
      BY <1>2
    <3>3. QED
      BY <3>1, <3>2
  <2>3. PathsSaid(Len(said), method) = UNION {said[i].paths : i \in Old(method)}
    BY DEF PathsSaid, Old
  <2>4. UNION {e.paths : i \in New(method)} = IF e.method = method THEN e.paths ELSE {}
    BY DEF New
  <2>5. QED
    BY <2>1, <2>2, <2>3, <2>4
<1>5. HostsSaid(Len(said), method)' =
         HostsSaid(Len(said), method) \cup (IF e.method = method THEN Rules(e.hosts) ELSE {})
  <2>1. HostsSaid(Len(said), method)'
        = UNION {Rules(said'[i].hosts) : i \in Old(method) \cup New(method)}
    BY <1>1 DEF HostsSaid
  <2>2. {Rules(said'[i].hosts) : i \in Old(method) \cup New(method)}
        = {Rules(said[i].hosts) : i \in Old(method)} \cup {Rules(e.hosts) : i \in New(method)}
    <3>1. {Rules(said'[i].hosts) : i \in Old(method)} = {Rules(said[i].hosts) : i \in Old(method)}
      BY <1>1
    <3>2. {Rules(said'[i].hosts) : i \in New(method)} = {Rules(e.hosts) : i \in New(method)}
      BY <1>2
    <3>3. QED
      BY <3>1, <3>2
  <2>3. HostsSaid(Len(said), method) = UNION {Rules(said[i].hosts) : i \in Old(method)}
    BY DEF HostsSaid, Old
  <2>4. UNION {Rules(e.hosts) : i \in New(method)} = IF e.method = method THEN Rules(e.hosts) ELSE {}
    BY DEF New
  <2>5. QED
    BY <2>1, <2>2, <2>3, <2>4
<1>6. ToolsSaid(Len(said))' =
         ToolsSaid(Len(said)) \cup (IF e.method = "tool" /\ e.allow THEN {e.name} ELSE {})
  <2>1. ToolsSaid(Len(said))'
        = {said'[i].name : i \in {j \in Old("tool") \cup New("tool") : said'[j].allow}}
    BY <1>1 DEF ToolsSaid
  <2>2. ToolsSaid(Len(said)) = {said[i].name : i \in {j \in Old("tool") : said[j].allow}}
    BY DEF ToolsSaid, Old
  <2>3. {said'[i].name : i \in {j \in Old("tool") : said'[j].allow}}
        = {said[i].name : i \in {j \in Old("tool") : said[j].allow}}
    BY <1>1
  <2>4. {said'[i].name : i \in {j \in New("tool") : said'[j].allow}}
        = IF e.method = "tool" /\ e.allow THEN {e.name} ELSE {}
    <3>1. {said'[i].name : i \in {j \in New("tool") : said'[j].allow}}
          = {e.name : i \in {j \in New("tool") : e.allow}}
      BY <1>2
    <3>2. CASE e.method = "tool" /\ e.allow
      BY <3>1, <3>2 DEF New
    <3>3. CASE e.method # "tool"
      BY <3>1, <3>3 DEF New
    <3>4. CASE ~e.allow
      BY <3>1, <3>4
    <3>5. QED
      BY <3>2, <3>3, <3>4
  <2>5. QED
    BY <2>1, <2>2, <2>3, <2>4
<1>7. QED
  BY <1>3, <1>4, <1>5, <1>6

\* What was allowlisted until some call is a set of tools, and no None.
LEMMA AllowedIsNotNone ==
    ASSUME said \in Seq(Saids), NEW after \in 0 .. Len(said)
    PROVE  NamesSaid(after, "allow_tools") \cup ToolsSaid(after) # None
<1> DEFINE Every == UNION {Allowlists(call) : call \in Sayable}
<1>1. ASSUME NEW i \in 1 .. Len(said), said[i].method \notin HostMethods
      PROVE  said[i] \in Sayable
  BY <1>1 DEF Saids
<1>2. NamesSaid(after, "allow_tools") \subseteq Every
  <2>1. ASSUME NEW i \in Said(after, "allow_tools") PROVE said[i].names \subseteq Every
    <3>1. said[i] \in Sayable /\ Allowlists(said[i]) = said[i].names
      BY <1>1 DEF Said, HostMethods, Allowlists
    <3>2. QED
      BY <3>1
  <2>2. QED
    BY <2>1 DEF NamesSaid
<1>3. ToolsSaid(after) \subseteq Every
  <2>1. ASSUME NEW i \in Said(after, "tool") PROVE said[i].name \in Every
    <3>1. said[i] \in Sayable /\ Allowlists(said[i]) = {said[i].name}
      BY <1>1 DEF Said, HostMethods, Allowlists
    <3>2. QED
      BY <3>1
  <2>2. QED
    BY <2>1 DEF ToolsSaid
<1>4. QED
  BY <1>2, <1>3, NamesAssumption

LEMMA ToolsStep ==
    ASSUME said \in Seq(Saids), NEW e \in Saids, said' = Append(said, e),
           ToolsHeld(builder, Len(said)),
           builder'.denied_tools = builder.denied_tools \cup
               (IF e.method = "deny_tools" THEN e.names ELSE {}),
           builder'.allowed_tools =
               IF Allowlists(e) = {} \/ (e.method = "tool" /\ ~e.allow)
               THEN builder.allowed_tools
               ELSE (IF builder.allowed_tools = None THEN {} ELSE builder.allowed_tools)
                    \cup Allowlists(e)
    PROVE  ToolsHeld(builder, Len(said))'
<1> DEFINE allowed == NamesSaid(Len(said), "allow_tools") \cup ToolsSaid(Len(said))
           more == IF e.method = "tool" /\ ~e.allow THEN {} ELSE Allowlists(e)
<1>1. /\ NamesSaid(Len(said), "allow_tools")' = NamesSaid(Len(said), "allow_tools")
             \cup (IF e.method = "allow_tools" THEN e.names ELSE {})
      /\ NamesSaid(Len(said), "deny_tools")' = NamesSaid(Len(said), "deny_tools")
             \cup (IF e.method = "deny_tools" THEN e.names ELSE {})
      /\ ToolsSaid(Len(said))' = ToolsSaid(Len(said))
             \cup (IF e.method = "tool" /\ e.allow THEN {e.name} ELSE {})
  BY OneMoreNamed
<1>2. more = (IF e.method = "allow_tools" THEN e.names ELSE {})
             \cup (IF e.method = "tool" /\ e.allow THEN {e.name} ELSE {})
  BY DEF Allowlists
<1>3. allowed' = allowed \cup more
  BY <1>1, <1>2
<1>4. allowed # None
  BY LenProperties, AllowedIsNotNone
<1>5. /\ builder.allowed_tools = IF allowed = {} THEN None ELSE allowed
      /\ builder.denied_tools = NamesSaid(Len(said), "deny_tools")
  BY DEF ToolsHeld
<1>6. builder'.allowed_tools =
         IF more = {} THEN builder.allowed_tools
         ELSE (IF builder.allowed_tools = None THEN {} ELSE builder.allowed_tools) \cup more
  OBVIOUS
<1>7. /\ builder'.denied_tools = NamesSaid(Len(said), "deny_tools")'
      /\ ToolsHeld(builder, Len(said))' <=>
           /\ builder'.denied_tools = NamesSaid(Len(said), "deny_tools")'
           /\ builder'.allowed_tools = IF allowed' = {} THEN None ELSE allowed'
  BY <1>1, <1>5 DEF ToolsHeld
<1> HIDE DEF allowed, more
<1>8. builder'.allowed_tools = IF allowed' = {} THEN None ELSE allowed'
  <2>1. CASE more = {}
    BY <1>3, <1>5, <1>6, <2>1
  <2>2. CASE more # {} /\ allowed = {}
    BY <1>3, <1>5, <1>6, <2>2
  <2>3. CASE more # {} /\ allowed # {}
    BY <1>3, <1>4, <1>5, <1>6, <2>3
  <2>4. QED
    BY <2>1, <2>2, <2>3
<1>9. QED
  BY <1>7, <1>8

LEMMA LastStep ==
    ASSUME said \in Seq(Saids), NEW e \in Saids, said' = Append(said, e), NEW m
    PROVE  /\ e.method # m =>
                 /\ Said(Len(said), m)' = Said(Len(said), m)
                 /\ \A i \in Said(Len(said), m) : said'[i] = said[i]
           /\ e.method = m =>
                 /\ Len(said) + 1 \in Said(Len(said), m)'
                 /\ said'[Len(said) + 1] = e
                 /\ \A j \in Said(Len(said), m)' : j <= Len(said) + 1
<1>1. /\ Len(said) \in Nat
      /\ \A i \in 1 .. Len(said) : said'[i] = said[i]
      /\ said'[Len(said) + 1] = e
      /\ Said(Len(said), m)' =
            Said(Len(said), m) \cup (IF e.method = m THEN {Len(said) + 1} ELSE {})
  BY OneMore, OneMoreOf
<1>2. Said(Len(said), m) \subseteq 1 .. Len(said)
  BY DEF Said
<1>3. QED
  BY <1>1, <1>2

LEMMA DefaultStep ==
    ASSUME said \in Seq(Saids), NEW e \in Saids, said' = Append(said, e),
           DefaultHeld(builder, Len(said)),
           builder'.network = IF e.method = "network" THEN e.default ELSE builder.network
    PROVE  DefaultHeld(builder, Len(said))'
<1>1. CASE e.method = "network"
  BY <1>1, LastStep DEF DefaultHeld, IsLast
<1>2. CASE e.method # "network"
  BY <1>2, LastStep DEF DefaultHeld, IsLast
<1>3. QED
  BY <1>1, <1>2

LEMMA LimitsStep ==
    ASSUME said \in Seq(Saids), NEW e \in Saids, said' = Append(said, e),
           LimitsHeld(builder, Len(said)),
           builder'.limits = IF e.method = "limits" THEN e.limits ELSE builder.limits
    PROVE  LimitsHeld(builder, Len(said))'
<1>1. CASE e.method = "limits"
  BY <1>1, LastStep DEF LimitsHeld, IsLast
<1>2. CASE e.method # "limits"
  BY <1>2, LastStep DEF LimitsHeld, IsLast
<1>3. QED
  BY <1>1, <1>2

LEMMA TimeoutStep ==
    ASSUME said \in Seq(Saids), NEW e \in Saids, said' = Append(said, e),
           TimeoutHeld(builder, Len(said)),
           builder'.timeout_seconds =
               IF e.method = "timeout" THEN e.seconds ELSE builder.timeout_seconds
    PROVE  TimeoutHeld(builder, Len(said))'
<1>1. CASE e.method = "timeout"
  BY <1>1, LastStep DEF TimeoutHeld, IsLast
<1>2. CASE e.method # "timeout"
  BY <1>2, LastStep DEF TimeoutHeld, IsLast
<1>3. QED
  BY <1>1, <1>2

LEMMA NumbersStep ==
    ASSUME said \in Seq(Saids), NEW e \in Saids, said' = Append(said, e), NEW m,
           NEW f, NumbersHeld(f, Len(said), m),
           NEW g, g = IF e.method = m THEN Set(f, Subject(e), Number(e)) ELSE f,
           NEW t \in Names,
           NEW is, is = {i \in 1 .. Len(said') : said'[i].method = m /\ Subject(said'[i]) = t}
    PROVE  /\ t \in DOMAIN g <=> is # {}
           /\ t \in DOMAIN g => \E i \in is : IsLast(i, is) /\ g[t] = Number(said'[i])
<1> DEFINE n == Len(said) + 1
           For == SaidFor(Len(said), m, t)
<1>1. /\ n \in Nat /\ n - 1 \in Nat
      /\ \A i \in 1 .. n - 1 : said'[i] = said[i]
      /\ said'[n] = e
      /\ Said(Len(said), m)' = Said(Len(said), m) \cup (IF e.method = m THEN {n} ELSE {})
  BY OneMore, OneMoreOf
<1>2. For \subseteq 1 .. n - 1 /\ \A i \in Said(Len(said), m) : i \in 1 .. n - 1
  BY <1>1 DEF SaidFor, Said
<1>3. is = {i \in Said(Len(said), m)' : Subject(said'[i]) = t}
  BY DEF Said
<1>4. For = {i \in Said(Len(said), m) : Subject(said[i]) = t}
  BY DEF SaidFor
<1>5. /\ t \in DOMAIN f <=> For # {}
      /\ t \in DOMAIN f => \E i \in For : IsLast(i, For) /\ f[t] = Number(said[i])
  BY DEF NumbersHeld
<1> HIDE DEF For, n
<1>6. CASE e.method = m /\ Subject(e) = t
  <2>1. t \in DOMAIN g /\ g[t] = Number(e)
    BY <1>6 DEF Set
  <2>2. n \in is /\ \A j \in is : j <= n
    <3>1. Said(Len(said), m)' = Said(Len(said), m) \cup {n}
      BY <1>1, <1>6
    <3>2. \A j \in Said(Len(said), m) : j <= n
      BY <1>1, <1>2
    <3>3. n \in is
      BY <1>1, <1>3, <1>6, <3>1
    <3>4. \A j \in is : j \in Said(Len(said), m) \/ j = n
      BY <1>3, <3>1
    <3>5. QED
      BY <1>1, <3>2, <3>3, <3>4
  <2>3. QED
    BY <1>1, <2>1, <2>2 DEF IsLast, For
<1>7. CASE ~(e.method = m /\ Subject(e) = t)
  <2>1. is = For
    BY <1>1, <1>2, <1>3, <1>4, <1>7
  <2>2. (t \in DOMAIN g <=> t \in DOMAIN f) /\ (t \in DOMAIN f => g[t] = f[t])
    BY <1>7 DEF Set
  <2>3. \A i \in For : said'[i] = said[i]
    BY <1>1, <1>2
  <2>4. QED
    BY <1>5, <2>1, <2>2, <2>3 DEF IsLast, For
<1>8. QED
  BY <1>6, <1>7

\* Nothing said, nothing changed.
LEMMA Unsaid ==
    ASSUME UNCHANGED <<builder, said>>, BuilderHolds
    PROVE  BuilderHolds' /\ \A b : PolicyHolds(b) => PolicyHolds(b)'
<1>1. BuilderHolds'
  <2>1. builder' = builder /\ said' = said
    OBVIOUS
  <2>2. ToolsHeld(builder, Len(said))'
    <3>1. /\ NamesSaid(Len(said), "allow_tools")' = NamesSaid(Len(said), "allow_tools")
          /\ NamesSaid(Len(said), "deny_tools")' = NamesSaid(Len(said), "deny_tools")
          /\ ToolsSaid(Len(said))' = ToolsSaid(Len(said))
      BY <2>1 DEF NamesSaid, ToolsSaid, Said
    <3>2. QED
      BY <2>1, <3>1 DEF BuilderHolds, RulesHold, ToolsHeld
  <2>3. DefaultHeld(builder, Len(said))'
    BY <2>1 DEF BuilderHolds, RulesHold, DefaultHeld, IsLast, Said
  <2>4. LimitsHeld(builder, Len(said))' /\ TimeoutHeld(builder, Len(said))'
    BY <2>1 DEF BuilderHolds, RulesHold, LimitsHeld, TimeoutHeld, IsLast, Said
  <2>5. NumbersHeld(builder.max_calls, Len(said), "max_calls")'
    BY <2>1 DEF BuilderHolds, RulesHold, NumbersHeld, IsLast, SaidFor, Said
  <2>6. NumbersHeld(builder.spend_caps, Len(said), "spend_cap")'
    BY <2>1 DEF BuilderHolds, RulesHold, NumbersHeld, IsLast, SaidFor, Said
  <2>7. NumbersHeld(builder.rate_limits, Len(said), "rate_limit")'
    BY <2>1 DEF BuilderHolds, RulesHold, NumbersHeld, IsLast, SaidFor, Said
  <2>8. NumbersHeld(builder.tool_args, Len(said), "tool")'
    BY <2>1 DEF BuilderHolds, RulesHold, NumbersHeld, IsLast, SaidFor, Said
  <2>9. /\ builder'.read_paths = PathsSaid(Len(said), "read_paths")'
        /\ builder'.write_paths = PathsSaid(Len(said), "write_paths")'
        /\ builder'.network_allow_hosts = HostsSaid(Len(said), "allow_hosts")'
        /\ builder'.network_deny_hosts = HostsSaid(Len(said), "deny_hosts")'
    BY <2>1 DEF BuilderHolds, PathsSaid, HostsSaid, Said
  <2>10. QED
    BY <2>2, <2>3, <2>4, <2>5, <2>6, <2>7, <2>9, <2>8 DEF BuilderHolds, RulesHold
<1>2. ASSUME NEW b, PolicyHolds(b)
      PROVE  PolicyHolds(b)'
  <2>1. said' = said
    OBVIOUS
  <2>2. ToolsHeld(b.policy, b.after)'
    <3>1. /\ NamesSaid(b.after, "allow_tools")' = NamesSaid(b.after, "allow_tools")
          /\ NamesSaid(b.after, "deny_tools")' = NamesSaid(b.after, "deny_tools")
          /\ ToolsSaid(b.after)' = ToolsSaid(b.after)
      BY <2>1 DEF NamesSaid, ToolsSaid, Said
    <3>2. QED
      BY <1>2, <3>1 DEF PolicyHolds, RulesHold, ToolsHeld
  <2>3. DefaultHeld(b.policy, b.after)'
    BY <1>2, <2>1 DEF PolicyHolds, RulesHold, DefaultHeld, IsLast, Said
  <2>4. LimitsHeld(b.policy, b.after)' /\ TimeoutHeld(b.policy, b.after)'
    BY <1>2, <2>1 DEF PolicyHolds, RulesHold, LimitsHeld, TimeoutHeld, IsLast, Said
  <2>5. NumbersHeld(b.policy.max_calls, b.after, "max_calls")'
    BY <1>2, <2>1 DEF PolicyHolds, RulesHold, NumbersHeld, IsLast, SaidFor, Said
  <2>6. NumbersHeld(b.policy.spend_caps, b.after, "spend_cap")'
    BY <1>2, <2>1 DEF PolicyHolds, RulesHold, NumbersHeld, IsLast, SaidFor, Said
  <2>7. NumbersHeld(b.policy.rate_limits, b.after, "rate_limit")'
    BY <1>2, <2>1 DEF PolicyHolds, RulesHold, NumbersHeld, IsLast, SaidFor, Said
  <2>8. NumbersHeld(b.policy.tool_args, b.after, "tool")'
    BY <1>2, <2>1 DEF PolicyHolds, RulesHold, NumbersHeld, IsLast, SaidFor, Said
  <2>9. /\ PathsSaid(b.after, "write_paths")' = PathsSaid(b.after, "write_paths")
        /\ PathsSaid(b.after, "read_paths")' = PathsSaid(b.after, "read_paths")
    BY <2>1 DEF PathsSaid, Said
  <2>10. /\ HostsSaid(b.after, "allow_hosts")' = HostsSaid(b.after, "allow_hosts")
         /\ HostsSaid(b.after, "deny_hosts")' = HostsSaid(b.after, "deny_hosts")
    BY <2>1 DEF HostsSaid, Said
  <2>11. RulesHold(b.policy, b.after)'
    BY <2>2, <2>3, <2>4, <2>5, <2>6, <2>7, <2>8 DEF RulesHold
  <2>12. QED
    BY <1>2, <2>1, <2>9, <2>10, <2>11 DEF PolicyHolds
<1>3. QED
  BY <1>1, <1>2

\* A call leaves the builder with what was said, and policies as they were built.
LEMMA BuilderStep ==
    ASSUME said \in Seq(Saids), Sound(builder), BuilderHolds,
           NEW call \in Sayable, WellTyped(call), Make(call)
    PROVE  /\ said' \in Seq(Saids)
           /\ BuilderHolds'
           /\ \A b : PolicyHolds(b) => PolicyHolds(b)'
<1>1. CASE UNCHANGED <<builder, said>>
  BY <1>1, Unsaid
<1>2. CASE ~UNCHANGED <<builder, said>>
  <2>1. PICK e \in Saids :
           /\ said' = Append(said, e)
           /\ e.method = call.method
           /\ call.method \notin HostMethods => e = call
           /\ call.method \in HostMethods => e.hosts = Parsed(call.hosts)
    BY <1>2, CallIsAdded
  <2>2. ~Rejected(call)
    BY <1>2 DEF Rejected
  <2>3. \A m : m \in {"allow_tools", "deny_tools", "tool", "read_paths", "write_paths", "network",
                      "max_calls", "spend_cap", "rate_limit", "timeout", "limits"} => m \notin HostMethods
    BY DEF HostMethods
  <2>4. Allowlists(e) = Allowlists(call) /\ (e.method = "tool" => e = call)
    BY <2>1, <2>3 DEF Allowlists
  <2>5. ToolsHeld(builder, Len(said))'
    <3>1. /\ builder'.denied_tools = builder.denied_tools \cup
                (IF e.method = "deny_tools" THEN e.names ELSE {})
          /\ builder'.allowed_tools =
                IF Allowlists(e) = {} \/ (e.method = "tool" /\ ~e.allow)
                THEN builder.allowed_tools
                ELSE (IF builder.allowed_tools = None THEN {} ELSE builder.allowed_tools)
                     \cup Allowlists(e)
      BY <2>1, <2>2, <2>3, <2>4, ToolFields
    <3>2. QED
      BY <2>1, <3>1, ToolsStep DEF BuilderHolds, RulesHold
  <2>6. DefaultHeld(builder, Len(said))'
    <3>1. builder'.network = IF e.method = "network" THEN e.default ELSE builder.network
      BY <2>1, <2>2, <2>3, BoundaryFields
    <3>2. QED
      BY <2>1, <3>1, DefaultStep DEF BuilderHolds, RulesHold
  <2>7. LimitsHeld(builder, Len(said))'
    <3>1. builder'.limits = IF e.method = "limits" THEN e.limits ELSE builder.limits
      BY <2>1, <2>2, <2>3, NumberFields
    <3>2. QED
      BY <2>1, <3>1, LimitsStep DEF BuilderHolds, RulesHold
  <2>8. TimeoutHeld(builder, Len(said))'
    <3>1. builder'.timeout_seconds =
             IF e.method = "timeout" THEN e.seconds ELSE builder.timeout_seconds
      BY <2>1, <2>2, <2>3, NumberFields
    <3>2. QED
      BY <2>1, <3>1, TimeoutStep DEF BuilderHolds, RulesHold
  <2>9. NumbersHeld(builder.max_calls, Len(said), "max_calls")'
    <3>1. builder'.max_calls = IF e.method = "max_calls"
             THEN Set(builder.max_calls, Subject(e), Number(e)) ELSE builder.max_calls
      BY <2>1, <2>2, <2>3, NumberFields DEF Subject
    <3>2. NumbersHeld(builder.max_calls, Len(said), "max_calls")
      BY DEF BuilderHolds, RulesHold
    <3>3. PICK f, g : f = builder.max_calls /\ g = builder'.max_calls
      OBVIOUS
    <3>4. /\ NumbersHeld(f, Len(said), "max_calls")
          /\ g = IF e.method = "max_calls" THEN Set(f, Subject(e), Number(e)) ELSE f
      BY <3>1, <3>2, <3>3
    <3>5. ASSUME NEW t \in Names
          PROVE  /\ t \in DOMAIN g <=> SaidFor(Len(said), "max_calls", t)' # {}
                 /\ t \in DOMAIN g => \E i \in SaidFor(Len(said), "max_calls", t)' :
                       /\ IsLast(i, SaidFor(Len(said), "max_calls", t)')
                       /\ g[t] = Number(said'[i])
      <4>1. PICK is : is = SaidFor(Len(said), "max_calls", t)'
        OBVIOUS
      <4>2. is = {i \in 1 .. Len(said') : said'[i].method = "max_calls" /\ Subject(said'[i]) = t}
        BY <4>1 DEF SaidFor, Said
      <4>3. QED
        BY <2>1, <3>4, <4>1, <4>2, NumbersStep
    <3>6. QED
      BY <3>3, <3>5 DEF NumbersHeld
  <2>10. NumbersHeld(builder.spend_caps, Len(said), "spend_cap")'
    <3>1. builder'.spend_caps = IF e.method = "spend_cap"
             THEN Set(builder.spend_caps, Subject(e), Number(e)) ELSE builder.spend_caps
      BY <2>1, <2>2, <2>3, NumberFields DEF Subject
    <3>2. NumbersHeld(builder.spend_caps, Len(said), "spend_cap")
      BY DEF BuilderHolds, RulesHold
    <3>3. PICK f, g : f = builder.spend_caps /\ g = builder'.spend_caps
      OBVIOUS
    <3>4. /\ NumbersHeld(f, Len(said), "spend_cap")
          /\ g = IF e.method = "spend_cap" THEN Set(f, Subject(e), Number(e)) ELSE f
      BY <3>1, <3>2, <3>3
    <3>5. ASSUME NEW t \in Names
          PROVE  /\ t \in DOMAIN g <=> SaidFor(Len(said), "spend_cap", t)' # {}
                 /\ t \in DOMAIN g => \E i \in SaidFor(Len(said), "spend_cap", t)' :
                       /\ IsLast(i, SaidFor(Len(said), "spend_cap", t)')
                       /\ g[t] = Number(said'[i])
      <4>1. PICK is : is = SaidFor(Len(said), "spend_cap", t)'
        OBVIOUS
      <4>2. is = {i \in 1 .. Len(said') : said'[i].method = "spend_cap" /\ Subject(said'[i]) = t}
        BY <4>1 DEF SaidFor, Said
      <4>3. QED
        BY <2>1, <3>4, <4>1, <4>2, NumbersStep
    <3>6. QED
      BY <3>3, <3>5 DEF NumbersHeld
  <2>11. NumbersHeld(builder.rate_limits, Len(said), "rate_limit")'
    <3>1. builder'.rate_limits = IF e.method = "rate_limit"
             THEN Set(builder.rate_limits, Subject(e), Number(e)) ELSE builder.rate_limits
      BY <2>1, <2>2, <2>3, NumberFields DEF Subject
    <3>2. NumbersHeld(builder.rate_limits, Len(said), "rate_limit")
      BY DEF BuilderHolds, RulesHold
    <3>3. PICK f, g : f = builder.rate_limits /\ g = builder'.rate_limits
      OBVIOUS
    <3>4. /\ NumbersHeld(f, Len(said), "rate_limit")
          /\ g = IF e.method = "rate_limit" THEN Set(f, Subject(e), Number(e)) ELSE f
      BY <3>1, <3>2, <3>3
    <3>5. ASSUME NEW t \in Names
          PROVE  /\ t \in DOMAIN g <=> SaidFor(Len(said), "rate_limit", t)' # {}
                 /\ t \in DOMAIN g => \E i \in SaidFor(Len(said), "rate_limit", t)' :
                       /\ IsLast(i, SaidFor(Len(said), "rate_limit", t)')
                       /\ g[t] = Number(said'[i])
      <4>1. PICK is : is = SaidFor(Len(said), "rate_limit", t)'
        OBVIOUS
      <4>2. is = {i \in 1 .. Len(said') : said'[i].method = "rate_limit" /\ Subject(said'[i]) = t}
        BY <4>1 DEF SaidFor, Said
      <4>3. QED
        BY <2>1, <3>4, <4>1, <4>2, NumbersStep
    <3>6. QED
      BY <3>3, <3>5 DEF NumbersHeld
  <2>12. NumbersHeld(builder.tool_args, Len(said), "tool")'
    <3>1. builder'.tool_args = IF e.method = "tool"
             THEN Set(builder.tool_args, Subject(e), Number(e)) ELSE builder.tool_args
      BY <2>1, <2>2, <2>3, NumberFields DEF Subject
    <3>2. NumbersHeld(builder.tool_args, Len(said), "tool")
      BY DEF BuilderHolds, RulesHold
    <3>3. PICK f, g : f = builder.tool_args /\ g = builder'.tool_args
      OBVIOUS
    <3>4. /\ NumbersHeld(f, Len(said), "tool")
          /\ g = IF e.method = "tool" THEN Set(f, Subject(e), Number(e)) ELSE f
      BY <3>1, <3>2, <3>3
    <3>5. ASSUME NEW t \in Names
          PROVE  /\ t \in DOMAIN g <=> SaidFor(Len(said), "tool", t)' # {}
                 /\ t \in DOMAIN g => \E i \in SaidFor(Len(said), "tool", t)' :
                       /\ IsLast(i, SaidFor(Len(said), "tool", t)')
                       /\ g[t] = Number(said'[i])
      <4>1. PICK is : is = SaidFor(Len(said), "tool", t)'
        OBVIOUS
      <4>2. is = {i \in 1 .. Len(said') : said'[i].method = "tool" /\ Subject(said'[i]) = t}
        BY <4>1 DEF SaidFor, Said
      <4>3. QED
        BY <2>1, <3>4, <4>1, <4>2, NumbersStep
    <3>6. QED
      BY <3>3, <3>5 DEF NumbersHeld
  <2>13. /\ builder'.read_paths = PathsSaid(Len(said), "read_paths")'
         /\ builder'.write_paths = PathsSaid(Len(said), "write_paths")'
         /\ builder'.network_allow_hosts = HostsSaid(Len(said), "allow_hosts")'
         /\ builder'.network_deny_hosts = HostsSaid(Len(said), "deny_hosts")'
    <3>1. /\ builder'.read_paths = builder.read_paths \cup
                (IF e.method = "read_paths" THEN e.paths ELSE {})
          /\ builder'.write_paths = builder.write_paths \cup
                (IF e.method = "write_paths" THEN e.paths ELSE {})
      BY <2>1, <2>2, <2>3, BoundaryFields
    <3>2. /\ builder'.network_allow_hosts = builder.network_allow_hosts \cup
                (IF e.method = "allow_hosts" THEN Rules(e.hosts) ELSE {})
          /\ builder'.network_deny_hosts = builder.network_deny_hosts \cup
                (IF e.method = "deny_hosts" THEN Rules(e.hosts) ELSE {})
      BY <2>1, <2>2, BoundaryFields DEF HostMethods
    <3>3. QED
      BY <2>1, <3>1, <3>2, OneMoreNamed DEF BuilderHolds
  <2>14. BuilderHolds'
    BY <2>5, <2>6, <2>7, <2>9, <2>10, <2>11, <2>13, <2>8, <2>12 DEF BuilderHolds, RulesHold
  <2>15. \A b : PolicyHolds(b) => PolicyHolds(b)'
    BY <2>1, PolicyKept
  <2>16. QED
    BY <2>1, <2>14, <2>15, OneMore
<1>3. QED
  BY <1>1, <1>2

\* What is built holds what was said until then.
LEMMA PolicyBuilt ==
    ASSUME said \in Seq(Saids), Sound(builder), BuilderHolds
    PROVE  PolicyHolds([policy |-> Policy, after |-> Len(said), links |-> links])
<1> DEFINE b == [policy |-> Policy, after |-> Len(said), links |-> links]
<1>1. /\ b.policy = Policy /\ b.after = Len(said) /\ b.links = links
      /\ b.after \in 0 .. Len(said)
  BY LenProperties
<1>2. /\ Policy.allowed_tools = builder.allowed_tools
      /\ Policy.denied_tools = builder.denied_tools
      /\ Policy.network = builder.network
      /\ Policy.max_calls = builder.max_calls
      /\ Policy.spend_caps = builder.spend_caps
      /\ Policy.rate_limits = builder.rate_limits
      /\ Policy.tool_args = builder.tool_args
      /\ Policy.timeout_seconds = builder.timeout_seconds
      /\ Policy.limits = builder.limits
  BY DEF Policy, Sound, Fields
<1>3. /\ Policy.read_paths = {links[p] : p \in builder.read_paths \cup builder.write_paths}
      /\ Policy.write_paths = {links[p] : p \in builder.write_paths}
      /\ Policy.network_allow_hosts = builder.network_allow_hosts \ {<<>>}
      /\ Policy.network_deny_hosts = builder.network_deny_hosts \ {<<>>}
  BY DEF Policy, Sound, Fields
<1> HIDE DEF b
<1>4. RulesHold(b.policy, b.after)
  BY <1>1, <1>2 DEF BuilderHolds, RulesHold, ToolsHeld, DefaultHeld, LimitsHeld, TimeoutHeld
<1>5. QED
  BY <1>1, <1>3, <1>4 DEF BuilderHolds, PolicyHolds, b

LEMMA SaidInit == ASSUME Init PROVE SaidInv
<1>1. /\ said = <<>> /\ Len(said) = 0 /\ said \in Seq(Saids)
      /\ built = {}
  BY DEF Init
<1>2. \A m : Said(Len(said), m) = {}
  BY <1>1 DEF Said
<1>3. /\ \A m : NamesSaid(Len(said), m) = {} /\ PathsSaid(Len(said), m) = {}
               /\ HostsSaid(Len(said), m) = {} /\ \A t : SaidFor(Len(said), m, t) = {}
      /\ ToolsSaid(Len(said)) = {}
  BY <1>2 DEF NamesSaid, PathsSaid, HostsSaid, ToolsSaid, SaidFor
<1>4. /\ builder.allowed_tools = None /\ builder.denied_tools = {}
      /\ builder.read_paths = {} /\ builder.write_paths = {} /\ builder.network = "deny"
      /\ builder.network_allow_hosts = {} /\ builder.network_deny_hosts = {}
      /\ builder.max_calls = Empty /\ builder.spend_caps = Empty /\ builder.rate_limits = Empty
      /\ builder.tool_args = Empty /\ builder.timeout_seconds = None
      /\ builder.limits = NoLimits /\ DOMAIN Empty = {}
  BY DEF Init, Empty
<1>5. RulesHold(builder, Len(said))
  BY <1>2, <1>3, <1>4 DEF RulesHold, ToolsHeld, DefaultHeld, NumbersHeld, LimitsHeld,
                           TimeoutHeld
<1>6. QED
  BY <1>1, <1>3, <1>4, <1>5 DEF SaidInv, BuilderHolds

LEMMA SaidStep == ASSUME IInv, SaidInv, [Next]_vars PROVE SaidInv'
<1> USE DEF SaidInv
<1>1. Sound(builder)
  BY DEF IInv
<1>2. CASE Call
  <2>1. PICK call \in Statements : Make(call)
    BY <1>2 DEF Call
  <2>2. call \in Sayable /\ WellTyped(call)
    BY StatementsAssumption DEF Sayable
  <2>3. said' \in Seq(Saids) /\ BuilderHolds' /\ \A b : PolicyHolds(b) => PolicyHolds(b)'
    BY <1>1, <2>1, <2>2, BuilderStep
  <2>4. built' = built
    BY <1>2 DEF Call
  <2>5. QED
    BY <2>3, <2>4
<1>3. CASE Load
  <2>1. document \in Documents /\ Make(Head(todo))
    BY <1>3 DEF Load, IInv
  <2>2. Head(todo) \in CallsIn(CallsOf(document))
    BY <1>3 DEF Load, IInv
  <2>3. PICK call : call = Head(todo)
    OBVIOUS
  <2>4. call \in Sayable /\ WellTyped(call) /\ Make(call)
    BY <2>1, <2>2, <2>3, DocumentsAssumption DEF Sayable
  <2>5. said' \in Seq(Saids) /\ BuilderHolds' /\ \A b : PolicyHolds(b) => PolicyHolds(b)'
    BY <1>1, <2>4, BuilderStep
  <2>6. built' = built
    BY <1>3 DEF Load
  <2>7. QED
    BY <2>5, <2>6
<1>4. CASE build
  <2>1. PICK c : c = [policy |-> Policy, after |-> Len(said), links |-> links]
    OBVIOUS
  <2>2. built' = built \cup {c} /\ builder' = builder /\ said' = said
    BY <1>4, <2>1 DEF build
  <2>3. PolicyHolds(c)
    BY <1>1, <2>1, PolicyBuilt
  <2>4. BuilderHolds' /\ \A b : PolicyHolds(b) => PolicyHolds(b)'
    BY <2>2, Unsaid
  <2>5. QED
    BY <2>2, <2>3, <2>4
<1>5. CASE Relink \/ UNCHANGED vars
  <2>1. builder' = builder /\ said' = said /\ built' = built
    BY <1>5 DEF Relink, vars
  <2>2. BuilderHolds' /\ \A b : PolicyHolds(b) => PolicyHolds(b)'
    BY <2>1, Unsaid
  <2>3. QED
    BY <2>1, <2>2
<1>6. QED
  BY <1>2, <1>3, <1>4, <1>5 DEF Next

-----------------------------------------------------------------------------
(***************************************************************************)
(* A policy that holds what was said means what was said.                  *)
(***************************************************************************)

LEMMA TheLast ==
    ASSUME NEW is \in SUBSET Int, NEW i, IsLast(i, is)
    PROVE  LastOf(is) = said[i]
<1>1. i \in is /\ \A j \in is : j <= i
  BY DEF IsLast
<1>2. ASSUME NEW j \in is, \A k \in is : k <= j
      PROVE  j = i
  <2>1. i \in Int /\ j \in Int /\ i <= j /\ j <= i
    BY <1>1, <1>2
  <2>2. QED
    BY <2>1
<1>3. (CHOOSE j \in is : \A k \in is : k <= j) = i
  BY <1>1, <1>2
<1>4. QED
  BY <1>3 DEF LastOf

LEMMA ToolsMeant ==
    ASSUME said \in Seq(Saids), NEW b, PolicyHolds(b)
    PROVE  ToolsAsSaid(b)
<1> DEFINE allowed == NamesSaid(b.after, "allow_tools") \cup ToolsSaid(b.after)
           denied == NamesSaid(b.after, "deny_tools")
<1>1. /\ b.policy.denied_tools = denied
      /\ b.policy.allowed_tools = IF allowed = {} THEN None ELSE allowed
      /\ allowed # None
  BY AllowedIsNotNone DEF PolicyHolds, RulesHold, ToolsHeld
<1>2. /\ allowed = (UNION {said[i].names : i \in Taken(b, "allow_tools")})
                   \cup {said[i].name : i \in {j \in Taken(b, "tool") : said[j].allow}}
      /\ denied = UNION {said[i].names : i \in Taken(b, "deny_tools")}
  <2>1. \A m : Taken(b, m) = Said(b.after, m)
    BY DEF Taken, Said
  <2>2. QED
    BY <2>1 DEF NamesSaid, ToolsSaid
<1> HIDE DEF allowed, denied
<1>3. \A t : tool_allowed(b.policy, t) <=> t \notin denied /\ (allowed = {} \/ t \in allowed)
  BY <1>1 DEF tool_allowed
<1>4. QED
  BY <1>2, <1>3 DEF ToolsAsSaid

LEMMA PathsMeant ==
    ASSUME NEW b, PolicyHolds(b)
    PROVE  PathsAsSaid(b)
<1>1. \A m : PathsSaid(b.after, m) = Named(b, m)
  BY DEF PathsSaid, Named, Taken, Said
<1>2. /\ b.policy.write_paths = {b.links[p] : p \in PathsSaid(b.after, "write_paths")}
      /\ b.policy.read_paths = {b.links[p] : p \in PathsSaid(b.after, "read_paths")
                                                   \cup PathsSaid(b.after, "write_paths")}
  BY DEF PolicyHolds
<1>3. QED
  BY <1>1, <1>2 DEF PathsAsSaid

LEMMA HostsMeant ==
    ASSUME NEW b, NEW m, NEW host
    PROVE  (\E rule \in HostsSaid(b.after, m) \ {<<>>} : host_matches(host, rule))
               <=> \E i \in Taken(b, m) : \E j \in DOMAIN said[i].hosts :
                       host_matches(host, network_host(said[i].hosts[j]))
<1>1. HostsSaid(b.after, m) = UNION {Rules(said[i].hosts) : i \in Taken(b, m)}
  BY DEF HostsSaid, Taken, Said
<1>2. \A rule : rule \in HostsSaid(b.after, m) <=>
          \E i \in Taken(b, m) : \E j \in DOMAIN said[i].hosts :
              rule = network_host(said[i].hosts[j])
  BY <1>1 DEF Rules
<1>3. \A rule : host_matches(host, rule) => rule # <<>>
  BY DEF host_matches
<1>4. QED
  BY <1>2, <1>3

LEMMA DefaultMeant ==
    ASSUME NEW b, PolicyHolds(b)
    PROVE  b.policy.network = "allow" <=>
               /\ Taken(b, "network") # {}
               /\ LastOf(Taken(b, "network")).default = "allow"
<1>1. Taken(b, "network") = Said(b.after, "network") /\ Taken(b, "network") \in SUBSET Int
  BY DEF Taken, Said, PolicyHolds
<1>2. DefaultHeld(b.policy, b.after)
  BY DEF PolicyHolds, RulesHold
<1>3. CASE Taken(b, "network") = {}
  BY <1>1, <1>2, <1>3 DEF DefaultHeld
<1>4. CASE Taken(b, "network") # {}
  <2>1. PICK i : IsLast(i, Taken(b, "network")) /\ b.policy.network = said[i].default
    BY <1>1, <1>2, <1>4 DEF DefaultHeld
  <2>2. LastOf(Taken(b, "network")) = said[i]
    BY <1>1, <2>1, TheLast
  <2>3. QED
    BY <1>4, <2>1, <2>2
<1>5. QED
  BY <1>3, <1>4

LEMMA NetworkMeant ==
    ASSUME NEW b, PolicyHolds(b)
    PROVE  NetworkAsSaid(b)
<1> DEFINE Covered(target, m) ==
               target # None /\ \E i \in Taken(b, m) : \E j \in DOMAIN said[i].hosts :
                   host_matches(network_host(target), network_host(said[i].hosts[j]))
           Open == Taken(b, "network") # {} /\ LastOf(Taken(b, "network")).default = "allow"
           Matched(target, rules) ==
               \E rule \in rules : host_matches(network_host(target), rule)
<1>1. b.policy.network = "allow" <=> Open
  BY DefaultMeant
<1>2. \A target : target # None =>
          /\ Matched(target, b.policy.network_allow_hosts) <=> Covered(target, "allow_hosts")
          /\ Matched(target, b.policy.network_deny_hosts) <=> Covered(target, "deny_hosts")
  BY HostsMeant DEF PolicyHolds
<1>3. \A target : network_allowed(b.policy, target) <=>
          IF target = None THEN b.policy.network = "allow"
          ELSE /\ ~Matched(target, b.policy.network_deny_hosts)
               /\ Matched(target, b.policy.network_allow_hosts) \/ b.policy.network = "allow"
  BY DEF network_allowed
<1>4. \A target, m : target = None => ~Covered(target, m)
  OBVIOUS
<1> HIDE DEF Covered, Open, Matched
<1>5. \A target \in Targets : network_allowed(b.policy, target)
          <=> ~Covered(target, "deny_hosts") /\ (Covered(target, "allow_hosts") \/ Open)
  BY <1>1, <1>2, <1>3, <1>4
<1>6. QED
  BY <1>5 DEF NetworkAsSaid, Covered, Open

LEMMA NumbersMeant ==
    ASSUME NEW after \in Nat, NEW f, NEW m, NumbersHeld(f, after, m), NEW t \in Names,
           NEW is, is = SaidFor(after, m, t)
    PROVE  /\ t \in DOMAIN f <=> is # {}
           /\ t \in DOMAIN f => f[t] = Number(LastOf(is)) /\ LastOf(is).method = m
<1>1. is \in SUBSET Int /\ \A i \in is : said[i].method = m
  BY DEF SaidFor, Said
<1>2. /\ t \in DOMAIN f <=> is # {}
      /\ t \in DOMAIN f => \E i \in is : IsLast(i, is) /\ f[t] = Number(said[i])
  BY <1>1 DEF NumbersHeld
<1>3. ASSUME t \in DOMAIN f
      PROVE  f[t] = Number(LastOf(is)) /\ LastOf(is).method = m
  <2>1. PICK i \in is : IsLast(i, is) /\ f[t] = Number(said[i])
    BY <1>2, <1>3
  <2>2. LastOf(is) = said[i]
    BY <1>1, <2>1, TheLast
  <2>3. QED
    BY <1>1, <2>1, <2>2
<1>4. QED
  BY <1>2, <1>3

LEMMA LimitsMeant ==
    ASSUME NEW b, PolicyHolds(b)
    PROVE  LimitsAsSaid(b)
<1> DEFINE For(m, t) == {i \in Taken(b, m) : Subject(said[i]) = t}
<1>1. /\ b.after \in Nat
      /\ NumbersHeld(b.policy.max_calls, b.after, "max_calls")
      /\ NumbersHeld(b.policy.spend_caps, b.after, "spend_cap")
      /\ NumbersHeld(b.policy.rate_limits, b.after, "rate_limit")
      /\ NumbersHeld(b.policy.tool_args, b.after, "tool")
      /\ TimeoutHeld(b.policy, b.after)
      /\ LimitsHeld(b.policy, b.after)
  BY DEF PolicyHolds, RulesHold
<1>2. ASSUME NEW t \in Names
      PROVE  /\ t \in DOMAIN b.policy.max_calls <=> For("max_calls", t) # {}
             /\ t \in DOMAIN b.policy.max_calls =>
                   b.policy.max_calls[t] = LastOf(For("max_calls", t)).n
  <2>1. PICK is, f :
           is = For("max_calls", t) /\ is = SaidFor(b.after, "max_calls", t) /\ f = b.policy.max_calls
    BY DEF SaidFor, Said, Taken
  <2> HIDE DEF For
  <2>2. /\ t \in DOMAIN f <=> is # {}
        /\ t \in DOMAIN f => f[t] = Number(LastOf(is)) /\ LastOf(is).method = "max_calls"
    BY <1>1, <2>1, NumbersMeant
  <2>3. QED
    BY <2>1, <2>2 DEF Number
<1>3. ASSUME NEW t \in Names
      PROVE  /\ t \in DOMAIN b.policy.spend_caps <=> For("spend_cap", t) # {}
             /\ t \in DOMAIN b.policy.spend_caps =>
                   b.policy.spend_caps[t] = LastOf(For("spend_cap", t)).n
  <2>1. PICK is, f :
           is = For("spend_cap", t) /\ is = SaidFor(b.after, "spend_cap", t) /\ f = b.policy.spend_caps
    BY DEF SaidFor, Said, Taken
  <2> HIDE DEF For
  <2>2. /\ t \in DOMAIN f <=> is # {}
        /\ t \in DOMAIN f => f[t] = Number(LastOf(is)) /\ LastOf(is).method = "spend_cap"
    BY <1>1, <2>1, NumbersMeant
  <2>3. QED
    BY <2>1, <2>2 DEF Number
<1>4. ASSUME NEW t \in Names
      PROVE  /\ t \in DOMAIN b.policy.rate_limits <=> For("rate_limit", t) # {}
             /\ t \in DOMAIN b.policy.rate_limits =>
                   b.policy.rate_limits[t] = LimitOf(LastOf(For("rate_limit", t)))
  <2>1. PICK is, f :
           is = For("rate_limit", t) /\ is = SaidFor(b.after, "rate_limit", t) /\ f = b.policy.rate_limits
    BY DEF SaidFor, Said, Taken
  <2> HIDE DEF For
  <2>2. /\ t \in DOMAIN f <=> is # {}
        /\ t \in DOMAIN f => f[t] = Number(LastOf(is)) /\ LastOf(is).method = "rate_limit"
    BY <1>1, <2>1, NumbersMeant
  <2>3. QED
    BY <2>1, <2>2 DEF Number
<1>5. b.policy.limits = IF Taken(b, "limits") = {} THEN NoLimits
                        ELSE LastOf(Taken(b, "limits")).limits
  <2>1. Taken(b, "limits") = Said(b.after, "limits") /\ Taken(b, "limits") \in SUBSET Int
    BY <1>1 DEF Taken, Said
  <2>2. CASE Taken(b, "limits") = {}
    BY <1>1, <2>1, <2>2 DEF LimitsHeld
  <2>3. CASE Taken(b, "limits") # {}
    <3>1. PICK i : IsLast(i, Taken(b, "limits")) /\ b.policy.limits = said[i].limits
      BY <1>1, <2>1, <2>3 DEF LimitsHeld
    <3>2. LastOf(Taken(b, "limits")) = said[i]
      BY <2>1, <3>1, TheLast
    <3>3. QED
      BY <2>3, <3>1, <3>2
  <2>4. QED
    BY <2>2, <2>3
<1>6. ASSUME NEW t \in Names
      PROVE  /\ t \in DOMAIN b.policy.tool_args <=> For("tool", t) # {}
             /\ t \in DOMAIN b.policy.tool_args =>
                   b.policy.tool_args[t] = ArgsOf(LastOf(For("tool", t)))
  <2>1. PICK is, f :
           is = For("tool", t) /\ is = SaidFor(b.after, "tool", t) /\ f = b.policy.tool_args
    BY DEF SaidFor, Said, Taken
  <2> HIDE DEF For
  <2>2. /\ t \in DOMAIN f <=> is # {}
        /\ t \in DOMAIN f => f[t] = Number(LastOf(is)) /\ LastOf(is).method = "tool"
    BY <1>1, <2>1, NumbersMeant
  <2>3. QED
    BY <2>1, <2>2 DEF Number
<1>7. b.policy.timeout_seconds = IF Taken(b, "timeout") = {} THEN None
                        ELSE LastOf(Taken(b, "timeout")).seconds
  <2>1. Taken(b, "timeout") = Said(b.after, "timeout") /\ Taken(b, "timeout") \in SUBSET Int
    BY <1>1 DEF Taken, Said
  <2>2. CASE Taken(b, "timeout") = {}
    BY <1>1, <2>1, <2>2 DEF TimeoutHeld
  <2>3. CASE Taken(b, "timeout") # {}
    <3>1. PICK i : IsLast(i, Taken(b, "timeout")) /\ b.policy.timeout_seconds = said[i].seconds
      BY <1>1, <2>1, <2>3 DEF TimeoutHeld
    <3>2. LastOf(Taken(b, "timeout")) = said[i]
      BY <2>1, <3>1, TheLast
    <3>3. QED
      BY <2>3, <3>1, <3>2
  <2>4. QED
    BY <2>2, <2>3
<1>8. QED
  BY <1>2, <1>3, <1>4, <1>5, <1>6, <1>7 DEF LimitsAsSaid

\* The builder and the policies hold what was said, always.
THEOREM SaidInvariant == Spec => []SaidInv
<1>1. Init => SaidInv
  BY SaidInit
<1>2. IInv /\ SaidInv /\ [Next]_vars => SaidInv'
  BY SaidStep
<1>3. QED
  BY <1>1, <1>2, Invariant, PTL DEF Spec

\* A policy means what its builder was told before it was built, whatever was told,
\* in whatever order, and wherever the paths resolve by then.
THEOREM PoliciesMeanWhatWasSaid == Spec => []BuiltAsSaid
<1>1. SaidInv => BuiltAsSaid
  BY ToolsMeant, PathsMeant, NetworkMeant, LimitsMeant DEF SaidInv, BuiltAsSaid
<1>2. QED
  BY <1>1, SaidInvariant, PTL

\* Whatever paths a builder was told of and wherever they resolve, the core confines a
\* command to them if there are any, and does not confine it if there are none; it
\* closes the network unless the policy leaves it open.
THEOREM CoreAlwaysKeepsBoundary == Spec => []CoreKeepsBoundary
<1>1. IInv /\ SaidInv => CoreKeepsBoundary
  <2> SUFFICES ASSUME IInv, SaidInv, NEW b \in built
      PROVE  LET core == to_core_json(b.policy)
                 named == Named(b, "read_paths") \cup Named(b, "write_paths")
             IN  /\ filesystem_restricted(core) <=> named # {}
                 /\ named # {} =>
                       \A location \in Locations :
                           /\ CoreWrites(core, location)
                                 <=> Under(location, b.policy.write_paths)
                           /\ CoreReads(core, location)
                                 <=> \/ Under(location, b.policy.read_paths)
                                     \/ Under(location, Baseline)
                 /\ named = {} =>
                       \A location \in Locations :
                           /\ CoreWrites(core, location) /\ CoreReads(core, location)
                           /\ ~Under(location, b.policy.read_paths \cup b.policy.write_paths)
                 /\ network_denied(core) <=> ~network_allowed(b.policy, None)
    BY DEF CoreKeepsBoundary
  <2> DEFINE core == to_core_json(b.policy)
             named == Named(b, "read_paths") \cup Named(b, "write_paths")
             reads == b.policy.read_paths
             writes == b.policy.write_paths
  <2>1. core.read = reads /\ core.write = writes /\ core.network = b.policy.network
    BY DEF to_core_json
  <2>2. /\ writes = {b.links[p] : p \in Named(b, "write_paths")}
        /\ reads = {b.links[p] : p \in named}
    <3>1. \A m : PathsSaid(b.after, m) = Named(b, m)
      BY DEF PathsSaid, Named, Taken, Said
    <3>2. PolicyHolds(b)
      BY DEF SaidInv
    <3>3. QED
      BY <3>1, <3>2 DEF PolicyHolds
  <2> HIDE DEF core, named, reads, writes
  <2>3. writes \subseteq reads /\ (reads = {} <=> named = {})
    BY <2>2 DEF named
  <2>4. filesystem_restricted(core) <=> named # {}
    BY <2>1, <2>3 DEF filesystem_restricted
  <2>5. ASSUME named # {}, NEW location \in Locations
        PROVE  /\ CoreWrites(core, location) <=> Under(location, writes)
               /\ CoreReads(core, location)
                     <=> Under(location, reads) \/ Under(location, Baseline)
    <3>1. CoreWrites(core, location) <=> Under(location, writes)
      BY <2>1, <2>4, <2>5 DEF CoreWrites
    <3>2. CoreReads(core, location) <=> Under(location, reads \cup writes \cup Baseline)
      BY <2>1, <2>4, <2>5 DEF CoreReads
    <3>3. reads \cup writes \cup Baseline = reads \cup Baseline
      BY <2>3
    <3>4. Under(location, reads \cup Baseline)
             <=> Under(location, reads) \/ Under(location, Baseline)
      BY DEF Under
    <3>5. QED
      BY <3>1, <3>2, <3>3, <3>4
  <2>6. ASSUME named = {}, NEW location \in Locations
        PROVE  /\ CoreWrites(core, location) /\ CoreReads(core, location)
               /\ ~Under(location, reads \cup writes)
    BY <2>3, <2>4, <2>6 DEF CoreWrites, CoreReads, Under
  <2>7. network_denied(core) <=> ~network_allowed(b.policy, None)
    <3>1. b.policy.network \in {"deny", "allow"}
      BY DEF IInv, Sound
    <3>2. network_allowed(b.policy, None) <=> b.policy.network = "allow"
      BY DEF network_allowed
    <3>3. QED
      BY <2>1, <3>1, <3>2 DEF network_denied
  <2> QED
    BY <2>4, <2>5, <2>6, <2>7 DEF core, named, reads, writes
<1>2. QED
  BY <1>1, Invariant, SaidInvariant, PTL

-----------------------------------------------------------------------------
(***************************************************************************)
(* A policy from a document means what the document lists.                 *)
(***************************************************************************)

\* Who does the first thing that is left to do has done one more of the same.
LEMMA MovedOver ==
    ASSUME NEW S, NEW s \in Seq(S), NEW t \in Seq(S), t # <<>>
    PROVE  Append(s, Head(t)) \o Tail(t) = s \o t
<1> DEFINE a == Append(s, Head(t))
           u == Tail(t)
<1>1. /\ Head(t) \in S /\ u \in Seq(S) /\ Len(u) = Len(t) - 1
      /\ \A i \in 1 .. Len(u) : u[i] = t[i + 1]
      /\ Head(t) = t[1] /\ Len(s) \in Nat /\ Len(t) \in Nat
  BY HeadTailProperties, LenProperties
<1>2. /\ a \in Seq(S) /\ Len(a) = Len(s) + 1
      /\ \A i \in 1 .. Len(s) : a[i] = s[i]
      /\ a[Len(s) + 1] = t[1]
  BY <1>1, AppendProperties
<1> HIDE DEF a, u
<1>3. /\ a \o u \in Seq(S) /\ s \o t \in Seq(S)
      /\ Len(a \o u) = Len(s) + Len(t) /\ Len(s \o t) = Len(s) + Len(t)
  <2>1. a \o u \in Seq(S) /\ Len(a \o u) = Len(a) + Len(u)
    BY <1>1, <1>2, ConcatProperties
  <2>2. s \o t \in Seq(S) /\ Len(s \o t) = Len(s) + Len(t)
    BY ConcatProperties
  <2>3. Len(a) + Len(u) = Len(s) + Len(t)
    BY <1>1, <1>2
  <2>4. QED
    BY <2>1, <2>2, <2>3
<1>4. ASSUME NEW i \in 1 .. Len(a \o u)
      PROVE  (a \o u)[i] = (s \o t)[i]
  <2>1. /\ (a \o u)[i] = IF i <= Len(a) THEN a[i] ELSE u[i - Len(a)]
        /\ (s \o t)[i] = IF i <= Len(s) THEN s[i] ELSE t[i - Len(s)]
        /\ i \in 1 .. Len(s) + Len(t)
    BY <1>1, <1>2, <1>3, ConcatProperties
  <2>2. CASE i <= Len(s)
    BY <1>1, <1>2, <2>1, <2>2
  <2>3. CASE i = Len(s) + 1
    BY <1>1, <1>2, <2>1, <2>3
  <2>4. CASE i > Len(s) + 1
    <3>1. i - Len(a) \in 1 .. Len(u) /\ (i - Len(a)) + 1 = i - Len(s)
      BY <1>1, <1>2, <2>1, <2>4
    <3>2. u[i - Len(a)] = t[i - Len(s)]
      BY <1>1, <3>1
    <3>3. ~(i <= Len(a)) /\ ~(i <= Len(s))
      BY <1>1, <1>2, <2>1, <2>4
    <3>4. QED
      BY <2>1, <3>2, <3>3
  <2>5. QED
    BY <1>1, <2>1, <2>2, <2>3, <2>4
<1>5. a \o u = s \o t
  BY <1>3, <1>4, SeqEqual
<1>6. QED
  BY <1>5 DEF a, u

LEMMA DocumentInit == ASSUME Init PROVE DocumentInv
<1>1. said = <<>> /\ built = {} /\ document \in Documents \cup {None}
  BY DEF Init
<1>2. ASSUME document # None PROVE said \o todo = CallsOf(document)
  <2>1. document \in Documents /\ todo = CallsOf(document)
    BY <1>1, <1>2 DEF Init
  <2>2. todo \in Seq(CallsIn(todo))
    BY <2>1, DocumentListed DEF IsList
  <2>3. QED
    BY <1>1, <2>1, <2>2, ConcatEmptySeq
<1>3. QED
  BY <1>1, <1>2 DEF DocumentInv

LEMMA DocumentStep == ASSUME IInv, SaidInv, DocumentInv, [Next]_vars PROVE DocumentInv'
<1> SUFFICES ASSUME document' # None
             PROVE  /\ ~raised' => said' \o todo' = CallsOf(document')
                    /\ \A b \in built' : ~raised' /\ todo' = <<>> /\ b.after = Len(said')
  BY DEF DocumentInv
<1>1. document' = document
  BY DEF Next, Call, Load, build, Relink, vars
<1>2. /\ ~raised => said \o todo = CallsOf(document)
      /\ \A b \in built : ~raised /\ todo = <<>> /\ b.after = Len(said)
      /\ document \in Documents
  BY <1>1 DEF DocumentInv, IInv
<1>3. ~Call
  BY <1>1 DEF Call
<1>4. CASE Load
  <2>1. /\ ~raised /\ todo # <<>> /\ todo' = Tail(todo) /\ built' = built
        /\ Make(Head(todo)) /\ todo \in Seq(CallsIn(CallsOf(document)))
    BY <1>1, <1>4 DEF Load, IInv
  <2>2. built' = {}
    BY <1>2, <2>1
  <2>3. Head(todo) \in CallsIn(CallsOf(document)) /\ CallsIn(CallsOf(document)) \subseteq Sayable
    BY <1>2, <2>1 DEF Sayable
  <2>4. PICK call : call = Head(todo)
    OBVIOUS
  <2>5. call \in Sayable /\ WellTyped(call) /\ Make(call)
    BY <1>2, <2>1, <2>3, <2>4, DocumentsAssumption
  <2>6. ASSUME ~raised' PROVE said' \o todo' = CallsOf(document)
    <3>1. said' = Append(said, call)
      BY <2>5, <2>6, CallIsAdded
    <3>2. said \in Seq(Saids) /\ todo \in Seq(Saids)
      BY <2>1, <2>3 DEF SaidInv, Saids
    <3>3. QED
      BY <1>2, <2>1, <2>4, <3>1, <3>2, MovedOver
  <2>7. QED
    BY <1>1, <2>2, <2>6
<1>5. CASE build
  <2>1. /\ ~raised /\ todo = <<>> /\ built = {} /\ UNCHANGED <<todo, raised, said>>
        /\ \A b \in built' : b.after = Len(said)
    BY <1>1, <1>5 DEF build
  <2>2. QED
    BY <1>1, <1>2, <2>1
<1>6. CASE Relink \/ UNCHANGED vars
  <2>1. UNCHANGED <<todo, raised, said, built>>
    BY <1>6 DEF Relink, vars
  <2>2. QED
    BY <1>1, <1>2, <2>1
<1>7. QED
  BY <1>3, <1>4, <1>5, <1>6 DEF Next

\* What is said of a kind when a document has been said is what it lists.
LEMMA SaidOfDocument ==
    ASSUME document \in Documents, said = CallsOf(document)
    PROVE  /\ NamesSaid(Len(said), "allow_tools") = Listed(document.allow)
           /\ NamesSaid(Len(said), "deny_tools") = Listed(document.deny)
           /\ ToolsSaid(Len(said)) = {document.args[i].name : i \in DOMAIN document.args}
           /\ PathsSaid(Len(said), "read_paths") = Listed(document.read)
           /\ PathsSaid(Len(said), "write_paths") = Listed(document.write)
           /\ Said(Len(said), "network") # {}
           /\ \A i \in Said(Len(said), "network") : said[i].default = document.default
<1>1. DOMAIN said = 1 .. Len(said)
  BY DocumentListed, LenProperties DEF IsList
<1>2. /\ IsList(Entries(document.allow)) /\ IsList(Entries(document.deny))
      /\ IsList(Entries(document.read)) /\ IsList(Entries(document.write))
      /\ IsList(document.args)
  BY DocumentsAssumption
<1>3. PICK rest :
         /\ \A call \in rest :
               call.method \notin {"allow_tools", "deny_tools", "tool", "read_paths",
                                  "write_paths", "network"}
         /\ CallsIn(said) =
               CallsIn(ForNames("allow_tools", document.allow))
               \cup CallsIn(ForNames("deny_tools", document.deny))
               \cup CallsIn(ForTools(document.args))
               \cup CallsIn(ForPaths("read_paths", document.read))
               \cup CallsIn(ForPaths("write_paths", document.write))
               \cup {[method |-> "network", default |-> document.default]}
               \cup rest
  BY DocumentListed
<1>4. ASSUME NEW m, NEW x
      PROVE  /\ x \in NamesSaid(Len(said), m) <=>
                   \E call \in CallsIn(said) : call.method = m /\ x \in call.names
             /\ x \in PathsSaid(Len(said), m) <=>
                   \E call \in CallsIn(said) : call.method = m /\ x \in call.paths
  BY <1>1 DEF NamesSaid, PathsSaid, Said, CallsIn
<1>5. PICK A, D, T, R, W :
         /\ A = CallsIn(ForNames("allow_tools", document.allow))
         /\ D = CallsIn(ForNames("deny_tools", document.deny))
         /\ T = CallsIn(ForTools(document.args))
         /\ R = CallsIn(ForPaths("read_paths", document.read))
         /\ W = CallsIn(ForPaths("write_paths", document.write))
  OBVIOUS
<1>6. /\ \A call \in A : call.method = "allow_tools"
      /\ \A call \in D : call.method = "deny_tools"
      /\ \A call \in T : call.method = "tool" /\ call.allow
      /\ \A call \in R : call.method = "read_paths"
      /\ \A call \in W : call.method = "write_paths"
  BY <1>2, <1>5, NamesListed, ToolsListed, PathsListed
<1>7. /\ \A x : x \in Listed(document.allow) <=> \E call \in A : x \in call.names
      /\ \A x : x \in Listed(document.deny) <=> \E call \in D : x \in call.names
      /\ {call.name : call \in T} = {document.args[i].name : i \in DOMAIN document.args}
      /\ \A x : x \in Listed(document.read) <=> \E call \in R : x \in call.paths
      /\ \A x : x \in Listed(document.write) <=> \E call \in W : x \in call.paths
  <2>1. {call.name : call \in T} = {document.args[i].name : i \in DOMAIN document.args}
    BY <1>2, <1>5, ToolsListed
  <2>2. /\ \A x : x \in Listed(document.allow) <=> \E call \in A : x \in call.names
        /\ \A x : x \in Listed(document.deny) <=> \E call \in D : x \in call.names
    BY <1>2, <1>5, NamesListed
  <2>3. /\ \A x : x \in Listed(document.read) <=> \E call \in R : x \in call.paths
        /\ \A x : x \in Listed(document.write) <=> \E call \in W : x \in call.paths
    BY <1>2, <1>5, PathsListed
  <2>4. QED
    BY <2>1, <2>2, <2>3
<1>8. PICK n : n.method = "network" /\ n.default = document.default
              /\ CallsIn(said) = A \cup D \cup T \cup R \cup W \cup {n} \cup rest
  <2>1. PICK n : n = [method |-> "network", default |-> document.default]
    OBVIOUS
  <2>2. n.method = "network" /\ n.default = document.default
    BY <2>1
  <2>3. QED
    BY <1>3, <1>5, <2>1, <2>2
<1>9. ASSUME NEW call
      PROVE  /\ call \in CallsIn(said) /\ call.method = "allow_tools" <=> call \in A
             /\ call \in CallsIn(said) /\ call.method = "deny_tools" <=> call \in D
             /\ call \in CallsIn(said) /\ call.method = "tool" <=> call \in T
             /\ call \in CallsIn(said) /\ call.method = "read_paths" <=> call \in R
             /\ call \in CallsIn(said) /\ call.method = "write_paths" <=> call \in W
             /\ call \in CallsIn(said) /\ call.method = "network" <=> call = n
  BY <1>3, <1>6, <1>8
<1>10. /\ NamesSaid(Len(said), "allow_tools") = Listed(document.allow)
       /\ NamesSaid(Len(said), "deny_tools") = Listed(document.deny)
       /\ PathsSaid(Len(said), "read_paths") = Listed(document.read)
       /\ PathsSaid(Len(said), "write_paths") = Listed(document.write)
  <2>1. NamesSaid(Len(said), "allow_tools") = Listed(document.allow)
    <3>1. \A x : x \in NamesSaid(Len(said), "allow_tools") <=> \E call \in A : x \in call.names
      BY <1>4, <1>9
    <3>2. QED
      BY <1>7, <3>1
  <2>2. NamesSaid(Len(said), "deny_tools") = Listed(document.deny)
    <3>1. \A x : x \in NamesSaid(Len(said), "deny_tools") <=> \E call \in D : x \in call.names
      BY <1>4, <1>9
    <3>2. QED
      BY <1>7, <3>1
  <2>3. PathsSaid(Len(said), "read_paths") = Listed(document.read)
    <3>1. \A x : x \in PathsSaid(Len(said), "read_paths") <=> \E call \in R : x \in call.paths
      BY <1>4, <1>9
    <3>2. QED
      BY <1>7, <3>1
  <2>4. PathsSaid(Len(said), "write_paths") = Listed(document.write)
    <3>1. \A x : x \in PathsSaid(Len(said), "write_paths") <=> \E call \in W : x \in call.paths
      BY <1>4, <1>9
    <3>2. QED
      BY <1>7, <3>1
  <2>5. QED
    BY <2>1, <2>2, <2>3, <2>4
<1>11. ToolsSaid(Len(said)) = {document.args[i].name : i \in DOMAIN document.args}
  <2>1. \A x : x \in ToolsSaid(Len(said)) <=>
            \E call \in CallsIn(said) : call.method = "tool" /\ call.allow /\ x = call.name
    BY <1>1 DEF ToolsSaid, Said, CallsIn
  <2>2. \A x : x \in ToolsSaid(Len(said)) <=> \E call \in T : x = call.name
    BY <1>6, <1>9, <2>1
  <2>3. ToolsSaid(Len(said)) = {call.name : call \in T}
    BY <2>2
  <2>4. QED
    BY <1>7, <2>3
<1>12. \A call \in CallsIn(said) : call.method = "network" => call.default = document.default
  BY <1>8, <1>9
<1>13. \A i \in Said(Len(said), "network") : said[i].default = document.default
  BY <1>1, <1>12 DEF Said, CallsIn
<1>14. Said(Len(said), "network") # {}
  <2>1. \E call \in CallsIn(said) : call.method = "network"
    BY <1>8
  <2>2. QED
    BY <1>1, <2>1 DEF Said, CallsIn
<1>15. QED
  BY <1>10, <1>11, <1>13, <1>14

\* A policy loaded from any document denies what the document denies, permits the
\* rest of what it allows or declares, and opens the paths it lists.
THEOREM DocumentsMeanWhatTheyList == Spec => []DocumentsAsListed
<1>1. ASSUME IInv, SaidInv, DocumentInv PROVE DocumentsAsListed
  <2> USE <1>1
  <2> SUFFICES ASSUME NEW b \in built, document # None
      PROVE  LET Declared == {document.args[i].name : i \in DOMAIN document.args}
                 Allowed == Listed(document.allow) \cup Declared
             IN  /\ \A t \in Names :
                       tool_allowed(b.policy, t)
                           <=> t \notin Listed(document.deny) /\ (Allowed = {} \/ t \in Allowed)
                 /\ \A p \in Listed(document.write) : b.links[p] \in b.policy.write_paths
                 /\ \A p \in Listed(document.read) \cup Listed(document.write) :
                       b.links[p] \in b.policy.read_paths
                 /\ document.default = b.policy.network
    BY DEF DocumentsAsListed
  <2> DEFINE allowed == Listed(document.allow)
                        \cup {document.args[i].name : i \in DOMAIN document.args}
  <2>1. /\ document \in Documents /\ b.after = Len(said) /\ PolicyHolds(b)
        /\ said \in Seq(Saids) /\ said \o <<>> = CallsOf(document)
    BY DEF IInv, SaidInv, DocumentInv
  <2>2. said = CallsOf(document)
    BY <2>1, ConcatEmptySeq
  <2>3. /\ NamesSaid(b.after, "allow_tools") \cup ToolsSaid(b.after) = allowed
        /\ NamesSaid(b.after, "deny_tools") = Listed(document.deny)
        /\ PathsSaid(b.after, "read_paths") = Listed(document.read)
        /\ PathsSaid(b.after, "write_paths") = Listed(document.write)
    BY <2>1, <2>2, SaidOfDocument
  <2>4. allowed # None
    BY <2>1, <2>3, LenProperties, AllowedIsNotNone
  <2>5. /\ b.policy.denied_tools = Listed(document.deny)
        /\ b.policy.allowed_tools = IF allowed = {} THEN None ELSE allowed
    BY <2>1, <2>3 DEF PolicyHolds, RulesHold, ToolsHeld
  <2> HIDE DEF allowed
  <2>6. \A t : tool_allowed(b.policy, t)
           <=> t \notin Listed(document.deny) /\ (allowed = {} \/ t \in allowed)
    BY <2>4, <2>5 DEF tool_allowed
  <2>7. /\ \A p \in Listed(document.write) : b.links[p] \in b.policy.write_paths
        /\ \A p \in Listed(document.read) \cup Listed(document.write) :
              b.links[p] \in b.policy.read_paths
    BY <2>1, <2>3 DEF PolicyHolds
  <2>8. document.default = b.policy.network
    <3>1. /\ Said(b.after, "network") # {}
          /\ \A i \in Said(b.after, "network") : said[i].default = document.default
      BY <2>1, <2>2, SaidOfDocument
    <3>2. QED
      BY <2>1, <3>1 DEF PolicyHolds, RulesHold, DefaultHeld
  <2>9. QED
    BY <2>6, <2>7, <2>8 DEF allowed
<1>2. Spec => [](IInv /\ SaidInv /\ DocumentInv)
  <2>1. Init => DocumentInv
    BY DocumentInit
  <2>2. IInv /\ SaidInv /\ DocumentInv /\ [Next]_vars => DocumentInv'
    BY DocumentStep
  <2>3. QED
    BY <2>1, <2>2, Invariant, SaidInvariant, PTL DEF Spec
<1>3. QED
  BY <1>1, <1>2, PTL

=============================================================================
