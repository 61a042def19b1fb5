------------------------------ MODULE PlanOrder ------------------------------
(***************************************************************************)
(* In which order the nodes that the providers plan are applied, and in    *)
(* which they are released: resolveNodeConflicts, topoOrder and            *)
(* teardownOrder, as newProviderPlan calls them.  One pick of a node is    *)
(* one step.                                                               *)
(***************************************************************************)
EXTENDS Integers, FiniteSets, SequencesExt

CONSTANTS
    Key,          \* resource keys, numbered in their lexical order
    LoggerKey,    \* the key of the logger's node, which is always planned
    All,          \* "*" in TeardownAfter
    Declarations  \* what an application may declare: nodes in the order of the providers

Configure == 0
Bootstrap == 1
Serve == 3

PlanNode == [key : Key, phase : {Configure, Bootstrap, Serve}, priority : Int,
         dependsOn : SUBSET Key, teardownAfter : SUBSET (Key \cup {All}),
         override : BOOLEAN, reason : BOOLEAN]

ASSUME PlanAssumption ==
    /\ Key \subseteq Nat /\ IsFiniteSet(Key) /\ All \notin Key
    /\ \A d \in Declarations :
          /\ d \in Seq(PlanNode)
          /\ \E i \in DOMAIN d : d[i].phase = Bootstrap
                /\ \A j \in DOMAIN d : d[j].key = LoggerKey <=> j = i

VARIABLES
    decl,
    stage,      \* how far the planning is
    nodes,      \* the nodes that survive the conflicts, one for each key
    group,      \* topoPhase: the nodes of the phase, sorted
    waits,      \* indeg of the loop that runs, by key
    ordered,    \* the nodes in the order in which they are applied
    applyNodes, \* what is released when the App stops, in the order of its application
    released    \* the keys in the order of the teardown

lists == <<nodes, ordered, applyNodes>>
planVars == <<decl, stage, group, waits, released, lists>>

\* The loop that keeps those of a list that lie in T, in their order.
Kept(s, T) ==
    LET kept[i \in 0..Len(s)] ==
            IF i = 0 THEN <<>>
            ELSE IF s[i] \in T THEN Append(kept[i - 1], s[i]) ELSE kept[i - 1]
    IN  kept[Len(s)]

KeysOf(s) == {n.key : n \in ToSet(s)}

Rejections == {"conflict", "unordered", "entangled"}

PlanTypeOK ==
    /\ decl \in Declarations
    /\ stage \in {"declared", "order", "pick", "release", "planned"} \cup Rejections
    /\ {nodes, group, ordered, applyNodes} \subseteq Seq(PlanNode)
    /\ \A k \in DOMAIN waits : k \in Key /\ waits[k] \in 0..Cardinality(Key)
    /\ released \in Seq(Key)

PlanInit ==
    /\ decl \in Declarations
    /\ stage = "declared"
    /\ nodes = <<>> /\ ordered = <<>> /\ applyNodes = <<>>
    /\ group = <<>>
    /\ waits = <<>>
    /\ released = <<>>

Rejects(how) ==
    /\ stage' = how
    /\ UNCHANGED <<decl, group, waits, released, lists>>

-----------------------------------------------------------------------------
(* resolveNodeConflicts.                                                   *)

Declared(k) == {i \in DOMAIN decl : decl[i].key = k}
Overriding(k) == {i \in Declared(k) : decl[i].override}

\* One node of the key is left: the only one, or the only one that overrides
\* and says why.
Settles(k) ==
    \/ Cardinality(Declared(k)) = 1
    \/ Cardinality(Overriding(k)) = 1 /\ \A i \in Overriding(k) : decl[i].reason

Survivor(k) ==
    decl[CHOOSE i \in Declared(k) : Declared(k) = {i} \/ i \in Overriding(k)]

\* Keys keep the order of their first appearance.
Survivors ==
    LET First == {Min(Declared(k)) : k \in KeysOf(decl)}
        s == Kept([i \in DOMAIN decl |-> i], First)
    IN  [j \in DOMAIN s |-> Survivor(decl[s[j]].key)]

Conflict ==
    /\ stage = "declared"
    /\ \E k \in KeysOf(decl) : ~Settles(k)
    /\ Rejects("conflict")

Resolve ==
    /\ stage = "declared"
    /\ \A k \in KeysOf(decl) : Settles(k)
    /\ nodes' = Survivors
    /\ stage' = "order"
    /\ UNCHANGED <<decl, group, waits, ordered, applyNodes, released>>

-----------------------------------------------------------------------------
(* topoOrder and topoPhase: phase by phase, and inside a phase what waits  *)
(* for nothing, in the order of (Priority, Key).                           *)

Precedes(m, n) ==
    m.priority < n.priority \/ (m.priority = n.priority /\ m.key < n.key)

Left == {n.phase : n \in ToSet(nodes) \ ToSet(ordered)}
InPhase(p) == Kept(nodes, {n \in ToSet(nodes) : n.phase = p})

\* A dependency that no node has, or a node of a later phase.
Unmet(n) ==
    \E k \in n.dependsOn : \A m \in ToSet(nodes) : m.key = k => m.phase > n.phase

PhaseFails ==
    /\ stage = "order" /\ Left # {}
    /\ \E n \in ToSet(InPhase(Min(Left))) : Unmet(n)
    /\ Rejects("unordered")

\* Mutant of Sorted: the nodes stay as they were declared.
AsDeclared(s) == s

Sorted(s) ==
    CHOOSE t \in [DOMAIN s -> ToSet(s)] :
        /\ ToSet(t) = ToSet(s)
        /\ \A i, j \in DOMAIN s : i < j => Precedes(t[i], t[j])

PhaseBegins ==
    /\ stage = "order" /\ Left # {}
    /\ LET s == InPhase(Min(Left))
       IN  /\ ~\E n \in ToSet(s) : Unmet(n)
           /\ group' = Sorted(s)
           /\ waits' = [k \in KeysOf(s) |->
                 Cardinality(KeysOf(s) \cap UNION {n.dependsOn :
                                n \in {m \in ToSet(s) : m.key = k}})]
    /\ stage' = "pick"
    /\ UNCHANGED <<decl, lists, released>>

Ready == {i \in DOMAIN group : group[i] \notin ToSet(ordered) /\ waits[group[i].key] = 0}

Pick ==
    /\ stage = "pick" /\ Ready # {}
    /\ LET n == group[Min(Ready)]
       IN  /\ ordered' = Append(ordered, n)
           /\ waits' = [k \in DOMAIN waits |->
                 IF \E m \in ToSet(group) : m.key = k /\ n.key \in m.dependsOn
                 THEN waits[k] - 1 ELSE waits[k]]
    /\ stage' = IF ToSet(group) \subseteq ToSet(ordered') THEN "order" ELSE "pick"
    /\ UNCHANGED <<decl, group, nodes, applyNodes, released>>

Cycle ==
    /\ stage = "pick" /\ Ready = {}
    /\ Rejects("unordered")

-----------------------------------------------------------------------------
(* newProviderPlan and teardownOrder: the logger is applied before what is *)
(* built in phase bootstrap; what was applied last is released first,      *)
(* unless it waits for another one.                                        *)

\* The keys node n is released after: unknown ones are left out.
After(n, s) ==
    {k \in KeysOf(s) : k \in n.teardownAfter \/ (All \in n.teardownAfter /\ k # n.key)}

AppliedNodes ==
    LET logger == {n \in ToSet(ordered) : n.key = LoggerKey}
        built  == {n \in ToSet(ordered) : n.phase = Bootstrap}
    IN  Kept(ordered, logger) \o Kept(ordered, built \ logger)

Applied ==
    /\ stage = "order" /\ Left = {}
    /\ LET s == AppliedNodes
       IN  /\ applyNodes' = s
           /\ waits' = [k \in KeysOf(s) |->
                 Cardinality(UNION {After(n, s) : n \in {m \in ToSet(s) : m.key = k}})]
    /\ stage' = "release"
    /\ UNCHANGED <<decl, group, nodes, ordered, released>>

Free == {i \in DOMAIN applyNodes : applyNodes[i].key \notin ToSet(released)
                                /\ waits[applyNodes[i].key] = 0}

Releases(i) ==
    LET k == applyNodes[i].key
    IN  /\ released' = Append(released, k)
        /\ waits' = [j \in DOMAIN waits |->
              IF \E n \in ToSet(applyNodes) : n.key = j /\ k \in After(n, applyNodes)
              THEN waits[j] - 1 ELSE waits[j]]
        /\ stage' = IF Len(released') = Len(applyNodes) THEN "planned" ELSE "release"
        /\ UNCHANGED <<decl, group, lists>>

\* Mutant of Release: the first free node is taken.
ReleaseFirst ==
    /\ stage = "release" /\ Free # {}
    /\ Releases(Min(Free))

Release ==
    /\ stage = "release" /\ Free # {}
    /\ Releases(Max(Free))

Entangled ==
    /\ stage = "release" /\ Free = {}
    /\ Rejects("entangled")

Ended == stage \in {"planned"} \cup Rejections /\ UNCHANGED planVars

-----------------------------------------------------------------------------

PlanNext ==
    \/ Conflict \/ Resolve
    \/ PhaseFails \/ PhaseBegins \/ Pick \/ Cycle
    \/ Applied \/ Release \/ Entangled
    \/ Ended

PlanSpec == PlanInit /\ [][PlanNext]_planVars

-----------------------------------------------------------------------------
(* Properties.                                                             *)

\* Dependencies come first and phases in turn.
IsOrder(s) ==
    /\ \A i, j \in DOMAIN s : i < j => s[i].phase <= s[j].phase
    /\ \A i \in DOMAIN s : \A k \in s[i].dependsOn : \E j \in 1..(i - 1) : s[j].key = k

Orders == {s \in SetToSeqs(ToSet(nodes)) : IsOrder(s)}

\* s differs from t first by a node with a smaller (Priority, Key).
Sooner(s, t) ==
    \E i \in DOMAIN s : Precedes(s[i], t[i]) /\ \A j \in 1..(i - 1) : s[j] = t[j]

(* What is planned does not depend on the order of the declarations: of    *)
(* all orders that respect phases and dependencies it is the first one by  *)
(* (Priority, Key), with one node for every declared key and every         *)
(* overriding one among them; and a plan is rejected only if two nodes     *)
(* have a key in common or there is no such order (topoOrder).             *)
OrderCanonical ==
    /\ PlanTypeOK
    /\ stage = "conflict" => \E i, j \in DOMAIN decl : i # j /\ decl[i].key = decl[j].key
    /\ stage = "unordered" => Orders = {}
    /\ applyNodes # <<>> =>
          /\ KeysOf(nodes) = KeysOf(decl)
          /\ \A i \in DOMAIN decl : decl[i].override => decl[i] \in ToSet(nodes)
          /\ ordered \in Orders
          /\ \A s \in Orders \ {ordered} : Sooner(ordered, s)

\* The keys that k waits for, by itself or through others.
Waiting(k) ==
    LET Closed(S) == \A n \in ToSet(applyNodes) :
                        n.key \in S \cup {k} => After(n, applyNodes) \subseteq S
    IN  {j \in KeysOf(applyNodes) : \A S \in SUBSET KeysOf(applyNodes) : Closed(S) => j \in S}

Position(k) == CHOOSE i \in DOMAIN applyNodes : applyNodes[i].key = k

(* Everything that was applied is released once and after what it waits    *)
(* for; a node outlives those applied after it, except one that waits, by  *)
(* itself or through others, for it or for something applied before it.    *)
(* The plan is rejected only if a node waits for itself (teardownOrder).   *)
TeardownExplained ==
    /\ stage = "entangled" => \E k \in KeysOf(applyNodes) : k \in Waiting(k)
    /\ stage = "planned" =>
          /\ ToSet(released) = KeysOf(applyNodes) /\ IsInjective(released)
          /\ \A i, j \in DOMAIN released : i < j =>
                LET k == released[i]
                    l == released[j]
                IN  /\ l \notin Waiting(k)
                    /\ Position(k) < Position(l) =>
                          \E m \in Waiting(l) : Position(m) <= Position(k)

(* What a node depends on is applied before it (Node.DependsOn, "decides   *)
(* the order of application").                                             *)
DependenciesApplied ==
    \A i \in DOMAIN applyNodes : \A j \in DOMAIN applyNodes :
        applyNodes[j].key \in applyNodes[i].dependsOn => j < i
=============================================================================
