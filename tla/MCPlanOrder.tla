----------------------------- MODULE MCPlanOrder -----------------------------
(***************************************************************************)
(* Declarations of three or four nodes, in families that vary one thing    *)
(* and keep the others still.  Key 4 is sometimes declared by nobody.      *)
(***************************************************************************)
EXTENDS PlanOrder

\* At most two of a set.
Few(S) == {T \in SUBSET S : Cardinality(T) <= 2}
One(S) == {T \in SUBSET S : Cardinality(T) <= 1}

Plain(k) == [key |-> k, phase |-> Bootstrap, priority |-> 0, dependsOn |-> {},
             teardownAfter |-> {}, override |-> FALSE, reason |-> FALSE]

\* Phases, priorities and dependencies, known and unknown.
Apart ==
    LET Kind(k) == {[Plain(k) EXCEPT !.phase = p, !.priority = r, !.dependsOn = d] :
                      p \in IF k = LoggerKey THEN {Bootstrap} ELSE {Bootstrap, Serve},
                      r \in {0, 1}, d \in Few(1..4)}
    IN  Kind(3) \X Kind(2) \X Kind(1)

\* Graphs of four nodes in one phase.
Diamonds ==
    LET Kind(k) == {[Plain(k) EXCEPT !.dependsOn = d] : d \in Few((1..4) \ {k})}
    IN  Kind(4) \X Kind(2) \X Kind(3) \X Kind(1)

\* Constraints on the teardown.
Late3 ==
    LET Kind(k) == {[Plain(k) EXCEPT !.teardownAfter = t] : t \in Few(1..4 \cup {All})}
    IN  Kind(1) \X Kind(2) \X Kind(3)

Late4 ==
    LET Kind(k) == {[Plain(k) EXCEPT !.teardownAfter = t] : t \in One(1..4 \cup {All})}
    IN  Kind(4) \X Kind(2) \X Kind(3) \X Kind(1)

\* Constraints on both.
Both ==
    LET Kind(k) == {[Plain(k) EXCEPT !.dependsOn = d, !.teardownAfter = t,
                                    !.phase = IF k = 3 THEN Configure ELSE Bootstrap] :
                      d \in One(1..3), t \in One(1..3 \cup {All})}
    IN  Kind(3) \X Kind(2) \X Kind(1)

\* Several nodes of a key.
Doubles ==
    LET Kind == {[Plain(k) EXCEPT !.override = o, !.reason = y, !.priority = r] :
                   k \in {1, 3}, o \in BOOLEAN, y \in BOOLEAN, r \in {0, 1}}
    IN  Kind \X Kind \X {Plain(LoggerKey)} \X Kind

MCDeclarations == Apart \cup Diamonds \cup Late3 \cup Late4 \cup Both \cup Doubles
=============================================================================
