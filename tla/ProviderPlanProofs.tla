-------------------------- MODULE ProviderPlanProofs --------------------------
(***************************************************************************)
(* Proofs about what becomes of the providers' nodes: PlanOrder, in which  *)
(* order they are applied and released, for any keys and declarations, and *)
(* HotReload, how their products are replaced and released, for any nodes, *)
(* hashes, configurations, changes and failed builds.                      *)
(***************************************************************************)
EXTENDS HotReload, PlanOrder, FiniteSetTheorems, SequenceTheorems,
        WellFoundedInduction, TLAPS

-----------------------------------------------------------------------------
(* HotReload: what was built is released once, nothing in use is released, *)
(* and Drift keeps nothing back.                                           *)

Product == [node : Node, hash : Hash \cup {Absent}]

\* What a build adds: one product, not released yet.
OneMore(p, n) ==
    /\ product' \in Seq(Product) /\ Len(product') = Len(product) + 1 /\ Len(product) \in Nat
    /\ product'[Len(product')] = [node |-> n, hash |-> contract[n]]
    /\ \A k \in Products : product'[k] = product[k] /\ cleaned'[k] = cleaned[k]
    /\ cleaned' \in [Products' -> Nat] /\ cleaned'[Len(product')] = 0
    /\ made' = [made EXCEPT ![p] = Len(product) + 1]
    /\ Products' = Products \cup {Len(product) + 1} /\ Products \subseteq Products'
    /\ 0..Len(product) \subseteq 0..Len(product')

LEMMA Built ==
    ASSUME TypeOK, NEW p \in Process, NEW n \in Node, Builds(p, n)
    PROVE  OneMore(p, n)
PROOF
<1> DEFINE x == [node |-> n, hash |-> contract[n]]
<1>1. product \in Seq(Product) /\ x \in Product /\ Len(product) \in Nat
    BY ReloadAssumption DEF TypeOK, SettingsOK, ProductsOK, Product, Config
<1>2. cleaned \in Seq(Nat) /\ Len(cleaned) = Len(product)
    <2>1. cleaned \in [1..Len(product) -> Nat]
        BY DEF TypeOK, SettingsOK, ProductsOK, Products
    <2> QED BY <1>1, <2>1, SeqDef, LenProperties
<1>3. product' = Append(product, x) /\ cleaned' = Append(cleaned, 0)
    BY DEF Builds
<1>4. /\ product' \in Seq(Product) /\ Len(product') = Len(product) + 1
      /\ product'[Len(product')] = x /\ \A k \in Products : product'[k] = product[k]
    BY <1>1, <1>3, AppendProperties DEF Products
<1>5. /\ cleaned' \in Seq(Nat) /\ Len(cleaned') = Len(product')
      /\ cleaned'[Len(product')] = 0 /\ \A k \in Products : cleaned'[k] = cleaned[k]
    BY <1>2, <1>3, <1>4, AppendProperties DEF Products
<1>6. cleaned' \in [Products' -> Nat]
    BY <1>5, LenProperties DEF Products
<1> QED BY <1>1, <1>4, <1>5, <1>6 DEF Builds, Products, OneMore

\* What a release adds.
LEMMA ReleasedFacts ==
    ASSUME TypeOK, NEW ks, Released(ks)
    PROVE  /\ cleaned' \in [Products -> Nat]
           /\ \A k \in Products : cleaned'[k] = cleaned[k] + (IF k \in ks THEN 1 ELSE 0)
PROOF BY DEF TypeOK, ProductsOK, Released

LEMMA ProductsTyped ==
    TypeOK => \A k \in Products : product[k] \in Product /\ product[k].node \in Node /\ k # 0
PROOF
<1> SUFFICES ASSUME TypeOK, NEW k \in Products
             PROVE product[k] \in Product /\ product[k].node \in Node /\ k # 0
    OBVIOUS
<1>1. product \in Seq(Product) /\ k \in 1..Len(product)
    BY DEF TypeOK, ProductsOK, Product, Products
<1>2. product[k] \in Product
    BY <1>1, ElementOfSeq
<1> QED BY <1>1, <1>2 DEF Product

-----------------------------------------------------------------------------
(* Types, and the product whoever is past a build has in its hands.        *)

TypedInv == TypeOK /\ MadeFirst

LEMMA TypedInit == Init => TypedInv
PROOF
<1> SUFFICES ASSUME Init PROVE TypedInv
    OBVIOUS
<1>1. product \in Seq(Product) /\ Len(product) = 0 /\ Products = {}
    BY EmptySeq DEF Init, Products
<1>2. cleaned \in [Products -> Nat]
    <2>1. cleaned = [k \in 1..0 |-> 0]
        BY EmptySeq, LenProperties, SeqDef DEF Init
    <2> QED BY <1>1, <2>1
<1>3. TypeOK
    <2>1. /\ contract \in Settings /\ plan \in Settings /\ settings \in Settings
          /\ snap \in [Process -> Settings]
        BY ReloadAssumption DEF Init
    <2>2. /\ live \in [Node -> 0..Len(product)] /\ curCleanup \in 0..Len(product)
          /\ made \in [Process -> 0..Len(product)]
        BY <1>1 DEF Init
    <2>3. /\ at \in [Process -> RunAt \cup WatchAt] /\ at["run"] \in RunAt
          /\ at["watch"] \in WatchAt
        BY DEF Init, Process, RunAt, WatchAt, Assembling
    <2>4. changes \in 0..MaxChanges /\ faults \in 0..MaxFaults
        BY ReloadAssumption DEF Init
    <2> QED BY <1>1, <1>2, <2>1, <2>2, <2>3, <2>4
               DEF Init, TypeOK, SettingsOK, ProductsOK, ControlOK, Product
<1>4. MadeFirst
    BY DEF Init, MadeFirst, Process, Gone, Undoing, Busy
<1> QED BY <1>3, <1>4 DEF TypedInv

\* BEGIN TYPED
\* What the assumption says of the constants.
LEMMA Constants ==
    /\ Start \in Settings /\ Bad \notin Settings
    /\ \A s \in Settings, n \in Node : s[n] \in Hash \cup {Absent}
    /\ Logger \in Node /\ Logger \notin Provider /\ Provider \subseteq Node
    /\ \A n \in Node : n = Logger \/ n \in Provider
    /\ MaxChanges \in Nat /\ MaxFaults \in Nat
PROOF BY ReloadAssumption DEF Config, Node


LEMMA SettingsNext == TypedInv /\ [Next]_vars => SettingsOK'
PROOF
<1> SUFFICES ASSUME TypedInv, [Next]_vars PROVE SettingsOK'
    OBVIOUS
<1>1. ASSUME NEW p \in Process, LoggerBuilt(p) PROVE SettingsOK'
    BY <1>1 DEF LoggerBuilt, TypedInv, TypeOK, SettingsOK
<1>2. ASSUME NEW p \in Process, LoggerFlushes(p) PROVE SettingsOK'
    BY <1>2 DEF LoggerFlushes, TypedInv, TypeOK, SettingsOK, locals
<1>3. ASSUME NEW p \in Process, LoggerStored(p) PROVE SettingsOK'
    BY <1>3 DEF LoggerStored, TypedInv, TypeOK, SettingsOK
<1>4. ASSUME NEW p \in Process, Puts(p) PROVE SettingsOK'
    BY <1>4, Constants
       DEF Puts, TypedInv, TypeOK, SettingsOK, Process, shared, locals, Builds, NodeOf
<1>5. ASSUME NEW p \in Process, Writes(p) PROVE SettingsOK'
    BY <1>5, Constants
       DEF Writes, TypedInv, TypeOK, SettingsOK, Process, shared, locals, Builds, NodeOf
<1>6. ASSUME NEW p \in Process, Marks(p) PROVE SettingsOK'
    <2>1. \A n \in Node : plan[n] \in Hash \cup {Absent} /\ snap["watch"][n] \in Hash \cup {Absent}
        BY Constants DEF TypedInv, TypeOK, SettingsOK, Process, shared, locals, Builds, NodeOf
    <2> QED BY <1>6, <2>1 DEF Marks, TypedInv, TypeOK, SettingsOK, Process, Builds, NodeOf
<1>7. CASE Syncs
    BY <1>7 DEF Syncs, BeginsUndo, TypedInv, TypeOK, SettingsOK, shared
<1>8. CASE Installs
    BY <1>8, Constants DEF Installs, TypedInv, TypeOK, SettingsOK, Process
<1>9. CASE LoggerMarked
    BY <1>9, Constants DEF LoggerMarked, TypedInv, TypeOK, SettingsOK
<1>10. CASE RunBuilds
    BY <1>10 DEF RunBuilds, TypedInv, TypeOK, SettingsOK
<1>11. CASE RunFails
    BY <1>11 DEF RunFails, BeginsUndo, TypedInv, TypeOK, SettingsOK, shared
<1>12. CASE Stops
    BY <1>12 DEF Stops, BeginsUndo, TypedInv, TypeOK, SettingsOK, shared
<1>13. CASE Undoes
    BY <1>13 DEF Undoes, TypedInv, TypeOK, SettingsOK
<1>14. CASE Closes
    BY <1>14 DEF Closes, TypedInv, TypeOK, SettingsOK, shared, locals
<1>15. CASE Returns
    BY <1>15 DEF Returns, TypedInv, TypeOK, SettingsOK, shared, locals
<1>16. ASSUME NEW s \in Settings \cup {Bad}, Change(s) PROVE SettingsOK'
    BY <1>16 DEF Change, TypedInv, TypeOK, SettingsOK, shared
<1>17. CASE Lands
    BY <1>17, Constants
       DEF Lands, TypedInv, TypeOK, SettingsOK, Process, shared, locals, Builds, NodeOf
<1>18. CASE LoggerFails
    BY <1>18 DEF LoggerFails, TypedInv, TypeOK, SettingsOK, shared, locals
<1>19. CASE Diffs
    BY <1>19, Constants
       DEF Diffs, TypedInv, TypeOK, SettingsOK, Process, shared, locals, Builds, NodeOf
<1>20. CASE Removes
    BY <1>20, Constants DEF Removes, TypedInv, TypeOK, SettingsOK, Process, Builds, NodeOf
<1>21. CASE Rebuilds
    BY <1>21 DEF Rebuilds, TypedInv, TypeOK, SettingsOK
<1>22. CASE RebuildFails
    BY <1>22 DEF RebuildFails, TypedInv, TypeOK, SettingsOK, shared
<1>23. CASE Replaced
    BY <1>23 DEF Replaced, TypedInv, TypeOK, SettingsOK, locals
<1>24. CASE ReloadEnds
    BY <1>24, Constants DEF ReloadEnds, TypedInv, TypeOK, SettingsOK, Process
<1>25. CASE UNCHANGED vars
    BY <1>25 DEF vars, shared, locals, history, TypedInv, TypeOK, SettingsOK
<1> QED
    BY <1>1, <1>2, <1>3, <1>4, <1>5, <1>6, <1>7, <1>8, <1>9, <1>10, <1>11, <1>12, <1>13, <1>14,
       <1>15, <1>16, <1>17, <1>18, <1>19, <1>20, <1>21, <1>22, <1>23, <1>24, <1>25
       DEF Next, RunStep, WatchStep, Both, Process

LEMMA ProductsNext == TypedInv /\ [Next]_vars => ProductsOK'
PROOF
<1> SUFFICES ASSUME TypedInv, [Next]_vars PROVE ProductsOK'
    OBVIOUS
<1>1. ASSUME NEW p \in Process, LoggerBuilt(p) PROVE ProductsOK'
    <2>1. OneMore(p, Logger)
        BY <1>1, Constants, Built DEF LoggerBuilt, TypedInv
    <2>2. live' = [live EXCEPT ![Logger] = Len(product')] /\ UNCHANGED <<slot, hold, curCleanup>>
        BY <1>1 DEF LoggerBuilt
    <2>3. Len(product') \in 0..Len(product')
        BY <2>1 DEF OneMore
    <2> QED BY <2>1, <2>2, <2>3, Constants DEF OneMore, TypedInv, TypeOK, ProductsOK, Product
<1>2. ASSUME NEW p \in Process, LoggerFlushes(p) PROVE ProductsOK'
    <2>1. cleaned' \in [Products -> Nat]
        BY <1>2, ReleasedFacts DEF TypedInv, LoggerFlushes
    <2> QED BY <1>2, <2>1 DEF LoggerFlushes, TypedInv, TypeOK, ProductsOK, Products, locals
<1>3. ASSUME NEW p \in Process, LoggerStored(p) PROVE ProductsOK'
    BY <1>3 DEF LoggerStored, TypedInv, TypeOK, ProductsOK, Products
<1>4. ASSUME NEW p \in Process, Puts(p) PROVE ProductsOK'
    <2>1. made[p] \in Products /\ NodeOf(p) \in Provider /\ NodeOf(p) \in Node
        BY <1>4, Constants DEF Puts, TypedInv, TypeOK, ProductsOK, MadeFirst, Busy, Products
    <2>2. made[p] \in 0..Len(product)
        BY DEF TypedInv, TypeOK, ProductsOK
    <2> QED BY <1>4, <2>1, <2>2 DEF Puts, TypedInv, TypeOK, ProductsOK, Products, shared, locals
<1>5. ASSUME NEW p \in Process, Writes(p) PROVE ProductsOK'
    <2>1. made[p] \in Products /\ NodeOf(p) \in Provider /\ NodeOf(p) \in Node
        BY <1>5, Constants DEF Writes, TypedInv, TypeOK, ProductsOK, MadeFirst, Busy, Products
    <2>2. made[p] \in 0..Len(product)
        BY DEF TypedInv, TypeOK, ProductsOK
    <2> QED BY <1>5, <2>1, <2>2 DEF Writes, TypedInv, TypeOK, ProductsOK, Products, shared, locals
<1>6. ASSUME NEW p \in Process, Marks(p) PROVE ProductsOK'
    BY <1>6 DEF Marks, TypedInv, TypeOK, ProductsOK, Products
<1>7. CASE Syncs
    BY <1>7 DEF Syncs, BeginsUndo, TypedInv, TypeOK, ProductsOK, Products, shared
<1>8. CASE Installs
    BY <1>8 DEF Installs, TypedInv, TypeOK, ProductsOK, Products
<1>9. CASE LoggerMarked
    BY <1>9 DEF LoggerMarked, TypedInv, TypeOK, ProductsOK, Products
<1>10. CASE RunBuilds
    <2>1. CASE todo["run"] = {}
        BY <1>10, <2>1 DEF RunBuilds, TypedInv, TypeOK, ProductsOK, Products
    <2>2. ASSUME todo["run"] # {}, NEW n \in todo["run"], Builds("run", n) PROVE ProductsOK'
        <3>1. n \in Node /\ n \in Provider /\ "run" \in Process
            BY <1>10 DEF RunBuilds, TypedInv, TypeOK, ControlOK, MadeFirst, Process, Gone, Undoing
        <3>2. OneMore("run", n)
            BY <2>2, <3>1, Built DEF TypedInv
        <3> QED BY <1>10, <2>2, <3>1, <3>2, Constants
                   DEF RunBuilds, OneMore, TypedInv, TypeOK, ProductsOK, Product, NodeOf
    <2> QED BY <1>10, <2>1, <2>2 DEF RunBuilds
<1>11. CASE RunFails
    BY <1>11 DEF RunFails, BeginsUndo, TypedInv, TypeOK, ProductsOK, Products, shared
<1>12. CASE Stops
    BY <1>12 DEF Stops, BeginsUndo, TypedInv, TypeOK, ProductsOK, Products, shared
<1>13. CASE Undoes
    <2>1. cleaned' \in [Products -> Nat]
        BY <1>13, ReleasedFacts DEF TypedInv, Undoes
    <2> QED BY <1>13, <2>1 DEF Undoes, TypedInv, TypeOK, ProductsOK, Products
<1>14. CASE Closes
    BY <1>14 DEF Closes, TypedInv, TypeOK, ProductsOK, Products, shared, locals
<1>15. CASE Returns
    BY <1>15 DEF Returns, TypedInv, TypeOK, ProductsOK, Products, shared, locals
<1>16. ASSUME NEW s \in Settings \cup {Bad}, Change(s) PROVE ProductsOK'
    BY <1>16 DEF Change, TypedInv, TypeOK, ProductsOK, Products, shared
<1>17. CASE Lands
    BY <1>17 DEF Lands, TypedInv, TypeOK, ProductsOK, Products, locals
<1>18. CASE LoggerFails
    BY <1>18 DEF LoggerFails, TypedInv, TypeOK, ProductsOK, Products, shared, locals
<1>19. CASE Diffs
    BY <1>19 DEF Diffs, TypedInv, TypeOK, ProductsOK, Products
<1>20. CASE Removes
    BY <1>20 DEF Removes, TypedInv, TypeOK, ProductsOK, Products
<1>21. CASE Rebuilds
    <2>1. PICK n \in todo["watch"] : snap["watch"][n] # Absent /\ Builds("watch", n)
        BY <1>21 DEF Rebuilds
    <2>2. n \in Node /\ n \in Provider /\ "watch" \in Process
        BY DEF TypedInv, TypeOK, ControlOK, MadeFirst, Process
    <2>3. OneMore("watch", n)
        BY <2>1, <2>2, Built DEF TypedInv
    <2> QED BY <1>21, <2>2, <2>3, Constants
               DEF Rebuilds, OneMore, TypedInv, TypeOK, ProductsOK, Product, Process, NodeOf
<1>22. CASE RebuildFails
    BY <1>22 DEF RebuildFails, TypedInv, TypeOK, ProductsOK, Products, shared
<1>23. CASE Replaced
    <2>1. cleaned' \in [Products -> Nat]
        BY <1>23, ReleasedFacts DEF TypedInv, Replaced
    <2> QED BY <1>23, <2>1 DEF Replaced, TypedInv, TypeOK, ProductsOK, Products, locals
<1>24. CASE ReloadEnds
    BY <1>24 DEF ReloadEnds, TypedInv, TypeOK, ProductsOK, Products
<1>25. CASE UNCHANGED vars
    BY <1>25 DEF vars, shared, locals, history, TypedInv, TypeOK, ProductsOK, Products
<1> QED
    BY <1>1, <1>2, <1>3, <1>4, <1>5, <1>6, <1>7, <1>8, <1>9, <1>10, <1>11, <1>12, <1>13, <1>14,
       <1>15, <1>16, <1>17, <1>18, <1>19, <1>20, <1>21, <1>22, <1>23, <1>24, <1>25
       DEF Next, RunStep, WatchStep, Both, Process

LEMMA ControlNext == TypedInv /\ [Next]_vars => ControlOK'
PROOF
<1> SUFFICES ASSUME TypedInv, [Next]_vars PROVE ControlOK'
    OBVIOUS
<1>1. ASSUME NEW p \in Process, LoggerBuilt(p) PROVE ControlOK'
    BY <1>1 DEF LoggerBuilt, TypedInv, TypeOK, ControlOK, RunAt, WatchAt, Assembling, Goes, history
<1>2. ASSUME NEW p \in Process, LoggerFlushes(p) PROVE ControlOK'
    BY <1>2
       DEF LoggerFlushes, TypedInv, TypeOK, ControlOK, RunAt, WatchAt, Assembling, Goes, locals,
           history
<1>3. ASSUME NEW p \in Process, LoggerStored(p) PROVE ControlOK'
    BY <1>3 DEF LoggerStored, TypedInv, TypeOK, ControlOK, RunAt, WatchAt, Assembling, Goes, history
<1>4. ASSUME NEW p \in Process, Puts(p) PROVE ControlOK'
    BY <1>4 DEF Puts, TypedInv, TypeOK, ControlOK, RunAt, WatchAt, Assembling, Goes, history
<1>5. ASSUME NEW p \in Process, Writes(p) PROVE ControlOK'
    BY <1>5
       DEF Writes, TypedInv, TypeOK, ControlOK, RunAt, WatchAt, Assembling, Goes, locals, history
<1>6. ASSUME NEW p \in Process, Marks(p) PROVE ControlOK'
    BY <1>6 DEF Marks, TypedInv, TypeOK, ControlOK, RunAt, WatchAt, Assembling, Goes, history
<1>7. CASE Syncs
    <2>1. CASE settings = Bad
        BY <1>7, <2>1
           DEF Syncs, BeginsUndo, TypedInv, TypeOK, ControlOK, Process, RunAt, Undoing, Goes,
               history
    <2>2. CASE settings # Bad
        BY <1>7, <2>2
           DEF Syncs, TypedInv, TypeOK, ControlOK, Process, RunAt, Assembling, Goes, history
    <2> QED BY <2>1, <2>2
<1>8. CASE Installs
    BY <1>8 DEF Installs, TypedInv, TypeOK, ControlOK, Process, RunAt, Assembling, Goes, history
<1>9. CASE LoggerMarked
    BY <1>9, Constants
       DEF LoggerMarked, TypedInv, TypeOK, ControlOK, Process, RunAt, Assembling, Goes, history
<1>10. CASE RunBuilds
    BY <1>10 DEF RunBuilds, TypedInv, TypeOK, ControlOK, Process, RunAt, Assembling, Goes, history
<1>11. CASE RunFails
    BY <1>11, Constants
       DEF RunFails, BeginsUndo, TypedInv, TypeOK, ControlOK, Process, RunAt, Undoing, Goes, Fault
<1>12. CASE Stops
    BY <1>12 DEF Stops, BeginsUndo, TypedInv, TypeOK, ControlOK, Process, RunAt, Undoing, Goes
<1>13. CASE Undoes
    BY <1>13 DEF Undoes, TypedInv, TypeOK, ControlOK, Process, Goes, history
<1>14. CASE Closes
    BY <1>14 DEF Closes, TypedInv, TypeOK, ControlOK, Process, RunAt, Undoing, Goes, locals, history
<1>15. CASE Returns
    BY <1>15 DEF Returns, TypedInv, TypeOK, ControlOK, Process, RunAt, Goes, locals, history
<1>16. ASSUME NEW s \in Settings \cup {Bad}, Change(s) PROVE ControlOK'
    <2>1. CASE s = Bad
        BY <1>16, <2>1, Constants DEF Change, TypedInv, TypeOK, ControlOK, Goes
    <2>2. CASE s # Bad
        <3>1. failed' \in BOOLEAN /\ loggerOK' \in BOOLEAN
            BY <1>16, <2>2 DEF Change, TypedInv, TypeOK, ControlOK
        <3>2. early' \in BOOLEAN /\ late' \in BOOLEAN
            BY <1>16 DEF Change
        <3>3. changes' \in 0..MaxChanges /\ faults' \in 0..MaxFaults
            BY <1>16, Constants DEF Change, TypedInv, TypeOK, ControlOK
        <3> QED BY <1>16, <2>2, <3>1, <3>2, <3>3
                   DEF Change, TypedInv, TypeOK, ControlOK, Process, WatchAt, Goes
    <2> QED BY <2>1, <2>2
<1>17. CASE Lands
    BY <1>17 DEF Lands, TypedInv, TypeOK, ControlOK, Process, WatchAt, Goes, locals, history
<1>18. CASE LoggerFails
    <2>1. failed' \in BOOLEAN /\ loggerOK' \in BOOLEAN
        BY <1>18 DEF LoggerFails
    <2>2. changes' \in 0..MaxChanges /\ faults' \in 0..MaxFaults
        BY <1>18, Constants DEF LoggerFails, Fault, TypedInv, TypeOK, ControlOK
    <2> QED BY <1>18, <2>1, <2>2
               DEF LoggerFails, TypedInv, TypeOK, ControlOK, Process, WatchAt, Goes, locals, history
<1>19. CASE Diffs
    BY <1>19, Constants DEF Diffs, TypedInv, TypeOK, ControlOK, Process, WatchAt, Goes, history
<1>20. CASE Removes
    BY <1>20 DEF Removes, TypedInv, TypeOK, ControlOK, Process, Goes, history
<1>21. CASE Rebuilds
    BY <1>21 DEF Rebuilds, TypedInv, TypeOK, ControlOK, Process, WatchAt, Goes, history
<1>22. CASE RebuildFails
    BY <1>22, Constants DEF RebuildFails, TypedInv, TypeOK, ControlOK, Process, Goes, Fault, history
<1>23. CASE Replaced
    BY <1>23 DEF Replaced, TypedInv, TypeOK, ControlOK, Process, WatchAt, Goes, locals, history
<1>24. CASE ReloadEnds
    BY <1>24 DEF ReloadEnds, TypedInv, TypeOK, ControlOK, Process, WatchAt, Goes, history
<1>25. CASE UNCHANGED vars
    BY <1>25 DEF vars, shared, locals, history, TypedInv, TypeOK, ControlOK, Goes
<1> QED
    BY <1>1, <1>2, <1>3, <1>4, <1>5, <1>6, <1>7, <1>8, <1>9, <1>10, <1>11, <1>12, <1>13, <1>14,
       <1>15, <1>16, <1>17, <1>18, <1>19, <1>20, <1>21, <1>22, <1>23, <1>24, <1>25
       DEF Next, RunStep, WatchStep, Both, Process

LEMMA MadeNext == TypedInv /\ [Next]_vars => MadeFirst'
PROOF
<1> SUFFICES ASSUME TypedInv, [Next]_vars PROVE MadeFirst'
    OBVIOUS
<1>1. ASSUME NEW p \in Process, LoggerBuilt(p) PROVE MadeFirst'
    <2>1. OneMore(p, Logger)
        BY <1>1, Constants, Built DEF LoggerBuilt, TypedInv
    <2>2. /\ at[p] = "rebuild" /\ at' = [at EXCEPT ![p] = "flush"] /\ todo' = todo
          /\ loggerOK' = loggerOK
        BY <1>1 DEF LoggerBuilt, Goes
    <2>3. made'[p] # 0 /\ NodeOf(p)' = Logger
        BY <2>1 DEF OneMore, TypedInv, TypeOK, ProductsOK, NodeOf
    <2>4. ASSUME NEW q \in Process, q # p, made[q] # 0
          PROVE  made'[q] = made[q] /\ NodeOf(q)' = NodeOf(q)
        BY <2>1, <2>4 DEF OneMore, TypedInv, TypeOK, ProductsOK, NodeOf, Products
    <2> QED BY <2>2, <2>3, <2>4
               DEF TypedInv, TypeOK, ControlOK, MadeFirst, Process, Gone, Undoing, Busy, RunAt,
                   WatchAt, Assembling
<1>2. ASSUME NEW p \in Process, LoggerFlushes(p) PROVE MadeFirst'
    BY <1>2 DEF LoggerFlushes, TypedInv, MadeFirst, NodeOf, Gone, Undoing, Busy, Goes, locals
<1>3. ASSUME NEW p \in Process, LoggerStored(p) PROVE MadeFirst'
    BY <1>3
       DEF LoggerStored, TypedInv, TypeOK, ControlOK, MadeFirst, NodeOf, Gone, Undoing, Busy, Goes
<1>4. ASSUME NEW p \in Process, Puts(p) PROVE MadeFirst'
    BY <1>4 DEF Puts, TypedInv, MadeFirst, NodeOf, Gone, Undoing, Busy, Goes
<1>5. ASSUME NEW p \in Process, Writes(p) PROVE MadeFirst'
    BY <1>5 DEF Writes, TypedInv, MadeFirst, NodeOf, Gone, Undoing, Busy, Goes, locals
<1>6. ASSUME NEW p \in Process, Marks(p) PROVE MadeFirst'
    BY <1>6 DEF Marks, TypedInv, TypeOK, ControlOK, MadeFirst, NodeOf, Gone, Undoing, Busy, Goes
<1>7. CASE Syncs
    <2>1. CASE settings = Bad
        BY <1>7, <2>1
           DEF Syncs, BeginsUndo, TypedInv, TypeOK, ControlOK, MadeFirst, NodeOf, Process, Gone,
               Undoing, Busy, Goes, shared
    <2>2. CASE settings # Bad
        BY <1>7, <2>2
           DEF Syncs, TypedInv, TypeOK, ControlOK, MadeFirst, NodeOf, Process, Gone, Undoing, Busy,
               Goes
    <2> QED BY <2>1, <2>2
<1>8. CASE Installs
    BY <1>8 DEF Installs, TypedInv, MadeFirst, NodeOf, Gone, Undoing, Busy, Goes
<1>9. CASE LoggerMarked
    BY <1>9 DEF LoggerMarked, TypedInv, TypeOK, ControlOK, MadeFirst, NodeOf, Busy, Goes
<1>10. CASE RunBuilds
    <2>1. CASE todo["run"] = {}
        BY <1>10, <2>1
           DEF RunBuilds, TypedInv, TypeOK, ControlOK, MadeFirst, NodeOf, Process, Busy, Goes
    <2>2. ASSUME todo["run"] # {}, NEW n \in todo["run"], Builds("run", n) PROVE MadeFirst'
        <3>1. n \in Node /\ n \in Provider /\ "run" \in Process
            BY <1>10 DEF RunBuilds, TypedInv, TypeOK, ControlOK, MadeFirst, Process, Gone, Undoing
        <3>2. OneMore("run", n)
            BY <2>2, <3>1, Built DEF TypedInv
        <3>3. at' = [at EXCEPT !["run"] = "put"] /\ todo' = todo /\ loggerOK' = loggerOK
            BY <1>10, <2>2 DEF RunBuilds, Goes
        <3>4. made'["run"] # 0 /\ NodeOf("run")' = n
            BY <3>1, <3>2 DEF OneMore, TypedInv, TypeOK, ProductsOK, NodeOf
        <3>5. made["watch"] # 0 =>
                  made'["watch"] = made["watch"] /\ NodeOf("watch")' = NodeOf("watch")
            BY <3>2 DEF OneMore, TypedInv, TypeOK, ProductsOK, NodeOf, Products, Process
        <3> QED BY <1>10, <3>1, <3>3, <3>4, <3>5, Constants
                   DEF RunBuilds, TypedInv, TypeOK, ControlOK, MadeFirst, Process, Gone, Undoing,
                       Busy
    <2> QED BY <1>10, <2>1, <2>2 DEF RunBuilds
<1>11. CASE RunFails
    BY <1>11
       DEF RunFails, BeginsUndo, TypedInv, TypeOK, ControlOK, MadeFirst, NodeOf, Gone, Undoing,
           Busy, Goes, shared
<1>12. CASE Stops
    BY <1>12
       DEF Stops, BeginsUndo, TypedInv, TypeOK, ControlOK, MadeFirst, NodeOf, Gone, Undoing, Busy,
           Goes, shared
<1>13. CASE Undoes
    BY <1>13 DEF Undoes, TypedInv, MadeFirst, NodeOf, Goes
<1>14. CASE Closes
    BY <1>14 DEF Closes, TypedInv, MadeFirst, NodeOf, Busy, Goes, shared, locals
<1>15. CASE Returns
    BY <1>15 DEF Returns, TypedInv, MadeFirst, NodeOf, Busy, Goes, shared, locals
<1>16. ASSUME NEW s \in Settings \cup {Bad}, Change(s) PROVE MadeFirst'
    <2>1. UNCHANGED <<product, made, todo>> /\ loggerOK' = loggerOK
        BY <1>16 DEF Change, shared
    <2>2. /\ at'["run"] = at["run"] /\ at["watch"] = "idle" /\ at'["watch"] \in {"idle", "land"}
          /\ Process = {"run", "watch"}
        BY <1>16 DEF Change, Goes, TypedInv, TypeOK, ControlOK, Process
    <2>3. loggerOK
        BY <2>2 DEF TypedInv, MadeFirst, Busy
    <2> QED BY <2>1, <2>2, <2>3 DEF TypedInv, MadeFirst, NodeOf, Busy
<1>17. CASE Lands
    BY <1>17 DEF Lands, TypedInv, MadeFirst, NodeOf, Busy, Goes, locals
<1>18. CASE LoggerFails
    BY <1>18
       DEF LoggerFails, TypedInv, TypeOK, ControlOK, MadeFirst, NodeOf, Process, Busy, Goes, shared,
           locals
<1>19. CASE Diffs
    BY <1>19 DEF Diffs, TypedInv, MadeFirst, NodeOf, Busy, Goes
<1>20. CASE Removes
    BY <1>20 DEF Removes, TypedInv, MadeFirst, NodeOf, Goes
<1>21. CASE Rebuilds
    <2>1. PICK n \in todo["watch"] : snap["watch"][n] # Absent /\ Builds("watch", n)
        BY <1>21 DEF Rebuilds
    <2>2. n \in Node /\ n \in Provider /\ "watch" \in Process
        BY DEF TypedInv, TypeOK, ControlOK, MadeFirst, Process
    <2>3. OneMore("watch", n)
        BY <2>1, <2>2, Built DEF TypedInv
    <2> QED BY <1>21, <2>2, <2>3
               DEF Rebuilds, OneMore, TypedInv, TypeOK, ControlOK, ProductsOK, MadeFirst, NodeOf,
                   Process, Gone, Undoing, Busy, RunAt, WatchAt, Assembling, Goes, Products
<1>22. CASE RebuildFails
    BY <1>22 DEF RebuildFails, TypedInv, MadeFirst, NodeOf, Goes, shared
<1>23. CASE Replaced
    BY <1>23 DEF Replaced, TypedInv, MadeFirst, NodeOf, Busy, Goes, locals
<1>24. CASE ReloadEnds
    BY <1>24 DEF ReloadEnds, TypedInv, MadeFirst, NodeOf, Busy, Goes
<1>25. CASE UNCHANGED vars
    BY <1>25 DEF vars, shared, locals, history, TypedInv, MadeFirst, NodeOf, Goes
<1> QED
    BY <1>1, <1>2, <1>3, <1>4, <1>5, <1>6, <1>7, <1>8, <1>9, <1>10, <1>11, <1>12, <1>13, <1>14,
       <1>15, <1>16, <1>17, <1>18, <1>19, <1>20, <1>21, <1>22, <1>23, <1>24, <1>25
       DEF Next, RunStep, WatchStep, Both, Process

LEMMA TypedNext == TypedInv /\ [Next]_vars => TypedInv'
PROOF BY SettingsNext, ProductsNext, ControlNext, MadeNext DEF TypedInv, TypeOK

-----------------------------------------------------------------------------
(* Whose turn it is.                                                        *)

TurnsInv == TypedInv /\ TakeTurns /\ OneReload

LEMMA TurnsInit == Init => TakeTurns /\ OneReload
PROOF BY DEF Init, TakeTurns, OneReload, Process, Gone, Assembling, Undoing

LEMMA TakeTurnsNext == TurnsInv /\ [Next]_vars => TakeTurns'
PROOF
<1> SUFFICES ASSUME TurnsInv, [Next]_vars PROVE TakeTurns'
    OBVIOUS
<1>1. ASSUME NEW p \in Process, LoggerBuilt(p) PROVE TakeTurns'
    BY <1>1 DEF LoggerBuilt, TurnsInv, TakeTurns, Gone, Assembling, Undoing, Goes, history
<1>2. ASSUME NEW p \in Process, LoggerFlushes(p) PROVE TakeTurns'
    BY <1>2 DEF LoggerFlushes, TurnsInv, TakeTurns, Gone, Assembling, Undoing, Goes, locals, history
<1>3. ASSUME NEW p \in Process, LoggerStored(p) PROVE TakeTurns'
    BY <1>3 DEF LoggerStored, TurnsInv, TakeTurns, Gone, Assembling, Undoing, Goes, history
<1>4. ASSUME NEW p \in Process, Puts(p) PROVE TakeTurns'
    BY <1>4 DEF Puts, TurnsInv, TakeTurns, Gone, Assembling, Undoing, Goes, history
<1>5. ASSUME NEW p \in Process, Writes(p) PROVE TakeTurns'
    BY <1>5 DEF Writes, TurnsInv, TakeTurns, Gone, Assembling, Undoing, Goes, locals, history
<1>6. ASSUME NEW p \in Process, Marks(p) PROVE TakeTurns'
    BY <1>6 DEF Marks, TurnsInv, TakeTurns, Gone, Assembling, Undoing, Goes, history
<1>7. CASE Syncs
    <2>1. CASE settings = Bad
        BY <1>7, <2>1
           DEF Syncs, BeginsUndo, TurnsInv, TypedInv, TypeOK, ControlOK, TakeTurns, Process, Gone,
               Assembling, Undoing, Goes, shared, history
    <2>2. CASE settings # Bad
        BY <1>7, <2>2
           DEF Syncs, TurnsInv, TypedInv, TypeOK, SettingsOK, ControlOK, TakeTurns, Process, Gone,
               Assembling, Undoing, Goes, history
    <2> QED BY <2>1, <2>2
<1>8. CASE Installs
    BY <1>8 DEF Installs, TurnsInv, TakeTurns, Gone, Assembling, Undoing, Goes, history
<1>9. CASE LoggerMarked
    BY <1>9 DEF LoggerMarked, TurnsInv, TakeTurns, Gone, Assembling, Undoing, Goes, history
<1>10. CASE RunBuilds
    BY <1>10
       DEF RunBuilds, TurnsInv, TypedInv, TypeOK, ControlOK, TakeTurns, Process, Gone, Assembling,
           Undoing, Goes, history
<1>11. CASE RunFails
    BY <1>11
       DEF RunFails, BeginsUndo, TurnsInv, TypedInv, TypeOK, ControlOK, TakeTurns, Process, Gone,
           Assembling, Undoing, Goes, shared
<1>12. CASE Stops
    BY <1>12, Constants
       DEF Stops, BeginsUndo, TurnsInv, TypedInv, TypeOK, SettingsOK, ControlOK, TakeTurns, Process,
           Gone, Assembling, Undoing, RunAt, WatchAt, Goes, shared
<1>13. CASE Undoes
    BY <1>13 DEF Undoes, TurnsInv, TakeTurns, Goes, history
<1>14. CASE Closes
    BY <1>14
       DEF Closes, TurnsInv, TakeTurns, Gone, Assembling, Undoing, Goes, shared, locals, history
<1>15. CASE Returns
    BY <1>15 DEF Returns, TurnsInv, TakeTurns, Gone, Assembling, Goes, shared, locals, history
<1>16. ASSUME NEW s \in Settings \cup {Bad}, Change(s) PROVE TakeTurns'
    BY <1>16, Constants
       DEF Change, TurnsInv, TypedInv, TypeOK, SettingsOK, ControlOK, TakeTurns, Process, Gone,
           Assembling, Undoing, RunAt, WatchAt, Goes, shared
<1>17. CASE Lands
    BY <1>17 DEF Lands, TurnsInv, TakeTurns, Goes, locals, history
<1>18. CASE LoggerFails
    BY <1>18 DEF LoggerFails, TurnsInv, TakeTurns, Goes, shared, locals, history
<1>19. CASE Diffs
    BY <1>19 DEF Diffs, TurnsInv, TakeTurns, Goes, history
<1>20. CASE Removes
    BY <1>20 DEF Removes, TurnsInv, TakeTurns, Goes, history
<1>21. CASE Rebuilds
    BY <1>21 DEF Rebuilds, TurnsInv, TakeTurns, Goes, history
<1>22. CASE RebuildFails
    BY <1>22 DEF RebuildFails, TurnsInv, TakeTurns, Goes, shared, history
<1>23. CASE Replaced
    BY <1>23 DEF Replaced, TurnsInv, TakeTurns, Goes, locals, history
<1>24. CASE ReloadEnds
    BY <1>24 DEF ReloadEnds, TurnsInv, TakeTurns, Goes, history
<1>25. CASE UNCHANGED vars
    BY <1>25 DEF vars, shared, locals, history, TurnsInv, TakeTurns, Goes
<1> QED
    BY <1>1, <1>2, <1>3, <1>4, <1>5, <1>6, <1>7, <1>8, <1>9, <1>10, <1>11, <1>12, <1>13, <1>14,
       <1>15, <1>16, <1>17, <1>18, <1>19, <1>20, <1>21, <1>22, <1>23, <1>24, <1>25
       DEF Next, RunStep, WatchStep, Both, Process

LEMMA OneReloadNext == TurnsInv /\ [Next]_vars => OneReload'
PROOF
<1> SUFFICES ASSUME TurnsInv, [Next]_vars PROVE OneReload'
    OBVIOUS
<1>1. ASSUME NEW p \in Process, LoggerBuilt(p) PROVE OneReload'
    BY <1>1 DEF LoggerBuilt, TurnsInv, OneReload, Busy, Goes, history
<1>2. ASSUME NEW p \in Process, LoggerFlushes(p) PROVE OneReload'
    BY <1>2 DEF LoggerFlushes, TurnsInv, OneReload, Busy, Goes, locals, history
<1>3. ASSUME NEW p \in Process, LoggerStored(p) PROVE OneReload'
    BY <1>3 DEF LoggerStored, TurnsInv, OneReload, Busy, Goes, history
<1>4. ASSUME NEW p \in Process, Puts(p) PROVE OneReload'
    BY <1>4 DEF Puts, TurnsInv, OneReload, Busy, Goes, history
<1>5. ASSUME NEW p \in Process, Writes(p) PROVE OneReload'
    BY <1>5 DEF Writes, TurnsInv, OneReload, Busy, Goes, locals, history
<1>6. ASSUME NEW p \in Process, Marks(p) PROVE OneReload'
    BY <1>6 DEF Marks, TurnsInv, OneReload, Busy, Goes, history
<1>7. CASE Syncs
    <2>1. CASE settings = Bad
        BY <1>7, <2>1
           DEF Syncs, BeginsUndo, TurnsInv, TypedInv, TypeOK, ControlOK, OneReload, Process, Goes,
               shared, history
    <2>2. CASE settings # Bad
        BY <1>7, <2>2
           DEF Syncs, TurnsInv, TypedInv, TypeOK, SettingsOK, ControlOK, OneReload, Process, Goes,
               history
    <2> QED BY <2>1, <2>2
<1>8. CASE Installs
    BY <1>8 DEF Installs, TurnsInv, TakeTurns, OneReload, Assembling, Goes, history
<1>9. CASE LoggerMarked
    BY <1>9 DEF LoggerMarked, TurnsInv, OneReload, Goes, history
<1>10. CASE RunBuilds
    BY <1>10 DEF RunBuilds, TurnsInv, TypedInv, TypeOK, ControlOK, OneReload, Process, Goes, history
<1>11. CASE RunFails
    BY <1>11 DEF RunFails, BeginsUndo, TurnsInv, OneReload, Goes, shared
<1>12. CASE Stops
    BY <1>12 DEF Stops, BeginsUndo, TurnsInv, OneReload, Goes, shared
<1>13. CASE Undoes
    BY <1>13 DEF Undoes, TurnsInv, OneReload, Goes, history
<1>14. CASE Closes
    BY <1>14 DEF Closes, TurnsInv, OneReload, Goes, shared, locals, history
<1>15. CASE Returns
    BY <1>15 DEF Returns, TurnsInv, OneReload, Goes, shared, locals, history
<1>16. ASSUME NEW s \in Settings \cup {Bad}, Change(s) PROVE OneReload'
    BY <1>16
       DEF Change, TurnsInv, TypedInv, TypeOK, SettingsOK, ControlOK, OneReload, Busy, Process,
           Goes, shared
<1>17. CASE Lands
    BY <1>17 DEF Lands, TurnsInv, OneReload, Busy, Goes, locals, history
<1>18. CASE LoggerFails
    BY <1>18 DEF LoggerFails, TurnsInv, OneReload, Busy, Goes, shared, locals, history
<1>19. CASE Diffs
    BY <1>19 DEF Diffs, TurnsInv, OneReload, Goes, history
<1>20. CASE Removes
    BY <1>20 DEF Removes, TurnsInv, OneReload, Goes, history
<1>21. CASE Rebuilds
    BY <1>21 DEF Rebuilds, TurnsInv, OneReload, Goes, history
<1>22. CASE RebuildFails
    BY <1>22 DEF RebuildFails, TurnsInv, OneReload, Goes, shared, history
<1>23. CASE Replaced
    BY <1>23 DEF Replaced, TurnsInv, OneReload, Busy, Goes, locals, history
<1>24. CASE ReloadEnds
    BY <1>24
       DEF ReloadEnds, TurnsInv, TypedInv, TypeOK, SettingsOK, ControlOK, OneReload, Busy, Goes,
           history
<1>25. CASE UNCHANGED vars
    BY <1>25 DEF vars, shared, locals, history, TurnsInv, OneReload, Goes
<1> QED
    BY <1>1, <1>2, <1>3, <1>4, <1>5, <1>6, <1>7, <1>8, <1>9, <1>10, <1>11, <1>12, <1>13, <1>14,
       <1>15, <1>16, <1>17, <1>18, <1>19, <1>20, <1>21, <1>22, <1>23, <1>24, <1>25
       DEF Next, RunStep, WatchStep, Both, Process

LEMMA TurnsNext == TurnsInv /\ [Next]_vars => TurnsInv'
PROOF BY TypedNext, TakeTurnsNext, OneReloadNext DEF TurnsInv

-----------------------------------------------------------------------------
(* What was built is released once.                                        *)

LedgerInv == TurnsInv /\ Ledger
Calm == ~early /\ ~late
ReleasedOnce == \A k \in Products :
    cleaned[k] = IF k \in Owned(product[k].node) \cup OnTheWay \cup Displaced THEN 0 ELSE 1

\* Without an overlap at most one of the two goroutines is at work.
LEMMA Alone ==
    TurnsInv /\ Calm => at["watch"] = "idle" \/ at["run"] = "serve"
PROOF BY DEF TurnsInv, TypedInv, TypeOK, ControlOK, TakeTurns, Calm, RunAt, Gone

\* An overlap is never forgotten.
LEMMA CalmBefore == Calm' /\ [Next]_vars => Calm
PROOF
<1> SUFFICES ASSUME Calm', [Next]_vars PROVE Calm
    OBVIOUS
<1>1. ASSUME NEW p \in Process, LoggerBuilt(p) PROVE Calm
    BY <1>1 DEF LoggerBuilt, Calm, history
<1>2. ASSUME NEW p \in Process, LoggerFlushes(p) PROVE Calm
    BY <1>2 DEF LoggerFlushes, Calm, history
<1>3. ASSUME NEW p \in Process, LoggerStored(p) PROVE Calm
    BY <1>3 DEF LoggerStored, Calm, history
<1>4. ASSUME NEW p \in Process, Puts(p) PROVE Calm
    BY <1>4 DEF Puts, Calm, history
<1>5. ASSUME NEW p \in Process, Writes(p) PROVE Calm
    BY <1>5 DEF Writes, Calm, history
<1>6. ASSUME NEW p \in Process, Marks(p) PROVE Calm
    BY <1>6 DEF Marks, Calm, history
<1>7. CASE Syncs
    BY <1>7 DEF Syncs, BeginsUndo, Calm, history
<1>8. CASE Installs
    BY <1>8 DEF Installs, Calm, history
<1>9. CASE LoggerMarked
    BY <1>9 DEF LoggerMarked, Calm, history
<1>10. CASE RunBuilds
    BY <1>10 DEF RunBuilds, Calm, history
<1>11. CASE RunFails
    BY <1>11 DEF RunFails, BeginsUndo, Calm, history
<1>12. CASE Stops
    BY <1>12 DEF Stops, BeginsUndo, Calm, history
<1>13. CASE Undoes
    BY <1>13 DEF Undoes, Calm, history
<1>14. CASE Closes
    BY <1>14 DEF Closes, Calm, history
<1>15. CASE Returns
    BY <1>15 DEF Returns, Calm, history
<1>16. ASSUME NEW s \in Settings \cup {Bad}, Change(s) PROVE Calm
    BY <1>16 DEF Change, Calm
<1>17. CASE Lands
    BY <1>17 DEF Lands, Calm, history
<1>18. CASE LoggerFails
    BY <1>18 DEF LoggerFails, Calm, history
<1>19. CASE Diffs
    BY <1>19 DEF Diffs, Calm, history
<1>20. CASE Removes
    BY <1>20 DEF Removes, Calm, history
<1>21. CASE Rebuilds
    BY <1>21 DEF Rebuilds, Calm, history
<1>22. CASE RebuildFails
    BY <1>22 DEF RebuildFails, Calm, history
<1>23. CASE Replaced
    BY <1>23 DEF Replaced, Calm, history
<1>24. CASE ReloadEnds
    BY <1>24 DEF ReloadEnds, Calm, history
<1>25. CASE UNCHANGED vars
    BY <1>25 DEF vars, shared, history, Calm
<1> QED
    BY <1>1, <1>2, <1>3, <1>4, <1>5, <1>6, <1>7, <1>8, <1>9, <1>10, <1>11, <1>12, <1>13, <1>14,
       <1>15, <1>16, <1>17, <1>18, <1>19, <1>20, <1>21, <1>22, <1>23, <1>24, <1>25
       DEF Next, RunStep, WatchStep, Both, Process

\* What the three actions that build have in common.
BuildStep(p, n) ==
    /\ at[p] = IF n = Logger THEN "rebuild" ELSE "build"
    /\ at' = [at EXCEPT ![p] = IF n = Logger THEN "flush" ELSE "put"]
    /\ OneMore(p, n)
    /\ UNCHANGED <<slot, hold, curCleanup, todo>>

LEMMA BuildSteps ==
    TypedInv =>
        /\ \A p \in Process : LoggerBuilt(p) => BuildStep(p, Logger)
        /\ Rebuilds => \E n \in Provider : BuildStep("watch", n)
        /\ RunBuilds /\ todo["run"] # {} => \E n \in Provider : BuildStep("run", n)
PROOF
<1> SUFFICES ASSUME TypedInv PROVE
        /\ \A p \in Process : LoggerBuilt(p) => BuildStep(p, Logger)
        /\ Rebuilds => \E n \in Provider : BuildStep("watch", n)
        /\ RunBuilds /\ todo["run"] # {} => \E n \in Provider : BuildStep("run", n)
    OBVIOUS
<1>1. ASSUME NEW p \in Process, LoggerBuilt(p) PROVE BuildStep(p, Logger)
    BY <1>1, Constants, Built DEF TypedInv, LoggerBuilt, BuildStep, Goes
<1>2. ASSUME Rebuilds PROVE \E n \in Provider : BuildStep("watch", n)
    <2>1. PICK n \in todo["watch"] : Builds("watch", n)
        BY <1>2 DEF Rebuilds
    <2>2. n \in Node /\ n \in Provider /\ "watch" \in Process
        BY DEF TypedInv, TypeOK, ControlOK, MadeFirst, Process
    <2>3. BuildStep("watch", n)
        BY <1>2, <2>1, <2>2, Constants, Built DEF TypedInv, Rebuilds, BuildStep, Goes
    <2> QED BY <2>2, <2>3
<1>3. ASSUME RunBuilds, todo["run"] # {} PROVE \E n \in Provider : BuildStep("run", n)
    <2>1. PICK n \in todo["run"] : Builds("run", n)
        BY <1>3 DEF RunBuilds
    <2>2. n \in Node /\ n \in Provider /\ "run" \in Process
        BY <1>3 DEF RunBuilds, TypedInv, TypeOK, ControlOK, MadeFirst, Process, Gone, Undoing
    <2>3. BuildStep("run", n)
        BY <1>3, <2>1, <2>2, Constants, Built DEF TypedInv, RunBuilds, BuildStep, Goes
    <2> QED BY <2>2, <2>3
<1> QED BY <1>1, <1>2, <1>3

LEMMA BuildKeepsNodes ==
    ASSUME LedgerInv, Calm, NEW p \in Process, NEW n \in Node, BuildStep(p, n)
    PROVE  OfTheirNode'
PROOF
<1>1. OfTheirNode
    BY DEF LedgerInv, Ledger, Calm
<1>2. \A k \in Products : product'[k] = product[k]
    BY DEF BuildStep, OneMore
<1>3. /\ \A m \in Provider : slot[m] \subseteq Products
      /\ curCleanup # 0 => curCleanup \in Products
      /\ Len(product) + 1 \notin Products /\ Len(product) + 1 # curCleanup
      /\ \A q \in Process : hold[q] \subseteq Products
    BY DEF LedgerInv, TurnsInv, TypedInv, TypeOK, ProductsOK, Products
<1>4. /\ \A m \in Provider : \A k \in slot'[m] : product'[k].node = m
      /\ curCleanup' # 0 => product'[curCleanup'].node = Logger
    BY <1>1, <1>2, <1>3 DEF BuildStep, OfTheirNode
<1>5. ASSUME NEW q \in Process, q # p
      PROVE  at'[q] = at[q] /\ at[q] \notin {"flush", "put", "write", "clean"}
    BY <1>5, Alone DEF BuildStep, LedgerInv, TurnsInv, TypedInv, TypeOK, ControlOK, Process
<1>6. made'[p] = Len(product) + 1 /\ at'[p] = (IF n = Logger THEN "flush" ELSE "put")
      /\ NodeOf(p)' = n
    BY DEF BuildStep, OneMore, NodeOf, LedgerInv, TurnsInv, TypedInv, TypeOK, ControlOK, ProductsOK
<1>7. ASSUME NEW q \in Process
      PROVE  /\ at'[q] = "flush" => made'[q] # curCleanup'
             /\ at'[q] \in {"put", "write"} => made'[q] \notin slot'[NodeOf(q)']
             /\ at'[q] = "write" => hold'[q] = slot'[NodeOf(q)']
             /\ at'[q] # "clean"
    <2>1. CASE q = p
        BY <1>3, <1>6, <2>1, Constants DEF BuildStep
    <2>2. CASE q # p
        BY <1>5, <2>2
    <2> QED BY <2>1, <2>2
<1> QED BY <1>4, <1>7 DEF OfTheirNode, NodeOf

LEMMA LedgerInit == Init => Ledger
PROOF
<1> SUFFICES ASSUME Init PROVE Ledger
    OBVIOUS
<1>1. Products = {}
    BY EmptySeq DEF Init, Products
<1> QED BY <1>1 DEF Init, Ledger, OfTheirNode, Process

LEMMA NodesNext == LedgerInv /\ [Next]_vars /\ Calm' => OfTheirNode'
PROOF
<1> SUFFICES ASSUME LedgerInv, [Next]_vars, Calm' PROVE OfTheirNode'
    OBVIOUS
<1>0. Calm
    BY CalmBefore
<1>t. TypedInv
    BY DEF LedgerInv, TurnsInv
<1>1. ASSUME NEW p \in Process, LoggerBuilt(p) PROVE OfTheirNode'
    <2>1. BuildStep(p, Logger)
        BY <1>1, <1>t, BuildSteps
    <2> QED BY <1>0, <2>1, Constants, BuildKeepsNodes
<1>2. ASSUME NEW p \in Process, LoggerFlushes(p) PROVE OfTheirNode'
    BY <1>2, <1>0
       DEF LoggerFlushes, LedgerInv, TurnsInv, TypedInv, TypeOK, ControlOK, TakeTurns, Ledger,
           OfTheirNode, Calm, Process, Gone, RunAt, Goes, locals, history
<1>3. ASSUME NEW p \in Process, LoggerStored(p) PROVE OfTheirNode'
    BY <1>3, <1>0
       DEF LoggerStored, LedgerInv, TurnsInv, TypedInv, ControlOK, MadeFirst, TakeTurns, Ledger,
           OfTheirNode, Calm, Process, Assembling, NodeOf, Goes, history
<1>4. ASSUME NEW p \in Process, Puts(p) PROVE OfTheirNode'
    BY <1>4, <1>0
       DEF Puts, LedgerInv, TurnsInv, TypedInv, TypeOK, ProductsOK, ControlOK, Ledger, OfTheirNode,
           Calm, NodeOf, Goes, history
<1>5. ASSUME NEW p \in Process, Writes(p) PROVE OfTheirNode'
    BY <1>5, <1>0, Constants
       DEF Writes, LedgerInv, TurnsInv, TypedInv, TypeOK, ProductsOK, ControlOK, MadeFirst,
           TakeTurns, Ledger, OfTheirNode, Calm, Products, Process, Gone, Assembling, Undoing,
           RunAt, WatchAt, Busy, NodeOf, Goes, locals, history
<1>6. ASSUME NEW p \in Process, Marks(p) PROVE OfTheirNode'
    BY <1>6, <1>0
       DEF Marks, LedgerInv, TurnsInv, TypedInv, TypeOK, ControlOK, TakeTurns, Ledger, OfTheirNode,
           Calm, Process, Gone, RunAt, Goes, history
<1>7. CASE Syncs
    <2>1. CASE settings = Bad
        BY <1>7, <2>1, <1>0
           DEF Syncs, BeginsUndo, LedgerInv, TurnsInv, TypedInv, TypeOK, ControlOK, TakeTurns,
               Ledger, OfTheirNode, Calm, Process, Assembling, Goes, shared, history
    <2>2. CASE settings # Bad
        BY <1>7, <2>2, <1>0
           DEF Syncs, LedgerInv, TurnsInv, TypedInv, TypeOK, ControlOK, TakeTurns, Ledger,
               OfTheirNode, Calm, Process, Assembling, Goes, history
    <2> QED BY <2>1, <2>2
<1>8. CASE Installs
    BY <1>8, <1>0
       DEF Installs, LedgerInv, TurnsInv, TakeTurns, Ledger, OfTheirNode, Calm, Process, Assembling,
           Goes, history
<1>9. CASE LoggerMarked
    BY <1>9, <1>0
       DEF LoggerMarked, LedgerInv, TurnsInv, TakeTurns, Ledger, OfTheirNode, Calm, Process,
           Assembling, Goes, history
<1>10. CASE RunBuilds
    <2>1. CASE todo["run"] = {}
        BY <1>10, <2>1, <1>0
           DEF RunBuilds, LedgerInv, TurnsInv, TypedInv, TypeOK, ControlOK, TakeTurns, Ledger,
               OfTheirNode, Calm, Process, Assembling, Goes, history
    <2>2. CASE todo["run"] # {}
        <3>1. PICK n \in Provider : BuildStep("run", n)
            BY <1>10, <2>2, <1>t, BuildSteps
        <3>2. "run" \in Process /\ n \in Node
            BY Constants DEF Process
        <3> QED BY <1>0, <3>1, <3>2, BuildKeepsNodes
    <2> QED BY <2>1, <2>2
<1>11. CASE RunFails
    BY <1>11, <1>0
       DEF RunFails, BeginsUndo, LedgerInv, TurnsInv, TakeTurns, Ledger, OfTheirNode, Calm, Process,
           Assembling, Goes, shared
<1>12. CASE Stops
    BY <1>12, <1>0
       DEF Stops, BeginsUndo, LedgerInv, Ledger, OfTheirNode, Calm, Process, NodeOf, Goes, shared
<1>13. CASE Undoes
    BY <1>13, <1>0
       DEF Undoes, LedgerInv, TurnsInv, TakeTurns, Ledger, OfTheirNode, Calm, Process, Gone,
           Undoing, Goes, history
<1>14. CASE Closes
    BY <1>14, <1>0
       DEF Closes, LedgerInv, TurnsInv, TakeTurns, Ledger, OfTheirNode, Calm, Process, Gone,
           Undoing, Goes, shared, locals, history
<1>15. CASE Returns
    BY <1>15, <1>0
       DEF Returns, LedgerInv, Ledger, OfTheirNode, Calm, Process, Goes, shared, locals, history
<1>16. ASSUME NEW s \in Settings \cup {Bad}, Change(s) PROVE OfTheirNode'
    <2>1. CASE s = Bad
        BY <1>16, <2>1, <1>0
           DEF Change, LedgerInv, MadeFirst, Ledger, OfTheirNode, Calm, NodeOf, Goes, shared
    <2>2. CASE s # Bad
        BY <1>16, <2>2, <1>0
           DEF Change, LedgerInv, TurnsInv, TypedInv, TypeOK, ControlOK, Ledger, OfTheirNode, Calm,
               Process, NodeOf, Goes, shared
    <2> QED BY <2>1, <2>2
<1>17. CASE Lands
    BY <1>17, <1>0
       DEF Lands, LedgerInv, TurnsInv, TypedInv, TypeOK, ControlOK, TakeTurns, Ledger, OfTheirNode,
           Calm, Process, Gone, RunAt, Goes, locals, history
<1>18. CASE LoggerFails
    BY <1>18, <1>0
       DEF LoggerFails, LedgerInv, TurnsInv, TypedInv, TypeOK, ControlOK, TakeTurns, Ledger,
           OfTheirNode, Calm, Process, Gone, RunAt, Goes, shared, locals, history
<1>19. CASE Diffs
    BY <1>19, <1>0
       DEF Diffs, LedgerInv, TurnsInv, TypedInv, TypeOK, ControlOK, TakeTurns, Ledger, OfTheirNode,
           Calm, Process, Gone, RunAt, Goes, history
<1>20. CASE Removes
    BY <1>20, <1>0
       DEF Removes, LedgerInv, TurnsInv, TypedInv, TypeOK, ControlOK, TakeTurns, Ledger,
           OfTheirNode, Calm, Process, Gone, RunAt, Goes, history
<1>21. CASE Rebuilds
    <2>1. PICK n \in Provider : BuildStep("watch", n)
        BY <1>21, <1>t, BuildSteps
    <2>2. "watch" \in Process /\ n \in Node
        BY Constants DEF Process
    <2> QED BY <1>0, <2>1, <2>2, BuildKeepsNodes
<1>22. CASE RebuildFails
    BY <1>22, <1>0
       DEF RebuildFails, LedgerInv, TurnsInv, TypedInv, TypeOK, ControlOK, TakeTurns, Ledger,
           OfTheirNode, Calm, Process, Gone, RunAt, Goes, shared, history
<1>23. CASE Replaced
    BY <1>23, <1>0
       DEF Replaced, LedgerInv, TurnsInv, TypedInv, TypeOK, ControlOK, TakeTurns, Ledger,
           OfTheirNode, Calm, Process, Gone, RunAt, Goes, locals, history
<1>24. CASE ReloadEnds
    BY <1>24, <1>0
       DEF ReloadEnds, LedgerInv, TurnsInv, TypedInv, TypeOK, ControlOK, TakeTurns, Ledger,
           OfTheirNode, Calm, Process, Gone, RunAt, Goes, history
<1>25. CASE UNCHANGED vars
    BY <1>25, <1>0
       DEF vars, shared, locals, history, LedgerInv, Ledger, OfTheirNode, Calm, NodeOf, Goes
<1> QED
    BY <1>1, <1>2, <1>3, <1>4, <1>5, <1>6, <1>7, <1>8, <1>9, <1>10, <1>11, <1>12, <1>13, <1>14,
       <1>15, <1>16, <1>17, <1>18, <1>19, <1>20, <1>21, <1>22, <1>23, <1>24, <1>25
       DEF Next, RunStep, WatchStep, Both, Process

\* Where goroutine q stands says the same of who releases what.
SamePlace(q) ==
    \/ at'[q] = at[q] /\ made'[q] = made[q]
    \/ {at[q], at'[q]} \cap {"flush", "store", "put", "write", "clean"} = {}

\* What a build changes: one product more, on its way.
LEMMA BuildAlone ==
    ASSUME LedgerInv, Calm, NEW p \in Process, NEW n \in Node, BuildStep(p, n)
    PROVE  LET new == Len(product) + 1
           IN /\ Products' = Products \cup {new} /\ cleaned'[new] = 0
              /\ \A k \in Products : product'[k] = product[k] /\ cleaned'[k] = cleaned[k] /\ k # new
              /\ \A k \in Products : product[k].node \in Node
              /\ product'[new] = [node |-> n, hash |-> contract[n]]
              /\ made'[p] = new /\ at'[p] = (IF n = Logger THEN "flush" ELSE "put")
              /\ \A q \in Process : q # p => at'[q] = at[q] /\ at[q] \in {"idle", "serve"}
              /\ OnTheWay = {} /\ OnTheWay' = {new} /\ Displaced = {} /\ Displaced' = {}
              /\ \A m \in Node : Owned(m)' = Owned(m)
              /\ at'["run"] \notin Gone
PROOF
<1> DEFINE new == Len(product) + 1
<1>1. TypedInv
    BY DEF LedgerInv, TurnsInv
<1>2. /\ Products' = Products \cup {new} /\ cleaned'[new] = 0 /\ made' = [made EXCEPT ![p] = new]
      /\ \A k \in Products : product'[k] = product[k] /\ cleaned'[k] = cleaned[k]
      /\ product'[new] = [node |-> n, hash |-> contract[n]]
    BY DEF BuildStep, OneMore
<1>3. /\ at[p] \in {"rebuild", "build"} /\ at'[p] = (IF n = Logger THEN "flush" ELSE "put")
      /\ made'[p] = new
      /\ at["watch"] # "clean" /\ at'["watch"] # "clean"
      /\ at["run"] \notin Gone /\ at'["run"] \notin Gone
    BY <1>1, <1>2, Alone
       DEF BuildStep, LedgerInv, TurnsInv, TypedInv, TypeOK, ControlOK, ProductsOK, Process, Gone,
           Undoing
<1>4. ASSUME NEW q \in Process, q # p
      PROVE  at'[q] = at[q] /\ at[q] \in {"idle", "serve"}
    BY <1>1, <1>3, <1>4, Alone
       DEF BuildStep, LedgerInv, TurnsInv, TypedInv, TypeOK, ControlOK, Process
<1>5. OnTheWay = {} /\ OnTheWay' = {new} /\ Displaced = {} /\ Displaced' = {}
    BY <1>3, <1>4 DEF OnTheWay, Displaced
<1>6. \A m \in Node : Owned(m)' = Owned(m)
    BY <1>3, <1>4 DEF Owned, Undone, BuildStep
<1>7. \A k \in Products : product[k].node \in Node
    BY <1>1, ProductsTyped DEF TypedInv
<1>8. \A k \in Products : k # new
    BY <1>1 DEF TypedInv, TypeOK, ProductsOK, Products
<1> QED BY <1>2, <1>3, <1>4, <1>5, <1>6, <1>7, <1>8

LEMMA BuildKeepsLedger ==
    ASSUME LedgerInv, Calm, NEW p \in Process, NEW n \in Node, BuildStep(p, n)
    PROVE  ReleasedOnce'
PROOF
<1> DEFINE new == Len(product) + 1
<1>1. /\ Products' = Products \cup {new} /\ cleaned'[new] = 0
      /\ \A k \in Products : product'[k] = product[k] /\ cleaned'[k] = cleaned[k] /\ k # new
      /\ \A k \in Products : product[k].node \in Node
      /\ OnTheWay = {} /\ OnTheWay' = {new} /\ Displaced = {} /\ Displaced' = {}
      /\ \A m \in Node : Owned(m)' = Owned(m)
    BY BuildAlone
<1>2. ReleasedOnce
    BY DEF ReleasedOnce, LedgerInv, Ledger, Calm
<1> QED BY <1>1, <1>2 DEF ReleasedOnce

LEMMA SameKept ==
    ASSUME LedgerInv, Calm, UNCHANGED <<product, cleaned, slot, curCleanup, hold>>,
           \A n \in Node : Undone(n)' <=> Undone(n),
           \A q \in Process : SamePlace(q)
    PROVE  ReleasedOnce'
PROOF
<1>1. OnTheWay' = OnTheWay
    BY DEF OnTheWay, SamePlace
<1>2. Displaced' = Displaced
    BY DEF Displaced, SamePlace, Process
<1>3. \A n \in Node : Owned(n)' = Owned(n)
    BY DEF Owned, SamePlace
<1>4. \A k \in Products : product[k].node \in Node
    BY ProductsTyped DEF LedgerInv, TurnsInv, TypedInv
<1> QED BY <1>1, <1>2, <1>3, <1>4 DEF ReleasedOnce, LedgerInv, Ledger, Calm, Products

LEMMA ReleasedOnceNext == LedgerInv /\ [Next]_vars /\ Calm' => ReleasedOnce'
PROOF
<1> SUFFICES ASSUME LedgerInv, [Next]_vars, Calm' PROVE ReleasedOnce'
    OBVIOUS
<1>0. Calm
    BY CalmBefore
<1>t. TypedInv
    BY DEF LedgerInv, TurnsInv
<1>1. ASSUME NEW p \in Process, LoggerBuilt(p) PROVE ReleasedOnce'
    <2>1. BuildStep(p, Logger)
        BY <1>1, <1>t, BuildSteps
    <2> QED BY <1>0, <2>1, Constants, BuildKeepsLedger
<1>2. ASSUME NEW p \in Process, LoggerFlushes(p) PROVE ReleasedOnce'
    <2>1. /\ \A k \in Products : cleaned'[k] = cleaned[k] + (IF k = curCleanup THEN 1 ELSE 0)
          /\ UNCHANGED <<product, slot, hold, curCleanup, made, todo>>
        BY <1>2, <1>t, ReleasedFacts DEF LoggerFlushes, TypedInv, locals
    <2>2. /\ at[p] = "flush" /\ at'[p] = "store" /\ at["run"] \notin Gone /\ at'["run"] \notin Gone
          /\ at["watch"] # "clean" /\ at'["watch"] # "clean"
        BY <1>2, <1>0, Alone
           DEF LoggerFlushes, Goes, LedgerInv, TurnsInv, TypedInv, TypeOK, ControlOK, Process, Gone,
               Undoing
    <2>3. ASSUME NEW q \in Process, q # p
          PROVE  at'[q] = at[q] /\ at[q] \in {"idle", "serve"}
        BY <1>2, <1>0, <2>2, <2>3, Alone DEF LoggerFlushes, Goes, LedgerInv, Process
    <2>4. OnTheWay = {made[p]} /\ OnTheWay' = {made[p]} /\ Displaced = {} /\ Displaced' = {}
        BY <2>1, <2>2, <2>3 DEF OnTheWay, Displaced
    <2>5. made[p] # curCleanup /\ (curCleanup # 0 => product[curCleanup].node = Logger)
        BY <1>0, <2>2 DEF LedgerInv, Ledger, OfTheirNode, Calm
    <2>6. /\ Owned(Logger) = {curCleanup} \ {0} /\ Owned(Logger)' = {}
          /\ \A n \in Node \ {Logger} : Owned(n)' = Owned(n)
        BY <2>1, <2>2, <2>3, <1>0, Constants DEF Owned, Undone
    <2>7. \A k \in Products : product[k].node \in Node /\ k # 0 /\ product'[k] = product[k]
        BY <1>t, <2>1, ProductsTyped DEF TypedInv
    <2> QED BY <1>0, <2>1, <2>4, <2>5, <2>6, <2>7
               DEF ReleasedOnce, LedgerInv, Ledger, Calm, Products
<1>3. ASSUME NEW p \in Process, LoggerStored(p) PROVE ReleasedOnce'
    BY <1>3, <1>0, Constants
       DEF LoggerStored, ReleasedOnce, Owned, Undone, OnTheWay, Displaced, LedgerInv, TurnsInv,
           TypedInv, TypeOK, ControlOK, MadeFirst, TakeTurns, Ledger, Calm, Products, Process, Gone,
           Assembling, Undoing, RunAt, WatchAt, Busy, NodeOf, Goes, history
<1>4. ASSUME NEW p \in Process, Puts(p) PROVE ReleasedOnce'
    BY <1>4, <1>0, Constants
       DEF Puts, ReleasedOnce, Owned, Undone, OnTheWay, Displaced, LedgerInv, ControlOK, Ledger,
           Calm, Products, Gone, Undoing, RunAt, WatchAt, Busy, NodeOf, Goes, history
<1>5. ASSUME NEW p \in Process, Writes(p) PROVE ReleasedOnce'
    <2>1. /\ UNCHANGED <<product, cleaned, hold, curCleanup, made, todo>>
          /\ slot' = [slot EXCEPT ![NodeOf(p)] =
                          IF p = "run" THEN hold[p] \cup {made[p]} ELSE {made[p]}]
        BY <1>5 DEF Writes, locals
    <2>2. /\ at[p] = "write" /\ at["run"] \notin Gone /\ at'["run"] \notin Gone
          /\ at["watch"] # "clean" /\ at'[p] = (IF p = "run" THEN "mark" ELSE "clean")
        BY <1>5, <1>0, Alone
           DEF Writes, Goes, LedgerInv, TurnsInv, TypedInv, TypeOK, ControlOK, Process, Gone,
               Undoing
    <2>3. ASSUME NEW q \in Process, q # p
          PROVE  at'[q] = at[q] /\ at[q] \in {"idle", "serve"}
        BY <1>5, <1>0, <2>2, <2>3, Alone DEF Writes, Goes, LedgerInv, Process
    <2>4. /\ OnTheWay = {made[p]} /\ OnTheWay' = {} /\ Displaced = {}
          /\ Displaced' = (IF p = "run" THEN {} ELSE hold[p])
        BY <2>1, <2>2, <2>3 DEF OnTheWay, Displaced, Process
    <2>5. /\ NodeOf(p) \in Provider /\ NodeOf(p) # Logger /\ hold[p] = slot[NodeOf(p)]
          /\ product[made[p]].node = NodeOf(p)
        BY <1>0, <1>t, <2>2, <1>0, Constants
           DEF LedgerInv, Ledger, OfTheirNode, Calm, TypedInv, MadeFirst, Busy, NodeOf
    <2>6. /\ Owned(Logger)' = Owned(Logger)
          /\ \A n \in Provider : Owned(n) = slot[n] /\ Owned(n)' = slot'[n]
        BY <2>1, <2>2, <2>3, <1>0, Constants DEF Owned, Undone
    <2>7. \A k \in Products : product[k].node \in Node /\ product'[k] = product[k]
        BY <1>t, <2>1, ProductsTyped DEF TypedInv
    <2>8. \A n \in Provider : \A k \in slot[n] : product[k].node = n
        BY <1>0 DEF LedgerInv, Ledger, OfTheirNode, Calm
    <2>9. \A n \in Provider : slot'[n] = IF n # NodeOf(p) THEN slot[n]
                                        ELSE IF p = "run" THEN hold[p] \cup {made[p]} ELSE {made[p]}
        BY <1>t, <2>1, <2>5 DEF TypedInv, TypeOK, ProductsOK
    <2> QED BY <1>0, <2>1, <2>4, <2>5, <2>6, <2>7, <2>8, <2>9, <1>0, Constants
               DEF ReleasedOnce, LedgerInv, Ledger, Calm, Products
<1>6. ASSUME NEW p \in Process, Marks(p) PROVE ReleasedOnce'
    BY <1>6, <1>0, Constants
       DEF Marks, ReleasedOnce, Owned, Undone, OnTheWay, Displaced, LedgerInv, ControlOK, TakeTurns,
           Ledger, OfTheirNode, Calm, Products, Process, Gone, Assembling, Undoing, RunAt, WatchAt,
           Busy, NodeOf, Goes, history
<1>7. CASE Syncs
    <2>1. /\ UNCHANGED <<product, cleaned, slot, curCleanup, hold>>
           /\ \A n \in Node : Undone(n)' <=> Undone(n)
        BY <1>7, <1>0
           DEF Syncs, BeginsUndo, Gone, Undone, LedgerInv, TurnsInv, TypedInv, TypeOK, ControlOK,
               Process, Undoing, Goes, shared, history
    <2>2. \A q \in Process : SamePlace(q)
        BY <1>7 DEF Syncs, SamePlace, Goes, shared, history
    <2> QED BY <1>0, <2>1, <2>2, SameKept
<1>8. CASE Installs
    BY <1>8, <1>0, Constants
       DEF Installs, ReleasedOnce, Owned, Undone, OnTheWay, Displaced, LedgerInv, Ledger, Calm,
           Products, Process, Gone, Undoing, WatchAt, NodeOf, Goes, history
<1>9. CASE LoggerMarked
    BY <1>9, <1>0, Constants
       DEF LoggerMarked, ReleasedOnce, Owned, Undone, OnTheWay, Displaced, LedgerInv, ControlOK,
           Ledger, OfTheirNode, Calm, Products, Gone, Undoing, Busy, NodeOf, Goes, history
<1>10. CASE RunBuilds
    <2>1. CASE todo["run"] = {}
        <3>1. /\ UNCHANGED <<product, cleaned, slot, curCleanup, hold>>
               /\ \A n \in Node : Undone(n)' <=> Undone(n)
            BY <1>10, <2>1, <1>0
               DEF RunBuilds, Gone, Undone, LedgerInv, TurnsInv, TypedInv, TypeOK, ControlOK,
                   Process, Undoing, Goes, history
        <3>2. \A q \in Process : SamePlace(q)
            BY <1>10, <2>1 DEF RunBuilds, SamePlace, Goes, history
        <3> QED BY <1>0, <3>1, <3>2, SameKept
    <2>2. CASE todo["run"] # {}
        <3>1. PICK n \in Provider : BuildStep("run", n)
            BY <1>10, <2>2, <1>t, BuildSteps
        <3>2. "run" \in Process /\ n \in Node
            BY Constants DEF Process
        <3> QED BY <1>0, <3>1, <3>2, BuildKeepsLedger
    <2> QED BY <2>1, <2>2
<1>11. CASE RunFails
    <2>1. /\ UNCHANGED <<product, cleaned, slot, curCleanup, hold>>
           /\ \A n \in Node : Undone(n)' <=> Undone(n)
        BY <1>11, <1>0
           DEF RunFails, BeginsUndo, Gone, Undone, LedgerInv, TurnsInv, TypedInv, TypeOK, ControlOK,
               Undoing, Goes, shared
    <2>2. \A q \in Process : SamePlace(q)
        BY <1>11 DEF RunFails, SamePlace, Goes, shared
    <2> QED BY <1>0, <2>1, <2>2, SameKept
<1>12. CASE Stops
    <2>1. /\ UNCHANGED <<product, cleaned, slot, curCleanup, hold>>
           /\ \A n \in Node : Undone(n)' <=> Undone(n)
        BY <1>12, <1>0
           DEF Stops, BeginsUndo, Gone, Undone, LedgerInv, TurnsInv, TypedInv, TypeOK, ControlOK,
               Undoing, Goes, shared
    <2>2. \A q \in Process : SamePlace(q)
        BY <1>12 DEF Stops, SamePlace, Goes, shared
    <2> QED BY <1>0, <2>1, <2>2, SameKept
<1>13. CASE Undoes
    <2>1. PICK n \in todo["run"] :
              /\ Released(IF n = Logger THEN {curCleanup} ELSE slot[n])
              /\ todo' = [todo EXCEPT !["run"] = todo["run"] \ {n}]
        BY <1>13 DEF Undoes
    <2>2. /\ n \in Node
          /\ \A k \in Products :
                cleaned'[k] = cleaned[k] + (IF k \in IF n = Logger THEN {curCleanup} ELSE slot[n]
                                            THEN 1 ELSE 0)
        BY <1>t, <2>1, ReleasedFacts DEF TypedInv, TypeOK, ControlOK, Process
    <2>3. /\ at["run"] = "undo" /\ at["watch"] = "idle"
          /\ UNCHANGED <<product, slot, hold, curCleanup, made, at>>
        BY <1>13, <1>0, Alone DEF Undoes, LedgerInv, TurnsInv
    <2>4. OnTheWay = {} /\ OnTheWay' = {} /\ Displaced = {} /\ Displaced' = {}
        BY <2>3 DEF OnTheWay, Displaced, Process
    <2>5. /\ Owned(n) = (IF n = Logger THEN {curCleanup} \ {0} ELSE slot[n]) /\ Owned(n)' = {}
          /\ \A m \in Node \ {n} : Owned(m)' = Owned(m)
        BY <1>t, <2>1, <2>3 DEF Owned, Undone, Gone, Undoing, TypedInv, TypeOK, ControlOK, Process
    <2>6. \A k \in Products : product[k].node \in Node /\ k # 0 /\ product'[k] = product[k]
        BY <1>t, <2>3, ProductsTyped DEF TypedInv
    <2>7. \A k \in IF n = Logger THEN {curCleanup} \ {0} ELSE slot[n] : product[k].node = n
        BY <1>0, <2>2, <1>0, Constants DEF LedgerInv, Ledger, OfTheirNode, Calm
    <2> QED BY <1>0, <2>2, <2>3, <2>4, <2>5, <2>6, <2>7
               DEF ReleasedOnce, LedgerInv, Ledger, Calm, Products
<1>14. CASE Closes
    <2>1. /\ UNCHANGED <<product, cleaned, slot, curCleanup, hold>>
           /\ \A n \in Node : Undone(n)' <=> Undone(n)
        BY <1>14, <1>0 DEF Closes, Gone, Undone, Undoing, Goes, shared, locals, history
    <2>2. \A q \in Process : SamePlace(q)
        BY <1>14 DEF Closes, SamePlace, Goes, shared, locals, history
    <2> QED BY <1>0, <2>1, <2>2, SameKept
<1>15. CASE Returns
    BY <1>15, <1>0, Constants
       DEF Returns, ReleasedOnce, Owned, Undone, OnTheWay, Displaced, LedgerInv, TurnsInv, TypedInv,
           TypeOK, ControlOK, Ledger, Calm, Products, Process, Gone, Assembling, RunAt, Busy,
           NodeOf, Goes, shared, locals, history
<1>16. ASSUME NEW s \in Settings \cup {Bad}, Change(s) PROVE ReleasedOnce'
    <2>1. /\ UNCHANGED <<product, cleaned, slot, curCleanup, hold>>
           /\ \A n \in Node : Undone(n)' <=> Undone(n)
        BY <1>16, <1>0, <1>0
           DEF Change, Undone, LedgerInv, TurnsInv, TypedInv, TypeOK, ControlOK, Process, Goes,
               shared
    <2>2. \A q \in Process : SamePlace(q)
        BY <1>16, <1>0 DEF Change, SamePlace, Goes, shared
    <2> QED BY <1>0, <2>1, <2>2, SameKept
<1>17. CASE Lands
    BY <1>17, <1>0
       DEF Lands, ReleasedOnce, Owned, Undone, OnTheWay, Displaced, LedgerInv, ControlOK, Ledger,
           OfTheirNode, Calm, Products, Process, Gone, Goes, locals, history
<1>18. CASE LoggerFails
    BY <1>18, <1>0
       DEF LoggerFails, ReleasedOnce, Owned, Undone, OnTheWay, Displaced, LedgerInv, ControlOK,
           MadeFirst, TakeTurns, Ledger, OfTheirNode, Calm, Products, Assembling, Goes, shared,
           locals, history
<1>19. CASE Diffs
    BY <1>19, <1>0
       DEF Diffs, ReleasedOnce, Owned, Undone, OnTheWay, Displaced, LedgerInv, ControlOK, MadeFirst,
           TakeTurns, Ledger, OfTheirNode, Calm, Products, Gone, Goes, history
<1>20. CASE Removes
    BY <1>20, <1>0, Constants
       DEF Removes, ReleasedOnce, Owned, Undone, OnTheWay, Displaced, LedgerInv, Ledger, Calm,
           Products, Process, Assembling, Goes, history
<1>21. CASE Rebuilds
    <2>1. PICK n \in Provider : BuildStep("watch", n)
        BY <1>21, <1>t, BuildSteps
    <2>2. "watch" \in Process /\ n \in Node
        BY Constants DEF Process
    <2> QED BY <1>0, <2>1, <2>2, BuildKeepsLedger
<1>22. CASE RebuildFails
    BY <1>22, <1>0, Constants
       DEF RebuildFails, ReleasedOnce, Owned, Undone, OnTheWay, Displaced, LedgerInv, TakeTurns,
           Ledger, Calm, Products, Assembling, Goes, shared, history
<1>23. CASE Replaced
    <2>1. /\ \A k \in Products : cleaned'[k] = cleaned[k] + (IF k \in hold["watch"] THEN 1 ELSE 0)
          /\ UNCHANGED <<product, slot, hold, curCleanup, made, todo>>
        BY <1>23, <1>t, ReleasedFacts DEF Replaced, TypedInv, locals
    <2>2. /\ at["watch"] = "clean" /\ at'["watch"] = "mark"
          /\ at["run"] = "serve" /\ at'["run"] = "serve"
        BY <1>23, <1>0, Alone
           DEF Replaced, Goes, LedgerInv, TurnsInv, TypedInv, TypeOK, ControlOK, Process
    <2>3. OnTheWay = {} /\ OnTheWay' = {} /\ Displaced = hold["watch"] /\ Displaced' = {}
        BY <2>2 DEF OnTheWay, Displaced, Process
    <2>4. /\ NodeOf("watch") \in Provider /\ NodeOf("watch") # Logger
          /\ slot[NodeOf("watch")] = {made["watch"]} /\ made["watch"] \notin hold["watch"]
        BY <1>0, <1>t, <2>2, <1>0, Constants
           DEF LedgerInv, Ledger, OfTheirNode, Calm, TypedInv, MadeFirst, Busy, Process
    <2>5. \A k \in hold["watch"] : k \in Products /\ k \notin Owned(product[k].node)
        BY <1>0, <1>t, <2>2, <2>4, Constants
           DEF LedgerInv, Ledger, OfTheirNode, Calm, TypedInv, TypeOK, ProductsOK, Owned, Undone,
               Gone, Undoing, Process
    <2>6. \A n \in Node : Owned(n)' = Owned(n)
        BY <2>1, <2>2 DEF Owned, Undone, Gone, Undoing, Process
    <2>7. \A k \in Products : product[k].node \in Node /\ product'[k] = product[k]
        BY <1>t, <2>1, ProductsTyped DEF TypedInv
    <2> QED BY <1>0, <2>1, <2>3, <2>5, <2>6, <2>7
               DEF ReleasedOnce, LedgerInv, Ledger, Calm, Products
<1>24. CASE ReloadEnds
    BY <1>24, <1>0
       DEF ReloadEnds, ReleasedOnce, Owned, Undone, OnTheWay, Displaced, LedgerInv, ControlOK,
           Ledger, OfTheirNode, Calm, Products, Process, Gone, Goes, history
<1>25. CASE UNCHANGED vars
    BY <1>25, <1>0
       DEF vars, shared, locals, history, ReleasedOnce, Owned, Undone, OnTheWay, Displaced,
           LedgerInv, Ledger, Calm, Products, Goes
<1> QED
    BY <1>1, <1>2, <1>3, <1>4, <1>5, <1>6, <1>7, <1>8, <1>9, <1>10, <1>11, <1>12, <1>13, <1>14,
       <1>15, <1>16, <1>17, <1>18, <1>19, <1>20, <1>21, <1>22, <1>23, <1>24, <1>25
       DEF Next, RunStep, WatchStep, Both, Process

LEMMA LedgerNext == LedgerInv /\ [Next]_vars => LedgerInv'
PROOF
<1> SUFFICES ASSUME LedgerInv, [Next]_vars PROVE LedgerInv'
    OBVIOUS
<1>1. TurnsInv'
    BY TurnsNext DEF LedgerInv
<1>2. Calm' => OfTheirNode' /\ ReleasedOnce'
    BY NodesNext, ReleasedOnceNext
<1> QED BY <1>1, <1>2 DEF LedgerInv, Ledger, ReleasedOnce, Calm
-----------------------------------------------------------------------------
(* What is in use is still to be released.                                 *)

UseInv == LedgerInv /\ InUse
Up == ~early /\ ~late /\ at["run"] \notin Gone
Used ==
    /\ \A n \in Node :
        /\ live[n] \in Owned(n) \cup OnTheWay \cup {0}
        /\ live[n] # 0 => product[live[n]].node = n
    /\ \A p \in Process :
        at[p] \in {"flush", "store", "write"} => live[NodeOf(p)] = made[p]

LEMMA UpBefore == LedgerInv /\ [Next]_vars /\ Up' => Up /\ Calm
PROOF
<1> SUFFICES ASSUME LedgerInv, [Next]_vars, Up' PROVE Up /\ Calm
    OBVIOUS
<1>1. Calm
    BY CalmBefore DEF Up, Calm
<1>2. at["run"] \notin Gone
    BY <1>1
       DEF LedgerInv, TurnsInv, TypedInv, TypeOK, ControlOK, Process, Up, Gone, Undoing, vars,
           locals, Goes, Next, RunStep, WatchStep, Both, LoggerBuilt, LoggerFlushes, LoggerStored,
           Puts, Writes, Marks, Syncs, Installs, LoggerMarked, RunBuilds, RunFails, Stops,
           BeginsUndo, Undoes, Closes, Returns, Change, Lands, LoggerFails, Diffs, Removes,
           Rebuilds, RebuildFails, Replaced, ReloadEnds
<1> QED BY <1>1, <1>2 DEF Up, Calm

LEMMA BuildKeepsUse ==
    ASSUME UseInv, Up, Calm, NEW p \in Process, NEW n \in Node, BuildStep(p, n),
           live' = IF n = Logger THEN [live EXCEPT ![Logger] = Len(product) + 1] ELSE live
    PROVE  Used'
PROOF
<1> DEFINE new == Len(product) + 1
<1>1. LedgerInv
    BY DEF UseInv
<1>2. Used /\ live \in [Node -> 0..Len(product)] /\ Len(product) \in Nat
    BY DEF UseInv, InUse, Used, Up, LedgerInv, TurnsInv, TypedInv, TypeOK, ProductsOK
<1>3. ASSUME NEW m \in Node
      PROVE  /\ live'[m] \in Owned(m)' \cup OnTheWay' \cup {0}
             /\ live'[m] # 0 => product'[live'[m]].node = m
    <2>1. CASE m = Logger /\ n = Logger
        <3>1. OnTheWay' = {new} /\ product'[new] = [node |-> n, hash |-> contract[n]]
            BY <1>1, BuildAlone
        <3>2. live'[m] = new
            BY <1>2, <2>1
        <3> QED BY <2>1, <3>1, <3>2
    <2>2. CASE ~(m = Logger /\ n = Logger)
        <3>1. live'[m] = live[m] /\ (live[m] # 0 => live[m] \in Products)
            BY <1>2, <2>2 DEF Products
        <3>2. /\ \A k \in Products : product'[k] = product[k]
              /\ OnTheWay = {} /\ Owned(m)' = Owned(m)
            BY <1>1, BuildAlone
        <3>3. /\ live[m] \in Owned(m) \cup {0}
              /\ live[m] # 0 => product[live[m]].node = m
            BY <1>2, <3>2 DEF Used
        <3> QED BY <3>1, <3>2, <3>3
    <2> QED BY <2>1, <2>2
<1>4. ASSUME NEW q \in Process, at'[q] \in {"flush", "store", "write"}
      PROVE  live'[NodeOf(q)'] = made'[q]
    <2>1. q = p /\ n = Logger
        BY <1>1, <1>4, BuildAlone
    <2>2. NodeOf(q)' = Logger /\ made'[q] = new
        <3>1. made'[p] = new /\ product'[new] = [node |-> n, hash |-> contract[n]]
            BY <1>1, BuildAlone
        <3> QED BY <2>1, <3>1 DEF NodeOf
    <2> QED BY <1>2, <2>1, <2>2
<1> QED BY <1>3, <1>4 DEF Used, NodeOf

LEMMA SameUse ==
    ASSUME UseInv, Up, UNCHANGED <<product, live, slot, curCleanup>>,
           \A n \in Node : Undone(n)' <=> Undone(n),
           \A q \in Process : SamePlace(q)
    PROVE  Used'
PROOF
<1>1. OnTheWay' = OnTheWay
    BY DEF OnTheWay, SamePlace
<1>2. \A n \in Node : Owned(n)' = Owned(n)
    BY DEF Owned, SamePlace
<1>3. Used
    BY DEF UseInv, InUse, Used, Up
<1>4. ASSUME NEW q \in Process, at'[q] \in {"flush", "store", "write"}
      PROVE  live'[NodeOf(q)'] = made'[q]
    BY <1>3, <1>4 DEF Used, SamePlace, NodeOf
<1> QED BY <1>1, <1>2, <1>3, <1>4 DEF Used, NodeOf

LEMMA UsedNext == UseInv /\ [Next]_vars /\ Up' => Used'
PROOF
<1> SUFFICES ASSUME UseInv, [Next]_vars, Up' PROVE Used'
    OBVIOUS
<1>0. Up /\ Calm /\ Up'
    BY UpBefore DEF UseInv
<1>t. TypedInv
    BY DEF UseInv, LedgerInv, TurnsInv
<1>1. ASSUME NEW p \in Process, LoggerBuilt(p) PROVE Used'
    <2>1. BuildStep(p, Logger)
        BY <1>1, <1>t, BuildSteps
    <2>2. live' = [live EXCEPT ![Logger] = Len(product) + 1]
        BY <1>1, <2>1 DEF LoggerBuilt, BuildStep, OneMore
    <2> QED BY <1>0, <2>1, <2>2, Constants, BuildKeepsUse
<1>2. ASSUME NEW p \in Process, LoggerFlushes(p) PROVE Used'
    BY <1>2, <1>0
       DEF LoggerFlushes, Used, InUse, Up, Owned, Undone, OnTheWay, UseInv, LedgerInv, TurnsInv,
           TypedInv, ControlOK, MadeFirst, Process, Busy, NodeOf, Goes, locals, history
<1>3. ASSUME NEW p \in Process, LoggerStored(p) PROVE Used'
    BY <1>3, <1>0
       DEF LoggerStored, Used, InUse, Up, Owned, Undone, OnTheWay, UseInv, LedgerInv, TurnsInv,
           TypedInv, TypeOK, ControlOK, MadeFirst, Process, Busy, NodeOf, Goes, history
<1>4. ASSUME NEW p \in Process, Puts(p) PROVE Used'
    BY <1>4, <1>0, Constants
       DEF Puts, Used, InUse, Up, Owned, Undone, OnTheWay, UseInv, LedgerInv, TurnsInv, TypedInv,
           TypeOK, ProductsOK, ControlOK, MadeFirst, TakeTurns, Process, Assembling, Busy, NodeOf,
           Goes, history
<1>5. ASSUME NEW p \in Process, Writes(p) PROVE Used'
    BY <1>5, <1>0, Constants
       DEF Writes, Used, InUse, Up, Owned, Undone, OnTheWay, UseInv, LedgerInv, TurnsInv, TypedInv,
           TypeOK, ProductsOK, ControlOK, MadeFirst, TakeTurns, Process, Assembling, Busy, Goes,
           locals, history
<1>6. ASSUME NEW p \in Process, Marks(p) PROVE Used'
    BY <1>6, <1>0
       DEF Marks, Used, InUse, Up, Owned, Undone, OnTheWay, UseInv, LedgerInv, TurnsInv, ControlOK,
           TakeTurns, Process, Assembling, Goes, history
<1>7. CASE Syncs
    <2>1. settings # Bad
        BY <1>7, <1>0
           DEF Syncs, BeginsUndo, Up, UseInv, LedgerInv, TurnsInv, TypedInv, TypeOK, ControlOK,
               Process, Gone, Undoing, Goes, shared, history
    <2>2. /\ UNCHANGED <<product, live, slot, curCleanup>>
           /\ \A n \in Node : Undone(n)' <=> Undone(n)
        BY <1>7, <1>0, <2>1, <1>0
           DEF Syncs, Undone, UseInv, LedgerInv, TurnsInv, TypedInv, TypeOK, ControlOK, Process,
               Gone, Undoing, Goes, history
    <2>3. \A q \in Process : SamePlace(q)
        BY <1>7, <1>0, <2>1 DEF Syncs, SamePlace, Goes, history
    <2> QED BY <1>0, <2>2, <2>3, SameUse
<1>8. CASE Installs
    BY <1>8, <1>0
       DEF Installs, Used, InUse, Up, Owned, Undone, OnTheWay, UseInv, LedgerInv, TurnsInv,
           ControlOK, TakeTurns, Process, Assembling, Goes, history
<1>9. CASE LoggerMarked
    BY <1>9, <1>0
       DEF LoggerMarked, Used, InUse, Up, Owned, Undone, OnTheWay, UseInv, LedgerInv, TurnsInv,
           TakeTurns, Process, Assembling, Goes, history
<1>10. CASE RunBuilds
    <2>1. CASE todo["run"] = {}
        <3>1. /\ UNCHANGED <<product, live, slot, curCleanup>>
               /\ \A n \in Node : Undone(n)' <=> Undone(n)
            BY <1>10, <2>1, <1>0
               DEF RunBuilds, Undone, UseInv, LedgerInv, TurnsInv, TypedInv, TypeOK, ControlOK,
                   TakeTurns, Calm, Gone, Undoing, Goes, history
        <3>2. \A q \in Process : SamePlace(q)
            BY <1>10, <2>1 DEF RunBuilds, SamePlace, Goes, history
        <3> QED BY <1>0, <3>1, <3>2, SameUse
    <2>2. CASE todo["run"] # {}
        <3>1. PICK n \in Provider : BuildStep("run", n)
            BY <1>10, <2>2, <1>t, BuildSteps
        <3>2. "run" \in Process /\ n \in Node /\ n # Logger /\ live' = live
            BY <1>10, <1>0, Constants DEF RunBuilds, Process
        <3> QED BY <1>0, <3>1, <3>2, BuildKeepsUse
    <2> QED BY <2>1, <2>2
<1>11. CASE RunFails
    BY <1>11, <1>0
       DEF RunFails, BeginsUndo, Used, InUse, Up, Owned, Undone, OnTheWay, UseInv, LedgerInv,
           TurnsInv, ControlOK, TakeTurns, Process, Assembling, Goes, shared
<1>12. CASE Stops
    BY <1>12, <1>0
       DEF Stops, BeginsUndo, Up, UseInv, LedgerInv, TurnsInv, TypedInv, TypeOK, ControlOK, Process,
           Gone, Undoing, Goes, shared
<1>13. CASE Undoes
    BY <1>13, <1>0 DEF Undoes, Up, Gone, Undoing, Goes, history
<1>14. CASE Closes
    BY <1>14, <1>0 DEF Closes, Up, Gone, Undoing, Goes, shared, locals, history
<1>15. CASE Returns
    BY <1>15, <1>0
       DEF Returns, Used, InUse, Up, Owned, Undone, OnTheWay, UseInv, Process, Goes, shared, locals,
           history
<1>16. ASSUME NEW s \in Settings \cup {Bad}, Change(s) PROVE Used'
    <2>1. /\ UNCHANGED <<product, live, slot, curCleanup>>
           /\ \A n \in Node : Undone(n)' <=> Undone(n)
        BY <1>16, <1>0, <1>0
           DEF Change, Undone, UseInv, LedgerInv, TurnsInv, TypedInv, TypeOK, ControlOK, Process,
               Goes, shared
    <2>2. \A q \in Process : SamePlace(q)
        BY <1>16, <1>0 DEF Change, SamePlace, Goes, shared
    <2> QED BY <1>0, <2>1, <2>2, SameUse
<1>17. CASE Lands
    BY <1>17, <1>0
       DEF Lands, Used, InUse, Up, Owned, Undone, OnTheWay, UseInv, LedgerInv, TurnsInv, ControlOK,
           TakeTurns, Process, Assembling, Goes, locals, history
<1>18. CASE LoggerFails
    BY <1>18, <1>0
       DEF LoggerFails, Used, InUse, Up, Owned, Undone, OnTheWay, UseInv, LedgerInv, TurnsInv,
           TakeTurns, Process, Assembling, Goes, shared, locals, history
<1>19. CASE Diffs
    BY <1>19, <1>0
       DEF Diffs, Used, InUse, Up, Owned, Undone, OnTheWay, UseInv, LedgerInv, TurnsInv, ControlOK,
           TakeTurns, Process, Assembling, Goes, history
<1>20. CASE Removes
    BY <1>20, <1>0
       DEF Removes, Used, InUse, Up, Owned, Undone, OnTheWay, UseInv, LedgerInv, TurnsInv,
           TakeTurns, Process, Assembling, Goes, history
<1>21. CASE Rebuilds
    <2>1. PICK n \in Provider : BuildStep("watch", n)
        BY <1>21, <1>t, BuildSteps
    <2>2. "watch" \in Process /\ n \in Node /\ n # Logger /\ live' = live
        BY <1>21, <1>0, Constants DEF Rebuilds, Process
    <2> QED BY <1>0, <2>1, <2>2, BuildKeepsUse
<1>22. CASE RebuildFails
    BY <1>22, <1>0
       DEF RebuildFails, Used, InUse, Up, Owned, Undone, OnTheWay, UseInv, LedgerInv, TurnsInv,
           TakeTurns, Process, Assembling, Goes, shared, history
<1>23. CASE Replaced
    BY <1>23, <1>0
       DEF Replaced, Used, InUse, Up, Owned, Undone, OnTheWay, UseInv, LedgerInv, TurnsInv,
           TakeTurns, Process, Assembling, Goes, locals, history
<1>24. CASE ReloadEnds
    BY <1>24, <1>0
       DEF ReloadEnds, Used, InUse, Up, Owned, Undone, OnTheWay, UseInv, LedgerInv, TurnsInv,
           ControlOK, TakeTurns, Process, Assembling, Goes, history
<1>25. CASE UNCHANGED vars
    BY <1>25, <1>0
       DEF vars, shared, locals, history, Used, InUse, Up, Owned, Undone, OnTheWay, UseInv, NodeOf,
           Goes
<1> QED
    BY <1>1, <1>2, <1>3, <1>4, <1>5, <1>6, <1>7, <1>8, <1>9, <1>10, <1>11, <1>12, <1>13, <1>14,
       <1>15, <1>16, <1>17, <1>18, <1>19, <1>20, <1>21, <1>22, <1>23, <1>24, <1>25
       DEF Next, RunStep, WatchStep, Both, Process

LEMMA UseNext == UseInv /\ [Next]_vars => UseInv'
PROOF
<1> SUFFICES ASSUME UseInv, [Next]_vars PROVE UseInv'
    OBVIOUS
<1>1. LedgerInv'
    BY LedgerNext DEF UseInv
<1>2. Up' => Used'
    BY UsedNext
<1> QED BY <1>1, <1>2 DEF UseInv, InUse, Used, Up

-----------------------------------------------------------------------------
(* The hash recorded is that of the product in use.                       *)

RecordInv == UseInv /\ Recorded
Noted ==
    /\ \A n \in Node :
        /\ Afresh(n) => live[n] # 0 /\ product[live[n]].hash = contract[n]
        /\ ~Afresh(n) /\ applied[n] # Absent => live[n] # 0 /\ product[live[n]].hash = applied[n]
    /\ \A p \in Process : at[p] = "put" => product[made[p]].hash = contract[NodeOf(p)]

LEMMA BuildKeepsNotes ==
    ASSUME RecordInv, Up, Calm, NEW p \in Process, NEW n \in Node, BuildStep(p, n),
           live' = (IF n = Logger THEN [live EXCEPT ![Logger] = Len(product) + 1] ELSE live),
           UNCHANGED <<applied, contract, loggerOK>>
    PROVE  Noted'
PROOF
<1> DEFINE new == Len(product) + 1
<1>1. /\ Noted /\ LedgerInv /\ Process = {"run", "watch"}
      /\ live \in [Node -> 0..Len(product)] /\ Len(product) \in Nat
    BY DEF RecordInv, Recorded, Noted, Up, UseInv, LedgerInv, TurnsInv, TypedInv, TypeOK,
           ProductsOK, Process
<1>2. /\ \A k \in Products : product'[k] = product[k]
      /\ product'[new] = [node |-> n, hash |-> contract[n]]
      /\ made'[p] = new /\ at'[p] = (IF n = Logger THEN "flush" ELSE "put")
      /\ \A q \in Process : q # p => at'[q] = at[q] /\ at[q] \in {"idle", "serve"}
    BY <1>1, BuildAlone
<1>3. at[p] = (IF n = Logger THEN "rebuild" ELSE "build")
    BY DEF BuildStep
<1>4. \A m \in Node : ~(n = Logger /\ m = Logger) =>
         /\ Afresh(m)' <=> Afresh(m)
         /\ live'[m] = live[m] /\ (live[m] # 0 => product'[live[m]] = product[live[m]])
    <2>1. \A m \in Node \ {Logger} : ~Afresh(m) /\ ~Afresh(m)'
        BY <1>2, <1>3 DEF Afresh
    <2>2. n # Logger => (Afresh(Logger)' <=> Afresh(Logger))
        BY <1>1, <1>2, <1>3 DEF Afresh, Busy
    <2>3. \A m \in Node : live[m] # 0 => live[m] \in Products
        BY <1>1 DEF Products
    <2> QED BY <1>1, <1>2, <2>1, <2>2, <2>3
<1>5. n = Logger => Afresh(Logger)' /\ live'[Logger] = new /\ product'[new].hash = contract[Logger]
    BY <1>1, <1>2, Constants DEF Afresh
<1>6. \A m \in Node :
        /\ Afresh(m)' => live'[m] # 0 /\ product'[live'[m]].hash = contract[m]
        /\ ~Afresh(m)' /\ applied[m] # Absent =>
              live'[m] # 0 /\ product'[live'[m]].hash = applied[m]
    BY <1>1, <1>4, <1>5 DEF Noted
<1>7. ASSUME NEW q \in Process, at'[q] = "put" PROVE product'[made'[q]].hash = contract[NodeOf(q)']
    <2>1. q = p
        BY <1>2, <1>7
    <2> QED BY <1>2, <2>1 DEF NodeOf
<1> QED BY <1>6, <1>7 DEF Noted

LEMMA NotedNext == RecordInv /\ [Next]_vars /\ Up' => Noted'
PROOF
<1> SUFFICES ASSUME RecordInv, [Next]_vars, Up' PROVE Noted'
    OBVIOUS
<1>0. Up /\ Calm /\ Up'
    BY UpBefore DEF RecordInv, UseInv
<1>t. TypedInv
    BY DEF RecordInv, UseInv, LedgerInv, TurnsInv
<1>1. ASSUME NEW p \in Process, LoggerBuilt(p) PROVE Noted'
    <2>1. BuildStep(p, Logger)
        BY <1>1, <1>t, BuildSteps
    <2>2. /\ live' = [live EXCEPT ![Logger] = Len(product) + 1]
          /\ UNCHANGED <<applied, contract, loggerOK>>
        BY <1>1, <2>1 DEF LoggerBuilt, BuildStep, OneMore
    <2> QED BY <1>0, <2>1, <2>2, Constants, BuildKeepsNotes
<1>2. ASSUME NEW p \in Process, LoggerFlushes(p) PROVE Noted'
    BY <1>2, <1>0
       DEF LoggerFlushes, Noted, Recorded, Afresh, Up, RecordInv, UseInv, LedgerInv, TurnsInv,
           TypedInv, TypeOK, ControlOK, TakeTurns, Process, Gone, RunAt, Goes, locals, history
<1>3. ASSUME NEW p \in Process, LoggerStored(p) PROVE Noted'
    BY <1>3, <1>0
       DEF LoggerStored, Noted, Recorded, Afresh, Up, RecordInv, UseInv, LedgerInv, TurnsInv,
           TypedInv, TypeOK, ControlOK, MadeFirst, TakeTurns, Process, Gone, RunAt, Busy, Goes,
           history
<1>4. ASSUME NEW p \in Process, Puts(p) PROVE Noted'
    BY <1>4, <1>0, Constants, SMTT(30)
       DEF Puts, Noted, Recorded, Afresh, Up, Calm, OneReload, RecordInv, UseInv, LedgerInv,
           TurnsInv, TypedInv, TypeOK, SettingsOK, ProductsOK, ControlOK, MadeFirst, TakeTurns,
           Products, Process, Gone, Assembling, Undoing, RunAt, WatchAt, Busy, NodeOf, Goes, history
<1>5. ASSUME NEW p \in Process, Writes(p) PROVE Noted'
    BY <1>5, <1>0
       DEF Writes, Noted, Recorded, Afresh, Up, RecordInv, Process, RunAt, WatchAt, Busy, NodeOf,
           Goes, locals, history
<1>6. ASSUME NEW p \in Process, Marks(p) PROVE Noted'
    <2> DEFINE n == NodeOf(p)
    <2>1. /\ at[p] = "mark" /\ at'[p] = "build" /\ n \in Provider /\ n \in Node /\ n # Logger
          /\ UNCHANGED <<contract, live, product, loggerOK>>
        BY <1>6, <1>t, <1>0, Constants DEF Marks, Goes, TypedInv, TypeOK, ControlOK, MadeFirst, Busy
    <2>2. \A q \in Process : q # p => at'[q] = at[q] /\ at[q] \in {"idle", "serve"}
        BY <1>6, <1>0, <2>1, Alone DEF Marks, Goes, RecordInv, UseInv, LedgerInv, Process
    <2>3. applied' = [applied EXCEPT ![n] = contract[n]]
        <3>1. CASE p = "watch"
            BY <1>6, <1>0, <2>1, <3>1
               DEF Marks, Up, RecordInv, UseInv, LedgerInv, TurnsInv, OneReload
        <3>2. CASE p = "run"
            <4>1. plan = Start /\ contract = Start
                BY <1>0, <2>1, <3>2
                   DEF Up, RecordInv, UseInv, LedgerInv, TurnsInv, TakeTurns, Assembling
            <4>2. Start[n] # Absent
                BY <2>1, ReloadAssumption
            <4> QED BY <1>6, <3>2, <4>1, <4>2 DEF Marks
        <3> QED BY <3>1, <3>2 DEF Process
    <2>4. Noted /\ applied \in [Node -> Hash \cup {Absent}]
        BY <1>0, <1>t DEF Noted, RecordInv, Recorded, Up, TypedInv, TypeOK, SettingsOK
    <2>5. /\ Afresh(n) /\ \A m \in Node : m # Logger => ~Afresh(m)'
          /\ \A m \in Node : m # n => (Afresh(m)' <=> Afresh(m))
        <3>1. \A q \in Process : at'[q] \notin {"write", "clean", "mark"}
            BY <2>1, <2>2
        <3>2. \A m \in Node : m # Logger => ~Afresh(m)'
            BY <3>1 DEF Afresh
        <3>3. \A m \in Node : m # Logger /\ m # n => ~Afresh(m)
            BY <2>1, <2>2 DEF Afresh
        <3>4. Afresh(n)
            BY <2>1 DEF Afresh
        <3>5. Afresh(Logger)' <=> Afresh(Logger)
            BY <2>1, <2>2 DEF Afresh, Process, Busy
        <3> QED BY <2>1, <3>2, <3>3, <3>4, <3>5
    <2>6. \A q \in Process : at'[q] # "put"
        BY <2>1, <2>2
    <2>7. \A m \in Node :
            /\ Afresh(m)' => live'[m] # 0 /\ product'[live'[m]].hash = contract'[m]
            /\ ~Afresh(m)' /\ applied'[m] # Absent =>
                  live'[m] # 0 /\ product'[live'[m]].hash = applied'[m]
        BY <2>1, <2>3, <2>4, <2>5 DEF Noted
    <2> QED BY <2>6, <2>7 DEF Noted
<1>7. CASE Syncs
    <2>1. CASE settings = Bad
        BY <1>7, <2>1, <1>0
           DEF Syncs, BeginsUndo, Up, RecordInv, UseInv, LedgerInv, TurnsInv, TypedInv, TypeOK,
               ControlOK, Process, Gone, Undoing, Goes, shared, history
    <2>2. CASE settings # Bad
        BY <1>7, <2>2, <1>0
           DEF Syncs, Noted, Recorded, Afresh, Up, RecordInv, UseInv, LedgerInv, TurnsInv, TypedInv,
               TypeOK, ControlOK, MadeFirst, TakeTurns, Process, Assembling, Busy, Goes, history
    <2> QED BY <2>1, <2>2
<1>8. CASE Installs
    BY <1>8, <1>0
       DEF Installs, Noted, Recorded, Afresh, Up, RecordInv, UseInv, LedgerInv, TurnsInv, MadeFirst,
           TakeTurns, Process, Assembling, Busy, Goes, history
<1>9. CASE LoggerMarked
    BY <1>9, <1>0
       DEF LoggerMarked, Noted, Recorded, Afresh, Up, RecordInv, UseInv, LedgerInv, TurnsInv,
           TypedInv, TypeOK, SettingsOK, MadeFirst, TakeTurns, Process, Assembling, Busy, Goes,
           history
<1>10. CASE RunBuilds
    <2>1. CASE todo["run"] = {}
        <3>1. /\ UNCHANGED <<applied, contract, live, product, made>>
              /\ at["run"] = "build" /\ at'["run"] = "serve"
              /\ at["watch"] = "idle" /\ at'["watch"] = "idle"
            BY <1>10, <2>1, <1>0, Alone
               DEF RunBuilds, Goes, RecordInv, UseInv, LedgerInv, TurnsInv, TypedInv, TypeOK,
                   ControlOK, Process
        <3>2. \A n \in Node : ~Afresh(n) /\ ~Afresh(n)'
            BY <3>1 DEF Afresh, Process, Busy
        <3> QED BY <1>0, <3>1, <3>2 DEF Noted, RecordInv, Recorded, Up, Process
    <2>2. CASE todo["run"] # {}
        <3>1. PICK n \in Provider : BuildStep("run", n)
            BY <1>10, <2>2, <1>t, BuildSteps
        <3>2. /\ "run" \in Process /\ n \in Node /\ n # Logger
              /\ UNCHANGED <<live, applied, contract, loggerOK>>
            BY <1>10, <1>0, Constants DEF RunBuilds, Process
        <3> QED BY <1>0, <3>1, <3>2, BuildKeepsNotes
    <2> QED BY <2>1, <2>2
<1>11. CASE RunFails
    BY <1>11, <1>0
       DEF RunFails, BeginsUndo, Noted, Recorded, Afresh, Up, RecordInv, UseInv, LedgerInv,
           TurnsInv, TakeTurns, Process, Assembling, Goes, shared
<1>12. CASE Stops
    BY <1>12, <1>0
       DEF Stops, BeginsUndo, Up, RecordInv, UseInv, LedgerInv, TurnsInv, TypedInv, TypeOK,
           ControlOK, Process, Gone, Undoing, Goes, shared
<1>13. CASE Undoes
    BY <1>13, <1>0 DEF Undoes, Up, Gone, Undoing, Goes, history
<1>14. CASE Closes
    BY <1>14, <1>0 DEF Closes, Up, Gone, Undoing, Goes, shared, locals, history
<1>15. CASE Returns
    BY <1>15, <1>0
       DEF Returns, Noted, Recorded, Afresh, Up, RecordInv, Process, Gone, Goes, shared, locals,
           history
<1>16. ASSUME NEW s \in Settings \cup {Bad}, Change(s) PROVE Noted'
    <2>1. /\ UNCHANGED <<applied, contract, live, product, made>>
          /\ at["run"] = "serve" /\ at'["run"] = "serve"
          /\ at["watch"] = "idle" /\ at'["watch"] \in {"idle", "land"}
        <3>1. at["run"] \in RunAt /\ at["run"] \notin Gone /\ at["run"] \notin Assembling
            BY <1>16, <1>0, <1>t DEF Change, Up, TypedInv, TypeOK, ControlOK
        <3>2. at["watch"] = "idle" /\ (at' = at \/ at' = [at EXCEPT !["watch"] = "land"])
            BY <1>16 DEF Change, Goes
        <3>3. UNCHANGED <<applied, contract, live, product, made>>
            BY <1>16 DEF Change, shared
        <3> QED BY <1>t, <3>1, <3>2, <3>3 DEF RunAt, Gone, TypedInv, TypeOK, ControlOK, Process
    <2>2. \A n \in Node : ~Afresh(n) /\ ~Afresh(n)'
        BY <2>1 DEF Afresh, Process, Busy
    <2> QED BY <1>0, <2>1, <2>2 DEF Noted, RecordInv, Recorded, Up, Process
<1>17. CASE Lands
    BY <1>17, <1>0, Constants
       DEF Lands, Noted, Recorded, Afresh, Up, RecordInv, UseInv, LedgerInv, TurnsInv, TypedInv,
           TypeOK, ControlOK, MadeFirst, TakeTurns, Process, Gone, Assembling, RunAt, Busy, NodeOf,
           Goes, locals, history
<1>18. CASE LoggerFails
    BY <1>18, <1>0, Constants
       DEF LoggerFails, Noted, Recorded, Afresh, Up, RecordInv, ControlOK, MadeFirst, Products,
           Process, Gone, Assembling, Undoing, RunAt, WatchAt, Busy, NodeOf, Goes, shared, locals,
           history
<1>19. CASE Diffs
    BY <1>19, <1>0
       DEF Diffs, Noted, Recorded, Afresh, Up, RecordInv, UseInv, LedgerInv, TurnsInv, TypedInv,
           TypeOK, ControlOK, MadeFirst, TakeTurns, Process, Gone, RunAt, Busy, Goes, history
<1>20. CASE Removes
    BY <1>20, <1>0
       DEF Removes, Noted, Recorded, Afresh, Up, RecordInv, UseInv, LedgerInv, TurnsInv, TypedInv,
           TypeOK, ControlOK, TakeTurns, Products, Process, Gone, Undoing, RunAt, Goes, history
<1>21. CASE Rebuilds
    <2>1. PICK n \in Provider : BuildStep("watch", n)
        BY <1>21, <1>t, BuildSteps
    <2>2. /\ "watch" \in Process /\ n \in Node /\ n # Logger
          /\ UNCHANGED <<live, applied, contract, loggerOK>>
        BY <1>21, <1>0, Constants DEF Rebuilds, Process
    <2> QED BY <1>0, <2>1, <2>2, BuildKeepsNotes
<1>22. CASE RebuildFails
    BY <1>22, <1>0
       DEF RebuildFails, Noted, Recorded, Afresh, Up, RecordInv, UseInv, LedgerInv, TurnsInv,
           TypedInv, TypeOK, ControlOK, TakeTurns, Process, Gone, RunAt, Goes, shared, history
<1>23. CASE Replaced
    BY <1>23, <1>0
       DEF Replaced, Noted, Recorded, Afresh, Up, RecordInv, MadeFirst, Process, Busy, NodeOf, Goes,
           locals, history
<1>24. CASE ReloadEnds
    BY <1>24, <1>0
       DEF ReloadEnds, Noted, Recorded, Afresh, Up, OneReload, RecordInv, UseInv, LedgerInv,
           TurnsInv, TypedInv, TypeOK, SettingsOK, ControlOK, MadeFirst, TakeTurns, Process, Gone,
           RunAt, WatchAt, Busy, Goes, history
<1>25. CASE UNCHANGED vars
    BY <1>25, <1>0
       DEF vars, shared, locals, history, Noted, Recorded, Afresh, Up, RecordInv, NodeOf, Goes
<1> QED
    BY <1>1, <1>2, <1>3, <1>4, <1>5, <1>6, <1>7, <1>8, <1>9, <1>10, <1>11, <1>12, <1>13, <1>14,
       <1>15, <1>16, <1>17, <1>18, <1>19, <1>20, <1>21, <1>22, <1>23, <1>24, <1>25
       DEF Next, RunStep, WatchStep, Both, Process

LEMMA RecordNext == RecordInv /\ [Next]_vars => RecordInv'
PROOF
<1> SUFFICES ASSUME RecordInv, [Next]_vars PROVE RecordInv'
    OBVIOUS
<1>1. UseInv'
    BY UseNext DEF RecordInv
<1>2. ~early' /\ at'["run"] \notin Gone => Up'
    BY <1>1 DEF UseInv, LedgerInv, TurnsInv, TakeTurns, Up
<1>3. Up' => Noted'
    BY NotedNext
<1> QED BY <1>1, <1>2, <1>3 DEF RecordInv, Recorded, Noted

LEMMA Initially == Init => IInv
PROOF
<1> SUFFICES ASSUME Init PROVE IInv
    OBVIOUS
<1>1. InUse /\ Recorded
    BY EmptySeq DEF Init, InUse, Recorded, Afresh, Process, Busy
<1> QED BY <1>1, TypedInit, TurnsInit, LedgerInit DEF IInv, TypedInv

(* The strengthening the theorems below are read off from.                 *)
THEOREM Invariance == Spec => []IInv
PROOF
<1>1. IInv /\ [Next]_vars => IInv'
    BY RecordNext DEF RecordInv, UseInv, LedgerInv, TurnsInv, TypedInv, IInv
<1> QED BY Initially, <1>1, PTL DEF Spec

(* What was built is released once, and when Run has returned nothing that *)
(* was built is left: whatever was replaced, removed or failed meanwhile,  *)
(* as long as no reload overlaps with the assembly or with UndoEffects.    *)
THEOREM ReleasedExactlyOnce == Spec => []CleanedOnce
PROOF
<1>1. IInv => CleanedOnce
    <2> SUFFICES ASSUME IInv, Calm
                 PROVE  /\ \A k \in Products : cleaned[k] <= 1
                        /\ at["run"] = "done" => \A k \in Products : cleaned[k] = 1
        BY DEF IInv, CleanedOnce, Calm
    <2>1. ReleasedOnce
        BY DEF IInv, Ledger, ReleasedOnce, Calm
    <2>2. \A k \in Products : product[k].node \in Node
        BY ProductsTyped DEF IInv
    <2>3. ASSUME at["run"] = "done"
          PROVE  OnTheWay = {} /\ Displaced = {} /\ \A n \in Node : Owned(n) = {}
        <3>1. at["watch"] = "idle" /\ todo["run"] = {}
            BY <2>3 DEF IInv, TakeTurns, MadeFirst, Calm, Gone
        <3> QED BY <2>3, <3>1 DEF OnTheWay, Displaced, Owned, Undone, Gone, Process
    <2> QED BY <2>1, <2>2, <2>3 DEF ReleasedOnce
<1> QED BY Invariance, <1>1, PTL

(* Until the effects are undone nobody is handed a product that was        *)
(* released already, whatever is reloaded or fails to build.               *)
THEOREM InUseStaysAlive == Spec => []NothingReleasedInUse
PROOF
<1>1. IInv => NothingReleasedInUse
    <2> SUFFICES ASSUME IInv, ~early, at["run"] \notin Gone, NEW n \in Node, live[n] # 0
                 PROVE  cleaned[live[n]] = 0
        BY DEF NothingReleasedInUse, Gone, Assembling, Undoing
    <2>1. ~late
        BY DEF IInv, TakeTurns
    <2>2. live[n] \in Products /\ product[live[n]].node = n /\ live[n] \in Owned(n) \cup OnTheWay
        BY <2>1 DEF IInv, InUse, TypeOK, ProductsOK, Products
    <2> QED BY <2>1, <2>2 DEF IInv, Ledger
<1> QED BY Invariance, <1>1, PTL

(* After every reload, whatever part of it failed, Drift lists each node   *)
(* whose product is not the desired one.                                   *)
THEOREM DriftIsComplete == Spec => []DriftTellsAll
PROOF
<1>1. IInv => DriftTellsAll
    <2> SUFFICES ASSUME IInv, Serving, ~early, settings # Bad, NEW n \in Node, settings[n] # Absent
                 PROVE  UpToDate(n) \/ Reported(n)
        BY DEF DriftTellsAll
    <2>1. at["run"] = "serve" /\ at["watch"] = "idle" /\ plan = settings
        BY DEF IInv, Serving, OneReload
    <2>2. ~Afresh(n)
        BY <2>1 DEF Afresh, Process, Busy
    <2>3. applied[n] # Absent => live[n] # 0 /\ product[live[n]].hash = applied[n]
        BY <2>1, <2>2 DEF IInv, Recorded, Gone, Undoing
    <2> QED BY <2>1, <2>3 DEF UpToDate, Reported
<1> QED BY Invariance, <1>1, PTL

-----------------------------------------------------------------------------
(* PlanOrder: the plan does not depend on the order of the declarations,   *)
(* and the teardown is the reverse of the application wherever no node     *)
(* waits for another.                                                      *)

(* A set of numbers that is not empty has a least element: the finite      *)
(* sets 0..x are well founded.                                             *)
LEMMA Least ==
    ASSUME NEW T \in SUBSET Nat, T # {}
    PROVE  \E x \in T : \A y \in T : x <= y
<1> DEFINE Below == {U \in FiniteSubsetsOf(Nat) : \E x \in T : U = 0..x}
<1>1. ASSUME NEW x \in T
      PROVE  0..x \in Below
  BY <1>1, FS_Interval DEF FiniteSubsetsOf
<1>2. Below \subseteq FiniteSubsetsOf(Nat) /\ Below # {}
  BY <1>1
<1> HIDE DEF Below
<1>3. PICK U \in Below : \A V \in Below : <<V, U>> \notin StrictSubsetOrdering(Nat)
  BY <1>2, FS_StrictSubsetOrderingWellFounded, WFMin
<1>4. PICK x \in T : U = 0..x
  BY <1>3 DEF Below
<1>5. ASSUME NEW y \in T, y < x
      PROVE  FALSE
  <2>1. 0..y \in SUBSET (0..x) /\ x \notin 0..y /\ x \in 0..x
    BY <1>5
  <2>2. <<0..y, 0..x>> \in StrictSubsetOrdering(Nat)
    BY <2>1, <1>5 DEF StrictSubsetOrdering
  <2>3. QED
    BY <2>2, <1>1, <1>3, <1>4
<1>6. QED
  BY <1>5

(* Induction over the numbers, for sets.                                   *)
LEMMA Inducts ==
    ASSUME NEW S \in SUBSET Nat, 0 \in S, \A n \in S : n + 1 \in S
    PROVE  S = Nat
<1> SUFFICES ASSUME S # Nat PROVE FALSE
  OBVIOUS
<1>1. PICK x \in Nat \ S : \A y \in Nat \ S : x <= y
  BY Least
<1>2. x - 1 \in S
  BY <1>1
<1>3. QED
  BY <1>1, <1>2

(* Min is the least element.                                               *)
LEMMA MinIsLeast ==
    ASSUME NEW T \in SUBSET Nat, T # {}
    PROVE  Min(T) \in T /\ \A y \in T : Min(T) <= y
BY Least DEF Min

(* Max is the greatest element of a bounded set.                           *)
LEMMA MaxIsGreatest ==
    ASSUME NEW n \in Nat, NEW T \in SUBSET (1..n), T # {}
    PROVE  Max(T) \in T /\ \A y \in T : y <= Max(T)
<1> DEFINE D == {n - x : x \in T}
<1>1. D \in SUBSET Nat /\ D # {}
  <2>1. \A x \in T : n - x \in Nat
    OBVIOUS
  <2>2. QED
    BY <2>1
<1>2. PICK d \in D : \A e \in D : d <= e
  BY <1>1, Least
<1>3. PICK x \in T : d = n - x
  OBVIOUS
<1>4. \A y \in T : x >= y
  <2> TAKE y \in T
  <2>1. d <= n - y
    BY <1>2
  <2>2. QED
    BY <2>1, <1>3
<1>5. QED
  BY <1>4 DEF Max

\* One turn of the loop that keeps the elements of T.
KeepOne(s, T, f, i) ==
    IF i = 0 THEN <<>> ELSE IF s[i] \in T THEN Append(f[i - 1], s[i]) ELSE f[i - 1]

(* The loop over a list: what it has kept after i elements is defined.     *)
LEMMA LoopDefined ==
    ASSUME NEW s, NEW T, NEW len \in Nat
    PROVE  \E f : f = [i \in 0..len |-> KeepOne(s, T, f, i)]
<1> DEFINE Solves(f, n) == /\ f = [i \in 0..n |-> f[i]]
                           /\ \A i \in 0..n : f[i] = KeepOne(s, T, f, i)
           S == {n \in Nat : \E f : Solves(f, n)}
<1>1. 0 \in S
  <2> DEFINE f == [i \in 0..0 |-> <<>>]
  <2>1. Solves(f, 0)
    BY DEF KeepOne
  <2>2. QED
    BY <2>1
<1>2. ASSUME NEW n \in S
      PROVE  n + 1 \in S
  <2>1. PICK f : Solves(f, n)
    OBVIOUS
  <2> DEFINE g == [i \in 0..(n + 1) |-> IF i = n + 1 THEN KeepOne(s, T, f, i) ELSE f[i]]
  <2>2. ASSUME NEW i \in 0..(n + 1)
        PROVE  g[i] = KeepOne(s, T, g, i)
    <3>1. CASE i = 0
      <4>0. n \in Nat
        OBVIOUS
      <4>1. f[0] = KeepOne(s, T, f, 0)
        BY <2>1, <4>0
      <4>2. g[0] = f[0]
        BY <4>0
      <4>3. KeepOne(s, T, f, 0) = <<>> /\ KeepOne(s, T, g, 0) = <<>>
        BY DEF KeepOne
      <4>4. QED
        BY <3>1, <4>1, <4>2, <4>3
    <3>2. CASE i \in 1..n
      <4>1. g[i] = f[i] /\ g[i - 1] = f[i - 1]
        BY <3>2
      <4>2. f[i] = KeepOne(s, T, f, i)
        BY <3>2, <2>1
      <4>3. KeepOne(s, T, f, i) = KeepOne(s, T, g, i)
        BY <4>1 DEF KeepOne
      <4>4. QED
        BY <4>1, <4>2, <4>3
    <3>3. CASE i = n + 1
      <4>1. g[i] = KeepOne(s, T, f, i) /\ g[i - 1] = f[i - 1]
        BY <3>3
      <4>2. QED
        BY <4>1 DEF KeepOne
    <3>4. QED
      BY <3>1, <3>2, <3>3
  <2>3. Solves(g, n + 1)
    BY <2>2
  <2> HIDE DEF g, Solves
  <2>4. QED
    BY <2>3
<1>3. len \in S
  <2>1. S \in SUBSET Nat
    OBVIOUS
  <2> HIDE DEF S
  <2>2. QED
    BY <1>1, <1>2, <2>1, Inducts
<1>4. PICK f : Solves(f, len)
  BY <1>3
<1>5. f = [i \in 0..len |-> KeepOne(s, T, f, i)]
  BY <1>4
<1>6. QED
  BY <1>5

(* Kept is what that loop has kept at the end.                             *)
LEMMA KeptIsLoop ==
    ASSUME NEW s, NEW T, Len(s) \in Nat
    PROVE  \E f : f = [i \in 0..Len(s) |-> KeepOne(s, T, f, i)] /\ Kept(s, T) = f[Len(s)]
<1>1. \E f : f = [i \in 0..Len(s) |->
                   IF i = 0 THEN <<>>
                   ELSE IF s[i] \in T THEN Append(f[i - 1], s[i]) ELSE f[i - 1]]
  <2>1. \E f : f = [i \in 0..Len(s) |-> KeepOne(s, T, f, i)]
    BY LoopDefined
  <2>2. QED
    BY <2>1, Zenon DEF KeepOne
<1> DEFINE kept[i \in 0..Len(s)] ==
                 IF i = 0 THEN <<>>
                 ELSE IF s[i] \in T THEN Append(kept[i - 1], s[i]) ELSE kept[i - 1]
<1>2. kept = [i \in 0..Len(s) |-> IF i = 0 THEN <<>>
                 ELSE IF s[i] \in T THEN Append(kept[i - 1], s[i]) ELSE kept[i - 1]]
  BY <1>1, Zenon
<1>3. Kept(s, T) = kept[Len(s)]
  BY Zenon DEF Kept
<1> HIDE DEF kept
<1>4. kept = [i \in 0..Len(s) |-> KeepOne(s, T, kept, i)]
  BY <1>2, Zenon DEF KeepOne
<1>5. QED
  BY <1>3, <1>4

(* The elements of a sequence with one more at its end.                    *)
LEMMA AppendElements ==
    ASSUME NEW S, NEW s \in Seq(S), NEW x \in S
    PROVE  /\ Append(s, x) \in Seq(S)
           /\ Len(Append(s, x)) = Len(s) + 1
           /\ \A i \in 1..Len(s) : Append(s, x)[i] = s[i]
           /\ Append(s, x)[Len(s) + 1] = x
           /\ ToSet(Append(s, x)) = ToSet(s) \cup {x}
           /\ IsInjective(s) /\ x \notin ToSet(s) => IsInjective(Append(s, x))
<1> DEFINE t == Append(s, x)
<1>1. /\ t \in Seq(S) /\ Len(t) = Len(s) + 1 /\ Len(s) \in Nat
      /\ DOMAIN t = 1..(Len(s) + 1) /\ DOMAIN s = 1..Len(s)
      /\ \A i \in 1..Len(s) : t[i] = s[i]
      /\ t[Len(s) + 1] = x
  OBVIOUS
<1> HIDE DEF t
<1>2. ToSet(t) = ToSet(s) \cup {x}
  <2>1. ASSUME NEW y \in ToSet(t)
        PROVE  y \in ToSet(s) \cup {x}
    <3>1. PICK i \in 1..(Len(s) + 1) : y = t[i]
      BY <1>1, <2>1 DEF ToSet
    <3>2. QED
      BY <1>1, <3>1 DEF ToSet
  <2>2. ASSUME NEW y \in ToSet(s)
        PROVE  y \in ToSet(t)
    BY <1>1 DEF ToSet
  <2>3. x \in ToSet(t)
    BY <1>1 DEF ToSet
  <2>4. QED
    BY <2>1, <2>2, <2>3
<1>3. ASSUME IsInjective(s), x \notin ToSet(s)
      PROVE  IsInjective(t)
  BY <1>1, <1>3 DEF IsInjective, ToSet
<1>4. QED
  BY <1>1, <1>2, <1>3 DEF t

(* Kept(s, T) has the elements of s that lie in T, each as often as s.     *)
LEMMA KeptFilters ==
    ASSUME NEW S, NEW s \in Seq(S), NEW T
    PROVE  /\ Kept(s, T) \in Seq(S)
           /\ ToSet(Kept(s, T)) = ToSet(s) \cap T
           /\ IsInjective(s) => IsInjective(Kept(s, T))
<1>1. PICK f : f = [i \in 0..Len(s) |-> KeepOne(s, T, f, i)] /\ Kept(s, T) = f[Len(s)]
  <2>1. Len(s) \in Nat
    OBVIOUS
  <2>2. QED
    BY <2>1, KeptIsLoop
<1>2. \A i \in 0..Len(s) : f[i] = KeepOne(s, T, f, i)
  BY <1>1
<1> DEFINE Read(n) == {s[i] : i \in 1..n}
           Good(n) == /\ f[n] \in Seq(S) /\ ToSet(f[n]) = Read(n) \cap T
                      /\ IsInjective(s) => IsInjective(f[n])
           G == {n \in Nat : n <= Len(s) => Good(n)}
<1>3. 0 \in G
  <2>1. f[0] = <<>>
    BY <1>2 DEF KeepOne
  <2>2. f[0] \in Seq(S) /\ DOMAIN f[0] = {}
    BY <2>1
  <2>3. QED
    BY <2>2 DEF ToSet, IsInjective
<1>4. ASSUME NEW n \in G
      PROVE  n + 1 \in G
  <2> SUFFICES ASSUME n + 1 <= Len(s)
               PROVE  Good(n + 1)
    OBVIOUS
  <2>1. Good(n) /\ n \in Nat /\ s[n + 1] \in S /\ n + 1 \in DOMAIN s /\ 1..n \subseteq DOMAIN s
    OBVIOUS
  <2>2. f[n + 1] = IF s[n + 1] \in T THEN Append(f[n], s[n + 1]) ELSE f[n]
    BY <1>2, <2>1 DEF KeepOne
  <2>3. Read(n + 1) = Read(n) \cup {s[n + 1]}
    BY <2>1
  <2>4. IsInjective(s) => s[n + 1] \notin Read(n)
    BY <2>1 DEF IsInjective
  <2> HIDE DEF Read, G
  <2>5. CASE s[n + 1] \in T
    <3>1. f[n + 1] = Append(f[n], s[n + 1])
      BY <2>2, <2>5
    <3>2. f[n + 1] \in Seq(S) /\ ToSet(f[n + 1]) = ToSet(f[n]) \cup {s[n + 1]}
      BY <2>1, <3>1, AppendElements
    <3>3. IsInjective(f[n]) /\ s[n + 1] \notin ToSet(f[n]) => IsInjective(f[n + 1])
      BY <2>1, <3>1, AppendElements
    <3>4. QED
      BY <2>1, <2>3, <2>4, <2>5, <3>2, <3>3
  <2>6. CASE s[n + 1] \notin T
    BY <2>1, <2>2, <2>3, <2>6
  <2>7. QED
    BY <2>5, <2>6
<1>5. Len(s) \in G
  <2>1. G \in SUBSET Nat /\ Len(s) \in Nat
    OBVIOUS
  <2> HIDE DEF G
  <2>2. G = Nat
    BY <1>3, <1>4, <2>1, Inducts
  <2>3. QED
    BY <2>1, <2>2
<1>6. Read(Len(s)) = ToSet(s)
  BY DEF ToSet
<1>7. QED
  BY <1>1, <1>5, <1>6

(* An injective sequence is as long as its set of elements.                *)
LEMMA InjectiveLength ==
    ASSUME NEW S, NEW s \in Seq(S), IsInjective(s)
    PROVE  IsFiniteSet(ToSet(s)) /\ Cardinality(ToSet(s)) = Len(s)
<1>1. Len(s) \in Nat /\ DOMAIN s = 1..Len(s)
  OBVIOUS
<1>2. IsFiniteSet(1..Len(s)) /\ Cardinality(1..Len(s)) = Len(s)
  BY <1>1, FS_Interval
<1>3. s \in Bijection(1..Len(s), ToSet(s))
  BY <1>1 DEF IsInjective, ToSet, Bijection, Injection, Surjection
<1>4. ExistsBijection(1..Len(s), ToSet(s))
  BY <1>3 DEF ExistsBijection
<1>5. QED
  BY <1>2, <1>4, FS_Bijection, Zenon

\* No two nodes of a set share a key.
Keyed(S) == \A m, n \in S : m.key = n.key => m = n

-----------------------------------------------------------------------------
(* The inductive invariant of the plan.                                    *)

\* What resolveNodeConflicts leaves: a node for every key, once.
Resolved ==
    /\ IsInjective(nodes) /\ Keyed(ToSet(nodes))
    /\ stage = "declared" => nodes = <<>>
    /\ stage = "conflict" => \E i, j \in DOMAIN decl : i # j /\ decl[i].key = decl[j].key
    /\ stage \notin {"declared", "conflict"} =>
          /\ KeysOf(nodes) = KeysOf(decl)
          /\ \A i \in DOMAIN decl : decl[i].override => decl[i] \in ToSet(nodes)

\* Where an order agrees with the plan up to a pick, the pick is the sooner node.
Foremost ==
    \A s \in Orders : \A i \in DOMAIN ordered :
        (\A j \in 1..(i - 1) : s[j] = ordered[j]) =>
            s[i] = ordered[i] \/ Precedes(ordered[i], s[i])

\* The picks so far are the beginning of an order, and of the first one.
Ordering ==
    /\ IsInjective(ordered) /\ ToSet(ordered) \subseteq ToSet(nodes)
    /\ IsOrder(ordered)
    /\ Foremost
    /\ stage \in {"declared", "conflict"} => ordered = <<>>
    /\ stage = "order" =>
          \A n \in ToSet(nodes) \ ToSet(ordered) : \A m \in ToSet(ordered) : m.phase < n.phase
    /\ stage = "unordered" => Orders = {}

\* What node g of the phase is still waiting for.
Lacks(g) == (g.dependsOn \cap KeysOf(group)) \ KeysOf(ordered)

\* topoPhase: its group is the phase of all its nodes, nothing of a later one
\* is picked and nothing of an earlier one is left, and indeg counts exactly.
Picking ==
    stage = "pick" =>
        /\ \A i, j \in DOMAIN group : i < j => Precedes(group[i], group[j])
        /\ \E g \in ToSet(group) : g \notin ToSet(ordered)
        /\ DOMAIN waits = KeysOf(group)
        /\ \A g \in ToSet(group) :
              /\ g \in ToSet(nodes) /\ ~Unmet(g)
              /\ \A n \in ToSet(nodes) : n \in ToSet(group) <=> n.phase = g.phase
              /\ \A n \in ToSet(nodes) \ ToSet(ordered) : g.phase <= n.phase
              /\ \A n \in ToSet(ordered) : n.phase <= g.phase
              /\ waits[g.key] = Cardinality(Lacks(g))

\* What node n is still to be released after.
Owes(n) == After(n, applyNodes) \ ToSet(released)

\* What is released has waited for all it names; what was passed over has a
\* reason, or is part of a knot that no teardown undoes.
Backed ==
    /\ IsInjective(released) /\ ToSet(released) \subseteq KeysOf(applyNodes)
    /\ \A i \in DOMAIN released : \A n \in ToSet(applyNodes) :
          n.key = released[i] => After(n, applyNodes) \subseteq {released[j] : j \in 1..(i - 1)}
    /\ \A i \in DOMAIN released : \A l \in KeysOf(applyNodes) \ {released[j] : j \in 1..i} :
          Position(released[i]) < Position(l) =>
             \/ \E m \in Waiting(l) : Position(m) <= Position(released[i])
             \/ \E m \in Waiting(l) : m \in Waiting(m)

Releasing ==
    /\ IsInjective(applyNodes) /\ ToSet(applyNodes) \subseteq ToSet(nodes)
    /\ IF stage \in {"release", "planned", "entangled"}
       THEN ToSet(nodes) \subseteq ToSet(ordered)
       ELSE applyNodes = <<>> /\ released = <<>>
    /\ Backed
    /\ stage = "release" =>
          /\ DOMAIN waits = KeysOf(applyNodes)
          /\ \A n \in ToSet(applyNodes) : waits[n.key] = Cardinality(Owes(n))
          /\ \E k \in KeysOf(applyNodes) : k \notin ToSet(released)
    /\ stage = "planned" => KeysOf(applyNodes) \subseteq ToSet(released)
    /\ stage = "entangled" => \E k \in KeysOf(applyNodes) : k \in Waiting(k)

PlanInv == PlanTypeOK /\ Resolved /\ Ordering /\ Picking /\ Releasing

(* (Priority, Key) is a strict order, total on nodes of different keys.    *)
LEMMA PrecedesOrders ==
    ASSUME NEW l \in PlanNode, NEW m \in PlanNode, NEW n \in PlanNode
    PROVE  /\ ~Precedes(m, m)
           /\ Precedes(l, m) /\ Precedes(m, n) => Precedes(l, n)
           /\ m.key # n.key => Precedes(m, n) \/ Precedes(n, m)
<1>1. \A x \in PlanNode : x.key \in Int /\ x.priority \in Int
  <2>1. \A x \in PlanNode : x.key \in Key /\ x.priority \in Int
    BY DEF PlanNode
  <2>2. \A k \in Key : k \in Int
    BY PlanAssumption
  <2>3. QED
    BY <2>1, <2>2
<1>2. QED
  BY <1>1 DEF Precedes

\* t is a list of n nodes, those of R, sorted.
Sorts(t, n, R) ==
    /\ t \in [1..n -> R]
    /\ \A y \in R : \E i \in 1..n : t[i] = y
    /\ \A i, j \in 1..n : i < j => Precedes(t[i], t[j])

(* A node finds its place in a sorted list.                                *)
LEMMA Inserts ==
    ASSUME NEW R \in SUBSET PlanNode, NEW n \in Nat, NEW t, Sorts(t, n, R),
           NEW x \in PlanNode, \A y \in R : y.key # x.key
    PROVE  \E u : Sorts(u, n + 1, R \cup {x})
<1>0. /\ t \in [1..n -> R]
      /\ \A y \in R : \E i \in 1..n : t[i] = y
      /\ \A i, j \in 1..n : i < j => Precedes(t[i], t[j])
  BY DEF Sorts
<1> DEFINE P == {i \in 1..(n + 1) : i = n + 1 \/ Precedes(x, t[i])}
<1>1. P \in SUBSET Nat /\ n + 1 \in P
  OBVIOUS
<1>2. PICK p \in P : \A i \in P : p <= i
  BY <1>1, Least
<1>3. \A i \in 1..n : t[i] \in PlanNode /\ t[i].key # x.key
  BY <1>0
<1>4. p \in 1..(n + 1)
  OBVIOUS
<1>5. ASSUME NEW i \in 1..n, i < p
      PROVE  Precedes(t[i], x)
  <2>1. ~Precedes(x, t[i])
    BY <1>2, <1>4, <1>5
  <2>2. QED
    BY <1>3, <2>1, PrecedesOrders
<1>6. ASSUME NEW i \in 1..n, p <= i
      PROVE  Precedes(x, t[i])
  <2>1. p \in 1..n /\ Precedes(x, t[p])
    BY <1>4, <1>6
  <2>2. CASE i = p
    BY <2>1, <2>2
  <2>3. CASE i # p
    <3>1. Precedes(t[p], t[i])
      BY <1>0, <1>4, <1>6, <2>1, <2>3
    <3>2. QED
      BY <1>3, <2>1, <3>1, PrecedesOrders
  <2>4. QED
    BY <2>2, <2>3
<1> HIDE DEF P
<1> DEFINE u == [i \in 1..(n + 1) |-> IF i < p THEN t[i] ELSE IF i = p THEN x ELSE t[i - 1]]
<1>7. /\ \A i \in 1..(n + 1) : i < p => u[i] = t[i] /\ i \in 1..n
      /\ u[p] = x
      /\ \A i \in 1..(n + 1) : i > p => u[i] = t[i - 1] /\ i - 1 \in 1..n
  BY <1>4
<1>8. u \in [1..(n + 1) -> R \cup {x}]
  BY <1>0, <1>4
<1> HIDE DEF u
<1>9. ASSUME NEW y \in R \cup {x}
      PROVE  \E i \in 1..(n + 1) : u[i] = y
  <2>1. CASE y = x
    BY <1>4, <1>7, <2>1
  <2>2. CASE y \in R
    <3>1. PICK i \in 1..n : t[i] = y
      BY <1>0, <2>2
    <3>2. CASE i < p
      BY <1>7, <3>1, <3>2
    <3>3. CASE i >= p
      <4>1. i + 1 \in 1..(n + 1) /\ i + 1 > p /\ (i + 1) - 1 = i
        BY <1>4, <3>3
      <4>2. u[i + 1] = t[i]
        BY <1>7, <4>1
      <4>3. QED
        BY <3>1, <4>1, <4>2
    <3>4. QED
      BY <1>4, <3>2, <3>3
  <2>3. QED
    BY <2>1, <2>2
<1>10. ASSUME NEW i \in 1..(n + 1), NEW j \in 1..(n + 1), i < j
       PROVE  Precedes(u[i], u[j])
  <2>1. CASE j < p
    <3>1. i < p
      BY <1>4, <1>10, <2>1
    <3>2. QED
      BY <1>0, <1>7, <1>10, <2>1, <3>1
  <2>2. CASE j = p
    BY <1>5, <1>7, <1>10, <2>2
  <2>3. CASE j > p /\ i < p
    <3>1. u[j] = t[j - 1] /\ j - 1 \in 1..n /\ i < j - 1 /\ u[i] = t[i] /\ i \in 1..n
      BY <1>4, <1>7, <2>3
    <3>2. QED
      BY <1>0, <3>1
  <2>4. CASE j > p /\ i = p
    <3>1. u[j] = t[j - 1] /\ j - 1 \in 1..n /\ p <= j - 1 /\ u[i] = x
      BY <1>4, <1>7, <2>4
    <3>2. QED
      BY <1>6, <3>1
  <2>5. CASE j > p /\ i > p
    <3>1. u[j] = t[j - 1] /\ j - 1 \in 1..n /\ u[i] = t[i - 1] /\ i - 1 \in 1..n /\ i - 1 < j - 1
      BY <1>4, <1>7, <1>10, <2>5
    <3>2. QED
      BY <1>0, <3>1
  <2>6. QED
    BY <1>4, <2>1, <2>2, <2>3, <2>4, <2>5
<1>11. Sorts(u, n + 1, R \cup {x})
  BY <1>8, <1>9, <1>10 DEF Sorts
<1>12. QED
  BY <1>11

(* Every list of nodes of different keys can be sorted.                    *)
LEMMA Sortable ==
    ASSUME NEW s \in Seq(PlanNode), IsInjective(s), Keyed(ToSet(s))
    PROVE  \E t : Sorts(t, Len(s), ToSet(s))
<1> DEFINE Read(n) == {s[i] : i \in 1..n}
           Good(n) == \E t : Sorts(t, n, Read(n))
           G == {n \in Nat : n <= Len(s) => Good(n)}
<1>1. Len(s) \in Nat /\ DOMAIN s = 1..Len(s)
  OBVIOUS
<1>2. 0 \in G
  <2>1. Sorts([i \in 1..0 |-> {}], 0, Read(0))
    BY DEF Sorts
  <2>2. QED
    BY <2>1
<1> HIDE DEF Good
<1>3. ASSUME NEW n \in G, n + 1 <= Len(s)
      PROVE  Good(n + 1)
  <2>1. /\ n \in Nat /\ s[n + 1] \in PlanNode
        /\ n + 1 \in DOMAIN s /\ 1..n \subseteq DOMAIN s
    BY <1>1, <1>3
  <2>2. Read(n + 1) = Read(n) \cup {s[n + 1]} /\ Read(n) \subseteq PlanNode
    BY <2>1
  <2>3. \A y \in Read(n) : y.key # s[n + 1].key
    <3>1. ASSUME NEW i \in 1..n
          PROVE  s[i].key # s[n + 1].key
      <4>0. i # n + 1 /\ i \in DOMAIN s /\ n + 1 \in DOMAIN s
        BY <2>1
      <4>1. s[i] \in ToSet(s) /\ s[n + 1] \in ToSet(s)
        BY <4>0 DEF ToSet
      <4>2. s[i] # s[n + 1]
        BY <4>0 DEF IsInjective
      <4>3. QED
        BY <4>1, <4>2 DEF Keyed
    <3>2. QED
      BY <3>1
  <2>4. PICK t : Sorts(t, n, Read(n))
    <3>1. Good(n)
      BY <1>1, <1>3
    <3>2. QED
      BY <3>1 DEF Good
  <2> HIDE DEF Read, G
  <2>5. \E u : Sorts(u, n + 1, Read(n) \cup {s[n + 1]})
    BY <2>1, <2>2, <2>3, <2>4, Inserts
  <2>6. QED
    BY <2>2, <2>5 DEF Good
<1>4. Len(s) \in G
  <2>1. G \in SUBSET Nat /\ \A n \in G : n + 1 \in G
    BY <1>3
  <2> HIDE DEF G
  <2>2. G = Nat
    BY <1>2, <2>1, Inducts
  <2>3. QED
    BY <1>1, <2>2
<1>5. Read(Len(s)) = ToSet(s)
  BY <1>1 DEF ToSet
<1>6. Good(Len(s))
  BY <1>1, <1>4
<1>7. QED
  BY <1>5, <1>6 DEF Good

(* Sorted has the same nodes, in the order of (Priority, Key).             *)
LEMMA SortedIs ==
    ASSUME NEW s \in Seq(PlanNode), IsInjective(s), Keyed(ToSet(s))
    PROVE  /\ Sorted(s) \in Seq(PlanNode)
           /\ ToSet(Sorted(s)) = ToSet(s)
           /\ \A i, j \in DOMAIN Sorted(s) : i < j => Precedes(Sorted(s)[i], Sorted(s)[j])
<1> DEFINE t == Sorted(s)
<1>1. /\ t \in [DOMAIN s -> ToSet(s)] /\ ToSet(t) = ToSet(s)
      /\ \A i, j \in DOMAIN s : i < j => Precedes(t[i], t[j])
  <2>1. PICK u : Sorts(u, Len(s), ToSet(s))
    BY Sortable
  <2>2. DOMAIN s = 1..Len(s)
    OBVIOUS
  <2>3. /\ u \in [DOMAIN s -> ToSet(s)] /\ ToSet(u) = ToSet(s)
        /\ \A i, j \in DOMAIN s : i < j => Precedes(u[i], u[j])
    BY <2>1, <2>2 DEF Sorts, ToSet
  <2>4. QED
    BY <2>3 DEF Sorted
<1> HIDE DEF t
<1>2. Len(s) \in Nat /\ DOMAIN s = 1..Len(s) /\ ToSet(s) \subseteq PlanNode
  BY DEF ToSet
<1>3. t \in [1..Len(s) -> PlanNode]
  BY <1>1, <1>2
<1>4. t \in Seq(PlanNode) /\ DOMAIN t = DOMAIN s
  BY <1>2, <1>3
<1>5. QED
  BY <1>1, <1>4 DEF t

(* A permutation of the nodes has each of them once.                       *)
LEMMA OrdersCover ==
    ASSUME PlanTypeOK, NEW s \in Orders
    PROVE  /\ Len(s) = Cardinality(ToSet(nodes)) /\ Len(s) \in Nat
           /\ DOMAIN s = 1..Len(s) /\ IsInjective(s)
           /\ s \in [1..Len(s) -> ToSet(nodes)]
           /\ \A n \in ToSet(nodes) : \E i \in 1..Len(s) : s[i] = n
           /\ IsOrder(s)
<1> DEFINE S == ToSet(nodes)
           D == 1..Cardinality(S)
<1>1. nodes \in Seq(PlanNode) /\ Len(nodes) \in Nat /\ DOMAIN nodes = 1..Len(nodes)
  BY DEF PlanTypeOK
<1>2. IsFiniteSet(S)
  <2>1. nodes \in Surjection(1..Len(nodes), S)
    BY <1>1 DEF Surjection, ToSet
  <2>2. IsFiniteSet(1..Len(nodes))
    BY <1>1, FS_Interval
  <2> HIDE DEF S
  <2>3. QED
    BY <2>1, <2>2, FS_Surjection, Zenon
<1>3. s \in [D -> S] /\ IsOrder(s) /\ \A i, j \in D : i # j => s[i] # s[j]
  BY DEF Orders, SetToSeqs
<1> HIDE DEF S
<1>4. Cardinality(S) \in Nat
  BY <1>2, FS_CardinalityType
<1>5. IsFiniteSet(D) /\ Cardinality(D) = Cardinality(S)
  BY <1>4, FS_Interval
<1> HIDE DEF D
<1>6. s \in Injection(D, S) /\ IsInjective(s)
  BY <1>3 DEF Injection, IsInjective
<1>7. s \in Surjection(D, S)
  BY <1>2, <1>5, <1>6, FS_Injection, Zenon
<1>8. \A n \in S : \E i \in D : s[i] = n
  BY <1>7 DEF Surjection
<1>9. Len(s) = Cardinality(S) /\ DOMAIN s = 1..Len(s)
  BY <1>3, <1>4 DEF D
<1>10. QED
  BY <1>3, <1>4, <1>6, <1>8, <1>9 DEF D, S

(* What is declared are nodes, the logger's among them.                    *)
LEMMA DeclTyped ==
    ASSUME PlanTypeOK
    PROVE  /\ decl \in Seq(PlanNode) /\ Len(decl) \in Nat /\ DOMAIN decl = 1..Len(decl)
           /\ LoggerKey \in KeysOf(decl)
<1>1. decl \in Declarations
  BY DEF PlanTypeOK
<1>2. decl \in Seq(PlanNode)
  BY <1>1, PlanAssumption
<1>3. PICK i \in DOMAIN decl : \A j \in DOMAIN decl : decl[j].key = LoggerKey <=> j = i
  BY <1>1, PlanAssumption
<1>4. decl[i] \in ToSet(decl) /\ decl[i].key = LoggerKey
  BY <1>3 DEF ToSet
<1>5. QED
  BY <1>2, <1>4 DEF KeysOf

(* The places a key is declared at.                                        *)
LEMMA DeclaredAt ==
    ASSUME PlanTypeOK, NEW k \in KeysOf(decl)
    PROVE  /\ Declared(k) \in SUBSET (1..Len(decl)) /\ Declared(k) \in SUBSET Nat
           /\ Declared(k) # {} /\ IsFiniteSet(Declared(k)) /\ IsFiniteSet(Overriding(k))
           /\ \A i \in Declared(k) : decl[i] \in PlanNode /\ decl[i].key = k
<1>1. decl \in Seq(PlanNode) /\ Len(decl) \in Nat /\ DOMAIN decl = 1..Len(decl)
  BY DeclTyped
<1>2. Declared(k) \in SUBSET (1..Len(decl)) /\ Overriding(k) \in SUBSET (1..Len(decl))
  BY <1>1 DEF Declared, Overriding
<1>3. IsFiniteSet(1..Len(decl))
  BY <1>1, FS_Interval
<1>4. Declared(k) # {}
  BY DEF KeysOf, ToSet, Declared
<1>5. \A i \in Declared(k) : decl[i] \in PlanNode /\ decl[i].key = k
  BY <1>1 DEF Declared
<1>6. IsFiniteSet(Declared(k)) /\ IsFiniteSet(Overriding(k))
  BY <1>2, <1>3, FS_Subset, Zenon
<1>7. Declared(k) \in SUBSET Nat
  BY <1>1, <1>2
<1>8. QED
  BY <1>2, <1>4, <1>5, <1>6, <1>7

(* A key that is not settled is declared twice.                            *)
LEMMA UnsettledTwice ==
    ASSUME PlanTypeOK, NEW k \in KeysOf(decl), ~Settles(k)
    PROVE  \E i, j \in DOMAIN decl : i # j /\ decl[i].key = decl[j].key
<1>1. PICK i : i \in Declared(k)
  BY DeclaredAt
<1>2. Declared(k) # {i}
  BY FS_Singleton DEF Settles
<1>3. PICK j \in Declared(k) : j # i
  BY <1>1, <1>2
<1>4. QED
  BY <1>1, <1>3 DEF Declared

(* The survivor of a key has that key, and is the overriding node if one   *)
(* overrides.                                                              *)
LEMMA SurvivorIs ==
    ASSUME PlanTypeOK, NEW k \in KeysOf(decl), Settles(k)
    PROVE  /\ Survivor(k) \in PlanNode /\ Survivor(k).key = k
           /\ \A i \in Overriding(k) : Survivor(k) = decl[i]
<1> DEFINE Chosen(i) == Declared(k) = {i} \/ i \in Overriding(k)
<1>1. Overriding(k) \subseteq Declared(k)
  BY DEF Overriding
<1>2. \E i \in Declared(k) : Chosen(i) /\ \A j \in Declared(k) : Chosen(j) => j = i
  <2>1. CASE Cardinality(Declared(k)) = 1
    <3>1. PICK i : Declared(k) = {i}
      BY <2>1, DeclaredAt, FS_Singleton
    <3>2. QED
      BY <3>1
  <2>2. CASE Cardinality(Overriding(k)) = 1
    <3>1. PICK i : Overriding(k) = {i}
      BY <2>2, DeclaredAt, FS_Singleton
    <3>2. i \in Declared(k) /\ Chosen(i)
      BY <1>1, <3>1
    <3>3. QED
      BY <1>1, <3>1, <3>2
  <2>3. QED
    BY <2>1, <2>2 DEF Settles
<1>3. PICK i \in Declared(k) : Survivor(k) = decl[i] /\ \A j \in Declared(k) : Chosen(j) => j = i
  BY <1>2 DEF Survivor
<1>4. \A j \in Overriding(k) : j = i
  BY <1>1, <1>3
<1>5. QED
  BY <1>3, <1>4, DeclaredAt

(* resolveNodeConflicts leaves one node for every key that is declared,    *)
(* the overriding one where there is one.                                  *)
LEMMA SurvivorsAre ==
    ASSUME PlanTypeOK, \A k \in KeysOf(decl) : Settles(k)
    PROVE  /\ Survivors \in Seq(PlanNode)
           /\ IsInjective(Survivors) /\ Keyed(ToSet(Survivors))
           /\ KeysOf(Survivors) = KeysOf(decl)
           /\ \A i \in DOMAIN decl : decl[i].override => decl[i] \in ToSet(Survivors)
<1> DEFINE First == {Min(Declared(k)) : k \in KeysOf(decl)}
           ids == [i \in DOMAIN decl |-> i]
           s == Kept(ids, First)
           Of(j) == decl[s[j]].key
<1>1. decl \in Seq(PlanNode) /\ Len(decl) \in Nat /\ DOMAIN decl = 1..Len(decl)
  BY DeclTyped
<1>2. ids \in Seq(Nat) /\ IsInjective(ids) /\ ToSet(ids) = 1..Len(decl)
  BY <1>1 DEF IsInjective, ToSet
<1>3. \A k \in KeysOf(decl) : /\ Min(Declared(k)) \in Declared(k)
                              /\ Min(Declared(k)) \in 1..Len(decl)
                              /\ decl[Min(Declared(k))].key = k
  BY DeclaredAt, MinIsLeast
<1> HIDE DEF ids
<1>4. s \in Seq(Nat) /\ ToSet(s) = ToSet(ids) \cap First /\ IsInjective(s)
  BY <1>2, KeptFilters
<1>5. ToSet(s) = First
  BY <1>2, <1>3, <1>4
<1>6. Survivors = [j \in DOMAIN s |-> Survivor(Of(j))]
  BY DEF Survivors, ids
<1> HIDE DEF s
<1>7. DOMAIN s = 1..Len(s) /\ Len(s) \in Nat
  BY <1>4
<1>8. ASSUME NEW j \in DOMAIN s
      PROVE  Of(j) \in KeysOf(decl) /\ s[j] = Min(Declared(Of(j)))
  <2>1. s[j] \in First
    BY <1>5 DEF ToSet
  <2>2. PICK k \in KeysOf(decl) : s[j] = Min(Declared(k))
    BY <2>1
  <2>3. QED
    BY <1>3, <2>2
<1>9. ASSUME NEW k \in KeysOf(decl)
      PROVE  \E j \in DOMAIN s : Of(j) = k
  <2>1. Min(Declared(k)) \in ToSet(s)
    BY <1>5
  <2>2. QED
    BY <1>3, <2>1 DEF ToSet
<1> HIDE DEF Of
<1>10. \A j \in DOMAIN s : Survivor(Of(j)) \in PlanNode /\ Survivor(Of(j)).key = Of(j)
  BY <1>8, SurvivorIs
<1>11. Survivors \in Seq(PlanNode) /\ DOMAIN Survivors = DOMAIN s
  BY <1>6, <1>7, <1>10
<1>12. \A i, j \in DOMAIN s : Of(i) = Of(j) => i = j
  <2> SUFFICES ASSUME NEW i \in DOMAIN s, NEW j \in DOMAIN s, Of(i) = Of(j)
               PROVE  i = j
    OBVIOUS
  <2>1. s[i] = s[j]
    BY <1>8
  <2>2. QED
    BY <1>4, <2>1 DEF IsInjective
<1>13. \A i \in DOMAIN s : Survivors[i] = Survivor(Of(i)) /\ Survivors[i].key = Of(i)
  BY <1>6, <1>10
<1>14. IsInjective(Survivors)
  BY <1>11, <1>12, <1>13 DEF IsInjective
<1>15. Keyed(ToSet(Survivors))
  BY <1>11, <1>12, <1>13 DEF Keyed, ToSet
<1>16. KeysOf(Survivors) = KeysOf(decl)
  <2>1. KeysOf(Survivors) = {Survivors[i].key : i \in DOMAIN s}
    BY <1>11 DEF KeysOf, ToSet
  <2>2. {Survivors[i].key : i \in DOMAIN s} = {Of(i) : i \in DOMAIN s}
    BY <1>13
  <2>3. {Of(i) : i \in DOMAIN s} = KeysOf(decl)
    BY <1>8, <1>9
  <2>4. QED
    BY <2>1, <2>2, <2>3
<1>17. ASSUME NEW i \in DOMAIN decl, decl[i].override
       PROVE  decl[i] \in ToSet(Survivors)
  <2> DEFINE k == decl[i].key
  <2>1. k \in KeysOf(decl) /\ i \in Overriding(k)
    BY <1>17 DEF KeysOf, ToSet, Overriding, Declared
  <2>2. Survivor(k) = decl[i]
    BY <2>1, SurvivorIs
  <2>3. PICK j \in DOMAIN s : Of(j) = k
    BY <1>9, <2>1
  <2>4. QED
    BY <1>11, <1>13, <2>2, <2>3 DEF ToSet
<1>18. QED
  BY <1>11, <1>14, <1>15, <1>16, <1>17

-----------------------------------------------------------------------------
(* Phases and keys.                                                        *)

(* A set of keys is finite and counts at most as many as there are.        *)
LEMMA KeysCounted ==
    ASSUME NEW S \in SUBSET Key
    PROVE  IsFiniteSet(S) /\ Cardinality(S) \in Nat /\ Cardinality(S) \in 0..Cardinality(Key)
<1>1. IsFiniteSet(Key)
  BY PlanAssumption
<1>2. IsFiniteSet(S) /\ Cardinality(S) <= Cardinality(Key)
  BY <1>1, FS_Subset, Zenon
<1>3. Cardinality(S) \in Nat /\ Cardinality(Key) \in Nat
  BY <1>1, <1>2, FS_CardinalityType
<1>4. QED
  BY <1>2, <1>3

(* The nodes, their keys and phases.                                       *)
LEMMA NodesTyped ==
    ASSUME PlanTypeOK
    PROVE  /\ \A s \in {nodes, group, ordered, applyNodes} :
                 /\ s \in Seq(PlanNode) /\ Len(s) \in Nat /\ DOMAIN s = 1..Len(s)
                 /\ ToSet(s) \subseteq PlanNode /\ KeysOf(s) \subseteq Key
           /\ \A n \in PlanNode : /\ n.key \in Key /\ n.dependsOn \subseteq Key
                                  /\ n.phase \in Nat /\ n.phase \in Int
<1>1. \A n \in PlanNode : /\ n.key \in Key /\ n.dependsOn \subseteq Key
                          /\ n.phase \in {Configure, Bootstrap, Serve}
  BY DEF PlanNode
<1>2. \A n \in PlanNode : n.phase \in Nat /\ n.phase \in Int
  BY <1>1 DEF Configure, Bootstrap, Serve
<1>3. ASSUME NEW s \in Seq(PlanNode)
      PROVE  /\ Len(s) \in Nat /\ DOMAIN s = 1..Len(s)
             /\ ToSet(s) \subseteq PlanNode /\ KeysOf(s) \subseteq Key
  <2>1. ToSet(s) \subseteq PlanNode
    BY DEF ToSet
  <2>2. KeysOf(s) \subseteq Key
    BY <1>1, <2>1 DEF KeysOf
  <2>3. QED
    BY <2>1, <2>2
<1>4. {nodes, group, ordered, applyNodes} \subseteq Seq(PlanNode)
  BY DEF PlanTypeOK
<1>5. QED
  BY <1>1, <1>2, <1>3, <1>4

(* The next phase is the least one that has nodes left.                    *)
LEMMA NextPhase ==
    ASSUME PlanTypeOK, Left # {}
    PROVE  /\ Min(Left) \in Nat
           /\ \E n \in ToSet(nodes) \ ToSet(ordered) : n.phase = Min(Left)
           /\ \A n \in ToSet(nodes) \ ToSet(ordered) : Min(Left) <= n.phase
<1>1. Left \in SUBSET Nat
  BY NodesTyped DEF Left
<1>2. Min(Left) \in Left /\ \A y \in Left : Min(Left) <= y
  BY <1>1, MinIsLeast
<1>3. QED
  BY <1>1, <1>2 DEF Left

(* The group of a phase.                                                   *)
LEMMA InPhaseIs ==
    ASSUME PlanTypeOK, Resolved, NEW p
    PROVE  /\ InPhase(p) \in Seq(PlanNode)
           /\ ToSet(InPhase(p)) = {n \in ToSet(nodes) : n.phase = p}
           /\ IsInjective(InPhase(p)) /\ Keyed(ToSet(InPhase(p)))
<1> DEFINE T == {n \in ToSet(nodes) : n.phase = p}
<1>1. nodes \in Seq(PlanNode) /\ IsInjective(nodes) /\ Keyed(ToSet(nodes))
  BY NodesTyped DEF Resolved
<1>2. T \subseteq ToSet(nodes)
  OBVIOUS
<1>3. /\ Kept(nodes, T) \in Seq(PlanNode) /\ IsInjective(Kept(nodes, T))
      /\ ToSet(Kept(nodes, T)) = ToSet(nodes) \cap T
  BY <1>1, KeptFilters
<1>4. Keyed(T)
  BY <1>1 DEF Keyed
<1>5. QED
  BY <1>2, <1>3, <1>4 DEF InPhase

(* A node outside a set of nodes of different keys has a key of its own.   *)
LEMMA KeyApart ==
    ASSUME NEW s, NEW t, NEW n, Keyed(ToSet(t)), ToSet(s) \subseteq ToSet(t), n \in ToSet(t)
    PROVE  n.key \in KeysOf(s) <=> n \in ToSet(s)
BY DEF Keyed, KeysOf

-----------------------------------------------------------------------------
(* Orders.                                                                 *)

(* No order has a node whose dependency is unknown or of a later phase.    *)
LEMMA UnmetNoOrder ==
    ASSUME PlanTypeOK, NEW n \in ToSet(nodes), Unmet(n)
    PROVE  Orders = {}
<1> SUFFICES ASSUME NEW s \in Orders
             PROVE  FALSE
  OBVIOUS
<1>1. /\ Len(s) \in Nat /\ DOMAIN s = 1..Len(s) /\ IsOrder(s)
      /\ s \in [1..Len(s) -> ToSet(nodes)]
      /\ \E i \in 1..Len(s) : s[i] = n
  BY OrdersCover
<1>2. PICK k \in n.dependsOn : \A m \in ToSet(nodes) : m.key = k => m.phase > n.phase
  BY DEF Unmet
<1>3. PICK i \in 1..Len(s) : s[i] = n
  BY <1>1
<1>4. PICK j \in 1..(i - 1) : s[j].key = k
  BY <1>1, <1>2, <1>3 DEF IsOrder
<1>5. j \in 1..Len(s) /\ j < i /\ s[j] \in ToSet(nodes)
  BY <1>1
<1>6. s[j].phase <= n.phase
  BY <1>1, <1>3, <1>5 DEF IsOrder
<1>7. s[j].phase > n.phase
  BY <1>2, <1>4, <1>5
<1>8. s[j].phase \in Int /\ n.phase \in Int
  BY <1>5, NodesTyped
<1>9. QED
  BY <1>6, <1>7, <1>8

(* In any order, the first node that is not picked yet belongs to the      *)
(* phase under way and waits for nothing.                                  *)
LEMMA FirstLeftIsReady ==
    ASSUME PlanTypeOK, Resolved, Ordering, Picking, stage = "pick",
           NEW s \in Orders, NEW i \in 1..Len(s), s[i] \notin ToSet(ordered),
           \A j \in 1..(i - 1) : s[j] \in ToSet(ordered)
    PROVE  s[i] \in ToSet(group) /\ \E r \in Ready : group[r] = s[i]
<1>1. /\ Len(s) \in Nat /\ DOMAIN s = 1..Len(s) /\ IsOrder(s)
      /\ s \in [1..Len(s) -> ToSet(nodes)]
      /\ \A n \in ToSet(nodes) : \E j \in 1..Len(s) : s[j] = n
  BY OrdersCover
<1>2. PICK g \in ToSet(group) : g \notin ToSet(ordered)
  BY DEF Picking
<1>3. g \in ToSet(nodes) /\ \A n \in ToSet(nodes) \ ToSet(ordered) : g.phase <= n.phase
  BY DEF Picking
<1>4. PICK j \in 1..Len(s) : s[j] = g
  BY <1>1, <1>3
<1>5. i <= j
  <2>1. j \notin 1..(i - 1)
    BY <1>2, <1>4
  <2>2. QED
    BY <2>1
<1>6. s[i].phase <= g.phase
  <2>1. s[i] \in ToSet(nodes)
    BY <1>1
  <2>2. g.phase \in Int
    BY <1>3, NodesTyped
  <2>3. CASE i < j
    BY <1>1, <1>4, <2>3 DEF IsOrder
  <2>4. CASE i = j
    BY <1>4, <2>2, <2>4
  <2>5. QED
    BY <1>5, <2>3, <2>4
<1>7. s[i] \in ToSet(nodes) /\ s[i].phase = g.phase
  <2>1. s[i] \in ToSet(nodes)
    BY <1>1
  <2>2. g.phase <= s[i].phase /\ g.phase \in Int /\ s[i].phase \in Int
    BY <1>3, <2>1, NodesTyped
  <2>3. QED
    BY <1>6, <2>1, <2>2
<1>8. s[i] \in ToSet(group)
  BY <1>2, <1>7 DEF Picking
<1>9. \A k \in s[i].dependsOn : k \in KeysOf(ordered)
  <2> SUFFICES ASSUME NEW k \in s[i].dependsOn
               PROVE  k \in KeysOf(ordered)
    OBVIOUS
  <2>1. PICK j2 \in 1..(i - 1) : s[j2].key = k
    BY <1>1 DEF IsOrder
  <2>2. QED
    BY <2>1 DEF KeysOf
<1>10. waits[s[i].key] = 0
  <2>1. Lacks(s[i]) = {}
    BY <1>9 DEF Lacks
  <2>2. waits[s[i].key] = Cardinality(Lacks(s[i]))
    BY <1>8 DEF Picking
  <2>3. QED
    BY <2>1, <2>2, FS_EmptySet
<1>11. PICK r \in DOMAIN group : group[r] = s[i]
  BY <1>8 DEF ToSet
<1>12. r \in Ready
  BY <1>10, <1>11 DEF Ready
<1>13. QED
  BY <1>8, <1>11, <1>12

(* A phase with a cycle has no order.                                      *)
LEMMA StuckNoOrder ==
    ASSUME PlanTypeOK, Resolved, Ordering, Picking, stage = "pick", Ready = {}
    PROVE  Orders = {}
<1> SUFFICES ASSUME NEW s \in Orders
             PROVE  FALSE
  OBVIOUS
<1>1. /\ Len(s) \in Nat /\ s \in [1..Len(s) -> ToSet(nodes)]
      /\ \A n \in ToSet(nodes) : \E j \in 1..Len(s) : s[j] = n
  BY OrdersCover
<1>2. PICK g \in ToSet(nodes) : g \notin ToSet(ordered)
  BY DEF Picking
<1> DEFINE T == {i \in 1..Len(s) : s[i] \notin ToSet(ordered)}
<1>3. T \in SUBSET Nat /\ T # {}
  BY <1>1, <1>2
<1>4. PICK i \in T : \A j \in T : i <= j
  BY <1>3, Least
<1>5. \A j \in 1..(i - 1) : s[j] \in ToSet(ordered)
  <2> SUFFICES ASSUME NEW j \in 1..(i - 1), s[j] \notin ToSet(ordered)
               PROVE  FALSE
    OBVIOUS
  <2>1. j \in T /\ j < i
    BY <1>1
  <2>2. QED
    BY <1>4, <2>1
<1>6. QED
  BY <1>4, <1>5, FirstLeftIsReady

(* The node that is picked.                                                *)
LEMMA PickedNode ==
    ASSUME PlanTypeOK, Picking, stage = "pick", Ready # {}
    PROVE  /\ Min(Ready) \in Ready /\ \A r \in Ready : Min(Ready) <= r
           /\ Min(Ready) \in DOMAIN group
           /\ group[Min(Ready)] \in ToSet(group) /\ group[Min(Ready)] \in PlanNode
           /\ group[Min(Ready)] \notin ToSet(ordered)
           /\ waits[group[Min(Ready)].key] = 0
<1>1. Ready \in SUBSET Nat /\ Ready \subseteq DOMAIN group
  BY NodesTyped DEF Ready
<1>2. Min(Ready) \in Ready /\ \A r \in Ready : Min(Ready) <= r
  BY <1>1, MinIsLeast
<1>3. group[Min(Ready)] \in ToSet(group)
  BY <1>1, <1>2 DEF ToSet
<1>4. QED
  BY <1>1, <1>2, <1>3, NodesTyped DEF Ready

(* An order that agrees with the picks so far goes on with the node that   *)
(* is picked, or with one that comes after it by (Priority, Key).          *)
LEMMA PickIsForemost ==
    ASSUME PlanTypeOK, Resolved, Ordering, Picking, stage = "pick", Ready # {},
           NEW s \in Orders, \A j \in 1..Len(ordered) : s[j] = ordered[j]
    PROVE  \/ s[Len(ordered) + 1] = group[Min(Ready)]
           \/ Precedes(group[Min(Ready)], s[Len(ordered) + 1])
<1> DEFINE i == Len(ordered) + 1
           n == group[Min(Ready)]
<1>1. /\ Len(s) \in Nat /\ DOMAIN s = 1..Len(s) /\ IsInjective(s)
      /\ s \in [1..Len(s) -> ToSet(nodes)]
      /\ \A m \in ToSet(nodes) : \E j \in 1..Len(s) : s[j] = m
  BY OrdersCover
<1>2. Len(ordered) \in Nat /\ DOMAIN ordered = 1..Len(ordered)
  BY NodesTyped
<1>3. n \in ToSet(nodes) /\ n \notin ToSet(ordered)
  BY PickedNode DEF Picking
<1> HIDE DEF n
<1>4. PICK a \in 1..Len(s) : s[a] = n
  BY <1>1, <1>3
<1>5. a \notin 1..Len(ordered)
  BY <1>2, <1>3, <1>4 DEF ToSet
<1>6. i \in 1..Len(s) /\ i - 1 = Len(ordered)
  BY <1>1, <1>2, <1>5
<1>7. s[i] \notin ToSet(ordered)
  <2> SUFFICES ASSUME s[i] \in ToSet(ordered)
               PROVE  FALSE
    OBVIOUS
  <2>1. PICK b \in 1..Len(ordered) : s[i] = ordered[b]
    BY <1>2 DEF ToSet
  <2>2. s[b] = s[i] /\ b \in 1..Len(s) /\ b # i
    BY <1>2, <1>6, <2>1
  <2>3. QED
    BY <1>1, <1>6, <2>2 DEF IsInjective
<1>8. \A j \in 1..(i - 1) : s[j] \in ToSet(ordered)
  BY <1>2, <1>6 DEF ToSet
<1> HIDE DEF i
<1>9. PICK r \in Ready : group[r] = s[i]
  BY <1>6, <1>7, <1>8, FirstLeftIsReady
<1>10. Min(Ready) <= r /\ Min(Ready) \in DOMAIN group
  BY PickedNode
<1>11. r \in DOMAIN group /\ DOMAIN group \subseteq Int
  BY NodesTyped DEF Ready
<1>12. CASE r = Min(Ready)
  BY <1>9, <1>12 DEF n, i
<1>13. CASE Min(Ready) < r
  <2>1. Precedes(group[Min(Ready)], group[r])
    BY <1>10, <1>11, <1>13 DEF Picking
  <2>2. QED
    BY <1>9, <2>1 DEF n, i
<1>14. QED
  BY <1>10, <1>11, <1>12, <1>13

(* What the picked node depends on is among the picks.                     *)
LEMMA PickIsMet ==
    ASSUME PlanTypeOK, Resolved, Ordering, Picking, stage = "pick", Ready # {},
           NEW k \in group[Min(Ready)].dependsOn
    PROVE  \E j \in 1..Len(ordered) : ordered[j].key = k
<1> DEFINE n == group[Min(Ready)]
<1>1. n \in ToSet(group) /\ n \in PlanNode /\ waits[n.key] = 0
  BY PickedNode
<1> HIDE DEF n
<1>2. /\ ~Unmet(n) /\ waits[n.key] = Cardinality(Lacks(n))
      /\ \A m \in ToSet(nodes) : m \in ToSet(group) <=> m.phase = n.phase
      /\ \A m \in ToSet(nodes) \ ToSet(ordered) : n.phase <= m.phase
  BY <1>1 DEF Picking
<1>3. k \in n.dependsOn
  BY DEF n
<1>4. PICK m \in ToSet(nodes) : m.key = k /\ ~(m.phase > n.phase)
  BY <1>2, <1>3 DEF Unmet
<1>5. Lacks(n) = {}
  <2>1. Lacks(n) \in SUBSET Key
    BY <1>1, NodesTyped DEF Lacks
  <2>2. IsFiniteSet(Lacks(n))
    BY <2>1, KeysCounted
  <2>3. QED
    BY <1>1, <1>2, <2>2, FS_EmptySet
<1>6. k \in KeysOf(ordered)
  <2>1. CASE m.phase = n.phase
    <3>1. k \in KeysOf(group)
      BY <1>2, <1>4, <2>1 DEF KeysOf
    <3>2. QED
      BY <1>3, <1>5, <3>1 DEF Lacks
  <2>2. CASE m.phase # n.phase
    <3>1. m.phase \in Int /\ n.phase \in Int
      BY <1>1, <1>4, NodesTyped
    <3>2. m \in ToSet(ordered)
      BY <1>2, <1>4, <2>2, <3>1
    <3>3. QED
      BY <1>4, <3>2 DEF KeysOf
  <2>3. QED
    BY <2>1, <2>2
<1>7. DOMAIN ordered = 1..Len(ordered)
  BY NodesTyped
<1>8. QED
  BY <1>6, <1>7 DEF KeysOf, ToSet

-----------------------------------------------------------------------------
(* The steps of the ordering.                                              *)

(* Backed is about what is applied and released.                           *)
LEMMA BackedStays ==
    ASSUME Backed, applyNodes' = applyNodes, released' = released
    PROVE  Backed'
<1>1. ASSUME NEW k
      PROVE  Waiting(k)' = Waiting(k) /\ Position(k)' = Position(k)
  BY DEF Waiting, Position
<1>2. QED
  BY <1>1 DEF Backed

(* Only the stage changes.                                                 *)
LEMMA RejectKeeps ==
    ASSUME PlanInv, NEW how \in Rejections, Rejects(how),
           how = "conflict" => /\ stage = "declared"
                               /\ \E i, j \in DOMAIN decl : i # j /\ decl[i].key = decl[j].key,
           how = "unordered" => stage \in {"order", "pick"} /\ Orders = {},
           how = "entangled" => stage = "release" /\ \E k \in KeysOf(applyNodes) : k \in Waiting(k)
    PROVE  PlanInv'
<1>1. /\ decl' = decl /\ group' = group /\ waits' = waits /\ released' = released
      /\ nodes' = nodes /\ ordered' = ordered /\ applyNodes' = applyNodes /\ stage' = how
      /\ how \in {"conflict", "unordered", "entangled"}
  BY DEF Rejects, lists, Rejections
<1>2. PlanTypeOK'
  BY <1>1 DEF PlanInv, PlanTypeOK, Rejections
<1>3. Resolved'
  BY <1>1 DEF PlanInv, Resolved
<1>4. Ordering'
  <2>1. Foremost'
    BY <1>1 DEF PlanInv, Ordering, Foremost, Orders
  <2>2. how = "unordered" => (Orders = {})'
    BY <1>1 DEF Orders
  <2>3. QED
    BY <1>1, <2>1, <2>2 DEF PlanInv, Ordering
<1>5. Picking'
  BY <1>1 DEF Picking
<1>6. Releasing'
  <2>1. Backed'
    BY <1>1, BackedStays DEF PlanInv, Releasing
  <2>2. how = "entangled" => (\E k \in KeysOf(applyNodes) : k \in Waiting(k))'
    BY <1>1 DEF Waiting
  <2>3. QED
    BY <1>1, <2>1, <2>2 DEF PlanInv, Releasing
<1>7. QED
  BY <1>2, <1>3, <1>4, <1>5, <1>6 DEF PlanInv

(* Two declarations of a key that nothing settles.                         *)
LEMMA ConflictKeeps ==
    ASSUME PlanInv, Conflict
    PROVE  PlanInv'
<1>1. PICK k \in KeysOf(decl) : ~Settles(k)
  BY DEF Conflict
<1>2. \E i, j \in DOMAIN decl : i # j /\ decl[i].key = decl[j].key
  BY <1>1, UnsettledTwice DEF PlanInv
<1>3. QED
  BY <1>2, RejectKeeps DEF Conflict, Rejections

(* A dependency that cannot be met.                                        *)
LEMMA PhaseFailsKeeps ==
    ASSUME PlanInv, PhaseFails
    PROVE  PlanInv'
<1>1. PICK n \in ToSet(InPhase(Min(Left))) : Unmet(n)
  BY DEF PhaseFails
<1>2. n \in ToSet(nodes)
  BY InPhaseIs DEF PlanInv
<1>3. Orders = {}
  BY <1>1, <1>2, UnmetNoOrder DEF PlanInv
<1>4. QED
  BY <1>3, RejectKeeps DEF PhaseFails, Rejections

(* A cycle of dependencies.                                                *)
LEMMA CycleKeeps ==
    ASSUME PlanInv, Cycle
    PROVE  PlanInv'
<1>1. Orders = {}
  BY StuckNoOrder DEF PlanInv, Cycle
<1>2. QED
  BY <1>1, RejectKeeps DEF Cycle, Rejections

(* The conflicts are settled.                                              *)
LEMMA ResolveKeeps ==
    ASSUME PlanInv, Resolve
    PROVE  PlanInv'
<1>1. /\ stage = "declared" /\ stage' = "order" /\ nodes' = Survivors
      /\ decl' = decl /\ group' = group /\ waits' = waits /\ released' = released
      /\ ordered' = ordered /\ applyNodes' = applyNodes
  BY DEF Resolve
<1>2. /\ Survivors \in Seq(PlanNode)
      /\ IsInjective(Survivors) /\ Keyed(ToSet(Survivors))
      /\ KeysOf(Survivors) = KeysOf(decl)
      /\ \A i \in DOMAIN decl : decl[i].override => decl[i] \in ToSet(Survivors)
  BY SurvivorsAre DEF PlanInv, Resolve
<1>3. /\ ordered = <<>> /\ applyNodes = <<>> /\ released = <<>>
      /\ ToSet(ordered) = {} /\ ToSet(applyNodes) = {}
  BY <1>1 DEF PlanInv, Ordering, Releasing, ToSet
<1>4. PlanTypeOK'
  BY <1>1, <1>2 DEF PlanInv, PlanTypeOK
<1>5. Resolved'
  BY <1>1, <1>2 DEF Resolved
<1>6. Ordering'
  <2>1. ToSet(ordered') = {} /\ DOMAIN ordered' = {}
    BY <1>1, <1>3
  <2>2. Foremost'
    BY <2>1 DEF Foremost
  <2>3. IsOrder(ordered') /\ IsInjective(ordered')
    BY <2>1 DEF IsOrder, IsInjective
  <2>4. QED
    BY <1>1, <2>1, <2>2, <2>3 DEF Ordering
<1>7. Picking'
  BY <1>1 DEF Picking
<1>8. Releasing'
  <2>1. Backed'
    BY <1>1, BackedStays DEF PlanInv, Releasing
  <2>2. QED
    BY <1>1, <1>3, <2>1 DEF PlanInv, Releasing
<1>9. QED
  BY <1>4, <1>5, <1>6, <1>7, <1>8 DEF PlanInv

(* A phase begins: its dependencies can be met, and indeg counts those     *)
(* inside the phase.                                                       *)
LEMMA PhaseBeginsKeeps ==
    ASSUME PlanInv, PhaseBegins
    PROVE  PlanInv'
<1> DEFINE p == Min(Left)
           s == InPhase(p)
           Counted(k) == KeysOf(s) \cap UNION {n.dependsOn : n \in {m \in ToSet(s) : m.key = k}}
<1>1. /\ stage = "order" /\ stage' = "pick" /\ Left # {} /\ group' = Sorted(s)
      /\ waits' = [k \in KeysOf(s) |-> Cardinality(Counted(k))]
      /\ \A n \in ToSet(s) : ~Unmet(n)
      /\ decl' = decl /\ nodes' = nodes /\ released' = released
      /\ ordered' = ordered /\ applyNodes' = applyNodes
  BY DEF PhaseBegins, lists
<1>2. /\ s \in Seq(PlanNode) /\ ToSet(s) = {n \in ToSet(nodes) : n.phase = p}
      /\ IsInjective(s) /\ Keyed(ToSet(s))
  BY InPhaseIs DEF PlanInv
<1>3. /\ p \in Nat
      /\ \E n \in ToSet(nodes) \ ToSet(ordered) : n.phase = p
      /\ \A n \in ToSet(nodes) \ ToSet(ordered) : p <= n.phase
  BY <1>1, NextPhase DEF PlanInv
<1> HIDE DEF s, p
<1>4. /\ group' \in Seq(PlanNode) /\ ToSet(group') = ToSet(s)
      /\ \A i, j \in DOMAIN group' : i < j => Precedes(group'[i], group'[j])
  BY <1>1, <1>2, SortedIs
<1>5. KeysOf(group') = KeysOf(s) /\ KeysOf(s) \subseteq Key /\ ToSet(s) \subseteq PlanNode
  <2>1. KeysOf(group') = KeysOf(s)
    BY <1>4 DEF KeysOf
  <2>2. ToSet(s) \subseteq PlanNode
    BY <1>2 DEF ToSet
  <2>3. KeysOf(s) \subseteq Key
    BY <2>2, NodesTyped DEF KeysOf, PlanInv
  <2>4. QED
    BY <2>1, <2>2, <2>3
<1>6. PlanTypeOK'
  <2>1. \A k \in KeysOf(s) : Cardinality(Counted(k)) \in 0..Cardinality(Key)
    <3>1. \A k \in KeysOf(s) : Counted(k) \in SUBSET Key
      BY <1>5
    <3>2. QED
      BY <3>1, KeysCounted
  <2> HIDE DEF Counted
  <2>2. \A k \in DOMAIN waits' : k \in Key /\ waits'[k] \in 0..Cardinality(Key)
    BY <1>1, <1>5, <2>1
  <2>3. QED
    BY <1>1, <1>4, <2>2 DEF PlanInv, PlanTypeOK
<1>7. Resolved'
  BY <1>1 DEF PlanInv, Resolved
<1>8. Ordering'
  <2>1. Foremost'
    BY <1>1 DEF PlanInv, Ordering, Foremost, Orders
  <2>2. QED
    BY <1>1, <2>1 DEF PlanInv, Ordering
<1>9. ASSUME NEW g \in ToSet(s)
      PROVE  waits'[g.key] = Cardinality((g.dependsOn \cap KeysOf(group')) \ KeysOf(ordered))
  <2>1. g.key \in KeysOf(s) /\ {m \in ToSet(s) : m.key = g.key} = {g}
    BY <1>2 DEF KeysOf, Keyed
  <2>2. Counted(g.key) = KeysOf(s) \cap g.dependsOn
    BY <2>1
  <2>3. KeysOf(s) \cap KeysOf(ordered) = {}
    <3> SUFFICES ASSUME NEW n \in ToSet(s), NEW m \in ToSet(ordered), n.key = m.key
                 PROVE  FALSE
      BY DEF KeysOf
    <3>1. n \in ToSet(nodes) /\ m \in ToSet(nodes) /\ n.phase = p
      BY <1>2 DEF PlanInv, Ordering
    <3>2. n = m
      BY <3>1 DEF PlanInv, Resolved, Keyed
    <3>3. PICK l \in ToSet(nodes) \ ToSet(ordered) : l.phase = p
      BY <1>3
    <3>4. m.phase < l.phase
      BY <1>1, <3>3 DEF PlanInv, Ordering
    <3>5. QED
      BY <1>3, <3>1, <3>2, <3>3, <3>4
  <2>4. (g.dependsOn \cap KeysOf(group')) \ KeysOf(ordered) = Counted(g.key)
    BY <1>5, <2>2, <2>3
  <2> HIDE DEF Counted
  <2>5. waits'[g.key] = Cardinality(Counted(g.key))
    BY <1>1, <2>1
  <2>6. QED
    BY <2>4, <2>5
<1>10. Picking'
  <2>1. DOMAIN waits' = KeysOf(group')
    BY <1>1, <1>5
  <2>2. \E g \in ToSet(group') : g \notin ToSet(ordered')
    BY <1>1, <1>2, <1>3, <1>4
  <2>3. ASSUME NEW g \in ToSet(s)
        PROVE  /\ g \in ToSet(nodes) /\ g.phase = p
               /\ \A n \in ToSet(nodes) : n \in ToSet(s) <=> n.phase = g.phase
               /\ \A n \in ToSet(nodes) \ ToSet(ordered) : g.phase <= n.phase
    BY <1>2, <1>3
  <2>4. \A g \in ToSet(s) : \A n \in ToSet(ordered) : n.phase <= g.phase
    <3> SUFFICES ASSUME NEW g \in ToSet(s), NEW n \in ToSet(ordered)
                 PROVE  n.phase <= g.phase
      OBVIOUS
    <3>1. PICK l \in ToSet(nodes) \ ToSet(ordered) : l.phase = p
      BY <1>3
    <3>2. n.phase < l.phase
      BY <1>1, <3>1 DEF PlanInv, Ordering
    <3>3. n.phase \in Int
      BY NodesTyped DEF PlanInv
    <3>4. QED
      BY <1>3, <2>3, <3>1, <3>2, <3>3
  <2>5. \A g \in ToSet(s) : ~Unmet(g)'
    BY <1>1 DEF Unmet
  <2>6. QED
    BY <1>1, <1>4, <1>9, <2>1, <2>2, <2>3, <2>4, <2>5 DEF Picking, Lacks
<1>11. Releasing'
  <2>1. Backed'
    BY <1>1, BackedStays DEF PlanInv, Releasing
  <2>2. QED
    BY <1>1, <2>1 DEF PlanInv, Releasing
<1>12. QED
  BY <1>6, <1>7, <1>8, <1>10, <1>11 DEF PlanInv

(* The counts after a pick: whoever waited for the node waits for one less. *)
LEMMA PickCounts ==
    ASSUME PlanInv, Pick
    PROVE  /\ PlanTypeOK'
           /\ DOMAIN waits' = KeysOf(group)
           /\ \A g \in ToSet(group) : waits'[g.key] = Cardinality(Lacks(g)')
<1> DEFINE n == group[Min(Ready)]
           Waits(k) == \E m \in ToSet(group) : m.key = k /\ n.key \in m.dependsOn
<1>1. /\ stage = "pick" /\ Ready # {} /\ ordered' = Append(ordered, n)
      /\ waits' = [k \in DOMAIN waits |-> IF Waits(k) THEN waits[k] - 1 ELSE waits[k]]
      /\ stage' \in {"order", "pick"}
      /\ decl' = decl /\ group' = group /\ nodes' = nodes
      /\ applyNodes' = applyNodes /\ released' = released
  BY DEF Pick
<1>2. n \in ToSet(group) /\ n \in PlanNode /\ n \notin ToSet(ordered)
  BY <1>1, PickedNode DEF PlanInv
<1> HIDE DEF n
<1>3. /\ ordered \in Seq(PlanNode) /\ group \in Seq(PlanNode) /\ ToSet(group) \subseteq PlanNode
      /\ ToSet(ordered) \subseteq ToSet(nodes) /\ ToSet(group) \subseteq ToSet(nodes)
      /\ KeysOf(group) \subseteq Key
      /\ Keyed(ToSet(nodes)) /\ DOMAIN waits = KeysOf(group)
  BY <1>1, NodesTyped DEF PlanInv, Ordering, Resolved, Picking
<1>4. ordered' \in Seq(PlanNode) /\ ToSet(ordered') = ToSet(ordered) \cup {n}
  BY <1>1, <1>2, <1>3, AppendElements
<1>5. n.key \notin KeysOf(ordered) /\ n.key \in KeysOf(group)
  BY <1>2, <1>3, KeyApart DEF KeysOf
<1>6. KeysOf(ordered') = KeysOf(ordered) \cup {n.key}
  BY <1>4 DEF KeysOf
<1>7. ASSUME NEW g \in ToSet(group)
      PROVE  /\ waits[g.key] = Cardinality(Lacks(g)) /\ Lacks(g) \in SUBSET Key
             /\ IsFiniteSet(Lacks(g))
             /\ Lacks(g)' = Lacks(g) \ {n.key}
             /\ Waits(g.key) <=> n.key \in Lacks(g)
  <2>1. waits[g.key] = Cardinality(Lacks(g))
    BY <1>1 DEF PlanInv, Picking
  <2>2. Lacks(g) \in SUBSET Key
    BY <1>3 DEF Lacks
  <2>3. Lacks(g)' = (g.dependsOn \cap KeysOf(group)) \ KeysOf(ordered')
    BY <1>1 DEF Lacks
  <2>4. Lacks(g)' = Lacks(g) \ {n.key}
    BY <1>6, <2>3 DEF Lacks
  <2>5. \A m \in ToSet(group) : m.key = g.key => m = g
    BY <1>3 DEF Keyed
  <2>6. Waits(g.key) <=> n.key \in g.dependsOn
    BY <2>5
  <2>7. n.key \in Lacks(g) <=> n.key \in g.dependsOn
    BY <1>5 DEF Lacks
  <2>8. QED
    BY <2>1, <2>2, <2>4, <2>6, <2>7, KeysCounted
<1> HIDE DEF Waits
<1>8. ASSUME NEW g \in ToSet(group)
      PROVE  waits'[g.key] = Cardinality(Lacks(g)')
  <2>1. g.key \in DOMAIN waits
    BY <1>3 DEF KeysOf
  <2>2. waits'[g.key] = IF Waits(g.key) THEN waits[g.key] - 1 ELSE waits[g.key]
    BY <1>1, <2>1
  <2>3. Cardinality(Lacks(g) \ {n.key}) =
            IF n.key \in Lacks(g) THEN Cardinality(Lacks(g)) - 1 ELSE Cardinality(Lacks(g))
    BY <1>7, FS_RemoveElement
  <2>4. QED
    BY <1>7, <2>2, <2>3
<1>9. \A k \in KeysOf(group) : waits'[k] \in 0..Cardinality(Key)
  <2> SUFFICES ASSUME NEW g \in ToSet(group)
               PROVE  waits'[g.key] \in 0..Cardinality(Key)
    BY DEF KeysOf
  <2>1. Lacks(g)' \in SUBSET Key
    BY <1>7
  <2>2. QED
    BY <1>8, <2>1, KeysCounted
<1>10. DOMAIN waits' = KeysOf(group)
  BY <1>1, <1>3
<1>11. PlanTypeOK'
  BY <1>1, <1>3, <1>4, <1>9, <1>10 DEF PlanInv, PlanTypeOK
<1>12. QED
  BY <1>8, <1>10, <1>11

(* A pick goes on with an order, and with the first one.                   *)
LEMMA PickKeeps ==
    ASSUME PlanInv, Pick
    PROVE  PlanInv'
<1> DEFINE n == group[Min(Ready)]
<1>1. /\ stage = "pick" /\ Ready # {} /\ ordered' = Append(ordered, n)
      /\ stage' = IF ToSet(group) \subseteq ToSet(ordered') THEN "order" ELSE "pick"
      /\ decl' = decl /\ group' = group /\ nodes' = nodes
      /\ applyNodes' = applyNodes /\ released' = released
  BY DEF Pick
<1>2. n \in ToSet(group) /\ n \in PlanNode /\ n \notin ToSet(ordered)
  BY <1>1, PickedNode DEF PlanInv
<1>3. \A k \in n.dependsOn : \E j \in 1..Len(ordered) : ordered[j].key = k
  BY <1>1, PickIsMet DEF PlanInv
<1>4. \A s \in Orders : (\A j \in 1..Len(ordered) : s[j] = ordered[j]) =>
          s[Len(ordered) + 1] = n \/ Precedes(n, s[Len(ordered) + 1])
  BY <1>1, PickIsForemost DEF PlanInv
<1> HIDE DEF n
<1>5. /\ n \in ToSet(nodes)
      /\ \A m \in ToSet(nodes) : m \in ToSet(group) <=> m.phase = n.phase
      /\ \A m \in ToSet(nodes) \ ToSet(ordered) : n.phase <= m.phase
      /\ \A m \in ToSet(ordered) : m.phase <= n.phase
  BY <1>1, <1>2 DEF PlanInv, Picking
<1>6. /\ ordered \in Seq(PlanNode) /\ Len(ordered) \in Nat /\ DOMAIN ordered = 1..Len(ordered)
      /\ IsInjective(ordered) /\ ToSet(ordered) \subseteq ToSet(nodes)
  BY NodesTyped DEF PlanInv, Ordering
<1>7. /\ ordered' \in Seq(PlanNode) /\ Len(ordered') = Len(ordered) + 1
      /\ \A i \in 1..Len(ordered) : ordered'[i] = ordered[i]
      /\ ordered'[Len(ordered) + 1] = n
      /\ ToSet(ordered') = ToSet(ordered) \cup {n}
      /\ IsInjective(ordered')
  BY <1>1, <1>2, <1>6, AppendElements
<1>8. DOMAIN ordered' = 1..(Len(ordered) + 1)
  BY <1>7
<1>9. IsOrder(ordered')
  <2>1. ASSUME NEW i \in DOMAIN ordered', NEW j \in DOMAIN ordered', i < j
        PROVE  ordered'[i].phase <= ordered'[j].phase
    <3>1. i \in 1..Len(ordered)
      BY <1>6, <1>8, <2>1
    <3>2. CASE j \in 1..Len(ordered)
      BY <1>6, <1>7, <2>1, <3>1, <3>2 DEF PlanInv, Ordering, IsOrder
    <3>3. CASE j = Len(ordered) + 1
      BY <1>5, <1>6, <1>7, <3>1, <3>3 DEF ToSet
    <3>4. QED
      BY <1>6, <1>8, <3>2, <3>3
  <2>2. ASSUME NEW i \in DOMAIN ordered', NEW k \in ordered'[i].dependsOn
        PROVE  \E j \in 1..(i - 1) : ordered'[j].key = k
    <3>1. CASE i \in 1..Len(ordered)
      <4>1. PICK j \in 1..(i - 1) : ordered[j].key = k
        BY <1>6, <1>7, <2>2, <3>1 DEF PlanInv, Ordering, IsOrder
      <4>2. j \in 1..Len(ordered)
        BY <1>6, <3>1
      <4>3. QED
        BY <1>7, <4>1, <4>2
    <3>2. CASE i = Len(ordered) + 1
      <4>1. PICK j \in 1..Len(ordered) : ordered[j].key = k
        BY <1>3, <1>7, <2>2, <3>2
      <4>2. j \in 1..(i - 1)
        BY <1>6, <3>2
      <4>3. QED
        BY <1>7, <4>1, <4>2
    <3>3. QED
      BY <1>6, <1>8, <3>1, <3>2
  <2>3. QED
    BY <2>1, <2>2 DEF IsOrder
<1>10. Foremost'
  <2>1. Orders' = Orders
    BY <1>1 DEF Orders
  <2>2. ASSUME NEW s \in Orders, NEW i \in DOMAIN ordered',
               \A j \in 1..(i - 1) : s[j] = ordered'[j]
        PROVE  s[i] = ordered'[i] \/ Precedes(ordered'[i], s[i])
    <3>1. CASE i \in 1..Len(ordered)
      <4>1. \A j \in 1..(i - 1) : s[j] = ordered[j]
        BY <1>6, <1>7, <2>2, <3>1
      <4>2. QED
        BY <1>6, <1>7, <3>1, <4>1 DEF PlanInv, Ordering, Foremost
    <3>2. CASE i = Len(ordered) + 1
      <4>1. \A j \in 1..Len(ordered) : s[j] = ordered[j]
        BY <1>6, <1>7, <2>2, <3>2
      <4>2. QED
        BY <1>4, <1>7, <3>2, <4>1
    <3>3. QED
      BY <1>6, <1>8, <3>1, <3>2
  <2>3. QED
    BY <2>1, <2>2 DEF Foremost
<1>11. Ordering'
  <2>1. ASSUME stage' = "order", NEW l \in ToSet(nodes) \ ToSet(ordered'), NEW m \in ToSet(ordered')
        PROVE  m.phase < l.phase
    <3>1. ToSet(group) \subseteq ToSet(ordered')
      BY <1>1, <2>1
    <3>2. l \notin ToSet(group) /\ l \notin ToSet(ordered)
      BY <1>7, <2>1, <3>1
    <3>3. n.phase <= l.phase /\ n.phase # l.phase
      BY <1>5, <2>1, <3>2
    <3>4. m.phase <= n.phase
      BY <1>2, <1>5, <1>7, NodesTyped DEF PlanInv
    <3>5. m \in PlanNode /\ l \in PlanNode
      BY <1>2, <1>7, NodesTyped DEF PlanInv
    <3>6. m.phase \in Int /\ n.phase \in Int /\ l.phase \in Int
      BY <1>2, <3>5, NodesTyped DEF PlanInv
    <3>7. QED
      BY <3>3, <3>4, <3>6
  <2>2. ToSet(ordered') \subseteq ToSet(nodes)
    BY <1>5, <1>6, <1>7
  <2>3. stage' \in {"order", "pick"}
    BY <1>1
  <2>4. QED
    BY <1>1, <1>7, <1>9, <1>10, <2>1, <2>2, <2>3 DEF Ordering
<1>12. Picking'
  <2> SUFFICES ASSUME stage' = "pick"
               PROVE  Picking'
    BY DEF Picking
  <2>1. /\ DOMAIN waits' = KeysOf(group)
        /\ \A g \in ToSet(group) : waits'[g.key] = Cardinality(Lacks(g)')
    BY PickCounts
  <2>2. \E g \in ToSet(group) : g \notin ToSet(ordered')
    BY <1>1
  <2>3. \A g \in ToSet(group) :
              /\ g \in ToSet(nodes) /\ ~Unmet(g)
              /\ \A m \in ToSet(nodes) : m \in ToSet(group) <=> m.phase = g.phase
              /\ \A m \in ToSet(nodes) \ ToSet(ordered) : g.phase <= m.phase
              /\ \A m \in ToSet(ordered) : m.phase <= g.phase
    BY <1>1 DEF PlanInv, Picking
  <2>4. \A g \in ToSet(group) : ~Unmet(g)'
    BY <1>1, <2>3 DEF Unmet
  <2>5. \A g \in ToSet(group) : \A m \in ToSet(ordered') : m.phase <= g.phase
    <3>1. \A g \in ToSet(group) : n.phase = g.phase /\ g.phase \in Int
      BY <1>5, <2>3, NodesTyped DEF PlanInv
    <3>2. QED
      BY <1>7, <2>3, <3>1
  <2>6. \A i, j \in DOMAIN group : i < j => Precedes(group[i], group[j])
    BY <1>1 DEF PlanInv, Picking
  <2>7. QED
    BY <1>1, <1>7, <2>1, <2>2, <2>3, <2>4, <2>5, <2>6 DEF Picking
<1>13. Resolved'
  BY <1>1 DEF PlanInv, Resolved
<1>14. Releasing'
  <2>1. Backed'
    BY <1>1, BackedStays DEF PlanInv, Releasing
  <2>2. QED
    BY <1>1, <2>1 DEF PlanInv, Releasing
<1>15. QED
  BY <1>11, <1>12, <1>13, <1>14, PickCounts DEF PlanInv

-----------------------------------------------------------------------------
(* What waits for what in the teardown.                                    *)

\* S has what k names and what its own members name.
WaitClosed(S, k) ==
    \A n \in ToSet(applyNodes) : n.key \in S \cup {k} => After(n, applyNodes) \subseteq S

(* Waiting(k) has what k names and what its members name, and no more.     *)
LEMMA WaitingClosed ==
    ASSUME NEW k
    PROVE  /\ Waiting(k) \subseteq KeysOf(applyNodes)
           /\ WaitClosed(Waiting(k), k)
           /\ \A S \in SUBSET KeysOf(applyNodes) : WaitClosed(S, k) => Waiting(k) \subseteq S
<1>1. Waiting(k) = {j \in KeysOf(applyNodes) :
                        \A S \in SUBSET KeysOf(applyNodes) : WaitClosed(S, k) => j \in S}
  BY DEF Waiting, WaitClosed
<1>2. ASSUME NEW n \in ToSet(applyNodes), n.key \in Waiting(k) \cup {k},
             NEW j \in After(n, applyNodes)
      PROVE  j \in Waiting(k)
  <2>1. j \in KeysOf(applyNodes)
    BY DEF After
  <2>2. ASSUME NEW S \in SUBSET KeysOf(applyNodes), WaitClosed(S, k)
        PROVE  j \in S
    <3>1. n.key \in S \cup {k}
      BY <1>1, <1>2, <2>2
    <3>2. QED
      BY <2>2, <3>1 DEF WaitClosed
  <2>3. QED
    BY <1>1, <2>1, <2>2
<1>3. WaitClosed(Waiting(k), k)
  BY <1>2 DEF WaitClosed
<1>4. QED
  BY <1>1, <1>3

(* Who waits for one that waits waits as well.                             *)
LEMMA WaitingTrans ==
    ASSUME NEW k, NEW j \in Waiting(k)
    PROVE  Waiting(j) \subseteq Waiting(k)
<1>1. Waiting(k) \in SUBSET KeysOf(applyNodes) /\ WaitClosed(Waiting(k), k)
  BY WaitingClosed
<1>2. WaitClosed(Waiting(k), j)
  BY <1>1 DEF WaitClosed
<1>3. QED
  BY <1>1, <1>2, WaitingClosed

(* Where each of some keys waits for another of them, one waits for itself. *)
LEMMA Knot ==
    ASSUME NEW U, IsFiniteSet(U), U # {},
           \A u \in U : \E j \in U : j \in Waiting(u)
    PROVE  \E u \in U : u \in Waiting(u)
<1> DEFINE W(u) == Waiting(u) \cap U
           Ws == {V \in FiniteSubsetsOf(U) : \E u \in U : V = W(u)}
<1>1. ASSUME NEW u \in U
      PROVE  W(u) \in Ws
  <2>1. IsFiniteSet(W(u)) /\ W(u) \subseteq U
    BY FS_Subset
  <2>2. QED
    BY <2>1 DEF FiniteSubsetsOf
<1>2. Ws \subseteq FiniteSubsetsOf(U) /\ Ws # {}
  BY <1>1
<1> HIDE DEF Ws
<1>3. PICK V \in Ws : \A X \in Ws : <<X, V>> \notin StrictSubsetOrdering(U)
  BY <1>2, FS_StrictSubsetOrderingWellFounded, WFMin
<1>4. PICK u \in U : V = W(u)
  BY <1>3 DEF Ws
<1>5. PICK j \in U : j \in Waiting(u)
  OBVIOUS
<1>6. W(j) \subseteq W(u)
  BY <1>5, WaitingTrans
<1>7. W(j) = W(u)
  <2>1. <<W(j), W(u)>> \notin StrictSubsetOrdering(U)
    BY <1>1, <1>3, <1>4
  <2>2. W(j) \in SUBSET U /\ W(u) \in SUBSET U
    OBVIOUS
  <2> HIDE DEF W
  <2>3. QED
    BY <1>6, <2>1, <2>2 DEF StrictSubsetOrdering
<1>8. j \in Waiting(j)
  BY <1>5, <1>7
<1>9. QED
  BY <1>8

(* The place of a node in the application.                                 *)
LEMMA PositionIs ==
    ASSUME PlanInv, NEW i \in DOMAIN applyNodes
    PROVE  /\ Position(applyNodes[i].key) = i
           /\ applyNodes[i] \in ToSet(applyNodes) /\ applyNodes[i].key \in KeysOf(applyNodes)
<1>1. IsInjective(applyNodes) /\ ToSet(applyNodes) \subseteq ToSet(nodes) /\ Keyed(ToSet(nodes))
  BY DEF PlanInv, Resolved, Releasing
<1>2. \A j \in DOMAIN applyNodes : applyNodes[j] \in ToSet(applyNodes)
  BY DEF ToSet
<1>3. \A j \in DOMAIN applyNodes : applyNodes[j].key = applyNodes[i].key => j = i
  BY <1>1, <1>2 DEF Keyed, IsInjective
<1>4. Position(applyNodes[i].key) = i
  BY <1>3 DEF Position
<1>5. QED
  BY <1>2, <1>4 DEF KeysOf

(* Every key that is applied has its place.                                *)
LEMMA Placed ==
    ASSUME PlanInv, NEW k \in KeysOf(applyNodes)
    PROVE  /\ Position(k) \in DOMAIN applyNodes /\ Position(k) \in Int
           /\ applyNodes[Position(k)].key = k
<1>1. PICK i \in DOMAIN applyNodes : applyNodes[i].key = k
  BY DEF KeysOf, ToSet
<1>2. Position(k) = i
  BY <1>1, PositionIs
<1>3. DOMAIN applyNodes \subseteq Int
  BY NodesTyped DEF PlanInv
<1>4. QED
  BY <1>1, <1>2, <1>3

(* As many keys are applied as nodes.                                      *)
LEMMA KeysLength ==
    ASSUME PlanInv
    PROVE  Cardinality(KeysOf(applyNodes)) = Len(applyNodes)
<1> DEFINE s == [i \in DOMAIN applyNodes |-> applyNodes[i].key]
<1>1. /\ applyNodes \in Seq(PlanNode) /\ Len(applyNodes) \in Nat
      /\ DOMAIN applyNodes = 1..Len(applyNodes)
  BY NodesTyped DEF PlanInv
<1>2. \A i \in DOMAIN applyNodes : applyNodes[i].key \in Key
  BY <1>1, NodesTyped DEF PlanInv
<1>3. s \in Seq(Key) /\ Len(s) = Len(applyNodes) /\ DOMAIN s = DOMAIN applyNodes
  BY <1>1, <1>2
<1>4. \A i, j \in DOMAIN applyNodes : applyNodes[i].key = applyNodes[j].key => i = j
  <2> SUFFICES ASSUME NEW i \in DOMAIN applyNodes, NEW j \in DOMAIN applyNodes,
                      applyNodes[i].key = applyNodes[j].key
               PROVE  i = j
    OBVIOUS
  <2>1. Position(applyNodes[i].key) = i /\ Position(applyNodes[j].key) = j
    BY PositionIs
  <2>2. QED
    BY <2>1
<1>5. IsInjective(s)
  BY <1>3, <1>4 DEF IsInjective
<1>6. ToSet(s) = KeysOf(applyNodes)
  BY <1>3 DEF ToSet, KeysOf
<1> HIDE DEF s
<1>7. Cardinality(ToSet(s)) = Len(s)
  BY <1>3, <1>5, InjectiveLength
<1>8. QED
  BY <1>3, <1>6, <1>7

(* The teardown is complete when it is as long as the application.         *)
LEMMA AllReleased ==
    ASSUME PlanInv, NEW s \in Seq(Key), IsInjective(s), ToSet(s) \subseteq KeysOf(applyNodes)
    PROVE  Len(s) = Len(applyNodes) <=> KeysOf(applyNodes) \subseteq ToSet(s)
<1>1. IsFiniteSet(ToSet(s)) /\ Cardinality(ToSet(s)) = Len(s)
  BY InjectiveLength
<1>2. Cardinality(KeysOf(applyNodes)) = Len(applyNodes)
  BY KeysLength
<1>3. IsFiniteSet(KeysOf(applyNodes))
  <2>1. KeysOf(applyNodes) \in SUBSET Key
    BY NodesTyped DEF PlanInv
  <2>2. QED
    BY <2>1, KeysCounted
<1>4. Cardinality(ToSet(s)) = Cardinality(KeysOf(applyNodes)) => ToSet(s) = KeysOf(applyNodes)
  BY <1>3, FS_Subset
<1>5. KeysOf(applyNodes) \subseteq ToSet(s) => ToSet(s) = KeysOf(applyNodes)
  OBVIOUS
<1>6. QED
  BY <1>1, <1>2, <1>4, <1>5

(* indeg is zero exactly if all that a node names is released.             *)
LEMMA FreeIs ==
    ASSUME PlanInv, stage = "release", NEW i \in DOMAIN applyNodes,
           applyNodes[i].key \notin ToSet(released)
    PROVE  i \in Free <=> After(applyNodes[i], applyNodes) \subseteq ToSet(released)
<1> DEFINE n == applyNodes[i]
<1>1. n \in ToSet(applyNodes)
  BY PositionIs
<1>2. waits[n.key] = Cardinality(Owes(n))
  BY <1>1 DEF PlanInv, Releasing
<1>3. Owes(n) \in SUBSET Key
  BY NodesTyped DEF PlanInv, Owes, After
<1>4. IsFiniteSet(Owes(n))
  BY <1>3, KeysCounted
<1>5. waits[n.key] = 0 <=> Owes(n) = {}
  BY <1>2, <1>4, FS_EmptySet
<1>6. Owes(n) = {} <=> After(n, applyNodes) \subseteq ToSet(released)
  BY DEF Owes
<1>7. QED
  BY <1>5, <1>6 DEF Free

(* A node that is left and not free waits for another one that is left.    *)
LEMMA OwesSome ==
    ASSUME PlanInv, stage = "release", NEW i \in DOMAIN applyNodes, i \notin Free,
           applyNodes[i].key \notin ToSet(released)
    PROVE  \E j \in Waiting(applyNodes[i].key) : j \notin ToSet(released)
<1>1. PICK j \in After(applyNodes[i], applyNodes) : j \notin ToSet(released)
  BY FreeIs
<1>2. applyNodes[i] \in ToSet(applyNodes)
  BY PositionIs
<1>3. j \in Waiting(applyNodes[i].key)
  BY <1>2, WaitingClosed DEF WaitClosed
<1>4. QED
  BY <1>1, <1>3

(* What a released key waits for was released before it.                   *)
LEMMA WaitedEarlier ==
    ASSUME PlanTypeOK, Backed, NEW x \in DOMAIN released
    PROVE  Waiting(released[x]) \subseteq {released[y] : y \in 1..(x - 1)}
<1> DEFINE S == {released[y] : y \in 1..(x - 1)}
<1>1. released \in Seq(Key) /\ Len(released) \in Nat /\ DOMAIN released = 1..Len(released)
  BY DEF PlanTypeOK
<1>2. \A y \in 1..(x - 1) : y \in DOMAIN released
  BY <1>1
<1>3. S \in SUBSET KeysOf(applyNodes)
  BY <1>2 DEF Backed, ToSet
<1>4. ASSUME NEW n \in ToSet(applyNodes), n.key \in S \cup {released[x]}
      PROVE  After(n, applyNodes) \subseteq S
  <2>1. PICK y \in 1..x : n.key = released[y]
    BY <1>1, <1>4
  <2>2. y \in DOMAIN released
    BY <1>1
  <2>3. After(n, applyNodes) \subseteq {released[z] : z \in 1..(y - 1)}
    BY <2>1, <2>2 DEF Backed
  <2>4. 1..(y - 1) \subseteq 1..(x - 1)
    BY <1>1
  <2>5. QED
    BY <2>3, <2>4
<1>5. WaitClosed(S, released[x])
  BY <1>4 DEF WaitClosed
<1>6. QED
  BY <1>3, <1>5, WaitingClosed

-----------------------------------------------------------------------------
(* The steps of the teardown.                                              *)

(* Two lists with nothing in common, one after the other.                  *)
LEMMA ConcatInjective ==
    ASSUME NEW S, NEW s \in Seq(S), NEW t \in Seq(S)
    PROVE  /\ s \o t \in Seq(S)
           /\ ToSet(s \o t) = ToSet(s) \cup ToSet(t)
           /\ IsInjective(s) /\ IsInjective(t) /\ ToSet(s) \cap ToSet(t) = {}
                 => IsInjective(s \o t)
<1> DEFINE u == s \o t
<1>1. /\ Len(s) \in Nat /\ Len(t) \in Nat
      /\ DOMAIN s = 1..Len(s) /\ DOMAIN t = 1..Len(t)
      /\ u \in Seq(S) /\ Len(u) = Len(s) + Len(t) /\ DOMAIN u = 1..(Len(s) + Len(t))
      /\ \A i \in 1..Len(s) : u[i] = s[i]
      /\ \A i \in DOMAIN u : i > Len(s) => u[i] = t[i - Len(s)]
  BY ConcatProperties
<1> HIDE DEF u
<1>2. \A i \in 1..Len(t) : u[Len(s) + i] = t[i] /\ Len(s) + i \in DOMAIN u
  <2> TAKE i \in 1..Len(t)
  <2>1. Len(s) + i \in DOMAIN u /\ Len(s) + i > Len(s) /\ (Len(s) + i) - Len(s) = i
    BY <1>1
  <2>2. QED
    BY <1>1, <2>1
<1>3. ASSUME NEW i \in DOMAIN u
      PROVE  \/ i \in 1..Len(s) /\ u[i] = s[i]
             \/ i > Len(s) /\ i - Len(s) \in 1..Len(t) /\ u[i] = t[i - Len(s)]
  BY <1>1
<1>4. ToSet(u) = ToSet(s) \cup ToSet(t)
  <2>1. ASSUME NEW x \in ToSet(u)
        PROVE  x \in ToSet(s) \cup ToSet(t)
    <3>1. PICK i \in DOMAIN u : x = u[i]
      BY <2>1 DEF ToSet
    <3>2. QED
      BY <1>1, <1>3, <3>1 DEF ToSet
  <2>2. ASSUME NEW x \in ToSet(s)
        PROVE  x \in ToSet(u)
    <3>1. PICK i \in 1..Len(s) : x = s[i]
      BY <1>1, <2>2 DEF ToSet
    <3>2. i \in DOMAIN u /\ u[i] = x
      BY <1>1, <3>1
    <3>3. QED
      BY <3>2 DEF ToSet
  <2>3. ASSUME NEW x \in ToSet(t)
        PROVE  x \in ToSet(u)
    <3>1. PICK i \in 1..Len(t) : x = t[i]
      BY <1>1, <2>3 DEF ToSet
    <3>2. QED
      BY <1>2, <3>1 DEF ToSet
  <2>4. QED
    BY <2>1, <2>2, <2>3
<1>5. ASSUME IsInjective(s), IsInjective(t), ToSet(s) \cap ToSet(t) = {},
             NEW i \in DOMAIN u, NEW j \in DOMAIN u, u[i] = u[j]
      PROVE  i = j
  <2>1. \A a \in 1..Len(s), b \in 1..Len(t) : s[a] # t[b]
    BY <1>1, <1>5 DEF ToSet
  <2>2. CASE i \in 1..Len(s) /\ j \in 1..Len(s)
    BY <1>1, <1>5, <2>2 DEF IsInjective
  <2>3. CASE i > Len(s) /\ j > Len(s)
    <3>1. /\ i - Len(s) \in DOMAIN t /\ j - Len(s) \in DOMAIN t
          /\ t[i - Len(s)] = t[j - Len(s)]
      BY <1>1, <1>3, <1>5, <2>3
    <3>2. i - Len(s) = j - Len(s)
      BY <1>5, <3>1 DEF IsInjective
    <3>3. QED
      BY <1>1, <2>3, <3>2
  <2>4. QED
    BY <1>1, <1>3, <1>5, <2>1, <2>2, <2>3
<1>6. QED
  BY <1>1, <1>4, <1>5 DEF u, IsInjective

(* What is applied: nodes that were ordered, each once, the logger among   *)
(* them.                                                                   *)
LEMMA AppliedAre ==
    ASSUME PlanInv, stage = "order", Left = {}
    PROVE  /\ AppliedNodes \in Seq(PlanNode) /\ IsInjective(AppliedNodes)
           /\ ToSet(AppliedNodes) \subseteq ToSet(nodes)
           /\ LoggerKey \in KeysOf(AppliedNodes)
<1> DEFINE logger == {n \in ToSet(ordered) : n.key = LoggerKey}
           built  == {n \in ToSet(ordered) : n.phase = Bootstrap}
           s == Kept(ordered, logger)
           t == Kept(ordered, built \ logger)
<1>1. /\ ordered \in Seq(PlanNode) /\ IsInjective(ordered)
      /\ ToSet(ordered) \subseteq ToSet(nodes)
  BY NodesTyped DEF PlanInv, Ordering
<1>2. /\ s \in Seq(PlanNode) /\ IsInjective(s)
      /\ ToSet(s) = ToSet(ordered) \cap logger
  BY <1>1, KeptFilters
<1>3. /\ t \in Seq(PlanNode) /\ IsInjective(t)
      /\ ToSet(t) = ToSet(ordered) \cap (built \ logger)
  BY <1>1, KeptFilters
<1>4. AppliedNodes = s \o t
  BY DEF AppliedNodes
<1>5. PICK n \in ToSet(nodes) : n.key = LoggerKey
  <2>1. LoggerKey \in KeysOf(decl)
    BY DeclTyped DEF PlanInv
  <2>2. KeysOf(nodes) = KeysOf(decl)
    BY DEF PlanInv, Resolved
  <2>3. QED
    BY <2>1, <2>2 DEF KeysOf
<1>6. n \in ToSet(ordered)
  BY <1>5 DEF Left
<1>7. n \in ToSet(s)
  BY <1>2, <1>5, <1>6
<1> HIDE DEF s, t
<1>8. ToSet(s) \cap ToSet(t) = {}
  BY <1>2, <1>3
<1>9. /\ s \o t \in Seq(PlanNode) /\ IsInjective(s \o t)
      /\ ToSet(s \o t) = ToSet(s) \cup ToSet(t)
  BY <1>2, <1>3, <1>8, ConcatInjective
<1>10. LoggerKey \in KeysOf(AppliedNodes)
  BY <1>4, <1>5, <1>7, <1>9 DEF KeysOf
<1>11. QED
  BY <1>1, <1>2, <1>3, <1>4, <1>9, <1>10

(* The plan is ordered, and its teardown begins.                           *)
LEMMA AppliedKeeps ==
    ASSUME PlanInv, Applied
    PROVE  PlanInv'
<1> DEFINE s == AppliedNodes
           Names(k) == UNION {After(n, s) : n \in {m \in ToSet(s) : m.key = k}}
<1>1. /\ stage = "order" /\ Left = {} /\ stage' = "release" /\ applyNodes' = s
      /\ waits' = [k \in KeysOf(s) |-> Cardinality(Names(k))]
      /\ decl' = decl /\ group' = group /\ nodes' = nodes
      /\ ordered' = ordered /\ released' = released
  BY DEF Applied
<1>2. /\ s \in Seq(PlanNode) /\ IsInjective(s) /\ ToSet(s) \subseteq ToSet(nodes)
      /\ LoggerKey \in KeysOf(s)
  BY <1>1, AppliedAre
<1> HIDE DEF s
<1>3. released = <<>> /\ ToSet(released) = {} /\ DOMAIN released = {}
  BY <1>1 DEF PlanInv, Releasing, ToSet
<1>4. KeysOf(s) \subseteq Key /\ \A n : After(n, s) \subseteq KeysOf(s)
  <2>1. ToSet(s) \subseteq PlanNode
    BY <1>2 DEF ToSet
  <2>2. KeysOf(s) \subseteq Key
    BY <2>1, NodesTyped DEF KeysOf, PlanInv
  <2>3. QED
    BY <2>2 DEF After
<1>5. ASSUME NEW n \in ToSet(s)
      PROVE  waits'[n.key] = Cardinality(Owes(n)')
  <2>1. n.key \in KeysOf(s) /\ {m \in ToSet(s) : m.key = n.key} = {n}
    BY <1>2 DEF KeysOf, PlanInv, Resolved, Keyed
  <2>2. Names(n.key) = After(n, s)
    BY <2>1
  <2>3. Owes(n)' = After(n, s)
    BY <1>1, <1>3 DEF Owes
  <2> HIDE DEF Names
  <2>4. waits'[n.key] = Cardinality(Names(n.key))
    BY <1>1, <2>1
  <2>5. QED
    BY <2>2, <2>3, <2>4
<1>6. PlanTypeOK'
  <2>1. \A k \in KeysOf(s) : Cardinality(Names(k)) \in 0..Cardinality(Key)
    <3>1. \A k \in KeysOf(s) : Names(k) \in SUBSET Key
      BY <1>4
    <3>2. QED
      BY <3>1, KeysCounted
  <2> HIDE DEF Names
  <2>2. \A k \in DOMAIN waits' : k \in Key /\ waits'[k] \in 0..Cardinality(Key)
    BY <1>1, <1>4, <2>1
  <2>3. QED
    BY <1>1, <1>2, <2>2 DEF PlanInv, PlanTypeOK
<1>7. Resolved'
  BY <1>1 DEF PlanInv, Resolved
<1>8. Ordering'
  <2>1. Foremost'
    BY <1>1 DEF PlanInv, Ordering, Foremost, Orders
  <2>2. QED
    BY <1>1, <2>1 DEF PlanInv, Ordering
<1>9. Picking'
  BY <1>1 DEF Picking
<1>10. Releasing'
  <2>1. ToSet(nodes) \subseteq ToSet(ordered)
    BY <1>1 DEF Left
  <2>2. Backed'
    <3>1. DOMAIN released' = {} /\ ToSet(released') = {}
      BY <1>1, <1>3
    <3>2. QED
      BY <3>1 DEF Backed, IsInjective
  <2>3. DOMAIN waits' = KeysOf(s)
    BY <1>1
  <2>4. QED
    BY <1>1, <1>2, <1>3, <1>5, <2>1, <2>2, <2>3 DEF Releasing
<1>11. QED
  BY <1>6, <1>7, <1>8, <1>9, <1>10 DEF PlanInv

(* A free node that is not the last one in the application: what is left   *)
(* after it waits for it, for something before it, or for a knot.          *)
LEMMA PassedOver ==
    ASSUME PlanInv, stage = "release", NEW i \in Free, \A x \in Free : x <= i,
           NEW l \in KeysOf(applyNodes), l \notin ToSet(released), i < Position(l)
    PROVE  \/ \E m \in Waiting(l) : Position(m) <= i
           \/ \E m \in Waiting(l) : m \in Waiting(m)
<1> SUFFICES ASSUME \A m \in Waiting(l) : ~(Position(m) <= i)
             PROVE  \E m \in Waiting(l) : m \in Waiting(m)
  OBVIOUS
<1> DEFINE U == (Waiting(l) \cup {l}) \ ToSet(released)
<1>1. U \subseteq KeysOf(applyNodes)
  BY WaitingClosed
<1>2. IsFiniteSet(U) /\ U # {}
  <2>1. U \in SUBSET Key
    BY <1>1, NodesTyped DEF PlanInv
  <2>2. QED
    BY <2>1, KeysCounted
<1>3. ASSUME NEW u \in U
      PROVE  \E j \in U : j \in Waiting(u)
  <2>1. Position(u) \in DOMAIN applyNodes /\ Position(u) \in Int /\ applyNodes[Position(u)].key = u
    BY <1>1, Placed
  <2>2. i \in Int /\ ~(Position(u) <= i)
    <3>1. i \in Int
      BY NodesTyped DEF PlanInv, Free
    <3>2. CASE u = l
      BY <2>1, <3>1, <3>2
    <3>3. CASE u \in Waiting(l)
      BY <3>1, <3>3
    <3>4. QED
      BY <3>1, <3>2, <3>3
  <2>3. Position(u) \notin Free
    BY <2>2
  <2>4. PICK j \in Waiting(u) : j \notin ToSet(released)
    BY <2>1, <2>3, OwesSome
  <2>5. j \in Waiting(l)
    BY <2>4, WaitingTrans
  <2>6. QED
    BY <2>4, <2>5
<1> HIDE DEF U
<1>4. PICK u \in U : u \in Waiting(u)
  BY <1>2, <1>3, Knot
<1>5. u \in Waiting(l)
  BY <1>4 DEF U
<1>6. QED
  BY <1>4, <1>5

(* A node is released after all that it names, and what it passes over has *)
(* its reason.                                                             *)
LEMMA ReleaseBacks ==
    ASSUME PlanInv, Release
    PROVE  /\ released' \in Seq(Key)
           /\ ToSet(released') = ToSet(released) \cup {applyNodes[Max(Free)].key}
           /\ applyNodes[Max(Free)].key \notin ToSet(released)
           /\ Backed'
<1> DEFINE i == Max(Free)
           k == applyNodes[i].key
<1>1. /\ stage = "release" /\ Free # {} /\ released' = Append(released, k)
      /\ applyNodes' = applyNodes
  BY DEF Release, Releases, lists
<1>2. i \in Free /\ \A x \in Free : x <= i
  <2>1. Len(applyNodes) \in Nat /\ Free \in SUBSET (1..Len(applyNodes))
    BY NodesTyped DEF Free, PlanInv
  <2>2. QED
    BY <1>1, <2>1, MaxIsGreatest
<1>3. i \in DOMAIN applyNodes /\ k \notin ToSet(released)
  BY <1>2 DEF Free
<1> HIDE DEF i
<1>4. Position(k) = i /\ applyNodes[i] \in ToSet(applyNodes) /\ k \in KeysOf(applyNodes)
  BY <1>3, PositionIs
<1>5. After(applyNodes[i], applyNodes) \subseteq ToSet(released)
  BY <1>1, <1>2, <1>3, FreeIs
<1>6. \A n \in ToSet(applyNodes) : n.key = k => n = applyNodes[i]
  BY <1>4 DEF PlanInv, Releasing, Resolved, Keyed
<1>7. k \in Key
  BY <1>4, NodesTyped DEF PlanInv
<1> HIDE DEF k
<1>8. /\ released \in Seq(Key) /\ Len(released) \in Nat /\ DOMAIN released = 1..Len(released)
      /\ IsInjective(released) /\ ToSet(released) \subseteq KeysOf(applyNodes)
  BY DEF PlanInv, PlanTypeOK, Releasing, Backed
<1>9. /\ released' \in Seq(Key) /\ Len(released') = Len(released) + 1
      /\ \A x \in 1..Len(released) : released'[x] = released[x]
      /\ released'[Len(released) + 1] = k
      /\ ToSet(released') = ToSet(released) \cup {k}
      /\ IsInjective(released')
  BY <1>1, <1>3, <1>7, <1>8, AppendElements DEF k
<1>10. DOMAIN released' = 1..(Len(released) + 1)
  BY <1>9
<1>11. ASSUME NEW x \in 0..Len(released)
       PROVE  {released'[j] : j \in 1..x} = {released[j] : j \in 1..x}
  <2>1. \A j \in 1..x : released'[j] = released[j]
    BY <1>8, <1>9
  <2>2. QED
    BY <2>1
<1>12. \A l : Waiting(l)' = Waiting(l) /\ Position(l)' = Position(l)
  BY <1>1 DEF Waiting, Position
<1>13. ASSUME NEW x \in DOMAIN released', NEW n \in ToSet(applyNodes), n.key = released'[x]
       PROVE  After(n, applyNodes) \subseteq {released'[j] : j \in 1..(x - 1)}
  <2>1. x - 1 \in 0..Len(released)
    BY <1>8, <1>10
  <2>2. CASE x \in 1..Len(released)
    <3>1. After(n, applyNodes) \subseteq {released[j] : j \in 1..(x - 1)}
      BY <1>8, <1>9, <1>13, <2>2 DEF PlanInv, Releasing, Backed
    <3>2. QED
      BY <1>11, <2>1, <3>1
  <2>3. CASE x = Len(released) + 1
    <3>1. After(n, applyNodes) \subseteq ToSet(released)
      BY <1>5, <1>6, <1>9, <1>13, <2>3
    <3>2. ToSet(released) = {released[j] : j \in 1..(x - 1)}
      BY <1>8, <2>3 DEF ToSet
    <3>3. QED
      BY <1>11, <2>1, <3>1, <3>2
  <2>4. QED
    BY <1>8, <1>10, <2>2, <2>3
<1>14. ASSUME NEW x \in DOMAIN released',
              NEW l \in KeysOf(applyNodes), l \notin {released'[j] : j \in 1..x},
              Position(released'[x]) < Position(l)
       PROVE  \/ \E m \in Waiting(l) : Position(m) <= Position(released'[x])
              \/ \E m \in Waiting(l) : m \in Waiting(m)
  <2>1. CASE x \in 1..Len(released)
    <3>0. x \in 0..Len(released)
      BY <1>8, <2>1
    <3>1. {released'[j] : j \in 1..x} = {released[j] : j \in 1..x}
      BY <1>11, <3>0
    <3>2. released'[x] = released[x] /\ x \in DOMAIN released
      BY <1>8, <1>9, <2>1
    <3>3. QED
      BY <1>14, <3>1, <3>2 DEF PlanInv, Releasing, Backed
  <2>2. CASE x = Len(released) + 1
    <3>1. l \notin ToSet(released)
      <4>1. ToSet(released) = {released[j] : j \in 1..Len(released)}
        BY <1>8 DEF ToSet
      <4>2. \A j \in 1..Len(released) : released[j] = released'[j] /\ j \in 1..x
        BY <1>8, <1>9, <2>2
      <4>3. QED
        BY <1>14, <4>1, <4>2
    <3>2. released'[x] = k /\ Position(released'[x]) = i
      BY <1>4, <1>9, <2>2
    <3>3. QED
      BY <1>1, <1>2, <1>14, <3>1, <3>2, PassedOver
  <2>3. QED
    BY <1>8, <1>10, <2>1, <2>2
<1>15. Backed'
  <2>1. ToSet(released') \subseteq KeysOf(applyNodes)
    BY <1>4, <1>8, <1>9
  <2>2. QED
    BY <1>1, <1>9, <1>12, <1>13, <1>14, <2>1 DEF Backed
<1>16. QED
  BY <1>3, <1>9, <1>15 DEF i, k


(* The node that is released is nobody's debt any more.                    *)
LEMMA ReleaseCounts ==
    ASSUME PlanInv, Release
    PROVE  /\ PlanTypeOK' /\ DOMAIN waits' = KeysOf(applyNodes)
           /\ \A n \in ToSet(applyNodes) : waits'[n.key] = Cardinality(Owes(n)')
<1> DEFINE k == applyNodes[Max(Free)].key
           Waits(j) == \E n \in ToSet(applyNodes) : n.key = j /\ k \in After(n, applyNodes)
<1>1. /\ stage = "release" /\ stage' \in {"release", "planned"}
      /\ waits' = [j \in DOMAIN waits |-> IF Waits(j) THEN waits[j] - 1 ELSE waits[j]]
      /\ decl' = decl /\ group' = group /\ nodes' = nodes
      /\ ordered' = ordered /\ applyNodes' = applyNodes
  BY DEF Release, Releases, lists
<1>2. /\ released' \in Seq(Key) /\ ToSet(released') = ToSet(released) \cup {k}
      /\ k \notin ToSet(released)
  BY ReleaseBacks
<1> HIDE DEF k
<1>3. DOMAIN waits = KeysOf(applyNodes) /\ KeysOf(applyNodes) \subseteq Key
  BY <1>1, NodesTyped DEF PlanInv, Releasing
<1>4. ASSUME NEW n \in ToSet(applyNodes)
      PROVE  /\ waits[n.key] = Cardinality(Owes(n)) /\ Owes(n) \in SUBSET Key
             /\ IsFiniteSet(Owes(n))
             /\ Owes(n)' = Owes(n) \ {k}
             /\ Waits(n.key) <=> k \in Owes(n)
  <2>1. waits[n.key] = Cardinality(Owes(n))
    BY <1>1 DEF PlanInv, Releasing
  <2>2. Owes(n) \in SUBSET Key
    BY <1>3 DEF Owes, After
  <2>3. Owes(n)' = After(n, applyNodes) \ ToSet(released')
    BY <1>1 DEF Owes
  <2>4. Owes(n)' = Owes(n) \ {k}
    BY <1>2, <2>3 DEF Owes
  <2>5. \A m \in ToSet(applyNodes) : m.key = n.key => m = n
    BY DEF PlanInv, Resolved, Releasing, Keyed
  <2>6. Waits(n.key) <=> k \in After(n, applyNodes)
    BY <2>5
  <2>7. k \in Owes(n) <=> k \in After(n, applyNodes)
    BY <1>2 DEF Owes
  <2>8. QED
    BY <2>1, <2>2, <2>4, <2>6, <2>7, KeysCounted
<1> HIDE DEF Waits
<1>5. ASSUME NEW n \in ToSet(applyNodes)
      PROVE  waits'[n.key] = Cardinality(Owes(n)')
  <2>1. n.key \in DOMAIN waits
    BY <1>3 DEF KeysOf
  <2>2. waits'[n.key] = IF Waits(n.key) THEN waits[n.key] - 1 ELSE waits[n.key]
    BY <1>1, <2>1
  <2>3. Cardinality(Owes(n) \ {k}) =
            IF k \in Owes(n) THEN Cardinality(Owes(n)) - 1 ELSE Cardinality(Owes(n))
    BY <1>4, FS_RemoveElement
  <2>4. QED
    BY <1>4, <2>2, <2>3
<1>6. \A j \in KeysOf(applyNodes) : waits'[j] \in 0..Cardinality(Key)
  <2> SUFFICES ASSUME NEW n \in ToSet(applyNodes)
               PROVE  waits'[n.key] \in 0..Cardinality(Key)
    BY DEF KeysOf
  <2>1. Owes(n)' \in SUBSET Key
    BY <1>4
  <2>2. QED
    BY <1>5, <2>1, KeysCounted
<1>7. DOMAIN waits' = KeysOf(applyNodes)
  BY <1>1, <1>3
<1>8. PlanTypeOK'
  BY <1>1, <1>2, <1>3, <1>6, <1>7 DEF PlanInv, PlanTypeOK
<1>9. QED
  BY <1>5, <1>7, <1>8

(* A node is released.                                                     *)
LEMMA ReleaseKeeps ==
    ASSUME PlanInv, Release
    PROVE  PlanInv'
<1>1. /\ stage = "release"
      /\ stage' = IF Len(released') = Len(applyNodes) THEN "planned" ELSE "release"
      /\ decl' = decl /\ group' = group /\ nodes' = nodes
      /\ ordered' = ordered /\ applyNodes' = applyNodes
  BY DEF Release, Releases, lists
<1>2. Resolved'
  BY <1>1 DEF PlanInv, Resolved
<1>3. Ordering'
  <2>1. Foremost'
    BY <1>1 DEF PlanInv, Ordering, Foremost, Orders
  <2>2. QED
    BY <1>1, <2>1 DEF PlanInv, Ordering
<1>4. Picking'
  BY <1>1 DEF Picking
<1>5. Releasing'
  <2>1. Backed' /\ released' \in Seq(Key)
    BY ReleaseBacks
  <2>2. IsInjective(released') /\ ToSet(released') \subseteq KeysOf(applyNodes)
    BY <1>1, <2>1 DEF Backed
  <2>3. Len(released') = Len(applyNodes) <=> KeysOf(applyNodes) \subseteq ToSet(released')
    BY <2>1, <2>2, AllReleased
  <2>4. /\ DOMAIN waits' = KeysOf(applyNodes)
        /\ \A n \in ToSet(applyNodes) : waits'[n.key] = Cardinality(Owes(n)')
    BY ReleaseCounts
  <2>5. /\ IsInjective(applyNodes) /\ ToSet(applyNodes) \subseteq ToSet(nodes)
        /\ ToSet(nodes) \subseteq ToSet(ordered)
    BY <1>1 DEF PlanInv, Releasing
  <2>6. CASE stage' = "planned"
    <3>1. KeysOf(applyNodes) \subseteq ToSet(released')
      BY <1>1, <2>3, <2>6
    <3>2. QED
      BY <1>1, <2>1, <2>5, <2>6, <3>1 DEF Releasing
  <2>7. CASE stage' = "release"
    <3>1. \E k \in KeysOf(applyNodes) : k \notin ToSet(released')
      BY <1>1, <2>3, <2>7
    <3>2. QED
      BY <1>1, <2>1, <2>4, <2>5, <2>7, <3>1 DEF Releasing
  <2>8. QED
    BY <1>1, <2>6, <2>7
<1>6. QED
  BY <1>2, <1>3, <1>4, <1>5, ReleaseCounts DEF PlanInv

(* Nothing is free: what is left is a knot.                                *)
LEMMA EntangledKeeps ==
    ASSUME PlanInv, Entangled
    PROVE  PlanInv'
<1> DEFINE U == KeysOf(applyNodes) \ ToSet(released)
<1>1. stage = "release" /\ Free = {}
  BY DEF Entangled
<1>2. IsFiniteSet(U) /\ U # {}
  <2>1. U \in SUBSET Key
    BY NodesTyped DEF PlanInv
  <2>2. U # {}
    BY <1>1 DEF PlanInv, Releasing
  <2>3. QED
    BY <2>1, <2>2, KeysCounted
<1>3. ASSUME NEW u \in U
      PROVE  \E j \in U : j \in Waiting(u)
  <2>1. Position(u) \in DOMAIN applyNodes /\ applyNodes[Position(u)].key = u
    BY Placed
  <2>2. PICK j \in Waiting(u) : j \notin ToSet(released)
    BY <1>1, <2>1, OwesSome
  <2>3. QED
    BY <2>2, WaitingClosed
<1>4. \E u \in U : u \in Waiting(u)
  <2> HIDE DEF U
  <2>1. QED
    BY <1>2, <1>3, Knot
<1>5. \E k \in KeysOf(applyNodes) : k \in Waiting(k)
  BY <1>4
<1>6. QED
  BY <1>1, <1>5, RejectKeeps DEF Entangled, Rejections

-----------------------------------------------------------------------------
(* The invariant and what follows from it.                                 *)

(* Nothing is planned at first.                                            *)
LEMMA PlanBegins ==
    ASSUME PlanInit
    PROVE  PlanInv
<1>1. /\ decl \in Declarations /\ stage = "declared" /\ nodes = <<>> /\ ordered = <<>>
      /\ applyNodes = <<>> /\ group = <<>> /\ waits = <<>> /\ released = <<>>
  BY DEF PlanInit
<1>2. DOMAIN nodes = {} /\ DOMAIN ordered = {} /\ DOMAIN applyNodes = {}
      /\ DOMAIN released = {} /\ DOMAIN waits = {}
  BY <1>1
<1>3. ToSet(nodes) = {} /\ ToSet(ordered) = {} /\ ToSet(applyNodes) = {} /\ ToSet(released) = {}
  BY <1>2 DEF ToSet
<1>4. PlanTypeOK
  <2>1. {nodes, group, ordered, applyNodes} \subseteq Seq(PlanNode) /\ released \in Seq(Key)
    BY <1>1
  <2>2. QED
    BY <1>1, <1>2, <2>1 DEF PlanTypeOK
<1>5. Resolved
  BY <1>1, <1>2, <1>3 DEF Resolved, Keyed, IsInjective
<1>6. Ordering
  BY <1>1, <1>2, <1>3 DEF Ordering, Foremost, IsOrder, IsInjective
<1>7. Picking
  BY <1>1 DEF Picking
<1>8. Releasing
  BY <1>1, <1>2, <1>3 DEF Releasing, Backed, IsInjective
<1>9. QED
  BY <1>4, <1>5, <1>6, <1>7, <1>8 DEF PlanInv

(* Nothing changes.                                                        *)
LEMMA PlanStays ==
    ASSUME PlanInv, UNCHANGED planVars
    PROVE  PlanInv'
<1>1. /\ decl' = decl /\ group' = group /\ waits' = waits /\ released' = released
      /\ nodes' = nodes /\ ordered' = ordered /\ applyNodes' = applyNodes /\ stage' = stage
  BY DEF planVars, lists
<1>2. PlanTypeOK'
  BY <1>1 DEF PlanInv, PlanTypeOK
<1>3. Resolved'
  BY <1>1 DEF PlanInv, Resolved
<1>4. Orders' = Orders
  BY <1>1 DEF Orders
<1>5. Ordering'
  BY <1>1, <1>4 DEF PlanInv, Ordering, Foremost
<1>6. Picking'
  <2>1. \A g : Lacks(g)' = Lacks(g) /\ (Unmet(g)' <=> Unmet(g))
    BY <1>1 DEF Lacks, Unmet
  <2>2. QED
    BY <1>1, <2>1 DEF PlanInv, Picking
<1>7. Releasing'
  <2>1. Backed'
    BY <1>1, BackedStays DEF PlanInv, Releasing
  <2>2. \A k : Waiting(k)' = Waiting(k)
    BY <1>1 DEF Waiting
  <2>3. \A n : Owes(n)' = Owes(n)
    BY <1>1 DEF Owes
  <2>4. QED
    BY <1>1, <2>1, <2>2, <2>3 DEF PlanInv, Releasing
<1>8. QED
  BY <1>2, <1>3, <1>5, <1>6, <1>7 DEF PlanInv

(* PlanInv is an invariant: every step of the planning keeps it.           *)
THEOREM PlanInvariant == PlanSpec => []PlanInv
<1>1. PlanInit => PlanInv
  BY PlanBegins
<1>2. ASSUME PlanInv, [PlanNext]_planVars
      PROVE  PlanInv'
  <2>1. CASE Conflict
    BY <1>2, <2>1, ConflictKeeps
  <2>2. CASE Resolve
    BY <1>2, <2>2, ResolveKeeps
  <2>3. CASE PhaseFails
    BY <1>2, <2>3, PhaseFailsKeeps
  <2>4. CASE PhaseBegins
    BY <1>2, <2>4, PhaseBeginsKeeps
  <2>5. CASE Pick
    BY <1>2, <2>5, PickKeeps
  <2>6. CASE Cycle
    BY <1>2, <2>6, CycleKeeps
  <2>7. CASE Applied
    BY <1>2, <2>7, AppliedKeeps
  <2>8. CASE Release
    BY <1>2, <2>8, ReleaseKeeps
  <2>9. CASE Entangled
    BY <1>2, <2>9, EntangledKeeps
  <2>10. CASE Ended
    BY <1>2, <2>10, PlanStays DEF Ended
  <2>11. CASE UNCHANGED planVars
    BY <1>2, <2>11, PlanStays
  <2>12. QED
    BY <1>2, <2>1, <2>2, <2>3, <2>4, <2>5, <2>6, <2>7, <2>8, <2>9, <2>10, <2>11 DEF PlanNext
<1>3. QED
  BY <1>1, <1>2, PTL DEF PlanSpec

(* The plan does not depend on the order of the declarations               *)
(* (newProviderPlan): what topoOrder picks is of all orders that respect   *)
(* phases and dependencies the first one, and it fails only if there is    *)
(* none.                                                                   *)
THEOREM PlanIsCanonical == PlanSpec => []OrderCanonical
<1>1. ASSUME PlanInv
      PROVE  OrderCanonical
  <2>1. PlanTypeOK /\ Resolved /\ Ordering /\ Releasing
    BY <1>1 DEF PlanInv
  <2>2. ASSUME applyNodes # <<>>
        PROVE  /\ stage \in {"release", "planned", "entangled"}
               /\ ToSet(ordered) = ToSet(nodes)
    BY <2>1, <2>2 DEF Releasing, Ordering
  <2>3. ASSUME applyNodes # <<>>
        PROVE  ordered \in Orders
    <3>1. /\ ordered \in Seq(PlanNode) /\ IsInjective(ordered) /\ IsOrder(ordered)
          /\ DOMAIN ordered = 1..Len(ordered)
      BY <2>1, NodesTyped DEF Ordering
    <3>2. Len(ordered) = Cardinality(ToSet(nodes))
      BY <2>2, <2>3, <3>1, InjectiveLength
    <3>3. ordered \in [1..Len(ordered) -> ToSet(nodes)]
      <4>1. \A i \in 1..Len(ordered) : ordered[i] \in ToSet(nodes)
        BY <2>2, <2>3, <3>1 DEF ToSet
      <4>2. QED
        BY <3>1, <4>1
    <3>4. ordered \in SetToSeqs(ToSet(nodes))
      BY <3>1, <3>2, <3>3 DEF SetToSeqs, IsInjective
    <3>5. QED
      BY <3>1, <3>4 DEF Orders
  <2>4. ASSUME applyNodes # <<>>, NEW s \in Orders \ {ordered}
        PROVE  Sooner(ordered, s)
    <3>1. ordered \in Orders
      BY <2>3, <2>4
    <3>2. /\ Len(s) = Cardinality(ToSet(nodes)) /\ s \in [1..Len(s) -> ToSet(nodes)]
          /\ Len(ordered) = Cardinality(ToSet(nodes)) /\ Len(ordered) \in Nat
          /\ ordered \in [1..Len(ordered) -> ToSet(nodes)]
      BY <2>1, <2>4, <3>1, OrdersCover
    <3> DEFINE D == {i \in 1..Len(ordered) : s[i] # ordered[i]}
    <3>3. D \in SUBSET Nat /\ D # {}
      BY <2>4, <3>2
    <3>4. PICK i \in D : \A j \in D : i <= j
      BY <3>3, Least
    <3>5. i \in DOMAIN ordered /\ s[i] # ordered[i]
      BY <3>2
    <3>6. \A j \in 1..(i - 1) : s[j] = ordered[j]
      <4> SUFFICES ASSUME NEW j \in 1..(i - 1), s[j] # ordered[j]
                   PROVE  FALSE
        OBVIOUS
      <4>1. j \in D /\ j < i
        BY <3>2
      <4>2. QED
        BY <3>4, <4>1
    <3>7. Precedes(ordered[i], s[i])
      BY <2>1, <2>4, <3>5, <3>6 DEF Ordering, Foremost
    <3>8. QED
      BY <3>5, <3>6, <3>7 DEF Sooner
  <2>5. /\ stage = "conflict" => \E i, j \in DOMAIN decl : i # j /\ decl[i].key = decl[j].key
        /\ stage = "unordered" => Orders = {}
    BY <2>1 DEF Resolved, Ordering
  <2>6. applyNodes # <<>> => /\ KeysOf(nodes) = KeysOf(decl)
                             /\ \A i \in DOMAIN decl : decl[i].override => decl[i] \in ToSet(nodes)
    BY <2>1, <2>2 DEF Resolved
  <2>7. QED
    BY <2>1, <2>3, <2>4, <2>5, <2>6 DEF OrderCanonical
<1>2. QED
  BY <1>1, PlanInvariant, PTL

(* Everything that was applied is released once, after all that it waits   *)
(* for, and in the reverse order of the application unless something waits *)
(* (teardownOrder); it fails only if a node waits for itself.              *)
THEOREM TeardownIsExplained == PlanSpec => []TeardownExplained
<1>1. ASSUME PlanInv
      PROVE  TeardownExplained
  <2>1. PlanTypeOK /\ Releasing /\ Backed
    BY <1>1 DEF PlanInv, Releasing
  <2>2. stage = "entangled" => \E k \in KeysOf(applyNodes) : k \in Waiting(k)
    BY <2>1 DEF Releasing
  <2> SUFFICES ASSUME stage = "planned"
               PROVE  /\ ToSet(released) = KeysOf(applyNodes) /\ IsInjective(released)
                      /\ \A i, j \in DOMAIN released : i < j =>
                            /\ released[j] \notin Waiting(released[i])
                            /\ Position(released[i]) < Position(released[j]) =>
                                  \E m \in Waiting(released[j]) :
                                      Position(m) <= Position(released[i])
    BY <2>2 DEF TeardownExplained
  <2>3. ToSet(released) = KeysOf(applyNodes) /\ IsInjective(released)
    BY <2>1 DEF Releasing, Backed
  <2>4. /\ released \in Seq(Key) /\ Len(released) \in Nat /\ DOMAIN released = 1..Len(released)
    BY <2>1 DEF PlanTypeOK
  <2>5. ASSUME NEW x \in DOMAIN released, NEW y \in DOMAIN released,
               released[y] \in Waiting(released[x])
        PROVE  y < x
    <3>1. Waiting(released[x]) \subseteq {released[z] : z \in 1..(x - 1)}
      BY <2>1, WaitedEarlier
    <3>2. PICK z \in 1..(x - 1) : released[y] = released[z]
      BY <2>5, <3>1
    <3>3. z \in DOMAIN released /\ z < x
      BY <2>4
    <3>4. y = z
      BY <2>3, <3>2, <3>3 DEF IsInjective
    <3>5. QED
      BY <3>3, <3>4
  <2>6. ASSUME NEW i \in DOMAIN released, NEW j \in DOMAIN released, i < j,
               Position(released[i]) < Position(released[j])
        PROVE  \E m \in Waiting(released[j]) : Position(m) <= Position(released[i])
    <3>1. released[j] \in KeysOf(applyNodes)
      BY <2>3 DEF ToSet
    <3>2. released[j] \notin {released[z] : z \in 1..i}
      <4>1. \A z \in 1..i : z \in DOMAIN released /\ z # j
        BY <2>4, <2>6
      <4>2. QED
        BY <2>3, <4>1 DEF IsInjective
    <3>3. \/ \E m \in Waiting(released[j]) : Position(m) <= Position(released[i])
          \/ \E m \in Waiting(released[j]) : m \in Waiting(m)
      BY <2>1, <2>6, <3>1, <3>2 DEF Backed
    <3>4. ASSUME NEW m \in Waiting(released[j]), m \in Waiting(m)
          PROVE  FALSE
      <4>1. PICK x \in DOMAIN released : m = released[x]
        BY <2>3, WaitingClosed DEF ToSet
      <4>2. x < x
        BY <2>5, <3>4, <4>1
      <4>3. QED
        BY <2>4, <4>2
    <3>5. QED
      BY <3>3, <3>4
  <2>7. \A i, j \in DOMAIN released : i < j => released[j] \notin Waiting(released[i])
    BY <2>4, <2>5
  <2>8. QED
    BY <2>3, <2>6, <2>7
<1>2. QED
  BY <1>1, PlanInvariant, PTL
=============================================================================
