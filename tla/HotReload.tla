------------------------------ MODULE HotReload ------------------------------
(***************************************************************************)
(* Hot reload of pkg/appkit: the goroutine of Run, which loads the         *)
(* configuration, builds what it describes and undoes it in the end        *)
(* (syncBootstrap, runProviderNodes, the effects of cleanupSlots), and the *)
(* configuration watch, whose callback hotReload rebuilds what has changed *)
(* (rebuildLogger, applyPlanChange).  They share the contract, the plan,   *)
(* the hashes of what was applied and the cleanup slots.                   *)
(*                                                                         *)
(* A configuration gives every node, a provider or the logger, the hash of *)
(* what is desired.  A product is what a provider builds: a logger, an     *)
(* auditor, with the cleanup that releases it.  Providers are those whose  *)
(* node is reconciled on a change.  In what order nodes are built, visited *)
(* and undone (stage B, the keys, the teardown) is left open.              *)
(***************************************************************************)
EXTENDS Naturals, Sequences, FiniteSets

CONSTANTS
    Provider,   \* the nodes of plan.stageB
    Logger,     \* the logger node
    Hash,       \* what may be desired of a node
    Absent,     \* the configuration does not have the node
    Settings,   \* the configurations there are
    Bad,        \* a configuration that bconf.Validate or compilePlan rejects
    Start,      \* the configuration the App is assembled with
    MaxChanges, \* bound: changes of the configuration
    MaxFaults   \* bound: builds that fail

Node == Provider \cup {Logger}
Config == {s \in [Node -> Hash \cup {Absent}] : s[Logger] # Absent}

ASSUME ReloadAssumption ==
    /\ Logger \notin Provider /\ Absent \notin Hash
    /\ Settings \subseteq Config /\ Bad \notin Settings
    /\ Start \in Settings /\ Start \in [Node -> Hash]
    /\ MaxChanges \in Nat /\ MaxFaults \in Nat

VARIABLES
    settings,   \* the merged settings of the store
    contract,   \* cfg, the contract providers read
    plan,       \* App.plan: the desired hashes
    applied,    \* App.applied: Absent when a node has no hash
    product,    \* what was built so far: node and hash
    live,       \* the product in use for each node, 0 before there is one
    slot,       \* the cleanup slots: the products a slot releases
    curCleanup, \* the logger's: the product it releases, 0 for none
    cleaned,    \* how often each product was released
    at,         \* where the goroutine of Run and the watch stand
    snap,       \* the settings each works with
    made,       \* the product each has built last
    hold,       \* what each has read from the slot
    todo,       \* the nodes each has still to build
    loggerOK, failed,   \* hotReload: of the reload under way or the last one
    changes, faults,
    early,      \* history: a reload overlapped with the assembly
    late        \* history: a reload overlapped with UndoEffects

shared == <<contract, plan, applied, product, live, slot, curCleanup, cleaned>>
locals == <<snap, made, hold, todo>>
history == <<early, late>>
vars == <<settings, shared, at, locals, loggerOK, failed, changes, faults, history>>

Process == {"run", "watch"}
Assembling == {"sync", "install", "rebuild", "flush", "store", "logged", "build", "put",
               "write", "mark"}
Undoing == {"undo", "close"}
Products == 1..Len(product)
\* The node of the product p has built last.
NodeOf(p) == product[made[p]].node

RunAt == Assembling \cup Undoing \cup {"serve", "done"}
WatchAt == {"idle", "land", "rebuild", "flush", "store", "diff", "build", "put", "write", "clean",
            "mark"}

SettingsOK ==
    /\ settings \in Settings \cup {Bad}
    /\ contract \in Settings /\ plan \in Settings
    /\ applied \in [Node -> Hash \cup {Absent}]
    /\ snap \in [Process -> Settings]
ProductsOK ==
    /\ product \in Seq([node : Node, hash : Hash \cup {Absent}])
    /\ cleaned \in [Products -> Nat]
    /\ live \in [Node -> 0..Len(product)] /\ made \in [Process -> 0..Len(product)]
    /\ slot \in [Provider -> SUBSET Products] /\ hold \in [Process -> SUBSET Products]
    /\ curCleanup \in 0..Len(product)
ControlOK ==
    /\ at \in [Process -> RunAt \cup WatchAt] /\ at["run"] \in RunAt /\ at["watch"] \in WatchAt
    /\ todo \in [Process -> SUBSET Node]
    /\ loggerOK \in BOOLEAN /\ failed \in BOOLEAN /\ early \in BOOLEAN /\ late \in BOOLEAN
    /\ changes \in 0..MaxChanges /\ faults \in 0..MaxFaults
TypeOK == SettingsOK /\ ProductsOK /\ ControlOK

Init ==
    /\ settings = Start /\ contract = Start /\ plan = Start
    /\ applied = [n \in Node |-> Absent]
    /\ product = <<>> /\ cleaned = <<>>
    /\ live = [n \in Node |-> 0]
    /\ slot = [n \in Provider |-> {}]
    /\ curCleanup = 0
    /\ at = [p \in Process |-> IF p = "run" THEN "sync" ELSE "idle"]
    /\ snap = [p \in Process |-> Start]
    /\ made = [p \in Process |-> 0]
    /\ hold = [p \in Process |-> {}]
    /\ todo = [p \in Process |-> {}]
    /\ loggerOK = TRUE /\ failed = FALSE
    /\ changes = 0 /\ faults = 0
    /\ early = FALSE /\ late = FALSE

Goes(p, place) == at' = [at EXCEPT ![p] = place]
Fault == faults < MaxFaults /\ faults' = faults + 1

\* A provider builds from the contract as it is at that time.
Builds(p, n) ==
    /\ product' = Append(product, [node |-> n, hash |-> contract[n]])
    /\ cleaned' = Append(cleaned, 0)
    /\ made' = [made EXCEPT ![p] = Len(product')]

Released(ks) == cleaned' = [k \in Products |-> cleaned[k] + (IF k \in ks THEN 1 ELSE 0)]

-----------------------------------------------------------------------------
(* rebuildLogger, called by both.                                          *)

LoggerBuilt(p) ==
    /\ at[p] = "rebuild"
    /\ Builds(p, Logger)
    /\ live' = [live EXCEPT ![Logger] = Len(product')]
    /\ Goes(p, "flush")
    /\ UNCHANGED <<settings, contract, plan, applied, slot, curCleanup, snap, hold, todo,
                   loggerOK, failed, changes, faults, history>>

\* Mutant of LoggerFlushes: the backend replaced is forgotten.
LoggerNotFlushed(p) ==
    /\ at[p] = "flush"
    /\ Goes(p, "store")
    /\ UNCHANGED <<settings, shared, locals, loggerOK, failed, changes, faults, history>>

\* The cleanup of the old backend, after the global logger was switched.
LoggerFlushes(p) ==
    /\ at[p] = "flush"
    /\ Released({curCleanup})
    /\ Goes(p, "store")
    /\ UNCHANGED <<settings, contract, plan, applied, product, live, slot, curCleanup, locals,
                   loggerOK, failed, changes, faults, history>>

LoggerStored(p) ==
    /\ at[p] = "store"
    /\ curCleanup' = made[p] /\ made' = [made EXCEPT ![p] = 0]
    /\ Goes(p, IF p = "run" THEN "logged" ELSE "diff")
    /\ UNCHANGED <<settings, contract, plan, applied, product, live, slot, cleaned, snap, hold,
                   todo, loggerOK, failed, changes, faults, history>>

-----------------------------------------------------------------------------
(* storeProduct and storeProductReplacing: the resource, the slot, the hash.*)

\* Mutant of Puts: a resource that is there already is kept.
PutsFirst(p) ==
    /\ at[p] = "put"
    /\ live' = [live EXCEPT ![NodeOf(p)] = IF @ = 0 THEN made[p] ELSE @]
    /\ hold' = [hold EXCEPT ![p] = slot[NodeOf(p)]]
    /\ Goes(p, "write")
    /\ UNCHANGED <<settings, contract, plan, applied, product, slot, curCleanup, cleaned, snap,
                   made, todo, loggerOK, failed, changes, faults, history>>

\* setResources, and the slot is read.
Puts(p) ==
    /\ at[p] = "put"
    /\ live' = [live EXCEPT ![NodeOf(p)] = made[p]]
    /\ hold' = [hold EXCEPT ![p] = slot[NodeOf(p)]]
    /\ Goes(p, "write")
    /\ UNCHANGED <<settings, contract, plan, applied, product, slot, curCleanup, cleaned, snap,
                   made, todo, loggerOK, failed, changes, faults, history>>

\* cleanupSlots.fill keeps what was there, replace does not.
Writes(p) ==
    /\ at[p] = "write"
    /\ slot' = [slot EXCEPT ![NodeOf(p)] =
                    IF p = "run" THEN hold[p] \cup {made[p]} ELSE {made[p]}]
    /\ Goes(p, IF p = "run" THEN "mark" ELSE "clean")
    /\ UNCHANGED <<settings, contract, plan, applied, product, live, curCleanup, cleaned,
                   locals, loggerOK, failed, changes, faults, history>>

\* Mutant of Replaced: the product replaced is not released.
ReplacedOnly ==
    /\ at["watch"] = "clean"
    /\ Goes("watch", "mark")
    /\ UNCHANGED <<settings, shared, locals, loggerOK, failed, changes, faults, history>>

\* replace runs the cleanup it found.
Replaced ==
    /\ at["watch"] = "clean"
    /\ Released(hold["watch"])
    /\ Goes("watch", "mark")
    /\ UNCHANGED <<settings, contract, plan, applied, product, live, slot, curCleanup, locals,
                   loggerOK, failed, changes, faults, history>>

\* markAppliedByKey takes the hash from the plan of the moment.
Marks(p) ==
    /\ at[p] = "mark"
    /\ LET n == NodeOf(p)
       IN /\ applied' = [applied EXCEPT ![n] =
                             IF p = "watch" THEN snap[p][n]
                             ELSE IF plan[n] = Absent THEN @ ELSE plan[n]]
          /\ todo' = [todo EXCEPT ![p] = @ \ {n}]
    /\ made' = [made EXCEPT ![p] = 0] /\ hold' = [hold EXCEPT ![p] = {}]
    /\ Goes(p, "build")
    /\ UNCHANGED <<settings, contract, plan, product, live, slot, curCleanup, cleaned, snap,
                   loggerOK, failed, changes, faults, history>>

-----------------------------------------------------------------------------
(* The goroutine of Run.                                                   *)

BeginsUndo ==
    /\ Goes("run", "undo")
    /\ todo' = [todo EXCEPT !["run"] = Node]
    /\ late' = (late \/ at["watch"] # "idle")
    /\ UNCHANGED <<settings, shared, snap, made, hold, loggerOK, failed, changes, early>>

\* syncBootstrap: the settings go into the contract.
Syncs ==
    /\ at["run"] = "sync"
    /\ IF settings = Bad
       THEN BeginsUndo /\ UNCHANGED faults
       ELSE /\ contract' = settings
            /\ snap' = [snap EXCEPT !["run"] = settings]
            /\ Goes("run", "install")
            /\ UNCHANGED <<settings, plan, applied, product, live, slot, curCleanup, cleaned,
                           made, hold, todo, loggerOK, failed, changes, faults, history>>

Installs ==
    /\ at["run"] = "install"
    /\ plan' = snap["run"] /\ snap' = [snap EXCEPT !["run"] = Start]
    /\ Goes("run", "rebuild")
    /\ UNCHANGED <<settings, contract, applied, product, live, slot, curCleanup, cleaned, made,
                   hold, todo, loggerOK, failed, changes, faults, history>>

LoggerMarked ==
    /\ at["run"] = "logged"
    /\ applied' = [applied EXCEPT ![Logger] = plan[Logger]]
    /\ todo' = [todo EXCEPT !["run"] = Provider]
    /\ Goes("run", "build")
    /\ UNCHANGED <<settings, contract, plan, product, live, slot, curCleanup, cleaned, snap,
                   made, hold, loggerOK, failed, changes, faults, history>>

RunBuilds ==
    /\ at["run"] = "build"
    /\ IF todo["run"] = {}
       THEN Goes("run", "serve") /\ UNCHANGED <<product, cleaned, made>>
       ELSE Goes("run", "put") /\ \E n \in todo["run"] : Builds("run", n)
    /\ UNCHANGED <<settings, contract, plan, applied, live, slot, curCleanup, snap, hold, todo,
                   loggerOK, failed, changes, faults, history>>

\* A failed hook: the effects are undone.
RunFails ==
    /\ at["run"] \in {"rebuild", "build"}
    /\ at["run"] = "build" => todo["run"] # {}
    /\ Fault
    /\ BeginsUndo

Stops == at["run"] = "serve" /\ BeginsUndo /\ UNCHANGED faults

\* The effects of cleanupSlots: each reads its slot and runs what it finds.
Undoes ==
    /\ at["run"] = "undo"
    /\ \E n \in todo["run"] :
        /\ Released(IF n = Logger THEN {curCleanup} ELSE slot[n])
        /\ todo' = [todo EXCEPT !["run"] = @ \ {n}]
    /\ UNCHANGED <<settings, contract, plan, applied, product, live, slot, curCleanup, at, snap,
                   made, hold, loggerOK, failed, changes, faults, history>>

\* closeStore cancels the watch.
Closes ==
    /\ at["run"] = "undo" /\ todo["run"] = {}
    /\ Goes("run", "close")
    /\ UNCHANGED <<settings, shared, locals, loggerOK, failed, changes, faults, history>>

\* It waits for the watch goroutine, which ends between two callbacks.
Returns ==
    /\ at["run"] = "close" /\ at["watch"] = "idle"
    /\ Goes("run", "done")
    /\ UNCHANGED <<settings, shared, locals, loggerOK, failed, changes, faults, history>>

-----------------------------------------------------------------------------
(* The watch: hotReload, one at a time.                                    *)

\* The settings are merged and published, and the callback begins.  The watch
\* may still take a change that came before it sees the cancellation of Close.
Change(s) ==
    /\ at["watch"] = "idle" /\ at["run"] # "done"
    /\ changes < MaxChanges
    /\ s # settings
    /\ settings' = s /\ changes' = changes + 1
    /\ IF s = Bad
       THEN UNCHANGED <<at, snap, loggerOK, failed>>
       ELSE /\ Goes("watch", "land")
            /\ snap' = [snap EXCEPT !["watch"] = s]
            /\ failed' = FALSE /\ UNCHANGED loggerOK
    /\ early' = (early \/ at["run"] \in Assembling)
    /\ late' = (late \/ at["run"] \in Undoing)
    /\ UNCHANGED <<shared, made, hold, todo, faults>>

Lands ==
    /\ at["watch"] = "land"
    /\ contract' = snap["watch"]
    /\ Goes("watch", "rebuild")
    /\ UNCHANGED <<settings, plan, applied, product, live, slot, curCleanup, cleaned, locals,
                   loggerOK, failed, changes, faults, history>>

LoggerFails ==
    /\ at["watch"] = "rebuild"
    /\ Fault
    /\ loggerOK' = FALSE /\ failed' = TRUE
    /\ Goes("watch", "diff")
    /\ UNCHANGED <<settings, shared, locals, changes, history>>

Differs(n) == plan[n] # snap["watch"][n]

\* applyPlanChange: the plan is replaced, the nodes that differ are visited.
Diffs ==
    /\ at["watch"] = "diff"
    /\ plan' = snap["watch"]
    /\ todo' = [todo EXCEPT !["watch"] = {n \in Provider : Differs(n)}]
    /\ Goes("watch", "build")
    /\ UNCHANGED <<settings, contract, applied, product, live, slot, curCleanup, cleaned, snap,
                   made, hold, loggerOK, failed, changes, faults, history>>

\* A node that is no longer in the plan keeps its product until the end.
Removes ==
    /\ at["watch"] = "build"
    /\ \E n \in todo["watch"] :
        /\ snap["watch"][n] = Absent
        /\ applied' = [applied EXCEPT ![n] = Absent]
        /\ todo' = [todo EXCEPT !["watch"] = @ \ {n}]
    /\ UNCHANGED <<settings, contract, plan, product, live, slot, curCleanup, cleaned, at, snap,
                   made, hold, loggerOK, failed, changes, faults, history>>

Rebuilds ==
    /\ at["watch"] = "build"
    /\ \E n \in todo["watch"] : snap["watch"][n] # Absent /\ Builds("watch", n)
    /\ Goes("watch", "put")
    /\ UNCHANGED <<settings, contract, plan, applied, live, slot, curCleanup, snap, hold, todo,
                   loggerOK, failed, changes, faults, history>>

\* Mutant of RebuildFails: the hash is recorded before the error is looked at.
RebuildFailsMarked ==
    /\ at["watch"] = "build"
    /\ \E n \in todo["watch"] :
        /\ snap["watch"][n] # Absent
        /\ applied' = [applied EXCEPT ![n] = snap["watch"][n]]
        /\ todo' = [todo EXCEPT !["watch"] = @ \ {n}]
    /\ Fault /\ failed' = TRUE
    /\ UNCHANGED <<settings, contract, plan, product, live, slot, curCleanup, cleaned, at, snap,
                   made, hold, loggerOK, changes, history>>

\* The node keeps its product and its hash, and the next one is visited.
RebuildFails ==
    /\ at["watch"] = "build"
    /\ \E n \in todo["watch"] :
        /\ snap["watch"][n] # Absent
        /\ todo' = [todo EXCEPT !["watch"] = @ \ {n}]
    /\ Fault /\ failed' = TRUE
    /\ UNCHANGED <<settings, shared, at, snap, made, hold, loggerOK, changes, history>>

\* Mutant of ReloadEnds: the callback needs a lock that closeStore holds.
ReloadEndsLocked ==
    /\ at["run"] # "close"
    /\ at["watch"] = "build" /\ todo["watch"] = {}
    /\ applied' = IF loggerOK THEN [applied EXCEPT ![Logger] = plan[Logger]] ELSE applied
    /\ Goes("watch", "idle")
    /\ snap' = [snap EXCEPT !["watch"] = Start] /\ loggerOK' = TRUE
    /\ UNCHANGED <<settings, contract, plan, product, live, slot, curCleanup, cleaned, made,
                   hold, todo, failed, changes, faults, history>>

ReloadEnds ==
    /\ at["watch"] = "build" /\ todo["watch"] = {}
    /\ applied' = IF loggerOK THEN [applied EXCEPT ![Logger] = plan[Logger]] ELSE applied
    /\ Goes("watch", "idle")
    /\ snap' = [snap EXCEPT !["watch"] = Start] /\ loggerOK' = TRUE
    /\ UNCHANGED <<settings, contract, plan, product, live, slot, curCleanup, cleaned, made,
                   hold, todo, failed, changes, faults, history>>

-----------------------------------------------------------------------------
Both(p) == LoggerBuilt(p) \/ LoggerFlushes(p) \/ LoggerStored(p) \/ Puts(p) \/ Writes(p) \/ Marks(p)

RunStep ==
    \/ Both("run") \/ Syncs \/ Installs \/ LoggerMarked \/ RunBuilds \/ RunFails
    \/ Undoes \/ Closes \/ Returns

WatchStep ==
    \/ Both("watch") \/ Lands \/ LoggerFails \/ Diffs \/ Removes \/ Rebuilds \/ RebuildFails
    \/ Replaced \/ ReloadEnds

Next ==
    \/ RunStep \/ Stops \/ WatchStep
    \/ \E s \in Settings \cup {Bad} : Change(s)

(* Run and a reload go on; nothing makes the App stop or the configuration *)
(* change.                                                                 *)
Spec == Init /\ [][Next]_vars /\ WF_vars(RunStep) /\ WF_vars(WatchStep)

-----------------------------------------------------------------------------
(* Properties.                                                             *)

Serving == at["run"] = "serve" /\ at["watch"] = "idle"

\* Drift would list the node.
Reported(n) == plan[n] # Absent /\ applied[n] # plan[n]

UpToDate(n) == live[n] # 0 /\ product[live[n]].hash = settings[n]

(* What was built is released once: when it is replaced, or when the       *)
(* effects are undone.  A reload that overlaps with the assembly or with   *)
(* UndoEffects is the exception (cleanupSlots has no lock).                *)
CleanedOnce ==
    /\ TypeOK  \* the state is well formed, and
    /\ ~early /\ ~late =>
          /\ \A k \in Products : cleaned[k] <= 1
          /\ at["run"] = "done" => \A k \in Products : cleaned[k] = 1

(* Nobody is handed a product that was released already: the new one is in *)
(* place before the old one goes ("switch the global handle first").       *)
NothingReleasedInUse ==
    ~early /\ at["run"] \in Assembling \cup {"serve"} =>
        \A n \in Node : live[n] # 0 => cleaned[live[n]] = 0

(* Drift keeps nothing back: after a reload, whatever part of it failed, a *)
(* node whose product is not the one desired is listed.                    *)
DriftTellsAll ==
    Serving /\ ~early /\ settings # Bad =>
        \A n \in Node : settings[n] # Absent => UpToDate(n) \/ Reported(n)

(* Run returns once it undoes its effects, although closeStore waits for a *)
(* reload that is under way.                                               *)
UndoEnds == at["run"] = "undo" ~> at["run"] = "done"

(* "The old cleanup is honoured after the replacement: nothing leaks with  *)
(* a hot swap": when Run has returned, every product was released.         *)
NothingLeaks ==
    at["run"] = "done" /\ ~early => \A k \in Products : cleaned[k] >= 1

(* "Drift stays stale, the next change makes it good": after a reload in   *)
(* which nothing failed Drift lists nothing.                               *)
NextChangeMakesGood ==
    Serving /\ ~early /\ ~failed => \A n \in Node : ~Reported(n)

(* "A read-only view of the desired against the actual state": Drift lists *)
(* a node whose product is not the desired one, however early the first    *)
(* change came.                                                            *)
DriftTruthful ==
    Serving /\ settings # Bad =>
        \A n \in Node : settings[n] # Absent => UpToDate(n) \/ Reported(n)
-----------------------------------------------------------------------------
(* What CleanedOnce, NothingReleasedInUse and DriftTellsAll rest on.       *)

Busy == {"put", "write", "clean", "mark"}
Gone == Undoing \cup {"done"}

\* Who is past a build has a product, of a node it still has to finish.
MadeFirst ==
    /\ todo["watch"] \subseteq Provider
    /\ at["run"] \notin Gone => todo["run"] \subseteq Provider
    /\ at["run"] \in {"close", "done"} => todo["run"] = {}
    /\ \A p \in Process :
        /\ at[p] \in {"flush", "store"} => made[p] # 0 /\ NodeOf(p) = Logger
        /\ at[p] \in Busy => made[p] # 0 /\ NodeOf(p) \in Provider
    /\ loggerOK \/ at["watch"] \in {"diff", "build"} \cup Busy

\* Without an overlap run and watch take turns, and the assembly sees one
\* configuration only.
TakeTurns ==
    /\ ~early /\ at["run"] \in Assembling =>
          /\ at["watch"] = "idle"
          /\ settings = Start /\ contract = Start /\ plan = Start /\ snap["run"] = Start
    /\ at["run"] \in Gone => late \/ at["watch"] = "idle"
    /\ late => at["run"] \in Gone

\* A reload works with the settings of the moment, and leaves their plan.
OneReload ==
    ~early =>
        /\ at["watch"] = "idle" => settings \in {plan, Bad}
        /\ at["watch"] # "idle" => settings = snap["watch"]
        /\ at["watch"] \notin {"idle", "land"} => contract = snap["watch"]
        /\ at["watch"] \in {"build"} \cup Busy => plan = snap["watch"]

Undone(n) == at["run"] \in Gone /\ n \notin todo["run"]

\* The products that will be released through the slot of n.
Owned(n) ==
    IF Undone(n) \/ (n = Logger /\ \E p \in Process : at[p] = "store") THEN {}
    ELSE IF n = Logger THEN {curCleanup} \ {0} ELSE slot[n]

\* Those that were built and are in no slot yet, and those taken out of one.
OnTheWay == {made[p] : p \in {q \in Process : at[q] \in {"flush", "store", "put", "write"}}}
Displaced == IF at["watch"] = "clean" THEN hold["watch"] ELSE {}

\* A slot holds products of its node only.
OfTheirNode ==
    /\ \A n \in Provider : \A k \in slot[n] : product[k].node = n
    /\ curCleanup # 0 => product[curCleanup].node = Logger
    /\ \A p \in Process :
        /\ at[p] = "flush" => made[p] # curCleanup
        /\ at[p] \in {"put", "write"} => made[p] \notin slot[NodeOf(p)]
        /\ at[p] = "write" => hold[p] = slot[NodeOf(p)]
        /\ at[p] = "clean" => /\ slot[NodeOf(p)] = {made[p]} /\ made[p] \notin hold[p]
                              /\ \A k \in hold[p] : product[k].node = NodeOf(p)

\* A product is released exactly when nobody is left to release it.
Ledger ==
    ~early /\ ~late =>
        /\ OfTheirNode
        /\ \A k \in Products :
            cleaned[k] = IF k \in Owned(product[k].node) \cup OnTheWay \cup Displaced THEN 0 ELSE 1

\* What is in use is in the slot of its node, or on its way there.
InUse ==
    ~early /\ ~late /\ at["run"] \notin Gone =>
        /\ \A n \in Node :
            /\ live[n] \in Owned(n) \cup OnTheWay \cup {0}
            /\ live[n] # 0 => product[live[n]].node = n
        /\ \A p \in Process :
            at[p] \in {"flush", "store", "write"} => live[NodeOf(p)] = made[p]

\* The hash recorded is that of the product in use, but for the node whose
\* product was put in place and for the logger until the reload ends.
Afresh(n) ==
    \E p \in Process :
        IF n = Logger
        THEN \/ at[p] \in {"flush", "store", "logged"}
             \/ p = "watch" /\ at[p] \in {"diff", "build"} \cup Busy /\ loggerOK
        ELSE at[p] \in {"write", "clean", "mark"} /\ NodeOf(p) = n
Recorded ==
    ~early /\ at["run"] \notin Gone =>
        /\ \A n \in Node :
            /\ Afresh(n) => live[n] # 0 /\ product[live[n]].hash = contract[n]
            /\ ~Afresh(n) /\ applied[n] # Absent => live[n] # 0 /\ product[live[n]].hash = applied[n]
        /\ \A p \in Process : at[p] = "put" => product[made[p]].hash = contract[NodeOf(p)]

IInv == TypeOK /\ MadeFirst /\ TakeTurns /\ OneReload /\ Ledger /\ InUse /\ Recorded
=============================================================================
