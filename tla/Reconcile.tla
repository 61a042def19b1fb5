------------------------------ MODULE Reconcile ------------------------------
(***************************************************************************)
(* The reconcilers of pkg/appkit/reconcile.go over the component engine    *)
(* (module Components): the table of what each reconciler has mounted, and *)
(* the passes that compare it with the configuration and mount or unmount  *)
(* the difference.                                                         *)
(*                                                                         *)
(* Two goroutines run passes: Run, once, after the afterStart hooks, and   *)
(* the config watch, after every change.  The watch begins inside          *)
(* config.Load, and nothing serialises the two.  A reconcile function is   *)
(* user code; the one modelled is the converging function of               *)
(* reconcile_test.go, which names a component as its item.                 *)
(***************************************************************************)
EXTENDS Components

CONSTANTS
    Recon,      \* the reconcilers, in order of registration
    Setting,    \* configurations: [ToSet(Recon) -> SUBSET component names]
    Runner,     \* the mounter that is the Run goroutine
    Watcher,    \* the mounter that is the goroutine of the config watch
    MaxChanges  \* bound: configuration changes

\* Every setting names components for every reconciler.
ASSUME ReconcileAssumption ==
    /\ Recon \in Seq(ToSet(Recon))
    /\ Setting \subseteq [ToSet(Recon) -> SUBSET {CompName[c] : c \in Comp}]
    /\ Runner \in Mounter /\ Watcher \in Mounter /\ Runner # Watcher
    /\ MaxChanges \in Nat

VARIABLES
    settings,   \* what the store publishes
    stored,     \* App.cfg.store is assigned
    changes,    \* changes so far
    items,      \* App.reconItems
    pass,       \* pass[m]: the pass goroutine m is in
    firstBegun, \* Run has begun its first pass
    clean,      \* history: the last pass that ended met no error
    overlapped  \* history: a pass has begun while another was under way

reconVars == <<settings, stored, changes, items, pass, firstBegun, clean, overlapped>>
vars == <<running, reconVars, compVars>>

Item == [name : {CompName[c] : c \in Comp}, comp : Comp]
Phase == {"idle", "notified", "next", "work", "mounting", "record", "unmounting", "disposing"}
Idle == [phase |-> "idle", want |-> <<>>, idx |-> 1, add |-> {}, remove |-> {},
         held |-> <<>>, failed |-> FALSE]
Notified == [Idle EXCEPT !.phase = "notified"]

\* What a reconcile function reads as wanted when there are no settings.
NoSettings == [r \in ToSet(Recon) |-> {}]

TypeOK ==
    /\ CompTypeOK
    /\ running \in BOOLEAN /\ stored \in BOOLEAN /\ firstBegun \in BOOLEAN
    /\ clean \in BOOLEAN /\ overlapped \in BOOLEAN
    /\ settings \in Setting
    /\ changes \in Nat
    /\ items \in [ToSet(Recon) -> Seq(Item)]
    /\ \A m \in Mounter :
        /\ pass[m].phase \in Phase
        /\ pass[m].idx \in 1..(Len(Recon) + 1)
        /\ pass[m].add \cup pass[m].remove \subseteq {CompName[c] : c \in Comp}

Init ==
    /\ CompInit
    /\ running = TRUE
    /\ settings \in Setting
    /\ stored = FALSE
    /\ changes = 0
    /\ items = [r \in ToSet(Recon) |-> <<>>]
    /\ pass = [m \in Mounter |-> Idle]
    /\ firstBegun = FALSE
    /\ clean = FALSE
    /\ overlapped = FALSE

Names(r) == {it.name : it \in ToSet(items[r])}
Current(m) == Recon[pass[m].idx]
In(m, phase) == pass[m].phase = phase
Resting(m) == pass[m].phase \in {"idle", "notified"}

-----------------------------------------------------------------------------
(* A pass: runReconcilers.                                                 *)

\* The snapshot a pass takes.
Snapshot == IF stored THEN settings ELSE NoSettings

\* A pass begins.
Begin(m) ==
    /\ pass' = [pass EXCEPT ![m] = [Idle EXCEPT !.phase = "next", !.want = Snapshot]]
    /\ overlapped' = (overlapped \/ \E n \in Mounter \ {m} : ~Resting(n))
    /\ UNCHANGED <<running, settings, stored, changes, items, clean, compVars>>

\* config.Load has returned to loadConfig.
Loaded ==
    /\ ~stored
    /\ stored' = TRUE
    /\ UNCHANGED <<running, settings, changes, items, pass, firstBegun, clean, overlapped,
                   compVars>>

\* Mutant of FirstPass: Run reconciles before loadConfig has assigned the store.
FirstPassUnstored ==
    /\ ~firstBegun
    /\ ~disposed
    /\ firstBegun' = TRUE
    /\ Begin(Runner)

\* Run's own pass.
FirstPass ==
    /\ stored
    /\ ~firstBegun
    /\ ~disposed
    /\ firstBegun' = TRUE
    /\ Begin(Runner)

\* The watch goroutine merges a change, ...
Change(s) ==
    /\ running
    /\ In(Watcher, "idle")
    /\ changes < MaxChanges
    /\ s # settings
    /\ settings' = s
    /\ changes' = changes + 1
    /\ pass' = [pass EXCEPT ![Watcher] = Notified]
    /\ UNCHANGED <<running, stored, items, firstBegun, clean, overlapped, compVars>>

\* ... calls back, and the callback comes to the reconcilers.
WatchPass(m) ==
    /\ In(m, "notified")
    /\ Begin(m)
    /\ UNCHANGED firstBegun

\* The next reconcile function: what is wanted against what it has mounted.
FnBegins(m) ==
    /\ In(m, "next")
    /\ pass[m].idx <= Len(Recon)
    /\ LET want == pass[m].want[Current(m)]
           have == Names(Current(m))
       IN pass' = [pass EXCEPT ![m].phase = "work",
                               ![m].add = want \ have, ![m].remove = have \ want]
    /\ UNCHANGED <<running, settings, stored, changes, items, firstBegun, clean, overlapped,
                   compVars>>

PassEnds(m) ==
    /\ In(m, "next")
    /\ pass[m].idx > Len(Recon)
    /\ clean' = ~pass[m].failed
    /\ pass' = [pass EXCEPT ![m] = Idle]
    /\ UNCHANGED <<running, settings, stored, changes, items, firstBegun, overlapped, compVars>>

\* The function returns; an error is logged and the next one runs.
FnReturns(m, err) ==
    pass' = [pass EXCEPT ![m].phase = "next", ![m].idx = @ + 1, ![m].held = <<>>,
                         ![m].failed = @ \/ err]

FnEnds(m) ==
    /\ In(m, "work")
    /\ pass[m].add = {} /\ pass[m].remove = {}
    /\ FnReturns(m, FALSE)
    /\ UNCHANGED <<running, settings, stored, changes, items, firstBegun, clean, overlapped,
                   compVars>>

-----------------------------------------------------------------------------
(* reconMount: MountComponent, then the entry in the table.                *)

\* The factory makes a new instance; which one does not matter.
NewInstance(n) == CHOOSE c \in Comp : CompName[c] = n /\ Fresh(c)

MountItem(m, c) ==
    /\ In(m, "work")
    /\ CompName[c] \in pass[m].add
    /\ c = NewInstance(CompName[c])
    /\ MountCheck(m, c)
    /\ pass' = [pass EXCEPT ![m].phase = "mounting",
                            ![m].held = <<[name |-> CompName[c], comp |-> c]>>]
    /\ UNCHANGED <<running, settings, stored, changes, items, firstBegun, clean, overlapped>>

Starts(m) ==
    /\ In(m, "mounting")
    /\ MountStart(m) \/ MountRefuse(m)
    /\ UNCHANGED <<running, reconVars>>

\* Mutant of StartFails: the entry was made before the mount.
StartFailsRecorded(m) ==
    /\ In(m, "mounting")
    /\ MountStartFails(m)
    /\ items' = [items EXCEPT ![Current(m)] = @ \o pass[m].held]
    /\ FnReturns(m, TRUE)
    /\ UNCHANGED <<running, settings, stored, changes, firstBegun, clean, overlapped>>

\* Mutant of StartFails: the error is dropped.
StartFailsUnreported(m) ==
    /\ In(m, "mounting")
    /\ MountStartFails(m)
    /\ FnReturns(m, FALSE)
    /\ UNCHANGED <<running, settings, stored, changes, items, firstBegun, clean, overlapped>>

\* Start failed: the error ends the function.
StartFails(m) ==
    /\ In(m, "mounting")
    /\ MountStartFails(m)
    /\ FnReturns(m, TRUE)
    /\ UNCHANGED <<running, settings, stored, changes, items, firstBegun, clean, overlapped>>

\* The rollback of a refused mount, and its error.
RollsBack(m) ==
    /\ In(m, "mounting")
    /\ MounterDispose(m)
    /\ FnReturns(m, TRUE)
    /\ UNCHANGED <<running, settings, stored, changes, items, firstBegun, clean, overlapped>>

Commits(m) ==
    /\ In(m, "mounting")
    /\ MountCommit(m)
    /\ pass' = [pass EXCEPT ![m].phase = "record"]
    /\ UNCHANGED <<running, settings, stored, changes, items, firstBegun, clean, overlapped>>

Records(m) ==
    /\ In(m, "record")
    /\ items' = [items EXCEPT ![Current(m)] = Append(@, pass[m].held[1])]
    /\ pass' = [pass EXCEPT ![m].phase = "work", ![m].held = <<>>,
                            ![m].add = @ \ {pass[m].held[1].name}]
    /\ UNCHANGED <<running, settings, stored, changes, firstBegun, clean, overlapped, compVars>>

-----------------------------------------------------------------------------
(* reconUnmount: the entry leaves the table, then UnmountComponent by name. *)

\* The first entry of that name; without one the function ends in an error.
Disowns(m, n) ==
    /\ In(m, "work")
    /\ pass[m].add = {}
    /\ n \in pass[m].remove
    /\ IF n \in Names(Current(m))
       THEN LET mine == items[Current(m)]
            IN \E i \in 1..Len(mine) :
                  /\ mine[i].name = n /\ \A j \in 1..(i - 1) : mine[j].name # n
                  /\ items' = [items EXCEPT ![Current(m)] = RemoveAt(@, i)]
                  /\ pass' = [pass EXCEPT ![m].phase = "unmounting",
                                          ![m].held = <<mine[i]>>]
       ELSE FnReturns(m, TRUE) /\ UNCHANGED items
    /\ UNCHANGED <<running, settings, stored, changes, firstBegun, clean, overlapped, compVars>>

Takes(m) ==
    /\ In(m, "unmounting")
    /\ \E c \in Comp : CompName[c] = pass[m].held[1].name /\ UnmountTake(m, c)
    /\ pass' = [pass EXCEPT ![m].phase = "disposing"]
    /\ UNCHANGED <<running, settings, stored, changes, items, firstBegun, clean, overlapped>>

NoneMounted(m) == \A c \in ToSet(started) : CompName[c] # pass[m].held[1].name

\* Mutant of NotMounted: ownership is restored and the unmount retried.
NotMountedRetried(m) ==
    /\ In(m, "unmounting")
    /\ NoneMounted(m)
    /\ items' = [items EXCEPT ![Current(m)] = @ \o pass[m].held]
    /\ pass' = [pass EXCEPT ![m].phase = "work"]
    /\ UNCHANGED <<running, settings, stored, changes, firstBegun, clean, overlapped, compVars>>

\* The stop sequence has taken it: "not mounted"; ownership is not restored.
NotMounted(m) ==
    /\ In(m, "unmounting")
    /\ NoneMounted(m)
    /\ FnReturns(m, TRUE)
    /\ UNCHANGED <<running, settings, stored, changes, items, firstBegun, clean, overlapped,
                   compVars>>

Disposes(m) ==
    /\ In(m, "disposing")
    /\ MounterDispose(m)
    /\ pass' = [pass EXCEPT ![m].phase = "work", ![m].held = <<>>,
                            ![m].remove = @ \ {pass[m].held[1].name}]
    /\ UNCHANGED <<running, settings, stored, changes, items, firstBegun, clean, overlapped>>

-----------------------------------------------------------------------------
(* The end of the App, as far as it meets the reconcilers.                 *)

\* Run reaches the last phase of stopAll: after its own pass, or without one
\* when a start-up step before it failed.
StopBegins ==
    /\ stored
    /\ In(Runner, "idle")
    /\ ~disposed
    /\ BeginDispose
    /\ UNCHANGED <<running, reconVars>>

StopDisposes == DisposeComponent /\ UNCHANGED <<running, reconVars>>

\* Store.Close waits for the watch goroutine; then the slot is given back.
StopEnds ==
    /\ running
    /\ disposed /\ disposeQ = <<>>
    /\ In(Watcher, "idle")
    /\ running' = FALSE
    /\ UNCHANGED <<reconVars, compVars>>

PassStep(m) ==
    \/ WatchPass(m)
    \/ FnBegins(m) \/ FnEnds(m) \/ PassEnds(m)
    \/ \E c \in Comp : MountItem(m, c)
    \/ Starts(m) \/ StartFails(m) \/ RollsBack(m) \/ Commits(m) \/ Records(m)
    \/ \E n \in pass[m].remove : Disowns(m, n)
    \/ Takes(m) \/ NotMounted(m) \/ Disposes(m)

StopStep == StopDisposes \/ StopEnds

Terminated == ~running /\ UNCHANGED vars

Next ==
    \/ Loaded \/ FirstPass \/ \E s \in Setting : Change(s)
    \/ \E m \in Mounter : PassStep(m)
    \/ StopBegins \/ StopStep
    \/ Terminated

(* Both goroutines run on; Start and Dispose return.  Nothing forces a     *)
(* change, nor the App to stop.                                            *)
Fairness ==
    /\ WF_vars(Loaded) /\ WF_vars(FirstPass)
    /\ \A m \in Mounter : WF_vars(PassStep(m))
    /\ WF_vars(StopStep)

Spec == Init /\ [][Next]_vars /\ Fairness

-----------------------------------------------------------------------------
(* Properties.                                                             *)

OncePerName(s) == \A i, j \in 1..Len(s) : s[i].name = s[j].name => i = j

(* The table tells the truth: until the stop sequence disposes, what a     *)
(* reconciler owns is up and part of the stop sequence, under a name it    *)
(* owns once, and in no other reconciler's table ("the entry is made only  *)
(* after the mount, so that the table agrees with what is mounted").  The  *)
(* exception is what nothing rules out: a pass of the config watch that    *)
(* overlaps with the first pass of Run.  Both find a name missing, both    *)
(* mount it, and one may unmount what the other has just brought up.       *)
TableTruthful ==
    /\ TypeOK  \* the state is well formed, and
    /\ ~overlapped =>
        /\ \A r \in ToSet(Recon) : OncePerName(items[r])
        /\ \A r \in ToSet(Recon) : \A it \in ToSet(items[r]) :
              ~disposed => it.comp \in ToSet(started)
        /\ \A q, r \in ToSet(Recon) : \A it \in ToSet(items[q]) \cap ToSet(items[r]) : q = r

(* Reconciliation converges: once the first pass has been made, whenever   *)
(* no pass is under way or due and the last one met no error, exactly the  *)
(* components the configuration names are up, whatever changed or failed   *)
(* before.  The exception is again an overlap, where a pass with the older *)
(* snapshot, or with none, may be the last to end.                         *)
Settled ==
    /\ \A m \in Mounter : In(m, "idle")
    /\ firstBegun /\ clean /\ ~disposed /\ ~overlapped
    => \A r \in ToSet(Recon) :
          /\ Names(r) = settings[r]
          /\ settings[r] \subseteq {CompName[c] : c \in ToSet(started)}

(* The App ends although a pass may be mounting and unmounting while its   *)
(* components are disposed: Store.Close does not wait for ever.            *)
StopReturns == disposed ~> ~running
-----------------------------------------------------------------------------
(* What TableTruthful and Settled rest on: as long as no passes overlap,   *)
(* and no two reconcilers ask for one name.                                *)

PassType ==
    LET name == {CompName[c] : c \in Comp}
    IN [phase : Phase, want : Setting \cup {<<>>, NoSettings}, idx : 1..(Len(Recon) + 1),
        add : SUBSET name, remove : SUBSET name,
        held : {<<>>} \cup {<<it>> : it \in Item}, failed : BOOLEAN]

\* What a pass works with, whatever other passes do.
Holding(m) ==
    LET p == pass[m]
    IN /\ ~Resting(m) => p.want \in Setting \cup {NoSettings}
       /\ p.phase \notin {"idle", "notified", "next"} => p.idx <= Len(Recon)
       /\ p.phase \in {"mounting", "record", "unmounting", "disposing"} => p.held # <<>>

Typed ==
    /\ TypeOK
    /\ pass \in [Mounter -> PassType]
    /\ SingleOwner /\ MountersConsistent
    /\ ~disposed => disposeQ = <<>>
    /\ \A m \in Mounter : Holding(m)

\* Two passes never overlap.
OnePass ==
    /\ \A m \in Mounter : ~In(m, "idle") => m \in {Runner, Watcher}
    /\ ~In(Runner, "notified") /\ (~firstBegun => In(Runner, "idle"))
    /\ Resting(Runner) \/ Resting(Watcher)
    /\ firstBegun => stored

\* A pass works for the settings of the moment, unless a further change is
\* on its way to a pass of its own, or Run's pass is still to come.
UpToDate ==
    \A m \in Mounter : ~Resting(m) =>
        pass[m].want = settings \/ In(Watcher, "notified") \/ ~firstBegun

\* The names the settings may give a reconciler.
Pool(r) == UNION {s[r] : s \in Setting}

Tables ==
    \A r \in ToSet(Recon) :
        /\ OncePerName(items[r])
        /\ \A it \in ToSet(items[r]) : it.name = CompName[it.comp] /\ it.name \in Pool(r)

\* Until the stop sequence disposes, exactly this is in it: what the tables
\* list, and the component of a pass between the list and its table.
HeldMounted(m) == pass[m].phase \in {"record", "unmounting"}
Listed(c) == \E r \in ToSet(Recon) : \E it \in ToSet(items[r]) : it.comp = c
Mounted ==
    ~disposed =>
        \A c \in Comp : c \in ToSet(started) <=>
            Listed(c) \/ \E m \in Mounter : HeldMounted(m) /\ pass[m].held[1].comp = c

\* Where a pass stands, and what it holds there.
Standing(m) ==
    LET p == pass[m]
    IN /\ p.phase = "idle" => p = Idle
       /\ p.phase = "notified" => p = Notified
       /\ at[m] = "idle" <=> p.phase \notin {"mounting", "disposing"}
       /\ p.phase \in {"idle", "notified", "next", "work"} <=> p.held = <<>>
       /\ p.held # <<>> => p.held[1].name = CompName[p.held[1].comp]
       /\ p.phase = "mounting" => at[m] # "unmounting" /\ p.held[1].comp = arg[m]
       /\ p.phase \in {"mounting", "record"} => p.held[1].name \in p.add
       /\ p.phase \in {"unmounting", "disposing"} =>
             p.held[1].name \in p.remove \cap Pool(Current(m)) /\ p.add = {}

\* The table of the function under way, by what is left to do.
Diff(m) ==
    LET p == pass[m]
        want == p.want[Current(m)]
        leaving == IF p.phase \in {"unmounting", "disposing"} THEN {p.held[1].name} ELSE {}
    IN p.phase \notin {"idle", "notified", "next"} =>
        /\ p.add \subseteq want /\ p.remove \cap want = {}
        /\ Names(Current(m)) = (want \ p.add) \cup (p.remove \ leaving)

\* The functions a pass without an error has run left what they were asked for.
Reached(m) ==
    ~Resting(m) /\ ~pass[m].failed =>
        \A k \in 1..(pass[m].idx - 1) : Names(Recon[k]) = pass[m].want[Recon[k]]

Converged ==
    (\A m \in Mounter : In(m, "idle")) /\ firstBegun /\ clean =>
        \A r \in ToSet(Recon) : Names(r) = settings[r]

Alone ==
    /\ OnePass /\ UpToDate /\ Tables /\ Mounted /\ Converged
    /\ \A m \in Mounter : Standing(m) /\ Diff(m) /\ Reached(m)

IInv == Typed /\ (~overlapped => Alone)
=============================================================================
