---------------------------- MODULE AppLifecycle ----------------------------
(***************************************************************************)
(* App.Run of pkg/appkit/appkit.go: the start-up sequence, its five        *)
(* failure windows, the main wait, the five-phase stop sequence and the    *)
(* outcome Run returns, together with the effect ledger                    *)
(* (pkg/appkit/effect.go), the components (module Components), the server  *)
(* goroutines of the errgroup and the service registry entry.              *)
(*                                                                         *)
(* One App is started at most once successfully: a Run whose loadConfig    *)
(* failed may be retried (the code gives `running' back for that), a Run   *)
(* that went further ends the App.                                         *)
(***************************************************************************)
EXTENDS Components

CONSTANTS
    Server,          \* the servers of App.servers
    CtxServer,       \* those whose Start returns ctx.Err() once ctx is cancelled
    FixedServer,     \* those on a fixed port: Endpoint() is resolved before Start
    StrictServer,    \* those whose Start, called after Stop, returns an error
                     \* (grpc-go: ErrServerStopped) rather than nil
    Watcher,         \* the mounter that is the goroutine of the config watch
    NumEffects,      \* effects declared at assembly
    NumHooks,        \* beforeStart hooks; hook i may register effect NumEffects + i
    MaxLoadFailures  \* bound: failed loadConfig attempts

ASSUME LifecycleAssumption ==
    /\ CtxServer \subseteq Server
    /\ FixedServer \subseteq Server
    /\ StrictServer \subseteq Server
    /\ Watcher \in Mounter
    /\ NumEffects \in Nat
    /\ NumHooks \in Nat
    /\ MaxLoadFailures \in Nat

VARIABLES
    pc,              \* the Run goroutine
    path,            \* why effects are being undone: "load", "early" or "stop"
    stepErr,         \* error of the start-up step that failed
    result,          \* what the last Run returned
    runErr,          \* App.runErr, what Err() reports
    loadFailures,    \* failed loadConfig attempts so far
    hook,            \* next beforeStart hook
    ledger,          \* App.effects
    undoQ,           \* the snapshot UndoEffects walks, last entry first
    undone,          \* history: effects undone so far, in order
    registered,      \* history: effects ever put in the ledger
    callerCancelled, \* the caller's ctx is cancelled
    cancelled,       \* Run called cancel() itself
    groupErr,        \* first non-nil error of the errgroup
    srv,             \* srv[s]: the goroutine of Start, or what Start returned
    bound,           \* servers whose Endpoint() is resolved
    inflight,        \* servers with requests being handled
    stopAsked,       \* servers whose Stop was called
    stopRet,         \* servers whose Stop returned
    stopTimedOut,    \* servers whose Stop gave up waiting
    entry,           \* the registry holds this instance
    entryFault,      \* the registrar returned an error to Register or Deregister
    storeOpen,       \* the config store, and so its watch goroutine, is live
    doneClosed,      \* App.done is closed
    fault            \* history: something failed for a reason of its own

runVars == <<pc, path, stepErr, result, runErr, loadFailures, hook, running>>
effectVars == <<ledger, undoQ, undone, registered>>
ctxVars == <<callerCancelled, cancelled>>
srvVars == <<groupErr, srv, bound, inflight, stopAsked, stopRet, stopTimedOut>>
regVars == <<entry, entryFault>>
miscVars == <<storeOpen, doneClosed>>
vars == <<runVars, effectVars, ctxVars, srvVars, regVars, miscVars, fault, compVars>>

Failure == {"error", "canceled"}  \* canceled: errors.Is(err, context.Canceled)
Outcome == Failure \cup {"nil"}

PC == {"idle", "load", "undo", "resolve", "beforeStart", "components", "launch",
       "endpoints", "register", "afterStart", "main", "deregister", "beforeStop",
       "stopping", "afterStop", "dispose", "groupWait", "outcome", "closeStore",
       "watchWait", "closeDone", "release", "returned"}

RunTypeOK ==
    /\ running \in BOOLEAN
    /\ pc \in PC
    /\ path \in {"none", "load", "early", "stop"}
    /\ stepErr \in Outcome
    /\ result \in Outcome
    /\ runErr \in Outcome
    /\ loadFailures \in Nat
    /\ hook \in Nat \ {0}
    /\ ledger \in Seq(Nat)
    /\ undoQ \in Seq(Nat)
    /\ undone \in Seq(Nat)
    /\ registered \in Seq(Nat)
    /\ callerCancelled \in BOOLEAN
    /\ cancelled \in BOOLEAN
    /\ groupErr \in Outcome
    /\ srv \in [Server -> {"off", "launched", "serving"} \cup Outcome]
    /\ bound \subseteq Server
    /\ inflight \subseteq Server
    /\ stopAsked \subseteq Server
    /\ stopRet \subseteq Server
    /\ stopTimedOut \subseteq Server
    /\ entry \in BOOLEAN
    /\ entryFault \in BOOLEAN
    /\ storeOpen \in BOOLEAN
    /\ doneClosed \in BOOLEAN
    /\ fault \in BOOLEAN

TypeOK == CompTypeOK /\ RunTypeOK

Init ==
    /\ CompInit
    /\ running = FALSE
    /\ pc = "idle"
    /\ path = "none"
    /\ stepErr = "nil" /\ result = "nil" /\ runErr = "nil"
    /\ loadFailures = 0
    /\ hook = 1
    /\ ledger = [i \in 1..NumEffects |-> i]
    /\ registered = ledger
    /\ undoQ = <<>> /\ undone = <<>>
    /\ callerCancelled = FALSE /\ cancelled = FALSE
    /\ groupErr = "nil"
    /\ srv = [s \in Server |-> "off"]
    /\ bound = FixedServer /\ inflight = {} /\ stopAsked = {} /\ stopRet = {} /\ stopTimedOut = {}
    /\ entry = FALSE /\ entryFault = FALSE
    /\ storeOpen = FALSE /\ doneClosed = FALSE
    /\ fault = FALSE

-----------------------------------------------------------------------------
(* Contexts.                                                               *)

\* ctx, derived from the caller's, and gctx, which a failing server cancels.
CtxDone  == callerCancelled \/ cancelled
GctxDone == CtxDone \/ groupErr # "nil"

\* A step of the caller's code reports e: its own failure, or a cancellation.
\* A hook may also return a Canceled of its own making.
StepFails(e, done) ==
    /\ e \in Failure
    /\ fault' = (fault \/ e = "error" \/ ~done)

Goto(l) == pc' = l

\* The caller cancels the ctx it passed to Run.
CallerCancel ==
    /\ pc \notin {"idle", "returned"}
    /\ ~callerCancelled
    /\ callerCancelled' = TRUE
    /\ UNCHANGED <<runVars, effectVars, cancelled, srvVars, regVars, miscVars, fault, compVars>>

-----------------------------------------------------------------------------
(* The effect ledger.                                                      *)

\* UndoEffects up to its unlock, then the walk on the way named by p.
BeginUndo(p) ==
    /\ Goto("undo")
    /\ path' = p
    /\ undoQ' = ledger
    /\ ledger' = <<>>
    /\ UNCHANGED <<undone, registered>>

UndoEffect ==
    /\ pc = "undo"
    /\ undoQ # <<>>
    /\ undone' = Append(undone, Last(undoQ))
    /\ undoQ' = Front(undoQ)
    /\ UNCHANGED <<runVars, ledger, registered, ctxVars, srvVars, regVars, miscVars, fault, compVars>>

\* Mutant of EndUndo: g.Wait before the servers are stopped.
EndUndoThenWait ==
    /\ pc = "undo"
    /\ undoQ = <<>>
    /\ Goto(CASE path = "load"  -> "idle"
              [] path = "early" -> "outcome"
              [] OTHER          -> "groupWait")
    /\ UNCHANGED <<path, stepErr, result, runErr, loadFailures, hook, running,
                   effectVars, ctxVars, srvVars, regVars, miscVars, fault, compVars>>

\* After the walk: loadConfig's failure returns and leaves the App retryable,
\* a failure before the components takes no stopAll, everything else does.
EndUndo ==
    /\ pc = "undo"
    /\ undoQ = <<>>
    /\ Goto(CASE path = "load"  -> "idle"
              [] path = "early" -> "outcome"
              [] OTHER          -> "beforeStop")
    /\ UNCHANGED <<path, stepErr, result, runErr, loadFailures, hook, running,
                   effectVars, ctxVars, srvVars, regVars, miscVars, fault, compVars>>

-----------------------------------------------------------------------------
(* Start-up.                                                               *)

\* Run takes the slot; `running' is claimed before the configuration loads.
RunBegin ==
    /\ pc = "idle"
    /\ ~running
    /\ running' = TRUE
    /\ Goto("load")
    /\ path' = "none"
    /\ fault' = FALSE
    /\ UNCHANGED <<stepErr, result, runErr, loadFailures, hook, effectVars, ctxVars,
                   srvVars, regVars, miscVars, compVars>>

\* loadConfig failed: the slot is given back before the effects are undone;
\* done stays open.
LoadFails ==
    /\ pc = "load"
    /\ loadFailures < MaxLoadFailures
    /\ loadFailures' = loadFailures + 1
    /\ running' = FALSE
    /\ result' = "error" /\ runErr' = "error"
    /\ BeginUndo("load")
    /\ fault' = TRUE
    /\ UNCHANGED <<stepErr, hook, ctxVars, srvVars, regVars, miscVars, compVars>>

LoadSucceeds ==
    /\ pc = "load"
    /\ storeOpen' = TRUE
    /\ Goto("resolve")
    /\ UNCHANGED <<path, stepErr, result, runErr, loadFailures, hook, running, effectVars,
                   ctxVars, srvVars, regVars, doneClosed, fault, compVars>>

\* Resolve found every capability.
Resolves ==
    /\ pc = "resolve"
    /\ Goto("beforeStart")
    /\ UNCHANGED <<path, stepErr, result, runErr, loadFailures, hook, running, effectVars,
                   ctxVars, srvVars, regVars, miscVars, fault, compVars>>

\* Mutant of EarlyFails: the exit undoes the effects of assembly and forgets
\* those the hooks before the failing one added.
EarlyFailsForgettingHooks(e) ==
    /\ \/ pc = "resolve" /\ e = "error"
       \/ pc = "beforeStart" /\ hook <= NumHooks
    /\ StepFails(e, CtxDone)
    /\ stepErr' = e
    /\ Goto("undo")
    /\ path' = "early"
    /\ undoQ' = SelectSeq(ledger, LAMBDA x : x <= NumEffects)
    /\ ledger' = <<>>
    /\ UNCHANGED <<undone, registered, result, runErr, loadFailures, hook, running, ctxVars,
                   srvVars, regVars, miscVars, compVars>>

\* Resolve failed, or a beforeStart hook did: only the effects are undone.
EarlyFails(e) ==
    /\ \/ pc = "resolve" /\ e = "error"
       \/ pc = "beforeStart" /\ hook <= NumHooks
    /\ StepFails(e, CtxDone)
    /\ stepErr' = e
    /\ BeginUndo("early")
    /\ UNCHANGED <<result, runErr, loadFailures, hook, running, ctxVars, srvVars, regVars,
                   miscVars, compVars>>

\* The next beforeStart hook returns nil; the provider hooks register the
\* cleanup of what they built (addEffect).
HookRuns(adds) ==
    /\ pc = "beforeStart"
    /\ hook <= NumHooks
    /\ hook' = hook + 1
    /\ ledger' = IF adds THEN Append(ledger, NumEffects + hook) ELSE ledger
    /\ registered' = IF adds THEN Append(registered, NumEffects + hook) ELSE registered
    /\ UNCHANGED <<pc, path, stepErr, result, runErr, loadFailures, running, undoQ, undone,
                   ctxVars, srvVars, regVars, miscVars, fault, compVars>>

HooksDone ==
    /\ pc = "beforeStart"
    /\ hook > NumHooks
    /\ Goto("components")
    /\ UNCHANGED <<path, stepErr, result, runErr, loadFailures, hook, running, effectVars,
                   ctxVars, srvVars, regVars, miscVars, fault, compVars>>

ComponentStarts ==
    /\ pc = "components"
    /\ StartComponent
    /\ UNCHANGED <<runVars, effectVars, ctxVars, srvVars, regVars, miscVars, fault>>

\* A start-up step from the components on fails with e: cancel, then stopAll,
\* whose first phase is the ledger.
StopFails(e) ==
    /\ stepErr' = e
    /\ cancelled' = TRUE
    /\ BeginUndo("stop")
    /\ UNCHANGED <<result, runErr, loadFailures, hook, running, callerCancelled, miscVars,
                   compVars>>

ComponentFails(e) ==
    /\ pc = "components"
    /\ nextComp <= Len(Declared)
    /\ StepFails(e, CtxDone)
    /\ StopFails(e)
    /\ UNCHANGED <<srvVars, regVars>>

\* All components are up; g.Go starts one goroutine per server.
Launch ==
    /\ pc = "components"
    /\ nextComp > Len(Declared)
    /\ srv' = [s \in Server |-> "launched"]
    /\ Goto("endpoints")
    /\ UNCHANGED <<path, stepErr, result, runErr, loadFailures, hook, running, effectVars,
                   ctxVars, groupErr, bound, inflight, stopAsked, stopRet, stopTimedOut,
                   regVars, miscVars, fault, compVars>>

\* waitForEndpoints: every Endpoint() is resolved; looked at before ctx is.
EndpointsReady ==
    /\ pc = "endpoints"
    /\ bound = Server
    /\ Goto("register")
    /\ UNCHANGED <<path, stepErr, result, runErr, loadFailures, hook, running, effectVars,
                   ctxVars, srvVars, regVars, miscVars, fault, compVars>>

\* Some endpoint is missing and gctx is done, or the budget is spent.
EndpointsFail(e) ==
    /\ pc = "endpoints"
    /\ bound # Server
    /\ e = "canceled" => GctxDone
    /\ StepFails(e, GctxDone)
    /\ StopFails(e)
    /\ UNCHANGED <<srvVars, regVars>>

RegisterSucceeds ==
    /\ pc = "register"
    /\ entry' = TRUE
    /\ Goto("afterStart")
    /\ UNCHANGED <<path, stepErr, result, runErr, loadFailures, hook, running, effectVars,
                   ctxVars, srvVars, entryFault, miscVars, fault, compVars>>

\* Register reports an error; the entry may have been written all the same.
RegisterFails(e, left) ==
    /\ pc = "register"
    /\ entry' = left
    /\ entryFault' = TRUE
    /\ StepFails(e, GctxDone)
    /\ StopFails(e)
    /\ UNCHANGED srvVars

\* The afterStart hooks and the first reconciliation; startedCh is closed.
AfterStartSucceeds ==
    /\ pc = "afterStart"
    /\ Goto("main")
    /\ UNCHANGED <<path, stepErr, result, runErr, loadFailures, hook, running, effectVars,
                   ctxVars, srvVars, regVars, miscVars, fault, compVars>>

\* Mutant of AfterStartFails: stopAll without deregister.
AfterStartFailsRegistered(e) ==
    /\ pc = "afterStart"
    /\ StepFails(e, GctxDone)
    /\ StopFails(e)
    /\ UNCHANGED <<srvVars, regVars>>

AfterStartFails(e) ==
    /\ pc = "afterStart"
    /\ StepFails(e, GctxDone)
    /\ stepErr' = e
    /\ cancelled' = TRUE
    /\ Goto("deregister")
    /\ UNCHANGED <<path, result, runErr, loadFailures, hook, running, callerCancelled,
                   effectVars, srvVars, regVars, miscVars, compVars>>

-----------------------------------------------------------------------------
(* The main wait and the stop sequence.                                    *)

\* The select sees gctx done: the caller cancelled or a server failed.
WakeOnContext ==
    /\ pc = "main"
    /\ GctxDone
    /\ Goto("deregister")
    /\ UNCHANGED <<path, stepErr, result, runErr, loadFailures, hook, running, effectVars,
                   ctxVars, srvVars, regVars, miscVars, fault, compVars>>

\* The select sees SIGINT or SIGTERM.
WakeOnSignal ==
    /\ pc = "main"
    /\ cancelled' = TRUE
    /\ Goto("deregister")
    /\ UNCHANGED <<path, stepErr, result, runErr, loadFailures, hook, running, effectVars,
                   callerCancelled, srvVars, regVars, miscVars, fault, compVars>>

\* deregister, whose error is only logged, then stopAll begins with the ledger.
Deregister(failed, left) ==
    /\ pc = "deregister"
    /\ left => failed
    /\ entry' = (entry /\ left)
    /\ entryFault' = (entryFault \/ failed)
    /\ BeginUndo("stop")
    /\ UNCHANGED <<stepErr, result, runErr, loadFailures, hook, running, ctxVars, srvVars,
                   miscVars, fault, compVars>>

\* The beforeStop hooks (bounded and panic-safe), then Stop of every server,
\* each in a goroutine of its own.
StopServers ==
    /\ pc = "beforeStop"
    /\ stopAsked' = Server
    /\ Goto("stopping")
    /\ UNCHANGED <<path, stepErr, result, runErr, loadFailures, hook, running, effectVars,
                   ctxVars, groupErr, srv, bound, inflight, stopRet, stopTimedOut, regVars,
                   miscVars, fault, compVars>>

\* Mutant of ServersStopped: no wg.Wait.
GoOnWithoutStops ==
    /\ pc = "stopping"
    /\ Goto("afterStop")
    /\ UNCHANGED <<path, stepErr, result, runErr, loadFailures, hook, running, effectVars,
                   ctxVars, srvVars, regVars, miscVars, fault, compVars>>

\* wg.Wait: every Stop has returned.
ServersStopped ==
    /\ pc = "stopping"
    /\ stopRet = Server
    /\ Goto("afterStop")
    /\ UNCHANGED <<path, stepErr, result, runErr, loadFailures, hook, running, effectVars,
                   ctxVars, srvVars, regVars, miscVars, fault, compVars>>

\* The afterStop hooks, then disposeComponents.
DisposeBegins ==
    /\ pc = "afterStop"
    /\ BeginDispose
    /\ Goto("dispose")
    /\ UNCHANGED <<path, stepErr, result, runErr, loadFailures, hook, running, effectVars,
                   ctxVars, srvVars, regVars, miscVars, fault>>

DisposeNext ==
    /\ pc = "dispose"
    /\ DisposeComponent
    /\ UNCHANGED <<runVars, effectVars, ctxVars, srvVars, regVars, miscVars, fault>>

\* Mutant of StopAllDone: Run goes on without g.Wait.
NoGroupWait ==
    /\ pc = "dispose"
    /\ disposeQ = <<>>
    /\ Goto("outcome")
    /\ UNCHANGED <<path, stepErr, result, runErr, loadFailures, hook, running, effectVars,
                   ctxVars, srvVars, regVars, miscVars, fault, compVars>>

\* stopAll is over.  The errgroup exists only if every component started.
StopAllDone ==
    /\ pc = "dispose"
    /\ disposeQ = <<>>
    /\ Goto(IF nextComp <= Len(Declared) THEN "outcome" ELSE "groupWait")
    /\ UNCHANGED <<path, stepErr, result, runErr, loadFailures, hook, running, effectVars,
                   ctxVars, srvVars, regVars, miscVars, fault, compVars>>

-----------------------------------------------------------------------------
(* The outcome.                                                            *)

\* Mutant of GroupEnds: a cancelled caller is not told of a failed server.
GroupEndsQuietly ==
    /\ pc = "groupWait"
    /\ \A s \in Server : srv[s] \in Outcome
    /\ IF groupErr = "error" /\ ~callerCancelled
       THEN result' = "error" /\ runErr' = "error" /\ Goto("closeStore")
       ELSE IF stepErr = "nil"
       THEN result' = "nil" /\ UNCHANGED runErr /\ Goto("closeStore")
       ELSE UNCHANGED <<result, runErr>> /\ Goto("outcome")
    /\ UNCHANGED <<path, stepErr, loadFailures, hook, running, effectVars, ctxVars, srvVars,
                   regVars, miscVars, fault, compVars>>

\* g.Wait, at the end of Run and in abortStartup: the first error of the
\* group decides when it is not a cancellation.
GroupEnds ==
    /\ pc = "groupWait"
    /\ \A s \in Server : srv[s] \in Outcome
    /\ IF groupErr = "error"
       THEN result' = "error" /\ runErr' = "error" /\ Goto("closeStore")
       ELSE IF stepErr = "nil"
       THEN result' = "nil" /\ UNCHANGED runErr /\ Goto("closeStore")
       ELSE UNCHANGED <<result, runErr>> /\ Goto("outcome")
    /\ UNCHANGED <<path, stepErr, loadFailures, hook, running, effectVars, ctxVars, srvVars,
                   regVars, miscVars, fault, compVars>>

\* Mutants of CleanStop: the error is not looked at; every step error is fatal.
AnyErrorIsClean(e) == callerCancelled
NoErrorIsClean(e) == e = "nil"

\* startupOutcome: only the caller's own cancellation is a clean end.
CleanStop(e) == callerCancelled /\ e = "canceled"

StartupOutcome ==
    /\ pc = "outcome"
    /\ IF CleanStop(stepErr)
       THEN result' = "nil" /\ UNCHANGED runErr
       ELSE result' = stepErr /\ runErr' = stepErr
    /\ Goto("closeStore")
    /\ UNCHANGED <<path, stepErr, loadFailures, hook, running, effectVars, ctxVars, srvVars,
                   regVars, miscVars, fault, compVars>>

\* The deferred calls of Run, last registered first.  Store.Close cancels the
\* watch goroutine, which makes no new callback, ...
CloseStore ==
    /\ pc = "closeStore"
    /\ storeOpen' = FALSE
    /\ Goto("watchWait")
    /\ UNCHANGED <<path, stepErr, result, runErr, loadFailures, hook, running, effectVars,
                   ctxVars, srvVars, regVars, doneClosed, fault, compVars>>

\* Mutant of WatchEnds: Close does not wait for the callback.
WatchAbandoned ==
    /\ pc = "watchWait"
    /\ Goto("closeDone")
    /\ UNCHANGED <<path, stepErr, result, runErr, loadFailures, hook, running, effectVars,
                   ctxVars, srvVars, regVars, miscVars, fault, compVars>>

\* ... and waits for it to leave the callback it may be in.
WatchEnds ==
    /\ pc = "watchWait"
    /\ at[Watcher] = "idle"
    /\ Goto("closeDone")
    /\ UNCHANGED <<path, stepErr, result, runErr, loadFailures, hook, running, effectVars,
                   ctxVars, srvVars, regVars, miscVars, fault, compVars>>

CloseDone ==
    /\ pc = "closeDone"
    /\ doneClosed' = TRUE
    /\ Goto("release")
    /\ UNCHANGED <<path, stepErr, result, runErr, loadFailures, hook, running, effectVars,
                   ctxVars, srvVars, regVars, storeOpen, fault, compVars>>

Release ==
    /\ pc = "release"
    /\ running' = FALSE
    /\ Goto("returned")
    /\ UNCHANGED <<path, stepErr, result, runErr, loadFailures, hook, effectVars, ctxVars,
                   srvVars, regVars, miscVars, fault, compVars>>

-----------------------------------------------------------------------------
(* The servers.                                                            *)

\* Start of s returns e: the errgroup keeps the first error.
StartReturns(s, e) ==
    /\ srv' = [srv EXCEPT ![s] = e]
    /\ groupErr' = IF groupErr = "nil" THEN e ELSE groupErr

\* s listens and serves.
Listens(s) ==
    /\ srv[s] = "launched"
    /\ s \notin stopAsked
    /\ srv' = [srv EXCEPT ![s] = "serving"]
    /\ bound' = bound \cup {s}
    /\ UNCHANGED <<groupErr, inflight, stopAsked, stopRet, stopTimedOut, fault>>

\* s listens only after its Stop was called: Serve refuses at once.
ListensTooLate(s) ==
    /\ srv[s] = "launched"
    /\ s \in stopAsked
    /\ StartReturns(s, IF s \in StrictServer THEN "error" ELSE "nil")
    /\ bound' = bound \cup {s}
    /\ UNCHANGED <<inflight, stopAsked, stopRet, stopTimedOut, fault>>

BindFails(s) ==
    /\ srv[s] = "launched"
    /\ StartReturns(s, "error")
    /\ fault' = TRUE
    /\ UNCHANGED <<bound, inflight, stopAsked, stopRet, stopTimedOut>>

Crashes(s) ==
    /\ srv[s] = "serving"
    /\ StartReturns(s, "error")
    /\ fault' = TRUE
    /\ UNCHANGED <<bound, inflight, stopAsked, stopRet, stopTimedOut>>

\* Serve returns because Stop was called.
Drains(s) ==
    /\ srv[s] = "serving"
    /\ s \in stopAsked
    /\ StartReturns(s, "nil")
    /\ UNCHANGED <<bound, inflight, stopAsked, stopRet, stopTimedOut, fault>>

\* A Start that watches its ctx returns ctx.Err().
SeesContext(s) ==
    /\ s \in CtxServer
    /\ srv[s] \in {"launched", "serving"}
    /\ GctxDone
    /\ StartReturns(s, "canceled")
    /\ UNCHANGED <<bound, inflight, stopAsked, stopRet, stopTimedOut, fault>>

RequestBegins(s) ==
    /\ srv[s] = "serving"
    /\ s \notin stopAsked \cup inflight
    /\ inflight' = inflight \cup {s}
    /\ UNCHANGED <<groupErr, srv, bound, stopAsked, stopRet, stopTimedOut, fault>>

RequestEnds(s) ==
    /\ s \in inflight
    /\ inflight' = inflight \ {s}
    /\ UNCHANGED <<groupErr, srv, bound, stopAsked, stopRet, stopTimedOut, fault>>

\* Stop returns: drained, or out of its stopTimeout with requests running.
StopReturns(s) ==
    /\ s \in stopAsked \ stopRet
    /\ stopRet' = stopRet \cup {s}
    /\ stopTimedOut' = IF s \in inflight THEN stopTimedOut \cup {s} ELSE stopTimedOut
    /\ UNCHANGED <<groupErr, srv, bound, inflight, stopAsked, fault>>

ServerStep(s) ==
    /\ \/ Listens(s)
       \/ ListensTooLate(s)
       \/ BindFails(s)
       \/ Drains(s)
       \/ SeesContext(s)
       \/ StopReturns(s)
    /\ UNCHANGED <<runVars, effectVars, ctxVars, regVars, miscVars, compVars>>

ServerEvent(s) ==
    /\ Crashes(s) \/ RequestBegins(s) \/ RequestEnds(s)
    /\ UNCHANGED <<runVars, effectVars, ctxVars, regVars, miscVars, compVars>>

-----------------------------------------------------------------------------
(* The mounters.  The config watch lives from Load to Store.Close.         *)

Call(m) ==
    /\ m = Watcher => storeOpen
    /\ MounterCall(m)
    /\ UNCHANGED <<runVars, effectVars, ctxVars, srvVars, regVars, miscVars, fault>>

Proceed(m) ==
    /\ MounterStep(m)
    /\ UNCHANGED <<runVars, effectVars, ctxVars, srvVars, regVars, miscVars, fault>>

-----------------------------------------------------------------------------
RunStep ==
    \/ UndoEffect \/ EndUndo
    \/ LoadFails \/ LoadSucceeds \/ Resolves \/ HooksDone
    \/ \E adds \in BOOLEAN : HookRuns(adds)
    \/ \E e \in Failure :
          EarlyFails(e) \/ ComponentFails(e) \/ EndpointsFail(e) \/ AfterStartFails(e)
    \/ ComponentStarts \/ Launch \/ EndpointsReady
    \/ RegisterSucceeds
    \/ \E e \in Failure, left \in BOOLEAN : RegisterFails(e, left)
    \/ AfterStartSucceeds \/ WakeOnContext
    \/ \E failed, left \in BOOLEAN : Deregister(failed, left)
    \/ StopServers \/ ServersStopped \/ DisposeBegins \/ DisposeNext \/ StopAllDone
    \/ GroupEnds \/ StartupOutcome \/ CloseStore \/ WatchEnds \/ CloseDone \/ Release

\* Nothing is left to happen.
Terminated ==
    /\ pc = "returned"
    /\ \A m \in Mounter : at[m] = "idle"
    /\ UNCHANGED vars

Next ==
    \/ RunStep
    \/ RunBegin \/ CallerCancel \/ WakeOnSignal
    \/ \E s \in Server : ServerStep(s) \/ ServerEvent(s)
    \/ \E m \in Mounter : Call(m) \/ Proceed(m)
    \/ Terminated

(* Goroutines make progress: hooks, Start and Dispose of components return  *)
(* (runHook bounds their ctx), Stop returns within stopTimeout, Start       *)
(* returns after Stop (the contract of transport.Server).  Nothing forces   *)
(* the caller to call Run, cancel or signal, nor a request to end.          *)
Fairness ==
    /\ WF_vars(RunStep)
    /\ \A s \in Server : WF_vars(ServerStep(s))
    /\ \A m \in Mounter : WF_vars(Proceed(m))

Spec == Init /\ [][Next]_vars /\ Fairness

-----------------------------------------------------------------------------
(* What Run promises.                                                      *)

(* The component engine keeps ComponentContract: components are adopted    *)
(* only while the stop sequence has not reached disposal, each is brought  *)
(* down once, and a component refused or adopted does come down.           *)
Contract ==
    INSTANCE ComponentContract WITH
        status  <- comp,
        adopted <- ToSet(started) \cup ToSet(disposeQ)
                     \cup {arg[m] : m \in {n \in Mounter : at[n] = "unmounting"}},
        closed  <- disposed

ContractKept == Contract!Spec

(* Start order is dependency order: while the stop sequence disposes a     *)
(* declared component, none declared after it is still waiting for its     *)
(* own Dispose there, whatever was mounted and unmounted in between.       *)
StopsInReverse ==
    [][\A i, j \in 1..Len(Declared) :
          /\ i < j
          /\ pc = "dispose"
          /\ Declared[i] \in ToSet(disposeQ)
          /\ comp'[Declared[i]] = "gone"
          => Declared[j] \notin ToSet(disposeQ)]_vars

(* When Run has returned, every effect that was ever registered has been   *)
(* undone exactly once, in reverse order of registration; also those a     *)
(* beforeStart hook added before a later one failed.                       *)
EffectsReversed ==
    pc = "returned" =>
        /\ ledger = <<>>
        /\ Len(undone) = Len(registered)
        /\ ToSet(undone) = ToSet(registered)
        /\ loadFailures = 0 => undone = Reverse(registered)

(* No server is asked to stop while the registry still sends traffic to    *)
(* it, unless the registrar itself reported a failure ("deregister first,  *)
(* so that no traffic reaches a stopped server").                          *)
DeregisteredBeforeStop == stopAsked # {} /\ entry => entryFault

(* A request never meets a component the stop sequence has disposed,       *)
(* unless the Stop of its server gave up on it.                            *)
RequestsBeforeComponents == disposed => inflight \subseteq stopTimedOut

(* A stop goes from the outside in, on every exit of Run: out of the       *)
(* registry, then the servers, then the components their requests use.     *)
OrderlyStop == DeregisteredBeforeStop /\ RequestsBeforeComponents

(* Run never hides a failed start-up step: it returns nil only if no step  *)
(* failed, or if the step failed because the caller itself cancelled       *)
(* (startupOutcome reads the caller's ctx, not the one Run cancels on its  *)
(* own).  It hides a failed server only behind a cancellation: errgroup    *)
(* keeps the first error alone, so a Start that returned ctx.Err() once    *)
(* the caller or Run had cancelled masks one that fails after it.  Nothing *)
(* masks a server that fails before any cancellation.                      *)
OutcomeTruthful ==
    pc = "returned" /\ result = "nil" =>
        /\ stepErr = "nil" \/ (stepErr = "canceled" /\ callerCancelled)
        /\ (\E s \in Server : srv[s] = "error") => groupErr = "canceled" /\ CtxDone

(* A Run in which nothing failed on its own ends with nil, whatever phase  *)
(* the cancellation or signal fell into: a SIGTERM during start-up is a    *)
(* normal stop, as it is in the main wait.  The one exception is a server  *)
(* that is stopped before it listens and whose Start then returns an error *)
(* (gRPC: ErrServerStopped): Run reports it.                               *)
CancelIsClean ==
    pc = "returned" /\ ~fault /\ result # "nil" =>
        \E s \in StrictServer : srv[s] = "error"

(* When Run has returned, no goroutine it started is left: every Start has *)
(* returned, the config watch is over, and done is closed.                 *)
NothingRunsAfterReturn ==
    pc = "returned" =>
        /\ \A s \in Server : srv[s] \notin {"launched", "serving"}
        /\ ~storeOpen /\ at[Watcher] = "idle"
        /\ doneClosed

(* When Run has returned after disposing components, a component still up  *)
(* is in the hands of a goroutine that is about to bring it down.          *)
(* Without the first condition the claim is the one on MountComponent:     *)
(* "mount means Start and being part of the stop sequence".                *)
NoComponentOutlivesRun ==
    pc = "returned" => \A c \in Comp : comp[c] = "live" => \E m \in Mounter : arg[m] = c

(* Err() reports the exit error of the Run that returned.                  *)
ErrIsLastOutcome == pc = "returned" => runErr = result

(* A server that failed for a reason of its own is reported by Run.        *)
ServerFailureReported ==
    pc = "returned" /\ (\E s \in Server : srv[s] = "error") => result = "error"

(* A cancelled App comes to its end: Run returns, or gives the slot back   *)
(* after a failed load.  In particular Run never waits for a Start that    *)
(* only Stop ends before it has called Stop.                               *)
RunReturns == (callerCancelled /\ running) ~> ~running

-----------------------------------------------------------------------------
(* The inductive invariant: which program points go with which state of    *)
(* the components, the servers, the registry entry and the config watch.   *)

Deferred   == {"closeStore", "watchWait", "closeDone", "release", "returned"}
Disposing  == {"dispose", "groupWait", "outcome"} \cup Deferred
Stopping   == {"stopping", "afterStop"} \cup Disposing
StartingUp == {"idle", "load", "resolve", "beforeStart", "components", "endpoints",
               "register", "afterStart", "main"}
BeforeLaunch ==
    \/ pc \in {"idle", "load", "resolve", "beforeStart", "components"}
    \/ pc = "undo" /\ path \in {"load", "early"}
    \/ nextComp <= Len(Declared)
NoneRunning == \A s \in Server : srv[s] \notin {"launched", "serving"}

\* The disposal walk and the stopping of the servers have their places.
StopOrder ==
    /\ disposeQ # <<>> => pc = "dispose"
    /\ disposed => pc \in Disposing
    /\ stopAsked # {} => pc \in Stopping
    /\ stopRet \subseteq stopAsked
    /\ pc = "afterStop" \/ disposed => stopRet = Server
    /\ stopRet \cap inflight \subseteq stopTimedOut
    /\ entry => entryFault \/ pc \in {"afterStart", "main", "deregister"}

\* Goroutines of the group exist from Launch to g.Wait, and only then.
GroupLifetime ==
    /\ BeforeLaunch => NoneRunning /\ groupErr = "nil"
    /\ pc \in {"outcome"} \cup Deferred => NoneRunning
    /\ \A s \in Server : srv[s] = "error" => groupErr # "nil"
    /\ pc = "outcome" => groupErr # "error"
    /\ pc \in Deferred /\ groupErr = "error" => result = "error"

\* What the deferred calls have done so far, and what Run is going to return.
Ending ==
    /\ pc \in {"watchWait", "closeDone", "release", "returned"} => ~storeOpen
    /\ pc \in {"closeDone", "release", "returned"} => at[Watcher] = "idle"
    /\ pc \in {"release", "returned"} => doneClosed
    /\ pc \in Deferred /\ result = "nil" =>
          stepErr = "nil" \/ (stepErr = "canceled" /\ callerCancelled)

\* Every effect ever registered is in one of three places.  As long as no
\* load has failed, the ledger and the snapshot are a first part of what was
\* registered, and what was undone is the rest of it, last one first.
EffectsFlow ==
    /\ Len(undone) + Len(undoQ) + Len(ledger) = Len(registered)
    /\ ToSet(registered) = ToSet(undone) \cup ToSet(undoQ) \cup ToSet(ledger)
    /\ undoQ # <<>> => pc = "undo"
    /\ pc \in {"undo", "beforeStop"} \cup Stopping => ledger = <<>>
    /\ loadFailures = 0 =>
          /\ ledger # <<>> => undone = <<>> /\ undoQ = <<>>
          /\ \A i \in 1..Len(ledger) : ledger[i] = registered[i]
          /\ \A i \in 1..Len(undoQ) : undoQ[i] = registered[i]
          /\ \A i \in 1..Len(undone) : undone[i] = registered[Len(registered) + 1 - i]
    /\ pc \in StartingUp /\ loadFailures = 0 => undone = <<>>
    /\ pc = "undo" /\ path = "load" => loadFailures > 0

StoppedTooEarly == \E s \in StrictServer : srv[s] = "error"

\* Whose fault an error is.  A cancellation seen during start-up is the
\* caller's, since Run cancels only once it is over; a server that fails
\* without a reason of its own is one that was stopped before it served.
Blame ==
    /\ pc \in StartingUp => ~cancelled /\ stepErr = "nil"
    /\ pc = "undo" /\ path # "stop" => ~cancelled
    /\ pc = "undo" /\ path = "load" => stepErr = "nil"
    /\ stepErr = "error" => fault
    /\ stepErr = "canceled" => fault \/ callerCancelled
    /\ StoppedTooEarly => fault \/ stopAsked # {}
    /\ groupErr = "error" => fault \/ StoppedTooEarly
    /\ groupErr = "canceled" => CtxDone
    /\ pc \in Deferred /\ result # "nil" => fault \/ StoppedTooEarly

IInv ==
    /\ TypeOK
    /\ SingleOwner /\ MountersConsistent /\ OrderKept
    /\ StopOrder /\ GroupLifetime /\ Ending
    /\ EffectsFlow /\ Blame
=============================================================================
