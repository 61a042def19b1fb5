-------------------------- MODULE AppLifecycleProofs --------------------------
(***************************************************************************)
(* What App.Run guarantees for any number of components, mounting          *)
(* goroutines, servers, effects and hooks.                                 *)
(***************************************************************************)
EXTENDS AppLifecycle, ComponentsProofs

(* Which component steps a step of the App contains: none, or exactly one, *)
(* and the two steps of the disposal walk at their own program points.     *)
LEMMA StepShape ==
    ASSUME Next
    PROVE  \/ UNCHANGED compVars
           \/ pc = "components" /\ StartComponent
           \/ pc = "afterStop" /\ BeginDispose
           \/ pc = "dispose" /\ DisposeComponent
           \/ \E m \in Mounter : MounterCall(m) \/ MounterStep(m)
<1>1. CASE RunStep
  BY <1>1 DEF RunStep, UndoEffect, EndUndo, LoadFails, LoadSucceeds, Resolves, HooksDone,
     HookRuns, EarlyFails, ComponentFails, EndpointsFail, AfterStartFails, ComponentStarts,
     Launch, EndpointsReady, RegisterSucceeds, RegisterFails, AfterStartSucceeds,
     WakeOnContext, Deregister, StopServers, ServersStopped, DisposeBegins, DisposeNext,
     StopAllDone, GroupEnds, StartupOutcome, CloseStore, WatchEnds, CloseDone, Release,
     StopFails
<1>2. CASE RunBegin \/ CallerCancel \/ WakeOnSignal \/ Terminated
  BY <1>2 DEF RunBegin, CallerCancel, WakeOnSignal, Terminated, vars
<1>3. CASE \E s \in Server : ServerStep(s) \/ ServerEvent(s)
  BY <1>3 DEF ServerStep, ServerEvent
<1>4. CASE \E m \in Mounter : Call(m) \/ Proceed(m)
  BY <1>4 DEF Call, Proceed
<1>5. QED
  BY <1>1, <1>2, <1>3, <1>4 DEF Next

-----------------------------------------------------------------------------
(* The component part of the invariant.                                    *)
LEMMA CompPartOK ==
    ASSUME CompIInv, StopOrder, Next
    PROVE  CompIInv'
<1>1. CASE UNCHANGED compVars
  BY <1>1, CompStutterOK
<1>2. CASE StartComponent
  BY <1>2, StartComponentOK
<1>3. CASE pc = "afterStop" /\ BeginDispose
  BY <1>3, BeginDisposeOK DEF StopOrder
<1>4. CASE DisposeComponent
  BY <1>4, DisposeComponentOK
<1>5. CASE \E m \in Mounter : MounterCall(m) \/ MounterStep(m)
  BY <1>5, MountersOK
<1>6. QED
  BY <1>1, <1>2, <1>3, <1>4, <1>5, StepShape

-----------------------------------------------------------------------------
(* Types of the App's own state.                                           *)

LEMMA RunTypeInit == Init => RunTypeOK
<1> SUFFICES ASSUME Init PROVE RunTypeOK
  OBVIOUS
<1>1. ledger \in Seq(Nat) /\ registered \in Seq(Nat)
  <2>1. [i \in 1..NumEffects |-> i] \in Seq(Nat)
    BY LifecycleAssumption
  <2>2. QED
    BY <2>1 DEF Init
<1>2. undoQ \in Seq(Nat) /\ undone \in Seq(Nat)
  BY EmptySeq DEF Init
<1>3. srv \in [Server -> {"off", "launched", "serving"} \cup Outcome]
  BY DEF Init
<1>4. loadFailures \in Nat /\ hook \in Nat \ {0}
  BY DEF Init
<1>5. /\ bound \subseteq Server /\ inflight \subseteq Server /\ stopAsked \subseteq Server
      /\ stopRet \subseteq Server /\ stopTimedOut \subseteq Server
  BY LifecycleAssumption DEF Init
<1>6. /\ running \in BOOLEAN /\ callerCancelled \in BOOLEAN /\ cancelled \in BOOLEAN
      /\ entry \in BOOLEAN /\ entryFault \in BOOLEAN /\ storeOpen \in BOOLEAN
      /\ doneClosed \in BOOLEAN /\ fault \in BOOLEAN
  BY DEF Init
<1>7. /\ pc \in PC /\ path \in {"none", "load", "early", "stop"}
      /\ stepErr \in Outcome /\ result \in Outcome /\ runErr \in Outcome /\ groupErr \in Outcome
  BY DEF Init, PC, Outcome, Failure
<1>8. QED
  BY <1>1, <1>2, <1>3, <1>4, <1>5, <1>6, <1>7 DEF RunTypeOK

LEMMA RunStepType ==
    ASSUME RunTypeOK, RunStep
    PROVE  RunTypeOK'
<1> USE DEF runVars, effectVars, ctxVars, srvVars, regVars, miscVars, RunTypeOK, PC, Outcome,
            Failure, Goto
<1>1. ASSUME NEW p \in {"load", "early", "stop"}, BeginUndo(p)
      PROVE  ledger' \in Seq(Nat) /\ undoQ' \in Seq(Nat) /\ path' = p /\ pc' = "undo"
  BY <1>1, EmptySeq DEF BeginUndo
<1>2. CASE UndoEffect
  <2>1. Last(undoQ) \in Nat /\ Front(undoQ) \in Seq(Nat)
    BY <1>2, SubSeqProperties, LenProperties, EmptySeq DEF UndoEffect, Last, Front
  <2>2. undone' \in Seq(Nat) /\ undoQ' \in Seq(Nat)
    BY <1>2, <2>1, AppendProperties DEF UndoEffect
  <2>3. QED
    BY <1>2, <2>2 DEF UndoEffect
<1>3. CASE EndUndo
  BY <1>3 DEF EndUndo
<1>4. CASE LoadFails
  <2>1. running' \in BOOLEAN /\ fault' \in BOOLEAN
    BY <1>4 DEF LoadFails
  <2>2. loadFailures' \in Nat
    BY <1>4 DEF LoadFails
  <2>3. QED
    BY <1>4, <1>1, <2>1, <2>2 DEF LoadFails, BeginUndo
<1>5. CASE LoadSucceeds \/ Resolves \/ HooksDone \/ Launch
  <2>1. storeOpen' \in BOOLEAN
    BY <1>5 DEF LoadSucceeds, Resolves, HooksDone, Launch
  <2>2. QED
    BY <1>5, <2>1 DEF LoadSucceeds, Resolves, HooksDone, Launch
<1>6. ASSUME NEW adds \in BOOLEAN, HookRuns(adds)
      PROVE  RunTypeOK'
  <2>1. NumEffects + hook \in Nat /\ hook' \in Nat \ {0}
    BY <1>6, LifecycleAssumption DEF HookRuns
  <2>2. ledger' \in Seq(Nat) /\ registered' \in Seq(Nat)
    BY <1>6, <2>1, AppendProperties DEF HookRuns
  <2>3. QED
    BY <1>6, <2>1, <2>2 DEF HookRuns
<1>7. ASSUME NEW e \in Failure, EarlyFails(e)
      PROVE  RunTypeOK'
  BY <1>7, <1>1 DEF EarlyFails, StepFails, BeginUndo
<1>8. ASSUME NEW e \in Failure,
             ComponentFails(e) \/ EndpointsFail(e)
               \/ \E left \in BOOLEAN : RegisterFails(e, left)
      PROVE  RunTypeOK'
  <2>1. /\ cancelled' \in BOOLEAN /\ fault' \in BOOLEAN
        /\ entry' \in BOOLEAN /\ entryFault' \in BOOLEAN
    BY <1>8 DEF ComponentFails, EndpointsFail, RegisterFails, StepFails, StopFails
  <2>2. QED
    BY <1>8, <1>1, <2>1 DEF ComponentFails, EndpointsFail, RegisterFails, StopFails, BeginUndo
<1>9. ASSUME NEW e \in Failure, AfterStartFails(e)
      PROVE  RunTypeOK'
  BY <1>9 DEF AfterStartFails, StepFails
<1>10. CASE ComponentStarts \/ EndpointsReady \/ RegisterSucceeds \/ AfterStartSucceeds
  <2>1. entry' \in BOOLEAN
    BY <1>10 DEF ComponentStarts, EndpointsReady, RegisterSucceeds, AfterStartSucceeds
  <2>2. QED
    BY <1>10, <2>1 DEF ComponentStarts, EndpointsReady, RegisterSucceeds, AfterStartSucceeds
<1>11. CASE WakeOnContext \/ StopServers \/ ServersStopped
  BY <1>11 DEF WakeOnContext, StopServers, ServersStopped
<1>12. ASSUME NEW failed \in BOOLEAN, NEW left \in BOOLEAN, Deregister(failed, left)
       PROVE  RunTypeOK'
  BY <1>12, <1>1 DEF Deregister, BeginUndo
<1>13. CASE DisposeBegins \/ DisposeNext \/ StopAllDone
  BY <1>13 DEF DisposeBegins, DisposeNext, StopAllDone
<1>14. CASE GroupEnds \/ StartupOutcome
  BY <1>14 DEF GroupEnds, StartupOutcome
<1>15. CASE CloseStore \/ WatchEnds \/ CloseDone \/ Release
  <2>1. storeOpen' \in BOOLEAN /\ doneClosed' \in BOOLEAN /\ running' \in BOOLEAN
    BY <1>15 DEF CloseStore, WatchEnds, CloseDone, Release
  <2>2. QED
    BY <1>15, <2>1 DEF CloseStore, WatchEnds, CloseDone, Release
<1>16. QED
  BY <1>2, <1>3, <1>4, <1>5, <1>6, <1>7, <1>8, <1>9, <1>10, <1>11, <1>12, <1>13, <1>14, <1>15
     DEF RunStep

LEMMA ServerType ==
    ASSUME RunTypeOK, NEW s \in Server, ServerStep(s) \/ ServerEvent(s)
    PROVE  RunTypeOK'
<1> DEFINE T == {"off", "launched", "serving"} \cup Outcome
<1>1. ASSUME NEW e \in Outcome, StartReturns(s, e)
      PROVE  srv' \in [Server -> T] /\ groupErr' \in Outcome
  BY <1>1 DEF RunTypeOK, StartReturns
<1>2. "error" \in Outcome /\ "nil" \in Outcome /\ "canceled" \in Outcome
  BY DEF Outcome, Failure
<1>3. srv' \in [Server -> T] /\ groupErr' \in Outcome
  <2>1. CASE Listens(s)
    BY <2>1 DEF Listens, RunTypeOK
  <2>2. CASE ListensTooLate(s)
    BY <2>2, <1>1, <1>2 DEF ListensTooLate
  <2>3. CASE BindFails(s) \/ Crashes(s) \/ Drains(s) \/ SeesContext(s)
    BY <2>3, <1>1, <1>2 DEF BindFails, Crashes, Drains, SeesContext
  <2>4. CASE RequestBegins(s) \/ RequestEnds(s) \/ StopReturns(s)
    BY <2>4 DEF RequestBegins, RequestEnds, StopReturns, RunTypeOK
  <2>5. QED
    BY <2>1, <2>2, <2>3, <2>4 DEF ServerStep, ServerEvent
<1>4. fault' \in BOOLEAN
  BY DEF RunTypeOK, ServerStep, ServerEvent, Listens, ListensTooLate, BindFails, Crashes,
         Drains, SeesContext, RequestBegins, RequestEnds, StopReturns
<1>5. /\ bound' \subseteq Server /\ inflight' \subseteq Server /\ stopAsked' \subseteq Server
      /\ stopRet' \subseteq Server /\ stopTimedOut' \subseteq Server
  BY DEF RunTypeOK, ServerStep, ServerEvent, Listens, ListensTooLate, BindFails, Crashes,
         Drains, SeesContext, RequestBegins, RequestEnds, StopReturns
<1>6. UNCHANGED <<runVars, effectVars, ctxVars, regVars, miscVars>>
  BY DEF ServerStep, ServerEvent
<1>7. QED
  BY <1>3, <1>4, <1>5, <1>6 DEF RunTypeOK, runVars, effectVars, ctxVars, regVars, miscVars

LEMMA RunTypeStep == RunTypeOK /\ [Next]_vars => RunTypeOK'
<1> SUFFICES ASSUME RunTypeOK, [Next]_vars PROVE RunTypeOK'
  OBVIOUS
<1> USE DEF runVars, effectVars, ctxVars, srvVars, regVars, miscVars, RunTypeOK, PC
<1>1. CASE RunBegin
  <2>1. running' \in BOOLEAN /\ fault' \in BOOLEAN
    BY <1>1 DEF RunBegin
  <2>2. QED
    BY <1>1, <2>1 DEF RunBegin, Goto
<1>2. CASE CallerCancel
  <2>1. callerCancelled' \in BOOLEAN
    BY <1>2 DEF CallerCancel
  <2>2. QED
    BY <1>2, <2>1 DEF CallerCancel
<1>3. CASE WakeOnSignal
  <2>1. cancelled' \in BOOLEAN
    BY <1>3 DEF WakeOnSignal
  <2>2. QED
    BY <1>3, <2>1 DEF WakeOnSignal, Goto
<1>4. CASE \E m \in Mounter : Call(m) \/ Proceed(m)
  BY <1>4 DEF Call, Proceed
<1>5. CASE Terminated \/ UNCHANGED vars
  BY <1>5 DEF Terminated, vars
<1>6. QED
  BY <1>1, <1>2, <1>3, <1>4, <1>5, RunStepType, ServerType DEF Next

-----------------------------------------------------------------------------
(* The stop sequence keeps its order.                                      *)

\* What the mounters leave alone.
LEMMA MounterFrame ==
    ASSUME NEW m \in Mounter, Call(m) \/ Proceed(m)
    PROVE  UNCHANGED <<runVars, effectVars, ctxVars, srvVars, regVars, miscVars, fault,
                       disposed, disposeQ, nextComp>>
<1>1. CASE Call(m)
  BY <1>1 DEF Call, MounterCall, MountCheck, UnmountTake
<1>2. CASE Proceed(m)
  BY <1>2 DEF Proceed, MounterStep, MountStart, MountStartFails, MountCommit, MountRefuse,
              MounterDispose
<1>3. QED
  BY <1>1, <1>2

LEMMA StopOrderRun ==
    ASSUME TypeOK, StopOrder, RunStep
    PROVE  StopOrder'
<1> USE DEF runVars, effectVars, ctxVars, srvVars, regVars, miscVars, compVars,
            StopOrder, Goto, Stopping, Disposing, Deferred
<1>1. CASE UndoEffect \/ EndUndo \/ LoadFails \/ LoadSucceeds \/ Resolves \/ HooksDone
  BY <1>1 DEF UndoEffect, EndUndo, LoadFails, LoadSucceeds, Resolves, HooksDone, BeginUndo
<1>2. CASE (\E adds \in BOOLEAN : HookRuns(adds)) \/ (\E e \in Failure : EarlyFails(e))
  BY <1>2 DEF HookRuns, EarlyFails, BeginUndo
<1>3. ASSUME NEW e \in Failure,
             ComponentFails(e) \/ EndpointsFail(e) \/ AfterStartFails(e)
      PROVE  StopOrder'
  BY <1>3 DEF ComponentFails, EndpointsFail, AfterStartFails, StopFails, BeginUndo
<1>4. ASSUME NEW e \in Failure, NEW left \in BOOLEAN, RegisterFails(e, left)
      PROVE  StopOrder'
  BY <1>4 DEF RegisterFails, StopFails, BeginUndo
<1>5. CASE ComponentStarts \/ Launch \/ EndpointsReady \/ RegisterSucceeds
             \/ AfterStartSucceeds \/ WakeOnContext
  BY <1>5 DEF ComponentStarts, StartComponent, Launch, EndpointsReady, RegisterSucceeds,
              AfterStartSucceeds, WakeOnContext
<1>6. ASSUME NEW failed \in BOOLEAN, NEW left \in BOOLEAN, Deregister(failed, left)
      PROVE  StopOrder'
  BY <1>6 DEF Deregister, BeginUndo
<1>7. CASE StopServers \/ ServersStopped \/ StopAllDone
  BY <1>7 DEF StopServers, ServersStopped, StopAllDone, TypeOK, RunTypeOK
<1>8. CASE DisposeBegins \/ DisposeNext
  BY <1>8 DEF DisposeBegins, DisposeNext, BeginDispose, DisposeComponent
<1>9. CASE GroupEnds \/ StartupOutcome \/ CloseStore \/ WatchEnds \/ CloseDone \/ Release
  BY <1>9 DEF GroupEnds, StartupOutcome, CloseStore, WatchEnds, CloseDone, Release
<1>10. QED
  BY <1>1, <1>2, <1>3, <1>4, <1>5, <1>6, <1>7, <1>8, <1>9 DEF RunStep

LEMMA StopOrderStep == TypeOK /\ StopOrder /\ [Next]_vars => StopOrder'
<1> SUFFICES ASSUME TypeOK, StopOrder, [Next]_vars PROVE StopOrder'
  OBVIOUS
<1> USE DEF runVars, effectVars, ctxVars, srvVars, regVars, miscVars, compVars,
            StopOrder, Goto, Stopping, Disposing, Deferred
<1>1. CASE RunBegin \/ CallerCancel \/ WakeOnSignal
  BY <1>1 DEF RunBegin, CallerCancel, WakeOnSignal
<1>2. ASSUME NEW s \in Server, ServerStep(s) \/ ServerEvent(s)
      PROVE  StopOrder'
  <2>1. CASE Listens(s) \/ ListensTooLate(s) \/ BindFails(s) \/ Drains(s) \/ SeesContext(s)
               \/ Crashes(s)
    <3>1. UNCHANGED <<inflight, stopAsked, stopRet, stopTimedOut>>
      BY <2>1 DEF Listens, ListensTooLate, BindFails, Drains, SeesContext, Crashes
    <3>2. QED
      BY <1>2, <3>1 DEF ServerStep, ServerEvent
  <2>2. CASE StopReturns(s)
    BY <1>2, <2>2 DEF StopReturns, ServerStep, ServerEvent
  <2>3. CASE RequestBegins(s) \/ RequestEnds(s)
    BY <1>2, <2>3 DEF RequestBegins, RequestEnds, ServerStep, ServerEvent
  <2>4. QED
    BY <1>2, <2>1, <2>2, <2>3 DEF ServerStep, ServerEvent
<1>3. CASE \E m \in Mounter : Call(m) \/ Proceed(m)
  BY <1>3, MounterFrame
<1>4. CASE Terminated \/ UNCHANGED vars
  BY <1>4 DEF Terminated, vars
<1>5. QED
  BY <1>1, <1>2, <1>3, <1>4, StopOrderRun DEF Next

-----------------------------------------------------------------------------
(* The goroutines of the group.                                            *)

LEMMA GroupRun ==
    ASSUME TypeOK, GroupLifetime, RunStep
    PROVE  GroupLifetime'
<1> USE DEF runVars, effectVars, ctxVars, srvVars, regVars, miscVars, compVars,
            GroupLifetime, BeforeLaunch, NoneRunning, Goto, Deferred
<1>1. CASE UndoEffect \/ EndUndo \/ LoadFails \/ LoadSucceeds \/ Resolves \/ HooksDone
  <2>1. UNCHANGED <<srv, groupErr, nextComp>>
    BY <1>1 DEF UndoEffect, EndUndo, LoadFails, LoadSucceeds, Resolves, HooksDone, BeginUndo
  <2>2. QED
    BY <1>1, <2>1 DEF UndoEffect, EndUndo, LoadFails, LoadSucceeds, Resolves, HooksDone, BeginUndo
<1>2. CASE (\E adds \in BOOLEAN : HookRuns(adds)) \/ (\E e \in Failure : EarlyFails(e))
  BY <1>2 DEF HookRuns, EarlyFails, BeginUndo
<1>3. ASSUME NEW e \in Failure,
             ComponentFails(e) \/ EndpointsFail(e) \/ AfterStartFails(e)
               \/ \E left \in BOOLEAN : RegisterFails(e, left)
      PROVE  GroupLifetime'
  BY <1>3 DEF ComponentFails, EndpointsFail, AfterStartFails, RegisterFails, StopFails, BeginUndo
<1>4. CASE ComponentStarts
  <2>1. pc = "components" /\ UNCHANGED <<pc, path, srv, groupErr, result>>
    BY <1>4 DEF ComponentStarts
  <2>2. QED
    BY <2>1
<1>5. CASE Launch
  <2>1. ~(nextComp' <= Len(Declared))
    BY <1>5, DeclaredFacts DEF Launch, TypeOK, CompTypeOK
  <2>2. pc' = "endpoints" /\ \A s \in Server : srv'[s] = "launched"
    BY <1>5 DEF Launch
  <2>3. QED
    BY <2>1, <2>2
<1>6. CASE EndpointsReady \/ RegisterSucceeds \/ AfterStartSucceeds \/ WakeOnContext
  BY <1>6 DEF EndpointsReady, RegisterSucceeds, AfterStartSucceeds, WakeOnContext
<1>7. ASSUME NEW failed \in BOOLEAN, NEW left \in BOOLEAN, Deregister(failed, left)
      PROVE  GroupLifetime'
  BY <1>7 DEF Deregister, BeginUndo
<1>8. CASE StopServers \/ ServersStopped \/ StopAllDone
  BY <1>8 DEF StopServers, ServersStopped, StopAllDone
<1>9. CASE DisposeBegins \/ DisposeNext
  BY <1>9 DEF DisposeBegins, DisposeNext, BeginDispose, DisposeComponent
<1>10. CASE GroupEnds
  <2>1. NoneRunning /\ UNCHANGED <<srv, groupErr, nextComp, path>>
    BY <1>10 DEF GroupEnds, Outcome, Failure
  <2>2. QED
    BY <1>10, <2>1 DEF GroupEnds
<1>11. CASE StartupOutcome \/ CloseStore \/ WatchEnds \/ CloseDone \/ Release
  BY <1>11 DEF StartupOutcome, CloseStore, WatchEnds, CloseDone, Release
<1>12. QED
  BY <1>1, <1>2, <1>3, <1>4, <1>5, <1>6, <1>7, <1>8, <1>9, <1>10, <1>11 DEF RunStep

LEMMA GroupStep == TypeOK /\ GroupLifetime /\ [Next]_vars => GroupLifetime'
<1> SUFFICES ASSUME TypeOK, GroupLifetime, [Next]_vars PROVE GroupLifetime'
  OBVIOUS
<1> USE DEF runVars, effectVars, ctxVars, srvVars, regVars, miscVars, compVars,
            GroupLifetime, BeforeLaunch, NoneRunning, Goto, Deferred
<1>1. CASE RunBegin \/ CallerCancel \/ WakeOnSignal
  BY <1>1 DEF RunBegin, CallerCancel, WakeOnSignal
<1>2. ASSUME NEW s \in Server, ServerStep(s) \/ ServerEvent(s)
      PROVE  GroupLifetime'
  <2>1. UNCHANGED <<pc, path, nextComp, result>>
    BY <1>2 DEF ServerStep, ServerEvent
  <2>2. CASE NoneRunning
    <3>1. UNCHANGED <<srv, groupErr>>
      BY <1>2, <2>2 DEF ServerStep, ServerEvent, Listens, ListensTooLate, BindFails, Drains,
         SeesContext, Crashes, StopReturns, RequestBegins, RequestEnds
    <3>2. QED
      BY <2>1, <3>1
  <2>3. CASE ~NoneRunning
    <3>1. \A t \in Server : srv'[t] = "error" => groupErr' # "nil"
      BY <1>2 DEF ServerStep, ServerEvent, Listens, ListensTooLate, BindFails, Drains, SeesContext,
         Crashes, StopReturns, RequestBegins, RequestEnds, StartReturns, TypeOK, RunTypeOK
    <3>2. QED
      BY <2>1, <2>3, <3>1
  <2>4. QED
    BY <2>2, <2>3
<1>3. CASE \E m \in Mounter : Call(m) \/ Proceed(m)
  BY <1>3, MounterFrame
<1>4. CASE Terminated \/ UNCHANGED vars
  BY <1>4 DEF Terminated, vars
<1>5. QED
  BY <1>1, <1>2, <1>3, <1>4, GroupRun DEF Next

-----------------------------------------------------------------------------
(* The deferred calls and the result.                                      *)

LEMMA EndingRun ==
    ASSUME TypeOK, Ending, RunStep
    PROVE  Ending'
<1> USE DEF runVars, effectVars, ctxVars, srvVars, regVars, miscVars, compVars,
            Ending, Goto, Deferred
<1>1. CASE UndoEffect \/ EndUndo \/ LoadFails \/ LoadSucceeds \/ Resolves \/ HooksDone
  BY <1>1 DEF UndoEffect, EndUndo, LoadFails, LoadSucceeds, Resolves, HooksDone, BeginUndo
<1>2. CASE (\E adds \in BOOLEAN : HookRuns(adds)) \/ (\E e \in Failure : EarlyFails(e))
  BY <1>2 DEF HookRuns, EarlyFails, BeginUndo
<1>3. ASSUME NEW e \in Failure,
             ComponentFails(e) \/ EndpointsFail(e) \/ AfterStartFails(e)
               \/ \E left \in BOOLEAN : RegisterFails(e, left)
      PROVE  Ending'
  BY <1>3 DEF ComponentFails, EndpointsFail, AfterStartFails, RegisterFails, StopFails, BeginUndo
<1>4. CASE ComponentStarts \/ Launch \/ EndpointsReady \/ RegisterSucceeds
             \/ AfterStartSucceeds \/ WakeOnContext
  BY <1>4 DEF ComponentStarts, Launch, EndpointsReady, RegisterSucceeds, AfterStartSucceeds,
              WakeOnContext
<1>5. ASSUME NEW failed \in BOOLEAN, NEW left \in BOOLEAN, Deregister(failed, left)
      PROVE  Ending'
  BY <1>5 DEF Deregister, BeginUndo
<1>6. CASE StopServers \/ ServersStopped \/ DisposeBegins \/ DisposeNext \/ StopAllDone
  BY <1>6 DEF StopServers, ServersStopped, DisposeBegins, DisposeNext, StopAllDone
<1>7. CASE GroupEnds
  BY <1>7 DEF GroupEnds
<1>8. CASE StartupOutcome
  BY <1>8 DEF StartupOutcome, CleanStop
<1>9. CASE CloseStore \/ WatchEnds \/ CloseDone \/ Release
  BY <1>9 DEF CloseStore, WatchEnds, CloseDone, Release
<1>10. QED
  BY <1>1, <1>2, <1>3, <1>4, <1>5, <1>6, <1>7, <1>8, <1>9 DEF RunStep

LEMMA EndingStep == TypeOK /\ Ending /\ [Next]_vars => Ending'
<1> SUFFICES ASSUME TypeOK, Ending, [Next]_vars PROVE Ending'
  OBVIOUS
<1> USE DEF runVars, effectVars, ctxVars, srvVars, regVars, miscVars, compVars,
            Ending, Goto, Deferred
<1>1. CASE RunBegin \/ CallerCancel \/ WakeOnSignal
  BY <1>1 DEF RunBegin, CallerCancel, WakeOnSignal
<1>2. CASE \E s \in Server : ServerStep(s) \/ ServerEvent(s)
  BY <1>2 DEF ServerStep, ServerEvent
<1>3. ASSUME NEW m \in Mounter, Call(m) \/ Proceed(m)
      PROVE  Ending'
  <2>1. UNCHANGED <<runVars, ctxVars, miscVars>>
    BY <1>3, MounterFrame
  <2>2. ~storeOpen /\ at[Watcher] = "idle" => at'[Watcher] = "idle"
    <3>1. SUFFICES ASSUME ~storeOpen, at[Watcher] = "idle" PROVE at'[Watcher] = "idle"
      OBVIOUS
    <3>2. m # Watcher
      BY <1>3, <3>1 DEF Call, Proceed, MounterStep, MountStart, MountStartFails, MountCommit,
                        MountRefuse, MounterDispose
    <3>3. at'[Watcher] = at[Watcher]
      BY <1>3, <3>2, LifecycleAssumption
         DEF Call, Proceed, MounterCall, MountCheck, UnmountTake, MounterStep, MountStart,
             MountStartFails, MountCommit, MountRefuse, MounterDispose, TypeOK, CompTypeOK
    <3>4. QED
      BY <3>1, <3>3
  <2>3. QED
    BY <2>1, <2>2
<1>4. CASE Terminated \/ UNCHANGED vars
  BY <1>4 DEF Terminated, vars
<1>5. QED
  BY <1>1, <1>2, <1>3, <1>4, EndingRun DEF Next

-----------------------------------------------------------------------------
(* The order of the stop sequence.                                         *)
LEMMA OrderPartOK ==
    ASSUME CompIInv, OrderKept, Next
    PROVE  OrderKept'
<1>1. CASE UNCHANGED compVars
  BY <1>1, StutterKeepsOrder
<1>2. CASE StartComponent
  BY <1>2, StartComponentKeepsOrder
<1>3. CASE BeginDispose
  BY <1>3, BeginDisposeKeepsOrder
<1>4. CASE DisposeComponent
  BY <1>4, DisposeComponentKeepsOrder
<1>5. CASE \E m \in Mounter : MounterCall(m) \/ MounterStep(m)
  BY <1>5, MountersKeepOrder
<1>6. QED
  BY <1>1, <1>2, <1>3, <1>4, <1>5, StepShape

-----------------------------------------------------------------------------
(* The effects: from the ledger to the snapshot to what is undone.         *)

\* The last entry of a list and the others are all of it.
LEMMA FrontAndLast ==
    ASSUME NEW S, NEW s \in Seq(S), s # <<>>
    PROVE  ToSet(s) = ToSet(Front(s)) \cup {Last(s)}
<1>1. /\ Len(s) \in Nat \ {0} /\ DOMAIN s = 1..Len(s)
      /\ Front(s) \in Seq(S) /\ Len(Front(s)) = Len(s) - 1
      /\ \A i \in 1..Len(s) - 1 : Front(s)[i] = s[i]
      /\ Last(s) = s[Len(s)]
  BY FrontShape
<1>2. DOMAIN Front(s) = 1..Len(s) - 1
  BY <1>1, LenProperties
<1>3. 1..Len(s) = (1..Len(s) - 1) \cup {Len(s)}
  BY <1>1
<1>4. QED
  BY <1>1, <1>2, <1>3 DEF ToSet

LEMMA EffectsInit == Init => EffectsFlow
<1> SUFFICES ASSUME Init PROVE EffectsFlow
  OBVIOUS
<1>1. Len(ledger) \in Nat
  BY RunTypeInit, LenProperties DEF RunTypeOK
<1>2. /\ registered = ledger /\ undoQ = <<>> /\ undone = <<>> /\ pc = "idle"
      /\ loadFailures = 0
  BY DEF Init
<1>3. QED
  BY <1>1, <1>2, EmptyFacts DEF EffectsFlow, Stopping, Disposing, Deferred, StartingUp

\* UndoEffects takes its snapshot.
LEMMA BeginUndoKeepsEffects ==
    ASSUME RunTypeOK, EffectsFlow, NEW p, BeginUndo(p), pc # "undo",
           p = "load" => loadFailures' > 0,
           UNCHANGED loadFailures \/ loadFailures' > 0
    PROVE  EffectsFlow'
<1>1. undoQ = <<>>
  BY DEF EffectsFlow
<1>2. /\ ledger' = <<>> /\ undoQ' = ledger /\ pc' = "undo" /\ path' = p
      /\ UNCHANGED <<undone, registered>>
  BY DEF BeginUndo, Goto
<1>3. Len(ledger) \in Nat /\ Len(undone) \in Nat
  BY LenProperties DEF RunTypeOK
<1>4. QED
  BY <1>1, <1>2, <1>3, EmptyFacts DEF EffectsFlow, Stopping, Disposing, Deferred, StartingUp

LEMMA UndoEffectKeepsEffects ==
    ASSUME RunTypeOK, EffectsFlow, UndoEffect
    PROVE  EffectsFlow'
<1> DEFINE n == Len(undoQ)
<1>1. /\ pc = "undo" /\ ledger = <<>> /\ undoQ # <<>>
      /\ undone' = Append(undone, Last(undoQ)) /\ undoQ' = Front(undoQ)
      /\ UNCHANGED <<pc, path, loadFailures, ledger, registered>>
  BY DEF UndoEffect, EffectsFlow, runVars
<1>2. /\ n \in Nat \ {0} /\ Last(undoQ) = undoQ[n] /\ Last(undoQ) \in Nat
      /\ Len(Front(undoQ)) = n - 1
      /\ \A i \in 1..n - 1 : Front(undoQ)[i] = undoQ[i]
  BY <1>1, FrontShape DEF RunTypeOK
<1>3. /\ Len(undone') = Len(undone) + 1
      /\ \A i \in 1..Len(undone) : undone'[i] = undone[i]
      /\ undone'[Len(undone) + 1] = undoQ[n]
  BY <1>1, <1>2, AppendProperties DEF RunTypeOK
<1>4. Len(undone) \in Nat /\ Len(registered) \in Nat /\ Len(undone) + n = Len(registered)
  BY <1>1, <1>2, LenProperties, EmptyFacts DEF RunTypeOK, EffectsFlow
<1>5. ToSet(undone') = ToSet(undone) \cup {Last(undoQ)}
  BY <1>1, <1>2, AppendFacts DEF RunTypeOK
<1>6. ToSet(undoQ) = ToSet(undoQ') \cup {Last(undoQ)}
  BY <1>1, FrontAndLast DEF RunTypeOK
<1> HIDE DEF n
<1>7. Len(undone') + Len(undoQ') + Len(ledger') = Len(registered')
  BY <1>1, <1>2, <1>3, <1>4, EmptyFacts
<1>8. ToSet(registered') = ToSet(undone') \cup ToSet(undoQ') \cup ToSet(ledger')
  BY <1>1, <1>5, <1>6 DEF EffectsFlow
<1>9. ASSUME loadFailures = 0
      PROVE  /\ \A i \in 1..Len(undoQ') : undoQ'[i] = registered'[i]
             /\ \A i \in 1..Len(undone') : undone'[i] = registered'[Len(registered') + 1 - i]
  <2>1. /\ \A i \in 1..n : undoQ[i] = registered[i]
        /\ \A i \in 1..Len(undone) : undone[i] = registered[Len(registered) + 1 - i]
    BY <1>9 DEF EffectsFlow, n
  <2>2. undoQ[n] = registered[Len(registered) + 1 - (Len(undone) + 1)]
    <3>1. Len(registered) + 1 - (Len(undone) + 1) = n
      BY <1>2, <1>4
    <3>2. QED
      BY <1>2, <2>1, <3>1
  <2>3. QED
    BY <1>1, <1>2, <1>3, <1>4, <2>1, <2>2
<1>10. QED
  BY <1>1, <1>7, <1>8, <1>9, EmptyFacts DEF EffectsFlow, StartingUp, Stopping, Disposing, Deferred

\* A provider hook that registers a cleanup.
LEMMA HookKeepsEffects ==
    ASSUME RunTypeOK, EffectsFlow, NEW adds \in BOOLEAN, HookRuns(adds)
    PROVE  EffectsFlow'
<1> DEFINE e == NumEffects + hook
<1>1. /\ pc = "beforeStart" /\ undoQ = <<>>
      /\ UNCHANGED <<pc, path, loadFailures, undoQ, undone>>
  BY DEF HookRuns, EffectsFlow
<1>2. e \in Nat
  BY LifecycleAssumption DEF RunTypeOK
<1>3. CASE adds
  <2>1. ledger' = Append(ledger, e) /\ registered' = Append(registered, e)
    BY <1>3 DEF HookRuns
  <2> HIDE DEF e
  <2>2. ASSUME NEW s \in Seq(Nat)
        PROVE  /\ Len(Append(s, e)) = Len(s) + 1 /\ Append(s, e)[Len(s) + 1] = e
               /\ \A i \in 1..Len(s) : Append(s, e)[i] = s[i]
               /\ ToSet(Append(s, e)) = ToSet(s) \cup {e}
    BY <1>2, AppendProperties, AppendFacts
  <2>3. /\ Len(ledger') = Len(ledger) + 1 /\ ledger'[Len(ledger) + 1] = e
        /\ \A i \in 1..Len(ledger) : ledger'[i] = ledger[i]
        /\ ToSet(ledger') = ToSet(ledger) \cup {e}
        /\ Len(registered') = Len(registered) + 1 /\ registered'[Len(registered) + 1] = e
        /\ \A i \in 1..Len(registered) : registered'[i] = registered[i]
        /\ ToSet(registered') = ToSet(registered) \cup {e}
    BY <2>1, <2>2 DEF RunTypeOK
  <2>4. Len(ledger) \in Nat /\ Len(registered) \in Nat /\ Len(undone) \in Nat
    BY LenProperties DEF RunTypeOK
  <2>5. /\ Len(undone') + Len(undoQ') + Len(ledger') = Len(registered')
        /\ ToSet(registered') = ToSet(undone') \cup ToSet(undoQ') \cup ToSet(ledger')
    BY <1>1, <2>3, <2>4, EmptyFacts DEF EffectsFlow
  <2>6. ASSUME loadFailures = 0
        PROVE  /\ undone = <<>>
               /\ \A i \in 1..Len(ledger') : ledger'[i] = registered'[i]
    <3>1. undone = <<>> /\ \A i \in 1..Len(ledger) : ledger[i] = registered[i]
      BY <1>1, <2>6 DEF EffectsFlow, StartingUp
    <3>2. Len(ledger) = Len(registered)
      BY <1>1, <2>4, <3>1, EmptyFacts DEF EffectsFlow
    <3>3. QED
      BY <2>3, <2>4, <3>1, <3>2
  <2>7. QED
    BY <1>1, <2>5, <2>6, EmptyFacts DEF EffectsFlow, StartingUp, Stopping, Disposing, Deferred
<1>4. CASE ~adds
  <2>1. UNCHANGED <<ledger, registered>>
    BY <1>4 DEF HookRuns
  <2>2. QED
    BY <1>1, <2>1 DEF EffectsFlow
<1>5. QED
  BY <1>3, <1>4

\* A step that leaves the effects alone and moves on only where it may.
LEMMA EffectsFrame ==
    ASSUME EffectsFlow, UNCHANGED <<effectVars, loadFailures>>,
           \/ UNCHANGED <<pc, path>>
           \/ /\ pc' # "undo" /\ undoQ = <<>>
              /\ pc' \in {"beforeStop"} \cup Stopping => ledger = <<>>
              /\ pc' \in StartingUp /\ loadFailures = 0 => undone = <<>>
    PROVE  EffectsFlow'
  BY DEF EffectsFlow, effectVars, StartingUp, Stopping, Disposing, Deferred

LEMMA EffectsRun ==
    ASSUME RunTypeOK, EffectsFlow, RunStep
    PROVE  EffectsFlow'
<1> USE DEF runVars, Goto, StartingUp, Stopping, Disposing, Deferred
<1>1. CASE UndoEffect
  BY <1>1, UndoEffectKeepsEffects
<1>2. CASE EndUndo
  <2>1. UNCHANGED <<effectVars, loadFailures>> /\ undoQ = <<>> /\ ledger = <<>>
    BY <1>2 DEF EndUndo, EffectsFlow
  <2>2. pc' = "idle" => loadFailures > 0
    BY <1>2 DEF EndUndo, EffectsFlow
  <2>3. pc' \in {"idle", "outcome", "beforeStop"}
    BY <1>2 DEF EndUndo
  <2>4. loadFailures > 0 => loadFailures # 0
    BY DEF RunTypeOK
  <2>5. QED
    BY <2>1, <2>2, <2>3, <2>4, EffectsFrame
<1>3. CASE LoadFails
  <2>1. loadFailures' > 0
    BY <1>3 DEF LoadFails, RunTypeOK
  <2>2. QED
    BY <1>3, <2>1, BeginUndoKeepsEffects DEF LoadFails
<1>4. CASE LoadSucceeds \/ Resolves \/ HooksDone \/ Launch \/ EndpointsReady
             \/ RegisterSucceeds \/ AfterStartSucceeds \/ WakeOnContext
  <2>1. /\ UNCHANGED <<effectVars, loadFailures>> /\ pc \in StartingUp
        /\ pc' \in StartingUp \cup {"deregister"}
    BY <1>4 DEF LoadSucceeds, Resolves, HooksDone, Launch, EndpointsReady, RegisterSucceeds,
                AfterStartSucceeds, WakeOnContext
  <2>2. undoQ = <<>> /\ (loadFailures = 0 => undone = <<>>)
    BY <2>1 DEF EffectsFlow
  <2>3. QED
    BY <2>1, <2>2, EffectsFrame
<1>5. ASSUME NEW adds \in BOOLEAN, HookRuns(adds)
      PROVE  EffectsFlow'
  BY <1>5, HookKeepsEffects
<1>6. ASSUME NEW e \in Failure, EarlyFails(e)
      PROVE  EffectsFlow'
  BY <1>6, BeginUndoKeepsEffects DEF EarlyFails
<1>7. ASSUME NEW e \in Failure,
             ComponentFails(e) \/ EndpointsFail(e) \/ \E left \in BOOLEAN : RegisterFails(e, left)
      PROVE  EffectsFlow'
  BY <1>7, BeginUndoKeepsEffects DEF ComponentFails, EndpointsFail, RegisterFails, StopFails
<1>8. ASSUME NEW e \in Failure, AfterStartFails(e)
      PROVE  EffectsFlow'
  <2>1. undoQ = <<>> /\ UNCHANGED <<effectVars, loadFailures>> /\ pc' = "deregister"
    BY <1>8 DEF AfterStartFails, EffectsFlow
  <2>2. QED
    BY <2>1, EffectsFrame
<1>9. ASSUME NEW failed \in BOOLEAN, NEW left \in BOOLEAN, Deregister(failed, left)
      PROVE  EffectsFlow'
  BY <1>9, BeginUndoKeepsEffects DEF Deregister
<1>10. CASE ComponentStarts \/ DisposeNext
  <2>1. UNCHANGED <<effectVars, loadFailures, pc, path>>
    BY <1>10 DEF ComponentStarts, DisposeNext
  <2>2. QED
    BY <2>1, EffectsFrame
<1>11. CASE StopServers \/ ServersStopped \/ DisposeBegins \/ StopAllDone \/ GroupEnds
              \/ StartupOutcome \/ CloseStore \/ WatchEnds \/ CloseDone \/ Release
  <2>1. /\ UNCHANGED <<effectVars, loadFailures>>
        /\ pc \in {"beforeStop"} \cup Stopping /\ pc' \in Stopping
    BY <1>11 DEF StopServers, ServersStopped, DisposeBegins, StopAllDone, GroupEnds,
                 StartupOutcome, CloseStore, WatchEnds, CloseDone, Release
  <2>2. undoQ = <<>> /\ ledger = <<>>
    BY <2>1 DEF EffectsFlow
  <2>3. QED
    BY <2>1, <2>2, EffectsFrame
<1>12. QED
  BY <1>1, <1>2, <1>3, <1>4, <1>5, <1>6, <1>7, <1>8, <1>9, <1>10, <1>11 DEF RunStep

LEMMA EffectsStep == RunTypeOK /\ EffectsFlow /\ [Next]_vars => EffectsFlow'
<1> SUFFICES ASSUME RunTypeOK, EffectsFlow, [Next]_vars PROVE EffectsFlow'
  OBVIOUS
<1>1. CASE RunBegin
  BY <1>1 DEF RunBegin, Goto, EffectsFlow, effectVars, StartingUp, Stopping, Disposing, Deferred
<1>2. CASE CallerCancel \/ Terminated \/ UNCHANGED vars
  <2>1. UNCHANGED <<effectVars, loadFailures, pc, path>>
    BY <1>2 DEF CallerCancel, Terminated, vars, runVars
  <2>2. QED
    BY <2>1, EffectsFrame
<1>3. CASE WakeOnSignal
  BY <1>3 DEF WakeOnSignal, Goto, EffectsFlow, effectVars, StartingUp, Stopping, Disposing, Deferred
<1>4. CASE \E s \in Server : ServerStep(s) \/ ServerEvent(s)
  <2>1. UNCHANGED <<effectVars, loadFailures, pc, path>>
    BY <1>4 DEF ServerStep, ServerEvent, runVars
  <2>2. QED
    BY <2>1, EffectsFrame
<1>5. CASE \E m \in Mounter : Call(m) \/ Proceed(m)
  <2>1. UNCHANGED <<effectVars, loadFailures, pc, path>>
    BY <1>5, MounterFrame DEF runVars
  <2>2. QED
    BY <2>1, EffectsFrame
<1>6. QED
  BY <1>1, <1>2, <1>3, <1>4, <1>5, EffectsRun DEF Next

-----------------------------------------------------------------------------
(* Whose fault an error is.                                                *)

\* During start-up a done context is the caller's doing, or a server's.
LEMMA StartingBlame ==
    ASSUME RunTypeOK, StopOrder, Blame, pc \in StartingUp
    PROVE  /\ CtxDone => callerCancelled
           /\ GctxDone => fault \/ callerCancelled
           /\ stopAsked = {}
<1>1. stopAsked = {}
  BY DEF StopOrder, StartingUp, Stopping, Disposing, Deferred
<1>2. groupErr \in {"nil", "error", "canceled"}
  BY DEF RunTypeOK, Outcome, Failure
<1>3. QED
  BY <1>1, <1>2 DEF Blame, CtxDone, GctxDone

\* The error of a failed step: what StepFails records is enough to blame.
LEMMA FailureBlame ==
    ASSUME RunTypeOK, StopOrder, Blame, pc \in StartingUp, NEW e, NEW done \in {CtxDone, GctxDone},
           StepFails(e, done), UNCHANGED callerCancelled
    PROVE  /\ fault' \in BOOLEAN /\ (fault => fault')
           /\ e \in Failure
           /\ e = "error" => fault'
           /\ e = "canceled" => fault' \/ callerCancelled'
<1>1. done => fault \/ callerCancelled
  BY StartingBlame
<1>2. QED
  BY <1>1 DEF StepFails, RunTypeOK

LEMMA BlameRun ==
    ASSUME RunTypeOK, StopOrder, GroupLifetime, Blame, RunStep
    PROVE  Blame'
<1> USE DEF runVars, ctxVars, srvVars, Goto, StartingUp, Deferred, CtxDone, StoppedTooEarly
<1>1. CASE UndoEffect
  BY <1>1 DEF UndoEffect, Blame
<1>2. CASE EndUndo
  BY <1>2 DEF EndUndo, Blame
<1>3. CASE LoadFails
  BY <1>3 DEF LoadFails, BeginUndo, Blame
<1>4. CASE LoadSucceeds \/ Resolves \/ HooksDone \/ EndpointsReady \/ AfterStartSucceeds
             \/ WakeOnContext
  BY <1>4 DEF LoadSucceeds, Resolves, HooksDone, EndpointsReady, AfterStartSucceeds,
              WakeOnContext, Blame
<1>5. CASE Launch \/ RegisterSucceeds \/ ComponentStarts
  <2>1. Launch => groupErr = "nil" /\ ~StoppedTooEarly'
    BY LifecycleAssumption DEF Launch, GroupLifetime, BeforeLaunch
  <2>2. QED
    BY <1>5, <2>1 DEF Launch, RegisterSucceeds, ComponentStarts, Blame
<1>6. ASSUME NEW adds \in BOOLEAN, HookRuns(adds)
      PROVE  Blame'
  BY <1>6 DEF HookRuns, Blame
<1>7. ASSUME NEW e \in Failure, EarlyFails(e)
      PROVE  Blame'
  <2>1. /\ e = "error" => fault'
        /\ e = "canceled" => fault' \/ callerCancelled'
        /\ fault => fault'
    BY <1>7, FailureBlame DEF EarlyFails
  <2>2. pc' = "undo" /\ path' = "early" /\ stepErr' = e
        /\ UNCHANGED <<ctxVars, groupErr, srv, stopAsked, result>>
    BY <1>7 DEF EarlyFails, BeginUndo
  <2>3. pc \in StartingUp
    BY <1>7 DEF EarlyFails
  <2>4. QED
    BY <2>1, <2>2, <2>3 DEF Blame
<1>8. ASSUME NEW e \in Failure,
             \/ ComponentFails(e) \/ EndpointsFail(e) \/ AfterStartFails(e)
             \/ \E left \in BOOLEAN : RegisterFails(e, left)
      PROVE  Blame'
  <2>1. pc \in StartingUp /\ (StepFails(e, CtxDone) \/ StepFails(e, GctxDone))
        /\ UNCHANGED callerCancelled
    BY <1>8 DEF ComponentFails, EndpointsFail, AfterStartFails, RegisterFails, StopFails
  <2>2. /\ e = "error" => fault'
        /\ e = "canceled" => fault' \/ callerCancelled'
        /\ fault => fault'
    BY <2>1, FailureBlame
  <2>3. /\ pc' = "deregister" \/ (pc' = "undo" /\ path' = "stop")
        /\ stepErr' = e
        /\ UNCHANGED <<groupErr, srv, stopAsked, result>>
    BY <1>8 DEF ComponentFails, EndpointsFail, AfterStartFails, RegisterFails, StopFails, BeginUndo
  <2>4. QED
    BY <2>1, <2>2, <2>3 DEF Blame
<1>9. ASSUME NEW failed \in BOOLEAN, NEW left \in BOOLEAN, Deregister(failed, left)
      PROVE  Blame'
  BY <1>9 DEF Deregister, BeginUndo, Blame
<1>10. CASE StopServers
  <2>1. stopAsked # {} => stopAsked' # {}
    BY <1>10 DEF StopServers, RunTypeOK
  <2>2. QED
    BY <1>10, <2>1 DEF StopServers, Blame
<1>11. CASE ServersStopped \/ DisposeBegins \/ DisposeNext \/ StopAllDone
  BY <1>11 DEF ServersStopped, DisposeBegins, DisposeNext, StopAllDone, Blame
<1>12. CASE GroupEnds
  BY <1>12 DEF GroupEnds, Blame
<1>13. CASE StartupOutcome
  BY <1>13 DEF StartupOutcome, CleanStop, Blame, RunTypeOK, Outcome, Failure
<1>14. CASE CloseStore \/ WatchEnds \/ CloseDone \/ Release
  BY <1>14 DEF CloseStore, WatchEnds, CloseDone, Release, Blame
<1>15. QED
  BY <1>1, <1>2, <1>3, <1>4, <1>5, <1>6, <1>7, <1>8, <1>9, <1>10, <1>11, <1>12, <1>13, <1>14
     DEF RunStep

LEMMA BlameServer ==
    ASSUME RunTypeOK, Blame, NEW s \in Server, ServerStep(s) \/ ServerEvent(s)
    PROVE  Blame'
<1>1. UNCHANGED <<pc, path, stepErr, result, ctxVars>>
  BY DEF ServerStep, ServerEvent, runVars
<1>2. /\ StoppedTooEarly => StoppedTooEarly'
      /\ StoppedTooEarly' => StoppedTooEarly \/ fault' \/ stopAsked' # {}
      /\ UNCHANGED stopAsked
  <2>1. CASE Listens(s) \/ ListensTooLate(s) \/ Drains(s) \/ SeesContext(s)
    BY <2>1, LifecycleAssumption DEF Listens, ListensTooLate, Drains, SeesContext, StartReturns,
       StoppedTooEarly, RunTypeOK
  <2>2. CASE BindFails(s) \/ Crashes(s)
    BY <2>2, LifecycleAssumption DEF BindFails, Crashes, StartReturns, StoppedTooEarly, RunTypeOK
  <2>3. CASE RequestBegins(s) \/ RequestEnds(s) \/ StopReturns(s)
    BY <2>3 DEF RequestBegins, RequestEnds, StopReturns, StoppedTooEarly
  <2>4. QED
    BY <2>1, <2>2, <2>3 DEF ServerStep, ServerEvent
<1>3. /\ fault => fault'
      /\ groupErr' = "error" => groupErr = "error" \/ fault' \/ StoppedTooEarly'
      /\ groupErr' = "canceled" => groupErr = "canceled" \/ CtxDone
  <2>1. CASE Listens(s) \/ RequestBegins(s) \/ RequestEnds(s) \/ StopReturns(s)
    BY <2>1 DEF Listens, RequestBegins, RequestEnds, StopReturns
  <2>2. CASE ListensTooLate(s)
    BY <2>2 DEF ListensTooLate, StartReturns, StoppedTooEarly, RunTypeOK
  <2>3. CASE BindFails(s) \/ Crashes(s)
    BY <2>3 DEF BindFails, Crashes, StartReturns
  <2>4. CASE Drains(s)
    BY <2>4 DEF Drains, StartReturns
  <2>5. CASE SeesContext(s)
    BY <2>5 DEF SeesContext, StartReturns, GctxDone
  <2>6. QED
    BY <2>1, <2>2, <2>3, <2>4, <2>5 DEF ServerStep, ServerEvent
<1>4. QED
  BY <1>1, <1>2, <1>3 DEF Blame, CtxDone, ctxVars, StartingUp, Deferred

LEMMA BlameStep ==
    RunTypeOK /\ StopOrder /\ GroupLifetime /\ Blame /\ [Next]_vars => Blame'
<1> SUFFICES ASSUME RunTypeOK, StopOrder, GroupLifetime, Blame, [Next]_vars PROVE Blame'
  OBVIOUS
<1> USE DEF runVars, ctxVars, srvVars, Goto, StartingUp, Deferred, CtxDone, StoppedTooEarly
<1>1. CASE RunBegin
  <2>1. groupErr = "nil" /\ stepErr = "nil" /\ ~cancelled /\ ~StoppedTooEarly
    BY <1>1, LifecycleAssumption DEF RunBegin, Blame, GroupLifetime, BeforeLaunch, StoppedTooEarly
  <2>2. pc' = "load" /\ UNCHANGED <<groupErr, stepErr, ctxVars, srv>>
    BY <1>1 DEF RunBegin
  <2>3. QED
    BY <2>1, <2>2 DEF Blame, StoppedTooEarly
<1>2. CASE CallerCancel \/ WakeOnSignal
  BY <1>2 DEF CallerCancel, WakeOnSignal, Blame, StoppedTooEarly
<1>3. CASE \E m \in Mounter : Call(m) \/ Proceed(m)
  BY <1>3, MounterFrame DEF Blame
<1>4. CASE Terminated \/ UNCHANGED vars
  BY <1>4 DEF Terminated, vars, Blame
<1>5. QED
  BY <1>1, <1>2, <1>3, <1>4, BlameRun, BlameServer DEF Next

-----------------------------------------------------------------------------
(* IInv is an invariant, and what follows from it.                         *)

LEMMA IInvInit == Init => IInv
<1> SUFFICES ASSUME Init PROVE IInv
  OBVIOUS
<1>1. CompIInv
  BY CompInitOK DEF Init
<1>2. RunTypeOK
  BY RunTypeInit
<1>3. StopOrder
  BY DEF Init, CompInit, StopOrder
<1>4. GroupLifetime
  BY DEF Init, GroupLifetime, NoneRunning, Deferred
<1>5. Ending
  BY DEF Init, Ending, Deferred
<1>6. OrderKept
  BY OrderKeptInit DEF Init
<1>7. EffectsFlow
  BY EffectsInit
<1>8. Blame
  BY LifecycleAssumption DEF Init, Blame, StoppedTooEarly, StartingUp, Deferred
<1>9. QED
  BY <1>1, <1>2, <1>3, <1>4, <1>5, <1>6, <1>7, <1>8 DEF IInv, TypeOK, CompIInv

LEMMA IInvStep == IInv /\ [Next]_vars => IInv'
<1> SUFFICES ASSUME IInv, [Next]_vars PROVE IInv'
  OBVIOUS
<1>1. /\ TypeOK /\ RunTypeOK /\ CompIInv /\ OrderKept
      /\ StopOrder /\ GroupLifetime /\ Ending /\ EffectsFlow /\ Blame
  BY DEF IInv, TypeOK, CompIInv
<1>2. CompIInv'
  <2>1. CASE Next
    BY <1>1, <2>1, CompPartOK
  <2>2. CASE UNCHANGED vars
    BY <1>1, <2>2, CompStutterOK DEF vars
  <2>3. QED
    BY <2>1, <2>2
<1>3. RunTypeOK'
  BY <1>1, RunTypeStep DEF TypeOK
<1>4. StopOrder' /\ GroupLifetime' /\ Ending'
  BY <1>1, StopOrderStep, GroupStep, EndingStep
<1>5. OrderKept'
  BY <1>1, OrderPartOK, StutterKeepsOrder DEF vars
<1>6. EffectsFlow' /\ Blame'
  BY <1>1, EffectsStep, BlameStep
<1>7. QED
  BY <1>2, <1>3, <1>4, <1>5, <1>6 DEF IInv, TypeOK, CompIInv

(* The strengthening every theorem below is read off from.                 *)
THEOREM Invariance == Spec => []IInv
<1>1. Init => IInv
  BY IInvInit
<1>2. IInv /\ [Next]_vars => IInv'
  BY IInvStep
<1>3. QED
  BY <1>1, <1>2, PTL DEF Spec

(* Every variable keeps its type, whatever the sizes of the instance.      *)
THEOREM TypeCorrect == Spec => []TypeOK
<1>1. IInv => TypeOK
  BY DEF IInv
<1>2. QED
  BY <1>1, Invariance, PTL

(* A live component has exactly one goroutine or list that will dispose    *)
(* it: MountComponent, UnmountComponent, startComponents and               *)
(* disposeComponents never leak one and never dispose one twice.           *)
THEOREM OneOwner == Spec => []SingleOwner
<1>1. IInv => SingleOwner
  BY DEF IInv
<1>2. QED
  BY <1>1, Invariance, PTL

(* stopAll stops the servers before it disposes the components: no request *)
(* meets a disposed component unless the Stop of its server gave up.       *)
LEMMA RequestsFirst == Spec => []RequestsBeforeComponents
<1>1. IInv => RequestsBeforeComponents
  BY DEF IInv, StopOrder, TypeOK, RunTypeOK, RequestsBeforeComponents
<1>2. QED
  BY <1>1, Invariance, PTL

(* No Stop is called while the registry holds the instance, unless the     *)
(* registrar failed: deregister precedes stopAll on every path.            *)
LEMMA DeregisteredFirst == Spec => []DeregisteredBeforeStop
<1>1. IInv => DeregisteredBeforeStop
  BY DEF IInv, StopOrder, DeregisteredBeforeStop, Stopping, Disposing, Deferred
<1>2. QED
  BY <1>1, Invariance, PTL

(* Both together: a stop goes from the outside in, for any servers,        *)
(* components and mounting goroutines.                                     *)
THEOREM StopsOrderly == Spec => []OrderlyStop
BY RequestsFirst, DeregisteredFirst, PTL DEF OrderlyStop

(* Run leaves no goroutine of its own behind, on any of its exits.         *)
THEOREM AllJoined == Spec => []NothingRunsAfterReturn
<1>1. IInv => NothingRunsAfterReturn
  BY DEF IInv, GroupLifetime, Ending, Deferred, NoneRunning, NothingRunsAfterReturn
<1>2. QED
  BY <1>1, Invariance, PTL

(* Run returns nil only when no start-up step failed, save for a step cut  *)
(* short by the caller's own cancellation; and a server that failed is     *)
(* hidden only behind a Start that had returned a cancellation first.      *)
THEOREM Truthful == Spec => []OutcomeTruthful
<1>1. IInv => OutcomeTruthful
  <2>1. groupErr \in {"nil", "error", "canceled"} \/ ~RunTypeOK
    BY DEF RunTypeOK, Outcome, Failure
  <2>2. QED
    BY <2>1 DEF IInv, TypeOK, GroupLifetime, Ending, Blame, Deferred, OutcomeTruthful
<1>2. QED
  BY <1>1, Invariance, PTL

(* A stop that nothing failed in ends with nil wherever the cancellation   *)
(* or the signal fell, unless a server reports as an error that it was     *)
(* stopped before it served: Blame says that nothing else can be the       *)
(* reason.                                                                 *)
THEOREM CleanCancellation == Spec => []CancelIsClean
<1>1. IInv => CancelIsClean
  BY DEF IInv, Blame, Deferred, CancelIsClean, StoppedTooEarly
<1>2. QED
  BY <1>1, Invariance, PTL

(* The effects that were ever put in the ledger, and no more than were put *)
(* there, have been undone when Run returns, in reverse order when no load *)
(* failed: on every exit of Run, for any number of hooks.                  *)
THEOREM EffectsUndone == Spec => []EffectsReversed
<1>1. IInv => EffectsReversed
  <2>1. SUFFICES ASSUME IInv, pc = "returned"
                 PROVE  /\ ledger = <<>>
                        /\ Len(undone) = Len(registered)
                        /\ ToSet(undone) = ToSet(registered)
                        /\ loadFailures = 0 => undone = Reverse(registered)
    BY DEF EffectsReversed
  <2>2. ledger = <<>> /\ undoQ = <<>>
    BY <2>1 DEF IInv, EffectsFlow, Stopping, Disposing, Deferred
  <2>3. undone \in Seq(Nat) /\ registered \in Seq(Nat)
    BY <2>1 DEF IInv, TypeOK, RunTypeOK
  <2>4. Len(undone) \in Nat /\ Len(registered) \in Nat /\ Len(undone) = Len(registered)
    BY <2>1, <2>2, <2>3, EmptyFacts, LenProperties DEF IInv, EffectsFlow
  <2>5. ToSet(undone) = ToSet(registered)
    BY <2>1, <2>2, EmptyFacts DEF IInv, EffectsFlow
  <2>6. ASSUME loadFailures = 0
        PROVE  undone = Reverse(registered)
    <3>1. \A i \in 1..Len(undone) : undone[i] = registered[Len(registered) + 1 - i]
      BY <2>1, <2>6 DEF IInv, EffectsFlow
    <3>2. undone = [i \in 1..Len(registered) |-> undone[i]]
      BY <2>3, <2>4, LenProperties
    <3>3. \A i \in 1..Len(registered) : Len(registered) + 1 - i = (Len(registered) - i) + 1
      BY <2>4
    <3>4. QED
      BY <2>4, <3>1, <3>2, <3>3 DEF Reverse
  <2>7. QED
    BY <2>2, <2>4, <2>5, <2>6
<1>2. QED
  BY <1>1, Invariance, PTL

-----------------------------------------------------------------------------
(* The disposal walk.                                                      *)

(* What a single step may do to the declared components.                   *)
ReverseStep ==
    \A i, j \in 1..Len(Declared) :
        /\ i < j
        /\ pc = "dispose"
        /\ Declared[i] \in ToSet(disposeQ)
        /\ comp'[Declared[i]] = "gone"
        => Declared[j] \notin ToSet(disposeQ)

\* Only the walk itself brings down what is in its snapshot.
LEMMA WalkTakesLast ==
    ASSUME IInv, Next, pc = "dispose", NEW c \in ToSet(disposeQ), comp'[c] = "gone"
    PROVE  disposeQ # <<>> /\ c = Last(disposeQ)
<1>1. disposeQ \in Seq(Comp) /\ comp \in [Comp -> CompStatus] /\ SingleOwner
  BY DEF IInv, TypeOK, CompTypeOK
<1>2. c \in Comp
  BY <1>1, ElementOfSeq, LenProperties DEF ToSet
<1>3. comp[c] = "live"
  BY <1>1, <1>2 DEF SingleOwner, Owned
<1>4. CASE UNCHANGED compVars
  BY <1>3, <1>4 DEF compVars
<1>5. CASE DisposeComponent
  <2>1. disposeQ # <<>> /\ comp' = [comp EXCEPT ![Last(disposeQ)] = "gone"]
    BY <1>5 DEF DisposeComponent
  <2>2. QED
    BY <1>1, <1>2, <1>3, <2>1
<1>6. ASSUME NEW m \in Mounter, MounterCall(m) \/ MounterStep(m)
      PROVE  FALSE
  <2>1. InHand(m) => arg[m] # c
    BY <1>1 DEF SingleOwner
  <2>2. comp'[c] = comp[c] \/ comp'[c] = "live"
    BY <1>1, <1>2, <1>6, <2>1
       DEF MounterCall, MountCheck, UnmountTake, MounterStep, MountStart, MountStartFails,
           MountCommit, MountRefuse, MounterDispose, InHand
  <2>3. QED
    BY <1>3, <2>2
<1>7. QED
  BY <1>4, <1>5, <1>6, StepShape

LEMMA StepInReverse == IInv /\ [Next]_vars => [ReverseStep]_vars
<1> SUFFICES ASSUME IInv, Next, pc = "dispose",
                    NEW i \in 1..Len(Declared), NEW j \in 1..Len(Declared), i < j,
                    Declared[i] \in ToSet(disposeQ), comp'[Declared[i]] = "gone",
                    Declared[j] \in ToSet(disposeQ)
             PROVE  FALSE
  BY DEF ReverseStep
<1>1. /\ disposeQ # <<>> /\ Declared[i] = Last(disposeQ)
      /\ disposeQ \in Seq(Comp) /\ InOrder(disposeQ)
  BY WalkTakesLast DEF IInv, TypeOK, CompTypeOK, OrderKept
<1>2. Len(disposeQ) \in Nat \ {0} /\ Last(disposeQ) = disposeQ[Len(disposeQ)]
  BY <1>1, FrontShape
<1>3. PICK p \in 1..Len(disposeQ) : disposeQ[p] = Declared[j]
  BY <1>1, LenProperties DEF ToSet
<1>4. p # Len(disposeQ)
  BY <1>1, <1>2, <1>3, DeclaredFacts
<1>5. j < i
  BY <1>1, <1>2, <1>3, <1>4 DEF InOrder
<1>6. QED
  BY <1>5, DeclaredFacts

(* disposeComponents goes through the declared components backwards,       *)
(* whatever mounters took out of the stop sequence or added to it.         *)
THEOREM DisposedInReverse == Spec => StopsInReverse
<1>1. IInv /\ [Next]_vars => [ReverseStep]_vars
  BY StepInReverse
<1>2. QED
  BY <1>1, Invariance, PTL DEF Spec, StopsInReverse, ReverseStep

-----------------------------------------------------------------------------
(* The component engine implements ComponentContract, step by step.        *)

Unmounting == {arg[m] : m \in {n \in Mounter : at[n] = "unmounting"}}
Adopted == ToSet(started) \cup ToSet(disposeQ) \cup Unmounting

LEMMA ContractNext ==
    ASSUME NEW c \in Comp,
           \/ Contract!Offer(c) \/ Contract!Adopt(c)
           \/ Contract!BringUp(c) \/ Contract!BringDown(c)
    PROVE  Contract!Next
BY DEF Contract!Next

LEMMA ContractInit == Init => Contract!Init
<1> SUFFICES ASSUME Init PROVE Contract!Init
  OBVIOUS
<1>1. started = <<>> /\ disposeQ = <<>> /\ Unmounting = {}
  BY DEF Init, CompInit, Unmounting
<1>2. Adopted = {}
  BY <1>1, EmptyFacts DEF Adopted
<1>3. QED
  BY <1>2 DEF Contract!Init, Init, CompInit, Adopted, Unmounting

\* startComponents brings a component up and adopts it.
LEMMA StartIsBringUp ==
    ASSUME CompIInv, ~disposed, StartComponent
    PROVE  Contract!Next
<1>0. PICK c \in Comp : c = Declared[nextComp]
  BY DeclaredFacts DEF StartComponent, CompIInv, CompTypeOK
<1>1. comp[c] = "new" /\ started \in Seq(Comp)
  BY <1>0, DeclaredFacts DEF StartComponent, CompIInv, CompTypeOK, MountersConsistent
<1>2. ToSet(started') = ToSet(started) \cup {c}
  BY <1>0, <1>1, AppendFacts DEF StartComponent
<1>3. UNCHANGED <<disposed, disposeQ, Unmounting>> /\ comp' = [comp EXCEPT ![c] = "live"]
  BY <1>0 DEF StartComponent, Unmounting
<1>4. Adopted' = Adopted \cup {c}
  BY <1>2, <1>3 DEF Adopted
<1>5. Contract!BringUp(c)
  BY <1>1, <1>3, <1>4 DEF Contract!BringUp, Adopted, Unmounting
<1>6. QED
  BY <1>5, ContractNext

\* disposeComponents closes the App; what it adopted stays adopted.
LEMMA BeginDisposeIsClose ==
    ASSUME ~disposed, disposeQ = <<>>, BeginDispose
    PROVE  Contract!Close
<1>1. started' = <<>> /\ disposeQ' = started /\ disposed' = TRUE /\ UNCHANGED <<comp, Unmounting>>
  BY DEF BeginDispose, Unmounting
<1>2. UNCHANGED Adopted
  BY <1>1, EmptyFacts DEF Adopted
<1>3. QED
  BY <1>1, <1>2 DEF Contract!Close, Adopted, Unmounting

LEMMA WalkIsBringDown ==
    ASSUME CompIInv, DisposeComponent
    PROVE  Contract!Next
<1>1. PICK c \in Comp : /\ c = Last(disposeQ) /\ c \in ToSet(disposeQ)
                        /\ ToSet(disposeQ') = ToSet(disposeQ) \ {c}
  BY FrontFacts DEF DisposeComponent, CompIInv, CompTypeOK, SingleOwner
<1>2. comp[c] = "live" /\ c \notin ToSet(started) /\ c \notin Unmounting
  BY <1>1 DEF CompIInv, SingleOwner, Owned, InHand, Unmounting
<1>3. UNCHANGED <<started, disposed, Unmounting>> /\ comp' = [comp EXCEPT ![c] = "gone"]
  BY <1>1 DEF DisposeComponent, Unmounting
<1>4. Adopted' = Adopted \ {c} /\ c \in Adopted
  BY <1>1, <1>2, <1>3 DEF Adopted
<1>5. Contract!BringDown(c)
  BY <1>1, <1>2, <1>3, <1>4 DEF Contract!BringDown, Adopted, Unmounting
<1>6. QED
  BY <1>5, ContractNext

\* A mounter's call changes nothing the contract speaks of: what
\* UnmountComponent takes off the list it holds in its hands.
LEMMA CallIsStutter ==
    ASSUME CompIInv, NEW m \in Mounter, MounterCall(m)
    PROVE  UNCHANGED Contract!vars
<1>1. at \in [Mounter -> MounterAt] /\ arg \in [Mounter -> Comp \cup {NoComp}]
      /\ started \in Seq(Comp)
  BY DEF CompIInv, CompTypeOK
<1>2. ASSUME NEW c \in Comp, MountCheck(m, c)
      PROVE  UNCHANGED Contract!vars
  <2>1. UNCHANGED <<comp, started, disposed, disposeQ>>
        /\ \A n \in Mounter : (at'[n] = "unmounting" <=> at[n] = "unmounting")
                              /\ (at[n] = "unmounting" => arg'[n] = arg[n])
    BY <1>1, <1>2 DEF MountCheck
  <2>2. UNCHANGED Unmounting
    BY <2>1 DEF Unmounting
  <2>3. QED
    BY <2>1, <2>2 DEF Contract!vars, Unmounting
<1>3. ASSUME NEW c \in Comp, UnmountTake(m, c)
      PROVE  UNCHANGED Contract!vars
  <2>1. PICK k \in 1..Len(started) : started[k] = c /\ started' = RemoveAt(started, k)
    BY <1>3 DEF UnmountTake
  <2>2. ToSet(started') = ToSet(started) \ {c} /\ c \in ToSet(started)
    <3>1. NoDuplicates(started)
      BY DEF CompIInv, SingleOwner
    <3>2. c \in ToSet(started)
      BY <2>1, SMT DEF ToSet
    <3>3. QED
      BY <1>1, <2>1, <3>1, <3>2, RemoveAtFacts
  <2>3. /\ at[m] = "idle" /\ at'[m] = "unmounting" /\ arg'[m] = c
        /\ \A n \in Mounter : n # m => at'[n] = at[n] /\ arg'[n] = arg[n]
        /\ UNCHANGED <<comp, disposed, disposeQ>>
    BY <1>1, <1>3 DEF UnmountTake
  <2>4. Unmounting' = Unmounting \cup {c}
    BY <2>3 DEF Unmounting
  <2>5. UNCHANGED Adopted
    BY <2>2, <2>3, <2>4 DEF Adopted
  <2>6. QED
    BY <2>3, <2>5 DEF Contract!vars, Adopted, Unmounting
<1>4. QED
  BY <1>2, <1>3 DEF MounterCall

\* Inside a call: the mounter offers, the open App adopts, and what comes
\* down again was adopted or refused.
LEMMA ProceedIsContract ==
    ASSUME CompIInv, OrderKept, NEW m \in Mounter, MounterStep(m)
    PROVE  Contract!Next \/ UNCHANGED Contract!vars
<1>1. /\ at \in [Mounter -> MounterAt] /\ arg \in [Mounter -> Comp \cup {NoComp}]
      /\ started \in Seq(Comp) /\ SingleOwner /\ MountersConsistent
  BY DEF CompIInv, CompTypeOK
<1>2. PICK c \in Comp : c = arg[m] /\ at[m] # "idle"
  <2>1. at[m] # "idle"
    BY DEF MounterStep, MountStart, MountStartFails, MountCommit, MountRefuse, MounterDispose
  <2>2. QED
    BY <1>1, <2>1 DEF MountersConsistent
<1>3. ASSUME \A n \in Mounter : (at'[n] = "unmounting" <=> at[n] = "unmounting")
                                /\ (at[n] = "unmounting" => arg'[n] = arg[n])
      PROVE  UNCHANGED Unmounting
  BY <1>3 DEF Unmounting
<1>4. CASE MountStart(m)
  <2>1. /\ c \in Comp /\ comp[c] = "new" /\ comp' = [comp EXCEPT ![c] = "live"]
        /\ UNCHANGED <<started, disposed, disposeQ>>
    BY <1>1, <1>2, <1>4 DEF MountStart, MountersConsistent
  <2>2. UNCHANGED Unmounting
    BY <1>1, <1>3, <1>4 DEF MountStart
  <2>3. Contract!Offer(c)
    BY <2>1, <2>2 DEF Contract!Offer, Unmounting
  <2>4. QED
    BY <2>1, <2>3, ContractNext
<1>5. CASE MountStartFails(m) \/ MountRefuse(m)
  <2>1. UNCHANGED <<comp, started, disposed, disposeQ>>
    BY <1>5 DEF MountStartFails, MountRefuse
  <2>2. UNCHANGED Unmounting
    BY <1>1, <1>3, <1>5 DEF MountStartFails, MountRefuse
  <2>3. QED
    BY <2>1, <2>2 DEF Contract!vars, Unmounting
<1>6. CASE MountCommit(m)
  <2>1. c \in Comp /\ InHand(m) /\ ~disposed /\ started' = Append(started, c)
        /\ UNCHANGED <<comp, disposed, disposeQ>>
    BY <1>2, <1>6 DEF MountCommit, InHand
  <2>2. comp[c] = "live"
    BY <1>1, <1>2, <2>1 DEF SingleOwner, Owned
  <2>3. ToSet(started') = ToSet(started) \cup {c}
    BY <1>1, <2>1, AppendFacts
  <2>4. UNCHANGED Unmounting
    BY <1>1, <1>3, <1>6 DEF MountCommit
  <2>5. Adopted' = Adopted \cup {c}
    BY <2>1, <2>3, <2>4 DEF Adopted
  <2>6. Contract!Adopt(c)
    BY <2>1, <2>2, <2>5 DEF Contract!Adopt, Adopted, Unmounting
  <2>7. QED
    BY <2>1, <2>6, ContractNext
<1>7. CASE MounterDispose(m)
  <2>1. /\ c \in Comp /\ InHand(m)
        /\ at[m] = "unmounting" \/ disposed
        /\ comp' = [comp EXCEPT ![c] = "gone"]
        /\ UNCHANGED <<started, disposed, disposeQ>>
    BY <1>2, <1>7 DEF MounterDispose, InHand, OrderKept
  <2>2. comp[c] = "live" /\ c \notin ToSet(started) \cup ToSet(disposeQ)
    BY <1>1, <1>2, <2>1 DEF SingleOwner, Owned
  <2>3. Unmounting' = Unmounting \ {c} /\ (at[m] = "unmounting" => c \in Unmounting)
    <3>1. /\ at'[m] = "idle"
          /\ \A n \in Mounter : n # m => at'[n] = at[n] /\ arg'[n] = arg[n]
      BY <1>1, <1>7 DEF MounterDispose
    <3>2. \A n \in Mounter : n # m => arg[n] # c
      BY <1>1, <1>2, <2>1 DEF SingleOwner
    <3>3. QED
      BY <1>2, <2>1, <3>1, <3>2 DEF Unmounting
  <2>4. Adopted' = Adopted \ {c}
    BY <2>1, <2>2, <2>3 DEF Adopted
  <2>5. c \in Adopted \/ disposed
    BY <2>1, <2>3 DEF Adopted
  <2>6. Contract!BringDown(c)
    BY <2>1, <2>2, <2>4, <2>5 DEF Contract!BringDown, Adopted, Unmounting
  <2>7. QED
    BY <2>1, <2>6, ContractNext
<1>8. QED
  BY <1>4, <1>5, <1>6, <1>7 DEF MounterStep

LEMMA ContractStep == IInv /\ [Next]_vars => [Contract!Next]_(Contract!vars)
<1> SUFFICES ASSUME IInv, [Next]_vars PROVE Contract!Next \/ UNCHANGED Contract!vars
  OBVIOUS
<1>1. CompIInv /\ OrderKept /\ StopOrder
  BY DEF IInv, TypeOK, CompIInv
<1>2. CASE UNCHANGED vars \/ UNCHANGED compVars
  BY <1>2 DEF vars, compVars, Contract!vars
<1>3. CASE pc = "components" /\ StartComponent
  <2>1. ~disposed
    BY <1>1, <1>3 DEF StopOrder, Disposing, Deferred
  <2>2. QED
    BY <1>1, <1>3, <2>1, StartIsBringUp
<1>4. CASE pc = "afterStop" /\ BeginDispose
  <2>1. ~disposed /\ disposeQ = <<>>
    BY <1>1, <1>4 DEF StopOrder, Disposing, Deferred
  <2>2. QED
    BY <1>4, <2>1, BeginDisposeIsClose DEF Contract!Next
<1>5. CASE DisposeComponent
  BY <1>1, <1>5, WalkIsBringDown
<1>6. CASE \E m \in Mounter : MounterCall(m) \/ MounterStep(m)
  BY <1>1, <1>6, CallIsStutter, ProceedIsContract
<1>7. QED
  BY <1>2, <1>3, <1>4, <1>5, <1>6, StepShape

(* The safety part of ContractKept: every behaviour of the App is one of   *)
(* ComponentContract, whose liveness TLC checks.  A component is adopted   *)
(* only while the App is open, is brought up once and down once, and only  *)
(* by the App that adopted it or, once it is closed, by the one refused.   *)
THEOREM ContractSafe == Spec => Contract!Init /\ [][Contract!Next]_(Contract!vars)
<1>1. Init => Contract!Init
  BY ContractInit
<1>2. IInv /\ [Next]_vars => [Contract!Next]_(Contract!vars)
  BY ContractStep
<1>3. QED
  BY <1>1, <1>2, Invariance, PTL DEF Spec
=============================================================================
