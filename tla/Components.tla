------------------------------ MODULE Components ------------------------------
(***************************************************************************)
(* The in-process components an App owns: pkg/appkit/component.go and      *)
(* pkg/appkit/mount.go.                                                    *)
(*                                                                         *)
(* A component is started either by the Run goroutine, which walks the     *)
(* declared list (startComponents), or by any other goroutine through      *)
(* MountComponent.  It is disposed by the stop sequence                    *)
(* (disposeComponents), by UnmountComponent, or by the rollback of a mount *)
(* that lost the race against the stop sequence.  The lock startedMu       *)
(* covers only the two fields `started' and `disposed': Start and Dispose  *)
(* themselves run outside it, and every step between two lock regions is   *)
(* an action of its own here.                                              *)
(***************************************************************************)
EXTENDS Integers, Sequences, SequencesExt, FiniteSets

CONSTANTS
    Comp,      \* component instances
    Declared,  \* the instances of Decl.Components, in declaration order
    CompName,  \* CompName[c]: what c.Name() returns (not unique)
    Mounter,   \* goroutines that call MountComponent and UnmountComponent
    NoComp     \* what a mounter holds between two calls

(***************************************************************************)
(* A declared instance is declared once.  Instances a mounter brings are   *)
(* fresh: nobody mounts an instance of the declaration.                    *)
(***************************************************************************)
ASSUME CompAssumption ==
    /\ NoComp \notin Comp
    /\ Declared \in Seq(Comp)
    /\ \A i, j \in 1..Len(Declared) : Declared[i] = Declared[j] => i = j

VARIABLES
    running,   \* App.running, owned by Run; read by Mount and Unmount
    comp,      \* comp[c]: "new", "live" (Start returned nil), "gone" (Dispose ran)
    started,   \* App.started
    disposed,  \* App.disposed
    disposeQ,  \* the snapshot disposeComponents walks, last entry first
    nextComp,  \* the loop index of startComponents
    at,        \* at[m]: where mounter m stands
    arg        \* arg[m]: the component m is working on

compVars == <<comp, started, disposed, disposeQ, nextComp, at, arg>>

CompStatus == {"new", "live", "gone"}
MounterAt  == {"idle", "starting", "started", "refused", "unmounting"}

CompTypeOK ==
    /\ comp \in [Comp -> CompStatus]
    /\ started \in Seq(Comp)
    /\ disposed \in BOOLEAN
    /\ disposeQ \in Seq(Comp)
    /\ nextComp \in Nat \ {0}
    /\ at \in [Mounter -> MounterAt]
    /\ arg \in [Mounter -> Comp \cup {NoComp}]

\* Mutant of CompInit: a zero-based loop index.
ZeroBasedInit ==
    /\ comp = [c \in Comp |-> "new"]
    /\ started = <<>>
    /\ disposed = FALSE
    /\ disposeQ = <<>>
    /\ nextComp = 0
    /\ at = [m \in Mounter |-> "idle"]
    /\ arg = [m \in Mounter |-> NoComp]

CompInit ==
    /\ comp = [c \in Comp |-> "new"]
    /\ started = <<>>
    /\ disposed = FALSE
    /\ disposeQ = <<>>
    /\ nextComp = 1
    /\ at = [m \in Mounter |-> "idle"]
    /\ arg = [m \in Mounter |-> NoComp]

-----------------------------------------------------------------------------
(* The Run goroutine.                                                      *)

\* One iteration of startComponents whose Start returns nil.
StartComponent ==
    /\ nextComp <= Len(Declared)
    /\ comp' = [comp EXCEPT ![Declared[nextComp]] = "live"]
    /\ started' = Append(started, Declared[nextComp])
    /\ nextComp' = nextComp + 1
    /\ UNCHANGED <<disposed, disposeQ, at, arg>>

\* disposeComponents up to its unlock: mark, snapshot, clear.
BeginDispose ==
    /\ disposed' = TRUE
    /\ disposeQ' = IF disposed THEN <<>> ELSE started
    /\ started' = IF disposed THEN started ELSE <<>>
    /\ UNCHANGED <<comp, nextComp, at, arg>>

\* Mutant of DisposeComponent: the walk starts at the front.
DisposeInOrder ==
    /\ disposeQ # <<>>
    /\ comp' = [comp EXCEPT ![Head(disposeQ)] = "gone"]
    /\ disposeQ' = Tail(disposeQ)
    /\ UNCHANGED <<started, disposed, nextComp, at, arg>>

\* One iteration of its loop: the last remaining entry is disposed; an error
\* or a panic of Dispose is logged and the walk goes on.
DisposeComponent ==
    /\ disposeQ # <<>>
    /\ comp' = [comp EXCEPT ![Last(disposeQ)] = "gone"]
    /\ disposeQ' = Front(disposeQ)
    /\ UNCHANGED <<started, disposed, nextComp, at, arg>>

-----------------------------------------------------------------------------
(* The other goroutines.                                                   *)

\* The instances a mounter may bring: fresh, not declared, in nobody's hands.
Fresh(c) ==
    /\ comp[c] = "new"
    /\ c \notin ToSet(Declared)
    /\ \A m \in Mounter : arg[m] # c

\* MountComponent: the running check passed.
MountCheck(m, c) ==
    /\ running
    /\ at[m] = "idle"
    /\ Fresh(c)
    /\ at' = [at EXCEPT ![m] = "starting"]
    /\ arg' = [arg EXCEPT ![m] = c]
    /\ UNCHANGED <<comp, started, disposed, disposeQ, nextComp>>

\* c.Start returned nil, outside the lock.
MountStart(m) ==
    /\ at[m] = "starting"
    /\ comp' = [comp EXCEPT ![arg[m]] = "live"]
    /\ at' = [at EXCEPT ![m] = "started"]
    /\ UNCHANGED <<started, disposed, disposeQ, nextComp, arg>>

\* c.Start failed: MountComponent returns the wrapped error.
MountStartFails(m) ==
    /\ at[m] = "starting"
    /\ at' = [at EXCEPT ![m] = "idle"]
    /\ arg' = [arg EXCEPT ![m] = NoComp]
    /\ UNCHANGED <<comp, started, disposed, disposeQ, nextComp>>

\* Mutant of MountCommit: disposed is not read under the lock.
CommitUnchecked(m) ==
    /\ at[m] = "started"
    /\ started' = Append(started, arg[m])
    /\ at' = [at EXCEPT ![m] = "idle"]
    /\ arg' = [arg EXCEPT ![m] = NoComp]
    /\ UNCHANGED <<comp, disposed, disposeQ, nextComp>>

\* The lock region when the stop sequence has not begun to dispose.
MountCommit(m) ==
    /\ at[m] = "started"
    /\ ~disposed
    /\ started' = Append(started, arg[m])
    /\ at' = [at EXCEPT ![m] = "idle"]
    /\ arg' = [arg EXCEPT ![m] = NoComp]
    /\ UNCHANGED <<comp, disposed, disposeQ, nextComp>>

\* The lock region when it has: errComponentsDisposed.
MountRefuse(m) ==
    /\ at[m] = "started"
    /\ disposed
    /\ at' = [at EXCEPT ![m] = "refused"]
    /\ UNCHANGED <<comp, started, disposed, disposeQ, nextComp, arg>>

\* Mutant of UnmountTake: the entry is found but not removed.
TakeWithoutRemoving(m, c) ==
    /\ running
    /\ at[m] = "idle"
    /\ c \in ToSet(started)
    /\ at' = [at EXCEPT ![m] = "unmounting"]
    /\ arg' = [arg EXCEPT ![m] = c]
    /\ UNCHANGED <<comp, started, disposed, disposeQ, nextComp>>

\* UnmountComponent's lock region: the newest entry of that name leaves the
\* stop sequence.
UnmountTake(m, c) ==
    /\ running
    /\ at[m] = "idle"
    /\ \E i \in 1..Len(started) :
        /\ started[i] = c
        /\ \A j \in (i + 1)..Len(started) : CompName[started[j]] # CompName[c]
        /\ started' = RemoveAt(started, i)
    /\ at' = [at EXCEPT ![m] = "unmounting"]
    /\ arg' = [arg EXCEPT ![m] = c]
    /\ UNCHANGED <<comp, disposed, disposeQ, nextComp>>

\* The Dispose a mounter owes: the rollback of a refused mount, or the
\* Dispose of an unmounted component; both only log an error.
MounterDispose(m) ==
    /\ at[m] \in {"refused", "unmounting"}
    /\ comp' = [comp EXCEPT ![arg[m]] = "gone"]
    /\ at' = [at EXCEPT ![m] = "idle"]
    /\ arg' = [arg EXCEPT ![m] = NoComp]
    /\ UNCHANGED <<started, disposed, disposeQ, nextComp>>

\* What a mounter does once its call is under way.
MounterStep(m) ==
    \/ MountStart(m)
    \/ MountStartFails(m)
    \/ MountCommit(m)
    \/ MountRefuse(m)
    \/ MounterDispose(m)

\* A mounter makes a new call.
MounterCall(m) == \E c \in Comp : MountCheck(m, c) \/ UnmountTake(m, c)

CompNext ==
    \/ StartComponent
    \/ BeginDispose
    \/ DisposeComponent
    \/ \E m \in Mounter : MounterCall(m) \/ MounterStep(m)

-----------------------------------------------------------------------------
(* Who is responsible for disposing a live component.                      *)

InHand(m) == at[m] \in {"started", "refused", "unmounting"}

Owned(c) ==
    \/ c \in ToSet(started)
    \/ c \in ToSet(disposeQ)
    \/ \E m \in Mounter : InHand(m) /\ arg[m] = c

NoDuplicates(s) == \A i, j \in 1..Len(s) : s[i] = s[j] => i = j

(* At every moment a live component has exactly one owner that will        *)
(* dispose it -- the App's stop sequence, the walk under way, or the one   *)
(* goroutine that holds it between two lock regions -- and what an owner   *)
(* holds is live.  A second owner would dispose it twice (UnmountComponent *)
(* racing disposeComponents); none would leak it (MountComponent racing    *)
(* disposeComponents, the race the comment on disposeComponents claims to  *)
(* close).                                                                 *)
SingleOwner ==
    /\ \A c \in Comp : comp[c] = "live" <=> Owned(c)
    /\ NoDuplicates(started)
    /\ NoDuplicates(disposeQ)
    /\ ToSet(started) \cap ToSet(disposeQ) = {}
    /\ \A m \in Mounter : InHand(m) => arg[m] \notin ToSet(started) \cup ToSet(disposeQ)
    /\ \A m, n \in Mounter : InHand(m) /\ arg[m] = arg[n] => m = n

(* What SingleOwner rests on: a mounter between two calls holds nothing,   *)
(* two mounters never work on one instance, an instance being started is   *)
(* still new, and so is every declared component not reached yet.          *)
MountersConsistent ==
    /\ \A m \in Mounter : at[m] = "idle" <=> arg[m] = NoComp
    /\ \A m \in Mounter : at[m] = "starting" =>
          comp[arg[m]] = "new" /\ arg[m] \notin ToSet(Declared)
    /\ \A m, n \in Mounter : at[m] # "idle" /\ arg[m] = arg[n] => m = n
    /\ \A i \in nextComp..Len(Declared) : comp[Declared[i]] = "new"

\* Declared components stand in the stop sequence in the order of their
\* declaration; what a mounter brings is never one of them.
InOrder(s) ==
    \A p, q \in 1..Len(s) : \A i, j \in 1..Len(Declared) :
        p < q /\ s[p] = Declared[i] /\ s[q] = Declared[j] => i < j

OrderKept ==
    /\ InOrder(started) /\ InOrder(disposeQ)
    /\ \A m \in Mounter : at[m] \in {"started", "refused"} => arg[m] \notin ToSet(Declared)
    /\ \A m \in Mounter : at[m] = "refused" => disposed

\* The inductive invariant of the component steps.
CompIInv == CompTypeOK /\ SingleOwner /\ MountersConsistent
=============================================================================
