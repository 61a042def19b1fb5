---------------------------- MODULE EtcdRegistry ----------------------------
(***************************************************************************)
(* The etcd registrar of registry/etcd/registry.go: Register, Deregister   *)
(* and Close, called by several goroutines, the heartbeat goroutine each   *)
(* successful Register starts, and the entry they keep in etcd.            *)
(*                                                                         *)
(* One instance is registered, so etcd holds one entry, attached to a      *)
(* lease.  A Put whose answer the client no longer waits for may still     *)
(* arrive, at any later time, or never.                                    *)
(***************************************************************************)
EXTENDS Naturals, FiniteSets

CONSTANTS
    Caller,     \* goroutines that call the registrar
    MaxRetry,   \* options.maxRetry
    MaxCalls,   \* bound: calls of Register and Deregister
    MaxLeases,  \* bound: leases granted
    MaxFaults   \* bound: requests that fail or time out, streams that break

ASSUME EtcdAssumption ==
    /\ IsFiniteSet(Caller)
    /\ MaxRetry \in Nat \ {0}
    /\ MaxCalls \in Nat /\ MaxLeases \in Nat /\ MaxFaults \in Nat

Lease == 1..MaxLeases
Heartbeat == 1..MaxCalls
NoLease == 0
NoHeartbeat == 0

VARIABLES
    live,       \* leases that were granted and have not expired
    granted,    \* leases granted so far
    entry,      \* the lease the entry is attached to, NoLease when there is none
    puts,       \* Puts on their way, by the lease they carry
    landed,     \* Puts that took effect and are not answered yet
    hb,         \* the heartbeats
    hbCancel,   \* Registry.hbCancel: the heartbeat it cancels
    handle,     \* Registry.lease is not nil
    closed,     \* stopCtx is cancelled
    call,       \* where each caller stands
    calls, faults,
    overlap,    \* history: two calls overlapped
    deleted,    \* history: a Delete took effect since Register last stopped a heartbeat
    gone,       \* history: Deregister returned nil and no Register began since
    late        \* history: a Put took effect that nobody waited for

serverVars == <<live, granted, entry, puts, landed>>
registryVars == <<hb, hbCancel, handle, closed>>
historyVars == <<overlap, deleted, gone, late>>
vars == <<serverVars, registryVars, call, calls, faults, historyVars>>

Running == {"stream", "steady", "try", "putting", "first"}
Idle == [at |-> "off", lease |-> NoLease, tries |-> 0, cancelled |-> FALSE]
Ended == [Idle EXCEPT !.at = "ended"]
Out == [at |-> "out", lease |-> NoLease, handle |-> FALSE, old |-> NoHeartbeat, up |-> FALSE]

HbState == [at : Running \cup {"off", "ended"}, lease : 0..MaxLeases,
            tries : 0..(MaxRetry - 1), cancelled : BOOLEAN]
CallState == [at : {"out", "swapped", "grant", "put", "delete", "deleted", "dropped", "failed"},
              lease : 0..MaxLeases, handle : BOOLEAN, old : 0..MaxCalls, up : BOOLEAN]

TypeOK ==
    /\ live \subseteq Lease /\ puts \subseteq Lease /\ landed \subseteq Lease
    /\ granted \in 0..MaxLeases
    /\ entry \in live \cup {NoLease}
    /\ hb \in [Heartbeat -> HbState]
    /\ hbCancel \in 0..MaxCalls
    /\ call \in [Caller -> CallState]
    /\ calls \in 0..MaxCalls /\ faults \in 0..MaxFaults
    /\ handle \in BOOLEAN /\ closed \in BOOLEAN
    /\ overlap \in BOOLEAN /\ deleted \in BOOLEAN /\ gone \in BOOLEAN /\ late \in BOOLEAN

Init ==
    /\ live = {} /\ granted = 0 /\ entry = NoLease /\ puts = {} /\ landed = {}
    /\ hb = [h \in Heartbeat |-> Idle]
    /\ hbCancel = NoHeartbeat
    /\ handle = FALSE /\ closed = FALSE
    /\ call = [c \in Caller |-> Out]
    /\ calls = 0 /\ faults = 0
    /\ overlap = FALSE /\ deleted = FALSE /\ gone = FALSE /\ late = FALSE

Runs(h) == hb[h].at \in Running

\* Mutant of Stopping: the context of a heartbeat is not derived from stopCtx.
StoppingByCancelOnly(h) == hb[h].cancelled

Stopping(h) == hb[h].cancelled \/ closed
Cancel(g) == [h \in Heartbeat |->
    IF h = g /\ Runs(h) THEN [hb[h] EXCEPT !.cancelled = TRUE] ELSE hb[h]]
Keeps(h, i) == hb[h].at \in {"steady", "first"} /\ hb[h].lease = i
AwaitedPut(i) ==
    \/ \E c \in Caller : call[c].at = "put" /\ call[c].lease = i
    \/ \E h \in Heartbeat : hb[h].at = "putting" /\ hb[h].lease = i /\ ~Stopping(h)

Fault == faults < MaxFaults /\ faults' = faults + 1
Inside(c) == call[c].at \in {"swapped", "grant", "put", "delete", "deleted", "dropped"}
\* The heartbeat that hbCancel stopped until c took it from there to cancel it.
Taken(c, h) == call[c].at \in {"swapped", "dropped"} /\ call[c].old = h

-----------------------------------------------------------------------------
(* etcd.                                                                   *)

PutLands(i) ==
    /\ i \in puts
    /\ puts' = puts \ {i}
    /\ IF i \in live
       THEN /\ entry' = i
            /\ landed' = IF AwaitedPut(i) THEN landed \cup {i} ELSE landed
            /\ late' = (late \/ ~AwaitedPut(i))
       ELSE UNCHANGED <<entry, landed, late>>
    /\ UNCHANGED <<live, granted, registryVars, call, calls, faults, overlap, deleted, gone>>

\* A request on its way is lost; who waits for it gets an error.
PutDropped(i) ==
    /\ i \in puts
    /\ AwaitedPut(i) => Fault
    /\ ~AwaitedPut(i) => UNCHANGED faults
    /\ puts' = puts \ {i}
    /\ UNCHANGED <<live, granted, entry, landed, registryVars, call, calls, historyVars>>

Expires(i) ==
    /\ i \in live
    /\ live' = live \ {i}
    /\ entry' = IF entry = i THEN NoLease ELSE entry
    /\ UNCHANGED <<granted, puts, landed, registryVars, call, calls, historyVars>>

\* Nobody renews it.
RunsOut(i) ==
    /\ \A h \in Heartbeat : Keeps(h, i) => Stopping(h)
    /\ Expires(i)
    /\ UNCHANGED faults

\* It is renewed, but not in time.
CutOff(i) ==
    /\ \E h \in Heartbeat : Keeps(h, i) /\ ~Stopping(h)
    /\ Expires(i)
    /\ Fault

\* registerWithKV: a lease is granted and the Put is sent.
GrantAndPut ==
    /\ granted < MaxLeases
    /\ granted' = granted + 1
    /\ live' = live \cup {granted'}
    /\ puts' = puts \cup {granted'}
    /\ UNCHANGED <<entry, landed>>

-----------------------------------------------------------------------------
(* Register.                                                               *)

Enters(c, place, old) ==
    /\ call[c].at \in {"out", "failed"}
    /\ calls < MaxCalls
    /\ calls' = calls + 1
    /\ call' = [call EXCEPT ![c] = [at |-> place, lease |-> NoLease, handle |-> handle, old |-> old,
                                    up |-> \E h \in Heartbeat : Runs(h) /\ ~Stopping(h)]]
    /\ overlap' = (overlap \/ \E d \in Caller \ {c} : Inside(d))

\* Under the lock the new lease handle replaces the old one, and the
\* heartbeat so far is taken from hbCancel ...
RegisterSwaps(c) ==
    /\ Enters(c, "swapped", hbCancel)
    /\ handle' = TRUE
    /\ hbCancel' = NoHeartbeat
    /\ gone' = FALSE
    /\ UNCHANGED <<serverVars, hb, closed, faults, deleted, late>>

\* Mutant of RegisterCancels: the heartbeat so far is forgotten, not cancelled.
RegisterForgets(c) ==
    /\ call[c].at = "swapped"
    /\ call' = [call EXCEPT ![c].at = "grant", ![c].old = NoHeartbeat]
    /\ deleted' = FALSE
    /\ UNCHANGED <<serverVars, hb, hbCancel, handle, closed, calls, faults, overlap, gone, late>>

\* ... and cancelled after it.
RegisterCancels(c) ==
    /\ call[c].at = "swapped"
    /\ hb' = Cancel(call[c].old)
    /\ call' = [call EXCEPT ![c].at = "grant", ![c].old = NoHeartbeat]
    /\ deleted' = FALSE
    /\ UNCHANGED <<serverVars, hbCancel, handle, closed, calls, faults, overlap, gone, late>>

RegisterPuts(c) ==
    /\ call[c].at = "grant"
    /\ handle
    /\ GrantAndPut
    /\ call' = [call EXCEPT ![c].at = "put", ![c].lease = granted']
    /\ UNCHANGED <<registryVars, calls, faults, historyVars>>

\* The rollback: the handle is what it was.
RollsBack(c) ==
    /\ handle' = call[c].handle
    /\ call' = [call EXCEPT ![c].at = "failed"]
    /\ UNCHANGED <<serverVars, hb, hbCancel, closed, calls, historyVars>>

\* Grant fails, or a Deregister took the handle meanwhile.
GrantFails(c) ==
    /\ call[c].at = "grant"
    /\ IF handle THEN Fault ELSE UNCHANGED faults
    /\ RollsBack(c)

\* The Put fails, as far as the client knows.
PutFails(c) ==
    /\ call[c].at = "put"
    /\ IF call[c].lease \in puts \cup landed THEN Fault ELSE UNCHANGED faults
    /\ RollsBack(c)

\* The Put is answered: the heartbeat starts.
RegisterReturns(c) ==
    /\ call[c].at = "put"
    /\ call[c].lease \in landed
    /\ \E h \in Heartbeat :
        /\ hb[h].at = "off"
        /\ \A g \in Heartbeat : hb[g].at = "off" => h <= g
        /\ hb' = [hb EXCEPT ![h].at = "stream", ![h].lease = call[c].lease]
        /\ hbCancel' = h
    /\ call' = [call EXCEPT ![c] = Out]
    /\ landed' = landed \ {call[c].lease}
    /\ UNCHANGED <<live, granted, entry, puts, handle, closed, calls, faults, historyVars>>

-----------------------------------------------------------------------------
(* Deregister and Close.                                                   *)

DeregisterBegins(c) ==
    /\ Enters(c, "delete", NoHeartbeat)
    /\ UNCHANGED <<serverVars, registryVars, faults, deleted, gone, late>>

Deletes(c) ==
    /\ call[c].at = "delete"
    /\ entry' = NoLease
    /\ deleted' = TRUE
    /\ call' = [call EXCEPT ![c].at = "deleted"]
    /\ UNCHANGED <<live, granted, puts, landed, registryVars, calls, faults,
                   overlap, gone, late>>

\* The Delete fails, before or after it took effect: nothing else is done.
DeleteFails(c) ==
    /\ call[c].at \in {"delete", "deleted"}
    /\ Fault
    /\ call' = [call EXCEPT ![c].at = "failed"]
    /\ UNCHANGED <<serverVars, registryVars, calls, historyVars>>

\* Under the lock the handle is dropped and the heartbeat taken ...
DeregisterDrops(c) ==
    /\ call[c].at = "deleted"
    /\ hbCancel' = NoHeartbeat /\ handle' = FALSE
    /\ call' = [call EXCEPT ![c].at = "dropped", ![c].old = hbCancel]
    /\ UNCHANGED <<serverVars, hb, closed, calls, faults, historyVars>>

\* Mutant of DeregisterReturns: the heartbeat is left to find out by itself.
DeregisterReturnsAtOnce(c) ==
    /\ call[c].at = "dropped"
    /\ gone' = \A d \in Caller \ {c} : ~Inside(d)
    /\ call' = [call EXCEPT ![c] = Out]
    /\ UNCHANGED <<serverVars, registryVars, calls, faults, overlap, deleted, late>>

\* ... which is cancelled after it.
DeregisterReturns(c) ==
    /\ call[c].at = "dropped"
    /\ hb' = Cancel(call[c].old)
    /\ gone' = \A d \in Caller \ {c} : ~Inside(d)
    /\ call' = [call EXCEPT ![c] = Out]
    /\ UNCHANGED <<serverVars, hbCancel, handle, closed, calls, faults, overlap, deleted, late>>

\* Cancelling stopCtx cancels every heartbeat there is or will be; a later
\* Register or Deregister is not refused.
Close ==
    /\ ~closed
    /\ closed' = TRUE
    /\ hb' = Cancel(hbCancel)
    /\ hbCancel' = NoHeartbeat
    /\ UNCHANGED <<serverVars, handle, call, calls, faults, historyVars>>

-----------------------------------------------------------------------------
(* The heartbeat.                                                          *)

HbGoes(h, place) == hb' = [hb EXCEPT ![h].at = place]
HbQuiet == UNCHANGED <<hbCancel, handle, closed, call, calls, historyVars>>

HbCancelled(h) ==
    /\ Runs(h) /\ Stopping(h)
    /\ hb' = [hb EXCEPT ![h] = Ended]
    /\ HbQuiet /\ UNCHANGED <<serverVars, faults>>

\* A failed attempt: the next one after a delay, or none is left.
Failed(h) ==
    hb' = [hb EXCEPT ![h] =
              IF hb[h].tries + 1 = MaxRetry THEN Ended
              ELSE [hb[h] EXCEPT !.tries = hb[h].tries + 1,
                                !.lease = NoLease, !.at = "try"]]

HbStreams(h) ==
    /\ hb[h].at = "stream"
    /\ \/ HbGoes(h, "steady") /\ UNCHANGED faults
       \/ hb' = [hb EXCEPT ![h].at = "try", ![h].lease = NoLease] /\ Fault
    /\ HbQuiet /\ UNCHANGED serverVars

\* The lease is gone, or the stream of answers has broken.
HbLost(h) ==
    /\ hb[h].at = "steady"
    /\ IF hb[h].lease \in live THEN Fault ELSE UNCHANGED faults
    /\ hb' = [hb EXCEPT ![h] = [@ EXCEPT !.at = "try", !.tries = 0, !.lease = NoLease]]
    /\ HbQuiet /\ UNCHANGED serverVars

\* Mutant of HbTries: a new lease is granted, but the entry is not put again.
HbTriesGrantOnly(h) ==
    /\ hb[h].at = "try" /\ ~Stopping(h)
    /\ handle
    /\ granted < MaxLeases
    /\ granted' = granted + 1
    /\ live' = live \cup {granted'}
    /\ landed' = landed \cup {granted'}
    /\ hb' = [hb EXCEPT ![h].at = "putting", ![h].lease = granted']
    /\ HbQuiet /\ UNCHANGED <<entry, puts, faults>>

HbTries(h) ==
    /\ hb[h].at = "try" /\ ~Stopping(h)
    /\ handle
    /\ GrantAndPut
    /\ hb' = [hb EXCEPT ![h].at = "putting", ![h].lease = granted']
    /\ HbQuiet /\ UNCHANGED faults

\* errNoLease, or Grant fails or takes more than three seconds.
HbGrantFails(h) ==
    /\ hb[h].at = "try"
    /\ IF handle THEN Fault ELSE UNCHANGED faults
    /\ Failed(h)
    /\ HbQuiet /\ UNCHANGED serverVars

\* The Put fails, or the three seconds are over and it is abandoned.
HbPutFails(h) ==
    /\ hb[h].at = "putting"
    /\ IF hb[h].lease \in puts \cup landed THEN Fault ELSE UNCHANGED faults
    /\ Failed(h)
    /\ HbQuiet /\ UNCHANGED serverVars

\* Registered again: KeepAlive is called for the new lease.
HbPutDone(h) ==
    /\ hb[h].at = "putting"
    /\ hb[h].lease \in landed
    /\ landed' = landed \ {hb[h].lease}
    /\ \/ HbGoes(h, "first") /\ UNCHANGED faults
       \/ Failed(h) /\ Fault
    /\ HbQuiet /\ UNCHANGED <<live, granted, entry, puts>>

\* The first answer; a closed channel is final.
HbFirst(h) ==
    /\ hb[h].at = "first"
    /\ hb' = [hb EXCEPT ![h] =
                  IF @.lease \in live THEN [@ EXCEPT !.at = "steady", !.tries = 0] ELSE Ended]
    /\ HbQuiet /\ UNCHANGED <<serverVars, faults>>

HbStep(h) ==
    \/ HbCancelled(h) \/ HbStreams(h) \/ HbLost(h) \/ HbTries(h) \/ HbGrantFails(h)
    \/ HbPutFails(h) \/ HbPutDone(h) \/ HbFirst(h)

CallStep(c) ==
    \/ RegisterCancels(c) \/ RegisterPuts(c) \/ GrantFails(c) \/ PutFails(c) \/ RegisterReturns(c)
    \/ Deletes(c) \/ DeleteFails(c) \/ DeregisterDrops(c) \/ DeregisterReturns(c)

ServerStep(i) == PutLands(i) \/ PutDropped(i) \/ RunsOut(i)

Next ==
    \/ \E c \in Caller : RegisterSwaps(c) \/ DeregisterBegins(c) \/ CallStep(c)
    \/ Close
    \/ \E h \in Heartbeat : HbStep(h)
    \/ \E i \in Lease : ServerStep(i) \/ CutOff(i)

(* Calls and heartbeats run on, requests arrive or are lost, a lease that  *)
(* nobody renews runs out.  Nobody has to call anything.                   *)
Fairness ==
    /\ \A c \in Caller : WF_vars(CallStep(c))
    /\ \A h \in Heartbeat : WF_vars(HbStep(h))
    /\ \A i \in Lease : WF_vars(ServerStep(i))

Spec == Init /\ [][Next]_vars /\ Fairness

-----------------------------------------------------------------------------
(* Properties.                                                             *)

(* A heartbeat that renews a live lease keeps the entry with it: the       *)
(* instance is in etcd under that lease, unless it was deleted, two calls  *)
(* overlapped, or a Put that nobody waited for any more came after the one *)
(* of the heartbeat (the three-second limit of heartBeat).                 *)
EntryKept ==
    /\ TypeOK  \* the state is well formed, and
    /\ \A h \in Heartbeat :
          /\ hb[h].at \in {"steady", "first"} /\ ~Stopping(h) /\ hb[h].lease \in live
          /\ ~deleted /\ ~overlap /\ ~late
          => entry = hb[h].lease

(* Heartbeats do not pile up: without overlapping calls the only one that  *)
(* runs on is the one hbCancel stops, or the one a call has taken from     *)
(* there and is about to stop (the swap under the lock in Register).       *)
OneHeartbeat ==
    ~overlap => \A h \in Heartbeat : Runs(h) /\ ~Stopping(h) =>
                    h = hbCancel \/ \E c \in Caller : Taken(c, h)

(* Deregistering holds: the entry is absent for good in the end, although  *)
(* the heartbeat may be registering again at the very time, or its Put may *)
(* arrive after the Delete.                                                *)
DeregisterSticks == <>[](gone /\ ~overlap => entry = NoLease)

(* After Close no heartbeat runs on and nothing is left in etcd, whatever  *)
(* calls overlapped (stopCtx).                                             *)
CloseStopsAll ==
    <>[](closed => entry = NoLease /\ \A h \in Heartbeat : ~Runs(h))

(* "Rollback: restore the old lease": a Register that fails leaves the     *)
(* registration there was before it, with its heartbeat.                   *)
RollbackKeepsOld ==
    \A c \in Caller : call[c].at = "failed" /\ call[c].up =>
        \E h \in Heartbeat : Runs(h) /\ ~Stopping(h)
=============================================================================
