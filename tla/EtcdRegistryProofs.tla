------------------------- MODULE EtcdRegistryProofs -------------------------
(***************************************************************************)
(* What the etcd registrar guarantees for any number of callers, retries,  *)
(* calls, leases and faults: there is one heartbeat, and the entry is      *)
(* attached to the lease it renews.                                        *)
(***************************************************************************)
EXTENDS EtcdRegistry, TLAPS

-----------------------------------------------------------------------------
(* Types, in five parts.  Whatever names a lease names one that was        *)
(* granted.                                                                *)

ServerTyped ==
    /\ granted \in 0..MaxLeases
    /\ live \subseteq 1..granted /\ puts \subseteq 1..granted /\ landed \subseteq 1..granted
    /\ entry \in live \cup {NoLease}

HbTyped ==
    /\ hb \in [Heartbeat -> HbState]
    /\ \A h \in Heartbeat : hb[h].lease <= granted

CallTyped ==
    /\ call \in [Caller -> CallState]
    /\ \A c \in Caller : call[c].lease <= granted

CountersTyped ==
    hbCancel \in 0..MaxCalls /\ calls \in 0..MaxCalls /\ faults \in 0..MaxFaults

FlagsTyped ==
    /\ handle \in BOOLEAN /\ closed \in BOOLEAN
    /\ overlap \in BOOLEAN /\ deleted \in BOOLEAN /\ gone \in BOOLEAN /\ late \in BOOLEAN

Typed == ServerTyped /\ HbTyped /\ CallTyped /\ CountersTyped /\ FlagsTyped

LEMMA TypedTypes == Typed => TypeOK
<1> SUFFICES ASSUME Typed PROVE TypeOK
  OBVIOUS
<1>1. live \subseteq Lease /\ puts \subseteq Lease /\ landed \subseteq Lease
  BY EtcdAssumption DEF Typed, ServerTyped, Lease
<1>2. QED
  BY <1>1 DEF Typed, ServerTyped, HbTyped, CallTyped, CountersTyped, FlagsTyped, TypeOK

LEMMA InitTyped == Init => Typed
<1> SUFFICES ASSUME Init PROVE Typed
  OBVIOUS
<1>1. ServerTyped
  <2>1. granted = 0 /\ live = {} /\ puts = {} /\ landed = {} /\ entry = NoLease
    BY DEF Init
  <2>2. QED
    BY <2>1, EtcdAssumption DEF ServerTyped
<1>2. HbTyped
  BY EtcdAssumption DEF Init, HbTyped, HbState, Idle, NoLease
<1>3. CallTyped
  BY EtcdAssumption DEF Init, CallTyped, CallState, Out, NoLease, NoHeartbeat
<1>4. CountersTyped
  BY EtcdAssumption DEF Init, CountersTyped, NoHeartbeat
<1>5. FlagsTyped
  BY DEF Init, FlagsTyped
<1>6. QED
  BY <1>1, <1>2, <1>3, <1>4, <1>5 DEF Typed

LEMMA CancelTyped ==
    ASSUME Typed, NEW g
    PROVE  /\ Cancel(g) \in [Heartbeat -> HbState]
           /\ \A h \in Heartbeat :
                /\ Cancel(g)[h].at = hb[h].at /\ Cancel(g)[h].lease = hb[h].lease
                /\ hb[h].cancelled => Cancel(g)[h].cancelled
                /\ h = g /\ Runs(h) => Cancel(g)[h].cancelled
<1>1. hb \in [Heartbeat -> HbState]
  BY DEF Typed, HbTyped
<1>2. \A h \in Heartbeat : [hb[h] EXCEPT !.cancelled = TRUE] \in HbState
  BY <1>1 DEF HbState
<1>3. Cancel(g) \in [Heartbeat -> HbState]
  BY <1>1, <1>2 DEF Cancel
<1>4. QED
  BY <1>3 DEF Cancel

\* One heartbeat is written anew.
LEMMA HbUpdated ==
    ASSUME HbTyped, ServerTyped, ServerTyped', granted <= granted',
           NEW h \in Heartbeat, NEW r \in HbState, r.lease <= granted',
           hb' = [hb EXCEPT ![h] = r]
    PROVE  HbTyped'
  BY DEF HbTyped, ServerTyped, HbState

LEMMA CallUpdated ==
    ASSUME CallTyped, ServerTyped, ServerTyped', granted <= granted',
           NEW c \in Caller, NEW r \in CallState, r.lease <= granted',
           call' = [call EXCEPT ![c] = r]
    PROVE  CallTyped'
  BY DEF CallTyped, ServerTyped, CallState

LEMMA Bounds == 0 \in 0..MaxLeases /\ 0 \in 0..(MaxRetry - 1) /\ 0 \in 0..MaxCalls
  BY EtcdAssumption

LEMMA EndedTyped == Ended \in HbState /\ Ended.lease = 0 /\ Ended.at = "ended"
  BY Bounds DEF Ended, Idle, HbState, NoLease

\* What a heartbeat that tries again looks like.
LEMMA RetryTyped ==
    ASSUME NEW r \in HbState, NEW t \in 0..(MaxRetry - 1)
    PROVE  /\ [r EXCEPT !.tries = t, !.lease = NoLease, !.at = "try"] \in HbState
           /\ [r EXCEPT !.tries = t, !.lease = NoLease, !.at = "try"].lease = 0
  BY Bounds DEF HbState, Running, NoLease

LEMMA FailedTyped ==
    ASSUME HbTyped, ServerTyped, ServerTyped', granted' = granted,
           NEW h \in Heartbeat, Failed(h)
    PROVE  HbTyped'
<1>1. hb[h] \in HbState /\ hb \in [Heartbeat -> HbState]
  BY DEF HbTyped
<1>2. granted \in Nat
  BY DEF ServerTyped
<1>3. CASE hb[h].tries + 1 = MaxRetry
  <2>1. hb' = [hb EXCEPT ![h] = Ended]
    BY <1>3 DEF Failed
  <2>2. Ended.lease <= granted' /\ granted <= granted'
    BY <1>2, EndedTyped
  <2>3. QED
    BY <2>1, <2>2, EndedTyped, HbUpdated
<1>4. CASE hb[h].tries + 1 # MaxRetry
  <2> DEFINE t == hb[h].tries + 1
             r == [hb[h] EXCEPT !.tries = t, !.lease = NoLease, !.at = "try"]
  <2>1. hb[h].tries \in 0..(MaxRetry - 1)
    BY <1>1 DEF HbState
  <2>2. t \in 0..(MaxRetry - 1)
    BY <1>4, <2>1, EtcdAssumption
  <2>3. hb' = [hb EXCEPT ![h] = r]
    <3>1. hb' = [hb EXCEPT ![h] = IF t = MaxRetry THEN Ended ELSE r]
      BY DEF Failed
    <3>2. QED
      BY <1>4, <3>1
  <2> HIDE DEF t
  <2>4. r \in HbState /\ r.lease = 0
    BY <1>1, <2>2, RetryTyped
  <2> HIDE DEF r
  <2>5. r.lease <= granted' /\ granted <= granted'
    BY <1>2, <2>4
  <2>6. QED
    BY <2>3, <2>4, <2>5, HbUpdated
<1>5. QED
  BY <1>3, <1>4

LEMMA PutLandsTyped ==
    ASSUME Typed, NEW i \in Lease, PutLands(i)
    PROVE  Typed'
<1> USE DEF Typed, serverVars, registryVars, historyVars
<1>1. ServerTyped'
  BY DEF PutLands, ServerTyped
<1>2. HbTyped'
  BY DEF PutLands, HbTyped
<1>3. CallTyped'
  BY DEF PutLands, CallTyped
<1>4. CountersTyped'
  BY DEF PutLands, CountersTyped
<1>5. FlagsTyped'
  BY DEF PutLands, FlagsTyped
<1>6. QED
  BY <1>1, <1>2, <1>3, <1>4, <1>5

LEMMA PutDroppedTyped ==
    ASSUME Typed, NEW i \in Lease, PutDropped(i)
    PROVE  Typed'
<1> USE DEF Typed, serverVars, registryVars, historyVars
<1>1. ServerTyped'
  BY DEF PutDropped, ServerTyped
<1>2. HbTyped'
  BY DEF PutDropped, HbTyped
<1>3. CallTyped'
  BY DEF PutDropped, CallTyped
<1>4. CountersTyped'
  BY EtcdAssumption DEF PutDropped, Fault, CountersTyped
<1>5. FlagsTyped'
  BY DEF PutDropped, FlagsTyped
<1>6. QED
  BY <1>1, <1>2, <1>3, <1>4, <1>5

LEMMA RunsOutTyped ==
    ASSUME Typed, NEW i \in Lease, RunsOut(i)
    PROVE  Typed'
<1> USE DEF Typed, serverVars, registryVars, historyVars
<1>1. ServerTyped'
  BY DEF RunsOut, Expires, ServerTyped
<1>2. HbTyped'
  BY DEF RunsOut, Expires, HbTyped
<1>3. CallTyped'
  BY DEF RunsOut, Expires, CallTyped
<1>4. CountersTyped'
  BY DEF RunsOut, Expires, CountersTyped
<1>5. FlagsTyped'
  BY DEF RunsOut, Expires, FlagsTyped
<1>6. QED
  BY <1>1, <1>2, <1>3, <1>4, <1>5

LEMMA CutOffTyped ==
    ASSUME Typed, NEW i \in Lease, CutOff(i)
    PROVE  Typed'
<1> USE DEF Typed, serverVars, registryVars, historyVars
<1>1. ServerTyped'
  BY DEF CutOff, Expires, ServerTyped
<1>2. HbTyped'
  BY DEF CutOff, Expires, HbTyped
<1>3. CallTyped'
  BY DEF CutOff, Expires, CallTyped
<1>4. CountersTyped'
  BY EtcdAssumption DEF CutOff, Expires, Fault, CountersTyped
<1>5. FlagsTyped'
  BY DEF CutOff, Expires, FlagsTyped
<1>6. QED
  BY <1>1, <1>2, <1>3, <1>4, <1>5

LEMMA RegisterSwapsTyped ==
    ASSUME Typed, NEW c \in Caller, RegisterSwaps(c)
    PROVE  Typed'
<1> USE DEF Typed, serverVars, registryVars, historyVars
<1>1. ServerTyped'
  BY DEF RegisterSwaps, ServerTyped
<1>2. HbTyped'
  BY DEF RegisterSwaps, HbTyped
<1>3. CallTyped'
  <2> DEFINE r == [at |-> "swapped", lease |-> NoLease, handle |-> handle, old |-> hbCancel,
                   up |-> \E h \in Heartbeat : Runs(h) /\ ~Stopping(h)]
  <2>1. r.up \in BOOLEAN
    OBVIOUS
  <2>2. r \in CallState /\ r.lease = 0
    BY EtcdAssumption DEF CallState, NoLease, FlagsTyped, CountersTyped
  <2>3. call' = [call EXCEPT ![c] = r]
    BY DEF RegisterSwaps, Enters
  <2> HIDE DEF r
  <2>4. granted \in Nat /\ granted' = granted
    BY DEF RegisterSwaps, ServerTyped
  <2>5. r.lease <= granted' /\ granted <= granted'
    BY <2>2, <2>4
  <2>6. QED
    BY <1>1, <2>2, <2>3, <2>5, CallUpdated
<1>4. CountersTyped'
  BY EtcdAssumption DEF RegisterSwaps, Enters, CountersTyped, NoHeartbeat
<1>5. FlagsTyped'
  BY DEF RegisterSwaps, Enters, FlagsTyped
<1>6. QED
  BY <1>1, <1>2, <1>3, <1>4, <1>5

LEMMA RegisterCancelsTyped ==
    ASSUME Typed, NEW c \in Caller, RegisterCancels(c)
    PROVE  Typed'
<1> USE DEF Typed, serverVars, registryVars, historyVars
<1>1. ServerTyped'
  BY DEF RegisterCancels, ServerTyped
<1>2. HbTyped'
  BY CancelTyped DEF RegisterCancels, HbTyped
<1>3. CallTyped'
  BY Bounds DEF RegisterCancels, CallTyped, CallState, NoHeartbeat
<1>4. CountersTyped'
  BY DEF RegisterCancels, CountersTyped
<1>5. FlagsTyped'
  BY DEF RegisterCancels, FlagsTyped
<1>6. QED
  BY <1>1, <1>2, <1>3, <1>4, <1>5

LEMMA DeregisterBeginsTyped ==
    ASSUME Typed, NEW c \in Caller, DeregisterBegins(c)
    PROVE  Typed'
<1> USE DEF Typed, serverVars, registryVars, historyVars
<1>1. ServerTyped'
  BY DEF DeregisterBegins, ServerTyped
<1>2. HbTyped'
  BY DEF DeregisterBegins, HbTyped
<1>3. CallTyped'
  <2> DEFINE r == [at |-> "delete", lease |-> NoLease, handle |-> handle, old |-> NoHeartbeat,
                   up |-> \E h \in Heartbeat : Runs(h) /\ ~Stopping(h)]
  <2>1. r.up \in BOOLEAN
    OBVIOUS
  <2>2. r \in CallState /\ r.lease = 0
    BY EtcdAssumption DEF CallState, NoLease, NoHeartbeat, FlagsTyped
  <2>3. call' = [call EXCEPT ![c] = r]
    BY DEF DeregisterBegins, Enters
  <2> HIDE DEF r
  <2>4. granted \in Nat /\ granted' = granted
    BY DEF DeregisterBegins, ServerTyped
  <2>5. r.lease <= granted' /\ granted <= granted'
    BY <2>2, <2>4
  <2>6. QED
    BY <1>1, <2>2, <2>3, <2>5, CallUpdated
<1>4. CountersTyped'
  BY EtcdAssumption DEF DeregisterBegins, Enters, CountersTyped
<1>5. FlagsTyped'
  BY DEF DeregisterBegins, Enters, FlagsTyped
<1>6. QED
  BY <1>1, <1>2, <1>3, <1>4, <1>5

LEMMA RegisterPutsTyped ==
    ASSUME Typed, NEW c \in Caller, RegisterPuts(c)
    PROVE  Typed'
<1> USE DEF Typed, serverVars, registryVars, historyVars
<1>1. ServerTyped'
  BY DEF RegisterPuts, GrantAndPut, ServerTyped, CallTyped, CallState
<1>2. HbTyped'
  <2>1. granted \in Nat /\ granted' = granted + 1 /\ hb' = hb
    BY DEF RegisterPuts, GrantAndPut, ServerTyped
  <2>2. QED
    BY <2>1 DEF HbTyped, HbState
<1>3. CallTyped'
  BY DEF RegisterPuts, GrantAndPut, CallTyped, CallState, ServerTyped
<1>4. CountersTyped'
  BY DEF RegisterPuts, CountersTyped
<1>5. FlagsTyped'
  BY DEF RegisterPuts, FlagsTyped
<1>6. QED
  BY <1>1, <1>2, <1>3, <1>4, <1>5

LEMMA GrantFailsTyped ==
    ASSUME Typed, NEW c \in Caller, GrantFails(c)
    PROVE  Typed'
<1> USE DEF Typed, serverVars, registryVars, historyVars
<1>1. ServerTyped'
  BY DEF GrantFails, RollsBack, ServerTyped
<1>2. HbTyped'
  BY DEF GrantFails, RollsBack, HbTyped
<1>3. CallTyped'
  BY DEF GrantFails, RollsBack, CallTyped, CallState
<1>4. CountersTyped'
  BY EtcdAssumption DEF GrantFails, RollsBack, Fault, CountersTyped
<1>5. FlagsTyped'
  <2>1. call[c].handle \in BOOLEAN
    BY DEF CallTyped, CallState
  <2>2. QED
    BY <2>1 DEF GrantFails, RollsBack, FlagsTyped
<1>6. QED
  BY <1>1, <1>2, <1>3, <1>4, <1>5

LEMMA PutFailsTyped ==
    ASSUME Typed, NEW c \in Caller, PutFails(c)
    PROVE  Typed'
<1> USE DEF Typed, serverVars, registryVars, historyVars
<1>1. ServerTyped'
  BY DEF PutFails, RollsBack, ServerTyped
<1>2. HbTyped'
  BY DEF PutFails, RollsBack, HbTyped
<1>3. CallTyped'
  BY DEF PutFails, RollsBack, CallTyped, CallState
<1>4. CountersTyped'
  BY EtcdAssumption DEF PutFails, RollsBack, Fault, CountersTyped
<1>5. FlagsTyped'
  <2>1. call[c].handle \in BOOLEAN
    BY DEF CallTyped, CallState
  <2>2. QED
    BY <2>1 DEF PutFails, RollsBack, FlagsTyped
<1>6. QED
  BY <1>1, <1>2, <1>3, <1>4, <1>5

LEMMA RegisterReturnsTyped ==
    ASSUME Typed, NEW c \in Caller, RegisterReturns(c)
    PROVE  Typed'
<1> USE DEF Typed, serverVars, registryVars, historyVars
<1>1. ServerTyped'
  BY DEF RegisterReturns, ServerTyped
<1>2. HbTyped'
  <2>1. PICK h \in Heartbeat :
            hb' = [hb EXCEPT ![h].at = "stream", ![h].lease = call[c].lease]
    BY DEF RegisterReturns
  <2> DEFINE r == [hb[h] EXCEPT !.at = "stream", !.lease = call[c].lease]
  <2>2. hb[h] \in HbState /\ call[c] \in CallState /\ call[c].lease <= granted
    BY DEF HbTyped, CallTyped
  <2>3. r \in HbState /\ r.lease <= granted
    BY <2>2 DEF HbState, CallState, Running
  <2>4. hb' = [hb EXCEPT ![h] = r]
    BY <2>1
  <2> HIDE DEF r
  <2>5. granted \in Nat /\ granted' = granted
    BY DEF RegisterReturns, ServerTyped
  <2>6. r.lease <= granted' /\ granted <= granted'
    BY <2>3, <2>5
  <2>7. QED
    BY <1>1, <2>3, <2>4, <2>6, HbUpdated
<1>3. CallTyped'
  <2>1. Out \in CallState /\ Out.lease = 0
    BY Bounds DEF Out, CallState, NoLease, NoHeartbeat
  <2>2. granted \in Nat /\ granted' = granted
    BY DEF RegisterReturns, ServerTyped
  <2>3. call' = [call EXCEPT ![c] = Out]
    BY DEF RegisterReturns
  <2>4. Out.lease <= granted' /\ granted <= granted'
    BY <2>1, <2>2
  <2>5. QED
    BY <1>1, <2>1, <2>3, <2>4, CallUpdated
<1>4. CountersTyped'
  BY DEF RegisterReturns, CountersTyped, Heartbeat
<1>5. FlagsTyped'
  BY DEF RegisterReturns, FlagsTyped
<1>6. QED
  BY <1>1, <1>2, <1>3, <1>4, <1>5

LEMMA DeletesTyped ==
    ASSUME Typed, NEW c \in Caller, Deletes(c)
    PROVE  Typed'
<1> USE DEF Typed, serverVars, registryVars, historyVars
<1>1. ServerTyped'
  BY DEF Deletes, ServerTyped
<1>2. HbTyped'
  BY DEF Deletes, HbTyped
<1>3. CallTyped'
  BY DEF Deletes, CallTyped, CallState
<1>4. CountersTyped'
  BY DEF Deletes, CountersTyped
<1>5. FlagsTyped'
  BY DEF Deletes, FlagsTyped
<1>6. QED
  BY <1>1, <1>2, <1>3, <1>4, <1>5

LEMMA DeleteFailsTyped ==
    ASSUME Typed, NEW c \in Caller, DeleteFails(c)
    PROVE  Typed'
<1> USE DEF Typed, serverVars, registryVars, historyVars
<1>1. ServerTyped'
  BY DEF DeleteFails, ServerTyped
<1>2. HbTyped'
  BY DEF DeleteFails, HbTyped
<1>3. CallTyped'
  BY DEF DeleteFails, CallTyped, CallState
<1>4. CountersTyped'
  BY EtcdAssumption DEF DeleteFails, Fault, CountersTyped
<1>5. FlagsTyped'
  BY DEF DeleteFails, FlagsTyped
<1>6. QED
  BY <1>1, <1>2, <1>3, <1>4, <1>5

LEMMA DeregisterDropsTyped ==
    ASSUME Typed, NEW c \in Caller, DeregisterDrops(c)
    PROVE  Typed'
<1> USE DEF Typed, serverVars, registryVars, historyVars
<1>1. ServerTyped'
  BY DEF DeregisterDrops, ServerTyped
<1>2. HbTyped'
  BY DEF DeregisterDrops, HbTyped
<1>3. CallTyped'
  BY DEF DeregisterDrops, CallTyped, CallState, CountersTyped
<1>4. CountersTyped'
  BY Bounds DEF DeregisterDrops, CountersTyped, NoHeartbeat
<1>5. FlagsTyped'
  BY DEF DeregisterDrops, FlagsTyped
<1>6. QED
  BY <1>1, <1>2, <1>3, <1>4, <1>5

LEMMA DeregisterReturnsTyped ==
    ASSUME Typed, NEW c \in Caller, DeregisterReturns(c)
    PROVE  Typed'
<1> USE DEF Typed, serverVars, registryVars, historyVars
<1>1. ServerTyped'
  BY DEF DeregisterReturns, ServerTyped
<1>2. HbTyped'
  BY CancelTyped DEF DeregisterReturns, HbTyped
<1>3. CallTyped'
  <2>1. Out \in CallState /\ Out.lease = 0
    BY Bounds DEF Out, CallState, NoLease, NoHeartbeat
  <2>2. granted \in Nat /\ granted' = granted
    BY DEF DeregisterReturns, ServerTyped
  <2>3. call' = [call EXCEPT ![c] = Out]
    BY DEF DeregisterReturns
  <2>4. Out.lease <= granted' /\ granted <= granted'
    BY <2>1, <2>2
  <2>5. QED
    BY <1>1, <2>1, <2>3, <2>4, CallUpdated
<1>4. CountersTyped'
  BY DEF DeregisterReturns, CountersTyped
<1>5. FlagsTyped'
  BY DEF DeregisterReturns, FlagsTyped
<1>6. QED
  BY <1>1, <1>2, <1>3, <1>4, <1>5

LEMMA CloseTyped ==
    ASSUME Typed, Close
    PROVE  Typed'
<1> USE DEF Typed, serverVars, registryVars, historyVars
<1>1. ServerTyped'
  BY DEF Close, ServerTyped
<1>2. HbTyped'
  BY CancelTyped DEF Close, HbTyped
<1>3. CallTyped'
  BY DEF Close, CallTyped
<1>4. CountersTyped'
  BY EtcdAssumption DEF Close, CountersTyped, NoHeartbeat
<1>5. FlagsTyped'
  BY DEF Close, FlagsTyped
<1>6. QED
  BY <1>1, <1>2, <1>3, <1>4, <1>5

LEMMA HbCancelledTyped ==
    ASSUME Typed, NEW h \in Heartbeat, HbCancelled(h)
    PROVE  Typed'
<1> USE DEF Typed, serverVars, registryVars, historyVars
<1>1. ServerTyped'
  BY DEF HbCancelled, ServerTyped
<1>2. HbTyped'
  <2>1. hb[h] \in HbState /\ hb[h].lease <= granted
    BY DEF HbTyped
  <2>2. granted \in Nat /\ granted' = granted
    BY DEF HbCancelled, ServerTyped
  <2>3. hb' = [hb EXCEPT ![h] = Ended]
    BY DEF HbCancelled
  <2>4. Ended.lease <= granted' /\ granted <= granted'
    BY <2>2, EndedTyped
  <2>5. QED
    BY <1>1, <2>3, <2>4, EndedTyped, HbUpdated
<1>3. CallTyped'
  BY DEF HbCancelled, HbQuiet, CallTyped
<1>4. CountersTyped'
  BY DEF HbCancelled, HbQuiet, CountersTyped
<1>5. FlagsTyped'
  BY DEF HbCancelled, HbQuiet, FlagsTyped
<1>6. QED
  BY <1>1, <1>2, <1>3, <1>4, <1>5

LEMMA HbStreamsTyped ==
    ASSUME Typed, NEW h \in Heartbeat, HbStreams(h)
    PROVE  Typed'
<1> USE DEF Typed, serverVars, registryVars, historyVars
<1>1. ServerTyped'
  BY DEF HbStreams, ServerTyped
<1>2. HbTyped'
  <2>1. hb[h] \in HbState /\ hb[h].lease <= granted
    BY DEF HbTyped
  <2> DEFINE go == [hb[h] EXCEPT !.at = "steady"]
             lose == [hb[h] EXCEPT !.at = "try", !.lease = NoLease]
  <2>2. go \in HbState /\ go.lease = hb[h].lease /\ lose \in HbState /\ lose.lease = 0
    BY <2>1, Bounds DEF HbState, Running, NoLease
  <2>3. granted \in Nat /\ granted' = granted
    BY DEF HbStreams, ServerTyped
  <2>4. \/ hb' = [hb EXCEPT ![h] = go]
        \/ hb' = [hb EXCEPT ![h] = lose]
    BY DEF HbStreams, HbGoes
  <2> HIDE DEF go, lose
  <2>5. go.lease <= granted' /\ lose.lease <= granted' /\ granted <= granted'
    BY <2>1, <2>2, <2>3
  <2>6. QED
    BY <1>1, <2>2, <2>4, <2>5, HbUpdated
<1>3. CallTyped'
  BY DEF HbStreams, HbQuiet, CallTyped
<1>4. CountersTyped'
  BY EtcdAssumption DEF HbStreams, HbQuiet, Fault, CountersTyped
<1>5. FlagsTyped'
  BY DEF HbStreams, HbQuiet, FlagsTyped
<1>6. QED
  BY <1>1, <1>2, <1>3, <1>4, <1>5

LEMMA HbLostTyped ==
    ASSUME Typed, NEW h \in Heartbeat, HbLost(h)
    PROVE  Typed'
<1> USE DEF Typed, serverVars, registryVars, historyVars
<1>1. ServerTyped'
  BY DEF HbLost, ServerTyped
<1>2. HbTyped'
  <2>1. hb[h] \in HbState /\ hb[h].lease <= granted
    BY DEF HbTyped
  <2> DEFINE r == [hb[h] EXCEPT !.at = "try", !.tries = 0, !.lease = NoLease]
  <2>2. r \in HbState /\ r.lease = 0
    BY <2>1, Bounds DEF HbState, Running, NoLease
  <2>3. hb' = [hb EXCEPT ![h] = r]
    BY DEF HbLost
  <2> HIDE DEF r
  <2>4. granted \in Nat /\ granted' = granted
    BY DEF HbLost, ServerTyped
  <2>5. r.lease <= granted' /\ granted <= granted'
    BY <2>2, <2>4
  <2>6. QED
    BY <1>1, <2>2, <2>3, <2>5, HbUpdated
<1>3. CallTyped'
  BY DEF HbLost, HbQuiet, CallTyped
<1>4. CountersTyped'
  BY EtcdAssumption DEF HbLost, HbQuiet, Fault, CountersTyped
<1>5. FlagsTyped'
  BY DEF HbLost, HbQuiet, FlagsTyped
<1>6. QED
  BY <1>1, <1>2, <1>3, <1>4, <1>5

LEMMA HbTriesTyped ==
    ASSUME Typed, NEW h \in Heartbeat, HbTries(h)
    PROVE  Typed'
<1> USE DEF Typed, serverVars, registryVars, historyVars
<1>1. ServerTyped'
  BY EtcdAssumption DEF HbTries, GrantAndPut, ServerTyped
<1>2. HbTyped'
  <2>1. hb[h] \in HbState /\ hb[h].lease <= granted
    BY DEF HbTyped
  <2> DEFINE r == [hb[h] EXCEPT !.at = "putting", !.lease = granted']
  <2>2. granted' \in 0..MaxLeases /\ granted <= granted' /\ granted' <= granted'
    BY EtcdAssumption DEF HbTries, GrantAndPut, ServerTyped
  <2>3. r \in HbState /\ r.lease = granted'
    BY <2>1, <2>2 DEF HbState, Running
  <2>4. hb' = [hb EXCEPT ![h] = r]
    BY DEF HbTries
  <2> HIDE DEF r
  <2>5. QED
    BY <1>1, <2>2, <2>3, <2>4, HbUpdated
<1>3. CallTyped'
  BY DEF HbTries, HbQuiet, GrantAndPut, CallTyped, CallState, ServerTyped
<1>4. CountersTyped'
  BY DEF HbTries, HbQuiet, CountersTyped
<1>5. FlagsTyped'
  BY DEF HbTries, HbQuiet, FlagsTyped
<1>6. QED
  BY <1>1, <1>2, <1>3, <1>4, <1>5

LEMMA HbGrantFailsTyped ==
    ASSUME Typed, NEW h \in Heartbeat, HbGrantFails(h)
    PROVE  Typed'
<1> USE DEF Typed, serverVars, registryVars, historyVars
<1>1. ServerTyped'
  BY DEF HbGrantFails, ServerTyped
<1>2. HbTyped'
  BY FailedTyped DEF HbGrantFails, ServerTyped
<1>3. CallTyped'
  BY DEF HbGrantFails, HbQuiet, CallTyped
<1>4. CountersTyped'
  BY EtcdAssumption DEF HbGrantFails, HbQuiet, Fault, CountersTyped
<1>5. FlagsTyped'
  BY DEF HbGrantFails, HbQuiet, FlagsTyped
<1>6. QED
  BY <1>1, <1>2, <1>3, <1>4, <1>5

LEMMA HbPutFailsTyped ==
    ASSUME Typed, NEW h \in Heartbeat, HbPutFails(h)
    PROVE  Typed'
<1> USE DEF Typed, serverVars, registryVars, historyVars
<1>1. ServerTyped'
  BY DEF HbPutFails, ServerTyped
<1>2. HbTyped'
  BY FailedTyped DEF HbPutFails, ServerTyped
<1>3. CallTyped'
  BY DEF HbPutFails, HbQuiet, CallTyped
<1>4. CountersTyped'
  BY EtcdAssumption DEF HbPutFails, HbQuiet, Fault, CountersTyped
<1>5. FlagsTyped'
  BY DEF HbPutFails, HbQuiet, FlagsTyped
<1>6. QED
  BY <1>1, <1>2, <1>3, <1>4, <1>5

LEMMA HbPutDoneTyped ==
    ASSUME Typed, NEW h \in Heartbeat, HbPutDone(h)
    PROVE  Typed'
<1> USE DEF Typed, serverVars, registryVars, historyVars
<1>1. ServerTyped'
  BY DEF HbPutDone, ServerTyped
<1>2. HbTyped'
  <2>1. hb[h] \in HbState /\ hb[h].lease <= granted
    BY DEF HbTyped
  <2> DEFINE go == [hb[h] EXCEPT !.at = "first"]
  <2>2. go \in HbState /\ go.lease <= granted
    BY <2>1 DEF HbState, Running
  <2>3. granted' = granted
    BY DEF HbPutDone
  <2>4. hb' = [hb EXCEPT ![h] = go] \/ Failed(h)
    BY DEF HbPutDone, HbGoes
  <2> HIDE DEF go
  <2>5. QED
    BY <1>1, <2>2, <2>3, <2>4, HbUpdated, FailedTyped DEF ServerTyped
<1>3. CallTyped'
  BY DEF HbPutDone, HbQuiet, CallTyped
<1>4. CountersTyped'
  BY EtcdAssumption DEF HbPutDone, HbQuiet, Fault, CountersTyped
<1>5. FlagsTyped'
  BY DEF HbPutDone, HbQuiet, FlagsTyped
<1>6. QED
  BY <1>1, <1>2, <1>3, <1>4, <1>5

LEMMA HbFirstTyped ==
    ASSUME Typed, NEW h \in Heartbeat, HbFirst(h)
    PROVE  Typed'
<1> USE DEF Typed, serverVars, registryVars, historyVars
<1>1. ServerTyped'
  BY DEF HbFirst, ServerTyped
<1>2. HbTyped'
  <2>1. hb[h] \in HbState /\ hb[h].lease <= granted
    BY DEF HbTyped
  <2> DEFINE r == [hb[h] EXCEPT !.at = "steady", !.tries = 0]
  <2>2. r \in HbState /\ r.lease = hb[h].lease
    BY <2>1, Bounds DEF HbState, Running
  <2>3. hb' = [hb EXCEPT ![h] = r] \/ hb' = [hb EXCEPT ![h] = Ended]
    BY DEF HbFirst
  <2> HIDE DEF r
  <2>4. granted \in Nat /\ granted' = granted
    BY DEF HbFirst, ServerTyped
  <2>5. r.lease <= granted' /\ Ended.lease <= granted' /\ granted <= granted'
    BY <2>1, <2>2, <2>4, EndedTyped
  <2>6. QED
    BY <1>1, <2>2, <2>3, <2>5, EndedTyped, HbUpdated
<1>3. CallTyped'
  BY DEF HbFirst, HbQuiet, CallTyped
<1>4. CountersTyped'
  BY DEF HbFirst, HbQuiet, CountersTyped
<1>5. FlagsTyped'
  BY DEF HbFirst, HbQuiet, FlagsTyped
<1>6. QED
  BY <1>1, <1>2, <1>3, <1>4, <1>5

LEMMA NextTyped == Typed /\ [Next]_vars => Typed'
<1> SUFFICES ASSUME Typed, [Next]_vars PROVE Typed'
  OBVIOUS
<1>1. CASE UNCHANGED vars
  BY <1>1 DEF vars, serverVars, registryVars, historyVars, Typed, ServerTyped, HbTyped,
       CallTyped, CountersTyped, FlagsTyped
<1>2. CASE Next
  <2>1. ASSUME NEW c \in Caller, RegisterSwaps(c) \/ DeregisterBegins(c) \/ CallStep(c)
        PROVE  Typed'
    BY <2>1, RegisterSwapsTyped, RegisterCancelsTyped, DeregisterBeginsTyped, RegisterPutsTyped,
         GrantFailsTyped, PutFailsTyped, RegisterReturnsTyped, DeletesTyped, DeleteFailsTyped,
         DeregisterDropsTyped, DeregisterReturnsTyped DEF CallStep
  <2>2. ASSUME NEW h \in Heartbeat, HbStep(h) PROVE Typed'
    BY <2>2, HbCancelledTyped, HbStreamsTyped, HbLostTyped, HbTriesTyped,
         HbGrantFailsTyped, HbPutFailsTyped, HbPutDoneTyped, HbFirstTyped DEF HbStep
  <2>3. ASSUME NEW i \in Lease, ServerStep(i) \/ CutOff(i) PROVE Typed'
    BY <2>3, PutLandsTyped, PutDroppedTyped, RunsOutTyped, CutOffTyped DEF ServerStep
  <2>4. QED
    BY <1>2, <2>1, <2>2, <2>3, CloseTyped DEF Next
<1>3. QED
  BY <1>1, <1>2

(* Every variable stays in its type; the leases, the heartbeats and the    *)
(* calls of the registrar are numbered within their bounds, and a          *)
(* heartbeat never begins attempt MaxRetry + 1 (reRegisterHeartbeat).      *)
THEOREM RegistryTyped == Spec => []TypeOK
<1>1. Spec => []Typed
  BY InitTyped, NextTyped, PTL DEF Spec
<1>2. QED
  BY <1>1, TypedTypes, PTL

-----------------------------------------------------------------------------
(* One heartbeat.  Without overlapping calls at most one call is under     *)
(* way, and while it registers no heartbeat is left that hbCancel could    *)
(* stop: Register took it from there when it swapped the handle, and has   *)
(* stopped it before it asks for a lease.                                  *)

CallsAlone == ~overlap => \A c, d \in Caller : Inside(c) /\ Inside(d) => c = d

Between == {"swapped", "grant", "put", "dropped"}
NoneMeanwhile ==
    ~overlap => \A c \in Caller : call[c].at \in Between => hbCancel = NoHeartbeat

OneInv == CallsAlone /\ NoneMeanwhile /\ OneHeartbeat

RunsOn(h) == Runs(h) /\ ~Stopping(h)

\* A step of a heartbeat starts no heartbeat and resumes none.
LEMMA HbStepRuns ==
    ASSUME Typed, NEW h \in Heartbeat, HbStep(h)
    PROVE  /\ UNCHANGED <<hbCancel, closed, call, overlap, deleted, late>>
           /\ \A g \in Heartbeat : RunsOn(g)' => RunsOn(g)
<1> USE DEF Typed, RunsOn, Runs, Stopping, Running
<1>1. UNCHANGED <<hbCancel, closed, call, overlap, deleted, late>>
  BY DEF HbStep, HbQuiet, historyVars, HbCancelled, HbStreams, HbLost, HbTries,
       HbGrantFails, HbPutFails, HbPutDone, HbFirst
<1>2. hb \in [Heartbeat -> HbState] /\ hb[h] \in HbState
  BY DEF HbTyped
<1>3. \A g \in Heartbeat : g # h => hb'[g] = hb[g]
  BY <1>2 DEF HbStep, HbCancelled, HbStreams, HbLost, HbTries, HbGrantFails, HbPutFails,
       HbPutDone, HbFirst, HbGoes, Failed
<1>4. Runs(h)
  BY DEF HbStep, HbCancelled, HbStreams, HbLost, HbTries, HbGrantFails, HbPutFails,
       HbPutDone, HbFirst
<1>5. hb'[h].at = "ended" \/ hb'[h].cancelled = hb[h].cancelled
  <2>1. ASSUME Failed(h) PROVE <1>5
    BY <2>1, EndedTyped DEF Failed
  <2>2. CASE HbCancelled(h)
    BY <2>2, EndedTyped DEF HbCancelled
  <2>3. CASE HbStreams(h)
    BY <1>2, <2>3 DEF HbStreams, HbGoes, HbState
  <2>4. CASE HbLost(h)
    BY <2>4 DEF HbLost
  <2>5. CASE HbTries(h)
    BY <1>2, <2>5 DEF HbTries
  <2>6. CASE HbGrantFails(h) \/ HbPutFails(h)
    BY <2>1, <2>6 DEF HbGrantFails, HbPutFails
  <2>7. CASE HbPutDone(h)
    BY <1>2, <2>1, <2>7 DEF HbPutDone, HbGoes, HbState
  <2>8. CASE HbFirst(h)
    BY <2>8, EndedTyped DEF HbFirst
  <2>9. QED
    BY <2>2, <2>3, <2>4, <2>5, <2>6, <2>7, <2>8 DEF HbStep
<1>6. QED
  BY <1>1, <1>3, <1>4, <1>5

\* A call that is alone has stopped the heartbeat it took before it goes on.
LEMMA NobodyRuns ==
    ASSUME OneInv, ~overlap, NEW c \in Caller, call[c].at \in {"grant", "put"},
           NEW h \in Heartbeat
    PROVE  ~RunsOn(h)
<1>1. Inside(c) /\ hbCancel = NoHeartbeat
  BY DEF OneInv, NoneMeanwhile, Between, Inside
<1>2. \A d \in Caller : ~Taken(d, h)
  BY <1>1 DEF OneInv, CallsAlone, Taken, Inside
<1>3. QED
  BY <1>1, <1>2 DEF OneInv, OneHeartbeat, RunsOn, NoHeartbeat, Heartbeat

\* Cancelling the heartbeat that was taken leaves none that runs on.
LEMMA TakenStops ==
    ASSUME Typed, OneInv, ~overlap, NEW c \in Caller, call[c].at \in {"swapped", "dropped"},
           hb' = Cancel(call[c].old), UNCHANGED closed,
           NEW h \in Heartbeat
    PROVE  ~RunsOn(h)'
<1>1. /\ Cancel(call[c].old)[h].at = hb[h].at
      /\ hb[h].cancelled => Cancel(call[c].old)[h].cancelled
      /\ h = call[c].old /\ Runs(h) => Cancel(call[c].old)[h].cancelled
  BY CancelTyped
<1>2. RunsOn(h)' => RunsOn(h)
  BY <1>1 DEF RunsOn, Runs, Stopping
<1>3. Inside(c) /\ hbCancel = NoHeartbeat
  BY DEF OneInv, NoneMeanwhile, Between, Inside
<1>4. \A d \in Caller : Taken(d, h) => h = call[c].old
  BY <1>3 DEF OneInv, CallsAlone, Taken, Inside
<1>5. RunsOn(h) => h = call[c].old
  BY <1>3, <1>4 DEF OneInv, OneHeartbeat, RunsOn, NoHeartbeat, Heartbeat
<1>6. QED
  BY <1>1, <1>2, <1>5 DEF RunsOn, Runs, Stopping

\* Two heartbeats never run on together.
LEMMA RunsAlone ==
    ASSUME OneInv, ~overlap, NEW g \in Heartbeat, NEW h \in Heartbeat, RunsOn(g), RunsOn(h)
    PROVE  g = h
<1>1. \A c \in Caller : Taken(c, g) \/ Taken(c, h) => hbCancel = NoHeartbeat /\ Inside(c)
  BY DEF OneInv, NoneMeanwhile, Between, Taken, Inside
<1>2. \A c, d \in Caller : Taken(c, g) /\ Taken(d, h) => c = d
  BY <1>1 DEF OneInv, CallsAlone
<1>3. g # NoHeartbeat /\ h # NoHeartbeat
  BY DEF Heartbeat, NoHeartbeat
<1>4. /\ g = hbCancel \/ \E c \in Caller : Taken(c, g)
      /\ h = hbCancel \/ \E c \in Caller : Taken(c, h)
  BY DEF OneInv, OneHeartbeat, RunsOn
<1>5. QED
  BY <1>1, <1>2, <1>3, <1>4 DEF Taken

LEMMA InitOne == Init => OneInv
  BY DEF Init, OneInv, CallsAlone, NoneMeanwhile, OneHeartbeat, Inside, Runs, Running,
       Idle, Out

\* Steps of etcd, of a failing call, of a Delete: no call begins, no heartbeat
\* starts and hbCancel is the same.
LEMMA OneQuiet ==
    ASSUME Typed, OneInv, UNCHANGED <<hbCancel, closed, overlap>>,
           \A h \in Heartbeat : RunsOn(h)' => RunsOn(h),
           \A c \in Caller : Inside(c)' => Inside(c),
           \A c \in Caller : call'[c].at \in Between => call[c].at \in Between,
           \A c \in Caller, h \in Heartbeat : Taken(c, h) => Taken(c, h)'
    PROVE  OneInv'
  BY DEF OneInv, CallsAlone, NoneMeanwhile, OneHeartbeat, RunsOn

LEMMA OneCalls ==
    ASSUME Typed, OneInv, NEW c \in Caller,
           RegisterSwaps(c) \/ DeregisterBegins(c) \/ CallStep(c)
    PROVE  OneInv'
<1>1. call \in [Caller -> CallState]
  BY DEF Typed, CallTyped
<1> DEFINE Quiet == /\ UNCHANGED <<hb, hbCancel, closed, overlap>>
                    /\ \A d \in Caller : d # c => call'[d] = call[d]
<1>2. ASSUME Quiet, Inside(c)' => Inside(c),
             call'[c].at \in Between => call[c].at \in Between,
             call[c].at \notin {"swapped", "dropped"}
      PROVE  OneInv'
  <2>1. \A h \in Heartbeat : RunsOn(h)' => RunsOn(h)
    BY <1>2 DEF RunsOn, Runs, Stopping
  <2>2. /\ \A d \in Caller : Inside(d)' => Inside(d)
        /\ \A d \in Caller : call'[d].at \in Between => call[d].at \in Between
        /\ \A d \in Caller, h \in Heartbeat : Taken(d, h) => Taken(d, h)'
    BY <1>2 DEF Inside, Taken
  <2>3. QED
    BY <1>2, <2>1, <2>2, OneQuiet
<1>3. ASSUME Enters(c, "swapped", hbCancel) \/ Enters(c, "delete", NoHeartbeat)
      PROVE  /\ CallsAlone' /\ (~overlap' => ~overlap)
             /\ ~overlap' => \A d \in Caller, h \in Heartbeat : ~Taken(d, h)
  <2>1. \A d \in Caller : d # c => call'[d] = call[d]
    BY <1>1, <1>3 DEF Enters
  <2>2. ~overlap' => ~overlap /\ \A d \in Caller \ {c} : ~Inside(d)
    BY <1>3 DEF Enters
  <2>3. call[c].at \in {"out", "failed"}
    BY <1>3 DEF Enters
  <2>4. QED
    BY <2>1, <2>2, <2>3 DEF CallsAlone, Inside, Taken
<1>4. CASE RegisterSwaps(c)
  <2>1. /\ CallsAlone' /\ (~overlap' => ~overlap)
        /\ ~overlap' => \A d \in Caller, h \in Heartbeat : ~Taken(d, h)
    BY <1>3, <1>4 DEF RegisterSwaps
  <2>2. NoneMeanwhile'
    BY <1>4 DEF RegisterSwaps, NoneMeanwhile
  <2>3. call'[c].at = "swapped" /\ call'[c].old = hbCancel /\ UNCHANGED <<hb, closed>>
    BY <1>1, <1>4 DEF RegisterSwaps, Enters
  <2>4. OneHeartbeat'
    BY <2>1, <2>3 DEF OneInv, OneHeartbeat, Runs, Stopping, Taken
  <2>5. QED
    BY <2>1, <2>2, <2>4 DEF OneInv
<1>12. CASE RegisterCancels(c)
  <2>1. /\ UNCHANGED <<hbCancel, closed, overlap>> /\ hb' = Cancel(call[c].old)
        /\ call[c].at = "swapped" /\ call'[c].at = "grant"
        /\ \A d \in Caller : d # c => call'[d] = call[d]
    BY <1>1, <1>12 DEF RegisterCancels, CallState
  <2>2. CallsAlone' /\ NoneMeanwhile'
    BY <2>1 DEF OneInv, CallsAlone, NoneMeanwhile, Between, Inside
  <2>3. ASSUME ~overlap, NEW h \in Heartbeat PROVE ~RunsOn(h)'
    BY <2>1, <2>3, TakenStops
  <2>4. QED
    BY <2>1, <2>2, <2>3 DEF OneInv, OneHeartbeat, RunsOn
<1>5. CASE DeregisterBegins(c)
  <2>1. CallsAlone' /\ (~overlap' => ~overlap)
    BY <1>3, <1>5 DEF DeregisterBegins
  <2>2. call'[c].at = "delete" /\ (\A d \in Caller : d # c => call'[d] = call[d])
    BY <1>1, <1>5 DEF DeregisterBegins, Enters
  <2>3. UNCHANGED <<hb, hbCancel, closed>>
    BY <1>5 DEF DeregisterBegins, registryVars
  <2>4. NoneMeanwhile'
    BY <2>1, <2>2, <2>3 DEF OneInv, NoneMeanwhile, Between
  <2>5. OneHeartbeat'
    BY <1>3, <1>5, <2>1, <2>3 DEF DeregisterBegins, OneInv, OneHeartbeat, Runs, Stopping
  <2>6. QED
    BY <2>1, <2>4, <2>5 DEF OneInv
<1>6. CASE RegisterPuts(c)
  <2>1. Quiet /\ call[c].at = "grant"
    BY <1>1, <1>6 DEF RegisterPuts, registryVars, historyVars
  <2>2. QED
    BY <1>2, <2>1 DEF Inside, Between
<1>7. CASE GrantFails(c) \/ PutFails(c) \/ DeleteFails(c)
  <2>1. Quiet /\ call'[c].at = "failed" /\ call[c].at \notin {"swapped", "dropped"}
    BY <1>1, <1>7 DEF GrantFails, PutFails, DeleteFails, RollsBack, registryVars,
         historyVars, CallState
  <2>2. QED
    BY <1>2, <2>1 DEF Inside, Between
<1>8. CASE Deletes(c)
  <2>1. Quiet /\ call[c].at = "delete" /\ call'[c].at = "deleted"
    BY <1>1, <1>8 DEF Deletes, registryVars
  <2>2. QED
    BY <1>2, <2>1 DEF Inside, Between
<1>9. CASE RegisterReturns(c)
  <2>1. /\ UNCHANGED <<closed, overlap>>
        /\ call[c].at = "put" /\ call'[c].at = "out"
        /\ \A d \in Caller : d # c => call'[d] = call[d]
    BY <1>1, <1>9 DEF RegisterReturns, historyVars, Out
  <2>2. \A g \in Heartbeat : g # hbCancel' => hb'[g] = hb[g]
    BY <1>9 DEF RegisterReturns, Typed, HbTyped
  <2>3. CallsAlone'
    BY <2>1 DEF OneInv, CallsAlone, Inside
  <2>4. NoneMeanwhile'
    BY <2>1 DEF OneInv, CallsAlone, NoneMeanwhile, Between, Inside
  <2>5. ~overlap => \A g \in Heartbeat : ~RunsOn(g)
    BY <2>1, NobodyRuns
  <2>6. OneHeartbeat'
    BY <2>1, <2>2, <2>5 DEF OneHeartbeat, RunsOn, Runs, Stopping
  <2>7. QED
    BY <2>3, <2>4, <2>6 DEF OneInv
<1>10. CASE DeregisterReturns(c)
  <2>1. /\ UNCHANGED <<hbCancel, closed, overlap>> /\ hb' = Cancel(call[c].old)
        /\ call[c].at = "dropped" /\ call'[c].at = "out"
        /\ \A d \in Caller : d # c => call'[d] = call[d]
    BY <1>1, <1>10 DEF DeregisterReturns, Out
  <2>2. CallsAlone' /\ NoneMeanwhile'
    BY <2>1 DEF OneInv, CallsAlone, NoneMeanwhile, Between, Inside
  <2>3. ASSUME ~overlap, NEW h \in Heartbeat PROVE ~RunsOn(h)'
    BY <2>1, <2>3, TakenStops
  <2>4. QED
    BY <2>1, <2>2, <2>3 DEF OneInv, OneHeartbeat, RunsOn
<1>13. CASE DeregisterDrops(c)
  <2>1. /\ UNCHANGED <<hb, closed, overlap>> /\ hbCancel' = NoHeartbeat
        /\ call[c].at = "deleted" /\ call'[c].at = "dropped" /\ call'[c].old = hbCancel
        /\ \A d \in Caller : d # c => call'[d] = call[d]
    BY <1>1, <1>13 DEF DeregisterDrops, historyVars, CallState
  <2>2. CallsAlone' /\ NoneMeanwhile'
    BY <2>1 DEF OneInv, CallsAlone, NoneMeanwhile, Inside
  <2>3. ~overlap => \A d \in Caller, h \in Heartbeat : ~Taken(d, h)
    BY <2>1 DEF OneInv, CallsAlone, Taken, Inside
  <2>4. OneHeartbeat'
    BY <2>1, <2>3 DEF OneInv, OneHeartbeat, Runs, Stopping, Taken
  <2>5. QED
    BY <2>2, <2>4 DEF OneInv
<1>11. QED
  BY <1>4, <1>5, <1>6, <1>7, <1>8, <1>9, <1>10, <1>12, <1>13 DEF CallStep

LEMMA NextOne == Typed /\ OneInv /\ [Next]_vars => OneInv'
<1> SUFFICES ASSUME Typed, OneInv, [Next]_vars PROVE OneInv'
  OBVIOUS
<1>1. ASSUME UNCHANGED <<hb, hbCancel, closed, overlap, call>> PROVE OneInv'
  BY <1>1 DEF OneInv, CallsAlone, NoneMeanwhile, OneHeartbeat, Inside, Runs, Stopping, Taken
<1>2. CASE UNCHANGED vars
  BY <1>1, <1>2 DEF vars, registryVars, historyVars
<1>3. ASSUME NEW i \in Lease, ServerStep(i) \/ CutOff(i) PROVE OneInv'
  BY <1>1, <1>3 DEF ServerStep, PutLands, PutDropped, RunsOut, CutOff, Expires,
       registryVars, historyVars
<1>4. ASSUME NEW h \in Heartbeat, HbStep(h) PROVE OneInv'
  BY <1>4, HbStepRuns, OneQuiet DEF Inside, Taken
<1>5. CASE Close
  <2>1. UNCHANGED <<call, overlap>> /\ hbCancel' = NoHeartbeat /\ closed'
    BY <1>5 DEF Close, historyVars
  <2>2. QED
    BY <2>1 DEF OneInv, CallsAlone, NoneMeanwhile, OneHeartbeat, Inside, Stopping
<1>6. QED
  BY <1>2, <1>3, <1>4, <1>5, OneCalls DEF Next

(* However many goroutines use the registrar: as long as their calls do    *)
(* not overlap, the only heartbeat that runs on is the one hbCancel stops, *)
(* or the one a call took from there to stop it (the swap under the lock   *)
(* in Register; Deregister; Close).                                        *)
THEOREM OneHeartbeatOnly == Spec => []OneHeartbeat
<1>1. Spec => []Typed
  BY InitTyped, NextTyped, PTL DEF Spec
<1>2. Typed /\ Typed' /\ OneInv /\ [Next]_vars => OneInv'
  BY NextOne
<1>3. Spec => []OneInv
  BY <1>1, <1>2, InitOne, PTL DEF Spec
<1>4. OneInv => OneHeartbeat
  BY DEF OneInv
<1>5. QED
  BY <1>3, <1>4, PTL

-----------------------------------------------------------------------------
(* The entry follows.  What a heartbeat or a call knows to have landed is  *)
(* the last Put that took effect.                                          *)

Clean == ~deleted /\ ~overlap /\ ~late

\* The heartbeat's Put has taken effect.
Holds(h) ==
    \/ hb[h].at \in {"stream", "steady", "first"}
    \/ hb[h].at = "putting" /\ hb[h].lease \in landed

HbFollows ==
    Clean => \A h \in Heartbeat :
        Holds(h) /\ ~Stopping(h) /\ hb[h].lease \in live => entry = hb[h].lease

CallFollows ==
    Clean => \A c \in Caller :
        call[c].at = "put" /\ call[c].lease \in landed /\ call[c].lease \in live
        => entry = call[c].lease

EntryInv == HbFollows /\ CallFollows

LEMMA InitEntry == Init => EntryInv
  BY DEF Init, EntryInv, HbFollows, CallFollows

\* Between two puts the entry only disappears with its lease.
LEMMA EntryQuiet ==
    ASSUME Typed, EntryInv, Clean' => Clean,
           \A i \in live' : i \in live /\ (entry = i => entry' = i),
           \A h \in Heartbeat : Holds(h)' /\ ~Stopping(h)' =>
               Holds(h) /\ ~Stopping(h) /\ hb'[h].lease = hb[h].lease,
           \A c \in Caller : call'[c].at = "put" /\ call'[c].lease \in landed' =>
               call[c].at = "put" /\ call[c].lease \in landed /\ call'[c].lease = call[c].lease
    PROVE  EntryInv'
  BY DEF EntryInv, HbFollows, CallFollows

LEMMA EntryPutLands ==
    ASSUME Typed, OneInv, EntryInv, NEW i \in Lease, PutLands(i)
    PROVE  EntryInv'
<1>1. UNCHANGED <<live, hb, hbCancel, closed, call, overlap, deleted>>
  BY DEF PutLands, registryVars
<1>2. CASE i \notin live
  <2>1. UNCHANGED <<entry, landed, late>>
    BY <1>2 DEF PutLands
  <2>2. QED
    BY <1>1, <2>1 DEF EntryInv, HbFollows, CallFollows, Clean, Holds, Stopping
<1>3. CASE i \in live /\ ~AwaitedPut(i)
  BY <1>3 DEF PutLands, EntryInv, HbFollows, CallFollows, Clean
<1>4. CASE i \in live /\ AwaitedPut(i)
  <2>1. entry' = i /\ landed' = landed \cup {i}
    BY <1>4 DEF PutLands
  <2>2. SUFFICES ASSUME ~overlap PROVE EntryInv'
    BY <1>1 DEF EntryInv, HbFollows, CallFollows, Clean
  <2>3. ASSUME NEW c \in Caller, call[c].at = "put"
        PROVE  /\ \A h \in Heartbeat : ~(Runs(h) /\ ~Stopping(h))
               /\ \A d \in Caller : call[d].at = "put" => d = c
    BY <2>2, <2>3, NobodyRuns DEF OneInv, CallsAlone, Inside, RunsOn
  <2>4. \A h \in Heartbeat : Holds(h)' /\ ~Stopping(h)' => Runs(h) /\ ~Stopping(h)
    BY <1>1 DEF Holds, Runs, Running, Stopping
  <2>5. CASE \E c \in Caller : call[c].at = "put" /\ call[c].lease = i
    <3>1. PICK c \in Caller : call[c].at = "put" /\ call[c].lease = i
      BY <2>5
    <3>2. HbFollows'
      BY <2>3, <2>4, <3>1 DEF HbFollows
    <3>3. CallFollows'
      BY <1>1, <2>1, <2>3, <3>1 DEF CallFollows
    <3>4. QED
      BY <3>2, <3>3 DEF EntryInv
  <2>6. CASE \E h \in Heartbeat : hb[h].at = "putting" /\ hb[h].lease = i /\ ~Stopping(h)
    <3>1. PICK h \in Heartbeat : hb[h].at = "putting" /\ hb[h].lease = i /\ ~Stopping(h)
      BY <2>6
    <3>2. Runs(h)
      BY <3>1 DEF Runs, Running
    <3>3. \A g \in Heartbeat : Runs(g) /\ ~Stopping(g) => g = h
      BY <2>2, <3>1, <3>2, RunsAlone DEF RunsOn
    <3>4. HbFollows'
      BY <1>1, <2>1, <2>4, <3>1, <3>3 DEF HbFollows
    <3>5. CallFollows'
      BY <1>1, <2>3, <3>1, <3>2 DEF CallFollows
    <3>6. QED
      BY <3>4, <3>5 DEF EntryInv
  <2>7. QED
    BY <1>4, <2>5, <2>6 DEF AwaitedPut
<1>5. QED
  BY <1>2, <1>3, <1>4

LEMMA EntryServer ==
    ASSUME Typed, EntryInv, NEW i \in Lease, PutDropped(i) \/ RunsOut(i) \/ CutOff(i)
    PROVE  EntryInv'
<1>1. UNCHANGED <<landed, hb, closed, call, overlap, deleted, late>>
  BY DEF PutDropped, RunsOut, CutOff, Expires, registryVars, historyVars
<1>2. \A j \in live' : j \in live /\ (entry = j => entry' = j)
  BY DEF PutDropped, RunsOut, CutOff, Expires
<1>3. QED
  BY <1>1, <1>2, EntryQuiet DEF Clean, Holds, Stopping

\* A lease that was just granted is nobody's yet.
LEMMA NewLease ==
    ASSUME Typed, GrantAndPut
    PROVE  /\ granted' \notin landed /\ live' = live \cup {granted'}
           /\ UNCHANGED <<entry, landed>>
           /\ \A h \in Heartbeat : hb[h].lease # granted'
           /\ \A c \in Caller : call[c].lease # granted'
<1>1. granted \in Nat /\ granted' = granted + 1 /\ landed \subseteq 1..granted
  BY DEF GrantAndPut, Typed, ServerTyped
<1>2. \A h \in Heartbeat : hb[h].lease \in Nat /\ hb[h].lease <= granted
  BY DEF Typed, HbTyped, HbState
<1>3. \A c \in Caller : call[c].lease \in Nat /\ call[c].lease <= granted
  BY DEF Typed, CallTyped, CallState
<1>4. QED
  BY <1>1, <1>2, <1>3 DEF GrantAndPut

LEMMA EntryCalls ==
    ASSUME Typed, OneInv, OneInv', EntryInv, NEW c \in Caller,
           RegisterSwaps(c) \/ DeregisterBegins(c) \/ CallStep(c)
    PROVE  EntryInv'
<1>1. call \in [Caller -> CallState] /\ hb \in [Heartbeat -> HbState]
  BY DEF Typed, CallTyped, HbTyped
<1> DEFINE Same == /\ UNCHANGED <<live, entry, hb, closed, overlap, deleted, late>>
                   /\ landed' \subseteq landed
                   /\ \A d \in Caller : d # c => call'[d] = call[d]
<1>2. ASSUME Same, call'[c].at # "put", landed' = landed PROVE EntryInv'
  BY <1>2, EntryQuiet DEF Clean, Holds, Stopping
<1>3. CASE RegisterSwaps(c)
  <2>1. /\ UNCHANGED <<live, entry, landed, hb, closed, deleted, late>> /\ (~overlap' => ~overlap)
        /\ call'[c].at = "swapped" /\ \A d \in Caller : d # c => call'[d] = call[d]
    BY <1>1, <1>3 DEF RegisterSwaps, Enters, serverVars
  <2>2. QED
    BY <2>1, EntryQuiet DEF Clean, Holds, Stopping
<1>11. CASE RegisterCancels(c)
  <2>1. SUFFICES ASSUME ~overlap' PROVE EntryInv'
    BY DEF EntryInv, HbFollows, CallFollows, Clean
  <2>2. /\ UNCHANGED <<closed, overlap>> /\ hb' = Cancel(call[c].old)
        /\ call[c].at = "swapped" /\ call'[c].at = "grant"
        /\ \A d \in Caller : d # c => call'[d] = call[d]
    BY <1>1, <1>11 DEF RegisterCancels, CallState
  <2>3. \A h \in Heartbeat : ~RunsOn(h)'
    BY <2>1, <2>2, TakenStops
  <2>4. HbFollows'
    BY <2>3 DEF HbFollows, Holds, RunsOn, Runs, Running
  <2>5. \A d \in Caller : d # c => call[d].at # "put"
    BY <2>1, <2>2 DEF OneInv, CallsAlone, Inside
  <2>6. CallFollows'
    BY <2>2, <2>5 DEF CallFollows
  <2>7. QED
    BY <2>4, <2>6 DEF EntryInv
<1>4. CASE DeregisterBegins(c)
  <2>1. UNCHANGED <<live, entry, landed, hb, closed, deleted, late>> /\ (~overlap' => ~overlap)
    BY <1>4 DEF DeregisterBegins, Enters, serverVars, registryVars
  <2>2. call'[c].at = "delete" /\ \A d \in Caller : d # c => call'[d] = call[d]
    BY <1>1, <1>4 DEF DeregisterBegins, Enters
  <2>3. QED
    BY <2>1, <2>2, EntryQuiet DEF Clean, Holds, Stopping
<1>5. CASE RegisterPuts(c)
  <2>1. UNCHANGED <<hb, closed, overlap, deleted, late>>
    BY <1>5 DEF RegisterPuts, registryVars, historyVars
  <2>2. GrantAndPut /\ call'[c].lease = granted'
        /\ \A d \in Caller : d # c => call'[d] = call[d]
    BY <1>1, <1>5 DEF RegisterPuts
  <2>3. HbFollows'
    BY <2>1, <2>2, NewLease DEF EntryInv, HbFollows, Clean, Holds, Stopping
  <2>4. CallFollows'
    BY <2>1, <2>2, NewLease DEF EntryInv, CallFollows, Clean
  <2>5. QED
    BY <2>3, <2>4 DEF EntryInv
<1>6. CASE GrantFails(c) \/ PutFails(c) \/ DeleteFails(c)
  <2>1. Same /\ call'[c].at # "put" /\ landed' = landed
    BY <1>1, <1>6 DEF GrantFails, PutFails, DeleteFails, RollsBack, serverVars,
         registryVars, historyVars, CallState
  <2>2. QED
    BY <1>2, <2>1
<1>7. CASE Deletes(c)
  BY <1>7 DEF Deletes, EntryInv, HbFollows, CallFollows, Clean
<1>8. CASE RegisterReturns(c)
  <2>1. /\ UNCHANGED <<live, entry, closed, overlap, deleted, late>>
        /\ landed' = landed \ {call[c].lease} /\ call[c].lease \in landed
        /\ call[c].at = "put" /\ call'[c].at = "out"
        /\ \A d \in Caller : d # c => call'[d] = call[d]
    BY <1>1, <1>8 DEF RegisterReturns, historyVars, Out
  <2>2. PICK h \in Heartbeat :
            hb' = [hb EXCEPT ![h].at = "stream", ![h].lease = call[c].lease]
    BY <1>8 DEF RegisterReturns
  <2>3. hb'[h].lease = call[c].lease /\ \A g \in Heartbeat : g # h => hb'[g] = hb[g]
    BY <1>1, <2>2
  <2>4. HbFollows'
    BY <2>1, <2>3 DEF EntryInv, HbFollows, CallFollows, Clean, Holds, Stopping
  <2>5. CallFollows'
    BY <2>1 DEF EntryInv, CallFollows, Clean
  <2>6. QED
    BY <2>4, <2>5 DEF EntryInv
<1>9. CASE DeregisterReturns(c)
  <2>1. /\ UNCHANGED <<live, entry, landed, closed, overlap, deleted, late>>
        /\ hb' = Cancel(call[c].old) /\ call'[c].at = "out"
        /\ \A d \in Caller : d # c => call'[d] = call[d]
    BY <1>1, <1>9 DEF DeregisterReturns, serverVars, Out
  <2>2. \A h \in Heartbeat : /\ hb'[h].at = hb[h].at /\ hb'[h].lease = hb[h].lease
                             /\ hb[h].cancelled => hb'[h].cancelled
    BY <2>1, CancelTyped
  <2>3. QED
    BY <2>1, <2>2, EntryQuiet DEF Clean, Holds, Stopping
<1>12. CASE DeregisterDrops(c)
  <2>1. Same /\ call'[c].at # "put" /\ landed' = landed
    BY <1>1, <1>12 DEF DeregisterDrops, serverVars, historyVars, CallState
  <2>2. QED
    BY <1>2, <2>1
<1>10. QED
  BY <1>3, <1>4, <1>5, <1>6, <1>7, <1>8, <1>9, <1>11, <1>12 DEF CallStep

LEMMA EntryHeartbeat ==
    ASSUME Typed, EntryInv, NEW h \in Heartbeat, HbStep(h)
    PROVE  EntryInv'
<1>1. hb \in [Heartbeat -> HbState]
  BY DEF Typed, HbTyped
<1>2. UNCHANGED <<closed, call, overlap, deleted, late>>
  BY HbStepRuns
<1>3. \A g \in Heartbeat : g # h => hb'[g] = hb[g]
  BY <1>1 DEF HbStep, HbCancelled, HbStreams, HbLost, HbTries, HbGrantFails, HbPutFails,
       HbPutDone, HbFirst, HbGoes, Failed
<1>4. ASSUME UNCHANGED <<live, entry>>, landed' \subseteq landed,
             Holds(h)' => /\ Holds(h)
                          /\ hb'[h].lease = hb[h].lease
                          /\ hb'[h].cancelled = hb[h].cancelled
      PROVE  EntryInv'
  BY <1>2, <1>3, <1>4, EntryQuiet DEF Clean, Holds, Stopping
<1>5. ASSUME Failed(h) PROVE hb'[h].at \in {"ended", "try"}
  BY <1>1, <1>5, EndedTyped DEF Failed
<1>6. CASE HbCancelled(h) \/ HbGrantFails(h) \/ HbPutFails(h)
  <2>1. UNCHANGED <<live, entry, landed>> /\ hb'[h].at \in {"ended", "try"}
    BY <1>1, <1>5, <1>6, EndedTyped DEF HbCancelled, HbGrantFails, HbPutFails, serverVars
  <2>2. QED
    BY <1>4, <2>1 DEF Holds
<1>7. CASE HbStreams(h)
  <2>1. UNCHANGED <<live, entry, landed>> /\ hb[h].at = "stream"
    BY <1>7 DEF HbStreams, serverVars
  <2>2. hb'[h].at = "try" \/ (/\ hb'[h].lease = hb[h].lease
                              /\ hb'[h].cancelled = hb[h].cancelled)
    BY <1>1, <1>7 DEF HbStreams, HbGoes, HbState
  <2>3. QED
    BY <1>4, <2>1, <2>2 DEF Holds
<1>8. CASE HbLost(h)
  <2>1. UNCHANGED <<live, entry, landed>> /\ hb'[h].at = "try"
    BY <1>1, <1>8 DEF HbLost, serverVars
  <2>2. QED
    BY <1>4, <2>1 DEF Holds
<1>9. CASE HbTries(h)
  <2>1. /\ GrantAndPut /\ hb'[h].lease = granted' /\ hb'[h].at = "putting"
    BY <1>1, <1>9 DEF HbTries
  <2>2. HbFollows'
    BY <1>2, <1>3, <2>1, NewLease DEF EntryInv, HbFollows, Clean, Holds, Stopping
  <2>3. CallFollows'
    BY <1>2, <2>1, NewLease DEF EntryInv, CallFollows, Clean
  <2>4. QED
    BY <2>2, <2>3 DEF EntryInv
<1>10. CASE HbPutDone(h)
  <2>1. /\ UNCHANGED <<live, entry>> /\ landed' \subseteq landed
        /\ Holds(h)
    BY <1>10 DEF HbPutDone, Holds
  <2>2. hb'[h].at \in {"ended", "try"} \/ (/\ hb'[h].lease = hb[h].lease
                                           /\ hb'[h].cancelled = hb[h].cancelled)
    BY <1>1, <1>5, <1>10 DEF HbPutDone, HbGoes, HbState
  <2>3. QED
    BY <1>4, <2>1, <2>2 DEF Holds
<1>11. CASE HbFirst(h)
  <2>1. UNCHANGED <<live, entry, landed>> /\ hb[h].at = "first"
    BY <1>11 DEF HbFirst, serverVars
  <2>2. hb'[h].at = "ended" \/ (/\ hb'[h].lease = hb[h].lease
                                /\ hb'[h].cancelled = hb[h].cancelled)
    BY <1>11, EndedTyped DEF HbFirst
  <2>3. QED
    BY <1>4, <2>1, <2>2 DEF Holds
<1>12. QED
  BY <1>6, <1>7, <1>8, <1>9, <1>10, <1>11 DEF HbStep

LEMMA NextEntry == Typed /\ OneInv /\ OneInv' /\ EntryInv /\ [Next]_vars => EntryInv'
<1> SUFFICES ASSUME Typed, OneInv, OneInv', EntryInv, [Next]_vars PROVE EntryInv'
  OBVIOUS
<1>1. CASE UNCHANGED vars
  BY <1>1 DEF vars, serverVars, registryVars, historyVars, EntryInv, HbFollows,
       CallFollows, Clean, Holds, Stopping
<1>2. CASE Close
  <2>1. closed' /\ UNCHANGED <<live, entry, landed, call, overlap, deleted, late>>
    BY <1>2 DEF Close, serverVars, historyVars
  <2>2. QED
    BY <2>1 DEF EntryInv, HbFollows, CallFollows, Clean, Stopping
<1>3. ASSUME NEW i \in Lease, ServerStep(i) \/ CutOff(i) PROVE EntryInv'
  BY <1>3, EntryPutLands, EntryServer DEF ServerStep
<1>4. QED
  BY <1>1, <1>2, <1>3, EntryCalls, EntryHeartbeat DEF Next

(* As long as nothing was deleted, no calls overlapped and no Put came     *)
(* after everybody had stopped waiting for it, the entry is attached to    *)
(* the live lease the heartbeat renews, however often the heartbeat had to *)
(* register anew (reRegisterHeartbeat) and calls failed (the rollback).    *)
THEOREM EntryStaysKept == Spec => []EntryKept
<1>1. Spec => []Typed
  BY InitTyped, NextTyped, PTL DEF Spec
<1>2. Typed /\ Typed' /\ OneInv /\ [Next]_vars => OneInv'
  BY NextOne
<1>3. Spec => []OneInv
  BY <1>1, <1>2, InitOne, PTL DEF Spec
<1>4. Spec => []EntryInv
  BY <1>1, <1>3, InitEntry, NextEntry, PTL DEF Spec
<1>5. Typed /\ EntryInv => EntryKept
  BY TypedTypes DEF EntryInv, HbFollows, EntryKept, Clean, Holds
<1>6. QED
  BY <1>1, <1>4, <1>5, PTL
=============================================================================
