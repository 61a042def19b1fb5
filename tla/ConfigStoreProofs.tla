-------------------------- MODULE ConfigStoreProofs --------------------------
(***************************************************************************)
(* Proofs about the store of module ConfigStore, for any list of layers    *)
(* and any number of changes, broken streams, refused watches and failed   *)
(* reads.                                                                  *)
(***************************************************************************)
EXTENDS ConfigStore, FiniteSetTheorems, SequenceTheorems, TLAPS

-----------------------------------------------------------------------------
(* Numbers, layers and the merge.                                          *)

(* Every set of numbers has a least one.                                   *)
LEMMA Least ==
    ASSUME NEW T \in SUBSET Nat, T # {}
    PROVE  \E x \in T : \A y \in T : x <= y
<1> DEFINE Below == {U \in FiniteSubsetsOf(Nat) : \E x \in T : U = 0..x}
<1>1. ASSUME NEW x \in T
      PROVE  0..x \in Below
    BY <1>1, FS_Interval DEF FiniteSubsetsOf
<1>2. Below \subseteq FiniteSubsetsOf(Nat) /\ Below # {}
    BY <1>1
<1> HIDE DEF Below
<1>3. PICK U \in Below : \A V \in Below : <<V, U>> \notin StrictSubsetOrdering(Nat)
    BY <1>2, FS_StrictSubsetOrderingWellFounded, WFMin
<1>4. PICK x \in T : U = 0..x
    BY <1>3 DEF Below
<1>5. ASSUME NEW y \in T, y < x
      PROVE  FALSE
  <2>1. 0..y \in SUBSET (0..x) /\ x \notin 0..y /\ x \in 0..x
      BY <1>5
  <2>2. <<0..y, 0..x>> \in StrictSubsetOrdering(Nat)
      BY <2>1, <1>5 DEF StrictSubsetOrdering
  <2>3. QED
      BY <2>2, <1>1, <1>3, <1>4
<1>6. QED
    BY <1>5

(* The layers stand in a list, each of them once.                          *)
LEMMA LayerList ==
    /\ Len(Layers) \in Nat \ {0}
    /\ \A i \in 1..Len(Layers) : Layers[i] \in Layer
    /\ \A l \in Layer : \E i \in 1..Len(Layers) : Layers[i] = l
    /\ \A i, j \in 1..Len(Layers) : Layers[i] = Layers[j] => i = j
    BY ConfigAssumption DEF Layer, ToSet, IsInjective

(* What is merged is a value of some layer, or that there is none.         *)
LEMMA MergeTyped ==
    ASSUME NEW c \in [Layer -> Value \cup {Absent}]
    PROVE  Merge(c) \in Value \cup {Absent}
<1> DEFINE having == {i \in 1..Len(Layers) : c[Layers[i]] # Absent}
           T == {n \in 0..Len(Layers) : \E i \in having : n = Len(Layers) - i}
<1>1. CASE having = {}
    BY <1>1 DEF Merge
<1>2. CASE having # {}
  <2>1. T \in SUBSET Nat /\ T # {}
    <3>1. PICK i \in having : TRUE
        BY <1>2
    <3>2. Len(Layers) - i \in T
        BY <3>1, LayerList
    <3>3. T \in SUBSET Nat
        BY LayerList
    <3>4. QED
        BY <3>2, <3>3
  <2>2. \E i \in having : \A j \in having : j <= i
    <3> HIDE DEF T
    <3>1. PICK x \in T : \A y \in T : x <= y
        BY <2>1, Least
    <3> USE DEF T
    <3>2. PICK i \in having : x = Len(Layers) - i
        OBVIOUS
    <3>3. ASSUME NEW j \in having
          PROVE  j <= i
      <4>1. Len(Layers) - j \in T
          BY LayerList
      <4>2. x <= Len(Layers) - j
          BY <3>1, <4>1
      <4>3. i \in Nat /\ j \in Nat /\ Len(Layers) \in Nat
          BY LayerList
      <4>4. QED
          BY <3>2, <4>2, <4>3
    <3>4. QED
        BY <3>3
  <2>3. (CHOOSE i \in having : \A j \in having : j <= i) \in having
      BY <2>2
  <2>4. QED
      BY <1>2, <2>3, LayerList DEF Merge
<1>3. QED
    BY <1>1, <1>2

-----------------------------------------------------------------------------
(* The store.                                                              *)

(* What the steps of a goroutine do to its state.                          *)
LEMMA Becomes ==
    ASSUME w \in [Layer -> Watcher], NEW l \in Layer, NEW x \in Watcher,
           w' = [w EXCEPT ![l] = x]
    PROVE  w' \in [Layer -> Watcher] /\ w'[l] = x /\ \A k \in Layer : k # l => w'[k] = w[k]
    OBVIOUS

(* A goroutine goes somewhere else.                                        *)
LEMMA Went ==
    ASSUME w \in [Layer -> Watcher], NEW l \in Layer,
           NEW p \in {"off", "wait", "lock", "call", "dispatch", "backoff", "reload", "ended"},
           w' = [w EXCEPT ![l].at = p]
    PROVE  /\ w' \in [Layer -> Watcher] /\ \A k \in Layer : k # l => w'[k] = w[k]
           /\ w'[l].at = p
<1> DEFINE x == [w[l] EXCEPT !.at = p]
<1>1. x \in Watcher /\ x.at = p
    BY DEF Watcher
<1>2. w' = [w EXCEPT ![l] = x]
    OBVIOUS
<1>3. QED
    BY <1>1, <1>2, Becomes

(* It has taken a document.                                                *)
LEMMA Took ==
    ASSUME w \in [Layer -> Watcher], NEW l \in Layer, NEW d \in Doc,
           w' = [w EXCEPT ![l] = [@ EXCEPT !.at = "lock", !.got = d]]
    PROVE  /\ w' \in [Layer -> Watcher] /\ \A k \in Layer : k # l => w'[k] = w[k]
           /\ w'[l].at = "lock" /\ w'[l].got = d
<1> DEFINE x == [w[l] EXCEPT !.at = "lock", !.got = d]
<1>1. w[l] \in Watcher
    OBVIOUS
<1>2. x \in Watcher /\ x.at = "lock" /\ x.got = d
    BY <1>1 DEF Watcher
<1>3. w' = [w EXCEPT ![l] = x]
    OBVIOUS
<1>4. QED
    BY <1>2, <1>3, Becomes

(* It has merged and is about to call back.                                *)
LEMMA Called ==
    ASSUME w \in [Layer -> Watcher], NEW l \in Layer, NEW v \in Value \cup {Absent},
           w' = [w EXCEPT ![l] = [@ EXCEPT !.at = "call", !.got = None, !.snap = v]]
    PROVE  /\ w' \in [Layer -> Watcher] /\ \A k \in Layer : k # l => w'[k] = w[k]
           /\ w'[l].at = "call" /\ w'[l].snap = v
<1> DEFINE x == [w[l] EXCEPT !.at = "call", !.got = None, !.snap = v]
<1>1. w[l] \in Watcher
    OBVIOUS
<1>2. x \in Watcher /\ x.at = "call" /\ x.snap = v
    BY <1>1 DEF Watcher
<1>3. w' = [w EXCEPT ![l] = x]
    OBVIOUS
<1>4. QED
    BY <1>2, <1>3, Becomes

(* It has called back and is about to tell the key watchers.               *)
LEMMA Dispatches ==
    ASSUME w \in [Layer -> Watcher], NEW l \in Layer,
           w' = [w EXCEPT ![l] = [@ EXCEPT !.at = "dispatch", !.snap = None]]
    PROVE  /\ w' \in [Layer -> Watcher] /\ \A k \in Layer : k # l => w'[k] = w[k]
           /\ w'[l].at = "dispatch"
<1> DEFINE x == [w[l] EXCEPT !.at = "dispatch", !.snap = None]
<1>1. w[l] \in Watcher
    OBVIOUS
<1>2. x \in Watcher /\ x.at = "dispatch"
    BY <1>1 DEF Watcher
<1>3. w' = [w EXCEPT ![l] = x]
    OBVIOUS
<1>4. QED
    BY <1>2, <1>3, Becomes

(* The types in three parts: the sources, the goroutines, the rest.        *)
SourcesTyped ==
    /\ doc \in [Layer -> Doc]
    /\ stream \in [Layer -> {"off", "up", "down"}]
    /\ events \in [Layer -> [Feed -> Seq(Doc)]]
    /\ held \in [Layer -> [Feed -> Doc \cup {None}]]
    /\ chan \in [Layer -> Seq(Doc)]
    /\ gap \in [Layer -> {None, "start", "outage", "read"}]

WatchersTyped ==
    /\ w \in [Layer -> Watcher]
    /\ notify \in Layer \cup {Nobody}
    /\ \A l \in Layer : w[l].at \in {"call", "dispatch"} <=> notify = l

StoreTyped ==
    /\ at \in {"load", "merge", "watch", "loaded", "assigned", "armed",
               "unwind", "failed", "closing", "closed"}
    /\ next \in 1..(Len(Layers) + 1)
    /\ cache \in [Layer -> Value \cup {Absent}]
    /\ {merged, published, last} \subseteq Value \cup {Absent, None}
    /\ cancelled \in BOOLEAN /\ armed \in BOOLEAN
    /\ edits \in 0..MaxEdits /\ faults \in 0..MaxFaults

(* The three parts are the type invariant.                                 *)
LEMMA TypeParts == TypeOK <=> SourcesTyped /\ WatchersTyped /\ StoreTyped
    BY DEF TypeOK, SourcesTyped, WatchersTyped, StoreTyped

(* The queue of one sub-source changes.                                    *)
LEMMA Queued ==
    ASSUME SourcesTyped, NEW l \in Layer, NEW f \in Feed, NEW q \in Seq(Doc)
    PROVE  [events EXCEPT ![l][f] = q] \in [Layer -> [Feed -> Seq(Doc)]]
    BY DEF SourcesTyped

(* A watch that begins.                                                    *)
LEMMA Opened ==
    ASSUME SourcesTyped, NEW l \in Layer, Opens(l)
    PROVE  SourcesTyped'
<1>1. CASE UNCHANGED events
    BY <1>1 DEF Opens, SourcesTyped
<1>2. ASSUME NEW f \in Feed, events' = [events EXCEPT ![l][f] = <<doc[l]>>]
      PROVE  SourcesTyped'
  <2>1. <<doc[l]>> \in Seq(Doc)
      BY DEF SourcesTyped
  <2>2. events' \in [Layer -> [Feed -> Seq(Doc)]]
      BY <1>2, <2>1, Queued DEF SourcesTyped
  <2>3. QED
      BY <2>2 DEF Opens, SourcesTyped
<1>3. QED
    BY <1>1, <1>2 DEF Opens

(* What apply makes of a document.                                         *)
LEMMA AppliedTyped ==
    ASSUME StoreInv, NEW l \in Layer, Apply(l)
    PROVE  /\ cache' \in [Layer -> Value \cup {Absent}]
           /\ merged' \in Value \cup {Absent} /\ merged' = Merge(cache')
<1>1. w[l].got \in Doc /\ cache \in [Layer -> Value \cup {Absent}]
    BY TypeParts DEF StoreInv, Goroutines, StoreTyped, Apply
<1>2. cache' \in [Layer -> Value \cup {Absent}]
    BY <1>1 DEF Apply, Doc
<1>3. QED
    BY <1>2, MergeTyped DEF Apply

(* A step of a source keeps the types of the sources.                      *)
LEMMA StepSources ==
    ASSUME StoreInv, [Next]_vars
    PROVE  SourcesTyped'
<1>0. SourcesTyped
    BY TypeParts DEF StoreInv
<1> USE <1>0 DEF SourcesTyped, sourceVars
<1>1. CASE LoadLayer
    BY <1>1 DEF LoadLayer
<1>2. CASE LoadLayerFails
    BY <1>2 DEF LoadLayerFails
<1>3. CASE FirstMerge
    BY <1>3 DEF FirstMerge
<1>4. CASE WatchLayer
  <2>1. Layers[next] \in Layer
      BY <1>4, LayerList, TypeParts DEF WatchLayer, StoreInv, Goroutines, StoreTyped
  <2>2. QED
      BY <1>4, <2>1, Opened DEF WatchLayer
<1>5. CASE WatchLayerFails
    BY <1>5 DEF WatchLayerFails
<1>6. CASE Unwound
    BY <1>6 DEF Unwound
<1>7. CASE AssignStore
    BY <1>7 DEF AssignStore
<1>8. CASE Arm
    BY <1>8 DEF Arm
<1>9. CASE Close
    BY <1>9 DEF Close
<1>10. CASE Closed
    BY <1>10 DEF Closed
<1>11. ASSUME NEW l \in Layer, Receive(l)
      PROVE  SourcesTyped'
    BY <1>11 DEF Receive
<1>12. ASSUME NEW l \in Layer, Quit(l)
      PROVE  SourcesTyped'
    BY <1>12 DEF Quit
<1>13. ASSUME NEW l \in Layer, SeesEnd(l)
      PROVE  SourcesTyped'
    BY <1>13 DEF SeesEnd
<1>14. ASSUME NEW l \in Layer, Rewatch(l)
      PROVE  SourcesTyped'
    BY <1>14, Opened DEF Rewatch
<1>15. ASSUME NEW l \in Layer, RewatchFails(l)
      PROVE  SourcesTyped'
    BY <1>15 DEF RewatchFails
<1>16. ASSUME NEW l \in Layer, Reload(l)
      PROVE  SourcesTyped'
    BY <1>16 DEF Reload
<1>17. ASSUME NEW l \in Layer, ReloadFails(l)
      PROVE  SourcesTyped'
    BY <1>17 DEF ReloadFails
<1>18. ASSUME NEW l \in Layer, Apply(l)
      PROVE  SourcesTyped'
    BY <1>18 DEF Apply
<1>19. ASSUME NEW l \in Layer, CallBack(l)
      PROVE  SourcesTyped'
    BY <1>19 DEF CallBack
<1>20. ASSUME NEW l \in Layer, Dispatch(l)
      PROVE  SourcesTyped'
    BY <1>20 DEF Dispatch
<1>21. ASSUME NEW l \in Layer, Breaks(l)
      PROVE  SourcesTyped'
    BY <1>21 DEF Breaks
<1>22. ASSUME NEW l \in Layer, NEW f \in Feed, Notified(l, f)
      PROVE  SourcesTyped'
    BY <1>22 DEF Notified
<1>23. ASSUME NEW l \in Layer, NEW f \in Feed, Sends(l, f)
      PROVE  SourcesTyped'
    BY <1>23 DEF Sends
<1>24. ASSUME NEW l \in Layer, NEW f \in Feed, ReadFails(l, f)
      PROVE  SourcesTyped'
    BY <1>24 DEF ReadFails
<1>25. ASSUME NEW l \in Layer, NEW f \in Feed, NEW d \in Doc, Edit(l, f, d)
      PROVE  SourcesTyped'
  <2>1. Append(events[l][f], d) \in Seq(Doc)
      OBVIOUS
  <2>2. doc' \in [Layer -> Doc] /\ UNCHANGED <<stream, held, chan>>
      BY <1>25 DEF Edit
  <2>3. events' \in [Layer -> [Feed -> Seq(Doc)]]
    <3>1. events' = events \/ events' = [events EXCEPT ![l][f] = Append(events[l][f], d)]
        BY <1>25 DEF Edit
    <3>2. [events EXCEPT ![l][f] = Append(events[l][f], d)] \in [Layer -> [Feed -> Seq(Doc)]]
        BY <2>1, Queued
    <3>3. QED
        BY <3>1, <3>2
  <2>4. gap' \in [Layer -> {None, "start", "outage", "read"}]
      BY <1>25 DEF Edit
  <2>5. QED
      BY <2>2, <2>3, <2>4
<1>26. CASE UNCHANGED vars
    BY <1>26 DEF vars, sourceVars, storeVars
<1>27. QED
    BY <1>1, <1>2, <1>3, <1>4, <1>5, <1>6, <1>7, <1>8, <1>9, <1>10, <1>11, <1>12, <1>13,
       <1>14, <1>15, <1>16, <1>17, <1>18, <1>19, <1>20, <1>21, <1>22, <1>23, <1>24, <1>25, <1>26
    DEF Next, LoadStep, WatcherStep, SourceStep, Terminated

(* Where each step of a goroutine takes it.                                *)
Turns(l, place) ==
    /\ w' \in [Layer -> Watcher]
    /\ w'[l].at = place
    /\ \A k \in Layer : k # l => w'[k] = w[k]

(* Every step of a goroutine is a turn of that goroutine alone, to the     *)
(* place the code goes on at, and what it carries is what it has read.     *)
LEMMA Turning ==
    ASSUME StoreInv, NEW l \in Layer
    PROVE  /\ Receive(l) => Turns(l, "lock") /\ w'[l].got = chan[l][1]
           /\ Quit(l) => Turns(l, "ended")
           /\ SeesEnd(l) => Turns(l, "backoff")
           /\ Rewatch(l) => Turns(l, "reload")
           /\ RewatchFails(l) => Turns(l, "wait")
           /\ Reload(l) => Turns(l, "lock") /\ w'[l].got = doc[l]
           /\ ReloadFails(l) => Turns(l, "wait")
           /\ Apply(l) => Turns(l, "call") /\ w'[l].snap = merged'
           /\ CallBack(l) => Turns(l, "dispatch")
           /\ Dispatch(l) => Turns(l, "wait")
<1>0. w \in [Layer -> Watcher]
    BY TypeParts DEF StoreInv, WatchersTyped
<1>1. ASSUME Receive(l)
      PROVE  Turns(l, "lock") /\ w'[l].got = chan[l][1]
  <2>1. chan[l][1] \in Doc
      BY <1>1, TypeParts DEF StoreInv, SourcesTyped, Receive
  <2>2. QED
      BY <1>0, <1>1, <2>1, Took DEF Receive, Turns
<1>2. ASSUME Quit(l)
      PROVE  Turns(l, "ended")
    BY <1>0, <1>2, Went DEF Quit, Goes, Turns
<1>3. ASSUME SeesEnd(l)
      PROVE  Turns(l, "backoff")
    BY <1>0, <1>3, Went DEF SeesEnd, Goes, Turns
<1>4. ASSUME Rewatch(l)
      PROVE  Turns(l, "reload")
    BY <1>0, <1>4, Went DEF Rewatch, Goes, Turns
<1>5. ASSUME RewatchFails(l)
      PROVE  Turns(l, "wait")
    BY <1>0, <1>5, Went DEF RewatchFails, Goes, Turns
<1>6. ASSUME Reload(l)
      PROVE  Turns(l, "lock") /\ w'[l].got = doc[l]
  <2>1. doc[l] \in Doc
      BY TypeParts DEF StoreInv, SourcesTyped
  <2>2. QED
      BY <1>0, <1>6, <2>1, Took DEF Reload, Turns
<1>7. ASSUME ReloadFails(l)
      PROVE  Turns(l, "wait")
    BY <1>0, <1>7, Went DEF ReloadFails, Goes, Turns
<1>8. ASSUME Apply(l)
      PROVE  Turns(l, "call") /\ w'[l].snap = merged'
    BY <1>0, <1>8, AppliedTyped, Called DEF Apply, Turns
<1>9. ASSUME CallBack(l)
      PROVE  Turns(l, "dispatch")
    BY <1>0, <1>9, Dispatches DEF CallBack, Turns
<1>10. ASSUME Dispatch(l)
      PROVE  Turns(l, "wait")
    BY <1>0, <1>10, Went DEF Dispatch, Goes, Turns
<1>11. QED
    BY <1>1, <1>2, <1>3, <1>4, <1>5, <1>6, <1>7, <1>8, <1>9, <1>10

(* setupWatch starts a goroutine that was not there.                       *)
LEMMA TurningOn ==
    ASSUME StoreInv, WatchLayer
    PROVE  /\ Layers[next] \in Layer /\ In(Layers[next], "off")
           /\ Turns(Layers[next], "wait")
<1>1. w \in [Layer -> Watcher]
    BY TypeParts DEF StoreInv, WatchersTyped
<1>2. Layers[next] \in Layer /\ In(Layers[next], "off")
    BY LayerList, TypeParts DEF WatchLayer, StoreInv, Goroutines, StoreTyped
<1>3. QED
    BY <1>1, <1>2, Went DEF WatchLayer, Turns

(* notifyMu and its holder change together.                                *)
LEMMA HolderKept ==
    ASSUME WatchersTyped, NEW l \in Layer, NEW p, Turns(l, p),
           p \in {"call", "dispatch"} <=> notify' = l,
           \/ notify' = notify
           \/ notify = Nobody /\ notify' = l
           \/ notify = l /\ notify' = Nobody
    PROVE  WatchersTyped'
    BY ConfigAssumption DEF WatchersTyped, Turns

(* A step keeps the types of the goroutines and the holder of notifyMu.    *)
LEMMA StepWatchers ==
    ASSUME StoreInv, [Next]_vars
    PROVE  WatchersTyped'
<1>0. WatchersTyped
    BY TypeParts DEF StoreInv
<1> USE <1>0 DEF storeVars
<1>1. CASE LoadLayer
    BY <1>1 DEF LoadLayer, WatchersTyped
<1>2. CASE LoadLayerFails
    BY <1>2 DEF LoadLayerFails, WatchersTyped
<1>3. CASE FirstMerge
    BY <1>3 DEF FirstMerge, WatchersTyped
<1>4. CASE WatchLayer
  <2>1. w[Layers[next]].at = "off" /\ UNCHANGED notify
      BY <1>4, TurningOn DEF WatchLayer, In
  <2>2. QED
      BY <1>4, <2>1, TurningOn, HolderKept DEF WatchersTyped
<1>5. CASE WatchLayerFails
    BY <1>5 DEF WatchLayerFails, WatchersTyped
<1>6. CASE Unwound
    BY <1>6 DEF Unwound, WatchersTyped
<1>7. CASE AssignStore
    BY <1>7 DEF AssignStore, WatchersTyped
<1>8. CASE Arm
    BY <1>8 DEF Arm, WatchersTyped
<1>9. CASE Close
    BY <1>9 DEF Close, WatchersTyped
<1>10. CASE Closed
    BY <1>10 DEF Closed, WatchersTyped
<1>11. ASSUME NEW l \in Layer, Receive(l)
      PROVE  WatchersTyped'
  <2>1. w[l].at = "wait"
      BY <1>11 DEF Receive, In
  <2>2. QED
      BY <1>11, <2>1, Turning, HolderKept DEF Receive, WatchersTyped
<1>12. ASSUME NEW l \in Layer, Quit(l)
      PROVE  WatchersTyped'
  <2>1. w[l].at \in {"wait", "backoff"}
      BY <1>12 DEF Quit, In
  <2>2. QED
      BY <1>12, <2>1, Turning, HolderKept DEF Quit, WatchersTyped
<1>13. ASSUME NEW l \in Layer, SeesEnd(l)
      PROVE  WatchersTyped'
  <2>1. w[l].at = "wait"
      BY <1>13 DEF SeesEnd, In
  <2>2. QED
      BY <1>13, <2>1, Turning, HolderKept DEF SeesEnd, WatchersTyped
<1>14. ASSUME NEW l \in Layer, Rewatch(l)
      PROVE  WatchersTyped'
  <2>1. w[l].at = "backoff"
      BY <1>14 DEF Rewatch, In
  <2>2. QED
      BY <1>14, <2>1, Turning, HolderKept DEF Rewatch, WatchersTyped
<1>15. ASSUME NEW l \in Layer, RewatchFails(l)
      PROVE  WatchersTyped'
  <2>1. w[l].at = "backoff"
      BY <1>15 DEF RewatchFails, In
  <2>2. QED
      BY <1>15, <2>1, Turning, HolderKept DEF RewatchFails, WatchersTyped
<1>16. ASSUME NEW l \in Layer, Reload(l)
      PROVE  WatchersTyped'
  <2>1. w[l].at = "reload"
      BY <1>16 DEF Reload, In
  <2>2. QED
      BY <1>16, <2>1, Turning, HolderKept DEF Reload, WatchersTyped
<1>17. ASSUME NEW l \in Layer, ReloadFails(l)
      PROVE  WatchersTyped'
  <2>1. w[l].at = "reload"
      BY <1>17 DEF ReloadFails, In
  <2>2. QED
      BY <1>17, <2>1, Turning, HolderKept DEF ReloadFails, WatchersTyped
<1>18. ASSUME NEW l \in Layer, Apply(l)
      PROVE  WatchersTyped'
  <2>1. w[l].at = "lock" /\ notify = Nobody /\ notify' = l
      BY <1>18 DEF Apply, In
  <2>2. QED
      BY <1>18, <2>1, Turning, HolderKept DEF Apply, WatchersTyped
<1>19. ASSUME NEW l \in Layer, CallBack(l)
      PROVE  WatchersTyped'
  <2>1. w[l].at = "call"
      BY <1>19 DEF CallBack, In
  <2>2. QED
      BY <1>19, <2>1, Turning, HolderKept DEF CallBack, WatchersTyped
<1>20. ASSUME NEW l \in Layer, Dispatch(l)
      PROVE  WatchersTyped'
  <2>1. w[l].at = "dispatch" /\ notify' = Nobody
      BY <1>20 DEF Dispatch, In
  <2>2. QED
      BY <1>20, <2>1, Turning, HolderKept, ConfigAssumption
         DEF Dispatch, WatchersTyped
<1>21. ASSUME NEW l \in Layer, Breaks(l)
      PROVE  WatchersTyped'
    BY <1>21 DEF Breaks, WatchersTyped
<1>22. ASSUME NEW l \in Layer, NEW f \in Feed, Notified(l, f)
      PROVE  WatchersTyped'
    BY <1>22 DEF Notified, WatchersTyped
<1>23. ASSUME NEW l \in Layer, NEW f \in Feed, Sends(l, f)
      PROVE  WatchersTyped'
    BY <1>23 DEF Sends, WatchersTyped
<1>24. ASSUME NEW l \in Layer, NEW f \in Feed, ReadFails(l, f)
      PROVE  WatchersTyped'
    BY <1>24 DEF ReadFails, WatchersTyped
<1>25. ASSUME NEW l \in Layer, NEW f \in Feed, NEW d \in Doc, Edit(l, f, d)
      PROVE  WatchersTyped'
    BY <1>25 DEF Edit, WatchersTyped
<1>26. CASE UNCHANGED vars
    BY <1>26 DEF vars, sourceVars, storeVars, WatchersTyped
<1>27. QED
    BY <1>1, <1>2, <1>3, <1>4, <1>5, <1>6, <1>7, <1>8, <1>9, <1>10, <1>11, <1>12, <1>13,
       <1>14, <1>15, <1>16, <1>17, <1>18, <1>19, <1>20, <1>21, <1>22, <1>23, <1>24, <1>25, <1>26
    DEF Next, LoadStep, WatcherStep, SourceStep, Terminated

(* A step keeps the types of the store.                                    *)
LEMMA StepStore ==
    ASSUME StoreInv, [Next]_vars
    PROVE  StoreTyped'
<1>0. StoreTyped
    BY TypeParts DEF StoreInv
<1> USE <1>0, ConfigAssumption DEF StoreTyped, storeVars
<1>1. CASE LoadLayer
  <2>1. next \in 1..Len(Layers) /\ doc[Layers[next]] \in Value \cup {Absent}
      BY <1>1, LayerList, TypeParts
         DEF LoadLayer, StoreInv, Goroutines, SourcesTyped, Doc
  <2>2. cache' \in [Layer -> Value \cup {Absent}]
      BY <1>1, <2>1 DEF LoadLayer
  <2>3. QED
      BY <1>1, <2>1, <2>2, LayerList DEF LoadLayer
<1>2. CASE LoadLayerFails
    BY <1>2 DEF LoadLayerFails
<1>3. CASE FirstMerge
    BY <1>3, MergeTyped, LayerList DEF FirstMerge
<1>4. CASE WatchLayer
    BY <1>4, LayerList DEF WatchLayer, StoreInv, Goroutines
<1>5. CASE WatchLayerFails
    BY <1>5 DEF WatchLayerFails
<1>6. CASE Unwound
    BY <1>6 DEF Unwound
<1>7. CASE AssignStore
    BY <1>7 DEF AssignStore
<1>8. CASE Arm
    BY <1>8 DEF Arm
<1>9. CASE Close
    BY <1>9 DEF Close
<1>10. CASE Closed
    BY <1>10 DEF Closed
<1>11. ASSUME NEW l \in Layer, Receive(l)
      PROVE  StoreTyped'
    BY <1>11 DEF Receive
<1>12. ASSUME NEW l \in Layer, Quit(l)
      PROVE  StoreTyped'
    BY <1>12 DEF Quit
<1>13. ASSUME NEW l \in Layer, SeesEnd(l)
      PROVE  StoreTyped'
    BY <1>13 DEF SeesEnd
<1>14. ASSUME NEW l \in Layer, Rewatch(l)
      PROVE  StoreTyped'
    BY <1>14 DEF Rewatch
<1>15. ASSUME NEW l \in Layer, RewatchFails(l)
      PROVE  StoreTyped'
    BY <1>15 DEF RewatchFails
<1>16. ASSUME NEW l \in Layer, Reload(l)
      PROVE  StoreTyped'
    BY <1>16 DEF Reload
<1>17. ASSUME NEW l \in Layer, ReloadFails(l)
      PROVE  StoreTyped'
    BY <1>17 DEF ReloadFails
<1>18. ASSUME NEW l \in Layer, Apply(l)
      PROVE  StoreTyped'
    BY <1>18, AppliedTyped DEF Apply
<1>19. ASSUME NEW l \in Layer, CallBack(l)
      PROVE  StoreTyped'
  <2>1. w[l].snap \in Value \cup {Absent, None}
      BY TypeParts DEF StoreInv, WatchersTyped, Watcher
  <2>2. QED
      BY <1>19, <2>1 DEF CallBack
<1>20. ASSUME NEW l \in Layer, Dispatch(l)
      PROVE  StoreTyped'
    BY <1>20 DEF Dispatch
<1>21. ASSUME NEW l \in Layer, Breaks(l)
      PROVE  StoreTyped'
    BY <1>21 DEF Breaks
<1>22. ASSUME NEW l \in Layer, NEW f \in Feed, Notified(l, f)
      PROVE  StoreTyped'
    BY <1>22 DEF Notified
<1>23. ASSUME NEW l \in Layer, NEW f \in Feed, Sends(l, f)
      PROVE  StoreTyped'
    BY <1>23 DEF Sends
<1>24. ASSUME NEW l \in Layer, NEW f \in Feed, ReadFails(l, f)
      PROVE  StoreTyped'
    BY <1>24 DEF ReadFails
<1>25. ASSUME NEW l \in Layer, NEW f \in Feed, NEW d \in Doc, Edit(l, f, d)
      PROVE  StoreTyped'
    BY <1>25 DEF Edit
<1>26. CASE UNCHANGED vars
    BY <1>26 DEF vars, sourceVars, storeVars
<1>27. QED
    BY <1>1, <1>2, <1>3, <1>4, <1>5, <1>6, <1>7, <1>8, <1>9, <1>10, <1>11, <1>12, <1>13,
       <1>14, <1>15, <1>16, <1>17, <1>18, <1>19, <1>20, <1>21, <1>22, <1>23, <1>24, <1>25, <1>26
    DEF Next, LoadStep, WatcherStep, SourceStep, Terminated

(* The place of one goroutine changes.                                     *)
LEMMA GoroutinesKept ==
    ASSUME StoreInv, NEW l \in Layer, NEW p, Turns(l, p), UNCHANGED <<at, next>>,
           w[l].at \notin {"off", "ended"}, p # "off",
           p = "lock" => w'[l].got \in Doc
    PROVE  Goroutines'
<1> USE DEF StoreInv, Goroutines, Turns, AllEnded, In, Loading
<1>1. ~Loading /\ at \notin {"failed", "closed"}
    OBVIOUS
<1>2. ASSUME at = "watch", NEW i \in next..Len(Layers)
      PROVE  w'[Layers[i]].at = "off"
  <2>1. i \in 1..Len(Layers)
      BY LayerList DEF TypeOK
  <2>2. Layers[i] \in Layer /\ w[Layers[i]].at = "off"
      BY <1>2, <2>1, LayerList
  <2>3. QED
      BY <2>2
<1>3. ASSUME NEW k \in Layer, w'[k].at = "lock"
      PROVE  w'[k].got \in Doc
    BY <1>3
<1>4. QED
    BY <1>1, <1>2, <1>3

(* A step keeps the life of the goroutines.                                *)
LEMMA StepGoroutines ==
    ASSUME StoreInv, [Next]_vars
    PROVE  Goroutines'
<1>0. TypeOK /\ Goroutines
    BY DEF StoreInv
<1> USE <1>0 DEF Goroutines, AllEnded, In, Loading, storeVars
<1>1. CASE LoadLayer
    BY <1>1, LayerList DEF LoadLayer, TypeOK
<1>2. CASE LoadLayerFails
    BY <1>2 DEF LoadLayerFails
<1>3. CASE FirstMerge
    BY <1>3, LayerList DEF FirstMerge, TypeOK
<1>4. CASE WatchLayer
  <2>1. Turns(Layers[next], "wait") /\ Layers[next] \in Layer
      BY <1>4, TurningOn
  <2>2. next' = next + 1 /\ next \in 1..Len(Layers)
      BY <1>4, LayerList DEF WatchLayer, TypeOK
  <2>3. ASSUME at' = "watch"
        PROVE  next' <= Len(Layers)
      BY <1>4, <2>2, <2>3, LayerList DEF WatchLayer
  <2>4. ASSUME at' = "watch", NEW i \in next'..Len(Layers)
        PROVE  w'[Layers[i]].at = "off"
    <3>1. i \in next..Len(Layers) /\ i # next /\ i \in 1..Len(Layers)
        BY <2>2, LayerList
    <3>2. Layers[i] \in Layer /\ Layers[i] # Layers[next] /\ w[Layers[i]].at = "off"
        BY <1>4, <2>2, <3>1, LayerList DEF WatchLayer
    <3>3. QED
        BY <2>1, <3>2 DEF Turns
  <2>5. at' \in {"watch", "loaded"}
      BY <1>4 DEF WatchLayer
  <2>6. \A l \in Layer : w'[l].at = "lock" => w'[l].got \in Doc
      BY <2>1 DEF Turns
  <2>7. QED
      BY <2>3, <2>4, <2>5, <2>6
<1>5. CASE WatchLayerFails
    BY <1>5 DEF WatchLayerFails
<1>6. CASE Unwound
    BY <1>6 DEF Unwound
<1>7. CASE AssignStore
    BY <1>7 DEF AssignStore
<1>8. CASE Arm
    BY <1>8 DEF Arm
<1>9. CASE Close
    BY <1>9 DEF Close
<1>10. CASE Closed
    BY <1>10 DEF Closed
<1>11. ASSUME NEW l \in Layer, Receive(l)
      PROVE  Goroutines'
  <2>1. w[l].at \notin {"off", "ended"} /\ chan[l][1] \in Doc
      BY <1>11, <1>0 DEF Receive, In, TypeOK
  <2>2. QED
      BY <1>11, <2>1, Turning, GoroutinesKept DEF Receive
<1>12. ASSUME NEW l \in Layer, Quit(l)
      PROVE  Goroutines'
  <2>1. w[l].at \notin {"off", "ended"}
      BY <1>12 DEF Quit, In
  <2>2. QED
      BY <1>12, <2>1, Turning, GoroutinesKept DEF Quit
<1>13. ASSUME NEW l \in Layer, SeesEnd(l)
      PROVE  Goroutines'
  <2>1. w[l].at \notin {"off", "ended"}
      BY <1>13 DEF SeesEnd, In
  <2>2. QED
      BY <1>13, <2>1, Turning, GoroutinesKept DEF SeesEnd
<1>14. ASSUME NEW l \in Layer, Rewatch(l)
      PROVE  Goroutines'
  <2>1. w[l].at \notin {"off", "ended"}
      BY <1>14 DEF Rewatch, In
  <2>2. QED
      BY <1>14, <2>1, Turning, GoroutinesKept DEF Rewatch
<1>15. ASSUME NEW l \in Layer, RewatchFails(l)
      PROVE  Goroutines'
  <2>1. w[l].at \notin {"off", "ended"}
      BY <1>15 DEF RewatchFails, In
  <2>2. QED
      BY <1>15, <2>1, Turning, GoroutinesKept DEF RewatchFails
<1>16. ASSUME NEW l \in Layer, Reload(l)
      PROVE  Goroutines'
  <2>1. w[l].at \notin {"off", "ended"} /\ doc[l] \in Doc
      BY <1>16, <1>0 DEF Reload, In, TypeOK
  <2>2. QED
      BY <1>16, <2>1, Turning, GoroutinesKept DEF Reload
<1>17. ASSUME NEW l \in Layer, ReloadFails(l)
      PROVE  Goroutines'
  <2>1. w[l].at \notin {"off", "ended"}
      BY <1>17 DEF ReloadFails, In
  <2>2. QED
      BY <1>17, <2>1, Turning, GoroutinesKept DEF ReloadFails
<1>18. ASSUME NEW l \in Layer, Apply(l)
      PROVE  Goroutines'
  <2>1. w[l].at \notin {"off", "ended"}
      BY <1>18 DEF Apply, In
  <2>2. QED
      BY <1>18, <2>1, Turning, GoroutinesKept DEF Apply
<1>19. ASSUME NEW l \in Layer, CallBack(l)
      PROVE  Goroutines'
  <2>1. w[l].at \notin {"off", "ended"}
      BY <1>19 DEF CallBack, In
  <2>2. QED
      BY <1>19, <2>1, Turning, GoroutinesKept DEF CallBack
<1>20. ASSUME NEW l \in Layer, Dispatch(l)
      PROVE  Goroutines'
  <2>1. w[l].at \notin {"off", "ended"}
      BY <1>20 DEF Dispatch, In
  <2>2. QED
      BY <1>20, <2>1, Turning, GoroutinesKept DEF Dispatch
<1>21. ASSUME NEW l \in Layer, Breaks(l)
      PROVE  Goroutines'
    BY <1>21 DEF Breaks
<1>22. ASSUME NEW l \in Layer, NEW f \in Feed, Notified(l, f)
      PROVE  Goroutines'
    BY <1>22 DEF Notified
<1>23. ASSUME NEW l \in Layer, NEW f \in Feed, Sends(l, f)
      PROVE  Goroutines'
    BY <1>23 DEF Sends
<1>24. ASSUME NEW l \in Layer, NEW f \in Feed, ReadFails(l, f)
      PROVE  Goroutines'
    BY <1>24 DEF ReadFails
<1>25. ASSUME NEW l \in Layer, NEW f \in Feed, NEW d \in Doc, Edit(l, f, d)
      PROVE  Goroutines'
    BY <1>25 DEF Edit
<1>26. CASE UNCHANGED vars
    BY <1>26 DEF vars, sourceVars, storeVars
<1>27. QED
    BY <1>1, <1>2, <1>3, <1>4, <1>5, <1>6, <1>7, <1>8, <1>9, <1>10, <1>11, <1>12, <1>13,
       <1>14, <1>15, <1>16, <1>17, <1>18, <1>19, <1>20, <1>21, <1>22, <1>23, <1>24, <1>25, <1>26
    DEF Next, LoadStep, WatcherStep, SourceStep, Terminated

(* A step that announces nothing.                                          *)
LEMMA AnnouncedKept ==
    ASSUME StoreInv, NEW l \in Layer, NEW p, Turns(l, p), UNCHANGED <<at, storeVars>>,
           p \notin {"call", "dispatch"}
    PROVE  Announced'
    BY DEF StoreInv, Announced, Turns, In, Loading, storeVars, Merge

(* A step keeps what has been announced.                                   *)
LEMMA StepAnnounced ==
    ASSUME StoreInv, [Next]_vars
    PROVE  Announced'
<1>0. TypeOK /\ Goroutines /\ Announced /\ Nobody \notin Layer
    BY ConfigAssumption DEF StoreInv
<1> USE <1>0 DEF Announced, In, Loading, storeVars
<1>1. CASE LoadLayer
    BY <1>1 DEF LoadLayer
<1>2. CASE LoadLayerFails
    BY <1>2 DEF LoadLayerFails
<1>3. CASE FirstMerge
    BY <1>3 DEF FirstMerge, Merge, Goroutines, TypeOK
<1>4. CASE WatchLayer
    BY <1>4, TurningOn, AnnouncedKept DEF WatchLayer, Turns
<1>5. CASE WatchLayerFails
    BY <1>5 DEF WatchLayerFails
<1>6. CASE Unwound
    BY <1>6 DEF Unwound
<1>7. CASE AssignStore
    BY <1>7 DEF AssignStore
<1>8. CASE Arm
    BY <1>8 DEF Arm
<1>9. CASE Close
    BY <1>9 DEF Close
<1>10. CASE Closed
    BY <1>10 DEF Closed
<1>11. ASSUME NEW l \in Layer, Receive(l)
      PROVE  Announced'
    BY <1>11, Turning, AnnouncedKept DEF Receive
<1>12. ASSUME NEW l \in Layer, Quit(l)
      PROVE  Announced'
    BY <1>12, Turning, AnnouncedKept DEF Quit
<1>13. ASSUME NEW l \in Layer, SeesEnd(l)
      PROVE  Announced'
    BY <1>13, Turning, AnnouncedKept DEF SeesEnd
<1>14. ASSUME NEW l \in Layer, Rewatch(l)
      PROVE  Announced'
    BY <1>14, Turning, AnnouncedKept DEF Rewatch
<1>15. ASSUME NEW l \in Layer, RewatchFails(l)
      PROVE  Announced'
    BY <1>15, Turning, AnnouncedKept DEF RewatchFails
<1>16. ASSUME NEW l \in Layer, Reload(l)
      PROVE  Announced'
    BY <1>16, Turning, AnnouncedKept DEF Reload
<1>17. ASSUME NEW l \in Layer, ReloadFails(l)
      PROVE  Announced'
    BY <1>17, Turning, AnnouncedKept DEF ReloadFails
<1>18. ASSUME NEW l \in Layer, Apply(l)
      PROVE  Announced'
  <2>1. merged' = Merge(cache') /\ notify' = l /\ notify = Nobody /\ ~Loading' /\ ~Loading
      BY <1>18 DEF Apply, Goroutines
  <2>2. Turns(l, "call") /\ w'[l].snap = merged'
      BY <1>18, Turning
  <2>3. \A k \in Layer : k # l => w'[k].at \notin {"call", "dispatch"}
      BY <2>1, <2>2 DEF Turns, TypeOK
  <2>4. QED
      BY <2>1, <2>2, <2>3 DEF Turns
<1>19. ASSUME NEW l \in Layer, CallBack(l)
      PROVE  Announced'
  <2>1. notify' = l /\ notify = l /\ published' = merged /\ ~Loading'
      BY <1>19 DEF CallBack, Goroutines, TypeOK
  <2>2. Turns(l, "dispatch")
      BY <1>19, Turning
  <2>3. \A k \in Layer : k # l => w'[k].at \notin {"call", "dispatch"}
      BY <2>1, <2>2 DEF Turns, TypeOK
  <2>4. QED
      BY <1>19, <2>1, <2>2, <2>3 DEF Turns, CallBack, Merge
<1>20. ASSUME NEW l \in Layer, Dispatch(l)
      PROVE  Announced'
  <2>1. notify = l /\ published = merged /\ ~Loading'
      BY <1>20 DEF Dispatch, Goroutines, TypeOK
  <2>2. Turns(l, "wait")
      BY <1>20, Turning
  <2>3. \A k \in Layer : w'[k].at \notin {"call", "dispatch"}
      BY <2>1, <2>2 DEF Turns, TypeOK
  <2>4. QED
      BY <1>20, <2>1, <2>3 DEF Dispatch, Merge
<1>21. ASSUME NEW l \in Layer, Breaks(l)
      PROVE  Announced'
    BY <1>21 DEF Breaks
<1>22. ASSUME NEW l \in Layer, NEW f \in Feed, Notified(l, f)
      PROVE  Announced'
    BY <1>22 DEF Notified
<1>23. ASSUME NEW l \in Layer, NEW f \in Feed, Sends(l, f)
      PROVE  Announced'
    BY <1>23 DEF Sends
<1>24. ASSUME NEW l \in Layer, NEW f \in Feed, ReadFails(l, f)
      PROVE  Announced'
    BY <1>24 DEF ReadFails
<1>25. ASSUME NEW l \in Layer, NEW f \in Feed, NEW d \in Doc, Edit(l, f, d)
      PROVE  Announced'
    BY <1>25 DEF Edit
<1>26. CASE UNCHANGED vars
    BY <1>26 DEF vars, sourceVars, storeVars
<1>27. QED
    BY <1>1, <1>2, <1>3, <1>4, <1>5, <1>6, <1>7, <1>8, <1>9, <1>10, <1>11, <1>12, <1>13,
       <1>14, <1>15, <1>16, <1>17, <1>18, <1>19, <1>20, <1>21, <1>22, <1>23, <1>24, <1>25, <1>26
    DEF Next, LoadStep, WatcherStep, SourceStep, Terminated

(* A step of the store keeps its invariant.                                *)
LEMMA StepStored ==
    ASSUME StoreInv, [Next]_vars
    PROVE  StoreInv'
<1>1. SourcesTyped' /\ WatchersTyped' /\ StoreTyped'
    BY StepSources, StepWatchers, StepStore
<1>2. TypeOK'
    BY <1>1 DEF TypeOK, SourcesTyped, WatchersTyped, StoreTyped
<1>3. QED
    BY <1>2, StepGoroutines, StepAnnounced DEF StoreInv

-----------------------------------------------------------------------------
(* What is under way, with one sub-source for each layer.                  *)

(* The last element of a queue.                                            *)
LEMMA LastOfTail ==
    ASSUME NEW S, NEW s \in Seq(S), s # <<>>
    PROVE  /\ Tail(s) \in Seq(S)
           /\ Tail(s) # <<>> => Tail(s)[Len(Tail(s))] = s[Len(s)]
           /\ Tail(s) = <<>> => Head(s) = s[Len(s)]
<1> DEFINE r == Tail(s)
<1>1. /\ r \in Seq(S) /\ Len(r) = Len(s) - 1 /\ Len(s) \in Nat
      /\ \A i \in 1..Len(r) : r[i] = s[i + 1]
    BY HeadTailProperties
<1>2. r # <<>> => Len(r) \in 1..Len(r)
    BY <1>1, EmptySeq
<1>3. r = <<>> => Len(r) = 0
    BY EmptySeq
<1>4. Head(s) = s[1]
    OBVIOUS
<1> HIDE DEF r
<1>5. r # <<>> => r[Len(r)] = s[Len(s)]
    BY <1>1, <1>2
<1>6. r = <<>> => Head(s) = s[Len(s)]
    BY <1>1, <1>3, <1>4
<1>7. QED
    BY <1>1, <1>5, <1>6 DEF r

(* The last element of a queue that has grown.                             *)
LEMMA LastOfAppend ==
    ASSUME NEW S, NEW s \in Seq(S), NEW e \in S
    PROVE  Append(s, e) # <<>> /\ Append(s, e)[Len(Append(s, e))] = e
    OBVIOUS

(* Only the queue of one sub-source changes.                               *)
LEMMA OneQueue ==
    ASSUME SourcesTyped, NEW l \in Layer, NEW f \in Feed, NEW q,
           events' = [events EXCEPT ![l][f] = q]
    PROVE  /\ events'[l][f] = q
           /\ \A k \in Layer, g \in Feed : k # l \/ g # f => events'[k][g] = events[k][g]
    BY DEF SourcesTyped

(* A watch that begins leaves the queues alone or greets.                  *)
LEMMA OpenedQueues ==
    ASSUME SourcesTyped, Notifications, NEW l \in Layer, Opens(l)
    PROVE  /\ UNCHANGED <<doc, held, chan>>
           /\ stream'[l] = "up" /\ \A k \in Layer : k # l => stream'[k] = stream[k]
           /\ \A k \in Layer, f \in Feed :
                  events'[k][f] = events[k][f] \/ (k = l /\ events'[k][f] = <<doc[l]>>)
<1>1. CASE UNCHANGED events
    BY <1>1 DEF Opens, SourcesTyped
<1>2. ASSUME NEW f \in Feed, events' = [events EXCEPT ![l][f] = <<doc[l]>>]
      PROVE  \A k \in Layer, g \in Feed :
                  events'[k][g] = events[k][g] \/ (k = l /\ events'[k][g] = <<doc[l]>>)
    BY <1>2, OneQueue
<1>3. QED
    BY <1>1, <1>2 DEF Opens, SourcesTyped

(* A step keeps the last notification about what the source holds.         *)
LEMMA StepNotifications ==
    ASSUME NEW only, Feed = {only}, StoreInv, Notifications, [Next]_vars
    PROVE  Notifications'
<1>0. SourcesTyped /\ Goroutines /\ (Loading => \A l \in Layer : In(l, "off"))
    BY TypeParts DEF StoreInv, Goroutines
<1> USE <1>0 DEF Notifications, sourceVars, In, Loading, InTransit
<1>1. CASE LoadLayer
    BY <1>1 DEF LoadLayer
<1>2. CASE LoadLayerFails
    BY <1>2 DEF LoadLayerFails
<1>3. CASE FirstMerge
    BY <1>3 DEF FirstMerge
<1>4. CASE WatchLayer
    BY <1>4, TurningOn, OpenedQueues DEF WatchLayer
<1>5. CASE WatchLayerFails
    BY <1>5 DEF WatchLayerFails
<1>6. CASE Unwound
    BY <1>6 DEF Unwound
<1>7. CASE AssignStore
    BY <1>7 DEF AssignStore
<1>8. CASE Arm
    BY <1>8 DEF Arm
<1>9. CASE Close
    BY <1>9 DEF Close
<1>10. CASE Closed
    BY <1>10 DEF Closed
<1>11. ASSUME NEW l \in Layer, Receive(l)
      PROVE  Notifications'
    BY <1>11 DEF Receive
<1>12. ASSUME NEW l \in Layer, Quit(l)
      PROVE  Notifications'
    BY <1>12 DEF Quit
<1>13. ASSUME NEW l \in Layer, SeesEnd(l)
      PROVE  Notifications'
    BY <1>13 DEF SeesEnd
<1>14. ASSUME NEW l \in Layer, Rewatch(l)
      PROVE  Notifications'
    BY <1>14, OpenedQueues DEF Rewatch
<1>15. ASSUME NEW l \in Layer, RewatchFails(l)
      PROVE  Notifications'
    BY <1>15 DEF RewatchFails
<1>16. ASSUME NEW l \in Layer, Reload(l)
      PROVE  Notifications'
    BY <1>16 DEF Reload
<1>17. ASSUME NEW l \in Layer, ReloadFails(l)
      PROVE  Notifications'
    BY <1>17 DEF ReloadFails
<1>18. ASSUME NEW l \in Layer, Apply(l)
      PROVE  Notifications'
    BY <1>18 DEF Apply
<1>19. ASSUME NEW l \in Layer, CallBack(l)
      PROVE  Notifications'
    BY <1>19 DEF CallBack
<1>20. ASSUME NEW l \in Layer, Dispatch(l)
      PROVE  Notifications'
    BY <1>20 DEF Dispatch
<1>21. ASSUME NEW l \in Layer, Breaks(l)
      PROVE  Notifications'
  <2>1. \A k \in Layer, f \in Feed : events'[k][f] = IF k = l THEN <<>> ELSE events[k][f]
      BY <1>21 DEF Breaks, SourcesTyped
  <2>2. \A k \in Layer : k # l => stream'[k] = stream[k]
      BY <1>21 DEF Breaks, SourcesTyped
  <2>3. at # "load"
      BY <1>21 DEF Breaks
  <2>4. QED
      BY <1>21, <2>1, <2>2, <2>3 DEF Breaks
<1>22. ASSUME NEW l \in Layer, NEW f \in Feed, Notified(l, f)
      PROVE  Notifications'
    BY <1>22 DEF Notified
<1>23. ASSUME NEW l \in Layer, NEW f \in Feed, Sends(l, f)
      PROVE  Notifications'
    BY <1>23 DEF Sends
<1>24. ASSUME NEW l \in Layer, NEW f \in Feed, ReadFails(l, f)
      PROVE  Notifications'
    BY <1>24 DEF ReadFails
<1>25. ASSUME NEW l \in Layer, NEW f \in Feed, NEW d \in Doc, Edit(l, f, d)
      PROVE  Notifications'
  <2>1. CASE stream[l] = "up"
    <3>0. events' = [events EXCEPT ![l][f] = Append(events[l][f], d)]
        BY <1>25, <2>1 DEF Edit
    <3>1. /\ events'[l][f] = Append(events[l][f], d)
          /\ \A k \in Layer : k # l => events'[k][f] = events[k][f]
        BY <3>0 DEF SourcesTyped
    <3>2. events'[l][f] # <<>> /\ events'[l][f][Len(events'[l][f])] = d
        BY <3>1, LastOfAppend DEF SourcesTyped
    <3>3. doc'[l] = d /\ \A k \in Layer : k # l => doc'[k] = doc[k]
        BY <1>25 DEF Edit, SourcesTyped
    <3>4. \A k \in Layer, g \in Feed : g = f
        OBVIOUS
    <3>5. QED
        BY <1>25, <2>1, <3>1, <3>2, <3>3, <3>4 DEF Edit
  <2>2. CASE stream[l] # "up"
    <3>1. doc'[l] = d /\ \A k \in Layer : k # l => doc'[k] = doc[k]
        BY <1>25 DEF Edit, SourcesTyped
    <3>2. QED
        BY <1>25, <2>2, <3>1 DEF Edit
  <2>3. QED
      BY <2>1, <2>2
<1>26. CASE UNCHANGED vars
    BY <1>26 DEF vars, sourceVars, storeVars
<1>27. QED
    BY <1>1, <1>2, <1>3, <1>4, <1>5, <1>6, <1>7, <1>8, <1>9, <1>10, <1>11, <1>12, <1>13,
       <1>14, <1>15, <1>16, <1>17, <1>18, <1>19, <1>20, <1>21, <1>22, <1>23, <1>24, <1>25, <1>26
    DEF Next, LoadStep, WatcherStep, SourceStep, Terminated

(* With one sub-source the pipeline of a layer is a queue, a hand and a    *)
(* channel.                                                                *)
Newest(k, f) ==
    events[k][f] = <<>> =>
        /\ held[k][f] # None => held[k][f] = doc[k]
        /\ held[k][f] = None /\ chan[k] # <<>> => chan[k][1] = doc[k]
        /\ held[k][f] = None /\ chan[k] = <<>> =>
               IF w[k].at = "lock" THEN w[k].got = doc[k] ELSE doc[k] \in {cache[k], Broken}

(* That is what UpToDate says of it.                                       *)
LEMMA NewestOnly ==
    ASSUME NEW only, Feed = {only}, NEW k \in Layer
    PROVE  (UpToDate(k) <=> Newest(k, only)) /\ (UpToDate(k)' <=> Newest(k, only)')
    BY DEF UpToDate, Newest, InTransit, InSync, In

(* What is under way for layer k stays as it is.                           *)
SamePipe(k, f) ==
    /\ doc'[k] = doc[k] /\ events'[k][f] = events[k][f] /\ held'[k][f] = held[k][f]
    /\ chan'[k] = chan[k]

(* The goroutine of k is not about to apply a document.                    *)
LEMMA NewestKept ==
    ASSUME NEW k \in Layer, NEW f \in Feed, Newest(k, f), SamePipe(k, f), cache'[k] = cache[k],
           w'[k] = w[k] \/ (w[k].at # "lock" /\ w'[k].at # "lock")
    PROVE  Newest(k, f)'
    BY DEF Newest, SamePipe

(* A watch that begins greets or changes nothing.                          *)
LEMMA OpenedPipe ==
    ASSUME SourcesTyped, NEW f, Feed = {f}, NEW l \in Layer, Opens(l), NEW k \in Layer
    PROVE  /\ k # l => SamePipe(k, f) /\ gap'[k] = gap[k]
           /\ \/ events'[l][f] # <<>>
              \/ SamePipe(l, f) /\ gap'[l] = gap[l]
<1>1. CASE l \in Greets
  <2>1. events' = [events EXCEPT ![l][f] = <<doc[l]>>] /\ gap' = [gap EXCEPT ![l] = None]
      BY <1>1 DEF Opens
  <2>2. events'[l][f] = <<doc[l]>> /\ <<doc[l]>> # <<>>
        /\ (k # l => events'[k][f] = events[k][f] /\ gap'[k] = gap[k])
      BY <2>1 DEF SourcesTyped
  <2>3. QED
      BY <2>2 DEF Opens, SamePipe
<1>2. CASE l \notin Greets
    BY <1>2 DEF Opens, SamePipe
<1>3. QED
    BY <1>1, <1>2

(* A step keeps what is under way up to date.                              *)
LEMMA StepCurrent ==
    ASSUME NEW only, Feed = {only}, StoreInv, PipeInv, [Next]_vars, NEW k \in Layer,
           Loaded(k)', at' # "failed", gap'[k] = None
    PROVE  UpToDate(k)'
<1>0. /\ SourcesTyped /\ w \in [Layer -> Watcher] /\ cache \in [Layer -> Value \cup {Absent}]
      /\ Goroutines /\ Notifications
      /\ Loaded(k) /\ at # "failed" /\ gap[k] = None => Newest(k, only)
    BY TypeParts, NewestOnly DEF StoreInv, PipeInv, Current, WatchersTyped, StoreTyped
<1>a. ASSUME UNCHANGED <<at, next>>, gap'[k] = gap[k]
      PROVE  Newest(k, only)
    BY <1>0, <1>a DEF Loaded
<1>b. ASSUME UNCHANGED <<sourceVars, cache, gap>>
      PROVE  SamePipe(k, only) /\ cache'[k] = cache[k] /\ gap'[k] = gap[k]
    BY <1>b DEF sourceVars, SamePipe
<1> SUFFICES Newest(k, only)'
    BY NewestOnly
<1>1. CASE LoadLayer
  <2>1. CASE Layers[next] = k
    <3>1. events[k][only] = <<>> /\ held[k][only] = None /\ chan[k] = <<>> /\ w[k].at = "off"
        BY <1>1, <1>0 DEF LoadLayer, Notifications, Goroutines, Loading, InTransit, In
    <3>2. cache'[k] = doc[k]
        BY <1>1, <1>0, <2>1 DEF LoadLayer
    <3>3. QED
        BY <1>1, <3>1, <3>2 DEF LoadLayer, sourceVars, Newest
  <2>2. CASE Layers[next] # k
    <3>1. Loaded(k)
        BY <1>1, <1>0, <2>2, LayerList, TypeParts
           DEF LoadLayer, Loaded, StoreInv, StoreTyped, Goroutines
    <3>2. cache'[k] = cache[k]
        BY <1>1, <1>0, <2>2 DEF LoadLayer
    <3>3. QED
        BY <1>1, <1>0, <3>1, <3>2, NewestKept DEF LoadLayer, sourceVars, SamePipe
  <2>3. QED
      BY <2>1, <2>2
<1>2. CASE LoadLayerFails
    BY <1>2 DEF LoadLayerFails
<1>3. CASE FirstMerge
    BY <1>3, <1>0, <1>b, NewestKept DEF FirstMerge, storeVars, Loaded
<1>4. CASE WatchLayer
  <2>1. Layers[next] \in Layer /\ Turns(Layers[next], "wait") /\ w[Layers[next]].at # "lock"
      BY <1>4, TurningOn DEF WatchLayer, In
  <2>2. w'[k] = w[k] \/ (w[k].at # "lock" /\ w'[k].at # "lock")
      BY <2>1 DEF Turns
  <2>3. events'[k][only] # <<>> \/ (SamePipe(k, only) /\ gap'[k] = gap[k])
      BY <1>4, <1>0, <2>1, OpenedPipe DEF WatchLayer
  <2>4. CASE events'[k][only] # <<>>
      BY <2>4 DEF Newest
  <2>5. CASE SamePipe(k, only) /\ gap'[k] = gap[k]
      BY <1>4, <1>0, <2>2, <2>5, NewestKept DEF WatchLayer, storeVars, Loaded
  <2>6. QED
      BY <2>3, <2>4, <2>5
<1>5. CASE WatchLayerFails
    BY <1>5, <1>0, <1>b, NewestKept DEF WatchLayerFails, storeVars, Loaded
<1>6. CASE Unwound
    BY <1>6 DEF Unwound
<1>7. CASE AssignStore
    BY <1>7, <1>0, <1>b, NewestKept DEF AssignStore, storeVars, Loaded
<1>8. CASE Arm
    BY <1>8, <1>0, <1>b, NewestKept DEF Arm, storeVars, Loaded
<1>9. CASE Close
    BY <1>9, <1>0, <1>b, NewestKept DEF Close, storeVars, Loaded
<1>10. CASE Closed
    BY <1>10, <1>0, <1>b, NewestKept DEF Closed, storeVars, Loaded
<1>11. ASSUME NEW l \in Layer, Receive(l)
      PROVE  Newest(k, only)'
  <2>0. Turns(l, "lock")
      BY <1>11, Turning
  <2>1. CASE k # l
    <3>1. w'[k] = w[k]
        BY <2>0, <2>1 DEF Turns
    <3>2. SamePipe(k, only) /\ cache'[k] = cache[k] /\ gap'[k] = gap[k]
        BY <1>11, <1>0, <2>1 DEF Receive, storeVars, sourceVars, SamePipe, SourcesTyped
    <3>3. QED
        BY <1>11, <1>a, <3>1, <3>2, NewestKept DEF Receive
  <2>2. CASE k = l
    <3>0. w'[k].at = "lock" /\ w'[k].got = chan[k][1]
        BY <1>11, <2>0, <2>2, Turning DEF Turns
    <3>1. Newest(k, only) /\ w'[k].at = "lock" /\ w'[k].got = chan[k][1]
        BY <1>11, <1>a, <3>0 DEF Receive
    <3>2. chan'[k] = <<>> /\ chan[k] # <<>>
        BY <1>11, <1>0, <2>2 DEF Receive, SourcesTyped
    <3>3. QED
        BY <1>11, <3>1, <3>2 DEF Receive, Newest
  <2>3. QED
      BY <2>1, <2>2
<1>12. ASSUME NEW l \in Layer, Quit(l)
      PROVE  Newest(k, only)'
  <2>1. Turns(l, "ended") /\ w[l].at # "lock"
      BY <1>12, Turning DEF Quit, In
  <2>2. w'[k] = w[k] \/ (w[k].at # "lock" /\ w'[k].at # "lock")
      BY <2>1 DEF Turns
  <2>3. UNCHANGED <<sourceVars, cache, gap, at, next>>
      BY <1>12 DEF Quit, storeVars
  <2>4. QED
      BY <1>a, <1>b, <2>2, <2>3, NewestKept
<1>13. ASSUME NEW l \in Layer, SeesEnd(l)
      PROVE  Newest(k, only)'
  <2>1. Turns(l, "backoff") /\ w[l].at # "lock"
      BY <1>13, Turning DEF SeesEnd, In
  <2>2. w'[k] = w[k] \/ (w[k].at # "lock" /\ w'[k].at # "lock")
      BY <2>1 DEF Turns
  <2>3. UNCHANGED <<sourceVars, cache, gap, at, next>>
      BY <1>13 DEF SeesEnd, storeVars
  <2>4. QED
      BY <1>a, <1>b, <2>2, <2>3, NewestKept
<1>14. ASSUME NEW l \in Layer, Rewatch(l)
      PROVE  Newest(k, only)'
  <2>1. Turns(l, "reload") /\ w[l].at # "lock"
      BY <1>14, Turning DEF Rewatch, In
  <2>2. w'[k] = w[k] \/ (w[k].at # "lock" /\ w'[k].at # "lock")
      BY <2>1 DEF Turns
  <2>3. events'[k][only] # <<>> \/ (SamePipe(k, only) /\ gap'[k] = gap[k])
      BY <1>14, <1>0, <2>1, OpenedPipe DEF Rewatch
  <2>4. CASE events'[k][only] # <<>>
      BY <2>4 DEF Newest
  <2>5. CASE SamePipe(k, only) /\ gap'[k] = gap[k]
      BY <1>14, <1>0, <2>2, <2>5, NewestKept DEF Rewatch, storeVars, Loaded
  <2>6. QED
      BY <2>3, <2>4, <2>5
<1>15. ASSUME NEW l \in Layer, RewatchFails(l)
      PROVE  Newest(k, only)'
  <2>1. Turns(l, "wait") /\ w[l].at # "lock"
      BY <1>15, Turning DEF RewatchFails, In
  <2>2. w'[k] = w[k] \/ (w[k].at # "lock" /\ w'[k].at # "lock")
      BY <2>1 DEF Turns
  <2>3. UNCHANGED <<sourceVars, cache, gap, at, next>>
      BY <1>15 DEF RewatchFails, storeVars
  <2>4. QED
      BY <1>a, <1>b, <2>2, <2>3, NewestKept
<1>16. ASSUME NEW l \in Layer, Reload(l)
      PROVE  Newest(k, only)'
  <2>0. Turns(l, "lock")
      BY <1>16, Turning
  <2>1. CASE k # l
    <3>1. w'[k] = w[k]
        BY <2>0, <2>1 DEF Turns
    <3>2. SamePipe(k, only) /\ cache'[k] = cache[k] /\ gap'[k] = gap[k]
        BY <1>16, <1>0, <2>1 DEF Reload, storeVars, sourceVars, SamePipe, SourcesTyped
    <3>3. QED
        BY <1>16, <1>a, <3>1, <3>2, NewestKept DEF Reload
  <2>2. CASE k = l
    <3>1. w'[k].at = "lock" /\ w'[k].got = doc[k]
        BY <1>16, <2>2, Turning DEF Turns
    <3>2. UNCHANGED <<doc, events, held, chan, at, next>>
        BY <1>16 DEF Reload, sourceVars
    <3>3. CASE InTransit(l)
      <4>1. Newest(k, only)
          BY <1>16, <1>a, <2>2, <3>2, <3>3 DEF Reload
      <4>2. held[k][only] # None \/ chan[k] # <<>>
          BY <2>2, <3>3 DEF InTransit
      <4>3. QED
          BY <3>2, <4>1, <4>2 DEF Newest
    <3>4. CASE ~InTransit(l)
      <4>1. held[k][only] = None /\ chan[k] = <<>>
          BY <2>2, <3>4 DEF InTransit
      <4>2. QED
          BY <3>1, <3>2, <4>1 DEF Newest
    <3>5. QED
        BY <3>3, <3>4
  <2>3. QED
      BY <2>1, <2>2
<1>17. ASSUME NEW l \in Layer, ReloadFails(l)
      PROVE  Newest(k, only)'
  <2>1. Turns(l, "wait") /\ w[l].at # "lock"
      BY <1>17, Turning DEF ReloadFails, In
  <2>2. w'[k] = w[k] \/ (w[k].at # "lock" /\ w'[k].at # "lock")
      BY <2>1 DEF Turns
  <2>3. UNCHANGED <<sourceVars, cache, gap, at, next>>
      BY <1>17 DEF ReloadFails, storeVars
  <2>4. QED
      BY <1>a, <1>b, <2>2, <2>3, NewestKept
<1>18. ASSUME NEW l \in Layer, Apply(l)
      PROVE  Newest(k, only)'
  <2>0. Turns(l, "call")
      BY <1>18, Turning
  <2>1. CASE k # l
    <3>1. w'[k] = w[k]
        BY <2>0, <2>1 DEF Turns
    <3>2. SamePipe(k, only) /\ cache'[k] = cache[k] /\ gap'[k] = gap[k]
        BY <1>18, <1>0, <2>1 DEF Apply, storeVars, sourceVars, SamePipe, SourcesTyped
    <3>3. QED
        BY <1>18, <1>a, <3>1, <3>2, NewestKept DEF Apply
  <2>2. CASE k = l
    <3>1. Newest(k, only) /\ UNCHANGED <<doc, events, held, chan>>
        BY <1>18, <1>a DEF Apply, sourceVars
    <3>2. w[k].at = "lock" /\ w'[k].at = "call"
        BY <1>18, <2>0, <2>2 DEF Apply, In, Turns
    <3>3. w[k].got \in {cache'[k], Broken}
        BY <1>18, <1>0, <2>2 DEF Apply
    <3>4. QED
        BY <3>1, <3>2, <3>3 DEF Newest
  <2>3. QED
      BY <2>1, <2>2
<1>19. ASSUME NEW l \in Layer, CallBack(l)
      PROVE  Newest(k, only)'
  <2>1. Turns(l, "dispatch") /\ w[l].at # "lock"
    <3>1. w[l].at # "lock"
        BY <1>19 DEF CallBack, In
    <3>2. QED
        BY <1>19, <3>1, Turning
  <2>2. w'[k] = w[k] \/ (w[k].at # "lock" /\ w'[k].at # "lock")
      BY <2>1 DEF Turns
  <2>3. UNCHANGED <<sourceVars, cache, gap, at, next>>
      BY <1>19 DEF CallBack, storeVars
  <2>4. QED
      BY <1>a, <1>b, <2>2, <2>3, NewestKept
<1>20. ASSUME NEW l \in Layer, Dispatch(l)
      PROVE  Newest(k, only)'
  <2>1. Turns(l, "wait") /\ w[l].at # "lock"
      BY <1>20, Turning DEF Dispatch, In
  <2>2. w'[k] = w[k] \/ (w[k].at # "lock" /\ w'[k].at # "lock")
      BY <2>1 DEF Turns
  <2>3. UNCHANGED <<sourceVars, cache, gap, at, next>>
      BY <1>20 DEF Dispatch, storeVars
  <2>4. QED
      BY <1>a, <1>b, <2>2, <2>3, NewestKept
<1>21. ASSUME NEW l \in Layer, Breaks(l)
      PROVE  Newest(k, only)'
  <2>1. CASE k # l
    <3>1. SamePipe(k, only) /\ cache'[k] = cache[k] /\ w'[k] = w[k] /\ gap'[k] = gap[k]
        BY <1>21, <1>0, <2>1 DEF Breaks, storeVars, sourceVars, SamePipe, SourcesTyped
    <3>2. QED
        BY <1>21, <1>a, <3>1, NewestKept DEF Breaks
  <2>2. CASE k = l
    <3>1. events[k][only] = <<>>
        BY <1>21, <1>0, <2>2, ConfigAssumption DEF Breaks, SourcesTyped
    <3>2. gap' = gap
        BY <1>21, <2>2, <3>1 DEF Breaks
    <3>3. QED
        BY <1>21, <1>a, <3>1, <3>2 DEF Breaks, storeVars, Newest
  <2>3. QED
      BY <2>1, <2>2
<1>22. ASSUME NEW l \in Layer, NEW f \in Feed, Notified(l, f)
      PROVE  Newest(k, only)'
  <2>1. CASE k # l
    <3>1. SamePipe(k, only) /\ cache'[k] = cache[k] /\ w'[k] = w[k] /\ gap'[k] = gap[k]
        BY <1>22, <1>0, <2>1 DEF Notified, storeVars, sourceVars, SamePipe, SourcesTyped
    <3>2. QED
        BY <1>22, <1>a, <3>1, NewestKept DEF Notified
  <2>2. CASE k = l
    <3>1. f = only /\ events[l][f] \in Seq(Doc) /\ doc[l] \in Doc
        BY <1>0 DEF SourcesTyped
    <3>2. events'[l][f] = Tail(events[l][f])
          /\ held'[l][f] = (IF l \in Rereads THEN doc[l] ELSE Head(events[l][f]))
        BY <1>22, <1>0 DEF Notified, SourcesTyped
    <3>3. Tail(events[l][f]) = <<>> => Head(events[l][f]) = doc[l]
        BY <1>22, <1>0, <3>1, LastOfTail DEF Notified, Notifications
    <3>4. events'[l][f] = <<>> => held'[l][f] = doc[l]
        BY <3>2, <3>3
    <3>5. QED
        BY <1>22, <2>2, <3>1, <3>4, ConfigAssumption DEF Notified, Newest
  <2>3. QED
      BY <2>1, <2>2
<1>23. ASSUME NEW l \in Layer, NEW f \in Feed, Sends(l, f)
      PROVE  Newest(k, only)'
  <2>1. CASE k # l
    <3>1. SamePipe(k, only) /\ cache'[k] = cache[k] /\ w'[k] = w[k] /\ gap'[k] = gap[k]
        BY <1>23, <1>0, <2>1 DEF Sends, storeVars, sourceVars, SamePipe, SourcesTyped
    <3>2. QED
        BY <1>23, <1>a, <3>1, NewestKept DEF Sends
  <2>2. CASE k = l
    <3>1. f = only /\ Newest(k, only)
        BY <1>23, <1>a DEF Sends
    <3>2. chan'[l] = <<held[l][f]>> /\ held'[l][f] = None /\ held[l][f] # None
        BY <1>23, <1>0 DEF Sends, SourcesTyped
    <3>3. QED
        BY <1>23, <2>2, <3>1, <3>2 DEF Sends, Newest
  <2>3. QED
      BY <2>1, <2>2
<1>24. ASSUME NEW l \in Layer, NEW f \in Feed, ReadFails(l, f)
      PROVE  Newest(k, only)'
  <2>1. CASE k # l
    <3>1. SamePipe(k, only) /\ cache'[k] = cache[k] /\ w'[k] = w[k] /\ gap'[k] = gap[k]
        BY <1>24, <1>0, <2>1 DEF ReadFails, storeVars, sourceVars, SamePipe, SourcesTyped
    <3>2. QED
        BY <1>24, <1>a, <3>1, NewestKept DEF ReadFails
  <2>2. CASE k = l
      BY <1>24, <1>0, <2>2, ConfigAssumption DEF ReadFails, SourcesTyped
  <2>3. QED
      BY <2>1, <2>2
<1>25. ASSUME NEW l \in Layer, NEW f \in Feed, NEW d \in Doc, Edit(l, f, d)
      PROVE  Newest(k, only)'
  <2>1. CASE k # l
    <3>1. SamePipe(k, only) /\ cache'[k] = cache[k] /\ w'[k] = w[k] /\ gap'[k] = gap[k]
        BY <1>25, <1>0, <2>1 DEF Edit, storeVars, sourceVars, SamePipe, SourcesTyped
    <3>2. QED
        BY <1>25, <1>a, <3>1, NewestKept DEF Edit
  <2>2. CASE k = l /\ stream[l] = "up"
    <3>1. events' = [events EXCEPT ![l][f] = Append(events[l][f], d)] /\ f = only
        BY <1>25, <2>2 DEF Edit
    <3>2. events'[l][f] # <<>>
      <4>1. events'[l][f] = Append(events[l][f], d) /\ events[l][f] \in Seq(Doc)
          BY <1>0, <3>1 DEF SourcesTyped
      <4>2. QED
          BY <4>1, LastOfAppend
    <3>3. QED
        BY <2>2, <3>1, <3>2 DEF Newest
  <2>3. CASE k = l /\ stream[l] # "up"
    <3>1. Loaded(l) /\ gap'[l] = None
        BY <1>25, <2>3 DEF Edit, Loaded
    <3>2. QED
        BY <1>25, <1>0, <2>3, <3>1, ConfigAssumption DEF Edit, SourcesTyped
  <2>4. QED
      BY <2>1, <2>2, <2>3
<1>26. CASE UNCHANGED vars
    BY <1>26, <1>a, <1>b, NewestKept DEF vars, storeVars
<1>27. QED
    BY <1>1, <1>2, <1>3, <1>4, <1>5, <1>6, <1>7, <1>8, <1>9, <1>10, <1>11, <1>12, <1>13,
       <1>14, <1>15, <1>16, <1>17, <1>18, <1>19, <1>20, <1>21, <1>22, <1>23, <1>24, <1>25, <1>26
    DEF Next, LoadStep, WatcherStep, SourceStep, Terminated

-----------------------------------------------------------------------------
(* The theorems.                                                           *)

(* The invariants hold of a store that is about to be loaded.              *)
LEMMA InitStored == Init => StoreInv /\ PipeInv
<1> SUFFICES ASSUME Init
             PROVE  StoreInv /\ PipeInv
    OBVIOUS
<1> USE DEF Init, Idle
<1>1. Idle \in Watcher
    BY DEF Watcher
<1>2. SourcesTyped /\ WatchersTyped /\ StoreTyped
  <2>1. SourcesTyped
      BY ConfigAssumption, EmptySeq DEF SourcesTyped
  <2>2. WatchersTyped
      BY <1>1, ConfigAssumption DEF WatchersTyped
  <2>3. StoreTyped
    <3>1. next \in 1..(Len(Layers) + 1)
        BY LayerList
    <3>2. edits \in 0..MaxEdits /\ faults \in 0..MaxFaults
        BY ConfigAssumption
    <3>3. {merged, published, last} \subseteq Value \cup {Absent, None}
        OBVIOUS
    <3>4. cache \in [Layer -> Value \cup {Absent}]
        OBVIOUS
    <3>5. QED
        BY <3>1, <3>2, <3>3, <3>4 DEF StoreTyped
  <2>4. QED
      BY <2>1, <2>2, <2>3
<1>3. Goroutines /\ Announced
    BY LayerList DEF Goroutines, Announced, Loading, In
<1>4. Notifications
    BY EmptySeq DEF Notifications, InTransit
<1>5. Current
    BY DEF Current, Loaded
<1>6. QED
    BY <1>2, <1>3, <1>4, <1>5, TypeParts DEF StoreInv, PipeInv

(* Between two callbacks the tree is the merge of the caches, the user was *)
(* last told this tree and an armed key watcher has seen its value, for    *)
(* any list of layers that publish while the store is loaded, the watchers *)
(* are armed and the store is closed (notifyMu; dispatchKeyWatch).         *)
THEOREM AllAgree == Spec => []CallbacksAgree
<1>1. StoreInv /\ [Next]_vars => StoreInv'
    BY StepStored
<1>2. StoreInv => CallbacksAgree
    BY DEF StoreInv, Announced, CallbacksAgree
<1>3. QED
    BY InitStored, <1>1, <1>2, PTL DEF Spec

(* After Close has returned, or Load has failed, no goroutine is left that *)
(* could merge or call back (watchWG).                                     *)
THEOREM ClosedIsQuiet == Spec => QuietAfterClose
<1>1. StoreInv /\ [Next]_vars => StoreInv'
    BY StepStored
<1>2. StoreInv /\ [Next]_vars => [(at \in {"closed", "failed"}) => UNCHANGED storeVars]_vars
  <2> SUFFICES ASSUME StoreInv, [Next]_vars, at \in {"closed", "failed"}
               PROVE  UNCHANGED storeVars
      OBVIOUS
  <2>1. \A l \in Layer : w[l].at \in {"off", "ended"}
      BY DEF StoreInv, Goroutines, AllEnded
  <2> USE DEF storeVars
  <2>2. CASE LoadStep \/ LoadLayerFails \/ WatchLayerFails \/ Close
      BY <2>2 DEF LoadStep, LoadLayer, FirstMerge, WatchLayer, Unwound, AssignStore, Arm,
                  Closed, LoadLayerFails, WatchLayerFails, Close
  <2>3. ASSUME NEW l \in Layer, WatcherStep(l) \/ RewatchFails(l) \/ ReloadFails(l)
        PROVE  FALSE
      BY <2>1, <2>3 DEF WatcherStep, Receive, Quit, SeesEnd, Rewatch, Reload, Apply, CallBack,
                        Dispatch, RewatchFails, ReloadFails, In
  <2>4. ASSUME NEW l \in Layer, SourceStep(l) \/ Breaks(l)
        PROVE  UNCHANGED storeVars
      BY <2>4 DEF SourceStep, Notified, Sends, Breaks
  <2>5. ASSUME NEW l \in Layer, NEW f \in Feed, ReadFails(l, f) \/ \E d \in Doc : Edit(l, f, d)
        PROVE  UNCHANGED storeVars
      BY <2>5 DEF ReadFails, Edit
  <2>6. CASE UNCHANGED vars
      BY <2>6 DEF vars
  <2>7. QED
      BY <2>2, <2>3, <2>4, <2>5, <2>6 DEF Next, Terminated
<1>3. QED
    BY InitStored, <1>1, <1>2, PTL DEF Spec, QuietAfterClose

(* With one sub-source for each layer a source that has nothing more to    *)
(* say is what its layer holds, or gap names why not; for any list of      *)
(* layers and any interleaving of changes, broken streams, reloads and     *)
(* failures (setupWatch; WatchValue of the sources).                       *)
THEOREM OneFeedLosesNothing ==
    ASSUME NEW only, Feed = {only}
    PROVE  Spec => []NoSilentLoss
<1>1. StoreInv /\ [Next]_vars => StoreInv'
    BY StepStored
<1>2. StoreInv /\ PipeInv /\ [Next]_vars => PipeInv'
  <2> SUFFICES ASSUME StoreInv, PipeInv, [Next]_vars
               PROVE  PipeInv'
      OBVIOUS
  <2>1. Notifications'
      BY StepNotifications DEF PipeInv
  <2>2. ASSUME NEW k \in Layer, Loaded(k)', at' # "failed", gap'[k] = None
        PROVE  UpToDate(k)'
      BY <2>2, StepCurrent
  <2>3. QED
      BY <2>1, <2>2 DEF PipeInv, Current
<1>3. StoreInv /\ PipeInv => NoSilentLoss
  <2> SUFFICES ASSUME StoreInv, PipeInv, NEW l \in Layer, Drained(l), gap[l] = None
               PROVE  InSync(l)
      BY DEF NoSilentLoss
  <2>1. In(l, "wait") /\ ~InTransit(l) /\ events[l][only] = <<>>
      BY DEF Drained
  <2>2. Loaded(l) /\ at # "failed"
      BY <2>1 DEF StoreInv, Goroutines, AllEnded, Loading, In, Loaded
  <2>3. UpToDate(l)
      BY <2>2 DEF PipeInv, Current
  <2>4. QED
      BY <2>1, <2>3 DEF UpToDate, In
<1>4. QED
    BY InitStored, <1>1, <1>2, <1>3, PTL DEF Spec
=============================================================================
