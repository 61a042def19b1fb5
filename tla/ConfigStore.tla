----------------------------- MODULE ConfigStore -----------------------------
(***************************************************************************)
(* The configuration store of bootstrap/config/config.go: its layers, the  *)
(* goroutine that watches each of them, the tree they are merged into, and *)
(* the key watchers of pkg/appkit/keywatch.go that are told of a change.   *)
(*                                                                         *)
(* One watched key stands for the document: a document is the value it     *)
(* gives the key, Absent when it has no such key, or Broken when it cannot *)
(* be decoded.  Layers that never change (flags, environment) only shift   *)
(* what is merged and are left out.                                        *)
(***************************************************************************)
EXTENDS Naturals, Sequences, SequencesExt, FiniteSets

CONSTANTS
    Layers,     \* the watched layers, lowest priority first
    Value, Absent, Broken,
    FirstDocs,  \* what the sources may hold at first: [Layer -> Doc]
    Nobody,     \* no goroutine holds notifyMu
    None,       \* nothing yet
    Feed,       \* the sub-sources of a layer: several for a FallbackReader
    Rereads,    \* layers whose source reads its content again when notified
    Greets,     \* layers whose source sends its content when a watch starts
    MaxEdits,   \* bound: changes of the sources
    MaxFaults   \* bound: broken streams, refused watches and failed reads

Layer == ToSet(Layers)
Doc == Value \cup {Absent, Broken}

ASSUME ConfigAssumption ==
    /\ Layers \in Seq(STRING) /\ Layers # <<>> /\ IsInjective(Layers)
    /\ Feed # {}
    /\ Rereads \subseteq Layer /\ Greets \subseteq Layer
    /\ Absent \notin Value /\ Broken \notin Value /\ Absent # Broken
    /\ FirstDocs \subseteq [Layer -> Doc]
    /\ None \notin Doc \cup {"start", "outage", "read"} /\ Nobody \notin Layer
    /\ MaxEdits \in Nat /\ MaxFaults \in Nat

VARIABLES
    doc,        \* what each source holds
    stream,     \* the watch of each layer
    events,     \* notifications each sub-source has not handled yet
    held,       \* what the goroutine of a sub-source is about to send
    chan,       \* the channel the watch returned, with room for one document
    at,         \* where App.loadConfig, and later closeStore, stands
    next,       \* the layer Load works on
    cache,      \* layerState.m
    merged,     \* Store.merged
    cancelled,  \* the context of the watches
    w,          \* the watch goroutine of each layer
    notify,     \* the holder of notifyMu
    published,  \* the last snapshot given to OnChange
    armed, last,\* keyWatcher.armed, keyWatcher.last
    edits, faults,
    gap         \* history: why a change of this layer may never be seen

sourceVars == <<doc, stream, events, held, chan>>
storeVars == <<cache, merged, notify, published, armed, last>>
vars == <<sourceVars, storeVars, at, next, cancelled, w, edits, faults, gap>>

Idle == [at |-> "off", got |-> None, snap |-> None]

Watcher == [at : {"off", "wait", "lock", "call", "dispatch", "backoff", "reload", "ended"},
            got : Doc \cup {None}, snap : Value \cup {Absent, None}]

TypeOK ==
    /\ doc \in [Layer -> Doc]
    /\ stream \in [Layer -> {"off", "up", "down"}]
    /\ events \in [Layer -> [Feed -> Seq(Doc)]]
    /\ held \in [Layer -> [Feed -> Doc \cup {None}]]
    /\ chan \in [Layer -> Seq(Doc)]
    /\ at \in {"load", "merge", "watch", "loaded", "assigned", "armed",
               "unwind", "failed", "closing", "closed"}
    /\ next \in 1..(Len(Layers) + 1)
    /\ cache \in [Layer -> Value \cup {Absent}]
    /\ {merged, published, last} \subseteq Value \cup {Absent, None}
    /\ cancelled \in BOOLEAN /\ armed \in BOOLEAN
    /\ w \in [Layer -> Watcher]
    /\ notify \in Layer \cup {Nobody}
    /\ \A l \in Layer : w[l].at \in {"call", "dispatch"} <=> notify = l
    /\ edits \in 0..MaxEdits /\ faults \in 0..MaxFaults
    /\ gap \in [Layer -> {None, "start", "outage", "read"}]

Init ==
    /\ doc \in FirstDocs
    /\ stream = [l \in Layer |-> "off"]
    /\ events = [l \in Layer |-> [f \in Feed |-> <<>>]]
    /\ held = [l \in Layer |-> [f \in Feed |-> None]]
    /\ chan = [l \in Layer |-> <<>>]
    /\ at = "load" /\ next = 1
    /\ cache = [l \in Layer |-> Absent]
    /\ merged = None /\ published = None /\ last = None
    /\ cancelled = FALSE /\ armed = FALSE
    /\ w = [l \in Layer |-> Idle]
    /\ notify = Nobody
    /\ edits = 0 /\ faults = 0
    /\ gap = [l \in Layer |-> None]

\* remerge: the layer of highest priority that has the key decides.
Merge(c) ==
    LET having == {i \in 1..Len(Layers) : c[Layers[i]] # Absent}
    IN IF having = {} THEN Absent
       ELSE c[Layers[CHOOSE i \in having : \A j \in having : j <= i]]

Loaded(l) == at # "load" \/ \E i \in 1..(next - 1) : Layers[i] = l

-----------------------------------------------------------------------------
(* The sources.                                                            *)

\* Somebody changes what sub-source f of layer l holds.  A FallbackReader
\* passes no empty document on; that case is left out.
Edit(l, f, d) ==
    /\ edits < MaxEdits
    /\ ~cancelled
    /\ d # doc[l]
    /\ d = Absent => Cardinality(Feed) = 1
    /\ edits' = edits + 1
    /\ doc' = [doc EXCEPT ![l] = d]
    /\ IF stream[l] = "up"
       THEN events' = [events EXCEPT ![l][f] = Append(@, d)] /\ UNCHANGED gap
       ELSE /\ gap' = IF Loaded(l) /\ gap[l] = None
                      THEN [gap EXCEPT ![l] = IF stream[l] = "off" THEN "start" ELSE "outage"]
                      ELSE gap
            /\ UNCHANGED events
    /\ UNCHANGED <<stream, held, chan, storeVars, at, next, cancelled, w, faults>>

\* The goroutine of a sub-source takes a notification: it goes by the value
\* that came with it, or reads the content.
Notified(l, f) ==
    /\ events[l][f] # <<>> /\ held[l][f] = None
    /\ held' = [held EXCEPT ![l][f] = IF l \in Rereads THEN doc[l] ELSE Head(events[l][f])]
    /\ events' = [events EXCEPT ![l][f] = Tail(@)]
    /\ UNCHANGED <<doc, stream, chan, storeVars, at, next, cancelled, w, edits, faults, gap>>

\* The read fails: the notification is dropped.
ReadFails(l, f) ==
    /\ l \in Rereads /\ faults < MaxFaults
    /\ events[l][f] # <<>> /\ held[l][f] = None
    /\ faults' = faults + 1
    /\ events' = [events EXCEPT ![l][f] = Tail(@)]
    /\ gap' = [gap EXCEPT ![l] = "read"]
    /\ UNCHANGED <<doc, stream, held, chan, storeVars, at, next, cancelled, w, edits>>

\* Mutant of Sends: a document that finds no room in the channel is dropped.
SendsOrDrops(l, f) ==
    /\ held[l][f] # None
    /\ chan' = IF chan[l] = <<>> THEN [chan EXCEPT ![l] = <<held[l][f]>>] ELSE chan
    /\ held' = [held EXCEPT ![l][f] = None]
    /\ UNCHANGED <<doc, stream, events, storeVars, at, next, cancelled, w, edits, faults, gap>>

Sends(l, f) ==
    /\ held[l][f] # None
    /\ chan[l] = <<>>
    /\ chan' = [chan EXCEPT ![l] = <<held[l][f]>>]
    /\ held' = [held EXCEPT ![l][f] = None]
    /\ UNCHANGED <<doc, stream, events, storeVars, at, next, cancelled, w, edits, faults, gap>>

\* The stream breaks: what was not taken from it is lost, and once what was
\* taken is sent the channel is closed.
Breaks(l) ==
    /\ stream[l] = "up" /\ ~cancelled
    /\ faults < MaxFaults
    /\ faults' = faults + 1
    /\ stream' = [stream EXCEPT ![l] = "down"]
    /\ events' = [events EXCEPT ![l] = [f \in Feed |-> <<>>]]
    /\ gap' = IF \E f \in Feed : events[l][f] # <<>>
              THEN [gap EXCEPT ![l] = "outage"] ELSE gap
    /\ UNCHANGED <<doc, held, chan, storeVars, at, next, cancelled, w, edits>>

\* WatchValue succeeds.
Opens(l) ==
    /\ stream' = [stream EXCEPT ![l] = "up"]
    /\ IF l \in Greets
       THEN /\ \E f \in Feed : events' = [events EXCEPT ![l][f] = <<doc[l]>>]
            /\ gap' = [gap EXCEPT ![l] = None]
       ELSE UNCHANGED <<events, gap>>
    /\ UNCHANGED <<doc, held, chan>>

InTransit(l) == chan[l] # <<>> \/ \E f \in Feed : held[l][f] # None

SourceStep(l) == \E f \in Feed : Notified(l, f) \/ Sends(l, f)

-----------------------------------------------------------------------------
(* config.Load and what loadConfig does after it.                          *)

LoadLayer ==
    /\ at = "load"
    /\ doc[Layers[next]] # Broken
    /\ cache' = [cache EXCEPT ![Layers[next]] = doc[Layers[next]]]
    /\ at' = IF next = Len(Layers) THEN "merge" ELSE "load"
    /\ next' = next + 1
    /\ UNCHANGED <<sourceVars, merged, notify, published, armed, last, cancelled, w,
                   edits, faults, gap>>

\* The source fails, or the document cannot be decoded.
LoadLayerFails ==
    /\ at = "load"
    /\ \/ doc[Layers[next]] = Broken /\ UNCHANGED faults
       \/ faults < MaxFaults /\ faults' = faults + 1
    /\ at' = "failed"
    /\ UNCHANGED <<sourceVars, storeVars, next, cancelled, w, edits, gap>>

FirstMerge ==
    /\ at = "merge"
    /\ merged' = Merge(cache)
    /\ at' = "watch" /\ next' = 1
    /\ UNCHANGED <<sourceVars, cache, notify, published, armed, last, cancelled, w,
                   edits, faults, gap>>

\* setupWatch: the next layer is watched and its goroutine started.
WatchLayer ==
    /\ at = "watch"
    /\ Opens(Layers[next])
    /\ w' = [w EXCEPT ![Layers[next]].at = "wait"]
    /\ at' = IF next = Len(Layers) THEN "loaded" ELSE "watch"
    /\ next' = next + 1
    /\ UNCHANGED <<storeVars, cancelled, edits, faults>>

\* A watch is refused: the goroutines started so far are stopped.
WatchLayerFails ==
    /\ at = "watch"
    /\ faults < MaxFaults
    /\ faults' = faults + 1
    /\ cancelled' = TRUE
    /\ at' = "unwind"
    /\ UNCHANGED <<sourceVars, storeVars, next, w, edits, gap>>

AllEnded == \A l \in Layer : w[l].at \in {"off", "ended"}

Unwound ==
    /\ at = "unwind" /\ AllEnded
    /\ at' = "failed"
    /\ UNCHANGED <<sourceVars, storeVars, next, cancelled, w, edits, faults, gap>>

AssignStore ==
    /\ at = "loaded"
    /\ at' = "assigned"
    /\ UNCHANGED <<sourceVars, storeVars, next, cancelled, w, edits, faults, gap>>

\* armKeyWatchers
Arm ==
    /\ at = "assigned"
    /\ at' = "armed"
    /\ armed' = TRUE /\ last' = merged
    /\ UNCHANGED <<sourceVars, cache, merged, notify, published, next, cancelled, w,
                   edits, faults, gap>>

\* Store.Close: the contexts end, then the goroutines are waited for.
Close ==
    /\ at = "armed"
    /\ cancelled' = TRUE
    /\ at' = "closing"
    /\ UNCHANGED <<sourceVars, storeVars, next, w, edits, faults, gap>>

\* Mutant of Closed: the goroutines are not waited for.
ClosedAtOnce ==
    /\ at = "closing"
    /\ at' = "closed"
    /\ UNCHANGED <<sourceVars, storeVars, next, cancelled, w, edits, faults, gap>>

Closed ==
    /\ at = "closing" /\ AllEnded
    /\ at' = "closed"
    /\ UNCHANGED <<sourceVars, storeVars, next, cancelled, w, edits, faults, gap>>

-----------------------------------------------------------------------------
(* The watch goroutine of layer l.                                         *)

In(l, place) == w[l].at = place
Goes(l, place) == w' = [w EXCEPT ![l].at = place]

Receive(l) ==
    /\ In(l, "wait")
    /\ chan[l] # <<>>
    /\ chan' = [chan EXCEPT ![l] = <<>>]
    /\ w' = [w EXCEPT ![l] = [@ EXCEPT !.at = "lock", !.got = chan[l][1]]]
    /\ UNCHANGED <<doc, stream, events, held, storeVars, at, next, cancelled,
                   edits, faults, gap>>

\* The context ended; select may find a document first and take that.
Quit(l) ==
    /\ In(l, "wait") \/ In(l, "backoff")
    /\ cancelled
    /\ Goes(l, "ended")
    /\ UNCHANGED <<sourceVars, storeVars, at, next, cancelled, edits, faults, gap>>

\* Mutant of SeesEnd: a closed channel ends the goroutine.
SeesEndAndReturns(l) ==
    /\ In(l, "wait")
    /\ stream[l] = "down"
    /\ ~InTransit(l)
    /\ Goes(l, "ended")
    /\ UNCHANGED <<sourceVars, storeVars, at, next, cancelled, edits, faults, gap>>

\* The channel is closed.
SeesEnd(l) ==
    /\ In(l, "wait")
    /\ stream[l] = "down"
    /\ ~InTransit(l)
    /\ Goes(l, "backoff")
    /\ UNCHANGED <<sourceVars, storeVars, at, next, cancelled, edits, faults, gap>>

Rewatch(l) ==
    /\ In(l, "backoff")
    /\ Opens(l)
    /\ Goes(l, "reload")
    /\ UNCHANGED <<storeVars, at, next, cancelled, edits, faults>>

\* Refused: the channel is still the closed one, and is seen again.
RewatchFails(l) ==
    /\ In(l, "backoff")
    /\ faults < MaxFaults
    /\ faults' = faults + 1
    /\ Goes(l, "wait")
    /\ UNCHANGED <<sourceVars, storeVars, at, next, cancelled, edits, gap>>

\* The document is read once after the stream is back.  What the new stream
\* has sent already is applied after it, although it may be older.
Reload(l) ==
    /\ In(l, "reload")
    /\ w' = [w EXCEPT ![l] = [@ EXCEPT !.at = "lock", !.got = doc[l]]]
    /\ gap' = IF InTransit(l) THEN gap ELSE [gap EXCEPT ![l] = None]
    /\ UNCHANGED <<sourceVars, storeVars, at, next, cancelled, edits, faults>>

ReloadFails(l) ==
    /\ In(l, "reload")
    /\ faults < MaxFaults
    /\ faults' = faults + 1
    /\ Goes(l, "wait")
    /\ UNCHANGED <<sourceVars, storeVars, at, next, cancelled, edits, gap>>

\* apply, under notifyMu: a document that cannot be decoded leaves the cache
\* of its layer, but the tree is merged and announced all the same.
Apply(l) ==
    /\ In(l, "lock")
    /\ notify = Nobody
    /\ notify' = l
    /\ cache' = IF w[l].got = Broken THEN cache ELSE [cache EXCEPT ![l] = w[l].got]
    /\ merged' = Merge(cache')
    /\ w' = [w EXCEPT ![l] = [@ EXCEPT !.at = "call", !.got = None, !.snap = merged']]
    /\ UNCHANGED <<sourceVars, published, armed, last, at, next, cancelled, edits, faults, gap>>

\* OnChange with the snapshot: the callback of the user.
CallBack(l) ==
    /\ In(l, "call")
    /\ published' = w[l].snap
    /\ w' = [w EXCEPT ![l] = [@ EXCEPT !.at = "dispatch", !.snap = None]]
    /\ UNCHANGED <<sourceVars, cache, merged, notify, armed, last, at, next, cancelled,
                   edits, faults, gap>>

\* Mutant of Dispatch: the change is told to the key watchers of nobody.
DispatchKeepingLast(l) ==
    /\ In(l, "dispatch")
    /\ notify' = Nobody
    /\ Goes(l, "wait")
    /\ UNCHANGED <<sourceVars, cache, merged, published, armed, last, at, next, cancelled,
                   edits, faults, gap>>

\* dispatchKeyWatch, then notifyMu is given back.
Dispatch(l) ==
    /\ In(l, "dispatch")
    /\ last' = IF armed THEN merged ELSE last
    /\ notify' = Nobody
    /\ Goes(l, "wait")
    /\ UNCHANGED <<sourceVars, cache, merged, published, armed, at, next, cancelled,
                   edits, faults, gap>>

WatcherStep(l) ==
    \/ Receive(l) \/ Quit(l) \/ SeesEnd(l) \/ Rewatch(l) \/ Reload(l)
    \/ Apply(l) \/ CallBack(l) \/ Dispatch(l)

LoadStep == LoadLayer \/ FirstMerge \/ WatchLayer \/ Unwound \/ AssignStore \/ Arm \/ Closed

Terminated ==
    /\ at \in {"closed", "failed"} /\ AllEnded
    /\ UNCHANGED vars

Next ==
    \/ LoadStep \/ LoadLayerFails \/ WatchLayerFails \/ Close
    \/ \E l \in Layer :
        \/ WatcherStep(l) \/ RewatchFails(l) \/ ReloadFails(l)
        \/ SourceStep(l) \/ Breaks(l)
        \/ \E f \in Feed : ReadFails(l, f) \/ \E d \in Doc : Edit(l, f, d)
    \/ Terminated

(* The loader, each source and each watch goroutine run on.  No source has *)
(* to change or break, and nobody has to close the store.                  *)
Fairness ==
    /\ WF_vars(LoadStep)
    /\ \A l \in Layer : WF_vars(WatcherStep(l)) /\ WF_vars(SourceStep(l))

Spec == Init /\ [][Next]_vars /\ Fairness

-----------------------------------------------------------------------------
(* Properties.                                                             *)

Open == at = "armed"

\* Nothing is on its way from the source of l.
Drained(l) ==
    /\ In(l, "wait") /\ stream[l] = "up" /\ ~InTransit(l)
    /\ \A f \in Feed : events[l][f] = <<>>

InSync(l) == doc[l] \in {cache[l], Broken}

(* A layer whose source has nothing more to say holds what the source      *)
(* holds: whatever the interleaving of changes, broken streams and         *)
(* reloads, a change is missed for one of three reasons only, which gap    *)
(* names: it fell between the Load of the layer and its watch, or into an  *)
(* outage whose single reload failed, or the source could not read its own *)
(* content (setupWatch; WatchValue of the sources).                        *)
NoSilentLoss == \A l \in Layer : Drained(l) /\ gap[l] = None => InSync(l)

(* Between two callbacks all agree: the tree is the merge of the caches,   *)
(* the user was last told this very tree, and an armed key watcher has     *)
(* seen its value, though several layers publish and the watchers are      *)
(* armed while they do (notifyMu; dispatchKeyWatch; armKeyWatchers).       *)
CallbacksAgree ==
    /\ TypeOK  \* the state is well formed, and
    /\ notify = Nobody /\ merged # None =>
          /\ merged = Merge(cache)
          /\ published \in {None, merged}
          /\ armed => last = merged

(* Once Close has returned, or Load has failed, nothing is merged and      *)
(* nobody is called any more (watchWG).                                    *)
QuietAfterClose ==
    [][(at \in {"closed", "failed"}) => UNCHANGED storeVars]_vars

(* Unless the store is closed, every stream is up in the end and what the  *)
(* sources hold is in force, or a change was missed for a reason gap       *)
(* names: a broken stream is watched again, and no document waits for ever *)
(* for a lock or for room in a channel.                                    *)
Converges ==
    <>[](Open => \A l \in Layer : stream[l] = "up" /\ (gap[l] = None => InSync(l)))

(* "Once the stream is back the document is fetched once, to make good the *)
(* changes that may have been lost meanwhile": with the stream up again    *)
(* and nothing on its way, what the outage lost has been fetched.          *)
OutageMadeGood == \A l \in Layer : Drained(l) /\ gap[l] = "outage" => InSync(l)

-----------------------------------------------------------------------------
(* The inductive invariant behind the first three properties.              *)

Loading == at \in {"load", "merge"}

\* The goroutines begin with the watches, one after the other, and are over
\* when Load has failed and when Close has returned.
Goroutines ==
    /\ at \in {"load", "watch"} => next <= Len(Layers)
    /\ Loading => \A l \in Layer : In(l, "off")
    /\ at = "watch" => \A i \in next..Len(Layers) : In(Layers[i], "off")
    /\ at \in {"failed", "closed"} => AllEnded
    /\ \A l \in Layer : In(l, "lock") => w[l].got \in Doc

\* Who holds notifyMu carries what it has merged to the user and to the key
\* watchers.
Announced ==
    /\ Loading => merged = None /\ published = None /\ ~armed
    /\ merged \in {None, Merge(cache)}
    /\ \A l \in Layer : /\ In(l, "call") => w[l].snap = merged
                        /\ In(l, "dispatch") => published = merged
    /\ notify = Nobody => published \in {None, merged} /\ (armed => last = merged)

StoreInv == TypeOK /\ Goroutines /\ Announced

\* The last notification of a sub-source is about what the source holds.
Notifications ==
    /\ \A l \in Layer, f \in Feed : events[l][f] # <<>> =>
           stream[l] = "up" /\ events[l][f][Len(events[l][f])] = doc[l]
    /\ \A l \in Layer : Len(chan[l]) <= 1
    /\ at = "load" => \A l \in Layer : stream[l] = "off" /\ ~InTransit(l)

\* The newest document under way is the one the source holds; when none is
\* under way, the cache has it.
UpToDate(l) ==
    \A f \in Feed : events[l][f] = <<>> =>
        /\ held[l][f] # None => held[l][f] = doc[l]
        /\ held[l][f] = None /\ chan[l] # <<>> => chan[l][1] = doc[l]
        /\ ~InTransit(l) => IF In(l, "lock") THEN w[l].got = doc[l] ELSE InSync(l)

Current == \A l \in Layer : Loaded(l) /\ at # "failed" /\ gap[l] = None => UpToDate(l)

PipeInv == Notifications /\ Current
=============================================================================
