------------------------------ MODULE SseStream ------------------------------
(***************************************************************************)
(* The streams of transport/sse behind one stream id: requests that        *)
(* subscribe and leave, the event loop of each stream with its replay log  *)
(* and its policy for slow clients, a publisher, and the manager that maps *)
(* the id to the current stream.                                           *)
(*                                                                         *)
(* Streams are numbered in the order they are created, events in the order *)
(* the loops take them, which is also the order of their ids (UUID v7).    *)
(* An iteration of an event loop is one action: it never blocks, and what  *)
(* it writes others read through channels and one counter.                 *)
(***************************************************************************)
EXTENDS Integers, Sequences, SequencesExt, FiniteSets

CONSTANTS
    MaxReqs,     \* bound: requests
    MaxEvents,   \* bound: events published
    MaxRemoves,  \* bound: calls of RemoveStream or Clean
    ConnBuffer,  \* capacity of a subscriber's connection channel
    Options      \* settings of the server: autoStream, autoReplay, eventLogSize

ASSUME SseAssumption ==
    /\ MaxReqs \in Nat /\ MaxEvents \in Nat /\ MaxRemoves \in Nat
    /\ ConnBuffer \in Nat \ {0}
    /\ Options \subseteq [autoStream : BOOLEAN, autoReplay : BOOLEAN, eventLogSize : Nat \ {0}]

Req == 1..MaxReqs
Event == 1..MaxEvents
Stream == 1..(MaxReqs + 1)
None == 0

VARIABLES
    config,   \* the settings
    current,  \* streamMgr: the stream registered under the id
    made,     \* streams created
    quit,     \* streams whose quit channel is closed
    ended,    \* streams whose event loop has returned
    log,      \* eventLog
    subs,     \* subscribers, all of them served in one iteration of the loop
    count,    \* subscriberCount
    req,      \* the requests: ServeHTTP and the goroutine it starts
    removes,
    clock,    \* the newest event id
    sent      \* history: what a loop has dispatched

loopVars == <<ended, log, subs, clock, sent>>
sseVars == <<config, current, made, quit, loopVars, count, req, removes>>

autoStream == config.autoStream
autoReplay == config.autoReplay
LogSize == config.eventLogSize

(* at: ServeHTTP; closer: the goroutine that waits for the end of the      *)
(* request; from: Last-Event-ID; base: how much had been dispatched when   *)
(* the subscriber was registered; warned: replay logged a gap.             *)
NoReq == [at |-> "idle", closer |-> "off", stream |-> None, from |-> 0, queue |-> <<>>,
          read |-> <<>>, closed |-> FALSE, gone |-> FALSE, base |-> -1, warned |-> FALSE]

Request ==
    [at : {"idle", "exist", "store", "found", "adding", "serving", "ended"},
     closer : {"off", "wait", "removed", "remove", "done"},
     stream : 0..made, from : 0..MaxEvents, queue : Seq(Event), read : Seq(Event),
     closed : BOOLEAN, gone : BOOLEAN, base : -1..MaxEvents, warned : BOOLEAN]

SseTypeOK ==
    /\ config \in Options
    /\ current \in 0..made /\ made \in 0..(MaxReqs + 1)
    /\ ended \subseteq quit /\ quit \subseteq 1..made
    /\ log \in [Stream -> Seq(Event)] /\ sent \in [Stream -> Seq(Event)]
    /\ \A s \in Stream : Len(log[s]) <= LogSize /\ Len(sent[s]) <= clock
    /\ subs \in [Stream -> SUBSET Req]
    /\ count \in [Stream -> -MaxReqs..MaxReqs]
    /\ req \in [Req -> Request]
    /\ \A r \in Req : Len(req[r].queue) <= ConnBuffer
    /\ clock \in 0..MaxEvents /\ removes \in 0..MaxRemoves

SseInit ==
    /\ config \in Options
    /\ made = IF autoStream THEN 0 ELSE 1
    /\ current = made
    /\ quit = {} /\ ended = {}
    /\ log = [s \in Stream |-> <<>>] /\ sent = [s \in Stream |-> <<>>]
    /\ subs = [s \in Stream |-> {}]
    /\ count = [s \in Stream |-> 0]
    /\ req = [r \in Req |-> NoReq]
    /\ clock = 0 /\ removes = 0

Open(s) == s \in 1..made \ quit
Running(s) == s \in 1..made \ ended

-----------------------------------------------------------------------------
(* The event loop of a stream.                                             *)

\* removeSubscriber closes the connection; what is in it can still be read.
Cut(r) == [req[r] EXCEPT !.closed = TRUE]

Trim(l) == IF Len(l) <= LogSize THEN l ELSE SubSeq(l, Len(l) - LogSize + 1, Len(l))

\* The loop over the log: the events whose id is not older.
Since(l, id) ==
    LET kept[i \in 0..Len(l)] ==
            IF i = 0 THEN <<>>
            ELSE IF l[i] >= id THEN Append(kept[i - 1], l[i]) ELSE kept[i - 1]
    IN  kept[Len(l)]

TruncatedBefore(l, id) == id # 0 /\ l # <<>> /\ l[1] > id

\* Mutant of Full: a full connection loses the event and stays.
NeverFull(r) == FALSE

Full(r) == Len(req[r].queue) = ConnBuffer
Receive(r, e) == [req[r] EXCEPT !.queue = IF Len(@) < ConnBuffer THEN Append(@, e) ELSE @]

\* Publish and the loop that takes the event, in the order of the channel.
\* Publish finds the current stream; when it sends, that one may be closed.
\* The event is logged, and whoever has no room for it is removed.
Dispatch(s) ==
    LET e == clock + 1
        slow == {r \in subs[s] : Full(r)}
    IN  /\ Running(s) /\ clock < MaxEvents
        /\ s \in {current} \cup quit
        /\ log' = IF autoReplay THEN [log EXCEPT ![s] = Trim(Append(@, e))] ELSE log
        /\ clock' = e
        /\ sent' = [sent EXCEPT ![s] = Append(@, e)]
        /\ subs' = [subs EXCEPT ![s] = @ \ slow]
        /\ count' = [count EXCEPT ![s] = @ - Cardinality(slow)]
        /\ req' = [r \in Req |-> IF r \in slow THEN Cut(r)
                                 ELSE IF r \in subs[s] THEN Receive(r, e) ELSE req[r]]
        /\ UNCHANGED <<config, current, made, quit, ended, removes>>

\* register: a replay that does not fit removes the newcomer.
Register(s, r) ==
    LET events == IF autoReplay THEN Since(log[s], req[r].from) ELSE <<>>
        fits == Len(events) <= ConnBuffer
    IN  /\ Running(s)
        /\ req[r].at = "adding" /\ req[r].stream = s
        /\ subs' = IF fits THEN [subs EXCEPT ![s] = @ \cup {r}] ELSE subs
        /\ count' = IF fits THEN count ELSE [count EXCEPT ![s] = @ - 1]
        /\ req' = [req EXCEPT ![r] =
             [@ EXCEPT !.at = "serving", !.closer = "wait", !.base = Len(sent[s]),
                       !.queue = IF fits THEN events ELSE SubSeq(events, 1, ConnBuffer),
                       !.closed = ~fits,
                       !.warned = autoReplay /\ TruncatedBefore(log[s], req[r].from)]]
        /\ UNCHANGED <<config, current, made, quit, ended, log, clock, sent, removes>>

\* deregister: of a subscriber that is gone already nothing happens.
Deregister(s, r) ==
    /\ Running(s)
    /\ req[r].closer = "wait" /\ req[r].gone /\ req[r].stream = s
    /\ IF r \in subs[s]
       THEN /\ subs' = [subs EXCEPT ![s] = @ \ {r}]
            /\ count' = [count EXCEPT ![s] = @ - 1]
            /\ req' = [req EXCEPT ![r] = [Cut(r) EXCEPT !.closer = "removed"]]
       ELSE req' = [req EXCEPT ![r].closer = "removed"] /\ UNCHANGED <<subs, count>>
    /\ UNCHANGED <<config, current, made, quit, ended, log, clock, sent,
                   removes>>

\* Mutant of LoopQuits: the loop returns and leaves its subscribers as they are.
LoopQuitsAtOnce(s) ==
    /\ Running(s) /\ s \in quit
    /\ ended' = ended \cup {s}
    /\ UNCHANGED <<config, current, made, quit, log, subs, clock, sent, count, req, removes>>

\* removeAllSubscribers, and the count is stored as 0.
LoopQuits(s) ==
    /\ Running(s) /\ s \in quit
    /\ ended' = ended \cup {s}
    /\ req' = [r \in Req |-> IF r \in subs[s] THEN Cut(r) ELSE req[r]]
    /\ subs' = [subs EXCEPT ![s] = {}]
    /\ count' = [count EXCEPT ![s] = 0]
    /\ UNCHANGED <<config, current, made, quit, log, clock, sent, removes>>

-----------------------------------------------------------------------------
(* ServeHTTP.                                                              *)

ReqQuiet == UNCHANGED <<config, loopVars, removes>>
At(r, at) == req' = [req EXCEPT ![r].at = at]

\* A browser sends the id of an event it was shown, a new client none.
Arrive(r) ==
    /\ req[r].at = "idle"
    /\ \A q \in 1..(r - 1) : req[q].at # "idle"
    /\ \E from \in {0} \cup {req[q].read[Len(req[q].read)] :
                               q \in {p \in Req : req[p].gone /\ req[p].read # <<>>}} :
         IF current # None
         THEN /\ req' = [req EXCEPT ![r] = [@ EXCEPT !.at = "found", !.stream = current,
                                                     !.from = from]]
              /\ UNCHANGED <<current, made, quit, count>>
         ELSE /\ autoStream
              /\ made' = made + 1
              /\ req' = [req EXCEPT ![r] = [@ EXCEPT !.at = "exist", !.stream = made + 1,
                                                     !.from = from]]
              /\ UNCHANGED <<current, quit, count>>
    /\ ReqQuiet

\* Without autoStream an id that is not there is answered with an error.
Refuse(r) ==
    /\ req[r].at = "idle" /\ current = None /\ ~autoStream
    /\ \A q \in 1..(r - 1) : req[q].at # "idle"
    /\ req' = [req EXCEPT ![r] = [@ EXCEPT !.at = "ended", !.closer = "done", !.gone = TRUE]]
    /\ UNCHANGED <<current, made, quit, count>> /\ ReqQuiet

\* Add asks whether the id exists; its lock is taken again for the entry.
AddExists(r) ==
    /\ req[r].at = "exist"
    /\ At(r, IF current = None THEN "store" ELSE "found")
    /\ UNCHANGED <<current, made, quit, count>> /\ ReqQuiet

AddStores(r) ==
    /\ req[r].at = "store"
    /\ current' = req[r].stream
    /\ At(r, "found")
    /\ UNCHANGED <<made, quit, count>> /\ ReqQuiet

AddSubscriber(r) ==
    /\ req[r].at = "found"
    /\ count' = [count EXCEPT ![req[r].stream] = @ + 1]
    /\ At(r, "adding")
    /\ UNCHANGED <<current, made, quit>> /\ ReqQuiet

\* The stream is closed: the connection is closed before anybody has it.
AddRefused(r) ==
    /\ req[r].at = "adding"
    /\ req[r].stream \in quit
    /\ count' = [count EXCEPT ![req[r].stream] = @ - 1]
    /\ req' = [req EXCEPT ![r] = [@ EXCEPT !.at = "serving", !.closer = "wait",
                                           !.closed = TRUE]]
    /\ UNCHANGED <<current, made, quit>> /\ ReqQuiet

\* One event is taken and written to the client; until the write returns it
\* counts as queued.
Serve(r) ==
    /\ req[r].at = "serving" /\ req[r].queue # <<>> /\ ~req[r].gone
    /\ req' = [req EXCEPT ![r] = [@ EXCEPT !.queue = Tail(req[r].queue),
                                           !.read = Append(req[r].read, Head(req[r].queue))]]
    /\ UNCHANGED <<current, made, quit, count>> /\ ReqQuiet

\* The handler returns, which ends the context of the request; what it
\* still wrote to a client that had left makes no difference.
ServeEnds(r) ==
    /\ req[r].at = "serving" /\ req[r].closed
    /\ req[r].queue = <<>> \/ req[r].gone
    /\ req' = [req EXCEPT ![r] = [@ EXCEPT !.at = "ended", !.gone = TRUE]]
    /\ UNCHANGED <<current, made, quit, count>> /\ ReqQuiet

Leave(r) ==
    /\ req[r].at = "serving" /\ ~req[r].gone
    /\ req' = [req EXCEPT ![r].gone = TRUE]
    /\ UNCHANGED <<current, made, quit, count>> /\ ReqQuiet

-----------------------------------------------------------------------------
(* The goroutine that closes the subscriber when the request is over.      *)

\* Mutant of CloseUnheard: the subscriber waits for the loop alone.
CloseHeard(r) ==
    /\ req[r].closer = "wait" /\ req[r].gone
    /\ req[r].stream \in quit \ ended
    /\ req' = [req EXCEPT ![r].closer = "removed"]
    /\ UNCHANGED <<current, made, quit, count>> /\ ReqQuiet

\* Nobody has to take the deregistration from a stream that is closed.
CloseUnheard(r) ==
    /\ req[r].closer = "wait" /\ req[r].gone
    /\ req[r].stream \in quit
    /\ req' = [req EXCEPT ![r].closer = "removed"]
    /\ UNCHANGED <<current, made, quit, count>> /\ ReqQuiet

\* With autoStream the removal itself is waited for, and the count is read.
CloserReturns(r) ==
    /\ req[r].closer = "removed"
    /\ autoStream => req[r].closed \/ req[r].stream \in quit
    /\ req' = [req EXCEPT ![r].closer =
                 IF autoStream /\ ~autoReplay /\ count[req[r].stream] = 0
                 THEN "remove" ELSE "done"]
    /\ UNCHANGED <<current, made, quit, count>> /\ ReqQuiet

\* RemoveWithID: whichever stream is registered now.
Removes == quit' = quit \cup ({current} \ {None}) /\ current' = None

RemoveEmpty(r) ==
    /\ req[r].closer = "remove"
    /\ Removes
    /\ req' = [req EXCEPT ![r].closer = "done"]
    /\ UNCHANGED <<made, count>> /\ ReqQuiet

-----------------------------------------------------------------------------
(* The application.                                                        *)

\* RemoveStream, or Clean when the server stops.
RemoveStream ==
    /\ removes < MaxRemoves /\ current # None
    /\ removes' = removes + 1
    /\ Removes
    /\ UNCHANGED <<config, made, loopVars, count, req>>

StreamStep(s) ==
    \/ Dispatch(s) \/ LoopQuits(s)
    \/ \E r \in Req : Register(s, r) \/ Deregister(s, r)

AnswerStep(r) ==
    AddExists(r) \/ AddStores(r) \/ AddSubscriber(r) \/ AddRefused(r) \/ ServeEnds(r)

ServeStep(r) == AnswerStep(r) \/ Serve(r)

CloserStep(r) == CloseUnheard(r) \/ CloserReturns(r) \/ RemoveEmpty(r)

SseNext ==
    \/ \E s \in Stream : StreamStep(s)
    \/ \E r \in Req : Arrive(r) \/ Refuse(r) \/ ServeStep(r) \/ Leave(r) \/ CloserStep(r)
    \/ RemoveStream

(* Goroutines that can go on do, but for a write to the client: the server *)
(* sets no deadline for one, and a client that stays connected and stops   *)
(* reading blocks it.  Nobody has to arrive, leave, publish or remove      *)
(* anything.                                                               *)
SseFairness ==
    /\ \A s \in Stream : WF_sseVars(LoopQuits(s))
    /\ \A s \in Stream, r \in Req : WF_sseVars(Register(s, r)) /\ WF_sseVars(Deregister(s, r))
    /\ \A r \in Req : WF_sseVars(AnswerStep(r)) /\ WF_sseVars(CloserStep(r))

SseSpec == SseInit /\ [][SseNext]_sseVars /\ SseFairness

-----------------------------------------------------------------------------
(* Properties.                                                             *)

Delivered(r) == req[r].read \o req[r].queue

\* What the retained window held for the client when it was registered.
Replayed(r) ==
    LET before == SubSeq(sent[req[r].stream], 1, req[r].base)
    IN  IF autoReplay THEN Since(Trim(before), req[r].from) ELSE <<>>

Owed(r) ==
    LET all == sent[req[r].stream]
    IN  Replayed(r) \o SubSeq(all, req[r].base + 1, Len(all))

Missed(r) == {e \in ToSet(SubSeq(sent[req[r].stream], 1, req[r].base)) :
                e > req[r].from /\ e \notin ToSet(Replayed(r))}

(* What a subscriber is handed is the retained events from its             *)
(* Last-Event-ID on and then every event of its stream, in order, without  *)
(* a gap, up to now while it is registered and up to the moment it was cut *)
(* otherwise; a client that names an event the window has left behind is   *)
(* reported (dispatch and replay cut a slow client instead of skipping).   *)
Delivery ==
    \A r \in Req : req[r].base >= 0 =>
        /\ IsPrefix(Delivered(r), Owed(r))
        /\ ~req[r].closed => Delivered(r) = Owed(r)
        /\ autoReplay /\ req[r].from # 0 /\ Missed(r) # {} => req[r].warned

\* Requests inside addSubscriber, which the counter counts already.
Adding(s) == {r \in Req : req[r].at = "adding" /\ req[r].stream = s}

(* The loop never writes to a connection somebody closed, and the counter  *)
(* the removal of an empty stream looks at is exact: it counts the         *)
(* subscribers of the loop and those about to register.  After the loop    *)
(* has ended it says nothing: who arrives meanwhile takes it below zero.   *)
CountExact ==
    /\ SseTypeOK  \* the state is well formed, and
    /\ \A s \in Stream :
          /\ Running(s) => /\ \A r \in subs[s] : ~req[r].closed
                           /\ count[s] = Cardinality(subs[s]) + Cardinality(Adding(s))
          /\ s \in ended => count[s] <= Cardinality(Adding(s))

(* A request ends, and so does its closing goroutine, once its client has  *)
(* left, or once its stream is closed and nothing is left to be written to *)
(* the client: neither waits for a loop that is gone.  A connected client  *)
(* that does not read what it was handed holds its request for ever.       *)
RequestsEnd ==
    <>[](\A r \in Req :
            \/ req[r].gone
            \/ req[r].at # "idle" /\ req[r].stream \in quit /\ req[r].queue = <<>>
            => req[r].at = "ended" /\ req[r].closer = "done")

(* "Creates a stream, returns the one that exists if there is one": of one *)
(* id there is never more than one stream at work.                         *)
OneStream == \A s, t \in Stream : Open(s) /\ Open(t) => s = t

-----------------------------------------------------------------------------
(* What CountExact and Delivery rest on.                                   *)

\* Requests arrive in the order of their numbers, and each makes one stream at most.
Arrivals ==
    \E k \in 0..MaxReqs : made <= k + 1 /\ \A r \in Req : req[r].at # "idle" <=> r <= k

\* A request has nothing before its stream has taken it in.
Answered(r) == req[r].at \in {"serving", "ended"}
Unserved ==
    \A r \in Req :
        /\ req[r].at \notin {"idle", "ended"} => req[r].stream # None
        /\ ~Answered(r) => /\ req[r].base = -1 /\ ~req[r].closed
                           /\ req[r].queue = <<>> /\ req[r].read = <<>>

\* A stream has the requests it took in and has not cut; one that has ended
\* or is still to be made has none.
Holding(s) == {r \in Req : req[r].stream = s /\ req[r].base >= 0 /\ ~req[r].closed}
Members == \A s \in Stream : subs[s] = Holding(s) /\ (~Running(s) => subs[s] = {})

\* The count: exact while the loop runs, afterwards at most one too low for
\* each request that was answered.
Late(s) == {r \in Req : Answered(r) /\ req[r].stream = s}
Counted ==
    \A s \in Stream :
        /\ Running(s) => count[s] = Cardinality(subs[s]) + Cardinality(Adding(s))
        /\ s \in ended => count[s] \in -Cardinality(Late(s))..Cardinality(Adding(s))
        /\ s > made => count[s] = 0

\* Ids grow along a stream, and the log is the end of what it dispatched.
Logged ==
    \A s \in Stream :
        /\ \A i, j \in DOMAIN sent[s] : i < j => sent[s][i] < sent[s][j]
        /\ \A i \in DOMAIN sent[s] : sent[s][i] <= clock
        /\ autoReplay => log[s] = Trim(sent[s])

\* Registration lies in the past.
Begun == \A r \in Req : req[r].base >= 0 => req[r].base <= Len(sent[req[r].stream])

CountInv == SseTypeOK /\ Arrivals /\ Unserved /\ Members /\ Counted
DeliveryInv == Logged /\ Begun /\ Delivery

=============================================================================
