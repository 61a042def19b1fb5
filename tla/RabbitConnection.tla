--------------------------- MODULE RabbitConnection ---------------------------
(***************************************************************************)
(* The connection of broker/rabbitmq: Connect and Close as the transport   *)
(* server calls them, the loop that dials again when the connection drops  *)
(* (connection.go), one subscriber (subscriber.go) and one publisher.      *)
(*                                                                         *)
(* The App runs Start in a goroutine of its own and calls Stop once, from  *)
(* Run, at any time.  A Stop that finds the server not started returns     *)
(* (server.go); any other begins after Start has returned.                 *)
(*                                                                         *)
(* Channels that are closed to be waited for are numbered: the fields      *)
(* r.close and r.waitConnection hold the number of the current one, while  *)
(* a goroutine inside a select still waits for the one it found there.     *)
(* Dialling writes r.Connection without the lock, as in the code.          *)
(***************************************************************************)
EXTENDS Naturals, FiniteSets

CONSTANTS
    MaxStarts,  \* bound: Starts of the transport server
    MaxFaults   \* bound: connections that drop, dials and channels that fail

ASSUME RabbitAssumption ==
    /\ MaxStarts \in Nat \ {0} /\ MaxFaults \in Nat

\* Each Start dials once; each fault and each Close makes every loop dial once more.
MaxDials == MaxStarts * (1 + MaxStarts + MaxFaults)
NoConn == 0
Conn == 1..MaxDials
Loop == 1..MaxStarts

VARIABLES
    open,       \* connections that are open at the broker
    dials, starts, faults,
    conn,       \* r.Connection
    connected,  \* r.connected
    exchange,   \* r.ExchangeChannel: the connection it belongs to
    close,      \* r.close
    closeDone,  \* r.close has been closed
    wait,       \* r.waitConnection
    waitDone,   \* the channels of r.waitConnection that have been closed
    user,       \* where Start stands, and after it the Stop that found it done
    missed,     \* the Stop came too early, and has returned
    loop,       \* the goroutines of reconnect
    sub,        \* the goroutine of resubscribe
    pub,        \* the publisher
    crashed     \* the panic that ended the process

connVars == <<open, dials, conn>>
signalVars == <<connected, exchange, close, closeDone, wait, waitDone>>
vars == <<connVars, signalVars, starts, faults, user, missed, loop, sub, pub, crashed>>

LoopOff == [at |-> "off", conn |-> NoConn, stop |-> 0]
SubOff == [at |-> "off", conn |-> NoConn, stop |-> 0, wait |-> 0,
           closed |-> FALSE, cut |-> FALSE]
PubIdle == [at |-> "idle", wait |-> 0, connected |-> FALSE]

UserAt == {"out", "dial", "dialed", "signalled", "failed", "started", "unsubscribed", "closing",
           "closed"}
Panic == {"no", "closed twice", "nil in Publish", "nil in Consume", "nil in reconnect"}
LoopState(d, c) ==
    [at : {"off", "enter", "select", "dial", "dialed", "ended"}, conn : 0..d, stop : 0..c]
SubState(d, c, w) ==
    [at : {"off", "check", "wait", "consume", "open", "opened", "consuming", "ended"},
     conn : 0..d, stop : 0..c, wait : 0..w, closed : BOOLEAN, cut : BOOLEAN]
PubState(w) == [at : {"idle", "ready"}, wait : 0..w, connected : BOOLEAN]

TypeOK ==
    /\ open \subseteq Conn
    /\ dials \in 0..MaxDials /\ starts \in 0..MaxStarts /\ faults \in 0..MaxFaults
    /\ {conn, exchange} \subseteq 0..MaxDials
    /\ {connected, closeDone} \subseteq BOOLEAN
    /\ close \in 0..MaxStarts
    /\ waitDone \subseteq 0..wait
    /\ wait \in 0..(MaxDials + MaxFaults + MaxStarts)
    /\ user \in UserAt /\ missed \in BOOLEAN
    /\ loop \in [Loop -> LoopState(MaxDials, MaxStarts)]
    /\ sub \in SubState(MaxDials, MaxStarts, wait)
    /\ pub \in PubState(wait)
    /\ crashed \in Panic

Init ==
    /\ open = {} /\ dials = 0 /\ starts = 0 /\ faults = 0
    /\ conn = NoConn /\ connected = FALSE /\ exchange = NoConn
    /\ close = 0 /\ closeDone = FALSE
    /\ wait = 0 /\ waitDone = {}
    /\ user = "out" /\ missed = FALSE
    /\ loop = [l \in Loop |-> LoopOff]
    /\ sub = SubOff
    /\ pub = PubIdle
    /\ crashed = "no"

\* The caller is inside Close, which holds the lock of the connection.
Locked == user = "closing"
Stopped(gen) == gen < close \/ closeDone
Fault == faults < MaxFaults /\ faults' = faults + 1
Alive == crashed = "no"
Reused == starts > 1
LoopRuns(l) == loop[l].at \notin {"off", "ended"}

-----------------------------------------------------------------------------
(* tryConnect.                                                             *)

DialSucceeds ==
    /\ dials' = dials + 1
    /\ conn' = dials'
    /\ open' = open \cup {dials'}

\* DialConfig returns nil with its error, and the field takes it.
DialFails ==
    /\ Fault
    /\ conn' = NoConn
    /\ UNCHANGED <<open, dials>>

\* The connection is there but no channel opens; nobody closes the former.
ChannelFails == Fault /\ DialSucceeds

\* connected is set under the lock, then waitConnection is closed.
SignalConnected ==
    /\ ~Locked
    /\ connected' = TRUE
    /\ exchange' = NoConn
    /\ IF wait \in waitDone
       THEN crashed' = "closed twice" /\ UNCHANGED waitDone
       ELSE waitDone' = waitDone \cup {wait} /\ UNCHANGED crashed
    /\ UNCHANGED <<close, closeDone, wait>>

-----------------------------------------------------------------------------
(* The transport server: Start connects and subscribes, Stop unsubscribes  *)
(* and disconnects.                                                        *)

\* Stop with `started' not set yet: while Start is under way, or before it.
StopMisses ==
    /\ Alive
    /\ ~missed
    /\ user \in {"out", "dial", "dialed", "signalled", "failed"}
    /\ missed' = TRUE
    /\ UNCHANGED <<connVars, signalVars, starts, faults, user, loop, sub, pub, crashed>>

\* A failed Start leaves its error behind: it is not made again.
Start ==
    /\ Alive
    /\ user \in {"out", "closed"}
    /\ starts < MaxStarts
    /\ starts' = starts + 1
    /\ IF connected
       THEN user' = "signalled" /\ UNCHANGED <<close, closeDone>>
       ELSE /\ user' = "dial"
            /\ close' = IF closeDone THEN close + 1 ELSE close
            /\ closeDone' = FALSE
    /\ UNCHANGED <<connVars, connected, exchange, wait, waitDone, faults, missed, loop, sub, pub,
                   crashed>>

StartDials ==
    /\ Alive
    /\ user = "dial"
    /\ \/ DialSucceeds /\ user' = "dialed" /\ UNCHANGED faults
       \/ (DialFails \/ ChannelFails) /\ user' = "failed"
    /\ UNCHANGED <<signalVars, starts, missed, loop, sub, pub, crashed>>

\* Connect returns, the loop runs.
StartSignals ==
    /\ Alive
    /\ user = "dialed"
    /\ SignalConnected
    /\ loop' = [loop EXCEPT ![starts].at = "enter"]
    /\ user' = "signalled"
    /\ UNCHANGED <<connVars, starts, faults, missed, sub, pub>>

\* The first time the server subscribes; then `started' is set.
StartReturns ==
    /\ Alive
    /\ user = "signalled"
    /\ sub' = IF sub.at = "off" THEN [SubOff EXCEPT !.at = "check"] ELSE sub
    /\ user' = "started"
    /\ UNCHANGED <<connVars, signalVars, starts, faults, missed, loop, pub, crashed>>

\* Mutant of Cuts: the flag that ends the loop of resubscribe is not set.
CutsOnly == sub' = [sub EXCEPT !.cut = (@ \/ sub.at = "consuming")]

\* Unsubscribe and Clear close the channel the subscriber has stored, if any.
Cuts == sub' = [sub EXCEPT !.closed = TRUE, !.cut = (@ \/ sub.at = "consuming")]

Unsubscribe ==
    /\ Alive
    /\ user = "started" /\ ~missed
    /\ Cuts
    /\ user' = "unsubscribed"
    /\ UNCHANGED <<connVars, signalVars, starts, faults, missed, loop, pub, crashed>>

\* A connection that is closed already is left alone.
CloseSignals ==
    /\ Alive
    /\ user = "unsubscribed"
    /\ Cuts
    /\ closeDone' = TRUE
    /\ IF closeDone
       THEN user' = "closed" /\ UNCHANGED connected
       ELSE user' = "closing" /\ connected' = FALSE
    /\ UNCHANGED <<connVars, exchange, close, wait, waitDone, starts, faults, missed, loop, pub,
                   crashed>>

\* The connection that r.Connection now holds; with none an error is returned.
CloseReturns ==
    /\ Alive
    /\ user = "closing"
    /\ open' = open \ {conn}
    /\ user' = "closed"
    /\ UNCHANGED <<dials, conn, signalVars, starts, faults, missed, loop, sub, pub, crashed>>

-----------------------------------------------------------------------------
(* reconnect.                                                              *)

Drops(c) ==
    /\ Alive
    /\ c \in open
    /\ Fault
    /\ open' = open \ {c}
    /\ UNCHANGED <<dials, conn, signalVars, starts, user, missed, loop, sub, pub, crashed>>

\* NotifyClose is asked of the connection, and select of r.close, as they are now.
LoopEnters(l) ==
    /\ Alive
    /\ loop[l].at = "enter"
    /\ IF conn = NoConn
       THEN crashed' = "nil in reconnect" /\ UNCHANGED loop
       ELSE /\ loop' = [loop EXCEPT ![l] = [at |-> "select", conn |-> conn, stop |-> close]]
            /\ UNCHANGED crashed
    /\ UNCHANGED <<connVars, signalVars, starts, faults, user, missed, sub, pub>>

\* Mutant of LoopSeesDrop: those who wait keep the channel that is closed.
LoopSeesDropOnly(l) ==
    /\ Alive
    /\ loop[l].at = "select"
    /\ loop[l].conn \notin open
    /\ ~Locked
    /\ connected' = FALSE /\ exchange' = NoConn
    /\ loop' = [loop EXCEPT ![l].at = "dial"]
    /\ UNCHANGED <<connVars, close, closeDone, wait, waitDone, starts, faults, user, missed, sub,
                   pub, crashed>>

LoopSeesDrop(l) ==
    /\ Alive
    /\ loop[l].at = "select"
    /\ loop[l].conn \notin open
    /\ ~Locked
    /\ connected' = FALSE /\ exchange' = NoConn
    /\ wait' = wait + 1
    /\ loop' = [loop EXCEPT ![l].at = "dial"]
    /\ UNCHANGED <<connVars, close, closeDone, waitDone, starts, faults, user, missed, sub, pub,
                   crashed>>

LoopSeesStop(l) ==
    /\ Alive
    /\ loop[l].at = "select"
    /\ Stopped(loop[l].stop)
    /\ loop' = [loop EXCEPT ![l] = [LoopOff EXCEPT !.at = "ended"]]
    /\ UNCHANGED <<connVars, signalVars, starts, faults, user, missed, sub, pub, crashed>>

\* Nothing but success ends the dialling.
LoopDials(l) ==
    /\ Alive
    /\ loop[l].at = "dial"
    /\ DialSucceeds
    /\ loop' = [loop EXCEPT ![l].at = "dialed"]
    /\ UNCHANGED <<signalVars, starts, faults, user, missed, sub, pub, crashed>>

LoopDialFails(l) ==
    /\ Alive
    /\ loop[l].at = "dial"
    /\ DialFails \/ ChannelFails
    /\ UNCHANGED <<signalVars, starts, user, missed, loop, sub, pub, crashed>>

\* Mutant of LoopSignals: the loop returns once it has dialled again.
LoopSignalsAndEnds(l) ==
    /\ Alive
    /\ loop[l].at = "dialed"
    /\ SignalConnected
    /\ loop' = [loop EXCEPT ![l] = [LoopOff EXCEPT !.at = "ended"]]
    /\ UNCHANGED <<connVars, starts, faults, user, missed, sub, pub>>

LoopSignals(l) ==
    /\ Alive
    /\ loop[l].at = "dialed"
    /\ SignalConnected
    /\ loop' = [loop EXCEPT ![l].at = "enter"]
    /\ UNCHANGED <<connVars, starts, faults, user, missed, sub, pub>>

LoopStep(l) ==
    \/ LoopEnters(l) \/ LoopSeesDrop(l) \/ LoopSeesStop(l) \/ LoopDials(l) \/ LoopSignals(l)

-----------------------------------------------------------------------------
(* resubscribe.                                                            *)

SubQuiet == UNCHANGED <<connVars, signalVars, starts, faults, user, missed, loop, pub>>
SubEnds == sub' = [sub EXCEPT !.at = "ended", !.conn = NoConn]

SubChecks ==
    /\ Alive
    /\ sub.at = "check"
    /\ IF sub.closed THEN SubEnds
       ELSE sub' = [sub EXCEPT !.at = "wait", !.stop = close, !.wait = wait]
    /\ UNCHANGED crashed /\ SubQuiet

\* select: of two that are ready either may be taken.
SubWakes ==
    /\ Alive
    /\ sub.at = "wait"
    /\ \/ Stopped(sub.stop) /\ SubEnds
       \/ sub.wait \in waitDone /\ sub' = [sub EXCEPT !.at = "consume"]
    /\ UNCHANGED crashed /\ SubQuiet

\* The flag is read under the lock of the broker, ...
SubConsumes ==
    /\ Alive
    /\ sub.at = "consume"
    /\ sub' = [sub EXCEPT !.at = IF connected THEN "open" ELSE "check"]
    /\ UNCHANGED crashed /\ SubQuiet

\* ... which does not hold off the loop: Consume opens a channel of what
\* r.Connection is by then.  An error is tried again.
SubOpens ==
    /\ Alive
    /\ sub.at = "open"
    /\ IF conn = NoConn THEN crashed' = "nil in Consume" /\ UNCHANGED sub
       ELSE /\ sub' = IF conn \in open THEN [sub EXCEPT !.at = "opened", !.conn = conn]
                      ELSE [sub EXCEPT !.at = "check"]
            /\ UNCHANGED crashed
    /\ SubQuiet

\* The channel is stored; one that Unsubscribe did not find is not cut.
SubStores ==
    /\ Alive
    /\ sub.at = "opened"
    /\ sub' = [sub EXCEPT !.at = "consuming"]
    /\ UNCHANGED crashed /\ SubQuiet

\* Mutant of SubLoses: the goroutine returns when the deliveries end.
SubLosesAndEnds ==
    /\ Alive
    /\ sub.at = "consuming"
    /\ sub.cut \/ sub.conn \notin open
    /\ SubEnds
    /\ UNCHANGED crashed /\ SubQuiet

\* The deliveries end.
SubLoses ==
    /\ Alive
    /\ sub.at = "consuming"
    /\ sub.cut \/ sub.conn \notin open
    /\ sub' = [sub EXCEPT !.at = "check", !.conn = NoConn, !.cut = FALSE]
    /\ UNCHANGED crashed /\ SubQuiet

SubStep == SubChecks \/ SubWakes \/ SubConsumes \/ SubOpens \/ SubStores \/ SubLoses

-----------------------------------------------------------------------------
(* Publish: lazyInitPublishChannel under the lock, then the channel is     *)
(* used without it.                                                        *)

PubQuiet == UNCHANGED <<connVars, connected, close, closeDone, wait, waitDone, starts, faults,
                        user, missed, loop, sub>>

PubInits ==
    /\ Alive
    /\ pub.at = "idle" /\ starts > 0
    /\ ~Locked
    /\ IF exchange = NoConn /\ conn = NoConn
       THEN crashed' = "nil in Publish" /\ UNCHANGED <<exchange, pub>>
       ELSE /\ exchange # NoConn \/ conn \in open
            /\ exchange' = IF exchange = NoConn THEN conn ELSE exchange
            /\ pub' = [at |-> "ready", wait |-> wait, connected |-> connected]
            /\ UNCHANGED crashed
    /\ PubQuiet

PubSends ==
    /\ Alive
    /\ pub.at = "ready"
    /\ IF exchange = NoConn
       THEN crashed' = "nil in Publish" /\ UNCHANGED pub
       ELSE pub' = PubIdle /\ UNCHANGED crashed
    /\ PubQuiet /\ UNCHANGED exchange

UserStep == StartDials \/ StartSignals \/ StartReturns \/ CloseSignals \/ CloseReturns

Next ==
    \/ Start \/ UserStep \/ StopMisses \/ Unsubscribe
    \/ \E c \in Conn : Drops(c)
    \/ \E l \in Loop : LoopStep(l) \/ LoopDialFails(l)
    \/ SubStep
    \/ PubInits \/ PubSends

(* Calls return and goroutines run on; the dialling succeeds in the end,   *)
(* since faults are bounded.  Nobody has to start, stop or publish.        *)
Fairness ==
    /\ WF_vars(UserStep)
    /\ \A l \in Loop : WF_vars(LoopStep(l))
    /\ WF_vars(SubStep)

Spec == Init /\ [][Next]_vars /\ Fairness

-----------------------------------------------------------------------------
(* Properties.                                                             *)

Finished == user = "closed"

Explained ==
    /\ crashed \notin {"closed twice", "nil in reconnect"}
    /\ crashed = "nil in Publish" => ~(connected /\ pub.connected /\ pub.wait = wait)
    /\ crashed = "nil in Consume" => ~connected /\ sub.wait # wait

(* What can end the process by a panic: with one Connect no channel is     *)
(* closed twice and the loop meets no nil connection, whatever drops in    *)
(* between; no Publish meets one that begins and ends in the same          *)
(* connected period; and no consumer does but one that found the flag up   *)
(* and met a drop and a failed redial before it used the connection        *)
(* (waitConnection is renewed at each drop before it is closed again;      *)
(* connected is set after the dial, and cleared before the next).          *)
PanicsExplained ==
    /\ TypeOK  \* the state is well formed, and
    /\ ~Reused => Explained

(* A connection that drops under a connected client has a loop that        *)
(* notices: the flag is never left standing over a dead connection         *)
(* (NotifyClose is asked for anew after every dial).                       *)
DropNoticed ==
    connected /\ conn \notin open /\ user = "started" /\ ~Reused =>
        \E l \in Loop : LoopRuns(l)

(* After the drops are over the subscriber consumes from an open           *)
(* connection again, unless it was unsubscribed (waitConnection is renewed *)
(* at each drop and closed at each dial).                                  *)
SubscriberResumes ==
    <>[](Alive /\ ~Reused => sub.at = "off" \/ sub.closed \/ Finished
                             \/ (sub.at = "consuming" /\ sub.conn \in open))

(* After the Stop the loops end, although one may have been dialling, and  *)
(* the subscriber ends too, or else it consumes from a connection that a   *)
(* loop dialled and nobody closes (reconnect sees r.close only between two *)
(* dials; Unsubscribe closes only the channel it finds).  The exception is *)
(* a Stop that came before Start had set `started': it returns without an  *)
(* effect, and a Start that then succeeds leaves the loop and the          *)
(* subscriber to run for good.                                             *)
EndsAfterStop ==
    <>[](Alive /\ (Finished \/ missed) /\ ~Reused =>
            \/ missed /\ user = "started"
            \/ /\ \A l \in Loop : ~LoopRuns(l)
               /\ \/ sub.at \in {"off", "ended"}
                  \/ sub.at = "consuming" /\ sub.conn \in open)

(* "we are unsubscribed, shutdown routine": a subscriber that was          *)
(* unsubscribed ends once the server has stopped.                          *)
SubscriberEnds ==
    <>[](Alive /\ Finished /\ ~Reused => sub.at = "ended")

(* A server that was told to stop has no loop left, whenever that was: the *)
(* same without the exception.                                             *)
EarlyStopEnds ==
    <>[](Alive /\ missed /\ ~Reused => \A l \in Loop : ~LoopRuns(l))

-----------------------------------------------------------------------------
(* What PanicsExplained and DropNoticed rest on, however many Starts.      *)

\* Every number is that of a connection or a channel there has been.
Bounds ==
    /\ starts \in 0..MaxStarts /\ faults \in 0..MaxFaults
    /\ user \in UserAt /\ missed \in BOOLEAN /\ crashed \in Panic
ConnShape ==
    dials \in Nat /\ open \subseteq 1..dials /\ conn \in 0..dials /\ exchange \in 0..dials
SignalShape ==
    /\ wait \in Nat /\ close \in Nat /\ waitDone \subseteq 0..wait
    /\ connected \in BOOLEAN /\ closeDone \in BOOLEAN
ThreadShape ==
    loop \in [Loop -> LoopState(dials, close)] /\ sub \in SubState(dials, close, wait)
    /\ pub \in PubState(wait)
Shape == Bounds /\ ConnShape /\ SignalShape /\ ThreadShape

\* Before the first Start has returned there is no loop and no signal.
Starting == user \in {"out", "dial", "dialed", "failed"}
BeforeFirst ==
    /\ starts = 0 <=> user = "out"
    /\ \A l \in Loop : loop[l].at # "off" <=> l = 1 /\ ~Starting
    /\ Starting => ~connected /\ ~pub.connected /\ wait = 0 /\ waitDone = {}
    /\ user = "dialed" => conn # NoConn

\* The one close channel is closed by Stop, and only then does the loop end.
ClosedOnce ==
    /\ close = 0 /\ (closeDone <=> user \in {"closing", "closed"})
    /\ \A l \in Loop : loop[l].at = "ended" => closeDone

\* While the loop dials, the flag is down, and the channel that others wait
\* for is new to those who wait, to those who publish and to the subscriber.
Redialling == \E l \in Loop : loop[l].at \in {"dial", "dialed"}
Dialled == \E l \in Loop : loop[l].at \in {"dialed", "enter", "select"}
Signals ==
    /\ Redialling => /\ ~connected /\ wait \notin waitDone
                     /\ ~(pub.connected /\ pub.wait = wait)
    /\ connected \/ Dialled \/ wait \in waitDone => conn # NoConn
    /\ connected /\ pub.connected /\ pub.wait = wait => exchange # NoConn
    /\ sub.at \in {"consume", "open"} => sub.wait \in waitDone

\* Every dial but the first answers a fault or the Close: what the loop may
\* still have to dial is paid for.
Budget == 1 + faults + (IF user = "closed" THEN 1 ELSE 0)
Owing ==
    \/ user \in {"out", "dial"} \/ loop[1].at = "dial"
    \/ (user = "dialed" \/ loop[1].at \in {"enter", "dialed"}) /\ conn \notin open
    \/ loop[1].at = "select" /\ loop[1].conn \notin open
DialsPaid ==
    /\ dials <= Budget
    /\ Owing => dials < Budget
    /\ ~Starting => wait + (IF loop[1].at = "dial" THEN 0 ELSE 1) <= dials

Once == BeforeFirst /\ ClosedOnce /\ Signals /\ DialsPaid /\ Explained
IInv == Shape /\ (~Reused => Once)

=============================================================================
