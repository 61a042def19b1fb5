--------------------------- MODULE MessagingProofs ---------------------------
(***************************************************************************)
(* Proofs about messaging.  First broker/rabbitmq: what it keeps for a     *)
(* connection that is made once, whatever number of faults it meets.  Then *)
(* transport/sse: its subscriber count is exact, and what a subscriber is  *)
(* handed has no gap.                                                      *)
(***************************************************************************)
EXTENDS RabbitConnection, SseStream, FiniteSetTheorems, SequenceTheorems, TLAPS

(***************************************************************************)
(* broker/rabbitmq.                                                        *)
(***************************************************************************)

LEMMA FirstLoop == MaxStarts \in Nat /\ MaxFaults \in Nat /\ 1 \in Loop
BY RabbitAssumption DEF Loop

\* Every step but a Start leaves the number of Starts alone.
LEMMA StepCases ==
    ASSUME Next
    PROVE  /\ Alive
           /\ \/ Start
              \/ /\ UNCHANGED starts
                 /\ \/ UserStep \/ StopMisses \/ Unsubscribe \/ SubStep \/ PubInits
                    \/ PubSends
                    \/ \E c \in Conn : Drops(c)
                    \/ \E l \in Loop : LoopStep(l) \/ LoopDialFails(l)
<1>1. CASE Start
  BY <1>1 DEF Start
<1>2. CASE UserStep \/ StopMisses \/ Unsubscribe
  BY <1>2 DEF UserStep, StartDials, StartSignals, StartReturns, CloseSignals, CloseReturns,
     StopMisses, Unsubscribe
<1>6. CASE SubStep \/ PubInits \/ PubSends
  BY <1>6 DEF SubStep, SubChecks, SubWakes, SubConsumes, SubOpens, SubStores, SubLoses, SubQuiet,
     PubInits, PubSends, PubQuiet
<1>3. ASSUME NEW c \in Conn, Drops(c)
      PROVE  Alive /\ UNCHANGED starts
  BY <1>3 DEF Drops
<1>4. ASSUME NEW l \in Loop, LoopStep(l) \/ LoopDialFails(l)
      PROVE  Alive /\ UNCHANGED starts
  BY <1>4 DEF LoopStep, LoopEnters, LoopSeesDrop, LoopSeesStop, LoopDials, LoopSignals,
     LoopDialFails
<1>5. QED
  BY <1>1, <1>2, <1>3, <1>4, <1>6 DEF Next

-----------------------------------------------------------------------------
(* Shape.                                                                  *)

\* Numbers only grow, so what referred to one still does.
LEMMA ThreadsGrow ==
    ASSUME Shape, dials' \in {dials, dials + 1}, wait' \in {wait, wait + 1},
           close' \in {close, close + 1}
    PROVE  /\ loop \in [Loop -> LoopState(dials', close')]
           /\ sub \in SubState(dials', close', wait')
           /\ pub \in PubState(wait')
<1>1. /\ 0..dials \subseteq 0..dials'
      /\ 0..wait \subseteq 0..wait' /\ 0..close \subseteq 0..close'
  BY DEF Shape, ConnShape, SignalShape
<1>2. loop \in [Loop -> LoopState(dials', close')]
  <2>1. \A l \in Loop : loop[l] \in LoopState(dials, close)
    BY DEF Shape, ThreadShape
  <2>2. \A l \in Loop : loop[l] \in LoopState(dials', close')
    BY <1>1, <2>1 DEF LoopState
  <2>3. QED
    BY <2>2 DEF Shape, ThreadShape
<1>3. sub \in SubState(dials', close', wait')
  BY <1>1 DEF Shape, ThreadShape, SubState
<1>4. pub \in PubState(wait')
  BY <1>1 DEF Shape, ThreadShape, PubState
<1>5. QED
  BY <1>2, <1>3, <1>4

LEMMA Ranges ==
    ASSUME Shape
    PROVE  /\ dials \in Nat /\ dials + 1 \in Nat /\ 0 \in 0..dials /\ 0 \in 0..(dials + 1)
           /\ dials + 1 \in 1..(dials + 1) /\ dials + 1 \in 0..(dials + 1)
           /\ 1..dials \subseteq 1..(dials + 1) /\ 0..dials \subseteq 0..(dials + 1)
           /\ wait \in Nat /\ wait + 1 \in Nat /\ wait \in 0..wait /\ 0 \in 0..wait
           /\ 0..wait \subseteq 0..(wait + 1)
           /\ close \in Nat /\ close + 1 \in Nat /\ close \in 0..close /\ 0 \in 0..close
BY DEF Shape, ConnShape, SignalShape

LEMMA ConnGrows ==
    ASSUME Shape, DialSucceeds \/ DialFails \/ ChannelFails, UNCHANGED exchange
    PROVE  ConnShape' /\ dials' \in {dials, dials + 1}
<1>1. CASE DialSucceeds
  BY <1>1, Ranges, Zenon DEF DialSucceeds, Shape, ConnShape
<1>2. CASE DialFails
  BY <1>2, Ranges DEF DialFails, Shape, ConnShape, NoConn
<1>3. QED
  BY <1>1, <1>2 DEF ChannelFails

LEMMA FaultInBounds ==
    ASSUME Bounds, Fault
    PROVE  faults' \in 0..MaxFaults
BY FirstLoop DEF Bounds, Fault

LEMMA SignalOK ==
    ASSUME Shape, SignalConnected, UNCHANGED connVars
    PROVE  SignalShape' /\ ConnShape' /\ crashed' \in Panic /\ UNCHANGED <<close, wait>>
<1>1. SignalShape'
  <2>1. waitDone' \subseteq 0..wait
    BY Ranges, Zenon DEF SignalConnected, SignalShape, Shape
  <2>2. QED
    BY <2>1 DEF SignalConnected, SignalShape, Shape
<1>2. ConnShape'
  BY Ranges, Zenon DEF SignalConnected, ConnShape, Shape, connVars, NoConn
<1>3. QED
  BY <1>1, <1>2 DEF SignalConnected, Shape, Bounds, Panic

LEMMA StartShape == Shape /\ Start => Shape'
<1> SUFFICES ASSUME Shape, Start PROVE Shape'
  OBVIOUS
<1>1. Bounds'
  BY FirstLoop DEF Start, Shape, Bounds, UserAt
<1>2. SignalShape' /\ close' \in {close, close + 1}
  BY Ranges DEF Start, Shape, SignalShape
<1>3. ConnShape'
  BY DEF Start, Shape, ConnShape, connVars
<1>4. ThreadShape'
  BY <1>2, ThreadsGrow DEF Start, ThreadShape, connVars
<1>5. QED
  BY <1>1, <1>2, <1>3, <1>4 DEF Shape

LEMMA UserShape ==
    ASSUME Shape, UserStep \/ StopMisses \/ Unsubscribe
    PROVE  Shape'
<1> USE DEF Shape
<1>1. CASE StartDials
  <2>1. ConnShape' /\ dials' \in {dials, dials + 1}
    BY <1>1, ConnGrows DEF StartDials, signalVars
  <2>2. Bounds'
    <3>1. faults' \in 0..MaxFaults
      BY <1>1, FaultInBounds DEF StartDials, DialFails, ChannelFails, Bounds
    <3>2. QED
      BY <1>1, <3>1 DEF StartDials, Bounds, UserAt
  <2>3. SignalShape'
    BY <1>1 DEF StartDials, SignalShape, signalVars
  <2>4. ThreadShape'
    BY <1>1, <2>1, ThreadsGrow DEF StartDials, ThreadShape, signalVars
  <2>5. QED
    BY <2>1, <2>2, <2>3, <2>4
<1>2. CASE StartSignals
  <2>1. SignalShape' /\ ConnShape' /\ crashed' \in Panic /\ UNCHANGED <<close, wait, dials>>
    BY <1>2, SignalOK DEF StartSignals, connVars
  <2>2. Bounds'
    BY <1>2, <2>1 DEF StartSignals, Bounds, UserAt
  <2>3. loop' \in [Loop -> LoopState(dials, close)]
    BY <1>2 DEF StartSignals, ThreadShape, LoopState
  <2>4. ThreadShape'
    BY <1>2, <2>1, <2>3 DEF StartSignals, ThreadShape
  <2>5. QED
    BY <2>1, <2>2, <2>4
<1>7. CASE StartReturns \/ StopMisses
  <2>1. Bounds' /\ ConnShape' /\ SignalShape'
    BY <1>7 DEF StartReturns, StopMisses, Bounds, UserAt, ConnShape, SignalShape, connVars,
       signalVars
  <2>2. sub' \in SubState(dials, close, wait)
    <3>1. [SubOff EXCEPT !.at = "check"] \in SubState(dials, close, wait)
      BY Ranges DEF SubOff, SubState, NoConn
    <3>2. QED
      BY <1>7, <3>1 DEF StartReturns, StopMisses, ThreadShape
  <2>3. ThreadShape'
    BY <1>7, <2>2 DEF StartReturns, StopMisses, ThreadShape, connVars, signalVars
  <2>4. QED
    BY <2>1, <2>3
<1>3. ASSUME Cuts PROVE sub' \in SubState(dials, close, wait)
  BY <1>3 DEF Cuts, ThreadShape, SubState
<1>4. CASE CloseSignals \/ Unsubscribe
  <2>1. Bounds'
    BY <1>4 DEF CloseSignals, Unsubscribe, Bounds, UserAt
  <2>2. ConnShape' /\ SignalShape'
    BY <1>4 DEF CloseSignals, Unsubscribe, ConnShape, SignalShape, connVars, signalVars
  <2>3. ThreadShape'
    BY <1>3, <1>4 DEF CloseSignals, Unsubscribe, ThreadShape, connVars, signalVars
  <2>4. QED
    BY <2>1, <2>2, <2>3
<1>5. CASE CloseReturns
  <2>1. Bounds' /\ ConnShape'
    BY <1>5 DEF CloseReturns, Bounds, UserAt, ConnShape, signalVars
  <2>2. SignalShape' /\ ThreadShape'
    BY <1>5 DEF CloseReturns, SignalShape, ThreadShape, signalVars
  <2>3. QED
    BY <2>1, <2>2
<1>6. QED
  BY <1>1, <1>2, <1>4, <1>5, <1>7 DEF UserStep

LEMMA LoopShape ==
    ASSUME NEW l \in Loop, Shape, LoopStep(l) \/ LoopDialFails(l)
    PROVE  Shape'
<1> USE DEF Shape
<1>1. CASE LoopEnters(l) \/ LoopSeesStop(l)
  <2>1. loop' \in [Loop -> LoopState(dials, close)]
    <3>1. [at |-> "select", conn |-> conn, stop |-> close] \in LoopState(dials, close)
      BY DEF LoopState, ConnShape, SignalShape
    <3>2. [LoopOff EXCEPT !.at = "ended"] \in LoopState(dials, close)
      BY DEF LoopState, LoopOff, ConnShape, SignalShape, NoConn
    <3>3. QED
      BY <1>1, <3>1, <3>2 DEF LoopEnters, LoopSeesStop, ThreadShape
  <2>2. Bounds' /\ ConnShape' /\ SignalShape'
    BY <1>1 DEF LoopEnters, LoopSeesStop, Bounds, Panic, ConnShape, SignalShape, connVars,
       signalVars
  <2>3. ThreadShape'
    BY <1>1, <2>1 DEF LoopEnters, LoopSeesStop, ThreadShape, connVars, signalVars
  <2>4. QED
    BY <2>2, <2>3
<1>2. CASE LoopSeesDrop(l)
  <2>1. Bounds' /\ ConnShape'
    BY <1>2 DEF LoopSeesDrop, Bounds, ConnShape, connVars, NoConn
  <2>2. SignalShape'
    <3>1. waitDone' \subseteq 0..wait' /\ wait' \in Nat
      BY <1>2, Ranges, Zenon DEF LoopSeesDrop, SignalShape
    <3>2. QED
      BY <1>2, <3>1 DEF LoopSeesDrop, SignalShape
  <2>3. /\ loop \in [Loop -> LoopState(dials', close')]
        /\ sub \in SubState(dials', close', wait') /\ pub \in PubState(wait')
    BY <1>2, ThreadsGrow DEF LoopSeesDrop, connVars
  <2>4. loop' \in [Loop -> LoopState(dials', close')]
    BY <1>2, <2>3 DEF LoopSeesDrop, LoopState
  <2>5. QED
    BY <1>2, <2>1, <2>2, <2>3, <2>4 DEF LoopSeesDrop, ThreadShape
<1>3. CASE LoopDials(l) \/ LoopDialFails(l)
  <2>1. ConnShape' /\ dials' \in {dials, dials + 1}
    BY <1>3, ConnGrows DEF LoopDials, LoopDialFails, signalVars
  <2>2. faults' \in 0..MaxFaults
    BY <1>3, FaultInBounds DEF LoopDials, LoopDialFails, DialFails, ChannelFails, Bounds
  <2>3. Bounds' /\ SignalShape'
    BY <1>3, <2>2 DEF LoopDials, LoopDialFails, Bounds, SignalShape, signalVars
  <2>4. /\ loop \in [Loop -> LoopState(dials', close')]
        /\ sub \in SubState(dials', close', wait') /\ pub \in PubState(wait')
    BY <1>3, <2>1, ThreadsGrow DEF LoopDials, LoopDialFails, signalVars
  <2>5. loop' \in [Loop -> LoopState(dials', close')]
    BY <1>3, <2>4 DEF LoopDials, LoopDialFails, LoopState
  <2>6. QED
    BY <1>3, <2>1, <2>3, <2>4, <2>5 DEF LoopDials, LoopDialFails, ThreadShape
<1>4. CASE LoopSignals(l)
  <2>1. SignalShape' /\ ConnShape' /\ crashed' \in Panic /\ UNCHANGED <<close, wait, dials>>
    BY <1>4, SignalOK DEF LoopSignals, connVars
  <2>2. loop' \in [Loop -> LoopState(dials, close)]
    BY <1>4 DEF LoopSignals, ThreadShape, LoopState
  <2>3. Bounds' /\ ThreadShape'
    BY <1>4, <2>1, <2>2 DEF LoopSignals, Bounds, ThreadShape
  <2>4. QED
    BY <2>1, <2>3
<1>5. QED
  BY <1>1, <1>2, <1>3, <1>4 DEF LoopStep

LEMMA OtherShape ==
    ASSUME Shape, SubStep \/ PubInits \/ PubSends \/ \E c \in Conn : Drops(c)
    PROVE  Shape'
<1> USE DEF Shape
<1>1. CASE SubStep
  <2>1. sub' \in SubState(dials, close, wait)
    <3>1. /\ sub \in SubState(dials, close, wait) /\ conn \in 0..dials
          /\ 0 \in 0..dials /\ close \in 0..close /\ wait \in 0..wait
      BY Ranges DEF ThreadShape, ConnShape
    <3>2. ASSUME SubEnds PROVE sub' \in SubState(dials, close, wait)
      BY <3>1, <3>2 DEF SubEnds, SubState, NoConn
    <3>3. CASE SubChecks
      BY <3>1, <3>2, <3>3 DEF SubChecks, SubState
    <3>4. CASE SubWakes
      BY <3>1, <3>2, <3>4 DEF SubWakes, SubState
    <3>5. CASE SubConsumes
      BY <3>1, <3>5 DEF SubConsumes, SubState
    <3>8. CASE SubOpens
      BY <3>1, <3>8 DEF SubOpens, SubState
    <3>6. CASE SubStores \/ SubLoses
      BY <3>1, <3>6 DEF SubStores, SubLoses, SubState, NoConn
    <3>7. QED
      BY <1>1, <3>3, <3>4, <3>5, <3>6, <3>8 DEF SubStep
  <2>2. SubQuiet /\ (crashed' = crashed \/ crashed' = "nil in Consume")
    BY <1>1 DEF SubStep, SubChecks, SubWakes, SubConsumes, SubOpens, SubStores, SubLoses
  <2>3. Bounds'
    BY <2>2 DEF SubQuiet, Bounds, Panic
  <2>4. ConnShape' /\ SignalShape'
    BY <2>2 DEF SubQuiet, ConnShape, SignalShape, connVars, signalVars
  <2>5. ThreadShape'
    BY <2>1, <2>2 DEF SubQuiet, ThreadShape, connVars, signalVars
  <2>6. QED
    BY <2>3, <2>4, <2>5
<1>2. CASE PubInits \/ PubSends
  <2>1. pub' \in PubState(wait)
    <3>1. PubIdle \in PubState(wait)
      BY Ranges DEF PubIdle, PubState
    <3>2. connected \in BOOLEAN /\ wait \in 0..wait
      BY Ranges DEF SignalShape
    <3>3. [at |-> "ready", wait |-> wait, connected |-> connected] \in PubState(wait)
      BY <3>2 DEF PubState
    <3>4. QED
      BY <1>2, <3>1, <3>3 DEF PubInits, PubSends, ThreadShape
  <2>2. PubQuiet /\ exchange' \in 0..dials /\ (crashed' = crashed \/ crashed' = "nil in Publish")
    BY <1>2 DEF PubInits, PubSends, ConnShape
  <2>3. Bounds' /\ ConnShape'
    BY <2>2 DEF PubQuiet, Bounds, Panic, ConnShape, connVars
  <2>4. SignalShape' /\ ThreadShape'
    BY <2>1, <2>2 DEF PubQuiet, SignalShape, ThreadShape, connVars
  <2>5. QED
    BY <2>3, <2>4
<1>3. ASSUME NEW c \in Conn, Drops(c)
      PROVE  Shape'
  <2>1. faults' \in 0..MaxFaults
    BY <1>3, FaultInBounds DEF Drops
  <2>2. Bounds' /\ ConnShape'
    BY <1>3, <2>1 DEF Drops, Bounds, ConnShape, signalVars
  <2>3. SignalShape' /\ ThreadShape'
    BY <1>3 DEF Drops, SignalShape, ThreadShape, signalVars
  <2>4. QED
    BY <2>2, <2>3
<1>4. QED
  BY <1>1, <1>2, <1>3

LEMMA ShapeStep == Shape /\ Next => Shape'
BY StepCases, StartShape, UserShape, LoopShape, OtherShape

-----------------------------------------------------------------------------
(* The first Start and what follows it.                                    *)

\* With one Start there is one loop.
LEMMA OneLoop ==
    ASSUME Once, NEW l \in Loop, loop[l].at # "off"
    PROVE  l = 1 /\ ~Starting /\ \A k \in Loop : k # 1 => loop[k].at = "off"
BY DEF Once, BeforeFirst

LEMMA FirstStartOnce ==
    ASSUME Shape, ~Reused => Once, Start, ~Reused'
    PROVE  Once'
<1>1. starts = 0 /\ Once /\ user = "out" /\ Starting
  <2>1. starts = 0 /\ ~Reused
    BY DEF Start, Reused, Shape, Bounds
  <2>2. QED
    BY <2>1 DEF Once, BeforeFirst, Starting
<1>2. ~connected /\ ~closeDone
  BY <1>1 DEF Once, BeforeFirst, ClosedOnce
<1>3. /\ user' = "dial" /\ starts' = 1 /\ ~closeDone' /\ Starting' /\ user # "closed"
      /\ UNCHANGED <<open, dials, conn, connected, exchange, close, wait, waitDone, faults, loop,
                     sub, pub, crashed>>
  BY <1>1, <1>2 DEF Start, connVars, Starting
<1>4. BeforeFirst' /\ ClosedOnce'
  BY <1>1, <1>3 DEF Once, BeforeFirst, ClosedOnce, Starting
<1>5. Signals' /\ Explained'
  BY <1>1, <1>3 DEF Once, Signals, Redialling, Dialled, Explained
<1>6. DialsPaid'
  BY <1>1, <1>3 DEF Once, DialsPaid, Owing, Budget
<1>7. QED
  BY <1>4, <1>5, <1>6 DEF Once

LEMMA StartDialsOnce ==
    ASSUME Shape, Once, StartDials
    PROVE  Once'
<1>1. /\ Starting /\ user = "dial" /\ loop[1].at = "off" /\ starts # 0
      /\ \A l \in Loop : loop[l].at = "off"
      /\ ~connected /\ ~pub.connected /\ wait = 0 /\ waitDone = {}
  BY FirstLoop DEF StartDials, Once, BeforeFirst, Starting
<1>2. /\ Starting' /\ user' \in {"dialed", "failed"}
      /\ UNCHANGED <<connected, exchange, close, closeDone, wait, waitDone, starts, loop, sub, pub,
                     crashed>>
  BY DEF StartDials, Starting, signalVars
<1>3. user' = "dialed" => DialSucceeds /\ UNCHANGED faults
  BY DEF StartDials
<1>4. user' = "failed" => (DialFails \/ ChannelFails)
  BY DEF StartDials
<1>5. dials \in Nat /\ faults \in Nat
  BY FirstLoop DEF Shape, ConnShape, Bounds
<1>6. user' = "dialed" => conn' = dials + 1 /\ conn' # NoConn /\ conn' \in open'
  BY <1>3, <1>5 DEF DialSucceeds, NoConn
<1>7. BeforeFirst' /\ ClosedOnce'
  BY <1>1, <1>2, <1>6 DEF Once, BeforeFirst, ClosedOnce
<1>8. Signals' /\ Explained'
  BY <1>1, <1>2 DEF Once, Signals, Redialling, Dialled, Explained
<1>9. DialsPaid'
  <2>1. dials < 1 + faults
    <3>1. Owing /\ Budget = 1 + faults
      BY <1>1, <1>5 DEF Owing, Budget
    <3>2. QED
      BY <3>1 DEF Once, DialsPaid
  <2>2. CASE user' = "dialed"
    <3>1. dials' = dials + 1 /\ faults' = faults
      BY <1>3, <2>2 DEF DialSucceeds
    <3>2. Budget' = 1 + faults
      BY <1>5, <2>2, <3>1 DEF Budget
    <3>3. loop'[1].at = "off"
      BY <1>1, <1>2
    <3>4. ~Owing'
      BY <1>6, <2>2, <3>3 DEF Owing
    <3>5. QED
      BY <1>2, <1>5, <2>1, <3>1, <3>2, <3>4 DEF DialsPaid
  <2>3. CASE user' = "failed"
    <3>1. (dials' = dials \/ dials' = dials + 1) /\ faults' = faults + 1
      BY <1>4, <2>3 DEF DialFails, ChannelFails, DialSucceeds, Fault
    <3>2. ~Owing' /\ Budget' = 2 + faults
      BY <1>1, <1>2, <1>5, <2>3, <3>1 DEF Owing, Budget
    <3>3. QED
      BY <1>2, <1>5, <2>1, <3>1, <3>2 DEF DialsPaid
  <2>4. QED
    BY <1>2, <2>2, <2>3
<1>10. QED
  BY <1>7, <1>8, <1>9 DEF Once

LEMMA StartSignalsOnce ==
    ASSUME Shape, ~Reused, Once, StartSignals
    PROVE  Once'
<1>1. /\ Starting /\ user = "dialed" /\ starts = 1 /\ conn # NoConn /\ ~pub.connected
      /\ wait = 0 /\ waitDone = {} /\ close = 0 /\ ~closeDone
      /\ \A l \in Loop : loop[l].at = "off"
  BY DEF StartSignals, Once, BeforeFirst, ClosedOnce, Starting, Reused, Shape, Bounds
<1>2. /\ user' = "signalled" /\ ~Starting' /\ connected' = TRUE /\ crashed' = crashed
      /\ UNCHANGED <<open, dials, conn, close, closeDone, wait, starts, faults, pub>>
  BY <1>1 DEF StartSignals, SignalConnected, Starting, connVars
<1>3. loop'[1].at = "enter" /\ \A l \in Loop : l # 1 => loop'[l].at = "off"
  BY <1>1, FirstLoop DEF StartSignals, Shape, ThreadShape, LoopState
<1>4. BeforeFirst' /\ ClosedOnce'
  BY <1>1, <1>2, <1>3, FirstLoop DEF BeforeFirst, ClosedOnce
<1>5. ~Redialling'
  BY <1>3, FirstLoop DEF Redialling
<1>6. Signals' /\ Explained'
  <2>1. sub' = sub /\ waitDone \subseteq waitDone'
    BY DEF StartSignals, SignalConnected
  <2>2. QED
    BY <1>1, <1>2, <1>5, <2>1 DEF Once, Signals, Explained, StartSignals, Alive
<1>7. DialsPaid'
  <2>1. dials \in Nat /\ dials >= 1
    BY <1>1 DEF Shape, ConnShape, NoConn
  <2>2. dials <= Budget /\ (conn \notin open => dials < Budget)
    BY <1>1 DEF Once, DialsPaid, Owing
  <2>3. Budget' = Budget /\ (Owing' => conn \notin open)
    BY <1>1, <1>2, <1>3 DEF Budget, Owing
  <2>4. QED
    BY <1>1, <1>2, <1>3, <2>1, <2>2, <2>3 DEF DialsPaid
<1>8. QED
  BY <1>4, <1>6, <1>7 DEF Once

LEMMA QuietUserOnce ==
    ASSUME Shape, ~Reused, Once, StartReturns \/ StopMisses
    PROVE  Once'
<1>1. /\ UNCHANGED <<open, dials, conn, connected, exchange, close, closeDone, wait, waitDone, starts,
                     faults, loop, pub, crashed>>
      /\ user' \in {user, "started"} /\ (user' = user \/ user = "signalled")
      /\ sub' = sub \/ sub'.at = "check"
  <2>1. [SubOff EXCEPT !.at = "check"].at = "check"
    BY DEF SubOff
  <2>2. sub' = sub \/ sub'.at = "check"
    BY <2>1 DEF StartReturns, StopMisses
  <2>3. QED
    BY <2>2 DEF StartReturns, StopMisses, connVars, signalVars
<1>2. (Starting' <=> Starting) /\ (user' = "out" <=> user = "out")
      /\ (user' = "dialed" <=> user = "dialed")
      /\ (user' \in {"closing", "closed"} <=> user \in {"closing", "closed"})
  BY <1>1 DEF Starting
<1>3. BeforeFirst' /\ ClosedOnce'
  BY <1>1, <1>2 DEF Once, BeforeFirst, ClosedOnce
<1>4. Signals'
  BY <1>1 DEF Once, Signals, Redialling, Dialled
<1>5. Explained'
  BY <1>1 DEF Explained, StartReturns, StopMisses, Alive
<1>6. DialsPaid'
  <2>1. Budget' = Budget /\ (Owing' => Owing)
    BY <1>1 DEF Budget, Owing
  <2>2. QED
    BY <1>1, <1>2, <2>1 DEF Once, DialsPaid
<1>7. QED
  BY <1>3, <1>4, <1>5, <1>6 DEF Once

LEMMA StopOnce ==
    ASSUME Shape, ~Reused, Once, Unsubscribe \/ CloseSignals \/ CloseReturns
    PROVE  Once'
<1>1. /\ user \in {"started", "unsubscribed", "closing"} /\ ~Starting /\ ~Starting'
      /\ user' \in {"unsubscribed", "closing", "closed"} /\ (user' = "closed" <=> user = "closing")
      /\ (user' \in {"closing", "closed"} <=> closeDone')
      /\ UNCHANGED <<dials, conn, exchange, close, wait, waitDone, starts, faults, loop, pub, crashed>>
      /\ open' \subseteq open /\ (connected' => connected) /\ (closeDone => closeDone')
      /\ (user # "closing" => open' = open)
  BY DEF Unsubscribe, CloseSignals, CloseReturns, Starting, Once, ClosedOnce, connVars, signalVars
<1>2. BeforeFirst' /\ ClosedOnce'
  BY <1>1 DEF Once, BeforeFirst, ClosedOnce
<1>3. Signals' /\ Explained'
  <2>1. sub'.at = sub.at /\ sub'.wait = sub.wait
    BY DEF Unsubscribe, CloseSignals, CloseReturns, Cuts, Shape, ThreadShape, SubState
  <2>2. Alive
    BY DEF Unsubscribe, CloseSignals, CloseReturns
  <2>3. QED
    BY <1>1, <2>1, <2>2 DEF Once, Signals, Redialling, Dialled, Explained, Alive
<1>4. DialsPaid'
  <2>1. dials \in Nat /\ faults \in Nat
    BY FirstLoop DEF Shape, ConnShape, Bounds
  <2>2. CASE user = "closing"
    <3>1. Budget' = 2 + faults /\ Budget = 1 + faults
      BY <1>1, <2>1, <2>2 DEF Budget
    <3>2. QED
      BY <1>1, <2>1, <3>1 DEF Once, DialsPaid
  <2>3. CASE user # "closing"
    <3>1. Budget' = Budget /\ (Owing' => Owing)
      BY <1>1, <2>3 DEF Budget, Owing
    <3>2. QED
      BY <1>1, <3>1 DEF Once, DialsPaid
  <2>4. QED
    BY <2>2, <2>3
<1>5. QED
  BY <1>2, <1>3, <1>4 DEF Once

LEMMA DropsOnce ==
    ASSUME Shape, ~Reused, Once, NEW c \in Conn, Drops(c)
    PROVE  Once'
<1>1. /\ UNCHANGED <<dials, conn, connected, exchange, close, closeDone, wait, waitDone, starts, user,
                     loop, sub, pub, crashed>>
      /\ faults' = faults + 1
  BY DEF Drops, Fault, signalVars
<1>2. BeforeFirst' /\ ClosedOnce' /\ Signals' /\ Explained' /\ (Starting' <=> Starting)
  BY <1>1 DEF Once, BeforeFirst, ClosedOnce, Signals, Redialling, Dialled, Explained, Starting
<1>3. dials \in Nat /\ faults \in Nat
  BY FirstLoop DEF Shape, ConnShape, Bounds
<1>4. Budget' = Budget + 1 /\ Budget \in Nat
  BY <1>1, <1>3 DEF Budget
<1>5. DialsPaid'
  BY <1>1, <1>2, <1>3, <1>4 DEF Once, DialsPaid
<1>6. QED
  BY <1>2, <1>5 DEF Once

\* The rest of the process, while the loop takes a step.
LEMMA LoopStepOnce ==
    ASSUME Shape, ~Reused, Once, NEW l \in Loop, LoopStep(l) \/ LoopDialFails(l)
    PROVE  Once'
<1>1. /\ loop[l].at # "off"
      /\ UNCHANGED <<user, close, closeDone, starts, sub, pub>>
      /\ crashed = "no"
  BY DEF Alive, LoopStep, LoopEnters, LoopSeesDrop, LoopSeesStop, LoopDials, LoopSignals, LoopDialFails,
     signalVars, SignalConnected
<1>2. /\ l = 1 /\ ~Starting /\ ~Starting' /\ loop \in [Loop -> LoopState(dials, close)]
      /\ \A k \in Loop : k # 1 => loop[k].at = "off"
  BY <1>1, OneLoop DEF Starting, Shape, ThreadShape
<1>3. /\ dials \in Nat /\ faults \in Nat /\ wait \in Nat /\ Budget \in Nat
      /\ pub.wait \in 0..wait /\ waitDone \subseteq 0..wait /\ close = 0 /\ loop[1].stop \in 0..close
  BY <1>2, FirstLoop DEF Shape, ConnShape, SignalShape, Bounds, Budget, ThreadShape, PubState,
     LoopState, Once, ClosedOnce
<1>4. /\ dials <= Budget /\ (Owing => dials < Budget)
      /\ wait + (IF loop[1].at = "dial" THEN 0 ELSE 1) <= dials
  BY <1>2 DEF Once, DialsPaid
<1>5. ASSUME NEW x, \A k \in Loop : loop'[k] = IF k = 1 THEN x ELSE loop[k], x.at # "off",
             x.at = "ended" => closeDone,
             Signals', DialsPaid', Explained'
      PROVE  Once'
  <2>1. BeforeFirst'
    BY <1>1, <1>2, <1>5, FirstLoop DEF Once, BeforeFirst, Starting
  <2>2. ClosedOnce'
    BY <1>1, <1>2, <1>5, FirstLoop DEF Once, ClosedOnce
  <2>3. QED
    BY <1>5, <2>1, <2>2 DEF Once
<1>6. CASE LoopEnters(l) \/ LoopSeesStop(l)
  <2>1. PICK x : /\ loop' = [loop EXCEPT ![1] = x] /\ x.at \in {"select", "ended"}
                 /\ (x.at = "ended" => closeDone)
                 /\ (x.at = "select" => x.conn = conn /\ loop[1].at = "enter")
    <3>1. CASE LoopEnters(l)
      <4>1. Dialled
        BY <1>2, <3>1, FirstLoop DEF Dialled, LoopEnters
      <4>2. conn # NoConn
        BY <4>1 DEF Once, Signals
      <4>3. PICK x : /\ x = [at |-> "select", conn |-> conn, stop |-> close]
                     /\ loop' = [loop EXCEPT ![1] = x] /\ loop[1].at = "enter"
        BY <1>2, <3>1, <4>2 DEF LoopEnters
      <4>4. x.at = "select" /\ x.conn = conn
        BY <4>3
      <4>5. QED
        BY <4>3, <4>4
    <3>2. CASE LoopSeesStop(l)
      <4>1. PICK x : x = [LoopOff EXCEPT !.at = "ended"] /\ loop' = [loop EXCEPT ![1] = x]
        BY <1>2, <3>2 DEF LoopSeesStop
      <4>2. x.at = "ended"
        BY <4>1 DEF LoopOff
      <4>3. closeDone
        BY <1>2, <1>3, <3>2 DEF LoopSeesStop, Stopped
      <4>4. QED
        BY <4>1, <4>2, <4>3
    <3>3. QED
      BY <1>6, <3>1, <3>2
  <2>2. /\ \A k \in Loop : loop'[k] = IF k = 1 THEN x ELSE loop[k]
        /\ ~Redialling' /\ Dialled
        /\ UNCHANGED <<connVars, signalVars, faults, crashed>>
    <3>1. Dialled
      BY <1>2, <1>6, FirstLoop DEF Dialled, LoopEnters, LoopSeesStop
    <3>2. conn # NoConn
      BY <3>1 DEF Once, Signals
    <3>3. QED
      BY <1>2, <1>6, <2>1, <3>1, <3>2 DEF Redialling, LoopEnters, LoopSeesStop
  <2>3. Signals' /\ Explained'
    BY <1>1, <2>2 DEF Once, Signals, Explained, connVars, signalVars
  <2>4. loop'[1] = x /\ loop[1].at # "dial" /\ dials' = dials /\ wait' = wait
        /\ Budget' = Budget /\ conn' = conn /\ open' = open
    BY <1>1, <1>2, <1>6, <2>2, FirstLoop DEF LoopEnters, LoopSeesStop, Budget, connVars, signalVars
  <2>5. Owing' => Owing
    BY <1>1, <1>2, <2>1, <2>4 DEF Owing, Starting
  <2>6. DialsPaid'
    BY <1>2, <1>4, <2>1, <2>4, <2>5 DEF DialsPaid
  <2>7. QED
    BY <1>5, <2>1, <2>2, <2>3, <2>6
<1>7. CASE LoopSeesDrop(l)
  <2>1. PICK x : loop' = [loop EXCEPT ![1] = x] /\ x.at = "dial"
    <3>1. loop' = [loop EXCEPT ![1] = [loop[1] EXCEPT !.at = "dial"]]
      BY <1>2, <1>7 DEF LoopSeesDrop
    <3>2. [loop[1] EXCEPT !.at = "dial"].at = "dial"
      BY <1>2, FirstLoop DEF LoopState
    <3>3. QED
      BY <3>1, <3>2
  <2>2. /\ loop'[1].at = "dial" /\ \A k \in Loop : loop'[k] = IF k = 1 THEN x ELSE loop[k]
        /\ ~connected' /\ wait' = wait + 1
        /\ UNCHANGED <<connVars, waitDone, faults, crashed>>
        /\ Owing /\ loop[1].at = "select"
    BY <1>2, <1>7, <2>1, FirstLoop DEF LoopSeesDrop, Owing
  <2>3. Signals'
    <3>1. wait' \notin waitDone /\ pub.wait # wait'
      BY <1>3, <2>2
    <3>2. ~Dialled'
      BY <1>2, <2>1, <2>2 DEF Dialled
    <3>3. QED
      BY <1>1, <2>2, <3>1, <3>2 DEF Once, Signals
  <2>4. Explained'
    BY <1>1, <2>2 DEF Explained
  <2>5. DialsPaid'
    <3>1. Budget' = Budget /\ dials' = dials
      BY <1>1, <2>2 DEF Budget, connVars
    <3>2. wait' <= dials
      BY <1>3, <1>4, <2>2
    <3>3. QED
      BY <1>3, <1>4, <2>2, <3>1, <3>2 DEF DialsPaid
  <2>6. QED
    BY <1>5, <2>1, <2>2, <2>3, <2>4, <2>5
<1>8. CASE LoopDials(l) \/ LoopDialFails(l)
  <2>1. PICK x : /\ loop' = [loop EXCEPT ![1] = x] /\ x.at \in {"dial", "dialed"}
                 /\ (LoopDials(l) <=> x.at = "dialed")
    BY <1>2, <1>8 DEF LoopDials, LoopDialFails, LoopState
  <2>2. /\ loop'[1] = x /\ \A k \in Loop : loop'[k] = IF k = 1 THEN x ELSE loop[k]
        /\ UNCHANGED <<signalVars, crashed>> /\ Redialling /\ Owing /\ loop[1].at = "dial"
    BY <1>2, <1>8, <2>1, FirstLoop DEF LoopDials, LoopDialFails, Redialling, Owing
  <2>3. ~connected /\ wait \notin waitDone /\ ~(pub.connected /\ pub.wait = wait)
    BY <2>2 DEF Once, Signals
  <2>4. x.at = "dialed" => conn' = dials + 1 /\ dials' = dials + 1 /\ conn' \in open' /\ faults' = faults
    BY <2>1 DEF LoopDials, DialSucceeds
  <2>5. x.at = "dial" => dials' \in {dials, dials + 1} /\ faults' = faults + 1
    BY <1>8, <2>1 DEF LoopDialFails, DialFails, ChannelFails, DialSucceeds, Fault
  <2>6. Signals'
    <3>1. Dialled' => conn' # NoConn
      BY <1>2, <1>3, <2>1, <2>2, <2>4 DEF NoConn, Dialled
    <3>2. QED
      BY <1>1, <2>2, <2>3, <3>1 DEF Once, Signals, signalVars
  <2>7. Explained'
    BY <1>1, <2>2 DEF Once, Explained, signalVars
  <2>8. DialsPaid'
    <3>1. dials < Budget /\ wait <= dials /\ wait' = wait
      BY <1>3, <1>4, <2>2 DEF signalVars
    <3>2. CASE x.at = "dialed"
      <4>1. Budget' = Budget
        BY <1>1, <2>4, <3>2 DEF Budget
      <4>2. ~Owing'
        BY <1>1, <1>2, <2>2, <2>4, <3>2 DEF Owing, Starting
      <4>3. QED
        BY <1>3, <2>2, <2>4, <3>1, <3>2, <4>1, <4>2 DEF DialsPaid
    <3>3. CASE x.at = "dial"
      <4>1. Budget' = Budget + 1
        BY <1>1, <1>3, <2>5, <3>3 DEF Budget
      <4>2. QED
        BY <1>3, <2>2, <2>5, <3>1, <3>3, <4>1 DEF DialsPaid
    <3>4. QED
      BY <2>1, <3>2, <3>3
  <2>9. QED
    BY <1>5, <2>1, <2>2, <2>6, <2>7, <2>8
<1>9. CASE LoopSignals(l)
  <2>1. PICK x : loop' = [loop EXCEPT ![1] = x] /\ x.at = "enter"
    <3>1. loop' = [loop EXCEPT ![1] = [loop[1] EXCEPT !.at = "enter"]]
      BY <1>2, <1>9 DEF LoopSignals
    <3>2. [loop[1] EXCEPT !.at = "enter"].at = "enter"
      BY <1>2, FirstLoop DEF LoopState
    <3>3. QED
      BY <3>1, <3>2
  <2>2. /\ loop'[1] = x /\ \A k \in Loop : loop'[k] = IF k = 1 THEN x ELSE loop[k]
        /\ UNCHANGED <<connVars, faults>> /\ Redialling /\ loop[1].at = "dialed"
    BY <1>2, <1>9, <2>1, FirstLoop DEF LoopSignals, Redialling
  <2>3. wait \notin waitDone /\ ~(pub.connected /\ pub.wait = wait) /\ conn # NoConn
    <3>1. Dialled
      BY <2>2, FirstLoop DEF Dialled
    <3>2. QED
      BY <2>2, <3>1 DEF Once, Signals
  <2>4. connected' = TRUE /\ wait' = wait /\ crashed' = crashed /\ waitDone \subseteq waitDone'
    BY <1>9, <2>3 DEF LoopSignals, SignalConnected
  <2>5. ~Redialling'
    BY <1>2, <2>1, <2>2 DEF Redialling
  <2>6. Signals'
    BY <1>1, <2>2, <2>3, <2>4, <2>5 DEF Once, Signals, connVars
  <2>7. Explained'
    BY <1>1, <2>4 DEF Explained
  <2>8. DialsPaid'
    <3>1. Budget' = Budget /\ dials' = dials
      BY <1>1, <2>2 DEF Budget, connVars
    <3>2. Owing' => Owing
      BY <1>1, <1>2, <2>1, <2>2 DEF Owing, Starting, connVars
    <3>3. QED
      BY <1>3, <1>4, <2>1, <2>2, <2>4, <3>1, <3>2 DEF DialsPaid
  <2>9. QED
    BY <1>5, <2>1, <2>2, <2>6, <2>7, <2>8
<1>10. QED
  BY <1>6, <1>7, <1>8, <1>9 DEF LoopStep

-----------------------------------------------------------------------------
(* The subscriber and the publisher.                                       *)

LEMMA SubOnce ==
    ASSUME Shape, ~Reused, Once, SubStep
    PROVE  Once'
<1>1. SubQuiet
  BY DEF SubStep, SubChecks, SubWakes, SubConsumes, SubOpens, SubStores, SubLoses
<1>2. /\ BeforeFirst' /\ ClosedOnce' /\ Signals' /\ Explained'
  <2>1. BeforeFirst' /\ ClosedOnce'
    BY <1>1 DEF Once, BeforeFirst, ClosedOnce, Starting, SubQuiet, connVars, signalVars
  <2>2. sub'.at \in {"consume", "open"} => sub'.wait \in waitDone
    <3>1. sub \in SubState(dials, close, wait)
      BY DEF Shape, ThreadShape
    <3>2. CASE SubChecks \/ SubWakes
      BY <3>1, <3>2 DEF SubChecks, SubWakes, SubEnds, SubState
    <3>3. CASE SubConsumes \/ SubOpens
      BY <3>1, <3>3 DEF SubConsumes, SubOpens, SubState, Once, Signals
    <3>4. CASE SubStores \/ SubLoses
      BY <3>1, <3>4 DEF SubStores, SubLoses, SubState
    <3>5. QED
      BY <3>2, <3>3, <3>4 DEF SubStep
  <2>3. Signals'
    BY <1>1, <2>2 DEF Once, Signals, Redialling, Dialled, SubQuiet, connVars, signalVars
  <2>4. Explained'
    <3>1. CASE UNCHANGED crashed
      BY <3>1 DEF Explained, SubStep, SubChecks, SubWakes, SubConsumes, SubOpens, SubStores,
         SubLoses, Alive
    <3>2. CASE crashed' # crashed
      <4>1. /\ crashed' = "nil in Consume" /\ sub.at = "open" /\ conn = NoConn
            /\ sub' = sub
        BY <3>2 DEF SubStep, SubChecks, SubWakes, SubConsumes, SubOpens, SubStores, SubLoses
      <4>2. ~connected /\ sub.wait # wait
        BY <4>1 DEF Once, Signals
      <4>3. QED
        BY <1>1, <4>1, <4>2 DEF Explained, SubQuiet, signalVars
    <3>3. QED
      BY <3>1, <3>2
  <2>5. QED
    BY <2>1, <2>3, <2>4
<1>3. DialsPaid'
  BY <1>1 DEF Once, DialsPaid, Owing, Budget, Starting, SubQuiet, connVars, signalVars
<1>4. QED
  BY <1>2, <1>3 DEF Once

LEMMA PubMoves ==
    ASSUME PubInits \/ PubSends
    PROVE  pub' = pub \/ pub'.connected = FALSE \/ pub'.connected = connected
<1> DEFINE ready == [at |-> "ready", wait |-> wait, connected |-> connected]
<1>1. pub' = pub \/ pub' = PubIdle \/ pub' = ready
  BY DEF PubInits, PubSends
<1>2. PubIdle.connected = FALSE /\ ready.connected = connected
  BY DEF PubIdle
<1>3. QED
  BY <1>1, <1>2

LEMMA PubOnce ==
    ASSUME Shape, ~Reused, Once, PubInits \/ PubSends
    PROVE  Once'
<1>1. UNCHANGED <<open, dials, conn, connected, close, closeDone, wait, waitDone, starts, faults, user,
                  loop, sub>>
  BY DEF PubInits, PubSends, PubQuiet, connVars
<1>2. (pub'.connected => pub.connected \/ connected) /\ (connected => conn # NoConn)
  BY PubMoves, Zenon DEF Once, Signals
<1>3. BeforeFirst' /\ ClosedOnce'
  BY <1>1, <1>2 DEF Once, BeforeFirst, ClosedOnce, Starting
<1>4. Redialling => ~(pub'.connected /\ pub'.wait = wait)
  BY PubMoves, Zenon DEF Once, Signals
<1>5. connected /\ pub'.connected /\ pub'.wait = wait => exchange' # NoConn
  BY <1>2 DEF PubInits, PubSends, PubIdle, Once, Signals
<1>6. Signals'
  BY <1>1, <1>4, <1>5 DEF Once, Signals, Redialling, Dialled
<1>7. Explained'
  <2>1. CASE UNCHANGED crashed
    BY <2>1 DEF PubInits, PubSends, Alive, Explained
  <2>2. CASE crashed' # crashed
    <3>1. crashed' = "nil in Publish" /\ pub' = pub
          /\ (exchange = NoConn /\ (conn = NoConn \/ pub.at = "ready"))
      BY <2>2 DEF PubInits, PubSends
    <3>2. ~(connected /\ pub.connected /\ pub.wait = wait)
      BY <1>2, <3>1 DEF Once, Signals
    <3>3. QED
      BY <1>1, <3>1, <3>2 DEF Explained
  <2>3. QED
    BY <2>1, <2>2
<1>8. DialsPaid'
  BY <1>1 DEF Once, DialsPaid, Owing, Budget, Starting
<1>9. QED
  BY <1>3, <1>6, <1>7, <1>8 DEF Once

-----------------------------------------------------------------------------
(* The theorems.                                                           *)

LEMMA IInvInit == Init => IInv
<1> SUFFICES ASSUME Init PROVE IInv
  OBVIOUS
<1>1. Bounds /\ SignalShape
  <2>1. 0 \in 0..MaxStarts /\ 0 \in 0..MaxFaults
    BY FirstLoop
  <2>2. QED
    BY <2>1 DEF Init, Bounds, SignalShape, UserAt, Panic
<1>2. ConnShape
  BY DEF Init, ConnShape, NoConn
<1>3. ThreadShape
  BY DEF Init, ThreadShape, LoopState, LoopOff, SubState, SubOff, PubState, PubIdle, NoConn
<1>4. /\ \A l \in Loop : loop[l].at = "off"
      /\ user = "out" /\ starts = 0 /\ ~connected /\ ~pub.connected /\ wait = 0 /\ waitDone = {}
      /\ close = 0 /\ ~closeDone /\ crashed = "no" /\ dials = 0 /\ faults = 0
      /\ sub.at = "off"
  BY DEF Init, LoopOff, PubIdle, SubOff
<1>5. BeforeFirst /\ ClosedOnce /\ Signals /\ Explained
  BY <1>4 DEF BeforeFirst, ClosedOnce, Signals, Explained, Starting, Redialling, Dialled
<1>6. DialsPaid
  BY <1>4 DEF DialsPaid, Budget, Starting
<1>7. QED
  BY <1>1, <1>2, <1>3, <1>5, <1>6 DEF IInv, Shape, Once

LEMMA IInvStep == IInv /\ [Next]_vars => IInv'
<1> SUFFICES ASSUME IInv, [Next]_vars PROVE IInv'
  OBVIOUS
<1>1. CASE Next
  <2>1. Shape'
    BY <1>1, ShapeStep DEF IInv
  <2>2. ASSUME ~Reused'
        PROVE  Once'
    <3>1. CASE Start
      BY <2>2, <3>1, FirstStartOnce DEF IInv
    <3>2. CASE ~Start
      <4>1. ~Reused /\ Once
        BY <1>1, <2>2, <3>2, StepCases DEF Reused, IInv
      <4>2. QED
        BY <1>1, <3>2, <4>1, StepCases, StartDialsOnce, StartSignalsOnce, QuietUserOnce,
           StopOnce, DropsOnce,
           LoopStepOnce, SubOnce, PubOnce DEF IInv, UserStep
    <3>3. QED
      BY <3>1, <3>2
  <2>3. QED
    BY <2>1, <2>2 DEF IInv
<1>2. CASE UNCHANGED vars
  <2>1. Shape'
    BY <1>2 DEF IInv, Shape, Bounds, ConnShape, SignalShape, ThreadShape, vars, connVars, signalVars
  <2>2. Once => Once'
    BY <1>2 DEF Once, BeforeFirst, ClosedOnce, Signals, DialsPaid, Explained, Starting, Redialling,
       Dialled,
       Owing, Budget, vars, connVars, signalVars
  <2>3. QED
    BY <1>2, <2>1, <2>2 DEF IInv, Reused, vars
<1>3. QED
  BY <1>1, <1>2

LEMMA Invariance == Spec => []IInv
<1>1. QED
  BY IInvInit, IInvStep, PTL DEF Spec

(* For any number of Starts and faults: after the first Start there is     *)
(* always a loop to notice that the connection under a connected client is *)
(* gone.                                                                   *)
THEOREM DropIsNoticed == Spec => []DropNoticed
<1>1. IInv => DropNoticed
  BY FirstLoop DEF IInv, Once, BeforeFirst, ClosedOnce, DropNoticed, LoopRuns, Starting
<1>2. QED
  BY <1>1, Invariance, PTL

(* For any number of Starts and faults: before the second Start no channel *)
(* is closed twice and the loop meets no nil connection; no Publish within *)
(* one connected period meets one; and a consumer that does has found the  *)
(* flag up before a drop that it has not yet heard of, and lost the        *)
(* connection to it.                                                       *)
THEOREM FirstStartPanics == Spec => [](~Reused => Explained)
<1>1. IInv => (~Reused => Explained)
  BY DEF IInv, Once
<1>2. QED
  BY <1>1, Invariance, PTL

(* A server that is started once: the same, and the dials are no more than *)
(* the faults it meets, its first Start and its Close account for.         *)
THEOREM OneStart ==
    ASSUME MaxStarts = 1
    PROVE  Spec => []PanicsExplained
<1>1. IInv => PanicsExplained
  <2> SUFFICES ASSUME IInv PROVE PanicsExplained
    OBVIOUS
  <2>1. Shape /\ ~Reused /\ Once
    BY DEF IInv, Shape, Bounds, Reused
  <2>2. /\ dials \in Nat /\ faults \in 0..MaxFaults /\ MaxFaults \in Nat /\ MaxDials = 2 + MaxFaults
        /\ wait \in Nat /\ starts \in 0..1 /\ close = 0
    BY <2>1, FirstLoop DEF Shape, Bounds, ConnShape, SignalShape, MaxDials, Once, ClosedOnce
  <2>3. dials <= MaxDials
    BY <2>1, <2>2 DEF Once, DialsPaid, Budget
  <2>4. wait <= dials
    BY <2>1, <2>2 DEF Once, DialsPaid, BeforeFirst
  <2>5. 0..dials \subseteq 0..MaxDials /\ 1..dials \subseteq 1..MaxDials /\ 0..close \subseteq 0..MaxStarts
    BY <2>2, <2>3
  <2>6. loop \in [Loop -> LoopState(MaxDials, MaxStarts)]
    <3>1. \A l \in Loop : loop[l] \in LoopState(MaxDials, MaxStarts)
      BY <2>1, <2>5 DEF Shape, ThreadShape, LoopState
    <3>2. QED
      BY <2>1, <3>1 DEF Shape, ThreadShape
  <2>7. sub \in SubState(MaxDials, MaxStarts, wait)
    BY <2>1, <2>5 DEF Shape, ThreadShape, SubState
  <2>8. TypeOK
    BY <2>1, <2>2, <2>3, <2>4, <2>5, <2>6, <2>7
       DEF TypeOK, Shape, Bounds, ConnShape, SignalShape, ThreadShape, Conn
  <2>9. QED
    BY <2>1, <2>8 DEF PanicsExplained, Once
<1>2. QED
  BY <1>1, Invariance, PTL

-----------------------------------------------------------------------------
(***************************************************************************)
(* transport/sse.                                                          *)
(***************************************************************************)

(* A set of numbers that is not empty has a least element: the finite      *)
(* sets 0..x are well founded.                                             *)
LEMMA Least ==
    ASSUME NEW T \in SUBSET Nat, T # {}
    PROVE  \E x \in T : \A y \in T : x <= y
<1> DEFINE Below == {U \in FiniteSubsetsOf(Nat) : \E x \in T : U = 0..x}
<1>1. ASSUME NEW x \in T
      PROVE  0..x \in Below
    BY <1>1, FS_Interval DEF FiniteSubsetsOf
<1>2. Below \subseteq FiniteSubsetsOf(Nat) /\ Below # {}
    BY <1>1
<1> HIDE DEF Below
<1>3. PICK U \in Below : \A V \in Below : <<V, U>> \notin StrictSubsetOrdering(Nat)
    BY <1>2, FS_StrictSubsetOrderingWellFounded, WFMin
<1>4. PICK x \in T : U = 0..x
    BY <1>3 DEF Below
<1>5. ASSUME NEW y \in T, y < x
      PROVE  FALSE
  <2>1. 0..y \in SUBSET (0..x) /\ x \notin 0..y /\ x \in 0..x
      BY <1>5
  <2>2. <<0..y, 0..x>> \in StrictSubsetOrdering(Nat)
      BY <2>1, <1>5 DEF StrictSubsetOrdering
  <2>3. QED
      BY <2>2, <1>1, <1>3, <1>4
<1>6. QED
    BY <1>5

(* Induction over the numbers, for sets.                                   *)
LEMMA Inducts ==
    ASSUME NEW S \in SUBSET Nat, 0 \in S, \A n \in S : n + 1 \in S
    PROVE  S = Nat
<1> SUFFICES ASSUME S # Nat PROVE FALSE
    OBVIOUS
<1>1. PICK x \in Nat \ S : \A y \in Nat \ S : x <= y
    BY Least
<1>2. x - 1 \in S
    BY <1>1
<1>3. QED
    BY <1>1, <1>2

\* One turn of the loop.
KeepOne(l, id, f, i) ==
    IF i = 0 THEN <<>> ELSE IF l[i] >= id THEN Append(f[i - 1], l[i]) ELSE f[i - 1]

(* The loop over the log: what it has kept after i events is defined.      *)
LEMMA LoopDefined ==
    ASSUME NEW l \in Seq(Event), NEW id \in Nat
    PROVE  \E f : f = [i \in 0..Len(l) |-> KeepOne(l, id, f, i)]
<1> DEFINE Solves(f, n) == /\ f = [i \in 0..n |-> f[i]]
                           /\ \A i \in 0..n : f[i] = KeepOne(l, id, f, i)
           S == {n \in Nat : \E f : Solves(f, n)}
<1>1. 0 \in S
  <2> DEFINE f == [i \in 0..0 |-> <<>>]
  <2>1. Solves(f, 0)
      BY DEF KeepOne
  <2>2. QED
      BY <2>1
<1>2. ASSUME NEW n \in S
      PROVE  n + 1 \in S
  <2>1. PICK f : Solves(f, n)
      OBVIOUS
  <2> DEFINE g == [i \in 0..(n + 1) |-> IF i = n + 1 THEN KeepOne(l, id, f, i) ELSE f[i]]
  <2>2. ASSUME NEW i \in 0..(n + 1)
        PROVE  g[i] = KeepOne(l, id, g, i)
    <3>1. CASE i = 0
      <4>0. n \in Nat
          OBVIOUS
      <4>1. f[0] = KeepOne(l, id, f, 0)
          BY <2>1, <4>0
      <4>1a. g[0] = f[0]
          BY <4>0
      <4>2. KeepOne(l, id, f, 0) = <<>> /\ KeepOne(l, id, g, 0) = <<>>
          BY DEF KeepOne
      <4>3. QED
          BY <3>1, <4>1, <4>1a, <4>2
    <3>2. CASE i \in 1..n
      <4>1. g[i] = f[i] /\ g[i - 1] = f[i - 1]
          BY <3>2
      <4>2. f[i] = KeepOne(l, id, f, i)
          BY <3>2, <2>1
      <4>3. KeepOne(l, id, f, i) = KeepOne(l, id, g, i)
          BY <4>1 DEF KeepOne
      <4>4. QED
          BY <4>1, <4>2, <4>3
    <3>3. CASE i = n + 1
      <4>1. g[i] = KeepOne(l, id, f, i) /\ g[i - 1] = f[i - 1]
          BY <3>3
      <4>2. QED
          BY <4>1 DEF KeepOne
    <3>4. QED
        BY <3>1, <3>2, <3>3
  <2>3. Solves(g, n + 1)
      BY <2>2
  <2> HIDE DEF g, Solves
  <2>4. QED
      BY <2>3
<1>3. Len(l) \in S
  <2>1. S \in SUBSET Nat /\ Len(l) \in Nat
      OBVIOUS
  <2> HIDE DEF S
  <2>2. QED
      BY <1>1, <1>2, <2>1, Inducts
<1>4. PICK f : Solves(f, Len(l))
    BY <1>3
<1>5. f = [i \in 0..Len(l) |-> KeepOne(l, id, f, i)]
    BY <1>4
<1>6. QED
    BY <1>5

(* Since is what that loop has kept at the end.                            *)
LEMMA SinceIsLoop ==
    ASSUME NEW l \in Seq(Event), NEW id \in Nat
    PROVE  \E f : f = [i \in 0..Len(l) |-> KeepOne(l, id, f, i)] /\ Since(l, id) = f[Len(l)]
<1>1. \E f : f = [i \in 0..Len(l) |->
                   IF i = 0 THEN <<>>
                   ELSE IF l[i] >= id THEN Append(f[i - 1], l[i]) ELSE f[i - 1]]
    BY LoopDefined DEF KeepOne
<1> DEFINE kept[i \in 0..Len(l)] ==
                 IF i = 0 THEN <<>>
                 ELSE IF l[i] >= id THEN Append(kept[i - 1], l[i]) ELSE kept[i - 1]
<1>2. kept = [i \in 0..Len(l) |-> IF i = 0 THEN <<>>
                 ELSE IF l[i] >= id THEN Append(kept[i - 1], l[i]) ELSE kept[i - 1]]
    BY <1>1, Zenon
<1>3. Since(l, id) = kept[Len(l)]
    BY Zenon DEF Since
<1> HIDE DEF kept
<1>4. kept = [i \in 0..Len(l) |-> KeepOne(l, id, kept, i)]
    BY <1>2, Zenon DEF KeepOne
<1>5. QED
    BY <1>3, <1>4

(* Nothing that is due is left out of a replay.                            *)
LEMMA SinceFilters ==
    ASSUME NEW l \in Seq(Event), NEW id \in Nat
    PROVE  /\ Since(l, id) \in Seq(Event)
           /\ \A j \in 1..Len(l) : l[j] >= id =>
                 \E k \in 1..Len(Since(l, id)) : Since(l, id)[k] = l[j]
<1>1. PICK f : f = [i \in 0..Len(l) |-> KeepOne(l, id, f, i)] /\ Since(l, id) = f[Len(l)]
    BY SinceIsLoop
<1>2. \A i \in 0..Len(l) : f[i] = KeepOne(l, id, f, i)
    BY <1>1
<1> DEFINE Good(i) == /\ f[i] \in Seq(Event)
                      /\ \A j \in 1..i : l[j] >= id => \E k \in 1..Len(f[i]) : f[i][k] = l[j]
           S == {n \in Nat : n <= Len(l) => Good(n)}
<1>3. 0 \in S
  <2>1. 0 \in 0..Len(l)
      OBVIOUS
  <2>2. f[0] = <<>>
      BY <1>2, <2>1 DEF KeepOne
  <2>3. Good(0)
      BY <2>2
  <2>4. QED
      BY <2>3
<1>4. ASSUME NEW n \in S
      PROVE  n + 1 \in S
  <2> SUFFICES ASSUME n + 1 <= Len(l)
               PROVE  Good(n + 1)
      OBVIOUS
  <2>1. Good(n) /\ l[n + 1] \in Event /\ n \in Nat
      OBVIOUS
  <2>2. f[n + 1] = IF l[n + 1] >= id THEN Append(f[n], l[n + 1]) ELSE f[n]
      BY <1>2, <2>1 DEF KeepOne
  <2>3. CASE l[n + 1] >= id
    <3>1. f[n + 1] = Append(f[n], l[n + 1])
        BY <2>2, <2>3
    <3>2. f[n + 1] \in Seq(Event) /\ Len(f[n + 1]) = Len(f[n]) + 1
          /\ f[n + 1][Len(f[n]) + 1] = l[n + 1]
          /\ \A k \in 1..Len(f[n]) : f[n + 1][k] = f[n][k]
        BY <3>1, <2>1
    <3>3. ASSUME NEW j \in 1..(n + 1), l[j] >= id
          PROVE  \E k \in 1..Len(f[n + 1]) : f[n + 1][k] = l[j]
      <4>1. CASE j = n + 1
        <5>1. Len(f[n]) \in Nat
            BY <2>1
        <5>2. Len(f[n]) + 1 \in 1..Len(f[n + 1]) /\ f[n + 1][Len(f[n]) + 1] = l[j]
            BY <4>1, <3>2, <5>1
        <5>3. QED
            BY <5>2
      <4>2. CASE j \in 1..n
        <5>1. PICK k \in 1..Len(f[n]) : f[n][k] = l[j]
            BY <4>2, <3>3, <2>1
        <5>2. k \in 1..Len(f[n + 1]) /\ f[n + 1][k] = l[j]
            BY <5>1, <3>2, <2>1
        <5>3. QED
            BY <5>2
      <4>3. QED
          BY <4>1, <4>2, <2>1
    <3>4. QED
        BY <3>2, <3>3
  <2>4. CASE ~(l[n + 1] >= id)
    <3>1. f[n + 1] = f[n]
        BY <2>2, <2>4
    <3>2. \A j \in 1..(n + 1) : l[j] >= id => j \in 1..n
        BY <2>1, <2>4
    <3>3. QED
        BY <3>1, <3>2, <2>1
  <2>5. QED
      BY <2>3, <2>4
<1>5. S = Nat
  <2>1. S \in SUBSET Nat
      OBVIOUS
  <2> HIDE DEF S
  <2>2. QED
      BY <1>3, <1>4, <2>1, Inducts
<1>6. Len(l) \in S
    BY <1>5
<1>7. QED
    BY <1>6, <1>1
-----------------------------------------------------------------------------
(* Sequences of events.                                                    *)

LEMMA HandOver ==
    ASSUME NEW d \in Seq(Event), NEW q \in Seq(Event), q # <<>>
    PROVE  Append(d, Head(q)) \o Tail(q) = d \o q
<1> DEFINE h == <<Head(q)>>
           t == Tail(q)
<1>1. Head(q) \in Event /\ h \in Seq(Event) /\ t \in Seq(Event)
    BY HeadTailProperties
<1>2. q = h \o t
  <2>1. Len(q) \in Nat \ {0} /\ Head(q) = q[1]
      OBVIOUS
  <2>2. SubSeq(q, 1, Len(q)) = <<q[1]>> \o SubSeq(q, 2, Len(q))
      BY <2>1, SubSeqRecursiveFirst
  <2>3. QED
      BY <2>1, <2>2, SubSeqFull, TailIsSubSeq
<1>3. Append(d, Head(q)) = d \o h
    BY <1>1, AppendIsConcat
<1> HIDE DEF h, t
<1>4. (d \o h) \o t = d \o (h \o t)
    BY <1>1, ConcatAssociative
<1>5. QED
    BY <1>2, <1>3, <1>4 DEF t

(* Append commutes with a concatenation on its left.                       *)
LEMMA AppendRight ==
    ASSUME NEW a \in Seq(Event), NEW b \in Seq(Event), NEW e \in Event
    PROVE  a \o Append(b, e) = Append(a \o b, e)
<1> DEFINE t == <<e>>
<1>1. t \in Seq(Event) /\ a \o b \in Seq(Event)
    BY ConcatProperties
<1>2. Append(b, e) = b \o t /\ Append(a \o b, e) = (a \o b) \o t
    BY <1>1, AppendIsConcat
<1> HIDE DEF t
<1>3. (a \o b) \o t = a \o (b \o t)
    BY <1>1, ConcatAssociative
<1>4. QED
    BY <1>2, <1>3

(* One more event: what was there before a registration stays, what came   *)
(* after it is one longer.                                                 *)
LEMMA OneMoreEvent ==
    ASSUME NEW q \in Seq(Event), NEW e \in Event, NEW b \in 0..Len(q)
    PROVE  /\ SubSeq(Append(q, e), 1, b) = SubSeq(q, 1, b)
           /\ SubSeq(Append(q, e), b + 1, Len(q) + 1) = Append(SubSeq(q, b + 1, Len(q)), e)
<1> DEFINE p == Append(q, e)
           n == Len(q)
<1>1. /\ p \in Seq(Event) /\ Len(p) = n + 1 /\ p[n + 1] = e /\ n \in Nat
      /\ \A i \in 1..n : p[i] = q[i]
    BY AppendProperties
<1>2. ASSUME NEW m \in Int, NEW k \in Int, 1 <= m, k <= n
      PROVE  SubSeq(p, m, k) = SubSeq(q, m, k)
  <2>1. \A i \in m..k : p[i] = q[i] /\ q[i] \in Event
      BY <1>1, <1>2
  <2> HIDE DEF p, n
  <2>2. /\ SubSeq(p, m, k) \in Seq(Event) /\ Len(SubSeq(p, m, k)) = IF m <= k THEN k - m + 1 ELSE 0
        /\ \A i \in 1..(k - m + 1) : SubSeq(p, m, k)[i] = p[m + i - 1]
      BY <2>1, SubSeqProperties
  <2>3. /\ SubSeq(q, m, k) \in Seq(Event) /\ Len(SubSeq(q, m, k)) = IF m <= k THEN k - m + 1 ELSE 0
        /\ \A i \in 1..(k - m + 1) : SubSeq(q, m, k)[i] = q[m + i - 1]
      BY <2>1, SubSeqProperties
  <2>4. \A i \in 1..Len(SubSeq(p, m, k)) : SubSeq(p, m, k)[i] = SubSeq(q, m, k)[i]
      BY <2>1, <2>2, <2>3
  <2>5. QED
      BY <2>2, <2>3, <2>4, SeqEqual
<1>3. SubSeq(p, 1, b) = SubSeq(q, 1, b) /\ SubSeq(p, b + 1, n) = SubSeq(q, b + 1, n)
    BY <1>1, <1>2
<1>4. SubSeq(p, b + 1, n + 1) = SubSeq(p, b + 1, n) \o <<p[n + 1]>>
  <2> DEFINE from == b + 1
             to == n + 1
  <2>1. from \in 1..Len(p) /\ to \in from..Len(p) /\ to - 1 = n
      BY <1>1
  <2>2. \A m \in 1..Len(p) : \A k \in m..Len(p) :
           SubSeq(p, m, k) = SubSeq(p, m, k - 1) \o <<p[k]>>
      BY <1>1, SubSeqRecursiveSecond
  <2> HIDE DEF p, n, from, to
  <2>3. SubSeq(p, from, to) = SubSeq(p, from, n) \o <<p[to]>>
      BY <2>1, <2>2
  <2>4. QED
      BY <2>3 DEF from, to
<1>5. SubSeq(q, b + 1, n) \in Seq(Event)
  <2>1. \A i \in (b + 1)..n : q[i] \in Event
      OBVIOUS
  <2>2. b + 1 \in Int /\ n \in Int
      BY <1>1
  <2> HIDE DEF p, n
  <2>3. QED
      BY <2>1, <2>2, SubSeqProperties
<1>6. Append(SubSeq(q, b + 1, n), e) = SubSeq(q, b + 1, n) \o <<e>>
  <2> HIDE DEF p, n
  <2> QED
      BY <1>5, AppendIsConcat
<1>7. QED
    BY <1>1, <1>3, <1>4, <1>6

(* A prefix stays one when an event is appended.                           *)
LEMMA PrefixGrows ==
    ASSUME NEW x \in Seq(Event), NEW y \in Seq(Event), NEW e \in Event, IsPrefix(x, y)
    PROVE  IsPrefix(x, Append(y, e))
<1>1. Len(x) \in 0..Len(y) /\ SubSeq(x, 1, Len(x)) = SubSeq(y, 1, Len(x))
    BY DEF IsPrefix
<1>2. SubSeq(Append(y, e), 1, Len(x)) = SubSeq(y, 1, Len(x))
    BY <1>1, OneMoreEvent
<1>3. QED
    BY <1>1, <1>2, AppendProperties DEF IsPrefix

-----------------------------------------------------------------------------

(* Requests are finitely many, and disjoint groups of them add up.         *)
LEMMA Groups ==
    /\ MaxReqs \in Nat /\ MaxEvents \in Nat /\ ConnBuffer \in Nat \ {0}
    /\ \A S \in SUBSET Req : IsFiniteSet(S) /\ Cardinality(S) \in 0..MaxReqs
<1>1. IsFiniteSet(Req) /\ Cardinality(Req) = MaxReqs
    BY SseAssumption, FS_Interval DEF Req
<1>2. ASSUME NEW S \in SUBSET Req
      PROVE  IsFiniteSet(S) /\ Cardinality(S) \in 0..MaxReqs
  <2>1. IsFiniteSet(S) /\ Cardinality(S) <= Cardinality(Req)
      BY <1>1, FS_Subset
  <2>2. Cardinality(S) \in Nat
      BY <2>1, FS_CardinalityType
  <2>3. QED
      BY <2>1, <2>2, <1>1, SseAssumption
<1>3. QED
    BY <1>2, SseAssumption

(* Disjoint groups add up.                                                 *)
LEMMA GroupsAdd ==
    ASSUME NEW S \in SUBSET Req, NEW T \in SUBSET Req, S \cap T = {}
    PROVE  Cardinality(S \cup T) = Cardinality(S) + Cardinality(T)
<1>1. /\ IsFiniteSet(S) /\ Cardinality(S) \in Nat
      /\ IsFiniteSet(T) /\ Cardinality(T) \in Nat
    BY Groups
<1>2. Cardinality(S \cup T) = Cardinality(S) + Cardinality(T) - Cardinality(S \cap T)
    BY <1>1, FS_Union
<1>3. Cardinality(S \cap T) = 0
    BY FS_EmptySet
<1>4. QED
    BY <1>1, <1>2, <1>3

(* One request more, or one less.                                          *)
LEMMA OneMore ==
    ASSUME NEW S \in SUBSET Req, NEW r \in Req
    PROVE  /\ r \notin S => Cardinality(S \cup {r}) = Cardinality(S) + 1
           /\ r \in S => Cardinality(S \ {r}) = Cardinality(S) - 1
    BY Groups, FS_AddElement, FS_RemoveElement

(* A part of a group is not larger.                                        *)
LEMMA Within ==
    ASSUME NEW S \in SUBSET Req, NEW T \in SUBSET S
    PROVE  Cardinality(T) <= Cardinality(S)
    BY Groups, FS_Subset

-----------------------------------------------------------------------------
(* Types.                                                                  *)

\* SseTypeOK without the bound of the count, which Counted gives.
Plain ==
    /\ config \in Options
    /\ current \in 0..made /\ made \in 0..(MaxReqs + 1)
    /\ ended \subseteq quit /\ quit \subseteq 1..made
    /\ log \in [Stream -> Seq(Event)] /\ sent \in [Stream -> Seq(Event)]
    /\ \A s \in Stream : Len(log[s]) <= LogSize /\ Len(sent[s]) <= clock
    /\ subs \in [Stream -> SUBSET Req]
    /\ count \in [Stream -> Int]
    /\ req \in [Req -> Request]
    /\ \A r \in Req : Len(req[r].queue) <= ConnBuffer
    /\ clock \in 0..MaxEvents /\ removes \in 0..MaxRemoves

(* The settings have their types.                                          *)
LEMMA Settings ==
    ASSUME config \in Options
    PROVE  autoStream \in BOOLEAN /\ autoReplay \in BOOLEAN /\ LogSize \in Nat \ {0}
    BY SseAssumption DEF autoStream, autoReplay, LogSize

(* SseTypeOK is Plain with a bound for the count.                          *)
LEMMA Bounded ==
    SseTypeOK <=> Plain /\ count \in [Stream -> -MaxReqs..MaxReqs]
<1>1. -MaxReqs..MaxReqs \subseteq Int
    BY Groups
<1>2. QED
    BY <1>1 DEF SseTypeOK, Plain

(* The window keeps its size, and what it holds are events.                *)
LEMMA TrimTyped ==
    ASSUME config \in Options, NEW l \in Seq(Event)
    PROVE  Trim(l) \in Seq(Event) /\ Len(Trim(l)) <= LogSize
<1>1. LogSize \in Nat \ {0}
    BY Settings
<1>2. CASE Len(l) <= LogSize
    BY <1>2 DEF Trim
<1>3. CASE ~(Len(l) <= LogSize)
  <2>1. Trim(l) = SubSeq(l, Len(l) - LogSize + 1, Len(l))
      BY <1>3 DEF Trim
  <2>2. QED
      BY <2>1, <1>1, <1>3
<1>4. QED
    BY <1>2, <1>3

(* A request that a step changes is the only one.                          *)
LEMMA Changed ==
    ASSUME req \in [Req -> Request], NEW r \in Req, NEW x \in Request', made \in Nat,
           made' \in {made, made + 1}, req' = [req EXCEPT ![r] = x]
    PROVE  /\ req' \in [Req -> Request'] /\ req'[r] = x
           /\ \A q \in Req : q # r => req'[q] = req[q]
<1>1. Request \subseteq Request'
  <2>1. 0..made \subseteq 0..made'
      OBVIOUS
  <2>2. QED
      BY <2>1 DEF Request
<1>2. QED
    BY <1>1

(* A step that moves one request, with what else it may touch.             *)
LEMMA OnePlain ==
    ASSUME Plain, NEW r \in Req, NEW x \in Request', Len(x.queue) <= ConnBuffer,
           req' = [req EXCEPT ![r] = x],
           made' \in {made, made + 1}, made' <= MaxReqs + 1, current' \in 0..made',
           quit \subseteq quit', quit' \subseteq 1..made',
           subs' \in [Stream -> SUBSET Req], count' \in [Stream -> Int],
           UNCHANGED <<config, ended, log, clock, sent, removes>>
    PROVE  Plain'
<1>1. made \in Nat
    BY Groups DEF Plain
<1>2. req' \in [Req -> Request'] /\ req'[r] = x /\ \A q \in Req : q # r => req'[q] = req[q]
    BY <1>1, Changed DEF Plain
<1>3. \A q \in Req : Len(req'[q].queue) <= ConnBuffer
    BY <1>2 DEF Plain
<1>4. LogSize' = LogSize
    BY DEF LogSize
<1>5. made' \in 0..(MaxReqs + 1)
    BY <1>1, Groups
<1>6. QED
    BY <1>2, <1>3, <1>4, <1>5 DEF Plain

(* The same for a step that makes no stream.                               *)
LEMMA OneHere ==
    ASSUME Plain, NEW r \in Req, NEW x \in Request, Len(x.queue) <= ConnBuffer,
           req' = [req EXCEPT ![r] = x],
           current' \in 0..made, quit \subseteq quit', quit' \subseteq 1..made,
           subs' \in [Stream -> SUBSET Req], count' \in [Stream -> Int],
           UNCHANGED <<config, made, ended, log, clock, sent, removes>>
    PROVE  Plain' /\ req'[r] = x /\ \A q \in Req : q # r => req'[q] = req[q]
<1>1. Request' = Request
    BY DEF Request
<1>2. made' \in {made, made + 1} /\ made' <= MaxReqs + 1 /\ current' \in 0..made'
      /\ quit' \subseteq 1..made'
    BY Groups DEF Plain
<1>3. Plain'
    BY <1>1, <1>2, OnePlain
<1>4. QED
    BY <1>3 DEF Plain

(* The loop keeps the types.                                               *)
LEMMA LoopPlain ==
    ASSUME Plain, NEW s \in Stream
    PROVE  Dispatch(s) \/ LoopQuits(s) => Plain'
<1> USE DEF Plain
<1>0. /\ made \in Nat /\ \A r \in Req : req[r] \in Request
      /\ MaxReqs \in Nat /\ MaxEvents \in Nat /\ ConnBuffer \in Nat \ {0}
      /\ autoStream \in BOOLEAN /\ autoReplay \in BOOLEAN /\ LogSize \in Nat \ {0}
    BY Groups, Settings
<1>1. ASSUME Dispatch(s)
      PROVE  Plain'
  <2> DEFINE e == clock + 1
             slow == {r \in subs[s] : Full(r)}
  <2>1. e \in Event /\ e \in 0..MaxEvents
      BY <1>1, <1>0 DEF Dispatch, Event
  <2>2. sent' \in [Stream -> Seq(Event)] /\ \A t \in Stream : Len(sent'[t]) <= clock'
    <3>1. /\ Append(sent[s], e) \in Seq(Event) /\ Len(Append(sent[s], e)) = Len(sent[s]) + 1
          /\ clock' = e /\ sent' = [sent EXCEPT ![s] = Append(sent[s], e)]
        BY <1>1, <2>1 DEF Dispatch
    <3>2. QED
        BY <3>1, <2>1
  <2>3. log' \in [Stream -> Seq(Event)] /\ \A t \in Stream : Len(log'[t]) <= LogSize'
    <3>1. /\ Trim(Append(log[s], e)) \in Seq(Event)
          /\ Len(Trim(Append(log[s], e))) <= LogSize
      <4>1. Append(log[s], e) \in Seq(Event)
          BY <2>1
      <4> HIDE DEF e
      <4>2. QED
          BY <4>1, TrimTyped
    <3>2. LogSize' = LogSize
        BY <1>1 DEF Dispatch, LogSize
    <3>3. log' = log \/ log' = [log EXCEPT ![s] = Trim(Append(log[s], e))]
        BY <1>1 DEF Dispatch
    <3>4. QED
        BY <3>1, <3>2, <3>3
  <2>4. count' \in [Stream -> Int]
    <3>1. slow \in SUBSET Req
        OBVIOUS
    <3>2. Cardinality(slow) \in Nat /\ count[s] \in Int
        BY <3>1, Groups
    <3>3. count' = [count EXCEPT ![s] = count[s] - Cardinality(slow)]
        BY <1>1 DEF Dispatch
    <3>4. QED
        BY <3>2, <3>3
  <2>5. /\ req' \in [Req -> Request]
        /\ \A r \in Req : Len(req'[r].queue) <= ConnBuffer
    <3>1. ASSUME NEW r \in Req
          PROVE  /\ Cut(r) \in Request /\ Receive(r, e) \in Request
                 /\ Len(Cut(r).queue) <= ConnBuffer /\ Len(Receive(r, e).queue) <= ConnBuffer
      <4>1. req[r] \in Request /\ req[r].queue \in Seq(Event)
          BY DEF Request
      <4>2. /\ Append(req[r].queue, e) \in Seq(Event)
            /\ Len(Append(req[r].queue, e)) = Len(req[r].queue) + 1
          BY <4>1, <2>1
      <4>3. Cut(r) \in Request /\ Cut(r).queue = req[r].queue
          BY <4>1 DEF Cut, Request
      <4>4. CASE Len(req[r].queue) < ConnBuffer
        <5>1. Receive(r, e) = [req[r] EXCEPT !.queue = Append(req[r].queue, e)]
            BY <4>4 DEF Receive
        <5>2. Receive(r, e) \in Request /\ Receive(r, e).queue = Append(req[r].queue, e)
            BY <5>1, <4>1, <4>2 DEF Request
        <5>3. QED
            BY <4>1, <4>2, <4>3, <4>4, <5>2, <1>0
      <4>5. CASE ~(Len(req[r].queue) < ConnBuffer)
        <5>1. Receive(r, e) = [req[r] EXCEPT !.queue = req[r].queue]
            BY <4>5 DEF Receive
        <5>2. Receive(r, e) = req[r]
            BY <5>1, <4>1 DEF Request
        <5>3. QED
            BY <4>1, <4>3, <5>2, <1>0
      <4>6. QED
          BY <4>4, <4>5
    <3>2. req' = [r \in Req |-> IF r \in slow THEN Cut(r)
                                ELSE IF r \in subs[s] THEN Receive(r, e) ELSE req[r]]
        BY <1>1 DEF Dispatch
    <3> HIDE DEF slow, e
    <3>3. QED
        BY <3>1, <3>2
  <2>6. Request' = Request
      BY <1>1 DEF Dispatch, Request
  <2>7. subs' \in [Stream -> SUBSET Req]
    <3>1. subs' = [subs EXCEPT ![s] = subs[s] \ slow] /\ subs[s] \in SUBSET Req
        BY <1>1 DEF Dispatch
    <3>2. QED
        BY <3>1
  <2>8. clock' \in 0..MaxEvents
      BY <1>1, <2>1 DEF Dispatch
  <2>9. UNCHANGED <<config, current, made, quit, ended, removes>>
      BY <1>1 DEF Dispatch
  <2> HIDE DEF e, slow
  <2>10. QED
      BY <2>2, <2>3, <2>4, <2>5, <2>6, <2>7, <2>8, <2>9
<1>2. ASSUME LoopQuits(s)
      PROVE  Plain'
  <2>1. /\ ended' = ended \cup {s} /\ s \in quit
        /\ UNCHANGED <<config, current, made, quit, log, clock, sent, removes>>
      BY <1>2 DEF LoopQuits
  <2>2. \A r \in Req : Cut(r) \in Request /\ Cut(r).queue = req[r].queue
      BY DEF Cut, Request
  <2>3. /\ req' = [r \in Req |-> IF r \in subs[s] THEN Cut(r) ELSE req[r]]
        /\ subs' = [subs EXCEPT ![s] = {}] /\ count' = [count EXCEPT ![s] = 0]
      BY <1>2 DEF LoopQuits
  <2>4. Request' = Request /\ LogSize' = LogSize
      BY <2>1 DEF Request, LogSize
  <2>5. req' \in [Req -> Request] /\ \A r \in Req : Len(req'[r].queue) <= ConnBuffer
      BY <2>2, <2>3
  <2>6. QED
      BY <2>1, <2>3, <2>4, <2>5
<1>3. QED
    BY <1>1, <1>2

(* What a step of a request leaves as it was: where it belongs, what it    *)
(* was handed and how it stands with its stream.                           *)
Same(x, y) ==
    /\ x.stream = y.stream /\ x.from = y.from /\ x.base = y.base
    /\ x.closed = y.closed /\ x.warned = y.warned
    /\ x.read \o x.queue = y.read \o y.queue
    /\ x.at = "adding" <=> y.at = "adding"
    /\ y.at \in {"serving", "ended"} => x.at \in {"serving", "ended"}
    /\ x.at \notin {"serving", "ended"} => x.read = y.read /\ x.queue = y.queue
    /\ x.at \notin {"idle", "ended"} => y.at \notin {"idle", "ended"}

\* A step of one request that no count and no delivery depends on.
Calm(r) ==
    /\ \E x \in Request : /\ req' = [req EXCEPT ![r] = x]
                          /\ Len(x.queue) <= ConnBuffer /\ Same(x, req[r])
    /\ UNCHANGED <<config, made, loopVars, count, removes>>
    /\ current' \in 0..made /\ quit \subseteq quit' /\ quit' \subseteq 1..made

(* Which steps are calm, and that only Refuse starts a request.            *)
LEMMA CalmSteps ==
    ASSUME Plain, NEW r \in Req
    PROVE  /\ Refuse(r) => Calm(r)
           /\ AddExists(r) \/ AddStores(r) \/ Serve(r) \/ ServeEnds(r) \/ Leave(r)
              \/ CloserStep(r) => Calm(r) /\ (req'[r].at = "idle" <=> req[r].at = "idle")
<1> DEFINE y == req[r]
<1>0. y \in Request /\ Len(y.queue) <= ConnBuffer /\ current \in 0..made /\ quit \subseteq 1..made
      /\ req \in [Req -> Request] /\ made \in Nat
    BY DEF Plain
<1>a. y.queue \in Seq(Event) /\ y.read \in Seq(Event)
    BY <1>0 DEF Request
<1> DEFINE Moves(x) == req' = [req EXCEPT ![r] = x]
<1>b. ASSUME NEW x \in Request, Moves(x)
      PROVE  req'[r] = x
    BY <1>0, <1>b
<1>1. ASSUME Refuse(r)
      PROVE  Calm(r)
  <2> DEFINE x == [y EXCEPT !.at = "ended", !.closer = "done", !.gone = TRUE]
  <2>1. Moves(x)
      BY <1>1 DEF Refuse
  <2>2. x \in Request /\ x.queue = y.queue /\ Same(x, y)
      BY <1>0, <1>1 DEF Request, Same, Refuse
  <2>3. QED
      BY <2>1, <2>2, <1>0, <1>1 DEF Calm, Refuse, ReqQuiet
<1>2. ASSUME AddExists(r)
      PROVE  Calm(r) /\ (req'[r].at = "idle" <=> y.at = "idle")
  <2> DEFINE x == [y EXCEPT !.at = IF current = None THEN "store" ELSE "found"]
  <2>1. Moves(x)
      BY <1>2 DEF AddExists, At
  <2>2. x \in Request /\ x.queue = y.queue /\ (x.at = "idle" <=> y.at = "idle") /\ Same(x, y)
      BY <1>0, <1>2 DEF Request, Same, AddExists
  <2>3. QED
      BY <2>1, <2>2, <1>0, <1>2, <1>b DEF Calm, AddExists, ReqQuiet
<1>3. ASSUME AddStores(r)
      PROVE  Calm(r) /\ (req'[r].at = "idle" <=> y.at = "idle")
  <2> DEFINE x == [y EXCEPT !.at = "found"]
  <2>1. Moves(x)
      BY <1>3 DEF AddStores, At
  <2>2. x \in Request /\ x.queue = y.queue /\ (x.at = "idle" <=> y.at = "idle") /\ Same(x, y)
      BY <1>0, <1>3 DEF Request, Same, AddStores
  <2>3. current' \in 0..made
      BY <1>0, <1>3 DEF AddStores, Request
  <2>4. QED
      BY <2>1, <2>2, <2>3, <1>0, <1>3, <1>b DEF Calm, AddStores, ReqQuiet
<1>4. ASSUME Serve(r)
      PROVE  Calm(r) /\ (req'[r].at = "idle" <=> y.at = "idle")
  <2> DEFINE x == [y EXCEPT !.queue = Tail(y.queue), !.read = Append(y.read, Head(y.queue))]
  <2>0. Moves(x)
      BY <1>4 DEF Serve
  <2>1. y.queue # <<>> /\ y.at = "serving"
      BY <1>4 DEF Serve
  <2>2. /\ Tail(y.queue) \in Seq(Event) /\ Len(Tail(y.queue)) <= Len(y.queue)
        /\ Append(y.read, Head(y.queue)) \in Seq(Event)
      BY <2>1, <1>a
  <2>3. Append(y.read, Head(y.queue)) \o Tail(y.queue) = y.read \o y.queue
      BY <2>1, <1>a, HandOver
  <2>4. /\ x \in Request /\ x.queue = Tail(y.queue) /\ x.read = Append(y.read, Head(y.queue))
        /\ x.at = "serving" /\ x.stream = y.stream /\ x.from = y.from /\ x.base = y.base
        /\ x.closed = y.closed /\ x.warned = y.warned
      BY <2>1, <2>2, <1>0 DEF Request
  <2> HIDE DEF x
  <2>5. Same(x, y)
      BY <2>1, <2>3, <2>4 DEF Same
  <2>6. Len(x.queue) <= ConnBuffer
      BY <2>2, <2>4, <1>0, <1>a, Groups
  <2>7. QED
      BY <2>0, <2>1, <2>4, <2>5, <2>6, <1>0, <1>4, <1>b DEF Calm, Serve, ReqQuiet
<1>5. ASSUME ServeEnds(r)
      PROVE  Calm(r) /\ (req'[r].at = "idle" <=> y.at = "idle")
  <2> DEFINE x == [y EXCEPT !.at = "ended", !.gone = TRUE]
  <2>1. Moves(x)
      BY <1>5 DEF ServeEnds
  <2>2. x \in Request /\ x.queue = y.queue /\ (x.at = "idle" <=> y.at = "idle") /\ Same(x, y)
      BY <1>0, <1>5 DEF Request, Same, ServeEnds
  <2>3. QED
      BY <2>1, <2>2, <1>0, <1>5, <1>b DEF Calm, ServeEnds, ReqQuiet
<1>6. ASSUME Leave(r)
      PROVE  Calm(r) /\ (req'[r].at = "idle" <=> y.at = "idle")
  <2> DEFINE x == [y EXCEPT !.gone = TRUE]
  <2>1. Moves(x)
      BY <1>6 DEF Leave
  <2>2. x \in Request /\ x.queue = y.queue /\ (x.at = "idle" <=> y.at = "idle") /\ Same(x, y)
      BY <1>0, <1>6 DEF Request, Same, Leave
  <2>3. QED
      BY <2>1, <2>2, <1>0, <1>6, <1>b DEF Calm, Leave, ReqQuiet
<1>7. ASSUME CloserStep(r)
      PROVE  Calm(r) /\ (req'[r].at = "idle" <=> y.at = "idle")
  <2>1. CASE CloseUnheard(r)
    <3> DEFINE x == [y EXCEPT !.closer = "removed"]
    <3>1. Moves(x)
        BY <2>1 DEF CloseUnheard
    <3>2. x \in Request /\ x.queue = y.queue /\ (x.at = "idle" <=> y.at = "idle") /\ Same(x, y)
        BY <1>0 DEF Request, Same
    <3>3. QED
        BY <3>1, <3>2, <1>0, <2>1, <1>b DEF Calm, CloseUnheard, ReqQuiet
  <2>2. CASE CloserReturns(r)
    <3> DEFINE x == [y EXCEPT !.closer = IF autoStream /\ ~autoReplay /\ count[req[r].stream] = 0
                                         THEN "remove" ELSE "done"]
    <3>1. Moves(x)
        BY <2>2 DEF CloserReturns
    <3>2. x \in Request /\ x.queue = y.queue /\ (x.at = "idle" <=> y.at = "idle") /\ Same(x, y)
        BY <1>0 DEF Request, Same
    <3>3. QED
        BY <3>1, <3>2, <1>0, <2>2, <1>b DEF Calm, CloserReturns, ReqQuiet
  <2>3. CASE RemoveEmpty(r)
    <3> DEFINE x == [y EXCEPT !.closer = "done"]
    <3>1. Moves(x)
        BY <2>3 DEF RemoveEmpty
    <3>2. x \in Request /\ x.queue = y.queue /\ (x.at = "idle" <=> y.at = "idle") /\ Same(x, y)
        BY <1>0 DEF Request, Same
    <3>3. current' \in 0..made /\ quit \subseteq quit' /\ quit' \subseteq 1..made
        BY <1>0, <2>3 DEF RemoveEmpty, Removes, None
    <3>4. QED
        BY <3>1, <3>2, <3>3, <1>0, <2>3, <1>b DEF Calm, RemoveEmpty, ReqQuiet
  <2>4. QED
      BY <1>7, <2>1, <2>2, <2>3 DEF CloserStep
<1>8. QED
    BY <1>1, <1>2, <1>3, <1>4, <1>5, <1>6, <1>7

-----------------------------------------------------------------------------
(* The count.                                                              *)

LEMMA Regrouped ==
    ASSUME NEW r \in Req, NEW x, req'[r] = x, \A q \in Req : q # r => req'[q] = req[q],
           NEW s \in Stream
    PROVE  /\ Adding(s)' = IF x.at = "adding" /\ x.stream = s
                           THEN Adding(s) \cup {r} ELSE Adding(s) \ {r}
           /\ Holding(s)' = IF x.stream = s /\ x.base >= 0 /\ ~x.closed
                            THEN Holding(s) \cup {r} ELSE Holding(s) \ {r}
           /\ Late(s)' = IF x.at \in {"serving", "ended"} /\ x.stream = s
                         THEN Late(s) \cup {r} ELSE Late(s) \ {r}
           /\ Adding(s) \in SUBSET Req /\ Holding(s) \in SUBSET Req /\ Late(s) \in SUBSET Req
    BY DEF Adding, Holding, Late, Answered

\* What CountInv says beside Plain and Arrivals.
Counting == Unserved /\ Members /\ Counted

(* The bound of the count follows from what Counted says.                  *)
LEMMA Exact ==
    ASSUME Plain, Counting
    PROVE  SseTypeOK
<1>1. ASSUME NEW s \in Stream
      PROVE  count[s] \in -MaxReqs..MaxReqs
  <2>0. Adding(s) \cap Holding(s) = {}
    <3>1. \A r \in Req : req[r].at = "adding" => req[r].base = -1
        BY DEF Counting, Unserved, Answered
    <3>2. \A r \in Req : req[r].at = "adding" => ~(req[r].base >= 0)
        BY <3>1
    <3>3. QED
        BY <3>2 DEF Adding, Holding
  <2>1. /\ Adding(s) \in SUBSET Req /\ Late(s) \in SUBSET Req /\ Holding(s) \in SUBSET Req
        /\ Adding(s) \cap Holding(s) = {}
      BY <2>0 DEF Adding, Late, Holding
  <2>2. /\ Cardinality(Adding(s)) \in 0..MaxReqs /\ Cardinality(Late(s)) \in 0..MaxReqs
        /\ Cardinality(Adding(s) \cup Holding(s)) \in 0..MaxReqs
        /\ Cardinality(Adding(s) \cup Holding(s)) = Cardinality(Adding(s)) + Cardinality(Holding(s))
        /\ Cardinality(Holding(s)) \in 0..MaxReqs
      BY <2>1, Groups, GroupsAdd
  <2>3. (s \in 1..made /\ s \notin ended) \/ s \in ended \/ s > made
      BY DEF Plain, Stream
  <2>4. QED
      BY <2>2, <2>3, Groups DEF Counting, Counted, Members, Running, Plain
<1>2. QED
    BY <1>1, Bounded DEF Plain

(* A calm step leaves the count right.                                     *)
LEMMA CalmCounted ==
    ASSUME Plain, Counting, NEW r \in Req, Calm(r)
    PROVE  Plain' /\ Counting'
<1>1. PICK x \in Request : req' = [req EXCEPT ![r] = x] /\ Len(x.queue) <= ConnBuffer
                           /\ Same(x, req[r])
    BY DEF Calm
<1>2. /\ UNCHANGED <<config, made, ended, log, subs, clock, sent, count, removes>>
      /\ current' \in 0..made /\ quit \subseteq quit' /\ quit' \subseteq 1..made
    BY DEF Calm, loopVars
<1>3. req'[r] = x /\ \A q \in Req : q # r => req'[q] = req[q]
    BY <1>1 DEF Plain
<1>4. Plain'
  <2>1. subs' \in [Stream -> SUBSET Req] /\ count' \in [Stream -> Int]
      BY <1>2 DEF Plain
  <2>2. QED
      BY <1>1, <1>2, <2>1, OneHere
<1>5. Unserved'
    BY <1>1, <1>3 DEF Counting, Unserved, Same, Answered, None
<1>6. \A s \in Stream : Holding(s)' = Holding(s) /\ Adding(s)' = Adding(s)
                        /\ Late(s) \subseteq Late(s)' /\ Late(s)' \in SUBSET Req
    BY <1>1, <1>3 DEF Holding, Adding, Late, Answered, Same
<1>7. Members'
    BY <1>2, <1>6 DEF Counting, Members, Running
<1>8. Counted'
  <2>1. \A s \in Stream : /\ Cardinality(Late(s)) <= Cardinality(Late(s)')
                          /\ Cardinality(Late(s)) \in Int /\ Cardinality(Late(s)') \in Int
    <3>1. ASSUME NEW s \in Stream, NEW T, T = Late(s)'
          PROVE  /\ Cardinality(Late(s)) <= Cardinality(T)
                 /\ Cardinality(Late(s)) \in Int /\ Cardinality(T) \in Int
      <4>1. T \in SUBSET Req /\ Late(s) \in SUBSET T
          BY <1>6, <3>1
      <4> HIDE <3>1
      <4>2. QED
          BY <4>1, Within, Groups
    <3>2. QED
        BY <3>1
  <2>2. \A s \in Stream : count[s] \in Int /\ Cardinality(Adding(s)) \in Int
      BY Groups DEF Plain, Adding
  <2>3. QED
      BY <1>2, <1>6, <2>1, <2>2 DEF Counting, Counted, Running
<1>9. QED
    BY <1>4, <1>5, <1>7, <1>8 DEF Counting

\* 1 for what is so.
Num(b) == IF b THEN 1 ELSE 0

(* The size of a group with one request, or without it.                    *)
LEMMA Recount ==
    ASSUME NEW S \in SUBSET Req, NEW r \in Req
    PROVE  /\ Cardinality(S) \in Nat
           /\ Cardinality(S \cup {r}) = Cardinality(S) + (IF r \in S THEN 0 ELSE 1)
           /\ Cardinality(S \ {r}) = Cardinality(S) - (IF r \in S THEN 1 ELSE 0)
<1>1. Cardinality(S) \in Nat
    BY Groups
<1>2. CASE r \in S
  <2>1. Cardinality(S \cup {r}) = Cardinality(S)
    <3>1. S \cup {r} = S
        BY <1>2
    <3>2. QED
        BY <3>1
  <2>2. Cardinality(S \ {r}) = Cardinality(S) - 1
      BY <1>2, OneMore
  <2>3. QED
      BY <1>1, <1>2, <2>1, <2>2
<1>3. CASE r \notin S
  <2>1. Cardinality(S \ {r}) = Cardinality(S)
    <3>1. S \ {r} = S
        BY <1>3
    <3>2. QED
        BY <3>1
  <2>2. Cardinality(S \cup {r}) = Cardinality(S) + 1
      BY <1>3, OneMore
  <2>3. QED
      BY <1>1, <1>3, <2>1, <2>2
<1>4. QED
    BY <1>2, <1>3

(* The arithmetic of a count that is only known within bounds.             *)
LEMMA Squeeze ==
    ASSUME NEW c \in Int, NEW n \in Int, NEW a \in Int, NEW l \in Int, NEW i \in Int, NEW j \in Int,
           c <= a, -l <= c, i - j + n >= 0
    PROVE  c + n <= a + n /\ -(l + i - j) <= c + n
    OBVIOUS

\* A request its stream has, and one that was answered.
Held(y) == y.base >= 0 /\ ~y.closed
Served(y) == y.at \in {"serving", "ended"}

(* A request becomes one that is being added, or one that was answered.    *)
LEMMA OneCounted ==
    ASSUME Plain, Counting, NEW r \in Req, NEW y \in Request, NEW x \in Request, NEW s \in Stream,
           NEW d \in Int, y = req[r], s = y.stream, s = x.stream, s # None,
           Len(x.queue) <= ConnBuffer, req' = [req EXCEPT ![r] = x],
           count' = [count EXCEPT ![s] = count[s] + d],
           subs' = [subs EXCEPT ![s] = IF Held(x) THEN subs[s] \cup {r} ELSE subs[s] \ {r}],
           UNCHANGED <<config, current, made, quit, ended, log, clock, sent, removes>>,
           d = Num(x.at = "adding") - Num(y.at = "adding") + Num(Held(x)) - Num(Held(y)),
           Served(x) \/ (x.at = "adding" /\ x.queue = <<>> /\ x.read = <<>> /\ ~Served(y)
                         /\ x.base = -1 /\ ~x.closed),
           Held(x) => Running(s)
    PROVE  Plain' /\ Counting'
<1>1. count[s] \in Int /\ \A t \in Stream : count'[t] = IF t = s THEN count[t] + d ELSE count[t]
    BY DEF Plain
<1>2. subs' \in [Stream -> SUBSET Req] /\ \A t \in Stream : t # s => subs'[t] = subs[t]
    BY DEF Plain
<1>3. subs'[s] = (IF Held(x) THEN subs[s] \cup {r} ELSE subs[s] \ {r}) /\ subs[s] \in SUBSET Req
    BY DEF Plain
<1>4. Plain' /\ req'[r] = x /\ \A q \in Req : q # r => req'[q] = req[q]
  <2>1. count[s] + d \in Int
      BY <1>1
  <2>2. count' \in [Stream -> Int]
      BY <2>1 DEF Plain
  <2>3. current' \in 0..made /\ quit \subseteq quit' /\ quit' \subseteq 1..made
      BY DEF Plain
  <2>4. QED
      BY <1>2, <2>2, <2>3, OneHere
<1>5. Unserved'
    BY <1>4 DEF Counting, Unserved, Answered, Served
<1>6. /\ Adding(s)' = IF x.at = "adding" THEN Adding(s) \cup {r} ELSE Adding(s) \ {r}
      /\ Holding(s)' = IF Held(x) THEN Holding(s) \cup {r} ELSE Holding(s) \ {r}
      /\ Late(s)' = IF Served(x) THEN Late(s) \cup {r} ELSE Late(s) \ {r}
      /\ Adding(s) \in SUBSET Req /\ Holding(s) \in SUBSET Req /\ Late(s) \in SUBSET Req
  <2>1. /\ Adding(s)' = IF x.at = "adding" /\ x.stream = s
                         THEN Adding(s) \cup {r} ELSE Adding(s) \ {r}
        /\ Holding(s)' = IF x.stream = s /\ x.base >= 0 /\ ~x.closed
                          THEN Holding(s) \cup {r} ELSE Holding(s) \ {r}
        /\ Late(s)' = IF x.at \in {"serving", "ended"} /\ x.stream = s
                       THEN Late(s) \cup {r} ELSE Late(s) \ {r}
        /\ Adding(s) \in SUBSET Req /\ Holding(s) \in SUBSET Req /\ Late(s) \in SUBSET Req
      BY <1>4, Regrouped
  <2>2. QED
      BY <2>1 DEF Held, Served
<1>7. \A t \in Stream : t # s => Adding(t)' = Adding(t) /\ Holding(t)' = Holding(t)
                                 /\ Late(t)' = Late(t)
    BY <1>4 DEF Adding, Holding, Late, Answered
<1>8. /\ r \in Adding(s) <=> y.at = "adding"
      /\ r \in Holding(s) <=> Held(y)
      /\ r \in Late(s) <=> Served(y)
    BY DEF Adding, Holding, Late, Answered, Held, Served
<1>9. subs[s] = Holding(s) /\ subs'[s] = Holding(s)'
    BY <1>3, <1>6 DEF Counting, Members
<1>10. Members'
  <2>1. ASSUME NEW t \in Stream
        PROVE  subs'[t] = Holding(t)' /\ (~Running(t)' => subs'[t] = {})
    <3>1. CASE t = s
        BY <3>1, <1>3, <1>9 DEF Counting, Members, Running
    <3>2. CASE t # s
        BY <3>2, <1>2, <1>7 DEF Counting, Members, Running
    <3>3. QED
        BY <3>1, <3>2
  <2>2. QED
      BY <2>1 DEF Members
<1>11. Counted'
  <2>1. PICK a1, h1, l1 : a1 = Adding(s)' /\ h1 = Holding(s)' /\ l1 = Late(s)'
      OBVIOUS
  <2>2. /\ Cardinality(a1) = Cardinality(Adding(s)) + Num(x.at = "adding") - Num(y.at = "adding")
        /\ Cardinality(Adding(s)) \in Nat
    <3>1. /\ Cardinality(Adding(s)) \in Nat
          /\ Cardinality(Adding(s) \cup {r}) = Cardinality(Adding(s))
                                               + (IF r \in Adding(s) THEN 0 ELSE 1)
          /\ Cardinality(Adding(s) \ {r}) = Cardinality(Adding(s))
                                              - (IF r \in Adding(s) THEN 1 ELSE 0)
        BY <1>6, Recount
    <3>2. CASE x.at = "adding"
      <4>1. a1 = Adding(s) \cup {r}
          BY <1>6, <2>1, <3>2
      <4>2. QED
          BY <1>8, <3>1, <3>2, <4>1 DEF Num
    <3>3. CASE ~(x.at = "adding")
      <4>1. a1 = Adding(s) \ {r}
          BY <1>6, <2>1, <3>3
      <4>2. QED
          BY <1>8, <3>1, <3>3, <4>1 DEF Num
    <3>4. QED
        BY <3>2, <3>3
  <2>3. /\ Cardinality(h1) = Cardinality(Holding(s)) + Num(Held(x)) - Num(Held(y))
        /\ Cardinality(Holding(s)) \in Nat
    <3>1. /\ Cardinality(Holding(s)) \in Nat
          /\ Cardinality(Holding(s) \cup {r}) = Cardinality(Holding(s))
                                               + (IF r \in Holding(s) THEN 0 ELSE 1)
          /\ Cardinality(Holding(s) \ {r}) = Cardinality(Holding(s))
                                              - (IF r \in Holding(s) THEN 1 ELSE 0)
        BY <1>6, Recount
    <3>2. CASE Held(x)
      <4>1. h1 = Holding(s) \cup {r}
          BY <1>6, <2>1, <3>2
      <4>2. QED
          BY <1>8, <3>1, <3>2, <4>1 DEF Num
    <3>3. CASE ~(Held(x))
      <4>1. h1 = Holding(s) \ {r}
          BY <1>6, <2>1, <3>3
      <4>2. QED
          BY <1>8, <3>1, <3>3, <4>1 DEF Num
    <3>4. QED
        BY <3>2, <3>3
  <2>4. /\ Cardinality(l1) = Cardinality(Late(s)) + Num(Served(x)) - Num(Served(y))
        /\ Cardinality(Late(s)) \in Nat
    <3>1. /\ Cardinality(Late(s)) \in Nat
          /\ Cardinality(Late(s) \cup {r}) = Cardinality(Late(s))
                                               + (IF r \in Late(s) THEN 0 ELSE 1)
          /\ Cardinality(Late(s) \ {r}) = Cardinality(Late(s))
                                              - (IF r \in Late(s) THEN 1 ELSE 0)
        BY <1>6, Recount
    <3>2. CASE Served(x)
      <4>1. l1 = Late(s) \cup {r}
          BY <1>6, <2>1, <3>2
      <4>2. QED
          BY <1>8, <3>1, <3>2, <4>1 DEF Num
    <3>3. CASE ~(Served(x))
      <4>1. l1 = Late(s) \ {r}
          BY <1>6, <2>1, <3>3
      <4>2. QED
          BY <1>8, <3>1, <3>3, <4>1 DEF Num
    <3>4. QED
        BY <3>2, <3>3
  <2>5. /\ Running(s)' => count'[s] = Cardinality(subs'[s]) + Cardinality(a1)
        /\ s \in ended' => count'[s] \in -Cardinality(l1)..Cardinality(a1)
        /\ s <= made
    <3>1. s <= made
        BY DEF Request, Plain
    <3>2. CASE s \notin ended
      <4>1. Running(s) /\ Running(s)' /\ s \notin ended'
          BY <3>1, <3>2, Groups DEF Running, Stream, Plain
      <4>2. count[s] = Cardinality(Holding(s)) + Cardinality(Adding(s))
          BY <4>1, <1>9 DEF Counting, Counted
      <4>3. QED
          BY <1>1, <1>9, <2>1, <2>2, <2>3, <3>1, <4>1, <4>2 DEF Num
    <3>3. CASE s \in ended
      <4>1. ~Running(s) /\ ~Running(s)' /\ ~Held(x) /\ r \notin Holding(s)
          BY <3>3, <1>9 DEF Running, Counting, Members
      <4>2. count[s] \in -Cardinality(Late(s))..Cardinality(Adding(s))
          BY <3>3 DEF Counting, Counted
      <4>3. d = Num(x.at = "adding") - Num(y.at = "adding")
          BY <4>1, <1>8 DEF Num
      <4>4. /\ Num(Served(x)) - Num(Served(y)) + d >= 0
            /\ Num(Served(x)) \in 0..1 /\ Num(Served(y)) \in 0..1
          BY <4>3 DEF Num, Served
      <4>5. Cardinality(a1) = Cardinality(Adding(s)) + d
          BY <2>2, <4>3 DEF Num
      <4>6. count'[s] = count[s] + d /\ count[s] \in Int
          BY <1>1
      <4>6a. count[s] <= Cardinality(Adding(s)) /\ -Cardinality(Late(s)) <= count[s]
          BY <2>2, <2>4, <4>2
      <4>7. /\ count'[s] <= Cardinality(a1) /\ -Cardinality(l1) <= count'[s]
            /\ count'[s] \in Int /\ Cardinality(a1) \in Int /\ Cardinality(l1) \in Int
        <5>2. /\ count[s] \in Int /\ d \in Int /\ Cardinality(Adding(s)) \in Int
              /\ Cardinality(Late(s)) \in Int
              /\ Num(Served(x)) \in Int /\ Num(Served(y)) \in Int
            BY <2>2, <2>4, <4>4, <4>6
        <5>3. /\ count[s] + d <= Cardinality(Adding(s)) + d
              /\ -(Cardinality(Late(s)) + Num(Served(x)) - Num(Served(y))) <= count[s] + d
            BY <5>2, <4>4, <4>6a, Squeeze
        <5>4. QED
          <6>1. Cardinality(l1) \in Int /\ Cardinality(a1) \in Int /\ count'[s] \in Int
            <7>1. Cardinality(l1) \in Int
                BY <2>4, <5>2
            <7>2. Cardinality(a1) \in Int
                BY <4>5, <5>2
            <7>3. count'[s] \in Int
                BY <4>6, <5>2
            <7>4. QED
                BY <7>1, <7>2, <7>3
          <6>2. -Cardinality(l1) <= count'[s]
              BY <2>4, <4>6, <5>3
          <6>3. count'[s] <= Cardinality(a1)
              BY <4>5, <4>6, <5>3
          <6>4. QED
              BY <6>1, <6>2, <6>3
      <4>8. QED
          BY <3>1, <4>1, <4>7
    <3>4. QED
        BY <3>2, <3>3
  <2>6. ASSUME NEW t \in Stream
        PROVE  /\ Running(t)' => count'[t] = Cardinality(subs'[t]) + Cardinality(Adding(t)')
               /\ t \in ended' => count'[t] \in -Cardinality(Late(t)')..Cardinality(Adding(t)')
               /\ t > made' => count'[t] = 0
    <3>1. CASE t = s
      <4>1. Adding(t)' = a1 /\ Late(t)' = l1
          BY <3>1, <2>1
      <4>2. made \in Nat /\ s \in Nat
          BY Groups DEF Plain, Stream
      <4>3. QED
          BY <3>1, <2>5, <4>1, <4>2
    <3>2. CASE t # s
      <4>1. count'[t] = count[t] /\ subs'[t] = subs[t]
          BY <3>2, <1>1, <1>2
      <4>2. QED
          BY <3>2, <4>1, <1>7 DEF Counting, Counted, Running
    <3>3. QED
        BY <3>1, <3>2
  <2>7. QED
      BY <2>6 DEF Counted
<1>12. QED
    BY <1>4, <1>5, <1>10, <1>11 DEF Counting

(* addSubscriber counts the newcomer; of a closed stream it takes it back. *)
LEMMA AddCounted ==
    ASSUME Plain, Counting, NEW r \in Req, AddSubscriber(r) \/ AddRefused(r)
    PROVE  Plain' /\ Counting'
<1>0. PICK y, s : y = req[r] /\ s = y.stream
    OBVIOUS
<1>1. y \in Request /\ made \in 0..(MaxReqs + 1) /\ Len(y.queue) <= ConnBuffer
    BY <1>0 DEF Plain
<1>2. s \in Stream /\ s # None
  <2>1. y.at \in {"found", "adding"}
      BY <1>0 DEF AddSubscriber, AddRefused
  <2>2. s # None /\ s \in 0..made
      BY <1>0, <1>1, <2>1 DEF Counting, Unserved, Request
  <2>3. QED
      BY <1>1, <2>2, Groups DEF Stream, None
<1>3. y.base = -1 /\ ~y.closed /\ y.queue = <<>> /\ y.read = <<>> /\ ~Held(y) /\ ~Served(y)
    BY <1>0 DEF AddSubscriber, AddRefused, Counting, Unserved, Answered, Served, Held
<1>4. r \notin subs[s] /\ subs = [subs EXCEPT ![s] = subs[s] \ {r}]
  <2>1. subs[s] = Holding(s)
      BY <1>2 DEF Counting, Members
  <2>2. r \notin subs[s]
      BY <2>1, <1>0, <1>3 DEF Holding, Held
  <2>3. subs[s] \ {r} = subs[s]
      BY <2>2
  <2>4. QED
      BY <2>2, <2>3 DEF Plain
<1>5. CASE AddSubscriber(r)
  <2>0. PICK x : x = [y EXCEPT !.at = "adding"]
      OBVIOUS
  <2>1. /\ x \in Request /\ x.at = "adding" /\ x.stream = s /\ x.queue = y.queue
        /\ x.read = y.read /\ x.base = y.base /\ x.closed = y.closed
      BY <2>0, <1>0, <1>1 DEF Request
  <2>2. ~Held(x)
      BY <2>1, <1>3 DEF Held
  <2>3. y.at = "found" /\ count' = [count EXCEPT ![s] = count[s] + 1]
        /\ UNCHANGED <<config, current, made, quit, ended, log, subs, clock, sent, removes>>
      BY <1>0, <1>5 DEF AddSubscriber, ReqQuiet, loopVars
  <2>4. req' = [req EXCEPT ![r] = x]
      BY <1>0, <1>5, <2>0 DEF AddSubscriber, At
  <2>5. 1 = Num(x.at = "adding") - Num(y.at = "adding") + Num(Held(x)) - Num(Held(y))
      BY <1>3, <2>1, <2>2, <2>3 DEF Num
  <2>6. subs' = [subs EXCEPT ![s] = IF Held(x) THEN subs[s] \cup {r} ELSE subs[s] \ {r}]
      BY <1>4, <2>2, <2>3
  <2>7. 1 \in Int /\ Len(x.queue) <= ConnBuffer
      BY <1>1, <2>1
  <2>8. /\ Served(x) \/ (x.at = "adding" /\ x.queue = <<>> /\ x.read = <<>> /\ ~Served(y)
                          /\ x.base = -1 /\ ~x.closed)
        /\ Held(x) => Running(s)
      BY <1>3, <2>1, <2>2
  <2>9. y = req[r] /\ s = y.stream /\ s = x.stream /\ s # None /\ y \in Request /\ s \in Stream
      BY <1>0, <1>1, <1>2, <2>1
  <2>10. QED
      BY <2>1, <2>3, <2>4, <2>5, <2>6, <2>7, <2>8, <2>9, OneCounted
<1>6. CASE AddRefused(r)
  <2>0. PICK x : x = [y EXCEPT !.at = "serving", !.closer = "wait", !.closed = TRUE]
      OBVIOUS
  <2>1. /\ x \in Request /\ x.at = "serving" /\ x.stream = s /\ x.queue = y.queue /\ x.closed
      BY <2>0, <1>0, <1>1 DEF Request
  <2>2. ~Held(x) /\ Served(x)
      BY <2>1 DEF Held, Served
  <2>3. y.at = "adding" /\ count' = [count EXCEPT ![s] = count[s] + (-1)]
        /\ UNCHANGED <<config, current, made, quit, ended, log, subs, clock, sent, removes>>
    <3>1. count[s] - 1 = count[s] + (-1)
        BY <1>2 DEF Plain
    <3>2. QED
        BY <3>1, <1>0, <1>6 DEF AddRefused, ReqQuiet, loopVars
  <2>4. req' = [req EXCEPT ![r] = x]
      BY <1>0, <1>6, <2>0 DEF AddRefused
  <2>5. -1 = Num(x.at = "adding") - Num(y.at = "adding") + Num(Held(x)) - Num(Held(y))
      BY <1>3, <2>1, <2>2, <2>3 DEF Num
  <2>6. subs' = [subs EXCEPT ![s] = IF Held(x) THEN subs[s] \cup {r} ELSE subs[s] \ {r}]
      BY <1>4, <2>2, <2>3
  <2>7. -1 \in Int /\ Len(x.queue) <= ConnBuffer
      BY <1>1, <2>1
  <2>8. QED
      BY <1>0, <1>1, <1>2, <2>1, <2>2, <2>3, <2>4, <2>5, <2>6, <2>7, OneCounted
<1>7. QED
    BY <1>5, <1>6

(* Registration: the queue begins with what is replayed, as far as it fits. *)
LEMMA RegisterCounted ==
    ASSUME Plain, Counting, NEW s \in Stream, NEW r \in Req, Register(s, r)
    PROVE  Plain' /\ Counting'
<1>0. PICK y, events, b : /\ y = req[r]
                          /\ events = IF autoReplay THEN Since(log[s], y.from) ELSE <<>>
                          /\ b = (autoReplay /\ TruncatedBefore(log[s], y.from))
    OBVIOUS
<1>1. y \in Request /\ made \in 0..(MaxReqs + 1) /\ events \in Seq(Event) /\ b \in BOOLEAN
      /\ log[s] \in Seq(Event) /\ ConnBuffer \in Nat
  <2>1. y \in Request /\ made \in 0..(MaxReqs + 1) /\ log[s] \in Seq(Event) /\ ConnBuffer \in Nat
      BY <1>0, Groups DEF Plain
  <2>2. y.from \in Nat
      BY <2>1, Groups DEF Request
  <2>3. Since(log[s], y.from) \in Seq(Event)
      BY <2>1, <2>2, SinceFilters
  <2>4. autoReplay \in BOOLEAN
      BY Settings DEF Plain
  <2>5. b \in BOOLEAN
      BY <1>0, <2>4 DEF TruncatedBefore
  <2>6. QED
      BY <1>0, <2>1, <2>3, <2>5
<1>2. PICK queue, fits : /\ fits \in BOOLEAN /\ (fits <=> Len(events) <= ConnBuffer)
                         /\ queue = IF fits THEN events ELSE SubSeq(events, 1, ConnBuffer)
  <2>1. CASE Len(events) <= ConnBuffer
    <3>1. /\ TRUE \in BOOLEAN /\ (TRUE <=> Len(events) <= ConnBuffer)
          /\ events = IF TRUE THEN events ELSE SubSeq(events, 1, ConnBuffer)
        BY <2>1
    <3>2. QED
        BY <3>1
  <2>2. CASE ~(Len(events) <= ConnBuffer)
    <3>1. /\ FALSE \in BOOLEAN /\ (FALSE <=> Len(events) <= ConnBuffer)
          /\ SubSeq(events, 1, ConnBuffer) = IF FALSE THEN events ELSE SubSeq(events, 1, ConnBuffer)
        BY <2>2
    <3>2. QED
        BY <3>1
  <2>3. QED
      BY <2>1, <2>2
<1>3. queue \in Seq(Event) /\ Len(queue) <= ConnBuffer /\ fits \in BOOLEAN
  <2>1. CASE fits
      BY <1>1, <1>2, <2>1
  <2>2. CASE ~fits
    <3>1. Len(events) \in Nat /\ ConnBuffer < Len(events)
        BY <1>1, <1>2, <2>2
    <3>2. /\ SubSeq(events, 1, ConnBuffer) \in Seq(Event)
          /\ Len(SubSeq(events, 1, ConnBuffer)) = ConnBuffer
      <4>1. \A i \in 1..ConnBuffer : events[i] \in Event
          BY <1>1, <3>1
      <4>2. QED
          BY <4>1, <1>1, SubSeqProperties
    <3>3. QED
        BY <1>1, <1>2, <2>2, <3>2
  <2>3. QED
      BY <2>1, <2>2
<1>4. PICK x : x = [y EXCEPT !.at = "serving", !.closer = "wait", !.base = Len(sent[s]),
                             !.queue = queue, !.closed = ~fits, !.warned = b]
    OBVIOUS
<1>5. Len(sent[s]) \in 0..MaxEvents
  <2>1. Len(sent[s]) \in Nat /\ Len(sent[s]) <= clock /\ clock \in 0..MaxEvents
      BY DEF Plain
  <2>2. QED
      BY <2>1, Groups
<1>6. Running(s) /\ y.at = "adding" /\ y.stream = s /\ s # None
    BY <1>0 DEF Register, Running, None
<1>7. /\ x \in Request /\ x.at = "serving" /\ x.stream = s /\ x.queue = queue
      /\ x.base = Len(sent[s]) /\ x.closed = ~fits
  <2>1. Len(sent[s]) \in -1..MaxEvents
      BY <1>5, Groups
  <2>2. QED
      BY <1>1, <1>3, <1>4, <1>6, <2>1 DEF Request
<1>8. Served(x) /\ (Held(x) <=> fits)
  <2>1. x.base >= 0
      BY <1>5, <1>7
  <2>2. x.closed <=> ~fits
      BY <1>7
  <2>3. QED
      BY <1>7, <2>1, <2>2 DEF Served, Held
<1>9. ~Held(y) /\ r \notin subs[s]
  <2>1. y.base = -1
      BY <1>0, <1>6 DEF Counting, Unserved, Answered
  <2>2. ~(y.base >= 0)
      BY <2>1
  <2>3. subs[s] = Holding(s)
      BY DEF Counting, Members
  <2>4. QED
      BY <1>0, <2>2, <2>3 DEF Held, Holding
<1>10. /\ req' = [req EXCEPT ![r] = x]
       /\ subs' = IF fits THEN [subs EXCEPT ![s] = subs[s] \cup {r}] ELSE subs
       /\ count' = IF fits THEN count ELSE [count EXCEPT ![s] = count[s] - 1]
       /\ UNCHANGED <<config, current, made, quit, ended, log, clock, sent, removes>>
    BY <1>0, <1>2, <1>4 DEF Register
<1>11. subs' = [subs EXCEPT ![s] = IF Held(x) THEN subs[s] \cup {r} ELSE subs[s] \ {r}]
  <2>1. subs[s] \ {r} = subs[s] /\ subs = [subs EXCEPT ![s] = subs[s]]
      BY <1>9 DEF Plain
  <2>2. QED
      BY <1>8, <1>10, <2>1
<1>12. PICK d \in Int : d = IF fits THEN 0 ELSE -1
    BY <1>3
<1>13. count' = [count EXCEPT ![s] = count[s] + d]
  <2>1. count[s] \in Int /\ count = [count EXCEPT ![s] = count[s]]
      BY DEF Plain
  <2>2. CASE fits
    <3>1. count[s] + d = count[s]
        BY <1>12, <2>1, <2>2
    <3>2. QED
        BY <1>10, <2>1, <2>2, <3>1
  <2>3. CASE ~fits
    <3>1. count[s] + d = count[s] - 1
        BY <1>12, <2>1, <2>3
    <3>2. QED
        BY <1>10, <2>3, <3>1
  <2>4. QED
      BY <2>2, <2>3
<1>14. d = Num(x.at = "adding") - Num(y.at = "adding") + Num(Held(x)) - Num(Held(y))
    BY <1>6, <1>7, <1>8, <1>9, <1>12 DEF Num
<1>15. /\ Served(x) \/ (x.at = "adding" /\ x.queue = <<>> /\ x.read = <<>> /\ ~Served(y)
                         /\ x.base = -1 /\ ~x.closed)
       /\ Held(x) => Running(s)
    BY <1>6, <1>8
<1>16. y = req[r] /\ s = y.stream /\ s = x.stream /\ s # None /\ y \in Request
       /\ x \in Request /\ Len(x.queue) <= ConnBuffer
    BY <1>0, <1>1, <1>3, <1>6, <1>7
<1>17. /\ req' = [req EXCEPT ![r] = x]
       /\ UNCHANGED <<config, current, made, quit, ended, log, clock, sent, removes>>
    BY <1>10
<1>18. QED
    BY <1>11, <1>12, <1>13, <1>14, <1>15, <1>16, <1>17, OneCounted

(* A subscriber that left is taken out, once.                              *)
LEMMA DeregisterCounted ==
    ASSUME Plain, Counting, NEW s \in Stream, NEW r \in Req, Deregister(s, r)
    PROVE  Plain' /\ Counting'
<1>0. PICK y : y = req[r]
    OBVIOUS
<1>1. y \in Request /\ y.stream = s /\ Running(s) /\ s # None /\ Len(y.queue) <= ConnBuffer
      /\ UNCHANGED <<config, current, made, quit, ended, log, clock, sent, removes>>
    BY <1>0 DEF Deregister, Running, None, Plain
<1>2. r \in subs[s] <=> Held(y)
    BY <1>0, <1>1 DEF Counting, Members, Holding, Held
<1>3. CASE r \in subs[s]
  <2>0. PICK x : x = [y EXCEPT !.closed = TRUE, !.closer = "removed"]
      OBVIOUS
  <2>1. x \in Request /\ x.at = y.at /\ x.stream = s /\ x.queue = y.queue /\ x.closed
      BY <2>0, <1>1 DEF Request
  <2>2. Held(y) /\ ~Held(x) /\ Served(y) /\ Served(x) /\ y.at # "adding"
    <3>1. Held(y) /\ ~Held(x)
        BY <1>2, <1>3, <2>1 DEF Held
    <3>2. ~Served(y) => y.base = -1
        BY <1>0 DEF Counting, Unserved, Answered, Served
    <3>3. y.base = -1 => ~(y.base >= 0)
        OBVIOUS
    <3>4. Served(y)
        BY <3>1, <3>2, <3>3 DEF Held
    <3>5. QED
        BY <2>1, <3>1, <3>4 DEF Served
  <2>3. req' = [req EXCEPT ![r] = x]
    <3>1. [Cut(r) EXCEPT !.closer = "removed"] = x
        BY <1>0, <2>0 DEF Cut
    <3>2. QED
        BY <1>3, <3>1 DEF Deregister
  <2>4. subs' = [subs EXCEPT ![s] = IF Held(x) THEN subs[s] \cup {r} ELSE subs[s] \ {r}]
      BY <1>3, <2>2 DEF Deregister
  <2>5. count' = [count EXCEPT ![s] = count[s] + (-1)]
    <3>1. count[s] - 1 = count[s] + (-1)
        BY DEF Plain
    <3>2. QED
        BY <1>3, <3>1 DEF Deregister
  <2>6. -1 = Num(x.at = "adding") - Num(y.at = "adding") + Num(Held(x)) - Num(Held(y))
      BY <2>1, <2>2 DEF Num
  <2>7. -1 \in Int /\ Len(x.queue) <= ConnBuffer
      BY <1>1, <2>1
  <2>8. QED
      BY <1>0, <1>1, <2>1, <2>2, <2>3, <2>4, <2>5, <2>6, <2>7, OneCounted
<1>4. CASE r \notin subs[s]
  <2>0. PICK x : x = [y EXCEPT !.closer = "removed"]
      OBVIOUS
  <2>1. x \in Request /\ x.queue = y.queue /\ Same(x, y)
      BY <2>0, <1>1 DEF Request, Same
  <2>2. req' = [req EXCEPT ![r] = x] /\ UNCHANGED <<subs, count>>
      BY <1>0, <1>4, <2>0 DEF Deregister
  <2>3. current' \in 0..made /\ quit \subseteq quit' /\ quit' \subseteq 1..made
      BY <1>1 DEF Plain
  <2>4. Len(x.queue) <= ConnBuffer /\ Same(x, req[r])
      BY <1>0, <1>1, <2>1
  <2>5. UNCHANGED <<config, made, loopVars, count, removes>>
      BY <1>1, <2>2 DEF loopVars
  <2>6. Calm(r)
      BY <2>1, <2>2, <2>3, <2>4, <2>5 DEF Calm
  <2>7. QED
      BY <2>6, CalmCounted
<1>5. QED
    BY <1>3, <1>4

(* An iteration of the loop cuts some of its subscribers and hands the     *)
(* others something; all else of a request stays.                          *)
CutsOff(s, slow) ==
    /\ Running(s) /\ slow \subseteq subs[s]
    /\ \A r \in Req :
          /\ req'[r].at = req[r].at /\ req'[r].stream = req[r].stream
          /\ req'[r].base = req[r].base /\ req'[r].read = req[r].read
          /\ req'[r].closed <=> req[r].closed \/ r \in slow
          /\ r \notin subs[s] => req'[r].queue = req[r].queue
    /\ subs' = [subs EXCEPT ![s] = subs[s] \ slow]

(* Cutting moves requests out of the stream and nothing else.              *)
LEMMA CutCounted ==
    ASSUME Counting, NEW s \in Stream, NEW slow, CutsOff(s, slow)
    PROVE  /\ Unserved'
           /\ \A t \in Stream : Adding(t)' = Adding(t) /\ Late(t)' = Late(t)
           /\ Holding(s)' = Holding(s) \ slow
           /\ \A t \in Stream : t # s => Holding(t)' = Holding(t)
<1>1. subs[s] = Holding(s)
    BY DEF Counting, Members
<1>2. \A r \in Req : req[r].base = -1 => ~(req[r].base >= 0)
    OBVIOUS
<1>3. \A r \in subs[s] : Answered(r) /\ req[r].stream = s
    BY <1>1, <1>2 DEF Holding, Counting, Unserved
<1>4. Unserved'
    BY <1>3 DEF Counting, Unserved, Answered, CutsOff
<1>5. \A t \in Stream : Adding(t)' = Adding(t) /\ Late(t)' = Late(t)
    BY DEF Adding, Late, Answered, CutsOff
<1>6. \A t \in Stream : Holding(t)' = Holding(t) \ slow
    BY DEF Holding, CutsOff
<1>7. \A t \in Stream : t # s => Holding(t) \ slow = Holding(t)
    BY <1>3 DEF Holding, CutsOff
<1>8. QED
    BY <1>4, <1>5, <1>6, <1>7

(* Slow clients are cut and the count is lowered by as many.               *)
LEMMA DispatchCounted ==
    ASSUME Plain, Counting, NEW s \in Stream, Dispatch(s)
    PROVE  Counting'
<1>0. PICK slow : slow = {r \in subs[s] : Full(r)}
    OBVIOUS
<1>1. /\ count' = [count EXCEPT ![s] = count[s] - Cardinality(slow)]
      /\ subs' = [subs EXCEPT ![s] = subs[s] \ slow]
      /\ req' = [r \in Req |-> IF r \in slow THEN Cut(r)
                               ELSE IF r \in subs[s] THEN Receive(r, clock + 1) ELSE req[r]]
      /\ Running(s) /\ UNCHANGED <<made, ended>>
    BY <1>0 DEF Dispatch
<1>2. slow \subseteq subs[s] /\ subs[s] \in SUBSET Req
    BY <1>0 DEF Plain
<1>3. CutsOff(s, slow)
  <2>1. ASSUME NEW r \in Req
        PROVE  /\ req'[r].at = req[r].at /\ req'[r].stream = req[r].stream
               /\ req'[r].base = req[r].base /\ req'[r].read = req[r].read
               /\ req'[r].closed <=> req[r].closed \/ r \in slow
               /\ r \notin subs[s] => req'[r].queue = req[r].queue
    <3>1. req[r] \in Request
        BY DEF Plain
    <3>2. CASE r \in slow
        BY <1>1, <1>2, <3>1, <3>2 DEF Cut, Request
    <3>3. CASE r \in subs[s] \ slow
        BY <1>1, <3>1, <3>3 DEF Receive, Request
    <3>4. CASE r \notin subs[s]
        BY <1>1, <1>2, <3>4
    <3>5. QED
        BY <3>2, <3>3, <3>4
  <2>2. QED
      BY <2>1, <1>1, <1>2 DEF CutsOff
<1>4. /\ Unserved'
      /\ \A t \in Stream : Adding(t)' = Adding(t) /\ Late(t)' = Late(t)
      /\ Holding(s)' = Holding(s) \ slow
      /\ \A t \in Stream : t # s => Holding(t)' = Holding(t)
    BY <1>3, CutCounted
<1>5. /\ subs'[s] = subs[s] \ slow /\ count'[s] = count[s] - Cardinality(slow)
      /\ \A t \in Stream : t # s => subs'[t] = subs[t] /\ count'[t] = count[t]
    BY <1>1 DEF Plain
<1>6. Members'
  <2>1. ASSUME NEW t \in Stream
        PROVE  subs'[t] = Holding(t)' /\ (~Running(t)' => subs'[t] = {})
    <3>1. CASE t = s
        BY <3>1, <1>1, <1>4, <1>5 DEF Counting, Members, Running
    <3>2. CASE t # s
        BY <3>2, <1>1, <1>4, <1>5 DEF Counting, Members, Running
    <3>3. QED
        BY <3>1, <3>2
  <2>2. QED
      BY <2>1 DEF Members
<1>7. Cardinality(subs[s] \ slow) = Cardinality(subs[s]) - Cardinality(slow)
  <2>1. slow \in SUBSET Req /\ (subs[s] \ slow) \in SUBSET Req /\ slow \cap (subs[s] \ slow) = {}
        /\ slow \cup (subs[s] \ slow) = subs[s]
      BY <1>2
  <2>2. /\ Cardinality(subs[s]) = Cardinality(slow) + Cardinality(subs[s] \ slow)
        /\ Cardinality(slow) \in Nat /\ Cardinality(subs[s] \ slow) \in Nat
      BY <2>1, GroupsAdd, Groups
  <2>3. QED
      BY <2>2
<1>8. Counted'
  <2>1. ASSUME NEW t \in Stream
        PROVE  /\ Running(t)' => count'[t] = Cardinality(subs'[t]) + Cardinality(Adding(t)')
               /\ t \in ended' => count'[t] \in -Cardinality(Late(t)')..Cardinality(Adding(t)')
               /\ t > made' => count'[t] = 0
    <3>1. CASE t = s
      <4>1. count[s] = Cardinality(subs[s]) + Cardinality(Adding(s))
          BY <1>1 DEF Counting, Counted
      <4>2. slow \in SUBSET Req /\ Adding(s) \in SUBSET Req
          BY <1>2 DEF Adding
      <4>3. /\ Cardinality(slow) \in Nat /\ Cardinality(Adding(s)) \in Nat
            /\ Cardinality(subs[s]) \in Nat
          BY <4>2, <1>2, Groups
      <4>4. s \in 1..made /\ s \notin ended /\ made \in Nat
          BY <1>1, Groups DEF Running, Plain
      <4>5. count'[s] = Cardinality(subs'[s]) + Cardinality(Adding(s)')
        <5>1. Cardinality(Adding(s)') = Cardinality(Adding(s))
              /\ Cardinality(subs'[s]) = Cardinality(subs[s]) - Cardinality(slow)
            BY <1>4, <1>5, <1>7
        <5>2. QED
            BY <1>5, <4>1, <4>3, <5>1
      <4>6. s \notin ended' /\ ~(s > made')
          BY <1>1, <4>4
      <4>7. QED
          BY <3>1, <4>5, <4>6
    <3>2. CASE t # s
        BY <3>2, <1>1, <1>4, <1>5 DEF Counting, Counted, Running
    <3>3. QED
        BY <3>1, <3>2
  <2>2. QED
      BY <2>1 DEF Counted
<1>9. QED
    BY <1>4, <1>6, <1>8 DEF Counting

(* The loop that ends cuts everybody and stores 0.                         *)
LEMMA LoopQuitsCounted ==
    ASSUME Plain, Counting, NEW s \in Stream, LoopQuits(s)
    PROVE  Counting'
<1>1. /\ count' = [count EXCEPT ![s] = 0] /\ subs' = [subs EXCEPT ![s] = {}]
      /\ req' = [r \in Req |-> IF r \in subs[s] THEN Cut(r) ELSE req[r]]
      /\ Running(s) /\ ended' = ended \cup {s} /\ UNCHANGED made
    BY DEF LoopQuits
<1>2. CutsOff(s, subs[s])
  <2>1. ASSUME NEW r \in Req
        PROVE  /\ req'[r].at = req[r].at /\ req'[r].stream = req[r].stream
               /\ req'[r].base = req[r].base /\ req'[r].read = req[r].read
               /\ req'[r].closed <=> req[r].closed \/ r \in subs[s]
               /\ r \notin subs[s] => req'[r].queue = req[r].queue
    <3>1. req[r] \in Request
        BY DEF Plain
    <3>2. QED
        BY <1>1, <3>1 DEF Cut, Request
  <2>2. subs[s] \ subs[s] = {}
      OBVIOUS
  <2>3. QED
      BY <2>1, <2>2, <1>1 DEF CutsOff
<1>3. /\ Unserved'
      /\ \A t \in Stream : Adding(t)' = Adding(t) /\ Late(t)' = Late(t)
      /\ Holding(s)' = Holding(s) \ subs[s]
      /\ \A t \in Stream : t # s => Holding(t)' = Holding(t)
    BY <1>2, CutCounted
<1>4. /\ subs'[s] = {} /\ count'[s] = 0
      /\ \A t \in Stream : t # s => subs'[t] = subs[t] /\ count'[t] = count[t]
    BY <1>1 DEF Plain
<1>5. Members'
  <2>1. ASSUME NEW t \in Stream
        PROVE  subs'[t] = Holding(t)' /\ (~Running(t)' => subs'[t] = {})
    <3>1. CASE t = s
        BY <3>1, <1>3, <1>4 DEF Counting, Members
    <3>2. CASE t # s
        BY <3>2, <1>1, <1>3, <1>4 DEF Counting, Members, Running
    <3>3. QED
        BY <3>1, <3>2
  <2>2. QED
      BY <2>1 DEF Members
<1>6. Counted'
  <2>1. ASSUME NEW t \in Stream
        PROVE  /\ Running(t)' => count'[t] = Cardinality(subs'[t]) + Cardinality(Adding(t)')
               /\ t \in ended' => count'[t] \in -Cardinality(Late(t)')..Cardinality(Adding(t)')
               /\ t > made' => count'[t] = 0
    <3>1. CASE t = s
      <4>1. Adding(s) \in SUBSET Req /\ Late(s) \in SUBSET Req
          BY DEF Adding, Late
      <4>2. Cardinality(Adding(s)) \in Nat /\ Cardinality(Late(s)) \in Nat
          BY <4>1, Groups
      <4>3. 0 \in -Cardinality(Late(s))..Cardinality(Adding(s))
          BY <4>2
      <4>4. ~Running(s)'
          BY <1>1 DEF Running
      <4>5. QED
          BY <3>1, <1>3, <1>4, <4>3, <4>4
    <3>2. CASE t # s
        BY <3>2, <1>1, <1>3, <1>4 DEF Counting, Counted, Running
    <3>3. QED
        BY <3>1, <3>2
  <2>2. QED
      BY <2>1 DEF Counted
<1>7. QED
    BY <1>3, <1>5, <1>6 DEF Counting

(* A step that leaves the counts, the subscribers and the requests of all  *)
(* streams as they are.                                                    *)
LEMMA StillCounted ==
    ASSUME Counting, UNCHANGED <<made, ended, subs, count, req>>
    PROVE  Counting'
<1>1. Unserved' /\ Members'
    BY DEF Counting, Unserved, Members, Answered, Holding, Running
<1>2. \A t \in Stream : Adding(t)' = Adding(t) /\ Late(t)' = Late(t) /\ (Running(t)' <=> Running(t))
    BY DEF Answered, Adding, Late, Running
<1>3. Counted'
  <2>1. UNCHANGED <<count, subs, ended, made>>
      OBVIOUS
  <2>2. ASSUME NEW t \in Stream
        PROVE  /\ Running(t)' => count'[t] = Cardinality(subs'[t]) + Cardinality(Adding(t)')
               /\ t \in ended' => count'[t] \in -Cardinality(Late(t)')..Cardinality(Adding(t)')
               /\ t > made' => count'[t] = 0
      BY <1>2, <2>1 DEF Counting, Counted
  <2>3. QED
      BY <2>2 DEF Counted
<1>4. QED
    BY <1>1, <1>3 DEF Counting

(* RemoveStream touches neither requests nor counts.                       *)
LEMMA RemoveCounted ==
    ASSUME Plain, Counting, RemoveStream
    PROVE  Plain' /\ Counting'
<1>1. UNCHANGED <<config, made, ended, log, subs, clock, sent, count, req>>
      /\ current' = None /\ quit' = quit \cup ({current} \ {None})
      /\ removes' = removes + 1 /\ removes < MaxRemoves
    BY DEF RemoveStream, Removes, loopVars
<1>2. quit' \subseteq 1..made /\ ended' \subseteq quit'
    BY <1>1 DEF Plain, None
<1>3. current' \in 0..made' /\ removes' \in 0..MaxRemoves
    BY <1>1, SseAssumption, Groups DEF Plain, None
<1>4. LogSize' = LogSize /\ Request' = Request
    BY <1>1 DEF LogSize, Request
<1>5. Plain'
    BY <1>1, <1>2, <1>3, <1>4 DEF Plain
<1>6. Counting'
    BY <1>1, StillCounted
<1>7. QED
    BY <1>5, <1>6

(* A request that arrives is in nobody's count.                            *)
LEMMA ArriveCounted ==
    ASSUME Plain, Counting, Arrivals, NEW r \in Req, Arrive(r)
    PROVE  Plain' /\ Counting' /\ req'[r].at # "idle" /\ made' <= made + 1
           /\ \A q \in Req : q # r => req'[q] = req[q]
<1>0. PICK y : y = req[r]
    OBVIOUS
<1>1. /\ y \in Request /\ y.at = "idle" /\ made \in Nat /\ Len(y.queue) <= ConnBuffer
      /\ current \in 0..made /\ MaxReqs \in Nat /\ MaxEvents \in Nat
    BY <1>0, Groups DEF Arrive, Plain
<1>2. made + 1 <= MaxReqs + 1
  <2>1. PICK k \in 0..MaxReqs : made <= k + 1 /\ \A q \in Req : req[q].at # "idle" <=> q <= k
      BY DEF Arrivals
  <2>2. r > k /\ r <= MaxReqs
      BY <1>0, <1>1, <2>1 DEF Req
  <2>3. r = k + 1
    <3>1. SUFFICES ASSUME r # k + 1 PROVE FALSE
        OBVIOUS
    <3>2. k + 1 \in 1..(r - 1) /\ k + 1 \in Req
        BY <1>1, <2>1, <2>2, <3>1 DEF Req
    <3>3. req[k + 1].at # "idle"
        BY <3>2 DEF Arrive
    <3>4. QED
        BY <2>1, <3>2, <3>3
  <2>4. QED
      BY <1>1, <2>1, <2>2, <2>3
<1>3. PICK from \in {0} \cup {req[q].read[Len(req[q].read)] :
                                q \in {p \in Req : req[p].gone /\ req[p].read # <<>>}} :
         IF current # None
         THEN /\ req' = [req EXCEPT ![r] = [@ EXCEPT !.at = "found", !.stream = current,
                                                     !.from = from]]
              /\ UNCHANGED <<current, made, quit, count>>
         ELSE /\ autoStream
              /\ made' = made + 1
              /\ req' = [req EXCEPT ![r] = [@ EXCEPT !.at = "exist", !.stream = made + 1,
                                                     !.from = from]]
              /\ UNCHANGED <<current, quit, count>>
    BY DEF Arrive
<1>4. from \in 0..MaxEvents
  <2>1. CASE from = 0
      BY <1>1, <2>1
  <2>2. CASE from # 0
    <3>1. PICK q \in Req : req[q].read # <<>> /\ from = req[q].read[Len(req[q].read)]
        BY <2>2
    <3>2. req[q].read \in Seq(Event)
        BY DEF Plain, Request
    <3>3. Len(req[q].read) \in 1..Len(req[q].read)
        BY <3>1, <3>2
    <3>4. from \in Event
        BY <3>1, <3>2, <3>3
    <3>5. QED
        BY <3>4, <1>1 DEF Event
  <2>3. QED
      BY <2>1, <2>2
<1>5. PICK at, to : /\ at \in {"found", "exist"} /\ made' \in {made, made + 1}
                    /\ to \in 0..made' /\ to # None
                    /\ req' = [req EXCEPT ![r] = [y EXCEPT !.at = at, !.stream = to, !.from = from]]
  <2>1. CASE current # None
    <3>1. /\ "found" \in {"found", "exist"} /\ made' \in {made, made + 1}
          /\ current \in 0..made' /\ current # None
          /\ req' = [req EXCEPT ![r] = [y EXCEPT !.at = "found", !.stream = current, !.from = from]]
        BY <1>0, <1>1, <1>3, <2>1
    <3>2. QED
        BY <3>1
  <2>2. CASE current = None
    <3>1. /\ "exist" \in {"found", "exist"} /\ made' \in {made, made + 1}
          /\ made + 1 \in 0..made' /\ made + 1 # None
          /\ req' = [req EXCEPT ![r] = [y EXCEPT !.at = "exist", !.stream = made + 1,
                                                 !.from = from]]
        BY <1>0, <1>1, <1>3, <2>2 DEF None
    <3>2. QED
        BY <3>1
  <2>3. QED
      BY <2>1, <2>2
<1>6. PICK x : x = [y EXCEPT !.at = at, !.stream = to, !.from = from]
    OBVIOUS
<1>7. /\ x \in Request' /\ x.at = at /\ x.stream = to /\ x.queue = y.queue /\ x.read = y.read
      /\ x.base = y.base /\ x.closed = y.closed
  <2>1. 0..made \subseteq 0..made'
      BY <1>1, <1>5
  <2>2. QED
      BY <1>1, <1>4, <1>5, <1>6, <2>1 DEF Request
<1>8. /\ UNCHANGED <<config, current, ended, log, subs, clock, sent, quit, count, removes>>
    BY <1>3 DEF Arrive, ReqQuiet, loopVars
<1>9. req'[r] = x /\ \A q \in Req : q # r => req'[q] = req[q]
    BY <1>5, <1>6 DEF Plain
<1>10. Plain'
  <2>1. subs' \in [Stream -> SUBSET Req] /\ count' \in [Stream -> Int] /\ made' <= MaxReqs + 1
        /\ current' \in 0..made' /\ quit \subseteq quit' /\ quit' \subseteq 1..made'
      BY <1>1, <1>2, <1>5, <1>8 DEF Plain
  <2>2. req' = [req EXCEPT ![r] = x] /\ Len(x.queue) <= ConnBuffer
      BY <1>1, <1>5, <1>6, <1>7
  <2>3. QED
      BY <1>5, <1>7, <1>8, <2>1, <2>2, OnePlain
<1>11. y.base = -1 /\ ~y.closed /\ y.queue = <<>> /\ y.read = <<>>
    BY <1>0, <1>1 DEF Counting, Unserved, Answered
<1>12. Unserved'
    BY <1>5, <1>7, <1>9, <1>11 DEF Counting, Unserved, Answered
<1>13. \A t \in Stream : Adding(t)' = Adding(t) /\ Late(t)' = Late(t) /\ Holding(t)' = Holding(t)
  <2>1. /\ req[r].at \notin {"adding", "serving", "ended"} /\ ~(req[r].base >= 0)
        /\ req'[r].at \notin {"adding", "serving", "ended"} /\ ~(req'[r].base >= 0)
      BY <1>0, <1>1, <1>5, <1>7, <1>9, <1>11
  <2>2. QED
      BY <1>9, <2>1 DEF Adding, Late, Holding, Answered
<1>14. ASSUME NEW t \in Stream
       PROVE  Running(t)' <=> Running(t) \/ (made' = made + 1 /\ t = made + 1)
  <2>1. made + 1 \notin ended
      BY <1>1 DEF Plain
  <2>2. QED
      BY <1>1, <1>5, <1>8, <2>1 DEF Running
<1>15. ASSUME NEW t \in Stream, t > made
       PROVE  Adding(t) = {} /\ subs[t] = {} /\ count[t] = 0
  <2>1. \A q \in Req : req[q].stream \in 0..made
      BY DEF Plain, Request
  <2>2. \A q \in Req : req[q].stream # t
      BY <2>1, <1>1, <1>15
  <2>3. ~Running(t)
      BY <1>1, <1>15 DEF Running
  <2>4. QED
      BY <1>15, <2>2, <2>3 DEF Adding, Counting, Members, Counted
<1>16. Members'
  <2>1. ASSUME NEW t \in Stream
        PROVE  subs'[t] = Holding(t)' /\ (~Running(t)' => subs'[t] = {})
      BY <1>8, <1>13, <1>14 DEF Counting, Members
  <2>2. QED
      BY <2>1 DEF Members
<1>17. Counted'
  <2>1. ASSUME NEW t \in Stream
        PROVE  /\ Running(t)' => count'[t] = Cardinality(subs'[t]) + Cardinality(Adding(t)')
               /\ t \in ended' => count'[t] \in -Cardinality(Late(t)')..Cardinality(Adding(t)')
               /\ t > made' => count'[t] = 0
    <3>1. UNCHANGED <<count, subs, ended>> /\ Adding(t)' = Adding(t) /\ Late(t)' = Late(t)
        BY <1>8, <1>13
    <3>2. Running(t)' => count[t] = Cardinality(subs[t]) + Cardinality(Adding(t))
      <4>1. CASE Running(t)
          BY <4>1 DEF Counting, Counted
      <4>2. CASE made' = made + 1 /\ t = made + 1
        <5>1. Adding(t) = {} /\ subs[t] = {} /\ count[t] = 0
            BY <1>1, <1>15, <4>2
        <5>2. Cardinality({}) = 0
            BY FS_EmptySet
        <5>3. QED
            BY <5>1, <5>2
      <4>3. QED
          BY <1>14, <4>1, <4>2
    <3>3. t \in ended => count[t] \in -Cardinality(Late(t))..Cardinality(Adding(t))
        BY DEF Counting, Counted
    <3>4. t > made' => count[t] = 0
      <4>1. t \in Nat
          BY DEF Stream
      <4>2. QED
          BY <1>1, <1>5, <4>1 DEF Counting, Counted
    <3>5. QED
        BY <3>1, <3>2, <3>3, <3>4
  <2>2. QED
      BY <2>1 DEF Counted
<1>18. req'[r].at # "idle" /\ made' <= made + 1
    BY <1>1, <1>5, <1>7, <1>9
<1>19. QED
    BY <1>9, <1>10, <1>12, <1>16, <1>17, <1>18 DEF Counting

(* Requests arrive in order, and a step brings one at most.                *)
LEMMA OneArrival ==
    ASSUME Plain, Arrivals, NEW r \in Req, req[r].at = "idle",
           \A q \in 1..(r - 1) : req[q].at # "idle",
           req'[r].at # "idle", \A q \in Req : q # r => req'[q] = req[q],
           made' \in Nat, made' <= made + 1
    PROVE  Arrivals'
<1>1. PICK k \in 0..MaxReqs : made <= k + 1 /\ \A q \in Req : req[q].at # "idle" <=> q <= k
    BY DEF Arrivals
<1>2. made \in Nat /\ MaxReqs \in Nat
    BY Groups DEF Plain
<1>3. r = k + 1
  <2>1. SUFFICES ASSUME r # k + 1 PROVE FALSE
      OBVIOUS
  <2>2. r > k /\ r <= MaxReqs
      BY <1>1, <1>2 DEF Req
  <2>3. k + 1 \in 1..(r - 1) /\ k + 1 \in Req
      BY <1>1, <1>2, <2>1, <2>2 DEF Req
  <2>4. QED
      BY <1>1, <2>3
<1>4. k + 1 \in 0..MaxReqs /\ made' <= (k + 1) + 1
    BY <1>1, <1>2, <1>3 DEF Req
<1>5. \A q \in Req : req'[q].at # "idle" <=> q <= k + 1
    BY <1>1, <1>2, <1>3 DEF Req
<1>6. QED
    BY <1>4, <1>5 DEF Arrivals

(* A step that makes no stream and starts no request keeps the order.      *)
LEMMA NoArrival ==
    ASSUME Arrivals, made' = made, \A q \in Req : req'[q].at = "idle" <=> req[q].at = "idle"
    PROVE  Arrivals'
    BY DEF Arrivals

\* Inductive; the bound of the count is a consequence.
CountIInv == Plain /\ Arrivals /\ Counting

(* Before the first request nothing is counted.                            *)
LEMMA CountInit == SseInit => CountIInv
<1> SUFFICES ASSUME SseInit PROVE CountIInv
    OBVIOUS
<1>1. /\ config \in Options /\ autoStream \in BOOLEAN /\ LogSize \in Nat \ {0}
      /\ MaxReqs \in Nat /\ MaxEvents \in Nat /\ MaxRemoves \in Nat /\ ConnBuffer \in Nat \ {0}
    BY Settings, SseAssumption DEF SseInit
<1>2. /\ made \in {0, 1} /\ current = made /\ quit = {} /\ ended = {} /\ clock = 0 /\ removes = 0
      /\ \A s \in Stream : log[s] = <<>> /\ sent[s] = <<>> /\ subs[s] = {} /\ count[s] = 0
      /\ \A r \in Req : req[r] = NoReq
    BY DEF SseInit
<1>3. NoReq \in Request /\ NoReq.queue = <<>> /\ NoReq.read = <<>> /\ NoReq.at = "idle"
      /\ NoReq.base = -1 /\ ~NoReq.closed
  <2>1. 0 \in 0..made /\ 0 \in 0..MaxEvents /\ -1 \in -1..MaxEvents /\ <<>> \in Seq(Event)
      BY <1>1, <1>2
  <2>2. QED
      BY <2>1 DEF NoReq, Request, None
<1>4. Plain
  <2>1. /\ log \in [Stream -> Seq(Event)] /\ sent \in [Stream -> Seq(Event)]
        /\ subs \in [Stream -> SUBSET Req] /\ count \in [Stream -> Int]
        /\ req \in [Req -> Request]
      BY <1>3 DEF SseInit
  <2>2. \A s \in Stream : Len(log[s]) <= LogSize /\ Len(sent[s]) <= clock
      BY <1>1, <1>2
  <2>3. \A r \in Req : Len(req[r].queue) <= ConnBuffer
      BY <1>1, <1>2, <1>3
  <2>4. current \in 0..made /\ made \in 0..(MaxReqs + 1) /\ clock \in 0..MaxEvents
        /\ removes \in 0..MaxRemoves
      BY <1>1, <1>2
  <2>5. QED
      BY <1>1, <1>2, <2>1, <2>2, <2>3, <2>4 DEF Plain
<1>5. Arrivals
  <2>1. 0 \in 0..MaxReqs /\ made <= 0 + 1 /\ \A r \in Req : req[r].at # "idle" <=> r <= 0
      BY <1>1, <1>2, <1>3 DEF Req
  <2>2. QED
      BY <2>1 DEF Arrivals
<1>6. Unserved
    BY <1>2, <1>3 DEF Unserved
<1>7. \A s \in Stream : Holding(s) = {} /\ Adding(s) = {}
  <2>1. ~(-1 >= 0)
      OBVIOUS
  <2>2. QED
      BY <1>2, <1>3, <2>1 DEF Holding, Adding
<1>8. Members
    BY <1>2, <1>7 DEF Members
<1>9. Counted
  <2>1. Cardinality({}) = 0
      BY FS_EmptySet
  <2>2. ASSUME NEW s \in Stream
        PROVE  /\ count[s] = Cardinality(subs[s]) + Cardinality(Adding(s))
               /\ s \notin ended /\ count[s] = 0
    <3>1. subs[s] = {} /\ Adding(s) = {} /\ count[s] = 0
        BY <1>2, <1>7
    <3>2. QED
        BY <1>2, <2>1, <3>1
  <2>3. QED
      BY <2>2 DEF Counted
<1>10. QED
    BY <1>4, <1>5, <1>6, <1>8, <1>9 DEF CountIInv, Counting

(* Every step keeps the count right.                                       *)
LEMMA CountStep == CountIInv /\ [SseNext]_sseVars => CountIInv'
<1> SUFFICES ASSUME Plain, Arrivals, Counting, [SseNext]_sseVars PROVE CountIInv'
    BY DEF CountIInv
<1>1. ASSUME NEW s \in Stream, StreamStep(s)
      PROVE  CountIInv'
  <2>1. CASE Dispatch(s) \/ LoopQuits(s)
    <3>1. Plain' /\ Counting'
        BY <2>1, LoopPlain, DispatchCounted, LoopQuitsCounted
    <3>2. made' = made /\ \A q \in Req : req'[q].at = "idle" <=> req[q].at = "idle"
      <4>1. \A q \in Req : /\ req[q] \in Request
                           /\ req'[q] \in {Cut(q), Receive(q, clock + 1), req[q]}
          BY <2>1 DEF Dispatch, LoopQuits, Plain
      <4>2. \A q \in Req : Cut(q).at = req[q].at /\ Receive(q, clock + 1).at = req[q].at
          BY <4>1 DEF Cut, Receive, Request
      <4>3. \A q \in Req : req'[q].at = req[q].at
          BY <4>1, <4>2
      <4>4. QED
          BY <2>1, <4>3 DEF Dispatch, LoopQuits
    <3>3. QED
        BY <3>1, <3>2, NoArrival DEF CountIInv
  <2>2. ASSUME NEW r \in Req, Register(s, r) \/ Deregister(s, r)
        PROVE  CountIInv'
    <3>1. Plain' /\ Counting'
        BY <2>2, RegisterCounted, DeregisterCounted
    <3>2. made' = made /\ \A q \in Req : req'[q].at = "idle" <=> req[q].at = "idle"
      <4>1. \A q \in Req : req[q] \in Request
          BY DEF Plain
      <4>2. \A q \in Req : q # r => req'[q] = req[q]
          BY <2>2 DEF Register, Deregister, Plain
      <4>3. req'[r].at = "idle" <=> req[r].at = "idle"
        <5>1. CASE Register(s, r)
          <6>1. req'[r].at = "serving" /\ req[r].at = "adding"
              BY <4>1, <5>1 DEF Register, Plain, Request
          <6>2. QED
              BY <6>1
        <5>2. CASE Deregister(s, r)
          <6>1. /\ Cut(r) \in Request /\ Cut(r).at = req[r].at
                /\ [Cut(r) EXCEPT !.closer = "removed"].at = Cut(r).at
                /\ [req[r] EXCEPT !.closer = "removed"].at = req[r].at
              BY <4>1 DEF Cut, Request
          <6>2. \/ req' = [req EXCEPT ![r] = [Cut(r) EXCEPT !.closer = "removed"]]
                \/ req' = [req EXCEPT ![r] = [req[r] EXCEPT !.closer = "removed"]]
              BY <5>2 DEF Deregister
          <6>3. QED
              BY <6>1, <6>2 DEF Plain
        <5>3. QED
            BY <2>2, <5>1, <5>2
      <4>4. made' = made
          BY <2>2 DEF Register, Deregister
      <4>5. QED
          BY <4>2, <4>3, <4>4
    <3>3. QED
        BY <3>1, <3>2, NoArrival DEF CountIInv
  <2>3. QED
      BY <1>1, <2>1, <2>2 DEF StreamStep
<1>2. ASSUME NEW r \in Req, Arrive(r) \/ Refuse(r)
      PROVE  CountIInv'
  <2>1. Plain' /\ Counting' /\ req'[r].at # "idle" /\ made' <= made + 1
        /\ \A q \in Req : q # r => req'[q] = req[q]
    <3>1. CASE Arrive(r)
        BY <3>1, ArriveCounted
    <3>2. CASE Refuse(r)
      <4>1. Plain' /\ Counting'
          BY <3>2, CalmSteps, CalmCounted
      <4>2. made' = made /\ made \in Nat
          BY <3>2, Groups DEF Refuse, Plain
      <4>3. req'[r].at = "ended" /\ \A q \in Req : q # r => req'[q] = req[q]
        <5>1. req[r] \in Request /\ req \in [Req -> Request]
            BY DEF Plain
        <5>2. req' = [req EXCEPT ![r] = [req[r] EXCEPT !.at = "ended", !.closer = "done",
                                                       !.gone = TRUE]]
            BY <3>2 DEF Refuse
        <5>3. QED
            BY <5>1, <5>2 DEF Request
      <4>4. QED
          BY <4>1, <4>2, <4>3
    <3>3. QED
        BY <1>2, <3>1, <3>2
  <2>2. req[r].at = "idle" /\ \A q \in 1..(r - 1) : req[q].at # "idle"
      BY <1>2 DEF Arrive, Refuse
  <2>3. made' \in Nat
      BY <2>1, Groups DEF Plain
  <2>4. QED
      BY <2>1, <2>2, <2>3, OneArrival DEF CountIInv
<1>3. ASSUME NEW r \in Req, ServeStep(r) \/ Leave(r) \/ CloserStep(r)
      PROVE  CountIInv'
  <2>1. CASE AddSubscriber(r) \/ AddRefused(r)
    <3>1. Plain' /\ Counting'
        BY <2>1, AddCounted
    <3>2. made' = made /\ \A q \in Req : req'[q].at = "idle" <=> req[q].at = "idle"
      <4>1. req \in [Req -> Request]
          BY DEF Plain
      <4>2. \A q \in Req : q # r => req'[q] = req[q]
          BY <2>1, <4>1 DEF AddSubscriber, AddRefused, At
      <4>3. req'[r].at = "idle" <=> req[r].at = "idle"
          BY <2>1, <4>1 DEF AddSubscriber, AddRefused, At, Request
      <4>4. made' = made
          BY <2>1 DEF AddSubscriber, AddRefused
      <4>5. QED
          BY <4>2, <4>3, <4>4
    <3>3. QED
        BY <3>1, <3>2, NoArrival DEF CountIInv
  <2>2. CASE ~(AddSubscriber(r) \/ AddRefused(r))
    <3>1. Calm(r) /\ (req'[r].at = "idle" <=> req[r].at = "idle")
        BY <1>3, <2>2, CalmSteps DEF ServeStep, AnswerStep
    <3>2. Plain' /\ Counting'
        BY <3>1, CalmCounted
    <3>3. made' = made /\ \A q \in Req : q # r => req'[q] = req[q]
        BY <3>1 DEF Calm, Plain
    <3>4. QED
        BY <3>1, <3>2, <3>3, NoArrival DEF CountIInv
  <2>3. QED
      BY <2>1, <2>2
<1>4. CASE RemoveStream
  <2>1. Plain' /\ Counting'
      BY <1>4, RemoveCounted
  <2>2. made' = made /\ req' = req
      BY <1>4 DEF RemoveStream
  <2>3. QED
      BY <2>1, <2>2, NoArrival DEF CountIInv
<1>5. CASE UNCHANGED sseVars
  <2>1. UNCHANGED <<config, current, made, quit, ended, log, subs, clock, sent, count, req,
                    removes>>
      BY <1>5 DEF sseVars, loopVars
  <2>2. Plain'
      BY <2>1 DEF Plain, LogSize, Request
  <2>3. Counting'
      BY <2>1, StillCounted
  <2>4. QED
      BY <2>1, <2>2, <2>3, NoArrival DEF CountIInv
<1>6. QED
    BY <1>1, <1>2, <1>3, <1>4, <1>5 DEF SseNext

(* The counter is exact while the loop runs, nobody writes to a connection *)
(* that was closed, and afterwards the counter is not too high.            *)
THEOREM CountIsExact == SseSpec => []CountExact
<1>1. SseSpec => []CountIInv
    BY CountInit, CountStep, PTL DEF SseSpec
<1>2. CountIInv => CountExact
  <2> SUFFICES ASSUME Plain, Counting PROVE CountExact
      BY DEF CountIInv
  <2>1. SseTypeOK
      BY Exact
  <2>2. ASSUME NEW s \in Stream
        PROVE  /\ Running(s) => /\ \A r \in subs[s] : ~req[r].closed
                                /\ count[s] = Cardinality(subs[s]) + Cardinality(Adding(s))
               /\ s \in ended => count[s] <= Cardinality(Adding(s))
    <3>1. \A r \in subs[s] : ~req[r].closed
        BY DEF Counting, Members, Holding
    <3>2. s \in ended => count[s] <= Cardinality(Adding(s))
      <4>1. Adding(s) \in SUBSET Req /\ Late(s) \in SUBSET Req
          BY DEF Adding, Late
      <4>2. Cardinality(Adding(s)) \in Nat /\ Cardinality(Late(s)) \in Nat
          BY <4>1, Groups
      <4>3. s \in ended => count[s] \in -Cardinality(Late(s))..Cardinality(Adding(s))
          BY DEF Counting, Counted
      <4>4. QED
          BY <4>2, <4>3
    <3>3. QED
        BY <3>1, <3>2 DEF Counting, Counted
  <2>3. QED
      BY <2>1, <2>2 DEF CountExact
<1>3. QED
    BY <1>1, <1>2, PTL

-----------------------------------------------------------------------------
(* The window.                                                             *)

(* What the log retains of a sequence is its end.                          *)
LEMMA TrimIsEnd ==
    ASSUME config \in Options, NEW q \in Seq(Event)
    PROVE  /\ Trim(q) \in Seq(Event)
           /\ Len(q) <= LogSize => Trim(q) = q
           /\ Len(q) > LogSize =>
                 /\ Len(Trim(q)) = LogSize
                 /\ \A i \in 1..LogSize : Trim(q)[i] = q[Len(q) - LogSize + i]
<1>1. LogSize \in Nat \ {0} /\ Len(q) \in Nat
    BY Settings
<1>2. CASE Len(q) <= LogSize
    BY <1>1, <1>2 DEF Trim
<1>3. CASE ~(Len(q) <= LogSize)
  <2> DEFINE n == Len(q)
             m == n - LogSize + 1
  <2>1. Trim(q) = SubSeq(q, m, n)
      BY <1>3 DEF Trim
  <2>2. m \in Int /\ n \in Int /\ m <= n /\ n - m + 1 = LogSize /\ \A i \in m..n : q[i] \in Event
      BY <1>1, <1>3
  <2>3. \A i \in 1..LogSize : q[m + i - 1] = q[n - LogSize + i]
    <3>1. \A i \in 1..LogSize : m + i - 1 = n - LogSize + i
        BY <1>1
    <3>2. QED
        BY <3>1
  <2> HIDE DEF m, n
  <2>4. /\ SubSeq(q, m, n) \in Seq(Event) /\ Len(SubSeq(q, m, n)) = LogSize
        /\ \A i \in 1..LogSize : SubSeq(q, m, n)[i] = q[m + i - 1]
      BY <2>2, SubSeqProperties
  <2>5. QED
      BY <1>3, <2>1, <2>3, <2>4 DEF n
<1>4. QED
    BY <1>2, <1>3

(* Trimming after every event or once at the end is the same.              *)
LEMMA TrimAgain ==
    ASSUME config \in Options, NEW q \in Seq(Event), NEW e \in Event
    PROVE  Trim(Append(Trim(q), e)) = Trim(Append(q, e))
<1>0. PICK L \in Nat \ {0} : L = LogSize
    BY Settings
<1>1. CASE Len(q) <= L
    BY <1>0, <1>1, TrimIsEnd
<1>2. CASE ~(Len(q) <= L)
  <2>1. PICK t, p, n : t = Trim(q) /\ p = Append(q, e) /\ n = Len(q)
      OBVIOUS
  <2>2. /\ t \in Seq(Event) /\ Len(t) = L /\ n \in Nat /\ n > L
        /\ \A i \in 1..L : t[i] = q[n - L + i]
      BY <1>0, <1>2, <2>1, TrimIsEnd
  <2>3. PICK u : u = Append(t, e)
      OBVIOUS
  <2>4. /\ u \in Seq(Event) /\ Len(u) = L + 1 /\ u[L + 1] = e /\ \A i \in 1..L : u[i] = t[i]
        /\ p \in Seq(Event) /\ Len(p) = n + 1 /\ p[n + 1] = e /\ \A i \in 1..n : p[i] = q[i]
      BY <2>1, <2>2, <2>3, AppendProperties
  <2>5. /\ Trim(u) \in Seq(Event) /\ Len(Trim(u)) = L
        /\ \A i \in 1..L : Trim(u)[i] = u[1 + i]
    <3>1. Len(u) > LogSize
        BY <1>0, <2>2, <2>4
    <3>2. /\ Trim(u) \in Seq(Event) /\ Len(Trim(u)) = LogSize
          /\ \A i \in 1..LogSize : Trim(u)[i] = u[Len(u) - LogSize + i]
        BY <2>4, <3>1, TrimIsEnd
    <3>3. \A i \in 1..L : Len(u) - LogSize + i = 1 + i
        BY <1>0, <2>2, <2>4
    <3>4. QED
        BY <1>0, <3>2, <3>3
  <2>6. /\ Trim(p) \in Seq(Event) /\ Len(Trim(p)) = L
        /\ \A i \in 1..L : Trim(p)[i] = p[n + 1 - L + i]
    <3>1. Len(p) > LogSize
        BY <1>0, <2>2, <2>4
    <3>2. /\ Trim(p) \in Seq(Event) /\ Len(Trim(p)) = LogSize
          /\ \A i \in 1..LogSize : Trim(p)[i] = p[Len(p) - LogSize + i]
        BY <2>4, <3>1, TrimIsEnd
    <3>3. \A i \in 1..L : Len(p) - LogSize + i = n + 1 - L + i
        BY <1>0, <2>2, <2>4
    <3>4. QED
        BY <1>0, <3>2, <3>3
  <2>7. ASSUME NEW i \in 1..L
        PROVE  u[1 + i] = p[n + 1 - L + i]
    <3>1. CASE i = L
      <4>1. 1 + i = L + 1 /\ n + 1 - L + i = n + 1
          BY <2>2, <3>1
      <4>2. QED
          BY <2>4, <4>1
    <3>2. CASE i # L
      <4>1. 1 + i \in 1..L /\ n + 1 - L + i \in 1..n /\ n - L + (1 + i) = n + 1 - L + i
          BY <2>2, <3>2
      <4>2. QED
          BY <2>2, <2>4, <4>1
    <3>3. QED
        BY <3>1, <3>2
  <2>8. \A i \in 1..L : Trim(u)[i] = Trim(p)[i]
      BY <2>5, <2>6, <2>7
  <2>9. Trim(u) = Trim(p)
      BY <2>5, <2>6, <2>8, SeqEqual
  <2>10. QED
      BY <2>1, <2>3, <2>9
<1>3. QED
    BY <1>1, <1>2

-----------------------------------------------------------------------------
(* What one subscriber is due of what its stream dispatched.               *)

Replay(q, y) == IF autoReplay THEN Since(Trim(SubSeq(q, 1, y.base)), y.from) ELSE <<>>
Due(q, y) == Replay(q, y) \o SubSeq(q, y.base + 1, Len(q))
Lost(q, y) == {e \in ToSet(SubSeq(q, 1, y.base)) : e > y.from /\ e \notin ToSet(Replay(q, y))}

Handed(q, y) ==
    y.base >= 0 =>
        /\ y.base <= Len(q)
        /\ IsPrefix(y.read \o y.queue, Due(q, y))
        /\ ~y.closed => y.read \o y.queue = Due(q, y)
        /\ autoReplay /\ y.from # 0 /\ Lost(q, y) # {} => y.warned

(* Handed is Begun and Delivery, request by request.                       *)
LEMMA HandedIsDelivery ==
    Begun /\ Delivery <=> \A r \in Req : Handed(sent[req[r].stream], req[r])
    BY DEF Begun, Delivery, Handed, Delivered, Owed, Missed, Replayed, Replay, Due, Lost

(* The same after a step, which never changes the settings.                *)
LEMMA DeliveryNext ==
    ASSUME config' = config, \A r \in Req : Handed(sent'[req'[r].stream], req'[r])
    PROVE  Begun' /\ Delivery'
    BY DEF Begun, Delivery, Handed, Delivered, Owed, Missed, Replayed, Replay, Due, Lost,
           Trim, LogSize, autoReplay

(* What a subscriber is due is a sequence of events.                       *)
LEMMA DueTyped ==
    ASSUME config \in Options, NEW q \in Seq(Event), NEW y \in Request, y.base \in 0..Len(q)
    PROVE  /\ SubSeq(q, 1, y.base) \in Seq(Event) /\ SubSeq(q, y.base + 1, Len(q)) \in Seq(Event)
           /\ Replay(q, y) \in Seq(Event) /\ Due(q, y) \in Seq(Event)
<1>1. SubSeq(q, 1, y.base) \in Seq(Event) /\ SubSeq(q, y.base + 1, Len(q)) \in Seq(Event)
  <2>1. PICK b \in 0..Len(q) : b = y.base
      OBVIOUS
  <2>2. SubSeq(q, 1, b) \in Seq(Event)
    <3>1. \A i \in 1..b : q[i] \in Event
        OBVIOUS
    <3>2. QED
        BY <3>1, SubSeqProperties
  <2>3. SubSeq(q, b + 1, Len(q)) \in Seq(Event)
    <3>1. \A i \in (b + 1)..Len(q) : q[i] \in Event
        OBVIOUS
    <3>2. b + 1 \in Int /\ Len(q) \in Int
        OBVIOUS
    <3>3. QED
        BY <3>1, <3>2, SubSeqProperties
  <2>4. QED
      BY <2>1, <2>2, <2>3
<1>2. Replay(q, y) \in Seq(Event)
  <2>1. Trim(SubSeq(q, 1, y.base)) \in Seq(Event) /\ y.from \in Nat
    <3>1. y.from \in Nat
        BY Groups DEF Request
    <3>2. QED
        BY <1>1, <3>1, TrimTyped
  <2>2. Since(Trim(SubSeq(q, 1, y.base)), y.from) \in Seq(Event)
      BY <2>1, SinceFilters
  <2>3. QED
      BY <2>2 DEF Replay
<1>3. QED
    BY <1>1, <1>2, ConcatProperties DEF Due

(* What a request may do while the stream dispatches nothing: it keeps its *)
(* place, reads, or is cut; or it has no place yet.                        *)
Keeps(x, y) ==
    \/ x.base = -1
    \/ /\ x.stream = y.stream /\ x.from = y.from /\ x.base = y.base /\ x.warned = y.warned
       /\ x.read \o x.queue = y.read \o y.queue
       /\ y.closed => x.closed

(* Reading, or being cut, does not change what one is due.                 *)
LEMMA KeepsHanded ==
    ASSUME NEW q, NEW x, NEW y, Handed(q, y), Keeps(x, y)
    PROVE  Handed(q, x)
<1>1. CASE x.base = -1
    BY <1>1 DEF Handed
<1>2. CASE x.base # -1
    BY <1>2 DEF Handed, Keeps, Due, Replay, Lost
<1>3. QED
    BY <1>1, <1>2

(* A step without a dispatch or a registration.                            *)
LEMMA QuietDelivery ==
    ASSUME Logged, Begun, Delivery, UNCHANGED <<config, sent, log, clock>>,
           \A r \in Req : Keeps(req'[r], req[r])
    PROVE  DeliveryInv'
<1>1. \A r \in Req : Handed(sent[req[r].stream], req[r])
    BY HandedIsDelivery
<1>2. ASSUME NEW r \in Req
      PROVE  Handed(sent'[req'[r].stream], req'[r])
  <2>1. PICK x, y : x = req'[r] /\ y = req[r]
      OBVIOUS
  <2>2. Handed(sent[y.stream], y) /\ Keeps(x, y)
      BY <1>1, <2>1
  <2>3. Handed(sent[y.stream], x)
      BY <2>2, KeepsHanded
  <2>4. x.stream = y.stream \/ x.base = -1
      BY <2>2 DEF Keeps
  <2>5. Handed(sent[x.stream], x)
    <3>1. CASE x.base = -1
        BY <3>1 DEF Handed
    <3>2. QED
        BY <3>1, <2>3, <2>4
  <2>6. QED
      BY <2>1, <2>5
<1>3. Logged'
    BY DEF Logged, Trim, LogSize, autoReplay
<1>4. QED
    BY <1>2, <1>3, DeliveryNext DEF DeliveryInv

(* A sequence is a prefix of itself.                                       *)
LEMMA PrefixSelf ==
    ASSUME NEW x \in Seq(Event)
    PROVE  IsPrefix(x, x)
    BY DEF IsPrefix

(* An event is dispatched: whoever is registered gets it or is cut, and    *)
(* whoever was cut stays behind.                                           *)
LEMMA DispatchHanded ==
    ASSUME config \in Options, NEW q \in Seq(Event), NEW e \in Event,
           NEW y \in Request, NEW x \in Request, Handed(q, y),
           x.stream = y.stream, x.from = y.from, x.base = y.base, x.warned = y.warned,
           \/ x.closed /\ x.read \o x.queue = y.read \o y.queue
           \/ ~y.closed /\ x.read \o x.queue = Append(y.read \o y.queue, e)
    PROVE  Handed(Append(q, e), x)
<1> SUFFICES ASSUME y.base >= 0 PROVE Handed(Append(q, e), x)
    BY DEF Handed
<1>1. /\ y.base <= Len(q) /\ IsPrefix(y.read \o y.queue, Due(q, y))
      /\ ~y.closed => y.read \o y.queue = Due(q, y)
      /\ autoReplay /\ y.from # 0 /\ Lost(q, y) # {} => y.warned
    BY DEF Handed
<1>2. PICK p, b, n : p = Append(q, e) /\ b = y.base /\ n = Len(q)
    OBVIOUS
<1>3. b \in 0..Len(q) /\ p \in Seq(Event) /\ Len(p) = n + 1 /\ n \in Nat /\ b <= Len(p)
  <2>1. p \in Seq(Event) /\ Len(p) = n + 1 /\ n \in Nat
      BY <1>2, AppendProperties
  <2>2. y.base \in Int
      BY Groups DEF Request
  <2>3. b \in Int /\ b >= 0 /\ b <= n
      BY <1>1, <1>2, <2>2
  <2>4. QED
      BY <1>2, <2>1, <2>3
<1>4. SubSeq(p, 1, b) = SubSeq(q, 1, b) /\ SubSeq(p, b + 1, n + 1) = Append(SubSeq(q, b + 1, n), e)
    BY <1>2, <1>3, OneMoreEvent
<1>5. /\ SubSeq(q, b + 1, n) \in Seq(Event)
      /\ Replay(q, y) \in Seq(Event) /\ Due(q, y) \in Seq(Event)
  <2>1. y.base \in 0..Len(q)
      BY <1>2, <1>3
  <2>2. QED
      BY <1>2, <2>1, DueTyped
<1>6. Replay(p, x) = Replay(q, y) /\ Lost(p, x) = Lost(q, y)
  <2>1. SubSeq(p, 1, x.base) = SubSeq(q, 1, y.base)
      BY <1>2, <1>4
  <2>2. Replay(p, x) = Replay(q, y)
      BY <2>1 DEF Replay
  <2>3. QED
      BY <2>1, <2>2 DEF Lost
<1>7. Due(p, x) = Append(Due(q, y), e)
  <2>1. Due(p, x) = Replay(q, y) \o Append(SubSeq(q, b + 1, n), e)
      BY <1>2, <1>3, <1>4, <1>6 DEF Due
  <2>2. Replay(q, y) \o Append(SubSeq(q, b + 1, n), e)
           = Append(Replay(q, y) \o SubSeq(q, b + 1, n), e)
      BY <1>5, AppendRight
  <2>3. Due(q, y) = Replay(q, y) \o SubSeq(q, b + 1, n)
      BY <1>2 DEF Due
  <2>4. QED
      BY <2>1, <2>2, <2>3
<1>8. y.read \o y.queue \in Seq(Event)
    BY ConcatProperties DEF Request
<1>9. IsPrefix(x.read \o x.queue, Due(p, x)) /\ (~x.closed => x.read \o x.queue = Due(p, x))
  <2>1. CASE x.closed /\ x.read \o x.queue = y.read \o y.queue
      BY <2>1, <1>1, <1>5, <1>7, <1>8, PrefixGrows
  <2>2. CASE ~y.closed /\ x.read \o x.queue = Append(y.read \o y.queue, e)
    <3>1. x.read \o x.queue = Due(p, x)
        BY <2>2, <1>1, <1>7
    <3>2. Due(p, x) \in Seq(Event)
        BY <1>5, <1>7, AppendProperties
    <3>3. QED
        BY <3>1, <3>2, PrefixSelf
  <2>3. QED
      BY <2>1, <2>2
<1>10. QED
    BY <1>1, <1>2, <1>3, <1>6, <1>9 DEF Handed

(* The front of a sequence is a prefix of it.                              *)
LEMMA SubSeqFront ==
    ASSUME NEW l \in Seq(Event), NEW n \in 0..Len(l)
    PROVE  SubSeq(l, 1, n) \in Seq(Event) /\ IsPrefix(SubSeq(l, 1, n), l)
<1>1. PICK k : k = SubSeq(l, 1, n)
    OBVIOUS
<1>2. k \in Seq(Event) /\ Len(k) = n
  <2>1. \A i \in 1..n : l[i] \in Event
      OBVIOUS
  <2>2. QED
      BY <1>1, <2>1, SubSeqProperties
<1>3. SubSeq(k, 1, Len(k)) = SubSeq(l, 1, Len(k))
    BY <1>1, <1>2, SubSeqFull
<1>4. QED
    BY <1>1, <1>2, <1>3 DEF IsPrefix

(* A request is registered: it is handed what the window holds for it, as  *)
(* far as that fits.                                                       *)
LEMMA RegisterHanded ==
    ASSUME config \in Options, NEW q \in Seq(Event), NEW x \in Request,
           NEW l \in Seq(Event), NEW events \in Seq(Event),
           \A i, j \in DOMAIN q : i < j => q[i] < q[j],
           autoReplay => l = Trim(q),
           events = IF autoReplay THEN Since(l, x.from) ELSE <<>>,
           x.read = <<>>, x.base = Len(q),
           IF Len(events) <= ConnBuffer THEN x.queue = events
           ELSE x.closed /\ x.queue = SubSeq(events, 1, ConnBuffer),
           autoReplay /\ TruncatedBefore(l, x.from) => x.warned
    PROVE  Handed(q, x)
<1>0. x.from \in Nat /\ ConnBuffer \in Nat /\ x.queue \in Seq(Event) /\ Len(q) \in Nat
    BY Groups DEF Request
<1>1. SubSeq(q, 1, x.base) = q /\ SubSeq(q, x.base + 1, Len(q)) = <<>>
  <2>1. Len(q) + 1 \in Int /\ Len(q) \in Int /\ Len(q) < Len(q) + 1
      OBVIOUS
  <2>2. SubSeq(q, Len(q) + 1, Len(q)) = <<>>
      BY <2>1, SubSeqEmpty
  <2>3. QED
      BY <2>2, SubSeqFull
<1>2. Replay(q, x) = events
    BY <1>1 DEF Replay
<1>3. Due(q, x) = events
    BY <1>1, <1>2, ConcatEmptySeq DEF Due
<1>4. x.read \o x.queue = x.queue
    BY <1>0, ConcatEmptySeq
<1>5. IsPrefix(x.queue, events) /\ (~x.closed => x.queue = events)
  <2>1. CASE Len(events) <= ConnBuffer
      BY <2>1, PrefixSelf
  <2>2. CASE ~(Len(events) <= ConnBuffer)
    <3>1. ConnBuffer \in 0..Len(events)
        BY <1>0, <2>2
    <3>2. QED
        BY <2>2, <3>1, SubSeqFront
  <2>3. QED
      BY <2>1, <2>2
<1>6. ASSUME autoReplay, x.from # 0, Lost(q, x) # {}
      PROVE  x.warned
  <2>1. PICK i \in DOMAIN q : q[i] > x.from /\ q[i] \notin ToSet(events)
      BY <1>1, <1>2, <1>6 DEF Lost, ToSet
  <2>2. i \in 1..Len(q) /\ q[i] \in Event /\ q[i] \in Int
    <3>1. i \in 1..Len(q) /\ q[i] \in Event
        OBVIOUS
    <3>2. QED
        BY <3>1 DEF Event
  <2>3. \A j \in 1..Len(l) : l[j] >= x.from => l[j] \in ToSet(events)
    <3>1. \A j \in 1..Len(l) : l[j] >= x.from => \E k \in 1..Len(events) : events[k] = l[j]
      <4>1. events = Since(l, x.from)
          BY <1>6
      <4>2. QED
          BY <1>0, <4>1, SinceFilters
    <3>2. QED
        BY <3>1 DEF ToSet
  <2>4. PICK L \in Nat \ {0} : L = LogSize
      BY Settings
  <2>5. Len(q) > L /\ Len(l) = L /\ \A j \in 1..L : l[j] = q[Len(q) - L + j]
    <3>1. CASE Len(q) <= L
      <4>1. l = q
          BY <1>6, <2>4, <3>1, TrimIsEnd
      <4>2. QED
          BY <1>0, <2>1, <2>2, <2>3, <4>1
    <3>2. CASE ~(Len(q) <= L)
        BY <1>6, <2>4, <3>2, TrimIsEnd
    <3>3. QED
        BY <3>1, <3>2
  <2>6. i <= Len(q) - L
    <3>1. SUFFICES ASSUME i > Len(q) - L PROVE FALSE
        BY <1>0, <2>2, <2>4
    <3>2. PICK j \in 1..L : i = Len(q) - L + j
      <4>1. i - (Len(q) - L) \in 1..L /\ i = Len(q) - L + (i - (Len(q) - L))
          BY <1>0, <2>2, <2>4, <3>1
      <4>2. QED
          BY <4>1
    <3>3. l[j] = q[i] /\ l[j] >= x.from
        BY <1>0, <2>1, <2>2, <2>5, <3>2
    <3>4. QED
        BY <2>1, <2>3, <2>5, <3>3
  <2>7. l # <<>> /\ l[1] > x.from
    <3>1. l[1] = q[Len(q) - L + 1] /\ Len(q) - L + 1 \in 1..Len(q) /\ i < Len(q) - L + 1
        BY <1>0, <2>2, <2>4, <2>5, <2>6
    <3>2. q[i] < l[1] /\ l[1] \in Int
      <4>1. DOMAIN q = 1..Len(q)
          OBVIOUS
      <4>2. q[Len(q) - L + 1] \in Event
          BY <3>1
      <4>3. QED
          BY <2>2, <3>1, <4>1, <4>2 DEF Event
    <3>3. l # <<>>
        BY <2>4, <2>5
    <3>4. QED
        BY <1>0, <2>1, <2>2, <3>2, <3>3
  <2>8. QED
      BY <1>6, <2>7 DEF TruncatedBefore
<1>7. QED
    BY <1>0, <1>2, <1>3, <1>4, <1>5, <1>6 DEF Handed

-----------------------------------------------------------------------------
(* Every step keeps it.                                                    *)

LEMMA LoggedDispatch ==
    ASSUME Plain, Logged, NEW s \in Stream, Dispatch(s)
    PROVE  Logged'
<1>1. PICK q, e, p : q = sent[s] /\ e = clock + 1 /\ p = Append(q, e)
    OBVIOUS
<1>2. /\ q \in Seq(Event) /\ e \in Event /\ e \in Int /\ clock \in Int /\ clock < e
      /\ log[s] \in Seq(Event)
  <2>1. clock \in 0..MaxEvents /\ clock < MaxEvents /\ MaxEvents \in Nat
      BY Groups DEF Dispatch, Plain
  <2>2. e \in Event
      BY <1>1, <2>1 DEF Event
  <2>3. QED
      BY <1>1, <2>1, <2>2 DEF Plain
<1>3. /\ p \in Seq(Event) /\ Len(p) = Len(q) + 1 /\ p[Len(q) + 1] = e
      /\ \A i \in 1..Len(q) : p[i] = q[i]
    BY <1>1, <1>2, AppendProperties
<1>4. /\ sent' = [sent EXCEPT ![s] = p] /\ clock' = e /\ config' = config
      /\ log' = IF autoReplay THEN [log EXCEPT ![s] = Trim(Append(log[s], e))] ELSE log
    BY <1>1 DEF Dispatch
<1>5. ASSUME NEW i \in DOMAIN p, NEW j \in DOMAIN p, i < j
      PROVE  p[i] < p[j]
  <2>1. i \in 1..Len(q) /\ j \in 1..(Len(q) + 1) /\ Len(q) \in Nat
      BY <1>2, <1>3, <1>5
  <2>2. CASE j = Len(q) + 1
    <3>1. p[i] = q[i] /\ q[i] <= clock /\ q[i] \in Event
        BY <1>1, <1>2, <1>3, <2>1 DEF Logged
    <3>2. q[i] \in Int
        BY <3>1 DEF Event
    <3>3. QED
        BY <1>2, <1>3, <2>2, <3>1, <3>2
  <2>3. CASE j # Len(q) + 1
    <3>1. i \in DOMAIN q /\ j \in DOMAIN q /\ p[i] = q[i] /\ p[j] = q[j]
        BY <1>2, <1>3, <2>1, <2>3
    <3>2. QED
        BY <1>1, <1>5, <3>1 DEF Logged
  <2>4. QED
      BY <2>2, <2>3
<1>6. ASSUME NEW i \in DOMAIN p
      PROVE  p[i] <= e
  <2>1. i \in 1..(Len(q) + 1) /\ Len(q) \in Nat
      BY <1>2, <1>3
  <2>2. CASE i = Len(q) + 1
      BY <1>2, <1>3, <2>2
  <2>3. CASE i # Len(q) + 1
    <3>1. p[i] = q[i] /\ q[i] <= clock /\ q[i] \in Event
        BY <1>1, <1>2, <1>3, <2>1, <2>3 DEF Logged
    <3>2. q[i] \in Int
        BY <3>1 DEF Event
    <3>3. QED
        BY <1>2, <3>1, <3>2
  <2>4. QED
      BY <2>2, <2>3
<1>7. autoReplay => log'[s] = Trim(p)
  <2>1. autoReplay => log[s] = Trim(q)
      BY <1>1 DEF Logged
  <2>2. Trim(Append(Trim(q), e)) = Trim(p)
      BY <1>1, <1>2, TrimAgain DEF Plain
  <2>3. autoReplay => log'[s] = Trim(Append(log[s], e))
      BY <1>4 DEF Plain
  <2>4. QED
      BY <2>1, <2>2, <2>3
<1>8. ASSUME NEW t \in Stream
      PROVE  /\ \A i, j \in DOMAIN sent'[t] : i < j => sent'[t][i] < sent'[t][j]
             /\ \A i \in DOMAIN sent'[t] : sent'[t][i] <= clock'
             /\ autoReplay => log'[t] = Trim(sent'[t])
  <2>1. CASE t = s
    <3>1. sent'[t] = p
        BY <1>4, <2>1 DEF Plain
    <3>2. QED
        BY <1>4, <1>5, <1>6, <1>7, <2>1, <3>1
  <2>2. CASE t # s
    <3>1. sent'[t] = sent[t] /\ log'[t] = log[t] /\ sent[t] \in Seq(Event)
        BY <1>4, <2>2 DEF Plain
    <3>2. ASSUME NEW i \in DOMAIN sent[t]
          PROVE  sent[t][i] <= clock'
      <4>1. sent[t][i] \in Event /\ sent[t][i] <= clock
          BY <3>1 DEF Logged
      <4>2. sent[t][i] \in Int
          BY <4>1 DEF Event
      <4>3. QED
          BY <1>2, <1>4, <4>1, <4>2
    <3>3. QED
        BY <3>1, <3>2 DEF Logged
  <2>3. QED
      BY <2>1, <2>2
<1>9. autoReplay' = autoReplay /\ \A t \in Stream : Trim(sent[t])' = Trim(sent'[t])
    BY <1>4 DEF autoReplay, Trim, LogSize
<1>10. QED
    BY <1>8, <1>9 DEF Logged

(* A dispatch serves every subscriber of its stream and no one else.       *)
LEMMA DispatchDelivers ==
    ASSUME Plain, Counting, DeliveryInv, NEW s \in Stream, Dispatch(s)
    PROVE  DeliveryInv'
<1>1. PICK slow, e, q : slow = {r \in subs[s] : Full(r)} /\ e = clock + 1 /\ q = sent[s]
    OBVIOUS
<1>2. /\ req' = [r \in Req |-> IF r \in slow THEN Cut(r)
                               ELSE IF r \in subs[s] THEN Receive(r, e) ELSE req[r]]
      /\ sent' = [sent EXCEPT ![s] = Append(q, e)] /\ config' = config
    BY <1>1 DEF Dispatch
<1>3. /\ q \in Seq(Event) /\ e \in Event /\ config \in Options
      /\ \A r \in Req : Handed(sent[req[r].stream], req[r])
  <2>1. clock \in 0..MaxEvents /\ clock < MaxEvents /\ MaxEvents \in Nat
      BY Groups DEF Dispatch, Plain
  <2>2. e \in Event
      BY <1>1, <2>1 DEF Event
  <2>3. QED
      BY <1>1, <2>2, HandedIsDelivery DEF DeliveryInv, Plain
<1>4. ASSUME NEW r \in Req
      PROVE  Handed(sent'[req'[r].stream], req'[r])
  <2>1. PICK x, y : x = req'[r] /\ y = req[r]
      OBVIOUS
  <2>2. y \in Request /\ Len(y.queue) <= ConnBuffer /\ ConnBuffer \in Nat
        /\ y.queue \in Seq(Event) /\ y.read \in Seq(Event)
      BY <2>1, Groups DEF Plain, Request
  <2>3. r \in subs[s] <=> y.stream = s /\ y.base >= 0 /\ ~y.closed
      BY <2>1 DEF Counting, Members, Holding
  <2>4. \/ r \in slow /\ x = [y EXCEPT !.closed = TRUE]
        \/ r \in subs[s] /\ x = [y EXCEPT !.queue = Append(y.queue, e)]
        \/ r \notin subs[s] /\ x = y
    <3>1. CASE r \in slow
        BY <1>2, <2>1, <3>1 DEF Cut
    <3>2. CASE r \in subs[s] \ slow
      <4>1. Len(y.queue) < ConnBuffer
          BY <1>1, <2>1, <2>2, <3>2 DEF Full
      <4>2. x = Receive(r, e)
          BY <1>2, <2>1, <3>2
      <4>3. QED
          BY <2>1, <3>2, <4>1, <4>2 DEF Receive
    <3>3. CASE r \notin subs[s]
        BY <1>1, <1>2, <2>1, <3>3
    <3>4. QED
        BY <3>1, <3>2, <3>3
  <2>5. CASE y.stream = s /\ y.base >= 0
    <3>1. Handed(q, y)
        BY <1>1, <1>3, <2>1, <2>5
    <3>2. /\ x \in Request /\ x.stream = y.stream /\ x.from = y.from /\ x.base = y.base
          /\ x.warned = y.warned
      <4>1. Append(y.queue, e) \in Seq(Event)
          BY <1>3, <2>2, AppendProperties
      <4>2. QED
          BY <2>2, <2>4, <4>1 DEF Request
    <3>3. \/ x.closed /\ x.read \o x.queue = y.read \o y.queue
          \/ ~y.closed /\ x.read \o x.queue = Append(y.read \o y.queue, e)
      <4>1. y.read \o Append(y.queue, e) = Append(y.read \o y.queue, e)
          BY <1>3, <2>2, AppendRight
      <4>2. CASE r \in slow /\ x = [y EXCEPT !.closed = TRUE]
        <5>1. x.closed /\ x.read = y.read /\ x.queue = y.queue
            BY <2>2, <4>2 DEF Request
        <5>2. QED
            BY <5>1
      <4>3. CASE r \in subs[s] /\ x = [y EXCEPT !.queue = Append(y.queue, e)]
        <5>1. x.read = y.read /\ x.queue = Append(y.queue, e)
            BY <2>2, <4>3 DEF Request
        <5>2. QED
            BY <2>3, <4>1, <4>3, <5>1
      <4>4. CASE r \notin subs[s] /\ x = y
          BY <2>3, <2>5, <4>4
      <4>5. QED
          BY <2>4, <4>2, <4>3, <4>4
    <3>4. Handed(Append(q, e), x)
        BY <1>3, <2>2, <3>1, <3>2, <3>3, DispatchHanded
    <3>5. sent'[x.stream] = Append(q, e)
        BY <1>2, <2>5, <3>2 DEF Plain
    <3>6. QED
        BY <2>1, <3>4, <3>5
  <2>6. CASE y.base >= 0 /\ y.stream # s
    <3>1. x = y
        BY <1>1, <2>3, <2>4, <2>6
    <3>2. sent'[y.stream] = sent[y.stream]
        BY <1>2, <2>6 DEF Plain
    <3>3. QED
        BY <1>3, <2>1, <3>1, <3>2
  <2>7. CASE ~(y.base >= 0)
    <3>1. x = y
        BY <1>1, <2>3, <2>4, <2>7
    <3>2. QED
        BY <2>1, <2>7, <3>1 DEF Handed
  <2>8. QED
      BY <2>5, <2>6, <2>7
<1>5. Begun' /\ Delivery'
    BY <1>2, <1>4, DeliveryNext
<1>6. Logged'
    BY LoggedDispatch DEF DeliveryInv
<1>7. QED
    BY <1>5, <1>6 DEF DeliveryInv

(* A registration gives one request its place.                             *)
LEMMA RegisterDelivers ==
    ASSUME Plain, Counting, DeliveryInv, NEW s \in Stream, NEW r \in Req, Register(s, r)
    PROVE  DeliveryInv'
<1>1. PICK q, l, y, events, x :
         /\ q = sent[s] /\ l = log[s] /\ y = req[r] /\ x = req'[r]
         /\ events = IF autoReplay THEN Since(l, y.from) ELSE <<>>
    OBVIOUS
<1>2. /\ y \in Request /\ y.at = "adding" /\ y.stream = s /\ config \in Options /\ Running(s)
      /\ q \in Seq(Event) /\ l \in Seq(Event) /\ y.from \in Nat /\ y.read = <<>>
  <2>1. /\ y \in Request /\ y.at = "adding" /\ y.stream = s /\ config \in Options /\ Running(s)
        /\ q \in Seq(Event) /\ l \in Seq(Event)
      BY <1>1 DEF Register, Plain
  <2>2. y.from \in Nat
      BY <2>1, Groups DEF Request
  <2>3. y.read = <<>>
      BY <1>1, <2>1 DEF Counting, Unserved, Answered
  <2>4. QED
      BY <2>1, <2>2, <2>3
<1>3. events \in Seq(Event)
  <2>1. Since(l, y.from) \in Seq(Event)
      BY <1>2, SinceFilters
  <2>2. QED
      BY <1>1, <2>1
<1>4. UNCHANGED <<config, sent, log, clock, made>> /\ \A p \in Req : p # r => req'[p] = req[p]
    BY DEF Register, Plain
<1>5. /\ x \in Request /\ x.stream = s /\ x.from = y.from /\ x.read = y.read /\ x.base = Len(q)
      /\ IF Len(events) <= ConnBuffer THEN x.queue = events
         ELSE x.closed /\ x.queue = SubSeq(events, 1, ConnBuffer)
      /\ autoReplay /\ TruncatedBefore(l, y.from) => x.warned
  <2>1. x \in Request
    <3>1. Plain'
        BY RegisterCounted
    <3>2. Request' = Request
        BY <1>4 DEF Request
    <3>3. QED
        BY <1>1, <3>1, <3>2 DEF Plain
  <2> DEFINE kept == IF autoReplay THEN Since(log[s], req[r].from) ELSE <<>>
  <2>2. req' = [req EXCEPT ![r] =
                  [req[r] EXCEPT !.at = "serving", !.closer = "wait", !.base = Len(sent[s]),
                                 !.queue = IF Len(kept) <= ConnBuffer THEN kept
                                           ELSE SubSeq(kept, 1, ConnBuffer),
                                 !.closed = ~(Len(kept) <= ConnBuffer),
                                 !.warned = autoReplay /\ TruncatedBefore(log[s], req[r].from)]]
      BY DEF Register
  <2>3. kept = events
      BY <1>1
  <2> HIDE DEF kept
  <2>4. req \in [Req -> Request]
      BY DEF Plain
  <2>5. /\ x.stream = y.stream /\ x.from = y.from /\ x.read = y.read /\ x.base = Len(q)
        /\ x.queue = IF Len(kept) <= ConnBuffer THEN kept ELSE SubSeq(kept, 1, ConnBuffer)
      BY <1>1, <2>2, <2>4 DEF Request
  <2>6. /\ x.closed <=> ~(Len(kept) <= ConnBuffer)
        /\ x.warned <=> autoReplay /\ TruncatedBefore(log[s], req[r].from)
      BY <1>1, <2>2, <2>4 DEF Request
  <2>7. QED
      BY <1>1, <1>2, <2>1, <2>3, <2>5, <2>6
<1>6. (\A i, j \in DOMAIN q : i < j => q[i] < q[j]) /\ (autoReplay => l = Trim(q))
  <2>1. /\ \A i, j \in DOMAIN sent[s] : i < j => sent[s][i] < sent[s][j]
        /\ autoReplay => log[s] = Trim(sent[s])
      BY DEF DeliveryInv, Logged
  <2>2. QED
      BY <1>1, <2>1
<1>7. Handed(q, x)
  <2>1. /\ events = (IF autoReplay THEN Since(l, x.from) ELSE <<>>)
        /\ x.read = <<>> /\ x.base = Len(q)
        /\ IF Len(events) <= ConnBuffer THEN x.queue = events
           ELSE x.closed /\ x.queue = SubSeq(events, 1, ConnBuffer)
        /\ autoReplay /\ TruncatedBefore(l, x.from) => x.warned
      BY <1>1, <1>2, <1>5
  <2>2. /\ config \in Options /\ q \in Seq(Event) /\ x \in Request /\ l \in Seq(Event)
        /\ events \in Seq(Event) /\ (\A i, j \in DOMAIN q : i < j => q[i] < q[j])
        /\ (autoReplay => l = Trim(q))
      BY <1>2, <1>3, <1>5, <1>6
  <2>3. QED
      BY <2>1, <2>2, RegisterHanded
<1>8. \A p \in Req : Handed(sent'[req'[p].stream], req'[p])
  <2>1. \A p \in Req : Handed(sent[req[p].stream], req[p])
      BY HandedIsDelivery DEF DeliveryInv
  <2>2. ASSUME NEW p \in Req
        PROVE  Handed(sent'[req'[p].stream], req'[p])
    <3>1. CASE p = r
        BY <1>1, <1>4, <1>5, <1>7, <3>1
    <3>2. CASE p # r
        BY <1>4, <2>1, <3>2
    <3>3. QED
        BY <3>1, <3>2
  <2>3. QED
      BY <2>2
<1>9. Begun' /\ Delivery'
    BY <1>4, <1>8, DeliveryNext
<1>10. Logged'
    BY <1>4 DEF DeliveryInv, Logged, Trim, LogSize, autoReplay
<1>11. QED
    BY <1>9, <1>10 DEF DeliveryInv

DeliveryIInv == CountIInv /\ DeliveryInv

(* Every step keeps the delivery in order.                                 *)
LEMMA DeliveryStep == DeliveryIInv /\ [SseNext]_sseVars => DeliveryInv'
<1> SUFFICES ASSUME Plain, Arrivals, Counting, DeliveryInv, [SseNext]_sseVars
             PROVE  DeliveryInv'
    BY DEF DeliveryIInv, CountIInv
<1>0. /\ Logged /\ Begun /\ Delivery /\ req \in [Req -> Request]
      /\ \A q \in Req : Keeps(req[q], req[q])
    BY DEF DeliveryInv, Plain, Keeps
<1>1. ASSUME NEW s \in Stream, StreamStep(s)
      PROVE  DeliveryInv'
  <2>1. CASE Dispatch(s)
      BY <2>1, DispatchDelivers
  <2>2. CASE LoopQuits(s)
    <3>1. \A q \in Req : req[q] \in Request /\ req'[q] \in {Cut(q), req[q]}
        BY <2>2 DEF LoopQuits, Plain
    <3>2. \A q \in Req : Keeps(Cut(q), req[q])
        BY <3>1 DEF Cut, Keeps, Request
    <3>3. \A q \in Req : Keeps(req'[q], req[q])
        BY <1>0, <3>1, <3>2
    <3>4. UNCHANGED <<config, sent, log, clock>>
        BY <2>2 DEF LoopQuits
    <3>5. QED
        BY <1>0, <3>3, <3>4, QuietDelivery
  <2>3. ASSUME NEW r \in Req, Register(s, r)
        PROVE  DeliveryInv'
      BY <2>3, RegisterDelivers
  <2>4. ASSUME NEW r \in Req, Deregister(s, r)
        PROVE  DeliveryInv'
    <3>1. req[r] \in Request
        BY <1>0
    <3>2. \/ req' = [req EXCEPT ![r] = [Cut(r) EXCEPT !.closer = "removed"]]
          \/ req' = [req EXCEPT ![r] = [req[r] EXCEPT !.closer = "removed"]]
        BY <2>4 DEF Deregister
    <3>3. /\ Keeps([Cut(r) EXCEPT !.closer = "removed"], req[r])
          /\ Keeps([req[r] EXCEPT !.closer = "removed"], req[r])
        BY <3>1 DEF Cut, Keeps, Request
    <3>4. Keeps(req'[r], req[r]) /\ \A q \in Req : q # r => req'[q] = req[q]
        BY <1>0, <3>2, <3>3
    <3>5. \A q \in Req : Keeps(req'[q], req[q])
        BY <1>0, <3>4
    <3>6. UNCHANGED <<config, sent, log, clock>>
        BY <2>4 DEF Deregister
    <3>7. QED
        BY <1>0, <3>5, <3>6, QuietDelivery
  <2>5. QED
      BY <1>1, <2>1, <2>2, <2>3, <2>4 DEF StreamStep
<1>2. ASSUME NEW r \in Req, Arrive(r) \/ AddSubscriber(r) \/ AddRefused(r)
      PROVE  DeliveryInv'
  <2>1. UNCHANGED <<config, sent, log, clock>>
      BY <1>2 DEF Arrive, AddSubscriber, AddRefused, ReqQuiet, loopVars
  <2>2. req[r] \in Request /\ req[r].base = -1
      BY <1>0, <1>2 DEF Arrive, AddSubscriber, AddRefused, Counting, Unserved, Answered
  <2>3. req'[r].base = -1 /\ \A q \in Req : q # r => req'[q] = req[q]
    <3>1. CASE AddSubscriber(r) \/ AddRefused(r)
      <4>1. \/ req' = [req EXCEPT ![r] = [req[r] EXCEPT !.at = "adding"]]
            \/ req' = [req EXCEPT ![r] = [req[r] EXCEPT !.at = "serving", !.closer = "wait",
                                                         !.closed = TRUE]]
          BY <3>1 DEF AddSubscriber, AddRefused, At
      <4>2. /\ [req[r] EXCEPT !.at = "adding"].base = -1
            /\ [req[r] EXCEPT !.at = "serving", !.closer = "wait", !.closed = TRUE].base = -1
          BY <2>2 DEF Request
      <4>3. \A q \in Req : q # r => req'[q] = req[q]
          BY <1>0, <4>1
      <4>4. QED
          BY <1>0, <4>1, <4>2, <4>3
    <3>2. CASE Arrive(r)
      <4>1. PICK at, to, from :
               req' = [req EXCEPT ![r] = [req[r] EXCEPT !.at = at, !.stream = to, !.from = from]]
          BY <3>2, Zenon DEF Arrive
      <4>2. QED
          BY <1>0, <2>2, <4>1 DEF Request
    <3>3. QED
        BY <1>2, <3>1, <3>2
  <2>4. \A q \in Req : Keeps(req'[q], req[q])
      BY <1>0, <2>3 DEF Keeps
  <2>5. QED
      BY <1>0, <2>1, <2>4, QuietDelivery
<1>3. ASSUME NEW r \in Req, Calm(r)
      PROVE  DeliveryInv'
  <2>1. PICK x \in Request : req' = [req EXCEPT ![r] = x] /\ Same(x, req[r])
      BY <1>3 DEF Calm
  <2>2. req'[r] = x /\ \A q \in Req : q # r => req'[q] = req[q]
      BY <1>0, <2>1
  <2>3. Keeps(x, req[r])
      BY <2>1 DEF Same, Keeps
  <2>4. \A q \in Req : Keeps(req'[q], req[q])
      BY <1>0, <2>2, <2>3
  <2>5. UNCHANGED <<config, sent, log, clock>>
      BY <1>3 DEF Calm, loopVars
  <2>6. QED
      BY <1>0, <2>4, <2>5, QuietDelivery
<1>4. ASSUME NEW r \in Req, Arrive(r) \/ Refuse(r) \/ ServeStep(r) \/ Leave(r) \/ CloserStep(r)
      PROVE  DeliveryInv'
  <2>1. CASE Arrive(r) \/ AddSubscriber(r) \/ AddRefused(r)
      BY <2>1, <1>2
  <2>2. CASE ~(Arrive(r) \/ AddSubscriber(r) \/ AddRefused(r))
      BY <1>3, <1>4, <2>2, CalmSteps DEF ServeStep, AnswerStep
  <2>3. QED
      BY <2>1, <2>2
<1>5. CASE RemoveStream \/ UNCHANGED sseVars
  <2>1. UNCHANGED <<config, sent, log, clock, req>>
      BY <1>5 DEF RemoveStream, sseVars, loopVars
  <2>2. QED
      BY <1>0, <2>1, QuietDelivery
<1>6. QED
    BY <1>1, <1>4, <1>5 DEF SseNext

(* What a subscriber is handed is what it is due: no gap, no reordering,   *)
(* nothing twice, and a gap the window could not fill is reported.         *)
THEOREM DeliveredInOrder == SseSpec => []Delivery
<1>1. SseInit => DeliveryIInv
  <2> SUFFICES ASSUME SseInit PROVE DeliveryIInv
      OBVIOUS
  <2>1. CountIInv
      BY CountInit
  <2>2. /\ \A s \in Stream : log[s] = <<>> /\ sent[s] = <<>>
        /\ \A r \in Req : req[r].base = -1 /\ ~(-1 >= 0)
      BY DEF SseInit, NoReq
  <2>3. Begun /\ Delivery
      BY <2>2 DEF Begun, Delivery
  <2>4. Logged
    <3>1. Trim(<<>>) = <<>>
      <4>1. LogSize \in Nat \ {0}
          BY Settings DEF SseInit
      <4>2. QED
          BY <4>1 DEF Trim
    <3>2. QED
        BY <2>2, <3>1 DEF Logged
  <2>5. QED
      BY <2>1, <2>3, <2>4 DEF DeliveryIInv, DeliveryInv
<1>2. DeliveryIInv /\ [SseNext]_sseVars => DeliveryIInv'
    BY CountStep, DeliveryStep DEF DeliveryIInv
<1>3. DeliveryIInv => Delivery
    BY DEF DeliveryIInv, DeliveryInv
<1>4. QED
    BY <1>1, <1>2, <1>3, PTL DEF SseSpec

=============================================================================
