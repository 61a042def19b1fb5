------------------------------- MODULE Hystrix -------------------------------
(***************************************************************************)
(* The Hystrix-style circuit breaker of circuitbreaker/hystrix/hystrix.go: *)
(* the ring of buckets that counts the calls of a sliding window, and the  *)
(* Closed / Open / HalfOpen machine that reads it.  Every method runs      *)
(* under one mutex, so each is one action; between the Allow of a caller   *)
(* and its Mark anything may happen, the Marks of other callers above all. *)
(* Time is counted in ticks of the clock.                                  *)
(***************************************************************************)
EXTENDS Integers, FiniteSets

CONSTANTS
    Client,       \* callers of the breaker
    Window,       \* config.window, in ticks
    BucketCount,  \* config.bucketCount
    SleepWindow,  \* config.sleepWindow, in ticks
    Volume,       \* config.requestVolumeThreshold
    ErrNum,       \* config.errorThreshold is ErrNum / ErrDen
    ErrDen,
    MaxTime,      \* bound: last tick
    MaxCalls      \* bound: admitted calls

(***************************************************************************)
(* What the options accept (values outside are ignored), and a bucket of   *)
(* at least one tick: New does not check that, and with a shorter one      *)
(* bucketIndexLocked would divide by zero.                                 *)
(***************************************************************************)
ASSUME HystrixAssumption ==
    /\ Window \in Nat \ {0} /\ BucketCount \in Nat \ {0} /\ BucketCount <= Window
    /\ SleepWindow \in Nat \ {0}
    /\ Volume \in Nat \ {0}
    /\ ErrNum \in Nat \ {0} /\ ErrDen \in Nat /\ ErrNum <= ErrDen
    /\ MaxTime \in Nat /\ MaxCalls \in Nat

VARIABLES
    now,         \* the clock
    buckets,     \* Breaker.buckets
    lastSample,  \* Breaker.lastSample
    lastIdx,     \* Breaker.lastIdx
    hasSample,   \* Breaker.hasSample
    state,       \* Breaker.state
    openedAt,    \* Breaker.openedAt
    halfOpenIn,  \* Breaker.halfOpenIn
    closed,      \* Breaker.closed
    call,        \* call[c]: "none", or how c's call was admitted
    calls,       \* calls admitted so far
    panicked,    \* history: the fn of an Execute panicked
    truth        \* history: truth[b], the samples recorded during the b-th
                 \* bucket length since time 0 and not dropped by a recovery

window == <<buckets, lastSample, lastIdx, hasSample>>
machine == <<state, openedAt, halfOpenIn>>
vars == <<now, window, machine, closed, call, calls, panicked, truth>>

BucketLen == Window \div BucketCount
Slot  == 0..(BucketCount - 1)
Lap   == 0..(MaxTime \div BucketLen)
Empty == [requests |-> 0, errors |-> 0]
Count == [requests : Nat, errors : Nat]

TypeOK ==
    /\ now \in Nat
    /\ buckets \in [Slot -> Count]
    /\ lastSample \in Nat
    /\ lastIdx \in Slot
    /\ hasSample \in BOOLEAN
    /\ state \in {"closed", "open", "half"}
    /\ openedAt \in Nat
    /\ halfOpenIn \in BOOLEAN
    /\ closed \in BOOLEAN
    /\ call \in [Client -> {"none", "normal", "trial"}]
    /\ calls \in Nat
    /\ panicked \in BOOLEAN
    /\ truth \in [Lap -> Count]

Init ==
    /\ now = 0
    /\ buckets = [i \in Slot |-> Empty]
    /\ lastSample = 0 /\ lastIdx = 0 /\ hasSample = FALSE
    /\ state = "closed"
    /\ openedAt = 0
    /\ halfOpenIn = FALSE
    /\ closed = FALSE
    /\ call = [c \in Client |-> "none"]
    /\ calls = 0
    /\ panicked = FALSE
    /\ truth = [b \in Lap |-> Empty]

Tick ==
    /\ now < MaxTime
    /\ now' = now + 1
    /\ UNCHANGED <<window, machine, closed, call, calls, panicked, truth>>

-----------------------------------------------------------------------------
(* The sliding window.                                                     *)

LapOf(t) == t \div BucketLen

BucketIndex(t) == LapOf(t) % BucketCount

\* Mutant of Steps: one boundary too many.
StepsWithOwn(t) == ((BucketIndex(t) - lastIdx + BucketCount) % BucketCount) + 1

\* How many slots a rotation to time t clears, when less than a window passed.
Steps(t) == (BucketIndex(t) - lastIdx + BucketCount) % BucketCount

\* The slots rotateLocked clears: those after lastIdx up to the current one,
\* or all of them after a whole window without a sample.
Cleared(t) ==
    IF ~hasSample THEN {}
    ELSE IF t - lastSample >= Window THEN Slot
    ELSE {(lastIdx + i) % BucketCount : i \in 1..Steps(t)}

\* rotateLocked: the ring as of time t.
Rotated(t) == [i \in Slot |-> IF i \in Cleared(t) THEN Empty ELSE buckets[i]]

Sampled(t) ==
    /\ lastSample' = t
    /\ lastIdx' = BucketIndex(t)
    /\ hasSample' = TRUE

Plus(count, failed) ==
    [requests |-> count.requests + 1,
     errors   |-> count.errors + (IF failed THEN 1 ELSE 0)]

\* The loop that adds up the first n counts.
Sum(count, n) ==
    LET total[i \in 0..n] == IF i = 0 THEN 0 ELSE total[i - 1] + count[i - 1]
    IN  total[n]

Requests(ring) == Sum([i \in Slot |-> ring[i].requests], BucketCount)
Errors(ring)   == Sum([i \in Slot |-> ring[i].errors], BucketCount)

\* evaluateLocked: a closed breaker trips on this ring.
Trips(ring) ==
    /\ Requests(ring) >= Volume
    /\ Errors(ring) * ErrDen >= ErrNum * Requests(ring)

-----------------------------------------------------------------------------
(* Allow.                                                                  *)

SleepOver == now - openedAt >= SleepWindow

Admit(c, how) ==
    /\ calls < MaxCalls
    /\ calls' = calls + 1
    /\ call' = [call EXCEPT ![c] = how]
    /\ UNCHANGED <<now, window, openedAt, closed, panicked, truth>>

\* A closed breaker lets everybody through.
AllowClosed(c) ==
    /\ call[c] = "none"
    /\ ~closed
    /\ state = "closed"
    /\ Admit(c, "normal")
    /\ UNCHANGED <<state, halfOpenIn>>

\* A half-open one, or an open one whose sleep window is over, lets one
\* caller through.
AllowTrial(c) ==
    /\ call[c] = "none"
    /\ ~closed
    /\ state = "half" \/ (state = "open" /\ SleepOver)
    /\ ~halfOpenIn
    /\ state' = "half"
    /\ halfOpenIn' = TRUE
    /\ Admit(c, "trial")

\* Mutant of AllowRefused: the transition takes the trial's slot itself.
RefusedTakingTrial(c) ==
    /\ call[c] = "none"
    /\ IF closed \/ (state = "open" /\ ~SleepOver)
       THEN UNCHANGED <<state, halfOpenIn>>
       ELSE state # "closed" /\ state' = "half" /\ halfOpenIn' = TRUE
    /\ UNCHANGED <<now, window, openedAt, closed, call, calls, panicked, truth>>

\* ErrCircuitOpen.  The transition to HalfOpen precedes the refusal.
AllowRefused(c) ==
    /\ call[c] = "none"
    /\ IF closed \/ (state = "open" /\ ~SleepOver)
       THEN UNCHANGED state
       ELSE state # "closed" /\ halfOpenIn /\ state' = "half"
    /\ UNCHANGED <<now, window, openedAt, halfOpenIn, closed, call, calls, panicked, truth>>

-----------------------------------------------------------------------------
(* MarkSuccess, MarkFailure, State, Close.                                 *)

\* A Mark of a breaker that is not half-open: the sample is counted.
Record(failed) ==
    LET ring == [Rotated(now) EXCEPT ![BucketIndex(now)] = Plus(@, failed)]
        trip == state = "closed" /\ Trips(ring)
    IN /\ buckets' = ring
       /\ truth' = [truth EXCEPT ![LapOf(now)] = Plus(@, failed)]
       /\ state' = IF trip THEN "open" ELSE state
       /\ openedAt' = IF trip THEN now ELSE openedAt
       /\ UNCHANGED halfOpenIn

\* Mutant of Recover: the window keeps what it counted before the trip.
RecoverKeepingWindow ==
    /\ state' = "closed"
    /\ halfOpenIn' = FALSE
    /\ buckets' = Rotated(now)
    /\ truth' = [b \in Lap |-> Empty]
    /\ UNCHANGED openedAt

\* MarkSuccess of a half-open breaker: back to Closed with an empty window.
Recover ==
    /\ state' = "closed"
    /\ halfOpenIn' = FALSE
    /\ buckets' = [i \in Slot |-> Empty]
    /\ truth' = [b \in Lap |-> Empty]
    /\ UNCHANGED openedAt

\* Mutant of Reopen: the trial's flag is not given back.
ReopenForgettingTrial ==
    /\ state' = "open"
    /\ openedAt' = now
    /\ buckets' = Rotated(now)
    /\ UNCHANGED <<truth, halfOpenIn>>

\* MarkFailure of a half-open breaker: Open again, the sleep timer restarts.
Reopen ==
    /\ state' = "open"
    /\ openedAt' = now
    /\ halfOpenIn' = FALSE
    /\ buckets' = Rotated(now)
    /\ UNCHANGED truth

\* The call of c ends.  Whoever c is, its Mark decides a half-open breaker.
Mark(c, failed) ==
    /\ call[c] # "none"
    /\ call' = [call EXCEPT ![c] = "none"]
    /\ Sampled(now)
    /\ IF state # "half" THEN Record(failed)
       ELSE IF failed THEN Reopen ELSE Recover
    /\ UNCHANGED <<now, closed, calls, panicked>>

\* The fn given to Execute panics: nothing is marked.
PanicInExecute(c) ==
    /\ call[c] # "none"
    /\ call' = [call EXCEPT ![c] = "none"]
    /\ panicked' = TRUE
    /\ UNCHANGED <<now, window, machine, closed, calls, truth>>

\* State() moves an Open breaker on by itself.
QueryState ==
    /\ state' = IF state = "open" /\ SleepOver THEN "half" ELSE state
    /\ UNCHANGED <<now, window, openedAt, halfOpenIn, closed, call, calls, panicked, truth>>

Close ==
    /\ closed' = TRUE
    /\ UNCHANGED <<now, window, machine, call, calls, panicked, truth>>

MarkAny(c) == \E failed \in BOOLEAN : Mark(c, failed)

Next ==
    \/ Tick \/ QueryState \/ Close
    \/ \E c \in Client : AllowClosed(c) \/ AllowTrial(c) \/ AllowRefused(c)
    \/ \E c \in Client : MarkAny(c) \/ PanicInExecute(c)

(* The fn of a call that was let through returns or panics in the end; if  *)
(* it always returns, every call is marked, as the contract demands ("MUST *)
(* call exactly one of MarkSuccess or MarkFailure",                        *)
(* circuitbreaker/circuitbreaker.go).                                      *)
Fairness == \A c \in Client : WF_vars(MarkAny(c))

Spec == Init /\ [][Next]_vars /\ Fairness

-----------------------------------------------------------------------------
(* Properties.                                                             *)

\* The laps the ring stands for: the last BucketCount up to the last sample.
InWindow == {b \in Lap : LapOf(lastSample) - BucketCount < b /\ b <= LapOf(lastSample)}

\* The samples recorded in the laps of a history.
Recorded(history) == Sum([b \in Lap |-> history[b].requests], (MaxTime \div BucketLen) + 1)

(* No sample of the window is lost: the ring counts at least what was      *)
(* recorded in each of the last BucketCount bucket lengths.  The defect    *)
(* the comment on rotateLocked describes -- clearing the bucket the last   *)
(* sample went into -- breaks this.                                        *)
NoSampleLost ==
    /\ TypeOK  \* the state is well formed, and
    /\ \A b \in InWindow :
          /\ buckets[b % BucketCount].requests >= truth[b].requests
          /\ buckets[b % BucketCount].errors >= truth[b].errors

(* No sample outlives the window: the ring counts nothing but what was     *)
(* recorded in its last BucketCount bucket lengths.                        *)
NoSampleStale ==
    Requests(buckets) <= Recorded([b \in Lap |-> IF b \in InWindow THEN truth[b] ELSE Empty])

(* After a recovery nothing that was counted before it can trip the        *)
(* breaker: it trips on at least Volume samples recorded since.            *)
TripsOnFreshSamples ==
    [][state = "closed" /\ state' = "open" => Recorded(truth') >= Volume]_vars

(* A trial occupies a half-open breaker only, and only while some caller   *)
(* is still to mark its call: otherwise every Allow would be refused for   *)
(* good, since nothing but a Mark clears halfOpenIn.                       *)
TrialInFlight == halfOpenIn => state = "half" /\ \E c \in Client : call[c] # "none"

(* Short of a panic in the fn of an Execute, that is so.                   *)
NoLockout == ~panicked => TrialInFlight

(* "A single trial request is allowed": no two trials in flight.           *)
TrialsAlone == Cardinality({c \in Client : call[c] = "trial"}) <= 1

(* A breaker that tripped stays shut for a whole sleep window, counted     *)
(* from the trip or from the failed trial that re-opened it, whatever late *)
(* Marks arrive in between.                                                *)
SleepsFullWindow ==
    [][/\ state = "open" /\ state' # "open" => now - openedAt >= SleepWindow
       /\ state # "open" /\ state' = "open" => openedAt' = now]_vars

(* Short of a panic, the slot of the trial is given back in the end.       *)
TrialEnds == halfOpenIn ~> (~halfOpenIn \/ panicked)
=============================================================================
