--------------------------- MODULE CallGuardProofs ---------------------------
(***************************************************************************)
(* Proofs about the two components that stand between a caller and its     *)
(* backend: the breaker of module Hystrix, for every window, number of     *)
(* buckets, sleep window and set of callers, and the read-through cache of *)
(* module LoadableCache, for any number of callers, changes of the source, *)
(* SetNX calls and faults.  The two share no state: each part has the      *)
(* specification of its own module, Spec and CacheSpec.                    *)
(***************************************************************************)
EXTENDS Hystrix, LoadableCache, FiniteSetTheorems, WellFoundedInduction, TLAPS

(***************************************************************************)
(* Part 1: the breaker.                                                    *)
(***************************************************************************)

-----------------------------------------------------------------------------
(* Division and remainder.                                                 *)

(* What \div and % are.                                                    *)
LEMMA DivMod ==
    ASSUME NEW x \in Int, NEW d \in Nat \ {0}
    PROVE  /\ x \div d \in Int
           /\ (x % d) \in 0..(d - 1)
           /\ x = (d * (x \div d)) + (x % d)
    OBVIOUS

(* Multiplication over sums and differences.                               *)
LEMMA Distributes ==
    ASSUME NEW p \in Int, NEW q \in Int, NEW d \in Nat \ {0}
    PROVE  /\ d * (p + q) = (d * p) + (d * q)
           /\ d * (p - q) = (d * p) - (d * q)
           /\ d * p \in Int
    OBVIOUS

(* There is one quotient and one remainder.                                *)
LEMMA DivUnique ==
    ASSUME NEW x \in Int, NEW d \in Nat \ {0}, NEW q \in Int, NEW r \in 0..(d - 1),
           x = (d * q) + r
    PROVE  (x % d) = r /\ x \div d = q
    OBVIOUS

(* Division keeps the order.                                               *)
LEMMA DivMonotone ==
    ASSUME NEW x \in Int, NEW y \in Int, NEW d \in Nat \ {0}, x <= y
    PROVE  x \div d <= y \div d
    OBVIOUS

(* A multiple of d goes through the division.                              *)
LEMMA DivShift ==
    ASSUME NEW x \in Int, NEW n \in Int, NEW d \in Nat \ {0}
    PROVE  (x + (d * n)) \div d = (x \div d) + n /\ ((x + (d * n)) % d) = (x % d)
<1> DEFINE p == x \div d
           s == x % d
<1>1. p \in Int /\ s \in 0..(d - 1) /\ x = (d * p) + s
    BY DivMod
<1> HIDE DEF p, s
<1>2. x + (d * n) = (d * (p + n)) + s
    BY <1>1, Distributes
<1>3. x + (d * n) \in Int /\ p + n \in Int
    BY <1>1, Distributes
<1>4. (x + (d * n)) \div d = p + n /\ ((x + (d * n)) % d) = s
    BY <1>1, <1>2, <1>3, DivUnique
<1>5. QED
    BY <1>4 DEF p, s

(* Two numbers less than d apart share a remainder only if they are equal. *)
LEMMA ModSeparates ==
    ASSUME NEW x \in Int, NEW y \in Int, NEW d \in Nat \ {0},
           x <= y, y < x + d, (x % d) = (y % d)
    PROVE  x = y
<1> DEFINE p == x \div d
           q == y \div d
<1>1. /\ p \in Int /\ q \in Int
      /\ x = (d * p) + (x % d) /\ y = (d * q) + (y % d)
    BY DivMod
<1> HIDE DEF p, q
<1>2. y - x = d * (q - p)
    BY <1>1, DivMod
<1>3. q - p < 1
    BY <1>1, <1>2
<1>4. q - p > -1
    BY <1>1, <1>2
<1>5. QED
    BY <1>1, <1>2, <1>3, <1>4

(* A remainder may be taken before or after an addition.                   *)
LEMMA ModPlus ==
    ASSUME NEW x \in Int, NEW i \in Int, NEW d \in Nat \ {0}
    PROVE  (((x % d) + i) % d) = ((x + i) % d)
<1> DEFINE q == x \div d
           r == x % d
<1>1. q \in Int /\ r \in 0..(d - 1) /\ x = (d * q) + r
    BY DivMod
<1> HIDE DEF q, r
<1>2. x + i = (r + i) + (d * q) /\ r + i \in Int
    BY <1>1, Distributes
<1>3. (((r + i) + (d * q)) % d) = ((r + i) % d)
    BY <1>1, <1>2, DivShift
<1>4. QED
    BY <1>2, <1>3 DEF r

(* The number of boundaries rotateLocked counts, taken modulo the ring.    *)
LEMMA ModMinus ==
    ASSUME NEW x \in Int, NEW y \in Int, NEW d \in Nat \ {0}, x <= y
    PROVE  (((y % d) - (x % d) + d) % d) <= y - x
<1> DEFINE p == x \div d
           r == x % d
           q == y \div d
           s == y % d
           k == (y - x) \div d
           t == (y - x) % d
<1>1. /\ p \in Int /\ r \in 0..(d - 1) /\ x = (d * p) + r
      /\ q \in Int /\ s \in 0..(d - 1) /\ y = (d * q) + s
    BY DivMod
<1>0. k \in Int /\ t \in 0..(d - 1) /\ y - x = (d * k) + t
  <2>1. y - x \in Int
      OBVIOUS
  <2>2. QED
      BY <2>1, DivMod
<1>2. k >= 0
    BY DivMonotone, DivUnique
<1> HIDE DEF p, q, r, s, k, t
<1>3. (s - r) + d = (y - x) + (d * ((p - q) + 1))
  <2>1. d * ((p - q) + 1) = ((d * p) - (d * q)) + d
      BY <1>1, Distributes
  <2>2. QED
      BY <1>1, <2>1, Distributes
<1>4. (((s - r) + d) % d) = ((y - x) % d)
  <2>1. y - x \in Int /\ (p - q) + 1 \in Int
      BY <1>1
  <2>2. (((y - x) + (d * ((p - q) + 1))) % d) = ((y - x) % d)
      BY <2>1, DivShift
  <2>3. QED
      BY <1>3, <2>2
<1>5. t <= y - x
  <2>1. d * k >= 0
      BY <1>0, <1>2
  <2>2. QED
      BY <1>0, <2>1
<1>6. QED
    BY <1>4, <1>5 DEF r, s, t

-----------------------------------------------------------------------------
(* Types.                                                                  *)

(* A bucket is at least one tick long.                                     *)
LEMMA BucketLenPositive == BucketLen \in Nat \ {0}
<1>1. BucketCount \div BucketCount = 1
    BY HystrixAssumption, DivUnique
<1>2. Window \div BucketCount >= 1
    BY <1>1, DivMonotone, HystrixAssumption
<1>3. QED
    BY <1>2, DivMod, HystrixAssumption DEF BucketLen

(* The slot of a time is a slot of the ring, and its lap is a number.      *)
LEMMA SlotOf ==
    ASSUME NEW t \in Nat
    PROVE  BucketIndex(t) \in Slot /\ LapOf(t) \in Nat
<1>1. LapOf(t) \in Nat
    BY BucketLenPositive, DivMod, DivMonotone, DivUnique DEF LapOf
<1>2. BucketCount \in Nat \ {0} /\ LapOf(t) \in Int
    BY <1>1, HystrixAssumption
<1>3. (LapOf(t) % BucketCount) \in 0..(BucketCount - 1)
    BY <1>2, DivMod
<1>4. QED
    BY <1>1, <1>3 DEF BucketIndex, Slot

(* A rotation leaves counts.                                               *)
LEMMA RotatedTyped ==
    ASSUME TypeOK, NEW t \in Nat
    PROVE  Rotated(t) \in [Slot -> Count]
    BY DEF TypeOK, Rotated, Empty, Count

(* One more sample is a count.                                             *)
LEMMA PlusTyped ==
    ASSUME NEW x \in Count, NEW failed \in BOOLEAN
    PROVE  Plus(x, failed) \in Count
    BY DEF Plus, Count

(* A Mark keeps the types.                                                 *)
LEMMA MarkTyped ==
    ASSUME TypeOK, NEW c \in Client, NEW failed \in BOOLEAN, Mark(c, failed)
    PROVE  TypeOK'
<1> DEFINE ring == [Rotated(now) EXCEPT ![BucketIndex(now)] = Plus(@, failed)]
<1>0. now \in Nat
    BY DEF TypeOK
<1>1. ring \in [Slot -> Count]
    BY <1>0, RotatedTyped, PlusTyped, SlotOf
<1>2. [truth EXCEPT ![LapOf(now)] = Plus(@, failed)] \in [Lap -> Count]
    BY PlusTyped DEF TypeOK
<1>3. Empty \in Count
    BY DEF Empty, Count
<1> HIDE DEF ring
<1>4. /\ buckets' \in [Slot -> Count] /\ truth' \in [Lap -> Count]
      /\ state' \in {"closed", "open", "half"}
      /\ openedAt' \in Nat /\ halfOpenIn' \in BOOLEAN
  <2>1. CASE state # "half"
      BY <2>1, <1>1, <1>2 DEF Mark, Record, TypeOK, ring
  <2>2. CASE state = "half" /\ failed
      BY <2>2, <1>0, RotatedTyped DEF Mark, Reopen, TypeOK
  <2>3. CASE state = "half" /\ ~failed
      BY <2>3, <1>3 DEF Mark, Recover, TypeOK
  <2>4. QED
      BY <2>1, <2>2, <2>3
<1>5. lastSample' \in Nat /\ lastIdx' \in Slot /\ hasSample' \in BOOLEAN
    BY <1>0, SlotOf DEF Mark, Sampled
<1>6. QED
    BY <1>4, <1>5 DEF Mark, TypeOK

(* Every step keeps the types.                                             *)
LEMMA StepTyped ==
    ASSUME TypeOK, [Next]_vars
    PROVE  TypeOK'
<1>1. CASE Tick
    BY <1>1 DEF Tick, TypeOK, window, machine
<1>2. CASE QueryState
    BY <1>2 DEF QueryState, TypeOK, window
<1>3. CASE Close
    BY <1>3 DEF Close, TypeOK, window, machine
<1>4. ASSUME NEW c \in Client, AllowClosed(c)
      PROVE  TypeOK'
    BY <1>4 DEF AllowClosed, Admit, TypeOK, window
<1>5. ASSUME NEW c \in Client, AllowTrial(c)
      PROVE  TypeOK'
    BY <1>5 DEF AllowTrial, Admit, TypeOK, window
<1>6. ASSUME NEW c \in Client, AllowRefused(c)
      PROVE  TypeOK'
    BY <1>6 DEF AllowRefused, TypeOK, window
<1>7. ASSUME NEW c \in Client, MarkAny(c)
      PROVE  TypeOK'
    BY <1>7, MarkTyped DEF MarkAny
<1>8. ASSUME NEW c \in Client, PanicInExecute(c)
      PROVE  TypeOK'
    BY <1>8 DEF PanicInExecute, TypeOK, window, machine
<1>9. CASE UNCHANGED vars
    BY <1>9 DEF vars, TypeOK, window, machine
<1>10. QED
    BY <1>1, <1>2, <1>3, <1>4, <1>5, <1>6, <1>7, <1>8, <1>9 DEF Next

(* The initial state is well typed.                                        *)
LEMMA InitTyped == Init => TypeOK
<1>1. 0 \in Slot
    BY HystrixAssumption DEF Slot
<1>2. Empty \in Count
    BY DEF Empty, Count
<1> SUFFICES ASSUME Init
             PROVE  TypeOK
    OBVIOUS
<1>3. buckets \in [Slot -> Count] /\ truth \in [Lap -> Count]
    BY <1>2 DEF Init
<1>4. call \in [Client -> {"none", "normal", "trial"}]
    BY DEF Init
<1>5. QED
    BY <1>1, <1>3, <1>4 DEF Init, TypeOK

(* The variables of the breaker and of its callers keep their types, and   *)
(* every Mark finds a slot of the ring.                                    *)
THEOREM BreakerTyped == Spec => []TypeOK
<1>1. TypeOK /\ [Next]_vars => TypeOK'
    BY StepTyped
<1>2. QED
    BY InitTyped, <1>1, PTL DEF Spec

-----------------------------------------------------------------------------
(* The trial of a half-open breaker.                                       *)

(* A step keeps a trial's slot with a half-open breaker and a caller that  *)
(* is still to mark its call.                                              *)
LEMMA StepNoLockout ==
    ASSUME TypeOK, NoLockout, [Next]_vars
    PROVE  NoLockout'
<1> USE DEF NoLockout, TrialInFlight
<1>1. CASE Tick
    BY <1>1 DEF Tick, machine
<1>2. CASE QueryState
    BY <1>2 DEF QueryState
<1>3. CASE Close
    BY <1>3 DEF Close, machine
<1>4. ASSUME NEW c \in Client, AllowClosed(c)
      PROVE  NoLockout'
    BY <1>4 DEF AllowClosed, Admit
<1>5. ASSUME NEW c \in Client, AllowTrial(c)
      PROVE  NoLockout'
  <2>1. call'[c] = "trial" /\ state' = "half"
      BY <1>5 DEF AllowTrial, Admit, TypeOK
  <2>2. QED
      BY <2>1
<1>6. ASSUME NEW c \in Client, AllowRefused(c)
      PROVE  NoLockout'
    BY <1>6 DEF AllowRefused
<1>7. ASSUME NEW c \in Client, MarkAny(c)
      PROVE  NoLockout'
  <2>1. PICK failed \in BOOLEAN : Mark(c, failed)
      BY <1>7 DEF MarkAny
  <2>2. CASE state # "half"
      BY <2>1, <2>2 DEF Mark, Record
  <2>3. CASE state = "half"
      BY <2>1, <2>3 DEF Mark, Reopen, Recover
  <2>4. QED
      BY <2>2, <2>3
<1>8. ASSUME NEW c \in Client, PanicInExecute(c)
      PROVE  NoLockout'
    BY <1>8 DEF PanicInExecute
<1>9. CASE UNCHANGED vars
    BY <1>9 DEF vars, machine
<1>10. QED
    BY <1>1, <1>2, <1>3, <1>4, <1>5, <1>6, <1>7, <1>8, <1>9 DEF Next

(* As long as no fn given to Execute panics, a breaker never refuses       *)
(* everybody for good: the flag of the trial is up only while the breaker  *)
(* is half-open and some admitted call is still to be marked.              *)
THEOREM TrialIsGivenBack == Spec => []NoLockout
<1>1. Init => NoLockout
    BY DEF Init, NoLockout, TrialInFlight
<1>2. TypeOK /\ NoLockout /\ [Next]_vars => NoLockout'
    BY StepNoLockout
<1>3. QED
    BY <1>1, <1>2, BreakerTyped, PTL DEF Spec

-----------------------------------------------------------------------------
(* The sleep window.                                                       *)

(* What one step may do to an open breaker, and how one comes to be open.  *)
SleepStep ==
    /\ state = "open" /\ state' # "open" => now - openedAt >= SleepWindow
    /\ state # "open" /\ state' = "open" => openedAt' = now

(* Every step is such a step.                                              *)
LEMMA StepSleeps ==
    ASSUME TypeOK, Next
    PROVE  SleepStep
<1> USE DEF SleepStep
<1>1. CASE Tick
    BY <1>1 DEF Tick, machine
<1>2. CASE QueryState
    BY <1>2 DEF QueryState, SleepOver
<1>3. CASE Close
    BY <1>3 DEF Close, machine
<1>4. ASSUME NEW c \in Client, AllowClosed(c)
      PROVE  SleepStep
    BY <1>4 DEF AllowClosed
<1>5. ASSUME NEW c \in Client, AllowTrial(c)
      PROVE  SleepStep
    BY <1>5 DEF AllowTrial, SleepOver
<1>6. ASSUME NEW c \in Client, AllowRefused(c)
      PROVE  SleepStep
    BY <1>6 DEF AllowRefused, SleepOver
<1>7. ASSUME NEW c \in Client, MarkAny(c)
      PROVE  SleepStep
  <2>1. PICK failed \in BOOLEAN : Mark(c, failed)
      BY <1>7 DEF MarkAny
  <2>2. CASE state # "half"
      BY <2>1, <2>2 DEF Mark, Record
  <2>3. CASE state = "half"
      BY <2>1, <2>3 DEF Mark, Reopen, Recover
  <2>4. QED
      BY <2>2, <2>3
<1>8. ASSUME NEW c \in Client, PanicInExecute(c)
      PROVE  SleepStep
    BY <1>8 DEF PanicInExecute, machine
<1>9. QED
    BY <1>1, <1>2, <1>3, <1>4, <1>5, <1>6, <1>7, <1>8 DEF Next

(* An open breaker stays shut for a whole sleep window after it tripped or *)
(* was re-opened, whichever late Marks, Allows and State calls come in     *)
(* between.                                                                *)
THEOREM OpenStaysShut == Spec => SleepsFullWindow
<1>1. TypeOK /\ [Next]_vars => [SleepStep]_vars
    BY StepSleeps
<1>2. QED
    BY <1>1, BreakerTyped, PTL DEF Spec, SleepsFullWindow, SleepStep

-----------------------------------------------------------------------------
(* The sliding window.                                                     *)

(* Bucket count x counts everything sample count y does.                   *)
Covers(x, y) == x.requests >= y.requests /\ x.errors >= y.errors

(* The last sample lies in the past and in the bucket lastIdx, and nothing *)
(* was recorded in a later bucket length, or at all before the first.      *)
SampleIsLast ==
    /\ lastSample <= now
    /\ lastIdx = BucketIndex(lastSample)
    /\ \A b \in Lap : b > LapOf(lastSample) => truth[b] = Empty
    /\ ~hasSample => \A b \in Lap : truth[b] = Empty

(* The inductive invariant.                                                *)
WindowInv == SampleIsLast /\ NoSampleLost

(* The laps are numbers.                                                   *)
LEMMA LapsAreNumbers == Lap \subseteq Nat
<1>1. MaxTime \div BucketLen \in Int
    BY BucketLenPositive, DivMod, HystrixAssumption
<1>2. QED
    BY <1>1 DEF Lap

(* A whole window later, the ring has gone round at least once.            *)
LEMMA WindowIsRound ==
    ASSUME NEW x \in Nat, NEW y \in Nat, y - x >= Window
    PROVE  LapOf(y) >= LapOf(x) + BucketCount
<1>1. BucketLen \in Nat \ {0} /\ BucketCount \in Nat \ {0} /\ Window \in Nat
    BY BucketLenPositive, HystrixAssumption
<1>2. BucketCount * BucketLen <= Window
    BY <1>1, DivMod, HystrixAssumption DEF BucketLen
<1>3. /\ BucketLen * BucketCount = BucketCount * BucketLen
      /\ BucketLen * BucketCount \in Int
    BY <1>1
<1>4. x + (BucketLen * BucketCount) \in Int /\ x + (BucketLen * BucketCount) <= y
    BY <1>1, <1>2, <1>3
<1>5. (x + (BucketLen * BucketCount)) \div BucketLen <= y \div BucketLen
    BY <1>1, <1>4, DivMonotone
<1>6. (x + (BucketLen * BucketCount)) \div BucketLen = (x \div BucketLen) + BucketCount
  <2>1. x \in Int /\ BucketCount \in Int
      BY <1>1
  <2>2. QED
      BY <1>1, <2>1, DivShift, Zenon
<1>7. QED
    BY <1>5, <1>6 DEF LapOf

(* A rotation clears only slots whose lap has left the window: a lap up to *)
(* the last sample that is still in the window keeps its slot.             *)
LEMMA ClearedIsStale ==
    ASSUME TypeOK, SampleIsLast, NEW b \in Nat,
           LapOf(now) - BucketCount < b, b <= LapOf(lastSample)
    PROVE  (b % BucketCount) \notin Cleared(now)
<1> DEFINE from == LapOf(lastSample)
           to == LapOf(now)
<1>1. /\ now \in Nat /\ lastSample \in Nat /\ from \in Nat /\ to \in Nat
      /\ BucketCount \in Nat \ {0} /\ BucketLen \in Nat \ {0}
    BY SlotOf, BucketLenPositive, HystrixAssumption DEF TypeOK
<1>2. from <= to
    BY <1>1, DivMonotone DEF LapOf, SampleIsLast
<1>3. CASE ~hasSample
    BY <1>3 DEF Cleared
<1>4. CASE now - lastSample >= Window
    BY <1>1, <1>4, WindowIsRound
<1>5. CASE hasSample /\ ~(now - lastSample >= Window)
  <2> SUFFICES ASSUME NEW i \in 1..Steps(now),
                      (b % BucketCount) = ((lastIdx + i) % BucketCount)
               PROVE  FALSE
      BY <1>5 DEF Cleared
  <2>1. lastIdx = (from % BucketCount) /\ BucketIndex(now) = (to % BucketCount)
      BY DEF SampleIsLast, BucketIndex
  <2>2. Steps(now) <= to - from
      BY <1>1, <1>2, <2>1, ModMinus DEF Steps
  <2>3. Steps(now) \in Int
    <3>1. (BucketIndex(now) - lastIdx) + BucketCount \in Int
      <4>1. lastIdx \in Slot
          BY DEF TypeOK
      <4>2. BucketIndex(now) \in Slot
          BY <1>1, SlotOf
      <4>3. QED
          BY <1>1, <4>1, <4>2 DEF Slot
    <3>2. Steps(now) \in 0..(BucketCount - 1)
        BY <1>1, <3>1, DivMod, Zenon DEF Steps
    <3>3. QED
        BY <1>1, <3>2
  <2> HIDE DEF from, to
  <2>4. i \in Int /\ 1 <= i /\ i <= to - from
      BY <1>1, <2>2, <2>3
  <2>5. ((lastIdx + i) % BucketCount) = ((from + i) % BucketCount)
    <3>1. from \in Int
        BY <1>1
    <3>2. (((from % BucketCount) + i) % BucketCount) = ((from + i) % BucketCount)
        BY <1>1, <2>4, <3>1, ModPlus, Zenon
    <3>3. QED
        BY <2>1, <3>2, Zenon
  <2>6. b <= from + i /\ from + i < b + BucketCount /\ from + i \in Int
      BY <1>1, <2>4 DEF from, to
  <2>7. b = from + i
    <3>1. b \in Int /\ (b % BucketCount) = ((from + i) % BucketCount)
        BY <2>5
    <3>2. QED
        BY <1>1, <2>6, <3>1, ModSeparates, Zenon
  <2>8. QED
      BY <1>1, <2>4, <2>7 DEF from
<1>6. QED
    BY <1>3, <1>4, <1>5

(* The rotated ring still counts every sample of the window that ends now. *)
LEMMA RotatedCovers ==
    ASSUME TypeOK, WindowInv, NEW b \in Lap,
           LapOf(now) - BucketCount < b, b <= LapOf(now)
    PROVE  Covers(Rotated(now)[b % BucketCount], truth[b])
<1>0. b \in Int /\ BucketCount \in Nat \ {0}
    BY LapsAreNumbers, HystrixAssumption
<1>1. /\ now \in Nat /\ lastSample \in Nat /\ b \in Nat
      /\ LapOf(now) \in Nat /\ LapOf(lastSample) \in Nat
      /\ BucketCount \in Nat \ {0} /\ (b % BucketCount) \in Slot
  <2>1. (b % BucketCount) \in Slot
      BY <1>0, DivMod, Zenon DEF Slot
  <2>2. QED
      BY <1>0, <2>1, SlotOf, LapsAreNumbers DEF TypeOK
<1>2. Rotated(now)[b % BucketCount] \in Count
    BY <1>1, RotatedTyped
<1>3. CASE b > LapOf(lastSample)
  <2>1. truth[b] = Empty
      BY <1>3 DEF WindowInv, SampleIsLast
  <2>2. QED
      BY <1>2, <2>1 DEF Covers, Count, Empty
<1>4. CASE b <= LapOf(lastSample)
  <2>1. LapOf(lastSample) <= LapOf(now)
      BY <1>1, DivMonotone, BucketLenPositive DEF LapOf, WindowInv, SampleIsLast
  <2>2. b \in InWindow
      BY <1>1, <1>4, <2>1 DEF InWindow
  <2>3. Rotated(now)[b % BucketCount] = buckets[b % BucketCount]
      BY <1>1, <1>4, ClearedIsStale DEF WindowInv, Rotated
  <2>4. QED
      BY <2>2, <2>3 DEF WindowInv, NoSampleLost, Covers
<1>5. QED
    BY <1>1, <1>3, <1>4

(* A Mark keeps the invariant.                                             *)
LEMMA MarkWindow ==
    ASSUME TypeOK, WindowInv, NEW c \in Client, NEW failed \in BOOLEAN, Mark(c, failed)
    PROVE  WindowInv'
<1> DEFINE at == LapOf(now)
<1>1. /\ now \in Nat /\ lastSample \in Nat /\ at \in Nat /\ LapOf(lastSample) \in Nat
      /\ BucketCount \in Nat \ {0} /\ BucketIndex(now) \in Slot
    BY SlotOf, HystrixAssumption DEF TypeOK
<1>2. LapOf(lastSample) <= at
    BY <1>1, DivMonotone, BucketLenPositive DEF LapOf, WindowInv, SampleIsLast
<1>3. /\ now' = now /\ lastSample' = now /\ hasSample' /\ LapOf(lastSample)' = at
      /\ lastIdx' = BucketIndex(lastSample)'
    BY DEF Mark, Sampled, BucketIndex, LapOf
<1>4. BucketIndex(now) = (at % BucketCount)
    BY DEF BucketIndex
<1> HIDE DEF at
<1>5. \A b \in Lap : b > at => truth[b] = Empty
    BY <1>1, <1>2, LapsAreNumbers DEF WindowInv, SampleIsLast
<1>6. \A b \in Lap : b > at => truth'[b] = Empty
  <2>1. CASE state # "half"
    <3>1. truth' = [truth EXCEPT ![at] = Plus(@, failed)]
        BY <2>1 DEF Mark, Record, at
    <3>2. \A b \in Lap : b > at => b # at
        BY <1>1, LapsAreNumbers
    <3>3. QED
        BY <1>5, <3>1, <3>2 DEF TypeOK
  <2>2. CASE state = "half"
      BY <2>2, <1>5 DEF Mark, Reopen, Recover
  <2>3. QED
      BY <2>1, <2>2
<1>7. SampleIsLast'
    BY <1>1, <1>3, <1>6 DEF SampleIsLast
<1>8. ASSUME NEW b \in Lap, at - BucketCount < b, b <= at
      PROVE  Covers(buckets'[b % BucketCount], truth'[b])
  <2>1. /\ b \in Nat /\ (b % BucketCount) \in Slot
      BY <1>1, LapsAreNumbers, DivMod DEF Slot
  <2>2. Covers(Rotated(now)[b % BucketCount], truth[b])
      BY <1>8, RotatedCovers DEF at
  <2>3. Rotated(now) \in [Slot -> Count] /\ truth \in [Lap -> Count]
      BY <1>1, RotatedTyped DEF TypeOK
  <2>4. CASE state # "half"
    <3>1. /\ buckets' = [Rotated(now) EXCEPT ![BucketIndex(now)] = Plus(@, failed)]
          /\ truth' = [truth EXCEPT ![at] = Plus(@, failed)]
        BY <2>4 DEF Mark, Record, at
    <3>2. CASE b = at
      <4>1. /\ buckets'[b % BucketCount] = Plus(Rotated(now)[b % BucketCount], failed)
            /\ truth'[b] = Plus(truth[b], failed)
          BY <1>1, <1>4, <2>3, <3>1, <3>2
      <4>2. Rotated(now)[b % BucketCount] \in Count /\ truth[b] \in Count
          BY <2>1, <2>3
      <4>3. QED
          BY <2>2, <4>1, <4>2 DEF Covers, Plus, Count
    <3>3. CASE b # at
      <4>1. (b % BucketCount) # BucketIndex(now)
        <5>1. b \in Int /\ at \in Int /\ b <= at /\ at < b + BucketCount
            BY <1>1, <1>8, <2>1
        <5>2. (b % BucketCount) # (at % BucketCount)
            BY <1>1, <3>3, <5>1, ModSeparates, Zenon
        <5>3. QED
            BY <1>4, <5>2
      <4>2. /\ buckets'[b % BucketCount] = Rotated(now)[b % BucketCount]
            /\ truth'[b] = truth[b]
          BY <2>1, <2>3, <3>1, <3>3, <4>1
      <4>3. QED
          BY <2>2, <4>2
    <3>4. QED
        BY <3>2, <3>3
  <2>5. CASE state = "half" /\ failed
      BY <2>2, <2>5 DEF Mark, Reopen
  <2>6. CASE state = "half" /\ ~failed
    <3>1. buckets'[b % BucketCount] = Empty /\ truth'[b] = Empty
        BY <2>1, <2>6 DEF Mark, Recover
    <3>2. QED
        BY <3>1 DEF Covers, Empty
  <2>7. QED
      BY <2>4, <2>5, <2>6
<1>9. NoSampleLost'
    BY <1>3, <1>8, MarkTyped DEF NoSampleLost, InWindow, Covers
<1>10. QED
    BY <1>7, <1>9 DEF WindowInv

(* Every step keeps the invariant.                                         *)
LEMMA StepWindow ==
    ASSUME TypeOK, WindowInv, [Next]_vars
    PROVE  WindowInv'
<1>1. ASSUME NEW c \in Client, MarkAny(c)
      PROVE  WindowInv'
    BY <1>1, MarkWindow DEF MarkAny
<1>2. ASSUME UNCHANGED <<window, truth>>, now' = now \/ now' = now + 1
      PROVE  WindowInv'
  <2>1. /\ lastSample' = lastSample /\ lastIdx' = lastIdx /\ hasSample' = hasSample
        /\ buckets' = buckets /\ truth' = truth
      BY <1>2 DEF window
  <2>2. lastSample <= now'
      BY <1>2 DEF TypeOK, WindowInv, SampleIsLast
  <2>3. SampleIsLast'
      BY <2>1, <2>2 DEF WindowInv, SampleIsLast, BucketIndex, LapOf
  <2>4. NoSampleLost'
      BY <2>1, StepTyped DEF WindowInv, NoSampleLost, InWindow, LapOf
  <2>5. QED
      BY <2>3, <2>4 DEF WindowInv
<1>3. CASE Tick
    BY <1>2, <1>3 DEF Tick
<1>4. CASE QueryState
    BY <1>2, <1>4 DEF QueryState
<1>5. CASE Close
    BY <1>2, <1>5 DEF Close
<1>6. ASSUME NEW c \in Client, AllowClosed(c) \/ AllowTrial(c) \/ AllowRefused(c)
      PROVE  WindowInv'
    BY <1>2, <1>6 DEF AllowClosed, AllowTrial, AllowRefused, Admit
<1>7. ASSUME NEW c \in Client, PanicInExecute(c)
      PROVE  WindowInv'
    BY <1>2, <1>7 DEF PanicInExecute
<1>8. CASE UNCHANGED vars
    BY <1>2, <1>8 DEF vars
<1>9. QED
    BY <1>1, <1>3, <1>4, <1>5, <1>6, <1>7, <1>8 DEF Next

(* The invariant holds of a new breaker.                                   *)
LEMMA InitWindow == Init => WindowInv
<1> SUFFICES ASSUME Init
             PROVE  WindowInv
    OBVIOUS
<1>1. BucketIndex(0) = 0
    BY BucketLenPositive, DivUnique, HystrixAssumption DEF BucketIndex, LapOf
<1>2. \A b \in Lap : truth[b] = Empty /\ (b % BucketCount) \in Slot
    BY LapsAreNumbers, DivMod, HystrixAssumption DEF Init, Slot
<1>3. SampleIsLast
    BY <1>1, <1>2 DEF Init, SampleIsLast
<1>4. NoSampleLost
    BY <1>2, InitTyped DEF Init, NoSampleLost, InWindow, Empty
<1>5. QED
    BY <1>3, <1>4 DEF WindowInv

(* Whatever the window and the number of buckets, the rotation never drops *)
(* a sample that is still in the window: the slots rotateLocked clears     *)
(* belong to laps that have left it.                                       *)
THEOREM WindowKeepsSamples == Spec => []NoSampleLost
<1>1. TypeOK /\ WindowInv /\ [Next]_vars => WindowInv'
    BY StepWindow
<1>2. WindowInv => NoSampleLost
    BY DEF WindowInv
<1>3. QED
    BY InitWindow, <1>1, <1>2, BreakerTyped, PTL DEF Spec

-----------------------------------------------------------------------------
(* Sums.                                                                   *)

(* A set of numbers that is not empty has a least element: the finite      *)
(* sets 0..x are well founded.                                             *)
LEMMA Least ==
    ASSUME NEW T \in SUBSET Nat, T # {}
    PROVE  \E x \in T : \A y \in T : x <= y
<1> DEFINE Below == {U \in FiniteSubsetsOf(Nat) : \E x \in T : U = 0..x}
<1>1. ASSUME NEW x \in T
      PROVE  0..x \in Below
    BY <1>1, FS_Interval DEF FiniteSubsetsOf
<1>2. Below \subseteq FiniteSubsetsOf(Nat) /\ Below # {}
    BY <1>1
<1> HIDE DEF Below
<1>3. PICK U \in Below : \A V \in Below : <<V, U>> \notin StrictSubsetOrdering(Nat)
    BY <1>2, FS_StrictSubsetOrderingWellFounded, WFMin
<1>4. PICK x \in T : U = 0..x
    BY <1>3 DEF Below
<1>5. ASSUME NEW y \in T, y < x
      PROVE  FALSE
  <2>1. 0..y \in SUBSET (0..x) /\ x \notin 0..y /\ x \in 0..x
      BY <1>5
  <2>2. <<0..y, 0..x>> \in StrictSubsetOrdering(Nat)
      BY <2>1, <1>5 DEF StrictSubsetOrdering
  <2>3. QED
      BY <2>2, <1>1, <1>3, <1>4
<1>6. QED
    BY <1>5

(* Induction over the numbers, for sets.                                   *)
LEMMA Inducts ==
    ASSUME NEW S \in SUBSET Nat, 0 \in S, \A n \in S : n + 1 \in S
    PROVE  S = Nat
<1> SUFFICES ASSUME S # Nat PROVE FALSE
    OBVIOUS
<1>1. PICK x \in Nat \ S : \A y \in Nat \ S : x <= y
    BY Least
<1>2. x - 1 \in S
    BY <1>1
<1>3. QED
    BY <1>1, <1>2

\* One turn of the loop that adds up.
AddOne(count, s, i) == IF i = 0 THEN 0 ELSE s[i - 1] + count[i - 1]

(* The loop that adds up: its total after i counts is defined.             *)
LEMMA TotalDefined ==
    ASSUME NEW count, NEW n \in Nat
    PROVE  \E s : s = [i \in 0..n |-> AddOne(count, s, i)]
<1> DEFINE Solves(s, m) == /\ s = [i \in 0..m |-> s[i]]
                           /\ \A i \in 0..m : s[i] = AddOne(count, s, i)
           S == {m \in Nat : \E s : Solves(s, m)}
<1>1. 0 \in S
  <2> DEFINE s == [i \in 0..0 |-> 0]
  <2>1. Solves(s, 0)
      BY DEF AddOne
  <2>2. QED
      BY <2>1
<1>2. ASSUME NEW m \in S
      PROVE  m + 1 \in S
  <2>1. PICK s : Solves(s, m)
      OBVIOUS
  <2> DEFINE t == [i \in 0..(m + 1) |-> IF i = m + 1 THEN AddOne(count, s, i) ELSE s[i]]
  <2>2. ASSUME NEW i \in 0..(m + 1)
        PROVE  t[i] = AddOne(count, t, i)
    <3>1. CASE i = 0
      <4>0. m \in Nat
          OBVIOUS
      <4>1. s[0] = AddOne(count, s, 0)
          BY <2>1, <4>0
      <4>2. t[0] = s[0]
          BY <4>0
      <4>3. AddOne(count, s, 0) = 0 /\ AddOne(count, t, 0) = 0
          BY DEF AddOne
      <4>4. QED
          BY <3>1, <4>1, <4>2, <4>3
    <3>2. CASE i \in 1..m
      <4>1. t[i] = s[i] /\ t[i - 1] = s[i - 1]
          BY <3>2
      <4>2. s[i] = AddOne(count, s, i)
          BY <3>2, <2>1
      <4>3. AddOne(count, s, i) = AddOne(count, t, i)
          BY <4>1 DEF AddOne
      <4>4. QED
          BY <4>1, <4>2, <4>3
    <3>3. CASE i = m + 1
      <4>1. t[i] = AddOne(count, s, i) /\ t[i - 1] = s[i - 1]
          BY <3>3
      <4>2. QED
          BY <4>1 DEF AddOne
    <3>4. QED
        BY <3>1, <3>2, <3>3
  <2>3. Solves(t, m + 1)
      BY <2>2
  <2> HIDE DEF t, Solves
  <2>4. QED
      BY <2>3
<1>3. n \in S
  <2>1. S \in SUBSET Nat
      OBVIOUS
  <2> HIDE DEF S
  <2>2. QED
      BY <1>1, <1>2, <2>1, Inducts
<1>4. PICK s : Solves(s, n)
    BY <1>3
<1>5. s = [i \in 0..n |-> AddOne(count, s, i)]
    BY <1>4
<1>6. QED
    BY <1>5

(* Sum is the total of that loop at the end.                               *)
LEMMA SumIsLoop ==
    ASSUME NEW count, NEW n \in Nat
    PROVE  \E s : /\ Sum(count, n) = s[n] /\ s[0] = 0
                  /\ \A i \in 0..(n - 1) : s[i + 1] = s[i] + count[i]
<1>1. \E s : s = [i \in 0..n |-> IF i = 0 THEN 0 ELSE s[i - 1] + count[i - 1]]
    BY TotalDefined DEF AddOne
<1> DEFINE total[i \in 0..n] == IF i = 0 THEN 0 ELSE total[i - 1] + count[i - 1]
<1>2. total = [i \in 0..n |-> IF i = 0 THEN 0 ELSE total[i - 1] + count[i - 1]]
    BY <1>1, Zenon
<1>3. Sum(count, n) = total[n]
    BY Zenon DEF Sum
<1> HIDE DEF total
<1>4. total[0] = 0
    BY <1>2
<1>5. ASSUME NEW i \in 0..(n - 1)
      PROVE  total[i + 1] = total[i] + count[i]
  <2>1. i + 1 \in 0..n /\ i + 1 # 0 /\ (i + 1) - 1 = i
      OBVIOUS
  <2>2. total[i + 1] = total[(i + 1) - 1] + count[(i + 1) - 1]
      BY <1>2, <2>1
  <2>3. QED
      BY <2>1, <2>2
<1>6. QED
    BY <1>3, <1>4, <1>5

(* A sum of larger counts is larger.                                       *)
LEMMA SumMonotone ==
    ASSUME NEW n \in Nat, NEW x, NEW y,
           \A i \in 0..(n - 1) : x[i] \in Nat /\ y[i] \in Nat /\ x[i] <= y[i]
    PROVE  Sum(x, n) \in Nat /\ Sum(y, n) \in Nat /\ Sum(x, n) <= Sum(y, n)
<1>1. PICK s : /\ Sum(x, n) = s[n] /\ s[0] = 0
               /\ \A i \in 0..(n - 1) : s[i + 1] = s[i] + x[i]
    BY SumIsLoop
<1>2. PICK t : /\ Sum(y, n) = t[n] /\ t[0] = 0
               /\ \A i \in 0..(n - 1) : t[i + 1] = t[i] + y[i]
    BY SumIsLoop
<1> DEFINE S == {m \in Nat : m <= n => s[m] \in Nat /\ t[m] \in Nat /\ s[m] <= t[m]}
<1>3. 0 \in S
    BY <1>1, <1>2
<1>4. ASSUME NEW m \in S
      PROVE  m + 1 \in S
  <2> SUFFICES ASSUME m + 1 <= n
               PROVE  s[m + 1] \in Nat /\ t[m + 1] \in Nat /\ s[m + 1] <= t[m + 1]
      OBVIOUS
  <2>1. m \in 0..(n - 1) /\ s[m] \in Nat /\ t[m] \in Nat /\ s[m] <= t[m]
      OBVIOUS
  <2>2. s[m + 1] = s[m] + x[m] /\ t[m + 1] = t[m] + y[m]
      BY <1>1, <1>2, <2>1
  <2>3. x[m] \in Nat /\ y[m] \in Nat /\ x[m] <= y[m]
      BY <2>1
  <2> HIDE DEF S
  <2>4. QED
      BY <2>1, <2>2, <2>3
<1>5. n \in S
  <2>1. S \in SUBSET Nat
      OBVIOUS
  <2> HIDE DEF S
  <2>2. QED
      BY <1>3, <1>4, <2>1, Inducts
<1>6. QED
    BY <1>1, <1>2, <1>5

(* One count that is one larger makes a sum that is one larger.            *)
LEMMA SumPlusOne ==
    ASSUME NEW n \in Nat, NEW k \in 0..(n - 1), NEW x, NEW y,
           \A i \in 0..(n - 1) : x[i] \in Nat,
           y[k] = x[k] + 1, \A i \in 0..(n - 1) : i # k => y[i] = x[i]
    PROVE  Sum(x, n) \in Nat /\ Sum(y, n) = Sum(x, n) + 1
<1>1. PICK s : /\ Sum(x, n) = s[n] /\ s[0] = 0
               /\ \A i \in 0..(n - 1) : s[i + 1] = s[i] + x[i]
    BY SumIsLoop
<1>2. PICK t : /\ Sum(y, n) = t[n] /\ t[0] = 0
               /\ \A i \in 0..(n - 1) : t[i + 1] = t[i] + y[i]
    BY SumIsLoop
<1> DEFINE S == {m \in Nat : m <= n =>
                    s[m] \in Nat /\ t[m] = IF m <= k THEN s[m] ELSE s[m] + 1}
<1>3. 0 \in S
    BY <1>1, <1>2
<1>4. ASSUME NEW m \in S
      PROVE  m + 1 \in S
  <2> SUFFICES ASSUME m + 1 <= n
               PROVE  /\ s[m + 1] \in Nat
                      /\ t[m + 1] = IF m + 1 <= k THEN s[m + 1] ELSE s[m + 1] + 1
      OBVIOUS
  <2>1. m \in 0..(n - 1) /\ s[m] \in Nat /\ t[m] = IF m <= k THEN s[m] ELSE s[m] + 1
      OBVIOUS
  <2>2. s[m + 1] = s[m] + x[m] /\ t[m + 1] = t[m] + y[m]
      BY <1>1, <1>2, <2>1
  <2>3. x[m] \in Nat /\ (m = k => y[m] = x[m] + 1) /\ (m # k => y[m] = x[m])
      BY <2>1
  <2> HIDE DEF S
  <2>4. CASE m < k
      BY <2>1, <2>2, <2>3, <2>4
  <2>5. CASE m = k
      BY <2>1, <2>2, <2>3, <2>5
  <2>6. CASE m > k
      BY <2>1, <2>2, <2>3, <2>6
  <2>7. QED
      BY <2>1, <2>4, <2>5, <2>6
<1>5. n \in S
  <2>1. S \in SUBSET Nat
      OBVIOUS
  <2> HIDE DEF S
  <2>2. QED
      BY <1>3, <1>4, <2>1, Inducts
<1>6. QED
    BY <1>1, <1>2, <1>5

-----------------------------------------------------------------------------
(* The trip.                                                               *)

(* The ring counts no more than what was recorded since the last recovery, *)
(* and the clock keeps to its bound, so that every sample has a lap.       *)
CountsInv == now <= MaxTime /\ Requests(buckets) <= Recorded(truth)

(* The number of laps, and the lap of now among them.                      *)
LEMMA LapOfNow ==
    ASSUME now \in Nat, now <= MaxTime
    PROVE  /\ LapOf(now) \in Lap
           /\ (MaxTime \div BucketLen) + 1 \in Nat
           /\ Lap = 0..(((MaxTime \div BucketLen) + 1) - 1)
<1>1. LapOf(now) \in Nat
    BY SlotOf
<1>2. MaxTime \div BucketLen \in Int /\ LapOf(now) <= MaxTime \div BucketLen
    BY BucketLenPositive, DivMod, DivMonotone, HystrixAssumption DEF LapOf
<1>3. QED
    BY <1>1, <1>2 DEF Lap

(* A ring that counts no more in any slot counts no more in all.           *)
LEMMA RequestsMonotone ==
    ASSUME NEW r \in [Slot -> Count], NEW q \in [Slot -> Count],
           \A i \in Slot : r[i].requests <= q[i].requests
    PROVE  /\ Requests(r) \in Nat /\ Requests(q) \in Nat
           /\ Requests(r) <= Requests(q)
<1> DEFINE x == [i \in Slot |-> r[i].requests]
           y == [i \in Slot |-> q[i].requests]
<1>1. \A i \in 0..(BucketCount - 1) : x[i] \in Nat /\ y[i] \in Nat /\ x[i] <= y[i]
    BY DEF Slot, Count
<1>2. BucketCount \in Nat
    BY HystrixAssumption
<1> HIDE DEF x, y
<1>3. Sum(x, BucketCount) \in Nat /\ Sum(y, BucketCount) \in Nat
      /\ Sum(x, BucketCount) <= Sum(y, BucketCount)
    BY <1>1, <1>2, SumMonotone
<1>4. QED
    BY <1>3 DEF Requests, x, y

(* One more sample in one slot is one more in the ring.                    *)
LEMMA RequestsPlus ==
    ASSUME NEW r \in [Slot -> Count], NEW k \in Slot, NEW failed \in BOOLEAN
    PROVE  Requests([r EXCEPT ![k] = Plus(@, failed)]) = Requests(r) + 1
<1> DEFINE q == [r EXCEPT ![k] = Plus(@, failed)]
           x == [i \in Slot |-> r[i].requests]
           y == [i \in Slot |-> q[i].requests]
<1>1. \A i \in 0..(BucketCount - 1) : x[i] \in Nat
    BY DEF Slot, Count
<1>2. y[k] = x[k] + 1 /\ \A i \in 0..(BucketCount - 1) : i # k => y[i] = x[i]
  <2>1. ASSUME NEW i \in Slot
        PROVE  q[i].requests = IF i = k THEN r[i].requests + 1 ELSE r[i].requests
      BY DEF Plus
  <2> HIDE DEF q
  <2>2. QED
      BY <2>1 DEF Slot
<1>3. BucketCount \in Nat /\ k \in 0..(BucketCount - 1)
    BY HystrixAssumption DEF Slot
<1> HIDE DEF q, x, y
<1>4. Sum(y, BucketCount) = Sum(x, BucketCount) + 1
    BY <1>1, <1>2, <1>3, SumPlusOne, Zenon
<1>5. Requests(q) = Requests(r) + 1
    BY <1>4 DEF Requests, x, y
<1>6. QED
    BY <1>5 DEF q

(* What a history has recorded is a number.                                *)
LEMMA RecordedTyped ==
    ASSUME NEW h \in [Lap -> Count], now \in Nat, now <= MaxTime
    PROVE  Recorded(h) \in Nat
<1> DEFINE x == [b \in Lap |-> h[b].requests]
           n == (MaxTime \div BucketLen) + 1
<1>1. n \in Nat /\ Lap = 0..(n - 1)
    BY LapOfNow
<1> HIDE DEF n
<1>2. \A i \in 0..(n - 1) : x[i] \in Nat /\ x[i] <= x[i]
    BY <1>1 DEF Count
<1> HIDE DEF x
<1>3. Sum(x, n) \in Nat
    BY <1>1, <1>2, SumMonotone
<1>4. QED
    BY <1>3 DEF Recorded, x, n

(* One more sample in one lap is one more in the history.                  *)
LEMMA RecordedPlus ==
    ASSUME NEW h \in [Lap -> Count], NEW failed \in BOOLEAN, now \in Nat, now <= MaxTime
    PROVE  Recorded([h EXCEPT ![LapOf(now)] = Plus(@, failed)]) = Recorded(h) + 1
<1> DEFINE k == LapOf(now)
           n == (MaxTime \div BucketLen) + 1
           g == [h EXCEPT ![k] = Plus(@, failed)]
           x == [b \in Lap |-> h[b].requests]
           y == [b \in Lap |-> g[b].requests]
<1>1. n \in Nat /\ k \in Lap /\ Lap = 0..(n - 1)
    BY LapOfNow
<1> HIDE DEF k, n
<1>2. \A i \in 0..(n - 1) : x[i] \in Nat
    BY <1>1 DEF Count
<1>3. y[k] = x[k] + 1 /\ \A i \in 0..(n - 1) : i # k => y[i] = x[i]
  <2>1. ASSUME NEW i \in Lap
        PROVE  g[i].requests = IF i = k THEN h[i].requests + 1 ELSE h[i].requests
      BY DEF Plus
  <2> HIDE DEF g
  <2>2. QED
      BY <1>1, <2>1
<1> HIDE DEF g, x, y
<1>4. Sum(y, n) = Sum(x, n) + 1
    BY <1>1, <1>2, <1>3, SumPlusOne, Zenon
<1>5. Recorded(g) = Recorded(h) + 1
    BY <1>4 DEF Recorded, x, y, n
<1>6. QED
    BY <1>5 DEF g, k

(* An empty ring, and an empty history, count nothing.                     *)
LEMMA NothingCounted ==
    /\ Requests([i \in Slot |-> Empty]) <= Recorded([b \in Lap |-> Empty])
    /\ Recorded([b \in Lap |-> Empty]) \in Nat
<1> DEFINE x == [i \in Slot |-> [j \in Slot |-> Empty][i].requests]
           n == (MaxTime \div BucketLen) + 1
           y == [b \in Lap |-> [c \in Lap |-> Empty][b].requests]
<1>1. BucketCount \in Nat /\ \A i \in 0..(BucketCount - 1) : x[i] = 0
    BY HystrixAssumption DEF Slot, Empty
<1>2. n \in Nat /\ \A i \in 0..(n - 1) : y[i] = 0
  <2>1. MaxTime \div BucketLen \in Int /\ MaxTime \div BucketLen >= 0
      BY BucketLenPositive, DivMod, DivMonotone, DivUnique, HystrixAssumption
  <2>2. n \in Nat /\ Lap = 0..(n - 1)
      BY <2>1 DEF Lap
  <2>3. \A i \in Lap : y[i] = 0
      BY DEF Empty
  <2> HIDE DEF n, y
  <2>4. QED
      BY <2>2, <2>3
<1> HIDE DEF x, y, n
<1>3. PICK s : /\ Sum(x, BucketCount) = s[BucketCount] /\ s[0] = 0
               /\ \A i \in 0..(BucketCount - 1) : s[i + 1] = s[i] + x[i]
    BY <1>1, SumIsLoop
<1> DEFINE S == {m \in Nat : m <= BucketCount => s[m] = 0}
<1>4. 0 \in S
    BY <1>3
<1>5. ASSUME NEW m \in S
      PROVE  m + 1 \in S
  <2> SUFFICES ASSUME m + 1 <= BucketCount
               PROVE  s[m + 1] = 0
      OBVIOUS
  <2>1. m \in 0..(BucketCount - 1) /\ s[m] = 0
      BY <1>1
  <2>2. s[m + 1] = s[m] + x[m] /\ x[m] = 0
      BY <1>1, <1>3, <2>1
  <2>3. QED
      BY <2>1, <2>2
<1>6. BucketCount \in S
  <2>1. S \in SUBSET Nat
      OBVIOUS
  <2> HIDE DEF S
  <2>2. QED
      BY <1>1, <1>4, <1>5, <2>1, Inducts
<1>7. Sum(x, BucketCount) = 0
    BY <1>1, <1>3, <1>6
<1>8. Sum(y, n) \in Nat
    BY <1>2, SumMonotone
<1>9. QED
    BY <1>7, <1>8 DEF Requests, Recorded, x, y, n

(* A Mark keeps the invariant.                                             *)
LEMMA MarkCounts ==
    ASSUME TypeOK, CountsInv, NEW c \in Client, NEW failed \in BOOLEAN, Mark(c, failed)
    PROVE  now' <= MaxTime /\ Requests(buckets') <= Recorded(truth')
<1>1. /\ now \in Nat /\ now <= MaxTime /\ now' = now /\ MaxTime \in Nat
      /\ Requests(buckets) <= Recorded(truth)
    BY HystrixAssumption DEF TypeOK, CountsInv, Mark
<1>2. /\ Rotated(now) \in [Slot -> Count] /\ buckets \in [Slot -> Count]
      /\ truth \in [Lap -> Count] /\ BucketIndex(now) \in Slot
    BY <1>1, RotatedTyped, SlotOf DEF TypeOK
<1>3. /\ Requests(Rotated(now)) \in Nat /\ Requests(buckets) \in Nat
      /\ Requests(Rotated(now)) <= Requests(buckets)
  <2>1. \A i \in Slot : Rotated(now)[i].requests <= buckets[i].requests
      BY <1>2 DEF Rotated, Empty, Count
  <2>2. QED
      BY <1>2, <2>1, RequestsMonotone
<1>4. Recorded(truth) \in Nat
    BY <1>1, <1>2, RecordedTyped
<1>5. CASE state # "half"
  <2>1. /\ buckets' = [Rotated(now) EXCEPT ![BucketIndex(now)] = Plus(@, failed)]
        /\ truth' = [truth EXCEPT ![LapOf(now)] = Plus(@, failed)]
      BY <1>5 DEF Mark, Record
  <2>2. Requests(buckets') = Requests(Rotated(now)) + 1
      BY <1>2, <2>1, RequestsPlus
  <2>3. Recorded(truth') = Recorded(truth) + 1
      BY <1>1, <1>2, <2>1, RecordedPlus
  <2>4. QED
      BY <1>1, <1>3, <1>4, <2>2, <2>3
<1>6. CASE state = "half" /\ failed
  <2>1. buckets' = Rotated(now) /\ truth' = truth
      BY <1>6 DEF Mark, Reopen
  <2>2. QED
      BY <1>1, <1>3, <1>4, <2>1
<1>7. CASE state = "half" /\ ~failed
  <2>1. buckets' = [i \in Slot |-> Empty] /\ truth' = [b \in Lap |-> Empty]
      BY <1>7 DEF Mark, Recover
  <2>2. QED
      BY <1>1, <2>1, NothingCounted
<1>8. QED
    BY <1>5, <1>6, <1>7

(* Every step keeps the invariant.                                         *)
LEMMA StepCounts ==
    ASSUME TypeOK, CountsInv, [Next]_vars
    PROVE  CountsInv'
<1>1. ASSUME NEW c \in Client, MarkAny(c)
      PROVE  CountsInv'
    BY <1>1, MarkCounts DEF MarkAny, CountsInv
<1>2. ASSUME UNCHANGED <<window, truth>>, now' = now \/ (now < MaxTime /\ now' = now + 1)
      PROVE  CountsInv'
  <2>1. buckets' = buckets /\ truth' = truth
      BY <1>2 DEF window
  <2>2. now' <= MaxTime
      BY <1>2, HystrixAssumption DEF TypeOK, CountsInv
  <2>3. QED
      BY <2>1, <2>2 DEF CountsInv
<1>3. CASE Tick
    BY <1>2, <1>3 DEF Tick
<1>4. CASE QueryState
    BY <1>2, <1>4 DEF QueryState
<1>5. CASE Close
    BY <1>2, <1>5 DEF Close
<1>6. ASSUME NEW c \in Client, AllowClosed(c) \/ AllowTrial(c) \/ AllowRefused(c)
      PROVE  CountsInv'
    BY <1>2, <1>6 DEF AllowClosed, AllowTrial, AllowRefused, Admit
<1>7. ASSUME NEW c \in Client, PanicInExecute(c)
      PROVE  CountsInv'
    BY <1>2, <1>7 DEF PanicInExecute
<1>8. CASE UNCHANGED vars
    BY <1>2, <1>8 DEF vars
<1>9. QED
    BY <1>1, <1>3, <1>4, <1>5, <1>6, <1>7, <1>8 DEF Next

\* A step that trips has recorded enough samples since the last recovery.
TripStep == state = "closed" /\ state' = "open" => Recorded(truth') >= Volume

(* Every step is such a step: only a Mark of a closed breaker trips it,    *)
(* on a ring that counts no more than the history.                         *)
LEMMA StepTrips ==
    ASSUME TypeOK, CountsInv, Next
    PROVE  TripStep
<1> SUFFICES ASSUME state = "closed", state' = "open"
             PROVE  Recorded(truth') >= Volume
    BY DEF TripStep
<1>1. PICK c \in Client : MarkAny(c)
  <2>1. ~Tick /\ ~Close /\ ~QueryState
      BY DEF Tick, Close, QueryState, machine
  <2>2. \A c \in Client : ~AllowClosed(c) /\ ~AllowTrial(c) /\ ~AllowRefused(c)
                          /\ ~PanicInExecute(c)
      BY DEF AllowClosed, AllowTrial, AllowRefused, PanicInExecute, machine
  <2>3. QED
      BY <2>1, <2>2 DEF Next
<1>2. PICK failed \in BOOLEAN : Mark(c, failed)
    BY <1>1 DEF MarkAny
<1>3. Record(failed)
    BY <1>2 DEF Mark
<1>4. Trips(buckets')
    BY <1>3 DEF Record
<1>5. Requests(buckets') >= Volume
    BY <1>4 DEF Trips
<1>6. Requests(buckets') <= Recorded(truth')
    BY <1>2, MarkCounts
<1>7. Requests(buckets') \in Nat
  <2>1. buckets' \in [Slot -> Count]
      BY <1>2, MarkTyped DEF TypeOK
  <2>2. \A i \in Slot : buckets'[i].requests <= buckets'[i].requests
      BY <2>1 DEF Count
  <2>3. QED
      BY <2>1, <2>2, RequestsMonotone
<1>8. Recorded(truth') \in Nat
  <2>1. truth' \in [Lap -> Count] /\ now \in Nat /\ now <= MaxTime
      BY <1>2, MarkTyped DEF TypeOK, CountsInv
  <2>2. QED
      BY <2>1, RecordedTyped
<1>9. QED
    BY <1>5, <1>6, <1>7, <1>8, HystrixAssumption

(* A breaker trips only on enough samples recorded since it last recovered *)
(* or was made: nothing counted before a recovery trips it again, and no   *)
(* rotation makes up samples, whatever the sizes of window and ring.       *)
THEOREM TripsAreFresh == Spec => TripsOnFreshSamples
<1>1. Init => CountsInv
    BY NothingCounted, HystrixAssumption DEF Init, CountsInv
<1>2. TypeOK /\ CountsInv /\ [Next]_vars => CountsInv'
    BY StepCounts
<1>3. TypeOK /\ CountsInv /\ [Next]_vars => [TripStep]_vars
    BY StepTrips
<1>4. QED
    BY <1>1, <1>2, <1>3, BreakerTyped, PTL DEF Spec, TripsOnFreshSamples, TripStep

(***************************************************************************)
(* Part 2: the read-through cache.                                         *)
(***************************************************************************)

-----------------------------------------------------------------------------
(* The inductive invariant.                                                *)

(* What is about to be written to the backend is a version.                *)
Carried == \A c \in Caller : caller[c].at \in {"loaded", "wrote"} => caller[c].val \in Version

(* Who found the key absent holds the stripe; while anybody does, and      *)
(* while there is no entry, nobody has won.                                *)
StripeHeld ==
    /\ \A c \in Caller : caller[c].at = "absent" => nxLock = c /\ takes >= 1
    /\ wins # 0 => wins = 1 /\ cached # None /\ \A c \in Caller : caller[c].at # "absent"

(* A load has a leader, who is in the middle of a Get.                     *)
Led == flight # None => \E c \in Caller : caller[c].at = "leads"

(* Unless a change of the source has crossed a Get or another writer, the  *)
(* source is as every load has read it and as the writer left it.          *)
SourceAsRead ==
    ~crossed =>
        /\ flight \in Version => flight = source
        /\ \A c \in Caller : caller[c].at \in {"loaded", "wrote"} => caller[c].val = source
        /\ \A c, d \in Caller : caller[c].at = "wrote" /\ caller[d].at = "wrote" => c = d
        /\ settled <= source
        /\ \A c \in Caller : caller[c].floor <= source

(* And the entry is between what is settled and what the source holds.     *)
EntryFresh ==
    ~crossed =>
        /\ (\A c \in Caller : caller[c].at # "wrote") => cached \in {None, Token, source}
        /\ cached \in Version => settled <= cached /\ cached <= source

StoreInv == CacheTypeOK /\ Carried /\ StripeHeld
FreshInv == Led /\ SourceAsRead /\ EntryFresh

(* Versions are numbers; nothing else that is stored is one.               *)
LEMMA Values ==
    /\ \A n : n \in Version <=> n \in Nat /\ n <= MaxWrites
    /\ 0 \in Version
    /\ MaxWrites \in Nat /\ MaxTakes \in Nat /\ MaxFaults \in Nat
    /\ None \notin Version /\ Unread \notin Version
    /\ Error \notin Version /\ Token \notin Version
    /\ None \notin Caller
    BY LoadableAssumption DEF Version

(* The markers differ from one another.                                    *)
LEMMA Markers ==
    /\ None # Unread /\ None # Error /\ None # Token
    /\ Unread # Error
    BY LoadableAssumption

(* A step keeps the types and the exclusion of SetNX.                       *)
LEMMA StepStored ==
    ASSUME StoreInv, [CacheNext]_cacheVars
    PROVE  StoreInv'
<1> USE Values, Markers
    DEF StoreInv, CacheTypeOK, Carried, StripeHeld, Missed, CallState, Fresh, Free, backend,
        limits
<1>1. CASE Load
    BY <1>1 DEF Load
<1>2. CASE Land
  <2>1. flight \in Version \cup {Error}
      BY <1>2 DEF Land
  <2>2. ASSUME NEW c \in Caller
        PROVE  /\ caller'[c] \in CallState
               /\ \/ caller'[c] = caller[c] \/ caller'[c] = Fresh
                  \/ caller'[c].at = "loaded" /\ caller'[c].val \in Version
    <3>1. caller[c] \in CallState
        OBVIOUS
    <3>2. caller'[c] = caller[c] \/ caller'[c] = Fresh
          \/ (flight # Error /\ caller'[c] = [caller[c] EXCEPT !.at = "loaded", !.val = flight])
        BY <1>2 DEF Land, Landed, InFlight
    <3>3. CASE flight # Error /\ caller'[c] = [caller[c] EXCEPT !.at = "loaded", !.val = flight]
        BY <2>1, <3>1, <3>3
    <3>4. QED
        BY <3>1, <3>2, <3>3
  <2>3. caller' \in [Caller -> CallState]
      BY <1>2, <2>2 DEF Land
  <2>4. CacheTypeOK'
      BY <1>2, <2>3 DEF Land
  <2>5. Carried' /\ StripeHeld'
      BY <1>2, <2>2 DEF Land
  <2>6. QED
      BY <2>4, <2>5
<1>3. CASE Expire
    BY <1>3 DEF Expire, GoesAway
<1>4. ASSUME NEW c \in Caller, GetMiss(c)
      PROVE  StoreInv'
    BY <1>4 DEF GetMiss, Begins
<1>5. ASSUME NEW c \in Caller, GetFault(c)
      PROVE  StoreInv'
    BY <1>5 DEF GetFault, Begins, Returns, Fault
<1>6. ASSUME NEW c \in Caller, Lead(c)
      PROVE  StoreInv'
    BY <1>6 DEF Lead, Goes
<1>7. ASSUME NEW c \in Caller, Join(c)
      PROVE  StoreInv'
    BY <1>7 DEF Join, Goes
<1>8. ASSUME NEW c \in Caller, Backfill(c)
      PROVE  StoreInv'
    BY <1>8 DEF Backfill, Returns, Puts, Fault, Fresh
<1>9. ASSUME NEW c \in Caller, WriteSource(c)
      PROVE  StoreInv'
  <2>1. source + 1 \in Version
      BY <1>9 DEF WriteSource
  <2>2. [Fresh EXCEPT !.at = "wrote", !.val = source + 1] \in CallState
      BY <2>1
  <2>3. CacheTypeOK'
      BY <1>9, <2>1, <2>2 DEF WriteSource
  <2>4. Carried' /\ StripeHeld'
      BY <1>9, <2>1 DEF WriteSource
  <2>5. QED
      BY <2>3, <2>4
<1>10. ASSUME NEW c \in Caller, Set(c)
      PROVE  StoreInv'
    BY <1>10 DEF Set, Puts, Finishes, Returns
<1>11. ASSUME NEW c \in Caller, Delete(c)
      PROVE  StoreInv'
    BY <1>11 DEF Delete, GoesAway, Finishes, Returns
<1>12. ASSUME NEW c \in Caller, WriteFails(c)
      PROVE  StoreInv'
    BY <1>12 DEF WriteFails, Fault, Returns
<1>13. ASSUME NEW c \in Caller, NXRefused(c)
      PROVE  StoreInv'
    BY <1>13 DEF NXRefused, Returns
<1>14. ASSUME NEW c \in Caller, NXCheck(c)
      PROVE  StoreInv'
    BY <1>14 DEF NXCheck, Fresh
<1>15. ASSUME NEW c \in Caller, NXSet(c)
      PROVE  StoreInv'
    BY <1>15 DEF NXSet, Returns
<1>18. ASSUME NEW c \in Caller, NXFails(c)
      PROVE  StoreInv'
    BY <1>18 DEF NXFails, Returns, Fault
<1>16. CASE UNCHANGED cacheVars
    BY <1>16 DEF cacheVars
<1>17. QED
    BY <1>1, <1>2, <1>3, <1>4, <1>5, <1>6, <1>7, <1>8,
       <1>9, <1>10, <1>11, <1>12, <1>13, <1>14, <1>15, <1>16, <1>18 DEF CacheNext, Flies

(* A step keeps the freshness of what readers see.                         *)
LEMMA StepFresh ==
    ASSUME StoreInv, FreshInv, [CacheNext]_cacheVars
    PROVE  FreshInv'
<1> USE Values, Markers
    DEF StoreInv, CacheTypeOK, Carried, FreshInv, Led, SourceAsRead, EntryFresh, Missed,
        CallState, Fresh, Free, backend, limits
<1>1. CASE Load
  <2>1. Led'
      BY <1>1 DEF Load
  <2>2. SourceAsRead' /\ EntryFresh'
      BY <1>1 DEF Load
  <2>3. QED
      BY <2>1, <2>2
<1>2. CASE Land
  <2>1. Led'
      BY <1>2 DEF Land
  <2>2. ~crossed => flight \in Version \cup {Error} /\ (flight # Error => flight = source)
      BY <1>2 DEF Land
  <2>3. ASSUME NEW c \in Caller
        PROVE  \/ caller'[c] = caller[c] \/ caller'[c] = Fresh
               \/ /\ flight # Error /\ caller'[c].at = "loaded" /\ caller'[c].val = flight
                  /\ caller'[c].floor = caller[c].floor
      BY <1>2 DEF Land, Landed, InFlight
  <2>4. SourceAsRead'
      BY <1>2, <2>2, <2>3 DEF Land
  <2>5. EntryFresh'
      BY <1>2, <2>3 DEF Land, Landed, InFlight
  <2>6. QED
      BY <2>1, <2>4, <2>5
<1>3. CASE Expire
    BY <1>3 DEF Expire, GoesAway
<1>4. ASSUME NEW c \in Caller, GetMiss(c)
      PROVE  FreshInv'
    BY <1>4 DEF GetMiss, Begins
<1>5. ASSUME NEW c \in Caller, GetFault(c)
      PROVE  FreshInv'
    BY <1>5 DEF GetFault, Begins, Returns, Fault
<1>6. ASSUME NEW c \in Caller, Lead(c)
      PROVE  FreshInv'
    BY <1>6 DEF Lead, Goes
<1>7. ASSUME NEW c \in Caller, Join(c)
      PROVE  FreshInv'
    BY <1>7 DEF Join, Goes
<1>8. ASSUME NEW c \in Caller, Backfill(c)
      PROVE  FreshInv'
    BY <1>8 DEF Backfill, Returns, Puts, Fault, Fresh
<1>9. ASSUME NEW c \in Caller, WriteSource(c)
      PROVE  FreshInv'
  <2>1. source + 1 \in Version
      BY <1>9 DEF WriteSource
  <2>2. Led'
      BY <1>9 DEF WriteSource
  <2>3. CASE crossed'
      BY <2>2, <2>3
  <2>4. CASE ~crossed'
    <3>1. ~crossed /\ \A d \in Caller : caller[d].at \notin Missed \cup {"wrote"}
        BY <1>9, <2>4 DEF WriteSource
    <3>2. flight = None /\ flight' = None
        BY <1>9, <3>1 DEF WriteSource
    <3>3. \A d \in Caller :
              caller'[d].at \in {"loaded", "wrote"} => d = c /\ caller'[d].val = source'
        BY <1>9, <3>1 DEF WriteSource
    <3>4. \A d \in Caller : caller'[d].floor <= source'
        BY <1>9, <3>1 DEF WriteSource
    <3>5. SourceAsRead'
        BY <1>9, <3>1, <3>2, <3>3, <3>4 DEF WriteSource
    <3>6. EntryFresh'
        BY <1>9, <3>1 DEF WriteSource
    <3>7. QED
        BY <2>2, <3>5, <3>6
  <2>5. QED
      BY <2>3, <2>4
<1>10. ASSUME NEW c \in Caller, Set(c)
      PROVE  FreshInv'
    BY <1>10 DEF Set, Puts, Finishes, Returns
<1>11. ASSUME NEW c \in Caller, Delete(c)
      PROVE  FreshInv'
    BY <1>11 DEF Delete, GoesAway, Finishes, Returns
<1>12. ASSUME NEW c \in Caller, WriteFails(c)
      PROVE  FreshInv'
    BY <1>12 DEF WriteFails, Fault, Returns
<1>13. ASSUME NEW c \in Caller, NXRefused(c)
      PROVE  FreshInv'
    BY <1>13 DEF NXRefused, Returns
<1>14. ASSUME NEW c \in Caller, NXCheck(c)
      PROVE  FreshInv'
    BY <1>14 DEF NXCheck, Fresh
<1>15. ASSUME NEW c \in Caller, NXSet(c)
      PROVE  FreshInv'
    BY <1>15 DEF NXSet, Returns
<1>18. ASSUME NEW c \in Caller, NXFails(c)
      PROVE  FreshInv'
    BY <1>18 DEF NXFails, Returns, Fault
<1>16. CASE UNCHANGED cacheVars
    BY <1>16 DEF cacheVars
<1>17. QED
    BY <1>1, <1>2, <1>3, <1>4, <1>5, <1>6, <1>7, <1>8,
       <1>9, <1>10, <1>11, <1>12, <1>13, <1>14, <1>15, <1>16, <1>18 DEF CacheNext, Flies

(* The invariants hold of a new cache.                                     *)
LEMMA InitStored == CacheInit => StoreInv /\ FreshInv
<1> SUFFICES ASSUME CacheInit
             PROVE  StoreInv /\ FreshInv
    OBVIOUS
<1> USE Values, Markers DEF CacheInit, Fresh, Missed
<1>1. Fresh \in CallState
    BY DEF CallState
<1>2. CacheTypeOK
  <2>1. caller \in [Caller -> CallState]
      BY <1>1
  <2>2. degrade \in BOOLEAN /\ crossed \in BOOLEAN
      OBVIOUS
  <2>3. source \in Version /\ cached = None /\ flight = None /\ nxLock = None
      OBVIOUS
  <2>4. /\ settled \in Version /\ faults \in 0..MaxFaults
        /\ takes \in 0..MaxTakes /\ wins \in 0..MaxTakes
      OBVIOUS
  <2>5. QED
      BY <2>1, <2>2, <2>3, <2>4, Zenon DEF CacheTypeOK
<1>3. Carried /\ StripeHeld /\ Led /\ SourceAsRead /\ EntryFresh
    BY DEF Carried, StripeHeld, Led, SourceAsRead, EntryFresh
<1>4. QED
    BY <1>2, <1>3 DEF StoreInv, FreshInv

(* Of the SetNX calls that find a key absent one returns true until the    *)
(* entry is away again, although Get, Set and Delete of others do not take *)
(* the stripe's lock: the check and the set of two SetNX never interleave. *)
THEOREM TakersExclude == CacheSpec => []OneWinner
<1>1. StoreInv /\ [CacheNext]_cacheVars => StoreInv'
    BY StepStored
<1>2. StoreInv => OneWinner
    BY DEF StoreInv, StripeHeld, OneWinner
<1>3. QED
    BY InitStored, <1>1, <1>2, PTL DEF CacheSpec

(* Readers see the last version a writer finished with or a newer one,     *)
(* unless a change of the source crossed a Get that had missed or another  *)
(* writer, or a writer was told that its call failed.                      *)
THEOREM StaleByCrossingOnly == CacheSpec => []StaleExplained
<1>1. StoreInv /\ [CacheNext]_cacheVars => StoreInv'
    BY StepStored
<1>2. StoreInv /\ FreshInv /\ [CacheNext]_cacheVars => FreshInv'
    BY StepFresh
<1>3. StoreInv /\ FreshInv => StaleExplained
    BY Values DEF StoreInv, CacheTypeOK, FreshInv, SourceAsRead, EntryFresh, StaleExplained
<1>4. QED
    BY InitStored, <1>1, <1>2, <1>3, PTL DEF CacheSpec
=============================================================================
