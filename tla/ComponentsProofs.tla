--------------------------- MODULE ComponentsProofs ---------------------------
(***************************************************************************)
(* Every component step preserves SingleOwner, for any set of components,  *)
(* any declaration list and any number of mounting goroutines.             *)
(***************************************************************************)
EXTENDS Components, SequenceTheorems, TLAPS

-----------------------------------------------------------------------------
(* What the three list updates of the code do to the elements of a list.   *)

LEMMA EmptyFacts == ToSet(<<>>) = {} /\ Len(<<>>) = 0
  BY DEF ToSet

(* append(started, c): one more element, no duplicate if c is new to it.   *)
LEMMA AppendFacts ==
    ASSUME NEW S, NEW s \in Seq(S), NEW e \in S
    PROVE  /\ Append(s, e) \in Seq(S)
           /\ ToSet(Append(s, e)) = ToSet(s) \cup {e}
           /\ NoDuplicates(s) /\ e \notin ToSet(s) => NoDuplicates(Append(s, e))
<1>1. /\ Append(s, e) \in Seq(S)
      /\ Len(Append(s, e)) = Len(s) + 1
      /\ \A i \in 1..Len(s) : Append(s, e)[i] = s[i]
      /\ Append(s, e)[Len(s) + 1] = e
      /\ Len(s) \in Nat
  BY AppendProperties, LenProperties
<1>2. ToSet(Append(s, e)) = {Append(s, e)[i] : i \in 1..Len(s) + 1}
  BY <1>1 DEF ToSet
<1>3. ToSet(s) = {s[i] : i \in 1..Len(s)}
  BY LenProperties DEF ToSet
<1>4. ToSet(Append(s, e)) = ToSet(s) \cup {e}
  <2>1. 1..Len(s) + 1 = (1..Len(s)) \cup {Len(s) + 1}
    BY <1>1
  <2>2. QED
    BY <1>1, <1>2, <1>3, <2>1
<1>5. ASSUME NoDuplicates(s), e \notin ToSet(s)
      PROVE  NoDuplicates(Append(s, e))
  <2>1. \A i \in 1..Len(s) : s[i] # e
    BY <1>5, <1>3
  <2>2. QED
    BY <1>1, <1>5, <2>1 DEF NoDuplicates
<1>6. QED
  BY <1>1, <1>4, <1>5

(* started[:idx] ++ started[idx+1:]: what stood before idx stays, what     *)
(* stood after it moves down by one.                                       *)
LEMMA RemoveAtShape ==
    ASSUME NEW S, NEW s \in Seq(S), NEW k \in 1..Len(s)
    PROVE  /\ RemoveAt(s, k) \in Seq(S)
           /\ Len(RemoveAt(s, k)) = Len(s) - 1
           /\ \A i \in 1..Len(s) - 1 : RemoveAt(s, k)[i] = IF i < k THEN s[i] ELSE s[i + 1]
<1> DEFINE r == RemoveAt(s, k)
<1>a. Len(s) \in Nat /\ k \in Int /\ 1 <= k /\ k <= Len(s)
  BY LenProperties
<1>0. Len(s) \in Nat /\ s \in [1..Len(s) -> S] /\ DOMAIN s = 1..Len(s)
  BY LenProperties
<1> DEFINE lo == SubSeq(s, 1, k - 1)
           hi == SubSeq(s, k + 1, Len(s))
<1>1. /\ lo \in Seq(S)
      /\ Len(lo) = k - 1
      /\ \A i \in 1..k - 1 : lo[i] = s[i]
  BY <1>0, SubSeqProperties
<1>2. /\ hi \in Seq(S)
      /\ Len(hi) = Len(s) - k
      /\ \A i \in 1..Len(s) - k : hi[i] = s[k + i]
  <2>1. \A i \in k + 1..Len(s) : s[i] \in S
    BY <1>0
  <2>2. /\ hi \in Seq(S)
        /\ Len(hi) = IF k + 1 <= Len(s) THEN Len(s) - (k + 1) + 1 ELSE 0
        /\ \A i \in 1..Len(s) - (k + 1) + 1 : hi[i] = s[k + 1 + i - 1]
    BY <1>0, <2>1, SubSeqProperties
  <2> HIDE DEF hi
  <2>3. k \in Nat /\ k <= Len(s) /\ Len(s) - (k + 1) + 1 = Len(s) - k
    BY <1>0
  <2>4. Len(hi) = Len(s) - k
    <3>1. CASE k + 1 <= Len(s)
      BY <2>2, <2>3, <3>1
    <3>2. CASE ~(k + 1 <= Len(s))
      <4>1. k = Len(s) /\ Len(s) - k = 0
        BY <1>a, <3>2
      <4>2. Len(hi) = 0
        BY <2>2, <3>2
      <4>3. QED
        BY <4>1, <4>2
    <3>3. QED
      BY <3>1, <3>2
  <2>5. ASSUME NEW i \in 1..Len(s) - k
        PROVE  hi[i] = s[k + i]
    <3>1. i \in 1..Len(s) - (k + 1) + 1 /\ k + 1 + i - 1 = k + i
      BY <1>0
    <3>2. QED
      BY <2>2, <3>1
  <2>6. QED
    BY <2>2, <2>4, <2>5
<1>3. r = lo \o hi
  BY DEF RemoveAt
<1> HIDE DEF lo, hi, r
<1>4. /\ lo \o hi \in Seq(S)
      /\ Len(lo \o hi) = Len(lo) + Len(hi)
      /\ \A i \in 1..Len(lo) + Len(hi) : (lo \o hi)[i] =
             IF i <= Len(lo) THEN lo[i] ELSE hi[i - Len(lo)]
  BY <1>1, <1>2, ConcatProperties
<1>5. Len(r) = Len(s) - 1
  BY <1>1, <1>2, <1>3, <1>4, <1>0
<1>6. ASSUME NEW i \in 1..Len(s) - 1
      PROVE  r[i] = IF i < k THEN s[i] ELSE s[i + 1]
  <2>1. CASE i < k
    BY <1>1, <1>2, <1>3, <1>4, <1>0, <2>1
  <2>2. CASE ~(i < k)
    <3>1. i - (k - 1) \in 1..Len(s) - k /\ k + (i - (k - 1)) = i + 1
      BY <1>0, <2>2
    <3>2. i \in 1..Len(lo) + Len(hi) /\ ~(i <= Len(lo)) /\ i - Len(lo) = i - (k - 1)
      BY <1>1, <1>2, <1>0, <2>2
    <3>3. r[i] = hi[i - (k - 1)]
      BY <1>3, <1>4, <3>2
    <3>4. hi[i - (k - 1)] = s[k + (i - (k - 1))]
      BY <1>2, <3>1
    <3>5. QED
      BY <2>2, <3>1, <3>3, <3>4
  <2>3. QED
    BY <2>1, <2>2
<1>7. QED
  BY <1>3, <1>4, <1>5, <1>6 DEF r

(* Without duplicates, exactly one element goes.                           *)
LEMMA RemoveAtFacts ==
    ASSUME NEW S, NEW s \in Seq(S), NEW k \in 1..Len(s), NoDuplicates(s)
    PROVE  /\ RemoveAt(s, k) \in Seq(S)
           /\ ToSet(RemoveAt(s, k)) = ToSet(s) \ {s[k]}
           /\ NoDuplicates(RemoveAt(s, k))
<1> DEFINE r == RemoveAt(s, k)
<1>0. Len(s) \in Nat /\ s \in [1..Len(s) -> S] /\ DOMAIN s = 1..Len(s)
  BY LenProperties
<1>1. /\ r \in Seq(S)
      /\ Len(r) = Len(s) - 1
      /\ \A i \in 1..Len(s) - 1 : r[i] = IF i < k THEN s[i] ELSE s[i + 1]
  BY RemoveAtShape
<1> HIDE DEF r
<1>2. DOMAIN r = 1..Len(s) - 1
  BY <1>1, LenProperties
<1>3. ToSet(r) = ToSet(s) \ {s[k]}
  <2>1. ASSUME NEW i \in 1..Len(s) - 1
        PROVE  r[i] \in ToSet(s) \ {s[k]}
    <3>1. PICK j \in 1..Len(s) : j # k /\ r[i] = s[j]
      <4>1. CASE i < k
        BY <1>0, <1>1, <4>1
      <4>2. CASE ~(i < k)
        BY <1>0, <1>1, <4>2
      <4>3. QED
        BY <4>1, <4>2
    <3>2. QED
      BY <1>0, <3>1 DEF ToSet, NoDuplicates
  <2>2. ASSUME NEW j \in 1..Len(s), j # k
        PROVE  s[j] \in ToSet(r)
    <3>1. CASE j < k
      BY <1>0, <1>1, <1>2, <3>1 DEF ToSet
    <3>2. CASE j > k
      <4>1. j - 1 \in 1..Len(s) - 1 /\ r[j - 1] = s[j]
        BY <1>0, <1>1, <3>2
      <4>2. QED
        BY <4>1, <1>2 DEF ToSet
    <3>3. QED
      BY <1>0, <2>2, <3>1, <3>2
  <2>3. QED
    BY <1>0, <1>2, <2>1, <2>2 DEF ToSet
<1>4. NoDuplicates(r)
  BY <1>0, <1>1 DEF NoDuplicates
<1>5. QED
  BY <1>1, <1>3, <1>4 DEF r

(* The walk of disposeComponents takes the last entry off its snapshot.    *)
LEMMA FrontShape ==
    ASSUME NEW S, NEW s \in Seq(S), s # <<>>
    PROVE  /\ Len(s) \in Nat \ {0}
           /\ s \in [1..Len(s) -> S] /\ DOMAIN s = 1..Len(s)
           /\ Front(s) \in Seq(S)
           /\ Len(Front(s)) = Len(s) - 1
           /\ \A i \in 1..Len(s) - 1 : Front(s)[i] = s[i]
           /\ Last(s) = s[Len(s)] /\ Last(s) \in S
<1>1. /\ Len(s) \in Nat \ {0}
      /\ s \in [1..Len(s) -> S] /\ DOMAIN s = 1..Len(s)
  BY LenProperties, EmptySeq
<1>2. /\ Front(s) \in Seq(S)
      /\ Len(Front(s)) = Len(s) - 1
      /\ \A i \in 1..Len(s) - 1 : Front(s)[i] = s[i]
  BY <1>1, SubSeqProperties DEF Front
<1>3. QED
  BY <1>1, <1>2 DEF Last

LEMMA FrontFacts ==
    ASSUME NEW S, NEW s \in Seq(S), s # <<>>, NoDuplicates(s)
    PROVE  /\ Front(s) \in Seq(S)
           /\ Last(s) \in ToSet(s)
           /\ Last(s) \in S
           /\ ToSet(Front(s)) = ToSet(s) \ {Last(s)}
           /\ NoDuplicates(Front(s))
<1>0. /\ Len(s) \in Nat \ {0}
      /\ s \in [1..Len(s) -> S] /\ DOMAIN s = 1..Len(s)
  BY FrontShape
<1>1. /\ Front(s) \in Seq(S)
      /\ Len(Front(s)) = Len(s) - 1
      /\ \A i \in 1..Len(s) - 1 : Front(s)[i] = s[i]
  BY FrontShape
<1>2. DOMAIN Front(s) = 1..Len(s) - 1
  BY <1>1, LenProperties
<1>3. Last(s) = s[Len(s)] /\ Len(s) \in DOMAIN s
  BY <1>0 DEF Last
<1>4. ToSet(Front(s)) = ToSet(s) \ {Last(s)}
  <2>1. ASSUME NEW i \in 1..Len(s) - 1
        PROVE  Front(s)[i] \in ToSet(s) \ {Last(s)}
    BY <1>0, <1>1, <1>3 DEF ToSet, NoDuplicates
  <2>2. ASSUME NEW j \in 1..Len(s), s[j] # Last(s)
        PROVE  s[j] \in ToSet(Front(s))
    BY <1>0, <1>1, <1>2, <1>3, <2>2 DEF ToSet
  <2>3. QED
    BY <1>0, <1>2, <2>1, <2>2 DEF ToSet
<1>5. NoDuplicates(Front(s))
  BY <1>0, <1>1 DEF NoDuplicates
<1>6. Last(s) \in ToSet(s) /\ Last(s) \in S
  BY <1>0, <1>3 DEF ToSet
<1>7. QED
  BY <1>1, <1>4, <1>5, <1>6

-----------------------------------------------------------------------------
(* The inductive invariant holds initially: nothing is started.            *)
LEMMA CompInitOK == CompInit => CompIInv
<1> SUFFICES ASSUME CompInit PROVE CompIInv
  OBVIOUS
<1>1. CompTypeOK
  <2>1. started \in Seq(Comp) /\ disposeQ \in Seq(Comp)
    BY EmptySeq DEF CompInit
  <2>2. comp \in [Comp -> CompStatus]
    BY DEF CompInit, CompStatus
  <2>3. at \in [Mounter -> MounterAt] /\ arg \in [Mounter -> Comp \cup {NoComp}]
    BY DEF CompInit, MounterAt
  <2>4. disposed \in BOOLEAN
    BY DEF CompInit
  <2>5. nextComp \in Nat \ {0}
    BY DEF CompInit
  <2>6. QED
    BY <2>1, <2>2, <2>3, <2>4, <2>5 DEF CompTypeOK
<1>2. ToSet(started) = {} /\ ToSet(disposeQ) = {} /\ Len(started) = 0 /\ Len(disposeQ) = 0
  BY DEF CompInit, ToSet
<1>3. SingleOwner
  BY <1>2 DEF CompInit, SingleOwner, Owned, InHand, NoDuplicates
<1>4. MountersConsistent
  <2>1. \A i \in 1..Len(Declared) : Declared[i] \in Comp
    BY CompAssumption, ElementOfSeq
  <2>2. QED
    BY <2>1 DEF CompInit, MountersConsistent
<1>5. QED
  BY <1>1, <1>3, <1>4 DEF CompIInv

(* What the rest of a declaration list looks like.                         *)
LEMMA DeclaredFacts ==
    /\ Len(Declared) \in Nat
    /\ \A i \in 1..Len(Declared) : Declared[i] \in Comp /\ Declared[i] \in ToSet(Declared)
    /\ \A i, j \in 1..Len(Declared) : Declared[i] = Declared[j] => i = j
  BY CompAssumption, ElementOfSeq, LenProperties DEF ToSet

LEMMA StartComponentOK == CompIInv /\ StartComponent => CompIInv'
<1> SUFFICES ASSUME CompIInv, StartComponent PROVE CompIInv'
  OBVIOUS
<1> USE DEF CompIInv
<1> DEFINE c == Declared[nextComp]
<1>1. /\ c \in Comp /\ c \in ToSet(Declared)
      /\ comp[c] = "new"
      /\ nextComp \in 1..Len(Declared)
  BY DeclaredFacts DEF StartComponent, CompTypeOK, MountersConsistent
<1>2. c \notin ToSet(started) /\ c \notin ToSet(disposeQ) /\ ~Owned(c)
  BY <1>1 DEF SingleOwner, Owned
<1>3. /\ started' \in Seq(Comp)
      /\ ToSet(started') = ToSet(started) \cup {c}
      /\ NoDuplicates(started')
  BY <1>1, <1>2, AppendFacts DEF StartComponent, CompTypeOK, SingleOwner
<1>4. comp' \in [Comp -> CompStatus] /\ comp'[c] = "live"
      /\ \A x \in Comp : x # c => comp'[x] = comp[x]
  BY <1>1 DEF StartComponent, CompTypeOK, CompStatus
<1>5. UNCHANGED <<disposed, disposeQ, at, arg>> /\ nextComp' = nextComp + 1
  BY DEF StartComponent
<1> HIDE DEF c
<1>6. CompTypeOK'
  BY <1>3, <1>4, <1>5 DEF CompTypeOK
<1>7. SingleOwner'
  <2>1. \A m \in Mounter : InHand(m)' <=> InHand(m)
    BY <1>5 DEF InHand
  <2>2. \A m \in Mounter : InHand(m) => arg[m] # c
    BY <1>2 DEF Owned
  <2>3. \A x \in Comp : Owned(x)' <=> (Owned(x) \/ x = c)
    BY <1>3, <1>5, <2>1 DEF Owned
  <2>4. QED
    BY <1>2, <1>3, <1>4, <1>5, <2>1, <2>2, <2>3 DEF SingleOwner
<1>8. MountersConsistent'
  <2>1. \A m \in Mounter : at[m] = "starting" => arg[m] # c /\ arg[m] \in Comp
    BY <1>1, CompAssumption DEF MountersConsistent, CompTypeOK
  <2>2. \A i \in nextComp + 1..Len(Declared) : Declared[i] # c /\ comp[Declared[i]] = "new" /\ Declared[i] \in Comp
    BY <1>1, DeclaredFacts DEF MountersConsistent, c
  <2>3. QED
    BY <1>1, <1>4, <1>5, <2>1, <2>2 DEF MountersConsistent
<1>9. QED
  BY <1>6, <1>7, <1>8

LEMMA BeginDisposeOK == CompIInv /\ BeginDispose /\ disposeQ = <<>> => CompIInv'
<1> SUFFICES ASSUME CompIInv, BeginDispose, disposeQ = <<>> PROVE CompIInv'
  OBVIOUS
<1> USE DEF CompIInv
<1>1. ToSet(<<>>) = {} /\ NoDuplicates(<<>>) /\ <<>> \in Seq(Comp)
  BY EmptySeq DEF ToSet, NoDuplicates
<1>2. UNCHANGED <<comp, nextComp, at, arg>>
  BY DEF BeginDispose
<1>3. \/ started' = <<>> /\ disposeQ' = started
      \/ started' = started /\ disposeQ' = <<>>
  BY DEF BeginDispose
<1>4. CompTypeOK'
  BY <1>1, <1>2, <1>3 DEF CompTypeOK, BeginDispose
<1>5. SingleOwner'
  BY <1>1, <1>2, <1>3 DEF SingleOwner, Owned, InHand
<1>6. MountersConsistent'
  BY <1>2 DEF MountersConsistent
<1>7. QED
  BY <1>4, <1>5, <1>6

LEMMA DisposeComponentOK == CompIInv /\ DisposeComponent => CompIInv'
<1> SUFFICES ASSUME CompIInv, DisposeComponent PROVE CompIInv'
  OBVIOUS
<1> USE DEF CompIInv
<1> DEFINE c == Last(disposeQ)
<1>1. /\ disposeQ' \in Seq(Comp)
      /\ c \in ToSet(disposeQ)
      /\ c \in Comp
      /\ ToSet(disposeQ') = ToSet(disposeQ) \ {c}
      /\ NoDuplicates(disposeQ')
  BY FrontFacts DEF DisposeComponent, CompTypeOK, SingleOwner
<1>2. comp[c] = "live"
  BY <1>1 DEF SingleOwner, Owned
<1>3. comp' \in [Comp -> CompStatus] /\ comp'[c] = "gone"
      /\ \A x \in Comp : x # c => comp'[x] = comp[x]
  BY <1>1 DEF DisposeComponent, CompTypeOK, CompStatus
<1>4. UNCHANGED <<started, disposed, nextComp, at, arg>>
  BY DEF DisposeComponent
<1> HIDE DEF c
<1>5. CompTypeOK'
  BY <1>1, <1>3, <1>4 DEF CompTypeOK
<1>6. SingleOwner'
  <2>1. \A m \in Mounter : InHand(m)' <=> InHand(m)
    BY <1>4 DEF InHand
  <2>2. \A m \in Mounter : InHand(m) => arg[m] # c
    BY <1>1 DEF SingleOwner
  <2>3. c \notin ToSet(started)
    BY <1>1 DEF SingleOwner
  <2>4. \A x \in Comp : Owned(x)' <=> (Owned(x) /\ x # c)
    BY <1>1, <1>4, <2>1, <2>2, <2>3 DEF Owned
  <2>5. QED
    BY <1>1, <1>3, <1>4, <2>1, <2>4 DEF SingleOwner
<1>7. MountersConsistent'
  <2>1. \A m \in Mounter : at[m] = "starting" => arg[m] # c /\ arg[m] \in Comp
    BY <1>2, CompAssumption DEF MountersConsistent, CompTypeOK
  <2>2. \A i \in nextComp..Len(Declared) : Declared[i] # c /\ Declared[i] \in Comp
    BY <1>2, DeclaredFacts DEF MountersConsistent, CompTypeOK
  <2>3. QED
    BY <1>3, <1>4, <2>1, <2>2 DEF MountersConsistent
<1>8. QED
  BY <1>5, <1>6, <1>7

-----------------------------------------------------------------------------
(* The mounters.                                                           *)

LEMMA MountCheckOK ==
    ASSUME NEW m \in Mounter, NEW c \in Comp, CompIInv, MountCheck(m, c)
    PROVE  CompIInv'
<1> USE DEF CompIInv
<1>1. /\ at' \in [Mounter -> MounterAt] /\ at'[m] = "starting"
      /\ \A n \in Mounter : n # m => at'[n] = at[n]
      /\ arg' \in [Mounter -> Comp \cup {NoComp}] /\ arg'[m] = c
      /\ \A n \in Mounter : n # m => arg'[n] = arg[n]
  BY DEF MountCheck, CompTypeOK, MounterAt
<1>2. UNCHANGED <<comp, started, disposed, disposeQ, nextComp>> /\ at[m] = "idle"
  BY DEF MountCheck
<1>3. comp[c] = "new" /\ c \notin ToSet(Declared) /\ \A n \in Mounter : arg[n] # c
  BY DEF MountCheck, Fresh
<1>4. c # NoComp
  BY CompAssumption
<1>5. CompTypeOK'
  BY <1>1, <1>2 DEF CompTypeOK
<1>6. SingleOwner'
  <2>1. \A n \in Mounter : (InHand(n)' <=> InHand(n)) /\ (InHand(n) => arg'[n] = arg[n])
    BY <1>1, <1>2 DEF InHand
  <2>2. \A x \in Comp : Owned(x)' <=> Owned(x)
    BY <1>2, <2>1 DEF Owned
  <2>3. \A k, n \in Mounter : InHand(k) /\ arg'[k] = arg'[n] => k = n
    <3>1. SUFFICES ASSUME NEW k \in Mounter, NEW n \in Mounter, InHand(k), arg'[k] = arg'[n]
                   PROVE  k = n
      OBVIOUS
    <3>2. k # m
      BY <3>1, <1>2 DEF InHand
    <3>3. CASE n = m
      BY <1>1, <1>3, <3>1, <3>2, <3>3
    <3>4. CASE n # m
      BY <1>1, <3>1, <3>2, <3>4 DEF SingleOwner
    <3>5. QED
      BY <3>3, <3>4
  <2>4. QED
    BY <1>2, <2>1, <2>2, <2>3 DEF SingleOwner
<1>7. MountersConsistent'
  <2>1. \A n \in Mounter : at'[n] = "idle" <=> arg'[n] = NoComp
    BY <1>1, <1>4 DEF MountersConsistent
  <2>2. \A n \in Mounter : at'[n] = "starting" => comp[arg'[n]] = "new" /\ arg'[n] \notin ToSet(Declared)
    BY <1>1, <1>3 DEF MountersConsistent
  <2>3. \A k, n \in Mounter : at'[k] # "idle" /\ arg'[k] = arg'[n] => k = n
    BY <1>1, <1>3 DEF MountersConsistent
  <2>4. QED
    BY <1>2, <2>1, <2>2, <2>3 DEF MountersConsistent
<1>8. QED
  BY <1>5, <1>6, <1>7

LEMMA MountStartOK ==
    ASSUME NEW m \in Mounter, CompIInv, MountStart(m)
    PROVE  CompIInv'
<1> USE DEF CompIInv
<1> DEFINE c == arg[m]
<1>1. /\ at[m] = "starting" /\ c \in Comp /\ comp[c] = "new" /\ c \notin ToSet(Declared)
  BY DEF MountStart, CompTypeOK, MountersConsistent
<1>2. /\ at' \in [Mounter -> MounterAt] /\ at'[m] = "started"
      /\ \A n \in Mounter : n # m => at'[n] = at[n]
  BY DEF MountStart, CompTypeOK, MounterAt
<1>3. comp' \in [Comp -> CompStatus] /\ comp'[c] = "live"
      /\ \A x \in Comp : x # c => comp'[x] = comp[x]
  BY <1>1 DEF MountStart, CompTypeOK, CompStatus
<1>4. UNCHANGED <<started, disposed, disposeQ, nextComp, arg>>
  BY DEF MountStart
<1>5. ~Owned(c)
  BY <1>1 DEF SingleOwner
<1>6. \A n \in Mounter : n # m => arg[n] # c
  BY <1>1 DEF MountersConsistent
<1> HIDE DEF c
<1>7. CompTypeOK'
  BY <1>2, <1>3, <1>4 DEF CompTypeOK
<1>8. SingleOwner'
  <2>1. \A n \in Mounter : InHand(n)' <=> (InHand(n) \/ n = m)
    BY <1>2 DEF InHand
  <2>2. \A x \in Comp : Owned(x)' <=> (Owned(x) \/ x = c)
    BY <1>4, <2>1 DEF Owned, c
  <2>3. c \notin ToSet(started) /\ c \notin ToSet(disposeQ)
    BY <1>5 DEF Owned
  <2>4. QED
    BY <1>3, <1>4, <1>5, <1>6, <2>1, <2>2, <2>3 DEF SingleOwner, c
<1>9. MountersConsistent'
  <2>1. \A n \in Mounter : at'[n] = "starting" => n # m /\ at[n] = "starting" /\ arg[n] \in Comp /\ arg[n] # c
    BY <1>2, <1>6, CompAssumption DEF MountersConsistent, CompTypeOK
  <2>2. \A i \in nextComp..Len(Declared) : Declared[i] # c /\ Declared[i] \in Comp
    BY <1>1, DeclaredFacts DEF CompTypeOK
  <2>3. \A n \in Mounter : (at'[n] = "idle" <=> at[n] = "idle")
    BY <1>1, <1>2
  <2>4. QED
    BY <1>3, <1>4, <2>1, <2>2, <2>3 DEF MountersConsistent
<1>10. QED
  BY <1>7, <1>8, <1>9

(* A mounter that lets go of what it holds, whatever else happens.         *)
LEMMA LetGoFacts ==
    ASSUME NEW m \in Mounter, CompTypeOK,
           at' = [at EXCEPT ![m] = "idle"], arg' = [arg EXCEPT ![m] = NoComp]
    PROVE  /\ at' \in [Mounter -> MounterAt] /\ at'[m] = "idle"
           /\ \A n \in Mounter : n # m => at'[n] = at[n]
           /\ arg' \in [Mounter -> Comp \cup {NoComp}] /\ arg'[m] = NoComp
           /\ \A n \in Mounter : n # m => arg'[n] = arg[n]
           /\ \A n \in Mounter : InHand(n)' <=> (InHand(n) /\ n # m)
  BY DEF CompTypeOK, MounterAt, InHand

LEMMA MountStartFailsOK ==
    ASSUME NEW m \in Mounter, CompIInv, MountStartFails(m)
    PROVE  CompIInv'
<1> USE DEF CompIInv
<1>1. /\ at' \in [Mounter -> MounterAt] /\ at'[m] = "idle"
      /\ \A n \in Mounter : n # m => at'[n] = at[n]
      /\ arg' \in [Mounter -> Comp \cup {NoComp}] /\ arg'[m] = NoComp
      /\ \A n \in Mounter : n # m => arg'[n] = arg[n]
      /\ \A n \in Mounter : InHand(n)' <=> (InHand(n) /\ n # m)
  BY LetGoFacts DEF MountStartFails
<1>2. UNCHANGED <<comp, started, disposed, disposeQ, nextComp>> /\ ~InHand(m)
  BY DEF MountStartFails, InHand
<1>3. CompTypeOK'
  BY <1>1, <1>2 DEF CompTypeOK
<1>4. SingleOwner'
  <2>1. \A n \in Mounter : (InHand(n)' <=> InHand(n)) /\ (InHand(n) => arg'[n] = arg[n] /\ arg[n] \in Comp)
    BY <1>1, <1>2, CompAssumption DEF MountersConsistent, CompTypeOK, InHand
  <2>2. \A x \in Comp : Owned(x)' <=> Owned(x)
    BY <1>2, <2>1 DEF Owned
  <2>3. \A k, n \in Mounter : InHand(k) /\ arg'[k] = arg'[n] => k = n
    BY <1>1, <1>2, <2>1, CompAssumption DEF SingleOwner
  <2>4. QED
    BY <1>2, <2>1, <2>2, <2>3 DEF SingleOwner
<1>5. MountersConsistent'
  BY <1>1, <1>2 DEF MountersConsistent
<1>6. QED
  BY <1>3, <1>4, <1>5

LEMMA MountCommitOK ==
    ASSUME NEW m \in Mounter, CompIInv, MountCommit(m)
    PROVE  CompIInv'
<1> USE DEF CompIInv
<1> DEFINE c == arg[m]
<1>1. /\ at' \in [Mounter -> MounterAt] /\ at'[m] = "idle"
      /\ \A n \in Mounter : n # m => at'[n] = at[n]
      /\ arg' \in [Mounter -> Comp \cup {NoComp}] /\ arg'[m] = NoComp
      /\ \A n \in Mounter : n # m => arg'[n] = arg[n]
      /\ \A n \in Mounter : InHand(n)' <=> (InHand(n) /\ n # m)
  BY LetGoFacts DEF MountCommit
<1>2. UNCHANGED <<comp, disposed, disposeQ, nextComp>>
  BY DEF MountCommit
<1>3. InHand(m) /\ c \in Comp /\ c # NoComp
  BY CompAssumption DEF MountCommit, InHand, CompTypeOK, MountersConsistent
<1>4. c \notin ToSet(started) /\ c \notin ToSet(disposeQ)
  BY <1>3 DEF SingleOwner
<1>5. \A n \in Mounter : n # m => arg[n] # c
  BY <1>3 DEF SingleOwner
<1>6. /\ started' \in Seq(Comp)
      /\ ToSet(started') = ToSet(started) \cup {c}
      /\ NoDuplicates(started')
  BY <1>3, <1>4, AppendFacts DEF MountCommit, CompTypeOK, SingleOwner
<1> HIDE DEF c
<1>7. CompTypeOK'
  BY <1>1, <1>2, <1>6 DEF CompTypeOK
<1>8. SingleOwner'
  <2>1. \A n \in Mounter : InHand(n)' => InHand(n) /\ n # m /\ arg'[n] = arg[n] /\ arg[n] \in Comp
    BY <1>1, CompAssumption DEF MountersConsistent, CompTypeOK, InHand
  <2>2. \A x \in Comp : Owned(x)' <=> Owned(x)
    BY <1>1, <1>2, <1>3, <1>6, <2>1 DEF Owned, c
  <2>3. \A k, n \in Mounter : InHand(k)' /\ arg'[k] = arg'[n] => k = n
    BY <1>1, <2>1, CompAssumption DEF SingleOwner
  <2>4. QED
    BY <1>2, <1>4, <1>5, <1>6, <2>1, <2>2, <2>3 DEF SingleOwner
<1>9. MountersConsistent'
  BY <1>1, <1>2 DEF MountersConsistent
<1>10. QED
  BY <1>7, <1>8, <1>9

LEMMA MountRefuseOK ==
    ASSUME NEW m \in Mounter, CompIInv, MountRefuse(m)
    PROVE  CompIInv'
<1> USE DEF CompIInv
<1>1. /\ at' \in [Mounter -> MounterAt] /\ at'[m] = "refused" /\ at[m] = "started"
      /\ \A n \in Mounter : n # m => at'[n] = at[n]
  BY DEF MountRefuse, CompTypeOK, MounterAt
<1>2. UNCHANGED <<comp, started, disposed, disposeQ, nextComp, arg>>
  BY DEF MountRefuse
<1>3. \A n \in Mounter : InHand(n)' <=> InHand(n)
  BY <1>1 DEF InHand
<1>4. CompTypeOK'
  BY <1>1, <1>2 DEF CompTypeOK
<1>5. SingleOwner'
  <2>1. \A x \in Comp : Owned(x)' <=> Owned(x)
    BY <1>2, <1>3 DEF Owned
  <2>2. QED
    BY <1>2, <1>3, <2>1 DEF SingleOwner
<1>6. MountersConsistent'
  BY <1>1, <1>2 DEF MountersConsistent
<1>7. QED
  BY <1>4, <1>5, <1>6

LEMMA UnmountTakeOK ==
    ASSUME NEW m \in Mounter, NEW c \in Comp, CompIInv, UnmountTake(m, c)
    PROVE  CompIInv'
<1> USE DEF CompIInv
<1>1. /\ at' \in [Mounter -> MounterAt] /\ at'[m] = "unmounting" /\ at[m] = "idle"
      /\ \A n \in Mounter : n # m => at'[n] = at[n]
      /\ arg' \in [Mounter -> Comp \cup {NoComp}] /\ arg'[m] = c
      /\ \A n \in Mounter : n # m => arg'[n] = arg[n]
  BY DEF UnmountTake, CompTypeOK, MounterAt
<1>2. UNCHANGED <<comp, disposed, disposeQ, nextComp>>
  BY DEF UnmountTake
<1>3. PICK i \in 1..Len(started) : started[i] = c /\ started' = RemoveAt(started, i)
  BY DEF UnmountTake
<1>4. /\ started' \in Seq(Comp)
      /\ ToSet(started') = ToSet(started) \ {c}
      /\ NoDuplicates(started')
  BY <1>3, RemoveAtFacts DEF CompTypeOK, SingleOwner
<1>5. c \in ToSet(started)
  BY <1>3, LenProperties DEF ToSet, CompTypeOK
<1>6. /\ c \notin ToSet(disposeQ) /\ comp[c] = "live" /\ c # NoComp
      /\ c \notin ToSet(Declared) \/ \A j \in nextComp..Len(Declared) : Declared[j] # c
  <2>1. c \notin ToSet(disposeQ)
    BY <1>5 DEF SingleOwner
  <2>2. comp[c] = "live"
    BY <1>5 DEF SingleOwner, Owned
  <2>3. QED
    BY <2>1, <2>2, CompAssumption DEF MountersConsistent
<1>7. \A n \in Mounter : at[n] # "idle" => arg[n] # c
  BY <1>5, <1>6 DEF SingleOwner, InHand, MountersConsistent, CompTypeOK, MounterAt
<1>8. \A n \in Mounter : InHand(n)' <=> (InHand(n) \/ n = m)
  BY <1>1 DEF InHand
<1>9. CompTypeOK'
  BY <1>1, <1>2, <1>4 DEF CompTypeOK
<1>10. \A k, n \in Mounter : at'[k] # "idle" /\ arg'[k] = arg'[n] => k = n
  <2>1. SUFFICES ASSUME NEW k \in Mounter, NEW n \in Mounter,
                        at'[k] # "idle", arg'[k] = arg'[n], k # n
                 PROVE  FALSE
    OBVIOUS
  <2>2. \A x \in Mounter : arg[x] = c => x = m
    BY <1>6, <1>7 DEF MountersConsistent
  <2>3. k # m /\ n # m
    BY <1>1, <2>1, <2>2
  <2>4. QED
    BY <1>1, <2>1, <2>3 DEF MountersConsistent
<1>11. SingleOwner'
  <2>1. \A x \in Comp : Owned(x)' <=> Owned(x)
    <3>1. SUFFICES ASSUME NEW x \in Comp PROVE Owned(x)' <=> Owned(x)
      OBVIOUS
    <3>2. CASE x = c
      BY <1>1, <1>5, <1>8, <3>2 DEF Owned
    <3>3. CASE x # c
      <4>1. \A n \in Mounter : (InHand(n)' /\ arg'[n] = x) <=> (InHand(n) /\ arg[n] = x)
        BY <1>1, <1>8, <3>3 DEF InHand
      <4>2. QED
        BY <1>2, <1>4, <3>3, <4>1 DEF Owned
    <3>4. QED
      BY <3>2, <3>3
  <2>2. \A n \in Mounter : InHand(n)' => arg'[n] \notin ToSet(started') \cup ToSet(disposeQ')
    BY <1>1, <1>2, <1>4, <1>6, <1>8 DEF SingleOwner
  <2>3. \A k, n \in Mounter : InHand(k)' /\ arg'[k] = arg'[n] => k = n
    BY <1>10 DEF InHand
  <2>4. QED
    BY <1>2, <1>4, <2>1, <2>2, <2>3 DEF SingleOwner
<1>12. MountersConsistent'
  <2>1. \A n \in Mounter : at'[n] = "idle" <=> arg'[n] = NoComp
    BY <1>1, <1>6 DEF MountersConsistent
  <2>2. \A n \in Mounter : at'[n] = "starting" => comp[arg'[n]] = "new" /\ arg'[n] \notin ToSet(Declared)
    BY <1>1 DEF MountersConsistent
  <2>3. QED
    BY <1>2, <1>10, <2>1, <2>2 DEF MountersConsistent
<1>13. QED
  BY <1>9, <1>11, <1>12

LEMMA MounterDisposeOK ==
    ASSUME NEW m \in Mounter, CompIInv, MounterDispose(m)
    PROVE  CompIInv'
<1> USE DEF CompIInv
<1> DEFINE c == arg[m]
<1>1. /\ at' \in [Mounter -> MounterAt] /\ at'[m] = "idle"
      /\ \A n \in Mounter : n # m => at'[n] = at[n]
      /\ arg' \in [Mounter -> Comp \cup {NoComp}] /\ arg'[m] = NoComp
      /\ \A n \in Mounter : n # m => arg'[n] = arg[n]
      /\ \A n \in Mounter : InHand(n)' <=> (InHand(n) /\ n # m)
  BY LetGoFacts DEF MounterDispose
<1>2. UNCHANGED <<started, disposed, disposeQ, nextComp>>
  BY DEF MounterDispose
<1>3. InHand(m) /\ at[m] # "idle" /\ c \in Comp /\ c # NoComp
  BY CompAssumption DEF MounterDispose, InHand, CompTypeOK, MountersConsistent
<1>4. c \notin ToSet(started) /\ c \notin ToSet(disposeQ) /\ comp[c] = "live"
  BY <1>3 DEF SingleOwner, Owned
<1>5. \A n \in Mounter : n # m => arg[n] # c
  BY <1>3 DEF SingleOwner
<1>6. comp' \in [Comp -> CompStatus] /\ comp'[c] = "gone"
      /\ \A x \in Comp : x # c => comp'[x] = comp[x]
  BY <1>3 DEF MounterDispose, CompTypeOK, CompStatus
<1> HIDE DEF c
<1>7. CompTypeOK'
  BY <1>1, <1>2, <1>6 DEF CompTypeOK
<1>8. SingleOwner'
  <2>1. \A n \in Mounter : InHand(n)' => InHand(n) /\ n # m /\ arg'[n] = arg[n] /\ arg[n] \in Comp
    BY <1>1, CompAssumption DEF MountersConsistent, CompTypeOK, InHand
  <2>2. \A x \in Comp : Owned(x)' <=> (Owned(x) /\ x # c)
    <3>1. SUFFICES ASSUME NEW x \in Comp PROVE Owned(x)' <=> (Owned(x) /\ x # c)
      OBVIOUS
    <3>2. (\E n \in Mounter : InHand(n)' /\ arg'[n] = x)
             <=> (\E n \in Mounter : InHand(n) /\ arg[n] = x) /\ x # c
      BY <1>1, <1>5, <2>1 DEF c
    <3>3. QED
      BY <1>2, <1>4, <3>2 DEF Owned
  <2>3. \A k, n \in Mounter : InHand(k)' /\ arg'[k] = arg'[n] => k = n
    BY <1>1, <2>1, CompAssumption DEF SingleOwner
  <2>4. \A x \in Comp : comp'[x] = "live" <=> Owned(x)'
    BY <1>6, <2>2 DEF SingleOwner
  <2>5. QED
    BY <1>2, <2>1, <2>3, <2>4 DEF SingleOwner
<1>9. MountersConsistent'
  <2>1. \A n \in Mounter : at'[n] = "starting" => n # m /\ at[n] = "starting" /\ arg'[n] = arg[n] /\ arg[n] \in Comp /\ arg[n] # c
    BY <1>1, <1>5, CompAssumption DEF MountersConsistent, CompTypeOK
  <2>2. \A i \in nextComp..Len(Declared) : Declared[i] # c /\ Declared[i] \in Comp
    BY <1>4, DeclaredFacts DEF MountersConsistent, CompTypeOK
  <2>3. QED
    BY <1>1, <1>2, <1>6, <2>1, <2>2 DEF MountersConsistent
<1>10. QED
  BY <1>7, <1>8, <1>9

(* All steps of the mounters.                                              *)
LEMMA MountersOK ==
    ASSUME NEW m \in Mounter, CompIInv, MounterCall(m) \/ MounterStep(m)
    PROVE  CompIInv'
<1>1. CASE MounterCall(m)
  BY <1>1, MountCheckOK, UnmountTakeOK DEF MounterCall
<1>2. CASE MounterStep(m)
  BY <1>2, MountStartOK, MountStartFailsOK, MountCommitOK, MountRefuseOK, MounterDisposeOK
     DEF MounterStep
<1>3. QED
  BY <1>1, <1>2

(* Steps of other parts leave the invariant alone.                         *)
LEMMA CompStutterOK == CompIInv /\ UNCHANGED compVars => CompIInv'
  BY DEF CompIInv, CompTypeOK, SingleOwner, MountersConsistent, Owned, InHand, NoDuplicates,
         compVars

-----------------------------------------------------------------------------
(* The stop sequence keeps the order of the declaration.                   *)

(* A new last element: nothing declared before it may follow it.           *)
LEMMA InOrderAppend ==
    ASSUME NEW s \in Seq(Comp), NEW e \in Comp, InOrder(s),
           \A i, k \in 1..Len(Declared) : \A p \in 1..Len(s) :
               e = Declared[i] /\ s[p] = Declared[k] => k < i
    PROVE  InOrder(Append(s, e))
<1>1. /\ Len(Append(s, e)) = Len(s) + 1 /\ Len(s) \in Nat
      /\ \A p \in 1..Len(s) : Append(s, e)[p] = s[p]
      /\ Append(s, e)[Len(s) + 1] = e
  BY AppendProperties, LenProperties
<1> SUFFICES ASSUME NEW p \in 1..Len(s) + 1, NEW q \in 1..Len(s) + 1,
                    NEW i \in 1..Len(Declared), NEW j \in 1..Len(Declared),
                    p < q, Append(s, e)[p] = Declared[i], Append(s, e)[q] = Declared[j]
             PROVE  i < j
  BY <1>1 DEF InOrder
<1>2. p \in 1..Len(s) /\ s[p] = Declared[i]
  BY <1>1
<1>3. CASE q \in 1..Len(s)
  BY <1>1, <1>2, <1>3 DEF InOrder
<1>4. CASE q = Len(s) + 1
  BY <1>1, <1>2, <1>4
<1>5. QED
  BY <1>1, <1>3, <1>4

(* One element less, wherever it stood.                                    *)
LEMMA InOrderRemoveAt ==
    ASSUME NEW s \in Seq(Comp), NEW k \in 1..Len(s), InOrder(s)
    PROVE  InOrder(RemoveAt(s, k))
<1> DEFINE r == RemoveAt(s, k)
<1>1. /\ Len(r) = Len(s) - 1 /\ Len(s) \in Nat
      /\ \A p \in 1..Len(s) - 1 : r[p] = IF p < k THEN s[p] ELSE s[p + 1]
  BY RemoveAtShape, LenProperties
<1> HIDE DEF r
<1> SUFFICES ASSUME NEW p \in 1..Len(s) - 1, NEW q \in 1..Len(s) - 1,
                    NEW i \in 1..Len(Declared), NEW j \in 1..Len(Declared),
                    p < q, r[p] = Declared[i], r[q] = Declared[j]
             PROVE  i < j
  BY <1>1 DEF InOrder, r
<1>2. PICK x \in 1..Len(s) : r[p] = s[x] /\ x = (IF p < k THEN p ELSE p + 1)
  BY <1>1
<1>3. PICK y \in 1..Len(s) : r[q] = s[y] /\ y = (IF q < k THEN q ELSE q + 1)
  BY <1>1
<1>4. x < y
  BY <1>1, <1>2, <1>3
<1>5. QED
  BY <1>2, <1>3, <1>4 DEF InOrder

LEMMA InOrderFront ==
    ASSUME NEW s \in Seq(Comp), s # <<>>, InOrder(s)
    PROVE  InOrder(Front(s))
<1>1. /\ Len(s) \in Nat \ {0}
      /\ Len(Front(s)) = Len(s) - 1
      /\ \A p \in 1..Len(s) - 1 : Front(s)[p] = s[p]
  BY FrontShape
<1>2. 1..Len(Front(s)) = 1..Len(s) - 1 /\ 1..Len(s) - 1 \subseteq 1..Len(s)
  BY <1>1
<1>3. QED
  BY <1>1, <1>2 DEF InOrder

LEMMA OrderKeptInit == CompInit => OrderKept
<1> SUFFICES ASSUME CompInit PROVE OrderKept
  OBVIOUS
<1>1. Len(started) = 0 /\ Len(disposeQ) = 0
  BY DEF CompInit
<1>2. QED
  BY <1>1 DEF CompInit, OrderKept, InOrder

LEMMA StartComponentKeepsOrder ==
    ASSUME CompIInv, OrderKept, StartComponent
    PROVE  OrderKept'
<1> DEFINE c == Declared[nextComp]
<1>1. nextComp \in 1..Len(Declared) /\ c \in Comp /\ started \in Seq(Comp)
  BY DeclaredFacts DEF StartComponent, CompIInv, CompTypeOK
<1>2. ASSUME NEW i \in 1..Len(Declared), NEW k \in 1..Len(Declared), NEW p \in 1..Len(started),
             c = Declared[i], started[p] = Declared[k]
      PROVE  k < i
  <2>1. i = nextComp
    BY <1>1, <1>2, DeclaredFacts
  <2>2. started[p] \in ToSet(started) /\ started[p] \in Comp
    BY <1>1, ElementOfSeq, LenProperties DEF ToSet
  <2>3. comp[Declared[k]] = "live"
    BY <1>2, <2>2 DEF CompIInv, SingleOwner, Owned
  <2>4. ~(k \in nextComp..Len(Declared))
    BY <2>3 DEF CompIInv, MountersConsistent
  <2>5. QED
    BY <1>1, <2>1, <2>4, DeclaredFacts
<1>3. InOrder(started')
  BY <1>1, <1>2, InOrderAppend DEF StartComponent, OrderKept
<1>4. QED
  BY <1>3 DEF StartComponent, OrderKept

LEMMA BeginDisposeKeepsOrder ==
    ASSUME OrderKept, BeginDispose
    PROVE  OrderKept'
<1>1. InOrder(<<>>)
  BY DEF InOrder
<1>2. \/ started' = <<>> /\ disposeQ' = started
      \/ started' = started /\ disposeQ' = <<>>
  BY DEF BeginDispose
<1>3. InOrder(started') /\ InOrder(disposeQ')
  BY <1>1, <1>2 DEF OrderKept
<1>4. QED
  BY <1>3 DEF BeginDispose, OrderKept

LEMMA DisposeComponentKeepsOrder ==
    ASSUME CompIInv, OrderKept, DisposeComponent
    PROVE  OrderKept'
<1>1. InOrder(disposeQ')
  BY InOrderFront DEF DisposeComponent, OrderKept, CompIInv, CompTypeOK
<1>2. QED
  BY <1>1 DEF DisposeComponent, OrderKept

LEMMA MountersKeepOrder ==
    ASSUME NEW m \in Mounter, CompIInv, OrderKept, MounterCall(m) \/ MounterStep(m)
    PROVE  OrderKept'
<1> USE DEF CompIInv, CompTypeOK
<1>1. ASSUME NEW c \in Comp, MountCheck(m, c)
      PROVE  OrderKept'
  BY <1>1 DEF MountCheck, OrderKept
<1>2. ASSUME NEW c \in Comp, UnmountTake(m, c)
      PROVE  OrderKept'
  <2>1. PICK k \in 1..Len(started) : started' = RemoveAt(started, k)
    BY <1>2 DEF UnmountTake
  <2>2. InOrder(started')
    BY <2>1, InOrderRemoveAt DEF OrderKept
  <2>3. QED
    BY <1>2, <2>2 DEF UnmountTake, OrderKept
<1>3. CASE MountStart(m)
  BY <1>3 DEF MountStart, OrderKept, MountersConsistent
<1>4. CASE MountStartFails(m) \/ MounterDispose(m)
  BY <1>4 DEF MountStartFails, MounterDispose, OrderKept
<1>5. CASE MountCommit(m)
  <2>1. arg[m] \in Comp /\ arg[m] \notin ToSet(Declared)
    BY <1>5, CompAssumption DEF MountCommit, OrderKept, MountersConsistent
  <2>2. \A i \in 1..Len(Declared) : Declared[i] # arg[m]
    BY <2>1, DeclaredFacts
  <2>3. InOrder(started')
    BY <1>5, <2>1, <2>2, InOrderAppend DEF MountCommit, OrderKept
  <2>4. QED
    BY <1>5, <2>3 DEF MountCommit, OrderKept
<1>6. CASE MountRefuse(m)
  BY <1>6 DEF MountRefuse, OrderKept
<1>7. QED
  BY <1>1, <1>2, <1>3, <1>4, <1>5, <1>6 DEF MounterCall, MounterStep

LEMMA StutterKeepsOrder == OrderKept /\ UNCHANGED compVars => OrderKept'
  BY DEF OrderKept, InOrder, compVars
=============================================================================
