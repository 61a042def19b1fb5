--------------------------- MODULE ReconcileProofs ---------------------------
(***************************************************************************)
(* The table of the reconcilers agrees with the stop sequence, and passes  *)
(* converge, for any number of reconcilers, components and settings, as    *)
(* long as no two passes overlap and no two reconcilers ask for one name.  *)
(***************************************************************************)
EXTENDS Reconcile, ComponentsProofs

\* No two reconcilers are ever asked for one name.
NamesApart == \A q, r \in ToSet(Recon) : q # r => Pool(q) \cap Pool(r) = {}

\* The invariant while no passes have overlapped.
AloneInv == Typed /\ Alone

-----------------------------------------------------------------------------
(* The two updates of a table.                                             *)

NamesIn(s) == {it.name : it \in ToSet(s)}

LEMMA TableAppend ==
    ASSUME NEW s \in Seq(Item), NEW it \in Item, OncePerName(s), it.name \notin NamesIn(s)
    PROVE  /\ Append(s, it) \in Seq(Item)
           /\ ToSet(Append(s, it)) = ToSet(s) \cup {it}
           /\ OncePerName(Append(s, it))
<1>1. /\ Append(s, it) \in Seq(Item)
      /\ ToSet(Append(s, it)) = ToSet(s) \cup {it}
  BY AppendFacts
<1>2. /\ Len(Append(s, it)) = Len(s) + 1 /\ Len(s) \in Nat
      /\ \A i \in 1..Len(s) : Append(s, it)[i] = s[i]
      /\ Append(s, it)[Len(s) + 1] = it
  BY AppendProperties, LenProperties
<1>3. \A i \in 1..Len(s) : s[i].name # it.name
  BY LenProperties DEF NamesIn, ToSet
<1>4. OncePerName(Append(s, it))
  BY <1>2, <1>3 DEF OncePerName
<1>5. QED
  BY <1>1, <1>4

LEMMA TableRemove ==
    ASSUME NEW s \in Seq(Item), NEW k \in 1..Len(s), OncePerName(s)
    PROVE  /\ RemoveAt(s, k) \in Seq(Item)
           /\ ToSet(RemoveAt(s, k)) = ToSet(s) \ {s[k]}
           /\ OncePerName(RemoveAt(s, k))
           /\ \A it \in ToSet(RemoveAt(s, k)) : it.name # s[k].name
<1>1. NoDuplicates(s)
  BY DEF NoDuplicates, OncePerName
<1>2. /\ RemoveAt(s, k) \in Seq(Item)
      /\ ToSet(RemoveAt(s, k)) = ToSet(s) \ {s[k]}
  BY <1>1, RemoveAtFacts
<1>3. /\ Len(RemoveAt(s, k)) = Len(s) - 1 /\ Len(s) \in Nat
      /\ \A i \in 1..Len(s) - 1 : RemoveAt(s, k)[i] = IF i < k THEN s[i] ELSE s[i + 1]
  BY RemoveAtShape, LenProperties
<1>4. OncePerName(RemoveAt(s, k))
  <2> SUFFICES ASSUME NEW i \in 1..Len(s) - 1, NEW j \in 1..Len(s) - 1,
                      RemoveAt(s, k)[i].name = RemoveAt(s, k)[j].name
               PROVE  i = j
    BY <1>3 DEF OncePerName
  <2> DEFINE up(x) == IF x < k THEN x ELSE x + 1
  <2>1. up(i) \in 1..Len(s) /\ up(j) \in 1..Len(s) /\ (up(i) = up(j) => i = j)
    BY <1>3
  <2>2. RemoveAt(s, k)[i] = s[up(i)] /\ RemoveAt(s, k)[j] = s[up(j)]
    BY <1>3
  <2>3. QED
    BY <2>1, <2>2 DEF OncePerName
<1>5. \A it \in ToSet(s) : it # s[k] => it.name # s[k].name
  BY LenProperties DEF OncePerName, ToSet
<1>6. QED
  BY <1>2, <1>4, <1>5

-----------------------------------------------------------------------------
(* A pass keeps its shape, whatever other passes do.                       *)

LEMMA ReconFacts ==
    /\ Len(Recon) \in Nat
    /\ \A k \in 1..Len(Recon) : Recon[k] \in ToSet(Recon)
BY ReconcileAssumption, LenProperties DEF ToSet

LEMMA IdleFacts ==
    Idle \in PassType /\ Idle.phase = "idle" /\ Idle.idx = 1 /\ Idle.held = <<>>
BY ReconFacts DEF Idle, PassType, Phase

\* A pass wants names of components, and such as the settings may give.
LEMMA WantFacts ==
    ASSUME Typed, NEW m \in Mounter, ~Resting(m), NEW r \in ToSet(Recon)
    PROVE  /\ pass[m].want[r] \subseteq {CompName[c] : c \in Comp}
           /\ pass[m].want[r] \subseteq Pool(r)
<1>1. pass[m].want \in Setting \cup {NoSettings}
  BY DEF Typed, Holding
<1>2. CASE pass[m].want \in Setting
  BY <1>2, ReconcileAssumption DEF Pool
<1>3. CASE pass[m].want = NoSettings
  BY <1>3 DEF NoSettings
<1>4. QED
  BY <1>1, <1>2, <1>3

LEMMA TypedFrom ==
    ASSUME CompIInv', pass' \in [Mounter -> PassType], \A m \in Mounter : Holding(m)',
           ~disposed' => disposeQ' = <<>>,
           items' \in [ToSet(Recon) -> Seq(Item)], settings' \in Setting, changes' \in Nat,
           running' \in BOOLEAN, stored' \in BOOLEAN, firstBegun' \in BOOLEAN,
           clean' \in BOOLEAN, overlapped' \in BOOLEAN
    PROVE  Typed'
<1>1. \A n \in Mounter : /\ pass'[n].phase \in Phase
                         /\ pass'[n].idx \in 1..(Len(Recon) + 1)
                         /\ pass'[n].add \cup pass'[n].remove \subseteq {CompName[c] : c \in Comp}
  BY DEF PassType
<1>2. QED
  BY <1>1 DEF Typed, TypeOK, CompIInv

\* It remains to look at the pass that moves, and at the tables.
LEMMA TypedStep ==
    ASSUME Typed, NEW m \in Mounter, CompIInv', pass' \in [Mounter -> PassType],
           \A n \in Mounter \ {m} : pass'[n] = pass[n], Holding(m)',
           items' \in [ToSet(Recon) -> Seq(Item)], clean' \in BOOLEAN,
           UNCHANGED <<running, settings, stored, changes, firstBegun, overlapped, disposed, disposeQ>>
    PROVE  Typed'
<1>1. \A n \in Mounter : Holding(n)'
  BY DEF Typed, Holding, Resting
<1>2. QED
  BY <1>1, TypedFrom DEF Typed, TypeOK

LEMMA CompTyped == ASSUME Typed PROVE CompIInv
BY DEF Typed, TypeOK, CompIInv

LEMMA FnReturnsTyped ==
    ASSUME Typed, NEW m \in Mounter, pass[m].idx <= Len(Recon), ~Resting(m),
           NEW err \in BOOLEAN, FnReturns(m, err), CompIInv',
           UNCHANGED <<running, settings, stored, changes, items, firstBegun, clean, overlapped>>,
           UNCHANGED <<disposed, disposeQ>>
    PROVE  Typed'
<1>1. /\ pass[m] \in PassType /\ pass[m].idx \in 1..Len(Recon)
      /\ pass[m].want \in Setting \cup {NoSettings}
  BY ReconFacts DEF Typed, PassType, Holding
<1>2. /\ pass' \in [Mounter -> PassType]
      /\ \A n \in Mounter \ {m} : pass'[n] = pass[n]
      /\ pass'[m].phase = "next" /\ pass'[m].want = pass[m].want
  BY <1>1, ReconFacts DEF FnReturns, Typed, PassType, Phase
<1>3. Holding(m)'
  BY <1>1, <1>2 DEF Holding
<1>4. QED
  BY <1>2, <1>3, TypedStep DEF Typed, TypeOK

LEMMA BeginTyped ==
    ASSUME Typed, NEW m \in Mounter, Begin(m), firstBegun' \in BOOLEAN
    PROVE  Typed'
<1>1. CompIInv'
  BY CompTyped, CompStutterOK DEF Begin
<1>2. Snapshot \in Setting \cup {NoSettings}
  BY DEF Snapshot, Typed, TypeOK
<1>3. /\ pass' \in [Mounter -> PassType]
      /\ \A n \in Mounter \ {m} : pass'[n] = pass[n]
      /\ pass'[m].phase = "next" /\ pass'[m].want = Snapshot
  <2>1. [Idle EXCEPT !.phase = "next", !.want = Snapshot] \in PassType
    BY <1>2, IdleFacts DEF PassType, Phase
  <2>2. QED
    BY <2>1, IdleFacts DEF Begin, Typed, PassType
<1>4. \A n \in Mounter : Holding(n)'
  BY <1>2, <1>3 DEF Typed, Holding, Resting
<1>5. overlapped' \in BOOLEAN
  BY DEF Begin, Typed, TypeOK
<1>6. QED
  BY <1>1, <1>3, <1>4, <1>5, TypedFrom DEF Begin, compVars, Typed, TypeOK

\* The watch goroutine, and Run on its way to its first pass.
LEMMA ChangeTyped ==
    ASSUME Typed, (\E s \in Setting : Change(s)) \/ Loaded
    PROVE  Typed'
<1>1. CompIInv'
  BY CompTyped, CompStutterOK DEF Change, Loaded
<1>2. pass' \in [Mounter -> PassType] /\ \A n \in Mounter : Holding(n)'
  <2>1. Notified \in PassType /\ Notified.phase = "notified"
    BY IdleFacts DEF Notified, PassType, Phase
  <2>2. QED
    BY <2>1 DEF Change, Loaded, Typed, Holding, Resting
<1>3. QED
  <2>1. ~disposed' => disposeQ' = <<>>
    BY DEF Change, Loaded, compVars, Typed
  <2>2. /\ items' \in [ToSet(Recon) -> Seq(Item)] /\ settings' \in Setting /\ changes' \in Nat
        /\ running' \in BOOLEAN /\ stored' \in BOOLEAN /\ firstBegun' \in BOOLEAN
        /\ clean' \in BOOLEAN /\ overlapped' \in BOOLEAN
    <3>1. CASE \E s \in Setting : Change(s)
      BY <3>1 DEF Change, Typed, TypeOK
    <3>2. CASE Loaded
      BY <3>2 DEF Loaded, Typed, TypeOK
    <3>3. QED
      BY <3>1, <3>2
  <2>3. QED
    BY <1>1, <1>2, <2>1, <2>2, TypedFrom

LEMMA FnTyped ==
    ASSUME Typed, NEW m \in Mounter, FnBegins(m) \/ FnEnds(m) \/ PassEnds(m)
    PROVE  Typed'
<1>1. CompIInv'
  BY CompTyped, CompStutterOK DEF FnBegins, FnEnds, PassEnds
<1>2. CASE FnBegins(m)
  <2> DEFINE p == pass[m]
             r == Current(m)
  <2>1. /\ p \in PassType /\ p.phase = "next" /\ p.idx \in 1..Len(Recon) /\ r \in ToSet(Recon)
        /\ p.want \in Setting \cup {NoSettings} /\ ~Resting(m)
    BY <1>2, ReconFacts DEF FnBegins, In, Resting, Typed, Holding, PassType, Current
  <2>2. items[r] \in Seq(Item)
    BY <2>1 DEF Typed, TypeOK
  <2>3. \A it \in ToSet(items[r]) : it \in Item
    BY <2>2, LenProperties DEF ToSet
  <2>4. /\ Names(r) \subseteq {CompName[c] : c \in Comp}
        /\ p.want[r] \subseteq {CompName[c] : c \in Comp}
    BY <2>1, <2>3, WantFacts DEF Names, Item
  <2>5. /\ pass' \in [Mounter -> PassType]
        /\ \A n \in Mounter \ {m} : pass'[n] = pass[n]
        /\ pass'[m].phase = "work" /\ pass'[m].idx = p.idx /\ pass'[m].want = p.want
    BY <1>2, <2>1, <2>4 DEF FnBegins, Typed, PassType, Phase
  <2>6. Holding(m)'
    BY <2>1, <2>5 DEF Holding
  <2>7. QED
    BY <1>1, <1>2, <2>5, <2>6, TypedStep DEF FnBegins, compVars, Typed, TypeOK
<1>3. CASE FnEnds(m)
  BY <1>1, <1>3, FnReturnsTyped DEF FnEnds, compVars, In, Resting, Typed, Holding
<1>4. CASE PassEnds(m)
  <2>1. Idle \in PassType /\ Idle.phase = "idle"
    BY IdleFacts
  <2>2. /\ pass' \in [Mounter -> PassType]
        /\ \A n \in Mounter \ {m} : pass'[n] = pass[n]
        /\ Holding(m)'
    BY <1>4, <2>1 DEF PassEnds, Typed, Holding, Resting
  <2>3. clean' \in BOOLEAN
    BY <1>4 DEF PassEnds
  <2>4. QED
    BY <1>1, <1>4, <2>2, <2>3, TypedStep DEF PassEnds, compVars, Typed, TypeOK
<1>5. QED
  BY <1>2, <1>3, <1>4

LEMMA MountTyped ==
    ASSUME Typed, NEW m \in Mounter,
           (\E c \in Comp : MountItem(m, c)) \/ Starts(m) \/ StartFails(m) \/ RollsBack(m)
             \/ Commits(m) \/ Records(m)
    PROVE  Typed'
<1> DEFINE p == pass[m]
<1>1. p \in PassType /\ CompIInv
  BY CompTyped DEF Typed
<1>q. UNCHANGED <<disposed, disposeQ>>
  BY DEF MountItem, MountCheck, Starts, MountStart, MountRefuse, StartFails, MountStartFails,
     RollsBack, MounterDispose, Commits, MountCommit, Records, compVars
<1>2. ASSUME NEW c \in Comp, MountItem(m, c)
      PROVE  Typed'
  <2>1. CompIInv'
    BY <1>1, <1>2, MountCheckOK DEF MountItem
  <2>2. [name |-> CompName[c], comp |-> c] \in Item
    BY DEF Item
  <2>3. /\ pass' \in [Mounter -> PassType]
        /\ \A n \in Mounter \ {m} : pass'[n] = pass[n]
        /\ pass'[m].idx = p.idx /\ pass'[m].want = p.want /\ pass'[m].held # <<>>
    BY <1>1, <1>2, <2>2 DEF MountItem, Typed, PassType, Phase
  <2>4. Holding(m)'
    BY <1>2, <2>3 DEF MountItem, In, Resting, Typed, Holding
  <2>5. QED
    BY <1>q, <1>2, <2>1, <2>3, <2>4, TypedStep DEF MountItem, Typed, TypeOK
<1>3. CASE Starts(m)
  <2>1. CompIInv'
    BY <1>1, <1>3, MountStartOK, MountRefuseOK DEF Starts
  <2>2. UNCHANGED <<running, reconVars>>
    BY <1>3 DEF Starts
  <2>3. QED
    BY <1>q, <2>1, <2>2, TypedStep DEF reconVars, Typed, TypeOK, Holding, Resting
<1>4. CASE StartFails(m) \/ RollsBack(m)
  <2>1. CompIInv'
    BY <1>1, <1>4, MountStartFailsOK, MounterDisposeOK DEF StartFails, RollsBack
  <2>2. p.idx <= Len(Recon) /\ ~Resting(m)
    BY <1>4 DEF StartFails, RollsBack, In, Resting, Typed, Holding
  <2>3. QED
    BY <1>q, <1>4, <2>1, <2>2, FnReturnsTyped DEF StartFails, RollsBack
<1>5. CASE Commits(m)
  <2>1. CompIInv'
    BY <1>1, <1>5, MountCommitOK DEF Commits
  <2>2. /\ pass' \in [Mounter -> PassType]
        /\ \A n \in Mounter \ {m} : pass'[n] = pass[n]
        /\ pass'[m].idx = p.idx /\ pass'[m].want = p.want /\ pass'[m].held = p.held
    BY <1>1, <1>5 DEF Commits, Typed, PassType, Phase
  <2>3. Holding(m)'
    BY <1>5, <2>2 DEF Commits, In, Resting, Typed, Holding
  <2>4. QED
    BY <1>q, <1>5, <2>1, <2>2, <2>3, TypedStep DEF Commits, Typed, TypeOK
<1>6. CASE Records(m)
  <2> DEFINE r == Current(m)
  <2>1. CompIInv'
    BY <1>1, <1>6, CompStutterOK DEF Records
  <2>2. /\ p.phase = "record" /\ p.held[1] \in Item /\ p.idx \in 1..Len(Recon)
        /\ r \in ToSet(Recon) /\ items[r] \in Seq(Item)
    BY <1>1, <1>6, ReconFacts DEF Records, In, Typed, Holding, PassType, Current, TypeOK
  <2>3. items' \in [ToSet(Recon) -> Seq(Item)]
    BY <1>6, <2>2, AppendProperties DEF Records, Typed, TypeOK
  <2>4. /\ pass' \in [Mounter -> PassType]
        /\ \A n \in Mounter \ {m} : pass'[n] = pass[n]
        /\ pass'[m].phase = "work" /\ pass'[m].idx = p.idx /\ pass'[m].want = p.want
    BY <1>1, <1>6 DEF Records, Typed, PassType, Phase
  <2>5. Holding(m)'
    BY <2>2, <2>4 DEF Resting, Typed, Holding
  <2>6. QED
    BY <1>q, <1>6, <2>1, <2>3, <2>4, <2>5, TypedStep DEF Records, Typed, TypeOK
<1>7. QED
  BY <1>2, <1>3, <1>4, <1>5, <1>6

LEMMA UnmountTyped ==
    ASSUME Typed, NEW m \in Mounter,
           (\E n \in pass[m].remove : Disowns(m, n)) \/ Takes(m) \/ NotMounted(m) \/ Disposes(m)
    PROVE  Typed'
<1> DEFINE p == pass[m]
<1>1. /\ p \in PassType /\ CompIInv /\ ~Resting(m) /\ p.idx <= Len(Recon)
      /\ p.want \in Setting \cup {NoSettings}
  BY CompTyped DEF Typed, Disowns, Takes, NotMounted, Disposes, In, Holding, Resting
<1>q. UNCHANGED <<disposed, disposeQ>>
  BY DEF Disowns, Takes, UnmountTake, NotMounted, Disposes, MounterDispose, compVars
<1>2. ASSUME NEW n \in p.remove, Disowns(m, n)
      PROVE  Typed'
  <2> DEFINE r == Current(m)
  <2>1. CompIInv'
    BY <1>1, <1>2, CompStutterOK DEF Disowns
  <2>2. CASE n \notin Names(r)
    BY <1>1, <1>q, <1>2, <2>1, <2>2, FnReturnsTyped DEF Disowns
  <2>3. CASE n \in Names(r)
    <3>1. PICK i \in 1..Len(items[r]) :
              /\ items' = [items EXCEPT ![r] = RemoveAt(items[r], i)]
              /\ pass' = [pass EXCEPT ![m].phase = "unmounting", ![m].held = <<items[r][i]>>]
      BY <1>2, <2>3 DEF Disowns
    <3>2. r \in ToSet(Recon) /\ items[r] \in Seq(Item) /\ items[r][i] \in Item
      BY <1>1, ReconFacts, LenProperties DEF Typed, TypeOK, PassType, Current
    <3>3. items' \in [ToSet(Recon) -> Seq(Item)]
      BY <3>1, <3>2, RemoveAtShape DEF Typed, TypeOK
    <3>4. [p EXCEPT !.phase = "unmounting", !.held = <<items[r][i]>>] \in PassType
      BY <1>1, <3>2 DEF PassType, Phase
    <3>5. /\ pass' \in [Mounter -> PassType]
          /\ \A k \in Mounter \ {m} : pass'[k] = pass[k]
          /\ pass'[m].idx = p.idx /\ pass'[m].want = p.want
          /\ pass'[m].held = <<items[r][i]>>
      BY <1>1, <3>1, <3>4 DEF Typed, PassType
    <3>6. Holding(m)'
      BY <1>1, <3>5 DEF Holding
    <3>7. QED
      BY <1>q, <1>2, <2>1, <3>3, <3>5, <3>6, TypedStep DEF Disowns, Typed, TypeOK
  <2>4. QED
    BY <2>2, <2>3
<1>3. CASE NotMounted(m)
  <2>1. CompIInv'
    BY <1>1, <1>3, CompStutterOK DEF NotMounted
  <2>2. QED
    BY <1>1, <1>q, <1>3, <2>1, FnReturnsTyped DEF NotMounted
<1>4. CASE Takes(m) \/ Disposes(m)
  <2>1. CompIInv'
    BY <1>1, <1>4, UnmountTakeOK, MounterDisposeOK DEF Takes, Disposes
  <2>2. /\ pass' \in [Mounter -> PassType]
        /\ \A n \in Mounter \ {m} : pass'[n] = pass[n]
        /\ pass'[m].idx = p.idx /\ pass'[m].want = p.want
        /\ Takes(m) => pass'[m].held = p.held
        /\ Disposes(m) => pass'[m].phase = "work"
    BY <1>1, <1>4 DEF Takes, Disposes, Typed, PassType, Phase
  <2>3. Holding(m)'
    BY <1>1, <1>4, <2>2 DEF Takes, In, Typed, Holding
  <2>4. QED
    BY <1>q, <1>4, <2>1, <2>2, <2>3, TypedStep DEF Takes, Disposes, Typed, TypeOK
<1>5. QED
  BY <1>2, <1>3, <1>4

LEMMA TypedNext ==
    ASSUME Typed, [Next]_vars
    PROVE  Typed'
<1>1. CASE FirstPass
  BY <1>1, BeginTyped, ReconcileAssumption DEF FirstPass
<1>2. ASSUME NEW m \in Mounter, PassStep(m)
      PROVE  Typed'
  <2>1. CASE WatchPass(m)
    BY <2>1, BeginTyped DEF WatchPass, Typed, TypeOK
  <2>2. QED
    BY <1>2, <2>1, FnTyped, MountTyped, UnmountTyped DEF PassStep
<1>3. CASE StopBegins \/ StopDisposes \/ StopEnds \/ UNCHANGED vars
  <2>1. CompIInv'
    BY <1>3, CompTyped, BeginDisposeOK, DisposeComponentOK, CompStutterOK
       DEF StopBegins, StopDisposes, StopEnds, vars, Typed
  <2>2. UNCHANGED reconVars /\ running' \in BOOLEAN
    BY <1>3 DEF StopBegins, StopDisposes, StopEnds, vars, Typed, TypeOK
  <2>3. ~disposed' => disposeQ' = <<>>
    BY <1>3 DEF StopBegins, BeginDispose, StopDisposes, DisposeComponent, StopEnds, vars, compVars,
                Typed
  <2>4. QED
    BY <2>1, <2>2, <2>3, TypedFrom DEF reconVars, Typed, TypeOK, Holding, Resting
<1>4. QED
  BY <1>1, <1>2, <1>3, ChangeTyped DEF Next, StopStep, Terminated

-----------------------------------------------------------------------------
(* A step of pass m, which is then the only one.                           *)

\* What every step of a pass leaves alone.
Moves(m) ==
    /\ pass' \in [Mounter -> PassType]
    /\ \A n \in Mounter \ {m} : pass'[n] = pass[n] /\ at'[n] = at[n]
    /\ pass'[m].want = pass[m].want
    /\ UNCHANGED <<settings, stored, firstBegun, disposed, disposeQ>>

LEMMA AloneInPass ==
    ASSUME AloneInv, NEW m \in Mounter, ~Resting(m)
    PROVE  m \in {Runner, Watcher} /\ \A n \in Mounter \ {m} : Resting(n)
BY DEF AloneInv, Alone, OnePass, Resting, In

\* It remains to look at m's own pass, the tables and the stop sequence.
LEMMA PassStepOK ==
    ASSUME AloneInv, Typed', NEW m \in Mounter, ~Resting(m), Moves(m), UNCHANGED clean,
           items' \in [ToSet(Recon) -> Seq(Item)], Tables', Mounted',
           Standing(m)', Diff(m)', Reached(m)', ~Resting(m)'
    PROVE  Alone'
<1>1. /\ m \in {Runner, Watcher} /\ \A n \in Mounter \ {m} : Resting(n)
      /\ pass'[m].want = pass[m].want
  BY AloneInPass DEF Moves
<1>2. OnePass'
  BY <1>1, ReconcileAssumption DEF AloneInv, Alone, OnePass, Moves, In, Resting
<1>3. UpToDate'
  BY <1>1, ReconcileAssumption DEF AloneInv, Alone, UpToDate, Moves, In, Resting
<1>4. Converged'
  BY DEF Converged, In, Resting
<1>5. ASSUME NEW n \in Mounter \ {m}
      PROVE  Standing(n)' /\ Diff(n)' /\ Reached(n)'
  <2>1. pass'[n] = pass[n] /\ at'[n] = at[n] /\ pass[n].phase \in {"idle", "notified"} /\ Standing(n)
    BY <1>1 DEF AloneInv, Alone, Moves, Resting
  <2>2. QED
    BY <2>1 DEF Standing, Diff, Reached, Resting
<1>6. QED
  BY <1>2, <1>3, <1>4, <1>5 DEF AloneInv, Alone, Moves

\* The tables and what they say of the stop sequence are as before.
TablesKept ==
    /\ items' \in [ToSet(Recon) -> Seq(Item)]
    /\ Tables' /\ Mounted'
    /\ \A r : Names(r)' = Names(r)

LEMMA TablesStay ==
    ASSUME AloneInv, Typed', NEW m \in Mounter, ~Resting(m), Moves(m),
           UNCHANGED <<items, started, disposed>>,
           HeldMounted(m) => disposed, ~HeldMounted(m)'
    PROVE  TablesKept
<1>1. items' \in [ToSet(Recon) -> Seq(Item)] /\ Tables'
  BY DEF AloneInv, Alone, Typed, TypeOK, Tables
<1>2. Mounted'
  BY DEF AloneInv, Alone, Mounted, HeldMounted, Listed, Moves
<1>3. \A r : Names(r)' = Names(r)
  BY DEF Names
<1>4. QED
  BY <1>1, <1>2, <1>3 DEF TablesKept

\* A reconcile function returns, with an error or with nothing left to do.
LEMMA ReturnOK ==
    ASSUME AloneInv, Typed', NEW m \in Mounter, ~Resting(m), ~In(m, "next"),
           NEW err \in BOOLEAN, FnReturns(m, err), at'[m] = "idle",
           \A n \in Mounter \ {m} : at'[n] = at[n],
           UNCHANGED <<items, started, disposed, disposeQ>>,
           UNCHANGED <<settings, stored, firstBegun, clean>>,
           HeldMounted(m) => disposed,
           ~err => Names(Current(m)) = pass[m].want[Current(m)]
    PROVE  Alone'
<1> DEFINE p == pass[m]
<1>1. /\ p \in PassType /\ p.idx \in 1..Len(Recon)
  BY ReconFacts DEF AloneInv, Typed, Holding, In, Resting, PassType
<1>2. /\ Moves(m)
      /\ pass'[m].phase = "next" /\ pass'[m].idx = p.idx + 1 /\ pass'[m].want = p.want
      /\ pass'[m].held = <<>> /\ pass'[m].failed = (p.failed \/ err)
  BY <1>1, ReconFacts DEF FnReturns, Moves, AloneInv, Typed, PassType, Phase
<1>3. TablesKept
  BY <1>2, TablesStay DEF HeldMounted
<1>4. Standing(m)'
  BY <1>1, <1>2 DEF Standing
<1>5. Diff(m)'
  BY <1>2 DEF Diff
<1>6. Reached(m)'
  <2> SUFFICES ASSUME ~p.failed, ~err, NEW k \in 1..p.idx
               PROVE  Names(Recon[k])' = p.want[Recon[k]]
    <3>1. pass'[m].failed <=> p.failed \/ err
      BY <1>2, Zenon
    <3>2. 1..(pass'[m].idx - 1) = 1..p.idx
      BY <1>1, <1>2, ReconFacts
    <3>3. QED
      BY <1>2, <3>1, <3>2 DEF Reached
  <2>1. CASE k = p.idx
    BY <1>3, <2>1 DEF Current, TablesKept
  <2>2. CASE k \in 1..(p.idx - 1)
    BY <1>3, <2>2 DEF AloneInv, Alone, Reached, TablesKept
  <2>3. QED
    BY <1>1, <2>1, <2>2, ReconFacts
<1>7. QED
  BY <1>2, <1>3, <1>4, <1>5, <1>6, PassStepOK DEF TablesKept, Resting

LEMMA FnEndsOK ==
    ASSUME AloneInv, Typed', NEW m \in Mounter, FnEnds(m)
    PROVE  Alone'
<1>1. Names(Current(m)) = pass[m].want[Current(m)]
  BY DEF FnEnds, In, Resting, AloneInv, Alone, Diff
<1>2. at[m] = "idle"
  BY DEF FnEnds, In, Resting, AloneInv, Alone, Typed, Standing, Holding
<1>3. QED
  BY <1>1, <1>2, ReturnOK DEF FnEnds, In, Resting, HeldMounted, compVars

LEMMA StartFailsOK ==
    ASSUME AloneInv, Typed', NEW m \in Mounter, StartFails(m)
    PROVE  Alone'
<1>1. at'[m] = "idle" /\ \A n \in Mounter \ {m} : at'[n] = at[n]
  BY DEF StartFails, MountStartFails, AloneInv, Typed, TypeOK, CompTypeOK
<1>2. QED
  BY <1>1, ReturnOK DEF StartFails, MountStartFails, In, Resting, HeldMounted

LEMMA RollsBackOK ==
    ASSUME AloneInv, Typed', NEW m \in Mounter, RollsBack(m)
    PROVE  Alone'
<1>1. at'[m] = "idle" /\ \A n \in Mounter \ {m} : at'[n] = at[n]
  BY DEF RollsBack, MounterDispose, AloneInv, Typed, TypeOK, CompTypeOK
<1>2. QED
  BY <1>1, ReturnOK DEF RollsBack, MounterDispose, In, Resting, HeldMounted

\* The stop sequence has taken the component: only a disposed App has none
\* of that name.
LEMMA NotMountedOK ==
    ASSUME AloneInv, Typed', NEW m \in Mounter, NotMounted(m)
    PROVE  Alone'
<1>1. at[m] = "idle" /\ UNCHANGED compVars
  BY DEF NotMounted, In, Resting, AloneInv, Alone, Typed, Standing, Holding
<1>2. disposed
  <2>1. pass[m].held[1] \in Item /\ pass[m].held[1].name = CompName[pass[m].held[1].comp]
    BY DEF NotMounted, In, Resting, AloneInv, Alone, Typed, Standing, Holding, PassType
  <2>2. QED
    BY <2>1 DEF NotMounted, NoneMounted, In, Resting, AloneInv, Alone, Mounted, HeldMounted, Item
<1>3. QED
  BY <1>1, <1>2, ReturnOK DEF NotMounted, In, Resting, compVars

LEMMA FnBeginsOK ==
    ASSUME AloneInv, Typed', NEW m \in Mounter, FnBegins(m)
    PROVE  Alone'
<1> DEFINE p == pass[m]
           r == Current(m)
<1>a. p \in PassType /\ p.phase = "next" /\ p.held = <<>> /\ at[m] = "idle"
  BY DEF FnBegins, AloneInv, Alone, Typed, Standing, Holding, In, Resting
<1>1. /\ p \in PassType /\ p.phase = "next" /\ p.held = <<>> /\ at[m] = "idle"
      /\ p.idx \in 1..Len(Recon) /\ r \in ToSet(Recon)
  BY <1>a, ReconFacts DEF FnBegins, PassType, Current
<1>2. /\ Names(r) \subseteq {CompName[c] : c \in Comp}
      /\ p.want[r] \subseteq {CompName[c] : c \in Comp}
  <2>1. items[r] \in Seq(Item)
    BY <1>1 DEF AloneInv, Typed, TypeOK
  <2>2. \A it \in ToSet(items[r]) : it \in Item
    BY <2>1, LenProperties DEF ToSet
  <2>3. QED
    BY <1>1, <2>1, <2>2, WantFacts DEF Names, Item, AloneInv, Resting
<1>3. /\ Moves(m)
      /\ pass'[m].phase = "work" /\ pass'[m].idx = p.idx /\ pass'[m].want = p.want
      /\ pass'[m].held = <<>> /\ pass'[m].failed = p.failed
      /\ pass'[m].add = p.want[r] \ Names(r) /\ pass'[m].remove = Names(r) \ p.want[r]
      /\ UNCHANGED <<items, at, arg, started, disposed, clean>>
  BY <1>1, <1>2 DEF FnBegins, Moves, AloneInv, Typed, PassType, Phase, compVars
<1>4. Standing(m)'
  BY <1>1, <1>3 DEF Standing, Moves
<1>5. TablesKept
  BY <1>1, <1>3, TablesStay DEF HeldMounted, In, Resting
<1>6. Diff(m)'
  BY <1>3, <1>5 DEF Diff, Current, TablesKept
<1>7. Reached(m)'
  BY <1>1, <1>3, <1>5 DEF Reached, In, Resting, AloneInv, Alone, TablesKept
<1>8. QED
  BY <1>1, <1>3, <1>4, <1>5, <1>6, <1>7, PassStepOK DEF In, Resting, TablesKept

-----------------------------------------------------------------------------
(* Mounting.                                                               *)

LEMMA MountItemOK ==
    ASSUME AloneInv, Typed', NEW m \in Mounter, NEW c \in Comp, MountItem(m, c)
    PROVE  Alone'
<1> DEFINE p == pass[m]
           it == [name |-> CompName[c], comp |-> c]
<1>1. /\ p \in PassType /\ p.phase = "work" /\ p.idx <= Len(Recon)
      /\ it \in Item /\ CompName[c] \in p.add
  BY DEF MountItem, AloneInv, Alone, Typed, Standing, Holding, In, Resting, PassType, Item
<1>2. /\ Moves(m)
      /\ pass'[m].phase = "mounting" /\ pass'[m].idx = p.idx /\ pass'[m].want = p.want
      /\ pass'[m].held = <<it>> /\ pass'[m].failed = p.failed
      /\ pass'[m].add = p.add /\ pass'[m].remove = p.remove
      /\ at'[m] = "starting" /\ arg'[m] = c
      /\ UNCHANGED <<items, started, disposed, clean>>
  BY <1>1 DEF MountItem, MountCheck, Moves, AloneInv, Typed, TypeOK, CompTypeOK, PassType, Phase
<1>3. TablesKept
  BY <1>1, <1>2, TablesStay DEF HeldMounted, In, Resting
<1>4. Standing(m)'
  <2>1. pass'[m].held[1] = it /\ pass'[m].held # <<>>
    BY <1>2
  <2>2. QED
    BY <1>1, <1>2, <2>1 DEF Standing, Moves
<1>5. Diff(m)'
  BY <1>1, <1>2, <1>3 DEF Diff, AloneInv, Alone, Current, TablesKept
<1>6. Reached(m)'
  BY <1>1, <1>2, <1>3 DEF Reached, In, Resting, AloneInv, Alone, TablesKept
<1>7. QED
  BY <1>1, <1>2, <1>3, <1>4, <1>5, <1>6, PassStepOK DEF In, Resting, TablesKept

LEMMA StartsOK ==
    ASSUME AloneInv, Typed', NEW m \in Mounter, Starts(m)
    PROVE  Alone'
<1> DEFINE p == pass[m]
<1>1. p \in PassType /\ p.phase = "mounting" /\ p.held # <<>>
  BY DEF Starts, In, Resting, AloneInv, Alone, Typed, Standing, Holding
<1>2. /\ Moves(m) /\ UNCHANGED <<pass, items, started, disposed, clean, arg>>
      /\ at'[m] \in {"started", "refused"}
  BY DEF Starts, MountStart, MountRefuse, Moves, AloneInv, Typed, TypeOK, CompTypeOK, reconVars
<1>3. TablesKept
  BY <1>1, <1>2, TablesStay DEF HeldMounted, In, Resting
<1>4. Standing(m)'
  <2>1. Standing(m)
    BY DEF AloneInv, Alone
  <2>2. QED
    BY <1>1, <1>2, <2>1 DEF Standing
<1>5. Diff(m)'
  BY <1>1, <1>2, <1>3 DEF Diff, AloneInv, Alone, Current, TablesKept
<1>6. Reached(m)'
  BY <1>1, <1>2, <1>3 DEF Reached, In, Resting, AloneInv, Alone, TablesKept
<1>7. QED
  BY <1>1, <1>2, <1>3, <1>4, <1>5, <1>6, PassStepOK DEF In, Resting, TablesKept

\* The component joins the stop sequence; its entry comes next.
LEMMA CommitsOK ==
    ASSUME AloneInv, Typed', NEW m \in Mounter, Commits(m)
    PROVE  Alone'
<1> DEFINE p == pass[m]
<1>1. /\ p \in PassType /\ p.phase = "mounting" /\ p.held # <<>> /\ p.held[1].comp = arg[m]
      /\ arg[m] \in Comp /\ started \in Seq(Comp) /\ ~disposed
      /\ p.idx <= Len(Recon) /\ p.held[1].name \in p.add
      /\ p.held[1].name = CompName[p.held[1].comp]
  BY DEF Commits, MountCommit, In, Resting, AloneInv, Alone, Typed, Standing, Holding,
         MountersConsistent, TypeOK, CompTypeOK
<1>2. /\ Moves(m)
      /\ pass'[m].phase = "record" /\ pass'[m].idx = p.idx /\ pass'[m].want = p.want
      /\ pass'[m].held = p.held /\ pass'[m].failed = p.failed
      /\ pass'[m].add = p.add /\ pass'[m].remove = p.remove
      /\ at'[m] = "idle" /\ started' = Append(started, arg[m])
      /\ UNCHANGED <<items, disposed, clean>>
  BY <1>1 DEF Commits, MountCommit, Moves, AloneInv, Typed, TypeOK, CompTypeOK, PassType, Phase
<1>3. items' \in [ToSet(Recon) -> Seq(Item)] /\ Tables'
  BY <1>2 DEF AloneInv, Alone, Typed, TypeOK, Tables
<1>4. Mounted'
  <2>1. ToSet(started') = ToSet(started) \cup {arg[m]}
    BY <1>1, <1>2, AppendFacts
  <2>2. \A n \in Mounter : ~HeldMounted(n)
    BY <1>1, AloneInPass DEF HeldMounted, In, Resting
  <2>3. \A n \in Mounter : HeldMounted(n)' <=> n = m
    BY <1>2, <2>2 DEF HeldMounted, Moves
  <2>4. \A c : Listed(c)' <=> Listed(c)
    BY <1>2 DEF Listed
  <2>5. \A c \in Comp : c \in ToSet(started) <=> Listed(c)
    BY <1>1, <2>2 DEF AloneInv, Alone, Mounted
  <2>6. QED
    BY <1>1, <1>2, <2>1, <2>3, <2>4, <2>5 DEF Mounted
<1>5. Standing(m)'
  BY <1>1, <1>2 DEF Standing, Moves
<1>6. \A r : Names(r)' = Names(r)
  BY <1>2 DEF Names
<1>7. Diff(m)'
  BY <1>1, <1>2, <1>6 DEF Diff, AloneInv, Alone, Current
<1>8. Reached(m)'
  BY <1>1, <1>2, <1>6 DEF Reached, In, Resting, AloneInv, Alone
<1>9. QED
  BY <1>1, <1>2, <1>3, <1>4, <1>5, <1>7, <1>8, PassStepOK DEF In, Resting

\* The entry is made: a name the table did not have.
LEMMA RecordsOK ==
    ASSUME AloneInv, Typed', NEW m \in Mounter, Records(m)
    PROVE  Alone'
<1> DEFINE p == pass[m]
           r == Current(m)
           it == p.held[1]
<1>1. /\ p \in PassType /\ p.phase = "record" /\ p.idx <= Len(Recon)
      /\ it \in Item /\ it.name = CompName[it.comp] /\ it.name \in p.add /\ at[m] = "idle"
  BY DEF Records, AloneInv, Alone, Typed, Standing, Holding, In, Resting, PassType
<1>2. /\ p.idx \in 1..Len(Recon) /\ r \in ToSet(Recon) /\ items[r] \in Seq(Item)
      /\ p.want[r] \subseteq Pool(r)
  <2>1. p.idx \in 1..Len(Recon) /\ r \in ToSet(Recon)
    BY <1>1, ReconFacts DEF PassType, Current
  <2>2. QED
    BY <1>1, <2>1, WantFacts DEF Resting, AloneInv, Typed, TypeOK
<1>3. /\ p.add \subseteq p.want[r] /\ p.remove \cap p.want[r] = {}
      /\ Names(r) = (p.want[r] \ p.add) \cup p.remove
  BY <1>1 DEF AloneInv, Alone, Diff
<1>4. it.name \notin Names(r) /\ it.name \in p.want[r] /\ it.name \in Pool(r)
  BY <1>1, <1>2, <1>3 DEF Pool
<1>5. /\ Moves(m)
      /\ pass'[m].phase = "work" /\ pass'[m].idx = p.idx /\ pass'[m].want = p.want
      /\ pass'[m].held = <<>> /\ pass'[m].failed = p.failed
      /\ pass'[m].add = p.add \ {it.name} /\ pass'[m].remove = p.remove
      /\ UNCHANGED <<at, started, disposed, clean>>
  BY <1>1 DEF Records, Moves, AloneInv, Typed, PassType, Phase, compVars
<1>6. /\ items' \in [ToSet(Recon) -> Seq(Item)]
      /\ ToSet(items'[r]) = ToSet(items[r]) \cup {it} /\ OncePerName(items'[r])
      /\ \A q \in ToSet(Recon) : q # r => items'[q] = items[q]
  <2>1. items' = [items EXCEPT ![r] = Append(items[r], it)]
    BY DEF Records
  <2>2. OncePerName(items[r]) /\ it.name \notin NamesIn(items[r])
    BY <1>2, <1>4 DEF AloneInv, Alone, Tables, Names, NamesIn
  <2>3. QED
    BY <1>1, <1>2, <2>1, <2>2, TableAppend DEF AloneInv, Typed, TypeOK
<1>7. Tables'
  <2>1. \A q : Pool(q)' = Pool(q)
    BY DEF Pool
  <2>2. \A q \in ToSet(Recon) :
           /\ OncePerName(items[q])
           /\ \A jt \in ToSet(items[q]) : jt.name = CompName[jt.comp] /\ jt.name \in Pool(q)
    BY DEF AloneInv, Alone, Tables
  <2>3. QED
    BY <1>1, <1>2, <1>4, <1>6, <2>1, <2>2 DEF Tables
<1>8. \A q \in ToSet(Recon) : Names(q)' = IF q = r THEN Names(r) \cup {it.name} ELSE Names(q)
  <2>1. {x.name : x \in ToSet(items'[r])} = {x.name : x \in ToSet(items[r])} \cup {it.name}
    BY <1>6
  <2>2. QED
    BY <1>2, <1>6, <2>1 DEF Names
<1>9. Mounted'
  <2>1. \A n \in Mounter : HeldMounted(n) <=> n = m
    BY <1>1, AloneInPass DEF HeldMounted, In, Resting
  <2>2. \A n \in Mounter : ~HeldMounted(n)'
    BY <1>5, <2>1 DEF HeldMounted, Moves
  <2>3. \A c : Listed(c)' <=> Listed(c) \/ c = it.comp
    BY <1>2, <1>6 DEF Listed
  <2>4. QED
    BY <1>5, <2>1, <2>2, <2>3 DEF AloneInv, Alone, Mounted
<1>10. Standing(m)'
  BY <1>1, <1>5 DEF Standing, Moves
<1>11. Diff(m)'
  <2>1. Current(m)' = r
    BY <1>5 DEF Current
  <2>2. QED
    BY <1>2, <1>3, <1>4, <1>5, <1>8, <2>1 DEF Diff
<1>12. Reached(m)'
  <2> SUFFICES ASSUME ~p.failed, NEW k \in 1..(p.idx - 1)
               PROVE  Names(Recon[k])' = p.want[Recon[k]]
    BY <1>5 DEF Reached
  <2>1. Names(Recon[k]) = p.want[Recon[k]] /\ Recon[k] \in ToSet(Recon)
    BY <1>1, <1>2, ReconFacts DEF AloneInv, Alone, Reached, In, Resting
  <2>2. QED
    BY <1>4, <1>8, <2>1
<1>13. QED
  BY <1>1, <1>5, <1>6, <1>7, <1>9, <1>10, <1>11, <1>12, PassStepOK DEF In, Resting

-----------------------------------------------------------------------------
(* Unmounting.                                                             *)

\* The entry leaves the table, and its component is the pass's to unmount.
LEMMA DisownsOK ==
    ASSUME NamesApart, AloneInv, Typed', NEW m \in Mounter, NEW n \in pass[m].remove, Disowns(m, n)
    PROVE  Alone'
<1> DEFINE p == pass[m]
           r == Current(m)
<1>1. /\ p \in PassType /\ p.phase = "work" /\ p.idx <= Len(Recon)
      /\ p.add = {} /\ at[m] = "idle"
  BY DEF Disowns, AloneInv, Alone, Typed, Standing, Holding, In, Resting
<1>2. /\ p.idx \in 1..Len(Recon) /\ r \in ToSet(Recon) /\ items[r] \in Seq(Item)
  BY <1>1, ReconFacts DEF PassType, Current, AloneInv, Typed, TypeOK
<1>3. /\ p.remove \cap p.want[r] = {} /\ Names(r) = p.want[r] \cup p.remove
  BY <1>1 DEF AloneInv, Alone, Diff
<1>4. PICK i \in 1..Len(items[r]) :
          /\ items[r][i].name = n
          /\ items' = [items EXCEPT ![r] = RemoveAt(items[r], i)]
          /\ pass' = [pass EXCEPT ![m].phase = "unmounting", ![m].held = <<items[r][i]>>]
  BY <1>3 DEF Disowns
<1> DEFINE it == items[r][i]
<1>5. /\ it \in Item /\ it \in ToSet(items[r])
      /\ it.name = CompName[it.comp] /\ n \in Pool(r)
  <2>1. it \in Item /\ it \in ToSet(items[r])
    BY <1>2, LenProperties DEF ToSet
  <2>2. QED
    BY <1>2, <1>4, <2>1 DEF AloneInv, Alone, Tables
<1>6. /\ Moves(m)
      /\ pass'[m].phase = "unmounting" /\ pass'[m].idx = p.idx /\ pass'[m].want = p.want
      /\ pass'[m].held = <<it>> /\ pass'[m].failed = p.failed
      /\ pass'[m].add = p.add /\ pass'[m].remove = p.remove
      /\ UNCHANGED <<at, started, disposed, clean>>
  <2>1. pass'[m] \in PassType
    BY <1>1, <1>4, <1>5 DEF AloneInv, Typed, PassType, Phase
  <2>2. pass' \in [Mounter -> PassType] /\ \A k \in Mounter \ {m} : pass'[k] = pass[k]
    BY <1>4, <2>1 DEF AloneInv, Typed
  <2>3. /\ pass'[m].phase = "unmounting" /\ pass'[m].idx = p.idx /\ pass'[m].want = p.want
        /\ pass'[m].held = <<it>> /\ pass'[m].failed = p.failed
        /\ pass'[m].add = p.add /\ pass'[m].remove = p.remove
    BY <1>1, <1>4 DEF AloneInv, Typed, PassType
  <2>4. UNCHANGED <<at, started, disposed, clean>> /\ UNCHANGED <<settings, stored, firstBegun, disposeQ>>
    BY DEF Disowns, compVars
  <2>5. QED
    BY <2>2, <2>3, <2>4 DEF Moves
<1>7. /\ items' \in [ToSet(Recon) -> Seq(Item)]
      /\ ToSet(items'[r]) = ToSet(items[r]) \ {it} /\ OncePerName(items'[r])
      /\ \A jt \in ToSet(items'[r]) : jt.name # n
      /\ \A q \in ToSet(Recon) : q # r => items'[q] = items[q]
  <2>1. OncePerName(items[r])
    BY <1>2 DEF AloneInv, Alone, Tables
  <2>2. QED
    BY <1>2, <1>4, <2>1, TableRemove DEF AloneInv, Typed, TypeOK
<1>8. Tables'
  BY <1>2, <1>7 DEF AloneInv, Alone, Tables, Pool
<1>9. \A q \in ToSet(Recon) : Names(q)' = IF q = r THEN Names(r) \ {n} ELSE Names(q)
  <2>1. {x.name : x \in ToSet(items'[r])} = {x.name : x \in ToSet(items[r])} \ {n}
    BY <1>4, <1>7
  <2>2. QED
    BY <1>2, <1>7, <2>1 DEF Names
<1>10. Mounted'
  <2>1. \A k \in Mounter : ~HeldMounted(k)
    BY <1>1, AloneInPass DEF HeldMounted, In, Resting
  <2>2. \A k \in Mounter : HeldMounted(k)' <=> k = m
    BY <1>6, <2>1 DEF HeldMounted, Moves
  <2>3. \A c : c = it.comp => ~Listed(c)'
    <3> SUFFICES ASSUME NEW q \in ToSet(Recon), NEW jt \in ToSet(items'[q]), jt.comp = it.comp
                 PROVE  FALSE
      BY DEF Listed
    <3>1. jt.name = n /\ jt.name \in Pool(q)
      BY <1>4, <1>5, <1>8 DEF Tables, Pool
    <3>2. QED
      BY <1>2, <1>5, <1>7, <3>1 DEF NamesApart
  <2>4. \A c : Listed(c) <=> Listed(c)' \/ c = it.comp
    BY <1>2, <1>5, <1>7 DEF Listed
  <2>5. pass'[m].held[1] = it
    BY <1>6
  <2>6. QED
    BY <1>6, <2>1, <2>2, <2>3, <2>4, <2>5 DEF AloneInv, Alone, Mounted
<1>11. Current(m)' = r /\ pass'[m].held[1] = it /\ pass'[m].held # <<>>
  BY <1>6 DEF Current
<1>12. Standing(m)'
  BY <1>1, <1>4, <1>5, <1>6, <1>11 DEF Standing, Moves, Pool
<1>13. Diff(m)'
  BY <1>1, <1>2, <1>3, <1>4, <1>6, <1>9, <1>11 DEF Diff
<1>14. Reached(m)'
  <2> SUFFICES ASSUME ~p.failed, NEW k \in 1..(p.idx - 1)
               PROVE  Names(Recon[k])' = p.want[Recon[k]]
    BY <1>6 DEF Reached
  <2>1. Names(Recon[k]) = p.want[Recon[k]] /\ Recon[k] \in ToSet(Recon)
    BY <1>1, <1>2, ReconFacts DEF AloneInv, Alone, Reached, In, Resting
  <2>2. QED
    BY <1>3, <1>9, <2>1
<1>15. QED
  BY <1>1, <1>6, <1>7, <1>8, <1>10, <1>12, <1>13, <1>14, PassStepOK DEF In, Resting

\* UnmountComponent takes a component by name: while the App is open, the
\* one whose entry has just left the table.
LEMMA TakesOK ==
    ASSUME NamesApart, AloneInv, Typed', NEW m \in Mounter, Takes(m)
    PROVE  Alone'
<1> DEFINE p == pass[m]
           r == Current(m)
           it == p.held[1]
<1>1. /\ p \in PassType /\ p.phase = "unmounting" /\ p.idx <= Len(Recon)
      /\ p.add = {} /\ p.held # <<>> /\ it \in Item /\ it.name = CompName[it.comp]
      /\ it.name \in p.remove /\ it.name \in Pool(r)
  BY DEF Takes, AloneInv, Alone, Typed, Standing, Holding, In, Resting, PassType
<1>2. p.idx \in 1..Len(Recon) /\ r \in ToSet(Recon)
  BY <1>1, ReconFacts DEF PassType, Current
<1>3. PICK c \in Comp : CompName[c] = it.name /\ UnmountTake(m, c)
  BY DEF Takes
<1>4. c \in ToSet(started) /\ ToSet(started') = ToSet(started) \ {c}
  <2>1. PICK k \in 1..Len(started) : started[k] = c /\ started' = RemoveAt(started, k)
    BY <1>3 DEF UnmountTake
  <2>2. NoDuplicates(started) /\ started \in Seq(Comp)
    BY DEF AloneInv, Typed, SingleOwner, TypeOK, CompTypeOK
  <2>3. c \in ToSet(started)
    BY <2>1, <2>2, LenProperties DEF ToSet
  <2>4. QED
    BY <2>1, <2>2, <2>3, RemoveAtFacts
<1>5. /\ Moves(m)
      /\ pass'[m].phase = "disposing" /\ pass'[m].idx = p.idx /\ pass'[m].want = p.want
      /\ pass'[m].held = p.held /\ pass'[m].failed = p.failed
      /\ pass'[m].add = p.add /\ pass'[m].remove = p.remove
      /\ at'[m] = "unmounting"
      /\ UNCHANGED <<items, disposed, clean>>
  <2>1. /\ pass' \in [Mounter -> PassType]
        /\ \A n \in Mounter \ {m} : pass'[n] = pass[n]
        /\ pass'[m].phase = "disposing" /\ pass'[m].idx = p.idx /\ pass'[m].want = p.want
        /\ pass'[m].held = p.held /\ pass'[m].failed = p.failed
        /\ pass'[m].add = p.add /\ pass'[m].remove = p.remove
    BY <1>1 DEF Takes, AloneInv, Typed, PassType, Phase
  <2>2. at'[m] = "unmounting" /\ \A n \in Mounter \ {m} : at'[n] = at[n]
    BY <1>3 DEF UnmountTake, AloneInv, Typed, TypeOK, CompTypeOK
  <2>3. UNCHANGED <<settings, stored, firstBegun, items, disposed, disposeQ, clean>>
    BY <1>3 DEF Takes, UnmountTake
  <2>4. QED
    BY <2>1, <2>2, <2>3 DEF Moves
<1>6. items' \in [ToSet(Recon) -> Seq(Item)] /\ Tables' /\ \A q : Names(q)' = Names(q)
  BY <1>5 DEF AloneInv, Alone, Typed, TypeOK, Tables, Names
<1>7. Mounted'
  <2>1. \A k \in Mounter : HeldMounted(k) <=> k = m
    BY <1>1, AloneInPass DEF HeldMounted, In, Resting
  <2>2. \A k \in Mounter : ~HeldMounted(k)'
    BY <1>5, <2>1 DEF HeldMounted, Moves
  <2>3. \A d : Listed(d)' <=> Listed(d)
    BY <1>5 DEF Listed
  <2>4. ASSUME NEW q \in ToSet(Recon), NEW jt \in ToSet(items[q]), jt.name = it.name
        PROVE  FALSE
    <3>1. it.name \in Pool(q) /\ it.name \in Names(q)
      BY <2>4 DEF AloneInv, Alone, Tables, Names
    <3>2. q = r
      BY <1>1, <1>2, <3>1 DEF NamesApart
    <3>3. it.name \notin Names(r)
      BY <1>1 DEF AloneInv, Alone, Diff
    <3>4. QED
      BY <3>1, <3>2, <3>3
  <2>5. \A d : CompName[d] = it.name => ~Listed(d)
    <3> SUFFICES ASSUME NEW d, CompName[d] = it.name,
                        NEW q \in ToSet(Recon), NEW jt \in ToSet(items[q]), jt.comp = d
                 PROVE  FALSE
      BY DEF Listed
    <3>1. jt.name = it.name
      BY DEF AloneInv, Alone, Tables
    <3>2. QED
      BY <2>4, <3>1
  <2>6. QED
    BY <1>1, <1>3, <1>4, <1>5, <2>1, <2>2, <2>3, <2>5 DEF AloneInv, Alone, Mounted
<1>8. Current(m)' = r /\ Pool(r)' = Pool(r)
  BY <1>5 DEF Current, Pool
<1>9. Standing(m)'
  BY <1>1, <1>5, <1>8 DEF Standing, Moves
<1>10. Diff(m)'
  <2>1. Diff(m)
    BY DEF AloneInv, Alone
  <2>2. QED
    BY <1>1, <1>5, <1>6, <1>8, <2>1 DEF Diff
<1>11. Reached(m)'
  BY <1>1, <1>5, <1>6 DEF Reached, In, Resting, AloneInv, Alone
<1>12. QED
  BY <1>1, <1>5, <1>6, <1>7, <1>9, <1>10, <1>11, PassStepOK DEF In, Resting

LEMMA DisposesOK ==
    ASSUME AloneInv, Typed', NEW m \in Mounter, Disposes(m)
    PROVE  Alone'
<1> DEFINE p == pass[m]
           r == Current(m)
           it == p.held[1]
<1>1. /\ p \in PassType /\ p.phase = "disposing" /\ p.idx <= Len(Recon)
  BY DEF Disposes, AloneInv, Alone, Typed, Standing, Holding, In, Resting
<1>2. /\ Moves(m)
      /\ pass'[m].phase = "work" /\ pass'[m].idx = p.idx /\ pass'[m].want = p.want
      /\ pass'[m].held = <<>> /\ pass'[m].failed = p.failed
      /\ pass'[m].add = p.add /\ pass'[m].remove = p.remove \ {it.name}
      /\ at'[m] = "idle"
      /\ UNCHANGED <<items, started, disposed, clean>>
  <2>1. /\ pass' \in [Mounter -> PassType]
        /\ \A n \in Mounter \ {m} : pass'[n] = pass[n]
        /\ pass'[m].phase = "work" /\ pass'[m].idx = p.idx /\ pass'[m].want = p.want
        /\ pass'[m].held = <<>> /\ pass'[m].failed = p.failed
        /\ pass'[m].add = p.add /\ pass'[m].remove = p.remove \ {it.name}
    BY <1>1 DEF Disposes, AloneInv, Typed, PassType, Phase
  <2>2. at'[m] = "idle" /\ \A n \in Mounter \ {m} : at'[n] = at[n]
    BY DEF Disposes, MounterDispose, AloneInv, Typed, TypeOK, CompTypeOK
  <2>3. UNCHANGED <<settings, stored, firstBegun, items, started, disposed, disposeQ, clean>>
    BY DEF Disposes, MounterDispose
  <2>4. QED
    BY <2>1, <2>2, <2>3 DEF Moves
<1>3. TablesKept
  BY <1>1, <1>2, TablesStay DEF HeldMounted, In, Resting
<1>4. Standing(m)'
  BY <1>1, <1>2 DEF Standing, Moves
<1>5. Diff(m)'
  <2>1. /\ p.add \subseteq p.want[r] /\ p.remove \cap p.want[r] = {}
        /\ Names(r) = (p.want[r] \ p.add) \cup (p.remove \ {it.name})
    BY <1>1 DEF AloneInv, Alone, Diff
  <2>2. Current(m)' = r
    BY <1>2 DEF Current
  <2>3. QED
    BY <1>2, <1>3, <2>1, <2>2 DEF Diff, TablesKept
<1>6. Reached(m)'
  BY <1>1, <1>2, <1>3 DEF Reached, In, Resting, AloneInv, Alone, TablesKept
<1>7. QED
  BY <1>1, <1>2, <1>3, <1>4, <1>5, <1>6, PassStepOK DEF In, Resting, TablesKept

-----------------------------------------------------------------------------
(* A change, and a pass that begins and ends.                              *)

\* What does not depend on the passes that rest, nor on the settings.
LEMMA RestOK ==
    ASSUME AloneInv, NEW m \in Mounter, Resting(m) \/ In(m, "next"),
           ~HeldMounted(m)', UNCHANGED <<items, compVars>>,
           \A n \in Mounter \ {m} : pass'[n] = pass[n]
    PROVE  /\ Tables' /\ Mounted'
           /\ \A n \in Mounter \ {m} : Standing(n)' /\ Diff(n)' /\ Reached(n)'
           /\ at'[m] = "idle"
           /\ \A r : Names(r)' = Names(r)
<1>1. \A r : Names(r)' = Names(r)
  BY DEF Names
<1>2. Tables'
  BY DEF AloneInv, Alone, Tables
<1>3. Mounted'
  BY DEF AloneInv, Alone, Mounted, Listed, HeldMounted, Resting, In, compVars
<1>4. ASSUME NEW n \in Mounter \ {m}
      PROVE  Standing(n)' /\ Diff(n)' /\ Reached(n)'
  <2>1. Standing(n) /\ Diff(n) /\ Reached(n) /\ pass'[n] = pass[n]
    BY DEF AloneInv, Alone
  <2>2. Standing(n)'
    BY <2>1 DEF Standing, Current, compVars
  <2>3. Diff(n)'
    BY <1>1, <2>1 DEF Diff, Current
  <2>4. Reached(n)'
    BY <1>1, <2>1 DEF Reached, Resting
  <2>5. QED
    BY <2>2, <2>3, <2>4
<1>5. at'[m] = "idle"
  BY DEF AloneInv, Alone, Standing, Resting, In, compVars
<1>6. QED
  BY <1>1, <1>2, <1>3, <1>4, <1>5

LEMMA BeginOK ==
    ASSUME AloneInv, Typed', NEW m \in {Runner, Watcher}, Begin(m), Resting(m), ~overlapped',
           firstBegun' => stored, m = Watcher => firstBegun' = firstBegun,
           m = Runner => firstBegun'
    PROVE  Alone'
<1>1. /\ m \in Mounter /\ \A n \in Mounter \ {m} : pass'[n] = pass[n] /\ Resting(n)
      /\ pass'[m] = [Idle EXCEPT !.phase = "next", !.want = Snapshot]
      /\ UNCHANGED <<settings, stored, items, clean, compVars>>
  BY ReconcileAssumption DEF Begin, AloneInv, Typed
<1>2. /\ pass'[m].phase = "next" /\ pass'[m].want = Snapshot /\ pass'[m].idx = 1
      /\ pass'[m].held = <<>>
  BY <1>1 DEF Idle
<1>3. OnePass' /\ Converged'
  <2>1. ~In(m, "idle")' /\ ~In(m, "notified")' /\ \A n \in Mounter \ {m} : In(n, "idle")' <=> In(n, "idle")
    BY <1>1, <1>2 DEF In
  <2>2. Resting(Runner)' \/ Resting(Watcher)'
    BY <1>1, ReconcileAssumption DEF Resting
  <2>3. ~firstBegun' => m = Watcher /\ ~firstBegun
    BY ReconcileAssumption DEF AloneInv, Alone, OnePass
  <2>4. OnePass'
    BY <1>1, <1>2, <2>1, <2>2, <2>3, ReconcileAssumption DEF AloneInv, Alone, OnePass, In
  <2>5. QED
    BY <1>1, <2>1, <2>4 DEF Converged
<1>4. UpToDate'
  BY <1>1, <1>2 DEF UpToDate, Resting, Snapshot
<1>5. ~HeldMounted(m)'
  BY <1>2 DEF HeldMounted
<1>6. /\ Tables' /\ Mounted' /\ at'[m] = "idle"
      /\ \A n \in Mounter \ {m} : Standing(n)' /\ Diff(n)' /\ Reached(n)'
  BY <1>1, <1>5, RestOK
<1>7. Standing(m)' /\ Diff(m)' /\ Reached(m)'
  BY <1>2, <1>6 DEF Standing, Diff, Reached
<1>8. QED
  BY <1>3, <1>4, <1>6, <1>7 DEF Alone

LEMMA FirstPassOK ==
    ASSUME AloneInv, Typed', FirstPass, ~overlapped'
    PROVE  Alone'
<1>1. In(Runner, "idle") /\ Resting(Runner)
  BY DEF FirstPass, AloneInv, Alone, OnePass, In, Resting
<1>2. QED
  BY <1>1, BeginOK, ReconcileAssumption DEF FirstPass

LEMMA WatchPassOK ==
    ASSUME AloneInv, Typed', NEW m \in Mounter, WatchPass(m), ~overlapped'
    PROVE  Alone'
<1>1. m = Watcher /\ Resting(m) /\ m # Runner
  BY ReconcileAssumption DEF WatchPass, AloneInv, Alone, OnePass, In, Resting
<1>2. QED
  BY <1>1, BeginOK DEF WatchPass, AloneInv, Alone, OnePass

LEMMA ChangeOK ==
    ASSUME AloneInv, Typed', NEW s \in Setting, Change(s)
    PROVE  Alone'
<1>1. /\ Watcher \in Mounter /\ Resting(Watcher) /\ In(Watcher, "idle")
      /\ \A n \in Mounter \ {Watcher} : pass'[n] = pass[n]
      /\ pass'[Watcher] = Notified /\ Notified.phase = "notified" /\ Notified.held = <<>>
      /\ UNCHANGED <<stored, items, firstBegun, compVars>>
  BY ReconcileAssumption DEF Change, AloneInv, Typed, In, Resting, Notified, Idle
<1>2. OnePass' /\ UpToDate' /\ Converged'
  BY <1>1, ReconcileAssumption DEF AloneInv, Alone, OnePass, UpToDate, Converged, In, Resting
<1>3. ~HeldMounted(Watcher)'
  BY <1>1 DEF HeldMounted
<1>4. /\ Tables' /\ Mounted' /\ at'[Watcher] = "idle"
      /\ \A n \in Mounter \ {Watcher} : Standing(n)' /\ Diff(n)' /\ Reached(n)'
  BY <1>1, <1>3, RestOK
<1>5. Standing(Watcher)' /\ Diff(Watcher)' /\ Reached(Watcher)'
  BY <1>1, <1>4 DEF Standing, Diff, Reached, Resting
<1>6. QED
  BY <1>2, <1>4, <1>5 DEF Alone

LEMMA PassEndsOK ==
    ASSUME AloneInv, Typed', NEW m \in Mounter, PassEnds(m)
    PROVE  Alone'
<1> DEFINE p == pass[m]
<1>1. /\ p \in PassType /\ In(m, "next") /\ ~Resting(m) /\ p.idx = Len(Recon) + 1
      /\ m \in {Runner, Watcher}
      /\ \A n \in Mounter \ {m} : pass'[n] = pass[n] /\ Resting(n)
      /\ pass'[m] = Idle /\ Idle.phase = "idle" /\ Idle.held = <<>>
      /\ UNCHANGED <<settings, stored, items, firstBegun, compVars>>
  BY ReconFacts, AloneInPass DEF PassEnds, AloneInv, Typed, In, Resting, PassType, Idle
<1>2. OnePass' /\ UpToDate'
  BY <1>1, ReconcileAssumption DEF AloneInv, Alone, OnePass, UpToDate, In, Resting
<1>3. ~HeldMounted(m)'
  BY <1>1 DEF HeldMounted
<1>4. /\ Tables' /\ Mounted' /\ at'[m] = "idle"
      /\ \A n \in Mounter \ {m} : Standing(n)' /\ Diff(n)' /\ Reached(n)'
      /\ \A r : Names(r)' = Names(r)
  BY <1>1, <1>3, RestOK
<1>5. Standing(m)' /\ Diff(m)' /\ Reached(m)'
  BY <1>1, <1>4 DEF Standing, Diff, Reached, Resting
<1>6. Converged'
  <2> SUFFICES ASSUME \A n \in Mounter : In(n, "idle")', firstBegun, ~p.failed,
                      NEW r \in ToSet(Recon)
               PROVE  Names(r)' = settings[r]
    <3>1. clean' => ~p.failed
      BY DEF PassEnds
    <3>2. QED
      BY <1>1, <3>1 DEF Converged
  <2>1. p.want = settings
    BY <1>1, ReconcileAssumption DEF AloneInv, Alone, UpToDate, In
  <2>2. PICK k \in 1..Len(Recon) : r = Recon[k]
    BY ReconcileAssumption, LenProperties DEF ToSet
  <2>3. Names(r) = settings[r]
    BY <1>1, <2>1, <2>2, ReconFacts DEF AloneInv, Alone, Reached
  <2>4. QED
    BY <1>4, <2>3
<1>7. QED
  BY <1>2, <1>4, <1>5, <1>6 DEF Alone

-----------------------------------------------------------------------------
(* The end of the App, and Run on its way to its first pass.               *)

LEMMA StopOK ==
    ASSUME AloneInv, Mounted', firstBegun => stored',
           UNCHANGED <<settings, items, pass, firstBegun, clean, at, arg>>
    PROVE  Alone'
<1>1. OnePass' /\ UpToDate' /\ Tables' /\ Converged'
  BY DEF AloneInv, Alone, OnePass, UpToDate, Tables, Converged, In, Resting, Names
<1>2. \A r : Names(r)' = Names(r)
  BY DEF Names
<1>3. ASSUME NEW m \in Mounter
      PROVE  Standing(m)' /\ Diff(m)' /\ Reached(m)'
  <2>1. Standing(m) /\ Diff(m) /\ Reached(m)
    BY DEF AloneInv, Alone
  <2>2. Standing(m)'
    BY <2>1 DEF Standing, Current
  <2>3. Diff(m)'
    BY <1>2, <2>1 DEF Diff, Current
  <2>4. Reached(m)'
    BY <1>2, <2>1 DEF Reached, Resting
  <2>5. QED
    BY <2>2, <2>3, <2>4
<1>4. QED
  BY <1>1, <1>3 DEF Alone

LEMMA StopsOK ==
    ASSUME AloneInv, StopBegins \/ StopStep \/ Loaded \/ UNCHANGED vars
    PROVE  Alone'
<1>1. firstBegun => stored
  BY DEF AloneInv, Alone, OnePass
<1>2. CASE StopBegins
  BY <1>1, <1>2, StopOK DEF StopBegins, BeginDispose, Mounted, reconVars, AloneInv, Typed, TypeOK
<1>3. CASE StopDisposes
  <2>1. disposed /\ UNCHANGED <<started, disposed, at, arg, running, reconVars>>
    BY <1>3 DEF StopDisposes, DisposeComponent, AloneInv, Typed
  <2>2. QED
    BY <1>1, <2>1, StopOK DEF Mounted, reconVars, AloneInv, Typed, TypeOK
<1>4. CASE StopEnds \/ Loaded \/ UNCHANGED vars
  <2>1. UNCHANGED <<settings, items, pass, firstBegun, clean, compVars>> /\ (stored => stored')
    BY <1>4 DEF StopEnds, Loaded, vars, reconVars
  <2>2. Mounted' /\ UNCHANGED <<at, arg>>
    BY <2>1 DEF AloneInv, Alone, Mounted, HeldMounted, Listed, compVars
  <2>3. QED
    BY <1>1, <2>1, <2>2, StopOK
<1>5. QED
  BY <1>2, <1>3, <1>4 DEF StopStep

-----------------------------------------------------------------------------
(* The theorems.                                                           *)

LEMMA IInvInit == Init => IInv
<1> SUFFICES ASSUME Init PROVE IInv
  OBVIOUS
<1>1. CompIInv
  BY CompInitOK DEF Init
<1>2. /\ pass \in [Mounter -> PassType]
      /\ \A m \in Mounter : pass[m] = Idle /\ at[m] = "idle"
      /\ Idle.phase = "idle" /\ Idle.held = <<>> /\ ~disposed /\ disposeQ = <<>> /\ started = <<>>
  BY ReconFacts DEF Init, CompInit, Idle, PassType, Phase
<1>3. items \in [ToSet(Recon) -> Seq(Item)] /\ \A r \in ToSet(Recon) : items[r] = <<>>
  BY DEF Init
<1>4. Typed
  <2>1. \A n \in Mounter : /\ pass[n].phase \in Phase
                           /\ pass[n].idx \in 1..(Len(Recon) + 1)
                           /\ pass[n].add \cup pass[n].remove \subseteq {CompName[c] : c \in Comp}
    BY <1>2 DEF PassType
  <2>2. TypeOK
    BY <1>1, <1>3, <2>1 DEF TypeOK, Init, CompIInv
  <2>3. QED
    BY <1>1, <1>2, <2>2 DEF Typed, CompIInv, Holding, Resting
<1>5. OnePass /\ UpToDate /\ Converged
  BY <1>2, ReconcileAssumption DEF OnePass, UpToDate, In, Resting, Converged, Init
<1>6. Tables /\ Mounted
  BY <1>2, <1>3, EmptyFacts DEF Tables, OncePerName, Mounted, Listed, HeldMounted
<1>7. \A m \in Mounter : Standing(m) /\ Diff(m) /\ Reached(m)
  BY <1>2 DEF Standing, Diff, Reached, Resting
<1>8. QED
  BY <1>2, <1>4, <1>5, <1>6, <1>7 DEF IInv, Alone

\* Once passes have overlapped, it stays on record.
LEMMA OverlapStays ==
    ASSUME Typed, [Next]_vars, overlapped
    PROVE  overlapped'
<1>1. CASE UNCHANGED vars
  BY <1>1 DEF vars, reconVars
<1>2. CASE Next
  BY <1>2 DEF Next, FirstPass, Begin, Loaded, Change, PassStep, WatchPass, FnBegins, FnEnds,
     PassEnds, MountItem, Starts, StartFails, RollsBack, Commits, Records, Disowns, Takes,
     NotMounted, Disposes, StopBegins, StopStep, StopDisposes, StopEnds, Terminated,
     vars, reconVars
<1>3. QED
  BY <1>1, <1>2

LEMMA AloneNext ==
    ASSUME NamesApart, AloneInv, Typed', ~overlapped', [Next]_vars
    PROVE  Alone'
<1>1. ASSUME NEW m \in Mounter, PassStep(m)
      PROVE  Alone'
  BY <1>1, WatchPassOK, FnBeginsOK, FnEndsOK, PassEndsOK, MountItemOK, StartsOK, StartFailsOK,
     RollsBackOK, CommitsOK, RecordsOK, DisownsOK, TakesOK, NotMountedOK, DisposesOK DEF PassStep
<1>2. QED
  BY <1>1, FirstPassOK, ChangeOK, StopsOK DEF Next, Terminated

LEMMA IInvStep ==
    ASSUME NamesApart, IInv, [Next]_vars
    PROVE  IInv'
<1>1. Typed'
  BY TypedNext DEF IInv
<1>2. ASSUME ~overlapped'
      PROVE  Alone'
  <2>1. AloneInv
    BY <1>2, OverlapStays DEF IInv, AloneInv
  <2>2. QED
    BY <1>1, <1>2, <2>1, AloneNext
<1>3. QED
  BY <1>1, <1>2 DEF IInv

LEMMA Invariance ==
    ASSUME NamesApart
    PROVE  Spec => []IInv
<1>1. IInv /\ [Next]_vars => IInv'
  BY IInvStep
<1>2. QED
  BY <1>1, IInvInit, PTL DEF Spec

LEMMA ItemFacts ==
    ASSUME AloneInv, NEW r \in ToSet(Recon), NEW it \in ToSet(items[r])
    PROVE  it.comp \in Comp /\ it.name = CompName[it.comp] /\ it.name \in Pool(r)
<1>1. items[r] \in Seq(Item)
  BY DEF AloneInv, Typed, TypeOK
<1>2. it \in Item
  BY <1>1, LenProperties DEF ToSet
<1>3. QED
  BY <1>2 DEF AloneInv, Alone, Tables, Item

(* As long as no two reconcilers ask for one name, the table agrees with   *)
(* the stop sequence at every step of every pass, whatever fails, whenever *)
(* the configuration changes and whenever the App stops -- until a pass of *)
(* the config watch overlaps with the first pass of Run.                   *)
THEOREM TheTableTellsTheTruth ==
    ASSUME NamesApart
    PROVE  Spec => []TableTruthful
<1>1. IInv => TableTruthful
  <2> SUFFICES ASSUME IInv, ~overlapped
               PROVE  /\ \A r \in ToSet(Recon) : OncePerName(items[r])
                      /\ \A r \in ToSet(Recon) : \A it \in ToSet(items[r]) :
                            ~disposed => it.comp \in ToSet(started)
                      /\ \A q, r \in ToSet(Recon) :
                            \A it \in ToSet(items[q]) \cap ToSet(items[r]) : q = r
    BY DEF TableTruthful, IInv, Typed
  <2>1. AloneInv
    BY DEF IInv, AloneInv
  <2>2. \A r \in ToSet(Recon) : \A it \in ToSet(items[r]) :
           it.comp \in Comp /\ it.name \in Pool(r)
    BY <2>1, ItemFacts
  <2>3. \A r \in ToSet(Recon) : \A it \in ToSet(items[r]) : ~disposed => it.comp \in ToSet(started)
    BY <2>1, <2>2 DEF AloneInv, Alone, Mounted, Listed
  <2>4. \A q, r \in ToSet(Recon) : \A it \in ToSet(items[q]) \cap ToSet(items[r]) : q = r
    BY <2>2 DEF NamesApart
  <2>5. QED
    BY <2>1, <2>3, <2>4 DEF AloneInv, Alone, Tables
<1>2. QED
  BY <1>1, Invariance, PTL

(* As long as no two reconcilers ask for one name and no two passes have   *)
(* overlapped, the passes leave exactly what the configuration of the      *)
(* moment names, and all of it up, once the last one ended without an      *)
(* error -- also when the configuration changed before the first pass.     *)
THEOREM PassesSettle ==
    ASSUME NamesApart
    PROVE  Spec => []Settled
<1>1. IInv => Settled
  <2> SUFFICES ASSUME IInv, \A m \in Mounter : In(m, "idle"), firstBegun, clean, ~disposed,
                      ~overlapped, NEW r \in ToSet(Recon)
               PROVE  /\ Names(r) = settings[r]
                      /\ settings[r] \subseteq {CompName[c] : c \in ToSet(started)}
    BY DEF Settled
  <2>1. AloneInv
    BY DEF IInv, AloneInv
  <2>2. Names(r) = settings[r]
    BY <2>1 DEF AloneInv, Alone, Converged
  <2>3. \A it \in ToSet(items[r]) : it.comp \in Comp /\ it.name = CompName[it.comp]
    BY <2>1, ItemFacts
  <2>4. \A it \in ToSet(items[r]) : it.comp \in ToSet(started)
    BY <2>1, <2>3 DEF AloneInv, Alone, Mounted, Listed
  <2>5. QED
    BY <2>2, <2>3, <2>4 DEF Names
<1>2. QED
  BY <1>1, Invariance, PTL
=============================================================================
