---------------------------- MODULE LoadableCache ----------------------------
(***************************************************************************)
(* The read-through cache of cache/loadable over the backend of            *)
(* cache/local, for one key (nothing but a lock stripe relates two keys):  *)
(* readers whose misses are merged into one load and who each write back   *)
(* what was loaded, writers who change the data source and then set or     *)
(* delete the entry, and takers of a lock, who use SetNX.                  *)
(*                                                                         *)
(* A value is the version of the source it was read from or written to.    *)
(* The source and the order of a writer's two steps are the application's. *)
(***************************************************************************)
EXTENDS Integers

CONSTANTS
    Caller,     \* goroutines that use the cache
    MaxWrites,  \* bound: changes of the source
    MaxTakes,   \* bound: calls of SetNX that get as far as the lock
    MaxFaults,  \* bound: operations of the backend that fail
    None,       \* no entry, no flight, no goroutine
    Unread,     \* the loader has not read the source yet
    Error,      \* the loader failed
    Token       \* what SetNX writes

Version == 0..MaxWrites

ASSUME LoadableAssumption ==
    /\ MaxWrites \in Nat /\ MaxTakes \in Nat /\ MaxFaults \in Nat
    /\ None \notin {Unread, Error, Token} /\ Unread # Error
    /\ {None, Unread, Error, Token} \cap Int = {}
    /\ None \notin Caller

VARIABLES
    source,   \* the version the data source holds
    cached,   \* the entry of the backend
    degrade,  \* config.degradeOnError
    flight,   \* singleflight: what the load under way has read
    nxLock,   \* nxLocks: who holds the stripe of the key
    caller,     \* the callers
    faults,
    takes,
    settled,  \* history: the newest version a writer has finished with
    crossed,  \* history: a change of the source met a reader that had missed
              \* or another writer, or a writer's call of the backend failed
    wins      \* history: SetNX calls that returned true since the entry was
              \* last away

backend == <<cached, wins>>
limits == <<degrade, faults, takes>>
cacheVars == <<source, backend, flight, nxLock, caller, limits, settled, crossed>>

(* val: what a Get is about to write back and return, or what a writer has *)
(* put into the source; floor: settled when the Get began.                 *)
Fresh == [at |-> "idle", val |-> None, floor |-> 0]

\* Between the miss of a Get and its write-back.
Missed == {"missed", "leads", "waits", "loaded"}

CallState == [at : {"idle", "wrote", "absent"} \cup Missed,
              val : Version \cup {None}, floor : Version]

CacheTypeOK ==
    /\ source \in Version
    /\ cached \in Version \cup {None, Token}
    /\ degrade \in BOOLEAN
    /\ flight \in Version \cup {None, Unread, Error}
    /\ nxLock \in Caller \cup {None}
    /\ caller \in [Caller -> CallState]
    /\ faults \in 0..MaxFaults /\ takes \in 0..MaxTakes
    /\ settled \in Version
    /\ crossed \in BOOLEAN
    /\ wins \in 0..MaxTakes

CacheInit ==
    /\ source = 0
    /\ cached = None /\ wins = 0
    /\ degrade \in BOOLEAN
    /\ flight = None
    /\ nxLock = None
    /\ caller = [c \in Caller |-> Fresh]
    /\ faults = 0 /\ takes = 0
    /\ settled = 0
    /\ crossed = FALSE

Free(c) == caller[c].at = "idle"

Goes(c, step) == caller' = [caller EXCEPT ![c].at = step]
Returns(c) == caller' = [caller EXCEPT ![c] = Fresh]
Begins(c) == caller' = [caller EXCEPT ![c] = [at |-> "missed", val |-> None, floor |-> settled]]

Fault ==
    /\ faults < MaxFaults
    /\ faults' = faults + 1
    /\ UNCHANGED <<degrade, takes>>

Puts(v) == cached' = v /\ UNCHANGED wins
GoesAway == cached' = None /\ wins' = 0

-----------------------------------------------------------------------------
(* Get.                                                                    *)

\* A hit returns the entry and changes nothing.
GetMiss(c) ==
    /\ Free(c) /\ cached = None
    /\ Begins(c)
    /\ UNCHANGED <<source, backend, flight, nxLock, limits, settled, crossed>>

\* The backend fails: with degradeOnError that is a miss, else the error is
\* returned.
GetFault(c) ==
    /\ Free(c) /\ Fault
    /\ IF degrade THEN Begins(c) ELSE Returns(c)
    /\ UNCHANGED <<source, backend, flight, nxLock, settled, crossed>>

\* group.Do: the first one in leads the load, the others wait for it.
Lead(c) ==
    /\ caller[c].at = "missed" /\ flight = None
    /\ flight' = Unread
    /\ Goes(c, "leads")
    /\ UNCHANGED <<source, backend, nxLock, limits, settled, crossed>>

Join(c) ==
    /\ caller[c].at = "missed" /\ flight # None
    /\ Goes(c, "waits")
    /\ UNCHANGED <<source, backend, flight, nxLock, limits, settled, crossed>>

\* The loader reads the source, or fails (the context of the leader may have
\* been cancelled).
Load ==
    /\ flight = Unread
    /\ flight' \in {source, Error}
    /\ UNCHANGED <<source, backend, nxLock, caller, limits, settled, crossed>>

InFlight(c) == caller[c].at \in {"leads", "waits"}

Landed(c) ==
    IF flight = Error THEN Fresh ELSE [caller[c] EXCEPT !.at = "loaded", !.val = flight]

\* The flight ends for everybody in it: each has its own copy of the value,
\* or returns the error.
Land ==
    /\ flight \notin {None, Unread}
    /\ flight' = None
    /\ caller' = [c \in Caller |-> IF InFlight(c) THEN Landed(c) ELSE caller[c]]
    /\ UNCHANGED <<source, backend, nxLock, limits, settled, crossed>>

\* The write-back, of the leader and of everybody merged into its load; it
\* may fail unnoticed.
Backfill(c) ==
    /\ caller[c].at = "loaded"
    /\ Returns(c)
    /\ \/ Puts(caller[c].val) /\ UNCHANGED limits
       \/ Fault /\ UNCHANGED backend
    /\ UNCHANGED <<source, flight, nxLock, settled, crossed>>

-----------------------------------------------------------------------------
(* Set and Delete of a writer, who has changed the source.                 *)

WriteSource(c) ==
    /\ Free(c) /\ source < MaxWrites
    /\ source' = source + 1
    /\ caller' = [caller EXCEPT ![c] = [Fresh EXCEPT !.at = "wrote", !.val = source + 1]]
    /\ crossed' = (crossed \/ \E d \in Caller : caller[d].at \in Missed \cup {"wrote"})
    /\ UNCHANGED <<backend, flight, nxLock, limits, settled>>

Finishes(c) ==
    /\ settled' = IF caller[c].val > settled THEN caller[c].val ELSE settled
    /\ Returns(c)
    /\ UNCHANGED <<source, flight, nxLock, limits, crossed>>

\* Mutant of Set: SetNX of the backend is called in its place.
SetIfAbsent(c) ==
    /\ caller[c].at = "wrote"
    /\ IF cached = None THEN Puts(caller[c].val) ELSE UNCHANGED backend
    /\ Finishes(c)

Set(c) ==
    /\ caller[c].at = "wrote"
    /\ Puts(caller[c].val)
    /\ Finishes(c)

Delete(c) ==
    /\ caller[c].at = "wrote"
    /\ GoesAway
    /\ Finishes(c)

\* The backend fails, and the writer gets the error.
WriteFails(c) ==
    /\ caller[c].at = "wrote"
    /\ Fault
    /\ Returns(c)
    /\ crossed' = TRUE
    /\ UNCHANGED <<source, backend, flight, nxLock, settled>>

-----------------------------------------------------------------------------
(* SetNX of the local backend: a check and a set under a striped lock,     *)
(* which Get, Set and Delete do not take.                                  *)

\* Mutant of NXCheck: the check is made before the lock is asked for.
NXCheckUnlocked(c) ==
    /\ Free(c) /\ takes < MaxTakes
    /\ cached = None
    /\ caller' = [caller EXCEPT ![c] = [Fresh EXCEPT !.at = "absent"]]
    /\ takes' = takes + 1
    /\ UNCHANGED <<source, backend, flight, nxLock, degrade, faults, settled, crossed>>

\* Somebody's entry is there: false, and the lock is released.
NXRefused(c) ==
    /\ Free(c) /\ takes < MaxTakes
    /\ nxLock = None /\ cached # None
    /\ Returns(c)
    /\ takes' = takes + 1
    /\ UNCHANGED <<source, backend, flight, nxLock, degrade, faults, settled, crossed>>

NXCheck(c) ==
    /\ Free(c) /\ takes < MaxTakes
    /\ nxLock = None /\ cached = None
    /\ nxLock' = c
    /\ caller' = [caller EXCEPT ![c] = [Fresh EXCEPT !.at = "absent"]]
    /\ takes' = takes + 1
    /\ UNCHANGED <<source, backend, flight, degrade, faults, settled, crossed>>

NXSet(c) ==
    /\ caller[c].at = "absent"
    /\ cached' = Token /\ wins' = wins + 1
    /\ nxLock' = None
    /\ Returns(c)
    /\ UNCHANGED <<source, flight, limits, settled, crossed>>

\* An entry that does not fit is refused: the error is returned.
NXFails(c) ==
    /\ caller[c].at = "absent"
    /\ Fault
    /\ nxLock' = None
    /\ Returns(c)
    /\ UNCHANGED <<source, backend, flight, settled, crossed>>

-----------------------------------------------------------------------------

\* The entry's time is over, it is evicted, a holder of the lock deletes it,
\* or Close clears the cache.
Expire ==
    /\ cached # None
    /\ GoesAway
    /\ UNCHANGED <<source, flight, nxLock, caller, limits, settled, crossed>>

Flies(c) == Lead(c) \/ Join(c)

CacheNext ==
    \/ Load \/ Land \/ Expire
    \/ \E c \in Caller :
          \/ GetMiss(c) \/ GetFault(c) \/ Flies(c) \/ Backfill(c)
          \/ WriteSource(c) \/ Set(c) \/ Delete(c) \/ WriteFails(c)
          \/ NXRefused(c) \/ NXCheck(c) \/ NXSet(c) \/ NXFails(c)

CacheSpec == CacheInit /\ [][CacheNext]_cacheVars

-----------------------------------------------------------------------------
(* Properties.                                                             *)

(* As long as no change of the source meets a reader that has missed, or   *)
(* another writer, and no writer is told that its call failed, readers see *)
(* the last version a writer finished with or a newer one: in the entry,   *)
(* which is the source's once the writer is through, and from a load,      *)
(* although others may have begun it.  A merged load, a write-back that    *)
(* fails, a degraded Get and an eviction never make the cache stale.       *)
StaleExplained ==
    /\ CacheTypeOK  \* the state is well formed, and
    /\ ~crossed =>
          /\ (\A c \in Caller : caller[c].at # "wrote") => cached \in {None, Token, source}
          /\ cached \in Version => cached >= settled
          /\ \A c \in Caller : caller[c].at = "loaded" => caller[c].val >= caller[c].floor

(* Of the SetNX calls that find the key absent one wins: a second one      *)
(* returns true only after the entry was away again ("atomically sets the  *)
(* value only if the key does not already exist").                         *)
OneWinner == wins <= 1

(* What SetNX wrote is what others find until it goes away: no write-back  *)
(* takes its place.                                                        *)
LockHolds == wins = 1 => cached = Token
=============================================================================
