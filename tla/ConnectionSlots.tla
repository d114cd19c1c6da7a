--------------------------- MODULE ConnectionSlots ---------------------------
(* The caps on provider connections at an ingress (Serve, checkIPLimit and   *)
(* releaseIPSlot of internal/tunnel/reverse_server.go): a map from address   *)
(* to a counter of its own, and a semaphore for all. One goroutine accepts;  *)
(* every connection is released by its own. The counters are atomics that    *)
(* live in a sync.Map, so a counter can be loaded by one goroutine while     *)
(* another takes it out of the map. All connections here share one address.  *)
EXTENDS Integers, FiniteSets, FiniteSetTheorems, TLAPS

CONSTANTS Conns, MaxPerIP, MaxConns, Nothing,
          NCounters    \* counters that may be held somewhere at a time

ASSUME SlotConstants ==
  /\ IsFiniteSet(Conns) /\ MaxConns \in Nat /\ MaxPerIP \in Nat /\ NCounters \in Nat
  /\ Nothing \notin 1..NCounters

VARIABLES tracker,     \* ipTracker: the address's counter, or Nothing
          count,       \* the counters' values
          at,          \* connection -> where the goroutine that has it stands
          loaded,      \* connection -> the counter that goroutine loaded, or Nothing
          refused,     \* the connections the semaphore had no place for
          sem          \* places of the semaphore in use

Counters == 1..NCounters

slotVars == <<tracker, count, at, loaded, refused, sem>>

SlotsInit ==
  /\ tracker = Nothing
  /\ count = [x \in Counters |-> 0]
  /\ at = [c \in Conns |-> "away"]
  /\ loaded = [c \in Conns |-> Nothing]
  /\ refused = {} /\ sem = 0

Unused(x) == x # tracker /\ \A c \in Conns : loaded[c] # x

(* Serve takes the next connection when it is through with the one before.  *)
Accepting == \E c \in Conns : at[c] \in {"loaded", "counted"} \/ c \in refused

(* checkIPLimit: LoadOrStore.                                               *)
LoadCounter(c) ==
  /\ at[c] = "away" /\ ~Accepting
  /\ at' = [at EXCEPT ![c] = "loaded"]
  /\ IF tracker # Nothing
     THEN /\ loaded' = [loaded EXCEPT ![c] = tracker]
          /\ UNCHANGED <<tracker, count>>
     ELSE \E x \in Counters :
            /\ Unused(x) /\ \A y \in Counters : y < x => ~Unused(y)
            /\ tracker' = x
            /\ loaded' = [loaded EXCEPT ![c] = x]
            /\ count' = [count EXCEPT ![x] = 0]
  /\ UNCHANGED <<refused, sem>>

(* checkIPLimit: the loop around CompareAndSwap.                            *)
CheckIPLimit(c) ==
  /\ at[c] = "loaded"
  /\ IF count[loaded[c]] >= MaxPerIP
     THEN at' = [at EXCEPT ![c] = "away"] /\ UNCHANGED count
     ELSE /\ at' = [at EXCEPT ![c] = "counted"]
          /\ count' = [count EXCEPT ![loaded[c]] = @ + 1]
  /\ loaded' = [loaded EXCEPT ![c] = Nothing]
  /\ UNCHANGED <<tracker, refused, sem>>

(* Mutant: a refused connection keeps its place of the address. *)
AcquireOrLeak(c) ==
  /\ at[c] = "counted"
  /\ IF sem < MaxConns
     THEN at' = [at EXCEPT ![c] = "running"] /\ sem' = sem + 1
     ELSE at' = [at EXCEPT ![c] = "away"] /\ UNCHANGED sem
  /\ UNCHANGED <<tracker, count, loaded, refused>>

(* Serve: the semaphore. A connection it has no place for gives its place   *)
(* of the address back.                                                     *)
Acquire(c) ==
  /\ at[c] = "counted"
  /\ IF sem < MaxConns
     THEN /\ at' = [at EXCEPT ![c] = "running"]
          /\ sem' = sem + 1 /\ UNCHANGED refused
     ELSE /\ at' = [at EXCEPT ![c] = "ended"]
          /\ refused' = refused \cup {c} /\ UNCHANGED sem
  /\ UNCHANGED <<tracker, count, loaded>>

HandlerReturns(c) ==
  /\ at[c] = "running"
  /\ at' = [at EXCEPT ![c] = "ended"]
  /\ UNCHANGED <<tracker, count, loaded, refused, sem>>

(* releaseIPSlot: Load, Add, and Delete when nothing is left.               *)
ReleaseLoad(c) ==
  /\ at[c] = "ended"
  /\ at' = [at EXCEPT ![c] = IF tracker = Nothing THEN "released" ELSE "releasing"]
  /\ loaded' = [loaded EXCEPT ![c] = tracker]
  /\ UNCHANGED <<tracker, count, refused, sem>>

ReleaseAdd(c) ==
  /\ at[c] = "releasing"
  /\ count' = [count EXCEPT ![loaded[c]] = @ - 1]
  /\ at' = [at EXCEPT ![c] = IF count[loaded[c]] <= 1 THEN "deleting" ELSE "released"]
  /\ loaded' = [loaded EXCEPT ![c] = Nothing]
  /\ UNCHANGED <<tracker, refused, sem>>

ReleaseDelete(c) ==
  /\ at[c] = "deleting"
  /\ tracker' = Nothing
  /\ at' = [at EXCEPT ![c] = "released"]
  /\ UNCHANGED <<count, loaded, refused, sem>>

(* The deferred receive from the semaphore, for those that hold a place.    *)
CloseConn(c) ==
  /\ at[c] = "released"
  /\ at' = [at EXCEPT ![c] = "away"]
  /\ loaded' = [loaded EXCEPT ![c] = Nothing]
  /\ sem' = IF c \in refused THEN sem ELSE sem - 1
  /\ refused' = refused \ {c}
  /\ UNCHANGED <<tracker, count>>

SlotsNext ==
  \E c \in Conns :
    \/ LoadCounter(c) \/ CheckIPLimit(c) \/ Acquire(c) \/ HandlerReturns(c)
    \/ ReleaseLoad(c) \/ ReleaseAdd(c) \/ ReleaseDelete(c) \/ CloseConn(c)

SlotsSpec == SlotsInit /\ [][SlotsNext]_slotVars

(* The connections counted and not yet given back.                          *)
Holding == {c \in Conns : at[c] \in {"counted", "running", "ended", "releasing"}}

(* The counter of an address never exceeds the connections that hold it:    *)
(* what has ended, been refused or been counted on a counter that is gone   *)
(* does not lock the address out. (The converse does not hold: between Add  *)
(* and Delete a new connection may be counted on the counter that goes.)    *)
NoLockout == tracker # Nothing => count[tracker] <= Cardinality(Holding)

(* The connections that hold a place of the semaphore.                      *)
Placed == {c \in Conns : at[c] \in {"running", "ended", "releasing", "deleting", "released"}
                          /\ c \notin refused}

(* Every connection gives its place of the semaphore back exactly once.     *)
PlacesExact == sem = Cardinality(Placed) /\ sem <= MaxConns

(* Neither cap leaks a place. *)
SlotsSound == NoLockout /\ PlacesExact
-----------------------------------------------------------------------------
(* Proof, for any connections and caps, that no place leaks.                *)

Places == {"away", "loaded", "counted", "running", "ended", "releasing", "deleting", "released"}

SlotsTyped ==
  /\ tracker \in Counters \cup {Nothing}
  /\ count \in [Counters -> Int]
  /\ at \in [Conns -> Places]
  /\ loaded \in [Conns -> Counters \cup {Nothing}]
  /\ \A c \in Conns : at[c] \in {"loaded", "releasing"} => loaded[c] \in Counters
  /\ \A c \in refused : c \in Conns /\ at[c] \in {"ended", "releasing", "deleting", "released"}
  /\ sem \in Int

(* The connections that will still take one off the counter in the map:     *)
(* one that is about to take it off a counter that is gone is not counted.  *)
Owing == {c \in Conns : \/ at[c] \in {"counted", "running", "ended"}
                        \/ at[c] = "releasing" /\ loaded[c] = tracker}

(* NoLockout is not inductive: a connection may hold a counter that is gone. *)
SlotsInv ==
  /\ SlotsTyped /\ PlacesExact
  /\ tracker # Nothing => count[tracker] <= Cardinality(Owing)

(* Sets of connections are finite, and counted exactly. *)
LEMMA Counting ==
  ASSUME NEW S \in SUBSET Conns, NEW c \in Conns
  PROVE  /\ IsFiniteSet(S) /\ Cardinality(S) \in Nat
         /\ c \notin S => Cardinality(S \cup {c}) = Cardinality(S) + 1
         /\ c \in S => Cardinality(S \ {c}) = Cardinality(S) - 1
<1>1. IsFiniteSet(S)
  BY FS_Subset, SlotConstants
<1> QED BY <1>1, FS_CardinalityType, FS_AddElement, FS_RemoveElement

LEMMA InitTaken == SlotsInit => SlotsInv
<1> SUFFICES ASSUME SlotsInit PROVE SlotsInv
  OBVIOUS
<1>1. Placed = {}
  BY DEF SlotsInit, Placed
<1>2. sem = Cardinality(Placed) /\ sem <= MaxConns
  BY <1>1, FS_EmptySet, SlotConstants DEF SlotsInit
<1> QED BY <1>2 DEF SlotsInit, SlotsInv, SlotsTyped, Places, PlacesExact

LEMMA StepTyped == SlotsInv /\ [SlotsNext]_slotVars => SlotsTyped'
<1> SUFFICES ASSUME SlotsInv, [SlotsNext]_slotVars PROVE SlotsTyped'
  OBVIOUS
<1> USE DEF SlotsInv, SlotsTyped, Places
<1>1. ASSUME NEW c \in Conns, LoadCounter(c) PROVE SlotsTyped'
  BY <1>1, SlotConstants DEF LoadCounter
<1>2. ASSUME NEW c \in Conns, CheckIPLimit(c) PROVE SlotsTyped'
  BY <1>2 DEF CheckIPLimit
<1>3. ASSUME NEW c \in Conns, Acquire(c) PROVE SlotsTyped'
  BY <1>3 DEF Acquire
<1>4. ASSUME NEW c \in Conns, HandlerReturns(c) PROVE SlotsTyped'
  BY <1>4 DEF HandlerReturns
<1>5. ASSUME NEW c \in Conns, ReleaseLoad(c) PROVE SlotsTyped'
  BY <1>5 DEF ReleaseLoad
<1>6. ASSUME NEW c \in Conns, ReleaseAdd(c) PROVE SlotsTyped'
  BY <1>6 DEF ReleaseAdd
<1>7. ASSUME NEW c \in Conns, ReleaseDelete(c) PROVE SlotsTyped'
  BY <1>7 DEF ReleaseDelete
<1>8. ASSUME NEW c \in Conns, CloseConn(c) PROVE SlotsTyped'
  BY <1>8 DEF CloseConn
<1>9. CASE UNCHANGED slotVars
  BY <1>9 DEF slotVars
<1> QED BY <1>1, <1>2, <1>3, <1>4, <1>5, <1>6, <1>7, <1>8, <1>9 DEF SlotsNext

LEMMA StepPlaces == SlotsInv /\ [SlotsNext]_slotVars => PlacesExact'
<1> SUFFICES ASSUME SlotsInv, [SlotsNext]_slotVars PROVE PlacesExact'
  OBVIOUS
<1>0. /\ Placed \in SUBSET Conns /\ sem = Cardinality(Placed) /\ sem <= MaxConns
      /\ sem \in Int /\ MaxConns \in Int
  BY SlotConstants DEF Placed, SlotsInv, PlacesExact, SlotsTyped
<1>1. ASSUME UNCHANGED sem, Placed' = Placed PROVE PlacesExact'
  BY <1>0, <1>1 DEF PlacesExact
<1>2. ASSUME NEW c \in Conns, \/ LoadCounter(c) \/ CheckIPLimit(c) \/ HandlerReturns(c) \/ ReleaseLoad(c)
                              \/ ReleaseAdd(c) \/ ReleaseDelete(c)
      PROVE  PlacesExact'
  <2>1. UNCHANGED <<sem, refused>>
    BY <1>2 DEF LoadCounter, CheckIPLimit, HandlerReturns, ReleaseLoad, ReleaseAdd, ReleaseDelete
  <2>2. \E w \in Places : /\ at' = [at EXCEPT ![c] = w]
                          /\ \/ at[c] \in {"away", "loaded"} /\ w \in {"away", "loaded", "counted"}
                             \/ /\ at[c] \in {"running", "ended", "releasing", "deleting"}
                                /\ w \in {"ended", "releasing", "deleting", "released"}
    BY <1>2 DEF LoadCounter, CheckIPLimit, HandlerReturns, ReleaseLoad, ReleaseAdd, ReleaseDelete,
                Places
  <2>3. Placed' = Placed
    BY <2>1, <2>2 DEF Placed, SlotsInv, SlotsTyped
  <2> QED BY <1>1, <2>1, <2>3
<1>3. ASSUME NEW c \in Conns, Acquire(c) PROVE PlacesExact'
  <2>1. c \notin Placed /\ c \notin refused
    BY <1>3 DEF Acquire, Placed, SlotsInv, SlotsTyped
  <2>2. CASE sem < MaxConns
    <3>1. Placed' = Placed \cup {c} /\ sem' = sem + 1
      BY <1>3, <2>1, <2>2 DEF Acquire, Placed, SlotsInv, SlotsTyped
    <3>2. Cardinality(Placed') = Cardinality(Placed) + 1
      BY <1>0, <2>1, <3>1, Counting
    <3> QED BY <1>0, <2>2, <3>1, <3>2 DEF PlacesExact
  <2>3. CASE ~(sem < MaxConns)
    <3>1. Placed' = Placed /\ UNCHANGED sem
      BY <1>3, <2>1, <2>3 DEF Acquire, Placed, SlotsInv, SlotsTyped
    <3> QED BY <1>1, <3>1
  <2> QED BY <2>2, <2>3
<1>4. ASSUME NEW c \in Conns, CloseConn(c) PROVE PlacesExact'
  <2>1. CASE c \in refused
    <3>1. Placed' = Placed /\ UNCHANGED sem
      BY <1>4, <2>1 DEF CloseConn, Placed, SlotsInv, SlotsTyped
    <3> QED BY <1>1, <3>1
  <2>2. CASE c \notin refused
    <3>1. c \in Placed /\ Placed' = Placed \ {c} /\ sem' = sem - 1
      BY <1>4, <2>2 DEF CloseConn, Placed, SlotsInv, SlotsTyped
    <3>2. Cardinality(Placed') = Cardinality(Placed) - 1
      BY <1>0, <3>1, Counting
    <3> QED BY <1>0, <3>1, <3>2 DEF PlacesExact
  <2> QED BY <2>1, <2>2
<1>5. CASE UNCHANGED slotVars
  <2>1. UNCHANGED sem /\ Placed' = Placed
    BY <1>5 DEF slotVars, Placed
  <2> QED BY <1>1, <2>1
<1> QED BY <1>2, <1>3, <1>4, <1>5 DEF SlotsNext

LEMMA StepOwing ==
  SlotsInv /\ [SlotsNext]_slotVars => (tracker # Nothing => count[tracker] <= Cardinality(Owing))'
<1> SUFFICES ASSUME SlotsInv, [SlotsNext]_slotVars, tracker' # Nothing
             PROVE  count'[tracker'] <= Cardinality(Owing')
  OBVIOUS
<1>0. /\ Owing \in SUBSET Conns /\ Owing' \in SUBSET Conns
      /\ tracker # Nothing => tracker \in Counters /\ count[tracker] \in Int
                              /\ count[tracker] <= Cardinality(Owing)
  BY DEF Owing, SlotsInv, SlotsTyped
<1>1. ASSUME UNCHANGED <<tracker, count>>, Owing' = Owing
      PROVE  count'[tracker'] <= Cardinality(Owing')
  BY <1>0, <1>1
<1>2. ASSUME NEW c \in Conns, LoadCounter(c) PROVE count'[tracker'] <= Cardinality(Owing')
  <2>1. CASE tracker # Nothing
    <3>1. UNCHANGED <<tracker, count>> /\ Owing' = Owing
      BY <1>2, <2>1 DEF LoadCounter, Owing, SlotsInv, SlotsTyped
    <3> QED BY <1>1, <3>1
  <2>2. CASE tracker = Nothing
    <3>1. count'[tracker'] = 0
      BY <1>2, <2>2 DEF LoadCounter, SlotsInv, SlotsTyped
    <3>2. Cardinality(Owing') \in Nat
      BY <1>0, Counting
    <3> QED BY <3>1, <3>2
  <2> QED BY <2>1, <2>2
<1>3. ASSUME NEW c \in Conns, CheckIPLimit(c) PROVE count'[tracker'] <= Cardinality(Owing')
  <2>1. UNCHANGED tracker /\ tracker \in Counters /\ loaded[c] \in Counters /\ c \notin Owing
    BY <1>0, <1>3 DEF CheckIPLimit, Owing, SlotsInv, SlotsTyped
  <2>2. CASE count[loaded[c]] >= MaxPerIP
    <3>1. UNCHANGED <<tracker, count>> /\ Owing' = Owing
      BY <1>3, <2>2 DEF CheckIPLimit, Owing, SlotsInv, SlotsTyped
    <3> QED BY <1>1, <3>1
  <2>3. CASE ~(count[loaded[c]] >= MaxPerIP)
    <3>1. Owing' = Owing \cup {c}
      BY <1>3, <2>3 DEF CheckIPLimit, Owing, SlotsInv, SlotsTyped
    <3>2. Cardinality(Owing') = Cardinality(Owing) + 1 /\ Cardinality(Owing) \in Nat
      BY <1>0, <2>1, <3>1, Counting
    <3>3. count'[tracker] = count[tracker] \/ count'[tracker] = count[tracker] + 1
      BY <1>3, <2>1, <2>3 DEF CheckIPLimit, SlotsInv, SlotsTyped
    <3> QED BY <1>0, <2>1, <3>2, <3>3
  <2> QED BY <2>2, <2>3
<1>4. ASSUME NEW c \in Conns, Acquire(c) \/ HandlerReturns(c)
      PROVE  count'[tracker'] <= Cardinality(Owing')
  <2>1. UNCHANGED <<tracker, count>> /\ Owing' = Owing
    BY <1>4 DEF Acquire, HandlerReturns, Owing, SlotsInv, SlotsTyped
  <2> QED BY <1>1, <2>1
<1>5. ASSUME NEW c \in Conns, ReleaseLoad(c) PROVE count'[tracker'] <= Cardinality(Owing')
  <2>1. UNCHANGED <<tracker, count>> /\ Owing' = Owing
    BY <1>5 DEF ReleaseLoad, Owing, SlotsInv, SlotsTyped
  <2> QED BY <1>1, <2>1
<1>6. ASSUME NEW c \in Conns, ReleaseAdd(c) PROVE count'[tracker'] <= Cardinality(Owing')
  <2>1. UNCHANGED tracker /\ tracker \in Counters /\ loaded[c] \in Counters
    BY <1>0, <1>6 DEF ReleaseAdd, SlotsInv, SlotsTyped
  <2>2. CASE loaded[c] = tracker
    <3>1. c \in Owing /\ Owing' = Owing \ {c} /\ count'[tracker] = count[tracker] - 1
      BY <1>6, <2>1, <2>2 DEF ReleaseAdd, Owing, SlotsInv, SlotsTyped
    <3>2. Cardinality(Owing') = Cardinality(Owing) - 1 /\ Cardinality(Owing) \in Nat
      BY <1>0, <3>1, Counting
    <3> QED BY <1>0, <2>1, <3>1, <3>2
  <2>3. CASE loaded[c] # tracker
    <3>1. Owing' = Owing /\ count'[tracker] = count[tracker]
      BY <1>6, <2>1, <2>3 DEF ReleaseAdd, Owing, SlotsInv, SlotsTyped
    <3> QED BY <1>0, <2>1, <3>1
  <2> QED BY <2>2, <2>3
<1>7. ASSUME NEW c \in Conns, ReleaseDelete(c) PROVE FALSE
  BY <1>7 DEF ReleaseDelete
<1>8. ASSUME NEW c \in Conns, CloseConn(c) PROVE count'[tracker'] <= Cardinality(Owing')
  <2>1. UNCHANGED <<tracker, count>> /\ Owing' = Owing
    BY <1>8 DEF CloseConn, Owing, SlotsInv, SlotsTyped
  <2> QED BY <1>1, <2>1
<1>9. CASE UNCHANGED slotVars
  <2>1. UNCHANGED <<tracker, count>> /\ Owing' = Owing
    BY <1>9 DEF slotVars, Owing
  <2> QED BY <1>1, <2>1
<1> QED BY <1>2, <1>3, <1>4, <1>5, <1>6, <1>7, <1>8, <1>9 DEF SlotsNext

LEMMA InvSound == SlotsInv => SlotsSound
<1> SUFFICES ASSUME SlotsInv, tracker # Nothing PROVE count[tracker] <= Cardinality(Holding)
  BY DEF SlotsInv, SlotsSound, NoLockout
<1>1. Owing \in SUBSET Holding /\ Holding \in SUBSET Conns
  BY DEF Owing, Holding
<1>2. IsFiniteSet(Holding)
  BY <1>1, FS_Subset, SlotConstants
<1>3. Cardinality(Owing) <= Cardinality(Holding) /\ IsFiniteSet(Owing)
  BY <1>1, <1>2, FS_Subset
<1>4. Cardinality(Owing) \in Nat /\ Cardinality(Holding) \in Nat
  BY <1>2, <1>3, FS_CardinalityType
<1>5. count[tracker] \in Int /\ count[tracker] <= Cardinality(Owing)
  BY DEF SlotsInv, SlotsTyped
<1> QED BY <1>3, <1>4, <1>5

(* However the accepting goroutine and those that release connections       *)
(* interleave on a counter that one of them takes out of the map, an        *)
(* address is never locked out by connections that are gone, and the        *)
(* semaphore counts exactly the connections that run.                       *)
THEOREM SlotsAlwaysSound == SlotsSpec => []SlotsSound
<1>1. SlotsInit => SlotsInv
  BY InitTaken
<1>2. SlotsInv /\ [SlotsNext]_slotVars => SlotsInv'
  BY StepTyped, StepPlaces, StepOwing DEF SlotsInv
<1>3. SlotsInv => SlotsSound
  BY InvSound
<1> QED BY <1>1, <1>2, <1>3, PTL DEF SlotsSpec
=============================================================================
