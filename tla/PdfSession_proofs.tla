-------------------------- MODULE PdfSession_proofs --------------------------
(***************************************************************************)
(* Proofs about the session manager for every number of sessions, windows, *)
(* command threads and every limit.                                        *)
(***************************************************************************)
EXTENDS PdfSession, FiniteSetTheorems, SequenceTheorems, TLAPS

-----------------------------------------------------------------------------
(* The owner constant is not empty.                                        *)

LEMMA OwnerChoice == AnyOwner \in Owner /\ AnySession \in Session
<1>1. PICK l \in Label : TRUE
  BY BoundsAssumption
<1>2. [label |-> l, gen |-> 1] \in Owner
  BY <1>1, BoundsAssumption DEF Owner
<1>3. AnyOwner \in Owner
  BY <1>2, Zenon DEF AnyOwner
<1>4. AnySession \in Session
  BY BoundsAssumption, Zenon DEF AnySession
<1> QED
  BY <1>3, <1>4

LEMMA SessionSubsetFinite ==
  ASSUME NEW S \in SUBSET Session
  PROVE  IsFiniteSet(S) /\ Cardinality(S) \in Nat
BY BoundsAssumption, FS_Subset, FS_CardinalityType

(***************************************************************************)
(* A hand-over to the cleanup worker moves entries from one part of the    *)
(* quota to another.                                                       *)
(***************************************************************************)
LEMMA EnqueueKeepsQuota ==
  ASSUME TypeOK, HandleQuota,
         NEW A \in SUBSET Live, Enqueue(A),
         openingInFlight' = openingInFlight
  PROVE  /\ stage' \in [Session -> Stage]
         /\ cleanupPending' \in Nat
         /\ HandleQuota'
         /\ Live' = Live \ A
<1>1. stage \in [Session -> Stage] /\ A \in SUBSET Session
  BY DEF TypeOK, Live
<1>2. stage' \in [Session -> Stage]
  BY <1>1 DEF Enqueue, Stage
<1>3. /\ Opening' = Opening
      /\ Cleanup' = Cleanup \cup A
      /\ Occupied' = Occupied
      /\ Live' = Live \ A
      /\ Cleanup \cap A = {}
  BY <1>1 DEF Enqueue, Opening, Cleanup, Occupied, Live
<1>4. /\ IsFiniteSet(Cleanup) /\ IsFiniteSet(A) /\ IsFiniteSet(Occupied)
      /\ Cardinality(A) \in Nat /\ Cardinality(Cleanup) \in Nat
  BY <1>1, SessionSubsetFinite DEF Cleanup, Occupied
<1>5. Cardinality(Cleanup \cup A) = Cardinality(Cleanup) + Cardinality(A)
  <2>1. Cardinality(Cleanup \cap A) = 0
    BY <1>3, FS_EmptySet
  <2>2. Cardinality(Cleanup \cup A)
          = Cardinality(Cleanup) + Cardinality(A) - Cardinality(Cleanup \cap A)
    BY <1>4, FS_Union, Zenon
  <2> QED
    BY <1>4, <2>1, <2>2
<1>6. cleanupPending' = Cardinality(Cleanup') /\ cleanupPending' \in Nat
  BY <1>3, <1>4, <1>5 DEF Enqueue, HandleQuota
<1>7. HandleQuota'
  BY <1>3, <1>6 DEF HandleQuota
<1> QED
  BY <1>2, <1>3, <1>6, <1>7

(***************************************************************************)
(* What a reap does: it hands over entries of S that are deferred and have *)
(* no user after the step.                                                 *)
(***************************************************************************)
LEMMA ReapHandsOver ==
  ASSUME NEW S, Reap(S)
  PROVE  \E A \in SUBSET (S \cap Live) :
           /\ \A s \in A : IdleDeferred(s)'
           /\ Enqueue(A)
BY DEF Reap, Accepted

LEMMA ReapKeepsQuota ==
  ASSUME TypeOK, HandleQuota, NEW S, Reap(S), openingInFlight' = openingInFlight
  PROVE  /\ stage' \in [Session -> Stage]
         /\ cleanupPending' \in Nat
         /\ HandleQuota'
         /\ Live' \subseteq Live
         /\ \A s \in Live \ Live' : Drained(s)'
<1>1. PICK A \in SUBSET (S \cap Live) : Enqueue(A) /\ \A s \in A : IdleDeferred(s)'
  BY ReapHandsOver
<1>2. A \in SUBSET Live
  OBVIOUS
<1>3. /\ stage' \in [Session -> Stage] /\ cleanupPending' \in Nat /\ HandleQuota'
      /\ Live' = Live \ A
  BY <1>1, <1>2, EnqueueKeepsQuota
<1> QED
  BY <1>1, <1>3 DEF IdleDeferred

(***************************************************************************)
(* Counting units of work.                                                 *)
(***************************************************************************)
LEMMA UnitsFinite ==
  ASSUME NEW L \in SUBSET Session, NEW b \in Nat, NEW f
  PROVE  IsFiniteSet(Units(f, L, b)) /\ Cardinality(Units(f, L, b)) \in Nat
<1>1. IsFiniteSet(L) /\ IsFiniteSet(1..b)
  BY SessionSubsetFinite, FS_Interval
<1>2. IsFiniteSet(L \X (1..b))
  BY <1>1, FS_Product
<1> QED
  BY <1>2, FS_Subset, FS_CardinalityType DEF Units

LEMMA CountUp ==
  ASSUME NEW b \in Nat, NEW f \in [Session -> 0..b], NEW s \in Session, f[s] < b
  PROVE  [f EXCEPT ![s] = @ + 1] \in [Session -> 0..b]
OBVIOUS

LEMMA CountDown ==
  ASSUME NEW b \in Nat, NEW f \in [Session -> 0..b], NEW s \in Session, f[s] > 0
  PROVE  [f EXCEPT ![s] = @ - 1] \in [Session -> 0..b]
OBVIOUS

LEMMA UnitsMore ==
  ASSUME NEW L \in SUBSET Session, NEW b \in Nat, NEW f \in [Session -> 0..b],
         NEW s \in L, f[s] < b
  PROVE  Cardinality(Units([f EXCEPT ![s] = @ + 1], L, b)) = Cardinality(Units(f, L, b)) + 1
<1> DEFINE u == <<s, f[s] + 1>>
<1>1. Units([f EXCEPT ![s] = @ + 1], L, b) = Units(f, L, b) \cup {u}
  BY DEF Units
<1>2. u \notin Units(f, L, b)
  BY DEF Units
<1> QED
  BY <1>1, <1>2, UnitsFinite, FS_AddElement

LEMMA UnitsLess ==
  ASSUME NEW L \in SUBSET Session, NEW b \in Nat, NEW f \in [Session -> 0..b],
         NEW s \in L, f[s] > 0
  PROVE  /\ Cardinality(Units([f EXCEPT ![s] = @ - 1], L, b)) = Cardinality(Units(f, L, b)) - 1
         /\ Cardinality(Units(f, L, b)) > 0
<1> DEFINE u == <<s, f[s]>>
           U == Units(f, L, b)
           V == Units([f EXCEPT ![s] = @ - 1], L, b)
<1>1. V = U \ {u}
  BY DEF Units
<1>2. u \in U
  BY DEF Units
<1>3. IsFiniteSet(U) /\ Cardinality(U) \in Nat
  BY UnitsFinite
<1> SUFFICES Cardinality(V) = Cardinality(U) - 1 /\ Cardinality(U) > 0
  OBVIOUS
<1> HIDE DEF u, U, V
<1>4. Cardinality(U) # 0
  BY <1>2, <1>3, FS_EmptySet
<1>5. Cardinality(U \ {u}) = Cardinality(U) - 1
  BY <1>2, <1>3, FS_RemoveElement
<1> QED
  BY <1>1, <1>3, <1>4, <1>5

\* Entries without work may leave the table.
LEMMA UnitsOfTable ==
  ASSUME NEW L \in SUBSET Session, NEW K \in SUBSET L, NEW b \in Nat,
         NEW f \in [Session -> 0..b], \A s \in L \ K : f[s] = 0
  PROVE  Units(f, K, b) = Units(f, L, b)
BY DEF Units

-----------------------------------------------------------------------------
(***************************************************************************)
(* The inductive invariant.  The counters stay natural numbers because     *)
(* they count something (HandleQuota, CountersAgree), and they go on       *)
(* counting it because a session leaves the table without work             *)
(* (CleanupIsDrained).                                                     *)
(***************************************************************************)
TableInv == TypeOK /\ HandleQuota /\ CountersAgree /\ CleanupIsDrained

USE DEF fileVars, linkVars, printVars, openVars, closeVars, barrierVars, fenceVars, lifeVars,
        workVars

(***************************************************************************)
(* A step that leaves the file and launch counters alone, lets only        *)
(* drained sessions leave the table and gives no work to others.           *)
(***************************************************************************)
LEMMA TableFrame ==
  ASSUME TableInv, UNCHANGED <<fileVars, linkVars>>,
         Live' \subseteq Live, \A s \in Live \ Live' : Drained(s)',
         \A s \in Session \ Live : print'[s] = print[s] /\ (AssemblyWork(s)' => AssemblyWork(s))
  PROVE  CountersAgree' /\ CleanupIsDrained'
<1>1. CleanupIsDrained'
  BY DEF TableInv, CleanupIsDrained, Drained
<1>2. /\ Live \in SUBSET Session /\ Live' \in SUBSET Live
      /\ queued' = queued /\ inFlight' = inFlight /\ links' = links
      /\ processQueued' = processQueued /\ processInFlight' = processInFlight
      /\ processLinks' = processLinks
      /\ queued \in [Session -> 0..MaxSessionQueue]
      /\ inFlight \in [Session -> 0..MaxSessionInFlight]
      /\ links \in [Session -> 0..MaxSessionLinks]
      /\ \A s \in Live \ Live' : queued[s] = 0 /\ inFlight[s] = 0 /\ links[s] = 0
  BY DEF TableInv, TypeOK, Live, Drained
<1>3. /\ Units(queued, Live', MaxSessionQueue) = Units(queued, Live, MaxSessionQueue)
      /\ Units(inFlight, Live', MaxSessionInFlight) = Units(inFlight, Live, MaxSessionInFlight)
      /\ Units(links, Live', MaxSessionLinks) = Units(links, Live, MaxSessionLinks)
  BY <1>2, UnitsOfTable, BoundsAssumption
<1>4. /\ Units(queued, Live, MaxSessionQueue)' = Units(queued', Live', MaxSessionQueue)
      /\ Units(inFlight, Live, MaxSessionInFlight)' = Units(inFlight', Live', MaxSessionInFlight)
      /\ Units(links, Live, MaxSessionLinks)' = Units(links', Live', MaxSessionLinks)
  BY DEF Units
<1>5. CountersAgree'
  BY <1>2, <1>3, <1>4 DEF TableInv, CountersAgree
<1> QED
  BY <1>1, <1>5

-----------------------------------------------------------------------------
LEMMA InitTable == Init => TableInv
<1> SUFFICES ASSUME Init PROVE TableInv
  OBVIOUS
<1>1. Live = {} /\ Opening = {} /\ Cleanup = {} /\ Occupied = {}
  BY DEF Init, Live, Opening, Cleanup, Occupied
<1>2. TypeOK
  <2>1. 0 \in 0..MaxSessionQueue /\ 0 \in 0..MaxSessionInFlight /\ 0 \in 0..MaxSessionLinks
    BY BoundsAssumption
  <2>2. tombstones \in Seq(Session) /\ fences \in Seq(Owner)
    BY EmptySeq DEF Init
  <2>3. /\ stage \in [Session -> Stage] /\ owner \in [Session -> Owner]
        /\ teardown \in [Session -> Teardown] /\ asm \in [Session -> Document]
        /\ window \in [Owner -> Window]
        /\ caller \in [Caller -> [pc : CallerPC, s : Session, b : Nat]]
    BY OwnerChoice DEF Init, Stage, Teardown, Document, Window, CallerPC, IdleCaller
  <2>4. /\ invalidated \in [Session -> BOOLEAN] /\ printInvalidated \in [Session -> BOOLEAN]
        /\ print \in [Session -> {"none", "held", "cancelled"}]
        /\ barrier \in [Session -> Nat] /\ closing \subseteq Session
        /\ fenceAll \in BOOLEAN
    BY DEF Init
  <2> QED
    BY <2>1, <2>2, <2>3, <2>4 DEF Init, TypeOK
<1>3. HandleQuota
  BY <1>1, FS_EmptySet, BoundsAssumption DEF HandleQuota, Init
<1>4. CountersAgree
  <2>1. \A f, b : Units(f, Live, b) = {}
    BY <1>1 DEF Units
  <2> QED
    BY <2>1, FS_EmptySet DEF CountersAgree, Init
<1>5. CleanupIsDrained
  BY DEF CleanupIsDrained, Drained, AssemblyWork, Init
<1> QED
  BY <1>2, <1>3, <1>4, <1>5 DEF TableInv

-----------------------------------------------------------------------------
(* Opening.                                                                *)

LEMMA AdmitOpenTable ==
  ASSUME TableInv, NEW s \in Session, NEW o \in Owner, AdmitOpen(s, o)
  PROVE  TableInv'
<1>1. TypeOK'
  BY DEF TableInv, TypeOK, AdmitOpen, Stage
<1>2. /\ Opening' = Opening \cup {s} /\ s \notin Opening
      /\ Occupied' = Occupied \cup {s} /\ s \notin Occupied
      /\ Cleanup' = Cleanup /\ Live' = Live
      /\ Occupied = (Live \cup Opening) \cup Cleanup
      /\ Live \cap Opening = {} /\ (Live \cup Opening) \cap Cleanup = {}
      /\ Live \in SUBSET Session /\ Opening \in SUBSET Session
      /\ Cleanup \in SUBSET Session /\ Occupied \in SUBSET Session
  BY DEF TableInv, TypeOK, AdmitOpen, Opening, Occupied, Cleanup, Live
<1>3. /\ IsFiniteSet(Live) /\ IsFiniteSet(Opening) /\ IsFiniteSet(Cleanup)
      /\ IsFiniteSet(Occupied) /\ IsFiniteSet(Live \cup Opening)
      /\ Cardinality(Live) \in Nat /\ Cardinality(Opening) \in Nat
      /\ Cardinality(Cleanup) \in Nat /\ Cardinality(Occupied) \in Nat
  BY <1>2, SessionSubsetFinite, FS_Union
<1>4. Cardinality(Live \cup Opening) = Cardinality(Live) + Cardinality(Opening)
  <2>1. Cardinality(Live \cup Opening)
          = Cardinality(Live) + Cardinality(Opening) - Cardinality(Live \cap Opening)
    BY <1>3, FS_Union, Zenon
  <2>2. Cardinality(Live \cap Opening) = 0
    BY <1>2, FS_EmptySet
  <2> QED
    BY <1>3, <2>1, <2>2
<1>5. Cardinality(Occupied) = Cardinality(Live) + Cardinality(Opening) + Cardinality(Cleanup)
  <2>1. Cardinality((Live \cup Opening) \cup Cleanup)
          = Cardinality(Live \cup Opening) + Cardinality(Cleanup)
              - Cardinality((Live \cup Opening) \cap Cleanup)
    BY <1>3, FS_Union, Zenon
  <2>2. Cardinality((Live \cup Opening) \cap Cleanup) = 0
    BY <1>2, FS_EmptySet
  <2> QED
    BY <1>2, <1>3, <1>4, <2>1, <2>2
<1>6. Cardinality(Occupied') = Cardinality(Occupied) + 1
  BY <1>2, <1>3, FS_AddElement
<1>7. Cardinality(Opening') = Cardinality(Opening) + 1
  BY <1>2, <1>3, FS_AddElement
<1>8. HandleQuota'
  BY <1>2, <1>3, <1>5, <1>6, <1>7, BoundsAssumption DEF TableInv, HandleQuota, AdmitOpen
<1>9. CountersAgree' /\ CleanupIsDrained'
  BY <1>2, TableFrame DEF AdmitOpen, AssemblyWork
<1> QED
  BY <1>1, <1>8, <1>9 DEF TableInv

\* One admission ends.
LEMMA OpeningEnds ==
  ASSUME TableInv, NEW s \in Opening, Opening' = Opening \ {s},
         openingInFlight' = openingInFlight - 1
  PROVE  openingInFlight' \in Nat /\ openingInFlight' = Cardinality(Opening')
<1>1. IsFiniteSet(Opening) /\ Cardinality(Opening) \in Nat
  BY SessionSubsetFinite DEF Opening
<1>2. Cardinality(Opening) # 0
  BY <1>1, FS_EmptySet
<1>3. Cardinality(Opening \ {s}) = Cardinality(Opening) - 1
  BY <1>1, FS_RemoveElement
<1> QED
  BY <1>1, <1>2, <1>3 DEF TableInv, HandleQuota

LEMMA DropOpenTable ==
  ASSUME TableInv, NEW s \in Session, DropOpen(s)
  PROVE  TableInv'
<1>1. /\ s \in Opening /\ Opening' = Opening \ {s}
      /\ Occupied' \in SUBSET Occupied /\ Cleanup' = Cleanup /\ Live' = Live
      /\ Occupied \in SUBSET Session
  BY DEF TableInv, TypeOK, DropOpen, Opening, Occupied, Cleanup, Live
<1>2. openingInFlight' \in Nat /\ openingInFlight' = Cardinality(Opening')
  BY <1>1, OpeningEnds DEF DropOpen
<1>3. TypeOK'
  BY <1>2, OwnerChoice DEF TableInv, TypeOK, DropOpen, Stage
<1>4. /\ Cardinality(Occupied') <= Cardinality(Occupied)
      /\ Cardinality(Occupied') \in Nat /\ Cardinality(Occupied) \in Nat
  BY <1>1, SessionSubsetFinite, FS_Subset
<1>5. HandleQuota'
  BY <1>1, <1>2, <1>4, BoundsAssumption DEF TableInv, HandleQuota, DropOpen
<1>6. CountersAgree' /\ CleanupIsDrained'
  BY <1>1, TableFrame DEF DropOpen, AssemblyWork
<1> QED
  BY <1>3, <1>5, <1>6 DEF TableInv

LEMMA PublishOpenTable ==
  ASSUME TableInv, NEW s \in Session, PublishOpen(s)
  PROVE  TableInv'
<1>1. /\ s \in Opening /\ Opening' = Opening \ {s}
      /\ Occupied' = Occupied /\ Cleanup' = Cleanup
      /\ Live \in SUBSET Session /\ Live' \in SUBSET Session /\ Live' = Live \cup {s} /\ s \notin Live
  BY DEF TableInv, TypeOK, PublishOpen, Opening, Occupied, Cleanup, Live
<1>2. openingInFlight' \in Nat /\ openingInFlight' = Cardinality(Opening')
  BY <1>1, OpeningEnds DEF PublishOpen
<1>3. TypeOK'
  BY <1>2 DEF TableInv, TypeOK, PublishOpen, Stage
<1>4. HandleQuota'
  BY <1>1, <1>2 DEF TableInv, HandleQuota, PublishOpen
<1>5. CleanupIsDrained'
  BY <1>1 DEF TableInv, CleanupIsDrained, Drained, AssemblyWork, PublishOpen
<1>6. /\ queued[s] = 0 /\ inFlight[s] = 0 /\ links[s] = 0
      /\ queued \in [Session -> 0..MaxSessionQueue]
      /\ inFlight \in [Session -> 0..MaxSessionInFlight]
      /\ links \in [Session -> 0..MaxSessionLinks]
  BY <1>1 DEF TableInv, TypeOK, CleanupIsDrained, Drained
<1>7. Live \in SUBSET Live' /\ \A r \in Live' \ Live : queued[r] = 0 /\ inFlight[r] = 0 /\ links[r] = 0
  BY <1>1, <1>6
<1>8. /\ Units(queued, Live, MaxSessionQueue) = Units(queued, Live', MaxSessionQueue)
      /\ Units(inFlight, Live, MaxSessionInFlight) = Units(inFlight, Live', MaxSessionInFlight)
      /\ Units(links, Live, MaxSessionLinks) = Units(links, Live', MaxSessionLinks)
  BY <1>1, <1>6, <1>7, UnitsOfTable, BoundsAssumption
<1>9. CountersAgree'
  <2>1. /\ Units(queued, Live, MaxSessionQueue)' = Units(queued', Live', MaxSessionQueue)
        /\ Units(inFlight, Live, MaxSessionInFlight)' = Units(inFlight', Live', MaxSessionInFlight)
        /\ Units(links, Live, MaxSessionLinks)' = Units(links', Live', MaxSessionLinks)
    BY DEF Units
  <2> QED
    BY <1>8, <2>1 DEF TableInv, CountersAgree, PublishOpen
<1> QED
  BY <1>3, <1>4, <1>5, <1>9 DEF TableInv

-----------------------------------------------------------------------------
(* File work and launches.                                                 *)

\* A step that changes neither the table nor print or assembly work, one counter
\* pair being treated apart.
LEMMA EnqueueFileTable ==
  ASSUME TableInv, NEW s \in Session, EnqueueFile(s)
  PROVE  TableInv'
<1>1. /\ s \in Live /\ Live \in SUBSET Session /\ Live' = Live
      /\ Opening' = Opening /\ Cleanup' = Cleanup /\ Occupied' = Occupied
      /\ queued[s] < MaxSessionQueue
      /\ queued \in [Session -> 0..MaxSessionQueue]
      /\ queued' = [queued EXCEPT ![s] = @ + 1]
  BY DEF TableInv, TypeOK, EnqueueFile, QueueJob, Active, Live, Opening, Cleanup, Occupied
<1>2. TypeOK'
  <2>1. [queued EXCEPT ![s] = @ + 1] \in [Session -> 0..MaxSessionQueue]
    BY <1>1, CountUp, BoundsAssumption
  <2>2. processQueued' \in Nat
    BY DEF TableInv, TypeOK, EnqueueFile, QueueJob
  <2> QED
    BY <1>1, <2>1, <2>2 DEF TableInv, TypeOK, EnqueueFile, QueueJob
<1>3. HandleQuota'
  BY <1>1 DEF TableInv, HandleQuota, EnqueueFile, QueueJob
<1>4. CleanupIsDrained'
  BY <1>1 DEF TableInv, CleanupIsDrained, Drained, AssemblyWork, EnqueueFile, QueueJob
<1>5. CountersAgree'
  <2>1. Cardinality(Units(queued', Live, MaxSessionQueue))
          = Cardinality(Units(queued, Live, MaxSessionQueue)) + 1
    BY <1>1, UnitsMore, BoundsAssumption
  <2>2. /\ Units(queued, Live, MaxSessionQueue)' = Units(queued', Live, MaxSessionQueue)
        /\ Units(inFlight, Live, MaxSessionInFlight)' = Units(inFlight, Live, MaxSessionInFlight)
        /\ Units(links, Live, MaxSessionLinks)' = Units(links, Live, MaxSessionLinks)
    BY <1>1 DEF Units, EnqueueFile, QueueJob
  <2> QED
    BY <2>1, <2>2 DEF TableInv, CountersAgree, EnqueueFile, QueueJob
<1> QED
  BY <1>2, <1>3, <1>4, <1>5 DEF TableInv

LEMMA AdmitLinkTable ==
  ASSUME TableInv, NEW s \in Session, AdmitLink(s)
  PROVE  TableInv'
<1>1. /\ s \in Live /\ Live \in SUBSET Session /\ Live' = Live
      /\ Opening' = Opening /\ Cleanup' = Cleanup /\ Occupied' = Occupied
      /\ links[s] < MaxSessionLinks
      /\ links \in [Session -> 0..MaxSessionLinks]
      /\ links' = [links EXCEPT ![s] = @ + 1]
  BY DEF TableInv, TypeOK, AdmitLink, Active, Live, Opening, Cleanup, Occupied
<1>2. TypeOK'
  <2>1. [links EXCEPT ![s] = @ + 1] \in [Session -> 0..MaxSessionLinks]
    BY <1>1, CountUp, BoundsAssumption
  <2>2. processLinks' \in Nat
    BY DEF TableInv, TypeOK, AdmitLink
  <2> QED
    BY <1>1, <2>1, <2>2 DEF TableInv, TypeOK, AdmitLink
<1>3. HandleQuota'
  BY <1>1 DEF TableInv, HandleQuota, AdmitLink
<1>4. CleanupIsDrained'
  BY <1>1 DEF TableInv, CleanupIsDrained, Drained, AssemblyWork, AdmitLink
<1>5. CountersAgree'
  <2>1. Cardinality(Units(links', Live, MaxSessionLinks))
          = Cardinality(Units(links, Live, MaxSessionLinks)) + 1
    BY <1>1, UnitsMore, BoundsAssumption
  <2>2. /\ Units(queued, Live, MaxSessionQueue)' = Units(queued, Live, MaxSessionQueue)
        /\ Units(inFlight, Live, MaxSessionInFlight)' = Units(inFlight, Live, MaxSessionInFlight)
        /\ Units(links, Live, MaxSessionLinks)' = Units(links', Live, MaxSessionLinks)
    BY <1>1 DEF Units, AdmitLink
  <2> QED
    BY <2>1, <2>2 DEF TableInv, CountersAgree, AdmitLink
<1> QED
  BY <1>2, <1>3, <1>4, <1>5 DEF TableInv

LEMMA SelectFileTable ==
  ASSUME TableInv, NEW s \in Session, SelectFile(s)
  PROVE  TableInv'
<1>1. /\ s \in Live /\ Live \in SUBSET Session /\ Live' = Live
      /\ Opening' = Opening /\ Cleanup' = Cleanup /\ Occupied' = Occupied
      /\ queued[s] > 0 /\ inFlight[s] < MaxSessionInFlight
      /\ queued \in [Session -> 0..MaxSessionQueue]
      /\ inFlight \in [Session -> 0..MaxSessionInFlight]
      /\ queued' = [queued EXCEPT ![s] = @ - 1]
      /\ inFlight' = [inFlight EXCEPT ![s] = @ + 1]
  BY DEF TableInv, TypeOK, SelectFile, SelectJob, Active, Live, Opening, Cleanup, Occupied
<1>2. /\ Cardinality(Units(queued', Live, MaxSessionQueue))
           = Cardinality(Units(queued, Live, MaxSessionQueue)) - 1
      /\ Cardinality(Units(queued, Live, MaxSessionQueue)) > 0
      /\ Cardinality(Units(inFlight', Live, MaxSessionInFlight))
           = Cardinality(Units(inFlight, Live, MaxSessionInFlight)) + 1
  BY <1>1, UnitsLess, UnitsMore, BoundsAssumption
<1>3. processQueued > 0
  BY <1>2 DEF TableInv, CountersAgree
<1>4. TypeOK'
  BY <1>3, BoundsAssumption DEF TableInv, TypeOK, SelectFile, SelectJob
<1>5. HandleQuota'
  BY <1>1 DEF TableInv, HandleQuota, SelectFile, SelectJob
<1>6. CleanupIsDrained'
  BY <1>1 DEF TableInv, CleanupIsDrained, Drained, AssemblyWork, SelectFile, SelectJob
<1>7. CountersAgree'
  <2>1. /\ Units(queued, Live, MaxSessionQueue)' = Units(queued', Live, MaxSessionQueue)
        /\ Units(inFlight, Live, MaxSessionInFlight)' = Units(inFlight', Live, MaxSessionInFlight)
        /\ Units(links, Live, MaxSessionLinks)' = Units(links, Live, MaxSessionLinks)
    BY <1>1 DEF Units, SelectFile, SelectJob
  <2> QED
    BY <1>2, <2>1 DEF TableInv, CountersAgree, SelectFile, SelectJob
<1> QED
  BY <1>4, <1>5, <1>6, <1>7 DEF TableInv

(***************************************************************************)
(* One unit of work of s ends, and the session is reaped if it was the     *)
(* last.                                                                   *)
(***************************************************************************)
LEMMA FinishSelectedTable ==
  ASSUME TableInv, NEW s \in Session, FinishSelected(s)
  PROVE  TableInv'
<1>1. s \in Live /\ Live \in SUBSET Session
  BY DEF TableInv, TypeOK, CleanupIsDrained, Drained, FinishSelected, SettleSelected, Live
<1>2. /\ stage' \in [Session -> Stage] /\ cleanupPending' \in Nat /\ HandleQuota'
      /\ Live' \in SUBSET Live /\ \A r \in Live \ Live' : Drained(r)'
  BY ReapKeepsQuota DEF TableInv, FinishSelected, SettleSelected
<1>3. /\ queued \in [Session -> 0..MaxSessionQueue]
      /\ inFlight \in [Session -> 0..MaxSessionInFlight]
      /\ links \in [Session -> 0..MaxSessionLinks]
      /\ inFlight[s] > 0 /\ inFlight' = [inFlight EXCEPT ![s] = @ - 1]
  BY DEF TableInv, TypeOK, FinishSelected, SettleSelected
<1>4. inFlight' \in [Session -> 0..MaxSessionInFlight]
  BY <1>3, CountDown, BoundsAssumption
<1>5. \A r \in Live \ Live' : queued[r] = 0 /\ inFlight'[r] = 0 /\ links[r] = 0
  BY <1>2 DEF FinishSelected, SettleSelected, Drained
<1>6. /\ Units(queued, Live', MaxSessionQueue) = Units(queued, Live, MaxSessionQueue)
      /\ Units(inFlight', Live', MaxSessionInFlight) = Units(inFlight', Live, MaxSessionInFlight)
      /\ Units(links, Live', MaxSessionLinks) = Units(links, Live, MaxSessionLinks)
  <2>1. Live \in SUBSET Session /\ Live' \in SUBSET Live
    BY <1>1, <1>2
  <2>2. Units(queued, Live', MaxSessionQueue) = Units(queued, Live, MaxSessionQueue)
    BY <1>3, <1>4, <1>5, <2>1, UnitsOfTable, BoundsAssumption
  <2>3. Units(inFlight', Live', MaxSessionInFlight) = Units(inFlight', Live, MaxSessionInFlight)
    BY <1>4, <1>5, <2>1, UnitsOfTable, BoundsAssumption
  <2>4. Units(links, Live', MaxSessionLinks) = Units(links, Live, MaxSessionLinks)
    BY <1>3, <1>4, <1>5, <2>1, UnitsOfTable, BoundsAssumption
  <2> QED
    BY <2>2, <2>3, <2>4
<1>7. /\ Cardinality(Units(inFlight', Live, MaxSessionInFlight))
           = Cardinality(Units(inFlight, Live, MaxSessionInFlight)) - 1
      /\ Cardinality(Units(inFlight, Live, MaxSessionInFlight)) > 0
  BY <1>1, <1>3, UnitsLess, BoundsAssumption
<1>8. processInFlight' \in Nat
  BY <1>7 DEF TableInv, TypeOK, CountersAgree, FinishSelected, SettleSelected
<1>9. TypeOK'
  BY <1>2, <1>4, <1>8 DEF TableInv, TypeOK, FinishSelected, SettleSelected
<1>10. CleanupIsDrained'
  BY <1>1, <1>2 DEF TableInv, CleanupIsDrained, Drained, AssemblyWork, FinishSelected, SettleSelected
<1>11. CountersAgree'
  <2>1. /\ Units(queued, Live, MaxSessionQueue)' = Units(queued, Live', MaxSessionQueue)
        /\ Units(inFlight, Live, MaxSessionInFlight)' = Units(inFlight', Live', MaxSessionInFlight)
        /\ Units(links, Live, MaxSessionLinks)' = Units(links, Live', MaxSessionLinks)
    BY DEF Units, FinishSelected, SettleSelected
  <2> QED
    BY <1>6, <1>7, <2>1 DEF TableInv, CountersAgree, FinishSelected, SettleSelected
<1> QED
  BY <1>2, <1>9, <1>10, <1>11 DEF TableInv

LEMMA FinishRevokedTable ==
  ASSUME TableInv, NEW s \in Session, FinishRevoked(s)
  PROVE  TableInv'
<1>1. s \in Live /\ Live \in SUBSET Session
  BY DEF TableInv, TypeOK, CleanupIsDrained, Drained, FinishRevoked, SettleRevoked, Live
<1>2. /\ stage' \in [Session -> Stage] /\ cleanupPending' \in Nat /\ HandleQuota'
      /\ Live' \in SUBSET Live /\ \A r \in Live \ Live' : Drained(r)'
  BY ReapKeepsQuota DEF TableInv, FinishRevoked, SettleRevoked
<1>3. /\ queued \in [Session -> 0..MaxSessionQueue]
      /\ inFlight \in [Session -> 0..MaxSessionInFlight]
      /\ links \in [Session -> 0..MaxSessionLinks]
      /\ queued[s] > 0 /\ queued' = [queued EXCEPT ![s] = @ - 1]
  BY DEF TableInv, TypeOK, FinishRevoked, SettleRevoked
<1>4. queued' \in [Session -> 0..MaxSessionQueue]
  BY <1>3, CountDown, BoundsAssumption
<1>5. \A r \in Live \ Live' : queued'[r] = 0 /\ inFlight[r] = 0 /\ links[r] = 0
  BY <1>2 DEF FinishRevoked, SettleRevoked, Drained
<1>6. /\ Units(queued', Live', MaxSessionQueue) = Units(queued', Live, MaxSessionQueue)
      /\ Units(inFlight, Live', MaxSessionInFlight) = Units(inFlight, Live, MaxSessionInFlight)
      /\ Units(links, Live', MaxSessionLinks) = Units(links, Live, MaxSessionLinks)
  <2>1. Live \in SUBSET Session /\ Live' \in SUBSET Live
    BY <1>1, <1>2
  <2>2. Units(queued', Live', MaxSessionQueue) = Units(queued', Live, MaxSessionQueue)
    BY <1>4, <1>5, <2>1, UnitsOfTable, BoundsAssumption
  <2>3. Units(inFlight, Live', MaxSessionInFlight) = Units(inFlight, Live, MaxSessionInFlight)
    BY <1>3, <1>4, <1>5, <2>1, UnitsOfTable, BoundsAssumption
  <2>4. Units(links, Live', MaxSessionLinks) = Units(links, Live, MaxSessionLinks)
    BY <1>3, <1>4, <1>5, <2>1, UnitsOfTable, BoundsAssumption
  <2> QED
    BY <2>2, <2>3, <2>4
<1>7. /\ Cardinality(Units(queued', Live, MaxSessionQueue))
           = Cardinality(Units(queued, Live, MaxSessionQueue)) - 1
      /\ Cardinality(Units(queued, Live, MaxSessionQueue)) > 0
  BY <1>1, <1>3, UnitsLess, BoundsAssumption
<1>8. processQueued' \in Nat
  BY <1>7 DEF TableInv, TypeOK, CountersAgree, FinishRevoked, SettleRevoked
<1>9. TypeOK'
  BY <1>2, <1>4, <1>8 DEF TableInv, TypeOK, FinishRevoked, SettleRevoked
<1>10. CleanupIsDrained'
  BY <1>1, <1>2 DEF TableInv, CleanupIsDrained, Drained, AssemblyWork, FinishRevoked, SettleRevoked
<1>11. CountersAgree'
  <2>1. /\ Units(queued, Live, MaxSessionQueue)' = Units(queued', Live', MaxSessionQueue)
        /\ Units(inFlight, Live, MaxSessionInFlight)' = Units(inFlight, Live', MaxSessionInFlight)
        /\ Units(links, Live, MaxSessionLinks)' = Units(links, Live', MaxSessionLinks)
    BY DEF Units, FinishRevoked, SettleRevoked
  <2> QED
    BY <1>6, <1>7, <2>1 DEF TableInv, CountersAgree, FinishRevoked, SettleRevoked
<1> QED
  BY <1>2, <1>9, <1>10, <1>11 DEF TableInv

LEMMA SettleLinkTable ==
  ASSUME TableInv, NEW s \in Session, SettleLink(s)
  PROVE  TableInv'
<1>1. s \in Live /\ Live \in SUBSET Session
  BY DEF TableInv, TypeOK, CleanupIsDrained, Drained, SettleLink, Live
<1>2. /\ stage' \in [Session -> Stage] /\ cleanupPending' \in Nat /\ HandleQuota'
      /\ Live' \in SUBSET Live /\ \A r \in Live \ Live' : Drained(r)'
  BY ReapKeepsQuota DEF TableInv, SettleLink
<1>3. /\ queued \in [Session -> 0..MaxSessionQueue]
      /\ inFlight \in [Session -> 0..MaxSessionInFlight]
      /\ links \in [Session -> 0..MaxSessionLinks]
      /\ links[s] > 0 /\ links' = [links EXCEPT ![s] = @ - 1]
  BY DEF TableInv, TypeOK, SettleLink
<1>4. links' \in [Session -> 0..MaxSessionLinks]
  BY <1>3, CountDown, BoundsAssumption
<1>5. \A r \in Live \ Live' : queued[r] = 0 /\ inFlight[r] = 0 /\ links'[r] = 0
  BY <1>2 DEF SettleLink, Drained
<1>6. /\ Units(queued, Live', MaxSessionQueue) = Units(queued, Live, MaxSessionQueue)
      /\ Units(inFlight, Live', MaxSessionInFlight) = Units(inFlight, Live, MaxSessionInFlight)
      /\ Units(links', Live', MaxSessionLinks) = Units(links', Live, MaxSessionLinks)
  <2>1. Live \in SUBSET Session /\ Live' \in SUBSET Live
    BY <1>1, <1>2
  <2>2. Units(queued, Live', MaxSessionQueue) = Units(queued, Live, MaxSessionQueue)
    BY <1>3, <1>4, <1>5, <2>1, UnitsOfTable, BoundsAssumption
  <2>3. Units(inFlight, Live', MaxSessionInFlight) = Units(inFlight, Live, MaxSessionInFlight)
    BY <1>3, <1>4, <1>5, <2>1, UnitsOfTable, BoundsAssumption
  <2>4. Units(links', Live', MaxSessionLinks) = Units(links', Live, MaxSessionLinks)
    BY <1>4, <1>5, <2>1, UnitsOfTable, BoundsAssumption
  <2> QED
    BY <2>2, <2>3, <2>4
<1>7. /\ Cardinality(Units(links', Live, MaxSessionLinks))
           = Cardinality(Units(links, Live, MaxSessionLinks)) - 1
      /\ Cardinality(Units(links, Live, MaxSessionLinks)) > 0
  BY <1>1, <1>3, UnitsLess, BoundsAssumption
<1>8. processLinks' \in Nat
  BY <1>7 DEF TableInv, TypeOK, CountersAgree, SettleLink
<1>9. TypeOK'
  BY <1>2, <1>4, <1>8 DEF TableInv, TypeOK, SettleLink
<1>10. CleanupIsDrained'
  BY <1>1, <1>2 DEF TableInv, CleanupIsDrained, Drained, AssemblyWork, SettleLink
<1>11. CountersAgree'
  <2>1. /\ Units(queued, Live, MaxSessionQueue)' = Units(queued, Live', MaxSessionQueue)
        /\ Units(inFlight, Live, MaxSessionInFlight)' = Units(inFlight, Live', MaxSessionInFlight)
        /\ Units(links, Live, MaxSessionLinks)' = Units(links', Live', MaxSessionLinks)
    BY DEF Units, SettleLink
  <2> QED
    BY <1>6, <1>7, <2>1 DEF TableInv, CountersAgree, SettleLink
<1> QED
  BY <1>2, <1>9, <1>10, <1>11 DEF TableInv

-----------------------------------------------------------------------------
(***************************************************************************)
(* The other steps leave the file and launch counters and the admissions   *)
(* alone.  They either leave the table alone or reap.                      *)
(***************************************************************************)
RestOK ==
  /\ owner \in [Session -> Owner]
  /\ teardown \in [Session -> Teardown]
  /\ invalidated \in [Session -> BOOLEAN]
  /\ print \in [Session -> {"none", "held", "cancelled"}]
  /\ printInvalidated \in [Session -> BOOLEAN]
  /\ asm \in [Session -> Document]
  /\ barrier \in [Session -> Nat]
  /\ closing \subseteq Session
  /\ tombstones \in Seq(Session)
  /\ nextBarrier \in Nat \ {0}
  /\ fences \in Seq(Owner) /\ fenceAll \in BOOLEAN
  /\ window \in [Owner -> Window]
  /\ quit \in {"no", "draining", "exiting", "drained", "timedOut"}
  /\ caller \in [Caller -> [pc : CallerPC, s : Session, b : Nat]]

\* Outside the table no session gets print or assembly work.
NoNewWork ==
  \A s \in Session \ Live : print'[s] = print[s] /\ (AssemblyWork(s)' => AssemblyWork(s))

LEMMA QuietTable ==
  ASSUME TableInv, UNCHANGED <<fileVars, linkVars, openingInFlight, stage, cleanupPending>>,
         RestOK', NoNewWork
  PROVE  TableInv'
<1>1. Live' = Live /\ Opening' = Opening /\ Cleanup' = Cleanup /\ Occupied' = Occupied
  BY DEF Live, Opening, Cleanup, Occupied
<1>2. TypeOK'
  BY DEF TableInv, TypeOK, RestOK
<1>3. HandleQuota'
  BY <1>1 DEF TableInv, HandleQuota
<1>4. CountersAgree' /\ CleanupIsDrained'
  BY <1>1, TableFrame DEF NoNewWork
<1> QED
  BY <1>2, <1>3, <1>4 DEF TableInv

LEMMA ReapTable ==
  ASSUME TableInv, UNCHANGED <<fileVars, linkVars, openingInFlight>>, NEW S, Reap(S),
         RestOK', NoNewWork
  PROVE  TableInv'
<1>1. /\ stage' \in [Session -> Stage] /\ cleanupPending' \in Nat /\ HandleQuota'
      /\ Live' \subseteq Live /\ \A s \in Live \ Live' : Drained(s)'
  BY ReapKeepsQuota DEF TableInv
<1>2. TypeOK'
  BY <1>1 DEF TableInv, TypeOK, RestOK
<1>3. CountersAgree' /\ CleanupIsDrained'
  BY <1>1, TableFrame DEF NoNewWork
<1> QED
  BY <1>1, <1>2, <1>3 DEF TableInv

LEMMA TableRest == TableInv => RestOK
BY DEF TableInv, TypeOK, RestOK

-----------------------------------------------------------------------------
(* Print leases.                                                           *)

LEMMA FlaggedType ==
  ASSUME TableInv, NEW S \in SUBSET Live
  PROVE  /\ Flagged(S) \in [Session -> {"none", "held", "cancelled"}]
         /\ \A s \in Session \ Live : Flagged(S)[s] = print[s]
BY DEF TableInv, TypeOK, Flagged

LEMMA PrintTable ==
  ASSUME TableInv, NEW s \in Session, AcquirePrint(s) \/ DropPrint(s)
  PROVE  TableInv'
<1>1. /\ print' \in [Session -> {"none", "held", "cancelled"}]
      /\ NoNewWork
  BY DEF TableInv, TypeOK, AcquirePrint, DropPrint, Active, Live, NoNewWork, AssemblyWork
<1>2. RestOK'
  BY <1>1, TableRest DEF RestOK, AcquirePrint, DropPrint
<1>3. CASE AcquirePrint(s)
  BY <1>1, <1>2, <1>3, QuietTable DEF AcquirePrint
<1>4. CASE DropPrint(s)
  BY <1>1, <1>2, <1>4, ReapTable DEF DropPrint
<1> QED
  BY <1>3, <1>4

LEMMA InvalidatePrintType ==
  ASSUME TableInv, NEW l, InvalidatePrint(l)
  PROVE  /\ print' \in [Session -> {"none", "held", "cancelled"}]
         /\ printInvalidated' \in [Session -> BOOLEAN]
         /\ NoNewWork
<1>1. Labelled(l) \in SUBSET Live
  BY DEF Labelled
<1> QED
  BY <1>1, FlaggedType DEF InvalidatePrint, NoNewWork, AssemblyWork

LEMMA InvalidatePrintTable ==
  ASSUME TableInv, NEW o \in Owner, InvalidatePrintOwner(o) \/ DestroyBegin(o)
  PROVE  TableInv'
<1>1. InvalidatePrint(o.label)
  BY DEF InvalidatePrintOwner, DestroyBegin
<1>2. window' \in [Owner -> Window] /\ quit' = quit
  BY DEF TableInv, TypeOK, InvalidatePrintOwner, DestroyBegin, Window
<1>3. RestOK'
  BY <1>1, <1>2, TableRest, InvalidatePrintType DEF RestOK, InvalidatePrint
<1> QED
  BY <1>1, <1>3, QuietTable, InvalidatePrintType DEF InvalidatePrint

-----------------------------------------------------------------------------
(* Assembly leases.                                                        *)

\* The documents of D never work more than those of docs.
Calmer(D, docs) ==
  \A d \in D :
    /\ d \in [Session -> Document]
    /\ \A s \in Session : \/ d[s] = docs[s]
                          \/ d[s] = "absent"
                          \/ docs[s] = "waiting" /\ d[s] = "active"

LEMMA SettledType ==
  ASSUME NEW docs \in [Session -> Document]
  PROVE  /\ Calmer(Forgotten(docs), docs) /\ Calmer(Settled(docs), docs)
         /\ Calmer(UNION {ForgottenOf(d, Session) : d \in Promoted(docs)}, docs)
<1>1. ASSUME NEW D \in [Session -> Document], NEW old \in SUBSET Session
      PROVE  Calmer(ForgottenOf(D, old), D)
  <2>1. ASSUME NEW d \in ForgottenOf(D, old)
        PROVE  /\ d \in [Session -> Document]
               /\ \A s \in Session : d[s] = D[s] \/ d[s] = "absent"
    <3>1. PICK F \in SUBSET Session : d = [s \in Session |-> IF s \in F THEN "absent" ELSE D[s]]
      BY <1>1, <2>1, Zenon DEF ForgottenOf
    <3>2. \A s \in Session : d[s] \in Document
      BY <3>1 DEF Document
    <3>3. d = [s \in Session |-> d[s]]
      BY <3>1
    <3> QED
      BY <3>1, <3>2, <3>3
  <2> QED
    BY <2>1 DEF Calmer
<1>2. Calmer(Promoted(docs), docs)
  <2>1. ASSUME NEW d \in Promoted(docs)
        PROVE  /\ d \in [Session -> Document]
               /\ \A s \in Session : d[s] = docs[s] \/ (docs[s] = "waiting" /\ d[s] = "active")
    <3>1. PICK G \in SUBSET Waiting(docs) :
            d = [s \in Session |-> IF s \in G THEN "active" ELSE docs[s]]
      BY <2>1, Zenon DEF Promoted
    <3>2. \A s \in Session : d[s] \in Document
      BY <3>1 DEF Document
    <3>3. d = [s \in Session |-> d[s]]
      BY <3>1
    <3> QED
      BY <3>1, <3>2, <3>3 DEF Waiting
  <2> QED
    BY <2>1 DEF Calmer
<1>3. ASSUME NEW old \in SUBSET Session, NEW d \in UNION {ForgottenOf(p, old) : p \in Promoted(docs)}
      PROVE  /\ d \in [Session -> Document]
             /\ \A s \in Session : \/ d[s] = docs[s]
                                   \/ d[s] = "absent"
                                   \/ docs[s] = "waiting" /\ d[s] = "active"
  <2>1. PICK e \in Promoted(docs) : d \in ForgottenOf(e, old)
    BY <1>3
  <2>2. /\ e \in [Session -> Document]
        /\ \A s \in Session : \/ e[s] = docs[s]
                              \/ e[s] = "absent"
                              \/ docs[s] = "waiting" /\ e[s] = "active"
    BY <1>2, <2>1 DEF Calmer
  <2>3. Calmer(ForgottenOf(e, old), e)
    BY <1>1, <2>2
  <2> QED
    BY <2>1, <2>2, <2>3 DEF Calmer
<1>4. ASSUME NEW old \in SUBSET Session
      PROVE  Calmer(UNION {ForgottenOf(p, old) : p \in Promoted(docs)}, docs)
  BY <1>3 DEF Calmer
<1>5. PICK old \in SUBSET Session : old = {s \in Session : asm[s] = "finished"}
  OBVIOUS
<1>6. Calmer(Forgotten(docs), docs)
  BY <1>1, <1>5 DEF Forgotten
<1>7. Settled(docs) = UNION {ForgottenOf(p, old) : p \in Promoted(docs)}
  BY <1>5 DEF Settled, Forgotten
<1> QED
  BY <1>4, <1>6, <1>7

\* A change of one document of the table.
LEMMA DocumentChange ==
  ASSUME TableInv, NEW s \in Live, NEW v \in Document, print' = print,
         asm' \in Forgotten([asm EXCEPT ![s] = v]) \/ asm' \in Settled([asm EXCEPT ![s] = v])
  PROVE  asm' \in [Session -> Document] /\ NoNewWork
<1> DEFINE docs == [asm EXCEPT ![s] = v]
<1>1. docs \in [Session -> Document] /\ \A r \in Session \ Live : docs[r] = asm[r]
  BY DEF TableInv, TypeOK
<1>2. asm' \in Forgotten(docs) \/ asm' \in Settled(docs)
  OBVIOUS
<1> HIDE DEF docs
<1>3. /\ asm' \in [Session -> Document]
      /\ \A r \in Session : \/ asm'[r] = docs[r]
                            \/ asm'[r] = "absent"
                            \/ docs[r] = "waiting" /\ asm'[r] = "active"
  BY <1>1, <1>2, SettledType DEF Calmer
<1> QED
  BY <1>1, <1>3 DEF NoNewWork, AssemblyWork

LEMMA DocumentSteps ==
  ASSUME TableInv, NEW s \in Live, print' = print,
         \/ RequestDocument(s) \/ WithdrawRequest(s) \/ CancelDocument(s)
         \/ ReleaseDocument(s) \/ FinishDocument(s)
  PROVE  asm' \in [Session -> Document] /\ NoNewWork
<1> DEFINE B == IF asm[s] = "both" THEN "active" ELSE "idle"
<1>1. asm \in [Session -> Document] /\ s \in Session
  BY DEF TableInv, TypeOK, Live
<1>2. B \in Document /\ Cancelled(asm[s]) \in Document /\ {"active", "finished"} \subseteq Document
  BY DEF Cancelled, Document
<1>3. CASE RequestDocument(s)
  <2>1. CASE asm' \in Forgotten([asm EXCEPT ![s] = "active"])
    BY <1>2, <2>1, DocumentChange
  <2>2. CASE asm' = [asm EXCEPT ![s] = "waiting"] \/ asm' = [asm EXCEPT ![s] = "both"]
    BY <1>1, <2>2 DEF NoNewWork, AssemblyWork, Document
  <2> QED
    BY <1>3, <2>1, <2>2 DEF RequestDocument
<1>4. CASE WithdrawRequest(s)
  <2>1. asm' \in Forgotten([asm EXCEPT ![s] = B])
    BY <1>4 DEF WithdrawRequest
  <2> QED
    BY <1>2, <2>1, DocumentChange
<1>5. CASE CancelDocument(s)
  <2>1. asm' \in Forgotten([asm EXCEPT ![s] = Cancelled(asm[s])])
    BY <1>5 DEF CancelDocument
  <2> QED
    BY <1>2, <2>1, DocumentChange
<1>6. CASE ReleaseDocument(s)
  <2>1. asm' \in Settled([asm EXCEPT ![s] = Returned(asm[s])]) /\ Returned(asm[s]) \in Document
    BY <1>6 DEF ReleaseDocument, Holding, Returned, Document
  <2> QED
    BY <2>1, DocumentChange
<1>7. CASE FinishDocument(s)
  <2>1. asm' \in Settled([asm EXCEPT ![s] = "finished"])
    BY <1>7 DEF FinishDocument
  <2> QED
    BY <1>2, <2>1, DocumentChange
<1> QED
  BY <1>3, <1>4, <1>5, <1>6, <1>7

LEMMA RequestAssemblyTable ==
  ASSUME TableInv, NEW s \in Session, RequestAssembly(s)
  PROVE  TableInv'
<1>1. asm' \in [Session -> Document] /\ NoNewWork
  BY DocumentSteps DEF RequestAssembly, Active, Live
<1>2. RestOK'
  BY <1>1, TableRest DEF RestOK, RequestAssembly
<1> QED
  BY <1>1, <1>2, QuietTable DEF RequestAssembly

LEMMA AssemblyEndsTable ==
  ASSUME TableInv, NEW s \in Session,
         CancelRequest(s) \/ ReleaseAssembly(s) \/ FinishAssemblies(s) \/ LifecycleCancelAssembly(s)
  PROVE  TableInv'
<1>1. asm' \in [Session -> Document] /\ NoNewWork
  <2>1. /\ s \in Live /\ print' = print
        /\ WithdrawRequest(s) \/ CancelDocument(s) \/ ReleaseDocument(s) \/ FinishDocument(s)
    BY DEF CancelRequest, ReleaseAssembly, FinishAssemblies, LifecycleCancelAssembly, Live
  <2> QED
    BY <2>1, DocumentSteps
<1>2. RestOK'
  BY <1>1, TableRest DEF RestOK, CancelRequest, ReleaseAssembly, FinishAssemblies,
                         LifecycleCancelAssembly
<1>3. Reap({s}) /\ UNCHANGED <<fileVars, linkVars, openingInFlight>>
  BY DEF CancelRequest, ReleaseAssembly, FinishAssemblies, LifecycleCancelAssembly
<1> QED
  BY <1>1, <1>2, <1>3, ReapTable

LEMMA DestroyDiscardTable ==
  ASSUME TableInv, NEW o \in Owner, DestroyDiscard(o)
  PROVE  TableInv'
<1> DEFINE docs == [s \in Session |->
                      IF s \in Owned(Session, o) /\ asm[s] # "absent" THEN "finished" ELSE asm[s]]
<1>1. /\ docs \in [Session -> Document] /\ print' = print
      /\ asm' \in UNION {ForgottenOf(d, Session) : d \in Promoted(docs)}
  BY DEF TableInv, TypeOK, DestroyDiscard, DiscardDocuments, Document
<1>2. \A s \in Session : docs[s] \in {asm[s], "finished"}
  OBVIOUS
<1> HIDE DEF docs
<1>3. /\ asm' \in [Session -> Document]
      /\ \A s \in Session : \/ asm'[s] = docs[s]
                            \/ asm'[s] = "absent"
                            \/ docs[s] = "waiting" /\ asm'[s] = "active"
  BY <1>1, SettledType DEF Calmer
<1>4. NoNewWork
  BY <1>1, <1>2, <1>3 DEF NoNewWork, AssemblyWork
<1>5. window' \in [Owner -> Window] /\ quit' = quit
  BY DEF TableInv, TypeOK, DestroyDiscard, Window
<1>6. RestOK'
  BY <1>3, <1>5, TableRest DEF RestOK, DestroyDiscard
<1> QED
  BY <1>4, <1>6, QuietTable DEF DestroyDiscard

-----------------------------------------------------------------------------
(* The cancel command.                                                     *)

LEMMA CancelBeginTable ==
  ASSUME TableInv, NEW c \in Caller, NEW s \in Session, CancelBegin(c, s)
  PROVE  TableInv'
<1>1. {s} \in SUBSET Live
  BY DEF CancelBegin, Live
<1>2. /\ print' \in [Session -> {"none", "held", "cancelled"}] /\ NoNewWork
  BY <1>1, FlaggedType DEF CancelBegin, NoNewWork, AssemblyWork
<1>3. teardown' \in [Session -> Teardown]
  BY DEF TableInv, TypeOK, CancelBegin, Teardown
<1>4. caller' \in [Caller -> [pc : CallerPC, s : Session, b : Nat]]
  BY DEF TableInv, TypeOK, CancelBegin, CallerPC
<1>5. RestOK'
  BY <1>2, <1>3, <1>4, TableRest DEF RestOK, CancelBegin
<1> QED
  BY <1>2, <1>5, QuietTable DEF CancelBegin

LEMMA GotoType ==
  ASSUME TableInv, NEW c \in Caller, NEW pc \in CallerPC, Goto(c, pc) \/ Return(c)
  PROVE  caller' \in [Caller -> [pc : CallerPC, s : Session, b : Nat]]
<1>1. IdleCaller \in [pc : CallerPC, s : Session, b : Nat]
  BY OwnerChoice DEF IdleCaller, CallerPC
<1>2. caller \in [Caller -> [pc : CallerPC, s : Session, b : Nat]]
  BY DEF TableInv, TypeOK
<1>3. CASE Goto(c, pc)
  <2>1. [caller[c] EXCEPT !.pc = pc] \in [pc : CallerPC, s : Session, b : Nat]
    BY <1>2
  <2>2. caller' = [caller EXCEPT ![c] = [caller[c] EXCEPT !.pc = pc]]
    BY <1>3 DEF Goto
  <2> QED
    BY <1>2, <2>1, <2>2
<1>4. CASE Return(c)
  BY <1>1, <1>2, <1>4 DEF Return
<1> QED
  BY <1>3, <1>4

LEMMA BarrierType ==
  ASSUME TableInv, NEW s \in Session, TakeBarrier(s) \/ UNCHANGED barrierVars
  PROVE  barrier' \in [Session -> Nat] /\ nextBarrier' \in Nat \ {0}
<1>1. barrier \in [Session -> Nat] /\ nextBarrier \in Nat \ {0}
  BY DEF TableInv, TypeOK
<1>2. CASE UNCHANGED barrierVars
  BY <1>1, <1>2
<1>3. CASE /\ barrier' = [barrier EXCEPT ![s] = nextBarrier]
           /\ nextBarrier' = nextBarrier + 1
  BY <1>1, <1>3
<1> QED
  BY <1>2, <1>3 DEF TakeBarrier

LEMMA CancelAssemblyTable ==
  ASSUME TableInv, NEW c \in Caller, CancelAssembly(c)
  PROVE  TableInv'
<1> DEFINE s == caller[c].s
<1>1. s \in Session
  BY DEF TableInv, TypeOK
<1>2. asm' \in [Session -> Document] /\ NoNewWork
  <2>1. CASE stage[s] = "live"
    <3>1. s \in Live /\ CancelDocument(s) /\ print' = print
      BY <1>1, <2>1 DEF CancelAssembly, Live
    <3> HIDE DEF s
    <3> QED
      BY <3>1, DocumentSteps
  <2>2. CASE stage[s] # "live"
    BY <2>2 DEF TableInv, TypeOK, CancelAssembly, NoNewWork, AssemblyWork
  <2> QED
    BY <2>1, <2>2
<1>3. caller' \in [Caller -> [pc : CallerPC, s : Session, b : Nat]]
  BY GotoType DEF CancelAssembly, CallerPC
<1>4. RestOK'
  BY <1>2, <1>3, TableRest DEF RestOK, CancelAssembly
<1>5. Reap({s}) /\ UNCHANGED <<fileVars, linkVars, openingInFlight>>
  BY DEF CancelAssembly
<1> QED
  BY <1>2, <1>4, <1>5, ReapTable

LEMMA CancelWaitTable ==
  ASSUME TableInv, NEW c \in Caller,
         \/ CancelReturnEarly(c) \/ CancelDrained(c) \/ CancelLinksSettled(c)
         \/ CancelTimeout(c)
  PROVE  TableInv'
<1>1. caller[c].s \in Session
  BY DEF TableInv, TypeOK
<1>2. barrier' \in [Session -> Nat] /\ nextBarrier' \in Nat \ {0}
  BY <1>1, BarrierType DEF CancelReturnEarly, CancelDrained, CancelLinksSettled, CancelTimeout
<1>3. caller' \in [Caller -> [pc : CallerPC, s : Session, b : Nat]]
  <2>1. Return(c) \/ Goto(c, "linkWait") \/ Goto(c, "timedOut")
    BY DEF CancelReturnEarly, CancelDrained, CancelLinksSettled, CancelTimeout
  <2> QED
    BY <2>1, GotoType DEF CallerPC
<1>4. /\ UNCHANGED <<stage, owner, teardown, cleanupPending, openVars, workVars, closeVars,
                     fenceVars, lifeVars>>
  BY DEF CancelReturnEarly, CancelDrained, CancelLinksSettled, CancelTimeout
<1>5. RestOK' /\ NoNewWork
  BY <1>2, <1>3, <1>4, TableRest DEF RestOK, NoNewWork, AssemblyWork
<1> QED
  BY <1>4, <1>5, QuietTable

LEMMA DeferCancellationTable ==
  ASSUME TableInv, NEW c \in Caller, DeferCommandCancellation(c)
  PROVE  TableInv'
<1>1. caller[c].s \in Session
  BY DEF TableInv, TypeOK
<1>2. teardown' \in [Session -> Teardown]
  BY <1>1 DEF TableInv, TypeOK, DeferCommandCancellation, Teardown
<1>3. caller' \in [Caller -> [pc : CallerPC, s : Session, b : Nat]]
  BY GotoType DEF DeferCommandCancellation, CallerPC
<1>4. RestOK' /\ NoNewWork
  BY <1>2, <1>3, TableRest DEF RestOK, NoNewWork, AssemblyWork, DeferCommandCancellation
<1> QED
  BY <1>4, ReapTable DEF DeferCommandCancellation

-----------------------------------------------------------------------------
(* The close command and the cleanup worker.                               *)

LEMMA CloseBeginTable ==
  ASSUME TableInv, NEW c \in Caller, NEW s \in Session, CloseBegin(c, s)
  PROVE  TableInv'
<1>1. PICK A \in SUBSET {s} :
        /\ Enqueue(A) /\ closing' = closing \cup A
        /\ caller' = IF s \in A
                     THEN [caller EXCEPT ![c] = [pc |-> "closing", s |-> s, b |-> barrier[s]]]
                     ELSE caller
  BY DEF CloseBegin, Accepted
<1>2. A \in SUBSET Live /\ Drained(s) /\ UNCHANGED <<fileVars, linkVars, printVars, asm>>
  BY DEF CloseBegin, Live
<1>3. /\ stage' \in [Session -> Stage] /\ cleanupPending' \in Nat /\ HandleQuota'
      /\ Live' = Live \ A
  BY <1>1, <1>2, EnqueueKeepsQuota DEF TableInv, CloseBegin
<1>4. /\ caller' \in [Caller -> [pc : CallerPC, s : Session, b : Nat]]
      /\ closing' \subseteq Session
  BY <1>1 DEF TableInv, TypeOK, CallerPC
<1>5. RestOK'
  BY <1>4, TableRest DEF RestOK, CloseBegin
<1>6. TypeOK'
  BY <1>2, <1>3, <1>5 DEF TableInv, TypeOK, RestOK, CloseBegin
<1>7. CountersAgree' /\ CleanupIsDrained'
  <2>1. Live' \subseteq Live /\ \A r \in Live \ Live' : Drained(r)'
    BY <1>2, <1>3 DEF Drained, AssemblyWork
  <2> QED
    BY <1>2, <2>1, TableFrame DEF AssemblyWork
<1> QED
  BY <1>3, <1>6, <1>7 DEF TableInv

LEMMA CloseWaitTable ==
  ASSUME TableInv, NEW c \in Caller,
         \/ \E s \in Session : CloseAgain(c, s)
         \/ CloseSettled(c) \/ CloseTimeout(c) \/ CloseReturn(c)
  PROVE  TableInv'
<1>1. caller' \in [Caller -> [pc : CallerPC, s : Session, b : Nat]]
  <2>1. ASSUME NEW s \in Session, CloseAgain(c, s)
        PROVE  caller' \in [Caller -> [pc : CallerPC, s : Session, b : Nat]]
    BY <2>1 DEF TableInv, TypeOK, CloseAgain, CallerPC
  <2>2. ASSUME CloseSettled(c) \/ CloseTimeout(c) \/ CloseReturn(c)
        PROVE  Goto(c, "closed") \/ Return(c)
    BY <2>2 DEF CloseSettled, CloseTimeout, CloseReturn
  <2> QED
    BY <2>1, <2>2, GotoType DEF CallerPC
<1>2. UNCHANGED <<stage, owner, teardown, cleanupPending, openVars, workVars, closeVars,
                  barrierVars, fenceVars, lifeVars>>
  BY DEF CloseAgain, CloseSettled, CloseTimeout, CloseReturn
<1>3. RestOK' /\ NoNewWork
  BY <1>1, <1>2, TableRest DEF RestOK, NoNewWork, AssemblyWork
<1> QED
  BY <1>2, <1>3, QuietTable

LEMMA WorkerTakeTable ==
  ASSUME TableInv, NEW s \in Session, WorkerTake(s)
  PROVE  TableInv'
<1>1. Live' = Live /\ Opening' = Opening /\ Cleanup' = Cleanup /\ Occupied' = Occupied
  BY DEF TableInv, TypeOK, WorkerTake, Live, Opening, Cleanup, Occupied
<1>2. TypeOK'
  BY DEF TableInv, TypeOK, WorkerTake, Stage
<1>3. HandleQuota'
  BY <1>1 DEF TableInv, HandleQuota, WorkerTake
<1>4. CountersAgree' /\ CleanupIsDrained'
  BY <1>1, TableFrame DEF WorkerTake, AssemblyWork
<1> QED
  BY <1>2, <1>3, <1>4 DEF TableInv

LEMMA TombstonesType ==
  ASSUME NEW ts \in Seq(Session)
  PROVE  LastTombstones(ts) \in Seq(Session)
<1>1. CASE Len(ts) <= MaxTombstones
  BY <1>1 DEF LastTombstones
<1>2. CASE Len(ts) > MaxTombstones
  <2>1. /\ Len(ts) - MaxTombstones + 1 \in 1..(Len(ts) + 1)
        /\ Len(ts) \in (Len(ts) - MaxTombstones + 1 - 1)..Len(ts)
    BY <1>2, LenProperties, BoundsAssumption
  <2>2. SubSeq(ts, Len(ts) - MaxTombstones + 1, Len(ts)) \in Seq(Session)
    BY <2>1, SubSeqProperties
  <2> QED
    BY <1>2, <2>2, LenProperties, BoundsAssumption DEF LastTombstones
<1> QED
  BY <1>1, <1>2, LenProperties, BoundsAssumption

LEMMA WorkerFinishTable ==
  ASSUME TableInv, NEW s \in Session, WorkerFinish(s)
  PROVE  TableInv'
<1>1. /\ Live' = Live /\ Opening' = Opening
      /\ Cleanup' = Cleanup \ {s} /\ s \in Cleanup
      /\ Occupied' \in SUBSET Occupied /\ Occupied \in SUBSET Session
      /\ Cleanup \in SUBSET Session
  BY DEF TableInv, TypeOK, WorkerFinish, Live, Opening, Cleanup, Occupied
<1>2. /\ IsFiniteSet(Cleanup) /\ Cardinality(Cleanup) \in Nat
      /\ Cardinality(Occupied) \in Nat /\ Cardinality(Occupied') \in Nat
      /\ Cardinality(Occupied') <= Cardinality(Occupied)
  BY <1>1, SessionSubsetFinite, FS_Subset
<1>3. Cardinality(Cleanup) # 0 /\ Cardinality(Cleanup \ {s}) = Cardinality(Cleanup) - 1
  BY <1>1, <1>2, FS_EmptySet, FS_RemoveElement
<1>4. HandleQuota' /\ cleanupPending' \in Nat
  BY <1>1, <1>2, <1>3, BoundsAssumption DEF TableInv, HandleQuota, WorkerFinish
<1>5. tombstones' \in Seq(Session) /\ closing' \subseteq Session
  <2>1. tombstones \in Seq(Session) /\ closing \subseteq Session
    BY DEF TableInv, TypeOK
  <2>2. Append(tombstones, s) \in Seq(Session)
    BY <2>1, AppendProperties
  <2>3. LastTombstones(Append(tombstones, s)) \in Seq(Session)
    BY <2>2, TombstonesType
  <2> QED
    BY <2>1, <2>3 DEF WorkerFinish
<1>6. TypeOK'
  BY <1>4, <1>5 DEF TableInv, TypeOK, WorkerFinish, Stage
<1>7. CountersAgree' /\ CleanupIsDrained'
  BY <1>1, TableFrame DEF WorkerFinish, AssemblyWork
<1> QED
  BY <1>4, <1>6, <1>7 DEF TableInv

-----------------------------------------------------------------------------
(* Lifecycle teardown.                                                     *)

LEMMA FencesType ==
  ASSUME TableInv, NEW o \in Owner
  PROVE  RaisedFences(o) \in Seq(Owner)
<1>1. fences \in Seq(Owner)
  BY DEF TableInv, TypeOK
<1>2. CASE \E i \in DOMAIN fences : fences[i].label = o.label
  <2> DEFINE fs == [i \in 1..Len(fences) |->
                     IF fences[i].label = o.label /\ fences[i].gen < o.gen THEN o ELSE fences[i]]
  <2>1. DOMAIN fences = 1..Len(fences) /\ Len(fences) \in Nat
        /\ \A i \in 1..Len(fences) : fences[i] \in Owner
    BY <1>1, LenProperties, ElementOfSeq
  <2>2. fs \in Seq(Owner)
    BY <2>1, IsASeq
  <2> QED
    BY <1>2, <2>1, <2>2 DEF RaisedFences
<1>3. CASE ~\E i \in DOMAIN fences : fences[i].label = o.label
  <2> DEFINE fs == Append(fences, o)
  <2>1. fs \in Seq(Owner) /\ fs # << >>
    BY <1>1, AppendProperties
  <2>2. Tail(fs) \in Seq(Owner)
    BY <2>1, HeadTailProperties
  <2> QED
    BY <1>3, <2>1, <2>2 DEF RaisedFences
<1> QED
  BY <1>2, <1>3

LEMMA DeferMatchingType ==
  ASSUME TableInv, NEW S \in SUBSET Live, NEW O, DeferMatching(S, O), asm' = asm
  PROVE  /\ print' \in [Session -> {"none", "held", "cancelled"}]
         /\ teardown' \in [Session -> Teardown]
         /\ invalidated' \in [Session -> BOOLEAN]
         /\ NoNewWork
<1>1. /\ print' \in [Session -> {"none", "held", "cancelled"}] /\ NoNewWork
  BY FlaggedType DEF DeferMatching, NoNewWork, AssemblyWork
<1>2. teardown' \in [Session -> Teardown] /\ invalidated' \in [Session -> BOOLEAN]
  BY DEF TableInv, TypeOK, DeferMatching, Teardown
<1> QED
  BY <1>1, <1>2

LEMMA DeferTable ==
  ASSUME TableInv, NEW o \in Owner, DeferOwned(o) \/ DestroyDefer(o) \/ DeferAll
  PROVE  TableInv'
<1>1. PICK S \in SUBSET Live, O \in SUBSET Session : DeferMatching(S, O) /\ asm' = asm /\ Reap(S)
  <2>1. Owned(Live, o) \in SUBSET Live /\ Live \in SUBSET Live
        /\ Owned(Opening, o) \in SUBSET Session /\ Opening \in SUBSET Session
    BY DEF Owned, Opening
  <2> QED
    BY <2>1, Zenon DEF DeferOwned, DestroyDefer, DeferAll
<1>2. /\ print' \in [Session -> {"none", "held", "cancelled"}]
      /\ teardown' \in [Session -> Teardown]
      /\ invalidated' \in [Session -> BOOLEAN]
      /\ NoNewWork
  BY <1>1, DeferMatchingType
<1>3. fences' \in Seq(Owner) /\ fenceAll' \in BOOLEAN
  BY FencesType DEF TableInv, TypeOK, DeferOwned, DestroyDefer, DeferAll
<1>4. /\ window' \in [Owner -> Window]
      /\ quit' \in {"no", "draining", "exiting", "drained", "timedOut"}
  BY DEF TableInv, TypeOK, DeferOwned, DestroyDefer, DeferAll, Window
<1>5. RestOK'
  BY <1>1, <1>2, <1>3, <1>4, TableRest DEF RestOK, DeferMatching
<1> QED
  BY <1>1, <1>2, <1>5, ReapTable DEF DeferMatching

LEMMA QuitTable ==
  ASSUME TableInv,
         \/ QuitScheduleIdle \/ QuitDrained \/ QuitTimeout
         \/ \E s \in Session : ReapDeferredCancellation(s)
  PROVE  TableInv'
<1>1. NoNewWork
  BY DEF NoNewWork, AssemblyWork, QuitScheduleIdle, QuitDrained, QuitTimeout,
         ReapDeferredCancellation
<1>2. RestOK'
  BY TableRest DEF RestOK, QuitScheduleIdle, QuitDrained, QuitTimeout, ReapDeferredCancellation
<1>3. CASE QuitDrained \/ QuitTimeout
  BY <1>1, <1>2, <1>3, QuietTable DEF QuitDrained, QuitTimeout
<1>4. CASE QuitScheduleIdle \/ \E s \in Session : ReapDeferredCancellation(s)
  BY <1>1, <1>2, <1>4, ReapTable DEF QuitScheduleIdle, ReapDeferredCancellation
<1> QED
  BY <1>3, <1>4

-----------------------------------------------------------------------------
LEMMA TableStep == TableInv /\ [Next]_vars => TableInv'
<1> SUFFICES ASSUME TableInv, [Next]_vars PROVE TableInv'
  OBVIOUS
<1>1. CASE UNCHANGED vars
  <2>1. RestOK' /\ NoNewWork
    BY <1>1, TableRest DEF vars, RestOK, NoNewWork, AssemblyWork
  <2> QED
    BY <1>1, <2>1, QuietTable DEF vars
<1>2. ASSUME NEW s \in Session, SessionNext(s) PROVE TableInv'
  <2>1. CASE \E o \in Owner : AdmitOpen(s, o)
    BY <2>1, AdmitOpenTable
  <2>2. CASE DropOpen(s) \/ PublishOpen(s)
    BY <2>2, DropOpenTable, PublishOpenTable
  <2>3. CASE EnqueueFile(s) \/ SelectFile(s) \/ FinishSelected(s) \/ FinishRevoked(s)
    BY <2>3, EnqueueFileTable, SelectFileTable, FinishSelectedTable, FinishRevokedTable
  <2>4. CASE AcquirePrint(s) \/ DropPrint(s)
    BY <2>4, PrintTable
  <2>5. CASE AdmitLink(s) \/ SettleLink(s)
    BY <2>5, AdmitLinkTable, SettleLinkTable
  <2>6. CASE RequestAssembly(s)
    BY <2>6, RequestAssemblyTable
  <2>7. CASE \/ CancelRequest(s) \/ ReleaseAssembly(s) \/ FinishAssemblies(s)
             \/ LifecycleCancelAssembly(s)
    BY <2>7, AssemblyEndsTable
  <2>8. CASE ReapDeferredCancellation(s)
    BY <2>8, QuitTable
  <2>9. CASE WorkerTake(s) \/ WorkerFinish(s)
    BY <2>9, WorkerTakeTable, WorkerFinishTable
  <2> QED
    BY <1>2, <2>1, <2>2, <2>3, <2>4, <2>5, <2>6, <2>7, <2>8, <2>9 DEF SessionNext
<1>3. ASSUME NEW c \in Caller, CallerNext(c) PROVE TableInv'
  <2>1. CASE \E s \in Session : CancelBegin(c, s)
    BY <2>1, CancelBeginTable
  <2>2. CASE \E s \in Session : CloseBegin(c, s)
    BY <2>2, CloseBeginTable
  <2>3. CASE CancelAssembly(c) \/ DeferCommandCancellation(c)
    BY <2>3, CancelAssemblyTable, DeferCancellationTable
  <2>4. CASE \/ CancelReturnEarly(c) \/ CancelDrained(c) \/ CancelLinksSettled(c)
             \/ CancelTimeout(c)
    BY <2>4, CancelWaitTable
  <2>5. CASE \/ \E s \in Session : CloseAgain(c, s)
             \/ CloseSettled(c) \/ CloseTimeout(c) \/ CloseReturn(c)
    BY <2>5, CloseWaitTable
  <2> QED
    BY <1>3, <2>1, <2>2, <2>3, <2>4, <2>5 DEF CallerNext
<1>4. ASSUME NEW o \in Owner,
             \/ InvalidatePrintOwner(o) \/ DeferOwned(o)
             \/ DestroyBegin(o) \/ DestroyDiscard(o) \/ DestroyDefer(o)
      PROVE  TableInv'
  BY <1>4, InvalidatePrintTable, DeferTable, DestroyDiscardTable
<1>5. CASE DeferAll \/ QuitScheduleIdle \/ QuitDrained \/ QuitTimeout
  BY <1>5, OwnerChoice, DeferTable, QuitTable
<1> QED
  BY <1>1, <1>2, <1>3, <1>4, <1>5 DEF Next, LifecycleNext

LEMMA TableAlways == Spec => []TableInv
BY InitTable, TableStep, PTL DEF Spec

-----------------------------------------------------------------------------
\* Every field of the manager keeps the range of its type: no counter of the
\* sessions mutex underflows.
THEOREM TypeCorrect == Spec => []TypeOK
<1>1. TableInv => TypeOK
  BY DEF TableInv
<1> QED
  BY <1>1, TableAlways, PTL

\* Admissions, entries and handles not yet disposed never exceed MAX_SESSIONS.
THEOREM QuotaHolds == Spec => []HandleQuota
<1>1. TableInv => HandleQuota
  BY DEF TableInv
<1> QED
  BY <1>1, TableAlways, PTL

\* The cleanup channel always has room for every entry: try_send never refuses.
THEOREM CleanupAccepted == Spec => []CleanupAlwaysAccepted
<1>1. TableInv => CleanupAlwaysAccepted
  <2> SUFFICES ASSUME TableInv PROVE CleanupAlwaysAccepted
    OBVIOUS
  <2>1. (Channel \cup Live) \in SUBSET Occupied /\ Occupied \in SUBSET Session
    BY DEF Channel, Live, Occupied
  <2>2. /\ Cardinality(Channel \cup Live) <= Cardinality(Occupied)
        /\ Cardinality(Channel \cup Live) \in Nat /\ Cardinality(Occupied) \in Nat
    BY <2>1, SessionSubsetFinite, FS_Subset
  <2> QED
    BY <2>2, BoundsAssumption DEF TableInv, HandleQuota, CleanupAlwaysAccepted
<1> QED
  BY <1>1, TableAlways, PTL

\* The process-wide counters count the work of the sessions in the table.
THEOREM CountersHold == Spec => []CountersAgree
<1>1. TableInv => CountersAgree
  BY DEF TableInv
<1> QED
  BY <1>1, TableAlways, PTL

\* No handle is disposed while a job, a launch, a print or an assembly uses it.
THEOREM DisposalWaits == Spec => []CleanupIsDrained
<1>1. TableInv => CleanupIsDrained
  BY DEF TableInv
<1> QED
  BY <1>1, TableAlways, PTL

-----------------------------------------------------------------------------
(***************************************************************************)
(* What the session manager promises beyond its counters: a deferred       *)
(* session is always reaped, and what cancel, close and the quit report is *)
(* so, for every number of sessions, windows and threads.                  *)
(***************************************************************************)
Waits == {"cancelAssembly", "draining", "linkWait", "timedOut"}

\* A session that is not an entry yet was touched by no cancel and no teardown.
NewIsUntouched ==
  \A s \in Session :
    stage[s] \in {"unused", "opening"} => teardown[s] = "Active" /\ barrier[s] = 0

\* A cancel command waits for a session that gets no new work; once it waits for
\* the launches only, the rest stays drained.
CallerWaits(c) ==
  caller[c].pc \in Waits =>
    /\ stage[caller[c].s] \notin {"unused", "opening"}
    /\ teardown[caller[c].s] # "Active"
    /\ caller[c].pc = "linkWait" /\ stage[caller[c].s] = "live" => FileDrained(caller[c].s)

CallersWait == \A c \in Caller : CallerWaits(c)

ClosingIsQueued == \A s \in closing : stage[s] \in {"cleanup", "disposing"}

\* defer_all reached every entry and every open, and its fence admits no other.
QuitIsFenced ==
  /\ quit # "no" => fenceAll
  /\ fenceAll => \A s \in Session : /\ stage[s] = "opening" => invalidated[s]
                                    /\ stage[s] = "live" => teardown[s] = "LifecycleDeferred"
  /\ quit = "drained" => Occupied = {}

SessionInv ==
  /\ TableInv
  /\ NewIsUntouched /\ CallersWait /\ ClosingIsQueued /\ QuitIsFenced
  /\ BarrierMeansDrained /\ ClosedMeansDisposed /\ LiveLeaseIsWanted /\ NoForgottenSession

\* No fence is ever evicted when a destroyed window can still matter.
FencesSuffice == LateCommands => IsFiniteSet(Label) /\ Cardinality(Label) <= MaxOwnerFences

FencesStand ==
  /\ \A i, j \in DOMAIN fences : fences[i].label = fences[j].label => i = j
  /\ \A o \in Owner : window[o] = "destroyed" =>
       \E i \in DOMAIN fences : fences[i].label = o.label /\ o.gen <= fences[i].gen

OwnersInv == SessionInv /\ (LateCommands => FencesStand) /\ DestroyedOwnerIsFenced

-----------------------------------------------------------------------------
(***************************************************************************)
(* What every step does to a session r.                                    *)
(***************************************************************************)
Moves == {<<"unused", "opening">>, <<"opening", "unused">>, <<"opening", "live">>,
          <<"live", "cleanup">>, <<"cleanup", "disposing">>, <<"disposing", "disposed">>}

Orderly(r) ==
  /\ stage'[r] # stage[r] => <<stage[r], stage'[r]>> \in Moves
  /\ owner'[r] # owner[r] => stage[r] = "unused" \/ stage'[r] = "unused"
  /\ teardown'[r] # teardown[r] =>
       stage[r] = "live" /\ teardown[r] # "LifecycleDeferred" /\ teardown'[r] # "Active"
  /\ barrier'[r] # barrier[r] =>
       /\ stage[r] = "live" /\ stage'[r] = "live"
       /\ teardown[r] # "Active" /\ Drained(r)
  /\ invalidated[r] => invalidated'[r] \/ stage'[r] = "unused"
  /\ stage[r] = "opening" /\ stage'[r] = "live" => ~invalidated[r]
  /\ stage[r] # "opening" /\ stage'[r] = "opening" =>
       ~Fenced(owner'[r]) /\ UNCHANGED window /\ (window[owner'[r]] # "open" => LateCommands)
  /\ stage[r] # "disposed" /\ stage'[r] = "disposed" => r \notin closing'
  /\ print'[r] = "held" => \/ print[r] = "held" /\ teardown[r] = teardown'[r]
                              /\ printInvalidated[r] = printInvalidated'[r]
                           \/ Active(r) /\ ~printInvalidated[r] /\ teardown[r] = teardown'[r]
                              /\ printInvalidated[r] = printInvalidated'[r]
                           \/ print[r] = "held" /\ teardown[r] # "Active"
  /\ ~Active(r) => /\ Drained(r) => Drained(r)'
                   /\ FileDrained(r) => FileDrained(r)'

\* The work of the sessions: only those of S may lose their last one, and only an
\* active session gets more.
WorkOnly(S) ==
  \A r \in Session :
    /\ r \notin S => (Drained(r)' => Drained(r))
    /\ ~Active(r) => /\ Drained(r) => Drained(r)'
                     /\ FileDrained(r) => FileDrained(r)'

(***************************************************************************)
(* The channel has room for every entry: a reap takes all it finds idle.   *)
(***************************************************************************)
LEMMA ReapTakesAll ==
  ASSUME TableInv, NEW S, Reap(S), NEW r \in Session
  PROVE  stage'[r] = IF r \in S /\ stage[r] = "live" /\ IdleDeferred(r)' THEN "cleanup"
                     ELSE stage[r]
<1> DEFINE R == {s \in S \cap Live : IdleDeferred(s)'}
<1>1. PICK A \in SUBSET R :
        /\ A # R => Cardinality(Channel) + Cardinality(A) = MaxSessions
        /\ stage' = [s \in Session |-> IF s \in A THEN "cleanup" ELSE stage[s]]
  BY DEF Reap, Accepted, Enqueue
<1>2. A = R
  <2> SUFFICES ASSUME A # R PROVE FALSE
    OBVIOUS
  <2>1. Live \in SUBSET Session /\ Channel \in SUBSET Session /\ A \in SUBSET Live
        /\ Channel \cap Live = {} /\ Occupied \in SUBSET Session
        /\ (Channel \cup Live) \in SUBSET Occupied
    BY DEF Live, Channel, Occupied
  <2>2. PICK x \in R \ A : TRUE
    OBVIOUS
  <2>3. x \in Live
    OBVIOUS
  <2> HIDE DEF R
  <2>4. /\ IsFiniteSet(A) /\ IsFiniteSet(Channel) /\ IsFiniteSet(Occupied)
        /\ IsFiniteSet(A \cup {x}) /\ IsFiniteSet(Channel \cup (A \cup {x}))
        /\ Cardinality(A) \in Nat /\ Cardinality(Channel) \in Nat
        /\ Cardinality(Occupied) \in Nat
        /\ Cardinality(Channel \cup (A \cup {x})) \in Nat
    <3>1. /\ A \in SUBSET Session /\ (A \cup {x}) \in SUBSET Session
          /\ (Channel \cup (A \cup {x})) \in SUBSET Session
      BY <2>1, <2>3
    <3> QED
      BY <2>1, <3>1, SessionSubsetFinite
  <2>5. Cardinality(A \cup {x}) = Cardinality(A) + 1
    BY <2>2, <2>4, FS_AddElement
  <2>6. Cardinality(Channel \cap (A \cup {x})) = 0
    <3>1. Channel \cap (A \cup {x}) = {}
      BY <2>1, <2>3
    <3> QED
      BY <3>1, FS_EmptySet
  <2>7. Cardinality(Channel \cup (A \cup {x}))
          = Cardinality(Channel) + Cardinality(A \cup {x}) - Cardinality(Channel \cap (A \cup {x}))
    BY <2>4, FS_Union, Zenon
  <2>8. Cardinality(Channel \cup (A \cup {x})) <= Cardinality(Occupied)
    <3>1. (Channel \cup (A \cup {x})) \in SUBSET Occupied
      BY <2>1, <2>3
    <3> QED
      BY <2>4, <3>1, FS_Subset
  <2>9. Cardinality(Occupied) <= MaxSessions
    BY DEF TableInv, HandleQuota
  <2> QED
    BY <1>1, <2>4, <2>5, <2>6, <2>7, <2>8, <2>9, BoundsAssumption
<1> QED
  BY <1>1, <1>2 DEF Live

(***************************************************************************)
(* A section that may end the last work of the sessions of S, and reaps    *)
(* them, leaves no deferred session behind.                                *)
(***************************************************************************)
LEMMA WorkEnds ==
  ASSUME SessionInv, NEW S, Reap(S), WorkOnly(S),
         UNCHANGED <<owner, teardown, barrier, invalidated, printInvalidated, window>>,
         \A r \in Session : print'[r] = "held" => print[r] = "held"
  PROVE  (\A r \in Session : Orderly(r)) /\ NoForgottenSession'
<1>1. ASSUME NEW r \in Session
      PROVE  stage'[r] = IF r \in S /\ stage[r] = "live" /\ IdleDeferred(r)' THEN "cleanup"
                         ELSE stage[r]
  BY ReapTakesAll DEF SessionInv
<1>2. \A r \in Session : Orderly(r)
  <2> SUFFICES ASSUME NEW r \in Session PROVE Orderly(r)
    OBVIOUS
  <2>1. stage'[r] # stage[r] => stage[r] = "live" /\ stage'[r] = "cleanup"
    BY <1>1
  <2> QED
    BY <2>1 DEF Orderly, WorkOnly, Moves
<1>3. ASSUME NEW r \in Session, stage'[r] = "live", IdleDeferred(r)'
      PROVE  window'[owner'[r]] = "discarded"
  <2>1. stage[r] = "live" /\ r \notin S
    BY <1>1, <1>3
  <2>2. IdleDeferred(r)
    BY <1>3, <2>1 DEF IdleDeferred, WorkOnly
  <2> QED
    BY <2>1, <2>2 DEF SessionInv, NoForgottenSession, Live
<1>4. NoForgottenSession'
  BY <1>3 DEF NoForgottenSession, Live
<1> QED
  BY <1>2, <1>4

\* A section that changes only the work of active sessions.
LEMMA WorkGoesOn ==
  ASSUME SessionInv, WorkOnly({}),
         UNCHANGED <<stage, owner, teardown, barrier, invalidated, printInvalidated, window>>,
         \A r \in Session : print'[r] = "held" =>
            print[r] = "held" \/ (Active(r) /\ ~printInvalidated[r])
  PROVE  (\A r \in Session : Orderly(r)) /\ NoForgottenSession'
<1>1. \A r \in Session : Orderly(r)
  BY DEF Orderly, WorkOnly
<1>2. \A r \in Session : IdleDeferred(r)' => IdleDeferred(r)
  BY DEF IdleDeferred, WorkOnly
<1>3. NoForgottenSession'
  BY <1>2 DEF SessionInv, NoForgottenSession, Live
<1> QED
  BY <1>1, <1>3

-----------------------------------------------------------------------------
(* The work of the sessions, step by step.                                 *)

Working == {"active", "waiting", "both", "closing"}

\* The documents of D work where those of docs do.
SameWork(D, docs) ==
  \A d \in D : \A s \in Session : d[s] \in Working <=> docs[s] \in Working

LEMMA SettledWork ==
  ASSUME NEW docs
  PROVE  /\ SameWork(Forgotten(docs), docs) /\ SameWork(Settled(docs), docs)
         /\ SameWork(UNION {ForgottenOf(d, Session) : d \in Promoted(docs)}, docs)
<1>1. ASSUME NEW D, NEW old PROVE SameWork(ForgottenOf(D, old), D)
  <2> SUFFICES ASSUME NEW d \in ForgottenOf(D, old), NEW s \in Session
               PROVE  d[s] \in Working <=> D[s] \in Working
    BY DEF SameWork
  <2>1. PICK F \in SUBSET {r \in old : D[r] = "finished"} :
          d = [r \in Session |-> IF r \in F THEN "absent" ELSE D[r]]
    BY Zenon DEF ForgottenOf
  <2> QED
    BY <2>1 DEF Working
<1>2. ASSUME NEW d \in Promoted(docs), NEW s \in Session
      PROVE  d[s] \in Working <=> docs[s] \in Working
  <2>1. PICK G \in SUBSET Waiting(docs) :
          d = [r \in Session |-> IF r \in G THEN "active" ELSE docs[r]]
    BY <1>2, Zenon DEF Promoted
  <2> QED
    BY <2>1 DEF Waiting, Working
<1>3. ASSUME NEW old, NEW d \in UNION {ForgottenOf(p, old) : p \in Promoted(docs)}, NEW s \in Session
      PROVE  d[s] \in Working <=> docs[s] \in Working
  <2>1. PICK e \in Promoted(docs) : d \in ForgottenOf(e, old)
    BY <1>3
  <2>2. SameWork(ForgottenOf(e, old), e)
    BY <1>1
  <2> QED
    BY <1>2, <2>1, <2>2 DEF SameWork
<1>4. ASSUME NEW old PROVE SameWork(UNION {ForgottenOf(p, old) : p \in Promoted(docs)}, docs)
  BY <1>3 DEF SameWork
<1>5. PICK old : old = {s \in Session : asm[s] = "finished"}
  OBVIOUS
<1>6. SameWork(Forgotten(docs), docs)
  BY <1>1, <1>5 DEF Forgotten
<1>7. Settled(docs) = UNION {ForgottenOf(p, old) : p \in Promoted(docs)}
  BY <1>5 DEF Settled, Forgotten
<1> QED
  BY <1>4, <1>6, <1>7

\* A document given v: the work of the others stays.
LEMMA DocumentGiven ==
  ASSUME asm \in [Session -> Document], NEW s \in Session, NEW v,
         asm' \in Forgotten([asm EXCEPT ![s] = v]) \/ asm' \in Settled([asm EXCEPT ![s] = v])
  PROVE  /\ \A r \in Session \ {s} : AssemblyWork(r)' <=> AssemblyWork(r)
         /\ AssemblyWork(s)' <=> v \in Working
<1> DEFINE docs == [asm EXCEPT ![s] = v]
<1>1. docs[s] = v /\ \A r \in Session \ {s} : docs[r] = asm[r]
  OBVIOUS
<1>2. asm' \in Forgotten(docs) \/ asm' \in Settled(docs)
  OBVIOUS
<1> HIDE DEF docs
<1>3. \A r \in Session : asm'[r] \in Working <=> docs[r] \in Working
  BY <1>2, SettledWork DEF SameWork
<1> QED
  BY <1>1, <1>3 DEF AssemblyWork, Working

LEMMA DocumentBegins ==
  ASSUME asm \in [Session -> Document], NEW s \in Session, RequestDocument(s)
  PROVE  (\A r \in Session \ {s} : AssemblyWork(r)' <=> AssemblyWork(r)) /\ AssemblyWork(s)'
<1>1. CASE asm' \in Forgotten([asm EXCEPT ![s] = "active"])
  <2> DEFINE v == "active"
  <2>1. v \in Working /\ asm' \in Forgotten([asm EXCEPT ![s] = v])
    BY <1>1 DEF Working
  <2> HIDE DEF v
  <2> QED
    BY <2>1, DocumentGiven
<1>2. CASE asm' = [asm EXCEPT ![s] = "waiting"] \/ asm' = [asm EXCEPT ![s] = "both"]
  BY <1>2 DEF AssemblyWork
<1> QED
  BY <1>1, <1>2 DEF RequestDocument

\* A call that ends work of s gives none to anybody.
LEMMA DocumentEnds ==
  ASSUME asm \in [Session -> Document], NEW s \in Session,
         \/ WithdrawRequest(s) \/ CancelDocument(s) \/ ReleaseDocument(s) \/ FinishDocument(s)
  PROVE  /\ \A r \in Session \ {s} : AssemblyWork(r)' <=> AssemblyWork(r)
         /\ AssemblyWork(s)' => AssemblyWork(s)
<1>1. PICK v : /\ v \in Working => asm[s] \in Working
               /\ \/ asm' \in Forgotten([asm EXCEPT ![s] = v])
                  \/ asm' \in Settled([asm EXCEPT ![s] = v])
  <2>1. CASE WithdrawRequest(s)
    <3> DEFINE w == IF asm[s] = "both" THEN "active" ELSE "idle"
    <3>1. asm' \in Forgotten([asm EXCEPT ![s] = w]) /\ (w \in Working => asm[s] \in Working)
      BY <2>1 DEF WithdrawRequest, Working
    <3> QED
      BY <3>1
  <2>2. CASE CancelDocument(s)
    <3> DEFINE w == Cancelled(asm[s])
    <3>1. asm' \in Forgotten([asm EXCEPT ![s] = w]) /\ (w \in Working => asm[s] \in Working)
      BY <2>2 DEF CancelDocument, Working, Cancelled
    <3> HIDE DEF w
    <3> QED
      BY <3>1
  <2>3. CASE ReleaseDocument(s)
    <3> DEFINE w == Returned(asm[s])
    <3>1. asm' \in Settled([asm EXCEPT ![s] = w]) /\ (w \in Working => asm[s] \in Working)
      BY <2>3 DEF ReleaseDocument, Holding, Working
    <3> HIDE DEF w
    <3> QED
      BY <3>1
  <2>4. CASE FinishDocument(s)
    <3> DEFINE w == "finished"
    <3>1. asm' \in Settled([asm EXCEPT ![s] = w]) /\ (w \in Working => asm[s] \in Working)
      BY <2>4 DEF FinishDocument, Working
    <3> HIDE DEF w
    <3> QED
      BY <3>1
  <2> QED
    BY <2>1, <2>2, <2>3, <2>4
<1>2. /\ \A r \in Session \ {s} : AssemblyWork(r)' <=> AssemblyWork(r)
      /\ AssemblyWork(s)' <=> v \in Working
  BY <1>1, DocumentGiven
<1> QED
  BY <1>1, <1>2 DEF AssemblyWork, Working

\* The other work of the sessions is as it was.
LEMMA DocumentOnly ==
  ASSUME SessionInv, NEW s \in Session, UNCHANGED <<queued, inFlight, links, print>>
  PROVE  /\ RequestDocument(s) /\ Active(s) => WorkOnly({})
         /\ WithdrawRequest(s) \/ CancelDocument(s) \/ ReleaseDocument(s) \/ FinishDocument(s)
              => WorkOnly({s})
<1>1. asm \in [Session -> Document]
  BY DEF SessionInv, TableInv, TypeOK
<1>2. ASSUME RequestDocument(s), Active(s) PROVE WorkOnly({})
  <2>1. (\A r \in Session \ {s} : AssemblyWork(r)' <=> AssemblyWork(r)) /\ AssemblyWork(s)'
    BY <1>1, <1>2, DocumentBegins
  <2> QED
    BY <1>2, <2>1 DEF WorkOnly, Drained, FileDrained
<1>3. ASSUME WithdrawRequest(s) \/ CancelDocument(s) \/ ReleaseDocument(s) \/ FinishDocument(s)
      PROVE  WorkOnly({s})
  <2>1. /\ \A r \in Session \ {s} : AssemblyWork(r)' <=> AssemblyWork(r)
        /\ AssemblyWork(s)' => AssemblyWork(s)
    BY <1>1, <1>3, DocumentEnds
  <2> QED
    BY <2>1 DEF WorkOnly, Drained, FileDrained
<1> QED
  BY <1>2, <1>3

\* The reservations, launches and leases.
LEMMA WorkSteps ==
  ASSUME SessionInv, NEW s \in Session
  PROVE  /\ EnqueueFile(s) \/ SelectFile(s) \/ AdmitLink(s) \/ AcquirePrint(s)
              \/ RequestAssembly(s)
            => WorkOnly({})
         /\ FinishSelected(s) \/ FinishRevoked(s) \/ SettleLink(s) \/ DropPrint(s)
              \/ CancelRequest(s) \/ ReleaseAssembly(s) \/ FinishAssemblies(s)
              \/ LifecycleCancelAssembly(s)
            => WorkOnly({s})
<1>1. /\ queued \in [Session -> 0..MaxSessionQueue]
      /\ inFlight \in [Session -> 0..MaxSessionInFlight]
      /\ links \in [Session -> 0..MaxSessionLinks]
      /\ print \in [Session -> {"none", "held", "cancelled"}]
  BY DEF SessionInv, TableInv, TypeOK
<1>2. ASSUME EnqueueFile(s) PROVE WorkOnly({})
  BY <1>1, <1>2, BoundsAssumption DEF EnqueueFile, QueueJob, WorkOnly, Drained, FileDrained, AssemblyWork
<1>3. ASSUME SelectFile(s) PROVE WorkOnly({})
  BY <1>1, <1>3, BoundsAssumption DEF SelectFile, SelectJob, WorkOnly, Drained, FileDrained, AssemblyWork
<1>4. ASSUME AdmitLink(s) PROVE WorkOnly({})
  BY <1>1, <1>4, BoundsAssumption DEF AdmitLink, WorkOnly, Drained, FileDrained, AssemblyWork
<1>5. ASSUME AcquirePrint(s) PROVE WorkOnly({})
  BY <1>1, <1>5 DEF AcquirePrint, WorkOnly, Drained, FileDrained, AssemblyWork
<1>6. ASSUME RequestAssembly(s) PROVE WorkOnly({})
  <2>1. RequestDocument(s) /\ Active(s) /\ UNCHANGED <<queued, inFlight, links, print>>
    BY <1>6 DEF RequestAssembly
  <2> QED
    BY <2>1, DocumentOnly
<1>7. ASSUME FinishSelected(s) PROVE WorkOnly({s})
  BY <1>1, <1>7, BoundsAssumption DEF FinishSelected, SettleSelected, WorkOnly, Drained, FileDrained,
                                      AssemblyWork
<1>8. ASSUME FinishRevoked(s) PROVE WorkOnly({s})
  BY <1>1, <1>8, BoundsAssumption DEF FinishRevoked, SettleRevoked, WorkOnly, Drained, FileDrained,
                                      AssemblyWork
<1>9. ASSUME SettleLink(s) PROVE WorkOnly({s})
  BY <1>1, <1>9, BoundsAssumption DEF SettleLink, WorkOnly, Drained, FileDrained, AssemblyWork
<1>10. ASSUME DropPrint(s) PROVE WorkOnly({s})
  BY <1>1, <1>10 DEF DropPrint, WorkOnly, Drained, FileDrained, AssemblyWork
<1>11. ASSUME CancelRequest(s) \/ ReleaseAssembly(s) \/ FinishAssemblies(s)
              \/ LifecycleCancelAssembly(s)
       PROVE  WorkOnly({s})
  <2>1. /\ UNCHANGED <<queued, inFlight, links, print>>
        /\ WithdrawRequest(s) \/ CancelDocument(s) \/ ReleaseDocument(s) \/ FinishDocument(s)
    BY <1>11 DEF CancelRequest, ReleaseAssembly, FinishAssemblies, LifecycleCancelAssembly
  <2> QED
    BY <2>1, DocumentOnly
<1> QED
  BY <1>2, <1>3, <1>4, <1>5, <1>6, <1>7, <1>8, <1>9, <1>10, <1>11

-----------------------------------------------------------------------------
(***************************************************************************)
(* Every step is orderly and forgets no deferred session.                  *)
(***************************************************************************)
Settles == (\A r \in Session : Orderly(r)) /\ NoForgottenSession'

LEMMA WorkSettles ==
  ASSUME SessionInv, NEW s \in Session,
         \/ EnqueueFile(s) \/ SelectFile(s) \/ AdmitLink(s) \/ AcquirePrint(s)
         \/ RequestAssembly(s)
         \/ FinishSelected(s) \/ FinishRevoked(s) \/ SettleLink(s) \/ DropPrint(s)
         \/ CancelRequest(s) \/ ReleaseAssembly(s) \/ FinishAssemblies(s)
         \/ LifecycleCancelAssembly(s)
  PROVE  Settles
<1>1. print \in [Session -> {"none", "held", "cancelled"}]
  BY DEF SessionInv, TableInv, TypeOK
<1>2. CASE EnqueueFile(s) \/ SelectFile(s) \/ AdmitLink(s) \/ AcquirePrint(s)
             \/ RequestAssembly(s)
  <2>1. WorkOnly({})
    BY <1>2, WorkSteps
  <2>2. /\ UNCHANGED <<stage, owner, teardown, barrier, invalidated, printInvalidated, window>>
        /\ \A r \in Session : print'[r] = "held" =>
             print[r] = "held" \/ (Active(r) /\ ~printInvalidated[r])
    BY <1>1, <1>2 DEF EnqueueFile, SelectFile, AdmitLink, AcquirePrint, RequestAssembly
  <2> QED
    BY <2>1, <2>2, WorkGoesOn DEF Settles
<1>3. CASE FinishSelected(s) \/ FinishRevoked(s) \/ SettleLink(s) \/ DropPrint(s)
             \/ CancelRequest(s) \/ ReleaseAssembly(s) \/ FinishAssemblies(s)
             \/ LifecycleCancelAssembly(s)
  <2>1. WorkOnly({s})
    BY <1>3, WorkSteps
  <2>2. /\ UNCHANGED <<owner, teardown, barrier, invalidated, printInvalidated, window>>
        /\ Reap({s})
        /\ \A r \in Session : print'[r] = "held" => print[r] = "held"
    BY <1>1, <1>3 DEF FinishSelected, FinishRevoked, SettleLink, DropPrint, CancelRequest,
                      ReleaseAssembly, FinishAssemblies, LifecycleCancelAssembly
  <2> QED
    BY <2>1, <2>2, WorkEnds DEF Settles
<1> QED
  BY <1>2, <1>3

LEMMA WorkKept ==
  ASSUME UNCHANGED <<queued, inFlight, links, print, asm>>
  PROVE  /\ \A S : WorkOnly(S)
         /\ \A r \in Session : (Drained(r)' <=> Drained(r)) /\ (FileDrained(r)' <=> FileDrained(r))
BY DEF WorkOnly, Drained, FileDrained, AssemblyWork

LEMMA OpenSettles ==
  ASSUME SessionInv, NEW s \in Session,
         (\E o \in Owner : AdmitOpen(s, o)) \/ DropOpen(s) \/ PublishOpen(s)
  PROVE  Settles
<1>1. /\ UNCHANGED <<teardown, barrier, print, printInvalidated, window>>
      /\ UNCHANGED <<queued, inFlight, links, print, asm>>
      /\ stage \in [Session -> Stage] /\ owner \in [Session -> Owner]
      /\ invalidated \in [Session -> BOOLEAN]
  BY DEF SessionInv, TableInv, TypeOK, AdmitOpen, DropOpen, PublishOpen
<1>2. \A r \in Session : (Drained(r)' <=> Drained(r)) /\ (FileDrained(r)' <=> FileDrained(r))
  BY <1>1, WorkKept
<1>3. /\ \A r \in Session \ {s} : stage'[r] = stage[r] /\ owner'[r] = owner[r]
                                   /\ invalidated'[r] = invalidated[r]
      /\ \/ /\ stage[s] = "unused" /\ stage'[s] = "opening" /\ invalidated'[s] = invalidated[s]
            /\ ~Fenced(owner'[s]) /\ (window[owner'[s]] # "open" => LateCommands)
         \/ stage[s] = "opening" /\ stage'[s] = "unused"
         \/ /\ stage[s] = "opening" /\ stage'[s] = "live" /\ ~invalidated[s]
            /\ owner'[s] = owner[s] /\ invalidated'[s] = invalidated[s]
  BY <1>1 DEF AdmitOpen, DropOpen, PublishOpen, CommandMayRun
<1>4. \A r \in Session : Orderly(r)
  <2> SUFFICES ASSUME NEW r \in Session PROVE Orderly(r)
    OBVIOUS
  <2>1. CASE r # s
    BY <1>1, <1>2, <1>3, <2>1 DEF Orderly
  <2>2. CASE r = s
    BY <1>1, <1>2, <1>3, <2>2 DEF Orderly, Moves
  <2> QED
    BY <2>1, <2>2
<1>5. ASSUME NEW r \in Session, stage'[r] = "live", IdleDeferred(r)'
      PROVE  window'[owner'[r]] = "discarded"
  <2>1. teardown[r] = "LifecycleDeferred" /\ Drained(r)
    BY <1>1, <1>2, <1>5 DEF IdleDeferred
  <2>2. r # s
    BY <1>3, <2>1 DEF SessionInv, NewIsUntouched
  <2> QED
    BY <1>1, <1>3, <1>5, <2>1, <2>2 DEF SessionInv, NoForgottenSession, Live, IdleDeferred
<1>6. NoForgottenSession'
  BY <1>5 DEF NoForgottenSession, Live
<1> QED
  BY <1>4, <1>6 DEF Settles

LEMMA FlagOnly ==
  ASSUME SessionInv, NEW S \in SUBSET Session, print' = Flagged(S),
         UNCHANGED <<queued, inFlight, links, asm>>
  PROVE  /\ \A r \in Session : /\ Drained(r)' <=> Drained(r)
                               /\ FileDrained(r)' <=> FileDrained(r)
                               /\ print'[r] = "held" => print[r] = "held" /\ r \notin S
         /\ WorkOnly({})
BY DEF SessionInv, TableInv, TypeOK, Flagged, WorkOnly, Drained, FileDrained, AssemblyWork

LEMMA InvalidateSettles ==
  ASSUME SessionInv, NEW o \in Owner, InvalidatePrintOwner(o) \/ DestroyBegin(o)
  PROVE  Settles
<1>1. InvalidatePrint(o.label) /\ Labelled(o.label) \in SUBSET Session
  BY DEF InvalidatePrintOwner, DestroyBegin, Labelled, Live
<1>2. /\ UNCHANGED <<stage, owner, teardown, barrier, invalidated, queued, inFlight, links, asm>>
      /\ print' = Flagged(Labelled(o.label))
      /\ \A r \in Session : r \notin Labelled(o.label) => (printInvalidated'[r] <=> printInvalidated[r])
      /\ printInvalidated' = [s \in Session |-> printInvalidated[s] \/ s \in Labelled(o.label)]
  BY <1>1 DEF InvalidatePrint
<1>3. \A r \in Session : /\ Drained(r)' <=> Drained(r)
                         /\ FileDrained(r)' <=> FileDrained(r)
                         /\ print'[r] = "held" => print[r] = "held" /\ r \notin Labelled(o.label)
  BY <1>1, <1>2, FlagOnly
<1>4. \A r \in Session : r \notin Labelled(o.label) => printInvalidated'[r] = printInvalidated[r]
  BY <1>2 DEF SessionInv, TableInv, TypeOK
<1>5. \A r \in Session : Orderly(r)
  BY <1>2, <1>3, <1>4 DEF Orderly
<1>6. \A r \in Session : IdleDeferred(r)' => IdleDeferred(r)
  BY <1>2, <1>3 DEF IdleDeferred
<1>7. \A p \in Owner : window[p] = "discarded" => window'[p] = "discarded"
  BY DEF SessionInv, TableInv, TypeOK, InvalidatePrintOwner, DestroyBegin
<1>8. owner \in [Session -> Owner]
  BY DEF SessionInv, TableInv, TypeOK
<1>9. NoForgottenSession'
  BY <1>2, <1>6, <1>7, <1>8 DEF SessionInv, NoForgottenSession, Live
<1> QED
  BY <1>5, <1>9 DEF Settles

\* The discarded documents may have been the last work of their sessions: those
\* are the ones the last section of the handler reaps.
LEMMA DiscardSettles ==
  ASSUME SessionInv, NEW o \in Owner, DestroyDiscard(o)
  PROVE  Settles
<1> DEFINE docs == [s \in Session |->
                      IF s \in Owned(Session, o) /\ asm[s] # "absent" THEN "finished" ELSE asm[s]]
<1>1. /\ UNCHANGED <<stage, owner, teardown, barrier, invalidated, printInvalidated, print,
                     queued, inFlight, links>>
      /\ window[o] = "destroying" /\ window' = [window EXCEPT ![o] = "discarded"]
      /\ asm' \in UNION {ForgottenOf(d, Session) : d \in Promoted(docs)}
      /\ window \in [Owner -> Window] /\ owner \in [Session -> Owner]
      /\ asm \in [Session -> Document]
  BY DEF SessionInv, TableInv, TypeOK, DestroyDiscard, DiscardDocuments
<1>2. \A r \in Session : /\ docs[r] \in Working => asm[r] \in Working
                         /\ owner[r] # o => docs[r] = asm[r]
  BY DEF Owned, Working
<1> HIDE DEF docs
<1>3. \A r \in Session : /\ AssemblyWork(r)' => AssemblyWork(r)
                         /\ owner[r] # o => (AssemblyWork(r)' <=> AssemblyWork(r))
  <2>1. \A r \in Session : asm'[r] \in Working <=> docs[r] \in Working
    BY <1>1, SettledWork DEF SameWork
  <2> QED
    BY <1>2, <2>1 DEF AssemblyWork, Working
<1>4. \A r \in Session : Orderly(r)
  BY <1>1, <1>3 DEF Orderly, Drained, FileDrained
<1>5. ASSUME NEW r \in Live, IdleDeferred(r)'
      PROVE  window'[owner[r]] = "discarded"
  <2>1. r \in Session /\ owner[r] \in Owner
    BY <1>1 DEF Live
  <2>2. CASE owner[r] = o
    BY <1>1, <2>2
  <2>3. CASE owner[r] # o
    <3>1. IdleDeferred(r)
      BY <1>1, <1>3, <1>5, <2>1, <2>3 DEF IdleDeferred, Drained
    <3> QED
      BY <1>1, <2>1, <2>3, <3>1 DEF SessionInv, NoForgottenSession
  <2> QED
    BY <2>2, <2>3
<1>6. NoForgottenSession'
  BY <1>1, <1>5 DEF NoForgottenSession, Live
<1> QED
  BY <1>4, <1>6 DEF Settles

\* Steps that only move one session along, or nothing but the caller, the
\* barriers and the quit.
LEMMA MovesOnly ==
  ASSUME SessionInv,
         UNCHANGED <<owner, teardown, invalidated, queued, inFlight, links, print, asm,
                     printInvalidated, window>>,
         \A r \in Session : /\ stage'[r] # stage[r] => <<stage[r], stage'[r]>> \in Moves
                            /\ stage'[r] \in {"live", "opening"} => stage[r] = stage'[r]
                            /\ stage[r] # "disposed" /\ stage'[r] = "disposed" => r \notin closing'
                            /\ barrier'[r] # barrier[r] =>
                                 /\ stage[r] = "live" /\ stage'[r] = "live"
                                 /\ teardown[r] # "Active" /\ Drained(r)
  PROVE  Settles
<1>1. \A r \in Session : (Drained(r)' <=> Drained(r)) /\ (FileDrained(r)' <=> FileDrained(r))
  BY WorkKept
<1>2. \A r \in Session : Orderly(r)
  BY <1>1 DEF Orderly
<1>3. \A r \in Session : IdleDeferred(r)' <=> IdleDeferred(r)
  BY <1>1 DEF IdleDeferred
<1>4. NoForgottenSession'
  BY <1>3 DEF SessionInv, NoForgottenSession, Live
<1> QED
  BY <1>2, <1>4 DEF Settles

LEMMA WorkerSettles ==
  ASSUME SessionInv, NEW s \in Session, WorkerTake(s) \/ WorkerFinish(s)
  PROVE  Settles
<1>1. /\ UNCHANGED <<owner, teardown, invalidated, queued, inFlight, links, print, asm,
                     printInvalidated, window, barrier>>
      /\ \A r \in Session : /\ stage'[r] # stage[r] => <<stage[r], stage'[r]>> \in Moves
                            /\ stage'[r] \in {"live", "opening"} => stage[r] = stage'[r]
                            /\ stage[r] # "disposed" /\ stage'[r] = "disposed" => r \notin closing'
  BY DEF SessionInv, TableInv, TypeOK, WorkerTake, WorkerFinish, Moves
<1> QED
  BY <1>1, MovesOnly

LEMMA CloseSettles ==
  ASSUME SessionInv, NEW c \in Caller,
         \/ \E s \in Session : CloseBegin(c, s) \/ CloseAgain(c, s)
         \/ CloseSettled(c) \/ CloseTimeout(c) \/ CloseReturn(c)
  PROVE  Settles
<1>1. CASE \E s \in Session : CloseBegin(c, s)
  <2>1. PICK s \in Session : CloseBegin(c, s)
    BY <1>1
  <2>2. PICK A \in SUBSET {s} : Enqueue(A)
    BY <2>1 DEF CloseBegin, Accepted
  <2>3. /\ UNCHANGED <<owner, teardown, invalidated, queued, inFlight, links, print, asm,
                       printInvalidated, window, barrier>>
        /\ stage[s] = "live"
    BY <2>1 DEF CloseBegin
  <2>4. \A r \in Session : /\ stage'[r] # stage[r] => <<stage[r], stage'[r]>> \in Moves
                           /\ stage'[r] \in {"live", "opening"} => stage[r] = stage'[r]
                           /\ stage'[r] # "disposed" \/ stage[r] = "disposed"
    BY <2>2, <2>3 DEF Enqueue, Moves
  <2> QED
    BY <2>3, <2>4, MovesOnly
<1>2. CASE \/ \E s \in Session : CloseAgain(c, s)
           \/ CloseSettled(c) \/ CloseTimeout(c) \/ CloseReturn(c)
  <2>1. UNCHANGED <<stage, owner, teardown, invalidated, queued, inFlight, links, print, asm,
                    printInvalidated, window, barrier>>
    BY <1>2 DEF CloseAgain, CloseSettled, CloseTimeout, CloseReturn
  <2> QED
    BY <2>1, MovesOnly
<1> QED
  BY <1>1, <1>2

\* A barrier is handed out for a session that is drained.
LEMMA CancelWaitSettles ==
  ASSUME SessionInv, NEW c \in Caller,
         \/ CancelReturnEarly(c) \/ CancelDrained(c) \/ CancelLinksSettled(c)
         \/ CancelTimeout(c)
  PROVE  Settles
<1> DEFINE s == caller[c].s
<1>1. UNCHANGED <<stage, owner, teardown, invalidated, queued, inFlight, links, print, asm,
                  printInvalidated, window>>
  BY DEF CancelReturnEarly, CancelDrained, CancelLinksSettled, CancelTimeout
<1>2. /\ s \in Session /\ barrier \in [Session -> Nat]
  BY DEF SessionInv, TableInv, TypeOK
<1>3. ASSUME NEW r \in Session, barrier'[r] # barrier[r]
      PROVE  stage[r] = "live" /\ teardown[r] # "Active" /\ Drained(r)
  <2>1. CancelDrained(c) \/ CancelLinksSettled(c)
    BY <1>3 DEF CancelReturnEarly, CancelTimeout
  <2>2. TakeBarrier(s) /\ links[s] = 0 /\ stage[s] = "live"
    BY <1>3, <2>1 DEF CancelDrained, CancelLinksSettled
  <2>3. r = s /\ teardown[s] = "CommandCancelling"
    BY <1>2, <1>3, <2>2 DEF TakeBarrier
  <2>4. FileDrained(s)
    <3>1. CASE CancelDrained(c)
      BY <3>1 DEF CancelDrained
    <3>2. CASE CancelLinksSettled(c)
      BY <3>2 DEF CancelLinksSettled, SessionInv, CallersWait, CallerWaits, Waits
    <3> QED
      BY <2>1, <3>1, <3>2
  <2> QED
    BY <2>2, <2>3, <2>4 DEF FileDrained, Drained
<1> QED
  BY <1>1, <1>3, MovesOnly

LEMMA QuitSettles ==
  ASSUME SessionInv, QuitDrained \/ QuitTimeout
  PROVE  Settles
<1>1. UNCHANGED <<stage, owner, teardown, invalidated, queued, inFlight, links, print, asm,
                  printInvalidated, window, barrier>>
  BY DEF QuitDrained, QuitTimeout
<1> QED
  BY <1>1, MovesOnly

LEMMA ReapSettles ==
  ASSUME SessionInv, QuitScheduleIdle \/ \E s \in Session : ReapDeferredCancellation(s)
  PROVE  Settles
<1>1. /\ UNCHANGED <<owner, teardown, barrier, invalidated, printInvalidated, window>>
      /\ UNCHANGED <<queued, inFlight, links, print, asm>>
  BY DEF QuitScheduleIdle, ReapDeferredCancellation
<1>2. PICK S : Reap(S)
  BY DEF QuitScheduleIdle, ReapDeferredCancellation
<1>3. WorkOnly(S)
  BY <1>1, WorkKept
<1> QED
  BY <1>1, <1>2, <1>3, WorkEnds DEF Settles

LEMMA CancelBeginSettles ==
  ASSUME SessionInv, NEW c \in Caller, NEW s \in Session, CancelBegin(c, s)
  PROVE  Settles
<1>1. /\ UNCHANGED <<stage, owner, barrier, invalidated, printInvalidated, window, queued,
                     inFlight, links, asm>>
      /\ print' = Flagged({s}) /\ {s} \in SUBSET Session
      /\ stage[s] = "live" /\ teardown[s] # "LifecycleDeferred"
      /\ teardown' = [teardown EXCEPT ![s] = "CommandCancelling"]
      /\ teardown \in [Session -> Teardown]
  BY DEF SessionInv, TableInv, TypeOK, CancelBegin
<1>2. \A r \in Session : /\ Drained(r)' <=> Drained(r)
                         /\ FileDrained(r)' <=> FileDrained(r)
                         /\ print'[r] = "held" => print[r] = "held" /\ r \notin {s}
  BY <1>1, FlagOnly
<1>3. \A r \in Session : Orderly(r)
  BY <1>1, <1>2 DEF Orderly
<1>4. \A r \in Session : IdleDeferred(r)' => IdleDeferred(r)
  BY <1>1, <1>2 DEF IdleDeferred
<1>5. NoForgottenSession'
  BY <1>1, <1>4 DEF SessionInv, NoForgottenSession, Live
<1> QED
  BY <1>3, <1>5 DEF Settles

LEMMA CancelAssemblySettles ==
  ASSUME SessionInv, NEW c \in Caller, CancelAssembly(c)
  PROVE  Settles
<1>1. PICK s \in Session : s = caller[c].s
  BY DEF SessionInv, TableInv, TypeOK
<1>2. /\ UNCHANGED <<owner, teardown, barrier, invalidated, printInvalidated, window>>
      /\ UNCHANGED <<queued, inFlight, links, print>>
      /\ Reap({s})
      /\ CancelDocument(s) \/ asm' = asm
  BY <1>1 DEF CancelAssembly
<1>3. WorkOnly({s})
  BY <1>2, DocumentOnly, WorkKept
<1> QED
  BY <1>2, <1>3, WorkEnds DEF Settles

\* A section that defers the sessions of S and reaps them at once.
LEMMA DeferSettles ==
  ASSUME SessionInv, NEW S, Reap(S), WorkOnly({}),
         UNCHANGED <<owner, barrier, printInvalidated>>,
         \A r \in Session :
           /\ teardown'[r] # teardown[r] => /\ r \in S /\ stage[r] = "live"
                                            /\ teardown'[r] = "LifecycleDeferred"
                                            /\ print'[r] = "held" => teardown[r] # "Active"
           /\ print'[r] = "held" => print[r] = "held"
           /\ invalidated[r] => invalidated'[r]
           /\ r \in Live \ S /\ window[owner[r]] = "discarded" => window'[owner[r]] = "discarded"
  PROVE  Settles
<1>1. ASSUME NEW r \in Session
      PROVE  stage'[r] = IF r \in S /\ stage[r] = "live" /\ IdleDeferred(r)' THEN "cleanup"
                         ELSE stage[r]
  BY ReapTakesAll DEF SessionInv
<1>2. ASSUME NEW r \in Session PROVE Orderly(r)
  <2>1. stage'[r] # stage[r] => stage[r] = "live" /\ stage'[r] = "cleanup"
    BY <1>1
  <2>2. teardown'[r] # teardown[r] => teardown[r] # "LifecycleDeferred" /\ teardown'[r] # "Active"
    OBVIOUS
  <2> QED
    BY <2>1, <2>2 DEF Orderly, WorkOnly, Moves
<1>3. ASSUME NEW r \in Session, stage'[r] = "live", IdleDeferred(r)'
      PROVE  window'[owner'[r]] = "discarded"
  <2>1. stage[r] = "live" /\ r \notin S
    BY <1>1, <1>3
  <2>2. IdleDeferred(r)
    BY <1>3, <2>1 DEF IdleDeferred, WorkOnly
  <2> QED
    BY <2>1, <2>2 DEF SessionInv, NoForgottenSession, Live
<1>4. NoForgottenSession'
  BY <1>3 DEF NoForgottenSession, Live
<1> QED
  BY <1>2, <1>4 DEF Settles

LEMMA DeferCancellationSettles ==
  ASSUME SessionInv, NEW c \in Caller, DeferCommandCancellation(c)
  PROVE  Settles
<1>1. PICK s \in Session : s = caller[c].s
  BY DEF SessionInv, TableInv, TypeOK
<1>2. /\ UNCHANGED <<owner, barrier, invalidated, printInvalidated, window>>
      /\ UNCHANGED <<queued, inFlight, links, print, asm>>
      /\ Reap({s})
      /\ teardown' = IF stage[s] = "live" /\ teardown[s] = "CommandCancelling"
                     THEN [teardown EXCEPT ![s] = "LifecycleDeferred"] ELSE teardown
      /\ teardown \in [Session -> Teardown]
  BY <1>1 DEF SessionInv, TableInv, TypeOK, DeferCommandCancellation
<1>3. WorkOnly({})
  BY <1>2, WorkKept
<1>4. \A r \in Session :
        teardown'[r] # teardown[r] => /\ r \in {s} /\ stage[r] = "live"
                                      /\ teardown'[r] = "LifecycleDeferred"
                                      /\ teardown[r] # "Active"
  BY <1>2
<1> QED
  BY <1>2, <1>3, <1>4, DeferSettles

LEMMA LifecycleSettles ==
  ASSUME SessionInv, NEW o \in Owner, DeferOwned(o) \/ DestroyDefer(o) \/ DeferAll
  PROVE  Settles
<1>1. PICK S \in SUBSET Live, O \in SUBSET Session :
        /\ DeferMatching(S, O) /\ asm' = asm /\ Reap(S)
        /\ \/ S = Live /\ window' = window
           \/ S = Owned(Live, o)
  <2>1. Owned(Live, o) \in SUBSET Live /\ Live \in SUBSET Live
        /\ Owned(Opening, o) \in SUBSET Session /\ Opening \in SUBSET Session
    BY DEF Owned, Opening
  <2>2. CASE DeferAll
    BY <2>1, <2>2, Zenon DEF DeferAll
  <2>3. CASE DeferOwned(o) \/ DestroyDefer(o)
    BY <2>1, <2>3, Zenon DEF DeferOwned, DestroyDefer
  <2> QED
    BY <2>2, <2>3
<1>2. /\ UNCHANGED <<owner, barrier, printInvalidated, queued, inFlight, links, asm>>
      /\ print' = Flagged(S) /\ S \in SUBSET Session
      /\ teardown' = [s \in Session |-> IF s \in S THEN "LifecycleDeferred" ELSE teardown[s]]
      /\ invalidated' = [s \in Session |-> invalidated[s] \/ s \in O]
  BY <1>1 DEF DeferMatching, Live
<1>3. /\ \A r \in Session : print'[r] = "held" => print[r] = "held" /\ r \notin S
      /\ WorkOnly({})
  BY <1>2, FlagOnly
<1>4. /\ window \in [Owner -> Window] /\ owner \in [Session -> Owner]
      /\ \A p \in Owner : p # o => window'[p] = window[p]
  BY DEF SessionInv, TableInv, TypeOK, DeferOwned, DestroyDefer, DeferAll
<1>5. ASSUME NEW r \in Live \ S, window[owner[r]] = "discarded"
      PROVE  window'[owner[r]] = "discarded"
  BY <1>1, <1>4, <1>5 DEF Owned, Live
<1>6. \A r \in Session :
           /\ teardown'[r] # teardown[r] => /\ r \in S /\ stage[r] = "live"
                                            /\ teardown'[r] = "LifecycleDeferred"
                                            /\ print'[r] = "held" => teardown[r] # "Active"
           /\ print'[r] = "held" => print[r] = "held"
           /\ invalidated[r] => invalidated'[r]
  BY <1>1, <1>2, <1>3 DEF Live
<1> QED
  BY <1>1, <1>2, <1>3, <1>5, <1>6, DeferSettles

LEMMA StepSettles == SessionInv /\ [Next]_vars => Settles
<1> SUFFICES ASSUME SessionInv, [Next]_vars PROVE Settles
  OBVIOUS
<1>1. CASE UNCHANGED vars
  BY <1>1, MovesOnly DEF vars
<1>2. ASSUME NEW s \in Session, SessionNext(s) PROVE Settles
  <2>1. CASE (\E o \in Owner : AdmitOpen(s, o)) \/ DropOpen(s) \/ PublishOpen(s)
    BY <2>1, OpenSettles
  <2>2. CASE \/ EnqueueFile(s) \/ SelectFile(s) \/ FinishSelected(s) \/ FinishRevoked(s)
             \/ AcquirePrint(s) \/ DropPrint(s) \/ AdmitLink(s) \/ SettleLink(s)
             \/ RequestAssembly(s) \/ CancelRequest(s) \/ ReleaseAssembly(s) \/ FinishAssemblies(s)
             \/ LifecycleCancelAssembly(s)
    BY <2>2, WorkSettles
  <2>3. CASE ReapDeferredCancellation(s)
    BY <2>3, ReapSettles
  <2>4. CASE WorkerTake(s) \/ WorkerFinish(s)
    BY <2>4, WorkerSettles
  <2> QED
    BY <1>2, <2>1, <2>2, <2>3, <2>4 DEF SessionNext
<1>3. ASSUME NEW c \in Caller, CallerNext(c) PROVE Settles
  <2>1. CASE \E s \in Session : CancelBegin(c, s)
    BY <2>1, CancelBeginSettles
  <2>2. CASE CancelAssembly(c) \/ DeferCommandCancellation(c)
    BY <2>2, CancelAssemblySettles, DeferCancellationSettles
  <2>3. CASE \/ CancelReturnEarly(c) \/ CancelDrained(c) \/ CancelLinksSettled(c)
             \/ CancelTimeout(c)
    BY <2>3, CancelWaitSettles
  <2>4. CASE \/ \E s \in Session : CloseBegin(c, s) \/ CloseAgain(c, s)
             \/ CloseSettled(c) \/ CloseTimeout(c) \/ CloseReturn(c)
    BY <2>4, CloseSettles
  <2> QED
    BY <1>3, <2>1, <2>2, <2>3, <2>4 DEF CallerNext
<1>4. ASSUME NEW o \in Owner,
             \/ InvalidatePrintOwner(o) \/ DeferOwned(o)
             \/ DestroyBegin(o) \/ DestroyDiscard(o) \/ DestroyDefer(o)
      PROVE  Settles
  BY <1>4, InvalidateSettles, LifecycleSettles, DiscardSettles
<1>5. CASE DeferAll \/ QuitScheduleIdle \/ QuitDrained \/ QuitTimeout
  BY <1>5, OwnerChoice, LifecycleSettles, ReapSettles, QuitSettles
<1> QED
  BY <1>1, <1>2, <1>3, <1>4, <1>5 DEF Next, LifecycleNext

-----------------------------------------------------------------------------
(***************************************************************************)
(* The parts of the invariant.                                             *)
(***************************************************************************)
LEMMA SessionsStayRight ==
  ASSUME SessionInv, TypeOK', Settles
  PROVE  NewIsUntouched' /\ BarrierMeansDrained' /\ LiveLeaseIsWanted'
<1>1. stage \in [Session -> Stage] /\ \A r \in Session : Orderly(r)
  BY DEF SessionInv, TableInv, TypeOK, Settles
<1>2. ASSUME NEW r \in Session, stage'[r] \in {"unused", "opening"}
      PROVE  teardown'[r] = "Active" /\ barrier'[r] = 0
  <2>1. stage[r] \in {"unused", "opening"}
    BY <1>1, <1>2 DEF Orderly, Moves
  <2> QED
    BY <1>1, <2>1 DEF Orderly, SessionInv, NewIsUntouched
<1>3. ASSUME NEW r \in Session, stage'[r] = "live", barrier'[r] # 0
      PROVE  Drained(r)' /\ teardown'[r] # "Active"
  <2>1. stage[r] = "live"
    BY <1>1, <1>3 DEF Orderly, Moves, SessionInv, NewIsUntouched
  <2>2. Drained(r) /\ teardown[r] # "Active"
    BY <1>1, <1>3, <2>1 DEF Orderly, SessionInv, BarrierMeansDrained, Live
  <2> QED
    BY <1>1, <2>2 DEF Orderly, Active
<1>4. ASSUME NEW r \in Session, stage'[r] = "live", print'[r] = "held"
      PROVE  teardown'[r] = "Active" /\ ~printInvalidated'[r]
  <2>1. stage[r] = "live" \/ stage[r] = "opening"
    BY <1>1, <1>4 DEF Orderly, Moves
  <2>2. stage[r] = "opening" => print[r] = "none"
    BY DEF SessionInv, TableInv, CleanupIsDrained, Drained, Live
  <2>3. print[r] = "held" => stage[r] = "live" /\ teardown[r] = "Active" /\ ~printInvalidated[r]
    BY <2>1, <2>2 DEF SessionInv, LiveLeaseIsWanted, Live
  <2>4. \/ print[r] = "held" /\ teardown[r] = teardown'[r] /\ printInvalidated[r] = printInvalidated'[r]
        \/ Active(r) /\ ~printInvalidated[r] /\ teardown[r] = teardown'[r]
             /\ printInvalidated[r] = printInvalidated'[r]
        \/ print[r] = "held" /\ teardown[r] # "Active"
    BY <1>1, <1>4 DEF Orderly
  <2> QED
    BY <2>3, <2>4 DEF Active
<1> QED
  BY <1>2, <1>3, <1>4 DEF NewIsUntouched, BarrierMeansDrained, LiveLeaseIsWanted, Live

CallerHolds(c) ==
  CallerWaits(c) /\ (caller[c].pc = "closed" => stage[caller[c].s] = "disposed")

\* What a command waits for, or reported, stays so whoever else steps.
LEMMA SessionKept ==
  ASSUME SessionInv, Settles, NEW s \in Session
  PROVE  /\ stage[s] \notin {"unused", "opening"} => stage'[s] \notin {"unused", "opening"}
         /\ stage'[s] = "live" => stage[s] \in {"live", "opening"}
         /\ stage[s] = "disposed" => stage'[s] = "disposed"
         /\ teardown[s] # "Active" => teardown'[s] # "Active"
         /\ teardown[s] # "Active" /\ FileDrained(s) => FileDrained(s)'
<1>1. Orderly(s) /\ stage[s] \in Stage
  BY DEF Settles, SessionInv, TableInv, TypeOK
<1>2. teardown[s] # "Active" => ~Active(s)
  BY DEF Active
<1> QED
  BY <1>1, <1>2 DEF Orderly, Moves, Stage

LEMMA CallerKept ==
  ASSUME SessionInv, Settles, NEW c \in Caller, caller'[c] = caller[c]
  PROVE  CallerHolds(c)'
<1>1. PICK s \in Session : s = caller[c].s
  BY DEF SessionInv, TableInv, TypeOK
<1>2. s = caller'[c].s /\ caller'[c].pc = caller[c].pc
  BY <1>1
<1>3. CallerHolds(c)
  BY DEF SessionInv, CallersWait, ClosedMeansDisposed, CallerHolds
<1>4. /\ stage[s] \notin {"unused", "opening"} => stage'[s] \notin {"unused", "opening"}
      /\ stage'[s] = "live" => stage[s] \in {"live", "opening"}
      /\ stage[s] = "disposed" => stage'[s] = "disposed"
      /\ teardown[s] # "Active" => teardown'[s] # "Active"
      /\ teardown[s] # "Active" /\ FileDrained(s) => FileDrained(s)'
  BY SessionKept
<1>5. FileDrained(caller[c].s)' <=> FileDrained(s)'
  BY <1>2 DEF FileDrained, AssemblyWork
<1> QED
  BY <1>1, <1>2, <1>3, <1>4, <1>5 DEF CallerHolds, CallerWaits

LEMMA CallerMoves ==
  ASSUME SessionInv, Settles, NEW c \in Caller, CallerNext(c)
  PROVE  CallerHolds(c)' /\ \A d \in Caller \ {c} : caller'[d] = caller[d]
<1>1. caller \in [Caller -> [pc : CallerPC, s : Session, b : Nat]] /\ teardown \in [Session -> Teardown]
  BY DEF SessionInv, TableInv, TypeOK
<1>2. CallerHolds(c)
  BY DEF SessionInv, CallersWait, ClosedMeansDisposed, CallerHolds
<1>3. CASE Return(c)
  BY <1>1, <1>3 DEF Return, IdleCaller, CallerHolds, CallerWaits, Waits
<1>4. ASSUME NEW s \in Session, CancelBegin(c, s)
      PROVE  CallerHolds(c)' /\ \A d \in Caller \ {c} : caller'[d] = caller[d]
  BY <1>1, <1>4 DEF CancelBegin, CallerHolds, CallerWaits
<1>5. ASSUME NEW s \in Session, CloseBegin(c, s)
      PROVE  CallerHolds(c)' /\ \A d \in Caller \ {c} : caller'[d] = caller[d]
  <2>1. caller' = caller
        \/ caller' = [caller EXCEPT ![c] = [pc |-> "closing", s |-> s, b |-> barrier[s]]]
    BY <1>5 DEF CloseBegin
  <2>2. CASE caller' = caller
    BY <2>2, CallerKept
  <2>3. CASE caller' = [caller EXCEPT ![c] = [pc |-> "closing", s |-> s, b |-> barrier[s]]]
    BY <1>1, <2>3 DEF CallerHolds, CallerWaits, Waits
  <2> QED
    BY <2>1, <2>2, <2>3
<1>6. ASSUME NEW s \in Session, CloseAgain(c, s)
      PROVE  CallerHolds(c)' /\ \A d \in Caller \ {c} : caller'[d] = caller[d]
  <2>1. stage[s] = "disposed"
    BY <1>6 DEF CloseAgain, Closed, SessionInv, ClosedMeansDisposed
  <2> QED
    BY <1>1, <1>6, <2>1 DEF CloseAgain, CallerHolds, CallerWaits, Waits
<1>7. ASSUME NEW pc \in CallerPC, Goto(c, pc),
             pc = "closed" => stage[caller[c].s] = "disposed",
             pc \in Waits => caller[c].pc \in Waits,
             pc = "linkWait" => FileDrained(caller[c].s)
      PROVE  CallerHolds(c)' /\ \A d \in Caller \ {c} : caller'[d] = caller[d]
  <2>1. PICK s \in Session : s = caller[c].s
    BY <1>1
  <2>2. /\ caller'[c].s = s /\ caller'[c].pc = pc
        /\ \A d \in Caller \ {c} : caller'[d] = caller[d]
    BY <1>1, <1>7, <2>1 DEF Goto
  <2>3. /\ stage[s] \notin {"unused", "opening"} => stage'[s] \notin {"unused", "opening"}
        /\ stage[s] = "disposed" => stage'[s] = "disposed"
        /\ teardown[s] # "Active" => teardown'[s] # "Active"
        /\ teardown[s] # "Active" /\ FileDrained(s) => FileDrained(s)'
    BY SessionKept
  <2>4. FileDrained(caller[c].s)' <=> FileDrained(s)'
    BY <2>2 DEF FileDrained, AssemblyWork
  <2>5. pc = "linkWait" => FileDrained(s)
    BY <1>7, <2>1
  <2>6. pc \in Waits => stage[s] \notin {"unused", "opening"} /\ teardown[s] # "Active"
    BY <1>2, <1>7, <2>1 DEF CallerHolds, CallerWaits
  <2>7. CallerWaits(c)'
    BY <2>2, <2>3, <2>4, <2>5, <2>6 DEF CallerWaits
  <2> QED
    BY <1>7, <2>1, <2>2, <2>3, <2>7 DEF CallerHolds
<1>8. CASE CancelAssembly(c)
  <2>1. Goto(c, "draining") /\ caller[c].pc \in Waits
    BY <1>8 DEF CancelAssembly, Waits
  <2>2. "draining" \in CallerPC
    BY DEF CallerPC
  <2> QED
    BY <1>7, <2>1, <2>2
<1>9. CASE CancelDrained(c)
  <2>1. Return(c) \/ Goto(c, "linkWait")
    BY <1>9 DEF CancelDrained
  <2>2. caller[c].pc \in Waits /\ FileDrained(caller[c].s) /\ "linkWait" \in CallerPC
    BY <1>9 DEF CancelDrained, Waits, CallerPC
  <2> QED
    BY <1>3, <1>7, <2>1, <2>2
<1>10. CASE CancelTimeout(c)
  <2>1. Return(c) \/ Goto(c, "timedOut")
    BY <1>10 DEF CancelTimeout
  <2>2. caller[c].pc \in Waits /\ "timedOut" \in CallerPC
    BY <1>10 DEF CancelTimeout, Waits, CallerPC
  <2> QED
    BY <1>3, <1>7, <2>1, <2>2
<1>11. CASE CloseSettled(c)
  <2>1. Return(c) \/ (Goto(c, "closed") /\ Closed(caller[c].s))
    BY <1>11 DEF CloseSettled
  <2>2. Closed(caller[c].s) => stage[caller[c].s] = "disposed"
    BY DEF Closed, SessionInv, ClosedMeansDisposed
  <2>3. "closed" \in CallerPC /\ "closed" \notin Waits
    BY DEF CallerPC, Waits
  <2> QED
    BY <1>3, <1>7, <2>1, <2>2, <2>3
<1>12. CASE CancelReturnEarly(c) \/ CancelLinksSettled(c) \/ DeferCommandCancellation(c)
            \/ CloseTimeout(c) \/ CloseReturn(c)
  <2>1. Return(c)
    BY <1>12 DEF CancelReturnEarly, CancelLinksSettled, DeferCommandCancellation, CloseTimeout,
                 CloseReturn
  <2> QED
    BY <1>3, <2>1
<1> QED
  BY <1>4, <1>5, <1>6, <1>8, <1>9, <1>10, <1>11, <1>12 DEF CallerNext

LEMMA CallersStayRight ==
  ASSUME SessionInv, [Next]_vars, Settles, NEW c \in Caller
  PROVE  CallerHolds(c)'
<1>1. CASE \E d \in Caller : CallerNext(d)
  <2>1. PICK d \in Caller : CallerNext(d)
    BY <1>1
  <2>2. CallerHolds(d)' /\ \A e \in Caller \ {d} : caller'[e] = caller[e]
    BY <2>1, CallerMoves
  <2>3. CASE c = d
    BY <2>2, <2>3
  <2>4. CASE c # d
    BY <2>2, <2>4, CallerKept
  <2> QED
    BY <2>3, <2>4
<1>2. ASSUME NEW s \in Session, SessionNext(s) PROVE caller' = caller
  BY <1>2 DEF SessionNext, AdmitOpen, DropOpen, PublishOpen, EnqueueFile, SelectFile, FinishSelected,
     FinishRevoked, AcquirePrint, DropPrint, AdmitLink, SettleLink, RequestAssembly, CancelRequest,
     ReleaseAssembly, FinishAssemblies, ReapDeferredCancellation, LifecycleCancelAssembly,
     WorkerTake, WorkerFinish
<1>3. ASSUME LifecycleNext PROVE caller' = caller
  BY <1>3 DEF LifecycleNext, InvalidatePrintOwner, InvalidatePrint, DeferOwned, DestroyBegin,
     DestroyDiscard, DestroyDefer, DeferMatching, DeferAll, QuitScheduleIdle, QuitDrained,
     QuitTimeout
<1>4. caller' = caller => CallerHolds(c)'
  BY CallerKept
<1> QED
  BY <1>1, <1>2, <1>3, <1>4 DEF Next, vars

-----------------------------------------------------------------------------
(* The close, the fences and the quit.                                     *)

LEMMA Frame ==
  ASSUME [Next]_vars
  PROVE  /\ \/ UNCHANGED <<closing, tombstones>>
            \/ \E c \in Caller, s \in Session : CloseBegin(c, s)
            \/ \E s \in Session : WorkerFinish(s)
         /\ UNCHANGED <<quit, fenceAll>> \/ DeferAll \/ QuitDrained \/ QuitTimeout
         /\ \/ UNCHANGED <<window, fences>>
            \/ \E o \in Owner : \/ DeferOwned(o) \/ DestroyBegin(o) \/ DestroyDiscard(o)
                                \/ DestroyDefer(o)
<1>1. ASSUME NEW s \in Session, SessionNext(s)
      PROVE  UNCHANGED <<quit, fenceAll, window, fences>>
             /\ (UNCHANGED <<closing, tombstones>> \/ WorkerFinish(s))
  BY <1>1 DEF SessionNext, AdmitOpen, DropOpen, PublishOpen, EnqueueFile, SelectFile, FinishSelected,
     FinishRevoked, AcquirePrint, DropPrint, AdmitLink, SettleLink, RequestAssembly, CancelRequest,
     ReleaseAssembly, FinishAssemblies, ReapDeferredCancellation, LifecycleCancelAssembly,
     WorkerTake, WorkerFinish
<1>2. ASSUME NEW c \in Caller, CallerNext(c)
      PROVE  /\ UNCHANGED <<quit, fenceAll, window, fences>>
             /\ UNCHANGED <<closing, tombstones>> \/ \E s \in Session : CloseBegin(c, s)
  <2>1. CASE \E s \in Session : CloseBegin(c, s)
    BY <2>1 DEF CloseBegin
  <2>2. CASE \E s \in Session : CancelBegin(c, s) \/ CloseAgain(c, s)
    BY <2>2 DEF CancelBegin, CloseAgain
  <2>3. CASE \/ CancelAssembly(c) \/ CancelReturnEarly(c) \/ CancelDrained(c) \/ CancelLinksSettled(c)
             \/ CancelTimeout(c) \/ DeferCommandCancellation(c)
             \/ CloseSettled(c) \/ CloseTimeout(c) \/ CloseReturn(c)
    BY <2>3 DEF CancelAssembly, CancelReturnEarly, CancelDrained, CancelLinksSettled, CancelTimeout,
       DeferCommandCancellation, CloseSettled, CloseTimeout, CloseReturn
  <2> QED
    BY <1>2, <2>1, <2>2, <2>3 DEF CallerNext
<1>3. ASSUME NEW o \in Owner,
             \/ InvalidatePrintOwner(o) \/ DeferOwned(o)
             \/ DestroyBegin(o) \/ DestroyDiscard(o) \/ DestroyDefer(o)
      PROVE  /\ UNCHANGED <<closing, tombstones, quit, fenceAll>>
             /\ \/ UNCHANGED <<window, fences>>
                \/ DeferOwned(o) \/ DestroyBegin(o) \/ DestroyDiscard(o) \/ DestroyDefer(o)
  BY <1>3 DEF InvalidatePrintOwner, InvalidatePrint, DeferOwned, DestroyBegin, DestroyDiscard,
     DestroyDefer, DeferMatching
<1>4. ASSUME DeferAll \/ QuitScheduleIdle \/ QuitDrained \/ QuitTimeout
      PROVE  /\ UNCHANGED <<closing, tombstones, window, fences>>
             /\ UNCHANGED <<quit, fenceAll>> \/ DeferAll \/ QuitDrained \/ QuitTimeout
  BY <1>4 DEF DeferAll, DeferMatching, QuitScheduleIdle, QuitDrained, QuitTimeout
<1>5. CASE UNCHANGED vars
  BY <1>5 DEF vars
<1>6. CASE \E s \in Session : SessionNext(s)
  BY <1>1, <1>6
<1>7. CASE \E c \in Caller : CallerNext(c)
  BY <1>2, <1>7
<1>8. CASE \E o \in Owner : \/ InvalidatePrintOwner(o) \/ DeferOwned(o)
                            \/ DestroyBegin(o) \/ DestroyDiscard(o) \/ DestroyDefer(o)
  BY <1>3, <1>8
<1>9. CASE DeferAll \/ QuitScheduleIdle \/ QuitDrained \/ QuitTimeout
  BY <1>4, <1>9
<1> QED
  BY <1>5, <1>6, <1>7, <1>8, <1>9 DEF Next, LifecycleNext

\* The tombstones left are old ones or the new one.
LEMMA LastElements ==
  ASSUME NEW ts \in Seq(Session), NEW i \in DOMAIN LastTombstones(ts)
  PROVE  \E j \in DOMAIN ts : LastTombstones(ts)[i] = ts[j]
<1>1. CASE Len(ts) <= MaxTombstones
  BY <1>1 DEF LastTombstones
<1>2. CASE ~(Len(ts) <= MaxTombstones)
  <2>1. PICK m \in Int : m = Len(ts) - MaxTombstones + 1
    BY LenProperties, BoundsAssumption
  <2>2. 1 <= m /\ m <= Len(ts) + 1 /\ Len(ts) \in Nat /\ DOMAIN ts = 1..Len(ts)
    BY <1>2, <2>1, LenProperties, BoundsAssumption
  <2>3. LastTombstones(ts) = SubSeq(ts, m, Len(ts))
    BY <1>2, <2>1 DEF LastTombstones
  <2>4. \A k \in m..Len(ts) : ts[k] \in Session
    BY <2>2, ElementOfSeq
  <2>5. /\ SubSeq(ts, m, Len(ts)) \in Seq(Session)
        /\ Len(SubSeq(ts, m, Len(ts))) = IF m <= Len(ts) THEN Len(ts) - m + 1 ELSE 0
        /\ \A k \in 1..(Len(ts) - m + 1) : SubSeq(ts, m, Len(ts))[k] = ts[m + k - 1]
    BY <2>2, <2>4, SubSeqProperties
  <2>6. i \in 1..(Len(ts) - m + 1)
    BY <2>2, <2>3, <2>5, LenProperties
  <2>7. m + i - 1 \in DOMAIN ts
    BY <2>2, <2>6
  <2> QED
    BY <2>3, <2>5, <2>6, <2>7
<1> QED
  BY <1>1, <1>2

LEMMA TombstoneElements ==
  ASSUME NEW ts \in Seq(Session), NEW s \in Session,
         NEW i \in DOMAIN LastTombstones(Append(ts, s))
  PROVE  LET x == LastTombstones(Append(ts, s))[i] IN x = s \/ \E j \in DOMAIN ts : x = ts[j]
<1>1. /\ Append(ts, s) \in Seq(Session) /\ DOMAIN Append(ts, s) = 1..(Len(ts) + 1)
      /\ Len(ts) \in Nat /\ DOMAIN ts = 1..Len(ts)
      /\ \A j \in 1..(Len(ts) + 1) : Append(ts, s)[j] = s \/ \E k \in DOMAIN ts : Append(ts, s)[j] = ts[k]
  BY AppendProperties, LenProperties
<1>2. PICK j \in DOMAIN Append(ts, s) : LastTombstones(Append(ts, s))[i] = Append(ts, s)[j]
  BY <1>1, LastElements
<1> QED
  BY <1>1, <1>2

LEMMA CloseStaysRight ==
  ASSUME SessionInv, [Next]_vars, Settles
  PROVE  /\ ClosingIsQueued'
         /\ \A i \in DOMAIN tombstones' : stage'[tombstones'[i]] = "disposed"
<1>1. /\ \A r \in Session : Orderly(r)
      /\ closing \subseteq Session /\ tombstones \in Seq(Session) /\ stage \in [Session -> Stage]
  BY DEF Settles, SessionInv, TableInv, TypeOK
<1>2. \A i \in DOMAIN tombstones : tombstones[i] \in Session /\ stage'[tombstones[i]] = "disposed"
  BY <1>1, SessionKept, ElementOfSeq, LenProperties DEF SessionInv, ClosedMeansDisposed
<1>3. ASSUME NEW r \in closing', r \in closing \/ stage'[r] = "cleanup"
      PROVE  stage'[r] \in {"cleanup", "disposing"}
  BY <1>1, <1>3 DEF Orderly, Moves, SessionInv, ClosingIsQueued
<1>4. CASE UNCHANGED <<closing, tombstones>>
  BY <1>2, <1>3, <1>4 DEF ClosingIsQueued
<1>5. ASSUME NEW c \in Caller, NEW s \in Session, CloseBegin(c, s)
      PROVE  /\ ClosingIsQueued'
             /\ \A i \in DOMAIN tombstones' : stage'[tombstones'[i]] = "disposed"
  <2>1. PICK A \in SUBSET {s} : Enqueue(A) /\ closing' = closing \cup A
    BY <1>5 DEF CloseBegin, Accepted
  <2>2. tombstones' = tombstones
    BY <1>5 DEF CloseBegin
  <2>3. \A r \in closing' : r \in closing \/ stage'[r] = "cleanup"
    BY <2>1 DEF Enqueue
  <2> QED
    BY <1>2, <1>3, <2>2, <2>3 DEF ClosingIsQueued
<1>6. ASSUME NEW s \in Session, WorkerFinish(s)
      PROVE  /\ ClosingIsQueued'
             /\ \A i \in DOMAIN tombstones' : stage'[tombstones'[i]] = "disposed"
  <2>1. /\ closing' = closing \ {s} /\ stage'[s] = "disposed"
        /\ tombstones' = tombstones \/ tombstones' = LastTombstones(Append(tombstones, s))
    BY <1>1, <1>6 DEF WorkerFinish
  <2>2. CASE tombstones' = tombstones
    BY <1>2, <1>3, <2>1, <2>2 DEF ClosingIsQueued
  <2>3. CASE tombstones' = LastTombstones(Append(tombstones, s))
    <3>1. ASSUME NEW i \in DOMAIN LastTombstones(Append(tombstones, s))
          PROVE  stage'[LastTombstones(Append(tombstones, s))[i]] = "disposed"
      BY <1>1, <1>2, <2>1, TombstoneElements
    <3> QED
      BY <1>3, <2>1, <2>3, <3>1 DEF ClosingIsQueued
  <2> QED
    BY <2>1, <2>2, <2>3
<1> QED
  BY <1>4, <1>5, <1>6, Frame

LEMMA QuitStaysRight ==
  ASSUME SessionInv, [Next]_vars, Settles
  PROVE  QuitIsFenced'
<1>1. /\ \A r \in Session : Orderly(r)
      /\ stage \in [Session -> Stage]
  BY DEF Settles, SessionInv, TableInv, TypeOK
<1>2. QuitIsFenced
  BY DEF SessionInv
<1>3. ASSUME fenceAll, NEW r \in Session
      PROVE  /\ stage'[r] = "opening" => stage[r] = "opening" /\ invalidated'[r]
             /\ stage'[r] = "live" => stage[r] = "live" /\ teardown'[r] = "LifecycleDeferred"
  <2>1. \A o : Fenced(o)
    BY <1>3 DEF Fenced
  <2>2. stage'[r] = "opening" => stage[r] = "opening"
    BY <1>1, <2>1 DEF Orderly
  <2>3. stage'[r] = "live" => stage[r] = "live"
    BY <1>1, <1>2, <1>3 DEF Orderly, Moves, QuitIsFenced
  <2> QED
    BY <1>1, <1>2, <1>3, <2>2, <2>3 DEF Orderly, QuitIsFenced
<1>4. fenceAll /\ Occupied = {} => Occupied' = {}
  <2> SUFFICES ASSUME fenceAll, Occupied = {}, NEW r \in Session
               PROVE  stage'[r] \notin {"opening", "live", "cleanup", "disposing"}
    BY DEF Occupied
  <2>1. stage[r] \in {"unused", "disposed"}
    BY <1>1 DEF Occupied, Stage
  <2> QED
    BY <1>1, <1>3, <2>1 DEF Orderly, Moves
<1>5. CASE UNCHANGED <<quit, fenceAll>>
  BY <1>2, <1>3, <1>4, <1>5 DEF QuitIsFenced
<1>6. CASE QuitDrained
  <2>1. /\ quit = "draining" /\ ~QuitWork /\ quit' = "drained"
        /\ UNCHANGED <<stage, fenceAll>>
    BY <1>6 DEF QuitDrained
  <2>2. fenceAll
    BY <1>2, <2>1 DEF QuitIsFenced
  <2>3. Occupied = {}
    BY <1>2, <2>1, <2>2 DEF QuitWork, Occupied, Opening, Cleanup, Live, QuitIsFenced
  <2> QED
    BY <1>3, <1>4, <2>1, <2>2, <2>3 DEF QuitIsFenced
<1>7. CASE QuitTimeout
  <2>1. quit = "draining" /\ quit' = "timedOut" /\ fenceAll' = fenceAll
    BY <1>7 DEF QuitTimeout
  <2>2. fenceAll
    BY <1>2, <2>1 DEF QuitIsFenced
  <2> QED
    BY <1>3, <2>1, <2>2 DEF QuitIsFenced
<1>8. CASE DeferAll
  <2>1. /\ quit' \in {"draining", "exiting"} /\ fenceAll' = TRUE /\ Reap(Live)
        /\ invalidated' = [s \in Session |-> invalidated[s] \/ s \in Opening]
        /\ teardown' = [s \in Session |-> IF s \in Live THEN "LifecycleDeferred" ELSE teardown[s]]
    BY <1>8 DEF DeferAll, DeferMatching
  <2>2. PICK A : Enqueue(A)
    BY <2>1, ReapHandsOver
  <2>3. ASSUME NEW r \in Session
        PROVE  /\ stage'[r] = "opening" => invalidated'[r]
               /\ stage'[r] = "live" => teardown'[r] = "LifecycleDeferred"
    BY <2>1, <2>2 DEF Enqueue, Live, Opening
  <2> QED
    BY <2>1, <2>3 DEF QuitIsFenced
<1> QED
  BY <1>5, <1>6, <1>7, <1>8, Frame

-----------------------------------------------------------------------------
LEMMA InitSession == Init => SessionInv
<1> SUFFICES ASSUME Init PROVE SessionInv
  OBVIOUS
<1>1. TableInv
  BY InitTable
<1>2. NewIsUntouched /\ ClosingIsQueued /\ QuitIsFenced
  BY DEF Init, NewIsUntouched, ClosingIsQueued, QuitIsFenced
<1>3. CallersWait /\ ClosedMeansDisposed
  BY DEF Init, IdleCaller, CallersWait, CallerWaits, Waits, ClosedMeansDisposed
<1>4. Live = {}
  BY DEF Init, Live
<1> QED
  BY <1>1, <1>2, <1>3, <1>4 DEF SessionInv, BarrierMeansDrained, LiveLeaseIsWanted,
                                NoForgottenSession

LEMMA SessionStep == SessionInv /\ [Next]_vars => SessionInv'
<1> SUFFICES ASSUME SessionInv, [Next]_vars PROVE SessionInv'
  OBVIOUS
<1>1. TableInv'
  BY TableStep DEF SessionInv
<1>2. Settles
  BY StepSettles
<1>3. NewIsUntouched' /\ BarrierMeansDrained' /\ LiveLeaseIsWanted'
  <2>1. TypeOK'
    BY <1>1 DEF TableInv
  <2> QED
    BY <1>2, <2>1, SessionsStayRight
<1>4. \A c \in Caller : CallerHolds(c)'
  BY <1>2, CallersStayRight
<1>5. /\ ClosingIsQueued'
      /\ \A i \in DOMAIN tombstones' : stage'[tombstones'[i]] = "disposed"
  BY <1>2, CloseStaysRight
<1>6. CallersWait' /\ ClosedMeansDisposed'
  BY <1>4, <1>5 DEF CallerHolds, CallersWait, ClosedMeansDisposed
<1>7. QuitIsFenced'
  BY <1>2, QuitStaysRight
<1> QED
  BY <1>1, <1>2, <1>3, <1>5, <1>6, <1>7 DEF SessionInv, Settles

LEMMA SessionAlways == Spec => []SessionInv
BY InitSession, SessionStep, PTL DEF Spec

\* A deferred session without work is always reaped, whichever of its finishers
\* comes last: it is left in the table only between the two sections of its
\* window's Destroyed handler, and the second one takes it.
THEOREM NothingForgotten == Spec => []NoForgottenSession
<1>1. SessionInv => NoForgottenSession
  BY DEF SessionInv
<1> QED
  BY <1>1, SessionAlways, PTL

\* What is reported as drained, closed or ended by a quit is so.
THEOREM ReportsHold == Spec => []ReportsAreTrue
<1>1. SessionInv => ReportsAreTrue
  <2> SUFFICES ASSUME SessionInv PROVE QuitDrainedIsEmpty
    BY DEF SessionInv, ReportsAreTrue
  <2> SUFFICES ASSUME quit = "drained"
               PROVE  /\ Occupied = {} /\ closing = {}
                      /\ processQueued = 0 /\ processInFlight = 0 /\ processLinks = 0
                      /\ openingInFlight = 0 /\ cleanupPending = 0
    BY DEF QuitDrainedIsEmpty
  <2>1. Occupied = {}
    BY DEF SessionInv, QuitIsFenced
  <2>2. Live = {} /\ Opening = {} /\ Cleanup = {}
    BY <2>1 DEF Occupied, Live, Opening, Cleanup
  <2>3. closing = {}
    BY <2>2 DEF SessionInv, TableInv, TypeOK, ClosingIsQueued, Cleanup
  <2>4. \A f, b : Units(f, Live, b) = {}
    BY <2>2 DEF Units
  <2>5. Cardinality({}) = 0
    BY FS_EmptySet
  <2> QED
    BY <2>1, <2>2, <2>3, <2>4, <2>5 DEF SessionInv, TableInv, HandleQuota, CountersAgree
<1> QED
  BY <1>1, SessionAlways, PTL

\* A print lease that is not cancelled belongs to an active session whose renderer
\* was not replaced: no page goes to the printer after a close began.
THEOREM LeasesAreWanted == Spec => []LiveLeaseIsWanted
<1>1. SessionInv => LiveLeaseIsWanted
  BY DEF SessionInv
<1> QED
  BY <1>1, SessionAlways, PTL

-----------------------------------------------------------------------------
(***************************************************************************)
(* The fences of destroyed windows.  The list is bounded and drops its     *)
(* oldest fence when it is full: where commands of a destroyed window may  *)
(* still run, the labels must be as few as the list can hold.              *)
(***************************************************************************)
FenceAt(fs, o) == \E i \in DOMAIN fs : fs[i].label = o.label /\ o.gen <= fs[i].gen

Distinct(fs) == \A i, j \in DOMAIN fs : fs[i].label = fs[j].label => i = j

LEMMA FewFences ==
  ASSUME NEW fs \in Seq(Owner), Distinct(fs), IsFiniteSet(Label), NEW l \in Label,
         \A i \in DOMAIN fs : fs[i].label # l
  PROVE  Len(fs) + 1 <= Cardinality(Label)
<1> DEFINE T == Label \ {l}
           f == [i \in 1..Len(fs) |-> fs[i].label]
<1>1. Len(fs) \in Nat /\ DOMAIN fs = 1..Len(fs) /\ \A i \in 1..Len(fs) : fs[i] \in Owner
  BY LenProperties, ElementOfSeq
<1>2. IsFiniteSet(T) /\ Cardinality(T) = Cardinality(Label) - 1 /\ Cardinality(Label) \in Nat
      /\ Cardinality(T) \in Nat
  BY FS_RemoveElement, FS_CardinalityType
<1>3. IsFiniteSet(1..Len(fs)) /\ Cardinality(1..Len(fs)) = Len(fs)
  BY <1>1, FS_Interval
<1>4. f \in [1..Len(fs) -> T]
  BY <1>1 DEF Owner
<1>5. \A i, j \in 1..Len(fs) : f[i] = f[j] => i = j
  BY <1>1 DEF Distinct
<1> HIDE DEF f, T
<1>6. ~(Cardinality(T) < Cardinality(1..Len(fs)))
  BY <1>2, <1>3, <1>4, <1>5, FS_PigeonHole
<1> QED
  BY <1>1, <1>2, <1>3, <1>6

LEMMA RaisedFencesStand ==
  ASSUME FencesSuffice, LateCommands, fences \in Seq(Owner), Distinct(fences), NEW o \in Owner
  PROVE  /\ Distinct(RaisedFences(o)) /\ FenceAt(RaisedFences(o), o)
         /\ \A p \in Owner : FenceAt(fences, p) => FenceAt(RaisedFences(o), p)
<1>1. /\ Len(fences) \in Nat /\ DOMAIN fences = 1..Len(fences)
      /\ \A i \in 1..Len(fences) : fences[i] \in Owner /\ fences[i].gen \in Int
  <2>1. Len(fences) \in Nat /\ DOMAIN fences = 1..Len(fences)
        /\ \A i \in 1..Len(fences) : fences[i] \in Owner
    BY LenProperties, ElementOfSeq
  <2>2. \A p \in Owner : p.gen \in Int
    BY DEF Owner
  <2> QED
    BY <2>1, <2>2
<1>2. o.gen \in Int /\ o.label \in Label /\ \A p \in Owner : p.gen \in Int
  BY DEF Owner
<1>3. CASE \E i \in DOMAIN fences : fences[i].label = o.label
  <2>1. RaisedFences(o)
          = [i \in DOMAIN fences |->
               IF fences[i].label = o.label /\ fences[i].gen < o.gen THEN o ELSE fences[i]]
    BY <1>3 DEF RaisedFences
  <2>2. /\ DOMAIN RaisedFences(o) = DOMAIN fences
        /\ \A i \in DOMAIN fences :
             /\ RaisedFences(o)[i].label = fences[i].label
             /\ fences[i].gen <= RaisedFences(o)[i].gen
             /\ fences[i].label = o.label => o.gen <= RaisedFences(o)[i].gen
    BY <1>1, <1>2, <2>1
  <2>3. \A i \in DOMAIN fences : RaisedFences(o)[i].gen \in Int
    BY <1>1, <1>2, <2>1
  <2>4. Distinct(RaisedFences(o))
    BY <2>2 DEF Distinct
  <2>5. FenceAt(RaisedFences(o), o)
    BY <1>3, <2>2 DEF FenceAt
  <2>6. \A p \in Owner : FenceAt(fences, p) => FenceAt(RaisedFences(o), p)
    BY <1>1, <1>2, <2>2, <2>3 DEF FenceAt
  <2> QED
    BY <2>4, <2>5, <2>6
<1>4. CASE ~\E i \in DOMAIN fences : fences[i].label = o.label
  <2>1. Len(fences) + 1 <= Cardinality(Label)
    BY <1>2, <1>4, FewFences DEF FencesSuffice
  <2>2. /\ Append(fences, o) \in Seq(Owner) /\ Len(Append(fences, o)) = Len(fences) + 1
        /\ DOMAIN Append(fences, o) = 1..(Len(fences) + 1)
        /\ \A i \in 1..Len(fences) : Append(fences, o)[i] = fences[i]
        /\ Append(fences, o)[Len(fences) + 1] = o
    BY <1>1, AppendProperties, LenProperties
  <2>3. Len(Append(fences, o)) <= MaxOwnerFences
    <3>1. Cardinality(Label) \in Nat /\ Cardinality(Label) <= MaxOwnerFences
      BY FS_CardinalityType DEF FencesSuffice
    <3> QED
      BY <1>1, <2>1, <2>2, <3>1, BoundsAssumption
  <2>4. RaisedFences(o) = Append(fences, o)
    BY <1>4, <2>3 DEF RaisedFences
  <2>5. Distinct(Append(fences, o))
    BY <1>1, <1>4, <2>2 DEF Distinct
  <2>6. FenceAt(Append(fences, o), o)
    BY <1>1, <1>2, <2>2 DEF FenceAt
  <2>7. \A p \in Owner : FenceAt(fences, p) => FenceAt(Append(fences, o), p)
    BY <1>1, <2>2 DEF FenceAt
  <2> QED
    BY <2>4, <2>5, <2>6, <2>7
<1> QED
  BY <1>3, <1>4

LEMMA FencesStay ==
  ASSUME FencesSuffice, OwnersInv, [Next]_vars, LateCommands
  PROVE  FencesStand'
<1>1. /\ fences \in Seq(Owner) /\ window \in [Owner -> Window]
      /\ Distinct(fences)
      /\ \A p \in Owner : window[p] = "destroyed" => FenceAt(fences, p)
  BY DEF OwnersInv, SessionInv, TableInv, TypeOK, FencesStand, Distinct, FenceAt
<1>2. CASE UNCHANGED <<window, fences>>
  BY <1>1, <1>2 DEF FencesStand, Distinct, FenceAt
<1>3. ASSUME NEW o \in Owner, DestroyBegin(o) \/ DestroyDiscard(o)
      PROVE  FencesStand'
  <2>1. fences' = fences /\ \A p \in Owner : window'[p] = "destroyed" => window[p] = "destroyed"
    BY <1>1, <1>3 DEF DestroyBegin, DestroyDiscard, InvalidatePrint
  <2> QED
    BY <1>1, <2>1 DEF FencesStand, Distinct, FenceAt
<1>4. ASSUME NEW o \in Owner, DeferOwned(o) \/ DestroyDefer(o)
      PROVE  FencesStand'
  <2>1. /\ fences' = RaisedFences(o)
        /\ \A p \in Owner : window'[p] = "destroyed" => window[p] = "destroyed" \/ p = o
    BY <1>1, <1>4 DEF DeferOwned, DestroyDefer
  <2>2. /\ Distinct(RaisedFences(o)) /\ FenceAt(RaisedFences(o), o)
        /\ \A p \in Owner : FenceAt(fences, p) => FenceAt(RaisedFences(o), p)
    BY <1>1, RaisedFencesStand
  <2>3. Distinct(fences') /\ \A p \in Owner : window'[p] = "destroyed" => FenceAt(fences', p)
    BY <1>1, <2>1, <2>2
  <2> QED
    BY <2>3 DEF FencesStand, Distinct, FenceAt
<1> QED
  BY <1>2, <1>3, <1>4, Frame

LEMMA DestroyedStay ==
  ASSUME OwnersInv, [Next]_vars, Settles, owner' \in [Session -> Owner]
  PROVE  DestroyedOwnerIsFenced'
<1>1. /\ stage \in [Session -> Stage] /\ owner \in [Session -> Owner]
      /\ window \in [Owner -> Window] /\ \A r \in Session : Orderly(r)
      /\ DestroyedOwnerIsFenced
  BY DEF OwnersInv, SessionInv, TableInv, TypeOK, Settles
<1>2. ASSUME NEW o \in Owner, DestroyDefer(o), NEW s \in Session, owner[s] = o
      PROVE  /\ stage'[s] = "opening" => invalidated'[s]
             /\ stage'[s] = "live" => teardown'[s] = "LifecycleDeferred"
  <2>1. /\ Reap(Owned(Live, o))
        /\ invalidated' = [r \in Session |-> invalidated[r] \/ r \in Owned(Opening, o)]
        /\ teardown' = [r \in Session |-> IF r \in Owned(Live, o) THEN "LifecycleDeferred"
                                         ELSE teardown[r]]
    BY <1>2 DEF DestroyDefer, DeferMatching
  <2>2. PICK A : Enqueue(A)
    BY <2>1, ReapHandsOver
  <2> QED
    BY <1>2, <2>1, <2>2 DEF Enqueue, Owned, Live, Opening
<1>3. ASSUME NEW s \in Session, window[owner[s]] = "destroyed", owner'[s] = owner[s],
             stage[s] \in {"opening", "live"}
      PROVE  /\ stage'[s] = "opening" => invalidated'[s]
             /\ stage'[s] = "live" => teardown'[s] = "LifecycleDeferred"
  <2>1. /\ stage[s] = "opening" => invalidated[s]
        /\ stage[s] = "live" => teardown[s] = "LifecycleDeferred"
    BY <1>1, <1>3 DEF DestroyedOwnerIsFenced
  <2> QED
    BY <1>1, <1>3, <2>1 DEF Orderly, Moves
<1>4. \/ \A p \in Owner : window'[p] = "destroyed" => window[p] = "destroyed"
      \/ \E o \in Owner : /\ DestroyDefer(o)
                          /\ \A p \in Owner : window'[p] = "destroyed" => window[p] = "destroyed" \/ p = o
  <2>1. ASSUME NEW o \in Owner, DeferOwned(o) \/ DestroyBegin(o) \/ DestroyDiscard(o)
        PROVE  \A p \in Owner : window'[p] = "destroyed" => window[p] = "destroyed"
    BY <1>1, <2>1 DEF DeferOwned, DestroyBegin, DestroyDiscard
  <2>2. ASSUME NEW o \in Owner, DestroyDefer(o)
        PROVE  \A p \in Owner : window'[p] = "destroyed" => window[p] = "destroyed" \/ p = o
    BY <1>1, <2>2 DEF DestroyDefer
  <2> QED
    BY <2>1, <2>2, Frame
<1>5. ASSUME NEW s \in Session, window'[owner'[s]] = "destroyed",
             stage'[s] \in {"opening", "live"}
      PROVE  /\ stage'[s] = "opening" => invalidated'[s]
             /\ stage'[s] = "live" => teardown'[s] = "LifecycleDeferred"
  <2>1. stage[s] # "opening" /\ stage'[s] = "opening" => FALSE
    <3> SUFFICES ASSUME stage[s] # "opening", stage'[s] = "opening" PROVE FALSE
      OBVIOUS
    <3>1. ~Fenced(owner'[s]) /\ window[owner'[s]] = "destroyed" /\ owner'[s] \in Owner /\ LateCommands
      BY <1>1, <1>5 DEF Orderly
    <3>2. Fenced(owner'[s])
      BY <3>1 DEF OwnersInv, FencesStand, Fenced
    <3> QED
      BY <3>1, <3>2
  <2>2. stage[s] \in {"opening", "live"} /\ owner'[s] = owner[s] /\ owner[s] \in Owner
    BY <1>1, <1>5, <2>1 DEF Orderly, Moves
  <2>3. CASE window[owner[s]] = "destroyed"
    BY <1>3, <2>2, <2>3
  <2>4. CASE window[owner[s]] # "destroyed"
    <3>1. PICK o \in Owner : /\ DestroyDefer(o)
                             /\ \A p \in Owner : window'[p] = "destroyed" => window[p] = "destroyed" \/ p = o
      BY <1>4, <1>5, <2>2, <2>4
    <3>2. owner[s] = o
      BY <1>5, <2>2, <2>4, <3>1
    <3> QED
      BY <1>2, <3>1, <3>2
  <2> QED
    BY <2>3, <2>4
<1> QED
  BY <1>5 DEF DestroyedOwnerIsFenced

LEMMA OwnersStep == FencesSuffice /\ OwnersInv /\ [Next]_vars => OwnersInv'
<1> SUFFICES ASSUME FencesSuffice, OwnersInv, [Next]_vars PROVE OwnersInv'
  OBVIOUS
<1>1. SessionInv' /\ Settles
  BY SessionStep, StepSettles DEF OwnersInv
<1>2. owner' \in [Session -> Owner]
  BY <1>1 DEF SessionInv, TableInv, TypeOK
<1>3. DestroyedOwnerIsFenced'
  BY <1>1, <1>2, DestroyedStay
<1>4. LateCommands => FencesStand'
  BY FencesStay
<1> QED
  BY <1>1, <1>3, <1>4 DEF OwnersInv

LEMMA InitOwners == Init => OwnersInv
<1> SUFFICES ASSUME Init PROVE OwnersInv
  OBVIOUS
<1>1. SessionInv
  BY InitSession
<1>2. FencesStand /\ DestroyedOwnerIsFenced
  BY DEF Init, FencesStand, DestroyedOwnerIsFenced
<1> QED
  BY <1>1, <1>2 DEF OwnersInv

\* Work goes on only for a renderer that is there and wants it: no live print
\* lease of a session that is closing, and no open or active session of a window
\* whose Destroyed handler ended.
THEOREM OwnersHold ==
  ASSUME FencesSuffice
  PROVE  Spec => []OwnersAreRespected
<1>1. OwnersInv => OwnersAreRespected
  BY DEF OwnersInv, SessionInv, OwnersAreRespected
<1>2. OwnersInv /\ [Next]_vars => OwnersInv'
  BY OwnersStep
<1> QED
  BY <1>1, <1>2, InitOwners, PTL DEF Spec
===========================================================================
