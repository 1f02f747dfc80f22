--------------------------- MODULE ServiceProofs ----------------------------
(* Three services every guest shares, the registry of service IDs, the event *)
(* bus and the network: for every limit, every set of owners and kinds,      *)
(* every word width, any events, timestamps, sizes and answers.              *)
EXTENDS Registry, EventBus, Network, SelectionProofs

-----------------------------------------------------------------------------
(***************************************************************************)
(* The service registry.                                                   *)
(*                                                                         *)
(* The inductive invariant ties the four parts of the registry together:   *)
(* a generation is zero exactly for the slots never handed out; a live     *)
(* entry carries the current generation of its slot; the free list is the  *)
(* sorted list of the other slots; no ID was issued with a generation its  *)
(* slot has not reached.  None of these parts is inductive by itself.      *)
(***************************************************************************)

GenerationsUsed == \A slot \in Slots : generations[slot] # 0 <=> slot < nextSlot

EntriesCurrent ==
  \A slot \in Slots : entries[slot] # NoEntry =>
    entries[slot].id = [slot |-> slot, generation |-> generations[slot]]

FreeSorted == \A i, j \in 1 .. Len(free) : i < j => free[i] < free[j]

FreeSound == \A i \in 1 .. Len(free) : free[i] < nextSlot /\ entries[free[i]] = NoEntry

FreeComplete ==
  \A slot \in Slots : slot < nextSlot /\ entries[slot] = NoEntry =>
    \E i \in 1 .. Len(free) : free[i] = slot

IssuedBounded == \A id \in issued : id.generation <= generations[id.slot]

IInv ==
  /\ TypeOK
  /\ GenerationsUsed
  /\ EntriesCurrent
  /\ FreeSorted
  /\ FreeSound
  /\ FreeComplete
  /\ IssuedBounded

-----------------------------------------------------------------------------
(* Facts about the sequences of the free list. *)

LEMMA NoEntryIsNone == NoEntry \notin Entries
  BY DEF NoEntry, Entries

LEMMA RemoveIndexType ==
  ASSUME NEW s \in Seq(Slots), NEW i \in 1 .. Len(s)
  PROVE  /\ RemoveIndex(s, i) \in Seq(Slots)
         /\ Len(RemoveIndex(s, i)) = Len(s) - 1
         /\ \A k \in 1 .. Len(s) - 1 :
              RemoveIndex(s, i)[k] = IF k < i THEN s[k] ELSE s[k + 1]
  <1>1. Len(s) - 1 \in Nat
    OBVIOUS
  <1>2. \A k \in 1 .. Len(s) - 1 : (IF k < i THEN s[k] ELSE s[k + 1]) \in Slots
    OBVIOUS
  <1> QED
    BY <1>1, <1>2 DEF RemoveIndex

Spliced(s, i, slot) ==
  [k \in 1 .. Len(s) + 1 |-> IF k < i THEN s[k] ELSE IF k = i THEN slot ELSE s[k - 1]]

LEMMA SplicedType ==
  ASSUME NEW s \in Seq(Slots), NEW i \in 1 .. Len(s) + 1, NEW slot \in Slots
  PROVE  /\ Spliced(s, i, slot) \in Seq(Slots)
         /\ Len(Spliced(s, i, slot)) = Len(s) + 1
         /\ \A k \in 1 .. Len(s) + 1 : Spliced(s, i, slot)[k] =
              IF k < i THEN s[k] ELSE IF k = i THEN slot ELSE s[k - 1]
  <1>1. Len(s) + 1 \in Nat
    OBVIOUS
  <1>2. \A k \in 1 .. Len(s) + 1 :
          (IF k < i THEN s[k] ELSE IF k = i THEN slot ELSE s[k - 1]) \in Slots
    OBVIOUS
  <1> QED
    BY <1>1, <1>2 DEF Spliced

-----------------------------------------------------------------------------
(* Each kind of step preserves the invariant. *)

\* Removing the last reference to an object: the last Release, and Destroy.
LEMMA RemoveStep ==
  ASSUME IInv, NEW id \in ServiceIDs, Live(id), Remove(id)
  PROVE  IInv'
  <1>0. /\ Limit \in Nat /\ MaxUint32 \in Nat
        /\ TypeOK /\ nextSlot \in 1 .. Limit + 1 /\ free \in Seq(Slots)
        /\ Len(free) \in Nat
        /\ entries \in [Slots -> Entries \cup {NoEntry}]
    BY RegistryAssumption DEF IInv, TypeOK
  <1>1. PICK slot \in Slots : slot = id.slot /\ entries[slot] # NoEntry
    BY DEF ServiceIDs, Live
  <1>2. /\ entries' = [entries EXCEPT ![slot] = NoEntry]
        /\ nextSlot' = nextSlot /\ generations' = generations /\ issued' = issued
    BY <1>1 DEF Remove
  <1>3. slot < nextSlot
    <2>1. entries[slot].id \in ServiceIDs
      BY <1>0, <1>1 DEF Entries
    <2>2. entries[slot].id.generation # 0
      BY <2>1, <1>0 DEF ServiceIDs
    <2>3. entries[slot].id = [slot |-> slot, generation |-> generations[slot]]
      BY <1>1 DEF IInv, EntriesCurrent
    <2>4. entries[slot].id.generation = generations[slot]
      BY <2>3
    <2> QED
      BY <2>2, <2>4 DEF IInv, GenerationsUsed
  <1>4. PICK i \in 1 .. Len(free) + 1 :
          /\ SearchFree(i, slot)
          /\ free' = IF i <= Len(free) /\ free[i] = slot THEN free ELSE Spliced(free, i, slot)
    BY <1>1 DEF Remove, InsertFree, Spliced
  <1>5. \A k \in 1 .. Len(free) : free[k] # slot
    BY <1>1 DEF IInv, FreeSound
  <1>6. free' = Spliced(free, i, slot)
    BY <1>0, <1>4, <1>5
  <1>7. /\ free' \in Seq(Slots)
        /\ Len(free') = Len(free) + 1
        /\ \A k \in 1 .. Len(free) + 1 : free'[k] =
              IF k < i THEN free[k] ELSE IF k = i THEN slot ELSE free[k - 1]
    <2>1. /\ Spliced(free, i, slot) \in Seq(Slots)
          /\ Len(Spliced(free, i, slot)) = Len(free) + 1
          /\ \A k \in 1 .. Len(free) + 1 : Spliced(free, i, slot)[k] =
               IF k < i THEN free[k] ELSE IF k = i THEN slot ELSE free[k - 1]
      BY <1>0, SplicedType
    <2> QED
      BY <1>6, <2>1
  <1>8. TypeOK'
    BY <1>0, <1>1, <1>2, <1>7 DEF TypeOK
  <1>9. GenerationsUsed' /\ IssuedBounded'
    BY <1>2 DEF IInv, GenerationsUsed, IssuedBounded
  <1>10. EntriesCurrent'
    BY <1>0, <1>2 DEF IInv, EntriesCurrent
  <1>11. FreeSorted'
    <2>1. \A j, k \in 1 .. Len(free) : j < k => free[j] < free[k]
      BY DEF IInv, FreeSorted
    <2>2. \A k \in 1 .. Len(free) : free[k] \in Nat
      BY <1>0 DEF Slots
    <2>3. slot \in Nat
      BY <1>1 DEF Slots
    <2>4. /\ \A k \in 1 .. Len(free) : k < i => free[k] < slot
          /\ \A k \in 1 .. Len(free) : k >= i => slot < free[k]
      <3>1. \A k \in 1 .. Len(free) : k < i => free[k] < slot
        BY <1>0, <1>4 DEF SearchFree
      <3>2. i <= Len(free) => slot < free[i]
        BY <1>0, <1>4, <1>5, <2>2, <2>3 DEF SearchFree
      <3> QED
        BY <1>0, <3>1, <3>2, <2>1, <2>2, <2>3
    <2>5. SUFFICES ASSUME NEW j \in 1 .. Len(free) + 1, NEW k \in 1 .. Len(free) + 1, j < k
                   PROVE  free'[j] < free'[k]
      BY <1>7 DEF FreeSorted
    <2>6. CASE k < i
      <3>1. free'[j] = free[j] /\ free'[k] = free[k]
        BY <1>0, <1>7, <2>5, <2>6
      <3>2. j \in 1 .. Len(free) /\ k \in 1 .. Len(free)
        BY <1>0, <2>5, <2>6
      <3> QED
        BY <2>1, <2>5, <3>1, <3>2
    <2>7. CASE k = i
      BY <1>0, <1>7, <2>4, <2>5, <2>7
    <2>8. CASE k > i
      <3>1. free'[k] = free[k - 1] /\ k - 1 \in 1 .. Len(free) /\ k - 1 >= i
        BY <1>0, <1>7, <2>8
      <3>2. CASE j < i
        <4>1. free'[j] = free[j] /\ j \in 1 .. Len(free) /\ j < k - 1
          BY <1>0, <1>7, <3>1, <3>2
        <4> QED
          BY <2>1, <3>1, <4>1
      <3>3. CASE j = i
        BY <1>0, <1>7, <2>4, <3>1, <3>3
      <3>4. CASE j > i
        BY <1>0, <1>7, <2>1, <2>5, <3>1, <3>4
      <3> QED
        BY <3>2, <3>3, <3>4
    <2> QED
      BY <2>6, <2>7, <2>8
  <1>12. FreeSound'
    <2>1. \A k \in 1 .. Len(free) : free[k] \in Slots /\ free[k] < nextSlot /\ entries[free[k]] = NoEntry
      BY <1>0 DEF IInv, FreeSound
    <2>2. \A k \in 1 .. Len(free) + 1 : free'[k] = slot \/ \E j \in 1 .. Len(free) : free'[k] = free[j]
      BY <1>0, <1>7
    <2>3. \A x \in Slots : entries'[x] = IF x = slot THEN NoEntry ELSE entries[x]
      BY <1>0, <1>2
    <2> QED
      BY <1>1, <1>2, <1>3, <1>7, <2>1, <2>2, <2>3 DEF FreeSound
  <1>13. FreeComplete'
    <2>1. free'[i] = slot
      BY <1>0, <1>7
    <2>2. \A j \in 1 .. Len(free) : \E k \in 1 .. Len(free) + 1 : free'[k] = free[j]
      <3> SUFFICES ASSUME NEW j \in 1 .. Len(free)
                   PROVE \E k \in 1 .. Len(free) + 1 : free'[k] = free[j]
        OBVIOUS
      <3>1. CASE j < i
        <4>1. j \in 1 .. Len(free) + 1 /\ free'[j] = free[j]
          BY <1>0, <1>7, <3>1
        <4> QED
          BY <4>1
      <3>2. CASE ~(j < i)
        <4>1. j + 1 \in 1 .. Len(free) + 1 /\ free'[j + 1] = free[j]
          BY <1>0, <1>7, <3>2
        <4> QED
          BY <4>1
      <3> QED
        BY <3>1, <3>2
    <2>3. \A x \in Slots : entries'[x] = IF x = slot THEN NoEntry ELSE entries[x]
      BY <1>0, <1>2
    <2> QED
      BY <1>2, <1>7, <2>1, <2>2, <2>3 DEF IInv, FreeComplete
  <1> QED
    BY <1>8, <1>9, <1>10, <1>11, <1>12, <1>13 DEF IInv

\* Transfer, Retain and a Release that is not the last one change only the
\* owner or the retain count of one live entry.
LEMMA UpdateStep ==
  ASSUME IInv, NEW id \in ServiceIDs, Live(id), NEW e \in Entries,
         e.id = entries[id.slot].id,
         entries' = [entries EXCEPT ![id.slot] = e],
         UNCHANGED <<nextSlot, generations, free, issued>>
  PROVE  IInv'
  <1>0. /\ TypeOK /\ free \in Seq(Slots)
        /\ entries \in [Slots -> Entries \cup {NoEntry}]
    BY DEF IInv, TypeOK
  <1>1. PICK slot \in Slots : slot = id.slot /\ entries[slot] # NoEntry
    BY DEF ServiceIDs, Live
  <1>2. e # NoEntry
    BY NoEntryIsNone
  <1>3. \A x \in Slots : entries'[x] = IF x = slot THEN e ELSE entries[x]
    BY <1>0, <1>1
  <1>4. \A x \in Slots : entries'[x] = NoEntry <=> entries[x] = NoEntry
    BY <1>1, <1>2, <1>3
  <1>5. TypeOK'
    BY <1>0, <1>1 DEF TypeOK
  <1>6. GenerationsUsed' /\ FreeSorted' /\ IssuedBounded'
    BY DEF IInv, GenerationsUsed, FreeSorted, IssuedBounded
  <1>7. EntriesCurrent'
    BY <1>1, <1>3 DEF IInv, EntriesCurrent
  <1>8. FreeSound'
    <2>1. \A k \in 1 .. Len(free) : free[k] \in Slots
      BY <1>0
    <2> QED
      BY <1>4, <2>1 DEF IInv, FreeSound
  <1>9. FreeComplete'
    BY <1>4 DEF IInv, FreeComplete
  <1> QED
    BY <1>5, <1>6, <1>7, <1>8, <1>9 DEF IInv

\* What Allocate does to the generations, entries and issued IDs, for a slot
\* that is free or new.
LEMMA AllocateFacts ==
  ASSUME IInv, NEW slot \in Slots, NEW owner \in Owners, NEW kind \in Kinds,
         generations[slot] # MaxUint32, Allocate(slot, owner, kind)
  PROVE  /\ generations[slot] + 1 \in 1 .. MaxUint32
         /\ generations' \in [Slots -> 0 .. MaxUint32]
         /\ \A x \in Slots : generations'[x] =
              IF x = slot THEN generations[slot] + 1 ELSE generations[x]
         /\ entries' \in [Slots -> Entries \cup {NoEntry}]
         /\ \A x \in Slots \ {slot} : entries'[x] = entries[x]
         /\ entries'[slot] # NoEntry
         /\ entries'[slot].id = [slot |-> slot, generation |-> generations[slot] + 1]
         /\ issued' = issued \cup {[slot |-> slot, generation |-> generations[slot] + 1]}
         /\ [slot |-> slot, generation |-> generations[slot] + 1] \in ServiceIDs
  <1> DEFINE id == [slot |-> slot, generation |-> generations[slot] + 1]
             e == [id |-> id, kind |-> kind, owner |-> owner, refs |-> 1]
  <1>0. /\ MaxUint32 \in Nat \ {0}
        /\ generations \in [Slots -> 0 .. MaxUint32]
        /\ entries \in [Slots -> Entries \cup {NoEntry}]
    BY RegistryAssumption DEF IInv, TypeOK
  <1>1. generations[slot] + 1 \in 1 .. MaxUint32
    BY <1>0
  <1>2. id \in ServiceIDs
    BY <1>1 DEF ServiceIDs
  <1>3. e \in Entries
    BY <1>0, <1>2 DEF Entries
  <1>4. e # NoEntry
    BY <1>3, NoEntryIsNone
  <1>5. /\ generations' = [generations EXCEPT ![slot] = generations[slot] + 1]
        /\ entries' = [entries EXCEPT ![slot] = e]
        /\ issued' = issued \cup {id}
    BY DEF Allocate
  <1>6. entries'[slot] = e
    BY <1>0, <1>5
  <1>7. entries'[slot].id = id
    BY <1>6
  <1> QED
    BY <1>0, <1>1, <1>2, <1>3, <1>4, <1>5, <1>6, <1>7

\* After Allocate the parts of the invariant that do not mention the free list
\* hold, and the new ID is above every ID issued before.
LEMMA AllocateStep ==
  ASSUME IInv, NEW slot \in Slots, NEW owner \in Owners, NEW kind \in Kinds,
         generations[slot] # MaxUint32, Allocate(slot, owner, kind)
  PROVE  EntriesCurrent' /\ IssuedBounded' /\ issued' \subseteq ServiceIDs
  <1>0. /\ generations \in [Slots -> 0 .. MaxUint32]
        /\ issued \subseteq ServiceIDs /\ MaxUint32 \in Nat
    BY RegistryAssumption DEF IInv, TypeOK
  <1>1. EntriesCurrent'
    <2>1. \A x \in Slots \ {slot} : generations'[x] = generations[x] /\ entries'[x] = entries[x]
      BY AllocateFacts
    <2>2. generations'[slot] = generations[slot] + 1
      BY AllocateFacts
    <2>3. entries'[slot].id = [slot |-> slot, generation |-> generations[slot] + 1]
      BY AllocateFacts
    <2> QED
      BY <2>1, <2>2, <2>3 DEF IInv, EntriesCurrent
  <1>2. IssuedBounded'
    <2> SUFFICES ASSUME NEW id \in issued' PROVE id.generation <= generations'[id.slot]
      BY DEF IssuedBounded
    <2>0. \A x \in Slots : generations'[x] =
            IF x = slot THEN generations[slot] + 1 ELSE generations[x]
      BY AllocateFacts
    <2>1. CASE id \in issued
      <3>1. id.slot \in Slots /\ id.generation \in Nat /\ id.generation <= generations[id.slot]
        BY <1>0, <2>1 DEF ServiceIDs, IInv, IssuedBounded
      <3> QED
        BY <1>0, <2>0, <3>1
    <2>2. CASE id = [slot |-> slot, generation |-> generations[slot] + 1]
      <3>1. id.slot = slot /\ id.generation = generations[slot] + 1
        BY <2>2
      <3> QED
        BY <1>0, <2>0, <3>1
    <2>3. issued' = issued \cup {[slot |-> slot, generation |-> generations[slot] + 1]}
      BY AllocateFacts
    <2> QED
      BY <2>1, <2>2, <2>3
  <1>3. issued' \subseteq ServiceIDs
    BY <1>0, AllocateFacts
  <1> QED
    BY <1>1, <1>2, <1>3

\* Create through the free list.
LEMMA CreateReuseStep ==
  ASSUME IInv, NEW owner \in Owners, NEW kind \in Kinds, NEW i \in 1 .. Len(free),
         generations[free[i]] # MaxUint32, Allocate(free[i], owner, kind),
         free' = RemoveIndex(free, i), nextSlot' = nextSlot
  PROVE  IInv'
  <1>0. /\ nextSlot \in 1 .. Limit + 1 /\ free \in Seq(Slots) /\ Len(free) \in Nat
        /\ Limit \in Nat /\ MaxUint32 \in Nat
        /\ generations \in [Slots -> 0 .. MaxUint32]
    BY RegistryAssumption DEF IInv, TypeOK
  <1>1. PICK slot \in Slots : slot = free[i]
    BY <1>0
  <1>2. slot < nextSlot /\ entries[slot] = NoEntry
    BY <1>1 DEF IInv, FreeSound
  <1>3. Allocate(slot, owner, kind) /\ generations[slot] # MaxUint32
    BY <1>1
  <1>4. \A x \in Slots : generations'[x] =
          IF x = slot THEN generations[slot] + 1 ELSE generations[x]
    BY <1>3, AllocateFacts
  <1>5. /\ \A x \in Slots \ {slot} : entries'[x] = entries[x]
        /\ entries'[slot] # NoEntry
    BY <1>3, AllocateFacts
  <1>6. /\ free' \in Seq(Slots)
        /\ Len(free') = Len(free) - 1
        /\ \A k \in 1 .. Len(free) - 1 : free'[k] = IF k < i THEN free[k] ELSE free[k + 1]
    <2>1. /\ RemoveIndex(free, i) \in Seq(Slots)
          /\ Len(RemoveIndex(free, i)) = Len(free) - 1
          /\ \A k \in 1 .. Len(free) - 1 : RemoveIndex(free, i)[k] =
               IF k < i THEN free[k] ELSE free[k + 1]
      BY <1>0, RemoveIndexType
    <2> QED
      BY <2>1
  <1>7. \A j, k \in 1 .. Len(free) : j < k => free[j] < free[k]
    BY DEF IInv, FreeSorted
  <1>8. \A k \in 1 .. Len(free) : free[k] \in Slots /\ free[k] \in Nat
    BY <1>0 DEF Slots
  <1>9. TypeOK'
    <2>1. /\ generations' \in [Slots -> 0 .. MaxUint32]
          /\ entries' \in [Slots -> Entries \cup {NoEntry}]
      BY <1>3, AllocateFacts
    <2>2. issued' \subseteq ServiceIDs
      BY <1>3, AllocateStep
    <2> QED
      BY <1>0, <1>6, <2>1, <2>2 DEF TypeOK
  <1>10. GenerationsUsed'
    BY <1>0, <1>2, <1>4 DEF IInv, GenerationsUsed
  <1>11. EntriesCurrent' /\ IssuedBounded'
    BY <1>3, AllocateStep
  <1>12. \A k \in 1 .. Len(free) - 1 : \E j \in 1 .. Len(free) : free'[k] = free[j] /\ j # i
    <2> SUFFICES ASSUME NEW k \in 1 .. Len(free) - 1
                 PROVE  \E j \in 1 .. Len(free) : free'[k] = free[j] /\ j # i
      OBVIOUS
    <2>1. k \in 1 .. Len(free) /\ k + 1 \in 1 .. Len(free)
      BY <1>0
    <2>2. free'[k] = IF k < i THEN free[k] ELSE free[k + 1]
      BY <1>6
    <2> QED
      BY <2>1, <2>2
  <1>13. FreeSorted'
    <2> SUFFICES ASSUME NEW j \in 1 .. Len(free) - 1, NEW k \in 1 .. Len(free) - 1, j < k
                 PROVE  free'[j] < free'[k]
      BY <1>6 DEF FreeSorted
    <2>1. free'[j] = IF j < i THEN free[j] ELSE free[j + 1]
      BY <1>6
    <2>2. free'[k] = IF k < i THEN free[k] ELSE free[k + 1]
      BY <1>6
    <2>3. /\ j \in 1 .. Len(free) /\ j + 1 \in 1 .. Len(free)
          /\ k \in 1 .. Len(free) /\ k + 1 \in 1 .. Len(free)
      BY <1>0
    <2>4. free[j] < free[k] /\ free[j] < free[k + 1] /\ free[j + 1] < free[k + 1]
      BY <1>7, <2>3
    <2> QED
      BY <2>1, <2>2, <2>4
  <1>14. FreeSound'
    <2>1. \A k \in 1 .. Len(free) : k # i => free[k] # slot
      BY <1>0, <1>1, <1>7, <1>8
    <2>2. \A k \in 1 .. Len(free) : free[k] < nextSlot /\ entries[free[k]] = NoEntry
      BY DEF IInv, FreeSound
    <2>3. \A k \in 1 .. Len(free) - 1 : free'[k] < nextSlot /\ entries'[free'[k]] = NoEntry
      <3> SUFFICES ASSUME NEW k \in 1 .. Len(free) - 1
                   PROVE  free'[k] < nextSlot /\ entries'[free'[k]] = NoEntry
        OBVIOUS
      <3>1. PICK j \in 1 .. Len(free) : free'[k] = free[j] /\ j # i
        BY <1>12
      <3>2. free[j] \in Slots \ {slot}
        BY <1>8, <2>1, <3>1
      <3> QED
        BY <1>5, <2>2, <3>1, <3>2
    <2> QED
      BY <1>6, <2>3 DEF FreeSound
  <1>15. FreeComplete'
    <2> SUFFICES ASSUME NEW x \in Slots, x < nextSlot, entries'[x] = NoEntry
                 PROVE  \E k \in 1 .. Len(free) - 1 : free'[k] = x
      BY <1>6 DEF FreeComplete
    <2>1. x # slot /\ entries[x] = NoEntry
      BY <1>5
    <2>2. PICK j \in 1 .. Len(free) : free[j] = x
      BY <2>1 DEF IInv, FreeComplete
    <2>3. j # i
      BY <1>1, <2>1, <2>2
    <2>4. CASE j < i
      <3>1. j \in 1 .. Len(free) - 1
        BY <1>0, <2>4
      <3>2. free'[j] = x
        BY <1>6, <2>2, <2>4, <3>1
      <3> QED
        BY <3>1, <3>2
    <2>5. CASE j > i
      <3>1. j - 1 \in 1 .. Len(free) - 1 /\ ~(j - 1 < i) /\ (j - 1) + 1 = j
        BY <1>0, <2>5
      <3>2. free'[j - 1] = free[j]
        BY <1>6, <3>1
      <3> QED
        BY <2>2, <3>1, <3>2
    <2> QED
      BY <2>3, <2>4, <2>5
  <1> QED
    BY <1>9, <1>10, <1>11, <1>13, <1>14, <1>15 DEF IInv

\* Create with a slot never used before.
LEMMA CreateFreshStep ==
  ASSUME IInv, NEW owner \in Owners, NEW kind \in Kinds,
         nextSlot <= Limit, Allocate(nextSlot, owner, kind),
         nextSlot' = nextSlot + 1, free' = free
  PROVE  IInv'
  <1>0. /\ nextSlot \in Nat /\ Limit \in Nat /\ MaxUint32 \in Nat \ {0}
        /\ generations \in [Slots -> 0 .. MaxUint32]
        /\ free \in Seq(Slots)
    BY RegistryAssumption DEF IInv, TypeOK
  <1>1. nextSlot \in Slots
    BY <1>0 DEF IInv, TypeOK, Slots
  <1>2. generations[nextSlot] = 0
    BY <1>0, <1>1 DEF IInv, GenerationsUsed
  <1>3. Allocate(nextSlot, owner, kind) /\ generations[nextSlot] # MaxUint32
    BY <1>0, <1>2
  <1>4. \A x \in Slots : generations'[x] =
          IF x = nextSlot THEN generations[nextSlot] + 1 ELSE generations[x]
    BY <1>1, <1>3, AllocateFacts
  <1>5. /\ \A x \in Slots \ {nextSlot} : entries'[x] = entries[x]
        /\ entries'[nextSlot] # NoEntry
    BY <1>1, <1>3, AllocateFacts
  <1>6. TypeOK'
    <2>1. /\ generations' \in [Slots -> 0 .. MaxUint32]
          /\ entries' \in [Slots -> Entries \cup {NoEntry}]
      BY <1>1, <1>3, AllocateFacts
    <2>2. issued' \subseteq ServiceIDs
      BY <1>1, <1>3, AllocateStep
    <2>3. nextSlot' \in 1 .. Limit + 1
      BY <1>0
    <2> QED
      BY <1>0, <2>1, <2>2, <2>3 DEF TypeOK
  <1>7. GenerationsUsed'
    BY <1>0, <1>2, <1>4 DEF IInv, GenerationsUsed, Slots
  <1>8. EntriesCurrent' /\ IssuedBounded'
    BY <1>1, <1>3, AllocateStep
  <1>9. FreeSorted'
    BY DEF IInv, FreeSorted
  <1>10. FreeSound'
    <2>1. \A k \in 1 .. Len(free) : free[k] \in Slots /\ free[k] \in Nat
      BY <1>0 DEF Slots
    <2> SUFFICES ASSUME NEW k \in 1 .. Len(free)
                 PROVE  free[k] < nextSlot + 1 /\ entries'[free[k]] = NoEntry
      BY DEF FreeSound
    <2>2. free[k] < nextSlot /\ entries[free[k]] = NoEntry
      BY DEF IInv, FreeSound
    <2> DEFINE x == free[k]
    <2>3. x \in Nat /\ x \in Slots /\ x < nextSlot /\ nextSlot \in Nat
      BY <1>0, <2>1, <2>2
    <2> HIDE DEF x
    <2>4. x # nextSlot /\ x < nextSlot + 1
      BY <2>3
    <2> QED
      BY <1>5, <2>2, <2>3, <2>4 DEF x
  <1>11. FreeComplete'
    <2> SUFFICES ASSUME NEW x \in Slots, x < nextSlot + 1, entries'[x] = NoEntry
                 PROVE  \E k \in 1 .. Len(free) : free[k] = x
      BY DEF FreeComplete
    <2>1. x \in Nat /\ nextSlot \in Nat
      BY <1>0 DEF Slots
    <2>2. x # nextSlot
      BY <1>5
    <2>3. x < nextSlot
      BY <2>1, <2>2
    <2>4. entries[x] = NoEntry
      BY <1>5, <2>2
    <2> QED
      BY <2>3, <2>4 DEF IInv, FreeComplete
  <1> QED
    BY <1>6, <1>7, <1>8, <1>9, <1>10, <1>11 DEF IInv

LEMMA CreateStep ==
  ASSUME IInv, NEW owner \in Owners, NEW kind \in Kinds, Create(owner, kind)
  PROVE  IInv'
  <1>0. free \in Seq(Slots)
    BY DEF IInv, TypeOK
  <1>1. CASE \E i \in Reusable :
               /\ Allocate(free[i], owner, kind)
               /\ free' = RemoveIndex(free, i)
               /\ UNCHANGED nextSlot
    BY <1>0, <1>1, CreateReuseStep DEF Reusable
  <1>2. CASE /\ nextSlot <= Limit
             /\ Allocate(nextSlot, owner, kind)
             /\ nextSlot' = nextSlot + 1
             /\ UNCHANGED free
    BY <1>2, CreateFreshStep
  <1> QED
    BY <1>1, <1>2 DEF Create

\* Restore rebuilds the free list; what it builds satisfies the invariant.
LEMMA RestoreStep ==
  ASSUME IInv, Restore
  PROVE  IInv'
  <1>0. PICK n \in 0 .. Limit : \E s \in [1 .. n -> Slots] : IsRebuiltFree(s) /\ free' = s
    BY DEF Restore
  <1>1. PICK s \in [1 .. n -> Slots] : IsRebuiltFree(s) /\ free' = s
    BY <1>0
  <1>2. UNCHANGED <<nextSlot, generations, entries, issued>>
    BY DEF Restore
  <1>3. s \in Seq(Slots) /\ Len(s) = n /\ DOMAIN s = 1 .. n
    BY <1>1, RegistryAssumption
  <1>4. TypeOK'
    BY <1>1, <1>2, <1>3 DEF IInv, TypeOK
  <1>5. GenerationsUsed' /\ EntriesCurrent' /\ IssuedBounded'
    BY <1>2 DEF IInv, GenerationsUsed, EntriesCurrent, IssuedBounded
  <1>6. FreeSorted'
    BY <1>1, <1>3 DEF FreeSorted, IsRebuiltFree
  <1>7. \A k \in 1 .. n : s[k] \in (1 .. nextSlot - 1) \ Active
    BY <1>1, <1>3 DEF IsRebuiltFree
  <1>8. nextSlot \in Nat
    BY RegistryAssumption DEF IInv, TypeOK
  <1>9. FreeSound'
    <2>1. \A k \in 1 .. n : s[k] < nextSlot /\ entries[s[k]] = NoEntry
      BY <1>3, <1>7, <1>8 DEF Active
    <2> QED
      BY <1>1, <1>2, <1>3, <2>1 DEF FreeSound
  <1>10. FreeComplete'
    <2> SUFFICES ASSUME NEW x \in Slots, x < nextSlot, entries[x] = NoEntry
                 PROVE  \E k \in 1 .. n : s[k] = x
      BY <1>1, <1>2, <1>3 DEF FreeComplete
    <2>1. x \in (1 .. nextSlot - 1) \ Active
      BY <1>8, RegistryAssumption DEF Slots, Active
    <2> QED
      BY <1>1, <1>3, <2>1 DEF IsRebuiltFree
  <1> QED
    BY <1>4, <1>5, <1>6, <1>9, <1>10 DEF IInv

-----------------------------------------------------------------------------
(* The theorems. *)

LEMMA InitIInv == Init => IInv
  <1> SUFFICES ASSUME Init PROVE IInv
    OBVIOUS
  <1>0. Limit \in Nat \ {0} /\ MaxUint32 \in Nat
    BY RegistryAssumption
  <1>1. TypeOK
    BY <1>0 DEF Init, TypeOK
  <1>2. GenerationsUsed /\ EntriesCurrent
    BY <1>0 DEF Init, GenerationsUsed, EntriesCurrent, Slots
  <1>3. FreeSorted /\ FreeSound /\ FreeComplete /\ IssuedBounded
    BY <1>0 DEF Init, FreeSorted, FreeSound, FreeComplete, IssuedBounded, Slots
  <1> QED
    BY <1>1, <1>2, <1>3 DEF IInv

\* A step that rewrites one live entry in place.
LEMMA EntryIsEntry ==
  ASSUME IInv, NEW id \in ServiceIDs, Live(id)
  PROVE  entries[id.slot] \in Entries
  BY DEF IInv, TypeOK, Live, ServiceIDs

LEMMA NextIInv == IInv /\ [Next]_vars => IInv'
  <1> SUFFICES ASSUME IInv, [Next]_vars PROVE IInv'
    OBVIOUS
  <1>1. ASSUME NEW owner \in Owners, NEW kind \in Kinds, Create(owner, kind)
        PROVE  IInv'
    BY <1>1, CreateStep
  <1>2. ASSUME NEW id \in ServiceIDs, NEW from \in Owners, NEW to \in Owners,
               Transfer(id, from, to)
        PROVE  IInv'
    <2> DEFINE e == [entries[id.slot] EXCEPT !.owner = to]
    <2>1. Live(id) /\ entries' = [entries EXCEPT ![id.slot] = e]
          /\ UNCHANGED <<nextSlot, generations, free, issued>>
      BY <1>2 DEF Transfer
    <2>2. entries[id.slot] \in Entries
      BY <2>1, EntryIsEntry
    <2>3. e \in Entries /\ e.id = entries[id.slot].id
      BY <2>2 DEF Entries
    <2> QED
      BY <2>1, <2>3, UpdateStep
  <1>3. ASSUME NEW id \in ServiceIDs, Retain(id)
        PROVE  IInv'
    <2> DEFINE e == [entries[id.slot] EXCEPT !.refs = entries[id.slot].refs + 1]
    <2>1. Live(id) /\ entries' = [entries EXCEPT ![id.slot] = e]
          /\ entries[id.slot].refs # MaxUint32
          /\ UNCHANGED <<nextSlot, generations, free, issued>>
      BY <1>3 DEF Retain
    <2>2. entries[id.slot] \in Entries
      BY <2>1, EntryIsEntry
    <2>3. entries[id.slot].refs + 1 \in 1 .. MaxUint32
      BY <2>1, <2>2, RegistryAssumption DEF Entries
    <2>4. e \in Entries /\ e.id = entries[id.slot].id
      BY <2>2, <2>3 DEF Entries
    <2> QED
      BY <2>1, <2>4, UpdateStep
  <1>4. ASSUME NEW id \in ServiceIDs, Release(id)
        PROVE  IInv'
    <2> DEFINE e == [entries[id.slot] EXCEPT !.refs = entries[id.slot].refs - 1]
    <2>1. Live(id)
      BY <1>4 DEF Release
    <2>2. entries[id.slot] \in Entries
      BY <2>1, EntryIsEntry
    <2>3. CASE /\ entries[id.slot].refs # 1
               /\ entries' = [entries EXCEPT ![id.slot] = e]
               /\ UNCHANGED <<nextSlot, generations, free, issued>>
      <3>1. entries[id.slot].refs - 1 \in 1 .. MaxUint32
        BY <2>2, <2>3, RegistryAssumption DEF Entries
      <3>2. e \in Entries /\ e.id = entries[id.slot].id
        BY <2>2, <3>1 DEF Entries
      <3> QED
        BY <2>1, <2>3, <3>2, UpdateStep
    <2>4. CASE Remove(id)
      BY <2>1, <2>4, RemoveStep
    <2> QED
      BY <1>4, <2>3, <2>4 DEF Release
  <1>5. ASSUME NEW id \in ServiceIDs, NEW owner \in Owners, NEW kind \in Kinds,
               Destroy(id, owner, kind)
        PROVE  IInv'
    BY <1>5, RemoveStep DEF Destroy, Validates
  <1>6. CASE Restore
    BY <1>6, RestoreStep
  <1>7. CASE UNCHANGED vars
    BY <1>7 DEF vars, IInv, TypeOK, GenerationsUsed, EntriesCurrent, FreeSorted,
                FreeSound, FreeComplete, IssuedBounded
  <1> QED
    BY <1>1, <1>2, <1>3, <1>4, <1>5, <1>6, <1>7 DEF Next

LEMMA Invariance == Spec => []IInv
  BY InitIInv, NextIInv, PTL DEF Spec

\* The registry's type invariant, for every limit and word width.
THEOREM TypeCorrect == Spec => []TypeOK
  <1>1. IInv => TypeOK
    BY DEF IInv
  <1> QED
    BY <1>1, Invariance, PTL

\* A registry can always be rebuilt from its own snapshot, with the free list
\* it had: save and restore never change which ID the next Create returns.
THEOREM LosslessRestore == Spec => []RestoreIsLossless
  <1>1. IInv => RestoreIsLossless
    <2> SUFFICES ASSUME IInv PROVE RestoreIsLossless
      OBVIOUS
    <2>0. /\ nextSlot \in 1 .. Limit + 1 /\ Limit \in Nat /\ free \in Seq(Slots)
          /\ entries \in [Slots -> Entries \cup {NoEntry}]
      BY RegistryAssumption DEF IInv, TypeOK
    <2>1. Restorable
      <3>1. nextSlot <= Limit + 1
        BY <2>0
      <3>2. {slot \in Slots : generations[slot] # 0} = 1 .. nextSlot - 1
        BY <2>0 DEF IInv, GenerationsUsed, Slots
      <3>3. \A slot \in Active :
              entries[slot].id = [slot |-> slot, generation |-> generations[slot]]
        BY DEF IInv, EntriesCurrent, Active
      <3>4. \A slot \in Active : entries[slot].refs # 0
        BY <2>0 DEF Active, Entries
      <3> QED
        BY <3>1, <3>2, <3>3, <3>4 DEF Restorable
    <2>2. DOMAIN free = 1 .. Len(free)
      BY <2>0
    <2>3. \A i, j \in DOMAIN free : i < j => free[i] < free[j]
      BY <2>2 DEF IInv, FreeSorted
    <2>4. {free[i] : i \in DOMAIN free} = (1 .. nextSlot - 1) \ Active
      <3>1. \A i \in DOMAIN free : free[i] \in (1 .. nextSlot - 1) \ Active
        <4>1. \A i \in DOMAIN free : free[i] \in Slots /\ free[i] < nextSlot
                                     /\ entries[free[i]] = NoEntry
          BY <2>0, <2>2 DEF IInv, FreeSound
        <4> QED
          BY <2>0, <4>1 DEF Slots, Active
      <3>2. \A x \in (1 .. nextSlot - 1) \ Active : \E i \in DOMAIN free : free[i] = x
        BY <2>0, <2>2 DEF IInv, FreeComplete, Slots, Active
      <3> QED
        BY <3>1, <3>2
    <2> QED
      BY <2>1, <2>3, <2>4 DEF RestoreIsLossless, IsRebuiltFree
  <1> QED
    BY <1>1, Invariance, PTL

\* A dead service ID is refused forever.
THEOREM StaleForever == Spec => StaleStaysStale
  <1>1. IInv /\ [Next]_vars => [\A id \in issued : ~Live(id) => ~Live(id)']_vars
    <2> SUFFICES ASSUME IInv, Next, NEW id \in issued, ~Live(id), Live(id)'
                 PROVE  FALSE
      BY DEF vars
    <2>0. /\ issued \subseteq ServiceIDs /\ free \in Seq(Slots) /\ MaxUint32 \in Nat
          /\ generations \in [Slots -> 0 .. MaxUint32]
          /\ entries \in [Slots -> Entries \cup {NoEntry}]
      BY RegistryAssumption DEF IInv, TypeOK
    <2>1. id.slot \in Slots /\ id.generation \in Nat /\ id.generation <= generations[id.slot]
      BY <2>0 DEF ServiceIDs, IInv, IssuedBounded
    <2>2. ASSUME NEW slot \in Slots, NEW owner \in Owners, NEW kind \in Kinds,
                 generations[slot] # MaxUint32, Allocate(slot, owner, kind)
          PROVE  FALSE
      <3>1. CASE id.slot = slot
        <4>1. entries'[slot].id = [slot |-> slot, generation |-> generations[slot] + 1]
          BY <2>2, AllocateFacts
        <4>2. id.generation = generations[slot] + 1
          BY <3>1, <4>1 DEF Live
        <4> QED
          BY <2>0, <2>1, <3>1, <4>2
      <3>2. CASE id.slot # slot
        <4>1. entries'[id.slot] = entries[id.slot]
          BY <2>1, <2>2, <3>2, AllocateFacts
        <4> QED
          BY <4>1 DEF Live
      <3> QED
        BY <3>1, <3>2
    <2>3. ASSUME NEW owner \in Owners, NEW kind \in Kinds, Create(owner, kind)
          PROVE  FALSE
      <3>1. CASE \E i \in Reusable : Allocate(free[i], owner, kind)
        BY <2>0, <2>2, <3>1 DEF Reusable
      <3>2. CASE /\ nextSlot <= Limit /\ Allocate(nextSlot, owner, kind)
        <4>1. nextSlot \in Slots
          BY <3>2, RegistryAssumption DEF IInv, TypeOK, Slots
        <4>2. generations[nextSlot] # MaxUint32
          BY <2>0, <4>1, RegistryAssumption DEF IInv, TypeOK, GenerationsUsed
        <4> QED
          BY <2>2, <3>2, <4>1, <4>2
      <3> QED
        BY <2>3, <3>1, <3>2 DEF Create
    <2>4. ASSUME NEW x \in ServiceIDs, NEW e \in Entries, Live(x),
                 e.id = entries[x.slot].id, entries' = [entries EXCEPT ![x.slot] = e]
          PROVE  FALSE
      <3>1. x.slot \in Slots /\ entries[x.slot] # NoEntry
        BY <2>4 DEF ServiceIDs, Live
      <3>2. entries'[id.slot] = IF id.slot = x.slot THEN e ELSE entries[id.slot]
        BY <2>0, <2>1, <2>4
      <3> QED
        BY <2>4, <3>1, <3>2 DEF Live
    <2>5. ASSUME NEW x \in ServiceIDs, Remove(x)
          PROVE  FALSE
      <3>1. entries'[id.slot] = NoEntry \/ entries'[id.slot] = entries[id.slot]
        BY <2>0, <2>1, <2>5 DEF Remove
      <3> QED
        BY <3>1 DEF Live
    <2>6. ASSUME NEW x \in ServiceIDs, NEW from \in Owners, NEW to \in Owners,
                 Transfer(x, from, to)
          PROVE  FALSE
      <3> DEFINE e == [entries[x.slot] EXCEPT !.owner = to]
      <3>1. Live(x) /\ entries' = [entries EXCEPT ![x.slot] = e]
        BY <2>6 DEF Transfer
      <3>2. e \in Entries /\ e.id = entries[x.slot].id
        BY <3>1, EntryIsEntry DEF Entries
      <3> QED
        BY <2>4, <3>1, <3>2
    <2>7. ASSUME NEW x \in ServiceIDs, Retain(x)
          PROVE  FALSE
      <3> DEFINE e == [entries[x.slot] EXCEPT !.refs = entries[x.slot].refs + 1]
      <3>1. Live(x) /\ entries' = [entries EXCEPT ![x.slot] = e]
            /\ entries[x.slot].refs # MaxUint32
        BY <2>7 DEF Retain
      <3>2. entries[x.slot] \in Entries
        BY <3>1, EntryIsEntry
      <3>3. entries[x.slot].refs + 1 \in 1 .. MaxUint32
        BY <2>0, <3>1, <3>2 DEF Entries
      <3>4. e \in Entries /\ e.id = entries[x.slot].id
        BY <3>2, <3>3 DEF Entries
      <3> QED
        BY <2>4, <3>1, <3>4
    <2>8. ASSUME NEW x \in ServiceIDs, Release(x)
          PROVE  FALSE
      <3> DEFINE e == [entries[x.slot] EXCEPT !.refs = entries[x.slot].refs - 1]
      <3>1. Live(x)
        BY <2>8 DEF Release
      <3>2. entries[x.slot] \in Entries
        BY <3>1, EntryIsEntry
      <3>3. CASE entries[x.slot].refs # 1 /\ entries' = [entries EXCEPT ![x.slot] = e]
        <4>1. entries[x.slot].refs - 1 \in 1 .. MaxUint32
          BY <2>0, <3>2, <3>3 DEF Entries
        <4>2. e \in Entries /\ e.id = entries[x.slot].id
          BY <3>2, <4>1 DEF Entries
        <4> QED
          BY <2>4, <3>1, <3>3, <4>2
      <3> QED
        BY <2>5, <2>8, <3>3 DEF Release
    <2>9. CASE Restore
      BY <2>9 DEF Restore, Live
    <2> QED
      BY <2>3, <2>5, <2>6, <2>7, <2>8, <2>9 DEF Next, Destroy
  <1> QED
    BY <1>1, Invariance, PTL DEF Spec, StaleStaysStale

\* Create hands out an ID nobody has seen, and no live object loses its slot.
THEOREM CreateIsolated == Spec => CreateDisturbsNothing
  <1> DEFINE A == issued' # issued =>
                    /\ \E id \in issued' \ issued : issued' = issued \cup {id} /\ Live(id)'
                    /\ \A slot \in Active : entries'[slot] = entries[slot]
  <1>1. IInv /\ [Next]_vars => [A]_vars
    <2> SUFFICES ASSUME IInv, Next, issued' # issued
                 PROVE  A
      BY DEF vars
    <2>0. /\ free \in Seq(Slots) /\ MaxUint32 \in Nat \ {0}
          /\ generations \in [Slots -> 0 .. MaxUint32]
      BY RegistryAssumption DEF IInv, TypeOK
    <2>1. PICK owner \in Owners, kind \in Kinds : Create(owner, kind)
      BY DEF Next, Transfer, Retain, Release, Destroy, Remove, Restore
    <2>2. \E slot \in Slots : /\ entries[slot] = NoEntry
                              /\ generations[slot] # MaxUint32
                              /\ Allocate(slot, owner, kind)
      <3>1. CASE \E i \in Reusable : Allocate(free[i], owner, kind)
        BY <2>0, <3>1 DEF Reusable, IInv, FreeSound
      <3>2. CASE nextSlot <= Limit /\ Allocate(nextSlot, owner, kind)
        <4>1. nextSlot \in Slots /\ nextSlot \in Nat
          BY <3>2, RegistryAssumption DEF IInv, TypeOK, Slots
        <4>2. generations[nextSlot] = 0
          BY <2>0, <4>1 DEF IInv, GenerationsUsed
        <4>3. entries[nextSlot] = NoEntry
          <5>1. SUFFICES ASSUME entries[nextSlot] # NoEntry PROVE FALSE
            OBVIOUS
          <5>2. entries[nextSlot].id \in ServiceIDs
            BY <4>1, <5>1 DEF IInv, TypeOK, Entries
          <5>3. entries[nextSlot].id = [slot |-> nextSlot, generation |-> generations[nextSlot]]
            BY <4>1, <5>1 DEF IInv, EntriesCurrent
          <5>4. entries[nextSlot].id.generation = 0
            BY <4>2, <5>3
          <5> QED
            BY <2>0, <5>2, <5>4 DEF ServiceIDs
        <4> QED
          BY <2>0, <3>2, <4>1, <4>2, <4>3
      <3> QED
        BY <2>1, <3>1, <3>2 DEF Create
    <2>3. PICK slot \in Slots : /\ entries[slot] = NoEntry
                                /\ generations[slot] # MaxUint32
                                /\ Allocate(slot, owner, kind)
      BY <2>2
    <2>4. \A x \in Active : entries'[x] = entries[x]
      <3>1. \A x \in Slots \ {slot} : entries'[x] = entries[x]
        BY <2>3, AllocateFacts
      <3> QED
        BY <2>3, <3>1 DEF Active
    <2>5. PICK id \in ServiceIDs : id = [slot |-> slot, generation |-> generations[slot] + 1]
      BY <2>3, AllocateFacts
    <2>6. id.slot = slot /\ id.generation = generations[slot] + 1
      BY <2>5
    <2>7. id \notin issued
      BY <2>0, <2>6 DEF IInv, IssuedBounded
    <2>8. issued' = issued \cup {id}
      BY <2>3, <2>5, AllocateFacts
    <2>9. Live(id)'
      <3>1. entries'[slot] # NoEntry /\ entries'[slot].id = id
        BY <2>3, <2>5, AllocateFacts
      <3> QED
        BY <2>6, <3>1 DEF Live
    <2> QED
      BY <2>4, <2>7, <2>8, <2>9
  <1> QED
    BY <1>1, Invariance, PTL DEF Spec, CreateDisturbsNothing

-----------------------------------------------------------------------------
(* The event bus for any limit, any events and any timestamps: Restore never *)
(* refuses what the bus can reach, and the sorted slice implements the set   *)
(* with the least event delivered first (OrderedQueue).                      *)
(*                                                                           *)
(* The invariant holds for the slice and for the rollback buffer alike: the  *)
(* events are in strict order, their sequences differ and have been handed   *)
(* out.  That sequences grow decides where Insert puts an event and makes    *)
(* the order strict; that the order is strict makes the head the least.      *)

BusEvents ==
  {Queue!Stamp(payload, at, n) : payload \in Payloads, at \in Times, n \in Nat \ {0}}

InOrder(s) ==
  \A i, j \in 1 .. Len(s) : i < j =>
    /\ ComesAfter(s[j], s[i])
    /\ s[i].sequence # s[j].sequence

SliceOK(s, next) ==
  /\ next \in Nat \ {0}
  /\ s \in Seq(BusEvents)
  /\ Len(s) <= MaxEvents
  /\ \A i \in 1 .. Len(s) : s[i].sequence < next
  /\ InOrder(s)

BusInv ==
  /\ SliceOK(events, nextSequence)
  /\ SliceOK(saved.events, saved.nextSequence)
  /\ saved = [events |-> saved.events, nextSequence |-> saved.nextSequence]

-----------------------------------------------------------------------------
LEMMA EventFacts ==
  ASSUME NEW e \in BusEvents
  PROVE  e.at \in Nat /\ e.sequence \in Nat \ {0}
BY EventBusAssumption DEF BusEvents, Queue!Stamp

LEMMA OrderIsTransitive ==
  ASSUME NEW e \in BusEvents, NEW f \in BusEvents, NEW g \in BusEvents,
         ComesAfter(f, e), ComesAfter(g, f)
  PROVE  ComesAfter(g, e)
<1>1. /\ e.at \in Nat /\ f.at \in Nat /\ g.at \in Nat
      /\ e.sequence \in Nat /\ f.sequence \in Nat /\ g.sequence \in Nat
  BY EventFacts
<1> QED
  BY <1>1 DEF ComesAfter

LEMMA AcceptsSlice ==
  ASSUME NEW s, NEW next, SliceOK(s, next)
  PROVE  BusAccepts([events |-> s, nextSequence |-> next])
<1>1. /\ Len(s) \in Nat /\ Len(s) <= MaxEvents /\ next \in Nat
      /\ \A i \in 1 .. Len(s) : s[i] \in BusEvents /\ s[i].sequence < next
  BY ElementOfSeq, LenProperties DEF SliceOK
<1>2. \A i \in 1 .. Len(s) : s[i].sequence \in 1 .. next - 1
  BY <1>1, EventFacts
<1>3. \A i \in 1 .. Len(s) : \A j \in 1 .. i - 1 :
        s[j].sequence # s[i].sequence /\ ComesAfter(s[i], s[j])
  BY <1>1 DEF SliceOK, InOrder
<1>4. \A i \in 1 .. Len(s) : i # 1 => ComesAfter(s[i], s[i - 1])
  BY <1>1, <1>3
<1> QED
  BY <1>1, <1>2, <1>3, <1>4 DEF BusAccepts

-----------------------------------------------------------------------------
(* Enqueue. *)

\* Insert puts the event behind all those that are due no later.
LEMMA InsertPlace ==
  ASSUME NEW s \in Seq(BusEvents), NEW event
  PROVE  \E i \in 1 .. Len(s) + 1 :
           /\ Insert(s, event) = InsertedAt(s, i, event)
           /\ \A j \in 1 .. i - 1 : ~ComesAfter(s[j], event)
           /\ i <= Len(s) => ComesAfter(s[i], event)
<1> DEFINE after == {i \in 1 .. Len(s) + 1 : i <= Len(s) => ComesAfter(s[i], event)}
           Place(i) == /\ \A j \in 1 .. i - 1 : ~ComesAfter(s[j], event)
                       /\ i <= Len(s) => ComesAfter(s[i], event)
<1>1. Len(s) \in Nat /\ Len(s) + 1 \in after
  BY LenProperties
<1>2. PICK m \in after : \A k \in after : m <= k
  <2>1. after \in SUBSET Nat /\ after # {}
    BY <1>1
  <2> HIDE DEF after
  <2> QED
    BY <2>1, LeastNumber
<1>3. Place(m)
  BY <1>1, <1>2
<1>4. \E i \in 1 .. Len(s) + 1 : Place(i)
  BY <1>2, <1>3
<1>5. PICK i : i = CHOOSE k \in 1 .. Len(s) + 1 : Place(k)
  OBVIOUS
<1>6. i \in 1 .. Len(s) + 1 /\ Place(i)
  BY <1>4, <1>5
<1>7. Insert(s, event) = InsertedAt(s, i, event)
  BY <1>5 DEF Insert
<1> QED
  BY <1>6, <1>7

LEMMA InsertFacts ==
  ASSUME NEW s, NEW next, SliceOK(s, next), Len(s) < MaxEvents,
         NEW event \in BusEvents, event.sequence = next
  PROVE  /\ SliceOK(Insert(s, event), next + 1)
         /\ Elements(Insert(s, event)) = Elements(s) \cup {event}
<1> DEFINE t == Insert(s, event)
<1>1. /\ s \in Seq(BusEvents) /\ Len(s) \in Nat /\ DOMAIN s = 1 .. Len(s)
      /\ next \in Nat \ {0} /\ MaxEvents \in Nat
      /\ \A k \in 1 .. Len(s) : s[k] \in BusEvents /\ s[k].sequence < next
      /\ InOrder(s)
  BY ElementOfSeq, LenProperties, EventBusAssumption DEF SliceOK
<1>2. PICK i \in 1 .. Len(s) + 1 :
        /\ t = InsertedAt(s, i, event)
        /\ \A j \in 1 .. i - 1 : ~ComesAfter(s[j], event)
        /\ i <= Len(s) => ComesAfter(s[i], event)
  BY <1>1, InsertPlace
<1>3. /\ t \in Seq(BusEvents) /\ Len(t) = Len(s) + 1
      /\ \A k \in 1 .. Len(s) + 1 :
           t[k] = IF k < i THEN s[k] ELSE IF k = i THEN event ELSE s[k - 1]
  <2> HIDE DEF t
  <2>1. /\ InsertedAt(s, i, event) \in Seq(BusEvents)
        /\ Len(InsertedAt(s, i, event)) = Len(s) + 1
        /\ \A k \in 1 .. Len(s) + 1 : InsertedAt(s, i, event)[k] =
             IF k < i THEN s[k] ELSE IF k = i THEN event ELSE s[k - 1]
    <3>1. s \in Seq(BusEvents) /\ event \in BusEvents /\ i \in 1 .. Len(s) + 1
      BY <1>1
    <3> QED
      BY <3>1, InsertedFacts
  <2> QED
    BY <1>2, <2>1
<1> HIDE DEF t
<1>4. \A k \in 1 .. i - 1 : ComesAfter(event, s[k])
  BY <1>1, <1>2, EventFacts DEF ComesAfter
<1>5. ASSUME NEW k \in 1 .. Len(s), i <= k
      PROVE  ComesAfter(s[k], event)
  <2>1. i \in 1 .. Len(s) /\ ComesAfter(s[i], event)
    BY <1>1, <1>2, <1>5
  <2>2. CASE k = i
    BY <2>1, <2>2
  <2>3. CASE i < k
    <3>1. ComesAfter(s[k], s[i])
      BY <1>1, <2>1, <2>3 DEF InOrder
    <3> QED
      BY <1>1, <2>1, <3>1, OrderIsTransitive
  <2> QED
    BY <1>1, <1>5, <2>1, <2>2, <2>3
<1>6. \A k \in 1 .. Len(t) : t[k].sequence < next + 1
  <2> TAKE k \in 1 .. Len(t)
  <2>1. CASE k < i
    BY <1>1, <1>3, <2>1, EventFacts
  <2>2. CASE k = i
    BY <1>1, <1>3, <2>2
  <2>3. CASE k > i
    <3> DEFINE m == k - 1
    <3>1. m \in 1 .. Len(s) /\ t[k] = s[m]
      BY <1>1, <1>3, <2>3
    <3> QED
      BY <1>1, <3>1, EventFacts
  <2> QED
    BY <1>1, <1>3, <2>1, <2>2, <2>3
<1>7. InOrder(t)
  <2> SUFFICES ASSUME NEW k \in 1 .. Len(t), NEW l \in 1 .. Len(t), k < l
               PROVE  ComesAfter(t[l], t[k]) /\ t[k].sequence # t[l].sequence
    BY DEF InOrder
  <2>0. /\ k \in 1 .. Len(s) + 1 /\ l \in 1 .. Len(s) + 1 /\ i \in Nat
        /\ t[k] = IF k < i THEN s[k] ELSE IF k = i THEN event ELSE s[k - 1]
        /\ t[l] = IF l < i THEN s[l] ELSE IF l = i THEN event ELSE s[l - 1]
    BY <1>1, <1>3
  <2>1. CASE l < i
    BY <1>1, <2>0, <2>1 DEF InOrder
  <2>2. CASE l = i
    <3>1. k \in 1 .. i - 1 /\ k \in 1 .. Len(s) /\ t[k] = s[k] /\ t[l] = event
      BY <1>1, <2>0, <2>2
    <3>2. s[k].sequence # event.sequence
      BY <1>1, <3>1, EventFacts
    <3> QED
      BY <1>4, <3>1, <3>2
  <2>3. CASE l > i /\ k < i
    <3> DEFINE m == l - 1
    <3>1. k \in 1 .. Len(s) /\ m \in 1 .. Len(s) /\ k < m /\ t[k] = s[k] /\ t[l] = s[m]
      BY <1>1, <2>0, <2>3
    <3> QED
      BY <1>1, <3>1 DEF InOrder
  <2>4. CASE l > i /\ k = i
    <3> DEFINE m == l - 1
    <3>1. m \in 1 .. Len(s) /\ i <= m /\ t[k] = event /\ t[l] = s[m]
      BY <1>1, <2>0, <2>4
    <3>2. s[m].sequence # event.sequence
      BY <1>1, <3>1, EventFacts
    <3> QED
      BY <1>5, <3>1, <3>2
  <2>5. CASE l > i /\ k > i
    <3> DEFINE m == l - 1
               n == k - 1
    <3>1. n \in 1 .. Len(s) /\ m \in 1 .. Len(s) /\ n < m /\ t[k] = s[n] /\ t[l] = s[m]
      BY <1>1, <2>0, <2>5
    <3> QED
      BY <1>1, <3>1 DEF InOrder
  <2> QED
    BY <2>0, <2>1, <2>2, <2>3, <2>4, <2>5
<1>8. SliceOK(t, next + 1)
  BY <1>1, <1>3, <1>6, <1>7 DEF SliceOK
<1>9. Elements(t) = Elements(s) \cup {event}
  <2>1. DOMAIN t = 1 .. Len(s) + 1
    BY <1>3, LenProperties
  <2>2. ASSUME NEW k \in 1 .. Len(s) + 1
        PROVE  t[k] \in Elements(s) \cup {event}
    <3>1. CASE k < i
      <4>1. k \in 1 .. Len(s) /\ t[k] = s[k]
        BY <1>1, <1>3, <3>1
      <4> QED
        BY <1>1, <4>1 DEF Elements
    <3>3. CASE k = i
      <4>1. t[k] = event
        BY <1>1, <1>3, <3>3
      <4> QED
        BY <4>1
    <3>2. CASE k > i
      <4> DEFINE m == k - 1
      <4>1. m \in 1 .. Len(s) /\ t[k] = s[m]
        BY <1>1, <1>3, <3>2
      <4> QED
        BY <1>1, <4>1 DEF Elements
    <3> QED
      BY <1>1, <3>1, <3>2, <3>3
  <2>3. t[i] = event
    BY <1>1, <1>3
  <2>4. ASSUME NEW k \in 1 .. Len(s)
        PROVE  \E l \in 1 .. Len(s) + 1 : t[l] = s[k]
    <3>1. CASE k < i
      BY <1>1, <1>3, <3>1
    <3>2. CASE k >= i
      <4> DEFINE l == k + 1
      <4>1. l \in 1 .. Len(s) + 1 /\ l - 1 = k /\ l > i
        BY <1>1, <3>2
      <4>2. t[l] = s[k]
        BY <1>1, <1>3, <4>1
      <4> QED
        BY <4>1, <4>2
    <3> QED
      BY <1>1, <3>1, <3>2
  <2> QED
    BY <1>1, <2>1, <2>2, <2>3, <2>4 DEF Elements
<1> QED
  BY <1>8, <1>9 DEF t

-----------------------------------------------------------------------------
(* PopReady. *)

LEMMA PopFacts ==
  ASSUME NEW s, NEW next, SliceOK(s, next), s # <<>>
  PROVE  /\ SliceOK(Tail(s), next)
         /\ Elements(Tail(s)) = Elements(s) \ {Head(s)}
         /\ Head(s) \in Elements(s)
         /\ \A f \in Elements(s) \ {Head(s)} : ComesAfter(f, Head(s))
<1> DEFINE t == Tail(s)
<1>1. /\ s \in Seq(BusEvents) /\ Len(s) \in Nat \ {0} /\ DOMAIN s = 1 .. Len(s)
      /\ MaxEvents \in Nat /\ Head(s) = s[1] /\ InOrder(s)
      /\ \A k \in 1 .. Len(s) : s[k].sequence < next
  BY LenProperties, EmptySeq, EventBusAssumption DEF SliceOK
<1>2. /\ t \in Seq(BusEvents) /\ Len(t) = Len(s) - 1
      /\ \A k \in 1 .. Len(t) : t[k] = s[k + 1]
  BY <1>1, HeadTailProperties
<1> HIDE DEF t
<1>3. DOMAIN t = 1 .. Len(s) - 1
  BY <1>2, LenProperties
<1>4. InOrder(t)
  <2> SUFFICES ASSUME NEW k \in 1 .. Len(t), NEW l \in 1 .. Len(t), k < l
               PROVE  ComesAfter(t[l], t[k]) /\ t[k].sequence # t[l].sequence
    BY DEF InOrder
  <2> DEFINE m == k + 1
             n == l + 1
  <2>1. /\ m \in 1 .. Len(s) /\ n \in 1 .. Len(s) /\ m < n
        /\ t[k] = s[m] /\ t[l] = s[n]
    BY <1>1, <1>2
  <2> QED
    BY <1>1, <2>1 DEF InOrder
<1>5. \A k \in 1 .. Len(t) : t[k].sequence < next
  <2> TAKE k \in 1 .. Len(t)
  <2> DEFINE m == k + 1
  <2>1. m \in 1 .. Len(s) /\ t[k] = s[m]
    BY <1>1, <1>2
  <2> QED
    BY <1>1, <2>1
<1>6. \A k \in 2 .. Len(s) : ComesAfter(s[k], s[1]) /\ s[k] # s[1]
  BY <1>1 DEF InOrder
<1>7. \A k \in 2 .. Len(s) : \E l \in 1 .. Len(t) : t[l] = s[k]
  <2> TAKE k \in 2 .. Len(s)
  <2> DEFINE l == k - 1
  <2>1. l \in 1 .. Len(t) /\ l + 1 = k
    BY <1>1, <1>2
  <2>2. t[l] = s[k]
    BY <1>2, <2>1
  <2> QED
    BY <2>1, <2>2
<1>8. \A l \in 1 .. Len(t) : \E k \in 2 .. Len(s) : t[l] = s[k]
  BY <1>1, <1>2
<1>9. \A k \in 1 .. Len(s) : k = 1 \/ k \in 2 .. Len(s)
  BY <1>1
<1>10. 1 \in 1 .. Len(s) /\ \A k \in 2 .. Len(s) : k \in 1 .. Len(s)
  BY <1>1
<1>11. Elements(s) = {s[1]} \cup {s[k] : k \in 2 .. Len(s)}
  BY <1>1, <1>9, <1>10 DEF Elements
<1>12. Elements(t) = {s[k] : k \in 2 .. Len(s)}
  <2>0. DOMAIN t = 1 .. Len(t)
    BY <1>2, <1>3
  <2>1. \A x : x \in Elements(t) <=> \E l \in 1 .. Len(t) : x = t[l]
    BY <2>0, Zenon DEF Elements
  <2>2. \A x : x \in Elements(t) <=> \E k \in 2 .. Len(s) : x = s[k]
    <3> TAKE x
    <3>1. ASSUME NEW l \in 1 .. Len(t), x = t[l] PROVE \E k \in 2 .. Len(s) : x = s[k]
      BY <3>1, <1>8
    <3>2. ASSUME NEW k \in 2 .. Len(s), x = s[k] PROVE \E l \in 1 .. Len(t) : x = t[l]
      BY <3>2, <1>7
    <3> QED
      BY <2>1, <3>1, <3>2
  <2> QED
    BY <2>2
<1>13. SliceOK(t, next)
  BY <1>1, <1>2, <1>4, <1>5 DEF SliceOK
<1> QED
  BY <1>1, <1>6, <1>11, <1>12, <1>13 DEF t

-----------------------------------------------------------------------------
(* The drops. *)

LEMMA CompactFacts ==
  ASSUME NEW s, NEW next, SliceOK(s, next), NEW dropped
  PROVE  LET t == Pick(s, {i \in DOMAIN s : s[i] \notin dropped})
         IN  SliceOK(t, next) /\ Elements(t) = Elements(s) \ dropped
<1> DEFINE K == {i \in DOMAIN s : s[i] \notin dropped}
           t == Pick(s, K)
<1>1. /\ s \in Seq(BusEvents) /\ Len(s) \in Nat /\ DOMAIN s = 1 .. Len(s)
      /\ MaxEvents \in Nat /\ InOrder(s) /\ Len(s) <= MaxEvents
      /\ \A k \in 1 .. Len(s) : s[k].sequence < next
  BY LenProperties, EventBusAssumption DEF SliceOK
<1>2. K \in SUBSET DOMAIN s
  OBVIOUS
<1> HIDE DEF K
<1>3. /\ t \in Seq(BusEvents) /\ Len(t) <= Len(s)
      /\ \E pos : Enumerates(pos, t, s, K)
  BY <1>1, <1>2, PickFacts
<1> HIDE DEF t
<1>4. PICK pos \in [1 .. Len(t) -> K] :
        /\ \A i \in 1 .. Len(t) : t[i] = s[pos[i]]
        /\ \A i, j \in 1 .. Len(t) : i < j => pos[i] < pos[j]
        /\ \A k \in K : \E i \in 1 .. Len(t) : pos[i] = k
  BY <1>3 DEF Enumerates
<1>5. \A i \in 1 .. Len(t) : pos[i] \in K /\ pos[i] \in 1 .. Len(s)
  BY <1>1, <1>2, <1>4
<1>6. DOMAIN t = 1 .. Len(t) /\ Len(t) \in Nat
  BY <1>3, LenProperties
<1>7. InOrder(t)
  BY <1>1, <1>4, <1>5 DEF InOrder
<1>8. SliceOK(t, next)
  BY <1>1, <1>3, <1>4, <1>5, <1>6, <1>7 DEF SliceOK
<1>9. Elements(t) = {s[k] : k \in K}
  <2>1. \A x : x \in Elements(t) <=> \E i \in 1 .. Len(t) : x = t[i]
    BY <1>6, Zenon DEF Elements
  <2>2. \A x : x \in Elements(t) <=> \E k \in K : x = s[k]
    <3> TAKE x
    <3>1. ASSUME NEW i \in 1 .. Len(t), x = t[i] PROVE \E k \in K : x = s[k]
      BY <3>1, <1>4, <1>5
    <3>2. ASSUME NEW k \in K, x = s[k] PROVE \E i \in 1 .. Len(t) : x = t[i]
      BY <3>2, <1>4
    <3> QED
      BY <2>1, <3>1, <3>2
  <2> QED
    BY <2>2
<1>10. Elements(t) = Elements(s) \ dropped
  BY <1>9 DEF Elements, K
<1> QED
  BY <1>8, <1>10 DEF K, t

-----------------------------------------------------------------------------
(* Invariance. *)

LEMMA BusInitInv == BusInit => BusInv
<1> SUFFICES ASSUME BusInit PROVE BusInv
  OBVIOUS
<1>1. SliceOK(<<>>, 1)
  BY EventBusAssumption DEF SliceOK, InOrder
<1> QED
  BY <1>1 DEF BusInit, BusInv

LEMMA StampIsEvent ==
  ASSUME BusInv, NEW payload \in Payloads, NEW at \in Times
  PROVE  /\ Queue!Stamp(payload, at, nextSequence) \in BusEvents
         /\ Queue!Stamp(payload, at, nextSequence).sequence = nextSequence
BY DEF BusInv, SliceOK, BusEvents, Queue!Stamp

LEMMA BusNextInv ==
  ASSUME BusInv, BusNext
  PROVE  BusInv'
<1>0. SliceOK(events, nextSequence)
  BY DEF BusInv
<1>1. ASSUME NEW payload \in Payloads, NEW at \in Times, Enqueue(payload, at)
      PROVE  BusInv'
  <2> DEFINE e == Queue!Stamp(payload, at, nextSequence)
  <2>1. e \in BusEvents /\ e.sequence = nextSequence
    BY StampIsEvent
  <2>2. SliceOK(Insert(events, e), nextSequence + 1)
    BY <1>0, <1>1, <2>1, InsertFacts DEF Enqueue
  <2> QED
    BY <1>1, <2>2 DEF Enqueue, BusInv
<1>2. ASSUME NEW now \in Times, PopReady(now)
      PROVE  BusInv'
  <2>1. SliceOK(Tail(events), nextSequence)
    BY <1>0, <1>2, PopFacts DEF PopReady
  <2> QED
    BY <1>2, <2>1 DEF PopReady, BusInv
<1>3. ASSUME NEW dropped, Compact(dropped)
      PROVE  BusInv'
  <2>1. SliceOK(Pick(events, {i \in DOMAIN events : events[i] \notin dropped}), nextSequence)
    BY <1>0, CompactFacts
  <2> QED
    BY <1>3, <2>1 DEF Compact, BusInv
<1>4. ASSUME NEW payload \in Payloads,
             \/ DropPendingLifecycle(payload.owner)
             \/ DropOwner(payload.owner)
             \/ RemoveService(payload.service)
      PROVE  BusInv'
  BY <1>3, <1>4, Zenon DEF DropPendingLifecycle, DropOwner, RemoveService
<1>5. CASE SnapshotInto
  BY <1>5 DEF SnapshotInto, BusInv
<1>6. CASE BusRestore
  BY <1>6 DEF BusRestore, BusInv
<1> QED
  BY <1>1, <1>2, <1>4, <1>5, <1>6 DEF BusNext

THEOREM BusInvariance == BusSpec => []BusInv
<1>1. ASSUME BusInv, UNCHANGED busVars PROVE BusInv'
  BY <1>1 DEF busVars, BusInv
<1>2. BusInv /\ [BusNext]_busVars => BusInv'
  BY <1>1, BusNextInv
<1> QED
  BY BusInitInv, <1>2, PTL DEF BusSpec

\* Restore never refuses what the bus can reach: the error its callers discard
\* never hides a rollback that did not happen.
THEOREM SnapshotsAccepted == BusSpec => []SnapshotAccepted
<1>1. BusInv => SnapshotAccepted
  <2> SUFFICES ASSUME BusInv PROVE SnapshotAccepted
    OBVIOUS
  <2>1. BusAccepts([events |-> events, nextSequence |-> nextSequence])
    BY AcceptsSlice DEF BusInv
  <2>2. BusAccepts([events |-> saved.events, nextSequence |-> saved.nextSequence])
    BY AcceptsSlice DEF BusInv
  <2> QED
    BY <2>1, <2>2 DEF BusInv, SnapshotAccepted
<1> QED
  BY <1>1, BusInvariance, PTL

-----------------------------------------------------------------------------
(* The slice implements the set, step by step. *)

LEMMA RoomInTheSet ==
  ASSUME NEW s \in Seq(BusEvents), Len(s) < MaxEvents
  PROVE  Queue!HasRoom(Elements(s))
<1>1. /\ Len(s) \in Nat /\ MaxEvents \in Nat
      /\ s \in [1 .. Len(s) -> BusEvents] /\ DOMAIN s = 1 .. Len(s)
  BY LenProperties, EventBusAssumption
<1>2. s \in Surjection(1 .. Len(s), Elements(s))
  BY <1>1 DEF Surjection, Elements
<1>3. IsFiniteSet(1 .. Len(s)) /\ Cardinality(1 .. Len(s)) = Len(s)
  BY <1>1, FirstNumbers, Zenon
<1>4. IsFiniteSet(Elements(s)) /\ Cardinality(Elements(s)) <= Cardinality(1 .. Len(s))
  BY <1>2, <1>3, FS_Surjection, Zenon
<1>5. Cardinality(Elements(s)) \in Nat
  BY <1>4, FS_CardinalityType, Zenon
<1>6. Cardinality(Elements(s)) < MaxEvents
  BY <1>1, <1>3, <1>4, <1>5
<1> QED
  BY <1>6, Zenon DEF Queue!HasRoom, Cardinality, Queue!Cardinality

LEMMA StepImplements ==
  ASSUME BusInv, BusNext
  PROVE  [Queue!QueueNext]_(Queue!queueVars)
<1> DEFINE old == [pending |-> Elements(saved.events), nextSequence |-> saved.nextSequence]
<1>0. SliceOK(events, nextSequence) /\ events \in Seq(BusEvents)
  BY DEF BusInv, SliceOK
<1>1. ASSUME NEW payload \in Payloads, NEW at \in Times, Enqueue(payload, at)
      PROVE  Queue!QueueEnqueue(payload, at)
  <2> DEFINE e == Queue!Stamp(payload, at, nextSequence)
  <2>1. e \in BusEvents /\ e.sequence = nextSequence
    BY StampIsEvent
  <2>2. Elements(Insert(events, e)) = Elements(events) \cup {e}
    BY <1>0, <1>1, <2>1, InsertFacts DEF Enqueue
  <2>3. Queue!HasRoom(Elements(events))
    BY <1>0, <1>1, RoomInTheSet DEF Enqueue
  <2> QED
    BY <1>1, <2>2, <2>3 DEF Enqueue, Queue!QueueEnqueue
<1>2. ASSUME NEW now \in Times, PopReady(now)
      PROVE  Queue!QueuePop(now)
  <2> DEFINE e == Head(events)
  <2>1. /\ Elements(Tail(events)) = Elements(events) \ {e}
        /\ e \in Elements(events)
        /\ \A f \in Elements(events) \ {e} : ComesAfter(f, e)
    BY <1>0, <1>2, PopFacts DEF PopReady
  <2>2. e \in BusEvents /\ \A f \in Elements(events) : f \in BusEvents
    BY <1>0, <2>1, LenProperties, ElementOfSeq DEF Elements
  <2>3. \A f \in Elements(events) \ {e} : Queue!Before(e, f)
    BY <2>1, <2>2, EventFacts DEF ComesAfter, Queue!Before
  <2>4. e \in Queue!Ready(Elements(events), now)
    BY <1>2, <2>1, <2>3 DEF PopReady, Queue!Ready, Queue!IsFirst
  <2> QED
    BY <1>2, <2>1, <2>4 DEF PopReady, Queue!QueuePop
<1>3. ASSUME NEW dropped, Compact(dropped)
      PROVE  Queue!QueueDrop(Elements(events) \ dropped)
  <2>1. Elements(Pick(events, {i \in DOMAIN events : events[i] \notin dropped}))
          = Elements(events) \ dropped
    BY <1>0, CompactFacts
  <2> QED
    BY <1>3, <2>1 DEF Compact, Queue!QueueDrop
<1>4. ASSUME NEW payload \in Payloads, DropPendingLifecycle(payload.owner)
      PROVE  Queue!QueueDrop(Queue!DropPendingLifecycle(Elements(events), payload.owner))
  <2> DEFINE D == {e \in Elements(events) : e.kind = "lifecycle" /\ e.owner = payload.owner}
  <2>1. Queue!QueueDrop(Elements(events) \ D)
    BY <1>3, <1>4, Zenon DEF DropPendingLifecycle
  <2>2. Elements(events) \ D = Queue!DropPendingLifecycle(Elements(events), payload.owner)
    BY DEF Queue!DropPendingLifecycle
  <2> QED
    BY <2>1, <2>2
<1>5. ASSUME NEW payload \in Payloads, DropOwner(payload.owner)
      PROVE  Queue!QueueDrop(Queue!DropOwner(Elements(events), payload.owner))
  <2> DEFINE D == {e \in Elements(events) : e.owner = payload.owner}
  <2>1. Queue!QueueDrop(Elements(events) \ D)
    BY <1>3, <1>5, Zenon DEF DropOwner
  <2>2. Elements(events) \ D = Queue!DropOwner(Elements(events), payload.owner)
    BY DEF Queue!DropOwner
  <2> QED
    BY <2>1, <2>2
<1>6. ASSUME NEW payload \in Payloads, RemoveService(payload.service)
      PROVE  Queue!QueueDrop(Queue!RemoveService(Elements(events), payload.service))
  <2> DEFINE D == {e \in Elements(events) : e.service = payload.service}
  <2>1. Queue!QueueDrop(Elements(events) \ D)
    BY <1>3, <1>6, Zenon DEF RemoveService
  <2>2. Elements(events) \ D = Queue!RemoveService(Elements(events), payload.service)
    BY DEF Queue!RemoveService
  <2> QED
    BY <2>1, <2>2
<1>7. ASSUME SnapshotInto PROVE Queue!QueueSave
  BY <1>7 DEF SnapshotInto, Queue!QueueSave
<1>8. ASSUME BusRestore PROVE Queue!QueueRollback
  <2>1. BusAccepts([events |-> saved.events, nextSequence |-> saved.nextSequence])
    BY AcceptsSlice DEF BusInv
  <2>2. BusAccepts(saved)
    BY <2>1 DEF BusInv
  <2> QED
    BY <1>8, <2>2 DEF BusRestore, Queue!QueueRollback
<1> QED
  BY <1>1, <1>2, <1>4, <1>5, <1>6, <1>7, <1>8, Zenon DEF BusNext, Queue!QueueNext

\* The bus implements the queue of its consumers' view: insertion by binary
\* search, delivery from the head, compaction and rollback never reorder, lose
\* or repeat an event.
THEOREM BusImplementsQueue == BusSpec => ImplementsQueue
<1>1. BusInit => Queue!QueueInit
  <2> SUFFICES ASSUME BusInit PROVE Queue!QueueInit
    OBVIOUS
  <2>1. Elements(<<>>) = {}
    BY DEF Elements
  <2>2. Elements(events) = {} /\ Elements(saved.events) = {} /\ saved.nextSequence = 1
    BY <2>1 DEF BusInit
  <2> QED
    BY <2>2 DEF BusInit, Queue!QueueInit
<1>2. ASSUME BusInv, [BusNext]_busVars
      PROVE  [Queue!QueueNext]_(Queue!queueVars)
  <2>1. CASE BusNext
    BY <1>2, <2>1, StepImplements
  <2>2. CASE UNCHANGED busVars
    BY <2>2 DEF busVars, Queue!queueVars, Elements
  <2> QED
    BY <1>2, <2>1, <2>2
<1> QED
  BY <1>1, <1>2, BusInvariance, PTL DEF BusSpec, ImplementsQueue, Queue!QueueSpec
-----------------------------------------------------------------------------
(***************************************************************************)
(* The network and the answers given to it.                                *)
(*                                                                         *)
(* A descriptor's quotas are checked one call at a time, while a restore   *)
(* asks for them of all descriptors at once; the invariant is that what    *)
(* Restore asks for always holds, with the types that make the sums        *)
(* meaningful and recorded answers that carry sizes.  It is also why no    *)
(* trace is left: a rollback restores exactly because it is accepted.      *)
(***************************************************************************)

Descriptors ==
  [kind : DescriptorKinds, state : {"new", "bound", "connecting", "connected", "closed"},
   in : Nat, out : Nat, cursor : Nat, local : BOOLEAN]

NetEntries == [name : AnswerNames \cup {"status"}, id : Nat, value : Nat]
NetEvents == [id : Nat, name : AnswerNames]

\* Descriptors among the first k that were opened.
Opens(k) == UNION {[D -> Descriptors] : D \in SUBSET (1 .. k)}

Nets(k) ==
  [open : Opens(k), pending : Seq(NetEvents), status : Nat,
   tape : Seq(NetEntries), position : Nat]

OfKind(open, kind) == {id \in DOMAIN open : open[id].kind = kind}

EventKind(name) == IF name \in {"http", "serial"} THEN name ELSE "socket"

\* What Restore asks of one descriptor.
Loads(d) ==
  /\ d.in <= MaxBufferBytes /\ d.out <= MaxBufferBytes
  /\ d.kind = "socket" =>
       /\ d.state = "connected" \/ (d.in = 0 /\ d.out = 0)
       /\ d.cursor <= d.out
       /\ d.local \/ d.cursor = 0
  /\ d.kind = "http" =>
       /\ d.state \in {"new", "connecting", "connected"}
       /\ d.state = "connected" \/ (d.in = 0 /\ d.cursor = 0)
       /\ d.cursor <= d.in
  /\ d.kind = "serial" => d.state = "connected"

NetOK(n, k) ==
  /\ n \in Nets(k)
  /\ NetworkAccepts(n.open)
  /\ \A i \in DOMAIN n.pending : IsOpen(n, n.pending[i].id, EventKind(n.pending[i].name))

NetworkInv == descriptors \in Nat /\ NetOK(net, descriptors)

-----------------------------------------------------------------------------
(* What Restore asks for, before and after one descriptor changes. *)

LEMMA AcceptsParts ==
  ASSUME NEW open
  PROVE  NetworkAccepts(open) <=>
           /\ \A kind \in DescriptorKinds : Cardinality(OfKind(open, kind)) <= MaxOfKind
           /\ \A id \in DOMAIN open : Loads(open[id])
           /\ TotalBytes(open) <= MaxTotalBytes
BY Zenon DEF NetworkAccepts, OfKind, Loads

LEMMA OpensFacts ==
  ASSUME NEW k \in Nat, NEW open
  PROVE  open \in Opens(k) <=>
           open \in [DOMAIN open -> Descriptors] /\ DOMAIN open \subseteq 1 .. k
BY DEF Opens

LEMMA OpenIsFinite ==
  ASSUME NEW k \in Nat, NEW open \in Opens(k)
  PROVE  /\ IsFiniteSet(DOMAIN open)
         /\ IsWeight([id \in DOMAIN open |-> open[id].in + open[id].out])
         /\ TotalBytes(open) \in Nat
         /\ \A kind : IsFiniteSet(OfKind(open, kind)) /\ Cardinality(OfKind(open, kind)) \in Nat
<1> DEFINE w == [id \in DOMAIN open |-> open[id].in + open[id].out]
<1>1. open \in [DOMAIN open -> Descriptors] /\ DOMAIN open \in SUBSET (1 .. k)
  BY OpensFacts
<1>2. IsFiniteSet(DOMAIN open)
  BY <1>1, FirstNumbers, FS_Subset
<1>3. IsWeight(w)
  BY <1>1, <1>2 DEF IsWeight, Descriptors
<1>4. TotalBytes(open) \in Nat
  BY <1>3, TotalType DEF TotalBytes
<1>5. ASSUME NEW kind
      PROVE  IsFiniteSet(OfKind(open, kind)) /\ Cardinality(OfKind(open, kind)) \in Nat
  BY <1>2, FS_Subset, FS_CardinalityType DEF OfKind
<1> QED
  BY <1>2, <1>3, <1>4, <1>5

\* One descriptor changes and keeps its kind.
LEMMA OpenUpdate ==
  ASSUME NEW k \in Nat, NEW open \in Opens(k), NetworkAccepts(open),
         NEW id \in DOMAIN open, NEW d \in Descriptors,
         d.kind = open[id].kind, Loads(d),
         TotalBytes(open) - (open[id].in + open[id].out) + (d.in + d.out) <= MaxTotalBytes
  PROVE  /\ [open EXCEPT ![id] = d] \in Opens(k)
         /\ NetworkAccepts([open EXCEPT ![id] = d])
         /\ \A other, kind : OfKind([open EXCEPT ![id] = d], kind) = OfKind(open, kind)
<1> DEFINE new == [open EXCEPT ![id] = d]
           w == [x \in DOMAIN open |-> open[x].in + open[x].out]
           v == [x \in DOMAIN new |-> new[x].in + new[x].out]
<1>1. open \in [DOMAIN open -> Descriptors] /\ DOMAIN open \subseteq 1 .. k
  BY OpensFacts
<1>2. new \in [DOMAIN open -> Descriptors] /\ DOMAIN new = DOMAIN open
      /\ \A x \in DOMAIN open : new[x] = IF x = id THEN d ELSE open[x]
  BY <1>1
<1> HIDE DEF new
<1>3. new \in Opens(k)
  BY <1>1, <1>2, OpensFacts
<1>4. ASSUME NEW kind PROVE OfKind(new, kind) = OfKind(open, kind)
  BY <1>2 DEF OfKind
<1>5. /\ IsWeight(w) /\ DOMAIN v = DOMAIN w /\ id \in DOMAIN w
      /\ w[id] = open[id].in + open[id].out /\ v[id] = d.in + d.out
      /\ \A y \in DOMAIN w \ {id} : v[y] = w[y]
  BY <1>2, OpenIsFinite
<1>6. v[id] \in Nat
  BY <1>5 DEF Descriptors
<1>7. TotalBytes(new) = TotalOf(v) /\ TotalBytes(open) = TotalOf(w)
  BY DEF TotalBytes
<1> HIDE DEF v, w
<1>8. TotalOf(v) = TotalOf(w) - w[id] + v[id]
  BY <1>5, <1>6, TotalChange
<1>9. TotalBytes(new) <= MaxTotalBytes
  BY <1>5, <1>7, <1>8
<1>10. \A x \in DOMAIN new : Loads(new[x])
  BY <1>2, AcceptsParts
<1>11. NetworkAccepts(new)
  BY <1>4, <1>9, <1>10, AcceptsParts, Zenon
<1> QED
  BY <1>3, <1>4, <1>11 DEF new

\* The same for the network: whatever else is kept, events stay events of open
\* descriptors.
LEMMA NetUpdate ==
  ASSUME NEW k \in Nat, NEW n, NetOK(n, k),
         NEW id \in DOMAIN n.open, NEW d \in Descriptors,
         d.kind = n.open[id].kind, Loads(d),
         TotalBytes(n.open) - (n.open[id].in + n.open[id].out) + (d.in + d.out) <= MaxTotalBytes
  PROVE  /\ NetOK([n EXCEPT !.open[id] = d], k)
         /\ \A x, kind : IsOpen([n EXCEPT !.open[id] = d], x, kind) <=> IsOpen(n, x, kind)
<1> DEFINE open == [n.open EXCEPT ![id] = d]
           m == [n EXCEPT !.open = open]
<1>1. /\ n \in Nets(k) /\ n.open \in Opens(k) /\ NetworkAccepts(n.open)
  BY DEF NetOK, Nets
<1>2. /\ open \in Opens(k) /\ NetworkAccepts(open)
      /\ \A kind : OfKind(open, kind) = OfKind(n.open, kind)
  BY <1>1, OpenUpdate
<1>3. m = [n EXCEPT !.open[id] = d]
  OBVIOUS
<1> HIDE DEF open
<1>4. /\ m \in Nets(k) /\ m.open = open /\ m.pending = n.pending
  BY <1>1, <1>2 DEF Nets
<1> HIDE DEF m
<1>5. ASSUME NEW x, NEW kind PROVE IsOpen(m, x, kind) <=> IsOpen(n, x, kind)
  BY <1>2, <1>4 DEF IsOpen, OfKind
<1>6. NetOK(m, k)
  BY <1>2, <1>4, <1>5 DEF NetOK
<1> QED
  BY <1>3, <1>5, <1>6

-----------------------------------------------------------------------------
(* An answer is applied, recorded or replayed. *)

LEMMA NetFields ==
  ASSUME NEW k \in Nat, NEW n, NetOK(n, k)
  PROVE  /\ n \in Nets(k) /\ n.open \in Opens(k) /\ DOMAIN n.open \subseteq 1 .. k
         /\ \A id \in DOMAIN n.open : n.open[id] \in Descriptors /\ Loads(n.open[id])
         /\ n.pending \in Seq(NetEvents) /\ n.tape \in Seq(NetEntries)
         /\ n.status \in Nat /\ n.position \in Nat
         /\ TotalBytes(n.open) \in Nat /\ TotalBytes(n.open) <= MaxTotalBytes
<1>1. /\ n \in Nets(k) /\ n.open \in Opens(k) /\ NetworkAccepts(n.open)
      /\ n.pending \in Seq(NetEvents) /\ n.tape \in Seq(NetEntries)
      /\ n.status \in Nat /\ n.position \in Nat
  BY DEF NetOK, Nets
<1>2. n.open \in [DOMAIN n.open -> Descriptors] /\ DOMAIN n.open \subseteq 1 .. k
  BY <1>1, OpensFacts
<1>3. /\ \A id \in DOMAIN n.open : Loads(n.open[id])
      /\ TotalBytes(n.open) <= MaxTotalBytes
  BY <1>1, AcceptsParts
<1> QED
  BY <1>1, <1>2, <1>3, OpenIsFinite

\* What an answer may do to a descriptor it can be applied to.
LEMMA ReceivedFacts ==
  ASSUME NEW k \in Nat, NEW n, NetOK(n, k), NEW entry \in NetEntries,
         entry.name # "status", CanApply(n, entry)
  PROVE  LET d == n.open[entry.id]
             new == Received(d, entry)
         IN  /\ entry.id \in DOMAIN n.open /\ d.kind = EventKind(entry.name)
             /\ new \in Descriptors /\ new.kind = d.kind /\ Loads(new)
             /\ TotalBytes(n.open) - (d.in + d.out) + (new.in + new.out) <= MaxTotalBytes
<1> DEFINE d == n.open[entry.id]
           new == Received(d, entry)
<1>1. /\ entry.name \in AnswerNames /\ entry.id \in Nat /\ entry.value \in Nat
  BY DEF NetEntries
<1>2. IsOpen(n, entry.id, EventKind(entry.name))
  BY <1>1 DEF CanApply, InState, AnswerNames, EventKind
<1>3. entry.id \in DOMAIN n.open /\ d.kind = EventKind(entry.name)
  BY <1>2 DEF IsOpen
<1>4. d \in Descriptors /\ Loads(d)
  BY <1>3, NetFields
<1>5. TotalBytes(n.open) \in Nat /\ TotalBytes(n.open) <= MaxTotalBytes
  BY NetFields
<1>6. /\ d.in \in Nat /\ d.out \in Nat /\ d.cursor \in Nat
      /\ MaxBufferBytes \in Nat /\ MaxTotalBytes \in Nat
  BY <1>4, NetworkAssumption DEF Descriptors
<1>7. CASE entry.name = "connect"
  <2>1. d.state = "connecting" /\ d.kind = "socket"
    BY <1>7 DEF CanApply, InState, IsOpen
  <2>2. new = [d EXCEPT !.state = IF entry.value = 1 THEN "connected" ELSE "closed"]
    BY <1>7 DEF Received
  <2>3. /\ new \in Descriptors /\ new.kind = d.kind
        /\ new.in = d.in /\ new.out = d.out /\ new.cursor = d.cursor /\ new.local = d.local
    BY <1>4, <2>2 DEF Descriptors
  <2>4. Loads(new)
    BY <1>4, <2>1, <2>3 DEF Loads
  <2> QED
    BY <1>3, <1>5, <1>6, <2>3, <2>4
<1>8. CASE entry.name = "http"
  <2>1. /\ d.state = "connecting" /\ d.kind = "http"
        /\ entry.value <= MaxBufferBytes
        /\ TotalBytes(n.open) - d.in + entry.value <= MaxTotalBytes
    BY <1>1, <1>6, <1>8 DEF CanApply, InState, IsOpen, Fits
  <2>2. new = [d EXCEPT !.state = "connected", !.in = entry.value, !.cursor = 0]
    BY <1>8 DEF Received
  <2>3. /\ new \in Descriptors /\ new.kind = d.kind
        /\ new.in = entry.value /\ new.out = d.out /\ new.cursor = 0 /\ new.state = "connected"
    <3> HIDE DEF d, new
    <3> QED
      BY <1>1, <1>4, <2>2 DEF Descriptors
  <2>4. Loads(new)
    BY <1>1, <1>4, <2>1, <2>3 DEF Loads
  <2> QED
    BY <1>1, <1>3, <1>5, <1>6, <2>1, <2>3, <2>4
<1>9. CASE entry.name \in {"read", "serial"}
  <2>1. /\ d.kind \in {"socket", "serial"} /\ d.state = "connected"
        /\ d.in + entry.value <= MaxBufferBytes
        /\ TotalBytes(n.open) - 0 + entry.value <= MaxTotalBytes
    BY <1>4, <1>9 DEF CanApply, InState, IsOpen, Fits, Loads
  <2>2. new = [d EXCEPT !.in = @ + entry.value]
    BY <1>9 DEF Received
  <2>3. /\ new \in Descriptors /\ new.kind = d.kind /\ new.state = d.state
        /\ new.in = d.in + entry.value /\ new.out = d.out
        /\ new.cursor = d.cursor /\ new.local = d.local
    BY <1>1, <1>4, <1>6, <2>2 DEF Descriptors
  <2>4. Loads(new)
    BY <1>1, <1>4, <1>6, <2>1, <2>3 DEF Loads
  <2> QED
    BY <1>1, <1>3, <1>5, <1>6, <2>1, <2>3, <2>4
<1> QED
  BY <1>1, <1>7, <1>8, <1>9 DEF AnswerNames

LEMMA AppliedFacts ==
  ASSUME NEW k \in Nat, NEW n, NetOK(n, k), NEW entry \in NetEntries
  PROVE  LET result == Apply(n, entry)
         IN  /\ result.ok \in BOOLEAN /\ NetOK(result.net, k)
             /\ ~result.ok => result.net = n
<1> DEFINE result == Apply(n, entry)
<1>1. /\ n \in Nets(k) /\ n.pending \in Seq(NetEvents)
      /\ entry.name \in AnswerNames \cup {"status"} /\ entry.id \in Nat /\ entry.value \in Nat
  BY NetFields DEF NetEntries
<1>2. CASE entry.name = "status"
  <2>1. CASE entry.value < 2
    <3>1. result = [ok |-> TRUE, net |-> [n EXCEPT !.status = entry.value]]
      BY <1>2, <2>1 DEF Apply, StatusApplied
    <3> DEFINE m == [n EXCEPT !.status = entry.value]
    <3>2. m \in Nets(k) /\ m.open = n.open /\ m.pending = n.pending
      BY <1>1 DEF Nets
    <3> HIDE DEF m
    <3>3. NetOK(m, k)
      BY <3>2 DEF NetOK, IsOpen
    <3> QED
      BY <3>1, <3>3 DEF m
  <2>2. CASE ~(entry.value < 2)
    BY <1>2, <2>2 DEF Apply, StatusApplied
  <2> QED
    BY <2>1, <2>2
<1>3. CASE entry.name # "status" /\ ~(CanApply(n, entry) /\ Len(n.pending) < MaxPending)
  BY <1>3 DEF Apply, Applied
<1>4. CASE entry.name # "status" /\ CanApply(n, entry) /\ Len(n.pending) < MaxPending
  <2> DEFINE id == entry.id
             d == Received(n.open[id], entry)
             m == [n EXCEPT !.open[id] = d]
             e == [id |-> id, name |-> entry.name]
             q == [m EXCEPT !.pending = Append(m.pending, e)]
  <2>1. /\ id \in DOMAIN n.open /\ n.open[id].kind = EventKind(entry.name)
        /\ d \in Descriptors /\ d.kind = n.open[id].kind /\ Loads(d)
        /\ TotalBytes(n.open) - (n.open[id].in + n.open[id].out) + (d.in + d.out)
             <= MaxTotalBytes
    BY <1>4, ReceivedFacts
  <2>2. result.ok = TRUE /\ result.net = [n EXCEPT !.open[id] = d, !.pending = Append(@, e)]
    BY <1>4 DEF Apply, Applied
  <2>3. e \in NetEvents
    BY <1>1, <1>4 DEF NetEvents
  <2>4. [n EXCEPT !.open[id] = d, !.pending = Append(@, e)] = q
    BY <1>1 DEF Nets
  <2> HIDE DEF d, e
  <2>5. /\ NetOK(m, k) /\ \A x, kind : IsOpen(m, x, kind) <=> IsOpen(n, x, kind)
    BY <2>1, NetUpdate
  <2>6. IsOpen(m, id, EventKind(entry.name))
    BY <2>1, <2>5 DEF IsOpen
  <2>7. e.id = id /\ e.name = entry.name
    BY DEF e
  <2> HIDE DEF m
  <2>8. /\ m \in Nets(k) /\ m.pending \in Seq(NetEvents)
        /\ NetworkAccepts(m.open)
        /\ \A i \in DOMAIN m.pending : IsOpen(m, m.pending[i].id, EventKind(m.pending[i].name))
    BY <2>5 DEF NetOK, Nets
  <2>9. /\ q \in Nets(k) /\ q.open = m.open /\ q.pending = Append(m.pending, e)
    <3>1. Append(m.pending, e) \in Seq(NetEvents)
      BY <2>3, <2>8
    <3> QED
      BY <2>8, <3>1 DEF Nets
  <2> HIDE DEF q
  <2>10. \A x, kind : IsOpen(q, x, kind) <=> IsOpen(m, x, kind)
    BY <2>9 DEF IsOpen
  <2>11. ASSUME NEW i \in DOMAIN q.pending
         PROVE  IsOpen(m, q.pending[i].id, EventKind(q.pending[i].name))
    <3>1. /\ Len(q.pending) = Len(m.pending) + 1 /\ Len(m.pending) \in Nat
          /\ DOMAIN q.pending = 1 .. Len(m.pending) + 1
          /\ DOMAIN m.pending = 1 .. Len(m.pending)
          /\ q.pending[i] = IF i <= Len(m.pending) THEN m.pending[i] ELSE e
      BY <2>3, <2>8, <2>9
    <3> QED
      BY <2>6, <2>7, <2>8, <3>1
  <2>12. NetOK(q, k)
    BY <2>8, <2>9, <2>10, <2>11 DEF NetOK
  <2> QED
    BY <2>2, <2>4, <2>12
<1> QED
  BY <1>2, <1>3, <1>4

LEMMA AnsweredFacts ==
  ASSUME NEW k \in Nat, NEW n, NetOK(n, k), NEW mode, NEW provided \in NetEntries
  PROVE  LET result == Answered(n, mode, provided)
         IN  /\ result.ok \in BOOLEAN /\ NetOK(result.net, k)
             /\ ~result.ok => result.net = n
<1> DEFINE recorded == n.tape[n.position + 1]
           matches ==
             /\ n.position < Len(n.tape)
             /\ recorded.name = provided.name /\ recorded.id = provided.id
           m == [n EXCEPT !.position = @ + 1]
           applied == IF mode = "playback" THEN Apply(m, recorded) ELSE Apply(n, provided)
           logged == [applied.net EXCEPT !.tape = Append(@, provided)]
           result == Answered(n, mode, provided)
           refusal == [ok |-> FALSE, net |-> n]
<1>1. /\ n \in Nets(k) /\ n.open \in Opens(k) /\ n.tape \in Seq(NetEntries)
      /\ n.position \in Nat /\ NetworkAccepts(n.open)
  BY NetFields DEF NetOK
<1>2. \A after : Rollback(n, after) = n
  BY <1>1 DEF Rollback, Nets
<1>3. NetOK(m, k)
  <2>1. m \in Nets(k) /\ m.open = n.open /\ m.pending = n.pending
    BY <1>1 DEF Nets
  <2> HIDE DEF m
  <2> QED
    BY <2>1 DEF NetOK, IsOpen
<1>4. matches => recorded \in NetEntries
  BY <1>1
<1>5. (mode = "playback" => matches) =>
        applied.ok \in BOOLEAN /\ NetOK(applied.net, k)
  <2> HIDE DEF m, recorded, matches
  <2>1. CASE mode = "playback"
    BY <1>3, <1>4, <2>1, AppliedFacts
  <2>2. CASE mode # "playback"
    BY <2>2, AppliedFacts
  <2> QED
    BY <2>1, <2>2
<1>6. NetOK(applied.net, k) => NetOK(logged, k)
  <2> SUFFICES ASSUME NetOK(applied.net, k) PROVE NetOK(logged, k)
    OBVIOUS
  <2> HIDE DEF applied
  <2> DEFINE a == applied.net
  <2>1. a \in Nets(k) /\ a.tape \in Seq(NetEntries)
    BY NetFields
  <2>2. logged \in Nets(k) /\ logged.open = a.open /\ logged.pending = a.pending
    <3>1. Append(a.tape, provided) \in Seq(NetEntries)
      BY <2>1
    <3> QED
      BY <2>1, <3>1 DEF Nets
  <2>3. NetOK(a, k)
    OBVIOUS
  <2> HIDE DEF a, logged
  <2> QED
    BY <2>2, <2>3 DEF NetOK, IsOpen
<1>7. result =
        CASE mode = "playback" /\ ~matches -> refusal
          [] mode = "record" /\ applied.ok /\ Len(n.tape) < MaxTape -> [ok |-> TRUE, net |-> logged]
          [] mode # "record" /\ applied.ok /\ (mode = "playback" => matches) -> applied
          [] OTHER -> [ok |-> FALSE, net |-> Rollback(n, applied.net)]
  BY DEF Answered
<1> HIDE DEF recorded, matches, m, applied, logged, result
<1>8. CASE mode = "playback" /\ ~matches
  <2>1. result = refusal
    BY <1>7, <1>8
  <2> QED
    BY <2>1 DEF result
<1>9. CASE mode = "record" /\ applied.ok /\ Len(n.tape) < MaxTape
  <2>1. result = [ok |-> TRUE, net |-> logged]
    BY <1>7, <1>9
  <2>2. NetOK(logged, k)
    BY <1>5, <1>6, <1>9
  <2>3. result.ok = TRUE /\ result.net = logged
    BY <2>1
  <2> QED
    BY <2>2, <2>3 DEF result
<1>10. CASE mode # "record" /\ applied.ok /\ (mode = "playback" => matches)
  <2>1. result = applied
    BY <1>7, <1>10
  <2> QED
    BY <1>5, <1>10, <2>1 DEF result
<1>11. CASE ~(mode = "playback" /\ ~matches) /\ ~(mode = "record" /\ applied.ok /\ Len(n.tape) < MaxTape)
            /\ ~(mode # "record" /\ applied.ok /\ (mode = "playback" => matches))
  <2>1. result = [ok |-> FALSE, net |-> n]
    BY <1>2, <1>7, <1>11
  <2> QED
    BY <2>1 DEF result
<1> QED
  BY <1>8, <1>9, <1>10, <1>11

-----------------------------------------------------------------------------
(* Steps. *)

LEMMA LesserOf == ASSUME NEW a \in Nat, NEW b \in Nat
                  PROVE  Min({a, b}) \in {a, b} /\ Min({a, b}) <= a /\ Min({a, b}) <= b
<1>1. \E x \in {a, b} : \A y \in {a, b} : x <= y
  BY a <= b \/ b <= a
<1>2. Min({a, b}) \in {a, b} /\ \A y \in {a, b} : Min({a, b}) <= y
  BY <1>1 DEF Min
<1> QED
  BY <1>2

LEMMA NetworkInitInv == NetworkInit => NetworkInv
<1> SUFFICES ASSUME NetworkInit PROVE NetworkInv
  OBVIOUS
<1> DEFINE none == <<>>
<1>1. /\ net = [open |-> none, pending |-> <<>>, status |-> 0, tape |-> <<>>, position |-> 0]
      /\ descriptors = 0
  BY DEF NetworkInit
<1>2. DOMAIN none = {} /\ none \in Opens(0)
  <2>1. DOMAIN none = {} /\ none \in [DOMAIN none -> Descriptors]
    OBVIOUS
  <2> QED
    BY <2>1, OpensFacts
<1>3. \A kind : OfKind(none, kind) = {}
  BY <1>2 DEF OfKind
<1>4. TotalBytes(none) = 0
  <2> DEFINE w == [id \in DOMAIN none |-> none[id].in + none[id].out]
  <2>1. DOMAIN w = {}
    BY <1>2
  <2> HIDE DEF w
  <2>2. TotalOf(w) = 0
    BY <2>1, TotalOfNothing
  <2> QED
    BY <2>2 DEF w, TotalBytes
<1>5. NetworkAccepts(none)
  <2>1. \A kind \in DescriptorKinds : Cardinality(OfKind(none, kind)) <= MaxOfKind
    <3>1. Cardinality({}) = 0
      BY FS_EmptySet
    <3>2. 0 <= MaxOfKind
      BY NetworkAssumption
    <3> HIDE DEF none
    <3> QED
      BY <1>3, <3>1, <3>2, Zenon
  <2>2. TotalBytes(none) <= MaxTotalBytes
    BY <1>4, NetworkAssumption
  <2>3. \A id \in DOMAIN none : Loads(none[id])
    BY <1>2
  <2> QED
    BY <2>1, <2>2, <2>3, AcceptsParts
<1>6. net \in Nets(0) /\ net.open = none /\ net.pending = <<>>
  BY <1>1, <1>2 DEF Nets
<1> QED
  BY <1>1, <1>5, <1>6 DEF NetworkInv, NetOK

LEMMA OpenStep ==
  ASSUME NetworkInv, NEW kind \in DescriptorKinds, OpenDescriptor(kind)
  PROVE  NetworkInv'
<1> DEFINE x == descriptors + 1
           d == NewDescriptor(kind)
           new == [id \in DOMAIN net.open \cup {x} |-> IF id = x THEN d ELSE net.open[id]]
           w == [id \in DOMAIN net.open |-> net.open[id].in + net.open[id].out]
           v == [id \in DOMAIN new |-> new[id].in + new[id].out]
<1>1. /\ descriptors \in Nat /\ NetOK(net, descriptors) /\ NetworkAccepts(net.open)
      /\ net \in Nets(descriptors) /\ net.open \in Opens(descriptors)
      /\ DOMAIN net.open \subseteq 1 .. descriptors
      /\ \A id \in DOMAIN net.open : net.open[id] \in Descriptors /\ Loads(net.open[id])
      /\ TotalBytes(net.open) \in Nat /\ TotalBytes(net.open) <= MaxTotalBytes
  BY NetFields DEF NetworkInv, NetOK
<1>2. /\ descriptors' = x /\ net' = [net EXCEPT !.open = new]
      /\ Cardinality(OfKind(net.open, kind)) < MaxOfKind
  BY DEF OpenDescriptor, Succeeds, OfKind
<1>3. d \in Descriptors /\ d.kind = kind /\ d.in = 0 /\ d.out = 0 /\ Loads(d)
  BY NetworkAssumption DEF NewDescriptor, Descriptors, DescriptorKinds, Loads
<1>4. x \in Nat /\ x \notin DOMAIN net.open
  BY <1>1
<1>5. /\ DOMAIN new = DOMAIN net.open \cup {x} /\ new[x] = d
      /\ \A id \in DOMAIN net.open : new[id] = net.open[id]
  BY <1>4
<1>6. new \in Opens(x)
  <2>1. DOMAIN new \subseteq 1 .. x
    BY <1>1, <1>5
  <2>2. new \in [DOMAIN new -> Descriptors]
    BY <1>1, <1>3
  <2> HIDE DEF new
  <2> QED
    BY <1>4, <2>1, <2>2, OpensFacts
<1>7. net' \in Nets(x) /\ net'.open = new /\ net'.pending = net.pending
  BY <1>1, <1>2, <1>6 DEF Nets
<1> HIDE DEF new, d, x
<1>8. TotalBytes(new) = TotalBytes(net.open)
  <2>1. IsWeight(v)
    BY <1>4, <1>6, OpenIsFinite
  <2>2. /\ x \in DOMAIN v /\ DOMAIN w = DOMAIN v \ {x} /\ v[x] = 0
        /\ \A y \in DOMAIN w : w[y] = v[y]
    BY <1>3, <1>4, <1>5
  <2>3. TotalBytes(new) = TotalOf(v) /\ TotalBytes(net.open) = TotalOf(w)
    BY DEF TotalBytes
  <2> HIDE DEF v, w
  <2>4. IsWeight(w) /\ TotalOf(v) = TotalOf(w) + v[x]
    BY <2>1, <2>2, TotalSplit
  <2>5. TotalOf(w) \in Nat
    BY <2>4, TotalType
  <2> QED
    BY <2>2, <2>3, <2>4, <2>5
<1>9. ASSUME NEW other \in DescriptorKinds PROVE Cardinality(OfKind(new, other)) <= MaxOfKind
  <2>1. /\ IsFiniteSet(OfKind(net.open, other)) /\ Cardinality(OfKind(net.open, other)) \in Nat
        /\ Cardinality(OfKind(net.open, other)) <= MaxOfKind
    BY <1>1, OpenIsFinite, AcceptsParts
  <2>2. CASE other = kind
    <3>1. OfKind(new, other) = OfKind(net.open, other) \cup {x} /\ x \notin OfKind(net.open, other)
      BY <1>3, <1>4, <1>5, <2>2 DEF OfKind
    <3>2. Cardinality(OfKind(new, other)) = Cardinality(OfKind(net.open, other)) + 1
      BY <2>1, <3>1, FS_AddElement
    <3> QED
      BY <1>2, <2>1, <2>2, <3>2, NetworkAssumption
  <2>3. CASE other # kind
    <3>1. OfKind(new, other) = OfKind(net.open, other)
      BY <1>3, <1>4, <1>5, <2>3 DEF OfKind
    <3> QED
      BY <2>1, <3>1
  <2> QED
    BY <2>2, <2>3
<1>10. NetworkAccepts(new)
  <2>1. \A id \in DOMAIN new : Loads(new[id])
    BY <1>1, <1>3, <1>5
  <2>2. TotalBytes(new) <= MaxTotalBytes
    BY <1>1, <1>8
  <2> QED
    BY <1>9, <2>1, <2>2, AcceptsParts
<1>11. \A id, k : IsOpen(net, id, k) => IsOpen(net', id, k)
  BY <1>4, <1>5, <1>7 DEF IsOpen
<1>12. NetOK(net', x)
  BY <1>1, <1>7, <1>10, <1>11 DEF NetOK
<1> QED
  BY <1>2, <1>4, <1>12 DEF NetworkInv

LEMMA CloseStep ==
  ASSUME NetworkInv, NEW id, Close(id)
  PROVE  NetworkInv'
<1> DEFINE new == [x \in DOMAIN net.open \ {id} |-> net.open[x]]
           K == {i \in DOMAIN net.pending : net.pending[i].id # id}
           left == Pick(net.pending, K)
           w == [x \in DOMAIN net.open |-> net.open[x].in + net.open[x].out]
           v == [x \in DOMAIN new |-> new[x].in + new[x].out]
<1>1. /\ descriptors \in Nat /\ NetOK(net, descriptors) /\ NetworkAccepts(net.open)
      /\ net \in Nets(descriptors) /\ net.open \in Opens(descriptors)
      /\ DOMAIN net.open \subseteq 1 .. descriptors
      /\ \A x \in DOMAIN net.open : net.open[x] \in Descriptors /\ Loads(net.open[x])
      /\ TotalBytes(net.open) \in Nat /\ TotalBytes(net.open) <= MaxTotalBytes
      /\ net.pending \in Seq(NetEvents)
  BY NetFields DEF NetworkInv, NetOK
<1>2. /\ id \in DOMAIN net.open /\ descriptors' = descriptors
      /\ net' = [net EXCEPT !.open = new, !.pending = left]
  BY DEF Close, Succeeds
<1>3. left \in Seq(NetEvents) /\ \A i \in DOMAIN left : \E k \in K : left[i] = net.pending[k]
  <2>1. K \in SUBSET DOMAIN net.pending
    OBVIOUS
  <2> HIDE DEF K
  <2>2. /\ left \in Seq(NetEvents)
        /\ \E pos : Enumerates(pos, left, net.pending, K)
    BY <1>1, <2>1, PickFacts
  <2> HIDE DEF left
  <2>3. DOMAIN left = 1 .. Len(left)
    BY <2>2
  <2> QED
    BY <2>2, <2>3 DEF Enumerates
<1> HIDE DEF left
<1>4. DOMAIN new = DOMAIN net.open \ {id} /\ \A x \in DOMAIN new : new[x] = net.open[x]
  OBVIOUS
<1>5. new \in Opens(descriptors)
  <2>1. DOMAIN new \subseteq 1 .. descriptors /\ new \in [DOMAIN new -> Descriptors]
    BY <1>1
  <2> HIDE DEF new
  <2> QED
    BY <1>1, <2>1, OpensFacts
<1> HIDE DEF new
<1>6. net' \in Nets(descriptors) /\ net'.open = new /\ net'.pending = left
  BY <1>1, <1>2, <1>3, <1>5 DEF Nets
<1>7. TotalBytes(new) <= TotalBytes(net.open)
  <2>1. IsWeight(w)
    BY <1>1, OpenIsFinite
  <2>2. /\ id \in DOMAIN w /\ DOMAIN v = DOMAIN w \ {id}
        /\ \A y \in DOMAIN v : v[y] = w[y]
    BY <1>2, <1>4
  <2>3. TotalBytes(new) = TotalOf(v) /\ TotalBytes(net.open) = TotalOf(w)
    BY DEF TotalBytes
  <2> HIDE DEF v, w
  <2>4. IsWeight(v) /\ TotalOf(w) = TotalOf(v) + w[id]
    BY <2>1, <2>2, TotalSplit
  <2>5. TotalOf(v) \in Nat /\ w[id] \in Nat
    BY <2>1, <2>2, <2>4, TotalType DEF IsWeight
  <2> QED
    BY <2>3, <2>4, <2>5
<1>8. ASSUME NEW kind \in DescriptorKinds PROVE Cardinality(OfKind(new, kind)) <= MaxOfKind
  <2>1. OfKind(new, kind) \in SUBSET OfKind(net.open, kind)
    BY <1>4 DEF OfKind
  <2>2. /\ IsFiniteSet(OfKind(net.open, kind)) /\ Cardinality(OfKind(net.open, kind)) \in Nat
        /\ Cardinality(OfKind(net.open, kind)) <= MaxOfKind
    BY <1>1, OpenIsFinite, AcceptsParts
  <2>3. /\ Cardinality(OfKind(new, kind)) <= Cardinality(OfKind(net.open, kind))
        /\ Cardinality(OfKind(new, kind)) \in Nat
    BY <2>1, <2>2, FS_Subset, FS_CardinalityType
  <2> QED
    BY <2>2, <2>3, NetworkAssumption
<1>9. NetworkAccepts(new)
  <2>1. TotalBytes(new) \in Nat
    BY <1>1, <1>5, OpenIsFinite
  <2>2. TotalBytes(new) <= MaxTotalBytes
    BY <1>1, <1>7, <2>1, NetworkAssumption
  <2> QED
    BY <1>1, <1>4, <1>8, <2>2, AcceptsParts
<1>10. ASSUME NEW i \in DOMAIN left
       PROVE  IsOpen(net', left[i].id, EventKind(left[i].name))
  <2>1. PICK k \in K : left[i] = net.pending[k]
    BY <1>3
  <2>2. net.pending[k].id # id /\ IsOpen(net, net.pending[k].id, EventKind(net.pending[k].name))
    BY <1>1 DEF NetOK
  <2> QED
    BY <1>4, <1>6, <2>1, <2>2 DEF IsOpen
<1>11. NetOK(net', descriptors)
  BY <1>6, <1>9, <1>10 DEF NetOK
<1> QED
  BY <1>1, <1>2, <1>11 DEF NetworkInv

LEMMA TakeEventStep == ASSUME NetworkInv, TakeEvent PROVE NetworkInv'
<1>1. /\ descriptors \in Nat /\ NetOK(net, descriptors)
      /\ net \in Nets(descriptors) /\ net.pending \in Seq(NetEvents)
  BY NetFields DEF NetworkInv
<1>2. /\ net.pending # <<>> /\ net' = [net EXCEPT !.pending = Tail(net.pending)]
      /\ descriptors' = descriptors
  BY DEF TakeEvent, Succeeds
<1>3. Tail(net.pending) \in Seq(NetEvents)
  BY <1>1, <1>2
<1>4. net' \in Nets(descriptors) /\ net'.open = net.open /\ net'.pending = Tail(net.pending)
  BY <1>1, <1>2, <1>3 DEF Nets
<1>5. \A i \in DOMAIN Tail(net.pending) :
        i + 1 \in DOMAIN net.pending /\ Tail(net.pending)[i] = net.pending[i + 1]
  BY <1>1, <1>2
<1>6. NetOK(net', descriptors)
  BY <1>1, <1>4, <1>5 DEF NetOK, IsOpen
<1> QED
  BY <1>1, <1>2, <1>6 DEF NetworkInv

\* A call that changes one descriptor.
LEMMA OneDescriptorStep ==
  ASSUME NetworkInv, NEW id \in DOMAIN net.open, NEW d \in Descriptors,
         d.kind = net.open[id].kind, Loads(d),
         TotalBytes(net.open) - (net.open[id].in + net.open[id].out) + (d.in + d.out)
           <= MaxTotalBytes,
         net' = [net EXCEPT !.open[id] = d], UNCHANGED descriptors
  PROVE  NetworkInv'
<1>1. descriptors \in Nat /\ NetOK(net, descriptors)
  BY DEF NetworkInv
<1>2. NetOK(net', descriptors)
  BY <1>1, NetUpdate
<1> QED
  BY <1>1, <1>2 DEF NetworkInv

\* The guest's calls on one open descriptor.
LEMMA GuestCallStep ==
  ASSUME NetworkInv, NEW id,
         \/ \E local \in BOOLEAN : BindSocket(id, local) \/ ConnectSocket(id, local)
         \/ BeginHTTP(id)
         \/ \E size \in Sizes :
              \/ ConsumeSocketWritten(id, size)
              \/ SetHTTPRequest(id, size)
              \/ SerialWrite(id, size)
              \/ ReadBuffer(id, size)
              \/ HTTPRead(id, size)
  PROVE  NetworkInv'
<1> DEFINE d == net.open[id]
           total == TotalBytes(net.open)
<1>1. /\ id \in DOMAIN net.open /\ UNCHANGED descriptors
  BY DEF BindSocket, ConnectSocket, BeginHTTP, ConsumeSocketWritten, SetHTTPRequest,
         SerialWrite, ReadBuffer, HTTPRead, InState, IsOpen
<1>2. /\ net \in Nets(descriptors)
      /\ d \in Descriptors /\ Loads(d)
      /\ total \in Nat /\ total <= MaxTotalBytes
  BY <1>1, NetFields DEF NetworkInv
<1>3. /\ d.in \in Nat /\ d.out \in Nat /\ d.cursor \in Nat /\ d.local \in BOOLEAN
      /\ MaxBufferBytes \in Nat /\ MaxTotalBytes \in Nat
      /\ \A size \in Sizes : size \in Nat
  BY <1>2, NetworkAssumption DEF Descriptors, Sizes
<1> DEFINE Done(e) == net' = [net EXCEPT !.open[id] = e]
<1>4. ASSUME NEW e, e \in Descriptors, e.kind = d.kind, Loads(e),
             e.in + e.out <= d.in + d.out \/ total - (d.in + d.out) + (e.in + e.out) <= MaxTotalBytes,
             Done(e)
      PROVE  NetworkInv'
  <2>1. e.in \in Nat /\ e.out \in Nat
    BY <1>4 DEF Descriptors
  <2>2. total - (d.in + d.out) + (e.in + e.out) <= MaxTotalBytes
    BY <1>2, <1>3, <1>4, <2>1
  <2> QED
    BY <1>1, <1>4, <2>2, OneDescriptorStep
<1>5. ASSUME NEW local \in BOOLEAN, BindSocket(id, local) \/ ConnectSocket(id, local)
      PROVE  NetworkInv'
  <2>1. PICK state \in {"bound", "connecting"} :
          net' = [net EXCEPT !.open[id].state = state, !.open[id].local = local]
    BY <1>5 DEF BindSocket, ConnectSocket, Succeeds
  <2> DEFINE e == [d EXCEPT !.state = state, !.local = local]
  <2>2. d.kind = "socket" /\ d.state # "connected"
    BY <1>5 DEF BindSocket, ConnectSocket, InState, IsOpen
  <2>3. Done(e)
    BY <1>1, <1>2, <2>1 DEF Nets
  <2>4. /\ e \in Descriptors /\ e.kind = d.kind /\ e.in = d.in /\ e.out = d.out
        /\ e.cursor = d.cursor /\ e.state = state /\ e.local = local
    BY <1>2, <2>1 DEF Descriptors
  <2> HIDE DEF e, Done, d
  <2>5. Loads(e)
    BY <1>2, <1>3, <2>2, <2>4 DEF Loads
  <2> QED
    BY <1>3, <1>4, <2>3, <2>4, <2>5
<1>6. ASSUME BeginHTTP(id) PROVE NetworkInv'
  <2> DEFINE e == [d EXCEPT !.state = "connecting"]
  <2>1. d.kind = "http" /\ d.state = "new" /\ Done(e)
    BY <1>6 DEF BeginHTTP, InState, IsOpen, Succeeds
  <2>2. /\ e \in Descriptors /\ e.kind = d.kind /\ e.in = d.in /\ e.out = d.out
        /\ e.cursor = d.cursor /\ e.state = "connecting" /\ e.local = d.local
    BY <1>2 DEF Descriptors
  <2> HIDE DEF e, Done, d
  <2>3. Loads(e)
    BY <1>2, <1>3, <2>1, <2>2 DEF Loads
  <2> QED
    BY <1>3, <1>4, <2>1, <2>2, <2>3
<1>7. ASSUME NEW size \in Sizes, ConsumeSocketWritten(id, size) PROVE NetworkInv'
  <2> DEFINE e == [d EXCEPT !.out = @ - size, !.cursor = IF @ >= size THEN @ - size ELSE 0]
  <2>1. d.kind = "socket" /\ size \in 1 .. d.out
    BY <1>7 DEF ConsumeSocketWritten, IsOpen
  <2>2. Done(e)
    <3>1. net' = [net EXCEPT !.open[id].out = @ - size,
                             !.open[id].cursor = IF @ >= size THEN @ - size ELSE 0]
      BY <1>7 DEF ConsumeSocketWritten, Succeeds
    <3> QED
      BY <1>1, <1>2, <3>1 DEF Nets, Descriptors
  <2>3. d.out - size \in Nat /\ (IF d.cursor >= size THEN d.cursor - size ELSE 0) \in Nat
    BY <1>3, <2>1
  <2>4. /\ e \in Descriptors /\ e.kind = d.kind /\ e.in = d.in /\ e.out = d.out - size
        /\ e.cursor = (IF d.cursor >= size THEN d.cursor - size ELSE 0)
        /\ e.state = d.state /\ e.local = d.local
    BY <1>2, <2>3 DEF Descriptors
  <2> HIDE DEF e, Done, d
  <2>5. Loads(e)
    BY <1>2, <1>3, <2>1, <2>3, <2>4 DEF Loads
  <2>6. e.in + e.out <= d.in + d.out
    BY <1>3, <2>1, <2>4
  <2> QED
    BY <1>4, <2>2, <2>4, <2>5, <2>6
<1>8. ASSUME NEW size \in Sizes, SetHTTPRequest(id, size) PROVE NetworkInv'
  <2> DEFINE e == [d EXCEPT !.out = size]
  <2>1. /\ d.kind = "http" /\ d.state = "new" /\ Done(e)
        /\ 0 + size <= MaxBufferBytes /\ total - d.out + size <= MaxTotalBytes
    BY <1>8 DEF SetHTTPRequest, InState, IsOpen, Succeeds, Fits
  <2>2. /\ e \in Descriptors /\ e.kind = d.kind /\ e.in = d.in /\ e.out = size
        /\ e.cursor = d.cursor /\ e.state = d.state /\ e.local = d.local
    BY <1>2, <1>3 DEF Descriptors
  <2> HIDE DEF e, Done, d, total
  <2>3. Loads(e)
    BY <1>2, <1>3, <2>1, <2>2 DEF Loads
  <2>4. total - (d.in + d.out) + (e.in + e.out) <= MaxTotalBytes
    BY <1>2, <1>3, <2>1, <2>2
  <2> QED
    BY <1>4, <2>1, <2>2, <2>3, <2>4
<1>9. ASSUME NEW size \in Sizes, SerialWrite(id, size) PROVE NetworkInv'
  <2> DEFINE e == [d EXCEPT !.out = @ + size]
  <2>1. /\ d.kind = "serial" /\ Done(e)
        /\ d.out + size <= MaxBufferBytes /\ total - 0 + size <= MaxTotalBytes
    BY <1>9 DEF SerialWrite, IsOpen, Succeeds, Fits
  <2>2. /\ e \in Descriptors /\ e.kind = d.kind /\ e.in = d.in /\ e.out = d.out + size
        /\ e.cursor = d.cursor /\ e.state = d.state /\ e.local = d.local
    BY <1>2, <1>3 DEF Descriptors
  <2> HIDE DEF e, Done, d, total
  <2>3. Loads(e)
    BY <1>2, <1>3, <2>1, <2>2 DEF Loads
  <2>4. total - (d.in + d.out) + (e.in + e.out) <= MaxTotalBytes
    BY <1>2, <1>3, <2>1, <2>2
  <2> QED
    BY <1>4, <2>1, <2>2, <2>3, <2>4
<1>10. ASSUME NEW size \in Sizes, ReadBuffer(id, size) PROVE NetworkInv'
  <2> DEFINE read == Min({size, d.in})
             e == [d EXCEPT !.in = @ - read]
  <2>1. d.kind \in {"socket", "serial"} /\ Done(e)
    BY <1>10 DEF ReadBuffer, IsOpen, Succeeds
  <2>2. read \in Nat /\ read <= d.in
    BY <1>3, LesserOf
  <2> HIDE DEF read
  <2>3. /\ e \in Descriptors /\ e.kind = d.kind /\ e.in = d.in - read /\ e.out = d.out
        /\ e.cursor = d.cursor /\ e.state = d.state /\ e.local = d.local
    BY <1>2, <1>3, <2>2 DEF Descriptors
  <2> HIDE DEF e, Done, d
  <2>4. Loads(e)
    BY <1>2, <1>3, <2>1, <2>2, <2>3 DEF Loads
  <2>5. e.in + e.out <= d.in + d.out
    BY <1>3, <2>2, <2>3
  <2> QED
    BY <1>4, <2>1, <2>3, <2>4, <2>5
<1>11. ASSUME NEW size \in Sizes, HTTPRead(id, size) PROVE NetworkInv'
  <2> DEFINE read == Min({size, d.in - d.cursor})
             e == [d EXCEPT !.cursor = @ + read]
  <2>1. d.kind = "http" /\ d.state = "connected" /\ Done(e)
    BY <1>11 DEF HTTPRead, InState, IsOpen, Succeeds
  <2>2. d.in - d.cursor \in Nat
    BY <1>2, <1>3, <2>1 DEF Loads
  <2>3. read \in Nat /\ read <= d.in - d.cursor
    BY <1>3, <2>2, LesserOf
  <2> HIDE DEF read
  <2>4. /\ e \in Descriptors /\ e.kind = d.kind /\ e.in = d.in /\ e.out = d.out
        /\ e.cursor = d.cursor + read /\ e.state = d.state /\ e.local = d.local
    BY <1>2, <1>3, <2>3 DEF Descriptors
  <2> HIDE DEF e, Done, d
  <2>5. Loads(e)
    BY <1>2, <1>3, <2>1, <2>3, <2>4 DEF Loads
  <2> QED
    BY <1>3, <1>4, <2>1, <2>4, <2>5
<1> HIDE DEF d, total, Done
<1> QED
  BY <1>5, <1>6, <1>7, <1>8, <1>9, <1>10, <1>11

\* An answer of the host: accepted, or refused without a trace.
LEMMA AnswerStep ==
  ASSUME NetworkInv, NEW provided \in NetEntries, Ends(Answered(net, replayMode, provided))
  PROVE  NetworkInv' /\ (refused' => net' = net)
<1>1. descriptors \in Nat /\ NetOK(net, descriptors) /\ descriptors' = descriptors
  BY DEF NetworkInv, Ends
<1>2. LET result == Answered(net, replayMode, provided)
      IN  /\ result.ok \in BOOLEAN /\ NetOK(result.net, descriptors)
          /\ ~result.ok => result.net = net
  BY <1>1, AnsweredFacts
<1> QED
  BY <1>1, <1>2 DEF NetworkInv, Ends

\* The undo of a write does not depend on what was written and parsed.
LEMMA UndoFacts ==
  ASSUME NEW k \in Nat, NEW n \in Nets(k), NEW id \in DOMAIN n.open, NEW d, NEW before,
         NEW m, m = [n EXCEPT !.open[id] = d]
  PROVE  /\ UndoWrite(m, id, before) = UndoWrite(n, id, before)
         /\ UndoWrite(n, id, n.open[id]) = n
<1>1. n.open \in [DOMAIN n.open -> Descriptors]
  BY OpensFacts DEF Nets
<1> DEFINE a == [n.open EXCEPT ![id] = d]
           b == [n.open EXCEPT ![id] = before]
<1>2. m = [n EXCEPT !.open = a] /\ m.open = a
  BY DEF Nets
<1>3. [a EXCEPT ![id] = before] = b /\ [n.open EXCEPT ![id] = n.open[id]] = n.open
  BY <1>1
<1> HIDE DEF a, b
<1>4. [m EXCEPT !.open = b] = [n EXCEPT !.open = b] /\ [n EXCEPT !.open = n.open] = n
  BY <1>2 DEF Nets
<1>5. /\ UndoWrite(m, id, before) = [m EXCEPT !.open = [m.open EXCEPT ![id] = before]]
      /\ UndoWrite(n, id, before) = [n EXCEPT !.open = b]
      /\ UndoWrite(n, id, n.open[id]) = [n EXCEPT !.open = [n.open EXCEPT ![id] = n.open[id]]]
  BY DEF UndoWrite, b
<1> QED
  BY <1>2, <1>3, <1>4, <1>5, Zenon

LEMMA WriteStep ==
  ASSUME NetworkInv, NEW id, NEW size \in Sizes, WriteSocketRequest(id, size)
  PROVE  NetworkInv' /\ (refused' => net' = net)
<1> DEFINE before == net.open[id]
           d == [before EXCEPT !.out = @ + size]
           written == [net EXCEPT !.open[id].out = @ + size]
<1>1. /\ id \in DOMAIN net.open /\ before.kind = "socket" /\ before.state = "connected"
      /\ before.out + size <= MaxBufferBytes
      /\ TotalBytes(net.open) - 0 + size <= MaxTotalBytes
  BY DEF WriteSocketRequest, InState, IsOpen, Fits
<1>2. /\ descriptors \in Nat /\ NetOK(net, descriptors) /\ net \in Nets(descriptors)
      /\ before \in Descriptors /\ Loads(before)
      /\ TotalBytes(net.open) \in Nat /\ TotalBytes(net.open) <= MaxTotalBytes
  BY <1>1, NetFields DEF NetworkInv
<1>3. /\ before.in \in Nat /\ before.out \in Nat /\ before.cursor \in Nat
      /\ MaxBufferBytes \in Nat /\ MaxTotalBytes \in Nat /\ size \in Nat
  BY <1>2, NetworkAssumption DEF Descriptors, Sizes
<1>4. written = [net EXCEPT !.open[id] = d]
  OBVIOUS
<1>5. /\ d \in Descriptors /\ d.kind = "socket" /\ d.state = "connected" /\ d.in = before.in
      /\ d.out = before.out + size /\ d.cursor = before.cursor /\ d.local = before.local
  BY <1>1, <1>2, <1>3 DEF Descriptors
<1>6. written.open[id] = d /\ id \in DOMAIN written.open
  BY <1>1, <1>2, <1>4 DEF Nets
<1> HIDE DEF d
<1>7. Loads(d)
  BY <1>1, <1>2, <1>3, <1>5 DEF Loads
<1>8. NetOK(written, descriptors)
  <2>1. TotalBytes(net.open) - (before.in + before.out) + (d.in + d.out) <= MaxTotalBytes
    BY <1>1, <1>2, <1>3, <1>5
  <2> QED
    BY <1>1, <1>2, <1>4, <1>5, <1>7, <2>1, NetUpdate
<1>9. UndoWrite(written, id, before) = net
  <2>1. /\ descriptors \in Nat /\ net \in Nets(descriptors) /\ id \in DOMAIN net.open
        /\ written = [net EXCEPT !.open[id] = d]
    BY <1>1, <1>2, <1>4
  <2> HIDE DEF written
  <2>2. UndoWrite(written, id, net.open[id]) = UndoWrite(net, id, net.open[id])
        /\ UndoWrite(net, id, net.open[id]) = net
    BY <2>1, UndoFacts
  <2> QED
    BY <2>2
<1> HIDE DEF written
<1>10. ASSUME NEW cursor \in before.cursor .. before.out + size, before.local
       PROVE  LET parsed == [written EXCEPT !.open[id].cursor = cursor]
              IN  NetOK(parsed, descriptors) /\ UndoWrite(parsed, id, before) = net
  <2> DEFINE e == [d EXCEPT !.cursor = cursor]
             parsed == [written EXCEPT !.open[id] = e]
  <2>1. parsed = [written EXCEPT !.open[id].cursor = cursor]
    BY <1>6
  <2>2. /\ e \in Descriptors /\ e.kind = d.kind /\ e.state = d.state /\ e.in = d.in
        /\ e.out = d.out /\ e.cursor = cursor /\ e.local = d.local /\ cursor \in Nat
    BY <1>3, <1>5 DEF Descriptors
  <2>3. UndoWrite(parsed, id, before) = net
    <3>1. /\ descriptors \in Nat /\ written \in Nets(descriptors) /\ id \in DOMAIN written.open
          /\ parsed = [written EXCEPT !.open[id] = e]
      BY <1>2, <1>6, <1>8 DEF NetOK
    <3> HIDE DEF parsed, e
    <3>2. UndoWrite(parsed, id, before) = UndoWrite(written, id, before)
      BY <3>1, UndoFacts
    <3> QED
      BY <1>9, <3>2
  <2> HIDE DEF e
  <2>4. Loads(e)
    BY <1>3, <1>5, <1>7, <1>10, <2>2 DEF Loads
  <2>5. TotalBytes(written.open) - (d.in + d.out) + (e.in + e.out) <= MaxTotalBytes
    <3>1. TotalBytes(written.open) \in Nat /\ TotalBytes(written.open) <= MaxTotalBytes
      BY <1>2, <1>8, NetFields
    <3> QED
      BY <1>3, <1>5, <2>2, <3>1
  <2>6. NetOK(parsed, descriptors)
    BY <1>2, <1>6, <1>8, <2>2, <2>4, <2>5, NetUpdate
  <2> QED
    BY <2>1, <2>3, <2>6
<1>11. CASE Ends([ok |-> TRUE, net |-> written])
  BY <1>2, <1>8, <1>11 DEF Ends, NetworkInv
<1>12. CASE Ends([ok |-> FALSE, net |-> UndoWrite(written, id, before)])
  BY <1>2, <1>9, <1>12 DEF Ends, NetworkInv
<1>13. ASSUME before.local, NEW cursor \in before.cursor .. before.out + size,
              Ends([ok |-> TRUE, net |-> [written EXCEPT !.open[id].cursor = cursor]])
       PROVE  NetworkInv' /\ (refused' => net' = net)
  BY <1>2, <1>10, <1>13 DEF Ends, NetworkInv
<1>14. ASSUME before.local, NEW cursor \in before.cursor .. before.out + size,
              NEW reply \in 1 .. MaxBufferBytes - before.in,
              LET parsed == [written EXCEPT !.open[id].cursor = cursor]
                  result == Answered(parsed, replayMode,
                              [name |-> "read", id |-> id, value |-> reply])
              IN  Ends(IF result.ok THEN result
                       ELSE [ok |-> FALSE, net |-> UndoWrite(result.net, id, before)])
       PROVE  NetworkInv' /\ (refused' => net' = net)
  <2> DEFINE parsed == [written EXCEPT !.open[id].cursor = cursor]
             entry == [name |-> "read", id |-> id, value |-> reply]
             result == Answered(parsed, replayMode, entry)
  <2>1. NetOK(parsed, descriptors) /\ UndoWrite(parsed, id, before) = net
    BY <1>10, <1>14
  <2>2. id \in Nat
    BY <1>1, <1>2, NetFields
  <2>3. entry \in NetEntries
    BY <1>3, <2>2 DEF NetEntries, AnswerNames
  <2>4. Ends(IF result.ok THEN result
             ELSE [ok |-> FALSE, net |-> UndoWrite(result.net, id, before)])
    BY <1>14
  <2> HIDE DEF parsed, entry
  <2>5. /\ result.ok \in BOOLEAN /\ NetOK(result.net, descriptors)
        /\ ~result.ok => result.net = parsed
    BY <1>2, <2>1, <2>3, AnsweredFacts
  <2> HIDE DEF result
  <2>6. CASE result.ok
    BY <1>2, <2>4, <2>5, <2>6 DEF Ends, NetworkInv
  <2>7. CASE ~result.ok
    BY <1>2, <2>1, <2>4, <2>5, <2>7 DEF Ends, NetworkInv
  <2> QED
    BY <2>6, <2>7
<1> QED
  BY <1>11, <1>12, <1>13, <1>14 DEF WriteSocketRequest, written

LEMMA NetworkStep ==
  ASSUME NetworkInv, [NetworkNext]_netVars
  PROVE  NetworkInv' /\ (refused' => net' = net)
<1>1. CASE UNCHANGED netVars
  BY <1>1 DEF netVars, NetworkInv
<1>2. ASSUME NEW kind \in DescriptorKinds, OpenDescriptor(kind)
      PROVE  NetworkInv' /\ (refused' => net' = net)
  BY <1>2, OpenStep DEF OpenDescriptor, Succeeds
<1>3. ASSUME NEW id \in 1 .. descriptors, NEW local \in BOOLEAN,
             BindSocket(id, local) \/ ConnectSocket(id, local)
      PROVE  NetworkInv' /\ (refused' => net' = net)
  <2>1. ~refused'
    BY <1>3 DEF BindSocket, ConnectSocket, Succeeds
  <2> QED
    BY <1>3, <2>1, GuestCallStep
<1>4. ASSUME NEW id \in 1 .. descriptors, BeginHTTP(id)
      PROVE  NetworkInv' /\ (refused' => net' = net)
  <2>1. ~refused'
    BY <1>4 DEF BeginHTTP, Succeeds
  <2> QED
    BY <1>4, <2>1, GuestCallStep
<1>5. ASSUME NEW id \in 1 .. descriptors, Close(id)
      PROVE  NetworkInv' /\ (refused' => net' = net)
  BY <1>5, CloseStep DEF Close, Succeeds
<1>6. ASSUME NEW id \in 1 .. descriptors, NEW size \in Sizes,
             \/ ConsumeSocketWritten(id, size) \/ SetHTTPRequest(id, size)
             \/ SerialWrite(id, size) \/ ReadBuffer(id, size) \/ HTTPRead(id, size)
      PROVE  NetworkInv' /\ (refused' => net' = net)
  <2>1. ~refused'
    BY <1>6 DEF ConsumeSocketWritten, SetHTTPRequest, SerialWrite, ReadBuffer, HTTPRead, Succeeds
  <2> QED
    BY <1>6, <2>1, GuestCallStep
<1>7. ASSUME NEW id \in 1 .. descriptors, NEW size \in Sizes, WriteSocketRequest(id, size)
      PROVE  NetworkInv' /\ (refused' => net' = net)
  BY <1>7, WriteStep
<1>8. ASSUME NEW id \in 1 .. descriptors, NEW name \in AnswerNames, NEW value \in Sizes \cup {0},
             Answer(name, id, value)
      PROVE  NetworkInv' /\ (refused' => net' = net)
  <2>1. [name |-> name, id |-> id, value |-> value] \in NetEntries
    BY NetworkAssumption DEF NetEntries, Sizes, NetworkInv
  <2> QED
    BY <1>8, <2>1, AnswerStep DEF Answer
<1>9. CASE TakeEvent
  BY <1>9, TakeEventStep DEF TakeEvent, Succeeds
<1>10. ASSUME NEW value \in 0 .. 2, UpdateDeviceStatus(value)
       PROVE  NetworkInv' /\ (refused' => net' = net)
  <2>1. [name |-> "status", id |-> 0, value |-> value] \in NetEntries
    BY DEF NetEntries
  <2> QED
    BY <1>10, <2>1, AnswerStep DEF UpdateDeviceStatus
<1>11. ASSUME NEW mode \in ReplayModes, SetMode(mode)
       PROVE  NetworkInv' /\ (refused' => net' = net)
  BY <1>11 DEF SetMode, NetworkInv
<1> QED
  BY <1>1, <1>2, <1>3, <1>4, <1>5, <1>6, <1>7, <1>8, <1>9, <1>10, <1>11, Zenon DEF NetworkNext

\* The descriptors can be saved at any time, whatever the host answered, and
\* the guest closed, in whatever order.
THEOREM NetworkInvariance == NetworkSpec => []NetworkInv
<1>1. NetworkInv /\ [NetworkNext]_netVars => NetworkInv'
  BY NetworkStep
<1> QED
  BY <1>1, NetworkInitInv, PTL DEF NetworkSpec

\* Every snapshot of the network is one that its Restore accepts, and every event
\* that waits is about a descriptor that is open.
THEOREM NetworkAlwaysLoads == NetworkSpec => []NetworkSnapshotLoads
<1>1. NetworkInv => NetworkSnapshotLoads
  BY DEF NetworkInv, NetOK, NetworkSnapshotLoads, EventKind
<1> QED
  BY <1>1, NetworkInvariance, PTL

\* A call that fails on the way leaves nothing behind: not an answer that did
\* not fit on the bus or in the log, not a write whose reply did not.
THEOREM RefusalIsUndone == NetworkSpec => RefusedCallsLeaveNoTrace
<1>1. NetworkInv /\ [NetworkNext]_netVars => [refused' => net' = net]_netVars
  BY NetworkStep
<1> QED
  BY <1>1, NetworkInvariance, PTL DEF NetworkSpec, RefusedCallsLeaveNoTrace
=============================================================================
