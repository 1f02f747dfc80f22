------------------------------ MODULE Registry ------------------------------
(***************************************************************************)
(* The shared service-object registry (runtime/registry.go).  Every timer, *)
(* clip, socket, file or surface that guest code can name is a slot of     *)
(* this registry; a service ID is the slot and the slot's generation, and  *)
(* a generation grows each time the slot is handed out again.              *)
(*                                                                         *)
(* MaxUint32 stands for ^uint32(0): the width of slots, generations and    *)
(* retain counts.  An operation that returns an error changes nothing, so  *)
(* it is no step.                                                          *)
(***************************************************************************)
EXTENDS Naturals, Sequences

CONSTANTS Owners, Kinds, Limit, MaxUint32

ASSUME RegistryAssumption ==
  /\ Limit \in Nat \ {0}
  /\ MaxUint32 \in Nat \ {0}
  /\ Limit <= MaxUint32

VARIABLES
  nextSlot,     \* the lowest slot that was never handed out
  generations,  \* slot -> its last generation; 0 when the slot was never used
  entries,      \* slot -> the live entry, or NoEntry
  free,         \* the slots without an entry, in the order they are tried
  issued        \* history: every ID Create has returned

registry == <<nextSlot, generations, entries, free>>
vars == <<nextSlot, generations, entries, free, issued>>

Slots == 1 .. Limit
ServiceIDs == [slot : Slots, generation : 1 .. MaxUint32]

\* The live part of a registryEntry.  The entry's own ID is its slot and the
\* slot's generation at the time of Create.
Entries == [id : ServiceIDs, kind : Kinds, owner : Owners, refs : 1 .. MaxUint32]
NoEntry == [refs |-> 0]

Active == {slot \in Slots : entries[slot] # NoEntry}

\* lookup succeeds exactly for these IDs.
Live(id) == entries[id.slot] # NoEntry /\ entries[id.slot].id = id

\* Registry.Validate with a kind; the empty kind is Live /\ owner.
Validates(id, owner, kind) ==
  Live(id) /\ entries[id.slot].kind = kind /\ entries[id.slot].owner = owner

-----------------------------------------------------------------------------
(* The free list: the copy calls of Create and insertFree, on sequences.   *)

RemoveIndex(s, i) ==
  [k \in 1 .. Len(s) - 1 |-> IF k < i THEN s[k] ELSE s[k + 1]]

\* sort.Search: i is the first index whose element is at least slot, or the
\* index past the end.
SearchFree(i, slot) ==
  /\ i <= Len(free) => free[i] >= slot
  /\ \A j \in 1 .. i - 1 : free[j] < slot

\* Mutant: the released slot is appended without looking for its place.
InsertFreeAtEnd(slot) == free' = Append(free, slot)

InsertFree(slot) ==
  \E i \in 1 .. Len(free) + 1 :
    /\ SearchFree(i, slot)
    /\ free' = IF i <= Len(free) /\ free[i] = slot
                 THEN free
                 ELSE [k \in 1 .. Len(free) + 1 |->
                         IF k < i THEN free[k] ELSE IF k = i THEN slot ELSE free[k - 1]]

-----------------------------------------------------------------------------
Init ==
  /\ nextSlot = 1
  /\ generations = [slot \in Slots |-> 0]
  /\ entries = [slot \in Slots |-> NoEntry]
  /\ free = <<>>
  /\ issued = {}

\* Free slots whose generation is not exhausted.
Reusable == {i \in DOMAIN free : generations[free[i]] # MaxUint32}

\* Mutant: a reused slot keeps its generation.
AllocateSameGeneration(slot, owner, kind) ==
  LET id == [slot |-> slot,
             generation |-> IF generations[slot] = 0 THEN 1 ELSE generations[slot]]
  IN  /\ generations' = [generations EXCEPT ![slot] = id.generation]
      /\ entries' = [entries EXCEPT ![slot] =
                       [id |-> id, kind |-> kind, owner |-> owner, refs |-> 1]]
      /\ issued' = issued \cup {id}

\* The common tail of Create: bump the generation, install the entry.
Allocate(slot, owner, kind) ==
  LET id == [slot |-> slot, generation |-> generations[slot] + 1]
  IN  /\ generations' = [generations EXCEPT ![slot] = id.generation]
      /\ entries' = [entries EXCEPT ![slot] =
                       [id |-> id, kind |-> kind, owner |-> owner, refs |-> 1]]
      /\ issued' = issued \cup {id}

Create(owner, kind) ==
  /\ Active # Slots
  /\ \/ \E i \in Reusable :
          /\ \A j \in Reusable : i <= j
          /\ Allocate(free[i], owner, kind)
          /\ free' = RemoveIndex(free, i)
          /\ UNCHANGED nextSlot
     \/ /\ Reusable = {}
        /\ nextSlot # MaxUint32 /\ nextSlot <= Limit
        /\ Allocate(nextSlot, owner, kind)
        /\ nextSlot' = nextSlot + 1
        /\ UNCHANGED free

Transfer(id, from, to) ==
  /\ Live(id) /\ entries[id.slot].owner = from
  /\ entries' = [entries EXCEPT ![id.slot].owner = to]
  /\ UNCHANGED <<nextSlot, generations, free, issued>>

Retain(id) ==
  /\ Live(id) /\ entries[id.slot].refs # MaxUint32
  /\ entries' = [entries EXCEPT ![id.slot].refs = @ + 1]
  /\ UNCHANGED <<nextSlot, generations, free, issued>>

\* delete(entries) and insertFree, shared by the last Release and Destroy.
Remove(id) ==
  /\ entries' = [entries EXCEPT ![id.slot] = NoEntry]
  /\ InsertFree(id.slot)
  /\ UNCHANGED <<nextSlot, generations, issued>>

Release(id) ==
  /\ Live(id)
  /\ \/ /\ entries[id.slot].refs # 1
        /\ entries' = [entries EXCEPT ![id.slot].refs = @ - 1]
        /\ UNCHANGED <<nextSlot, generations, free, issued>>
     \/ /\ entries[id.slot].refs = 1
        /\ Remove(id)

\* Destroy ignores the retain count.
Destroy(id, owner, kind) ==
  /\ Validates(id, owner, kind)
  /\ Remove(id)

-----------------------------------------------------------------------------
(* Snapshot and Restore.  A snapshot carries the limit, the next slot, the *)
(* generations in slot order and the entries; the free list is not saved   *)
(* but rebuilt by registryFromState.                                       *)

Restorable ==
  /\ nextSlot <= Limit + 1
  /\ {slot \in Slots : generations[slot] # 0} = 1 .. nextSlot - 1
  /\ \A slot \in Active :
       /\ entries[slot].id = [slot |-> slot, generation |-> generations[slot]]
       /\ entries[slot].refs # 0

\* s is the free list registryFromState builds: the slots with a generation
\* and no entry, in slot order.
IsRebuiltFree(s) ==
  /\ \A i, j \in DOMAIN s : i < j => s[i] < s[j]
  /\ {s[i] : i \in DOMAIN s} = (1 .. nextSlot - 1) \ Active

Restore ==
  /\ Restorable
  /\ \E n \in 0 .. Limit : \E s \in [1 .. n -> Slots] : IsRebuiltFree(s) /\ free' = s
  /\ UNCHANGED <<nextSlot, generations, entries, issued>>

-----------------------------------------------------------------------------
Next ==
  \/ \E owner \in Owners, kind \in Kinds : Create(owner, kind)
  \/ \E id \in ServiceIDs, from, to \in Owners : Transfer(id, from, to)
  \/ \E id \in ServiceIDs : Retain(id)
  \/ \E id \in ServiceIDs : Release(id)
  \/ \E id \in ServiceIDs, owner \in Owners, kind \in Kinds : Destroy(id, owner, kind)
  \/ Restore

Spec == Init /\ [][Next]_vars

-----------------------------------------------------------------------------
(* Properties. *)

\* The registry's state is well formed: every slot, generation, retain count
\* and free-list element is in the range runtime/registry.go gives it.
TypeOK ==
  /\ nextSlot \in 1 .. Limit + 1
  /\ generations \in [Slots -> 0 .. MaxUint32]
  /\ entries \in [Slots -> Entries \cup {NoEntry}]
  /\ free \in Seq(Slots)
  /\ issued \subseteq ServiceIDs

\* Rebuilding a registry from its own snapshot (Snapshot, registryFromState)
\* always succeeds and gives back the same free list, so a restored machine
\* hands out the same IDs as the one that was saved.
RestoreIsLossless == Restorable /\ IsRebuiltFree(free)

\* A service ID that has died never validates again: a stale handle kept by
\* guest code is refused forever, whatever was created in its slot since.
StaleStaysStale ==
  [][\A id \in issued : ~Live(id) => ~Live(id)']_vars

\* Create (the only step that issues an ID) returns an ID no caller has seen
\* and leaves every live object as it was: it never takes a live object's slot.
CreateDisturbsNothing ==
  [][issued' # issued =>
       /\ \E id \in issued' \ issued : issued' = issued \cup {id} /\ Live(id)'
       /\ \A slot \in Active : entries'[slot] = entries[slot]]_vars

=============================================================================
