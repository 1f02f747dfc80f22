------------------------------ MODULE Storage -------------------------------
(***************************************************************************)
(* Files, directories, open handles and record stores (runtime/storage.go, *)
(* storage_records.go), their snapshot (storage_state.go) and what         *)
(* survives a restart (persistence.go).                                    *)
(*                                                                         *)
(* A path is a sequence of names, a key a namespace and a path; bytes are  *)
(* counted.  The shared namespace behaves like the private one and is left *)
(* out.  A call that fails before it changes anything is no step.          *)
(***************************************************************************)
EXTENDS Selections, FiniteSetsExt, Functions

CONSTANTS
  Keys,          \* the keys guest code uses
  Packages,      \* the sets of keys a package may consist of, one byte each
  Modes,         \* the open modes guest code uses
  StoreNames,
  MaxFiles, MaxOpenHandles, MaxFileBytes, MaxStorageBytes,
  MaxRecordStores, MaxRecords, MaxRecordBytes,
  MaxRecordID,   \* ^uint32(0), the width of a record ID
  MaxTime        \* bound on the clock

ASSUME StorageAssumption ==
  /\ MaxFileBytes \in Nat \ {0} /\ MaxStorageBytes \in Nat
  /\ MaxFileBytes <= MaxStorageBytes
  /\ MaxFiles \in Nat /\ MaxOpenHandles \in Nat
  /\ MaxRecordStores \in Nat /\ MaxRecords \in Nat
  /\ MaxRecordBytes \in Nat /\ MaxRecordID \in Nat
  /\ \A mode \in Modes :
       /\ mode \cap {"read", "write"} # {}
       /\ mode \cap {"create", "truncate", "append"} # {} => "write" \in mode

Namespaces == {"package", "private", "temporary"}
Names == UNION {Range(key.path) : key \in Keys}

ASSUME KeysAssumption ==
  /\ Keys \subseteq [ns : Namespaces, path : Seq(Names)]
  /\ \A keys \in Packages :
       IsFiniteSet(keys) /\ keys \subseteq {key \in Keys : key.ns = "package"}

VARIABLES
  tree,        \* files and directories
  handles,     \* handle -> its openFile
  stores,      \* name -> its recordStore
  registered,  \* the service IDs the registry knows
  clock,       \* Clock.Monotonic
  failed       \* whether the last step was a call that failed after it began

storageVars == <<tree, handles, stores, registered, clock, failed>>

Writable(ns) == ns # "package"
PersistentNamespace(ns) == ns \notin {"package", "temporary"}

Prefixes(key, n) == {[key EXCEPT !.path = SubSeq(@, 1, i)] : i \in 1 .. n}
Ancestors(key) == Prefixes(key, Len(key.path) - 1)
Under(key, dir) ==
  /\ key.ns = dir.ns /\ Len(key.path) > Len(dir.path)
  /\ SubSeq(key.path, 1, Len(dir.path)) = dir.path
Moved(key, from, to) ==
  [ns |-> key.ns,
   path |-> to.path \o SubSeq(key.path, Len(from.path) + 1, Len(key.path))]

Occupied(t) == DOMAIN t.files \cup DOMAIN t.dirs
Count(t) == Cardinality(DOMAIN t.files) + Cardinality(DOMAIN t.dirs)
Used(t) == TotalOf([key \in DOMAIN t.files |-> t.files[key].size])

\* Go maps without some of their keys, with the entries of another map where
\* they have none, and with one entry more.
Without(f, S) == [x \in DOMAIN f \ S |-> f[x]]
Joined(f, g) ==
  [x \in DOMAIN f \cup DOMAIN g |-> IF x \in DOMAIN f THEN f[x] ELSE g[x]]
Added(f, x, v) == Joined(f, [y \in {x} |-> v])

\* History: the identity of a file is the least one nobody has.
NewIdentity ==
  LET taken == {tree.files[key].identity : key \in DOMAIN tree.files}
  IN  Min((1 .. MaxFiles + 1) \ taken)

NewFile(size) == [size |-> size, modified |-> clock, identity |-> NewIdentity]

\* The same file, modified now.
Touched(file, size) == [size |-> size, modified |-> clock, identity |-> file.identity]

NewID == Min((1 .. MaxOpenHandles + MaxRecordStores + 1) \ registered)

-----------------------------------------------------------------------------
(* Directories. *)

\* ensureDirectory: all of the missing directories or none.
Ensured(t, dirs) == [t EXCEPT !.dirs = Joined(@, [d \in dirs |-> clock])]
CanEnsure(t, dirs) ==
  /\ dirs \cap DOMAIN t.files = {}
  /\ dirs = {} \/ Count(Ensured(t, dirs)) <= MaxFiles

\* Mutant: directories made for the file stay when it does not fit.
GiveUpKeepsDirectories(made, t) == made

\* putNewFile's "s.directories = directoriesBefore".
GiveUp(made, t) == [made EXCEPT !.dirs = t.dirs]

\* putNewFile, of a path that is neither a file nor a directory: the parents
\* are made first and taken back when the file itself is one too many.
PutNewFile(t, key, size) ==
  LET made == Ensured(t, Ancestors(key)) IN
    IF \/ size > MaxFileBytes \/ Used(t) + size > MaxStorageBytes
       \/ ~CanEnsure(t, Ancestors(key))
      THEN [ok |-> FALSE, tree |-> t]
      ELSE IF Count(made) >= MaxFiles
        THEN [ok |-> FALSE, tree |-> GiveUp(made, t)]
        ELSE [ok |-> TRUE, tree |-> [made EXCEPT !.files = Added(@, key, NewFile(size))]]

-----------------------------------------------------------------------------
StorageInit ==
  /\ tree = [files |-> <<>>, dirs |-> <<>>]
  /\ handles = <<>> /\ stores = <<>> /\ registered = {}
  /\ clock = 0
  /\ failed = FALSE

Does(t) == tree' = t /\ failed' = FALSE

MakeDirectory(key) ==
  /\ Writable(key.ns) /\ key \notin Occupied(tree)
  /\ CanEnsure(tree, Prefixes(key, Len(key.path)))
  /\ Does(Ensured(tree, Prefixes(key, Len(key.path))))
  /\ UNCHANGED <<handles, stores, registered, clock>>

RemoveDirectory(key) ==
  /\ Writable(key.ns) /\ key \in DOMAIN tree.dirs
  /\ ~\E other \in Occupied(tree) : Under(other, key)
  /\ Does([tree EXCEPT !.dirs = Without(@, {key})])
  /\ UNCHANGED <<handles, stores, registered, clock>>

\* Mutant: the directory moves away from under its open files.
HandlesStay(from, to) == handles

\* The open handles of the files in a directory follow them.
HandlesMoved(from, to) ==
  [id \in DOMAIN handles |->
     IF Under(handles[id].key, from)
       THEN [handles[id] EXCEPT !.key = Moved(@, from, to)]
       ELSE handles[id]]

RenameDirectory(from, to) ==
  /\ Writable(from.ns) /\ from.ns = to.ns
  /\ from \in DOMAIN tree.dirs /\ to \notin Occupied(tree)
  /\ from # to /\ ~Under(to, from)
  /\ LET inside == {key \in DOMAIN tree.files : Under(key, from)}
         moving == {key \in DOMAIN tree.dirs : key = from \/ Under(key, from)}
         made == Ensured(tree, Ancestors(to))
     IN  /\ \A key \in inside \cup moving : Moved(key, from, to) \notin Occupied(tree)
         /\ CanEnsure(tree, Ancestors(to))
         /\ Does([files |-> Joined(Without(tree.files, inside),
                              [key \in {Moved(f, from, to) : f \in inside} |->
                                 LET file == tree.files[Moved(key, to, from)]
                                 IN  Touched(file, file.size)]),
                  dirs |-> Joined(Without(made.dirs, moving),
                             [key \in {Moved(d, from, to) : d \in moving} |-> clock])])
  /\ handles' = HandlesMoved(from, to)
  /\ UNCHANGED <<stores, registered, clock>>

-----------------------------------------------------------------------------
(* Files. *)

\* checkResize.
CanResize(key, size) ==
  /\ size <= MaxFileBytes
  /\ Used(tree) - tree.files[key].size + size <= MaxStorageBytes

Resized(key, size) ==
  [tree EXCEPT !.files[key] = Touched(@, size)]

WriteFile(key, size) ==
  /\ Writable(key.ns) /\ key \notin DOMAIN tree.dirs
  /\ \/ /\ key \in DOMAIN tree.files /\ CanResize(key, size)
        /\ Does(Resized(key, size))
     \/ /\ key \notin DOMAIN tree.files
        /\ LET put == PutNewFile(tree, key, size)
           IN  tree' = put.tree /\ failed' = ~put.ok
  /\ UNCHANGED <<handles, stores, registered, clock>>

\* Open registers the handle before it creates the file and gives the ID back
\* when that fails.
Open(key, mode) ==
  /\ "write" \in mode => Writable(key.ns)
  /\ Cardinality(DOMAIN handles) < MaxOpenHandles
  /\ key \notin DOMAIN tree.dirs
  /\ key \in DOMAIN tree.files \/ "create" \in mode
  /\ LET put == IF key \in DOMAIN tree.files THEN [ok |-> TRUE, tree |-> tree]
                ELSE PutNewFile(tree, key, 0)
         file == put.tree.files[key]
         opened == IF "truncate" \in mode THEN Touched(file, 0) ELSE file
     IN  /\ failed' = ~put.ok
         /\ IF put.ok
              THEN /\ tree' = [put.tree EXCEPT !.files[key] = opened]
                   /\ registered' = registered \cup {NewID}
                   /\ handles' = Added(handles, NewID,
                        [key |-> key, mode |-> mode, identity |-> opened.identity,
                         position |-> IF "append" \in mode THEN opened.size ELSE 0])
              ELSE /\ tree' = put.tree
                   /\ UNCHANGED <<handles, registered>>
  /\ UNCHANGED <<stores, clock>>

CloseFile(id) ==
  /\ id \in DOMAIN handles
  /\ registered' = registered \ {id}
  /\ handles' = Without(handles, {id})
  /\ Does(tree)
  /\ UNCHANGED <<stores, clock>>

HasFile(id) == id \in DOMAIN handles /\ handles[id].key \in DOMAIN tree.files

Read(id, size) ==
  /\ HasFile(id) /\ "read" \in handles[id].mode
  /\ LET length == tree.files[handles[id].key].size IN
       /\ handles[id].position < length
       /\ handles' = [handles EXCEPT ![id].position = @ + Min({size, length - @})]
  /\ Does(tree)
  /\ UNCHANGED <<stores, registered, clock>>

Write(id, size) ==
  /\ HasFile(id) /\ "write" \in handles[id].mode /\ size # 0
  /\ LET key == handles[id].key
         length == tree.files[key].size
         end == size + IF "append" \in handles[id].mode THEN length ELSE handles[id].position
     IN  /\ CanResize(key, end)
         /\ Does(Resized(key, Max({length, end})))
         /\ handles' = [handles EXCEPT ![id].position = end]
  /\ UNCHANGED <<stores, registered, clock>>

\* Whatever the origin and the offset, a position up to the file limit.
Seek(id, position) ==
  /\ HasFile(id) /\ position <= MaxFileBytes
  /\ handles' = [handles EXCEPT ![id].position = position]
  /\ Does(tree)
  /\ UNCHANGED <<stores, registered, clock>>

Delete(key) ==
  /\ Writable(key.ns) /\ key \in DOMAIN tree.files
  /\ ~\E id \in DOMAIN handles : handles[id].key = key
  /\ Does([tree EXCEPT !.files = Without(@, {key})])
  /\ UNCHANGED <<handles, stores, registered, clock>>

Rename(from, to) ==
  /\ Writable(from.ns) /\ from.ns = to.ns
  /\ from \in DOMAIN tree.files /\ to \notin Occupied(tree)
  /\ CanEnsure(tree, Ancestors(to))
  /\ Does([Ensured(tree, Ancestors(to)) EXCEPT !.files =
             Added(Without(@, {from}), to, Touched(@[from], @[from].size))])
  /\ handles' = [id \in DOMAIN handles |->
                   IF handles[id].key = from THEN [handles[id] EXCEPT !.key = to]
                   ELSE handles[id]]
  /\ UNCHANGED <<stores, registered, clock>>

-----------------------------------------------------------------------------
(* The package namespace. *)

PackageTree(t) ==
  [files |-> [key \in {k \in DOMAIN t.files : k.ns = "package"} |-> t.files[key]],
   dirs |-> [key \in {k \in DOMAIN t.dirs : k.ns = "package"} |-> t.dirs[key]]]

MutableTree(t) ==
  [files |-> Without(t.files, DOMAIN PackageTree(t).files),
   dirs |-> Without(t.dirs, DOMAIN PackageTree(t).dirs)]

\* Package files of one byte, with their directories; identities are not
\* needed, because no package file that is open is ever replaced.
WithPackage(t, keys) ==
  Ensured([t EXCEPT !.files = Joined(@, [key \in keys |->
                                      [size |-> 1, modified |-> clock, identity |-> 0]])],
          UNION {Ancestors(key) : key \in keys})

CanMount(t, keys) ==
  /\ keys \cap Occupied(t) = {}
  /\ Used(t) + Cardinality(keys) <= MaxStorageBytes
  /\ (UNION {Ancestors(key) : key \in keys}) \cap (DOMAIN t.files \cup keys) = {}
  /\ Count(WithPackage(t, keys)) <= MaxFiles

MountPackage(keys) ==
  /\ keys # {} /\ CanMount(tree, keys)
  /\ Does(WithPackage(tree, keys))
  /\ UNCHANGED <<handles, stores, registered, clock>>

ReplacePackage(keys) ==
  /\ ~\E id \in DOMAIN handles : handles[id].key.ns = "package"
  /\ CanMount(MutableTree(tree), keys)
  /\ Does(WithPackage(MutableTree(tree), keys))
  /\ UNCHANGED <<handles, stores, registered, clock>>

-----------------------------------------------------------------------------
(* Record stores.  A life of a store begins when it is opened first and     *)
(* whenever an adapter replaces its view.  given is history: the record IDs *)
(* the store began its life with and those it handed out since.             *)

RecordBytes(records) == TotalOf(records)

\* checkRecordResize.
CanResizeRecord(records, old, size) == RecordBytes(records) - old + size <= MaxRecordBytes

SetStore(name, store) ==
  /\ stores' = [stores EXCEPT ![name] = store]
  /\ Does(tree)
  /\ UNCHANGED <<handles, registered, clock>>

CreateRecordStore(name) ==
  /\ name \notin DOMAIN stores /\ Cardinality(DOMAIN stores) < MaxRecordStores
  /\ stores' = Added(stores, name, [id |-> NewID, nextID |-> 1, records |-> <<>>, given |-> {}])
  /\ registered' = registered \cup {NewID}
  /\ Does(tree)
  /\ UNCHANGED <<handles, clock>>

DeleteRecordStore(name) ==
  /\ name \in DOMAIN stores
  /\ stores' = Without(stores, {name})
  /\ registered' = registered \ {stores[name].id}
  /\ Does(tree)
  /\ UNCHANGED <<handles, clock>>

AddRecord(name, size) ==
  /\ name \in DOMAIN stores
  /\ LET store == stores[name] IN
       /\ Cardinality(DOMAIN store.records) < MaxRecords
       /\ store.nextID \notin {0, MaxRecordID}
       /\ CanResizeRecord(store.records, 0, size)
       /\ SetStore(name, [id |-> store.id, nextID |-> store.nextID + 1,
                            records |-> Added(store.records, store.nextID, size),
                            given |-> store.given \cup {store.nextID}])

SetRecord(name, record, size) ==
  /\ name \in DOMAIN stores /\ record \in DOMAIN stores[name].records
  /\ CanResizeRecord(stores[name].records, stores[name].records[record], size)
  /\ SetStore(name, [stores[name] EXCEPT !.records[record] = size])

DeleteRecord(name, record) ==
  /\ name \in DOMAIN stores /\ record \in DOMAIN stores[name].records
  /\ SetStore(name, [stores[name] EXCEPT !.records = Without(@, {record})])

\* ReplaceRecords imports an adapter's view, record 0 included.  next need only be
\* above the new records, so IDs handed out before may be handed out again: the
\* store begins a new life.
ReplaceRecords(name, next, records) ==
  /\ name \in DOMAIN stores
  /\ next \notin {0, MaxRecordID} /\ Cardinality(DOMAIN records) <= MaxRecords
  /\ \A record \in DOMAIN records : record < next
  /\ RecordBytes(records) <= MaxRecordBytes
  /\ SetStore(name, [id |-> stores[name].id, nextID |-> next, records |-> records,
                       given |-> DOMAIN records])

-----------------------------------------------------------------------------
(* Restarts.  Reset exports the private files and the record stores, boots *)
(* new services with the package and a clock at zero, and imports them.    *)

\* The restart-persistent part, ExportPersistence.
Exported(t) ==
  [files |-> [key \in {k \in DOMAIN t.files : PersistentNamespace(k.ns)} |-> t.files[key]],
   dirs |-> [key \in {k \in DOMAIN t.dirs : PersistentNamespace(k.ns)} |-> t.dirs[key]]]

RecordsAccepted(store) ==
  /\ store.nextID # 0
  /\ Cardinality(DOMAIN store.records) <= MaxRecords
  /\ \A record \in DOMAIN store.records : record < store.nextID
  /\ RecordBytes(store.records) <= MaxRecordBytes

ParentsExist(t) == \A key \in Occupied(t) : Ancestors(key) \subseteq DOMAIN t.dirs

Merged(t, saved) == [files |-> Joined(t.files, saved.files), dirs |-> Joined(t.dirs, saved.dirs)]

\* The checks of ImportPersistence into the storage t.
CanImport(t, saved, savedStores) ==
  /\ Occupied(t) \cap Occupied(saved) = {}
  /\ DOMAIN saved.files \cap DOMAIN saved.dirs = {}
  /\ \A key \in DOMAIN saved.files : saved.files[key].size <= MaxFileBytes
  /\ Used(Merged(t, saved)) <= MaxStorageBytes
  /\ Count(Merged(t, saved)) <= MaxFiles
  /\ ParentsExist(Merged(t, saved))
  /\ Cardinality(DOMAIN savedStores) <= MaxRecordStores
  /\ \A name \in DOMAIN savedStores : RecordsAccepted(savedStores[name])

\* Mutant: a modification time from before the restart is kept.
KeepTime(modified, now) == modified

\* A modification time in the future becomes the present.
ClampTime(modified, now) == Min({modified, now})

Clamped(t, now) ==
  [files |-> [key \in DOMAIN t.files |->
                [t.files[key] EXCEPT !.modified = ClampTime(@, now)]],
   dirs |-> [key \in DOMAIN t.dirs |-> ClampTime(t.dirs[key], now)]]

\* Mutant: the next record ID is worked out from the records that are left.
ImportedFromRecords(store, id) ==
  [store EXCEPT !.id = id, !.nextID = Max({0} \cup DOMAIN store.records) + 1]

ImportedStore(store, id) == [store EXCEPT !.id = id]

\* New services: the package as MountPackage mounts it, nothing else.
Booted(t) == Clamped(PackageTree(t), 0)

Reset ==
  /\ clock' = 0 /\ handles' = <<>>
  /\ IF CanImport(Booted(tree), Exported(tree), stores)
       THEN /\ tree' = Merged(Booted(tree), Clamped(Exported(tree), 0))
            /\ \E ids \in Injection(DOMAIN stores, 1 .. Cardinality(DOMAIN stores)) :
                 /\ stores' = [name \in DOMAIN stores |-> ImportedStore(stores[name], ids[name])]
                 /\ registered' = {ids[name] : name \in DOMAIN stores}
            /\ failed' = FALSE
       ELSE /\ tree' = Booted(tree) /\ stores' = <<>> /\ registered' = {}
            /\ failed' = TRUE

Tick ==
  /\ clock < MaxTime
  /\ clock' = clock + 1
  /\ Does(tree)
  /\ UNCHANGED <<handles, stores, registered>>

-----------------------------------------------------------------------------
FileNext ==
  \/ \E key \in Keys :
       \/ MakeDirectory(key) \/ RemoveDirectory(key) \/ Delete(key)
       \/ \E size \in 0 .. MaxFileBytes : WriteFile(key, size)
       \/ \E mode \in Modes : Open(key, mode)
       \/ \E to \in Keys : Rename(key, to) \/ RenameDirectory(key, to)
  \/ \E id \in DOMAIN handles :
       \/ CloseFile(id)
       \/ \E size \in 0 .. MaxFileBytes : Read(id, size) \/ Write(id, size) \/ Seek(id, size)
  \/ \E keys \in Packages : MountPackage(keys) \/ ReplacePackage(keys)

RecordNext ==
  \E name \in StoreNames :
    \/ CreateRecordStore(name) \/ DeleteRecordStore(name)
    \/ \E size \in 0 .. MaxRecordBytes : AddRecord(name, size)
    \/ \E record \in 0 .. MaxRecordID :
         \/ DeleteRecord(name, record)
         \/ \E size \in 0 .. MaxRecordBytes : SetRecord(name, record, size)
    \/ \E next \in 1 .. MaxRecordID, n \in 0 .. MaxRecords :
         \E records \in [0 .. n - 1 -> 0 .. MaxRecordBytes] :
           ReplaceRecords(name, next, records)

StorageNext == FileNext \/ RecordNext \/ Reset \/ Tick

StorageSpec == StorageInit /\ [][StorageNext]_storageVars

-----------------------------------------------------------------------------
(* Properties. *)

\* Every open handle goes on naming the file it was opened on, whatever is
\* renamed, moved with its directory, deleted, created in its place or mounted
\* meanwhile: no guest ever reads or writes another file through it.
HandlesFollowTheirFile ==
  \A id \in DOMAIN handles :
    /\ handles[id].key \in DOMAIN tree.files
    /\ tree.files[handles[id].key].identity = handles[id].identity

\* A snapshot taken at any time passes the checks of Storage.Restore and of the
\* services' registry: quotas, parents, positions, modes, modification times
\* not in the future, record IDs below the next one, and exactly the handles
\* and stores registered.
StorageSnapshotLoads ==
  /\ Count(tree) <= MaxFiles /\ Used(tree) <= MaxStorageBytes
  /\ DOMAIN tree.files \cap DOMAIN tree.dirs = {}
  /\ ParentsExist(tree)
  /\ \A key \in DOMAIN tree.files :
       tree.files[key].size <= MaxFileBytes /\ tree.files[key].modified <= clock
  /\ \A key \in DOMAIN tree.dirs : tree.dirs[key] <= clock
  /\ Cardinality(DOMAIN handles) <= MaxOpenHandles
  /\ \A id \in DOMAIN handles :
       /\ handles[id].key \in DOMAIN tree.files
       /\ handles[id].position <= MaxFileBytes
       /\ "write" \in handles[id].mode => Writable(handles[id].key.ns)
  /\ Cardinality(DOMAIN stores) <= MaxRecordStores
  /\ \A name \in DOMAIN stores : RecordsAccepted(stores[name])
  /\ registered = DOMAIN handles \cup {stores[name].id : name \in DOMAIN stores}

\* A call that fails (a file too many after its directories were made, a
\* handle registered for a file that cannot be created) leaves no directory,
\* file, handle or service ID behind, and no save is ever refused on the way
\* back in: a machine reset keeps the private files and the records.
FailuresLeaveNoTrace ==
  [][failed' => UNCHANGED <<tree, handles, stores, registered, clock>>]_storageVars

\* A record ID is handed out once in a life of a store: not again after the record
\* was deleted, nor after a restart imported the store.  An adapter that replaces
\* the view ends that life; the new one hands out none of the IDs it began with.
NextRecordIsNew ==
  \A name \in DOMAIN stores : stores[name].nextID \notin stores[name].given
=============================================================================
