--------------------------- MODULE StorageProofs ---------------------------
(* Files, handles and records of the storage for any tree of files, any     *)
(* number of handles and stores and any limits: an open handle goes on      *)
(* naming the file it was opened on, no record ID is handed out twice, a    *)
(* snapshot always loads, and a call that fails leaves no trace.            *)
EXTENDS Storage, SelectionProofs

AllKeys == [ns : Namespaces, path : Seq(Names)]

IsFile(f) == f = [size |-> f.size, modified |-> f.modified, identity |-> f.identity]
FilesOK(t) ==
  /\ t = [files |-> t.files, dirs |-> t.dirs]
  /\ DOMAIN t.files \subseteq AllKeys
  /\ \A key \in DOMAIN t.files : IsFile(t.files[key])

IsHandle(h) ==
  /\ h = [key |-> h.key, mode |-> h.mode, identity |-> h.identity, position |-> h.position]
  /\ h.key \in AllKeys
HandlesOK == \A id \in DOMAIN handles : IsHandle(handles[id])

\* With the tree t, every handle names the file it was opened on.
Keeps(t) ==
  /\ FilesOK(t)
  /\ \A id \in DOMAIN handles :
       /\ handles[id].key \in DOMAIN t.files
       /\ t.files[handles[id].key].identity = handles[id].identity

\* HandlesFollowTheirFile, and that what the operations move has the shape of
\* files, handles and keys.
FileInv == HandlesOK /\ Keeps(tree)

\* A store never handed out the next ID or a later one; the records it has were
\* handed out.
StoreOK(store) ==
  /\ store = [id |-> store.id, nextID |-> store.nextID,
              records |-> store.records, given |-> store.given]
  /\ store.nextID \in Nat \ {0}
  /\ DOMAIN store.records \subseteq store.given
  /\ store.given \subseteq 0 .. store.nextID - 1
RecordInv == \A name \in DOMAIN stores : StoreOK(stores[name])

StorageInv == FileInv /\ RecordInv

-----------------------------------------------------------------------------
(* Maps.                                                                    *)

LEMMA JoinedFacts ==
  ASSUME NEW f, NEW g
  PROVE  /\ DOMAIN Joined(f, g) = DOMAIN f \cup DOMAIN g
         /\ \A x \in DOMAIN f : Joined(f, g)[x] = f[x]
         /\ \A x \in DOMAIN g \ DOMAIN f : Joined(f, g)[x] = g[x]
BY DEF Joined

-----------------------------------------------------------------------------
(* Keys.                                                                    *)

LEMMA Suffix ==
  ASSUME NEW S, NEW p \in Seq(S), NEW q \in Seq(S), NEW r \in Seq(S),
         Len(p) > Len(q), SubSeq(p, 1, Len(q)) = q,
         NEW suffix, suffix = SubSeq(p, Len(q) + 1, Len(p))
  PROVE  /\ suffix \in Seq(S) /\ q \o suffix = p
         /\ r \o suffix \in Seq(S)
         /\ SubSeq(r \o suffix, Len(r) + 1, Len(r \o suffix)) = suffix
<1>1. Len(p) \in Nat /\ Len(q) \in Nat /\ Len(r) \in Nat
  BY LenProperties
<1>2. \A i \in Len(q) + 1 .. Len(p) : p[i] \in S
  BY <1>1, ElementOfSeq
<1>3. suffix \in Seq(S)
  BY <1>1, <1>2, SubSeqProperties
<1>4. q \o suffix = p
  <2>1. SubSeq(p, 1, Len(q)) \o SubSeq(p, Len(q) + 1, Len(p)) = SubSeq(p, 1, Len(p))
    <3>1. 1 \in 1 .. Len(p) + 1 /\ Len(q) \in 1 - 1 .. Len(p) /\ Len(p) \in Len(q) .. Len(p)
      BY <1>1
    <3> QED
      BY <3>1, ConcatAdjacentSubSeq
  <2> QED
    BY <2>1, SubSeqFull
<1> DEFINE whole == r \o suffix
           rest == SubSeq(whole, Len(r) + 1, Len(whole))
<1>5. /\ whole \in Seq(S) /\ Len(suffix) \in Nat /\ Len(whole) = Len(r) + Len(suffix)
      /\ \A i \in 1 .. Len(r) + Len(suffix) :
           whole[i] = IF i <= Len(r) THEN r[i] ELSE suffix[i - Len(r)]
  BY <1>3, ConcatProperties, LenProperties
<1> HIDE DEF whole
<1>6. \A i \in Len(r) + 1 .. Len(whole) : whole[i] \in S
  BY <1>1, <1>5, ElementOfSeq
<1>7. /\ rest \in Seq(S)
      /\ Len(rest) = IF Len(r) + 1 <= Len(whole) THEN Len(whole) - (Len(r) + 1) + 1 ELSE 0
      /\ \A i \in 1 .. Len(whole) - (Len(r) + 1) + 1 : rest[i] = whole[Len(r) + 1 + i - 1]
  BY <1>1, <1>5, <1>6, SubSeqProperties
<1> HIDE DEF rest
<1>8. Len(rest) = Len(suffix)
  BY <1>1, <1>5, <1>7
<1>9. ASSUME NEW i \in 1 .. Len(rest)  PROVE rest[i] = suffix[i]
  <2> DEFINE k == Len(r) + i
  <2>1. /\ i \in 1 .. Len(whole) - (Len(r) + 1) + 1
        /\ Len(r) + 1 + i - 1 = k
        /\ k \in 1 .. Len(r) + Len(suffix) /\ ~(k <= Len(r)) /\ k - Len(r) = i
    BY <1>1, <1>5, <1>8
  <2> HIDE DEF k
  <2>2. rest[i] = whole[k]
    BY <1>7, <2>1
  <2>3. whole[k] = IF k <= Len(r) THEN r[k] ELSE suffix[k - Len(r)]
    BY <1>5, <2>1
  <2> QED
    BY <2>1, <2>2, <2>3
<1>10. rest = suffix
  BY <1>3, <1>7, <1>8, <1>9, SeqEqual
<1> QED
  BY <1>3, <1>4, <1>5, <1>10 DEF whole, rest

LEMMA MovedBack ==
  ASSUME NEW key \in AllKeys, NEW from \in AllKeys, NEW to \in AllKeys, Under(key, from)
  PROVE  /\ Moved(key, from, to) \in AllKeys
         /\ Moved(key, from, to).ns = key.ns
         /\ Moved(Moved(key, from, to), to, from) = key
<1> DEFINE suffix == SubSeq(key.path, Len(from.path) + 1, Len(key.path))
           moved == Moved(key, from, to)
<1>1. /\ key.path \in Seq(Names) /\ from.path \in Seq(Names) /\ to.path \in Seq(Names)
      /\ key = [ns |-> key.ns, path |-> key.path] /\ key.ns \in Namespaces
  BY DEF AllKeys
<1>2. /\ Len(key.path) > Len(from.path)
      /\ SubSeq(key.path, 1, Len(from.path)) = from.path
  BY DEF Under
<1>3. /\ from.path \o suffix = key.path /\ to.path \o suffix \in Seq(Names)
      /\ SubSeq(to.path \o suffix, Len(to.path) + 1, Len(to.path \o suffix)) = suffix
  <2> DEFINE p == key.path
             q == from.path
             r == to.path
  <2>1. /\ p \in Seq(Names) /\ q \in Seq(Names) /\ r \in Seq(Names)
        /\ Len(p) > Len(q) /\ SubSeq(p, 1, Len(q)) = q
        /\ suffix = SubSeq(p, Len(q) + 1, Len(p))
    BY <1>1, <1>2, Zenon
  <2> HIDE DEF p, q, r, suffix
  <2>2. /\ q \o suffix = p /\ r \o suffix \in Seq(Names)
        /\ SubSeq(r \o suffix, Len(r) + 1, Len(r \o suffix)) = suffix
    BY <2>1, Suffix
  <2> QED
    BY <2>2, Zenon DEF p, q, r
<1> HIDE DEF suffix
<1>4. moved = [ns |-> key.ns, path |-> to.path \o suffix]
  BY Zenon DEF Moved, suffix
<1> HIDE DEF moved
<1>5. moved.ns = key.ns /\ moved.path = to.path \o suffix /\ moved \in AllKeys
  BY <1>1, <1>3, <1>4 DEF AllKeys
<1>6. Moved(moved, to, from) = [ns |-> key.ns, path |-> from.path \o suffix]
  BY <1>3, <1>5, Zenon DEF Moved
<1> QED
  BY <1>1, <1>3, <1>5, <1>6, Zenon DEF moved

-----------------------------------------------------------------------------
(* Directories and what is in them, name by name.                           *)

LEMMA PathOf ==
  ASSUME NEW key \in AllKeys
  PROVE  /\ key.path \in Seq(Names) /\ Len(key.path) \in Nat /\ key.ns \in Namespaces
         /\ key = [ns |-> key.ns, path |-> key.path]
BY LenProperties DEF AllKeys

LEMMA SameKey ==
  ASSUME NEW key \in AllKeys, NEW other \in AllKeys,
         key.ns = other.ns, Len(key.path) = Len(other.path),
         \A i \in 1 .. Len(key.path) : key.path[i] = other.path[i]
  PROVE  key = other
<1> DEFINE p == key.path
           q == other.path
<1>1. /\ p \in Seq(Names) /\ q \in Seq(Names) /\ Len(p) = Len(q)
      /\ \A i \in 1 .. Len(p) : p[i] = q[i]
      /\ key = [ns |-> key.ns, path |-> p] /\ other = [ns |-> other.ns, path |-> q]
  BY PathOf
<1> HIDE DEF p, q
<1>2. p = q
  BY <1>1, SeqEqual
<1> QED
  BY <1>1, <1>2

\* The first n names of a path.
LEMMA FirstNames ==
  ASSUME NEW p \in Seq(Names), NEW n \in 0 .. Len(p)
  PROVE  /\ SubSeq(p, 1, n) \in Seq(Names) /\ Len(SubSeq(p, 1, n)) = n
         /\ \A i \in 1 .. n : SubSeq(p, 1, n)[i] = p[i]
<1> DEFINE q == SubSeq(p, 1, n)
<1>1. Len(p) \in Nat
  BY LenProperties
<1>2. \A i \in 1 .. n : p[i] \in Names
  BY <1>1, ElementOfSeq
<1>3. /\ q \in Seq(Names) /\ Len(q) = IF 1 <= n THEN n - 1 + 1 ELSE 0
      /\ \A i \in 1 .. n - 1 + 1 : q[i] = p[1 + i - 1]
  BY <1>1, <1>2, SubSeqProperties
<1> HIDE DEF q
<1>4. Len(q) = n
  BY <1>1, <1>3
<1>5. ASSUME NEW i \in 1 .. n PROVE q[i] = p[i]
  <2>1. i \in 1 .. n - 1 + 1 /\ 1 + i - 1 = i
    BY <1>1
  <2>2. q[i] = p[1 + i - 1]
    BY <1>3, <2>1
  <2> QED
    BY <2>1, <2>2
<1> QED
  BY <1>3, <1>4, <1>5 DEF q

LEMMA UnderNames ==
  ASSUME NEW key \in AllKeys, NEW dir \in AllKeys
  PROVE  Under(key, dir) <=>
           /\ key.ns = dir.ns /\ Len(key.path) > Len(dir.path)
           /\ \A i \in 1 .. Len(dir.path) : key.path[i] = dir.path[i]
<1> DEFINE p == key.path
           q == dir.path
           start == SubSeq(p, 1, Len(q))
<1>1. p \in Seq(Names) /\ q \in Seq(Names) /\ Len(p) \in Nat /\ Len(q) \in Nat
  BY PathOf
<1>2. Under(key, dir) <=> key.ns = dir.ns /\ Len(p) > Len(q) /\ start = q
  BY DEF Under
<1> HIDE DEF p, q
<1>3. ASSUME Len(p) > Len(q)
      PROVE  start = q <=> \A i \in 1 .. Len(q) : p[i] = q[i]
  <2>1. Len(q) \in 0 .. Len(p)
    BY <1>1, <1>3
  <2>2. /\ start \in Seq(Names) /\ Len(start) = Len(q)
        /\ \A i \in 1 .. Len(q) : start[i] = p[i]
    BY <1>1, <2>1, FirstNames
  <2> HIDE DEF start
  <2>3. start = q => \A i \in 1 .. Len(q) : p[i] = q[i]
    BY <2>2
  <2>4. (\A i \in 1 .. Len(q) : p[i] = q[i]) => start = q
    BY <1>1, <2>2, SeqEqual
  <2> QED
    BY <2>3, <2>4
<1> QED
  BY <1>2, <1>3 DEF p, q

LEMMA UnderTransitive ==
  ASSUME NEW key \in AllKeys, NEW dir \in AllKeys, NEW top \in AllKeys,
         Under(key, dir), Under(dir, top)
  PROVE  Under(key, top)
<1>1. Len(key.path) \in Nat /\ Len(dir.path) \in Nat /\ Len(top.path) \in Nat
  BY PathOf
<1>2. /\ key.ns = dir.ns /\ Len(key.path) > Len(dir.path)
      /\ \A i \in 1 .. Len(dir.path) : key.path[i] = dir.path[i]
      /\ dir.ns = top.ns /\ Len(dir.path) > Len(top.path)
      /\ \A i \in 1 .. Len(top.path) : dir.path[i] = top.path[i]
  BY UnderNames
<1> QED
  BY <1>1, <1>2, UnderNames

\* Two directories around the same key: one is in the other.
LEMMA UnderTotal ==
  ASSUME NEW key \in AllKeys, NEW dir \in AllKeys, NEW other \in AllKeys,
         Under(key, dir), Under(key, other)
  PROVE  dir = other \/ Under(dir, other) \/ Under(other, dir)
<1> DEFINE p == dir.path
           q == other.path
<1>1. Len(p) \in Nat /\ Len(q) \in Nat
  BY PathOf
<1>2. /\ key.ns = dir.ns /\ \A i \in 1 .. Len(p) : key.path[i] = p[i]
      /\ key.ns = other.ns /\ \A i \in 1 .. Len(q) : key.path[i] = q[i]
  BY UnderNames
<1>3. CASE Len(p) = Len(q)
  BY <1>2, <1>3, SameKey
<1>4. CASE Len(p) > Len(q)
  <2>1. \A i \in 1 .. Len(q) : p[i] = q[i]
    BY <1>1, <1>2, <1>4
  <2> QED
    BY <1>2, <1>4, <2>1, UnderNames
<1>5. CASE Len(q) > Len(p)
  <2>1. \A i \in 1 .. Len(p) : q[i] = p[i]
    BY <1>1, <1>2, <1>5
  <2> QED
    BY <1>2, <1>5, <2>1, UnderNames
<1> QED
  BY <1>1, <1>3, <1>4, <1>5

LEMMA PrefixesAre ==
  ASSUME NEW key \in AllKeys, NEW n \in Int, n <= Len(key.path)
  PROVE  /\ IsFiniteSet(Prefixes(key, n)) /\ Prefixes(key, n) \subseteq AllKeys
         /\ \A d \in AllKeys :
              d \in Prefixes(key, n) <=>
                /\ d.ns = key.ns /\ Len(d.path) \in 1 .. n
                /\ \A i \in 1 .. Len(d.path) : d.path[i] = key.path[i]
<1> DEFINE p == key.path
           First(i) == [key EXCEPT !.path = SubSeq(p, 1, i)]
           f == [i \in 1 .. n |-> First(i)]
<1>1. p \in Seq(Names) /\ Len(p) \in Nat /\ key.ns \in Namespaces
  BY PathOf
<1>2. ASSUME NEW i \in 1 .. n
      PROVE  /\ First(i) = [ns |-> key.ns, path |-> SubSeq(p, 1, i)]
             /\ First(i) \in AllKeys /\ First(i).ns = key.ns /\ Len(First(i).path) = i
             /\ \A j \in 1 .. i : First(i).path[j] = p[j]
  <2>1. i \in 0 .. Len(p)
    BY <1>1
  <2>2. SubSeq(p, 1, i) \in Seq(Names) /\ Len(SubSeq(p, 1, i)) = i
    BY <1>1, <2>1, FirstNames
  <2>3. \A j \in 1 .. i : SubSeq(p, 1, i)[j] = p[j]
    BY <1>1, <2>1, FirstNames
  <2>4. First(i) = [ns |-> key.ns, path |-> SubSeq(p, 1, i)]
    <3> DEFINE q == SubSeq(p, 1, i)
    <3>1. key = [ns |-> key.ns, path |-> key.path]
      BY PathOf
    <3>2. First(i) = [key EXCEPT !.path = q]
      OBVIOUS
    <3> HIDE DEF q, First
    <3>3. First(i) = [ns |-> key.ns, path |-> q]
      BY <3>1, <3>2
    <3> QED
      BY <3>3 DEF q
  <2> HIDE DEF p, First
  <2> QED
    BY <1>1, <2>2, <2>3, <2>4 DEF AllKeys
<1>3. Prefixes(key, n) = {First(i) : i \in 1 .. n}
  BY DEF Prefixes
<1>4. f \in Surjection(1 .. n, Prefixes(key, n))
  <2> HIDE DEF First
  <2> QED
    BY <1>3 DEF Surjection
<1>5. IsFiniteSet(Prefixes(key, n))
  <2>1. IsFiniteSet(1 .. n)
    BY FS_Interval
  <2> HIDE DEF f
  <2> QED
    BY <1>4, <2>1, FS_Surjection
<1>6. ASSUME NEW d \in AllKeys, d \in Prefixes(key, n)
      PROVE  /\ d.ns = key.ns /\ Len(d.path) \in 1 .. n
             /\ \A i \in 1 .. Len(d.path) : d.path[i] = p[i]
  <2>1. PICK i \in 1 .. n : d = First(i)
    BY <1>3, <1>6
  <2> HIDE DEF First, p
  <2> QED
    BY <1>2, <2>1
<1>7. ASSUME NEW d \in AllKeys, d.ns = key.ns, Len(d.path) \in 1 .. n,
             \A i \in 1 .. Len(d.path) : d.path[i] = p[i]
      PROVE  d \in Prefixes(key, n)
  <2> DEFINE i == Len(d.path)
             e == First(i)
  <2>1. /\ e \in AllKeys /\ e.ns = key.ns /\ Len(e.path) = i
        /\ \A j \in 1 .. i : e.path[j] = p[j]
    <3> HIDE DEF First, p
    <3> QED
      BY <1>2, <1>7
  <2> HIDE DEF e
  <2>2. d = e
    BY <1>7, <2>1, SameKey
  <2> QED
    BY <1>3, <1>7, <2>2 DEF e
<1>8. Prefixes(key, n) \subseteq AllKeys
  <2> HIDE DEF First, p
  <2> QED
    BY <1>2, <1>3
<1> QED
  BY <1>5, <1>6, <1>7, <1>8

LEMMA AncestorsAre ==
  ASSUME NEW key \in AllKeys
  PROVE  /\ IsFiniteSet(Ancestors(key)) /\ Ancestors(key) \subseteq AllKeys
         /\ \A d \in AllKeys : d \in Ancestors(key) <=> Len(d.path) > 0 /\ Under(key, d)
<1> DEFINE n == Len(key.path) - 1
<1>1. Len(key.path) \in Nat /\ n \in Int /\ n <= Len(key.path)
  BY PathOf
<1>2. Ancestors(key) = Prefixes(key, n)
  BY DEF Ancestors
<1>3. ASSUME NEW d \in AllKeys
      PROVE  d \in Ancestors(key) <=> Len(d.path) > 0 /\ Under(key, d)
  <2>1. Len(d.path) \in Nat
    BY PathOf
  <2>2. Len(d.path) \in 1 .. n <=> Len(d.path) > 0 /\ Len(key.path) > Len(d.path)
    BY <1>1, <2>1
  <2>3. d \in Ancestors(key) <=>
          /\ d.ns = key.ns /\ Len(d.path) \in 1 .. n
          /\ \A i \in 1 .. Len(d.path) : d.path[i] = key.path[i]
    BY <1>1, <1>2, PrefixesAre
  <2>4. Under(key, d) <=>
          /\ key.ns = d.ns /\ Len(key.path) > Len(d.path)
          /\ \A i \in 1 .. Len(d.path) : key.path[i] = d.path[i]
    BY UnderNames
  <2> HIDE DEF n
  <2>5. (\A i \in 1 .. Len(d.path) : d.path[i] = key.path[i])
          <=> \A i \in 1 .. Len(d.path) : key.path[i] = d.path[i]
    OBVIOUS
  <2> QED
    BY <2>2, <2>3, <2>4, <2>5, Zenon
<1> HIDE DEF n
<1> QED
  BY <1>1, <1>2, <1>3, PrefixesAre

\* A directory and those around it.
LEMMA OwnPrefixes ==
  ASSUME NEW key \in AllKeys
  PROVE  /\ IsFiniteSet(Prefixes(key, Len(key.path)))
         /\ Prefixes(key, Len(key.path)) \subseteq Ancestors(key) \cup {key}
         /\ Ancestors(key) \subseteq Prefixes(key, Len(key.path))
<1> DEFINE n == Len(key.path)
<1>1. n \in Nat /\ n \in Int /\ n <= Len(key.path)
  BY PathOf
<1>2. /\ IsFiniteSet(Prefixes(key, n)) /\ Prefixes(key, n) \subseteq AllKeys
      /\ \A d \in AllKeys :
           d \in Prefixes(key, n) <=>
             /\ d.ns = key.ns /\ Len(d.path) \in 1 .. n
             /\ \A i \in 1 .. Len(d.path) : d.path[i] = key.path[i]
  BY <1>1, PrefixesAre
<1>3. ASSUME NEW d \in Prefixes(key, n) PROVE d \in Ancestors(key) \cup {key}
  <2>1. /\ d \in AllKeys /\ d.ns = key.ns /\ Len(d.path) \in 1 .. n
        /\ \A i \in 1 .. Len(d.path) : d.path[i] = key.path[i]
    BY <1>2
  <2>2. CASE Len(d.path) = n
    BY <2>1, <2>2, SameKey
  <2>3. CASE Len(d.path) # n
    <3>1. n > Len(d.path) /\ Len(d.path) > 0
      BY <1>1, <2>1, <2>3
    <3>2. Under(key, d)
      BY <2>1, <3>1, UnderNames
    <3> QED
      BY <2>1, <3>1, <3>2, AncestorsAre
  <2> QED
    BY <2>2, <2>3
<1>4. ASSUME NEW d \in Ancestors(key) PROVE d \in Prefixes(key, n)
  <2>1. d \in AllKeys /\ Len(d.path) > 0 /\ Under(key, d) /\ Len(d.path) \in Nat
    BY AncestorsAre, PathOf
  <2>2. /\ d.ns = key.ns /\ n > Len(d.path)
        /\ \A i \in 1 .. Len(d.path) : d.path[i] = key.path[i]
    BY <2>1, UnderNames
  <2>3. Len(d.path) \in 1 .. n
    BY <1>1, <2>1, <2>2
  <2> QED
    BY <1>2, <2>1, <2>2, <2>3
<1> QED
  BY <1>2, <1>3, <1>4

\* The directories around a key lie around everything in it.
LEMMA AncestorsClosed ==
  ASSUME NEW key \in AllKeys, NEW d \in Ancestors(key)
  PROVE  Ancestors(d) \subseteq Ancestors(key) /\ d \in AllKeys /\ d # key /\ d.ns = key.ns
<1>1. d \in AllKeys /\ Under(key, d)
  BY AncestorsAre
<1>2. ASSUME NEW a \in Ancestors(d) PROVE a \in Ancestors(key)
  BY <1>1, AncestorsAre, UnderTransitive
<1>3. Len(key.path) > Len(d.path) /\ Len(key.path) \in Nat /\ d.ns = key.ns
  BY <1>1, PathOf DEF Under
<1> QED
  BY <1>1, <1>2, <1>3

\* What a moved key is called.
LEMMA MovedNames ==
  ASSUME NEW key \in AllKeys, NEW from \in AllKeys, NEW to \in AllKeys,
         from.ns = to.ns, key = from \/ Under(key, from)
  PROVE  LET m == Moved(key, from, to)
             n == Len(key.path) - Len(from.path)
         IN  /\ n \in Nat /\ m \in AllKeys /\ m.ns = to.ns
             /\ Len(m.path) = Len(to.path) + n
             /\ \A i \in 1 .. Len(to.path) : m.path[i] = to.path[i]
             /\ \A i \in 1 .. n : m.path[Len(to.path) + i] = key.path[Len(from.path) + i]
<1> DEFINE p == key.path
           q == from.path
           r == to.path
           n == Len(p) - Len(q)
           rest == SubSeq(p, Len(q) + 1, Len(p))
           whole == r \o rest
           m == Moved(key, from, to)
<1>1. /\ p \in Seq(Names) /\ q \in Seq(Names) /\ r \in Seq(Names)
      /\ Len(p) \in Nat /\ Len(q) \in Nat /\ Len(r) \in Nat
      /\ key.ns \in Namespaces
  BY PathOf
<1>2. Len(p) >= Len(q) /\ key.ns = to.ns
  BY <1>1 DEF Under
<1>3. m = [ns |-> key.ns, path |-> whole]
  BY DEF Moved
<1> HIDE DEF p, q, r, m
<1>4. n \in Nat /\ Len(q) + n = Len(p)
  BY <1>1, <1>2
<1>5. /\ rest \in Seq(Names) /\ Len(rest) = n
      /\ \A i \in 1 .. n : rest[i] = p[Len(q) + i]
  <2>1. \A i \in Len(q) + 1 .. Len(p) : p[i] \in Names
    BY <1>1, ElementOfSeq
  <2>2. /\ rest \in Seq(Names)
        /\ Len(rest) = IF Len(q) + 1 <= Len(p) THEN Len(p) - (Len(q) + 1) + 1 ELSE 0
        /\ \A i \in 1 .. Len(p) - (Len(q) + 1) + 1 : rest[i] = p[Len(q) + 1 + i - 1]
    BY <1>1, <2>1, SubSeqProperties
  <2> HIDE DEF rest
  <2>3. Len(rest) = n
    BY <1>1, <1>2, <2>2
  <2>4. ASSUME NEW i \in 1 .. n PROVE rest[i] = p[Len(q) + i]
    <3>1. i \in 1 .. Len(p) - (Len(q) + 1) + 1 /\ Len(q) + 1 + i - 1 = Len(q) + i
      BY <1>1, <1>2
    <3> QED
      BY <2>2, <3>1
  <2> QED
    BY <2>2, <2>3, <2>4
<1> HIDE DEF rest, n
<1>6. /\ whole \in Seq(Names) /\ Len(whole) = Len(r) + n
      /\ \A i \in 1 .. Len(r) + n :
           whole[i] = IF i <= Len(r) THEN r[i] ELSE rest[i - Len(r)]
  BY <1>1, <1>5, ConcatProperties
<1> HIDE DEF whole
<1>7. \A i \in 1 .. Len(r) : whole[i] = r[i]
  BY <1>1, <1>4, <1>6
<1>8. ASSUME NEW i \in 1 .. n PROVE whole[Len(r) + i] = p[Len(q) + i]
  <2> DEFINE k == Len(r) + i
  <2>1. k \in 1 .. Len(r) + n /\ ~(k <= Len(r)) /\ k - Len(r) = i
    BY <1>1, <1>4
  <2> HIDE DEF k
  <2>2. whole[k] = rest[i]
    BY <1>6, <2>1
  <2> QED
    BY <1>5, <2>2 DEF k
<1>9. m.ns = key.ns /\ m.path = whole /\ m \in AllKeys
  BY <1>1, <1>3, <1>6 DEF AllKeys
<1>10. /\ n \in Nat /\ m \in AllKeys /\ m.ns = to.ns /\ Len(m.path) = Len(r) + n
       /\ \A i \in 1 .. Len(r) : m.path[i] = r[i]
       /\ \A i \in 1 .. n : m.path[Len(r) + i] = p[Len(q) + i]
  BY <1>2, <1>4, <1>6, <1>7, <1>8, <1>9
<1> QED
  BY <1>10, Zenon DEF m, p, q, r, n

\* What is in a directory moves into its new place, keeping what lies in what,
\* and could be moved back.
LEMMA MovedThere ==
  ASSUME NEW key \in AllKeys, NEW from \in AllKeys, NEW to \in AllKeys,
         from.ns = to.ns, key = from \/ Under(key, from)
  PROVE  /\ Moved(key, from, to) \in AllKeys /\ Moved(key, from, to).ns = to.ns
         /\ key = from => Moved(key, from, to) = to
         /\ Under(key, from) => Under(Moved(key, from, to), to)
         /\ Moved(Moved(key, from, to), to, from) = key
<1> DEFINE m == Moved(key, from, to)
           n == Len(key.path) - Len(from.path)
<1>1. /\ n \in Nat /\ m \in AllKeys /\ m.ns = to.ns /\ Len(m.path) = Len(to.path) + n
      /\ \A i \in 1 .. Len(to.path) : m.path[i] = to.path[i]
  BY MovedNames, Zenon
<1>2. Len(key.path) \in Nat /\ Len(from.path) \in Nat /\ Len(to.path) \in Nat
  BY PathOf
<1> HIDE DEF m
<1>3. CASE key = from
  <2>1. Len(m.path) = Len(to.path)
    BY <1>1, <1>2, <1>3
  <2>2. m = to
    BY <1>1, <2>1, SameKey
  <2> DEFINE k == Moved(to, to, from)
  <2>3. /\ k \in AllKeys /\ k.ns = from.ns
        /\ Len(k.path) = Len(from.path) + (Len(to.path) - Len(to.path))
        /\ \A i \in 1 .. Len(from.path) : k.path[i] = from.path[i]
    BY MovedNames, Zenon
  <2> HIDE DEF k
  <2>4. Len(k.path) = Len(from.path)
    BY <1>2, <2>3
  <2>5. k = from
    BY <2>3, <2>4, SameKey
  <2>6. ~Under(key, from)
    BY <1>2, <1>3 DEF Under
  <2> QED
    BY <1>1, <1>3, <2>2, <2>5, <2>6 DEF m, k
<1>4. CASE Under(key, from)
  <2>1. Len(key.path) > Len(from.path) /\ key # from
    BY <1>2, <1>4 DEF Under
  <2>2. Len(m.path) > Len(to.path)
    <3>1. n > 0
      <4> DEFINE a == Len(key.path)
                 b == Len(from.path)
      <4>1. a \in Nat /\ b \in Nat /\ a > b
        BY <1>2, <2>1
      <4> HIDE DEF a, b
      <4>2. a - b > 0
        BY <4>1
      <4> QED
        BY <4>2 DEF a, b
    <3> HIDE DEF n
    <3> QED
      BY <1>1, <1>2, <3>1
  <2>3. Under(m, to)
    BY <1>1, <2>2, UnderNames
  <2> QED
    BY <1>1, <1>4, <2>1, <2>3, MovedBack DEF m
<1> QED
  BY <1>3, <1>4

LEMMA MovedUnder ==
  ASSUME NEW key \in AllKeys, NEW dir \in AllKeys, NEW from \in AllKeys, NEW to \in AllKeys,
         from.ns = to.ns, dir = from \/ Under(dir, from), Under(key, dir)
  PROVE  Under(Moved(key, from, to), Moved(dir, from, to))
<1> DEFINE m == Moved(key, from, to)
           d == Moved(dir, from, to)
           a == Len(from.path)
           b == Len(to.path)
           n == Len(key.path) - a
           l == Len(dir.path) - a
<1> DEFINE Facts(k, moved, size) ==
             /\ size \in Nat /\ moved \in AllKeys /\ moved.ns = to.ns
             /\ Len(moved.path) = b + size
             /\ \A i \in 1 .. b : moved.path[i] = to.path[i]
             /\ \A i \in 1 .. size : moved.path[b + i] = k.path[a + i]
<1>1. Under(key, from)
  BY UnderTransitive
<1>2. Facts(key, m, n)
  BY <1>1, MovedNames
<1>3. Facts(dir, d, l)
  BY MovedNames
<1>4. Len(key.path) \in Nat /\ Len(dir.path) \in Nat /\ a \in Nat /\ b \in Nat
  BY PathOf
<1>5. /\ Len(key.path) > Len(dir.path)
      /\ \A i \in 1 .. Len(dir.path) : key.path[i] = dir.path[i]
  BY UnderNames
<1>6. a + l = Len(dir.path) /\ l < n
  <2> HIDE DEF a, b
  <2> QED
    BY <1>4, <1>5
<1> HIDE DEF m, d, a, b, n, l
<1>7. Len(m.path) > Len(d.path)
  BY <1>2, <1>3, <1>4, <1>6
<1>8. ASSUME NEW i \in 1 .. Len(d.path) PROVE m.path[i] = d.path[i]
  <2>1. CASE i <= b
    BY <1>2, <1>3, <1>4, <2>1
  <2>2. CASE i > b
    <3> DEFINE j == i - b
    <3>1. j \in 1 .. l /\ j \in 1 .. n /\ b + j = i /\ a + j \in 1 .. Len(dir.path)
      BY <1>2, <1>3, <1>4, <1>6, <2>2
    <3> HIDE DEF j
    <3>2. m.path[b + j] = key.path[a + j] /\ d.path[b + j] = dir.path[a + j]
      BY <1>2, <1>3, <3>1
    <3>3. key.path[a + j] = dir.path[a + j]
      BY <1>5, <3>1
    <3> QED
      BY <3>1, <3>2, <3>3
  <2> QED
    BY <1>3, <1>4, <2>1, <2>2
<1>9. Under(m, d)
  BY <1>2, <1>3, <1>7, <1>8, UnderNames
<1> QED
  BY <1>9 DEF m, d

-----------------------------------------------------------------------------
(* Trees that keep the files of open handles.                               *)

LEMMA StepKeeps ==
  ASSUME FileInv, UNCHANGED handles, Keeps(tree')
  PROVE  FileInv'
BY DEF FileInv, HandlesOK, Keeps

LEMMA SameFiles ==
  ASSUME NEW t, Keeps(t), NEW d
  PROVE  Keeps([files |-> t.files, dirs |-> d])
BY DEF Keeps, FilesOK

LEMMA EnsuredKeeps ==
  ASSUME NEW t, Keeps(t), NEW dirs
  PROVE  Keeps(Ensured(t, dirs)) /\ Ensured(t, dirs).files = t.files
<1>1. Ensured(t, dirs) = [files |-> t.files, dirs |-> Joined(t.dirs, [d \in dirs |-> clock])]
  BY DEF Keeps, FilesOK, Ensured
<1> QED
  BY <1>1, SameFiles

LEMMA DirsKeep ==
  ASSUME NEW t, Keeps(t), NEW d
  PROVE  Keeps([t EXCEPT !.dirs = d])
<1>1. [t EXCEPT !.dirs = d] = [files |-> t.files, dirs |-> d]
  BY DEF Keeps, FilesOK
<1> QED
  BY <1>1, SameFiles

\* More files.
LEMMA MoreFiles ==
  ASSUME NEW t, Keeps(t), NEW g, DOMAIN g \subseteq AllKeys,
         \A key \in DOMAIN g : IsFile(g[key])
  PROVE  Keeps([t EXCEPT !.files = Joined(@, g)])
<1> DEFINE files == Joined(t.files, g)
<1>1. [t EXCEPT !.files = Joined(@, g)] = [files |-> files, dirs |-> t.dirs]
  BY DEF Keeps, FilesOK
<1>2. /\ DOMAIN files = DOMAIN t.files \cup DOMAIN g
      /\ \A x \in DOMAIN t.files : files[x] = t.files[x]
      /\ \A x \in DOMAIN g \ DOMAIN t.files : files[x] = g[x]
  BY JoinedFacts
<1> HIDE DEF files
<1> QED
  BY <1>1, <1>2 DEF Keeps, FilesOK

\* A file changed in place.
LEMMA ChangedFile ==
  ASSUME NEW t, Keeps(t), NEW key \in DOMAIN t.files, NEW file, IsFile(file),
         file.identity = t.files[key].identity
  PROVE  Keeps([t EXCEPT !.files[key] = file])
<1> DEFINE files == [t.files EXCEPT ![key] = file]
<1>1. [t EXCEPT !.files[key] = file] = [files |-> files, dirs |-> t.dirs]
  BY DEF Keeps, FilesOK
<1>2. /\ DOMAIN files = DOMAIN t.files /\ files[key] = file
      /\ \A x \in DOMAIN t.files \ {key} : files[x] = t.files[x]
  OBVIOUS
<1> HIDE DEF files
<1> QED
  BY <1>1, <1>2 DEF Keeps, FilesOK

\* Fewer files, none of them open.
LEMMA FewerFiles ==
  ASSUME NEW t, Keeps(t), NEW S, \A id \in DOMAIN handles : handles[id].key \notin S, NEW d
  PROVE  Keeps([files |-> Without(t.files, S), dirs |-> d])
<1> DEFINE files == Without(t.files, S)
<1>1. /\ DOMAIN files = DOMAIN t.files \ S
      /\ \A x \in DOMAIN files : files[x] = t.files[x]
  BY DEF Without
<1> HIDE DEF files
<1>2. FilesOK([files |-> files, dirs |-> d])
  BY <1>1 DEF Keeps, FilesOK
<1> QED
  BY <1>1, <1>2 DEF Keeps, files

LEMMA PutKeeps ==
  ASSUME NEW t, Keeps(t), NEW key \in AllKeys, key \notin DOMAIN t.files, NEW size
  PROVE  /\ Keeps(PutNewFile(t, key, size).tree)
         /\ PutNewFile(t, key, size).ok => key \in DOMAIN PutNewFile(t, key, size).tree.files
<1> DEFINE made == Ensured(t, Ancestors(key))
           put == PutNewFile(t, key, size)
           one == [y \in {key} |-> NewFile(size)]
           grown == [made EXCEPT !.files = Added(@, key, NewFile(size))]
<1>1. Keeps(made)
  BY EnsuredKeeps
<1>2. Keeps(GiveUp(made, t))
  BY <1>1, DirsKeep DEF GiveUp
<1>3. DOMAIN one \subseteq AllKeys /\ \A y \in DOMAIN one : IsFile(one[y])
  BY DEF IsFile, NewFile
<1>4. Keeps([made EXCEPT !.files = Joined(@, one)])
  <2> HIDE DEF made, one
  <2> QED
    BY <1>1, <1>3, MoreFiles
<1>5. /\ grown = [made EXCEPT !.files = Joined(@, one)]
      /\ key \in DOMAIN grown.files
  <2> HIDE DEF made
  <2>1. made = [files |-> made.files, dirs |-> made.dirs]
    BY <1>1 DEF Keeps, FilesOK
  <2>2. Added(made.files, key, NewFile(size)) = Joined(made.files, one)
    BY DEF Added
  <2>3. key \in DOMAIN Added(made.files, key, NewFile(size))
    BY DEF Added, Joined
  <2> HIDE DEF one
  <2> QED
    BY <2>1, <2>2, <2>3
<1>6. \/ put = [ok |-> FALSE, tree |-> t]
      \/ put = [ok |-> FALSE, tree |-> GiveUp(made, t)]
      \/ put = [ok |-> TRUE, tree |-> grown]
  BY Zenon DEF PutNewFile
<1>7. Keeps(grown)
  BY <1>4, <1>5, Zenon
<1> HIDE DEF made, put, one, grown
<1> QED
  <2> SUFFICES Keeps(put.tree) /\ (put.ok => key \in DOMAIN put.tree.files)
    BY DEF put
  <2>1. CASE put = [ok |-> FALSE, tree |-> t]
    <3>1. put.tree = t /\ ~put.ok
      BY <2>1
    <3> QED
      BY <3>1, Zenon
  <2>2. CASE put = [ok |-> FALSE, tree |-> GiveUp(made, t)]
    <3>1. put.tree = GiveUp(made, t) /\ ~put.ok
      BY <2>2
    <3> QED
      BY <1>2, <3>1, Zenon
  <2>3. CASE put = [ok |-> TRUE, tree |-> grown]
    <3>1. put.tree = grown
      BY <2>3
    <3> QED
      BY <1>5, <1>7, <3>1, Zenon
  <2> QED
    BY <1>6, <2>1, <2>2, <2>3, Zenon

-----------------------------------------------------------------------------
(* The operations on files and handles.                                     *)

LEMMA KeysInAllKeys == Keys \subseteq AllKeys
BY KeysAssumption DEF AllKeys

LEMMA DirectorySteps ==
  ASSUME FileInv, NEW key \in Keys, MakeDirectory(key) \/ RemoveDirectory(key)
  PROVE  FileInv'
<1>1. Keeps(tree)
  BY DEF FileInv
<1>2. CASE MakeDirectory(key)
  BY <1>1, <1>2, EnsuredKeeps, StepKeeps DEF MakeDirectory, Does
<1>3. CASE RemoveDirectory(key)
  <2> DEFINE d == Without(tree.dirs, {key})
  <2>1. tree' = [tree EXCEPT !.dirs = d]
    BY <1>3 DEF RemoveDirectory, Does
  <2> QED
    BY <1>1, <1>3, <2>1, DirsKeep, StepKeeps DEF RemoveDirectory
<1> QED
  BY <1>2, <1>3

LEMMA TouchedFile ==
  ASSUME NEW file, NEW size
  PROVE  IsFile(Touched(file, size)) /\ Touched(file, size).identity = file.identity
BY DEF IsFile, Touched

LEMMA ResizedKeeps ==
  ASSUME Keeps(tree), NEW key \in DOMAIN tree.files, NEW size
  PROVE  Keeps(Resized(key, size))
<1> DEFINE file == Touched(tree.files[key], size)
<1>1. IsFile(file) /\ file.identity = tree.files[key].identity
  BY TouchedFile
<1>2. Resized(key, size) = [tree EXCEPT !.files[key] = file]
  BY DEF Resized
<1> HIDE DEF file
<1> QED
  BY <1>1, <1>2, ChangedFile

LEMMA WriteFileStep ==
  ASSUME FileInv, NEW key \in Keys, NEW size, WriteFile(key, size)
  PROVE  FileInv'
<1>1. Keeps(tree) /\ handles' = handles /\ key \in AllKeys
  BY KeysInAllKeys DEF FileInv, WriteFile
<1>2. CASE key \in DOMAIN tree.files
  <2>1. tree' = Resized(key, size)
    BY <1>2 DEF WriteFile, Does
  <2> QED
    BY <1>1, <1>2, <2>1, ResizedKeeps, StepKeeps
<1>3. CASE key \notin DOMAIN tree.files
  <2>1. tree' = PutNewFile(tree, key, size).tree
    BY <1>3 DEF WriteFile
  <2> QED
    BY <1>1, <1>3, <2>1, PutKeeps, StepKeeps
<1> QED
  BY <1>2, <1>3

LEMMA CloseStep ==
  ASSUME FileInv, NEW id, CloseFile(id)
  PROVE  FileInv'
<1>1. tree' = tree /\ handles' = Without(handles, {id})
  BY DEF CloseFile, Does
<1>2. /\ DOMAIN handles' = DOMAIN handles \ {id}
      /\ \A x \in DOMAIN handles' : handles'[x] = handles[x]
  BY <1>1 DEF Without
<1> QED
  BY <1>1, <1>2 DEF FileInv, HandlesOK, Keeps

\* Reading, writing and seeking move the position of a handle only.
LEMMA PositionMoves ==
  ASSUME FileInv, NEW id \in DOMAIN handles, NEW position,
         handles' = [handles EXCEPT ![id].position = position], Keeps(tree')
  PROVE  FileInv'
<1>1. Keeps(tree') = /\ FilesOK(tree')
                     /\ \A x \in DOMAIN handles :
                          /\ handles[x].key \in DOMAIN tree'.files
                          /\ tree'.files[handles[x].key].identity = handles[x].identity
  BY DEF Keeps
<1>2. /\ DOMAIN handles' = DOMAIN handles
      /\ \A x \in DOMAIN handles \ {id} : handles'[x] = handles[x]
      /\ handles'[id] = [handles[id] EXCEPT !.position = position]
  OBVIOUS
<1>3. IsHandle(handles[id])
  BY DEF FileInv, HandlesOK
<1>4. /\ IsHandle(handles'[id])
      /\ handles'[id].key = handles[id].key /\ handles'[id].identity = handles[id].identity
  BY <1>2, <1>3 DEF IsHandle
<1> QED
  BY <1>1, <1>2, <1>4 DEF FileInv, HandlesOK, Keeps

LEMMA ReadStep ==
  ASSUME FileInv, NEW id, NEW size, Read(id, size)
  PROVE  FileInv'
<1> DEFINE position == handles[id].position
           length == tree.files[handles[id].key].size
           next == position + Min({size, length - position})
<1>1. id \in DOMAIN handles /\ tree' = tree
  BY DEF Read, HasFile, Does
<1>2. handles' = [handles EXCEPT ![id].position = next]
  BY DEF Read
<1> HIDE DEF next
<1> QED
  BY <1>1, <1>2, PositionMoves DEF FileInv

LEMMA SeekStep ==
  ASSUME FileInv, NEW id, NEW position, Seek(id, position)
  PROVE  FileInv'
<1>1. /\ id \in DOMAIN handles /\ tree' = tree
      /\ handles' = [handles EXCEPT ![id].position = position]
  BY DEF Seek, HasFile, Does
<1> QED
  BY <1>1, PositionMoves DEF FileInv

LEMMA WriteStep ==
  ASSUME FileInv, NEW id, NEW size, Write(id, size)
  PROVE  FileInv'
<1> DEFINE key == handles[id].key
           length == tree.files[key].size
           end == size + IF "append" \in handles[id].mode THEN length ELSE handles[id].position
           most == Max({length, end})
<1>1. id \in DOMAIN handles /\ key \in DOMAIN tree.files
  BY DEF Write, HasFile
<1>2. tree' = Resized(key, most) /\ handles' = [handles EXCEPT ![id].position = end]
  BY DEF Write, Does
<1> HIDE DEF key, end, most
<1>3. Keeps(tree')
  BY <1>1, <1>2, ResizedKeeps DEF FileInv
<1> QED
  BY <1>1, <1>2, <1>3, PositionMoves

LEMMA DeleteStep ==
  ASSUME FileInv, NEW key \in Keys, Delete(key)
  PROVE  FileInv'
<1>1. /\ Keeps(tree) /\ UNCHANGED handles
      /\ \A id \in DOMAIN handles : handles[id].key \notin {key}
  BY DEF FileInv, Delete
<1>2. tree' = [files |-> Without(tree.files, {key}), dirs |-> tree.dirs]
  BY <1>1 DEF Delete, Does, Keeps, FilesOK
<1> QED
  BY <1>1, <1>2, FewerFiles, StepKeeps

\* A new handle: of the file with its identity.  Should its ID be taken, the
\* old handle would stay.
LEMMA OpenStep ==
  ASSUME FileInv, NEW key \in Keys, NEW mode, Open(key, mode)
  PROVE  FileInv'
<1> DEFINE put == IF key \in DOMAIN tree.files THEN [ok |-> TRUE, tree |-> tree]
                  ELSE PutNewFile(tree, key, 0)
           file == put.tree.files[key]
           opened == IF "truncate" \in mode THEN Touched(file, 0) ELSE file
           handle == [key |-> key, mode |-> mode, identity |-> opened.identity,
                      position |-> IF "append" \in mode THEN opened.size ELSE 0]
<1>1. \/ put.ok /\ tree' = [put.tree EXCEPT !.files[key] = opened]
                /\ handles' = Added(handles, NewID, handle)
      \/ tree' = put.tree /\ UNCHANGED handles
  BY Zenon DEF Open
<1>2. key \in AllKeys /\ Keeps(tree)
  BY KeysInAllKeys DEF FileInv
<1>3. Keeps(put.tree) /\ (put.ok => key \in DOMAIN put.tree.files)
  <2>1. CASE key \in DOMAIN tree.files
    <3>1. put.tree = tree
      BY <2>1
    <3> QED
      BY <1>2, <2>1, <3>1, Zenon
  <2>2. CASE key \notin DOMAIN tree.files
    <3>1. put = PutNewFile(tree, key, 0)
      BY <2>2
    <3> HIDE DEF put
    <3>2. Keeps(PutNewFile(tree, key, 0).tree)
      BY <1>2, <2>2, PutKeeps
    <3>3. PutNewFile(tree, key, 0).ok => key \in DOMAIN PutNewFile(tree, key, 0).tree.files
      BY <1>2, <2>2, PutKeeps
    <3> QED
      BY <3>1, <3>2, <3>3, Zenon
  <2> QED
    BY <2>1, <2>2
<1> HIDE DEF put
<1>4. CASE tree' = put.tree /\ UNCHANGED handles
  BY <1>3, <1>4, StepKeeps
<1>5. CASE put.ok /\ tree' = [put.tree EXCEPT !.files[key] = opened]
                  /\ handles' = Added(handles, NewID, handle)
  <2>1. key \in DOMAIN put.tree.files /\ IsFile(file)
    BY <1>3, <1>5 DEF Keeps, FilesOK
  <2>2. IsFile(opened) /\ opened.identity = file.identity
    BY <2>1, TouchedFile
  <2> HIDE DEF opened
  <2>3. Keeps(tree')
    BY <1>3, <1>5, <2>1, <2>2, ChangedFile
  <2>4. key \in DOMAIN tree'.files /\ tree'.files[key] = opened
    BY <1>3, <1>5, <2>1 DEF Keeps, FilesOK
  <2>5. IsHandle(handle) /\ handle.key = key /\ handle.identity = opened.identity
    BY <1>2 DEF IsHandle
  <2> HIDE DEF handle
  <2>6. /\ DOMAIN handles' = DOMAIN handles \cup {NewID}
        /\ \A x \in DOMAIN handles : handles'[x] = handles[x]
        /\ NewID \notin DOMAIN handles => handles'[NewID] = handle
    BY <1>5 DEF Added, Joined
  <2>7. \A x \in DOMAIN handles' : x \in DOMAIN handles \/ handles'[x] = handle
    BY <2>6, Zenon
  <2> QED
    BY <2>3, <2>4, <2>5, <2>6, <2>7 DEF FileInv, HandlesOK, Keeps
<1> QED
  BY <1>1, <1>4, <1>5

\* A file renamed with its handles.
LEMMA RenameStep ==
  ASSUME FileInv, NEW from \in Keys, NEW to \in Keys, Rename(from, to)
  PROVE  FileInv'
<1> DEFINE made == Ensured(tree, Ancestors(to))
           file == Touched(tree.files[from], tree.files[from].size)
           files == Added(Without(tree.files, {from}), to, file)
<1>1. /\ from \in DOMAIN tree.files /\ to \notin DOMAIN tree.files
      /\ Keeps(tree) /\ from \in AllKeys /\ to \in AllKeys
  BY KeysInAllKeys DEF Rename, Occupied, FileInv
<1>2. made = [files |-> tree.files, dirs |-> made.dirs]
  BY <1>1, EnsuredKeeps DEF Keeps, FilesOK
<1>3. tree' = [made EXCEPT !.files = Added(Without(@, {from}), to, Touched(@[from], @[from].size))]
  BY DEF Rename, Does
<1> HIDE DEF made
<1>4. tree' = [files |-> files, dirs |-> made.dirs]
  BY <1>2, <1>3
<1>5. IsFile(file) /\ file.identity = tree.files[from].identity
  BY TouchedFile
<1> HIDE DEF file
<1>6. /\ DOMAIN files = (DOMAIN tree.files \ {from}) \cup {to}
      /\ files[to] = file
      /\ \A x \in DOMAIN tree.files \ {from} : files[x] = tree.files[x]
  BY <1>1 DEF Added, Joined, Without
<1> HIDE DEF files
<1>7. FilesOK(tree')
  BY <1>1, <1>4, <1>5, <1>6 DEF Keeps, FilesOK
<1>8. handles' = [id \in DOMAIN handles |->
                    IF handles[id].key = from THEN [handles[id] EXCEPT !.key = to]
                    ELSE handles[id]]
  BY DEF Rename
<1>9. ASSUME NEW id \in DOMAIN handles'
      PROVE  /\ IsHandle(handles'[id]) /\ handles'[id].key \in DOMAIN files
             /\ files[handles'[id].key].identity = handles'[id].identity
  <2>1. /\ id \in DOMAIN handles /\ IsHandle(handles[id])
        /\ handles[id].key \in DOMAIN tree.files
        /\ tree.files[handles[id].key].identity = handles[id].identity
    BY <1>8 DEF FileInv, HandlesOK, Keeps
  <2>2. CASE handles[id].key = from
    <3>1. handles'[id] = [handles[id] EXCEPT !.key = to]
      BY <1>8, <2>1, <2>2
    <3>2. /\ IsHandle(handles'[id]) /\ handles'[id].key = to
          /\ handles'[id].identity = handles[id].identity
      BY <1>1, <2>1, <3>1 DEF IsHandle
    <3> QED
      BY <1>5, <1>6, <2>1, <2>2, <3>2
  <2>3. CASE handles[id].key # from
    <3>1. handles'[id] = handles[id]
      BY <1>8, <2>1, <2>3
    <3> QED
      BY <1>6, <2>1, <2>3, <3>1
  <2> QED
    BY <2>2, <2>3
<1> QED
  BY <1>4, <1>7, <1>9 DEF FileInv, HandlesOK, Keeps

\* A directory moved with all that is open in it.
LEMMA RenameDirectoryStep ==
  ASSUME FileInv, NEW from \in Keys, NEW to \in Keys, RenameDirectory(from, to)
  PROVE  FileInv'
<1> DEFINE inside == {key \in DOMAIN tree.files : Under(key, from)}
           arrived == {Moved(f, from, to) : f \in inside}
           there == [key \in arrived |->
                       LET file == tree.files[Moved(key, to, from)] IN Touched(file, file.size)]
           files == Joined(Without(tree.files, inside), there)
<1>1. /\ Keeps(tree) /\ from \in AllKeys /\ to \in AllKeys
      /\ \A key \in inside : Moved(key, from, to) \notin DOMAIN tree.files
  BY KeysInAllKeys DEF RenameDirectory, Occupied, FileInv
<1>2. PICK d : tree' = [files |-> files, dirs |-> d]
  BY Zenon DEF RenameDirectory, Does
<1>3. ASSUME NEW key \in inside
      PROVE  /\ Moved(key, from, to) \in AllKeys
             /\ Moved(Moved(key, from, to), to, from) = key
  BY <1>1, MovedBack DEF Keeps, FilesOK
<1>4. ASSUME NEW key \in inside
      PROVE  /\ Moved(key, from, to) \in arrived
             /\ there[Moved(key, from, to)] = Touched(tree.files[key], tree.files[key].size)
  BY <1>3
<1>5. arrived \subseteq AllKeys /\ \A key \in arrived : IsFile(there[key])
  BY <1>3, TouchedFile
<1>6. DOMAIN there = arrived /\ arrived \cap DOMAIN tree.files = {}
  BY <1>1
<1> HIDE DEF there, arrived
<1>7. /\ DOMAIN files = (DOMAIN tree.files \ inside) \cup arrived
      /\ \A x \in DOMAIN tree.files \ inside : files[x] = tree.files[x]
      /\ \A x \in arrived : files[x] = there[x]
  BY <1>6 DEF Joined, Without
<1> HIDE DEF files
<1>8. FilesOK(tree')
  BY <1>1, <1>2, <1>5, <1>7 DEF Keeps, FilesOK
<1>9. handles' = HandlesMoved(from, to)
  BY DEF RenameDirectory
<1>10. ASSUME NEW id \in DOMAIN handles'
       PROVE  /\ IsHandle(handles'[id]) /\ handles'[id].key \in DOMAIN files
              /\ files[handles'[id].key].identity = handles'[id].identity
  <2>1. /\ id \in DOMAIN handles /\ IsHandle(handles[id])
        /\ handles[id].key \in DOMAIN tree.files
        /\ tree.files[handles[id].key].identity = handles[id].identity
    BY <1>9 DEF FileInv, HandlesOK, Keeps, HandlesMoved
  <2>2. CASE Under(handles[id].key, from)
    <3> DEFINE key == handles[id].key
               moved == Moved(key, from, to)
    <3>1. handles'[id] = [handles[id] EXCEPT !.key = moved]
      BY <1>9, <2>1, <2>2 DEF HandlesMoved
    <3>2. /\ key \in inside /\ moved \in AllKeys /\ moved \in arrived
          /\ there[moved] = Touched(tree.files[key], tree.files[key].size)
      BY <1>3, <1>4, <2>1, <2>2
    <3> HIDE DEF moved
    <3>3. /\ IsHandle(handles'[id]) /\ handles'[id].key = moved
          /\ handles'[id].identity = handles[id].identity
      BY <2>1, <3>1, <3>2 DEF IsHandle
    <3> QED
      BY <1>7, <2>1, <3>2, <3>3, TouchedFile
  <2>3. CASE ~Under(handles[id].key, from)
    <3>1. handles'[id] = handles[id] /\ handles[id].key \notin inside
      BY <1>9, <2>1, <2>3 DEF HandlesMoved
    <3> QED
      BY <1>7, <2>1, <3>1
  <2> QED
    BY <2>2, <2>3
<1> QED
  BY <1>2, <1>8, <1>10 DEF FileInv, HandlesOK, Keeps

-----------------------------------------------------------------------------
(* Packages and restarts.                                                   *)

LEMMA WithPackageKeeps ==
  ASSUME NEW t, Keeps(t), NEW keys \in Packages
  PROVE  Keeps(WithPackage(t, keys))
<1> DEFINE g == [key \in keys |-> [size |-> 1, modified |-> clock, identity |-> 0]]
           more == [t EXCEPT !.files = Joined(@, g)]
<1>1. DOMAIN g \subseteq AllKeys /\ \A key \in DOMAIN g : IsFile(g[key])
  BY KeysAssumption, KeysInAllKeys DEF IsFile
<1>2. WithPackage(t, keys) = Ensured(more, UNION {Ancestors(key) : key \in keys})
  BY Zenon DEF WithPackage
<1> HIDE DEF g
<1>3. Keeps(more)
  BY <1>1, MoreFiles
<1> HIDE DEF more
<1> QED
  BY <1>2, <1>3, EnsuredKeeps

LEMMA PackageSteps ==
  ASSUME FileInv, NEW keys \in Packages, MountPackage(keys) \/ ReplacePackage(keys)
  PROVE  FileInv'
<1>1. Keeps(tree)
  BY DEF FileInv
<1>2. CASE MountPackage(keys)
  BY <1>1, <1>2, WithPackageKeeps, StepKeeps DEF MountPackage, Does
<1>3. CASE ReplacePackage(keys)
  <2> DEFINE S == DOMAIN PackageTree(tree).files
  <2>1. S = {k \in DOMAIN tree.files : k.ns = "package"}
    BY DEF PackageTree
  <2>2. \A id \in DOMAIN handles : handles[id].key \notin S
    BY <1>3, <2>1 DEF ReplacePackage
  <2>3. PICK d : MutableTree(tree) = [files |-> Without(tree.files, S), dirs |-> d]
    BY Zenon DEF MutableTree
  <2> HIDE DEF S
  <2>4. Keeps(MutableTree(tree))
    BY <1>1, <2>2, <2>3, FewerFiles
  <2> QED
    BY <1>3, <2>4, WithPackageKeeps, StepKeeps DEF ReplacePackage, Does
<1> QED
  BY <1>2, <1>3

LEMMA ClampedFiles ==
  ASSUME NEW t, FilesOK(t), NEW now
  PROVE  FilesOK(Clamped(t, now))
<1> DEFINE files == [key \in DOMAIN t.files |->
                       [t.files[key] EXCEPT !.modified = ClampTime(@, now)]]
<1>1. PICK d : Clamped(t, now) = [files |-> files, dirs |-> d]
  BY Zenon DEF Clamped
<1>2. ASSUME NEW key \in DOMAIN t.files
      PROVE  IsFile(files[key])
  <2>1. PICK a, b, c : t.files[key] = [size |-> a, modified |-> b, identity |-> c]
    BY Zenon DEF FilesOK, IsFile
  <2>2. files[key] = [t.files[key] EXCEPT !.modified = ClampTime(t.files[key].modified, now)]
    OBVIOUS
  <2>3. files[key] = [size |-> a, modified |-> ClampTime(t.files[key].modified, now), identity |-> c]
    BY <2>1, <2>2
  <2> QED
    BY <2>3 DEF IsFile
<1>3. DOMAIN files = DOMAIN t.files
  OBVIOUS
<1> HIDE DEF files
<1> QED
  BY <1>1, <1>2, <1>3 DEF FilesOK

LEMMA SomeFiles ==
  ASSUME NEW t, FilesOK(t)
  PROVE  FilesOK(PackageTree(t)) /\ FilesOK(Exported(t))
BY DEF FilesOK, PackageTree, Exported

LEMMA MergedFiles ==
  ASSUME NEW t, FilesOK(t), NEW u, FilesOK(u)
  PROVE  FilesOK(Merged(t, u))
<1> DEFINE files == Joined(t.files, u.files)
<1>1. PICK d : Merged(t, u) = [files |-> files, dirs |-> d]
  BY Zenon DEF Merged
<1>2. /\ DOMAIN files = DOMAIN t.files \cup DOMAIN u.files
      /\ \A x \in DOMAIN files : files[x] = IF x \in DOMAIN t.files THEN t.files[x] ELSE u.files[x]
  BY DEF Joined
<1> HIDE DEF files
<1> QED
  BY <1>1, <1>2 DEF FilesOK

LEMMA ResetFiles ==
  ASSUME FileInv, Reset
  PROVE  FileInv'
<1>1. FilesOK(Booted(tree))
  BY SomeFiles, ClampedFiles DEF FileInv, Keeps, Booted
<1>2. FilesOK(Merged(Booted(tree), Clamped(Exported(tree), 0)))
  BY <1>1, SomeFiles, ClampedFiles, MergedFiles DEF FileInv, Keeps
<1>3. FilesOK(tree')
  BY <1>1, <1>2 DEF Reset
<1>4. DOMAIN handles' = {}
  BY DEF Reset
<1> QED
  BY <1>3, <1>4 DEF FileInv, HandlesOK, Keeps

-----------------------------------------------------------------------------
(* Record stores.                                                           *)

LEMMA StoreSet ==
  ASSUME RecordInv, NEW name \in DOMAIN stores, NEW store, StoreOK(store),
         stores' = [stores EXCEPT ![name] = store]
  PROVE  RecordInv'
BY DEF RecordInv

LEMMA StoreSteps ==
  ASSUME RecordInv, NEW name \in StoreNames, CreateRecordStore(name) \/ DeleteRecordStore(name)
  PROVE  RecordInv'
<1>1. CASE CreateRecordStore(name)
  <2> DEFINE store == [id |-> NewID, nextID |-> 1, records |-> <<>>, given |-> {}]
  <2>1. StoreOK(store)
    BY DEF StoreOK
  <2>2. stores' = Added(stores, name, store) /\ name \notin DOMAIN stores
    BY <1>1 DEF CreateRecordStore
  <2> HIDE DEF store
  <2>3. /\ DOMAIN stores' = DOMAIN stores \cup {name} /\ stores'[name] = store
        /\ \A x \in DOMAIN stores : stores'[x] = stores[x]
    BY <2>2 DEF Added, Joined
  <2> QED
    BY <2>1, <2>3 DEF RecordInv
<1>2. CASE DeleteRecordStore(name)
  <2>1. stores' = Without(stores, {name})
    BY <1>2 DEF DeleteRecordStore
  <2> QED
    BY <2>1 DEF RecordInv, Without
<1> QED
  BY <1>1, <1>2

LEMMA AddRecordStep ==
  ASSUME RecordInv, NEW name, NEW size, AddRecord(name, size)
  PROVE  RecordInv'
<1> DEFINE old == stores[name]
           n == old.nextID
           store == [id |-> old.id, nextID |-> n + 1, records |-> Added(old.records, n, size),
                     given |-> old.given \cup {n}]
<1>1. name \in DOMAIN stores /\ StoreOK(old) /\ stores' = [stores EXCEPT ![name] = store]
  BY DEF AddRecord, SetStore, RecordInv
<1>2. /\ store.nextID = n + 1 /\ store.records = Added(old.records, n, size)
      /\ store.given = old.given \cup {n}
      /\ store = [id |-> store.id, nextID |-> store.nextID,
                  records |-> store.records, given |-> store.given]
  OBVIOUS
<1> HIDE DEF store
<1>3. DOMAIN Added(old.records, n, size) = DOMAIN old.records \cup {n}
  BY DEF Added, Joined
<1>4. StoreOK(store)
  <2>1. n \in Nat \ {0} /\ old.given \subseteq 0 .. n - 1 /\ DOMAIN old.records \subseteq old.given
    BY <1>1 DEF StoreOK
  <2>2. store.given \subseteq 0 .. store.nextID - 1 /\ store.nextID \in Nat \ {0}
    BY <1>2, <2>1
  <2>3. DOMAIN store.records \subseteq store.given
    BY <1>2, <1>3, <2>1
  <2> QED
    BY <1>2, <2>2, <2>3 DEF StoreOK
<1> QED
  BY <1>1, <1>4, StoreSet

\* Changing or deleting a record, and importing a store under another ID, hand
\* nothing out.
LEMMA SameGiven ==
  ASSUME NEW old, StoreOK(old), NEW store, NEW id, NEW records,
         store = [id |-> id, nextID |-> old.nextID, records |-> records, given |-> old.given],
         DOMAIN records \subseteq DOMAIN old.records
  PROVE  StoreOK(store)
BY DEF StoreOK

LEMMA RecordSteps ==
  ASSUME RecordInv, NEW name, NEW record, NEW size,
         SetRecord(name, record, size) \/ DeleteRecord(name, record)
  PROVE  RecordInv'
<1> DEFINE old == stores[name]
<1>1. name \in DOMAIN stores /\ StoreOK(old)
  BY DEF SetRecord, DeleteRecord, RecordInv
<1>2. CASE SetRecord(name, record, size)
  <2> DEFINE records == [old.records EXCEPT ![record] = size]
             store == [old EXCEPT !.records[record] = size]
  <2>1. stores' = [stores EXCEPT ![name] = store]
    BY <1>2 DEF SetRecord, SetStore
  <2>2. store = [id |-> old.id, nextID |-> old.nextID, records |-> records, given |-> old.given]
    BY <1>1 DEF StoreOK
  <2>3. DOMAIN records \subseteq DOMAIN old.records
    OBVIOUS
  <2> HIDE DEF store, records
  <2>4. StoreOK(store)
    BY <1>1, <2>2, <2>3, SameGiven
  <2> QED
    BY <1>1, <2>1, <2>4, StoreSet
<1>3. CASE DeleteRecord(name, record)
  <2> DEFINE records == Without(old.records, {record})
             store == [old EXCEPT !.records = Without(@, {record})]
  <2>1. stores' = [stores EXCEPT ![name] = store]
    BY <1>3 DEF DeleteRecord, SetStore
  <2>2. store = [id |-> old.id, nextID |-> old.nextID, records |-> records, given |-> old.given]
    BY <1>1 DEF StoreOK
  <2>3. DOMAIN records \subseteq DOMAIN old.records
    BY DEF Without
  <2> HIDE DEF store, records
  <2>4. StoreOK(store)
    BY <1>1, <2>2, <2>3, SameGiven
  <2> QED
    BY <1>1, <2>1, <2>4, StoreSet
<1> QED
  BY <1>2, <1>3

LEMMA ReplaceStep ==
  ASSUME RecordInv, NEW name, NEW next \in 1 .. MaxRecordID, NEW n \in 0 .. MaxRecords,
         NEW records \in [0 .. n - 1 -> 0 .. MaxRecordBytes], ReplaceRecords(name, next, records)
  PROVE  RecordInv'
<1> DEFINE store == [id |-> stores[name].id, nextID |-> next, records |-> records,
                     given |-> DOMAIN records]
<1>1. /\ name \in DOMAIN stores /\ stores' = [stores EXCEPT ![name] = store]
      /\ \A record \in DOMAIN records : record < next
  BY DEF ReplaceRecords, SetStore
<1>2. next \in Nat \ {0} /\ n \in Nat
  BY StorageAssumption
<1>3. DOMAIN records \subseteq 0 .. next - 1
  BY <1>1, <1>2
<1>4. StoreOK(store)
  BY <1>2, <1>3 DEF StoreOK
<1> HIDE DEF store
<1> QED
  BY <1>1, <1>4, StoreSet

LEMMA ResetRecords ==
  ASSUME RecordInv, Reset
  PROVE  RecordInv'
<1>1. CASE DOMAIN stores' = {}
  BY <1>1 DEF RecordInv
<1>2. CASE \E ids : stores' = [name \in DOMAIN stores |-> ImportedStore(stores[name], ids[name])]
  <2>1. PICK ids : stores' = [name \in DOMAIN stores |-> ImportedStore(stores[name], ids[name])]
    BY <1>2
  <2>2. ASSUME NEW name \in DOMAIN stores'  PROVE StoreOK(stores'[name])
    <3> DEFINE old == stores[name]
    <3>1. name \in DOMAIN stores /\ StoreOK(old) /\ stores'[name] = [old EXCEPT !.id = ids[name]]
      BY <2>1 DEF RecordInv, ImportedStore
    <3>2. stores'[name] = [id |-> ids[name], nextID |-> old.nextID,
                           records |-> old.records, given |-> old.given]
      BY <3>1 DEF StoreOK
    <3> HIDE DEF old
    <3> QED
      BY <3>1, <3>2, SameGiven
  <2> QED
    BY <2>2 DEF RecordInv
<1>3. DOMAIN stores' = {} \/ \E ids : stores' = [name \in DOMAIN stores |-> ImportedStore(stores[name], ids[name])]
  <2>1. CASE CanImport(Booted(tree), Exported(tree), stores)
    BY <2>1, Zenon DEF Reset
  <2>2. CASE ~CanImport(Booted(tree), Exported(tree), stores)
    <3>1. stores' = <<>>
      BY <2>2, Zenon DEF Reset
    <3> QED
      BY <3>1
  <2> QED
    BY <2>1, <2>2
<1> QED
  BY <1>1, <1>2, <1>3

-----------------------------------------------------------------------------
(***************************************************************************)
(* What a snapshot is checked for.  The invariant of the tree: files and    *)
(* directories are finitely many different keys, every file is in           *)
(* directories that exist, no file is too long, no time is in the future,   *)
(* and all of them are within the limits on number and bytes.               *)
(***************************************************************************)

IsTree(t, now) ==
  /\ t = [files |-> t.files, dirs |-> t.dirs]
  /\ DOMAIN t.files \subseteq AllKeys /\ DOMAIN t.dirs \subseteq AllKeys
  /\ IsFiniteSet(DOMAIN t.files) /\ IsFiniteSet(DOMAIN t.dirs)
  /\ \A key \in DOMAIN t.files :
       t.files[key].size \in 0 .. MaxFileBytes /\ t.files[key].modified \in 0 .. now
  /\ \A key \in DOMAIN t.dirs : t.dirs[key] \in 0 .. now
  /\ DOMAIN t.files \cap DOMAIN t.dirs = {}
  /\ ParentsExist(t)

Within(t) == Count(t) <= MaxFiles /\ Used(t) <= MaxStorageBytes

TreeInv == clock \in Nat /\ IsTree(tree, clock) /\ Within(tree)

HandleInv ==
  /\ IsFiniteSet(DOMAIN handles) /\ Cardinality(DOMAIN handles) <= MaxOpenHandles
  /\ \A id \in DOMAIN handles :
       /\ handles[id].position \in 0 .. MaxFileBytes
       /\ "write" \in handles[id].mode => Writable(handles[id].key.ns)

StoresInv ==
  /\ IsFiniteSet(DOMAIN stores) /\ Cardinality(DOMAIN stores) <= MaxRecordStores
  /\ \A name \in DOMAIN stores :
       IsWeight(stores[name].records) /\ RecordsAccepted(stores[name])

\* Handles and stores have IDs of their own, and there are no other IDs.
IDsInv ==
  /\ registered = DOMAIN handles \cup {stores[name].id : name \in DOMAIN stores}
  /\ \A name \in DOMAIN stores : stores[name].id \notin DOMAIN handles
  /\ \A m, n \in DOMAIN stores : stores[m].id = stores[n].id => m = n

SnapshotInv == TreeInv /\ HandleInv /\ StoresInv /\ IDsInv

Sizes(t) == [key \in DOMAIN t.files |-> t.files[key].size]

LEMMA TreeNumbers ==
  ASSUME NEW t, NEW now, IsTree(t, now)
  PROVE  /\ IsWeight(Sizes(t)) /\ Used(t) = TotalOf(Sizes(t)) /\ Used(t) \in Nat
         /\ Cardinality(DOMAIN t.files) \in Nat /\ Cardinality(DOMAIN t.dirs) \in Nat
         /\ Count(t) = Cardinality(DOMAIN t.files) + Cardinality(DOMAIN t.dirs)
         /\ Count(t) \in Nat
<1>1. /\ IsFiniteSet(DOMAIN t.files) /\ IsFiniteSet(DOMAIN t.dirs)
      /\ \A key \in DOMAIN t.files : t.files[key].size \in Nat
  BY StorageAssumption DEF IsTree
<1>2. IsWeight(Sizes(t))
  BY <1>1 DEF Sizes, IsWeight
<1>3. Used(t) = TotalOf(Sizes(t))
  BY DEF Used, Sizes
<1>4. Used(t) \in Nat
  BY <1>2, <1>3, TotalType
<1>5. Cardinality(DOMAIN t.files) \in Nat /\ Cardinality(DOMAIN t.dirs) \in Nat
  BY <1>1, FS_CardinalityType
<1>6. Count(t) = Cardinality(DOMAIN t.files) + Cardinality(DOMAIN t.dirs)
  BY DEF Count
<1> QED
  BY <1>2, <1>3, <1>4, <1>5, <1>6

\* The same files and directories, or some of them, under other keys: within
\* the limits still.
LEMMA Rearranged ==
  ASSUME NEW t, NEW now, IsTree(t, now), Within(t), NEW u, NEW later, NEW h, NEW g,
         u = [files |-> u.files, dirs |-> u.dirs],
         DOMAIN u.files \subseteq AllKeys, DOMAIN u.dirs \subseteq AllKeys,
         \A x \in DOMAIN u.files :
           /\ h[x] \in DOMAIN t.files /\ u.files[x].size = t.files[h[x]].size
           /\ u.files[x].modified \in 0 .. later,
         \A x, y \in DOMAIN u.files : h[x] = h[y] => x = y,
         \A x \in DOMAIN u.dirs : g[x] \in DOMAIN t.dirs /\ u.dirs[x] \in 0 .. later,
         \A x, y \in DOMAIN u.dirs : g[x] = g[y] => x = y,
         DOMAIN u.files \cap DOMAIN u.dirs = {}, ParentsExist(u)
  PROVE  IsTree(u, later) /\ Within(u)
<1>1. /\ IsWeight(Sizes(t)) /\ Used(t) = TotalOf(Sizes(t)) /\ Used(t) \in Nat
      /\ Cardinality(DOMAIN t.files) \in Nat /\ Cardinality(DOMAIN t.dirs) \in Nat
      /\ Count(t) = Cardinality(DOMAIN t.files) + Cardinality(DOMAIN t.dirs)
  BY TreeNumbers
<1>2. IsFiniteSet(DOMAIN t.files) /\ IsFiniteSet(DOMAIN t.dirs)
  BY DEF IsTree
<1>3. /\ IsFiniteSet(DOMAIN u.files) /\ Cardinality(DOMAIN u.files) \in Nat
      /\ Cardinality(DOMAIN u.files) <= Cardinality(DOMAIN t.files)
  BY <1>2, Embedded
<1>4. /\ IsFiniteSet(DOMAIN u.dirs) /\ Cardinality(DOMAIN u.dirs) \in Nat
      /\ Cardinality(DOMAIN u.dirs) <= Cardinality(DOMAIN t.dirs)
  BY <1>2, Embedded
<1>5. \A x \in DOMAIN u.files : u.files[x].size \in 0 .. MaxFileBytes
  BY DEF IsTree
<1>6. IsTree(u, later)
  BY <1>3, <1>4, <1>5 DEF IsTree
<1>7. Used(u) = TotalOf(Sizes(u))
  BY DEF Used, Sizes
<1>8. TotalOf(Sizes(u)) \in Nat /\ TotalOf(Sizes(u)) <= TotalOf(Sizes(t))
  <2> DEFINE w == Sizes(t)
             v == Sizes(u)
  <2>1. /\ DOMAIN v = DOMAIN u.files /\ \A x \in DOMAIN v : v[x] = u.files[x].size
        /\ DOMAIN w = DOMAIN t.files /\ \A x \in DOMAIN w : w[x] = t.files[x].size
    BY DEF Sizes
  <2>2. IsWeight(w)
    BY <1>1
  <2> HIDE DEF v, w
  <2>3. \A x \in DOMAIN w : w[x] \in Nat
    BY <2>2 DEF IsWeight
  <2>4. ASSUME NEW x \in DOMAIN v
        PROVE  h[x] \in DOMAIN w /\ v[x] \in Nat /\ v[x] <= w[h[x]]
    <3>1. h[x] \in DOMAIN w /\ v[x] = w[h[x]]
      BY <2>1
    <3> DEFINE n == w[h[x]]
    <3>2. n \in Nat
      BY <2>3, <3>1
    <3> HIDE DEF n
    <3>3. n <= n
      BY <3>2
    <3> QED
      BY <3>1, <3>2, <3>3 DEF n
  <2>5. \A x, y \in DOMAIN v : h[x] = h[y] => x = y
    BY <2>1
  <2>6. TotalOf(v) \in Nat /\ TotalOf(v) <= TotalOf(w)
    BY <2>2, <2>4, <2>5, TotalBound
  <2> QED
    BY <2>6 DEF v, w
<1>9. Count(u) = Cardinality(DOMAIN u.files) + Cardinality(DOMAIN u.dirs)
  BY DEF Count
<1>10. Count(u) <= Count(t) /\ Count(u) \in Nat /\ Count(t) \in Nat
  BY <1>1, <1>3, <1>4, <1>9
<1>11. MaxFiles \in Nat /\ MaxStorageBytes \in Nat
  BY StorageAssumption
<1>12. Count(u) <= MaxFiles
  BY <1>10, <1>11 DEF Within
<1>13. Used(u) <= MaxStorageBytes
  BY <1>1, <1>7, <1>8, <1>11 DEF Within
<1> QED
  BY <1>6, <1>12, <1>13 DEF Within

\* Some of the files and directories.
LEMMA Fewer ==
  ASSUME NEW t, NEW now, IsTree(t, now), Within(t), NEW u, NEW later,
         u = [files |-> u.files, dirs |-> u.dirs],
         \A x \in DOMAIN u.files :
           /\ x \in DOMAIN t.files /\ u.files[x].size = t.files[x].size
           /\ u.files[x].modified \in 0 .. later,
         \A x \in DOMAIN u.dirs : x \in DOMAIN t.dirs /\ u.dirs[x] \in 0 .. later,
         ParentsExist(u)
  PROVE  IsTree(u, later) /\ Within(u)
<1> DEFINE h == [x \in AllKeys |-> x]
<1>1. \A x \in AllKeys : h[x] = x
  OBVIOUS
<1> HIDE DEF h
<1>2. /\ DOMAIN u.files \subseteq AllKeys /\ DOMAIN u.dirs \subseteq AllKeys
      /\ DOMAIN u.files \cap DOMAIN u.dirs = {}
  BY DEF IsTree
<1>3. \A x \in DOMAIN u.files :
        /\ h[x] \in DOMAIN t.files /\ u.files[x].size = t.files[h[x]].size
        /\ u.files[x].modified \in 0 .. later
  BY <1>1, <1>2
<1>4. \A x \in DOMAIN u.dirs : h[x] \in DOMAIN t.dirs /\ u.dirs[x] \in 0 .. later
  BY <1>1, <1>2
<1>5. /\ \A x, y \in DOMAIN u.files : h[x] = h[y] => x = y
      /\ \A x, y \in DOMAIN u.dirs : h[x] = h[y] => x = y
  BY <1>1, <1>2
<1> QED
  BY <1>2, <1>3, <1>4, <1>5, Rearranged

\* Directories made, with all that are missing around them.
LEMMA EnsuredTree ==
  ASSUME NEW t, IsTree(t, clock), Within(t), clock \in Nat,
         NEW D, IsFiniteSet(D), D \subseteq AllKeys,
         \A d \in D : Ancestors(d) \subseteq D \cup DOMAIN t.dirs,
         D \cap DOMAIN t.files = {}
  PROVE  LET u == Ensured(t, D)
         IN  /\ u = [files |-> t.files, dirs |-> u.dirs]
             /\ u.files = t.files /\ DOMAIN u.dirs = DOMAIN t.dirs \cup D
             /\ IsTree(u, clock)
             /\ CanEnsure(t, D) => Within(u)
<1> DEFINE u == Ensured(t, D)
           more == [d \in D |-> clock]
           dirs == Joined(t.dirs, more)
<1>1. u = [files |-> t.files, dirs |-> dirs]
  BY DEF IsTree, Ensured
<1>2. DOMAIN dirs = DOMAIN t.dirs \cup D /\ \A d \in DOMAIN dirs : dirs[d] \in 0 .. clock
  BY DEF Joined, IsTree
<1> HIDE DEF dirs, more
<1>3. u.files = t.files /\ u.dirs = dirs
  BY <1>1
<1> HIDE DEF u
<1>4. ParentsExist(u)
  BY <1>2, <1>3 DEF ParentsExist, Occupied, IsTree
<1>5. IsFiniteSet(DOMAIN u.dirs)
  <2>1. IsFiniteSet(DOMAIN t.dirs)
    BY DEF IsTree
  <2>2. IsFiniteSet(DOMAIN t.dirs \cup D)
    BY <2>1, FS_Union
  <2> QED
    BY <1>2, <1>3, <2>2
<1>6. IsTree(u, clock)
  BY <1>1, <1>2, <1>3, <1>4, <1>5 DEF IsTree
<1>7. ASSUME CanEnsure(t, D) PROVE Within(u)
  <2>1. Used(u) = Used(t)
    BY <1>3 DEF Used
  <2>2. CASE D = {}
    <3>1. DOMAIN u.dirs = DOMAIN t.dirs
      BY <1>2, <1>3, <2>2
    <3>2. Count(u) = Count(t)
      BY <1>3, <3>1 DEF Count
    <3> QED
      BY <2>1, <3>2 DEF Within
  <2>3. CASE D # {}
    <3>1. Count(u) <= MaxFiles
      BY <1>7, <2>3 DEF CanEnsure, u
    <3> QED
      BY <2>1, <3>1 DEF Within
  <2> QED
    BY <2>2, <2>3
<1>8. /\ u = [files |-> t.files, dirs |-> u.dirs]
      /\ u.files = t.files /\ DOMAIN u.dirs = DOMAIN t.dirs \cup D
  BY <1>1, <1>2, <1>3
<1> QED
  BY <1>6, <1>7, <1>8, Zenon DEF u

\* The directories around a key.
LEMMA EnsuredParents ==
  ASSUME NEW t, IsTree(t, clock), Within(t), clock \in Nat,
         NEW key \in AllKeys, CanEnsure(t, Ancestors(key))
  PROVE  LET u == Ensured(t, Ancestors(key))
         IN  /\ u = [files |-> t.files, dirs |-> u.dirs]
             /\ u.files = t.files /\ DOMAIN u.dirs = DOMAIN t.dirs \cup Ancestors(key)
             /\ IsTree(u, clock) /\ Within(u)
<1> DEFINE D == Ancestors(key)
<1>1. IsFiniteSet(D) /\ D \subseteq AllKeys
  BY AncestorsAre
<1>2. \A d \in D : Ancestors(d) \subseteq D \cup DOMAIN t.dirs
  BY AncestorsClosed
<1>3. D \cap DOMAIN t.files = {}
  BY DEF CanEnsure
<1> HIDE DEF D
<1> QED
  BY <1>1, <1>2, <1>3, EnsuredTree DEF D

\* A file put where its directories are, in place of the one that was there.
LEMMA FilePlaced ==
  ASSUME NEW t, NEW now, IsTree(t, now), NEW key \in AllKeys,
         key \notin DOMAIN t.dirs, Ancestors(key) \subseteq DOMAIN t.dirs,
         NEW u, u = [files |-> u.files, dirs |-> t.dirs],
         DOMAIN u.files = DOMAIN t.files \cup {key},
         u.files[key].size \in 0 .. MaxFileBytes, u.files[key].modified \in 0 .. now,
         \A x \in DOMAIN t.files \ {key} : u.files[x] = t.files[x]
  PROVE  /\ IsTree(u, now)
         /\ key \in DOMAIN t.files =>
              /\ Count(u) = Count(t) /\ t.files[key].size \in Nat
              /\ Used(u) = Used(t) - t.files[key].size + u.files[key].size
         /\ key \notin DOMAIN t.files =>
              Count(u) = Count(t) + 1 /\ Used(u) = Used(t) + u.files[key].size
<1>1. u.dirs = t.dirs
  OBVIOUS
<1>2. IsFiniteSet(DOMAIN t.files)
  BY DEF IsTree
<1>3. /\ IsFiniteSet(DOMAIN u.files)
      /\ Cardinality(DOMAIN u.files) =
           IF key \in DOMAIN t.files THEN Cardinality(DOMAIN t.files)
           ELSE Cardinality(DOMAIN t.files) + 1
  BY <1>2, FS_AddElement
<1>4. ParentsExist(u)
  BY <1>1 DEF ParentsExist, Occupied, IsTree
<1>5. IsTree(u, now)
  <2>1. \A x \in DOMAIN u.files :
          u.files[x].size \in 0 .. MaxFileBytes /\ u.files[x].modified \in 0 .. now
    BY DEF IsTree
  <2>2. DOMAIN u.files \subseteq AllKeys /\ DOMAIN u.files \cap DOMAIN u.dirs = {}
    BY <1>1 DEF IsTree
  <2> QED
    BY <1>1, <1>3, <1>4, <2>1, <2>2 DEF IsTree
<1> DEFINE w == Sizes(t)
           v == Sizes(u)
<1>6. /\ IsWeight(w) /\ Used(t) = TotalOf(w)
      /\ Cardinality(DOMAIN t.files) \in Nat /\ Cardinality(DOMAIN t.dirs) \in Nat
      /\ Count(t) = Cardinality(DOMAIN t.files) + Cardinality(DOMAIN t.dirs)
  BY TreeNumbers
<1>7. /\ IsWeight(v) /\ Used(u) = TotalOf(v)
      /\ Count(u) = Cardinality(DOMAIN u.files) + Cardinality(DOMAIN u.dirs)
  BY <1>5, TreeNumbers
<1>8. /\ DOMAIN v = DOMAIN u.files /\ \A x \in DOMAIN v : v[x] = u.files[x].size
      /\ DOMAIN w = DOMAIN t.files /\ \A x \in DOMAIN w : w[x] = t.files[x].size
  BY DEF Sizes
<1> HIDE DEF v, w
<1>9. CASE key \in DOMAIN t.files
  <2>1. DOMAIN v = DOMAIN w /\ key \in DOMAIN w /\ \A x \in DOMAIN w \ {key} : v[x] = w[x]
    BY <1>8, <1>9
  <2>2. v[key] \in Nat /\ w[key] \in Nat
    BY <1>6, <1>7, <2>1 DEF IsWeight
  <2>3. TotalOf(v) = TotalOf(w) - w[key] + v[key]
    BY <1>6, <2>1, <2>2, TotalChange
  <2>4. Count(u) = Count(t)
    BY <1>1, <1>3, <1>6, <1>7, <1>9
  <2> QED
    BY <1>5, <1>6, <1>7, <1>8, <1>9, <2>1, <2>2, <2>3, <2>4
<1>10. CASE key \notin DOMAIN t.files
  <2>1. key \in DOMAIN v /\ DOMAIN w = DOMAIN v \ {key} /\ \A x \in DOMAIN w : w[x] = v[x]
    BY <1>8, <1>10
  <2>2. TotalOf(v) = TotalOf(w) + v[key]
    BY <1>7, <2>1, TotalSplit
  <2>3. Count(u) = Count(t) + 1
    BY <1>1, <1>3, <1>6, <1>7, <1>10
  <2> QED
    BY <1>5, <1>6, <1>7, <1>8, <1>10, <2>1, <2>2, <2>3
<1> QED
  BY <1>9, <1>10

\* putNewFile: the whole of it or nothing.
LEMMA PutTree ==
  ASSUME NEW t, IsTree(t, clock), Within(t), clock \in Nat, FilesOK(t),
         NEW key \in AllKeys, key \notin Occupied(t), NEW size \in Nat
  PROVE  LET put == PutNewFile(t, key, size)
         IN  /\ put.ok \in BOOLEAN
             /\ IsTree(put.tree, clock) /\ Within(put.tree)
             /\ ~put.ok => put.tree = t
             /\ put.ok => /\ key \in DOMAIN put.tree.files
                          /\ put.tree.files[key].size = size
<1> DEFINE made == Ensured(t, Ancestors(key))
           put == PutNewFile(t, key, size)
           file == NewFile(size)
           files == Added(made.files, key, file)
           grown == [made EXCEPT !.files = Added(@, key, file)]
           TooBig == \/ size > MaxFileBytes \/ Used(t) + size > MaxStorageBytes
                     \/ ~CanEnsure(t, Ancestors(key))
           Crowded == Count(made) >= MaxFiles
<1>1. put = IF TooBig THEN [ok |-> FALSE, tree |-> t]
            ELSE IF Crowded THEN [ok |-> FALSE, tree |-> GiveUp(made, t)]
            ELSE [ok |-> TRUE, tree |-> grown]
  BY Zenon DEF PutNewFile
<1>2. GiveUp(made, t) = t
  <2>1. made = [files |-> t.files, dirs |-> made.dirs]
    <3>1. made = [files |-> t.files, dirs |-> Joined(t.dirs, [d \in Ancestors(key) |-> clock])]
      BY DEF IsTree, Ensured
    <3> HIDE DEF made
    <3> QED
      BY <3>1
  <2> HIDE DEF made
  <2>2. [made EXCEPT !.dirs = t.dirs] = [files |-> t.files, dirs |-> t.dirs]
    BY <2>1
  <2> QED
    BY <2>2 DEF GiveUp, IsTree
<1>3. CASE TooBig \/ Crowded
  <2>1. put = [ok |-> FALSE, tree |-> t]
    BY <1>1, <1>2, <1>3, Zenon
  <2> HIDE DEF put
  <2>2. ~put.ok /\ put.ok \in BOOLEAN /\ put.tree = t
    BY <2>1
  <2> QED
    BY <2>2, Zenon DEF put
<1>4. CASE ~TooBig /\ ~Crowded
  <2>1. put = [ok |-> TRUE, tree |-> grown]
    BY <1>1, <1>4, Zenon
  <2>2. /\ made = [files |-> t.files, dirs |-> made.dirs]
        /\ made.files = t.files /\ DOMAIN made.dirs = DOMAIN t.dirs \cup Ancestors(key)
        /\ IsTree(made, clock) /\ Within(made)
    BY <1>4, EnsuredParents
  <2>3. size <= MaxFileBytes /\ Used(t) + size <= MaxStorageBytes /\ ~(Count(made) >= MaxFiles)
    BY <1>4, StorageAssumption, TreeNumbers
  <2>4. key \notin DOMAIN made.dirs /\ key \notin DOMAIN made.files
    BY <2>2, AncestorsClosed DEF Occupied
  <2> HIDE DEF made
  <2>5. grown = [files |-> files, dirs |-> made.dirs]
    BY <2>2
  <2>6. /\ DOMAIN files = DOMAIN made.files \cup {key} /\ files[key] = file
        /\ \A x \in DOMAIN made.files \ {key} : files[x] = made.files[x]
    BY <2>4 DEF Added, Joined
  <2>7. file.size = size /\ file.modified = clock
    BY DEF NewFile
  <2> HIDE DEF files, grown, file
  <2>8. grown.files = files /\ grown = [files |-> grown.files, dirs |-> made.dirs]
    BY <2>5
  <2>9. clock \in 0 .. clock /\ size \in 0 .. MaxFileBytes
    BY <2>3, StorageAssumption
  <2>10. Ancestors(key) \subseteq DOMAIN made.dirs
    BY <2>2
  <2>11. /\ IsTree(grown, clock)
         /\ Count(grown) = Count(made) + 1 /\ Used(grown) = Used(made) + size
    BY <2>2, <2>4, <2>6, <2>7, <2>8, <2>9, <2>10, FilePlaced
  <2>12. Used(made) = Used(t)
    BY <2>2 DEF Used
  <2>13. Count(made) \in Nat
    BY <2>2, TreeNumbers
  <2>14. Within(grown)
    BY <2>3, <2>11, <2>12, <2>13, StorageAssumption DEF Within
  <2>15. key \in DOMAIN grown.files /\ grown.files[key].size = size
    BY <2>6, <2>7, <2>8
  <2> HIDE DEF put
  <2>16. put.ok = TRUE /\ put.tree = grown
    BY <2>1
  <2> QED
    BY <2>11, <2>14, <2>15, <2>16, Zenon DEF put
<1> QED
  BY <1>3, <1>4, Zenon

\* A file of the tree, with another size.
LEMMA ResizedTree ==
  ASSUME NEW t, IsTree(t, clock), Within(t), clock \in Nat, NEW key \in DOMAIN t.files,
         NEW size \in 0 .. MaxFileBytes,
         \/ Used(t) - t.files[key].size + size <= MaxStorageBytes
         \/ size <= t.files[key].size,
         NEW file, file.size = size, file.modified \in 0 .. clock
  PROVE  LET u == [t EXCEPT !.files[key] = file]
         IN  IsTree(u, clock) /\ Within(u) /\ u.files[key] = file /\ DOMAIN u.files = DOMAIN t.files
<1> DEFINE files == [t.files EXCEPT ![key] = file]
           u == [t EXCEPT !.files[key] = file]
<1>1. u = [files |-> files, dirs |-> t.dirs]
  BY DEF IsTree
<1>2. /\ DOMAIN files = DOMAIN t.files /\ files[key] = file
      /\ \A x \in DOMAIN t.files \ {key} : files[x] = t.files[x]
  OBVIOUS
<1> HIDE DEF files
<1>3. u.files = files /\ u = [files |-> u.files, dirs |-> t.dirs]
  BY <1>1
<1> HIDE DEF u
<1>4. /\ key \in AllKeys /\ key \notin DOMAIN t.dirs /\ Ancestors(key) \subseteq DOMAIN t.dirs
  BY DEF IsTree, ParentsExist, Occupied
<1>5. DOMAIN u.files = DOMAIN t.files \cup {key}
  BY <1>2, <1>3
<1>6. /\ IsTree(u, clock) /\ Count(u) = Count(t) /\ t.files[key].size \in Nat
      /\ Used(u) = Used(t) - t.files[key].size + size
  <2>1. /\ u.files[key].size = size /\ u.files[key].modified \in 0 .. clock
        /\ \A x \in DOMAIN t.files \ {key} : u.files[x] = t.files[x]
    BY <1>2, <1>3
  <2>2. u.files[key].size \in 0 .. MaxFileBytes
    BY <2>1
  <2>3. /\ IsTree(u, clock) /\ Count(u) = Count(t) /\ t.files[key].size \in Nat
        /\ Used(u) = Used(t) - t.files[key].size + u.files[key].size
    BY <1>3, <1>4, <1>5, <2>1, <2>2, FilePlaced
  <2> QED
    BY <2>1, <2>3
<1>7. Used(t) \in Nat
  BY TreeNumbers
<1>8. Used(u) <= MaxStorageBytes
  <2> DEFINE old == t.files[key].size
             used == Used(t)
             after == Used(u)
  <2>1. /\ old \in Nat /\ used \in Nat /\ after = used - old + size /\ used <= MaxStorageBytes
        /\ used - old + size <= MaxStorageBytes \/ size <= old
    BY <1>6, <1>7 DEF Within
  <2> HIDE DEF old, used, after
  <2>2. after <= MaxStorageBytes
    BY <2>1, StorageAssumption
  <2> QED
    BY <2>2 DEF after
<1>9. IsTree(u, clock) /\ Within(u) /\ u.files[key] = file /\ DOMAIN u.files = DOMAIN t.files
  BY <1>2, <1>3, <1>6, <1>8 DEF Within
<1> QED
  BY <1>9, Zenon DEF u

\* The part of a tree in some of the namespaces.
LEMMA SomeNamespaces ==
  ASSUME NEW t, NEW now, IsTree(t, now), Within(t), NEW u, NEW later, NEW S,
         u = [files |-> u.files, dirs |-> u.dirs],
         DOMAIN u.files = {key \in DOMAIN t.files : key.ns \in S},
         DOMAIN u.dirs = {key \in DOMAIN t.dirs : key.ns \in S},
         \A x \in DOMAIN u.files :
           u.files[x].size = t.files[x].size /\ u.files[x].modified \in 0 .. later,
         \A x \in DOMAIN u.dirs : u.dirs[x] \in 0 .. later
  PROVE  IsTree(u, later) /\ Within(u)
<1>1. ASSUME NEW key \in Occupied(u), NEW d \in Ancestors(key) PROVE d \in DOMAIN u.dirs
  <2>1. key \in Occupied(t) /\ key \in AllKeys /\ key.ns \in S
    BY DEF Occupied, IsTree
  <2>2. d.ns = key.ns
    BY <2>1, AncestorsClosed
  <2>3. d \in DOMAIN t.dirs
    BY <2>1 DEF IsTree, ParentsExist
  <2> QED
    BY <2>1, <2>2, <2>3
<1>2. ParentsExist(u)
  BY <1>1 DEF ParentsExist
<1> QED
  BY <1>2, Fewer

LEMMA DirectoryTree ==
  ASSUME TreeInv, NEW key \in Keys, MakeDirectory(key) \/ RemoveDirectory(key)
  PROVE  TreeInv'
<1>1. clock \in Nat /\ IsTree(tree, clock) /\ Within(tree) /\ clock' = clock /\ key \in AllKeys
  BY KeysInAllKeys DEF TreeInv, MakeDirectory, RemoveDirectory
<1>2. CASE MakeDirectory(key)
  <2> DEFINE D == Prefixes(key, Len(key.path))
  <2>1. tree' = Ensured(tree, D) /\ CanEnsure(tree, D)
    BY <1>2 DEF MakeDirectory, Does
  <2>2. IsFiniteSet(D) /\ D \subseteq Ancestors(key) \cup {key} /\ Ancestors(key) \subseteq D
    BY <1>1, OwnPrefixes
  <2>3. D \subseteq AllKeys
    BY <1>1, <2>2, AncestorsAre
  <2>4. \A d \in D : Ancestors(d) \subseteq D \cup DOMAIN tree.dirs
    BY <1>1, <2>2, AncestorsClosed
  <2>5. D \cap DOMAIN tree.files = {}
    BY <2>1 DEF CanEnsure
  <2> HIDE DEF D
  <2>6. IsTree(Ensured(tree, D), clock) /\ Within(Ensured(tree, D))
    BY <1>1, <2>1, <2>2, <2>3, <2>4, <2>5, EnsuredTree
  <2>7. IsTree(tree', clock) /\ Within(tree')
    BY <2>1, <2>6
  <2> QED
    BY <1>1, <2>7 DEF TreeInv
<1>3. CASE RemoveDirectory(key)
  <2> DEFINE dirs == Without(tree.dirs, {key})
             u == [files |-> tree.files, dirs |-> dirs]
  <2>1. /\ tree' = [tree EXCEPT !.dirs = dirs]
        /\ key \in DOMAIN tree.dirs /\ ~\E other \in Occupied(tree) : Under(other, key)
    BY <1>3 DEF RemoveDirectory, Does
  <2>2. DOMAIN dirs = DOMAIN tree.dirs \ {key} /\ \A x \in DOMAIN dirs : dirs[x] = tree.dirs[x]
    BY DEF Without
  <2> HIDE DEF dirs
  <2>3. tree' = u
    BY <1>1, <2>1 DEF IsTree
  <2>4. u.files = tree.files /\ u.dirs = dirs /\ u = [files |-> u.files, dirs |-> u.dirs]
    OBVIOUS
  <2> HIDE DEF u
  <2>5. ASSUME NEW x \in Occupied(u), NEW d \in Ancestors(x) PROVE d \in DOMAIN u.dirs
    <3>1. x \in Occupied(tree) /\ x \in AllKeys
      BY <1>1, <2>2, <2>4 DEF Occupied, IsTree
    <3>2. d \in DOMAIN tree.dirs /\ Under(x, d)
      BY <1>1, <3>1, AncestorsAre DEF IsTree, ParentsExist
    <3>3. d # key
      BY <2>1, <3>1, <3>2
    <3> QED
      BY <2>2, <2>4, <3>2, <3>3
  <2>6. ParentsExist(u)
    BY <2>5 DEF ParentsExist
  <2>7. /\ \A x \in DOMAIN u.files :
             /\ x \in DOMAIN tree.files /\ u.files[x].size = tree.files[x].size
             /\ u.files[x].modified \in 0 .. clock
        /\ \A x \in DOMAIN u.dirs : x \in DOMAIN tree.dirs /\ u.dirs[x] \in 0 .. clock
    BY <1>1, <2>2, <2>4 DEF IsTree
  <2>8. IsTree(u, clock) /\ Within(u)
    BY <1>1, <2>4, <2>6, <2>7, Fewer
  <2> QED
    BY <1>1, <2>3, <2>8 DEF TreeInv
<1> QED
  BY <1>2, <1>3

LEMMA DeleteTree ==
  ASSUME TreeInv, NEW key, Delete(key)
  PROVE  TreeInv'
<1> DEFINE files == Without(tree.files, {key})
           u == [files |-> files, dirs |-> tree.dirs]
<1>1. clock \in Nat /\ IsTree(tree, clock) /\ Within(tree) /\ clock' = clock
  BY DEF TreeInv, Delete
<1>2. tree' = [tree EXCEPT !.files = Without(@, {key})]
  BY DEF Delete, Does
<1>3. tree' = u
  BY <1>1, <1>2 DEF IsTree
<1>4. DOMAIN files \subseteq DOMAIN tree.files /\ \A x \in DOMAIN files : files[x] = tree.files[x]
  BY DEF Without
<1> HIDE DEF files
<1>5. u.files = files /\ u.dirs = tree.dirs /\ u = [files |-> u.files, dirs |-> u.dirs]
  OBVIOUS
<1> HIDE DEF u
<1>6. ParentsExist(u)
  BY <1>1, <1>4, <1>5 DEF ParentsExist, Occupied, IsTree
<1>7. /\ \A x \in DOMAIN u.files :
           /\ x \in DOMAIN tree.files /\ u.files[x].size = tree.files[x].size
           /\ u.files[x].modified \in 0 .. clock
      /\ \A x \in DOMAIN u.dirs : x \in DOMAIN tree.dirs /\ u.dirs[x] \in 0 .. clock
  BY <1>1, <1>4, <1>5 DEF IsTree
<1>8. IsTree(u, clock) /\ Within(u)
  BY <1>1, <1>5, <1>6, <1>7, Fewer
<1> QED
  BY <1>1, <1>3, <1>8 DEF TreeInv

\* A whole file written: into the file there is, or into a new one, or, where
\* that does not fit, not at all.
LEMMA WriteFileTree ==
  ASSUME TreeInv, FileInv, NEW key \in Keys, NEW size \in 0 .. MaxFileBytes, WriteFile(key, size)
  PROVE  TreeInv' /\ (failed' => tree' = tree)
<1>1. /\ clock \in Nat /\ IsTree(tree, clock) /\ Within(tree) /\ FilesOK(tree)
      /\ clock' = clock /\ key \in AllKeys /\ key \notin DOMAIN tree.dirs
  BY KeysInAllKeys DEF TreeInv, FileInv, Keeps, WriteFile
<1>2. CASE key \in DOMAIN tree.files
  <2> DEFINE file == Touched(tree.files[key], size)
             u == [tree EXCEPT !.files[key] = file]
  <2>1. tree' = u /\ CanResize(key, size) /\ failed' = FALSE
    BY <1>2 DEF WriteFile, Does, Resized
  <2>2. file.size = size /\ file.modified = clock
    BY DEF Touched
  <2>3. clock \in 0 .. clock
    BY <1>1
  <2>4. Used(tree) - tree.files[key].size + size <= MaxStorageBytes
    BY <2>1 DEF CanResize
  <2> HIDE DEF file
  <2>5. IsTree(u, clock) /\ Within(u)
    BY <1>1, <1>2, <2>2, <2>3, <2>4, ResizedTree
  <2> HIDE DEF u
  <2> QED
    BY <1>1, <2>1, <2>5 DEF TreeInv
<1>3. CASE key \notin DOMAIN tree.files
  <2> DEFINE put == PutNewFile(tree, key, size)
  <2>1. tree' = put.tree /\ failed' = ~put.ok
    BY <1>3 DEF WriteFile
  <2>2. key \notin Occupied(tree) /\ size \in Nat
    BY <1>1, <1>3, StorageAssumption DEF Occupied
  <2>3. put.ok \in BOOLEAN /\ IsTree(put.tree, clock) /\ Within(put.tree) /\ (~put.ok => put.tree = tree)
    BY <1>1, <2>2, PutTree
  <2> HIDE DEF put
  <2>4. IsTree(tree', clock) /\ Within(tree')
    BY <2>1, <2>3
  <2> QED
    BY <1>1, <2>1, <2>3, <2>4 DEF TreeInv
<1> QED
  BY <1>2, <1>3

-----------------------------------------------------------------------------
(* Handles and IDs.                                                         *)

LEMMA LesserOf == ASSUME NEW a \in Nat, NEW b \in Nat
                  PROVE  Min({a, b}) \in {a, b} /\ Min({a, b}) <= a /\ Min({a, b}) <= b
<1>1. \E x \in {a, b} : \A y \in {a, b} : x <= y
  BY a <= b \/ b <= a
<1>2. Min({a, b}) \in {a, b} /\ \A y \in {a, b} : Min({a, b}) <= y
  BY <1>1 DEF Min
<1> QED
  BY <1>2

LEMMA GreaterOf == ASSUME NEW a \in Nat, NEW b \in Nat
                   PROVE  Max({a, b}) \in {a, b} /\ a <= Max({a, b}) /\ b <= Max({a, b})
<1>1. \E x \in {a, b} : \A y \in {a, b} : y <= x
  BY a <= b \/ b <= a
<1>2. Max({a, b}) \in {a, b} /\ \A y \in {a, b} : y <= Max({a, b})
  BY <1>1 DEF Max
<1> QED
  BY <1>2

LEMMA Unchanged ==
  ASSUME UNCHANGED clock
  PROVE  /\ TreeInv /\ tree' = tree => TreeInv'
         /\ HandleInv /\ handles' = handles => HandleInv'
         /\ StoresInv /\ stores' = stores => StoresInv'
         /\ IDsInv /\ UNCHANGED <<handles, stores, registered>> => IDsInv'
BY DEF TreeInv, HandleInv, StoresInv, IDsInv

LEMMA StoreIDs ==
  ASSUME StoresInv
  PROVE  LET ids == {stores[name].id : name \in DOMAIN stores}
         IN  /\ IsFiniteSet(ids) /\ Cardinality(ids) \in Nat
             /\ Cardinality(ids) <= Cardinality(DOMAIN stores)
             /\ Cardinality(DOMAIN stores) \in Nat
<1> DEFINE ids == {stores[name].id : name \in DOMAIN stores}
           f == [name \in DOMAIN stores |-> stores[name].id]
<1>1. f \in Surjection(DOMAIN stores, ids)
  BY DEF Surjection
<1> HIDE DEF f, ids
<1>2. IsFiniteSet(DOMAIN stores)
  BY DEF StoresInv
<1>3. IsFiniteSet(ids) /\ Cardinality(ids) <= Cardinality(DOMAIN stores)
  BY <1>1, <1>2, FS_Surjection
<1> QED
  BY <1>2, <1>3, FS_CardinalityType DEF ids

\* There is an ID left for one more handle or store.
LEMMA NewIDIsNew ==
  ASSUME HandleInv, StoresInv, IDsInv,
         \/ Cardinality(DOMAIN handles) < MaxOpenHandles
         \/ Cardinality(DOMAIN stores) < MaxRecordStores
  PROVE  NewID \notin registered
<1> DEFINE ids == {stores[name].id : name \in DOMAIN stores}
           n == MaxOpenHandles + MaxRecordStores + 1
           a == Cardinality(DOMAIN handles)
           b == Cardinality(DOMAIN stores)
           c == Cardinality(ids)
           l == Cardinality(registered)
           shared == Cardinality(DOMAIN handles \cap ids)
<1>1. /\ IsFiniteSet(ids) /\ c \in Nat /\ c <= b /\ b \in Nat
  BY StoreIDs
<1>2. IsFiniteSet(DOMAIN handles) /\ a \in Nat /\ a <= MaxOpenHandles /\ b <= MaxRecordStores
  BY FS_CardinalityType DEF HandleInv, StoresInv
<1>3. registered = DOMAIN handles \cup ids
  BY DEF IDsInv
<1> HIDE DEF ids
<1>4. IsFiniteSet(registered) /\ l = a + c - shared
  BY <1>1, <1>2, <1>3, FS_Union
<1>5. shared \in Nat
  BY <1>2, FS_Intersection, FS_CardinalityType
<1>6. MaxOpenHandles \in Nat /\ MaxRecordStores \in Nat
  BY StorageAssumption
<1>7. l < n /\ n \in Nat
  <2> HIDE DEF a, b, c, l, shared
  <2>1. a < MaxOpenHandles \/ b < MaxRecordStores
    BY DEF a, b
  <2> QED
    BY <1>1, <1>2, <1>4, <1>5, <1>6, <2>1
<1> DEFINE S == (1 .. n) \ registered
<1>8. S # {}
  <2> SUFFICES ASSUME S = {} PROVE FALSE
    OBVIOUS
  <2> HIDE DEF n
  <2>1. 1 .. n \in SUBSET registered
    OBVIOUS
  <2>2. Cardinality(1 .. n) <= l
    BY <1>4, <2>1, FS_Subset
  <2>3. Cardinality(1 .. n) = n
    BY <1>7, FirstNumbers
  <2>4. l \in Nat
    BY <1>4, FS_CardinalityType
  <2> QED
    BY <1>7, <2>2, <2>3, <2>4
<1>9. S \in SUBSET Nat
  <2> HIDE DEF n
  <2> QED
    BY <1>7
<1>10. NewID = CHOOSE x \in S : \A y \in S : x <= y
  BY DEF NewID, Min
<1> HIDE DEF S
<1>11. \E x \in S : \A y \in S : x <= y
  BY <1>8, <1>9, LeastNumber
<1>12. NewID \in S
  BY <1>10, <1>11
<1> QED
  BY <1>12 DEF S

\* Reading, writing and seeking.
LEMMA PositionSet ==
  ASSUME HandleInv, HandlesOK, NEW id \in DOMAIN handles, NEW position \in 0 .. MaxFileBytes,
         handles' = [handles EXCEPT ![id].position = position]
  PROVE  /\ HandleInv'
         /\ IDsInv /\ UNCHANGED <<stores, registered>> => IDsInv'
<1>1. /\ DOMAIN handles' = DOMAIN handles
      /\ \A x \in DOMAIN handles \ {id} : handles'[x] = handles[x]
      /\ handles'[id] = [handles[id] EXCEPT !.position = position]
  OBVIOUS
<1>2. IsHandle(handles[id])
  BY DEF HandlesOK
<1>3. /\ handles'[id].position = position /\ handles'[id].mode = handles[id].mode
      /\ handles'[id].key = handles[id].key
  BY <1>1, <1>2 DEF IsHandle
<1>4. HandleInv'
  BY <1>1, <1>3 DEF HandleInv
<1>5. ASSUME IDsInv, UNCHANGED <<stores, registered>> PROVE IDsInv'
  BY <1>1, <1>5 DEF IDsInv
<1> QED
  BY <1>4, <1>5

LEMMA FileSteps ==
  ASSUME SnapshotInv, FileInv, NEW id, NEW size \in 0 .. MaxFileBytes,
         Read(id, size) \/ Seek(id, size) \/ Write(id, size)
  PROVE  SnapshotInv'
<1> DEFINE h == handles[id]
           key == h.key
           length == tree.files[key].size
<1>1. /\ TreeInv /\ HandleInv /\ StoresInv /\ IDsInv /\ HandlesOK
      /\ UNCHANGED <<stores, registered, clock>> /\ id \in DOMAIN handles
      /\ key \in DOMAIN tree.files
  BY DEF SnapshotInv, FileInv, Read, Seek, Write, HasFile
<1>2. /\ h.position \in 0 .. MaxFileBytes /\ length \in 0 .. MaxFileBytes
      /\ MaxFileBytes \in Nat /\ size \in Nat
      /\ clock \in Nat /\ IsTree(tree, clock) /\ Within(tree)
  BY <1>1, StorageAssumption DEF HandleInv, TreeInv, IsTree
<1>3. StoresInv'
  BY <1>1, Unchanged
<1>4. CASE Read(id, size)
  <2> DEFINE next == h.position + Min({size, length - h.position})
  <2>1. /\ handles' = [handles EXCEPT ![id].position = next] /\ tree' = tree
        /\ h.position < length
    BY <1>4 DEF Read, Does
  <2>2. length - h.position \in Nat
    BY <1>2, <2>1
  <2>3. Min({size, length - h.position}) \in Nat /\ Min({size, length - h.position}) <= length - h.position
    BY <1>2, <2>2, LesserOf
  <2>4. next \in 0 .. MaxFileBytes
    BY <1>2, <2>2, <2>3
  <2> HIDE DEF next
  <2>5. HandleInv' /\ IDsInv'
    BY <1>1, <2>1, <2>4, PositionSet
  <2> QED
    BY <1>1, <1>3, <2>1, <2>5, Unchanged DEF SnapshotInv
<1>5. CASE Seek(id, size)
  <2>1. handles' = [handles EXCEPT ![id].position = size] /\ tree' = tree
    BY <1>5 DEF Seek, Does
  <2>2. HandleInv' /\ IDsInv'
    BY <1>1, <2>1, PositionSet
  <2> QED
    BY <1>1, <1>3, <2>1, <2>2, Unchanged DEF SnapshotInv
<1>6. CASE Write(id, size)
  <2> DEFINE end == size + IF "append" \in h.mode THEN length ELSE h.position
             most == Max({length, end})
             file == Touched(tree.files[key], most)
             u == [tree EXCEPT !.files[key] = file]
  <2>1. /\ handles' = [handles EXCEPT ![id].position = end] /\ tree' = u
        /\ CanResize(key, end)
    BY <1>6 DEF Write, Does, Resized
  <2>2. end \in Nat /\ end <= MaxFileBytes /\ Used(tree) - length + end <= MaxStorageBytes
    BY <1>2, <2>1 DEF CanResize
  <2> HIDE DEF end
  <2>3. most \in {length, end} /\ length \in Nat
    <3>1. length \in Nat
      BY <1>2
    <3> HIDE DEF length
    <3> QED
      BY <2>2, <3>1, GreaterOf
  <2> HIDE DEF most
  <2>4. /\ most \in 0 .. MaxFileBytes
        /\ Used(tree) - length + most <= MaxStorageBytes \/ most <= length
    BY <1>2, <2>2, <2>3
  <2>5. file.size = most /\ file.modified = clock /\ clock \in 0 .. clock
    BY <1>2 DEF Touched
  <2> HIDE DEF file
  <2>6. IsTree(u, clock) /\ Within(u)
    BY <1>1, <1>2, <2>4, <2>5, ResizedTree
  <2> HIDE DEF u
  <2>7. TreeInv'
    BY <1>1, <1>2, <2>1, <2>6 DEF TreeInv
  <2>8. HandleInv' /\ IDsInv'
    <3>1. end \in 0 .. MaxFileBytes
      BY <2>2, <1>2
    <3> QED
      BY <1>1, <2>1, <3>1, PositionSet
  <2> QED
    BY <1>3, <2>7, <2>8 DEF SnapshotInv
<1> QED
  BY <1>4, <1>5, <1>6

LEMMA CloseIDs ==
  ASSUME SnapshotInv, NEW id, CloseFile(id)
  PROVE  SnapshotInv'
<1>1. /\ TreeInv /\ HandleInv /\ StoresInv /\ IDsInv
      /\ UNCHANGED <<tree, stores, clock>> /\ id \in DOMAIN handles
      /\ registered' = registered \ {id} /\ handles' = Without(handles, {id})
  BY DEF SnapshotInv, CloseFile, Does
<1>2. /\ DOMAIN handles' = DOMAIN handles \ {id}
      /\ \A x \in DOMAIN handles' : handles'[x] = handles[x]
  BY <1>1 DEF Without
<1>3. /\ IsFiniteSet(DOMAIN handles')
      /\ Cardinality(DOMAIN handles') = Cardinality(DOMAIN handles) - 1
      /\ Cardinality(DOMAIN handles) \in Nat
  BY <1>1, <1>2, FS_RemoveElement, FS_CardinalityType DEF HandleInv
<1>4. HandleInv'
  <2>1. Cardinality(DOMAIN handles') <= MaxOpenHandles
    <3> DEFINE a == Cardinality(DOMAIN handles)
               b == Cardinality(DOMAIN handles')
    <3>1. a \in Nat /\ b = a - 1 /\ a <= MaxOpenHandles /\ MaxOpenHandles \in Nat
      BY <1>1, <1>3, StorageAssumption DEF HandleInv
    <3> HIDE DEF a, b
    <3>2. b <= MaxOpenHandles
      BY <3>1
    <3> QED
      BY <3>2 DEF b
  <2> QED
    BY <1>1, <1>2, <1>3, <2>1 DEF HandleInv
<1>5. IDsInv'
  <2> DEFINE ids == {stores[name].id : name \in DOMAIN stores}
  <2>1. registered = DOMAIN handles \cup ids /\ id \notin ids
    BY <1>1 DEF IDsInv
  <2>2. {stores'[name].id : name \in DOMAIN stores'} = ids
    BY <1>1
  <2>3. /\ \A name \in DOMAIN stores' : stores'[name].id \notin DOMAIN handles'
        /\ \A m, n \in DOMAIN stores' : stores'[m].id = stores'[n].id => m = n
    BY <1>1, <1>2 DEF IDsInv
  <2> HIDE DEF ids
  <2>4. registered' = DOMAIN handles' \cup ids
    BY <1>1, <1>2, <2>1
  <2> QED
    BY <2>2, <2>3, <2>4 DEF IDsInv
<1> QED
  BY <1>1, <1>4, <1>5, Unchanged DEF SnapshotInv

\* A handle more, with an ID nobody has.
LEMMA HandleAdded ==
  ASSUME HandleInv, StoresInv, IDsInv, Cardinality(DOMAIN handles) < MaxOpenHandles,
         NEW handle, handle.position \in 0 .. MaxFileBytes,
         "write" \in handle.mode => Writable(handle.key.ns),
         handles' = Added(handles, NewID, handle), registered' = registered \cup {NewID},
         UNCHANGED stores
  PROVE  HandleInv' /\ IDsInv'
<1> DEFINE id == NewID
           ids == {stores[name].id : name \in DOMAIN stores}
<1>1. registered = DOMAIN handles \cup ids
  BY DEF IDsInv
<1>2. id \notin registered
  BY NewIDIsNew
<1> HIDE DEF id
<1>3. id \notin DOMAIN handles /\ id \notin ids
  BY <1>1, <1>2
<1>4. handles' = Added(handles, id, handle) /\ registered' = registered \cup {id}
  BY DEF id
<1>5. /\ DOMAIN handles' = DOMAIN handles \cup {id} /\ handles'[id] = handle
      /\ \A x \in DOMAIN handles : handles'[x] = handles[x]
  BY <1>3, <1>4 DEF Added, Joined
<1>6. HandleInv'
  <2> DEFINE a == Cardinality(DOMAIN handles)
             b == Cardinality(DOMAIN handles')
  <2>1. IsFiniteSet(DOMAIN handles) /\ a \in Nat /\ a < MaxOpenHandles /\ MaxOpenHandles \in Nat
    BY FS_CardinalityType, StorageAssumption DEF HandleInv
  <2>2. IsFiniteSet(DOMAIN handles') /\ b = a + 1
    BY <1>3, <1>5, <2>1, FS_AddElement
  <2> HIDE DEF a, b
  <2>3. b <= MaxOpenHandles
    BY <2>1, <2>2
  <2> QED
    BY <1>5, <2>2, <2>3 DEF HandleInv, b
<1>7. {stores'[name].id : name \in DOMAIN stores'} = ids
  OBVIOUS
<1>8. \A name \in DOMAIN stores' : stores'[name].id \notin DOMAIN handles'
  <2>1. \A name \in DOMAIN stores : stores[name].id \in ids
    OBVIOUS
  <2> HIDE DEF ids
  <2> QED
    BY <1>3, <1>5, <2>1 DEF IDsInv
<1>9. \A m, n \in DOMAIN stores' : stores'[m].id = stores'[n].id => m = n
  BY DEF IDsInv
<1> HIDE DEF ids
<1>10. registered' = DOMAIN handles' \cup ids
  BY <1>1, <1>4, <1>5
<1> QED
  BY <1>6, <1>7, <1>8, <1>9, <1>10 DEF IDsInv

\* Handles whose files get other keys of the same namespace.
LEMMA HandlesRekeyed ==
  ASSUME HandlesOK, HandleInv, IDsInv, UNCHANGED <<stores, registered>>,
         DOMAIN handles' = DOMAIN handles,
         \A id \in DOMAIN handles :
           \/ handles'[id] = handles[id]
           \/ \E key : /\ handles'[id] = [handles[id] EXCEPT !.key = key]
                       /\ key.ns = handles[id].key.ns
  PROVE  HandleInv' /\ IDsInv'
<1>1. ASSUME NEW id \in DOMAIN handles
      PROVE  /\ handles'[id].position = handles[id].position
             /\ handles'[id].mode = handles[id].mode
             /\ handles'[id].key.ns = handles[id].key.ns
  <2>1. CASE handles'[id] = handles[id]
    BY <2>1
  <2>2. CASE handles'[id] # handles[id]
    <3>1. PICK key : /\ handles'[id] = [handles[id] EXCEPT !.key = key]
                     /\ key.ns = handles[id].key.ns
      BY <2>2
    <3>2. IsHandle(handles[id])
      BY DEF HandlesOK
    <3> QED
      BY <3>1, <3>2 DEF IsHandle
  <2> QED
    BY <2>1, <2>2
<1>2. HandleInv'
  BY <1>1 DEF HandleInv
<1>3. IDsInv'
  BY DEF IDsInv
<1> QED
  BY <1>2, <1>3

\* Opening: the file there is, cut to nothing where that is asked for, or a new
\* one; where that does not fit, nothing is left of the handle either.
LEMMA OpenSnapshot ==
  ASSUME SnapshotInv, FileInv, NEW key \in Keys, NEW mode, Open(key, mode)
  PROVE  /\ SnapshotInv'
         /\ failed' => UNCHANGED <<tree, handles, stores, registered, clock>>
<1> DEFINE put == IF key \in DOMAIN tree.files THEN [ok |-> TRUE, tree |-> tree]
                  ELSE PutNewFile(tree, key, 0)
           file == put.tree.files[key]
           opened == IF "truncate" \in mode THEN Touched(file, 0) ELSE file
           handle == [key |-> key, mode |-> mode, identity |-> opened.identity,
                      position |-> IF "append" \in mode THEN opened.size ELSE 0]
<1>1. /\ failed' = ~put.ok
      /\ \/ put.ok /\ tree' = [put.tree EXCEPT !.files[key] = opened]
                   /\ registered' = registered \cup {NewID}
                   /\ handles' = Added(handles, NewID, handle)
         \/ ~put.ok /\ tree' = put.tree /\ UNCHANGED <<handles, registered>>
      /\ UNCHANGED <<stores, clock>>
  BY Zenon DEF Open
<1>2. /\ TreeInv /\ HandleInv /\ StoresInv /\ IDsInv /\ FilesOK(tree)
      /\ clock \in Nat /\ IsTree(tree, clock) /\ Within(tree)
      /\ key \in AllKeys /\ key \notin DOMAIN tree.dirs
      /\ "write" \in mode => Writable(key.ns)
      /\ Cardinality(DOMAIN handles) < MaxOpenHandles
  BY KeysInAllKeys DEF SnapshotInv, TreeInv, FileInv, Keeps, Open
<1>3. /\ put.ok \in BOOLEAN /\ IsTree(put.tree, clock) /\ Within(put.tree)
      /\ ~put.ok => put.tree = tree
      /\ put.ok => key \in DOMAIN put.tree.files
  <2>1. CASE key \in DOMAIN tree.files
    <3>1. put = [ok |-> TRUE, tree |-> tree]
      BY <2>1
    <3> HIDE DEF put
    <3>2. put.ok = TRUE /\ put.tree = tree
      BY <3>1
    <3> QED
      BY <1>2, <2>1, <3>2
  <2>2. CASE key \notin DOMAIN tree.files
    <3>1. put = PutNewFile(tree, key, 0)
      BY <2>2
    <3> HIDE DEF put
    <3>2. key \notin Occupied(tree) /\ 0 \in Nat
      BY <1>2, <2>2 DEF Occupied
    <3> DEFINE new == PutNewFile(tree, key, 0)
    <3>3. /\ new.ok \in BOOLEAN /\ IsTree(new.tree, clock) /\ Within(new.tree)
          /\ ~new.ok => new.tree = tree
          /\ new.ok => key \in DOMAIN new.tree.files
      BY <1>2, <3>2, PutTree
    <3> QED
      BY <3>1, <3>3, Zenon
  <2> QED
    BY <2>1, <2>2, Zenon
<1> HIDE DEF put
<1>4. CASE ~put.ok
  <2>1. UNCHANGED <<tree, handles, stores, registered, clock>>
    BY <1>1, <1>3, <1>4
  <2> QED
    BY <1>2, <2>1, Unchanged DEF SnapshotInv
<1>5. CASE put.ok
  <2>1. /\ tree' = [put.tree EXCEPT !.files[key] = opened]
        /\ registered' = registered \cup {NewID}
        /\ handles' = Added(handles, NewID, handle)
    BY <1>1, <1>5
  <2>2. file.size \in 0 .. MaxFileBytes /\ file.modified \in 0 .. clock
    BY <1>3, <1>5 DEF IsTree
  <2>3. /\ opened.size \in 0 .. MaxFileBytes /\ opened.size <= file.size
        /\ opened.modified \in 0 .. clock
    <3>1. CASE "truncate" \in mode
      <4>1. opened = Touched(file, 0)
        BY <3>1
      <4> HIDE DEF opened
      <4>2. opened.size = 0 /\ opened.modified = clock
        BY <4>1 DEF Touched
      <4> QED
        BY <1>2, <2>2, <4>2, StorageAssumption
    <3>2. CASE "truncate" \notin mode
      <4>1. opened = file
        BY <3>2
      <4> HIDE DEF opened, file
      <4> QED
        BY <2>2, <4>1, StorageAssumption
    <3> QED
      BY <3>1, <3>2
  <2> HIDE DEF opened
  <2> DEFINE u == [put.tree EXCEPT !.files[key] = opened]
             size == opened.size
  <2>4. IsTree(u, clock) /\ Within(u)
    <3>1. /\ size \in 0 .. MaxFileBytes /\ size <= put.tree.files[key].size
          /\ opened.size = size /\ opened.modified \in 0 .. clock
          /\ key \in DOMAIN put.tree.files
      BY <1>3, <1>5, <2>3
    <3> HIDE DEF size
    <3> QED
      BY <1>2, <1>3, <3>1, ResizedTree
  <2> HIDE DEF u
  <2>5. TreeInv'
    BY <1>1, <1>2, <2>1, <2>4 DEF TreeInv, u
  <2>6. /\ handle.position \in 0 .. MaxFileBytes
        /\ "write" \in handle.mode => Writable(handle.key.ns)
    <3>1. handle.mode = mode /\ handle.key = key
      OBVIOUS
    <3>2. handle.position = IF "append" \in mode THEN opened.size ELSE 0
      OBVIOUS
    <3> HIDE DEF handle
    <3>3. handle.position \in 0 .. MaxFileBytes
      BY <2>3, <3>2, StorageAssumption
    <3> QED
      BY <1>2, <3>1, <3>3
  <2> HIDE DEF handle
  <2>7. HandleInv' /\ IDsInv'
    BY <1>1, <1>2, <2>1, <2>6, HandleAdded
  <2>8. StoresInv' /\ failed' = FALSE
    BY <1>1, <1>2, <1>3, <1>5, Unchanged
  <2> QED
    BY <2>5, <2>7, <2>8 DEF SnapshotInv
<1> QED
  BY <1>3, <1>4, <1>5

LEMMA DeleteSnapshot ==
  ASSUME SnapshotInv, NEW key, Delete(key)
  PROVE  SnapshotInv'
<1>1. UNCHANGED <<handles, stores, registered, clock>>
  BY DEF Delete
<1> QED
  BY <1>1, DeleteTree, Unchanged DEF SnapshotInv

LEMMA DirectorySnapshot ==
  ASSUME SnapshotInv, NEW key \in Keys, MakeDirectory(key) \/ RemoveDirectory(key)
  PROVE  SnapshotInv'
<1>1. UNCHANGED <<handles, stores, registered, clock>>
  BY DEF MakeDirectory, RemoveDirectory
<1> QED
  BY <1>1, DirectoryTree, Unchanged DEF SnapshotInv

LEMMA WriteFileSnapshot ==
  ASSUME SnapshotInv, FileInv, NEW key \in Keys, NEW size \in 0 .. MaxFileBytes,
         WriteFile(key, size)
  PROVE  /\ SnapshotInv'
         /\ failed' => UNCHANGED <<tree, handles, stores, registered, clock>>
<1>1. UNCHANGED <<handles, stores, registered, clock>>
  BY DEF WriteFile
<1> QED
  BY <1>1, WriteFileTree, Unchanged DEF SnapshotInv

LEMMA RenameTree ==
  ASSUME TreeInv, NEW from \in Keys, NEW to \in Keys, Rename(from, to)
  PROVE  TreeInv'
<1> DEFINE made == Ensured(tree, Ancestors(to))
           file == Touched(tree.files[from], tree.files[from].size)
           files == Added(Without(tree.files, {from}), to, file)
           h == [x \in AllKeys |-> IF x = to THEN from ELSE x]
<1>1. /\ clock \in Nat /\ IsTree(tree, clock) /\ Within(tree) /\ clock' = clock
      /\ from \in AllKeys /\ to \in AllKeys
      /\ from \in DOMAIN tree.files /\ to \notin DOMAIN tree.files /\ to \notin DOMAIN tree.dirs
      /\ CanEnsure(tree, Ancestors(to))
  BY KeysInAllKeys DEF TreeInv, Rename, Occupied
<1>2. /\ made = [files |-> tree.files, dirs |-> made.dirs]
      /\ made.files = tree.files /\ DOMAIN made.dirs = DOMAIN tree.dirs \cup Ancestors(to)
      /\ IsTree(made, clock) /\ Within(made)
  BY <1>1, EnsuredParents
<1>3. tree' = [made EXCEPT !.files = Added(Without(@, {from}), to, Touched(@[from], @[from].size))]
  BY DEF Rename, Does
<1> HIDE DEF made
<1>4. tree' = [files |-> files, dirs |-> made.dirs]
  BY <1>2, <1>3
<1>5. file.size = tree.files[from].size /\ file.modified = clock
  BY DEF Touched
<1> HIDE DEF file
<1>6. /\ DOMAIN files = (DOMAIN tree.files \ {from}) \cup {to}
      /\ files[to] = file
      /\ \A x \in DOMAIN tree.files \ {from} : files[x] = tree.files[x]
  BY <1>1 DEF Added, Joined, Without
<1> HIDE DEF files
<1> DEFINE u == tree'
<1>7. u.files = files /\ u.dirs = made.dirs /\ u = [files |-> u.files, dirs |-> u.dirs]
  BY <1>4
<1> HIDE DEF u
<1>8. DOMAIN u.files \subseteq AllKeys /\ DOMAIN u.dirs \subseteq AllKeys
  BY <1>1, <1>2, <1>6, <1>7 DEF IsTree
<1>9. /\ h[to] = from /\ \A x \in AllKeys \ {to} : h[x] = x
  BY <1>1
<1> HIDE DEF h
<1>10. ASSUME NEW x \in DOMAIN u.files
       PROVE  /\ h[x] \in DOMAIN made.files /\ u.files[x].size = made.files[h[x]].size
              /\ u.files[x].modified \in 0 .. clock
  <2>1. CASE x = to
    BY <1>1, <1>2, <1>5, <1>6, <1>7, <1>9, <2>1
  <2>2. CASE x # to
    <3>1. x \in DOMAIN tree.files \ {from} /\ x \in AllKeys
      BY <1>6, <1>7, <1>8, <2>2
    <3>2. h[x] = x /\ u.files[x] = tree.files[x]
      BY <1>6, <1>7, <1>9, <2>2, <3>1
    <3>3. tree.files[x].modified \in 0 .. clock
      BY <1>1, <3>1 DEF IsTree
    <3> QED
      BY <1>2, <3>1, <3>2, <3>3
  <2> QED
    BY <2>1, <2>2
<1>11. \A x, y \in DOMAIN u.files : h[x] = h[y] => x = y
  <2>1. \A x \in DOMAIN u.files : x # to => h[x] = x /\ x # from
    BY <1>6, <1>7, <1>8, <1>9
  <2> QED
    BY <1>9, <2>1
<1>12. \A x \in DOMAIN u.dirs : h[x] \in DOMAIN made.dirs /\ u.dirs[x] \in 0 .. clock
  <2>1. to \notin DOMAIN made.dirs
    BY <1>1, <1>2, AncestorsClosed
  <2>2. \A x \in DOMAIN u.dirs : x \in AllKeys \ {to} /\ x \in DOMAIN made.dirs
    BY <1>7, <1>8, <2>1
  <2> QED
    BY <1>2, <1>7, <1>9, <2>2 DEF IsTree
<1>13. \A x, y \in DOMAIN u.dirs : h[x] = h[y] => x = y
  <2>1. to \notin DOMAIN made.dirs
    BY <1>1, <1>2, AncestorsClosed
  <2> QED
    BY <1>7, <1>8, <1>9, <2>1
<1>14. DOMAIN u.files \cap DOMAIN u.dirs = {}
  <2>1. to \notin DOMAIN made.dirs
    BY <1>1, <1>2, AncestorsClosed
  <2> QED
    BY <1>2, <1>6, <1>7, <2>1 DEF IsTree
<1>15. ParentsExist(u)
  <2>1. ASSUME NEW x \in Occupied(u) PROVE x = to \/ x \in Occupied(made)
    BY <1>2, <1>6, <1>7 DEF Occupied
  <2>2. \A x \in Occupied(made) : Ancestors(x) \subseteq DOMAIN made.dirs
    BY <1>2 DEF IsTree, ParentsExist
  <2>3. Ancestors(to) \subseteq DOMAIN made.dirs
    BY <1>2
  <2> QED
    BY <1>7, <2>1, <2>2, <2>3 DEF ParentsExist
<1>16. IsTree(u, clock) /\ Within(u)
  BY <1>2, <1>7, <1>8, <1>10, <1>11, <1>12, <1>13, <1>14, <1>15, Rearranged
<1> QED
  BY <1>1, <1>16 DEF TreeInv, u

LEMMA RenameSnapshot ==
  ASSUME SnapshotInv, FileInv, NEW from \in Keys, NEW to \in Keys, Rename(from, to)
  PROVE  SnapshotInv'
<1>1. /\ UNCHANGED <<stores, registered, clock>> /\ from.ns = to.ns
      /\ handles' = [id \in DOMAIN handles |->
                       IF handles[id].key = from THEN [handles[id] EXCEPT !.key = to]
                       ELSE handles[id]]
  BY DEF Rename
<1>2. \A id \in DOMAIN handles :
        \/ handles'[id] = handles[id]
        \/ \E key : /\ handles'[id] = [handles[id] EXCEPT !.key = key]
                    /\ key.ns = handles[id].key.ns
  BY <1>1
<1>3. DOMAIN handles' = DOMAIN handles
  BY <1>1
<1>4. HandleInv' /\ IDsInv'
  BY <1>1, <1>2, <1>3, HandlesRekeyed DEF SnapshotInv, FileInv
<1> QED
  BY <1>1, <1>4, RenameTree, Unchanged DEF SnapshotInv

\* A directory moved: everything in it keeps its place under the new name, the
\* directories around the new name are made, and what is left behind has its
\* directories still.
LEMMA RenameDirectoryTree ==
  ASSUME TreeInv, NEW from \in Keys, NEW to \in Keys, RenameDirectory(from, to)
  PROVE  TreeInv'
<1> DEFINE inside == {key \in DOMAIN tree.files : Under(key, from)}
           moving == {key \in DOMAIN tree.dirs : key = from \/ Under(key, from)}
           made == Ensured(tree, Ancestors(to))
           newFiles == {Moved(f, from, to) : f \in inside}
           newDirs == {Moved(d, from, to) : d \in moving}
           there == [key \in newFiles |->
                       LET file == tree.files[Moved(key, to, from)] IN Touched(file, file.size)]
           files == Joined(Without(tree.files, inside), there)
           dirs == Joined(Without(made.dirs, moving), [key \in newDirs |-> clock])
           h == [x \in AllKeys |-> IF x \in newFiles THEN Moved(x, to, from) ELSE x]
           g == [x \in AllKeys |-> IF x \in newDirs THEN Moved(x, to, from) ELSE x]
<1>1. /\ clock \in Nat /\ IsTree(tree, clock) /\ Within(tree) /\ clock' = clock
      /\ from \in AllKeys /\ to \in AllKeys /\ from.ns = to.ns
      /\ from \in DOMAIN tree.dirs /\ to \notin DOMAIN tree.files /\ to \notin DOMAIN tree.dirs
      /\ ~Under(to, from)
      /\ CanEnsure(tree, Ancestors(to))
      /\ \A key \in inside \cup moving :
           Moved(key, from, to) \notin DOMAIN tree.files /\ Moved(key, from, to) \notin DOMAIN tree.dirs
  BY KeysInAllKeys DEF TreeInv, RenameDirectory, Occupied
<1>2. /\ made.files = tree.files /\ DOMAIN made.dirs = DOMAIN tree.dirs \cup Ancestors(to)
      /\ IsTree(made, clock) /\ Within(made)
  BY <1>1, EnsuredParents
<1>3. tree' = [files |-> files, dirs |-> dirs]
  BY Zenon DEF RenameDirectory, Does
<1>4. ASSUME NEW key \in inside \cup moving
      PROVE  /\ key \in AllKeys /\ (key = from \/ Under(key, from))
             /\ Moved(key, from, to) \in AllKeys
             /\ key = from => Moved(key, from, to) = to
             /\ Under(key, from) => Under(Moved(key, from, to), to)
             /\ Moved(Moved(key, from, to), to, from) = key
  <2>1. key \in AllKeys /\ (key = from \/ Under(key, from))
    BY <1>1 DEF IsTree
  <2> QED
    BY <1>1, <2>1, MovedThere
\* What is at the new place, and where it comes from.
<1>5. ASSUME NEW x \in newFiles
      PROVE  /\ x \in AllKeys /\ Moved(x, to, from) \in inside /\ Under(x, to)
             /\ Moved(Moved(x, to, from), from, to) = x
             /\ x \notin DOMAIN tree.files /\ x \notin DOMAIN tree.dirs
  <2>1. PICK f \in inside : x = Moved(f, from, to)
    OBVIOUS
  <2>2. Moved(x, to, from) = f /\ x \in AllKeys /\ Under(x, to)
    BY <1>4, <2>1
  <2> QED
    BY <1>1, <2>1, <2>2
<1>6. ASSUME NEW x \in newDirs
      PROVE  /\ x \in AllKeys /\ Moved(x, to, from) \in moving /\ (x = to \/ Under(x, to))
             /\ Moved(Moved(x, to, from), from, to) = x
             /\ x \notin DOMAIN tree.files /\ x \notin DOMAIN tree.dirs
  <2>1. PICK d \in moving : x = Moved(d, from, to)
    OBVIOUS
  <2>2. Moved(x, to, from) = d /\ x \in AllKeys /\ (x = to \/ Under(x, to))
    BY <1>4, <2>1
  <2> QED
    BY <1>1, <2>1, <2>2
<1>7. ASSUME NEW d \in Ancestors(to)
      PROVE  /\ d \in AllKeys /\ Len(d.path) > 0 /\ Under(to, d)
             /\ d \notin moving /\ d \notin newFiles /\ d \notin newDirs
  <2>1. d \in AllKeys /\ Len(d.path) > 0 /\ Under(to, d) /\ d # to
    BY <1>1, AncestorsAre, AncestorsClosed
  <2>2. d \notin moving
    BY <1>1, <2>1, UnderTransitive
  <2>3. ~Under(d, to)
    <3>1. Len(to.path) \in Nat /\ Len(d.path) \in Nat
      BY <1>1, <2>1, PathOf
    <3>2. Len(to.path) > Len(d.path)
      BY <2>1 DEF Under
    <3> QED
      BY <3>1, <3>2 DEF Under
  <2> HIDE DEF newFiles, newDirs
  <2> QED
    BY <1>5, <1>6, <2>1, <2>2, <2>3
<1>8. from \in moving /\ to \in newDirs
  <2>1. from \in moving
    BY <1>1
  <2>2. Moved(from, from, to) = to
    BY <1>4, <2>1
  <2> QED
    BY <2>1, <2>2
<1>9. inside \cap moving = {}
  BY <1>1 DEF IsTree
<1>10. DOMAIN there = newFiles
       /\ \A x \in newFiles : /\ there[x].size = tree.files[Moved(x, to, from)].size
                              /\ there[x].modified = clock
  BY DEF Touched
<1> HIDE DEF there
<1>11. /\ DOMAIN files = (DOMAIN tree.files \ inside) \cup newFiles
       /\ \A x \in DOMAIN tree.files \ inside : files[x] = tree.files[x]
       /\ \A x \in newFiles : files[x] = there[x]
  BY <1>5, <1>10 DEF Joined, Without
<1>12. /\ DOMAIN dirs = (DOMAIN made.dirs \ moving) \cup newDirs
       /\ \A x \in DOMAIN dirs : dirs[x] = clock \/ (x \in DOMAIN made.dirs /\ dirs[x] = made.dirs[x])
  BY DEF Joined, Without
<1> HIDE DEF files, dirs, made
<1> DEFINE u == tree'
<1>13. u.files = files /\ u.dirs = dirs /\ u = [files |-> u.files, dirs |-> u.dirs]
  BY <1>3
<1> HIDE DEF u
<1>14. inside \subseteq DOMAIN tree.files /\ moving \subseteq DOMAIN tree.dirs
  OBVIOUS
<1>15. \A x \in AllKeys : x \in DOMAIN tree.files /\ Under(x, from) => x \in inside
  OBVIOUS
<1>16. \A x \in AllKeys : x \in DOMAIN tree.dirs /\ (x = from \/ Under(x, from)) => x \in moving
  OBVIOUS
<1>17. /\ \A x \in newFiles \cap AllKeys : h[x] = Moved(x, to, from)
       /\ \A x \in AllKeys \ newFiles : h[x] = x
       /\ \A x \in newDirs \cap AllKeys : g[x] = Moved(x, to, from)
       /\ \A x \in AllKeys \ newDirs : g[x] = x
  OBVIOUS
<1>18. \A key \in moving \cup inside : key \in AllKeys /\ (key = from \/ Under(key, from))
  BY <1>4
<1>19. \A key \in inside : Under(key, from)
  OBVIOUS
<1> HIDE DEF inside, moving, newFiles, newDirs, h, g
<1>20. /\ DOMAIN tree.files \subseteq AllKeys /\ DOMAIN made.dirs \subseteq AllKeys
       /\ DOMAIN tree.files \cap DOMAIN made.dirs = {}
  BY <1>2 DEF IsTree
<1>21. DOMAIN u.files \subseteq AllKeys /\ DOMAIN u.dirs \subseteq AllKeys
  BY <1>5, <1>6, <1>11, <1>12, <1>13, <1>20
<1>22. ASSUME NEW x \in DOMAIN u.files
       PROVE  /\ h[x] \in DOMAIN made.files /\ u.files[x].size = made.files[h[x]].size
              /\ u.files[x].modified \in 0 .. clock
  <2>1. CASE x \in newFiles
    BY <1>1, <1>2, <1>5, <1>10, <1>11, <1>13, <1>14, <1>17, <2>1
  <2>2. CASE x \notin newFiles
    <3>1. x \in DOMAIN tree.files \ inside /\ u.files[x] = tree.files[x] /\ h[x] = x
      BY <1>11, <1>13, <1>17, <1>20, <2>2
    <3>2. tree.files[x].modified \in 0 .. clock
      BY <1>1, <3>1 DEF IsTree
    <3> QED
      BY <1>2, <3>1, <3>2
  <2> QED
    BY <2>1, <2>2
<1>23. \A x, y \in DOMAIN u.files : h[x] = h[y] => x = y
  <2>1. \A x \in DOMAIN u.files :
          /\ x \in newFiles => h[x] \in inside /\ Moved(h[x], from, to) = x
          /\ x \notin newFiles => h[x] = x /\ x \notin inside
    BY <1>5, <1>11, <1>13, <1>17, <1>20
  <2> QED
    BY <2>1
<1>24. ASSUME NEW x \in DOMAIN u.dirs
       PROVE  g[x] \in DOMAIN made.dirs /\ u.dirs[x] \in 0 .. clock
  <2>1. u.dirs[x] \in 0 .. clock
    BY <1>1, <1>2, <1>12, <1>13 DEF IsTree
  <2>2. CASE x \in newDirs
    BY <1>2, <1>6, <1>14, <1>17, <2>1, <2>2
  <2>3. CASE x \notin newDirs
    BY <1>12, <1>13, <1>17, <1>20, <2>1, <2>3
  <2> QED
    BY <2>2, <2>3
<1>25. \A x, y \in DOMAIN u.dirs : g[x] = g[y] => x = y
  <2>1. \A x \in DOMAIN u.dirs :
          /\ x \in newDirs => g[x] \in moving /\ Moved(g[x], from, to) = x
          /\ x \notin newDirs => g[x] = x /\ x \notin moving
    BY <1>6, <1>12, <1>13, <1>17, <1>20
  <2> QED
    BY <2>1
<1>26. DOMAIN u.files \cap DOMAIN u.dirs = {}
  <2>1. newFiles \cap newDirs = {}
    BY <1>5, <1>6, <1>9
  <2>2. newFiles \cap DOMAIN made.dirs = {}
    BY <1>2, <1>5, <1>7
  <2>3. newDirs \cap DOMAIN tree.files = {}
    BY <1>6
  <2> QED
    BY <1>11, <1>12, <1>13, <1>20, <2>1, <2>2, <2>3
<1>27. ParentsExist(u)
  <2>1. \A x \in DOMAIN tree.files \cup DOMAIN tree.dirs : Ancestors(x) \subseteq DOMAIN tree.dirs
    BY <1>1 DEF IsTree, ParentsExist, Occupied
  <2>2. \A d \in Ancestors(to) : d \in DOMAIN u.dirs
    BY <1>2, <1>7, <1>12, <1>13
  <2>3. ASSUME NEW x \in Occupied(u), NEW d \in Ancestors(x)
        PROVE  d \in DOMAIN u.dirs
    <3>1. x \in AllKeys /\ d \in AllKeys /\ Len(d.path) > 0 /\ Under(x, d)
      BY <1>21, AncestorsAre DEF Occupied
    <3>2. CASE x \in newFiles \cup newDirs
      <4>1. x = to \/ Under(x, to)
        BY <1>5, <1>6, <3>2
      <4>2. CASE x = to \/ Under(to, d)
        BY <1>1, <2>2, <3>1, <4>2, AncestorsAre
      <4>3. CASE Under(x, to) /\ d = to
        BY <1>8, <1>12, <1>13, <4>3
      <4>4. CASE Under(x, to) /\ Under(d, to)
        <5> DEFINE k == Moved(x, to, from)
                   y == Moved(d, to, from)
        <5>1. k \in inside \cup moving
          BY <1>5, <1>6, <3>2
        <5>2. Under(k, y)
          BY <1>1, <3>1, <4>4, MovedUnder
        <5>3. y \in AllKeys /\ Under(y, from) /\ Moved(y, from, to) = d
          BY <1>1, <3>1, <4>4, MovedThere
        <5>4. Len(y.path) > 0
          <6>1. Len(y.path) \in Nat /\ Len(from.path) \in Nat
            BY <1>1, <5>3, PathOf
          <6>2. Len(y.path) > Len(from.path)
            BY <5>3 DEF Under
          <6> HIDE DEF y
          <6> QED
            BY <6>1, <6>2
        <5> HIDE DEF k, y
        <5>5. k \in AllKeys /\ k \in DOMAIN tree.files \cup DOMAIN tree.dirs
          BY <1>14, <1>18, <5>1
        <5>6. y \in Ancestors(k)
          BY <5>2, <5>3, <5>4, <5>5, AncestorsAre
        <5>7. y \in DOMAIN tree.dirs
          BY <2>1, <5>5, <5>6
        <5>8. y \in moving
          BY <1>16, <5>3, <5>7
        <5>9. d \in newDirs
          BY <5>3, <5>8 DEF newDirs
        <5> QED
          BY <1>12, <1>13, <5>9
      <4>5. Under(x, to) => d = to \/ Under(d, to) \/ Under(to, d)
        BY <1>1, <3>1, UnderTotal
      <4> QED
        BY <4>1, <4>2, <4>3, <4>4, <4>5
    <3>3. CASE x \in Ancestors(to)
      BY <1>1, <2>2, <3>3, AncestorsClosed
    <3>4. CASE x \notin newFiles \cup newDirs /\ x \notin Ancestors(to)
      <4>1. x \in DOMAIN tree.files \cup DOMAIN tree.dirs /\ ~(x = from \/ Under(x, from))
        <5>1. x \in DOMAIN u.files \/ x \in DOMAIN u.dirs
          BY DEF Occupied
        <5>2. CASE x \in DOMAIN u.files
          <6>1. x \in DOMAIN tree.files /\ x \notin inside
            BY <1>11, <1>13, <3>4, <5>2
          <6>2. ~Under(x, from) /\ x # from
            BY <1>1, <1>2, <1>15, <1>20, <3>1, <6>1
          <6> QED
            BY <6>1, <6>2
        <5>3. CASE x \in DOMAIN u.dirs
          <6>1. x \in DOMAIN tree.dirs /\ x \notin moving
            BY <1>2, <1>12, <1>13, <3>4, <5>3
          <6> QED
            BY <1>16, <3>1, <6>1
        <5> QED
          BY <5>1, <5>2, <5>3
      <4>2. d \in DOMAIN tree.dirs
        BY <2>1, <4>1
      <4>3. d \notin moving
        BY <1>1, <1>18, <3>1, <4>1, UnderTransitive
      <4> QED
        BY <1>2, <1>12, <1>13, <4>2, <4>3
    <3> QED
      BY <3>2, <3>3, <3>4
  <2> QED
    BY <2>3 DEF ParentsExist
<1>28. IsTree(u, clock) /\ Within(u)
  BY <1>2, <1>13, <1>21, <1>22, <1>23, <1>24, <1>25, <1>26, <1>27, Rearranged
<1> QED
  BY <1>1, <1>28 DEF TreeInv, u

LEMMA RenameDirectorySnapshot ==
  ASSUME SnapshotInv, FileInv, NEW from \in Keys, NEW to \in Keys, RenameDirectory(from, to)
  PROVE  SnapshotInv'
<1>1. UNCHANGED <<stores, registered, clock>> /\ handles' = HandlesMoved(from, to)
  BY DEF RenameDirectory
<1>2. ASSUME NEW id \in DOMAIN handles
      PROVE  \/ handles'[id] = handles[id]
             \/ \E key : /\ handles'[id] = [handles[id] EXCEPT !.key = key]
                         /\ key.ns = handles[id].key.ns
  <2>1. CASE Under(handles[id].key, from)
    <3> DEFINE moved == Moved(handles[id].key, from, to)
    <3>1. handles'[id] = [handles[id] EXCEPT !.key = moved]
      BY <1>1, <2>1 DEF HandlesMoved
    <3>2. moved.ns = handles[id].key.ns
      BY DEF Moved
    <3> HIDE DEF moved
    <3> QED
      BY <3>1, <3>2
  <2>2. CASE ~Under(handles[id].key, from)
    BY <1>1, <2>2 DEF HandlesMoved
  <2> QED
    BY <2>1, <2>2
<1>3. DOMAIN handles' = DOMAIN handles
  BY <1>1 DEF HandlesMoved
<1>4. HandleInv' /\ IDsInv'
  BY <1>1, <1>2, <1>3, HandlesRekeyed DEF SnapshotInv, FileInv
<1> QED
  BY <1>1, <1>4, RenameDirectoryTree, Unchanged DEF SnapshotInv

-----------------------------------------------------------------------------
(* Packages.                                                                *)

LEMMA MountedTree ==
  ASSUME NEW t, IsTree(t, clock), Within(t), clock \in Nat,
         NEW keys \in Packages, CanMount(t, keys)
  PROVE  IsTree(WithPackage(t, keys), clock) /\ Within(WithPackage(t, keys))
<1> DEFINE one == [key \in keys |-> [size |-> 1, modified |-> clock, identity |-> 0]]
           files == Joined(t.files, one)
           more == [t EXCEPT !.files = Joined(@, one)]
           D == UNION {Ancestors(key) : key \in keys}
           dirs == Joined(t.dirs, [d \in D |-> clock])
           u == WithPackage(t, keys)
<1>1. IsFiniteSet(keys) /\ keys \subseteq AllKeys
  BY KeysAssumption, KeysInAllKeys
<1>2. /\ keys \cap DOMAIN t.files = {} /\ keys \cap DOMAIN t.dirs = {}
      /\ Used(t) + Cardinality(keys) <= MaxStorageBytes
      /\ D \cap (DOMAIN t.files \cup keys) = {}
      /\ Count(u) <= MaxFiles
  <2>1. /\ keys \cap Occupied(t) = {} /\ Used(t) + Cardinality(keys) <= MaxStorageBytes
        /\ D \cap (DOMAIN t.files \cup keys) = {} /\ Count(u) <= MaxFiles
    BY Zenon DEF CanMount
  <2> HIDE DEF D, u
  <2> QED
    BY <2>1 DEF Occupied
<1>3. IsFiniteSet(D) /\ D \subseteq AllKeys
  <2> DEFINE f == [key \in keys |-> Ancestors(key)]
             S == {Ancestors(key) : key \in keys}
  <2>1. f \in Surjection(keys, S)
    BY DEF Surjection
  <2> HIDE DEF f
  <2>2. IsFiniteSet(S)
    BY <1>1, <2>1, FS_Surjection
  <2>3. \A T \in S : IsFiniteSet(T) /\ T \subseteq AllKeys
    BY <1>1, AncestorsAre
  <2> HIDE DEF S
  <2>4. IsFiniteSet(UNION S) /\ UNION S \subseteq AllKeys
    BY <2>2, <2>3, FS_UNION
  <2> QED
    BY <2>4 DEF S
<1>4. u = [files |-> files, dirs |-> dirs]
  <2>1. u = Ensured(more, D)
    BY Zenon DEF WithPackage
  <2>2. more = [files |-> files, dirs |-> t.dirs]
    <3> HIDE DEF one
    <3> QED
      BY DEF IsTree
  <2> HIDE DEF files, more
  <2>3. [more EXCEPT !.dirs = dirs] = [files |-> files, dirs |-> dirs]
    <3> HIDE DEF dirs
    <3> QED
      BY <2>2
  <2>4. more.dirs = t.dirs
    BY <2>2
  <2>5. Ensured(more, D) = [more EXCEPT !.dirs = Joined(more.dirs, [d \in D |-> clock])]
    BY DEF Ensured
  <2> HIDE DEF D
  <2> QED
    BY <2>1, <2>3, <2>4, <2>5, Zenon
<1>5. DOMAIN one = keys /\ \A x \in keys : one[x].size = 1 /\ one[x].modified = clock
  OBVIOUS
<1> HIDE DEF one
<1>6. /\ DOMAIN files = DOMAIN t.files \cup keys
      /\ \A x \in DOMAIN t.files : files[x] = t.files[x]
      /\ \A x \in keys : files[x] = one[x]
  BY <1>2, <1>5 DEF Joined
<1> HIDE DEF files
<1>7. ASSUME NEW key \in keys, NEW d \in Ancestors(key)
      PROVE  d \in D /\ Ancestors(d) \subseteq D
  BY <1>1, AncestorsClosed
<1>8. \A d \in D : \E key \in keys : d \in Ancestors(key)
  OBVIOUS
<1> HIDE DEF D
<1>9. /\ DOMAIN dirs = DOMAIN t.dirs \cup D
      /\ \A x \in DOMAIN dirs : dirs[x] = clock \/ (x \in DOMAIN t.dirs /\ dirs[x] = t.dirs[x])
  BY DEF Joined
<1> HIDE DEF dirs, u
<1>10. u.files = files /\ u.dirs = dirs /\ u = [files |-> u.files, dirs |-> u.dirs]
  BY <1>4
<1>11. IsFiniteSet(DOMAIN t.files) /\ IsFiniteSet(DOMAIN t.dirs)
  BY DEF IsTree
<1>12. IsFiniteSet(DOMAIN u.files) /\ IsFiniteSet(DOMAIN u.dirs)
  <2>1. IsFiniteSet(DOMAIN t.files \cup keys) /\ IsFiniteSet(DOMAIN t.dirs \cup D)
    BY <1>1, <1>3, <1>11, FS_Union
  <2> QED
    BY <1>6, <1>9, <1>10, <2>1
<1>13. ParentsExist(u)
  <2>1. \A x \in DOMAIN t.files \cup DOMAIN t.dirs : Ancestors(x) \subseteq DOMAIN t.dirs
    BY DEF IsTree, ParentsExist, Occupied
  <2>2. \A x \in keys : Ancestors(x) \subseteq D
    BY <1>7
  <2>3. \A x \in D : Ancestors(x) \subseteq D
    BY <1>7, <1>8
  <2> QED
    BY <1>6, <1>9, <1>10, <2>1, <2>2, <2>3 DEF ParentsExist, Occupied
<1>14. IsTree(u, clock)
  <2>1. 1 \in 0 .. MaxFileBytes /\ clock \in 0 .. clock
    BY StorageAssumption
  <2>2. \A x \in DOMAIN u.files :
          u.files[x].size \in 0 .. MaxFileBytes /\ u.files[x].modified \in 0 .. clock
    BY <1>5, <1>6, <1>10, <2>1 DEF IsTree
  <2>3. \A x \in DOMAIN u.dirs : u.dirs[x] \in 0 .. clock
    BY <1>9, <1>10, <2>1 DEF IsTree
  <2>4. DOMAIN u.files \subseteq AllKeys /\ DOMAIN u.dirs \subseteq AllKeys
    BY <1>1, <1>3, <1>6, <1>9, <1>10 DEF IsTree
  <2>5. DOMAIN u.files \cap DOMAIN u.dirs = {}
    BY <1>2, <1>6, <1>9, <1>10 DEF IsTree
  <2> QED
    BY <1>10, <1>12, <1>13, <2>2, <2>3, <2>4, <2>5 DEF IsTree
<1>15. Used(u) <= MaxStorageBytes
  <2> DEFINE v == Sizes(t)
             w == [key \in keys |-> 1]
             both == Sizes(u)
  <2>1. IsWeight(v) /\ Used(t) = TotalOf(v) /\ Used(t) \in Nat
    BY TreeNumbers
  <2>2. IsWeight(w) /\ TotalOf(w) = Cardinality(keys) /\ DOMAIN w = keys /\ \A x \in keys : w[x] = 1
    BY <1>1, TotalOfOnes
  <2>3. /\ DOMAIN v = DOMAIN t.files /\ \A x \in DOMAIN v : v[x] = t.files[x].size
        /\ DOMAIN both = DOMAIN u.files /\ \A x \in DOMAIN both : both[x] = u.files[x].size
    BY DEF Sizes
  <2>4. Used(u) = TotalOf(both)
    BY DEF Used, Sizes
  <2> HIDE DEF v, w, both
  <2>5. /\ DOMAIN both = DOMAIN v \cup DOMAIN w
        /\ \A x \in DOMAIN v : both[x] = v[x]
        /\ \A x \in DOMAIN w \ DOMAIN v : both[x] = w[x]
    BY <1>5, <1>6, <1>10, <2>2, <2>3
  <2>6. TotalOf(both) \in Nat /\ TotalOf(both) <= TotalOf(v) + TotalOf(w)
    BY <2>1, <2>2, <2>5, TotalJoined
  <2>7. Cardinality(keys) \in Nat
    BY <1>1, FS_CardinalityType
  <2> QED
    BY <1>2, <2>1, <2>2, <2>4, <2>6, <2>7, StorageAssumption
<1>16. Count(u) <= MaxFiles
  BY <1>2
<1> QED
  BY <1>14, <1>15, <1>16 DEF Within, u

LEMMA PackageSnapshot ==
  ASSUME SnapshotInv, NEW keys \in Packages, MountPackage(keys) \/ ReplacePackage(keys)
  PROVE  SnapshotInv'
<1>1. /\ UNCHANGED <<handles, stores, registered, clock>>
      /\ clock \in Nat /\ IsTree(tree, clock) /\ Within(tree)
  BY DEF SnapshotInv, TreeInv, MountPackage, ReplacePackage
<1>2. CASE MountPackage(keys)
  <2>1. tree' = WithPackage(tree, keys) /\ CanMount(tree, keys)
    BY <1>2 DEF MountPackage, Does
  <2>2. IsTree(tree', clock) /\ Within(tree')
    BY <1>1, <2>1, MountedTree
  <2>3. TreeInv'
    BY <1>1, <2>2 DEF TreeInv
  <2> QED
    BY <1>1, <2>3, Unchanged DEF SnapshotInv
<1>3. CASE ReplacePackage(keys)
  <2> DEFINE u == MutableTree(tree)
             S == {"private", "temporary"}
             pack == PackageTree(tree)
             files == Without(tree.files, DOMAIN pack.files)
             dirs == Without(tree.dirs, DOMAIN pack.dirs)
  <2>1. tree' = WithPackage(u, keys) /\ CanMount(u, keys)
    BY <1>3 DEF ReplacePackage, Does
  <2>2. \A key \in AllKeys : key.ns # "package" <=> key.ns \in S
    BY DEF AllKeys, Namespaces
  <2>3. /\ DOMAIN pack.files = {key \in DOMAIN tree.files : key.ns = "package"}
        /\ DOMAIN pack.dirs = {key \in DOMAIN tree.dirs : key.ns = "package"}
    BY DEF PackageTree
  <2>4. u = [files |-> files, dirs |-> dirs]
    BY DEF MutableTree
  <2> HIDE DEF pack, S
  <2>5. /\ DOMAIN files = {key \in DOMAIN tree.files : key.ns \in S}
        /\ DOMAIN dirs = {key \in DOMAIN tree.dirs : key.ns \in S}
        /\ \A x \in DOMAIN files : files[x] = tree.files[x]
        /\ \A x \in DOMAIN dirs : dirs[x] = tree.dirs[x]
    BY <1>1, <2>2, <2>3 DEF Without, IsTree
  <2> HIDE DEF files, dirs, u
  <2>6. u.files = files /\ u.dirs = dirs /\ u = [files |-> u.files, dirs |-> u.dirs]
    BY <2>4
  <2>7. /\ DOMAIN u.files = {key \in DOMAIN tree.files : key.ns \in S}
        /\ DOMAIN u.dirs = {key \in DOMAIN tree.dirs : key.ns \in S}
        /\ \A x \in DOMAIN u.files :
             u.files[x].size = tree.files[x].size /\ u.files[x].modified \in 0 .. clock
        /\ \A x \in DOMAIN u.dirs : u.dirs[x] \in 0 .. clock
    BY <1>1, <2>5, <2>6 DEF IsTree
  <2>8. IsTree(u, clock) /\ Within(u)
    BY <1>1, <2>6, <2>7, SomeNamespaces
  <2>9. IsTree(tree', clock) /\ Within(tree')
    BY <1>1, <2>1, <2>8, MountedTree
  <2>10. TreeInv'
    BY <1>1, <2>9 DEF TreeInv
  <2> QED
    BY <1>1, <2>10, Unchanged DEF SnapshotInv
<1> QED
  BY <1>2, <1>3

-----------------------------------------------------------------------------
(* Record stores.                                                           *)

\* A store changed in its records only.
LEMMA RecordsSet ==
  ASSUME SnapshotInv, NEW name \in DOMAIN stores, NEW store,
         stores' = [stores EXCEPT ![name] = store], store.id = stores[name].id,
         IsWeight(store.records), RecordsAccepted(store),
         UNCHANGED <<tree, handles, registered, clock>>
  PROVE  SnapshotInv'
<1>1. /\ DOMAIN stores' = DOMAIN stores /\ stores'[name] = store
      /\ \A x \in DOMAIN stores \ {name} : stores'[x] = stores[x]
  OBVIOUS
<1>2. \A x \in DOMAIN stores : stores'[x].id = stores[x].id
  BY <1>1
<1>3. StoresInv'
  BY <1>1 DEF SnapshotInv, StoresInv
<1>4. IDsInv'
  <2>1. {stores'[x].id : x \in DOMAIN stores'} = {stores[x].id : x \in DOMAIN stores}
    BY <1>1, <1>2
  <2> QED
    BY <1>1, <1>2, <2>1 DEF SnapshotInv, IDsInv
<1> QED
  BY <1>3, <1>4, Unchanged DEF SnapshotInv

LEMMA RecordBytesAre == ASSUME NEW records PROVE RecordBytes(records) = TotalOf(records)
BY DEF RecordBytes

LEMMA AddRecordSnapshot ==
  ASSUME SnapshotInv, RecordInv, NEW name, NEW size \in 0 .. MaxRecordBytes, AddRecord(name, size)
  PROVE  SnapshotInv'
<1> DEFINE old == stores[name]
           n == old.nextID
           records == Added(old.records, n, size)
           store == [id |-> old.id, nextID |-> n + 1, records |-> records,
                     given |-> old.given \cup {n}]
<1>1. /\ name \in DOMAIN stores /\ stores' = [stores EXCEPT ![name] = store]
      /\ UNCHANGED <<tree, handles, registered, clock>>
      /\ Cardinality(DOMAIN old.records) < MaxRecords
      /\ CanResizeRecord(old.records, 0, size)
  BY DEF AddRecord, SetStore, Does
<1>2. /\ n \in Nat \ {0} /\ DOMAIN old.records \subseteq 0 .. n - 1
      /\ IsWeight(old.records) /\ RecordsAccepted(old) /\ size \in Nat
  <2>1. StoreOK(old)
    BY <1>1 DEF RecordInv
  <2> QED
    BY <1>1, <2>1, StorageAssumption DEF StoreOK, SnapshotInv, StoresInv
<1>3. /\ store.id = old.id /\ store.nextID = n + 1 /\ store.records = records
  OBVIOUS
<1> HIDE DEF store
<1>4. n \notin DOMAIN old.records
  BY <1>2
<1>5. /\ DOMAIN records = DOMAIN old.records \cup {n} /\ records[n] = size
      /\ \A r \in DOMAIN old.records : records[r] = old.records[r]
  BY <1>4 DEF Added, Joined
<1> HIDE DEF records
<1>6. IsFiniteSet(DOMAIN old.records) /\ Cardinality(DOMAIN old.records) \in Nat
  BY <1>2, FS_CardinalityType DEF IsWeight
<1>7. /\ IsFiniteSet(DOMAIN records)
      /\ Cardinality(DOMAIN records) = Cardinality(DOMAIN old.records) + 1
  <2> DEFINE S == DOMAIN old.records
             T == DOMAIN records
  <2>1. T = S \cup {n} /\ n \notin S /\ IsFiniteSet(S)
    BY <1>4, <1>5, <1>6
  <2> HIDE DEF S, T
  <2>2. IsFiniteSet(T) /\ Cardinality(T) = Cardinality(S) + 1
    BY <2>1, FS_AddElement
  <2> QED
    BY <2>2 DEF S, T
<1>8. IsWeight(records)
  BY <1>2, <1>5, <1>7 DEF IsWeight
<1>9. TotalOf(records) = TotalOf(old.records) + size
  <2>1. n \in DOMAIN records /\ DOMAIN old.records = DOMAIN records \ {n}
    BY <1>4, <1>5
  <2>2. \A r \in DOMAIN old.records : old.records[r] = records[r]
    BY <1>5
  <2>3. TotalOf(records) = TotalOf(old.records) + records[n]
    BY <1>8, <2>1, <2>2, TotalSplit
  <2> QED
    BY <1>5, <2>3
<1>10. RecordBytes(records) <= MaxRecordBytes
  <2>1. TotalOf(old.records) \in Nat
    BY <1>2, TotalType
  <2>2. TotalOf(old.records) - 0 + size <= MaxRecordBytes
    BY <1>1 DEF CanResizeRecord, RecordBytes
  <2> QED
    BY <1>2, <1>9, <2>1, <2>2, RecordBytesAre
<1>11. Cardinality(DOMAIN records) <= MaxRecords
  BY <1>1, <1>6, <1>7, StorageAssumption
<1>12. \A r \in DOMAIN records : r < n + 1
  BY <1>2, <1>5
<1>13. n + 1 # 0
  BY <1>2
<1>14. RecordsAccepted(store)
  BY <1>3, <1>10, <1>11, <1>12, <1>13 DEF RecordsAccepted
<1> QED
  BY <1>1, <1>3, <1>8, <1>14, RecordsSet

LEMMA RecordSnapshot ==
  ASSUME SnapshotInv, RecordInv, NEW name, NEW record, NEW size \in 0 .. MaxRecordBytes,
         SetRecord(name, record, size) \/ DeleteRecord(name, record)
  PROVE  SnapshotInv'
<1> DEFINE old == stores[name]
<1>1. /\ name \in DOMAIN stores /\ record \in DOMAIN old.records /\ StoreOK(old)
      /\ UNCHANGED <<tree, handles, registered, clock>>
      /\ IsWeight(old.records) /\ RecordsAccepted(old)
      /\ size \in Nat /\ MaxRecords \in Nat /\ MaxRecordBytes \in Nat
  BY StorageAssumption
     DEF SetRecord, DeleteRecord, SetStore, Does, RecordInv, SnapshotInv, StoresInv
<1>2. CASE SetRecord(name, record, size)
  <2> DEFINE records == [old.records EXCEPT ![record] = size]
             store == [old EXCEPT !.records[record] = size]
  <2>1. /\ stores' = [stores EXCEPT ![name] = store]
        /\ CanResizeRecord(old.records, old.records[record], size)
    BY <1>2 DEF SetRecord, SetStore
  <2>2. store = [id |-> old.id, nextID |-> old.nextID, records |-> records, given |-> old.given]
    BY <1>1 DEF StoreOK
  <2>3. /\ DOMAIN records = DOMAIN old.records /\ records[record] = size
        /\ \A r \in DOMAIN old.records \ {record} : records[r] = old.records[r]
    BY <1>1
  <2> HIDE DEF store, records
  <2>4. store.id = old.id /\ store.nextID = old.nextID /\ store.records = records
    BY <2>2
  <2>5. /\ IsWeight(records) /\ TotalOf(old.records) \in Nat
        /\ TotalOf(records) = TotalOf(old.records) - old.records[record] + records[record]
    <3> DEFINE w == old.records
    <3>1. /\ IsWeight(w) /\ DOMAIN records = DOMAIN w /\ record \in DOMAIN w
          /\ records[record] \in Nat /\ \A r \in DOMAIN w \ {record} : records[r] = w[r]
      BY <1>1, <2>3
    <3> HIDE DEF w
    <3>2. /\ IsWeight(records) /\ TotalOf(w) \in Nat
          /\ TotalOf(records) = TotalOf(w) - w[record] + records[record]
      BY <3>1, TotalChange
    <3> QED
      BY <3>2 DEF w
  <2>6. RecordBytes(records) <= MaxRecordBytes
    <3>1. TotalOf(old.records) - old.records[record] + size <= MaxRecordBytes
      BY <2>1 DEF CanResizeRecord, RecordBytes
    <3>2. TotalOf(records) <= MaxRecordBytes
      BY <2>3, <2>5, <3>1
    <3> QED
      BY <3>2, RecordBytesAre
  <2>7. RecordsAccepted(store)
    BY <1>1, <2>3, <2>4, <2>6 DEF RecordsAccepted
  <2> QED
    BY <1>1, <2>1, <2>4, <2>5, <2>7, RecordsSet
<1>3. CASE DeleteRecord(name, record)
  <2> DEFINE records == Without(old.records, {record})
             store == [old EXCEPT !.records = Without(@, {record})]
  <2>1. stores' = [stores EXCEPT ![name] = store]
    BY <1>3 DEF DeleteRecord, SetStore
  <2>2. store = [id |-> old.id, nextID |-> old.nextID, records |-> records, given |-> old.given]
    BY <1>1 DEF StoreOK
  <2>3. /\ DOMAIN records = DOMAIN old.records \ {record}
        /\ \A r \in DOMAIN records : records[r] = old.records[r]
    BY DEF Without
  <2> HIDE DEF store, records
  <2>4. store.id = old.id /\ store.nextID = old.nextID /\ store.records = records
    BY <2>2
  <2>5. IsWeight(records) /\ TotalOf(old.records) = TotalOf(records) + old.records[record]
    <3> DEFINE w == old.records
    <3>1. /\ IsWeight(w) /\ DOMAIN records = DOMAIN w \ {record} /\ record \in DOMAIN w
          /\ \A r \in DOMAIN records : records[r] = w[r]
      BY <1>1, <2>3
    <3> HIDE DEF w
    <3>2. IsWeight(records) /\ TotalOf(w) = TotalOf(records) + w[record]
      BY <3>1, TotalSplit
    <3> QED
      BY <3>2 DEF w
  <2>6. RecordBytes(records) <= MaxRecordBytes
    <3>1. TotalOf(records) \in Nat /\ old.records[record] \in Nat
      BY <1>1, <2>5, TotalType DEF IsWeight
    <3>2. TotalOf(old.records) <= MaxRecordBytes
      BY <1>1, RecordBytesAre DEF RecordsAccepted
    <3>3. TotalOf(records) <= MaxRecordBytes
      BY <1>1, <2>5, <3>1, <3>2
    <3> QED
      BY <3>3, RecordBytesAre
  <2>7. Cardinality(DOMAIN records) <= MaxRecords
    <3> DEFINE a == Cardinality(DOMAIN old.records)
               b == Cardinality(DOMAIN records)
    <3>1. IsFiniteSet(DOMAIN old.records)
      BY <1>1 DEF IsWeight
    <3>2. a \in Nat /\ b = a - 1 /\ a <= MaxRecords
      BY <1>1, <2>3, <3>1, FS_RemoveElement, FS_CardinalityType DEF RecordsAccepted
    <3> HIDE DEF a, b
    <3>3. b <= MaxRecords
      BY <1>1, <3>2
    <3> QED
      BY <3>3 DEF b
  <2>8. RecordsAccepted(store)
    BY <1>1, <2>3, <2>4, <2>6, <2>7 DEF RecordsAccepted
  <2> QED
    BY <1>1, <2>1, <2>4, <2>5, <2>8, RecordsSet
<1> QED
  BY <1>2, <1>3

LEMMA ReplaceSnapshot ==
  ASSUME SnapshotInv, NEW name, NEW next \in 1 .. MaxRecordID, NEW n \in 0 .. MaxRecords,
         NEW records \in [0 .. n - 1 -> 0 .. MaxRecordBytes], ReplaceRecords(name, next, records)
  PROVE  SnapshotInv'
<1> DEFINE store == [id |-> stores[name].id, nextID |-> next, records |-> records,
                     given |-> DOMAIN records]
<1>1. /\ name \in DOMAIN stores /\ stores' = [stores EXCEPT ![name] = store]
      /\ UNCHANGED <<tree, handles, registered, clock>>
      /\ Cardinality(DOMAIN records) <= MaxRecords
      /\ \A record \in DOMAIN records : record < next
      /\ RecordBytes(records) <= MaxRecordBytes
  BY DEF ReplaceRecords, SetStore, Does
<1>2. IsWeight(records)
  <2>1. n \in Nat /\ MaxRecordBytes \in Nat
    BY StorageAssumption
  <2>2. DOMAIN records = 0 .. n - 1 /\ \A r \in DOMAIN records : records[r] \in Nat
    BY <2>1
  <2>3. IsFiniteSet(0 .. n - 1)
    BY <2>1, FS_Interval
  <2> QED
    BY <2>2, <2>3 DEF IsWeight
<1>3. store.id = stores[name].id /\ store.nextID = next /\ store.records = records
  OBVIOUS
<1> HIDE DEF store
<1>4. next # 0
  BY StorageAssumption
<1>5. RecordsAccepted(store)
  BY <1>1, <1>3, <1>4 DEF RecordsAccepted
<1> QED
  BY <1>1, <1>2, <1>3, <1>5, RecordsSet

LEMMA StoreSnapshot ==
  ASSUME SnapshotInv, NEW name, CreateRecordStore(name) \/ DeleteRecordStore(name)
  PROVE  SnapshotInv'
<1> DEFINE ids == {stores[x].id : x \in DOMAIN stores}
<1>1. /\ TreeInv /\ HandleInv /\ StoresInv /\ IDsInv
      /\ UNCHANGED <<tree, handles, clock>>
      /\ registered = DOMAIN handles \cup ids
      /\ IsFiniteSet(DOMAIN stores) /\ Cardinality(DOMAIN stores) \in Nat
  BY FS_CardinalityType
     DEF SnapshotInv, CreateRecordStore, DeleteRecordStore, Does, IDsInv, StoresInv
<1>2. CASE CreateRecordStore(name)
  <2> DEFINE nothing == <<>>
             id == NewID
             store == [id |-> id, nextID |-> 1, records |-> nothing, given |-> {}]
  <2>1. /\ name \notin DOMAIN stores /\ Cardinality(DOMAIN stores) < MaxRecordStores
        /\ stores' = Added(stores, name, store) /\ registered' = registered \cup {id}
    BY <1>2 DEF CreateRecordStore
  <2>2. id \notin registered
    BY <1>1, <2>1, NewIDIsNew
  <2>3. DOMAIN nothing = {}
    OBVIOUS
  <2> HIDE DEF id, nothing
  <2>4. store.id = id /\ store.nextID = 1 /\ store.records = nothing
    OBVIOUS
  <2> HIDE DEF store
  <2>5. /\ DOMAIN stores' = DOMAIN stores \cup {name} /\ stores'[name] = store
        /\ \A x \in DOMAIN stores : stores'[x] = stores[x]
    BY <2>1 DEF Added, Joined
  <2>6. IsWeight(store.records) /\ RecordsAccepted(store)
    <3>1. IsWeight(nothing) /\ RecordBytes(nothing) = 0 /\ Cardinality(DOMAIN nothing) = 0
      BY <2>3, TotalOfNothing, RecordBytesAre, FS_EmptySet
    <3> QED
      BY <2>3, <2>4, <3>1, StorageAssumption DEF RecordsAccepted
  <2>7. StoresInv'
    <3>1. /\ IsFiniteSet(DOMAIN stores')
          /\ Cardinality(DOMAIN stores') = Cardinality(DOMAIN stores) + 1
      BY <1>1, <2>1, <2>5, FS_AddElement
    <3>2. Cardinality(DOMAIN stores') <= MaxRecordStores
      BY <1>1, <2>1, <3>1, StorageAssumption
    <3> QED
      BY <1>1, <2>5, <2>6, <3>1, <3>2 DEF StoresInv
  <2>8. IDsInv'
    <3>1. {stores'[x].id : x \in DOMAIN stores'} = ids \cup {id}
      BY <2>1, <2>4, <2>5
    <3>2. \A x \in DOMAIN stores : stores[x].id \in ids
      OBVIOUS
    <3> HIDE DEF ids
    <3>3. registered' = DOMAIN handles' \cup {stores'[x].id : x \in DOMAIN stores'}
      BY <1>1, <2>1, <3>1
    <3>4. \A x \in DOMAIN stores' : stores'[x].id \notin DOMAIN handles'
      BY <1>1, <2>2, <2>4, <2>5 DEF IDsInv
    <3>5. \A m, n \in DOMAIN stores' : stores'[m].id = stores'[n].id => m = n
      BY <1>1, <2>2, <2>4, <2>5, <3>2 DEF IDsInv
    <3> QED
      BY <3>3, <3>4, <3>5 DEF IDsInv
  <2> QED
    BY <1>1, <2>7, <2>8, Unchanged DEF SnapshotInv
<1>3. CASE DeleteRecordStore(name)
  <2> DEFINE id == stores[name].id
  <2>1. /\ name \in DOMAIN stores /\ stores' = Without(stores, {name})
        /\ registered' = registered \ {id}
    BY <1>3 DEF DeleteRecordStore
  <2>2. /\ DOMAIN stores' = DOMAIN stores \ {name}
        /\ \A x \in DOMAIN stores' : stores'[x] = stores[x]
    BY <2>1 DEF Without
  <2>3. StoresInv'
    <3> DEFINE a == Cardinality(DOMAIN stores)
               b == Cardinality(DOMAIN stores')
    <3>1. IsFiniteSet(DOMAIN stores') /\ b = a - 1
      BY <1>1, <2>1, <2>2, FS_RemoveElement
    <3>2. a \in Nat /\ a <= MaxRecordStores /\ MaxRecordStores \in Nat
      BY <1>1, StorageAssumption DEF StoresInv
    <3> HIDE DEF a, b
    <3>3. b <= MaxRecordStores
      BY <3>1, <3>2
    <3> QED
      BY <1>1, <2>2, <3>1, <3>3 DEF StoresInv, b
  <2>4. IDsInv'
    <3>1. /\ \A x \in DOMAIN stores : stores[x].id \notin DOMAIN handles
          /\ \A m, n \in DOMAIN stores : stores[m].id = stores[n].id => m = n
      BY <1>1 DEF IDsInv
    <3>2. {stores'[x].id : x \in DOMAIN stores'} = ids \ {id}
      <4>1. \A x \in DOMAIN stores' : stores'[x].id = stores[x].id /\ stores[x].id # id
        BY <2>1, <2>2, <3>1
      <4>2. \A x \in DOMAIN stores : stores[x].id # id => x \in DOMAIN stores'
        BY <2>2
      <4> HIDE DEF id
      <4> QED
        BY <2>2, <4>1, <4>2
    <3>3. id \notin DOMAIN handles
      BY <2>1, <3>1
    <3> HIDE DEF ids, id
    <3>4. registered' = DOMAIN handles' \cup {stores'[x].id : x \in DOMAIN stores'}
      BY <1>1, <2>1, <3>2, <3>3
    <3> QED
      BY <1>1, <2>2, <3>1, <3>4 DEF IDsInv
  <2> QED
    BY <1>1, <2>3, <2>4, Unchanged DEF SnapshotInv
<1> QED
  BY <1>2, <1>3

-----------------------------------------------------------------------------
(* A restart.                                                               *)

LEMMA ClampedTree ==
  ASSUME NEW t, FilesOK(t), NEW now \in Nat,
         \A key \in DOMAIN t.files : t.files[key].modified \in Nat,
         \A key \in DOMAIN t.dirs : t.dirs[key] \in Nat
  PROVE  LET u == Clamped(t, now)
         IN  /\ u = [files |-> u.files, dirs |-> u.dirs]
             /\ DOMAIN u.files = DOMAIN t.files /\ DOMAIN u.dirs = DOMAIN t.dirs
             /\ \A key \in DOMAIN t.files :
                  /\ u.files[key].size = t.files[key].size
                  /\ u.files[key].modified \in 0 .. now
             /\ \A key \in DOMAIN t.dirs : u.dirs[key] \in 0 .. now
<1> DEFINE files == [key \in DOMAIN t.files |->
                       [t.files[key] EXCEPT !.modified = ClampTime(@, now)]]
           dirs == [key \in DOMAIN t.dirs |-> ClampTime(t.dirs[key], now)]
           u == Clamped(t, now)
<1>1. u = [files |-> files, dirs |-> dirs]
  BY DEF Clamped
<1>2. ASSUME NEW time \in Nat PROVE ClampTime(time, now) \in 0 .. now
  BY LesserOf DEF ClampTime
<1>3. ASSUME NEW key \in DOMAIN t.files
      PROVE  files[key].size = t.files[key].size /\ files[key].modified \in 0 .. now
  <2>1. IsFile(t.files[key])
    BY DEF FilesOK
  <2> DEFINE file == t.files[key]
             time == ClampTime(file.modified, now)
  <2>2. files[key] = [file EXCEPT !.modified = time]
    OBVIOUS
  <2>3. time \in 0 .. now
    BY <1>2
  <2> HIDE DEF file, time, files
  <2>4. files[key].size = file.size /\ files[key].modified = time
    BY <2>1, <2>2 DEF IsFile, file
  <2> QED
    BY <2>3, <2>4 DEF file
<1>4. \A key \in DOMAIN t.dirs : dirs[key] \in 0 .. now
  BY <1>2
<1>5. DOMAIN files = DOMAIN t.files /\ DOMAIN dirs = DOMAIN t.dirs
  OBVIOUS
<1> HIDE DEF files, dirs, u
<1>6. u.files = files /\ u.dirs = dirs
  BY <1>1
<1> QED
  BY <1>1, <1>3, <1>4, <1>5, <1>6 DEF u

\* The two parts of a tree a restart keeps, of any kind: together they are a
\* tree within the limits.
LEMMA MergedParts ==
  ASSUME NEW t, NEW now, IsTree(t, now), Within(t), NEW u, NEW v, NEW later,
         DOMAIN u.files = {key \in DOMAIN t.files : key.ns = "package"},
         DOMAIN u.dirs = {key \in DOMAIN t.dirs : key.ns = "package"},
         DOMAIN v.files = {key \in DOMAIN t.files : key.ns = "private"},
         DOMAIN v.dirs = {key \in DOMAIN t.dirs : key.ns = "private"},
         \A x \in DOMAIN u.files :
           u.files[x].size = t.files[x].size /\ u.files[x].modified \in 0 .. later,
         \A x \in DOMAIN u.dirs : u.dirs[x] \in 0 .. later,
         \A x \in DOMAIN v.files :
           v.files[x].size = t.files[x].size /\ v.files[x].modified \in 0 .. later,
         \A x \in DOMAIN v.dirs : v.dirs[x] \in 0 .. later
  PROVE  IsTree(Merged(u, v), later) /\ Within(Merged(u, v))
<1> DEFINE files == Joined(u.files, v.files)
           dirs == Joined(u.dirs, v.dirs)
           m == Merged(u, v)
           S == {"package", "private"}
<1>1. m = [files |-> files, dirs |-> dirs]
  BY DEF Merged
<1>2. /\ DOMAIN files = DOMAIN u.files \cup DOMAIN v.files
      /\ \A x \in DOMAIN u.files : files[x] = u.files[x]
      /\ \A x \in DOMAIN v.files \ DOMAIN u.files : files[x] = v.files[x]
      /\ DOMAIN dirs = DOMAIN u.dirs \cup DOMAIN v.dirs
      /\ \A x \in DOMAIN u.dirs : dirs[x] = u.dirs[x]
      /\ \A x \in DOMAIN v.dirs \ DOMAIN u.dirs : dirs[x] = v.dirs[x]
  BY DEF Joined
<1> HIDE DEF files, dirs, m
<1>3. m.files = files /\ m.dirs = dirs /\ m = [files |-> m.files, dirs |-> m.dirs]
  BY <1>1
<1>4. /\ DOMAIN m.files = {key \in DOMAIN t.files : key.ns \in S}
      /\ DOMAIN m.dirs = {key \in DOMAIN t.dirs : key.ns \in S}
  BY <1>2, <1>3
<1>5. /\ \A x \in DOMAIN m.files :
           m.files[x].size = t.files[x].size /\ m.files[x].modified \in 0 .. later
      /\ \A x \in DOMAIN m.dirs : m.dirs[x] \in 0 .. later
  BY <1>2, <1>3
<1> HIDE DEF S
<1>6. IsTree(m, later) /\ Within(m)
  BY <1>3, <1>4, <1>5, SomeNamespaces
<1> QED
  BY <1>6 DEF m

\* Everything that is exported is accepted again.
LEMMA ImportAccepted ==
  ASSUME TreeInv, StoresInv, FilesOK(tree)
  PROVE  /\ CanImport(Booted(tree), Exported(tree), stores)
         /\ LET t == Merged(Booted(tree), Clamped(Exported(tree), 0))
            IN  IsTree(t, 0) /\ Within(t)
<1> DEFINE pack == PackageTree(tree)
           boot == Booted(tree)
           saved == Exported(tree)
           clamped == Clamped(saved, 0)
           whole == Merged(boot, saved)
<1>1. clock \in Nat /\ IsTree(tree, clock) /\ Within(tree)
  BY DEF TreeInv
<1>2. /\ DOMAIN tree.files \subseteq AllKeys /\ DOMAIN tree.dirs \subseteq AllKeys
      /\ \A x \in DOMAIN tree.files : tree.files[x].modified \in 0 .. clock
      /\ \A x \in DOMAIN tree.dirs : tree.dirs[x] \in 0 .. clock
  BY <1>1 DEF IsTree
<1>3. /\ DOMAIN pack.files = {key \in DOMAIN tree.files : key.ns = "package"}
      /\ DOMAIN pack.dirs = {key \in DOMAIN tree.dirs : key.ns = "package"}
      /\ \A x \in DOMAIN pack.files : pack.files[x] = tree.files[x]
      /\ \A x \in DOMAIN pack.dirs : pack.dirs[x] = tree.dirs[x]
      /\ FilesOK(pack)
  BY SomeFiles DEF PackageTree
<1>4. /\ DOMAIN saved.files = {key \in DOMAIN tree.files : key.ns = "private"}
      /\ DOMAIN saved.dirs = {key \in DOMAIN tree.dirs : key.ns = "private"}
      /\ \A x \in DOMAIN saved.files : saved.files[x] = tree.files[x]
      /\ \A x \in DOMAIN saved.dirs : saved.dirs[x] = tree.dirs[x]
      /\ FilesOK(saved)
  <2>1. \A key \in AllKeys : PersistentNamespace(key.ns) <=> key.ns = "private"
    BY DEF AllKeys, Namespaces, PersistentNamespace
  <2>2. FilesOK(saved)
    BY SomeFiles
  <2>3. /\ DOMAIN saved.files = {key \in DOMAIN tree.files : PersistentNamespace(key.ns)}
        /\ DOMAIN saved.dirs = {key \in DOMAIN tree.dirs : PersistentNamespace(key.ns)}
        /\ \A x \in DOMAIN saved.files : saved.files[x] = tree.files[x]
        /\ \A x \in DOMAIN saved.dirs : saved.dirs[x] = tree.dirs[x]
    BY DEF Exported
  <2> HIDE DEF saved
  <2> QED
    BY <1>2, <2>1, <2>2, <2>3
<1>5. boot = Clamped(pack, 0)
  BY DEF Booted
<1> HIDE DEF pack, saved, boot
<1>6. /\ DOMAIN boot.files = DOMAIN pack.files /\ DOMAIN boot.dirs = DOMAIN pack.dirs
      /\ \A x \in DOMAIN pack.files :
           boot.files[x].size = pack.files[x].size /\ boot.files[x].modified \in 0 .. 0
      /\ \A x \in DOMAIN pack.dirs : boot.dirs[x] \in 0 .. 0
  <2>1. /\ \A x \in DOMAIN pack.files : pack.files[x].modified \in Nat
        /\ \A x \in DOMAIN pack.dirs : pack.dirs[x] \in Nat
    BY <1>2, <1>3
  <2> QED
    BY <1>3, <1>5, <2>1, ClampedTree
<1>7. /\ DOMAIN clamped.files = DOMAIN saved.files /\ DOMAIN clamped.dirs = DOMAIN saved.dirs
      /\ \A x \in DOMAIN saved.files :
           clamped.files[x].size = saved.files[x].size /\ clamped.files[x].modified \in 0 .. 0
      /\ \A x \in DOMAIN saved.dirs : clamped.dirs[x] \in 0 .. 0
  <2>1. /\ \A x \in DOMAIN saved.files : saved.files[x].modified \in Nat
        /\ \A x \in DOMAIN saved.dirs : saved.dirs[x] \in Nat
    BY <1>2, <1>4
  <2> QED
    BY <1>4, <2>1, ClampedTree
<1> HIDE DEF clamped
<1>8. IsTree(Merged(boot, clamped), 0) /\ Within(Merged(boot, clamped))
  <2>1. /\ DOMAIN boot.files = {key \in DOMAIN tree.files : key.ns = "package"}
        /\ DOMAIN boot.dirs = {key \in DOMAIN tree.dirs : key.ns = "package"}
        /\ \A x \in DOMAIN boot.files :
             boot.files[x].size = tree.files[x].size /\ boot.files[x].modified \in 0 .. 0
        /\ \A x \in DOMAIN boot.dirs : boot.dirs[x] \in 0 .. 0
    BY <1>3, <1>6
  <2>2. /\ DOMAIN clamped.files = {key \in DOMAIN tree.files : key.ns = "private"}
        /\ DOMAIN clamped.dirs = {key \in DOMAIN tree.dirs : key.ns = "private"}
        /\ \A x \in DOMAIN clamped.files :
             clamped.files[x].size = tree.files[x].size /\ clamped.files[x].modified \in 0 .. 0
        /\ \A x \in DOMAIN clamped.dirs : clamped.dirs[x] \in 0 .. 0
    BY <1>4, <1>7
  <2> QED
    BY <1>1, <2>1, <2>2, MergedParts
<1>9. IsTree(whole, clock) /\ Within(whole)
  <2>1. 0 .. 0 \subseteq 0 .. clock
    BY <1>1
  <2>2. /\ DOMAIN boot.files = {key \in DOMAIN tree.files : key.ns = "package"}
        /\ DOMAIN boot.dirs = {key \in DOMAIN tree.dirs : key.ns = "package"}
        /\ \A x \in DOMAIN boot.files :
             boot.files[x].size = tree.files[x].size /\ boot.files[x].modified \in 0 .. clock
        /\ \A x \in DOMAIN boot.dirs : boot.dirs[x] \in 0 .. clock
    BY <1>3, <1>6, <2>1
  <2>3. /\ DOMAIN saved.files = {key \in DOMAIN tree.files : key.ns = "private"}
        /\ DOMAIN saved.dirs = {key \in DOMAIN tree.dirs : key.ns = "private"}
        /\ \A x \in DOMAIN saved.files :
             saved.files[x].size = tree.files[x].size /\ saved.files[x].modified \in 0 .. clock
        /\ \A x \in DOMAIN saved.dirs : saved.dirs[x] \in 0 .. clock
    BY <1>2, <1>4
  <2> QED
    BY <1>1, <2>2, <2>3, MergedParts
<1> HIDE DEF whole
<1>10. Occupied(boot) \cap Occupied(saved) = {}
  BY <1>3, <1>4, <1>6 DEF Occupied
<1>11. DOMAIN saved.files \cap DOMAIN saved.dirs = {}
  BY <1>1, <1>4 DEF IsTree
<1>12. \A key \in DOMAIN saved.files : saved.files[key].size <= MaxFileBytes
  BY <1>1, <1>4, StorageAssumption DEF IsTree
<1>13. Used(whole) <= MaxStorageBytes /\ Count(whole) <= MaxFiles /\ ParentsExist(whole)
  BY <1>9 DEF IsTree, Within
<1>14. /\ Cardinality(DOMAIN stores) <= MaxRecordStores
       /\ \A name \in DOMAIN stores : RecordsAccepted(stores[name])
  BY DEF StoresInv
<1>15. CanImport(boot, saved, stores)
  BY <1>10, <1>11, <1>12, <1>13, <1>14, Zenon DEF CanImport, whole
<1> QED
  BY <1>8, <1>15, Zenon DEF boot, saved, clamped

LEMMA ResetSnapshot ==
  ASSUME SnapshotInv, StorageInv, Reset
  PROVE  SnapshotInv' /\ failed' = FALSE
<1> DEFINE n == Cardinality(DOMAIN stores)
<1>1. FilesOK(tree) /\ RecordInv /\ TreeInv /\ StoresInv
  BY DEF StorageInv, FileInv, Keeps, SnapshotInv
<1>2. /\ CanImport(Booted(tree), Exported(tree), stores)
      /\ IsTree(Merged(Booted(tree), Clamped(Exported(tree), 0)), 0)
      /\ Within(Merged(Booted(tree), Clamped(Exported(tree), 0)))
  BY <1>1, ImportAccepted
<1>3. /\ clock' = 0 /\ handles' = <<>> /\ failed' = FALSE
      /\ tree' = Merged(Booted(tree), Clamped(Exported(tree), 0))
      /\ \E ids \in Injection(DOMAIN stores, 1 .. n) :
           /\ stores' = [name \in DOMAIN stores |-> ImportedStore(stores[name], ids[name])]
           /\ registered' = {ids[name] : name \in DOMAIN stores}
  BY <1>2, Zenon DEF Reset
<1>4. PICK ids \in Injection(DOMAIN stores, 1 .. n) :
        /\ stores' = [name \in DOMAIN stores |-> ImportedStore(stores[name], ids[name])]
        /\ registered' = {ids[name] : name \in DOMAIN stores}
  BY <1>3
<1>5. \A x, y \in DOMAIN stores : ids[x] = ids[y] => x = y
  BY DEF Injection, IsInjective
<1>6. DOMAIN handles' = {}
  BY <1>3
<1>7. TreeInv'
  BY <1>2, <1>3 DEF TreeInv
<1>8. HandleInv'
  BY <1>6, FS_EmptySet, StorageAssumption DEF HandleInv
<1>9. DOMAIN stores' = DOMAIN stores
  BY <1>4
<1>10. ASSUME NEW name \in DOMAIN stores
       PROVE  /\ stores'[name].id = ids[name] /\ stores'[name].nextID = stores[name].nextID
              /\ stores'[name].records = stores[name].records
  <2> DEFINE old == stores[name]
             id == ids[name]
  <2>1. stores'[name] = [old EXCEPT !.id = id] /\ StoreOK(old)
    BY <1>1, <1>4 DEF ImportedStore, RecordInv
  <2> HIDE DEF old, id
  <2>2. /\ stores'[name].id = id /\ stores'[name].nextID = old.nextID
        /\ stores'[name].records = old.records
    BY <2>1 DEF StoreOK
  <2> QED
    BY <2>2 DEF old, id
<1>11. StoresInv'
  BY <1>1, <1>9, <1>10 DEF StoresInv, RecordsAccepted
<1>12. IDsInv'
  <2>1. {stores'[name].id : name \in DOMAIN stores'} = {ids[name] : name \in DOMAIN stores}
    BY <1>9, <1>10
  <2>2. registered' = DOMAIN handles' \cup {stores'[name].id : name \in DOMAIN stores'}
    BY <1>4, <1>6, <2>1
  <2>3. \A x, y \in DOMAIN stores' : stores'[x].id = stores'[y].id => x = y
    BY <1>5, <1>9, <1>10
  <2> QED
    BY <1>6, <2>2, <2>3 DEF IDsInv
<1> QED
  BY <1>3, <1>7, <1>8, <1>11, <1>12 DEF SnapshotInv

-----------------------------------------------------------------------------
LEMMA FilesAlone ==
  ASSUME FileInv, UNCHANGED <<tree, handles>>
  PROVE  FileInv'
BY DEF FileInv, HandlesOK, Keeps

LEMMA RecordsAlone ==
  ASSUME RecordInv, UNCHANGED stores
  PROVE  RecordInv'
BY DEF RecordInv

LEMMA StorageStep ==
  ASSUME StorageInv, [StorageNext]_storageVars
  PROVE  StorageInv'
<1>1. FileInv /\ RecordInv
  BY DEF StorageInv
<1>2. CASE FileNext
  <2>1. UNCHANGED stores
    BY <1>2 DEF FileNext, MakeDirectory, RemoveDirectory, Delete, WriteFile, Open, Rename,
                RenameDirectory, CloseFile, Read, Write, Seek, MountPackage, ReplacePackage
  <2>2. FileInv'
    BY <1>1, <1>2, DirectorySteps, DeleteStep, WriteFileStep, OpenStep, RenameStep,
       RenameDirectoryStep, CloseStep, ReadStep, WriteStep, SeekStep, PackageSteps DEF FileNext
  <2> QED
    BY <1>1, <2>1, <2>2, RecordsAlone DEF StorageInv
<1>3. CASE RecordNext
  <2>1. UNCHANGED <<tree, handles>>
    BY <1>3 DEF RecordNext, CreateRecordStore, DeleteRecordStore, AddRecord, DeleteRecord,
                SetRecord, ReplaceRecords, SetStore, Does
  <2>2. RecordInv'
    BY <1>1, <1>3, StoreSteps, AddRecordStep, RecordSteps, ReplaceStep DEF RecordNext
  <2> QED
    BY <1>1, <2>1, <2>2, FilesAlone DEF StorageInv
<1>4. CASE Reset
  BY <1>1, <1>4, ResetFiles, ResetRecords DEF StorageInv
<1>5. CASE Tick
  BY <1>1, <1>5, FilesAlone, RecordsAlone DEF StorageInv, Tick, Does
<1>6. CASE UNCHANGED storageVars
  BY <1>1, <1>6, FilesAlone, RecordsAlone DEF StorageInv, storageVars
<1> QED
  BY <1>2, <1>3, <1>4, <1>5, <1>6 DEF StorageNext

\* A later clock makes no time one of the future.
LEMMA TickSnapshot ==
  ASSUME SnapshotInv, Tick
  PROVE  SnapshotInv' /\ failed' = FALSE
<1>1. /\ clock \in Nat /\ IsTree(tree, clock) /\ Within(tree)
      /\ HandleInv /\ StoresInv /\ IDsInv
      /\ clock' = clock + 1 /\ failed' = FALSE
      /\ tree' = tree /\ UNCHANGED <<handles, stores, registered>>
  BY DEF SnapshotInv, TreeInv, Tick, Does
<1>2. clock' \in Nat /\ \A time \in 0 .. clock : time \in 0 .. clock'
  BY <1>1
<1>3. IsTree(tree, clock')
  BY <1>1, <1>2, Zenon DEF IsTree
<1>4. TreeInv'
  BY <1>1, <1>2, <1>3 DEF TreeInv
<1>5. HandleInv' /\ StoresInv' /\ IDsInv'
  BY <1>1 DEF HandleInv, StoresInv, IDsInv
<1> QED
  BY <1>1, <1>4, <1>5 DEF SnapshotInv

LEMMA FirstSnapshot == ASSUME StorageInit PROVE SnapshotInv
<1> DEFINE nothing == <<>>
<1>1. DOMAIN nothing = {}
  OBVIOUS
<1> HIDE DEF nothing
<1>2. /\ tree = [files |-> nothing, dirs |-> nothing]
      /\ handles = nothing /\ stores = nothing /\ registered = {} /\ clock = 0
  BY DEF StorageInit, nothing
<1>3. tree.files = nothing /\ tree.dirs = nothing
  BY <1>2
<1>4. IsFiniteSet({}) /\ Cardinality({}) = 0
  BY FS_EmptySet
<1>5. IsTree(tree, clock)
  BY <1>1, <1>2, <1>3, <1>4 DEF IsTree, ParentsExist, Occupied
<1>6. Within(tree)
  <2> DEFINE sizes == [key \in DOMAIN tree.files |-> tree.files[key].size]
  <2>1. DOMAIN sizes = {}
    BY <1>1, <1>3
  <2>2. TotalOf(sizes) = 0
    <3> HIDE DEF sizes
    <3> QED
      BY <2>1, TotalOfNothing
  <2>3. Used(tree) = 0
    BY <2>2, Zenon DEF Used, sizes
  <2>4. Count(tree) = 0
    BY <1>1, <1>3, <1>4 DEF Count
  <2> QED
    BY <2>3, <2>4, StorageAssumption DEF Within
<1>7. HandleInv /\ StoresInv
  BY <1>1, <1>2, <1>4, StorageAssumption DEF HandleInv, StoresInv
<1>8. IDsInv
  <2>1. {stores[name].id : name \in DOMAIN stores} = {}
    BY <1>1, <1>2
  <2> QED
    BY <1>1, <1>2, <2>1 DEF IDsInv
<1> QED
  BY <1>2, <1>5, <1>6, <1>7, <1>8 DEF SnapshotInv, TreeInv

\* Every step keeps what a snapshot is checked for, and a call that fails keeps
\* everything.
LEMMA SnapshotStep ==
  ASSUME SnapshotInv, StorageInv, [StorageNext]_storageVars
  PROVE  /\ SnapshotInv'
         /\ StorageNext /\ failed' => UNCHANGED <<tree, handles, stores, registered, clock>>
<1>1. FileInv /\ RecordInv
  BY DEF StorageInv
<1>2. ASSUME NEW key \in Keys,
             MakeDirectory(key) \/ RemoveDirectory(key) \/ Delete(key)
      PROVE  SnapshotInv' /\ ~failed'
  <2>1. ~failed'
    BY <1>2 DEF MakeDirectory, RemoveDirectory, Delete, Does
  <2> QED
    BY <1>2, <2>1, DirectorySnapshot, DeleteSnapshot
<1>3. ASSUME NEW from \in Keys, NEW to \in Keys, Rename(from, to) \/ RenameDirectory(from, to)
      PROVE  SnapshotInv' /\ ~failed'
  <2>1. ~failed'
    BY <1>3 DEF Rename, RenameDirectory, Does
  <2> QED
    BY <1>1, <1>3, <2>1, RenameSnapshot, RenameDirectorySnapshot
<1>4. ASSUME NEW id \in DOMAIN handles,
             \/ CloseFile(id)
             \/ \E size \in 0 .. MaxFileBytes : Read(id, size) \/ Write(id, size) \/ Seek(id, size)
      PROVE  SnapshotInv' /\ ~failed'
  <2>1. ~failed'
    BY <1>4 DEF CloseFile, Read, Write, Seek, Does
  <2> QED
    BY <1>1, <1>4, <2>1, CloseIDs, FileSteps
<1>5. ASSUME NEW keys \in Packages, MountPackage(keys) \/ ReplacePackage(keys)
      PROVE  SnapshotInv' /\ ~failed'
  <2>1. ~failed'
    BY <1>5 DEF MountPackage, ReplacePackage, Does
  <2> QED
    BY <1>5, <2>1, PackageSnapshot
<1>6. CASE FileNext
  BY <1>1, <1>2, <1>3, <1>4, <1>5, <1>6, WriteFileSnapshot, OpenSnapshot DEF FileNext
<1>7. CASE RecordNext
  <2>1. ~failed'
    BY <1>7 DEF RecordNext, CreateRecordStore, DeleteRecordStore, AddRecord, DeleteRecord,
                SetRecord, ReplaceRecords, SetStore, Does
  <2>2. SnapshotInv'
    <3>1. 0 \in 0 .. MaxRecordBytes
      BY StorageAssumption
    <3> QED
      BY <1>1, <1>7, <3>1, StoreSnapshot, AddRecordSnapshot, RecordSnapshot, ReplaceSnapshot
         DEF RecordNext
  <2> QED
    BY <2>1, <2>2
<1>8. CASE Reset
  BY <1>8, ResetSnapshot
<1>9. CASE Tick
  BY <1>9, TickSnapshot
<1>10. CASE UNCHANGED storageVars
  <2>1. SnapshotInv'
    BY <1>10, Unchanged DEF SnapshotInv, storageVars
  <2> QED
    BY <1>10, <2>1 DEF storageVars
<1> QED
  BY <1>6, <1>7, <1>8, <1>9, <1>10 DEF StorageNext

\* The inductive invariant of the storage: handles have their files, stores
\* handed out no ID from the next one on.
THEOREM StorageInvariant == StorageSpec => []StorageInv
<1>1. StorageInit => StorageInv
  BY DEF StorageInit, StorageInv, FileInv, HandlesOK, Keeps, FilesOK, RecordInv
<1>2. StorageInv /\ [StorageNext]_storageVars => StorageInv'
  BY StorageStep
<1> QED
  BY <1>1, <1>2, PTL DEF StorageSpec

\* An open handle goes on naming the file it was opened on, through Rename,
\* RenameDirectory, Delete, MountPackage and ReplacePackage in any order.
THEOREM HandlesFollow == StorageSpec => []HandlesFollowTheirFile
<1>1. StorageInv => HandlesFollowTheirFile
  BY DEF StorageInv, FileInv, Keeps, HandlesFollowTheirFile
<1> QED
  BY <1>1, StorageInvariant, PTL

\* AddRecord hands out no ID twice in a life of a store, nor one that the store began
\* it with, whatever is deleted and however often a restart imports the store.
THEOREM RecordIDsAreNew == StorageSpec => []NextRecordIsNew
<1>1. StorageInv => NextRecordIsNew
  BY DEF StorageInv, RecordInv, StoreOK, NextRecordIsNew
<1> QED
  BY <1>1, StorageInvariant, PTL

\* The second inductive invariant: the shape of the tree of files, the limits
\* on files, handles, stores and records, and the service IDs.
THEOREM StorageSnapshotInvariance == StorageSpec => []SnapshotInv
<1>1. StorageInit => SnapshotInv
  BY FirstSnapshot
<1>2. StorageInv /\ SnapshotInv /\ [StorageNext]_storageVars => SnapshotInv'
  BY SnapshotStep
<1> QED
  BY <1>1, <1>2, StorageInvariant, PTL DEF StorageSpec

\* Storage.Restore and the registry accept a snapshot taken between any two
\* operations: no sequence of writes, renames, mounts, record imports and
\* restarts gets past a limit, out of a missing directory or into the future.
THEOREM StorageAlwaysLoads == StorageSpec => []StorageSnapshotLoads
<1>1. ASSUME StorageInv, SnapshotInv PROVE StorageSnapshotLoads
  <2>1. /\ clock \in Nat /\ IsTree(tree, clock) /\ Within(tree)
        /\ HandleInv /\ StoresInv /\ IDsInv
    BY <1>1 DEF SnapshotInv, TreeInv
  <2>2. MaxFileBytes \in Nat
    BY StorageAssumption
  <2>3. \A limit \in Nat : \A n \in 0 .. limit : n <= limit
    OBVIOUS
  <2>4. /\ DOMAIN tree.files \cap DOMAIN tree.dirs = {} /\ ParentsExist(tree)
        /\ \A key \in DOMAIN tree.files :
             tree.files[key].size <= MaxFileBytes /\ tree.files[key].modified <= clock
        /\ \A key \in DOMAIN tree.dirs : tree.dirs[key] <= clock
    BY <2>1, <2>2, <2>3 DEF IsTree
  <2>5. \A id \in DOMAIN handles :
          /\ handles[id].key \in DOMAIN tree.files
          /\ handles[id].position <= MaxFileBytes
          /\ "write" \in handles[id].mode => Writable(handles[id].key.ns)
    BY <1>1, <2>1, <2>2, <2>3 DEF HandleInv, StorageInv, FileInv, Keeps
  <2> QED
    BY <2>1, <2>4, <2>5 DEF StorageSnapshotLoads, Within, HandleInv, StoresInv, IDsInv
<1> QED
  BY <1>1, StorageInvariant, StorageSnapshotInvariance, PTL

\* WriteFile, Open and Reset that fail leave the files, the directories, the
\* handles, the stores and the service IDs as they were.
THEOREM FailuresAreUndone == StorageSpec => FailuresLeaveNoTrace
<1>1. StorageInv /\ SnapshotInv /\ [StorageNext]_storageVars
        => [failed' => UNCHANGED <<tree, handles, stores, registered, clock>>]_storageVars
  BY SnapshotStep
<1> QED
  BY <1>1, StorageInvariant, StorageSnapshotInvariance, PTL
     DEF StorageSpec, FailuresLeaveNoTrace
=============================================================================
