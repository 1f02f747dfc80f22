----------------------------- MODULE HostProofs -----------------------------
(* What a machine and its host rely on.  First the outbox: tokens name one   *)
(* request each and an acknowledgement removes only what was told; then the  *)
(* network of a GNEX32 title: the queue of requests fits the socket, and a   *)
(* host that forgets its work at a reset or a load meets only full queues    *)
(* and closes every connection the guest has dropped.                        *)
EXTENDS Outbox, Transport, SelectionProofs

-----------------------------------------------------------------------------
(* The outbox. *)

OutboxRequests == [sequence : Nat \ {0}, content : Contents, ghost : Nat]

\* A device numbers its requests in the order it keeps them.
DeviceOK(s, next) ==
  /\ next \in Nat \ {0}
  /\ s \in Seq(OutboxRequests)
  /\ \A i \in 1 .. Len(s) : s[i].sequence < next
  /\ \A i, j \in 1 .. Len(s) : i < j => s[i].sequence < s[j].sequence

\* With these counters the token has been handed out: the next one, and every
\* later one, is new.
HandedOut(token, next, last) == token \in 1 .. next /\ (token = next => last)

\* Tokens follow the order of the requests they name; the requests that have one
\* are the oldest.
MappingOK ==
  /\ DOMAIN hostByGuest \subseteq 1 .. nextRequest - 1
  /\ \A g \in DOMAIN hostByGuest : HandedOut(hostByGuest[g].host, nextToken, exhausted)
  /\ \A g, k \in DOMAIN hostByGuest : g < k => hostByGuest[g].host < hostByGuest[k].host
  /\ \A i \in 1 .. Len(requests), g \in DOMAIN hostByGuest :
       requests[i].sequence <= g => requests[i].sequence \in DOMAIN hostByGuest

\* A mapping is for the request that now has its sequence number, and the host
\* was told so.
MappingTold ==
  \A i \in 1 .. Len(requests) :
    LET g == requests[i].sequence
    IN  g \in DOMAIN hostByGuest =>
          /\ hostByGuest[g].content = requests[i].content
          /\ [host |-> hostByGuest[g].host, ghost |-> requests[i].ghost] \in told

OutboxInv ==
  /\ DeviceOK(requests, nextRequest)
  /\ DeviceOK(savedDevice.requests, savedDevice.nextRequest)
  /\ nextToken \in Nat \ {0} /\ exhausted \in BOOLEAN
  /\ placed \in Nat
  /\ MappingOK
  /\ MappingTold
  /\ \A t \in told : HandedOut(t.host, nextToken, exhausted)
  /\ TokensNameOneRequest

\* After n turns of project's loop: the first n requests keep the tokens they
\* had, the others are given new ones until the last token is given.
TurnOK(n, acc) ==
  /\ acc = [next |-> acc.next, exhausted |-> acc.exhausted,
            previous |-> acc.previous, mappings |-> acc.mappings]
  /\ acc.next \in Nat /\ nextToken <= acc.next
  /\ acc.exhausted \in BOOLEAN /\ (exhausted => acc.exhausted)
  /\ acc.previous \in 0 .. acc.next /\ (acc.previous = acc.next => acc.exhausted)
  /\ DOMAIN acc.mappings \subseteq {requests[i].sequence : i \in 1 .. n}
  /\ ~acc.exhausted => \A i \in 1 .. n : requests[i].sequence \in DOMAIN acc.mappings
  /\ acc.previous # 0 =>
       \E i \in 1 .. n : /\ requests[i].sequence \in DOMAIN acc.mappings
                         /\ acc.mappings[requests[i].sequence].host = acc.previous
  /\ \A i \in 1 .. n :
       LET g == requests[i].sequence
       IN  /\ g \in DOMAIN hostByGuest => g \in DOMAIN acc.mappings
           /\ g \in DOMAIN acc.mappings =>
                /\ acc.mappings[g].content = requests[i].content
                /\ acc.mappings[g].host \in 1 .. acc.previous
                /\ IF g \in DOMAIN hostByGuest
                     THEN acc.mappings[g].host = hostByGuest[g].host
                     ELSE acc.mappings[g].host >= nextToken /\ ~exhausted
  /\ \A i, j \in 1 .. n :
       i < j /\ requests[j].sequence \in DOMAIN acc.mappings =>
         /\ requests[i].sequence \in DOMAIN acc.mappings
         /\ acc.mappings[requests[i].sequence].host < acc.mappings[requests[j].sequence].host

LEMMA RequestFacts ==
  ASSUME NEW s, NEW next, DeviceOK(s, next)
  PROVE  /\ Len(s) \in Nat /\ DOMAIN s = 1 .. Len(s)
         /\ \A i \in 1 .. Len(s) : s[i] \in OutboxRequests /\ s[i].sequence \in Nat \ {0}
         /\ \A i, j \in 1 .. Len(s) : i < j => s[i].sequence < s[j].sequence
<1>1. /\ Len(s) \in Nat /\ DOMAIN s = 1 .. Len(s)
      /\ \A i \in 1 .. Len(s) : s[i] \in OutboxRequests
  BY LenProperties, ElementOfSeq DEF DeviceOK
<1> QED
  BY <1>1 DEF DeviceOK, OutboxRequests

LEMMA TokenGiven ==
  ASSUME OutboxInv, NEW n \in 1 .. Len(requests), NEW acc, TurnOK(n - 1, acc),
         NEW token \in Nat, acc.previous < token,
         \A i \in 1 .. n - 1 : requests[i].sequence \in DOMAIN acc.mappings,
         IF requests[n].sequence \in DOMAIN hostByGuest
           THEN token = hostByGuest[requests[n].sequence].host
           ELSE token >= nextToken /\ ~exhausted,
         NEW next \in Nat, acc.next <= next,
         NEW last \in BOOLEAN, acc.exhausted => last,
         token <= next, token = next => last
  PROVE  TurnOK(n, [next |-> next, exhausted |-> last, previous |-> token,
                    mappings |-> WithToken(acc, requests[n], token)])
<1> DEFINE m == WithToken(acc, requests[n], token)
           g == requests[n].sequence
           new == [next |-> next, exhausted |-> last, previous |-> token, mappings |-> m]
<1>0. /\ Len(requests) \in Nat
      /\ \A i \in 1 .. Len(requests) : requests[i].sequence \in Nat
      /\ \A i, j \in 1 .. Len(requests) : i < j => requests[i].sequence < requests[j].sequence
  BY RequestFacts DEF OutboxInv
<1>1. /\ Len(requests) \in Nat
      /\ nextToken \in Nat \ {0} /\ acc.next \in Nat /\ nextToken <= acc.next
      /\ acc.previous \in Nat
      /\ \A i \in 1 .. Len(requests) : requests[i].sequence \in Nat
      /\ \A i, j \in 1 .. Len(requests) : i < j => requests[i].sequence < requests[j].sequence
  BY <1>0 DEF OutboxInv, TurnOK
<1>2. \A i \in 1 .. n - 1 : requests[i].sequence # g /\ i \in 1 .. Len(requests)
  BY <1>1
<1>3. /\ DOMAIN m = DOMAIN acc.mappings \cup {g}
      /\ m[g] = [host |-> token, content |-> requests[n].content]
      /\ \A i \in 1 .. n - 1 : m[requests[i].sequence] = acc.mappings[requests[i].sequence]
  BY <1>2 DEF WithToken, Mapped
<1> HIDE DEF m
<1>4. \A i \in 1 .. n : i \in 1 .. n - 1 \/ i = n
  BY <1>1
<1>5. n \in 1 .. n /\ \A i \in 1 .. n - 1 : i \in 1 .. n
  BY <1>1
<1> DEFINE S(i) == requests[i].sequence
<1>6. \A i \in 1 .. n : S(i) \in DOMAIN m
  BY <1>3, <1>4
<1>7. /\ m[g].content = requests[n].content /\ m[g].host = token
      /\ token \in 1 .. token
  BY <1>1, <1>3
<1>8. \A i \in 1 .. n - 1 :
        /\ m[S(i)].content = requests[i].content
        /\ m[S(i)].host \in 1 .. acc.previous
        /\ IF S(i) \in DOMAIN hostByGuest
             THEN m[S(i)].host = hostByGuest[S(i)].host
             ELSE m[S(i)].host >= nextToken /\ ~exhausted
  BY <1>3 DEF TurnOK
<1>9. \A i, j \in 1 .. n - 1 : i < j => m[S(i)].host < m[S(j)].host
  BY <1>3 DEF TurnOK
<1>10. new.next = next /\ new.exhausted = last /\ new.previous = token /\ new.mappings = m
  OBVIOUS
<1>11. new = [next |-> new.next, exhausted |-> new.exhausted,
              previous |-> new.previous, mappings |-> new.mappings]
  OBVIOUS
<1> HIDE DEF new
<1>12. DOMAIN m \subseteq {requests[i].sequence : i \in 1 .. n}
  BY <1>3, <1>5 DEF TurnOK
<1>13. \A i \in 1 .. n :
         /\ m[S(i)].content = requests[i].content
         /\ m[S(i)].host \in 1 .. token
         /\ IF S(i) \in DOMAIN hostByGuest
              THEN m[S(i)].host = hostByGuest[S(i)].host
              ELSE m[S(i)].host >= nextToken /\ ~exhausted
  <2> TAKE i \in 1 .. n
  <2>1. CASE i = n
    BY <2>1, <1>7
  <2>2. CASE i \in 1 .. n - 1
    <3>1. m[S(i)].host \in 1 .. token
      BY <2>2, <1>1, <1>8
    <3> QED
      BY <2>2, <3>1, <1>8
  <2> QED
    BY <2>1, <2>2, <1>4
<1>14. \A i, j \in 1 .. n : i < j => m[S(i)].host < m[S(j)].host
  <2> SUFFICES ASSUME NEW i \in 1 .. n, NEW j \in 1 .. n, i < j
               PROVE  m[S(i)].host < m[S(j)].host
    OBVIOUS
  <2>1. i \in 1 .. n - 1
    BY <1>1
  <2>2. CASE j = n
    BY <2>1, <2>2, <1>1, <1>7, <1>8
  <2>3. CASE j \in 1 .. n - 1
    BY <2>1, <2>3, <1>9
  <2> QED
    BY <2>2, <2>3, <1>4
<1>15. exhausted => last
  BY DEF TurnOK
<1>16. nextToken <= next /\ token \in 0 .. next
  BY <1>1
<1> QED
  BY <1>5, <1>6, <1>7, <1>10, <1>11, <1>12, <1>13, <1>14, <1>15, <1>16 DEF TurnOK, new, m

LEMMA ProjectTurn ==
  ASSUME OutboxInv, NEW n \in 1 .. Len(requests), NEW acc, TurnOK(n - 1, acc)
  PROVE  TurnOK(n, Project(acc, requests[n]))
<1> DEFINE g == requests[n].sequence
           S(i) == requests[i].sequence
           older == \A i \in 1 .. n - 1 : S(i) \in DOMAIN acc.mappings
<1>0. /\ Len(requests) \in Nat
      /\ \A i \in 1 .. Len(requests) : S(i) \in Nat
      /\ \A i, j \in 1 .. Len(requests) : i < j => S(i) < S(j)
  BY RequestFacts DEF OutboxInv
<1>1. /\ Len(requests) \in Nat
      /\ nextToken \in Nat \ {0} /\ acc.next \in Nat /\ nextToken <= acc.next
      /\ acc.previous \in Nat /\ acc.exhausted \in BOOLEAN /\ exhausted \in BOOLEAN
      /\ \A i \in 1 .. Len(requests) : S(i) \in Nat
      /\ \A i, j \in 1 .. Len(requests) : i < j => S(i) < S(j)
  BY <1>0 DEF OutboxInv, TurnOK
<1>2. \A i \in 1 .. n - 1 : i \in 1 .. Len(requests) /\ i < n
  BY <1>1
<1>3. ASSUME g \in DOMAIN hostByGuest
      PROVE  /\ \A i \in 1 .. n - 1 : /\ S(i) \in DOMAIN hostByGuest
                                      /\ hostByGuest[S(i)].host < hostByGuest[g].host
             /\ older
             /\ hostByGuest[g].content = requests[n].content
             /\ hostByGuest[g].host \in 1 .. nextToken
             /\ hostByGuest[g].host = nextToken => exhausted
  <2>1. \A i \in 1 .. n - 1 : S(i) < g
    BY <1>1, <1>2
  <2>2. \A i \in 1 .. n - 1 : S(i) \in DOMAIN hostByGuest
    BY <1>1, <1>2, <1>3, <2>1 DEF OutboxInv, MappingOK
  <2>3. \A i \in 1 .. n - 1 : hostByGuest[S(i)].host < hostByGuest[g].host
    BY <1>3, <2>1, <2>2 DEF OutboxInv, MappingOK
  <2>4. older
    BY <2>2 DEF TurnOK
  <2>5. hostByGuest[g].content = requests[n].content
    BY <1>3 DEF OutboxInv, MappingTold
  <2>6. HandedOut(hostByGuest[g].host, nextToken, exhausted)
    BY <1>3 DEF OutboxInv, MappingOK
  <2> QED
    BY <2>2, <2>3, <2>4, <2>5, <2>6 DEF HandedOut
<1>4. CASE Kept(acc, requests[n])
  <2> DEFINE token == hostByGuest[g].host
  <2>1. /\ g \in DOMAIN hostByGuest /\ acc.previous < token
        /\ Project(acc, requests[n]) =
             [next |-> acc.next, exhausted |-> acc.exhausted, previous |-> token,
              mappings |-> WithToken(acc, requests[n], token)]
    <3>1. g \in DOMAIN hostByGuest /\ token > acc.previous
      BY <1>4 DEF Kept
    <3>2. token \in Nat
      BY <1>1, <1>3, <3>1
    <3> QED
      BY <1>1, <1>4, <3>1, <3>2 DEF Project
  <2>2. token \in Nat /\ token <= acc.next
    BY <1>1, <1>3, <2>1
  <2>3. token = acc.next => acc.exhausted
    BY <1>1, <1>3, <2>1, <2>2 DEF TurnOK
  <2>4. older
    BY <1>3, <2>1
  <2>5. acc.next <= acc.next
    BY <1>1
  <2> HIDE DEF token
  <2>6. IF requests[n].sequence \in DOMAIN hostByGuest
          THEN token = hostByGuest[requests[n].sequence].host
          ELSE token >= nextToken /\ ~exhausted
    BY <2>1 DEF token
  <2> QED
    BY <1>1, <2>1, <2>2, <2>3, <2>4, <2>5, <2>6, TokenGiven
<1>5. CASE ~Kept(acc, requests[n])
  <2>1. g \notin DOMAIN hostByGuest
    <3> SUFFICES ASSUME g \in DOMAIN hostByGuest PROVE FALSE
      OBVIOUS
    <3> DEFINE token == hostByGuest[g].host
    <3>1. token \in 1 .. nextToken /\ hostByGuest[g].content = requests[n].content
      BY <1>3
    <3>2. acc.previous < token
      <4>1. CASE acc.previous = 0
        BY <3>1, <4>1, <1>1
      <4>2. CASE acc.previous # 0
        <5>1. PICK i \in 1 .. n - 1 : /\ S(i) \in DOMAIN acc.mappings
                                      /\ acc.mappings[S(i)].host = acc.previous
          BY <4>2 DEF TurnOK
        <5>2. S(i) \in DOMAIN hostByGuest /\ hostByGuest[S(i)].host < token
          BY <1>3
        <5>3. acc.mappings[S(i)].host = hostByGuest[S(i)].host
          BY <5>1, <5>2 DEF TurnOK
        <5> QED
          BY <5>1, <5>2, <5>3
      <4> QED
        BY <4>1, <4>2
    <3>3. token > acc.previous
      BY <3>1, <3>2, <1>1
    <3> QED
      BY <1>5, <3>1, <3>3 DEF Kept
  <2>2. CASE acc.exhausted
    <3>1. Project(acc, requests[n]) = acc
      BY <1>5, <2>2 DEF Project
    <3>2. g \notin DOMAIN acc.mappings
      <4>1. \A i \in 1 .. n - 1 : S(i) # g
        BY <1>1, <1>2
      <4> QED
        BY <4>1 DEF TurnOK
    <3>3. (\A i \in 1 .. n : i \in 1 .. n - 1 \/ i = n) /\ \A i \in 1 .. n - 1 : i \in 1 .. n
      BY <1>1
    <3>4. DOMAIN acc.mappings \subseteq {requests[i].sequence : i \in 1 .. n}
      BY <3>3 DEF TurnOK
    <3>5. acc.previous # 0 =>
            \E i \in 1 .. n : /\ requests[i].sequence \in DOMAIN acc.mappings
                              /\ acc.mappings[requests[i].sequence].host = acc.previous
      BY <3>3 DEF TurnOK
    <3>6. ASSUME NEW i \in 1 .. n, NEW j \in 1 .. n, i < j, S(j) \in DOMAIN acc.mappings
          PROVE  S(i) \in DOMAIN acc.mappings /\ acc.mappings[S(i)].host < acc.mappings[S(j)].host
      <4>1. j \in 1 .. n - 1 /\ i \in 1 .. n - 1
        BY <3>2, <3>3, <3>6, <1>1
      <4> QED
        BY <4>1, <3>6 DEF TurnOK
    <3>7. \A i \in 1 .. n : S(i) \in DOMAIN acc.mappings \/ S(i) \in DOMAIN hostByGuest =>
            i \in 1 .. n - 1
      BY <2>1, <3>2, <3>3
    <3> QED
      BY <2>2, <3>1, <3>4, <3>5, <3>6, <3>7 DEF TurnOK
  <2>3. CASE ~acc.exhausted
    <3> DEFINE next == IF acc.next = LastToken THEN acc.next ELSE acc.next + 1
               last == acc.next = LastToken
    <3>1. Project(acc, requests[n]) =
            [next |-> next, exhausted |-> last, previous |-> acc.next,
             mappings |-> WithToken(acc, requests[n], acc.next)]
      BY <1>5, <2>3 DEF Project
    <3>2. older /\ ~exhausted /\ acc.previous < acc.next
      BY <2>3, <1>1 DEF TurnOK
    <3>3. /\ next \in Nat /\ acc.next <= next /\ last \in BOOLEAN
          /\ acc.next = next => last
      BY <1>1
    <3>5. IF requests[n].sequence \in DOMAIN hostByGuest
            THEN acc.next = hostByGuest[requests[n].sequence].host
            ELSE acc.next >= nextToken /\ ~exhausted
      BY <1>1, <2>1, <3>2
    <3> HIDE DEF next, last
    <3>4. TurnOK(n, [next |-> next, exhausted |-> last, previous |-> acc.next,
                     mappings |-> WithToken(acc, requests[n], acc.next)])
      BY <1>1, <2>3, <3>2, <3>3, <3>5, TokenGiven
    <3> QED
      BY <3>1, <3>4
  <2> QED
    BY <1>1, <2>2, <2>3
<1> QED
  BY <1>4, <1>5

LEMMA TurnsExist ==
  ASSUME Len(requests) \in Nat
  PROVE  \E turn : turn = [n \in 0 .. Len(requests) |->
           IF n = 0 THEN Unprojected ELSE Project(turn[n - 1], requests[n])]
<1> DEFINE Turns(m, f) == f = [n \in 0 .. m |->
             IF n = 0 THEN Unprojected ELSE Project(f[n - 1], requests[n])]
           missing == {m \in Nat : ~\E f : Turns(m, f)}
<1>1. missing \in SUBSET Nat
  OBVIOUS
<1>2. SUFFICES missing = {}
  BY <1>2
<1>3. SUFFICES ASSUME missing # {} PROVE FALSE
  OBVIOUS
<1>4. PICK m \in missing : \A k \in missing : m <= k
  <2> HIDE DEF missing
  <2> QED
    BY <1>1, <1>3, LeastNumber
<1>5. m # 0
  <2> DEFINE f == [n \in 0 .. 0 |-> Unprojected]
  <2>1. Turns(0, f)
    OBVIOUS
  <2>2. \E g : Turns(0, g)
    BY <2>1
  <2> HIDE DEF Turns
  <2> QED
    BY <2>2
<1>6. m - 1 \in Nat /\ m - 1 \notin missing
  <2>1. m \in Nat /\ m - 1 \in Nat /\ ~(m <= m - 1)
    BY <1>4, <1>5
  <2> HIDE DEF missing
  <2> QED
    BY <1>4, <2>1
<1>7. PICK f : Turns(m - 1, f)
  BY <1>6
<1> DEFINE g == [n \in 0 .. m |->
             IF n = m THEN Project(f[m - 1], requests[m]) ELSE f[n]]
<1>8. \A n \in 0 .. m - 1 : g[n] = f[n]
  BY <1>6
<1>9. \A n \in 0 .. m :
        g[n] = IF n = 0 THEN Unprojected ELSE Project(g[n - 1], requests[n])
  <2> TAKE n \in 0 .. m
  <2>1. CASE n = m
    <3>1. g[n - 1] = f[m - 1] /\ g[n] = Project(f[m - 1], requests[m])
      BY <2>1, <1>6, <1>8
    <3> QED
      BY <2>1, <3>1, <1>5
  <2>2. CASE n # m
    <3>1. n \in 0 .. m - 1 /\ (n # 0 => n - 1 \in 0 .. m - 1)
      BY <2>2, <1>6
    <3>2. f[n] = IF n = 0 THEN Unprojected ELSE Project(f[n - 1], requests[n])
      BY <3>1, <1>7
    <3> QED
      BY <3>1, <3>2, <1>8
  <2> QED
    BY <2>1, <2>2
<1>10. Turns(m, g)
  BY <1>9
<1>11. \E h : Turns(m, h)
  BY <1>10
<1> HIDE DEF Turns
<1> QED
  BY <1>4, <1>11

LEMMA ProjectionTurns ==
  ASSUME Len(requests) \in Nat
  PROVE  \E turn :
           /\ turn = [n \in 0 .. Len(requests) |->
                IF n = 0 THEN Unprojected ELSE Project(turn[n - 1], requests[n])]
           /\ Projection = turn[Len(requests)]
<1> DEFINE f == CHOOSE turn : turn = [n \in 0 .. Len(requests) |->
                IF n = 0 THEN Unprojected ELSE Project(turn[n - 1], requests[n])]
<1>1. f = [n \in 0 .. Len(requests) |->
                IF n = 0 THEN Unprojected ELSE Project(f[n - 1], requests[n])]
  BY TurnsExist, Zenon
<1>2. Projection = f[Len(requests)]
  BY DEF Projection
<1> HIDE DEF f
<1> QED
  BY <1>1, <1>2

LEMMA ProjectionFacts ==
  ASSUME OutboxInv
  PROVE  TurnOK(Len(requests), Projection)
<1>1. Len(requests) \in Nat
  BY RequestFacts DEF OutboxInv
<1>2. PICK turn :
        /\ turn = [n \in 0 .. Len(requests) |->
             IF n = 0 THEN Unprojected ELSE Project(turn[n - 1], requests[n])]
        /\ Projection = turn[Len(requests)]
  BY <1>1, ProjectionTurns
<1> DEFINE bad == {n \in 0 .. Len(requests) : ~TurnOK(n, turn[n])}
<1>3. bad = {}
  <2> SUFFICES ASSUME bad # {} PROVE FALSE
    OBVIOUS
  <2>1. PICK n \in bad : \A k \in bad : n <= k
    <3>1. bad \in SUBSET Nat
      OBVIOUS
    <3> HIDE DEF bad
    <3> QED
      BY <3>1, LeastNumber
  <2>2. n \in 0 .. Len(requests) /\ ~TurnOK(n, turn[n])
    BY <2>1
  <2>3. CASE n = 0
    <3>1. turn[0] = Unprojected
      BY <1>1, <1>2
    <3>2. TurnOK(0, Unprojected)
      <4>1. DOMAIN NoMappings = {} /\ \A i \in 1 .. 0 : FALSE
        BY DEF NoMappings
      <4>2. nextToken \in Nat \ {0} /\ exhausted \in BOOLEAN
        BY DEF OutboxInv
      <4> DEFINE acc == Unprojected
      <4>3. /\ acc = [next |-> acc.next, exhausted |-> acc.exhausted,
                      previous |-> acc.previous, mappings |-> acc.mappings]
            /\ acc.next = nextToken /\ acc.exhausted = exhausted
            /\ acc.previous = 0 /\ acc.mappings = NoMappings
        BY DEF Unprojected
      <4> HIDE DEF acc
      <4>5. /\ acc.next \in Nat /\ nextToken <= acc.next /\ acc.exhausted \in BOOLEAN
            /\ acc.previous \in 0 .. acc.next /\ acc.previous # acc.next
        BY <4>2, <4>3
      <4>6. (exhausted => acc.exhausted) /\ DOMAIN acc.mappings = {}
        BY <4>1, <4>3, Zenon
      <4>4. TurnOK(0, acc)
        BY <4>1, <4>3, <4>5, <4>6, Zenon DEF TurnOK
      <4> QED
        BY <4>4 DEF acc
    <3> QED
      BY <2>2, <2>3, <3>1, <3>2
  <2>4. CASE n # 0
    <3>1. n \in 1 .. Len(requests) /\ n - 1 \in 0 .. Len(requests) /\ ~(n <= n - 1)
      BY <1>1, <2>2, <2>4
    <3>2. TurnOK(n - 1, turn[n - 1])
      BY <2>1, <3>1
    <3>3. turn[n] = Project(turn[n - 1], requests[n])
      BY <1>2, <3>1, <2>4
    <3> QED
      BY <2>2, <3>1, <3>2, <3>3, ProjectTurn
  <2> QED
    BY <2>3, <2>4
<1>4. Len(requests) \in 0 .. Len(requests)
  BY <1>1
<1> QED
  BY <1>2, <1>3, <1>4

-----------------------------------------------------------------------------
(* The steps of the outbox. *)

LEMMA NewestFacts ==
  ASSUME NEW s, NEW next, DeviceOK(s, next), NEW n \in Nat
  PROVE  /\ DeviceOK(Newest(s, n), next)
         /\ \A i \in 1 .. Len(Newest(s, n)) : \E j \in 1 .. Len(s) : Newest(s, n)[i] = s[j]
<1>1. /\ Len(s) \in Nat /\ s \in Seq(OutboxRequests)
      /\ \A i \in 1 .. Len(s) : s[i] \in OutboxRequests
  BY RequestFacts DEF DeviceOK
<1>2. CASE Len(s) <= n
  BY <1>2 DEF Newest
<1>3. CASE ~(Len(s) <= n)
  <2> DEFINE m == Len(s) - n + 1
             t == SubSeq(s, m, Len(s))
  <2>1. m \in 1 .. Len(s) + 1 /\ m \in Int
    BY <1>1, <1>3
  <2>2. \A i \in m .. Len(s) : s[i] \in OutboxRequests
    BY <1>1, <2>1
  <2>3. /\ t \in Seq(OutboxRequests) /\ Len(t) = IF m <= Len(s) THEN Len(s) - m + 1 ELSE 0
        /\ \A i \in 1 .. Len(s) - m + 1 : t[i] = s[m + i - 1]
    <3> HIDE DEF m
    <3> QED
      BY <1>1, <2>1, <2>2, SubSeqProperties
  <2>4. Newest(s, n) = t
    BY <1>3 DEF Newest
  <2> HIDE DEF m, t
  <2>5. Len(t) = Len(s) - m + 1
    BY <1>1, <2>1, <2>3
  <2>6. \A i \in 1 .. Len(t) : m + i - 1 \in 1 .. Len(s) /\ t[i] = s[m + i - 1]
    BY <1>1, <2>1, <2>3, <2>5
  <2>7. \A i, j \in 1 .. Len(t) : i < j => t[i].sequence < t[j].sequence
    <3> SUFFICES ASSUME NEW i \in 1 .. Len(t), NEW j \in 1 .. Len(t), i < j
                 PROVE  t[i].sequence < t[j].sequence
      OBVIOUS
    <3> DEFINE a == m + i - 1
               b == m + j - 1
    <3>1. /\ a \in 1 .. Len(s) /\ b \in 1 .. Len(s) /\ a < b
          /\ t[i] = s[a] /\ t[j] = s[b]
      BY <2>1, <2>6
    <3> QED
      BY <3>1 DEF DeviceOK
  <2>8. \A i \in 1 .. Len(t) : t[i].sequence < next
    BY <2>6 DEF DeviceOK
  <2> QED
    BY <2>3, <2>4, <2>6, <2>7, <2>8 DEF DeviceOK
<1> QED
  BY <1>2, <1>3

\* Fewer requests in the device leave the tokens right.
LEMMA FewerRequests ==
  ASSUME OutboxInv, NEW s,
         \A i \in 1 .. Len(s) : \E j \in 1 .. Len(requests) : s[i] = requests[j]
  PROVE  /\ \A i \in 1 .. Len(s), g \in DOMAIN hostByGuest :
              s[i].sequence <= g => s[i].sequence \in DOMAIN hostByGuest
         /\ \A i \in 1 .. Len(s) : s[i].sequence \in DOMAIN hostByGuest =>
              /\ hostByGuest[s[i].sequence].content = s[i].content
              /\ [host |-> hostByGuest[s[i].sequence].host, ghost |-> s[i].ghost] \in told
BY DEF OutboxInv, MappingOK, MappingTold

LEMMA RequestStep ==
  ASSUME OutboxInv, NEW content \in Contents, Request(content)
  PROVE  OutboxInv'
<1> DEFINE s == Newest(requests, MaxRequests - 1)
           r == [sequence |-> nextRequest, content |-> content, ghost |-> placed + 1]
           n == Len(s) + 1
<1>1. /\ requests' = Append(s, r) /\ nextRequest' = nextRequest + 1 /\ placed' = placed + 1
      /\ nextToken' = nextToken /\ exhausted' = exhausted /\ hostByGuest' = hostByGuest
      /\ savedDevice' = savedDevice /\ told' = told
  BY DEF Request, tokenVars
<1>2. /\ DeviceOK(s, nextRequest)
      /\ \A i \in 1 .. Len(s) : \E j \in 1 .. Len(requests) : s[i] = requests[j]
  BY OutboxAssumption, NewestFacts DEF OutboxInv
<1>3. nextRequest \in Nat \ {0} /\ r \in OutboxRequests /\ r.sequence = nextRequest
  BY DEF OutboxInv, DeviceOK, OutboxRequests
<1> HIDE DEF s, r
<1>4. /\ Len(s) \in Nat /\ s \in Seq(OutboxRequests)
      /\ \A i \in 1 .. Len(s) : s[i].sequence \in Nat /\ s[i].sequence < nextRequest
      /\ \A i, j \in 1 .. Len(s) : i < j => s[i].sequence < s[j].sequence
  BY <1>2, RequestFacts DEF DeviceOK
<1>5. /\ requests' \in Seq(OutboxRequests) /\ Len(requests') = n
      /\ \A i \in 1 .. Len(s) : requests'[i] = s[i]
      /\ requests'[n] = r
  BY <1>1, <1>3, <1>4, AppendProperties
<1>6. \A i \in 1 .. n : i \in 1 .. Len(s) \/ i = n
  BY <1>4
<1>7. DeviceOK(requests', nextRequest')
  <2>1. \A i \in 1 .. n : requests'[i].sequence < nextRequest + 1
    BY <1>3, <1>4, <1>5, <1>6
  <2>2. \A i, j \in 1 .. n : i < j => requests'[i].sequence < requests'[j].sequence
    <3> SUFFICES ASSUME NEW i \in 1 .. n, NEW j \in 1 .. n, i < j
                 PROVE  requests'[i].sequence < requests'[j].sequence
      OBVIOUS
    <3>1. i \in 1 .. Len(s)
      BY <1>4
    <3> QED
      BY <3>1, <1>3, <1>4, <1>5, <1>6
  <2> HIDE DEF n
  <2> QED
    BY <1>1, <1>3, <1>5, <2>1, <2>2 DEF DeviceOK
<1>8. /\ DOMAIN hostByGuest \subseteq 1 .. nextRequest - 1
      /\ \A g \in DOMAIN hostByGuest : g \in Nat /\ g < nextRequest
  BY <1>3 DEF OutboxInv, MappingOK
<1>9. MappingOK'
  <2>1. DOMAIN hostByGuest \subseteq 1 .. (nextRequest + 1) - 1
    BY <1>3, <1>8
  <2>2. ASSUME NEW i \in 1 .. n, NEW g \in DOMAIN hostByGuest, requests'[i].sequence <= g
        PROVE  requests'[i].sequence \in DOMAIN hostByGuest
    <3>1. CASE i = n
      BY <3>1, <2>2, <1>3, <1>5, <1>8
    <3>2. CASE i \in 1 .. Len(s)
      BY <3>2, <2>2, <1>2, <1>5, FewerRequests
    <3> QED
      BY <3>1, <3>2, <1>6
  <2> HIDE DEF n
  <2> QED
    BY <1>1, <1>5, <2>1, <2>2 DEF OutboxInv, MappingOK, HandedOut
<1>10. MappingTold'
  <2>1. ASSUME NEW i \in 1 .. n, requests'[i].sequence \in DOMAIN hostByGuest
        PROVE  /\ hostByGuest[requests'[i].sequence].content = requests'[i].content
               /\ [host |-> hostByGuest[requests'[i].sequence].host,
                   ghost |-> requests'[i].ghost] \in told
    <3>1. CASE i = n
      BY <3>1, <2>1, <1>3, <1>5, <1>8
    <3>2. CASE i \in 1 .. Len(s)
      BY <3>2, <2>1, <1>2, <1>5, FewerRequests
    <3> QED
      BY <3>1, <3>2, <1>6
  <2> HIDE DEF n
  <2> QED
    BY <1>1, <1>5, <2>1 DEF MappingTold
<1> QED
  BY <1>1, <1>7, <1>9, <1>10 DEF OutboxInv, HandedOut, TokensNameOneRequest

LEMMA ExternalRequestsStep ==
  ASSUME OutboxInv, ExternalRequests
  PROVE  OutboxInv'
<1> DEFINE acc == Projection
           n == Len(requests)
           S(i) == requests[i].sequence
           T(i) == [host |-> hostByGuest'[S(i)].host, ghost |-> requests[i].ghost]
<1>1. /\ hostByGuest' = acc.mappings /\ nextToken' = acc.next /\ exhausted' = acc.exhausted
      /\ told' = told \cup {T(i) : i \in {j \in DOMAIN requests : S(j) \in DOMAIN hostByGuest'}}
      /\ requests' = requests /\ nextRequest' = nextRequest
      /\ savedDevice' = savedDevice /\ placed' = placed
  BY DEF ExternalRequests, deviceVars
<1>2. TurnOK(n, acc)
  BY ProjectionFacts
<1> HIDE DEF acc
<1>3. /\ n \in Nat /\ DOMAIN requests = 1 .. n
      /\ \A i \in 1 .. n : S(i) \in Nat \ {0} /\ S(i) < nextRequest
      /\ \A i, j \in 1 .. n : i < j => S(i) < S(j)
      /\ nextRequest \in Nat \ {0}
  BY RequestFacts DEF OutboxInv, DeviceOK
<1>4. /\ nextToken \in Nat \ {0} /\ nextToken' \in Nat \ {0} /\ nextToken <= nextToken'
      /\ exhausted \in BOOLEAN /\ exhausted' \in BOOLEAN /\ (exhausted => exhausted')
      /\ acc.previous \in 0 .. nextToken' /\ (acc.previous = nextToken' => exhausted')
  <2>1. /\ nextToken' \in Nat /\ nextToken <= nextToken'
        /\ acc.previous \in 0 .. nextToken' /\ nextToken \in Nat \ {0}
    BY <1>1, <1>2 DEF TurnOK, OutboxInv
  <2>2. exhausted' \in BOOLEAN /\ (exhausted => exhausted') /\ exhausted \in BOOLEAN
    BY <1>1, <1>2, Zenon DEF TurnOK, OutboxInv
  <2>3. acc.previous = nextToken' => exhausted'
    BY <1>1, <1>2, Zenon DEF TurnOK
  <2> QED
    BY <2>1, <2>2, <2>3
<1>5. ASSUME NEW token, HandedOut(token, nextToken, exhausted)
      PROVE  HandedOut(token, nextToken', exhausted')
  BY <1>4, <1>5 DEF HandedOut
<1>6. DOMAIN hostByGuest' \subseteq {S(i) : i \in 1 .. n}
  BY <1>1, <1>2 DEF TurnOK
<1>7. \A i \in 1 .. n : S(i) \in DOMAIN hostByGuest' =>
        /\ hostByGuest'[S(i)].content = requests[i].content
        /\ hostByGuest'[S(i)].host \in 1 .. acc.previous
        /\ IF S(i) \in DOMAIN hostByGuest
             THEN hostByGuest'[S(i)].host = hostByGuest[S(i)].host
             ELSE hostByGuest'[S(i)].host >= nextToken /\ ~exhausted
  BY <1>1, <1>2 DEF TurnOK
<1>8. \A i, j \in 1 .. n : i < j /\ S(j) \in DOMAIN hostByGuest' =>
        S(i) \in DOMAIN hostByGuest' /\ hostByGuest'[S(i)].host < hostByGuest'[S(j)].host
  BY <1>1, <1>2 DEF TurnOK
<1>9. \A i \in 1 .. n : S(i) \in DOMAIN hostByGuest' => HandedOut(hostByGuest'[S(i)].host, nextToken', exhausted')
  BY <1>3, <1>4, <1>7 DEF HandedOut
<1>10. MappingOK'
  <2>1. DOMAIN hostByGuest' \subseteq 1 .. nextRequest - 1
    BY <1>3, <1>6
  <2>2. \A g \in DOMAIN hostByGuest' : HandedOut(hostByGuest'[g].host, nextToken', exhausted')
    BY <1>6, <1>9
  <2>3. ASSUME NEW i \in 1 .. n, NEW j \in 1 .. n, S(i) < S(j)
        PROVE  i < j
    BY <1>3, <2>3
  <2>4. ASSUME NEW g \in DOMAIN hostByGuest', NEW k \in DOMAIN hostByGuest', g < k
        PROVE  hostByGuest'[g].host < hostByGuest'[k].host
    <3>1. PICK i \in 1 .. n : g = S(i)
      BY <1>6
    <3>2. PICK j \in 1 .. n : k = S(j)
      BY <1>6
    <3> QED
      BY <3>1, <3>2, <2>3, <2>4, <1>8
  <2>5. ASSUME NEW i \in 1 .. n, NEW g \in DOMAIN hostByGuest', S(i) <= g
        PROVE  S(i) \in DOMAIN hostByGuest'
    <3>1. PICK j \in 1 .. n : g = S(j)
      BY <1>6
    <3>2. CASE S(i) = g
      BY <3>2
    <3>3. CASE S(i) < S(j)
      BY <3>1, <3>3, <2>3, <1>8
    <3> QED
      BY <3>1, <3>2, <3>3, <2>5, <1>3
  <2> QED
    BY <1>1, <2>1, <2>2, <2>4, <2>5 DEF MappingOK
<1>11. MappingTold'
  <2>1. ASSUME NEW i \in 1 .. n, S(i) \in DOMAIN hostByGuest'
        PROVE  /\ hostByGuest'[S(i)].content = requests[i].content
               /\ T(i) \in told'
    <3>1. T(i) \in {T(j) : j \in {k \in DOMAIN requests : S(k) \in DOMAIN hostByGuest'}}
      BY <2>1, <1>3
    <3> QED
      BY <2>1, <3>1, <1>1, <1>7
  <2> QED
    BY <1>1, <2>1 DEF MappingTold
<1>12. ASSUME NEW t \in told'
       PROVE  \/ t \in told
              \/ \E i \in 1 .. n : S(i) \in DOMAIN hostByGuest' /\ t = T(i)
  BY <1>1, <1>3
<1>13. \A t \in told' : HandedOut(t.host, nextToken', exhausted')
  <2> TAKE t \in told'
  <2>1. CASE t \in told
    BY <2>1, <1>5 DEF OutboxInv
  <2>2. ASSUME NEW i \in 1 .. n, S(i) \in DOMAIN hostByGuest', t = T(i)
        PROVE  HandedOut(t.host, nextToken', exhausted')
    BY <2>2, <1>9
  <2> QED
    BY <2>1, <2>2, <1>12
<1>14. ASSUME NEW t \in told, NEW i \in 1 .. n, S(i) \in DOMAIN hostByGuest',
              t.host = hostByGuest'[S(i)].host
       PROVE  t.ghost = requests[i].ghost
  <2>1. HandedOut(t.host, nextToken, exhausted)
    BY DEF OutboxInv
  <2>2. CASE S(i) \in DOMAIN hostByGuest
    <3> DEFINE u == [host |-> hostByGuest[S(i)].host, ghost |-> requests[i].ghost]
    <3>1. u \in told
      BY <2>2 DEF OutboxInv, MappingTold
    <3>2. u.host = t.host /\ u.ghost = requests[i].ghost
      BY <2>2, <1>7, <1>14
    <3> HIDE DEF u
    <3> QED
      BY <3>1, <3>2 DEF OutboxInv, TokensNameOneRequest
  <2>3. CASE S(i) \notin DOMAIN hostByGuest
    <3>1. hostByGuest'[S(i)].host >= nextToken /\ ~exhausted
      BY <2>3, <1>7, <1>14
    <3> QED
      BY <2>1, <3>1, <1>4, <1>14 DEF HandedOut
  <2> QED
    BY <2>2, <2>3
<1>15. ASSUME NEW i \in 1 .. n, NEW j \in 1 .. n,
              S(i) \in DOMAIN hostByGuest', S(j) \in DOMAIN hostByGuest',
              hostByGuest'[S(i)].host = hostByGuest'[S(j)].host
       PROVE  i = j
  <2>1. hostByGuest'[S(i)].host \in Int
    BY <1>7, <1>15
  <2>2. i < j \/ j < i \/ i = j
    OBVIOUS
  <2> QED
    BY <2>1, <2>2, <1>8, <1>15
<1>16. ASSUME NEW t \in told', NEW u \in told', t.host = u.host
       PROVE  t.ghost = u.ghost
  <2>1. CASE t \in told /\ u \in told
    BY <2>1, <1>16 DEF OutboxInv, TokensNameOneRequest
  <2>2. ASSUME t \in told, NEW i \in 1 .. n, S(i) \in DOMAIN hostByGuest', u = T(i)
        PROVE  t.ghost = u.ghost
    <3>1. u.host = hostByGuest'[S(i)].host /\ u.ghost = requests[i].ghost
      BY <2>2
    <3> QED
      BY <2>2, <3>1, <1>14, <1>16
  <2>3. ASSUME u \in told, NEW i \in 1 .. n, S(i) \in DOMAIN hostByGuest', t = T(i)
        PROVE  t.ghost = u.ghost
    <3>1. t.host = hostByGuest'[S(i)].host /\ t.ghost = requests[i].ghost
      BY <2>3
    <3> QED
      BY <2>3, <3>1, <1>14, <1>16
  <2>4. ASSUME NEW i \in 1 .. n, S(i) \in DOMAIN hostByGuest', t = T(i),
               NEW j \in 1 .. n, S(j) \in DOMAIN hostByGuest', u = T(j)
        PROVE  t.ghost = u.ghost
    <3>1. t.host = hostByGuest'[S(i)].host /\ u.host = hostByGuest'[S(j)].host
      BY <2>4
    <3>2. i = j
      BY <2>4, <3>1, <1>15, <1>16
    <3> QED
      BY <2>4, <3>2
  <2> QED
    BY <2>1, <2>2, <2>3, <2>4, <1>12
<1> HIDE DEF n
<1> QED
  BY <1>1, <1>4, <1>10, <1>11, <1>13, <1>16 DEF OutboxInv, TokensNameOneRequest, DeviceOK

LEMMA UnacknowledgedFacts ==
  ASSUME OutboxInv, NEW guest \in Nat
  PROVE  /\ DeviceOK(Unacknowledged(guest), nextRequest)
         /\ \A i \in 1 .. Len(Unacknowledged(guest)) :
              /\ Unacknowledged(guest)[i].sequence > guest
              /\ \E j \in 1 .. Len(requests) : Unacknowledged(guest)[i] = requests[j]
         /\ \A j \in 1 .. Len(requests) : requests[j].sequence > guest =>
              \E i \in 1 .. Len(Unacknowledged(guest)) : Unacknowledged(guest)[i] = requests[j]
<1> DEFINE K == {i \in DOMAIN requests : requests[i].sequence > guest}
           t == Unacknowledged(guest)
<1>1. /\ requests \in Seq(OutboxRequests) /\ Len(requests) \in Nat
      /\ DOMAIN requests = 1 .. Len(requests)
      /\ \A i \in 1 .. Len(requests) : requests[i].sequence < nextRequest
      /\ \A i, j \in 1 .. Len(requests) : i < j => requests[i].sequence < requests[j].sequence
      /\ nextRequest \in Nat \ {0}
  BY RequestFacts DEF OutboxInv, DeviceOK
<1>2. K \in SUBSET DOMAIN requests /\ t = Pick(requests, K)
  BY DEF Unacknowledged
<1>3. \A k \in K : k \in 1 .. Len(requests) /\ requests[k].sequence > guest
  BY <1>1
<1>4. \A k \in 1 .. Len(requests) : requests[k].sequence > guest => k \in K
  BY <1>1
<1> HIDE DEF K, t
<1>5. /\ t \in Seq(OutboxRequests)
      /\ \E pos : Enumerates(pos, t, requests, K)
  BY <1>1, <1>2, PickFacts
<1>6. PICK pos \in [1 .. Len(t) -> K] :
           /\ \A i \in 1 .. Len(t) : t[i] = requests[pos[i]]
           /\ \A i, j \in 1 .. Len(t) : i < j => pos[i] < pos[j]
           /\ \A k \in K : \E i \in 1 .. Len(t) : pos[i] = k
  BY <1>5 DEF Enumerates
<1>7. \A i \in 1 .. Len(t) : pos[i] \in K /\ pos[i] \in 1 .. Len(requests)
  BY <1>3, <1>6
<1>8. DeviceOK(t, nextRequest)
  <2>1. \A i \in 1 .. Len(t) : t[i].sequence < nextRequest
    BY <1>1, <1>6, <1>7
  <2>2. \A i, j \in 1 .. Len(t) : i < j => t[i].sequence < t[j].sequence
    BY <1>1, <1>6, <1>7
  <2> QED
    BY <1>1, <1>5, <2>1, <2>2 DEF DeviceOK
<1>9. \A i \in 1 .. Len(t) : t[i].sequence > guest /\ \E j \in 1 .. Len(requests) : t[i] = requests[j]
  BY <1>3, <1>6, <1>7
<1>10. \A j \in 1 .. Len(requests) : requests[j].sequence > guest =>
         \E i \in 1 .. Len(t) : t[i] = requests[j]
  BY <1>4, <1>6
<1> QED
  BY <1>8, <1>9, <1>10 DEF t

LEMMA ClearStep ==
  ASSUME OutboxInv, NEW through, ClearExternalRequests(through)
  PROVE  OutboxInv'
<1>1. PICK guest \in DOMAIN hostByGuest :
        /\ hostByGuest' = [g \in {h \in DOMAIN hostByGuest : h > guest} |-> hostByGuest[g]]
        /\ requests' = Unacknowledged(guest)
        /\ UNCHANGED <<nextRequest, nextToken, exhausted, savedDevice, placed, told>>
  BY DEF ClearExternalRequests
<1>2. /\ guest \in Nat /\ nextRequest \in Nat \ {0}
      /\ \A g \in DOMAIN hostByGuest : g \in Nat
  BY DEF OutboxInv, MappingOK, DeviceOK
<1>3. /\ DeviceOK(requests', nextRequest)
      /\ \A i \in 1 .. Len(requests') :
           /\ requests'[i].sequence > guest
           /\ \E j \in 1 .. Len(requests) : requests'[i] = requests[j]
  BY <1>1, <1>2, UnacknowledgedFacts
<1>4. /\ DOMAIN hostByGuest' \subseteq DOMAIN hostByGuest
      /\ \A g \in DOMAIN hostByGuest' : hostByGuest'[g] = hostByGuest[g]
      /\ \A g \in DOMAIN hostByGuest : g > guest => g \in DOMAIN hostByGuest'
  BY <1>1
<1>5. /\ \A i \in 1 .. Len(requests'), g \in DOMAIN hostByGuest :
           requests'[i].sequence <= g => requests'[i].sequence \in DOMAIN hostByGuest
      /\ \A i \in 1 .. Len(requests') : requests'[i].sequence \in DOMAIN hostByGuest =>
           /\ hostByGuest[requests'[i].sequence].content = requests'[i].content
           /\ [host |-> hostByGuest[requests'[i].sequence].host,
               ghost |-> requests'[i].ghost] \in told
  BY <1>3, FewerRequests
<1>6. MappingOK'
  <2>1. DOMAIN hostByGuest' \subseteq 1 .. nextRequest - 1
    BY <1>4 DEF OutboxInv, MappingOK
  <2>2. \A g \in DOMAIN hostByGuest' : HandedOut(hostByGuest'[g].host, nextToken, exhausted)
    BY <1>4 DEF OutboxInv, MappingOK
  <2>3. \A g, k \in DOMAIN hostByGuest' : g < k => hostByGuest'[g].host < hostByGuest'[k].host
    BY <1>4 DEF OutboxInv, MappingOK
  <2>4. \A i \in 1 .. Len(requests'), g \in DOMAIN hostByGuest' :
          requests'[i].sequence <= g => requests'[i].sequence \in DOMAIN hostByGuest'
    BY <1>3, <1>4, <1>5
  <2> QED
    BY <1>1, <2>1, <2>2, <2>3, <2>4 DEF MappingOK, HandedOut
<1>7. MappingTold'
  BY <1>1, <1>4, <1>5 DEF MappingTold
<1> QED
  BY <1>1, <1>3, <1>6, <1>7 DEF OutboxInv, HandedOut, TokensNameOneRequest

LEMMA RewindStep ==
  ASSUME OutboxInv, NEW device, DeviceOK(device.requests, device.nextRequest), Rewind(device)
  PROVE  OutboxInv'
<1>1. /\ requests' = device.requests /\ nextRequest' = device.nextRequest
      /\ hostByGuest' = NoMappings
      /\ UNCHANGED <<nextToken, exhausted, savedDevice, placed, told>>
  BY DEF Rewind, NextSession
<1>2. DOMAIN hostByGuest' = {}
  BY <1>1 DEF NoMappings
<1>3. MappingOK' /\ MappingTold'
  BY <1>2 DEF MappingOK, MappingTold
<1> QED
  BY <1>1, <1>3 DEF OutboxInv, HandedOut, TokensNameOneRequest, DeviceOK

LEMMA NewDeviceOK == DeviceOK(NewDevice.requests, NewDevice.nextRequest)
BY DEF NewDevice, DeviceOK

THEOREM OutboxInvariance == OutboxSpec => []OutboxInv
<1>1. ASSUME OutboxInit PROVE OutboxInv
  <2>1. DeviceOK(<<>>, 1)
    BY DEF DeviceOK
  <2>2. DOMAIN hostByGuest = {}
    BY <1>1 DEF OutboxInit, NoMappings
  <2>3. MappingOK /\ MappingTold
    BY <2>2 DEF MappingOK, MappingTold
  <2> QED
    <3>1. /\ requests = <<>> /\ nextRequest = 1 /\ nextToken = 1 /\ placed = 0
          /\ savedDevice.requests = <<>> /\ savedDevice.nextRequest = 1
          /\ told = {} /\ exhausted \in BOOLEAN
      BY <1>1 DEF OutboxInit, NewDevice
    <3> QED
      BY <2>1, <2>3, <3>1 DEF OutboxInv, TokensNameOneRequest
<1>2. ASSUME OutboxInv, [OutboxNext]_outboxVars PROVE OutboxInv'
  <2>1. ASSUME NEW content \in Contents, Request(content) PROVE OutboxInv'
    BY <1>2, <2>1, RequestStep
  <2>2. CASE ExternalRequests
    BY <1>2, <2>2, ExternalRequestsStep
  <2>3. ASSUME NEW t \in told, ClearExternalRequests(t.host) PROVE OutboxInv'
    BY <1>2, <2>3, ClearStep
  <2>4. CASE SaveDevice
    BY <1>2, <2>4 DEF SaveDevice, OutboxInv, MappingOK, MappingTold, HandedOut,
                      TokensNameOneRequest, DeviceOK, deviceVars, tokenVars
  <2>5. CASE LoadDevice
    BY <1>2, <2>5, RewindStep DEF LoadDevice, OutboxInv
  <2>6. CASE ResetDevice
    BY <1>2, <2>6, RewindStep, NewDeviceOK DEF ResetDevice
  <2>7. CASE UNCHANGED outboxVars
    BY <1>2, <2>7 DEF outboxVars, OutboxInv, MappingOK, MappingTold, HandedOut,
                      TokensNameOneRequest, DeviceOK, deviceVars, tokenVars
  <2> QED
    BY <1>2, <2>1, <2>2, <2>3, <2>4, <2>5, <2>6, <2>7 DEF OutboxNext
<1> QED
  BY <1>1, <1>2, PTL DEF OutboxSpec

\* Whatever the order of requests, resets, loads, reads and acknowledgements, a
\* token the host has been given stands for one request for good.
THEOREM TokensAreUnique == OutboxSpec => []TokensNameOneRequest
<1>1. OutboxInv => TokensNameOneRequest
  BY DEF OutboxInv
<1> QED
  BY <1>1, OutboxInvariance, PTL

\* An acknowledgement, however late, removes only requests the host was told of
\* under a token up to the one acknowledged.
THEOREM AcknowledgementsAreSafe == OutboxSpec => AcknowledgedWereTold
<1>1. ASSUME OutboxInv, NEW t \in told, ClearExternalRequests(t.host),
             NEW i \in DOMAIN requests, requests[i].sequence \notin Sequences(requests')
      PROVE  \E u \in told : u.ghost = requests[i].ghost /\ u.host <= t.host
  <2>1. PICK guest \in DOMAIN hostByGuest :
          hostByGuest[guest].host = t.host /\ requests' = Unacknowledged(guest)
    BY <1>1 DEF ClearExternalRequests
  <2> DEFINE g == requests[i].sequence
             u == [host |-> hostByGuest[g].host, ghost |-> requests[i].ghost]
  <2>2. guest \in Nat /\ i \in 1 .. Len(requests) /\ g \in Nat
    <3>1. /\ DOMAIN requests = 1 .. Len(requests)
          /\ \A j \in 1 .. Len(requests) : requests[j].sequence \in Nat
      BY <1>1, RequestFacts DEF OutboxInv
    <3>2. guest \in Nat
      BY <1>1 DEF OutboxInv, MappingOK, DeviceOK
    <3> QED
      BY <1>1, <3>1, <3>2
  <2>3. g <= guest
    <3> SUFFICES ASSUME g > guest PROVE FALSE
      BY <2>2
    <3>1. DeviceOK(requests', nextRequest)
      BY <1>1, <2>1, <2>2, UnacknowledgedFacts
    <3>2. PICK j \in 1 .. Len(requests') : requests'[j] = requests[i]
      BY <1>1, <2>1, <2>2, UnacknowledgedFacts
    <3>3. j \in DOMAIN requests'
      BY <3>1, <3>2, RequestFacts
    <3> QED
      BY <1>1, <3>2, <3>3 DEF Sequences
  <2>4. g \in DOMAIN hostByGuest
    BY <1>1, <2>2, <2>3 DEF OutboxInv, MappingOK
  <2>5. u \in told
    BY <1>1, <2>2, <2>4 DEF OutboxInv, MappingTold
  <2>6. hostByGuest[g].host <= t.host
    <3>1. hostByGuest[g].host \in Nat /\ hostByGuest[guest].host \in Nat
      BY <1>1, <2>4 DEF OutboxInv, MappingOK, HandedOut
    <3>2. g < guest => hostByGuest[g].host < hostByGuest[guest].host
      BY <1>1, <2>4 DEF OutboxInv, MappingOK
    <3> QED
      BY <2>1, <2>2, <2>3, <3>1, <3>2
  <2> QED
    BY <2>5, <2>6
<1>2. ASSUME OutboxInv
      PROVE  [\A t \in told : ClearExternalRequests(t.host) =>
                \A i \in DOMAIN requests :
                  requests[i].sequence \notin Sequences(requests') =>
                    \E u \in told : u.ghost = requests[i].ghost /\ u.host <= t.host]_outboxVars
  BY <1>1, <1>2
<1> QED
  BY <1>2, OutboxInvariance, PTL DEF AcknowledgedWereTold

-----------------------------------------------------------------------------
(* The network of a GNEX32 title. *)

Sockets ==
  [id : Nat, local : BOOLEAN, state : {"none", "connecting", "connected", "closed"},
   written : Seq(Packets), read : Seq(Nat \X Nat)]

NetRequests ==
  [sequence : Nat, connection : Nat \ {0}, kind : {"connect", "write", "disconnect"},
   data : Packets \cup {<<>>}]

NetEvents ==
  [name : {"connect", "read", "input", "gnex.disconnect"}, socket : Nat, value : Nat]

Runtimes ==
  [socket : Sockets, sockets : Nat, connection : Nat, nextConnection : Nat \ {0},
   nextRequest : Nat \ {0}, requests : Seq(NetRequests), events : Seq(NetEvents)]

\* A socket has a number, and its connection one unless it is a local server's.
SocketOK(r) ==
  /\ r.socket.id = 0 => r.socket = NoSocket /\ r.connection = 0
  /\ r.socket.id # 0 =>
       /\ r.socket.local <=> r.connection = 0
       /\ r.socket.state # "none"
       /\ r.socket.local => r.socket.state = "connected"
  /\ r.connection < r.nextConnection

Reads(events) == {i \in DOMAIN events : events[i].name = "read"}

\* Events about a socket are about the one in use, which has the bytes they
\* announce; only a refused connection is announced as such.
EventsOK(r) ==
  /\ \A i \in 1 .. Len(r.events) :
       /\ r.events[i].name \in {"connect", "read"} =>
            r.socket.id # 0 /\ r.events[i].socket = r.socket.id
       /\ r.events[i].name = "read" => r.events[i].value = 1
       /\ r.events[i].name = "connect" => r.events[i].value = 1 \/ r.socket.state = "closed"
  /\ Cardinality(Reads(r.events)) <= Len(r.socket.read)

RuntimeOK(r) == r \in Runtimes /\ SocketOK(r) /\ EventsOK(r)

\* The queue from k on: the requests of the connection in use.  A connection
\* that is being made has its connect request, a connected one has the packets
\* the host has not taken.
Current(r, k) ==
  /\ \A i \in 1 .. k :
       r.requests[i].kind = "disconnect" /\ r.requests[i].connection # r.connection
  /\ \A i \in k + 1 .. Len(r.requests) : r.requests[i].connection = r.connection
  /\ r.socket.state = "connecting" =>
       /\ Len(r.requests) = k + 1 /\ r.requests[k + 1].kind = "connect"
       /\ r.socket.written = <<>>
  /\ r.socket.state = "connected" /\ ~r.socket.local =>
       /\ Len(r.requests) = k + Len(r.socket.written)
       /\ \A i \in 1 .. Len(r.socket.written) :
            /\ r.requests[k + i].kind = "write"
            /\ r.requests[k + i].data = r.socket.written[i]
  /\ r.connection = 0 \/ r.socket.state = "closed" => Len(r.requests) = k

\* Requests have ascending numbers and name connections that were made.
Numbered(r) ==
  /\ \A i \in 1 .. Len(r.requests) :
       r.requests[i].sequence < r.nextRequest /\ r.requests[i].connection < r.nextConnection
  /\ \A i, j \in 1 .. Len(r.requests) : i < j =>
       r.requests[i].sequence < r.requests[j].sequence

\* First what is left of earlier connections: the requests to close them.
QueueOK(r) == Numbered(r) /\ \E k \in 0 .. Len(r.requests) : Current(r, k)

\* A refused connection is closed by the event that announces it, before the
\* dispatcher is done.
ClosedOK(r, next) ==
  r.socket.state = "closed" =>
    /\ next \in {"guest", "dispatch"}
    /\ \E i \in 1 .. Len(r.events) : r.events[i].name = "connect" /\ r.events[i].value # 1

NetInv ==
  /\ machine \in {"ready", "running", "paused", "stopped", "faulted"}
  /\ phase \in {"idle", "main", "guest", "dispatch"}
  /\ phase # "idle" => machine = "running"
  /\ session \in Nat
  /\ seen \subseteq [session : Nat, request : NetRequests]
  /\ open \subseteq [session : Nat, connection : Nat \ {0}]
  /\ RuntimeOK(runtime)
  /\ machine # "faulted" => QueueOK(runtime) /\ ClosedOK(runtime, phase)
  /\ savedRuntime.state \in {"none", "ready", "paused", "stopped"}
  /\ RuntimeOK(savedRuntime.runtime) /\ QueueOK(savedRuntime.runtime)
  /\ savedRuntime.runtime.socket = NoSocket

\* What the host has read still stands for the request of that number.
SeenOK ==
  \A s \in seen :
    /\ s.session = session
    /\ machine \in {"ready", "running", "paused"} =>
         /\ s.request.sequence < runtime.nextRequest
         /\ \A i \in 1 .. Len(runtime.requests) :
              runtime.requests[i].sequence = s.request.sequence => runtime.requests[i] = s.request

Told(r, n) ==
  \E i \in 1 .. Len(r.requests) :
    r.requests[i].kind = "disconnect" /\ r.requests[i].connection = n

\* A connection the host may hold open.
Held(r, n) == Told(r, n) \/ (n = r.connection /\ r.socket.state = "connected")

\* What the host holds open is the guest's established connection, or the host
\* is told to close it.
OpenOK ==
  /\ \A c \in open : c.session = session
  /\ machine = "ready" => open = {}
  /\ machine \in {"running", "paused"} => \A c \in open : Held(runtime, c.connection)

HostInv == SeenOK /\ OpenOK /\ fault \in {"none", "limit"}

-----------------------------------------------------------------------------
(* What the helpers do to a runtime. *)

LEMMA RuntimeFacts ==
  ASSUME NEW r \in Runtimes
  PROVE  /\ r.socket \in Sockets /\ r.socket.id \in Nat /\ r.socket.local \in BOOLEAN
         /\ r.socket.written \in Seq(Packets) /\ r.socket.read \in Seq(Nat \X Nat)
         /\ r.sockets \in Nat /\ r.connection \in Nat
         /\ r.nextConnection \in Nat \ {0} /\ r.nextRequest \in Nat \ {0}
         /\ r.requests \in Seq(NetRequests) /\ Len(r.requests) \in Nat
         /\ DOMAIN r.requests = 1 .. Len(r.requests)
         /\ \A i \in 1 .. Len(r.requests) : r.requests[i] \in NetRequests
         /\ r.events \in Seq(NetEvents) /\ Len(r.events) \in Nat
         /\ DOMAIN r.events = 1 .. Len(r.events)
         /\ \A i \in 1 .. Len(r.events) : r.events[i] \in NetEvents
<1>1. r.requests \in Seq(NetRequests) /\ r.events \in Seq(NetEvents)
  BY DEF Runtimes
<1>2. /\ Len(r.requests) \in Nat /\ DOMAIN r.requests = 1 .. Len(r.requests)
      /\ \A i \in 1 .. Len(r.requests) : r.requests[i] \in NetRequests
  BY <1>1, LenProperties, ElementOfSeq
<1>3. /\ Len(r.events) \in Nat /\ DOMAIN r.events = 1 .. Len(r.events)
      /\ \A i \in 1 .. Len(r.events) : r.events[i] \in NetEvents
  BY <1>1, LenProperties, ElementOfSeq
<1> QED
  BY <1>1, <1>2, <1>3 DEF Runtimes, Sockets

LEMMA NoSocketFacts ==
  /\ NoSocket \in Sockets /\ NoSocket.id = 0 /\ NoSocket.state = "none"
  /\ NoSocket.local = FALSE /\ NoSocket.read = <<>> /\ NoSocket.written = <<>>
BY DEF NoSocket, Sockets

LEMMA NotifyFields ==
  ASSUME NEW r \in Runtimes, NEW e \in NetEvents
  PROVE  LET t == Notify(r, e.name, e.socket, e.value)
         IN  /\ t \in Runtimes
             /\ t.socket = r.socket /\ t.sockets = r.sockets
             /\ t.connection = r.connection /\ t.nextConnection = r.nextConnection
             /\ t.nextRequest = r.nextRequest /\ t.requests = r.requests
             /\ t.events = Append(r.events, e)
<1>1. e = [name |-> e.name, socket |-> e.socket, value |-> e.value]
  BY DEF NetEvents
<1>2. Append(r.events, e) \in Seq(NetEvents)
  BY DEF Runtimes
<1> QED
  BY <1>1, <1>2 DEF Notify, Runtimes

LEMMA EnqueueFields ==
  ASSUME NEW r \in Runtimes, NEW kind, NEW connection, NEW data,
         [sequence |-> r.nextRequest, connection |-> connection,
          kind |-> kind, data |-> data] \in NetRequests
  PROVE  LET t == Enqueue(r, kind, connection, data)
         IN  /\ t \in Runtimes
             /\ t.socket = r.socket /\ t.sockets = r.sockets
             /\ t.connection = r.connection /\ t.nextConnection = r.nextConnection
             /\ t.nextRequest = r.nextRequest + 1 /\ t.events = r.events
             /\ t.requests = Append(r.requests, [sequence |-> r.nextRequest,
                               connection |-> connection, kind |-> kind, data |-> data])
<1> DEFINE q == [sequence |-> r.nextRequest, connection |-> connection,
                 kind |-> kind, data |-> data]
           x == Append(r.requests, q)
           y == r.nextRequest + 1
<1>1. x \in Seq(NetRequests) /\ y \in Nat \ {0}
  BY DEF Runtimes
<1>2. Enqueue(r, kind, connection, data) = [r EXCEPT !.requests = x, !.nextRequest = y]
  BY DEF Enqueue
<1> HIDE DEF x, y
<1>3. LET t == Enqueue(r, kind, connection, data)
      IN  /\ t \in Runtimes
          /\ t.socket = r.socket /\ t.sockets = r.sockets
          /\ t.connection = r.connection /\ t.nextConnection = r.nextConnection
          /\ t.nextRequest = y /\ t.events = r.events /\ t.requests = x
  BY <1>1, <1>2 DEF Runtimes
<1> QED
  BY <1>3 DEF x, y

LEMMA CloseSocketFields ==
  ASSUME NEW r \in Runtimes
  PROVE  LET t == CloseSocket(r)
             K == {i \in DOMAIN r.events : r.events[i].socket # r.socket.id}
         IN  /\ t \in Runtimes
             /\ t.socket = NoSocket /\ t.sockets = r.sockets
             /\ t.connection = r.connection /\ t.nextConnection = r.nextConnection
             /\ t.nextRequest = r.nextRequest /\ t.requests = r.requests
             /\ t.events = Pick(r.events, K)
<1> DEFINE K == {i \in DOMAIN r.events : r.events[i].socket # r.socket.id}
<1>1. Pick(r.events, K) \in Seq(NetEvents)
  <2>1. K \in SUBSET DOMAIN r.events /\ r.events \in Seq(NetEvents)
    BY RuntimeFacts
  <2> HIDE DEF K
  <2> QED
    BY <2>1, PickFacts
<1> QED
  BY <1>1, NoSocketFacts DEF CloseSocket, Runtimes

LEMMA DiscardFields ==
  ASSUME NEW r \in Runtimes
  PROVE  LET t == Discard(r)
             K == {i \in DOMAIN r.requests :
                     r.connection = 0 \/ r.requests[i].connection # r.connection}
             E == {i \in DOMAIN r.events : r.events[i].socket # r.socket.id}
         IN  /\ t \in Runtimes
             /\ t.socket = NoSocket /\ t.sockets = r.sockets
             /\ t.connection = 0 /\ t.nextConnection = r.nextConnection
             /\ t.nextRequest = r.nextRequest
             /\ t.requests = Pick(r.requests, K)
             /\ t.events = IF r.socket = NoSocket THEN r.events ELSE Pick(r.events, E)
<1> DEFINE u == IF r.socket = NoSocket THEN r ELSE CloseSocket(r)
           K == {i \in DOMAIN r.requests :
                     r.connection = 0 \/ r.requests[i].connection # r.connection}
           E == {i \in DOMAIN r.events : r.events[i].socket # r.socket.id}
<1>1. /\ u \in Runtimes
      /\ u.socket = NoSocket /\ u.sockets = r.sockets
      /\ u.nextConnection = r.nextConnection
      /\ u.nextRequest = r.nextRequest /\ u.requests = r.requests
      /\ u.events = IF r.socket = NoSocket THEN r.events ELSE Pick(r.events, E)
  BY CloseSocketFields
<1> DEFINE x == Pick(r.requests, K)
<1>2. x \in Seq(NetRequests)
  <2>1. K \in SUBSET DOMAIN r.requests /\ r.requests \in Seq(NetRequests)
    BY RuntimeFacts
  <2> HIDE DEF K
  <2> QED
    BY <2>1, PickFacts
<1>3. Discard(r) = [u EXCEPT !.requests = x, !.connection = 0]
  BY <1>1 DEF Discard
<1> HIDE DEF u, E, x
<1>4. /\ Discard(r) \in Runtimes
      /\ Discard(r).socket = u.socket /\ Discard(r).sockets = u.sockets
      /\ Discard(r).connection = 0 /\ Discard(r).nextConnection = u.nextConnection
      /\ Discard(r).nextRequest = u.nextRequest
      /\ Discard(r).requests = x /\ Discard(r).events = u.events
  <2> DEFINE z == 0
             t == Discard(r)
  <2>1. u \in Runtimes /\ x \in Seq(NetRequests) /\ z \in Nat
    BY <1>1, <1>2
  <2>2. t = [u EXCEPT !.requests = x, !.connection = z]
    BY <1>3
  <2> HIDE DEF z, t
  <2>3. /\ t \in Runtimes
        /\ t.socket = u.socket /\ t.sockets = u.sockets
        /\ t.connection = z /\ t.nextConnection = u.nextConnection
        /\ t.nextRequest = u.nextRequest /\ t.requests = x /\ t.events = u.events
    BY <2>1, <2>2 DEF Runtimes
  <2> QED
    BY <2>3 DEF z, t
<1> QED
  BY <1>1, <1>4 DEF x, E

-----------------------------------------------------------------------------
(* What the host relies on. *)

\* The requests of t are requests of r or have later numbers.
Follows(r, t) ==
  /\ r.nextRequest <= t.nextRequest /\ r.nextConnection <= t.nextConnection
  /\ \A i \in 1 .. Len(t.requests) :
       \/ \E j \in 1 .. Len(r.requests) : t.requests[i] = r.requests[j]
       \/ t.requests[i].sequence >= r.nextRequest

Carries(r, t) == \A n \in Nat \ {0} : Held(r, n) => Held(t, n)

LEMMA FollowsTransitive ==
  ASSUME NEW r \in Runtimes, NEW s \in Runtimes, NEW t \in Runtimes,
         Follows(r, s), Follows(s, t)
  PROVE  Follows(r, t)
<1>1. /\ r.nextRequest \in Nat /\ s.nextRequest \in Nat /\ t.nextRequest \in Nat
      /\ r.nextConnection \in Nat /\ s.nextConnection \in Nat /\ t.nextConnection \in Nat
      /\ \A i \in 1 .. Len(t.requests) : t.requests[i].sequence \in Nat
  BY RuntimeFacts DEF NetRequests
<1>2. ASSUME NEW i \in 1 .. Len(t.requests)
      PROVE  \/ \E j \in 1 .. Len(r.requests) : t.requests[i] = r.requests[j]
             \/ t.requests[i].sequence >= r.nextRequest
  <2>1. CASE \E j \in 1 .. Len(s.requests) : t.requests[i] = s.requests[j]
    BY <2>1 DEF Follows
  <2>2. CASE t.requests[i].sequence >= s.nextRequest
    BY <1>1, <2>2 DEF Follows
  <2> QED
    BY <2>1, <2>2 DEF Follows
<1> QED
  BY <1>1, <1>2 DEF Follows

-----------------------------------------------------------------------------
(* Discarding the connection in use. *)

Quiet(r) == RuntimeOK(r) /\ QueueOK(r) /\ r.socket = NoSocket

LEMMA QuietFacts ==
  ASSUME NEW r, Quiet(r)
  PROVE  /\ r.connection = 0
         /\ \A i \in 1 .. Len(r.requests) : r.requests[i].kind = "disconnect"
<1>1. r.connection = 0
  BY NoSocketFacts DEF Quiet, RuntimeOK, SocketOK
<1> QED
  BY <1>1 DEF Quiet, QueueOK, Numbered, Current

LEMMA PickedEvents ==
  ASSUME NEW r \in Runtimes, NEW K \in SUBSET DOMAIN r.events
  PROVE  \A i \in 1 .. Len(Pick(r.events, K)) : \E k \in K : Pick(r.events, K)[i] = r.events[k]
<1>1. r.events \in Seq(NetEvents)
  BY RuntimeFacts
<1>2. /\ Pick(r.events, K) \in Seq(NetEvents)
      /\ \E pos : Enumerates(pos, Pick(r.events, K), r.events, K)
  BY <1>1, PickFacts
<1> QED
  BY <1>2 DEF Enumerates

\* A closed socket takes its events with it.
LEMMA DiscardEvents ==
  ASSUME NEW r, RuntimeOK(r)
  PROVE  \A i \in 1 .. Len(Discard(r).events) :
           Discard(r).events[i].name \notin {"connect", "read"}
<1> DEFINE E == {i \in DOMAIN r.events : r.events[i].socket # r.socket.id}
<1>1. r \in Runtimes /\ DOMAIN r.events = 1 .. Len(r.events)
  BY RuntimeFacts DEF RuntimeOK
<1>2. Discard(r).events = IF r.socket = NoSocket THEN r.events ELSE Pick(r.events, E)
  BY <1>1, DiscardFields
<1>3. CASE r.socket = NoSocket
  BY <1>2, <1>3, NoSocketFacts DEF RuntimeOK, EventsOK
<1>4. CASE r.socket # NoSocket
  <2>1. E \in SUBSET DOMAIN r.events
    OBVIOUS
  <2>2. \A k \in E : r.events[k].name \notin {"connect", "read"}
    BY <1>1 DEF RuntimeOK, EventsOK
  <2> HIDE DEF E
  <2> QED
    <3>1. Discard(r).events = Pick(r.events, E)
      BY <1>2, <1>4
    <3>2. \A i \in 1 .. Len(Pick(r.events, E)) :
            \E k \in E : Pick(r.events, E)[i] = r.events[k]
      BY <1>1, <2>1, PickedEvents
    <3>3. \A i \in 1 .. Len(Pick(r.events, E)) :
            Pick(r.events, E)[i].name \notin {"connect", "read"}
      BY <2>2, <3>2
    <3> QED
      BY <3>1, <3>3
<1> QED
  BY <1>3, <1>4

LEMMA NoReads ==
  ASSUME NEW r \in Runtimes,
         \A i \in 1 .. Len(r.events) : r.events[i].name \notin {"connect", "read"}
  PROVE  EventsOK(r)
<1>1. Reads(r.events) = {}
  BY RuntimeFacts DEF Reads
<1>2. Cardinality(Reads(r.events)) = 0
  BY <1>1, FS_EmptySet
<1>3. Len(r.socket.read) \in Nat
  BY RuntimeFacts, LenProperties
<1> QED
  BY <1>2, <1>3 DEF EventsOK

LEMMA DiscardRuntime ==
  ASSUME NEW r, RuntimeOK(r)
  PROVE  RuntimeOK(Discard(r))
<1>1. r \in Runtimes
  BY DEF RuntimeOK
<1>2. /\ Discard(r) \in Runtimes /\ Discard(r).socket = NoSocket
      /\ Discard(r).connection = 0 /\ Discard(r).nextConnection = r.nextConnection
  BY <1>1, DiscardFields
<1>3. EventsOK(Discard(r))
  BY <1>2, DiscardEvents, NoReads
<1>4. SocketOK(Discard(r))
  BY <1>1, <1>2, NoSocketFacts, RuntimeFacts DEF SocketOK
<1> QED
  BY <1>2, <1>3, <1>4 DEF RuntimeOK

\* The requests of the connection in use.
LEMMA CurrentKinds ==
  ASSUME NEW r, RuntimeOK(r), NEW k \in 0 .. Len(r.requests), Current(r, k),
         NEW i \in k + 1 .. Len(r.requests)
  PROVE  /\ r.requests[i].kind \in {"connect", "write"} /\ r.connection # 0
         /\ r.requests[i].kind = "connect" <=> r.socket.state = "connecting"
         /\ r.requests[i].kind = "write" <=> r.socket.state = "connected"
<1>1. r \in Runtimes /\ Len(r.requests) \in Nat
  BY RuntimeFacts DEF RuntimeOK
<1>2. r.connection # 0 /\ r.socket.state # "closed"
  BY <1>1 DEF Current
<1>3. r.socket.id # 0 /\ r.socket.state \in {"connecting", "connected"} /\ ~r.socket.local
  BY <1>1, <1>2 DEF RuntimeOK, SocketOK, Runtimes, Sockets
<1>4. CASE r.socket.state = "connecting"
  <2>1. i = k + 1 /\ r.requests[k + 1].kind = "connect"
    BY <1>1, <1>4 DEF Current
  <2> QED
    BY <1>2, <1>4, <2>1
<1>5. CASE r.socket.state = "connected"
  <2> DEFINE m == i - k
  <2>1. /\ Len(r.requests) = k + Len(r.socket.written)
        /\ \A j \in 1 .. Len(r.socket.written) : r.requests[k + j].kind = "write"
    BY <1>3, <1>5 DEF Current
  <2>2. Len(r.socket.written) \in Nat
    BY <1>1, RuntimeFacts, LenProperties
  <2>3. m \in 1 .. Len(r.socket.written) /\ k + m = i
    BY <1>1, <2>1, <2>2
  <2> QED
    BY <1>2, <1>5, <2>1, <2>3
<1> QED
  BY <1>3, <1>4, <1>5

LEMMA DiscardStep ==
  ASSUME NEW r, RuntimeOK(r), QueueOK(r)
  PROVE  LET t == Discard(r)
         IN  /\ Quiet(t) /\ Follows(r, t)
             /\ \A n \in Nat : Told(r, n) => Told(t, n)
             /\ \A i \in 1 .. Len(t.requests) :
                  \E j \in 1 .. Len(r.requests) : t.requests[i] = r.requests[j]
<1> DEFINE t == Discard(r)
           K == {i \in DOMAIN r.requests :
                   r.connection = 0 \/ r.requests[i].connection # r.connection}
<1>1. /\ r \in Runtimes /\ Len(r.requests) \in Nat /\ r.requests \in Seq(NetRequests)
      /\ DOMAIN r.requests = 1 .. Len(r.requests)
      /\ r.nextRequest \in Nat /\ r.nextConnection \in Nat
      /\ \A i \in 1 .. Len(r.requests) : r.requests[i] \in NetRequests
  BY RuntimeFacts DEF RuntimeOK
<1>2. /\ t \in Runtimes /\ t.socket = NoSocket /\ t.connection = 0
      /\ t.nextConnection = r.nextConnection /\ t.nextRequest = r.nextRequest
      /\ t.requests = Pick(r.requests, K)
  BY <1>1, DiscardFields
<1>3. K \in SUBSET DOMAIN r.requests
  OBVIOUS
<1>4. PICK k \in 0 .. Len(r.requests) : Current(r, k)
  BY DEF QueueOK, Numbered
<1>5. \A i \in K : r.requests[i].kind = "disconnect"
  BY <1>1, <1>4 DEF Current
<1>6. \A i \in 1 .. Len(r.requests) : r.requests[i].kind = "disconnect" => i \in K
  <2>1. \A i \in 1 .. k : r.requests[i].connection # r.connection
    BY <1>4 DEF Current
  <2>2. \A i \in k + 1 .. Len(r.requests) : r.requests[i].kind # "disconnect"
    BY <1>4, CurrentKinds
  <2>3. \A i \in 1 .. Len(r.requests) : i \in 1 .. k \/ i \in k + 1 .. Len(r.requests)
    BY <1>1, <1>4
  <2> QED
    BY <1>1, <2>1, <2>2, <2>3
<1> HIDE DEF t, K
<1>7. PICK pos \in [1 .. Len(t.requests) -> K] :
        /\ \A i \in 1 .. Len(t.requests) : t.requests[i] = r.requests[pos[i]]
        /\ \A i, j \in 1 .. Len(t.requests) : i < j => pos[i] < pos[j]
        /\ \A k2 \in K : \E i \in 1 .. Len(t.requests) : pos[i] = k2
  <2>1. K \in SUBSET DOMAIN r.requests /\ t.requests = Pick(r.requests, K)
    BY <1>1, <1>2, <1>3
  <2>2. r.requests \in Seq(NetRequests)
    BY <1>1, RuntimeFacts DEF Runtimes
  <2>3. \E pos : Enumerates(pos, Pick(r.requests, K), r.requests, K)
    BY <2>1, <2>2, PickFacts
  <2> QED
    BY <2>1, <2>3 DEF Enumerates
<1>8. \A i \in 1 .. Len(t.requests) : pos[i] \in K /\ pos[i] \in 1 .. Len(r.requests)
  BY <1>1, <1>3, <1>7
<1>9. \A i \in 1 .. Len(t.requests) : \E j \in 1 .. Len(r.requests) : t.requests[i] = r.requests[j]
  BY <1>7, <1>8
<1>10. QueueOK(t)
  <2>1. \A i \in 1 .. Len(t.requests) :
          /\ t.requests[i].sequence < t.nextRequest
          /\ t.requests[i].connection < t.nextConnection
    BY <1>2, <1>9 DEF QueueOK, Numbered
  <2>2. \A i, j \in 1 .. Len(t.requests) : i < j =>
          t.requests[i].sequence < t.requests[j].sequence
    BY <1>7, <1>8 DEF QueueOK, Numbered
  <2>3. \A i \in 1 .. Len(t.requests) :
          t.requests[i].kind = "disconnect" /\ t.requests[i].connection # 0
    <3>1. \A i \in 1 .. Len(r.requests) : r.requests[i].connection # 0
      BY <1>1 DEF NetRequests
    <3> QED
      BY <1>5, <1>7, <1>8, <3>1
  <2>4. Len(t.requests) \in Nat
    BY <1>2, RuntimeFacts
  <2>5. Current(t, Len(t.requests))
    BY <1>2, <2>3, <2>4, NoSocketFacts DEF Current
  <2> QED
    BY <2>1, <2>2, <2>4, <2>5 DEF QueueOK, Numbered
<1>11. RuntimeOK(t)
  BY DiscardRuntime DEF t
<1>12. Follows(r, t)
  BY <1>1, <1>2, <1>9 DEF Follows
<1>13. \A n \in Nat : Told(r, n) => Told(t, n)
  BY <1>6, <1>7 DEF Told
<1> QED
  BY <1>2, <1>9, <1>10, <1>11, <1>12, <1>13 DEF Quiet, t

-----------------------------------------------------------------------------
(* Events come and go. *)

LEMMA ReadCount ==
  ASSUME NEW r \in Runtimes
  PROVE  /\ Reads(r.events) \in SUBSET (1 .. Len(r.events))
         /\ Cardinality(Reads(r.events)) \in Nat /\ Len(r.socket.read) \in Nat
<1>1. Reads(r.events) \in SUBSET (1 .. Len(r.events)) /\ Len(r.events) \in Nat
  BY RuntimeFacts DEF Reads
<1>2. Cardinality(Reads(r.events)) \in Nat
  BY <1>1, RankFacts
<1> QED
  BY <1>1, <1>2, RuntimeFacts, LenProperties

LEMMA AppendedEvents ==
  ASSUME NEW r \in Runtimes, NEW t \in Runtimes, NEW e \in NetEvents, EventsOK(r),
         t.events = Append(r.events, e), t.socket.id = r.socket.id,
         r.socket.state = "closed" => t.socket.state = "closed",
         e.name \in {"connect", "read"} => r.socket.id # 0 /\ e.socket = r.socket.id,
         e.name = "read" => e.value = 1 /\ Len(t.socket.read) >= Len(r.socket.read) + 1,
         e.name = "connect" => e.value = 1 \/ t.socket.state = "closed",
         Len(t.socket.read) >= Len(r.socket.read)
  PROVE  EventsOK(t)
<1> DEFINE n == Len(r.events)
           K == Reads(r.events)
<1>1. /\ n \in Nat /\ r.events \in Seq(NetEvents) /\ DOMAIN r.events = 1 .. n
      /\ DOMAIN t.events = 1 .. Len(t.events)
  BY RuntimeFacts
<1>2. Len(t.events) = n + 1 /\ t.events[n + 1] = e /\ \A i \in 1 .. n : t.events[i] = r.events[i]
  BY <1>1, AppendProperties
<1>3. /\ K \in SUBSET (1 .. n) /\ Cardinality(K) \in Nat
      /\ Len(r.socket.read) \in Nat /\ Len(t.socket.read) \in Nat
  BY ReadCount
<1>4. \A i \in 1 .. n + 1 : i \in 1 .. n \/ i = n + 1
  BY <1>1
<1> HIDE DEF n
<1>5. Cardinality(Reads(t.events)) <= Len(t.socket.read)
  <2>0. Cardinality(K) <= Len(r.socket.read)
    BY DEF EventsOK
  <2>1. CASE e.name = "read"
    <3>1. Reads(t.events) = K \cup {n + 1}
      BY <1>1, <1>2, <1>4, <2>1 DEF Reads
    <3>2. Cardinality(K \cup {n + 1}) = Cardinality(K) + 1
      BY <1>1, <1>3, CountMore
    <3> QED
      BY <1>3, <2>0, <2>1, <3>1, <3>2
  <2>2. CASE e.name # "read"
    <3>1. Reads(t.events) = K
      BY <1>1, <1>2, <1>4, <2>2 DEF Reads
    <3> QED
      BY <1>3, <2>0, <3>1
  <2> QED
    BY <2>1, <2>2
<1>6. ASSUME NEW i \in 1 .. Len(t.events)
      PROVE  /\ t.events[i].name \in {"connect", "read"} =>
                   t.socket.id # 0 /\ t.events[i].socket = t.socket.id
             /\ t.events[i].name = "read" => t.events[i].value = 1
             /\ t.events[i].name = "connect" => t.events[i].value = 1 \/ t.socket.state = "closed"
  <2>1. CASE i \in 1 .. n
    BY <1>2, <2>1 DEF EventsOK, n
  <2>2. CASE i = n + 1
    BY <1>2, <2>2
  <2> QED
    BY <1>2, <1>4, <2>1, <2>2
<1> QED
  BY <1>5, <1>6 DEF EventsOK

LEMMA FirstEvent ==
  ASSUME NEW r \in Runtimes, EventsOK(r), r.events # <<>>, Head(r.events).name = "read"
  PROVE  Len(r.socket.read) >= 1
<1>1. r.events \in Seq(NetEvents) /\ Len(r.events) \in Nat /\ DOMAIN r.events = 1 .. Len(r.events)
  BY RuntimeFacts
<1>2. Len(r.events) >= 1 /\ Head(r.events) = r.events[1]
  BY <1>1, EmptySeq, HeadTailProperties
<1>3. 1 \in Reads(r.events)
  BY <1>1, <1>2 DEF Reads
<1>4. IsFiniteSet(Reads(r.events))
  BY <1>1, ReadCount, RankFacts
<1>5. Cardinality(Reads(r.events)) # 0
  BY <1>3, <1>4, FS_EmptySet
<1> QED
  BY <1>5, ReadCount DEF EventsOK

LEMMA RestOfEvents ==
  ASSUME NEW r \in Runtimes, NEW t \in Runtimes, EventsOK(r), r.events # <<>>,
         t.events = Tail(r.events), t.socket.id = r.socket.id,
         t.socket.state = r.socket.state,
         Len(t.socket.read) >= Len(r.socket.read)
           \/ (Head(r.events).name = "read" /\ Len(t.socket.read) >= Len(r.socket.read) - 1)
  PROVE  EventsOK(t)
<1> DEFINE n == Len(r.events) - 1
           K == Reads(r.events)
           A == {i \in 1 .. n : i + 1 \in K}
<1>1. /\ r.events \in Seq(NetEvents) /\ Len(r.events) \in Nat
      /\ DOMAIN r.events = 1 .. Len(r.events)
      /\ DOMAIN t.events = 1 .. Len(t.events)
  BY RuntimeFacts
<1>2. n \in Nat /\ Len(r.events) = n + 1 /\ Head(r.events) = r.events[1]
  BY <1>1, EmptySeq, HeadTailProperties
<1>3. Len(t.events) = n /\ \A i \in 1 .. n : t.events[i] = r.events[i + 1] /\ i + 1 \in 1 .. n + 1
  BY <1>1, <1>2, HeadTailProperties
<1>4. /\ K \in SUBSET (1 .. n + 1)
      /\ Len(r.socket.read) \in Nat /\ Len(t.socket.read) \in Nat
  BY <1>2, ReadCount
<1> HIDE DEF n
<1>5. Reads(t.events) = A
  BY <1>1, <1>2, <1>3 DEF Reads
<1>6. (1 \in K) <=> Head(r.events).name = "read"
  BY <1>1, <1>2 DEF Reads
<1>7. /\ Cardinality(A) \in Nat /\ Cardinality(K) \in Nat
      /\ 1 \in K => Cardinality(A) = Cardinality(K) - 1
      /\ 1 \notin K => Cardinality(A) = Cardinality(K)
  BY <1>2, <1>4, CountShifted
<1>8. Cardinality(K) <= Len(r.socket.read)
  BY DEF EventsOK
<1> HIDE DEF A, K
<1>9. Cardinality(Reads(t.events)) <= Len(t.socket.read)
  BY <1>4, <1>5, <1>6, <1>7, <1>8
<1> QED
  BY <1>2, <1>3, <1>9 DEF EventsOK

-----------------------------------------------------------------------------
(* The parts of a step. *)

\* r with another socket.
LEMMA SocketFields ==
  ASSUME NEW r \in Runtimes, NEW s \in Sockets
  PROVE  LET t == [r EXCEPT !.socket = s]
         IN  /\ t \in Runtimes
             /\ t.socket = s /\ t.sockets = r.sockets
             /\ t.connection = r.connection /\ t.nextConnection = r.nextConnection
             /\ t.nextRequest = r.nextRequest /\ t.requests = r.requests
             /\ t.events = r.events
BY DEF Runtimes

LEMMA ReadFields ==
  ASSUME NEW r \in Runtimes, NEW read \in Seq(Nat \X Nat)
  PROVE  LET t == [r EXCEPT !.socket.read = read]
         IN  /\ t \in Runtimes
             /\ t.socket.id = r.socket.id /\ t.socket.local = r.socket.local
             /\ t.socket.state = r.socket.state /\ t.socket.written = r.socket.written
             /\ t.socket.read = read /\ t.sockets = r.sockets
             /\ t.connection = r.connection /\ t.nextConnection = r.nextConnection
             /\ t.nextRequest = r.nextRequest /\ t.requests = r.requests
             /\ t.events = r.events
<1> DEFINE s == [r.socket EXCEPT !.read = read]
<1>1. r.socket \in Sockets
  BY RuntimeFacts
<1>2. /\ s \in Sockets /\ s.id = r.socket.id /\ s.local = r.socket.local
      /\ s.state = r.socket.state /\ s.written = r.socket.written /\ s.read = read
  BY <1>1 DEF Sockets
<1> DEFINE t == [r EXCEPT !.socket.read = read]
<1>3. t = [r EXCEPT !.socket = s]
  BY DEF Runtimes
<1> HIDE DEF s, t
<1>4. /\ t \in Runtimes /\ t.socket = s /\ t.sockets = r.sockets
      /\ t.connection = r.connection /\ t.nextConnection = r.nextConnection
      /\ t.nextRequest = r.nextRequest /\ t.requests = r.requests /\ t.events = r.events
  BY <1>2, <1>3, SocketFields
<1>5. /\ t \in Runtimes
      /\ t.socket.id = s.id /\ t.socket.local = s.local
      /\ t.socket.state = s.state /\ t.socket.written = s.written
      /\ t.socket.read = s.read /\ t.sockets = r.sockets
      /\ t.connection = r.connection /\ t.nextConnection = r.nextConnection
      /\ t.nextRequest = r.nextRequest /\ t.requests = r.requests
      /\ t.events = r.events
  BY <1>4
<1> QED
  BY <1>2, <1>5 DEF t

LEMMA WrittenFields ==
  ASSUME NEW r \in Runtimes, NEW written \in Seq(Packets)
  PROVE  LET t == [r EXCEPT !.socket.written = written]
         IN  /\ t \in Runtimes
             /\ t.socket.id = r.socket.id /\ t.socket.local = r.socket.local
             /\ t.socket.state = r.socket.state /\ t.socket.written = written
             /\ t.socket.read = r.socket.read /\ t.sockets = r.sockets
             /\ t.connection = r.connection /\ t.nextConnection = r.nextConnection
             /\ t.nextRequest = r.nextRequest /\ t.requests = r.requests
             /\ t.events = r.events
<1> DEFINE s == [r.socket EXCEPT !.written = written]
<1>1. r.socket \in Sockets
  BY RuntimeFacts
<1>2. /\ s \in Sockets /\ s.id = r.socket.id /\ s.local = r.socket.local
      /\ s.state = r.socket.state /\ s.written = written /\ s.read = r.socket.read
  BY <1>1 DEF Sockets
<1> DEFINE t == [r EXCEPT !.socket.written = written]
<1>3. t = [r EXCEPT !.socket = s]
  BY DEF Runtimes
<1> HIDE DEF s, t
<1>4. /\ t \in Runtimes /\ t.socket = s /\ t.sockets = r.sockets
      /\ t.connection = r.connection /\ t.nextConnection = r.nextConnection
      /\ t.nextRequest = r.nextRequest /\ t.requests = r.requests /\ t.events = r.events
  BY <1>2, <1>3, SocketFields
<1>5. /\ t \in Runtimes
      /\ t.socket.id = s.id /\ t.socket.local = s.local
      /\ t.socket.state = s.state /\ t.socket.written = s.written
      /\ t.socket.read = s.read /\ t.sockets = r.sockets
      /\ t.connection = r.connection /\ t.nextConnection = r.nextConnection
      /\ t.nextRequest = r.nextRequest /\ t.requests = r.requests
      /\ t.events = r.events
  BY <1>4
<1> QED
  BY <1>2, <1>5 DEF t

LEMMA StateFields ==
  ASSUME NEW r \in Runtimes, NEW state \in {"connected", "closed"}
  PROVE  LET t == [r EXCEPT !.socket.state = state]
         IN  /\ t \in Runtimes
             /\ t.socket.id = r.socket.id /\ t.socket.local = r.socket.local
             /\ t.socket.state = state /\ t.socket.written = r.socket.written
             /\ t.socket.read = r.socket.read /\ t.sockets = r.sockets
             /\ t.connection = r.connection /\ t.nextConnection = r.nextConnection
             /\ t.nextRequest = r.nextRequest /\ t.requests = r.requests
             /\ t.events = r.events
<1> DEFINE s == [r.socket EXCEPT !.state = state]
<1>1. r.socket \in Sockets
  BY RuntimeFacts
<1>2. /\ s \in Sockets /\ s.id = r.socket.id /\ s.local = r.socket.local
      /\ s.state = state /\ s.written = r.socket.written /\ s.read = r.socket.read
  BY <1>1 DEF Sockets
<1> DEFINE t == [r EXCEPT !.socket.state = state]
<1>3. t = [r EXCEPT !.socket = s]
  BY DEF Runtimes
<1> HIDE DEF s, t
<1>4. /\ t \in Runtimes /\ t.socket = s /\ t.sockets = r.sockets
      /\ t.connection = r.connection /\ t.nextConnection = r.nextConnection
      /\ t.nextRequest = r.nextRequest /\ t.requests = r.requests /\ t.events = r.events
  BY <1>2, <1>3, SocketFields
<1>5. /\ t \in Runtimes
      /\ t.socket.id = s.id /\ t.socket.local = s.local
      /\ t.socket.state = s.state /\ t.socket.written = s.written
      /\ t.socket.read = s.read /\ t.sockets = r.sockets
      /\ t.connection = r.connection /\ t.nextConnection = r.nextConnection
      /\ t.nextRequest = r.nextRequest /\ t.requests = r.requests
      /\ t.events = r.events
  BY <1>4
<1> QED
  BY <1>2, <1>5 DEF t

LEMMA EventsFields ==
  ASSUME NEW r \in Runtimes, NEW x \in Seq(NetEvents)
  PROVE  LET t == [r EXCEPT !.events = x]
         IN  /\ t \in Runtimes
             /\ t.socket = r.socket /\ t.sockets = r.sockets
             /\ t.connection = r.connection /\ t.nextConnection = r.nextConnection
             /\ t.nextRequest = r.nextRequest /\ t.requests = r.requests
             /\ t.events = x
BY DEF Runtimes

LEMMA RequestsFields ==
  ASSUME NEW r \in Runtimes, NEW x \in Seq(NetRequests)
  PROVE  LET t == [r EXCEPT !.requests = x]
         IN  /\ t \in Runtimes
             /\ t.socket = r.socket /\ t.sockets = r.sockets
             /\ t.connection = r.connection /\ t.nextConnection = r.nextConnection
             /\ t.nextRequest = r.nextRequest /\ t.requests = x
             /\ t.events = r.events
BY DEF Runtimes

\* A step that leaves the queue and what it is about alone.
LEMMA SameQueue ==
  ASSUME NEW r \in Runtimes, NEW t \in Runtimes, QueueOK(r),
         t.requests = r.requests, t.nextRequest = r.nextRequest,
         t.nextConnection = r.nextConnection, t.connection = r.connection,
         t.socket.state = r.socket.state, t.socket.local = r.socket.local,
         t.socket.written = r.socket.written
  PROVE  QueueOK(t) /\ Follows(r, t) /\ Carries(r, t)
<1>1. \A k \in 0 .. Len(r.requests) : Current(r, k) => Current(t, k)
  BY DEF Current
<1>2. QueueOK(t)
  BY <1>1 DEF QueueOK, Numbered
<1>3. Follows(r, t)
  BY RuntimeFacts DEF Follows
<1>4. Carries(r, t)
  BY DEF Carries, Held, Told
<1> QED
  BY <1>2, <1>3, <1>4

\* A notification.
LEMMA NotifyStep ==
  ASSUME NEW r, RuntimeOK(r), NEW e \in NetEvents,
         e.name \in {"input", "gnex.disconnect"}
  PROVE  LET t == Notify(r, e.name, e.socket, e.value)
         IN  /\ RuntimeOK(t) /\ t.events = Append(r.events, e)
             /\ t.socket = r.socket /\ t.connection = r.connection /\ t.requests = r.requests
             /\ QueueOK(r) => QueueOK(t) /\ Follows(r, t) /\ Carries(r, t)
<1> DEFINE t == Notify(r, e.name, e.socket, e.value)
<1>1. r \in Runtimes /\ SocketOK(r) /\ EventsOK(r)
  BY DEF RuntimeOK
<1>2. /\ t \in Runtimes
      /\ t.socket = r.socket /\ t.sockets = r.sockets
      /\ t.connection = r.connection /\ t.nextConnection = r.nextConnection
      /\ t.nextRequest = r.nextRequest /\ t.requests = r.requests
      /\ t.events = Append(r.events, e)
  BY <1>1, NotifyFields
<1> HIDE DEF t
<1>3. Len(r.socket.read) \in Nat
  BY <1>1, ReadCount
<1>4. EventsOK(t)
  BY <1>1, <1>2, <1>3, AppendedEvents
<1>5. SocketOK(t)
  BY <1>1, <1>2 DEF SocketOK
<1>6. RuntimeOK(t)
  BY <1>2, <1>4, <1>5 DEF RuntimeOK
<1>7. QueueOK(r) => QueueOK(t) /\ Follows(r, t) /\ Carries(r, t)
  BY <1>1, <1>2, SameQueue
<1> QED
  BY <1>2, <1>6, <1>7 DEF t

\* Bytes and the event that announces them.
LEMMA ArrivalStep ==
  ASSUME NEW r, RuntimeOK(r), r.socket.id # 0, NEW stamp \in Nat \X Nat
  PROVE  LET u == [r EXCEPT !.socket.read = Append(@, stamp)]
             t == Notify(u, "read", r.socket.id, 1)
         IN  /\ RuntimeOK(t)
             /\ t.socket.id = r.socket.id /\ t.socket.state = r.socket.state
             /\ t.connection = r.connection /\ t.requests = r.requests
             /\ \A i \in 1 .. Len(r.events) : i \in 1 .. Len(t.events) /\ t.events[i] = r.events[i]
             /\ QueueOK(r) => QueueOK(t) /\ Follows(r, t) /\ Carries(r, t)
<1> DEFINE read == Append(r.socket.read, stamp)
           u == [r EXCEPT !.socket.read = read]
           e == [name |-> "read", socket |-> r.socket.id, value |-> 1]
           t == Notify(u, e.name, e.socket, e.value)
<1>1. /\ r \in Runtimes /\ SocketOK(r) /\ EventsOK(r)
      /\ r.socket.read \in Seq(Nat \X Nat) /\ r.socket.id \in Nat
      /\ r.events \in Seq(NetEvents) /\ Len(r.events) \in Nat
  BY RuntimeFacts DEF RuntimeOK
<1>2. read \in Seq(Nat \X Nat) /\ Len(read) = Len(r.socket.read) + 1 /\ Len(r.socket.read) \in Nat
  BY <1>1, AppendProperties, LenProperties
<1>3. e \in NetEvents /\ e.name = "read" /\ e.value = 1 /\ e.socket = r.socket.id
  BY <1>1 DEF NetEvents
<1> HIDE DEF e, read
<1>4. /\ u \in Runtimes
      /\ u.socket.id = r.socket.id /\ u.socket.local = r.socket.local
      /\ u.socket.state = r.socket.state /\ u.socket.written = r.socket.written
      /\ u.socket.read = read /\ u.sockets = r.sockets
      /\ u.connection = r.connection /\ u.nextConnection = r.nextConnection
      /\ u.nextRequest = r.nextRequest /\ u.requests = r.requests
      /\ u.events = r.events
  BY <1>1, <1>2, ReadFields
<1> HIDE DEF u
<1>5. /\ t \in Runtimes
      /\ t.socket = u.socket /\ t.sockets = u.sockets
      /\ t.connection = u.connection /\ t.nextConnection = u.nextConnection
      /\ t.nextRequest = u.nextRequest /\ t.requests = u.requests
      /\ t.events = Append(u.events, e)
  BY <1>3, <1>4, NotifyFields
<1> HIDE DEF t
<1>6. EventsOK(t)
  <2>1. /\ t.events = Append(r.events, e) /\ t.socket.id = r.socket.id
        /\ t.socket.state = r.socket.state /\ t.socket.read = read
    BY <1>4, <1>5
  <2>2. Len(t.socket.read) >= Len(r.socket.read) + 1 /\ Len(t.socket.read) >= Len(r.socket.read)
    <3>1. Len(t.socket.read) = Len(r.socket.read) + 1
      BY <1>2, <2>1, Zenon
    <3> QED
      BY <1>2, <3>1
  <2> QED
    BY <1>1, <1>3, <1>5, <2>1, <2>2, AppendedEvents
<1>7. SocketOK(t)
  BY <1>1, <1>4, <1>5 DEF SocketOK
<1>8. RuntimeOK(t)
  BY <1>5, <1>6, <1>7 DEF RuntimeOK
<1>9. QueueOK(r) => QueueOK(t) /\ Follows(r, t) /\ Carries(r, t)
  BY <1>1, <1>4, <1>5, SameQueue
<1>10. \A i \in 1 .. Len(r.events) : i \in 1 .. Len(t.events) /\ t.events[i] = r.events[i]
  BY <1>1, <1>3, <1>4, <1>5, AppendProperties
<1>11. t = Notify(u, "read", r.socket.id, 1)
  BY <1>3 DEF t
<1> QED
  BY <1>4, <1>5, <1>8, <1>9, <1>10, <1>11 DEF u, read

\* One more request.
LEMMA EnqueuedStep ==
  ASSUME NEW r \in Runtimes, NEW t \in Runtimes, Numbered(r), NEW q \in NetRequests,
         t.requests = Append(r.requests, q), q.sequence = r.nextRequest,
         t.nextRequest = r.nextRequest + 1, r.nextConnection <= t.nextConnection,
         q.connection < t.nextConnection
  PROVE  /\ Numbered(t) /\ Follows(r, t)
         /\ \A n \in Nat : Told(r, n) => Told(t, n)
         /\ Len(t.requests) = Len(r.requests) + 1 /\ t.requests[Len(r.requests) + 1] = q
         /\ \A i \in 1 .. Len(r.requests) : t.requests[i] = r.requests[i]
<1> DEFINE n == Len(r.requests)
<1>1. /\ n \in Nat /\ r.requests \in Seq(NetRequests)
      /\ r.nextRequest \in Nat /\ r.nextConnection \in Nat /\ t.nextConnection \in Nat
  BY RuntimeFacts
<1>2. /\ Len(t.requests) = n + 1 /\ t.requests[n + 1] = q
      /\ \A i \in 1 .. n : t.requests[i] = r.requests[i]
  BY <1>1, AppendProperties
<1>3. /\ \A i \in 1 .. n : /\ r.requests[i].sequence \in Nat
                           /\ r.requests[i].connection \in Nat
      /\ q.connection \in Nat
  BY RuntimeFacts DEF NetRequests
<1>4. \A i \in 1 .. n + 1 : i \in 1 .. n \/ i = n + 1
  BY <1>1
<1>5. /\ \A i \in 1 .. n : /\ r.requests[i].sequence < r.nextRequest
                           /\ r.requests[i].connection < r.nextConnection
      /\ \A i, j \in 1 .. n : i < j => r.requests[i].sequence < r.requests[j].sequence
  BY DEF Numbered
<1> HIDE DEF n
<1>6. ASSUME NEW i \in 1 .. n + 1
      PROVE  t.requests[i].sequence < t.nextRequest /\ t.requests[i].connection < t.nextConnection
  <2>1. CASE i \in 1 .. n
    BY <1>1, <1>2, <1>3, <1>5, <2>1
  <2>2. CASE i = n + 1
    BY <1>1, <1>2, <1>3, <2>2
  <2> QED
    BY <1>4, <2>1, <2>2
<1>7. ASSUME NEW i \in 1 .. n + 1, NEW j \in 1 .. n + 1, i < j
      PROVE  t.requests[i].sequence < t.requests[j].sequence
  <2>1. i \in 1 .. n
    BY <1>1, <1>7
  <2>2. CASE j \in 1 .. n
    BY <1>2, <1>5, <1>7, <2>1, <2>2
  <2>3. CASE j = n + 1
    BY <1>2, <1>5, <2>1, <2>3
  <2> QED
    BY <1>4, <2>2, <2>3
<1>8. Numbered(t)
  BY <1>2, <1>6, <1>7 DEF Numbered
<1>9. Follows(r, t)
  <2>1. ASSUME NEW i \in 1 .. n + 1
        PROVE  \/ \E j \in 1 .. n : t.requests[i] = r.requests[j]
               \/ t.requests[i].sequence >= r.nextRequest
    <3>1. CASE i \in 1 .. n
      BY <1>2, <3>1
    <3>2. CASE i = n + 1
      BY <1>1, <1>2, <3>2
    <3> QED
      BY <1>4, <3>1, <3>2
  <2> QED
    BY <1>1, <1>2, <2>1 DEF Follows, n
<1>10. ASSUME NEW c \in Nat, Told(r, c) PROVE Told(t, c)
  <2>1. PICK i \in 1 .. n : r.requests[i].kind = "disconnect" /\ r.requests[i].connection = c
    BY <1>10 DEF Told, n
  <2>2. i \in 1 .. Len(t.requests)
    BY <1>1, <1>2
  <2> QED
    BY <1>2, <2>1, <2>2 DEF Told
<1> QED
  BY <1>2, <1>8, <1>9, <1>10 DEF n

\* requestNetworkStop.
LEMMA TellStep ==
  ASSUME NEW r, RuntimeOK(r), QueueOK(r)
  PROVE  LET t == DiscardThenTell(r)
         IN  Quiet(t) /\ Follows(r, t) /\ Carries(r, t)
<1> DEFINE u == Discard(r)
<1>1. /\ Quiet(u) /\ Follows(r, u)
      /\ \A n \in Nat : Told(r, n) => Told(u, n)
  BY DiscardStep
<1>2. /\ r \in Runtimes /\ u \in Runtimes /\ r.connection \in Nat
      /\ u.nextConnection = r.nextConnection
      /\ r.connection < r.nextConnection
      /\ u.nextRequest \in Nat /\ r.nextConnection \in Nat
      /\ u.socket = NoSocket
  BY RuntimeFacts, DiscardFields DEF RuntimeOK, SocketOK
<1>3. CASE r.connection = 0
  <2>1. DiscardThenTell(r) = u
    BY <1>3 DEF DiscardThenTell
  <2>2. Carries(r, u)
    BY <1>1, <1>3 DEF Carries, Held
  <2> QED
    BY <1>1, <2>1, <2>2
<1>4. CASE r.connection # 0
  <2> DEFINE q == [sequence |-> u.nextRequest, connection |-> r.connection,
                   kind |-> "disconnect", data |-> <<>>]
             t == Enqueue(u, "disconnect", r.connection, <<>>)
  <2>1. DiscardThenTell(r) = t
    BY <1>4 DEF DiscardThenTell
  <2>2. q \in NetRequests
    BY <1>2, <1>4 DEF NetRequests
  <2>3. /\ t \in Runtimes
        /\ t.socket = u.socket
        /\ t.connection = u.connection /\ t.nextConnection = u.nextConnection
        /\ t.nextRequest = u.nextRequest + 1 /\ t.events = u.events
        /\ t.requests = Append(u.requests, q)
    BY <1>2, <2>2, EnqueueFields
  <2>4. /\ q.sequence = u.nextRequest /\ q.connection = r.connection /\ q.kind = "disconnect"
    OBVIOUS
  <2> HIDE DEF q, t, u
  <2>5. Numbered(u) /\ u.connection = 0
    BY <1>1, QuietFacts DEF Quiet, QueueOK
  <2>6. /\ Numbered(t) /\ Follows(u, t)
        /\ \A n \in Nat : Told(u, n) => Told(t, n)
        /\ Len(t.requests) = Len(u.requests) + 1 /\ t.requests[Len(u.requests) + 1] = q
        /\ \A i \in 1 .. Len(u.requests) : t.requests[i] = u.requests[i]
    <3>1. u.nextConnection <= t.nextConnection /\ q.connection < t.nextConnection
      BY <1>2, <2>3, <2>4
    <3> QED
      BY <1>2, <2>2, <2>3, <2>4, <2>5, <3>1, EnqueuedStep
  <2>7. Len(u.requests) \in Nat /\ Len(t.requests) \in Nat
    BY <1>2, <2>3, RuntimeFacts
  <2>8. \A i \in 1 .. Len(t.requests) :
          t.requests[i].kind = "disconnect" /\ t.requests[i].connection # t.connection
    <3>1. \A i \in 1 .. Len(t.requests) : t.requests[i].connection # 0
      BY <2>3, RuntimeFacts DEF NetRequests
    <3>2. \A i \in 1 .. Len(t.requests) : i \in 1 .. Len(u.requests) \/ i = Len(u.requests) + 1
      BY <2>6, <2>7
    <3>3. \A i \in 1 .. Len(u.requests) : u.requests[i].kind = "disconnect"
      BY <1>1, QuietFacts
    <3> QED
      BY <2>3, <2>4, <2>5, <2>6, <3>1, <3>2, <3>3
  <2>9. QueueOK(t)
    <3>1. Current(t, Len(t.requests))
      BY <1>2, <2>3, <2>5, <2>7, <2>8, NoSocketFacts DEF Current
    <3> QED
      BY <2>6, <2>7, <3>1 DEF QueueOK
  <2>10. RuntimeOK(t)
    BY <1>1, <2>3 DEF Quiet, RuntimeOK, SocketOK, EventsOK
  <2>11. Carries(r, t)
    <3>1. Told(t, r.connection)
      <4>1. Len(u.requests) + 1 \in 1 .. Len(t.requests)
        BY <2>6, <2>7
      <4> QED
        BY <2>4, <2>6, <4>1 DEF Told
    <3> QED
      BY <1>1, <2>6, <3>1 DEF Carries, Held
  <2>12. Follows(r, t)
    BY <1>1, <1>2, <2>3, <2>6, FollowsTransitive
  <2> QED
    BY <1>2, <2>1, <2>3, <2>9, <2>10, <2>11, <2>12 DEF Quiet
<1> QED
  BY <1>3, <1>4

LEMMA WithoutFields ==
  ASSUME NEW r \in Runtimes, NEW s \in Sockets, NEW c \in Nat
  PROVE  LET t == [r EXCEPT !.socket = s, !.connection = c]
         IN  /\ t \in Runtimes
             /\ t.socket = s /\ t.sockets = r.sockets
             /\ t.connection = c /\ t.nextConnection = r.nextConnection
             /\ t.nextRequest = r.nextRequest /\ t.requests = r.requests
             /\ t.events = r.events
BY DEF Runtimes

\* What a step that does not fault leaves.
Steps(r, t) == RuntimeOK(t) /\ QueueOK(t) /\ Follows(r, t) /\ Carries(r, t)

LEMMA StepsCompose ==
  ASSUME NEW r \in Runtimes, NEW s, NEW t, RuntimeOK(s), Follows(r, s), Carries(r, s), Steps(s, t)
  PROVE  Steps(r, t)
<1>1. s \in Runtimes /\ t \in Runtimes
  BY DEF Steps, RuntimeOK
<1>2. Follows(r, t)
  BY <1>1, FollowsTransitive DEF Steps
<1>3. Carries(r, t)
  BY DEF Steps, Carries
<1> QED
  BY <1>2, <1>3 DEF Steps

\* No event is about a socket where there is none.
LEMMA QuietEvents ==
  ASSUME NEW r, Quiet(r)
  PROVE  \A i \in 1 .. Len(r.events) : r.events[i].name \notin {"connect", "read"}
<1>1. r.socket.id = 0
  BY NoSocketFacts DEF Quiet
<1> QED
  BY <1>1 DEF Quiet, RuntimeOK, EventsOK

\* A local server's socket.
LEMMA LocalStep ==
  ASSUME NEW r, Quiet(r), NEW s \in Sockets, NEW n \in Nat,
         s.id # 0, s.local = TRUE, s.state = "connected"
  PROVE  LET u == [r EXCEPT !.socket = s, !.sockets = n]
             t == Notify(u, "connect", s.id, 1)
         IN  Steps(r, t) /\ t.socket.state = "connected"
<1> DEFINE u == [r EXCEPT !.socket = s, !.sockets = n]
           e == [name |-> "connect", socket |-> s.id, value |-> 1]
           t == Notify(u, e.name, e.socket, e.value)
<1>1. /\ r \in Runtimes /\ r.nextConnection \in Nat \ {0} /\ Len(r.requests) \in Nat
      /\ r.connection = 0 /\ Numbered(r)
      /\ r.nextRequest \in Nat
  BY RuntimeFacts, QuietFacts DEF Quiet, RuntimeOK, QueueOK
<1>2. /\ u \in Runtimes
      /\ u.socket = s /\ u.sockets = n
      /\ u.connection = r.connection /\ u.nextConnection = r.nextConnection
      /\ u.nextRequest = r.nextRequest /\ u.requests = r.requests
      /\ u.events = r.events
  BY <1>1 DEF Runtimes
<1>3. e \in NetEvents /\ e.name = "connect" /\ e.socket = s.id /\ e.value = 1
  BY DEF NetEvents, Sockets
<1> HIDE DEF u, e
<1>4. /\ t \in Runtimes
      /\ t.socket = u.socket /\ t.sockets = u.sockets
      /\ t.connection = u.connection /\ t.nextConnection = u.nextConnection
      /\ t.nextRequest = u.nextRequest /\ t.requests = u.requests
      /\ t.events = Append(u.events, e)
  BY <1>2, <1>3, NotifyFields
<1> HIDE DEF t
<1>5. EventsOK(u)
  BY <1>2, QuietEvents, NoReads
<1>6. EventsOK(t)
  <2>1. t.socket.id = u.socket.id /\ t.socket.state = u.socket.state
        /\ t.socket.read = u.socket.read /\ Len(u.socket.read) \in Nat
    BY <1>2, <1>4, ReadCount
  <2>2. Len(t.socket.read) >= Len(u.socket.read)
    BY <2>1
  <2> QED
    BY <1>2, <1>3, <1>4, <1>5, <2>1, <2>2, AppendedEvents
<1>7. SocketOK(t)
  BY <1>1, <1>2, <1>4 DEF SocketOK
<1>8. QueueOK(t)
  <2>1. \A i \in 1 .. Len(r.requests) :
          r.requests[i].kind = "disconnect" /\ r.requests[i].connection # 0
    BY <1>1, QuietFacts, RuntimeFacts DEF NetRequests
  <2>2. Current(t, Len(r.requests))
    <3> DEFINE k == Len(r.requests)
    <3>1. /\ t.requests = r.requests /\ t.connection = 0 /\ t.socket.state = "connected"
          /\ t.socket.local = TRUE
      BY <1>1, <1>2, <1>4
    <3>2. k \in Nat /\ Len(t.requests) = k
      BY <1>1, <3>1
    <3>3. \A i \in k + 1 .. Len(t.requests) : FALSE
      BY <3>2
    <3> HIDE DEF k
    <3>4. \A i \in 1 .. k :
            t.requests[i].kind = "disconnect" /\ t.requests[i].connection # t.connection
      BY <2>1, <3>1 DEF k
    <3>5. Current(t, k)
      BY <3>1, <3>2, <3>3, <3>4 DEF Current
    <3> QED
      BY <3>5 DEF k
  <2>3. Numbered(t)
    BY <1>1, <1>2, <1>4 DEF Numbered
  <2> QED
    BY <1>1, <1>2, <1>4, <2>2, <2>3 DEF QueueOK
<1>9. Follows(r, t)
  BY <1>1, <1>2, <1>4 DEF Follows
<1>10. Carries(r, t)
  BY <1>1, <1>2, <1>4 DEF Carries, Held, Told
<1>11. t = Notify(u, "connect", s.id, 1)
  BY <1>3 DEF t
<1> QED
  BY <1>2, <1>4, <1>6, <1>7, <1>8, <1>9, <1>10, <1>11 DEF Steps, RuntimeOK, u

\* A socket of a connection the host is asked for.
LEMMA RemoteStep ==
  ASSUME NEW r, Quiet(r), NEW s \in Sockets, NEW n \in Nat,
         s.id # 0, s.local = FALSE, s.state = "connecting", s.written = <<>>
  PROVE  LET u == [r EXCEPT !.socket = s, !.sockets = n]
             v == [u EXCEPT !.connection = u.nextConnection, !.nextConnection = @ + 1]
             t == Enqueue(v, "connect", v.connection, <<>>)
         IN  Steps(r, t) /\ t.socket.state = "connecting"
<1> DEFINE u == [r EXCEPT !.socket = s, !.sockets = n]
           c == u.nextConnection
           m == u.nextConnection + 1
           v == [u EXCEPT !.connection = c, !.nextConnection = m]
           q == [sequence |-> v.nextRequest, connection |-> v.connection,
                 kind |-> "connect", data |-> <<>>]
           t == Enqueue(v, "connect", v.connection, <<>>)
           k == Len(r.requests)
<1>1. /\ r \in Runtimes /\ r.nextConnection \in Nat \ {0} /\ k \in Nat
      /\ r.connection = 0 /\ Numbered(r)
      /\ r.nextRequest \in Nat
  BY RuntimeFacts, QuietFacts DEF Quiet, RuntimeOK, QueueOK
<1>2. /\ u \in Runtimes
      /\ u.socket = s /\ u.sockets = n
      /\ u.connection = r.connection /\ u.nextConnection = r.nextConnection
      /\ u.nextRequest = r.nextRequest /\ u.requests = r.requests
      /\ u.events = r.events
  BY <1>1 DEF Runtimes
<1>3. /\ c \in Nat \ {0} /\ m \in Nat \ {0} /\ c = r.nextConnection /\ m = r.nextConnection + 1
  BY <1>1, <1>2
<1> HIDE DEF u, c, m
<1>4. /\ v \in Runtimes
      /\ v.socket = s /\ v.sockets = n
      /\ v.connection = c /\ v.nextConnection = m
      /\ v.nextRequest = r.nextRequest /\ v.requests = r.requests
      /\ v.events = r.events
  <2>1. /\ v \in Runtimes
        /\ v.socket = u.socket /\ v.sockets = u.sockets
        /\ v.connection = c /\ v.nextConnection = m
        /\ v.nextRequest = u.nextRequest /\ v.requests = u.requests
        /\ v.events = u.events
    BY <1>2, <1>3 DEF Runtimes
  <2> QED
    BY <1>2, <2>1
<1> HIDE DEF v
<1>5. q \in NetRequests /\ q.sequence = r.nextRequest /\ q.connection = c /\ q.kind = "connect"
  BY <1>1, <1>3, <1>4 DEF NetRequests
<1>6. /\ t \in Runtimes
      /\ t.socket = s /\ t.sockets = n
      /\ t.connection = c /\ t.nextConnection = m
      /\ t.nextRequest = r.nextRequest + 1 /\ t.events = r.events
      /\ t.requests = Append(r.requests, q)
  BY <1>4, <1>5, EnqueueFields
<1> HIDE DEF q, t
<1>7. /\ Numbered(t) /\ Follows(r, t)
      /\ \A j \in Nat : Told(r, j) => Told(t, j)
      /\ Len(t.requests) = k + 1 /\ t.requests[k + 1] = q
      /\ \A i \in 1 .. k : t.requests[i] = r.requests[i]
  <2>1. r.nextConnection <= t.nextConnection /\ q.connection < t.nextConnection
    BY <1>1, <1>3, <1>5, <1>6
  <2> QED
    BY <1>1, <1>5, <1>6, <2>1, EnqueuedStep
<1>8. SocketOK(t)
  <2>1. c < m /\ c # 0
    BY <1>1, <1>3
  <2> QED
    BY <1>6, <2>1 DEF SocketOK
<1>9. EventsOK(t)
  BY <1>6, QuietEvents, NoReads
<1>10. QueueOK(t)
  <2>1. \A i \in 1 .. k : r.requests[i].kind = "disconnect" /\ r.requests[i].connection # c
    <3>1. \A i \in 1 .. k : r.requests[i].connection \in Nat /\ r.requests[i].connection < c
      BY <1>1, <1>3, RuntimeFacts DEF NetRequests, Numbered
    <3>2. \A i \in 1 .. k : r.requests[i].connection # c
      BY <1>3, <3>1
    <3> QED
      BY <3>2, QuietFacts
  <2>2. \A i \in k + 1 .. Len(t.requests) : i = k + 1
    BY <1>1, <1>7
  <2> HIDE DEF k
  <2>3. Current(t, k)
    BY <1>3, <1>5, <1>6, <1>7, <2>1, <2>2 DEF Current
  <2>4. k \in 0 .. Len(t.requests)
    BY <1>1, <1>7
  <2> QED
    BY <1>7, <2>3, <2>4 DEF QueueOK
<1>11. Carries(r, t)
  BY <1>1, <1>7 DEF Carries, Held
<1>12. t = Enqueue(v, "connect", v.connection, <<>>)
  BY DEF t
<1> QED
  BY <1>6, <1>7, <1>8, <1>9, <1>10, <1>11, <1>12 DEF Steps, RuntimeOK, u, v, c, m

\* The network without a connection.
LEMMA BareRuntime ==
  ASSUME NEW r, Quiet(r), NEW t \in Runtimes, t.socket = NoSocket, t.connection = 0,
         t.events = r.events
  PROVE  RuntimeOK(t)
<1>1. EventsOK(t)
  BY QuietEvents, NoReads
<1>2. SocketOK(t)
  BY NoSocketFacts, RuntimeFacts DEF SocketOK
<1> QED
  BY <1>1, <1>2 DEF RuntimeOK

LEMMA StopStep ==
  ASSUME NEW r, RuntimeOK(r)
  PROVE  Quiet(StopNetwork(r)) /\ StopNetwork(r).requests = <<>>
<1> DEFINE u == Discard(r)
           x == <<>>
           t == [u EXCEPT !.requests = x]
<1>1. r \in Runtimes /\ RuntimeOK(u)
  BY DiscardRuntime DEF RuntimeOK
<1>2. u \in Runtimes /\ u.socket = NoSocket /\ u.connection = 0
  BY <1>1, DiscardFields
<1>3. x \in Seq(NetRequests) /\ Len(x) = 0 /\ x = <<>>
  BY EmptySeq, LenProperties
<1>4. StopNetwork(r) = t
  BY DEF StopNetwork
<1> HIDE DEF u, x
<1>5. /\ t \in Runtimes /\ t.socket = u.socket /\ t.connection = u.connection
      /\ t.nextConnection = u.nextConnection /\ t.requests = x /\ t.events = u.events
  BY <1>2, <1>3, RequestsFields
<1> HIDE DEF t
<1>6. RuntimeOK(t)
  BY <1>1, <1>5 DEF RuntimeOK, SocketOK, EventsOK
<1>7. Current(t, 0)
  BY <1>2, <1>3, <1>5, NoSocketFacts DEF Current
<1>8. QueueOK(t)
  BY <1>3, <1>5, <1>7 DEF QueueOK, Numbered
<1> QED
  BY <1>2, <1>3, <1>4, <1>5, <1>6, <1>8 DEF Quiet

\* A connected socket of the host's has its connection.
LEMMA ConnectedSocket ==
  ASSUME NEW r, RuntimeOK(r), r.socket.state # "none"
  PROVE  /\ r.socket.id # 0 /\ r.socket # NoSocket
         /\ r.socket.local <=> r.connection = 0
BY NoSocketFacts DEF RuntimeOK, SocketOK

\* A packet for the host.
LEMMA SendStep ==
  ASSUME NEW r, RuntimeOK(r), QueueOK(r), r.socket.state = "connected", ~r.socket.local,
         NEW packet \in Packets
  PROVE  LET u == [r EXCEPT !.socket.written = Append(@, packet)]
             t == Enqueue(u, "write", r.connection, packet)
         IN  Steps(r, t) /\ t.socket.state = "connected"
<1> DEFINE w == r.socket.written
           x == Append(w, packet)
           u == [r EXCEPT !.socket.written = x]
           q == [sequence |-> u.nextRequest, connection |-> r.connection,
                 kind |-> "write", data |-> packet]
           t == Enqueue(u, "write", r.connection, packet)
           n == Len(r.requests)
           l == Len(w)
<1>1. /\ r \in Runtimes /\ SocketOK(r) /\ EventsOK(r) /\ Numbered(r)
      /\ r.connection \in Nat /\ r.nextConnection \in Nat /\ r.nextRequest \in Nat
      /\ w \in Seq(Packets) /\ n \in Nat
  BY RuntimeFacts DEF RuntimeOK, QueueOK
<1>2. /\ x \in Seq(Packets) /\ Len(x) = l + 1 /\ l \in Nat
      /\ x[l + 1] = packet /\ \A i \in 1 .. l : x[i] = w[i]
  BY <1>1, AppendProperties, LenProperties
<1>3. r.connection # 0
  BY ConnectedSocket
<1>4. PICK k \in 0 .. n : Current(r, k)
  BY DEF QueueOK
<1> HIDE DEF x
<1>5. /\ u \in Runtimes
      /\ u.socket.id = r.socket.id /\ u.socket.local = r.socket.local
      /\ u.socket.state = r.socket.state /\ u.socket.written = x
      /\ u.socket.read = r.socket.read
      /\ u.connection = r.connection /\ u.nextConnection = r.nextConnection
      /\ u.nextRequest = r.nextRequest /\ u.requests = r.requests
      /\ u.events = r.events
  BY <1>1, <1>2, WrittenFields
<1> HIDE DEF u
<1>6. /\ q \in NetRequests /\ q.sequence = r.nextRequest /\ q.connection = r.connection
      /\ q.kind = "write" /\ q.data = packet
  BY <1>1, <1>3, <1>5 DEF NetRequests
<1>7. /\ t \in Runtimes /\ t.socket = u.socket
      /\ t.connection = u.connection /\ t.nextConnection = u.nextConnection
      /\ t.nextRequest = u.nextRequest + 1 /\ t.events = u.events
      /\ t.requests = Append(u.requests, q)
  BY <1>5, <1>6, EnqueueFields
<1> HIDE DEF q, t
<1>8. /\ t.socket.id = r.socket.id /\ t.socket.local = r.socket.local
      /\ t.socket.state = "connected" /\ t.socket.written = x
      /\ t.socket.read = r.socket.read
      /\ t.connection = r.connection /\ t.nextConnection = r.nextConnection
      /\ t.nextRequest = r.nextRequest + 1 /\ t.events = r.events
      /\ t.requests = Append(r.requests, q)
  BY <1>5, <1>7
<1>9. /\ Numbered(t) /\ Follows(r, t)
      /\ \A j \in Nat : Told(r, j) => Told(t, j)
      /\ Len(t.requests) = n + 1 /\ t.requests[n + 1] = q
      /\ \A i \in 1 .. n : t.requests[i] = r.requests[i]
  <2>1. r.nextConnection <= t.nextConnection /\ q.connection < t.nextConnection
    BY <1>1, <1>6, <1>8 DEF SocketOK
  <2> QED
    BY <1>1, <1>6, <1>7, <1>8, <2>1, EnqueuedStep
<1>10. SocketOK(t) /\ EventsOK(t)
  BY <1>1, <1>3, <1>8 DEF SocketOK, EventsOK
<1>11. Current(t, k)
  <2>1. /\ n = k + l
        /\ \A i \in 1 .. l : r.requests[k + i].kind = "write" /\ r.requests[k + i].data = w[i]
        /\ \A i \in 1 .. k :
             r.requests[i].kind = "disconnect" /\ r.requests[i].connection # r.connection
        /\ \A i \in k + 1 .. n : r.requests[i].connection = r.connection
    BY <1>4 DEF Current
  <2>2. \A i \in 1 .. k : i \in 1 .. n
    BY <1>1, <1>4
  <2>3. \A i \in k + 1 .. n + 1 : i \in k + 1 .. n \/ i = n + 1
    BY <1>1, <1>4
  <2>3a. \A i \in k + 1 .. n : i \in 1 .. n
    BY <1>1, <1>4
  <2>4. \A i \in 1 .. l : k + i \in 1 .. n
    BY <1>1, <1>2, <1>4, <2>1
  <2>5. n + 1 = k + (l + 1)
    BY <1>2, <1>4, <2>1
  <2>6. \A i \in 1 .. l + 1 : i \in 1 .. l \/ i = l + 1
    BY <1>2
  <2> HIDE DEF n, l, w
  <2>7. \A i \in 1 .. k :
          t.requests[i].kind = "disconnect" /\ t.requests[i].connection # t.connection
    BY <1>8, <1>9, <2>1, <2>2
  <2>8. \A i \in k + 1 .. n + 1 : t.requests[i].connection = t.connection
    BY <1>6, <1>8, <1>9, <2>1, <2>3, <2>3a
  <2>9. ASSUME NEW i \in 1 .. l + 1
        PROVE  t.requests[k + i].kind = "write" /\ t.requests[k + i].data = x[i]
    <3>1. CASE i \in 1 .. l
      BY <1>2, <1>9, <2>1, <2>4, <3>1
    <3>2. CASE i = l + 1
      BY <1>2, <1>6, <1>9, <2>5, <3>2
    <3> QED
      BY <2>6, <3>1, <3>2
  <2> QED
    BY <1>2, <1>3, <1>8, <1>9, <2>5, <2>7, <2>8, <2>9 DEF Current
<1>12. QueueOK(t)
  <2>1. k \in 0 .. Len(t.requests)
    BY <1>1, <1>4, <1>9
  <2> QED
    BY <1>9, <1>11, <2>1 DEF QueueOK
<1>13. Carries(r, t)
  BY <1>8, <1>9 DEF Carries, Held
<1> QED
  BY <1>7, <1>8, <1>9, <1>10, <1>12, <1>13 DEF Steps, RuntimeOK, t, u, x

-----------------------------------------------------------------------------
(* Completing the oldest request. *)

LEMMA OldestRequest ==
  ASSUME NEW r, RuntimeOK(r), QueueOK(r), r.requests # <<>>
  PROVE  LET q == Head(r.requests)
         IN  /\ q = r.requests[1] /\ 1 \in 1 .. Len(r.requests) /\ q \in NetRequests
             /\ q.kind = "disconnect" => \E k \in 1 .. Len(r.requests) : Current(r, k)
             /\ q.kind # "disconnect" => Current(r, 0)
             /\ q.kind = "connect" => r.socket.state = "connecting"
             /\ q.kind = "write" =>
                  /\ r.socket.state = "connected" /\ ~r.socket.local
                  /\ r.socket.written # <<>> /\ Head(r.socket.written) = q.data
<1> DEFINE q == Head(r.requests)
<1>1. /\ r \in Runtimes /\ Len(r.requests) \in Nat /\ r.requests \in Seq(NetRequests)
      /\ r.socket.written \in Seq(Packets)
      /\ \A i \in 1 .. Len(r.requests) : r.requests[i] \in NetRequests
  BY RuntimeFacts DEF RuntimeOK
<1>2. Len(r.requests) >= 1 /\ q = r.requests[1] /\ 1 \in 1 .. Len(r.requests)
  BY <1>1, EmptySeq, HeadTailProperties
<1>3. PICK k \in 0 .. Len(r.requests) : Current(r, k)
  BY DEF QueueOK
<1> HIDE DEF q
<1>4. CASE k = 0
  <2>1. r.connection # 0 /\ r.socket.state # "closed" /\ Current(r, 0)
    BY <1>2, <1>3, <1>4 DEF Current
  <2>2. r.socket.state \in {"connecting", "connected"} /\ ~r.socket.local
    BY <1>1, <2>1 DEF RuntimeOK, SocketOK, Runtimes, Sockets
  <2>3. CASE r.socket.state = "connecting"
    BY <1>1, <1>2, <2>1, <2>3 DEF Current
  <2>4. CASE r.socket.state = "connected"
    <3>1. /\ Len(r.requests) = 0 + Len(r.socket.written)
          /\ \A i \in 1 .. Len(r.socket.written) :
               r.requests[0 + i].kind = "write" /\ r.requests[0 + i].data = r.socket.written[i]
      BY <2>1, <2>2, <2>4 DEF Current
    <3>2. Len(r.socket.written) \in Nat
      BY <1>1, LenProperties
    <3>3. 1 \in 1 .. Len(r.socket.written) /\ 0 + 1 = 1
      BY <1>2, <3>1, <3>2
    <3>4. q.kind = "write" /\ q.data = r.socket.written[1]
      BY <1>2, <3>1, <3>3
    <3>5. r.socket.written # <<>> /\ Head(r.socket.written) = r.socket.written[1]
      BY <1>1, <3>3, EmptySeq, HeadTailProperties
    <3> QED
      BY <1>1, <1>2, <2>1, <2>2, <2>4, <3>4, <3>5 DEF q
  <2> QED
    BY <2>2, <2>3, <2>4 DEF q
<1>5. CASE k # 0
  <2>1. k \in 1 .. Len(r.requests) /\ 1 \in 1 .. k
    BY <1>1, <1>3, <1>5
  <2>2. q.kind = "disconnect"
    BY <1>2, <1>3, <2>1 DEF Current
  <2> QED
    BY <1>1, <1>2, <1>3, <2>1, <2>2 DEF q
<1> QED
  BY <1>4, <1>5

LEMMA RestOfRequests ==
  ASSUME NEW r, RuntimeOK(r), QueueOK(r), r.requests # <<>>
  PROVE  LET q == Head(r.requests)
             t == [r EXCEPT !.requests = Tail(@)]
         IN  /\ RuntimeOK(t) /\ Numbered(t) /\ Follows(r, t)
             /\ Len(t.requests) \in Nat /\ Len(r.requests) = Len(t.requests) + 1
             /\ \A i \in 1 .. Len(t.requests) :
                  i + 1 \in 1 .. Len(r.requests) /\ t.requests[i] = r.requests[i + 1]
             /\ \A n \in Nat : Told(r, n) =>
                  Told(t, n) \/ (q.kind = "disconnect" /\ n = q.connection)
             /\ t.socket = r.socket /\ t.connection = r.connection
             /\ t.nextConnection = r.nextConnection /\ t.nextRequest = r.nextRequest
             /\ t.events = r.events
<1> DEFINE q == Head(r.requests)
           x == Tail(r.requests)
           t == [r EXCEPT !.requests = x]
<1>1. /\ r \in Runtimes /\ Len(r.requests) \in Nat /\ r.requests \in Seq(NetRequests)
      /\ r.nextRequest \in Nat /\ r.nextConnection \in Nat
      /\ Numbered(r) /\ SocketOK(r) /\ EventsOK(r)
  BY RuntimeFacts DEF RuntimeOK, QueueOK
<1>2. /\ x \in Seq(NetRequests) /\ Len(x) \in Nat /\ Len(r.requests) = Len(x) + 1
      /\ \A i \in 1 .. Len(x) : i + 1 \in 1 .. Len(r.requests) /\ x[i] = r.requests[i + 1]
      /\ q = r.requests[1]
  <2>1. Len(r.requests) >= 1
    BY <1>1, EmptySeq
  <2>2. /\ x \in Seq(NetRequests) /\ Len(x) = Len(r.requests) - 1
        /\ \A i \in 1 .. Len(x) : x[i] = r.requests[i + 1]
        /\ q = r.requests[1]
    BY <1>1, HeadTailProperties
  <2> QED
    BY <1>1, <2>1, <2>2
<1> HIDE DEF x, q
<1>3. /\ t \in Runtimes
      /\ t.socket = r.socket /\ t.sockets = r.sockets
      /\ t.connection = r.connection /\ t.nextConnection = r.nextConnection
      /\ t.nextRequest = r.nextRequest /\ t.requests = x
      /\ t.events = r.events
  BY <1>1, <1>2, RequestsFields
<1> HIDE DEF t
<1>4. SocketOK(t) /\ EventsOK(t)
  BY <1>1, <1>3 DEF SocketOK, EventsOK
<1>5. Numbered(t)
  <2>1. \A i \in 1 .. Len(x) : x[i].sequence < r.nextRequest /\ x[i].connection < r.nextConnection
    BY <1>1, <1>2 DEF Numbered
  <2>2. ASSUME NEW i \in 1 .. Len(x), NEW j \in 1 .. Len(x), i < j
        PROVE  x[i].sequence < x[j].sequence
    <3>1. /\ i + 1 < j + 1 /\ i + 1 \in 1 .. Len(r.requests) /\ j + 1 \in 1 .. Len(r.requests)
          /\ x[i] = r.requests[i + 1] /\ x[j] = r.requests[j + 1]
      BY <1>2, <2>2
    <3>2. \A a, b \in 1 .. Len(r.requests) : a < b =>
            r.requests[a].sequence < r.requests[b].sequence
      BY <1>1 DEF Numbered
    <3> DEFINE a == i + 1
               b == j + 1
    <3> HIDE DEF a, b
    <3>3. a < b /\ a \in 1 .. Len(r.requests) /\ b \in 1 .. Len(r.requests)
          /\ x[i] = r.requests[a] /\ x[j] = r.requests[b]
      BY <3>1 DEF a, b
    <3> QED
      BY <3>2, <3>3
  <2> QED
    BY <1>3, <2>1, <2>2 DEF Numbered
<1>6. Follows(r, t)
  BY <1>1, <1>2, <1>3 DEF Follows
<1>7. ASSUME NEW n \in Nat, Told(r, n)
      PROVE  Told(t, n) \/ (q.kind = "disconnect" /\ n = q.connection)
  <2>1. PICK i \in 1 .. Len(r.requests) :
          r.requests[i].kind = "disconnect" /\ r.requests[i].connection = n
    BY <1>7 DEF Told
  <2>2. CASE i = 1
    BY <1>2, <2>1, <2>2
  <2>3. CASE i # 1
    <3> DEFINE j == i - 1
    <3>1. j \in 1 .. Len(x) /\ j + 1 = i
      BY <1>1, <1>2, <2>3
    <3> HIDE DEF j
    <3> QED
      BY <1>2, <1>3, <2>1, <3>1 DEF Told
  <2> QED
    BY <2>2, <2>3
<1> QED
  BY <1>2, <1>3, <1>4, <1>5, <1>6, <1>7 DEF RuntimeOK, t, x, q

\* Everything but connection c is carried.
CarriesBut(r, t, c) == \A n \in Nat \ {0} : Held(r, n) /\ n # c => Held(t, n)

\* An earlier connection is closed.
LEMMA ClosedStep ==
  ASSUME NEW r, RuntimeOK(r), QueueOK(r), r.requests # <<>>,
         Head(r.requests).kind = "disconnect"
  PROVE  LET t == [r EXCEPT !.requests = Tail(@)]
         IN  /\ RuntimeOK(t) /\ QueueOK(t) /\ Follows(r, t)
             /\ CarriesBut(r, t, Head(r.requests).connection)
             /\ t.socket = r.socket
<1> DEFINE q == Head(r.requests)
           t == [r EXCEPT !.requests = Tail(@)]
<1>1. /\ RuntimeOK(t) /\ Numbered(t) /\ Follows(r, t)
      /\ Len(t.requests) \in Nat /\ Len(r.requests) = Len(t.requests) + 1
      /\ \A i \in 1 .. Len(t.requests) :
           i + 1 \in 1 .. Len(r.requests) /\ t.requests[i] = r.requests[i + 1]
      /\ \A n \in Nat : Told(r, n) => Told(t, n) \/ (q.kind = "disconnect" /\ n = q.connection)
      /\ t.socket = r.socket /\ t.connection = r.connection
  BY RestOfRequests
<1>2. PICK k \in 1 .. Len(r.requests) : Current(r, k)
  BY OldestRequest
<1>3. Len(r.socket.written) \in Nat
  BY RuntimeFacts, LenProperties DEF RuntimeOK
<1> DEFINE m == k - 1
<1>4. m \in 0 .. Len(t.requests) /\ k = m + 1
  BY <1>1, <1>2
<1> HIDE DEF q, t, m
<1>5. Current(t, m)
  <2>1. \A i \in 1 .. m : i + 1 \in 1 .. k /\ i \in 1 .. Len(t.requests)
    BY <1>1, <1>4
  <2>2. \A i \in m + 1 .. Len(t.requests) :
          i + 1 \in k + 1 .. Len(r.requests) /\ i \in 1 .. Len(t.requests)
    BY <1>1, <1>4
  <2>3. \A i \in 1 .. m :
          t.requests[i].kind = "disconnect" /\ t.requests[i].connection # t.connection
    BY <1>1, <1>2, <2>1 DEF Current
  <2>4. \A i \in m + 1 .. Len(t.requests) : t.requests[i].connection = t.connection
    BY <1>1, <1>2, <2>2 DEF Current
  <2>5. t.socket.state = "connecting" =>
          /\ Len(t.requests) = m + 1 /\ t.requests[m + 1].kind = "connect"
          /\ t.socket.written = <<>>
    <3> SUFFICES ASSUME t.socket.state = "connecting"
                 PROVE  /\ Len(t.requests) = m + 1 /\ t.requests[m + 1].kind = "connect"
                        /\ t.socket.written = <<>>
      OBVIOUS
    <3>1. /\ Len(r.requests) = k + 1 /\ r.requests[k + 1].kind = "connect"
          /\ r.socket.written = <<>>
      BY <1>1, <1>2 DEF Current
    <3>2. m + 1 \in 1 .. Len(t.requests) /\ Len(t.requests) = m + 1 /\ k + 1 = (m + 1) + 1
      BY <1>1, <1>4, <3>1
    <3> QED
      BY <1>1, <3>1, <3>2
  <2>6. t.socket.state = "connected" /\ ~t.socket.local =>
          /\ Len(t.requests) = m + Len(t.socket.written)
          /\ \A i \in 1 .. Len(t.socket.written) :
               /\ t.requests[m + i].kind = "write"
               /\ t.requests[m + i].data = t.socket.written[i]
    <3> SUFFICES ASSUME t.socket.state = "connected", ~t.socket.local
                 PROVE  /\ Len(t.requests) = m + Len(r.socket.written)
                        /\ \A i \in 1 .. Len(r.socket.written) :
                             /\ t.requests[m + i].kind = "write"
                             /\ t.requests[m + i].data = r.socket.written[i]
      BY <1>1
    <3>1. /\ Len(r.requests) = k + Len(r.socket.written)
          /\ \A i \in 1 .. Len(r.socket.written) :
               r.requests[k + i].kind = "write" /\ r.requests[k + i].data = r.socket.written[i]
      BY <1>1, <1>2 DEF Current
    <3>2. Len(t.requests) = m + Len(r.socket.written)
      <4> DEFINE l == Len(r.socket.written)
                 n == Len(t.requests)
      <4>1. l \in Nat /\ n \in Nat /\ m \in Nat /\ n + 1 = (m + 1) + l
        <5>1. n \in Nat /\ Len(r.requests) = n + 1
          BY <1>1
        <5>2. n + 1 = (m + 1) + l
          BY <1>4, <3>1, <5>1, Zenon
        <5>3. m \in Nat
          BY <1>4, <5>1
        <5> QED
          BY <1>3, <5>1, <5>2, <5>3, Zenon
      <4> HIDE DEF l, n
      <4>2. n = m + l
        BY <4>1
      <4> QED
        BY <4>2 DEF l, n
    <3>3. \A i \in 1 .. Len(r.socket.written) :
            m + i \in 1 .. Len(t.requests) /\ k + i = (m + i) + 1
      BY <1>1, <1>3, <1>4, <3>2
    <3>4. \A i \in 1 .. Len(r.socket.written) : t.requests[m + i] = r.requests[k + i]
      BY <1>1, <3>3
    <3> QED
      BY <3>1, <3>2, <3>4
  <2>7. t.connection = 0 \/ t.socket.state = "closed" => Len(t.requests) = m
    <3>1. t.connection = 0 \/ t.socket.state = "closed" => Len(r.requests) = k
      BY <1>1, <1>2 DEF Current
    <3> QED
      BY <1>1, <1>4, <3>1
  <2> QED
    BY <2>3, <2>4, <2>5, <2>6, <2>7 DEF Current
<1>6. QueueOK(t)
  BY <1>1, <1>4, <1>5 DEF QueueOK
<1>7. CarriesBut(r, t, q.connection)
  BY <1>1 DEF CarriesBut, Held
<1> QED
  BY <1>1, <1>6, <1>7 DEF q, t

\* The host has answered the connect request.
LEMMA AnswerStep ==
  ASSUME NEW r, RuntimeOK(r), QueueOK(r), r.requests # <<>>,
         Head(r.requests).kind = "connect", NEW success \in BOOLEAN
  PROVE  LET rest == [r EXCEPT !.requests = Tail(@)]
             v == [rest EXCEPT !.socket.state = IF success THEN "connected" ELSE "closed"]
             t == Notify(v, "connect", r.socket.id, IF success THEN 1 ELSE 0)
         IN  /\ Steps(r, t) /\ t.connection = r.connection
             /\ t.socket.state = IF success THEN "connected" ELSE "closed"
             /\ ~success => \E i \in 1 .. Len(t.events) :
                  t.events[i].name = "connect" /\ t.events[i].value # 1
<1> DEFINE rest == [r EXCEPT !.requests = Tail(@)]
           state == IF success THEN "connected" ELSE "closed"
           value == IF success THEN 1 ELSE 0
           v == [rest EXCEPT !.socket.state = state]
           e == [name |-> "connect", socket |-> r.socket.id, value |-> value]
           t == Notify(v, e.name, e.socket, e.value)
<1>1. /\ RuntimeOK(rest) /\ Numbered(rest) /\ Follows(r, rest)
      /\ Len(rest.requests) \in Nat /\ Len(r.requests) = Len(rest.requests) + 1
      /\ \A n \in Nat : Told(r, n) => Told(rest, n)
      /\ rest.socket = r.socket /\ rest.connection = r.connection
      /\ rest.nextConnection = r.nextConnection /\ rest.nextRequest = r.nextRequest
      /\ rest.events = r.events
  BY RestOfRequests
<1>2. Current(r, 0) /\ r.socket.state = "connecting"
  BY OldestRequest
<1>3. r \in Runtimes /\ rest \in Runtimes /\ r.socket.id \in Nat
      /\ r.events \in Seq(NetEvents) /\ Len(r.events) \in Nat
  BY <1>1, RuntimeFacts DEF RuntimeOK
<1>4. /\ r.socket.id # 0 /\ (r.socket.local <=> r.connection = 0)
      /\ ~r.socket.local /\ r.connection # 0
  BY <1>2, ConnectedSocket DEF RuntimeOK, SocketOK
<1>5. Len(r.requests) = 1 /\ r.socket.written = <<>>
  BY <1>2 DEF Current
<1>6. Len(rest.requests) = 0
  BY <1>1, <1>5
<1>7. /\ state \in {"connected", "closed"} /\ (value = 1 \/ state = "closed")
      /\ e \in NetEvents /\ e.name = "connect" /\ e.socket = r.socket.id /\ e.value = value
      /\ ~success => value # 1
  BY <1>3 DEF NetEvents
<1> HIDE DEF rest, state, value, e
<1>8. /\ v \in Runtimes
      /\ v.socket.id = rest.socket.id /\ v.socket.local = rest.socket.local
      /\ v.socket.state = state /\ v.socket.written = rest.socket.written
      /\ v.socket.read = rest.socket.read
      /\ v.connection = rest.connection /\ v.nextConnection = rest.nextConnection
      /\ v.nextRequest = rest.nextRequest /\ v.requests = rest.requests
      /\ v.events = rest.events
  BY <1>3, <1>7, StateFields
<1> HIDE DEF v
<1>9. /\ t \in Runtimes /\ t.socket = v.socket
      /\ t.connection = v.connection /\ t.nextConnection = v.nextConnection
      /\ t.nextRequest = v.nextRequest /\ t.requests = v.requests
      /\ t.events = Append(v.events, e)
  BY <1>7, <1>8, NotifyFields
<1> HIDE DEF t
<1>10. /\ t.socket.id = r.socket.id /\ t.socket.local = r.socket.local
       /\ t.socket.state = state /\ t.socket.written = <<>>
       /\ t.socket.read = r.socket.read
       /\ t.connection = r.connection /\ t.nextConnection = r.nextConnection
       /\ t.nextRequest = r.nextRequest /\ t.requests = rest.requests
       /\ t.events = Append(r.events, e)
  BY <1>1, <1>5, <1>8, <1>9
<1>11. EventsOK(t)
  <2>1. EventsOK(r) /\ Len(r.socket.read) \in Nat
    BY <1>3, ReadCount DEF RuntimeOK
  <2>2. Len(t.socket.read) >= Len(r.socket.read)
    BY <1>10, <2>1
  <2> QED
    BY <1>2, <1>3, <1>4, <1>7, <1>9, <1>10, <2>1, <2>2, AppendedEvents
<1>12. SocketOK(t)
  BY <1>4, <1>7, <1>10 DEF RuntimeOK, SocketOK
<1>13. Numbered(t) /\ Follows(r, t)
  BY <1>1, <1>10 DEF Numbered, Follows
<1>14. QueueOK(t)
  <2>1. Len(t.requests) = 0 /\ Len(t.socket.written) = 0
    BY <1>6, <1>10
  <2>2. Current(t, 0)
    BY <1>7, <1>10, <2>1 DEF Current
  <2> QED
    BY <1>13, <2>1, <2>2 DEF QueueOK
<1>15. Carries(r, t)
  BY <1>1, <1>2, <1>10 DEF Carries, Held, Told
<1>16. Len(r.events) + 1 \in 1 .. Len(t.events) /\ t.events[Len(r.events) + 1] = e
  BY <1>3, <1>7, <1>10, AppendProperties
<1>17. t = Notify(v, "connect", r.socket.id, value)
  BY <1>7 DEF t
<1> QED
  BY <1>7, <1>9, <1>10, <1>11, <1>12, <1>13, <1>14, <1>15, <1>16, <1>17
     DEF Steps, RuntimeOK, v, state, value, rest

\* The host has taken the oldest packet.
LEMMA WrittenStep ==
  ASSUME NEW r, RuntimeOK(r), QueueOK(r), r.requests # <<>>,
         Head(r.requests).kind = "write"
  PROVE  LET rest == [r EXCEPT !.requests = Tail(@)]
             t == [rest EXCEPT !.socket.written = Tail(@)]
         IN  Steps(r, t) /\ t.socket.state = "connected"
<1> DEFINE rest == [r EXCEPT !.requests = Tail(@)]
           w == r.socket.written
           x == Tail(w)
           t == [rest EXCEPT !.socket.written = x]
<1>1. /\ RuntimeOK(rest) /\ Numbered(rest) /\ Follows(r, rest)
      /\ Len(rest.requests) \in Nat /\ Len(r.requests) = Len(rest.requests) + 1
      /\ \A i \in 1 .. Len(rest.requests) :
           i + 1 \in 1 .. Len(r.requests) /\ rest.requests[i] = r.requests[i + 1]
      /\ \A n \in Nat : Told(r, n) => Told(rest, n)
      /\ rest.socket = r.socket /\ rest.connection = r.connection
      /\ rest.nextConnection = r.nextConnection /\ rest.nextRequest = r.nextRequest
      /\ rest.events = r.events
  BY RestOfRequests
<1>2. /\ Current(r, 0) /\ r.socket.state = "connected" /\ ~r.socket.local
      /\ w # <<>>
  BY OldestRequest
<1>3. r \in Runtimes /\ rest \in Runtimes /\ w \in Seq(Packets) /\ Len(w) \in Nat
  BY <1>1, RuntimeFacts, LenProperties DEF RuntimeOK
<1>4. /\ x \in Seq(Packets) /\ Len(x) \in Nat /\ Len(w) = Len(x) + 1
      /\ \A i \in 1 .. Len(x) : x[i] = w[i + 1]
  <2>1. Len(w) >= 1
    BY <1>2, <1>3, EmptySeq
  <2>2. x \in Seq(Packets) /\ Len(x) = Len(w) - 1 /\ \A i \in 1 .. Len(x) : x[i] = w[i + 1]
    BY <1>2, <1>3, HeadTailProperties
  <2> HIDE DEF x
  <2> QED
    BY <1>3, <2>1, <2>2
<1>5. r.connection # 0
  BY <1>2, ConnectedSocket
<1> HIDE DEF rest, x
<1>6. t = [rest EXCEPT !.socket.written = Tail(@)]
  BY <1>1 DEF x
<1>7. /\ t \in Runtimes
      /\ t.socket.id = rest.socket.id /\ t.socket.local = rest.socket.local
      /\ t.socket.state = rest.socket.state /\ t.socket.written = x
      /\ t.socket.read = rest.socket.read
      /\ t.connection = rest.connection /\ t.nextConnection = rest.nextConnection
      /\ t.nextRequest = rest.nextRequest /\ t.requests = rest.requests
      /\ t.events = rest.events
  BY <1>3, <1>4, WrittenFields
<1> HIDE DEF t
<1>8. /\ t.socket.id = r.socket.id /\ t.socket.local = r.socket.local
      /\ t.socket.state = "connected" /\ t.socket.written = x
      /\ t.socket.read = r.socket.read
      /\ t.connection = r.connection /\ t.nextConnection = r.nextConnection
      /\ t.nextRequest = r.nextRequest /\ t.requests = rest.requests
      /\ t.events = r.events
  BY <1>1, <1>2, <1>7
<1>9. SocketOK(t) /\ EventsOK(t)
  BY <1>2, <1>5, <1>8 DEF RuntimeOK, SocketOK, EventsOK
<1>10. Numbered(t) /\ Follows(r, t)
  BY <1>1, <1>8 DEF Numbered, Follows
<1>11. Current(t, 0)
  <2>1. /\ Len(r.requests) = 0 + Len(w)
        /\ \A i \in 1 .. Len(w) :
             r.requests[0 + i].kind = "write" /\ r.requests[0 + i].data = w[i]
        /\ \A i \in 0 + 1 .. Len(r.requests) : r.requests[i].connection = r.connection
    BY <1>2 DEF Current
  <2> DEFINE n == Len(rest.requests)
             l == Len(x)
  <2>2. n \in Nat /\ Len(r.requests) = n + 1 /\ l \in Nat /\ Len(w) = l + 1
    BY <1>1, <1>4
  <2>3. n = l
    <3>1. n + 1 = 0 + (l + 1)
      BY <2>1, <2>2, Zenon
    <3> HIDE DEF n, l
    <3> QED
      BY <2>2, <3>1
  <2>4. ASSUME NEW i \in 1 .. l
        PROVE  /\ t.requests[i].kind = "write" /\ t.requests[i].data = x[i]
               /\ t.requests[i].connection = r.connection
    <3> DEFINE j == i + 1
    <3>1. j \in 1 .. Len(w) /\ 0 + j = j /\ j \in 0 + 1 .. Len(r.requests)
      BY <2>2, <2>3
    <3>2. t.requests[i] = r.requests[j] /\ x[i] = w[j]
      BY <1>1, <1>4, <1>8, <2>3
    <3> HIDE DEF j
    <3> QED
      BY <2>1, <3>1, <3>2
  <2>5. Len(t.requests) = l /\ 0 + l = l
    BY <1>8, <2>2, <2>3
  <2>6. \A i \in 1 .. l : 0 + i = i
    BY <2>2
  <2> HIDE DEF l, n
  <2>7. Len(t.socket.written) = l
    BY <1>8 DEF l
  <2> QED
    BY <1>2, <1>5, <1>8, <2>2, <2>4, <2>5, <2>6, <2>7 DEF Current
<1>12. QueueOK(t)
  BY <1>1, <1>8, <1>10, <1>11 DEF QueueOK
<1>13. Carries(r, t)
  BY <1>1, <1>2, <1>8 DEF Carries, Held, Told
<1> QED
  BY <1>6, <1>7, <1>8, <1>9, <1>10, <1>12, <1>13 DEF Steps, RuntimeOK, rest

\* The peer hung up, or the host could not take a packet.
LEMMA HangUpStep ==
  ASSUME NEW r, RuntimeOK(r), QueueOK(r)
  PROVE  LET t == Discard(Notify(r, "gnex.disconnect", 0, 10))
         IN  Quiet(t) /\ Follows(r, t) /\ CarriesBut(r, t, r.connection)
<1> DEFINE e == [name |-> "gnex.disconnect", socket |-> 0, value |-> 10]
           u == Notify(r, "gnex.disconnect", 0, 10)
           t == Discard(u)
<1>1. e \in NetEvents /\ e.name = "gnex.disconnect" /\ e.socket = 0 /\ e.value = 10
  BY DEF NetEvents
<1>2. u = Notify(r, e.name, e.socket, e.value)
  BY <1>1
<1> HIDE DEF e, u
<1>3. RuntimeOK(u) /\ QueueOK(u) /\ Follows(r, u) /\ u.requests = r.requests
  BY <1>1, <1>2, NotifyStep
<1>4. Quiet(t) /\ Follows(u, t) /\ \A n \in Nat : Told(u, n) => Told(t, n)
  BY <1>3, DiscardStep
<1> HIDE DEF t
<1>5. r \in Runtimes /\ u \in Runtimes /\ t \in Runtimes
  BY <1>3, <1>4 DEF RuntimeOK, Quiet
<1>6. Follows(r, t)
  BY <1>3, <1>4, <1>5, FollowsTransitive
<1>7. CarriesBut(r, t, r.connection)
  BY <1>3, <1>4 DEF CarriesBut, Held, Told
<1> QED
  BY <1>4, <1>6, <1>7 DEF t, u

LEMMA UnsentStep ==
  ASSUME NEW r, RuntimeOK(r), QueueOK(r), r.requests # <<>>,
         Head(r.requests).kind = "write"
  PROVE  LET rest == [r EXCEPT !.requests = Tail(@)]
             t == Discard(Notify(rest, "gnex.disconnect", 0, 10))
         IN  Quiet(t) /\ Follows(r, t) /\ CarriesBut(r, t, r.connection)
<1> DEFINE rest == [r EXCEPT !.requests = Tail(@)]
           e == [name |-> "gnex.disconnect", socket |-> 0, value |-> 10]
           u == Notify(rest, "gnex.disconnect", 0, 10)
           t == Discard(u)
           K == {i \in DOMAIN u.requests : u.connection = 0 \/ u.requests[i].connection # u.connection}
<1>1. /\ RuntimeOK(rest) /\ Numbered(rest) /\ Follows(r, rest)
      /\ Len(rest.requests) \in Nat /\ Len(r.requests) = Len(rest.requests) + 1
      /\ \A i \in 1 .. Len(rest.requests) :
           i + 1 \in 1 .. Len(r.requests) /\ rest.requests[i] = r.requests[i + 1]
      /\ rest.socket = r.socket /\ rest.connection = r.connection
      /\ rest.nextConnection = r.nextConnection /\ rest.nextRequest = r.nextRequest
  BY RestOfRequests
<1>2. Current(r, 0) /\ r.socket.state = "connected" /\ ~r.socket.local
  BY OldestRequest
<1>3. r.connection # 0
  BY <1>2, ConnectedSocket
<1>4. \A i \in 1 .. Len(r.requests) :
        r.requests[i].connection = r.connection /\ r.requests[i].kind # "disconnect"
  <2>1. /\ \A i \in 0 + 1 .. Len(r.requests) : r.requests[i].connection = r.connection
        /\ Len(r.requests) = 0 + Len(r.socket.written)
        /\ \A i \in 1 .. Len(r.socket.written) : r.requests[0 + i].kind = "write"
    BY <1>2 DEF Current
  <2>2. r \in Runtimes /\ Len(r.socket.written) \in Nat
    BY RuntimeFacts, LenProperties DEF RuntimeOK
  <2>3. \A i \in 1 .. Len(r.requests) :
          i \in 0 + 1 .. Len(r.requests) /\ 0 + i = i /\ i \in 1 .. Len(r.socket.written)
    BY <2>1, <2>2
  <2> QED
    BY <2>1, <2>3
<1>5. e \in NetEvents /\ e.name = "gnex.disconnect" /\ e.socket = 0 /\ e.value = 10
  BY DEF NetEvents
<1>6. u = Notify(rest, e.name, e.socket, e.value)
  BY <1>5
<1> HIDE DEF e, u, rest
<1>7. RuntimeOK(u) /\ u.requests = rest.requests /\ u.connection = r.connection /\ u \in Runtimes
  BY <1>1, <1>5, <1>6, NotifyStep DEF RuntimeOK
<1>7a. u.nextRequest = rest.nextRequest /\ u.nextConnection = rest.nextConnection
  BY <1>1, <1>5, <1>6, NotifyFields DEF RuntimeOK
<1>8. RuntimeOK(t)
  BY <1>7, DiscardRuntime
<1>9. /\ t \in Runtimes /\ t.socket = NoSocket /\ t.connection = 0
      /\ t.nextConnection = u.nextConnection /\ t.nextRequest = u.nextRequest
      /\ t.requests = Pick(u.requests, K)
  BY <1>7, DiscardFields
<1>10. K = {}
  <2>1. DOMAIN u.requests = 1 .. Len(rest.requests)
    BY <1>7, RuntimeFacts
  <2>2. \A i \in 1 .. Len(rest.requests) : rest.requests[i].connection = r.connection
    BY <1>1, <1>4
  <2> QED
    BY <1>3, <1>7, <2>1, <2>2
<1>11. Len(t.requests) = 0
  <2>1. u.requests \in Seq(NetRequests) /\ K \in SUBSET DOMAIN u.requests
    BY <1>7, RuntimeFacts
  <2>2. Len(Pick(u.requests, K)) = Cardinality(K)
    BY <2>1, PickFacts
  <2> QED
    BY <1>9, <1>10, <2>2, FS_EmptySet
<1> HIDE DEF t, K
<1>12. QueueOK(t)
  <2>1. Current(t, 0)
    BY <1>9, <1>11, NoSocketFacts DEF Current
  <2> QED
    BY <1>11, <2>1 DEF QueueOK, Numbered
<1>13. Follows(r, t)
  <2>1. r \in Runtimes /\ r.nextRequest \in Nat /\ r.nextConnection \in Nat
    BY RuntimeFacts DEF RuntimeOK
  <2> QED
    BY <1>1, <1>7a, <1>9, <1>11, <2>1 DEF Follows
<1>14. CarriesBut(r, t, r.connection)
  BY <1>4 DEF CarriesBut, Held, Told
<1> QED
  BY <1>8, <1>9, <1>12, <1>13, <1>14 DEF Quiet, t, u, rest

-----------------------------------------------------------------------------
(* The event loop. *)

LEMMA DispatchStep ==
  ASSUME NEW r, RuntimeOK(r), QueueOK(r), r.events # <<>>
  PROVE  LET e == Head(r.events)
             t == [r EXCEPT !.events = Tail(@)]
         IN  /\ Steps(r, t) /\ t.socket = r.socket /\ t.connection = r.connection
             /\ e \in NetEvents
             /\ e.name \in {"connect", "read"} => r.socket.id # 0 /\ e.socket = r.socket.id
             /\ e.name = "connect" /\ e.value # 1 => r.socket.state = "closed"
             /\ e.name = "read" => e.value = 1 /\ Len(r.socket.read) >= 1
             /\ \A i \in 1 .. Len(r.events) :
                  r.events[i] = e \/ \E j \in 1 .. Len(t.events) : t.events[j] = r.events[i]
<1> DEFINE e == Head(r.events)
           x == Tail(r.events)
           t == [r EXCEPT !.events = x]
<1>1. /\ r \in Runtimes /\ SocketOK(r) /\ EventsOK(r)
      /\ r.events \in Seq(NetEvents) /\ Len(r.events) \in Nat
      /\ \A i \in 1 .. Len(r.events) : r.events[i] \in NetEvents
  BY RuntimeFacts DEF RuntimeOK
<1>2. /\ x \in Seq(NetEvents) /\ Len(x) \in Nat /\ Len(r.events) = Len(x) + 1
      /\ \A i \in 1 .. Len(x) : x[i] = r.events[i + 1]
      /\ e = r.events[1] /\ 1 \in 1 .. Len(r.events)
  <2>1. Len(r.events) >= 1
    BY <1>1, EmptySeq
  <2>2. x \in Seq(NetEvents) /\ Len(x) = Len(r.events) - 1 /\ e = r.events[1]
    BY <1>1, HeadTailProperties
  <2>3. \A i \in 1 .. Len(x) : x[i] = r.events[i + 1]
    BY <1>1, HeadTailProperties
  <2> DEFINE m == Len(x)
             n == Len(r.events)
  <2>4. n \in Nat /\ n >= 1 /\ m = n - 1
    BY <1>1, <2>1, <2>2
  <2> HIDE DEF x, e, m, n
  <2>5. m \in Nat /\ n = m + 1 /\ 1 \in 1 .. n
    BY <2>4
  <2> QED
    BY <2>2, <2>3, <2>5, Zenon DEF m, n
<1>3. e.name = "read" => Len(r.socket.read) >= 1
  BY <1>1, FirstEvent
<1> HIDE DEF x
<1>4. /\ t \in Runtimes /\ t.socket = r.socket /\ t.sockets = r.sockets
      /\ t.connection = r.connection /\ t.nextConnection = r.nextConnection
      /\ t.nextRequest = r.nextRequest /\ t.requests = r.requests /\ t.events = x
  BY <1>1, <1>2, EventsFields
<1>5. EventsOK(t)
  <2>1. Len(r.socket.read) \in Nat
    BY <1>1, ReadCount
  <2>2. Len(t.socket.read) >= Len(r.socket.read)
    BY <1>4, <2>1
  <2>3. t.events = Tail(r.events) /\ t.socket.id = r.socket.id /\ t.socket.state = r.socket.state
    BY <1>4 DEF x
  <2> HIDE DEF t
  <2> QED
    BY <1>1, <1>4, <2>2, <2>3, RestOfEvents
<1>6. SocketOK(t)
  BY <1>1, <1>4 DEF SocketOK
<1>7. QueueOK(t) /\ Follows(r, t) /\ Carries(r, t)
  BY <1>1, <1>4, SameQueue
<1> HIDE DEF t, e
<1>8. /\ e.name \in {"connect", "read"} => r.socket.id # 0 /\ e.socket = r.socket.id
      /\ e.name = "connect" /\ e.value # 1 => r.socket.state = "closed"
      /\ e.name = "read" => e.value = 1
      /\ e \in NetEvents
  BY <1>1, <1>2 DEF EventsOK
<1>9. ASSUME NEW i \in 1 .. Len(r.events)
      PROVE  r.events[i] = e \/ \E j \in 1 .. Len(t.events) : t.events[j] = r.events[i]
  <2>1. CASE i = 1
    BY <1>2, <2>1
  <2>2. CASE i # 1
    <3> DEFINE j == i - 1
    <3>1. j \in 1 .. Len(x) /\ j + 1 = i
      BY <1>1, <1>2, <2>2
    <3> HIDE DEF j
    <3> QED
      BY <1>2, <1>4, <3>1
  <2> QED
    BY <2>1, <2>2
<1> QED
  BY <1>3, <1>4, <1>5, <1>6, <1>7, <1>8, <1>9 DEF Steps, RuntimeOK, t, e, x

\* The bytes an event announced are taken.
LEMMA TakeStep ==
  ASSUME NEW r, RuntimeOK(r), QueueOK(r), r.events # <<>>, Head(r.events).name = "read"
  PROVE  LET u == [r EXCEPT !.events = Tail(@)]
             t == [u EXCEPT !.socket.read = Tail(@)]
         IN  /\ Steps(r, t) /\ t.socket.state = r.socket.state
             /\ t.events = u.events
<1> DEFINE u == [r EXCEPT !.events = Tail(@)]
           y == Tail(r.socket.read)
           t == [u EXCEPT !.socket.read = y]
<1>1. /\ Steps(r, u) /\ u.socket = r.socket /\ Len(r.socket.read) >= 1
  BY DispatchStep
<1>2. /\ r \in Runtimes /\ SocketOK(r) /\ EventsOK(r) /\ u \in Runtimes
      /\ r.socket.read \in Seq(Nat \X Nat) /\ r.events \in Seq(NetEvents)
  BY <1>1, RuntimeFacts DEF RuntimeOK, Steps
<1>2a. Tail(r.events) \in Seq(NetEvents)
  BY <1>2, HeadTailProperties
<1>3. /\ u.sockets = r.sockets /\ u.events = Tail(r.events)
      /\ u.connection = r.connection /\ u.nextConnection = r.nextConnection
      /\ u.nextRequest = r.nextRequest /\ u.requests = r.requests
  BY <1>2, <1>2a, EventsFields
<1>4. /\ y \in Seq(Nat \X Nat) /\ Len(y) \in Nat /\ Len(y) >= Len(r.socket.read) - 1
  <2>1. r.socket.read # <<>> /\ Len(r.socket.read) \in Nat
    BY <1>1, <1>2, EmptySeq, LenProperties
  <2>2. y \in Seq(Nat \X Nat) /\ Len(y) = Len(r.socket.read) - 1
    BY <1>2, <2>1, HeadTailProperties
  <2> HIDE DEF y
  <2> QED
    BY <1>1, <2>1, <2>2
<1> HIDE DEF u, y
<1>5. t = [u EXCEPT !.socket.read = Tail(@)]
  BY <1>1 DEF y
<1>6. /\ t \in Runtimes
      /\ t.socket.id = u.socket.id /\ t.socket.local = u.socket.local
      /\ t.socket.state = u.socket.state /\ t.socket.written = u.socket.written
      /\ t.socket.read = y
      /\ t.connection = u.connection /\ t.nextConnection = u.nextConnection
      /\ t.nextRequest = u.nextRequest /\ t.requests = u.requests
      /\ t.events = u.events
  <2>1. u \in Runtimes /\ y \in Seq(Nat \X Nat)
    BY <1>2, <1>4
  <2> QED
    BY <2>1, ReadFields
<1> HIDE DEF t
<1>7. /\ t.socket.id = r.socket.id /\ t.socket.local = r.socket.local
      /\ t.socket.state = r.socket.state /\ t.socket.written = r.socket.written
      /\ t.socket.read = y
      /\ t.connection = r.connection /\ t.nextConnection = r.nextConnection
      /\ t.nextRequest = r.nextRequest /\ t.requests = r.requests
      /\ t.events = Tail(r.events)
  BY <1>1, <1>3, <1>6
<1>8. EventsOK(t)
  <2>1. Len(t.socket.read) >= Len(r.socket.read) - 1
    BY <1>4, <1>7, Zenon
  <2> QED
    BY <1>2, <1>6, <1>7, <2>1, RestOfEvents
<1>9. SocketOK(t)
  <2>1. t.socket.id # 0
    BY <1>7, DispatchStep
  <2> QED
    BY <1>2, <1>7, <2>1 DEF SocketOK
<1>10. QueueOK(t) /\ Follows(r, t) /\ Carries(r, t)
  BY <1>2, <1>6, <1>7, SameQueue
<1> QED
  BY <1>5, <1>6, <1>7, <1>8, <1>9, <1>10 DEF Steps, RuntimeOK, u

-----------------------------------------------------------------------------
(* The steps of the machine. *)

HostTypes(s, o) ==
  /\ s \subseteq [session : Nat, request : NetRequests]
  /\ o \subseteq [session : Nat, connection : Nat \ {0}]

LEMMA GoNet ==
  ASSUME NetInv, machine = "running", NEW t, NEW next \in {"idle", "main", "guest", "dispatch"},
         Go(t, next), RuntimeOK(t), QueueOK(t), ClosedOK(t, next),
         HostTypes(seen', open')
  PROVE  NetInv'
<1>1. /\ runtime' = t /\ phase' = next /\ machine' = machine
      /\ savedRuntime' = savedRuntime /\ session' = session
  BY DEF Go
<1>2. RuntimeOK(runtime') /\ QueueOK(runtime') /\ ClosedOK(runtime', phase')
  BY <1>1
<1> QED
  BY <1>1, <1>2 DEF NetInv, HostTypes

LEMMA FaultNet ==
  ASSUME NetInv, NEW t, NEW reason, Fault(t, reason), RuntimeOK(t), HostTypes(seen', open')
  PROVE  NetInv'
<1>1. /\ runtime' = t /\ phase' = "idle" /\ machine' = "faulted"
      /\ savedRuntime' = savedRuntime /\ session' = session
  BY DEF Fault
<1>2. RuntimeOK(runtime')
  BY <1>1
<1> QED
  BY <1>1, <1>2 DEF NetInv, HostTypes

LEMMA GoHost ==
  ASSUME NetInv, HostInv, machine = "running", NEW t, NEW next, Go(t, next),
         RuntimeOK(t), Follows(runtime, t), seen' = seen,
         \A o \in open' : o.session = session /\ Held(t, o.connection)
  PROVE  HostInv'
<1>1. /\ runtime' = t /\ machine' = machine /\ session' = session /\ fault' = fault
  BY DEF Go
<1>2. /\ t \in Runtimes /\ runtime \in Runtimes
      /\ t.nextRequest \in Nat /\ runtime.nextRequest \in Nat
  BY RuntimeFacts DEF NetInv, RuntimeOK
<1>3. ASSUME NEW s \in seen
      PROVE  /\ s.session = session /\ s.request.sequence < t.nextRequest
             /\ \A i \in 1 .. Len(t.requests) :
                  t.requests[i].sequence = s.request.sequence => t.requests[i] = s.request
  <2>1. /\ s.session = session /\ s.request.sequence < runtime.nextRequest
        /\ \A i \in 1 .. Len(runtime.requests) :
             runtime.requests[i].sequence = s.request.sequence => runtime.requests[i] = s.request
    BY DEF HostInv, SeenOK
  <2>2. s.request.sequence \in Nat
    BY DEF NetInv, NetRequests
  <2>3. s.request.sequence < t.nextRequest
    BY <1>2, <2>1, <2>2 DEF Follows
  <2>4. ASSUME NEW i \in 1 .. Len(t.requests), t.requests[i].sequence = s.request.sequence
        PROVE  t.requests[i] = s.request
    <3>1. \/ \E j \in 1 .. Len(runtime.requests) : t.requests[i] = runtime.requests[j]
          \/ t.requests[i].sequence >= runtime.nextRequest
      BY DEF Follows
    <3>2. ~(t.requests[i].sequence >= runtime.nextRequest)
      BY <1>2, <2>1, <2>2, <2>4
    <3> QED
      BY <2>1, <2>4, <3>1, <3>2
  <2> QED
    BY <2>1, <2>3, <2>4
<1>4. SeenOK'
  BY <1>1, <1>3 DEF SeenOK
<1>5. OpenOK'
  <2>1. \A o \in open' : o.session = session' /\ Held(runtime', o.connection)
    BY <1>1
  <2> QED
    BY <1>1, <2>1 DEF OpenOK
<1> QED
  BY <1>1, <1>4, <1>5 DEF HostInv

LEMMA FaultHost ==
  ASSUME NetInv, HostInv, NEW t, Fault(t, "limit"), seen' = seen,
         \A o \in open' : o.session = session
  PROVE  HostInv'
<1>1. machine' = "faulted" /\ session' = session /\ fault' = "limit"
  BY DEF Fault
<1> QED
  BY <1>1 DEF HostInv, SeenOK, OpenOK

\* A step the host has no part in.
LEMMA GoStays ==
  ASSUME NetInv, machine = "running", NEW t, NEW next \in {"idle", "main", "guest", "dispatch"},
         Go(t, next), Steps(runtime, t), ClosedOK(t, next), HostKnows
  PROVE  NetInv' /\ (HostInv => HostInv')
<1>1. RuntimeOK(t) /\ QueueOK(t) /\ Follows(runtime, t) /\ Carries(runtime, t)
  BY DEF Steps
<1>2. HostTypes(seen', open') /\ seen' = seen /\ open' = open
  BY DEF HostKnows, HostTypes, NetInv
<1>3. NetInv'
  BY <1>1, <1>2, GoNet
<1>4. HostInv => \A o \in open' : o.session = session /\ Held(t, o.connection)
  <2> SUFFICES ASSUME HostInv, NEW o \in open
               PROVE  o.session = session /\ Held(t, o.connection)
    BY <1>2
  <2>1. o.connection \in Nat \ {0}
    BY DEF NetInv
  <2>2. o.session = session /\ Held(runtime, o.connection)
    BY DEF HostInv, OpenOK
  <2> QED
    BY <1>1, <2>1, <2>2 DEF Carries
<1> QED
  BY <1>1, <1>2, <1>3, <1>4, GoHost

LEMMA FaultStays ==
  ASSUME NetInv, NEW t, Fault(t, "limit"), RuntimeOK(t), HostKnows
  PROVE  NetInv' /\ (HostInv => HostInv')
<1>1. HostTypes(seen', open') /\ seen' = seen /\ open' = open
  BY DEF HostKnows, HostTypes, NetInv
<1>2. NetInv'
  BY <1>1, FaultNet
<1>3. HostInv => \A o \in open' : o.session = session
  BY <1>1 DEF HostInv, OpenOK
<1> QED
  BY <1>1, <1>2, <1>3, FaultHost

LEMMA RunningFacts ==
  ASSUME NetInv, machine = "running"
  PROVE  /\ RuntimeOK(runtime) /\ QueueOK(runtime) /\ ClosedOK(runtime, phase)
         /\ runtime \in Runtimes /\ Steps(runtime, runtime)
<1>1. RuntimeOK(runtime) /\ QueueOK(runtime) /\ ClosedOK(runtime, phase) /\ runtime \in Runtimes
  BY DEF NetInv, RuntimeOK
<1>2. Steps(runtime, runtime)
  BY <1>1, RuntimeFacts DEF Steps, Follows, Carries
<1> QED
  BY <1>1, <1>2

LEMMA GuestRuns ==
  ASSUME NetInv, InGuest
  PROVE  machine = "running" /\ phase \in {"main", "guest"}
BY DEF NetInv, InGuest

LEMMA NetConnectKeeps ==
  ASSUME NetInv, NEW local \in BOOLEAN, NetConnect(local)
  PROVE  NetInv' /\ (HostInv => HostInv')
<1> DEFINE r == runtime
           stopped == DiscardThenTell(r)
           state == IF local THEN "connected" ELSE "connecting"
           socket == [NoSocket EXCEPT !.id = r.sockets + 1, !.local = local, !.state = state]
           n == stopped.sockets + 1
           opened == [stopped EXCEPT !.socket = socket, !.sockets = n]
           numbered == [opened EXCEPT !.connection = opened.nextConnection,
                                      !.nextConnection = @ + 1]
           without(v) == [v EXCEPT !.socket = NoSocket, !.connection = 0]
<1>1. machine = "running" /\ phase \in {"main", "guest"} /\ HostKnows
  BY GuestRuns DEF NetConnect
<1>2. RuntimeOK(r) /\ QueueOK(r) /\ r \in Runtimes /\ r.sockets \in Nat
  BY <1>1, RunningFacts, RuntimeFacts
<1>3. Quiet(stopped) /\ Follows(r, stopped) /\ Carries(r, stopped)
  BY <1>2, TellStep
<1>4. stopped \in Runtimes /\ RuntimeOK(stopped) /\ stopped.sockets \in Nat /\ n \in Nat
      /\ stopped.nextConnection \in Nat
  BY <1>3, RuntimeFacts DEF Quiet, RuntimeOK
<1>5. /\ socket \in Sockets /\ socket.id = r.sockets + 1 /\ socket.local = local
      /\ socket.state = state /\ socket.written = <<>>
  <2> DEFINE id == r.sockets + 1
  <2>1. id \in Nat /\ state \in {"connecting", "connected"}
    BY <1>2
  <2> HIDE DEF id, state
  <2>2. LET s == [NoSocket EXCEPT !.id = id, !.local = local, !.state = state]
        IN  /\ s \in Sockets /\ s.id = id /\ s.local = local /\ s.state = state
            /\ s.written = NoSocket.written
    BY <2>1, NoSocketFacts DEF Sockets
  <2> QED
    BY <2>2, NoSocketFacts DEF id
<1>6. socket.id # 0
  BY <1>2, <1>5
<1>7. \/ ~CanStop(r) /\ Fault(Discard(r), "limit")
      \/ /\ CanStop(r) /\ local
         /\ IF BusHasRoom(opened) THEN Go(Notify(opened, "connect", socket.id, 1), phase)
            ELSE Fault(without(opened), "limit")
      \/ /\ CanStop(r) /\ ~local
         /\ IF QueueHasRoom(numbered)
              THEN Go(Enqueue(numbered, "connect", numbered.connection, <<>>), phase)
              ELSE Fault(without(numbered), "limit")
  BY Zenon DEF NetConnect
<1> HIDE DEF stopped, socket, n
<1>8. /\ opened \in Runtimes /\ opened.events = stopped.events
      /\ opened.nextConnection = stopped.nextConnection
  BY <1>4, <1>5 DEF Runtimes
<1>9. numbered \in Runtimes /\ numbered.events = stopped.events
  <2> DEFINE c == opened.nextConnection
             m == opened.nextConnection + 1
             v == [opened EXCEPT !.connection = c, !.nextConnection = m]
  <2>1. c \in Nat /\ m \in Nat \ {0} /\ numbered = v
    BY <1>4, <1>8
  <2> HIDE DEF opened, c, m
  <2>2. v \in Runtimes /\ v.events = opened.events
    BY <1>8, <2>1 DEF Runtimes
  <2> QED
    BY <1>8, <2>1, <2>2
<1> HIDE DEF opened, numbered
<1>10. ASSUME NEW v \in Runtimes, v.events = stopped.events
       PROVE  RuntimeOK(without(v))
  <2> DEFINE t == without(v)
             none == NoSocket
             z == 0
  <2>1. none \in Sockets /\ z \in Nat /\ t = [v EXCEPT !.socket = none, !.connection = z]
    BY NoSocketFacts
  <2> HIDE DEF t, none, z
  <2>2. t \in Runtimes /\ t.socket = none /\ t.connection = z /\ t.events = v.events
    BY <2>1 DEF Runtimes
  <2>3. RuntimeOK(t)
    BY <1>3, <1>10, <2>2, BareRuntime DEF none, z
  <2> QED
    BY <2>3 DEF t
<1>11. CASE ~CanStop(r) /\ Fault(Discard(r), "limit")
  BY <1>1, <1>2, <1>11, DiscardRuntime, FaultStays
<1>12. CASE local /\ BusHasRoom(opened) /\ Go(Notify(opened, "connect", socket.id, 1), phase)
  <2> DEFINE t == Notify(opened, "connect", socket.id, 1)
  <2>1. Steps(stopped, t) /\ t.socket.state = "connected"
    BY <1>3, <1>4, <1>5, <1>6, <1>12, LocalStep DEF opened
  <2>2. Steps(r, t)
    BY <1>2, <1>3, <1>4, <2>1, StepsCompose
  <2>3. ClosedOK(t, phase) /\ Go(t, phase)
    BY <1>12, <2>1 DEF ClosedOK
  <2> HIDE DEF t
  <2> QED
    BY <1>1, <2>2, <2>3, GoStays
<1>13. CASE Fault(without(opened), "limit")
  <2> DEFINE t == without(opened)
  <2>1. RuntimeOK(t) /\ Fault(t, "limit")
    BY <1>8, <1>10, <1>13
  <2> HIDE DEF t
  <2> QED
    BY <1>1, <2>1, FaultStays
<1>14. CASE ~local /\ Go(Enqueue(numbered, "connect", numbered.connection, <<>>), phase)
  <2> DEFINE t == Enqueue(numbered, "connect", numbered.connection, <<>>)
  <2>1. Steps(stopped, t) /\ t.socket.state = "connecting"
    BY <1>3, <1>4, <1>5, <1>6, <1>14, RemoteStep DEF opened, numbered
  <2>2. Steps(r, t)
    BY <1>2, <1>3, <1>4, <2>1, StepsCompose
  <2>3. ClosedOK(t, phase) /\ Go(t, phase)
    BY <1>14, <2>1 DEF ClosedOK
  <2> HIDE DEF t
  <2> QED
    BY <1>1, <2>2, <2>3, GoStays
<1>15. CASE Fault(without(numbered), "limit")
  <2> DEFINE t == without(numbered)
  <2>1. RuntimeOK(t) /\ Fault(t, "limit")
    BY <1>9, <1>10, <1>15
  <2> HIDE DEF t
  <2> QED
    BY <1>1, <2>1, FaultStays
<1> QED
  BY <1>7, <1>11, <1>12, <1>13, <1>14, <1>15

LEMMA NetDisconnectKeeps ==
  ASSUME NetInv, NetDisconnect
  PROVE  NetInv' /\ (HostInv => HostInv')
<1> DEFINE r == runtime
           value == IF r.socket # NoSocket THEN 9 ELSE 10
           e == [name |-> "gnex.disconnect", socket |-> 0, value |-> value]
           announced == Notify(r, "gnex.disconnect", 0, value)
<1>1. machine = "running" /\ phase \in {"main", "guest"} /\ HostKnows
  BY GuestRuns DEF NetDisconnect
<1>2. RuntimeOK(r) /\ QueueOK(r) /\ ClosedOK(r, phase) /\ r \in Runtimes
      /\ r.events \in Seq(NetEvents) /\ Len(r.events) \in Nat
  BY <1>1, RunningFacts, RuntimeFacts
<1>3. e \in NetEvents /\ e.name = "gnex.disconnect" /\ e.socket = 0 /\ e.value = value
  BY DEF NetEvents
<1>4. announced = Notify(r, e.name, e.socket, e.value)
  BY <1>3
<1>5. \/ Fault(r, "limit")
      \/ r.socket = NoSocket /\ Go(announced, phase)
      \/ Go(DiscardThenTell(announced), phase)
      \/ Fault(Discard(announced), "limit")
  BY DEF NetDisconnect
<1> HIDE DEF e, announced, value
<1>6. /\ RuntimeOK(announced) /\ QueueOK(announced) /\ announced.socket = r.socket
      /\ Follows(r, announced) /\ Carries(r, announced)
  BY <1>2, <1>3, <1>4, NotifyStep
<1>7. CASE Fault(r, "limit")
  BY <1>1, <1>2, <1>7, FaultStays
<1>8. CASE r.socket = NoSocket /\ Go(announced, phase)
  <2>1. Steps(r, announced)
    BY <1>6 DEF Steps
  <2>2. ClosedOK(announced, phase)
    BY <1>6, <1>8, NoSocketFacts DEF ClosedOK
  <2> QED
    BY <1>1, <1>8, <2>1, <2>2, GoStays
<1>9. CASE Go(DiscardThenTell(announced), phase)
  <2> DEFINE t == DiscardThenTell(announced)
  <2>1. Quiet(t) /\ Follows(announced, t) /\ Carries(announced, t)
    BY <1>6, TellStep
  <2>2. Steps(announced, t)
    BY <2>1 DEF Steps, Quiet
  <2>3. Steps(r, t)
    BY <1>2, <1>6, <2>2, StepsCompose
  <2>4. ClosedOK(t, phase) /\ Go(t, phase)
    BY <1>9, <2>1, NoSocketFacts DEF ClosedOK, Quiet
  <2> HIDE DEF t
  <2> QED
    BY <1>1, <2>3, <2>4, GoStays
<1>10. CASE Fault(Discard(announced), "limit")
  BY <1>1, <1>6, <1>10, DiscardRuntime, FaultStays
<1> QED
  BY <1>5, <1>7, <1>8, <1>9, <1>10

LEMMA NetSendKeeps ==
  ASSUME NetInv, NEW packet \in Packets, NetSend(packet)
  PROVE  NetInv' /\ (HostInv => HostInv')
<1> DEFINE r == runtime
           written == [r EXCEPT !.socket.written = Append(@, packet)]
           sent == Enqueue(written, "write", r.connection, packet)
           answered == Notify([r EXCEPT !.socket.read = Append(@, <<session, 0>>)],
                              "read", r.socket.id, 1)
<1>1. machine = "running" /\ phase \in {"main", "guest"} /\ HostKnows
      /\ r.socket.state = "connected"
  BY GuestRuns DEF NetSend
<1>2. RuntimeOK(r) /\ QueueOK(r) /\ r \in Runtimes
  BY <1>1, RunningFacts
<1>3. r.socket.id # 0
  BY <1>1, <1>2, ConnectedSocket
<1>4. \/ Fault(r, "limit")
      \/ ~r.socket.local /\ Go(sent, phase)
      \/ Go(answered, phase)
  BY Zenon DEF NetSend
<1>5. CASE Fault(r, "limit")
  BY <1>1, <1>2, <1>5, FaultStays
<1>6. CASE ~r.socket.local /\ Go(sent, phase)
  <2>1. Steps(r, sent) /\ sent.socket.state = "connected"
    BY <1>1, <1>2, <1>6, SendStep
  <2> HIDE DEF sent
  <2>2. ClosedOK(sent, phase)
    BY <2>1 DEF ClosedOK
  <2> QED
    BY <1>1, <1>6, <2>1, <2>2, GoStays
<1>7. CASE Go(answered, phase)
  <2>1. <<session, 0>> \in Nat \X Nat
    BY DEF NetInv
  <2>2. /\ RuntimeOK(answered) /\ answered.socket.state = "connected"
        /\ QueueOK(answered) /\ Follows(r, answered) /\ Carries(r, answered)
    BY <1>1, <1>2, <1>3, <2>1, ArrivalStep
  <2> HIDE DEF answered
  <2>3. ClosedOK(answered, phase) /\ Steps(r, answered)
    BY <2>2 DEF ClosedOK, Steps
  <2> QED
    BY <1>1, <1>7, <2>3, GoStays
<1> QED
  BY <1>4, <1>5, <1>6, <1>7

LEMMA GuestReturnsKeeps ==
  ASSUME NetInv, GuestReturns
  PROVE  NetInv' /\ (HostInv => HostInv')
<1> DEFINE next == IF phase = "main" THEN "idle" ELSE "dispatch"
<1>1. machine = "running" /\ phase \in {"main", "guest"} /\ HostKnows /\ Go(runtime, next)
  BY GuestRuns DEF GuestReturns
<1>2. ClosedOK(runtime, phase) /\ Steps(runtime, runtime)
  BY <1>1, RunningFacts
<1>3. next \in {"idle", "main", "guest", "dispatch"} /\ ClosedOK(runtime, next)
  BY <1>1, <1>2 DEF ClosedOK
<1> HIDE DEF next
<1> QED
  BY <1>1, <1>2, <1>3, GoStays

\* The machine stops.
LEMMA StopKeeps ==
  ASSUME NetInv, machine' = "stopped", phase' = "idle", runtime' = StopNetwork(runtime),
         UNCHANGED <<savedRuntime, fault, session, seen, open>>
  PROVE  NetInv' /\ (HostInv => HostInv')
<1>1. Quiet(runtime')
  BY StopStep DEF NetInv
<1>2. RuntimeOK(runtime') /\ QueueOK(runtime') /\ ClosedOK(runtime', phase')
  BY <1>1, NoSocketFacts DEF Quiet, ClosedOK
<1>3. NetInv'
  BY <1>2 DEF NetInv
<1>4. HostInv => HostInv'
  BY DEF HostInv, SeenOK, OpenOK
<1> QED
  BY <1>3, <1>4

LEMMA DispatchKeeps ==
  ASSUME NetInv, Dispatch
  PROVE  NetInv' /\ (HostInv => HostInv')
<1> DEFINE r == runtime
           e == Head(r.events)
           rest == [r EXCEPT !.events = Tail(@)]
           taken == [rest EXCEPT !.socket.read = Tail(@)]
<1>1. machine = "running" /\ phase = "dispatch" /\ HostKnows
  BY DEF Dispatch, NetInv
<1>2. RuntimeOK(r) /\ QueueOK(r) /\ ClosedOK(r, phase) /\ r \in Runtimes /\ Steps(r, r)
  BY <1>1, RunningFacts
<1>3. CASE r.events = <<>>
  <2>1. Go(r, "idle")
    BY <1>3 DEF Dispatch
  <2>2. Len(r.events) = 0
    BY <1>3
  <2>3. ClosedOK(r, "idle")
    BY <1>2, <2>2 DEF ClosedOK
  <2> QED
    BY <1>1, <1>2, <2>1, <2>3, GoStays
<1>4. CASE r.events # <<>>
  <2>1. /\ Steps(r, rest) /\ rest.socket = r.socket /\ rest.connection = r.connection
        /\ e \in NetEvents
        /\ e.name \in {"connect", "read"} => e.socket = rest.socket.id
        /\ e.name = "connect" /\ e.value # 1 => r.socket.state = "closed"
        /\ e.name = "read" => e.value = 1 /\ Len(r.socket.read) >= 1
        /\ \A i \in 1 .. Len(r.events) :
             r.events[i] = e \/ \E j \in 1 .. Len(rest.events) : rest.events[j] = r.events[i]
    BY <1>2, <1>4, DispatchStep
  <2>2. Len(rest.socket.read) \in Nat
    <3>1. rest \in Runtimes
      BY <2>1 DEF Steps, RuntimeOK
    <3> QED
      BY <3>1, ReadCount
  <2>3. e.name \in {"connect", "read", "input", "gnex.disconnect"}
    BY <2>1 DEF NetEvents
  <2>4. ~(Len(rest.socket.read) < e.value) \/ e.name # "read"
    BY <2>1, <2>2
  <2>5. CASE e.name \in {"input", "gnex.disconnect"} \/ (e.name = "connect" /\ e.value = 1)
    <3>1. Go(rest, "guest")
      <4>1. CASE e.name \in {"input", "gnex.disconnect"}
        BY <1>4, <4>1 DEF Dispatch
      <4>2. CASE e.name = "connect" /\ e.value = 1
        BY <1>4, <2>1, <4>2 DEF Dispatch
      <4> QED
        BY <2>5, <4>1, <4>2
    <3> HIDE DEF rest, e
    <3>2. ClosedOK(rest, "guest")
      BY <1>2, <2>1, <2>5 DEF ClosedOK
    <3> QED
      BY <1>1, <2>1, <3>1, <3>2, GoStays
  <2>6. CASE e.name = "connect" /\ e.value # 1
    <3> DEFINE t == Discard(rest)
    <3>1. Go(t, "guest")
      BY <1>4, <2>1, <2>6 DEF Dispatch
    <3> HIDE DEF rest, e
    <3>2. rest \in Runtimes /\ RuntimeOK(rest) /\ QueueOK(rest) /\ rest.socket.state = "closed"
      BY <2>1, <2>6 DEF Steps, RuntimeOK
    <3>3. Quiet(t) /\ Follows(rest, t) /\ \A n \in Nat : Told(rest, n) => Told(t, n)
      BY <3>2, DiscardStep
    <3>4. Steps(rest, t)
      BY <3>2, <3>3 DEF Steps, Quiet, Carries, Held
    <3>5. Steps(r, t)
      BY <1>2, <2>1, <3>2, <3>4, StepsCompose DEF Steps
    <3>6. ClosedOK(t, "guest")
      BY <3>3, NoSocketFacts DEF ClosedOK, Quiet
    <3> HIDE DEF t
    <3> QED
      BY <1>1, <3>1, <3>5, <3>6, GoStays
  <2>7. CASE e.name = "read"
    <3>1. Go(taken, "guest")
      BY <1>4, <2>1, <2>4, <2>7 DEF Dispatch
    <3>2. /\ Steps(r, taken) /\ taken.socket.state = r.socket.state
          /\ taken.events = rest.events
      BY <1>2, <1>4, <2>7, TakeStep
    <3> HIDE DEF rest, e, taken
    <3>3. ClosedOK(taken, "guest")
      BY <1>2, <2>1, <2>7, <3>2 DEF ClosedOK
    <3> QED
      BY <1>1, <3>1, <3>2, <3>3, GoStays
  <2> QED
    BY <2>3, <2>5, <2>6, <2>7
<1> QED
  BY <1>3, <1>4

\* The machine goes on with the same network.
LEMMA SameNetwork ==
  ASSUME NetInv, UNCHANGED <<runtime, savedRuntime, fault, session, seen, open>>,
         \/ machine = "ready" /\ phase = "idle" /\ machine' = "running" /\ phase' = "main"
         \/ machine = "running" /\ phase = "idle" /\ machine' = "paused" /\ phase' = "idle"
         \/ machine = "paused" /\ phase = "idle" /\ machine' = "running" /\ phase' = "idle"
  PROVE  NetInv' /\ (HostInv => HostInv')
<1>1. RuntimeOK(runtime) /\ QueueOK(runtime) /\ ClosedOK(runtime, "idle")
  BY DEF NetInv
<1>2. ClosedOK(runtime, phase')
  BY <1>1 DEF ClosedOK
<1>3. RuntimeOK(runtime') /\ QueueOK(runtime') /\ ClosedOK(runtime', phase')
  BY <1>1, <1>2
<1>4. NetInv'
  BY <1>3 DEF NetInv
<1>5. HostInv => SeenOK'
  BY DEF HostInv, SeenOK
<1>6. HostInv => OpenOK'
  <2> SUFFICES ASSUME HostInv PROVE OpenOK'
    OBVIOUS
  <2>1. machine \in {"running", "paused"} \/ open = {}
    BY DEF HostInv, OpenOK
  <2>2. \A c \in open : c.session = session /\ Held(runtime, c.connection)
    BY <2>1 DEF HostInv, OpenOK
  <2>3. \A c \in open' : c.session = session' /\ Held(runtime', c.connection)
    BY <2>2
  <2> QED
    BY <2>3 DEF OpenOK
<1> QED
  BY <1>4, <1>5, <1>6 DEF HostInv

LEMMA StepFrameKeeps ==
  ASSUME NetInv, StepFrame
  PROVE  NetInv' /\ (HostInv => HostInv')
<1>1. machine = "running" /\ phase = "idle" /\ HostKnows /\ Go(runtime, "guest")
  BY DEF StepFrame, Idle
<1>2. ClosedOK(runtime, phase) /\ Steps(runtime, runtime)
  BY <1>1, RunningFacts
<1>3. ClosedOK(runtime, "guest")
  BY <1>1, <1>2 DEF ClosedOK
<1> QED
  BY <1>1, <1>2, <1>3, GoStays

LEMMA QueueKeyKeeps ==
  ASSUME NetInv, QueueKey
  PROVE  NetInv' /\ (HostInv => HostInv')
<1> DEFINE r == runtime
           e == [name |-> "input", socket |-> 0, value |-> 0]
           t == Notify(r, "input", 0, 0)
<1>1. machine = "running" /\ phase = "idle" /\ HostKnows
      /\ (Go(t, "dispatch") \/ Fault(r, "limit"))
  BY DEF QueueKey, Idle
<1>2. RuntimeOK(r) /\ QueueOK(r) /\ ClosedOK(r, phase) /\ r \in Runtimes
  BY <1>1, RunningFacts
<1>3. e \in NetEvents /\ e.name = "input" /\ e.socket = 0 /\ e.value = 0
  BY DEF NetEvents
<1>4. t = Notify(r, e.name, e.socket, e.value)
  BY <1>3
<1> HIDE DEF e, t
<1>5. RuntimeOK(t) /\ t.socket = r.socket /\ QueueOK(t) /\ Follows(r, t) /\ Carries(r, t)
  BY <1>2, <1>3, <1>4, NotifyStep
<1>6. Steps(r, t) /\ ClosedOK(t, "dispatch")
  BY <1>1, <1>2, <1>5 DEF Steps, ClosedOK
<1>7. CASE Go(t, "dispatch")
  BY <1>1, <1>6, <1>7, GoStays
<1>8. CASE Fault(r, "limit")
  BY <1>1, <1>2, <1>8, FaultStays
<1> QED
  BY <1>1, <1>7, <1>8

LEMMA NewRuntimeQuiet == Quiet(NewRuntime)
<1> DEFINE r == NewRuntime
<1>1. /\ r \in Runtimes /\ r.socket = NoSocket /\ r.connection = 0 /\ r.nextConnection = 1
      /\ r.requests = <<>> /\ r.events = <<>>
  <2>1. <<>> \in Seq(NetRequests) /\ <<>> \in Seq(NetEvents)
    BY EmptySeq
  <2> QED
    BY <2>1, NoSocketFacts DEF NewRuntime, Runtimes
<1> HIDE DEF r
<1>2. Len(r.requests) = 0 /\ Len(r.events) = 0
  BY <1>1
<1>3. EventsOK(r)
  BY <1>1, <1>2, NoReads
<1>4. SocketOK(r)
  BY <1>1, NoSocketFacts DEF SocketOK
<1>5. Current(r, 0)
  BY <1>1, <1>2, NoSocketFacts DEF Current
<1>6. QueueOK(r)
  BY <1>2, <1>5 DEF QueueOK, Numbered
<1> QED
  BY <1>1, <1>3, <1>4, <1>6 DEF Quiet, RuntimeOK, r

LEMMA ReplaceKeeps ==
  ASSUME NetInv, NEW t, Quiet(t), NEW state \in {"ready", "paused", "stopped"}, Replace(t, state)
  PROVE  NetInv' /\ (HostForgets => HostInv')
<1>1. /\ runtime' = t /\ machine' = state /\ session' = session + 1 /\ fault' = "none"
      /\ phase' = "idle" /\ phase = "idle" /\ savedRuntime' = savedRuntime
      /\ HostForgets => seen' = {} /\ open' = {}
      /\ ~HostForgets => seen' = seen /\ open' = open
  BY DEF Replace, HostKnows
<1>2. HostForgets \in BOOLEAN
  BY TransportAssumption
<1>3. HostTypes(seen', open') /\ session' \in Nat
  BY <1>1, <1>2 DEF HostTypes, NetInv
<1>4. RuntimeOK(runtime') /\ QueueOK(runtime') /\ ClosedOK(runtime', phase')
  BY <1>1, NoSocketFacts DEF Quiet, ClosedOK
<1>5. NetInv'
  BY <1>1, <1>3, <1>4 DEF NetInv, HostTypes
<1>6. HostForgets => HostInv'
  BY <1>1 DEF HostInv, SeenOK, OpenOK
<1> QED
  BY <1>5, <1>6

LEMMA SaveStateKeeps ==
  ASSUME NetInv, SaveState
  PROVE  NetInv' /\ (HostInv => HostInv')
<1>1. /\ machine \in {"ready", "paused", "stopped"} /\ runtime.socket = NoSocket
      /\ savedRuntime' = [state |-> machine, runtime |-> runtime]
      /\ UNCHANGED <<machine, phase, runtime, fault, session, seen, open>>
  BY DEF SaveState, NetworkActive
<1>2. savedRuntime'.state = machine /\ savedRuntime'.runtime = runtime
  BY <1>1
<1>3. RuntimeOK(runtime) /\ QueueOK(runtime)
  BY <1>1 DEF NetInv
<1>4. /\ RuntimeOK(savedRuntime'.runtime) /\ QueueOK(savedRuntime'.runtime)
      /\ savedRuntime'.runtime.socket = NoSocket
      /\ savedRuntime'.state \in {"none", "ready", "paused", "stopped"}
  BY <1>1, <1>2, <1>3
<1>5. /\ machine' \in {"ready", "running", "paused", "stopped", "faulted"}
      /\ phase' \in {"idle", "main", "guest", "dispatch"}
      /\ phase' # "idle" => machine' = "running"
      /\ session' \in Nat
      /\ HostTypes(seen', open')
      /\ RuntimeOK(runtime')
      /\ machine' # "faulted" => QueueOK(runtime') /\ ClosedOK(runtime', phase')
  BY <1>1 DEF NetInv, HostTypes
<1>6. NetInv'
  BY <1>4, <1>5 DEF NetInv, HostTypes
<1>7. HostInv => HostInv'
  BY <1>1 DEF HostInv, SeenOK, OpenOK
<1> QED
  BY <1>6, <1>7

LEMMA NetworkRequestsKeeps ==
  ASSUME NetInv, NetworkRequests
  PROVE  NetInv' /\ (HostInv => HostInv')
<1> DEFINE r == runtime
           snapshot == {[session |-> session, request |-> r.requests[i]] : i \in DOMAIN r.requests}
<1>1. /\ seen' = seen \cup snapshot
      /\ UNCHANGED <<machine, phase, runtime, savedRuntime, fault, session, open>>
  BY DEF NetworkRequests
<1>2. /\ r \in Runtimes /\ session \in Nat
      /\ DOMAIN r.requests = 1 .. Len(r.requests)
      /\ \A i \in 1 .. Len(r.requests) : r.requests[i] \in NetRequests
      /\ r.nextRequest \in Nat
  BY RuntimeFacts DEF NetInv, RuntimeOK
<1>3. \A s \in snapshot : \E i \in 1 .. Len(r.requests) :
        s.session = session /\ s.request = r.requests[i]
  BY <1>2
<1>4. snapshot \subseteq [session : Nat, request : NetRequests]
  BY <1>2
<1> HIDE DEF snapshot
<1>5. NetInv'
  <2>1. HostTypes(seen', open')
    BY <1>1, <1>4 DEF NetInv, HostTypes
  <2> QED
    BY <1>1, <2>1 DEF NetInv, HostTypes
<1>6. HostInv => SeenOK'
  <2> SUFFICES ASSUME HostInv, NEW s \in seen'
               PROVE  /\ s.session = session
                      /\ machine \in {"ready", "running", "paused"} =>
                           /\ s.request.sequence < r.nextRequest
                           /\ \A i \in 1 .. Len(r.requests) :
                                r.requests[i].sequence = s.request.sequence =>
                                  r.requests[i] = s.request
    BY <1>1 DEF SeenOK
  <2>1. CASE s \in seen
    BY <2>1 DEF HostInv, SeenOK
  <2>2. CASE s \in snapshot
    <3>1. PICK j \in 1 .. Len(r.requests) : s.session = session /\ s.request = r.requests[j]
      BY <1>3, <2>2
    <3>2. CASE machine \in {"ready", "running", "paused"}
      <4>1. Numbered(r)
        BY <3>2 DEF NetInv, QueueOK
      <4>2. \A i \in 1 .. Len(r.requests) : r.requests[i].sequence \in Nat
        BY <1>2 DEF NetRequests
      <4>3. s.request.sequence < r.nextRequest
        BY <3>1, <4>1 DEF Numbered
      <4>4. ASSUME NEW i \in 1 .. Len(r.requests), r.requests[i].sequence = s.request.sequence
            PROVE  r.requests[i] = s.request
        <5>1. ~(i < j) /\ ~(j < i)
          BY <3>1, <4>1, <4>2, <4>4 DEF Numbered
        <5>2. i = j
          BY <5>1
        <5> QED
          BY <3>1, <5>2
      <4> QED
        BY <3>1, <4>3, <4>4
    <3> QED
      BY <3>1, <3>2
  <2> QED
    BY <1>1, <2>1, <2>2
<1>7. HostInv => OpenOK'
  BY <1>1 DEF HostInv, OpenOK
<1> QED
  BY <1>1, <1>5, <1>6, <1>7 DEF HostInv

LEMMA NeverToldCurrent ==
  ASSUME NEW r, RuntimeOK(r), QueueOK(r)
  PROVE  ~Told(r, r.connection)
<1>1. PICK k \in 0 .. Len(r.requests) : Current(r, k)
  BY DEF QueueOK
<1>2. Len(r.requests) \in Nat
  BY RuntimeFacts DEF RuntimeOK
<1>3. \A i \in 1 .. Len(r.requests) : i \in 1 .. k \/ i \in k + 1 .. Len(r.requests)
  BY <1>1, <1>2
<1>4. \A i \in 1 .. k : r.requests[i].connection # r.connection
  BY <1>1 DEF Current
<1>5. \A i \in k + 1 .. Len(r.requests) : r.requests[i].kind # "disconnect"
  BY <1>1, CurrentKinds
<1> QED
  BY <1>3, <1>4, <1>5 DEF Told

\* What the host still holds when it has given up one connection.
LEMMA DroppedOne ==
  ASSUME NetInv, HostInv, machine = "running", NEW t, NEW c, CarriesBut(runtime, t, c),
         NEW o \in open \ {[session |-> session, connection |-> c]}
  PROVE  o.session = session /\ Held(t, o.connection)
<1>1. o \in [session : Nat, connection : Nat \ {0}]
  BY DEF NetInv
<1>2. o.session = session /\ Held(runtime, o.connection)
  BY DEF HostInv, OpenOK
<1>3. o.connection # c
  <2>1. o = [session |-> o.session, connection |-> o.connection]
    BY <1>1
  <2> QED
    BY <1>2, <2>1
<1> QED
  BY <1>1, <1>2, <1>3 DEF CarriesBut

LEMMA CompleteKeeps ==
  ASSUME NetInv, NEW s \in seen, NEW success \in BOOLEAN, CompleteNetworkRequest(s, success)
  PROVE  NetInv' /\ (HostInv => HostInv')
<1> DEFINE r == runtime
           request == Head(r.requests)
           rest == [r EXCEPT !.requests = Tail(@)]
           state == IF success THEN "connected" ELSE "closed"
           value == IF success THEN 1 ELSE 0
           connected == [rest EXCEPT !.socket.state = state]
           notified == Notify(connected, "connect", r.socket.id, value)
           written == [rest EXCEPT !.socket.written = Tail(@)]
           dropped == Discard(Notify(rest, "gnex.disconnect", 0, 10))
           c == [session |-> s.session, connection |-> s.request.connection]
<1>1. /\ machine = "running" /\ phase = "idle" /\ r.requests # <<>>
      /\ request.sequence = s.request.sequence /\ seen' = seen
      /\ Answered(s, success)
  BY Zenon DEF CompleteNetworkRequest, Idle
<1>2. RuntimeOK(r) /\ QueueOK(r) /\ ClosedOK(r, "idle") /\ r \in Runtimes
  BY <1>1, RunningFacts
<1>3. /\ request = r.requests[1] /\ 1 \in 1 .. Len(r.requests) /\ request \in NetRequests
      /\ request.kind = "connect" => r.socket.state = "connecting"
      /\ request.kind = "write" =>
           /\ r.socket.state = "connected"
           /\ r.socket.written # <<>> /\ Head(r.socket.written) = request.data
  BY <1>1, <1>2, OldestRequest
<1>4. \/ /\ request.kind = "connect" /\ request.connection = r.connection
         /\ Go(notified, "dispatch") \/ Fault(r, "limit")
      \/ /\ request.kind = "write" /\ request.connection = r.connection /\ success
         /\ Go(written, "idle")
      \/ /\ request.kind = "write" /\ request.connection = r.connection /\ ~success
         /\ Go(dropped, "dispatch") \/ Fault(rest, "limit")
      \/ request.kind = "disconnect" /\ Go(rest, "idle")
  BY <1>3 DEF CompleteNetworkRequest
<1>5. s.session \in Nat /\ s.request \in NetRequests /\ s.request.connection \in Nat \ {0}
      /\ c \in [session : Nat, connection : Nat \ {0}]
  BY DEF NetInv, NetRequests
<1>6. HostInv => s.request = request /\ s.session = session
  BY <1>1, <1>3 DEF HostInv, SeenOK
<1>7. \/ open' = open \cup {c} /\ s.request.kind = "connect" /\ success
      \/ open' = open /\ s.request.kind \in {"connect", "write"}
                      /\ (s.request.kind = "write" <=> success)
      \/ open' = open \ {c} /\ (s.request.kind = "disconnect"
                                \/ (s.request.kind = "write" /\ ~success))
  <2> DEFINE kind == s.request.kind
  <2>1. kind \in {"connect", "write", "disconnect"}
    BY <1>5 DEF NetRequests
  <2>2. open' = CASE kind = "connect" /\ success -> open \cup {c}
                  [] kind = "connect" /\ ~success -> open
                  [] OTHER -> IF success /\ kind = "write" THEN open ELSE open \ {c}
    BY <1>1, Zenon DEF Answered
  <2> HIDE DEF kind, c
  <2>3. CASE kind = "connect" /\ success
    BY <2>2, <2>3 DEF kind
  <2>4. CASE kind = "connect" /\ ~success
    BY <2>2, <2>4 DEF kind
  <2>5. CASE kind # "connect"
    <3>1. open' = IF success /\ kind = "write" THEN open ELSE open \ {c}
      BY <2>2, <2>5, Zenon
    <3>2. CASE success /\ kind = "write"
      BY <3>1, <3>2 DEF kind
    <3>3. CASE ~(success /\ kind = "write")
      <4>1. open' = open \ {c}
        BY <3>1, <3>3
      <4>2. kind = "disconnect" \/ (kind = "write" /\ ~success)
        BY <2>1, <2>5, <3>3, Zenon
      <4> QED
        BY <4>1, <4>2, Zenon DEF kind
    <3> QED
      BY <3>2, <3>3
  <2> QED
    BY <2>3, <2>4, <2>5
<1>8. HostTypes(seen', open')
  BY <1>1, <1>5, <1>7 DEF HostTypes, NetInv
<1>9. RuntimeOK(rest)
  BY <1>1, <1>2, RestOfRequests
<1> HIDE DEF c
<1>10. HostInv => \A o \in open' : o.session = session
  BY <1>6, <1>7 DEF HostInv, OpenOK, c
<1>11. CASE Fault(r, "limit") \/ Fault(rest, "limit")
  <2> HIDE DEF rest
  <2> QED
    BY <1>1, <1>2, <1>8, <1>9, <1>10, <1>11, FaultNet, FaultHost
<1>12. CASE request.kind = "connect" /\ request.connection = r.connection /\ Go(notified, "dispatch")
  <2>1. /\ Steps(r, notified) /\ notified.connection = r.connection
        /\ notified.socket.state = state
        /\ ~success => \E i \in 1 .. Len(notified.events) :
             notified.events[i].name = "connect" /\ notified.events[i].value # 1
    BY <1>1, <1>2, <1>12, AnswerStep
  <2>2. success => state = "connected"
    OBVIOUS
  <2> HIDE DEF notified, state, request
  <2>3. ClosedOK(notified, "dispatch")
    BY <2>1, <2>2 DEF ClosedOK
  <2>4. RuntimeOK(notified) /\ QueueOK(notified) /\ Follows(r, notified) /\ Carries(r, notified)
    BY <2>1 DEF Steps
  <2>5. NetInv'
    BY <1>1, <1>8, <1>12, <2>3, <2>4, GoNet
  <2>6. ASSUME HostInv, NEW o \in open' PROVE o.session = session /\ Held(notified, o.connection)
    <3>1. CASE o \in open
      <4>1. o.connection \in Nat \ {0} /\ Held(r, o.connection) /\ o.session = session
        BY <1>1, <2>6, <3>1 DEF HostInv, OpenOK, NetInv
      <4> QED
        BY <2>4, <4>1 DEF Carries
    <3>2. CASE o = c /\ success
      <4>1. o.session = session /\ o.connection = r.connection
        BY <1>6, <1>12, <2>6, <3>2 DEF c
      <4> QED
        BY <2>1, <2>2, <3>2, <4>1 DEF Held
    <3>3. o \in open \/ (o = c /\ success)
      BY <1>7, <2>6
    <3> QED
      BY <3>1, <3>2, <3>3
  <2> QED
    BY <1>1, <1>12, <2>4, <2>5, <2>6, GoHost
<1>13. CASE request.kind = "write" /\ success /\ Go(written, "idle")
  <2>1. Steps(r, written) /\ written.socket.state = "connected"
    BY <1>1, <1>2, <1>13, WrittenStep
  <2> HIDE DEF written, request
  <2>2. RuntimeOK(written) /\ QueueOK(written) /\ Follows(r, written) /\ Carries(r, written)
    BY <2>1 DEF Steps
  <2>3. ClosedOK(written, "idle")
    BY <2>1 DEF ClosedOK
  <2>4. NetInv'
    BY <1>1, <1>8, <1>13, <2>2, <2>3, GoNet
  <2>5. ASSUME HostInv, NEW o \in open' PROVE o.session = session /\ Held(written, o.connection)
    <3>1. o \in open
      BY <1>6, <1>7, <1>13, <2>5
    <3>2. o.connection \in Nat \ {0} /\ Held(r, o.connection) /\ o.session = session
      BY <1>1, <2>5, <3>1 DEF HostInv, OpenOK, NetInv
    <3> QED
      BY <2>2, <3>2 DEF Carries
  <2> QED
    BY <1>1, <1>13, <2>2, <2>4, <2>5, GoHost
<1>14. ASSUME NEW t, NEW next \in {"idle", "dispatch"}, Go(t, next),
              RuntimeOK(t), QueueOK(t), ClosedOK(t, next), Follows(r, t),
              CarriesBut(r, t, request.connection),
              request.kind = "disconnect" \/ (request.kind = "write" /\ ~success)
       PROVE  NetInv' /\ (HostInv => HostInv')
  <2> HIDE DEF request
  <2>1. NetInv'
    BY <1>1, <1>8, <1>14, GoNet
  <2>2. ASSUME HostInv, NEW o \in open' PROVE o.session = session /\ Held(t, o.connection)
    <3>1. c = [session |-> session, connection |-> request.connection]
      BY <1>6, <2>2 DEF c
    <3>2. open' = open \ {c}
      BY <1>6, <1>7, <1>14, <2>2
    <3>3. o \in open \ {[session |-> session, connection |-> request.connection]}
      BY <3>1, <3>2
    <3> QED
      BY <1>1, <1>14, <2>2, <3>3, DroppedOne
  <2> QED
    BY <1>1, <1>14, <2>1, <2>2, GoHost
<1>15. CASE request.kind = "write" /\ request.connection = r.connection /\ ~success
            /\ Go(dropped, "dispatch")
  <2>1. Quiet(dropped) /\ Follows(r, dropped) /\ CarriesBut(r, dropped, r.connection)
    BY <1>1, <1>2, <1>15, UnsentStep
  <2> HIDE DEF dropped, request
  <2>2. RuntimeOK(dropped) /\ QueueOK(dropped) /\ ClosedOK(dropped, "dispatch")
    BY <2>1, NoSocketFacts DEF Quiet, ClosedOK
  <2> QED
    BY <1>14, <1>15, <2>1, <2>2
<1>16. CASE request.kind = "disconnect" /\ Go(rest, "idle")
  <2>1. /\ QueueOK(rest) /\ Follows(r, rest) /\ CarriesBut(r, rest, request.connection)
        /\ rest.socket = r.socket
    BY <1>1, <1>2, <1>16, ClosedStep
  <2> HIDE DEF rest, request
  <2>2. ClosedOK(rest, "idle")
    BY <1>2, <2>1 DEF ClosedOK
  <2> QED
    BY <1>9, <1>14, <1>16, <2>1, <2>2
<1> QED
  BY <1>4, <1>11, <1>12, <1>13, <1>15, <1>16

LEMMA ReceiveKeeps ==
  ASSUME NetInv, NEW c \in open, ReceiveNetworkData(c)
  PROVE  NetInv' /\ (HostInv => HostInv')
<1> DEFINE r == runtime
           t == Notify([r EXCEPT !.socket.read = Append(@, <<c.session, c.connection>>)],
                       "read", r.socket.id, 1)
<1>1. /\ machine = "running" /\ phase = "idle" /\ HostKnows
      /\ c.connection = r.connection /\ r.socket # NoSocket
  BY Zenon DEF ReceiveNetworkData, Idle
<1>2. RuntimeOK(r) /\ QueueOK(r) /\ r \in Runtimes
  BY <1>1, RunningFacts
<1>3. HostInv => r.socket.state = "connected"
  <2> SUFFICES ASSUME HostInv PROVE r.socket.state = "connected"
    OBVIOUS
  <2>1. Held(r, r.connection)
    BY <1>1 DEF HostInv, OpenOK
  <2> QED
    BY <1>2, <2>1, NeverToldCurrent DEF Held
<1>4. \/ Fault(r, "limit")
      \/ r.socket.state = "connected" /\ Go(t, "dispatch")
      \/ ~HostInv /\ Fault(r, "not connected")
  BY <1>3 DEF ReceiveNetworkData
<1>5. CASE Fault(r, "limit")
  BY <1>1, <1>2, <1>5, FaultStays
<1>6. CASE r.socket.state = "connected" /\ Go(t, "dispatch")
  <2>1. <<c.session, c.connection>> \in Nat \X Nat /\ r.socket.id # 0
    BY <1>1, <1>2 DEF NetInv, RuntimeOK, SocketOK
  <2>2. /\ RuntimeOK(t) /\ t.socket.state = r.socket.state
        /\ QueueOK(t) /\ Follows(r, t) /\ Carries(r, t)
    BY <1>2, <2>1, ArrivalStep
  <2> HIDE DEF t
  <2>3. Steps(r, t) /\ ClosedOK(t, "dispatch")
    BY <1>6, <2>2 DEF Steps, ClosedOK
  <2> QED
    BY <1>1, <1>6, <2>3, GoStays
<1>7. CASE ~HostInv /\ Fault(r, "not connected")
  <2>1. HostTypes(seen', open')
    BY <1>1 DEF HostKnows, HostTypes, NetInv
  <2> QED
    BY <1>2, <1>7, <2>1, FaultNet
<1> QED
  BY <1>4, <1>5, <1>6, <1>7

LEMMA DisconnectNetworkKeeps ==
  ASSUME NetInv, NEW c \in open, DisconnectNetwork(c)
  PROVE  NetInv' /\ (HostInv => HostInv')
<1> DEFINE r == runtime
           t == Discard(Notify(r, "gnex.disconnect", 0, 10))
<1>1. /\ machine = "running" /\ phase = "idle" /\ seen' = seen /\ open' = open \ {c}
      /\ c.connection = r.connection
      /\ (Go(t, "dispatch") \/ Fault(r, "limit"))
  BY DEF DisconnectNetwork, Idle
<1>2. RuntimeOK(r) /\ QueueOK(r) /\ r \in Runtimes
  BY <1>1, RunningFacts
<1>3. HostTypes(seen', open')
  BY <1>1 DEF HostTypes, NetInv
<1>4. HostInv => c = [session |-> session, connection |-> r.connection]
  <2>1. c = [session |-> c.session, connection |-> c.connection]
    BY DEF NetInv
  <2> QED
    BY <1>1, <2>1 DEF HostInv, OpenOK
<1>5. CASE Fault(r, "limit")
  <2>1. HostInv => \A o \in open' : o.session = session
    BY <1>1 DEF HostInv, OpenOK
  <2> QED
    BY <1>1, <1>2, <1>3, <1>5, <2>1, FaultNet, FaultHost
<1>6. CASE Go(t, "dispatch")
  <2>1. Quiet(t) /\ Follows(r, t) /\ CarriesBut(r, t, r.connection)
    BY <1>2, HangUpStep
  <2> HIDE DEF t
  <2>2. RuntimeOK(t) /\ QueueOK(t) /\ ClosedOK(t, "dispatch")
    BY <2>1, NoSocketFacts DEF Quiet, ClosedOK
  <2>3. NetInv'
    BY <1>1, <1>3, <1>6, <2>2, GoNet
  <2>4. ASSUME HostInv, NEW o \in open' PROVE o.session = session /\ Held(t, o.connection)
    BY <1>1, <1>4, <2>1, <2>4, DroppedOne
  <2> QED
    BY <1>1, <1>6, <2>1, <2>2, <2>3, <2>4, GoHost
<1> QED
  BY <1>1, <1>5, <1>6

-----------------------------------------------------------------------------
(* The invariant of the network, and of the host that forgets. *)

LEMMA NetStart ==
  ASSUME TransportInit
  PROVE  NetInv /\ HostInv
<1>1. Quiet(NewRuntime)
  BY NewRuntimeQuiet
<1>2. /\ savedRuntime.state = "none" /\ savedRuntime.runtime = NewRuntime
      /\ runtime = NewRuntime /\ machine = "ready" /\ phase = "idle" /\ session = 1
      /\ seen = {} /\ open = {} /\ fault = "none"
  BY DEF TransportInit
<1>3. RuntimeOK(runtime) /\ QueueOK(runtime) /\ ClosedOK(runtime, phase)
  BY <1>1, <1>2, NoSocketFacts DEF Quiet, ClosedOK
<1>4. NetInv
  BY <1>1, <1>2, <1>3 DEF NetInv, Quiet
<1>5. HostInv
  BY <1>2 DEF HostInv, SeenOK, OpenOK
<1> QED
  BY <1>4, <1>5

LEMMA NetSteps ==
  ASSUME NetInv, [TransportNext]_transportVars
  PROVE  NetInv' /\ (HostForgets /\ HostInv => HostInv')
<1>1. CASE UNCHANGED transportVars
  BY <1>1 DEF transportVars, NetInv, HostInv, SeenOK, OpenOK
<1>2. CASE \E local \in BOOLEAN : NetConnect(local)
  BY <1>2, NetConnectKeeps
<1>3. CASE NetDisconnect
  BY <1>3, NetDisconnectKeeps
<1>4. CASE \E packet \in Packets : NetSend(packet)
  BY <1>4, NetSendKeeps
<1>5. CASE GuestReturns
  BY <1>5, GuestReturnsKeeps
<1>6. CASE GuestExits
  BY <1>6, StopKeeps DEF GuestExits, HostKnows
<1>7. CASE Dispatch
  BY <1>7, DispatchKeeps
<1>8. CASE Start
  <2>1. machine = "ready" /\ phase = "idle"
    BY <1>8 DEF Start, NetInv
  <2> QED
    BY <1>8, <2>1, SameNetwork DEF Start
<1>9. CASE StepFrame
  BY <1>9, StepFrameKeeps
<1>10. CASE QueueKey
  BY <1>10, QueueKeyKeeps
<1>11. CASE PauseResume
  BY <1>11, SameNetwork DEF PauseResume
<1>12. CASE Stop
  BY <1>12, StopKeeps DEF Stop
<1>13. CASE Reset
  BY <1>13, ReplaceKeeps, NewRuntimeQuiet DEF Reset
<1>14. CASE SaveState
  BY <1>14, SaveStateKeeps
<1>15. CASE LoadState
  <2>1. /\ savedRuntime.state \in {"ready", "paused", "stopped"}
        /\ Replace(savedRuntime.runtime, savedRuntime.state)
    BY <1>15 DEF LoadState, NetInv
  <2>2. Quiet(savedRuntime.runtime)
    BY DEF NetInv, Quiet
  <2> QED
    BY <2>1, <2>2, ReplaceKeeps
<1>16. CASE NetworkRequests
  BY <1>16, NetworkRequestsKeeps
<1>17. CASE \E s \in seen, success \in BOOLEAN : CompleteNetworkRequest(s, success)
  BY <1>17, CompleteKeeps
<1>18. CASE \E c \in open : ReceiveNetworkData(c) \/ DisconnectNetwork(c)
  BY <1>18, ReceiveKeeps, DisconnectNetworkKeeps
<1> QED
  BY <1>1, <1>2, <1>3, <1>4, <1>5, <1>6, <1>7, <1>8, <1>9, <1>10, <1>11, <1>12, <1>13, <1>14,
     <1>15, <1>16, <1>17, <1>18 DEF TransportNext, GuestNext, FrontendNext, HostNext

LEMMA MatchedQueue ==
  ASSUME NetInv
  PROVE  QueueMatchesSocket
<1> DEFINE r == runtime
           n == Len(r.requests)
           of(kind) == {i \in DOMAIN r.requests : r.requests[i].kind = kind}
           writes == Pick(r.requests, of("write"))
<1> SUFFICES ASSUME phase = "idle", machine # "faulted"
             PROVE  /\ r.socket = NoSocket => r.connection = 0
                    /\ r.socket # NoSocket =>
                         /\ r.socket.local <=> r.connection = 0
                         /\ r.socket.state \in {"connecting", "connected"}
                         /\ Cardinality(of("connect")) =
                              IF r.socket.state = "connecting" THEN 1 ELSE 0
                         /\ ~r.socket.local =>
                              r.socket.written = [i \in DOMAIN writes |-> writes[i].data]
                    /\ \A i \in DOMAIN r.requests :
                         LET q == r.requests[i]
                         IN  /\ q.sequence < r.nextRequest
                             /\ q.connection \in 1 .. r.nextConnection - 1
                             /\ \A j \in 1 .. i - 1 : r.requests[j].sequence < q.sequence
                             /\ q.kind = "disconnect" <=> q.connection # r.connection
                             /\ q.kind = "write" => r.socket.state = "connected"
  BY Zenon DEF QueueMatchesSocket
<1>1. RuntimeOK(r) /\ QueueOK(r) /\ ClosedOK(r, "idle") /\ Numbered(r) /\ SocketOK(r)
  BY DEF NetInv, QueueOK, RuntimeOK
<1>2. /\ r \in Runtimes /\ n \in Nat /\ DOMAIN r.requests = 1 .. n
      /\ \A i \in 1 .. n : r.requests[i] \in NetRequests
      /\ r.requests \in Seq(NetRequests)
      /\ r.nextConnection \in Nat /\ r.nextRequest \in Nat
      /\ r.socket.written \in Seq(Packets) /\ r.socket \in Sockets
  BY <1>1, RuntimeFacts DEF RuntimeOK
<1>3. r.socket.state # "closed"
  BY <1>1 DEF ClosedOK
<1>4. PICK k \in 0 .. n : Current(r, k)
  BY <1>1 DEF QueueOK
<1>5. \A i \in 1 .. n : i \in 1 .. k \/ i \in k + 1 .. n
  BY <1>2, <1>4
<1>6. \A i \in 1 .. k :
        r.requests[i].kind = "disconnect" /\ r.requests[i].connection # r.connection
  BY <1>4 DEF Current
<1>7. \A i \in k + 1 .. n :
        /\ r.requests[i].connection = r.connection
        /\ r.requests[i].kind \in {"connect", "write"}
        /\ r.requests[i].kind = "connect" <=> r.socket.state = "connecting"
        /\ r.requests[i].kind = "write" <=> r.socket.state = "connected"
  BY <1>1, <1>4, CurrentKinds DEF Current
<1>8. r.socket = NoSocket => r.connection = 0
  BY <1>1, NoSocketFacts DEF SocketOK
<1>9. ASSUME NEW i \in 1 .. n
      PROVE  LET q == r.requests[i]
             IN  /\ q.sequence < r.nextRequest
                 /\ q.connection \in 1 .. r.nextConnection - 1
                 /\ \A j \in 1 .. i - 1 : r.requests[j].sequence < q.sequence
                 /\ q.kind = "disconnect" <=> q.connection # r.connection
                 /\ q.kind = "write" => r.socket.state = "connected"
  <2>1. /\ r.requests[i].sequence < r.nextRequest
        /\ r.requests[i].connection < r.nextConnection
    BY <1>1 DEF Numbered
  <2>2. r.requests[i].connection \in Nat \ {0}
    BY <1>2 DEF NetRequests
  <2>3. r.requests[i].connection \in 1 .. r.nextConnection - 1
    BY <1>2, <2>1, <2>2
  <2>4. \A j \in 1 .. i - 1 : j \in 1 .. n /\ j < i
    BY <1>2
  <2>5. \A j \in 1 .. i - 1 : r.requests[j].sequence < r.requests[i].sequence
    BY <1>1, <2>4 DEF Numbered
  <2>6. r.requests[i].kind = "disconnect" <=> r.requests[i].connection # r.connection
    BY <1>5, <1>6, <1>7
  <2>7. r.requests[i].kind = "write" => r.socket.state = "connected"
    BY <1>5, <1>6, <1>7
  <2> QED
    BY <2>1, <2>3, <2>5, <2>6, <2>7
<1>10. ASSUME r.socket # NoSocket
       PROVE  /\ r.socket.local <=> r.connection = 0
              /\ r.socket.state \in {"connecting", "connected"}
  BY <1>1, <1>2, <1>3, <1>10 DEF SocketOK, Sockets
<1>11. ASSUME r.socket # NoSocket
       PROVE  Cardinality(of("connect")) = IF r.socket.state = "connecting" THEN 1 ELSE 0
  <2>1. CASE r.socket.state = "connecting"
    <3>1. n = k + 1
      BY <1>4, <2>1 DEF Current
    <3>2. of("connect") = {k + 1}
      <4>1. ASSUME NEW i \in 1 .. n PROVE r.requests[i].kind = "connect" <=> i = k + 1
        <5>1. CASE i \in 1 .. k
          BY <1>4, <1>6, <5>1
        <5>2. CASE i \in k + 1 .. n
          BY <1>2, <1>4, <1>7, <2>1, <3>1, <5>2
        <5> QED
          BY <1>5, <5>1, <5>2
      <4>2. k + 1 \in 1 .. n
        BY <1>4, <3>1
      <4> QED
        BY <1>2, <4>1, <4>2
    <3>3. Cardinality({k + 1}) = 1
      BY FS_Singleton
    <3> QED
      BY <2>1, <3>2, <3>3
  <2>2. CASE r.socket.state # "connecting"
    <3>1. of("connect") = {}
      BY <1>2, <1>5, <1>6, <1>7, <2>2
    <3> HIDE DEF of
    <3> QED
      BY <2>2, <3>1, FS_EmptySet
  <2> QED
    BY <2>1, <2>2
<1>12. ASSUME r.socket # NoSocket, ~r.socket.local
       PROVE  r.socket.written = [i \in DOMAIN writes |-> writes[i].data]
  <2> DEFINE w == r.socket.written
             m == IF r.socket.state = "connected" THEN k ELSE n
  <2>1. m \in 0 .. n
    BY <1>2, <1>4
  <2>2. /\ n = m + Len(w) /\ Len(w) \in Nat
        /\ \A i \in 1 .. Len(w) : r.requests[m + i].data = w[i]
    <3>1. CASE r.socket.state = "connected"
      <4>1. m = k
        BY <3>1
      <4>2. Len(w) \in Nat
        BY <1>2, LenProperties
      <4> QED
        BY <1>4, <1>12, <3>1, <4>1, <4>2 DEF Current
    <3>2. CASE r.socket.state = "connecting"
      <4>1. w = <<>> /\ m = n
        BY <1>4, <3>2 DEF Current
      <4>2. Len(w) = 0
        BY <4>1
      <4> QED
        BY <1>2, <4>1, <4>2
    <3> QED
      BY <1>10, <1>12, <3>1, <3>2
  <2>3. of("write") = m + 1 .. n
    <3>1. ASSUME NEW i \in 1 .. n PROVE r.requests[i].kind = "write" <=> i \in m + 1 .. n
      <4>1. CASE r.socket.state = "connected"
        <5>1. m = k
          BY <4>1
        <5>2. CASE i \in 1 .. k
          BY <1>2, <1>4, <1>6, <5>1, <5>2
        <5>3. CASE i \in k + 1 .. n
          BY <1>7, <4>1, <5>1, <5>3
        <5> QED
          BY <1>5, <5>2, <5>3
      <4>2. CASE r.socket.state # "connected"
        <5>1. m = n
          BY <4>2
        <5>2. r.requests[i].kind # "write"
          BY <1>5, <1>6, <1>7, <4>2
        <5>3. ~(i \in n + 1 .. n)
          BY <1>2
        <5> QED
          BY <5>1, <5>2, <5>3
      <4> QED
        BY <4>1, <4>2
    <3>2. \A i \in m + 1 .. n : i \in 1 .. n
      BY <1>2, <2>1
    <3> HIDE DEF m, n
    <3> QED
      BY <1>2, <3>1, <3>2
  <2> HIDE DEF m
  <2>4. /\ DOMAIN writes = 1 .. n - m
        /\ \A i \in 1 .. n - m : writes[i] = r.requests[m + i]
    <3>1. /\ DOMAIN Pick(r.requests, m + 1 .. n) = 1 .. n - m
          /\ \A i \in 1 .. n - m : Pick(r.requests, m + 1 .. n)[i] = r.requests[m + i]
      BY <1>2, <2>1, PickSuffix
    <3>2. writes = Pick(r.requests, m + 1 .. n)
      BY <2>3
    <3> QED
      BY <3>1, <3>2
  <2>5. n - m = Len(w)
    <3> DEFINE l == Len(w)
    <3>1. l \in Nat /\ n = m + l /\ m \in Nat
      BY <1>2, <2>1, <2>2
    <3> HIDE DEF l, n
    <3>2. n - m = l
      BY <3>1
    <3> QED
      BY <3>2 DEF l
  <2>6. \A i \in 1 .. Len(w) : writes[i].data = w[i]
    BY <2>2, <2>4, <2>5
  <2>7. w = [i \in 1 .. Len(w) |-> w[i]]
    BY <1>2, LenProperties
  <2>8. DOMAIN writes = 1 .. Len(w)
    BY <2>4, <2>5
  <2> HIDE DEF writes, w
  <2> QED
    BY <2>6, <2>7, <2>8 DEF w
<1> QED
  BY <1>2, <1>8, <1>9, <1>10, <1>11, <1>12

\* The queue of network requests fits the socket whatever the guest, the
\* frontend and the host do, in whatever order: what a runtime's own restore
\* checks holds whenever the machine could be saved or asked.
THEOREM RequestsMatchSocket == TransportSpec => []QueueMatchesSocket
<1>1. TransportInit => NetInv
  BY NetStart
<1>2. NetInv /\ [TransportNext]_transportVars => NetInv'
  BY NetSteps
<1>3. NetInv => QueueMatchesSocket
  BY MatchedQueue
<1> QED
  BY <1>1, <1>2, <1>3, PTL DEF TransportSpec

\* With a host that gives up its work when the machine is reset or loaded, only
\* a full queue faults the title's network.
THEOREM NetworkFaultsAreLimits ==
  ASSUME HostForgets
  PROVE  TransportSpec => []OnlyLimitsFault
<1>1. TransportInit => NetInv /\ HostInv
  BY NetStart
<1>2. (NetInv /\ HostInv) /\ [TransportNext]_transportVars => (NetInv /\ HostInv)'
  BY NetSteps
<1>3. HostInv => OnlyLimitsFault
  BY DEF HostInv, OnlyLimitsFault
<1> QED
  BY <1>1, <1>2, <1>3, PTL DEF TransportSpec

\* With such a host no connection it holds open is forgotten by the guest
\* without a request to close it.
THEOREM HostClosesConnections ==
  ASSUME HostForgets
  PROVE  TransportSpec => []DroppedConnectionsAreTold
<1>1. TransportInit => NetInv /\ HostInv
  BY NetStart
<1>2. (NetInv /\ HostInv) /\ [TransportNext]_transportVars => (NetInv /\ HostInv)'
  BY NetSteps
<1>3. NetInv /\ HostInv => DroppedConnectionsAreTold
  <2> SUFFICES ASSUME NetInv, HostInv, machine = "running", NEW c \in open
               PROVE  \/ c.connection = runtime.connection
                      \/ \E i \in DOMAIN runtime.requests :
                           /\ runtime.requests[i].kind = "disconnect"
                           /\ runtime.requests[i].connection = c.connection
    BY DEF DroppedConnectionsAreTold
  <2>1. Held(runtime, c.connection)
    BY DEF HostInv, OpenOK
  <2>2. DOMAIN runtime.requests = 1 .. Len(runtime.requests)
    BY RuntimeFacts DEF NetInv, RuntimeOK
  <2> QED
    BY <2>1, <2>2 DEF Held, Told
<1> QED
  BY <1>1, <1>2, <1>3, PTL DEF TransportSpec
=============================================================================
