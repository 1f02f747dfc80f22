----------------------------- MODULE Transport ------------------------------
(***************************************************************************)
(* The network of a GNEX32 title (gnex32/network.go, gnex32/runtime.go) as *)
(* its machine offers it to a host (application/gnex32_network.go): one    *)
(* guest connection at a time on a socket of the shared network service, a *)
(* queue of requests the host reads and completes in order, and events     *)
(* that are dispatched to guest handlers, which may use the network again. *)
(* Host calls and guest execution take the machine's lock; what the host   *)
(* does with a request in between takes as long as it takes, outlives a    *)
(* stop and, unless HostForgets, a reset or a load.                        *)
(*                                                                         *)
(* Every event is stamped with the current time, so the bus is a FIFO      *)
(* here.  The registry's IDs never repeat (ServiceProofs), so sockets are  *)
(* numbered.  Bytes are one unit per packet.  A call that is refused       *)
(* without a change is no step.                                            *)
(***************************************************************************)
EXTENDS Selections

CONSTANTS
  MaxNetworkRequests,  \* maxGNEX32NetworkRequests
  BusCapacity,         \* the event bus's limit
  MaxSockets, MaxSequences, MaxSessions,  \* bounds: opened, numbered, reset or loaded
  HostForgets,         \* does the host drop its work when it resets or loads
  Packets              \* what a title sends; two sends may be equal

ASSUME TransportAssumption ==
  /\ MaxNetworkRequests \in Nat \ {0} /\ BusCapacity \in Nat \ {0}
  /\ HostForgets \in BOOLEAN
  /\ MaxSockets \in Nat /\ MaxSequences \in Nat /\ MaxSessions \in Nat

VARIABLES
  machine,    \* lifecycle: ready, running, paused, stopped, faulted
  phase,      \* who runs: idle, main and guest (guest code), dispatch (the event loop)
  runtime,    \* the runtime's network state, below
  savedRuntime,
  fault,      \* why the machine faulted last
  session,    \* ghost: counts the runtimes the machine has had
  seen,       \* ghost: the requests the host has read and not given up
  open        \* ghost: the connections the host holds open

transportVars == <<machine, phase, runtime, savedRuntime, fault, session, seen, open>>

NoSocket == [id |-> 0, local |-> FALSE, state |-> "none", written |-> <<>>, read |-> <<>>]

NewRuntime ==
  [socket |-> NoSocket, sockets |-> 0, connection |-> 0, nextConnection |-> 1,
   nextRequest |-> 1, requests |-> <<>>, events |-> <<>>]

NetworkActive(r) == r.socket # NoSocket \/ r.requests # <<>>

BusHasRoom(r) == Len(r.events) < BusCapacity
QueueHasRoom(r) == Len(r.requests) < MaxNetworkRequests

Notify(r, name, socket, value) ==
  [r EXCEPT !.events = Append(@, [name |-> name, socket |-> socket, value |-> value])]

\* enqueueNetworkRequest.
Enqueue(r, kind, connection, data) ==
  [r EXCEPT !.requests = Append(@, [sequence |-> r.nextRequest, connection |-> connection,
                                    kind |-> kind, data |-> data]),
            !.nextRequest = @ + 1]

\* Mutant: the events of a closed socket stay on the bus.
CloseSocketKeepsEvents(r) == [r EXCEPT !.socket = NoSocket]

\* Network.CloseSocket: the socket's undelivered events go with it.
CloseSocket(r) ==
  [r EXCEPT !.socket = NoSocket,
            !.events = Pick(@, {i \in DOMAIN @ : @[i].socket # r.socket.id})]

\* Mutant: the requests of a connection that ends stay in the queue.
DiscardKeepsRequests(r) ==
  [(IF r.socket = NoSocket THEN r ELSE CloseSocket(r)) EXCEPT !.connection = 0]

\* discardNetworkConnection, always of the current connection; a local server's
\* socket has the number 0 and no requests.
Discard(r) ==
  [(IF r.socket = NoSocket THEN r ELSE CloseSocket(r)) EXCEPT
     !.requests = Pick(@, {i \in DOMAIN @ : r.connection = 0 \/ @[i].connection # r.connection}),
     !.connection = 0]

\* Mutant: the disconnect request is queued first and discarded with the rest.
TellThenDiscard(r) ==
  IF r.connection = 0 THEN Discard(r)
  ELSE Discard(Enqueue(r, "disconnect", r.connection, <<>>))

\* requestNetworkStop, when the queue takes the disconnect request.
DiscardThenTell(r) ==
  IF r.connection = 0 THEN Discard(r)
  ELSE Enqueue(Discard(r), "disconnect", r.connection, <<>>)

CanStop(r) == r.connection # 0 => QueueHasRoom(Discard(r))

-----------------------------------------------------------------------------
(* Steps: the network state becomes r, and the given party runs next. *)

Go(r, next) ==
  /\ runtime' = r /\ phase' = next
  /\ UNCHANGED <<machine, savedRuntime, fault, session>>

\* An error a guest call, the dispatch loop or a host call returns faults the
\* machine, with r as far as the call came.
Fault(r, reason) ==
  /\ runtime' = r /\ phase' = "idle"
  /\ machine' = "faulted" /\ fault' = reason
  /\ UNCHANGED <<savedRuntime, session>>

HostKnows == UNCHANGED <<seen, open>>

InGuest == phase \in {"main", "guest"}
MoreSequences == runtime.nextRequest <= MaxSequences

\* NetConnect: the old connection is stopped, then a socket opened.  A retired
\* service's endpoint is answered at once, any other one by the host.
NetConnect(local) ==
  LET stopped == DiscardThenTell(runtime)
      socket == [NoSocket EXCEPT !.id = runtime.sockets + 1, !.local = local,
                                 !.state = IF local THEN "connected" ELSE "connecting"]
      opened == [stopped EXCEPT !.socket = socket, !.sockets = @ + 1]
      numbered == [opened EXCEPT !.connection = opened.nextConnection, !.nextConnection = @ + 1]
      without(r) == [r EXCEPT !.socket = NoSocket, !.connection = 0]
  IN  /\ InGuest /\ MoreSequences /\ runtime.sockets < MaxSockets
      /\ HostKnows
      /\ \/ ~CanStop(runtime) /\ Fault(Discard(runtime), "limit")
         \/ /\ CanStop(runtime) /\ local
            /\ IF BusHasRoom(opened)
                 THEN Go(Notify(opened, "connect", socket.id, 1), phase)
                 ELSE Fault(without(opened), "limit")
         \/ /\ CanStop(runtime) /\ ~local
            /\ IF QueueHasRoom(numbered)
                 THEN Go(Enqueue(numbered, "connect", numbered.connection, <<>>), phase)
                 ELSE Fault(without(numbered), "limit")

NetDisconnect ==
  LET connected == runtime.socket # NoSocket
      announced == Notify(runtime, "gnex.disconnect", 0, IF connected THEN 9 ELSE 10)
  IN  /\ InGuest /\ MoreSequences
      /\ HostKnows
      /\ IF ~BusHasRoom(runtime) THEN Fault(runtime, "limit")
         ELSE IF ~connected THEN Go(announced, phase)
         ELSE IF CanStop(announced) THEN Go(DiscardThenTell(announced), phase)
         ELSE Fault(Discard(announced), "limit")

\* NetSend of one packet.  A local server may answer at once.
NetSend(packet) ==
  LET written == [runtime EXCEPT !.socket.written = Append(@, packet)]
      answered == Notify([runtime EXCEPT !.socket.read = Append(@, <<session, 0>>)],
                         "read", runtime.socket.id, 1)
  IN  /\ InGuest /\ MoreSequences /\ runtime.socket.state = "connected"
      /\ HostKnows
      /\ \/ /\ ~runtime.socket.local
            /\ IF QueueHasRoom(runtime)
                 THEN Go(Enqueue(written, "write", runtime.connection, packet), phase)
                 ELSE Fault(runtime, "limit")
         \/ /\ runtime.socket.local
            /\ IF BusHasRoom(runtime) THEN Go(answered, phase) ELSE Fault(runtime, "limit")

\* The guest's handler is done: Start returns, or the event loop goes on.
GuestReturns ==
  /\ InGuest
  /\ HostKnows
  /\ Go(runtime, IF phase = "main" THEN "idle" ELSE "dispatch")

\* The guest asked to close: StopNetwork, and the machine is stopped.
StopNetwork(r) == [Discard(r) EXCEPT !.requests = <<>>]

GuestExits ==
  /\ InGuest
  /\ machine' = "stopped" /\ phase' = "idle" /\ runtime' = StopNetwork(runtime)
  /\ HostKnows /\ UNCHANGED <<savedRuntime, fault, session>>

\* One turn of dispatchReadyEvents.
Dispatch ==
  /\ phase = "dispatch"
  /\ HostKnows
  /\ IF runtime.events = <<>> THEN Go(runtime, "idle")
     ELSE LET e == Head(runtime.events)
              rest == [runtime EXCEPT !.events = Tail(@)]
          IN  CASE e.name \in {"input", "gnex.disconnect"} -> Go(rest, "guest")
                [] e.name = "connect" ->
                     IF e.socket # rest.socket.id THEN Fault(rest, "unknown socket")
                     ELSE Go(IF e.value = 1 THEN rest ELSE Discard(rest), "guest")
                [] e.name = "read" ->
                     IF e.socket # rest.socket.id THEN Fault(rest, "unknown socket")
                     ELSE IF Len(rest.socket.read) < e.value THEN Fault(rest, "short read")
                     ELSE Go([rest EXCEPT !.socket.read = Tail(@)], "guest")

-----------------------------------------------------------------------------
(* The frontend: frames, keys and the machine's lifecycle. *)

Idle == machine = "running" /\ phase = "idle"

Start ==
  /\ machine = "ready" /\ machine' = "running" /\ phase' = "main"
  /\ UNCHANGED <<runtime, savedRuntime, fault, session, seen, open>>

StepFrame == Idle /\ HostKnows /\ Go(runtime, "guest")

QueueKey ==
  /\ Idle /\ HostKnows
  /\ IF BusHasRoom(runtime) THEN Go(Notify(runtime, "input", 0, 0), "dispatch")
     ELSE Fault(runtime, "limit")

PauseResume ==
  /\ phase = "idle"
  /\ \/ machine = "running" /\ machine' = "paused"
     \/ machine = "paused" /\ machine' = "running"
  /\ UNCHANGED <<phase, runtime, savedRuntime, fault, session, seen, open>>

Stop ==
  /\ phase = "idle" /\ machine \in {"running", "paused", "faulted"}
  /\ machine' = "stopped" /\ runtime' = StopNetwork(runtime)
  /\ UNCHANGED <<phase, savedRuntime, fault, session, seen, open>>

Replace(r, state) ==
  /\ phase = "idle" /\ session < MaxSessions
  /\ runtime' = r /\ machine' = state
  /\ session' = session + 1 /\ fault' = "none"
  /\ IF HostForgets THEN seen' = {} /\ open' = {} ELSE HostKnows
  /\ UNCHANGED <<phase, savedRuntime>>

Reset == Replace(NewRuntime, "ready")

\* A live network is not saved.
SaveState ==
  /\ phase = "idle" /\ machine \in {"ready", "paused", "stopped"}
  /\ ~NetworkActive(runtime)
  /\ savedRuntime' = [state |-> machine, runtime |-> runtime]
  /\ UNCHANGED <<machine, phase, runtime, fault, session, seen, open>>

LoadState ==
  /\ machine # "running" /\ savedRuntime.state # "none"
  /\ Replace(savedRuntime.runtime, savedRuntime.state)

-----------------------------------------------------------------------------
(* The host. *)

\* The host copies the ordered snapshot; it works on it outside the lock.
NetworkRequests ==
  LET snapshot == {[session |-> session, request |-> runtime.requests[i]] :
                     i \in DOMAIN runtime.requests}
  IN  /\ phase = "idle" /\ ~(snapshot \subseteq seen)
      /\ seen' = seen \cup snapshot
      /\ UNCHANGED <<machine, phase, runtime, savedRuntime, fault, session, open>>

\* A connection is open at the host from its successful answer to a connect
\* request until it answers the disconnect request.
Answered(s, success) ==
  LET connection == [session |-> s.session, connection |-> s.request.connection]
  IN  open' = CASE s.request.kind = "connect" /\ success -> open \cup {connection}
                [] s.request.kind = "connect" /\ ~success -> open
                [] OTHER -> IF success /\ s.request.kind = "write" THEN open
                            ELSE open \ {connection}

\* CompleteNetworkRequest with the sequence number of a request the host has
\* read, possibly long ago; only the number of the oldest request is accepted.
\* The host may repeat the answer.
CompleteNetworkRequest(s, success) ==
  LET request == Head(runtime.requests)
      rest == [runtime EXCEPT !.requests = Tail(@)]
      connected == [rest EXCEPT !.socket.state = IF success THEN "connected" ELSE "closed"]
  IN  /\ Idle /\ runtime.requests # <<>> /\ request.sequence = s.request.sequence
      /\ Answered(s, success) /\ UNCHANGED seen
      /\ \/ /\ request.kind = "connect"
            /\ request.connection = runtime.connection /\ runtime.socket # NoSocket
            /\ IF runtime.socket.state # "connecting" THEN Fault(runtime, "unexpected answer")
               ELSE IF BusHasRoom(runtime)
                 THEN Go(Notify(connected, "connect", runtime.socket.id, IF success THEN 1 ELSE 0),
                         "dispatch")
               ELSE Fault(runtime, "limit")
         \/ /\ request.kind = "write" /\ success
            /\ request.connection = runtime.connection /\ runtime.socket # NoSocket
            /\ IF runtime.socket.written # <<>> /\ Head(runtime.socket.written) = request.data
                 THEN Go([rest EXCEPT !.socket.written = Tail(@)], "idle")
                 ELSE Fault(runtime, "unexpected answer")
         \/ /\ request.kind = "write" /\ ~success
            /\ request.connection = runtime.connection /\ runtime.socket # NoSocket
            /\ IF BusHasRoom(rest)
                 THEN Go(Discard(Notify(rest, "gnex.disconnect", 0, 10)), "dispatch")
                 ELSE Fault(rest, "limit")
         \/ /\ request.kind = "disconnect"
            /\ Go(rest, "idle")

\* One packet of an open connection.
ReceiveNetworkData(c) ==
  /\ Idle /\ c.connection = runtime.connection /\ runtime.socket # NoSocket
  /\ HostKnows
  /\ IF runtime.socket.state # "connected" THEN Fault(runtime, "not connected")
     ELSE IF BusHasRoom(runtime)
       THEN Go(Notify([runtime EXCEPT !.socket.read = Append(@, <<c.session, c.connection>>)],
                      "read", runtime.socket.id, 1), "dispatch")
     ELSE Fault(runtime, "limit")

\* The peer hung up.
DisconnectNetwork(c) ==
  /\ Idle /\ c.connection = runtime.connection
  /\ open' = open \ {c} /\ UNCHANGED seen
  /\ IF BusHasRoom(runtime)
       THEN Go(Discard(Notify(runtime, "gnex.disconnect", 0, 10)), "dispatch")
       ELSE Fault(runtime, "limit")

TransportInit ==
  /\ machine = "ready" /\ phase = "idle" /\ runtime = NewRuntime
  /\ savedRuntime = [state |-> "none", runtime |-> NewRuntime]
  /\ fault = "none"
  /\ session = 1 /\ seen = {} /\ open = {}

GuestNext ==
  \/ \E local \in BOOLEAN : NetConnect(local)
  \/ NetDisconnect
  \/ \E packet \in Packets : NetSend(packet)
  \/ GuestReturns
  \/ GuestExits
  \/ Dispatch

FrontendNext ==
  \/ Start
  \/ StepFrame
  \/ QueueKey
  \/ PauseResume
  \/ Stop
  \/ Reset
  \/ SaveState
  \/ LoadState

HostNext ==
  \/ NetworkRequests
  \/ \E s \in seen, success \in BOOLEAN : CompleteNetworkRequest(s, success)
  \/ \E c \in open : ReceiveNetworkData(c) \/ DisconnectNetwork(c)

TransportNext == GuestNext \/ FrontendNext \/ HostNext

TransportSpec == TransportInit /\ [][TransportNext]_transportVars

-----------------------------------------------------------------------------
(* Properties. *)

\* validateNetworkState, the check a runtime's own restore makes: connect and
\* write requests belong to the current connection and fit its state, the data
\* of the queued writes is exactly what the socket has written and the host has
\* not acknowledged, and a disconnect request never names the connection in use.
\* In particular the oldest request can always be completed: a stale one at the
\* head would block the queue for good.
QueueMatchesSocket ==
  LET r == runtime
      of(kind) == {i \in DOMAIN r.requests : r.requests[i].kind = kind}
      writes == Pick(r.requests, of("write"))
  IN  phase = "idle" /\ machine # "faulted" =>
        /\ r.socket = NoSocket => r.connection = 0
        /\ r.socket # NoSocket =>
             /\ r.socket.local <=> r.connection = 0
             /\ r.socket.state \in {"connecting", "connected"}
             /\ Cardinality(of("connect")) = IF r.socket.state = "connecting" THEN 1 ELSE 0
             /\ ~r.socket.local =>
                  r.socket.written = [i \in DOMAIN writes |-> writes[i].data]
        /\ \A i \in DOMAIN r.requests :
             LET q == r.requests[i]
             IN  /\ q.sequence < r.nextRequest /\ q.connection \in 1 .. r.nextConnection - 1
                 /\ \A j \in 1 .. i - 1 : r.requests[j].sequence < q.sequence
                 /\ q.kind = "disconnect" <=> q.connection # r.connection
                 /\ q.kind = "write" => r.socket.state = "connected"

\* Full queues apart, no order of host answers, hang-ups, packets and guest calls
\* makes the network fault a title: no event of a closed socket reaches the
\* dispatcher, no read finds fewer bytes than announced, no acknowledgement
\* misses the written bytes.
OnlyLimitsFault == fault \in {"none", "limit"}

\* A connection the host holds open is the guest's, or the queue tells the host
\* to close it, also when the guest reconnects inside the handler of an event.
DroppedConnectionsAreTold ==
  machine = "running" => \A c \in open :
    \/ c.connection = runtime.connection
    \/ \E i \in DOMAIN runtime.requests :
         runtime.requests[i].kind = "disconnect" /\ runtime.requests[i].connection = c.connection

\* InjectNetworkReceiveFor: "rejects stale provider data from a superseded
\* connection before it reaches the guest receive buffer".
NoStaleData ==
  \A i \in DOMAIN runtime.socket.read :
    runtime.socket.read[i] = <<session, runtime.connection>>
=============================================================================
