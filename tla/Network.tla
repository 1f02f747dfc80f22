------------------------------ MODULE Network -------------------------------
(***************************************************************************)
(* Sockets, HTTP requests and serial ports (runtime/network.go), the       *)
(* answers a host provider gives to them (runtime/external.go) and the     *)
(* offline servers (runtime/local_network.go).  The code does no host I/O  *)
(* of its own: the guest opens, writes and closes, the host answers when   *)
(* it likes, twice, late or never, and an answer is recorded or, in        *)
(* playback, replaced by the recorded one.                                 *)
(*                                                                         *)
(* Bytes are counted, hosts and URLs are left out except for whether an    *)
(* offline server serves them, and an answer's time is left out: a time    *)
(* that does not match the recorded one is refused like a name that does   *)
(* not.  A call that fails before it changes anything is no step.          *)
(***************************************************************************)
EXTENDS Selections, FiniteSetsExt

CONSTANTS
  MaxOfKind,        \* MaxSockets, MaxHTTPRequests and MaxSerialPorts
  MaxBufferBytes, MaxTotalBytes,
  MaxPending,       \* limit of the event bus
  MaxTape,          \* limit of the replay log
  ReplayModes,      \* replay modes the host selects
  MaxDescriptors    \* bound: descriptors ever opened

ASSUME NetworkAssumption ==
  /\ MaxOfKind \in Nat /\ MaxBufferBytes \in Nat \ {0} /\ MaxTotalBytes \in Nat
  /\ MaxBufferBytes <= MaxTotalBytes
  /\ ReplayModes \subseteq {"off", "record", "playback"}

VARIABLES
  net,          \* open descriptors, pending events, device status, replay log
  descriptors,  \* how many descriptors were opened: no service ID comes back
  replayMode,
  refused       \* whether the last step was a call that failed after it began

netVars == <<net, descriptors, replayMode, refused>>

DescriptorKinds == {"socket", "http", "serial"}

\* modeledSocket, modeledHTTP and modeledSerial: in is readData or
\* responseBody, out is writeData or requestBody, cursor is localCursor or
\* responseOffset, and local says that an offline server serves the host.
NewDescriptor(kind) ==
  [kind |-> kind, state |-> IF kind = "serial" THEN "connected" ELSE "new",
   in |-> 0, out |-> 0, cursor |-> 0, local |-> FALSE]

NetworkInit ==
  /\ net = [open |-> <<>>, pending |-> <<>>, status |-> 0, tape |-> <<>>, position |-> 0]
  /\ descriptors = 0
  /\ replayMode \in ReplayModes
  /\ refused = FALSE

IsOpen(n, id, kind) == id \in DOMAIN n.open /\ n.open[id].kind = kind

InState(n, id, kind, states) == IsOpen(n, id, kind) /\ n.open[id].state \in states

TotalBytes(open) == TotalOf([id \in DOMAIN open |-> open[id].in + open[id].out])

\* checkAppend, and the quota of SetHTTPRequest and CompleteHTTP, whose buffer
\* is replaced: old bytes of it are given back.
Fits(n, old, size, added) ==
  /\ size + added <= MaxBufferBytes
  /\ TotalBytes(n.open) - old + added <= MaxTotalBytes

-----------------------------------------------------------------------------
(* The guest's calls. *)

Succeeds(n) ==
  /\ net' = n
  /\ refused' = FALSE
  /\ UNCHANGED replayMode

OpenDescriptor(kind) ==
  /\ Cardinality({id \in DOMAIN net.open : net.open[id].kind = kind}) < MaxOfKind
  /\ descriptors < MaxDescriptors
  /\ descriptors' = descriptors + 1
  /\ Succeeds([net EXCEPT !.open = [id \in DOMAIN @ \cup {descriptors'} |->
                                       IF id = descriptors' THEN NewDescriptor(kind) ELSE @[id]]])

BindSocket(id, local) ==
  /\ InState(net, id, "socket", {"new"})
  /\ Succeeds([net EXCEPT !.open[id].state = "bound", !.open[id].local = local])
  /\ UNCHANGED descriptors

ConnectSocket(id, local) ==
  /\ InState(net, id, "socket", {"new", "bound"})
  /\ Succeeds([net EXCEPT !.open[id].state = "connecting", !.open[id].local = local])
  /\ UNCHANGED descriptors

\* Mutant: the offline server's position is left where it was.
ConsumeKeepsCursor(id, size) ==
  /\ IsOpen(net, id, "socket") /\ size \in 1 .. net.open[id].out
  /\ Succeeds([net EXCEPT !.open[id].out = @ - size])
  /\ UNCHANGED descriptors

\* The host has sent a prefix of the written bytes.
ConsumeSocketWritten(id, size) ==
  /\ IsOpen(net, id, "socket") /\ size \in 1 .. net.open[id].out
  /\ Succeeds([net EXCEPT !.open[id].out = @ - size,
                          !.open[id].cursor = IF @ >= size THEN @ - size ELSE 0])
  /\ UNCHANGED descriptors

SetHTTPRequest(id, size) ==
  /\ InState(net, id, "http", {"new"}) /\ Fits(net, net.open[id].out, 0, size)
  /\ Succeeds([net EXCEPT !.open[id].out = size])
  /\ UNCHANGED descriptors

BeginHTTP(id) ==
  /\ InState(net, id, "http", {"new"})
  /\ Succeeds([net EXCEPT !.open[id].state = "connecting"])
  /\ UNCHANGED descriptors

SerialWrite(id, size) ==
  /\ IsOpen(net, id, "serial") /\ Fits(net, 0, net.open[id].out, size)
  /\ Succeeds([net EXCEPT !.open[id].out = @ + size])
  /\ UNCHANGED descriptors

\* SocketRead and SerialRead take bytes out of the buffer, in any state.
ReadBuffer(id, size) ==
  /\ IsOpen(net, id, "socket") \/ IsOpen(net, id, "serial")
  /\ Succeeds([net EXCEPT !.open[id].in = @ - Min({size, @})])
  /\ UNCHANGED descriptors

\* HTTPRead moves through the body and keeps it.
HTTPRead(id, size) ==
  /\ InState(net, id, "http", {"connected"})
  /\ Succeeds([net EXCEPT !.open[id].cursor = @ + Min({size, net.open[id].in - @})])
  /\ UNCHANGED descriptors

\* CloseSocket, CloseHTTP and CloseSerial.
Close(id) ==
  /\ id \in DOMAIN net.open
  /\ Succeeds([net EXCEPT !.open = [d \in DOMAIN @ \ {id} |-> @[d]],
                          !.pending = Pick(@, {i \in DOMAIN @ : @[i].id # id})])
  /\ UNCHANGED descriptors

\* The guest takes the oldest event (EventBus.PopReady).
TakeEvent ==
  /\ net.pending # <<>>
  /\ Succeeds([net EXCEPT !.pending = Tail(@)])
  /\ UNCHANGED descriptors

-----------------------------------------------------------------------------
(* Snapshot and Restore. *)

\* The checks of Restore on descriptors saved from this network; an ID is
\* registered because the registry is not rolled back.
NetworkAccepts(open) ==
  /\ \A kind \in DescriptorKinds :
       Cardinality({id \in DOMAIN open : open[id].kind = kind}) <= MaxOfKind
  /\ \A id \in DOMAIN open :
       LET d == open[id] IN
         /\ d.in <= MaxBufferBytes /\ d.out <= MaxBufferBytes
         /\ d.kind = "socket" =>
              /\ d.state = "connected" \/ (d.in = 0 /\ d.out = 0)
              /\ d.cursor <= d.out
              /\ d.local \/ d.cursor = 0
         /\ d.kind = "http" =>
              /\ d.state \in {"new", "connecting", "connected"}
              /\ d.state = "connected" \/ (d.in = 0 /\ d.cursor = 0)
              /\ d.cursor <= d.in
         /\ d.kind = "serial" => d.state = "connected"
  /\ TotalBytes(open) <= MaxTotalBytes

-----------------------------------------------------------------------------
(* The host's answers.  An entry has a name, a descriptor (0 for the       *)
(* device) and a value: success, a byte count, or the status.              *)

AnswerNames == {"connect", "read", "http", "serial"}

\* What CompleteSocketConnect, InjectSocketRead, CompleteHTTP and
\* InjectSerialRead check before they change anything.
CanApply(n, entry) ==
  CASE entry.name = "connect" ->
         InState(n, entry.id, "socket", {"connecting"}) /\ entry.value \in {0, 1}
    [] entry.name = "read" ->
         /\ InState(n, entry.id, "socket", {"connected"})
         /\ Fits(n, 0, n.open[entry.id].in, entry.value)
    [] entry.name = "http" ->
         /\ InState(n, entry.id, "http", {"connecting"})
         /\ Fits(n, n.open[entry.id].in, 0, entry.value)
    [] entry.name = "serial" ->
         /\ IsOpen(n, entry.id, "serial")
         /\ Fits(n, 0, n.open[entry.id].in, entry.value)

Received(d, entry) ==
  CASE entry.name = "connect" ->
         [d EXCEPT !.state = IF entry.value = 1 THEN "connected" ELSE "closed"]
    [] entry.name = "http" ->
         [d EXCEPT !.state = "connected", !.in = entry.value, !.cursor = 0]
    [] OTHER -> [d EXCEPT !.in = @ + entry.value]

\* The descriptor changes, then the event is put on the bus; a full bus makes
\* the call give the descriptor back as it was.
Applied(n, entry) ==
  IF CanApply(n, entry) /\ Len(n.pending) < MaxPending
    THEN [ok |-> TRUE,
          net |-> [n EXCEPT !.open[entry.id] = Received(@, entry),
                            !.pending = Append(@, [id |-> entry.id, name |-> entry.name])]]
    ELSE [ok |-> FALSE, net |-> n]

\* SetStatus; the value 2 stands for a battery or signal above 100.
StatusApplied(n, entry) ==
  IF entry.value < 2
    THEN [ok |-> TRUE, net |-> [n EXCEPT !.status = entry.value]]
    ELSE [ok |-> FALSE, net |-> n]

\* Mutant: the replay position is not put back.
RollbackForgetsReplay(before, after) ==
  [after EXCEPT !.open = IF NetworkAccepts(before.open) THEN before.open ELSE @,
                !.pending = before.pending, !.status = before.status]

\* rollback: Restore's errors are discarded, so a network snapshot that is
\* refused leaves the descriptors as they are.
Rollback(before, after) ==
  [before EXCEPT !.open = IF NetworkAccepts(@) THEN @ ELSE after.open]

Apply(n, entry) ==
  IF entry.name = "status" THEN StatusApplied(n, entry) ELSE Applied(n, entry)

\* applyNetworkResponse and UpdateDeviceStatus: in playback the recorded entry
\* is consumed and applied instead, in recording the entry is kept; whatever
\* fails after that is rolled back.
Answered(n, mode, provided) ==
  LET recorded == n.tape[n.position + 1]
      matches ==
        /\ n.position < Len(n.tape)
        /\ recorded.name = provided.name /\ recorded.id = provided.id
      result ==
        IF mode = "playback"
          THEN Apply([n EXCEPT !.position = @ + 1], recorded)
          ELSE Apply(n, provided)
      logged == [result.net EXCEPT !.tape = Append(@, provided)]
  IN  CASE mode = "playback" /\ ~matches -> [ok |-> FALSE, net |-> n]
        [] mode = "record" /\ result.ok /\ Len(n.tape) < MaxTape ->
             [ok |-> TRUE, net |-> logged]
        [] mode # "record" /\ result.ok /\ (mode = "playback" => matches) -> result
        [] OTHER -> [ok |-> FALSE, net |-> Rollback(n, result.net)]

Ends(result) ==
  /\ net' = result.net
  /\ refused' = ~result.ok
  /\ UNCHANGED <<descriptors, replayMode>>

\* CompleteSocketResponse, InjectSocketResponse, CompleteHTTPResponse and
\* InjectSerialResponse, for a descriptor that is open, closed or of another
\* kind.
Answer(name, id, value) ==
  Ends(Answered(net, replayMode, [name |-> name, id |-> id, value |-> value]))

UpdateDeviceStatus(value) ==
  Ends(Answered(net, replayMode, [name |-> "status", id |-> 0, value |-> value]))

\* Replay.SetMode: no recording once playback has begun.
SetMode(mode) ==
  /\ mode = "record" => net.position = 0
  /\ replayMode' = mode
  /\ refused' = FALSE
  /\ UNCHANGED <<net, descriptors>>

-----------------------------------------------------------------------------
(* The offline servers. *)

UndoWrite(n, id, before) == [n EXCEPT !.open[id] = before]

\* WriteSocketRequest.  What localSocketReplies makes of the bytes is left to
\* the protocol: it fails, or consumes some of the bytes and replies to them
\* within the room of the read buffer, not always.
WriteSocketRequest(id, size) ==
  /\ InState(net, id, "socket", {"connected"})
  /\ Fits(net, 0, net.open[id].out, size)
  /\ LET before == net.open[id]
         written == [net EXCEPT !.open[id].out = @ + size]
     IN  \/ /\ ~before.local
            /\ Ends([ok |-> TRUE, net |-> written])
         \/ /\ before.local
            /\ Ends([ok |-> FALSE, net |-> UndoWrite(written, id, before)])
         \/ /\ before.local
            /\ \E cursor \in before.cursor .. before.out + size :
                 LET parsed == [written EXCEPT !.open[id].cursor = cursor] IN
                   \/ Ends([ok |-> TRUE, net |-> parsed])
                   \/ /\ cursor > before.cursor
                      /\ \E reply \in 1 .. MaxBufferBytes - before.in :
                           LET result == Answered(parsed, replayMode,
                                           [name |-> "read", id |-> id, value |-> reply])
                           IN  Ends(IF result.ok THEN result
                                    ELSE [ok |-> FALSE,
                                          net |-> UndoWrite(result.net, id, before)])

-----------------------------------------------------------------------------
Sizes == 1 .. MaxBufferBytes

NetworkNext ==
  \/ \E kind \in DescriptorKinds : OpenDescriptor(kind)
  \/ \E id \in 1 .. descriptors :
       \/ \E local \in BOOLEAN : BindSocket(id, local) \/ ConnectSocket(id, local)
       \/ BeginHTTP(id)
       \/ Close(id)
       \/ \E size \in Sizes :
            \/ ConsumeSocketWritten(id, size)
            \/ SetHTTPRequest(id, size)
            \/ SerialWrite(id, size)
            \/ ReadBuffer(id, size)
            \/ HTTPRead(id, size)
            \/ WriteSocketRequest(id, size)
       \/ \E name \in AnswerNames, value \in Sizes \cup {0} : Answer(name, id, value)
  \/ TakeEvent
  \/ \E value \in 0 .. 2 : UpdateDeviceStatus(value)
  \/ \E mode \in ReplayModes : SetMode(mode)

NetworkSpec == NetworkInit /\ [][NetworkNext]_netVars

-----------------------------------------------------------------------------
(* Properties. *)

\* A host answer or a guest write that fails on the way (a full bus, a full or
\* mismatched replay log, a descriptor in the wrong state, a quota) leaves
\* descriptors, events, status and replay log exactly as they were, however
\* much had been done by then: what "_ = s.Network.Restore" and the write's own
\* undo are for.
RefusedCallsLeaveNoTrace == [][refused' => net' = net]_netVars

\* A snapshot taken at any time is one Restore accepts: buffers and their total
\* stay within the quotas, an offline server's position stays within the bytes
\* written, no unconnected descriptor holds data, and every pending event names a
\* descriptor that is open and of the event's kind: a closed connection is never
\* heard of again, even after a rollback.
NetworkSnapshotLoads ==
  /\ NetworkAccepts(net.open)
  /\ \A i \in DOMAIN net.pending :
       LET e == net.pending[i] IN
         IsOpen(net, e.id, IF e.name \in {"http", "serial"} THEN e.name ELSE "socket")
=============================================================================
