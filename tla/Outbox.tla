------------------------------- MODULE Outbox -------------------------------
(***************************************************************************)
(* The handset actions a title asks for (a call, a message, a page): the   *)
(* device's bounded outbox (runtime/device.go) and the tokens under which  *)
(* the application shows it to a host (application/external_requests.go).  *)
(* The host reads the outbox and acknowledges by token at any later time,  *)
(* more than once or never; resets and loads rewind the device's own       *)
(* sequence numbers in between.                                            *)
(*                                                                         *)
(* A request's time, kind, target and data are one member of Contents: the *)
(* code only compares them for equality.  Calls that return early without  *)
(* a change are no steps.                                                  *)
(***************************************************************************)
EXTENDS Selections

CONSTANTS
  Contents,
  MaxRequests,    \* the limit of the device's outbox
  LastToken,      \* math.MaxUint64, the last token project hands out
  MaxPlaced       \* bound on the requests ever placed

ASSUME OutboxAssumption ==
  /\ MaxRequests \in Nat \ {0}
  /\ LastToken \in Nat \ {0}
  /\ MaxPlaced \in Nat

VARIABLES
  requests,       \* Device.requests, oldest first
  nextRequest,
  hostByGuest,    \* guest sequence -> token and content, for the guests it knows
  nextToken, exhausted,
  savedDevice,    \* the device part of a save file; a new device before the first
  placed,         \* ghost: numbers the requests over all timelines
  told            \* ghost: the tokens the host was given and what for

deviceVars == <<requests, nextRequest>>
tokenVars == <<hostByGuest, nextToken, exhausted>>
outboxVars == <<deviceVars, tokenVars, savedDevice, placed, told>>

NoMappings == [guest \in {} |-> 0]
NewDevice == [requests |-> <<>>, nextRequest |-> 1]

OutboxInit ==
  /\ requests = <<>> /\ nextRequest = 1
  /\ hostByGuest = NoMappings /\ nextToken = 1 /\ exhausted = FALSE
  /\ savedDevice = NewDevice
  /\ placed = 0 /\ told = {}

-----------------------------------------------------------------------------
(* The device. *)

Newest(s, n) == IF Len(s) <= n THEN s ELSE SubSeq(s, Len(s) - n + 1, Len(s))

\* A full outbox drops its oldest entry rather than refusing the title.
Request(content) ==
  /\ placed < MaxPlaced
  /\ requests' = Append(Newest(requests, MaxRequests - 1),
                        [sequence |-> nextRequest, content |-> content, ghost |-> placed + 1])
  /\ nextRequest' = nextRequest + 1
  /\ placed' = placed + 1
  /\ UNCHANGED <<tokenVars, savedDevice, told>>

Unacknowledged(through) ==
  Pick(requests, {i \in DOMAIN requests : requests[i].sequence > through})

-----------------------------------------------------------------------------
(* The tokens. *)

Sequences(s) == {s[i].sequence : i \in DOMAIN s}

Mapped(mappings, guest, mapping) ==
  [g \in DOMAIN mappings \cup {guest} |-> IF g = guest THEN mapping ELSE mappings[g]]

\* One turn of project's loop.  A mapping is kept if it is for this very request
\* and its token follows the one before; otherwise the next token is given, until
\* the last one has been.
Kept(acc, r) ==
  /\ r.sequence \in DOMAIN hostByGuest
  /\ hostByGuest[r.sequence].content = r.content
  /\ hostByGuest[r.sequence].host > acc.previous

WithToken(acc, r, token) ==
  Mapped(acc.mappings, r.sequence, [host |-> token, content |-> r.content])

Project(acc, r) ==
  IF Kept(acc, r)
    THEN LET token == hostByGuest[r.sequence].host
         IN  [next |-> acc.next, exhausted |-> acc.exhausted, previous |-> token,
              mappings |-> WithToken(acc, r, token)]
  ELSE IF acc.exhausted THEN acc
  ELSE [next |-> IF acc.next = LastToken THEN acc.next ELSE acc.next + 1,
        exhausted |-> acc.next = LastToken,
        previous |-> acc.next,
        mappings |-> WithToken(acc, r, acc.next)]

Unprojected ==
  [next |-> nextToken, exhausted |-> exhausted, previous |-> 0, mappings |-> NoMappings]

Projection ==
  LET turn[n \in 0 .. Len(requests)] ==
        IF n = 0 THEN Unprojected ELSE Project(turn[n - 1], requests[n])
  IN  turn[Len(requests)]

\* ExternalRequests: what the host sees, under which tokens.
ExternalRequests ==
  /\ hostByGuest' = Projection.mappings
  /\ nextToken' = Projection.next
  /\ exhausted' = Projection.exhausted
  /\ told' = told \cup
       {[host |-> hostByGuest'[requests[i].sequence].host, ghost |-> requests[i].ghost] :
          i \in {j \in DOMAIN requests : requests[j].sequence \in DOMAIN hostByGuest'}}
  /\ UNCHANGED <<deviceVars, savedDevice, placed>>

\* Mutant: the token is compared with the device's sequence numbers.
ClearBySequence(through) ==
  /\ requests' = Unacknowledged(through)
  /\ hostByGuest' = [g \in {h \in DOMAIN hostByGuest : h > through} |-> hostByGuest[g]]
  /\ UNCHANGED <<nextRequest, nextToken, exhausted, savedDevice, placed, told>>

\* ClearExternalRequests: acknowledge, then ClearRequests on the device.
ClearExternalRequests(through) ==
  \E guest \in DOMAIN hostByGuest :
    /\ hostByGuest[guest].host = through
    /\ hostByGuest' = [g \in {h \in DOMAIN hostByGuest : h > guest} |-> hostByGuest[g]]
    /\ requests' = Unacknowledged(guest)
    /\ UNCHANGED <<nextRequest, nextToken, exhausted, savedDevice, placed, told>>

-----------------------------------------------------------------------------
(* Timelines. *)

\* Mutant: a load or a reset keeps the mappings of the timeline before it.
KeepSession == UNCHANGED tokenVars

NextSession == hostByGuest' = NoMappings /\ UNCHANGED <<nextToken, exhausted>>

SaveDevice ==
  /\ savedDevice' = [requests |-> requests, nextRequest |-> nextRequest]
  /\ UNCHANGED <<deviceVars, tokenVars, placed, told>>

\* A load replaces the device by the saved one, a reset by a new one.
Rewind(device) ==
  /\ requests' = device.requests /\ nextRequest' = device.nextRequest
  /\ NextSession
  /\ UNCHANGED <<savedDevice, placed, told>>

LoadDevice == Rewind(savedDevice)
ResetDevice == Rewind(NewDevice)

OutboxNext ==
  \/ \E content \in Contents : Request(content)
  \/ ExternalRequests
  \/ \E t \in told : ClearExternalRequests(t.host)
  \/ SaveDevice
  \/ LoadDevice
  \/ ResetDevice

OutboxSpec == OutboxInit /\ [][OutboxNext]_outboxVars

-----------------------------------------------------------------------------
(* Properties. *)

\* The tokens that name one request never name another: a late or repeated
\* acknowledgement means what it meant when the host read the outbox, across
\* resets, loads, drops and the end of the token range.
TokensNameOneRequest ==
  \A t, u \in told : t.host = u.host => t.ghost = u.ghost

\* An acknowledgement removes only requests the host was told of, under a token
\* up to the one it acknowledges; a request placed meanwhile, in this timeline
\* or after a reset, stays.
AcknowledgedWereTold ==
  [][\A t \in told : ClearExternalRequests(t.host) =>
       \A i \in DOMAIN requests :
         requests[i].sequence \notin Sequences(requests') =>
           \E u \in told : u.ghost = requests[i].ghost /\ u.host <= t.host]_outboxVars
=============================================================================
