# Verification of phone-webrtc

TLA+ specifications of the programs in this repository, model-checked with TLC
and, where it says so, proved with TLAPS.  The repository is a collection of
WebRTC programs around Pion.  Its own product is `sip-webrtc-gateway`, a bridge
between a SIP PBX and web browsers with a small CRM; beside it stand two
servers with a protocol of their own (`ebiten-game/signaling-server`,
`sfu-ws`), a SIP-over-WebSocket softphone, and a number of straight-line media
examples.  The gateway comes first here: it is where calls, sockets, locks and
goroutines of several parties meet.

## Inventory

| Component | State it keeps | Operations | Talks to |
|---|---|---|---|
| Gateway calls (`sip-webrtc-gateway/main.go`) | `gw.peers`, `gw.calls`, `peer.call`, fields of `sipCall`, `rtpPortCounter` | `handleWebSocket`, `handleDial`, `handleHangup`, `removePeer`, `dialSIP`, `sendSIPBye`, `onSIPInvite`, `onSIPBye`, `endCall`, `startRTPListener` | browsers (WebSocket), PBX (SIP), call log |
| Gateway RTP splicing | `rtpInit`, `srcSSRC`, offsets, `nextSeq`, `nextTs` of a peer | `forwardRTPToTrack`, `writeRTPToPeers`, `writeSIPRTP` | PBX (RTP), browser track |
| Gateway latching and keepalive | `remoteAddr`, `sdpAddr`, `latched`, `browserTrack` | first datagram, keepalive ticker, `forwardBrowserTrack` | PBX (RTP), browser track |
| Gateway signalling | `agentID` of a connection, `negotiating` of a peer | read loop of `handleWebSocket`, `renegotiatePeer`, broadcasts | browsers |
| Browser phone (`sip.js`, the Dashboard of `App.jsx`) | `ws`, `pc`, `localStream`, `micPromise`, ICE queue, timers; `callStatus`, `wsConnected` | `connect`, `dial`, `hangup`, `disconnect`, `sendWS`, message handlers | gateway |
| Browser CRM (`api.js`, `App.jsx`) | `token`, `agent`, lists on the page, forms | `handleLogin`, `handleLogout`, `loadData`, `handleSave`, `handleAdd` | CRM API |
| CRM API (`api.go`, `db.go`) | tables agents, customers, calls, tasks, sip_config; tokens | `authMiddleware`, REST handlers, `createCallLog`, `updateCallStatus` | front end, gateway |
| Game signalling (`ebiten-game`) | lobbies, their clients, offers, answers, candidates | `lobbyHost`, `lobbyJoin`, `lobbyDelete`, offer/answer/ice get and post; the game polls | two or more game clients |
| SFU (`sfu-ws`) | `peerConnections`, `trackLocals` | `addTrack`, `removeTrack`, `signalPeerConnections`, key frames every 3 s | browsers |
| Softphone (`sip-over-websocket-to-webrtc`) | `messageListeners`, CSeq, dialog ids | `register`, `Invite`, `OpenToInvite`, `OnOK` | SIP server |
| Media examples, `sip-to-webrtc`, `save-to-webm`, Flutter client | next to none | straight-line I/O | external libraries |

Generated or vendored: `crm-dist`, `*.exe`, `*.zip`, lock files.

What is hard in it, and where, is listed line by line under `hazards` in
`PROJECT.json`.  In short:

* *Gateway calls.*  Each connection has one read loop that blocks in
  `handleDial` for up to 70 s, while the PBX's requests, the PeerConnection's
  state callback and the goroutines of `removePeer` work on the same call.
  `gw.mu` protects the maps and `peer.call`, but not the time between two
  critical sections: a call is in `gw.calls` before it has a socket to close,
  and gets its peer after the peer may be gone.  Correct means: one call per
  connection, audio only between the parties of a call, no call and no port
  left behind, a hangup that always comes back.
* *Splicing.*  Consecutive or simultaneous calls become one RTP stream.
  Correct means: no sequence number is used twice, timestamps keep step,
  losses stay visible.
* *Signalling and phone.*  State read before an `await` and used after it,
  retries by timer, reconnection, a logout at any of these moments.  Correct
  means: the agent sees the call the gateway has, a click dials once, nobody is
  listened to after logging out, and an answer carries the microphone.
* *CRM pages.*  Requests outlive the component, the session and the page that
  sent them.  Correct means: a page shows and sends what belongs to its agent,
  a form makes one customer, what was saved is shown.
* *Game signalling.*  Locks taken twice or not at all.  Correct means: every
  request is answered, and every player gets the answer to its own offer.
* *SFU.*  Retry of a sync that may fail anywhere.  Correct means: every peer is
  in the end offered every track but its own.
* *Softphone.*  Listeners that come and go beside the reader.  Correct means:
  each response reaches the request it answers.

## Modules

| Module | What it is |
|---|---|
| `SipGateway` | the gateway's calls: state machine, properties, inductive invariant, mapping to `PhoneLine` |
| `PhoneLine` | what the gateway promises to one browser: a telephone line, and what follows from being one |
| `RtpSplice` | the numbering of RTP packets for one browser, with its inductive invariants |
| `BrowserPhone` | the phone in the agent's browser against the gateway, over the lines of `PhoneLine`, with its inductive invariants |
| `CrmClient` | a tab of the CRM against the HTTP API, with its inductive invariant |
| `SfuSync` | the SFU: clients, tracks and `signalPeerConnections`, with its inductive invariant |
| `MCSipGateway`, `MCRtpSplice`, `MCBrowserPhone`, `MCCrmClient`, `MCSfuSync` | values of the constants for TLC |
| `SipGatewayProofs` | the inductive invariant and the safety theorems of `SipGateway`, those about the call log at the end |
| `SipGatewayRefinement` | the proof that `SipGateway` implements `PhoneLine` |
| `RtpSpliceProofs` | the inductive invariants of `RtpSplice`, that timestamps keep step, and, for packets in order, that numbers are fresh and losses visible |
| `BrowserPhoneProofs` | the inductive invariant of the page in `BrowserPhone`, and what follows for sockets and microphone; where its messages are and how they move |
| `PhoneCallProofs` | the inductive invariant of all of `BrowserPhone`, and what follows for dials, candidates and the call status |
| `CrmClientProofs` | the inductive invariant and the safety theorems of `CrmClient` |
| `SfuSyncProofs` | the inductive invariant and the safety theorems of `SfuSync` |

Definitions named `...Unchecked`, `...Leaks` and the like, marked *Faulty*, are
not part of a specification.  Each is a plausible mistake in one definition;
putting it in that definition's place makes a property fail, which shows that
the property is able to (`mutants` in `PROJECT.json`).

### SipGateway

One goroutine is one part of the state: `loop[k]` and `cur[k]` are the read
loop of connection `k`; `ending`, `enders` and `byes` are the calls of `endCall`
that are between their critical section and their end, and the `endCall` and
`sendSIPBye` goroutines that `removePeer` has started; `fwd[c]` is a forwarder.
`peers`, `pcall`, `calls`, `rtpPortCounter` are `gw.peers`, `peer.call`,
`gw.calls` and the port counter; `cid`, `owner`, `sock` and `row` are fields of
a `sipCall` and what they stand for.  `stage[c]` is how far the code that makes
an object has come: `stored` is an object `dialSIP` has put into `gw.calls`,
which has no `rtpConn` yet, `wired` one that has it and is not yet in
`peer.call`.

An action is one critical section or one step visible to others.  A dial is
`DialStart`, `DialListen`, then `DialFail` or `DialStore`, `DialWire`,
`DialAttach`, `DialFinish`; a hangup `HangupStart`, `HangupBye`, `HangupEnd`
and `CloseCall`.  `EndCallLocked` is the locked part of `endCall`, used by the
hangup, by `OnSIPBye` and by `AsyncEndCall`; `CloseCall` is the rest.  The PBX
is external: it answers or refuses an INVITE (`PbxAnswer`), sends INVITEs in new
and in existing dialogs, and BYEs at any time after an answer.

Abstractions.  SDP, SIP headers, digest authentication and the retry after 503
decide only whether `dialSIP` succeeds; both results are modelled, at any time
after the INVITE.  The port is its distance from `rtp-port-min`.  A dialog is
named by the object its first INVITE made.  The re-sending of an ACK for a
retransmitted 200 reads `gw.calls` and changes nothing.  The gateway is started with a
working SIP client.  Writes to browser sockets are taken to return.  Ports are taken
from the range by the gateway alone.  `early`, `late`, `replaced` and `stray` record which object met which
race; they are read by properties only, never by a guard.

A port is lost in four ways, and `SocketsAccountedFor` names each: `endCall`
took the call out before `dialSIP` had given it a socket to close (`early`); an
INVITE in its dialog put another object in its place (`replaced`); `handleDial`
attached it after `removePeer` had looked for it (`late`, the run
`gateway_gone`); or an inbound one is in `gw.calls` and no BYE will come for it,
because `Respond` failed or its dialog was over when it was stored (`stray`).
Every other open socket has somebody who is to close it: `Attended` says who.

### PhoneLine

A line is absent, idle, dialling, in a call, clearing or gone; a call is dialled
once, by one line, and `RemoteEnd`, `Hangup` and `Leave` are the only ways out
of it.  `Line` in `SipGateway` maps the gateway to it: a line is in a call from
the moment `peer.call` is set until it is cleared, dialling while the read loop
is in `handleDial` before that, clearing while it is in `handleHangup`.

### RtpSplice

One peer, one forwarder for each stream.  `Receive` takes a packet from the
socket, `Renumber` is the part of `writeSIPRTP` under `rtpMu`, `WriteTrack` the
write after it.  Numbers wrap at `Modulus`; timestamps count frames of 160
ticks.  Lost packets, packets that
are not PCMU media and packets not routed to this peer are never received.
`InOrder` says whether the network keeps the order of a stream.

### BrowserPhone

The browser is single-threaded, and an action is one task of it up to its end
or its first `await`.  `todo` is what the running task has still to do, so that
no other task starts in between (`Task`); promises that take time, timers and
messages start tasks of their own.  `ws`, `pc`, `localStream`, `micPromise` and
`iceCandidateQueue` are sip.js's variables; `timers` holds the calls `sendWS`
has put off by 500 or 1000 ms, of which the oldest of a kind fires first;
`waiters[g]` are the dials and offers that await getUserMedia request `g`.
`connect()` makes a WebSocket and a PeerConnection together, so one member of
`Socket` names both, and the gateway's connection at the other end.
`handler[o]` is how far the chain of promises that answers offer `o` has come;
`conn[p]` is what a PeerConnection has by then.

The gateway is an instance of `PhoneLine`, the specification that `SipGateway`
was proved to implement.  A line is in a call as long as `peer.call` is set, here
as there, also when that call has ended: `removePeer` takes the connection out
of `gw.peers`, where alone `endCall` looks for it (main.go:946), so `PeerFailed`
leaves the line as it is and `RemoteBye` is about connections in `gpeers` only.
`PhoneLine` lets both happen at any time, and this model restricts when; that
`SipGateway` restricts it the same way is by reading the two.  `ReadAuth`, `ReadDial`, `ReadHangup` and
`ReadSignal` are what its read loop does with a message; `Invite`,
`InviteFails`, `InviteAnswered`, `CallStarted` and `HangupDone` what the loop
does next and what it writes.  `BroadcastEnd` and `BroadcastForeign` are
`broadcastToPeers` for this agent's calls and for all others.

Abstractions.  SDP and candidates are left out but for which offer an answer
is to; one candidate stands for all.  The order of messages on a WebSocket is
kept; when it breaks, those on their way are lost.  The page is not reloaded
while a phone is on it (the 401 that reloads it is in `CrmClient`).  The
branch of sip.js for an `answer` from the gateway is left out, for the gateway
never sends one.

### CrmClient

One tab.  `req[r]` is a request in flight: what it asks, with whose token,
for which form, its reply, and whether the component that awaits it is still
mounted.  `Serve`, `Refuse` and `Fail` are the API, the network and the clock
(a token is good for 24 hours); `LoginOk` to `TaskFails` are the rest of each
async function.  `Unmounts` is what goes with the Dashboard; `Loads(t)` is the
page being loaded again, by api() after a 401 or by the user, with whatever token other
tabs have left in localStorage.  `CallEvent` is the Dashboard's handler for the
phone's call events, which loads its data (App.jsx:358-359); when they come is
in `BrowserPhone`, and here they may come at any time.

Abstractions.  Names, numbers, notes and the content of tasks are left out.
The four requests of a `loadData` wait for each other and are one.  A form is
a name, `Customer`; whether it edits or makes a customer is the same to the
client.  A 401 may come at any time, as it does when the token has expired.
`raced` marks a session in which somebody logged in before the profile of the
stored token had come; the history variables `earlier`, `overtaken`, `stale`,
`confirmed` and `failed` are read by properties only.

### SfuSync

`running`, `at` and `attempt` are the call of `signalPeerConnections` that holds
`listLock`, its loop index and its `syncAttempt`; one `SyncPeer` is one round
of the loop in `attemptSync`, and `TryAgain` its `return true`.  Everything that
needs no lock comes between two rounds: answers, clients that leave or hang,
PeerConnections that close.  A call is made by `websocketHandler` and
`addTrack`, which wait for it to return, or by a goroutine that ends with it:
`removeTrack`, the callback for a closed PeerConnection, and the one that
sleeps 3 seconds.  Those of the last kind are one Boolean, `due`, and each may
or may not be the last.  `handler[k]` and `track[k]` are how far
`websocketHandler` and `OnTrack` of client `k` have come.  The client is
`index.html`: it answers every offer, in order.

Abstractions.  A client publishes one track, named like it.  An offer lists
the tracks that are in the PeerConnection's local description, so messages are
only counted.  Pion is external: it refuses a local offer while one is out,
and an answer while none is (`Refused`, `ReadAnswer`), which is what makes the
code try again.  Building the senders and the offer is one step with
`SetLocalDescription` and the write; a PeerConnection that closes in between
counts as closed before.  A write to a client that has gone may fail or be
lost.  Candidates and RTP packets are left out, and `dispatchKeyFrame`, which
only reads.

## Runs

| Run | Instance | Shows |
|---|---|---|
| `gateway_pair` | 2 connections, 2 calls, 2 ports | a dialled call is heard by its connection alone, until a re-INVITE; a gone connection's call is ended, `peer.call` is never overwritten, `PhoneLine` is implemented |
| `gateway_redial` | 1 connection, 3 calls, 2 ports | the inductive invariant; one call per connection, every open socket has somebody to close it or was lost in a named way, a busy line is live but in three named cases, and the port scan complete, with redials, re-INVITEs and a full port range |
| `gateway_live` | 1 connection, 2 calls, writes to the call log that fail, fairness | a final row belongs to a call nobody is on, and is final; hangups and dials return, ended calls fall silent, the calls of gone connections end |
| `rtp_inorder` | 2 streams of 3 packets, numbers modulo 8 | no number twice, timestamps in step, losses visible; the inductive invariant holds |
| `phone_calls` | 1 connection, 2 agents (one with an expired token), 2 dials, 1 broadcast of others, fairness | no dial goes out twice; what the agent sees agrees with the line once nothing is on its way; no dial stays "dialing"; the inductive invariant holds |
| `phone_media` | 2 connections, 1 offer, candidates, 2 prompts | no socket and no microphone is left behind but in the named races; no candidate is forgotten; answers carry the microphone; the inductive invariant holds |
| `crm_tab` | 2 agents, 2 requests, 1 form | the inductive invariant; pages and requests are the agent's own, one customer per form, what was confirmed is shown, disabled buttons wait for a reply |
| `sfu_room` | 2 clients, one of which may hang, 2 attempts, fairness | the inductive invariant; no answer comes too late; when no sync is due everyone has its offer, and in the end everyone sees everyone, except behind a client that hangs |
| `gateway_gone` (violated) | 1 connection, 2 calls | a call attached after `removePeer` is never ended |
| `gateway_reinvite` (violated) | 2 connections, 2 calls | an INVITE of the PBX in a dialled dialog lets a connection without a call hear it |
| `rtp_reorder` (violated) | as `rtp_inorder`, packets out of order | a splice after a late packet uses a number twice |
| `phone_mic` (violated) | 1 connection, 1 prompt | a prompt that is granted after the logout turns on a microphone that nothing turns off |

The four violated runs state what a comment or a document of the repository
says, quoted under `findings`.

**Bounds.**  `Call` bounds the calls of a behaviour, `Conn` the connections (one
is used once; a browser that reconnects is another member), `PortCount` the
port range, `Packets` the length of a stream, `Modulus` the width of the
numbers, `Base` the first numbers.  Two calls are
enough for every race between two dialogs or two connections; the third call of `gateway_redial` lets a call be dialled while
one of the first two has been replaced by a re-INVITE and the other still holds
a port.  Two ports make the scan wrap and run out.  What the safety runs show
for these instances the proofs show for all.  Modulus 8 exceeds the six packets
of two streams of three, as 2^16 exceeds those of a call, and the bases 0 and 6
make them wrap at different places.  The proofs need no more than six
(`Short`); with Modulus 5 TLC finds a number used twice.

In `BrowserPhone` `Socket` bounds the connections, `Click` the dials, `Prompt`
the getUserMedia requests that are open or on, `Foreign` the broadcasts about
calls of others; `Offering` and `Trickling` are the connections on which an
offer and candidates are exchanged, which only add to the states of
`phone_calls` and are left out there.  A PeerConnection that fails needs an
offer, so `PeerFailed` happens in `phone_media` and not during a call: what
agents see after that is covered by the theorems, which hold for every
`Offering`.  Reconnection needs two sockets and is
in `phone_media`, which has no dials: that status and line agree over a
reconnection too is what the proofs add.  For the rest, two dials let one be late for the other, and two agents let
one inherit what the other left.  In `CrmClient` `Request` bounds the requests
in flight and `Customer` the forms; two requests can overtake each other, and
the proofs cover any number.  `Many` is where counting ends: more than one
customer is as wrong as two.

In `SfuSync` two clients are one that fails and one that is ahead of it or
behind it in the list, for either may connect first; `Hanging` is one of them.
Two attempts are one that is not the last and one that is.

**Deadlock** is not checked: calls, connections and packets are finite in an
instance, and when all are used up, with everybody gone, nothing more happens.

**Symmetry** is used in safety runs only, for sets no value of which is named
there: `Conn` and `Call`, `Agent` and `Request`.

**Fairness** is weak and only for steps a goroutine of the gateway takes by
itself: the scheduler runs it, no lock is held for long, and what it waits for
has a timer (60 s in `dialSIP`, 10 s in `registerSIP` and `sendSIPBye`, 1 s in
the forwarder's read).  `DialFail \/ DialStore` is one fair step: either the
PBX's answer or the timer ends `dialSIP`.  Nothing is assumed of browsers, of
PeerConnections or of the PBX.  `DialReturns` starts when the INVITE is sent,
since the bound on calls may leave a dial without an object before that.
In `BrowserPhone` it is weak too, for what a browser does by itself (the rest
of a task, timers, delivered messages) and for the gateway's read loop and
broadcasts.  Nothing is assumed of agents, prompts, the PBX's BYEs and the
network, so `DialingEnds` excepts a prompt that stays open and a socket that is
not.
In `SfuSync` it is strong for whoever waits for `listLock`, since a Go mutex is
handed to a goroutine that has waited for a millisecond; a closed
PeerConnection ends its track's read loop, whose `removeTrack` waits like the
others.  It is weak for the rounds of a pass, for a page that neither hangs nor
has gone, and for the read loop.  Nothing is assumed of who connects,
publishes, fails or leaves.  `Blocked` is the exception: an offer that is never
answered makes every pass begin again, so those behind it wait as long as the
hanging client is connected.

## Proofs

For every set of connections and calls, every port range, whatever the
database answers; every set of RTP streams of any length, any place where
numbers wrap around and packets in any order, but that numbers are fresh and
losses visible only under the two hypotheses below; every set of agents, requests and
forms; every set of the page's sockets, dials, prompts and agents; and every set
of clients of the SFU and number of attempts.  Writes to the call log fail in
`gateway_live` only, and a call lasts less than a second in none of the runs; the theorems
hold with both.

| Theorem | States |
|---|---|
| `GatewayInvariant`, `GatewayTypes` | `IndInv`, and with it `TypeOK` of `SipGateway` |
| `OneCall` | `OneCallPerConnection` |
| `AudioIsPrivate` | `HearsOnlyItsOwnCall` |
| `NoOtherSocketLeak` | `SocketsAccountedFor` |
| `BusyMeansLive` | `BusyLineIsLive` |
| `GoneIsClean` | `GoneLeavesNoCall` |
| `NoOverwrite` | `NoCallIsOverwritten` |
| `ScanIsComplete` | `ScanFindsAFreePort` |
| `FinalRow` | `FinalRowMeansHungUp` |
| `DurationStays` | `DurationIsKept` |
| `GatewayRefinesLines` | `Spec => LineSpec` |
| `LinesStaySeparate` | in `PhoneLine`, two lines are never on the same call |
| `SpliceInvariant` | `SpliceInv`, with `TypeOK` of `RtpSplice` |
| `TimestampsKeepStep` | `StampsKeepStep` |
| `FreshInvariant` (`InOrder`, `Short`) | `FreshInv` |
| `NumbersStayFresh` (`InOrder`, `Short`) | `NumbersAreFresh` |
| `LossesShow` (`InOrder`, `Short`) | `LossesStayVisible` |
| `PageInvariant` | `PageInv` |
| `NoOtherSocketIsOpen` | `SocketsAreOwned` |
| `OnlineIsTrue` | `OnlineIsRight` |
| `MicrophoneGoesWithSession` | `MicrophoneIsReleased` |
| `AnswersCarryMicrophone` | `AnswerCarriesMicrophone` |
| `PhoneInvariant`, `TypesAreKept` | `PhoneInv`, and with it `TypeOK` of `BrowserPhone` |
| `DialsGoOutOnce` | `DialledOnce` |
| `CandidatesReachPc` | `CandidatesArrive` |
| `IdleIsTrue` | `IdleMeansNoCall` |
| `BusyIsTrue` | `BusyMeansCall` |
| `DialsArriveNew` | `DialsAreNew`: of a dial the gateway begins with, no line has made a call |
| `PhoneUsesLines` | `Spec => Gateway!Spec`, of `BrowserPhone` |
| `CallsAreOnOneLine` | in `BrowserPhone`, two connections are never on the same call |
| `ClientInvariant`, `ClientTypes` | `ClientInv` and `TypeOK` of `CrmClient` |
| `TokenIsTheAgents` | `AgentMatchesToken` |
| `TasksAreTheAgents` | `NobodyElsesTasks` |
| `FormMakesOneCustomer` | `OneCustomerPerForm` |
| `DisabledButtonsWait` | `BusyFormsWait` |
| `ConfirmedShows` | `ConfirmedIsShown` |
| `RoomInvariant` | `SfuInv`, with `TypeOK` of `SfuSync` |
| `OneOfferAtATime` | `AnswersMatch` |
| `NothingIsForgotten` | `RestMeansSynced` |

Assumptions: the port range is not empty, `None` is no connection, call,
number, agent, request, form, dial or prompt, connections and dials are
different things, `Seconds` and `DBOutcome` are non-empty sets of numbers and of
Booleans, and there is at least one attempt.

The argument.  None of the properties is inductive alone.  `OneCall`, for one,
needs that a registered call is in the hands of its connection, as `peer.call`
or as what its read loop is working on (`RegisteredIsHeld`); that a read loop
works on an object of its own (`LoopsHold`, `ObjectsAreMade`); that a non-nil
`peer.call` points to a call its connection has dialled (`PeersHold`); and that
`gw.calls` files each object under its own Call-ID (`RegistryMatches`).  The
leaks need `EndingIsKnown` and `StoredIsAccountedFor`: an object that was stored
is still there, or went through `endCall`, or was replaced.  That one which is
still there will be ended is more.  For a dialled call it is `RegisteredIsHeld`
and `RemovedIsEnding`, which makes `removePeer` answer for the call it leaves
behind.  An inbound call has only its dialog: it is ended by the PBX, or by
whoever has that dialog in hand (`InboundIsHeld`), for a re-INVITE may have put
it in the place of a dialled one.  So one must know that a dialog is named by
the object of its first INVITE and has no other before that is answered
(`DialogsAreNamed`), that what stands in `gw.calls` under a dialog whose own
call is not there yet or no more is stray (`StrayAreOutside`), and that the BYE
of `removePeer` leaves no other (`ByesEnd`).
`ClosingIsExclusive` says that the `endCall` of a hangup closes for one read
loop only, which the refinement needs for `CloseCall`.  `IndInv` is their
conjunction.  Each conjunct has a lemma that every step keeps it
(`LoopsHoldStep`, ...), and `StepHolds` puts them together.  The refinement has
one lemma for each action that moves a line, and one for those that do not.
`RowInv` carries the theorems on the call log: a final row belongs to a call
whose dial is complete and that no `peer.call` points to, so neither
`DialFinish` nor a second `HangupStart` can reach it.

`BusyLineIsLive` is about every connection, also one that `removePeer` has taken
out of `gw.peers` while its read loop goes on.  That is its third exception, and
was found by asking for it: `endCall` passes over such a connection, so its
`peer.call` keeps a call that is over until the browser hangs up.

That the port scan is complete needs a first free port: of the free ports at or
after where it starts, or else before that, there is a least one (`LeastPort`,
by well-founded descent through finite sets), and it is the one the scan takes.

In `RtpSplice` the distance between the next sequence number and the next
timestamp (`Gap`) is chosen by the first packet and never changes, for a splice
computes both offsets from the same pair (`GapStays`).  The offsets in force
bring every packet of their stream to that distance (`OffsetsFit`), since the
PBX numbers both by packet (`WorkIsOwn`).  Distances are remainders; the lemmas
on them name the multiple of `Modulus` by which two numbers differ.

That numbers are fresh is not true of every call, and its theorems say when it
is.  `InOrder`: the network keeps the order of each stream; without it the
run `rtp_reorder` has the counterexample.  `Short`: all packets of the streams
are no more than there are numbers, 2^16, which is 22 minutes of audio for one
browser; after that numbers must come again, and the receiver tells them apart
by how long ago the first was.  `FreshInv` counts numbers back from the next
one.  Each lies `k` places behind it, and `k` never exceeds the packets that
have passed (`NumbersAreBehind`): a packet that is numbered brings the next
number one place on after a splice, and `n - m` places when `m` was the last
of its stream, and as many packets pass (`NextMoves`, `PassedGrows`).  This
needs the packet in hand to be newer than all that were numbered of its stream
(`WorkIsNext`) and the offset in force to be that of the newest
(`LastIsNumbered`), which is what a late packet breaks.  Numbers fewer than
`Modulus` places back all differ (`BackDiffer`), and so a packet after a loss is
as far from the one before it as the PBX sent it, or a packet of another call
lies between them (`RenumberShowsLosses`).

In `BrowserPhone` the invariant of the page (`PageInv`) needs nothing of the
messages or the gateway: the globals of sip.js and the sockets are enough.  A
new socket is made only when `ws` is not in use, so what is in use is `ws` or
was left behind by one of the two steps that add to `orphaned`.  A microphone
request is opened only when none is open and no stream is on (`OnePrompt`), and
only in a session (`SessionHasSocket`) or for a socket that was left behind.
The present pc has the stream's track (`TracksAreAttached`) because `connect`
and `ensureMicStream` both attach it, whichever comes last.

The rest of `BrowserPhone` is about messages, and `PhoneInv` adds it.  A dial
goes out once because it is in one place: in the running task, with one
microphone request, or with one timer, and on the page only while it has not
been sent (`DialsAreSingle`).  Only two kinds of message ask for the
microphone, and `Moves` says for both what a step may do with one; the lemma
`EveryStepMoves` checks every step against it.  Candidates need the same for
offers (`OffersAreSingle`): the gateway sends one on a connection, so no second
chain begins for it and puts the first, which is draining the queue, out of
its place (`QueueIsDrained`).

The status the agent sees is compared with the line not as it is but as it
will be.  `WillShow(q, st, v)` is what the Dashboard, showing `st` now, will
show after all messages of `q`: what the last call event among them says.
Whoever will be shown no call while the line has one has a hangup on its way
(`IdleIsHangup`).  Whoever will be shown a call has a dial on its way or at
work, or is in that call, or will hear of its end (`BusyIsCall`).  Messages
that are handled leave `WillShow` as it was, so only the steps that write a
call event, move the line or set the status by hand are left, and each does
two of these at once.  At rest nothing is on its way, and the two are
`IdleMeansNoCall` and `BusyMeansCall`.  A PeerConnection that fails changes
neither line nor status: the browser shows the call, and the gateway says
"Already in a call", until the agent hangs up.  `LinesFit` says when a line may move:
the gateway works on a dial only while the line is not free.

`BrowserPhone` stands on `PhoneLine` in place of `SipGateway`, which implements
it (`GatewayRefinesLines`).  `PhoneUsesLines` is the other half: in every step
of the browsers and of their connections a line does what `PhoneLine` lets it
do, so nothing is asked of the gateway that it was not shown to do.
`PhoneLine` dials a call once only, where `handleDial` takes whatever number
it is sent; a model in which that guard holds a dial back would hide what the
code does with it.  `DialsArriveNew` says that it never does: a dial that was
sent is on its way on one connection or in the hands of one, and no line has
dialled it before (`DialsArriveOnce`).

The proof, and TLC with two or three sockets, showed the two properties
false as they were first stated.  When `sendWS` finds its WebSocket closing it
calls `connect()` (sip.js:233), and the Dashboard goes on showing the call of
the connection that is gone: `BusyMeansCall` is about a WebSocket that is the
only one (`Alone`).  And a WebSocket that an earlier session or an `onclose`
has left behind still brings call events, among them the end of a call that
is not the present one: `IdleMeansNoCall` excepts the time until it is closed
(`LeftBehind`).

In `CrmClient` the token is the agent's (`TokensMatch`) because one request at a
time may bring an agent and none beside one (`OneSession`), and that because an
answer finds the component that asked, or knows it has gone (`SomebodyWaits`).
A form makes one customer because a button that can be clicked is of a form
that was not sent, or has failed (`ReadyMeansUnsent`), so that there is one
request for it (`OneSave`).  What was confirmed is shown at rest because a save
that was answered is in the database (`ConfirmedAreSaved`), and the load that
follows it is the newest: it stands after all that are awaited
(`LoadsAreOrdered`), so none of them makes it overtaken, and the database
answers it with all that was confirmed (`NewestLoadShows`).  When it arrives,
the rest are overtaken.  `LoadMoves` says that every step leaves the awaited
loads alone, forgets them, sends one or takes one.  Each other part of
`ClientInv` has a lemma with one step per action.  The actions that replace all
requests at once have a lemma of their own that says what becomes of each
(`NewDashboard`, `NewPage`, `NoProfile`).

In `SfuSync` the step that matters is `PassLeavesCurrent`: a PeerConnection in
the list that is closed or lacks an offer is ahead of the pass that runs
(`at <= i`), or some call is still waiting (`Awaited`).  A new attempt moves the
pass back to the first; one that gives up leaves `due`; a change of the tracks
or of the list makes a caller wait.  That an offer gives a client what it should
see needs `TracksAreReceived`: a track is sent on only after its publisher has
answered, so the SFU knows it as received and does not send it back.

Model-checked only: the liveness properties, which are beyond the prover.  All
other properties that the passing runs check are theorems.

## Seen while modelling

These are not stated as properties, for no document of the repository says
otherwise; the models contain them.

* A BYE that comes while `handleDial` is between storing its call and attaching
  it takes the call out of `gw.calls` and closes nothing: the dial goes on with a
  call that nobody can end (`early`).
* When `Respond` fails for an inbound call, the caller hears of nothing and the
  gateway keeps the call, its port and its forwarder (`stray`).
* After a PeerConnection has failed in a call, `peer.call` stays set though the
  call is over: dials are answered "Already in a call" until a hangup.
* `onSIPInvite` makes no `peer.call` point to its call, and `forwardBrowserTrack`
  sends to `peer.call` only: idle browsers hear an inbound call, and nobody's
  microphone reaches it, where `sip-webrtc-gateway/README.md:5` says
  bidirectional.
* `onSIPBye` tells every browser "call-ended", so a Dashboard on another call
  shows its own as over (`misled`); a second dial in a call does the same by its
  dial-error (`overlap`).
* The profile of a stored token that comes after a login names the agent before
  (`raced`), and a 401 for a request of an earlier session ends the present one.
* Replies to several `loadData` are shown as they come, the newer before the
  older or after it (`stale`).
* A message that `sendWS` has put off, or a dial whose prompt is open over a
  logout and a login, goes out on the connection that is there by then, which
  may be the next agent's.
* Two connections may be open at once: the `onclose` of an old WebSocket clears
  `ws` although a new one is there (`SocketsAreOwned` names this race and that
  of a socket that is still connecting at a logout).
* A reconnection by `sendWS` leaves the call status of the connection before it:
  the Dashboard shows a call that the new connection does not have.
* A wrong password is a 401, and a 401 reloads the page: the error that
  `LoginPage` would show is gone with it.
* `editingCustomer` is null at first, which is the value for a new customer:
  each new Dashboard opens that form.
* `pendingRenegotiate` is never set while an offer is out, for a peer's only
  renegotiation is its first.
* A dial that fails leaves the row that `createCallLog` made at "ringing", which
  is none of the statuses `db.go:46` lists (`DialFail`).
* A client of the SFU that hangs with an offer out stops the renegotiation of all
  clients that are behind it in the list, and every pass renegotiates those
  ahead of it, every 3 seconds (`Blocked`).
* A call that the PBX ends keeps its row at "answered" with duration 0.

## Plan

In this order; each module comes with its runs.

1. `RtpLatch`: where browser audio is sent.  Latching, keepalive until
   latched, track replacement; abstractly, one destination per call that
   changes at most once.
2. `Lobby`: the game's signalling server with its two kinds of locks, and the
   clients that poll it.  Self-deadlock, indices of players, deleted lobbies.
3. `Softphone`: listeners beside the reader, registration, invitations.

Of the properties the passing runs check only the liveness ones have no theorem.
What is worth proving next is of another kind: what two components promise each
other, as `GatewayRefinesLines` and `PhoneUsesLines` do for gateway and
browser: that the sessions of `BrowserPhone` are those of `CrmClient`, with
one `token`, is so far by reading.  In `RtpSplice`, freshness for calls of any
length says that a number comes again only after `Modulus` others.

## Not modelled

The media examples, `sip-to-webrtc`, `save-to-webm` and the
Flutter client, which are I/O around libraries and have no state that more than
one party changes.  The gateway's own `index.html`, an older page without
reconnection.  SQL, and what of the API no page calls.  Writes to a browser
that does not read, which block `broadcastToPeers` while it holds `gw.mu`:
whether they return depends on TCP buffers outside the code.  The gateway's
registration with the PBX and its keepalives.
