----------------------------- MODULE BrowserPhone -----------------------------
(***************************************************************************)
(* The agent's browser (sip.js and the Dashboard of App.jsx) against the   *)
(* gateway: WebSockets that open, close and are replaced, the microphone,  *)
(* the PeerConnection that answers the gateway's offer, dials, hangups and *)
(* the call status the agent sees.                                         *)
(*                                                                         *)
(* JavaScript runs one task at a time.  A step of the browser is one task  *)
(* up to its end; where a task has more to do than one action says, the    *)
(* rest is in "todo", and no other task starts before that is empty.       *)
(* Promises that take time (getUserMedia, the operations of a              *)
(* PeerConnection) and timers end in tasks of their own.                   *)
(*                                                                         *)
(* The gateway is the telephone line of PhoneLine, which SipGateway has    *)
(* been shown to implement, with the messages handleWebSocket reads and    *)
(* writes.  connect() makes a WebSocket and a PeerConnection together, so  *)
(* a member of Socket names both, and the gateway's connection as well;    *)
(* each of the gateway's connections sends one offer.                      *)
(***************************************************************************)
EXTENDS Naturals, Sequences

CONSTANTS
    Socket,    \* WebSockets the page may open: the bound on connections
    Click,     \* clicks on a Call button: the bound on dials
    Prompt,    \* getUserMedia requests that may be open at a time
    Agent,     \* agents that log in
    Expired,   \* those whose token the gateway no longer accepts
    Offering,  \* connections to which the gateway sends an offer
    Trickling, \* connections on which both sides send ICE candidates
    Foreign,   \* broadcasts about calls of others: their bound
    None       \* null

ASSUME NoneAssumption == None \notin Socket \cup Click \cup Prompt \cup Agent
ASSUME KindsAssumption == Socket \cap Click = {}
ASSUME ForeignAssumption == Foreign \in Nat

VARIABLES
    token,             \* the session: api.js's token and App's agent
    callStatus,        \* what the Dashboard shows
    wsConnected,
    ws, pc, localStream, micPromise, iceCandidateQueue,   \* sip.js
    timers,            \* sendWS calls put off by setTimeout, oldest first
    todo,              \* what the running task has still to do, as messages
    sock,              \* readyState of each WebSocket
    prompt,            \* each getUserMedia request and its stream
    waiters,           \* the dials and offers that await it, in order
    conn,              \* each PeerConnection
    handler,           \* the promise chain that answers each offer
    toGw, toBr,        \* messages on each WebSocket
    line, on, dialled, \* the gateway's lines, see PhoneLine
    authed,            \* connections with an agentID
    gpeers,            \* keys of gw.peers
    dialing,           \* the dial each connection's handleDial is working on
    ended,             \* lines whose call the PBX ended, yet to be broadcast
    signalled,         \* of "candidate", "offer", "answer": which were exchanged
    foreign,           \* broadcasts left
    clicked,           \* dials the agent has made
    sends, orphaned, abandoned, overlap, misled   \* history; no action reads it

appVars == <<token, callStatus, wsConnected>>
pageVars == <<ws, pc, iceCandidateQueue, micPromise, sock, prompt, conn>>
connectVars == <<pageVars, handler>>
sendVars == <<connectVars, timers, toGw, sends>>
gwVars == <<line, on, dialled, authed, gpeers, dialing, ended, signalled, foreign>>
raceVars == <<orphaned, abandoned, overlap, misled>>
histVars == <<clicked, raceVars>>
vars == <<appVars, sendVars, localStream, todo, waiters, toBr, gwVars,
          histVars>>

Gateway == INSTANCE PhoneLine WITH Conn <- Socket, Call <- Click

Msg(e, a) == [ev |-> e, arg |-> a]
NewConn == [remote |-> None, stable |-> TRUE, tracks |-> {},
            trickled |-> FALSE]
NoChain == [stage |-> "none", pc |-> None]

\* What waits for the microphone, what sendWS sends, and what the gateway writes.
Asking == [ev : {"dial"}, arg : Click] \cup [ev : {"offer"}, arg : Socket]
Sendable == [ev : {"dial"}, arg : Click] \cup [ev : {"hangup"}, arg : {None}]
            \cup [ev : {"answer", "candidate"}, arg : Socket \cup {None}]
Timer == [msg : Sendable, ms : {500, 1000}]
CallEvent == {"call-started", "call-ended", "dial-error"}
Event == CallEvent \cup {"candidate", "offer", "auth-ok", "auth-error"}
Stage == {"none", "remote", "drain", "local"}

\* The page: its sockets, microphone and PeerConnections.
PageTypes ==
    /\ ws \in Socket \cup {None}
    /\ pc \in Socket \cup {None}
    /\ localStream \in Prompt \cup {None}
    /\ micPromise \in Prompt \cup {None}
    /\ sock \in [Socket -> {"unused", "connecting", "open", "closing", "closed"}]
    /\ prompt \in [Prompt -> {"free", "pending", "live"}]
    /\ conn \in [Socket -> [remote : Socket \cup {None}, stable : BOOLEAN,
                            tracks : SUBSET Prompt, trickled : BOOLEAN]]
    /\ handler \in [Socket -> [stage : Stage, pc : Socket \cup {None}]]

\* Messages, wherever they are.
QueueTypes ==
    /\ iceCandidateQueue \in Seq(Socket)
    /\ todo \in Seq(Asking \cup Sendable \cup {Msg("disconnect", None)})
    /\ timers \in Seq(Timer)
    /\ waiters \in [Prompt -> Seq(Asking)]
    /\ toGw \in [Socket -> Seq(Sendable \cup [ev : {"auth"}, arg : Agent])]
    /\ toBr \in [Socket -> Seq([ev : Event, arg : {None}])]

GatewayTypes ==
    /\ Gateway!TypeOK
    /\ authed \in SUBSET Socket
    /\ gpeers \in SUBSET Socket
    /\ dialing \in [Socket -> Click \cup {None}]
    /\ ended \in SUBSET Socket
    /\ signalled \in [Socket -> SUBSET {"candidate", "offer", "answer"}]
    /\ foreign \in 0 .. Foreign

HistoryTypes ==
    /\ clicked \in SUBSET Click
    /\ sends \in [Click -> Nat]
    /\ orphaned \in SUBSET Socket
    /\ abandoned \in BOOLEAN
    /\ overlap \in SUBSET Socket
    /\ misled \in SUBSET Socket

TypeOK ==
    /\ token \in Agent \cup {None}
    /\ callStatus \in {"idle", "dialing", "connected"}
    /\ wsConnected \in BOOLEAN
    /\ PageTypes
    /\ QueueTypes
    /\ GatewayTypes
    /\ HistoryTypes

Init ==
    /\ token = None /\ callStatus = "idle" /\ wsConnected = FALSE
    /\ ws = None /\ pc = None /\ localStream = None /\ micPromise = None
    /\ iceCandidateQueue = <<>> /\ timers = <<>> /\ todo = <<>>
    /\ sock = [s \in Socket |-> "unused"]
    /\ prompt = [g \in Prompt |-> "free"]
    /\ waiters = [g \in Prompt |-> <<>>]
    /\ conn = [s \in Socket |-> NewConn]
    /\ handler = [s \in Socket |-> NoChain]
    /\ toGw = [s \in Socket |-> <<>>]
    /\ toBr = [s \in Socket |-> <<>>]
    /\ Gateway!Init
    /\ authed = {} /\ gpeers = {} /\ ended = {}
    /\ dialing = [s \in Socket |-> None]
    /\ signalled = [s \in Socket |-> {}]
    /\ foreign = Foreign
    /\ clicked = {}
    /\ sends = [d \in Click |-> 0]
    /\ orphaned = {} /\ abandoned = FALSE
    /\ overlap = {} /\ misled = {}

-----------------------------------------------------------------------------
(***************************************************************************)
(* sip.js: the functions its handlers share.                               *)
(***************************************************************************)
InUse(s) == sock[s] \in {"connecting", "open"}

\* Names for what comes next; None when the bound is reached.
FreePrompt == IF \E g \in Prompt : prompt[g] = "free"
              THEN CHOOSE g \in Prompt : prompt[g] = "free" ELSE None
NextSocket == IF \E s \in Socket : sock[s] = "unused"
              THEN CHOOSE s \in Socket : sock[s] = "unused" ELSE None
NextDial == IF Click # clicked THEN CHOOSE d \in Click \ clicked : TRUE ELSE None

\* Faulty: the request that is open is not found.
RequestMicAgain ==
    IF localStream = None
    THEN \E g \in Prompt : /\ g = FreePrompt
                           /\ prompt' = [prompt EXCEPT ![g] = "pending"]
                           /\ micPromise' = g
    ELSE UNCHANGED <<prompt, micPromise>>

\* ensureMicStream, the part before anyone awaits its result.
RequestMic ==
    IF localStream = None /\ micPromise = None
    THEN \E g \in Prompt : /\ g = FreePrompt
                           /\ prompt' = [prompt EXCEPT ![g] = "pending"]
                           /\ micPromise' = g
    ELSE UNCHANGED <<prompt, micPromise>>

\* m, a dial or an offer, goes on after ensureMicStream: at the end of this
\* task when there is a stream, else when the request that is open is settled.
AwaitMic(m) ==
    /\ RequestMic
    /\ IF localStream # None
       THEN todo' = <<m>> /\ UNCHANGED waiters
       ELSE /\ waiters' = [waiters EXCEPT ![micPromise'] = Append(@, m)]
            /\ UNCHANGED todo

\* A closed PeerConnection keeps nothing, and what was asked of it never ends.
Closed(p) == [s \in Socket |-> IF s = p THEN NewConn ELSE conn[s]]
Chains(p) == [o \in Socket |-> IF handler[o].pc = p THEN NoChain ELSE handler[o]]

\* Faulty: only ensureMicStream adds tracks.
NotReattached == {}

\* The stream that is there when a new pc is made.
Reattached == IF localStream = None THEN {} ELSE {localStream}

connect ==
    IF ws # None /\ InUse(ws) THEN UNCHANGED connectVars
    ELSE \E s \in Socket :
            /\ s = NextSocket
            /\ sock' = [sock EXCEPT ![s] = "connecting"]
            /\ ws' = s
            /\ pc' = s
            /\ iceCandidateQueue' = <<>>
            /\ conn' = [Closed(pc) EXCEPT ![s].tracks = Reattached]
            /\ handler' = Chains(pc)
            /\ RequestMic

\* "rest" are the timers that stay.
sendWS(m, rest) ==
    \/ /\ ws = None
       /\ timers' = rest
       /\ UNCHANGED <<connectVars, toGw, sends>>
    \/ /\ ws # None /\ sock[ws] = "open"
       /\ toGw' = [toGw EXCEPT ![ws] = Append(@, m)]
       /\ sends' = IF m.ev = "dial" THEN [sends EXCEPT ![m.arg] = @ + 1] ELSE sends
       /\ timers' = rest
       /\ UNCHANGED connectVars
    \/ /\ ws # None /\ sock[ws] = "connecting"
       /\ timers' = Append(rest, [msg |-> m, ms |-> 500])
       /\ UNCHANGED <<connectVars, toGw, sends>>
    \/ /\ ws # None /\ sock[ws] \in {"closing", "closed"}
       /\ connect
       /\ timers' = Append(rest, [msg |-> m, ms |-> 1000])
       /\ UNCHANGED <<toGw, sends>>

\* A task may start: the one before has come to its end.
Task == todo = <<>>
LoggedIn == token # None

-----------------------------------------------------------------------------
(***************************************************************************)
(* The agent.                                                              *)
(***************************************************************************)

\* handleLogin, then the Dashboard's effect: a new event handler, connect().
Login(a) ==
    /\ Task /\ ~ LoggedIn
    /\ token' = a
    /\ callStatus' = "idle"
    /\ wsConnected' = FALSE
    /\ connect
    /\ UNCHANGED <<localStream, timers, todo, waiters, toGw, toBr, sends,
                   gwVars, histVars>>

\* sip.dial up to its await.
dial(d) ==
    /\ Task /\ LoggedIn
    /\ d = NextDial
    /\ clicked' = clicked \cup {d}
    /\ callStatus' = "dialing"
    /\ AwaitMic(Msg("dial", d))
    /\ UNCHANGED <<token, wsConnected, ws, pc, iceCandidateQueue, sock, conn, timers,
                   toGw, sends, localStream, handler, toBr, gwVars, raceVars>>

\* The dial pad has its Call button only when the status is idle.
handleDial(d) == callStatus = "idle" /\ dial(d)

\* The customer list has one always.
handleCallCustomer(d) == dial(d)

\* Faulty: the gateway is not told.
handleHangupSilently ==
    /\ Task /\ LoggedIn
    /\ callStatus # "idle"
    /\ callStatus' = "idle"
    /\ UNCHANGED <<token, wsConnected, sendVars, localStream, todo, waiters, toBr, gwVars,
                   histVars>>

handleHangup ==
    /\ Task /\ LoggedIn
    /\ callStatus # "idle"
    /\ sendWS(Msg("hangup", None), timers)
    /\ callStatus' = "idle"
    /\ UNCHANGED <<token, wsConnected, localStream, todo, waiters, toBr,
                   gwVars, histVars>>

\* handleLogout: sip.disconnect begins with a hangup.
handleLogout ==
    /\ Task /\ LoggedIn
    /\ sendWS(Msg("hangup", None), timers)
    /\ todo' = <<Msg("disconnect", None)>>
    /\ UNCHANGED <<appVars, localStream, waiters, toBr, gwVars, histVars>>

\* Faulty: the socket is forgotten, not closed.
WithWs == sock

\* ws is closed only if it is open: one that is still connecting is left to
\* itself.
WithoutWs == [s \in Socket |-> IF s = ws /\ sock[s] = "open" THEN "closing" ELSE sock[s]]

\* The rest of sip.disconnect and of handleLogout.
disconnect ==
    /\ todo = <<Msg("disconnect", None)>>
    /\ todo' = <<>>
    /\ prompt' = [g \in Prompt |-> IF g = localStream THEN "free" ELSE prompt[g]]
    /\ localStream' = None
    /\ pc' = None
    /\ sock' = WithoutWs
    /\ ws' = None
    /\ micPromise' = None
    /\ iceCandidateQueue' = <<>>
    /\ token' = None
    /\ callStatus' = "idle"
    /\ wsConnected' = FALSE
    /\ orphaned' = orphaned \cup {s \in Socket : s = ws /\ sock[s] = "connecting"}
    /\ abandoned' = (abandoned \/ \E g \in Prompt : prompt[g] = "pending")
    /\ conn' = Closed(pc)
    /\ handler' = Chains(pc)
    /\ UNCHANGED <<timers, toGw, sends, waiters, toBr, gwVars, clicked, overlap, misled>>

-----------------------------------------------------------------------------
(***************************************************************************)
(* Continuations and timers.                                               *)
(***************************************************************************)

\* The task goes on to a sendWS: dial after its await, an answer, a candidate.
\* The message goes out on whatever ws is now.
ResumeSend ==
    /\ todo # <<>> /\ Head(todo).ev \in {"dial", "answer", "candidate"}
    /\ todo' = Tail(todo)
    /\ sendWS(Head(todo), timers)
    /\ UNCHANGED <<appVars, localStream, waiters, toBr, gwVars, histVars>>

\* The offer's chain after its await: setRemoteDescription on whatever pc is
\* now; with none the chain ends in its catch.
ResumeOffer ==
    /\ todo # <<>> /\ Head(todo).ev = "offer"
    /\ todo' = Tail(todo)
    /\ handler' = [handler EXCEPT ![Head(todo).arg] =
                       IF pc = None THEN NoChain ELSE [stage |-> "remote", pc |-> pc]]
    /\ UNCHANGED <<appVars, pageVars, timers, toGw, sends, localStream, waiters, toBr,
                   gwVars, histVars>>

\* The user grants the request: the track goes to the present pc, and all who
\* wait for this request go on.
MicGranted(g) ==
    /\ Task
    /\ prompt[g] = "pending"
    /\ prompt' = [prompt EXCEPT ![g] = "live"]
    /\ localStream' = g
    /\ conn' = IF pc = None THEN conn ELSE [conn EXCEPT ![pc].tracks = @ \cup {g}]
    /\ todo' = waiters[g]
    /\ waiters' = [waiters EXCEPT ![g] = <<>>]
    /\ UNCHANGED <<appVars, ws, pc, iceCandidateQueue, micPromise, sock, timers, toGw,
                   sends, handler, toBr, gwVars, histVars>>

\* The user or the browser refuses it; the next ensureMicStream asks again.
MicDenied(g) ==
    /\ Task
    /\ prompt[g] = "pending"
    /\ prompt' = [prompt EXCEPT ![g] = "free"]
    /\ micPromise' = None
    /\ todo' = waiters[g]
    /\ waiters' = [waiters EXCEPT ![g] = <<>>]
    /\ UNCHANGED <<appVars, ws, pc, iceCandidateQueue, sock, conn, localStream, timers,
                   toGw, sends, handler, toBr, gwVars, histVars>>

\* Faulty: an interval, which stays.
AllTimers(i) == timers

OtherTimers(i) == SubSeq(timers, 1, i - 1) \o SubSeq(timers, i + 1, Len(timers))

\* Timers fire in the order of their times: one that was set before another
\* and waits no longer than it comes first.
TimerFires(i) ==
    /\ Task
    /\ i \in DOMAIN timers
    /\ \A j \in 1 .. i - 1 : timers[j].ms > timers[i].ms
    /\ sendWS(timers[i].msg, OtherTimers(i))
    /\ UNCHANGED <<appVars, localStream, todo, waiters, toBr, gwVars, histVars>>

-----------------------------------------------------------------------------
(***************************************************************************)
(* Events of the WebSockets.  Handlers look at the globals ws and pc, not  *)
(* at the socket they were set on.                                         *)
(***************************************************************************)
SocketOpens(s) ==
    /\ Task
    /\ sock[s] = "connecting" /\ line[s] # "absent"
    /\ sock' = [sock EXCEPT ![s] = "open"]
    /\ wsConnected' = LoggedIn
    /\ toGw' = IF LoggedIn THEN [toGw EXCEPT ![s] = Append(@, Msg("auth", token))]
                           ELSE toGw
    /\ UNCHANGED <<token, callStatus, ws, pc, iceCandidateQueue, micPromise, prompt,
                   conn, timers, sends, localStream, todo, waiters, handler, toBr,
                   gwVars, histVars>>

\* Faulty: the Dashboard is not told.
StillOnline == UNCHANGED wsConnected

Offline == wsConnected' = FALSE

\* onclose, whichever socket it is, clears ws.
SocketCloses(s) ==
    /\ Task
    /\ sock[s] \in {"connecting", "open", "closing"}
    /\ sock' = [sock EXCEPT ![s] = "closed"]
    /\ Offline
    /\ ws' = None
    /\ orphaned' = orphaned \cup ({ws} \ {s, None})
    /\ toBr' = [toBr EXCEPT ![s] = <<>>]
    /\ UNCHANGED <<token, callStatus, pc, iceCandidateQueue, micPromise, prompt, conn,
                   timers, toGw, sends, localStream, todo, waiters, handler, gwVars,
                   clicked, abandoned, overlap, misled>>

\* A close frame arrives; the gateway sends none, a proxy may.
SocketClosing(s) ==
    /\ Task
    /\ sock[s] = "open"
    /\ sock' = [sock EXCEPT ![s] = "closing"]
    /\ UNCHANGED <<appVars, ws, pc, iceCandidateQueue, micPromise, prompt, conn, timers,
                   toGw, sends, localStream, todo, waiters, handler, toBr, gwVars,
                   histVars>>

\* A message of one of these kinds is handled; a socket that is closing
\* delivers none.
Receive(s, kinds) ==
    /\ Task
    /\ sock[s] = "open"
    /\ toBr[s] # <<>> /\ Head(toBr[s]).ev \in kinds
    /\ toBr' = [toBr EXCEPT ![s] = Tail(@)]

OnOffer(s) ==
    /\ Receive(s, {"offer"})
    /\ AwaitMic(Msg("offer", s))
    /\ UNCHANGED <<appVars, ws, pc, iceCandidateQueue, sock, conn, handler, timers, toGw,
                   sends, localStream, gwVars, histVars>>

\* Without a pc the handler throws, and onmessage catches.
OnCandidate(s) ==
    /\ Receive(s, {"candidate"})
    /\ iceCandidateQueue' = IF pc # None /\ conn[pc].remote = None
                             THEN Append(iceCandidateQueue, s) ELSE iceCandidateQueue
    /\ UNCHANGED <<appVars, ws, pc, micPromise, sock, prompt, conn, timers, toGw, sends,
                   localStream, todo, waiters, handler, gwVars, histVars>>

\* Faulty: a status that no branch of the Dashboard knows.
ShowsRinging(status) ==
    callStatus' = IF LoggedIn /\ status = "connected" THEN "ringing" ELSE "idle"

\* The Dashboard's event handler, as long as there is a Dashboard.
Shows(status) == callStatus' = IF LoggedIn THEN status ELSE callStatus

\* Faulty: no case for "dial-error".
OnCallEventNoError(s) ==
    /\ \/ Receive(s, {"call-started"}) /\ Shows("connected")
       \/ Receive(s, {"call-ended"}) /\ Shows("idle")
       \/ Receive(s, {"dial-error"}) /\ UNCHANGED callStatus
    /\ UNCHANGED <<token, wsConnected, sendVars, localStream, todo, waiters, gwVars,
                   histVars>>

OnCallEvent(s) ==
    /\ \/ Receive(s, {"call-started"}) /\ Shows("connected")
       \/ Receive(s, {"call-ended", "dial-error"}) /\ Shows("idle")
    /\ UNCHANGED <<token, wsConnected, sendVars, localStream, todo, waiters, gwVars,
                   histVars>>

OnAuthReply(s) ==
    /\ \/ Receive(s, {"auth-ok"}) /\ wsConnected' = LoggedIn
       \/ Receive(s, {"auth-error"}) /\ UNCHANGED wsConnected
    /\ UNCHANGED <<token, callStatus, sendVars, localStream, todo, waiters, gwVars,
                   histVars>>

-----------------------------------------------------------------------------
(***************************************************************************)
(* The PeerConnection.  Operations on a closed one never end, so a chain   *)
(* goes on only while pc is the one it works on.                           *)
(***************************************************************************)
At(o, stage) == Task /\ handler[o].stage = stage /\ handler[o].pc = pc

To(o, stage) == handler' = [handler EXCEPT ![o].stage = stage]

Ends(o) == handler' = [handler EXCEPT ![o] = NoChain]

RemoteDescriptionSet(o) ==
    /\ At(o, "remote")
    /\ conn' = [conn EXCEPT ![pc].remote = o, ![pc].stable = FALSE]
    /\ To(o, "drain")
    /\ UNCHANGED <<appVars, ws, pc, iceCandidateQueue, micPromise, sock, prompt, timers,
                   toGw, sends, localStream, todo, waiters, toBr, gwVars, histVars>>

drainIceCandidates(o) ==
    /\ At(o, "drain")
    /\ iceCandidateQueue # <<>>
    /\ iceCandidateQueue' = Tail(iceCandidateQueue)
    /\ UNCHANGED <<appVars, ws, pc, micPromise, sock, prompt, conn, timers, toGw, sends,
                   localStream, todo, waiters, handler, toBr, gwVars, histVars>>

\* Faulty: createAnswer does not wait for the queue to be empty.
AnswerCreatedUndrained(o) ==
    /\ At(o, "drain")
    /\ IF conn[pc].stable THEN Ends(o) ELSE To(o, "local")
    /\ UNCHANGED <<appVars, pageVars, timers, toGw, sends, localStream, todo, waiters,
                   toBr, gwVars, histVars>>

\* createAnswer, rejected when another chain has answered meanwhile.
AnswerCreated(o) ==
    /\ At(o, "drain")
    /\ iceCandidateQueue = <<>>
    /\ IF conn[pc].stable THEN Ends(o) ELSE To(o, "local")
    /\ UNCHANGED <<appVars, pageVars, timers, toGw, sends, localStream, todo, waiters,
                   toBr, gwVars, histVars>>

\* setLocalDescription, rejected likewise; then the answer is sent.  It
\* answers the offer that pc was given last.
LocalDescriptionSet(o) ==
    /\ At(o, "local")
    /\ Ends(o)
    /\ todo' = IF conn[pc].stable THEN <<>> ELSE <<Msg("answer", conn[pc].remote)>>
    /\ conn' = [conn EXCEPT ![pc].stable = TRUE]
    /\ UNCHANGED <<appVars, ws, pc, iceCandidateQueue, micPromise, sock, prompt, timers,
                   toGw, sends, localStream, waiters, toBr, gwVars, histVars>>

\* onicecandidate; one candidate stands for all.
OnIceCandidate ==
    /\ Task
    /\ pc # None /\ conn[pc].remote # None /\ conn[pc].stable
    /\ pc \in Trickling /\ ~ conn[pc].trickled
    /\ conn' = [conn EXCEPT ![pc].trickled = TRUE]
    /\ todo' = <<Msg("candidate", pc)>>
    /\ UNCHANGED <<appVars, ws, pc, iceCandidateQueue, micPromise, sock, prompt, timers,
                   toGw, sends, localStream, waiters, handler, toBr, gwVars, histVars>>

-----------------------------------------------------------------------------
(***************************************************************************)
(* The gateway: what handleWebSocket, handleDial and handleHangup read and *)
(* write on a connection, as steps of its telephone line.                  *)
(***************************************************************************)
browserVars == <<appVars, connectVars, timers, sends, localStream, todo, waiters>>

\* Messages for each of these connections; a socket that is closed loses them.
Write(S, e) ==
    toBr' = [s \in Socket |->
                IF s \in S /\ InUse(s) THEN Append(toBr[s], Msg(e, None)) ELSE toBr[s]]

Accept(s) ==
    /\ sock[s] = "connecting"
    /\ Gateway!Arrive(s)
    /\ gpeers' = gpeers \cup {s}
    /\ UNCHANGED <<browserVars, toGw, toBr, authed, dialing, ended, signalled, foreign,
                   histVars>>

\* renegotiatePeer and OnICECandidate, from goroutines of their own.
Signal(s, e) ==
    /\ s \in gpeers /\ InUse(s)
    /\ s \in (IF e = "offer" THEN Offering ELSE Trickling)
    /\ e \notin signalled[s]
    /\ signalled' = [signalled EXCEPT ![s] = @ \cup {e}]
    /\ Write({s}, e)
    /\ UNCHANGED <<browserVars, toGw, line, on, dialled, authed, gpeers, dialing, ended,
                   foreign, histVars>>

\* The read loop takes a message of one of these kinds.
Read(s, kinds) ==
    /\ line[s] \in {"idle", "inCall"} /\ dialing[s] = None
    /\ toGw[s] # <<>> /\ Head(toGw[s]).ev \in kinds
    /\ toGw' = [toGw EXCEPT ![s] = Tail(@)]
    /\ UNCHANGED <<browserVars, gpeers, ended, foreign, clicked, orphaned,
                   abandoned, misled>>

ReadAuth(s) ==
    /\ Read(s, {"auth"})
    /\ IF Head(toGw[s]).arg \in Expired
       THEN UNCHANGED authed /\ Write({s}, "auth-error")
       ELSE authed' = authed \cup {s} /\ Write({s}, "auth-ok")
    /\ UNCHANGED <<line, on, dialled, dialing, signalled, overlap>>

\* "overlap" are the connections that were told of an error while in a call.
ReadDial(s) ==
    /\ Read(s, {"dial"})
    /\ IF line[s] = "inCall" \/ s \notin authed
       THEN /\ Write({s}, "dial-error")
            /\ overlap' = IF line[s] = "inCall" THEN overlap \cup {s} ELSE overlap
            /\ UNCHANGED <<line, on, dialled, dialing>>
       ELSE /\ Gateway!LiftReceiver(s)
            /\ dialing' = [dialing EXCEPT ![s] = Head(toGw[s]).arg]
            /\ UNCHANGED <<toBr, overlap>>
    /\ UNCHANGED <<authed, signalled>>

ReadHangup(s) ==
    /\ Read(s, {"hangup"})
    /\ IF line[s] = "inCall" THEN Gateway!Hangup(s)
                             ELSE UNCHANGED <<line, on, dialled>>
    /\ UNCHANGED <<toBr, authed, dialing, signalled, overlap>>

ReadSignal(s) ==
    /\ Read(s, {"answer", "candidate"})
    /\ signalled' = [signalled EXCEPT ![s] = @ \cup ({"answer"} \cap {Head(toGw[s]).ev})]
    /\ UNCHANGED <<toBr, line, on, dialled, authed, dialing, overlap>>

gwRest == <<authed, gpeers, signalled, foreign>>

\* handleDial up to the INVITE; there may be no port for it.
Invite(s) ==
    /\ Gateway!Dial(s, dialing[s])
    /\ IF line'[s] = "idle"
       THEN Write({s}, "dial-error") /\ dialing' = [dialing EXCEPT ![s] = None]
       ELSE UNCHANGED <<toBr, dialing>>
    /\ UNCHANGED <<browserVars, toGw, gwRest, ended, histVars>>

\* Faulty: the browser is not told.
InviteFailsSilently(s) ==
    /\ Gateway!Fail(s)
    /\ dialing' = [dialing EXCEPT ![s] = None]
    /\ UNCHANGED <<browserVars, toGw, toBr, gwRest, ended, histVars>>

InviteFails(s) ==
    /\ Gateway!Fail(s)
    /\ Write({s}, "dial-error")
    /\ dialing' = [dialing EXCEPT ![s] = None]
    /\ UNCHANGED <<browserVars, toGw, gwRest, ended, histVars>>

\* peer.call is set; "call-started" is written later.
InviteAnswered(s) ==
    /\ Gateway!Answer(s)
    /\ UNCHANGED <<browserVars, toGw, toBr, gwRest, dialing, ended, histVars>>

CallStarted(s) ==
    /\ dialing[s] # None /\ line[s] \in {"inCall", "idle"}
    /\ Write({s}, "call-started")
    /\ dialing' = [dialing EXCEPT ![s] = None]
    /\ UNCHANGED <<browserVars, toGw, line, on, dialled, gwRest, ended, histVars>>

HangupDone(s) ==
    /\ Gateway!Cleared(s)
    /\ Write({s}, "call-ended")
    /\ UNCHANGED <<browserVars, toGw, gwRest, dialing, ended, histVars>>

\* A BYE of the PBX ends the call; onSIPBye tells all browsers afterwards.  When
\* the line is not in the call yet, or endCall passes over it for it is no longer
\* in gw.peers, the line stays what it is, and what is left of the BYE is a
\* BroadcastForeign.
RemoteBye(s) ==
    /\ s \in gpeers
    /\ Gateway!RemoteEnd(s)
    /\ ended' = ended \cup {s}
    /\ UNCHANGED <<browserVars, toGw, toBr, gwRest, dialing, histVars>>

\* "misled" are the connections that hear of a call which is not their own, or
\* of the end of their own one in the wrong order or not at all.
BroadcastEnd(s) ==
    /\ s \in ended
    /\ ended' = ended \ {s}
    /\ Write(gpeers, "call-ended")
    /\ misled' = misled \cup {k \in gpeers : k # s \/ line[k] = "inCall" \/ dialing[k] # None}
    /\ UNCHANGED <<browserVars, toGw, line, on, dialled, gwRest, dialing, clicked, orphaned, abandoned, overlap>>

\* Inbound calls, and the end of calls of other agents.
BroadcastForeign(e) ==
    /\ foreign > 0
    /\ foreign' = foreign - 1
    /\ Write(gpeers, e)
    /\ misled' = misled \cup gpeers
    /\ UNCHANGED <<browserVars, toGw, line, on, dialled, authed, gpeers, dialing, ended,
                   signalled, clicked, orphaned, abandoned, overlap>>

\* The PeerConnection, once it has an answer, fails: removePeer takes the peer
\* out of gw.peers.  The endCall it starts for the call no longer finds it
\* there, so peer.call stays.  A call-ended that is to be broadcast will not
\* reach it.
PeerFailed(s) ==
    /\ s \in gpeers /\ "answer" \in signalled[s]
    /\ gpeers' = gpeers \ {s}
    /\ misled' = misled \cup (ended \cap {s})
    /\ UNCHANGED <<browserVars, toGw, toBr, line, on, dialled, authed, dialing, ended,
                   signalled, foreign, clicked, orphaned, abandoned, overlap>>

\* The read loop finds the connection closed: when it has read everything, or
\* before, for what was on its way when the connection broke is lost.
ReadFails(s) ==
    /\ sock[s] = "closed" \/ (sock[s] = "closing" /\ toGw[s] = <<>>)
    /\ dialing[s] = None
    /\ Gateway!Leave(s)
    /\ gpeers' = gpeers \ {s}
    /\ toGw' = [toGw EXCEPT ![s] = <<>>]
    /\ authed' = authed \ {s}
    /\ UNCHANGED <<browserVars, toBr, dialing, ended, signalled, foreign, histVars>>

-----------------------------------------------------------------------------
Agents ==
    \/ \E a \in Agent : Login(a)
    \/ \E d \in Click : handleDial(d)
    \/ \E d \in Click : handleCallCustomer(d)
    \/ handleHangup
    \/ handleLogout
    \/ \E g \in Prompt : MicGranted(g)
    \/ \E g \in Prompt : MicDenied(g)

Network ==
    \E s \in Socket : SocketOpens(s) \/ SocketCloses(s) \/ SocketClosing(s)

Events ==
    \/ disconnect
    \/ ResumeSend
    \/ ResumeOffer
    \/ \E i \in DOMAIN timers : TimerFires(i)
    \/ \E s \in Socket :
          \/ OnOffer(s)
          \/ OnCandidate(s)
          \/ OnCallEvent(s)
          \/ OnAuthReply(s)
          \/ RemoteDescriptionSet(s)
          \/ drainIceCandidates(s)
          \/ AnswerCreated(s)
          \/ LocalDescriptionSet(s)
    \/ OnIceCandidate

ReadLoop(s) ==
    \/ ReadAuth(s)
    \/ ReadDial(s)
    \/ ReadHangup(s)
    \/ ReadSignal(s)
    \/ Invite(s)
    \/ InviteFails(s)
    \/ InviteAnswered(s)
    \/ CallStarted(s)
    \/ HangupDone(s)
    \/ ReadFails(s)

GatewaySteps ==
    \/ \E s \in Socket :
          \/ Accept(s)
          \/ \E e \in {"candidate", "offer"} : Signal(s, e)
          \/ ReadLoop(s)
          \/ RemoteBye(s)
          \/ BroadcastEnd(s)
          \/ PeerFailed(s)
    \/ \E e \in {"call-started", "call-ended"} : BroadcastForeign(e)

Next == Agents \/ Network \/ Events \/ GatewaySteps

Spec == Init /\ [][Next]_vars

\* Promises, timers and messages make progress, and so do the goroutines of
\* the gateway; agents, the PBX's BYEs, prompts and the network need not.
Fairness ==
    /\ WF_vars(disconnect) /\ WF_vars(ResumeSend) /\ WF_vars(ResumeOffer)
    /\ WF_vars(\E i \in DOMAIN timers : TimerFires(i))
    /\ \A s \in Socket :
          /\ WF_vars(OnOffer(s) \/ OnCandidate(s) \/ OnCallEvent(s) \/ OnAuthReply(s))
          /\ WF_vars(ReadLoop(s))
          /\ WF_vars(BroadcastEnd(s))

FairSpec == Spec /\ Fairness

-----------------------------------------------------------------------------
(***************************************************************************)
(* Properties.                                                             *)
(***************************************************************************)

\* connect() leaves no WebSocket behind but in two ways: disconnect() does
\* not close one that is still connecting, and the onclose of another one
\* clears ws.
SocketsAreOwned == \A s \in Socket : InUse(s) => s = ws \/ s \in orphaned

Has(q, m) == \E i \in DOMAIN q : q[i] = m
Once(q, m) == \A i, j \in DOMAIN q : q[i] = m /\ q[j] = m => i = j
Messages(t) == [i \in DOMAIN t |-> t[i].msg]

\* Where a message can be on the page: it goes on in this task, it awaits the
\* microphone, or sendWS has put it off.
Resumes(m) == Has(todo, m)
Awaits(m) == \E g \in Prompt : Has(waiters[g], m)
PutOff(m) == Has(Messages(timers), m)
Held(m) == Resumes(m) \/ Awaits(m) \/ PutOff(m)

\* A dial that sendWS drops, sends or puts off, again and again while sockets
\* come and go, reaches the gateway once at most.
DialledOnce == \A d \in Click : sends[d] <= 1

\* A microphone is on only as localStream, which disconnect() can stop, and
\* in a session; unless its request was open at a logout, or the offer on a
\* socket that disconnect() left behind has asked for it.
MicrophoneIsReleased ==
    \/ abandoned \/ orphaned # {}
    \/ \A g \in Prompt : prompt[g] = "live" => g = localStream /\ LoggedIn

\* "Stream will be stopped on disconnect()" (sip.js:252): nobody listens when
\* nobody is logged in.
MicrophoneStops == \A g \in Prompt : prompt[g] = "live" => LoggedIn

\* Whenever there is a microphone, the pc that makes an answer has its track:
\* in whatever order stream, offer and reconnection come.
AnswerCarriesMicrophone ==
    [][\A o \in Socket :
          At(o, "drain") /\ handler'[o].stage = "local" /\ localStream # None
              => localStream \in conn[pc].tracks]_vars

\* A candidate of the present connection is with its pc, or waits for the
\* remote description; none waits for ever in iceCandidateQueue.
CandidatesArrive ==
    pc # None /\ conn[pc].remote # None /\ Task
        => iceCandidateQueue = <<>> \/ \E o \in Socket : At(o, "drain")

\* The gateway makes a call for every dial it begins with: none is one that a
\* line has dialled before, which PhoneLine would not dial again.
Untried(s) == line[s] = "dialling" /\ on[s] = None
DialsAreNew == \A s \in Socket : Untried(s) => dialing[s] \in Click \ dialled

\* Nothing is on its way between the browser and the gateway.
AtRest ==
    /\ Task /\ LoggedIn /\ timers = <<>> /\ ended = {}
    /\ ws # None /\ sock[ws] = "open" /\ toGw[ws] = <<>> /\ toBr[ws] = <<>>
    /\ line[ws] \in {"idle", "inCall"} /\ dialing[ws] = None
    /\ \A d \in Click : ~ Awaits(Msg("dial", d))

\* A socket that an earlier session or an onclose has left behind is still
\* there, and the Dashboard hears of its calls.
LeftBehind == \E s \in orphaned : sock[s] # "closed"

\* At rest a browser that shows no call has none, but after a second dial in
\* a call, after news of other calls and beside a socket that was left behind:
\* the Hangup button is there when it is needed.
IdleMeansNoCall ==
    AtRest /\ callStatus = "idle" /\ line[ws] = "inCall"
        => ws \in overlap \cup misled \/ LeftBehind

\* ws is the only WebSocket: connect() has not opened it in the place of one
\* that is closing, which leaves the Dashboard with the status it shows.
Alone == \A s \in Socket \ {ws} : sock[s] \in {"unused", "closed"}

\* At rest a browser that shows a call is in one for the gateway (peer.call), as
\* long as it has heard of its own call's end in order, and ws is the only one:
\* also after its PeerConnection has failed.
BusyMeansCall ==
    AtRest /\ Alone /\ callStatus # "idle" /\ ws \notin misled
        => callStatus = "connected" /\ line[ws] = "inCall"

\* "Online" is shown while ws is open, and only while some socket is.
OnlineIsRight ==
    LoggedIn =>
        /\ ws # None /\ sock[ws] = "open" => wsConnected
        /\ wsConnected => \E s \in Socket : sock[s] \in {"open", "closing"}

\* No dial stays at "dialing" while the connection is there and no prompt is
\* open: it is started, refused or given up.
DialingEnds ==
    []<>(\/ callStatus # "dialing"
         \/ ws = None \/ sock[ws] # "open"
         \/ \E g \in Prompt : prompt[g] = "pending")

-----------------------------------------------------------------------------
(***************************************************************************)
(* Why sockets are owned and the microphone goes with the page: the        *)
(* inductive invariant.  It says nothing of messages.                      *)
(***************************************************************************)
\* There is a present WebSocket only in a session.
SessionHasSocket == ws # None => LoggedIn

\* One request at a time: whoever is asked while another is open, or while
\* the microphone is on, awaits that one.
OnePrompt ==
    \/ abandoned \/ orphaned # {}
    \/ \A g \in Prompt : prompt[g] = "pending" => g = micPromise /\ localStream = None /\ LoggedIn

\* The present pc has the track of the stream that is on.
TracksAreAttached ==
    pc # None /\ localStream # None => localStream \in conn[pc].tracks

\* A chain of promises works on a pc.
ChainsHavePc == \A o \in Socket : handler[o].stage # "none" => handler[o].pc # None

\* All of it: inductive for any constants.
PageInv ==
    /\ PageTypes
    /\ SocketsAreOwned
    /\ SessionHasSocket
    /\ OnlineIsRight
    /\ OnePrompt
    /\ MicrophoneIsReleased
    /\ TracksAreAttached
    /\ ChainsHavePc

-----------------------------------------------------------------------------
(***************************************************************************)
(* Why a dial goes out once and the status agrees with the line: the       *)
(* inductive invariant about messages and calls.                           *)
(***************************************************************************)

\* m is in one place on the page at most.
HeldOnce(m) ==
    /\ Once(todo, m) /\ Once(Messages(timers), m)
    /\ \A g \in Prompt : Once(waiters[g], m)
    /\ \A g, h \in Prompt : Has(waiters[g], m) /\ Has(waiters[h], m) => g = h
    /\ Resumes(m) => ~ Awaits(m) /\ ~ PutOff(m)
    /\ Awaits(m) => ~ PutOff(m)

\* A dial is made by a click, is in one place, and is no longer on the page
\* once it was sent.
DialsAreSingle ==
    \A d \in Click :
        /\ HeldOnce(Msg("dial", d))
        /\ Held(Msg("dial", d)) => d \in clicked /\ sends[d] = 0
        /\ d \notin clicked => sends[d] = 0

\* An offer is sent once: it is on its way, in one place on the page, or its
\* chain is at work.
Delivers(o) == Has(toBr[o], Msg("offer", None))
Answers(o) == handler[o].stage # "none"
OffersAreSingle ==
    \A o \in Socket :
        /\ HeldOnce(Msg("offer", o))
        /\ Once(toBr[o], Msg("offer", None))
        /\ Delivers(o) => ~ Held(Msg("offer", o)) /\ ~ Answers(o)
        /\ Held(Msg("offer", o)) => ~ Answers(o)
        /\ Delivers(o) \/ Held(Msg("offer", o)) \/ Answers(o) => "offer" \in signalled[o]

\* A chain that empties the queue is there as long as it is not empty.
QueueIsDrained ==
    pc # None /\ conn[pc].remote # None
        => \/ iceCandidateQueue = <<>>
           \/ \E o \in Socket : handler[o].stage = "drain" /\ handler[o].pc = pc

\* onclose clears ws, so ws is never one that is closed.
WsIsNotClosed == ws # None => sock[ws] \in {"connecting", "open", "closing"}

\* A gateway connection begins with Accept, ends after its socket, and works on
\* a dial while its line is not free.
LinesFit ==
    \A s \in Socket :
        /\ sock[s] = "unused" => line[s] = "absent"
        /\ line[s] = "absent" => s \notin gpeers \cup ended /\ toBr[s] = <<>>
        /\ line[s] = "dialling" => dialing[s] # None
        /\ dialing[s] # None => line[s] \in {"dialling", "inCall", "idle"}
        /\ line[s] = "gone" => ~ InUse(s)
        /\ s \in ended => s \in gpeers \cup misled \/ line[s] = "gone"
        /\ dialing[s] # None /\ line[s] = "idle" => s \in ended \cup misled

\* A dial that was sent is on its way on one connection, and once, or the
\* gateway works on it on one.  No line has dialled it before the INVITE.
Coming(s, d) == Has(toGw[s], Msg("dial", d))
AtGateway(s, d) == Coming(s, d) \/ dialing[s] = d
DialsArriveOnce ==
    \A d \in Click :
        /\ \A s \in Socket :
              /\ Once(toGw[s], Msg("dial", d))
              /\ Coming(s, d) => dialing[s] # d
              /\ Coming(s, d) \/ (dialing[s] = d /\ Untried(s)) => d \notin dialled
        /\ \A s, k \in Socket : AtGateway(s, d) /\ AtGateway(k, d) => s = k
        /\ sends[d] = 0 => d \notin dialled /\ \A s \in Socket : ~ AtGateway(s, d)

\* What the Dashboard will show, v, when it has heard all messages of q; it
\* shows st now.
Told(e) == IF e = "call-started" THEN "connected" ELSE "idle"
WillShow(q, st, v) ==
    \/ st = v /\ \A i \in DOMAIN q : q[i].ev \notin CallEvent
    \/ \E i \in DOMAIN q :
          /\ q[i].ev \in CallEvent /\ Told(q[i].ev) = v
          /\ \A j \in DOMAIN q : j > i => q[j].ev \notin CallEvent

OnItsWay(m) == PutOff(m) \/ Has(toGw[ws], m)

\* Whoever will see no call on a line that has one has hung up.
IdleIsHangup ==
    /\ ws # None /\ InUse(ws) /\ ws \notin overlap \cup misled /\ ~ LeftBehind
    /\ line[ws] = "inCall" /\ dialing[ws] = None
    /\ WillShow(toBr[ws], callStatus, "idle")
    => OnItsWay(Msg("hangup", None))

\* Whoever will see a call has one, or will hear of its end or of how the
\* dial ended.
BusyIsCall ==
    /\ ws # None /\ InUse(ws) /\ Alone /\ ws \notin misled
    /\ ~ WillShow(toBr[ws], callStatus, "idle")
    => \/ \E d \in Click : Held(Msg("dial", d)) \/ OnItsWay(Msg("dial", d))
       \/ dialing[ws] # None
       \/ /\ WillShow(toBr[ws], callStatus, "connected")
          /\ line[ws] \in {"inCall", "clearing"} \/ ws \in ended

\* All of it: inductive for any constants.
PhoneInv ==
    /\ PageInv
    /\ TypeOK
    /\ DialsAreSingle
    /\ DialledOnce
    /\ OffersAreSingle
    /\ QueueIsDrained
    /\ WsIsNotClosed
    /\ LinesFit
    /\ DialsArriveOnce
    /\ IdleIsHangup
    /\ BusyIsCall
===============================================================================
