------------------------------ MODULE SipGateway ------------------------------
(***************************************************************************)
(* The call life cycle of sip-webrtc-gateway/main.go: browser connections  *)
(* that dial, hang up, fail and disconnect; SIP calls that come in, are    *)
(* re-offered and are ended by the PBX; the RTP ports they hold.           *)
(*                                                                         *)
(* Threads.  Every browser connection k has one goroutine, the read loop   *)
(* of handleWebSocket, which runs handleDial and handleHangup to their end *)
(* before it reads the next message (loop[k], cur[k]).  Beside it run the  *)
(* handlers of SIP requests, the state callback of each PeerConnection,    *)
(* the goroutines removePeer starts, and one RTP forwarder for each call.  *)
(* A step of the model is what one of them does between two points where   *)
(* the others can see it: one critical section of gw.mu, one socket        *)
(* operation, one write to a field that is read without the lock.          *)
(*                                                                         *)
(* Data.  A member of Call stands for one sipCall object, together with    *)
(* the RTP socket made for it and, for a dial, with its row in the call    *)
(* log.  A dialog (a SIP Call-ID) is named by the object its first INVITE  *)
(* made, so cid[c] = c unless c comes from a re-INVITE.  An RTP port is    *)
(* named by its distance from rtp-port-min.  Addresses, SDP, SIP headers,  *)
(* digest challenges and the 503 retry are left out: they decide only      *)
(* whether dialSIP succeeds, and both results are modelled.                *)
(***************************************************************************)
EXTENDS Naturals

CONSTANTS
    Conn,        \* browser connections (a connection is used once)
    Call,        \* sipCall objects the run may create: the bound on calls
    PortCount,   \* size of the range rtp-port-min .. rtp-port-max
    DBOutcome,   \* what a write to the call log may return: TRUE is success
    Seconds,     \* whole seconds an answered call may last: the bound on time
    None         \* Go's nil

ASSUME PortCountAssumption == PortCount \in Nat \ {0}
ASSUME NoneAssumption == None \notin Conn \cup Call \cup Nat
ASSUME SecondsAssumption == Seconds \in SUBSET Nat /\ Seconds # {}
ASSUME DBAssumption == DBOutcome \in SUBSET BOOLEAN /\ DBOutcome # {}

Port == 0 .. PortCount - 1

VARIABLES
    peers,       \* keys of gw.peers
    authed,      \* connections whose peerState has an agentID
    pcall,       \* peer.call of each connection's peerState
    loop,        \* where each connection's read loop is
    cur,         \* the sipCall that read loop is working on
    calls,       \* gw.calls: the object registered under a dialog
    stage,       \* how far the code that made an object has come
    cid,         \* callID of an object
    owner,       \* connection that dialled it, None when it came from the PBX
    sock,        \* port its RTP socket is bound to, None when not open
    fwd,         \* its forwardRTPToTrack goroutine
    row,         \* its row in the table "calls"
    rtpPortCounter,
    ending,      \* objects taken out of gw.calls by an endCall not yet finished
    enders,      \* dialogs of the endCall goroutines removePeer has started
    byes,        \* objects of the sendSIPBye goroutines removePeer has started
    pbx,         \* the PBX's view of each dialog
    early, late, replaced, stray  \* history of races; no guard reads it

connVars == <<peers, authed, pcall, loop, cur>>
callVars == <<calls, stage, cid, owner, sock, fwd, row, rtpPortCounter>>
taskVars == <<ending, enders, byes>>
histVars == <<early, late, replaced, stray>>
vars == <<connVars, callVars, taskVars, pbx, histVars>>

LoopState == {"absent", "reading", "registering", "dialing",
              "bye", "ending", "closing", "gone"}
Stage == {"unused",
          "inviting", "stored", "wired", "attached",  \* an outbound call
          "accepted", "registered",                   \* an inbound call
          "live", "failed"}
Row == {"none", "ringing", "answered", "finished", "no-answer"}
PbxState == {"none", "offered", "inviting", "rejected", "up", "over"}

TypeOK ==
    /\ peers \in SUBSET Conn
    /\ authed \in SUBSET Conn
    /\ pcall \in [Conn -> Call \cup {None}]
    /\ loop \in [Conn -> LoopState]
    /\ cur \in [Conn -> Call \cup {None}]
    /\ calls \in [Call -> Call \cup {None}]
    /\ stage \in [Call -> Stage]
    /\ cid \in [Call -> Call \cup {None}]
    /\ owner \in [Call -> Conn \cup {None}]
    /\ sock \in [Call -> Port \cup {None}]
    /\ fwd \in [Call -> {"none", "running", "done"}]
    /\ row \in [Call -> Row]
    /\ rtpPortCounter \in Port
    /\ ending \in SUBSET Call
    /\ enders \in SUBSET Call
    /\ byes \in SUBSET Call
    /\ pbx \in [Call -> PbxState]
    /\ early \in SUBSET Call
    /\ late \in SUBSET Call
    /\ replaced \in SUBSET Call
    /\ stray \in SUBSET Call

Init ==
    /\ peers = {}
    /\ authed = {}
    /\ pcall = [k \in Conn |-> None]
    /\ loop = [k \in Conn |-> "absent"]
    /\ cur = [k \in Conn |-> None]
    /\ calls = [d \in Call |-> None]
    /\ stage = [c \in Call |-> "unused"]
    /\ cid = [c \in Call |-> None]
    /\ owner = [c \in Call |-> None]
    /\ sock = [c \in Call |-> None]
    /\ fwd = [c \in Call |-> "none"]
    /\ row = [c \in Call |-> "none"]
    /\ rtpPortCounter = 0
    /\ ending = {}
    /\ enders = {}
    /\ byes = {}
    /\ pbx = [d \in Call |-> "none"]
    /\ early = {}
    /\ late = {}
    /\ replaced = {}
    /\ stray = {}

-----------------------------------------------------------------------------
(***************************************************************************)
(* Helpers.                                                                *)
(***************************************************************************)

\* Faulty: the scan does not wrap around.
ScanPortToTheEnd(i) == rtpPortCounter + i

\* The ports startRTPListener tries, in the order it tries them.
ScanPort(i) == (rtpPortCounter + i) % PortCount

\* ListenUDP fails on a port that one of the gateway's sockets is bound to.
Bound(p) == \E c \in Call : sock[c] = p

\* p is the first port of the scan that ListenUDP accepts.
FirstFree(p) ==
    /\ ~ Bound(p)
    /\ \E i \in Port : /\ ScanPort(i) = p
                       /\ \A j \in 0 .. i - 1 : Bound(ScanPort(j))

PortAvailable == \E p \in Port : ~ Bound(p)

\* Faulty: the counter runs past the end of the range.
startRTPListenerNoWrap(c) ==
    \E p \in Port : /\ FirstFree(p)
                    /\ sock' = [sock EXCEPT ![c] = p]
                    /\ rtpPortCounter' = p + 1

startRTPListener(c) ==
    \E p \in Port : /\ FirstFree(p)
                    /\ sock' = [sock EXCEPT ![c] = p]
                    /\ rtpPortCounter' = (p + 1) % PortCount

\* gw.calls[d] = c; an object already there is dropped without being closed.
StoreCall(d, c) ==
    /\ calls' = [calls EXCEPT ![d] = c]
    /\ replaced' = replaced \cup ({calls[d]} \ {None, c})

\* Faulty: endCall does not compare Call-IDs.
HoldsAnyDialog(k, d) == k \in peers /\ pcall[k] # None

\* The connections endCall(d) takes their call from: it compares Call-IDs,
\* and it looks only at connections still in gw.peers.
HoldsDialog(k, d) == k \in peers /\ pcall[k] # None /\ cid[pcall[k]] = d

\* Faulty: the connections keep their pointer to the call.
EndCallKeepsPointer(d) ==
    IF calls[d] = None
    THEN UNCHANGED <<calls, pcall, ending, early>>
    ELSE /\ calls' = [calls EXCEPT ![d] = None]
         /\ ending' = ending \cup {calls[d]}
         /\ UNCHANGED <<pcall, early>>

\* The critical section of endCall(d).  What follows it is CloseCall.
EndCallLocked(d) ==
    IF calls[d] = None
    THEN UNCHANGED <<calls, pcall, ending, early>>
    ELSE /\ calls' = [calls EXCEPT ![d] = None]
         /\ pcall' = [k \in Conn |-> IF HoldsDialog(k, d) THEN None ELSE pcall[k]]
         /\ ending' = ending \cup {calls[d]}
         /\ early' = IF stage[calls[d]] \in {"stored", "wired"}
                     THEN early \cup {calls[d]} ELSE early

\* sendSIPBye returned: the PBX took the BYE, or it was lost or refused.
SendBye(c) == \E s \in {"over", pbx[cid[c]]} : pbx' = [pbx EXCEPT ![cid[c]] = s]

\* Faulty: the peer goes and nobody ends its call.
RemovePeerOnly(k) == peers' = peers \ {k} /\ UNCHANGED <<enders, byes>>

\* removePeer(ws), all of it under gw.mu.  peer.call is not cleared.
RemovePeer(k) ==
    IF k \notin peers
    THEN UNCHANGED <<peers, enders, byes>>
    ELSE /\ peers' = peers \ {k}
         /\ IF pcall[k] = None
            THEN UNCHANGED <<enders, byes>>
            ELSE /\ byes' = byes \cup {pcall[k]}
                 /\ enders' = enders \cup {cid[pcall[k]]}

\* Faulty: every idle browser hears every call.
ListenersOfAnyCall(c) == {k \in peers : pcall[k] \in {c, None}}

\* writeRTPToPeers: the connections that hear a packet of call c.
Listeners(c) ==
    {k \in peers : pcall[k] = c \/ (owner[c] = None /\ pcall[k] = None)}

\* Faulty: every row there is gets the status.
UpdateEveryRow(c, s) ==
    \E ok \in DBOutcome :
        row' = [d \in Call |-> IF ok /\ row[d] # "none" THEN s ELSE row[d]]

\* The status updateCallStatus leaves; a failed write leaves the row alone.
UpdateRow(c, s) ==
    \E ok \in DBOutcome :
        row' = IF ok /\ row[c] # "none" THEN [row EXCEPT ![c] = s] ELSE row

-----------------------------------------------------------------------------
(***************************************************************************)
(* The read loop of one connection.                                        *)
(***************************************************************************)

\* handleWebSocket: the upgrade succeeded and the peer is registered.
Connect(k) ==
    /\ loop[k] = "absent"
    /\ loop' = [loop EXCEPT ![k] = "reading"]
    /\ peers' = peers \cup {k}
    /\ UNCHANGED <<authed, pcall, cur, callVars, taskVars, pbx, histVars>>

\* Message "auth" with a good token of a known agent.  A bad one changes
\* nothing.
Auth(k) ==
    /\ loop[k] = "reading"
    /\ authed' = authed \cup {k}
    /\ UNCHANGED <<peers, pcall, loop, cur, callVars, taskVars, pbx, histVars>>

\* Faulty: no check for a call that is up.
DialStartUnchecked(k) ==
    /\ loop[k] = "reading"
    /\ k \in authed
    /\ loop' = [loop EXCEPT ![k] = "registering"]
    /\ UNCHANGED <<peers, authed, pcall, cur, callVars, taskVars, pbx, histVars>>

\* Message "dial" that passes the checks at the top of handleDial.
DialStart(k) ==
    /\ loop[k] = "reading"
    /\ pcall[k] = None
    /\ k \in authed
    /\ loop' = [loop EXCEPT ![k] = "registering"]
    /\ UNCHANGED <<peers, authed, pcall, cur, callVars, taskVars, pbx, histVars>>

\* registerSIP has returned, with or without success: the call log row is
\* made and the RTP listener opened.  With no port left the dial ends here.
DialListen(k, c) ==
    /\ loop[k] = "registering"
    /\ stage[c] = "unused"
    /\ \E ok \in DBOutcome :
           row' = [row EXCEPT ![c] = IF ok THEN "ringing" ELSE "none"]
    /\ owner' = [owner EXCEPT ![c] = k]
    /\ \/ /\ startRTPListener(c)
          /\ stage' = [stage EXCEPT ![c] = "inviting"]
          /\ cid' = [cid EXCEPT ![c] = c]
          /\ pbx' = [pbx EXCEPT ![c] = "inviting"]
          /\ loop' = [loop EXCEPT ![k] = "dialing"]
          /\ cur' = [cur EXCEPT ![k] = c]
       \/ /\ ~ PortAvailable
          /\ stage' = [stage EXCEPT ![c] = "failed"]
          /\ loop' = [loop EXCEPT ![k] = "reading"]
          /\ UNCHANGED <<sock, rtpPortCounter, cid, pbx, cur>>
    /\ UNCHANGED <<peers, authed, pcall, calls, fwd, taskVars, histVars>>

\* Faulty: the RTP socket is left open.
DialFailLeaks(k) ==
    /\ loop[k] = "dialing"
    /\ stage[cur[k]] = "inviting"
    /\ stage' = [stage EXCEPT ![cur[k]] = "failed"]
    /\ loop' = [loop EXCEPT ![k] = "reading"]
    /\ cur' = [cur EXCEPT ![k] = None]
    /\ UNCHANGED <<peers, authed, pcall, calls, cid, owner, fwd, row, sock,
                   rtpPortCounter, taskVars, pbx, histVars>>

\* Faulty: no limit on the time an INVITE may go unanswered.
DialFailNoTimeout(k) ==
    /\ loop[k] = "dialing"
    /\ stage[cur[k]] = "inviting"
    /\ pbx[cur[k]] = "rejected"
    /\ stage' = [stage EXCEPT ![cur[k]] = "failed"]
    /\ sock' = [sock EXCEPT ![cur[k]] = None]
    /\ loop' = [loop EXCEPT ![k] = "reading"]
    /\ cur' = [cur EXCEPT ![k] = None]
    /\ UNCHANGED <<peers, authed, pcall, calls, cid, owner, fwd, row,
                   rtpPortCounter, taskVars, pbx, histVars>>

\* dialSIP returns an error: a final response other than 200, a lost
\* transaction, or the 60 s limit, at which the PBX may have answered already.
DialFail(k) ==
    /\ loop[k] = "dialing"
    /\ stage[cur[k]] = "inviting"
    /\ stage' = [stage EXCEPT ![cur[k]] = "failed"]
    /\ sock' = [sock EXCEPT ![cur[k]] = None]
    /\ loop' = [loop EXCEPT ![k] = "reading"]
    /\ cur' = [cur EXCEPT ![k] = None]
    /\ UNCHANGED <<peers, authed, pcall, calls, cid, owner, fwd, row,
                   rtpPortCounter, taskVars, pbx, histVars>>

\* dialSIP has the 200, sends the ACK and puts the call into gw.calls.  The
\* object has no rtpConn and no cancelFunc yet.
DialStore(k) ==
    /\ loop[k] = "dialing"
    /\ stage[cur[k]] = "inviting"
    /\ pbx[cur[k]] \in {"up", "over"}
    /\ StoreCall(cid[cur[k]], cur[k])
    /\ stage' = [stage EXCEPT ![cur[k]] = "stored"]
    /\ UNCHANGED <<connVars, cid, owner, sock, fwd, row, rtpPortCounter,
                   taskVars, pbx, early, late, stray>>

\* handleDial sets call.rtpConn and call.cancelFunc, without the lock.
DialWire(k) ==
    /\ loop[k] = "dialing"
    /\ stage[cur[k]] = "stored"
    /\ stage' = [stage EXCEPT ![cur[k]] = "wired"]
    /\ UNCHANGED <<connVars, calls, cid, owner, sock, fwd, row,
                   rtpPortCounter, taskVars, pbx, histVars>>

\* handleDial sets peer.call under the lock, whether or not the peer is still
\* in gw.peers and the call still in gw.calls.
DialAttach(k) ==
    /\ loop[k] = "dialing"
    /\ stage[cur[k]] = "wired"
    /\ stage' = [stage EXCEPT ![cur[k]] = "attached"]
    /\ pcall' = [pcall EXCEPT ![k] = cur[k]]
    /\ late' = IF k \in peers THEN late ELSE late \cup {cur[k]}
    /\ UNCHANGED <<peers, authed, loop, cur, calls, cid, owner, sock, fwd, row,
                   rtpPortCounter, taskVars, pbx, early, replaced, stray>>

\* The rest of handleDial: the forwarder starts and the row says "answered".
DialFinish(k) ==
    /\ loop[k] = "dialing"
    /\ stage[cur[k]] = "attached"
    /\ stage' = [stage EXCEPT ![cur[k]] = "live"]
    /\ fwd' = [fwd EXCEPT ![cur[k]] = "running"]
    /\ UpdateRow(cur[k], "answered")
    /\ loop' = [loop EXCEPT ![k] = "reading"]
    /\ cur' = [cur EXCEPT ![k] = None]
    /\ UNCHANGED <<peers, authed, pcall, calls, cid, owner, sock,
                   rtpPortCounter, taskVars, pbx, histVars>>

\* Faulty: peer.call is read and not cleared.
HangupStartKeepsCall(k) ==
    /\ loop[k] = "reading"
    /\ pcall[k] # None
    /\ cur' = [cur EXCEPT ![k] = pcall[k]]
    /\ loop' = [loop EXCEPT ![k] = "bye"]
    /\ \E duration \in Seconds :
           UpdateRow(pcall[k], IF duration = 0 THEN "no-answer" ELSE "finished")
    /\ UNCHANGED <<peers, authed, pcall, calls, stage, cid, owner, sock, fwd,
                   rtpPortCounter, taskVars, pbx, histVars>>

\* handleHangup takes peer.call away and writes the duration to the row; a
\* call of less than a second counts as "no-answer".
HangupStart(k) ==
    /\ loop[k] = "reading"
    /\ pcall[k] # None
    /\ pcall' = [pcall EXCEPT ![k] = None]
    /\ cur' = [cur EXCEPT ![k] = pcall[k]]
    /\ loop' = [loop EXCEPT ![k] = "bye"]
    /\ \E duration \in Seconds :
           UpdateRow(pcall[k], IF duration = 0 THEN "no-answer" ELSE "finished")
    /\ UNCHANGED <<peers, authed, calls, stage, cid, owner, sock, fwd,
                   rtpPortCounter, taskVars, pbx, histVars>>

\* handleHangup: sendSIPBye returns, within 10 s.
HangupBye(k) ==
    /\ loop[k] = "bye"
    /\ SendBye(cur[k])
    /\ loop' = [loop EXCEPT ![k] = "ending"]
    /\ UNCHANGED <<peers, authed, pcall, cur, callVars, taskVars, histVars>>

\* Faulty: an endCall that finds nothing never comes back (gw.mu is kept).
HangupEndStuck(k) ==
    /\ loop[k] = "ending"
    /\ calls[cid[cur[k]]] # None
    /\ EndCallLocked(cid[cur[k]])
    /\ cur' = [cur EXCEPT ![k] = calls[cid[cur[k]]]]
    /\ loop' = [loop EXCEPT ![k] = "closing"]
    /\ UNCHANGED <<peers, authed, stage, cid, owner, sock, fwd, row,
                   rtpPortCounter, enders, byes, pbx, late, replaced, stray>>

\* handleHangup calls endCall: its critical section.  With nothing
\* registered under the dialog endCall returns at once.
HangupEnd(k) ==
    /\ loop[k] = "ending"
    /\ EndCallLocked(cid[cur[k]])
    /\ LET found == calls[cid[cur[k]]]
       IN  /\ cur' = [cur EXCEPT ![k] = found]
           /\ loop' = [loop EXCEPT ![k] =
                           IF found = None THEN "reading" ELSE "closing"]
    /\ UNCHANGED <<peers, authed, stage, cid, owner, sock, fwd, row,
                   rtpPortCounter, enders, byes, pbx, late, replaced, stray>>

\* The WebSocket read fails: removePeer, and the read loop returns.
Disconnect(k) ==
    /\ loop[k] = "reading"
    /\ RemovePeer(k)
    /\ loop' = [loop EXCEPT ![k] = "gone"]
    /\ UNCHANGED <<authed, pcall, cur, callVars, ending, pbx, histVars>>

-----------------------------------------------------------------------------
(***************************************************************************)
(* The other goroutines.                                                   *)
(***************************************************************************)

\* OnConnectionStateChange reports Failed or Closed: removePeer runs beside
\* the read loop, which goes on.
PeerFailed(k) ==
    /\ k \in peers
    /\ RemovePeer(k)
    /\ UNCHANGED <<authed, pcall, loop, cur, callVars, ending, pbx, histVars>>

\* Faulty: endCall neither cancels the forwarder nor closes the socket.
CloseCallLeaks(c) ==
    /\ c \in ending
    /\ ending' = ending \ {c}
    /\ loop' = [k \in Conn |-> IF loop[k] = "closing" /\ cur[k] = c
                               THEN "reading" ELSE loop[k]]
    /\ cur' = [k \in Conn |-> IF loop[k] = "closing" /\ cur[k] = c
                              THEN None ELSE cur[k]]
    /\ UNCHANGED <<peers, authed, pcall, calls, stage, cid, owner, sock, fwd,
                   row, rtpPortCounter, enders, byes, pbx, histVars>>

\* The rest of endCall, without the lock: cancelFunc and rtpConn.Close are
\* skipped when the fields are still nil.
CloseCall(c) ==
    /\ c \in ending
    /\ ending' = ending \ {c}
    /\ sock' = IF stage[c] = "stored" THEN sock ELSE [sock EXCEPT ![c] = None]
    /\ loop' = [k \in Conn |-> IF loop[k] = "closing" /\ cur[k] = c
                               THEN "reading" ELSE loop[k]]
    /\ cur' = [k \in Conn |-> IF loop[k] = "closing" /\ cur[k] = c
                              THEN None ELSE cur[k]]
    /\ UNCHANGED <<peers, authed, pcall, calls, stage, cid, owner, fwd, row,
                   rtpPortCounter, enders, byes, pbx, histVars>>

\* An endCall goroutine of removePeer enters its critical section.
AsyncEndCall(d) ==
    /\ d \in enders
    /\ enders' = enders \ {d}
    /\ EndCallLocked(d)
    /\ UNCHANGED <<peers, authed, loop, cur, stage, cid, owner, sock, fwd, row,
                   rtpPortCounter, byes, pbx, late, replaced, stray>>

\* A sendSIPBye goroutine of removePeer returns.
AsyncBye(c) ==
    /\ c \in byes
    /\ byes' = byes \ {c}
    /\ SendBye(c)
    /\ UNCHANGED <<connVars, callVars, ending, enders, histVars>>

\* forwardRTPToTrack leaves its loop: the read fails on the closed socket,
\* or the context is cancelled, which endCall does just before it closes.
ForwarderExit(c) ==
    /\ fwd[c] = "running"
    /\ sock[c] = None
    /\ fwd' = [fwd EXCEPT ![c] = "done"]
    /\ UNCHANGED <<connVars, calls, stage, cid, owner, sock, row,
                   rtpPortCounter, taskVars, pbx, histVars>>

\* onSIPBye: respond, endCall, broadcast.  The BYE may have crossed ours, and
\* may come before dialSIP has stored the call it is about.
OnSIPBye(d) ==
    /\ pbx[d] \in {"up", "over"}
    /\ pbx' = [pbx EXCEPT ![d] = "over"]
    /\ EndCallLocked(d)
    /\ UNCHANGED <<peers, authed, loop, cur, stage, cid, owner, sock, fwd, row,
                   rtpPortCounter, enders, byes, late, replaced, stray>>

\* onSIPInvite: an RTP listener is opened for an INVITE, be it the first of
\* a dialog or one inside a dialog that is up.  With no port left it answers
\* 500 and nothing changes.
OnSIPInvite(d, c) ==
    /\ stage[c] = "unused"
    /\ \/ d = c /\ pbx' = [pbx EXCEPT ![d] = "offered"]
       \/ pbx[d] = "up" /\ UNCHANGED pbx
    /\ startRTPListener(c)
    /\ stage' = [stage EXCEPT ![c] = "accepted"]
    /\ cid' = [cid EXCEPT ![c] = d]
    /\ UNCHANGED <<connVars, calls, owner, fwd, row, taskVars, histVars>>

\* onSIPInvite puts its call into gw.calls, over whatever is there.  The call
\* of a re-INVITE is a stray one when endCall has taken its dialog out before.
InviteStore(c) ==
    /\ stage[c] = "accepted"
    /\ StoreCall(cid[c], c)
    /\ stage' = [stage EXCEPT ![c] = "registered"]
    /\ stray' = IF cid[c] # c /\ calls[cid[c]] \in stray \cup {None}
                THEN stray \cup {c} ELSE stray
    /\ UNCHANGED <<connVars, cid, owner, sock, fwd, row, rtpPortCounter,
                   taskVars, pbx, early, late>>

\* The rest of onSIPInvite: the forwarder starts and the 200 is sent.  When
\* Respond fails the caller never hears of it, and the call stays: a stray
\* one too.
InviteAnswer(c) ==
    /\ stage[c] = "registered"
    /\ stage' = [stage EXCEPT ![c] = "live"]
    /\ fwd' = [fwd EXCEPT ![c] = "running"]
    /\ \/ /\ pbx[cid[c]] = "offered"
          /\ pbx' = [pbx EXCEPT ![cid[c]] = "up"]
          /\ UNCHANGED stray
       \/ /\ pbx[cid[c]] = "offered"
          /\ pbx' = [pbx EXCEPT ![cid[c]] = "rejected"]
          /\ stray' = stray \cup {c}
       \/ pbx[cid[c]] # "offered" /\ UNCHANGED <<pbx, stray>>
    /\ UNCHANGED <<connVars, calls, cid, owner, sock, row, rtpPortCounter,
                   taskVars, early, late, replaced>>

\* The PBX answers an INVITE of ours with 200, or refuses it.
PbxAnswer(d) ==
    /\ pbx[d] = "inviting"
    /\ \E s \in {"up", "rejected"} : pbx' = [pbx EXCEPT ![d] = s]
    /\ UNCHANGED <<connVars, callVars, taskVars, histVars>>

-----------------------------------------------------------------------------
ReadLoop(k) ==
    \/ Connect(k)
    \/ Auth(k)
    \/ DialStart(k)
    \/ \E c \in Call : DialListen(k, c)
    \/ DialFail(k)
    \/ DialStore(k)
    \/ DialWire(k)
    \/ DialAttach(k)
    \/ DialFinish(k)
    \/ HangupStart(k)
    \/ HangupBye(k)
    \/ HangupEnd(k)
    \/ Disconnect(k)

Background(c) ==
    \/ CloseCall(c)
    \/ AsyncEndCall(c)
    \/ AsyncBye(c)
    \/ ForwarderExit(c)
    \/ OnSIPBye(c)
    \/ InviteStore(c)
    \/ InviteAnswer(c)
    \/ PbxAnswer(c)

Next ==
    \/ \E k \in Conn : ReadLoop(k)
    \/ \E k \in Conn : PeerFailed(k)
    \/ \E c \in Call : Background(c)
    \/ \E d, c \in Call : OnSIPInvite(d, c)

Spec == Init /\ [][Next]_vars

(***************************************************************************)
(* A goroutine that can take a step takes it, and what it waits for is     *)
(* bounded by a timer: 60 s for the INVITE, 10 s for REGISTER and BYE, 1 s *)
(* for a read of the forwarder.  Browsers, PeerConnections and the PBX owe *)
(* nothing.                                                                *)
(***************************************************************************)
Fairness ==
    /\ \A k \in Conn :
         /\ WF_vars(\E c \in Call : DialListen(k, c))
         /\ WF_vars(DialFail(k) \/ DialStore(k))
         /\ WF_vars(DialWire(k))
         /\ WF_vars(DialAttach(k))
         /\ WF_vars(DialFinish(k))
         /\ WF_vars(HangupBye(k))
         /\ WF_vars(HangupEnd(k))
    /\ \A c \in Call :
         /\ WF_vars(CloseCall(c))
         /\ WF_vars(AsyncEndCall(c))
         /\ WF_vars(AsyncBye(c))
         /\ WF_vars(ForwarderExit(c))
         /\ WF_vars(InviteStore(c))
         /\ WF_vars(InviteAnswer(c))

FairSpec == Spec /\ Fairness

-----------------------------------------------------------------------------
(***************************************************************************)
(* Properties.                                                             *)
(***************************************************************************)
Registered(c) == cid[c] # None /\ calls[cid[c]] = c

Dialing(c) == \E k \in Conn : loop[k] = "dialing" /\ cur[k] = c

\* gw.calls never holds two calls dialled by the same connection: a second
\* dial cannot pass while the first call is up, being set up or being hung
\* up, whatever the PBX, the PeerConnection and removePeer do in between.
OneCallPerConnection ==
    \A c1, c2 \in Call :
        /\ Registered(c1) /\ Registered(c2)
        /\ owner[c1] = owner[c2] /\ owner[c1] # None
        => c1 = c2

\* The connections that packets of c reach now.
Hears(k, c) == fwd[c] = "running" /\ k \in Listeners(c)

\* A dialog that a connection dialled is heard by that connection and no
\* other, which hears nothing else beside it; until the PBX sends an INVITE in
\* the dialog, for the call that makes counts as inbound, and idle browsers
\* hear it (OutboundGoesToOwner).  What writeRTPToPeers makes of the pointers
\* that dials, BYEs, re-INVITEs and removed peers leave behind.
HearsOnlyItsOwnCall ==
    \A c1, c2 \in Call : \A k \in Conn :
        /\ Hears(k, c1) /\ Hears(k, c2)
        /\ owner[cid[c1]] # None
        => \/ c1 = c2 /\ owner[cid[c1]] = k
           \/ cid[c1] # c1 /\ pcall[k] = None

\* A dialog that somebody at the gateway will call endCall for: a goroutine
\* of removePeer, a connection in gw.peers whose peer.call it is, or a read
\* loop that is dialling it or hanging it up.
Attended(d) ==
    \/ d \in enders
    \/ \E k \in Conn : HoldsDialog(k, d)
    \/ \E k \in Conn :
          /\ loop[k] \in {"dialing", "bye", "ending"}
          /\ cid[cur[k]] = d

\* Every open RTP socket has somebody who is to close it: a handler still
\* setting its call up, an endCall about to close it, or, while the call is in
\* gw.calls, whoever has its dialog in hand, or, for an inbound call, the PBX,
\* which has answered it and will send a BYE.  A port is lost in four ways:
\* endCall came before the dial had wired its call (early); another INVITE of
\* the dialog took the place of the call in gw.calls (replaced); the dial was
\* attached after removePeer had run (late); or no BYE will come for an inbound
\* call, because its 200 could not be sent or because its dialog was over when
\* it was stored (stray).
SocketsAccountedFor ==
    \A c \in Call : sock[c] # None =>
        \/ stage[c] = "accepted" \/ Dialing(c)
        \/ c \in ending
        \/ /\ Registered(c)
           /\ \/ stage[c] = "registered"
              \/ Attended(cid[c])
              \/ owner[c] = None /\ pbx[cid[c]] = "up"
        \/ c \in early \cup replaced \cup stray
        \/ cid[c] \in late

\* handleDial refuses with "Already in a call" only over a call the gateway
\* knows; over one it lost because endCall came before the dial was complete
\* (early) or another INVITE took its place (replaced); or on a connection that
\* removePeer has taken out of gw.peers while its read loop goes on: endCall
\* passes over its peer.call, which keeps the call that is over until a hangup.
BusyLineIsLive ==
    \A k \in Conn : pcall[k] # None =>
        \/ Registered(pcall[k])
        \/ pcall[k] \in early \cup replaced
        \/ k \notin peers

\* A connection that is gone leaves no call behind that nobody will end,
\* except a call its dial attached after removePeer had run.
GoneLeavesNoCall ==
    \A c \in Call : \A k \in Conn :
        /\ Registered(c) /\ owner[c] = k /\ loop[k] = "gone"
        => cid[c] \in enders \/ c \in late

\* startRTPListener fails only when every port of the range is taken: the
\* scan that starts behind the last port used wraps around to all of them.
ScanFindsAFreePort == PortAvailable => \E p \in Port : FirstFree(p)

\* peer.call never goes from one call straight to another: a dial that
\* checked it long before writing it does not overwrite a live call.
NoCallIsOverwritten ==
    [][\A k \in Conn :
          pcall[k] # None /\ pcall'[k] # pcall[k] => pcall'[k] = None]_vars

\* A hangup returns to the read loop, though it waits for the PBX and
\* competes for the call with a BYE and with removePeer.
HangupReturns ==
    \A k \in Conn :
        loop[k] \in {"bye", "ending", "closing"} ~> loop[k] = "reading"

\* A dial that has sent its INVITE returns to the read loop.
DialReturns == \A k \in Conn : loop[k] = "dialing" ~> loop[k] = "reading"

\* The forwarder of a call that endCall took out of gw.calls stops, unless
\* endCall found the call half made.
EndedCallsFallSilent ==
    \A c \in Call : c \in ending \ early ~> fwd[c] = "done"

\* The duration written at a hangup is the last word in the row of the call:
\* the late "answered" of handleDial never takes it back.
DurationIsKept ==
    [][\A c \in Call : row[c] \in {"finished", "no-answer"} => row'[c] = row[c]]_vars

\* A row with a final status is never the row of a call somebody is still on.
FinalRowMeansHungUp ==
    \A c \in Call : row[c] \in {"finished", "no-answer"} =>
        \A k \in Conn : pcall[k] # c

\* The call a connection leaves behind is ended by what removePeer started.
RemovedPeersCallEnds ==
    \A k \in Conn, c \in Call :
        loop[k] = "gone" /\ Registered(c) /\ owner[c] = k
            ~> ~ Registered(c) \/ c \in late

-----------------------------------------------------------------------------
(***************************************************************************)
(* The inductive invariant behind the safety properties.                   *)
(***************************************************************************)
Making == {"inviting", "stored", "wired", "attached"}
WasStored == {"stored", "wired", "attached", "registered", "live"}

\* What a read loop holds while it dials, hangs up, or does neither.
LoopsHold ==
    \A k \in Conn :
        /\ loop[k] = "dialing" =>
              cur[k] \in Call /\ owner[cur[k]] = k /\ stage[cur[k]] \in Making
        /\ loop[k] \in {"bye", "ending"} =>
              cur[k] \in Call /\ owner[cur[k]] = k /\ stage[cur[k]] = "live"
        /\ loop[k] \in {"absent", "registering", "bye", "ending", "closing"} =>
              pcall[k] = None
        /\ loop[k] \in {"absent", "registering", "reading"} => cur[k] = None
        /\ loop[k] \in {"absent", "gone"} => k \notin peers

\* Who makes an object, and which dialog it belongs to.
ObjectsAreMade ==
    \A c \in Call :
        /\ stage[c] = "unused" => owner[c] = None /\ cid[c] = None /\ sock[c] = None
        /\ stage[c] = "failed" => owner[c] # None /\ sock[c] = None
        /\ stage[c] \in Making =>
              /\ owner[c] \in Conn
              /\ loop[owner[c]] = "dialing" /\ cur[owner[c]] = c
        /\ stage[c] \in {"accepted", "registered"} => owner[c] = None
        /\ stage[c] \notin {"unused", "failed"} => cid[c] \in Call
        /\ owner[c] # None /\ cid[c] # None => cid[c] = c
        /\ c \in byes => cid[c] = c

\* peer.call points to a call its own connection has dialled to the end.
PeersHold ==
    \A k \in Conn : pcall[k] # None =>
        /\ owner[pcall[k]] = k
        /\ \/ loop[k] \in {"reading", "gone"} /\ stage[pcall[k]] = "live"
           \/ /\ loop[k] = "dialing" /\ cur[k] = pcall[k]
              /\ stage[pcall[k]] = "attached"

\* gw.calls maps a Call-ID to an object with that Call-ID.
RegistryMatches ==
    \A d \in Call : calls[d] # None =>
        cid[calls[d]] = d /\ stage[calls[d]] \in WasStored

\* A registered dialled call is in the hands of its connection: as its
\* peer.call, or as what its read loop works on before and after that.
RegisteredIsHeld ==
    \A c \in Call : Registered(c) /\ owner[c] # None =>
        \/ pcall[owner[c]] = c
        \/ /\ loop[owner[c]] \in {"dialing", "bye", "ending"}
           /\ cur[owner[c]] = c
           /\ stage[c] # "attached"

\* An object endCall took out of gw.calls before its dial attached it.
EndingIsKnown ==
    \A c \in ending :
        /\ stage[c] \in WasStored
        /\ stage[c] \in {"stored", "wired"} => c \in early

\* A read loop waits for the end of its own endCall, and nobody else does.
ClosingIsExclusive ==
    /\ \A c \in ending : ~ Registered(c)
    /\ \A k \in Conn : loop[k] = "closing" => cur[k] \in ending
    /\ \A j, k \in Conn :
          loop[j] = "closing" /\ loop[k] = "closing" /\ cur[j] = cur[k] => j = k

\* An object that was in gw.calls is still there, or was taken out by
\* endCall, or was replaced.
StoredIsAccountedFor ==
    \A c \in Call :
        /\ stage[c] \in WasStored /\ sock[c] # None =>
              Registered(c) \/ c \in ending \cup early \cup replaced
        /\ stage[c] \in {"stored", "wired"} =>
              Registered(c) \/ c \in early \cup replaced

\* What is registered under the call of a removed peer is about to be ended,
\* unless that call came late, or a stray one has its place.
RemovedIsEnding ==
    \A k \in Conn : k \notin peers /\ pcall[k] # None =>
        LET found == calls[cid[pcall[k]]] IN
            \/ found = None
            \/ cid[pcall[k]] \in enders
            \/ pcall[k] \in late
            \/ found \in stray /\ found # pcall[k]

\* A dialog is named by the object its first INVITE made, and while that one
\* is unanswered there is no other.
DialogsAreNamed ==
    \A d \in Call :
        /\ stage[d] = "unused" => pbx[d] = "none" /\ \A c \in Call : cid[c] # d
        /\ pbx[d] = "offered" => \A c \in Call : cid[c] = d => c = d
        /\ stage[d] \in {"accepted", "registered"} /\ cid[d] = d => pbx[d] = "offered"

\* A registered inbound call will be ended by the PBX or by whoever has its
\* dialog in hand, unless it is stray or its dialog was attached too late.
InboundIsHeld ==
    \A c \in Call :
        /\ Registered(c) /\ owner[c] = None /\ c \notin stray
        /\ cid[c] # c \/ stage[c] = "live"
        => pbx[cid[c]] = "up" \/ Attended(cid[c]) \/ cid[c] \in late

\* Before its dial is stored, and when endCall has taken it away again before
\* its dial is through, only stray calls are registered in a dialog.
StrayAreOutside ==
    \A d \in Call :
        \/ stage[d] = "inviting"
        \/ stage[d] = "attached" /\ pcall[owner[d]] # d
        => calls[d] \in stray \cup {None}

\* The BYE of removePeer leaves in gw.calls only what its endCall will take.
ByesEnd ==
    \A b \in byes :
        /\ stage[b] \in {"attached", "live"}
        /\ calls[cid[b]] # None => cid[b] \in enders \/ calls[cid[b]] \in stray

IndInv ==
    /\ TypeOK
    /\ LoopsHold
    /\ ObjectsAreMade
    /\ PeersHold
    /\ RegistryMatches
    /\ RegisteredIsHeld
    /\ EndingIsKnown
    /\ ClosingIsExclusive
    /\ StoredIsAccountedFor
    /\ BusyLineIsLive
    /\ RemovedIsEnding
    /\ DialogsAreNamed
    /\ StrayAreOutside
    /\ InboundIsHeld
    /\ ByesEnd

-----------------------------------------------------------------------------
(***************************************************************************)
(* The gateway as a set of telephone lines.  A line is "inCall" while      *)
(* peer.call is set, from DialAttach on; a BYE that beats the rest of      *)
(* handleDial makes it idle again before the read loop is back.            *)
(***************************************************************************)
SettingUp(k) ==
    \/ loop[k] = "registering"
    \/ loop[k] = "dialing" /\ stage[cur[k]] \in {"inviting", "stored", "wired"}

Clearing(k) == loop[k] \in {"bye", "ending", "closing"}

lineOf(k) ==
    IF loop[k] \in {"absent", "gone"} THEN loop[k]
    ELSE IF Clearing(k) THEN "clearing"
    ELSE IF SettingUp(k) THEN "dialling"
    ELSE IF pcall[k] = None THEN "idle" ELSE "inCall"

onOf(k) ==
    IF loop[k] \in {"absent", "gone"} \/ Clearing(k) THEN None
    ELSE IF SettingUp(k) THEN cur[k] ELSE pcall[k]

Line == INSTANCE PhoneLine WITH
    line <- [k \in Conn |-> lineOf(k)],
    on <- [k \in Conn |-> onOf(k)],
    dialled <- {c \in Call : owner[c] # None}

\* Every behaviour of the gateway, races included, is a behaviour of the
\* lines: no call is shared, swapped or dialled over another one.
LineSpec == Line!Spec

-----------------------------------------------------------------------------
(***************************************************************************)
(* What the repository says and the code does not do.                      *)
(***************************************************************************)

\* "removePeer cleans up a disconnected WebRTC peer", main.go:1568: once the
\* goroutines it started are done, no RTP socket of a gone connection is open.
DisconnectedPeerIsClean ==
    \A c \in Call : \A k \in Conn :
        /\ owner[c] = k /\ loop[k] = "gone"
        /\ enders = {} /\ ending = {}
        => sock[c] = None

\* "Outbound calls go only to the peer that owns the call", main.go:822.
OutboundGoesToOwner ==
    \A c \in Call : \A k \in Conn :
        Hears(k, c) /\ owner[cid[c]] # None => owner[cid[c]] = k
===============================================================================
