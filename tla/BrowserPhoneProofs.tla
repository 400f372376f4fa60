-------------------------- MODULE BrowserPhoneProofs --------------------------
(***************************************************************************)
(* Proofs about BrowserPhone, for any number of connections, dials,        *)
(* prompts and agents.                                                     *)
(*                                                                         *)
(* First the page: its sockets, microphone and PeerConnections.  PageInv   *)
(* is inductive, and needs nothing of the messages.  Then the messages:    *)
(* where on the page one is and how it moves; what the steps of browser    *)
(* and gateway do to types and lines; and with these that a dial or an     *)
(* offer is in one place, and that a queue of candidates is emptied.       *)
(* PhoneCallProofs goes on with the calls.                                 *)
(***************************************************************************)
EXTENDS BrowserPhone, SequenceTheorems, TLAPS

\* What the invariant speaks of.
pagePart == <<token, wsConnected, ws, pc, localStream, micPromise, sock, prompt, conn,
              handler, orphaned, abandoned>>

\* What the gateway cannot touch.
browserPart == <<browserVars, clicked, orphaned, abandoned>>

-----------------------------------------------------------------------------
(***************************************************************************)
(* Steps that leave the page alone.                                        *)
(***************************************************************************)

\* The invariant is about pagePart only.
LEMMA SamePage ==
    ASSUME PageInv, UNCHANGED pagePart
    PROVE  PageInv'
BY DEF PageInv, PageTypes, SocketsAreOwned, SessionHasSocket, OnlineIsRight, OnePrompt,
       MicrophoneIsReleased, TracksAreAttached, ChainsHavePc, pagePart, InUse, LoggedIn

\* The gateway changes nothing of the browser.
LEMMA GatewayLeavesBrowser ==
    ASSUME GatewaySteps
    PROVE  UNCHANGED browserPart
<1> USE DEF browserPart, histVars, raceVars
<1>1. ASSUME NEW s \in Socket, Accept(s) PROVE UNCHANGED browserPart
  BY <1>1 DEF Accept
<1>2. ASSUME NEW s \in Socket, NEW e \in {"candidate", "offer"}, Signal(s, e)
      PROVE UNCHANGED browserPart
  BY <1>2 DEF Signal
<1>3. ASSUME NEW s \in Socket, ReadLoop(s) PROVE UNCHANGED browserPart
  <2>1. ASSUME NEW kinds, Read(s, kinds) PROVE UNCHANGED browserPart
    BY <2>1 DEF Read
  <2>2. CASE ReadAuth(s) BY <2>1, <2>2 DEF ReadAuth
  <2>3. CASE ReadDial(s) BY <2>1, <2>3 DEF ReadDial
  <2>4. CASE ReadHangup(s) BY <2>1, <2>4 DEF ReadHangup
  <2>5. CASE ReadSignal(s) BY <2>1, <2>5 DEF ReadSignal
  <2>6. CASE Invite(s) BY <2>6 DEF Invite
  <2>7. CASE InviteFails(s) BY <2>7 DEF InviteFails
  <2>8. CASE InviteAnswered(s) BY <2>8 DEF InviteAnswered
  <2>9. CASE CallStarted(s) BY <2>9 DEF CallStarted
  <2>10. CASE HangupDone(s) BY <2>10 DEF HangupDone
  <2>11. CASE ReadFails(s) BY <2>11 DEF ReadFails
  <2> QED BY <1>3, <2>2, <2>3, <2>4, <2>5, <2>6, <2>7, <2>8, <2>9, <2>10, <2>11 DEF ReadLoop
<1>4. ASSUME NEW s \in Socket, RemoteBye(s) PROVE UNCHANGED browserPart
  BY <1>4 DEF RemoteBye
<1>5. ASSUME NEW s \in Socket, BroadcastEnd(s) PROVE UNCHANGED browserPart
  BY <1>5 DEF BroadcastEnd
<1>6. ASSUME NEW s \in Socket, PeerFailed(s) PROVE UNCHANGED browserPart
  BY <1>6 DEF PeerFailed
<1>7. ASSUME NEW e, BroadcastForeign(e) PROVE UNCHANGED browserPart
  BY <1>7 DEF BroadcastForeign
<1> QED BY <1>1, <1>2, <1>3, <1>4, <1>5, <1>6, <1>7 DEF GatewaySteps

\* So it leaves the page alone.
LEMMA GatewayLeavesPage ==
    ASSUME GatewaySteps
    PROVE  UNCHANGED pagePart
BY GatewayLeavesBrowser DEF browserPart, pagePart, browserVars, appVars, connectVars, pageVars

-----------------------------------------------------------------------------
(***************************************************************************)
(* The microphone and the connection.                                      *)
(***************************************************************************)

\* ensureMicStream opens a request only when none is open and no stream is on.
LEMMA PromptKept ==
    ASSUME PageTypes, OnePrompt, MicrophoneIsReleased, RequestMic,
           LoggedIn' \/ orphaned # {}, LoggedIn => LoggedIn',
           UNCHANGED <<localStream, orphaned, abandoned>>
    PROVE  /\ OnePrompt' /\ MicrophoneIsReleased'
           /\ prompt' \in [Prompt -> {"free", "pending", "live"}]
           /\ micPromise' \in Prompt \cup {None}
<1>1. CASE UNCHANGED <<prompt, micPromise>>
  BY <1>1 DEF PageTypes, OnePrompt, MicrophoneIsReleased
<1>2. ASSUME NEW g \in Prompt, localStream = None, micPromise = None,
             prompt' = [prompt EXCEPT ![g] = "pending"], micPromise' = g
      PROVE  /\ OnePrompt' /\ MicrophoneIsReleased'
             /\ prompt' \in [Prompt -> {"free", "pending", "live"}]
             /\ micPromise' \in Prompt \cup {None}
  <2>1. \A h \in Prompt : h # None
    BY NoneAssumption
  <2> QED BY <1>2, <2>1 DEF PageTypes, OnePrompt, MicrophoneIsReleased
<1> QED BY <1>1, <1>2 DEF RequestMic

\* Such a step in a session, or on behalf of a socket left behind.
LEMMA RequestKeeps ==
    ASSUME PageInv, RequestMic, LoggedIn \/ orphaned # {},
           UNCHANGED <<token, wsConnected, ws, pc, localStream, sock, conn, handler,
                       orphaned, abandoned>>
    PROVE  PageInv'
<1>1. LoggedIn' = LoggedIn
  BY DEF LoggedIn
<1>2. /\ OnePrompt' /\ MicrophoneIsReleased'
      /\ prompt' \in [Prompt -> {"free", "pending", "live"}]
      /\ micPromise' \in Prompt \cup {None}
  BY <1>1, PromptKept DEF PageInv
<1> QED BY <1>1, <1>2 DEF PageInv, PageTypes, SocketsAreOwned, SessionHasSocket, OnlineIsRight,
                          TracksAreAttached, ChainsHavePc, InUse

\* A new WebSocket has not been used before.
LEMMA NextIsUnused ==
    ASSUME NEW s \in Socket, s = NextSocket
    PROVE  sock[s] = "unused"
<1>1. s # None
  BY NoneAssumption
<1>2. \E u \in Socket : sock[u] = "unused"
  BY <1>1 DEF NextSocket
<1>3. s = CHOOSE u \in Socket : sock[u] = "unused"
  BY <1>2 DEF NextSocket
<1> QED BY <1>2, <1>3

\* connect() in a session, or at its start.
LEMMA ConnectKeeps ==
    ASSUME PageInv, connect, LoggedIn',
           UNCHANGED <<localStream, orphaned, abandoned>>,
           \/ LoggedIn /\ UNCHANGED <<token, wsConnected>>
           \/ ~ LoggedIn /\ wsConnected' = FALSE
    PROVE  PageInv'
<1>1. CASE ws # None /\ InUse(ws)
  <2>1. UNCHANGED connectVars
    BY <1>1 DEF connect
  <2>2. LoggedIn
    BY <1>1 DEF PageInv, SessionHasSocket
  <2> QED BY <2>1, <2>2, SamePage DEF pagePart, connectVars, pageVars
<1>2. CASE ~ (ws # None /\ InUse(ws))
  <2>1. PICK s \in Socket :
            /\ s = NextSocket
            /\ sock' = [sock EXCEPT ![s] = "connecting"]
            /\ ws' = s
            /\ pc' = s
            /\ conn' = [Closed(pc) EXCEPT ![s].tracks = Reattached]
            /\ handler' = Chains(pc)
            /\ RequestMic
    BY <1>2 DEF connect
  <2>2. sock[s] = "unused" /\ s # None
    BY <2>1, NextIsUnused, NoneAssumption
  <2>3. /\ OnePrompt' /\ MicrophoneIsReleased'
        /\ prompt' \in [Prompt -> {"free", "pending", "live"}]
        /\ micPromise' \in Prompt \cup {None}
    BY <2>1, PromptKept DEF PageInv
  <2>4. /\ sock' \in [Socket -> {"unused", "connecting", "open", "closing", "closed"}]
        /\ sock'[s] = "connecting"
        /\ \A u \in Socket \ {s} : sock'[u] = sock[u]
    BY <2>1 DEF PageInv, PageTypes
  <2>5. Reattached \in SUBSET Prompt
    BY DEF PageInv, PageTypes, Reattached
  <2>6. NewConn \in [remote : Socket \cup {None}, stable : BOOLEAN,
                     tracks : SUBSET Prompt, trickled : BOOLEAN]
    BY DEF NewConn
  <2>7. Closed(pc) \in [Socket -> [remote : Socket \cup {None}, stable : BOOLEAN,
                                   tracks : SUBSET Prompt, trickled : BOOLEAN]]
    BY <2>6 DEF PageInv, PageTypes, Closed
  <2>8. /\ conn' \in [Socket -> [remote : Socket \cup {None}, stable : BOOLEAN,
                                 tracks : SUBSET Prompt, trickled : BOOLEAN]]
        /\ conn'[s].tracks = Reattached
    BY <2>1, <2>5, <2>7
  <2>9. handler' \in [Socket -> [stage : Stage, pc : Socket \cup {None}]] /\ ChainsHavePc'
    BY <2>1 DEF PageInv, PageTypes, Chains, ChainsHavePc, NoChain, Stage
  <2>10. PageTypes'
    BY <2>1, <2>3, <2>4, <2>8, <2>9 DEF PageInv, PageTypes
  <2>11. SocketsAreOwned'
    <3> SUFFICES ASSUME NEW u \in Socket, InUse(u)' PROVE u = ws' \/ u \in orphaned'
      BY DEF SocketsAreOwned
    <3>1. CASE u = s BY <2>1, <3>1
    <3>2. CASE u # s
      <4>1. InUse(u) /\ u # None
        BY <2>4, <3>2, NoneAssumption DEF InUse
      <4> QED BY <1>2, <4>1 DEF PageInv, SocketsAreOwned
    <3> QED BY <3>1, <3>2
  <2>12. OnlineIsRight'
    <3>1. ~ (sock'[ws'] = "open")
      BY <2>1, <2>4
    <3>2. ASSUME wsConnected' PROVE \E u \in Socket : sock'[u] \in {"open", "closing"}
      <4>1. PICK u \in Socket : sock[u] \in {"open", "closing"}
        BY <3>2 DEF PageInv, OnlineIsRight
      <4>2. u # s
        BY <2>2, <4>1
      <4> QED BY <2>4, <4>1, <4>2
    <3> QED BY <3>1, <3>2 DEF OnlineIsRight
  <2>13. TracksAreAttached'
    BY <2>1, <2>8 DEF TracksAreAttached, Reattached
  <2> QED BY <2>3, <2>9, <2>10, <2>11, <2>12, <2>13 DEF PageInv, SessionHasSocket
<1> QED BY <1>1, <1>2

\* sendWS may connect.
LEMMA SendKeeps ==
    ASSUME PageInv, NEW m, NEW rest, sendWS(m, rest),
           UNCHANGED <<token, wsConnected, localStream, orphaned, abandoned>>
    PROVE  PageInv'
<1>1. CASE UNCHANGED connectVars
  BY <1>1, SamePage DEF pagePart, connectVars, pageVars
<1>2. CASE ws # None /\ connect
  <2>1. LoggedIn /\ LoggedIn'
    BY <1>2 DEF PageInv, SessionHasSocket, LoggedIn
  <2> QED BY <1>2, <2>1, ConnectKeeps
<1> QED BY <1>1, <1>2 DEF sendWS
-----------------------------------------------------------------------------
(***************************************************************************)
(* The agent and the prompts.                                              *)
(***************************************************************************)

\* Login, clicks and prompts keep the invariant.
LEMMA AgentsKeep ==
    ASSUME PageInv, Agents
    PROVE  PageInv'
<1>1. ASSUME NEW a \in Agent, Login(a) PROVE PageInv'
  <2>1. a # None
    BY NoneAssumption
  <2> QED BY <1>1, <2>1, ConnectKeeps DEF Login, LoggedIn, histVars, raceVars
<1>2. ASSUME NEW d \in Click, dial(d) PROVE PageInv'
  BY <1>2, RequestKeeps DEF dial, AwaitMic, raceVars
<1>3. CASE handleHangup
  BY <1>3, SendKeeps DEF handleHangup, histVars, raceVars
<1>4. CASE handleLogout
  BY <1>4, SendKeeps DEF handleLogout, appVars, histVars, raceVars
<1>5. ASSUME NEW g \in Prompt, MicGranted(g) PROVE PageInv'
  <2>1. /\ prompt[g] = "pending" /\ g # None
        /\ prompt' = [prompt EXCEPT ![g] = "live"]
        /\ localStream' = g
        /\ conn' = IF pc = None THEN conn ELSE [conn EXCEPT ![pc].tracks = @ \cup {g}]
        /\ UNCHANGED <<token, wsConnected, ws, pc, micPromise, sock, handler, orphaned,
                       abandoned>>
    BY <1>5, NoneAssumption DEF MicGranted, appVars, histVars, raceVars
  <2>2. PageTypes'
    BY <2>1 DEF PageInv, PageTypes
  <2>3. MicrophoneIsReleased' /\ OnePrompt'
    <3>1. CASE abandoned \/ orphaned # {}
      BY <2>1, <3>1 DEF MicrophoneIsReleased, OnePrompt
    <3>2. CASE ~ (abandoned \/ orphaned # {})
      <4>1. localStream = None /\ LoggedIn
        BY <2>1, <3>2 DEF PageInv, OnePrompt
      <4>2. \A h \in Prompt \ {g} : prompt[h] # "live" /\ prompt[h] # "pending"
        BY <2>1, <3>2, <4>1, NoneAssumption DEF PageInv, OnePrompt, MicrophoneIsReleased
      <4>3. \A h \in Prompt : prompt'[h] # "pending" /\ (prompt'[h] = "live" => h = g)
        BY <2>1, <4>2 DEF PageInv, PageTypes
      <4> QED BY <2>1, <4>1, <4>3 DEF MicrophoneIsReleased, OnePrompt, LoggedIn
    <3> QED BY <3>1, <3>2
  <2>4. TracksAreAttached'
    BY <2>1 DEF PageInv, PageTypes, TracksAreAttached
  <2>5. SocketsAreOwned' /\ SessionHasSocket' /\ OnlineIsRight' /\ ChainsHavePc'
    BY <2>1 DEF PageInv, SocketsAreOwned, SessionHasSocket, OnlineIsRight, ChainsHavePc,
                InUse, LoggedIn
  <2> QED BY <2>2, <2>3, <2>4, <2>5 DEF PageInv
<1>6. ASSUME NEW g \in Prompt, MicDenied(g) PROVE PageInv'
  <2>1. /\ prompt[g] = "pending"
        /\ prompt' = [prompt EXCEPT ![g] = "free"]
        /\ micPromise' = None
        /\ UNCHANGED <<token, wsConnected, ws, pc, localStream, sock, conn, handler, orphaned,
                       abandoned>>
    BY <1>6 DEF MicDenied, appVars, histVars, raceVars
  <2>2. PageTypes'
    BY <2>1 DEF PageInv, PageTypes
  <2>3. MicrophoneIsReleased' /\ OnePrompt'
    BY <2>1 DEF PageInv, PageTypes, OnePrompt, MicrophoneIsReleased, LoggedIn
  <2>4. /\ SocketsAreOwned' /\ SessionHasSocket' /\ OnlineIsRight' /\ ChainsHavePc'
        /\ TracksAreAttached'
    BY <2>1 DEF PageInv, SocketsAreOwned, SessionHasSocket, OnlineIsRight, ChainsHavePc,
                TracksAreAttached, InUse, LoggedIn
  <2> QED BY <2>2, <2>3, <2>4 DEF PageInv
<1> QED BY <1>1, <1>2, <1>3, <1>4, <1>5, <1>6 DEF Agents, handleDial, handleCallCustomer

\* What logout does with the socket, the pc and the microphone.
LEMMA DisconnectKeeps ==
    ASSUME PageInv, disconnect
    PROVE  PageInv'
<1>1. /\ prompt' = [g \in Prompt |-> IF g = localStream THEN "free" ELSE prompt[g]]
      /\ sock' = WithoutWs
      /\ orphaned' = orphaned \cup {s \in Socket : s = ws /\ sock[s] = "connecting"}
      /\ abandoned' = (abandoned \/ \E g \in Prompt : prompt[g] = "pending")
      /\ conn' = Closed(pc)
      /\ handler' = Chains(pc)
      /\ localStream' = None /\ pc' = None /\ ws' = None /\ micPromise' = None
      /\ token' = None
  BY DEF disconnect
<1>2. NewConn \in [remote : Socket \cup {None}, stable : BOOLEAN,
                   tracks : SUBSET Prompt, trickled : BOOLEAN]
  BY DEF NewConn
<1>3. PageTypes'
  <2>1. conn' \in [Socket -> [remote : Socket \cup {None}, stable : BOOLEAN,
                              tracks : SUBSET Prompt, trickled : BOOLEAN]]
    BY <1>1, <1>2 DEF PageInv, PageTypes, Closed
  <2>2. handler' \in [Socket -> [stage : Stage, pc : Socket \cup {None}]]
    BY <1>1 DEF PageInv, PageTypes, Chains, NoChain, Stage
  <2>3. /\ prompt' \in [Prompt -> {"free", "pending", "live"}]
        /\ sock' \in [Socket -> {"unused", "connecting", "open", "closing", "closed"}]
    BY <1>1 DEF PageInv, PageTypes, WithoutWs
  <2> QED BY <1>1, <2>1, <2>2, <2>3 DEF PageTypes
<1>4. SocketsAreOwned'
  <2> SUFFICES ASSUME NEW u \in Socket, InUse(u)' PROVE u \in orphaned'
    BY DEF SocketsAreOwned
  <2>1. InUse(u) /\ (u = ws => sock[u] = "connecting")
    BY <1>1 DEF WithoutWs, InUse
  <2> QED BY <1>1, <2>1 DEF PageInv, SocketsAreOwned
<1>5. SessionHasSocket' /\ OnlineIsRight'
  BY <1>1 DEF SessionHasSocket, OnlineIsRight, LoggedIn
<1>6. MicrophoneIsReleased' /\ OnePrompt'
  <2>1. CASE abandoned' \/ orphaned' # {}
    BY <2>1 DEF MicrophoneIsReleased, OnePrompt
  <2>2. CASE ~ abandoned' /\ orphaned' = {}
    <3>1. ~ abandoned /\ orphaned = {} /\ \A g \in Prompt : prompt[g] # "pending"
      BY <1>1, <2>2
    <3>2. \A g \in Prompt : prompt[g] = "live" => g = localStream
      BY <3>1 DEF PageInv, MicrophoneIsReleased
    <3>3. \A g \in Prompt : prompt'[g] # "pending" /\ prompt'[g] # "live"
      BY <1>1, <3>1, <3>2
    <3> QED BY <3>3 DEF MicrophoneIsReleased, OnePrompt
  <2> QED BY <2>1, <2>2
<1>7. TracksAreAttached' /\ ChainsHavePc'
  BY <1>1 DEF PageInv, PageTypes, TracksAreAttached, ChainsHavePc, Chains, NoChain
<1> QED BY <1>3, <1>4, <1>5, <1>6, <1>7 DEF PageInv

-----------------------------------------------------------------------------
(***************************************************************************)
(* WebSockets.                                                             *)
(***************************************************************************)

\* Opening, closing and breaking sockets keep the invariant.
LEMMA NetworkKeeps ==
    ASSUME PageInv, Network
    PROVE  PageInv'
<1>1. ASSUME NEW s \in Socket, SocketOpens(s) PROVE PageInv'
  <2>1. /\ sock[s] = "connecting"
        /\ sock' = [sock EXCEPT ![s] = "open"]
        /\ wsConnected' = LoggedIn
        /\ UNCHANGED <<token, ws, pc, localStream, micPromise, prompt, conn, handler,
                       orphaned, abandoned>>
    BY <1>1 DEF SocketOpens, histVars, raceVars
  <2>2. PageTypes'
    BY <2>1 DEF PageInv, PageTypes
  <2>3. SocketsAreOwned'
    BY <2>1 DEF PageInv, PageTypes, SocketsAreOwned, InUse
  <2>4. OnlineIsRight'
    BY <2>1 DEF PageInv, PageTypes, OnlineIsRight, LoggedIn
  <2> QED BY <2>1, <2>2, <2>3, <2>4 DEF PageInv, SessionHasSocket, OnePrompt,
             MicrophoneIsReleased, TracksAreAttached, ChainsHavePc, LoggedIn
<1>2. ASSUME NEW s \in Socket, SocketCloses(s) PROVE PageInv'
  <2>1. /\ sock' = [sock EXCEPT ![s] = "closed"]
        /\ wsConnected' = FALSE
        /\ ws' = None
        /\ orphaned' = orphaned \cup ({ws} \ {s, None})
        /\ UNCHANGED <<token, pc, localStream, micPromise, prompt, conn, handler, abandoned>>
    BY <1>2 DEF SocketCloses, Offline
  <2>2. PageTypes'
    BY <2>1 DEF PageInv, PageTypes
  <2>3. SocketsAreOwned'
    <3> SUFFICES ASSUME NEW u \in Socket, InUse(u)' PROVE u \in orphaned'
      BY DEF SocketsAreOwned
    <3>1. u # s /\ u # None /\ InUse(u)
      BY <2>1, NoneAssumption DEF PageInv, PageTypes, InUse
    <3> QED BY <2>1, <3>1 DEF PageInv, SocketsAreOwned
  <2>4. OnePrompt' /\ MicrophoneIsReleased'
    BY <2>1 DEF PageInv, OnePrompt, MicrophoneIsReleased, LoggedIn
  <2> QED BY <2>1, <2>2, <2>3, <2>4 DEF PageInv, SessionHasSocket, OnlineIsRight,
             TracksAreAttached, ChainsHavePc, LoggedIn
<1>3. ASSUME NEW s \in Socket, SocketClosing(s) PROVE PageInv'
  <2>1. /\ sock[s] = "open"
        /\ sock' = [sock EXCEPT ![s] = "closing"]
        /\ UNCHANGED <<token, wsConnected, ws, pc, localStream, micPromise, prompt, conn,
                       handler, orphaned, abandoned>>
    BY <1>3 DEF SocketClosing, appVars, histVars, raceVars
  <2>2. PageTypes'
    BY <2>1 DEF PageInv, PageTypes
  <2>3. SocketsAreOwned'
    BY <2>1 DEF PageInv, PageTypes, SocketsAreOwned, InUse
  <2>4. OnlineIsRight'
    BY <2>1 DEF PageInv, PageTypes, OnlineIsRight, LoggedIn
  <2> QED BY <2>1, <2>2, <2>3, <2>4 DEF PageInv, SessionHasSocket, OnePrompt,
             MicrophoneIsReleased, TracksAreAttached, ChainsHavePc, LoggedIn
<1> QED BY <1>1, <1>2, <1>3 DEF Network

-----------------------------------------------------------------------------
(***************************************************************************)
(* Tasks of the browser.                                                   *)
(***************************************************************************)

\* A socket that delivers a message is the session's or was left behind.
LEMMA ReceiverIsKnown ==
    ASSUME PageInv, NEW s \in Socket, sock[s] = "open"
    PROVE  LoggedIn \/ orphaned # {}
<1>1. s = ws \/ s \in orphaned
  BY DEF PageInv, SocketsAreOwned, InUse
<1> QED BY <1>1, NoneAssumption DEF PageInv, SessionHasSocket

\* A pc that becomes stable, or whose candidate is sent, keeps its tracks.
LEMMA ConnChanges ==
    ASSUME PageTypes,
           conn' = [s \in Socket |-> conn'[s]],
           \A s \in Socket : conn'[s] \in {conn[s], [conn[s] EXCEPT !.stable = TRUE],
                                           [conn[s] EXCEPT !.trickled = TRUE]}
    PROVE  /\ conn' \in [Socket -> [remote : Socket \cup {None}, stable : BOOLEAN,
                                    tracks : SUBSET Prompt, trickled : BOOLEAN]]
           /\ \A s \in Socket : conn'[s].tracks = conn[s].tracks
<1> DEFINE R == [remote : Socket \cup {None}, stable : BOOLEAN,
                 tracks : SUBSET Prompt, trickled : BOOLEAN]
<1>1. ASSUME NEW s \in Socket PROVE conn'[s] \in R /\ conn'[s].tracks = conn[s].tracks
  <2>1. conn[s] \in R
    BY DEF PageTypes
  <2> QED BY <2>1
<1> HIDE DEF R
<1>2. conn' \in [Socket -> R]
  BY <1>1
<1> QED BY <1>1, <1>2 DEF R

\* A step of a chain, or a candidate, changes what a pc has but not its tracks.
LEMMA ChainKeeps ==
    ASSUME PageInv,
           PageTypes',
           \A s \in Socket : conn'[s].tracks = conn[s].tracks,
           ChainsHavePc',
           UNCHANGED <<token, wsConnected, ws, pc, localStream, micPromise, sock, prompt,
                       orphaned, abandoned>>
    PROVE  PageInv'
BY DEF PageInv, PageTypes, SocketsAreOwned, SessionHasSocket, OnlineIsRight, OnePrompt,
       MicrophoneIsReleased, TracksAreAttached, InUse, LoggedIn

\* Tasks keep the invariant.
LEMMA EventsKeep ==
    ASSUME PageInv, Events
    PROVE  PageInv'
<1>1. CASE ResumeSend
  BY <1>1, SendKeeps DEF ResumeSend, appVars, histVars, raceVars
<1>2. CASE ResumeOffer
  <2>1. /\ handler' = [handler EXCEPT ![Head(todo).arg] =
                          IF pc = None THEN NoChain ELSE [stage |-> "remote", pc |-> pc]]
        /\ UNCHANGED <<token, wsConnected, ws, pc, localStream, micPromise, sock, prompt,
                       conn, orphaned, abandoned>>
    BY <1>2 DEF ResumeOffer, appVars, pageVars, histVars, raceVars
  <2>2. (IF pc = None THEN NoChain ELSE [stage |-> "remote", pc |-> pc])
           \in [stage : Stage, pc : Socket \cup {None}]
    BY DEF PageInv, PageTypes, NoChain, Stage
  <2>3. PageTypes'
    BY <2>1, <2>2 DEF PageInv, PageTypes
  <2>4. ChainsHavePc'
    BY <2>1 DEF PageInv, PageTypes, ChainsHavePc, NoChain
  <2> QED BY <2>1, <2>3, <2>4, ChainKeeps
<1>3. ASSUME NEW i \in DOMAIN timers, TimerFires(i) PROVE PageInv'
  BY <1>3, SendKeeps DEF TimerFires, appVars, histVars, raceVars
<1>4. ASSUME NEW s \in Socket, OnOffer(s) PROVE PageInv'
  <2>1. LoggedIn \/ orphaned # {}
    BY <1>4, ReceiverIsKnown DEF OnOffer, Receive
  <2> QED BY <1>4, <2>1, RequestKeeps DEF OnOffer, AwaitMic, appVars, histVars, raceVars
<1>5. ASSUME NEW s \in Socket, OnCandidate(s) \/ OnCallEvent(s) PROVE PageInv'
  <2>1. UNCHANGED pagePart
    BY <1>5 DEF OnCandidate, OnCallEvent, pagePart, sendVars, connectVars, pageVars, appVars,
                histVars, raceVars
  <2> QED BY <2>1, SamePage
<1>6. ASSUME NEW s \in Socket, OnAuthReply(s) PROVE PageInv'
  <2>1. /\ sock[s] = "open"
        /\ wsConnected' \in {LoggedIn, wsConnected}
        /\ wsConnected => wsConnected' \/ ~ LoggedIn
        /\ UNCHANGED <<token, ws, pc, localStream, micPromise, sock, prompt, conn, handler,
                       orphaned, abandoned>>
    BY <1>6 DEF OnAuthReply, Receive, sendVars, connectVars, pageVars, histVars, raceVars
  <2>2. OnlineIsRight'
    BY <2>1 DEF PageInv, OnlineIsRight, LoggedIn
  <2> QED BY <2>1, <2>2 DEF PageInv, PageTypes, SocketsAreOwned, SessionHasSocket, OnePrompt,
             MicrophoneIsReleased, TracksAreAttached, ChainsHavePc, InUse, LoggedIn
<1>7. ASSUME NEW o \in Socket, RemoteDescriptionSet(o) PROVE PageInv'
  <2>1. /\ handler[o].stage = "remote" /\ handler[o].pc = pc
        /\ conn' = [conn EXCEPT ![pc].remote = o, ![pc].stable = FALSE]
        /\ handler' = [handler EXCEPT ![o].stage = "drain"]
        /\ UNCHANGED <<token, wsConnected, ws, pc, localStream, micPromise, sock, prompt,
                       orphaned, abandoned>>
    BY <1>7 DEF RemoteDescriptionSet, At, To, appVars, histVars, raceVars
  <2>2. pc \in Socket
    BY <2>1 DEF PageInv, PageTypes, ChainsHavePc
  <2>3. PageTypes' /\ \A s \in Socket : conn'[s].tracks = conn[s].tracks
    <3>1. conn' \in [Socket -> [remote : Socket \cup {None}, stable : BOOLEAN,
                                tracks : SUBSET Prompt, trickled : BOOLEAN]]
      <4> DEFINE first == [conn EXCEPT ![pc].remote = o]
      <4>1. first \in [Socket -> [remote : Socket \cup {None}, stable : BOOLEAN,
                                  tracks : SUBSET Prompt, trickled : BOOLEAN]]
        BY DEF PageInv, PageTypes
      <4>2. conn' = [first EXCEPT ![pc].stable = FALSE]
        BY <2>1, <2>2 DEF PageInv, PageTypes
      <4> HIDE DEF first
      <4> QED BY <4>1, <4>2
    <3>2. handler' \in [Socket -> [stage : Stage, pc : Socket \cup {None}]]
      BY <2>1 DEF PageInv, PageTypes, Stage
    <3>3. \A s \in Socket : conn'[s].tracks = conn[s].tracks
      BY <2>1, <2>2 DEF PageInv, PageTypes
    <3> QED BY <2>1, <3>1, <3>2, <3>3 DEF PageInv, PageTypes
  <2>4. ChainsHavePc'
    BY <2>1 DEF PageInv, PageTypes, ChainsHavePc
  <2> QED BY <2>1, <2>3, <2>4, ChainKeeps
<1>8. ASSUME NEW o \in Socket, drainIceCandidates(o) PROVE PageInv'
  <2>1. UNCHANGED pagePart
    BY <1>8 DEF drainIceCandidates, pagePart, appVars, histVars, raceVars
  <2> QED BY <2>1, SamePage
<1>9. ASSUME NEW o \in Socket, AnswerCreated(o) PROVE PageInv'
  <2>1. /\ handler[o].stage = "drain"
        /\ handler' = [handler EXCEPT ![o] = NoChain] \/ handler' = [handler EXCEPT ![o].stage = "local"]
        /\ UNCHANGED <<token, wsConnected, ws, pc, localStream, micPromise, sock, prompt, conn,
                       orphaned, abandoned>>
    BY <1>9 DEF AnswerCreated, At, To, Ends, appVars, pageVars, histVars, raceVars
  <2>2. PageTypes'
    BY <2>1 DEF PageInv, PageTypes, NoChain, Stage
  <2>3. ChainsHavePc'
    BY <2>1 DEF PageInv, PageTypes, ChainsHavePc, NoChain
  <2> QED BY <2>1, <2>2, <2>3, ChainKeeps
<1>10. ASSUME NEW o \in Socket, LocalDescriptionSet(o) PROVE PageInv'
  <2>1. /\ handler' = [handler EXCEPT ![o] = NoChain]
        /\ conn' = [conn EXCEPT ![pc].stable = TRUE]
        /\ UNCHANGED <<token, wsConnected, ws, pc, localStream, micPromise, sock, prompt,
                       orphaned, abandoned>>
    BY <1>10 DEF LocalDescriptionSet, Ends, appVars, histVars, raceVars
  <2>2. PageTypes' /\ \A s \in Socket : conn'[s].tracks = conn[s].tracks
    <3>1. /\ conn' = [s \in Socket |-> conn'[s]]
          /\ \A s \in Socket : \/ conn'[s] = conn[s]
                               \/ conn'[s] = [conn[s] EXCEPT !.stable = TRUE]
      BY <2>1 DEF PageInv, PageTypes
    <3>2. handler' \in [Socket -> [stage : Stage, pc : Socket \cup {None}]]
      BY <2>1 DEF PageInv, PageTypes, NoChain, Stage
    <3> QED BY <2>1, <3>1, <3>2, ConnChanges DEF PageInv, PageTypes
  <2>3. ChainsHavePc'
    BY <2>1 DEF PageInv, PageTypes, ChainsHavePc, NoChain
  <2> QED BY <2>1, <2>2, <2>3, ChainKeeps
<1>11. CASE OnIceCandidate
  <2>1. /\ conn' = [conn EXCEPT ![pc].trickled = TRUE]
        /\ UNCHANGED <<token, wsConnected, ws, pc, localStream, micPromise, sock, prompt,
                       handler, orphaned, abandoned>>
    BY <1>11 DEF OnIceCandidate, appVars, histVars, raceVars
  <2>2. PageTypes' /\ \A s \in Socket : conn'[s].tracks = conn[s].tracks
    <3>1. /\ conn' = [s \in Socket |-> conn'[s]]
          /\ \A s \in Socket : \/ conn'[s] = conn[s]
                               \/ conn'[s] = [conn[s] EXCEPT !.trickled = TRUE]
      BY <2>1 DEF PageInv, PageTypes
    <3> QED BY <2>1, <3>1, ConnChanges DEF PageInv, PageTypes
  <2>3. ChainsHavePc'
    BY <2>1 DEF PageInv, ChainsHavePc
  <2> QED BY <2>1, <2>2, <2>3, ChainKeeps
<1> QED BY <1>1, <1>2, <1>3, <1>4, <1>5, <1>6, <1>7, <1>8, <1>9, <1>10, <1>11, DisconnectKeeps
        DEF Events

\* Every step keeps the invariant of the page.
LEMMA PageStep ==
    ASSUME PageInv, [Next]_vars
    PROVE  PageInv'
<1>1. CASE GatewaySteps
  BY <1>1, GatewayLeavesPage, SamePage
<1>2. CASE UNCHANGED vars
  <2>1. UNCHANGED pagePart
    BY <1>2 DEF vars, pagePart, sendVars, connectVars, pageVars, appVars, histVars, raceVars
  <2> QED BY <2>1, SamePage
<1> QED BY <1>1, <1>2, AgentsKeep, NetworkKeeps, EventsKeep DEF Next

\* The page starts with nothing open.
LEMMA PageStarts ==
    ASSUME Init
    PROVE  PageInv
<1>1. NewConn \in [remote : Socket \cup {None}, stable : BOOLEAN,
                   tracks : SUBSET Prompt, trickled : BOOLEAN]
  BY DEF NewConn
<1>2. NoChain \in [stage : Stage, pc : Socket \cup {None}] /\ NoChain.stage = "none"
  BY DEF NoChain, Stage
<1>3. PageTypes
  BY <1>1, <1>2 DEF Init, PageTypes
<1>4. SocketsAreOwned /\ SessionHasSocket /\ OnlineIsRight
  BY DEF Init, SocketsAreOwned, SessionHasSocket, OnlineIsRight, InUse, LoggedIn
<1>5. OnePrompt /\ MicrophoneIsReleased /\ TracksAreAttached /\ ChainsHavePc
  BY <1>2 DEF Init, OnePrompt, MicrophoneIsReleased, TracksAreAttached, ChainsHavePc
<1> QED BY <1>3, <1>4, <1>5 DEF PageInv

-----------------------------------------------------------------------------
(***************************************************************************)
(* The theorems.                                                           *)
(***************************************************************************)

\* The inductive invariant of the page holds whatever arrives when.
THEOREM PageInvariant == Spec => []PageInv
<1>1. Init => PageInv
  BY PageStarts
<1>2. PageInv /\ [Next]_vars => PageInv'
  BY PageStep
<1> QED BY <1>1, <1>2, PTL DEF Spec

\* connect() leaves no WebSocket behind but in the two ways SocketsAreOwned
\* names.
THEOREM NoOtherSocketIsOpen == Spec => []SocketsAreOwned
BY PageInvariant, PTL DEF PageInv

\* "Online" is shown while ws is open, and only while some socket is.
THEOREM OnlineIsTrue == Spec => []OnlineIsRight
BY PageInvariant, PTL DEF PageInv

\* The microphone is on only in a session and as the stream that a logout
\* stops, but after the two races MicrophoneIsReleased names.
THEOREM MicrophoneGoesWithSession == Spec => []MicrophoneIsReleased
BY PageInvariant, PTL DEF PageInv

\* An answer carries the microphone that is on when it is made.
THEOREM AnswersCarryMicrophone == Spec => AnswerCarriesMicrophone
<1> DEFINE Carries == \A o \in Socket :
               At(o, "drain") /\ handler'[o].stage = "local" /\ localStream # None
                   => localStream \in conn[pc].tracks
<1>1. PageInv => Carries
  BY DEF PageInv, PageTypes, TracksAreAttached, ChainsHavePc, At
<1>2. PageInv /\ [Next]_vars => [Carries]_vars
  BY <1>1
<1> QED BY <1>2, PageInvariant, PTL DEF Spec, AnswerCarriesMicrophone

-----------------------------------------------------------------------------
(***************************************************************************)
(* Queues of messages.                                                     *)
(***************************************************************************)

\* A queue that is empty, or has one message.
LEMMA HasShort ==
    ASSUME NEW m
    PROVE  /\ ~ Has(<<>>, m) /\ Once(<<>>, m)
           /\ \A x : (Has(<<x>>, m) <=> x = m) /\ Once(<<x>>, m)
BY DEF Has, Once

\* A message more at the end.
LEMMA HasAppend ==
    ASSUME NEW S, NEW q \in Seq(S), NEW x \in S, NEW m
    PROVE  /\ Has(Append(q, x), m) <=> Has(q, m) \/ x = m
           /\ Once(q, m) /\ (x = m => ~ Has(q, m)) => Once(Append(q, x), m)
<1>1. /\ DOMAIN q = 1 .. Len(q) /\ Len(q) \in Nat
      /\ DOMAIN Append(q, x) = 1 .. Len(q) + 1
      /\ \A i \in 1 .. Len(q) : Append(q, x)[i] = q[i]
      /\ Append(q, x)[Len(q) + 1] = x
  BY AppendProperties, LenProperties
<1> QED BY <1>1 DEF Has, Once

\* The oldest message goes.
LEMMA HasTail ==
    ASSUME NEW S, NEW q \in Seq(S), q # <<>>, NEW m
    PROVE  /\ Has(q, m) <=> Head(q) = m \/ Has(Tail(q), m)
           /\ Once(q, m) => Once(Tail(q), m) /\ (Head(q) = m => ~ Has(Tail(q), m))
<1>1. /\ DOMAIN q = 1 .. Len(q) /\ Len(q) \in Nat \ {0}
      /\ Head(q) = q[1]
      /\ DOMAIN Tail(q) = 1 .. Len(q) - 1
      /\ \A i \in 1 .. Len(q) - 1 : Tail(q)[i] = q[i + 1]
  BY HeadTailProperties, LenProperties, EmptySeq
<1>2. ASSUME Has(q, m) PROVE Head(q) = m \/ Has(Tail(q), m)
  <2>1. PICK i \in 1 .. Len(q) : q[i] = m
    BY <1>1, <1>2 DEF Has
  <2>2. CASE i = 1 BY <1>1, <2>1, <2>2
  <2>3. CASE i # 1
    <3>1. i - 1 \in 1 .. Len(q) - 1 /\ (i - 1) + 1 = i
      BY <1>1, <2>1, <2>3
    <3>2. Tail(q)[i - 1] = q[i]
      BY <1>1, <3>1
    <3> QED BY <1>1, <2>1, <3>1, <3>2 DEF Has
  <2> QED BY <2>2, <2>3
<1>3. ASSUME Head(q) = m \/ Has(Tail(q), m) PROVE Has(q, m)
  BY <1>1, <1>3 DEF Has
<1>4. ASSUME Once(q, m) PROVE Once(Tail(q), m) /\ (Head(q) = m => ~ Has(Tail(q), m))
  BY <1>1, <1>4 DEF Has, Once
<1> QED BY <1>2, <1>3, <1>4

\* What is waiting to be sent, when a timer more is set.
LEMMA MessagesAppend ==
    ASSUME NEW t \in Seq(Timer), NEW r \in Timer
    PROVE  /\ Messages(t) \in Seq(Sendable)
           /\ Messages(Append(t, r)) = Append(Messages(t), r.msg)
<1>1. /\ DOMAIN t = 1 .. Len(t) /\ Len(t) \in Nat
      /\ \A i \in 1 .. Len(t) : t[i] \in Timer
  BY LenProperties, ElementOfSeq
<1>2. /\ Messages(t) = [i \in 1 .. Len(t) |-> t[i].msg]
      /\ Messages(t) \in Seq(Sendable)
      /\ Len(Messages(t)) = Len(t)
  BY <1>1 DEF Messages, Timer
<1>3. /\ DOMAIN Append(t, r) = 1 .. Len(t) + 1
      /\ \A i \in 1 .. Len(t) : Append(t, r)[i] = t[i]
      /\ Append(t, r)[Len(t) + 1] = r
  BY AppendProperties, LenProperties
<1>4. Messages(Append(t, r)) = [i \in 1 .. Len(t) + 1 |-> Append(t, r)[i].msg]
  BY <1>3 DEF Messages
<1>5. /\ DOMAIN Append(Messages(t), r.msg) = 1 .. Len(t) + 1
      /\ \A i \in 1 .. Len(t) : Append(Messages(t), r.msg)[i] = Messages(t)[i]
      /\ Append(Messages(t), r.msg)[Len(t) + 1] = r.msg
      /\ Append(Messages(t), r.msg) \in Seq(Sendable)
  <2>1. r.msg \in Sendable
    BY DEF Timer
  <2> QED BY <1>2, <2>1, AppendProperties, LenProperties
<1>6. Messages(Append(t, r)) \in Seq(Sendable) /\ Len(Messages(Append(t, r))) = Len(t) + 1
  BY <1>1, <1>3, <1>4 DEF Timer
<1>7. Len(Append(Messages(t), r.msg)) = Len(t) + 1
  BY <1>2, AppendProperties DEF Timer
<1>8. ASSUME NEW i \in 1 .. Len(t) + 1
      PROVE  Messages(Append(t, r))[i] = Append(Messages(t), r.msg)[i]
  <2>1. CASE i = Len(t) + 1 BY <1>3, <1>4, <1>5, <2>1
  <2>2. CASE i # Len(t) + 1
    <3>1. i \in 1 .. Len(t)
      BY <1>1, <2>2
    <3> QED BY <1>2, <1>3, <1>4, <1>5, <3>1
  <2> QED BY <2>1, <2>2
<1> QED BY <1>2, <1>5, <1>6, <1>7, <1>8, SeqEqual

\* The timers that stay when one has fired.
LEMMA OtherTimersAre ==
    ASSUME QueueTypes, NEW i \in DOMAIN timers, NEW m
    PROVE  /\ OtherTimers(i) \in Seq(Timer)
           /\ Has(Messages(timers), m) <=> timers[i].msg = m \/ Has(Messages(OtherTimers(i)), m)
           /\ Once(Messages(timers), m) => /\ Once(Messages(OtherTimers(i)), m)
                                           /\ timers[i].msg = m =>
                                                 ~ Has(Messages(OtherTimers(i)), m)
<1> DEFINE n == Len(timers)
           q == SubSeq(timers, 1, i - 1)
           r == SubSeq(timers, i + 1, n)
<1>1. timers \in Seq(Timer) /\ n \in Nat /\ DOMAIN timers = 1 .. n /\ i \in 1 .. n
  BY LenProperties DEF QueueTypes
<1>2. \A k \in 1 .. n : timers[k] \in Timer
  BY <1>1, ElementOfSeq
<1>3. q \in Seq(Timer) /\ Len(q) = i - 1 /\ \A k \in 1 .. i - 1 : q[k] = timers[k]
  <2>1. i - 1 \in Int /\ \A k \in 1 .. i - 1 : timers[k] \in Timer
    BY <1>1, <1>2
  <2>2. /\ q \in Seq(Timer) /\ Len(q) = IF 1 <= i - 1 THEN (i - 1) - 1 + 1 ELSE 0
        /\ \A k \in 1 .. (i - 1) - 1 + 1 : q[k] = timers[1 + k - 1]
    BY <1>1, <2>1, SubSeqProperties
  <2> QED BY <1>1, <2>2
<1>4. r \in Seq(Timer) /\ Len(r) = n - i /\ \A k \in 1 .. n - i : r[k] = timers[i + k]
  <2>1. i + 1 \in Int /\ n \in Int /\ \A k \in i + 1 .. n : timers[k] \in Timer
    BY <1>1, <1>2
  <2>2. /\ r \in Seq(Timer) /\ Len(r) = IF i + 1 <= n THEN n - (i + 1) + 1 ELSE 0
        /\ \A k \in 1 .. n - (i + 1) + 1 : r[k] = timers[(i + 1) + k - 1]
    BY <1>1, <2>1, SubSeqProperties
  <2>3. /\ n - (i + 1) + 1 = n - i /\ (IF i + 1 <= n THEN n - i ELSE 0) = n - i
        /\ \A k \in 1 .. n - i : (i + 1) + k - 1 = i + k
    BY <1>1
  <2> QED BY <2>2, <2>3
<1>5. OtherTimers(i) = q \o r
  BY DEF OtherTimers
<1> HIDE DEF q, r
<1>6. /\ OtherTimers(i) \in Seq(Timer)
      /\ Len(OtherTimers(i)) = n - 1
      /\ \A k \in 1 .. n - 1 : OtherTimers(i)[k] = IF k < i THEN timers[k] ELSE timers[k + 1]
  <2>1. /\ q \o r \in Seq(Timer)
        /\ Len(q \o r) = Len(q) + Len(r)
        /\ \A k \in 1 .. Len(q) + Len(r) : (q \o r)[k] = IF k <= Len(q) THEN q[k] ELSE r[k - Len(q)]
    BY <1>3, <1>4, ConcatProperties
  <2>2. Len(q) + Len(r) = n - 1
    BY <1>1, <1>3, <1>4
  <2>3. ASSUME NEW k \in 1 .. n - 1
        PROVE  (q \o r)[k] = IF k < i THEN timers[k] ELSE timers[k + 1]
    <3>1. CASE k < i BY <1>1, <1>3, <2>1, <2>2, <3>1
    <3>2. CASE ~ (k < i)
      <4>1. k - (i - 1) \in 1 .. n - i /\ i + (k - (i - 1)) = k + 1
        BY <1>1, <3>2
      <4>2. r[k - (i - 1)] = timers[k + 1]
        BY <1>4, <4>1
      <4>3. (q \o r)[k] = r[k - (i - 1)]
        BY <1>1, <1>3, <2>1, <2>2, <3>2
      <4> QED BY <3>2, <4>2, <4>3
    <3> QED BY <3>1, <3>2
  <2> QED BY <1>5, <2>1, <2>2, <2>3
<1>7. /\ DOMAIN Messages(OtherTimers(i)) = 1 .. n - 1
      /\ \A k \in 1 .. n - 1 : Messages(OtherTimers(i))[k] =
                                  IF k < i THEN timers[k].msg ELSE timers[k + 1].msg
      /\ DOMAIN Messages(timers) = 1 .. n
      /\ \A k \in 1 .. n : Messages(timers)[k] = timers[k].msg
  BY <1>1, <1>6, LenProperties DEF Messages
<1>8. ASSUME Has(Messages(timers), m), timers[i].msg # m
      PROVE  Has(Messages(OtherTimers(i)), m)
  <2>1. PICK k \in 1 .. n : timers[k].msg = m
    BY <1>7, <1>8 DEF Has
  <2>2. CASE k < i
    <3>1. k \in 1 .. n - 1
      BY <1>1, <2>2
    <3> QED BY <1>7, <2>1, <2>2, <3>1 DEF Has
  <2>3. CASE k > i
    <3>1. k - 1 \in 1 .. n - 1 /\ ~ (k - 1 < i) /\ (k - 1) + 1 = k
      BY <1>1, <2>3
    <3> QED BY <1>7, <2>1, <3>1 DEF Has
  <2> QED BY <1>1, <1>8, <2>1, <2>2, <2>3
<1>9. ASSUME timers[i].msg = m \/ Has(Messages(OtherTimers(i)), m)
      PROVE  Has(Messages(timers), m)
  <2>1. CASE timers[i].msg = m BY <1>1, <1>7, <2>1 DEF Has
  <2>2. CASE Has(Messages(OtherTimers(i)), m)
    <3>1. PICK k \in 1 .. n - 1 : (IF k < i THEN timers[k].msg ELSE timers[k + 1].msg) = m
      BY <1>7, <2>2 DEF Has
    <3>2. k \in 1 .. n /\ k + 1 \in 1 .. n
      BY <1>1
    <3> QED BY <1>7, <3>1, <3>2 DEF Has
  <2> QED BY <1>9, <2>1, <2>2
<1>10. ASSUME Once(Messages(timers), m)
      PROVE  /\ Once(Messages(OtherTimers(i)), m)
             /\ timers[i].msg = m => ~ Has(Messages(OtherTimers(i)), m)
  <2>1. \A j, k \in 1 .. n : timers[j].msg = m /\ timers[k].msg = m => j = k
    BY <1>7, <1>10 DEF Once
  <2>2. ASSUME NEW j \in 1 .. n - 1, NEW k \in 1 .. n - 1,
               (IF j < i THEN timers[j].msg ELSE timers[j + 1].msg) = m,
               (IF k < i THEN timers[k].msg ELSE timers[k + 1].msg) = m
        PROVE  j = k
    BY <1>1, <2>1, <2>2
  <2>3. Once(Messages(OtherTimers(i)), m)
    BY <1>7, <2>2 DEF Once
  <2>4. ASSUME timers[i].msg = m, NEW k \in 1 .. n - 1
        PROVE  (IF k < i THEN timers[k].msg ELSE timers[k + 1].msg) # m
    BY <1>1, <2>1, <2>4
  <2> QED BY <1>7, <2>3, <2>4 DEF Has
<1> QED BY <1>6, <1>8, <1>9, <1>10

\* The places of a message after a step.
LEMMA PlacesAfter ==
    ASSUME NEW m
    PROVE  /\ Resumes(m)' <=> Has(todo', m)
           /\ Awaits(m)' <=> \E g \in Prompt : Has(waiters'[g], m)
           /\ PutOff(m)' <=> Has(Messages(timers'), m)
           /\ HeldOnce(m)' <=>
                 /\ Once(todo', m) /\ Once(Messages(timers'), m)
                 /\ \A g \in Prompt : Once(waiters'[g], m)
                 /\ \A g, h \in Prompt : Has(waiters'[g], m) /\ Has(waiters'[h], m) => g = h
                 /\ Resumes(m)' => ~ Awaits(m)' /\ ~ PutOff(m)'
                 /\ Awaits(m)' => ~ PutOff(m)'
           /\ Held(m)' <=> Resumes(m)' \/ Awaits(m)' \/ PutOff(m)'
BY DEF Resumes, Awaits, PutOff, HeldOnce, Held, Has, Once, Messages

-----------------------------------------------------------------------------
(***************************************************************************)
(* The ways of a message on the page.                                      *)
(***************************************************************************)

\* x asks for the microphone: it goes on at once, or waits for a request.
LEMMA HeldAsk ==
    ASSUME QueueTypes, NEW x \in Asking, NEW m, todo = <<>>, UNCHANGED timers,
           \/ todo' = <<x>> /\ UNCHANGED waiters
           \/ /\ UNCHANGED todo
              /\ \E g \in Prompt : waiters' = [waiters EXCEPT ![g] = Append(@, x)]
    PROVE  /\ HeldOnce(m) /\ (x = m => ~ Held(m)) => HeldOnce(m)'
           /\ Held(m)' <=> Held(m) \/ x = m
<1>1. Messages(timers') = Messages(timers)
  OBVIOUS
<1>2. CASE todo' = <<x>> /\ UNCHANGED waiters
  BY <1>1, <1>2, HasShort, PlacesAfter DEF HeldOnce, Held, Resumes, Awaits, PutOff
<1>3. ASSUME NEW g \in Prompt, UNCHANGED todo, waiters' = [waiters EXCEPT ![g] = Append(@, x)]
      PROVE  /\ HeldOnce(m) /\ (x = m => ~ Held(m)) => HeldOnce(m)'
             /\ Held(m)' <=> Held(m) \/ x = m
  <2>1. waiters'[g] = Append(waiters[g], x) /\ waiters[g] \in Seq(Asking)
    BY <1>3 DEF QueueTypes
  <2>2. \A h \in Prompt \ {g} : waiters'[h] = waiters[h]
    BY <1>3 DEF QueueTypes
  <2>3. /\ Has(waiters'[g], m) <=> Has(waiters[g], m) \/ x = m
        /\ Once(waiters[g], m) /\ (x = m => ~ Has(waiters[g], m)) => Once(waiters'[g], m)
    BY <2>1, HasAppend
  <2>4. Awaits(m)' <=> Awaits(m) \/ x = m
    BY <2>2, <2>3, PlacesAfter DEF Awaits
  <2>5. (Resumes(m)' <=> Resumes(m)) /\ (PutOff(m)' <=> PutOff(m))
    BY <1>1, <1>3, PlacesAfter DEF Resumes, PutOff
  <2>6. ~ Resumes(m)
    BY HasShort DEF Resumes
  <2>7. ASSUME HeldOnce(m), x = m => ~ Held(m) PROVE HeldOnce(m)'
    <3>1. x = m => ~ Awaits(m) /\ ~ PutOff(m)
      BY <2>7 DEF Held
    <3>2. \A h \in Prompt : Once(waiters'[h], m)
      BY <2>2, <2>3, <2>7, <3>1 DEF HeldOnce, Awaits
    <3>3. \A h, k \in Prompt : Has(waiters'[h], m) /\ Has(waiters'[k], m) => h = k
      BY <2>2, <2>3, <2>7, <3>1 DEF HeldOnce, Awaits
    <3>4. Once(todo', m) /\ Once(Messages(timers'), m)
      BY <1>1, <1>3, <2>7 DEF HeldOnce
    <3>5. /\ Resumes(m)' => ~ Awaits(m)' /\ ~ PutOff(m)'
          /\ Awaits(m)' => ~ PutOff(m)'
      BY <2>4, <2>5, <2>6, <2>7, <3>1 DEF HeldOnce
    <3> QED BY <3>2, <3>3, <3>4, <3>5, PlacesAfter
  <2> QED BY <2>4, <2>5, <2>7, PlacesAfter DEF Held
<1> QED BY <1>2, <1>3

\* A request is settled: who waits for it goes on.
LEMMA HeldSettle ==
    ASSUME QueueTypes, NEW g \in Prompt, NEW m, todo = <<>>, todo' = waiters[g],
           waiters' = [waiters EXCEPT ![g] = <<>>], UNCHANGED timers
    PROVE  /\ HeldOnce(m) => HeldOnce(m)'
           /\ Held(m)' <=> Held(m)
<1>1. Messages(timers') = Messages(timers)
  OBVIOUS
<1>2. waiters'[g] = <<>> /\ \A h \in Prompt \ {g} : waiters'[h] = waiters[h]
  BY DEF QueueTypes
<1>3. ~ Has(waiters'[g], m) /\ Once(waiters'[g], m) /\ ~ Resumes(m)
  BY <1>2, HasShort DEF Resumes
<1>4. /\ Awaits(m)' <=> \E h \in Prompt \ {g} : Has(waiters[h], m)
      /\ Resumes(m)' <=> Has(waiters[g], m)
      /\ PutOff(m)' <=> PutOff(m)
  BY <1>1, <1>2, <1>3, PlacesAfter DEF PutOff
<1>5. ASSUME HeldOnce(m) PROVE HeldOnce(m)'
  <2>1. Once(todo', m) /\ Once(Messages(timers'), m)
    BY <1>1, <1>5 DEF HeldOnce
  <2>2. \A h \in Prompt : Once(waiters'[h], m)
    BY <1>2, <1>3, <1>5 DEF HeldOnce
  <2>3. \A h, k \in Prompt : Has(waiters'[h], m) /\ Has(waiters'[k], m) => h = k
    BY <1>2, <1>3, <1>5 DEF HeldOnce
  <2>4. /\ Resumes(m)' => ~ Awaits(m)' /\ ~ PutOff(m)'
        /\ Awaits(m)' => ~ PutOff(m)'
    BY <1>4, <1>5 DEF HeldOnce, Awaits
  <2> QED BY <2>1, <2>2, <2>3, <2>4, PlacesAfter
<1>6. Held(m)' <=> Held(m)
  BY <1>3, <1>4, PlacesAfter DEF Held, Awaits
<1> QED BY <1>5, <1>6

\* The task goes on: its first message is off the page, or put off.
LEMMA HeldResume ==
    ASSUME QueueTypes, NEW m, todo # <<>>, todo' = Tail(todo), UNCHANGED waiters,
           \/ UNCHANGED timers
           \/ /\ Head(todo) \in Sendable
              /\ \E k \in {500, 1000} : timers' = Append(timers, [msg |-> Head(todo), ms |-> k])
    PROVE  /\ HeldOnce(m) => HeldOnce(m)'
           /\ Held(m)' => Held(m)
           /\ Held(m) => Held(m)' \/ (timers' = timers /\ Head(todo) = m)
           /\ HeldOnce(m) /\ timers' = timers /\ Head(todo) = m => Held(m) /\ ~ Held(m)'
<1>1. /\ Resumes(m) <=> Head(todo) = m \/ Resumes(m)'
      /\ Once(todo, m) => Once(todo', m) /\ (Head(todo) = m => ~ Resumes(m)')
  BY HasTail, PlacesAfter DEF QueueTypes, Resumes
<1>2. Awaits(m)' <=> Awaits(m)
  BY PlacesAfter DEF Awaits
<1>3. CASE UNCHANGED timers
  <2>1. Messages(timers') = Messages(timers) /\ (PutOff(m)' <=> PutOff(m))
    BY <1>3, PlacesAfter DEF PutOff
  <2> QED BY <1>1, <1>2, <1>3, <2>1, PlacesAfter DEF HeldOnce, Held
<1>4. ASSUME NEW k \in {500, 1000}, Head(todo) \in Sendable,
             timers' = Append(timers, [msg |-> Head(todo), ms |-> k])
      PROVE  /\ HeldOnce(m) => HeldOnce(m)'
             /\ Held(m)' <=> Held(m)
             /\ timers' # timers
  <2>1. /\ Messages(timers) \in Seq(Sendable)
        /\ Messages(timers') = Append(Messages(timers), Head(todo))
    <3>1. [msg |-> Head(todo), ms |-> k] \in Timer /\ timers \in Seq(Timer)
      BY <1>4 DEF QueueTypes, Timer
    <3>2. [msg |-> Head(todo), ms |-> k].msg = Head(todo)
      OBVIOUS
    <3> QED BY <1>4, <3>1, <3>2, MessagesAppend
  <2>2. /\ PutOff(m)' <=> PutOff(m) \/ Head(todo) = m
        /\ Once(Messages(timers), m) /\ (Head(todo) = m => ~ PutOff(m)) =>
              Once(Messages(timers'), m)
    <3> DEFINE h == Head(todo)
    <3>1. h \in Sendable /\ Messages(timers) \in Seq(Sendable)
          /\ Messages(timers') = Append(Messages(timers), h)
      BY <1>4, <2>1
    <3> HIDE DEF h
    <3>2. /\ Has(Messages(timers'), m) <=> Has(Messages(timers), m) \/ h = m
          /\ Once(Messages(timers), m) /\ (h = m => ~ Has(Messages(timers), m))
                => Once(Messages(timers'), m)
      BY <3>1, HasAppend
    <3> QED BY <3>2, PlacesAfter DEF PutOff, h
  <2>3. timers' # timers
    <3>1. [msg |-> Head(todo), ms |-> k] \in Timer /\ timers \in Seq(Timer)
      BY <1>4 DEF QueueTypes, Timer
    <3> QED BY <1>4, <3>1, AppendProperties, LenProperties
  <2> QED BY <1>1, <1>2, <2>2, <2>3, PlacesAfter DEF HeldOnce, Held
<1> QED BY <1>3, <1>4

\* A timer fires: its message is off the page, or put off again.
LEMMA HeldFire ==
    ASSUME QueueTypes, NEW i \in DOMAIN timers, NEW m, UNCHANGED <<todo, waiters>>,
           \/ timers' = OtherTimers(i)
           \/ \E k \in {500, 1000} :
                 timers' = Append(OtherTimers(i), [msg |-> timers[i].msg, ms |-> k])
    PROVE  /\ HeldOnce(m) => HeldOnce(m)'
           /\ Held(m)' => Held(m)
           /\ Held(m) => Held(m)' \/ (timers' = OtherTimers(i) /\ timers[i].msg = m)
           /\ HeldOnce(m) /\ timers' = OtherTimers(i) /\ timers[i].msg = m => Held(m) /\ ~ Held(m)'
<1>1. /\ OtherTimers(i) \in Seq(Timer)
      /\ PutOff(m) <=> timers[i].msg = m \/ Has(Messages(OtherTimers(i)), m)
      /\ Once(Messages(timers), m) => /\ Once(Messages(OtherTimers(i)), m)
                                      /\ timers[i].msg = m => ~ Has(Messages(OtherTimers(i)), m)
  BY OtherTimersAre DEF PutOff
<1>2. (Awaits(m)' <=> Awaits(m)) /\ (Resumes(m)' <=> Resumes(m))
  BY PlacesAfter DEF Awaits, Resumes
<1>3. timers[i].msg \in Sendable
  <2>1. timers \in Seq(Timer) /\ i \in 1 .. Len(timers)
    BY LenProperties DEF QueueTypes
  <2>2. timers[i] \in Timer
    BY <2>1, ElementOfSeq
  <2> QED BY <2>2 DEF Timer
<1>4. CASE timers' = OtherTimers(i)
  <2>1. Messages(timers') = Messages(OtherTimers(i))
    BY <1>4
  <2>2. PutOff(m)' <=> Has(Messages(OtherTimers(i)), m)
    BY <2>1, PlacesAfter
  <2> QED BY <1>1, <1>2, <1>4, <2>1, <2>2, PlacesAfter DEF HeldOnce, Held
<1>5. ASSUME NEW k \in {500, 1000},
             timers' = Append(OtherTimers(i), [msg |-> timers[i].msg, ms |-> k])
      PROVE  /\ HeldOnce(m) => HeldOnce(m)'
             /\ Held(m)' <=> Held(m)
             /\ timers' # OtherTimers(i)
  <2>1. /\ Messages(OtherTimers(i)) \in Seq(Sendable)
        /\ Messages(timers') = Append(Messages(OtherTimers(i)), timers[i].msg)
    <3>1. [msg |-> timers[i].msg, ms |-> k] \in Timer
      BY <1>3, <1>5 DEF Timer
    <3> QED BY <1>1, <1>5, <3>1, MessagesAppend
  <2>2. /\ PutOff(m)' <=> PutOff(m)
        /\ Once(Messages(timers), m) => Once(Messages(timers'), m)
    BY <1>1, <1>3, <2>1, HasAppend, PlacesAfter
  <2>3. timers' # OtherTimers(i)
    <3>1. [msg |-> timers[i].msg, ms |-> k] \in Timer
      BY <1>3, <1>5 DEF Timer
    <3> QED BY <1>1, <1>5, <3>1, AppendProperties, LenProperties
  <2> QED BY <1>2, <2>2, <2>3, PlacesAfter DEF HeldOnce, Held
<1> QED BY <1>4, <1>5

\* Another message than m comes into the task, or is put off.
LEMMA HeldOther ==
    ASSUME QueueTypes, NEW m, UNCHANGED waiters,
           \/ UNCHANGED todo
           \/ /\ todo = <<>> \/ \E x : x # m /\ todo = <<x>>
              /\ todo' = <<>> \/ \E x : x # m /\ todo' = <<x>>,
           \/ UNCHANGED timers
           \/ \E r \in Timer : r.msg # m /\ timers' = Append(timers, r)
    PROVE  /\ HeldOnce(m) => HeldOnce(m)'
           /\ Held(m)' <=> Held(m)
<1>1. (Resumes(m)' <=> Resumes(m)) /\ (Once(todo, m) => Once(todo', m))
  BY HasShort, PlacesAfter DEF Resumes
<1>2. Awaits(m)' <=> Awaits(m)
  BY PlacesAfter DEF Awaits
<1>3. (PutOff(m)' <=> PutOff(m)) /\ (Once(Messages(timers), m) => Once(Messages(timers'), m))
  <2>1. CASE UNCHANGED timers
    BY <2>1, PlacesAfter DEF PutOff
  <2>2. ASSUME NEW r \in Timer, r.msg # m, timers' = Append(timers, r)
        PROVE  /\ PutOff(m)' <=> PutOff(m)
               /\ Once(Messages(timers), m) => Once(Messages(timers'), m)
    <3>1. /\ Messages(timers) \in Seq(Sendable)
          /\ Messages(timers') = Append(Messages(timers), r.msg)
      BY <2>2, MessagesAppend DEF QueueTypes
    <3>2. r.msg \in Sendable /\ r.msg # m
      BY <2>2 DEF Timer
    <3> QED BY <3>1, <3>2, HasAppend, PlacesAfter DEF PutOff
  <2> QED BY <2>1, <2>2
<1> QED BY <1>1, <1>2, <1>3, PlacesAfter DEF HeldOnce, Held

\* Where messages are, and how often each dial was sent.
messagePart == <<todo, timers, waiters, sends>>

\* m asks for the microphone in this step.
Asks(m) ==
    \/ \E d \in Click : dial(d) /\ m = Msg("dial", d)
    \/ \E s \in Socket : OnOffer(s) /\ m = Msg("offer", s)

\* What a step does with m, a dial or an offer.  A dial leaves the page for
\* the gateway, or is dropped without a WebSocket; an offer leaves it when its
\* chain goes on.
Moves(m) ==
    /\ HeldOnce(m)'
    /\ Held(m)' => Held(m) \/ Asks(m)
    /\ Held(m) /\ ~ Held(m)' /\ m.ev = "dial" /\ ws # None =>
          UNCHANGED ws /\ toGw' = [toGw EXCEPT ![ws] = Append(@, m)]
    /\ m.ev = "dial" =>
          \/ sends'[m.arg] = sends[m.arg]
          \/ sends'[m.arg] = sends[m.arg] + 1 /\ Held(m) /\ ~ Held(m)'

\* A step that leaves all messages where they are.
LEMMA MovesStay ==
    ASSUME NEW m, HeldOnce(m), UNCHANGED messagePart
    PROVE  Moves(m)
<1>1. (Held(m)' <=> Held(m)) /\ HeldOnce(m)'
  BY PlacesAfter DEF messagePart, Held, HeldOnce, Resumes, Awaits, PutOff
<1> QED BY <1>1 DEF Moves, messagePart

\* dial and OnOffer.
LEMMA MovesAsk ==
    ASSUME PageTypes, QueueTypes, NEW m, HeldOnce(m), NEW x \in Asking, Task, AwaitMic(x),
           UNCHANGED <<timers, sends, localStream>>, x = m => ~ Held(m) /\ Asks(m)
    PROVE  Moves(m)
<1>1. \/ todo' = <<x>> /\ UNCHANGED waiters
      \/ UNCHANGED todo /\ \E g \in Prompt : waiters' = [waiters EXCEPT ![g] = Append(@, x)]
  <2>1. CASE localStream # None
    BY <2>1 DEF AwaitMic
  <2>2. CASE localStream = None
    <3>1. micPromise' \in Prompt
      BY <2>2 DEF AwaitMic, RequestMic, PageTypes
    <3> QED BY <2>2, <3>1 DEF AwaitMic
  <2> QED BY <2>1, <2>2
<1>2. HeldOnce(m)' /\ (Held(m)' <=> Held(m) \/ x = m)
  BY <1>1, HeldAsk DEF Task
<1> QED BY <1>2 DEF Moves

\* MicGranted and MicDenied.
LEMMA MovesSettle ==
    ASSUME QueueTypes, NEW m, HeldOnce(m), NEW g \in Prompt, MicGranted(g) \/ MicDenied(g)
    PROVE  Moves(m)
<1>1. /\ todo = <<>> /\ todo' = waiters[g] /\ waiters' = [waiters EXCEPT ![g] = <<>>]
      /\ UNCHANGED <<timers, sends>>
  BY DEF MicGranted, MicDenied, Task
<1>2. HeldOnce(m)' /\ (Held(m)' <=> Held(m))
  BY <1>1, HeldSettle
<1> QED BY <1>1, <1>2 DEF Moves

\* What sendWS does with its message.
LEMMA SendGoes ==
    ASSUME PageTypes, QueueTypes, NEW x \in Sendable, NEW rest \in Seq(Timer), sendWS(x, rest)
    PROVE  \/ ws = None /\ timers' = rest /\ UNCHANGED sends
           \/ /\ ws \in Socket /\ UNCHANGED ws /\ timers' = rest
              /\ toGw' = [toGw EXCEPT ![ws] = Append(@, x)]
              /\ sends' = IF x.ev = "dial" THEN [sends EXCEPT ![x.arg] = @ + 1] ELSE sends
           \/ /\ \E k \in {500, 1000} : timers' = Append(rest, [msg |-> x, ms |-> k])
              /\ timers' # rest
              /\ UNCHANGED sends
<1>1. CASE ws = None /\ timers' = rest /\ UNCHANGED sends
  BY <1>1
<1>2. CASE /\ ws # None /\ toGw' = [toGw EXCEPT ![ws] = Append(@, x)] /\ timers' = rest
           /\ sends' = IF x.ev = "dial" THEN [sends EXCEPT ![x.arg] = @ + 1] ELSE sends
           /\ UNCHANGED connectVars
  BY <1>2 DEF PageTypes, connectVars, pageVars
<1>3. ASSUME NEW k \in {500, 1000}, timers' = Append(rest, [msg |-> x, ms |-> k]), UNCHANGED sends
      PROVE  timers' # rest
  <2>1. [msg |-> x, ms |-> k] \in Timer
    BY DEF Timer
  <2> QED BY <1>3, <2>1, AppendProperties, LenProperties
<1> QED BY <1>1, <1>2, <1>3 DEF sendWS

\* Each dial is counted when it is sent.
LEMMA SendCounts ==
    ASSUME HistoryTypes, NEW x \in Sendable, NEW m \in Asking, m.ev = "dial",
           sends' = IF x.ev = "dial" THEN [sends EXCEPT ![x.arg] = @ + 1] ELSE sends
    PROVE  sends'[m.arg] = IF x = m THEN sends[m.arg] + 1 ELSE sends[m.arg]
<1>1. m.arg \in Click /\ m = Msg("dial", m.arg)
  BY DEF Asking, Msg
<1>2. ASSUME x.ev = "dial" PROVE x.arg \in Click /\ x = Msg("dial", x.arg)
  BY <1>2 DEF Sendable, Msg
<1>3. sends \in [Click -> Nat]
  BY DEF HistoryTypes
<1>4. CASE x.ev # "dial" BY <1>4
<1>5. CASE x.ev = "dial"
  <2>1. x = m \/ x.arg # m.arg
    BY <1>1, <1>2, <1>5
  <2> QED BY <1>1, <1>2, <1>3, <1>5, <2>1
<1> QED BY <1>4, <1>5

\* A message that left its place is sent, dropped or put off.
LEMMA SendMoves ==
    ASSUME PageTypes, QueueTypes, HistoryTypes, NEW m \in Asking, HeldOnce(m)',
           NEW x \in Sendable, NEW rest \in Seq(Timer), sendWS(x, rest),
           Held(m)' => Held(m),
           Held(m) => Held(m)' \/ (timers' = rest /\ x = m),
           timers' = rest /\ x = m => Held(m) /\ ~ Held(m)'
    PROVE  Moves(m)
<1>1. CASE ws = None /\ timers' = rest /\ UNCHANGED sends
  BY <1>1 DEF Moves
<1>2. CASE /\ ws \in Socket /\ UNCHANGED ws /\ timers' = rest
           /\ toGw' = [toGw EXCEPT ![ws] = Append(@, x)]
           /\ sends' = IF x.ev = "dial" THEN [sends EXCEPT ![x.arg] = @ + 1] ELSE sends
  <2>1. ASSUME m.ev = "dial"
        PROVE  IF x = m THEN sends'[m.arg] = sends[m.arg] + 1 ELSE sends'[m.arg] = sends[m.arg]
    BY <1>2, <2>1, SendCounts
  <2> QED BY <1>2, <2>1 DEF Moves
<1>3. CASE timers' # rest /\ UNCHANGED sends
  BY <1>3 DEF Moves
<1>4. \/ ws = None /\ timers' = rest /\ UNCHANGED sends
      \/ /\ ws \in Socket /\ UNCHANGED ws /\ timers' = rest
         /\ toGw' = [toGw EXCEPT ![ws] = Append(@, x)]
         /\ sends' = IF x.ev = "dial" THEN [sends EXCEPT ![x.arg] = @ + 1] ELSE sends
      \/ /\ \E k \in {500, 1000} : timers' = Append(rest, [msg |-> x, ms |-> k])
         /\ timers' # rest
         /\ UNCHANGED sends
  BY SendGoes
<1> QED BY <1>1, <1>2, <1>3, <1>4

\* The message a task goes on with.
LEMMA MovesResume ==
    ASSUME PageTypes, QueueTypes, HistoryTypes, NEW m \in Asking, HeldOnce(m), ResumeSend
    PROVE  Moves(m)
<1>1. todo # <<>> /\ todo' = Tail(todo) /\ UNCHANGED waiters /\ sendWS(Head(todo), timers)
  BY DEF ResumeSend
<1>2. Head(todo) \in Sendable /\ timers \in Seq(Timer)
  <2>1. Head(todo) \in Asking \cup Sendable \cup {Msg("disconnect", None)}
    BY <1>1, HeadTailProperties DEF QueueTypes
  <2>2. Head(todo).ev \in {"dial", "answer", "candidate"}
    BY DEF ResumeSend
  <2> QED BY <2>1, <2>2 DEF QueueTypes, Asking, Sendable, Msg
<1>3. \/ UNCHANGED timers
      \/ \E k \in {500, 1000} : timers' = Append(timers, [msg |-> Head(todo), ms |-> k])
  BY <1>1, <1>2, SendGoes
<1>4. /\ HeldOnce(m)' /\ (Held(m)' => Held(m))
      /\ Held(m) => Held(m)' \/ (timers' = timers /\ Head(todo) = m)
      /\ timers' = timers /\ Head(todo) = m => Held(m) /\ ~ Held(m)'
  BY <1>1, <1>2, <1>3, HeldResume
<1> QED BY <1>1, <1>2, <1>4, SendMoves

\* The message of a timer.
LEMMA MovesFire ==
    ASSUME PageTypes, QueueTypes, HistoryTypes, NEW m \in Asking, HeldOnce(m),
           NEW i \in DOMAIN timers, TimerFires(i)
    PROVE  Moves(m)
<1>1. UNCHANGED <<todo, waiters>> /\ sendWS(timers[i].msg, OtherTimers(i))
  BY DEF TimerFires
<1>2. timers[i].msg \in Sendable
  <2>1. timers \in Seq(Timer) /\ i \in 1 .. Len(timers)
    BY LenProperties DEF QueueTypes
  <2>2. timers[i] \in Timer
    BY <2>1, ElementOfSeq
  <2> QED BY <2>2 DEF Timer
<1>3. OtherTimers(i) \in Seq(Timer)
  BY OtherTimersAre
<1>4. \/ timers' = OtherTimers(i)
      \/ \E k \in {500, 1000} :
            timers' = Append(OtherTimers(i), [msg |-> timers[i].msg, ms |-> k])
  BY <1>1, <1>2, <1>3, SendGoes
<1>5. /\ HeldOnce(m)' /\ (Held(m)' => Held(m))
      /\ Held(m) => Held(m)' \/ (timers' = OtherTimers(i) /\ timers[i].msg = m)
      /\ timers' = OtherTimers(i) /\ timers[i].msg = m => Held(m) /\ ~ Held(m)'
  BY <1>1, <1>4, HeldFire
<1> QED BY <1>1, <1>2, <1>3, <1>5, SendMoves

\* The messages are left alone by all but a few tasks.
LEMMA MessagesStay ==
    ASSUME \/ \E a \in Agent : Login(a)
           \/ GatewaySteps
           \/ Network
           \/ \E s \in Socket :
                 \/ OnCandidate(s)
                 \/ OnCallEvent(s)
                 \/ OnAuthReply(s)
                 \/ RemoteDescriptionSet(s)
                 \/ drainIceCandidates(s)
                 \/ AnswerCreated(s)
           \/ UNCHANGED vars
    PROVE  UNCHANGED messagePart
<1> USE DEF messagePart
<1>1. CASE \E a \in Agent : Login(a)
  BY <1>1 DEF Login
<1>2. CASE GatewaySteps
  BY <1>2, GatewayLeavesBrowser DEF browserPart, browserVars
<1>3. CASE Network
  BY <1>3 DEF Network, SocketOpens, SocketCloses, SocketClosing
<1>4. ASSUME NEW s \in Socket, OnCandidate(s) \/ OnCallEvent(s) \/ OnAuthReply(s)
      PROVE  UNCHANGED messagePart
  BY <1>4 DEF OnCandidate, OnCallEvent, OnAuthReply, sendVars
<1>5. ASSUME NEW s \in Socket,
             RemoteDescriptionSet(s) \/ drainIceCandidates(s) \/ AnswerCreated(s)
      PROVE  UNCHANGED messagePart
  BY <1>5 DEF RemoteDescriptionSet, drainIceCandidates, AnswerCreated
<1>6. CASE UNCHANGED vars
  BY <1>6 DEF vars, sendVars
<1> QED BY <1>1, <1>2, <1>3, <1>4, <1>5, <1>6

\* A hangup, a candidate, an answer and the rest of a logout are no messages
\* that ask for the microphone.
LEMMA MovesOther ==
    ASSUME PageTypes, QueueTypes, NEW m \in Asking, HeldOnce(m),
           \/ handleHangup
           \/ handleLogout
           \/ disconnect
           \/ \E s \in Socket : LocalDescriptionSet(s)
           \/ OnIceCandidate
    PROVE  Moves(m)
<1>1. /\ Msg("hangup", None) \in Sendable
      /\ \A x \in Socket \cup {None} :
            Msg("hangup", x) # m /\ Msg("answer", x) # m /\ Msg("candidate", x) # m
      /\ Msg("disconnect", None) # m
  BY DEF Asking, Msg, Sendable
<1>2. ASSUME sendWS(Msg("hangup", None), timers)
      PROVE  /\ UNCHANGED sends
             /\ UNCHANGED timers \/ \E r \in Timer : r.msg # m /\ timers' = Append(timers, r)
  <2>1. timers \in Seq(Timer)
    BY DEF QueueTypes
  <2>2. ASSUME NEW k \in {500, 1000}
        PROVE  /\ [msg |-> Msg("hangup", None), ms |-> k] \in Timer
               /\ [msg |-> Msg("hangup", None), ms |-> k].msg # m
    BY <1>1 DEF Timer
  <2>3. /\ UNCHANGED sends
        /\ \/ UNCHANGED timers
           \/ \E k \in {500, 1000} :
                 timers' = Append(timers, [msg |-> Msg("hangup", None), ms |-> k])
    BY <1>2 DEF sendWS, Msg
  <2> QED BY <2>2, <2>3
<1>3. ASSUME HeldOnce(m)', Held(m)' <=> Held(m), UNCHANGED sends
      PROVE  Moves(m)
  BY <1>3 DEF Moves
<1>4. CASE handleHangup
  <2>1. UNCHANGED <<todo, waiters>> /\ sendWS(Msg("hangup", None), timers)
    BY <1>4 DEF handleHangup
  <2> QED BY <1>2, <1>3, <2>1, HeldOther
<1>5. CASE handleLogout
  <2>1. /\ UNCHANGED waiters /\ sendWS(Msg("hangup", None), timers)
        /\ todo = <<>> /\ todo' = <<Msg("disconnect", None)>>
    BY <1>5 DEF handleLogout, Task
  <2> QED BY <1>1, <1>2, <1>3, <2>1, HeldOther
<1>6. CASE disconnect
  <2>1. /\ UNCHANGED <<waiters, timers, sends>>
        /\ todo = <<Msg("disconnect", None)>> /\ todo' = <<>>
    BY <1>6 DEF disconnect
  <2> QED BY <1>1, <1>3, <2>1, HeldOther
<1>7. ASSUME NEW s \in Socket, LocalDescriptionSet(s) PROVE Moves(m)
  <2>1. /\ UNCHANGED <<waiters, timers, sends>>
        /\ todo = <<>>
        /\ todo' = <<>> \/ \E x : x # m /\ todo' = <<x>>
    BY <1>7 DEF LocalDescriptionSet, At, Task, Asking, Msg
  <2> QED BY <1>1, <1>3, <2>1, HeldOther
<1>8. CASE OnIceCandidate
  <2>1. /\ UNCHANGED <<waiters, timers, sends>>
        /\ todo = <<>>
        /\ \E x : x # m /\ todo' = <<x>>
    BY <1>8 DEF OnIceCandidate, Task, Asking, Msg
  <2> QED BY <1>1, <1>3, <2>1, HeldOther
<1> QED BY <1>4, <1>5, <1>6, <1>7, <1>8

\* The chain of an offer goes on: no dial moves.
LEMMA MovesOffer ==
    ASSUME QueueTypes, NEW m \in Asking, HeldOnce(m), ResumeOffer
    PROVE  /\ Moves(m)
           /\ Head(todo) \in [ev : {"offer"}, arg : Socket]
           /\ m = Head(todo) => Held(m) /\ ~ Held(m)'
<1>1. /\ todo # <<>> /\ todo' = Tail(todo) /\ Head(todo).ev = "offer"
      /\ UNCHANGED <<waiters, timers, sends>>
  BY DEF ResumeOffer
<1>2. Head(todo) \in [ev : {"offer"}, arg : Socket]
  <2>1. Head(todo) \in Asking \cup Sendable \cup {Msg("disconnect", None)}
    BY <1>1, HeadTailProperties DEF QueueTypes
  <2> QED BY <1>1, <2>1 DEF Asking, Sendable, Msg
<1>3. /\ HeldOnce(m)' /\ (Held(m)' => Held(m))
      /\ Held(m) => Held(m)' \/ Head(todo) = m
      /\ Head(todo) = m => Held(m) /\ ~ Held(m)'
  BY <1>1, HeldResume
<1>4. m.ev = "dial" => m # Head(todo)
  BY <1>1
<1> QED BY <1>1, <1>2, <1>3, <1>4 DEF Moves

\* Every step moves a message like this.
LEMMA EveryStepMoves ==
    ASSUME PageTypes, QueueTypes, HistoryTypes, [Next]_vars, NEW m \in Asking, HeldOnce(m),
           Asks(m) => ~ Held(m)
    PROVE  Moves(m)
<1>1. ASSUME NEW d \in Click, dial(d) PROVE Moves(m)
  <2>1. /\ Task /\ AwaitMic(Msg("dial", d)) /\ UNCHANGED <<timers, sends, localStream>>
    BY <1>1 DEF dial
  <2>2. Msg("dial", d) \in Asking
    BY DEF Asking, Msg
  <2>3. Msg("dial", d) = m => ~ Held(m) /\ Asks(m)
    BY <1>1 DEF Asks
  <2> QED BY <2>1, <2>2, <2>3, MovesAsk
<1>2. ASSUME NEW s \in Socket, OnOffer(s) PROVE Moves(m)
  <2>1. /\ Task /\ AwaitMic(Msg("offer", s)) /\ UNCHANGED <<timers, sends, localStream>>
    BY <1>2 DEF OnOffer, Receive
  <2>2. Msg("offer", s) \in Asking
    BY DEF Asking, Msg
  <2>3. Msg("offer", s) = m => ~ Held(m) /\ Asks(m)
    BY <1>2 DEF Asks
  <2> QED BY <2>1, <2>2, <2>3, MovesAsk
<1>3. CASE Agents
  <2>1. CASE \E a \in Agent : Login(a)
    BY <2>1, MessagesStay, MovesStay
  <2>2. ASSUME NEW g \in Prompt, MicGranted(g) \/ MicDenied(g) PROVE Moves(m)
    BY <2>2, MovesSettle
  <2> QED BY <1>1, <1>3, <2>1, <2>2, MovesOther DEF Agents, handleDial, handleCallCustomer
<1>4. CASE Events
  <2>1. CASE ResumeOffer
    BY <2>1, MovesOffer
  <2>2. CASE \E s \in Socket :
                \/ OnCandidate(s)
                \/ OnCallEvent(s)
                \/ OnAuthReply(s)
                \/ RemoteDescriptionSet(s)
                \/ drainIceCandidates(s)
                \/ AnswerCreated(s)
    BY <2>2, MessagesStay, MovesStay
  <2>3. ASSUME NEW i \in DOMAIN timers, TimerFires(i) PROVE Moves(m)
    BY <2>3, MovesFire
  <2> QED BY <1>2, <1>4, <2>1, <2>2, <2>3, MovesResume, MovesOther DEF Events
<1>5. CASE Network \/ GatewaySteps \/ UNCHANGED vars
  BY <1>5, MessagesStay, MovesStay
<1> QED BY <1>3, <1>4, <1>5 DEF Next

-----------------------------------------------------------------------------
(***************************************************************************)
(* What the browser leaves alone, and how its messages stay messages.      *)
(***************************************************************************)

\* What connect() does with the sockets.
LEMMA ConnectOpens ==
    ASSUME connect
    PROVE  \/ /\ ws # None /\ InUse(ws)
              /\ UNCHANGED <<ws, sock, pc, conn, handler, iceCandidateQueue>>
           \/ \E s \in Socket :
                 /\ ~ (ws # None /\ InUse(ws))
                 /\ sock[s] = "unused"
                 /\ sock' = [sock EXCEPT ![s] = "connecting"]
                 /\ ws' = s /\ pc' = s /\ iceCandidateQueue' = <<>>
                 /\ handler' = Chains(pc)
<1>1. CASE ws # None /\ InUse(ws)
  BY <1>1 DEF connect, connectVars, pageVars
<1>2. CASE ~ (ws # None /\ InUse(ws))
  BY <1>2, NextIsUnused DEF connect
<1> QED BY <1>1, <1>2

\* What sendWS does to everything but its own message.
LEMMA SendOpens ==
    ASSUME NEW m, NEW rest, sendWS(m, rest)
    PROVE  \/ UNCHANGED <<ws, sock, pc, conn, handler, iceCandidateQueue>>
           \/ \E s \in Socket :
                 /\ ws # None /\ sock[ws] \in {"closing", "closed"}
                 /\ sock[s] = "unused"
                 /\ sock' = [sock EXCEPT ![s] = "connecting"]
                 /\ ws' = s /\ pc' = s /\ iceCandidateQueue' = <<>>
                 /\ handler' = Chains(pc)
<1>1. CASE UNCHANGED connectVars
  BY <1>1 DEF connectVars, pageVars
<1>2. CASE ws # None /\ sock[ws] \in {"closing", "closed"} /\ connect
  BY <1>2, ConnectOpens
<1> QED BY <1>1, <1>2 DEF sendWS

\* The gateway is left alone, but for what is sent to it.
LeavesGateway == UNCHANGED <<gwVars, overlap, misled>> /\ clicked \subseteq clicked'

\* A step of the browser leaves it alone.
LEMMA BrowserLeavesGateway ==
    ASSUME Agents \/ Network \/ Events \/ UNCHANGED vars
    PROVE  LeavesGateway
<1>1. ASSUME NEW d \in Click, dial(d) PROVE LeavesGateway
  BY <1>1 DEF dial, LeavesGateway, histVars, raceVars
<1>2. CASE Agents
  <2>1. ASSUME NEW a \in Agent, Login(a) PROVE LeavesGateway
    BY <2>1 DEF Login, LeavesGateway, histVars, raceVars
  <2>2. CASE handleHangup \/ handleLogout
    BY <2>2 DEF handleHangup, handleLogout, LeavesGateway, histVars, raceVars
  <2>3. ASSUME NEW g \in Prompt, MicGranted(g) \/ MicDenied(g) PROVE LeavesGateway
    BY <2>3 DEF MicGranted, MicDenied, LeavesGateway, histVars, raceVars
  <2> QED BY <1>1, <1>2, <2>1, <2>2, <2>3 DEF Agents, handleDial, handleCallCustomer
<1>3. CASE Network
  <2>1. ASSUME NEW s \in Socket, SocketOpens(s) PROVE LeavesGateway
    BY <2>1 DEF SocketOpens, LeavesGateway, histVars, raceVars
  <2>2. ASSUME NEW s \in Socket, SocketCloses(s) PROVE LeavesGateway
    BY <2>2 DEF SocketCloses, LeavesGateway, histVars, raceVars
  <2>3. ASSUME NEW s \in Socket, SocketClosing(s) PROVE LeavesGateway
    BY <2>3 DEF SocketClosing, LeavesGateway, histVars, raceVars
  <2> QED BY <1>3, <2>1, <2>2, <2>3 DEF Network
<1>4. CASE Events
  <2>1. CASE disconnect BY <2>1 DEF disconnect, LeavesGateway, histVars, raceVars
  <2>2. CASE ResumeSend BY <2>2 DEF ResumeSend, LeavesGateway, histVars, raceVars
  <2>3. CASE ResumeOffer BY <2>3 DEF ResumeOffer, LeavesGateway, histVars, raceVars
  <2>4. ASSUME NEW i \in DOMAIN timers, TimerFires(i) PROVE LeavesGateway
    BY <2>4 DEF TimerFires, LeavesGateway, histVars, raceVars
  <2>5. ASSUME NEW s \in Socket, OnOffer(s) \/ OnCandidate(s) PROVE LeavesGateway
    BY <2>5 DEF OnOffer, OnCandidate, LeavesGateway, histVars, raceVars
  <2>6. ASSUME NEW s \in Socket, OnCallEvent(s) \/ OnAuthReply(s) PROVE LeavesGateway
    BY <2>6 DEF OnCallEvent, OnAuthReply, LeavesGateway, histVars, raceVars
  <2>7. ASSUME NEW s \in Socket, RemoteDescriptionSet(s) \/ drainIceCandidates(s)
        PROVE  LeavesGateway
    BY <2>7 DEF RemoteDescriptionSet, drainIceCandidates, LeavesGateway, histVars, raceVars
  <2>8. ASSUME NEW s \in Socket, AnswerCreated(s) \/ LocalDescriptionSet(s)
        PROVE  LeavesGateway
    BY <2>8 DEF AnswerCreated, LocalDescriptionSet, LeavesGateway, histVars, raceVars
  <2>9. CASE OnIceCandidate BY <2>9 DEF OnIceCandidate, LeavesGateway, histVars, raceVars
  <2> QED BY <1>4, <2>1, <2>2, <2>3, <2>4, <2>5, <2>6, <2>7, <2>8, <2>9 DEF Events
<1>5. CASE UNCHANGED vars
  BY <1>5 DEF vars, LeavesGateway, histVars, raceVars
<1> QED BY <1>2, <1>3, <1>4, <1>5

\* A message is handled, those of a socket that closes are lost, or none is
\* touched.
Hears ==
    \/ UNCHANGED toBr
    \/ \E s \in Socket : SocketCloses(s) /\ toBr' = [toBr EXCEPT ![s] = <<>>]
    \/ \E s \in Socket : toBr[s] # <<>> /\ toBr' = [toBr EXCEPT ![s] = Tail(@)]

\* Such is a step of the browser.
LEMMA BrowserHears ==
    ASSUME Agents \/ Network \/ Events \/ UNCHANGED vars
    PROVE  Hears
<1>1. CASE Agents
  BY <1>1 DEF Hears, Agents, Login, handleDial, handleCallCustomer, dial, handleHangup,
              handleLogout, MicGranted, MicDenied
<1>2. CASE Network
  BY <1>2 DEF Hears, Network, SocketOpens, SocketCloses, SocketClosing
<1>3. CASE Events
  <2>1. CASE disconnect \/ ResumeSend \/ ResumeOffer \/ OnIceCandidate
    BY <2>1 DEF Hears, disconnect, ResumeSend, ResumeOffer, OnIceCandidate
  <2>2. ASSUME NEW i \in DOMAIN timers, TimerFires(i) PROVE Hears
    BY <2>2 DEF Hears, TimerFires
  <2>3. ASSUME NEW s \in Socket, OnOffer(s) \/ OnCandidate(s) \/ OnCallEvent(s) \/ OnAuthReply(s)
        PROVE  Hears
    <3>1. ASSUME NEW kinds, Receive(s, kinds) PROVE Hears
      BY <3>1 DEF Hears, Receive
    <3> QED BY <2>3, <3>1 DEF OnOffer, OnCandidate, OnCallEvent, OnAuthReply
  <2>4. ASSUME NEW s \in Socket,
               \/ RemoteDescriptionSet(s) \/ drainIceCandidates(s)
               \/ AnswerCreated(s) \/ LocalDescriptionSet(s)
        PROVE  Hears
    BY <2>4 DEF Hears, RemoteDescriptionSet, drainIceCandidates, AnswerCreated, LocalDescriptionSet
  <2> QED BY <1>3, <2>1, <2>2, <2>3, <2>4 DEF Events
<1>4. CASE UNCHANGED vars
  BY <1>4 DEF Hears, vars
<1> QED BY <1>1, <1>2, <1>3, <1>4

-----------------------------------------------------------------------------
(***************************************************************************)
(* The gateway: messages stay messages, and lines fit.                     *)
(***************************************************************************)

\* What goes to a browser is a message to a browser.
LEMMA WriteAppends ==
    ASSUME toBr \in [Socket -> Seq([ev : Event, arg : {None}])], NEW S, NEW e \in Event, Write(S, e)
    PROVE  /\ toBr' \in [Socket -> Seq([ev : Event, arg : {None}])]
           /\ Msg(e, None) \in [ev : Event, arg : {None}]
           /\ \A s \in Socket :
                 toBr'[s] = IF s \in S /\ InUse(s) THEN Append(toBr[s], Msg(e, None)) ELSE toBr[s]
<1>1. Msg(e, None) \in [ev : Event, arg : {None}]
  BY DEF Msg
<1>2. ASSUME NEW s \in Socket
      PROVE  Append(toBr[s], Msg(e, None)) \in Seq([ev : Event, arg : {None}])
  BY <1>1, AppendProperties
<1> QED BY <1>1, <1>2 DEF Write

\* A step of one line.
LEMMA GoesTo ==
    ASSUME Gateway!TypeOK, NEW s \in Socket, NEW from, NEW to \in Gateway!LineState,
           NEW c \in Click \cup {None}, Gateway!Goes(s, from, to, c)
    PROVE  /\ line[s] \in from
           /\ line' = [line EXCEPT ![s] = to]
           /\ line'[s] = to /\ \A k \in Socket \ {s} : line'[k] = line[k]
           /\ line' \in [Socket -> Gateway!LineState]
           /\ on' \in [Socket -> Click \cup {None}]
BY DEF Gateway!TypeOK, Gateway!Goes

\* The lines of the telephone, one step each.
LEMMA LinesGo ==
    ASSUME Gateway!TypeOK, NEW s \in Socket
    PROVE  /\ Gateway!Arrive(s) => /\ Gateway!TypeOK' /\ line[s] = "absent"
                                   /\ line' = [line EXCEPT ![s] = "idle"]
           /\ Gateway!LiftReceiver(s) => /\ Gateway!TypeOK' /\ line[s] = "idle"
                                         /\ line' = [line EXCEPT ![s] = "dialling"]
           /\ \A c \in Click : Gateway!Dial(s, c) =>
                  /\ Gateway!TypeOK' /\ line[s] = "dialling"
                  /\ \/ line' = [line EXCEPT ![s] = "dialling"]
                     \/ line' = [line EXCEPT ![s] = "idle"]
           /\ Gateway!Fail(s) => /\ Gateway!TypeOK' /\ line[s] = "dialling"
                                 /\ line' = [line EXCEPT ![s] = "idle"]
           /\ Gateway!Answer(s) => /\ Gateway!TypeOK' /\ line[s] = "dialling"
                                   /\ line' = [line EXCEPT ![s] = "inCall"]
           /\ Gateway!RemoteEnd(s) => /\ Gateway!TypeOK' /\ line[s] = "inCall"
                                      /\ line' = [line EXCEPT ![s] = "idle"]
           /\ Gateway!Hangup(s) => /\ Gateway!TypeOK' /\ line[s] = "inCall"
                                   /\ line' = [line EXCEPT ![s] = "clearing"]
           /\ Gateway!Cleared(s) => /\ Gateway!TypeOK' /\ line[s] = "clearing"
                                    /\ line' = [line EXCEPT ![s] = "idle"]
           /\ Gateway!Leave(s) => /\ Gateway!TypeOK' /\ line[s] \in {"idle", "inCall"}
                                  /\ line' = [line EXCEPT ![s] = "gone"]
           /\ UNCHANGED <<line, on, dialled>> => Gateway!TypeOK'
<1> USE DEF Gateway!TypeOK, Gateway!LineState, Gateway!Goes
<1>1. Gateway!Arrive(s) => /\ Gateway!TypeOK' /\ line[s] = "absent"
                           /\ line' = [line EXCEPT ![s] = "idle"]
  BY DEF Gateway!Arrive
<1>2. Gateway!LiftReceiver(s) => /\ Gateway!TypeOK' /\ line[s] = "idle"
                                 /\ line' = [line EXCEPT ![s] = "dialling"]
  BY DEF Gateway!LiftReceiver
<1>3. ASSUME NEW c \in Click, Gateway!Dial(s, c)
      PROVE  /\ Gateway!TypeOK' /\ line[s] = "dialling"
             /\ \/ line' = [line EXCEPT ![s] = "dialling"]
                \/ line' = [line EXCEPT ![s] = "idle"]
  BY <1>3 DEF Gateway!Dial
<1>4. Gateway!Fail(s) => /\ Gateway!TypeOK' /\ line[s] = "dialling"
                         /\ line' = [line EXCEPT ![s] = "idle"]
  BY DEF Gateway!Fail
<1>5. Gateway!Answer(s) => /\ Gateway!TypeOK' /\ line[s] = "dialling"
                           /\ line' = [line EXCEPT ![s] = "inCall"]
  BY DEF Gateway!Answer
<1>6. Gateway!RemoteEnd(s) => /\ Gateway!TypeOK' /\ line[s] = "inCall"
                              /\ line' = [line EXCEPT ![s] = "idle"]
  BY DEF Gateway!RemoteEnd
<1>7. Gateway!Hangup(s) => /\ Gateway!TypeOK' /\ line[s] = "inCall"
                           /\ line' = [line EXCEPT ![s] = "clearing"]
  BY DEF Gateway!Hangup
<1>8. Gateway!Cleared(s) => /\ Gateway!TypeOK' /\ line[s] = "clearing"
                            /\ line' = [line EXCEPT ![s] = "idle"]
  BY DEF Gateway!Cleared
<1>9. Gateway!Leave(s) => /\ Gateway!TypeOK' /\ line[s] \in {"idle", "inCall"}
                          /\ line' = [line EXCEPT ![s] = "gone"]
  BY DEF Gateway!Leave
<1>10. UNCHANGED <<line, on, dialled>> => Gateway!TypeOK'
  OBVIOUS
<1> QED BY <1>1, <1>2, <1>3, <1>4, <1>5, <1>6, <1>7, <1>8, <1>9, <1>10

\* What the invariant says of one connection.
LineFits(s) ==
    /\ sock[s] = "unused" => line[s] = "absent"
    /\ line[s] = "absent" => s \notin gpeers \cup ended /\ toBr[s] = <<>>
    /\ line[s] = "dialling" => dialing[s] # None
    /\ dialing[s] # None => line[s] \in {"dialling", "inCall", "idle"}
    /\ line[s] = "gone" => ~ InUse(s)
    /\ s \in ended => s \in gpeers \cup misled \/ line[s] = "gone"
    /\ dialing[s] # None /\ line[s] = "idle" => s \in ended \cup misled

\* A step on s leaves the lines of the others as they were.
LEMMA OtherLinesFit ==
    ASSUME LinesFit, NEW s \in Socket, UNCHANGED sock, LineFits(s)',
           \A k \in Socket \ {s} :
               /\ line'[k] = line[k] /\ dialing'[k] = dialing[k]
               /\ k \in gpeers' <=> k \in gpeers
               /\ k \in ended' <=> k \in ended
               /\ k \in misled => k \in misled'
               /\ toBr'[k] = toBr[k]
    PROVE  LinesFit'
BY DEF LinesFit, LineFits, InUse

\* The read loop takes a message that is one.
LEMMA ReadTakes ==
    ASSUME QueueTypes, NEW s \in Socket, NEW kinds, Read(s, kinds)
    PROVE  /\ line[s] \in {"idle", "inCall"} /\ dialing[s] = None
           /\ toGw[s] # <<>> /\ Head(toGw[s]).ev \in kinds
           /\ Head(toGw[s]) \in Sendable \cup [ev : {"auth"}, arg : Agent]
           /\ Head(toGw[s]).ev = "dial" => Head(toGw[s]).arg \in Click
           /\ toGw' = [toGw EXCEPT ![s] = Tail(@)]
           /\ toGw' \in [Socket -> Seq(Sendable \cup [ev : {"auth"}, arg : Agent])]
           /\ UNCHANGED <<gpeers, ended, foreign, misled>>
<1>1. /\ line[s] \in {"idle", "inCall"} /\ dialing[s] = None
      /\ toGw[s] # <<>> /\ Head(toGw[s]).ev \in kinds
      /\ toGw' = [toGw EXCEPT ![s] = Tail(@)]
      /\ UNCHANGED <<gpeers, ended, foreign, misled>>
  BY DEF Read
<1>2. /\ Head(toGw[s]) \in Sendable \cup [ev : {"auth"}, arg : Agent]
      /\ Tail(toGw[s]) \in Seq(Sendable \cup [ev : {"auth"}, arg : Agent])
  BY <1>1, HeadTailProperties DEF QueueTypes
<1>3. toGw' \in [Socket -> Seq(Sendable \cup [ev : {"auth"}, arg : Agent])]
  BY <1>1, <1>2 DEF QueueTypes
<1>4. Head(toGw[s]).ev = "dial" => Head(toGw[s]).arg \in Click
  BY <1>2 DEF Sendable
<1> QED BY <1>1, <1>2, <1>3, <1>4

\* A step of the gateway keeps the types and the lines.
LEMMA GatewayFits ==
    ASSUME QueueTypes, GatewayTypes, HistoryTypes, LinesFit, GatewaySteps
    PROVE  QueueTypes' /\ GatewayTypes' /\ HistoryTypes' /\ LinesFit'
<1> DEFINE Fits == QueueTypes' /\ GatewayTypes' /\ HistoryTypes' /\ LinesFit'
<1>1. UNCHANGED <<sock, iceCandidateQueue, todo, timers, waiters, sends, clicked, orphaned,
                  abandoned>>
  BY GatewayLeavesBrowser DEF browserPart, browserVars, connectVars, pageVars
<1>2. ASSUME NEW s \in Socket, Accept(s) PROVE Fits
  <2>1. /\ Gateway!TypeOK' /\ line[s] = "absent"
        /\ line' = [line EXCEPT ![s] = "idle"]
    BY <1>2, LinesGo DEF GatewayTypes, Accept
  <2>2. /\ gpeers' = gpeers \cup {s} /\ sock[s] = "connecting"
        /\ UNCHANGED <<toGw, toBr, authed, dialing, ended, signalled, foreign, overlap, misled>>
    BY <1>2 DEF Accept, histVars, raceVars
  <2>3. QueueTypes' /\ HistoryTypes'
    BY <1>1, <2>2 DEF QueueTypes, HistoryTypes
  <2>4. GatewayTypes'
    BY <2>1, <2>2 DEF GatewayTypes
  <2>5. line'[s] = "idle" /\ \A k \in Socket \ {s} : line'[k] = line[k]
    BY <2>1 DEF GatewayTypes, Gateway!TypeOK
  <2>6. LineFits(s)'
    BY <1>1, <2>1, <2>2, <2>5 DEF LinesFit, LineFits, InUse
  <2> QED BY <1>1, <2>2, <2>3, <2>4, <2>5, <2>6, OtherLinesFit
<1>3. ASSUME NEW s \in Socket, NEW e \in {"candidate", "offer"}, Signal(s, e) PROVE Fits
  <2>1. /\ s \in gpeers
        /\ signalled' = [signalled EXCEPT ![s] = @ \cup {e}]
        /\ Write({s}, e)
        /\ UNCHANGED <<toGw, line, on, dialled, authed, gpeers, dialing, ended, foreign,
                       overlap, misled>>
    BY <1>3 DEF Signal, histVars, raceVars
  <2>2. e \in Event
    BY DEF Event
  <2>3. /\ toBr' \in [Socket -> Seq([ev : Event, arg : {None}])]
        /\ \A k \in Socket \ {s} : toBr'[k] = toBr[k]
    BY <2>1, <2>2, WriteAppends DEF QueueTypes
  <2>4. QueueTypes' /\ HistoryTypes'
    BY <1>1, <2>1, <2>3 DEF QueueTypes, HistoryTypes
  <2>5. GatewayTypes'
    BY <2>1, LinesGo DEF GatewayTypes
  <2>6. LineFits(s)'
    BY <1>1, <2>1 DEF LinesFit, LineFits, InUse
  <2> QED BY <1>1, <2>1, <2>3, <2>4, <2>5, <2>6, OtherLinesFit
<1>4. ASSUME NEW s \in Socket, ReadAuth(s) PROVE Fits
  <2>1. PICK e \in {"auth-error", "auth-ok"} :
           /\ Read(s, {"auth"})
           /\ Write({s}, e)
           /\ authed' \in {authed, authed \cup {s}}
           /\ UNCHANGED <<line, on, dialled, dialing, signalled, overlap>>
    BY <1>4 DEF ReadAuth
  <2>2. e \in Event
    BY DEF Event
  <2>3. /\ toBr' \in [Socket -> Seq([ev : Event, arg : {None}])]
        /\ \A k \in Socket \ {s} : toBr'[k] = toBr[k]
    BY <2>1, <2>2, WriteAppends DEF QueueTypes
  <2>4. /\ toGw' \in [Socket -> Seq(Sendable \cup [ev : {"auth"}, arg : Agent])]
        /\ UNCHANGED <<gpeers, ended, foreign, misled>>
        /\ line[s] \in {"idle", "inCall"}
    BY <2>1, ReadTakes
  <2>5. QueueTypes' /\ HistoryTypes'
    BY <1>1, <2>1, <2>3, <2>4 DEF QueueTypes, HistoryTypes
  <2>6. GatewayTypes'
    BY <2>1, <2>4, LinesGo DEF GatewayTypes
  <2>7. LineFits(s)'
    BY <1>1, <2>1, <2>4 DEF LinesFit, LineFits, InUse
  <2> QED BY <1>1, <2>1, <2>3, <2>4, <2>5, <2>6, <2>7, OtherLinesFit
<1>5. ASSUME NEW s \in Socket, ReadDial(s) PROVE Fits
  <2>1. /\ Read(s, {"dial"})
        /\ \/ /\ Write({s}, "dial-error")
              /\ overlap' \in {overlap, overlap \cup {s}}
              /\ UNCHANGED <<line, on, dialled, dialing>>
           \/ /\ Gateway!LiftReceiver(s)
              /\ dialing' = [dialing EXCEPT ![s] = Head(toGw[s]).arg]
              /\ UNCHANGED <<toBr, overlap>>
        /\ UNCHANGED <<authed, signalled>>
    BY <1>5 DEF ReadDial
  <2>2. "dial-error" \in Event
    BY DEF Event, CallEvent
  <2>3. /\ toGw' \in [Socket -> Seq(Sendable \cup [ev : {"auth"}, arg : Agent])]
        /\ UNCHANGED <<gpeers, ended, foreign, misled>>
        /\ line[s] \in {"idle", "inCall"} /\ Head(toGw[s]).arg \in Click
    BY <2>1, ReadTakes
  <2>4. /\ toBr' \in [Socket -> Seq([ev : Event, arg : {None}])]
        /\ \A k \in Socket \ {s} : toBr'[k] = toBr[k]
    BY <2>1, <2>2, WriteAppends DEF QueueTypes
  <2>5. QueueTypes' /\ HistoryTypes'
    BY <1>1, <2>1, <2>3, <2>4 DEF QueueTypes, HistoryTypes
  <2>6. CASE UNCHANGED <<line, on, dialled, dialing>>
    <3>1. GatewayTypes'
      BY <2>1, <2>3, <2>6, LinesGo DEF GatewayTypes
    <3>2. LineFits(s)'
      BY <1>1, <2>3, <2>6 DEF LinesFit, LineFits, InUse
    <3> QED BY <1>1, <2>3, <2>4, <2>5, <2>6, <3>1, <3>2, OtherLinesFit
  <2>7. CASE Gateway!LiftReceiver(s) /\ dialing' = [dialing EXCEPT ![s] = Head(toGw[s]).arg]
    <3>1. Gateway!TypeOK' /\ line' = [line EXCEPT ![s] = "dialling"]
      BY <2>7, LinesGo DEF GatewayTypes
    <3>2. GatewayTypes'
      BY <2>1, <2>3, <2>7, <3>1 DEF GatewayTypes
    <3>3. /\ line'[s] = "dialling" /\ dialing'[s] # None
          /\ \A k \in Socket \ {s} : line'[k] = line[k] /\ dialing'[k] = dialing[k]
      BY <2>3, <2>7, <3>1, NoneAssumption DEF GatewayTypes, Gateway!TypeOK
    <3>4. LineFits(s)'
      BY <1>1, <2>3, <3>3 DEF LinesFit, LineFits, InUse
    <3> QED BY <1>1, <2>3, <2>4, <2>5, <3>2, <3>3, <3>4, OtherLinesFit
  <2> QED BY <2>1, <2>6, <2>7
<1>6. ASSUME NEW s \in Socket, ReadHangup(s) \/ ReadSignal(s) PROVE Fits
  <2>1. /\ \E kinds : Read(s, kinds)
        /\ \/ line[s] = "inCall" /\ Gateway!Hangup(s)
           \/ UNCHANGED <<line, on, dialled>>
        /\ \/ UNCHANGED signalled
           \/ \E S \in SUBSET {"answer"} : signalled' = [signalled EXCEPT ![s] = @ \cup S]
        /\ UNCHANGED <<toBr, authed, dialing, overlap>>
    BY <1>6 DEF ReadHangup, ReadSignal
  <2>2. /\ toGw' \in [Socket -> Seq(Sendable \cup [ev : {"auth"}, arg : Agent])]
        /\ UNCHANGED <<gpeers, ended, foreign, misled>>
        /\ line[s] \in {"idle", "inCall"} /\ dialing[s] = None
    BY <2>1, ReadTakes
  <2>3. QueueTypes' /\ HistoryTypes'
    BY <1>1, <2>1, <2>2 DEF QueueTypes, HistoryTypes
  <2>4. signalled' \in [Socket -> SUBSET {"candidate", "offer", "answer"}]
    BY <2>1 DEF GatewayTypes
  <2>5. /\ Gateway!TypeOK'
        /\ line'[s] \in {"idle", "inCall", "clearing"}
        /\ \A k \in Socket \ {s} : line'[k] = line[k]
    BY <2>1, <2>2, LinesGo DEF GatewayTypes, Gateway!TypeOK
  <2>6. GatewayTypes'
    BY <2>1, <2>2, <2>4, <2>5 DEF GatewayTypes
  <2>7. LineFits(s)'
    BY <1>1, <2>1, <2>2, <2>5 DEF LinesFit, LineFits, InUse
  <2> QED BY <1>1, <2>1, <2>2, <2>3, <2>5, <2>6, <2>7, OtherLinesFit
<1>7. ASSUME NEW s \in Socket,
             line[s] = "dialling", Gateway!TypeOK',
             \/ /\ line' = [line EXCEPT ![s] = "idle"]
                /\ Write({s}, "dial-error")
                /\ dialing' = [dialing EXCEPT ![s] = None]
             \/ /\ \E to \in {"dialling", "inCall"} : line' = [line EXCEPT ![s] = to]
                /\ UNCHANGED <<toBr, dialing>>,
             UNCHANGED <<toGw, authed, gpeers, signalled, foreign, ended, overlap, misled>>
      PROVE  Fits
  <2>1. "dial-error" \in Event
    BY DEF Event, CallEvent
  <2>2. /\ toBr' \in [Socket -> Seq([ev : Event, arg : {None}])]
        /\ \A k \in Socket \ {s} : toBr'[k] = toBr[k]
    BY <1>7, <2>1, WriteAppends DEF QueueTypes
  <2>3. QueueTypes' /\ HistoryTypes'
    BY <1>1, <1>7, <2>2 DEF QueueTypes, HistoryTypes
  <2>4. GatewayTypes'
    BY <1>7 DEF GatewayTypes
  <2>5. \A k \in Socket \ {s} : line'[k] = line[k] /\ dialing'[k] = dialing[k]
    BY <1>7 DEF GatewayTypes, Gateway!TypeOK
  <2>6. LineFits(s)'
    BY <1>1, <1>7 DEF LinesFit, LineFits, GatewayTypes, Gateway!TypeOK
  <2> QED BY <1>1, <1>7, <2>2, <2>3, <2>4, <2>5, <2>6, OtherLinesFit
<1>8. ASSUME NEW s \in Socket, Invite(s) PROVE Fits
  <2>1. /\ Gateway!Dial(s, dialing[s])
        /\ IF line'[s] = "idle"
           THEN Write({s}, "dial-error") /\ dialing' = [dialing EXCEPT ![s] = None]
           ELSE UNCHANGED <<toBr, dialing>>
        /\ UNCHANGED <<toGw, authed, gpeers, signalled, foreign, ended, overlap, misled>>
    BY <1>8 DEF Invite, gwRest, histVars, raceVars
  <2>2. dialing[s] \in Click
    BY <2>1 DEF Gateway!Dial, Gateway!Goes, LinesFit, GatewayTypes
  <2>3. /\ Gateway!TypeOK' /\ line[s] = "dialling"
        /\ line' = [line EXCEPT ![s] = "dialling"] \/ line' = [line EXCEPT ![s] = "idle"]
    BY <2>1, <2>2, LinesGo DEF GatewayTypes
  <2>4. line' = [line EXCEPT ![s] = line'[s]] /\ line'[s] \in {"dialling", "idle"}
    BY <2>3 DEF GatewayTypes, Gateway!TypeOK
  <2> QED BY <1>7, <2>1, <2>3, <2>4
<1>9. ASSUME NEW s \in Socket, InviteFails(s) PROVE Fits
  <2>1. /\ Gateway!TypeOK' /\ line[s] = "dialling" /\ line' = [line EXCEPT ![s] = "idle"]
    BY <1>9, LinesGo DEF InviteFails, GatewayTypes
  <2> QED BY <1>7, <1>9, <2>1 DEF InviteFails, gwRest, histVars, raceVars
<1>10. ASSUME NEW s \in Socket, InviteAnswered(s) PROVE Fits
  <2>1. /\ Gateway!TypeOK' /\ line[s] = "dialling" /\ line' = [line EXCEPT ![s] = "inCall"]
    BY <1>10, LinesGo DEF InviteAnswered, GatewayTypes
  <2> QED BY <1>7, <1>10, <2>1 DEF InviteAnswered, gwRest, histVars, raceVars
<1>11. ASSUME NEW s \in Socket, CallStarted(s) \/ HangupDone(s) PROVE Fits
  <2>1. PICK e \in {"call-started", "call-ended"} :
           /\ Write({s}, e)
           /\ \/ /\ dialing[s] # None /\ line[s] \in {"inCall", "idle"}
                 /\ dialing' = [dialing EXCEPT ![s] = None]
                 /\ UNCHANGED <<line, on, dialled>>
              \/ Gateway!Cleared(s) /\ UNCHANGED dialing
           /\ UNCHANGED <<toGw, authed, gpeers, signalled, foreign, ended, overlap, misled>>
    BY <1>11 DEF CallStarted, HangupDone, gwRest, histVars, raceVars
  <2>2. e \in Event
    BY DEF Event, CallEvent
  <2>3. /\ toBr' \in [Socket -> Seq([ev : Event, arg : {None}])]
        /\ \A k \in Socket \ {s} : toBr'[k] = toBr[k]
    BY <2>1, <2>2, WriteAppends DEF QueueTypes
  <2>4. QueueTypes' /\ HistoryTypes'
    BY <1>1, <2>1, <2>3 DEF QueueTypes, HistoryTypes
  <2>5. /\ Gateway!TypeOK'
        /\ \/ line[s] \in {"inCall", "idle"} /\ UNCHANGED line /\ dialing'[s] = None
           \/ line[s] = "clearing" /\ line' = [line EXCEPT ![s] = "idle"] /\ UNCHANGED dialing
        /\ \A k \in Socket \ {s} : dialing'[k] = dialing[k]
    BY <2>1, LinesGo DEF GatewayTypes
  <2>6. GatewayTypes'
    BY <2>1, <2>5 DEF GatewayTypes
  <2>7. line'[s] \in {"inCall", "idle"} /\ \A k \in Socket \ {s} : line'[k] = line[k]
    BY <2>5 DEF GatewayTypes, Gateway!TypeOK
  <2>8. LineFits(s)'
    BY <1>1, <2>1, <2>5, <2>7 DEF LinesFit, LineFits, InUse
  <2> QED BY <1>1, <2>1, <2>3, <2>4, <2>5, <2>6, <2>7, <2>8, OtherLinesFit
<1>12. ASSUME NEW s \in Socket, RemoteBye(s) PROVE Fits
  <2>1. /\ s \in gpeers
        /\ Gateway!TypeOK' /\ line[s] = "inCall" /\ line' = [line EXCEPT ![s] = "idle"]
        /\ ended' = ended \cup {s}
        /\ UNCHANGED <<toGw, toBr, authed, gpeers, dialing, signalled, foreign, overlap, misled>>
    BY <1>12, LinesGo DEF RemoteBye, GatewayTypes, gwRest, histVars, raceVars
  <2>2. QueueTypes' /\ HistoryTypes' /\ GatewayTypes'
    BY <1>1, <2>1 DEF QueueTypes, HistoryTypes, GatewayTypes
  <2>3. line'[s] = "idle" /\ \A k \in Socket \ {s} : line'[k] = line[k]
    BY <2>1 DEF GatewayTypes, Gateway!TypeOK
  <2>4. LineFits(s)'
    BY <1>1, <2>1, <2>3 DEF LinesFit, LineFits, InUse
  <2> QED BY <1>1, <2>1, <2>2, <2>3, <2>4, OtherLinesFit
<1>13. ASSUME NEW s \in Socket, BroadcastEnd(s) PROVE Fits
  <2>1. /\ s \in ended /\ ended' = ended \ {s}
        /\ Write(gpeers, "call-ended")
        /\ misled' = misled \cup {k \in gpeers : k # s \/ line[k] = "inCall" \/ dialing[k] # None}
        /\ UNCHANGED <<toGw, line, on, dialled, authed, gpeers, dialing, signalled, foreign,
                       overlap>>
    BY <1>13 DEF BroadcastEnd, gwRest
  <2>2. "call-ended" \in Event
    BY DEF Event, CallEvent
  <2>3. /\ toBr' \in [Socket -> Seq([ev : Event, arg : {None}])]
        /\ \A k \in Socket : k \notin gpeers => toBr'[k] = toBr[k]
    BY <2>1, <2>2, WriteAppends DEF QueueTypes
  <2>4. QueueTypes' /\ HistoryTypes'
    BY <1>1, <2>1, <2>3 DEF QueueTypes, HistoryTypes, GatewayTypes
  <2>5. GatewayTypes'
    BY <2>1, LinesGo DEF GatewayTypes
  <2>6. LinesFit'
    BY <1>1, <2>1, <2>3 DEF LinesFit, InUse
  <2> QED BY <2>4, <2>5, <2>6
<1>14. ASSUME NEW e \in {"call-started", "call-ended"}, BroadcastForeign(e) PROVE Fits
  <2>1. /\ foreign > 0 /\ foreign' = foreign - 1
        /\ Write(gpeers, e)
        /\ misled' = misled \cup gpeers
        /\ UNCHANGED <<toGw, line, on, dialled, authed, gpeers, dialing, ended, signalled, overlap>>
    BY <1>14 DEF BroadcastForeign
  <2>2. e \in Event
    BY DEF Event, CallEvent
  <2>3. /\ toBr' \in [Socket -> Seq([ev : Event, arg : {None}])]
        /\ \A k \in Socket : k \notin gpeers => toBr'[k] = toBr[k]
    BY <2>1, <2>2, WriteAppends DEF QueueTypes
  <2>4. QueueTypes' /\ HistoryTypes'
    BY <1>1, <2>1, <2>3 DEF QueueTypes, HistoryTypes, GatewayTypes
  <2>5. foreign' \in 0 .. Foreign
    BY <2>1, ForeignAssumption DEF GatewayTypes
  <2>6. GatewayTypes'
    BY <2>1, <2>5 DEF GatewayTypes, Gateway!TypeOK
  <2>7. LinesFit'
    BY <1>1, <2>1, <2>3 DEF LinesFit, InUse
  <2> QED BY <2>4, <2>6, <2>7
<1>15. ASSUME NEW s \in Socket, PeerFailed(s) PROVE Fits
  <2>1. /\ s \in gpeers /\ gpeers' = gpeers \ {s}
        /\ misled' = misled \cup (ended \cap {s})
        /\ UNCHANGED <<toGw, toBr, line, on, dialled, authed, dialing, ended, signalled,
                       foreign, overlap>>
    BY <1>15 DEF PeerFailed
  <2>2. Gateway!TypeOK'
    BY <2>1, LinesGo DEF GatewayTypes
  <2>3. QueueTypes' /\ HistoryTypes' /\ GatewayTypes'
    BY <1>1, <2>1, <2>2 DEF QueueTypes, HistoryTypes, GatewayTypes
  <2>4. LineFits(s)'
    BY <1>1, <2>1 DEF LinesFit, LineFits, InUse
  <2> QED BY <1>1, <2>1, <2>3, <2>4, OtherLinesFit
<1>16. ASSUME NEW s \in Socket, ReadFails(s) PROVE Fits
  <2>1. /\ dialing[s] = None /\ gpeers' = gpeers \ {s} /\ sock[s] \in {"closing", "closed"}
        /\ toGw' = [toGw EXCEPT ![s] = <<>>] /\ authed' = authed \ {s}
        /\ UNCHANGED <<toBr, dialing, ended, signalled, foreign, overlap, misled>>
    BY <1>16 DEF ReadFails, histVars, raceVars
  <2>2. /\ Gateway!TypeOK' /\ line[s] \in {"idle", "inCall"} /\ line' = [line EXCEPT ![s] = "gone"]
    BY <1>16, LinesGo DEF ReadFails, GatewayTypes
  <2>3. QueueTypes' /\ HistoryTypes' /\ GatewayTypes'
    <3>1. toGw' \in [Socket -> Seq(Sendable \cup [ev : {"auth"}, arg : Agent])]
      BY <2>1 DEF QueueTypes
    <3> QED BY <1>1, <2>1, <2>2, <3>1 DEF QueueTypes, HistoryTypes, GatewayTypes
  <2>4. line'[s] = "gone" /\ \A k \in Socket \ {s} : line'[k] = line[k]
    BY <2>2 DEF GatewayTypes, Gateway!TypeOK
  <2>5. LineFits(s)'
    BY <1>1, <2>1, <2>2, <2>4 DEF LinesFit, LineFits, InUse
  <2> QED BY <1>1, <2>1, <2>3, <2>4, <2>5, OtherLinesFit
<1>17. ASSUME NEW s \in Socket, ReadLoop(s) PROVE Fits
  BY <1>4, <1>5, <1>6, <1>8, <1>9, <1>10, <1>11, <1>16, <1>17 DEF ReadLoop
<1> QED BY <1>2, <1>3, <1>12, <1>13, <1>14, <1>15, <1>17 DEF GatewaySteps

-----------------------------------------------------------------------------
(***************************************************************************)
(* The browser: messages stay messages, and lines fit.                     *)
(***************************************************************************)

\* What sendWS leaves.
LEMMA SendTypes ==
    ASSUME QueueTypes, sends \in [Click -> Nat], NEW x \in Sendable, NEW rest \in Seq(Timer),
           sendWS(x, rest)
    PROVE  /\ timers' \in Seq(Timer)
           /\ iceCandidateQueue' \in Seq(Socket)
           /\ toGw' \in [Socket -> Seq(Sendable \cup [ev : {"auth"}, arg : Agent])]
           /\ sends' \in [Click -> Nat]
<1>1. ASSUME NEW k \in {500, 1000}, timers' = Append(rest, [msg |-> x, ms |-> k])
      PROVE  timers' \in Seq(Timer)
  <2>1. [msg |-> x, ms |-> k] \in Timer
    BY DEF Timer
  <2> QED BY <1>1, <2>1, AppendProperties
<1>2. timers' \in Seq(Timer)
  <2>1. \/ timers' = rest
        \/ timers' = Append(rest, [msg |-> x, ms |-> 500])
        \/ timers' = Append(rest, [msg |-> x, ms |-> 1000])
    BY DEF sendWS
  <2>2. 500 \in {500, 1000} /\ 1000 \in {500, 1000}
    OBVIOUS
  <2> QED BY <1>1, <2>1, <2>2
<1>3. iceCandidateQueue' \in Seq(Socket)
  BY SendOpens, EmptySeq DEF QueueTypes
<1>4. toGw' \in [Socket -> Seq(Sendable \cup [ev : {"auth"}, arg : Agent])]
  <2>1. UNCHANGED toGw \/ toGw' = [toGw EXCEPT ![ws] = Append(@, x)]
    BY DEF sendWS
  <2>2. ASSUME ws \in Socket
        PROVE  Append(toGw[ws], x) \in Seq(Sendable \cup [ev : {"auth"}, arg : Agent])
    BY <2>2, AppendProperties DEF QueueTypes
  <2> QED BY <2>1, <2>2 DEF QueueTypes
<1>5. sends' \in [Click -> Nat]
  <2>1. x.ev = "dial" => x.arg \in Click
    BY DEF Sendable
  <2>2. \/ UNCHANGED sends
        \/ x.ev = "dial" /\ sends' = [sends EXCEPT ![x.arg] = @ + 1]
    BY DEF sendWS
  <2> QED BY <2>1, <2>2
<1> QED BY <1>2, <1>3, <1>4, <1>5

\* What is handled, or lost.
LEMMA HearsTypes ==
    ASSUME QueueTypes, Hears
    PROVE  /\ toBr' \in [Socket -> Seq([ev : Event, arg : {None}])]
           /\ \A s \in Socket : \/ toBr'[s] = toBr[s] \/ toBr'[s] = <<>>
                                \/ toBr[s] # <<>> /\ toBr'[s] = Tail(toBr[s])
<1>1. CASE UNCHANGED toBr
  BY <1>1 DEF QueueTypes
<1>2. ASSUME NEW s \in Socket, toBr' = [toBr EXCEPT ![s] = <<>>]
      PROVE  /\ toBr' \in [Socket -> Seq([ev : Event, arg : {None}])]
             /\ \A k \in Socket : toBr'[k] = toBr[k] \/ toBr'[k] = <<>>
  BY <1>2, EmptySeq DEF QueueTypes
<1>3. ASSUME NEW s \in Socket, toBr[s] # <<>>, toBr' = [toBr EXCEPT ![s] = Tail(@)]
      PROVE  /\ toBr' \in [Socket -> Seq([ev : Event, arg : {None}])]
             /\ \A k \in Socket : \/ toBr'[k] = toBr[k]
                                  \/ toBr[k] # <<>> /\ toBr'[k] = Tail(toBr[k])
  <2>1. Tail(toBr[s]) \in Seq([ev : Event, arg : {None}])
    BY <1>3, HeadTailProperties DEF QueueTypes
  <2> QED BY <1>3, <2>1 DEF QueueTypes
<1> QED BY <1>1, <1>2, <1>3 DEF Hears

\* A request for the microphone is put at the end of a queue of such.
LEMMA AwaitTypes ==
    ASSUME PageTypes, QueueTypes, NEW x \in Asking, Task, AwaitMic(x), UNCHANGED localStream
    PROVE  /\ todo' \in Seq(Asking \cup Sendable \cup {Msg("disconnect", None)})
           /\ waiters' \in [Prompt -> Seq(Asking)]
<1>1. CASE localStream # None
  <2>1. todo' = <<x>> /\ UNCHANGED waiters
    BY <1>1 DEF AwaitMic
  <2> QED BY <2>1 DEF QueueTypes
<1>2. CASE localStream = None
  <2>1. PICK g \in Prompt : waiters' = [waiters EXCEPT ![g] = Append(@, x)] /\ UNCHANGED todo
    BY <1>2 DEF AwaitMic, RequestMic, PageTypes
  <2>2. Append(waiters[g], x) \in Seq(Asking)
    BY AppendProperties DEF QueueTypes
  <2> QED BY <2>1, <2>2 DEF QueueTypes
<1> QED BY <1>1, <1>2

\* What is on the page and on its way, of its type after a step.
Doing == Asking \cup Sendable \cup {Msg("disconnect", None)}
Sent ==
    /\ todo' \in Seq(Doing)
    /\ timers' \in Seq(Timer)
    /\ waiters' \in [Prompt -> Seq(Asking)]
    /\ iceCandidateQueue' \in Seq(Socket)
    /\ toGw' \in [Socket -> Seq(Sendable \cup [ev : {"auth"}, arg : Agent])]
    /\ clicked' \in SUBSET Click
    /\ sends' \in [Click -> Nat]
    /\ orphaned' \in SUBSET Socket
    /\ abandoned' \in BOOLEAN

\* A step of the browser leaves messages, counts and histories of their types.
LEMMA BrowserTypes ==
    ASSUME PageTypes, ChainsHavePc, QueueTypes, HistoryTypes, token \in Agent \cup {None},
           Agents \/ Network \/ Events \/ UNCHANGED vars
    PROVE  QueueTypes' /\ HistoryTypes'
<1>1. Hears /\ LeavesGateway
  BY BrowserLeavesGateway, BrowserHears
<1>2. /\ toBr' \in [Socket -> Seq([ev : Event, arg : {None}])]
      /\ overlap' \in SUBSET Socket /\ misled' \in SUBSET Socket
  BY <1>1, HearsTypes DEF LeavesGateway, HistoryTypes
<1>3. /\ Msg("hangup", None) \in Sendable
      /\ \A d \in Click : Msg("dial", d) \in Asking
      /\ \A s \in Socket : Msg("offer", s) \in Asking
      /\ \A s \in Socket \cup {None} :
            Msg("answer", s) \in Sendable /\ Msg("candidate", s) \in Sendable
  BY DEF Sendable, Asking, Msg
<1>4. ASSUME UNCHANGED <<todo, timers, waiters, iceCandidateQueue, toGw, clicked, sends, orphaned,
                         abandoned>>
      PROVE  Sent
  BY <1>4 DEF Sent, Doing, QueueTypes, HistoryTypes
<1>5. ASSUME NEW d \in Click, dial(d) PROVE Sent
  <2>1. /\ Task /\ AwaitMic(Msg("dial", d)) /\ clicked' = clicked \cup {d}
        /\ UNCHANGED <<timers, iceCandidateQueue, toGw, sends, localStream, orphaned, abandoned>>
    BY <1>5 DEF dial, raceVars
  <2>2. todo' \in Seq(Doing) /\ waiters' \in [Prompt -> Seq(Asking)]
    BY <1>3, <2>1, AwaitTypes DEF Doing
  <2> QED BY <2>1, <2>2 DEF Sent, QueueTypes, HistoryTypes
<1>6. ASSUME NEW g \in Prompt, MicGranted(g) \/ MicDenied(g) PROVE Sent
  <2>1. /\ todo' = waiters[g] /\ waiters' = [waiters EXCEPT ![g] = <<>>]
        /\ UNCHANGED <<timers, iceCandidateQueue, toGw, clicked, sends, orphaned, abandoned>>
    BY <1>6 DEF MicGranted, MicDenied, histVars, raceVars
  <2>2. waiters[g] \in Seq(Doing)
    BY ElementOfSeq, SeqDef DEF Doing, QueueTypes
  <2>3. waiters' \in [Prompt -> Seq(Asking)]
    BY <2>1, EmptySeq DEF QueueTypes
  <2> QED BY <2>1, <2>2, <2>3 DEF Sent, QueueTypes, HistoryTypes
<1>7. ASSUME NEW x \in Sendable, NEW rest \in Seq(Timer), sendWS(x, rest), todo' \in Seq(Doing),
             UNCHANGED <<waiters, clicked, orphaned, abandoned>>
      PROVE  Sent
  BY <1>7, SendTypes DEF Sent, QueueTypes, HistoryTypes
<1>8. timers \in Seq(Timer) /\ todo \in Seq(Doing) /\ <<>> \in Seq(Doing)
  BY EmptySeq DEF Doing, QueueTypes
<1>9. ASSUME Agents PROVE Sent
  <2>1. ASSUME NEW a \in Agent, Login(a) PROVE Sent
    <3>1. UNCHANGED <<todo, timers, waiters, toGw, clicked, sends, orphaned, abandoned>> /\ connect
      BY <2>1 DEF Login, histVars, raceVars
    <3>2. iceCandidateQueue' \in Seq(Socket)
      BY <3>1, ConnectOpens, EmptySeq DEF QueueTypes
    <3> QED BY <3>1, <3>2 DEF Sent, Doing, QueueTypes, HistoryTypes
  <2>2. ASSUME handleHangup PROVE Sent
    <3>1. /\ sendWS(Msg("hangup", None), timers)
          /\ UNCHANGED <<todo, waiters, clicked, orphaned, abandoned>>
      BY <2>2 DEF handleHangup, histVars, raceVars
    <3> QED BY <1>3, <1>7, <1>8, <3>1
  <2>3. ASSUME handleLogout PROVE Sent
    <3>1. /\ sendWS(Msg("hangup", None), timers)
          /\ UNCHANGED <<waiters, clicked, orphaned, abandoned>>
          /\ todo' = <<Msg("disconnect", None)>>
      BY <2>3 DEF handleLogout, histVars, raceVars
    <3>2. todo' \in Seq(Doing)
      BY <3>1 DEF Doing
    <3> QED BY <1>3, <1>7, <1>8, <3>1, <3>2
  <2> QED BY <1>5, <1>6, <1>9, <2>1, <2>2, <2>3 DEF Agents, handleDial, handleCallCustomer
<1>10. ASSUME Network PROVE Sent
  <2>1. ASSUME NEW s \in Socket, SocketOpens(s) PROVE Sent
    <3>1. /\ toGw' = IF LoggedIn THEN [toGw EXCEPT ![s] = Append(@, Msg("auth", token))] ELSE toGw
          /\ UNCHANGED <<todo, timers, waiters, iceCandidateQueue, clicked, sends, orphaned,
                         abandoned>>
      BY <2>1 DEF SocketOpens, histVars, raceVars
    <3>2. ASSUME LoggedIn
          PROVE  Append(toGw[s], Msg("auth", token))
                     \in Seq(Sendable \cup [ev : {"auth"}, arg : Agent])
      <4>1. Msg("auth", token) \in Sendable \cup [ev : {"auth"}, arg : Agent]
        BY <3>2 DEF LoggedIn, Msg
      <4> QED BY <4>1, AppendProperties DEF QueueTypes
    <3>3. toGw' \in [Socket -> Seq(Sendable \cup [ev : {"auth"}, arg : Agent])]
      BY <3>1, <3>2 DEF QueueTypes
    <3> QED BY <3>1, <3>3 DEF Sent, Doing, QueueTypes, HistoryTypes
  <2>2. ASSUME NEW s \in Socket, SocketCloses(s) PROVE Sent
    <3>1. /\ orphaned' = orphaned \cup ({ws} \ {s, None})
          /\ UNCHANGED <<todo, timers, waiters, iceCandidateQueue, toGw, clicked, sends, abandoned>>
      BY <2>2 DEF SocketCloses
    <3> QED BY <3>1 DEF Sent, Doing, QueueTypes, HistoryTypes, PageTypes
  <2>3. ASSUME NEW s \in Socket, SocketClosing(s) PROVE Sent
    BY <1>4, <2>3 DEF SocketClosing, histVars, raceVars
  <2> QED BY <1>10, <2>1, <2>2, <2>3 DEF Network
<1>11. ASSUME Events PROVE Sent
  <2>1. ASSUME disconnect PROVE Sent
    <3>1. /\ todo' = <<>> /\ iceCandidateQueue' = <<>>
          /\ orphaned' = orphaned \cup {s \in Socket : s = ws /\ sock[s] = "connecting"}
          /\ abandoned' = (abandoned \/ \E g \in Prompt : prompt[g] = "pending")
          /\ UNCHANGED <<timers, toGw, sends, waiters, clicked>>
      BY <2>1 DEF disconnect
    <3>2. abandoned' \in BOOLEAN /\ orphaned' \in SUBSET Socket
      BY <3>1 DEF HistoryTypes
    <3> QED BY <3>1, <3>2, EmptySeq DEF Sent, Doing, QueueTypes, HistoryTypes
  <2>2. ASSUME ResumeSend PROVE Sent
    <3>1. /\ todo # <<>> /\ Head(todo).ev \in {"dial", "answer", "candidate"}
          /\ todo' = Tail(todo) /\ sendWS(Head(todo), timers)
          /\ UNCHANGED <<waiters, clicked, orphaned, abandoned>>
      BY <2>2 DEF ResumeSend, histVars, raceVars
    <3>2. Head(todo) \in Doing /\ todo' \in Seq(Doing)
      BY <1>8, <3>1, HeadTailProperties
    <3>3. Head(todo) \in Sendable
      BY <3>1, <3>2 DEF Doing, Asking, Sendable, Msg
    <3> QED BY <1>7, <1>8, <3>1, <3>2, <3>3
  <2>3. ASSUME ResumeOffer PROVE Sent
    <3>1. /\ todo # <<>> /\ todo' = Tail(todo)
          /\ UNCHANGED <<timers, iceCandidateQueue, toGw, sends, waiters, clicked, orphaned,
                         abandoned>>
      BY <2>3 DEF ResumeOffer, pageVars, histVars, raceVars
    <3>2. todo' \in Seq(Doing)
      BY <1>8, <3>1, HeadTailProperties
    <3> QED BY <3>1, <3>2 DEF Sent, QueueTypes, HistoryTypes
  <2>4. ASSUME NEW i \in DOMAIN timers, TimerFires(i) PROVE Sent
    <3>1. /\ sendWS(timers[i].msg, OtherTimers(i))
          /\ UNCHANGED <<todo, waiters, clicked, orphaned, abandoned>>
      BY <2>4 DEF TimerFires, histVars, raceVars
    <3>2. timers[i] \in Timer
      BY <1>8, LenProperties, ElementOfSeq
    <3>3. timers[i].msg \in Sendable
      BY <3>2 DEF Timer
    <3>4. OtherTimers(i) \in Seq(Timer)
      BY OtherTimersAre
    <3> QED BY <1>7, <1>8, <3>1, <3>3, <3>4
  <2>5. ASSUME NEW s \in Socket, OnOffer(s) PROVE Sent
    <3>1. /\ Task /\ AwaitMic(Msg("offer", s))
          /\ UNCHANGED <<timers, iceCandidateQueue, toGw, clicked, sends, localStream, orphaned,
                         abandoned>>
      BY <2>5 DEF OnOffer, Receive, histVars, raceVars
    <3>2. todo' \in Seq(Doing) /\ waiters' \in [Prompt -> Seq(Asking)]
      BY <1>3, <3>1, AwaitTypes DEF Doing
    <3> QED BY <3>1, <3>2 DEF Sent, QueueTypes, HistoryTypes
  <2>6. ASSUME NEW s \in Socket, OnCandidate(s) PROVE Sent
    <3>1. /\ \/ UNCHANGED iceCandidateQueue
             \/ iceCandidateQueue' = Append(iceCandidateQueue, s)
          /\ UNCHANGED <<todo, timers, waiters, toGw, clicked, sends, orphaned, abandoned>>
      BY <2>6 DEF OnCandidate, histVars, raceVars
    <3>2. Append(iceCandidateQueue, s) \in Seq(Socket) /\ iceCandidateQueue \in Seq(Socket)
      BY AppendProperties DEF QueueTypes
    <3> QED BY <3>1, <3>2 DEF Sent, Doing, QueueTypes, HistoryTypes
  <2>7. ASSUME NEW s \in Socket, OnCallEvent(s) \/ OnAuthReply(s) PROVE Sent
    BY <1>4, <2>7 DEF OnCallEvent, OnAuthReply, sendVars, connectVars, pageVars, histVars, raceVars
  <2>8. ASSUME NEW s \in Socket, RemoteDescriptionSet(s) \/ AnswerCreated(s) PROVE Sent
    BY <1>4, <2>8 DEF RemoteDescriptionSet, AnswerCreated, pageVars, histVars, raceVars
  <2>9. ASSUME NEW s \in Socket, drainIceCandidates(s) PROVE Sent
    <3>1. /\ iceCandidateQueue # <<>> /\ iceCandidateQueue' = Tail(iceCandidateQueue)
          /\ UNCHANGED <<todo, timers, waiters, toGw, clicked, sends, orphaned, abandoned>>
      BY <2>9 DEF drainIceCandidates, histVars, raceVars
    <3>2. iceCandidateQueue' \in Seq(Socket)
      BY <3>1, HeadTailProperties DEF QueueTypes
    <3> QED BY <3>1, <3>2 DEF Sent, Doing, QueueTypes, HistoryTypes
  <2>10. ASSUME NEW s \in Socket \cup {None}, NEW e \in {"answer", "candidate"},
                todo' = <<>> \/ todo' = <<Msg(e, s)>>,
                UNCHANGED <<timers, waiters, iceCandidateQueue, toGw, clicked, sends, orphaned,
                            abandoned>>
         PROVE  Sent
    <3>1. Msg(e, s) \in Doing
      BY <1>3, <2>10 DEF Doing
    <3>2. <<Msg(e, s)>> \in Seq(Doing)
      BY <3>1
    <3>3. todo' \in Seq(Doing)
      BY <1>8, <2>10, <3>2
    <3> QED BY <2>10, <3>3 DEF Sent, QueueTypes, HistoryTypes
  <2>11. ASSUME NEW o \in Socket, LocalDescriptionSet(o) PROVE Sent
    <3>1. /\ handler[o].stage = "local" /\ handler[o].pc = pc
          /\ todo' = <<>> \/ todo' = <<Msg("answer", conn[pc].remote)>>
          /\ UNCHANGED <<timers, waiters, iceCandidateQueue, toGw, clicked, sends, orphaned,
                         abandoned>>
      BY <2>11 DEF LocalDescriptionSet, At, histVars, raceVars
    <3>2. pc \in Socket /\ conn[pc].remote \in Socket \cup {None}
      BY <3>1 DEF PageTypes, ChainsHavePc
    <3> QED BY <2>10, <3>1, <3>2
  <2>12. ASSUME OnIceCandidate PROVE Sent
    <3>1. pc \in Socket
      BY <2>12 DEF OnIceCandidate, PageTypes
    <3> QED BY <2>10, <2>12, <3>1 DEF OnIceCandidate, histVars, raceVars
  <2> QED BY <1>11, <2>1, <2>2, <2>3, <2>4, <2>5, <2>6, <2>7, <2>8, <2>9, <2>11, <2>12 DEF Events
<1>12. ASSUME UNCHANGED vars PROVE Sent
  BY <1>4, <1>12 DEF vars, sendVars, connectVars, pageVars, histVars, raceVars
<1>13. Sent
  BY <1>9, <1>10, <1>11, <1>12
<1> QED BY <1>2, <1>13 DEF Sent, Doing, QueueTypes, HistoryTypes

\* What a step of the browser does with the sockets: nothing; a new one takes
\* the place of ws; ws is given up; or one opens or begins to close.
NewWs ==
    \E s \in Socket :
        /\ ws = None \/ ~ InUse(ws)
        /\ sock[s] = "unused" /\ sock' = [sock EXCEPT ![s] = "connecting"] /\ ws' = s
NoWs ==
    /\ ws' = None
    /\ \A s \in Socket : sock[s] # "unused" => sock'[s] # "unused"
    /\ \A s \in Socket : sock[s] = "unused" => sock'[s] = "unused"
    /\ \A s \in Socket : ~ InUse(s) => ~ InUse(s)'
Turns ==
    /\ UNCHANGED <<ws, orphaned>>
    /\ \E s \in Socket :
          \/ sock[s] = "connecting" /\ sock' = [sock EXCEPT ![s] = "open"]
          \/ sock[s] = "open" /\ sock' = [sock EXCEPT ![s] = "closing"]

\* sendWS is one of the first two.
LEMMA SendTurns ==
    ASSUME NEW m, NEW rest, sendWS(m, rest)
    PROVE  UNCHANGED <<ws, sock>> \/ NewWs
BY SendOpens DEF NewWs, InUse

\* All steps are one of these.
LEMMA SocketsMove ==
    ASSUME PageTypes, Agents \/ Network \/ Events \/ UNCHANGED vars
    PROVE  UNCHANGED <<ws, sock, orphaned>> \/ (NewWs /\ UNCHANGED orphaned) \/ NoWs \/ Turns
<1> DEFINE Kept == UNCHANGED <<ws, sock, orphaned>> \/ (NewWs /\ UNCHANGED orphaned)
<1>1. CASE Agents
  <2>1. ASSUME NEW a \in Agent, Login(a) PROVE Kept
    <3>1. connect /\ UNCHANGED orphaned
      BY <2>1 DEF Login, histVars, raceVars
    <3> QED BY <3>1, ConnectOpens DEF NewWs
  <2>2. ASSUME NEW d \in Click, dial(d) PROVE Kept
    BY <2>2 DEF dial, raceVars
  <2>3. ASSUME handleHangup \/ handleLogout PROVE Kept
    <3>1. sendWS(Msg("hangup", None), timers) /\ UNCHANGED orphaned
      BY <2>3 DEF handleHangup, handleLogout, histVars, raceVars
    <3> QED BY <3>1, SendTurns
  <2>4. ASSUME NEW g \in Prompt, MicGranted(g) \/ MicDenied(g) PROVE Kept
    BY <2>4 DEF MicGranted, MicDenied, histVars, raceVars
  <2> HIDE DEF Kept
  <2>5. Kept
    BY <1>1, <2>1, <2>2, <2>3, <2>4 DEF Agents, handleDial, handleCallCustomer
  <2> QED BY <2>5 DEF Kept
<1>2. CASE Network
  <2>1. ASSUME NEW s \in Socket, SocketOpens(s) PROVE Turns
    BY <2>1 DEF SocketOpens, Turns, histVars, raceVars
  <2>2. ASSUME NEW s \in Socket, SocketCloses(s) PROVE NoWs
    BY <2>2 DEF SocketCloses, NoWs, InUse, PageTypes
  <2>3. ASSUME NEW s \in Socket, SocketClosing(s) PROVE Turns
    BY <2>3 DEF SocketClosing, Turns, histVars, raceVars
  <2> QED BY <1>2, <2>1, <2>2, <2>3 DEF Network
<1>3. CASE Events
  <2>1. ASSUME disconnect PROVE NoWs
    BY <2>1 DEF disconnect, WithoutWs, NoWs, InUse, PageTypes
  <2>2. ASSUME ResumeSend PROVE Kept
    <3>1. sendWS(Head(todo), timers) /\ UNCHANGED orphaned
      BY <2>2 DEF ResumeSend, histVars, raceVars
    <3> QED BY <3>1, SendTurns
  <2>3. ASSUME NEW i \in DOMAIN timers, TimerFires(i) PROVE Kept
    <3>1. sendWS(timers[i].msg, OtherTimers(i)) /\ UNCHANGED orphaned
      BY <2>3 DEF TimerFires, histVars, raceVars
    <3> QED BY <3>1, SendTurns
  <2>4. ASSUME ResumeOffer \/ OnIceCandidate PROVE Kept
    BY <2>4 DEF ResumeOffer, OnIceCandidate, pageVars, histVars, raceVars
  <2>5. ASSUME NEW s \in Socket, OnOffer(s) \/ OnCandidate(s) PROVE Kept
    BY <2>5 DEF OnOffer, OnCandidate, histVars, raceVars
  <2>6. ASSUME NEW s \in Socket, OnCallEvent(s) \/ OnAuthReply(s) PROVE Kept
    BY <2>6 DEF OnCallEvent, OnAuthReply, sendVars, connectVars, pageVars, histVars, raceVars
  <2>7. ASSUME NEW s \in Socket, RemoteDescriptionSet(s) \/ drainIceCandidates(s) PROVE Kept
    BY <2>7 DEF RemoteDescriptionSet, drainIceCandidates, histVars, raceVars
  <2>8. ASSUME NEW s \in Socket, AnswerCreated(s) \/ LocalDescriptionSet(s) PROVE Kept
    BY <2>8 DEF AnswerCreated, LocalDescriptionSet, pageVars, histVars, raceVars
  <2> HIDE DEF Kept
  <2>9. NoWs \/ Kept
    BY <1>3, <2>1, <2>2, <2>3, <2>4, <2>5, <2>6, <2>7, <2>8 DEF Events
  <2> QED BY <2>9 DEF Kept
<1>4. CASE UNCHANGED vars
  BY <1>4 DEF vars, sendVars, connectVars, pageVars, histVars, raceVars
<1> QED BY <1>1, <1>2, <1>3, <1>4

\* ws is open or on its way, and the lines fit.
LEMMA BrowserFits ==
    ASSUME PageTypes, QueueTypes, WsIsNotClosed, LinesFit,
           Agents \/ Network \/ Events \/ UNCHANGED vars
    PROVE  WsIsNotClosed' /\ LinesFit'
<1>1. LeavesGateway /\ Hears
  BY BrowserLeavesGateway, BrowserHears
<1>2. UNCHANGED <<ws, sock>> \/ NewWs \/ NoWs \/ Turns
  BY SocketsMove
<1>3. WsIsNotClosed'
  BY <1>2 DEF WsIsNotClosed, NewWs, NoWs, Turns, PageTypes
<1>4. \A s \in Socket : sock'[s] = "unused" => sock[s] = "unused"
  BY <1>2 DEF NewWs, NoWs, Turns, PageTypes
<1>5. ASSUME NEW s \in Socket, line[s] = "absent" PROVE toBr'[s] = <<>>
  BY <1>1, <1>5, HearsTypes DEF LinesFit
<1>6. ASSUME NEW s \in Socket, line[s] = "gone" PROVE ~ InUse(s)'
  <2>1. sock[s] \notin {"unused", "connecting", "open"}
    BY <1>6 DEF LinesFit, InUse
  <2> QED BY <1>2, <2>1 DEF InUse, NewWs, NoWs, Turns, PageTypes
<1> QED BY <1>1, <1>3, <1>4, <1>5, <1>6 DEF LeavesGateway, gwVars, LinesFit

\* What the agent sees.
AppTypes ==
    /\ token \in Agent \cup {None}
    /\ callStatus \in {"idle", "dialing", "connected"}
    /\ wsConnected \in BOOLEAN

\* The types of what the agent sees.
LEMMA BrowserShows ==
    ASSUME AppTypes, Agents \/ Network \/ Events \/ UNCHANGED vars
    PROVE  AppTypes'
<1> USE DEF AppTypes
<1>1. CASE Agents
  <2>1. ASSUME NEW a \in Agent, Login(a) PROVE AppTypes'
    BY <2>1 DEF Login
  <2>2. ASSUME NEW d \in Click, dial(d) PROVE AppTypes'
    BY <2>2 DEF dial
  <2>3. CASE handleHangup \/ handleLogout
    BY <2>3 DEF handleHangup, handleLogout, appVars
  <2>4. ASSUME NEW g \in Prompt, MicGranted(g) \/ MicDenied(g) PROVE AppTypes'
    BY <2>4 DEF MicGranted, MicDenied, appVars
  <2> QED BY <1>1, <2>1, <2>2, <2>3, <2>4 DEF Agents, handleDial, handleCallCustomer
<1>2. CASE Network
  BY <1>2 DEF Network, SocketOpens, SocketCloses, SocketClosing, LoggedIn, Offline, appVars
<1>3. CASE Events
  <2>1. CASE disconnect
    BY <2>1 DEF disconnect
  <2>2. CASE ResumeSend \/ ResumeOffer \/ OnIceCandidate
    BY <2>2 DEF ResumeSend, ResumeOffer, OnIceCandidate, appVars
  <2>3. ASSUME NEW i \in DOMAIN timers, TimerFires(i) PROVE AppTypes'
    BY <2>3 DEF TimerFires, appVars
  <2>4. ASSUME NEW s \in Socket, OnOffer(s) \/ OnCandidate(s) PROVE AppTypes'
    BY <2>4 DEF OnOffer, OnCandidate, appVars
  <2>5. ASSUME NEW s \in Socket, OnCallEvent(s) \/ OnAuthReply(s) PROVE AppTypes'
    BY <2>5 DEF OnCallEvent, OnAuthReply, Shows, LoggedIn
  <2>6. ASSUME NEW s \in Socket, RemoteDescriptionSet(s) \/ drainIceCandidates(s) PROVE AppTypes'
    BY <2>6 DEF RemoteDescriptionSet, drainIceCandidates, appVars
  <2>7. ASSUME NEW s \in Socket, AnswerCreated(s) \/ LocalDescriptionSet(s) PROVE AppTypes'
    BY <2>7 DEF AnswerCreated, LocalDescriptionSet, appVars
  <2> QED BY <1>3, <2>1, <2>2, <2>3, <2>4, <2>5, <2>6, <2>7 DEF Events
<1>4. CASE UNCHANGED vars
  BY <1>4 DEF vars, appVars
<1> QED BY <1>1, <1>2, <1>3, <1>4

-----------------------------------------------------------------------------
(***************************************************************************)
(* Dials and offers.                                                       *)
(***************************************************************************)

\* A click makes a dial that was not made before.
LEMMA DialIsNew ==
    ASSUME HistoryTypes, NEW d \in Click, dial(d)
    PROVE  d \notin clicked /\ clicked' = clicked \cup {d}
<1>1. d = NextDial /\ clicked' = clicked \cup {d} /\ d # None
  BY NoneAssumption DEF dial
<1>2. Click # clicked /\ d = CHOOSE c \in Click \ clicked : TRUE
  BY <1>1 DEF NextDial
<1>3. \E c \in Click \ clicked : TRUE
  BY <1>2 DEF HistoryTypes
<1>4. d \in Click \ clicked
  BY <1>2, <1>3
<1> QED BY <1>1, <1>4

\* A dial is in one place, and goes out once.
LEMMA DialsStaySingle ==
    ASSUME PageTypes, QueueTypes, HistoryTypes, DialsAreSingle, DialledOnce, [Next]_vars
    PROVE  DialsAreSingle' /\ DialledOnce'
<1> SUFFICES ASSUME NEW d \in Click
             PROVE  /\ HeldOnce(Msg("dial", d))'
                    /\ Held(Msg("dial", d))' => d \in clicked' /\ sends'[d] = 0
                    /\ d \notin clicked' => sends'[d] = 0
                    /\ sends'[d] <= 1
  BY DEF DialsAreSingle, DialledOnce
<1> DEFINE m == Msg("dial", d)
<1>1. m \in Asking /\ m.ev = "dial" /\ m.arg = d
  BY DEF Asking, Msg
<1>2. /\ HeldOnce(m)
      /\ Held(m) => d \in clicked /\ sends[d] = 0
      /\ d \notin clicked => sends[d] = 0
      /\ sends[d] <= 1 /\ sends[d] \in Nat
  BY DEF DialsAreSingle, DialledOnce, HistoryTypes
<1>3. Asks(m) => d \notin clicked /\ d \in clicked'
  BY <1>1, DialIsNew DEF Asks, Msg
<1>4. clicked \subseteq clicked'
  <2>1. CASE GatewaySteps
    BY <2>1, GatewayLeavesBrowser DEF browserPart
  <2>2. CASE Agents \/ Network \/ Events \/ UNCHANGED vars
    BY <2>2, BrowserLeavesGateway DEF LeavesGateway
  <2> QED BY <2>1, <2>2 DEF Next
<1>5. Moves(m)
  BY <1>1, <1>2, <1>3, EveryStepMoves
<1>6. /\ HeldOnce(m)'
      /\ Held(m)' => Held(m) \/ Asks(m)
      /\ \/ sends'[d] = sends[d]
         \/ sends'[d] = sends[d] + 1 /\ Held(m) /\ ~ Held(m)'
  BY <1>1, <1>5 DEF Moves
<1> HIDE DEF m
<1>7. Held(m)' => d \in clicked' /\ sends'[d] = 0
  BY <1>2, <1>3, <1>4, <1>6
<1>8. d \notin clicked' => sends'[d] = 0
  BY <1>2, <1>4, <1>6
<1>9. sends'[d] <= 1
  BY <1>2, <1>6
<1> QED BY <1>6, <1>7, <1>8, <1>9 DEF m

\* The chain of an offer begins with ResumeOffer.
LEMMA AnswersBegin ==
    ASSUME PageTypes, NEW o \in Socket, Agents \/ Network \/ Events \/ UNCHANGED vars, Answers(o)'
    PROVE  Answers(o) \/ (ResumeOffer /\ Head(todo).arg = o)
<1> DEFINE Begins == Answers(o) \/ (ResumeOffer /\ Head(todo).arg = o)
<1>1. ASSUME UNCHANGED handler \/ handler' = Chains(pc) PROVE Answers(o)
  BY <1>1 DEF Answers, Chains, NoChain
<1>2. ASSUME NEW m, NEW rest, sendWS(m, rest) PROVE Answers(o)
  BY <1>1, <1>2, SendOpens
<1>3. ASSUME Agents PROVE Answers(o)
  <2>1. ASSUME NEW a \in Agent, Login(a) PROVE Answers(o)
    BY <1>1, <2>1, ConnectOpens DEF Login
  <2>2. ASSUME NEW d \in Click, dial(d) PROVE Answers(o)
    BY <1>1, <2>2 DEF dial
  <2>3. ASSUME handleHangup \/ handleLogout PROVE Answers(o)
    BY <1>2, <2>3 DEF handleHangup, handleLogout
  <2>4. ASSUME NEW g \in Prompt, MicGranted(g) \/ MicDenied(g) PROVE Answers(o)
    BY <1>1, <2>4 DEF MicGranted, MicDenied
  <2> QED BY <1>3, <2>1, <2>2, <2>3, <2>4 DEF Agents, handleDial, handleCallCustomer
<1>4. ASSUME Network PROVE Answers(o)
  BY <1>1, <1>4 DEF Network, SocketOpens, SocketCloses, SocketClosing
<1>5. ASSUME Events PROVE Begins
  <2>1. ASSUME disconnect PROVE Answers(o)
    BY <1>1, <2>1 DEF disconnect
  <2>2. ASSUME ResumeSend PROVE Answers(o)
    BY <1>2, <2>2 DEF ResumeSend
  <2>3. ASSUME ResumeOffer, ~ Answers(o) PROVE Head(todo).arg = o
    BY <2>3 DEF ResumeOffer, Answers, PageTypes
  <2>4. ASSUME NEW i \in DOMAIN timers, TimerFires(i) PROVE Answers(o)
    BY <1>2, <2>4 DEF TimerFires
  <2>5. ASSUME NEW s \in Socket, OnOffer(s) \/ OnCandidate(s) PROVE Answers(o)
    BY <1>1, <2>5 DEF OnOffer, OnCandidate
  <2>6. ASSUME NEW s \in Socket, OnCallEvent(s) \/ OnAuthReply(s) PROVE Answers(o)
    BY <1>1, <2>6 DEF OnCallEvent, OnAuthReply, sendVars, connectVars
  <2>7. ASSUME NEW s \in Socket, RemoteDescriptionSet(s) PROVE Answers(o)
    BY <2>7 DEF RemoteDescriptionSet, At, To, Answers, PageTypes
  <2>8. ASSUME NEW s \in Socket, drainIceCandidates(s) PROVE Answers(o)
    BY <1>1, <2>8 DEF drainIceCandidates
  <2>9. ASSUME NEW s \in Socket, AnswerCreated(s) PROVE Answers(o)
    BY <2>9 DEF AnswerCreated, At, To, Ends, Answers, PageTypes, NoChain
  <2>10. ASSUME NEW s \in Socket, LocalDescriptionSet(s) PROVE Answers(o)
    BY <2>10 DEF LocalDescriptionSet, At, Ends, Answers, PageTypes, NoChain
  <2>11. ASSUME OnIceCandidate PROVE Answers(o)
    BY <1>1, <2>11 DEF OnIceCandidate
  <2> QED BY <1>5, <2>1, <2>2, <2>3, <2>4, <2>5, <2>6, <2>7, <2>8, <2>9, <2>10, <2>11 DEF Events
<1>6. ASSUME UNCHANGED vars PROVE Answers(o)
  BY <1>1, <1>6 DEF vars, sendVars, connectVars
<1> QED BY <1>3, <1>4, <1>5, <1>6

\* The gateway writes nothing to o that is an offer, or its only one.
WritesOther(o) ==
    /\ signalled[o] \subseteq signalled'[o]
    /\ \/ toBr'[o] = toBr[o]
       \/ \E e \in Event \ {"offer"} : toBr'[o] = Append(toBr[o], Msg(e, None))

\* It writes o's offer, its first.
WritesOffer(o) ==
    /\ "offer" \notin signalled[o] /\ "offer" \in signalled'[o]
    /\ toBr'[o] = Append(toBr[o], Msg("offer", None))

\* What the gateway writes.
LEMMA GatewayOffers ==
    ASSUME QueueTypes, GatewayTypes, NEW o \in Socket, GatewaySteps
    PROVE  WritesOther(o) \/ WritesOffer(o)
<1> DEFINE Writes == WritesOther(o) \/ WritesOffer(o)
<1> USE DEF gwRest
<1>1. ASSUME UNCHANGED signalled, UNCHANGED toBr PROVE WritesOther(o)
  BY <1>1 DEF WritesOther
<1>2. ASSUME UNCHANGED signalled, NEW S, NEW e \in Event \ {"offer"}, Write(S, e)
      PROVE  WritesOther(o)
  BY <1>2 DEF WritesOther, Write
<1>3. {"auth-error", "auth-ok", "dial-error", "call-started", "call-ended", "candidate"}
          \subseteq Event \ {"offer"}
  BY DEF Event, CallEvent
<1>4. ASSUME NEW s \in Socket, Accept(s) PROVE WritesOther(o)
  BY <1>1, <1>4 DEF Accept
<1>5. ASSUME NEW s \in Socket, NEW e \in {"candidate", "offer"}, Signal(s, e)
      PROVE  Writes
  <2>1. /\ signalled' = [signalled EXCEPT ![s] = @ \cup {e}] /\ e \notin signalled[s]
        /\ Write({s}, e) /\ InUse(s)
    BY <1>5 DEF Signal
  <2>2. CASE e = "candidate"
    BY <1>3, <2>1, <2>2 DEF WritesOther, Write, GatewayTypes
  <2>3. CASE e = "offer" /\ s = o
    BY <2>1, <2>3 DEF WritesOffer, Write, GatewayTypes
  <2>4. CASE s # o
    BY <2>1, <2>4 DEF WritesOther, Write, GatewayTypes
  <2> QED BY <2>2, <2>3, <2>4
<1>6. ASSUME NEW s \in Socket, ReadLoop(s) PROVE WritesOther(o)
  <2>1. CASE ReadAuth(s) BY <1>2, <1>3, <2>1 DEF ReadAuth
  <2>2. CASE ReadDial(s) BY <1>1, <1>2, <1>3, <2>2 DEF ReadDial
  <2>3. CASE ReadHangup(s) BY <1>1, <2>3 DEF ReadHangup
  <2>4. CASE ReadSignal(s) BY <2>4 DEF ReadSignal, WritesOther, GatewayTypes
  <2>5. CASE Invite(s) BY <1>1, <1>2, <1>3, <2>5 DEF Invite
  <2>6. CASE InviteFails(s) BY <1>2, <1>3, <2>6 DEF InviteFails
  <2>7. CASE InviteAnswered(s) BY <1>1, <2>7 DEF InviteAnswered
  <2>8. CASE CallStarted(s) BY <1>2, <1>3, <2>8 DEF CallStarted
  <2>9. CASE HangupDone(s) BY <1>2, <1>3, <2>9 DEF HangupDone
  <2>10. CASE ReadFails(s) BY <1>1, <2>10 DEF ReadFails
  <2> QED BY <1>6, <2>1, <2>2, <2>3, <2>4, <2>5, <2>6, <2>7, <2>8, <2>9, <2>10 DEF ReadLoop
<1>7. ASSUME NEW s \in Socket, RemoteBye(s) \/ PeerFailed(s) PROVE WritesOther(o)
  BY <1>1, <1>7 DEF RemoteBye, PeerFailed
<1>8. ASSUME NEW s \in Socket, BroadcastEnd(s) PROVE WritesOther(o)
  BY <1>2, <1>3, <1>8 DEF BroadcastEnd
<1>9. ASSUME NEW e \in {"call-started", "call-ended"}, BroadcastForeign(e) PROVE WritesOther(o)
  BY <1>2, <1>3, <1>9 DEF BroadcastForeign
<1> QED BY <1>4, <1>5, <1>6, <1>7, <1>8, <1>9 DEF GatewaySteps

\* An offer is sent once: it is on its way, on the page, or being answered.
LEMMA OffersStaySingle ==
    ASSUME PageTypes, QueueTypes, HistoryTypes, GatewayTypes, OffersAreSingle, [Next]_vars
    PROVE  OffersAreSingle'
<1> SUFFICES ASSUME NEW o \in Socket
             PROVE  /\ HeldOnce(Msg("offer", o))'
                    /\ Once(toBr'[o], Msg("offer", None))
                    /\ Delivers(o)' => ~ Held(Msg("offer", o))' /\ ~ Answers(o)'
                    /\ Held(Msg("offer", o))' => ~ Answers(o)'
                    /\ Delivers(o)' \/ Held(Msg("offer", o))' \/ Answers(o)' =>
                          "offer" \in signalled'[o]
  BY DEF OffersAreSingle, Once
<1> DEFINE m == Msg("offer", o)
           x == Msg("offer", None)
           W == [ev : Event, arg : {None}]
<1>1. m \in Asking /\ m.ev = "offer" /\ m.arg = o
  BY DEF Asking, Msg
<1>2. /\ HeldOnce(m)
      /\ Once(toBr[o], x)
      /\ Delivers(o) => ~ Held(m) /\ ~ Answers(o)
      /\ Held(m) => ~ Answers(o)
      /\ Delivers(o) \/ Held(m) \/ Answers(o) => "offer" \in signalled[o]
  BY DEF OffersAreSingle
<1>3. /\ Delivers(o) <=> Has(toBr[o], x)
      /\ Delivers(o)' <=> Has(toBr'[o], x)
      /\ toBr[o] \in Seq(W)
  BY DEF Delivers, Has, QueueTypes
<1>4. ASSUME Asks(m)
      PROVE  /\ Delivers(o) /\ ~ Delivers(o)'
             /\ OnOffer(o)
  <2>1. OnOffer(o)
    BY <1>1, <1>4 DEF Asks, Msg
  <2>2. toBr[o] # <<>> /\ Head(toBr[o]).ev = "offer" /\ toBr'[o] = Tail(toBr[o])
    BY <2>1 DEF OnOffer, Receive, QueueTypes
  <2>3. Head(toBr[o]) = x
    <3>1. Head(toBr[o]) \in [ev : Event, arg : {None}]
      BY <1>3, <2>2, HeadTailProperties
    <3> QED BY <2>2, <3>1 DEF Msg
  <2> HIDE DEF x
  <2> QED BY <1>2, <1>3, <2>1, <2>2, <2>3, HasTail
<1>5. Moves(m)
  BY <1>1, <1>2, <1>4, EveryStepMoves
<1>6. HeldOnce(m)' /\ (Held(m)' => Held(m) \/ Asks(m))
  BY <1>5 DEF Moves
<1>7. CASE GatewaySteps
  <2>1. Answers(o)' <=> Answers(o)
    BY <1>7, GatewayLeavesBrowser DEF browserPart, browserVars, connectVars, Answers
  <2>2. Held(m)' <=> Held(m)
    BY <1>7, MessagesStay, PlacesAfter DEF messagePart, Held, Resumes, Awaits, PutOff
  <2>3. CASE WritesOther(o)
    <3>1. \A e \in Event \ {"offer"} : Msg(e, None) \in W /\ Msg(e, None) # x
      BY DEF Msg
    <3>2. Once(toBr'[o], x) /\ (Delivers(o)' => Delivers(o))
      <4>1. CASE toBr'[o] = toBr[o]
        BY <1>2, <1>3, <4>1
      <4>2. ASSUME NEW e \in Event \ {"offer"}, toBr'[o] = Append(toBr[o], Msg(e, None))
            PROVE  Once(toBr'[o], x) /\ (Delivers(o)' => Delivers(o))
        <5> HIDE DEF W
        <5> QED BY <1>2, <1>3, <3>1, <4>2, HasAppend
      <4> QED BY <2>3, <4>1, <4>2 DEF WritesOther
    <3> QED BY <1>2, <1>6, <2>1, <2>2, <2>3, <3>2 DEF WritesOther
  <2>4. CASE WritesOffer(o)
    <3>1. x \in W
      BY DEF Msg, Event
    <3>2. ~ Has(toBr[o], x)
      BY <1>2, <1>3, <2>4 DEF WritesOffer
    <3>3. Once(toBr'[o], x)
      <4>1. toBr'[o] = Append(toBr[o], x)
        BY <2>4 DEF WritesOffer
      <4> HIDE DEF W
      <4> QED BY <1>2, <1>3, <3>1, <3>2, <4>1, HasAppend
    <3> QED BY <1>2, <1>6, <2>1, <2>2, <2>4, <3>3 DEF WritesOffer
  <2> QED BY <1>7, <2>3, <2>4, GatewayOffers
<1>8. CASE Agents \/ Network \/ Events \/ UNCHANGED vars
  <2>1. UNCHANGED signalled /\ Hears
    BY <1>8, BrowserLeavesGateway, BrowserHears DEF LeavesGateway, gwVars
  <2>2. Once(toBr'[o], x) /\ (Delivers(o)' => Delivers(o))
    <3>1. \/ toBr'[o] = toBr[o] \/ toBr'[o] = <<>>
          \/ toBr[o] # <<>> /\ toBr'[o] = Tail(toBr[o])
      BY <2>1, HearsTypes
    <3> HIDE DEF x
    <3> QED BY <1>2, <1>3, <3>1, HasShort, HasTail
  <2>3. Answers(o)' => Answers(o) \/ (Held(m) /\ ~ Held(m)')
    <3>1. ASSUME Answers(o)', ~ Answers(o) PROVE Held(m) /\ ~ Held(m)'
      <4>1. ResumeOffer /\ Head(todo).arg = o
        BY <1>8, <3>1, AnswersBegin
      <4>2. Head(todo) = m
        BY <1>1, <1>2, <4>1, MovesOffer DEF Msg
      <4> QED BY <1>1, <1>2, <4>1, <4>2, MovesOffer
    <3> QED BY <3>1
  <2> QED BY <1>2, <1>4, <1>6, <2>1, <2>2, <2>3
<1> QED BY <1>7, <1>8 DEF Next

-----------------------------------------------------------------------------
(***************************************************************************)
(* Candidates.                                                             *)
(***************************************************************************)

\* A chain that empties the queue of the present pc.
Draining(o) == handler[o].stage = "drain" /\ handler[o].pc = pc

\* A step that changes neither pc nor the queue, gives pc no description and
\* ends no chain that is draining.
LEMMA DrainingGoesOn ==
    ASSUME QueueIsDrained, UNCHANGED <<pc, iceCandidateQueue>>,
           pc # None => conn'[pc].remote = conn[pc].remote,
           \A o \in Socket : Draining(o) => Draining(o)'
    PROVE  QueueIsDrained'
BY DEF QueueIsDrained, Draining

\* sendWS makes a new pc, or leaves all as it is.
LEMMA SendDrains ==
    ASSUME QueueIsDrained, NEW m, NEW rest, sendWS(m, rest)
    PROVE  QueueIsDrained'
BY SendOpens DEF QueueIsDrained

\* The queue is emptied by some chain as long as there is something in it.
LEMMA QueueStaysDrained ==
    ASSUME PageTypes, ChainsHavePc, QueueTypes, OffersAreSingle, QueueIsDrained, [Next]_vars
    PROVE  QueueIsDrained'
<1>1. CASE GatewaySteps
  <2>1. UNCHANGED <<pc, conn, handler, iceCandidateQueue>>
    BY <1>1, GatewayLeavesBrowser DEF browserPart, browserVars, connectVars, pageVars
  <2> QED BY <2>1, DrainingGoesOn DEF Draining
<1>2. CASE Agents
  <2>1. ASSUME NEW a \in Agent, Login(a) PROVE QueueIsDrained'
    BY <2>1, ConnectOpens DEF Login, QueueIsDrained
  <2>2. ASSUME NEW d \in Click, dial(d) PROVE QueueIsDrained'
    BY <2>2, DrainingGoesOn DEF dial, Draining
  <2>3. CASE handleHangup \/ handleLogout
    BY <2>3, SendDrains DEF handleHangup, handleLogout
  <2>4. ASSUME NEW g \in Prompt, MicGranted(g) PROVE QueueIsDrained'
    <3>1. /\ conn' = IF pc = None THEN conn ELSE [conn EXCEPT ![pc].tracks = @ \cup {g}]
          /\ UNCHANGED <<pc, iceCandidateQueue, handler>>
      BY <2>4 DEF MicGranted
    <3>2. pc # None => conn'[pc].remote = conn[pc].remote
      BY <3>1 DEF PageTypes
    <3> QED BY <3>1, <3>2, DrainingGoesOn DEF Draining
  <2>5. ASSUME NEW g \in Prompt, MicDenied(g) PROVE QueueIsDrained'
    BY <2>5, DrainingGoesOn DEF MicDenied, Draining
  <2> QED BY <1>2, <2>1, <2>2, <2>3, <2>4, <2>5 DEF Agents, handleDial, handleCallCustomer
<1>3. CASE Network
  BY <1>3, DrainingGoesOn DEF Network, SocketOpens, SocketCloses, SocketClosing, Draining
<1>4. CASE Events
  <2>1. CASE disconnect
    BY <2>1 DEF disconnect, QueueIsDrained
  <2>2. CASE ResumeSend
    BY <2>2, SendDrains DEF ResumeSend
  <2>3. CASE ResumeOffer
    <3>1. /\ handler' = [handler EXCEPT ![Head(todo).arg] =
                             IF pc = None THEN NoChain ELSE [stage |-> "remote", pc |-> pc]]
          /\ UNCHANGED <<pc, conn, iceCandidateQueue>>
      BY <2>3 DEF ResumeOffer, pageVars
    <3>2. \A o \in Socket : o = Head(todo).arg => handler[o].stage = "none"
      <4> SUFFICES ASSUME NEW o \in Socket, o = Head(todo).arg PROVE ~ Answers(o)
        BY DEF Answers
      <4>1. HeldOnce(Msg("offer", o)) /\ Msg("offer", o) \in Asking
        BY DEF OffersAreSingle, Asking, Msg
      <4>2. Head(todo) = Msg("offer", o)
        BY <2>3, <4>1, MovesOffer DEF Msg
      <4>3. Held(Msg("offer", o))
        BY <2>3, <4>1, <4>2, MovesOffer
      <4> QED BY <4>3 DEF OffersAreSingle
    <3>3. \A o \in Socket : Draining(o) => Draining(o)'
      BY <3>1, <3>2 DEF Draining, PageTypes
    <3> QED BY <3>1, <3>3, DrainingGoesOn
  <2>4. ASSUME NEW i \in DOMAIN timers, TimerFires(i) PROVE QueueIsDrained'
    BY <2>4, SendDrains DEF TimerFires
  <2>5. ASSUME NEW s \in Socket, OnOffer(s) PROVE QueueIsDrained'
    BY <2>5, DrainingGoesOn DEF OnOffer, Draining
  <2>6. ASSUME NEW s \in Socket, OnCandidate(s) PROVE QueueIsDrained'
    BY <2>6 DEF OnCandidate, QueueIsDrained
  <2>7. ASSUME NEW s \in Socket, OnCallEvent(s) \/ OnAuthReply(s) PROVE QueueIsDrained'
    BY <2>7, DrainingGoesOn DEF OnCallEvent, OnAuthReply, sendVars, connectVars, pageVars, Draining
  <2>8. ASSUME NEW o \in Socket, RemoteDescriptionSet(o) PROVE QueueIsDrained'
    <3>1. /\ handler' = [handler EXCEPT ![o].stage = "drain"] /\ handler[o].pc = pc
          /\ UNCHANGED pc
      BY <2>8 DEF RemoteDescriptionSet, At, To
    <3>2. handler'[o].stage = "drain" /\ handler'[o].pc = pc'
      BY <3>1 DEF PageTypes
    <3> QED BY <3>2 DEF QueueIsDrained
  <2>9. ASSUME NEW o \in Socket, drainIceCandidates(o) PROVE QueueIsDrained'
    <3>1. Draining(o) /\ UNCHANGED <<pc, handler>>
      BY <2>9 DEF drainIceCandidates, At, Draining
    <3> QED BY <3>1 DEF QueueIsDrained, Draining
  <2>10. ASSUME NEW o \in Socket, AnswerCreated(o) PROVE QueueIsDrained'
    BY <2>10 DEF AnswerCreated, pageVars, QueueIsDrained
  <2>11. ASSUME NEW o \in Socket, LocalDescriptionSet(o) PROVE QueueIsDrained'
    <3>1. /\ handler[o].stage = "local" /\ handler' = [handler EXCEPT ![o] = NoChain]
          /\ conn' = [conn EXCEPT ![pc].stable = TRUE]
          /\ UNCHANGED <<pc, iceCandidateQueue>>
      BY <2>11 DEF LocalDescriptionSet, At, Ends
    <3>2. pc # None => conn'[pc].remote = conn[pc].remote
      BY <3>1 DEF PageTypes
    <3>3. \A u \in Socket : Draining(u) => Draining(u)'
      BY <3>1 DEF Draining, PageTypes
    <3> QED BY <3>1, <3>2, <3>3, DrainingGoesOn
  <2>12. CASE OnIceCandidate
    <3>1. /\ conn' = [conn EXCEPT ![pc].trickled = TRUE]
          /\ UNCHANGED <<pc, iceCandidateQueue, handler>>
      BY <2>12 DEF OnIceCandidate
    <3>2. pc # None => conn'[pc].remote = conn[pc].remote
      BY <3>1 DEF PageTypes
    <3> QED BY <3>1, <3>2, DrainingGoesOn DEF Draining
  <2> QED BY <1>4, <2>1, <2>2, <2>3, <2>4, <2>5, <2>6, <2>7, <2>8, <2>9, <2>10, <2>11, <2>12
          DEF Events
<1>5. CASE UNCHANGED vars
  BY <1>5, DrainingGoesOn DEF vars, sendVars, connectVars, pageVars, Draining
<1> QED BY <1>1, <1>2, <1>3, <1>4, <1>5 DEF Next
==============================================================================
