------------------------ MODULE SipGatewayRefinement ------------------------
(***************************************************************************)
(* SipGateway implements PhoneLine: under the mapping of Line every step   *)
(* of the gateway is a step of one line or of none.                        *)
(***************************************************************************)
EXTENDS SipGatewayProofs

USE NoneAssumption

Same(j) == lineOf(j)' = lineOf(j) /\ onOf(j)' = onOf(j)

Dialled == {c \in Call : owner[c] # None}

(* A step that changes no line and dials nothing is a stutter. *)
LEMMA Stutter ==
  ASSUME \A j \in Conn : Same(j), Dialled' = Dialled
  PROVE  UNCHANGED Line!vars
  BY DEF Line!vars, Same, Dialled

(* A step that moves one line, in the terms of PhoneLine. *)
LEMMA Moves ==
  ASSUME NEW k \in Conn, NEW from, NEW to, NEW c,
         \A j \in Conn \ {k} : Same(j),
         lineOf(k) \in from, lineOf(k)' = to, onOf(k)' = c
  PROVE  Line!Goes(k, from, to, c)
  BY DEF Line!Goes, Same

(* What nobody touches leaves a line as it is. *)
LEMMA Untouched ==
  ASSUME NEW j \in Conn,
         loop'[j] = loop[j], cur'[j] = cur[j], pcall'[j] = pcall[j],
         loop[j] = "dialing" => stage'[cur[j]] = stage[cur[j]]
  PROVE  Same(j)
  BY DEF Same, lineOf, onOf, SettingUp, Clearing

(* A dial in progress works on an object of its own. *)
LEMMA DialsApart ==
  ASSUME IndInv, NEW j \in Conn, NEW k \in Conn, j # k,
         loop[j] = "dialing", loop[k] = "dialing"
  PROVE  cur[j] # cur[k]
  BY DEF IndInv, LoopsHold

-----------------------------------------------------------------------------
(***************************************************************************)
(* The steps of a read loop.                                               *)
(***************************************************************************)

LEMMA ConnectArrives ==
  ASSUME IndInv, NEW k \in Conn, Connect(k)
  PROVE  Line!Arrive(k)
  <1> USE DEF IndInv, TypeOK, LoopsHold, Connect, callVars
  <1>1. \A j \in Conn \ {k} : Same(j)
    BY Untouched
  <1>2. lineOf(k) = "absent" /\ lineOf(k)' = "idle" /\ onOf(k)' = None
    BY DEF lineOf, onOf, SettingUp, Clearing
  <1>3. Line!Goes(k, {"absent"}, "idle", None)
    BY <1>1, <1>2, Moves
  <1>4. QED
    BY <1>3 DEF Line!Arrive

LEMMA DialStartLifts ==
  ASSUME IndInv, NEW k \in Conn, DialStart(k)
  PROVE  Line!LiftReceiver(k)
  <1> USE DEF IndInv, TypeOK, LoopsHold, DialStart, callVars
  <1>1. \A j \in Conn \ {k} : Same(j)
    BY Untouched
  <1>2. lineOf(k) = "idle" /\ lineOf(k)' = "dialling" /\ onOf(k)' = None
    BY DEF lineOf, onOf, SettingUp, Clearing
  <1>3. Line!Goes(k, {"idle"}, "dialling", None)
    BY <1>1, <1>2, Moves
  <1>4. QED
    BY <1>3 DEF Line!LiftReceiver

LEMMA DialListenDials ==
  ASSUME IndInv, NEW k \in Conn, NEW c \in Call, DialListen(k, c)
  PROVE  Line!Dial(k, c)
  <1> USE DEF IndInv, TypeOK, LoopsHold, DialListen
  <1>1. \A j \in Conn \ {k} : Same(j)
    BY Untouched DEF Making
  <1>2. onOf(k) = None /\ lineOf(k) = "dialling"
    BY DEF lineOf, onOf, SettingUp, Clearing
  <1>3. c \notin Dialled /\ Dialled' = Dialled \cup {c}
    BY DEF Dialled, ObjectsAreMade
  <1>4. CASE loop' = [loop EXCEPT ![k] = "dialing"]
    <2>1. lineOf(k)' = "dialling" /\ onOf(k)' = c
      BY <1>4 DEF lineOf, onOf, SettingUp, Clearing
    <2>2. Line!Goes(k, {"dialling"}, "dialling", c)
      BY <1>1, <1>2, <2>1, Moves
    <2>3. QED
      BY <1>2, <1>3, <2>2 DEF Line!Dial, Dialled
  <1>5. CASE loop' = [loop EXCEPT ![k] = "reading"]
    <2>1. lineOf(k)' = "idle" /\ onOf(k)' = None
      BY <1>5 DEF lineOf, onOf, SettingUp, Clearing
    <2>2. Line!Goes(k, {"dialling"}, "idle", None)
      BY <1>1, <1>2, <2>1, Moves
    <2>3. QED
      BY <1>2, <1>3, <2>2 DEF Line!Dial, Dialled
  <1>6. QED
    BY <1>4, <1>5

LEMMA DialFailFails ==
  ASSUME IndInv, NEW k \in Conn, DialFail(k)
  PROVE  Line!Fail(k)
  <1> USE DEF IndInv, TypeOK, LoopsHold, DialFail
  <1>1. \A j \in Conn \ {k} : Same(j)
    BY Untouched, DialsApart
  <1>2. lineOf(k) = "dialling" /\ onOf(k) # None
    BY DEF lineOf, onOf, SettingUp, Clearing
  <1>3. lineOf(k)' = "idle" /\ onOf(k)' = None
    BY DEF lineOf, onOf, SettingUp, Clearing, PeersHold
  <1>4. Line!Goes(k, {"dialling"}, "idle", None)
    BY <1>1, <1>2, <1>3, Moves
  <1>5. QED
    BY <1>2, <1>4 DEF Line!Fail

LEMMA DialAttachAnswers ==
  ASSUME IndInv, NEW k \in Conn, DialAttach(k)
  PROVE  Line!Answer(k)
  <1> USE DEF IndInv, TypeOK, LoopsHold, DialAttach
  <1>1. \A j \in Conn \ {k} : Same(j)
    BY Untouched, DialsApart
  <1>2. lineOf(k) = "dialling" /\ onOf(k) = cur[k] /\ cur[k] # None
    BY DEF lineOf, onOf, SettingUp, Clearing
  <1>3. lineOf(k)' = "inCall" /\ onOf(k)' = cur[k]
    BY DEF lineOf, onOf, SettingUp, Clearing
  <1>4. Line!Goes(k, {"dialling"}, "inCall", cur[k])
    BY <1>1, <1>2, <1>3, Moves
  <1>5. QED
    BY <1>2, <1>4 DEF Line!Answer

LEMMA HangupStartHangsUp ==
  ASSUME IndInv, NEW k \in Conn, HangupStart(k)
  PROVE  Line!Hangup(k)
  <1> USE DEF IndInv, TypeOK, LoopsHold, HangupStart
  <1>1. \A j \in Conn \ {k} : Same(j)
    BY Untouched
  <1>2. lineOf(k) = "inCall" /\ lineOf(k)' = "clearing" /\ onOf(k)' = None
    BY DEF lineOf, onOf, SettingUp, Clearing
  <1>3. Line!Goes(k, {"inCall"}, "clearing", None)
    BY <1>1, <1>2, Moves
  <1>4. QED
    BY <1>3 DEF Line!Hangup

LEMMA DisconnectLeaves ==
  ASSUME IndInv, NEW k \in Conn, Disconnect(k)
  PROVE  Line!Leave(k)
  <1> USE DEF IndInv, TypeOK, LoopsHold, Disconnect, callVars
  <1>1. \A j \in Conn \ {k} : Same(j)
    BY Untouched
  <1>2. lineOf(k) \in {"idle", "inCall"} /\ lineOf(k)' = "gone" /\ onOf(k)' = None
    BY DEF lineOf, onOf, SettingUp, Clearing
  <1>3. Line!Goes(k, {"idle", "inCall"}, "gone", None)
    BY <1>1, <1>2, Moves
  <1>4. QED
    BY <1>3 DEF Line!Leave

(* The steps of a read loop between those: the line stays as it is.        *)
LEMMA ReadLoopStutters ==
  ASSUME IndInv, NEW k \in Conn,
         \/ Auth(k) \/ DialStore(k) \/ DialWire(k) \/ DialFinish(k) \/ HangupBye(k)
  PROVE  UNCHANGED Line!vars
  <1> USE DEF IndInv, TypeOK, LoopsHold
  <1>1. Dialled' = Dialled
    BY DEF Dialled, Auth, DialStore, DialWire, DialFinish, HangupBye, callVars
  <1>2. CASE Auth(k)
    BY <1>1, <1>2, Untouched, Stutter DEF Auth, callVars
  <1>3. CASE HangupBye(k)
    BY <1>1, <1>3, Stutter DEF HangupBye, callVars, Same, lineOf, onOf,
                               SettingUp, Clearing
  <1>4. ASSUME DialStore(k) \/ DialWire(k) \/ DialFinish(k)
        PROVE  \A j \in Conn \ {k} : Same(j)
    BY <1>4, Untouched, DialsApart DEF DialStore, DialWire, DialFinish, connVars
  <1>5. CASE DialStore(k) \/ DialWire(k)
    <2>1. Same(k)
      BY <1>5 DEF DialStore, DialWire, connVars, Same, lineOf, onOf, SettingUp,
                  Clearing
    <2>2. QED
      BY <1>1, <1>4, <1>5, <2>1, Stutter
  <1>6. CASE DialFinish(k)
    <2>1. Same(k)
      BY <1>6 DEF DialFinish, Same, lineOf, onOf, SettingUp, Clearing
    <2>2. QED
      BY <1>1, <1>4, <1>6, <2>1, Stutter
  <1>7. QED
    BY <1>2, <1>3, <1>5, <1>6

-----------------------------------------------------------------------------
(***************************************************************************)
(* The ends of a call.                                                     *)
(***************************************************************************)

(* peer.call of at most one connection points into a dialog.               *)
LEMMA OneHolds ==
  ASSUME IndInv, NEW d \in Call, NEW k \in Conn, HoldsDialog(k, d)
  PROVE  pcall[k] = d /\ owner[d] = k
  BY DEF IndInv, TypeOK, HoldsDialog, ObjectsAreMade, PeersHold

(* endCall makes at most one line idle: the one that dialled the call.     *)
LEMMA EndCallEnds ==
  ASSUME IndInv, NEW d \in Call, EndCallLocked(d),
         UNCHANGED <<loop, cur, stage, owner>>
  PROVE  UNCHANGED Line!vars \/ \E k \in Conn : Line!RemoteEnd(k)
  <1> USE DEF IndInv, TypeOK, LoopsHold
  <1>1. Dialled' = Dialled
    BY DEF Dialled
  <1>2. CASE calls[d] = None \/ \A k \in Conn : ~ HoldsDialog(k, d)
    <2>1. pcall' = pcall
      BY <1>2 DEF EndCallLocked
    <2>2. QED
      BY <1>1, <2>1, Untouched, Stutter
  <1>3. ASSUME calls[d] # None, NEW k \in Conn, HoldsDialog(k, d)
        PROVE  Line!RemoteEnd(k)
    <2>1. \A j \in Conn \ {k} : pcall'[j] = pcall[j]
      BY <1>3, OneHolds DEF EndCallLocked
    <2>2. \A j \in Conn \ {k} : Same(j)
      BY <2>1, Untouched
    <2>3. pcall'[k] = None
      BY <1>3 DEF EndCallLocked
    <2>4. lineOf(k) = "inCall"
      BY <1>3 DEF HoldsDialog, PeersHold, lineOf, SettingUp, Clearing
    <2>5. lineOf(k)' = "idle" /\ onOf(k)' = None
      BY <1>3, <2>3 DEF HoldsDialog, PeersHold, lineOf, onOf, SettingUp, Clearing
    <2>6. Line!Goes(k, {"inCall"}, "idle", None)
      BY <2>2, <2>4, <2>5, Moves
    <2>7. QED
      BY <1>1, <2>6 DEF Line!RemoteEnd, Dialled
  <1>4. QED
    BY <1>2, <1>3

(* endCall called by a hangup takes the call from no line, and clears this *)
(* one at once when there is nothing to close.                             *)
LEMMA HangupEndClears ==
  ASSUME IndInv, NEW k \in Conn, HangupEnd(k)
  PROVE  UNCHANGED Line!vars \/ Line!Cleared(k)
  <1> USE DEF IndInv, TypeOK, LoopsHold
  <1>1. Dialled' = Dialled
    BY DEF Dialled, HangupEnd
  <1>2. cur[k] \in Call /\ owner[cur[k]] = k /\ cid[cur[k]] = cur[k]
    BY DEF HangupEnd, ObjectsAreMade
  <1>3. pcall' = pcall
    <2>1. \A j \in Conn : ~ HoldsDialog(j, cur[k])
      BY <1>2, OneHolds DEF HangupEnd
    <2>2. QED
      BY <1>2, <2>1 DEF HangupEnd, EndCallLocked
  <1>4. \A j \in Conn \ {k} : Same(j)
    BY <1>3, Untouched DEF HangupEnd
  <1>5. lineOf(k) = "clearing" /\ onOf(k) = None /\ pcall[k] = None
    BY DEF HangupEnd, lineOf, onOf, Clearing
  <1>6. CASE loop' = [loop EXCEPT ![k] = "closing"]
    <2>1. Same(k)
      BY <1>5, <1>6 DEF Same, lineOf, onOf, Clearing
    <2>2. QED
      BY <1>1, <1>4, <2>1, Stutter
  <1>7. CASE loop' = [loop EXCEPT ![k] = "reading"]
    <2>1. lineOf(k)' = "idle" /\ onOf(k)' = None
      BY <1>3, <1>5, <1>7 DEF lineOf, onOf, Clearing, SettingUp
    <2>2. Line!Goes(k, {"clearing"}, "idle", None)
      BY <1>4, <1>5, <2>1, Moves
    <2>3. QED
      BY <1>1, <2>2 DEF Line!Cleared, Dialled
  <1>8. QED
    BY <1>6, <1>7 DEF HangupEnd

(* The end of endCall clears the line whose hangup waits for it.           *)
LEMMA CloseCallClears ==
  ASSUME IndInv, NEW c \in Call, CloseCall(c)
  PROVE  UNCHANGED Line!vars \/ \E k \in Conn : Line!Cleared(k)
  <1> USE DEF IndInv, TypeOK, LoopsHold
  <1>1. Dialled' = Dialled
    BY DEF Dialled, CloseCall
  <1>2. CASE \A k \in Conn : ~ (loop[k] = "closing" /\ cur[k] = c)
    BY <1>1, <1>2, Untouched, Stutter DEF CloseCall
  <1>3. ASSUME NEW k \in Conn, loop[k] = "closing", cur[k] = c
        PROVE  Line!Cleared(k)
    <2>1. \A j \in Conn \ {k} : ~ (loop[j] = "closing" /\ cur[j] = c)
      BY <1>3 DEF ClosingIsExclusive
    <2>2. \A j \in Conn \ {k} : Same(j)
      BY <2>1, Untouched DEF CloseCall
    <2>3. lineOf(k) = "clearing" /\ pcall[k] = None
      BY <1>3 DEF lineOf, Clearing
    <2>4. lineOf(k)' = "idle" /\ onOf(k)' = None
      BY <1>3, <2>3 DEF CloseCall, lineOf, onOf, Clearing, SettingUp
    <2>5. Line!Goes(k, {"clearing"}, "idle", None)
      BY <2>2, <2>3, <2>4, Moves
    <2>6. QED
      BY <1>1, <2>5 DEF Line!Cleared, Dialled
  <1>4. QED
    BY <1>2, <1>3

-----------------------------------------------------------------------------
(* The PBX, the forwarders and the handler of INVITEs move no line.        *)
LEMMA OthersStutter ==
  ASSUME IndInv,
         \/ \E k \in Conn : PeerFailed(k)
         \/ \E c \in Call : \/ AsyncBye(c) \/ ForwarderExit(c) \/ InviteStore(c)
                            \/ InviteAnswer(c) \/ PbxAnswer(c)
         \/ \E d, c \in Call : OnSIPInvite(d, c)
         \/ UNCHANGED vars
  PROVE  UNCHANGED Line!vars
  <1> USE DEF IndInv, TypeOK, LoopsHold, connVars, callVars, Making
  <1>1. Dialled' = Dialled /\ UNCHANGED <<loop, cur, pcall>>
    BY DEF Dialled, PeerFailed, AsyncBye, ForwarderExit, InviteStore, InviteAnswer,
           PbxAnswer, OnSIPInvite, vars
  <1>2. \A j \in Conn : loop[j] = "dialing" => stage'[cur[j]] = stage[cur[j]]
    BY DEF PeerFailed, AsyncBye, ForwarderExit, InviteStore, InviteAnswer,
           PbxAnswer, OnSIPInvite, vars
  <1>3. QED
    BY <1>1, <1>2, Untouched, Stutter

(* The gateway starts with every line absent.                              *)
LEMMA LinesStart == Init => Line!Init
  BY DEF Init, Line!Init, lineOf, onOf

(* Every step of the gateway is a step of one line or of none.             *)
LEMMA LinesStep == IndInv /\ [Next]_vars => [Line!Next]_(Line!vars)
  <1> SUFFICES ASSUME IndInv, [Next]_vars
               PROVE  Line!Next \/ UNCHANGED Line!vars
    OBVIOUS
  <1>1. ASSUME NEW k \in Conn, ReadLoop(k)
        PROVE  Line!Next \/ UNCHANGED Line!vars
    BY <1>1, ConnectArrives, DialStartLifts, DialListenDials, DialFailFails,
       DialAttachAnswers, HangupStartHangsUp, DisconnectLeaves, HangupEndClears,
       ReadLoopStutters
    DEF ReadLoop, Line!Next
  <1>2. ASSUME NEW c \in Call, AsyncEndCall(c) \/ OnSIPBye(c) \/ CloseCall(c)
        PROVE  Line!Next \/ UNCHANGED Line!vars
    BY <1>2, EndCallEnds, CloseCallClears DEF AsyncEndCall, OnSIPBye, Line!Next
  <1>3. QED
    BY <1>1, <1>2, OthersStutter DEF Next, Background

(* The gateway implements the lines: whatever dials, hangups, BYEs,        *)
(* INVITEs and removed peers do to each other, a browser connection        *)
(* carries one call at a time, each call is dialled once and by one        *)
(* connection, and a hangup always comes between two answered calls or     *)
(* the PBX's own end of the first (handleDial, handleHangup, endCall).     *)
THEOREM GatewayRefinesLines == Spec => LineSpec
  <1>1. QED
    BY LinesStart, LinesStep, GatewayInvariant, PTL DEF Spec, LineSpec, Line!Spec
==============================================================================
