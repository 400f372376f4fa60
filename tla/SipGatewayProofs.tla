-------------------------- MODULE SipGatewayProofs --------------------------
(***************************************************************************)
(* Proofs about SipGateway, for any number of connections, calls and RTP   *)
(* ports.  IndInv is inductive: one lemma below for each of its conjuncts, *)
(* one step for each action that can disturb the conjunct, and one for     *)
(* the actions that leave everything it speaks of unchanged.               *)
(***************************************************************************)
EXTENDS SipGateway, FiniteSetTheorems, WellFoundedInduction, TLAPS

(* startRTPListener binds a port of the range and moves the scan inside it. *)
LEMMA ListenerTypes ==
    ASSUME TypeOK, NEW c \in Call, startRTPListener(c)
    PROVE  /\ sock' \in [Call -> Port \cup {None}]
           /\ rtpPortCounter' \in Port
  <1>1. PICK p \in Port : /\ sock' = [sock EXCEPT ![c] = p]
                         /\ rtpPortCounter' = (p + 1) % PortCount
    BY DEF startRTPListener
  <1>2. sock' \in [Call -> Port \cup {None}]
    BY <1>1 DEF TypeOK
  <1>3. (p + 1) % PortCount \in 0 .. PortCount - 1
    BY PortCountAssumption DEF Port
  <1>4. QED
    BY <1>1, <1>2, <1>3 DEF Port

(* What the read loops hold survives every step. *)
LEMMA LoopsHoldStep ==
    ASSUME TypeOK, LoopsHold, ObjectsAreMade, PeersHold, [Next]_vars
    PROVE  LoopsHold'
  <1> USE NoneAssumption DEF TypeOK, LoopsHold, ObjectsAreMade, PeersHold,
          Making, connVars, callVars, taskVars, histVars
  <1>1. ASSUME NEW k \in Conn, Auth(k)
       PROVE  LoopsHold'
    BY <1>1 DEF Auth
  <1>2. ASSUME NEW c \in Call, AsyncBye(c) \/ ForwarderExit(c) \/ PbxAnswer(c)
       PROVE  LoopsHold'
    BY <1>2 DEF AsyncBye, ForwarderExit, PbxAnswer
  <1>3. ASSUME NEW k \in Conn, Connect(k) PROVE LoopsHold'
    BY <1>3 DEF Connect
  <1>4. ASSUME NEW k \in Conn, DialStart(k) PROVE LoopsHold'
    BY <1>4 DEF DialStart
  <1>5. ASSUME NEW k \in Conn, NEW c \in Call, DialListen(k, c) PROVE LoopsHold'
    BY <1>5 DEF DialListen, startRTPListener
  <1>6. ASSUME NEW k \in Conn, DialFail(k) PROVE LoopsHold'
    BY <1>6 DEF DialFail
  <1>7. ASSUME NEW k \in Conn, DialStore(k) PROVE LoopsHold'
    BY <1>7 DEF DialStore, StoreCall
  <1>8. ASSUME NEW k \in Conn, DialWire(k) PROVE LoopsHold'
    BY <1>8 DEF DialWire
  <1>9. ASSUME NEW k \in Conn, DialAttach(k) PROVE LoopsHold'
    BY <1>9 DEF DialAttach
  <1>10. ASSUME NEW k \in Conn, DialFinish(k) PROVE LoopsHold'
    BY <1>10 DEF DialFinish
  <1>11. ASSUME NEW k \in Conn, HangupStart(k) PROVE LoopsHold'
    BY <1>11 DEF HangupStart
  <1>12. ASSUME NEW k \in Conn, HangupBye(k) PROVE LoopsHold'
    BY <1>12 DEF HangupBye
  <1>13. ASSUME NEW k \in Conn, HangupEnd(k) PROVE LoopsHold'
    BY <1>13 DEF HangupEnd, EndCallLocked, HoldsDialog
  <1>14. ASSUME NEW k \in Conn, Disconnect(k) PROVE LoopsHold'
    BY <1>14 DEF Disconnect, RemovePeer
  <1>15. ASSUME NEW k \in Conn, PeerFailed(k) PROVE LoopsHold'
    BY <1>15 DEF PeerFailed, RemovePeer
  <1>16. ASSUME NEW c \in Call, CloseCall(c) PROVE LoopsHold'
    BY <1>16 DEF CloseCall
  <1>17. ASSUME NEW c \in Call, AsyncEndCall(c) PROVE LoopsHold'
    BY <1>17 DEF AsyncEndCall, EndCallLocked, HoldsDialog
  <1>18. ASSUME NEW c \in Call, OnSIPBye(c) PROVE LoopsHold'
    BY <1>18 DEF OnSIPBye, EndCallLocked, HoldsDialog
  <1>19. ASSUME NEW c \in Call, InviteStore(c) PROVE LoopsHold'
    BY <1>19 DEF InviteStore, StoreCall
  <1>20. ASSUME NEW c \in Call, InviteAnswer(c) PROVE LoopsHold'
    BY <1>20 DEF InviteAnswer
  <1>21. ASSUME NEW d \in Call, NEW c \in Call, OnSIPInvite(d, c) PROVE LoopsHold'
    BY <1>21 DEF OnSIPInvite, startRTPListener
  <1>22. CASE UNCHANGED vars
    BY <1>22 DEF vars
  <1>23. QED
    BY <1>1, <1>2, <1>3, <1>4, <1>5, <1>6, <1>7, <1>8, <1>9,
       <1>10, <1>11, <1>12, <1>13, <1>14, <1>15, <1>16, <1>17, <1>18, <1>19,
       <1>20, <1>21, <1>22
       DEF Next, ReadLoop, Background

(* Objects keep their maker and their dialog. *)
LEMMA ObjectsAreMadeStep ==
    ASSUME TypeOK, LoopsHold, ObjectsAreMade, PeersHold, EndingIsKnown, [Next]_vars
    PROVE  ObjectsAreMade'
  <1> USE NoneAssumption DEF TypeOK, LoopsHold, ObjectsAreMade, PeersHold,
          EndingIsKnown, Making, WasStored, connVars, callVars, taskVars,
          histVars
  <1>1. ASSUME NEW k \in Conn, Auth(k)
       PROVE  ObjectsAreMade'
    BY <1>1 DEF Auth
  <1>2. ASSUME NEW c \in Call, AsyncEndCall(c) \/ ForwarderExit(c) \/
             OnSIPBye(c) \/ PbxAnswer(c)
       PROVE  ObjectsAreMade'
    BY <1>2 DEF AsyncEndCall, ForwarderExit, OnSIPBye, PbxAnswer
  <1>3. ASSUME NEW k \in Conn, Connect(k) PROVE ObjectsAreMade'
    BY <1>3 DEF Connect
  <1>4. ASSUME NEW k \in Conn, DialStart(k) PROVE ObjectsAreMade'
    BY <1>4 DEF DialStart
  <1>5. ASSUME NEW k \in Conn, NEW c \in Call, DialListen(k, c) PROVE ObjectsAreMade'
    BY <1>5 DEF DialListen, startRTPListener
  <1>6. ASSUME NEW k \in Conn, DialFail(k) PROVE ObjectsAreMade'
    BY <1>6 DEF DialFail
  <1>7. ASSUME NEW k \in Conn, DialStore(k) PROVE ObjectsAreMade'
    BY <1>7 DEF DialStore, StoreCall
  <1>8. ASSUME NEW k \in Conn, DialWire(k) PROVE ObjectsAreMade'
    BY <1>8 DEF DialWire
  <1>9. ASSUME NEW k \in Conn, DialAttach(k) PROVE ObjectsAreMade'
    BY <1>9 DEF DialAttach
  <1>10. ASSUME NEW k \in Conn, DialFinish(k) PROVE ObjectsAreMade'
    BY <1>10 DEF DialFinish
  <1>11. ASSUME NEW k \in Conn, HangupStart(k) PROVE ObjectsAreMade'
    BY <1>11 DEF HangupStart
  <1>12. ASSUME NEW k \in Conn, HangupBye(k) PROVE ObjectsAreMade'
    BY <1>12 DEF HangupBye
  <1>13. ASSUME NEW k \in Conn, HangupEnd(k) PROVE ObjectsAreMade'
    BY <1>13 DEF HangupEnd, EndCallLocked, HoldsDialog
  <1>14. ASSUME NEW k \in Conn, Disconnect(k) PROVE ObjectsAreMade'
    BY <1>14 DEF Disconnect, RemovePeer
  <1>15. ASSUME NEW k \in Conn, PeerFailed(k) PROVE ObjectsAreMade'
    BY <1>15 DEF PeerFailed, RemovePeer
  <1>16. ASSUME NEW c \in Call, CloseCall(c) PROVE ObjectsAreMade'
    BY <1>16 DEF CloseCall
  <1>17. ASSUME NEW c \in Call, AsyncBye(c) PROVE ObjectsAreMade'
    BY <1>17 DEF AsyncBye
  <1>18. ASSUME NEW c \in Call, InviteStore(c) PROVE ObjectsAreMade'
    BY <1>18 DEF InviteStore, StoreCall
  <1>19. ASSUME NEW c \in Call, InviteAnswer(c) PROVE ObjectsAreMade'
    BY <1>19 DEF InviteAnswer
  <1>20. ASSUME NEW d \in Call, NEW c \in Call, OnSIPInvite(d, c) PROVE ObjectsAreMade'
    BY <1>20 DEF OnSIPInvite, startRTPListener
  <1>21. CASE UNCHANGED vars
    BY <1>21 DEF vars
  <1>22. QED
    BY <1>1, <1>2, <1>3, <1>4, <1>5, <1>6, <1>7, <1>8, <1>9,
       <1>10, <1>11, <1>12, <1>13, <1>14, <1>15, <1>16, <1>17, <1>18, <1>19,
       <1>20, <1>21
       DEF Next, ReadLoop, Background

(* peer.call keeps pointing to a call of its own connection. *)
LEMMA PeersHoldStep ==
    ASSUME TypeOK, LoopsHold, ObjectsAreMade, PeersHold, [Next]_vars
    PROVE  PeersHold'
  <1> USE NoneAssumption DEF TypeOK, LoopsHold, ObjectsAreMade, PeersHold,
          Making, connVars, callVars, taskVars, histVars
  <1>1. ASSUME NEW k \in Conn, Auth(k) \/ PeerFailed(k)
       PROVE  PeersHold'
    BY <1>1 DEF Auth, PeerFailed
  <1>2. ASSUME NEW c \in Call, AsyncBye(c) \/ ForwarderExit(c) \/ PbxAnswer(c)
       PROVE  PeersHold'
    BY <1>2 DEF AsyncBye, ForwarderExit, PbxAnswer
  <1>3. ASSUME NEW k \in Conn, Connect(k) PROVE PeersHold'
    BY <1>3 DEF Connect
  <1>4. ASSUME NEW k \in Conn, DialStart(k) PROVE PeersHold'
    BY <1>4 DEF DialStart
  <1>5. ASSUME NEW k \in Conn, NEW c \in Call, DialListen(k, c) PROVE PeersHold'
    BY <1>5 DEF DialListen, startRTPListener
  <1>6. ASSUME NEW k \in Conn, DialFail(k) PROVE PeersHold'
    BY <1>6 DEF DialFail
  <1>7. ASSUME NEW k \in Conn, DialStore(k) PROVE PeersHold'
    BY <1>7 DEF DialStore, StoreCall
  <1>8. ASSUME NEW k \in Conn, DialWire(k) PROVE PeersHold'
    BY <1>8 DEF DialWire
  <1>9. ASSUME NEW k \in Conn, DialAttach(k) PROVE PeersHold'
    BY <1>9 DEF DialAttach
  <1>10. ASSUME NEW k \in Conn, DialFinish(k) PROVE PeersHold'
    BY <1>10 DEF DialFinish
  <1>11. ASSUME NEW k \in Conn, HangupStart(k) PROVE PeersHold'
    BY <1>11 DEF HangupStart
  <1>12. ASSUME NEW k \in Conn, HangupBye(k) PROVE PeersHold'
    BY <1>12 DEF HangupBye
  <1>13. ASSUME NEW k \in Conn, HangupEnd(k) PROVE PeersHold'
    BY <1>13 DEF HangupEnd, EndCallLocked, HoldsDialog
  <1>14. ASSUME NEW k \in Conn, Disconnect(k) PROVE PeersHold'
    BY <1>14 DEF Disconnect, RemovePeer
  <1>15. ASSUME NEW c \in Call, CloseCall(c) PROVE PeersHold'
    BY <1>15 DEF CloseCall
  <1>16. ASSUME NEW c \in Call, AsyncEndCall(c) PROVE PeersHold'
    BY <1>16 DEF AsyncEndCall, EndCallLocked, HoldsDialog
  <1>17. ASSUME NEW c \in Call, OnSIPBye(c) PROVE PeersHold'
    BY <1>17 DEF OnSIPBye, EndCallLocked, HoldsDialog
  <1>18. ASSUME NEW c \in Call, InviteStore(c) PROVE PeersHold'
    BY <1>18 DEF InviteStore, StoreCall
  <1>19. ASSUME NEW c \in Call, InviteAnswer(c) PROVE PeersHold'
    BY <1>19 DEF InviteAnswer
  <1>20. ASSUME NEW d \in Call, NEW c \in Call, OnSIPInvite(d, c) PROVE PeersHold'
    BY <1>20 DEF OnSIPInvite, startRTPListener
  <1>21. CASE UNCHANGED vars
    BY <1>21 DEF vars
  <1>22. QED
    BY <1>1, <1>2, <1>3, <1>4, <1>5, <1>6, <1>7, <1>8, <1>9,
       <1>10, <1>11, <1>12, <1>13, <1>14, <1>15, <1>16, <1>17, <1>18, <1>19,
       <1>20, <1>21
       DEF Next, ReadLoop, Background

(* gw.calls keeps mapping Call-IDs to objects that carry them. *)
LEMMA RegistryMatchesStep ==
    ASSUME TypeOK, LoopsHold, ObjectsAreMade, RegistryMatches, [Next]_vars
    PROVE  RegistryMatches'
  <1> USE NoneAssumption DEF TypeOK, LoopsHold, ObjectsAreMade,
          RegistryMatches, Making, WasStored, connVars, callVars, taskVars,
          histVars
  <1>1. ASSUME NEW k \in Conn, Connect(k) \/ Auth(k) \/ DialStart(k) \/
             HangupStart(k) \/ HangupBye(k) \/ Disconnect(k) \/ PeerFailed(k)
       PROVE  RegistryMatches'
    BY <1>1 DEF Connect, Auth, DialStart, HangupStart, HangupBye, Disconnect,
       PeerFailed
  <1>2. ASSUME NEW c \in Call, CloseCall(c) \/ AsyncBye(c) \/ ForwarderExit(c) \/
             PbxAnswer(c)
       PROVE  RegistryMatches'
    BY <1>2 DEF CloseCall, AsyncBye, ForwarderExit, PbxAnswer
  <1>3. ASSUME NEW k \in Conn, NEW c \in Call, DialListen(k, c) PROVE RegistryMatches'
    BY <1>3 DEF DialListen, startRTPListener
  <1>4. ASSUME NEW k \in Conn, DialFail(k) PROVE RegistryMatches'
    BY <1>4 DEF DialFail
  <1>5. ASSUME NEW k \in Conn, DialStore(k) PROVE RegistryMatches'
    BY <1>5 DEF DialStore, StoreCall
  <1>6. ASSUME NEW k \in Conn, DialWire(k) PROVE RegistryMatches'
    BY <1>6 DEF DialWire
  <1>7. ASSUME NEW k \in Conn, DialAttach(k) PROVE RegistryMatches'
    BY <1>7 DEF DialAttach
  <1>8. ASSUME NEW k \in Conn, DialFinish(k) PROVE RegistryMatches'
    BY <1>8 DEF DialFinish
  <1>9. ASSUME NEW k \in Conn, HangupEnd(k) PROVE RegistryMatches'
    BY <1>9 DEF HangupEnd, EndCallLocked, HoldsDialog
  <1>10. ASSUME NEW c \in Call, AsyncEndCall(c) PROVE RegistryMatches'
    BY <1>10 DEF AsyncEndCall, EndCallLocked, HoldsDialog
  <1>11. ASSUME NEW c \in Call, OnSIPBye(c) PROVE RegistryMatches'
    BY <1>11 DEF OnSIPBye, EndCallLocked, HoldsDialog
  <1>12. ASSUME NEW c \in Call, InviteStore(c) PROVE RegistryMatches'
    BY <1>12 DEF InviteStore, StoreCall
  <1>13. ASSUME NEW c \in Call, InviteAnswer(c) PROVE RegistryMatches'
    BY <1>13 DEF InviteAnswer
  <1>14. ASSUME NEW d \in Call, NEW c \in Call, OnSIPInvite(d, c) PROVE RegistryMatches'
    BY <1>14 DEF OnSIPInvite, startRTPListener
  <1>15. CASE UNCHANGED vars
    BY <1>15 DEF vars
  <1>16. QED
    BY <1>1, <1>2, <1>3, <1>4, <1>5, <1>6, <1>7, <1>8, <1>9,
       <1>10, <1>11, <1>12, <1>13, <1>14, <1>15
       DEF Next, ReadLoop, Background

(* A registered dialled call stays in the hands of its connection. *)
LEMMA RegisteredIsHeldStep ==
    ASSUME TypeOK, LoopsHold, ObjectsAreMade, PeersHold, RegistryMatches, RegisteredIsHeld, [Next]_vars
    PROVE  RegisteredIsHeld'
  <1> USE NoneAssumption DEF TypeOK, LoopsHold, ObjectsAreMade, PeersHold,
          RegistryMatches, RegisteredIsHeld, Registered, Making, WasStored,
          connVars, callVars, taskVars, histVars
  <1>1. ASSUME NEW k \in Conn, Auth(k) \/ PeerFailed(k)
       PROVE  RegisteredIsHeld'
    BY <1>1 DEF Auth, PeerFailed
  <1>2. ASSUME NEW c \in Call, AsyncBye(c) \/ ForwarderExit(c) \/ PbxAnswer(c)
       PROVE  RegisteredIsHeld'
    BY <1>2 DEF AsyncBye, ForwarderExit, PbxAnswer
  <1>3. ASSUME NEW k \in Conn, Connect(k) PROVE RegisteredIsHeld'
    BY <1>3 DEF Connect
  <1>4. ASSUME NEW k \in Conn, DialStart(k) PROVE RegisteredIsHeld'
    BY <1>4 DEF DialStart
  <1>5. ASSUME NEW k \in Conn, NEW c \in Call, DialListen(k, c) PROVE RegisteredIsHeld'
    BY <1>5 DEF DialListen, startRTPListener
  <1>6. ASSUME NEW k \in Conn, DialFail(k) PROVE RegisteredIsHeld'
    BY <1>6 DEF DialFail
  <1>7. ASSUME NEW k \in Conn, DialStore(k) PROVE RegisteredIsHeld'
    BY <1>7 DEF DialStore, StoreCall
  <1>8. ASSUME NEW k \in Conn, DialWire(k) PROVE RegisteredIsHeld'
    BY <1>8 DEF DialWire
  <1>9. ASSUME NEW k \in Conn, DialAttach(k) PROVE RegisteredIsHeld'
    BY <1>9 DEF DialAttach
  <1>10. ASSUME NEW k \in Conn, DialFinish(k) PROVE RegisteredIsHeld'
    BY <1>10 DEF DialFinish
  <1>11. ASSUME NEW k \in Conn, HangupStart(k) PROVE RegisteredIsHeld'
    BY <1>11 DEF HangupStart
  <1>12. ASSUME NEW k \in Conn, HangupBye(k) PROVE RegisteredIsHeld'
    BY <1>12 DEF HangupBye
  <1>13. ASSUME NEW k \in Conn, HangupEnd(k) PROVE RegisteredIsHeld'
    BY <1>13 DEF HangupEnd, EndCallLocked, HoldsDialog
  <1>14. ASSUME NEW k \in Conn, Disconnect(k) PROVE RegisteredIsHeld'
    BY <1>14 DEF Disconnect, RemovePeer
  <1>15. ASSUME NEW c \in Call, CloseCall(c) PROVE RegisteredIsHeld'
    BY <1>15 DEF CloseCall
  <1>16. ASSUME NEW c \in Call, AsyncEndCall(c) PROVE RegisteredIsHeld'
    BY <1>16 DEF AsyncEndCall, EndCallLocked, HoldsDialog
  <1>17. ASSUME NEW c \in Call, OnSIPBye(c) PROVE RegisteredIsHeld'
    BY <1>17 DEF OnSIPBye, EndCallLocked, HoldsDialog
  <1>18. ASSUME NEW c \in Call, InviteStore(c) PROVE RegisteredIsHeld'
    BY <1>18 DEF InviteStore, StoreCall
  <1>19. ASSUME NEW c \in Call, InviteAnswer(c) PROVE RegisteredIsHeld'
    BY <1>19 DEF InviteAnswer
  <1>20. ASSUME NEW d \in Call, NEW c \in Call, OnSIPInvite(d, c) PROVE RegisteredIsHeld'
    BY <1>20 DEF OnSIPInvite, startRTPListener
  <1>21. CASE UNCHANGED vars
    BY <1>21 DEF vars
  <1>22. QED
    BY <1>1, <1>2, <1>3, <1>4, <1>5, <1>6, <1>7, <1>8, <1>9,
       <1>10, <1>11, <1>12, <1>13, <1>14, <1>15, <1>16, <1>17, <1>18, <1>19,
       <1>20, <1>21
       DEF Next, ReadLoop, Background

(* What endCall has taken out keeps its history. *)
LEMMA EndingIsKnownStep ==
    ASSUME TypeOK, LoopsHold, ObjectsAreMade, RegistryMatches, EndingIsKnown, [Next]_vars
    PROVE  EndingIsKnown'
  <1> USE NoneAssumption DEF TypeOK, LoopsHold, ObjectsAreMade,
          RegistryMatches, EndingIsKnown, Making, WasStored, connVars,
          callVars, taskVars, histVars
  <1>1. ASSUME NEW k \in Conn, Connect(k) \/ Auth(k) \/ DialStart(k) \/
             HangupStart(k) \/ HangupBye(k) \/ Disconnect(k) \/ PeerFailed(k)
       PROVE  EndingIsKnown'
    BY <1>1 DEF Connect, Auth, DialStart, HangupStart, HangupBye, Disconnect,
       PeerFailed
  <1>2. ASSUME NEW c \in Call, AsyncBye(c) \/ ForwarderExit(c) \/ PbxAnswer(c)
       PROVE  EndingIsKnown'
    BY <1>2 DEF AsyncBye, ForwarderExit, PbxAnswer
  <1>3. ASSUME NEW k \in Conn, NEW c \in Call, DialListen(k, c) PROVE EndingIsKnown'
    BY <1>3 DEF DialListen, startRTPListener
  <1>4. ASSUME NEW k \in Conn, DialFail(k) PROVE EndingIsKnown'
    BY <1>4 DEF DialFail
  <1>5. ASSUME NEW k \in Conn, DialStore(k) PROVE EndingIsKnown'
    BY <1>5 DEF DialStore, StoreCall
  <1>6. ASSUME NEW k \in Conn, DialWire(k) PROVE EndingIsKnown'
    BY <1>6 DEF DialWire
  <1>7. ASSUME NEW k \in Conn, DialAttach(k) PROVE EndingIsKnown'
    BY <1>7 DEF DialAttach
  <1>8. ASSUME NEW k \in Conn, DialFinish(k) PROVE EndingIsKnown'
    BY <1>8 DEF DialFinish
  <1>9. ASSUME NEW k \in Conn, HangupEnd(k) PROVE EndingIsKnown'
    BY <1>9 DEF HangupEnd, EndCallLocked, HoldsDialog
  <1>10. ASSUME NEW c \in Call, CloseCall(c) PROVE EndingIsKnown'
    BY <1>10 DEF CloseCall
  <1>11. ASSUME NEW c \in Call, AsyncEndCall(c) PROVE EndingIsKnown'
    BY <1>11 DEF AsyncEndCall, EndCallLocked, HoldsDialog
  <1>12. ASSUME NEW c \in Call, OnSIPBye(c) PROVE EndingIsKnown'
    BY <1>12 DEF OnSIPBye, EndCallLocked, HoldsDialog
  <1>13. ASSUME NEW c \in Call, InviteStore(c) PROVE EndingIsKnown'
    BY <1>13 DEF InviteStore, StoreCall
  <1>14. ASSUME NEW c \in Call, InviteAnswer(c) PROVE EndingIsKnown'
    BY <1>14 DEF InviteAnswer
  <1>15. ASSUME NEW d \in Call, NEW c \in Call, OnSIPInvite(d, c) PROVE EndingIsKnown'
    BY <1>15 DEF OnSIPInvite, startRTPListener
  <1>16. CASE UNCHANGED vars
    BY <1>16 DEF vars
  <1>17. QED
    BY <1>1, <1>2, <1>3, <1>4, <1>5, <1>6, <1>7, <1>8, <1>9,
       <1>10, <1>11, <1>12, <1>13, <1>14, <1>15, <1>16
       DEF Next, ReadLoop, Background

(* No object leaves gw.calls unnoticed. *)
LEMMA StoredIsAccountedForStep ==
    ASSUME TypeOK, LoopsHold, ObjectsAreMade, RegistryMatches, EndingIsKnown, StoredIsAccountedFor, [Next]_vars
    PROVE  StoredIsAccountedFor'
  <1> USE NoneAssumption DEF TypeOK, LoopsHold, ObjectsAreMade,
          RegistryMatches, EndingIsKnown, StoredIsAccountedFor, Registered,
          Making, WasStored, connVars, callVars, taskVars, histVars
  <1>1. ASSUME NEW k \in Conn, Connect(k) \/ Auth(k) \/ DialStart(k) \/
             HangupStart(k) \/ HangupBye(k) \/ Disconnect(k) \/ PeerFailed(k)
       PROVE  StoredIsAccountedFor'
    BY <1>1 DEF Connect, Auth, DialStart, HangupStart, HangupBye, Disconnect,
       PeerFailed
  <1>2. ASSUME NEW c \in Call, AsyncBye(c) \/ ForwarderExit(c) \/ PbxAnswer(c)
       PROVE  StoredIsAccountedFor'
    BY <1>2 DEF AsyncBye, ForwarderExit, PbxAnswer
  <1>3. ASSUME NEW k \in Conn, NEW c \in Call, DialListen(k, c) PROVE StoredIsAccountedFor'
    BY <1>3 DEF DialListen, startRTPListener
  <1>4. ASSUME NEW k \in Conn, DialFail(k) PROVE StoredIsAccountedFor'
    BY <1>4 DEF DialFail
  <1>5. ASSUME NEW k \in Conn, DialStore(k) PROVE StoredIsAccountedFor'
    BY <1>5 DEF DialStore, StoreCall
  <1>6. ASSUME NEW k \in Conn, DialWire(k) PROVE StoredIsAccountedFor'
    BY <1>6 DEF DialWire
  <1>7. ASSUME NEW k \in Conn, DialAttach(k) PROVE StoredIsAccountedFor'
    BY <1>7 DEF DialAttach
  <1>8. ASSUME NEW k \in Conn, DialFinish(k) PROVE StoredIsAccountedFor'
    BY <1>8 DEF DialFinish
  <1>9. ASSUME NEW k \in Conn, HangupEnd(k) PROVE StoredIsAccountedFor'
    BY <1>9 DEF HangupEnd, EndCallLocked, HoldsDialog
  <1>10. ASSUME NEW c \in Call, CloseCall(c) PROVE StoredIsAccountedFor'
    BY <1>10 DEF CloseCall
  <1>11. ASSUME NEW c \in Call, AsyncEndCall(c) PROVE StoredIsAccountedFor'
    BY <1>11 DEF AsyncEndCall, EndCallLocked, HoldsDialog
  <1>12. ASSUME NEW c \in Call, OnSIPBye(c) PROVE StoredIsAccountedFor'
    BY <1>12 DEF OnSIPBye, EndCallLocked, HoldsDialog
  <1>13. ASSUME NEW c \in Call, InviteStore(c) PROVE StoredIsAccountedFor'
    BY <1>13 DEF InviteStore, StoreCall
  <1>14. ASSUME NEW c \in Call, InviteAnswer(c) PROVE StoredIsAccountedFor'
    BY <1>14 DEF InviteAnswer
  <1>15. ASSUME NEW d \in Call, NEW c \in Call, OnSIPInvite(d, c) PROVE StoredIsAccountedFor'
    BY <1>15 DEF OnSIPInvite, startRTPListener
  <1>16. CASE UNCHANGED vars
    BY <1>16 DEF vars
  <1>17. QED
    BY <1>1, <1>2, <1>3, <1>4, <1>5, <1>6, <1>7, <1>8, <1>9,
       <1>10, <1>11, <1>12, <1>13, <1>14, <1>15, <1>16
       DEF Next, ReadLoop, Background

(* A busy line stays a line with a live call. *)
LEMMA BusyLineIsLiveStep ==
    ASSUME TypeOK, LoopsHold, ObjectsAreMade, PeersHold, RegistryMatches, StoredIsAccountedFor, BusyLineIsLive, [Next]_vars
    PROVE  BusyLineIsLive'
  <1> USE NoneAssumption DEF TypeOK, LoopsHold, ObjectsAreMade, PeersHold,
          RegistryMatches, StoredIsAccountedFor, BusyLineIsLive, Registered,
          Making, WasStored, connVars, callVars, taskVars, histVars
  <1>1. ASSUME NEW k \in Conn, Auth(k) \/ DialStart(k) \/ DialFail(k) \/
             DialWire(k) \/ DialFinish(k) \/ HangupBye(k)
       PROVE  BusyLineIsLive'
    BY <1>1 DEF Auth, DialStart, DialFail, DialWire, DialFinish, HangupBye
  <1>2. ASSUME NEW c \in Call, CloseCall(c) \/ AsyncBye(c) \/ ForwarderExit(c) \/
             InviteAnswer(c) \/ PbxAnswer(c)
       PROVE  BusyLineIsLive'
    BY <1>2 DEF CloseCall, AsyncBye, ForwarderExit, InviteAnswer, PbxAnswer
  <1>3. ASSUME NEW k \in Conn, Connect(k) PROVE BusyLineIsLive'
    BY <1>3 DEF Connect
  <1>4. ASSUME NEW k \in Conn, NEW c \in Call, DialListen(k, c) PROVE BusyLineIsLive'
    BY <1>4 DEF DialListen, startRTPListener
  <1>5. ASSUME NEW k \in Conn, DialStore(k) PROVE BusyLineIsLive'
    BY <1>5 DEF DialStore, StoreCall
  <1>6. ASSUME NEW k \in Conn, DialAttach(k) PROVE BusyLineIsLive'
    BY <1>6 DEF DialAttach
  <1>7. ASSUME NEW k \in Conn, HangupStart(k) PROVE BusyLineIsLive'
    BY <1>7 DEF HangupStart
  <1>8. ASSUME NEW k \in Conn, HangupEnd(k) PROVE BusyLineIsLive'
    BY <1>8 DEF HangupEnd, EndCallLocked, HoldsDialog
  <1>9. ASSUME NEW k \in Conn, Disconnect(k) PROVE BusyLineIsLive'
    BY <1>9 DEF Disconnect, RemovePeer
  <1>10. ASSUME NEW k \in Conn, PeerFailed(k) PROVE BusyLineIsLive'
    BY <1>10 DEF PeerFailed, RemovePeer
  <1>11. ASSUME NEW c \in Call, AsyncEndCall(c) PROVE BusyLineIsLive'
    BY <1>11 DEF AsyncEndCall, EndCallLocked, HoldsDialog
  <1>12. ASSUME NEW c \in Call, OnSIPBye(c) PROVE BusyLineIsLive'
    BY <1>12 DEF OnSIPBye, EndCallLocked, HoldsDialog
  <1>13. ASSUME NEW c \in Call, InviteStore(c) PROVE BusyLineIsLive'
    BY <1>13 DEF InviteStore, StoreCall
  <1>14. ASSUME NEW d \in Call, NEW c \in Call, OnSIPInvite(d, c) PROVE BusyLineIsLive'
    BY <1>14 DEF OnSIPInvite, startRTPListener
  <1>15. CASE UNCHANGED vars
    BY <1>15 DEF vars
  <1>16. QED
    BY <1>1, <1>2, <1>3, <1>4, <1>5, <1>6, <1>7, <1>8, <1>9,
       <1>10, <1>11, <1>12, <1>13, <1>14, <1>15
       DEF Next, ReadLoop, Background

(* Dialogs keep their names. *)
LEMMA DialogsAreNamedStep ==
    ASSUME TypeOK, LoopsHold, ObjectsAreMade, PeersHold, DialogsAreNamed,
           ByesEnd, [Next]_vars
    PROVE  DialogsAreNamed'
  <1> USE NoneAssumption DEF TypeOK, LoopsHold, ObjectsAreMade, PeersHold,
          DialogsAreNamed, Making, connVars, callVars, taskVars, histVars
  <1>1. ASSUME NEW k \in Conn, Connect(k) PROVE DialogsAreNamed'
    BY <1>1 DEF Connect
  <1>2. ASSUME NEW k \in Conn, Auth(k) \/ DialStart(k) PROVE DialogsAreNamed'
    BY <1>2 DEF Auth, DialStart
  <1>3. ASSUME NEW k \in Conn, NEW c \in Call, DialListen(k, c) PROVE DialogsAreNamed'
    BY <1>3 DEF DialListen, startRTPListener
  <1>4. ASSUME NEW k \in Conn, DialFail(k) PROVE DialogsAreNamed'
    BY <1>4 DEF DialFail
  <1>5. ASSUME NEW k \in Conn, DialStore(k) PROVE DialogsAreNamed'
    BY <1>5 DEF DialStore, StoreCall
  <1>6. ASSUME NEW k \in Conn, DialWire(k) \/ DialFinish(k) PROVE DialogsAreNamed'
    BY <1>6 DEF DialWire, DialFinish
  <1>7. ASSUME NEW k \in Conn, DialAttach(k) PROVE DialogsAreNamed'
    BY <1>7 DEF DialAttach
  <1>8. ASSUME NEW k \in Conn, HangupStart(k) PROVE DialogsAreNamed'
    BY <1>8 DEF HangupStart
  <1>9. ASSUME NEW k \in Conn, HangupBye(k) PROVE DialogsAreNamed'
    BY <1>9 DEF HangupBye, SendBye
  <1>10. ASSUME NEW k \in Conn, HangupEnd(k) PROVE DialogsAreNamed'
    BY <1>10 DEF HangupEnd, EndCallLocked, HoldsDialog
  <1>11. ASSUME NEW k \in Conn, Disconnect(k) PROVE DialogsAreNamed'
    BY <1>11 DEF Disconnect, RemovePeer
  <1>12. ASSUME NEW k \in Conn, PeerFailed(k) PROVE DialogsAreNamed'
    BY <1>12 DEF PeerFailed, RemovePeer
  <1>13. ASSUME NEW c \in Call, CloseCall(c) PROVE DialogsAreNamed'
    BY <1>13 DEF CloseCall
  <1>14. ASSUME NEW c \in Call, AsyncEndCall(c) PROVE DialogsAreNamed'
    BY <1>14 DEF AsyncEndCall, EndCallLocked, HoldsDialog
  <1>15. ASSUME NEW c \in Call, AsyncBye(c) PROVE DialogsAreNamed'
    BY <1>15 DEF AsyncBye, SendBye, ByesEnd
  <1>16. ASSUME NEW c \in Call, ForwarderExit(c) PROVE DialogsAreNamed'
    BY <1>16 DEF ForwarderExit
  <1>17. ASSUME NEW c \in Call, OnSIPBye(c) PROVE DialogsAreNamed'
    BY <1>17 DEF OnSIPBye, EndCallLocked, HoldsDialog
  <1>18. ASSUME NEW c \in Call, InviteStore(c) PROVE DialogsAreNamed'
    BY <1>18 DEF InviteStore, StoreCall
  <1>19. ASSUME NEW c \in Call, InviteAnswer(c) PROVE DialogsAreNamed'
    BY <1>19 DEF InviteAnswer
  <1>20. ASSUME NEW c \in Call, PbxAnswer(c) PROVE DialogsAreNamed'
    BY <1>20 DEF PbxAnswer
  <1>21. ASSUME NEW d \in Call, NEW c \in Call, OnSIPInvite(d, c) PROVE DialogsAreNamed'
    BY <1>21 DEF OnSIPInvite, startRTPListener
  <1>22. CASE UNCHANGED vars
    BY <1>22 DEF vars
  <1>23. QED
    BY <1>1, <1>2, <1>3, <1>4, <1>5, <1>6, <1>7, <1>8, <1>9, <1>10,
       <1>11, <1>12, <1>13, <1>14, <1>15, <1>16, <1>17, <1>18, <1>19, <1>20, <1>21, <1>22
       DEF Next, ReadLoop, Background

(* The BYE of removePeer goes with an endCall. *)
LEMMA ByesEndStep ==
    ASSUME TypeOK, LoopsHold, ObjectsAreMade, PeersHold, RegistryMatches,
           DialogsAreNamed, ByesEnd,
           [Next]_vars
    PROVE  ByesEnd'
  <1> USE NoneAssumption DEF TypeOK, LoopsHold, ObjectsAreMade, PeersHold,
          RegistryMatches, DialogsAreNamed, ByesEnd, Making, WasStored,
          connVars, callVars, taskVars, histVars
  <1>1. ASSUME NEW k \in Conn, Connect(k) PROVE ByesEnd'
    BY <1>1 DEF Connect
  <1>2. ASSUME NEW k \in Conn, Auth(k) \/ DialStart(k) PROVE ByesEnd'
    BY <1>2 DEF Auth, DialStart
  <1>3. ASSUME NEW k \in Conn, NEW c \in Call, DialListen(k, c) PROVE ByesEnd'
    BY <1>3 DEF DialListen, startRTPListener
  <1>4. ASSUME NEW k \in Conn, DialFail(k) PROVE ByesEnd'
    BY <1>4 DEF DialFail
  <1>5. ASSUME NEW k \in Conn, DialStore(k) PROVE ByesEnd'
    BY <1>5 DEF DialStore, StoreCall
  <1>6. ASSUME NEW k \in Conn, DialWire(k) \/ DialFinish(k) PROVE ByesEnd'
    BY <1>6 DEF DialWire, DialFinish
  <1>7. ASSUME NEW k \in Conn, DialAttach(k) PROVE ByesEnd'
    BY <1>7 DEF DialAttach
  <1>8. ASSUME NEW k \in Conn, HangupStart(k) PROVE ByesEnd'
    BY <1>8 DEF HangupStart
  <1>9. ASSUME NEW k \in Conn, HangupBye(k) PROVE ByesEnd'
    BY <1>9 DEF HangupBye, SendBye
  <1>10. ASSUME NEW k \in Conn, HangupEnd(k) PROVE ByesEnd'
    BY <1>10 DEF HangupEnd, EndCallLocked, HoldsDialog
  <1>11. ASSUME NEW k \in Conn, Disconnect(k) PROVE ByesEnd'
    BY <1>11 DEF Disconnect, RemovePeer
  <1>12. ASSUME NEW k \in Conn, PeerFailed(k) PROVE ByesEnd'
    BY <1>12 DEF PeerFailed, RemovePeer
  <1>13. ASSUME NEW c \in Call, CloseCall(c) PROVE ByesEnd'
    BY <1>13 DEF CloseCall
  <1>14. ASSUME NEW c \in Call, AsyncEndCall(c) PROVE ByesEnd'
    BY <1>14 DEF AsyncEndCall, EndCallLocked, HoldsDialog
  <1>15. ASSUME NEW c \in Call, AsyncBye(c) PROVE ByesEnd'
    BY <1>15 DEF AsyncBye, SendBye
  <1>16. ASSUME NEW c \in Call, ForwarderExit(c) PROVE ByesEnd'
    BY <1>16 DEF ForwarderExit
  <1>17. ASSUME NEW c \in Call, OnSIPBye(c) PROVE ByesEnd'
    BY <1>17 DEF OnSIPBye, EndCallLocked, HoldsDialog
  <1>18. ASSUME NEW c \in Call, InviteStore(c) PROVE ByesEnd'
    BY <1>18 DEF InviteStore, StoreCall
  <1>19. ASSUME NEW c \in Call, InviteAnswer(c) PROVE ByesEnd'
    BY <1>19 DEF InviteAnswer
  <1>20. ASSUME NEW c \in Call, PbxAnswer(c) PROVE ByesEnd'
    BY <1>20 DEF PbxAnswer
  <1>21. ASSUME NEW d \in Call, NEW c \in Call, OnSIPInvite(d, c) PROVE ByesEnd'
    BY <1>21 DEF OnSIPInvite, startRTPListener
  <1>22. CASE UNCHANGED vars
    BY <1>22 DEF vars
  <1>23. QED
    BY <1>1, <1>2, <1>3, <1>4, <1>5, <1>6, <1>7, <1>8, <1>9, <1>10,
       <1>11, <1>12, <1>13, <1>14, <1>15, <1>16, <1>17, <1>18, <1>19, <1>20, <1>21, <1>22
       DEF Next, ReadLoop, Background

(* Nothing but a stray call is in a dialog its dial does not hold. *)
LEMMA StrayAreOutsideStep ==
    ASSUME TypeOK, LoopsHold, ObjectsAreMade, PeersHold, RegistryMatches,
           DialogsAreNamed, StrayAreOutside,
           [Next]_vars
    PROVE  StrayAreOutside'
  <1> USE NoneAssumption DEF TypeOK, LoopsHold, ObjectsAreMade, PeersHold,
          RegistryMatches, DialogsAreNamed, StrayAreOutside, Making, WasStored,
          connVars, callVars, taskVars, histVars
  <1>1. ASSUME NEW k \in Conn, Connect(k) PROVE StrayAreOutside'
    BY <1>1 DEF Connect
  <1>2. ASSUME NEW k \in Conn, Auth(k) \/ DialStart(k) PROVE StrayAreOutside'
    BY <1>2 DEF Auth, DialStart
  <1>3. ASSUME NEW k \in Conn, NEW c \in Call, DialListen(k, c) PROVE StrayAreOutside'
    BY <1>3 DEF DialListen, startRTPListener
  <1>4. ASSUME NEW k \in Conn, DialFail(k) PROVE StrayAreOutside'
    BY <1>4 DEF DialFail
  <1>5. ASSUME NEW k \in Conn, DialStore(k) PROVE StrayAreOutside'
    BY <1>5 DEF DialStore, StoreCall
  <1>6. ASSUME NEW k \in Conn, DialWire(k) \/ DialFinish(k) PROVE StrayAreOutside'
    BY <1>6 DEF DialWire, DialFinish
  <1>7. ASSUME NEW k \in Conn, DialAttach(k) PROVE StrayAreOutside'
    BY <1>7 DEF DialAttach
  <1>8. ASSUME NEW k \in Conn, HangupStart(k) PROVE StrayAreOutside'
    BY <1>8 DEF HangupStart
  <1>9. ASSUME NEW k \in Conn, HangupBye(k) PROVE StrayAreOutside'
    BY <1>9 DEF HangupBye, SendBye
  <1>10. ASSUME NEW k \in Conn, HangupEnd(k) PROVE StrayAreOutside'
    BY <1>10 DEF HangupEnd, EndCallLocked, HoldsDialog
  <1>11. ASSUME NEW k \in Conn, Disconnect(k) PROVE StrayAreOutside'
    BY <1>11 DEF Disconnect, RemovePeer
  <1>12. ASSUME NEW k \in Conn, PeerFailed(k) PROVE StrayAreOutside'
    BY <1>12 DEF PeerFailed, RemovePeer
  <1>13. ASSUME NEW c \in Call, CloseCall(c) PROVE StrayAreOutside'
    BY <1>13 DEF CloseCall
  <1>14. ASSUME NEW c \in Call, AsyncEndCall(c) PROVE StrayAreOutside'
    BY <1>14 DEF AsyncEndCall, EndCallLocked, HoldsDialog
  <1>15. ASSUME NEW c \in Call, AsyncBye(c) PROVE StrayAreOutside'
    BY <1>15 DEF AsyncBye, SendBye
  <1>16. ASSUME NEW c \in Call, ForwarderExit(c) PROVE StrayAreOutside'
    BY <1>16 DEF ForwarderExit
  <1>17. ASSUME NEW c \in Call, OnSIPBye(c) PROVE StrayAreOutside'
    BY <1>17 DEF OnSIPBye, EndCallLocked, HoldsDialog
  <1>18. ASSUME NEW c \in Call, InviteStore(c) PROVE StrayAreOutside'
    BY <1>18 DEF InviteStore, StoreCall
  <1>19. ASSUME NEW c \in Call, InviteAnswer(c) PROVE StrayAreOutside'
    BY <1>19 DEF InviteAnswer
  <1>20. ASSUME NEW c \in Call, PbxAnswer(c) PROVE StrayAreOutside'
    BY <1>20 DEF PbxAnswer
  <1>21. ASSUME NEW d \in Call, NEW c \in Call, OnSIPInvite(d, c) PROVE StrayAreOutside'
    BY <1>21 DEF OnSIPInvite, startRTPListener
  <1>22. CASE UNCHANGED vars
    BY <1>22 DEF vars
  <1>23. QED
    BY <1>1, <1>2, <1>3, <1>4, <1>5, <1>6, <1>7, <1>8, <1>9, <1>10,
       <1>11, <1>12, <1>13, <1>14, <1>15, <1>16, <1>17, <1>18, <1>19, <1>20, <1>21, <1>22
       DEF Next, ReadLoop, Background

(* The call of a removed peer stays on its way out. *)
LEMMA RemovedIsEndingStep ==
    ASSUME TypeOK, LoopsHold, ObjectsAreMade, PeersHold, RegistryMatches,
           DialogsAreNamed, RemovedIsEnding,
           [Next]_vars
    PROVE  RemovedIsEnding'
  <1> USE NoneAssumption DEF TypeOK, LoopsHold, ObjectsAreMade, PeersHold,
          RegistryMatches, DialogsAreNamed, RemovedIsEnding, Making, WasStored,
          connVars, callVars, taskVars, histVars
  <1>1. ASSUME NEW k \in Conn, Connect(k) PROVE RemovedIsEnding'
    BY <1>1 DEF Connect
  <1>2. ASSUME NEW k \in Conn, Auth(k) \/ DialStart(k) PROVE RemovedIsEnding'
    BY <1>2 DEF Auth, DialStart
  <1>3. ASSUME NEW k \in Conn, NEW c \in Call, DialListen(k, c) PROVE RemovedIsEnding'
    BY <1>3 DEF DialListen, startRTPListener
  <1>4. ASSUME NEW k \in Conn, DialFail(k) PROVE RemovedIsEnding'
    BY <1>4 DEF DialFail
  <1>5. ASSUME NEW k \in Conn, DialStore(k) PROVE RemovedIsEnding'
    BY <1>5 DEF DialStore, StoreCall
  <1>6. ASSUME NEW k \in Conn, DialWire(k) \/ DialFinish(k) PROVE RemovedIsEnding'
    BY <1>6 DEF DialWire, DialFinish
  <1>7. ASSUME NEW k \in Conn, DialAttach(k) PROVE RemovedIsEnding'
    BY <1>7 DEF DialAttach
  <1>8. ASSUME NEW k \in Conn, HangupStart(k) PROVE RemovedIsEnding'
    BY <1>8 DEF HangupStart
  <1>9. ASSUME NEW k \in Conn, HangupBye(k) PROVE RemovedIsEnding'
    BY <1>9 DEF HangupBye, SendBye
  <1>10. ASSUME NEW k \in Conn, HangupEnd(k) PROVE RemovedIsEnding'
    BY <1>10 DEF HangupEnd, EndCallLocked, HoldsDialog
  <1>11. ASSUME NEW k \in Conn, Disconnect(k) PROVE RemovedIsEnding'
    BY <1>11 DEF Disconnect, RemovePeer
  <1>12. ASSUME NEW k \in Conn, PeerFailed(k) PROVE RemovedIsEnding'
    BY <1>12 DEF PeerFailed, RemovePeer
  <1>13. ASSUME NEW c \in Call, CloseCall(c) PROVE RemovedIsEnding'
    BY <1>13 DEF CloseCall
  <1>14. ASSUME NEW c \in Call, AsyncEndCall(c) PROVE RemovedIsEnding'
    BY <1>14 DEF AsyncEndCall, EndCallLocked, HoldsDialog
  <1>15. ASSUME NEW c \in Call, AsyncBye(c) PROVE RemovedIsEnding'
    BY <1>15 DEF AsyncBye, SendBye
  <1>16. ASSUME NEW c \in Call, ForwarderExit(c) PROVE RemovedIsEnding'
    BY <1>16 DEF ForwarderExit
  <1>17. ASSUME NEW c \in Call, OnSIPBye(c) PROVE RemovedIsEnding'
    BY <1>17 DEF OnSIPBye, EndCallLocked, HoldsDialog
  <1>18. ASSUME NEW c \in Call, InviteStore(c) PROVE RemovedIsEnding'
    BY <1>18 DEF InviteStore, StoreCall
  <1>19. ASSUME NEW c \in Call, InviteAnswer(c) PROVE RemovedIsEnding'
    BY <1>19 DEF InviteAnswer
  <1>20. ASSUME NEW c \in Call, PbxAnswer(c) PROVE RemovedIsEnding'
    BY <1>20 DEF PbxAnswer
  <1>21. ASSUME NEW d \in Call, NEW c \in Call, OnSIPInvite(d, c) PROVE RemovedIsEnding'
    BY <1>21 DEF OnSIPInvite, startRTPListener
  <1>22. CASE UNCHANGED vars
    BY <1>22 DEF vars
  <1>23. QED
    BY <1>1, <1>2, <1>3, <1>4, <1>5, <1>6, <1>7, <1>8, <1>9, <1>10,
       <1>11, <1>12, <1>13, <1>14, <1>15, <1>16, <1>17, <1>18, <1>19, <1>20, <1>21, <1>22
       DEF Next, ReadLoop, Background

(* An inbound call stays in somebody's hands. *)
LEMMA InboundIsHeldStep ==
    ASSUME TypeOK, LoopsHold, ObjectsAreMade, PeersHold, RegistryMatches,
           RegisteredIsHeld, RemovedIsEnding, DialogsAreNamed, StrayAreOutside,
           ByesEnd, InboundIsHeld,
           [Next]_vars
    PROVE  InboundIsHeld'
  <1> USE NoneAssumption DEF TypeOK, LoopsHold, ObjectsAreMade, PeersHold,
          RegistryMatches, RegisteredIsHeld, RemovedIsEnding, DialogsAreNamed,
          StrayAreOutside, ByesEnd, InboundIsHeld, Registered, Attended, HoldsDialog, Making,
          WasStored, connVars, callVars, taskVars, histVars
  <1>1. ASSUME NEW k \in Conn, Connect(k) PROVE InboundIsHeld'
    BY <1>1 DEF Connect
  <1>2. ASSUME NEW k \in Conn, Auth(k) \/ DialStart(k) PROVE InboundIsHeld'
    BY <1>2 DEF Auth, DialStart
  <1>3. ASSUME NEW k \in Conn, NEW c \in Call, DialListen(k, c) PROVE InboundIsHeld'
    <2>1. /\ UNCHANGED <<peers, pcall, calls, enders, late, stray>>
          /\ stage[c] = "unused" /\ cid'[c] \in {c, cid[c]} /\ loop[k] = "registering"
          /\ \A x \in Call : x # c =>
                /\ cid'[x] = cid[x] /\ stage'[x] = stage[x]
                /\ owner'[x] = owner[x] /\ pbx'[x] = pbx[x]
          /\ \A j \in Conn : j # k => loop'[j] = loop[j] /\ cur'[j] = cur[j]
      BY <1>3 DEF DialListen
    <2>2. \A e \in Call : Attended(e) => Attended(e)'
      BY <2>1
    <2>3. \A x \in Call : Registered(x)' => x # c /\ Registered(x) /\ cid[x] # c
      <3>1. \A e \in Call : calls[e] # c
        BY <2>1
      <3>2. cid[c] = None /\ \A x \in Call : cid[x] # c
        BY <2>1
      <3>3. QED
        BY <2>1, <3>1, <3>2
    <2>4. ASSUME NEW x \in Call, Registered(x)', owner'[x] = None, x \notin stray,
                 (cid[x] # x \/ stage[x] = "live")'
          PROVE  pbx'[cid'[x]] = "up" \/ Attended(cid[x])' \/ cid'[x] \in late
      <3>1. /\ Registered(x) /\ cid[x] \in Call /\ cid[x] # c /\ cid'[x] = cid[x]
            /\ owner[x] = None /\ (cid[x] # x \/ stage[x] = "live")
            /\ pbx'[cid[x]] = pbx[cid[x]]
        BY <2>1, <2>3, <2>4
      <3>2. pbx[cid[x]] = "up" \/ Attended(cid[x]) \/ cid[x] \in late
        BY <2>4, <3>1 DEF InboundIsHeld
      <3>3. QED
        BY <2>2, <3>1, <3>2
    <2>5. QED
      BY <2>1, <2>4
  <1>4. ASSUME NEW k \in Conn, DialFail(k) PROVE InboundIsHeld'
    BY <1>4 DEF DialFail
  <1>5. ASSUME NEW k \in Conn, DialStore(k) PROVE InboundIsHeld'
    BY <1>5 DEF DialStore, StoreCall
  <1>6. ASSUME NEW k \in Conn, DialWire(k) \/ DialFinish(k) PROVE InboundIsHeld'
    <2>1. CASE DialWire(k)
      BY <2>1 DEF DialWire
    <2>2. CASE DialFinish(k)
      <3>1. PICK d \in Call : d = cur[k] /\ stage[d] = "attached"
        BY <2>2 DEF DialFinish
      <3>2. owner[d] = k /\ cid[d] = d
        BY <2>2, <3>1 DEF DialFinish
      <3>3. /\ UNCHANGED <<peers, pcall, calls, cid, owner, enders, pbx, late, stray>>
            /\ \A j \in Conn : j # k => loop'[j] = loop[j] /\ cur'[j] = cur[j]
            /\ \A x \in Call : x # d => stage'[x] = stage[x]
        BY <2>2, <3>1 DEF DialFinish
      <3>4. \/ calls[d] \in stray \cup {None}
            \/ HoldsDialog(k, d) \/ d \in enders \cup late
        BY <3>1, <3>2
      <3>5. \A e \in Call : e # d /\ Attended(e) => Attended(e)'
        BY <3>1, <3>2, <3>3
      <3>6. HoldsDialog(k, d) \/ d \in enders => Attended(d)'
        BY <3>3
      <3>7. ASSUME NEW c \in Call, Registered(c), owner[c] = None,
                   c \notin stray, (cid[c] # c \/ stage[c] = "live")'
            PROVE  pbx[cid[c]] = "up" \/ Attended(cid[c])' \/ cid[c] \in late
        <4>1. CASE cid[c] = d
          BY <3>3, <3>4, <3>6, <3>7, <4>1
        <4>2. CASE cid[c] # d
          BY <3>2, <3>3, <3>5, <3>7, <4>2
        <4>3. QED
          BY <4>1, <4>2
      <3>8. QED
        BY <3>3, <3>7
    <2>3. QED
      BY <1>6, <2>1, <2>2
  <1>7. ASSUME NEW k \in Conn, DialAttach(k) PROVE InboundIsHeld'
    BY <1>7 DEF DialAttach
  <1>8. ASSUME NEW k \in Conn, HangupStart(k) PROVE InboundIsHeld'
    BY <1>8 DEF HangupStart
  <1>9. ASSUME NEW k \in Conn, HangupBye(k) PROVE InboundIsHeld'
    BY <1>9 DEF HangupBye, SendBye
  <1>10. ASSUME NEW k \in Conn, HangupEnd(k) PROVE InboundIsHeld'
    BY <1>10 DEF HangupEnd, EndCallLocked, HoldsDialog
  <1>11. ASSUME NEW k \in Conn, Disconnect(k) PROVE InboundIsHeld'
    BY <1>11 DEF Disconnect, RemovePeer
  <1>12. ASSUME NEW k \in Conn, PeerFailed(k) PROVE InboundIsHeld'
    BY <1>12 DEF PeerFailed, RemovePeer
  <1>13. ASSUME NEW c \in Call, CloseCall(c) PROVE InboundIsHeld'
    BY <1>13 DEF CloseCall
  <1>14. ASSUME NEW c \in Call, AsyncEndCall(c) PROVE InboundIsHeld'
    BY <1>14 DEF AsyncEndCall, EndCallLocked, HoldsDialog
  <1>15. ASSUME NEW c \in Call, AsyncBye(c) PROVE InboundIsHeld'
    BY <1>15 DEF AsyncBye, SendBye
  <1>16. ASSUME NEW c \in Call, ForwarderExit(c) PROVE InboundIsHeld'
    BY <1>16 DEF ForwarderExit
  <1>17. ASSUME NEW c \in Call, OnSIPBye(c) PROVE InboundIsHeld'
    BY <1>17 DEF OnSIPBye, EndCallLocked, HoldsDialog
  <1>18. ASSUME NEW c \in Call, InviteStore(c) PROVE InboundIsHeld'
    BY <1>18 DEF InviteStore, StoreCall
  <1>19. ASSUME NEW c \in Call, InviteAnswer(c) PROVE InboundIsHeld'
    BY <1>19 DEF InviteAnswer
  <1>20. ASSUME NEW c \in Call, PbxAnswer(c) PROVE InboundIsHeld'
    BY <1>20 DEF PbxAnswer
  <1>21. ASSUME NEW d \in Call, NEW c \in Call, OnSIPInvite(d, c) PROVE InboundIsHeld'
    <2>1. /\ UNCHANGED <<peers, pcall, calls, owner, enders, late, stray, loop, cur>>
          /\ stage[c] = "unused" /\ cid'[c] = d
          /\ \A x \in Call : x # c => cid'[x] = cid[x] /\ stage'[x] = stage[x]
          /\ \A x \in Call : x # c => pbx'[x] = pbx[x]
      BY <1>21 DEF OnSIPInvite
    <2>2. \A e \in Call : Attended(e) => Attended(e)'
      BY <2>1
    <2>3. \A x \in Call : Registered(x)' => x # c /\ Registered(x) /\ cid[x] # c
      <3>1. \A e \in Call : calls[e] # c
        BY <2>1
      <3>2. cid[c] = None /\ \A x \in Call : cid[x] # c
        BY <2>1
      <3>3. QED
        BY <2>1, <3>1, <3>2
    <2>4. ASSUME NEW x \in Call, Registered(x)', owner'[x] = None, x \notin stray,
                 (cid[x] # x \/ stage[x] = "live")'
          PROVE  pbx'[cid'[x]] = "up" \/ Attended(cid[x])' \/ cid'[x] \in late
      <3>1. /\ Registered(x) /\ cid[x] \in Call /\ cid[x] # c /\ cid'[x] = cid[x]
            /\ owner[x] = None /\ (cid[x] # x \/ stage[x] = "live")
            /\ pbx'[cid[x]] = pbx[cid[x]]
        BY <2>1, <2>3, <2>4
      <3>2. pbx[cid[x]] = "up" \/ Attended(cid[x]) \/ cid[x] \in late
        BY <2>4, <3>1 DEF InboundIsHeld
      <3>3. QED
        BY <2>2, <3>1, <3>2
    <2>5. QED
      BY <2>1, <2>4
  <1>22. CASE UNCHANGED vars
    BY <1>22 DEF vars
  <1> HIDE DEF TypeOK, LoopsHold, ObjectsAreMade, PeersHold, RegistryMatches,
          RegisteredIsHeld, RemovedIsEnding, DialogsAreNamed, StrayAreOutside,
          ByesEnd, InboundIsHeld
  <1>23. QED
    BY <1>1, <1>2, <1>3, <1>4, <1>5, <1>6, <1>7, <1>8, <1>9, <1>10,
       <1>11, <1>12, <1>13, <1>14, <1>15, <1>16, <1>17, <1>18, <1>19, <1>20, <1>21, <1>22
       DEF Next, ReadLoop, Background

(* Types; the loops and the objects say that the indices are calls. *)
LEMMA TypeOKStep ==
    ASSUME TypeOK, LoopsHold, ObjectsAreMade, PeersHold, [Next]_vars
    PROVE  TypeOK'
  <1> USE NoneAssumption DEF TypeOK, LoopsHold, ObjectsAreMade, PeersHold,
          Making, LoopState, Stage, Row, PbxState, connVars, callVars,
          taskVars, histVars
  <1>1. ASSUME NEW k \in Conn, Connect(k) PROVE TypeOK'
    BY <1>1 DEF Connect
  <1>2. ASSUME NEW k \in Conn, Auth(k) PROVE TypeOK'
    BY <1>2 DEF Auth
  <1>3. ASSUME NEW k \in Conn, DialStart(k) PROVE TypeOK'
    BY <1>3 DEF DialStart
  <1>4. ASSUME NEW k \in Conn, NEW c \in Call, DialListen(k, c) PROVE TypeOK'
    <2>1. sock' \in [Call -> Port \cup {None}] /\ rtpPortCounter' \in Port
      BY <1>4, ListenerTypes DEF DialListen
    <2>2. row' \in [Call -> Row]
      BY <1>4 DEF DialListen
    <2>3. owner' \in [Call -> Conn \cup {None}]
      BY <1>4 DEF DialListen
    <2>4. /\ stage' \in [Call -> Stage]
          /\ cid' \in [Call -> Call \cup {None}]
          /\ pbx' \in [Call -> PbxState]
      BY <1>4 DEF DialListen
    <2>5. loop' \in [Conn -> LoopState] /\ cur' \in [Conn -> Call \cup {None}]
      BY <1>4 DEF DialListen
    <2>6. QED
      BY <1>4, <2>1, <2>2, <2>3, <2>4, <2>5 DEF DialListen
  <1>5. ASSUME NEW k \in Conn, DialFail(k) PROVE TypeOK'
    BY <1>5 DEF DialFail
  <1>6. ASSUME NEW k \in Conn, DialStore(k) PROVE TypeOK'
    BY <1>6 DEF DialStore, StoreCall
  <1>7. ASSUME NEW k \in Conn, DialWire(k) PROVE TypeOK'
    BY <1>7 DEF DialWire
  <1>8. ASSUME NEW k \in Conn, DialAttach(k) PROVE TypeOK'
    BY <1>8 DEF DialAttach
  <1>9. ASSUME NEW k \in Conn, DialFinish(k) PROVE TypeOK'
    BY <1>9 DEF DialFinish, UpdateRow
  <1>10. ASSUME NEW k \in Conn, HangupStart(k) PROVE TypeOK'
    BY <1>10 DEF HangupStart, UpdateRow
  <1>11. ASSUME NEW k \in Conn, HangupBye(k) PROVE TypeOK'
    BY <1>11 DEF HangupBye, SendBye
  <1>12. ASSUME NEW k \in Conn, HangupEnd(k) PROVE TypeOK'
    BY <1>12 DEF HangupEnd, EndCallLocked, HoldsDialog
  <1>13. ASSUME NEW k \in Conn, Disconnect(k) PROVE TypeOK'
    BY <1>13 DEF Disconnect, RemovePeer
  <1>14. ASSUME NEW k \in Conn, PeerFailed(k) PROVE TypeOK'
    BY <1>14 DEF PeerFailed, RemovePeer
  <1>15. ASSUME NEW c \in Call, CloseCall(c) PROVE TypeOK'
    BY <1>15 DEF CloseCall
  <1>16. ASSUME NEW c \in Call, AsyncEndCall(c) PROVE TypeOK'
    BY <1>16 DEF AsyncEndCall, EndCallLocked, HoldsDialog
  <1>17. ASSUME NEW c \in Call, AsyncBye(c) PROVE TypeOK'
    BY <1>17 DEF AsyncBye, SendBye
  <1>18. ASSUME NEW c \in Call, ForwarderExit(c) PROVE TypeOK'
    BY <1>18 DEF ForwarderExit
  <1>19. ASSUME NEW c \in Call, OnSIPBye(c) PROVE TypeOK'
    BY <1>19 DEF OnSIPBye, EndCallLocked, HoldsDialog
  <1>20. ASSUME NEW c \in Call, InviteStore(c) PROVE TypeOK'
    BY <1>20 DEF InviteStore, StoreCall
  <1>21. ASSUME NEW c \in Call, InviteAnswer(c) PROVE TypeOK'
    BY <1>21 DEF InviteAnswer
  <1>22. ASSUME NEW c \in Call, PbxAnswer(c) PROVE TypeOK'
    BY <1>22 DEF PbxAnswer
  <1>23. ASSUME NEW d \in Call, NEW c \in Call, OnSIPInvite(d, c) PROVE TypeOK'
    BY <1>23, ListenerTypes DEF OnSIPInvite
  <1>24. CASE UNCHANGED vars
    BY <1>24 DEF vars
  <1>25. QED
    BY <1>1, <1>2, <1>3, <1>4, <1>5, <1>6, <1>7, <1>8, <1>9,
       <1>10, <1>11, <1>12, <1>13, <1>14, <1>15, <1>16, <1>17, <1>18, <1>19,
       <1>20, <1>21, <1>22, <1>23, <1>24
       DEF Next, ReadLoop, Background

(* No two read loops wait for the end of the same call. *)
LEMMA ClosingIsExclusiveStep ==
    ASSUME TypeOK, LoopsHold, ObjectsAreMade, RegistryMatches, EndingIsKnown, ClosingIsExclusive, [Next]_vars
    PROVE  ClosingIsExclusive'
  <1> USE NoneAssumption DEF TypeOK, LoopsHold, ObjectsAreMade,
          RegistryMatches, EndingIsKnown, ClosingIsExclusive, Registered,
          Making, WasStored, connVars, callVars, taskVars, histVars
  <1>1. ASSUME NEW k \in Conn, Auth(k) \/ PeerFailed(k)
       PROVE  ClosingIsExclusive'
    BY <1>1 DEF Auth, PeerFailed
  <1>2. ASSUME NEW c \in Call, AsyncBye(c) \/ ForwarderExit(c) \/ PbxAnswer(c)
       PROVE  ClosingIsExclusive'
    BY <1>2 DEF AsyncBye, ForwarderExit, PbxAnswer
  <1>3. ASSUME NEW k \in Conn, Connect(k) PROVE ClosingIsExclusive'
    BY <1>3 DEF Connect
  <1>4. ASSUME NEW k \in Conn, DialStart(k) PROVE ClosingIsExclusive'
    BY <1>4 DEF DialStart
  <1>5. ASSUME NEW k \in Conn, NEW c \in Call, DialListen(k, c) 
       PROVE  ClosingIsExclusive'
    <2>1. c \notin ending /\ (\A d \in Call : calls[d] # c)
      BY <1>5 DEF DialListen
    <2>2. calls' = calls /\ ending' = ending
      BY <1>5 DEF DialListen
    <2>3. \A x \in Call : x # c => cid'[x] = cid[x]
      BY <1>5 DEF DialListen
    <2>4. \A x \in ending' : ~ Registered(x)'
      BY <2>1, <2>2, <2>3
    <2>5. \A j \in Conn : loop'[j] = "closing" => loop[j] = "closing" /\ cur'[j] = cur[j]
      BY <1>5 DEF DialListen
    <2>6. QED
      BY <2>2, <2>4, <2>5
  <1>6. ASSUME NEW k \in Conn, DialFail(k) PROVE ClosingIsExclusive'
    BY <1>6 DEF DialFail
  <1>7. ASSUME NEW k \in Conn, DialStore(k) PROVE ClosingIsExclusive'
    BY <1>7 DEF DialStore, StoreCall
  <1>8. ASSUME NEW k \in Conn, DialWire(k) PROVE ClosingIsExclusive'
    BY <1>8 DEF DialWire
  <1>9. ASSUME NEW k \in Conn, DialAttach(k) PROVE ClosingIsExclusive'
    BY <1>9 DEF DialAttach
  <1>10. ASSUME NEW k \in Conn, DialFinish(k) PROVE ClosingIsExclusive'
    BY <1>10 DEF DialFinish
  <1>11. ASSUME NEW k \in Conn, HangupStart(k) PROVE ClosingIsExclusive'
    BY <1>11 DEF HangupStart
  <1>12. ASSUME NEW k \in Conn, HangupBye(k) PROVE ClosingIsExclusive'
    BY <1>12 DEF HangupBye
  <1>13. ASSUME NEW k \in Conn, HangupEnd(k) PROVE ClosingIsExclusive'
    BY <1>13 DEF HangupEnd, EndCallLocked, HoldsDialog
  <1>14. ASSUME NEW k \in Conn, Disconnect(k) PROVE ClosingIsExclusive'
    BY <1>14 DEF Disconnect, RemovePeer
  <1>15. ASSUME NEW c \in Call, CloseCall(c) PROVE ClosingIsExclusive'
    BY <1>15 DEF CloseCall
  <1>16. ASSUME NEW c \in Call, AsyncEndCall(c) PROVE ClosingIsExclusive'
    BY <1>16 DEF AsyncEndCall, EndCallLocked, HoldsDialog
  <1>17. ASSUME NEW c \in Call, OnSIPBye(c) PROVE ClosingIsExclusive'
    BY <1>17 DEF OnSIPBye, EndCallLocked, HoldsDialog
  <1>18. ASSUME NEW c \in Call, InviteStore(c) PROVE ClosingIsExclusive'
    BY <1>18 DEF InviteStore, StoreCall
  <1>19. ASSUME NEW c \in Call, InviteAnswer(c) PROVE ClosingIsExclusive'
    BY <1>19 DEF InviteAnswer
  <1>20. ASSUME NEW d \in Call, NEW c \in Call, OnSIPInvite(d, c) PROVE ClosingIsExclusive'
    BY <1>20 DEF OnSIPInvite, startRTPListener
  <1>21. CASE UNCHANGED vars
    BY <1>21 DEF vars
  <1>22. QED
    BY <1>1, <1>2, <1>3, <1>4, <1>5, <1>6, <1>7, <1>8, <1>9,
       <1>10, <1>11, <1>12, <1>13, <1>14, <1>15, <1>16, <1>17, <1>18, <1>19,
       <1>20, <1>21
       DEF Next, ReadLoop, Background

-----------------------------------------------------------------------------
(***************************************************************************)
(* The inductive invariant holds, and the safety properties follow.        *)
(***************************************************************************)

(* Nothing is connected, made or registered at the start. *)
LEMMA InitHolds == Init => IndInv
  <1> SUFFICES ASSUME Init PROVE IndInv
    OBVIOUS
  <1>1. TypeOK
    BY PortCountAssumption, NoneAssumption
    DEF Init, TypeOK, LoopState, Stage, Row, PbxState, Port
  <1>2. LoopsHold /\ ObjectsAreMade /\ PeersHold
    BY DEF Init, LoopsHold, ObjectsAreMade, PeersHold, Making
  <1>3. RegistryMatches /\ RegisteredIsHeld /\ EndingIsKnown /\ ClosingIsExclusive
    BY DEF Init, RegistryMatches, RegisteredIsHeld, EndingIsKnown,
           ClosingIsExclusive, Registered
  <1>4. StoredIsAccountedFor /\ BusyLineIsLive /\ RemovedIsEnding
    BY DEF Init, StoredIsAccountedFor, BusyLineIsLive, RemovedIsEnding, WasStored
  <1>5. DialogsAreNamed /\ StrayAreOutside /\ InboundIsHeld /\ ByesEnd
    BY NoneAssumption DEF Init, DialogsAreNamed, StrayAreOutside, InboundIsHeld, ByesEnd, Registered
  <1>6. QED
    BY <1>1, <1>2, <1>3, <1>4, <1>5 DEF IndInv

(* Every step keeps it. *)
LEMMA StepHolds == IndInv /\ [Next]_vars => IndInv'
  BY TypeOKStep, LoopsHoldStep, ObjectsAreMadeStep, PeersHoldStep,
     RegistryMatchesStep, RegisteredIsHeldStep, EndingIsKnownStep,
     ClosingIsExclusiveStep, StoredIsAccountedForStep, BusyLineIsLiveStep,
     RemovedIsEndingStep, DialogsAreNamedStep, StrayAreOutsideStep,
     InboundIsHeldStep, ByesEndStep
  DEF IndInv

(* IndInv is an invariant of the gateway: read loops, sipCall objects,     *)
(* peer.call, gw.calls and pending endCalls stay consistent through every  *)
(* interleaving of dials, hangups, INVITEs, BYEs and removed peers.        *)
THEOREM GatewayInvariant == Spec => []IndInv
  <1>1. QED
    BY InitHolds, StepHolds, PTL DEF Spec

(* The state of the gateway keeps its types. *)
THEOREM GatewayTypes == Spec => []TypeOK
  <1>1. IndInv => TypeOK
    BY DEF IndInv
  <1>2. QED
    BY <1>1, GatewayInvariant, PTL

(* Each browser connection has at most one outbound call in gw.calls,      *)
(* however many connections, calls and ports there are (README.md:89).     *)
THEOREM OneCall == Spec => []OneCallPerConnection
  <1>1. IndInv => OneCallPerConnection
    <2> SUFFICES ASSUME IndInv,
                        NEW c1 \in Call, NEW c2 \in Call,
                        Registered(c1), Registered(c2),
                        owner[c1] = owner[c2], owner[c1] # None
                 PROVE  c1 = c2
      BY DEF OneCallPerConnection
    <2> DEFINE k == owner[c1]
    <2> USE DEF IndInv
    <2>1. k \in Conn
      BY DEF TypeOK
    <2>2. \A c \in {c1, c2} :
             \/ pcall[k] = c
             \/ /\ loop[k] \in {"dialing", "bye", "ending"} /\ cur[k] = c
                /\ stage[c] # "attached"
      BY DEF RegisteredIsHeld
    <2>3. CASE loop[k] \in {"dialing", "bye", "ending"}
      <3>1. pcall[k] # None => cur[k] = pcall[k] /\ stage[cur[k]] = "attached"
        BY <2>1, <2>3 DEF PeersHold, LoopsHold
      <3>2. QED
        BY <2>2, <3>1, NoneAssumption
    <2>4. CASE loop[k] \notin {"dialing", "bye", "ending"}
      BY <2>2, <2>4
    <2>5. QED
      BY <2>3, <2>4
  <1>2. QED
    BY <1>1, GatewayInvariant, PTL

(* What writeRTPToPeers sends of a dialled dialog reaches the connection    *)
(* that dialled it, which hears nothing else; only when the PBX has sent an *)
(* INVITE in the dialog (onSIPInvite) do connections without a call hear    *)
(* it.                                                                      *)
THEOREM AudioIsPrivate == Spec => []HearsOnlyItsOwnCall
  <1>1. IndInv => HearsOnlyItsOwnCall
    <2> SUFFICES ASSUME IndInv, NEW c1 \in Call, NEW c2 \in Call, NEW k \in Conn,
                        Hears(k, c1), Hears(k, c2), owner[cid[c1]] # None
                 PROVE  \/ c1 = c2 /\ owner[cid[c1]] = k
                        \/ cid[c1] # c1 /\ pcall[k] = None
      BY DEF HearsOnlyItsOwnCall
    <2> USE NoneAssumption DEF IndInv, TypeOK, Hears, Listeners
    <2>1. CASE pcall[k] = c1
      <3>1. owner[c1] = k /\ cid[c1] = c1
        BY <2>1 DEF PeersHold, ObjectsAreMade
      <3>2. c2 = c1
        BY <2>1
      <3>3. QED
        BY <3>1, <3>2
    <2>2. CASE pcall[k] # c1
      <3>1. owner[c1] = None /\ pcall[k] = None
        BY <2>2
      <3>2. QED
        BY <3>1
    <2>3. QED
      BY <2>1, <2>2
  <1>2. QED
    BY <1>1, GatewayInvariant, PTL

(* Every open RTP socket has somebody who is to close it, but for the four  *)
(* ways to lose one that SocketsAccountedFor names (endCall against         *)
(* handleDial, a second INVITE, an attachment after removePeer, an inbound  *)
(* call without an answer or stored after its dialog's end).                *)
THEOREM NoOtherSocketLeak == Spec => []SocketsAccountedFor
  <1>1. IndInv => SocketsAccountedFor
    <2> SUFFICES ASSUME IndInv, NEW c \in Call, sock[c] # None
                 PROVE  \/ stage[c] = "accepted" \/ Dialing(c)
                        \/ c \in ending
                        \/ /\ Registered(c)
                           /\ \/ stage[c] = "registered"
                              \/ Attended(cid[c])
                              \/ owner[c] = None /\ pbx[cid[c]] = "up"
                        \/ c \in early \cup replaced \cup stray
                        \/ cid[c] \in late
      BY DEF SocketsAccountedFor
    <2> USE DEF IndInv
    <2>1. stage[c] \in {"inviting", "accepted"} \cup WasStored
      BY DEF TypeOK, Stage, ObjectsAreMade, WasStored
    <2>2. CASE stage[c] = "inviting"
      BY <2>2 DEF ObjectsAreMade, Making, Dialing
    <2>3. CASE stage[c] \in WasStored
      <3>1. Registered(c) \/ c \in ending \cup early \cup replaced
        BY <2>3 DEF StoredIsAccountedFor
      <3>2. CASE Registered(c) /\ owner[c] = None
        <4>1. stage[c] \in {"registered", "live"}
          <5>1. owner[c] \notin Conn
            BY NoneAssumption, <3>2
          <5>2. stage[c] \notin Making
            BY <5>1 DEF ObjectsAreMade
          <5>3. QED
            BY <2>3, <5>2 DEF Making, WasStored
        <4>2. QED
          BY <3>2, <4>1 DEF InboundIsHeld
      <3>3. CASE Registered(c) /\ owner[c] # None
        <4>1. owner[c] \in Conn /\ cid[c] = c /\ calls[c] = c
          BY <3>3 DEF TypeOK, ObjectsAreMade, Registered
        <4>2. CASE pcall[owner[c]] = c
          BY NoneAssumption, <3>3, <4>1, <4>2
          DEF RemovedIsEnding, Attended, HoldsDialog
        <4>3. CASE pcall[owner[c]] # c
          BY <3>3, <4>1, <4>3 DEF RegisteredIsHeld, Attended
        <4>4. QED
          BY <4>2, <4>3
      <3>4. QED
        BY <3>1, <3>2, <3>3
    <2>4. QED
      BY <2>1, <2>2, <2>3
  <1>2. QED
    BY <1>1, GatewayInvariant, PTL

(* "Already in a call" is said over a call the gateway knows, except after  *)
(* those two races of a dial and where removePeer has made the gateway      *)
(* forget the connection (handleDial, endCall).                             *)
THEOREM BusyMeansLive == Spec => []BusyLineIsLive
  <1>1. IndInv => BusyLineIsLive
    BY DEF IndInv
  <1>2. QED
    BY <1>1, GatewayInvariant, PTL

(* A connection that is gone leaves only calls that an endCall of          *)
(* removePeer will end, or that were attached after removePeer had run.    *)
THEOREM GoneIsClean == Spec => []GoneLeavesNoCall
  <1>1. IndInv => GoneLeavesNoCall
    <2> SUFFICES ASSUME IndInv, NEW c \in Call, NEW k \in Conn,
                        Registered(c), owner[c] = k, loop[k] = "gone"
                 PROVE  cid[c] \in enders \/ c \in late
      BY DEF GoneLeavesNoCall
    <2> USE NoneAssumption DEF IndInv, Registered
    <2>1. pcall[k] = c /\ k \notin peers
      BY DEF RegisteredIsHeld, LoopsHold
    <2>2. calls[cid[c]] = c /\ c # None
      OBVIOUS
    <2>3. QED
      BY <2>1, <2>2 DEF RemovedIsEnding
  <1>2. QED
    BY <1>1, GatewayInvariant, PTL

(* No step puts one call in the place of another in peer.call: when        *)
(* handleDial writes it, it is still the nil handleDial saw at the start.  *)
THEOREM NoOverwrite == Spec => NoCallIsOverwritten
  <1> DEFINE Keeps == \A k \in Conn :
                 pcall[k] # None /\ pcall'[k] # pcall[k] => pcall'[k] = None
  <1>1. IndInv /\ [Next]_vars => Keeps
    <2> SUFFICES ASSUME IndInv, [Next]_vars PROVE Keeps
      OBVIOUS
    <2> USE NoneAssumption DEF IndInv, TypeOK
    <2>1. ASSUME NEW k \in Conn, DialAttach(k) PROVE Keeps
      BY <2>1 DEF DialAttach, PeersHold
    <2>2. ASSUME NEW k \in Conn, HangupStart(k) PROVE Keeps
      BY <2>2 DEF HangupStart
    <2>3. ASSUME NEW d \in Call, EndCallLocked(d) PROVE Keeps
      BY <2>3 DEF EndCallLocked
    <2>4. ASSUME NEW k \in Conn, HangupEnd(k) PROVE Keeps
      BY <2>4, <2>3 DEF HangupEnd, LoopsHold, ObjectsAreMade
    <2>5. ASSUME pcall' = pcall PROVE Keeps
      BY <2>5
    <2>6. ASSUME NEW k \in Conn, ReadLoop(k) \/ PeerFailed(k) PROVE Keeps
      <3>1. CASE \E c \in Call : DialListen(k, c)
        BY <2>5, <3>1 DEF DialListen
      <3>2. CASE \/ Connect(k) \/ Auth(k) \/ DialStart(k) \/ DialFail(k)
                 \/ DialStore(k) \/ DialWire(k) \/ DialFinish(k)
                 \/ HangupBye(k) \/ Disconnect(k) \/ PeerFailed(k)
        BY <2>5, <3>2
        DEF Connect, Auth, DialStart, DialFail, DialStore, DialWire, DialFinish,
            HangupBye, Disconnect, PeerFailed, connVars
      <3>3. QED
        BY <2>1, <2>2, <2>4, <2>6, <3>1, <3>2 DEF ReadLoop
    <2>7. ASSUME NEW c \in Call, Background(c) PROVE Keeps
      <3>1. CASE AsyncEndCall(c) \/ OnSIPBye(c)
        BY <2>3, <3>1 DEF AsyncEndCall, OnSIPBye
      <3>2. CASE \/ CloseCall(c) \/ AsyncBye(c) \/ ForwarderExit(c)
                 \/ InviteStore(c) \/ InviteAnswer(c) \/ PbxAnswer(c)
        BY <2>5, <3>2
        DEF CloseCall, AsyncBye, ForwarderExit, InviteStore, InviteAnswer,
            PbxAnswer, connVars
      <3>3. QED
        BY <2>7, <3>1, <3>2 DEF Background
    <2>8. ASSUME NEW d \in Call, NEW c \in Call, OnSIPInvite(d, c) PROVE Keeps
      BY <2>5, <2>8 DEF OnSIPInvite, connVars
    <2>9. CASE UNCHANGED vars
      BY <2>5, <2>9 DEF vars, connVars
    <2>10. QED
      BY <2>6, <2>7, <2>8, <2>9 DEF Next
  <1>2. QED
    BY <1>1, GatewayInvariant, PTL DEF NoCallIsOverwritten, Spec

(* A set of ports that is not empty has a least one: what is before it is  *)
(* least for inclusion, which is well-founded.                             *)
LEMMA LeastPort ==
    ASSUME NEW T \in SUBSET Port, T # {}
    PROVE  \E i \in T : \A j \in T : i <= j
  <1> USE PortCountAssumption DEF Port
  <1> DEFINE Before(i) == 0 .. i - 1
             Sections == {Before(i) : i \in T}
  <1>1. IsWellFoundedOn(StrictSubsetOrdering(Port), SUBSET Port)
    <2>1. IsFiniteSet(Port)
      BY FS_Interval
    <2>2. FiniteSubsetsOf(Port) = SUBSET Port
      BY ONLY <2>1, FS_FiniteSubsetsOfFinite
    <2>3. IsWellFoundedOn(StrictSubsetOrdering(Port), FiniteSubsetsOf(Port))
      BY ONLY FS_StrictSubsetOrderingWellFounded
    <2>4. QED
      BY ONLY <2>2, <2>3
  <1>2. Sections \subseteq SUBSET Port /\ Sections # {}
    <2>1. \A i \in T : Before(i) \subseteq Port
      OBVIOUS
    <2> HIDE DEF Before, Port
    <2>2. QED
      BY <2>1
  <1>3. PICK b \in Sections :
            \A a \in Sections : ~ (<<a, b>> \in StrictSubsetOrdering(Port))
    <2> HIDE DEF Sections, Port
    <2>1. QED
      BY <1>1, <1>2, WFMin
  <1>4. PICK i \in T : b = Before(i)
    BY <1>3
  <1>5. ASSUME NEW j \in T, j < i PROVE FALSE
    <2>1. Before(j) \subseteq Before(i) /\ j \in Before(i) /\ j \notin Before(j)
      BY <1>5
    <2>2. <<Before(j), Before(i)>> \in StrictSubsetOrdering(Port)
      BY <1>2, <2>1 DEF StrictSubsetOrdering
    <2>3. QED
      BY <1>3, <1>4, <2>2
  <1>6. QED
    BY <1>5

(* The scan reaches every port of the range.                               *)
LEMMA ScanCovers ==
    ASSUME rtpPortCounter \in Port, NEW p \in Port
    PROVE  \E i \in Port : ScanPort(i) = p
  <1> USE PortCountAssumption DEF Port
  <1>1. CASE rtpPortCounter <= p
    <2>1. p - rtpPortCounter \in Port
      BY <1>1
    <2>2. (rtpPortCounter + (p - rtpPortCounter)) % PortCount = p
      OBVIOUS
    <2>3. QED
      BY <2>1, <2>2 DEF ScanPort
  <1>2. CASE rtpPortCounter > p
    <2> DEFINE i == p - rtpPortCounter + PortCount
    <2>1. i \in Port
      BY <1>2
    <2>2. rtpPortCounter + i = p + PortCount
      OBVIOUS
    <2>3. (p + PortCount) % PortCount = p
      <3>1. \A q \in Int : (PortCount * q + p) % PortCount = p
        OBVIOUS
      <3>2. (PortCount * 1 + p) % PortCount = p
        BY <3>1
      <3>3. PortCount * 1 + p = p + PortCount
        OBVIOUS
      <3>4. QED
        BY <3>2, <3>3
    <2>4. QED
      BY <2>1, <2>2, <2>3 DEF ScanPort
  <1>3. QED
    BY <1>1, <1>2

(* The first free port of the scan is that of the least number of steps.   *)
LEMMA ScanFinds == TypeOK => ScanFindsAFreePort
  <1> SUFFICES ASSUME TypeOK, PortAvailable
               PROVE  \E p \in Port : FirstFree(p)
    BY DEF ScanFindsAFreePort
  <1> DEFINE Free == {i \in Port : ~ Bound(ScanPort(i))}
  <1>1. Free # {}
    <2>1. PICK p \in Port : ~ Bound(p)
      BY DEF PortAvailable
    <2>2. PICK i \in Port : ScanPort(i) = p
      BY ScanCovers DEF TypeOK
    <2>3. i \in Free
      BY <2>1, <2>2
    <2>4. QED
      BY <2>3
  <1>2. Free \in SUBSET Port
    OBVIOUS
  <1> HIDE DEF Free
  <1>3. PICK i \in Free : \A j \in Free : i <= j
    BY <1>1, <1>2, LeastPort
  <1>4. i \in Port /\ ~ Bound(ScanPort(i))
    BY <1>3 DEF Free
  <1>5. ASSUME NEW j \in 0 .. i - 1 PROVE Bound(ScanPort(j))
    <2>1. j \in Port /\ ~ (i <= j)
      BY <1>4, PortCountAssumption DEF Port
    <2>2. j \notin Free
      BY <1>3, <2>1
    <2>3. QED
      BY <2>1, <2>2 DEF Free
  <1>6. ScanPort(i) \in Port
    <2>1. rtpPortCounter + i \in Int
      BY <1>4 DEF TypeOK, Port
    <2>2. QED
      BY <2>1, PortCountAssumption DEF ScanPort, Port
  <1>7. FirstFree(ScanPort(i))
    BY <1>4, <1>5 DEF FirstFree
  <1>8. QED
    BY <1>6, <1>7
(* startRTPListener fails only on a range that is full.                    *)
THEOREM ScanIsComplete == Spec => []ScanFindsAFreePort
  <1>1. QED
    BY ScanFinds, GatewayTypes, PTL
-----------------------------------------------------------------------------
(***************************************************************************)
(* The rows of the call log: what a final status says of the call, and why *)
(* no later write takes it back.                                           *)
(***************************************************************************)
Final == {"finished", "no-answer"}

(* Only the row of a call whose dial is complete and that nobody is on any *)
(* more can have a final status.                                           *)
RowInv ==
    \A c \in Call : row[c] \in Final =>
        /\ stage[c] = "live"
        /\ \A k \in Conn : pcall[k] # c

LEMMA RowInvInit == Init => RowInv
  BY DEF Init, RowInv, Final

(* What updateCallStatus may change.                                       *)
LEMMA UpdatedRow ==
  ASSUME TypeOK, NEW c \in Call, NEW s \in Row, UpdateRow(c, s)
  PROVE  \A d \in Call : row'[d] = row[d] \/ (d = c /\ row'[d] = s)
  BY DEF UpdateRow, TypeOK

(* A step that leaves the rows, and takes calls away from connections but  *)
(* never gives them one, keeps RowInv.                                     *)
LEMMA RowsUntouched ==
  ASSUME RowInv, row' = row,
         \A c \in Call : stage[c] = "live" => stage'[c] = "live",
         \A k \in Conn : pcall'[k] \in {pcall[k], None}
  PROVE  RowInv'
  BY NoneAssumption DEF RowInv, Final

LEMMA RowInvStep == IndInv /\ RowInv /\ [Next]_vars => RowInv'
  <1> SUFFICES ASSUME IndInv, RowInv, [Next]_vars PROVE RowInv'
    OBVIOUS
  <1> USE NoneAssumption DEF IndInv, TypeOK
  <1>1. ASSUME NEW k \in Conn, NEW c \in Call, DialListen(k, c) PROVE RowInv'
    <2>1. \A d \in Call \ {c} : row'[d] = row[d] /\ stage'[d] = stage[d]
      BY <1>1 DEF DialListen
    <2>2. row'[c] \notin Final /\ pcall' = pcall
      BY <1>1 DEF DialListen, Final
    <2>3. QED
      BY <2>1, <2>2 DEF RowInv
  <1>2. ASSUME NEW k \in Conn, DialAttach(k) PROVE RowInv'
    <2>1. cur[k] \in Call /\ stage[cur[k]] = "wired"
      BY <1>2 DEF DialAttach, LoopsHold
    <2>2. row' = row /\ row[cur[k]] \notin Final
      BY <1>2, <2>1 DEF DialAttach, RowInv
    <2>3. QED
      BY <1>2, <2>1, <2>2 DEF DialAttach, RowInv
  <1>3. ASSUME NEW k \in Conn, DialFinish(k) PROVE RowInv'
    <2>1. cur[k] \in Call /\ stage[cur[k]] = "attached"
      BY <1>3 DEF DialFinish, LoopsHold
    <2>2. \A d \in Call : row'[d] = row[d] \/ (d = cur[k] /\ row'[d] = "answered")
      BY <1>3, <2>1, UpdatedRow DEF DialFinish, Row
    <2>3. \A d \in Call \ {cur[k]} : row'[d] = row[d] /\ stage'[d] = stage[d]
      BY <1>3, <2>1, <2>2 DEF DialFinish
    <2>4. row'[cur[k]] \notin Final
      BY <2>1, <2>2 DEF RowInv, Final
    <2>5. QED
      BY <1>3, <2>3, <2>4 DEF DialFinish, RowInv
  <1>4. ASSUME NEW k \in Conn, HangupStart(k) PROVE RowInv'
    <2> DEFINE c == pcall[k]
    <2>1. c \in Call /\ owner[c] = k /\ stage[c] = "live"
      BY <1>4 DEF HangupStart, PeersHold, LoopsHold
    <2>2. \A j \in Conn : pcall'[j] # c
      BY <1>4, <2>1 DEF HangupStart, PeersHold
    <2>3. \A d \in Call \ {c} : row'[d] = row[d]
      <3>1. ASSUME NEW s \in {"finished", "no-answer"}, UpdateRow(c, s)
            PROVE  \A d \in Call \ {c} : row'[d] = row[d]
        BY <2>1, <3>1, UpdatedRow DEF Row
      <3>2. QED
        BY <1>4, <3>1 DEF HangupStart
    <2>4. QED
      BY <1>4, <2>1, <2>2, <2>3 DEF HangupStart, RowInv
  <1>5. ASSUME NEW d \in Call, EndCallLocked(d)
        PROVE  \A k \in Conn : pcall'[k] \in {pcall[k], None}
    BY <1>5 DEF EndCallLocked
  <1>6. ASSUME NEW k \in Conn,
               \/ Connect(k) \/ Auth(k) \/ DialStart(k) \/ DialFail(k)
               \/ DialStore(k) \/ DialWire(k) \/ HangupBye(k) \/ Disconnect(k)
               \/ PeerFailed(k)
        PROVE  RowInv'
    <2>1. row' = row /\ pcall' = pcall
      BY <1>6 DEF Connect, Auth, DialStart, DialFail, DialStore, DialWire,
                  HangupBye, Disconnect, PeerFailed, connVars, callVars
    <2>2. \A c \in Call : stage[c] = "live" => stage'[c] = "live"
      BY <1>6 DEF Connect, Auth, DialStart, DialFail, DialStore, DialWire,
                  HangupBye, Disconnect, PeerFailed, callVars
    <2>3. QED
      BY <2>1, <2>2, RowsUntouched
  <1>7. ASSUME NEW k \in Conn, HangupEnd(k) PROVE RowInv'
    <2>1. cur[k] \in Call /\ cid[cur[k]] \in Call
      BY <1>7 DEF HangupEnd, LoopsHold, ObjectsAreMade
    <2>2. QED
      BY <1>5, <1>7, <2>1, RowsUntouched DEF HangupEnd
  <1>8. ASSUME NEW c \in Call, Background(c) PROVE RowInv'
    <2>1. CASE AsyncEndCall(c) \/ OnSIPBye(c)
      BY <1>5, <2>1, RowsUntouched DEF AsyncEndCall, OnSIPBye
    <2>2. CASE \/ CloseCall(c) \/ AsyncBye(c) \/ ForwarderExit(c)
               \/ InviteStore(c) \/ InviteAnswer(c) \/ PbxAnswer(c)
      <3>1. row' = row /\ pcall' = pcall
        BY <2>2 DEF CloseCall, AsyncBye, ForwarderExit, InviteStore,
                    InviteAnswer, PbxAnswer, connVars, callVars
      <3>2. \A d \in Call : stage[d] = "live" => stage'[d] = "live"
        BY <2>2 DEF CloseCall, AsyncBye, ForwarderExit, InviteStore,
                    InviteAnswer, PbxAnswer, callVars
      <3>3. QED
        BY <3>1, <3>2, RowsUntouched
    <2>3. QED
      BY <1>8, <2>1, <2>2 DEF Background
  <1>9. ASSUME NEW d \in Call, NEW c \in Call, OnSIPInvite(d, c) PROVE RowInv'
    BY <1>9, RowsUntouched DEF OnSIPInvite, connVars
  <1>10. CASE UNCHANGED vars
    BY <1>10 DEF vars, connVars, callVars, RowInv
  <1>11. QED
    BY <1>1, <1>2, <1>3, <1>4, <1>6, <1>7, <1>8, <1>9, <1>10 DEF Next, ReadLoop

LEMMA RowInvHolds == Spec => []RowInv
  <1>1. QED
    BY RowInvInit, RowInvStep, GatewayInvariant, PTL DEF Spec

(* A row says "finished" or "no-answer" only of a call that no connection  *)
(* has as its peer.call any more (handleHangup, endCall).                  *)
THEOREM FinalRow == Spec => []FinalRowMeansHungUp
  <1>1. RowInv => FinalRowMeansHungUp
    BY DEF RowInv, Final, FinalRowMeansHungUp
  <1>2. QED
    BY <1>1, RowInvHolds, PTL

(* No write to the call log takes back the duration a hangup has written:  *)
(* handleDial's "answered" is over by then, and no second hangup finds the *)
(* call.                                                                   *)
THEOREM DurationStays == Spec => DurationIsKept
  <1> DEFINE Kept == \A c \in Call : row[c] \in Final => row'[c] = row[c]
  <1>1. IndInv /\ RowInv /\ [Next]_vars => Kept
    <2> SUFFICES ASSUME IndInv, RowInv, [Next]_vars PROVE Kept
      OBVIOUS
    <2> USE DEF IndInv, TypeOK
    <2>1. ASSUME NEW k \in Conn, NEW c \in Call, DialListen(k, c) PROVE Kept
      BY <2>1 DEF DialListen, RowInv
    <2>2. ASSUME NEW k \in Conn, DialFinish(k) PROVE Kept
      <3>1. cur[k] \in Call /\ row[cur[k]] \notin Final
        BY <2>2 DEF DialFinish, LoopsHold, RowInv
      <3>2. QED
        BY <2>2, <3>1, UpdatedRow DEF DialFinish, Row
    <2>3. ASSUME NEW k \in Conn, HangupStart(k) PROVE Kept
      <3>1. pcall[k] \in Call /\ row[pcall[k]] \notin Final
        BY <2>3 DEF HangupStart, RowInv
      <3>2. ASSUME NEW s \in {"finished", "no-answer"}, UpdateRow(pcall[k], s)
            PROVE  Kept
        BY <3>1, <3>2, UpdatedRow DEF Row
      <3>3. QED
        BY <2>3, <3>2 DEF HangupStart
    <2>4. ASSUME row' = row PROVE Kept
      BY <2>4
    <2>5. ASSUME NEW k \in Conn,
                 \/ Connect(k) \/ Auth(k) \/ DialStart(k) \/ DialFail(k)
                 \/ DialStore(k) \/ DialWire(k) \/ DialAttach(k) \/ HangupBye(k)
                 \/ HangupEnd(k) \/ Disconnect(k) \/ PeerFailed(k)
          PROVE  Kept
      BY <2>4, <2>5 DEF Connect, Auth, DialStart, DialFail, DialStore, DialWire,
                        DialAttach, HangupBye, HangupEnd, Disconnect, PeerFailed,
                        callVars
    <2>6. ASSUME NEW c \in Call, Background(c) PROVE Kept
      BY <2>4, <2>6 DEF Background, CloseCall, AsyncEndCall, AsyncBye,
                        ForwarderExit, OnSIPBye, InviteStore, InviteAnswer,
                        PbxAnswer, callVars
    <2>7. ASSUME NEW d \in Call, NEW c \in Call, OnSIPInvite(d, c) PROVE Kept
      BY <2>4, <2>7 DEF OnSIPInvite
    <2>8. CASE UNCHANGED vars
      BY <2>4, <2>8 DEF vars, callVars
    <2>9. QED
      BY <2>1, <2>2, <2>3, <2>5, <2>6, <2>7, <2>8 DEF Next, ReadLoop
  <1>2. QED
    BY <1>1, GatewayInvariant, RowInvHolds, PTL DEF DurationIsKept, Spec, Final
==============================================================================
