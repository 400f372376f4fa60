---------------------------- MODULE SfuSyncProofs ----------------------------
(***************************************************************************)
(* The safety theorems of SfuSync, for any number of clients and attempts. *)
(***************************************************************************)
EXTENDS SfuSync, SequenceTheorems, TLAPS

-----------------------------------------------------------------------------
(***************************************************************************)
(* Types.                                                                  *)
(***************************************************************************)

\* The list stays a list of clients when one is taken out of it.
LEMMA RemoveAtType ==
    ASSUME NEW S, NEW s \in Seq(S), NEW i \in 1 .. Len(s)
    PROVE  RemoveAt(s, i) \in Seq(S)
<1>1. SubSeq(s, 1, i - 1) \in Seq(S)
  BY SubSeqProperties
<1>2. SubSeq(s, i + 1, Len(s)) \in Seq(S)
  BY SubSeqProperties
<1> QED BY <1>1, <1>2, ConcatProperties DEF RemoveAt

LEMMA TryAgainTypes ==
    ASSUME TypeOK, TryAgain
    PROVE  /\ due' \in BOOLEAN
           /\ running' \in SUBSET Callers
           /\ at' \in Nat \ {0}
           /\ attempt' \in 0 .. Attempts - 1
           /\ handler' \in [Peer -> {"away", "joining", "reading", "gone"}]
           /\ track' \in [Peer -> {"none", "adding", "added", "ended"}]
<1>1. CASE LastAttempt /\ Sleeps /\ Returns
  <2>1. /\ handler' \in [Peer -> {"away", "joining", "reading", "gone"}]
        /\ track' \in [Peer -> {"none", "adding", "added", "ended"}]
    BY <1>1 DEF TypeOK, Returns
  <2>2. 0 \in 0 .. Attempts - 1
    BY SfuAssumption
  <2> QED BY <1>1, <2>1, <2>2 DEF TypeOK, Sleeps, Returns, FromStart
<1>2. CASE ~ LastAttempt /\ FromStart(attempt + 1) /\ UNCHANGED <<due, running, handler, track>>
  <2>1. attempt + 1 \in 0 .. Attempts - 1
    BY <1>2, SfuAssumption DEF TypeOK, LastAttempt
  <2> QED BY <1>2, <2>1 DEF TypeOK, FromStart
<1> QED BY <1>1, <1>2 DEF TryAgain

LEMMA ReturnTypes ==
    ASSUME TypeOK, NEW k \in Peer, Return(k)
    PROVE  /\ handler' \in [Peer -> {"away", "joining", "reading", "gone"}]
           /\ closed' \in SUBSET Peer
           /\ local' \in [Peer -> SUBSET Peer]
           /\ shown' \in [Peer -> SUBSET Peer]
           /\ out' \in SUBSET Peer
           /\ due' \in BOOLEAN
           /\ page' \in [Peer -> {"open", "hangs", "gone"}]
           /\ toClient' \in [Peer -> Nat]
           /\ toServer' \in [Peer -> Nat]
BY DEF TypeOK, Return, Close

\* Every step keeps the types.
LEMMA TypeStep ==
    ASSUME TypeOK, [Next]_vars
    PROVE  TypeOK'
<1> USE SfuAssumption
<1>1. ASSUME NEW c \in Callers, SyncStarts(c) PROVE TypeOK'
  BY <1>1 DEF TypeOK, SyncStarts, pcVars, clientVars
<1>2. CASE SyncPeer
  <2> PICK k \in {list[at]} :
          \/ /\ k \in closed
             /\ list' = RemoveAt(list, at)
             /\ TryAgain
             /\ UNCHANGED <<local, out, toClient>>
          \/ /\ k \notin closed /\ Refused(k)
             /\ TryAgain
             /\ UNCHANGED <<list, local, out, toClient>>
          \/ /\ k \notin closed /\ ~ Refused(k)
             /\ local' = [local EXCEPT ![k] = Senders(k)]
             /\ out' = out \cup {k}
             /\ IF page[k] = "gone" THEN UNCHANGED toClient
                ELSE toClient' = [toClient EXCEPT ![k] = @ + 1]
             /\ \/ page[k] = "gone" /\ TryAgain
                \/ at' = at + 1 /\ UNCHANGED <<due, running, attempt, handler, track>>
             /\ UNCHANGED list
    BY <1>2 DEF SyncPeer
  <2>1. at \in 1 .. Len(list) /\ k \in Peer
    BY <1>2 DEF SyncPeer, TypeOK
  <2>2. list' \in Seq(Peer)
    BY <2>1, RemoveAtType DEF TypeOK
  <2>3. /\ local' \in [Peer -> SUBSET Peer]
        /\ out' \in SUBSET Peer
        /\ toClient' \in [Peer -> Nat]
    <3>1. CASE UNCHANGED <<local, out, toClient>>
      BY <3>1 DEF TypeOK
    <3>2. CASE ~ UNCHANGED <<local, out, toClient>>
      <4>1. /\ local' = [local EXCEPT ![k] = Senders(k)]
            /\ out' = out \cup {k}
            /\ \/ UNCHANGED toClient
               \/ toClient' = [toClient EXCEPT ![k] = @ + 1]
        BY <3>2
      <4>2. Senders(k) \in SUBSET Peer
        BY DEF TypeOK, Senders
      <4>3. toClient[k] + 1 \in Nat
        BY <2>1 DEF TypeOK
      <4> QED BY <2>1, <4>1, <4>2, <4>3 DEF TypeOK
    <3> QED BY <3>1, <3>2
  <2>4. /\ due' \in BOOLEAN
        /\ running' \in SUBSET Callers
        /\ at' \in Nat \ {0}
        /\ attempt' \in 0 .. Attempts - 1
        /\ handler' \in [Peer -> {"away", "joining", "reading", "gone"}]
        /\ track' \in [Peer -> {"none", "adding", "added", "ended"}]
    <3>1. CASE TryAgain BY <3>1, TryAgainTypes
    <3>2. CASE ~ TryAgain BY <3>2 DEF TypeOK
    <3> QED BY <3>1, <3>2
  <2> QED BY <1>2, <2>2, <2>3, <2>4 DEF SyncPeer, TypeOK
<1>3. CASE Synced
  BY <1>3 DEF TypeOK, Synced, Returns, FromStart, pcVars, clientVars
<1>4. ASSUME NEW k \in Peer, Connect(k) PROVE TypeOK'
  <2>1. list' \in Seq(Peer)
    BY <1>4, AppendProperties DEF TypeOK, Connect
  <2> QED BY <1>4, <2>1 DEF TypeOK, Connect, syncVars, pcVars, clientVars
<1>5. ASSUME NEW k \in Peer, ReadAnswer(k) PROVE TypeOK'
  <2>1. CASE Return(k) /\ UNCHANGED answered
    BY <1>5, <2>1, ReturnTypes DEF TypeOK, ReadAnswer
  <2>2. CASE ~ (Return(k) /\ UNCHANGED answered)
    <3>1. toServer[k] - 1 \in Nat
      BY <1>5 DEF ReadAnswer, TypeOK
    <3>2. /\ out' = out \ {k}
          /\ answered' = answered \cup {k}
          /\ shown' = [shown EXCEPT ![k] = local[k]]
          /\ toServer' = [toServer EXCEPT ![k] = @ - 1]
          /\ UNCHANGED <<handler, due, closed, local, page, toClient>>
          /\ UNCHANGED <<list, tracks, running, at, attempt, track>>
      BY <1>5, <2>2 DEF ReadAnswer
    <3>3. local[k] \in SUBSET Peer
      BY DEF TypeOK
    <3>4. /\ shown' \in [Peer -> SUBSET Peer]
          /\ toServer' \in [Peer -> Nat]
      BY <3>1, <3>2, <3>3 DEF TypeOK
    <3> QED BY <3>2, <3>4 DEF TypeOK
  <2> QED BY <2>1, <2>2
<1>6. ASSUME NEW k \in Peer, ReadFails(k) PROVE TypeOK'
  BY <1>6, ReturnTypes DEF TypeOK, ReadFails
<1>7. ASSUME NEW k \in Peer, PeerFails(k) PROVE TypeOK'
  BY <1>7 DEF TypeOK, PeerFails, Close, clientVars
<1>8. ASSUME NEW k \in Peer, addTrack(k) PROVE TypeOK'
  BY <1>8 DEF TypeOK, addTrack, syncVars, pcVars, clientVars
<1>9. ASSUME NEW k \in Peer, removeTrack(k) PROVE TypeOK'
  BY <1>9 DEF TypeOK, removeTrack, pcVars, clientVars
<1>10. ASSUME NEW k \in Peer, Answer(k) PROVE TypeOK'
  <2>1. toClient[k] - 1 \in Nat /\ toServer[k] + 1 \in Nat
    BY <1>10 DEF Answer, TypeOK
  <2> QED BY <1>10, <2>1 DEF TypeOK, Answer, syncVars, pcVars
<1>11. ASSUME NEW k \in Peer, Leave(k) PROVE TypeOK'
  BY <1>11 DEF TypeOK, Leave, syncVars, pcVars
<1>12. ASSUME NEW k \in Peer, Hang(k) PROVE TypeOK'
  BY <1>12 DEF TypeOK, Hang, syncVars, pcVars
<1>13. CASE UNCHANGED vars
  BY <1>13 DEF TypeOK, vars, syncVars, pcVars, clientVars
<1> QED BY <1>1, <1>2, <1>3, <1>4, <1>5, <1>6, <1>7, <1>8, <1>9, <1>10, <1>11, <1>12, <1>13
        DEF Next, Sync, Serve, Client

-----------------------------------------------------------------------------
(***************************************************************************)
(* Offers and answers.                                                     *)
(***************************************************************************)

\* Close and Return take away what could not be matched.
LEMMA ReturnMatches ==
    ASSUME TypeOK, AnswersMatch, NEW k \in Peer, Return(k)
    PROVE  AnswersMatch'
BY DEF TypeOK, AnswersMatch, Return, Close

\* Every step keeps offers and answers in pairs.
LEMMA AnswersStep ==
    ASSUME TypeOK, AnswersMatch, [Next]_vars
    PROVE  AnswersMatch'
<1>1. ASSUME NEW c \in Callers, SyncStarts(c) PROVE AnswersMatch'
  BY <1>1 DEF AnswersMatch, SyncStarts, pcVars, clientVars
<1>2. CASE SyncPeer
  <2> DEFINE k == list[at]
  <2>1. k \in Peer
    BY <1>2 DEF SyncPeer, TypeOK
  <2>2. CASE UNCHANGED <<out, toClient>>
    BY <1>2, <2>2 DEF SyncPeer, AnswersMatch
  <2>3. CASE ~ UNCHANGED <<out, toClient>>
    <3>1. /\ k \notin closed /\ k \notin out
          /\ out' = out \cup {k}
          /\ \/ UNCHANGED toClient
             \/ toClient' = [toClient EXCEPT ![k] = @ + 1]
          /\ UNCHANGED <<closed, toServer>>
      BY <1>2, <2>3 DEF SyncPeer, Refused
    <3>2. toClient[k] + toServer[k] <= 0
      BY <2>1, <3>1 DEF AnswersMatch
    <3> QED BY <2>1, <3>1, <3>2 DEF AnswersMatch, TypeOK
  <2> QED BY <2>2, <2>3
<1>3. CASE Synced
  BY <1>3 DEF AnswersMatch, Synced, pcVars, clientVars
<1>4. ASSUME NEW k \in Peer, Connect(k) PROVE AnswersMatch'
  BY <1>4 DEF AnswersMatch, Connect, pcVars, clientVars
<1>5. ASSUME NEW k \in Peer, ReadAnswer(k) PROVE AnswersMatch'
  <2>1. CASE Return(k)
    BY <2>1, ReturnMatches
  <2>2. CASE ~ Return(k)
    <3>1. /\ k \notin closed /\ k \in out /\ toServer[k] > 0
          /\ out' = out \ {k}
          /\ toServer' = [toServer EXCEPT ![k] = @ - 1]
          /\ UNCHANGED <<closed, toClient>>
      BY <1>5, <2>2 DEF ReadAnswer
    <3> QED BY <3>1 DEF AnswersMatch, TypeOK
  <2> QED BY <2>1, <2>2
<1>6. ASSUME NEW k \in Peer, ReadFails(k) PROVE AnswersMatch'
  BY <1>6, ReturnMatches DEF ReadFails
<1>7. ASSUME NEW k \in Peer, PeerFails(k) PROVE AnswersMatch'
  BY <1>7 DEF AnswersMatch, PeerFails, Close, clientVars
<1>8. ASSUME NEW k \in Peer, addTrack(k) PROVE AnswersMatch'
  BY <1>8 DEF AnswersMatch, addTrack, pcVars, clientVars
<1>9. ASSUME NEW k \in Peer, removeTrack(k) PROVE AnswersMatch'
  BY <1>9 DEF AnswersMatch, removeTrack, pcVars, clientVars
<1>10. ASSUME NEW k \in Peer, Answer(k) PROVE AnswersMatch'
  BY <1>10 DEF AnswersMatch, TypeOK, Answer, pcVars
<1>11. ASSUME NEW k \in Peer, Leave(k) PROVE AnswersMatch'
  BY <1>11 DEF AnswersMatch, TypeOK, Leave, pcVars
<1>12. ASSUME NEW k \in Peer, Hang(k) PROVE AnswersMatch'
  BY <1>12 DEF AnswersMatch, Hang, pcVars
<1>13. CASE UNCHANGED vars
  BY <1>13 DEF AnswersMatch, vars, pcVars, clientVars
<1> QED BY <1>1, <1>2, <1>3, <1>4, <1>5, <1>6, <1>7, <1>8, <1>9, <1>10, <1>11, <1>12, <1>13
        DEF Next, Sync, Serve, Client

-----------------------------------------------------------------------------
(***************************************************************************)
(* The pass over the list.                                                 *)
(***************************************************************************)

\* A new attempt, or one that is put off, has everything ahead of it.
LEMMA TryAgainAhead ==
    ASSUME TryAgain, ~ Unlocked
    PROVE  due' \/ (~ Unlocked' /\ at' = 1)
BY DEF TryAgain, LastAttempt, Sleeps, FromStart, Unlocked

\* Who waits for another call still waits after one has returned.
LEMMA ReturnsKeepsAwaited ==
    ASSUME TypeOK, Returns, Awaited, due => due'
    PROVE  Awaited'
<1>1. CASE due
  BY <1>1 DEF Awaited
<1>2. ASSUME NEW k \in Peer, handler[k] = "joining", Join(k) \notin running PROVE Awaited'
  <2>1. handler'[k] = "joining" /\ Join(k) \notin running'
    BY <1>2 DEF Returns
  <2> QED BY <2>1 DEF Awaited, Join
<1>3. ASSUME NEW k \in Peer, track[k] = "adding", Add(k) \notin running PROVE Awaited'
  <2>1. track'[k] = "adding" /\ Add(k) \notin running'
    BY <1>3 DEF Returns
  <2> QED BY <2>1 DEF Awaited, Add
<1> QED BY <1>1, <1>2, <1>3 DEF Awaited

\* A closed PeerConnection is reported, unless it was closed before.
LEMMA CloseKeeps ==
    ASSUME TypeOK, PassLeavesCurrent, NEW k \in Peer, Close(k),
           UNCHANGED <<list, tracks, running, at, track>>,
           \A j \in Peer : handler[j] = "joining" => handler'[j] = "joining"
    PROVE  PassLeavesCurrent'
<1>1. CASE k \notin closed
  BY <1>1 DEF PassLeavesCurrent, Awaited, Close
<1>2. CASE k \in closed
  <2>1. closed' = closed /\ due' = due
    BY <1>2 DEF Close, TypeOK
  <2>2. Awaited => Awaited'
    BY <2>1 DEF Awaited, Join, Add
  <2>3. ASSUME NEW i \in DOMAIN list, Current(list[i]) PROVE Current(list[i])'
    <3>1. list[i] # k /\ list[i] \in Peer
      BY <1>2, <2>3 DEF Current, TypeOK
    <3> QED BY <2>1, <2>3, <3>1 DEF Current, Close, TypeOK
  <2> QED BY <2>2, <2>3 DEF PassLeavesCurrent, Unlocked
<1> QED BY <1>1, <1>2

\* What changes nothing of what it speaks of keeps it.
LEMMA PassStutters ==
    ASSUME PassLeavesCurrent,
           UNCHANGED <<list, tracks, closed, local, syncVars, handler, track>>
    PROVE  PassLeavesCurrent'
BY DEF PassLeavesCurrent, Current, Awaited, Unlocked, Join, Add, syncVars

\* Every step keeps what is not current ahead of a pass.
LEMMA PassStep ==
    ASSUME TypeOK, PassLeavesCurrent, PassBeginsAtOne, TracksAreReceived, [Next]_vars
    PROVE  PassLeavesCurrent'
<1>1. ASSUME NEW c \in Callers, SyncStarts(c) PROVE PassLeavesCurrent'
  <2>1. ~ Unlocked' /\ at' = 1
    BY <1>1 DEF SyncStarts, Unlocked, PassBeginsAtOne
  <2>2. \A i \in DOMAIN list' : 1 <= i
    BY <1>1 DEF SyncStarts, TypeOK
  <2> QED BY <2>1, <2>2 DEF PassLeavesCurrent
<1>2. CASE SyncPeer
  <2> DEFINE k == list[at]
  <2>1. k \in Peer /\ ~ Unlocked /\ at \in Nat /\ at <= Len(list)
    BY <1>2 DEF SyncPeer, TypeOK
  <2>2. CASE TryAgain
    <3>1. list' \in Seq(Peer)
      BY <1>2, TypeStep DEF TypeOK, Next, Sync
    <3>2. \A i \in DOMAIN list' : 1 <= i
      BY <3>1
    <3> QED BY <2>1, <2>2, <3>2, TryAgainAhead DEF PassLeavesCurrent, Awaited
  <2>3. CASE ~ TryAgain
    <3>1. /\ k \notin closed
          /\ local' = [local EXCEPT ![k] = Senders(k)]
          /\ at' = at + 1
          /\ UNCHANGED <<list, tracks, closed, due, running, handler, track>>
      BY <1>2, <2>3 DEF SyncPeer
    <3>2. Senders(k) = tracks \ {k}
      BY DEF Senders, TracksAreReceived
    <3>3. Awaited => Awaited'
      BY <3>1 DEF Awaited, Join, Add
    <3>4. ASSUME NEW i \in DOMAIN list
          PROVE  Current(list[i])' \/ Awaited' \/ (~ Unlocked /\ at + 1 <= i)
      <4>1. list[i] \in Peer /\ i \in Nat
        BY DEF TypeOK
      <4>2. CASE list[i] = k
        BY <2>1, <3>1, <3>2, <4>2 DEF Current, TypeOK
      <4>3. CASE list[i] # k
        <5>1. Current(list[i]) => Current(list[i])'
          BY <3>1, <4>1, <4>3 DEF Current, TypeOK
        <5>2. i # at
          BY <4>3
        <5> QED BY <2>1, <3>3, <4>1, <5>1, <5>2 DEF PassLeavesCurrent
      <4> QED BY <4>2, <4>3
    <3> QED BY <3>1, <3>4 DEF PassLeavesCurrent, Unlocked
  <2> QED BY <2>2, <2>3
<1>3. CASE Synced
  <2>1. Awaited => Awaited'
    BY <1>3, ReturnsKeepsAwaited DEF Synced
  <2>2. ASSUME NEW i \in DOMAIN list PROVE Current(list[i]) \/ Awaited
    <3>1. ~ (at <= i)
      BY <1>3 DEF Synced, TypeOK
    <3> QED BY <3>1 DEF PassLeavesCurrent
  <2>3. UNCHANGED <<list, tracks, closed, local>>
    BY <1>3 DEF Synced, pcVars
  <2> QED BY <2>1, <2>2, <2>3 DEF PassLeavesCurrent, Current
<1>4. ASSUME NEW k \in Peer, Connect(k) PROVE PassLeavesCurrent'
  <2>1. handler'[k] = "joining" /\ Join(k) \notin running'
    BY <1>4 DEF Connect, TypeOK, Unlocked, syncVars
  <2> QED BY <2>1 DEF PassLeavesCurrent, Awaited, Join
<1>5. ASSUME NEW k \in Peer, ReadAnswer(k) PROVE PassLeavesCurrent'
  <2>1. CASE Return(k)
    BY <1>5, <2>1, CloseKeeps DEF ReadAnswer, Return, TypeOK
  <2>2. CASE ~ Return(k)
    BY <1>5, <2>2, PassStutters DEF ReadAnswer, syncVars
  <2> QED BY <2>1, <2>2
<1>6. ASSUME NEW k \in Peer, ReadFails(k) PROVE PassLeavesCurrent'
  BY <1>6, CloseKeeps DEF ReadFails, Return, TypeOK
<1>7. ASSUME NEW k \in Peer, PeerFails(k) PROVE PassLeavesCurrent'
  BY <1>7, CloseKeeps DEF PeerFails
<1>8. ASSUME NEW k \in Peer, addTrack(k) PROVE PassLeavesCurrent'
  <2>1. track'[k] = "adding" /\ Add(k) \notin running'
    BY <1>8 DEF addTrack, TypeOK, Unlocked, syncVars
  <2> QED BY <2>1 DEF PassLeavesCurrent, Awaited, Add
<1>9. ASSUME NEW k \in Peer, removeTrack(k) PROVE PassLeavesCurrent'
  BY <1>9 DEF removeTrack, PassLeavesCurrent, Awaited
<1>10. ASSUME NEW k \in Peer, Answer(k) \/ Leave(k) \/ Hang(k) PROVE PassLeavesCurrent'
  BY <1>10, PassStutters DEF Answer, Leave, Hang, pcVars
<1>11. CASE UNCHANGED vars
  BY <1>11, PassStutters DEF vars, pcVars
<1> QED BY <1>1, <1>2, <1>3, <1>4, <1>5, <1>6, <1>7, <1>8, <1>9, <1>10, <1>11
        DEF Next, Sync, Serve, Client

\* Every pass begins at the first PeerConnection.
LEMMA BeginStep ==
    ASSUME TypeOK, PassBeginsAtOne, [Next]_vars
    PROVE  PassBeginsAtOne'
<1>1. ASSUME NEW c \in Callers, SyncStarts(c) PROVE PassBeginsAtOne'
  BY <1>1 DEF PassBeginsAtOne, Unlocked, SyncStarts
<1>2. CASE SyncPeer
  <2>1. ~ Unlocked /\ (TryAgain \/ UNCHANGED running)
    BY <1>2 DEF SyncPeer
  <2> QED BY <2>1 DEF TryAgain, Returns, FromStart, PassBeginsAtOne, Unlocked
<1>3. CASE Synced
  BY <1>3 DEF PassBeginsAtOne, Synced, Returns, FromStart
<1>4. ASSUME NEW k \in Peer, Serve(k) \/ Client(k) PROVE PassBeginsAtOne'
  <2>1. UNCHANGED <<running, at>>
    BY <1>4 DEF Serve, Client, Connect, ReadAnswer, ReadFails, PeerFails, addTrack, removeTrack,
                Answer, Leave, Hang, syncVars
  <2> QED BY <2>1 DEF PassBeginsAtOne, Unlocked
<1>5. CASE UNCHANGED vars
  BY <1>5 DEF PassBeginsAtOne, Unlocked, vars, syncVars
<1> QED BY <1>1, <1>2, <1>3, <1>4, <1>5 DEF Next, Sync

\* A track is added by one who receives it, and answers are not taken back.
LEMMA TracksStep ==
    ASSUME TypeOK, TracksAreReceived, [Next]_vars
    PROVE  TracksAreReceived'
<1>1. CASE Sync
  BY <1>1 DEF TracksAreReceived, Sync, SyncStarts, SyncPeer, Synced, pcVars
<1>2. ASSUME NEW k \in Peer, Serve(k) PROVE TracksAreReceived'
  BY <1>2 DEF TracksAreReceived, Serve, Connect, ReadAnswer, ReadFails, PeerFails, addTrack,
              removeTrack, pcVars
<1>3. ASSUME NEW k \in Peer, Client(k) PROVE TracksAreReceived'
  BY <1>3 DEF TracksAreReceived, Client, Answer, Leave, Hang, pcVars
<1>4. CASE UNCHANGED vars
  BY <1>4 DEF TracksAreReceived, vars, pcVars
<1> QED BY <1>1, <1>2, <1>3, <1>4 DEF Next

-----------------------------------------------------------------------------
(***************************************************************************)
(* The theorems.                                                           *)
(***************************************************************************)

\* The inductive invariant of the room holds, for any clients and attempts.
THEOREM RoomInvariant == Spec => []SfuInv
<1>1. Init => SfuInv
  <2> SUFFICES ASSUME Init PROVE SfuInv
    OBVIOUS
  <2>1. TypeOK
    <3>1. list \in Seq(Peer) /\ attempt \in 0 .. Attempts - 1 /\ at \in Nat \ {0}
      BY SfuAssumption DEF Init
    <3>2. /\ \A S : {} \in SUBSET S
          /\ tracks = {} /\ running = {} /\ closed = {} /\ out = {} /\ answered = {}
      BY DEF Init
    <3>3. /\ handler \in [Peer -> {"away", "joining", "reading", "gone"}]
          /\ track \in [Peer -> {"none", "adding", "added", "ended"}]
          /\ page \in [Peer -> {"open", "hangs", "gone"}]
          /\ local \in [Peer -> SUBSET Peer]
          /\ shown \in [Peer -> SUBSET Peer]
          /\ toClient \in [Peer -> Nat]
          /\ toServer \in [Peer -> Nat]
      BY DEF Init
    <3> QED BY <3>1, <3>2, <3>3 DEF Init, TypeOK
  <2>2. AnswersMatch
    BY DEF Init, AnswersMatch
  <2>3. PassLeavesCurrent
    BY DEF Init, PassLeavesCurrent
  <2>4. PassBeginsAtOne /\ TracksAreReceived
    BY DEF Init, PassBeginsAtOne, TracksAreReceived
  <2> QED BY <2>1, <2>2, <2>3, <2>4 DEF SfuInv
<1>2. SfuInv /\ [Next]_vars => SfuInv'
  BY TypeStep, AnswersStep, PassStep, BeginStep, TracksStep DEF SfuInv
<1> QED BY <1>1, <1>2, PTL DEF Spec

\* No offer is made while the answer to another is on its way.
THEOREM OneOfferAtATime == Spec => []AnswersMatch
<1>1. SfuInv => AnswersMatch
  BY DEF SfuInv
<1> QED BY <1>1, RoomInvariant, PTL

\* When signalPeerConnections has nothing left to do, everyone in the list has
\* been offered all tracks but its own.
THEOREM NothingIsForgotten == Spec => []RestMeansSynced
<1>1. SfuInv => RestMeansSynced
  <2> SUFFICES ASSUME SfuInv, Unlocked, ~ Awaited, NEW k \in ToSet(list)
               PROVE  Current(k)
    BY DEF RestMeansSynced
  <2>1. PICK i \in DOMAIN list : k = list[i]
    BY DEF ToSet
  <2> QED BY <2>1 DEF SfuInv, PassLeavesCurrent
<1> QED BY <1>1, RoomInvariant, PTL
=============================================================================
