------------------------------- MODULE SfuSync -------------------------------
(***************************************************************************)
(* The SFU (sfu-ws): clients come and go, each publishes a track, and      *)
(* signalPeerConnections offers every PeerConnection all tracks but its    *)
(* own.  It holds listLock, begins again when a step fails, and after 25   *)
(* attempts leaves the rest to a goroutine that tries in 3 seconds.        *)
(*                                                                         *)
(* Answers, closing PeerConnections and broken WebSockets do not wait for  *)
(* listLock: they come between any two steps of a pass over the list.      *)
(***************************************************************************)
EXTENDS Naturals, Sequences, SequencesExt

CONSTANTS
    Peer,      \* clients; a client connects once and publishes one track
    Attempts,  \* 25 in the code
    Hanging    \* clients that may hang

ASSUME SfuAssumption == Attempts \in Nat \ {0} /\ Hanging \subseteq Peer

VARIABLES
    list,       \* peerConnections
    tracks,     \* keys of trackLocals, each named for its publisher
    due,        \* whether a goroutine that ends with it calls, or will in 3
                \* seconds, signalPeerConnections
    running,    \* the calls of signalPeerConnections that hold listLock: one or none
    at, attempt, \* its index into the list, syncAttempt
    handler,    \* websocketHandler of each client
    track,      \* its OnTrack
    closed,     \* closed PeerConnections
    page,       \* the client, once it is connected
    local,      \* tracks in the PeerConnection's local description
    out,        \* PeerConnections in have-local-offer
    answered,   \* those that have had an answer, and so receive a track
    shown,      \* tracks each client has agreed to receive
    toClient, toServer   \* how many offers and answers are on each WebSocket

syncVars == <<due, running, at, attempt>>
pcVars == <<local, out, answered, shown>>
clientVars == <<page, toClient, toServer>>
vars == <<list, tracks, syncVars, handler, track, closed, pcVars, clientVars>>

\* Who calls signalPeerConnections: websocketHandler, addTrack, or one that
\* nobody waits for (removeTrack, OnConnectionStateChange, the goroutine).
Join(k) == <<"joining", k>>
Add(k) == <<"adding", k>>
Other == <<"other">>
Callers == {Join(k) : k \in Peer} \cup {Add(k) : k \in Peer} \cup {Other}

TypeOK ==
    /\ list \in Seq(Peer)
    /\ tracks \in SUBSET Peer
    /\ due \in BOOLEAN
    /\ running \in SUBSET Callers
    /\ at \in Nat \ {0}
    /\ attempt \in 0 .. Attempts - 1
    /\ handler \in [Peer -> {"away", "joining", "reading", "gone"}]
    /\ track \in [Peer -> {"none", "adding", "added", "ended"}]
    /\ closed \in SUBSET Peer
    /\ page \in [Peer -> {"open", "hangs", "gone"}]
    /\ local \in [Peer -> SUBSET Peer]
    /\ out \in SUBSET Peer
    /\ answered \in SUBSET Peer
    /\ shown \in [Peer -> SUBSET Peer]
    /\ toClient \in [Peer -> Nat]
    /\ toServer \in [Peer -> Nat]

Init ==
    /\ list = <<>> /\ tracks = {}
    /\ due = FALSE /\ running = {}
    /\ at = 1 /\ attempt = 0
    /\ handler = [k \in Peer |-> "away"]
    /\ track = [k \in Peer |-> "none"]
    /\ closed = {}
    /\ page = [k \in Peer |-> "open"]
    /\ local = [k \in Peer |-> {}]
    /\ out = {} /\ answered = {}
    /\ shown = [k \in Peer |-> {}]
    /\ toClient = [k \in Peer |-> 0]
    /\ toServer = [k \in Peer |-> 0]

\* listLock is free.
Unlocked == running = {}

-----------------------------------------------------------------------------
(***************************************************************************)
(* signalPeerConnections.                                                  *)
(***************************************************************************)
FromStart(n) == at' = 1 /\ attempt' = n

\* It takes listLock, for one who waits for it to return, or for another, which
\* may be the last one that is due.
SyncStarts(c) ==
    /\ Unlocked
    /\ \/ \E k \in Peer : c = Join(k) /\ handler[k] = "joining" /\ UNCHANGED due
       \/ \E k \in Peer : c = Add(k) /\ track[k] = "adding" /\ UNCHANGED due
       \/ c = Other /\ due /\ due' \in BOOLEAN
    /\ running' = {c}
    /\ UNCHANGED <<list, tracks, at, attempt, handler, track, closed, pcVars, clientVars>>

\* It returns: the caller goes on to its read loop, or to its RTP packets.
Returns ==
    /\ running' = {}
    /\ FromStart(0)
    /\ handler' = [k \in Peer |-> IF Join(k) \in running THEN "reading" ELSE handler[k]]
    /\ track' = [k \in Peer |-> IF Add(k) \in running THEN "added" ELSE track[k]]

\* Faulty: it is given up for good.
Forgets == UNCHANGED due

\* The goroutine that will try again.
Sleeps == due' = TRUE

\* Faulty: as long as it takes.
NeverLast == FALSE

LastAttempt == attempt + 1 = Attempts

\* attemptSync returns true.
TryAgain ==
    \/ LastAttempt /\ Sleeps /\ Returns
    \/ ~ LastAttempt /\ FromStart(attempt + 1) /\ UNCHANGED <<due, running, handler, track>>

\* What a PeerConnection receives, its own track, is not sent to it: "make sure
\* we don't have loopback", main.go:152.
Senders(k) == tracks \ (answered \cap {k})

\* Faulty: the error of SetLocalDescription is not looked at.
NeverRefused(k) == FALSE

\* SetLocalDescription fails while an offer is out.
Refused(k) == k \in out

\* The body of the loop.  A closed PeerConnection is taken out of the list.
\* Another gets the senders it should have, unless it has just got an offer,
\* and an offer of them; writing it to a client that has gone fails, or it is lost.
SyncPeer ==
    /\ ~ Unlocked /\ at <= Len(list)
    /\ \E k \in {list[at]} :
          \/ /\ k \in closed
             /\ list' = RemoveAt(list, at)
             /\ TryAgain
             /\ UNCHANGED <<local, out, toClient>>
          \/ /\ k \notin closed /\ Refused(k)
             /\ TryAgain
             /\ UNCHANGED <<list, local, out, toClient>>
          \/ /\ k \notin closed /\ ~ Refused(k)
             /\ local' = [local EXCEPT ![k] = Senders(k)]
             /\ out' = out \cup {k}
             /\ IF page[k] = "gone" THEN UNCHANGED toClient
                ELSE toClient' = [toClient EXCEPT ![k] = @ + 1]
             /\ \/ page[k] = "gone" /\ TryAgain
                \/ at' = at + 1 /\ UNCHANGED <<due, running, attempt, handler, track>>
             /\ UNCHANGED list
    /\ UNCHANGED <<tracks, closed, answered, shown, page, toServer>>

\* The pass is through.
Synced ==
    /\ ~ Unlocked /\ at > Len(list)
    /\ Returns
    /\ UNCHANGED <<list, tracks, due, closed, pcVars, clientVars>>

-----------------------------------------------------------------------------
(***************************************************************************)
(* websocketHandler and its callbacks.                                     *)
(***************************************************************************)

\* Up to its call of signalPeerConnections.
Connect(k) ==
    /\ handler[k] = "away" /\ Unlocked
    /\ handler' = [handler EXCEPT ![k] = "joining"]
    /\ list' = Append(list, k)
    /\ UNCHANGED <<tracks, syncVars, track, closed, pcVars, clientVars>>

\* peerConnection.Close(), and OnConnectionStateChange if it was not closed.  A
\* closed PeerConnection keeps nothing.
Close(k) ==
    /\ closed' = closed \cup {k}
    /\ local' = [local EXCEPT ![k] = {}]
    /\ shown' = [shown EXCEPT ![k] = {}]
    /\ out' = out \ {k}
    /\ due' = (due \/ k \notin closed)

\* The handler returns: what it has deferred closes both connections.
Return(k) ==
    /\ handler' = [handler EXCEPT ![k] = "gone"]
    /\ Close(k)
    /\ page' = [page EXCEPT ![k] = "gone"]
    /\ toClient' = [toClient EXCEPT ![k] = 0]
    /\ toServer' = [toServer EXCEPT ![k] = 0]

\* SetRemoteDescription, which fails without an offer to answer.
ReadAnswer(k) ==
    /\ handler[k] = "reading" /\ toServer[k] > 0
    /\ IF k \in closed \/ k \notin out
       THEN Return(k) /\ UNCHANGED answered
       ELSE /\ out' = out \ {k}
            /\ answered' = answered \cup {k}
            /\ shown' = [shown EXCEPT ![k] = local[k]]
            /\ toServer' = [toServer EXCEPT ![k] = @ - 1]
            /\ UNCHANGED <<handler, due, closed, local, page, toClient>>
    /\ UNCHANGED <<list, tracks, running, at, attempt, track>>

ReadFails(k) ==
    /\ handler[k] = "reading" /\ page[k] = "gone"
    /\ Return(k)
    /\ UNCHANGED <<list, tracks, running, at, attempt, track, answered>>

\* ICE fails: the PeerConnection is closed, the WebSocket is not.
PeerFails(k) ==
    /\ k \in answered \ closed
    /\ Close(k)
    /\ UNCHANGED <<list, tracks, running, at, attempt, handler, track, answered, clientVars>>

\* OnTrack, addTrack up to its call of signalPeerConnections.
addTrack(k) ==
    /\ k \in answered /\ track[k] = "none" /\ Unlocked
    /\ track' = [track EXCEPT ![k] = "adding"]
    /\ tracks' = tracks \cup {k}
    /\ UNCHANGED <<list, syncVars, handler, closed, pcVars, clientVars>>

\* Faulty: nobody is told.
removeTrackSilently(k) ==
    /\ track[k] = "added" /\ Unlocked
    /\ track' = [track EXCEPT ![k] = "ended"]
    /\ tracks' = tracks \ {k}
    /\ UNCHANGED <<list, syncVars, handler, closed, pcVars, clientVars>>

\* Reading or writing the track's packets fails, as it does when the
\* PeerConnection is closed.
removeTrack(k) ==
    /\ track[k] = "added" /\ Unlocked
    /\ track' = [track EXCEPT ![k] = "ended"]
    /\ tracks' = tracks \ {k}
    /\ due' = TRUE
    /\ UNCHANGED <<list, running, at, attempt, handler, closed, pcVars, clientVars>>

-----------------------------------------------------------------------------
(***************************************************************************)
(* The clients.                                                            *)
(***************************************************************************)
Answer(k) ==
    /\ page[k] = "open" /\ toClient[k] > 0
    /\ toClient' = [toClient EXCEPT ![k] = @ - 1]
    /\ toServer' = [toServer EXCEPT ![k] = @ + 1]
    /\ UNCHANGED <<list, tracks, syncVars, handler, track, closed, pcVars, page>>

\* The page is closed or the network is gone, and with it what is on the way to it.
Leave(k) ==
    /\ handler[k] \in {"joining", "reading"} /\ page[k] # "gone"
    /\ page' = [page EXCEPT ![k] = "gone"]
    /\ toClient' = [toClient EXCEPT ![k] = 0]
    /\ UNCHANGED <<list, tracks, syncVars, handler, track, closed, pcVars, toServer>>

\* The page hangs: it is connected still, and answers nothing.
Hang(k) ==
    /\ k \in Hanging /\ page[k] = "open" /\ handler[k] \in {"joining", "reading"}
    /\ page' = [page EXCEPT ![k] = "hangs"]
    /\ UNCHANGED <<list, tracks, syncVars, handler, track, closed, pcVars, toClient, toServer>>

-----------------------------------------------------------------------------
Sync ==
    \/ \E c \in Callers : SyncStarts(c)
    \/ SyncPeer
    \/ Synced

Serve(k) ==
    \/ Connect(k)
    \/ ReadAnswer(k)
    \/ ReadFails(k)
    \/ PeerFails(k)
    \/ addTrack(k)
    \/ removeTrack(k)

Client(k) == Answer(k) \/ Leave(k) \/ Hang(k)

Next == Sync \/ \E k \in Peer : Serve(k) \/ Client(k)

Spec == Init /\ [][Next]_vars

\* Who waits for listLock gets it: the caller of websocketHandler or addTrack,
\* the track of a closed PeerConnection, and some other.  A pass goes on, a page
\* that neither hangs nor goes answers, and what it sends is read.
Fairness ==
    /\ \A k \in Peer :
          /\ SF_vars(\/ SyncStarts(Join(k)) \/ SyncStarts(Add(k))
                     \/ k \in closed /\ removeTrack(k))
          /\ WF_vars(Answer(k) \/ ReadAnswer(k) \/ ReadFails(k))
    /\ SF_vars(SyncStarts(Other))
    /\ WF_vars(SyncPeer \/ Synced)

FairSpec == Spec /\ Fairness

-----------------------------------------------------------------------------
(***************************************************************************)
(* Properties.                                                             *)
(***************************************************************************)

\* At most one offer of a PeerConnection is under way, or the answer to it, and
\* it is what the PeerConnection has: no answer comes too late, which would
\* end the client's connection.
AnswersMatch ==
    \A k \in Peer \ closed :
        toClient[k] + toServer[k] <= IF k \in out THEN 1 ELSE 0

\* Some call of signalPeerConnections waits for listLock, or for 3 seconds.
Awaited ==
    \/ due
    \/ \E k \in Peer : handler[k] = "joining" /\ Join(k) \notin running
    \/ \E k \in Peer : track[k] = "adding" /\ Add(k) \notin running

\* What signalPeerConnections is to bring about.
Current(k) == k \notin closed /\ local[k] = tracks \ {k}

\* No change of the tracks or of the list is lost, however the calls that
\* follow the changes meet, fail and are put off: when none runs, will run or
\* waits, everyone in the list has been offered what it should see.
RestMeansSynced == Unlocked /\ ~ Awaited => \A k \in ToSet(list) : Current(k)

\* A PeerConnection that is not current is ahead of the pass, or there will be
\* another.
PassLeavesCurrent ==
    \A i \in DOMAIN list : Current(list[i]) \/ Awaited \/ (~ Unlocked /\ at <= i)

PassBeginsAtOne == Unlocked => at = 1

\* Only what is received is sent on.
TracksAreReceived == tracks \subseteq answered

\* The inductive invariant.
SfuInv == TypeOK /\ AnswersMatch /\ PassLeavesCurrent /\ PassBeginsAtOne /\ TracksAreReceived

\* A client that hangs keeps those behind it in the list from their offers.
Blocked(k) ==
    \E i, j \in DOMAIN list :
        i <= j /\ list[j] = k /\ page[list[i]] = "hangs" /\ list[i] \notin closed

\* In the end the list holds no closed PeerConnection, and everyone in it sees
\* all tracks but its own, behind whichever failures of others; except behind
\* a client that hangs.
EveryoneSeesAll ==
    <>[](\A k \in ToSet(list) :
            Blocked(k) \/ (k \notin closed /\ shown[k] = tracks \ {k}))
===============================================================================
