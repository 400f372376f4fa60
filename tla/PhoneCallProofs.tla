--------------------------- MODULE PhoneCallProofs ---------------------------
(***************************************************************************)
(* Proofs about what BrowserPhone's Dashboard shows of the call: what it   *)
(* will show when it has heard all that is on its way, compared with the   *)
(* gateway's line in every step.  PhoneInv is inductive; the theorems at   *)
(* the end are what it says of the phone.                                  *)
(***************************************************************************)
EXTENDS BrowserPhoneProofs
-----------------------------------------------------------------------------
(***************************************************************************)
(* What the Dashboard will show.                                           *)
(***************************************************************************)

\* The message that has the last word about the call.
Last(q, i) ==
    /\ i \in DOMAIN q /\ q[i].ev \in CallEvent
    /\ \A j \in DOMAIN q : j > i => q[j].ev \notin CallEvent

\* No message says anything of the call.
NoneCalls(q) == \A i \in DOMAIN q : q[i].ev \notin CallEvent

\* What the Dashboard will show is what the last call event says.
LEMMA WillShowIs ==
    ASSUME NEW q, NEW st, NEW v
    PROVE  WillShow(q, st, v) <=> \/ st = v /\ NoneCalls(q)
                                  \/ \E i \in DOMAIN q : Last(q, i) /\ Told(q[i].ev) = v
BY DEF WillShow, Last, NoneCalls

\* A message more.
LEMMA ShowsAppend ==
    ASSUME NEW W, NEW q \in Seq(W), NEW x \in W, NEW st, NEW v
    PROVE  /\ x.ev \notin CallEvent => (WillShow(Append(q, x), st, v) <=> WillShow(q, st, v))
           /\ x.ev \in CallEvent => (WillShow(Append(q, x), st, v) <=> Told(x.ev) = v)
<1> DEFINE n == Len(q)
           r == Append(q, x)
<1>1. /\ n \in Nat /\ DOMAIN q = 1 .. n /\ DOMAIN r = 1 .. n + 1
      /\ \A i \in 1 .. n : r[i] = q[i]
      /\ r[n + 1] = x
  BY AppendProperties, LenProperties
<1> HIDE DEF n, r
<1>2. ASSUME x.ev \notin CallEvent PROVE WillShow(r, st, v) <=> WillShow(q, st, v)
  <2>1. NoneCalls(r) <=> NoneCalls(q)
    <3>1. ASSUME NoneCalls(q), NEW i \in 1 .. n + 1 PROVE r[i].ev \notin CallEvent
      <4>1. CASE i = n + 1 BY <1>1, <1>2, <4>1
      <4>2. CASE i # n + 1
        <5>1. i \in 1 .. n BY <1>1, <4>2
        <5> QED BY <1>1, <3>1, <5>1 DEF NoneCalls
      <4> QED BY <4>1, <4>2
    <3>2. ASSUME NoneCalls(r), NEW i \in 1 .. n PROVE q[i].ev \notin CallEvent
      <4>1. i \in 1 .. n + 1 BY <1>1
      <4> QED BY <1>1, <3>2, <4>1 DEF NoneCalls
    <3> QED BY <1>1, <3>1, <3>2 DEF NoneCalls
  <2>2. ASSUME NEW i \in 1 .. n PROVE Last(r, i) <=> Last(q, i)
    <3>1. i \in 1 .. n + 1 /\ r[i] = q[i]
      BY <1>1
    <3>2. ASSUME Last(q, i), NEW j \in 1 .. n + 1, j > i PROVE r[j].ev \notin CallEvent
      <4>1. CASE j = n + 1 BY <1>1, <1>2, <4>1
      <4>2. CASE j # n + 1
        <5>1. j \in 1 .. n BY <1>1, <4>2
        <5> QED BY <1>1, <3>2, <5>1 DEF Last
      <4> QED BY <4>1, <4>2
    <3>3. ASSUME Last(r, i), NEW j \in 1 .. n, j > i PROVE q[j].ev \notin CallEvent
      <4>1. j \in 1 .. n + 1 BY <1>1
      <4> QED BY <1>1, <3>3, <4>1 DEF Last
    <3> QED BY <1>1, <3>1, <3>2, <3>3 DEF Last
  <2>3. ~ Last(r, n + 1)
    BY <1>1, <1>2 DEF Last
  <2>4. (\E i \in DOMAIN r : Last(r, i) /\ Told(r[i].ev) = v)
           <=> (\E i \in DOMAIN q : Last(q, i) /\ Told(q[i].ev) = v)
    <3>1. ASSUME NEW i \in DOMAIN r, Last(r, i), Told(r[i].ev) = v
          PROVE  \E k \in DOMAIN q : Last(q, k) /\ Told(q[k].ev) = v
      <4>1. i # n + 1 BY <2>3, <3>1
      <4>2. i \in 1 .. n BY <1>1, <4>1
      <4> QED BY <1>1, <2>2, <3>1, <4>2
    <3>2. ASSUME NEW i \in DOMAIN q, Last(q, i), Told(q[i].ev) = v
          PROVE  \E k \in DOMAIN r : Last(r, k) /\ Told(r[k].ev) = v
      <4>1. i \in 1 .. n /\ i \in 1 .. n + 1 BY <1>1
      <4> QED BY <1>1, <2>2, <3>2, <4>1
    <3> QED BY <3>1, <3>2
  <2> QED BY <2>1, <2>4, WillShowIs
<1>3. ASSUME x.ev \in CallEvent PROVE WillShow(r, st, v) <=> Told(x.ev) = v
  <2>1. n + 1 \in DOMAIN r /\ ~ NoneCalls(r)
    BY <1>1, <1>3 DEF NoneCalls
  <2>2. Last(r, n + 1)
    BY <1>1, <1>3 DEF Last
  <2>3. ASSUME NEW i \in DOMAIN r, Last(r, i) PROVE i = n + 1
    BY <1>1, <1>3, <2>3 DEF Last
  <2> QED BY <1>1, <2>1, <2>2, <2>3, WillShowIs
<1> QED BY <1>2, <1>3 DEF r

\* A message is handled.
LEMMA ShowsTail ==
    ASSUME NEW W, NEW q \in Seq(W), q # <<>>, NEW st, NEW v
    PROVE  /\ Head(q).ev \notin CallEvent => (WillShow(Tail(q), st, v) <=> WillShow(q, st, v))
           /\ Head(q).ev \in CallEvent =>
                  (WillShow(Tail(q), Told(Head(q).ev), v) <=> WillShow(q, st, v))
<1> DEFINE n == Len(q)
           r == Tail(q)
<1>1. /\ n \in Nat \ {0} /\ DOMAIN q = 1 .. n /\ DOMAIN r = 1 .. n - 1
      /\ Head(q) = q[1]
      /\ \A i \in 1 .. n - 1 : r[i] = q[i + 1]
  BY HeadTailProperties, LenProperties, EmptySeq
<1> HIDE DEF n, r
<1>2. ASSUME NEW i \in 1 .. n - 1 PROVE Last(r, i) <=> Last(q, i + 1)
  <2>1. i + 1 \in 1 .. n /\ r[i] = q[i + 1]
    BY <1>1
  <2>2. ASSUME Last(q, i + 1), NEW j \in 1 .. n - 1, j > i PROVE r[j].ev \notin CallEvent
    <3>1. j + 1 \in 1 .. n /\ j + 1 > i + 1 BY <1>1, <2>2
    <3> QED BY <1>1, <2>2, <3>1 DEF Last
  <2>3. ASSUME Last(r, i), NEW j \in 1 .. n, j > i + 1 PROVE q[j].ev \notin CallEvent
    <3>1. j - 1 \in 1 .. n - 1 /\ j - 1 > i /\ (j - 1) + 1 = j BY <1>1, <2>3
    <3>2. r[j - 1] = q[j] BY <1>1, <3>1
    <3> QED BY <1>1, <2>3, <3>1, <3>2 DEF Last
  <2> QED BY <1>1, <2>1, <2>2, <2>3 DEF Last
<1>3. ASSUME NEW i \in DOMAIN r, Last(r, i), Told(r[i].ev) = v
      PROVE  \E k \in DOMAIN q : Last(q, k) /\ Told(q[k].ev) = v
  <2>1. i + 1 \in 1 .. n /\ r[i] = q[i + 1] BY <1>1
  <2> QED BY <1>1, <1>2, <1>3, <2>1
<1>4. ASSUME NEW k \in DOMAIN q, k # 1, Last(q, k), Told(q[k].ev) = v
      PROVE  \E i \in DOMAIN r : Last(r, i) /\ Told(r[i].ev) = v
  <2>1. k - 1 \in 1 .. n - 1 /\ (k - 1) + 1 = k BY <1>1, <1>4
  <2>2. r[k - 1] = q[k] BY <1>1, <2>1
  <2>3. Last(r, k - 1) BY <1>2, <1>4, <2>1
  <2> QED BY <1>1, <1>4, <2>1, <2>2, <2>3
<1>5. NoneCalls(r) <=> \A k \in 2 .. n : q[k].ev \notin CallEvent
  <2>1. ASSUME NoneCalls(r), NEW k \in 2 .. n PROVE q[k].ev \notin CallEvent
    <3>1. k - 1 \in 1 .. n - 1 /\ (k - 1) + 1 = k BY <1>1
    <3>2. r[k - 1] = q[k] BY <1>1, <3>1
    <3> QED BY <1>1, <2>1, <3>1, <3>2 DEF NoneCalls
  <2>2. ASSUME \A k \in 2 .. n : q[k].ev \notin CallEvent, NEW i \in 1 .. n - 1
        PROVE  r[i].ev \notin CallEvent
    <3>1. i + 1 \in 2 .. n BY <1>1
    <3> QED BY <1>1, <2>2, <3>1
  <2> QED BY <1>1, <2>1, <2>2 DEF NoneCalls
<1>6. 1 \in DOMAIN q /\ (Last(q, 1) <=> Head(q).ev \in CallEvent /\ NoneCalls(r))
  BY <1>1, <1>5 DEF Last
<1>7. NoneCalls(q) <=> Head(q).ev \notin CallEvent /\ NoneCalls(r)
  <2>1. ASSUME Head(q).ev \notin CallEvent, NoneCalls(r), NEW k \in 1 .. n
        PROVE  q[k].ev \notin CallEvent
    <3>1. CASE k = 1 BY <1>1, <2>1, <3>1
    <3>2. CASE k # 1
      <4>1. k \in 2 .. n BY <1>1, <3>2
      <4> QED BY <1>5, <2>1, <4>1
    <3> QED BY <3>1, <3>2
  <2>2. ASSUME NoneCalls(q) PROVE Head(q).ev \notin CallEvent /\ NoneCalls(r)
    <3>1. \A k \in 2 .. n : k \in 1 .. n BY <1>1
    <3> QED BY <1>1, <1>5, <2>2, <3>1 DEF NoneCalls
  <2> QED BY <1>1, <2>1, <2>2 DEF NoneCalls
<1>8. ASSUME Head(q).ev \notin CallEvent PROVE WillShow(r, st, v) <=> WillShow(q, st, v)
  <2>1. \A k \in DOMAIN q : Last(q, k) => k # 1
    BY <1>6, <1>8
  <2> QED BY <1>3, <1>4, <1>7, <1>8, <2>1, WillShowIs
<1>9. ASSUME Head(q).ev \in CallEvent
      PROVE  WillShow(r, Told(Head(q).ev), v) <=> WillShow(q, st, v)
  <2>1. CASE NoneCalls(r)
    <3>1. Last(q, 1) /\ ~ NoneCalls(q) /\ q[1] = Head(q)
      BY <1>1, <1>6, <1>7, <1>9, <2>1
    <3>2. \A k \in DOMAIN q : Last(q, k) => k = 1
      BY <1>1, <1>9, <1>5, <2>1 DEF Last
    <3>3. \A i \in DOMAIN r : ~ Last(r, i)
      BY <2>1 DEF NoneCalls, Last
    <3> QED BY <1>6, <2>1, <3>1, <3>2, <3>3, WillShowIs
  <2>2. CASE ~ NoneCalls(r)
    <3>1. ~ Last(q, 1) /\ ~ NoneCalls(q)
      BY <1>6, <1>7, <2>2
    <3> QED BY <1>3, <1>4, <2>2, <3>1, WillShowIs
  <2> QED BY <2>1, <2>2
<1> QED BY <1>8, <1>9 DEF r

\* Another status now.
LEMMA ShowsOther ==
    ASSUME NEW q, NEW st, NEW st2, NEW v
    PROVE  /\ WillShow(q, st, v) => WillShow(q, st2, v) \/ WillShow(q, st2, st2)
           /\ v # st /\ WillShow(q, st, v) => WillShow(q, st2, v)
           /\ WillShow(<<>>, st, v) <=> st = v
BY WillShowIs DEF NoneCalls

-----------------------------------------------------------------------------
(***************************************************************************)
(* The status and the line.                                                *)
(***************************************************************************)

\* There is a dial that will reach the gateway, or is dropped without a ws.
DialComes == \E d \in Click : Held(Msg("dial", d)) \/ OnItsWay(Msg("dial", d))

\* There is a hangup that will reach the gateway.
HangupComes == OnItsWay(Msg("hangup", None))

\* What is on its way after a step.
LEMMA WayAfter ==
    ASSUME NEW m
    PROVE  /\ OnItsWay(m)' <=> PutOff(m)' \/ Has(toGw'[ws'], m)
           /\ DialComes' <=> \E d \in Click : Held(Msg("dial", d))' \/ OnItsWay(Msg("dial", d))'
           /\ HangupComes' <=> OnItsWay(Msg("hangup", None))'
BY DEF OnItsWay, PutOff, Has, DialComes, HangupComes

\* The two invariants after a step.
LEMMA CallsAfter ==
    /\ IdleIsHangup' <=>
          (/\ ws' # None /\ InUse(ws)' /\ ws' \notin overlap' \cup misled' /\ ~ LeftBehind'
           /\ line'[ws'] = "inCall" /\ dialing'[ws'] = None
           /\ WillShow(toBr'[ws'], callStatus', "idle")
           => HangupComes')
    /\ BusyIsCall' <=>
          (/\ ws' # None /\ InUse(ws)' /\ Alone' /\ ws' \notin misled'
           /\ ~ WillShow(toBr'[ws'], callStatus', "idle")
           => \/ DialComes'
              \/ dialing'[ws'] # None
              \/ /\ WillShow(toBr'[ws'], callStatus', "connected")
                 /\ line'[ws'] \in {"inCall", "clearing"} \/ ws' \in ended')
BY DEF IdleIsHangup, BusyIsCall, WillShow, DialComes, HangupComes

\* Without a ws that is in use there is nothing to say.
LEMMA CallsOfNone ==
    ASSUME ws' = None \/ ~ InUse(ws)'
    PROVE  IdleIsHangup' /\ BusyIsCall'
BY CallsAfter

\* Nor is there with a new one, but that the page shows the call of another.
LEMMA CallsOfNew ==
    ASSUME ws' \in Socket, line'[ws'] = "absent", toBr'[ws'] = <<>>,
           callStatus' = "idle" \/ ~ Alone'
    PROVE  IdleIsHangup' /\ BusyIsCall'
BY CallsAfter, ShowsOther

\* A step that keeps ws, its line, and what is on its way to the gateway.
LEMMA CallsStay ==
    ASSUME IdleIsHangup, BusyIsCall, UNCHANGED ws,
           InUse(ws)' => InUse(ws), Alone' => Alone, LeftBehind => LeftBehind',
           ws \in overlap => ws \in overlap', ws \in misled => ws \in misled',
           line'[ws] = line[ws], dialing'[ws] = dialing[ws],
           ws \in ended => ws \in ended',
           \A v \in {"idle", "connected"} :
               WillShow(toBr'[ws], callStatus', v) <=> WillShow(toBr[ws], callStatus, v),
           HangupComes => HangupComes', DialComes => DialComes'
    PROVE  IdleIsHangup' /\ BusyIsCall'
<1>1. IdleIsHangup'
  BY CallsAfter DEF IdleIsHangup, HangupComes
<1>2. BusyIsCall'
  BY CallsAfter DEF BusyIsCall, DialComes
<1> QED BY <1>1, <1>2

\* What sendWS is given is on its way to the gateway, and so is what was, if
\* the timers that stay hold it.
LEMMA SendDelivers ==
    ASSUME PageTypes, QueueTypes, NEW x \in Sendable, NEW rest \in Seq(Timer), sendWS(x, rest),
           ws \in Socket, UNCHANGED ws, NEW m,
           PutOff(m) => Has(Messages(rest), m) \/ x = m,
           OnItsWay(m) \/ x = m
    PROVE  OnItsWay(m)'
<1> DEFINE W == Sendable \cup [ev : {"auth"}, arg : Agent]
<1>1. x \in W /\ toGw \in [Socket -> Seq(W)]
  BY DEF QueueTypes
<1> HIDE DEF W
<1>2. OnItsWay(m)' <=> Has(Messages(timers'), m) \/ Has(toGw'[ws], m)
  BY PlacesAfter, WayAfter
<1>3. Has(Messages(rest), m) \/ x = m \/ Has(toGw[ws], m)
  BY DEF OnItsWay
<1>4. CASE toGw' = [toGw EXCEPT ![ws] = Append(@, x)] /\ timers' = rest
  <2>1. toGw'[ws] = Append(toGw[ws], x) /\ toGw[ws] \in Seq(W)
    BY <1>1, <1>4
  <2>2. Has(toGw'[ws], m) <=> Has(toGw[ws], m) \/ x = m
    BY <1>1, <2>1, HasAppend
  <2> QED BY <1>2, <1>3, <1>4, <2>2
<1>5. ASSUME NEW k \in {500, 1000}, timers' = Append(rest, [msg |-> x, ms |-> k]), UNCHANGED toGw
      PROVE  OnItsWay(m)'
  <2>1. [msg |-> x, ms |-> k] \in Timer
    BY DEF Timer
  <2>2. /\ Messages(rest) \in Seq(Sendable)
        /\ Messages(timers') = Append(Messages(rest), x)
    BY <1>5, <2>1, MessagesAppend
  <2>3. Has(Messages(timers'), m) <=> Has(Messages(rest), m) \/ x = m
    BY <2>2, HasAppend
  <2> QED BY <1>2, <1>3, <1>5, <2>3
<1>6. \/ toGw' = [toGw EXCEPT ![ws] = Append(@, x)] /\ timers' = rest
      \/ \E k \in {500, 1000} : timers' = Append(rest, [msg |-> x, ms |-> k]) /\ UNCHANGED toGw
  BY NoneAssumption DEF sendWS
<1> QED BY <1>4, <1>5, <1>6

\* What is on its way to the gateway stays so in a step of the browser.
LEMMA WayStays ==
    ASSUME AppTypes, PageTypes, QueueTypes, ws \in Socket, UNCHANGED ws,
           Agents \/ Network \/ Events \/ UNCHANGED vars, NEW m, OnItsWay(m)
    PROVE  OnItsWay(m)'
<1> DEFINE W == Sendable \cup [ev : {"auth"}, arg : Agent]
<1>1. ASSUME UNCHANGED <<timers, toGw>> PROVE OnItsWay(m)'
  BY <1>1, PlacesAfter, WayAfter DEF OnItsWay, PutOff
<1>2. ASSUME NEW x \in Sendable, sendWS(x, timers) PROVE OnItsWay(m)'
  <2>1. timers \in Seq(Timer)
    BY DEF QueueTypes
  <2>2. PutOff(m) => Has(Messages(timers), m) \/ x = m
    BY DEF PutOff
  <2> QED BY <1>2, <2>1, <2>2, SendDelivers
<1>3. CASE \E s \in Socket : SocketOpens(s)
  <2>1. UNCHANGED timers
    BY <1>3 DEF SocketOpens
  <2>2. ASSUME Has(toGw[ws], m) PROVE Has(toGw'[ws], m)
    <3>1. CASE toGw'[ws] = toGw[ws] BY <2>2, <3>1
    <3>2. CASE toGw'[ws] # toGw[ws]
      <4>1. token # None /\ toGw'[ws] = Append(toGw[ws], Msg("auth", token))
        BY <1>3, <3>2 DEF SocketOpens, LoggedIn, QueueTypes
      <4>2. Msg("auth", token) \in W /\ toGw[ws] \in Seq(W)
        BY <4>1 DEF QueueTypes, AppTypes, Msg
      <4> HIDE DEF W
      <4> QED BY <2>2, <4>1, <4>2, HasAppend
    <3> QED BY <3>1, <3>2
  <2> QED BY <2>1, <2>2, PlacesAfter, WayAfter DEF OnItsWay, PutOff
<1>4. CASE handleHangup \/ handleLogout
  <2>1. Msg("hangup", None) \in Sendable
    BY DEF Sendable, Msg
  <2> QED BY <1>2, <1>4, <2>1 DEF handleHangup, handleLogout
<1>5. CASE ResumeSend
  <2>1. Head(todo) \in Sendable
    BY <1>5, HeadTailProperties DEF ResumeSend, QueueTypes, Asking, Sendable, Msg
  <2> QED BY <1>2, <1>5, <2>1 DEF ResumeSend
<1>6. CASE \E i \in DOMAIN timers : TimerFires(i)
  <2>1. PICK i \in DOMAIN timers : TimerFires(i) BY <1>6
  <2>2. timers[i].msg \in Sendable
    <3>1. timers \in Seq(Timer) /\ i \in 1 .. Len(timers)
      BY LenProperties DEF QueueTypes
    <3>2. timers[i] \in Timer
      BY <3>1, ElementOfSeq
    <3> QED BY <3>2 DEF Timer
  <2>3. /\ OtherTimers(i) \in Seq(Timer)
        /\ PutOff(m) => Has(Messages(OtherTimers(i)), m) \/ timers[i].msg = m
    BY OtherTimersAre DEF PutOff
  <2>4. sendWS(timers[i].msg, OtherTimers(i))
    BY <2>1 DEF TimerFires
  <2> QED BY <2>2, <2>3, <2>4, SendDelivers
<1>7. \/ \E s \in Socket : SocketOpens(s)
      \/ handleHangup \/ handleLogout
      \/ ResumeSend
      \/ \E i \in DOMAIN timers : TimerFires(i)
      \/ UNCHANGED <<timers, toGw>>
  BY DEF Agents, Network, Events, Login, handleDial, handleCallCustomer, dial, MicGranted,
         MicDenied, SocketCloses, SocketClosing, disconnect, ResumeOffer, OnOffer, OnCandidate,
         OnCallEvent, OnAuthReply, RemoteDescriptionSet, drainIceCandidates, AnswerCreated,
         LocalDescriptionSet, OnIceCandidate, connectVars, pageVars, sendVars, vars
<1> QED BY <1>1, <1>3, <1>4, <1>5, <1>6, <1>7

\* A dial that will reach the gateway still will.
LEMMA DialStillComes ==
    ASSUME AppTypes, PageTypes, QueueTypes, HistoryTypes, DialsAreSingle, ws \in Socket,
           UNCHANGED ws,
           Agents \/ Network \/ Events \/ UNCHANGED vars
    PROVE  DialComes => DialComes'
<1> SUFFICES ASSUME NEW d \in Click, Held(Msg("dial", d)) \/ OnItsWay(Msg("dial", d))
             PROVE  Held(Msg("dial", d))' \/ OnItsWay(Msg("dial", d))'
  <2>1. DialComes' <=> \E d \in Click : Held(Msg("dial", d))' \/ OnItsWay(Msg("dial", d))'
    BY WayAfter
  <2> QED BY <2>1 DEF DialComes
<1> DEFINE m == Msg("dial", d)
<1>1. CASE OnItsWay(m)
  BY <1>1, WayStays
<1>2. CASE Held(m) /\ ~ Held(m)'
  <2>1. HeldOnce(m) /\ m \in Asking /\ m.ev = "dial" /\ ws # None
    BY NoneAssumption DEF DialsAreSingle, Asking, Msg
  <2>2. Asks(m) => ~ Held(m)
    <3>1. ASSUME NEW c \in Click, dial(c), m = Msg("dial", c) PROVE ~ Held(m)
      BY <3>1, DialIsNew DEF DialsAreSingle
    <3> QED BY <3>1 DEF Asks, Msg
  <2>3. [Next]_vars BY DEF Next
  <2>4. Moves(m)
    BY <2>1, <2>2, <2>3, EveryStepMoves
  <2>5. toGw' = [toGw EXCEPT ![ws] = Append(@, m)]
    BY <1>2, <2>1, <2>4 DEF Moves
  <2> DEFINE W == Sendable \cup [ev : {"auth"}, arg : Agent]
  <2>6. m \in W /\ toGw[ws] \in Seq(W) /\ toGw'[ws] = Append(toGw[ws], m)
    BY <2>5 DEF QueueTypes, Sendable, Msg
  <2> HIDE DEF W
  <2>7. Has(toGw'[ws], m)
    BY <2>6, HasAppend
  <2> QED BY <2>7, WayAfter
<1> QED BY <1>1, <1>2

\* A step of the browser that keeps ws, the status and what it will become.
LEMMA BrowserQuiet ==
    ASSUME AppTypes, PageTypes, QueueTypes, HistoryTypes, DialsAreSingle, IdleIsHangup, BusyIsCall,
           Agents \/ Network \/ Events \/ UNCHANGED vars,
           UNCHANGED <<ws, callStatus>>,
           UNCHANGED <<sock, orphaned>> \/ Turns,
           \A v \in {"idle", "connected"} :
               WillShow(toBr'[ws], callStatus, v) <=> WillShow(toBr[ws], callStatus, v)
    PROVE  IdleIsHangup' /\ BusyIsCall'
<1>1. CASE ws = None
  BY <1>1, CallsOfNone
<1>2. CASE ws # None
  <2>1. ws \in Socket
    BY <1>2 DEF PageTypes
  <2>2. LeavesGateway
    BY BrowserLeavesGateway
  <2>3. HangupComes => HangupComes'
    <3>1. OnItsWay(Msg("hangup", None)) => OnItsWay(Msg("hangup", None))'
      BY <2>1, WayStays
    <3> QED BY <3>1, WayAfter DEF HangupComes
  <2>4. DialComes => DialComes'
    BY <2>1, DialStillComes
  <2>5. /\ InUse(ws)' => InUse(ws)
        /\ Alone' => Alone
        /\ LeftBehind => LeftBehind'
    <3>1. CASE UNCHANGED <<sock, orphaned>>
      BY <3>1 DEF InUse, Alone, LeftBehind
    <3>2. CASE Turns
      <4>1. UNCHANGED <<ws, orphaned>>
        BY <3>2 DEF Turns
      <4>2. PICK s \in Socket :
               \/ sock[s] = "connecting" /\ sock' = [sock EXCEPT ![s] = "open"]
               \/ sock[s] = "open" /\ sock' = [sock EXCEPT ![s] = "closing"]
        BY <3>2 DEF Turns
      <4>3. \A k \in Socket :
               /\ sock'[k] \in {"connecting", "open"} => sock[k] \in {"connecting", "open"}
               /\ sock'[k] \in {"unused", "closed"} <=> sock[k] \in {"unused", "closed"}
               /\ sock'[k] = "closed" <=> sock[k] = "closed"
        BY <4>2 DEF PageTypes
      <4>4. orphaned \subseteq Socket
        BY DEF HistoryTypes
      <4> QED BY <2>1, <4>1, <4>3, <4>4 DEF InUse, Alone, LeftBehind
    <3> QED BY <3>1, <3>2
  <2> QED BY <2>2, <2>3, <2>4, <2>5, CallsStay DEF LeavesGateway, gwVars
<1> QED BY <1>1, <1>2

\* What sendWS does to the calls: nothing, or it opens a ws beside the one that
\* is closing.
LEMMA SendCalls ==
    ASSUME AppTypes, PageTypes, QueueTypes, HistoryTypes, DialsAreSingle, WsIsNotClosed, LinesFit,
           IdleIsHangup, BusyIsCall, Agents \/ Network \/ Events \/ UNCHANGED vars,
           UNCHANGED <<callStatus, orphaned, toBr>>, NEW m, NEW rest, sendWS(m, rest)
    PROVE  IdleIsHangup' /\ BusyIsCall'
<1>1. CASE UNCHANGED <<ws, sock>>
  BY <1>1, BrowserQuiet
<1>2. CASE ~ UNCHANGED <<ws, sock>>
  <2>1. PICK s \in Socket :
           /\ ws # None /\ sock[ws] \in {"closing", "closed"}
           /\ sock[s] = "unused"
           /\ sock' = [sock EXCEPT ![s] = "connecting"]
           /\ ws' = s
    BY <1>2, SendOpens
  <2>2. ws \in Socket /\ ws # s /\ sock'[ws] = "closing"
    BY <2>1 DEF PageTypes, WsIsNotClosed
  <2>3. ~ Alone'
    BY <2>1, <2>2 DEF Alone
  <2>4. line'[s] = "absent" /\ toBr'[s] = <<>>
    <3>1. UNCHANGED <<line, toBr>>
      BY BrowserLeavesGateway DEF LeavesGateway, gwVars
    <3> QED BY <2>1, <3>1 DEF LinesFit
  <2> QED BY <2>1, <2>3, <2>4, CallsOfNew
<1> QED BY <1>1, <1>2

\* A Call button: the dial comes, and the status is not idle.
LEMMA DialCalls ==
    ASSUME AppTypes, PageTypes, QueueTypes, HistoryTypes, DialsAreSingle, IdleIsHangup, BusyIsCall,
           NEW d \in Click, dial(d), handleDial(d) \/ handleCallCustomer(d)
    PROVE  IdleIsHangup' /\ BusyIsCall'
<1>1. CASE ws = None
  BY <1>1, CallsOfNone DEF dial
<1>2. CASE ws # None
  <2>1. ws \in Socket /\ Agents
    BY <1>2 DEF PageTypes, Agents
  <2>2. UNCHANGED <<ws, sock, orphaned, overlap, misled, line, dialing, gpeers, ended, toBr>>
    BY DEF dial, gwVars, raceVars
  <2>3. HangupComes => HangupComes'
    <3>1. OnItsWay(Msg("hangup", None)) => OnItsWay(Msg("hangup", None))'
      BY <2>1, <2>2, WayStays
    <3> QED BY <3>1, WayAfter DEF HangupComes
  <2>4. DialComes'
    <3>1. HeldOnce(Msg("dial", d)) /\ Msg("dial", d) \in Asking
      BY DEF DialsAreSingle, Asking, Msg
    <3>2. /\ todo = <<>> /\ UNCHANGED timers
          /\ \/ todo' = <<Msg("dial", d)>> /\ UNCHANGED waiters
             \/ /\ UNCHANGED todo
                /\ waiters' = [waiters EXCEPT ![micPromise'] = Append(@, Msg("dial", d))]
                /\ localStream = None /\ RequestMic
      BY DEF dial, Task, AwaitMic
    <3>3. localStream = None /\ RequestMic => micPromise' \in Prompt
      BY DEF RequestMic, PageTypes
    <3>4. Held(Msg("dial", d))'
      BY <3>1, <3>2, <3>3, HeldAsk
    <3> QED BY <3>4, WayAfter
  <2>5. callStatus' # "idle"
    BY DEF dial
  <2>6. WillShow(toBr'[ws], callStatus', "idle") => WillShow(toBr[ws], callStatus, "idle")
    BY <2>2, <2>5, ShowsOther
  <2>7. (InUse(ws)' <=> InUse(ws)) /\ (LeftBehind' <=> LeftBehind)
    BY <2>2 DEF InUse, LeftBehind
  <2>8. IdleIsHangup'
    BY <2>2, <2>3, <2>6, <2>7, CallsAfter DEF IdleIsHangup, HangupComes
  <2>9. BusyIsCall'
    BY <2>4, CallsAfter
  <2> QED BY <2>8, <2>9
<1> QED BY <1>1, <1>2

\* A click on Hangup: the hangup is on its way, and the status is idle.
LEMMA HangupCalls ==
    ASSUME AppTypes, PageTypes, QueueTypes, HistoryTypes, DialsAreSingle, WsIsNotClosed, LinesFit,
           BusyIsCall, handleHangup
    PROVE  IdleIsHangup' /\ BusyIsCall'
<1> DEFINE m == Msg("hangup", None)
<1>1. CASE ws' = None
  BY <1>1, CallsOfNone
<1>2. CASE ws' # None
  <2>1. sendWS(m, timers) /\ m \in Sendable /\ Agents
    BY DEF handleHangup, Sendable, Msg, Agents
  <2>2. /\ UNCHANGED <<orphaned, overlap, misled, line, dialing, gpeers, ended, toBr>>
        /\ callStatus' = "idle"
    BY DEF handleHangup, gwVars, histVars, raceVars
  <2>3. ws \in Socket
    BY <1>2, <2>1 DEF PageTypes, sendWS, connectVars, pageVars
  <2>4. CASE UNCHANGED <<ws, sock>>
    <3>1. timers \in Seq(Timer) /\ (PutOff(m) => Has(Messages(timers), m) \/ m = m)
      BY DEF QueueTypes
    <3>2. OnItsWay(m)'
      BY <2>1, <2>3, <2>4, <3>1, SendDelivers
    <3>3. HangupComes'
      BY <3>2, WayAfter
    <3>4. DialComes => DialComes'
      BY <2>1, <2>3, <2>4, DialStillComes
    <3>5. (InUse(ws)' <=> InUse(ws)) /\ (Alone' <=> Alone)
      BY <2>4 DEF InUse, Alone
    <3>6. WillShow(toBr[ws], callStatus, "idle") => WillShow(toBr'[ws], callStatus', "idle")
      BY <2>2, <2>4, ShowsOther
    <3>7. WillShow(toBr[ws], callStatus, "connected")
             => \/ WillShow(toBr'[ws], callStatus', "idle")
                \/ WillShow(toBr'[ws], callStatus', "connected")
      BY <2>2, <2>4, ShowsOther
    <3>8. BusyIsCall'
      BY <2>2, <2>4, <3>4, <3>5, <3>6, <3>7, CallsAfter DEF BusyIsCall, DialComes
    <3>9. IdleIsHangup'
      BY <3>3, CallsAfter
    <3> QED BY <3>8, <3>9
  <2>5. CASE ~ UNCHANGED <<ws, sock>>
    <3>1. PICK s \in Socket : sock[s] = "unused" /\ ws' = s
      BY <2>1, <2>5, SendOpens
    <3>2. line'[s] = "absent" /\ toBr'[s] = <<>>
      BY <2>2, <3>1 DEF LinesFit
    <3> QED BY <2>2, <3>1, <3>2, CallsOfNew
  <2> QED BY <2>4, <2>5
<1> QED BY <1>1, <1>2

\* A message from the gateway that is no call event.
LEMMA HearsOther ==
    ASSUME AppTypes, PageTypes, QueueTypes, HistoryTypes, DialsAreSingle, IdleIsHangup, BusyIsCall,
           Agents \/ Network \/ Events \/ UNCHANGED vars,
           UNCHANGED <<ws, sock, callStatus, orphaned>>,
           NEW s \in Socket, NEW kinds, kinds \cap CallEvent = {}, Receive(s, kinds)
    PROVE  IdleIsHangup' /\ BusyIsCall'
<1> DEFINE W == [ev : Event, arg : {None}]
<1>1. /\ toBr \in [Socket -> Seq(W)]
      /\ toBr[s] # <<>> /\ Head(toBr[s]).ev \notin CallEvent
      /\ toBr' = [toBr EXCEPT ![s] = Tail(@)]
  BY DEF QueueTypes, Receive
<1> HIDE DEF W
<1>2. CASE ws = None
  BY <1>2, CallsOfNone
<1>3. CASE ws \in Socket
  <2>1. ASSUME NEW v
        PROVE  WillShow(toBr'[ws], callStatus, v) <=> WillShow(toBr[ws], callStatus, v)
    <3>1. CASE ws = s
      <4>1. toBr[s] \in Seq(W) /\ toBr'[ws] = Tail(toBr[s])
        BY <1>1, <3>1
      <4> QED BY <1>1, <3>1, <4>1, ShowsTail
    <3>2. CASE ws # s
      <4>1. toBr'[ws] = toBr[ws]
        BY <1>1, <1>3, <3>2
      <4> QED BY <4>1
    <3> QED BY <3>1, <3>2
  <2> QED BY <2>1, BrowserQuiet
<1> QED BY <1>2, <1>3 DEF PageTypes

\* A call event: on ws the Dashboard shows what it was going to show; on
\* another socket there is one that was left behind.
LEMMA HearsCalls ==
    ASSUME AppTypes, PageTypes, QueueTypes, HistoryTypes, DialsAreSingle, SocketsAreOwned,
           SessionHasSocket, IdleIsHangup, BusyIsCall, NEW s \in Socket, OnCallEvent(s)
    PROVE  IdleIsHangup' /\ BusyIsCall'
<1> DEFINE W == [ev : Event, arg : {None}]
<1>1. /\ toBr \in [Socket -> Seq(W)]
      /\ toBr[s] # <<>> /\ Head(toBr[s]).ev \in CallEvent
      /\ toBr' = [toBr EXCEPT ![s] = Tail(@)]
      /\ sock[s] = "open"
      /\ LoggedIn => callStatus' = Told(Head(toBr[s]).ev)
  BY DEF QueueTypes, OnCallEvent, Receive, CallEvent, Shows, Told
<1> HIDE DEF W
<1>2. UNCHANGED <<ws, sock, orphaned, overlap, misled, line, dialing, gpeers, ended>>
  BY DEF OnCallEvent, sendVars, connectVars, pageVars, gwVars, histVars, raceVars
<1>3. CASE ws = None
  BY <1>2, <1>3, CallsOfNone
<1>4. CASE ws \in Socket /\ ws # s
  <2>1. s \in orphaned
    BY <1>1, <1>4 DEF SocketsAreOwned, InUse
  <2>2. LeftBehind' /\ ~ Alone'
    BY <1>1, <1>2, <1>4, <2>1 DEF LeftBehind, Alone
  <2> QED BY <2>2, CallsAfter
<1>5. CASE ws = s
  <2>1. callStatus' = Told(Head(toBr[s]).ev)
    BY <1>1, <1>5, NoneAssumption DEF SessionHasSocket
  <2>2. toBr[s] \in Seq(W) /\ toBr'[ws] = Tail(toBr[s])
    BY <1>1, <1>5
  <2>3. \A v : WillShow(toBr'[ws], callStatus', v) <=> WillShow(toBr[ws], callStatus, v)
    BY <1>1, <1>5, <2>1, <2>2, ShowsTail
  <2>4. ws \in Socket /\ Events
    BY <1>5 DEF Events
  <2>5. HangupComes => HangupComes'
    <3>1. OnItsWay(Msg("hangup", None)) => OnItsWay(Msg("hangup", None))'
      BY <1>2, <2>4, WayStays
    <3> QED BY <3>1, WayAfter DEF HangupComes
  <2>6. DialComes => DialComes'
    BY <1>2, <2>4, DialStillComes
  <2>7. (InUse(ws)' <=> InUse(ws)) /\ (Alone' <=> Alone) /\ (LeftBehind' <=> LeftBehind)
    BY <1>2 DEF InUse, Alone, LeftBehind
  <2> QED BY <1>2, <2>3, <2>5, <2>6, <2>7, CallsStay
<1> QED BY <1>3, <1>4, <1>5 DEF PageTypes

\* The steps that leave calls and sockets as they are.
QuietSteps ==
    \/ \E g \in Prompt : MicGranted(g) \/ MicDenied(g)
    \/ ResumeOffer
    \/ \E s \in Socket :
          \/ RemoteDescriptionSet(s)
          \/ drainIceCandidates(s)
          \/ AnswerCreated(s)
          \/ LocalDescriptionSet(s)
    \/ OnIceCandidate
    \/ UNCHANGED vars

\* What they leave.
LEMMA QuietStepsLeave ==
    ASSUME QuietSteps
    PROVE  UNCHANGED <<ws, callStatus, sock, orphaned, toBr>>
<1>1. ASSUME NEW g \in Prompt, MicGranted(g) \/ MicDenied(g)
      PROVE  UNCHANGED <<ws, callStatus, sock, orphaned, toBr>>
  <2>1. CASE MicGranted(g)
    <3>1. /\ UNCHANGED <<appVars, ws, pc, iceCandidateQueue, micPromise, sock, timers, toGw,
                     sends, handler, toBr, gwVars, histVars>>
      BY <2>1 DEF MicGranted
    <3> QED BY <3>1 DEF appVars, histVars, raceVars
  <2>2. CASE MicDenied(g)
    BY <2>2 DEF MicDenied, appVars, histVars, raceVars
  <2> QED BY <1>1, <2>1, <2>2
<1> QED
  BY <1>1 DEF QuietSteps, ResumeOffer, RemoteDescriptionSet, drainIceCandidates, AnswerCreated,
         LocalDescriptionSet, OnIceCandidate, appVars, pageVars, connectVars, sendVars, histVars,
         raceVars, vars

\* A step of the browser keeps the status and the line together.
LEMMA BrowserCalls ==
    ASSUME AppTypes, PageTypes, QueueTypes, HistoryTypes, DialsAreSingle, WsIsNotClosed, LinesFit,
           SocketsAreOwned, SessionHasSocket, IdleIsHangup, BusyIsCall,
           Agents \/ Network \/ Events \/ UNCHANGED vars
    PROVE  IdleIsHangup' /\ BusyIsCall'
<1>1. ASSUME NEW a \in Agent, Login(a) PROVE IdleIsHangup' /\ BusyIsCall'
  <2>1. connect /\ callStatus' = "idle" /\ UNCHANGED <<line, toBr>>
    BY <1>1 DEF Login, gwVars
  <2>2. ~ LoggedIn
    BY <1>1 DEF Login
  <2>3. ws = None
    BY <2>2 DEF SessionHasSocket
  <2>4. PICK s \in Socket : sock[s] = "unused" /\ ws' = s
    BY <2>1, <2>3, ConnectOpens
  <2>5. line'[s] = "absent" /\ toBr'[s] = <<>>
    BY <2>1, <2>4 DEF LinesFit
  <2> QED BY <2>1, <2>4, <2>5, CallsOfNew
<1>2. ASSUME NEW d \in Click, handleDial(d) \/ handleCallCustomer(d)
      PROVE  IdleIsHangup' /\ BusyIsCall'
  <2>1. dial(d)
    BY <1>2 DEF handleDial, handleCallCustomer
  <2> QED BY <1>2, <2>1, DialCalls
<1>3. CASE handleHangup
  BY <1>3, HangupCalls
<1>4. CASE handleLogout
  BY <1>4, SendCalls DEF handleLogout, appVars, histVars, raceVars
<1>5. CASE QuietSteps
  <2>1. UNCHANGED <<ws, callStatus, sock, orphaned, toBr>>
    BY <1>5, QuietStepsLeave
  <2> QED BY <2>1, BrowserQuiet
<1>6. ASSUME NEW s \in Socket, SocketOpens(s) PROVE IdleIsHangup' /\ BusyIsCall'
  <2>1. Turns
    BY <1>6 DEF SocketOpens, Turns, histVars, raceVars
  <2>2. UNCHANGED <<ws, callStatus, toBr>>
    BY <1>6 DEF SocketOpens
  <2> QED BY <2>1, <2>2, BrowserQuiet
<1>7. ASSUME NEW s \in Socket, SocketCloses(s) PROVE IdleIsHangup' /\ BusyIsCall'
  <2>1. ws' = None
    BY <1>7 DEF SocketCloses
  <2> QED BY <2>1, CallsOfNone
<1>8. ASSUME NEW s \in Socket, SocketClosing(s) PROVE IdleIsHangup' /\ BusyIsCall'
  <2>1. Turns
    BY <1>8 DEF SocketClosing, Turns, histVars, raceVars
  <2>2. UNCHANGED <<ws, callStatus, toBr>>
    BY <1>8 DEF SocketClosing, appVars
  <2> QED BY <2>1, <2>2, BrowserQuiet
<1>9. CASE disconnect
  <2>1. ws' = None
    BY <1>9 DEF disconnect
  <2> QED BY <2>1, CallsOfNone
<1>10. CASE ResumeSend
  BY <1>10, SendCalls DEF ResumeSend, appVars, histVars, raceVars
<1>11. ASSUME NEW i \in DOMAIN timers, TimerFires(i) PROVE IdleIsHangup' /\ BusyIsCall'
  BY <1>11, SendCalls DEF TimerFires, appVars, histVars, raceVars
<1>12. ASSUME NEW s \in Socket, OnOffer(s) PROVE IdleIsHangup' /\ BusyIsCall'
  <2>1. Receive(s, {"offer"}) /\ UNCHANGED <<ws, sock, callStatus, orphaned>>
    BY <1>12 DEF OnOffer, appVars, histVars, raceVars
  <2>2. {"offer"} \cap CallEvent = {}
    BY DEF CallEvent
  <2> QED BY <2>1, <2>2, HearsOther
<1>13. ASSUME NEW s \in Socket, OnCandidate(s) PROVE IdleIsHangup' /\ BusyIsCall'
  <2>1. Receive(s, {"candidate"}) /\ UNCHANGED <<ws, sock, callStatus, orphaned>>
    BY <1>13 DEF OnCandidate, appVars, histVars, raceVars
  <2>2. {"candidate"} \cap CallEvent = {}
    BY DEF CallEvent
  <2> QED BY <2>1, <2>2, HearsOther
<1>14. ASSUME NEW s \in Socket, OnCallEvent(s) PROVE IdleIsHangup' /\ BusyIsCall'
  BY <1>14, HearsCalls
<1>15. ASSUME NEW s \in Socket, OnAuthReply(s) PROVE IdleIsHangup' /\ BusyIsCall'
  <2>1. /\ Receive(s, {"auth-ok"}) \/ Receive(s, {"auth-error"})
        /\ UNCHANGED <<ws, sock, callStatus, orphaned>>
    BY <1>15 DEF OnAuthReply, sendVars, connectVars, pageVars, histVars, raceVars
  <2>2. {"auth-ok"} \cap CallEvent = {} /\ {"auth-error"} \cap CallEvent = {}
    BY DEF CallEvent
  <2> QED BY <2>1, <2>2, HearsOther
<1>16. CASE Agents
  BY <1>1, <1>2, <1>3, <1>4, <1>5, <1>16 DEF Agents, QuietSteps
<1>17. CASE Network
  BY <1>6, <1>7, <1>8, <1>17 DEF Network
<1>18. CASE Events
  BY <1>5, <1>9, <1>10, <1>11, <1>12, <1>13, <1>14, <1>15, <1>18 DEF Events, QuietSteps
<1>19. CASE UNCHANGED vars
  BY <1>5, <1>19 DEF QuietSteps
<1> QED BY <1>16, <1>17, <1>18, <1>19

\* What a step of the gateway leaves: the page, and what is on its way but for
\* the message that is read.
LEMMA GatewayKeeps ==
    ASSUME QueueTypes, ws \in Socket, GatewaySteps
    PROVE  /\ UNCHANGED <<ws, callStatus, sock, orphaned>>
           /\ InUse(ws)' <=> InUse(ws)
           /\ Alone' <=> Alone
           /\ LeftBehind' <=> LeftBehind
           /\ toGw'[ws] = toGw[ws] =>
                 (HangupComes => HangupComes') /\ (DialComes => DialComes')
           /\ toGw[ws] # <<>> /\ toGw'[ws] = Tail(toGw[ws]) =>
                 /\ Head(toGw[ws]).ev # "hangup" => (HangupComes => HangupComes')
                 /\ Head(toGw[ws]).ev # "dial" => (DialComes => DialComes')
<1> DEFINE W == Sendable \cup [ev : {"auth"}, arg : Agent]
<1>1. UNCHANGED <<ws, callStatus, sock, orphaned, todo, timers, waiters>>
  BY GatewayLeavesBrowser DEF browserPart, browserVars, appVars, connectVars, pageVars
<1>2. (InUse(ws)' <=> InUse(ws)) /\ (Alone' <=> Alone) /\ (LeftBehind' <=> LeftBehind)
  BY <1>1 DEF InUse, Alone, LeftBehind
<1>3. ASSUME NEW m PROVE (PutOff(m)' <=> PutOff(m)) /\ (Held(m)' <=> Held(m))
  BY <1>1, PlacesAfter DEF Held, Resumes, Awaits, PutOff
<1>4. ASSUME NEW m, Has(toGw[ws], m) => Has(toGw'[ws], m) PROVE OnItsWay(m) => OnItsWay(m)'
  BY <1>1, <1>3, <1>4, WayAfter DEF OnItsWay
<1>5. ASSUME toGw'[ws] = toGw[ws], NEW m PROVE Has(toGw[ws], m) => Has(toGw'[ws], m)
  BY <1>5
<1>6. ASSUME toGw[ws] # <<>>, toGw'[ws] = Tail(toGw[ws]), NEW m, Head(toGw[ws]) # m
      PROVE  Has(toGw[ws], m) => Has(toGw'[ws], m)
  <2>1. toGw[ws] \in Seq(W)
    BY DEF QueueTypes
  <2> HIDE DEF W
  <2> QED BY <1>6, <2>1, HasTail
<1>7. ASSUME \A d \in Click : Has(toGw[ws], Msg("dial", d)) => Has(toGw'[ws], Msg("dial", d))
      PROVE  DialComes => DialComes'
  <2>1. \A d \in Click : OnItsWay(Msg("dial", d)) => OnItsWay(Msg("dial", d))'
    BY <1>4, <1>7
  <2>2. \A d \in Click : Held(Msg("dial", d)) => Held(Msg("dial", d))'
    BY <1>3
  <2> QED BY <2>1, <2>2, WayAfter DEF DialComes
<1>8. ASSUME Has(toGw[ws], Msg("hangup", None)) => Has(toGw'[ws], Msg("hangup", None))
      PROVE  HangupComes => HangupComes'
  <2>1. OnItsWay(Msg("hangup", None)) => OnItsWay(Msg("hangup", None))'
    BY <1>4, <1>8
  <2> QED BY <2>1, WayAfter DEF HangupComes
<1>9. ASSUME toGw'[ws] = toGw[ws] PROVE (HangupComes => HangupComes') /\ (DialComes => DialComes')
  BY <1>5, <1>7, <1>8, <1>9
<1>10. ASSUME toGw[ws] # <<>>, toGw'[ws] = Tail(toGw[ws]), Head(toGw[ws]).ev # "hangup"
       PROVE  HangupComes => HangupComes'
  <2>1. Msg("hangup", None).ev = "hangup"
    BY DEF Msg
  <2> QED BY <1>6, <1>8, <1>10, <2>1
<1>11. ASSUME toGw[ws] # <<>>, toGw'[ws] = Tail(toGw[ws]), Head(toGw[ws]).ev # "dial"
       PROVE  DialComes => DialComes'
  <2>1. \A d : Msg("dial", d).ev = "dial"
    BY DEF Msg
  <2> QED BY <1>6, <1>7, <1>11, <2>1
<1> QED BY <1>1, <1>2, <1>9, <1>10, <1>11

\* What a step on s leaves to the other connections.
Elsewhere(s) ==
    \A k \in Socket \ {s} :
        /\ line'[k] = line[k] /\ dialing'[k] = dialing[k]
        /\ toBr'[k] = toBr[k] /\ toGw'[k] = toGw[k]
        /\ k \in ended => k \in ended'
        /\ k \in overlap => k \in overlap'
        /\ k \in misled => k \in misled'

\* The steps on one connection.
StepsOn(s) ==
    \/ Accept(s)
    \/ \E e \in {"candidate", "offer"} : Signal(s, e)
    \/ ReadLoop(s)
    \/ RemoteBye(s)
    \/ PeerFailed(s)

\* They leave the others alone.
LEMMA StepsLeaveOthers ==
    ASSUME GatewayTypes, QueueTypes, NEW s \in Socket, StepsOn(s)
    PROVE  Elsewhere(s)
<1> USE DEF GatewayTypes, QueueTypes, Gateway!TypeOK, Elsewhere
<1>1. ASSUME NEW from, NEW to, NEW c, Gateway!Goes(s, from, to, c)
      PROVE  \A k \in Socket \ {s} : line'[k] = line[k]
  BY <1>1 DEF Gateway!Goes
<1>2. ASSUME NEW e, Write({s}, e) PROVE \A k \in Socket \ {s} : toBr'[k] = toBr[k]
  BY <1>2 DEF Write
<1>3. ASSUME NEW kinds, Read(s, kinds)
      PROVE  /\ \A k \in Socket \ {s} : toGw'[k] = toGw[k]
             /\ UNCHANGED <<ended, misled>>
  BY <1>3 DEF Read
<1>4. CASE Accept(s)
  BY <1>1, <1>4 DEF Accept, Gateway!Arrive, histVars, raceVars
<1>5. CASE \E e \in {"candidate", "offer"} : Signal(s, e)
  BY <1>2, <1>5 DEF Signal, histVars, raceVars
<1>6. CASE ReadAuth(s)
  BY <1>2, <1>3, <1>6 DEF ReadAuth
<1>7. CASE ReadDial(s)
  BY <1>1, <1>2, <1>3, <1>7 DEF ReadDial, Gateway!LiftReceiver
<1>8. CASE ReadHangup(s)
  BY <1>1, <1>3, <1>8 DEF ReadHangup, Gateway!Hangup
<1>9. CASE ReadSignal(s)
  BY <1>3, <1>9 DEF ReadSignal
<1>10. CASE Invite(s)
  BY <1>1, <1>2, <1>10 DEF Invite, Gateway!Dial, gwRest, histVars, raceVars
<1>11. CASE InviteFails(s)
  BY <1>1, <1>2, <1>11 DEF InviteFails, Gateway!Fail, gwRest, histVars, raceVars
<1>12. CASE InviteAnswered(s)
  BY <1>1, <1>12 DEF InviteAnswered, Gateway!Answer, gwRest, histVars, raceVars
<1>13. CASE CallStarted(s)
  BY <1>2, <1>13 DEF CallStarted, gwRest, histVars, raceVars
<1>14. CASE HangupDone(s)
  BY <1>1, <1>2, <1>14 DEF HangupDone, Gateway!Cleared, gwRest, histVars, raceVars
<1>15. CASE ReadFails(s)
  BY <1>1, <1>15 DEF ReadFails, Gateway!Leave, histVars, raceVars
<1>16. CASE RemoteBye(s)
  BY <1>1, <1>16 DEF RemoteBye, Gateway!RemoteEnd, gwRest, histVars, raceVars
<1>17. CASE PeerFailed(s)
  BY <1>17 DEF PeerFailed, browserVars
<1> QED
  BY <1>4, <1>5, <1>6, <1>7, <1>8, <1>9, <1>10, <1>11, <1>12, <1>13, <1>14, <1>15, <1>16, <1>17
  DEF StepsOn, ReadLoop

\* A step on another connection than ws.
LEMMA OthersCalls ==
    ASSUME GatewayTypes, QueueTypes, IdleIsHangup, BusyIsCall, ws \in Socket,
           GatewaySteps, NEW s \in Socket \ {ws}, StepsOn(s)
    PROVE  IdleIsHangup' /\ BusyIsCall'
<1>1. Elsewhere(s)
  BY StepsLeaveOthers
<1>2. /\ line'[ws] = line[ws] /\ dialing'[ws] = dialing[ws]
      /\ toBr'[ws] = toBr[ws] /\ toGw'[ws] = toGw[ws]
      /\ ws \in ended => ws \in ended'
      /\ ws \in overlap => ws \in overlap'
      /\ ws \in misled => ws \in misled'
  BY <1>1 DEF Elsewhere
<1>3. /\ UNCHANGED <<ws, callStatus>>
      /\ (InUse(ws)' <=> InUse(ws)) /\ (Alone' <=> Alone) /\ (LeftBehind' <=> LeftBehind)
      /\ (HangupComes => HangupComes') /\ (DialComes => DialComes')
  BY <1>2, GatewayKeeps
<1> QED BY <1>2, <1>3, CallsStay

\* Why IdleIsHangup holds after a step of the gateway: there is no call, or it
\* is not known, or the Dashboard will show it.
LEMMA GatewayIdle ==
    ASSUME \/ line'[ws'] # "inCall"
           \/ dialing'[ws'] # None
           \/ ws' \in overlap' \cup misled'
           \/ ~ WillShow(toBr'[ws'], callStatus', "idle")
    PROVE  IdleIsHangup'
BY CallsAfter

\* Why BusyIsCall does: there is a call, or the Dashboard will show none.
LEMMA GatewayBusy ==
    ASSUME \/ ws' \in misled'
           \/ WillShow(toBr'[ws'], callStatus', "idle")
           \/ dialing'[ws'] # None
           \/ /\ WillShow(toBr'[ws'], callStatus', "connected")
              /\ line'[ws'] \in {"inCall", "clearing"} \/ ws' \in ended'
    PROVE  BusyIsCall'
BY CallsAfter

\* A message to ws, and what it shows.
LEMMA WriteShows ==
    ASSUME QueueTypes, ws \in Socket, NEW S, ws \in S, NEW e \in Event, Write(S, e), NEW v, NEW st
    PROVE  /\ e \notin CallEvent => (WillShow(toBr'[ws], st, v) <=> WillShow(toBr[ws], st, v))
           /\ e \in CallEvent /\ InUse(ws) => (WillShow(toBr'[ws], st, v) <=> Told(e) = v)
<1> DEFINE W == [ev : Event, arg : {None}]
<1>1. /\ toBr[ws] \in Seq(W) /\ Msg(e, None) \in W /\ Msg(e, None).ev = e
      /\ toBr'[ws] = IF InUse(ws) THEN Append(toBr[ws], Msg(e, None)) ELSE toBr[ws]
  <2>1. toBr \in [Socket -> Seq([ev : Event, arg : {None}])]
    BY DEF QueueTypes
  <2>2. toBr'[ws] = IF InUse(ws) THEN Append(toBr[ws], Msg(e, None)) ELSE toBr[ws]
    BY <2>1, WriteAppends
  <2> QED BY <2>1, <2>2 DEF Msg
<1> HIDE DEF W
<1>2. CASE InUse(ws)
  <2>1. toBr'[ws] = Append(toBr[ws], Msg(e, None))
    BY <1>1, <1>2
  <2> QED BY <1>1, <1>2, <2>1, ShowsAppend
<1>3. CASE ~ InUse(ws)
  BY <1>1, <1>3
<1> QED BY <1>2, <1>3

\* A message on ws that says nothing of calls, and one read that asks for none.
LEMMA SignalCalls ==
    ASSUME QueueTypes, GatewayTypes, HistoryTypes, LinesFit, IdleIsHangup, BusyIsCall,
           ws \in Socket, GatewaySteps,
           \/ \E e \in {"candidate", "offer"} : Signal(ws, e)
           \/ ReadAuth(ws)
           \/ ReadSignal(ws)
    PROVE  IdleIsHangup' /\ BusyIsCall'
<1>1. /\ UNCHANGED <<ws, callStatus>>
      /\ (InUse(ws)' <=> InUse(ws)) /\ (Alone' <=> Alone) /\ (LeftBehind' <=> LeftBehind)
  BY GatewayKeeps
<1>2. ASSUME NEW e \in {"candidate", "offer", "auth-ok", "auth-error"}, Write({ws}, e), NEW v
      PROVE  WillShow(toBr'[ws], callStatus, v) <=> WillShow(toBr[ws], callStatus, v)
  <2>1. e \in Event /\ e \notin CallEvent
    BY DEF Event, CallEvent
  <2> QED BY <1>2, <2>1, WriteShows
<1>3. CASE \E e \in {"candidate", "offer"} : Signal(ws, e)
  <2>1. PICK e \in {"candidate", "offer"} :
           /\ Write({ws}, e)
           /\ UNCHANGED <<toGw, line, dialing, gpeers, ended, overlap, misled>>
    BY <1>3 DEF Signal, histVars, raceVars
  <2>2. \A v : WillShow(toBr'[ws], callStatus, v) <=> WillShow(toBr[ws], callStatus, v)
    BY <1>2, <2>1
  <2>3. (HangupComes => HangupComes') /\ (DialComes => DialComes')
    BY <2>1, GatewayKeeps
  <2> QED BY <1>1, <2>1, <2>2, <2>3, CallsStay
<1>4. CASE ReadAuth(ws) \/ ReadSignal(ws)
  <2>1. PICK kinds \in {{"auth"}, {"answer", "candidate"}} :
           /\ Read(ws, kinds)
           /\ UNCHANGED toBr \/ \E e \in {"auth-ok", "auth-error"} : Write({ws}, e)
           /\ UNCHANGED <<line, dialing, overlap>>
    BY <1>4 DEF ReadAuth, ReadSignal
  <2>2. /\ toGw[ws] # <<>> /\ Head(toGw[ws]).ev \in kinds
        /\ toGw'[ws] = Tail(toGw[ws])
        /\ UNCHANGED <<gpeers, ended, misled>>
    BY <2>1 DEF Read, QueueTypes
  <2>3. \A v : WillShow(toBr'[ws], callStatus, v) <=> WillShow(toBr[ws], callStatus, v)
    BY <1>2, <2>1
  <2>4. (HangupComes => HangupComes') /\ (DialComes => DialComes')
    BY <2>2, GatewayKeeps
  <2> QED BY <1>1, <2>1, <2>2, <2>3, <2>4, CallsStay
<1> QED BY <1>3, <1>4

\* A dial or a hangup is read.
LEMMA ReadCalls ==
    ASSUME QueueTypes, GatewayTypes, HistoryTypes, LinesFit, IdleIsHangup, BusyIsCall,
           ws \in Socket, GatewaySteps, ReadDial(ws) \/ ReadHangup(ws)
    PROVE  IdleIsHangup' /\ BusyIsCall'
<1>1. /\ UNCHANGED <<ws, callStatus>>
      /\ (InUse(ws)' <=> InUse(ws)) /\ (Alone' <=> Alone) /\ (LeftBehind' <=> LeftBehind)
  BY GatewayKeeps
<1>2. CASE ~ InUse(ws)
  BY <1>1, <1>2, CallsOfNone
<1>3. CASE InUse(ws) /\ ReadDial(ws)
  <2>1. /\ line[ws] \in {"idle", "inCall"} /\ UNCHANGED misled
        /\ Head(toGw[ws]).arg \in Click
    <3>1. Read(ws, {"dial"})
      BY <1>3 DEF ReadDial
    <3> QED BY <3>1, ReadTakes
  <2>2. CASE line[ws] = "inCall" \/ ws \notin authed
    <3>1. /\ Write({ws}, "dial-error") /\ UNCHANGED line
          /\ line[ws] = "inCall" => ws \in overlap'
      BY <1>3, <2>2 DEF ReadDial
    <3>2. "dial-error" \in Event /\ "dial-error" \in CallEvent /\ Told("dial-error") = "idle"
      BY DEF Event, CallEvent, Told
    <3>3. WillShow(toBr'[ws], callStatus, "idle")
      BY <1>3, <3>1, <3>2, WriteShows
    <3>4. BusyIsCall'
      BY <1>1, <3>3, GatewayBusy
    <3>5. IdleIsHangup'
      BY <1>1, <2>1, <3>1, GatewayIdle
    <3> QED BY <3>4, <3>5
  <2>3. CASE ~ (line[ws] = "inCall" \/ ws \notin authed)
    <3>1. dialing' = [dialing EXCEPT ![ws] = Head(toGw[ws]).arg]
      BY <1>3, <2>3 DEF ReadDial
    <3>2. dialing'[ws] # None
      BY <2>1, <3>1, NoneAssumption DEF GatewayTypes
    <3> QED BY <1>1, <3>2, GatewayIdle, GatewayBusy
  <2> QED BY <2>2, <2>3
<1>4. CASE ReadHangup(ws)
  <2>1. /\ line[ws] \in {"idle", "inCall"} /\ dialing[ws] = None
        /\ toGw[ws] # <<>> /\ Head(toGw[ws]).ev = "hangup"
        /\ toGw'[ws] = Tail(toGw[ws])
        /\ UNCHANGED <<gpeers, ended, misled, toBr, dialing>>
    BY <1>4 DEF ReadHangup, Read, QueueTypes
  <2>2. DialComes => DialComes'
    BY <2>1, GatewayKeeps
  <2>3. line'[ws] = IF line[ws] = "inCall" THEN "clearing" ELSE line[ws]
    <3>1. CASE line[ws] = "inCall"
      <4>1. Gateway!Hangup(ws)
        BY <1>4, <3>1 DEF ReadHangup
      <4> QED BY <3>1, <4>1, LinesGo DEF GatewayTypes, Gateway!TypeOK
    <3>2. CASE line[ws] # "inCall"
      BY <1>4, <3>2 DEF ReadHangup
    <3> QED BY <3>1, <3>2
  <2>4. IdleIsHangup'
    BY <1>1, <2>1, <2>3, GatewayIdle
  <2>5. BusyIsCall'
    BY <1>1, <2>1, <2>2, <2>3, CallsAfter DEF BusyIsCall, DialComes
  <2> QED BY <2>4, <2>5
<1> QED BY <1>2, <1>3, <1>4

\* handleDial goes on, or a hangup is done.
LEMMA DialingCalls ==
    ASSUME QueueTypes, GatewayTypes, LinesFit, ws \in Socket, GatewaySteps,
           Invite(ws) \/ InviteFails(ws) \/ InviteAnswered(ws) \/ CallStarted(ws) \/ HangupDone(ws)
    PROVE  IdleIsHangup' /\ BusyIsCall'
<1>1. UNCHANGED <<ws, callStatus>> /\ (InUse(ws)' <=> InUse(ws))
  BY GatewayKeeps
<1>2. CASE ~ InUse(ws)
  BY <1>1, <1>2, CallsOfNone
<1>3. ASSUME InUse(ws), line'[ws] = "idle",
             Write({ws}, "dial-error") \/ Write({ws}, "call-ended")
      PROVE  IdleIsHangup' /\ BusyIsCall'
  <2>1. \A e \in {"dial-error", "call-ended"} : e \in Event /\ e \in CallEvent /\ Told(e) = "idle"
    BY DEF Event, CallEvent, Told
  <2>2. WillShow(toBr'[ws], callStatus, "idle")
    BY <1>3, <2>1, WriteShows
  <2> QED BY <1>1, <1>3, <2>2, GatewayIdle, GatewayBusy
<1>4. CASE InUse(ws) /\ Invite(ws)
  <2>1. CASE line'[ws] = "idle"
    BY <1>3, <1>4, <2>1 DEF Invite
  <2>2. CASE line'[ws] # "idle"
    <3>1. line[ws] = "dialling" /\ UNCHANGED dialing
      BY <1>4, <2>2 DEF Invite, Gateway!Dial, Gateway!Goes
    <3>2. dialing'[ws] # None
      BY <3>1 DEF LinesFit
    <3> QED BY <1>1, <3>2, GatewayIdle, GatewayBusy
  <2> QED BY <2>1, <2>2
<1>5. CASE InUse(ws) /\ InviteFails(ws)
  <2>1. line' = [line EXCEPT ![ws] = "idle"]
    BY <1>5, LinesGo DEF InviteFails, GatewayTypes
  <2>2. line'[ws] = "idle"
    BY <2>1 DEF GatewayTypes, Gateway!TypeOK
  <2> QED BY <1>3, <1>5, <2>2 DEF InviteFails
<1>6. CASE InviteAnswered(ws)
  <2>1. line[ws] = "dialling" /\ UNCHANGED dialing
    BY <1>6 DEF InviteAnswered, Gateway!Answer, Gateway!Goes
  <2>2. dialing'[ws] # None
    BY <2>1 DEF LinesFit
  <2> QED BY <1>1, <2>2, GatewayIdle, GatewayBusy
<1>7. CASE InUse(ws) /\ CallStarted(ws)
  <2>1. /\ dialing[ws] # None /\ line[ws] \in {"inCall", "idle"}
        /\ Write({ws}, "call-started")
        /\ UNCHANGED <<line, gpeers, ended, misled>>
    BY <1>7 DEF CallStarted, gwRest, histVars, raceVars
  <2>2. /\ "call-started" \in Event /\ "call-started" \in CallEvent
        /\ Told("call-started") = "connected"
    BY DEF Event, CallEvent, Told
  <2>3. WillShow(toBr'[ws], callStatus, "connected") /\ ~ WillShow(toBr'[ws], callStatus, "idle")
    BY <1>7, <2>1, <2>2, WriteShows
  <2>4. \/ line[ws] = "inCall"
        \/ line[ws] = "idle" /\ ws \in ended \cup misled
    BY <2>1 DEF LinesFit
  <2>5. IdleIsHangup'
    BY <1>1, <2>3, GatewayIdle
  <2>6. BusyIsCall'
    BY <1>1, <2>1, <2>3, <2>4, GatewayBusy
  <2> QED BY <2>5, <2>6
<1>8. CASE InUse(ws) /\ HangupDone(ws)
  <2>1. line' = [line EXCEPT ![ws] = "idle"]
    BY <1>8, LinesGo DEF HangupDone, GatewayTypes
  <2>2. line'[ws] = "idle"
    BY <2>1 DEF GatewayTypes, Gateway!TypeOK
  <2> QED BY <1>3, <1>8, <2>2 DEF HangupDone
<1> QED BY <1>2, <1>4, <1>5, <1>6, <1>7, <1>8

\* A connection begins or ends, or its call does.
LEMMA ConnectionCalls ==
    ASSUME QueueTypes, GatewayTypes, LinesFit, IdleIsHangup, BusyIsCall,
           ws \in Socket, GatewaySteps,
           Accept(ws) \/ RemoteBye(ws) \/ PeerFailed(ws) \/ ReadFails(ws)
    PROVE  IdleIsHangup' /\ BusyIsCall'
<1>1. /\ UNCHANGED <<ws, callStatus, sock>>
      /\ (InUse(ws)' <=> InUse(ws)) /\ (Alone' <=> Alone) /\ (LeftBehind' <=> LeftBehind)
  BY GatewayKeeps
<1>2. CASE Accept(ws)
  <2>1. line[ws] = "absent" /\ line' = [line EXCEPT ![ws] = "idle"]
    BY <1>2, LinesGo DEF Accept, GatewayTypes
  <2>2. line'[ws] = "idle"
    BY <2>1 DEF GatewayTypes, Gateway!TypeOK
  <2>3. UNCHANGED <<toGw, toBr, dialing, ended, misled>>
    BY <1>2 DEF Accept, histVars, raceVars
  <2>4. DialComes => DialComes'
    BY <2>3, GatewayKeeps
  <2>5. ws \notin ended /\ dialing[ws] = None
    BY <2>1 DEF LinesFit
  <2>6. IdleIsHangup'
    BY <1>1, <2>2, GatewayIdle
  <2>7. BusyIsCall'
    BY <1>1, <2>1, <2>3, <2>4, <2>5, CallsAfter DEF BusyIsCall, DialComes
  <2> QED BY <2>6, <2>7
<1>3. CASE RemoteBye(ws)
  <2>1. line[ws] = "inCall" /\ line' = [line EXCEPT ![ws] = "idle"]
    BY <1>3, LinesGo DEF RemoteBye, GatewayTypes
  <2>2. line'[ws] = "idle"
    BY <2>1 DEF GatewayTypes, Gateway!TypeOK
  <2>3. ended' = ended \cup {ws} /\ UNCHANGED <<toGw, toBr, dialing, gpeers, misled>>
    BY <1>3 DEF RemoteBye, gwRest, histVars, raceVars
  <2>4. DialComes => DialComes'
    BY <2>3, GatewayKeeps
  <2>5. IdleIsHangup'
    BY <1>1, <2>2, GatewayIdle
  <2>6. BusyIsCall'
    BY <1>1, <2>1, <2>2, <2>3, <2>4, CallsAfter DEF BusyIsCall, DialComes
  <2> QED BY <2>5, <2>6
<1>4. CASE PeerFailed(ws)
  <2>1. /\ UNCHANGED <<toGw, toBr, line, dialing, ended, overlap>>
        /\ misled \subseteq misled'
    BY <1>4 DEF PeerFailed, browserVars
  <2>2. (HangupComes => HangupComes') /\ (DialComes => DialComes')
    BY <2>1, GatewayKeeps
  <2> QED BY <1>1, <2>1, <2>2, CallsStay
<1>5. CASE ReadFails(ws)
  <2>1. ~ InUse(ws)
    BY <1>5 DEF ReadFails, InUse
  <2> QED BY <1>1, <2>1, CallsOfNone
<1> QED BY <1>2, <1>3, <1>4, <1>5

\* All browsers are told of the end of a call, or of a call of others.
LEMMA BroadcastCalls ==
    ASSUME QueueTypes, GatewayTypes, LinesFit, IdleIsHangup, BusyIsCall,
           ws \in Socket, GatewaySteps,
           \/ \E s \in Socket : BroadcastEnd(s)
           \/ \E e \in {"call-started", "call-ended"} : BroadcastForeign(e)
    PROVE  IdleIsHangup' /\ BusyIsCall'
<1>1. /\ UNCHANGED <<ws, callStatus>>
      /\ (InUse(ws)' <=> InUse(ws)) /\ (Alone' <=> Alone) /\ (LeftBehind' <=> LeftBehind)
  BY GatewayKeeps
<1>2. UNCHANGED <<toGw, line, dialing, gpeers, overlap>> /\ misled \subseteq misled'
  BY DEF BroadcastEnd, BroadcastForeign, gwRest
<1>3. (HangupComes => HangupComes') /\ (DialComes => DialComes')
  BY <1>2, GatewayKeeps
<1>4. CASE ~ InUse(ws)
  BY <1>1, <1>4, CallsOfNone
<1>5. CASE ws \notin gpeers
  <2>1. toBr'[ws] = toBr[ws]
    BY <1>5 DEF BroadcastEnd, BroadcastForeign, Write
  <2>2. ws \in ended /\ InUse(ws) => ws \in misled
    BY <1>5 DEF LinesFit
  <2>3. IdleIsHangup'
    BY <1>1, <1>2, <1>3, <2>1, CallsAfter DEF IdleIsHangup, HangupComes
  <2>4. BusyIsCall'
    BY <1>1, <1>2, <1>3, <1>5, <2>1, <2>2, CallsAfter DEF BusyIsCall, DialComes
  <2> QED BY <2>3, <2>4
<1>6. ASSUME InUse(ws), ws \in gpeers, NEW s \in Socket, BroadcastEnd(s)
      PROVE  IdleIsHangup' /\ BusyIsCall'
  <2>1. "call-ended" \in Event /\ "call-ended" \in CallEvent /\ Told("call-ended") = "idle"
    BY DEF Event, CallEvent, Told
  <2>2. Write(gpeers, "call-ended")
    BY <1>6 DEF BroadcastEnd
  <2>3. WillShow(toBr'[ws], callStatus, "idle")
    BY <1>6, <2>1, <2>2, WriteShows
  <2>4. line[ws] # "inCall" \/ ws \in misled'
    BY <1>6 DEF BroadcastEnd
  <2> QED BY <1>1, <1>2, <2>3, <2>4, GatewayIdle, GatewayBusy
<1>7. ASSUME ws \in gpeers, NEW e, BroadcastForeign(e) PROVE IdleIsHangup' /\ BusyIsCall'
  <2>1. ws \in misled'
    BY <1>7 DEF BroadcastForeign
  <2> QED BY <1>1, <2>1, GatewayIdle, GatewayBusy
<1> QED BY <1>4, <1>5, <1>6, <1>7

\* A step of the gateway keeps the status and the line together.
LEMMA GatewayCalls ==
    ASSUME PageTypes, QueueTypes, GatewayTypes, HistoryTypes, LinesFit, IdleIsHangup, BusyIsCall,
           GatewaySteps
    PROVE  IdleIsHangup' /\ BusyIsCall'
<1>1. CASE ws = None
  <2>1. ws' = None
    BY <1>1, GatewayLeavesBrowser DEF browserPart, browserVars, connectVars, pageVars
  <2> QED BY <2>1, CallsOfNone
<1>2. CASE ws \in Socket
  <2>1. ASSUME NEW s \in Socket, s # ws, StepsOn(s) PROVE IdleIsHangup' /\ BusyIsCall'
    BY <1>2, <2>1, OthersCalls
  <2>2. ASSUME StepsOn(ws) PROVE IdleIsHangup' /\ BusyIsCall'
    BY <1>2, <2>2, SignalCalls, ReadCalls, DialingCalls, ConnectionCalls DEF StepsOn, ReadLoop
  <2>3. \/ \E s \in Socket : StepsOn(s) \/ BroadcastEnd(s)
        \/ \E e \in {"call-started", "call-ended"} : BroadcastForeign(e)
    BY DEF GatewaySteps, StepsOn
  <2> QED BY <1>2, <2>1, <2>2, <2>3, BroadcastCalls
<1> QED BY <1>1, <1>2 DEF PageTypes

-----------------------------------------------------------------------------
(***************************************************************************)
(* Dials on their way to the gateway's lines.                              *)
(***************************************************************************)

ToGateway == Sendable \cup [ev : {"auth"}, arg : Agent]

\* What a step of the browser sends: nothing, or one message, a dial counted.
Sends ==
    \/ UNCHANGED <<toGw, sends>>
    \/ \E s \in Socket, x \in ToGateway :
          /\ toGw' = [toGw EXCEPT ![s] = Append(@, x)]
          /\ sends' = IF x.ev = "dial" THEN [sends EXCEPT ![x.arg] = @ + 1] ELSE sends

\* A message to be sent.
LEMMA SendSends ==
    ASSUME PageTypes, NEW x \in Sendable, NEW rest, sendWS(x, rest)
    PROVE  Sends
<1>1. x \in ToGateway
  BY DEF ToGateway
<1>2. ws # None => ws \in Socket
  BY DEF PageTypes
<1> QED BY <1>1, <1>2 DEF Sends, sendWS

\* No step of the browser sends more.
LEMMA BrowserSends ==
    ASSUME PageTypes, QueueTypes, token \in Agent \cup {None},
           Agents \/ Network \/ Events \/ UNCHANGED vars
    PROVE  Sends
<1>1. ASSUME UNCHANGED <<toGw, sends>> PROVE Sends
  BY <1>1 DEF Sends
<1>2. Msg("hangup", None) \in Sendable
  BY DEF Sendable, Msg
<1>3. CASE Agents
  <2>1. CASE handleHangup \/ handleLogout
    BY <1>2, <2>1, SendSends DEF handleHangup, handleLogout
  <2>2. CASE \/ \E a \in Agent : Login(a)
             \/ \E d \in Click : dial(d)
             \/ \E g \in Prompt : MicGranted(g) \/ MicDenied(g)
    BY <1>1, <2>2 DEF Login, dial, MicGranted, MicDenied
  <2> QED BY <1>3, <2>1, <2>2 DEF Agents, handleDial, handleCallCustomer
<1>4. CASE Network
  <2>1. ASSUME NEW s \in Socket, SocketOpens(s) PROVE Sends
    <3>1. UNCHANGED sends /\ (LoggedIn \/ UNCHANGED toGw)
      BY <2>1 DEF SocketOpens
    <3>2. LoggedIn => /\ toGw' = [toGw EXCEPT ![s] = Append(@, Msg("auth", token))]
                      /\ Msg("auth", token) \in ToGateway /\ Msg("auth", token).ev # "dial"
      BY <2>1 DEF SocketOpens, LoggedIn, ToGateway, Msg
    <3> QED BY <3>1, <3>2 DEF Sends
  <2>2. ASSUME NEW s \in Socket, SocketCloses(s) \/ SocketClosing(s) PROVE Sends
    BY <1>1, <2>2 DEF SocketCloses, SocketClosing
  <2> QED BY <1>4, <2>1, <2>2 DEF Network
<1>5. CASE Events
  <2>1. CASE disconnect \/ ResumeOffer \/ OnIceCandidate
    BY <1>1, <2>1 DEF disconnect, ResumeOffer, OnIceCandidate
  <2>2. CASE ResumeSend
    <3>1. todo # <<>> /\ Head(todo).ev \in {"dial", "answer", "candidate"} /\ sendWS(Head(todo), timers)
      BY <2>2 DEF ResumeSend
    <3>2. Head(todo) \in Asking \cup Sendable \cup {Msg("disconnect", None)}
      BY <3>1, HeadTailProperties DEF QueueTypes
    <3>3. Head(todo) \in Sendable
      BY <3>1, <3>2 DEF Asking, Sendable, Msg
    <3> QED BY <3>1, <3>3, SendSends
  <2>3. ASSUME NEW i \in DOMAIN timers, TimerFires(i) PROVE Sends
    <3>1. timers[i] \in Timer
      BY ElementOfSeq, LenProperties DEF QueueTypes
    <3>2. timers[i].msg \in Sendable
      BY <3>1 DEF Timer
    <3> QED BY <2>3, <3>2, SendSends DEF TimerFires
  <2>4. ASSUME NEW s \in Socket, OnOffer(s) \/ OnCandidate(s) \/ OnCallEvent(s) \/ OnAuthReply(s)
        PROVE  Sends
    BY <1>1, <2>4 DEF OnOffer, OnCandidate, OnCallEvent, OnAuthReply, sendVars
  <2>5. ASSUME NEW s \in Socket,
               \/ RemoteDescriptionSet(s) \/ drainIceCandidates(s)
               \/ AnswerCreated(s) \/ LocalDescriptionSet(s)
        PROVE  Sends
    BY <1>1, <2>5 DEF RemoteDescriptionSet, drainIceCandidates, AnswerCreated, LocalDescriptionSet
  <2> QED BY <1>5, <2>1, <2>2, <2>3, <2>4, <2>5 DEF Events
<1>6. CASE UNCHANGED vars
  BY <1>1, <1>6 DEF vars, sendVars
<1> QED BY <1>3, <1>4, <1>5, <1>6

\* So a dial that comes to the gateway has not been there.
LEMMA SentArriveOnce ==
    ASSUME PageTypes, QueueTypes, HistoryTypes, token \in Agent \cup {None},
           DialsArriveOnce, DialledOnce', Agents \/ Network \/ Events \/ UNCHANGED vars
    PROVE  DialsArriveOnce'
<1>1. UNCHANGED <<line, on, dialled, dialing>>
  BY BrowserLeavesGateway DEF LeavesGateway, gwVars
<1>2. CASE UNCHANGED <<toGw, sends>>
  BY <1>1, <1>2 DEF DialsArriveOnce, AtGateway, Coming, Untried
<1>3. ASSUME NEW w \in Socket, NEW x \in ToGateway,
             toGw' = [toGw EXCEPT ![w] = Append(@, x)],
             sends' = IF x.ev = "dial" THEN [sends EXCEPT ![x.arg] = @ + 1] ELSE sends
      PROVE  DialsArriveOnce'
  <2> SUFFICES ASSUME NEW d \in Click
               PROVE  /\ \A s \in Socket :
                            /\ Once(toGw'[s], Msg("dial", d))
                            /\ Coming(s, d)' => dialing[s] # d
                            /\ Coming(s, d)' \/ (dialing[s] = d /\ Untried(s)) => d \notin dialled
                      /\ \A s, k \in Socket : AtGateway(s, d)' /\ AtGateway(k, d)' => s = k
                      /\ sends'[d] = 0 => d \notin dialled /\ \A s \in Socket : ~ AtGateway(s, d)'
    BY <1>1 DEF DialsArriveOnce, Untried
  <2> DEFINE m == Msg("dial", d)
  <2>1. toGw \in [Socket -> Seq(ToGateway)]
    BY DEF QueueTypes, ToGateway
  <2>2. \A s \in Socket : toGw'[s] = IF s = w THEN Append(toGw[w], x) ELSE toGw[s]
    BY <1>3, <2>1
  <2>3. /\ Has(Append(toGw[w], x), m) <=> Has(toGw[w], m) \/ x = m
        /\ Once(toGw[w], m) /\ (x = m => ~ Has(toGw[w], m)) => Once(Append(toGw[w], x), m)
    BY <2>1, HasAppend
  <2>4. \A s \in Socket : Coming(s, d)' <=> Coming(s, d) \/ (s = w /\ x = m)
    BY <2>2, <2>3 DEF Coming
  <2>5. \A s \in Socket : AtGateway(s, d)' <=> AtGateway(s, d) \/ (s = w /\ x = m)
    BY <1>1, <2>4 DEF AtGateway
  <2>6. /\ \A s \in Socket :
              /\ Once(toGw[s], m)
              /\ Coming(s, d) => dialing[s] # d
              /\ Coming(s, d) \/ (dialing[s] = d /\ Untried(s)) => d \notin dialled
        /\ \A s, k \in Socket : AtGateway(s, d) /\ AtGateway(k, d) => s = k
        /\ sends[d] = 0 => d \notin dialled /\ \A s \in Socket : ~ AtGateway(s, d)
    BY DEF DialsArriveOnce
  <2>7. CASE x = m
    <3>1. sends'[d] = sends[d] + 1 /\ sends[d] \in Nat
      BY <1>3, <2>7 DEF Msg, HistoryTypes
    <3>2. sends'[d] <= 1
      BY DEF DialledOnce
    <3>3. sends[d] = 0 /\ sends'[d] = 1
      BY <3>1, <3>2
    <3>4. d \notin dialled /\ \A s \in Socket : ~ AtGateway(s, d)
      BY <2>6, <3>3
    <3>5. \A s \in Socket : ~ Has(toGw[s], m) /\ dialing[s] # d
      BY <3>4 DEF AtGateway, Coming
    <3>6. \A s \in Socket : Once(toGw'[s], m)
      BY <2>2, <2>3, <2>6, <3>5
    <3> HIDE DEF m
    <3> QED BY <2>5, <3>3, <3>4, <3>5, <3>6 DEF m
  <2>8. CASE x # m
    <3>1. sends'[d] = sends[d]
      <4>1. x.ev = "dial" => x.arg \in Click /\ x = Msg("dial", x.arg)
        BY DEF ToGateway, Sendable, Msg
      <4> QED BY <1>3, <2>8, <4>1 DEF HistoryTypes
    <3>2. \A s \in Socket : Once(toGw'[s], m)
      BY <2>2, <2>3, <2>6, <2>8
    <3> HIDE DEF m
    <3> QED BY <2>4, <2>5, <2>6, <2>8, <3>1, <3>2 DEF m
  <2> QED BY <2>7, <2>8
<1> QED BY <1>2, <1>3, BrowserSends DEF Sends

\* What a step of the gateway on s does with dials: one goes, or none does;
\* one is begun; or it is dialled.
Forgets(s) ==
    /\ toGw'[s] \in {toGw[s], <<>>} \/ (toGw[s] # <<>> /\ toGw'[s] = Tail(toGw[s]))
    /\ dialing'[s] \in {dialing[s], None}
    /\ Untried(s)' => Untried(s)
    /\ UNCHANGED dialled
Begins(s) ==
    /\ toGw[s] # <<>> /\ Head(toGw[s]).ev = "dial" /\ toGw'[s] = Tail(toGw[s])
    /\ dialing[s] = None /\ dialing'[s] = Head(toGw[s]).arg
    /\ UNCHANGED dialled
Tries(s) ==
    /\ UNCHANGED toGw
    /\ dialing'[s] \in {dialing[s], None}
    /\ ~ Untried(s)'
    /\ dialled' = dialled \cup {dialing[s]}

Handles(s) ==
    /\ \A k \in Socket \ {s} : /\ toGw'[k] = toGw[k] /\ dialing'[k] = dialing[k]
                             /\ line'[k] = line[k] /\ on'[k] = on[k]
    /\ Forgets(s) \/ Begins(s) \/ Tries(s)

\* Each of its steps is one of these, if it has to do with dials.
LEMMA GatewayHandles ==
    ASSUME QueueTypes, GatewayTypes, LinesFit, GatewaySteps
    PROVE  \/ \E s \in Socket : Handles(s)
           \/ UNCHANGED <<toGw, dialing, line, on, dialled>>
<1> DEFINE Done == \/ \E s \in Socket : Handles(s)
                   \/ UNCHANGED <<toGw, dialing, line, on, dialled>>
<1>1. /\ toGw \in [Socket -> Seq(ToGateway)]
      /\ dialing \in [Socket -> Click \cup {None}]
      /\ line \in [Socket -> Gateway!LineState] /\ on \in [Socket -> Click \cup {None}]
  BY DEF QueueTypes, GatewayTypes, Gateway!TypeOK, ToGateway
\* A step that begins no dial and makes no call.
<1>2. ASSUME NEW s \in Socket,
             \/ UNCHANGED toGw
             \/ toGw' = [toGw EXCEPT ![s] = <<>>]
             \/ toGw[s] # <<>> /\ toGw' = [toGw EXCEPT ![s] = Tail(@)],
             UNCHANGED dialing \/ dialing' = [dialing EXCEPT ![s] = None],
             \/ UNCHANGED <<line, on>>
             \/ \E from, to, c : Gateway!Goes(s, from, to, c) /\ to # "dialling",
             UNCHANGED dialled
      PROVE  Done
  <2>1. \A k \in Socket \ {s} : /\ toGw'[k] = toGw[k] /\ dialing'[k] = dialing[k]
                              /\ line'[k] = line[k] /\ on'[k] = on[k]
    BY <1>1, <1>2 DEF Gateway!Goes
  <2>2. Untried(s)' => Untried(s)
    BY <1>1, <1>2 DEF Gateway!Goes, Untried
  <2>3. /\ toGw'[s] \in {toGw[s], <<>>} \/ (toGw[s] # <<>> /\ toGw'[s] = Tail(toGw[s]))
        /\ dialing'[s] \in {dialing[s], None}
    BY <1>1, <1>2
  <2> QED BY <1>2, <2>1, <2>2, <2>3 DEF Handles, Forgets
<1>3. ASSUME NEW s \in Socket, NEW kinds, Read(s, kinds)
      PROVE  toGw[s] # <<>> /\ toGw' = [toGw EXCEPT ![s] = Tail(@)] /\ dialing[s] = None
             /\ Head(toGw[s]).ev \in kinds
  BY <1>3 DEF Read
<1>4. ASSUME NEW s \in Socket, Accept(s) PROVE Done
  BY <1>2, <1>4 DEF Accept, Gateway!Arrive
<1>5. ASSUME NEW s \in Socket, NEW e, Signal(s, e) PROVE Done
  BY <1>5 DEF Signal
<1>6. ASSUME NEW s \in Socket, ReadAuth(s) \/ ReadSignal(s) PROVE Done
  BY <1>2, <1>3, <1>6 DEF ReadAuth, ReadSignal
<1>7. ASSUME NEW s \in Socket, ReadDial(s) PROVE Done
  <2>1. CASE UNCHANGED <<line, on, dialled, dialing>>
    BY <1>2, <1>3, <1>7, <2>1 DEF ReadDial
  <2>2. CASE Gateway!LiftReceiver(s) /\ dialing' = [dialing EXCEPT ![s] = Head(toGw[s]).arg]
    <3>1. /\ toGw[s] # <<>> /\ Head(toGw[s]).ev = "dial" /\ dialing[s] = None
          /\ toGw' = [toGw EXCEPT ![s] = Tail(@)]
      BY <1>3, <1>7 DEF ReadDial
    <3>2. \A k \in Socket \ {s} : /\ toGw'[k] = toGw[k] /\ dialing'[k] = dialing[k]
                                /\ line'[k] = line[k] /\ on'[k] = on[k]
      BY <1>1, <2>2, <3>1 DEF Gateway!LiftReceiver, Gateway!Goes
    <3>3. Begins(s)
      BY <1>1, <2>2, <3>1 DEF Begins, Gateway!LiftReceiver
    <3> QED BY <3>2, <3>3 DEF Handles
  <2> QED BY <1>7, <2>1, <2>2 DEF ReadDial
<1>8. ASSUME NEW s \in Socket, ReadHangup(s) PROVE Done
  <2>1. UNCHANGED dialing /\ (Gateway!Hangup(s) \/ UNCHANGED <<line, on, dialled>>)
    BY <1>8 DEF ReadHangup
  <2>2. toGw[s] # <<>> /\ toGw' = [toGw EXCEPT ![s] = Tail(@)]
    BY <1>3, <1>8 DEF ReadHangup
  <2>3. Gateway!Hangup(s) => Gateway!Goes(s, {"inCall"}, "clearing", None) /\ UNCHANGED dialled
    BY DEF Gateway!Hangup
  <2>4. CASE Gateway!Hangup(s)
    <3>1. \E from, to, c : Gateway!Goes(s, from, to, c) /\ to # "dialling"
      BY <2>3, <2>4
    <3> HIDE DEF Done
    <3> QED BY <1>2, <2>1, <2>2, <2>3, <2>4, <3>1
  <2>5. CASE UNCHANGED <<line, on, dialled>> BY <1>2, <2>1, <2>2, <2>5
  <2> QED BY <2>1, <2>4, <2>5
<1>9. ASSUME NEW s \in Socket, Invite(s) PROVE Done
  <2>1. /\ Gateway!Dial(s, dialing[s]) /\ UNCHANGED toGw
        /\ UNCHANGED dialing \/ dialing' = [dialing EXCEPT ![s] = None]
    BY <1>9 DEF Invite
  <2>2. line[s] = "dialling" /\ dialled' = dialled \cup {dialing[s]}
    BY <2>1 DEF Gateway!Dial, Gateway!Goes
  <2>3. dialing[s] # None
    BY <2>2 DEF LinesFit
  <2>4. ~ Untried(s)'
    BY <1>1, <2>1, <2>3 DEF Gateway!Dial, Gateway!Goes, Untried
  <2>5. \A k \in Socket \ {s} : /\ toGw'[k] = toGw[k] /\ dialing'[k] = dialing[k]
                              /\ line'[k] = line[k] /\ on'[k] = on[k]
    BY <1>1, <2>1 DEF Gateway!Dial, Gateway!Goes
  <2>6. dialing'[s] \in {dialing[s], None}
    BY <1>1, <2>1
  <2> QED BY <2>1, <2>2, <2>4, <2>5, <2>6 DEF Handles, Tries
<1>10. ASSUME NEW s \in Socket, InviteFails(s) PROVE Done
  <2>1. /\ Gateway!Goes(s, {"dialling"}, "idle", None)
        /\ UNCHANGED <<toGw, dialled>> /\ dialing' = [dialing EXCEPT ![s] = None]
    BY <1>10 DEF InviteFails, Gateway!Fail
  <2>2. \E from, to, c : Gateway!Goes(s, from, to, c) /\ to # "dialling"
    BY <2>1
  <2> HIDE DEF Done
  <2> QED BY <1>2, <2>1, <2>2
<1>11. ASSUME NEW s \in Socket, InviteAnswered(s) PROVE Done
  <2>1. Gateway!Goes(s, {"dialling"}, "inCall", on[s]) /\ UNCHANGED <<toGw, dialing, dialled>>
    BY <1>11 DEF InviteAnswered, Gateway!Answer
  <2> QED BY <1>2, <2>1
<1>12. ASSUME NEW s \in Socket, CallStarted(s) PROVE Done
  BY <1>2, <1>12 DEF CallStarted
<1>13. ASSUME NEW s \in Socket, HangupDone(s) PROVE Done
  BY <1>2, <1>13 DEF HangupDone, Gateway!Cleared
<1>14. ASSUME NEW s \in Socket, ReadFails(s) PROVE Done
  <2>1. /\ Gateway!Goes(s, {"idle", "inCall"}, "gone", None)
        /\ UNCHANGED <<dialing, dialled>> /\ toGw' = [toGw EXCEPT ![s] = <<>>]
    BY <1>14 DEF ReadFails, Gateway!Leave
  <2>2. \E from, to, c : Gateway!Goes(s, from, to, c) /\ to # "dialling"
    BY <2>1
  <2> HIDE DEF Done
  <2> QED BY <1>2, <2>1, <2>2
<1>15. ASSUME NEW s \in Socket, ReadLoop(s) PROVE Done
  BY <1>6, <1>7, <1>8, <1>9, <1>10, <1>11, <1>12, <1>13, <1>14, <1>15 DEF ReadLoop
<1>16. ASSUME NEW s \in Socket, RemoteBye(s) PROVE Done
  BY <1>2, <1>16 DEF RemoteBye, Gateway!RemoteEnd
<1>17. ASSUME NEW s \in Socket, BroadcastEnd(s) PROVE Done
  BY <1>17 DEF BroadcastEnd, gwRest
<1>18. ASSUME NEW s \in Socket, PeerFailed(s) PROVE Done
  BY <1>18 DEF PeerFailed, Done, Handles, Tries
<1>19. ASSUME NEW e, BroadcastForeign(e) PROVE Done
  BY <1>19 DEF BroadcastForeign
<1> QED BY <1>4, <1>5, <1>15, <1>16, <1>17, <1>18, <1>19 DEF GatewaySteps

\* None of them brings a dial to two connections, or back.
LEMMA HandledArriveOnce ==
    ASSUME QueueTypes, GatewayTypes, DialsArriveOnce, NEW s \in Socket, Handles(s), UNCHANGED sends
    PROVE  DialsArriveOnce'
<1> SUFFICES ASSUME NEW d \in Click
             PROVE  /\ \A k \in Socket :
                          /\ Once(toGw'[k], Msg("dial", d))
                          /\ Coming(k, d)' => dialing'[k] # d
                          /\ Coming(k, d)' \/ (dialing'[k] = d /\ Untried(k)') => d \notin dialled'
                    /\ \A k, l \in Socket : AtGateway(k, d)' /\ AtGateway(l, d)' => k = l
                    /\ sends[d] = 0 => d \notin dialled' /\ \A k \in Socket : ~ AtGateway(k, d)'
  BY DEF DialsArriveOnce
<1> DEFINE m == Msg("dial", d)
<1>1. /\ \A k \in Socket :
            /\ Once(toGw[k], m)
            /\ Coming(k, d) => dialing[k] # d
            /\ Coming(k, d) \/ (dialing[k] = d /\ Untried(k)) => d \notin dialled
      /\ \A k, l \in Socket : AtGateway(k, d) /\ AtGateway(l, d) => k = l
      /\ sends[d] = 0 => d \notin dialled /\ \A k \in Socket : ~ AtGateway(k, d)
  BY DEF DialsArriveOnce
<1>2. \A k \in Socket \ {s} :
          /\ toGw'[k] = toGw[k] /\ dialing'[k] = dialing[k] /\ (Untried(k)' <=> Untried(k))
          /\ Coming(k, d)' <=> Coming(k, d)
          /\ AtGateway(k, d)' <=> AtGateway(k, d)
  BY DEF Handles, Untried, Coming, AtGateway
<1>3. d # None /\ toGw[s] \in Seq(ToGateway)
  BY NoneAssumption DEF QueueTypes, ToGateway
<1>4. toGw[s] # <<>> =>
          /\ Has(toGw[s], m) <=> Head(toGw[s]) = m \/ Has(Tail(toGw[s]), m)
          /\ Once(Tail(toGw[s]), m) /\ (Head(toGw[s]) = m => ~ Has(Tail(toGw[s]), m))
  BY <1>1, <1>3, HasTail
<1>5. Once(<<>>, m) /\ ~ Has(<<>>, m)
  BY HasShort
<1> HIDE DEF m
<1>6. CASE Forgets(s)
  <2>1. /\ Once(toGw'[s], m) /\ (Coming(s, d)' => Coming(s, d))
        /\ dialing'[s] = d => dialing[s] = d
    BY <1>1, <1>3, <1>4, <1>5, <1>6 DEF Forgets, Coming, m
  <2>2. AtGateway(s, d)' => AtGateway(s, d)
    BY <2>1 DEF AtGateway
  <2> QED BY <1>1, <1>2, <1>6, <2>1, <2>2 DEF Forgets, m
<1>7. CASE Begins(s)
  <2>1. Head(toGw[s]) \in ToGateway
    BY <1>3, <1>7, HeadTailProperties DEF Begins
  <2>2. Head(toGw[s]).arg = d <=> Head(toGw[s]) = m
    BY <1>7, <2>1 DEF Begins, ToGateway, Sendable, Msg, m
  <2>3. /\ Once(toGw'[s], m)
        /\ Coming(s, d)' => Coming(s, d) /\ Head(toGw[s]) # m
        /\ dialing'[s] = d => Coming(s, d) /\ Head(toGw[s]) = m
    BY <1>4, <1>7, <2>2 DEF Begins, Coming, m
  <2>4. AtGateway(s, d)' => AtGateway(s, d)
    BY <2>3 DEF AtGateway
  <2>5. UNCHANGED dialled
    BY <1>7 DEF Begins
  <2> QED BY <1>1, <1>2, <2>3, <2>4, <2>5 DEF m
<1>8. CASE Tries(s)
  <2>1. /\ UNCHANGED toGw /\ (dialing'[s] = d => dialing[s] = d) /\ ~ Untried(s)'
        /\ dialled' = dialled \cup {dialing[s]}
    BY <1>3, <1>8 DEF Tries
  <2>2. Coming(s, d)' <=> Coming(s, d)
    BY <2>1 DEF Coming
  <2>3. AtGateway(s, d)' => AtGateway(s, d)
    BY <2>1, <2>2 DEF AtGateway
  <2>4. dialing[s] = d => AtGateway(s, d) /\ ~ Coming(s, d)
    BY <1>1 DEF AtGateway
  <2>5. \A k \in Socket : AtGateway(k, d) <=> Coming(k, d) \/ dialing[k] = d
    BY DEF AtGateway
  <2> QED BY <1>1, <1>2, <2>1, <2>2, <2>3, <2>4, <2>5 DEF m
<1> QED BY <1>6, <1>7, <1>8 DEF Handles

\* A dial arrives once.
LEMMA DialsStillArriveOnce ==
    ASSUME PageTypes, QueueTypes, GatewayTypes, HistoryTypes, token \in Agent \cup {None}, LinesFit,
           DialsArriveOnce, DialledOnce', [Next]_vars
    PROVE  DialsArriveOnce'
<1>1. CASE Agents \/ Network \/ Events \/ UNCHANGED vars
  BY <1>1, SentArriveOnce
<1>2. CASE GatewaySteps
  <2>1. UNCHANGED sends
    BY <1>2, GatewayLeavesBrowser DEF browserPart, browserVars
  <2>2. CASE UNCHANGED <<toGw, dialing, line, on, dialled>>
    BY <2>1, <2>2 DEF DialsArriveOnce, AtGateway, Coming, Untried
  <2> QED BY <1>2, <2>1, <2>2, GatewayHandles, HandledArriveOnce
<1> QED BY <1>1, <1>2 DEF Next

-----------------------------------------------------------------------------
(***************************************************************************)
(* All parts of the invariant together.                                    *)
(***************************************************************************)

\* The gateway leaves what the agent sees, and ws, alone.
LEMMA GatewayLeavesApp ==
    ASSUME AppTypes, WsIsNotClosed, GatewaySteps
    PROVE  AppTypes' /\ WsIsNotClosed'
<1>1. UNCHANGED <<token, callStatus, wsConnected, ws, sock>>
  BY GatewayLeavesBrowser DEF browserPart, browserVars, appVars, connectVars, pageVars
<1> QED BY <1>1 DEF AppTypes, WsIsNotClosed

\* Every step keeps the invariant.
LEMMA PhoneStep ==
    ASSUME PhoneInv, [Next]_vars
    PROVE  PhoneInv'
<1>1. /\ AppTypes /\ PageTypes /\ QueueTypes /\ GatewayTypes /\ HistoryTypes
      /\ SocketsAreOwned /\ SessionHasSocket /\ ChainsHavePc /\ PageInv
      /\ DialsAreSingle /\ DialledOnce /\ OffersAreSingle /\ QueueIsDrained
      /\ WsIsNotClosed /\ LinesFit /\ DialsArriveOnce /\ IdleIsHangup /\ BusyIsCall
      /\ token \in Agent \cup {None}
  BY DEF PhoneInv, PageInv, TypeOK, AppTypes
<1>2. PageInv' /\ PageTypes'
  BY <1>1, PageStep DEF PageInv
<1>3. DialsAreSingle' /\ DialledOnce' /\ OffersAreSingle' /\ QueueIsDrained'
  BY <1>1, DialsStaySingle, OffersStaySingle, QueueStaysDrained
<1>4. DialsArriveOnce'
  BY <1>1, <1>3, DialsStillArriveOnce
<1>5. CASE GatewaySteps
  <2>1. QueueTypes' /\ GatewayTypes' /\ HistoryTypes' /\ LinesFit'
    BY <1>1, <1>5, GatewayFits
  <2>2. AppTypes' /\ WsIsNotClosed'
    BY <1>1, <1>5, GatewayLeavesApp
  <2>3. IdleIsHangup' /\ BusyIsCall'
    BY <1>1, <1>5, GatewayCalls
  <2> QED BY <1>2, <1>3, <1>4, <2>1, <2>2, <2>3 DEF PhoneInv, TypeOK, AppTypes
<1>6. CASE Agents \/ Network \/ Events \/ UNCHANGED vars
  <2>1. QueueTypes' /\ HistoryTypes'
    BY <1>1, <1>6, BrowserTypes
  <2>2. GatewayTypes'
    BY <1>1, <1>6, BrowserLeavesGateway
    DEF LeavesGateway, gwVars, GatewayTypes, Gateway!TypeOK
  <2>3. LinesFit' /\ WsIsNotClosed'
    BY <1>1, <1>6, BrowserFits
  <2>4. AppTypes'
    BY <1>1, <1>6, BrowserShows
  <2>5. IdleIsHangup' /\ BusyIsCall'
    BY <1>1, <1>6, BrowserCalls
  <2> QED BY <1>2, <1>3, <1>4, <2>1, <2>2, <2>3, <2>4, <2>5 DEF PhoneInv, TypeOK, AppTypes
<1> QED BY <1>5, <1>6 DEF Next

\* It starts with no messages and no lines.
LEMMA PhoneStarts ==
    ASSUME Init
    PROVE  PhoneInv
<1> USE DEF Init
<1>1. PageInv
  BY PageStarts
<1>2. Messages(timers) = <<>>
  BY DEF Messages
<1>3. \A m : HeldOnce(m) /\ ~ Held(m)
  BY <1>2, HasShort DEF HeldOnce, Held, Resumes, Awaits, PutOff
<1>4. QueueTypes /\ HistoryTypes
  <2>1. \A S : <<>> \in Seq(S)
    BY EmptySeq
  <2>2. waiters \in [Prompt -> Seq(Asking)]
    BY <2>1
  <2>3. toGw \in [Socket -> Seq(Sendable \cup [ev : {"auth"}, arg : Agent])]
    BY <2>1
  <2>4. toBr \in [Socket -> Seq([ev : Event, arg : {None}])]
    BY <2>1
  <2> QED BY <2>1, <2>2, <2>3, <2>4 DEF QueueTypes, HistoryTypes
<1>5. GatewayTypes
  BY ForeignAssumption DEF GatewayTypes, Gateway!Init, Gateway!TypeOK, Gateway!LineState
<1>6. TypeOK
  BY <1>1, <1>4, <1>5 DEF TypeOK, PageInv
<1>7. DialsAreSingle /\ DialledOnce
  BY <1>3 DEF DialsAreSingle, DialledOnce
<1>8. OffersAreSingle
  <2>1. ASSUME NEW o \in Socket
        PROVE  ~ Delivers(o) /\ ~ Answers(o) /\ Once(toBr[o], Msg("offer", None))
    BY HasShort DEF Delivers, Answers, NoChain
  <2> QED BY <1>3, <2>1 DEF OffersAreSingle
<1>9. QueueIsDrained /\ WsIsNotClosed
  BY DEF QueueIsDrained, WsIsNotClosed
<1>10. LinesFit
  BY DEF LinesFit, Gateway!Init
<1>11. DialsArriveOnce
  <2>1. \A m : ~ Has(<<>>, m) /\ Once(<<>>, m)
    BY HasShort
  <2> QED BY <2>1, NoneAssumption DEF DialsArriveOnce, AtGateway, Coming, Untried, Gateway!Init
<1>12. IdleIsHangup /\ BusyIsCall
  BY DEF IdleIsHangup, BusyIsCall
<1> QED BY <1>1, <1>6, <1>7, <1>8, <1>9, <1>10, <1>11, <1>12 DEF PhoneInv

-----------------------------------------------------------------------------
(***************************************************************************)
(* What the invariant says of the phone.                                   *)
(***************************************************************************)

\* The inductive invariant of messages and calls holds whatever the agents,
\* the network and the gateway do, and in whatever order.
THEOREM PhoneInvariant == Spec => []PhoneInv
<1>1. Init => PhoneInv
  BY PhoneStarts
<1>2. PhoneInv /\ [Next]_vars => PhoneInv'
  BY PhoneStep
<1> QED BY <1>1, <1>2, PTL DEF Spec

\* Every variable has its type: a chain of promises works on a socket's pc, and
\* no queue ever holds a message that its reader does not know.
THEOREM TypesAreKept == Spec => []TypeOK
BY PhoneInvariant, PTL DEF PhoneInv

\* A dial goes out once, however often sendWS puts it off and sockets change.
THEOREM DialsGoOutOnce == Spec => []DialledOnce
BY PhoneInvariant, PTL DEF PhoneInv

\* A candidate that has come is given to pc, or a chain is about to.
THEOREM CandidatesReachPc == Spec => []CandidatesArrive
<1>1. PhoneInv => CandidatesArrive
  BY DEF PhoneInv, QueueIsDrained, CandidatesArrive, At
<1> QED BY <1>1, PhoneInvariant, PTL

\* At rest a browser that shows no call has none, but in the cases
\* IdleMeansNoCall names.
THEOREM IdleIsTrue == Spec => []IdleMeansNoCall
<1>1. PhoneInv => IdleMeansNoCall
  <2> SUFFICES ASSUME PhoneInv, AtRest, callStatus = "idle", line[ws] = "inCall",
                      ws \notin overlap \cup misled, ~ LeftBehind
               PROVE  FALSE
    BY DEF IdleMeansNoCall
  <2>1. toBr[ws] = <<>> /\ toGw[ws] = <<>> /\ Messages(timers) = <<>>
    BY DEF AtRest, Messages
  <2>2. WillShow(toBr[ws], callStatus, "idle")
    BY <2>1, ShowsOther
  <2>3. OnItsWay(Msg("hangup", None))
    BY <2>2 DEF PhoneInv, IdleIsHangup, AtRest, InUse
  <2> QED BY <2>1, <2>3, HasShort DEF OnItsWay, PutOff
<1> QED BY <1>1, PhoneInvariant, PTL

\* At rest a browser that shows a call has one, where BusyMeansCall says so.
THEOREM BusyIsTrue == Spec => []BusyMeansCall
<1>1. PhoneInv => BusyMeansCall
  <2> SUFFICES ASSUME PhoneInv, AtRest, Alone, callStatus # "idle", ws \notin misled
               PROVE  callStatus = "connected" /\ line[ws] = "inCall"
    BY DEF BusyMeansCall
  <2>1. /\ todo = <<>> /\ toBr[ws] = <<>> /\ toGw[ws] = <<>> /\ Messages(timers) = <<>>
        /\ dialing[ws] = None /\ ended = {} /\ line[ws] \in {"idle", "inCall"}
        /\ \A d \in Click : ~ Awaits(Msg("dial", d))
    BY DEF AtRest, Messages, Task
  <2>2. \A v : WillShow(toBr[ws], callStatus, v) <=> callStatus = v
    BY <2>1, ShowsOther
  <2>3. \A d \in Click : ~ Held(Msg("dial", d)) /\ ~ OnItsWay(Msg("dial", d))
    BY <2>1, HasShort DEF Held, Resumes, OnItsWay, PutOff
  <2>4. /\ WillShow(toBr[ws], callStatus, "connected")
        /\ line[ws] \in {"inCall", "clearing"} \/ ws \in ended
    BY <2>1, <2>2, <2>3 DEF PhoneInv, BusyIsCall, AtRest, InUse
  <2> QED BY <2>1, <2>2, <2>4
<1> QED BY <1>1, PhoneInvariant, PTL
-----------------------------------------------------------------------------
(***************************************************************************)
(* The lines that the phone uses.                                          *)
(***************************************************************************)

\* A step of the gateway takes at most one line a step further.
LEMMA GatewayUsesLines ==
    ASSUME GatewayTypes, LinesFit, GatewaySteps
    PROVE  Gateway!Next \/ UNCHANGED <<line, on, dialled>>
<1> USE DEF Gateway!Next
<1>1. ASSUME NEW s \in Socket, Accept(s) PROVE Gateway!Next
  BY <1>1 DEF Accept
<1>2. ASSUME NEW s \in Socket, NEW e \in {"candidate", "offer"}, Signal(s, e)
      PROVE  UNCHANGED <<line, on, dialled>>
  BY <1>2 DEF Signal
<1>3. ASSUME NEW s \in Socket, ReadLoop(s)
      PROVE  Gateway!Next \/ UNCHANGED <<line, on, dialled>>
  <2>1. CASE ReadAuth(s) \/ ReadSignal(s) \/ CallStarted(s)
    BY <2>1 DEF ReadAuth, ReadSignal, CallStarted
  <2>2. CASE ReadDial(s) BY <2>2 DEF ReadDial
  <2>3. CASE ReadHangup(s) BY <2>3 DEF ReadHangup
  <2>4. CASE Invite(s)
    <3>1. Gateway!Dial(s, dialing[s])
      BY <2>4 DEF Invite
    <3>2. line[s] = "dialling"
      BY <3>1 DEF Gateway!Dial, Gateway!Goes
    <3>3. dialing[s] \in Click
      BY <3>2 DEF LinesFit, GatewayTypes
    <3> QED BY <3>1, <3>3
  <2>5. CASE InviteFails(s) BY <2>5 DEF InviteFails
  <2>6. CASE InviteAnswered(s) BY <2>6 DEF InviteAnswered
  <2>7. CASE HangupDone(s) BY <2>7 DEF HangupDone
  <2>8. CASE ReadFails(s) BY <2>8 DEF ReadFails
  <2> QED BY <1>3, <2>1, <2>2, <2>3, <2>4, <2>5, <2>6, <2>7, <2>8 DEF ReadLoop
<1>4. ASSUME NEW s \in Socket, RemoteBye(s) PROVE Gateway!Next
  BY <1>4 DEF RemoteBye
<1>5. ASSUME NEW s \in Socket, BroadcastEnd(s) PROVE UNCHANGED <<line, on, dialled>>
  BY <1>5 DEF BroadcastEnd
<1>6. ASSUME NEW s \in Socket, PeerFailed(s)
      PROVE  Gateway!Next \/ UNCHANGED <<line, on, dialled>>
  BY <1>6 DEF PeerFailed
<1>7. ASSUME NEW e, BroadcastForeign(e) PROVE UNCHANGED <<line, on, dialled>>
  BY <1>7 DEF BroadcastForeign
<1> QED BY <1>1, <1>2, <1>3, <1>4, <1>5, <1>6, <1>7 DEF GatewaySteps

\* A dial that the gateway begins with is one that no line has dialled.
THEOREM DialsArriveNew == Spec => []DialsAreNew
<1>1. PhoneInv => DialsAreNew
  <2> SUFFICES ASSUME PhoneInv, NEW s \in Socket, Untried(s)
               PROVE  dialing[s] \in Click \ dialled
    BY DEF DialsAreNew
  <2>1. dialing[s] \in Click
    BY DEF PhoneInv, LinesFit, TypeOK, GatewayTypes, Untried
  <2> QED BY <2>1 DEF PhoneInv, DialsArriveOnce
<1> QED BY <1>1, PhoneInvariant, PTL

\* What the browser brings about at the gateway is a behaviour of PhoneLine, the
\* specification that SipGateway implements: the phone asks of handleWebSocket,
\* handleDial and handleHangup nothing that they have not been shown to do.
THEOREM PhoneUsesLines == Spec => Gateway!Spec
<1>1. Init => Gateway!Init
  BY DEF Init
<1>2. PhoneInv /\ [Next]_vars => [Gateway!Next]_(Gateway!vars)
  <2> SUFFICES ASSUME PhoneInv, [Next]_vars
               PROVE  Gateway!Next \/ UNCHANGED Gateway!vars
    OBVIOUS
  <2>1. CASE GatewaySteps
    BY <2>1, GatewayUsesLines DEF PhoneInv, TypeOK, Gateway!vars
  <2>2. CASE Agents \/ Network \/ Events \/ UNCHANGED vars
    BY <2>2, BrowserLeavesGateway DEF LeavesGateway, gwVars, Gateway!vars
  <2> QED BY <2>1, <2>2 DEF Next
<1> QED BY <1>1, <1>2, PhoneInvariant, PTL DEF Spec, Gateway!Spec

\* No two of the browser's connections are ever on the same call.
THEOREM CallsAreOnOneLine == Spec => []Gateway!LinesAreSeparate
<1>1. None \notin Click
  BY NoneAssumption
<1> QED BY <1>1, PhoneUsesLines, Gateway!LinesStaySeparate, PTL
==============================================================================
