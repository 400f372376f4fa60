------------------------------- MODULE PhoneLine -------------------------------
(***************************************************************************)
(* What the gateway promises to one browser connection: a telephone line.  *)
(* A line carries at most one call, each call is dialled once and by one   *)
(* line, and between two calls the line has been idle.  How the call is    *)
(* set up, who may race whom, and what becomes of sockets and goroutines   *)
(* is the business of SipGateway, which implements this specification.     *)
(***************************************************************************)
EXTENDS TLAPS

CONSTANTS
    Conn,   \* browser connections
    Call,   \* calls
    None    \* no call

VARIABLES
    line,   \* what each line is doing
    on,     \* the call it is doing it with
    dialled \* every call a line has ever dialled

vars == <<line, on, dialled>>

LineState == {"absent", "idle", "dialling", "inCall", "clearing", "gone"}

TypeOK ==
    /\ line \in [Conn -> LineState]
    /\ on \in [Conn -> Call \cup {None}]
    /\ dialled \in SUBSET Call

Init ==
    /\ line = [k \in Conn |-> "absent"]
    /\ on = [k \in Conn |-> None]
    /\ dialled = {}

Goes(k, from, to, c) ==
    /\ line[k] \in from
    /\ line' = [line EXCEPT ![k] = to]
    /\ on' = [on EXCEPT ![k] = c]

Arrive(k) == Goes(k, {"absent"}, "idle", None) /\ UNCHANGED dialled

LiftReceiver(k) == Goes(k, {"idle"}, "dialling", None) /\ UNCHANGED dialled

\* A call that no line has dialled before; there may be no way out for it.
Dial(k, c) ==
    /\ on[k] = None
    /\ c \notin dialled
    /\ dialled' = dialled \cup {c}
    /\ \/ Goes(k, {"dialling"}, "dialling", c)
       \/ Goes(k, {"dialling"}, "idle", None)

Fail(k) == on[k] # None /\ Goes(k, {"dialling"}, "idle", None) /\ UNCHANGED dialled

Answer(k) == on[k] # None /\ Goes(k, {"dialling"}, "inCall", on[k]) /\ UNCHANGED dialled

RemoteEnd(k) == Goes(k, {"inCall"}, "idle", None) /\ UNCHANGED dialled

Hangup(k) == Goes(k, {"inCall"}, "clearing", None) /\ UNCHANGED dialled

Cleared(k) == Goes(k, {"clearing"}, "idle", None) /\ UNCHANGED dialled

Leave(k) == Goes(k, {"idle", "inCall"}, "gone", None) /\ UNCHANGED dialled

Next ==
    \E k \in Conn :
        \/ Arrive(k)
        \/ LiftReceiver(k)
        \/ \E c \in Call : Dial(k, c)
        \/ Fail(k)
        \/ Answer(k)
        \/ RemoteEnd(k)
        \/ Hangup(k)
        \/ Cleared(k)
        \/ Leave(k)

Spec == Init /\ [][Next]_vars

\* No two lines are on the same call.
LinesAreSeparate ==
    \A k1, k2 \in Conn : on[k1] = on[k2] /\ on[k1] # None => k1 = k2
-------------------------------------------------------------------------------
(* A line is on a call only between Dial and the end of that call, and the *)
(* calls that lines are on have been dialled.                              *)
LineInv ==
    /\ TypeOK
    /\ LinesAreSeparate
    /\ \A k \in Conn : on[k] # None => /\ on[k] \in dialled
                                       /\ line[k] \in {"dialling", "inCall"}

LEMMA LineInvInit == ASSUME None \notin Call PROVE Init => LineInv
  BY DEF Init, LineInv, TypeOK, LinesAreSeparate, LineState

LEMMA LineInvStep ==
  ASSUME None \notin Call
  PROVE  LineInv /\ [Next]_vars => LineInv'
  <1> SUFFICES ASSUME LineInv, [Next]_vars PROVE LineInv'
    OBVIOUS
  <1> USE DEF LineInv, TypeOK, LinesAreSeparate, LineState, Goes
  <1>1. ASSUME NEW k \in Conn, NEW c \in Call, Dial(k, c) PROVE LineInv'
    BY <1>1 DEF Dial
  <1>2. ASSUME NEW k \in Conn,
               \/ Arrive(k) \/ LiftReceiver(k) \/ Fail(k) \/ RemoteEnd(k)
               \/ Hangup(k) \/ Cleared(k) \/ Leave(k)
        PROVE  LineInv'
    BY <1>2 DEF Arrive, LiftReceiver, Fail, RemoteEnd, Hangup, Cleared, Leave
  <1>3. ASSUME NEW k \in Conn, Answer(k) PROVE LineInv'
    BY <1>3 DEF Answer
  <1>4. CASE UNCHANGED vars
    BY <1>4 DEF vars
  <1>5. QED
    BY <1>1, <1>2, <1>3, <1>4 DEF Next

(* Two lines are never on the same call: with the refinement theorem, no   *)
(* two browser connections of the gateway are (peer.call).                 *)
THEOREM LinesStaySeparate ==
  ASSUME None \notin Call
  PROVE  Spec => []LinesAreSeparate
  <1>1. LineInv => LinesAreSeparate
    BY DEF LineInv
  <1>2. QED
    BY <1>1, LineInvInit, LineInvStep, PTL DEF Spec
===============================================================================
