-------------------------- MODULE CrmClientProofs --------------------------
(***************************************************************************)
(* ClientInv is an invariant of CrmClient, for any constants, and with it  *)
(* the properties of a tab that it implies.                                *)
(*                                                                         *)
(* Its parts lean on each other.  That an answer finds who asked for it    *)
(* (SomebodyWaits) makes the LoginPage empty and its one login the only    *)
(* one; that one request at a time may bring an agent (OneSession) makes   *)
(* the token the agent's (TokensMatch) and the loads the agent's own; that *)
(* a form whose button is enabled was not sent, or has failed              *)
(* (ReadyMeansUnsent), makes one request of it at a time (OneSave) and one *)
(* customer.  What was confirmed is shown because the newest load that is  *)
(* awaited stands after all others (LoadsAreOrdered) and lists all that    *)
(* was confirmed (NewestLoadShows): a step moves the loads in one of four  *)
(* ways (LoadMoves), and each keeps this.  Each other part has a lemma     *)
(* with one step per action; before them come three facts about the        *)
(* actions that replace all requests at once: a Dashboard that opens, a    *)
(* page that is loaded, a profile that fails.                              *)
(***************************************************************************)
EXTENDS CrmClient, TLAPS

LEMMA Records ==
    /\ NoRequest \in RequestRecord
    /\ \A k \in Kind, t \in Agent \cup {None}, c \in Customer \cup {None} :
          Asked(k, t, c) \in RequestRecord
    /\ \A x \in RequestRecord, v \in {"mounted", "left", "unloaded"} :
          [x EXCEPT !.to = v] \in RequestRecord
    /\ \A x \in RequestRecord, v \in {"none", "ok", "refused", "error"}, d \in SUBSET Customer :
          [x EXCEPT !.reply = v, !.data = d] \in RequestRecord
  BY DEF RequestRecord, NoRequest, Asked, Kind

LEMMA Fields ==
    ASSUME NEW x \in RequestRecord
    PROVE  /\ x.as \in Agent \cup {None} /\ x.item \in Customer \cup {None}
           /\ x.data \in SUBSET Customer
           /\ x.to \in {"mounted", "left", "unloaded"}
           /\ x.kind \in Kind
  BY DEF RequestRecord

LEMMA LeftTypes ==
    ASSUME req \in [Request -> RequestRecord], NEW kinds
    PROVE  Left(kinds) \in [Request -> RequestRecord]
  BY Records DEF Left

(* What is left after the component that awaits these kinds has gone. *)
LEMMA LeftFields ==
    ASSUME TypeOK, NEW kinds, NEW q \in Request
    PROVE  /\ Left(kinds)[q].kind = req[q].kind
           /\ Left(kinds)[q].as = req[q].as
           /\ Left(kinds)[q].item = req[q].item
           /\ Left(kinds)[q].reply = req[q].reply
           /\ Left(kinds)[q].data = req[q].data
           /\ Left(kinds)[q].to = IF req[q].kind \in kinds /\ req[q].to = "mounted"
                                  THEN "left" ELSE req[q].to
  <1>1. req[q] \in RequestRecord
    BY DEF TypeOK
  <1> QED
    BY <1>1 DEF RequestRecord, Left

\* What SetAgent does when it opens a Dashboard.
Opened(r, a) ==
    /\ agent' = a /\ ~ loading' /\ UNCHANGED <<saving, shown, reloading>>
    /\ \/ UNCHANGED <<modal, used>>
       \/ modal' \in Customer \ used /\ used' = used \cup {modal'}
    /\ req'[r].kind = "load" /\ req'[r].as = token' /\ req'[r].item = None
    /\ req'[r].reply = "none" /\ req'[r].to = "mounted"
    /\ \A q \in Request \ {r} :
          /\ req'[q].kind = req[q].kind
          /\ req'[q].as = req[q].as
          /\ req'[q].item = req[q].item
          /\ req'[q].reply = req[q].reply
          /\ req'[q].to = IF req[q].kind = "login" /\ req[q].to = "mounted"
                          THEN "left" ELSE req[q].to

(* A new Dashboard comes with one load, and the LoginPage leaves its logins. *)
LEMMA NewDashboard ==
    ASSUME TypeOK, agent = None, NEW r \in Request, NEW a, SetAgent(r, a)
    PROVE  Opened(r, a)
  <1>1. /\ req' = [Left({"login"}) EXCEPT ![r] = Asked("load", token', None)]
        /\ agent' = a /\ loading' = FALSE /\ UNCHANGED <<saving, shown, reloading>>
        /\ \/ UNCHANGED <<modal, used>>
           \/ \E c \in Customer \ used : modal' = c /\ used' = used \cup {c}
    BY DEF SetAgent
  <1>2. Left({"login"}) \in [Request -> RequestRecord]
    BY LeftTypes DEF TypeOK
  <1>3. \A q \in Request \ {r} : req'[q] = Left({"login"})[q]
    BY <1>1, <1>2
  <1>4. req'[r] = Asked("load", token', None)
    BY <1>1, <1>2
  <1>5. /\ req'[r].kind = "load" /\ req'[r].as = token' /\ req'[r].item = None
        /\ req'[r].reply = "none" /\ req'[r].to = "mounted"
    BY <1>4 DEF Asked, NoRequest
  <1>6. \/ UNCHANGED <<modal, used>>
        \/ modal' \in Customer \ used /\ used' = used \cup {modal'}
    BY <1>1
  <1> QED
    BY <1>1, <1>3, <1>5, <1>6, LeftFields DEF Opened

\* What a page load leaves of the requests: saves that are on their way, and
\* with a token the request for the profile.
KeptOrProfile(t) ==
    \A q \in Request :
        \/ req'[q] = NoRequest
        \/ /\ Waits(q) /\ req[q].kind = "save" /\ req'[q].kind = "save"
           /\ req'[q].item = req[q].item /\ req'[q].as = req[q].as
           /\ req'[q].reply = "none" /\ req'[q].to = "unloaded"
        \/ /\ t # None
           /\ req'[q].kind = "profile" /\ req'[q].as = t /\ req'[q].item = None
           /\ req'[q].reply = "none" /\ req'[q].to = "mounted"
           /\ \A p \in Request \ {q} : req'[p].kind # "profile"

\* What a page load does.
Fresh(t) ==
    /\ token' = t /\ agent' = None /\ modal' = None /\ saving' = FALSE
    /\ loading' = FALSE /\ reloading' = FALSE /\ raced' = FALSE
    /\ shown' = Nothing /\ UNCHANGED <<used, saved, failed>>
    /\ KeptOrProfile(t)

(* A new page has no request of the old one but those that change something, *)
(* and awaits the profile of its token, if it has one.                       *)
LEMMA NewPage ==
    ASSUME TypeOK, NEW t \in Agent \cup {None}, Loads(t)
    PROVE  Fresh(t)
  <1> DEFINE gone == [r \in Request |-> IF Waits(r) /\ req[r].kind = "save"
                         THEN [req[r] EXCEPT !.to = "unloaded"] ELSE NoRequest]
             Kept(q, x) == /\ Waits(q) /\ req[q].kind = "save" /\ x.kind = "save"
                           /\ x.item = req[q].item /\ x.as = req[q].as
                           /\ x.reply = "none" /\ x.to = "unloaded"
  <1>1. ASSUME NEW q \in Request
        PROVE  gone[q].kind # "profile" /\ (gone[q] = NoRequest \/ Kept(q, gone[q]))
    <2>1. req[q] \in RequestRecord
      BY DEF TypeOK
    <2> QED
      BY <2>1 DEF NoRequest, RequestRecord, Waits
  <1>2. CASE t = None
    <2>1. req' = gone
      BY <1>2 DEF Loads, Unmounts
    <2> QED
      BY <2>1, <1>1 DEF Fresh, KeptOrProfile, Loads, Unmounts
  <1>3. CASE t # None
    <2>1. PICK r \in Request : req' = [gone EXCEPT ![r] = Asked("profile", t, None)]
      BY <1>3 DEF Loads, Unmounts
    <2>2. /\ req'[r] = Asked("profile", t, None)
          /\ \A q \in Request \ {r} : req'[q] = gone[q]
      BY <2>1
    <2>3. /\ req'[r].kind = "profile" /\ req'[r].as = t /\ req'[r].item = None
          /\ req'[r].reply = "none" /\ req'[r].to = "mounted"
      BY <2>2 DEF Asked, NoRequest
    <2>4. \A q \in Request \ {r} :
             req'[q].kind # "profile" /\ (req'[q] = NoRequest \/ Kept(q, req'[q]))
      <3> HIDE DEF gone
      <3> QED
        BY <2>2, <1>1
    <2>5. KeptOrProfile(t)
      <3> HIDE DEF gone
      <3> QED
        BY <2>3, <2>4, <1>3 DEF KeptOrProfile
    <2> QED
      BY <2>5 DEF Fresh, Loads, Unmounts
  <1> QED
    BY <1>2, <1>3

\* What is left when the profile is refused: LoginPage and requests whose
\* Dashboard is gone.
Forgotten(r) ==
    /\ token' = None /\ agent' = None /\ modal' = None /\ saving' = FALSE
    /\ shown' = Nothing /\ UNCHANGED <<used, loading, saved, failed, raced>>
    /\ req'[r] = NoRequest
    /\ \A q \in Request \ {r} :
          /\ req'[q].kind = req[q].kind
          /\ req'[q].as = req[q].as
          /\ req'[q].item = req[q].item
          /\ req'[q].reply = req[q].reply
          /\ req'[q].to = IF req[q].kind \in OfDashboard /\ req[q].to = "mounted"
                          THEN "left" ELSE req[q].to

(* Without a profile there is no Dashboard. *)
LEMMA NoProfile ==
    ASSUME TypeOK, NEW r \in Request, ProfileFails(r)
    PROVE  Forgotten(r)
  <1>1. /\ req' = [Left(OfDashboard) EXCEPT ![r] = NoRequest]
        /\ token' = None /\ agent' = None /\ modal' = None /\ saving' = FALSE
        /\ shown' = Nothing /\ UNCHANGED <<used, loading, saved, failed, raced>>
    BY DEF ProfileFails, Unmounts, clearToken, setToken
  <1>2. Left(OfDashboard) \in [Request -> RequestRecord]
    BY LeftTypes DEF TypeOK
  <1>3. req'[r] = NoRequest /\ \A q \in Request \ {r} : req'[q] = Left(OfDashboard)[q]
    BY <1>1, <1>2
  <1> QED
    BY <1>1, <1>3, LeftFields DEF Forgotten

(* What a test of membership yields. *)
LEMMA MembershipIsBoolean ==
    ASSUME NEW x, NEW S, NEW y, y = (x \in S)
    PROVE  y \in BOOLEAN
  OBVIOUS

(* A count of saved customers stays below its bound. *)
LEMMA CountUp == \A n \in 0 .. Many : n < Many => n + 1 \in 0 .. Many
  BY DEF Many

(* A reply is a request record still. *)
LEMMA ReplyTypes ==
    ASSUME TypeOK, NEW r \in Request, NEW v \in {"none", "ok", "refused", "error"},
           NEW d \in SUBSET Customer, Reply(r, v, d)
    PROVE  req' \in [Request -> RequestRecord]
  <1>1. req[r] \in RequestRecord
    BY DEF TypeOK
  <1>2. [req[r] EXCEPT !.reply = v, !.data = d] \in RequestRecord
    BY <1>1, Records
  <1> QED
    BY <1>2, Records DEF Reply, TypeOK

(* A call event sends a load, of this Dashboard or of one that is gone. *)
LEMMA CallEventLoads ==
    ASSUME TypeOK, NEW r \in Request, CallEvent(r)
    PROVE  /\ req[r] = NoRequest
           /\ req' = [req EXCEPT ![r] = req'[r]]
           /\ req'[r] \in RequestRecord
           /\ req'[r].kind = "load" /\ req'[r].as = token /\ req'[r].item = None
           /\ req'[r].reply = "none" /\ req'[r].to = IF agent # None THEN "mounted" ELSE "left"
           /\ earlier' = IF agent # None THEN Queued(r) ELSE earlier
           /\ UNCHANGED <<token, agent, loading, reloading, modal, saving, used, shown, saved,
                          overtaken, stale, confirmed, failed, raced>>
  <1> DEFINE a == Asked("load", token, None)
             b == IF agent # None THEN a ELSE [a EXCEPT !.to = "left"]
  <1>1. /\ a \in RequestRecord /\ [a EXCEPT !.to = "left"] \in RequestRecord
        /\ a.kind = "load" /\ a.as = token /\ a.item = None /\ a.reply = "none"
        /\ a.to = "mounted"
    BY Records DEF TypeOK, Kind, Asked, NoRequest
  <1>2. b \in RequestRecord /\ b.kind = "load" /\ b.as = token /\ b.item = None
        /\ b.reply = "none" /\ b.to = IF agent # None THEN "mounted" ELSE "left"
    BY <1>1 DEF Asked, NoRequest
  <1>3. req[r] = NoRequest /\ req' = [req EXCEPT ![r] = b]
    BY DEF CallEvent, api
  <1> HIDE DEF a, b
  <1>4. req'[r] = b
    BY <1>3 DEF TypeOK
  <1> QED
    BY <1>2, <1>3, <1>4 DEF CallEvent, session, forms

(* Every step keeps the types. *)
LEMMA TypesStep ==
    ASSUME TypeOK, FormsAreUsed, [Next]_vars
    PROVE  TypeOK'
  <1> USE CrmNoneAssumption, Records DEF TypeOK, session, forms, loads, Kind
  <1> \A q \in Request : req[q] \in RequestRecord
    OBVIOUS
  <1>1. ASSUME NEW r \in Request, NEW a \in Agent, handleLogin(r, a) PROVE TypeOK'
    BY <1>1 DEF handleLogin
  <1>2. ASSUME handleLogout PROVE TypeOK'
    BY <1>2, LeftTypes
       DEF handleLogout, Unmounts, clearToken, setToken, Nothing, NoneEarlier
  <1>3. ASSUME NEW c \in Customer, OpenModal(c) PROVE TypeOK'
    BY <1>3 DEF OpenModal
  <1>4. ASSUME CloseModal PROVE TypeOK'
    BY <1>4 DEF CloseModal
  <1>5. ASSUME NEW r \in Request, handleSave(r) \/ ChangeTask(r) PROVE TypeOK'
    <2>1. /\ Asked("save", token, modal) \in RequestRecord
          /\ Asked("task", token, None) \in RequestRecord
      OBVIOUS
    <2>2. CASE handleSave(r)
      <3>1. req' = [req EXCEPT ![r] = Asked("save", token, modal)] /\ saving' = TRUE
        BY <2>2 DEF handleSave, api
      <3> QED
        BY <2>2, <2>1, <3>1 DEF handleSave
    <2>3. CASE ChangeTask(r)
      <3>1. req' = [req EXCEPT ![r] = Asked("task", token, None)]
        BY <2>3 DEF ChangeTask, api
      <3> QED
        BY <2>3, <2>1, <3>1 DEF ChangeTask
    <2> QED
      BY <1>5, <2>2, <2>3
  <1>6. ASSUME NEW t \in Agent \cup {None}, Loads(t) PROVE TypeOK'
    <2> DEFINE gone == [r \in Request |-> IF Waits(r) /\ req[r].kind = "save"
                           THEN [req[r] EXCEPT !.to = "unloaded"] ELSE NoRequest]
    <2>1. gone \in [Request -> RequestRecord]
      OBVIOUS
    <2>2. \/ req' = gone
          \/ \E r \in Request : req' = [gone EXCEPT ![r] = Asked("profile", t, None)]
      BY <1>6 DEF Loads, Unmounts
    <2>3. Asked("profile", t, None) \in RequestRecord
      OBVIOUS
    <2>4. req' \in [Request -> RequestRecord]
      <3> HIDE DEF gone
      <3>1. CASE req' = gone
        BY <3>1, <2>1
      <3>2. ASSUME NEW r \in Request, req' = [gone EXCEPT ![r] = Asked("profile", t, None)]
            PROVE  req' \in [Request -> RequestRecord]
        BY <3>2, <2>1, <2>3
      <3> QED
        BY <2>2, <3>1, <3>2
    <2>5. /\ token' = t /\ agent' = None /\ modal' = None /\ saving' = FALSE
          /\ loading' = FALSE /\ reloading' = FALSE /\ raced' = FALSE
          /\ shown' = Nothing /\ earlier' = NoneEarlier /\ overtaken' = {}
          /\ stale' = FALSE /\ confirmed' = {} /\ UNCHANGED <<used, saved, failed>>
      BY <1>6 DEF Loads, Unmounts
    <2> QED
      BY <2>4, <2>5 DEF Nothing, NoneEarlier
  <1>7. ASSUME NEW r \in Request, Serve(r) PROVE TypeOK'
    <2>1. req' \in [Request -> RequestRecord]
      <3>1. /\ {c \in Customer : req[r].kind = "load" /\ saved[c] > 0} \in SUBSET Customer
            /\ Reply(r, "ok", {c \in Customer : req[r].kind = "load" /\ saved[c] > 0})
        BY <1>7 DEF Serve
      <3> QED
        BY <3>1, ReplyTypes
    <2>2. saved' \in [Customer -> 0 .. Many]
      BY <1>7, CountUp DEF Serve
    <2> QED
      BY <1>7, <2>1, <2>2 DEF Serve
  <1>8. ASSUME NEW r \in Request, Refuse(r) \/ Fail(r) PROVE TypeOK'
    <2>1. req' \in [Request -> RequestRecord]
      <3>1. Reply(r, "refused", {}) \/ Reply(r, "error", {})
        BY <1>8 DEF Refuse, Fail
      <3>2. {} \in SUBSET Customer
        OBVIOUS
      <3> QED
        BY <3>1, <3>2, ReplyTypes
    <2> QED
      BY <1>8, <2>1 DEF Refuse, Fail
  <1>9. ASSUME NEW r \in Request, LoginOk(r) \/ ProfileOk(r) PROVE TypeOK'
    <2>1. SetAgent(r, req[r].as) /\ req[r].as \in Agent \cup {None}
      BY <1>9, Fields DEF LoginOk, ProfileOk
    <2>2. token' \in Agent \cup {None} /\ UNCHANGED <<saved, failed, raced>>
      BY <1>9, <2>1 DEF LoginOk, ProfileOk, setToken
    <2>3. CASE agent = None
      <3>1. req' \in [Request -> RequestRecord]
        <4>1. Asked("load", token', None) \in RequestRecord
          BY <2>2
        <4>2. Left({"login"}) \in [Request -> RequestRecord]
          BY LeftTypes
        <4>3. req' = [Left({"login"}) EXCEPT ![r] = Asked("load", token', None)]
          BY <2>1, <2>3 DEF SetAgent
        <4> QED
          BY <4>1, <4>2, <4>3
      <3>2. earlier' \in [Request -> SUBSET Request]
        <4>1. LoadsHere \ {r} \in SUBSET Request
          BY DEF LoadsHere
        <4>2. earlier' = [earlier EXCEPT ![r] = LoadsHere \ {r}]
          BY <2>1, <2>3 DEF SetAgent, Queued
        <4> QED
          BY <4>1, <4>2
      <3>3. /\ agent' = req[r].as /\ loading' = FALSE
            /\ modal' \in Customer \cup {None} /\ used' \in SUBSET Customer
            /\ UNCHANGED <<reloading, shown, saving, overtaken, stale, confirmed>>
        BY <2>1, <2>3 DEF SetAgent
      <3> QED
        BY <2>1, <2>2, <3>1, <3>2, <3>3
    <2>4. CASE agent # None
      <3>1. /\ agent' = req[r].as
            /\ req' = [req EXCEPT ![r] = NoRequest]
            /\ UNCHANGED <<loading, loads, forms, reloading, shown>>
        BY <2>1, <2>4 DEF SetAgent, Done
      <3> QED
        BY <2>1, <2>2, <3>1
    <2> QED
      BY <2>3, <2>4
  <1>10. ASSUME NEW r \in Request, LoginFails(r) \/ TaskFails(r) PROVE TypeOK'
    <2>1. req' = [req EXCEPT ![r] = NoRequest] /\ loading' \in BOOLEAN
      BY <1>10 DEF LoginFails, TaskFails, Done
    <2>2. token' \in Agent \cup {None} /\ reloading' \in BOOLEAN
      BY <1>10 DEF LoginFails, TaskFails, Refused, clearToken, setToken
    <2>3. req' \in [Request -> RequestRecord]
      BY <2>1
    <2>4. UNCHANGED <<agent, forms, shown, saved, loads, failed, raced>>
      BY <1>10 DEF LoginFails, TaskFails
    <2> QED
      BY <2>1, <2>2, <2>3, <2>4
  <1>11. ASSUME NEW r \in Request, ProfileFails(r) PROVE TypeOK'
    BY <1>11, LeftTypes
       DEF ProfileFails, clearToken, setToken, Unmounts, Nothing, NoneEarlier
  <1>12. ASSUME NEW r \in Request, LoadOk(r) PROVE TypeOK'
    <2>1. Lists(r) \in [owner : Agent \cup {None}, items : SUBSET Customer]
      BY Fields DEF Lists
    <2>2. earlier[r] \in SUBSET Request
      OBVIOUS
    <2>3. /\ earlier' \in [Request -> SUBSET Request]
          /\ overtaken' \in SUBSET Request /\ stale' \in BOOLEAN
      <3>1. earlier' \in [Request -> SUBSET Request]
        BY <1>12 DEF LoadOk, Arrives
      <3>2. CASE Here(r)
        <4>1. /\ stale' = (r \in overtaken)
              /\ overtaken' = (overtaken \cup earlier[r]) \ {r}
          BY <1>12, <3>2 DEF LoadOk
        <4>2. stale' \in BOOLEAN
          BY <4>1, MembershipIsBoolean
        <4>3. overtaken' \in SUBSET Request
          BY <4>1, <2>2
        <4> QED
          BY <3>1, <4>2, <4>3
      <3>3. CASE ~ Here(r)
        BY <1>12, <3>1, <3>3 DEF LoadOk
      <3> QED
        BY <3>2, <3>3
    <2>4. shown' \in [owner : Agent \cup {None}, items : SUBSET Customer]
      BY <1>12, <2>1 DEF LoadOk
    <2> QED
      BY <1>12, <2>3, <2>4 DEF LoadOk, Arrives, Done
  <1>13. ASSUME NEW r \in Request, LoadFails(r) PROVE TypeOK'
    BY <1>13 DEF LoadFails, Refused, clearToken, setToken, Arrives, Done
  <1>14. ASSUME NEW r \in Request, SaveOk(r) \/ TaskOk(r) PROVE TypeOK'
    <2>1. Reload(r) /\ UNCHANGED <<session, used, shown, saved, failed, raced>>
      BY <1>14 DEF SaveOk, TaskOk
    <2>2. req' \in [Request -> RequestRecord]
      BY <2>1, Fields DEF Reload
    <2>3. /\ earlier' \in [Request -> SUBSET Request]
          /\ overtaken' \in SUBSET Request /\ stale' \in BOOLEAN
      BY <2>1 DEF Reload, Queued, LoadsHere
    <2>4. confirmed' \in SUBSET Customer
      <3>1. req[r].item \in Customer \cup {None}
        BY Fields
      <3> QED
        BY <2>1, <3>1 DEF Reload
    <2>5. modal' \in Customer \cup {None} /\ saving' \in BOOLEAN
      BY <1>14 DEF SaveOk, TaskOk
    <2> QED
      BY <2>1, <2>2, <2>3, <2>4, <2>5
  <1>15. ASSUME NEW r \in Request, SaveFails(r) PROVE TypeOK'
    <2>1. req[r].item \in Customer
      BY <1>15 DEF SaveFails, Replied, FormsAreUsed
    <2> QED
      BY <1>15, <2>1
         DEF SaveFails, Replied, Refused, clearToken, setToken, NotSaving, Done
  <1>16. ASSUME NEW r \in Request, CallEvent(r) PROVE TypeOK'
    <2>1. req' \in [Request -> RequestRecord]
      BY <1>16, CallEventLoads
    <2>2. earlier' \in [Request -> SUBSET Request]
      <3>1. Queued(r) \in [Request -> SUBSET Request]
        BY DEF Queued, LoadsHere
      <3> QED
        BY <1>16, <3>1, CallEventLoads
    <2> QED
      BY <1>16, <2>1, <2>2, CallEventLoads
  <1>17. CASE UNCHANGED vars
    BY <1>17 DEF vars
  <1>18. QED
    BY <1>1, <1>2, <1>3, <1>4, <1>5, <1>6, <1>7, <1>8, <1>9, <1>10, <1>11, <1>12,
       <1>13, <1>14, <1>15, <1>16, <1>17
       DEF Next, User, Api, Continue

(* Who waits for a request is there. *)
LEMMA SomebodyWaitsStep ==
    ASSUME TypeOK, SomebodyWaits, EmptyLoginPage, OneLogin, OkHasToken, BusyFormsWait,
           [Next]_vars
    PROVE  SomebodyWaits'
  <1> USE CrmNoneAssumption DEF TypeOK, session, forms, loads, Here, SomebodyWaits,
          OkHasToken, EmptyLoginPage, OneLogin, BusyFormsWait, NoRequest, OfDashboard
  <1>1. ASSUME NEW r \in Request, NEW a \in Agent, handleLogin(r, a) PROVE SomebodyWaits'
    BY <1>1 DEF handleLogin, Asked
  <1>2. ASSUME handleLogout PROVE SomebodyWaits'
    BY <1>2 DEF handleLogout, Unmounts, Left, clearToken, setToken
  <1>3. ASSUME NEW c \in Customer, OpenModal(c) PROVE SomebodyWaits'
    BY <1>3 DEF OpenModal
  <1>4. ASSUME CloseModal PROVE SomebodyWaits'
    BY <1>4 DEF CloseModal
  <1>5. ASSUME NEW r \in Request, handleSave(r) PROVE SomebodyWaits'
    BY <1>5 DEF handleSave, api, Asked
  <1>6. ASSUME NEW r \in Request, ChangeTask(r) PROVE SomebodyWaits'
    BY <1>6 DEF ChangeTask, api, Asked
  <1>7. ASSUME NEW t \in Agent \cup {None}, Loads(t) PROVE SomebodyWaits'
    <2>1. Fresh(t)
      BY <1>7, NewPage
    <2> QED
      BY <2>1 DEF Fresh, KeptOrProfile, Waits
  <1>8. ASSUME NEW r \in Request, Serve(r) PROVE SomebodyWaits'
    BY <1>8 DEF Serve, Waits, Reply
  <1>9. ASSUME NEW r \in Request, Refuse(r) PROVE SomebodyWaits'
    BY <1>9 DEF Refuse, Waits, Reply
  <1>10. ASSUME NEW r \in Request, Fail(r) PROVE SomebodyWaits'
    BY <1>10 DEF Fail, Waits, Reply
  <1>11. ASSUME NEW r \in Request, LoginOk(r) PROVE SomebodyWaits'
    <2>1. SetAgent(r, req[r].as)
      BY <1>11 DEF LoginOk
    <2>2. CASE agent = None
      BY <1>11, <2>1, <2>2, NewDashboard DEF Opened, LoginOk, Replied, setToken
    <2>3. CASE agent # None
      BY <1>11, <2>3 DEF LoginOk, Replied, setToken, SetAgent, Done
    <2> QED
      BY <2>2, <2>3
  <1>12. ASSUME NEW r \in Request, LoginFails(r) PROVE SomebodyWaits'
    BY <1>12 DEF LoginFails, Replied, Refused, clearToken, setToken, Done
  <1>13. ASSUME NEW r \in Request, ProfileOk(r) PROVE SomebodyWaits'
    <2>1. SetAgent(r, req[r].as)
      BY <1>13 DEF ProfileOk
    <2>2. CASE agent = None
      BY <1>13, <2>1, <2>2, NewDashboard DEF Opened, ProfileOk, Replied, setToken
    <2>3. CASE agent # None
      BY <1>13, <2>3 DEF ProfileOk, Replied, setToken, SetAgent, Done
    <2> QED
      BY <2>2, <2>3
  <1>14. ASSUME NEW r \in Request, ProfileFails(r) PROVE SomebodyWaits'
    <2>1. Forgotten(r)
      BY <1>14, NoProfile
    <2> QED
      BY <1>14, <2>1 DEF Forgotten, ProfileFails, Replied, Waits
  <1>15. ASSUME NEW r \in Request, LoadOk(r) PROVE SomebodyWaits'
    BY <1>15 DEF LoadOk, Replied, Arrives, Done, Lists
  <1>16. ASSUME NEW r \in Request, LoadFails(r) PROVE SomebodyWaits'
    BY <1>16 DEF LoadFails, Replied, Refused, clearToken, setToken, Arrives, Done
  <1>17. ASSUME NEW r \in Request, SaveOk(r) PROVE SomebodyWaits'
    BY <1>17 DEF SaveOk, Replied, Reload, Asked, Queued, LoadsHere
  <1>18. ASSUME NEW r \in Request, SaveFails(r) PROVE SomebodyWaits'
    BY <1>18 DEF SaveFails, Replied, Refused, clearToken, setToken, NotSaving, Done
  <1>19. ASSUME NEW r \in Request, TaskOk(r) PROVE SomebodyWaits'
    BY <1>19 DEF TaskOk, Replied, Reload, Asked, Queued, LoadsHere
  <1>20. ASSUME NEW r \in Request, TaskFails(r) PROVE SomebodyWaits'
    BY <1>20 DEF TaskFails, Replied, Refused, clearToken, setToken, Done
  <1>21. ASSUME NEW r \in Request, CallEvent(r) PROVE SomebodyWaits'
    BY <1>21, CallEventLoads
  <1>22. CASE UNCHANGED vars
    BY <1>22 DEF vars
  <1>23. QED
    BY <1>1, <1>2, <1>3, <1>4, <1>5, <1>6, <1>7, <1>8, <1>9, <1>10, <1>11, <1>12, <1>13,
       <1>14, <1>15, <1>16, <1>17, <1>18, <1>19, <1>20, <1>21, <1>22
       DEF Next, User, Api, Continue

(* A LoginPage has nothing of a Dashboard. *)
LEMMA EmptyLoginPageStep ==
    ASSUME TypeOK, SomebodyWaits, EmptyLoginPage, OkHasToken, [Next]_vars
    PROVE  EmptyLoginPage'
  <1> USE CrmNoneAssumption DEF TypeOK, session, forms, loads, Here, SomebodyWaits,
          OkHasToken, EmptyLoginPage, NoRequest, OfDashboard, Nothing
  <1>1. ASSUME NEW r \in Request, NEW a \in Agent, handleLogin(r, a) PROVE EmptyLoginPage'
    BY <1>1 DEF handleLogin, Asked
  <1>2. ASSUME handleLogout PROVE EmptyLoginPage'
    BY <1>2 DEF handleLogout, Unmounts, Left, clearToken, setToken
  <1>3. ASSUME NEW c \in Customer, OpenModal(c) PROVE EmptyLoginPage'
    BY <1>3 DEF OpenModal
  <1>4. ASSUME CloseModal PROVE EmptyLoginPage'
    BY <1>4 DEF CloseModal
  <1>5. ASSUME NEW r \in Request, handleSave(r) PROVE EmptyLoginPage'
    BY <1>5 DEF handleSave, api, Asked
  <1>6. ASSUME NEW r \in Request, ChangeTask(r) PROVE EmptyLoginPage'
    BY <1>6 DEF ChangeTask, api, Asked
  <1>7. ASSUME NEW t \in Agent \cup {None}, Loads(t) PROVE EmptyLoginPage'
    <2>1. Fresh(t)
      BY <1>7, NewPage
    <2> QED
      BY <2>1 DEF Fresh, KeptOrProfile, Waits
  <1>8. ASSUME NEW r \in Request, Serve(r) PROVE EmptyLoginPage'
    BY <1>8 DEF Serve, Waits, Reply
  <1>9. ASSUME NEW r \in Request, Refuse(r) PROVE EmptyLoginPage'
    BY <1>9 DEF Refuse, Waits, Reply
  <1>10. ASSUME NEW r \in Request, Fail(r) PROVE EmptyLoginPage'
    BY <1>10 DEF Fail, Waits, Reply
  <1>11. ASSUME NEW r \in Request, LoginOk(r) PROVE EmptyLoginPage'
    <2>1. SetAgent(r, req[r].as)
      BY <1>11 DEF LoginOk
    <2>2. CASE agent = None
      BY <1>11, <2>1, <2>2, NewDashboard DEF Opened, LoginOk, Replied, setToken
    <2>3. CASE agent # None
      BY <1>11, <2>3 DEF LoginOk, Replied, setToken, SetAgent, Done
    <2> QED
      BY <2>2, <2>3
  <1>12. ASSUME NEW r \in Request, LoginFails(r) PROVE EmptyLoginPage'
    BY <1>12 DEF LoginFails, Replied, Refused, clearToken, setToken, Done
  <1>13. ASSUME NEW r \in Request, ProfileOk(r) PROVE EmptyLoginPage'
    <2>1. SetAgent(r, req[r].as)
      BY <1>13 DEF ProfileOk
    <2>2. CASE agent = None
      BY <1>13, <2>1, <2>2, NewDashboard DEF Opened, ProfileOk, Replied, setToken
    <2>3. CASE agent # None
      BY <1>13, <2>3 DEF ProfileOk, Replied, setToken, SetAgent, Done
    <2> QED
      BY <2>2, <2>3
  <1>14. ASSUME NEW r \in Request, ProfileFails(r) PROVE EmptyLoginPage'
    <2>1. Forgotten(r)
      BY <1>14, NoProfile
    <2> QED
      BY <1>14, <2>1 DEF Forgotten, ProfileFails, Replied, Waits
  <1>15. ASSUME NEW r \in Request, LoadOk(r) PROVE EmptyLoginPage'
    BY <1>15 DEF LoadOk, Replied, Arrives, Done, Lists
  <1>16. ASSUME NEW r \in Request, LoadFails(r) PROVE EmptyLoginPage'
    BY <1>16 DEF LoadFails, Replied, Refused, clearToken, setToken, Arrives, Done
  <1>17. ASSUME NEW r \in Request, SaveOk(r) PROVE EmptyLoginPage'
    BY <1>17 DEF SaveOk, Replied, Reload, Asked, Queued, LoadsHere
  <1>18. ASSUME NEW r \in Request, SaveFails(r) PROVE EmptyLoginPage'
    BY <1>18 DEF SaveFails, Replied, Refused, clearToken, setToken, NotSaving, Done
  <1>19. ASSUME NEW r \in Request, TaskOk(r) PROVE EmptyLoginPage'
    BY <1>19 DEF TaskOk, Replied, Reload, Asked, Queued, LoadsHere
  <1>20. ASSUME NEW r \in Request, TaskFails(r) PROVE EmptyLoginPage'
    BY <1>20 DEF TaskFails, Replied, Refused, clearToken, setToken, Done
  <1>21. ASSUME NEW r \in Request, CallEvent(r) PROVE EmptyLoginPage'
    BY <1>21, CallEventLoads
  <1>22. CASE UNCHANGED vars
    BY <1>22 DEF vars
  <1>23. QED
    BY <1>1, <1>2, <1>3, <1>4, <1>5, <1>6, <1>7, <1>8, <1>9, <1>10, <1>11, <1>12, <1>13,
       <1>14, <1>15, <1>16, <1>17, <1>18, <1>19, <1>20, <1>21, <1>22
       DEF Next, User, Api, Continue

(* A LoginPage sends one login at a time. *)
LEMMA OneLoginStep ==
    ASSUME TypeOK, SomebodyWaits, OneLogin, [Next]_vars
    PROVE  OneLogin'
  <1> USE CrmNoneAssumption DEF TypeOK, session, forms, loads, Here, SomebodyWaits,
          OneLogin, NoRequest, OfDashboard
  <1>1. ASSUME NEW r \in Request, NEW a \in Agent, handleLogin(r, a) PROVE OneLogin'
    BY <1>1 DEF handleLogin, Asked
  <1>2. ASSUME handleLogout PROVE OneLogin'
    BY <1>2 DEF handleLogout, Unmounts, Left, clearToken, setToken
  <1>3. ASSUME NEW c \in Customer, OpenModal(c) PROVE OneLogin'
    BY <1>3 DEF OpenModal
  <1>4. ASSUME CloseModal PROVE OneLogin'
    BY <1>4 DEF CloseModal
  <1>5. ASSUME NEW r \in Request, handleSave(r) PROVE OneLogin'
    BY <1>5 DEF handleSave, api, Asked
  <1>6. ASSUME NEW r \in Request, ChangeTask(r) PROVE OneLogin'
    BY <1>6 DEF ChangeTask, api, Asked
  <1>7. ASSUME NEW t \in Agent \cup {None}, Loads(t) PROVE OneLogin'
    <2>1. Fresh(t)
      BY <1>7, NewPage
    <2> QED
      BY <2>1 DEF Fresh, KeptOrProfile, Waits
  <1>8. ASSUME NEW r \in Request, Serve(r) PROVE OneLogin'
    BY <1>8 DEF Serve, Waits, Reply
  <1>9. ASSUME NEW r \in Request, Refuse(r) PROVE OneLogin'
    BY <1>9 DEF Refuse, Waits, Reply
  <1>10. ASSUME NEW r \in Request, Fail(r) PROVE OneLogin'
    BY <1>10 DEF Fail, Waits, Reply
  <1>11. ASSUME NEW r \in Request, LoginOk(r) PROVE OneLogin'
    <2>1. SetAgent(r, req[r].as)
      BY <1>11 DEF LoginOk
    <2>2. CASE agent = None
      BY <1>11, <2>1, <2>2, NewDashboard DEF Opened, LoginOk, Replied, setToken
    <2>3. CASE agent # None
      BY <1>11, <2>3 DEF LoginOk, Replied, setToken, SetAgent, Done
    <2> QED
      BY <2>2, <2>3
  <1>12. ASSUME NEW r \in Request, LoginFails(r) PROVE OneLogin'
    BY <1>12 DEF LoginFails, Replied, Refused, clearToken, setToken, Done
  <1>13. ASSUME NEW r \in Request, ProfileOk(r) PROVE OneLogin'
    <2>1. SetAgent(r, req[r].as)
      BY <1>13 DEF ProfileOk
    <2>2. CASE agent = None
      BY <1>13, <2>1, <2>2, NewDashboard DEF Opened, ProfileOk, Replied, setToken
    <2>3. CASE agent # None
      BY <1>13, <2>3 DEF ProfileOk, Replied, setToken, SetAgent, Done
    <2> QED
      BY <2>2, <2>3
  <1>14. ASSUME NEW r \in Request, ProfileFails(r) PROVE OneLogin'
    <2>1. Forgotten(r)
      BY <1>14, NoProfile
    <2> QED
      BY <1>14, <2>1 DEF Forgotten, ProfileFails, Replied, Waits
  <1>15. ASSUME NEW r \in Request, LoadOk(r) PROVE OneLogin'
    BY <1>15 DEF LoadOk, Replied, Arrives, Done, Lists
  <1>16. ASSUME NEW r \in Request, LoadFails(r) PROVE OneLogin'
    BY <1>16 DEF LoadFails, Replied, Refused, clearToken, setToken, Arrives, Done
  <1>17. ASSUME NEW r \in Request, SaveOk(r) PROVE OneLogin'
    BY <1>17 DEF SaveOk, Replied, Reload, Asked, Queued, LoadsHere
  <1>18. ASSUME NEW r \in Request, SaveFails(r) PROVE OneLogin'
    BY <1>18 DEF SaveFails, Replied, Refused, clearToken, setToken, NotSaving, Done
  <1>19. ASSUME NEW r \in Request, TaskOk(r) PROVE OneLogin'
    BY <1>19 DEF TaskOk, Replied, Reload, Asked, Queued, LoadsHere
  <1>20. ASSUME NEW r \in Request, TaskFails(r) PROVE OneLogin'
    BY <1>20 DEF TaskFails, Replied, Refused, clearToken, setToken, Done
  <1>21. ASSUME NEW r \in Request, CallEvent(r) PROVE OneLogin'
    BY <1>21, CallEventLoads
  <1>22. CASE UNCHANGED vars
    BY <1>22 DEF vars
  <1>23. QED
    BY <1>1, <1>2, <1>3, <1>4, <1>5, <1>6, <1>7, <1>8, <1>9, <1>10, <1>11, <1>12, <1>13,
       <1>14, <1>15, <1>16, <1>17, <1>18, <1>19, <1>20, <1>21, <1>22
       DEF Next, User, Api, Continue

(* Good answers are for those with a token. *)
LEMMA OkHasTokenStep ==
    ASSUME TypeOK, OkHasToken, [Next]_vars
    PROVE  OkHasToken'
  <1> USE CrmNoneAssumption DEF TypeOK, session, forms, loads, Here, OkHasToken,
          NoRequest
  <1>1. ASSUME NEW r \in Request, NEW a \in Agent, handleLogin(r, a) PROVE OkHasToken'
    BY <1>1 DEF handleLogin, Asked
  <1>2. ASSUME handleLogout PROVE OkHasToken'
    BY <1>2 DEF handleLogout, Unmounts, Left, clearToken, setToken
  <1>3. ASSUME NEW c \in Customer, OpenModal(c) PROVE OkHasToken'
    BY <1>3 DEF OpenModal
  <1>4. ASSUME CloseModal PROVE OkHasToken'
    BY <1>4 DEF CloseModal
  <1>5. ASSUME NEW r \in Request, handleSave(r) PROVE OkHasToken'
    BY <1>5 DEF handleSave, api, Asked
  <1>6. ASSUME NEW r \in Request, ChangeTask(r) PROVE OkHasToken'
    BY <1>6 DEF ChangeTask, api, Asked
  <1>7. ASSUME NEW t \in Agent \cup {None}, Loads(t) PROVE OkHasToken'
    <2>1. Fresh(t)
      BY <1>7, NewPage
    <2> QED
      BY <2>1 DEF Fresh, KeptOrProfile, Waits
  <1>8. ASSUME NEW r \in Request, Serve(r) PROVE OkHasToken'
    BY <1>8 DEF Serve, Waits, Reply
  <1>9. ASSUME NEW r \in Request, Refuse(r) PROVE OkHasToken'
    BY <1>9 DEF Refuse, Waits, Reply
  <1>10. ASSUME NEW r \in Request, Fail(r) PROVE OkHasToken'
    BY <1>10 DEF Fail, Waits, Reply
  <1>11. ASSUME NEW r \in Request, LoginOk(r) PROVE OkHasToken'
    <2>1. SetAgent(r, req[r].as)
      BY <1>11 DEF LoginOk
    <2>2. CASE agent = None
      BY <1>11, <2>1, <2>2, NewDashboard DEF Opened, LoginOk, Replied, setToken
    <2>3. CASE agent # None
      BY <1>11, <2>3 DEF LoginOk, Replied, setToken, SetAgent, Done
    <2> QED
      BY <2>2, <2>3
  <1>12. ASSUME NEW r \in Request, LoginFails(r) PROVE OkHasToken'
    BY <1>12 DEF LoginFails, Replied, Refused, clearToken, setToken, Done
  <1>13. ASSUME NEW r \in Request, ProfileOk(r) PROVE OkHasToken'
    <2>1. SetAgent(r, req[r].as)
      BY <1>13 DEF ProfileOk
    <2>2. CASE agent = None
      BY <1>13, <2>1, <2>2, NewDashboard DEF Opened, ProfileOk, Replied, setToken
    <2>3. CASE agent # None
      BY <1>13, <2>3 DEF ProfileOk, Replied, setToken, SetAgent, Done
    <2> QED
      BY <2>2, <2>3
  <1>14. ASSUME NEW r \in Request, ProfileFails(r) PROVE OkHasToken'
    <2>1. Forgotten(r)
      BY <1>14, NoProfile
    <2> QED
      BY <1>14, <2>1 DEF Forgotten, ProfileFails, Replied, Waits
  <1>15. ASSUME NEW r \in Request, LoadOk(r) PROVE OkHasToken'
    BY <1>15 DEF LoadOk, Replied, Arrives, Done, Lists
  <1>16. ASSUME NEW r \in Request, LoadFails(r) PROVE OkHasToken'
    BY <1>16 DEF LoadFails, Replied, Refused, clearToken, setToken, Arrives, Done
  <1>17. ASSUME NEW r \in Request, SaveOk(r) PROVE OkHasToken'
    BY <1>17 DEF SaveOk, Replied, Reload, Asked, Queued, LoadsHere
  <1>18. ASSUME NEW r \in Request, SaveFails(r) PROVE OkHasToken'
    BY <1>18 DEF SaveFails, Replied, Refused, clearToken, setToken, NotSaving, Done
  <1>19. ASSUME NEW r \in Request, TaskOk(r) PROVE OkHasToken'
    BY <1>19 DEF TaskOk, Replied, Reload, Asked, Queued, LoadsHere
  <1>20. ASSUME NEW r \in Request, TaskFails(r) PROVE OkHasToken'
    BY <1>20 DEF TaskFails, Replied, Refused, clearToken, setToken, Done
  <1>21. ASSUME NEW r \in Request, CallEvent(r) PROVE OkHasToken'
    BY <1>21, CallEventLoads
  <1>22. CASE UNCHANGED vars
    BY <1>22 DEF vars
  <1>23. QED
    BY <1>1, <1>2, <1>3, <1>4, <1>5, <1>6, <1>7, <1>8, <1>9, <1>10, <1>11, <1>12, <1>13,
       <1>14, <1>15, <1>16, <1>17, <1>18, <1>19, <1>20, <1>21, <1>22
       DEF Next, User, Api, Continue

(* One request at a time can bring an agent. *)
LEMMA OneSessionStep ==
    ASSUME TypeOK, SomebodyWaits, EmptyLoginPage, OkHasToken, SessionInv, [Next]_vars
    PROVE  (~ raced => OneSession)'
  <1> USE CrmNoneAssumption DEF TypeOK, session, forms, loads, Here, SomebodyWaits,
          EmptyLoginPage, OkHasToken, SessionInv, OneSession, TokensMatch, Session,
          TokenOf, OfDashboard, NoRequest
  <1>1. ASSUME NEW r \in Request, NEW a \in Agent, handleLogin(r, a)
       PROVE  (~ raced => OneSession)'
    <2>1. /\ req'[r].kind = "login" /\ req'[r].to = "mounted"
          /\ \A q \in Request \ {r} : req'[q] = req[q]
          /\ agent' = None /\ (~ raced' => ~ raced)
      BY <1>1 DEF handleLogin, Asked
    <2>2. ~ raced' => \A q \in Request : ~ Session(q)
      BY <1>1 DEF handleLogin
    <2> QED
      BY <2>1, <2>2
  <1>2. ASSUME handleLogout PROVE (~ raced => OneSession)'
    BY <1>2 DEF handleLogout, Unmounts, Left, clearToken, setToken
  <1>3. ASSUME NEW c \in Customer, OpenModal(c) PROVE (~ raced => OneSession)'
    BY <1>3 DEF OpenModal
  <1>4. ASSUME CloseModal PROVE (~ raced => OneSession)'
    BY <1>4 DEF CloseModal
  <1>5. ASSUME NEW r \in Request, handleSave(r) PROVE (~ raced => OneSession)'
    BY <1>5 DEF handleSave, api, Asked
  <1>6. ASSUME NEW r \in Request, ChangeTask(r) PROVE (~ raced => OneSession)'
    BY <1>6 DEF ChangeTask, api, Asked
  <1>7. ASSUME NEW t \in Agent \cup {None}, Loads(t) PROVE (~ raced => OneSession)'
    <2>1. Fresh(t)
      BY <1>7, NewPage
    <2> QED
      BY <2>1 DEF Fresh, KeptOrProfile, Waits
  <1>8. ASSUME NEW r \in Request, Serve(r) PROVE (~ raced => OneSession)'
    BY <1>8 DEF Serve, Waits, Reply
  <1>9. ASSUME NEW r \in Request, Refuse(r) PROVE (~ raced => OneSession)'
    BY <1>9 DEF Refuse, Waits, Reply
  <1>10. ASSUME NEW r \in Request, Fail(r) PROVE (~ raced => OneSession)'
    BY <1>10 DEF Fail, Waits, Reply
  <1>11. ASSUME NEW r \in Request, LoginOk(r) PROVE (~ raced => OneSession)'
    <2>1. SetAgent(r, req[r].as)
      BY <1>11 DEF LoginOk
    <2>2. CASE agent = None
      BY <1>11, <2>1, <2>2, NewDashboard DEF Opened, LoginOk, Replied, setToken
    <2>3. CASE agent # None
      BY <1>11, <2>3 DEF LoginOk, Replied, setToken, SetAgent, Done
    <2> QED
      BY <2>2, <2>3
  <1>12. ASSUME NEW r \in Request, LoginFails(r) PROVE (~ raced => OneSession)'
    BY <1>12 DEF LoginFails, Replied, Refused, clearToken, setToken, Done
  <1>13. ASSUME NEW r \in Request, ProfileOk(r) PROVE (~ raced => OneSession)'
    <2>1. SetAgent(r, req[r].as)
      BY <1>13 DEF ProfileOk
    <2>2. CASE agent = None
      BY <1>13, <2>1, <2>2, NewDashboard DEF Opened, ProfileOk, Replied, setToken
    <2>3. CASE agent # None
      BY <1>13, <2>3 DEF ProfileOk, Replied, setToken, SetAgent, Done
    <2> QED
      BY <2>2, <2>3
  <1>14. ASSUME NEW r \in Request, ProfileFails(r) PROVE (~ raced => OneSession)'
    <2>1. Forgotten(r)
      BY <1>14, NoProfile
    <2> QED
      BY <1>14, <2>1 DEF Forgotten, ProfileFails, Replied, Waits
  <1>15. ASSUME NEW r \in Request, LoadOk(r) PROVE (~ raced => OneSession)'
    BY <1>15 DEF LoadOk, Replied, Arrives, Done, Lists
  <1>16. ASSUME NEW r \in Request, LoadFails(r) PROVE (~ raced => OneSession)'
    BY <1>16 DEF LoadFails, Replied, Refused, clearToken, setToken, Arrives, Done
  <1>17. ASSUME NEW r \in Request, SaveOk(r) PROVE (~ raced => OneSession)'
    BY <1>17 DEF SaveOk, Replied, Reload, Asked, Queued, LoadsHere
  <1>18. ASSUME NEW r \in Request, SaveFails(r) PROVE (~ raced => OneSession)'
    BY <1>18 DEF SaveFails, Replied, Refused, clearToken, setToken, NotSaving, Done
  <1>19. ASSUME NEW r \in Request, TaskOk(r) PROVE (~ raced => OneSession)'
    BY <1>19 DEF TaskOk, Replied, Reload, Asked, Queued, LoadsHere
  <1>20. ASSUME NEW r \in Request, TaskFails(r) PROVE (~ raced => OneSession)'
    BY <1>20 DEF TaskFails, Replied, Refused, clearToken, setToken, Done
  <1>21. ASSUME NEW r \in Request, CallEvent(r) PROVE (~ raced => OneSession)'
    BY <1>21, CallEventLoads
  <1>22. CASE UNCHANGED vars
    BY <1>22 DEF vars
  <1>23. QED
    BY <1>1, <1>2, <1>3, <1>4, <1>5, <1>6, <1>7, <1>8, <1>9, <1>10, <1>11, <1>12, <1>13,
       <1>14, <1>15, <1>16, <1>17, <1>18, <1>19, <1>20, <1>21, <1>22
       DEF Next, User, Api, Continue

(* The token is the one of the agent, or of the profile that is awaited. *)
LEMMA TokensMatchStep ==
    ASSUME TypeOK, SomebodyWaits, EmptyLoginPage, OkHasToken, SessionInv, [Next]_vars
    PROVE  (~ raced => TokensMatch)'
  <1> USE CrmNoneAssumption DEF TypeOK, session, forms, loads, Here, SomebodyWaits,
          EmptyLoginPage, OkHasToken, SessionInv, OneSession, TokensMatch, Session,
          TokenOf, OfDashboard, NoRequest
  <1>1. ASSUME NEW r \in Request, NEW a \in Agent, handleLogin(r, a) PROVE (~ raced => TokensMatch)'
    BY <1>1 DEF handleLogin, Asked
  <1>2. ASSUME handleLogout PROVE (~ raced => TokensMatch)'
    BY <1>2 DEF handleLogout, Unmounts, Left, clearToken, setToken
  <1>3. ASSUME NEW c \in Customer, OpenModal(c) PROVE (~ raced => TokensMatch)'
    BY <1>3 DEF OpenModal
  <1>4. ASSUME CloseModal PROVE (~ raced => TokensMatch)'
    BY <1>4 DEF CloseModal
  <1>5. ASSUME NEW r \in Request, handleSave(r) PROVE (~ raced => TokensMatch)'
    BY <1>5 DEF handleSave, api, Asked
  <1>6. ASSUME NEW r \in Request, ChangeTask(r) PROVE (~ raced => TokensMatch)'
    BY <1>6 DEF ChangeTask, api, Asked
  <1>7. ASSUME NEW t \in Agent \cup {None}, Loads(t) PROVE (~ raced => TokensMatch)'
    <2>1. Fresh(t)
      BY <1>7, NewPage
    <2> QED
      BY <2>1 DEF Fresh, KeptOrProfile, Waits
  <1>8. ASSUME NEW r \in Request, Serve(r) PROVE (~ raced => TokensMatch)'
    BY <1>8 DEF Serve, Waits, Reply
  <1>9. ASSUME NEW r \in Request, Refuse(r) PROVE (~ raced => TokensMatch)'
    BY <1>9 DEF Refuse, Waits, Reply
  <1>10. ASSUME NEW r \in Request, Fail(r) PROVE (~ raced => TokensMatch)'
    BY <1>10 DEF Fail, Waits, Reply
  <1>11. ASSUME NEW r \in Request, LoginOk(r) PROVE (~ raced => TokensMatch)'
    <2>1. SetAgent(r, req[r].as)
      BY <1>11 DEF LoginOk
    <2>2. CASE agent = None
      BY <1>11, <2>1, <2>2, NewDashboard DEF Opened, LoginOk, Replied, setToken
    <2>3. CASE agent # None
      BY <1>11, <2>3 DEF LoginOk, Replied, setToken, SetAgent, Done
    <2> QED
      BY <2>2, <2>3
  <1>12. ASSUME NEW r \in Request, LoginFails(r) PROVE (~ raced => TokensMatch)'
    BY <1>12 DEF LoginFails, Replied, Refused, clearToken, setToken, Done
  <1>13. ASSUME NEW r \in Request, ProfileOk(r) PROVE (~ raced => TokensMatch)'
    <2>1. SetAgent(r, req[r].as)
      BY <1>13 DEF ProfileOk
    <2>2. CASE agent = None
      BY <1>13, <2>1, <2>2, NewDashboard DEF Opened, ProfileOk, Replied, setToken
    <2>3. CASE agent # None
      BY <1>13, <2>3 DEF ProfileOk, Replied, setToken, SetAgent, Done
    <2> QED
      BY <2>2, <2>3
  <1>14. ASSUME NEW r \in Request, ProfileFails(r) PROVE (~ raced => TokensMatch)'
    <2>1. Forgotten(r)
      BY <1>14, NoProfile
    <2> QED
      BY <1>14, <2>1 DEF Forgotten, ProfileFails, Replied, Waits
  <1>15. ASSUME NEW r \in Request, LoadOk(r) PROVE (~ raced => TokensMatch)'
    BY <1>15 DEF LoadOk, Replied, Arrives, Done, Lists
  <1>16. ASSUME NEW r \in Request, LoadFails(r) PROVE (~ raced => TokensMatch)'
    BY <1>16 DEF LoadFails, Replied, Refused, clearToken, setToken, Arrives, Done
  <1>17. ASSUME NEW r \in Request, SaveOk(r) PROVE (~ raced => TokensMatch)'
    BY <1>17 DEF SaveOk, Replied, Reload, Asked, Queued, LoadsHere
  <1>18. ASSUME NEW r \in Request, SaveFails(r) PROVE (~ raced => TokensMatch)'
    BY <1>18 DEF SaveFails, Replied, Refused, clearToken, setToken, NotSaving, Done
  <1>19. ASSUME NEW r \in Request, TaskOk(r) PROVE (~ raced => TokensMatch)'
    BY <1>19 DEF TaskOk, Replied, Reload, Asked, Queued, LoadsHere
  <1>20. ASSUME NEW r \in Request, TaskFails(r) PROVE (~ raced => TokensMatch)'
    BY <1>20 DEF TaskFails, Replied, Refused, clearToken, setToken, Done
  <1>21. ASSUME NEW r \in Request, CallEvent(r) PROVE (~ raced => TokensMatch)'
    BY <1>21, CallEventLoads
  <1>22. CASE UNCHANGED vars
    BY <1>22 DEF vars
  <1>23. QED
    BY <1>1, <1>2, <1>3, <1>4, <1>5, <1>6, <1>7, <1>8, <1>9, <1>10, <1>11, <1>12, <1>13,
       <1>14, <1>15, <1>16, <1>17, <1>18, <1>19, <1>20, <1>21, <1>22
       DEF Next, User, Api, Continue

(* What is shown and what is loaded is the agent's own. *)
LEMMA OwnLoadsStep ==
    ASSUME TypeOK, SomebodyWaits, EmptyLoginPage, OkHasToken, SessionInv, [Next]_vars
    PROVE  (~ raced => OwnLoads)'
  <1> USE CrmNoneAssumption DEF TypeOK, session, forms, loads, Here, SomebodyWaits,
          EmptyLoginPage, OkHasToken, SessionInv, OneSession, TokensMatch, Session,
          TokenOf, OfDashboard, NoRequest, OwnLoads, LoadsHere, Nothing
  <1>1. ASSUME NEW r \in Request, NEW a \in Agent, handleLogin(r, a) PROVE (~ raced => OwnLoads)'
    BY <1>1 DEF handleLogin, Asked
  <1>2. ASSUME handleLogout PROVE (~ raced => OwnLoads)'
    BY <1>2 DEF handleLogout, Unmounts, Left, clearToken, setToken
  <1>3. ASSUME NEW c \in Customer, OpenModal(c) PROVE (~ raced => OwnLoads)'
    BY <1>3 DEF OpenModal
  <1>4. ASSUME CloseModal PROVE (~ raced => OwnLoads)'
    BY <1>4 DEF CloseModal
  <1>5. ASSUME NEW r \in Request, handleSave(r) PROVE (~ raced => OwnLoads)'
    BY <1>5 DEF handleSave, api, Asked
  <1>6. ASSUME NEW r \in Request, ChangeTask(r) PROVE (~ raced => OwnLoads)'
    BY <1>6 DEF ChangeTask, api, Asked
  <1>7. ASSUME NEW t \in Agent \cup {None}, Loads(t) PROVE (~ raced => OwnLoads)'
    <2>1. Fresh(t)
      BY <1>7, NewPage
    <2> QED
      BY <2>1 DEF Fresh, KeptOrProfile, Waits
  <1>8. ASSUME NEW r \in Request, Serve(r) PROVE (~ raced => OwnLoads)'
    BY <1>8 DEF Serve, Waits, Reply
  <1>9. ASSUME NEW r \in Request, Refuse(r) PROVE (~ raced => OwnLoads)'
    BY <1>9 DEF Refuse, Waits, Reply
  <1>10. ASSUME NEW r \in Request, Fail(r) PROVE (~ raced => OwnLoads)'
    BY <1>10 DEF Fail, Waits, Reply
  <1>11. ASSUME NEW r \in Request, LoginOk(r) PROVE (~ raced => OwnLoads)'
    <2>1. SetAgent(r, req[r].as)
      BY <1>11 DEF LoginOk
    <2>2. CASE agent = None
      BY <1>11, <2>1, <2>2, NewDashboard DEF Opened, LoginOk, Replied, setToken
    <2>3. CASE agent # None
      BY <1>11, <2>3 DEF LoginOk, Replied, setToken, SetAgent, Done
    <2> QED
      BY <2>2, <2>3
  <1>12. ASSUME NEW r \in Request, LoginFails(r) PROVE (~ raced => OwnLoads)'
    BY <1>12 DEF LoginFails, Replied, Refused, clearToken, setToken, Done
  <1>13. ASSUME NEW r \in Request, ProfileOk(r) PROVE (~ raced => OwnLoads)'
    <2>1. SetAgent(r, req[r].as)
      BY <1>13 DEF ProfileOk
    <2>2. CASE agent = None
      BY <1>13, <2>1, <2>2, NewDashboard DEF Opened, ProfileOk, Replied, setToken
    <2>3. CASE agent # None
      BY <1>13, <2>3 DEF ProfileOk, Replied, setToken, SetAgent, Done
    <2> QED
      BY <2>2, <2>3
  <1>14. ASSUME NEW r \in Request, ProfileFails(r) PROVE (~ raced => OwnLoads)'
    <2>1. Forgotten(r)
      BY <1>14, NoProfile
    <2> QED
      BY <1>14, <2>1 DEF Forgotten, ProfileFails, Replied, Waits
  <1>15. ASSUME NEW r \in Request, LoadOk(r) PROVE (~ raced => OwnLoads)'
    BY <1>15 DEF LoadOk, Replied, Arrives, Done, Lists
  <1>16. ASSUME NEW r \in Request, LoadFails(r) PROVE (~ raced => OwnLoads)'
    BY <1>16 DEF LoadFails, Replied, Refused, clearToken, setToken, Arrives, Done
  <1>17. ASSUME NEW r \in Request, SaveOk(r) PROVE (~ raced => OwnLoads)'
    BY <1>17 DEF SaveOk, Replied, Reload, Asked, Queued, LoadsHere
  <1>18. ASSUME NEW r \in Request, SaveFails(r) PROVE (~ raced => OwnLoads)'
    BY <1>18 DEF SaveFails, Replied, Refused, clearToken, setToken, NotSaving, Done
  <1>19. ASSUME NEW r \in Request, TaskOk(r) PROVE (~ raced => OwnLoads)'
    BY <1>19 DEF TaskOk, Replied, Reload, Asked, Queued, LoadsHere
  <1>20. ASSUME NEW r \in Request, TaskFails(r) PROVE (~ raced => OwnLoads)'
    BY <1>20 DEF TaskFails, Replied, Refused, clearToken, setToken, Done
  <1>21. ASSUME NEW r \in Request, CallEvent(r) PROVE (~ raced => OwnLoads)'
    BY <1>21, CallEventLoads
  <1>22. CASE UNCHANGED vars
    BY <1>22 DEF vars
  <1>23. QED
    BY <1>1, <1>2, <1>3, <1>4, <1>5, <1>6, <1>7, <1>8, <1>9, <1>10, <1>11, <1>12, <1>13,
       <1>14, <1>15, <1>16, <1>17, <1>18, <1>19, <1>20, <1>21, <1>22
       DEF Next, User, Api, Continue

(* Forms that are open, sent or saved are used ones. *)
LEMMA FormsAreUsedStep ==
    ASSUME TypeOK, FormsAreUsed, [Next]_vars
    PROVE  FormsAreUsed'
  <1> USE CrmNoneAssumption DEF TypeOK, session, forms, loads, Here, FormsAreUsed,
          NoRequest, OfDashboard, Many
  <1>1. ASSUME NEW r \in Request, NEW a \in Agent, handleLogin(r, a) PROVE FormsAreUsed'
    BY <1>1 DEF handleLogin, Asked
  <1>2. ASSUME handleLogout PROVE FormsAreUsed'
    BY <1>2 DEF handleLogout, Unmounts, Left, clearToken, setToken
  <1>3. ASSUME NEW c \in Customer, OpenModal(c) PROVE FormsAreUsed'
    BY <1>3 DEF OpenModal
  <1>4. ASSUME CloseModal PROVE FormsAreUsed'
    BY <1>4 DEF CloseModal
  <1>5. ASSUME NEW r \in Request, handleSave(r) PROVE FormsAreUsed'
    BY <1>5 DEF handleSave, api, Asked
  <1>6. ASSUME NEW r \in Request, ChangeTask(r) PROVE FormsAreUsed'
    BY <1>6 DEF ChangeTask, api, Asked
  <1>7. ASSUME NEW t \in Agent \cup {None}, Loads(t) PROVE FormsAreUsed'
    <2>1. Fresh(t)
      BY <1>7, NewPage
    <2> QED
      BY <2>1 DEF Fresh, KeptOrProfile, Waits
  <1>8. ASSUME NEW r \in Request, Serve(r) PROVE FormsAreUsed'
    BY <1>8 DEF Serve, Waits, Reply
  <1>9. ASSUME NEW r \in Request, Refuse(r) PROVE FormsAreUsed'
    BY <1>9 DEF Refuse, Waits, Reply
  <1>10. ASSUME NEW r \in Request, Fail(r) PROVE FormsAreUsed'
    BY <1>10 DEF Fail, Waits, Reply
  <1>11. ASSUME NEW r \in Request, LoginOk(r) PROVE FormsAreUsed'
    <2>1. SetAgent(r, req[r].as)
      BY <1>11 DEF LoginOk
    <2>2. CASE agent = None
      BY <1>11, <2>1, <2>2, NewDashboard DEF Opened, LoginOk, Replied, setToken
    <2>3. CASE agent # None
      BY <1>11, <2>3 DEF LoginOk, Replied, setToken, SetAgent, Done
    <2> QED
      BY <2>2, <2>3
  <1>12. ASSUME NEW r \in Request, LoginFails(r) PROVE FormsAreUsed'
    BY <1>12 DEF LoginFails, Replied, Refused, clearToken, setToken, Done
  <1>13. ASSUME NEW r \in Request, ProfileOk(r) PROVE FormsAreUsed'
    <2>1. SetAgent(r, req[r].as)
      BY <1>13 DEF ProfileOk
    <2>2. CASE agent = None
      BY <1>13, <2>1, <2>2, NewDashboard DEF Opened, ProfileOk, Replied, setToken
    <2>3. CASE agent # None
      BY <1>13, <2>3 DEF ProfileOk, Replied, setToken, SetAgent, Done
    <2> QED
      BY <2>2, <2>3
  <1>14. ASSUME NEW r \in Request, ProfileFails(r) PROVE FormsAreUsed'
    <2>1. Forgotten(r)
      BY <1>14, NoProfile
    <2> QED
      BY <1>14, <2>1 DEF Forgotten, ProfileFails, Replied, Waits
  <1>15. ASSUME NEW r \in Request, LoadOk(r) PROVE FormsAreUsed'
    BY <1>15 DEF LoadOk, Replied, Arrives, Done, Lists
  <1>16. ASSUME NEW r \in Request, LoadFails(r) PROVE FormsAreUsed'
    BY <1>16 DEF LoadFails, Replied, Refused, clearToken, setToken, Arrives, Done
  <1>17. ASSUME NEW r \in Request, SaveOk(r) PROVE FormsAreUsed'
    BY <1>17 DEF SaveOk, Replied, Reload, Asked, Queued, LoadsHere
  <1>18. ASSUME NEW r \in Request, SaveFails(r) PROVE FormsAreUsed'
    BY <1>18 DEF SaveFails, Replied, Refused, clearToken, setToken, NotSaving, Done
  <1>19. ASSUME NEW r \in Request, TaskOk(r) PROVE FormsAreUsed'
    BY <1>19 DEF TaskOk, Replied, Reload, Asked, Queued, LoadsHere
  <1>20. ASSUME NEW r \in Request, TaskFails(r) PROVE FormsAreUsed'
    BY <1>20 DEF TaskFails, Replied, Refused, clearToken, setToken, Done
  <1>21. ASSUME NEW r \in Request, CallEvent(r) PROVE FormsAreUsed'
    BY <1>21, CallEventLoads
  <1>22. CASE UNCHANGED vars
    BY <1>22 DEF vars
  <1>23. QED
    BY <1>1, <1>2, <1>3, <1>4, <1>5, <1>6, <1>7, <1>8, <1>9, <1>10, <1>11, <1>12, <1>13,
       <1>14, <1>15, <1>16, <1>17, <1>18, <1>19, <1>20, <1>21, <1>22
       DEF Next, User, Api, Continue

(* An enabled button is of a form not sent yet, or of one that failed. *)
LEMMA ReadyStep ==
    ASSUME TypeOK, EmptyLoginPage, FormsAreUsed, OneSave, ReadyMeansUnsent,
           BusyFormsWait, [Next]_vars
    PROVE  ReadyMeansUnsent'
  <1> USE CrmNoneAssumption DEF TypeOK, session, forms, loads, Here, FormsAreUsed,
          NoRequest, OfDashboard, Many, EmptyLoginPage, OneSave, ReadyMeansUnsent,
          BusyFormsWait, Sent
  <1>1. ASSUME NEW r \in Request, NEW a \in Agent, handleLogin(r, a) PROVE ReadyMeansUnsent'
    BY <1>1 DEF handleLogin, Asked
  <1>2. ASSUME handleLogout PROVE ReadyMeansUnsent'
    BY <1>2 DEF handleLogout, Unmounts, Left, clearToken, setToken
  <1>3. ASSUME NEW c \in Customer, OpenModal(c) PROVE ReadyMeansUnsent'
    BY <1>3 DEF OpenModal
  <1>4. ASSUME CloseModal PROVE ReadyMeansUnsent'
    BY <1>4 DEF CloseModal
  <1>5. ASSUME NEW r \in Request, handleSave(r) PROVE ReadyMeansUnsent'
    BY <1>5 DEF handleSave, api, Asked
  <1>6. ASSUME NEW r \in Request, ChangeTask(r) PROVE ReadyMeansUnsent'
    BY <1>6 DEF ChangeTask, api, Asked
  <1>7. ASSUME NEW t \in Agent \cup {None}, Loads(t) PROVE ReadyMeansUnsent'
    <2>1. Fresh(t)
      BY <1>7, NewPage
    <2> QED
      BY <2>1 DEF Fresh, KeptOrProfile, Waits
  <1>8. ASSUME NEW r \in Request, Serve(r) PROVE ReadyMeansUnsent'
    BY <1>8 DEF Serve, Waits, Reply
  <1>9. ASSUME NEW r \in Request, Refuse(r) PROVE ReadyMeansUnsent'
    BY <1>9 DEF Refuse, Waits, Reply
  <1>10. ASSUME NEW r \in Request, Fail(r) PROVE ReadyMeansUnsent'
    BY <1>10 DEF Fail, Waits, Reply
  <1>11. ASSUME NEW r \in Request, LoginOk(r) PROVE ReadyMeansUnsent'
    <2>1. SetAgent(r, req[r].as)
      BY <1>11 DEF LoginOk
    <2>2. CASE agent = None
      BY <1>11, <2>1, <2>2, NewDashboard DEF Opened, LoginOk, Replied, setToken
    <2>3. CASE agent # None
      BY <1>11, <2>3 DEF LoginOk, Replied, setToken, SetAgent, Done
    <2> QED
      BY <2>2, <2>3
  <1>12. ASSUME NEW r \in Request, LoginFails(r) PROVE ReadyMeansUnsent'
    BY <1>12 DEF LoginFails, Replied, Refused, clearToken, setToken, Done
  <1>13. ASSUME NEW r \in Request, ProfileOk(r) PROVE ReadyMeansUnsent'
    <2>1. SetAgent(r, req[r].as)
      BY <1>13 DEF ProfileOk
    <2>2. CASE agent = None
      BY <1>13, <2>1, <2>2, NewDashboard DEF Opened, ProfileOk, Replied, setToken
    <2>3. CASE agent # None
      BY <1>13, <2>3 DEF ProfileOk, Replied, setToken, SetAgent, Done
    <2> QED
      BY <2>2, <2>3
  <1>14. ASSUME NEW r \in Request, ProfileFails(r) PROVE ReadyMeansUnsent'
    <2>1. Forgotten(r)
      BY <1>14, NoProfile
    <2> QED
      BY <1>14, <2>1 DEF Forgotten, ProfileFails, Replied, Waits
  <1>15. ASSUME NEW r \in Request, LoadOk(r) PROVE ReadyMeansUnsent'
    BY <1>15 DEF LoadOk, Replied, Arrives, Done, Lists
  <1>16. ASSUME NEW r \in Request, LoadFails(r) PROVE ReadyMeansUnsent'
    BY <1>16 DEF LoadFails, Replied, Refused, clearToken, setToken, Arrives, Done
  <1>17. ASSUME NEW r \in Request, SaveOk(r) PROVE ReadyMeansUnsent'
    BY <1>17 DEF SaveOk, Replied, Reload, Asked, Queued, LoadsHere
  <1>18. ASSUME NEW r \in Request, SaveFails(r) PROVE ReadyMeansUnsent'
    BY <1>18 DEF SaveFails, Replied, Refused, clearToken, setToken, NotSaving, Done
  <1>19. ASSUME NEW r \in Request, TaskOk(r) PROVE ReadyMeansUnsent'
    BY <1>19 DEF TaskOk, Replied, Reload, Asked, Queued, LoadsHere
  <1>20. ASSUME NEW r \in Request, TaskFails(r) PROVE ReadyMeansUnsent'
    BY <1>20 DEF TaskFails, Replied, Refused, clearToken, setToken, Done
  <1>21. ASSUME NEW r \in Request, CallEvent(r) PROVE ReadyMeansUnsent'
    BY <1>21, CallEventLoads
  <1>22. CASE UNCHANGED vars
    BY <1>22 DEF vars
  <1>23. QED
    BY <1>1, <1>2, <1>3, <1>4, <1>5, <1>6, <1>7, <1>8, <1>9, <1>10, <1>11, <1>12, <1>13,
       <1>14, <1>15, <1>16, <1>17, <1>18, <1>19, <1>20, <1>21, <1>22
       DEF Next, User, Api, Continue

(* A form has one request at a time, until one has failed. *)
LEMMA OneSaveStep ==
    ASSUME TypeOK, FormsAreUsed, ReadyMeansUnsent, OneSave, [Next]_vars
    PROVE  OneSave'
  <1> USE CrmNoneAssumption DEF TypeOK, session, forms, loads, Here, FormsAreUsed,
          NoRequest, OfDashboard, Many, OneSave, ReadyMeansUnsent, Sent, Waits
  <1>1. ASSUME NEW r \in Request, NEW a \in Agent, handleLogin(r, a) PROVE OneSave'
    BY <1>1 DEF handleLogin, Asked
  <1>2. ASSUME handleLogout PROVE OneSave'
    BY <1>2 DEF handleLogout, Unmounts, Left, clearToken, setToken
  <1>3. ASSUME NEW c \in Customer, OpenModal(c) PROVE OneSave'
    BY <1>3 DEF OpenModal
  <1>4. ASSUME CloseModal PROVE OneSave'
    BY <1>4 DEF CloseModal
  <1>5. ASSUME NEW r \in Request, handleSave(r) PROVE OneSave'
    BY <1>5 DEF handleSave, api, Asked
  <1>6. ASSUME NEW r \in Request, ChangeTask(r) PROVE OneSave'
    BY <1>6 DEF ChangeTask, api, Asked
  <1>7. ASSUME NEW t \in Agent \cup {None}, Loads(t) PROVE OneSave'
    <2>1. Fresh(t)
      BY <1>7, NewPage
    <2> QED
      BY <2>1 DEF Fresh, KeptOrProfile, Waits
  <1>8. ASSUME NEW r \in Request, Serve(r) PROVE OneSave'
    BY <1>8 DEF Serve, Waits, Reply
  <1>9. ASSUME NEW r \in Request, Refuse(r) PROVE OneSave'
    BY <1>9 DEF Refuse, Waits, Reply
  <1>10. ASSUME NEW r \in Request, Fail(r) PROVE OneSave'
    BY <1>10 DEF Fail, Waits, Reply
  <1>11. ASSUME NEW r \in Request, LoginOk(r) PROVE OneSave'
    <2>1. SetAgent(r, req[r].as)
      BY <1>11 DEF LoginOk
    <2>2. CASE agent = None
      BY <1>11, <2>1, <2>2, NewDashboard DEF Opened, LoginOk, Replied, setToken
    <2>3. CASE agent # None
      BY <1>11, <2>3 DEF LoginOk, Replied, setToken, SetAgent, Done
    <2> QED
      BY <2>2, <2>3
  <1>12. ASSUME NEW r \in Request, LoginFails(r) PROVE OneSave'
    BY <1>12 DEF LoginFails, Replied, Refused, clearToken, setToken, Done
  <1>13. ASSUME NEW r \in Request, ProfileOk(r) PROVE OneSave'
    <2>1. SetAgent(r, req[r].as)
      BY <1>13 DEF ProfileOk
    <2>2. CASE agent = None
      BY <1>13, <2>1, <2>2, NewDashboard DEF Opened, ProfileOk, Replied, setToken
    <2>3. CASE agent # None
      BY <1>13, <2>3 DEF ProfileOk, Replied, setToken, SetAgent, Done
    <2> QED
      BY <2>2, <2>3
  <1>14. ASSUME NEW r \in Request, ProfileFails(r) PROVE OneSave'
    <2>1. Forgotten(r)
      BY <1>14, NoProfile
    <2> QED
      BY <1>14, <2>1 DEF Forgotten, ProfileFails, Replied, Waits
  <1>15. ASSUME NEW r \in Request, LoadOk(r) PROVE OneSave'
    BY <1>15 DEF LoadOk, Replied, Arrives, Done, Lists
  <1>16. ASSUME NEW r \in Request, LoadFails(r) PROVE OneSave'
    BY <1>16 DEF LoadFails, Replied, Refused, clearToken, setToken, Arrives, Done
  <1>17. ASSUME NEW r \in Request, SaveOk(r) PROVE OneSave'
    BY <1>17 DEF SaveOk, Replied, Reload, Asked, Queued, LoadsHere
  <1>18. ASSUME NEW r \in Request, SaveFails(r) PROVE OneSave'
    BY <1>18 DEF SaveFails, Replied, Refused, clearToken, setToken, NotSaving, Done
  <1>19. ASSUME NEW r \in Request, TaskOk(r) PROVE OneSave'
    BY <1>19 DEF TaskOk, Replied, Reload, Asked, Queued, LoadsHere
  <1>20. ASSUME NEW r \in Request, TaskFails(r) PROVE OneSave'
    BY <1>20 DEF TaskFails, Replied, Refused, clearToken, setToken, Done
  <1>21. ASSUME NEW r \in Request, CallEvent(r) PROVE OneSave'
    BY <1>21, CallEventLoads
  <1>22. CASE UNCHANGED vars
    BY <1>22 DEF vars
  <1>23. QED
    BY <1>1, <1>2, <1>3, <1>4, <1>5, <1>6, <1>7, <1>8, <1>9, <1>10, <1>11, <1>12, <1>13,
       <1>14, <1>15, <1>16, <1>17, <1>18, <1>19, <1>20, <1>21, <1>22
       DEF Next, User, Api, Continue

(* A form makes one customer, until a request for it has failed. *)
LEMMA OneCustomerStep ==
    ASSUME TypeOK, FormsAreUsed, OneSave, OneCustomerPerForm, [Next]_vars
    PROVE  OneCustomerPerForm'
  <1> USE CrmNoneAssumption DEF TypeOK, session, forms, loads, Here, FormsAreUsed,
          NoRequest, OfDashboard, Many, OneSave, OneCustomerPerForm
  <1>1. ASSUME NEW r \in Request, NEW a \in Agent, handleLogin(r, a) PROVE OneCustomerPerForm'
    BY <1>1 DEF handleLogin, Asked
  <1>2. ASSUME handleLogout PROVE OneCustomerPerForm'
    BY <1>2 DEF handleLogout, Unmounts, Left, clearToken, setToken
  <1>3. ASSUME NEW c \in Customer, OpenModal(c) PROVE OneCustomerPerForm'
    BY <1>3 DEF OpenModal
  <1>4. ASSUME CloseModal PROVE OneCustomerPerForm'
    BY <1>4 DEF CloseModal
  <1>5. ASSUME NEW r \in Request, handleSave(r) PROVE OneCustomerPerForm'
    BY <1>5 DEF handleSave, api, Asked
  <1>6. ASSUME NEW r \in Request, ChangeTask(r) PROVE OneCustomerPerForm'
    BY <1>6 DEF ChangeTask, api, Asked
  <1>7. ASSUME NEW t \in Agent \cup {None}, Loads(t) PROVE OneCustomerPerForm'
    <2>1. Fresh(t)
      BY <1>7, NewPage
    <2> QED
      BY <2>1 DEF Fresh, KeptOrProfile, Waits
  <1>8. ASSUME NEW r \in Request, Serve(r) PROVE OneCustomerPerForm'
    BY <1>8 DEF Serve, Waits, Reply
  <1>9. ASSUME NEW r \in Request, Refuse(r) PROVE OneCustomerPerForm'
    BY <1>9 DEF Refuse, Waits, Reply
  <1>10. ASSUME NEW r \in Request, Fail(r) PROVE OneCustomerPerForm'
    BY <1>10 DEF Fail, Waits, Reply
  <1>11. ASSUME NEW r \in Request, LoginOk(r) PROVE OneCustomerPerForm'
    <2>1. SetAgent(r, req[r].as)
      BY <1>11 DEF LoginOk
    <2>2. CASE agent = None
      BY <1>11, <2>1, <2>2, NewDashboard DEF Opened, LoginOk, Replied, setToken
    <2>3. CASE agent # None
      BY <1>11, <2>3 DEF LoginOk, Replied, setToken, SetAgent, Done
    <2> QED
      BY <2>2, <2>3
  <1>12. ASSUME NEW r \in Request, LoginFails(r) PROVE OneCustomerPerForm'
    BY <1>12 DEF LoginFails, Replied, Refused, clearToken, setToken, Done
  <1>13. ASSUME NEW r \in Request, ProfileOk(r) PROVE OneCustomerPerForm'
    <2>1. SetAgent(r, req[r].as)
      BY <1>13 DEF ProfileOk
    <2>2. CASE agent = None
      BY <1>13, <2>1, <2>2, NewDashboard DEF Opened, ProfileOk, Replied, setToken
    <2>3. CASE agent # None
      BY <1>13, <2>3 DEF ProfileOk, Replied, setToken, SetAgent, Done
    <2> QED
      BY <2>2, <2>3
  <1>14. ASSUME NEW r \in Request, ProfileFails(r) PROVE OneCustomerPerForm'
    <2>1. Forgotten(r)
      BY <1>14, NoProfile
    <2> QED
      BY <1>14, <2>1 DEF Forgotten, ProfileFails, Replied, Waits
  <1>15. ASSUME NEW r \in Request, LoadOk(r) PROVE OneCustomerPerForm'
    BY <1>15 DEF LoadOk, Replied, Arrives, Done, Lists
  <1>16. ASSUME NEW r \in Request, LoadFails(r) PROVE OneCustomerPerForm'
    BY <1>16 DEF LoadFails, Replied, Refused, clearToken, setToken, Arrives, Done
  <1>17. ASSUME NEW r \in Request, SaveOk(r) PROVE OneCustomerPerForm'
    BY <1>17 DEF SaveOk, Replied, Reload, Asked, Queued, LoadsHere
  <1>18. ASSUME NEW r \in Request, SaveFails(r) PROVE OneCustomerPerForm'
    BY <1>18 DEF SaveFails, Replied, Refused, clearToken, setToken, NotSaving, Done
  <1>19. ASSUME NEW r \in Request, TaskOk(r) PROVE OneCustomerPerForm'
    BY <1>19 DEF TaskOk, Replied, Reload, Asked, Queued, LoadsHere
  <1>20. ASSUME NEW r \in Request, TaskFails(r) PROVE OneCustomerPerForm'
    BY <1>20 DEF TaskFails, Replied, Refused, clearToken, setToken, Done
  <1>21. ASSUME NEW r \in Request, CallEvent(r) PROVE OneCustomerPerForm'
    BY <1>21, CallEventLoads
  <1>22. CASE UNCHANGED vars
    BY <1>22 DEF vars
  <1>23. QED
    BY <1>1, <1>2, <1>3, <1>4, <1>5, <1>6, <1>7, <1>8, <1>9, <1>10, <1>11, <1>12, <1>13,
       <1>14, <1>15, <1>16, <1>17, <1>18, <1>19, <1>20, <1>21, <1>22
       DEF Next, User, Api, Continue

(* A disabled button has a request that will enable it. *)
LEMMA BusyStep ==
    ASSUME TypeOK, SomebodyWaits, EmptyLoginPage, OneLogin, BusyFormsWait, [Next]_vars
    PROVE  BusyFormsWait'
  <1> USE CrmNoneAssumption DEF TypeOK, session, forms, loads, Here, SomebodyWaits,
          EmptyLoginPage, OneLogin, BusyFormsWait, NoRequest, OfDashboard
  <1>1. ASSUME NEW r \in Request, NEW a \in Agent, handleLogin(r, a) PROVE BusyFormsWait'
    BY <1>1 DEF handleLogin, Asked
  <1>2. ASSUME handleLogout PROVE BusyFormsWait'
    BY <1>2 DEF handleLogout, Unmounts, Left, clearToken, setToken
  <1>3. ASSUME NEW c \in Customer, OpenModal(c) PROVE BusyFormsWait'
    BY <1>3 DEF OpenModal
  <1>4. ASSUME CloseModal PROVE BusyFormsWait'
    BY <1>4 DEF CloseModal
  <1>5. ASSUME NEW r \in Request, handleSave(r) PROVE BusyFormsWait'
    BY <1>5 DEF handleSave, api, Asked
  <1>6. ASSUME NEW r \in Request, ChangeTask(r) PROVE BusyFormsWait'
    BY <1>6 DEF ChangeTask, api, Asked
  <1>7. ASSUME NEW t \in Agent \cup {None}, Loads(t) PROVE BusyFormsWait'
    <2>1. Fresh(t)
      BY <1>7, NewPage
    <2> QED
      BY <2>1 DEF Fresh, KeptOrProfile, Waits
  <1>8. ASSUME NEW r \in Request, Serve(r) PROVE BusyFormsWait'
    BY <1>8 DEF Serve, Waits, Reply
  <1>9. ASSUME NEW r \in Request, Refuse(r) PROVE BusyFormsWait'
    BY <1>9 DEF Refuse, Waits, Reply
  <1>10. ASSUME NEW r \in Request, Fail(r) PROVE BusyFormsWait'
    BY <1>10 DEF Fail, Waits, Reply
  <1>11. ASSUME NEW r \in Request, LoginOk(r) PROVE BusyFormsWait'
    <2>1. SetAgent(r, req[r].as)
      BY <1>11 DEF LoginOk
    <2>2. CASE agent = None
      BY <1>11, <2>1, <2>2, NewDashboard DEF Opened, LoginOk, Replied, setToken
    <2>3. CASE agent # None
      BY <1>11, <2>3 DEF LoginOk, Replied, setToken, SetAgent, Done
    <2> QED
      BY <2>2, <2>3
  <1>12. ASSUME NEW r \in Request, LoginFails(r) PROVE BusyFormsWait'
    BY <1>12 DEF LoginFails, Replied, Refused, clearToken, setToken, Done
  <1>13. ASSUME NEW r \in Request, ProfileOk(r) PROVE BusyFormsWait'
    <2>1. SetAgent(r, req[r].as)
      BY <1>13 DEF ProfileOk
    <2>2. CASE agent = None
      BY <1>13, <2>1, <2>2, NewDashboard DEF Opened, ProfileOk, Replied, setToken
    <2>3. CASE agent # None
      BY <1>13, <2>3 DEF ProfileOk, Replied, setToken, SetAgent, Done
    <2> QED
      BY <2>2, <2>3
  <1>14. ASSUME NEW r \in Request, ProfileFails(r) PROVE BusyFormsWait'
    <2>1. Forgotten(r)
      BY <1>14, NoProfile
    <2> QED
      BY <1>14, <2>1 DEF Forgotten, ProfileFails, Replied, Waits
  <1>15. ASSUME NEW r \in Request, LoadOk(r) PROVE BusyFormsWait'
    BY <1>15 DEF LoadOk, Replied, Arrives, Done, Lists
  <1>16. ASSUME NEW r \in Request, LoadFails(r) PROVE BusyFormsWait'
    BY <1>16 DEF LoadFails, Replied, Refused, clearToken, setToken, Arrives, Done
  <1>17. ASSUME NEW r \in Request, SaveOk(r) PROVE BusyFormsWait'
    BY <1>17 DEF SaveOk, Replied, Reload, Asked, Queued, LoadsHere
  <1>18. ASSUME NEW r \in Request, SaveFails(r) PROVE BusyFormsWait'
    BY <1>18 DEF SaveFails, Replied, Refused, clearToken, setToken, NotSaving, Done
  <1>19. ASSUME NEW r \in Request, TaskOk(r) PROVE BusyFormsWait'
    BY <1>19 DEF TaskOk, Replied, Reload, Asked, Queued, LoadsHere
  <1>20. ASSUME NEW r \in Request, TaskFails(r) PROVE BusyFormsWait'
    BY <1>20 DEF TaskFails, Replied, Refused, clearToken, setToken, Done
  <1>21. ASSUME NEW r \in Request, CallEvent(r) PROVE BusyFormsWait'
    BY <1>21, CallEventLoads
  <1>22. CASE UNCHANGED vars
    BY <1>22 DEF vars
  <1>23. QED
    BY <1>1, <1>2, <1>3, <1>4, <1>5, <1>6, <1>7, <1>8, <1>9, <1>10, <1>11, <1>12, <1>13,
       <1>14, <1>15, <1>16, <1>17, <1>18, <1>19, <1>20, <1>21, <1>22
       DEF Next, User, Api, Continue

-----------------------------------------------------------------------------
(***************************************************************************)
(* What was confirmed is shown.                                            *)
(***************************************************************************)

\* No load that the Dashboard awaits comes or goes, and a good answer to one
\* lists what the database has.
NoLoadMoves ==
    /\ LoadsHere' = LoadsHere
    /\ UNCHANGED <<earlier, overtaken, stale, confirmed, shown>>
    /\ \A q \in LoadsHere : req'[q].reply = "ok" =>
          \/ req[q].reply = "ok" /\ req'[q].data = req[q].data
          \/ req'[q].data = {c \in Customer : saved[c] > 0}

\* The Dashboard goes, or there was none.
LoadsForgotten ==
    /\ LoadsHere' = {}
    /\ earlier' = NoneEarlier /\ overtaken' = {} /\ stale' = FALSE /\ confirmed' = {}

\* The Dashboard sends a load.
LoadSent(r) ==
    /\ r \notin LoadsHere
    /\ LoadsHere' = LoadsHere \cup {r}
    /\ earlier' = [earlier EXCEPT ![r] = LoadsHere]
    /\ req'[r].reply # "ok"
    /\ UNCHANGED overtaken

\* A load that the Dashboard awaits arrives, or fails.
LoadArrives(r) ==
    /\ r \in LoadsHere
    /\ LoadsHere' = LoadsHere \ {r}
    /\ earlier' = [q \in Request |-> IF q = r THEN {} ELSE earlier[q] \ {r}]
    /\ overtaken' = (overtaken \cup earlier[r]) \ {r}
    /\ UNCHANGED confirmed
    /\ \A q \in LoadsHere \ {r} : req'[q] = req[q]
    /\ \/ req[r].reply = "ok" /\ shown'.items = req[r].data /\ (stale' <=> r \in overtaken)
       \/ UNCHANGED shown /\ (stale' <=> stale \/ r \notin overtaken)

(* A reply changes no load but its own, and says what the database has. *)
LEMMA ReplyMovesNoLoad ==
    ASSUME TypeOK, SomebodyWaits, NEW r \in Request,
           Serve(r) \/ Refuse(r) \/ Fail(r)
    PROVE  NoLoadMoves
  <1> DEFINE D == {c \in Customer : req[r].kind = "load" /\ saved[c] > 0}
  <1>1. /\ UNCHANGED <<shown, loads>>
        /\ \/ Reply(r, "ok", D)
           \/ Reply(r, "refused", {})
           \/ Reply(r, "error", {})
    BY DEF Serve, Refuse, Fail
  <1>2. req[r] \in RequestRecord
    BY DEF TypeOK
  <1>3. UNCHANGED <<earlier, overtaken, stale, confirmed, shown>>
    BY <1>1 DEF loads
  <1>4. \A q \in Request \ {r} : req'[q] = req[q]
    BY <1>1 DEF Reply, TypeOK
  <1>5. ASSUME r \in LoadsHere
        PROVE  /\ r \in LoadsHere'
               /\ req'[r].reply = "ok" => req'[r].data = {c \in Customer : saved[c] > 0}
    <2>1. req[r].to = "mounted" /\ req[r].kind = "load"
      BY <1>5 DEF LoadsHere, Here
    <2>2. D = {c \in Customer : saved[c] > 0}
      BY <2>1
    <2>3. \/ req'[r] = [req[r] EXCEPT !.reply = "ok", !.data = D]
          \/ req'[r] = [req[r] EXCEPT !.reply = "refused", !.data = {}]
          \/ req'[r] = [req[r] EXCEPT !.reply = "error", !.data = {}]
      <3> HIDE DEF D
      <3> QED
        BY <1>1, <2>1 DEF Reply, TypeOK
    <2> HIDE DEF D
    <2>4. /\ req'[r].kind = "load" /\ req'[r].to = "mounted"
          /\ req'[r].reply = "ok" => req'[r].data = D
      BY <2>1, <2>3, <1>2 DEF RequestRecord
    <2> QED
      BY <2>2, <2>4 DEF LoadsHere, Here
  <1>6. ASSUME r \in LoadsHere' PROVE r \in LoadsHere
    <2>1. \/ req'[r] = NoRequest
          \/ req'[r] = [req[r] EXCEPT !.reply = "ok", !.data = D]
          \/ req'[r] = [req[r] EXCEPT !.reply = "refused", !.data = {}]
          \/ req'[r] = [req[r] EXCEPT !.reply = "error", !.data = {}]
      <3> HIDE DEF D
      <3> QED
        BY <1>1 DEF Reply, TypeOK
    <2> HIDE DEF D
    <2>2. req'[r] = NoRequest \/ (req'[r].kind = req[r].kind /\ req'[r].to = req[r].to)
      BY <1>2, <2>1 DEF RequestRecord
    <2> QED
      BY <1>6, <2>2 DEF LoadsHere, Here, NoRequest
  <1>7. LoadsHere' = LoadsHere
    BY <1>4, <1>5, <1>6 DEF LoadsHere, Here
  <1> QED
    BY <1>3, <1>4, <1>5, <1>7 DEF NoLoadMoves, LoadsHere

(* The loads that the Dashboard awaits change in one of these ways. *)
LEMMA LoadMoves ==
    ASSUME TypeOK, SomebodyWaits, LoadsAreOrdered, [Next]_vars
    PROVE  \/ NoLoadMoves
           \/ LoadsForgotten
           \/ \E r \in Request : LoadSent(r) \/ LoadArrives(r)
  <1> USE CrmNoneAssumption DEF TypeOK, session, forms, loads, Here, LoadsHere, NoRequest,
          OfDashboard
  <1>1. ASSUME NEW r \in Request, NEW a \in Agent, handleLogin(r, a) PROVE NoLoadMoves
    BY <1>1 DEF handleLogin, Asked, NoLoadMoves
  <1>2. ASSUME handleLogout PROVE LoadsForgotten
    BY <1>2 DEF handleLogout, Unmounts, Left, LoadsForgotten
  <1>3. ASSUME NEW c \in Customer, OpenModal(c) PROVE NoLoadMoves
    BY <1>3 DEF OpenModal, NoLoadMoves
  <1>4. ASSUME CloseModal PROVE NoLoadMoves
    BY <1>4 DEF CloseModal, NoLoadMoves
  <1>5. ASSUME NEW r \in Request, handleSave(r) PROVE NoLoadMoves
    BY <1>5 DEF handleSave, api, Asked, NoLoadMoves
  <1>6. ASSUME NEW r \in Request, ChangeTask(r) PROVE NoLoadMoves
    BY <1>6 DEF ChangeTask, api, Asked, NoLoadMoves
  <1>7. ASSUME NEW t \in Agent \cup {None}, Loads(t) PROVE LoadsForgotten
    <2>1. Fresh(t)
      BY <1>7, NewPage
    <2>2. LoadsHere' = {}
      BY <2>1 DEF Fresh, KeptOrProfile
    <2>3. earlier' = NoneEarlier /\ overtaken' = {} /\ stale' = FALSE /\ confirmed' = {}
      BY <1>7 DEF Loads, Unmounts
    <2> QED
      BY <2>2, <2>3 DEF LoadsForgotten
  <1>8. ASSUME NEW r \in Request, Serve(r) \/ Refuse(r) \/ Fail(r) PROVE NoLoadMoves
    BY <1>8, ReplyMovesNoLoad
  <1>9. ASSUME NEW r \in Request, LoginOk(r) \/ ProfileOk(r)
        PROVE  NoLoadMoves \/ LoadSent(r)
    <2>1. SetAgent(r, req[r].as) /\ r \notin LoadsHere
      BY <1>9 DEF LoginOk, ProfileOk, Replied
    <2>2. CASE agent = None
      <3>1. Opened(r, req[r].as)
        BY <2>1, <2>2, NewDashboard
      <3>2. LoadsHere = {} /\ LoadsHere' = {r} /\ req'[r].reply # "ok"
        BY <2>2, <3>1 DEF SomebodyWaits, Opened
      <3>3. earlier' = [earlier EXCEPT ![r] = LoadsHere \ {r}] /\ UNCHANGED overtaken
        BY <2>1, <2>2 DEF SetAgent, Queued
      <3> QED
        BY <2>1, <3>2, <3>3 DEF LoadSent
    <2>3. CASE agent # None
      BY <2>1, <2>3 DEF SetAgent, Done, NoLoadMoves
    <2> QED
      BY <2>2, <2>3
  <1>10. ASSUME NEW r \in Request, LoginFails(r) \/ SaveFails(r) \/ TaskFails(r)
         PROVE  NoLoadMoves
    <2>1. Done(r) /\ req[r].kind # "load"
      BY <1>10 DEF LoginFails, SaveFails, TaskFails, Replied
    <2>2. LoadsHere' = LoadsHere /\ \A q \in LoadsHere : req'[q] = req[q]
      BY <2>1 DEF Done
    <2>3. UNCHANGED <<earlier, overtaken, stale, confirmed, shown>>
      BY <1>10 DEF LoginFails, SaveFails, TaskFails
    <2> QED
      BY <2>2, <2>3 DEF NoLoadMoves
  <1>11. ASSUME NEW r \in Request, ProfileFails(r) PROVE LoadsForgotten
    <2>1. Forgotten(r)
      BY <1>11, NoProfile
    <2>2. LoadsHere' = {}
      BY <2>1 DEF Forgotten
    <2>3. earlier' = NoneEarlier /\ overtaken' = {} /\ stale' = FALSE /\ confirmed' = {}
      BY <1>11 DEF ProfileFails, Unmounts
    <2> QED
      BY <2>2, <2>3 DEF LoadsForgotten
  <1>12. ASSUME NEW r \in Request, LoadOk(r) \/ LoadFails(r) PROVE NoLoadMoves \/ LoadArrives(r)
    <2>1. /\ LoadsHere' = LoadsHere \ {r} /\ req[r].kind = "load"
          /\ \A q \in LoadsHere \ {r} : req'[q] = req[q]
          /\ earlier' = [q \in Request |-> IF q = r THEN {} ELSE earlier[q] \ {r}]
          /\ UNCHANGED confirmed
      BY <1>12 DEF LoadOk, LoadFails, Replied, Arrives, Done
    <2>2. CASE Here(r)
      <3>1. r \in LoadsHere
        BY <2>1, <2>2
      <3>2. /\ overtaken' = (overtaken \cup earlier[r]) \ {r}
            /\ \/ /\ req[r].reply = "ok" /\ shown'.items = req[r].data
                  /\ stale' <=> r \in overtaken
               \/ UNCHANGED shown /\ (stale' <=> stale \/ r \notin overtaken)
        <4>1. CASE LoadOk(r)
          <5>1. /\ shown' = Lists(r) /\ req[r].reply = "ok"
                /\ overtaken' = (overtaken \cup earlier[r]) \ {r}
            BY <2>2, <4>1 DEF LoadOk, Replied
          <5>2. stale' = (r \in overtaken)
            BY <2>2, <4>1 DEF LoadOk
          <5>3. stale' <=> r \in overtaken
            BY <5>2, Zenon
          <5> QED
            BY <5>1, <5>3 DEF Lists
        <4>2. CASE LoadFails(r)
          <5>1. UNCHANGED shown /\ overtaken' = (overtaken \cup earlier[r]) \ {r}
            BY <4>2 DEF LoadFails
          <5>2. stale' = (stale \/ (Here(r) /\ r \notin overtaken))
            BY <4>2 DEF LoadFails
          <5>3. stale' <=> stale \/ r \notin overtaken
            BY <2>2, <5>2, Zenon
          <5> QED
            BY <5>1, <5>3
        <4> QED
          BY <1>12, <4>1, <4>2
      <3> QED
        BY <2>1, <3>1, <3>2 DEF LoadArrives
    <2>3. CASE ~ Here(r)
      <3>1. LoadsHere' = LoadsHere /\ r \notin LoadsHere
        BY <2>1, <2>3
      <3>2. earlier' = earlier
        <4>1. \A q \in Request : (IF q = r THEN {} ELSE earlier[q] \ {r}) = earlier[q]
          BY <3>1 DEF LoadsAreOrdered
        <4> QED
          BY <2>1, <4>1
      <3>3. (overtaken \cup earlier[r]) \ {r} = overtaken
        BY <3>1 DEF LoadsAreOrdered
      <3>4. UNCHANGED <<overtaken, shown>> /\ (stale' <=> stale) /\ stale' \in BOOLEAN
        BY <1>12, <2>3, <3>3 DEF LoadOk, LoadFails
      <3> QED
        BY <2>1, <3>1, <3>2, <3>4 DEF NoLoadMoves
    <2> QED
      BY <2>2, <2>3
  <1>13. ASSUME NEW r \in Request, SaveOk(r) \/ TaskOk(r) PROVE NoLoadMoves \/ LoadSent(r)
    <2>1. Reload(r) /\ UNCHANGED shown /\ r \notin LoadsHere
      BY <1>13 DEF SaveOk, TaskOk, Replied
    <2>2. /\ \A q \in Request \ {r} : req'[q] = req[q]
          /\ req'[r].kind = "load" /\ req'[r].to = req[r].to /\ req'[r].reply = "none"
      BY <2>1 DEF Reload, Asked
    <2>3. CASE Here(r)
      <3>1. LoadsHere' = LoadsHere \cup {r}
        BY <2>2, <2>3
      <3>2. earlier' = [earlier EXCEPT ![r] = LoadsHere] /\ UNCHANGED overtaken
        <4>1. LoadsHere \ {r} = LoadsHere
          BY <2>1
        <4> QED
          BY <2>1, <2>3, <4>1 DEF Reload, Queued
      <3> QED
        BY <2>1, <2>2, <3>1, <3>2 DEF LoadSent
    <2>4. CASE ~ Here(r)
      <3>1. LoadsHere' = LoadsHere
        BY <2>1, <2>2, <2>4
      <3> QED
        BY <2>1, <2>2, <2>4, <3>1 DEF Reload, NoLoadMoves
    <2> QED
      BY <2>3, <2>4
  <1>14. ASSUME NEW r \in Request, CallEvent(r) PROVE NoLoadMoves \/ LoadSent(r)
    <2>1. CASE agent # None
      <3>1. LoadsHere' = LoadsHere \cup {r} /\ r \notin LoadsHere
        BY <1>14, <2>1, CallEventLoads
      <3>2. LoadsHere \ {r} = LoadsHere
        BY <3>1
      <3> QED
        BY <1>14, <2>1, <3>1, <3>2, CallEventLoads DEF LoadSent, Queued
    <2>2. CASE agent = None
      <3>1. LoadsHere' = LoadsHere /\ r \notin LoadsHere
        BY <1>14, <2>2, CallEventLoads
      <3> QED
        BY <1>14, <2>2, <3>1, CallEventLoads DEF NoLoadMoves
    <2> QED
      BY <2>1, <2>2
  <1>15. CASE UNCHANGED vars
    BY <1>15 DEF vars, NoLoadMoves
  <1> QED
    BY <1>1, <1>2, <1>3, <1>4, <1>5, <1>6, <1>7, <1>8, <1>9, <1>10, <1>11, <1>12, <1>13,
       <1>14, <1>15
       DEF Next, User, Api, Continue

(* None of them puts the loads out of order. *)
LEMMA LoadsAreOrderedStep ==
    ASSUME TypeOK, SomebodyWaits, LoadsAreOrdered, [Next]_vars
    PROVE  LoadsAreOrdered'
  <1>1. CASE NoLoadMoves
    BY <1>1 DEF NoLoadMoves, LoadsAreOrdered
  <1>2. CASE LoadsForgotten
    BY <1>2 DEF LoadsForgotten, LoadsAreOrdered, NoneEarlier
  <1>3. ASSUME NEW r \in Request, LoadSent(r) PROVE LoadsAreOrdered'
    <2>1. /\ earlier'[r] = LoadsHere
          /\ \A q \in Request \ {r} : earlier'[q] = earlier[q]
      BY <1>3 DEF LoadSent, TypeOK
    <2>2. /\ r \notin LoadsHere /\ LoadsHere' = LoadsHere \cup {r}
          /\ overtaken' \subseteq LoadsHere'
      BY <1>3 DEF LoadSent, LoadsAreOrdered
    <2>3. ASSUME NEW q \in Request
          PROVE  /\ earlier'[q] \subseteq LoadsHere' \ {q}
                 /\ q \notin LoadsHere' => earlier'[q] = {}
      BY <2>1, <2>2 DEF LoadsAreOrdered
    <2>4. ASSUME NEW q \in Request, NEW p \in earlier'[q] PROVE q \notin earlier'[p]
      <3>1. p \in LoadsHere /\ p \in Request /\ p # r
        BY <2>1, <2>2 DEF LoadsAreOrdered, LoadsHere
      <3>2. earlier'[p] = earlier[p] /\ r \notin earlier[p]
        BY <2>1, <2>2, <3>1 DEF LoadsAreOrdered
      <3> QED
        BY <2>1, <3>2 DEF LoadsAreOrdered
    <2> QED
      BY <2>2, <2>3, <2>4 DEF LoadsAreOrdered
  <1>4. ASSUME NEW r \in Request, LoadArrives(r) PROVE LoadsAreOrdered'
    <2>1. /\ earlier'[r] = {}
          /\ \A q \in Request \ {r} : earlier'[q] = earlier[q] \ {r}
      BY <1>4 DEF LoadArrives
    <2>2. LoadsHere' = LoadsHere \ {r} /\ overtaken' \subseteq LoadsHere'
      BY <1>4 DEF LoadArrives, LoadsAreOrdered
    <2>3. ASSUME NEW q \in Request
          PROVE  /\ earlier'[q] \subseteq LoadsHere' \ {q}
                 /\ q \notin LoadsHere' => earlier'[q] = {}
      BY <2>1, <2>2 DEF LoadsAreOrdered
    <2>4. ASSUME NEW q \in Request, NEW p \in earlier'[q] PROVE q \notin earlier'[p]
      <3>1. p \in earlier[q] /\ p \in Request
        BY <2>1 DEF TypeOK
      <3>2. earlier'[p] \subseteq earlier[p]
        BY <2>1, <3>1
      <3> QED
        BY <3>1, <3>2 DEF LoadsAreOrdered
    <2> QED
      BY <2>2, <2>3, <2>4 DEF LoadsAreOrdered
  <1> QED
    BY <1>1, <1>2, <1>3, <1>4, LoadMoves

(* The newest load, or the last answer, has what was confirmed. *)
LEMMA NewestStep ==
    ASSUME TypeOK, SomebodyWaits, LoadsAreOrdered, ConfirmedAreSaved, NewestLoadShows,
           [Next]_vars
    PROVE  NewestLoadShows'
  <1>1. CASE NoLoadMoves
    <2>1. \A q \in LoadsHere :
             req'[q].reply = "ok" /\ (req[q].reply = "ok" => confirmed \subseteq req[q].data)
                => confirmed \subseteq req'[q].data
      <3>1. confirmed \subseteq {c \in Customer : saved[c] > 0}
        BY DEF ConfirmedAreSaved, TypeOK
      <3> QED
        BY <1>1, <3>1 DEF NoLoadMoves
    <2> QED
      BY <1>1, <2>1 DEF NoLoadMoves, NewestLoadShows
  <1>2. CASE LoadsForgotten
    BY <1>2 DEF LoadsForgotten, NewestLoadShows
  <1>3. ASSUME NEW r \in Request, LoadSent(r) PROVE NewestLoadShows'
    <2>1. r \in LoadsHere' \ overtaken' /\ LoadsHere' \ {r} \subseteq earlier'[r]
      BY <1>3 DEF LoadSent, LoadsAreOrdered, TypeOK
    <2> QED
      BY <1>3, <2>1 DEF LoadSent, NewestLoadShows
  <1>4. ASSUME NEW r \in Request, LoadArrives(r) PROVE NewestLoadShows'
    <2>1. ASSUME NEW m \in LoadsHere \ overtaken, m # r,
                 LoadsHere \ {m} \subseteq earlier[m],
                 req[m].reply = "ok" => confirmed \subseteq req[m].data
          PROVE  NewestLoadShows'
      <3>1. m \in Request /\ earlier'[m] = earlier[m] \ {r} /\ req'[m] = req[m]
        BY <1>4, <2>1 DEF LoadArrives, LoadsHere
      <3>2. m \notin earlier[r]
        BY <1>4, <2>1, <3>1 DEF LoadArrives, LoadsAreOrdered
      <3>3. m \in LoadsHere' \ overtaken' /\ LoadsHere' \ {m} \subseteq earlier'[m]
        BY <1>4, <2>1, <3>1, <3>2 DEF LoadArrives
      <3> QED
        BY <1>4, <2>1, <3>1, <3>3 DEF LoadArrives, NewestLoadShows
    <2>2. CASE /\ r \notin overtaken /\ LoadsHere \ {r} \subseteq earlier[r]
               /\ req[r].reply = "ok" => confirmed \subseteq req[r].data
      <3>1. LoadsHere' \subseteq overtaken'
        BY <1>4, <2>2 DEF LoadArrives
      <3>2. ~ stale' => confirmed' \subseteq shown'.items
        BY <1>4, <2>2 DEF LoadArrives
      <3> QED
        BY <3>1, <3>2 DEF NewestLoadShows
    <2>3. CASE LoadsHere \subseteq overtaken /\ (~ stale => confirmed \subseteq shown.items)
      <3>1. LoadsHere' \subseteq overtaken' /\ r \in overtaken
        BY <1>4, <2>3 DEF LoadArrives
      <3>2. ~ stale' => confirmed' \subseteq shown'.items
        BY <1>4, <2>3, <3>1 DEF LoadArrives
      <3> QED
        BY <3>1, <3>2 DEF NewestLoadShows
    <2> QED
      BY <2>1, <2>2, <2>3 DEF NewestLoadShows
  <1> QED
    BY <1>1, <1>2, <1>3, <1>4, LoadMoves

(* What was confirmed is in the database for good. *)
LEMMA ConfirmedStep ==
    ASSUME TypeOK, SomebodyWaits, FormsAreUsed, ConfirmedAreSaved, [Next]_vars
    PROVE  ConfirmedAreSaved'
  <1> USE CrmNoneAssumption DEF TypeOK, session, forms, loads, Replied, ConfirmedAreSaved,
          NoRequest
  <1>1. ASSUME NEW r \in Request, NEW a \in Agent, handleLogin(r, a) PROVE ConfirmedAreSaved'
    BY <1>1 DEF handleLogin, Asked
  <1>2. ASSUME handleLogout PROVE ConfirmedAreSaved'
    <2>1. confirmed' = {} /\ saved' = saved /\ req' = Left(OfDashboard)
      BY <1>2 DEF handleLogout, Unmounts
    <2> QED
      BY <2>1, LeftFields
  <1>3. ASSUME (\E c \in Customer : OpenModal(c)) \/ CloseModal PROVE ConfirmedAreSaved'
    BY <1>3 DEF OpenModal, CloseModal
  <1>4. ASSUME NEW r \in Request, handleSave(r) \/ ChangeTask(r) PROVE ConfirmedAreSaved'
    <2>1. /\ \A q \in Request \ {r} : req'[q] = req[q]
          /\ req'[r].reply = "none" /\ (req'[r].kind = "task" => req'[r].item = None)
      <3>1. CASE handleSave(r)
        BY <3>1 DEF handleSave, api, Asked
      <3>2. CASE ChangeTask(r)
        BY <3>2 DEF ChangeTask, api, Asked
      <3> QED
        BY <1>4, <3>1, <3>2
    <2>2. UNCHANGED <<saved, confirmed>>
      BY <1>4 DEF handleSave, ChangeTask
    <2> QED
      BY <2>1, <2>2
  <1>5. ASSUME NEW t \in Agent \cup {None}, Loads(t) PROVE ConfirmedAreSaved'
    <2>1. Fresh(t)
      BY <1>5, NewPage
    <2>2. confirmed' = {}
      BY <1>5 DEF Loads, Unmounts
    <2> QED
      BY <2>1, <2>2 DEF Fresh, KeptOrProfile
  <1>6. ASSUME NEW r \in Request, Serve(r) PROVE ConfirmedAreSaved'
    <2>1. ASSUME NEW c \in Customer, saved[c] > 0 PROVE saved'[c] > 0
      <3>1. saved[c] \in 0 .. Many /\ Many \in Nat
        BY DEF Many
      <3> QED
        BY <1>6, <2>1, <3>1 DEF Serve
    <2>2. CASE req[r].kind = "save"
      <3>1. req[r].item \in Customer
        BY <2>2 DEF FormsAreUsed
      <3>2. saved' = [saved EXCEPT ![req[r].item] = IF @ < Many THEN @ + 1 ELSE @]
        BY <1>6, <2>2 DEF Serve
      <3>3. saved'[req[r].item] > 0
        <4>1. saved[req[r].item] \in 0 .. Many
          BY <3>1
        <4> QED
          BY <3>1, <3>2, <4>1 DEF Many
      <3>4. req'[r].kind # "task" /\ (req'[r].reply = "ok" => req'[r].item = req[r].item)
        BY <1>6, <2>2 DEF Serve, Reply
      <3>5. ASSUME NEW q \in Request, q # r PROVE req'[q] = req[q]
        BY <1>6, <3>5 DEF Serve, Reply
      <3>6. UNCHANGED confirmed
        BY <1>6 DEF Serve
      <3>7. ASSUME NEW q \in Request, req'[q].kind = "save", req'[q].reply = "ok"
            PROVE  saved'[req'[q].item] > 0
        <4>1. CASE q = r
          BY <3>3, <3>4, <3>7, <4>1
        <4>2. CASE q # r
          <5>1. req'[q] = req[q] /\ saved[req[q].item] > 0
            BY <3>5, <3>7, <4>2
          <5>2. req[q].item \in Customer
            BY <3>7, <5>1 DEF FormsAreUsed
          <5> QED
            BY <2>1, <5>1, <5>2
        <4> QED
          BY <4>1, <4>2
      <3> QED
        BY <2>1, <3>4, <3>5, <3>6, <3>7
    <2>3. CASE req[r].kind # "save"
      BY <1>6, <2>3 DEF Serve, Reply
    <2> QED
      BY <2>2, <2>3
  <1>7. ASSUME NEW r \in Request, Refuse(r) \/ Fail(r) PROVE ConfirmedAreSaved'
    <2>1. (Reply(r, "refused", {}) \/ Reply(r, "error", {})) /\ UNCHANGED <<saved, confirmed>>
      BY <1>7 DEF Refuse, Fail
    <2>2. \A q \in Request \ {r} : req'[q] = req[q]
      BY <2>1 DEF Reply
    <2>3. req'[r].reply # "ok" /\ (req'[r].kind = "task" => req'[r].item = None)
      <3>1. req[r] \in RequestRecord
        OBVIOUS
      <3>2. \/ req'[r] = NoRequest
            \/ req'[r] = [req[r] EXCEPT !.reply = "refused", !.data = {}]
            \/ req'[r] = [req[r] EXCEPT !.reply = "error", !.data = {}]
        BY <2>1 DEF Reply
      <3>3. req[r].kind = "task" => req[r].item = None
        OBVIOUS
      <3>4. \A x \in RequestRecord :
               /\ [x EXCEPT !.reply = "refused", !.data = {}].reply = "refused"
               /\ [x EXCEPT !.reply = "error", !.data = {}].reply = "error"
               /\ [x EXCEPT !.reply = "refused", !.data = {}].kind = x.kind
               /\ [x EXCEPT !.reply = "error", !.data = {}].kind = x.kind
               /\ [x EXCEPT !.reply = "refused", !.data = {}].item = x.item
               /\ [x EXCEPT !.reply = "error", !.data = {}].item = x.item
        BY DEF RequestRecord
      <3>5. NoRequest.reply = "none" /\ NoRequest.kind = "free"
        OBVIOUS
      <3> HIDE DEF TypeOK, NoRequest, ConfirmedAreSaved
      <3>6. CASE req'[r] = NoRequest
        BY <3>5, <3>6
      <3>7. CASE req'[r] = [req[r] EXCEPT !.reply = "refused", !.data = {}]
        BY <3>1, <3>3, <3>4, <3>7
      <3>8. CASE req'[r] = [req[r] EXCEPT !.reply = "error", !.data = {}]
        BY <3>1, <3>3, <3>4, <3>8
      <3> QED
        BY <3>2, <3>6, <3>7, <3>8
    <2> QED
      BY <2>1, <2>2, <2>3
  <1>8. ASSUME NEW r \in Request, LoginOk(r) \/ ProfileOk(r) PROVE ConfirmedAreSaved'
    <2>1. SetAgent(r, req[r].as) /\ UNCHANGED <<saved, confirmed>>
      BY <1>8 DEF LoginOk, ProfileOk, SetAgent
    <2>2. CASE agent = None
      BY <2>1, <2>2, NewDashboard DEF Opened
    <2>3. CASE agent # None
      BY <2>1, <2>3 DEF SetAgent, Done
    <2> QED
      BY <2>2, <2>3
  <1>9. ASSUME NEW r \in Request, LoginFails(r) \/ SaveFails(r) \/ TaskFails(r)
        PROVE  ConfirmedAreSaved'
    BY <1>9 DEF LoginFails, SaveFails, TaskFails, Done
  <1>10. ASSUME NEW r \in Request, ProfileFails(r) PROVE ConfirmedAreSaved'
    <2>1. Forgotten(r)
      BY <1>10, NoProfile
    <2>2. confirmed' = {}
      BY <1>10 DEF ProfileFails, Unmounts
    <2> QED
      BY <2>1, <2>2 DEF Forgotten
  <1>11. ASSUME NEW r \in Request, LoadOk(r) \/ LoadFails(r) PROVE ConfirmedAreSaved'
    BY <1>11 DEF LoadOk, LoadFails, Arrives, Done
  <1>12. ASSUME NEW r \in Request, SaveOk(r) \/ TaskOk(r) PROVE ConfirmedAreSaved'
    <2>1. Reload(r) /\ UNCHANGED saved /\ req[r].reply = "ok" /\ req[r].kind \in {"save", "task"}
      BY <1>12 DEF SaveOk, TaskOk
    <2>2. /\ req'[r].kind = "load"
          /\ \A q \in Request \ {r} : req'[q] = req[q]
      BY <2>1 DEF Reload, Asked
    <2>3. ASSUME NEW c \in confirmed' PROVE saved[c] > 0
      <3>1. c \in confirmed \/ (c = req[r].item /\ c # None)
        BY <2>1 DEF Reload
      <3> QED
        BY <2>1, <3>1
    <2> QED
      BY <2>1, <2>2, <2>3
  <1>13. ASSUME NEW r \in Request, CallEvent(r) PROVE ConfirmedAreSaved'
    BY <1>13, CallEventLoads
  <1>14. CASE UNCHANGED vars
    BY <1>14 DEF vars
  <1> QED
    BY <1>1, <1>2, <1>3, <1>4, <1>5, <1>6, <1>7, <1>8, <1>9, <1>10, <1>11, <1>12, <1>13, <1>14
       DEF Next, User, Api, Continue

-----------------------------------------------------------------------------
(***************************************************************************)
(* The theorems.                                                           *)
(***************************************************************************)

(* The invariant holds when the page is first loaded. *)
LEMMA InitHolds ==
    ASSUME Init
    PROVE  ClientInv
  <1>1. \A r \in Request :
           \/ req[r] = NoRequest
           \/ /\ req[r] = Asked("profile", token, None) /\ token # None
              /\ \A q \in Request \ {r} : req[q] = NoRequest
    BY DEF Init
  <1>2. \A r \in Request :
           \/ req[r] = NoRequest /\ req[r].kind = "free" /\ req[r].reply = "none" /\ Here(r)
           \/ /\ req[r].kind = "profile" /\ req[r].as = token /\ req[r].reply = "none" /\ Here(r)
              /\ \A q \in Request \ {r} : req[q].kind = "free"
    <2>1. /\ NoRequest.kind = "free" /\ NoRequest.reply = "none" /\ NoRequest.to = "mounted"
          /\ Asked("profile", token, None).kind = "profile"
          /\ Asked("profile", token, None).as = token
          /\ Asked("profile", token, None).reply = "none"
          /\ Asked("profile", token, None).to = "mounted"
      BY DEF Asked, NoRequest
    <2> QED
      BY <1>1, <2>1 DEF Here
  <1>3. TypeOK
    <2>1. req \in [Request -> RequestRecord]
      <3>1. Asked("profile", token, None) \in RequestRecord
        BY Records DEF Init, Kind
      <3> QED
        BY <3>1, Records DEF Init
    <2>2. saved \in [Customer -> 0 .. Many]
      BY DEF Init, Many
    <2> QED
      BY <2>1, <2>2 DEF Init, TypeOK, Nothing, NoneEarlier
  <1>4. /\ agent = None /\ modal = None /\ shown = Nothing /\ ~ loading /\ ~ saving
        /\ ~ reloading /\ used = {} /\ saved = [c \in Customer |-> 0] /\ failed = {}
    BY DEF Init
  <1>5. /\ SomebodyWaits /\ EmptyLoginPage /\ OneLogin /\ OkHasToken /\ BusyFormsWait
    <2>1. SomebodyWaits /\ EmptyLoginPage
      BY <1>2, <1>4 DEF SomebodyWaits, EmptyLoginPage, OfDashboard, Here
    <2>2. OneLogin /\ OkHasToken
      BY <1>2 DEF OneLogin, OkHasToken
    <2>3. BusyFormsWait
      BY <1>4 DEF BusyFormsWait
    <2> QED
      BY <2>1, <2>2, <2>3
  <1>6. SessionInv
    <2>1. OneSession
      BY <1>2, <1>4 DEF OneSession, Session
    <2>2. TokensMatch
      BY <1>2, <1>4, <1>3, CrmNoneAssumption DEF TokensMatch, TokenOf, Session, TypeOK
    <2>3. OwnLoads
      BY <1>2, <1>4 DEF OwnLoads, LoadsHere, Nothing
    <2> QED
      BY <2>1, <2>2, <2>3 DEF SessionInv
  <1>7. FormsAreUsed /\ ReadyMeansUnsent /\ OneSave /\ OneCustomerPerForm
    BY <1>2, <1>4 DEF FormsAreUsed, ReadyMeansUnsent, OneSave, OneCustomerPerForm
  <1>8. ConfirmedAreSaved /\ LoadsAreOrdered /\ NewestLoadShows
    <2>1. LoadsHere = {}
      BY <1>2 DEF LoadsHere
    <2>2. earlier = NoneEarlier /\ overtaken = {} /\ confirmed = {}
      BY DEF Init
    <2>3. ConfirmedAreSaved
      BY <1>2, <2>2 DEF ConfirmedAreSaved, Replied
    <2> QED
      BY <2>1, <2>2, <2>3 DEF LoadsAreOrdered, NewestLoadShows, NoneEarlier
  <1> QED
    BY <1>3, <1>5, <1>6, <1>7, <1>8 DEF ClientInv

(* Every step keeps the invariant. *)
LEMMA StepHolds ==
    ASSUME ClientInv, [Next]_vars
    PROVE  ClientInv'
  <1> USE DEF ClientInv
  <1>1. TypeOK'
    BY TypesStep
  <1>2. SomebodyWaits' /\ EmptyLoginPage' /\ OneLogin' /\ OkHasToken'
    BY SomebodyWaitsStep, EmptyLoginPageStep, OneLoginStep, OkHasTokenStep
  <1>3. SessionInv'
    BY OneSessionStep, TokensMatchStep, OwnLoadsStep DEF SessionInv
  <1>4. FormsAreUsed' /\ ReadyMeansUnsent' /\ OneSave' /\ OneCustomerPerForm'
    BY FormsAreUsedStep, ReadyStep, OneSaveStep, OneCustomerStep
  <1>5. BusyFormsWait'
    BY BusyStep
  <1>6. ConfirmedAreSaved' /\ LoadsAreOrdered' /\ NewestLoadShows'
    BY ConfirmedStep, LoadsAreOrderedStep, NewestStep
  <1> QED
    BY <1>1, <1>2, <1>3, <1>4, <1>5, <1>6

(* The tab's invariant holds for any agents, any number of requests in       *)
(* flight and any number of forms.                                           *)
THEOREM ClientInvariant == Spec => []ClientInv
  BY InitHolds, StepHolds, PTL DEF Spec

(* The types of api.js's and App.jsx's state. *)
THEOREM ClientTypes == Spec => []TypeOK
  <1>1. ClientInv => TypeOK
    BY DEF ClientInv
  <1> QED
    BY <1>1, ClientInvariant, PTL

(* The Dashboard's requests go with the token of the agent it names.         *)
THEOREM TokenIsTheAgents == Spec => []AgentMatchesToken
  <1>1. ClientInv => AgentMatchesToken
    BY DEF ClientInv, SessionInv, TokensMatch, TokenOf, AgentMatchesToken
  <1> QED
    BY <1>1, ClientInvariant, PTL

(* A late reply to an earlier agent's request is never on the page.          *)
THEOREM TasksAreTheAgents == Spec => []NobodyElsesTasks
  <1>1. ClientInv => NobodyElsesTasks
    BY DEF ClientInv, SessionInv, OwnLoads, NobodyElsesTasks
  <1> QED
    BY <1>1, ClientInvariant, PTL

(* However the form, its requests and page loads interleave, it makes one    *)
(* customer.                                                                 *)
THEOREM FormMakesOneCustomer == Spec => []OneCustomerPerForm
  <1>1. ClientInv => OneCustomerPerForm
    BY DEF ClientInv
  <1> QED
    BY <1>1, ClientInvariant, PTL

(* No button stays disabled without a request that will enable it.           *)
THEOREM DisabledButtonsWait == Spec => []BusyFormsWait
  <1>1. ClientInv => BusyFormsWait
    BY DEF ClientInv
  <1> QED
    BY <1>1, ClientInvariant, PTL

(* At rest the Dashboard shows what was confirmed to it, in whatever order   *)
(* its loads were sent, served and answered.                                 *)
THEOREM ConfirmedShows == Spec => []ConfirmedIsShown
  <1>1. ClientInv => ConfirmedIsShown
    <2> SUFFICES ASSUME ClientInv, Settled, ~ stale PROVE confirmed \subseteq shown.items
      BY DEF ConfirmedIsShown
    <2>1. LoadsHere = {}
      BY DEF Settled, LoadsHere, OfDashboard
    <2> QED
      BY <2>1 DEF ClientInv, NewestLoadShows
  <1> QED
    BY <1>1, ClientInvariant, PTL
===============================================================================
