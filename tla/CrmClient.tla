------------------------------ MODULE CrmClient ------------------------------
(***************************************************************************)
(* One tab of the CRM (App.jsx and api.js) against the HTTP API: logging   *)
(* in, staying logged in over reloads, loading what the Dashboard shows,   *)
(* changing customers and tasks.                                           *)
(*                                                                         *)
(* Requests are in flight together.  The API handles them one by one in    *)
(* any order, replies arrive in any order or get lost, and each reply runs *)
(* the rest of the async function that waits for it, as one step.  Such a  *)
(* function outlives the component that called it: "left" are requests of  *)
(* a LoginPage or a Dashboard that is no longer there, whose setState      *)
(* calls do nothing while the rest of the function runs as ever;           *)
(* "unloaded" are those of a page that is gone, which only the API knows   *)
(* of; they are kept as far as they change something there.                *)
(***************************************************************************)
EXTENDS Naturals

CONSTANTS
    Agent,    \* agents who log in at this browser
    Request,  \* requests that may be in flight: their bound
    Customer, \* forms of the CustomerModal that may be opened: their bound
    None      \* null

\* Where counting ends.
Many == 2

ASSUME CrmNoneAssumption == None \notin Agent \cup Request \cup Customer

VARIABLES
    token,      \* api.js's copy of the token in localStorage
    agent,      \* App's agent; with one there is a Dashboard, else a LoginPage
    loading,    \* LoginPage's
    reloading,  \* location.reload() has been called
    modal,      \* the form in the CustomerModal, or none
    saving,     \* CustomerModal's
    shown,      \* what the Dashboard lists: whose tasks, and which customers
    req,        \* the requests
    saved,      \* how often the database has each form's customer, up to Many
    used,       \* forms of the CustomerModal that were opened
    earlier, overtaken, stale, confirmed, failed, raced   \* history; no action reads it

session == <<token, agent, loading, reloading>>
forms == <<modal, saving, used>>
loads == <<earlier, overtaken, stale, confirmed>>
vars == <<session, forms, shown, req, saved, loads, failed, raced>>

Kind == {"free", "login", "profile", "load", "save", "task"}
NoRequest == [kind |-> "free", as |-> None, item |-> None, reply |-> "none",
              data |-> {}, to |-> "mounted"]
NoneEarlier == [r \in Request |-> {}]
Nothing == [owner |-> None, items |-> {}]

RequestRecord ==
    [kind : Kind, as : Agent \cup {None}, item : Customer \cup {None},
     reply : {"none", "ok", "refused", "error"},
     data : SUBSET Customer, to : {"mounted", "left", "unloaded"}]

TypeOK ==
    /\ token \in Agent \cup {None}
    /\ agent \in Agent \cup {None}
    /\ loading \in BOOLEAN /\ reloading \in BOOLEAN /\ saving \in BOOLEAN
    /\ modal \in Customer \cup {None}
    /\ shown \in [owner : Agent \cup {None}, items : SUBSET Customer]
    /\ req \in [Request -> RequestRecord]
    /\ saved \in [Customer -> 0 .. Many]
    /\ used \in SUBSET Customer
    /\ earlier \in [Request -> SUBSET Request]
    /\ overtaken \in SUBSET Request
    /\ stale \in BOOLEAN /\ raced \in BOOLEAN
    /\ confirmed \in SUBSET Customer /\ failed \in SUBSET Customer

-----------------------------------------------------------------------------
(***************************************************************************)
(* api.js.                                                                 *)
(***************************************************************************)
setToken(a) == token' = a

clearToken == setToken(None)

\* fetch, with the token there is.
Asked(k, t, c) == [NoRequest EXCEPT !.kind = k, !.as = t, !.item = c]

Waits(r) == req[r].kind # "free" /\ req[r].reply = "none"

api(r, k, c) ==
    /\ req[r] = NoRequest
    /\ req' = [req EXCEPT ![r] = Asked(k, token, c)]

Init ==
    /\ token \in Agent \cup {None}
    /\ agent = None
    /\ loading = FALSE /\ reloading = FALSE
    /\ modal = None /\ saving = FALSE
    /\ shown = Nothing
    /\ \E q \in Request :
          req = [r \in Request |-> IF token # None /\ r = q
                                  THEN Asked("profile", token, None) ELSE NoRequest]
    /\ saved = [c \in Customer |-> 0]
    /\ used = {}
    /\ earlier = NoneEarlier /\ overtaken = {} /\ stale = FALSE /\ confirmed = {}
    /\ failed = {} /\ raced = FALSE

\* A 401 ends the session, whichever session it is by then.
Refused == clearToken /\ reloading' = TRUE

-----------------------------------------------------------------------------
(***************************************************************************)
(* Components that come and go.                                            *)
(***************************************************************************)
OfDashboard == {"load", "save", "task"}

\* Faulty: the lists outlive the Dashboard.
AllStay(kinds) == req

\* The component that waits for requests of these kinds goes.
Left(kinds) == [r \in Request |-> IF req[r].kind \in kinds /\ req[r].to = "mounted"
                                  THEN [req[r] EXCEPT !.to = "left"] ELSE req[r]]

Here(r) == req[r].to = "mounted"

LoadsHere == {q \in Request : req[q].kind = "load" /\ Here(q)}

\* The Dashboard asks for its data at r, after the loads that it still awaits.
Queued(r) == [earlier EXCEPT ![r] = LoadsHere \ {r}]

Done(r) == req' = [req EXCEPT ![r] = NoRequest]

\* setAgent, at the reply r.  When there is no Dashboard the LoginPage makes
\* room for one, which loads its data, and opens a form for a new customer,
\* for editingCustomer is null at first; the agent may close it at once.  A
\* Dashboard that is there stays, with all it shows.  The four requests of a
\* loadData wait for each other and are one here.
SetAgent(r, a) ==
    /\ agent' = a
    /\ IF agent = None
       THEN /\ loading' = FALSE
            /\ req' = [Left({"login"}) EXCEPT ![r] = Asked("load", token', None)]
            /\ earlier' = Queued(r)
            /\ \/ UNCHANGED <<modal, used>>
               \/ \E c \in Customer \ used : modal' = c /\ used' = used \cup {c}
            /\ UNCHANGED <<saving, overtaken, stale, confirmed>>
       ELSE /\ Done(r)
            /\ UNCHANGED <<loading, loads, forms>>
    /\ UNCHANGED <<reloading, shown>>

\* Nothing of the Dashboard remains but its requests.
Unmounts(requests) ==
    /\ agent' = None
    /\ modal' = None /\ saving' = FALSE
    /\ shown' = Nothing
    /\ earlier' = NoneEarlier /\ overtaken' = {} /\ stale' = FALSE /\ confirmed' = {}
    /\ req' = requests
    /\ UNCHANGED used

\* The page is loaded again, by api() or by the user; its token is the one
\* in localStorage, where other tabs may have put any or none.  With a token
\* App asks for the profile.
Loads(t) ==
    /\ token' = t
    /\ loading' = FALSE /\ reloading' = FALSE /\ raced' = FALSE
    /\ LET gone == [r \in Request |-> IF Waits(r) /\ req[r].kind = "save"
                                      THEN [req[r] EXCEPT !.to = "unloaded"] ELSE NoRequest]
       IN IF t = None
          THEN Unmounts(gone)
          ELSE \E r \in Request :
                  /\ gone[r] = NoRequest
                  /\ Unmounts([gone EXCEPT ![r] = Asked("profile", t, None)])
    /\ UNCHANGED <<saved, failed>>

-----------------------------------------------------------------------------
(***************************************************************************)
(* The user.                                                               *)
(***************************************************************************)

\* "raced": somebody logs in although the profile of the stored token is
\* still awaited.
handleLogin(r, a) ==
    /\ agent = None /\ ~ loading
    /\ loading' = TRUE
    /\ req[r] = NoRequest
    /\ req' = [req EXCEPT ![r] = Asked("login", a, None)]
    /\ raced' = (raced \/ \E p \in Request : req[p].kind = "profile" /\ req[p].to = "mounted")
    /\ UNCHANGED <<token, agent, reloading, forms, shown, saved, loads, failed>>

handleLogout ==
    /\ agent # None
    /\ clearToken
    /\ Unmounts(Left(OfDashboard))
    /\ UNCHANGED <<loading, reloading, saved, failed, raced>>

\* The modal covers the page: one form at a time.
OpenModal(c) ==
    /\ agent # None /\ modal = None
    /\ c \notin used
    /\ modal' = c /\ used' = used \cup {c}
    /\ saving' = FALSE
    /\ UNCHANGED <<session, shown, req, saved, loads, failed, raced>>

CloseModal ==
    /\ modal # None
    /\ modal' = None /\ saving' = FALSE
    /\ UNCHANGED <<session, used, shown, req, saved, loads, failed, raced>>

\* Faulty: the button is not disabled.
handleSaveAgain(r) ==
    /\ modal # None
    /\ api(r, "save", modal)
    /\ saving' = TRUE
    /\ UNCHANGED <<session, modal, used, shown, saved, loads, failed, raced>>

\* A customer who is edited is saved the same way.
handleSave(r) ==
    /\ modal # None /\ ~ saving
    /\ api(r, "save", modal)
    /\ saving' = TRUE
    /\ UNCHANGED <<session, modal, used, shown, saved, loads, failed, raced>>

\* handleAdd and handleToggleTask: nothing keeps the user from a second click.
\* Which tasks there are is left out.
ChangeTask(r) ==
    /\ agent # None /\ modal = None
    /\ api(r, "task", None)
    /\ UNCHANGED <<session, forms, shown, saved, loads, failed, raced>>

\* call-started, call-ended or dial-error: the Dashboard loads its data.  Its
\* handler stays when it has gone, and a socket left behind (BrowserPhone) may
\* still call it: then nobody is logged in, and there is no token.  Whether
\* there was a Dashboard on this page is not asked.
CallEvent(r) ==
    /\ agent # None \/ token = None
    /\ req[r] = NoRequest
    /\ IF agent # None
       THEN /\ api(r, "load", None)
            /\ earlier' = Queued(r)
       ELSE /\ req' = [req EXCEPT ![r] = [Asked("load", None, None) EXCEPT !.to = "left"]]
            /\ UNCHANGED earlier
    /\ UNCHANGED <<session, forms, shown, saved, overtaken, stale, confirmed, failed, raced>>

-----------------------------------------------------------------------------
(***************************************************************************)
(* The API.                                                                *)
(***************************************************************************)

\* A reply, which nobody will read when the page is gone.
Reply(r, v, d) ==
    req' = [req EXCEPT ![r] = IF @.to = "unloaded" THEN NoRequest
                              ELSE [@ EXCEPT !.reply = v, !.data = d]]

\* authMiddleware lets the request pass, and the handler does its work.
Serve(r) ==
    /\ Waits(r)
    /\ req[r].as # None
    /\ saved' = IF req[r].kind = "save"
                THEN [saved EXCEPT ![req[r].item] = IF @ < Many THEN @ + 1 ELSE @]
                ELSE saved
    /\ Reply(r, "ok", {c \in Customer : req[r].kind = "load" /\ saved[c] > 0})
    /\ UNCHANGED <<session, forms, shown, loads, failed, raced>>

\* 401: there is no token, its 24 hours are over, or the password is wrong.
Refuse(r) ==
    /\ Waits(r)
    /\ Reply(r, "refused", {})
    /\ UNCHANGED <<session, forms, shown, saved, loads, failed, raced>>

\* Another status, or no reply: before the handler has done its work or after.
Fail(r) ==
    /\ Waits(r) \/ req[r].reply = "ok"
    /\ Reply(r, "error", {})
    /\ UNCHANGED <<session, forms, shown, saved, loads, failed, raced>>

-----------------------------------------------------------------------------
(***************************************************************************)
(* The rest of each async function, when its reply is there.               *)
(***************************************************************************)
Replied(r, k, v) == req[r].kind = k /\ req[r].reply = v

\* Faulty: the token is not kept.
LoginOkNoToken(r) ==
    /\ Replied(r, "login", "ok")
    /\ UNCHANGED token
    /\ SetAgent(r, req[r].as)
    /\ UNCHANGED <<saved, failed, raced>>

\* handleLogin: the token first, then the agent.
LoginOk(r) ==
    /\ Replied(r, "login", "ok")
    /\ setToken(req[r].as)
    /\ SetAgent(r, req[r].as)
    /\ UNCHANGED <<saved, failed, raced>>

LoginFails(r) ==
    /\ \/ Replied(r, "login", "error") /\ UNCHANGED <<token, reloading>>
       \/ Replied(r, "login", "refused") /\ Refused
    /\ loading' = (loading /\ ~ Here(r))
    /\ Done(r)
    /\ UNCHANGED <<agent, forms, shown, saved, loads, failed, raced>>

ProfileOk(r) ==
    /\ Replied(r, "profile", "ok")
    /\ UNCHANGED token
    /\ SetAgent(r, req[r].as)
    /\ UNCHANGED <<saved, failed, raced>>

\* The catch of App's effect, after that of api().
ProfileFails(r) ==
    /\ \/ Replied(r, "profile", "error") /\ UNCHANGED reloading
       \/ Replied(r, "profile", "refused") /\ reloading' = TRUE
    /\ clearToken
    /\ Unmounts([Left(OfDashboard) EXCEPT ![r] = NoRequest])
    /\ UNCHANGED <<loading, saved, failed, raced>>

Arrives(r) ==
    /\ earlier' = [q \in Request |-> IF q = r THEN {} ELSE earlier[q] \ {r}]
    /\ Done(r)

\* The customers, tasks and calls of a reply.
Lists(r) == [owner |-> req[r].as, items |-> req[r].data]

\* loadData: the lists are what this reply says, newer or older than what
\* they were.
LoadOk(r) ==
    /\ Replied(r, "load", "ok")
    /\ Arrives(r)
    /\ IF Here(r)
       THEN /\ shown' = Lists(r)
            /\ stale' = (r \in overtaken)
            /\ overtaken' = (overtaken \cup earlier[r]) \ {r}
       ELSE UNCHANGED <<shown, stale, overtaken>>
    /\ UNCHANGED <<session, forms, saved, confirmed, failed, raced>>

LoadFails(r) ==
    /\ \/ Replied(r, "load", "error") /\ UNCHANGED <<token, reloading>>
       \/ Replied(r, "load", "refused") /\ Refused
    /\ Arrives(r)
    /\ stale' = (stale \/ (Here(r) /\ r \notin overtaken))
    /\ overtaken' = (overtaken \cup earlier[r]) \ {r}
    /\ UNCHANGED <<agent, loading, forms, shown, saved, confirmed, failed, raced>>

\* Faulty: the Dashboard is not told to load.
NoReload(r) ==
    /\ Done(r)
    /\ confirmed' = IF Here(r) THEN confirmed \cup ({req[r].item} \ {None}) ELSE confirmed
    /\ UNCHANGED <<earlier, overtaken, stale>>

\* What was saved is loaded, by the loadData of the Dashboard that saved it.
Reload(r) ==
    /\ req' = [req EXCEPT ![r] = [Asked("load", token, None) EXCEPT !.to = req[r].to]]
    /\ earlier' = IF Here(r) THEN Queued(r) ELSE earlier
    /\ confirmed' = IF Here(r) THEN confirmed \cup ({req[r].item} \ {None}) ELSE confirmed
    /\ UNCHANGED <<overtaken, stale>>

\* handleSave: onSave, onClose; whatever form is open by now is closed.
SaveOk(r) ==
    /\ Replied(r, "save", "ok")
    /\ Reload(r)
    /\ IF Here(r) THEN modal' = None /\ saving' = FALSE ELSE UNCHANGED <<modal, saving>>
    /\ UNCHANGED <<session, used, shown, saved, failed, raced>>

\* Faulty: the button stays disabled.
StillSaving(r) == UNCHANGED saving

\* setSaving(false), for the form that was saved.
NotSaving(r) == saving' = (saving /\ ~ (Here(r) /\ modal = req[r].item))

SaveFails(r) ==
    /\ \/ Replied(r, "save", "error") /\ UNCHANGED <<token, reloading>>
       \/ Replied(r, "save", "refused") /\ Refused
    /\ NotSaving(r)
    /\ failed' = failed \cup {req[r].item}
    /\ Done(r)
    /\ UNCHANGED <<agent, loading, modal, used, shown, saved, loads, raced>>

TaskOk(r) ==
    /\ Replied(r, "task", "ok")
    /\ Reload(r)
    /\ UNCHANGED <<session, forms, shown, saved, failed, raced>>

TaskFails(r) ==
    /\ \/ Replied(r, "task", "error") /\ UNCHANGED <<token, reloading>>
       \/ Replied(r, "task", "refused") /\ Refused
    /\ Done(r)
    /\ UNCHANGED <<agent, loading, forms, shown, saved, loads, failed, raced>>

-----------------------------------------------------------------------------
User ==
    \/ \E r \in Request, a \in Agent : handleLogin(r, a)
    \/ handleLogout
    \/ \E c \in Customer : OpenModal(c)
    \/ CloseModal
    \/ \E r \in Request : handleSave(r) \/ ChangeTask(r)
    \/ \E t \in Agent \cup {None} : Loads(t)

Api == \E r \in Request : Serve(r) \/ Refuse(r) \/ Fail(r)

Continue(r) ==
    \/ LoginOk(r)
    \/ LoginFails(r)
    \/ ProfileOk(r)
    \/ ProfileFails(r)
    \/ LoadOk(r)
    \/ LoadFails(r)
    \/ SaveOk(r)
    \/ SaveFails(r)
    \/ TaskOk(r)
    \/ TaskFails(r)

Next == User \/ Api \/ \E r \in Request : CallEvent(r) \/ Continue(r)

Spec == Init /\ [][Next]_vars

-----------------------------------------------------------------------------
(***************************************************************************)
(* Properties.                                                             *)
(***************************************************************************)

\* The Dashboard is the one of the agent whose token goes with its requests;
\* unless somebody logged in while App's effect still waited for the profile
\* of the stored token, or the page is about to be reloaded.
AgentMatchesToken == agent # None /\ ~ raced /\ ~ reloading => token = agent

\* The tasks and calls on the page are those of the agent it names, though
\* replies to an earlier agent's requests may arrive late; same exception.
NobodyElsesTasks == shown.owner # None /\ ~ raced => shown.owner = agent

\* One form of the CustomerModal makes one customer, unless its first request
\* has failed, which may have been handled all the same.
OneCustomerPerForm == \A c \in Customer : saved[c] > 1 => c \in failed

\* Nothing of this Dashboard is in flight.
Settled == agent # None /\ \A r \in Request : req[r].kind \in OfDashboard => ~ Here(r)

\* At rest the Dashboard shows every customer whose saving was confirmed to it, unless
\* the last load failed or was overtaken by a later one.
ConfirmedIsShown == Settled /\ ~ stale => confirmed \subseteq shown.items

\* A button that is disabled while a request is out has such a request: no
\* way through handleLogin or handleSave leaves it disabled for good.
BusyFormsWait ==
    /\ loading => \E r \in Request : req[r].kind = "login" /\ Here(r)
    /\ saving => \E r \in Request : req[r].kind = "save" /\ Here(r) /\ req[r].item = modal

-----------------------------------------------------------------------------
(***************************************************************************)
(* The inductive invariant that carries all of these.                      *)
(***************************************************************************)

\* Who waits for a request is there.
SomebodyWaits ==
    \A r \in Request :
        /\ req[r].kind \in OfDashboard /\ Here(r) => agent # None
        /\ req[r].kind = "login" /\ Here(r) => agent = None /\ loading
        /\ req[r].to = "unloaded" => req[r].kind = "save" /\ req[r].reply = "none"

EmptyLoginPage ==
    agent = None => shown = Nothing /\ modal = None /\ ~ saving

OneLogin ==
    \A r, q \in Request :
        /\ req[r].kind = "login" /\ Here(r)
        /\ req[q].kind = "login" /\ Here(q)
        => r = q

\* Only who has a token, or logs in, gets a good answer.
OkHasToken == \A r \in Request : req[r].reply = "ok" => req[r].as # None

\* Requests that may still bring a new agent.
Session(r) == req[r].kind \in {"login", "profile"}

\* There is one of them at a time, and none beside an agent.
OneSession ==
    \A r \in Request : Session(r) =>
        /\ Here(r)
        /\ agent = None
        /\ \A q \in Request : Session(q) => q = r

TokenOf(a) == token \in {a, None} /\ (~ reloading => token = a)

TokensMatch ==
    /\ agent # None => TokenOf(agent)
    /\ \A r \in Request : req[r].kind = "profile" /\ Session(r) => TokenOf(req[r].as)

OwnLoads ==
    /\ \A r \in LoadsHere : req[r].as \in {agent, None}
    /\ shown.owner # None => shown.owner = agent

\* What is said of a session holds unless somebody raced the profile.
SessionInv == ~ raced => OneSession /\ TokensMatch /\ OwnLoads

\* A form that is open is used, and so is one that was sent or saved.
FormsAreUsed ==
    /\ modal # None => modal \in used
    /\ \A r \in Request : req[r].kind = "save" => req[r].item \in used
    /\ \A c \in Customer : saved[c] > 0 => c \in used

Sent(c) == saved[c] > 0 \/ \E r \in Request : req[r].kind = "save" /\ req[r].item = c

\* A form whose button can be clicked was not sent yet, or has failed.
ReadyMeansUnsent == modal # None /\ ~ saving => modal \in failed \/ ~ Sent(modal)

\* One request for a form, which is served once.
OneSave ==
    \A r \in Request : req[r].kind = "save" =>
        \/ req[r].item \in failed
        \/ /\ \A q \in Request : req[q].kind = "save" /\ req[q].item = req[r].item => q = r
           /\ Waits(r) => saved[req[r].item] = 0

\* What was confirmed is in the database, and so is what is about to be.
ConfirmedAreSaved ==
    /\ \A c \in confirmed : saved[c] > 0
    /\ \A r \in Request :
          /\ Replied(r, "save", "ok") => saved[req[r].item] > 0
          /\ req[r].kind = "task" => req[r].item = None

\* Of two loads that are awaited not both were sent before the other, and one
\* that has arrived is in no list any more.
LoadsAreOrdered ==
    /\ overtaken \subseteq LoadsHere
    /\ \A q \in Request :
          /\ earlier[q] \subseteq LoadsHere \ {q}
          /\ q \notin LoadsHere => earlier[q] = {}
          /\ \A p \in earlier[q] : q \notin earlier[p]

\* The newest load is still awaited, with no answer or one that lists all that
\* was confirmed; or all that are awaited are overtaken, and what is shown has
\* all that was confirmed, unless it is stale.
NewestLoadShows ==
    \/ \E m \in LoadsHere \ overtaken :
          /\ LoadsHere \ {m} \subseteq earlier[m]
          /\ req[m].reply = "ok" => confirmed \subseteq req[m].data
    \/ /\ LoadsHere \subseteq overtaken
       /\ ~ stale => confirmed \subseteq shown.items

ClientInv ==
    /\ TypeOK
    /\ SomebodyWaits
    /\ EmptyLoginPage
    /\ OneLogin
    /\ OkHasToken
    /\ SessionInv
    /\ FormsAreUsed
    /\ ReadyMeansUnsent
    /\ OneSave
    /\ OneCustomerPerForm
    /\ BusyFormsWait
    /\ ConfirmedAreSaved
    /\ LoadsAreOrdered
    /\ NewestLoadShows
===============================================================================
