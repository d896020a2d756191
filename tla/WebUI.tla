------------------------------- MODULE WebUI -------------------------------
(***************************************************************************)
(* One browser tab: the gate of Gate.tla, and behind it App with the view  *)
(* it shows, RulesEditor and SettingsView, over the store of Store.tla.    *)
(* App shows one view at a time, so at most one form is on the screen; a   *)
(* form that leaves it loses its state, and the replies it still gets only *)
(* raise a toast.  A 401, whatever request it answers, takes App away.     *)
(***************************************************************************)
EXTENDS Store, Gate

CONSTANT MaxForeign   \* bound on the writes of other clients

ASSUME ForeignAssumption == MaxForeign \in Nat

VARIABLES view,       \* App: "library", "rules" or "settings"
          shown,      \* the document in the form
          loaded,     \* the form has been given a document
          dirty,      \* RulesEditor: there is something to save
          saving,     \* SettingsView: a save is under way
          calm,       \* history: nothing has crossed a request of this form
          foreign     \* writes of other clients so far

formvars == <<view, shown, loaded, dirty, saving, calm>>
vars == <<storevars, gatevars, formvars, foreign>>

Init ==
  /\ StoreInit /\ GateInit
  /\ view = "library" /\ shown = 0
  /\ loaded = FALSE /\ dirty = FALSE /\ saving = FALSE /\ calm = TRUE
  /\ foreign = 0

\* The replies to a component that is gone set nothing.
Orphaned == [i \in Calls |-> [call[i] EXCEPT !.live = FALSE]]

\* A component on the screen awaits a reply.
Waiting == \E i \in Calls : call[i].live

\* useState of the form that is mounted: nothing loaded, nothing to save.
Fresh ==
  /\ shown' = 0 /\ loaded' = FALSE /\ dirty' = FALSE /\ saving' = FALSE
  /\ calm' = \A i \in Calls : call[i].op # "put"

\* What unmounting App does to it, when phase leaves "ready".
Leave(calls) ==
  IF phase = "ready" /\ phase' # "ready"
  THEN /\ view' = "library" /\ Fresh
       /\ call' = [i \in Calls |-> [calls[i] EXCEPT !.live = FALSE]]
  ELSE /\ call' = calls
       /\ UNCHANGED formvars

\* The gate's own steps.
GateStep ==
  /\ \/ StatusServed \/ Resolved \/ ResolveFails
     \/ Type \/ Submit \/ LoginServed \/ LoggedIn \/ LoginRefused
     \/ Logout \/ LoggedOut
     \/ Poll \/ PollEnds \/ PollDenied
  /\ Leave(call)
  /\ UNCHANGED <<db, cur, foreign>>

\* The lifetime of the session ends: of every request too.
Expire ==
  /\ session /\ Forget
  /\ call' = [i \in Calls |-> [call[i] EXCEPT !.cred = FALSE]]
  /\ UNCHANGED <<db, cur, formvars, foreign>>

\* The API token is set or cleared: so for every request not let in yet.
\* What else is in the settings stays.
Retoken ==
  /\ SwapToken
  /\ call' = [i \in Calls |-> IF call[i].at = "sent"
                             THEN [call[i] EXCEPT !.cred = (mode' = "open")]
                             ELSE call[i]]
  /\ UNCHANGED <<db, cur, formvars, foreign>>

\* The server is restarted.
Restart ==
  /\ Reopen /\ Forget
  /\ UNCHANGED <<formvars, foreign>>

Serve(i) == ServerStep(i) /\ UNCHANGED <<gatevars, formvars, foreign>>

Fail(i) == CallFails(i) /\ UNCHANGED <<gatevars, formvars, foreign>>

\* Another client puts a document; of the settings, Put's first half.
Foreign(doc, v) ==
  /\ foreign < MaxForeign
  /\ foreign' = foreign + 1
  /\ db' = [db EXCEPT ![doc] = normalize(doc, v)]
  /\ IF doc = "settings"
     THEN \E i \in Calls :
            /\ call[i] = Idle
            /\ call' = [call EXCEPT ![i] = [op |-> "put", doc |-> doc, val |-> v,
                          at |-> "persisted", cred |-> TRUE, live |-> FALSE]]
     ELSE UNCHANGED call
  /\ calm' = (calm /\ view # doc)
  /\ UNCHANGED <<cur, gatevars, view, shown, loaded, dirty, saving>>

-----------------------------------------------------------------------------
(* The user, in front of the app.                                          *)

\* The sidebar: another view.  The form that appears asks for its document.
Navigate(v) ==
  /\ phase = "ready" /\ v # view
  /\ view' = v /\ Fresh
  /\ IF v = "library" THEN call' = Orphaned
     ELSE \E i \in Calls :
            /\ call[i] = Idle
            /\ call' = [Orphaned EXCEPT ![i] = [op |-> "get", doc |-> v, val |-> 0,
                          at |-> "sent", cred |-> Allowed, live |-> TRUE]]
  /\ UNCHANGED <<db, cur, gatevars, foreign>>

\* RulesEditor: update, remove and addRule, at any time.
EditRules(v) ==
  /\ view = "rules" /\ v # shown
  /\ shown' = v /\ dirty' = TRUE
  /\ calm' = (calm /\ ~Waiting)
  /\ UNCHANGED <<storevars, gatevars, view, loaded, saving, foreign>>

\* SettingsView: the fields, once there are settings.
EditSettings(v) ==
  /\ view = "settings" /\ loaded /\ v # shown
  /\ shown' = v
  /\ calm' = (calm /\ ~Waiting)
  /\ UNCHANGED <<storevars, gatevars, view, loaded, dirty, saving, foreign>>

\* RulesEditor.save: the button is enabled while there is something to save.
SaveRules(i) ==
  /\ view = "rules" /\ dirty
  /\ Send(i, "put", "rules", shown, Allowed, TRUE)
  /\ calm' = (calm /\ ~Waiting)
  /\ UNCHANGED <<db, cur, gatevars, view, shown, loaded, dirty, saving, foreign>>

\* SettingsView.save: the button is disabled while it saves.
SaveSettings(i) ==
  /\ view = "settings" /\ loaded /\ ~saving
  /\ Send(i, "put", "settings", shown, Allowed, TRUE)
  /\ saving' = TRUE
  /\ calm' = (calm /\ ~Waiting)
  /\ UNCHANGED <<db, cur, gatevars, view, shown, loaded, dirty, foreign>>

-----------------------------------------------------------------------------
(* The replies.                                                            *)

Done(i) == [call EXCEPT ![i] = Idle]

\* Mutant of TakeGet: the reply is shown in whatever form is there.
TakeGetAnywhere(i) ==
  /\ call[i].op = "get" /\ call[i].at = "ok"
  /\ call' = Done(i)
  /\ shown' = call[i].val /\ loaded' = TRUE
  /\ UNCHANGED <<db, cur, gatevars, view, dirty, saving, calm, foreign>>

\* getRules().then(setRules), getSettings().then(setS).
TakeGet(i) ==
  /\ call[i].op = "get" /\ call[i].at = "ok"
  /\ call' = Done(i)
  /\ IF call[i].live THEN shown' = call[i].val /\ loaded' = TRUE
                     ELSE UNCHANGED <<shown, loaded>>
  /\ UNCHANGED <<db, cur, gatevars, view, dirty, saving, calm, foreign>>

\* await putRules: what was saved is shown, and there is nothing to save.
TakeSavedRules(i) ==
  /\ call[i].op = "put" /\ call[i].doc = "rules" /\ call[i].at = "ok"
  /\ call' = Done(i)
  /\ IF call[i].live
     THEN shown' = call[i].val /\ loaded' = TRUE /\ dirty' = FALSE
     ELSE UNCHANGED <<shown, loaded, dirty>>
  /\ UNCHANGED <<db, cur, gatevars, view, saving, calm, foreign>>

\* await putSettings: the reply is not looked at; finally.
TakeSavedSettings(i) ==
  /\ call[i].op = "put" /\ call[i].doc = "settings" /\ call[i].at = "ok"
  /\ call' = Done(i)
  /\ saving' = (saving /\ ~call[i].live)
  /\ UNCHANGED <<db, cur, gatevars, view, shown, loaded, dirty, calm, foreign>>

\* Mutant of TakeFailed: the button is enabled again only after a success.
TakeFailedBusy(i) ==
  /\ call[i].at = "failed"
  /\ call' = Done(i)
  /\ UNCHANGED <<db, cur, gatevars, view, shown, loaded, dirty, saving, calm, foreign>>

\* The catch of a load does nothing, that of a save toasts; finally.
TakeFailed(i) ==
  /\ call[i].at = "failed"
  /\ call' = Done(i)
  /\ saving' = (saving /\ ~(call[i].live /\ call[i].op = "put"))
  /\ UNCHANGED <<db, cur, gatevars, view, shown, loaded, dirty, calm, foreign>>

\* j() sees the 401 first: App, and the form in it, are gone.
TakeDenied(i) ==
  /\ call[i].at = "denied"
  /\ Unauthorized
  /\ Leave(Done(i))
  /\ UNCHANGED <<db, cur, mode, session, enabled, status, typed, login, logout,
                 poll, foreign>>

Reply(i) == TakeGet(i) \/ TakeSavedRules(i) \/ TakeSavedSettings(i)
              \/ TakeFailed(i) \/ TakeDenied(i)

Next ==
  \/ GateStep \/ Expire \/ Retoken \/ Restart
  \/ \E doc \in Docs, v \in Values : Foreign(doc, v)
  \/ \E v \in {"library"} \cup Docs : Navigate(v)
  \/ \E v \in Values : EditRules(v) \/ EditSettings(v)
  \/ \E i \in Calls : \/ SaveRules(i) \/ SaveSettings(i)
                      \/ Serve(i) \/ Fail(i) \/ Reply(i)

\* The server answers, the browser delivers, App's interval fires, and a
\* user in front of the login screen logs in.  A password is refused, and a
\* poll lost, only so many times in a row.
Fairness ==
  /\ WF_vars(GateStep /\ (StatusServed \/ Resolved \/ ResolveFails))
  /\ WF_vars(GateStep /\ (Type \/ Submit))
  /\ WF_vars(GateStep /\ LoginServed)
  /\ SF_vars(GateStep /\ LoginServed /\ login' = "ok")
  /\ WF_vars(GateStep /\ (LoggedIn \/ LoginRefused))
  /\ WF_vars(GateStep /\ LoggedOut)
  /\ WF_vars(GateStep /\ (Poll \/ PollEnds))
  /\ SF_vars(GateStep /\ PollDenied)
  /\ \A i \in Calls : WF_vars(Serve(i)) /\ WF_vars(Reply(i))

Spec == Init /\ [][Next]_vars /\ Fairness

-----------------------------------------------------------------------------
TypeOK ==
  /\ StoreTypeOK /\ GateTypeOK
  /\ view \in {"library", "rules", "settings"} /\ shown \in Values
  /\ loaded \in BOOLEAN /\ dirty \in BOOLEAN /\ saving \in BOOLEAN
  /\ calm \in BOOLEAN /\ foreign \in 0 .. MaxForeign

\* A rule editor that says there is nothing to save shows the rules the
\* server holds, provided nothing crossed a request of its own: no edit and
\* no save while it awaited a reply, no write of another client, no save
\* of an earlier editor still under way (RulesEditor.tsx:31-56).
ShownIsStored ==
  view = "rules" /\ loaded /\ ~dirty /\ calm => shown = db["rules"]

\* A page whose session has ended does not go on showing the app: a poll
\* meets the 401 (main.tsx:12-15, api.ts:115-131, App.tsx:78-83).
ExpiryNoticed == (phase = "ready" /\ ~Allowed) ~> (phase # "ready" \/ Allowed)

\* Once sessions end no more, a user who has the password gets to the app
\* and stays there: the 401s and the logout still under way run out.
Settled == <>[][~(Expire \/ Restart \/ (GateStep /\ Logout))]_vars
LoginSticks == mode = "password" /\ Settled => <>[](phase = "ready")

\* No button stays disabled: a login and a save end, answered, refused or
\* lost (Login.tsx:17-31, SettingsView.tsx:36-46).
Unblocked == (busy ~> ~busy) /\ (saving ~> ~saving)
=============================================================================
