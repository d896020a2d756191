---------------------------- MODULE WebUI_proofs ----------------------------
(* Proofs about WebUI, for any number of requests under way, any documents    *)
(* and any number of writes of other clients.                                 *)
(*                                                                            *)
(* An editor nothing has crossed awaits at most one reply.  Nobody else has   *)
(* the rules to write, so what a reply brings is what the database holds:     *)
(* of a load, because nothing was written since it was answered; of a save,   *)
(* because it was this very document that was written.  And between the save  *)
(* and its reply the editor says that there is something to save.             *)
EXTENDS WebUI, TLAPS

(* The requests of an editor of the rules that nothing has crossed.           *)
Uncrossed ==
  view = "rules" /\ calm =>
    /\ \A i, j \in Calls : call[i].live /\ call[j].live => i = j
    /\ \A i \in Calls : call[i].op = "put" /\ call[i].doc = "rules" => call[i].live
    /\ \A i \in Calls : call[i].live =>
          /\ call[i].doc = "rules"
          /\ call[i].op = "put" => dirty
          /\ call[i].at = "ok" => call[i].val = db["rules"]

(* Only of the settings is there a second half to a put.                      *)
SwapsSettings == \A i \in Calls : call[i].at = "persisted" => call[i].doc = "settings"

UIInv == TypeOK /\ SwapsSettings /\ Uncrossed /\ ShownIsStored

-----------------------------------------------------------------------------
(* Types.                                                                     *)

Records == [op : {"none", "get", "put"}, doc : {"rules", "settings"},
            val : Values, cred : BOOLEAN, live : BOOLEAN,
            at : {"free", "sent", "persisted", "ok", "denied", "failed"}]

(* What normalize returns is a document.                                      *)
LEMMA NormalizeType ==
    ASSUME NEW doc, NEW v \in Values
    PROVE  normalize(doc, v) \in Values
BY StoreAssumption DEF normalize, Values

(* The page is loading, nothing is under way, and no form is on the screen.   *)
LEMMA InitUIInv == Init => UIInv
<1> SUFFICES ASSUME Init PROVE UIInv
  OBVIOUS
<1>1. 0 \in Values /\ 0 \in 0 .. MaxForeign
  BY StoreAssumption, ForeignAssumption DEF Values
<1>2. Idle \in Records
  BY <1>1 DEF Idle, Records
<1>3. StoreTypeOK
  BY <1>1, <1>2 DEF Init, StoreInit, StoreTypeOK, Records
<1>4. GateTypeOK
  BY DEF Init, GateInit, GateTypeOK
<1>5. TypeOK
  BY <1>1, <1>3, <1>4 DEF Init, TypeOK
<1>6. call = [i \in Calls |-> Idle] /\ view = "library"
  BY DEF Init, StoreInit
<1>7. SwapsSettings /\ Uncrossed /\ ShownIsStored
  BY <1>6 DEF Idle, SwapsSettings, Uncrossed, ShownIsStored
<1> QED  BY <1>5, <1>7 DEF UIInv

(* The gate's steps keep the gate's types.                                    *)
LEMMA GateTypes ==
    ASSUME GateTypeOK,
           \/ StatusServed \/ Resolved \/ ResolveFails
           \/ Type \/ Submit \/ LoginServed \/ LoggedIn \/ LoginRefused
           \/ Logout \/ LoggedOut
           \/ Poll \/ PollEnds \/ PollDenied
           \/ Forget \/ SwapToken
    PROVE  GateTypeOK'
<1> USE DEF GateTypeOK
<1>1. CASE StatusServed \/ Resolved \/ ResolveFails
  BY <1>1 DEF StatusServed, Resolved, ResolveFails
<1>2. CASE Type \/ Submit \/ LoginServed \/ LoggedIn \/ LoginRefused
  BY <1>2 DEF Type, Submit, LoginServed, LoggedIn, LoginRefused
<1>3. CASE Logout \/ LoggedOut
  BY <1>3 DEF Logout, LoggedOut
<1>4. CASE Poll \/ PollEnds \/ PollDenied
  BY <1>4 DEF Poll, PollEnds, PollDenied, Unauthorized
<1>5. CASE Forget \/ SwapToken
  BY <1>5 DEF Forget, SwapToken
<1> QED  BY <1>1, <1>2, <1>3, <1>4, <1>5

-----------------------------------------------------------------------------
(* The steps that leave the forms and what they await alone.                  *)

(* A request that is live stays so, or is given up; none is new.              *)
LEMMA FewerCalls ==
    ASSUME UIInv, UNCHANGED formvars, db'["rules"] = db["rules"],
           NEW c, call' = c,
           \A i \in Calls :
              /\ c[i].op = "put" /\ c[i].doc = "rules" =>
                    call[i].op = "put" /\ call[i].doc = "rules" /\ c[i].live = call[i].live
              /\ c[i].live => /\ call[i].live
                              /\ c[i].op = call[i].op /\ c[i].doc = call[i].doc
                              /\ c[i].at = "ok" => call[i].at = "ok" /\ c[i].val = call[i].val
    PROVE  Uncrossed' /\ ShownIsStored'
<1>1. /\ UNCHANGED <<view, shown, loaded, dirty, saving, calm>>
      /\ db'["rules"] = db["rules"]
  BY DEF formvars
<1>2. ShownIsStored'
  BY <1>1 DEF UIInv, ShownIsStored
<1>3. Uncrossed'
  BY <1>1 DEF UIInv, Uncrossed
<1> QED  BY <1>2, <1>3

(* App goes away, and the form with it; else nothing changes but call.        *)
LEMMA LeaveInv ==
    ASSUME UIInv, UNCHANGED db, NEW c \in [Calls -> Records], Leave(c),
           \A i \in Calls : c[i] = call[i] \/ c[i] = Idle
    PROVE  /\ call' \in [Calls -> Records]
           /\ view' \in {"library", "rules", "settings"} /\ shown' \in Values
           /\ loaded' \in BOOLEAN /\ dirty' \in BOOLEAN /\ saving' \in BOOLEAN
           /\ calm' \in BOOLEAN
           /\ Uncrossed' /\ ShownIsStored'
<1>1. CASE phase = "ready" /\ phase' # "ready"
  <2>1. view' = "library" /\ Fresh
        /\ call' = [i \in Calls |-> [c[i] EXCEPT !.live = FALSE]]
    BY <1>1 DEF Leave
  <2>2. call' \in [Calls -> Records]
    BY <2>1 DEF Records
  <2>3. 0 \in Values
    BY StoreAssumption DEF Values
  <2> QED  BY <2>1, <2>2, <2>3 DEF Fresh, Uncrossed, ShownIsStored
<1>2. CASE ~(phase = "ready" /\ phase' # "ready")
  <2>1. call' = c /\ UNCHANGED formvars
    BY <1>2 DEF Leave
  <2>2. Uncrossed' /\ ShownIsStored'
    BY <2>1, FewerCalls DEF Idle
  <2> QED  BY <2>1, <2>2 DEF formvars, UIInv, TypeOK
<1> QED  BY <1>1, <1>2

(* The gate's own steps.                                                      *)
LEMMA GateStepInv == ASSUME UIInv, GateStep PROVE UIInv'
<1>1. Leave(call) /\ UNCHANGED <<db, cur, foreign>>
  BY DEF GateStep
<1>2. GateTypeOK'
  BY GateTypes DEF GateStep, UIInv, TypeOK
<1>3. call \in [Calls -> Records]
  BY DEF UIInv, TypeOK, StoreTypeOK, Records
<1>4. /\ call' \in [Calls -> Records]
      /\ view' \in {"library", "rules", "settings"} /\ shown' \in Values
      /\ loaded' \in BOOLEAN /\ dirty' \in BOOLEAN /\ saving' \in BOOLEAN
      /\ calm' \in BOOLEAN
      /\ Uncrossed' /\ ShownIsStored'
  BY <1>1, <1>3, LeaveInv
<1>5. SwapsSettings'
  <2>1. call' = call \/ call' = [i \in Calls |-> [call[i] EXCEPT !.live = FALSE]]
    BY <1>1 DEF Leave
  <2> QED  BY <1>3, <2>1 DEF UIInv, SwapsSettings, Records
<1> QED  BY <1>1, <1>2, <1>4, <1>5 DEF UIInv, TypeOK, StoreTypeOK, Records

(* Sessions end, the token changes, and the server starts anew.               *)
LEMMA ForgetInv == ASSUME UIInv, Expire \/ Retoken \/ Restart PROVE UIInv'
<1>1. GateTypeOK'
  BY GateTypes DEF Expire, Retoken, Restart, UIInv, TypeOK
<1>2. /\ call \in [Calls -> Records] /\ cur' \in Values
      /\ db' \in [{"rules", "settings"} -> Values] /\ db'["rules"] = db["rules"]
  <2>1. /\ call \in [Calls -> Records] /\ cur \in Values
        /\ db \in [{"rules", "settings"} -> Values]
    BY DEF UIInv, TypeOK, StoreTypeOK, Records
  <2>2. applyEnv[db["settings"]] \in Values
    BY <2>1, EnvAssumption
  <2>3. \/ UNCHANGED <<db, cur>>
        \/ /\ cur' = applyEnv[db["settings"]]
           /\ db' = [db EXCEPT !["settings"] = applyEnv[db["settings"]]]
    BY DEF Expire, Retoken, Restart, Reopen
  <2> QED  BY <2>1, <2>2, <2>3
<1>3. UNCHANGED <<formvars, foreign>>
  BY DEF Expire, Retoken, Restart
<1>4. \A i \in Calls :
         \/ \E b \in BOOLEAN : call'[i] = [call[i] EXCEPT !.cred = b]
         \/ call'[i] \in {call[i], [call[i] EXCEPT !.at = "failed", !.cred = FALSE]}
  <2>1. CASE Expire
    BY <2>1 DEF Expire
  <2>3. CASE Retoken
    BY <2>3 DEF Retoken
  <2>2. CASE Restart
    <3>1. call' = [i \in Calls |-> IF call[i].at \in {"sent", "persisted"}
                     THEN [call[i] EXCEPT !.at = "failed", !.cred = FALSE] ELSE call[i]]
      BY <2>2 DEF Restart, Reopen
    <3> QED  BY <3>1
  <2> QED  BY <2>1, <2>2, <2>3
<1>5. call' \in [Calls -> Records]
  <2>1. ASSUME NEW r \in Records
        PROVE  /\ \A b \in BOOLEAN : [r EXCEPT !.cred = b] \in Records
               /\ [r EXCEPT !.at = "failed", !.cred = FALSE] \in Records
    BY DEF Records
  <2>2. \A i \in Calls : call[i] \in Records
    BY <1>2
  <2>3. ASSUME NEW i \in Calls PROVE call'[i] \in Records
    <3>1. CASE \E b \in BOOLEAN : call'[i] = [call[i] EXCEPT !.cred = b]
      BY <2>1, <2>2, <3>1
    <3>2. CASE call'[i] \in {call[i], [call[i] EXCEPT !.at = "failed", !.cred = FALSE]}
      BY <2>1, <2>2, <3>2
    <3> QED  BY <1>4, <3>1, <3>2
  <2>4. call' = [i \in Calls |-> call'[i]]
    BY DEF Expire, Retoken, Restart, Reopen
  <2> QED  BY <2>3, <2>4
<1>6. \A i \in Calls : /\ call'[i].op = call[i].op /\ call'[i].doc = call[i].doc
                       /\ call'[i].val = call[i].val /\ call'[i].live = call[i].live
                       /\ call'[i].at \in {call[i].at, "failed"}
  <2> SUFFICES ASSUME NEW i \in Calls
               PROVE  /\ call'[i].op = call[i].op /\ call'[i].doc = call[i].doc
                      /\ call'[i].val = call[i].val /\ call'[i].live = call[i].live
                      /\ call'[i].at \in {call[i].at, "failed"}
    OBVIOUS
  <2>1. call[i] \in Records
    BY <1>2
  <2>2. CASE call'[i] = call[i]
    BY <2>2
  <2>3. ASSUME NEW b \in BOOLEAN, call'[i] = [call[i] EXCEPT !.cred = b]
        PROVE  /\ call'[i].op = call[i].op /\ call'[i].doc = call[i].doc
               /\ call'[i].val = call[i].val /\ call'[i].live = call[i].live
               /\ call'[i].at = call[i].at
    BY <2>1, <2>3 DEF Records
  <2>4. CASE call'[i] = [call[i] EXCEPT !.at = "failed", !.cred = FALSE]
    BY <2>1, <2>4 DEF Records
  <2> QED  BY <1>4, <2>2, <2>3, <2>4
<1>7. Uncrossed' /\ ShownIsStored' /\ SwapsSettings'
  BY <1>2, <1>3, <1>6, FewerCalls DEF UIInv, SwapsSettings
<1> QED  BY <1>1, <1>2, <1>3, <1>5, <1>7 DEF UIInv, TypeOK, StoreTypeOK, formvars, Records

-----------------------------------------------------------------------------
(* The server.                                                                *)

(* It answers, or puts the one document nobody else is writing.               *)
LEMMA ServeInv == ASSUME UIInv, NEW i \in Calls, Serve(i) \/ Fail(i) PROVE UIInv'
<1>1. UNCHANGED <<gatevars, formvars, foreign>>
  BY DEF Serve, Fail
<1>2. /\ call \in [Calls -> Records] /\ cur \in Values
      /\ db \in [{"rules", "settings"} -> Values] /\ call[i].doc \in {"rules", "settings"}
      /\ call[i].val \in Values
  BY DEF UIInv, TypeOK, StoreTypeOK, Records
<1>3. UNCHANGED <<view, shown, loaded, dirty, saving, calm>>
  BY <1>1 DEF formvars
<1>4. ASSUME call' \in [Calls -> Records], cur' \in Values,
             db' \in [{"rules", "settings"} -> Values]
      PROVE  TypeOK'
  BY <1>1, <1>4 DEF gatevars, formvars, UIInv, TypeOK, StoreTypeOK, GateTypeOK, Records
<1>5. \A v \in Values, at \in {"denied", "failed", "ok", "persisted"} :
         [call[i] EXCEPT !.at = at] \in Records /\ [call[i] EXCEPT !.at = at, !.val = v] \in Records
  BY <1>2 DEF Records
<1>6. CASE Deny(i) \/ CallFails(i)
  <2>1. UNCHANGED <<db, cur>> /\ \E at \in {"denied", "failed"} : Moves(i, at)
    BY <1>6 DEF Deny, CallFails
  <2>2. PICK at \in {"denied", "failed"} : call' = [call EXCEPT ![i].at = at]
    BY <2>1 DEF Moves
  <2>3. call' \in [Calls -> Records]
    BY <1>2, <1>5, <2>2
  <2>4. Uncrossed' /\ ShownIsStored' /\ SwapsSettings'
    BY <1>1, <1>2, <2>1, <2>2, FewerCalls DEF UIInv, SwapsSettings, Records
  <2> QED  BY <1>2, <1>4, <2>1, <2>3, <2>4 DEF UIInv
<1>7. CASE ServeGet(i)
  <2>1. /\ UNCHANGED <<db, cur>> /\ call[i].op = "get"
        /\ call' = [call EXCEPT ![i] = [call[i] EXCEPT !.at = "ok", !.val = Stored(call[i].doc)]]
    BY <1>2, <1>7 DEF ServeGet, Records
  <2>2. Stored(call[i].doc) \in Values
    BY <1>2 DEF Stored
  <2>3. call' \in [Calls -> Records]
    BY <1>2, <1>5, <2>1, <2>2
  <2>4. SwapsSettings' /\ ShownIsStored'
    BY <1>2, <1>3, <2>1 DEF UIInv, SwapsSettings, ShownIsStored, Records
  <2>5. Uncrossed'
    BY <1>2, <1>3, <2>1 DEF UIInv, Uncrossed, Stored, Records
  <2> QED  BY <1>2, <1>4, <2>1, <2>3, <2>4, <2>5 DEF UIInv
<1>8. CASE Persist(i)
  <2>1. /\ UNCHANGED cur /\ call[i].op = "put"
        /\ db' = [db EXCEPT ![call[i].doc] = normalize(call[i].doc, call[i].val)]
        /\ call' = [call EXCEPT ![i] = [call[i] EXCEPT !.at =
                       IF call[i].doc = "settings" THEN "persisted" ELSE "ok"]]
    BY <1>2, <1>8 DEF Persist, Moves, Records
  <2>2. call' \in [Calls -> Records] /\ db' \in [{"rules", "settings"} -> Values]
    BY <1>2, <1>5, <2>1, NormalizeType
  <2>3. CASE call[i].doc = "settings"
    <3>1. db'["rules"] = db["rules"]
      BY <1>2, <2>1, <2>3
    <3>2. call' = [call EXCEPT ![i] = [call[i] EXCEPT !.at = "persisted"]]
      BY <2>1, <2>3
    <3>3. SwapsSettings' /\ ShownIsStored'
      BY <1>2, <1>3, <2>3, <3>1, <3>2 DEF UIInv, SwapsSettings, ShownIsStored, Records
    <3>4. Uncrossed'
      BY <1>2, <1>3, <2>3, <3>1, <3>2 DEF UIInv, Uncrossed, Records
    <3> QED  BY <1>2, <1>4, <2>1, <2>2, <3>3, <3>4 DEF UIInv
  <2>4. CASE call[i].doc = "rules"
    <3>1. db'["rules"] = call[i].val
      BY <1>2, <2>1, <2>4 DEF normalize
    <3>2. call' = [call EXCEPT ![i] = [call[i] EXCEPT !.at = "ok"]]
      BY <2>1, <2>4
    <3>3. view = "rules" /\ calm => call[i].live /\ dirty /\ \A j \in Calls : call[j].live => j = i
      BY <2>1, <2>4 DEF UIInv, Uncrossed
    <3>4. SwapsSettings' /\ ShownIsStored'
      BY <1>2, <1>3, <3>2, <3>3 DEF UIInv, SwapsSettings, ShownIsStored, Records
    <3>5. Uncrossed'
      BY <1>2, <1>3, <2>4, <3>1, <3>2, <3>3 DEF UIInv, Uncrossed, Records
    <3> QED  BY <1>2, <1>4, <2>1, <2>2, <3>4, <3>5 DEF UIInv
  <2> QED  BY <1>2, <2>3, <2>4
<1>9. CASE HotSwap(i)
  <2>1. /\ call[i].at = "persisted" /\ UNCHANGED db /\ cur' \in Values
        /\ call' = [call EXCEPT ![i] = [call[i] EXCEPT !.at = "ok"]]
    BY <1>2, <1>9, NormalizeType DEF HotSwap, Moves, Records
  <2>2. call' \in [Calls -> Records]
    BY <1>2, <1>5, <2>1
  <2>3. call[i].doc = "settings"
    BY <2>1 DEF UIInv, SwapsSettings
  <2>4. SwapsSettings' /\ ShownIsStored'
    BY <1>2, <1>3, <2>1 DEF UIInv, SwapsSettings, ShownIsStored, Records
  <2>5. Uncrossed'
    BY <1>2, <1>3, <2>1, <2>3 DEF UIInv, Uncrossed, Records
  <2> QED  BY <1>2, <1>4, <2>1, <2>2, <2>4, <2>5 DEF UIInv
<1> QED  BY <1>6, <1>7, <1>8, <1>9 DEF Serve, Fail, ServerStep

(* Another client: it writes past an editor of the same document only.        *)
LEMMA ForeignInv ==
    ASSUME UIInv, NEW doc \in Docs, NEW v \in Values, Foreign(doc, v)
    PROVE  UIInv'
<1>1. /\ db' = [db EXCEPT ![doc] = normalize(doc, v)]
      /\ foreign' = foreign + 1 /\ foreign < MaxForeign
      /\ calm' = (calm /\ view # doc)
      /\ UNCHANGED <<cur, gatevars, view, shown, loaded, dirty, saving>>
  BY DEF Foreign
<1>2. /\ call \in [Calls -> Records] /\ doc \in {"rules", "settings"}
      /\ db \in [{"rules", "settings"} -> Values] /\ foreign \in 0 .. MaxForeign
  BY StoreAssumption DEF UIInv, TypeOK, StoreTypeOK, Records
<1>3. /\ call' \in [Calls -> Records] /\ SwapsSettings'
      /\ \A i \in Calls : \/ call'[i] = call[i]
                          \/ ~call'[i].live /\ call'[i].doc = "settings"
  <2>1. CASE doc = "settings"
    <3>1. PICK i \in Calls :
             call' = [call EXCEPT ![i] = [op |-> "put", doc |-> doc, val |-> v,
                        at |-> "persisted", cred |-> TRUE, live |-> FALSE]]
      BY <2>1 DEF Foreign
    <3> QED  BY <1>2, <2>1, <3>1 DEF UIInv, SwapsSettings, Records
  <2>2. CASE doc = "rules"
    BY <1>2, <2>2 DEF Foreign, UIInv, SwapsSettings
  <2> QED  BY <1>2, <2>1, <2>2
<1>4. foreign' \in 0 .. MaxForeign /\ db' \in [{"rules", "settings"} -> Values]
  BY <1>1, <1>2, ForeignAssumption, NormalizeType
<1>5. TypeOK'
  BY <1>1, <1>3, <1>4 DEF gatevars, UIInv, TypeOK, StoreTypeOK, GateTypeOK, Records
<1>6. Uncrossed' /\ ShownIsStored'
  <2>1. view = "rules" /\ calm' => calm /\ db'["rules"] = db["rules"]
    BY <1>1, <1>2
  <2> QED  BY <1>1, <1>3, <2>1 DEF UIInv, Uncrossed, ShownIsStored
<1> QED  BY <1>3, <1>5, <1>6 DEF UIInv

-----------------------------------------------------------------------------
(* The user.                                                                  *)

(* A form that appears awaits its document, and nobody else any reply; what   *)
(* is under way of an earlier one counts as crossing it.                      *)
LEMMA NavigateInv ==
    ASSUME UIInv, NEW v \in {"library"} \cup Docs, Navigate(v)
    PROVE  UIInv'
<1>1. /\ view' = v /\ Fresh /\ UNCHANGED <<db, cur, gatevars, foreign>>
      /\ v \in {"library", "rules", "settings"}
  BY StoreAssumption DEF Navigate
<1>2. call \in [Calls -> Records] /\ 0 \in Values
  BY StoreAssumption DEF UIInv, TypeOK, StoreTypeOK, Records, Values
<1>3. Orphaned \in [Calls -> Records] /\ \A i \in Calls : ~Orphaned[i].live
  BY <1>2 DEF Orphaned, Records
<1>4. \A i \in Calls : /\ Orphaned[i].op = call[i].op /\ Orphaned[i].doc = call[i].doc
                       /\ Orphaned[i].at = call[i].at
  BY <1>2 DEF Orphaned, Records
<1>5. Allowed \in BOOLEAN
  BY DEF UIInv, TypeOK, GateTypeOK, Allowed
<1>6. ASSUME call' \in [Calls -> Records] PROVE TypeOK'
  <2>1. /\ shown' = 0 /\ loaded' = FALSE /\ dirty' = FALSE /\ saving' = FALSE
        /\ calm' \in BOOLEAN
    BY <1>1 DEF Fresh
  <2>2. /\ view' \in {"library", "rules", "settings"} /\ shown' \in Values
        /\ loaded' \in BOOLEAN /\ dirty' \in BOOLEAN /\ saving' \in BOOLEAN
        /\ UNCHANGED <<db, cur, gatevars, foreign>>
    BY <1>1, <1>2, <2>1
  <2> QED
    BY <1>6, <2>1, <2>2 DEF gatevars, UIInv, TypeOK, StoreTypeOK, GateTypeOK, Records
<1>7. ShownIsStored'
  BY <1>1 DEF Fresh, ShownIsStored
<1> HIDE DEF Orphaned
<1>8. CASE v = "library"
  <2>1. call' = Orphaned
    BY <1>8 DEF Navigate
  <2>2. SwapsSettings' /\ Uncrossed'
    BY <1>1, <1>4, <1>8, <2>1 DEF UIInv, SwapsSettings, Uncrossed
  <2> QED  BY <1>3, <1>6, <1>7, <2>1, <2>2 DEF UIInv
<1>9. CASE v # "library"
  <2>1. PICK i \in Calls :
           call' = [Orphaned EXCEPT ![i] = [op |-> "get", doc |-> v, val |-> 0,
                       at |-> "sent", cred |-> Allowed, live |-> TRUE]]
    BY <1>9 DEF Navigate
  <2>2. call' \in [Calls -> Records]
    BY <1>1, <1>2, <1>3, <1>5, <1>9, <2>1 DEF Records
  <2>3. /\ call'[i].op = "get" /\ call'[i].doc = v /\ call'[i].at = "sent"
        /\ \A j \in Calls : j # i => call'[j] = Orphaned[j]
    BY <1>3, <2>1
  <2>4. SwapsSettings'
    BY <1>4, <2>3 DEF UIInv, SwapsSettings
  <2>5. Uncrossed'
    BY <1>1, <1>3, <1>4, <2>3 DEF Fresh, Uncrossed
  <2> QED  BY <1>6, <1>7, <2>2, <2>4, <2>5 DEF UIInv
<1> QED  BY <1>8, <1>9

(* An edit, with no reply awaited, is something to save.                      *)
LEMMA EditInv ==
    ASSUME UIInv, NEW v \in Values, EditRules(v) \/ EditSettings(v)
    PROVE  UIInv'
<1>1. /\ shown' = v /\ calm' = (calm /\ ~Waiting)
      /\ UNCHANGED <<db, cur, call, gatevars, view, loaded, saving, foreign>>
      /\ (view = "rules" /\ dirty') \/ (view = "settings" /\ dirty' = dirty)
  BY DEF EditRules, EditSettings, storevars
<1>2. TypeOK'
  <2>1. dirty' \in BOOLEAN
    BY DEF EditRules, EditSettings, UIInv, TypeOK
  <2> QED  BY <1>1, <2>1 DEF gatevars, UIInv, TypeOK, StoreTypeOK, GateTypeOK
<1>3. SwapsSettings' /\ Uncrossed' /\ ShownIsStored'
  BY <1>1 DEF UIInv, SwapsSettings, Uncrossed, ShownIsStored
<1> QED  BY <1>2, <1>3 DEF UIInv

(* A save, with no other reply awaited.                                       *)
LEMMA SaveInv ==
    ASSUME UIInv, NEW i \in Calls, SaveRules(i) \/ SaveSettings(i)
    PROVE  UIInv'
<1>1. PICK doc \in {"rules", "settings"} :
         /\ view = doc /\ (doc = "rules" => dirty)
         /\ call' = [call EXCEPT ![i] = [op |-> "put", doc |-> doc, val |-> shown,
                        at |-> "sent", cred |-> Allowed, live |-> TRUE]]
         /\ calm' = (calm /\ ~Waiting)
         /\ saving' \in {saving, TRUE}
         /\ UNCHANGED <<db, cur, gatevars, view, shown, loaded, dirty, foreign>>
  BY DEF SaveRules, SaveSettings, Send
<1>2. call \in [Calls -> Records] /\ shown \in Values /\ Allowed \in BOOLEAN
  BY DEF UIInv, TypeOK, StoreTypeOK, GateTypeOK, Allowed, Records
<1>3. call' \in [Calls -> Records]
  BY <1>1, <1>2 DEF Records
<1>4. TypeOK'
  <2>1. calm' \in BOOLEAN /\ saving' \in BOOLEAN
    BY <1>1 DEF UIInv, TypeOK
  <2>2. UNCHANGED <<db, cur, gatevars, view, shown, loaded, dirty, foreign>>
    BY <1>1
  <2> QED
    BY <1>3, <2>1, <2>2 DEF gatevars, UIInv, TypeOK, StoreTypeOK, GateTypeOK, Records
<1>5. /\ call'[i].op = "put" /\ call'[i].doc = doc /\ call'[i].at = "sent" /\ call'[i].live
      /\ \A j \in Calls : j # i => call'[j] = call[j]
  BY <1>1, <1>2
<1>6. SwapsSettings' /\ ShownIsStored'
  BY <1>1, <1>5 DEF UIInv, SwapsSettings, ShownIsStored
<1>7. Uncrossed'
  BY <1>1, <1>5 DEF UIInv, Uncrossed, Waiting
<1> QED  BY <1>4, <1>6, <1>7 DEF UIInv

-----------------------------------------------------------------------------
(* The replies.                                                               *)

(* What arrives in a form is what the database holds.                         *)
LEMMA ReplyInv == ASSUME UIInv, NEW i \in Calls, Reply(i) PROVE UIInv'
<1>1. /\ call \in [Calls -> Records] /\ Idle \in Records
      /\ call[i].val \in Values
  BY StoreAssumption DEF UIInv, TypeOK, StoreTypeOK, Records, Idle, Values
<1>2. Done(i) \in [Calls -> Records] /\ \A j \in Calls : Done(i)[j] = call[j] \/ Done(i)[j] = Idle
  BY <1>1 DEF Done
<1>3. Done(i)[i] = Idle /\ \A j \in Calls : j # i => Done(i)[j] = call[j]
  BY <1>1 DEF Done
<1>4. Idle.op = "none" /\ Idle.at = "free" /\ ~Idle.live
  BY DEF Idle
<1>5. ASSUME call' = Done(i) PROVE SwapsSettings'
  BY <1>3, <1>4, <1>5 DEF UIInv, SwapsSettings
<1> HIDE DEF Done, Idle
<1>6. CASE TakeGet(i) \/ TakeSavedRules(i)
  <2>1. /\ call' = Done(i) /\ call[i].at = "ok"
        /\ UNCHANGED <<db, cur, gatevars, view, saving, calm, foreign>>
        /\ \/ /\ call[i].live /\ shown' = call[i].val /\ loaded' = TRUE
              /\ dirty' = dirty \/ dirty' = FALSE
           \/ ~call[i].live /\ UNCHANGED <<shown, loaded, dirty>>
        /\ dirty' = dirty \/ call[i].op = "put"
    BY <1>6 DEF TakeGet, TakeSavedRules
  <2>2. TypeOK'
    <3>1. shown' \in Values /\ loaded' \in BOOLEAN /\ dirty' \in BOOLEAN
      BY <1>1, <2>1 DEF UIInv, TypeOK
    <3>2. call' \in [Calls -> Records] /\ UNCHANGED <<db, cur, gatevars, view, saving, calm, foreign>>
      BY <1>2, <2>1
    <3> QED
      BY <3>1, <3>2 DEF gatevars, UIInv, TypeOK, StoreTypeOK, GateTypeOK, Records
  <2>3. ShownIsStored'
    <3>1. CASE call[i].live
      BY <2>1, <3>1 DEF UIInv, Uncrossed, ShownIsStored
    <3>2. CASE ~call[i].live
      <4>1. UNCHANGED <<db, view, calm, shown, loaded, dirty>>
        BY <2>1, <3>2
      <4> QED  BY <4>1 DEF UIInv, ShownIsStored
    <3> QED  BY <3>1, <3>2
  <2>4. view = "rules" /\ calm /\ dirty' # dirty => \A j \in Calls : call[j].live => j = i
    BY <2>1 DEF UIInv, Uncrossed
  <2>5. Uncrossed'
    BY <1>3, <1>4, <2>1, <2>4 DEF UIInv, Uncrossed
  <2> QED  BY <1>5, <2>1, <2>2, <2>3, <2>5 DEF UIInv
<1>7. CASE TakeSavedSettings(i) \/ TakeFailed(i)
  <2>1. /\ call' = Done(i)
        /\ saving' \in BOOLEAN
        /\ UNCHANGED <<db, cur, gatevars, view, shown, loaded, dirty, calm, foreign>>
    BY <1>7 DEF TakeSavedSettings, TakeFailed, UIInv, TypeOK
  <2>2. TypeOK'
    BY <1>2, <2>1 DEF gatevars, UIInv, TypeOK, StoreTypeOK, GateTypeOK, Records
  <2>3. Uncrossed' /\ ShownIsStored'
    BY <1>3, <1>4, <2>1 DEF UIInv, Uncrossed, ShownIsStored
  <2> QED  BY <1>5, <2>1, <2>2, <2>3 DEF UIInv
<1>8. CASE TakeDenied(i)
  <2>1. /\ Leave(Done(i)) /\ phase' = "login"
        /\ UNCHANGED <<db, cur, mode, session, enabled, status, typed, login, logout,
                       poll, foreign>>
    BY <1>8 DEF TakeDenied, Unauthorized
  <2>2. /\ call' \in [Calls -> Records]
        /\ view' \in {"library", "rules", "settings"} /\ shown' \in Values
        /\ loaded' \in BOOLEAN /\ dirty' \in BOOLEAN /\ saving' \in BOOLEAN
        /\ calm' \in BOOLEAN
        /\ Uncrossed' /\ ShownIsStored'
    BY <1>2, <2>1, LeaveInv
  <2>3. TypeOK'
    BY <2>1, <2>2 DEF UIInv, TypeOK, StoreTypeOK, GateTypeOK, Records
  <2>4. SwapsSettings'
    <3>1. \/ call' = Done(i)
          \/ call' = [j \in Calls |-> [Done(i)[j] EXCEPT !.live = FALSE]]
      BY <2>1 DEF Leave
    <3>2. CASE call' = [j \in Calls |-> [Done(i)[j] EXCEPT !.live = FALSE]]
      <4>1. \A j \in Calls : call'[j].at = Done(i)[j].at /\ call'[j].doc = Done(i)[j].doc
        BY <1>2, <3>2 DEF Records
      <4> QED  BY <1>3, <1>4, <4>1 DEF UIInv, SwapsSettings
    <3> QED  BY <1>5, <3>1, <3>2
  <2> QED  BY <2>2, <2>3, <2>4 DEF UIInv
<1> QED  BY <1>6, <1>7, <1>8 DEF Reply

-----------------------------------------------------------------------------
(* Every step keeps the invariant.                                            *)
LEMMA StepUIInv == UIInv /\ [Next]_vars => UIInv'
<1> SUFFICES ASSUME UIInv, [Next]_vars PROVE UIInv'
  OBVIOUS
<1>1. CASE UNCHANGED vars
  BY <1>1 DEF vars, storevars, gatevars, formvars, UIInv, TypeOK, StoreTypeOK, GateTypeOK,
              SwapsSettings, Uncrossed, ShownIsStored
<1>2. CASE GateStep \/ Expire \/ Retoken \/ Restart
  BY <1>2, GateStepInv, ForgetInv
<1>3. ASSUME NEW doc \in Docs, NEW v \in Values, Foreign(doc, v) PROVE UIInv'
  BY <1>3, ForeignInv
<1>4. ASSUME NEW v \in {"library"} \cup Docs, Navigate(v) PROVE UIInv'
  BY <1>4, NavigateInv
<1>5. ASSUME NEW v \in Values, EditRules(v) \/ EditSettings(v) PROVE UIInv'
  BY <1>5, EditInv
<1>6. ASSUME NEW i \in Calls,
             SaveRules(i) \/ SaveSettings(i) \/ Serve(i) \/ Fail(i) \/ Reply(i)
      PROVE  UIInv'
  BY <1>6, SaveInv, ServeInv, ReplyInv
<1> QED  BY <1>1, <1>2, <1>3, <1>4, <1>5, <1>6 DEF Next

(* The invariant holds in every state.                                        *)
THEOREM Invariant == Spec => []UIInv
BY InitUIInv, StepUIInv, PTL DEF Spec

(* Type correctness.                                                          *)
THEOREM TypeCorrect == Spec => []TypeOK
<1>1. UIInv => TypeOK
  BY DEF UIInv
<1> QED  BY <1>1, Invariant, PTL

(* Whatever requests of other forms and other clients, refusals, failures and *)
(* restarts come between: a rule editor that says there is nothing to save    *)
(* shows the stored rules, unless something crossed a request of its own      *)
(* (RulesEditor.tsx:31-56).                                                   *)
THEOREM EditorTruthful == Spec => []ShownIsStored
<1>1. UIInv => ShownIsStored
  BY DEF UIInv
<1> QED  BY <1>1, Invariant, PTL
=============================================================================
