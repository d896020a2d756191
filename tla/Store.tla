------------------------------- MODULE Store -------------------------------
(***************************************************************************)
(* The rules and the settings as the server keeps them                     *)
(* (internal/config/config.go), and the requests that read and write them  *)
(* (getRules, putRules, getSettings, putSettings of internal/api).         *)
(*                                                                         *)
(* A document is a number: 0 is the empty rule list, and the settings that *)
(* normalize still has to correct.  Rules live in the database only;       *)
(* settings live in the database and, for every reader, in memory.         *)
(***************************************************************************)
EXTENDS Naturals

CONSTANTS Calls,      \* requests that can be under way at once
          Docs,       \* documents in play, of {"rules", "settings"}
          MaxDoc,     \* documents are 0 .. MaxDoc
          applyEnv    \* what the environment makes of the settings at a start

ASSUME StoreAssumption == /\ Calls \subseteq Nat
                          /\ Docs \subseteq {"rules", "settings"}
                          /\ MaxDoc \in Nat \ {0}

VARIABLES db,         \* what the database holds of a document
          cur,        \* Store.cur
          call        \* the requests under way

storevars == <<db, cur, call>>

Values == 0 .. MaxDoc

ASSUME EnvAssumption == applyEnv \in [Values -> Values]

\* live: the component that sent it is still on the screen; cred: the
\* credentials it carries are good.
Idle == [op |-> "none", doc |-> "rules", val |-> 0, at |-> "free",
         cred |-> FALSE, live |-> FALSE]

\* config.normalize leaves a document it would not change alone.
normalize(doc, v) == IF doc = "settings" /\ v = 0 THEN 1 ELSE v

\* What a GET answers: Store.Rules reads the database, Store.Get the memory.
Stored(doc) == IF doc = "settings" THEN cur ELSE db["rules"]

StoreInit ==
  /\ db \in [{"rules", "settings"} -> Values]
  /\ db["settings"] \in {applyEnv[normalize("settings", v)] : v \in Values}
  /\ cur = db["settings"]
  /\ call = [i \in Calls |-> Idle]

\* A fetch of the page, or of another client, in a slot that is free.
Send(i, op, doc, v, cred, live) ==
  /\ call[i] = Idle
  /\ \A k \in Calls : call[k] = Idle => i <= k
  /\ call' = [call EXCEPT ![i] = [op |-> op, doc |-> doc, val |-> v,
                                  at |-> "sent", cred |-> cred, live |-> live]]

Moves(i, at) == call' = [call EXCEPT ![i].at = at]

\* withAuth refuses a request whose credentials are not good.
Deny(i) ==
  /\ call[i].at = "sent" /\ ~call[i].cred
  /\ Moves(i, "denied")
  /\ UNCHANGED <<db, cur>>

\* getRules and getSettings.  That getRules answers a failed read with an
\* empty list is left out: reads fail of a corrupt or closed database only.
ServeGet(i) ==
  /\ call[i].at = "sent" /\ call[i].cred /\ call[i].op = "get"
  /\ call' = [call EXCEPT ![i].at = "ok", ![i].val = Stored(call[i].doc)]
  /\ UNCHANGED <<db, cur>>

\* PutRules, and the first half of Put: one transaction of the database.
Persist(i) ==
  /\ call[i].at = "sent" /\ call[i].cred /\ call[i].op = "put"
  /\ db' = [db EXCEPT ![call[i].doc] = normalize(call[i].doc, call[i].val)]
  /\ Moves(i, IF call[i].doc = "settings" THEN "persisted" ELSE "ok")
  /\ UNCHANGED cur

\* The second half of Put: the settings are swapped under s.mu.
HotSwap(i) ==
  /\ call[i].at = "persisted"
  /\ cur' = normalize("settings", call[i].val)
  /\ Moves(i, "ok")
  /\ UNCHANGED db

\* The body is not read, the transaction fails, or the connection is lost
\* before or after the request was served.
CallFails(i) ==
  /\ call[i].at \in {"sent", "ok"}
  /\ Moves(i, "failed")
  /\ UNCHANGED <<db, cur>>

\* The process ends and starts: Open reads the settings, lets the environment
\* override them, and writes them back; what was under way fails.  Sessions
\* do not survive, so credentials sent before are not good.
Reopen ==
  /\ cur' = applyEnv[db["settings"]]
  /\ db' = [db EXCEPT !["settings"] = applyEnv[@]]
  /\ call' = [i \in Calls |->
                IF call[i].at \in {"sent", "persisted"}
                THEN [call[i] EXCEPT !.at = "failed", !.cred = FALSE] ELSE call[i]]

ServerStep(i) == Deny(i) \/ ServeGet(i) \/ Persist(i) \/ HotSwap(i)

StoreTypeOK ==
  /\ db \in [{"rules", "settings"} -> Values]
  /\ cur \in Values
  /\ call \in [Calls -> [op : {"none", "get", "put"}, doc : {"rules", "settings"},
                         val : Values, cred : BOOLEAN, live : BOOLEAN,
                         at : {"free", "sent", "persisted", "ok", "denied", "failed"}]]

\* While no Put is under way the settings in memory are the ones the
\* database holds (config.go:146: "Safe for concurrent use", config.go:193:
\* "Put validates, persists and hot-swaps the settings").
MemoryIsDisk ==
  (\A i \in Calls : call[i].at # "persisted") => cur = db["settings"]
=============================================================================
