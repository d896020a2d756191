-------------------------------- MODULE Gate --------------------------------
(***************************************************************************)
(* The gate in front of the app: AuthGate (main.tsx), the login screen     *)
(* (Login.tsx), the handlers of internal/api/auth.go they talk to, and the *)
(* 401 handler of api.ts that every reply goes through.                    *)
(*                                                                         *)
(* The server is in one of three modes: "open" (neither a UI password nor  *)
(* an API token), "password" and "token" (an API token only).  A session   *)
(* is a cookie the browser holds and the server still accepts.  The UI     *)
(* password is fixed for the life of the process, the token is a setting.  *)
(***************************************************************************)
EXTENDS Naturals

CONSTANT Modes        \* of {"open", "password", "token"}

VARIABLES mode,       \* how the server is configured
          session,    \* the browser holds a cookie the server accepts
          phase,      \* AuthGate: "loading", "login" or "ready"
          enabled,    \* AuthGate: a UI password is configured
          status,     \* the request of resolve()
          typed,      \* Login: the password field is not empty
          login,      \* Login: its request; busy is login # "idle"
          logout,     \* a request of the logout button is under way
          poll        \* a request of App for the disk or for the list

gatevars == <<mode, session, phase, enabled, status, typed, login, logout, poll>>

busy == login # "idle"

\* requestAuthorized, of what the browser sends: its cookie, never the token.
Allowed == mode = "open" \/ session

GateInit ==
  /\ mode \in Modes
  /\ session \in (IF mode = "password" THEN BOOLEAN ELSE {FALSE})
  /\ phase = "loading" /\ enabled = FALSE
  /\ status = "sent"
  /\ typed = FALSE /\ login = "idle" /\ logout = FALSE
  /\ poll = "none"

\* handleAuthStatus: what it answers at this moment.
StatusServed ==
  /\ status = "sent"
  /\ status' = IF mode = "password" /\ ~session THEN "login" ELSE "ready"
  /\ UNCHANGED <<mode, session, phase, enabled, typed, login, logout, poll>>

\* Mutant of Resolved: the phase is set before the answer is there.
ResolvedEarly ==
  /\ status # "done"
  /\ enabled' = (mode = "password")
  /\ phase' = status
  /\ status' = "done"
  /\ UNCHANGED <<mode, session, typed, login, logout, poll>>

\* resolve(): the answer arrives ...
Resolved ==
  /\ status \in {"login", "ready"}
  /\ enabled' = (mode = "password")
  /\ phase' = status
  /\ status' = "done"
  /\ UNCHANGED <<mode, session, typed, login, logout, poll>>

\* ... or the request fails, and the app is shown.
ResolveFails ==
  /\ status # "done"
  /\ phase' = "ready"
  /\ status' = "done"
  /\ UNCHANGED <<mode, session, enabled, typed, login, logout, poll>>

\* Login: the user types, and submits.
Type ==
  /\ phase = "login" /\ ~typed
  /\ typed' = TRUE
  /\ UNCHANGED <<mode, session, phase, enabled, status, login, logout, poll>>

Submit ==
  /\ phase = "login"
  /\ ~busy /\ typed
  /\ login' = "sent"
  /\ UNCHANGED <<mode, session, phase, enabled, status, typed, logout, poll>>

\* handleLogin: the password is right, or it is wrong, or the client is
\* locked out, or no password is configured, or the connection fails.
LoginServed ==
  /\ login = "sent"
  /\ login' \in (IF mode = "password" THEN {"ok", "refused"} ELSE {"refused"})
  /\ UNCHANGED <<mode, session, phase, enabled, status, typed, logout, poll>>

\* Mutant of LoggedIn: the cookie is not kept.
LoggedInCookieless ==
  /\ login = "ok"
  /\ phase' = "ready"
  /\ login' = "idle" /\ typed' = FALSE
  /\ UNCHANGED <<mode, session, enabled, status, logout, poll>>

\* The cookie arrives with the reply; onSuccess.
LoggedIn ==
  /\ login = "ok"
  /\ session' = TRUE
  /\ phase' = "ready"
  /\ login' = "idle" /\ typed' = FALSE
  /\ UNCHANGED <<mode, enabled, status, logout, poll>>

LoginRefused ==
  /\ login = "refused"
  /\ login' = "idle" /\ typed' = FALSE
  /\ UNCHANGED <<mode, session, phase, enabled, status, logout, poll>>

\* App's logout button, shown when a password is configured.
Logout ==
  /\ phase = "ready" /\ enabled
  /\ ~logout
  /\ logout' = TRUE
  /\ UNCHANGED <<mode, session, phase, enabled, status, typed, login, poll>>

\* The reply expires the cookie; a failure is swallowed.  Both end at the
\* login screen, where a login may have succeeded meanwhile.
LoggedOut ==
  /\ logout
  /\ logout' = FALSE
  /\ session' \in {FALSE, session}
  /\ phase' = "login"
  /\ UNCHANGED <<mode, enabled, status, typed, login, poll>>

\* App's interval of 15 seconds.
Poll ==
  /\ phase = "ready" /\ poll = "none"
  /\ poll' = IF Allowed THEN "good" ELSE "bad"
  /\ UNCHANGED <<mode, session, phase, enabled, status, typed, login, logout>>

\* It is answered, or lost.
PollEnds ==
  /\ poll # "none"
  /\ poll' = "none"
  /\ UNCHANGED <<mode, session, phase, enabled, status, typed, login, logout>>

\* j() meets a 401: onUnauthorized, whichever App had sent the request.
Unauthorized == phase' = "login"

\* Mutant of PollDenied: the 401 is swallowed with the other failures.
PollDeniedQuietly ==
  /\ poll = "bad"
  /\ poll' = "none"
  /\ UNCHANGED <<mode, session, phase, enabled, status, typed, login, logout>>

PollDenied ==
  /\ poll = "bad"
  /\ poll' = "none"
  /\ Unauthorized
  /\ UNCHANGED <<mode, session, enabled, status, typed, login, logout>>

\* The server stops accepting the cookie: its lifetime is over, or the
\* server was restarted and signs with another secret.
Forget ==
  /\ session' = FALSE
  /\ poll' \in IF poll = "good" /\ mode # "open" THEN {"good", "bad"} ELSE {poll}
  /\ UNCHANGED <<mode, phase, enabled, status, typed, login, logout>>

\* putSettings of another client sets the API token, or clears it: a server
\* without a UI password asks for credentials from then on, or for none.  A
\* poll under way is let in before or after.
SwapToken ==
  /\ mode # "password"
  /\ mode' \in Modes \ {mode, "password"}
  /\ poll' \in IF poll = "none" THEN {"none"}
             ELSE {poll, IF mode' = "open" THEN "good" ELSE "bad"}
  /\ UNCHANGED <<session, phase, enabled, status, typed, login, logout>>

GateTypeOK ==
  /\ mode \in Modes /\ session \in BOOLEAN
  /\ phase \in {"loading", "login", "ready"} /\ enabled \in BOOLEAN
  /\ status \in {"sent", "login", "ready", "done"}
  /\ typed \in BOOLEAN /\ login \in {"idle", "sent", "ok", "refused"}
  /\ logout \in BOOLEAN /\ poll \in {"none", "good", "bad"}
=============================================================================
