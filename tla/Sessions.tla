-------------------------------- MODULE Sessions --------------------------------
(***************************************************************************)
(* How one person signs in, out and off (services/sessions.py, oidc.py,    *)
(* access.py identity, cli.py disable-user).  A login is three             *)
(* transactions with a call of the identity provider between the first two *)
(* and a crash possible anywhere; the browser may send the callback twice, *)
(* from two tabs.  A request is authenticated in one transaction and       *)
(* carried out in another, and meanwhile the person signs out elsewhere or *)
(* an operator disables him.                                               *)
(*                                                                         *)
(* The person has several identities, one of each client.  Secrets (state, *)
(* cookies, PKCE, CSRF) are right or the request is refused, which changes *)
(* nothing.  Requests, logins and sessions are used once.                  *)
(***************************************************************************)
EXTENDS Integers

CONSTANTS
  Identities,   \* user_identities of the person
  Flows,        \* rows of login_flows
  Callbacks,    \* callbacks the browser sends
  Tokens,       \* rows of web_sessions
  Requests,
  None

SessionRecord ==
  [identity : Identities, revoked : BOOLEAN, expired : BOOLEAN, made : Nat]

ASSUME NoneAssumption == None \notin Tokens /\ None \notin SessionRecord

VARIABLES
  active,       \* users.active
  flow,         \* login_flows: whether the row is not there yet, there or gone
  login,        \* what each callback has done
  session,      \* web_sessions
  request,      \* what each request has done
  signOuts,     \* history: how often the person signed out
  exchanged     \* history: how often the provider was asked, for each flow

vars == <<active, flow, login, session, request, signOuts, exchanged>>

-------------------------------------------------------------------------------
(* Rows *)

\* made: history, how often the person had signed out when the login was finished.
Session(identity, made) ==
  [identity |-> identity, revoked |-> FALSE, expired |-> FALSE, made |-> made]

Revoked(row) == [row EXCEPT !.revoked = TRUE]

Rows == {t \in Tokens : session[t] # None}

\* Mutant: only sessions of the identity the request came with.
OwnSessions(t) == {s \in Rows : session[s].identity = session[t].identity}

\* All sessions of the person, whichever identity opened them.
AllSessions(t) == Rows

\* A request as it arrives, with a session cookie or, over MCP, with a bearer token (None).
Arrived(t) == [step |-> "arrived", token |-> t, signOuts |-> signOuts, active |-> active]

Waiting(c, step, f, i, t) ==
  [login EXCEPT ![c] = [step |-> step, flow |-> f, identity |-> i, previous |-> t]]

-------------------------------------------------------------------------------
(* Login *)

BeginLogin(f) ==
  /\ flow[f] = "none"
  /\ flow' = [flow EXCEPT ![f] = "open"]
  /\ UNCHANGED <<active, login, session, request, signOuts, exchanged>>

\* expires_at passes.
FlowExpires(f) ==
  /\ flow[f] = "open"
  /\ flow' = [flow EXCEPT ![f] = "gone"]
  /\ UNCHANGED <<active, login, session, request, signOuts, exchanged>>

\* Mutant: the row stays until the session is made.
ConsumeLater(c, f, t) ==
  /\ login[c] = None
  /\ flow[f] = "open"
  /\ login' = Waiting(c, "exchange", f, None, t)
  /\ UNCHANGED <<active, flow, session, request, signOuts, exchanged>>

\* The row is locked and deleted before the provider is asked.
Consume(c, f, t) ==
  /\ login[c] = None
  /\ flow[f] = "open"
  /\ flow' = [flow EXCEPT ![f] = "gone"]
  /\ login' = Waiting(c, "exchange", f, None, t)
  /\ UNCHANGED <<active, session, request, signOuts, exchanged>>

\* exchange, and whether it answers is another matter.
Exchange(c, i) ==
  /\ login[c] # None /\ login[c].step = "exchange"
  /\ exchanged' = [exchanged EXCEPT ![login[c].flow] = @ + 1]
  /\ \E step \in {"identity", "failed"} :
       login' = Waiting(c, step, login[c].flow, i, login[c].previous)
  /\ UNCHANGED <<active, flow, session, request, signOuts>>

\* AccessService.identity
Enrolled(c) ==
  /\ login[c] # None /\ login[c].step = "identity"
  /\ login' = Waiting(c, IF active THEN "session" ELSE "failed",
                      login[c].flow, login[c].identity, login[c].previous)
  /\ UNCHANGED <<active, flow, session, request, signOuts, exchanged>>

\* The cookie's last session is revoked as the new one is made.
AddSession(c, t) ==
  /\ login[c] # None /\ login[c].step = "session"
  /\ session[t] = None
  /\ session' = [s \in Tokens |->
       IF s = t THEN Session(login[c].identity, signOuts)
       ELSE IF s = login[c].previous THEN Revoked(session[s]) ELSE session[s]]
  /\ login' = Waiting(c, "done", login[c].flow, login[c].identity, login[c].previous)
  /\ UNCHANGED <<active, flow, request, signOuts, exchanged>>

Crash(c) ==
  /\ login[c] # None /\ login[c].step \in {"exchange", "identity", "session"}
  /\ login' = Waiting(c, "failed", login[c].flow, login[c].identity, login[c].previous)
  /\ UNCHANGED <<active, flow, session, request, signOuts, exchanged>>

-------------------------------------------------------------------------------
(* Requests *)

Arrive(r, t) ==
  /\ request[r] = None
  /\ request' = [request EXCEPT ![r] = Arrived(t)]
  /\ UNCHANGED <<active, flow, login, session, signOuts, exchanged>>

\* Mutant: to be disabled ends the sessions one has, and that is enough.
AliveRow(t) == t = None \/ (~session[t].revoked /\ ~session[t].expired)

\* authenticate: the row is in force and the person is; a bearer token is good as long as
\* the provider says so, and its identity is looked up.
Alive(t) == AliveRow(t) /\ active

Moved(r, step) == [request EXCEPT ![r].step = step]

Authenticate(r) ==
  /\ request[r] # None /\ request[r].step = "arrived"
  /\ request' = Moved(r, IF Alive(request[r].token) THEN "authenticated" ELSE "refused")
  /\ UNCHANGED <<active, flow, login, session, signOuts, exchanged>>

\* authorized reads user and identity again, not the session.
CarryOut(r) ==
  /\ request[r] # None /\ request[r].step = "authenticated"
  /\ request' = Moved(r, IF active THEN "carried_out" ELSE "refused")
  /\ UNCHANGED <<active, flow, login, session, signOuts, exchanged>>

Logout(r) ==
  /\ request[r] # None /\ request[r].step = "authenticated"
  /\ request[r].token # None
  /\ session' = [s \in Tokens |->
       IF s \in AllSessions(request[r].token) THEN Revoked(session[s]) ELSE session[s]]
  /\ request' = Moved(r, "carried_out")
  /\ signOuts' = signOuts + 1
  /\ UNCHANGED <<active, flow, login, exchanged>>

-------------------------------------------------------------------------------
(* The operator, and time *)

DisableUser ==
  /\ active' = FALSE
  /\ session' = [s \in Tokens |-> IF s \in Rows THEN Revoked(session[s]) ELSE None]
  /\ UNCHANGED <<flow, login, request, signOuts, exchanged>>

\* expires_at, or last_seen_at and the idle limit, pass.
SessionExpires(t) ==
  /\ session[t] # None
  /\ session' = [session EXCEPT ![t].expired = TRUE]
  /\ UNCHANGED <<active, flow, login, request, signOuts, exchanged>>

-------------------------------------------------------------------------------
Init ==
  /\ active = TRUE
  /\ flow = [f \in Flows |-> "none"]
  /\ login = [c \in Callbacks |-> None]
  /\ session = [t \in Tokens |-> None]
  /\ request = [r \in Requests |-> None]
  /\ signOuts = 0
  /\ exchanged = [f \in Flows |-> 0]

Next ==
  \/ \E f \in Flows :
       \/ BeginLogin(f)
       \/ FlowExpires(f)
       \/ \E c \in Callbacks, t \in Rows \cup {None} : Consume(c, f, t)
  \/ \E c \in Callbacks :
       \/ \E i \in Identities : Exchange(c, i)
       \/ Enrolled(c)
       \/ \E t \in Tokens : AddSession(c, t)
       \/ Crash(c)
  \/ \E r \in Requests :
       \/ \E t \in Rows \cup {None} : Arrive(r, t)
       \/ Authenticate(r)
       \/ CarryOut(r)
       \/ Logout(r)
  \/ DisableUser
  \/ \E t \in Tokens : SessionExpires(t)

Spec == Init /\ [][Next]_vars

-------------------------------------------------------------------------------
(* Properties *)

LoginRecord ==
  [step : {"exchange", "identity", "session", "done", "failed"}, flow : Flows,
   identity : Identities \cup {None}, previous : Tokens \cup {None}]

RequestRecord ==
  [step : {"arrived", "authenticated", "refused", "carried_out"},
   token : Tokens \cup {None}, signOuts : Nat, active : BOOLEAN]

TypeOK ==
  /\ active \in BOOLEAN
  /\ flow \in [Flows -> {"none", "open", "gone"}]
  /\ login \in [Callbacks -> {None} \cup LoginRecord]
  /\ session \in [Tokens -> {None} \cup SessionRecord]
  /\ request \in [Requests -> {None} \cup RequestRecord]
  /\ signOuts \in Nat
  /\ exchanged \in [Flows -> Nat]

\* The code of a login is redeemed at most once, also when two tabs bring it, the provider
\* fails or the process dies in between ("Consume the state before I/O, including failed
\* token exchange; no replay on retry").
RedeemedOnce == \A f \in Flows : exchanged[f] <= 1

\* Who has signed out on any of his local identities is out of the web sessions of all of
\* them: a web request that arrives afterwards is authenticated only on a session made
\* afterwards.  A bearer token, of an MCP request, is no local session and stays good; so does
\* a login under way, whose session is a new one.  And who has been disabled stays out, by
\* session or token, with a login that was under way too.  What was authenticated before a
\* sign-out may still be carried out after it (logout, authenticate, disable-user).
OutIsOut ==
  \A r \in Requests :
    request[r] # None /\ request[r].step \in {"authenticated", "carried_out"} =>
      /\ request[r].active
      /\ request[r].token # None => session[request[r].token].made >= request[r].signOuts
=============================================================================
