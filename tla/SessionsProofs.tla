----------------------------- MODULE SessionsProofs -----------------------------
(* Proofs about Sessions: for any number of flows, callbacks, sessions and requests. *)
EXTENDS Sessions, TLAPS

-------------------------------------------------------------------------------
(* The inductive invariant *)

Has(c, step) == login[c] # None /\ login[c].step = step

\* A flow whose row is still there has met neither a callback nor the provider.
FlowsUnused ==
  \A f \in Flows : flow[f] # "gone" =>
    exchanged[f] = 0 /\ \A c \in Callbacks : login[c] # None => login[c].flow # f

\* A flow goes to one callback, which has not asked before it asks.
OneCallback ==
  \A c, d \in Callbacks :
    login[c] # None /\ login[d] # None /\ login[c].flow = login[d].flow => c = d

NotAsked == \A c \in Callbacks : Has(c, "exchange") => exchanged[login[c].flow] = 0

LoginsOK == FlowsUnused /\ OneCallback /\ NotAsked /\ RedeemedOnce

\* A session in force was made since the last sign-out.
SessionsFresh ==
  \A t \in Tokens : session[t] # None =>
    /\ session[t].made <= signOuts
    /\ session[t].revoked \/ session[t].made = signOuts

\* A request knows the sign-outs of its arrival, and who is active now was so then.
RequestsPast ==
  \A r \in Requests : request[r] # None =>
    /\ request[r].signOuts <= signOuts
    /\ active => request[r].active
    /\ request[r].token # None => session[request[r].token] # None

RequestsOK == SessionsFresh /\ RequestsPast /\ OutIsOut

\* A callback came with the cookie of a session, and the provider says who it is for.
LoginsPast ==
  \A c \in Callbacks : login[c] # None =>
    /\ login[c].previous # None => session[login[c].previous] # None
    /\ login[c].step \in {"identity", "session", "done"} => login[c].identity \in Identities

IInv == TypeOK /\ LoginsOK /\ RequestsOK /\ LoginsPast

-------------------------------------------------------------------------------
(* Logins: what is redeemed *)

\* A step of a callback that knows its flow keeps the flow, and asks nobody.
LEMMA MoveOnKeeps ==
  ASSUME TypeOK, LoginsOK, NEW c \in Callbacks, login[c] # None,
         NEW step \in {"identity", "session", "done", "failed"},
         NEW i \in Identities \cup {None},
         login' = Waiting(c, step, login[c].flow, i, login[c].previous),
         UNCHANGED <<flow, exchanged>>
  PROVE  LoginsOK' /\ login' \in [Callbacks -> {None} \cup LoginRecord]
  <1>1. login[c] \in LoginRecord
    BY DEF TypeOK
  <1>2. /\ login' \in [Callbacks -> {None} \cup LoginRecord]
        /\ login'[c].step = step /\ login'[c].flow = login[c].flow
        /\ \A d \in Callbacks : d # c => login'[d] = login[d]
    BY <1>1 DEF TypeOK, Waiting, LoginRecord
  <1>3. FlowsUnused'
    BY <1>1, <1>2 DEF LoginsOK, FlowsUnused
  <1>4. OneCallback'
    BY <1>1, <1>2 DEF LoginsOK, OneCallback
  <1>5. NotAsked'
    BY <1>1, <1>2 DEF LoginsOK, NotAsked, Has
  <1> QED
    BY <1>2, <1>3, <1>4, <1>5 DEF LoginsOK, RedeemedOnce

LEMMA ConsumeKeeps ==
  ASSUME TypeOK, LoginsOK, NEW c \in Callbacks, NEW f \in Flows,
         NEW t \in Rows \cup {None}, Consume(c, f, t)
  PROVE  TypeOK' /\ LoginsOK'
  <1>1. t \in Tokens \cup {None} /\ login[c] = None /\ flow[f] = "open"
    BY DEF Consume, Rows
  <1>2. /\ login' \in [Callbacks -> {None} \cup LoginRecord]
        /\ login'[c].step = "exchange" /\ login'[c].flow = f
        /\ \A d \in Callbacks : d # c => login'[d] = login[d]
    BY <1>1 DEF Consume, TypeOK, Waiting, LoginRecord
  <1>3. /\ flow' \in [Flows -> {"none", "open", "gone"}]
        /\ flow'[f] = "gone"
        /\ \A g \in Flows : g # f => flow'[g] = flow[g]
        /\ exchanged' = exchanged /\ exchanged[f] = 0
        /\ \A d \in Callbacks : login[d] # None => login[d].flow # f
    BY <1>1 DEF Consume, TypeOK, LoginsOK, FlowsUnused
  <1>4. TypeOK'
    BY <1>2, <1>3 DEF Consume, TypeOK
  <1>5. FlowsUnused'
    BY <1>2, <1>3 DEF LoginsOK, FlowsUnused
  <1>6. OneCallback'
    BY <1>1, <1>2, <1>3 DEF LoginsOK, OneCallback
  <1>7. NotAsked'
    BY <1>1, <1>2, <1>3 DEF LoginsOK, NotAsked, Has
  <1> QED
    BY <1>3, <1>4, <1>5, <1>6, <1>7 DEF LoginsOK, RedeemedOnce

LEMMA ExchangeKeeps ==
  ASSUME TypeOK, LoginsOK, NEW c \in Callbacks, NEW i \in Identities, Exchange(c, i)
  PROVE  TypeOK' /\ LoginsOK'
  <1> DEFINE f == login[c].flow
  <1>1. login[c] # None /\ login[c] \in LoginRecord /\ f \in Flows /\ exchanged[f] = 0
    BY DEF Exchange, TypeOK, LoginRecord, LoginsOK, NotAsked, Has
  <1>2. PICK step \in {"identity", "failed"} :
          login' = Waiting(c, step, f, i, login[c].previous)
    BY DEF Exchange
  <1>3. /\ login' \in [Callbacks -> {None} \cup LoginRecord]
        /\ login'[c].step = step /\ login'[c].flow = f
        /\ \A d \in Callbacks : d # c => login'[d] = login[d]
    BY <1>1, <1>2 DEF TypeOK, Waiting, LoginRecord
  <1>4. /\ exchanged' \in [Flows -> Nat] /\ exchanged'[f] = 1
        /\ \A g \in Flows : g # f => exchanged'[g] = exchanged[g]
        /\ flow' = flow /\ flow[f] = "gone"
    BY <1>1 DEF Exchange, TypeOK, LoginsOK, FlowsUnused
  <1>5. TypeOK'
    BY <1>3, <1>4 DEF Exchange, TypeOK
  <1>6. FlowsUnused'
    BY <1>1, <1>3, <1>4 DEF LoginsOK, FlowsUnused
  <1>7. OneCallback'
    BY <1>1, <1>3 DEF LoginsOK, OneCallback
  <1>8. NotAsked'
    <2> SUFFICES ASSUME NEW d \in Callbacks, Has(d, "exchange")'
                 PROVE  exchanged'[login'[d].flow] = 0
      BY DEF NotAsked
    <2>1. d # c
      BY <1>3 DEF Has
    <2>2. login'[d] = login[d] /\ login[d] # None /\ login[d].flow # f
      BY <1>1, <1>3, <2>1 DEF Has, LoginsOK, OneCallback
    <2>3. login[d].flow \in Flows
      BY <2>2 DEF TypeOK, LoginRecord
    <2> QED
      BY <1>4, <2>2, <2>3 DEF Has, LoginsOK, NotAsked
  <1>9. RedeemedOnce'
    BY <1>4 DEF LoginsOK, RedeemedOnce
  <1> QED
    BY <1>5, <1>6, <1>7, <1>8, <1>9 DEF LoginsOK

-------------------------------------------------------------------------------
(* Sessions and requests: who gets in *)

\* What matters of sessions: rows stay, and are revoked for good.
SessionsStay ==
  \A s \in Tokens : session[s] # None =>
    /\ session'[s] # None
    /\ session'[s].made = session[s].made
    /\ session[s].revoked => session'[s].revoked

LEMMA StayKeeps ==
  ASSUME TypeOK, RequestsOK, LoginsPast, SessionsStay,
         UNCHANGED <<login, request>>, signOuts' = signOuts, active' => active
  PROVE  RequestsPast' /\ OutIsOut' /\ LoginsPast'
  <1>1. \A r \in Requests : request[r] # None => request[r].token \in Tokens \cup {None}
    BY DEF TypeOK, RequestRecord
  <1>2. \A c \in Callbacks : login[c] # None => login[c].previous \in Tokens \cup {None}
    BY DEF TypeOK, LoginRecord
  <1>3. RequestsPast'
    BY <1>1 DEF SessionsStay, RequestsOK, RequestsPast
  <1>4. OutIsOut'
    BY <1>1 DEF SessionsStay, RequestsOK, RequestsPast, OutIsOut
  <1>5. LoginsPast'
    BY <1>2 DEF SessionsStay, LoginsPast
  <1> QED
    BY <1>3, <1>4, <1>5

LEMMA RevokedFacts ==
  ASSUME NEW row \in SessionRecord
  PROVE  /\ Revoked(row) \in SessionRecord
         /\ Revoked(row).made = row.made /\ Revoked(row).revoked
  BY DEF Revoked, SessionRecord

LEMMA RowFacts ==
  ASSUME TypeOK, NEW t \in Tokens
  PROVE  t \in Rows <=> session[t] \in SessionRecord
  BY NoneAssumption DEF TypeOK, Rows

\* Moving a callback on, with a session made or without.
LEMMA LoginsPastKeeps ==
  ASSUME TypeOK, LoginsPast, SessionsStay, NEW c \in Callbacks, login[c] # None,
         NEW step \in {"identity", "session", "done", "failed"},
         NEW i \in Identities \cup {None}, i \in Identities \/ step = "failed",
         login' = Waiting(c, step, login[c].flow, i, login[c].previous)
  PROVE  LoginsPast'
  <1>1. \A d \in Callbacks : login[d] # None => login[d].previous \in Tokens \cup {None}
    BY DEF TypeOK, LoginRecord
  <1>2. /\ login'[c].step = step /\ login'[c].identity = i
        /\ login'[c].previous = login[c].previous
        /\ \A d \in Callbacks : d # c => login'[d] = login[d]
    BY DEF TypeOK, Waiting
  <1> QED
    BY <1>1, <1>2 DEF SessionsStay, LoginsPast

LEMMA AddSessionKeeps ==
  ASSUME IInv, NEW c \in Callbacks, NEW t \in Tokens, AddSession(c, t)
  PROVE  IInv'
  <1> DEFINE p == login[c].previous
             New == Session(login[c].identity, signOuts)
  <1>1. /\ login[c] # None /\ login[c].step = "session" /\ session[t] = None
        /\ UNCHANGED <<active, flow, request, signOuts, exchanged>>
        /\ session' = [s \in Tokens |-> IF s = t THEN New
                                        ELSE IF s = p THEN Revoked(session[s]) ELSE session[s]]
        /\ login' = Waiting(c, "done", login[c].flow, login[c].identity, p)
    BY DEF AddSession
  <1>2. login[c].identity \in Identities
    BY <1>1 DEF IInv, LoginsPast
  <1>3. New \in SessionRecord /\ New.made = signOuts
    BY <1>2 DEF IInv, TypeOK, Session, SessionRecord
  <1>4. p # None => p \in Tokens /\ session[p] \in SessionRecord
    BY <1>1 DEF IInv, LoginsPast, TypeOK, LoginRecord
  <1> HIDE DEF New
  <1>5. ASSUME NEW s \in Tokens, s # t, s = p
        PROVE  /\ session[s] \in SessionRecord /\ session'[s] \in SessionRecord
               /\ session'[s].made = session[s].made /\ session'[s].revoked
    BY <1>1, <1>4, <1>5, RevokedFacts, NoneAssumption
  <1>6. ASSUME NEW s \in Tokens
        PROVE  /\ s = t => session'[s] = New
               /\ s # t /\ s # p => session'[s] = session[s]
    BY <1>1
  <1>7. session' \in [Tokens -> {None} \cup SessionRecord]
    <2>1. \A s \in Tokens : session'[s] \in {None} \cup SessionRecord
      BY <1>3, <1>5, <1>6 DEF IInv, TypeOK
    <2> QED
      BY <1>1, <2>1
  <1>8. SessionsStay
    BY <1>1, <1>5, <1>6, NoneAssumption DEF SessionsStay
  <1>9. SessionsFresh'
    <2> SUFFICES ASSUME NEW s \in Tokens, session'[s] # None
                 PROVE  /\ session'[s].made <= signOuts
                        /\ session'[s].revoked \/ session'[s].made = signOuts
      BY <1>1 DEF SessionsFresh
    <2>1. CASE s = t
      BY <1>3, <1>6, <2>1 DEF IInv, TypeOK
    <2>2. CASE s # t /\ s = p
      BY <1>5, <2>2, NoneAssumption DEF IInv, RequestsOK, SessionsFresh
    <2>3. CASE s # t /\ s # p
      BY <1>6, <2>3 DEF IInv, RequestsOK, SessionsFresh
    <2> QED
      BY <2>1, <2>2, <2>3
  <1>10. RequestsPast' /\ OutIsOut'
    <2>1. \A r \in Requests : request[r] # None => request[r].token \in Tokens \cup {None}
      BY DEF IInv, TypeOK, RequestRecord
    <2> QED
      BY <1>1, <1>8, <2>1 DEF SessionsStay, IInv, RequestsOK, RequestsPast, OutIsOut
  <1>11. LoginsPast'
    BY <1>1, <1>2, <1>8, LoginsPastKeeps DEF IInv
  <1>12. LoginsOK' /\ login' \in [Callbacks -> {None} \cup LoginRecord]
    BY <1>1, <1>2, MoveOnKeeps DEF IInv
  <1>13. TypeOK'
    BY <1>1, <1>7, <1>12 DEF IInv, TypeOK
  <1> QED
    BY <1>9, <1>10, <1>11, <1>12, <1>13 DEF IInv, RequestsOK

LEMMA LogoutKeeps ==
  ASSUME IInv, NEW r \in Requests, Logout(r)
  PROVE  IInv'
  <1>1. /\ request[r] # None /\ request[r].step = "authenticated"
        /\ UNCHANGED <<active, flow, login, exchanged>> /\ signOuts' = signOuts + 1
        /\ session' = [s \in Tokens |-> IF s \in Rows THEN Revoked(session[s]) ELSE session[s]]
        /\ request' = Moved(r, "carried_out")
    BY DEF Logout, AllSessions
  <1>2. /\ request' \in [Requests -> {None} \cup RequestRecord]
        /\ request'[r].step = "carried_out" /\ request'[r].token = request[r].token
        /\ request'[r].signOuts = request[r].signOuts
        /\ request'[r].active = request[r].active
        /\ \A q \in Requests : q # r => request'[q] = request[q]
    BY <1>1 DEF IInv, TypeOK, Moved, RequestRecord
  <1>3. ASSUME NEW s \in Tokens
        PROVE  /\ session[s] # None =>
                    /\ session'[s] \in SessionRecord
                    /\ session'[s].made = session[s].made /\ session'[s].revoked
               /\ session[s] = None => session'[s] = None
    BY <1>1, RevokedFacts, RowFacts DEF IInv, TypeOK, Rows
  <1>4. session' \in [Tokens -> {None} \cup SessionRecord]
    <2>1. \A s \in Tokens : session'[s] \in {None} \cup SessionRecord
      BY <1>3
    <2> QED
      BY <1>1, <2>1
  <1>5. TypeOK' /\ LoginsOK'
    BY <1>1, <1>2, <1>4 DEF IInv, TypeOK, LoginsOK, FlowsUnused, OneCallback, NotAsked, Has,
                            RedeemedOnce
  <1>6. SessionsFresh'
    <2>1. \A s \in Tokens : session[s] # None => session[s].made \in Nat
      BY DEF IInv, TypeOK, SessionRecord
    <2> QED
      BY <1>1, <1>3, <2>1 DEF IInv, RequestsOK, SessionsFresh, TypeOK
  <1>7. RequestsPast' /\ OutIsOut'
    <2>1. ASSUME NEW q \in Requests, request[q] # None
          PROVE  request[q].token \in Tokens \cup {None} /\ request[q].signOuts \in Nat
      BY <2>1 DEF IInv, TypeOK, RequestRecord
    <2>2. RequestsPast'
      BY <1>1, <1>2, <1>3, <2>1, NoneAssumption DEF IInv, RequestsOK, RequestsPast, TypeOK
    <2>3. OutIsOut'
      BY <1>1, <1>2, <1>3, <2>1 DEF IInv, RequestsOK, RequestsPast, OutIsOut
    <2> QED
      BY <2>2, <2>3
  <1>8. LoginsPast'
    <2>1. \A d \in Callbacks : login[d] # None => login[d].previous \in Tokens \cup {None}
      BY DEF IInv, TypeOK, LoginRecord
    <2> QED
      BY <1>1, <1>3, <2>1, NoneAssumption DEF IInv, LoginsPast
  <1> QED
    BY <1>5, <1>6, <1>7, <1>8 DEF IInv, RequestsOK

LEMMA DisableUserKeeps ==
  ASSUME IInv, DisableUser
  PROVE  IInv'
  <1>1. /\ active' = FALSE /\ UNCHANGED <<flow, login, request, signOuts, exchanged>>
        /\ session' = [s \in Tokens |-> IF s \in Rows THEN Revoked(session[s]) ELSE None]
    BY DEF DisableUser
  <1>2. ASSUME NEW s \in Tokens
        PROVE  /\ session[s] # None =>
                    /\ session'[s] \in SessionRecord
                    /\ session'[s].made = session[s].made /\ session'[s].revoked
               /\ session[s] = None => session'[s] = None
    BY <1>1, RevokedFacts, RowFacts DEF IInv, TypeOK, Rows
  <1>3. session' \in [Tokens -> {None} \cup SessionRecord]
    <2>1. \A s \in Tokens : session'[s] \in {None} \cup SessionRecord
      BY <1>2
    <2> QED
      BY <1>1, <2>1
  <1>4. TypeOK' /\ LoginsOK'
    BY <1>1, <1>3 DEF IInv, TypeOK, LoginsOK, FlowsUnused, OneCallback, NotAsked, Has,
                      RedeemedOnce
  <1>5. SessionsStay
    BY <1>2, NoneAssumption DEF SessionsStay
  <1>6. SessionsFresh'
    BY <1>1, <1>2 DEF IInv, RequestsOK, SessionsFresh
  <1>7. RequestsPast' /\ OutIsOut' /\ LoginsPast'
    BY <1>1, <1>5, StayKeeps DEF IInv
  <1> QED
    BY <1>4, <1>6, <1>7 DEF IInv, RequestsOK

LEMMA SessionExpiresKeeps ==
  ASSUME IInv, NEW t \in Tokens, SessionExpires(t)
  PROVE  IInv'
  <1>1. /\ UNCHANGED <<active, flow, login, request, signOuts, exchanged>>
        /\ session[t] \in SessionRecord
    BY DEF SessionExpires, IInv, TypeOK
  <1>2. /\ session' \in [Tokens -> {None} \cup SessionRecord]
        /\ session'[t] \in SessionRecord
        /\ session'[t].made = session[t].made /\ session'[t].revoked = session[t].revoked
        /\ \A s \in Tokens : s # t => session'[s] = session[s]
    BY <1>1 DEF SessionExpires, IInv, TypeOK, SessionRecord
  <1>3. TypeOK' /\ LoginsOK'
    BY <1>1, <1>2 DEF IInv, TypeOK, LoginsOK, FlowsUnused, OneCallback, NotAsked, Has,
                      RedeemedOnce
  <1>4. SessionsStay
    BY <1>2, NoneAssumption DEF SessionsStay
  <1>5. SessionsFresh'
    BY <1>1, <1>2, NoneAssumption DEF IInv, RequestsOK, SessionsFresh
  <1>6. RequestsPast' /\ OutIsOut' /\ LoginsPast'
    BY <1>1, <1>4, StayKeeps DEF IInv
  <1> QED
    BY <1>3, <1>5, <1>6 DEF IInv, RequestsOK

\* A request moves on, and what it was let in with is in force.
LEMMA RequestMovesKeeps ==
  ASSUME IInv, NEW r \in Requests, request[r] # None,
         NEW step \in {"authenticated", "carried_out", "refused"},
         step = "refused" \/ request[r].step = "authenticated" \/ Alive(request[r].token),
         request' = Moved(r, step),
         UNCHANGED <<active, flow, login, session, signOuts, exchanged>>
  PROVE  IInv'
  <1>1. request[r] \in RequestRecord
    BY DEF IInv, TypeOK
  <1>2. /\ request' \in [Requests -> {None} \cup RequestRecord]
        /\ request'[r].step = step /\ request'[r].token = request[r].token
        /\ request'[r].signOuts = request[r].signOuts
        /\ request'[r].active = request[r].active
        /\ \A q \in Requests : q # r => request'[q] = request[q]
    BY <1>1 DEF IInv, TypeOK, Moved, RequestRecord
  <1>3. TypeOK' /\ LoginsOK' /\ SessionsFresh' /\ LoginsPast'
    BY <1>2 DEF IInv, TypeOK, LoginsOK, FlowsUnused, OneCallback, NotAsked, Has,
                RedeemedOnce, RequestsOK, SessionsFresh, LoginsPast
  <1>4. RequestsPast'
    BY <1>2 DEF IInv, RequestsOK, RequestsPast
  <1>5. OutIsOut'
    <2>1. \A q \in Requests : q # r /\ request[q] # None => request[q] \in RequestRecord
      BY DEF IInv, TypeOK
    <2>2. ASSUME step # "refused"
          PROVE  /\ request[r].active
                 /\ request[r].token # None =>
                      session[request[r].token].made >= request[r].signOuts
      <3>1. CASE request[r].step = "authenticated"
        BY <3>1 DEF IInv, RequestsOK, OutIsOut
      <3>2. CASE Alive(request[r].token)
        <4>1. active /\ AliveRow(request[r].token)
          BY <3>2 DEF Alive
        <4>2. request[r].active
          BY <4>1 DEF IInv, RequestsOK, RequestsPast
        <4>3. request[r].token # None => session[request[r].token].made = signOuts
          BY <1>1, <4>1 DEF AliveRow, IInv, RequestsOK, RequestsPast, SessionsFresh, RequestRecord
        <4>4. request[r].signOuts <= signOuts /\ request[r].signOuts \in Nat /\ signOuts \in Nat
          BY <1>1 DEF IInv, RequestsOK, RequestsPast, RequestRecord, TypeOK
        <4> QED
          BY <4>2, <4>3, <4>4
      <3> QED
        BY <2>2, <3>1, <3>2
    <2>3. ASSUME NEW q \in Requests, request'[q] # None,
                 request'[q].step \in {"authenticated", "carried_out"}
          PROVE  /\ request'[q].active
                 /\ request'[q].token # None =>
                      session[request'[q].token].made >= request'[q].signOuts
      <3>1. CASE q = r
        BY <1>2, <2>2, <2>3, <3>1
      <3>2. CASE q # r
        BY <1>2, <2>3, <3>2 DEF IInv, RequestsOK, OutIsOut
      <3> QED
        BY <3>1, <3>2
    <2> QED
      BY <2>3 DEF OutIsOut
  <1> QED
    BY <1>3, <1>4, <1>5 DEF IInv, RequestsOK

LEMMA ArriveKeeps ==
  ASSUME IInv, NEW r \in Requests, NEW t \in Rows \cup {None}, Arrive(r, t)
  PROVE  IInv'
  <1>1. /\ UNCHANGED <<active, flow, login, session, signOuts, exchanged>>
        /\ request' = [request EXCEPT ![r] = Arrived(t)]
    BY DEF Arrive
  <1>2. /\ Arrived(t) \in RequestRecord
        /\ Arrived(t).step = "arrived" /\ Arrived(t).token = t
        /\ Arrived(t).signOuts = signOuts /\ Arrived(t).active = active
    BY DEF Arrived, RequestRecord, IInv, TypeOK, Rows
  <1>3. /\ request' \in [Requests -> {None} \cup RequestRecord]
        /\ request'[r] = Arrived(t)
        /\ \A q \in Requests : q # r => request'[q] = request[q]
    BY <1>1, <1>2 DEF IInv, TypeOK
  <1>4. TypeOK' /\ LoginsOK' /\ SessionsFresh' /\ LoginsPast'
    BY <1>1, <1>3 DEF IInv, TypeOK, LoginsOK, FlowsUnused, OneCallback, NotAsked, Has,
                      RedeemedOnce, RequestsOK, SessionsFresh, LoginsPast
  <1>5. RequestsPast'
    <2>1. t # None => session[t] # None
      BY DEF Rows
    <2> QED
      BY <1>1, <1>2, <1>3, <2>1 DEF IInv, RequestsOK, RequestsPast, TypeOK
  <1>6. OutIsOut'
    BY <1>1, <1>2, <1>3 DEF IInv, RequestsOK, OutIsOut
  <1> QED
    BY <1>4, <1>5, <1>6 DEF IInv, RequestsOK

\* A callback moves on and no session is made.
LEMMA MoveOnKeepsAll ==
  ASSUME IInv, NEW c \in Callbacks, login[c] # None,
         NEW step \in {"identity", "session", "done", "failed"},
         NEW i \in Identities \cup {None}, i \in Identities \/ step = "failed",
         login' = Waiting(c, step, login[c].flow, i, login[c].previous),
         UNCHANGED <<active, flow, session, request, signOuts, exchanged>>
  PROVE  IInv'
  <1>1. SessionsStay
    BY DEF SessionsStay
  <1>2. LoginsPast'
    BY <1>1, LoginsPastKeeps DEF IInv
  <1>3. LoginsOK' /\ login' \in [Callbacks -> {None} \cup LoginRecord]
    BY MoveOnKeeps DEF IInv
  <1>4. TypeOK' /\ RequestsOK'
    BY <1>3 DEF IInv, TypeOK, RequestsOK, SessionsFresh, RequestsPast, OutIsOut
  <1> QED
    BY <1>2, <1>3, <1>4 DEF IInv

-------------------------------------------------------------------------------
(* Theorems *)

LEMMA InitHolds == Init => IInv
  BY DEF Init, IInv, TypeOK, LoginsOK, FlowsUnused, OneCallback, NotAsked, Has, RedeemedOnce,
         RequestsOK, SessionsFresh, RequestsPast, OutIsOut, LoginsPast

LEMMA LoginStep ==
  ASSUME IInv,
         \/ \E f \in Flows :
              \/ BeginLogin(f)
              \/ FlowExpires(f)
              \/ \E c \in Callbacks, t \in Rows \cup {None} : Consume(c, f, t)
         \/ \E c \in Callbacks :
              \/ \E i \in Identities : Exchange(c, i)
              \/ Enrolled(c)
              \/ \E t \in Tokens : AddSession(c, t)
              \/ Crash(c)
  PROVE  IInv'
  <1>1. ASSUME NEW f \in Flows, BeginLogin(f) \/ FlowExpires(f) PROVE IInv'
    <2>1. /\ UNCHANGED <<active, login, session, request, signOuts, exchanged>>
          /\ \E state \in {"open", "gone"} : flow' = [flow EXCEPT ![f] = state]
          /\ flow[f] # "gone"
      BY <1>1 DEF BeginLogin, FlowExpires
    <2> QED
      BY <2>1 DEF IInv, TypeOK, LoginsOK, FlowsUnused, OneCallback, NotAsked, Has,
                  RedeemedOnce, RequestsOK, SessionsFresh, RequestsPast, OutIsOut, LoginsPast
  <1>2. ASSUME NEW f \in Flows, NEW c \in Callbacks, NEW t \in Rows \cup {None},
               Consume(c, f, t)
        PROVE  IInv'
    <2>1. TypeOK' /\ LoginsOK'
      BY <1>2, ConsumeKeeps DEF IInv
    <2>2. /\ UNCHANGED <<active, session, request, signOuts>>
          /\ login' = Waiting(c, "exchange", f, None, t)
      BY <1>2 DEF Consume
    <2>3. RequestsOK'
      BY <2>2 DEF IInv, RequestsOK, SessionsFresh, RequestsPast, OutIsOut
    <2>4. LoginsPast'
      BY <2>2 DEF IInv, TypeOK, LoginsPast, Waiting, Rows
    <2> QED
      BY <2>1, <2>3, <2>4 DEF IInv
  <1>3. ASSUME NEW c \in Callbacks, NEW i \in Identities, Exchange(c, i) PROVE IInv'
    <2>1. TypeOK' /\ LoginsOK'
      BY <1>3, ExchangeKeeps DEF IInv
    <2>2. /\ UNCHANGED <<active, session, request, signOuts>> /\ login[c] # None
          /\ \E step \in {"identity", "failed"} :
               login' = Waiting(c, step, login[c].flow, i, login[c].previous)
      BY <1>3 DEF Exchange
    <2>3. RequestsOK'
      BY <2>2 DEF IInv, RequestsOK, SessionsFresh, RequestsPast, OutIsOut
    <2>4. SessionsStay
      BY <2>2 DEF SessionsStay
    <2>5. LoginsPast'
      BY <2>2, <2>4, LoginsPastKeeps DEF IInv
    <2> QED
      BY <2>1, <2>3, <2>5 DEF IInv
  <1>4. ASSUME NEW c \in Callbacks, Enrolled(c) PROVE IInv'
    <2>1. login[c] # None /\ login[c].identity \in Identities
      BY <1>4 DEF Enrolled, IInv, LoginsPast
    <2> QED
      BY <1>4, <2>1, MoveOnKeepsAll DEF Enrolled
  <1>5. ASSUME NEW c \in Callbacks, Crash(c) PROVE IInv'
    <2>1. login[c] # None /\ login[c].identity \in Identities \cup {None}
      BY <1>5 DEF Crash, IInv, TypeOK, LoginRecord
    <2> QED
      BY <1>5, <2>1, MoveOnKeepsAll DEF Crash
  <1> QED
    BY <1>1, <1>2, <1>3, <1>4, <1>5, AddSessionKeeps

LEMMA RequestStep ==
  ASSUME IInv, NEW r \in Requests,
         \/ \E t \in Rows \cup {None} : Arrive(r, t)
         \/ Authenticate(r)
         \/ CarryOut(r)
         \/ Logout(r)
  PROVE  IInv'
  <1>1. CASE Authenticate(r)
    <2>1. /\ request[r] # None
          /\ UNCHANGED <<active, flow, login, session, signOuts, exchanged>>
          /\ \/ request' = Moved(r, "authenticated") /\ Alive(request[r].token)
             \/ request' = Moved(r, "refused")
      BY <1>1 DEF Authenticate
    <2> QED
      BY <2>1, RequestMovesKeeps
  <1>2. CASE CarryOut(r)
    <2>1. /\ request[r] # None /\ request[r].step = "authenticated"
          /\ UNCHANGED <<active, flow, login, session, signOuts, exchanged>>
          /\ \/ request' = Moved(r, "carried_out")
             \/ request' = Moved(r, "refused")
      BY <1>2 DEF CarryOut
    <2> QED
      BY <2>1, RequestMovesKeeps
  <1> QED
    BY <1>1, <1>2, ArriveKeeps, LogoutKeeps

LEMMA StepHolds == IInv /\ [Next]_vars => IInv'
  <1> SUFFICES ASSUME IInv, [Next]_vars PROVE IInv'
    OBVIOUS
  <1>1. CASE UNCHANGED vars
    BY <1>1 DEF vars, IInv, TypeOK, LoginsOK, FlowsUnused, OneCallback, NotAsked, Has,
                RedeemedOnce, RequestsOK, SessionsFresh, RequestsPast, OutIsOut, LoginsPast
  <1>2. CASE Next
    BY <1>2, LoginStep, RequestStep, DisableUserKeeps, SessionExpiresKeeps DEF Next
  <1> QED
    BY <1>1, <1>2

\* The inductive invariant: a flow has one callback, and what is in force was made since the
\* last sign-out.
THEOREM Invariant == Spec => []IInv
  BY InitHolds, StepHolds, PTL DEF Spec

\* All rows, callbacks and requests have their form.
THEOREM TypeCorrect == Spec => []TypeOK
  BY Invariant, PTL DEF IInv

\* However many tabs bring its callback, a login's code is redeemed at most once (_consume).
THEOREM CodeIsRedeemedOnce == Spec => []RedeemedOnce
  <1>1. IInv => RedeemedOnce
    BY DEF IInv, LoginsOK
  <1> QED
    BY <1>1, Invariant, PTL

\* A web request that arrives after a sign-out, through whichever identity that came, is
\* authenticated only on a session made after it; no request that arrives after its user was
\* disabled is, a login under way notwithstanding (logout, authenticate, disable-user).
THEOREM SignedOutIsOut == Spec => []OutIsOut
  <1>1. IInv => OutIsOut
    BY DEF IInv, RequestsOK
  <1> QED
    BY <1>1, Invariant, PTL
=============================================================================
