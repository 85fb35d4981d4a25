------------------------------ MODULE Sessions ------------------------------
(***************************************************************************)
(* Requests of several browsers over the shared session store of the       *)
(* server.  A request carries its own copy of the session between the      *)
(* awaits of its handler: user_session_middleware loads it, the handlers    *)
(* of routes/login.rs change it, and the session layer writes the whole     *)
(* record back (or not) once the handler has answered.  A step of the       *)
(* model is what the server does between two awaits.                        *)
(*                                                                         *)
(* Abstractions.  Session ids and CSRF tokens are random (i128, UUID v4):   *)
(* the id that request r creates is r, and so is the token it generates.    *)
(* is_logged_in, user_id, username and external_user_id are assigned        *)
(* together, hence one field, user; peer_ip and client_ip are left out.     *)
(* visit_count is a u64 whose saturation no bounded run can reach.          *)
(***************************************************************************)
EXTENDS Naturals, FiniteSets

CONSTANTS
  Clients,      \* browsers; tabs of a browser share its cookie jar
  Users,        \* people who can present credentials
  Registered,   \* those with an account row and a username at the start
  NoUser,       \* the user of a session that is not logged in
  Kinds,        \* the kinds of request the browsers send
  Faults,       \* what the environment does besides answering
  MaxRequests,  \* bound: requests sent in a behavior
  PerClient     \* bound: requests a browser has in flight at once

AllKinds   == {"whoami", "page", "password", "forward", "oidc", "logout"}
LoginKinds == {"password", "forward", "oidc"}
PostKinds  == {"password", "forward", "logout"}   \* is_state_changing
AllFaults  == {"db_error", "disconnect", "expiry", "operator"}

ASSUME ConstantsOK ==
  /\ Clients # {}
  /\ Registered \subseteq Users
  /\ NoUser \notin Users
  /\ Kinds \subseteq AllKinds
  /\ \A k, l \in Kinds \cap LoginKinds : k = l   \* one AuthenticationMethod
  /\ Faults \subseteq AllFaults
  /\ MaxRequests \in Nat
  /\ PerClient \in Nat

Requests   == 1 .. MaxRequests
Sids       == Requests
Tokens     == Requests
NoSid      == 0
NoToken    == 0

VARIABLES
  store,     \* the tower_sessions table: [Sids -> row]
  account,   \* the [user] table: [Users -> status of the row, or "absent"]
  cookie,    \* each browser's session cookie
  tokens,    \* the CSRF tokens each browser has been shown
  pc,        \* where each request stands
  req,       \* what the request line, headers and body carry
  sess,      \* the Session handle of the request and its in-memory record
  found,     \* the status in the user row the handler has read
  verified,  \* what verify_password answered
  status,    \* the HTTP status of the answer (0: none yet)
  reply      \* what the answer does to the cookie

vars == <<store, account, cookie, tokens,
          pc, req, sess, found, verified, status, reply>>

PCs == {"unsent", "sent", "handler", "create", "verify",
        "respond", "reply", "done"}
RowStates   == {"active", "disabled", "absent"}
UserSession == [user : Users \cup {NoUser}, visits : Nat,
                csrf : Tokens \cup {NoToken}]
Row     == [state : {"absent", "live", "expired"}, data : UserSession]
Session == [sid : Sids \cup {NoSid}, data : UserSession, modified : BOOLEAN]
Request == {q \in [client : Clients, kind : AllKinds, cookie : Sids \cup {NoSid},
                   token : Tokens \cup {NoToken}, who : Users \cup {NoUser}] :
              q.kind \in LoginKinds => q.who \in Users}

\* UserSession::default(), and the record without the key: every record the
\* middleware has written holds a token.
EmptyData == [user |-> NoUser, visits |-> 0, csrf |-> NoToken]
NoRow     == [state |-> "absent", data |-> EmptyData]
Closed    == [sid |-> NoSid, data |-> EmptyData, modified |-> FALSE]
NoRequest == [client |-> CHOOSE c \in Clients : TRUE, kind |-> "whoami",
              cookie |-> NoSid, token |-> NoToken, who |-> NoUser]

TypeOK ==
  /\ store \in [Sids -> Row]
  /\ account \in [Users -> RowStates]
  /\ cookie \in [Clients -> Sids \cup {NoSid}]
  /\ tokens \in [Clients -> SUBSET Tokens]
  /\ pc \in [Requests -> PCs]
  /\ req \in [Requests -> Request]
  /\ sess \in [Requests -> Session]
  /\ found \in [Requests -> RowStates \cup {"unread"}]
  /\ verified \in [Requests -> BOOLEAN]
  /\ status \in [Requests -> {0, 200, 401, 403, 500}]
  /\ reply \in [Requests -> {"none", "set", "clear"}]

InFlight(c) == {r \in Requests : req[r].client = c /\ pc[r] \notin {"unsent", "done"}}

-----------------------------------------------------------------------------
Init ==
  /\ store = [s \in Sids |-> NoRow]
  /\ account = [u \in Users |-> IF u \in Registered THEN "active" ELSE "absent"]
  /\ cookie = [c \in Clients |-> NoSid]
  /\ tokens = [c \in Clients |-> {}]
  /\ pc = [r \in Requests |-> "unsent"]
  /\ req = [r \in Requests |-> NoRequest]
  /\ sess = [r \in Requests |-> Closed]
  /\ found = [r \in Requests |-> "unread"]
  /\ verified = [r \in Requests |-> FALSE]
  /\ status = [r \in Requests |-> 0]
  /\ reply = [r \in Requests |-> "none"]

\* A browser sends its next request with the cookie it has now.  A page may
\* have kept any token the browser was ever shown, or none.
Send(r, c, kind, who, token) ==
  /\ pc[r] = "unsent"
  /\ \A q \in Requests : q < r => pc[q] # "unsent"
  /\ Cardinality(InFlight(c)) < PerClient
  /\ pc' = [pc EXCEPT ![r] = "sent"]
  /\ req' = [req EXCEPT ![r] = [client |-> c, kind |-> kind, cookie |-> cookie[c],
                                token |-> token, who |-> who]]
  /\ UNCHANGED <<store, account, cookie, tokens, sess, found, verified, status, reply>>

SendSome(r, c, kind) ==
  \E who \in IF kind \in LoginKinds THEN Users ELSE {NoUser} :
    \E token \in IF kind \in PostKinds THEN tokens[c] \cup {NoToken} ELSE {NoToken} :
      Send(r, c, kind, who, token)

-----------------------------------------------------------------------------
(* The way in: session layer, user_session_middleware, csrf_middleware.    *)

\* Mutant: the id of a row that is gone or expired is kept.
LoadRecord_KeepsId(s) ==
  IF s = NoSid THEN Closed
  ELSE [sid |-> s, modified |-> FALSE,
        data |-> IF store[s].state = "live" THEN store[s].data ELSE EmptyData]

\* Session::get_record: the row of the cookie if it has not expired; otherwise
\* a new record, and the id of the cookie is forgotten.
LoadRecord(s) ==
  IF s # NoSid /\ store[s].state = "live"
  THEN [sid |-> s, data |-> store[s].data, modified |-> FALSE]
  ELSE Closed

\* Mutants: a new token on every request; the middleware in two layers; the
\* stored value replaced by the default; a counter that runs backwards.
Refresh_NewToken(data, r)    == [data EXCEPT !.csrf = r, !.visits = @ + 1]
Refresh_Twice(data, r)       ==
  [data EXCEPT !.csrf = IF @ = NoToken THEN r ELSE @, !.visits = @ + 2]
Refresh_FromDefault(data, r) ==
  [EmptyData EXCEPT !.csrf = IF data.csrf = NoToken THEN r ELSE data.csrf, !.visits = 1]
Refresh_Backwards(data, r)   ==
  [data EXCEPT !.csrf = IF @ = NoToken THEN r ELSE @, !.visits = @ - 1]

\* What user_session_middleware makes of the data it loaded for request r.
Refresh(data, r) ==
  [user |-> data.user, visits |-> data.visits + 1,
   csrf |-> IF data.csrf = NoToken THEN r ELSE data.csrf]

\* csrf_middleware lets request r through when its session data is d.
CsrfAccepts(r, d) ==
  req[r].kind \in PostKinds => d.csrf # NoToken /\ req[r].token = d.csrf

LoadSession(r) ==
  /\ pc[r] = "sent"
  /\ req[r].kind # "page"
  /\ LET loaded == LoadRecord(req[r].cookie)
         data   == Refresh(loaded.data, r)
         pass   == CsrfAccepts(r, data)
         more   == pass /\ req[r].kind # "whoami"
     IN /\ sess' = [sess EXCEPT ![r] = [loaded EXCEPT !.data = data, !.modified = TRUE]]
        /\ pc' = [pc EXCEPT ![r] = IF more THEN "handler" ELSE "respond"]
        /\ status' = [status EXCEPT ![r] = IF more THEN 0
                                           ELSE IF pass THEN 200 ELSE 401]
  /\ UNCHANGED <<store, account, cookie, tokens, req, found, verified, reply>>

\* The routes added after the middleware ("/", "/{*path}") read the session in
\* the extractor's fallback and change nothing.
LoadPage(r) ==
  /\ pc[r] = "sent"
  /\ req[r].kind = "page"
  /\ sess' = [sess EXCEPT ![r] = LoadRecord(req[r].cookie)]
  /\ pc' = [pc EXCEPT ![r] = "respond"]
  /\ status' = [status EXCEPT ![r] = 200]
  /\ UNCHANGED <<store, account, cookie, tokens, req, found, verified, reply>>

-----------------------------------------------------------------------------
(* Handlers.                                                               *)

Answer(r, code) ==
  /\ pc' = [pc EXCEPT ![r] = "respond"]
  /\ status' = [status EXCEPT ![r] = code]

\* Mutant: the status of the account is not looked at.
FinishLogin_AnyStatus(r, rowStatus) ==
  /\ sess' = [sess EXCEPT ![r] = [@ EXCEPT !.data.user = req[r].who, !.modified = TRUE]]
  /\ Answer(r, 200)

\* finish_login_for_user: no await separates it from the read before it.
FinishLogin(r, rowStatus) ==
  IF rowStatus = "active"
  THEN /\ sess' = [sess EXCEPT ![r] = [@ EXCEPT !.data.user = req[r].who, !.modified = TRUE]]
       /\ Answer(r, 200)
  ELSE /\ Answer(r, 403)
       /\ UNCHANGED sess

\* select_user_by_username and select_user_by_external_id: a row that the
\* forward-auth or OIDC login created has no username.
UserByUsername(u)   == IF u \in Registered THEN account[u] ELSE "absent"
UserByExternalId(u) == account[u]

\* username_password_login_handler, up to the end of its first query.
SelectByUsername(r) ==
  /\ pc[r] = "handler"
  /\ req[r].kind = "password"
  /\ LET row == UserByUsername(req[r].who)
     IN /\ found' = [found EXCEPT ![r] = row]
        /\ IF row = "absent"
           THEN Answer(r, 401)
           ELSE pc' = [pc EXCEPT ![r] = "verify"] /\ UNCHANGED status
  /\ UNCHANGED <<store, account, cookie, tokens, req, sess, verified, reply>>

\* verify_password, then the rest of username_password_login_handler on the
\* user row read earlier.  ok: the password matches the stored hash.
VerifyPassword(r, ok) ==
  /\ pc[r] = "verify"
  /\ verified' = [verified EXCEPT ![r] = ok]
  /\ IF ok THEN FinishLogin(r, found[r])
           ELSE Answer(r, 401) /\ UNCHANGED sess
  /\ UNCHANGED <<store, account, cookie, tokens, req, found, reply>>

\* forward_auth_login_handler and oidc_login_handler, up to the end of
\* select_user_by_external_id.
SelectByExternalId(r) ==
  /\ pc[r] = "handler"
  /\ req[r].kind \in {"forward", "oidc"}
  /\ LET row == UserByExternalId(req[r].who)
     IN /\ found' = [found EXCEPT ![r] = row]
        /\ IF row = "absent"
           THEN pc' = [pc EXCEPT ![r] = "create"] /\ UNCHANGED <<sess, status>>
           ELSE FinishLogin(r, row)
  /\ UNCHANGED <<store, account, cookie, tokens, req, verified, reply>>

\* insert_user, on the table as it is now: UNIQUE(external_id) refuses the row
\* when another request has created it since the select.
InsertUser(r) ==
  /\ pc[r] = "create"
  /\ IF account[req[r].who] = "absent"
     THEN /\ account' = [account EXCEPT ![req[r].who] = "active"]
          /\ found' = [found EXCEPT ![r] = "active"]
          /\ FinishLogin(r, "active")
     ELSE /\ Answer(r, 500)
          /\ UNCHANGED <<account, found, sess>>
  /\ UNCHANGED <<store, cookie, tokens, req, verified, reply>>

\* Mutant: Session::clear instead of flush.
Logout_Clear(r) ==
  /\ pc[r] = "handler"
  /\ req[r].kind = "logout"
  /\ sess' = [sess EXCEPT ![r] = [Closed EXCEPT !.modified = TRUE]]
  /\ Answer(r, 200)
  /\ UNCHANGED <<store, account, cookie, tokens, req, found, verified, reply>>

\* logout_handler: Session::flush clears the record, deletes the row and
\* forgets the id.  The changes the handler makes to its copy are dropped.
Logout(r) ==
  /\ pc[r] = "handler"
  /\ req[r].kind = "logout"
  /\ store' = [store EXCEPT ![sess[r].sid] = NoRow]
  /\ sess' = [sess EXCEPT ![r] = [Closed EXCEPT !.modified = TRUE]]
  /\ Answer(r, 200)
  /\ UNCHANGED <<account, cookie, tokens, req, found, verified, reply>>

\* A database call fails: at the load (the record stays unloaded), in a login,
\* or in the delete of a flush, which has cleared the record by then.
DbError(r) ==
  /\ "db_error" \in Faults
  /\ \/ /\ pc[r] = "sent" /\ req[r].cookie # NoSid
        /\ sess' = [sess EXCEPT ![r] = [Closed EXCEPT !.sid = req[r].cookie]]
     \/ /\ pc[r] = "handler" /\ req[r].kind = "logout"
        /\ sess' = [sess EXCEPT ![r] = [@ EXCEPT !.data = EmptyData, !.modified = TRUE]]
     \/ /\ \/ pc[r] = "handler" /\ req[r].kind # "logout"
           \/ pc[r] \in {"verify", "create"}
        /\ UNCHANGED sess
  /\ Answer(r, 500)
  /\ UNCHANGED <<store, account, cookie, tokens, req, found, verified, reply>>

-----------------------------------------------------------------------------
(* The way out: the session layer, then the browser.                       *)

IsEmpty(h) == h.sid = NoSid /\ h.data = EmptyData

\* The layer writes the record back unless it is unchanged, empty or the
\* answer is a server error.
Saves(r) == sess[r].modified /\ ~IsEmpty(sess[r]) /\ status[r] # 500

\* Mutant: an id that is not fresh.
SaveAs_NotFresh(r) == IF sess[r].sid = NoSid THEN 1 ELSE sess[r].sid

\* The id the record is saved under: a new one if the record has none.
SaveAs(r) == IF sess[r].sid = NoSid THEN r ELSE sess[r].sid

\* Session::save: a record without an id is created under a new one, any other
\* is upserted whole, whatever the row holds by now.
Save(r) ==
  /\ pc[r] = "respond"
  /\ Saves(r)
  /\ store' = [store EXCEPT ![SaveAs(r)] = [state |-> "live", data |-> sess[r].data]]
  /\ sess' = [sess EXCEPT ![r].sid = SaveAs(r)]
  /\ reply' = [reply EXCEPT ![r] = "set"]
  /\ pc' = [pc EXCEPT ![r] = "reply"]
  /\ UNCHANGED <<account, cookie, tokens, req, found, verified, status>>

\* The save fails: the layer answers 500 in place of the handler.
SaveError(r) ==
  /\ "db_error" \in Faults
  /\ pc[r] = "respond"
  /\ Saves(r)
  /\ pc' = [pc EXCEPT ![r] = "reply"]
  /\ status' = [status EXCEPT ![r] = 500]
  /\ UNCHANGED <<store, account, cookie, tokens, req, sess, found, verified, reply>>

\* Nothing to write.  A cookie that led to an empty session is removed.
Pass(r) ==
  /\ pc[r] = "respond"
  /\ ~Saves(r)
  /\ reply' = [reply EXCEPT ![r] =
                 IF req[r].cookie # NoSid /\ IsEmpty(sess[r]) THEN "clear" ELSE "none"]
  /\ pc' = [pc EXCEPT ![r] = "reply"]
  /\ UNCHANGED <<store, account, cookie, tokens, req, sess, found, verified, status>>

\* The request is over: what it held in memory is gone.
Close(r) ==
  /\ pc' = [pc EXCEPT ![r] = "done"]
  /\ sess' = [sess EXCEPT ![r] = [Closed EXCEPT !.sid = sess[r].sid]]
  /\ req' = [req EXCEPT ![r].token = NoToken]
  /\ reply' = [reply EXCEPT ![r] = "none"]

\* whoami and the pages show the CSRF token of the session they loaded.
Shown(r) ==
  IF req[r].kind \in {"whoami", "page"} /\ status[r] = 200
  THEN {sess[r].data.csrf} \ {NoToken} ELSE {}

\* The browser gets the answer: answers of concurrent requests in any order.
Deliver(r) ==
  /\ pc[r] = "reply"
  /\ LET c == req[r].client
     IN /\ cookie' = [cookie EXCEPT ![c] = IF reply[r] = "set" THEN sess[r].sid
                                           ELSE IF reply[r] = "clear" THEN NoSid
                                           ELSE @]
        /\ tokens' = [tokens EXCEPT ![c] = @ \cup Shown(r)]
  /\ Close(r)
  /\ UNCHANGED <<store, account, found, verified, status>>

\* The connection closes, or the server stops: the request is dropped at the
\* await it has reached, and its answer is lost.
Disconnect(r) ==
  /\ "disconnect" \in Faults
  /\ pc[r] \notin {"unsent", "done"}
  /\ Close(r)
  /\ UNCHANGED <<store, account, cookie, tokens, found, verified, status>>

-----------------------------------------------------------------------------
(* Time and the operator.                                                  *)

\* expiry_date passes without a request that would have renewed the row.
Expire(s) ==
  /\ "expiry" \in Faults
  /\ store[s].state = "live"
  /\ store' = [store EXCEPT ![s].state = "expired"]
  /\ UNCHANGED <<account, cookie, tokens, pc, req, sess, found, verified, status, reply>>

\* One round of continuously_delete_expired.
DeleteExpired ==
  /\ \E s \in Sids : store[s].state = "expired"
  /\ store' = [s \in Sids |-> IF store[s].state = "expired" THEN NoRow ELSE store[s]]
  /\ UNCHANGED <<account, cookie, tokens, pc, req, sess, found, verified, status, reply>>

\* The browser drops a cookie at its Max-Age.
CookieExpires(c) ==
  /\ "expiry" \in Faults
  /\ cookie[c] # NoSid
  /\ cookie' = [cookie EXCEPT ![c] = NoSid]
  /\ UNCHANGED <<store, account, tokens, pc, req, sess, found, verified, status, reply>>

\* The operator disables an account in the database.
Disable(u) ==
  /\ "operator" \in Faults
  /\ account[u] = "active"
  /\ account' = [account EXCEPT ![u] = "disabled"]
  /\ UNCHANGED <<store, cookie, tokens, pc, req, sess, found, verified, status, reply>>

-----------------------------------------------------------------------------
Handle(r) ==
  \/ SelectByUsername(r)
  \/ \E ok \in BOOLEAN : VerifyPassword(r, ok)
  \/ SelectByExternalId(r)
  \/ InsertUser(r)
  \/ Logout(r)
  \/ DbError(r)

ServerStep(r) ==
  \/ LoadSession(r) \/ LoadPage(r)
  \/ Handle(r)
  \/ Save(r) \/ SaveError(r) \/ Pass(r)

BrowserStep(r) ==
  \/ \E c \in Clients, kind \in Kinds : SendSome(r, c, kind)
  \/ Deliver(r)
  \/ Disconnect(r)

Environment ==
  \/ \E s \in Sids : Expire(s)
  \/ DeleteExpired
  \/ \E c \in Clients : CookieExpires(c)
  \/ \E u \in Users : Disable(u)

\* Every request of the bound has been sent and is over.
AllDone == (\A r \in Requests : pc[r] = "done") /\ UNCHANGED vars

Next ==
  \/ \E r \in Requests : ServerStep(r) \/ BrowserStep(r)
  \/ Environment
  \/ AllDone

Spec == Init /\ [][Next]_vars

-----------------------------------------------------------------------------
(* Properties.                                                             *)

Loaded(r)  == pc[r] \in {"handler", "verify", "create", "respond"}
Present(s) == store[s].state # "absent"

\* The in-memory record of request r is a copy of session s.
Carries(r, s) == Loaded(r) /\ sess[r].sid = s /\ sess[r].data # EmptyData

\* A session keeps the CSRF token it was created with: the row and every copy
\* a request still carries agree on it, through concurrent saves, logouts and
\* expiry, and no two sessions share one (user_session_middleware generates a
\* token only for a session without one).
CsrfAgreement ==
  /\ \A r \in Requests, s \in Sids :
       Carries(r, s) /\ Present(s) => sess[r].data.csrf = store[s].data.csrf
  /\ \A q, r \in Requests, s \in Sids :
       Carries(q, s) /\ Carries(r, s) => sess[q].data.csrf = sess[r].data.csrf
  /\ \A s, t \in Sids :
       Present(s) /\ Present(t) /\ store[s].data.csrf = store[t].data.csrf => s = t

\* Request r presented credentials for u that the handler checked.
LoggedIn(r, u) ==
  /\ req[r].kind \in LoginKinds
  /\ req[r].who = u
  /\ found[r] = "active"
  /\ req[r].kind = "password" => verified[r]

\* A stored session is logged in as u only because a request of the browser
\* the session was created for presented u's credentials on that very session,
\* and the user row it had read was active: no interleaving of loads and whole
\* record writes moves a login to another session or another browser.
LoginProvenance ==
  \A s \in Sids :
    Present(s) /\ store[s].data.user # NoUser =>
      \E r \in Requests : /\ LoggedIn(r, store[s].data.user)
                          /\ sess[r].sid = s
                          /\ req[r].client = req[s].client

\* Browsers never share a session.
OwnSession ==
  \A c \in Clients : cookie[c] # NoSid => req[cookie[c]].client = c

\* Why CsrfAgreement holds: the row of session s, and the record of a request
\* that will save under s, hold the token generated with s.  The exceptions are
\* the empty records that are never saved.
TokenOf(r) ==
  /\ pc[r] \in {"handler", "verify", "create"} =>
       status[r] = 0 /\ sess[r].data.csrf = SaveAs(r)
  /\ pc[r] = "respond" =>
       \/ sess[r].data.csrf = SaveAs(r)
       \/ sess[r].data = EmptyData /\ (sess[r].sid = NoSid \/ status[r] = 500)

TokenInv ==
  /\ \A s \in Sids : Present(s) => store[s].data.csrf = s
  /\ \A r \in Requests : TokenOf(r)

\* Why OwnSession holds: ids exist only once the request that creates them has
\* saved, and travel only between the server and that request's browser.
Known(s, c) == s # NoSid => pc[s] \in {"reply", "done"} /\ req[s].client = c

OwnerInv ==
  /\ \A c \in Clients : Known(cookie[c], c)
  /\ \A r \in Requests :
       /\ Known(req[r].cookie, req[r].client)
       /\ Known(sess[r].sid, req[r].client)
       /\ pc[r] = "unsent" => sess[r].sid = NoSid
  /\ \A s \in Sids : Present(s) => Known(s, req[s].client)

\* Why LoginProvenance holds: the user in a record in memory, too, was granted
\* on the session it was loaded from, or by the request itself.
Granted(r, u) == LoggedIn(r, u) /\ pc[r] \in {"respond", "reply", "done"}

GrantedOn(s, u, c) ==
  \E r \in Requests : Granted(r, u) /\ sess[r].sid = s /\ req[r].client = c

InItsHandler(q) ==
  /\ pc[q] = "verify" => req[q].kind = "password"
  /\ pc[q] = "create" => req[q].kind \in {"forward", "oidc"}

GrantInv ==
  /\ \A s \in Sids : Present(s) /\ store[s].data.user # NoUser =>
       GrantedOn(s, store[s].data.user, req[s].client)
  /\ \A q \in Requests : Loaded(q) /\ sess[q].data.user # NoUser =>
       \/ sess[q].sid = NoSid /\ Granted(q, sess[q].data.user)
       \/ /\ sess[q].sid # NoSid
          /\ GrantedOn(sess[q].sid, sess[q].data.user, req[q].client)
  /\ \A q \in Requests : InItsHandler(q)

\* Session s was created, its row is gone or expired, and no request that
\* could still save it is in flight.
Retired(s) ==
  /\ pc[s] \in {"reply", "done"}
  /\ store[s].state # "live"
  /\ \A r \in Requests : ~(Loaded(r) /\ sess[r].sid = s /\ status[r] # 500)

\* A retired session stays retired: after a logout or after expiry only a
\* request that had loaded the session before can bring it back, whatever
\* cookies the browsers still hold.
RetiredForGood == [][\A s \in Sids : Retired(s) => Retired(s)']_vars

\* Sessions that a logout answered 200 has flushed.
LoggedOut == {req[r].cookie : r \in {q \in Requests : req[q].kind = "logout"
                                                      /\ status[q] = 200}}

\* logout_handler: "Clears the session and returns 200 on success."  A flushed
\* session has no row.
LogoutClears == \A s \in LoggedOut : s # NoSid => ~Present(s)

\* finish_login_for_user: "On success, the user session is updated."  The row
\* of a session that is logged in stays so until it is deleted.
LoginSticks ==
  [][\A s \in Sids :
       store[s].data.user # NoUser /\ store'[s].state # "absent"
         => store'[s].data.user # NoUser]_vars

\* get_or_create_by_external_id: "Get an existing user by e-mail, or create one
\* if it doesn't exist".  Without a database error no external login is
\* answered 500.
ExternalLoginNeverFails ==
  "db_error" \notin Faults =>
    \A r \in Requests : req[r].kind \in {"forward", "oidc"} => status[r] # 500
=============================================================================
