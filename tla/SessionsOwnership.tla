------------------------- MODULE SessionsOwnership -------------------------
(***************************************************************************)
(* Whose session is whose: theorems about Sessions that rest on where a    *)
(* session id can travel, for every value of the constants.                *)
(***************************************************************************)
EXTENDS SessionsProofs

USE DEF Requests, Sids, Tokens, NoSid, NoToken, UserByExternalId

-----------------------------------------------------------------------------
(* How ids move.                                                           *)

Settled(s) == pc[s] \in {"reply", "done"}

\* A request whose answer is decided stays so, and is its browser's for good.
LEMMA SettledStays ==
  ASSUME TypeOK, [Next]_vars, NEW s \in Requests, Settled(s)
  PROVE  Settled(s)' /\ req'[s].client = req[s].client
  <1> USE DEF Settled
  <1> HIDE DEF Requests
  <1>0. FunsOK
    BY Funs
  <1>1. CASE \E r \in Requests : ServerStep(r) \/ BrowserStep(r)
    <2> PICK r \in Requests : ServerStep(r) \/ BrowserStep(r)
      BY <1>1
    <2>1. CASE r # s
      BY <2>1, OthersUntouched DEF Untouched
    <2>2. CASE r = s
      <3>1. Deliver(s) \/ Disconnect(s)
        BY <2>2 DEF ServerStep, Handle, BrowserStep, SendSome, Send, LoadSession, LoadPage,
                    SelectByUsername, VerifyPassword, SelectByExternalId, InsertUser,
                    Logout, DbError, Save, SaveError, Pass
      <3>2. Close(s)
        BY <3>1 DEF Deliver, Disconnect
      <3>3. pc'[s] = "done"
        BY <1>0, <3>2 DEF Close, FunsOK
      <3>4. req[s] \in Request /\ req'[s] = [req[s] EXCEPT !.token = NoToken]
        BY <1>0, <3>2 DEF Close, FunsOK, TypeOK
      <3> QED
        BY <3>3, <3>4 DEF Request
    <2> QED
      BY <2>1, <2>2
  <1>2. CASE Environment \/ UNCHANGED vars
    BY <1>2 DEF Environment, Expire, DeleteExpired, CookieExpires, Disable, vars
  <1> QED
    BY <1>1, <1>2 DEF Next, AllDone

\* What Known says of an id stays true.
LEMMA KnownStays ==
  ASSUME TypeOK, [Next]_vars, NEW s \in Sids \cup {NoSid}, NEW c, Known(s, c)
  PROVE  s # NoSid => Settled(s)' /\ req'[s].client = c
BY SettledStays DEF Known, Settled

\* The id a request's record carries after one of its steps: the one it had,
\* the one of its cookie, none, or the new id that Save gives it.
LEMMA SidMoves ==
  ASSUME TypeOK, NEW r \in Requests, ServerStep(r) \/ BrowserStep(r)
  PROVE  \/ sess'[r].sid \in {sess[r].sid, req[r].cookie, NoSid}
         \/ Save(r) /\ sess'[r].sid = r
  <1> HIDE DEF Requests
  <1> USE DEF FunsOK
  <1>0. FunsOK /\ sess[r] \in Session
    BY Funs DEF TypeOK
  <1>1. CASE \E c \in Clients, kind \in Kinds : SendSome(r, c, kind)
    BY <1>1 DEF SendSome, Send
  <1>2. CASE LoadSession(r)
    <2>1. LoadRecord(req[r].cookie).sid \in {req[r].cookie, NoSid}
      BY DEF LoadRecord, Closed
    <2>2. LoadRecord(req[r].cookie) \in Session
      BY LoadRecordType DEF TypeOK, Request
    <2>3. sess'[r].sid = LoadRecord(req[r].cookie).sid
      BY <1>0, <1>2, <2>2 DEF LoadSession, Session
    <2> QED
      BY <2>1, <2>3
  <1>3. CASE LoadPage(r)
    <2>1. LoadRecord(req[r].cookie).sid \in {req[r].cookie, NoSid}
      BY DEF LoadRecord, Closed
    <2> QED
      BY <1>0, <1>3, <2>1 DEF LoadPage
  <1>4. CASE SelectByUsername(r)
    BY <1>4 DEF SelectByUsername
  <1>5. ASSUME NEW row, FinishLogin(r, row) PROVE sess'[r].sid = sess[r].sid
    BY <1>5, FinishLoginEffect
  <1>6. CASE \E ok \in BOOLEAN : VerifyPassword(r, ok)
    BY <1>5, <1>6 DEF VerifyPassword
  <1>7. CASE SelectByExternalId(r)
    BY <1>5, <1>7 DEF SelectByExternalId
  <1>8. CASE InsertUser(r)
    BY <1>5, <1>8 DEF InsertUser
  <1>9. CASE Logout(r)
    BY <1>0, <1>9 DEF Logout, Closed
  <1>10. CASE DbError(r)
    BY <1>0, <1>10 DEF DbError, Closed, Session
  <1>11. CASE Save(r)
    <2>1. sess'[r].sid = SaveAs(r)
      BY <1>0, <1>11 DEF Save, Session
    <2> QED
      BY <1>11, <2>1 DEF SaveAs
  <1>12. CASE SaveError(r) \/ Pass(r)
    BY <1>12 DEF SaveError, Pass
  <1>13. CASE Deliver(r) \/ Disconnect(r)
    BY <1>0, <1>13 DEF Deliver, Disconnect, Close, Closed
  <1> QED
    BY <1>1, <1>2, <1>3, <1>4, <1>6, <1>7, <1>8, <1>9, <1>10, <1>11, <1>12, <1>13
       DEF ServerStep, Handle, BrowserStep

\* Only Send gives a request a browser and a cookie.
LEMMA ReqKept ==
  ASSUME TypeOK, NEW r \in Requests, ServerStep(r) \/ Deliver(r) \/ Disconnect(r)
  PROVE  /\ req'[r].client = req[r].client
         /\ req'[r].cookie = req[r].cookie
         /\ req'[r].kind = req[r].kind
         /\ req'[r].who = req[r].who
         /\ pc[r] # "unsent" /\ pc'[r] # "unsent"
  <1> HIDE DEF Requests
  <1> USE DEF FunsOK
  <1>0. FunsOK /\ req[r] \in Request
    BY Funs DEF TypeOK
  <1>1. CASE ServerStep(r)
    <2>1. req' = req
      BY <1>1 DEF ServerStep, Handle, LoadSession, LoadPage, SelectByUsername,
                  VerifyPassword, SelectByExternalId, InsertUser, Logout, DbError,
                  Save, SaveError, Pass
    <2>2. pc[r] # "unsent"
      BY <1>1 DEF ServerStep, Handle, LoadSession, LoadPage, SelectByUsername,
                  VerifyPassword, SelectByExternalId, InsertUser, Logout, DbError,
                  Save, SaveError, Pass
    <2>3. pc'[r] # "unsent"
      <3>1. CASE LoadSession(r) \/ LoadPage(r)
        BY <1>0, <3>1 DEF LoadSession, LoadPage
      <3>2. CASE SelectByUsername(r)
        BY <1>0, <3>2 DEF SelectByUsername, Answer
      <3>3. ASSUME NEW row, FinishLogin(r, row) PROVE pc'[r] # "unsent"
        BY <3>3, FinishLoginEffect
      <3>4. ASSUME NEW code, Answer(r, code) PROVE pc'[r] # "unsent"
        BY <1>0, <3>4 DEF Answer
      <3>5. CASE \E ok \in BOOLEAN : VerifyPassword(r, ok)
        BY <3>3, <3>4, <3>5 DEF VerifyPassword
      <3>6. CASE SelectByExternalId(r)
        <4>1. CASE account[req[r].who] = "absent"
          BY <1>0, <3>6, <4>1 DEF SelectByExternalId
        <4>2. CASE account[req[r].who] # "absent"
          BY <3>3, <3>6, <4>2 DEF SelectByExternalId
        <4> QED
          BY <4>1, <4>2
      <3>7. CASE InsertUser(r) \/ Logout(r) \/ DbError(r)
        BY <3>3, <3>4, <3>7 DEF InsertUser, Logout, DbError
      <3>8. CASE Save(r) \/ SaveError(r) \/ Pass(r)
        BY <1>0, <3>8 DEF Save, SaveError, Pass
      <3> QED
        BY <1>1, <3>1, <3>2, <3>5, <3>6, <3>7, <3>8 DEF ServerStep, Handle
    <2> QED
      BY <2>1, <2>2, <2>3
  <1>2. CASE Deliver(r) \/ Disconnect(r)
    <2>1. Close(r) /\ pc[r] # "unsent"
      BY <1>2 DEF Deliver, Disconnect
    <2>2. req'[r] = [req[r] EXCEPT !.token = NoToken] /\ pc'[r] = "done"
      BY <1>0, <2>1 DEF Close
    <2> QED
      BY <1>0, <2>1, <2>2 DEF Request
  <1> QED
    BY <1>1, <1>2

-----------------------------------------------------------------------------
(* Browsers never share a session.                                         *)

OwnerOf(r) ==
  /\ Known(req[r].cookie, req[r].client)
  /\ Known(sess[r].sid, req[r].client)
  /\ pc[r] = "unsent" => sess[r].sid = NoSid

\* A step of request r leaves it with ids of its own browser.
LEMMA OwnerSelf ==
  ASSUME TypeOK, OwnerInv, NEW r \in Requests, ServerStep(r) \/ BrowserStep(r)
  PROVE  OwnerOf(r)'
  <1> USE DEF FunsOK
  <1> HIDE DEF Requests
  <1>0. /\ FunsOK /\ 0 \notin Requests /\ [Next]_vars
        /\ req[r].cookie \in Requests \cup {0} /\ sess[r].sid \in Requests \cup {0}
    BY Funs DEF TypeOK, Requests, Request, Session, Next
  <1>1. ASSUME NEW s \in Requests \cup {0}, NEW c, Known(s, c)
        PROVE  s # 0 => pc'[s] \in {"reply", "done"} /\ req'[s].client = c
    BY <1>0, <1>1, KnownStays DEF Settled, Requests
  <1>2. CASE \E c \in Clients, kind \in Kinds : SendSome(r, c, kind)
    <2> PICK c \in Clients, kind \in Kinds : \E who, token : Send(r, c, kind, who, token)
      BY <1>2, Zenon DEF SendSome
    <2> PICK who, token : Send(r, c, kind, who, token)
      OBVIOUS
    <2>1. /\ pc'[r] = "sent" /\ sess' = sess /\ pc[r] = "unsent"
          /\ req'[r].client = c /\ req'[r].cookie = cookie[c]
      BY <1>0 DEF Send
    <2>2. sess[r].sid = 0
      BY <2>1 DEF OwnerInv
    <2>3. cookie[c] \in Sids \cup {NoSid} /\ Known(cookie[c], c)
      BY DEF OwnerInv, TypeOK, Requests
    <2>4. cookie[c] # 0 => /\ pc'[cookie[c]] \in {"reply", "done"}
                           /\ req'[cookie[c]].client = c
      BY <1>1, <2>3
    <2> QED
      BY <2>1, <2>2, <2>4 DEF OwnerOf, Known
  <1>3. CASE ServerStep(r) \/ Deliver(r) \/ Disconnect(r)
    <2> DEFINE c == req[r].client
    <2>1. req'[r].client = c /\ req'[r].cookie = req[r].cookie /\ pc'[r] # "unsent"
      BY <1>3, ReqKept
    <2>2. Known(req[r].cookie, c) /\ Known(sess[r].sid, c)
      BY DEF OwnerInv
    <2>3. sess'[r].sid # 0 => /\ pc'[sess'[r].sid] \in {"reply", "done"}
                              /\ req'[sess'[r].sid].client = c
      <3>1. CASE sess'[r].sid \in {sess[r].sid, req[r].cookie, NoSid}
        BY <1>0, <1>1, <2>2, <3>1
      <3>2. CASE Save(r) /\ sess'[r].sid = r
        BY <1>0, <2>1, <3>2 DEF Save
      <3> QED
        BY <1>3, <3>1, <3>2, SidMoves DEF BrowserStep
    <2>4. req[r].cookie # 0 => /\ pc'[req[r].cookie] \in {"reply", "done"}
                               /\ req'[req[r].cookie].client = c
      BY <1>0, <1>1, <2>2
    <2> HIDE DEF c
    <2> QED
      BY <2>1, <2>3, <2>4 DEF OwnerOf, Known
  <1> QED
    BY <1>2, <1>3 DEF BrowserStep

\* Which steps write the cookies, and which the session table.
LEMMA CookieWriters ==
  ASSUME [Next]_vars
  PROVE  \/ \E r \in Requests : Deliver(r)
         \/ \E c \in Clients : CookieExpires(c)
         \/ UNCHANGED cookie
  <1>1. ASSUME NEW r \in Requests, ServerStep(r) PROVE UNCHANGED cookie
    BY <1>1 DEF ServerStep, Handle, LoadSession, LoadPage, SelectByUsername,
                VerifyPassword, SelectByExternalId, InsertUser, Logout, DbError, Save,
                SaveError, Pass
  <1>2. ASSUME NEW r \in Requests, BrowserStep(r) PROVE Deliver(r) \/ UNCHANGED cookie
    BY <1>2 DEF BrowserStep, SendSome, Send, Disconnect
  <1>3. CASE Environment
    BY <1>3 DEF Environment, Expire, DeleteExpired, Disable
  <1> QED
    BY <1>1, <1>2, <1>3 DEF Next, AllDone, vars

LEMMA StoreWriters ==
  ASSUME [Next]_vars
  PROVE  \/ \E r \in Requests : Save(r) \/ Logout(r)
         \/ \E s \in Sids : Expire(s)
         \/ DeleteExpired
         \/ UNCHANGED store
  <1>1. ASSUME NEW r \in Requests, ServerStep(r)
        PROVE  Save(r) \/ Logout(r) \/ UNCHANGED store
    BY <1>1 DEF ServerStep, Handle, LoadSession, LoadPage, SelectByUsername,
                VerifyPassword, SelectByExternalId, InsertUser, DbError, SaveError, Pass
  <1>2. ASSUME NEW r \in Requests, BrowserStep(r) PROVE UNCHANGED store
    BY <1>2 DEF BrowserStep, SendSome, Send, Deliver, Disconnect
  <1>3. CASE Environment
    BY <1>3 DEF Environment, CookieExpires, Disable
  <1> QED
    BY <1>1, <1>2, <1>3 DEF Next, AllDone, vars

CookiesKnown == \A c \in Clients : Known(cookie[c], c)
RowsKnown    == \A s \in Sids : Present(s) => Known(s, req[s].client)

\* The cookies of the browsers name sessions of their own.
LEMMA CookieStep ==
  ASSUME TypeOK, OwnerInv, [Next]_vars PROVE CookiesKnown'
  <1> HIDE DEF Requests
  <1>0. /\ CookiesKnown /\ 0 \notin Requests
        /\ \A c \in Clients : cookie[c] \in Requests \cup {0}
        /\ \A r \in Requests : sess[r].sid \in Requests \cup {0}
        /\ cookie = [c \in Clients |-> cookie[c]]
    BY DEF OwnerInv, CookiesKnown, TypeOK, Requests, Session
  <1>1. ASSUME NEW s \in Requests \cup {0}, NEW c, Known(s, c)
        PROVE  s # 0 => pc'[s] \in {"reply", "done"} /\ req'[s].client = c
    BY <1>1, KnownStays DEF Settled, Requests
  <1>2. ASSUME NEW c \in Clients,
               \/ cookie'[c] = cookie[c]
               \/ cookie'[c] = 0
               \/ \E r \in Requests : c = req[r].client /\ cookie'[c] = sess[r].sid
        PROVE  Known(cookie[c], c)'
    <2>1. CASE cookie'[c] = cookie[c]
      BY <1>0, <1>1, <2>1 DEF CookiesKnown, Known
    <2>2. CASE cookie'[c] = 0
      BY <2>2 DEF Known
    <2>3. ASSUME NEW r \in Requests, c = req[r].client, cookie'[c] = sess[r].sid
          PROVE  Known(cookie[c], c)'
      <3>1. Known(sess[r].sid, c)
        BY <2>3 DEF OwnerInv
      <3> QED
        BY <1>0, <1>1, <2>3, <3>1 DEF Known
    <2> QED
      BY <1>2, <2>1, <2>2, <2>3
  <1>3. ASSUME NEW c \in Clients
        PROVE  \/ cookie'[c] = cookie[c]
               \/ cookie'[c] = 0
               \/ \E r \in Requests : c = req[r].client /\ cookie'[c] = sess[r].sid
    <2>1. ASSUME NEW r \in Requests, Deliver(r)
          PROVE  \/ cookie'[c] = cookie[c]
                 \/ cookie'[c] = 0
                 \/ c = req[r].client /\ cookie'[c] = sess[r].sid
      BY <1>0, <2>1 DEF Deliver
    <2>2. ASSUME NEW d \in Clients, CookieExpires(d)
          PROVE  cookie'[c] = cookie[c] \/ cookie'[c] = 0
      BY <1>0, <2>2 DEF CookieExpires
    <2>3. CASE UNCHANGED cookie
      BY <2>3
    <2> QED
      BY <2>1, <2>2, <2>3, CookieWriters
  <1> QED
    BY <1>2, <1>3 DEF CookiesKnown

\* A row exists only under the id of a request that has saved.
LEMMA RowStep ==
  ASSUME TypeOK, OwnerInv, [Next]_vars PROVE RowsKnown'
  <1> HIDE DEF Requests
  <1>0. RowsKnown /\ 0 \notin Requests /\ store \in [Requests -> Row] /\ FunsOK
    BY Funs DEF OwnerInv, RowsKnown, TypeOK, Requests
  <1>1. ASSUME NEW s \in Requests, Settled(s)' PROVE Known(s, req[s].client)'
    BY <1>1 DEF Known, Settled
  <1>2. ASSUME NEW s \in Requests, Present(s), Known(s, req[s].client) PROVE Settled(s)'
    BY <1>0, <1>2, SettledStays DEF Known, Settled
  <1>3. ASSUME NEW s \in Requests, Present(s)' PROVE Present(s) \/ Settled(s)'
    <2>1. ASSUME NEW r \in Requests, Save(r), ~Present(s) PROVE Settled(s)'
      <3>1. store' = [store EXCEPT ![SaveAs(r)] = [state |-> "live", data |-> sess[r].data]]
        BY <2>1 DEF Save
      <3>2. s = SaveAs(r)
        BY <1>0, <1>3, <2>1, <3>1 DEF Present
      <3>3. CASE sess[r].sid = 0
        <4>1. pc'[r] = "reply"
          BY <1>0, <2>1 DEF Save, FunsOK
        <4> QED
          BY <3>2, <3>3, <4>1 DEF SaveAs, Settled
      <3>4. CASE sess[r].sid # 0
        <4>1. s = sess[r].sid /\ Known(sess[r].sid, req[r].client)
          BY <3>2, <3>4 DEF SaveAs, OwnerInv
        <4>2. Settled(s)
          BY <1>0, <4>1 DEF Known, Settled
        <4> QED
          BY <4>2, SettledStays
      <3> QED
        BY <3>3, <3>4
    <2>2. ASSUME NEW r \in Requests, Logout(r) PROVE Present(s)
      BY <1>0, <1>3, <2>2 DEF Logout, Present, NoRow
    <2>3. ASSUME NEW t \in Sids, Expire(t) PROVE Present(s)
      BY <1>0, <1>3, <2>3 DEF Expire, Present, Row, Requests
    <2>4. CASE DeleteExpired
      BY <1>0, <1>3, <2>4 DEF DeleteExpired, Present, NoRow, Requests
    <2>5. CASE UNCHANGED store
      BY <1>3, <2>5 DEF Present
    <2> QED
      BY <1>0, <2>1, <2>2, <2>3, <2>4, <2>5, StoreWriters
  <1> QED
    BY <1>0, <1>1, <1>2, <1>3 DEF RowsKnown, Requests

\* One step keeps OwnerInv.
LEMMA OwnerStep == TypeOK /\ OwnerInv /\ [Next]_vars => OwnerInv'
  <1> SUFFICES ASSUME TypeOK, OwnerInv, [Next]_vars PROVE OwnerInv'
    OBVIOUS
  <1>1. ASSUME NEW q \in Requests PROVE OwnerOf(q)'
    <2>1. ASSUME pc'[q] = pc[q], req'[q] = req[q], sess'[q] = sess[q] PROVE OwnerOf(q)'
      <3>1. /\ req[q].cookie \in Sids \cup {NoSid} /\ sess[q].sid \in Sids \cup {NoSid}
            /\ OwnerOf(q)
        BY DEF TypeOK, Request, Session, OwnerInv, OwnerOf
      <3>2. ASSUME NEW s \in Sids \cup {NoSid}, Known(s, req[q].client)
            PROVE  s # NoSid => pc'[s] \in {"reply", "done"} /\ req'[s].client = req[q].client
        BY <3>2, KnownStays DEF Settled
      <3> QED
        BY <2>1, <3>1, <3>2 DEF OwnerOf, Known
    <2>2. CASE \E r \in Requests : ServerStep(r) \/ BrowserStep(r)
      <3> PICK r \in Requests : ServerStep(r) \/ BrowserStep(r)
        BY <2>2
      <3> QED
        BY <2>1, OwnerSelf, OthersUntouched DEF Untouched
    <2>3. CASE Environment \/ UNCHANGED vars
      BY <2>1, <2>3 DEF Environment, Expire, DeleteExpired, CookieExpires, Disable, vars
    <2> QED
      BY <2>2, <2>3 DEF Next, AllDone
  <1> QED
    BY <1>1, CookieStep, RowStep DEF OwnerInv, OwnerOf, CookiesKnown, RowsKnown

\* Every id names a session of the browser that holds it.
THEOREM OwnerCorrect == Spec => []OwnerInv
  <1>1. Init => OwnerInv
    BY DEF Init, OwnerInv, Known, Present, NoRow, NoRequest, Closed
  <1> QED
    BY <1>1, TypeCorrect, OwnerStep, PTL DEF Spec

\* The cookie of a browser names a session that was created for it.
THEOREM OwnSessionCorrect == Spec => []OwnSession
  <1>1. TypeOK /\ OwnerInv => OwnSession
    BY DEF OwnerInv, OwnSession, Known
  <1> QED
    BY <1>1, TypeCorrect, OwnerCorrect, PTL

-----------------------------------------------------------------------------
(* A session that is gone stays gone.                                      *)

\* Request r may still write session s back.
MaySave(r, s) == Loaded(r) /\ sess[r].sid = s /\ status[r] # 500

\* No step makes a request able to save a session that is not live.
LEMMA NoNewSaver ==
  ASSUME TypeOK, TokenInv, NEW s \in Sids, store[s].state # "live",
         NEW r \in Requests, ServerStep(r) \/ BrowserStep(r), ~MaySave(r, s)
  PROVE  ~MaySave(r, s)'
  <1> USE DEF FunsOK, MaySave, Loaded
  <1> HIDE DEF Requests
  <1>0. FunsOK /\ sess[r] \in Session /\ s # 0
    BY Funs DEF TypeOK, Requests
  <1>1. CASE \E c \in Clients, kind \in Kinds : SendSome(r, c, kind)
    <2>1. pc'[r] = "sent"
      BY <1>0, <1>1 DEF SendSome, Send
    <2> QED
      BY <2>1
  <1>2. CASE LoadSession(r)
    <2>1. LoadRecord(req[r].cookie).sid # s
      BY <1>0 DEF LoadRecord, Closed
    <2>2. LoadRecord(req[r].cookie) \in Session
      BY LoadRecordType DEF TypeOK, Request
    <2>3. sess'[r].sid = LoadRecord(req[r].cookie).sid
      BY <1>0, <1>2, <2>2 DEF LoadSession, Session
    <2> QED
      BY <2>1, <2>3
  <1>3. CASE LoadPage(r)
    <2>1. LoadRecord(req[r].cookie).sid # s
      BY <1>0 DEF LoadRecord, Closed
    <2> QED
      BY <1>0, <1>3, <2>1 DEF LoadPage
  <1>4. ASSUME pc[r] \in {"handler", "verify", "create"}, sess'[r].sid = sess[r].sid
        PROVE  ~MaySave(r, s)'
    <2>1. status[r] = 0
      BY <1>4 DEF TokenInv, TokenOf
    <2> QED
      BY <1>4, <2>1
  <1>5. ASSUME NEW row, FinishLogin(r, row) PROVE sess'[r].sid = sess[r].sid
    BY <1>5, FinishLoginEffect
  <1>6. CASE SelectByUsername(r)
    BY <1>4, <1>6 DEF SelectByUsername
  <1>7. CASE \E ok \in BOOLEAN : VerifyPassword(r, ok)
    BY <1>4, <1>5, <1>7 DEF VerifyPassword
  <1>8. CASE SelectByExternalId(r)
    BY <1>4, <1>5, <1>8 DEF SelectByExternalId
  <1>9. CASE InsertUser(r)
    BY <1>4, <1>5, <1>9 DEF InsertUser
  <1>10. CASE Logout(r)
    BY <1>0, <1>10 DEF Logout, Closed
  <1>11. CASE DbError(r)
    <2>1. status'[r] = 500
      BY <1>0, <1>11 DEF DbError, Answer
    <2> QED
      BY <2>1
  <1>12. CASE Save(r) \/ SaveError(r) \/ Pass(r)
    <2>1. pc'[r] = "reply"
      BY <1>0, <1>12 DEF Save, SaveError, Pass
    <2> QED
      BY <2>1
  <1>13. CASE Deliver(r) \/ Disconnect(r)
    <2>1. pc'[r] = "done"
      BY <1>0, <1>13 DEF Deliver, Disconnect, Close
    <2> QED
      BY <2>1
  <1> QED
    BY <1>1, <1>2, <1>3, <1>6, <1>7, <1>8, <1>9, <1>10, <1>11, <1>12, <1>13
       DEF ServerStep, Handle, BrowserStep

\* One step keeps a retired session retired.
LEMMA RetiredStep ==
  ASSUME TypeOK, TokenInv, [Next]_vars, NEW s \in Sids, Retired(s)
  PROVE  Retired(s)'
  <1> HIDE DEF Requests
  <1>0. /\ FunsOK /\ store \in [Requests -> Row] /\ s \in Requests
        /\ Settled(s) /\ store[s].state # "live" /\ \A r \in Requests : ~MaySave(r, s)
    BY Funs DEF TypeOK, Retired, MaySave, Settled, Requests
  <1>1. Settled(s)'
    BY <1>0, SettledStays
  <1>2. store'[s].state # "live"
    <2>1. ASSUME NEW r \in Requests, Save(r) PROVE store'[s].state # "live"
      <3>1. pc[r] = "respond" /\ status[r] # 500
        BY <2>1 DEF Save, Saves
      <3>2. SaveAs(r) # s
        BY <1>0, <3>1 DEF SaveAs, MaySave, Loaded, Settled
      <3>3. store' = [store EXCEPT ![SaveAs(r)] = [state |-> "live", data |-> sess[r].data]]
        BY <2>1 DEF Save
      <3> QED
        BY <1>0, <3>2, <3>3
    <2>2. ASSUME NEW r \in Requests, Logout(r) PROVE store'[s].state # "live"
      BY <1>0, <2>2 DEF Logout, NoRow
    <2>3. ASSUME NEW t \in Sids, Expire(t) PROVE store'[s].state # "live"
      BY <1>0, <2>3 DEF Expire, Row, Requests
    <2>4. CASE DeleteExpired
      BY <1>0, <2>4 DEF DeleteExpired, NoRow, Requests
    <2>5. CASE UNCHANGED store
      BY <1>0, <2>5
    <2> QED
      BY <2>1, <2>2, <2>3, <2>4, <2>5, StoreWriters
  <1>3. ASSUME NEW q \in Requests PROVE ~MaySave(q, s)'
    <2>1. CASE \E r \in Requests : ServerStep(r) \/ BrowserStep(r)
      <3> PICK r \in Requests : ServerStep(r) \/ BrowserStep(r)
        BY <2>1
      <3>1. CASE q = r
        BY <1>0, <3>1, NoNewSaver
      <3>2. CASE q # r
        <4>1. Untouched(q)
          BY <3>2, OthersUntouched
        <4> QED
          BY <1>0, <4>1 DEF Untouched, MaySave, Loaded
      <3> QED
        BY <3>1, <3>2
    <2>2. CASE Environment \/ UNCHANGED vars
      BY <1>0, <2>2 DEF Environment, Expire, DeleteExpired, CookieExpires, Disable, vars,
                        MaySave, Loaded
    <2> QED
      BY <2>1, <2>2 DEF Next, AllDone
  <1> QED
    BY <1>1, <1>2, <1>3 DEF Retired, Settled, MaySave

\* After a logout or after expiry, only a request that had loaded the session
\* before can bring it back.
THEOREM RetiredCorrect == Spec => RetiredForGood
  <1>1. TypeOK /\ TokenInv /\ [Next]_vars => [\A s \in Sids : Retired(s) => Retired(s)']_vars
    BY RetiredStep
  <1>2. Spec => []TokenInv
    <2>1. Init => TokenInv
      BY DEF Init, TokenInv, TokenOf, Present, NoRow
    <2> QED
      BY <2>1, TypeCorrect, TokenStep, PTL DEF Spec
  <1> QED
    BY <1>1, <1>2, TypeCorrect, PTL DEF Spec, RetiredForGood

-----------------------------------------------------------------------------
(* Who is logged in, and through which request.                            *)

\* A request whose handler is over stays evidence of what it checked.
LEMMA GrantedStays ==
  ASSUME TypeOK, [Next]_vars, NEW r \in Requests, NEW u, Granted(r, u)
  PROVE  /\ Granted(r, u)'
         /\ req'[r].client = req[r].client
         /\ sess[r].sid # NoSid => sess'[r].sid = sess[r].sid
  <1> USE DEF FunsOK
  <1> HIDE DEF Requests
  <1>0. /\ FunsOK /\ sess[r] \in Session /\ req[r] \in Request
        /\ LoggedIn(r, u) /\ pc[r] \in {"respond", "reply", "done"}
    BY Funs DEF TypeOK, Granted
  <1>1. CASE \E q \in Requests : q # r /\ (ServerStep(q) \/ BrowserStep(q))
    <2>1. Untouched(r)
      BY <1>1, OthersUntouched
    <2> QED
      BY <1>0, <2>1 DEF Untouched, Granted, LoggedIn
  <1>2. CASE ServerStep(r) \/ BrowserStep(r)
    <2>1. CASE Save(r) \/ SaveError(r) \/ Pass(r)
      <3>1. pc'[r] = "reply" /\ req' = req /\ found' = found /\ verified' = verified
        BY <1>0, <2>1 DEF Save, SaveError, Pass
      <3>2. sess[r].sid # NoSid => sess'[r].sid = sess[r].sid
        BY <1>0, <2>1 DEF Save, SaveError, Pass, SaveAs, Session
      <3> QED
        BY <1>0, <3>1, <3>2 DEF Granted, LoggedIn
    <2>2. CASE Deliver(r) \/ Disconnect(r)
      <3>1. Close(r) /\ found' = found /\ verified' = verified
        BY <2>2 DEF Deliver, Disconnect
      <3>2. /\ pc'[r] = "done" /\ sess'[r].sid = sess[r].sid
            /\ req'[r] = [req[r] EXCEPT !.token = NoToken]
        BY <1>0, <3>1 DEF Close, Closed
      <3> QED
        BY <1>0, <3>1, <3>2 DEF Granted, LoggedIn, Request
    <2>3. Save(r) \/ SaveError(r) \/ Pass(r) \/ Deliver(r) \/ Disconnect(r)
      BY <1>0, <1>2 DEF ServerStep, Handle, BrowserStep, SendSome, Send, LoadSession,
                        LoadPage, SelectByUsername, VerifyPassword, SelectByExternalId,
                        InsertUser, Logout, DbError
    <2> QED
      BY <2>1, <2>2, <2>3
  <1>3. CASE Environment \/ UNCHANGED vars
    BY <1>0, <1>3 DEF Environment, Expire, DeleteExpired, CookieExpires, Disable, vars,
                      Granted, LoggedIn
  <1> QED
    BY <1>1, <1>2, <1>3 DEF Next, AllDone

LEMMA GrantedOnStays ==
  ASSUME TypeOK, [Next]_vars, NEW s \in Sids, NEW u, NEW c, GrantedOn(s, u, c)
  PROVE  GrantedOn(s, u, c)'
BY GrantedStays DEF GrantedOn

\* The user in the record of request q was granted to it.
RecordGranted(q) ==
  Loaded(q) /\ sess[q].data.user # NoUser =>
    \/ sess[q].sid = NoSid /\ Granted(q, sess[q].data.user)
    \/ /\ sess[q].sid # NoSid
       /\ GrantedOn(sess[q].sid, sess[q].data.user, req[q].client)

\* Loading a session takes over its user with the evidence for it.
LEMMA LoadGranted ==
  ASSUME TypeOK, OwnerInv, GrantInv, NEW r \in Requests, LoadSession(r) \/ LoadPage(r)
  PROVE  RecordGranted(r)'
  <1> USE DEF FunsOK
  <1> HIDE DEF Requests
  <1> DEFINE h == LoadRecord(req[r].cookie)
  <1>0. /\ FunsOK /\ [Next]_vars /\ 0 \notin Requests
        /\ req[r].cookie \in Requests \cup {0} /\ h \in Session
    BY Funs, LoadRecordType DEF TypeOK, Request, Next, ServerStep, Requests
  <1>1. sess'[r].sid = h.sid /\ sess'[r].data.user = h.data.user
    <2>1. CASE LoadSession(r)
      BY <1>0, <2>1 DEF LoadSession, Session, Refresh
    <2>2. CASE LoadPage(r)
      BY <1>0, <2>2 DEF LoadPage
    <2> QED
      BY <2>1, <2>2
  <1>2. CASE h = Closed
    BY <1>1, <1>2 DEF RecordGranted, Closed, EmptyData
  <1>3. CASE h # Closed
    <2> PICK s, u, c : s = req[r].cookie /\ u = store[s].data.user /\ c = req[r].client
      OBVIOUS
    <2>1. s # 0 /\ store[s].state = "live" /\ h.sid = s /\ h.data.user = u
      BY <1>3 DEF LoadRecord
    <2>2. s \in Sids /\ Present(s)
      BY <1>0, <2>1 DEF Present, Requests
    <2>3. req[s].client = c
      BY <2>1 DEF OwnerInv, Known
    <2>4. u # NoUser => GrantedOn(s, u, c)
      BY <2>2, <2>3 DEF GrantInv
    <2>5. u # NoUser => GrantedOn(s, u, c)'
      BY <1>0, <2>2, <2>4, GrantedOnStays
    <2>6. req' = req
      BY DEF LoadSession, LoadPage
    <2>7. sess'[r].sid = s /\ sess'[r].data.user = u /\ req'[r].client = c
      BY <1>1, <2>1, <2>6
    <2> HIDE DEF h
    <2> QED
      BY <2>1, <2>5, <2>7 DEF RecordGranted
  <1> QED
    BY <1>2, <1>3

\* A record that keeps its id and its user keeps the evidence.
LEMMA RecordKept ==
  ASSUME TypeOK, GrantInv, [Next]_vars, NEW q \in Requests, Loaded(q),
         sess'[q].sid = sess[q].sid, sess'[q].data.user = sess[q].data.user,
         req'[q].client = req[q].client
  PROVE  RecordGranted(q)'
  <1> PICK s, u, c : s = sess[q].sid /\ u = sess[q].data.user /\ c = req[q].client
    OBVIOUS
  <1>1. s \in Sids \cup {NoSid}
    BY DEF TypeOK, Session
  <1>2. u # NoUser => \/ s = NoSid /\ Granted(q, u)
                      \/ s # NoSid /\ GrantedOn(s, u, c)
    BY DEF GrantInv
  <1>3. s = NoSid /\ Granted(q, u) => Granted(q, u)'
    BY GrantedStays
  <1>4. s # NoSid /\ GrantedOn(s, u, c) => GrantedOn(s, u, c)'
    BY <1>1, GrantedOnStays
  <1> QED
    BY <1>2, <1>3, <1>4 DEF RecordGranted

\* A login that is answered 200 is its own evidence.
LEMMA LoginGranted ==
  ASSUME TypeOK, NEW r \in Requests, FinishLogin(r, "active"), UNCHANGED req,
         req[r].kind \in LoginKinds, found'[r] = "active",
         req[r].kind = "password" => verified'[r]
  PROVE  RecordGranted(r)'
  <1> PICK s, u, c : s = sess[r].sid /\ u = req[r].who /\ c = req[r].client
    OBVIOUS
  <1>1. pc'[r] = "respond" /\ sess'[r].sid = s /\ sess'[r].data.user = u
    BY FinishLoginEffect
  <1>2. Granted(r, u)'
    BY <1>1 DEF Granted, LoggedIn
  <1>3. s # NoSid => GrantedOn(s, u, c)'
    BY <1>1, <1>2 DEF GrantedOn
  <1> QED
    BY <1>1, <1>2, <1>3 DEF RecordGranted

\* A step of request r leaves it in the handler of its kind.
LEMMA HandlerSelf ==
  ASSUME TypeOK, NEW r \in Requests, ServerStep(r) \/ BrowserStep(r), InItsHandler(r)
  PROVE  InItsHandler(r)'
  <1> USE DEF FunsOK, InItsHandler
  <1> HIDE DEF Requests
  <1>0. FunsOK
    BY Funs
  <1>1. CASE SelectByUsername(r)
    BY <1>0, <1>1 DEF SelectByUsername, Answer
  <1>2. CASE SelectByExternalId(r)
    <2>1. req' = req /\ req[r].kind \in {"forward", "oidc"}
      BY <1>2 DEF SelectByExternalId
    <2>2. pc'[r] \in {"create", "respond"}
      <3>1. CASE account[req[r].who] = "absent"
        BY <1>0, <1>2, <3>1 DEF SelectByExternalId
      <3>2. CASE account[req[r].who] # "absent"
        BY <1>2, <3>2, FinishLoginEffect DEF SelectByExternalId
      <3> QED
        BY <3>1, <3>2
    <2> QED
      BY <2>1, <2>2
  <1>3. ASSUME pc'[r] \notin {"verify", "create"} PROVE InItsHandler(r)'
    BY <1>3
  <1>4. ASSUME NEW row, FinishLogin(r, row) PROVE pc'[r] = "respond"
    BY <1>4, FinishLoginEffect
  <1>5. ASSUME NEW code, Answer(r, code) PROVE pc'[r] = "respond"
    BY <1>0, <1>5 DEF Answer
  <1>6. CASE \E ok \in BOOLEAN : VerifyPassword(r, ok)
    BY <1>3, <1>4, <1>5, <1>6 DEF VerifyPassword
  <1>7. CASE InsertUser(r) \/ Logout(r) \/ DbError(r)
    BY <1>3, <1>4, <1>5, <1>7 DEF InsertUser, Logout, DbError
  <1>8. CASE LoadSession(r) \/ LoadPage(r)
    BY <1>0, <1>3, <1>8 DEF LoadSession, LoadPage
  <1>9. CASE Save(r) \/ SaveError(r) \/ Pass(r)
    BY <1>0, <1>3, <1>9 DEF Save, SaveError, Pass
  <1>10. CASE Deliver(r) \/ Disconnect(r)
    BY <1>0, <1>3, <1>10 DEF Deliver, Disconnect, Close
  <1>11. CASE \E c \in Clients, kind \in Kinds : SendSome(r, c, kind)
    <2>1. pc'[r] = "sent"
      BY <1>0, <1>11 DEF SendSome, Send
    <2> QED
      BY <1>3, <2>1
  <1> QED
    BY <1>1, <1>2, <1>6, <1>7, <1>8, <1>9, <1>10, <1>11
       DEF ServerStep, Handle, BrowserStep

\* A step of request r leaves its record with evidence for its user.
LEMMA GrantSelf ==
  ASSUME TypeOK, OwnerInv, GrantInv, NEW r \in Requests, ServerStep(r) \/ BrowserStep(r)
  PROVE  RecordGranted(r)'
  <1> USE DEF FunsOK
  <1> HIDE DEF Requests
  <1>0. FunsOK /\ [Next]_vars /\ sess[r] \in Session /\ req[r] \in Request
    BY Funs DEF TypeOK, Next
  <1>1. CASE \E c \in Clients, kind \in Kinds : SendSome(r, c, kind)
    <2>1. pc'[r] = "sent"
      BY <1>0, <1>1 DEF SendSome, Send
    <2> QED
      BY <2>1 DEF RecordGranted, Loaded
  <1>2. CASE LoadSession(r) \/ LoadPage(r)
    BY <1>2, LoadGranted
  <1>3. ASSUME pc[r] \in {"handler", "verify", "create"}, UNCHANGED req,
               sess'[r].sid = sess[r].sid, sess'[r].data.user = sess[r].data.user
        PROVE  RecordGranted(r)'
    BY <1>0, <1>3, RecordKept DEF Loaded
  <1>4. ASSUME NEW row, FinishLogin(r, row), row # "active"
        PROVE  sess' = sess
    BY <1>4 DEF FinishLogin
  <1>5. CASE SelectByUsername(r)
    BY <1>3, <1>5 DEF SelectByUsername
  <1>6. CASE \E ok \in BOOLEAN : VerifyPassword(r, ok)
    <2> PICK ok \in BOOLEAN : VerifyPassword(r, ok)
      BY <1>6
    <2>0. pc[r] = "verify" /\ UNCHANGED <<req, found>> /\ verified'[r] = ok
      BY <1>0 DEF VerifyPassword, TypeOK
    <2>1. CASE ok /\ found[r] = "active"
      <3>1. FinishLogin(r, "active")
        BY <2>1 DEF VerifyPassword
      <3>2. req[r].kind \in LoginKinds
        BY <2>0 DEF GrantInv, InItsHandler, LoginKinds
      <3> QED
        BY <2>0, <2>1, <3>1, <3>2, LoginGranted
    <2>2. CASE ~(ok /\ found[r] = "active")
      BY <1>3, <1>4, <2>0, <2>2 DEF VerifyPassword
    <2> QED
      BY <2>1, <2>2
  <1>7. CASE SelectByExternalId(r)
    <2>0. /\ pc[r] = "handler" /\ UNCHANGED req /\ req[r].kind \in {"forward", "oidc"}
          /\ found'[r] = account[req[r].who]
      BY <1>0, <1>7 DEF SelectByExternalId
    <2>1. CASE account[req[r].who] = "active"
      BY <1>7, <2>0, <2>1, LoginGranted DEF SelectByExternalId, LoginKinds
    <2>2. CASE account[req[r].who] # "active"
      BY <1>3, <1>4, <1>7, <2>0, <2>2 DEF SelectByExternalId
    <2> QED
      BY <2>1, <2>2
  <1>8. CASE InsertUser(r)
    <2>0. /\ pc[r] = "create" /\ UNCHANGED req
          /\ req[r].kind \in {"forward", "oidc"}
      BY <1>8 DEF InsertUser, GrantInv, InItsHandler
    <2>1. CASE account[req[r].who] = "absent"
      <3>1. found'[r] = "active"
        BY <1>0, <1>8, <2>1 DEF InsertUser
      <3> QED
        BY <1>8, <2>0, <2>1, <3>1, LoginGranted DEF InsertUser, LoginKinds
    <2>2. CASE account[req[r].who] # "absent"
      BY <1>3, <1>8, <2>0, <2>2 DEF InsertUser
    <2> QED
      BY <2>1, <2>2
  <1>9. ASSUME sess'[r].data.user = NoUser PROVE RecordGranted(r)'
    BY <1>9 DEF RecordGranted
  <1>10. CASE Logout(r)
    BY <1>0, <1>9, <1>10 DEF Logout, Closed, EmptyData
  <1>11. CASE DbError(r)
    <2>1. CASE UNCHANGED sess /\ pc[r] \in {"handler", "verify", "create"}
      BY <1>3, <1>11, <2>1 DEF DbError
    <2>2. CASE sess'[r].data = EmptyData
      BY <1>9, <2>2 DEF EmptyData
    <2> QED
      BY <1>0, <1>11, <2>1, <2>2 DEF DbError, Closed, Session
  <1>12. ASSUME pc'[r] \in {"reply", "done"} PROVE RecordGranted(r)'
    BY <1>12 DEF RecordGranted, Loaded
  <1>13. CASE Save(r) \/ SaveError(r) \/ Pass(r)
    BY <1>0, <1>12, <1>13 DEF Save, SaveError, Pass
  <1>14. CASE Deliver(r) \/ Disconnect(r)
    BY <1>0, <1>12, <1>14 DEF Deliver, Disconnect, Close
  <1> QED
    BY <1>1, <1>2, <1>5, <1>6, <1>7, <1>8, <1>10, <1>11, <1>13, <1>14
       DEF ServerStep, Handle, BrowserStep

RowGranted(s) ==
  Present(s) /\ store[s].data.user # NoUser =>
    GrantedOn(s, store[s].data.user, req[s].client)

\* A row keeps the evidence for its user, and Save brings it along.
LEMMA GrantedRowStep ==
  ASSUME TypeOK, OwnerInv, GrantInv, [Next]_vars, NEW s \in Sids
  PROVE  RowGranted(s)'
  <1> HIDE DEF Requests
  <1>0. /\ FunsOK /\ store \in [Requests -> Row] /\ 0 \notin Requests /\ s \in Requests
        /\ sess \in [Requests -> Session]
    BY Funs DEF TypeOK, Requests
  <1>1. ASSUME Present(s), store'[s].data = store[s].data PROVE RowGranted(s)'
    <2> PICK u, c : u = store[s].data.user /\ c = req[s].client
      OBVIOUS
    <2>1. u # NoUser => GrantedOn(s, u, c)
      BY <1>1 DEF GrantInv
    <2>2. u # NoUser => GrantedOn(s, u, c)'
      BY <2>1, GrantedOnStays
    <2>3. Settled(s)
      BY <1>0, <1>1 DEF OwnerInv, Known, Settled
    <2>4. req'[s].client = c
      BY <1>0, <2>3, SettledStays
    <2> QED
      BY <1>1, <2>2, <2>4 DEF RowGranted
  <1>2. ASSUME NEW r \in Requests, Save(r), s = SaveAs(r) PROVE RowGranted(s)'
    <2> PICK u, c : u = sess[r].data.user /\ c = req[r].client
      OBVIOUS
    <2>0. /\ store' = [store EXCEPT ![s] = [state |-> "live", data |-> sess[r].data]]
          /\ Loaded(r) /\ UNCHANGED req
      BY <1>2 DEF Save, Loaded
    <2>1. store'[s].data.user = u
      BY <1>0, <2>0
    <2>2. sess'[r].sid = s
      BY <1>0, <1>2 DEF Save, Session
    <2>3. CASE sess[r].sid = NoSid
      <3>1. s = r /\ (u # NoUser => Granted(r, u))
        BY <1>2, <2>0, <2>3 DEF GrantInv, GrantedOn, SaveAs
      <3>2. u # NoUser => Granted(r, u)'
        BY <3>1, GrantedStays
      <3>3. u # NoUser => GrantedOn(s, u, c)'
        BY <2>0, <2>2, <3>2 DEF GrantedOn
      <3> QED
        BY <2>0, <2>1, <3>1, <3>3 DEF RowGranted
    <2>4. CASE sess[r].sid # NoSid
      <3>1. s = sess[r].sid /\ (u # NoUser => GrantedOn(s, u, c))
        BY <1>2, <2>0, <2>4 DEF GrantInv, SaveAs
      <3>2. u # NoUser => GrantedOn(s, u, c)'
        BY <3>1, GrantedOnStays
      <3>3. req[s].client = c
        BY <2>4, <3>1 DEF OwnerInv, Known
      <3> QED
        BY <2>0, <2>1, <3>2, <3>3 DEF RowGranted
    <2> QED
      BY <2>3, <2>4
  <1>3. ASSUME NEW r \in Requests, Save(r), s # SaveAs(r) PROVE RowGranted(s)'
    <2>1. store'[s] = store[s]
      BY <1>0, <1>3 DEF Save
    <2>2. CASE Present(s)
      BY <1>1, <2>1, <2>2
    <2>3. CASE ~Present(s)
      BY <2>1, <2>3 DEF RowGranted, Present
    <2> QED
      BY <2>2, <2>3
  <1>4. ASSUME \/ store'[s] \in {store[s], NoRow}
               \/ Present(s) /\ store'[s].data = store[s].data
        PROVE  RowGranted(s)'
    <2>1. CASE store'[s] = NoRow
      BY <2>1 DEF RowGranted, Present, NoRow
    <2>2. CASE ~Present(s) /\ store'[s] = store[s]
      BY <2>2 DEF RowGranted, Present
    <2>3. CASE Present(s) /\ store'[s].data = store[s].data
      BY <1>1, <2>3
    <2> QED
      BY <1>4, <2>1, <2>2, <2>3
  <1>5. ASSUME NEW r \in Requests, Logout(r) PROVE RowGranted(s)'
    BY <1>0, <1>4, <1>5 DEF Logout
  <1>6. ASSUME NEW t \in Sids, Expire(t) PROVE RowGranted(s)'
    <2>1. CASE t = s
      BY <1>0, <1>4, <1>6, <2>1 DEF Expire, Present, Row
    <2>2. CASE t # s
      BY <1>0, <1>4, <1>6, <2>2 DEF Expire
    <2> QED
      BY <2>1, <2>2
  <1>7. CASE DeleteExpired
    BY <1>0, <1>4, <1>7 DEF DeleteExpired, Requests
  <1>8. CASE UNCHANGED store
    BY <1>4, <1>8
  <1> QED
    BY <1>2, <1>3, <1>5, <1>6, <1>7, <1>8, StoreWriters

\* One step keeps GrantInv.
LEMMA GrantStep == TypeOK /\ OwnerInv /\ GrantInv /\ [Next]_vars => GrantInv'
  <1> SUFFICES ASSUME TypeOK, OwnerInv, GrantInv, [Next]_vars PROVE GrantInv'
    OBVIOUS
  <1>1. ASSUME NEW q \in Requests PROVE RecordGranted(q)' /\ InItsHandler(q)'
    <2>0. RecordGranted(q) /\ InItsHandler(q)
      BY DEF GrantInv, RecordGranted
    <2>1. ASSUME pc'[q] = pc[q], req'[q] = req[q], sess'[q] = sess[q]
          PROVE  RecordGranted(q)' /\ InItsHandler(q)'
      <3>1. CASE Loaded(q)
        BY <2>0, <2>1, <3>1, RecordKept DEF InItsHandler
      <3>2. CASE ~Loaded(q)
        BY <2>0, <2>1, <3>2 DEF InItsHandler, RecordGranted, Loaded
      <3> QED
        BY <3>1, <3>2
    <2>2. CASE \E r \in Requests : ServerStep(r) \/ BrowserStep(r)
      <3> PICK r \in Requests : ServerStep(r) \/ BrowserStep(r)
        BY <2>2
      <3> QED
        BY <2>0, <2>1, GrantSelf, HandlerSelf, OthersUntouched DEF Untouched
    <2>3. CASE Environment \/ UNCHANGED vars
      BY <2>1, <2>3 DEF Environment, Expire, DeleteExpired, CookieExpires, Disable, vars
    <2> QED
      BY <2>2, <2>3 DEF Next, AllDone
  <1>2. ASSUME NEW s \in Sids PROVE RowGranted(s)'
    BY GrantedRowStep
  <1> QED
    BY <1>1, <1>2 DEF GrantInv, RecordGranted, RowGranted

\* A stored session is logged in as u only because its own browser presented
\* u's credentials on it and found the account active.
THEOREM ProvenanceCorrect == Spec => []LoginProvenance
  <1>1. Init => GrantInv
    BY DEF Init, GrantInv, Present, NoRow, Loaded, InItsHandler
  <1>2. GrantInv => LoginProvenance
    BY DEF GrantInv, GrantedOn, Granted, LoginProvenance
  <1> QED
    BY <1>1, <1>2, TypeCorrect, OwnerCorrect, GrantStep, PTL DEF Spec
=============================================================================
