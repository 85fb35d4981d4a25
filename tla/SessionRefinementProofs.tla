----------------------- MODULE SessionRefinementProofs -----------------------
(***************************************************************************)
(* The session store implements BrowserSession: the refinement of          *)
(* SessionRefinement, step by step, for browsers that wait for an answer    *)
(* and sessions that do not run out, and for every value of the other       *)
(* constants.                                                              *)
(***************************************************************************)
EXTENDS SessionRefinement, SessionsOwnership, FiniteSetTheorems

USE DEF Requests, Sids, Tokens, NoSid, NoToken, UserByExternalId

-----------------------------------------------------------------------------
(* What the step of one request leaves to the other browsers.              *)

\* Save and Logout write a row of the request's own browser.
LEMMA StoreFrame ==
  ASSUME TypeOK, OwnerInv, NEW r \in Requests, ServerStep(r) \/ BrowserStep(r),
         NEW s \in Sids, NEW c, Known(s, c), c # req[r].client
  PROVE  store'[s] = store[s]
  <1> HIDE DEF Requests
  <1>0. /\ [Next]_vars /\ store = [t \in Requests |-> store[t]]
        /\ 0 \notin Requests /\ s \in Requests /\ s # 0
        /\ sess[r].sid \in Requests \cup {0}
    BY DEF Next, TypeOK, Requests, Session
  <1>1. pc[s] \in {"reply", "done"} /\ req[s].client = c
    BY <1>0 DEF Known
  <1>2. Known(sess[r].sid, req[r].client)
    BY DEF OwnerInv
  <1>3. sess[r].sid # s
    BY <1>0, <1>1, <1>2 DEF Known
  <1>4. CASE Save(r)
    <2>1. pc[r] = "respond" /\ SaveAs(r) # s
      BY <1>1, <1>3, <1>4 DEF Save, SaveAs
    <2> QED
      BY <1>0, <1>4, <2>1 DEF Save
  <1>5. CASE Logout(r)
    BY <1>0, <1>3, <1>5 DEF Logout
  <1>6. CASE UNCHANGED store
    BY <1>6
  <1> QED
    BY <1>4, <1>5, <1>6
       DEF ServerStep, Handle, BrowserStep, SendSome, Send, LoadSession, LoadPage,
           SelectByUsername, VerifyPassword, SelectByExternalId, InsertUser, DbError,
           SaveError, Pass, Deliver, Disconnect

\* Only the delivery of an answer writes a cookie, that of the request's browser.
LEMMA CookieFrame ==
  ASSUME TypeOK, NEW r \in Requests, ServerStep(r) \/ BrowserStep(r),
         NEW c \in Clients, Deliver(r) => c # req[r].client
  PROVE  cookie'[c] = cookie[c]
  <1>1. CASE Deliver(r)
    BY <1>1 DEF Deliver, TypeOK
  <1>2. CASE UNCHANGED cookie
    BY <1>2
  <1> QED
    BY <1>1, <1>2
       DEF ServerStep, Handle, BrowserStep, SendSome, Send, LoadSession, LoadPage,
           SelectByUsername, VerifyPassword, SelectByExternalId, InsertUser, DbError,
           SaveError, Pass, Logout, Save, Disconnect

\* What another browser has is not touched.
LEMMA CurrentFrame ==
  ASSUME TypeOK, OwnerInv, NEW r \in Requests, ServerStep(r) \/ BrowserStep(r),
         NEW c \in Clients, c # req[r].client
  PROVE  Current(c)' = Current(c)
  <1>1. cookie'[c] = cookie[c]
    BY CookieFrame
  <1>2. cookie[c] \in Sids \cup {NoSid} /\ Known(cookie[c], c)
    BY DEF TypeOK, OwnerInv
  <1>3. cookie[c] # NoSid => store'[cookie[c]] = store[cookie[c]]
    BY <1>2, StoreFrame
  <1> QED
    BY <1>1, <1>3 DEF Current

\* The remaining steps write neither rows nor cookies, and keep the request line.
LEMMA OwnFrame ==
  ASSUME TypeOK, NEW r \in Requests, ServerStep(r) \/ Deliver(r) \/ Disconnect(r),
         ~Save(r), ~Logout(r), ~Deliver(r)
  PROVE  /\ UNCHANGED <<store, cookie>>
         /\ Browser(r)' = Browser(r)
         /\ req'[r].cookie = req[r].cookie
  <1>1. UNCHANGED <<store, cookie>>
    BY DEF ServerStep, Handle, LoadSession, LoadPage, SelectByUsername, VerifyPassword,
           SelectByExternalId, InsertUser, DbError, SaveError, Pass, Disconnect
  <1>2. req'[r].client = req[r].client /\ req'[r].cookie = req[r].cookie
    BY ReqKept
  <1> QED
    BY <1>1, <1>2 DEF Browser, Current

-----------------------------------------------------------------------------
(* What the step of a request makes of its own record.                     *)

\* A browser whose cookie names no live row has nothing.
LEMMA NothingLive ==
  ASSUME SerialInv, NEW r \in Requests, Flying(r)
  PROVE  Browser(r) = IF Live(req[r].cookie) THEN store[req[r].cookie].data ELSE EmptyData
  BY DEF SerialInv, Browser, Current, Live

LEMMA LoadUpToDate ==
  ASSUME TypeOK, SerialInv, NEW r \in Requests, LoadSession(r)
  PROVE  UpToDate(r)'
  <1> DEFINE h == LoadRecord(req[r].cookie)
             d == Refresh(h.data, r)
  <1>0. FunsOK /\ h \in Session /\ Flying(r) /\ reply[r] = "none" /\ UpToDate(r)
    BY Funs, LoadRecordType DEF TypeOK, Request, Flying, LoadSession, SerialInv, UpToDate
  <1>1. /\ sess'[r].sid = h.sid /\ sess'[r].data = d
        /\ \/ pc'[r] = "handler" /\ status'[r] = 0
           \/ pc'[r] = "respond"
        /\ reply'[r] = "none"
    BY <1>0 DEF LoadSession, FunsOK, Session
  <1>2. Browser(r)' = Browser(r) /\ UNCHANGED <<store, cookie, req>>
    BY DEF LoadSession, Browser, Current
  <1>3. /\ h.sid = IF Live(req[r].cookie) THEN req[r].cookie ELSE 0
        /\ h.data = Browser(r)
    BY <1>0, NothingLive DEF LoadRecord, Live, Closed
  <1>4. d.visits = Browser(r).visits + 1 /\ d.user = Browser(r).user
    BY <1>3 DEF Refresh
  <1> HIDE DEF h, d
  <1> QED
    BY <1>1, <1>2, <1>3, <1>4 DEF UpToDate, Loaded, Live, OneVisitOn

LEMMA PageUpToDate ==
  ASSUME TypeOK, SerialInv, NEW r \in Requests, LoadPage(r)
  PROVE  UpToDate(r)'
  <1> DEFINE h == LoadRecord(req[r].cookie)
  <1>0. FunsOK /\ UpToDate(r)
    BY Funs DEF SerialInv
  <1>1. sess'[r] = h /\ pc'[r] = "respond" /\ reply'[r] = "none"
    BY <1>0 DEF LoadPage, FunsOK, UpToDate
  <1>2. h.sid = (IF Live(req[r].cookie) THEN req[r].cookie ELSE 0) /\ h.modified = FALSE
    BY DEF LoadRecord, Live, Closed
  <1>3. UNCHANGED <<store, req>>
    BY DEF LoadPage
  <1> HIDE DEF h
  <1> QED
    BY <1>1, <1>2, <1>3 DEF UpToDate, Loaded, Live, Saves

\* A handler that keeps the record, or puts a user in it.
LEMMA HandlerUpToDate ==
  ASSUME TypeOK, SerialInv, NEW r \in Requests, ServerStep(r),
         pc[r] \in {"handler", "verify", "create"}, ~Logout(r),
         sess'[r].sid = sess[r].sid,
         sess'[r].data.visits = sess[r].data.visits,
         sess'[r].data.user \in Users \cup {sess[r].data.user},
         \/ pc'[r] = "respond"
         \/ pc'[r] \in {"verify", "create"} /\ sess'[r] = sess[r] /\ status'[r] = status[r],
         reply'[r] = reply[r]
  PROVE  UpToDate(r)'
  <1>1. ~Save(r) /\ ~Deliver(r)
    BY DEF Save, Deliver
  <1>2. /\ store' = store /\ Browser(r)' = Browser(r) /\ req'[r].cookie = req[r].cookie
    BY <1>1, OwnFrame
  <1>3. UpToDate(r)
    BY DEF SerialInv
  <1> QED
    BY <1>2, <1>3 DEF UpToDate, Loaded, Live, OneVisitOn

\* Finishing a login puts the user into the record, if anything.
LEMMA LoginUpToDate ==
  ASSUME TypeOK, SerialInv, NEW r \in Requests, ServerStep(r),
         pc[r] \in {"handler", "verify", "create"}, req[r].kind \in LoginKinds,
         NEW row, FinishLogin(r, row), UNCHANGED reply
  PROVE  UpToDate(r)'
  <1>0. FunsOK /\ sess[r] \in Session /\ sess[r].data \in UserSession /\ req[r].who \in Users
    BY Funs DEF TypeOK, Session, Request
  <1>1. /\ pc'[r] = "respond" /\ sess'[r].sid = sess[r].sid
        /\ sess'[r].data.user \in Users \cup {sess[r].data.user}
    BY <1>0, FinishLoginEffect
  <1>2. sess'[r].data.visits = sess[r].data.visits
    <2>1. CASE row = "active"
      <3>1. sess'[r] = [sess[r] EXCEPT !.data.user = req[r].who, !.modified = TRUE]
        BY <1>0, <2>1 DEF FinishLogin, FunsOK
      <3>2. sess'[r].data = [sess[r].data EXCEPT !.user = req[r].who]
        BY <1>0, <3>1 DEF Session
      <3> QED
        BY <1>0, <3>2 DEF UserSession
    <2>2. CASE row # "active"
      BY <2>2 DEF FinishLogin
    <2> QED
      BY <2>1, <2>2
  <1>3. ~Logout(r)
    BY DEF Logout, LoginKinds
  <1> QED
    BY <1>1, <1>2, <1>3, HandlerUpToDate

LEMMA AnswerUpToDate ==
  ASSUME TypeOK, SerialInv, NEW r \in Requests, ServerStep(r),
         pc[r] \in {"handler", "verify", "create"}, ~Logout(r),
         NEW code, Answer(r, code), UNCHANGED <<sess, reply>>
  PROVE  UpToDate(r)'
  <1>1. pc'[r] = "respond"
    BY Funs DEF Answer, FunsOK
  <1> QED
    BY <1>1, HandlerUpToDate

LEMMA ErrorUpToDate ==
  ASSUME TypeOK, SerialInv, NEW r \in Requests, DbError(r)
  PROVE  UpToDate(r)'
  <1>0. FunsOK /\ UpToDate(r) /\ sess[r] \in Session /\ req[r] \in Request
    BY Funs DEF SerialInv, TypeOK
  <1>1. pc'[r] = "respond" /\ status'[r] = 500 /\ reply' = reply /\ UNCHANGED <<store, req>>
    BY <1>0 DEF DbError, Answer, FunsOK
  <1>2. ~Saves(r)'
    BY <1>1 DEF Saves
  <1>3. \/ pc[r] = "sent" /\ sess'[r].sid # NoSid
        \/ Loaded(r) /\ sess'[r].sid = sess[r].sid
    BY <1>0 DEF DbError, FunsOK, Closed, Session, Loaded
  <1> QED
    BY <1>0, <1>1, <1>2, <1>3 DEF UpToDate, Loaded, Live

LEMMA LogoutUpToDate ==
  ASSUME TypeOK, SerialInv, NEW r \in Requests, Logout(r)
  PROVE  UpToDate(r)' /\ ~Live(req[r].cookie)' /\ sess'[r].sid = NoSid
  <1>0. FunsOK /\ UpToDate(r) /\ store = [s \in Sids |-> store[s]]
    BY Funs DEF SerialInv, TypeOK
  <1>1. /\ pc[r] = "handler" /\ pc'[r] = "respond" /\ reply' = reply /\ UNCHANGED req
        /\ sess'[r].sid = NoSid /\ sess'[r].data = EmptyData
    BY <1>0 DEF Logout, Answer, FunsOK, Closed
  <1>2. ~Live(req[r].cookie)'
    <2>1. store' = [store EXCEPT ![sess[r].sid] = NoRow] /\ pc[r] = "handler" /\ req' = req
      BY DEF Logout
    <2>2. CASE sess[r].sid = NoSid
      BY <1>0, <2>1, <2>2 DEF UpToDate, Loaded, Live, NoRow
    <2>3. CASE sess[r].sid # NoSid
      <3>1. sess[r].sid = req[r].cookie
        BY <1>0, <2>1, <2>3 DEF UpToDate, Loaded
      <3>2. req[r].cookie \in Sids \cup {NoSid}
        BY DEF TypeOK, Request
      <3> QED
        BY <1>0, <2>1, <3>1, <3>2 DEF Live, NoRow
    <2> QED
      BY <2>2, <2>3
  <1>3. ~Saves(r)'
    BY <1>1 DEF Saves, IsEmpty
  <1> QED
    BY <1>0, <1>1, <1>2, <1>3 DEF UpToDate, Loaded

\* Save writes the record to the row the cookie names, or to a new one that no
\* cookie names.
LEMMA SaveUpToDate ==
  ASSUME TypeOK, OwnerInv, SerialInv, NEW r \in Requests, Save(r)
  PROVE  /\ UpToDate(r)'
         /\ sess[r].sid # NoSid => /\ sess[r].sid = req[r].cookie
                                   /\ Browser(r)' = sess[r].data
         /\ sess[r].sid = NoSid => Browser(r)' = Browser(r)
  <1> HIDE DEF Requests
  <1> DEFINE s == SaveAs(r)
  <1>0. /\ FunsOK /\ UpToDate(r) /\ store = [t \in Requests |-> store[t]]
        /\ reply = [t \in Requests |-> reply[t]]
        /\ sess[r] \in Session /\ req[r].client \in Clients
        /\ 0 \notin Requests /\ req[r].cookie \in Requests \cup {0}
    BY Funs DEF SerialInv, TypeOK, Request, Requests
  <1>1. /\ pc[r] = "respond" /\ Saves(r) /\ pc'[r] = "reply"
        /\ store' = [store EXCEPT ![s] = [state |-> "live", data |-> sess[r].data]]
        /\ sess'[r].sid = s
        /\ reply'[r] = "set" /\ UNCHANGED <<cookie, req, status>>
    BY <1>0 DEF Save, FunsOK, Session
  <1>2. s \in Requests /\ s # 0
    BY <1>0 DEF SaveAs, Session, Requests
  <1>3. store'[s].state = "live" /\ store'[s].data = sess[r].data
    BY <1>0, <1>1, <1>2
  <1>4. Flying(r) /\ cookie[req[r].client] = req[r].cookie
    BY <1>1 DEF Flying, SerialInv
  <1>5. OneVisitOn(r) /\ status[r] # 500
    BY <1>0, <1>1 DEF UpToDate, Saves
  <1>6. CASE sess[r].sid # NoSid
    <2>1. sess[r].sid = req[r].cookie /\ s = req[r].cookie
      BY <1>0, <1>1, <1>5, <1>6 DEF UpToDate, Loaded, SaveAs
    <2>2. Browser(r)' = sess[r].data
      BY <1>1, <1>2, <1>3, <1>4, <2>1 DEF Browser, Current
    <2> QED
      BY <1>1, <1>2, <1>3, <1>6, <2>1, <2>2 DEF UpToDate, Loaded, Live
  <1>7. CASE sess[r].sid = NoSid
    <2>1. s = r /\ ~Live(req[r].cookie)
      BY <1>0, <1>1, <1>7 DEF UpToDate, Loaded, SaveAs
    <2>2. req[r].cookie # r
      BY <1>0, <1>1 DEF OwnerInv, Known
    <2>3. ~Live(req[r].cookie)' /\ Browser(r)' = Browser(r)
      BY <1>0, <1>1, <1>4, <2>1, <2>2 DEF Live, Browser, Current
    <2>4. store'[s].data.visits = 1
      <3>1. Browser(r) = EmptyData
        BY <1>4, <2>1, NothingLive
      <3> QED
        BY <1>3, <1>5, <3>1 DEF OneVisitOn, EmptyData
    <2> QED
      BY <1>1, <1>2, <1>3, <1>7, <2>1, <2>3, <2>4 DEF UpToDate, Loaded, Live
  <1> QED
    BY <1>6, <1>7

\* Every step of a request leaves its record up to date.
LEMMA SelfUpToDate ==
  ASSUME TypeOK, OwnerInv, GrantInv, SerialInv, NEW r \in Requests,
         ServerStep(r) \/ BrowserStep(r)
  PROVE  UpToDate(r)'
  <1> HIDE DEF Requests
  <1>0. FunsOK /\ UpToDate(r) /\ InItsHandler(r) /\ reply = [q \in Requests |-> reply[q]]
    BY Funs DEF SerialInv, GrantInv, TypeOK
  <1>1. CASE \E c \in Clients, kind \in Kinds : SendSome(r, c, kind)
    <2>1. pc'[r] = "sent" /\ pc[r] = "unsent" /\ UNCHANGED <<status, reply>>
      BY <1>0, <1>1 DEF SendSome, Send, FunsOK
    <2> QED
      BY <1>0, <2>1 DEF UpToDate, Loaded
  <1>2. CASE SelectByUsername(r)
    <2>1. ServerStep(r) /\ ~Logout(r) /\ pc[r] = "handler" /\ UNCHANGED <<sess, reply>>
      BY <1>2 DEF ServerStep, Handle, Logout, SelectByUsername
    <2>2. CASE UserByUsername(req[r].who) = "absent"
      BY <1>2, <2>1, <2>2, AnswerUpToDate DEF SelectByUsername
    <2>3. CASE UserByUsername(req[r].who) # "absent"
      <3>1. pc'[r] = "verify" /\ status' = status
        BY <1>0, <1>2, <2>3 DEF SelectByUsername, FunsOK
      <3> QED
        BY <2>1, <3>1, HandlerUpToDate
    <2> QED
      BY <2>2, <2>3
  <1>3. CASE \E ok \in BOOLEAN : VerifyPassword(r, ok)
    <2> PICK ok \in BOOLEAN : VerifyPassword(r, ok)
      BY <1>3
    <2>1. ServerStep(r) /\ ~Logout(r) /\ pc[r] = "verify" /\ UNCHANGED reply
      BY <1>3 DEF ServerStep, Handle, Logout, VerifyPassword
    <2>2. req[r].kind \in LoginKinds
      BY <1>0, <2>1 DEF InItsHandler, LoginKinds
    <2>3. FinishLogin(r, found[r]) \/ (Answer(r, 401) /\ UNCHANGED sess)
      BY DEF VerifyPassword
    <2> QED
      BY <2>1, <2>2, <2>3, LoginUpToDate, AnswerUpToDate
  <1>4. CASE SelectByExternalId(r)
    <2>1. /\ ServerStep(r) /\ ~Logout(r) /\ pc[r] = "handler" /\ UNCHANGED reply
          /\ req[r].kind \in LoginKinds
      BY <1>4 DEF ServerStep, Handle, Logout, SelectByExternalId, LoginKinds
    <2>2. CASE account[req[r].who] = "absent"
      <3>1. pc'[r] = "create" /\ UNCHANGED <<sess, status>>
        BY <1>0, <1>4, <2>2 DEF SelectByExternalId, FunsOK
      <3> QED
        BY <2>1, <3>1, HandlerUpToDate
    <2>3. CASE account[req[r].who] # "absent"
      BY <1>4, <2>1, <2>3, LoginUpToDate DEF SelectByExternalId
    <2> QED
      BY <2>2, <2>3
  <1>5. CASE InsertUser(r)
    <2>1. ServerStep(r) /\ ~Logout(r) /\ pc[r] = "create" /\ UNCHANGED reply
      BY <1>5 DEF ServerStep, Handle, Logout, InsertUser
    <2>2. req[r].kind \in LoginKinds
      BY <1>0, <2>1 DEF InItsHandler, LoginKinds
    <2>3. FinishLogin(r, "active") \/ (Answer(r, 500) /\ UNCHANGED sess)
      BY <1>5 DEF InsertUser
    <2> QED
      BY <2>1, <2>2, <2>3, LoginUpToDate, AnswerUpToDate
  <1>6. CASE LoadSession(r) \/ LoadPage(r) \/ Logout(r) \/ DbError(r) \/ Save(r)
    BY <1>6, LoadUpToDate, PageUpToDate, LogoutUpToDate, ErrorUpToDate, SaveUpToDate
  <1>7. CASE SaveError(r)
    BY <1>0, <1>7 DEF SaveError, UpToDate, Loaded, FunsOK
  <1>8. CASE Pass(r)
    <2>1. /\ pc[r] = "respond" /\ pc'[r] = "reply" /\ UNCHANGED <<store, req>>
          /\ reply'[r] \in {"none", "clear"} /\ (reply'[r] = "clear" => IsEmpty(sess[r]))
      BY <1>0, <1>8 DEF Pass, FunsOK
    <2> QED
      BY <1>0, <2>1 DEF UpToDate, Loaded, Live, IsEmpty
  <1>9. CASE Deliver(r) \/ Disconnect(r)
    BY <1>0, <1>9 DEF Deliver, Disconnect, Close, UpToDate, Loaded, FunsOK
  <1> QED
    BY <1>1, <1>2, <1>3, <1>4, <1>5, <1>6, <1>7, <1>8, <1>9
       DEF ServerStep, Handle, BrowserStep

-----------------------------------------------------------------------------
(* The inductive invariant.                                                *)

\* A request is touched by the step of another only if that is the only one of its
\* browser in flight, and then it is over or not sent yet itself.
LEMMA OthersUpToDate ==
  ASSUME TypeOK, OwnerInv, SerialInv, NEW r \in Requests, ServerStep(r) \/ BrowserStep(r),
         NEW q \in Requests, q # r
  PROVE  UpToDate(q)'
  <1> HIDE DEF Requests
  <1>0. /\ FunsOK /\ UpToDate(q) /\ reply = [p \in Requests |-> reply[p]]
        /\ req[q].client \in Clients
        /\ req[q].cookie \in Requests \cup {0} /\ sess[q].sid \in Requests \cup {0}
    BY Funs DEF SerialInv, TypeOK, Request, Session, Requests
  <1>1. Untouched(q)
    BY OthersUntouched
  <1>2. reply'[q] = reply[q]
    BY <1>0 DEF ServerStep, Handle, BrowserStep, SendSome, Send, LoadSession, LoadPage,
                SelectByUsername, VerifyPassword, SelectByExternalId, InsertUser, Logout,
                DbError, Save, SaveError, Pass, Deliver, Disconnect, Close
  <1>3. CASE ~Flying(q)
    BY <1>0, <1>1, <1>2, <1>3 DEF Flying, UpToDate, Untouched, Loaded
  <1>4. ASSUME Browser(q)' = Browser(q),
               \A s \in {req[q].cookie, sess[q].sid} : s # 0 => store'[s] = store[s]
        PROVE  UpToDate(q)'
    <2>1. /\ Live(req[q].cookie)' <=> Live(req[q].cookie)
          /\ Live(sess[q].sid)' <=> Live(sess[q].sid)
      BY <1>1, <1>4 DEF Live, Untouched
    <2>2. sess[q].sid # 0 => store'[sess[q].sid] = store[sess[q].sid]
      BY <1>4
    <2>3. OneVisitOn(q)' <=> OneVisitOn(q)
      BY <1>1, <1>4 DEF OneVisitOn, Untouched
    <2>4. Saves(q)' <=> Saves(q)
      BY <1>1 DEF Saves, IsEmpty, Untouched
    <2>5. pc[q] = "reply" /\ reply[q] = "set" => sess[q].sid # 0
      BY <1>0 DEF UpToDate, Live
    <2> QED
      BY <1>0, <1>1, <1>2, <1>4, <2>1, <2>2, <2>3, <2>4, <2>5 DEF UpToDate, Untouched, Loaded
  <1>5. CASE Flying(q) /\ ~Flying(r)
    <2>1. \E c \in Clients, kind \in Kinds : SendSome(r, c, kind)
      BY <1>5 DEF ServerStep, Handle, BrowserStep, LoadSession, LoadPage,
                  SelectByUsername, VerifyPassword, SelectByExternalId, InsertUser, Logout,
                  DbError, Save, SaveError, Pass, Deliver, Disconnect, Flying
    <2>2. UNCHANGED <<store, cookie>>
      BY <2>1 DEF SendSome, Send
    <2>3. Browser(q)' = Browser(q)
      BY <1>1, <2>2 DEF Browser, Current, Untouched
    <2> QED
      BY <1>4, <2>2, <2>3
  <1>6. CASE Flying(q) /\ Flying(r)
    <2> PICK c : c = req[q].client
      OBVIOUS
    <2>1. c # req[r].client /\ c \in Clients
      BY <1>0, <1>6 DEF SerialInv
    <2>2. Known(req[q].cookie, c) /\ Known(sess[q].sid, c)
      BY DEF OwnerInv
    <2>3. \A s \in {req[q].cookie, sess[q].sid} : s # 0 => store'[s] = store[s]
      BY <1>0, <2>1, <2>2, StoreFrame DEF Sids
    <2>4. Browser(q)' = Browser(q)
      <3>1. Current(c)' = Current(c)
        BY <2>1, CurrentFrame
      <3> QED
        BY <1>1, <3>1 DEF Browser, Current, Untouched
    <2> QED
      BY <1>4, <2>3, <2>4
  <1> QED
    BY <1>3, <1>5, <1>6

OneAtATime == \A q, r \in Requests :
                Flying(q) /\ Flying(r) /\ req[q].client = req[r].client => q = r
CookiesKept == \A r \in Requests : Flying(r) => req[r].cookie = cookie[req[r].client]
RowsLive == \A s \in Sids : store[s].state = "live" \/ store[s] = NoRow
FlushedGone == \A s \in LoggedOut : ~Live(s)

\* A request in flight was so before, or has been sent by a browser that had none
\* in flight.
LEMMA FlyingStep ==
  ASSUME Serial, TypeOK, NEW r \in Requests, ServerStep(r) \/ BrowserStep(r),
         NEW q \in Requests, Flying(q)'
  PROVE  \/ /\ Flying(q)
            /\ req'[q].client = req[q].client /\ req'[q].cookie = req[q].cookie
            /\ ~(q = r /\ Deliver(r))
         \/ /\ q = r /\ UNCHANGED cookie
            /\ req'[q].client \in Clients /\ InFlight(req'[q].client) = {}
            /\ req'[q].cookie = cookie[req'[q].client]
  <1> HIDE DEF Requests
  <1>0. FunsOK
    BY Funs
  <1>1. CASE q # r
    BY <1>1, OthersUntouched DEF Untouched, Flying
  <1>2. ASSUME NEW c \in Clients, NEW kind \in Kinds, SendSome(r, c, kind), q = r
        PROVE  /\ req'[r].client = c /\ req'[r].cookie = cookie[c] /\ UNCHANGED cookie
               /\ InFlight(c) = {}
    <2>1. /\ Cardinality(InFlight(c)) < PerClient /\ UNCHANGED cookie
          /\ req'[r].client = c /\ req'[r].cookie = cookie[c]
      BY <1>0, <1>2 DEF SendSome, Send, FunsOK
    <2>2. IsFiniteSet(Requests) /\ InFlight(c) \in SUBSET Requests
      BY ConstantsOK, FS_Interval DEF Requests, InFlight
    <2>3. IsFiniteSet(InFlight(c))
      BY <2>2, FS_Subset
    <2>4. Cardinality(InFlight(c)) \in Nat
      BY <2>3, FS_CardinalityType
    <2>5. Cardinality(InFlight(c)) = 0
      BY <2>1, <2>4 DEF Serial
    <2> QED
      BY <2>1, <2>3, <2>5, FS_EmptySet
  <1>3. CASE q = r /\ (ServerStep(r) \/ Deliver(r) \/ Disconnect(r))
    <2>1. pc'[r] # "done" => pc[r] # "done" /\ ~Deliver(r)
      BY <1>0 , <1>3 DEF ServerStep, Handle, LoadSession, LoadPage, SelectByUsername,
                  VerifyPassword, SelectByExternalId, InsertUser, Logout, DbError,
                  Save, SaveError, Pass, Deliver, Disconnect, Close, FunsOK
    <2> QED
      BY <1>3, <2>1, ReqKept DEF Flying
  <1> QED
    BY <1>1, <1>2, <1>3 DEF BrowserStep

\* One request of a browser at a time, with the cookie the browser still has.
LEMMA FlightStep ==
  ASSUME Serial, TypeOK, SerialInv, NEW r \in Requests, ServerStep(r) \/ BrowserStep(r)
  PROVE  OneAtATime' /\ CookiesKept'
  <1> HIDE DEF Requests
  <1>0. \A q \in Requests : req[q].client \in Clients
    BY DEF TypeOK, Request
  <1>1. ASSUME NEW q \in Requests, Flying(q) PROVE q \in InFlight(req[q].client)
    BY <1>1 DEF InFlight, Flying
  <1>2. ASSUME NEW q \in Requests, NEW p \in Requests, Flying(q)', Flying(p)',
               req'[q].client = req'[p].client
        PROVE  q = p
    BY <1>1, <1>2, FlyingStep DEF SerialInv
  <1>3. ASSUME NEW q \in Requests, Flying(q)'
        PROVE  req'[q].cookie = cookie'[req'[q].client]
    <2>1. CASE q = r /\ UNCHANGED cookie /\ req'[q].cookie = cookie[req'[q].client]
      BY <2>1
    <2>2. CASE /\ Flying(q)
               /\ req'[q].client = req[q].client /\ req'[q].cookie = req[q].cookie
               /\ ~(q = r /\ Deliver(r))
      <3>1. Deliver(r) => Flying(r)
        BY DEF Deliver, Flying
      <3>2. Deliver(r) => req[q].client # req[r].client
        BY <2>2, <3>1 DEF SerialInv
      <3>3. cookie'[req[q].client] = cookie[req[q].client]
        BY <1>0, <3>2, CookieFrame
      <3> QED
        BY <2>2, <3>3 DEF SerialInv
    <2> QED
      BY <1>3, <2>1, <2>2, FlyingStep
  <1> QED
    BY <1>2, <1>3 DEF OneAtATime, CookiesKept

\* Rows are live or gone.
LEMMA RowsStep ==
  ASSUME TypeOK, SerialInv, NEW r \in Requests, ServerStep(r) \/ BrowserStep(r)
  PROVE  RowsLive'
  <1> HIDE DEF Requests
  <1>0. RowsLive /\ store = [s \in Requests |-> store[s]]
    BY DEF SerialInv, RowsLive, TypeOK
  <1>1. CASE Save(r)
    BY <1>0, <1>1 DEF Save, RowsLive
  <1>2. CASE Logout(r)
    BY <1>0, <1>2 DEF Logout, RowsLive
  <1>3. CASE UNCHANGED store
    BY <1>0, <1>3 DEF RowsLive
  <1> QED
    BY <1>1, <1>2, <1>3
       DEF ServerStep, Handle, BrowserStep, SendSome, Send, LoadSession, LoadPage,
           SelectByUsername, VerifyPassword, SelectByExternalId, InsertUser, DbError,
           SaveError, Pass, Deliver, Disconnect

\* A row that is gone does not come back: what is saved was loaded from a row that
\* is still there, or is saved under a new id.
LEMMA GoneStays ==
  ASSUME TypeOK, SerialInv, NEW r \in Requests, ServerStep(r) \/ BrowserStep(r),
         NEW s \in Sids \cup {NoSid}, ~Live(s), s # NoSid => pc[s] \in {"reply", "done"}
  PROVE  ~Live(s)'
  <1> HIDE DEF Requests
  <1>0. UpToDate(r) /\ store = [t \in Requests |-> store[t]] /\ 0 \notin Requests
    BY DEF SerialInv, TypeOK, Requests
  <1>1. CASE Save(r)
    <2>1. pc[r] = "respond" /\ Saves(r)
      BY <1>1 DEF Save
    <2>2. SaveAs(r) # s
      BY <1>0, <2>1 DEF SaveAs, UpToDate, Loaded, Saves, Live
    <2> QED
      BY <1>0, <1>1, <2>2 DEF Save, Live
  <1>2. CASE Logout(r)
    BY <1>0, <1>2 DEF Logout, Live, NoRow
  <1>3. CASE UNCHANGED store
    BY <1>3 DEF Live
  <1> QED
    BY <1>1, <1>2, <1>3
       DEF ServerStep, Handle, BrowserStep, SendSome, Send, LoadSession, LoadPage,
           SelectByUsername, VerifyPassword, SelectByExternalId, InsertUser, DbError,
           SaveError, Pass, Deliver, Disconnect

\* Only a flush answers a logout with 200.
LEMMA LogoutAnswer ==
  ASSUME TypeOK, GrantInv, SerialInv, NEW r \in Requests, ServerStep(r) \/ BrowserStep(r),
         req'[r].kind = "logout", status'[r] = 200, ~Logout(r)
  PROVE  req[r].kind = "logout" /\ status[r] = 200 /\ req'[r].cookie = req[r].cookie
  <1> HIDE DEF Requests
  <1>0. FunsOK /\ UpToDate(r) /\ InItsHandler(r)
    BY Funs DEF SerialInv, GrantInv
  <1>1. CASE \E c \in Clients, kind \in Kinds : SendSome(r, c, kind)
    BY <1>0, <1>1 DEF SendSome, Send, UpToDate
  <1>2. CASE ServerStep(r) \/ Deliver(r) \/ Disconnect(r)
    <2>1. req[r].kind = "logout" /\ req'[r].cookie = req[r].cookie
      BY <1>2, ReqKept
    <2>2. ~LoadSession(r) /\ ~LoadPage(r)
      BY <1>0, <2>1 DEF LoadSession, LoadPage, FunsOK
    <2>3. /\ ~SelectByUsername(r) /\ ~SelectByExternalId(r) /\ ~InsertUser(r)
          /\ ~\E ok \in BOOLEAN : VerifyPassword(r, ok)
      BY <1>0, <2>1 DEF SelectByUsername, SelectByExternalId, InsertUser, VerifyPassword,
                        InItsHandler
    <2>4. ~DbError(r) /\ ~SaveError(r)
      BY <1>0 DEF DbError, SaveError, Answer, FunsOK
    <2>5. status' = status
      BY <1>2, <2>2, <2>3, <2>4 DEF ServerStep, Handle, Save, Pass, Deliver, Disconnect
    <2> QED
      BY <2>1, <2>5
  <1> QED
    BY <1>1, <1>2 DEF BrowserStep

LEMMA FlushedStep ==
  ASSUME TypeOK, OwnerInv, GrantInv, SerialInv, NEW r \in Requests,
         ServerStep(r) \/ BrowserStep(r)
  PROVE  FlushedGone'
  <1> HIDE DEF Requests
  <1>1. ASSUME NEW q \in Requests, req'[q].kind = "logout", status'[q] = 200
        PROVE  ~Live(req[q].cookie)'
    <2>1. CASE q = r /\ Logout(r)
      BY <2>1, LogoutUpToDate
    <2>2. CASE ~(q = r /\ Logout(r))
      <3>1. req[q].kind = "logout" /\ status[q] = 200 /\ req'[q].cookie = req[q].cookie
        BY <1>1, <2>2, LogoutAnswer, OthersUntouched DEF Untouched
      <3>2. ~Live(req[q].cookie)
        BY <3>1 DEF SerialInv, LoggedOut
      <3>3. /\ req[q].cookie \in Sids \cup {NoSid}
            /\ req[q].cookie # NoSid => pc[req[q].cookie] \in {"reply", "done"}
        BY DEF TypeOK, Request, OwnerInv, Known
      <3>4. ASSUME NEW s, s = req[q].cookie PROVE ~Live(s)'
        BY <3>2, <3>3, <3>4, GoneStays
      <3> QED
        BY <3>1, <3>4 DEF Live
    <2> QED
      BY <2>1, <2>2
  <1> QED
    BY <1>1 DEF FlushedGone, LoggedOut, Live

\* SerialInv is kept by every step.
LEMMA SerialStep ==
  ASSUME Serial
  PROVE  TypeOK /\ OwnerInv /\ GrantInv /\ SerialInv /\ [Next]_vars => SerialInv'
  <1> SUFFICES ASSUME TypeOK, OwnerInv, GrantInv, SerialInv, [Next]_vars PROVE SerialInv'
    OBVIOUS
  <1>1. ASSUME NEW r \in Requests, ServerStep(r) \/ BrowserStep(r) PROVE SerialInv'
    <2>1. \A q \in Requests : UpToDate(q)'
      BY <1>1, SelfUpToDate, OthersUpToDate
    <2>2. OneAtATime' /\ CookiesKept' /\ RowsLive' /\ FlushedGone'
      BY <1>1, FlightStep, RowsStep, FlushedStep
    <2> QED
      BY <2>1, <2>2 DEF SerialInv, OneAtATime, CookiesKept, RowsLive, FlushedGone
  <1>2. CASE UNCHANGED <<store, cookie, pc, req, sess, status, reply>>
    BY <1>2 DEF SerialInv, UpToDate, Flying, Live, Loaded, Saves, IsEmpty, OneVisitOn, Browser,
                Current, LoggedOut
  <1>3. CASE Environment
    BY <1>2, <1>3 DEF Environment, Expire, DeleteExpired, CookieExpires, Disable, Serial,
                      SerialInv, NoRow
  <1> QED
    BY <1>1, <1>2, <1>3 DEF Next, AllDone, vars

\* With one request of a browser in flight and no expiry, records in flight are up
\* to date, and what was logged out is gone.
THEOREM SerialCorrect ==
  ASSUME Serial
  PROVE  Spec => [](TypeOK /\ OwnerInv /\ GrantInv /\ SerialInv)
  <1>1. Init => GrantInv
    BY DEF Init, GrantInv, Present, NoRow, Loaded, InItsHandler
  <1>2. Init => SerialInv
    BY DEF Init, SerialInv, UpToDate, Flying, Live, Loaded, LoggedOut, NoRow
  <1> QED
    BY <1>1, <1>2, TypeCorrect, OwnerCorrect, GrantStep, SerialStep, PTL DEF Spec

-----------------------------------------------------------------------------
(* Refinement.                                                             *)

AbstractUser   == [c \in Clients |-> Current(c).user]
AbstractVisits == [c \in Clients |-> Current(c).visits]

\* A step that leaves every other browser alone, and moves one by an abstract step
\* or not at all, is a step of BrowserSession.
LEMMA OneMoves ==
  ASSUME NEW c \in Clients, \A d \in Clients \ {c} : Current(d)' = Current(d),
         \/ Current(c)' = Current(c)
         \/ Current(c)' = EmptyData
         \/ /\ Current(c).visits' = Current(c).visits + 1
            /\ Current(c).user' \in Users \cup {Current(c).user}
  PROVE  [Abstract!Next]_<<AbstractUser, AbstractVisits>>
  <1> USE DEF AbstractUser, AbstractVisits
  <1>1. CASE Current(c)' = Current(c)
    <2>1. \A d \in Clients : Current(d)' = Current(d)
      BY <1>1
    <2> HIDE DEF Current
    <2> QED
      BY <2>1
  <1>2. CASE Current(c)' = EmptyData
    <2>1. Current(c).user' = NoUser /\ Current(c).visits' = 0
      BY <1>2 DEF EmptyData
    <2>2. Abstract!Logout(c)
      BY <2>1 DEF Abstract!Logout
    <2> QED
      BY <2>2 DEF Abstract!Next
  <1>3. CASE Current(c).visits' = Current(c).visits + 1 /\ Current(c).user' = Current(c).user
    <2>1. Abstract!Visit(c)
      BY <1>3 DEF Abstract!Visit
    <2> QED
      BY <2>1 DEF Abstract!Next
  <1>4. CASE Current(c).visits' = Current(c).visits + 1 /\ Current(c).user' \in Users
    <2>1. Abstract!Login(c, Current(c).user')
      BY <1>4 DEF Abstract!Login
    <2> QED
      BY <1>4, <2>1 DEF Abstract!Next
  <1> QED
    BY <1>1, <1>2, <1>3, <1>4

\* What the step of a request does to what its browser has: it leaves it alone,
\* starts it over, or moves it one visit on, with a login or without.
LEMMA BrowserMoves ==
  ASSUME TypeOK, OwnerInv, SerialInv, NEW r \in Requests,
         ServerStep(r) \/ Deliver(r) \/ Disconnect(r)
  PROVE  \/ Browser(r)' = Browser(r)
         \/ Browser(r)' = EmptyData
         \/ /\ Browser(r).visits' = Browser(r).visits + 1
            /\ Browser(r).user' \in Users \cup {Browser(r).user}
  <1> HIDE DEF Requests
  <1>0. /\ FunsOK /\ UpToDate(r) /\ req[r].client \in Clients
        /\ cookie = [c \in Clients |-> cookie[c]]
        /\ store \in [Requests -> Row] /\ sess[r].sid \in Requests \cup {0}
    BY Funs DEF SerialInv, TypeOK, Request, Session, Sids
  <1>1. CASE Save(r)
    <2>1. Browser(r)' = Browser(r) \/ Browser(r)' = sess[r].data
      BY <1>1, SaveUpToDate
    <2>2. OneVisitOn(r) /\ sess[r].data.user \in Users \cup {Browser(r).user}
      BY <1>0, <1>1 DEF Save, UpToDate
    <2> HIDE DEF Browser
    <2> QED
      BY <2>1, <2>2 DEF OneVisitOn
  <1>2. CASE Logout(r)
    <2>1. ~Live(req[r].cookie)' /\ UNCHANGED <<cookie, req>>
      BY <1>2, LogoutUpToDate DEF Logout
    <2>2. cookie[req[r].client] = req[r].cookie
      BY <1>2 DEF Logout, Flying, SerialInv
    <2> QED
      BY <2>1, <2>2 DEF Browser, Current, Live
  <1>3. CASE Deliver(r)
    <2>1. /\ pc[r] = "reply" /\ UNCHANGED store
          /\ req'[r].client = req[r].client
          /\ cookie'[req[r].client] = IF reply[r] = "set" THEN sess[r].sid
                                      ELSE IF reply[r] = "clear" THEN NoSid
                                      ELSE cookie[req[r].client]
      BY <1>0, <1>3, ReqKept DEF Deliver
    <2>2. Flying(r) /\ cookie[req[r].client] = req[r].cookie
      BY <2>1 DEF Flying, SerialInv
    <2>3. CASE reply[r] = "set" /\ sess[r].sid = req[r].cookie
      BY <2>1, <2>2, <2>3 DEF Browser, Current
    <2>4. CASE reply[r] = "set" /\ sess[r].sid # req[r].cookie
      <3>1. /\ Live(sess[r].sid) /\ ~Live(req[r].cookie)
            /\ store[sess[r].sid].data.visits = 1
        BY <1>0, <2>1, <2>4 DEF UpToDate
      <3>2. Browser(r) = EmptyData
        BY <2>2, <3>1, NothingLive
      <3>3. Browser(r)' = store[sess[r].sid].data
        BY <2>1, <2>4, <3>1 DEF Browser, Current, Live
      <3>4. store[sess[r].sid].data.user \in Users \cup {NoUser}
        BY <1>0, <3>1 DEF Row, UserSession, Live
      <3> HIDE DEF Browser
      <3> QED
        BY <3>1, <3>2, <3>3, <3>4 DEF EmptyData
    <2>5. CASE reply[r] = "clear"
      BY <2>1, <2>5 DEF Browser, Current
    <2>6. CASE reply[r] \notin {"set", "clear"}
      BY <2>1, <2>6 DEF Browser, Current
    <2> QED
      BY <2>3, <2>4, <2>5, <2>6
  <1>4. CASE ~Save(r) /\ ~Logout(r) /\ ~Deliver(r)
    BY <1>4, OwnFrame
  <1> QED
    BY <1>1, <1>2, <1>3, <1>4

\* Every step is one of BrowserSession's, or changes nothing the browsers see.
LEMMA RefinementStep ==
  ASSUME Serial, TypeOK, OwnerInv, SerialInv, [Next]_vars
  PROVE  [Abstract!Next]_<<AbstractUser, AbstractVisits>>
  <1> HIDE DEF Requests
  <1>1. ASSUME \A d \in Clients : Current(d)' = Current(d)
        PROVE  [Abstract!Next]_<<AbstractUser, AbstractVisits>>
    BY <1>1 DEF AbstractUser, AbstractVisits
  <1>2. ASSUME NEW r \in Requests, ServerStep(r) \/ Deliver(r) \/ Disconnect(r)
        PROVE  [Abstract!Next]_<<AbstractUser, AbstractVisits>>
    <2> PICK c : c = req[r].client
      OBVIOUS
    <2>1. c \in Clients /\ req'[r].client = c
      BY <1>2, ReqKept DEF TypeOK, Request
    <2>2. \A d \in Clients \ {c} : Current(d)' = Current(d)
      BY <1>2, CurrentFrame DEF BrowserStep
    <2>3. Browser(r) = Current(c) /\ Browser(r)' = Current(c)'
      BY <2>1 DEF Browser, Current
    <2> QED
      BY <1>2, <2>1, <2>2, <2>3, BrowserMoves, OneMoves
  <1>3. CASE UNCHANGED <<store, cookie>>
    <2>1. \A d \in Clients : Current(d)' = Current(d)
      BY <1>3 DEF Current
    <2> QED
      BY <1>1, <2>1
  <1>4. CASE Environment
    BY <1>3, <1>4 DEF Environment, Expire, DeleteExpired, CookieExpires, Disable, Serial,
                      SerialInv, NoRow
  <1>5. ASSUME NEW r \in Requests, \E c \in Clients, kind \in Kinds : SendSome(r, c, kind)
        PROVE  UNCHANGED <<store, cookie>>
    BY <1>5 DEF SendSome, Send
  <1> QED
    BY <1>2, <1>3, <1>4, <1>5 DEF Next, BrowserStep, AllDone, vars

\* The session store implements BrowserSession (tower_sessions' Session and
\* user_session_middleware): what a browser that waits for its answers has is one
\* counter and one login, moved atomically by its own requests, whatever the other
\* browsers do and whichever database calls fail or connections close.
THEOREM RefinementCorrect ==
  ASSUME Serial
  PROVE  Spec => ImplementsBrowserSession
  <1>1. Init => Abstract!Init
    BY DEF Init, Abstract!Init, Current, EmptyData
  <1>2. TypeOK /\ OwnerInv /\ SerialInv /\ [Next]_vars =>
          [Abstract!Next]_<<AbstractUser, AbstractVisits>>
    BY RefinementStep
  <1> QED
    BY <1>1, <1>2, SerialCorrect, PTL
       DEF Spec, ImplementsBrowserSession, Abstract!Spec, AbstractUser, AbstractVisits

\* logout_handler: a flushed session has no row, and none comes back.
THEOREM LogoutClearsCorrect ==
  ASSUME Serial
  PROVE  Spec => []LogoutClears
  <1>1. TypeOK /\ SerialInv => LogoutClears
    BY DEF SerialInv, LogoutClears, LoggedOut, Present, Live, NoRow, TypeOK, Request
  <1> QED
    BY <1>1, SerialCorrect, PTL

\* What Save writes over a row that is logged in is logged in.
LEMMA SaveSticks ==
  ASSUME TypeOK, OwnerInv, SerialInv, NEW r \in Requests, Save(r),
         NEW s \in Sids, store[s].data.user # NoUser
  PROVE  store'[s].data.user # NoUser
  <1> HIDE DEF Requests
  <1>0. /\ UpToDate(r) /\ pc[r] = "respond" /\ Saves(r)
        /\ store = [t \in Requests |-> store[t]] /\ s \in Requests /\ s # 0
        /\ store' = [store EXCEPT ![SaveAs(r)] = [state |-> "live", data |-> sess[r].data]]
    BY DEF SerialInv, Save, TypeOK, Requests
  <1>1. CASE SaveAs(r) # s
    BY <1>0, <1>1
  <1>2. CASE SaveAs(r) = s /\ sess[r].sid # NoSid
    <2>1. s = req[r].cookie /\ Live(s)
      BY <1>0, <1>2 DEF SaveAs, UpToDate, Loaded, Saves
    <2>2. Browser(r) = store[s].data
      BY <1>0, <2>1, NothingLive DEF Flying
    <2>3. sess[r].data.user \in Users \cup {store[s].data.user}
      BY <1>0, <2>2 DEF UpToDate
    <2>4. sess[r].data.user # NoUser
      BY <2>3, ConstantsOK
    <2> QED
      BY <1>0, <1>2, <2>4
  <1>3. CASE SaveAs(r) = s /\ sess[r].sid = NoSid
    <2>1. s = r /\ Present(s)
      BY <1>0, <1>3 DEF SaveAs, SerialInv, Present, NoRow, EmptyData
    <2>2. Known(r, req[r].client)
      BY <2>1 DEF OwnerInv
    <2> QED
      BY <1>0, <2>1, <2>2 DEF Known
  <1> QED
    BY <1>1, <1>2, <1>3

\* finish_login_for_user: a login stays in its row until the row is deleted.
THEOREM LoginSticksCorrect ==
  ASSUME Serial
  PROVE  Spec => LoginSticks
  <1>1. ASSUME TypeOK, OwnerInv, SerialInv, [Next]_vars, NEW s \in Sids,
               store[s].data.user # NoUser, store'[s].state # "absent"
        PROVE  store'[s].data.user # NoUser
    <2> HIDE DEF Requests
    <2>0. store = [t \in Requests |-> store[t]] /\ s \in Requests
      BY <1>1 DEF TypeOK
    <2>1. CASE \E r \in Requests : Save(r)
      BY <1>1, <2>1, SaveSticks
    <2>2. CASE \E r \in Requests : Logout(r)
      BY <1>1, <2>0, <2>2 DEF Logout, NoRow
    <2>3. CASE \E t \in Sids : Expire(t)
      BY <2>3 DEF Expire, Serial
    <2>4. CASE DeleteExpired
      BY <1>1, <2>4 DEF DeleteExpired, SerialInv, NoRow
    <2>5. CASE UNCHANGED store
      BY <1>1, <2>5
    <2> QED
      BY <1>1, <2>1, <2>2, <2>3, <2>4, <2>5, StoreWriters
  <1>2. TypeOK /\ OwnerInv /\ SerialInv /\ [Next]_vars =>
          [\A s \in Sids : store[s].data.user # NoUser /\ store'[s].state # "absent"
                             => store'[s].data.user # NoUser]_vars
    BY <1>1
  <1> QED
    BY <1>2, SerialCorrect, PTL DEF Spec, LoginSticks
=============================================================================
