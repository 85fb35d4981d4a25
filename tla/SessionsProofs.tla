--------------------------- MODULE SessionsProofs ---------------------------
(***************************************************************************)
(* Theorems about Sessions, for every set of browsers, users, request kinds *)
(* and faults, and any number of requests.                                  *)
(***************************************************************************)
EXTENDS Sessions, TLAPS

USE DEF Requests, Sids, Tokens, NoSid, NoToken, UserByExternalId

-----------------------------------------------------------------------------
(* Types.                                                                  *)

LEMMA DataTypes ==
  /\ EmptyData \in UserSession
  /\ NoRow \in Row
  /\ Closed \in Session
  /\ NoRequest \in Request
BY ConstantsOK DEF EmptyData, NoRow, Closed, NoRequest, UserSession, Row, Session,
                   Request, AllKinds, LoginKinds

\* What a request finds in the store is a session handle.
LEMMA LoadRecordType ==
  ASSUME TypeOK, NEW s \in Sids \cup {NoSid}
  PROVE  LoadRecord(s) \in Session
BY DataTypes DEF TypeOK, LoadRecord, Session, Row

\* The middleware turns session data into session data.
LEMMA RefreshType ==
  ASSUME NEW d \in UserSession, NEW r \in Requests
  PROVE  Refresh(d, r) \in UserSession
BY DEF Refresh, UserSession

\* Finishing a login writes well-typed state.
LEMMA FinishLoginType ==
  ASSUME TypeOK, NEW r \in Requests, NEW row, FinishLogin(r, row)
  PROVE  /\ sess' \in [Requests -> Session]
         /\ pc' \in [Requests -> PCs]
         /\ status' \in [Requests -> {0, 200, 401, 403, 500}]
  <1>1. sess' \in [Requests -> Session]
    <2>1. req[r].who \in Users \cup {NoUser} /\ sess[r] \in Session
      BY DEF TypeOK, Request
    <2>2. sess[r].data \in UserSession
      BY <2>1 DEF Session
    <2>3. [sess[r].data EXCEPT !.user = req[r].who] \in UserSession
      BY <2>1, <2>2 DEF UserSession
    <2>4. [sess[r] EXCEPT !.data.user = req[r].who, !.modified = TRUE] \in Session
      BY <2>1, <2>3 DEF Session
    <2> QED
      BY <2>4 DEF FinishLogin, TypeOK
  <1> QED
    BY <1>1 DEF FinishLogin, Answer, TypeOK, PCs

\* One step keeps the types.
LEMMA TypeStep == TypeOK /\ [Next]_vars => TypeOK'
  <1> SUFFICES ASSUME TypeOK, [Next]_vars PROVE TypeOK'
    OBVIOUS
  <1>1. ASSUME NEW r \in Requests, NEW c \in Clients, NEW kind \in Kinds, SendSome(r, c, kind)
        PROVE  TypeOK'
    <2> PICK who \in IF kind \in LoginKinds THEN Users ELSE {NoUser},
             token \in tokens[c] \cup {NoToken} : Send(r, c, kind, who, token)
      BY <1>1, Zenon DEF SendSome
    <2>1. [client |-> c, kind |-> kind, cookie |-> cookie[c], token |-> token,
           who |-> who] \in Request
      BY ConstantsOK DEF TypeOK, Request
    <2> QED
      BY <2>1 DEF Send, TypeOK, PCs
  <1>2. ASSUME NEW r \in Requests, LoadSession(r) PROVE TypeOK'
    <2> DEFINE h == LoadRecord(req[r].cookie)
               d == Refresh(h.data, r)
    <2>1. h \in Session
      BY LoadRecordType DEF TypeOK, Request
    <2>2. d \in UserSession
      BY <2>1, RefreshType DEF Session
    <2>3. [h EXCEPT !.data = d, !.modified = TRUE] \in Session
      BY <2>1, <2>2 DEF Session
    <2> QED
      BY <1>2, <2>3 DEF LoadSession, TypeOK, PCs
  <1>3. ASSUME NEW r \in Requests, LoadPage(r) PROVE TypeOK'
    <2>1. LoadRecord(req[r].cookie) \in Session
      BY LoadRecordType DEF TypeOK, Request
    <2> QED
      BY <1>3, <2>1 DEF LoadPage, TypeOK, PCs
  <1>4. ASSUME NEW r \in Requests, SelectByUsername(r) PROVE TypeOK'
    <2> DEFINE row == UserByUsername(req[r].who)
    <2>1. row \in RowStates
      BY ConstantsOK DEF UserByUsername, TypeOK, RowStates
    <2>2. CASE row = "absent"
      BY <1>4, <2>1, <2>2 DEF SelectByUsername, Answer, TypeOK, PCs, RowStates
    <2>3. CASE row # "absent"
      BY <1>4, <2>1, <2>3 DEF SelectByUsername, TypeOK, PCs, RowStates
    <2> QED
      BY <2>2, <2>3
  <1>5. ASSUME NEW r \in Requests, NEW ok \in BOOLEAN, VerifyPassword(r, ok) PROVE TypeOK'
    <2>1. CASE ok
      BY <1>5, <2>1, FinishLoginType DEF VerifyPassword, TypeOK
    <2>2. CASE ~ok
      BY <1>5, <2>2 DEF VerifyPassword, Answer, TypeOK, PCs
    <2> QED
      BY <2>1, <2>2
  <1>6. ASSUME NEW r \in Requests, SelectByExternalId(r) PROVE TypeOK'
    <2>1. CASE account[req[r].who] = "absent"
      BY <1>6, <2>1 DEF SelectByExternalId, TypeOK, PCs, RowStates
    <2>2. CASE account[req[r].who] # "absent"
      <3>1. account[req[r].who] \in RowStates
        BY <1>6 DEF SelectByExternalId, TypeOK, Request, LoginKinds
      <3> QED
        BY <1>6, <2>2, <3>1, FinishLoginType DEF SelectByExternalId, TypeOK
    <2> QED
      BY <2>1, <2>2
  <1>7. ASSUME NEW r \in Requests, InsertUser(r) PROVE TypeOK'
    <2>1. CASE account[req[r].who] = "absent"
      BY <1>7, <2>1, FinishLoginType DEF InsertUser, TypeOK, RowStates
    <2>2. CASE account[req[r].who] # "absent"
      BY <1>7, <2>2 DEF InsertUser, Answer, TypeOK, PCs
    <2> QED
      BY <2>1, <2>2
  <1>8. ASSUME NEW r \in Requests, Logout(r) PROVE TypeOK'
    BY <1>8, DataTypes DEF Logout, Answer, TypeOK, PCs, Session, Closed
  <1>9. ASSUME NEW r \in Requests, DbError(r) PROVE TypeOK'
    <2>1. sess' \in [Requests -> Session]
      <3>1. CASE sess' = [sess EXCEPT ![r] = [Closed EXCEPT !.sid = req[r].cookie]]
        <4>1. req[r].cookie \in Sids \cup {NoSid}
          BY DEF TypeOK, Request
        <4>2. [Closed EXCEPT !.sid = req[r].cookie] \in Session
          BY <4>1, DataTypes DEF Session, Closed
        <4> QED
          BY <3>1, <4>2 DEF TypeOK
      <3>2. CASE sess' = [sess EXCEPT ![r] = [@ EXCEPT !.data = EmptyData, !.modified = TRUE]]
        <4>1. sess[r] \in Session /\ EmptyData \in UserSession
          BY DataTypes DEF TypeOK
        <4>2. [sess[r] EXCEPT !.data = EmptyData, !.modified = TRUE] \in Session
          BY <4>1 DEF Session
        <4> QED
          BY <3>2, <4>2 DEF TypeOK
      <3>3. CASE UNCHANGED sess
        BY <3>3 DEF TypeOK
      <3> QED
        BY <1>9, <3>1, <3>2, <3>3 DEF DbError
    <2> QED
      BY <1>9, <2>1 DEF DbError, Answer, TypeOK, PCs
  <1>10. ASSUME NEW r \in Requests, Save(r) PROVE TypeOK'
    <2>1. SaveAs(r) \in Sids
      BY DEF SaveAs, TypeOK, Session
    <2>2. [state |-> "live", data |-> sess[r].data] \in Row
      BY DEF TypeOK, Session, Row
    <2> QED
      BY <1>10, <2>1, <2>2 DEF Save, TypeOK, PCs, Session
  <1>11. ASSUME NEW r \in Requests, SaveError(r) PROVE TypeOK'
    BY <1>11 DEF SaveError, TypeOK, PCs
  <1>12. ASSUME NEW r \in Requests, Pass(r) PROVE TypeOK'
    BY <1>12 DEF Pass, TypeOK, PCs
  <1>13. ASSUME NEW r \in Requests, Deliver(r) PROVE TypeOK'
    <2>1. sess[r].data.csrf \in Tokens \cup {NoToken} /\ sess[r].sid \in Sids \cup {NoSid}
      BY DEF TypeOK, Session, UserSession
    <2>2. sess' \in [Requests -> Session]
      BY <1>13, <2>1, DataTypes DEF Deliver, Close, TypeOK, Session, Closed
    <2>3. req' \in [Requests -> Request]
      BY <1>13 DEF Deliver, Close, TypeOK, Request
    <2>4. cookie' \in [Clients -> Sids \cup {NoSid}]
      BY <1>13, <2>1 DEF Deliver, TypeOK
    <2>5. tokens' \in [Clients -> SUBSET Tokens]
      <3>1. Shown(r) \in SUBSET Tokens
        BY <2>1 DEF Shown
      <3>2. tokens' = [tokens EXCEPT ![req[r].client] = @ \cup Shown(r)]
        BY <1>13 DEF Deliver
      <3>3. tokens \in [Clients -> SUBSET Tokens]
        BY DEF TypeOK
      <3> QED
        BY <3>1, <3>2, <3>3
    <2> QED
      BY <1>13, <2>2, <2>3, <2>4, <2>5 DEF Deliver, Close, TypeOK, PCs
  <1>14. ASSUME NEW r \in Requests, Disconnect(r) PROVE TypeOK'
    <2>1. sess' \in [Requests -> Session]
      BY <1>14, DataTypes DEF Disconnect, Close, TypeOK, Session, Closed
    <2>2. req' \in [Requests -> Request]
      BY <1>14 DEF Disconnect, Close, TypeOK, Request
    <2> QED
      BY <1>14, <2>1, <2>2 DEF Disconnect, Close, TypeOK, PCs
  <1>15. CASE Environment
    BY <1>15, DataTypes DEF Environment, Expire, DeleteExpired, CookieExpires, Disable, TypeOK,
                            Row, RowStates
  <1>16. CASE UNCHANGED vars
    BY <1>16 DEF vars, TypeOK
  <1> QED
    BY <1>1, <1>2, <1>3, <1>4, <1>5, <1>6, <1>7, <1>8, <1>9, <1>10, <1>11, <1>12,
       <1>13, <1>14, <1>15, <1>16
       DEF Next, ServerStep, Handle, BrowserStep, AllDone

\* Every state of the server and its browsers has its type.
THEOREM TypeCorrect == Spec => []TypeOK
  <1>1. Init => TypeOK
    BY DataTypes, ConstantsOK DEF Init, TypeOK, PCs, RowStates
  <1> QED
    BY <1>1, TypeStep, PTL DEF Spec

-----------------------------------------------------------------------------
(* Frames.                                                                 *)

\* What a step of request r leaves to another request q.
Untouched(q) ==
  /\ pc'[q] = pc[q]
  /\ req'[q] = req[q]
  /\ sess'[q] = sess[q]
  /\ found'[q] = found[q]
  /\ verified'[q] = verified[q]
  /\ status'[q] = status[q]

\* The functions over requests are functions.
FunsOK ==
  /\ pc = [r \in Requests |-> pc[r]]
  /\ req = [r \in Requests |-> req[r]]
  /\ sess = [r \in Requests |-> sess[r]]
  /\ found = [r \in Requests |-> found[r]]
  /\ verified = [r \in Requests |-> verified[r]]
  /\ status = [r \in Requests |-> status[r]]

LEMMA Funs == TypeOK => FunsOK
BY DEF TypeOK, FunsOK

\* A step of one request touches no other request.
LEMMA OthersUntouched ==
  ASSUME TypeOK, NEW r \in Requests, NEW q \in Requests, q # r,
         ServerStep(r) \/ BrowserStep(r)
  PROVE  Untouched(q)
  <1> USE DEF Untouched, FunsOK
  <1> HIDE DEF Requests
  <1>0. FunsOK
    BY Funs
  <1>1. CASE \E c \in Clients, kind \in Kinds : SendSome(r, c, kind)
    BY <1>0, <1>1 DEF SendSome, Send
  <1>2. CASE LoadSession(r) \/ LoadPage(r)
    BY <1>0, <1>2 DEF LoadSession, LoadPage
  <1>3. CASE SelectByUsername(r)
    BY <1>0, <1>3 DEF SelectByUsername, Answer
  <1>4. ASSUME NEW ok \in BOOLEAN, VerifyPassword(r, ok) PROVE Untouched(q)
    BY <1>0, <1>4 DEF VerifyPassword, FinishLogin, Answer
  <1>5. CASE SelectByExternalId(r)
    BY <1>0, <1>5 DEF SelectByExternalId, FinishLogin, Answer
  <1>6. CASE InsertUser(r)
    BY <1>0, <1>6 DEF InsertUser, FinishLogin, Answer
  <1>7. CASE Logout(r) \/ DbError(r)
    BY <1>0, <1>7 DEF Logout, DbError, Answer
  <1>8. CASE Save(r) \/ SaveError(r) \/ Pass(r)
    BY <1>0, <1>8 DEF Save, SaveError, Pass
  <1>9. CASE Deliver(r) \/ Disconnect(r)
    BY <1>0, <1>9 DEF Deliver, Disconnect, Close
  <1> QED
    BY <1>1, <1>2, <1>3, <1>4, <1>5, <1>6, <1>7, <1>8, <1>9
       DEF ServerStep, Handle, BrowserStep

-----------------------------------------------------------------------------
(* CSRF tokens.                                                            *)

\* Finishing a login answers, and changes the user of the record, nothing else.
LEMMA FinishLoginEffect ==
  ASSUME TypeOK, NEW r \in Requests, NEW row, FinishLogin(r, row)
  PROVE  /\ pc'[r] = "respond"
         /\ sess'[r].sid = sess[r].sid
         /\ sess'[r].data.csrf = sess[r].data.csrf
         /\ sess'[r].data.user = IF row = "active" THEN req[r].who ELSE sess[r].data.user
  <1>1. FunsOK
    BY Funs
  <1>2. pc'[r] = "respond"
    BY <1>1 DEF FinishLogin, Answer, FunsOK
  <1>3. CASE row = "active"
    <2>1. sess[r] \in Session /\ sess[r].data \in UserSession
      BY DEF TypeOK, Session
    <2>2. sess'[r] = [sess[r] EXCEPT !.data.user = req[r].who, !.modified = TRUE]
      BY <1>1, <1>3 DEF FinishLogin, FunsOK
    <2>3. /\ sess'[r].sid = sess[r].sid
          /\ sess'[r].data = [sess[r].data EXCEPT !.user = req[r].who]
      BY <2>1, <2>2 DEF Session
    <2> QED
      BY <1>2, <1>3, <2>1, <2>3 DEF UserSession
  <1>4. CASE row # "active"
    BY <1>2, <1>4 DEF FinishLogin
  <1> QED
    BY <1>3, <1>4

\* A step of request r keeps the token of its own record.
LEMMA TokenSelf ==
  ASSUME TypeOK, TokenInv, NEW r \in Requests, ServerStep(r) \/ BrowserStep(r)
  PROVE  TokenOf(r)'
  <1> USE DEF TokenOf, SaveAs, FunsOK
  <1> HIDE DEF Requests
  <1>0. FunsOK /\ TokenOf(r) /\ 0 \notin Requests /\ sess[r] \in Session /\ req[r] \in Request
    BY Funs DEF TokenInv, TypeOK, Requests
  <1>1. CASE \E c \in Clients, kind \in Kinds : SendSome(r, c, kind)
    <2>1. pc'[r] = "sent"
      BY <1>0, <1>1 DEF SendSome, Send
    <2> QED
      BY <2>1
  <1>2. CASE LoadSession(r)
    <2> DEFINE h == LoadRecord(req[r].cookie)
    <2>1. h.data.csrf = h.sid
      BY <1>0 DEF LoadRecord, TokenInv, Present, Closed, EmptyData, Request
    <2>2. /\ sess'[r].sid = h.sid
          /\ sess'[r].data.csrf = Refresh(h.data, r).csrf
      BY <1>0, <1>2, LoadRecordType DEF LoadSession, Session, Request
    <2>3. pc'[r] = "handler" => status'[r] = 0
      BY <1>0, <1>2 DEF LoadSession
    <2>4. pc'[r] \in {"handler", "respond"}
      BY <1>0, <1>2 DEF LoadSession
    <2> HIDE DEF h
    <2> QED
      BY <2>1, <2>2, <2>3, <2>4 DEF Refresh
  <1>3. CASE LoadPage(r)
    <2>1. sess'[r] = LoadRecord(req[r].cookie) /\ pc'[r] = "respond"
      BY <1>0, <1>3 DEF LoadPage
    <2>2. CASE req[r].cookie # NoSid /\ store[req[r].cookie].state = "live"
      BY <1>0, <2>1, <2>2 DEF LoadRecord, TokenInv, Present, Request
    <2>3. CASE ~(req[r].cookie # NoSid /\ store[req[r].cookie].state = "live")
      <3>1. LoadRecord(req[r].cookie) = Closed
        BY <2>3 DEF LoadRecord
      <3>2. sess'[r].data = EmptyData /\ sess'[r].sid = NoSid
        BY <2>1, <3>1 DEF Closed
      <3> QED
        BY <2>1, <3>2
    <2> QED
      BY <2>2, <2>3
  <1>4. CASE SelectByUsername(r)
    <2>1. sess' = sess /\ pc[r] = "handler"
      BY <1>4 DEF SelectByUsername
    <2>2. \/ pc'[r] = "respond"
          \/ pc'[r] = "verify" /\ status' = status
      BY <1>0, <1>4 DEF SelectByUsername, Answer
    <2> QED
      BY <1>0, <2>1, <2>2
  <1>5. ASSUME NEW row, FinishLogin(r, row), pc[r] \in {"handler", "verify", "create"}
        PROVE  TokenOf(r)'
    BY <1>0, <1>5, FinishLoginEffect
  <1>6. ASSUME NEW code, Answer(r, code), UNCHANGED sess,
               pc[r] \in {"handler", "verify", "create"}
        PROVE  TokenOf(r)'
    BY <1>0, <1>6 DEF Answer
  <1>7. CASE \E ok \in BOOLEAN : VerifyPassword(r, ok)
    BY <1>5, <1>6, <1>7 DEF VerifyPassword
  <1>8. CASE SelectByExternalId(r)
    <2>1. CASE account[req[r].who] = "absent"
      BY <1>0, <1>8, <2>1 DEF SelectByExternalId
    <2>2. CASE account[req[r].who] # "absent"
      BY <1>5, <1>8, <2>2 DEF SelectByExternalId
    <2> QED
      BY <2>1, <2>2
  <1>9. CASE InsertUser(r)
    BY <1>5, <1>6, <1>9 DEF InsertUser
  <1>10. CASE Logout(r)
    BY <1>0, <1>10 DEF Logout, Answer, Closed
  <1>11. CASE DbError(r)
    <2>1. pc'[r] = "respond" /\ status'[r] = 500
      BY <1>0, <1>11 DEF DbError, Answer
    <2>2. sess'[r].data = EmptyData \/ (sess' = sess /\ pc[r] \in {"handler", "verify", "create"})
      BY <1>0, <1>11 DEF DbError, Closed, Session
    <2> QED
      BY <1>0, <2>1, <2>2
  <1>12. CASE Save(r) \/ SaveError(r) \/ Pass(r) \/ Deliver(r) \/ Disconnect(r)
    <2>1. pc'[r] \in {"reply", "done"}
      BY <1>0, <1>12 DEF Save, SaveError, Pass, Deliver, Disconnect, Close
    <2> QED
      BY <2>1
  <1> QED
    BY <1>1, <1>2, <1>3, <1>4, <1>7, <1>8, <1>9, <1>10, <1>11, <1>12
       DEF ServerStep, Handle, BrowserStep

RowTokens == \A s \in Sids : Present(s) => store[s].data.csrf = s

\* A step of request r keeps the tokens of the rows.
LEMMA TokenRows ==
  ASSUME TypeOK, TokenInv, NEW r \in Requests, ServerStep(r) \/ BrowserStep(r)
  PROVE  RowTokens'
  <1> USE DEF RowTokens, Present
  <1> HIDE DEF Requests
  <1>0. RowTokens /\ TokenOf(r) /\ store = [s \in Sids |-> store[s]]
    BY DEF TokenInv, TypeOK
  <1>1. CASE Logout(r)
    BY <1>0, <1>1 DEF Logout, NoRow
  <1>2. CASE Save(r)
    <2>1. sess[r].data.csrf = SaveAs(r)
      BY <1>0, <1>2 DEF Save, Saves, IsEmpty, TokenOf
    <2>2. store' = [store EXCEPT ![SaveAs(r)] = [state |-> "live", data |-> sess[r].data]]
      BY <1>2 DEF Save
    <2> HIDE DEF SaveAs
    <2> QED
      BY <1>0, <2>1, <2>2
  <1>3. CASE UNCHANGED store
    BY <1>0, <1>3
  <1> QED
    BY <1>1, <1>2, <1>3
       DEF ServerStep, Handle, BrowserStep, SendSome, Send, LoadSession, LoadPage,
           SelectByUsername, VerifyPassword, SelectByExternalId, InsertUser, DbError,
           SaveError, Pass, Deliver, Disconnect

\* One step keeps TokenInv.
LEMMA TokenStep == TypeOK /\ TokenInv /\ [Next]_vars => TokenInv'
  <1> SUFFICES ASSUME TypeOK, TokenInv, [Next]_vars PROVE TokenInv'
    OBVIOUS
  <1>1. ASSUME NEW r \in Requests, ServerStep(r) \/ BrowserStep(r) PROVE TokenInv'
    <2>1. ASSUME NEW q \in Requests PROVE TokenOf(q)'
      <3>1. CASE q = r
        BY <1>1, <3>1, TokenSelf
      <3>2. CASE q # r
        BY <1>1, <3>2, OthersUntouched DEF Untouched, TokenInv, TokenOf, SaveAs
      <3> QED
        BY <3>1, <3>2
    <2> QED
      BY <1>1, <2>1, TokenRows DEF TokenInv, RowTokens
  <1>2. CASE Environment
    <2>1. ASSUME NEW q \in Requests PROVE TokenOf(q)'
      BY <1>2 DEF TokenInv, TokenOf, SaveAs, Environment, Expire, DeleteExpired,
                  CookieExpires, Disable
    <2>2. RowTokens'
      <3>0. RowTokens /\ store \in [Sids -> Row]
        BY DEF TokenInv, RowTokens, TypeOK
      <3>1. ASSUME NEW s \in Sids, Expire(s) PROVE RowTokens'
        BY <3>0, <3>1 DEF Expire, RowTokens, Present, Row
      <3>2. CASE DeleteExpired
        BY <3>0, <3>2 DEF DeleteExpired, RowTokens, Present, NoRow
      <3>3. CASE UNCHANGED store
        BY <3>0, <3>3 DEF RowTokens, Present
      <3> QED
        BY <1>2, <3>1, <3>2, <3>3 DEF Environment, CookieExpires, Disable
    <2> QED
      BY <2>1, <2>2 DEF TokenInv, RowTokens
  <1>3. CASE UNCHANGED vars
    BY <1>3 DEF vars, TokenInv, TokenOf, Present, SaveAs
  <1> QED
    BY <1>1, <1>2, <1>3 DEF Next, AllDone

\* A session keeps the token it was created with, in its row and in every copy.
THEOREM CsrfCorrect == Spec => []CsrfAgreement
  <1>1. Init => TokenInv
    BY DEF Init, TokenInv, TokenOf, Present, NoRow
  <1>2. TypeOK /\ TokenInv => CsrfAgreement
    BY DEF TokenInv, TokenOf, CsrfAgreement, Carries, Loaded, SaveAs, Present
  <1> QED
    BY <1>1, <1>2, TypeCorrect, TokenStep, PTL DEF Spec
=============================================================================
