------------------------- MODULE SessionRefinement -------------------------
(***************************************************************************)
(* The session store, seen by browsers that wait for an answer before they  *)
(* send the next request, implements BrowserSession: a browser's session is  *)
(* the live row its cookie names.                                            *)
(***************************************************************************)
EXTENDS Sessions

Current(c) == IF cookie[c] # NoSid /\ store[cookie[c]].state = "live"
              THEN store[cookie[c]].data ELSE EmptyData

Abstract == INSTANCE BrowserSession
              WITH user   <- [c \in Clients |-> Current(c).user],
                   visits <- [c \in Clients |-> Current(c).visits]

\* With one request of a browser in flight at a time and no expiry, every step
\* of the server, failed database calls and lost connections included, is one
\* of BrowserSession's steps or changes nothing the browser can see.
ImplementsBrowserSession == Abstract!Spec

-----------------------------------------------------------------------------
(* Why it does.                                                            *)

\* A browser waits for the answer, and its sessions do not run out.
Serial == PerClient \in {0, 1} /\ "expiry" \notin Faults

Flying(r)  == pc[r] \notin {"unsent", "done"}
Browser(r) == Current(req[r].client)
Live(s)    == s # NoSid /\ store[s].state = "live"

\* The record of request r is one visit on from what the browser has.
OneVisitOn(r) == sess[r].data.visits = Browser(r).visits + 1

\* What request r will write back, or give to the browser, is one step of the
\* abstract session: its record was loaded from the row the cookie still names, or
\* there is no such row, and nobody has changed either since.
UpToDate(r) ==
  /\ pc[r] \in {"unsent", "sent", "handler", "verify", "create"} => status[r] = 0
  /\ Loaded(r) /\ sess[r].sid = NoSid => ~Live(req[r].cookie)
  /\ Loaded(r) /\ sess[r].sid # NoSid /\ status[r] # 500 =>
       sess[r].sid = req[r].cookie /\ Live(req[r].cookie)
  /\ pc[r] \in {"handler", "verify", "create"} =>
       OneVisitOn(r) /\ sess[r].data.user = Browser(r).user
  /\ pc[r] = "respond" /\ Saves(r) =>
       OneVisitOn(r) /\ sess[r].data.user \in Users \cup {Browser(r).user}
  /\ pc[r] = "reply" /\ reply[r] = "set" =>
       /\ Live(sess[r].sid)
       /\ \/ sess[r].sid = req[r].cookie
          \/ ~Live(req[r].cookie) /\ store[sess[r].sid].data.visits = 1
  /\ pc[r] = "reply" /\ reply[r] = "clear" => ~Live(req[r].cookie)
  /\ pc[r] # "reply" => reply[r] = "none"

SerialInv ==
  /\ \A q, r \in Requests :
       Flying(q) /\ Flying(r) /\ req[q].client = req[r].client => q = r
  /\ \A r \in Requests : Flying(r) => req[r].cookie = cookie[req[r].client]
  /\ \A s \in Sids : store[s].state = "live" \/ store[s] = NoRow
  /\ \A s \in LoggedOut : ~Live(s)
  /\ \A r \in Requests : UpToDate(r)
=============================================================================
