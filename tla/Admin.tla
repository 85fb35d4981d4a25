-------------------------------- MODULE Admin --------------------------------
(***************************************************************************)
(* GET /admin/list_sessions, read page by page through next_offset by one      *)
(* administrator (the reader), while the table it lists changes: every request *)
(* behind the session middleware saves its own session with a new expiry, and  *)
(* so moves its row to the end of "order by expiry_date asc"; rows are removed *)
(* by logouts, by their expiry and the deletion task, and made by new visitors. *)
(* The reader's own requests are among those that move a row.                   *)
(*                                                                         *)
(* A request of the reader: its session is loaded, the role checked             *)
(* (require_roles_middleware), the page fetched, and the session saved after    *)
(* the answer.  Session data and its decoding are left out; expiry dates are    *)
(* distinct.                                                                *)
(***************************************************************************)
EXTENDS Naturals, SequencesExt

CONSTANTS
  Sids,       \* sessions
  Reader,     \* the administrator's
  Limits,     \* values of the query parameter limit
  MaxLimit,   \* MAX_LIMIT
  MaxEvents   \* bound: what the rest of the world does

ASSUME ConstantsOK ==
  /\ Reader \in Sids /\ IsFiniteSet(Sids)
  /\ Limits \subseteq Nat /\ Limits # {}
  /\ MaxLimit \in Nat \ {0} /\ MaxEvents \in Nat

VARIABLES
  rows,      \* the sessions in the table, by expiry date
  dead,      \* how many rows, from the first, have expired
  role,      \* whether the reader's user has the role Admin
  stage,     \* what the reader is at
  offset, limit,  \* of the next page
  last,      \* no next_offset was returned
  items,     \* the sessions listed so far
  twice,     \* those listed more than once
  still,     \* live rows at the start that have kept their place since
  gone,      \* rows that have left a place before offset
  others,    \* a session has visited, logged out or been deleted
  late,      \* pages answered since the role was revoked
  events

table  == <<rows, dead, role>>
reader == <<stage, offset, limit, last, items, twice, late>>
vars   == <<table, reader, still, gone, others, events>>

Rows    == ToSet(rows)
Live    == {rows[i] : i \in dead + 1 .. Len(rows)}
Place(s) == CHOOSE i \in DOMAIN rows : rows[i] = s

\* params.limit.min(MAX_LIMIT)
Clamped(wanted) == IF wanted <= MaxLimit THEN wanted ELSE MaxLimit

\* The reader asks for the first page of a table in any order.
Init ==
  /\ rows \in {s \in SeqOf(Sids, Cardinality(Sids)) : IsInjective(s) /\ Reader \in ToSet(s)}
  /\ dead \in 0 .. Place(Reader) - 1
  /\ role = TRUE
  /\ stage = "ask" /\ offset = 0 /\ last = FALSE
  /\ \E wanted \in Limits : limit = Clamped(wanted)
  /\ items = {} /\ twice = {}
  /\ still = Live /\ gone = 0 /\ others = FALSE /\ late = 0
  /\ events = 0

-----------------------------------------------------------------------------
(* The table.                                                              *)

\* A row leaves its place; what was after it moves up.
Leave(s) ==
  /\ dead' = IF Place(s) <= dead THEN dead - 1 ELSE dead
  /\ still' = still \ {s}
  /\ gone' = IF Place(s) <= offset THEN gone + 1 ELSE gone

\* The table without session s.
Without(s) == IF s \in Rows THEN RemoveAt(rows, Place(s)) ELSE rows

\* The session layer saves a session: new expiry, new place.
Touch(s) ==
  /\ rows' = Append(Without(s), s)
  /\ IF s \in Rows THEN Leave(s) ELSE UNCHANGED <<dead, still, gone>>

Event ==
  /\ events < MaxEvents
  /\ events' = events + 1

\* Another request of any browser, the reader's included: an unexpired session
\* is saved again, a new visitor's added.
Visit(s) ==
  /\ s \in Live \/ s \notin Rows
  /\ Event
  /\ Touch(s)
  /\ others' = TRUE
  /\ UNCHANGED <<role, reader>>

Logout(s) ==
  /\ s \in Live
  /\ Event
  /\ rows' = Without(s)
  /\ Leave(s)
  /\ others' = TRUE
  /\ UNCHANGED <<role, reader>>

\* The expiry date of the first live row passes.
Expire ==
  /\ dead < Len(rows)
  /\ Event
  /\ dead' = dead + 1
  /\ still' = still \ {rows[dead + 1]}
  /\ UNCHANGED <<rows, role, reader, gone, others>>

\* continuously_delete_expired
DeleteExpired ==
  /\ dead > 0
  /\ Event
  /\ rows' = SubSeq(rows, dead + 1, Len(rows))
  /\ gone' = gone + (IF dead <= offset THEN dead ELSE offset)
  /\ dead' = 0
  /\ others' = TRUE
  /\ UNCHANGED <<role, reader, still>>

\* An operator takes the role away (there is no handler for it).
Revoke ==
  /\ role
  /\ Event
  /\ role' = FALSE
  /\ UNCHANGED <<rows, dead, reader, still, gone, others>>

-----------------------------------------------------------------------------
(* A page.                                                                 *)

\* user_session_middleware: an expired or deleted session is a guest's, whom the
\* role check answers with 401.
Ask ==
  /\ stage = "ask"
  /\ stage' = IF Reader \in Live THEN "role" ELSE "stop"
  /\ UNCHANGED <<table, offset, limit, last, items, twice, still, gone, others, late, events>>

\* Mutant: a session that has been let in once is let in again.
HasRole_Once == role \/ items # {}

\* The query of require_roles_middleware.
HasRole == role

\* 403 without the role; the session is saved with any answer.
CheckRole ==
  /\ stage = "role"
  /\ IF HasRole THEN stage' = "fetch" /\ UNCHANGED last
                ELSE stage' = "save" /\ last' = TRUE
  /\ UNCHANGED <<table, offset, limit, items, twice, still, gone, others, late, events>>

\* Mutant: latest expiry first.
Ordered_Desc == Reverse(rows)

\* order by expiry_date asc
Ordered == rows

\* limit + 1 rows from offset
Fetched ==
  LET end == offset + limit + 1
  IN SubSeq(Ordered, offset + 1, IF end <= Len(rows) THEN end ELSE Len(rows))

\* The first limit of them, without those that have expired.
Page == {s \in ToSet(SubSeq(Fetched, 1, IF limit <= Len(Fetched) THEN limit ELSE Len(Fetched))) :
           s \in Live}

\* Mutant: one row more is taken for another page.
HasMore_Full == Len(Fetched) >= limit

HasMore == Len(Fetched) > limit

\* Mutants: the sessions returned are counted instead of the rows read; the row
\* fetched to detect another page is taken for part of this one.
NextOffset_Items == offset + Cardinality(Page)
NextOffset_Skip  == offset + limit + 1

NextOffset == offset + limit

List ==
  /\ stage = "fetch"
  /\ items' = items \cup Page
  /\ twice' = twice \cup (items \cap Page)
  /\ offset' = NextOffset
  /\ last' = ~HasMore
  /\ late' = IF role THEN late ELSE late + 1
  /\ stage' = "save"
  /\ UNCHANGED <<table, limit, still, gone, others, events>>

\* The session layer saves the reader's session, even if it was deleted since; the
\* reader goes on to the next page if there is one.
Save ==
  /\ stage = "save"
  /\ Touch(Reader)
  /\ stage' = IF last THEN "stop" ELSE "ask"
  /\ UNCHANGED <<role, offset, limit, last, items, twice, others, late, events>>

\* Bound: the reader reads the list once.
Stopped == stage = "stop" /\ UNCHANGED vars

Read == Ask \/ CheckRole \/ List \/ Save
World == (\E s \in Sids : Visit(s) \/ Logout(s)) \/ Expire \/ DeleteExpired \/ Revoke
Next == Read \/ World \/ Stopped

\* The server answers, and the reader asks for the next page.
Spec == Init /\ [][Next]_vars /\ WF_vars(Read)

-----------------------------------------------------------------------------
(* Properties.                                                             *)

\* A session that keeps its place in the table while the list is read is listed at
\* most once: the order is the one in which rows only ever move to later pages.
ListedOnce == twice \cap still = {}

\* Sessions that have been there, unmoved, all the time and that the pages have
\* passed over without listing them.
Skipped == {s \in still : Place(s) <= offset /\ s \notin items}

\* An offset passes over a session only because another row has left a place
\* before it: no more are missed than rows have moved or gone.
SkippedAtMostGone == Cardinality(Skipped) <= gone

\* With nobody else at work the pages miss at most one session, although each of
\* them moves the reader's own row to the end of the list.
AloneMissesOne == ~others => Cardinality(Skipped) <= 1

\* A next_offset is given only when there is a row at it, also when the page before
\* was exactly limit rows long; only a row's removal makes it point past the end.
MoreMeansMore == ~last /\ ~others => Len(rows) > offset

\* The role is looked up for each page: a reader who has lost it gets at most the
\* page whose check was already done.
RevokedAtOnce == late <= 1

\* Why these hold: what the variables that watch the table say of it ...
TableInv ==
  /\ rows \in Seq(Sids) /\ IsInjective(rows) /\ dead \in 0 .. Len(rows)
  /\ offset \in Nat /\ limit \in Nat /\ gone \in Nat
  /\ still \subseteq Live

\* ... what has been listed and not moved lies before offset ...
PagesInv ==
  /\ \A s \in still \cap items : Place(s) <= offset
  /\ ListedOnce
  /\ SkippedAtMostGone

\* ... and alone, the reader misses a row only when its own first leaves a place
\* before it, and from then on it is the last.
AloneInv ==
  ~others => /\ Reader \in Rows
             /\ \/ Skipped = {}
                \/ rows[Len(rows)] = Reader /\ \E s \in Sids : Skipped = {s}
             /\ ~last => Len(rows) > offset

\* Whatever happens to the table in the meantime, following next_offset comes to
\* an end; not so for limit = 0, whose next_offset is the offset itself.
PagingEnds == limit > 0 ~> stage = "stop"
=============================================================================
