------------------------------ MODULE Shutdown ------------------------------
(***************************************************************************)
(* How server::run ends: the signal, the "shutdown" event for the clients   *)
(* of /api/events, the abort of the session deletion task, the graceful      *)
(* drain of the listener and the forced exit, in plain HTTP (axum::serve)    *)
(* and in the HTTPS modes (axum_server with a Handle).                       *)
(*                                                                         *)
(* Timers have no clock here: once armed, a timer may fire at any later       *)
(* moment, in any order with the others.                                     *)
(***************************************************************************)
EXTENDS Naturals

CONSTANT Clients  \* connections; one request or event stream at a time on each

VARIABLES
  mode,      \* "http" (axum::serve) or "https" (axum_server)
  task,      \* shutdown_signal: "waiting", "sleeping" (its 100 ms), "done"
  conn,      \* each connection: "idle", "request", "stream"; at the end of the
             \* server "dropped" (a request) or "cut" (a stream)
  event,     \* the "shutdown" event on its stream: "none", "queued", "pushed"
  late,      \* the stream was opened after the broadcast
  deletion,  \* the deletion task: "running", "failed", "aborting", "cancelled"
  hurried,   \* the 100 ms were over before every queued event was pushed
  timers,    \* the deadlines that are armed: subset of {"drain", "force"}
  server,    \* "serving", "draining", "ended" (the serve future has returned)
  status     \* of the process: "running", or how it has ended

vars == <<mode, task, conn, event, late, deletion, hurried, timers, server, status>>

TypeOK ==
  /\ mode \in {"http", "https"}
  /\ task \in {"waiting", "sleeping", "done"}
  /\ conn \in [Clients -> {"idle", "request", "stream", "dropped", "cut"}]
  /\ event \in [Clients -> {"none", "queued", "pushed"}]
  /\ late \in [Clients -> BOOLEAN]
  /\ deletion \in {"running", "failed", "aborting", "cancelled"}
  /\ hurried \in BOOLEAN
  /\ timers \in SUBSET {"drain", "force"}
  /\ server \in {"serving", "draining", "ended"}
  /\ status \in {"running", "success", "failure"}

Open(c) == conn[c] \in {"request", "stream"}
Running == status = "running"

Init ==
  /\ mode \in {"http", "https"}
  /\ task = "waiting"
  /\ conn = [c \in Clients |-> "idle"]
  /\ event = [c \in Clients |-> "none"]
  /\ late = [c \in Clients |-> FALSE]
  /\ deletion = "running"
  /\ hurried = FALSE
  /\ timers = {}
  /\ server = "serving"
  /\ status = "running"

-----------------------------------------------------------------------------
(* Clients.                                                                *)

\* A request other than /api/events comes in: the listener accepts until the
\* drain begins.
Request(c) ==
  /\ Running /\ server = "serving" /\ conn[c] = "idle"
  /\ conn' = [conn EXCEPT ![c] = "request"]
  /\ UNCHANGED <<mode, hurried, task, event, late, deletion, timers, server, status>>

Answer(c) ==
  /\ Running /\ conn[c] = "request"
  /\ conn' = [conn EXCEPT ![c] = "idle"]
  /\ UNCHANGED <<mode, hurried, task, event, late, deletion, timers, server, status>>

\* sse_handler subscribes to the channel: it hears what is sent from now on.
Subscribe(c) ==
  /\ Running /\ server = "serving" /\ conn[c] = "idle"
  /\ conn' = [conn EXCEPT ![c] = "stream"]
  /\ event' = [event EXCEPT ![c] = "none"]
  /\ late' = [late EXCEPT ![c] = task # "waiting"]
  /\ UNCHANGED <<mode, hurried, task, deletion, timers, server, status>>

\* The stream passes the event on to its client.
Push(c) ==
  /\ Running /\ conn[c] = "stream" /\ event[c] = "queued"
  /\ event' = [event EXCEPT ![c] = "pushed"]
  /\ UNCHANGED <<mode, hurried, task, conn, late, deletion, timers, server, status>>

\* The client goes away.  The server never ends a stream: the state of the
\* router holds a sender, so the channel stays open.
Leave(c) ==
  /\ Running /\ Open(c)
  /\ conn' = [conn EXCEPT ![c] = "idle"]
  /\ UNCHANGED <<mode, hurried, task, event, late, deletion, timers, server, status>>

-----------------------------------------------------------------------------
(* shutdown_signal.                                                        *)

\* Mutant: the event is sent only when the drain starts.
Signal_NoSend ==
  /\ Running /\ task = "waiting"
  /\ task' = "sleeping"
  /\ UNCHANGED <<mode, hurried, conn, event, late, deletion, timers, server, status>>

\* Ctrl+C or SIGTERM; the event goes to the streams there are.
Signal ==
  /\ Running /\ task = "waiting"
  /\ task' = "sleeping"
  /\ event' = [c \in Clients |-> IF conn[c] = "stream" THEN "queued" ELSE event[c]]
  /\ UNCHANGED <<mode, hurried, conn, late, deletion, timers, server, status>>

\* A stream whose client has not been told yet.
Unpushed == \E c \in Clients : conn[c] = "stream" /\ event[c] = "queued"

\* shutdown_signal after its sleep, with no await in between: the drain starts
\* (axum::serve drains once the signal's future is complete).
StartDrain(deletionNow, deadlines) ==
  /\ Running /\ task = "sleeping"
  /\ task' = "done"
  /\ hurried' = Unpushed
  /\ deletion' = deletionNow
  /\ timers' = deadlines
  /\ server' = "draining"
  /\ UNCHANGED <<mode, conn, event, late, status>>

Aborted == IF deletion = "running" THEN "aborting" ELSE deletion
DrainDeadlines == IF mode = "https" THEN {"drain"} ELSE {}

\* Mutants: no forced exit; the deletion task is left alone; a deadline for the
\* drain of axum::serve, too.
WakeUp_NoForce  == StartDrain(Aborted, DrainDeadlines)
WakeUp_NoAbort  == StartDrain(deletion, {"force"} \cup DrainDeadlines)
WakeUp_Deadline == StartDrain(Aborted, {"force", "drain"})

\* The 100 ms are over: abort the deletion task, start the drain (of 1 s under
\* axum_server) and arm the forced exit.
WakeUp == StartDrain(Aborted, {"force"} \cup DrainDeadlines)

Cut == [c \in Clients |-> IF conn[c] = "request" THEN "dropped"
                          ELSE IF conn[c] = "stream" THEN "cut" ELSE conn[c]]

\* std::process::exit(0), 2 s after the drain began.
ForceExit ==
  /\ Running /\ "force" \in timers
  /\ status' = "success"
  /\ conn' = Cut
  /\ UNCHANGED <<mode, hurried, task, event, late, deletion, timers, server>>

-----------------------------------------------------------------------------
(* The other tasks.                                                        *)

\* continuously_delete_expired returns only with a database error.
DeletionFails ==
  /\ Running /\ deletion \in {"running", "aborting"}
  /\ deletion' = "failed"
  /\ UNCHANGED <<mode, hurried, task, conn, event, late, timers, server, status>>

\* The runtime drops the aborted task.
DeletionCancelled ==
  /\ Running /\ deletion = "aborting"
  /\ deletion' = "cancelled"
  /\ UNCHANGED <<mode, hurried, task, conn, event, late, timers, server, status>>

\* The last connection ends, or axum_server's deadline is reached.
Drained ==
  /\ Running /\ server = "draining"
  /\ \A c \in Clients : ~Open(c)
  /\ server' = "ended"
  /\ UNCHANGED <<mode, hurried, task, conn, event, late, deletion, timers, status>>

DrainDeadline ==
  /\ Running /\ server = "draining" /\ "drain" \in timers
  /\ server' = "ended"
  /\ conn' = Cut
  /\ UNCHANGED <<mode, hurried, task, event, late, deletion, timers, status>>

\* Mutant: the join error is handed to exit() as it is.
DeletionResult_Raw(d) == d

\* deletion_task.await??: Ok only if the task has ended with Ok, which
\* continuously_delete_expired never does.
DeletionResult(d) == IF d \in {"failed", "cancelled"} THEN "failure" ELSE "success"

\* run() returns what the deletion task gives, and main turns it into a status.
Return ==
  /\ Running /\ server = "ended" /\ task = "done"
  /\ deletion \in {"failed", "cancelled"}
  /\ status' = DeletionResult(deletion)
  /\ UNCHANGED <<mode, hurried, task, conn, event, late, deletion, timers, server>>

-----------------------------------------------------------------------------
ClientStep(c) == Request(c) \/ Answer(c) \/ Subscribe(c) \/ Push(c) \/ Leave(c)

Stopped == ~Running /\ UNCHANGED vars

Next ==
  \/ \E c \in Clients : ClientStep(c)
  \/ Signal \/ WakeUp \/ ForceExit
  \/ DeletionFails \/ DeletionCancelled
  \/ Drained \/ DrainDeadline \/ Return
  \/ Stopped

\* The executor runs what is ready and its timers fire.  Nothing is assumed of
\* the clients, and no signal need ever come.
Fairness ==
  /\ WF_vars(WakeUp) /\ WF_vars(ForceExit)
  /\ WF_vars(DeletionCancelled) /\ WF_vars(Drained) /\ WF_vars(Return)
  /\ \A c \in Clients : WF_vars(Push(c))

Spec == Init /\ [][Next]_vars /\ Fairness

-----------------------------------------------------------------------------
(* Properties.                                                             *)

\* sse_handler and shutdown_signal: the event is sent to every stream that was
\* open when the signal came, before any stream is cut.
Announced == \A c \in Clients : conn[c] = "cut" => late[c] \/ event[c] # "none"

\* "Give SSE clients a moment to receive the shutdown event": if that moment is
\* long enough, a stream that was open at the signal hears of it before the
\* server cuts it.
EarlyStreamsHear ==
  ~hurried => \A c \in Clients : conn[c] = "cut" => late[c] \/ event[c] = "pushed"

\* axum::serve returns only when every connection has ended: in plain HTTP only
\* the forced exit cuts anybody off.
HttpReturnsDrained ==
  mode = "http" /\ server = "ended" => \A c \in Clients : conn[c] = "idle"

\* run() waits for the deletion task only once it has been told to stop, or has
\* failed: nobody waits for a task that runs forever.
WaitsForStopped == server = "ended" => deletion # "running"

\* The order that the properties above rest on: what each part of the shutdown
\* finds done when it starts.
StreamOrder(c) ==
  /\ conn[c] \in {"dropped", "cut"} => server = "ended" \/ ~Running
  /\ conn[c] \in {"stream", "cut"} /\ ~late[c] =>
       /\ task # "waiting" => event[c] # "none"
       /\ ~hurried /\ task = "done" => event[c] = "pushed"

OrderInv ==
  /\ timers # {} \/ server # "serving" => task = "done"
  /\ mode = "http" => "drain" \notin timers
  /\ task = "done" => deletion # "running"
  /\ ~Running => task = "done"
  /\ \A c \in Clients : StreamOrder(c)
  /\ HttpReturnsDrained

\* Once the signal is handled the process ends, whatever its clients do:
\* "axum's graceful shutdown waits indefinitely for open connections".
Stops == task # "waiting" ~> ~Running

\* "Make sure the background deletion task finishes cleanly": the process does
\* not fail unless the deletion task has failed.
CleanExit == status = "failure" => deletion = "failed"
=============================================================================
