-------------------------------- MODULE Call --------------------------------
(***************************************************************************)
(* One call from both ends: a Client and the server's Session, joined by   *)
(* the stream.  Each direction delivers in order and lets at most Window   *)
(* messages be under way, so that either end can block the other.  The     *)
(* call's status reaches the client after the messages; the server's       *)
(* context ends when the deadline passes, the client is gone or the        *)
(* connection is lost.                                                     *)
(***************************************************************************)
EXTENDS Naturals, Sequences

CONSTANTS
    MaxFiles,     \* bound: files in the client's directory
    MaxReports,   \* bound: reports of one call of a strategy or processor
    Window        \* messages under way in one direction

ASSUME CallAssumption ==
    /\ MaxFiles \in Nat
    /\ MaxReports \in Nat \ {0}
    /\ Window \in Nat \ {0}

VARIABLES
    handler, outbox, stage, reporter, closed, ctx, ticker, procDone, count, snapshot,
    received, auth, upload, preflightErr, files, cut, pushed,
    main, announced, present, sent, receiver, failed, collector, errors, errClosed,
    summary, deadline, up, halfClosed, down,
    link          \* the connection: up or lost

Server == INSTANCE Session WITH MaxMessages <- MaxFiles + 1

Caller == INSTANCE Client WITH
    ended  <- handler = "answered" /\ link = "up",
    broken <- handler \in {"aborted", "panicked"} \/ link = "lost"

sendVars    == <<main, announced, present, sent, up, halfClosed>>
receiveVars == <<receiver, failed, summary, down>>
errorVars   == <<collector, errors, errClosed>>
clientVars  == <<sendVars, receiveVars, errorVars, deadline>>
serverVars  == <<handler, outbox, stage, reporter, closed, ctx, ticker, procDone, count,
                 snapshot, received, auth, upload, preflightErr, files, cut, pushed>>
vars == <<serverVars, clientVars, link>>

TypeOK ==
    /\ Server!TypeOK
    /\ Caller!TypeOK
    /\ link \in {"up", "lost"}

Init ==
    /\ Server!Init
    /\ Caller!Init
    /\ link = "up"

(***************************************************************************)
(* The server's steps that touch the stream.                               *)
(***************************************************************************)
\* The client sends its metadata before any file.
ServerReceives ==
    /\ up > 0 /\ up' = up - 1
    /\ IF received = 0 THEN Server!ReceiveMetadata ELSE Server!ReceiveFile
    /\ UNCHANGED <<receiveVars, errorVars, main, announced, present, sent,
                   halfClosed, deadline, link>>

\* A variant with a fault: a connection that is lost looks like a half-close.
LostIsHalfClosed == up = 0 /\ (halfClosed \/ link = "lost")

\* Recv returns io.EOF only after the last message was received.
AllReceived == up = 0 /\ halfClosed

ServerReceivesEnd ==
    /\ Server!ReceiveEnd
    /\ \/ handler' = "respond" /\ AllReceived
       \* a file too large for one message
       \/ handler' = "aborted" /\ (up > 0 \/ ctx # "live")
    /\ UNCHANGED <<clientVars, link>>

\* There is somebody to send to.
Connected == link = "up" /\ Caller!Alive

\* What the server sends is under way, unless the call is over on its side or the
\* connection is lost; it waits for the window otherwise.
Sends(message) ==
    /\ \/ Connected /\ Len(down) < Window /\ down' = Append(down, message)
       \/ (~Connected \/ ctx # "live") /\ UNCHANGED down
    /\ UNCHANGED <<sendVars, errorVars, receiver, failed, summary,
                   deadline, link>>

ServerSendsProgress == Server!ReporterSent /\ Sends("progress")

ServerSendsSummary ==
    /\ Server!SummarySent
    /\ IF handler' = "wait" THEN Sends("summary") ELSE UNCHANGED <<clientVars, link>>

\* A variant with a fault: done() does not look at the buffers that are left.
ServerChecksCount ==
    /\ Server!FinishUpload
    /\ upload' = "accepted" => count = announced
    /\ UNCHANGED <<clientVars, link>>

\* done() compares what it counted with what the metadata announced and tolerates one
\* left buffer.  Each file of this client is one chunk under a name of its own, so that
\* every file the disk lacks has left its buffer.
ServerChecksUpload ==
    /\ Server!FinishUpload
    /\ upload' = "accepted" => count = announced /\ received - 1 <= files' + 1
    /\ UNCHANGED <<clientVars, link>>

(***************************************************************************)
(* All other steps are the server's own, or the client's.                  *)
(***************************************************************************)
\* The metadata of this client lacks nothing that AssignMetadata looks at.
ServerWorks ==
    /\ handler \notin {"recv", "sending"}
    /\ handler = "join" => stage # "upload"
    /\ Server!HandlerStep
    /\ handler = "metadata" => handler' # "panicked"
    /\ UNCHANGED <<clientVars, link>>

ServerHandler ==
    \/ ServerReceives \/ ServerReceivesEnd \/ ServerSendsSummary
    \/ ServerChecksUpload \/ ServerWorks

Alone(A) == A /\ UNCHANGED <<clientVars, link>>

ServerReporter == ServerSendsProgress \/ Alone(Server!ReporterClosed)

ClientMain      == Caller!MainStep /\ UNCHANGED <<serverVars, link>>
ClientWalks     == Caller!WalkStep /\ UNCHANGED <<serverVars, link>>
ClientReceiver  == Caller!ReceiverStep /\ UNCHANGED <<serverVars, link>>
ClientCollector == Caller!CollectorStep /\ UNCHANGED <<serverVars, link>>

\* Bound: a call meets a passed deadline or a lost connection, not both.
Expire ==
    /\ link = "up"
    /\ Caller!Expire /\ UNCHANGED <<serverVars, link>>

\* What is under way to the client may be lost with the connection.
LinkLost ==
    /\ Connected /\ deadline = "live"
    /\ link' = "lost"
    /\ down' \in {down, <<>>}
    /\ UNCHANGED <<serverVars, sendVars, errorVars, receiver, failed,
                   summary, deadline>>

ServerCancelled ==
    /\ deadline = "expired" \/ ~Connected
    /\ Alone(Server!Cancel)

Next ==
    \/ ServerHandler \/ ServerReporter \/ Alone(Server!ReporterCtxDone)
    \/ Alone(Server!HandlerReports) \/ Alone(Server!TickerReports)
    \/ Alone(Server!Tick) \/ Alone(Server!TickerStops)
    \/ ClientMain \/ ClientWalks \/ ClientReceiver \/ ClientCollector \/ Expire
    \/ LinkLost \/ ServerCancelled

Spec == Init /\ [][Next]_vars

\* The goroutines of both ends are scheduled; in the server, the handler queues for
\* the reporter and a stopped ticker is picked by its select in the end.  Steps of which
\* a call has finitely many share a condition, and so do the hand-over of a report and
\* its delivery, which follow each other.  The deadline need not pass, the connection
\* need not be lost and the server need not learn of it.
Fairness ==
    /\ WF_vars(ServerHandler \/ ClientMain \/ ClientCollector)
    /\ WF_vars(ServerReporter \/ Alone(Server!TickerReports))
    /\ WF_vars(ClientReceiver)
    /\ SF_vars(Alone(Server!HandlerReports \/ Server!TickerStops))

FairSpec == Spec /\ Fairness

(***************************************************************************)
(* Properties.                                                             *)
(***************************************************************************)
\* A client that exits with 0 before its deadline got the server's answer and
\* printed its summary: no error and no lost connection is taken for success.
ExitZeroMeansDone ==
    (main = "exit0" /\ deadline = "live") => handler = "answered" /\ summary = "printed"

\* An error of the stream is not lost on its way through errCh: main does not
\* return before the collector has it.
ErrorsFailTheClient == failed => main # "exit0"

\* Wait closes errCh only when the receiver has nothing more to send on it: a send
\* on a closed channel panics.
NoSendOnClosedErrCh == errClosed => receiver \notin {"check", "recv", "failing"}

\* A client that dies during the upload leaves nothing behind: the server does not
\* take its end for the end of the files.
FatalPushesNothing == main = "fatal" => ~pushed

\* What is pushed came from a client that ended its walk: all it sent was received, the
\* server's disk lacks at most one of its files, and no file that was counted before the
\* walk and skipped by it went unnoticed.
PushIsComplete ==
    pushed => halfClosed /\ received = sent + 1 /\ announced <= sent /\ sent <= files + 1

\* A client that dies or is cut off between its metadata and its first file does not take
\* the server down: the panic of done(), on a ticker that no file has started, needs a
\* stream that its client half-closed.
DisconnectIsHarmless == handler = "panicked" /\ upload = "ready" => halfClosed /\ sent = 0

\* With the windows full in both directions neither end waits for the other for
\* ever: the client exits although no deadline helps.
ClientExits == <>(main \in {"fatal", "exit0", "exit1"})
=============================================================================
