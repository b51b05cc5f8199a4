--------------------------- MODULE XmppConnection ---------------------------
(***************************************************************************)
(* One connection to an XMPP server, from XmppPump::DoLogin to the deletion *)
(* of its client: the pump and the client's task (examples/login/           *)
(* xmpppump.cc, xmpp/xmppclient.cc), the socket (examples/login/            *)
(* xmppsocket.cc), the engine (xmpp/xmppengineimpl.cc) and the login task   *)
(* that it hands every element to until the session is there                *)
(* (xmpp/xmpplogintask.cc).                                                  *)
(*                                                                         *)
(* All of it runs on one thread.  What interleaves is the chunks of bytes   *)
(* that the socket hands over, with any number of elements in each, the     *)
(* application, which sends stanzas between chunks and from the engine's    *)
(* callbacks, and the runner of the client's task.  The engine buffers what *)
(* it prints while it is entered and tells of a change of its state only    *)
(* when it is left.                                                          *)
(*                                                                         *)
(* The server answers only what has been written to it, but may also send   *)
(* what nobody asked for, at any time.                                       *)
(***************************************************************************)
EXTENDS Naturals, Sequences, SequencesExt, Lists

CONSTANTS
  TlsOptions,   \* the TLS options an application may set
  FeatureSets,  \* what a server's stream features may offer
  MaxSends,     \* bound: the application's stanzas
  MaxOutput     \* bound: elements in output_ at which the server asks no more

ASSUME ConstantsAssumption ==
  /\ TlsOptions \subseteq {"disabled", "enabled", "required"}
  /\ FeatureSets \subseteq SUBSET {"tls", "sasl", "bind"}
  /\ MaxSends \in Nat
  /\ MaxOutput \in Nat

VARIABLES
  task,      \* the client's task: "new", its STATE_, "aborted" or "gone"
  posted,    \* the pump has posted itself a message to run its tasks
  sock,      \* the XmppSocket's state_
  hungUp,    \* the platform's socket has reported its end (OnCloseEvent)
  state,     \* the engine's state_, "NONE" before XmppClient::Connect
  error,     \* error_code_ is not ERROR_NONE
  login,     \* the login task's state_, "GONE" once login_task_ is reset
  auth,      \* authNeeded_
  useTls,    \* settings.use_tls()
  tls,       \* tls_option_
  encrypted, \* encrypted_
  reset,     \* raised_reset_
  queued,    \* pvecQueuedStanzas_
  output,    \* output_
  handler,   \* output_handler_ is set
  sent,      \* what of it was the application's, in the order written
  accepted,  \* the stanzas SendStanza has taken, numbered in their order
  told,      \* what the pump has told of: its values of state_
  pc,        \* what the thread is in: "idle", or within the engine
  saved,     \* EnterExit::state_ of the outermost entry
  server     \* what the server may rightly send next

conn == <<task, posted, sock, hungUp>>
logging == <<login, auth, useTls, tls, encrypted, queued>>
vars == <<conn, state, error, logging, reset, output, handler, sent, accepted,
          told, pc, saved, server>>

\* What is printed: the n-th stanza of the application, or another element.
Own(n) == [what |-> "stanza", no |-> n]
Msg(w) == [what |-> w, no |-> 0]
Stanzas == {Own(n) : n \in 1 .. MaxSends}
Waiting == {"STREAMSTART_SENT", "STARTED_XMPP", "TLS_REQUESTED",
            "SASL_RUNNING", "BIND_REQUESTED", "SESSION_REQUESTED"}
Asks == [start |-> "start", starttls |-> "proceed", auth |-> "sasl",
         response |-> "sasl", bind |-> "bind", session |-> "session"]

\* The application's stanzas in a buffer.
App(out) == Keep(out, {m \in ToSet(out) : m.what = "stanza"})
\* The login's messages in a buffer.
Requests(out) == Keep(out, {m \in ToSet(out) : m.what \in DOMAIN Asks})

TypeOK ==
  /\ task \in {"new", "START", "RESPONSE", "ERROR", "aborted", "gone"}
  /\ posted \in BOOLEAN /\ hungUp \in BOOLEAN
  /\ sock \in {"none", "connecting", "open", "tls_connecting", "tls_open",
               "closed"}
  /\ state \in {"NONE", "START", "OPENING", "OPEN", "CLOSED"}
  /\ login \in Waiting \cup {"INIT", "GONE"}
  /\ useTls \in TlsOptions /\ tls \in TlsOptions \cup {"enabled"}
  /\ \A b \in {error, auth, encrypted, reset, handler} : b \in BOOLEAN
  /\ queued \in Seq(Stanzas) /\ sent \in Seq(Stanzas)
  /\ output \in Seq(Stanzas \cup {Msg(w) : w \in DOMAIN Asks \cup {"error", "end"}})
  /\ accepted \in 0 .. MaxSends
  /\ told \in Seq({"START", "OPENING", "OPEN", "CLOSED"})
  /\ pc \in {"idle", "input", "stanza", "told"}
  /\ saved \in {"NONE", "START", "OPENING", "OPEN"}
  /\ server \in {"silent", "features"} \cup {Asks[m] : m \in DOMAIN Asks}

Init ==
  /\ task = "new" /\ posted = FALSE /\ sock = "none" /\ hungUp = FALSE
  /\ state = "NONE" /\ error = FALSE
  /\ login = "INIT" /\ auth = TRUE /\ useTls \in TlsOptions /\ tls = useTls
  /\ encrypted = FALSE
  /\ queued = <<>> /\ reset = FALSE /\ output = <<>> /\ handler = FALSE
  /\ sent = <<>> /\ accepted = 0 /\ told = <<>>
  /\ pc = "idle" /\ saved = "NONE" /\ server = "silent"

-----------------------------------------------------------------------------
(* Leaving the engine. *)

\* XmppPump::OnStateChange tells of a state that is not the one it knows.
Tell(s) == told' = IF told # <<>> /\ Last(told) = s THEN told ELSE told \o <<s>>

\* Mutant: what was printed stays in the buffer while no state has changed.
Exit_FlushesChanges(s, from, out) ==
  /\ state' = s
  /\ IF handler /\ s # from
     THEN /\ sent' = sent \o App(out)
          /\ output' = <<>>
     ELSE UNCHANGED sent /\ output' = out
  /\ server' = IF Requests(out) = <<>> THEN server ELSE Asks[Last(Requests(out)).what]
  /\ handler' = (handler /\ s # "CLOSED")
  /\ sock' = IF handler /\ s = "CLOSED" /\ sock = "open" THEN "closed" ELSE sock
  /\ reset' = FALSE
  /\ pc' = IF s # from THEN "told" ELSE "idle"
  /\ IF s # from THEN Tell(s) ELSE UNCHANGED told

\* ~EnterExit of the outermost entry, made in state `from`, with the engine in
\* state s and out in its buffer: the buffer is written, the connection is
\* closed if the engine is, and the session handler is told.  The socket's
\* Close does nothing unless its state is STATE_OPEN.
Exit(s, from, out) ==
  /\ state' = s
  /\ IF handler
     THEN /\ sent' = sent \o App(out)
          /\ output' = <<>>
          /\ server' = IF Requests(out) = <<>> THEN server
                       ELSE Asks[Last(Requests(out)).what]
     ELSE UNCHANGED <<sent, server>> /\ output' = out
  /\ handler' = (handler /\ s # "CLOSED")
  /\ sock' = IF handler /\ s = "CLOSED" /\ sock = "open" THEN "closed" ELSE sock
  /\ reset' = FALSE
  /\ pc' = IF s # from THEN "told" ELSE "idle"
  /\ IF s # from THEN Tell(s) ELSE UNCHANGED told

-----------------------------------------------------------------------------
(* The pump, the client's task and the socket. *)

\* DoLogin: the engine is made and the client's task is started.
DoLogin ==
  /\ pc = "idle" /\ task = "new"
  /\ task' = "START" /\ posted' = TRUE
  /\ state' = "START" /\ handler' = TRUE /\ Tell("START")
  /\ UNCHANGED <<sock, hungUp, error, logging, reset, output, sent, accepted,
                 pc, saved, server>>

\* RunTasks, with the client's task at its start: XmppAuth is done at once, so
\* the task goes on to connect the socket.
RunStart(connects) ==
  /\ pc = "idle" /\ posted /\ task = "START"
  /\ posted' = FALSE
  /\ IF connects
     THEN task' = "RESPONSE" /\ sock' = "connecting" /\ UNCHANGED <<told, pc>>
     ELSE task' = "ERROR" /\ pc' = "told" /\ Tell("CLOSED") /\ UNCHANGED sock
  /\ UNCHANGED <<hungUp, state, error, logging, reset, output, handler, sent,
                 accepted, saved, server>>

\* Mutant: the task waits for the socket to be closed, not for the engine.
RunResponse_Socket ==
  /\ pc = "idle" /\ posted /\ task \in {"RESPONSE", "ERROR", "aborted"}
  /\ posted' = FALSE
  /\ IF task # "RESPONSE" \/ sock = "closed"
     THEN task' = "gone" /\ sock' = "none"
     ELSE UNCHANGED <<task, sock>>
  /\ UNCHANGED <<hungUp, state, error, logging, reset, output, handler, sent,
                 accepted, told, pc, saved, server>>

\* RunTasks otherwise: a task that is done, as ProcessResponse is when the
\* engine is closed, is deleted, with the socket.
RunResponse ==
  /\ pc = "idle" /\ posted /\ task \in {"RESPONSE", "ERROR", "aborted"}
  /\ posted' = FALSE
  /\ IF task # "RESPONSE" \/ state = "CLOSED"
     THEN task' = "gone" /\ sock' = "none"
     ELSE UNCHANGED <<task, sock>>
  /\ UNCHANGED <<hungUp, state, error, logging, reset, output, handler, sent,
                 accepted, told, pc, saved, server>>

\* Mutant: only a client that was disconnected is woken.
EndTold_Asleep ==
  /\ pc = "told"
  /\ pc' = "idle" /\ posted' = (posted \/ task = "aborted")
  /\ sock' = IF task = "aborted" THEN "none" ELSE sock
  /\ UNCHANGED <<task, hungUp, state, error, logging, reset, output, handler,
                 sent, accepted, told, saved, server>>

\* The callback OnStateChange returns, and the client's task is woken.
EndTold ==
  /\ pc = "told"
  /\ pc' = "idle" /\ posted' = TRUE
  /\ sock' = IF task = "aborted" THEN "none" ELSE sock
  /\ UNCHANGED <<task, hungUp, state, error, logging, reset, output, handler,
                 sent, accepted, told, saved, server>>

\* OnConnectEvent and OnSocketConnected: XmppEngineImpl::Connect makes the
\* login task start the stream.
SocketConnected ==
  /\ pc = "idle" /\ sock = "connecting" /\ ~hungUp
  /\ state = "START"
  /\ state' = "OPENING" /\ sock' = "open" /\ login' = "STREAMSTART_SENT"
  /\ sent' = sent /\ output' = <<>> /\ server' = "start" /\ reset' = FALSE
  /\ pc' = "told" /\ Tell("OPENING")
  /\ UNCHANGED <<task, posted, hungUp, error, auth, useTls, tls, encrypted, queued,
                 handler, accepted, saved>>

\* OnConnectEvent once the adapter has set up TLS.
TlsConnected ==
  /\ pc = "idle" /\ sock = "tls_connecting" /\ ~hungUp
  /\ sock' = "tls_open"
  /\ UNCHANGED <<task, posted, hungUp, state, error, logging, reset, output,
                 handler, sent, accepted, told, pc, saved, server>>

\* OnCloseEvent: the connection is refused, broken or closed by the server.
\* SignalCloseEvent has no slot: the client listens to SignalClosed.
SocketClosed ==
  /\ pc = "idle" /\ sock \notin {"none", "closed"} /\ ~hungUp
  /\ hungUp' = TRUE
  /\ UNCHANGED <<task, posted, sock, state, error, logging, reset, output,
                 handler, sent, accepted, told, pc, saved, server>>

\* XmppClient::Disconnect, as the pump calls it, on a task that is not done.
DoDisconnect ==
  /\ pc = "idle" /\ task \in {"START", "RESPONSE"}
  /\ task' = "aborted" /\ posted' = TRUE
  /\ IF state # "CLOSED"
     THEN /\ Exit("CLOSED", state,
                  IF state = "OPEN" THEN output \o <<Msg("end")>> ELSE output)
     ELSE /\ sock' = "none"
          /\ UNCHANGED <<state, output, sent, server, handler, reset, told, pc>>
  /\ UNCHANGED <<hungUp, error, logging, accepted, saved>>

\* XmppPump::SendStanza, and its callers' SendStanza from a callback: queued
\* while the login lasts, else printed, and written unless within the engine.
SendStanza ==
  /\ pc \in {"idle", "stanza", "told"}
  /\ task \in {"START", "RESPONSE"} /\ state # "CLOSED"
  /\ accepted < MaxSends
  /\ accepted' = accepted + 1
  /\ IF login # "GONE"
     THEN queued' = queued \o <<Own(accepted')>> /\ UNCHANGED <<output, sent>>
     ELSE /\ IF pc = "stanza"
             THEN output' = output \o <<Own(accepted')>> /\ UNCHANGED sent
             ELSE output' = <<>> /\ sent' = sent \o App(output) \o <<Own(accepted')>>
          /\ UNCHANGED queued
  /\ UNCHANGED <<conn, state, error, login, auth, useTls, tls, encrypted, reset,
                 handler, told, pc, saved, server>>

-----------------------------------------------------------------------------
(* A chunk of bytes and the elements in it. *)

\* OnSocketRead and HandleInput.
Read ==
  /\ pc = "idle" /\ sock \in {"open", "tls_open"} /\ ~hungUp
  /\ state \in {"OPENING", "OPEN"}
  /\ pc' = "input" /\ saved' = state
  /\ UNCHANGED <<conn, state, error, logging, reset, output, handler, sent,
                 accepted, told, server>>

\* The end of HandleInput.
EndRead ==
  /\ pc = "input"
  /\ Exit(state, saved, output)
  /\ UNCHANGED <<task, posted, hungUp, error, logging, accepted, saved>>

\* Mutant: the rest of a chunk is parsed although the stream starts over.
Hears_AfterReset == pc = "input" /\ ~error

\* IncomingStart, IncomingStanza and IncomingEnd drop what comes after an
\* error, and what a chunk has after the end of a stream that starts over.
Hears == pc = "input" /\ ~error /\ ~reset

within == <<conn, handler, sent, accepted, told, saved>>

\* SignalError.
Fails ==
  /\ error' = TRUE /\ state' = "CLOSED"
  /\ UNCHANGED <<within, pc, reset, output, server>>

\* XmppLoginTask::Failure: the login task is reset, with what it had queued.
LoginFails ==
  /\ login' = "GONE" /\ queued' = <<>>
  /\ Fails
  /\ UNCHANGED <<auth, useTls, tls, encrypted>>

\* The login task takes an element, prints `says` and goes on to wait in l.
Advances(l, says, next) ==
  /\ login' = l /\ output' = output \o says /\ server' = next
  /\ UNCHANGED <<within, pc, state, error>>

\* LOGINSTATE_STREAMSTART_SENT: HandleStartStream.
StreamStart(good) ==
  /\ Hears /\ login = "STREAMSTART_SENT"
  /\ IF good
     THEN /\ server = "start"
          /\ Advances("STARTED_XMPP", <<>>, "features")
          /\ UNCHANGED <<auth, useTls, tls, encrypted, queued, reset>>
     ELSE LoginFails

\* LOGINSTATE_TLS_INIT, LOGINSTATE_AUTH_INIT and LOGINSTATE_BIND_INIT.
TlsInit ==
  /\ Advances("TLS_REQUESTED", <<Msg("starttls")>>, "silent")
  /\ UNCHANGED <<auth, useTls, tls, encrypted, queued, reset>>

AuthInit(has) ==
  IF "sasl" \in has
  THEN /\ Advances("SASL_RUNNING", <<Msg("auth")>>, "silent")
       /\ UNCHANGED <<auth, useTls, tls, encrypted, queued, reset>>
  ELSE LoginFails

BindInit(has) ==
  IF "bind" \in has
  THEN /\ Advances("BIND_REQUESTED", <<Msg("bind")>>, "silent")
       /\ UNCHANGED <<auth, useTls, tls, encrypted, queued, reset>>
  ELSE LoginFails

\* Mutant: TLS that is required is used only if it is offered.
Features_Optional(has) ==
  /\ Hears /\ login = "STARTED_XMPP" /\ server = "features"
  /\ LET starts == tls # "disabled" /\ "tls" \in has
     IN  \/ starts /\ TlsInit
         \/ ~starts /\ auth /\ AuthInit(has)
         \/ ~starts /\ ~auth /\ BindInit(has)

\* LOGINSTATE_STARTED_XMPP, and one of the above at once after.
Features(has) ==
  /\ Hears /\ login = "STARTED_XMPP" /\ server = "features"
  /\ LET starts == tls # "disabled" /\ "tls" \in has
         goesOn == ~starts /\ tls # "required"
     IN  \/ starts /\ TlsInit
         \/ goesOn /\ auth /\ AuthInit(has)
         \/ goesOn /\ ~auth /\ BindInit(has)
         \/ ~starts /\ ~goesOn /\ LoginFails

\* LOGINSTATE_INIT again: the stream starts over.
StartsOver ==
  /\ reset' = TRUE
  /\ Advances("STREAMSTART_SENT", <<Msg("start")>>, "silent")

\* The socket is asked to start TLS.  It may refuse, and does if it was asked
\* before; the engine does not look at the answer.
StartTls(starts) ==
  /\ starts => ~encrypted
  /\ sock' = IF starts THEN "tls_connecting" ELSE sock
  /\ encrypted' = TRUE

\* LOGINSTATE_TLS_REQUESTED: TLS is started before the stream restarts.
Proceed(starts) ==
  /\ Hears /\ login = "TLS_REQUESTED" /\ server = "proceed"
  /\ reset' = TRUE /\ login' = "STREAMSTART_SENT"
  /\ output' = output \o <<Msg("start")>> /\ server' = "silent"
  /\ StartTls(starts) /\ tls' = "enabled"
  /\ UNCHANGED <<task, posted, hungUp, handler, sent, accepted, told, saved, pc,
                 state, error, auth, useTls, queued>>

\* LOGINSTATE_SASL_RUNNING.
Challenge ==
  /\ Hears /\ login = "SASL_RUNNING" /\ server = "sasl"
  /\ Advances("SASL_RUNNING", <<Msg("response")>>, "silent")
  /\ UNCHANGED <<auth, useTls, tls, encrypted, queued, reset>>

Success ==
  /\ Hears /\ login = "SASL_RUNNING" /\ server = "sasl"
  /\ auth' = FALSE
  /\ StartsOver
  /\ UNCHANGED <<useTls, tls, encrypted, queued>>

\* LOGINSTATE_BIND_REQUESTED: the answer to the bind.
Bound(good) ==
  /\ Hears /\ login = "BIND_REQUESTED" /\ server = "bind"
  /\ IF good
     THEN /\ Advances("SESSION_REQUESTED", <<Msg("session")>>, "silent")
          /\ UNCHANGED <<auth, useTls, tls, encrypted, queued, reset>>
     ELSE LoginFails

\* Mutant: the session is open, but the queued stanzas are left to the next
\* stanza that is sent.
SessionStarted_Unflushed(good) ==
  /\ Hears /\ login = "SESSION_REQUESTED" /\ server = "session"
  /\ good
  /\ login' = "GONE" /\ state' = "OPEN" /\ queued' = <<>>
  /\ server' = "silent"
  /\ UNCHANGED <<within, pc, error, auth, useTls, tls, encrypted, reset, output>>

\* LOGINSTATE_SESSION_REQUESTED: the session is there, SignalBound, and
\* FlushQueuedStanzas prints what the application has sent so far.
SessionStarted(good) ==
  /\ Hears /\ login = "SESSION_REQUESTED" /\ server = "session"
  /\ IF good
     THEN /\ login' = "GONE" /\ state' = "OPEN"
          /\ output' = output \o queued /\ queued' = <<>>
          /\ server' = "silent"
          /\ UNCHANGED <<within, pc, error, auth, useTls, tls, encrypted, reset>>
     ELSE LoginFails

\* An element that the login does not expect, or a refusal: while an iq is
\* awaited, another stanza is dropped.
Unexpected ==
  /\ Hears /\ login \in {"STARTED_XMPP", "TLS_REQUESTED", "SASL_RUNNING"}
  /\ LoginFails

\* A stream error, the end of the stream, or what is not XML.
StreamEnds ==
  /\ Hears /\ Fails
  /\ UNCHANGED logging

\* A stanza after the login: it goes to the handlers, which may send.
Stanza ==
  /\ Hears /\ login = "GONE"
  /\ pc' = "stanza"
  /\ UNCHANGED <<within, state, error, logging, reset, output, server>>

\* The handlers return.  An iq that none has handled is answered with an error.
EndStanza(unhandled) ==
  /\ pc = "stanza"
  /\ pc' = "input"
  /\ unhandled => Len(output) < MaxOutput
  /\ output' = IF unhandled THEN output \o <<Msg("error")>> ELSE output
  /\ UNCHANGED <<within, state, error, logging, reset, server>>

Element ==
  \/ \E good \in BOOLEAN : StreamStart(good) \/ Bound(good) \/ SessionStarted(good)
  \/ \E has \in FeatureSets : Features(has)
  \/ \E starts \in BOOLEAN : Proceed(starts)
  \/ Challenge \/ Success
  \/ Unexpected \/ StreamEnds
  \/ Stanza \/ \E unhandled \in BOOLEAN : EndStanza(unhandled)

Run == RunResponse \/ \E connects \in BOOLEAN : RunStart(connects)

Next ==
  \/ DoLogin \/ DoDisconnect \/ SendStanza
  \/ Run \/ EndTold
  \/ SocketConnected \/ TlsConnected \/ SocketClosed
  \/ Read \/ EndRead \/ Element

Spec == Init /\ [][Next]_vars

\* The thread goes on: it leaves the engine, returns from callbacks and
\* dispatches the pump's message.
FairSpec ==
  /\ Spec
  /\ WF_vars(EndRead) /\ WF_vars(EndStanza(FALSE)) /\ WF_vars(EndTold)
  /\ WF_vars(RunResponse) /\ WF_vars(\E connects \in BOOLEAN : RunStart(connects))

-----------------------------------------------------------------------------
(* Properties. *)

\* Until the engine is closed, no stanza of the application is lost or overtakes
\* another: not by the queue of the login, not by a send from within a handler
\* (XmppEngineImpl::SendStanza, FlushQueuedStanzas, ~EnterExit).
KeptInOrder ==
  state # "CLOSED" =>
    sent \o App(output) \o queued = [i \in 1 .. accepted |-> Own(i)]

\* Once the engine has been left nothing waits in its buffer, and in an open
\* session nothing is queued either (~EnterExit, FlushQueuedStanzas).
NothingStuck ==
  pc \in {"idle", "told"} =>
    output = <<>> /\ (state = "OPEN" => queued = <<>> /\ login = "GONE")

\* With TLS required the credentials go out, and a session opens, only after the
\* server has agreed to TLS and the socket has been asked for it, and not while the
\* socket is still setting it up (LOGINSTATE_STARTED_XMPP, LOGINSTATE_TLS_REQUESTED).
AuthAfterProceed ==
  useTls = "required" =>
    /\ \A i \in DOMAIN output : output[i].what = "auth" => encrypted
    /\ login = "SASL_RUNNING" \/ ~auth => encrypted /\ sock # "tls_connecting"

\* The pump tells of each state once, in order, and of the end last; a client
\* whose engine is closed has been told, and is deleted or will be
\* (~EnterExit, EnsureClosed, ProcessResponse).
Rank == [START |-> 1, OPENING |-> 2, OPEN |-> 3, CLOSED |-> 4]
ToldOnce ==
  /\ \A i, j \in DOMAIN told : i < j => Rank[told[i]] < Rank[told[j]]
  /\ pc = "idle" /\ state = "CLOSED" =>
       /\ Last(told) = "CLOSED"
       /\ task = "gone" \/ posted

\* A stream that starts over does not read what belongs to the stream before it:
\* no element is taken while its start is still to be written (RaiseReset).
FreshStream ==
  [][login = "STREAMSTART_SENT" /\ Contains(output, Msg("start")) => login' = login]_vars

\* A connection whose engine is closed ends in the deletion of its client, and
\* one that failed to connect as well (OnStateChange, EnsureClosed, Wake).
ClosedIsDeleted == state = "CLOSED" \/ task = "ERROR" ~> task = "gone"

\* When the socket is closed by the other side, or the connection fails, the
\* engine is told and closes.
CloseIsNoticed == hungUp /\ pc = "idle" => state = "CLOSED"

\* With TLS required the credentials go out under TLS (xmpplogintask.cc: "Error if
\* TLS required but not present"; xmppengine.h, IsEncrypted: "under TLS").
CredentialsUnderTls ==
  useTls = "required" /\ login = "SASL_RUNNING" => sock # "open"

=============================================================================
