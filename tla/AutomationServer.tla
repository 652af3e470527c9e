--------------------------- MODULE AutomationServer ----------------------------
(***************************************************************************)
(* The life of the MCP server in the main process: the settings file and   *)
(* all that rewrite it, the announcements of the page,                     *)
(* #reconcile(), which stops the old server and starts one that fits the   *)
(* settings, the SerializedAsyncRunner that keeps the reconciliations      *)
(* apart, and the HTTP requests that are under way meanwhile               *)
(* (automationRuntime.main.ts, serializedAsyncRunner.std.ts,               *)
(* mcpHttpServer.node.ts, automationSettings.node.ts).                     *)
(*                                                                         *)
(* A call stands for whatever ends in reconcile(): a settings handler or   *)
(* the page's message that it is ready.  What is kept of the webhooks in   *)
(* the same file is written without a reconciliation.  A server is known   *)
(* by the call that has started it.  Tokens are numbered in the order in   *)
(* which they were generated.  Tools and hosts are left out of the         *)
(* settings: they take the way of the port; and so is what the file says   *)
(* of the webhooks, which is in WebhookDelivery.                           *)
(***************************************************************************)
EXTENDS Integers, Sequences, FiniteSets

CONSTANTS
    MaxCalls,     \* bound: calls, numbered in the order they are made
    Requests,     \* HTTP requests that may be under way at a time
    Writers,      \* webhook operations that may rewrite the file at a time
    Ports,
    Scenarios     \* how many calls are made, and what may go wrong

ServerFaults ==
    {"read",      \* the settings cannot be read or decrypted
     "write",     \* the settings cannot be written
     "listen"}    \* listen() fails for another reason than a port in use

Calls == 1..MaxCalls
Quit == MaxCalls + 1      \* runtime.stop(), on before-quit
NoCall == 0

Settings == [enabled : BOOLEAN, port : Ports, token : Nat]
NoToken == 0

ASSUME ServerAssumption ==
    /\ MaxCalls \in Nat
    /\ Ports # {}
    /\ \A s \in Scenarios :
        /\ s.calls \in 0..MaxCalls
        /\ s.requests \subseteq Requests
        /\ s.writers \subseteq Writers
        /\ s.faults \subseteq ServerFaults
        /\ s.ports \subseteq Ports      \* ports the user asks for
        /\ s.taken \subseteq Ports      \* ports other programs listen on
        /\ s.overlap \in BOOLEAN        \* the settings panel does not wait
        /\ s.quits \in BOOLEAN

VARIABLES
    disk,       \* the settings file
    ready,      \* #rendererReady
    writer,     \* the copy of the file that a webhook operation has read
    lost,       \* has such a copy undone a change of the settings? (history)
    call,       \* what has become of each call
    chain,      \* calls whose task waits for its predecessor
    closed,     \* #closed of the runner
    current,    \* #server, by the call that has started it
    server,     \* the MinutesMcpHttpServer a call has made
    runtimeStatus,     \* #status
    request,    \* what has become of each HTTP request
    scenario    \* the choice made from Scenarios

writerVars == <<writer, lost>>
settingsVars == <<disk, ready, writerVars>>
runnerVars == <<call, chain, closed>>
lifeVars == <<current, server, runtimeStatus>>
serverVars == <<settingsVars, runnerVars, lifeVars, request>>

HandlerSteps == {"read", "write"}
TaskSteps == {"stop", "settings", "token", "start"}
Ends == {"answered", "failed"}
Steps == {"none", "chained"} \cup HandlerSteps \cup TaskSteps \cup Ends

Handlers == {"save", "regenerate"}
Kinds == Handlers \cup {"none", "ready", "quit"}

NoSettings == [enabled |-> FALSE, port |-> CHOOSE p \in Ports : TRUE,
               token |-> NoToken]
NoServer == [phase |-> "none", port |-> NoSettings.port, token |-> NoToken,
             session |-> FALSE]
NoRequest == [step |-> "none", server |-> NoCall, initialize |-> FALSE]
NoWriter == [step |-> "none", copy |-> NoSettings]

ServerInit ==
    /\ disk \in {NoSettings, [NoSettings EXCEPT !.enabled = TRUE, !.token = 1]}
    /\ ready = FALSE
    /\ writer = [w \in Writers |-> NoWriter]
    /\ lost = "never"
    /\ call = [c \in Calls \cup {Quit} |->
                 [kind |-> "none", step |-> "none", token |-> NoToken,
                  seen |-> NoSettings]]
    /\ chain = <<>>
    /\ closed = FALSE
    /\ current = NoCall
    /\ server = [c \in Calls |-> NoServer]
    /\ runtimeStatus = "stopped"
    /\ request = [r \in Requests |-> NoRequest]
    /\ scenario \in Scenarios

-------------------------------------------------------------------------------
(* The runner: run() chains a task to the end of its predecessor. *)

Goto(c, step) == [call EXCEPT ![c].step = step]

\* What a call has read is forgotten when it ends.
Ended(c, outcome) ==
    [call EXCEPT ![c].step = outcome, ![c].seen = NoSettings]

At(c, step) == call[c].step = step
Running == {c \in Calls \cup {Quit} : call[c].step \in TaskSteps}

\* Seeded fault: run() forgets that the runner is closed.
RunAnyway(c, calls) ==
    /\ call' = [calls EXCEPT ![c].step = "chained", ![c].seen = NoSettings]
    /\ chain' = Append(chain, c)
    /\ UNCHANGED closed

\* Seeded fault: a task that is already chained makes another one unnecessary,
\* even when it has begun.
RunUnlessBusy(c, calls) ==
    IF closed \/ Running # {} \/ chain # <<>>
    THEN call' = [calls EXCEPT ![c].step = "answered", ![c].seen = NoSettings] /\ UNCHANGED <<chain, closed>>
    ELSE /\ call' = [calls EXCEPT ![c].step = "chained", ![c].seen = NoSettings]
         /\ chain' = Append(chain, c)
         /\ UNCHANGED closed

\* run(), by the call c, which has just become calls[c].
Run(c, calls) ==
    IF closed
    THEN call' = [calls EXCEPT ![c].step = "answered", ![c].seen = NoSettings] /\ UNCHANGED <<chain, closed>>
    ELSE /\ call' = [calls EXCEPT ![c].step = "chained", ![c].seen = NoSettings]
         /\ chain' = Append(chain, c)
         /\ UNCHANGED closed

\* close(), called once: before-quit is heard once.
QuitBegins ==
    /\ scenario.quits
    /\ ~closed
    /\ closed' = TRUE
    /\ chain' = Append(chain, Quit)
    /\ call' = [call EXCEPT ![Quit].kind = "quit", ![Quit].step = "chained"]
    /\ UNCHANGED <<settingsVars, lifeVars, request>>

-------------------------------------------------------------------------------
(* The settings handlers and the announcements of the page. *)

\* Calls are numbered in the order they are made.
IsNext(c) ==
    /\ c <= scenario.calls
    /\ \A d \in Calls : call[d].kind = "none" <=> d >= c

\* The settings panel disables its buttons while one handler is awaited; it
\* forgets that one is when it is closed and opened again.
PanelIsFree ==
    \/ scenario.overlap
    \/ \A c \in Calls : call[c].kind \in Handlers => call[c].step \in Ends

\* The token 1 may have been there from the start.
NewToken == 2 + Cardinality({c \in Calls : call[c].kind = "regenerate"})

HandlerCalled(c, kind) ==
    /\ IsNext(c)
    /\ PanelIsFree
    /\ call' = [call EXCEPT
                  ![c].kind = kind, ![c].step = "read",
                  ![c].token = IF kind = "regenerate" THEN NewToken ELSE NoToken]
    /\ UNCHANGED <<settingsVars, chain, closed, lifeVars, request>>

\* Both handlers copy the whole file and change their part of the copy.
SettingsRead(c) ==
    /\ At(c, "read")
    /\ \/ \E enabled \in BOOLEAN, port \in scenario.ports :
            call' = [Goto(c, "write") EXCEPT
                       ![c].seen =
                         IF call[c].kind = "save"
                         THEN [disk EXCEPT !.enabled = enabled, !.port = port]
                         ELSE [disk EXCEPT !.token = call[c].token]]
       \/ "read" \in scenario.faults /\ call' = Ended(c, "failed")
    /\ UNCHANGED <<settingsVars, chain, closed, lifeVars, request>>

\* The file is replaced by a rename.
SettingsWritten(c) ==
    /\ At(c, "write")
    /\ \/ disk' = call[c].seen /\ Run(c, call)
       \/ /\ "write" \in scenario.faults
          /\ call' = Ended(c, "failed")
          /\ UNCHANGED <<disk, chain, closed>>
    /\ UNCHANGED <<ready, writerVars, lifeVars, request>>

RendererReady(c) ==
    /\ IsNext(c)
    /\ ready' = TRUE
    /\ Run(c, [call EXCEPT ![c].kind = "ready"])
    /\ UNCHANGED <<disk, writerVars, lifeVars, request>>

\* The window is destroyed: nothing is reconciled.
RendererUnavailable ==
    /\ ready
    /\ ready' = FALSE
    /\ UNCHANGED <<disk, writerVars, runnerVars, lifeVars, request>>

-------------------------------------------------------------------------------
(* What else rewrites the file: the result of each delivery, from the timer of
   the webhooks, and the panel's changes of the webhooks.  They copy the whole
   file, change only what it says of the webhooks, and do not reconcile. *)

WriterReads(w) ==
    /\ w \in scenario.writers
    /\ writer[w].step = "none"
    /\ writer' = [writer EXCEPT ![w] = [step |-> "write", copy |-> disk]]
    /\ UNCHANGED <<disk, ready, lost, runnerVars, lifeVars, request>>

\* The settings of the server are written back as they were read.
WriterWrites(w) ==
    /\ writer[w].step = "write"
    /\ writer' = [writer EXCEPT ![w] = NoWriter]
    /\ disk' = writer[w].copy
    /\ lost' = IF writer[w].copy = disk THEN lost ELSE "unread"
    /\ UNCHANGED <<ready, runnerVars, lifeVars, request>>

\* The endpoint is gone, the input is refused, or the file cannot be written.
WriterGivesUp(w) ==
    /\ writer[w].step = "write"
    /\ writer' = [writer EXCEPT ![w] = NoWriter]
    /\ UNCHANGED <<disk, ready, lost, runnerVars, lifeVars, request>>

WriterStep(w) == WriterReads(w) \/ WriterWrites(w) \/ WriterGivesUp(w)

-------------------------------------------------------------------------------
(* #reconcile() and the cleanup of stop(): the task of a call. *)

\* Seeded fault: a task begins although another one is running.
PredecessorIgnored == TRUE

\* runAfter() waits for its predecessor, and ignores its error.
PredecessorIsOver == Running = {}

\* A reconciliation goes on with the settings; the cleanup is over.
Stopped(c) ==
    /\ server' = [s \in Calls |-> IF s = current
                                  THEN [NoServer EXCEPT !.phase = "closed"]
                                  ELSE server[s]]
    /\ current' = NoCall
    /\ runtimeStatus' = "stopped"
    /\ call' = Goto(c, IF c = Quit THEN "answered" ELSE "settings")

\* A task begins with stop(): the server forgets its sessions and listens no
\* more.  Their transports are closed before close() is called; a request that
\* arrives meanwhile finds no session, so both are one step.
TaskBegins(c) ==
    /\ PredecessorIsOver
    /\ chain # <<>> /\ c = Head(chain)
    /\ chain' = Tail(chain)
    /\ call' = Goto(c, "stop")
    /\ server' = [s \in Calls |->
                    IF s = current
                    THEN [server[s] EXCEPT !.phase = "closing", !.session = FALSE]
                    ELSE server[s]]
    /\ UNCHANGED <<settingsVars, closed, current, runtimeStatus, request>>

\* The requests whose connection keeps the server s from being closed; NoCall
\* has none.
ConnectionsOf(s) ==
    {r \in Requests : /\ request[r].server = s
                      /\ request[r].step \in {"body", "tool", "stream"}}

\* Seeded fault: stop() does not wait for the connections.
ServerStoppedEarly(c) ==
    /\ At(c, "stop")
    /\ Stopped(c)
    /\ UNCHANGED <<settingsVars, chain, closed, request>>

\* HttpServer.close() answers when the last connection has ended.
ServerStopped(c) ==
    /\ At(c, "stop")
    /\ ConnectionsOf(current) = {}
    /\ Stopped(c)
    /\ UNCHANGED <<settingsVars, chain, closed, request>>

\* getPublicSettings() and getTokenHash() each read the file.
SettingsLoaded(c) ==
    /\ At(c, "settings")
    /\ \/ /\ call' = [Goto(c, "token") EXCEPT ![c].seen = disk]
          /\ lost' = IF lost = "unread" THEN "reconciled" ELSE lost
       \/ "read" \in scenario.faults /\ call' = Ended(c, "failed") /\ UNCHANGED lost
    /\ UNCHANGED <<disk, ready, writer, chain, closed, lifeVars, request>>

TokenLoaded(c) ==
    /\ At(c, "token")
    /\ \/ /\ call[c].seen.enabled /\ ready /\ disk.token # NoToken
          /\ server' = [server EXCEPT
                          ![c] = [NoServer EXCEPT !.phase = "starting",
                                                  !.port = call[c].seen.port,
                                                  !.token = disk.token]]
          /\ call' = Goto(c, "start")
       \/ /\ ~(call[c].seen.enabled /\ ready /\ disk.token # NoToken)
          /\ call' = Ended(c, "answered")
          /\ UNCHANGED server
       \/ /\ "read" \in scenario.faults
          /\ call' = Ended(c, "failed")
          /\ UNCHANGED server
    /\ UNCHANGED <<settingsVars, chain, closed, current, runtimeStatus, request>>

PortIsFree(p) ==
    /\ p \notin scenario.taken
    /\ \A s \in Calls : server[s].phase = "listening" => server[s].port # p

ServerListens(c) ==
    /\ At(c, "start")
    /\ PortIsFree(server[c].port)
    /\ server' = [server EXCEPT ![c].phase = "listening"]
    /\ current' = c
    /\ runtimeStatus' = "running"
    /\ call' = Ended(c, "answered")
    /\ UNCHANGED <<settingsVars, chain, closed, request>>

\* Seeded fault: start() does not hear of an error.
ServerNeverFails(c) == FALSE

\* The error is shown in the status; the call does not fail.
ServerFails(c) ==
    /\ At(c, "start")
    /\ \/ ~PortIsFree(server[c].port) /\ runtimeStatus' = "port-unavailable"
       \/ "listen" \in scenario.faults /\ runtimeStatus' = "error"
    /\ server' = [server EXCEPT ![c] = [NoServer EXCEPT !.phase = "failed"]]
    /\ call' = Ended(c, "answered")
    /\ UNCHANGED <<settingsVars, chain, closed, current, request>>

TaskProceeds(c) ==
    \/ ServerStopped(c)
    \/ SettingsLoaded(c)
    \/ TokenLoaded(c)
    \/ ServerListens(c)
    \/ ServerFails(c)

-------------------------------------------------------------------------------
(* HTTP requests.  One whose token, host or origin is refused, and one that
   reaches a server on which stop() has been called, is answered at once and
   changes nothing, and so is a DELETE.  A POST is under way for longer, and a
   GET opens the event stream of its session. *)

RequestArrives(r, s) ==
    /\ r \in scenario.requests
    /\ request[r].step = "none"
    /\ server[s].phase = "listening"
    /\ \/ \E initialize \in BOOLEAN :
             request' = [request EXCEPT ![r] = [step |-> "body", server |-> s,
                                                initialize |-> initialize]]
       \/ /\ server[s].session
          /\ request' = [request EXCEPT ![r] = [step |-> "stream", server |-> s,
                                                initialize |-> FALSE]]
    /\ UNCHANGED <<settingsVars, runnerVars, lifeVars>>

Answered(r) == [request EXCEPT ![r] = NoRequest]

\* #handlePost() after readJsonBody().  A session that is opened while its
\* server is being closed is of no use: no later request reaches it.
BodyArrives(r) ==
    /\ request[r].step = "body"
    /\ LET s == request[r].server
       IN  IF request[r].initialize
           THEN /\ server' = [server EXCEPT
                                ![s].session = @ \/ server[s].phase = "listening"]
                /\ request' = Answered(r)
           ELSE /\ request' = IF server[s].session
                              THEN [request EXCEPT ![r].step = "tool"]
                              ELSE Answered(r)
                /\ UNCHANGED server
    /\ UNCHANGED <<settingsVars, runnerVars, current, runtimeStatus>>

\* The tool answers, if its client is still there.
ToolEnds(r) ==
    /\ request[r].step \in {"tool", "detached"}
    /\ request' = Answered(r)
    /\ UNCHANGED <<settingsVars, runnerVars, lifeVars>>

\* The client gives up, or stop() closes the transport of its session; a tool
\* that has been called goes on.
ConnectionEnds(r) ==
    /\ request[r].step \in {"body", "tool", "stream"}
    /\ request' = IF request[r].step = "tool"
                  THEN [request EXCEPT ![r].step = "detached"]
                  ELSE Answered(r)
    /\ UNCHANGED <<settingsVars, runnerVars, lifeVars>>

\* A client reads the events of its session as long as it likes.
Lasts(r) ==
    request[r].step = "stream" /\ server[request[r].server].phase = "listening"

-------------------------------------------------------------------------------

CallStep ==
    \/ \E c \in Calls :
          \/ \E kind \in Handlers : HandlerCalled(c, kind)
          \/ SettingsRead(c)
          \/ SettingsWritten(c)
          \/ RendererReady(c)
    \/ RendererUnavailable
    \/ QuitBegins

RequestStep ==
    \/ \E r \in Requests, s \in Calls : RequestArrives(r, s)
    \/ \E r \in Requests : BodyArrives(r) \/ ConnectionEnds(r)

\* Everything but the end of a tool, which is where the jobs come in.
ServerStep ==
    /\ \/ CallStep
       \/ \E w \in Writers : WriterStep(w)
       \/ \E c \in Calls \cup {Quit} : TaskBegins(c) \/ TaskProceeds(c)
       \/ RequestStep
    /\ UNCHANGED scenario

ServerNext ==
    \/ ServerStep
    \/ \E r \in Requests : ToolEnds(r) /\ UNCHANGED scenario

ServerSpec == ServerInit /\ [][ServerNext]_<<serverVars, scenario>>

-------------------------------------------------------------------------------

ServerTypeOK ==
    /\ disk \in Settings
    /\ ready \in BOOLEAN
    /\ call \in [Calls \cup {Quit} -> [kind : Kinds, step : Steps, token : Nat,
                                       seen : Settings]]
    /\ chain \in Seq(Calls \cup {Quit})
    /\ closed \in BOOLEAN
    /\ current \in Calls \cup {NoCall}
    /\ server \in [Calls -> [phase : {"none", "starting", "listening", "closing",
                                      "closed", "failed"},
                             port : Ports, token : Nat, session : BOOLEAN]]
    /\ runtimeStatus \in {"stopped", "running", "port-unavailable", "error"}
    /\ request \in [Requests -> [step : {"none", "body", "tool", "stream", "detached"},
                                 server : Calls \cup {NoCall},
                                 initialize : BOOLEAN]]

WritersTypeOK ==
    /\ writer \in [Writers -> [step : {"none", "write"}, copy : Settings]]
    /\ lost \in {"never", "unread", "reconciled"}

Alive(s) == server[s].phase \in {"starting", "listening", "closing"}

\* A server is started only when the one before it is closed.
OneServer == \A s, t \in Calls : Alive(s) /\ Alive(t) => s = t

\* #server is the only way to stop a server; none is lost while it listens.
NoServerIsLost ==
    \A s \in Calls : server[s].phase \in {"listening", "closing"} => current = s

NothingAfterQuit == At(Quit, "answered") => \A s \in Calls : ~Alive(s)

(* At most one server lives at a time, the runtime can always stop it, and none
   is left or started when stop() has returned (automationRuntime.main.ts:
   297-329, 342-353). *)
ServerInv ==
    /\ ServerTypeOK
    /\ WritersTypeOK
    /\ OneServer
    /\ NoServerIsLost
    /\ NothingAfterQuit

AtRest ==
    /\ chain = <<>> /\ ~closed
    /\ \A c \in Calls : call[c].step \in Ends \cup {"none"}

Fits(s) == server[s].port = disk.port /\ server[s].token = disk.token

(* When nothing is under way and nothing has failed, the server is the one the
   file asks for, whichever handlers and announcements overlapped while the
   last one was stopped or started (automationRuntime.main.ts:293-329,
   429-451), and whatever was written about webhooks meanwhile.  Only a webhook
   operation that writes an older copy back leaves a server which does not fit,
   and only until the next reconciliation (automationSettings.node.ts:
   203-208, 300-320). *)
SettledServerFits ==
    AtRest /\ lost # "unread" /\ (\A c \in Calls : ~At(c, "failed")) =>
        IF current # NoCall
        THEN disk.enabled /\ Fits(current) /\ runtimeStatus = "running"
        ELSE \/ ~disk.enabled \/ disk.token = NoToken \/ ~ready
             \/ runtimeStatus \in {"port-unavailable", "error"}

Revoked(t) ==
    \E c \in Calls : /\ call[c].kind = "regenerate" /\ At(c, "answered")
                     /\ t < call[c].token

(* Once the user is shown a new token, the old one opens nothing: no server that
   knows it listens, and no request it was accepted for is still connected
   (automationRuntime.main.ts:446-451, mcpHttpServer.node.ts:162-187), whatever
   is written about webhooks meanwhile.  Two handlers at a time may restore the
   old token, and so may a webhook operation that writes an older copy back; a
   quitting runtime does not reconcile. *)
RevokedTokenIsDead ==
    ~scenario.overlap /\ ~closed /\ lost = "never" =>
        \A s \in Calls :
            Revoked(server[s].token) =>
                server[s].phase # "listening" /\ ConnectionsOf(s) = {}

Serial == INSTANCE SerialExecutor
            WITH Tasks <- Calls, Cleanup <- Quit, NoTask <- NoCall,
                 waiting <- chain,
                 active <- IF Running = {} THEN NoCall
                           ELSE CHOOSE c \in Running : TRUE

(* Reconciliations run one at a time in the order they were asked for, and the
   cleanup of stop() is the last (serializedAsyncRunner.std.ts:24-48). *)
ImplementsExecutor == Serial!Spec

(* Every call is answered, also when the runtime is stopped meanwhile. *)
CallsAreAnswered ==
    \A c \in Calls \cup {Quit} :
        call[c].step # "none" ~> call[c].step \in Ends
===============================================================================
