----------------------------- MODULE Automation_proofs -----------------------------
(***************************************************************************)
(* Proofs about the two halves of the way from an MCP client into the      *)
(* application, the server and the requests to send, and about the runtime *)
(* that puts the server and the job registry together.                     *)
(*                                                                         *)
(* AutomationServer, for every number of calls, every set of requests,     *)
(* webhook operations, ports and scenarios: at most one MCP server lives   *)
(* at a time, #server always leads to it, and none is left when stop() has *)
(* returned; a server at rest is the one the file asks for, and a token    *)
(* which was replaced lets nobody in, as long as no webhook operation has  *)
(* written an older copy of the file back; and the runner is a serial      *)
(* executor.                                                               *)
(*                                                                         *)
(* ServerInv is not inductive: that TokenLoaded() finds no server alive is *)
(* known only from where the running task is, and that a task runs alone   *)
(* only from what the chain of the runner holds.  TaskInv says this.       *)
(* WritersTypeOK is kept beside it: only the steps of webhook operations   *)
(* and the task that reads the file touch what it speaks of.               *)
(* FitsInv and RevokedInv say of each task in the chain, and of each step  *)
(* of the running one, what it still has to learn from the file.           *)
(*                                                                         *)
(* AutomationRequests, for every number of requests, all keys and          *)
(* contents, every size of the cache and every choice of faults: a second  *)
(* message for an idempotency key, or an answer that is not true, needs a  *)
(* call that fails when it has queued its message or returns without, and  *)
(* whoever waits has a call in progress.                                   *)
(*                                                                         *)
(* RequestsInv is not inductive, and neither are SentOncePerKey and        *)
(* AnswersAreTrue: which call a request may join, and what it may be told, *)
(* is known from the cache and from what is on its way.  ComingInv says    *)
(* that a request leaves no trace before it is handled, CallsInv ties      *)
(* calls to messages and waiters to calls, CacheInv says that an entry     *)
(* stands for what was asked by a call that has not failed, ToldInv is     *)
(* AnswersAreTrue with the answers on their way, and OnceInv says that     *)
(* every call whose key may be used again is in the cache.                 *)
(*                                                                         *)
(* AutomationRuntime implements the specifications of its two parts, so    *)
(* that what is shown of each of them alone holds of the runtime.          *)
(***************************************************************************)
EXTENDS AutomationRuntime, AutomationRequests, ArrayFilter_proofs,
        JobRegistry_proofs, SequenceTheorems, TLAPS

-----------------------------------------------------------------------------
(* AutomationServer: the runner and the server it keeps. *)

Callers == Calls \cup {Quit}

\* runAfter() lets a task begin when its predecessor is over.
OneTask ==
    \A c, d \in Callers :
        call[c].step \in TaskSteps /\ call[d].step \in TaskSteps => c = d

\* A call is chained once, and waits as long as it is.
ChainWaits ==
    /\ \A i \in 1..Len(chain) : At(chain[i], "chained")
    /\ \A i, j \in 1..Len(chain) : chain[i] = chain[j] => i = j

\* A call is somewhere from the moment it is made.
CallsAreSomewhere ==
    \A c \in Calls : call[c].kind = "none" <=> call[c].step = "none"

\* close() chains the cleanup and lets nothing be chained after it.
QuitIsLast ==
    /\ call[Quit].step \in {"none", "chained", "stop", "answered"}
    /\ closed <=> call[Quit].step # "none"
    /\ \A i \in 1..Len(chain) : chain[i] = Quit => i = Len(chain)
    /\ call[Quit].step \in {"stop", "answered"} => chain = <<>>
    /\ At(Quit, "answered") => \A c \in Callers : call[c].step \notin TaskSteps

\* #server is set from start() to the next stop(); between them a task has it
\* to itself.
ServerFollowsTask ==
    /\ \A s \in Calls : server[s].phase = "starting" <=> At(s, "start")
    /\ \A s \in Calls :
          server[s].phase \in {"listening", "closing"} <=> current = s
    /\ \A c \in Callers :
          call[c].step \in {"settings", "token", "start"} => current = NoCall
    /\ At(Quit, "answered") => current = NoCall

TaskInv ==
    /\ OneTask
    /\ ChainWaits
    /\ CallsAreSomewhere
    /\ QuitIsLast
    /\ ServerFollowsTask

ServerIInv ==
    /\ ServerTypeOK
    /\ scenario \in Scenarios
    /\ TaskInv

-------------------------------------------------------------------------------

(* What the inductive invariant is for: it implies the invariant that the runs
   check. *)
LEMMA IInvImpliesInv ==
  ServerIInv /\ WritersTypeOK => ServerInv
  <1> SUFFICES ASSUME ServerIInv, WritersTypeOK PROVE ServerInv
    OBVIOUS
  <1> USE DEF ServerIInv, TaskInv
  <1>1. OneServer
    BY DEF OneServer, Alive, OneTask, ServerFollowsTask, At, Callers, TaskSteps,
           NoCall, Calls
  <1>2. NoServerIsLost
    BY DEF NoServerIsLost, ServerFollowsTask
  <1>3. NothingAfterQuit
    BY ServerAssumption DEF NothingAfterQuit, Alive, QuitIsLast, ServerFollowsTask, At, Callers,
           TaskSteps, NoCall, Calls
  <1> QED BY <1>1, <1>2, <1>3 DEF ServerInv

-------------------------------------------------------------------------------

ServerStates ==
    [phase : {"none", "starting", "listening", "closing", "closed", "failed"},
     port : Ports, token : Nat, session : BOOLEAN]

(* Calls, the quitting runtime and "no call" are told apart, and the values
   that stand for nothing have their types. *)
LEMMA Names ==
  /\ Quit \notin Calls /\ NoCall \notin Callers
  /\ NoSettings \in Settings
  /\ NoServer.phase = "none" /\ NoServer.port \in Ports
  /\ NoServer.token = NoToken /\ NoServer.session = FALSE
  /\ NoToken \in Nat
  /\ NoServer \in ServerStates
  BY ServerAssumption
  DEF Quit, Calls, NoCall, Callers, NoSettings, NoServer, Settings, NoToken,
      ServerStates

(* Nothing has been asked for when the runtime is made. *)
LEMMA InitEstablishesIInv ==
  ServerInit => ServerIInv /\ WritersTypeOK
  <1> SUFFICES ASSUME ServerInit PROVE ServerIInv /\ WritersTypeOK
    OBVIOUS
  <1> USE ServerAssumption, Names DEF ServerInit
  <1>1. ServerTypeOK
    <2>1. disk \in Settings
      <3>1. ASSUME NEW x \in Settings
            PROVE  [x EXCEPT !.enabled = TRUE, !.token = 1] \in Settings
        BY DEF Settings
      <3> QED BY <3>1
    <2>2. server \in [Calls -> [phase : {"none", "starting", "listening",
                                          "closing", "closed", "failed"},
                                port : Ports, token : Nat, session : BOOLEAN]]
      BY DEF NoServer
    <2>3. call \in [Calls \cup {Quit} -> [kind : Kinds, step : Steps,
                                           token : Nat, seen : Settings]]
      BY DEF Kinds, Steps
    <2>4. request \in [Requests -> [step : {"none", "body", "tool", "stream", "detached"},
                                    server : Calls \cup {NoCall},
                                    initialize : BOOLEAN]]
      BY DEF NoRequest
    <2>5. chain \in Seq(Calls \cup {Quit}) /\ current \in Calls \cup {NoCall}
      OBVIOUS
    <2> QED
      BY <2>1, <2>2, <2>3, <2>4, <2>5 DEF ServerTypeOK
  <1>2. TaskInv
    BY DEF TaskInv, OneTask, ChainWaits, CallsAreSomewhere, QuitIsLast,
           ServerFollowsTask, Callers, TaskSteps, At
  <1>3. WritersTypeOK
    BY DEF WritersTypeOK, NoWriter
  <1> QED BY <1>1, <1>2, <1>3 DEF ServerIInv

(* A step that moves no call and no server keeps the invariant. *)
LEMMA RequestsPreserveTaskInv ==
  ASSUME TaskInv, UNCHANGED <<runnerVars, current>>,
         \A s \in Calls : server'[s].phase = server[s].phase
  PROVE  TaskInv'
  BY DEF TaskInv, OneTask, ChainWaits, CallsAreSomewhere, QuitIsLast,
         ServerFollowsTask, Callers, At, runnerVars

(* A handler that reads or fails is no task. *)
LEMMA HandlerStepPreservesTaskInv ==
  ASSUME ServerTypeOK, TaskInv, NEW c \in Calls,
         call[c].step \in {"none"} \cup HandlerSteps,
         call'[c].kind # "none",
         call'[c].step \in HandlerSteps \cup Ends,
         \A d \in Callers \ {c} : call'[d] = call[d],
         UNCHANGED <<chain, closed, lifeVars>>
  PROVE  TaskInv'
  <1> USE Names DEF TaskInv, HandlerSteps, TaskSteps, Ends
  <1>1. OneTask'
    BY DEF OneTask, Callers
  <1>2. ChainWaits'
    <2>1. chain \in Seq(Callers)
      BY DEF ServerTypeOK, Callers
    <2>2. \A i \in 1..Len(chain) : chain[i] \in Callers \ {c}
      BY <2>1 DEF ChainWaits, At
    <2> QED BY <2>2 DEF ChainWaits, At
  <1>3. CallsAreSomewhere'
    BY DEF CallsAreSomewhere, Callers
  <1>4. QuitIsLast'
    BY DEF QuitIsLast, At, Callers
  <1>5. ServerFollowsTask'
    BY DEF ServerFollowsTask, At, Callers, lifeVars
  <1> QED BY <1>1, <1>2, <1>3, <1>4, <1>5

(* run() by a call that is not chained yet: it is chained behind the others,
   unless the runner is closed. *)
LEMMA RunPreservesTaskInv ==
  ASSUME ServerTypeOK, TaskInv, NEW c \in Calls,
         call[c].step \in {"none"} \cup HandlerSteps,
         call'[c].kind # "none",
         \A d \in Callers \ {c} : call'[d] = call[d],
         \/ closed /\ call'[c].step = "answered" /\ chain' = chain
         \/ ~closed /\ call'[c].step = "chained" /\ chain' = Append(chain, c),
         UNCHANGED <<closed, lifeVars>>
  PROVE  TaskInv'
  <1> USE Names DEF TaskInv, HandlerSteps, TaskSteps, Ends
  <1>1. OneTask'
    BY DEF OneTask, Callers
  <1>2. /\ chain \in Seq(Callers) /\ c \in Callers
        /\ \A i \in 1..Len(chain) : chain[i] \in Callers \ {c}
    <2>1. chain \in Seq(Callers) /\ c \in Callers
      BY DEF ServerTypeOK, Callers
    <2> QED BY <2>1 DEF ChainWaits, At
  <1>3. ChainWaits'
    <2>1. CASE chain' = chain
      BY <1>2, <2>1 DEF ChainWaits, At
    <2>2. CASE chain' = Append(chain, c) /\ call'[c].step = "chained"
      <3>1. /\ Len(chain') = Len(chain) + 1 /\ chain'[Len(chain) + 1] = c
            /\ \A i \in 1..Len(chain) : chain'[i] = chain[i]
        BY <1>2, <2>2
      <3> QED BY <1>2, <2>2, <3>1 DEF ChainWaits, At
    <2> QED BY <2>1, <2>2
  <1>4. CallsAreSomewhere'
    BY DEF CallsAreSomewhere, Callers
  <1>5. QuitIsLast'
    <2>1. CASE closed /\ chain' = chain
      BY <2>1 DEF QuitIsLast, At, Callers
    <2>2. CASE ~closed /\ chain' = Append(chain, c)
      <3>1. /\ Len(chain') = Len(chain) + 1 /\ chain'[Len(chain) + 1] = c
            /\ \A i \in 1..Len(chain) : chain'[i] = chain[i]
        BY <1>2, <2>2
      <3>2. \A i \in 1..Len(chain) : chain[i] # Quit
        BY <2>2 DEF QuitIsLast, ChainWaits, At
      <3> QED BY <1>2, <2>2, <3>1, <3>2 DEF QuitIsLast, At, Callers
    <2> QED BY <2>1, <2>2
  <1>6. ServerFollowsTask'
    BY DEF ServerFollowsTask, At, Callers, lifeVars
  <1> QED BY <1>1, <1>3, <1>4, <1>5, <1>6

(* A task that moves on within its steps, or ends, leaves the chain and the
   other calls alone.  What becomes of the servers is left to the caller. *)
LEMMA TaskStepPreservesTaskInv ==
  ASSUME ServerTypeOK, TaskInv, NEW c \in Callers,
         call[c].step \in TaskSteps,
         call'[c].kind = call[c].kind,
         call'[c].step \in TaskSteps \cup Ends,
         c = Quit => call'[c].step = "answered",
         \A d \in Callers \ {c} : call'[d] = call[d],
         UNCHANGED <<chain, closed>>,
         ServerFollowsTask'
  PROVE  TaskInv'
  <1> USE Names DEF TaskInv, TaskSteps, Ends
  <1>1. OneTask'
    BY DEF OneTask
  <1>2. ChainWaits'
    <2>1. chain \in Seq(Callers)
      BY DEF ServerTypeOK, Callers
    <2>2. \A i \in 1..Len(chain) : chain[i] \in Callers \ {c}
      BY <2>1 DEF ChainWaits, At
    <2> QED BY <2>2 DEF ChainWaits, At
  <1>3. CallsAreSomewhere'
    BY DEF CallsAreSomewhere, Callers
  <1>4. QuitIsLast'
    <2>1. CASE c = Quit
      <3>1. \A d \in Callers : call'[d].step \notin TaskSteps
        BY <2>1 DEF OneTask
      <3> QED BY <2>1, <3>1 DEF QuitIsLast, At
    <2>2. CASE c # Quit
      <3>1. ~At(Quit, "answered") /\ Quit \in Callers
        BY <2>2 DEF QuitIsLast, At, Callers
      <3> QED BY <2>2, <3>1 DEF QuitIsLast, At
    <2> QED BY <2>1, <2>2
  <1> QED BY <1>1, <1>2, <1>3, <1>4

(* The head of the chain begins when no task runs, and finds #server as the
   last one has left it. *)
LEMMA TaskBeginsPreservesTaskInv ==
  ASSUME ServerTypeOK, TaskInv, NEW c \in Callers, TaskBegins(c)
  PROVE  TaskInv'
  <1> USE Names DEF TaskInv, TaskSteps, Ends
  <1>1. chain \in Seq(Callers) /\ chain # <<>> /\ chain' = Tail(chain)
    BY DEF ServerTypeOK, Callers, TaskBegins
  <1>2. /\ Len(chain) \in Nat \ {0} /\ Len(chain') = Len(chain) - 1
        /\ \A i \in 1..Len(chain') :
              i + 1 \in 1..Len(chain) /\ chain'[i] = chain[i + 1]
    BY <1>1, EmptySeq, HeadTailProperties
  <1>3. chain[1] = c /\ call[c].step = "chained"
    <2>1. c = Head(chain)
      BY DEF TaskBegins
    <2>2. chain[1] = c
      BY <1>1, <2>1
    <2> QED BY <1>2, <2>2 DEF ChainWaits, At
  <1>4. /\ call'[c].step = "stop" /\ call'[c].kind = call[c].kind
        /\ \A d \in Callers \ {c} : call'[d] = call[d]
        /\ \A d \in Callers : call[d].step \notin TaskSteps
    BY ZenonT(60)
    DEF TaskBegins, Goto, ServerTypeOK, PredecessorIsOver, Running, Callers
  <1>5. OneTask'
    BY <1>4 DEF OneTask
  <1>6. ChainWaits'
    <2>1. \A i \in 1..Len(chain') : chain'[i] \in Callers \ {c}
      BY <1>1, <1>2, <1>3 DEF ChainWaits
    <2>2. \A i \in 1..Len(chain') : At(chain'[i], "chained")
      BY <1>2 DEF ChainWaits
    <2>3. \A i, j \in 1..Len(chain') : chain'[i] = chain'[j] => i = j
      BY <1>1, <1>2 DEF ChainWaits
    <2> QED BY <1>4, <2>1, <2>2, <2>3 DEF ChainWaits, At
  <1>7. CallsAreSomewhere'
    BY <1>3, <1>4 DEF CallsAreSomewhere, Callers
  <1>8. QuitIsLast'
    <2>1. UNCHANGED closed
      BY DEF TaskBegins
    <2>2. \A i \in 1..Len(chain') : chain'[i] = Quit => i = Len(chain')
      BY <1>2 DEF QuitIsLast
    <2>3. CASE c = Quit
      <3>1. Len(chain') = 0
        BY <1>2, <1>3, <2>3 DEF QuitIsLast
      <3>2. chain' = <<>>
        BY <1>1, <3>1, HeadTailProperties, EmptySeq
      <3> QED BY <1>3, <1>4, <2>1, <2>2, <2>3, <3>2 DEF QuitIsLast, At
    <2>4. CASE c # Quit
      <3>1. call'[Quit] = call[Quit] /\ call[Quit].step \notin {"stop", "answered"}
        BY <1>1, <1>4, <2>4 DEF QuitIsLast, Callers
      <3> QED BY <2>1, <2>2, <3>1 DEF QuitIsLast, At
    <2> QED BY <2>3, <2>4
  <1>9. ServerFollowsTask'
    <2>1. UNCHANGED current
      BY DEF TaskBegins
    <2>2. \A s \in Calls : server'[s].phase = IF s = current THEN "closing"
                                              ELSE server[s].phase
      BY DEF TaskBegins, ServerTypeOK
    <2>3. /\ \A s \in Calls : call[s].step # "start" /\ call'[s].step # "start"
          /\ \A d \in Callers :
                call'[d].step \notin {"settings", "token", "start"}
          /\ call'[Quit].step = "answered" => call[Quit].step = "answered"
      BY <1>4 DEF Callers
    <2> QED BY <2>1, <2>2, <2>3 DEF ServerFollowsTask, At
  <1> QED BY <1>5, <1>6, <1>7, <1>8, <1>9

-------------------------------------------------------------------------------

CallTable == [Callers -> [kind : Kinds, step : Steps, token : Nat, seen : Settings]]

ServerTable == [Calls -> ServerStates]

\* Every call but c is what it was.
OnlyMoves(c, old, new) == \A d \in Callers \ {c} : new[d] = old[d]

(* The tables of the type invariant, by name. *)
LEMMA Tables ==
  ServerTypeOK <=> /\ disk \in Settings /\ ready \in BOOLEAN
                   /\ call \in CallTable /\ chain \in Seq(Callers)
                   /\ closed \in BOOLEAN
                   /\ current \in Calls \cup {NoCall} /\ server \in ServerTable
                   /\ runtimeStatus \in
                         {"stopped", "running", "port-unavailable", "error"}
                   /\ request \in [Requests ->
                         [step : {"none", "body", "tool", "stream", "detached"},
                          server : Calls \cup {NoCall}, initialize : BOOLEAN]]
  BY Zenon DEF ServerTypeOK, CallTable, ServerTable, ServerStates, Callers

(* What Goto() and Ended() do to the table of calls: they move one call. *)
LEMMA GotoMoves ==
  ASSUME call \in CallTable, NEW c \in Callers, NEW step \in Steps
  PROVE  /\ Goto(c, step) \in CallTable
         /\ Goto(c, step)[c].step = step
         /\ Goto(c, step)[c].kind = call[c].kind
         /\ Goto(c, step)[c].token = call[c].token
         /\ Goto(c, step)[c].seen = call[c].seen
         /\ OnlyMoves(c, call, Goto(c, step))
  BY DEF CallTable, Goto, OnlyMoves

\* A call goes on to the step with a copy of the settings.
Copied(c, step, seen) == [Goto(c, step) EXCEPT ![c].seen = seen]

(* Going on with a copy of the settings changes nothing but that. *)
LEMMA CopiedMoves ==
  ASSUME call \in CallTable, NEW c \in Callers, NEW step \in Steps,
         NEW seen \in Settings
  PROVE  /\ Copied(c, step, seen) \in CallTable
         /\ Copied(c, step, seen)[c].step = step
         /\ Copied(c, step, seen)[c].kind = call[c].kind
         /\ Copied(c, step, seen)[c].token = call[c].token
         /\ Copied(c, step, seen)[c].seen = seen
         /\ OnlyMoves(c, call, Copied(c, step, seen))
  BY DEF CallTable, Goto, Copied, OnlyMoves

(* The end of a call changes no other call. *)
LEMMA EndedMoves ==
  ASSUME call \in CallTable, NEW c \in Callers, NEW outcome \in Ends
  PROVE  /\ Ended(c, outcome) \in CallTable
         /\ Ended(c, outcome)[c].step = outcome
         /\ Ended(c, outcome)[c].kind = call[c].kind
         /\ Ended(c, outcome)[c].token = call[c].token
         /\ OnlyMoves(c, call, Ended(c, outcome))
  <1>1. NoSettings \in Settings /\ outcome \in Steps
    BY Names DEF Steps
  <1> QED BY <1>1 DEF CallTable, Ended, OnlyMoves

(* run() answers at once or chains the call, and moves no other one. *)
LEMMA RunMoves ==
  ASSUME NEW c \in Calls, NEW calls \in CallTable, chain \in Seq(Callers),
         Run(c, calls)
  PROVE  /\ call' \in CallTable /\ chain' \in Seq(Callers)
         /\ call'[c].kind = calls[c].kind /\ call'[c].token = calls[c].token
         /\ OnlyMoves(c, calls, call')
         /\ \/ closed /\ call'[c].step = "answered" /\ chain' = chain
            \/ ~closed /\ call'[c].step = "chained" /\ chain' = Append(chain, c)
         /\ UNCHANGED closed
  <1>1. c \in Callers /\ NoSettings \in Settings
    BY Names DEF Callers
  <1>2. ASSUME NEW step \in {"answered", "chained"},
               call' = [calls EXCEPT ![c].step = step, ![c].seen = NoSettings]
        PROVE  /\ call' \in CallTable /\ call'[c].step = step
               /\ call'[c].kind = calls[c].kind /\ call'[c].token = calls[c].token
               /\ OnlyMoves(c, calls, call')
    <2>1. step \in Steps
      BY DEF Steps, Ends
    <2> QED BY <1>1, <1>2, <2>1 DEF CallTable, OnlyMoves
  <1>3. CASE closed
    BY <1>2, <1>3 DEF Run
  <1>4. CASE ~closed
    BY <1>1, <1>2, <1>4, AppendProperties, SMTT(30) DEF Run
  <1> QED BY <1>3, <1>4

(* The number of tokens generated so far is a number. *)
LEMMA NewTokenType ==
  NewToken \in Nat
  <1>1. IsFiniteSet(Calls)
    BY ServerAssumption, FS_Interval DEF Calls
  <1>2. IsFiniteSet({c \in Calls : call[c].kind = "regenerate"})
    BY <1>1, FS_Subset
  <1>3. Cardinality({c \in Calls : call[c].kind = "regenerate"}) \in Nat
    BY <1>2, FS_CardinalityType
  <1> QED BY <1>3 DEF NewToken

(* What each action does to the call that takes it, to the file and to the
   servers.  The proofs below need no more of the actions. *)
LEMMA HandlerCalledMoves ==
  ASSUME ServerTypeOK, NEW c \in Calls, NEW kind \in Handlers,
         HandlerCalled(c, kind)
  PROVE  /\ call' \in CallTable /\ OnlyMoves(c, call, call')
         /\ call'[c].kind = kind /\ call'[c].step = "read"
         /\ kind = "regenerate" => call'[c].token = NewToken
         /\ UNCHANGED <<disk, ready, chain, closed, lifeVars, request>>
  <1>1. /\ call \in CallTable /\ kind \in Kinds /\ "read" \in Steps
        /\ c \in Callers
    BY Tables DEF Kinds, Steps, HandlerSteps, Callers
  <1>2. PICK token \in Nat :
          /\ call' = [call EXCEPT ![c].kind = kind, ![c].step = "read",
                                  ![c].token = token]
          /\ kind = "regenerate" => token = NewToken
    BY NewTokenType DEF HandlerCalled, NoToken
  <1>3. /\ call' \in CallTable /\ OnlyMoves(c, call, call')
        /\ call'[c].kind = kind /\ call'[c].step = "read"
        /\ call'[c].token = token
    BY <1>1, <1>2 DEF CallTable, OnlyMoves
  <1>4. UNCHANGED <<disk, ready, chain, closed, lifeVars, request>>
    BY DEF HandlerCalled, settingsVars
  <1> QED BY <1>2, <1>3, <1>4

(* What a handler that has read the settings leaves. *)
LEMMA SettingsReadMoves ==
  ASSUME ServerTypeOK, scenario \in Scenarios, NEW c \in Calls, SettingsRead(c)
  PROVE  /\ call' \in CallTable /\ OnlyMoves(c, call, call')
         /\ call[c].step = "read"
         /\ call'[c].kind = call[c].kind /\ call'[c].token = call[c].token
         /\ \/ /\ call'[c].step = "write"
               /\ call'[c].seen.token = IF call[c].kind = "save" THEN disk.token
                                        ELSE call[c].token
            \/ call'[c].step = "failed"
         /\ UNCHANGED <<disk, ready, chain, closed, lifeVars, request>>
  <1>1. /\ call \in CallTable /\ disk \in Settings
        /\ c \in Callers /\ call[c].token \in Nat
        /\ "write" \in Steps /\ "failed" \in Ends
    BY Tables DEF Callers, CallTable, Steps, HandlerSteps, Ends
  <1>2. call[c].step = "read"
    BY DEF SettingsRead, At
  <1>3. CASE call' = Ended(c, "failed")
    BY <1>1, <1>2, <1>3, EndedMoves DEF SettingsRead, settingsVars
  <1>4. CASE \E enabled \in BOOLEAN, port \in scenario.ports :
                call' = [Goto(c, "write") EXCEPT
                          ![c].seen =
                            IF call[c].kind = "save"
                            THEN [disk EXCEPT !.enabled = enabled, !.port = port]
                            ELSE [disk EXCEPT !.token = call[c].token]]
    <2>1. PICK seen :
            /\ call' = Copied(c, "write", seen)
            /\ \/ /\ call[c].kind = "save"
                  /\ \E enabled \in BOOLEAN, port \in scenario.ports :
                        seen = [disk EXCEPT !.enabled = enabled, !.port = port]
               \/ /\ call[c].kind # "save"
                  /\ seen = [disk EXCEPT !.token = call[c].token]
      BY <1>4, Zenon DEF Copied
    <2>2. scenario.ports \subseteq Ports
      BY ServerAssumption
    <2>3. /\ seen \in Settings
          /\ seen.token = IF call[c].kind = "save" THEN disk.token
                          ELSE call[c].token
      BY <1>1, <2>1, <2>2 DEF Settings
    <2>4. /\ Copied(c, "write", seen) \in CallTable
          /\ Copied(c, "write", seen)[c].step = "write"
          /\ Copied(c, "write", seen)[c].kind = call[c].kind
          /\ Copied(c, "write", seen)[c].token = call[c].token
          /\ Copied(c, "write", seen)[c].seen = seen
          /\ OnlyMoves(c, call, Copied(c, "write", seen))
      BY <1>1, <2>3, CopiedMoves, Zenon
    <2>5. call' = Copied(c, "write", seen)
      BY <2>1
    <2>6. UNCHANGED <<disk, ready, chain, closed, lifeVars, request>>
      BY DEF SettingsRead, settingsVars
    <2> QED BY <1>2, <2>3, <2>4, <2>5, <2>6
  <1> QED BY <1>3, <1>4 DEF SettingsRead

(* What a handler that has written the settings leaves: it asks for a
   reconciliation unless the runner is closed. *)
LEMMA SettingsWrittenMoves ==
  ASSUME ServerTypeOK, NEW c \in Calls, SettingsWritten(c)
  PROVE  /\ call' \in CallTable /\ OnlyMoves(c, call, call')
         /\ disk' \in Settings /\ chain' \in Seq(Callers)
         /\ call[c].step = "write"
         /\ call'[c].kind = call[c].kind /\ call'[c].token = call[c].token
         /\ \/ /\ disk' = call[c].seen
               /\ closed /\ call'[c].step = "answered" /\ chain' = chain
            \/ /\ disk' = call[c].seen
               /\ ~closed /\ call'[c].step = "chained"
               /\ chain' = Append(chain, c)
            \/ /\ disk' = disk
               /\ call'[c].step = "failed" /\ chain' = chain
         /\ UNCHANGED <<ready, closed, lifeVars, request>>
  <1>1. /\ call \in CallTable /\ chain \in Seq(Callers) /\ disk \in Settings
        /\ c \in Callers /\ "failed" \in Ends
    BY Tables DEF Callers, Ends
  <1>2. /\ call[c].step = "write" /\ call[c].seen \in Settings
        /\ UNCHANGED <<ready, lifeVars, request>>
    BY <1>1 DEF SettingsWritten, At, CallTable
  <1>3. CASE disk' = call[c].seen /\ Run(c, call)
    BY <1>1, <1>2, <1>3, RunMoves
  <1>4. CASE call' = Ended(c, "failed") /\ UNCHANGED <<disk, chain, closed>>
    BY <1>1, <1>2, <1>4, EndedMoves
  <1> QED BY <1>3, <1>4 DEF SettingsWritten

(* What rendererReady() leaves. *)
LEMMA RendererReadyMoves ==
  ASSUME ServerTypeOK, NEW c \in Calls, RendererReady(c)
  PROVE  /\ call' \in CallTable /\ OnlyMoves(c, call, call')
         /\ chain' \in Seq(Callers)
         /\ call'[c].kind = "ready"
         /\ \/ closed /\ call'[c].step = "answered" /\ chain' = chain
            \/ ~closed /\ call'[c].step = "chained" /\ chain' = Append(chain, c)
         /\ ready' = TRUE
         /\ UNCHANGED <<disk, closed, lifeVars, request>>
  <1> DEFINE calls == [call EXCEPT ![c].kind = "ready"]
  <1>1. call \in CallTable /\ chain \in Seq(Callers)
    BY Tables
  <1>2. /\ calls \in CallTable /\ calls[c].kind = "ready"
        /\ OnlyMoves(c, call, calls)
    BY <1>1 DEF CallTable, OnlyMoves, Kinds, Callers
  <1>3. Run(c, calls) /\ ready' = TRUE /\ UNCHANGED <<disk, lifeVars, request>>
    BY DEF RendererReady
  <1> HIDE DEF calls
  <1>4. /\ call' \in CallTable /\ chain' \in Seq(Callers)
        /\ call'[c].kind = "ready" /\ OnlyMoves(c, calls, call')
        /\ \/ closed /\ call'[c].step = "answered" /\ chain' = chain
           \/ ~closed /\ call'[c].step = "chained" /\ chain' = Append(chain, c)
        /\ UNCHANGED closed
    BY <1>1, <1>2, <1>3, RunMoves
  <1>5. OnlyMoves(c, call, call')
    BY <1>2, <1>4 DEF OnlyMoves
  <1> QED BY <1>3, <1>4, <1>5

(* What stop() leaves: the runner is closed and the cleanup is its last task. *)
LEMMA QuitMoves ==
  ASSUME ServerTypeOK, QuitBegins
  PROVE  /\ call' \in CallTable /\ OnlyMoves(Quit, call, call')
         /\ call'[Quit].step = "chained"
         /\ ~closed /\ closed' = TRUE
         /\ chain' = Append(chain, Quit) /\ chain' \in Seq(Callers)
         /\ UNCHANGED <<disk, ready, lifeVars, request>>
  <1>1. call \in CallTable /\ chain \in Seq(Callers) /\ Quit \in Callers
    BY Tables DEF Callers
  <1>2. "quit" \in Kinds /\ "chained" \in Steps
    BY DEF Kinds, Steps
  <1>3. /\ call' \in CallTable /\ call'[Quit].step = "chained"
        /\ OnlyMoves(Quit, call, call')
    BY <1>1, <1>2 DEF CallTable, OnlyMoves, QuitBegins
  <1>4. /\ ~closed /\ closed' = TRUE /\ chain' = Append(chain, Quit)
        /\ UNCHANGED <<disk, ready, lifeVars, request>>
    BY DEF QuitBegins, settingsVars
  <1>5. chain' \in Seq(Callers)
    BY <1>1, <1>4, AppendProperties
  <1> QED BY <1>3, <1>4, <1>5

(* What the begin of a task leaves: it is the first of the chain and no other
   runs, and the server it finds closes. *)
LEMMA TaskBeginsMoves ==
  ASSUME ServerTypeOK, NEW c \in Callers, TaskBegins(c)
  PROVE  /\ call' \in CallTable /\ OnlyMoves(c, call, call')
         /\ call'[c].step = "stop"
         /\ call'[c].kind = call[c].kind /\ call'[c].token = call[c].token
         /\ \A d \in Callers : call[d].step \notin TaskSteps
         /\ chain # <<>> /\ c = Head(chain)
         /\ chain' = Tail(chain) /\ chain' \in Seq(Callers)
         /\ server' \in ServerTable
         /\ \A s \in Calls :
               /\ server'[s].phase = IF s = current THEN "closing"
                                     ELSE server[s].phase
               /\ server'[s].port = server[s].port
               /\ server'[s].token = server[s].token
         /\ UNCHANGED <<disk, ready, closed, current, runtimeStatus, request>>
  <1>1. /\ call \in CallTable /\ chain \in Seq(Callers) /\ server \in ServerTable
        /\ "stop" \in Steps
    BY Tables DEF Steps, TaskSteps
  <1>2. /\ call' \in CallTable /\ OnlyMoves(c, call, call')
        /\ call'[c].step = "stop"
        /\ call'[c].kind = call[c].kind /\ call'[c].token = call[c].token
    BY <1>1, GotoMoves DEF TaskBegins
  <1>3. \A d \in Callers : call[d].step \notin TaskSteps
    BY DEF TaskBegins, PredecessorIsOver, Running, Callers
  <1>4. /\ chain # <<>> /\ c = Head(chain)
        /\ chain' = Tail(chain) /\ chain' \in Seq(Callers)
    BY <1>1, HeadTailProperties DEF TaskBegins
  <1>5. /\ server' \in ServerTable
        /\ \A s \in Calls :
              /\ server'[s].phase = IF s = current THEN "closing"
                                    ELSE server[s].phase
              /\ server'[s].port = server[s].port
              /\ server'[s].token = server[s].token
    BY <1>1 DEF TaskBegins, ServerTable, ServerStates
  <1>6. UNCHANGED <<disk, ready, closed, current, runtimeStatus, request>>
    BY DEF TaskBegins, settingsVars
  <1> QED BY <1>2, <1>3, <1>4, <1>5, <1>6

(* What a task leaves that has stopped the server. *)
LEMMA ServerStoppedMoves ==
  ASSUME ServerTypeOK, NEW c \in Callers, ServerStopped(c)
  PROVE  /\ call' \in CallTable /\ OnlyMoves(c, call, call')
         /\ call[c].step = "stop"
         /\ call'[c].step = IF c = Quit THEN "answered" ELSE "settings"
         /\ call'[c].kind = call[c].kind /\ call'[c].token = call[c].token
         /\ server' \in ServerTable
         /\ \A s \in Calls : IF s = current THEN server'[s].phase = "closed"
                             ELSE server'[s] = server[s]
         /\ ConnectionsOf(current) = {}
         /\ current' = NoCall /\ runtimeStatus' = "stopped"
         /\ UNCHANGED <<disk, ready, chain, closed, request>>
  <1> DEFINE next == IF c = Quit THEN "answered" ELSE "settings"
  <1>1. call \in CallTable /\ server \in ServerTable /\ next \in Steps
    BY Tables DEF Steps, TaskSteps, Ends
  <1>2. call[c].step = "stop" /\ call' = Goto(c, next)
    BY DEF ServerStopped, Stopped, At
  <1>3. /\ call' \in CallTable /\ call'[c].step = next
        /\ call'[c].kind = call[c].kind /\ call'[c].token = call[c].token
        /\ OnlyMoves(c, call, call')
    BY <1>1, <1>2, GotoMoves
  <1>4. /\ server' \in ServerTable
        /\ \A s \in Calls : IF s = current THEN server'[s].phase = "closed"
                            ELSE server'[s] = server[s]
    BY <1>1, Names DEF ServerStopped, Stopped, ServerTable, ServerStates
  <1>5. /\ current' = NoCall /\ runtimeStatus' = "stopped"
        /\ ConnectionsOf(current) = {}
        /\ UNCHANGED <<disk, ready, chain, closed, request>>
    BY DEF ServerStopped, Stopped, settingsVars
  <1> QED BY <1>2, <1>3, <1>4, <1>5

(* What a task leaves that has loaded the settings. *)
LEMMA SettingsLoadedMoves ==
  ASSUME ServerTypeOK, NEW c \in Calls, SettingsLoaded(c)
  PROVE  /\ call' \in CallTable /\ OnlyMoves(c, call, call')
         /\ call[c].step = "settings"
         /\ call'[c].kind = call[c].kind /\ call'[c].token = call[c].token
         /\ \/ call'[c].step = "token" /\ call'[c].seen = disk
            \/ call'[c].step = "failed"
         /\ UNCHANGED <<disk, ready, chain, closed, lifeVars, request>>
  <1>1. /\ call \in CallTable /\ disk \in Settings /\ c \in Callers
        /\ "token" \in Steps /\ "failed" \in Ends
    BY Tables DEF Callers, Steps, TaskSteps, Ends
  <1>2. /\ call[c].step = "settings"
        /\ UNCHANGED <<disk, ready, chain, closed, lifeVars, request>>
    BY DEF SettingsLoaded, At, settingsVars
  <1>3. CASE call' = Copied(c, "token", disk)
    BY <1>1, <1>2, <1>3, CopiedMoves
  <1>4. CASE call' = Ended(c, "failed")
    BY <1>1, <1>2, <1>4, EndedMoves
  <1> QED BY <1>3, <1>4, Zenon DEF SettingsLoaded, Copied

(* What a task leaves that has loaded the token. *)
LEMMA TokenLoadedMoves ==
  ASSUME ServerTypeOK, NEW c \in Calls, TokenLoaded(c)
  PROVE  /\ call' \in CallTable /\ OnlyMoves(c, call, call')
         /\ call[c].step = "token"
         /\ call'[c].kind = call[c].kind /\ call'[c].token = call[c].token
         /\ server' \in ServerTable
         /\ \A s \in Calls \ {c} : server'[s] = server[s]
         /\ \/ /\ call[c].seen.enabled /\ ready /\ disk.token # NoToken
               /\ call'[c].step = "start"
               /\ server'[c].phase = "starting"
               /\ server'[c].port = call[c].seen.port
               /\ server'[c].token = disk.token
            \/ /\ ~(call[c].seen.enabled /\ ready /\ disk.token # NoToken)
               /\ call'[c].step = "answered" /\ UNCHANGED server
            \/ call'[c].step = "failed" /\ UNCHANGED server
         /\ UNCHANGED <<disk, ready, chain, closed, current, runtimeStatus,
                        request>>
  <1>1. /\ call \in CallTable /\ server \in ServerTable /\ disk \in Settings
        /\ c \in Callers /\ "start" \in Steps
        /\ "failed" \in Ends /\ "answered" \in Ends
    BY Tables DEF Callers, Steps, TaskSteps, Ends
  <1>2. /\ call[c].step = "token"
        /\ UNCHANGED <<disk, ready, chain, closed, current, runtimeStatus,
                       request>>
    BY DEF TokenLoaded, At, settingsVars
  <1>3. CASE /\ call[c].seen.enabled /\ ready /\ disk.token # NoToken
             /\ server' = [server EXCEPT
                             ![c] = [NoServer EXCEPT !.phase = "starting",
                                                     !.port = call[c].seen.port,
                                                     !.token = disk.token]]
             /\ call' = Goto(c, "start")
    <2>1. /\ call' \in CallTable /\ OnlyMoves(c, call, call')
          /\ call'[c].kind = call[c].kind /\ call'[c].token = call[c].token
          /\ call'[c].step = "start"
      BY <1>1, <1>3, GotoMoves
    <2>2. disk.token \in Nat /\ call[c].seen.port \in Ports
      BY <1>1 DEF Settings, CallTable
    <2>3. /\ server' \in ServerTable /\ server'[c].phase = "starting"
          /\ server'[c].port = call[c].seen.port
          /\ server'[c].token = disk.token
          /\ \A s \in Calls \ {c} : server'[s] = server[s]
      BY <1>1, <1>3, <2>2, Names DEF ServerTable, ServerStates
    <2> QED BY <1>2, <1>3, <2>1, <2>3
  <1>4. CASE /\ \/ /\ ~(call[c].seen.enabled /\ ready /\ disk.token # NoToken)
                   /\ call' = Ended(c, "answered")
                \/ call' = Ended(c, "failed")
             /\ UNCHANGED server
    BY <1>1, <1>2, <1>4, EndedMoves
  <1> QED BY <1>3, <1>4 DEF TokenLoaded

(* What a task leaves whose server listens or has failed to. *)
LEMMA ServerStartedMoves ==
  ASSUME ServerTypeOK, NEW c \in Calls, ServerListens(c) \/ ServerFails(c)
  PROVE  /\ call' \in CallTable /\ OnlyMoves(c, call, call')
         /\ call[c].step = "start" /\ call'[c].step = "answered"
         /\ call'[c].kind = call[c].kind /\ call'[c].token = call[c].token
         /\ server' \in ServerTable
         /\ \A s \in Calls \ {c} : server'[s] = server[s]
         /\ \/ /\ server'[c].phase = "listening"
               /\ server'[c].port = server[c].port
               /\ server'[c].token = server[c].token
               /\ current' = c /\ runtimeStatus' = "running"
            \/ /\ server'[c].phase = "failed" /\ UNCHANGED current
               /\ runtimeStatus' \in {"port-unavailable", "error"}
         /\ UNCHANGED <<disk, ready, chain, closed, request>>
  <1>1. /\ call \in CallTable /\ server \in ServerTable
        /\ c \in Callers /\ "answered" \in Ends
    BY Tables DEF Callers, Ends
  <1>2. /\ call' \in CallTable /\ OnlyMoves(c, call, call')
        /\ call'[c].step = "answered"
        /\ call'[c].kind = call[c].kind /\ call'[c].token = call[c].token
    BY <1>1, EndedMoves DEF ServerListens, ServerFails
  <1>3. call[c].step = "start" /\ UNCHANGED <<disk, ready, chain, closed, request>>
    BY DEF ServerListens, ServerFails, At, settingsVars
  <1>4. /\ server' \in ServerTable
        /\ \A s \in Calls \ {c} : server'[s] = server[s]
        /\ \/ /\ server'[c].phase = "listening"
              /\ server'[c].port = server[c].port
              /\ server'[c].token = server[c].token
              /\ current' = c /\ runtimeStatus' = "running"
           \/ /\ server'[c].phase = "failed" /\ UNCHANGED current
              /\ runtimeStatus' \in {"port-unavailable", "error"}
    BY <1>1, Names DEF ServerListens, ServerFails, ServerTable, ServerStates
  <1> QED BY <1>2, <1>3, <1>4

RequestStates == [step : {"none", "body", "tool", "stream", "detached"},
                  server : Calls \cup {NoCall}, initialize : BOOLEAN]

(* A session is a mark on the server; the body of a request moves no server. *)
LEMMA BodyArrivesMoves ==
  ASSUME server \in ServerTable, request \in [Requests -> RequestStates],
         NEW r \in Requests, BodyArrives(r)
  PROVE  /\ server' \in ServerTable
         /\ \A s \in Calls : /\ server'[s].phase = server[s].phase
                             /\ server'[s].port = server[s].port
                             /\ server'[s].token = server[s].token
         /\ \A q \in Requests \ {r} : request'[q] = request[q]
         /\ \/ request'[r] = NoRequest
            \/ request'[r] = [request[r] EXCEPT !.step = "tool"]
         /\ request' \in [Requests -> RequestStates]
  <1> DEFINE s == request[r].server
             b == server[s].session \/ server[s].phase = "listening"
  <1>1. NoRequest \in RequestStates
    BY DEF NoRequest, RequestStates
  <1>2. \/ UNCHANGED server
        \/ server' = [server EXCEPT ![s].session = b]
    BY DEF BodyArrives
  <1>3. b = TRUE \/ b = FALSE
    OBVIOUS
  <1> HIDE DEF b
  <1>4. ASSUME server' = [server EXCEPT ![s].session = b]
        PROVE  /\ server' \in ServerTable
               /\ \A t \in Calls : /\ server'[t].phase = server[t].phase
                                   /\ server'[t].port = server[t].port
                                   /\ server'[t].token = server[t].token
    <2> HIDE DEF s
    <2> QED BY <1>3, <1>4 DEF ServerTable, ServerStates
  <1>5. /\ server' \in ServerTable
        /\ \A t \in Calls : /\ server'[t].phase = server[t].phase
                            /\ server'[t].port = server[t].port
                            /\ server'[t].token = server[t].token
    BY <1>2, <1>4
  <1>6. \/ request' = [request EXCEPT ![r] = NoRequest]
        \/ request' = [request EXCEPT ![r].step = "tool"]
    BY DEF BodyArrives, Answered
  <1> HIDE DEF s
  <1> QED BY <1>1, <1>5, <1>6 DEF RequestStates

(* A request that arrives, whose connection ends, or whose tool ends, touches
   no server. *)
LEMMA RequestMoves ==
  ASSUME request \in [Requests -> RequestStates], NEW r \in Requests,
         \/ \E s \in Calls : RequestArrives(r, s)
         \/ ConnectionEnds(r)
         \/ ToolEnds(r)
  PROVE  /\ UNCHANGED server
         /\ \A q \in Requests \ {r} : request'[q] = request[q]
         /\ \/ request'[r] = NoRequest
            \/ request'[r] = [request[r] EXCEPT !.step = "detached"]
            \/ \E s \in Calls, initialize \in BOOLEAN :
                  /\ request'[r] = [step |-> "body", server |-> s,
                                    initialize |-> initialize]
                  /\ server[s].phase = "listening"
            \/ \E s \in Calls :
                  /\ request'[r] = [step |-> "stream", server |-> s,
                                    initialize |-> FALSE]
                  /\ server[s].phase = "listening"
         /\ request' \in [Requests -> RequestStates]
  <1>1. NoRequest \in RequestStates
    BY DEF NoRequest, RequestStates
  <1>2. CASE \E s \in Calls : RequestArrives(r, s)
    <2>1. PICK s \in Calls : RequestArrives(r, s)
      BY <1>2
    <2>2. PICK new \in RequestStates :
            /\ request' = [request EXCEPT ![r] = new]
            /\ \/ \E initialize \in BOOLEAN :
                     new = [step |-> "body", server |-> s, initialize |-> initialize]
               \/ new = [step |-> "stream", server |-> s, initialize |-> FALSE]
      BY <2>1 DEF RequestArrives, RequestStates
    <2>3. /\ request'[r] = new /\ request' \in [Requests -> RequestStates]
          /\ \A q \in Requests \ {r} : request'[q] = request[q]
      BY <2>2
    <2>4. server[s].phase = "listening" /\ UNCHANGED server
      BY <2>1 DEF RequestArrives, lifeVars
    <2> QED BY <2>2, <2>3, <2>4
  <1>3. CASE ConnectionEnds(r)
    BY <1>1, <1>3 DEF ConnectionEnds, Answered, RequestStates, lifeVars
  <1>4. CASE ToolEnds(r)
    BY <1>1, <1>4 DEF ToolEnds, Answered, lifeVars
  <1> QED BY <1>2, <1>3, <1>4

-------------------------------------------------------------------------------

(* A handler that is called, or reads, is no task. *)
LEMMA HandlerPreservesIInv ==
  ASSUME ServerIInv, NEW c \in Calls,
         (\E kind \in Handlers : HandlerCalled(c, kind)) \/ SettingsRead(c),
         UNCHANGED scenario
  PROVE  ServerIInv'
  <1> USE DEF ServerIInv
  <1>1. CASE \E kind \in Handlers : HandlerCalled(c, kind)
    <2>1. PICK kind \in Handlers : HandlerCalled(c, kind)
      BY <1>1
    <2>2. /\ call' \in CallTable /\ OnlyMoves(c, call, call')
          /\ call'[c].kind = kind /\ call'[c].step = "read"
          /\ UNCHANGED <<disk, ready, chain, closed, lifeVars, request>>
      BY <2>1, HandlerCalledMoves
    <2>3. call[c].step = "none" /\ kind # "none"
      BY <2>1 DEF HandlerCalled, IsNext, Handlers, TaskInv, CallsAreSomewhere,
                  Calls
    <2>4. ServerTypeOK'
      BY <2>2, Tables DEF lifeVars, ServerTypeOK, CallTable, Callers
    <2>5. TaskInv'
      BY <2>2, <2>3, HandlerStepPreservesTaskInv DEF HandlerSteps, OnlyMoves
    <2> QED BY <2>4, <2>5
  <1>2. CASE SettingsRead(c)
    <2>1. /\ call' \in CallTable /\ OnlyMoves(c, call, call')
          /\ call[c].step = "read" /\ call'[c].step \in {"write", "failed"}
          /\ call'[c].kind = call[c].kind
          /\ UNCHANGED <<disk, ready, chain, closed, lifeVars, request>>
      BY <1>2, SettingsReadMoves
    <2>2. call[c].kind # "none"
      BY <2>1 DEF TaskInv, CallsAreSomewhere
    <2>3. ServerTypeOK'
      BY <2>1, Tables DEF lifeVars, ServerTypeOK, CallTable, Callers
    <2>4. TaskInv'
      BY <2>1, <2>2, HandlerStepPreservesTaskInv
      DEF HandlerSteps, Ends, OnlyMoves
    <2> QED BY <2>3, <2>4
  <1> QED BY <1>1, <1>2

(* A handler that has written goes on with run(), as does the page's
   announcement. *)
LEMMA ReconcilePreservesIInv ==
  ASSUME ServerIInv, NEW c \in Calls, SettingsWritten(c) \/ RendererReady(c),
         UNCHANGED scenario
  PROVE  ServerIInv'
  <1> USE DEF ServerIInv
  <1>1. /\ call' \in CallTable /\ OnlyMoves(c, call, call')
        /\ disk' \in Settings /\ chain' \in Seq(Callers) /\ ready' \in BOOLEAN
        /\ UNCHANGED <<closed, lifeVars, request>>
    BY SettingsWrittenMoves, RendererReadyMoves, Tables
  <1>2. /\ call[c].step \in {"none", "write"} /\ call'[c].kind # "none"
        /\ \/ closed /\ call'[c].step = "answered" /\ chain' = chain
           \/ ~closed /\ call'[c].step = "chained" /\ chain' = Append(chain, c)
           \/ /\ call[c].step = "write" /\ call'[c].step = "failed"
              /\ chain' = chain
    <2>1. CASE SettingsWritten(c)
      BY <2>1, SettingsWrittenMoves DEF TaskInv, CallsAreSomewhere
    <2>2. CASE RendererReady(c)
      <3>1. call[c].step = "none"
        BY <2>2 DEF RendererReady, IsNext, TaskInv, CallsAreSomewhere, Calls
      <3> QED BY <2>2, <3>1, RendererReadyMoves
    <2> QED BY <2>1, <2>2
  <1>3. ServerTypeOK'
    BY <1>1, Tables DEF lifeVars, ServerTypeOK, CallTable, Callers
  <1>4. CASE call[c].step = "write" /\ call'[c].step = "failed" /\ chain' = chain
    <2>1. TaskInv'
      BY <1>1, <1>2, <1>4, HandlerStepPreservesTaskInv
      DEF HandlerSteps, Ends, OnlyMoves
    <2> QED BY <1>3, <2>1
  <1>5. CASE \/ closed /\ call'[c].step = "answered" /\ chain' = chain
             \/ ~closed /\ call'[c].step = "chained" /\ chain' = Append(chain, c)
    <2>1. TaskInv'
      BY <1>1, <1>2, <1>5, RunPreservesTaskInv DEF HandlerSteps, OnlyMoves
    <2> QED BY <1>3, <2>1
  <1> QED BY <1>2, <1>4, <1>5

(* The window is destroyed: only the flag is lost. *)
LEMMA RendererUnavailablePreservesIInv ==
  ASSUME ServerIInv, RendererUnavailable, UNCHANGED scenario
  PROVE  ServerIInv'
  <1> USE DEF ServerIInv
  <1>1. ready' = FALSE /\ UNCHANGED <<disk, runnerVars, lifeVars, request>>
    BY DEF RendererUnavailable
  <1>2. ServerTypeOK'
    BY <1>1 DEF ServerTypeOK, runnerVars, lifeVars
  <1>3. TaskInv'
    BY <1>1, RequestsPreserveTaskInv DEF lifeVars
  <1> QED BY <1>2, <1>3

(* The cleanup of stop() is chained behind everything. *)
LEMMA QuitBeginsPreservesIInv ==
  ASSUME ServerIInv, QuitBegins, UNCHANGED scenario
  PROVE  ServerIInv'
  <1> USE DEF ServerIInv
  <1>1. /\ call' \in CallTable /\ OnlyMoves(Quit, call, call')
        /\ call'[Quit].step = "chained"
        /\ ~closed /\ closed' = TRUE
        /\ chain' = Append(chain, Quit) /\ chain' \in Seq(Callers)
        /\ UNCHANGED <<disk, ready, lifeVars, request>>
    BY QuitMoves
  <1>2. /\ Len(chain) \in Nat /\ Len(chain') = Len(chain) + 1
        /\ chain'[Len(chain) + 1] = Quit
        /\ \A i \in 1..Len(chain) : chain'[i] = chain[i] /\ chain[i] \in Callers
    <2>1. chain \in Seq(Callers) /\ Quit \in Callers
      BY Tables DEF Callers
    <2> QED BY <1>1, <2>1, AppendProperties, LenProperties, ElementOfSeq
  <1>3. call[Quit].step = "none"
    BY <1>1 DEF TaskInv, QuitIsLast
  <1>4. \A i \in 1..Len(chain) : chain[i] # Quit
    BY <1>3 DEF TaskInv, ChainWaits, At
  <1>5. ServerTypeOK'
    BY <1>1, Tables DEF lifeVars, ServerTypeOK, CallTable, Callers
  <1>6. TaskInv'
    <2> USE DEF TaskInv, OnlyMoves, TaskSteps
    <2>1. OneTask'
      BY <1>1 DEF OneTask
    <2>2. ChainWaits'
      BY <1>1, <1>2, <1>4 DEF ChainWaits, At
    <2>3. CallsAreSomewhere'
      BY <1>1, Names DEF CallsAreSomewhere, Callers
    <2>4. QuitIsLast'
      BY <1>1, <1>2, <1>4 DEF QuitIsLast, At
    <2>5. ServerFollowsTask'
      BY <1>1, <1>3, Names DEF ServerFollowsTask, At, Callers, lifeVars
    <2> QED BY <2>1, <2>2, <2>3, <2>4, <2>5
  <1> QED BY <1>5, <1>6

(* stop() marks #server as closing; the chain is one call shorter. *)
LEMMA TaskBeginsPreservesIInv ==
  ASSUME ServerIInv, NEW c \in Callers, TaskBegins(c), UNCHANGED scenario
  PROVE  ServerIInv'
  <1> USE DEF ServerIInv
  <1>1. /\ call' \in CallTable /\ chain' \in Seq(Callers) /\ server' \in ServerTable
        /\ UNCHANGED <<disk, ready, closed, current, runtimeStatus, request>>
    BY TaskBeginsMoves
  <1>2. ServerTypeOK'
    BY <1>1, Tables
    DEF ServerTypeOK, CallTable, ServerTable, ServerStates, Callers
  <1>3. TaskInv'
    BY TaskBeginsPreservesTaskInv
  <1> QED BY <1>2, <1>3

(* The server that has stopped is #server, which is given up with it. *)
LEMMA ServerStoppedPreservesIInv ==
  ASSUME ServerIInv, NEW c \in Callers, ServerStopped(c), UNCHANGED scenario
  PROVE  ServerIInv'
  <1> USE DEF ServerIInv
  <1>1. /\ call' \in CallTable /\ OnlyMoves(c, call, call')
        /\ call[c].step = "stop" /\ call'[c].kind = call[c].kind
        /\ call'[c].step = IF c = Quit THEN "answered" ELSE "settings"
        /\ server' \in ServerTable
        /\ \A s \in Calls : IF s = current THEN server'[s].phase = "closed"
                            ELSE server'[s] = server[s]
        /\ current' = NoCall /\ runtimeStatus' = "stopped"
        /\ UNCHANGED <<disk, ready, chain, closed, request>>
    BY ServerStoppedMoves
  <1>2. ServerTypeOK'
    BY <1>1, Tables
    DEF ServerTypeOK, CallTable, ServerTable, ServerStates, Callers
  <1>3. \A d \in Callers : call[d].step # "start" /\ call'[d].step # "start"
    BY <1>1 DEF TaskInv, OneTask, TaskSteps, OnlyMoves
  <1>4. ServerFollowsTask'
    BY <1>1, <1>3, Names DEF TaskInv, ServerFollowsTask, At, Callers
  <1>5. TaskInv'
    BY <1>1, <1>4, TaskStepPreservesTaskInv DEF TaskSteps, Ends, OnlyMoves
  <1> QED BY <1>2, <1>5

(* A server is made when there is none: the task has stopped #server before. *)
LEMMA LoadingPreservesIInv ==
  ASSUME ServerIInv, NEW c \in Calls, SettingsLoaded(c) \/ TokenLoaded(c),
         UNCHANGED scenario
  PROVE  ServerIInv'
  <1> USE DEF ServerIInv
  <1>1. /\ call' \in CallTable /\ OnlyMoves(c, call, call')
        /\ call[c].step \in {"settings", "token"}
        /\ call'[c].kind = call[c].kind
        /\ server' \in ServerTable
        /\ \A s \in Calls \ {c} : server'[s] = server[s]
        /\ \/ call'[c].step = "start" /\ server'[c].phase = "starting"
           \/ call'[c].step \in {"token"} \cup Ends /\ server' = server
        /\ UNCHANGED <<disk, ready, chain, closed, current, runtimeStatus,
                       request>>
    BY SettingsLoadedMoves, TokenLoadedMoves, Tables DEF Ends, lifeVars
  <1>2. c \in Callers /\ c # Quit
    BY Names DEF Callers
  <1>3. current = NoCall
    BY <1>1, <1>2 DEF TaskInv, ServerFollowsTask
  <1>4. ServerTypeOK'
    BY <1>1, Tables
    DEF ServerTypeOK, CallTable, ServerTable, ServerStates, Callers
  <1>5. ServerFollowsTask'
    BY <1>1, <1>2, <1>3, Names
    DEF TaskInv, ServerFollowsTask, OnlyMoves, At, Callers, Ends
  <1>6. TaskInv'
    BY <1>1, <1>2, <1>5, TaskStepPreservesTaskInv DEF TaskSteps, Ends, OnlyMoves
  <1> QED BY <1>4, <1>6

(* The server that listens becomes #server; one that cannot is forgotten. *)
LEMMA ServerStartedPreservesIInv ==
  ASSUME ServerIInv, NEW c \in Calls, ServerListens(c) \/ ServerFails(c),
         UNCHANGED scenario
  PROVE  ServerIInv'
  <1> USE DEF ServerIInv
  <1>1. /\ call' \in CallTable /\ OnlyMoves(c, call, call')
        /\ call[c].step = "start" /\ call'[c].step = "answered"
        /\ call'[c].kind = call[c].kind
        /\ server' \in ServerTable
        /\ \A s \in Calls \ {c} : server'[s] = server[s]
        /\ \/ /\ server'[c].phase = "listening"
              /\ current' = c /\ runtimeStatus' = "running"
           \/ /\ server'[c].phase = "failed" /\ UNCHANGED current
              /\ runtimeStatus' \in {"port-unavailable", "error"}
        /\ UNCHANGED <<disk, ready, chain, closed, request>>
    BY ServerStartedMoves
  <1>2. c \in Callers /\ c # Quit
    BY Names DEF Callers
  <1>3. current = NoCall
    BY <1>1, <1>2 DEF TaskInv, ServerFollowsTask
  <1>4. \A d \in Callers \ {c} : call[d].step \notin TaskSteps
    BY <1>1, <1>2 DEF TaskInv, OneTask, TaskSteps
  <1>5. ServerTypeOK'
    BY <1>1, <1>3, Tables
    DEF ServerTypeOK, CallTable, ServerTable, ServerStates, Callers
  <1>6. ServerFollowsTask'
    <2>1. ~At(Quit, "answered")
      BY <1>1, <1>2 DEF TaskInv, QuitIsLast, TaskSteps
    <2>2. \A d \in Callers : call'[d].step \notin TaskSteps
      BY <1>1, <1>4 DEF OnlyMoves, TaskSteps
    <2>3. ~At(Quit, "answered")'
      BY <1>1, <1>2, <2>1 DEF OnlyMoves, At, Callers
    <2>4. \A s \in Calls : server'[s].phase # "starting"
      BY <1>1, <1>4 DEF TaskInv, ServerFollowsTask, At, Callers, TaskSteps
    <2>5. \A s \in Calls : server'[s].phase \in {"listening", "closing"}
                             <=> current' = s
      BY <1>1, <1>2, <1>3, Names DEF TaskInv, ServerFollowsTask, Callers
    <2> QED BY <2>2, <2>3, <2>4, <2>5
            DEF ServerFollowsTask, At, Callers, TaskSteps
  <1>7. TaskInv'
    BY <1>1, <1>2, <1>6, TaskStepPreservesTaskInv DEF TaskSteps, Ends, OnlyMoves
  <1> QED BY <1>5, <1>7

(* Requests come and go without a call, a task or a server moving. *)
LEMMA RequestStepPreservesIInv ==
  ASSUME ServerIInv, UNCHANGED scenario,
         NEW r \in Requests,
         \/ \E s \in Calls : RequestArrives(r, s)
         \/ BodyArrives(r) \/ ConnectionEnds(r) \/ ToolEnds(r)
  PROVE  ServerIInv'
  <1> USE DEF ServerIInv
  <1>1. server \in ServerTable /\ request \in [Requests -> RequestStates]
    BY Tables DEF RequestStates
  <1>2. /\ server' \in ServerTable /\ request' \in [Requests -> RequestStates]
        /\ \A s \in Calls : server'[s].phase = server[s].phase
    BY <1>1, BodyArrivesMoves, RequestMoves
  <1>3. UNCHANGED <<disk, ready, runnerVars, current, runtimeStatus>>
    BY DEF RequestArrives, BodyArrives, ConnectionEnds, ToolEnds,
           settingsVars, lifeVars
  <1>4. ServerTypeOK'
    BY <1>2, <1>3
    DEF ServerTypeOK, ServerTable, ServerStates, RequestStates, runnerVars
  <1>5. TaskInv'
    BY <1>2, <1>3, RequestsPreserveTaskInv
  <1> QED BY <1>4, <1>5

(* What a webhook operation leaves: it moves no call and no server, and the
   file it writes is one it has read. *)
LEMMA WriterMoves ==
  ASSUME ServerTypeOK, WritersTypeOK, NEW w \in Writers, WriterStep(w)
  PROVE  /\ WritersTypeOK' /\ disk' \in Settings
         /\ (disk' = disk /\ lost' = lost) \/ lost' = "unread"
         /\ UNCHANGED <<ready, runnerVars, lifeVars, request>>
  <1>1. /\ disk \in Settings /\ lost \in {"never", "unread", "reconciled"}
        /\ writer \in [Writers -> [step : {"none", "write"}, copy : Settings]]
    BY DEF ServerTypeOK, WritersTypeOK
  <1>2. CASE WriterReads(w)
    BY <1>1, <1>2 DEF WriterReads, WritersTypeOK
  <1>3. CASE WriterWrites(w)
    BY <1>1, <1>3, Names DEF WriterWrites, WritersTypeOK, NoWriter
  <1>4. CASE WriterGivesUp(w)
    BY <1>1, <1>4, Names DEF WriterGivesUp, WritersTypeOK, NoWriter
  <1> QED BY <1>2, <1>3, <1>4 DEF WriterStep

(* Whatever is written, the file stays as long as no change is undone. *)
LEMMA WriterKeeps ==
  ASSUME NEW w \in Writers, WriterStep(w)
  PROVE  /\ UNCHANGED <<ready, runnerVars, lifeVars, request>>
         /\ lost' = "never" => lost = "never" /\ disk' = disk
  BY DEF WriterStep, WriterReads, WriterWrites, WriterGivesUp

(* A task that reads the file finds what a webhook operation has undone. *)
LEMMA LoadingFindsOut ==
  ASSUME NEW c \in Callers, SettingsLoaded(c)
  PROVE  /\ UNCHANGED writer
         /\ lost' = lost \/ (lost = "unread" /\ lost' = "reconciled")
  BY DEF SettingsLoaded

(* Nothing else moves what such an operation has read, or undoes a change. *)
LEMMA OthersKeepWriters ==
  ASSUME \/ CallStep
         \/ \E c \in Callers : \/ TaskBegins(c) \/ ServerStopped(c) \/ TokenLoaded(c)
                              \/ ServerListens(c) \/ ServerFails(c)
         \/ \E r \in Requests : \/ \E s \in Calls : RequestArrives(r, s)
                               \/ BodyArrives(r) \/ ConnectionEnds(r) \/ ToolEnds(r)
  PROVE  UNCHANGED writerVars
  <1> USE DEF settingsVars, writerVars
  <1>1. CASE CallStep
    <2>1. ASSUME NEW c \in Calls, NEW kind \in Handlers, HandlerCalled(c, kind)
          PROVE  UNCHANGED writerVars
      BY <2>1 DEF HandlerCalled
    <2>2. ASSUME NEW c \in Calls, SettingsRead(c) PROVE UNCHANGED writerVars
      BY <2>2 DEF SettingsRead
    <2>3. ASSUME NEW c \in Calls, SettingsWritten(c) PROVE UNCHANGED writerVars
      BY <2>3 DEF SettingsWritten
    <2>4. ASSUME NEW c \in Calls, RendererReady(c) PROVE UNCHANGED writerVars
      BY <2>4 DEF RendererReady
    <2>5. CASE RendererUnavailable \/ QuitBegins
      BY <2>5 DEF RendererUnavailable, QuitBegins
    <2> QED BY <1>1, <2>1, <2>2, <2>3, <2>4, <2>5 DEF CallStep
  <1>2. ASSUME NEW c \in Callers,
               \/ TaskBegins(c) \/ ServerStopped(c) \/ TokenLoaded(c)
               \/ ServerListens(c) \/ ServerFails(c)
        PROVE  UNCHANGED writerVars
    <2>1. CASE TaskBegins(c)
      BY <2>1 DEF TaskBegins
    <2>2. CASE ServerStopped(c)
      BY <2>2 DEF ServerStopped
    <2>3. CASE TokenLoaded(c)
      BY <2>3 DEF TokenLoaded
    <2>4. CASE ServerListens(c) \/ ServerFails(c)
      BY <2>4 DEF ServerListens, ServerFails
    <2> QED BY <1>2, <2>1, <2>2, <2>3, <2>4
  <1>3. ASSUME NEW r \in Requests,
               \/ \E s \in Calls : RequestArrives(r, s)
               \/ BodyArrives(r) \/ ConnectionEnds(r) \/ ToolEnds(r)
        PROVE  UNCHANGED writerVars
    BY <1>3 DEF RequestArrives, BodyArrives, ConnectionEnds, ToolEnds
  <1> QED BY <1>1, <1>2, <1>3

(* Every step preserves the invariant. *)
LEMMA NextPreservesIInv ==
  ServerIInv /\ WritersTypeOK /\ [ServerNext]_<<serverVars, scenario>>
    => ServerIInv' /\ WritersTypeOK'
  <1> SUFFICES ASSUME ServerIInv, WritersTypeOK,
                      [ServerNext]_<<serverVars, scenario>>
               PROVE  ServerIInv' /\ WritersTypeOK'
    OBVIOUS
  <1>1. ASSUME CallStep, UNCHANGED scenario PROVE ServerIInv'
    BY <1>1, HandlerPreservesIInv, ReconcilePreservesIInv,
       RendererUnavailablePreservesIInv, QuitBeginsPreservesIInv
    DEF CallStep
  <1>2. ASSUME NEW c \in Callers, TaskBegins(c) \/ TaskProceeds(c),
               UNCHANGED scenario
        PROVE  ServerIInv'
    <2>1. CASE TaskBegins(c) \/ ServerStopped(c)
      BY <1>2, <2>1, TaskBeginsPreservesIInv, ServerStoppedPreservesIInv
    <2>2. CASE \/ SettingsLoaded(c) \/ TokenLoaded(c)
               \/ ServerListens(c) \/ ServerFails(c)
      <3>1. c \in Calls
        BY <2>2 DEF Callers, ServerIInv, TaskInv, QuitIsLast, At, SettingsLoaded,
                    TokenLoaded, ServerListens, ServerFails
      <3> QED BY <1>2, <2>2, <3>1, LoadingPreservesIInv,
                 ServerStartedPreservesIInv
    <2> QED BY <1>2, <2>1, <2>2 DEF TaskProceeds
  <1>3. ASSUME RequestStep, UNCHANGED scenario PROVE ServerIInv'
    BY <1>3, RequestStepPreservesIInv DEF RequestStep
  <1>4. ASSUME NEW r \in Requests, ToolEnds(r), UNCHANGED scenario
        PROVE  ServerIInv'
    BY <1>4, RequestStepPreservesIInv
  <1>5. CASE UNCHANGED <<serverVars, scenario>>
    <2>1. UNCHANGED <<disk, ready, runnerVars, current, server, runtimeStatus,
                      request>>
      BY <1>5 DEF serverVars, settingsVars, lifeVars
    <2>2. ServerTypeOK'
      BY <2>1 DEF ServerIInv, ServerTypeOK, runnerVars
    <2>3. TaskInv'
      BY <2>1, RequestsPreserveTaskInv DEF ServerIInv
    <2>4. UNCHANGED <<writer, lost>>
      BY <1>5 DEF serverVars, settingsVars, writerVars
    <2> QED BY <1>5, <2>2, <2>3, <2>4 DEF ServerIInv, WritersTypeOK
  <1>6. ASSUME NEW w \in Writers, WriterStep(w), UNCHANGED scenario
        PROVE  ServerIInv' /\ WritersTypeOK'
    <2>1. /\ WritersTypeOK' /\ disk' \in Settings
          /\ UNCHANGED <<ready, runnerVars, lifeVars, request>>
      BY <1>6, WriterMoves DEF ServerIInv
    <2>2. ServerTypeOK'
      BY <2>1 DEF ServerIInv, ServerTypeOK, runnerVars, lifeVars
    <2>3. TaskInv'
      BY <2>1, RequestsPreserveTaskInv DEF ServerIInv, lifeVars
    <2> QED BY <1>6, <2>1, <2>2, <2>3 DEF ServerIInv
  <1>7. ASSUME \/ CallStep
               \/ \E c \in Callers : TaskBegins(c) \/ TaskProceeds(c)
               \/ RequestStep
               \/ \E r \in Requests : ToolEnds(r)
        PROVE  WritersTypeOK'
    <2>1. UNCHANGED writer /\ lost' \in {lost, "reconciled"}
      <3>1. CASE \E c \in Callers : SettingsLoaded(c)
        BY <3>1, LoadingFindsOut
      <3>2. CASE ~\E c \in Callers : SettingsLoaded(c)
        BY <1>7, <3>2, OthersKeepWriters DEF RequestStep, TaskProceeds, writerVars
      <3> QED BY <3>1, <3>2
    <2> QED BY <2>1 DEF WritersTypeOK
  <1> QED
    BY <1>1, <1>2, <1>3, <1>4, <1>5, <1>6, <1>7 DEF ServerNext, ServerStep, Callers

(* The inductive invariant holds in every behaviour. *)
LEMMA IInvInvariant ==
  ServerSpec => [](ServerIInv /\ WritersTypeOK)
  BY InitEstablishesIInv, NextPreservesIInv, PTL DEF ServerSpec

(* At most one server lives at a time, #server leads to it, and none is left
   when stop() has returned (automationRuntime.main.ts:297-329, 342-353). *)
THEOREM ServerInvariant ==
  ServerSpec => []ServerInv
  BY IInvInvariant, IInvImpliesInv, PTL

(* Two reconciliations never run at the same time
   (serializedAsyncRunner.std.ts:24-48). *)
THEOREM OneReconciliationAtATime ==
  ServerSpec => []OneTask
  <1>1. ServerIInv => OneTask
    BY DEF ServerIInv, TaskInv
  <1> QED BY <1>1, IInvInvariant, PTL

-------------------------------------------------------------------------------
(* The server fits the file. *)

NoFailure == \A c \in Calls : ~At(c, "failed")

Idle == \A c \in Callers : call[c].step \notin TaskSteps

\* As long as nothing is chained that will read the file again, the running
\* task has read what the file says, and what it leaves behind fits.
LastTaskFits ==
    chain = <<>> =>
        /\ \A c \in Calls : At(c, "token") =>
              /\ call[c].seen.enabled = disk.enabled
              /\ call[c].seen.port = disk.port
        /\ \A c \in Calls : At(c, "start") => disk.enabled /\ Fits(c)
        /\ Idle =>
              IF current # NoCall
              THEN disk.enabled /\ Fits(current)
              ELSE \/ ~disk.enabled \/ disk.token = NoToken \/ ~ready
                   \/ runtimeStatus \in {"port-unavailable", "error"}

FitsInv ==
    /\ current # NoCall => runtimeStatus = "running"
    /\ ~closed /\ NoFailure /\ lost # "unread" => LastTaskFits

(* A step that moves no task, hands none in and does not change what a task
   reads keeps the fit; so does a page that goes away. *)
LEMMA QuietStepPreservesFits ==
  ASSUME FitsInv, NoFailure' => NoFailure, lost' = lost,
         UNCHANGED <<disk, chain, closed, current, runtimeStatus>>,
         current \in Calls \cup {NoCall},
         ready' = ready \/ ready' = FALSE,
         \A d \in Callers : call[d].step \in TaskSteps \/ call'[d].step \in TaskSteps
                           => call'[d] = call[d],
         \A s \in Calls : /\ server'[s].port = server[s].port
                         /\ server'[s].token = server[s].token
  PROVE  FitsInv'
  <1> USE DEF TaskSteps, Callers
  <1>1. Idle' <=> Idle
    BY DEF Idle
  <1>2. \A c \in Calls :
          /\ call'[c].step = "token" => At(c, "token") /\ call'[c] = call[c]
          /\ call'[c].step = "start" => At(c, "start")
    BY DEF At
  <1>3. \A c \in Calls : /\ server'[c].port = disk'.port <=> server[c].port = disk.port
                        /\ server'[c].token = disk'.token
                             <=> server[c].token = disk.token
    OBVIOUS
  <1>4. ASSUME LastTaskFits, chain' = <<>>
        PROVE  /\ \A c \in Calls : call'[c].step = "token" =>
                    /\ call'[c].seen.enabled = disk'.enabled
                    /\ call'[c].seen.port = disk'.port
               /\ \A c \in Calls : call'[c].step = "start" => disk'.enabled /\ Fits(c)'
    <2>1. ASSUME NEW c \in Calls, call'[c].step = "token"
          PROVE  /\ call'[c].seen.enabled = disk'.enabled
                 /\ call'[c].seen.port = disk'.port
      <3>1. At(c, "token") /\ call'[c] = call[c]
        BY <1>2, <2>1
      <3>2. /\ call[c].seen.enabled = disk.enabled
            /\ call[c].seen.port = disk.port
        BY <1>4, <3>1 DEF LastTaskFits
      <3> QED BY <3>1, <3>2
    <2>2. ASSUME NEW c \in Calls, call'[c].step = "start"
          PROVE  disk'.enabled /\ Fits(c)'
      <3>1. disk.enabled /\ Fits(c)
        BY <1>2, <1>4, <2>2 DEF LastTaskFits
      <3> QED BY <1>3, <3>1 DEF Fits
    <2> QED BY <2>1, <2>2
  <1>5. ASSUME LastTaskFits, chain' = <<>>, Idle'
        PROVE  IF current' # NoCall
               THEN disk'.enabled /\ Fits(current)'
               ELSE \/ ~disk'.enabled \/ disk'.token = NoToken \/ ~ready'
                    \/ runtimeStatus' \in {"port-unavailable", "error"}
    <2>1. IF current # NoCall
          THEN disk.enabled /\ Fits(current)
          ELSE \/ ~disk.enabled \/ disk.token = NoToken \/ ~ready
               \/ runtimeStatus \in {"port-unavailable", "error"}
      BY <1>1, <1>5 DEF LastTaskFits
    <2> QED BY <1>3, <2>1 DEF Fits
  <1>6. ASSUME LastTaskFits PROVE LastTaskFits'
    BY <1>4, <1>5, <1>6 DEF LastTaskFits, At
  <1> QED BY <1>6 DEF FitsInv

(* A step after which something is chained, or the runner is closed, need not
   leave a server that fits. *)
LEMMA ChainedStepPreservesFits ==
  ASSUME FitsInv, chain' # <<>> \/ closed', UNCHANGED <<current, runtimeStatus>>
  PROVE  FitsInv'
  BY DEF FitsInv, LastTaskFits

(* Nothing has been read, and the page is not ready. *)
LEMMA InitEstablishesFits ==
  ServerInit => FitsInv
  <1> SUFFICES ASSUME ServerInit PROVE FitsInv
    OBVIOUS
  <1>1. \A c \in Calls : call[c].step = "none"
    BY DEF ServerInit
  <1>2. current = NoCall /\ ready = FALSE
    BY DEF ServerInit
  <1> QED BY <1>1, <1>2 DEF FitsInv, LastTaskFits, At

(* Calls that reconcile are chained, or ended at once by a closed runner. *)
LEMMA CallStepPreservesFits ==
  ASSUME ServerIInv, FitsInv, CallStep
  PROVE  FitsInv'
  <1>1. ServerTypeOK /\ scenario \in Scenarios /\ TaskInv
    BY DEF ServerIInv
  <1>2. /\ current \in Calls \cup {NoCall} /\ chain \in Seq(Callers)
        /\ Calls \subseteq Callers /\ Quit \in Callers
    BY <1>1, Tables DEF Callers
  <1> lost' = lost
    BY OthersKeepWriters DEF writerVars
  <1>3. ASSUME NEW c \in Calls, OnlyMoves(c, call, call'),
               call[c].step \in {"none"} \cup HandlerSteps,
               call'[c].step \in HandlerSteps \cup Ends,
               UNCHANGED <<disk, ready, chain, closed, lifeVars>>
        PROVE  FitsInv'
    <2>1. NoFailure' => NoFailure
      BY <1>2, <1>3 DEF NoFailure, At, OnlyMoves, HandlerSteps
    <2>2. \A d \in Callers :
            call[d].step \in TaskSteps \/ call'[d].step \in TaskSteps
            => call'[d] = call[d]
      BY <1>3 DEF OnlyMoves, HandlerSteps, TaskSteps, Ends
    <2> QED BY <1>2, <1>3, <2>1, <2>2, QuietStepPreservesFits DEF lifeVars
  <1>4. ASSUME NEW c \in Calls, NEW kind \in Handlers, HandlerCalled(c, kind)
        PROVE  FitsInv'
    <2>1. call[c].step = "none"
      BY <1>1, <1>4 DEF HandlerCalled, IsNext, TaskInv, CallsAreSomewhere, Calls
    <2>2. /\ OnlyMoves(c, call, call') /\ call'[c].step = "read"
          /\ UNCHANGED <<disk, ready, chain, closed, lifeVars>>
      BY <1>1, <1>4, HandlerCalledMoves
    <2> QED BY <1>3, <2>1, <2>2 DEF HandlerSteps
  <1>5. ASSUME NEW c \in Calls, SettingsRead(c)
        PROVE  FitsInv'
    <2>1. /\ OnlyMoves(c, call, call') /\ call[c].step = "read"
          /\ call'[c].step \in {"write", "failed"}
          /\ UNCHANGED <<disk, ready, chain, closed, lifeVars>>
      BY <1>1, <1>5, SettingsReadMoves
    <2> QED BY <1>3, <2>1 DEF HandlerSteps, Ends
  <1>6. ASSUME NEW c \in Calls, SettingsWritten(c)
        PROVE  FitsInv'
    <2>1. /\ OnlyMoves(c, call, call') /\ call[c].step = "write"
          /\ \/ closed
             \/ chain' = Append(chain, c)
             \/ disk' = disk /\ call'[c].step = "failed" /\ chain' = chain
          /\ UNCHANGED <<ready, closed, lifeVars>>
      BY <1>1, <1>6, SettingsWrittenMoves
    <2>2. CASE closed \/ chain' = Append(chain, c)
      <3>1. closed' \/ chain' # <<>>
        BY <1>2, <2>1, <2>2, AppendProperties
      <3> QED BY <2>1, <3>1, ChainedStepPreservesFits DEF lifeVars
    <2>3. CASE disk' = disk /\ call'[c].step = "failed" /\ chain' = chain
      BY <1>3, <2>1, <2>3 DEF HandlerSteps, Ends
    <2> QED BY <2>1, <2>2, <2>3
  <1>7. ASSUME NEW c \in Calls, RendererReady(c)
        PROVE  FitsInv'
    <2>1. /\ closed \/ chain' = Append(chain, c)
          /\ UNCHANGED <<closed, lifeVars>>
      BY <1>1, <1>7, RendererReadyMoves
    <2>2. closed' \/ chain' # <<>>
      BY <1>2, <2>1, AppendProperties
    <2> QED BY <2>1, <2>2, ChainedStepPreservesFits DEF lifeVars
  <1>8. CASE RendererUnavailable
    <2>1. /\ ready' = FALSE
          /\ UNCHANGED <<disk, runnerVars, current, server, runtimeStatus>>
      BY <1>8 DEF RendererUnavailable, lifeVars
    <2> QED BY <1>2, <2>1, QuietStepPreservesFits DEF runnerVars, NoFailure, At
  <1>9. CASE QuitBegins
    <2>1. closed' = TRUE /\ UNCHANGED lifeVars
      BY <1>1, <1>9, QuitMoves
    <2> QED BY <2>1, ChainedStepPreservesFits DEF lifeVars
  <1> QED BY <1>4, <1>5, <1>6, <1>7, <1>8, <1>9 DEF CallStep

(* The task has read the file after the last write, and starts what it has
   read. *)
LEMMA TaskStepPreservesFits ==
  ASSUME ServerIInv, FitsInv, NEW c \in Callers, TaskBegins(c) \/ TaskProceeds(c)
  PROVE  FitsInv'
  <1>1. ServerTypeOK /\ TaskInv
    BY DEF ServerIInv
  <1>2. NoCall \notin Callers /\ Calls \subseteq Callers
    BY Names DEF Callers
  <1>3. CASE TaskBegins(c)
    <2>1. /\ OnlyMoves(c, call, call') /\ call'[c].step = "stop"
          /\ \A d \in Callers : call[d].step \notin TaskSteps
          /\ UNCHANGED <<current, runtimeStatus>>
      BY <1>1, <1>3, TaskBeginsMoves
    <2>2. LastTaskFits'
      BY <1>2, <2>1 DEF LastTaskFits, At, Idle, TaskSteps, OnlyMoves
    <2> QED BY <2>1, <2>2 DEF FitsInv
  <1>4. ASSUME call[c].step \in TaskSteps
        PROVE  \A d \in Callers \ {c} : call[d].step \notin TaskSteps
    BY <1>1, <1>4 DEF TaskInv, OneTask
  <1>5. CASE ServerStopped(c)
    <2>1. /\ OnlyMoves(c, call, call') /\ call[c].step = "stop"
          /\ call'[c].step = IF c = Quit THEN "answered" ELSE "settings"
          /\ current' = NoCall /\ UNCHANGED closed
      BY <1>1, <1>5, ServerStoppedMoves
    <2>2. c = Quit => closed
      BY <1>1, <2>1 DEF TaskInv, QuitIsLast
    <2>3. c # Quit => LastTaskFits'
      BY <1>2, <1>4, <2>1 DEF LastTaskFits, At, Idle, TaskSteps, OnlyMoves
    <2> QED BY <2>1, <2>2, <2>3 DEF FitsInv
  <1>6. ASSUME ~ServerStopped(c), TaskProceeds(c)
        PROVE  c \in Calls
    BY <1>1, <1>6 DEF Callers, TaskInv, QuitIsLast, At, SettingsLoaded,
                TokenLoaded, ServerListens, ServerFails, TaskProceeds
  <1>7. ASSUME SettingsLoaded(c), c \in Calls
        PROVE  FitsInv'
    <2>1. /\ OnlyMoves(c, call, call') /\ call[c].step = "settings"
          /\ \/ call'[c].step = "token" /\ call'[c].seen = disk
             \/ call'[c].step = "failed"
          /\ UNCHANGED <<disk, chain, closed, lifeVars>>
      BY <1>1, <1>7, SettingsLoadedMoves
    <2>2. CASE call'[c].step = "token" /\ call'[c].seen = disk
      <3>1. LastTaskFits'
        BY <1>2, <1>4, <2>1, <2>2
        DEF LastTaskFits, At, Idle, TaskSteps, OnlyMoves
      <3> QED BY <2>1, <3>1 DEF FitsInv, lifeVars
    <2>3. CASE call'[c].step = "failed"
      <3>1. ~NoFailure'
        BY <1>7, <2>3 DEF NoFailure, At
      <3> QED BY <2>1, <3>1 DEF FitsInv, lifeVars
    <2> QED BY <2>1, <2>2, <2>3
  <1>8. ASSUME TokenLoaded(c), c \in Calls
        PROVE  FitsInv'
    <2> lost' = lost
      BY <1>8, OthersKeepWriters DEF writerVars
    <2>1. /\ OnlyMoves(c, call, call') /\ call[c].step = "token"
          /\ \/ /\ call[c].seen.enabled
                /\ call'[c].step = "start"
                /\ server'[c].port = call[c].seen.port
                /\ server'[c].token = disk.token
             \/ /\ ~(call[c].seen.enabled /\ ready /\ disk.token # NoToken)
                /\ call'[c].step = "answered"
             \/ call'[c].step = "failed"
          /\ UNCHANGED <<disk, ready, chain, closed, current, runtimeStatus>>
      BY <1>1, <1>8, TokenLoadedMoves
    <2>2. current = NoCall
      BY <1>1, <2>1 DEF TaskInv, ServerFollowsTask
    <2>3. \A d \in Callers \ {c} : call'[d].step \notin TaskSteps
      BY <1>4, <2>1 DEF OnlyMoves, TaskSteps
    <2>4. CASE call'[c].step = "failed"
      <3>1. ~NoFailure'
        BY <1>8, <2>4 DEF NoFailure, At
      <3> QED BY <2>1, <3>1 DEF FitsInv
    <2>5. CASE call'[c].step \in {"start", "answered"}
      <3>1. NoFailure' => NoFailure
        BY <1>2, <2>1 DEF NoFailure, At, OnlyMoves
      <3>2. ASSUME LastTaskFits PROVE LastTaskFits'
        BY <1>2, <1>8, <2>1, <2>2, <2>3, <2>5, <3>2
        DEF LastTaskFits, Fits, At, Idle, TaskSteps
      <3> QED BY <2>1, <2>2, <3>1, <3>2 DEF FitsInv
    <2> QED BY <2>1, <2>4, <2>5
  <1>9. ASSUME ServerListens(c) \/ ServerFails(c), c \in Calls
        PROVE  FitsInv'
    <2> lost' = lost
      BY <1>9, OthersKeepWriters DEF writerVars
    <2>1. /\ OnlyMoves(c, call, call')
          /\ call[c].step = "start" /\ call'[c].step = "answered"
          /\ \/ /\ server'[c].port = server[c].port
                /\ server'[c].token = server[c].token
                /\ current' = c /\ runtimeStatus' = "running"
             \/ /\ UNCHANGED current
                /\ runtimeStatus' \in {"port-unavailable", "error"}
          /\ UNCHANGED <<disk, ready, chain, closed>>
      BY <1>1, <1>9, ServerStartedMoves
    <2>2. current = NoCall
      BY <1>1, <1>2, <2>1 DEF TaskInv, ServerFollowsTask
    <2>3. \A d \in Callers : call'[d].step \notin TaskSteps
      BY <1>4, <2>1 DEF OnlyMoves, TaskSteps
    <2>4. NoFailure' => NoFailure
      BY <1>2, <2>1 DEF NoFailure, At, OnlyMoves
    <2>5. ASSUME LastTaskFits PROVE LastTaskFits'
      BY <1>2, <1>9, <2>1, <2>2, <2>3, <2>5
      DEF LastTaskFits, Fits, At, Idle, TaskSteps
    <2> QED BY <2>1, <2>2, <2>4, <2>5 DEF FitsInv
  <1> QED BY <1>3, <1>5, <1>6, <1>7, <1>8, <1>9 DEF TaskProceeds

(* Requests change neither the file nor what the server was started with. *)
LEMMA NextPreservesFits ==
  ServerIInv /\ WritersTypeOK /\ FitsInv /\ [ServerNext]_<<serverVars, scenario>> => FitsInv'
  <1> SUFFICES ASSUME ServerIInv, WritersTypeOK, FitsInv,
                      [ServerNext]_<<serverVars, scenario>>
               PROVE  FitsInv'
    OBVIOUS
  <1>1. CASE CallStep
    BY <1>1, CallStepPreservesFits
  <1>2. CASE \E c \in Callers : TaskBegins(c) \/ TaskProceeds(c)
    BY <1>2, TaskStepPreservesFits
  <1>3. ASSUME UNCHANGED <<disk, ready, lost, runnerVars, current, runtimeStatus>>,
               \A s \in Calls : /\ server'[s].port = server[s].port
                               /\ server'[s].token = server[s].token
        PROVE  FitsInv'
    <2>1. current \in Calls \cup {NoCall}
      BY Tables DEF ServerIInv
    <2> QED BY <1>3, <2>1, QuietStepPreservesFits DEF runnerVars, NoFailure, At
  <1>4. ASSUME NEW r \in Requests,
               \/ \E s \in Calls : RequestArrives(r, s)
               \/ BodyArrives(r) \/ ConnectionEnds(r) \/ ToolEnds(r)
        PROVE  FitsInv'
    <2>1. server \in ServerTable /\ request \in [Requests -> RequestStates]
      BY Tables DEF ServerIInv, RequestStates
    <2>2. \A s \in Calls : /\ server'[s].port = server[s].port
                          /\ server'[s].token = server[s].token
      BY <1>4, <2>1, BodyArrivesMoves, RequestMoves
    <2>3. UNCHANGED <<disk, ready, runnerVars, current, runtimeStatus>>
      BY <1>4 DEF RequestArrives, BodyArrives, ConnectionEnds, ToolEnds,
                  settingsVars, lifeVars
    <2>4. lost' = lost
      BY <1>4, OthersKeepWriters DEF writerVars
    <2> QED BY <1>3, <2>2, <2>3, <2>4
  <1>5. CASE UNCHANGED <<serverVars, scenario>>
    BY <1>3, <1>5 DEF serverVars, settingsVars, writerVars, lifeVars
  <1>6. ASSUME NEW w \in Writers, WriterStep(w)
        PROVE  FitsInv'
    <2>1. /\ (disk' = disk /\ lost' = lost) \/ lost' = "unread"
          /\ UNCHANGED <<ready, runnerVars, current, server, runtimeStatus>>
      BY <1>6, WriterMoves DEF ServerIInv, lifeVars
    <2>2. CASE lost' = "unread"
      BY <2>1, <2>2 DEF FitsInv
    <2> QED BY <1>3, <2>1, <2>2
  <1> QED BY <1>1, <1>2, <1>4, <1>5, <1>6
          DEF ServerNext, ServerStep, RequestStep, Callers

(* When nothing is under way and nothing has failed, the server is the one the
   file asks for, unless a webhook operation has written an older copy of the
   file back since it was read (automationRuntime.main.ts:293-329, 429-451,
   automationSettings.node.ts:203-208, 300-320). *)
THEOREM SettledServerAlwaysFits ==
  ServerSpec => []SettledServerFits
  <1>1. ServerIInv /\ FitsInv => SettledServerFits
    <2> SUFFICES ASSUME ServerIInv, FitsInv, AtRest, lost # "unread", NoFailure
                 PROVE  IF current # NoCall
                        THEN disk.enabled /\ Fits(current) /\ runtimeStatus = "running"
                        ELSE \/ ~disk.enabled \/ disk.token = NoToken \/ ~ready
                             \/ runtimeStatus \in {"port-unavailable", "error"}
      BY DEF SettledServerFits, NoFailure
    <2>1. call[Quit].step = "none"
      BY DEF ServerIInv, TaskInv, QuitIsLast, AtRest
    <2>2. Idle
      BY <2>1 DEF Idle, AtRest, Callers, TaskSteps, Ends
    <2> QED BY <2>2 DEF FitsInv, LastTaskFits, AtRest
  <1>2. ServerSpec => [](ServerIInv /\ WritersTypeOK /\ FitsInv)
    BY IInvInvariant, InitEstablishesFits, NextPreservesFits, PTL DEF ServerSpec
  <1> QED BY <1>1, <1>2, PTL

-------------------------------------------------------------------------------
(* A token that was replaced opens nothing. *)

Regenerates(c) == call[c].kind = "regenerate"

\* A connection belongs to a server that listens, or that waits for it.
ConnectionsHaveServer ==
    \A r \in Requests :
        request[r].step \in {"body", "tool", "stream"} =>
            /\ request[r].server \in Calls
            /\ server[request[r].server].phase \in {"listening", "closing"}

\* Tokens are numbered in the order in which they are generated.
TokensAreNumbered == \A c \in Calls : Regenerates(c) => call[c].token < NewToken

\* The handler that the settings panel waits for is the last one, and nobody
\* else writes the file between its read and its write.
OneHandler ==
    /\ \A c \in Calls : call[c].step \in HandlerSteps => call[c].kind \in Handlers
    /\ \A c, d \in Calls :
          /\ call[c].kind \in Handlers /\ call[c].step \notin Ends
          /\ call[d].kind \in Handlers /\ call[d].step \notin Ends
          => c = d
    /\ \A c, d \in Calls :
          /\ Regenerates(c) /\ call[c].step \notin Ends
          /\ Regenerates(d) /\ c # d
          => call[d].token < call[c].token
    /\ \A c \in Calls : At(c, "write") =>
          call[c].seen.token = IF call[c].kind = "save" THEN disk.token
                               ELSE call[c].token

\* The file never goes back to an older token.
WrittenTokenStays ==
    \A c \in Calls :
        Regenerates(c) /\ call[c].step \in {"chained", "answered"} \cup TaskSteps =>
            call[c].token <= disk.token

\* The task of regenerateToken() has stopped every server that knows an older
\* token.
OlderServersAreGone ==
    \A c, s \in Calls :
        /\ Regenerates(c)
        /\ call[c].step \in {"settings", "token", "start", "answered"}
        /\ Alive(s)
        => call[c].token <= server[s].token

TokenInv ==
    /\ OneHandler
    /\ WrittenTokenStays
    /\ ~closed => OlderServersAreGone

RevokedInv ==
    /\ ConnectionsHaveServer
    /\ TokensAreNumbered
    /\ ~scenario.overlap /\ lost = "never" => TokenInv

(* Nothing connects, and no token is generated, before the first call. *)
LEMMA InitEstablishesRevoked ==
  ServerInit => RevokedInv
  <1> SUFFICES ASSUME ServerInit PROVE RevokedInv
    OBVIOUS
  <1>1. /\ \A c \in Calls : call[c].step = "none" /\ call[c].kind = "none"
        /\ \A r \in Requests : request[r].step = "none"
    BY DEF ServerInit, NoRequest
  <1> QED
    BY <1>1 DEF RevokedInv, TokenInv, ConnectionsHaveServer, TokensAreNumbered, OneHandler,
                WrittenTokenStays, OlderServersAreGone, Regenerates, At, Handlers,
                HandlerSteps, TaskSteps

(* The next token is a new one. *)
LEMMA NewTokenStays ==
  ASSUME \A c \in Calls : (call'[c].kind = "regenerate") <=> (call[c].kind = "regenerate")
  PROVE  NewToken' = NewToken
  <1>1. {c \in Calls : call'[c].kind = "regenerate"} =
          {c \in Calls : call[c].kind = "regenerate"}
    OBVIOUS
  <1> QED BY <1>1 DEF NewToken

(* A call that regenerates makes a token nobody had before. *)
LEMMA NewTokenGrows ==
  ASSUME NEW c \in Calls, OnlyMoves(c, call, call'),
         call[c].kind # "regenerate", call'[c].kind = "regenerate"
  PROVE  NewToken' = NewToken + 1
  <1> DEFINE Old == {d \in Calls : call[d].kind = "regenerate"}
             New == {d \in Calls : call'[d].kind = "regenerate"}
  <1>1. New = Old \cup {c} /\ c \notin Old
    BY DEF OnlyMoves, Callers
  <1>2. IsFiniteSet(Calls)
    BY ServerAssumption, FS_Interval DEF Calls
  <1>3. IsFiniteSet(Old)
    BY <1>2, FS_Subset
  <1>4. Cardinality(New) = Cardinality(Old) + 1 /\ Cardinality(Old) \in Nat
    BY <1>1, <1>3, FS_AddElement, FS_CardinalityType
  <1>5. NewToken' = 2 + Cardinality(New) /\ NewToken = 2 + Cardinality(Old)
    BY DEF NewToken
  <1> HIDE DEF Old, New
  <1> QED BY <1>4, <1>5

\* No handler is where it was not before: none begins, reads or writes.
HandlersStay ==
    \A c \in Calls :
        /\ call'[c].kind \in Handlers => call'[c].kind = call[c].kind
        /\ call'[c].step \notin Ends /\ call'[c].kind \in Handlers
             => call[c].step \notin Ends
        /\ call'[c].step \in HandlerSteps => call'[c] = call[c]
        /\ (/\ call[c].kind = "regenerate"
            /\ call'[c].step \in {"chained", "answered"} \cup TaskSteps)
             => call[c].step \in {"chained", "answered"} \cup TaskSteps

\* Every call that has generated a token keeps it, and no other has one.
TokensStay ==
    \A c \in Calls :
        /\ call'[c].kind = "regenerate" <=> call[c].kind = "regenerate"
        /\ call[c].kind = "regenerate" => call'[c].token = call[c].token

(* A step that keeps tokens, the file's token and the handlers, and leaves no
   older server alive. *)
LEMMA QuietStepPreservesTokens ==
  ASSUME TokenInv, TokensStay, HandlersStay, disk'.token = disk.token,
         ~closed' => OlderServersAreGone'
  PROVE  TokenInv'
  <1>1. OneHandler'
    <2> USE DEF TokenInv, OneHandler, HandlersStay, TokensStay
    <2>1. \A c \in Calls : call'[c].step \in HandlerSteps => call'[c].kind \in Handlers
      OBVIOUS
    <2>2. \A c, d \in Calls :
            /\ call'[c].kind \in Handlers /\ call'[c].step \notin Ends
            /\ call'[d].kind \in Handlers /\ call'[d].step \notin Ends
            => c = d
      OBVIOUS
    <2>3. \A c, d \in Calls :
            /\ call'[c].kind = "regenerate" /\ call'[c].step \notin Ends
            /\ call'[d].kind = "regenerate" /\ c # d
            => call'[d].token < call'[c].token
      BY DEF Regenerates, Handlers
    <2>4. \A c \in Calls : call'[c].step = "write" =>
            call'[c].seen.token = IF call'[c].kind = "save" THEN disk'.token
                                  ELSE call'[c].token
      BY DEF At, HandlerSteps
    <2> QED BY <2>1, <2>2, <2>3, <2>4 DEF Regenerates, At
  <1>2. WrittenTokenStays'
    <2>1. ASSUME NEW c \in Calls, call'[c].kind = "regenerate",
                 call'[c].step \in {"chained", "answered"} \cup TaskSteps
          PROVE  call'[c].token <= disk'.token
      <3>1. call[c].kind = "regenerate" /\ call'[c].token = call[c].token
        BY <2>1 DEF TokensStay
      <3>2. call[c].step \in {"chained", "answered"} \cup TaskSteps
        BY <2>1, <3>1 DEF HandlersStay
      <3>3. call[c].token <= disk.token
        BY <3>1, <3>2 DEF TokenInv, WrittenTokenStays, Regenerates
      <3> QED BY <3>1, <3>3
    <2> QED BY <2>1 DEF WrittenTokenStays, Regenerates
  <1> QED BY <1>1, <1>2 DEF TokenInv

(* The panel lets a handler begin when the last one has ended; its token is
   the newest. *)
LEMMA HandlerCalledPreservesTokens ==
  ASSUME ServerIInv, TokensAreNumbered, TokenInv, ~scenario.overlap,
         NEW c \in Calls, NEW kind \in Handlers, HandlerCalled(c, kind)
  PROVE  TokenInv'
  <1> USE DEF TokenInv
  <1>1. /\ OnlyMoves(c, call, call')
        /\ call'[c].kind = kind /\ call'[c].step = "read"
        /\ kind = "regenerate" => call'[c].token = NewToken
        /\ UNCHANGED <<disk, closed, server>>
    BY HandlerCalledMoves DEF ServerIInv, lifeVars
  <1>2. \A d \in Calls \ {c} : call'[d] = call[d]
    BY <1>1 DEF OnlyMoves, Callers
  <1>3. \A d \in Calls \ {c} :
          call'[d].kind \in Handlers => call'[d].step \in Ends
    BY <1>2 DEF HandlerCalled, PanelIsFree
  <1>4. \A d \in Calls \ {c} :
          kind = "regenerate" /\ Regenerates(d) => call'[d].token < call'[c].token
    BY <1>1, <1>2 DEF TokensAreNumbered
  <1>5. OneHandler'
    <2>1. \A d \in Calls : call'[d].step \in HandlerSteps => call'[d].kind \in Handlers
      BY <1>1, <1>2 DEF OneHandler
    <2>2. \A d, e \in Calls :
            /\ call'[d].kind \in Handlers /\ call'[d].step \notin Ends
            /\ call'[e].kind \in Handlers /\ call'[e].step \notin Ends
            => d = e
      BY <1>3
    <2>3. \A d, e \in Calls :
            /\ call'[d].kind = "regenerate" /\ call'[d].step \notin Ends
            /\ call'[e].kind = "regenerate" /\ d # e
            => call'[e].token < call'[d].token
      BY <1>1, <1>2, <1>3, <1>4 DEF Handlers, Regenerates
    <2>4. \A d \in Calls : call'[d].step = "write" =>
            call'[d].seen.token = IF call'[d].kind = "save" THEN disk'.token
                                  ELSE call'[d].token
      BY <1>1, <1>2 DEF OneHandler, At
    <2> QED BY <2>1, <2>2, <2>3, <2>4 DEF OneHandler, Regenerates, At
  <1>6. WrittenTokenStays'
    BY <1>1, <1>2 DEF WrittenTokenStays, Regenerates, TaskSteps
  <1>7. ~closed' => OlderServersAreGone'
    BY <1>1, <1>2 DEF OlderServersAreGone, Regenerates, Alive
  <1> QED BY <1>5, <1>6, <1>7

(* Nobody else has written since the handler has read: what it writes back is
   its own token, which is the newest, or the one that is there. *)
LEMMA SettingsWrittenPreservesTokens ==
  ASSUME ServerIInv, TokenInv, NEW c \in Calls, SettingsWritten(c)
  PROVE  TokenInv'
  <1> USE DEF TokenInv
  <1>1. /\ OnlyMoves(c, call, call') /\ call[c].step = "write"
        /\ call'[c].kind = call[c].kind /\ call'[c].token = call[c].token
        /\ \/ /\ disk' = call[c].seen
              /\ closed /\ call'[c].step = "answered"
           \/ /\ disk' = call[c].seen
              /\ call'[c].step = "chained"
           \/ disk' = disk /\ call'[c].step = "failed"
        /\ UNCHANGED <<closed, server>>
    BY SettingsWrittenMoves DEF ServerIInv, lifeVars
  <1>2. \A d \in Calls \ {c} : call'[d] = call[d]
    BY <1>1 DEF OnlyMoves, Callers
  <1>3. call[c].kind \in Handlers
    BY <1>1 DEF OneHandler, HandlerSteps
  <1>4. \A d \in Calls \ {c} : call[d].kind \in Handlers => call[d].step \in Ends
    BY <1>1, <1>3 DEF OneHandler, Ends
  <1>5. call[c].seen.token = IF call[c].kind = "save" THEN disk.token
                             ELSE call[c].token
    BY <1>1 DEF OneHandler, At
  <1>6. call[c].token \in Nat /\ disk.token \in Nat
    BY Tables DEF ServerIInv, CallTable, Settings, Callers
  <1>7. \A d \in Calls : call[d].token \in Nat
    BY Tables DEF ServerIInv, CallTable, Callers
  <1>8. OneHandler'
    <2>1. \A d \in Calls : call'[d].step \in HandlerSteps => call'[d].kind \in Handlers
      BY <1>1, <1>2 DEF OneHandler, HandlerSteps
    <2>2. \A d, e \in Calls :
            /\ call'[d].kind \in Handlers /\ call'[d].step \notin Ends
            /\ call'[e].kind \in Handlers /\ call'[e].step \notin Ends
            => d = e
      BY <1>2, <1>4
    <2>3. \A d, e \in Calls :
            /\ call'[d].kind = "regenerate" /\ call'[d].step \notin Ends
            /\ call'[e].kind = "regenerate" /\ d # e
            => call'[e].token < call'[d].token
      BY <1>1, <1>2, <1>4 DEF OneHandler, Handlers, Regenerates, Ends
    <2>4. \A d \in Calls : call'[d].step # "write"
      BY <1>1, <1>2, <1>4 DEF OneHandler, HandlerSteps, Ends
    <2> QED BY <2>1, <2>2, <2>3, <2>4 DEF OneHandler, Regenerates, At
  <1>9. WrittenTokenStays'
    <2>1. ASSUME NEW d \in Calls, call'[d].kind = "regenerate",
                 call'[d].step \in {"chained", "answered"} \cup TaskSteps
          PROVE  call'[d].token <= disk'.token
      <3>1. CASE d = c
        BY <1>1, <1>5, <1>6, <2>1, <3>1 DEF TaskSteps
      <3>2. CASE d # c
        <4>1. call[d].token <= disk.token
          BY <1>2, <2>1, <3>2 DEF WrittenTokenStays, Regenerates
        <4>2. CASE disk' = disk
          BY <1>2, <2>1, <3>2, <4>1, <4>2
        <4>3. CASE disk' = call[c].seen /\ call[c].kind = "save"
          BY <1>2, <1>5, <2>1, <3>2, <4>1, <4>3
        <4>4. CASE disk' = call[c].seen /\ call[c].kind = "regenerate"
          <5>1. call[d].token < call[c].token
            BY <1>1, <1>2, <2>1, <3>2, <4>4 DEF OneHandler, Regenerates, Ends
          <5> QED BY <1>2, <1>5, <1>7, <2>1, <3>2, <4>4, <5>1
        <4> QED BY <1>1, <1>3, <4>2, <4>3, <4>4 DEF Handlers
      <3> QED BY <3>1, <3>2
    <2> QED BY <2>1 DEF WrittenTokenStays, Regenerates
  <1>10. ~closed' => OlderServersAreGone'
    BY <1>1, <1>2 DEF OlderServersAreGone, Regenerates, Alive
  <1> QED BY <1>8, <1>9, <1>10

(* A handler that has read the file is the only one; what it will write has the
   token of the file, or its own. *)
LEMMA SettingsReadPreservesTokens ==
  ASSUME ServerIInv, TokenInv, NEW c \in Calls, SettingsRead(c)
  PROVE  TokenInv'
  <1> USE DEF TokenInv
  <1>1. /\ OnlyMoves(c, call, call') /\ call[c].step = "read"
        /\ call'[c].kind = call[c].kind /\ call'[c].token = call[c].token
        /\ \/ /\ call'[c].step = "write"
              /\ call'[c].seen.token = IF call[c].kind = "save" THEN disk.token
                                       ELSE call[c].token
           \/ call'[c].step = "failed"
        /\ UNCHANGED <<disk, closed, server>>
    BY SettingsReadMoves DEF ServerIInv, lifeVars
  <1>2. \A d \in Calls \ {c} : call'[d] = call[d]
    BY <1>1 DEF OnlyMoves, Callers
  <1>3. OneHandler'
    <2>1. \A d \in Calls : call'[d].step \in HandlerSteps => call'[d].kind \in Handlers
      BY <1>1, <1>2 DEF OneHandler, HandlerSteps
    <2>2. \A d \in Calls : /\ call'[d].kind = call[d].kind
                           /\ call'[d].token = call[d].token
                           /\ call'[d].step \notin Ends => call[d].step \notin Ends
      BY <1>1, <1>2 DEF Ends
    <2>3. \A d, e \in Calls :
            /\ call'[d].kind \in Handlers /\ call'[d].step \notin Ends
            /\ call'[e].kind \in Handlers /\ call'[e].step \notin Ends
            => d = e
      BY <2>2 DEF OneHandler
    <2>4. \A d, e \in Calls :
            /\ call'[d].kind = "regenerate" /\ call'[d].step \notin Ends
            /\ call'[e].kind = "regenerate" /\ d # e
            => call'[e].token < call'[d].token
      BY <2>2 DEF OneHandler, Regenerates
    <2>5. \A d \in Calls : call'[d].step = "write" =>
            call'[d].seen.token = IF call'[d].kind = "save" THEN disk'.token
                                  ELSE call'[d].token
      BY <1>1, <1>2 DEF OneHandler, At
    <2> QED BY <2>1, <2>3, <2>4, <2>5 DEF OneHandler, Regenerates, At
  <1>4. WrittenTokenStays'
    BY <1>1, <1>2 DEF WrittenTokenStays, Regenerates, TaskSteps
  <1>5. ~closed' => OlderServersAreGone'
    BY <1>1, <1>2 DEF OlderServersAreGone, Regenerates, Alive
  <1> QED BY <1>3, <1>4, <1>5

(* A call whose handler is over keeps its token, and is no handler again. *)
LEMMA TaskMoveKeepsHandlers ==
  ASSUME NEW c \in Callers, OnlyMoves(c, call, call'),
         call[c].step \in {"chained"} \cup TaskSteps,
         call'[c].kind = call[c].kind, call'[c].token = call[c].token,
         call'[c].step \in TaskSteps \cup Ends
  PROVE  TokensStay /\ HandlersStay
  <1>1. \A d \in Calls : d # c => call'[d] = call[d]
    BY DEF OnlyMoves, Callers
  <1>2. /\ call[c].step \notin Ends /\ call'[c].step \notin HandlerSteps
        /\ call[c].step \in {"chained", "answered"} \cup TaskSteps
    BY DEF HandlerSteps, TaskSteps, Ends
  <1>3. TokensStay
    BY <1>1 DEF TokensStay
  <1>4. \A d \in Calls : d = c \/ call'[d] = call[d]
    BY <1>1
  <1>5. HandlersStay
    <2> SUFFICES ASSUME NEW d \in Calls
                 PROVE  /\ call'[d].kind = call[d].kind
                        /\ call'[d].step \notin Ends => call[d].step \notin Ends
                        /\ call'[d].step \in HandlerSteps => call'[d] = call[d]
                        /\ call'[d].step \in {"chained", "answered"} \cup TaskSteps
                             => call[d].step \in {"chained", "answered"} \cup TaskSteps
      BY DEF HandlersStay
    <2>1. CASE d = c
      BY <1>2, <2>1
    <2>2. CASE call'[d] = call[d]
      BY <2>2
    <2> QED BY <1>4, <2>1, <2>2
  <1> QED BY <1>3, <1>5

(* Tasks: the server of an older token is stopped before the task of the call
   that replaced it goes on, and the next one is started with the token of the
   file. *)
LEMMA TaskStepPreservesTokens ==
  ASSUME ServerIInv, TokenInv, NEW c \in Callers, TaskBegins(c) \/ TaskProceeds(c)
  PROVE  TokenInv'
  <1>1. ServerTypeOK /\ TaskInv /\ (~closed => OlderServersAreGone)
    BY DEF ServerIInv, TokenInv
  <1>2. NoCall \notin Callers /\ Calls \subseteq Callers
    BY Names DEF Callers
  <1>3. ASSUME call[c].step \in TaskSteps
        PROVE  \A d \in Callers \ {c} : call[d].step \notin TaskSteps
    BY <1>1, <1>3 DEF TaskInv, OneTask
  <1>4. ASSUME NEW s \in Calls
        PROVE  /\ server[s].phase = "starting" <=> call[s].step = "start"
               /\ server[s].phase \in {"listening", "closing"} <=> current = s
    BY <1>1 DEF TaskInv, ServerFollowsTask, At
  <1>5. CASE TaskBegins(c)
    <2>1. /\ OnlyMoves(c, call, call') /\ call'[c].step = "stop"
          /\ call'[c].kind = call[c].kind /\ call'[c].token = call[c].token
          /\ \A s \in Calls :
                /\ server'[s].phase = IF s = current THEN "closing"
                                      ELSE server[s].phase
                /\ server'[s].token = server[s].token
          /\ chain # <<>> /\ c = Head(chain)
          /\ UNCHANGED <<disk, closed>>
      BY <1>1, <1>5, TaskBeginsMoves
    <2>2. call[c].step = "chained"
      <3>1. chain \in Seq(Callers) /\ chain # <<>>
        BY <1>1, <2>1, Tables
      <3>2. c = chain[1] /\ 1 \in 1..Len(chain)
        BY <2>1, <3>1, EmptySeq
      <3> QED BY <1>1, <3>2 DEF TaskInv, ChainWaits, At
    <2>3. TokensStay /\ HandlersStay
      BY <2>1, <2>2, TaskMoveKeepsHandlers DEF TaskSteps
    <2>4. ASSUME ~closed' PROVE OlderServersAreGone'
      <3>1. ASSUME NEW d \in Calls, NEW s \in Calls, call'[d].kind = "regenerate",
                   call'[d].step \in {"settings", "token", "start", "answered"},
                   server'[s].phase \in {"starting", "listening", "closing"}
            PROVE  call'[d].token <= server'[s].token
        <4>1. call'[d] = call[d]
          BY <1>2, <2>1, <3>1 DEF OnlyMoves
        <4>2. server[s].phase \in {"starting", "listening", "closing"}
          BY <1>4, <2>1, <3>1
        <4> QED BY <1>1, <2>1, <2>4, <3>1, <4>1, <4>2
                DEF OlderServersAreGone, Regenerates, Alive
      <3> QED BY <3>1 DEF OlderServersAreGone, Regenerates, Alive
    <2> QED BY <2>1, <2>3, <2>4, QuietStepPreservesTokens
  <1>6. CASE ServerStopped(c)
    <2>1. /\ OnlyMoves(c, call, call') /\ call[c].step = "stop"
          /\ call'[c].step = IF c = Quit THEN "answered" ELSE "settings"
          /\ call'[c].kind = call[c].kind /\ call'[c].token = call[c].token
          /\ \A s \in Calls : IF s = current THEN server'[s].phase = "closed"
                              ELSE server'[s] = server[s]
          /\ UNCHANGED <<disk, closed>>
      BY <1>1, <1>6, ServerStoppedMoves
    <2>2. TokensStay /\ HandlersStay
      BY <2>1, TaskMoveKeepsHandlers DEF TaskSteps, Ends
    <2>3. \A s \in Calls : server'[s].phase \notin {"starting", "listening", "closing"}
      BY <1>2, <1>3, <1>4, <2>1 DEF TaskSteps
    <2>4. OlderServersAreGone'
      BY <2>3 DEF OlderServersAreGone, Alive
    <2> QED BY <2>1, <2>2, <2>4, QuietStepPreservesTokens
  <1>7. ASSUME ~ServerStopped(c), TaskProceeds(c)
        PROVE  c \in Calls
    BY <1>1, <1>7 DEF Callers, TaskInv, QuitIsLast, At, SettingsLoaded,
                TokenLoaded, ServerListens, ServerFails, TaskProceeds
  <1>8. ASSUME SettingsLoaded(c), c \in Calls
        PROVE  TokenInv'
    <2>1. /\ OnlyMoves(c, call, call') /\ call[c].step = "settings"
          /\ call'[c].kind = call[c].kind /\ call'[c].token = call[c].token
          /\ call'[c].step \in {"token", "failed"}
          /\ UNCHANGED <<disk, closed, server>>
      BY <1>1, <1>8, SettingsLoadedMoves DEF lifeVars
    <2>2. TokensStay /\ HandlersStay
      BY <2>1, TaskMoveKeepsHandlers DEF TaskSteps, Ends
    <2>3. ASSUME ~closed' PROVE OlderServersAreGone'
      <3>1. ASSUME NEW d \in Calls, NEW s \in Calls, call'[d].kind = "regenerate",
                   call'[d].step \in {"settings", "token", "start", "answered"},
                   server'[s].phase \in {"starting", "listening", "closing"}
            PROVE  call'[d].token <= server'[s].token
        <4>1. /\ call[d].kind = "regenerate" /\ call'[d].token = call[d].token
              /\ call[d].step \in {"settings", "token", "start", "answered"}
          BY <1>2, <2>1, <3>1 DEF OnlyMoves
        <4> QED BY <1>1, <2>1, <2>3, <3>1, <4>1
                DEF OlderServersAreGone, Regenerates, Alive
      <3> QED BY <3>1 DEF OlderServersAreGone, Regenerates, Alive
    <2> QED BY <2>1, <2>2, <2>3, QuietStepPreservesTokens
  <1>9. ASSUME TokenLoaded(c), c \in Calls
        PROVE  TokenInv'
    <2>1. /\ OnlyMoves(c, call, call') /\ call[c].step = "token"
          /\ call'[c].kind = call[c].kind /\ call'[c].token = call[c].token
          /\ \A s \in Calls \ {c} : server'[s] = server[s]
          /\ \/ call'[c].step = "start" /\ server'[c].token = disk.token
             \/ call'[c].step \in {"answered", "failed"} /\ UNCHANGED server
          /\ UNCHANGED <<disk, closed>>
      BY <1>1, <1>9, TokenLoadedMoves
    <2>2. TokensStay /\ HandlersStay
      BY <2>1, TaskMoveKeepsHandlers DEF TaskSteps, Ends
    <2>3. ASSUME ~closed' PROVE OlderServersAreGone'
      <3>1. ASSUME NEW d \in Calls, NEW s \in Calls, call'[d].kind = "regenerate",
                   call'[d].step \in {"settings", "token", "start", "answered"},
                   server'[s].phase \in {"starting", "listening", "closing"}
            PROVE  call'[d].token <= server'[s].token
        <4>1. /\ call[d].kind = "regenerate" /\ call'[d].token = call[d].token
              /\ call[d].step \in {"settings", "token", "start", "answered"}
          BY <1>2, <2>1, <3>1 DEF OnlyMoves
        <4>2. CASE server'[s] = server[s]
          BY <1>1, <2>1, <2>3, <3>1, <4>1, <4>2
             DEF OlderServersAreGone, Regenerates, Alive
        <4>3. CASE server'[s].token = disk.token
          <5>1. call[d].token <= disk.token
            BY <4>1 DEF TokenInv, WrittenTokenStays, Regenerates, TaskSteps
          <5> QED BY <4>1, <4>3, <5>1
        <4> QED BY <2>1, <4>2, <4>3
      <3> QED BY <3>1 DEF OlderServersAreGone, Regenerates, Alive
    <2> QED BY <2>1, <2>2, <2>3, QuietStepPreservesTokens
  <1>10. ASSUME ServerListens(c) \/ ServerFails(c), c \in Calls
         PROVE  TokenInv'
    <2>1. /\ OnlyMoves(c, call, call')
          /\ call[c].step = "start" /\ call'[c].step = "answered"
          /\ call'[c].kind = call[c].kind /\ call'[c].token = call[c].token
          /\ \A s \in Calls \ {c} : server'[s] = server[s]
          /\ \/ server'[c].token = server[c].token
             \/ server'[c].phase = "failed"
          /\ UNCHANGED <<disk, closed>>
      BY <1>1, <1>10, ServerStartedMoves
    <2>2. TokensStay /\ HandlersStay
      BY <2>1, TaskMoveKeepsHandlers DEF TaskSteps, Ends
    <2>3. ASSUME ~closed' PROVE OlderServersAreGone'
      <3>1. ASSUME NEW d \in Calls, NEW s \in Calls, call'[d].kind = "regenerate",
                   call'[d].step \in {"settings", "token", "start", "answered"},
                   server'[s].phase \in {"starting", "listening", "closing"}
            PROVE  call'[d].token <= server'[s].token
        <4>1. /\ call[d].kind = "regenerate" /\ call'[d].token = call[d].token
              /\ call[d].step \in {"settings", "token", "start", "answered"}
          BY <1>2, <2>1, <3>1 DEF OnlyMoves
        <4>2. /\ server'[s].token = server[s].token
              /\ server[s].phase \in {"starting", "listening", "closing"}
          BY <1>4, <2>1, <3>1
        <4> QED BY <1>1, <2>1, <2>3, <3>1, <4>1, <4>2
                DEF OlderServersAreGone, Regenerates, Alive
      <3> QED BY <3>1 DEF OlderServersAreGone, Regenerates, Alive
    <2> QED BY <2>1, <2>2, <2>3, QuietStepPreservesTokens
  <1> QED BY <1>5, <1>6, <1>7, <1>8, <1>9, <1>10 DEF TaskProceeds

(* A step that moves no handler and leaves alone the file and what the servers
   were started with. *)
LEMMA NoTokenStep ==
  ASSUME TokenInv, TokensStay, HandlersStay, UNCHANGED <<disk, closed>>,
         \A c \in Calls :
            /\ call'[c].kind = "regenerate"
            /\ call'[c].step \in {"settings", "token", "start", "answered"}
            => call'[c] = call[c],
         \A s \in Calls : /\ server'[s].phase = server[s].phase
                         /\ server'[s].token = server[s].token
  PROVE  TokenInv'
  <1>1. ASSUME ~closed' PROVE OlderServersAreGone'
    <2>1. OlderServersAreGone
      BY <1>1 DEF TokenInv
    <2>2. ASSUME NEW d \in Calls, NEW s \in Calls, call'[d].kind = "regenerate",
                 call'[d].step \in {"settings", "token", "start", "answered"},
                 server'[s].phase \in {"starting", "listening", "closing"}
          PROVE  call'[d].token <= server'[s].token
      <3>1. call'[d] = call[d] /\ server'[s].token = server[s].token
        BY <2>2
      <3> QED BY <2>1, <2>2, <3>1 DEF OlderServersAreGone, Regenerates, Alive
    <2> QED BY <2>2 DEF OlderServersAreGone, Regenerates, Alive
  <1> QED BY <1>1, QuietStepPreservesTokens

(* Handlers, announcements and the quitting runtime. *)
LEMMA CallStepPreservesTokens ==
  ASSUME ServerIInv, TokensAreNumbered, TokenInv, ~scenario.overlap, CallStep
  PROVE  TokenInv'
  <1>1. ServerTypeOK /\ TaskInv
    BY DEF ServerIInv
  <1>2. Quit \notin Calls
    BY Names
  <1>3. ASSUME NEW c \in Calls, RendererReady(c)
        PROVE  TokenInv'
    <2>1. /\ OnlyMoves(c, call, call') /\ call'[c].kind = "ready"
          /\ call'[c].step \in {"chained", "answered"}
          /\ UNCHANGED <<disk, closed, server>>
      BY <1>1, <1>3, RendererReadyMoves DEF lifeVars
    <2>2. call[c].kind = "none"
      BY <1>3 DEF RendererReady, IsNext, Calls
    <2>3. \A d \in Calls : d = c \/ call'[d] = call[d]
      BY <2>1 DEF OnlyMoves, Callers
    <2>4. TokensStay
      BY <2>1, <2>2, <2>3 DEF TokensStay
    <2>5. HandlersStay
      <3>1. ASSUME NEW d \in Calls, call'[d] = call[d]
            PROVE  /\ call'[d].kind = call[d].kind
                   /\ call'[d].step = call[d].step
        BY <3>1
      <3>2. call'[c].kind \notin Handlers /\ call'[c].step \notin HandlerSteps
        BY <2>1 DEF Handlers, HandlerSteps
      <3> QED BY <2>2, <2>3, <3>1, <3>2 DEF HandlersStay
    <2>6. \A d \in Calls : call'[d].kind = "regenerate" => call'[d] = call[d]
      BY <2>1, <2>3
    <2> QED BY <2>1, <2>4, <2>5, <2>6, NoTokenStep
  <1>4. ASSUME \A d \in Calls : call'[d] = call[d],
               closed' \/ UNCHANGED closed, UNCHANGED <<disk, server>>
        PROVE  TokenInv'
    <2>1. TokensStay /\ HandlersStay
      BY <1>4 DEF TokensStay, HandlersStay
    <2>2. CASE UNCHANGED closed
      BY <1>4, <2>1, <2>2, NoTokenStep
    <2>3. CASE closed'
      BY <1>4, <2>1, <2>3, QuietStepPreservesTokens
    <2> QED BY <1>4, <2>2, <2>3
  <1>5. CASE RendererUnavailable
    BY <1>4, <1>5 DEF RendererUnavailable, runnerVars, lifeVars
  <1>6. CASE QuitBegins
    <2>1. /\ OnlyMoves(Quit, call, call') /\ closed' = TRUE
          /\ UNCHANGED <<disk, server>>
      BY <1>1, <1>6, QuitMoves DEF lifeVars
    <2>2. \A d \in Calls : call'[d] = call[d]
      BY <1>2, <2>1 DEF OnlyMoves, Callers
    <2> QED BY <1>4, <2>1, <2>2
  <1> QED
    BY <1>3, <1>5, <1>6, HandlerCalledPreservesTokens,
       SettingsReadPreservesTokens, SettingsWrittenPreservesTokens DEF CallStep

(* A connection is accepted by a server that listens; close() waits for it. *)
LEMMA NextPreservesConnections ==
  ASSUME ServerIInv, ConnectionsHaveServer, [ServerNext]_<<serverVars, scenario>>
  PROVE  ConnectionsHaveServer'
  <1>1. ServerTypeOK /\ TaskInv /\ scenario \in Scenarios
    BY DEF ServerIInv
  <1>2. ASSUME NEW s \in Calls, current = NoCall
        PROVE  server[s].phase \notin {"listening", "closing"}
    BY <1>1, <1>2, Names DEF TaskInv, ServerFollowsTask, Callers
  <1>3. ASSUME UNCHANGED request,
               \A s \in Calls :
                  server[s].phase \in {"listening", "closing"}
                  /\ ConnectionsOf(s) # {}
                  => server'[s].phase \in {"listening", "closing"}
        PROVE  ConnectionsHaveServer'
    <2>1. ASSUME NEW r \in Requests, request[r].step \in {"body", "tool", "stream"}
          PROVE  /\ request[r].server \in Calls
                 /\ server'[request[r].server].phase \in {"listening", "closing"}
      <3>1. /\ request[r].server \in Calls
            /\ server[request[r].server].phase \in {"listening", "closing"}
        BY <2>1 DEF ConnectionsHaveServer
      <3>2. r \in ConnectionsOf(request[r].server)
        BY <2>1 DEF ConnectionsOf
      <3> QED BY <1>3, <3>1, <3>2
    <2> QED BY <1>3, <2>1 DEF ConnectionsHaveServer
  <1>4. ASSUME \/ CallStep \/ UNCHANGED <<serverVars, scenario>>
               \/ \E w \in Writers : WriterStep(w)
        PROVE  ConnectionsHaveServer'
    <2>1. UNCHANGED <<request, server>>
      BY <1>4, WriterKeeps DEF CallStep, HandlerCalled, SettingsRead, SettingsWritten,
                  RendererReady, RendererUnavailable, QuitBegins, lifeVars,
                  serverVars
    <2> QED BY <1>3, <2>1
  <1>5. ASSUME NEW c \in Callers, TaskBegins(c)
        PROVE  ConnectionsHaveServer'
    <2>1. /\ \A s \in Calls : server'[s].phase = IF s = current THEN "closing"
                                               ELSE server[s].phase
          /\ UNCHANGED request
      BY <1>1, <1>5, TaskBeginsMoves
    <2> QED BY <1>3, <2>1
  <1>6. ASSUME NEW c \in Callers, ServerStopped(c)
        PROVE  ConnectionsHaveServer'
    <2>1. /\ \A s \in Calls \ {current} : server'[s] = server[s]
          /\ ConnectionsOf(current) = {} /\ UNCHANGED request
      BY <1>1, <1>6, ServerStoppedMoves
    <2> QED BY <1>3, <2>1
  <1>7. ASSUME NEW c \in Callers, TaskProceeds(c), ~ServerStopped(c)
        PROVE  ConnectionsHaveServer'
    <2>1. c \in Calls
      BY <1>1, <1>7 DEF Callers, TaskInv, QuitIsLast, At, SettingsLoaded,
                  TokenLoaded, ServerListens, ServerFails, TaskProceeds
    <2>2. call[c].step \in {"settings", "token", "start"} /\ UNCHANGED request
      BY <1>7 DEF SettingsLoaded, TokenLoaded, ServerListens, ServerFails,
                  TaskProceeds, At
    <2>3. current = NoCall
      BY <1>1, <2>2 DEF TaskInv, ServerFollowsTask
    <2> QED BY <1>2, <1>3, <2>2, <2>3
  <1>8. ASSUME NEW r \in Requests, NEW s \in Calls, RequestArrives(r, s)
        PROVE  ConnectionsHaveServer'
    <2>1. /\ \A q \in Requests \ {r} : request'[q] = request[q]
          /\ request'[r].server = s /\ UNCHANGED server
          /\ server[s].phase = "listening"
      BY <1>1, <1>8, Tables DEF RequestArrives, lifeVars
    <2> QED BY <2>1 DEF ConnectionsHaveServer
  <1>9. ASSUME NEW r \in Requests,
               BodyArrives(r) \/ ConnectionEnds(r) \/ ToolEnds(r)
        PROVE  ConnectionsHaveServer'
    <2>1. server \in ServerTable /\ request \in [Requests -> RequestStates]
      BY <1>1, Tables DEF RequestStates
    <2>2. /\ \A q \in Requests \ {r} : request'[q] = request[q]
          /\ \A s \in Calls : server'[s].phase = server[s].phase
          /\ \/ request'[r].step \in {"none", "detached"}
             \/ /\ request[r].step = "body"
                /\ request'[r].server = request[r].server
      <3>1. CASE BodyArrives(r)
        <4>1. request[r].step = "body"
          BY <3>1 DEF BodyArrives
        <4>2. [request[r] EXCEPT !.step = "tool"].server = request[r].server
          BY <2>1 DEF RequestStates
        <4>3. /\ \A q \in Requests \ {r} : request'[q] = request[q]
              /\ \A s \in Calls : server'[s].phase = server[s].phase
              /\ \/ request'[r] = NoRequest
                 \/ request'[r] = [request[r] EXCEPT !.step = "tool"]
          BY <2>1, <3>1, BodyArrivesMoves
        <4>4. NoRequest.step = "none"
          BY DEF NoRequest
        <4> QED BY <4>1, <4>2, <4>3, <4>4
      <3>2. CASE ToolEnds(r)
        BY <2>1, <3>2 DEF ToolEnds, Answered, NoRequest, lifeVars
      <3>3. CASE ConnectionEnds(r)
        BY <2>1, <3>3 DEF ConnectionEnds, Answered, NoRequest, lifeVars, RequestStates
      <3> QED BY <1>9, <3>1, <3>2, <3>3
    <2> QED BY <2>1, <2>2 DEF ConnectionsHaveServer
  <1> QED BY <1>4, <1>5, <1>6, <1>7, <1>8, <1>9
          DEF ServerNext, ServerStep, RequestStep, Callers

(* A token is numbered when it is generated, and no number is used twice. *)
LEMMA NextPreservesNumbers ==
  ASSUME ServerIInv, TokensAreNumbered, [ServerNext]_<<serverVars, scenario>>
  PROVE  TokensAreNumbered'
  <1>1. ServerTypeOK /\ TaskInv /\ scenario \in Scenarios
    BY DEF ServerIInv
  <1>2. ASSUME TokensStay PROVE TokensAreNumbered'
    <2>1. NewToken' = NewToken
      BY <1>2, NewTokenStays DEF TokensStay
    <2> QED BY <1>2, <2>1 DEF TokensAreNumbered, Regenerates, TokensStay
  <1>3. ASSUME NEW c \in Callers, OnlyMoves(c, call, call'),
               call'[c].kind = call[c].kind, call'[c].token = call[c].token
        PROVE  TokensAreNumbered'
    <2>1. \A d \in Calls : d = c \/ call'[d] = call[d]
      BY <1>3 DEF OnlyMoves, Callers
    <2> QED BY <1>2, <1>3, <2>1 DEF TokensStay
  <1>4. ASSUME NEW c \in Calls, NEW kind \in Handlers, HandlerCalled(c, kind)
        PROVE  TokensAreNumbered'
    <2>1. /\ OnlyMoves(c, call, call') /\ call'[c].kind = kind
          /\ kind = "regenerate" => call'[c].token = NewToken
      BY <1>1, <1>4, HandlerCalledMoves
    <2>2. call[c].kind = "none"
      BY <1>4 DEF HandlerCalled, IsNext, Calls
    <2>3. \A d \in Calls : d = c \/ call'[d] = call[d]
      BY <2>1 DEF OnlyMoves, Callers
    <2>4. CASE kind = "regenerate"
      <3>1. NewToken' = NewToken + 1 /\ NewToken \in Nat
        BY <2>1, <2>2, <2>4, NewTokenGrows, NewTokenType
      <3>2. \A d \in Calls : call[d].token \in Nat
        BY <1>1, Tables DEF CallTable, Callers
      <3>3. ASSUME NEW d \in Calls, call'[d].kind = "regenerate"
            PROVE  call'[d].token < NewToken'
        BY <2>1, <2>3, <2>4, <3>1, <3>2, <3>3 DEF TokensAreNumbered, Regenerates
      <3> QED BY <3>3 DEF TokensAreNumbered, Regenerates
    <2>5. CASE kind # "regenerate"
      BY <1>2, <2>1, <2>2, <2>3, <2>5 DEF TokensStay
    <2> QED BY <2>4, <2>5
  <1>5. ASSUME NEW c \in Calls, SettingsRead(c) \/ SettingsWritten(c)
        PROVE  TokensAreNumbered'
    BY <1>1, <1>3, <1>5, SettingsReadMoves, SettingsWrittenMoves DEF Callers
  <1>6. ASSUME NEW c \in Calls, RendererReady(c)
        PROVE  TokensAreNumbered'
    <2>1. OnlyMoves(c, call, call') /\ call'[c].kind = "ready"
      BY <1>1, <1>6, RendererReadyMoves
    <2>2. call[c].kind = "none"
      BY <1>6 DEF RendererReady, IsNext, Calls
    <2>3. \A d \in Calls : d = c \/ call'[d] = call[d]
      BY <2>1 DEF OnlyMoves, Callers
    <2> QED BY <1>2, <2>1, <2>2, <2>3 DEF TokensStay
  <1>7. CASE QuitBegins
    <2>1. \A d \in Calls : call'[d] = call[d]
      BY <1>1, <1>7, QuitMoves, Names DEF OnlyMoves, Callers
    <2> QED BY <1>2, <2>1 DEF TokensStay
  <1>8. ASSUME NEW c \in Callers, TaskBegins(c) \/ ServerStopped(c)
        PROVE  TokensAreNumbered'
    BY <1>1, <1>3, <1>8, TaskBeginsMoves, ServerStoppedMoves
  <1>9. ASSUME NEW c \in Callers, TaskProceeds(c), ~ServerStopped(c)
        PROVE  TokensAreNumbered'
    <2>1. c \in Calls
      BY <1>1, <1>9 DEF Callers, TaskInv, QuitIsLast, At, SettingsLoaded,
                  TokenLoaded, ServerListens, ServerFails, TaskProceeds
    <2>2. /\ OnlyMoves(c, call, call')
          /\ call'[c].kind = call[c].kind /\ call'[c].token = call[c].token
      BY <1>1, <1>9, <2>1, SettingsLoadedMoves, TokenLoadedMoves,
         ServerStartedMoves DEF TaskProceeds
    <2> QED BY <1>3, <2>2
  <1>10. ASSUME UNCHANGED call PROVE TokensAreNumbered'
    BY <1>2, <1>10 DEF TokensStay
  <1>11. ASSUME NEW w \in Writers, WriterStep(w) PROVE TokensAreNumbered'
    BY <1>10, <1>11, WriterKeeps DEF runnerVars
  <1> QED BY <1>4, <1>5, <1>6, <1>7, <1>8, <1>9, <1>10, <1>11
          DEF ServerNext, ServerStep, CallStep, RequestStep, Callers,
              RendererUnavailable, RequestArrives, BodyArrives, ConnectionEnds,
              ToolEnds, runnerVars, serverVars

(* Together with the invariant of the tasks, RevokedInv is inductive. *)
LEMMA NextPreservesRevoked ==
  ServerIInv /\ RevokedInv /\ [ServerNext]_<<serverVars, scenario>> => RevokedInv'
  <1> SUFFICES ASSUME ServerIInv, RevokedInv, [ServerNext]_<<serverVars, scenario>>
               PROVE  RevokedInv'
    OBVIOUS
  <1>1. ConnectionsHaveServer' /\ TokensAreNumbered'
    BY NextPreservesConnections, NextPreservesNumbers DEF RevokedInv
  <1>2. UNCHANGED scenario
    BY DEF ServerNext, ServerStep
  <1>3. ASSUME ~scenario.overlap, lost' = "never" PROVE TokenInv'
    <2> lost = "never"
      <3>1. ASSUME NEW c \in Callers, SettingsLoaded(c) PROVE lost = "never"
        BY <1>3, <3>1, LoadingFindsOut
      <3>2. ASSUME NEW w \in Writers, WriterStep(w) PROVE lost = "never"
        BY <1>3, <3>2, WriterKeeps
      <3>3. CASE UNCHANGED <<serverVars, scenario>>
        BY <1>3, <3>3 DEF serverVars, settingsVars, writerVars
      <3> QED BY <1>3, <3>1, <3>2, <3>3, OthersKeepWriters
              DEF ServerNext, ServerStep, RequestStep, TaskProceeds, Callers, writerVars
    <2>1. TokenInv /\ TokensAreNumbered /\ ServerTypeOK
      BY <1>3 DEF RevokedInv, ServerIInv
    <2>2. CASE CallStep
      BY <1>3, <2>1, <2>2, CallStepPreservesTokens
    <2>3. CASE \E c \in Callers : TaskBegins(c) \/ TaskProceeds(c)
      BY <2>1, <2>3, TaskStepPreservesTokens
    <2>4. ASSUME UNCHANGED <<disk, runnerVars>>,
                 \A s \in Calls : /\ server'[s].phase = server[s].phase
                                 /\ server'[s].token = server[s].token
          PROVE  TokenInv'
      <3>1. UNCHANGED <<call, closed>>
        BY <2>4 DEF runnerVars
      <3>2. TokensStay /\ HandlersStay
        BY <3>1 DEF TokensStay, HandlersStay
      <3> QED BY <2>1, <2>4, <3>1, <3>2, NoTokenStep
    <2>5. ASSUME NEW r \in Requests,
                 \/ \E s \in Calls : RequestArrives(r, s)
                 \/ BodyArrives(r) \/ ConnectionEnds(r) \/ ToolEnds(r)
          PROVE  TokenInv'
      <3>1. server \in ServerTable /\ request \in [Requests -> RequestStates]
        BY <2>1, Tables DEF RequestStates
      <3>2. \A s \in Calls : /\ server'[s].phase = server[s].phase
                            /\ server'[s].token = server[s].token
        BY <2>5, <3>1, BodyArrivesMoves, RequestMoves
      <3>3. UNCHANGED <<disk, runnerVars>>
        BY <2>5 DEF RequestArrives, BodyArrives, ConnectionEnds, ToolEnds,
                    settingsVars
      <3> QED BY <2>4, <3>2, <3>3
    <2>6. CASE UNCHANGED <<serverVars, scenario>>
      BY <2>4, <2>6 DEF serverVars, settingsVars, lifeVars
    <2>7. ASSUME NEW w \in Writers, WriterStep(w) PROVE TokenInv'
      BY <1>3, <2>4, <2>7, WriterKeeps DEF lifeVars
    <2> QED BY <2>2, <2>3, <2>5, <2>6, <2>7
            DEF ServerNext, ServerStep, RequestStep, Callers
  <1> QED BY <1>1, <1>2, <1>3 DEF RevokedInv

(* Once the user is shown a new token, no server that knows the old one
   listens, and no request it was accepted for is still connected, whatever
   webhook operations write that undoes no change
   (automationRuntime.main.ts:446-451, mcpHttpServer.node.ts:162-187,
   automationSettings.node.ts:203-208, 300-320). *)
THEOREM RevokedTokenStaysDead ==
  ServerSpec => []RevokedTokenIsDead
  <1>1. ServerIInv /\ RevokedInv => RevokedTokenIsDead
    <2> SUFFICES ASSUME ServerIInv, RevokedInv, ~scenario.overlap, ~closed,
                        lost = "never",
                        NEW s \in Calls, Revoked(server[s].token)
                 PROVE  server[s].phase # "listening" /\ ConnectionsOf(s) = {}
      BY DEF RevokedTokenIsDead
    <2>1. PICK c \in Calls : /\ Regenerates(c) /\ call[c].step = "answered"
                            /\ server[s].token < call[c].token
      BY DEF Revoked, Regenerates, At
    <2>2. server[s].token \in Nat /\ call[c].token \in Nat
      BY Tables DEF ServerIInv, CallTable, ServerTable, ServerStates, Callers
    <2>3. ~Alive(s)
      BY <2>1, <2>2 DEF RevokedInv, TokenInv, OlderServersAreGone
    <2> QED BY <2>3 DEF Alive, RevokedInv, ConnectionsHaveServer, ConnectionsOf
  <1>2. ServerSpec => [](ServerIInv /\ RevokedInv)
    BY IInvInvariant, InitEstablishesRevoked, NextPreservesRevoked, PTL
    DEF ServerSpec
  <1> QED BY <1>1, <1>2, PTL

-------------------------------------------------------------------------------
(* The runner is a serial executor. *)

\* The task that runs, as the refinement mapping names it.
Active == IF Running = {} THEN NoCall ELSE CHOOSE c \in Running : TRUE

(* A step that neither begins nor ends a task leaves the same one active. *)
LEMMA ActiveStays ==
  ASSUME \A c \in Callers :
            call'[c].step \in TaskSteps <=> call[c].step \in TaskSteps
  PROVE  Active' = Active
  <1>1. Running' = Running
    BY DEF Running, Callers
  <1> QED BY <1>1 DEF Active

(* The task that runs is the active one. *)
LEMMA ActiveIsTheTask ==
  ASSUME OneTask, NEW c \in Callers, call[c].step \in TaskSteps
  PROVE  Active = c /\ Active # NoCall
  <1>1. Running = {c}
    BY DEF Running, Callers, OneTask
  <1> QED BY <1>1, Names DEF Active

(* The steps of the runner are steps of the executor: a call that reconciles is
   submitted, a task begins, and ends when its call is answered or fails. *)
LEMMA StepRefinesExecutor ==
  ServerIInv /\ [ServerNext]_<<serverVars, scenario>> =>
      [Serial!Next]_(Serial!vars)
  <1> DEFINE Quiet == Active' = Active /\ chain' = chain /\ closed' = closed
             Submits(c) == /\ ~closed /\ chain' = Append(chain, c)
                           /\ Active' = Active /\ closed' = closed
             Finishes == /\ Active # NoCall /\ Active' = NoCall
                         /\ chain' = chain /\ closed' = closed
  <1> SUFFICES ASSUME ServerIInv, [ServerNext]_<<serverVars, scenario>>
               PROVE  \/ \E c \in Calls : Submits(c)
                      \/ /\ ~closed /\ chain' = Append(chain, Quit)
                         /\ closed' = TRUE /\ Active' = Active
                      \/ /\ Active = NoCall /\ chain # <<>>
                         /\ Active' = Head(chain) /\ chain' = Tail(chain)
                         /\ closed' = closed
                      \/ Finishes
                      \/ Quiet
    BY DEF Serial!Next, Serial!vars, Serial!Submit, Serial!Close, Serial!Begin,
           Serial!End, Active
  <1>1. ServerTypeOK /\ TaskInv /\ scenario \in Scenarios /\ OneTask
    BY DEF ServerIInv, TaskInv
  <1>2. Calls \subseteq Callers /\ Quit \in Callers
    BY DEF Callers
  \* A call outside its task moves, and begins none.
  <1>3. ASSUME NEW c \in Callers, OnlyMoves(c, call, call'),
               call[c].step \notin TaskSteps, call'[c].step \notin TaskSteps
        PROVE  Active' = Active
    <2>1. \A d \in Callers : d = c \/ call'[d] = call[d]
      BY <1>3 DEF OnlyMoves
    <2> QED BY <1>3, <2>1, ActiveStays
  \* A task moves within its steps, or ends.
  <1>4. ASSUME NEW c \in Callers, OnlyMoves(c, call, call'),
               call[c].step \in TaskSteps, UNCHANGED <<chain, closed>>
        PROVE  Quiet \/ Finishes
    <2>1. \A d \in Callers : d = c \/ call'[d] = call[d]
      BY <1>4 DEF OnlyMoves
    <2>2. CASE call'[c].step \in TaskSteps
      <3>1. Active' = Active
        BY <1>4, <2>1, <2>2, ActiveStays
      <3> QED BY <1>4, <3>1
    <2>3. CASE call'[c].step \notin TaskSteps
      <3>1. \A d \in Callers : call'[d].step \notin TaskSteps
        BY <1>1, <1>4, <2>1, <2>3 DEF OneTask
      <3>2. Running' = {}
        BY <3>1 DEF Running, Callers
      <3>3. Active' = NoCall
        BY <3>2 DEF Active
      <3> QED BY <1>1, <1>4, <3>3, ActiveIsTheTask
    <2> QED BY <2>2, <2>3
  <1> HIDE DEF Quiet, Submits, Finishes
  <1>5. ASSUME NEW c \in Calls, NEW kind \in Handlers, HandlerCalled(c, kind)
        PROVE  Quiet
    <2>1. /\ OnlyMoves(c, call, call') /\ call'[c].step = "read"
          /\ UNCHANGED <<chain, closed>>
      BY <1>1, <1>5, HandlerCalledMoves
    <2>2. call[c].step = "none"
      BY <1>1, <1>5 DEF HandlerCalled, IsNext, TaskInv, CallsAreSomewhere, Calls
    <2> QED BY <1>2, <1>3, <2>1, <2>2 DEF TaskSteps, Quiet
  <1>6. ASSUME NEW c \in Calls, SettingsRead(c)
        PROVE  Quiet
    <2>1. /\ OnlyMoves(c, call, call') /\ call[c].step = "read"
          /\ call'[c].step \in {"write", "failed"}
          /\ UNCHANGED <<chain, closed>>
      BY <1>1, <1>6, SettingsReadMoves
    <2> QED BY <1>2, <1>3, <2>1 DEF TaskSteps, Quiet
  <1>7. ASSUME NEW c \in Calls, SettingsWritten(c) \/ RendererReady(c)
        PROVE  Quiet \/ Submits(c)
    <2>1. /\ OnlyMoves(c, call, call') /\ call[c].step \in {"write", "none"}
          /\ call'[c].step \in {"answered", "chained", "failed"}
          /\ UNCHANGED closed
          /\ \/ ~closed /\ chain' = Append(chain, c)
             \/ chain' = chain
      <3>1. CASE SettingsWritten(c)
        BY <1>1, <3>1, SettingsWrittenMoves
      <3>2. CASE RendererReady(c)
        <4>1. call[c].step = "none"
          BY <1>1, <3>2 DEF RendererReady, IsNext, TaskInv, CallsAreSomewhere, Calls
        <4> QED BY <1>1, <3>2, <4>1, RendererReadyMoves
      <3> QED BY <1>7, <3>1, <3>2
    <2>2. Active' = Active
      BY <1>2, <1>3, <2>1 DEF TaskSteps
    <2> QED BY <2>1, <2>2 DEF Quiet, Submits
  <1>8. CASE QuitBegins
    <2>1. /\ OnlyMoves(Quit, call, call') /\ call'[Quit].step = "chained"
          /\ ~closed /\ closed' = TRUE /\ chain' = Append(chain, Quit)
      BY <1>1, <1>8, QuitMoves
    <2>2. call[Quit].step = "none"
      BY <1>1, <2>1 DEF TaskInv, QuitIsLast
    <2>3. Active' = Active
      BY <1>2, <1>3, <2>1, <2>2 DEF TaskSteps
    <2> QED BY <2>1, <2>3
  <1>9. ASSUME NEW c \in Callers, TaskBegins(c)
        PROVE  /\ Active = NoCall /\ chain # <<>>
               /\ Active' = Head(chain) /\ chain' = Tail(chain)
               /\ closed' = closed
    <2>1. /\ OnlyMoves(c, call, call') /\ call'[c].step = "stop"
          /\ \A d \in Callers : call[d].step \notin TaskSteps
          /\ chain # <<>> /\ c = Head(chain) /\ chain' = Tail(chain)
          /\ UNCHANGED closed
      BY <1>1, <1>9, TaskBeginsMoves
    <2>2. Running = {}
      BY <2>1 DEF Running, Callers
    <2>3. Running' = {c}
      BY <2>1 DEF Running, Callers, OnlyMoves, TaskSteps
    <2> QED BY <2>1, <2>2, <2>3 DEF Active
  <1>10. ASSUME NEW c \in Callers, TaskProceeds(c)
         PROVE  Quiet \/ Finishes
    <2>1. CASE ServerStopped(c)
      <3>1. /\ OnlyMoves(c, call, call') /\ call[c].step = "stop"
            /\ UNCHANGED <<chain, closed>>
        BY <1>1, <2>1, ServerStoppedMoves
      <3> QED BY <1>4, <3>1 DEF TaskSteps
    <2>2. CASE ~ServerStopped(c)
      <3>1. c \in Calls
        BY <1>1, <1>10, <2>2 DEF Callers, TaskInv, QuitIsLast, At, SettingsLoaded,
                  TokenLoaded, ServerListens, ServerFails, TaskProceeds
      <3>2. /\ OnlyMoves(c, call, call')
            /\ call[c].step \in {"settings", "token", "start"}
            /\ UNCHANGED <<chain, closed>>
        BY <1>1, <1>10, <2>2, <3>1, SettingsLoadedMoves, TokenLoadedMoves,
           ServerStartedMoves DEF TaskProceeds
      <3> QED BY <1>4, <3>2 DEF TaskSteps
    <2> QED BY <2>1, <2>2
  <1>11. ASSUME UNCHANGED runnerVars PROVE Quiet
    BY <1>11, ActiveStays DEF runnerVars, Quiet
  <1>12. CASE \/ RendererUnavailable
              \/ \E w \in Writers : WriterStep(w)
              \/ \E r \in Requests :
                    \/ \E s \in Calls : RequestArrives(r, s)
                    \/ BodyArrives(r) \/ ConnectionEnds(r) \/ ToolEnds(r)
              \/ UNCHANGED <<serverVars, scenario>>
    <2>1. UNCHANGED runnerVars
      BY <1>12, WriterKeeps DEF RendererUnavailable, RequestArrives, BodyArrives,
                   ConnectionEnds, ToolEnds, serverVars
    <2> QED BY <1>11, <2>1
  <1>13. CASE CallStep
    BY <1>5, <1>6, <1>7, <1>8, <1>12, <1>13 DEF CallStep
  <1> QED BY <1>9, <1>10, <1>12, <1>13
          DEF ServerNext, ServerStep, RequestStep, Callers

(* Reconciliations run one at a time in the order they were asked for, and the
   cleanup of stop() is the last: every behaviour of the server is one of the
   executor (serializedAsyncRunner.std.ts:24-48). *)
THEOREM RunnerIsSerialExecutor ==
  ServerSpec => ImplementsExecutor
  <1>1. ServerInit => Serial!Init
    <2> SUFFICES ASSUME ServerInit PROVE chain = <<>> /\ Active = NoCall /\ closed = FALSE
      BY DEF Serial!Init, Active
    <2>1. Running = {}
      BY DEF ServerInit, Running, TaskSteps
    <2> QED BY <2>1 DEF ServerInit, Active
  <1> QED
    BY <1>1, IInvInvariant, StepRefinesExecutor, PTL
    DEF ServerSpec, ImplementsExecutor, Serial!Spec

-----------------------------------------------------------------------------
(* The inductive invariant of the requests to the renderer. *)

UnderWay(r) == capability[r] \in {"running", "queued"}

\* What the answers rest on: a call may return without a message, or fail when
\* it has queued one.
CallsMaySkip == "skip" \in sendScenario.faults
CallsMayFailLate == "late" \in sendScenario.faults

\* A request that is not made yet, or on its way, has left no trace.
Untouched(r) ==
    /\ capability[r] = "none" /\ awaits[r] = {} /\ r \notin sent
    /\ \A outcome \in Outcomes : <<r, outcome>> \notin toMain

ComingInv ==
    /\ \A r \in Sends : asked[r] = NoMessage =>
          Untouched(r) /\ r \notin pending \cup toRenderer /\ answer[r] = "none"
    /\ \A r \in toRenderer : Untouched(r)
    /\ ~renderer => reloads > 0

\* A request waits for its own call, or for the one of its key.
Joined(r, s) ==
    /\ r \notin sent /\ capability[r] = "none"
    /\ Key(r) # NoKey /\ asked[s] = asked[r]

\* A message is sent once its call has queued it; some calls return without.
CallsInv ==
    /\ \A r \in Sends : /\ capability[r] = "running" => r \notin sent
                        /\ capability[r] = "queued" => r \in sent
                        /\ capability[r] = "ok" => r \in sent \/ CallsMaySkip
                        /\ capability[r] = "error" => r \notin sent \/ CallsMayFailLate
    /\ reloads = 0 => \A r \in sent : capability[r] \in {"queued", "ok", "error"}
    /\ \A r \in Sends : \A s \in awaits[r] : UnderWay(s) /\ (s # r => Joined(r, s))

KeysDistinct(list) ==
    \A i, j \in DOMAIN list : list[i].key = list[j].key => i = j

Lacks(list, entry) == \A i \in DOMAIN list : list[i].key # entry.key

\* What the cache says of a key is what was asked, and its call has not failed.
Remembered(entry) ==
    /\ asked[entry.call] = [key |-> entry.key, content |-> entry.content]
    /\ capability[entry.call] \in {"running", "queued", "ok"}

CacheInv ==
    /\ KeysDistinct(cache)
    /\ \A i \in DOMAIN cache : Remembered(cache[i])

\* The message of a request was queued, by its own call or by that of its key.
IsQueued(r) == r \in sent \/ (Key(r) # NoKey /\ \E s \in sent : asked[s] = asked[r])
Told(r, outcome) == <<r, outcome>> \in toMain \/ answer[r] = outcome

ToldInv ==
    \A r \in Sends :
        /\ Told(r, "ok") => IsQueued(r) \/ CallsMaySkip
        /\ Told(r, "error") \/ Told(r, "conflict") =>
              r \notin toRenderer /\ ~UnderWay(r)
        /\ Told(r, "error") => r \notin sent \/ CallsMayFailLate
        /\ Told(r, "conflict") => r \notin sent
        /\ answer[r] = "unavailable" => reloads > 0

UsedKeys == {Key(r) : r \in Sends} \ {NoKey}

\* While there is room for every key, its call is in the cache.
OnceInv ==
    reloads = 0 /\ "expire" \notin sendScenario.faults =>
        /\ \A i \in DOMAIN cache : ~cache[i].expired
        /\ Cardinality(UsedKeys) <= CacheLimit =>
              \A r \in Sends :
                  Key(r) # NoKey /\ capability[r] \in {"running", "queued", "ok"} =>
                      \E i \in DOMAIN cache : cache[i].call = r

SendsInv ==
    /\ TypeOK
    /\ ComingInv
    /\ CallsInv
    /\ CacheInv
    /\ ToldInv
    /\ OnceInv

\* The scenario is fixed, and with it what calls may do.
USE DEF CallsMaySkip, CallsMayFailLate

-----------------------------------------------------------------------------
(* The cache and the keys. *)

(* The entries at some indices (Array.prototype.filter). *)
LEMMA KeptEntries ==
  ASSUME NEW list \in Seq(CacheEntry), KeysDistinct(list),
         NEW I \in SUBSET DOMAIN list, NEW kept, kept = ElementsAt(list, I)
  PROVE  /\ kept \in Seq(CacheEntry) /\ Len(kept) <= Len(list)
         /\ KeysDistinct(kept)
         /\ \A i \in DOMAIN kept : \E k \in I : kept[i] = list[k]
         /\ \A k \in I : \E i \in DOMAIN kept : kept[i] = list[k]
  <1>1. /\ kept \in Seq(CacheEntry)
        /\ Len(kept) = Cardinality(I) /\ Cardinality(I) \in 0 .. Len(list)
        /\ \A i \in DOMAIN kept : \E k \in I : kept[i] = list[k]
        /\ \A k \in I : \E i \in DOMAIN kept : kept[i] = list[k]
        /\ \A m, n \in DOMAIN kept : m < n =>
             \E i, j \in I : i < j /\ kept[m] = list[i] /\ kept[n] = list[j]
    BY ElementsAtProperties
  <1>2. KeysDistinct(kept)
    <2>1. ASSUME NEW m \in DOMAIN kept, NEW n \in DOMAIN kept, m < n
          PROVE  kept[m].key # kept[n].key
      <3>1. PICK i \in I, j \in I :
              i < j /\ kept[m] = list[i] /\ kept[n] = list[j]
        BY <1>1, <2>1
      <3>2. i \in Nat /\ j \in Nat /\ i # j
        BY <3>1
      <3> QED BY <3>1, <3>2 DEF KeysDistinct
    <2>2. \A m, n \in DOMAIN kept : m < n \/ n < m \/ m = n
      BY <1>1
    <2> QED BY <2>1, <2>2 DEF KeysDistinct
  <1> QED BY <1>1, <1>2

(* The oldest entry makes room when the cache is full
   (automationRendererHandler.std.ts:133-139). *)
LEMMA EvictedKeeps ==
  ASSUME NEW list \in Seq(CacheEntry), KeysDistinct(list), Len(list) <= CacheLimit,
         NEW rest, rest = Evicted(list)
  PROVE  /\ rest \in Seq(CacheEntry) /\ Len(rest) < CacheLimit
         /\ KeysDistinct(rest)
         /\ \A i \in DOMAIN rest : \E k \in DOMAIN list : rest[i] = list[k]
         /\ Len(list) < CacheLimit => rest = list
  <1> DEFINE n == Len(list)
  <1>1. CacheLimit \in Nat \ {0} /\ n \in Nat
    BY RequestsAssumption
  <1>2. CASE n >= CacheLimit
    <2>1. n = CacheLimit
      BY <1>1, <1>2
    <2>2. rest = SubSeq(list, 2, n)
      <3>1. n - CacheLimit + 2 = 2
        BY <1>1, <2>1
      <3>2. rest = SubSeq(list, n - CacheLimit + 2, n)
        BY <1>2 DEF Evicted
      <3> HIDE DEF n
      <3> QED BY <3>1, <3>2
    <2>3. /\ rest \in Seq(CacheEntry) /\ Len(rest) = n - 1
          /\ \A i \in DOMAIN rest :
               i \in Nat /\ i + 1 \in DOMAIN list /\ rest[i] = list[i + 1]
      BY <1>1, <2>1, <2>2
    <2>4. KeysDistinct(rest)
      <3> SUFFICES ASSUME NEW i \in DOMAIN rest, NEW j \in DOMAIN rest,
                          rest[i].key = rest[j].key
                   PROVE  i = j
        BY DEF KeysDistinct
      <3>1. i + 1 = j + 1
        BY <2>3 DEF KeysDistinct
      <3> QED BY <2>3, <3>1
    <2> HIDE DEF n
    <2> QED BY <1>1, <2>1, <2>3, <2>4 DEF n
  <1>3. CASE ~(n >= CacheLimit)
    <2>1. rest = list
      BY <1>3 DEF Evicted
    <2> QED BY <1>1, <1>3, <2>1
  <1> QED BY <1>2, <1>3

(* A new key joins the others (automationRendererHandler.std.ts:140-145). *)
LEMMA AppendedKey ==
  ASSUME NEW list \in Seq(CacheEntry), KeysDistinct(list), NEW new \in CacheEntry,
         Lacks(list, new), NEW all, all = Append(list, new)
  PROVE  /\ all \in Seq(CacheEntry) /\ Len(all) = Len(list) + 1
         /\ KeysDistinct(all)
         /\ \A i \in DOMAIN all : all[i] = new \/ \E k \in DOMAIN list : all[i] = list[k]
         /\ \E i \in DOMAIN all : all[i] = new
         /\ \A k \in DOMAIN list : \E i \in DOMAIN all : all[i] = list[k]
  <1> DEFINE n == Len(list)
  <1>1. /\ n \in Nat /\ DOMAIN list = 1 .. n
        /\ all \in Seq(CacheEntry) /\ Len(all) = n + 1 /\ DOMAIN all = 1 .. (n + 1)
        /\ all[n + 1] = new /\ \A i \in 1 .. n : all[i] = list[i]
    OBVIOUS
  <1> HIDE DEF n
  <1>2. \A i \in 1 .. (n + 1) : i \in 1 .. n \/ i = n + 1
    BY <1>1
  <1>3. n + 1 \in 1 .. (n + 1) /\ \A i \in 1 .. n : i \in 1 .. (n + 1)
    BY <1>1
  <1>4. KeysDistinct(all)
    <2> SUFFICES ASSUME NEW i \in 1 .. (n + 1), NEW j \in 1 .. (n + 1),
                        all[i].key = all[j].key
                 PROVE  i = j
      BY <1>1 DEF KeysDistinct
    <2> QED BY ONLY <1>1, <1>2, KeysDistinct(list), all[i].key = all[j].key,
               i \in 1 .. (n + 1), j \in 1 .. (n + 1),
               Lacks(list, new)
            DEF KeysDistinct, Lacks
  <1>5. \A i \in 1 .. (n + 1) : all[i] = new \/ \E k \in 1 .. n : all[i] = list[k]
    BY <1>1, <1>2
  <1>6. Len(all) = Len(list) + 1
    BY <1>1 DEF n
  <1> QED BY <1>1, <1>3, <1>4, <1>5, <1>6

(* A list of distinct keys has no more entries than there are keys. *)
LEMMA RoomForKey ==
  ASSUME NEW list \in Seq(CacheEntry), KeysDistinct(list),
         NEW S, IsFiniteSet(S), \A i \in DOMAIN list : list[i].key \in S,
         NEW new, new.key \in S, Lacks(list, new)
  PROVE  Len(list) < Cardinality(S)
  <1> DEFINE n == Len(list)
             T == S \ {new.key}
             f == [i \in 1 .. n |-> list[i].key]
  <1>1. n \in Nat /\ DOMAIN list = 1 .. n
    OBVIOUS
  <1>2. f \in Injection(1 .. n, T)
    <2>1. f \in [1 .. n -> T]
      BY <1>1 DEF Lacks
    <2>2. \A i, j \in 1 .. n : f[i] = f[j] => i = j
      BY <1>1 DEF KeysDistinct
    <2> HIDE DEF f, T
    <2> QED BY <2>1, <2>2, Fun_IsInj
  <1>3. IsFiniteSet(T) /\ Cardinality(T) = Cardinality(S) - 1
    BY FS_RemoveElement
  <1>4. Cardinality(1 .. n) <= Cardinality(T)
    <2> HIDE DEF f, T, n
    <2> QED BY <1>2, <1>3, FS_Injection
  <1>5. Cardinality(1 .. n) = n
    <2>1. 1 \in Int /\ n \in Int
      BY <1>1
    <2>2. Cardinality(1 .. n) = IF 1 > n THEN 0 ELSE n - 1 + 1
      BY <2>1, FS_Interval
    <2> QED BY <1>1, <2>2
  <1>6. Cardinality(S) \in Nat
    BY FS_CardinalityType
  <1> HIDE DEF T
  <1> QED BY <1>1, <1>3, <1>4, <1>5, <1>6

(* The keys in use are finitely many. *)
LEMMA KeysFinite ==
  ASSUME NEW messages, NEW used,
         used = {messages[r].key : r \in Sends} \ {NoKey}
  PROVE  IsFiniteSet(used) /\ Cardinality(used) \in Nat
  <1> DEFINE K == {messages[r].key : r \in Sends}
             f == [r \in Sends |-> messages[r].key]
  <1>1. IsFiniteSet(Sends)
    BY RequestsAssumption, FS_Interval DEF Sends
  <1>2. f \in Surjection(Sends, K)
    BY DEF Surjection
  <1>3. IsFiniteSet(K)
    <2> HIDE DEF f, K
    <2> QED BY <1>1, <1>2, FS_Surjection
  <1> HIDE DEF K
  <1>4. IsFiniteSet(used)
    BY <1>3, FS_Subset DEF K
  <1> QED BY <1>4, FS_CardinalityType

(* A message that is asked for is none of the page's blanks. *)
LEMMA MessageTypes ==
  ASSUME TypeOK, NEW r \in Sends
  PROVE  /\ NoMessage \notin Message /\ Key(r) \in Keys \cup {NoKey}
         /\ asked[r] # NoMessage =>
              asked[r] \in Message
              /\ asked[r] = [key |-> asked[r].key, content |-> asked[r].content]
  <1>1. NoMessage \notin Message
    BY RequestsAssumption DEF NoMessage, Message
  <1>2. asked[r] \in Message \cup {NoMessage}
    BY DEF TypeOK
  <1>3. Key(r) \in Keys \cup {NoKey}
    BY <1>2 DEF Key, Message, NoMessage
  <1>4. \A m \in Message : m = [key |-> m.key, content |-> m.content]
    BY DEF Message
  <1> QED BY <1>1, <1>2, <1>3, <1>4

(* What the requests wait for once one more is made (its key may be new). *)
LEMMA UsedKeysGrow ==
  ASSUME NEW r \in Sends, asked[r] = NoMessage, NEW message,
         TypeOK, asked' = [asked EXCEPT ![r] = message],
         TypeOK'
  PROVE  Cardinality(UsedKeys') <= CacheLimit => Cardinality(UsedKeys) <= CacheLimit
  <1>1. \A q \in Sends : q # r => asked'[q] = asked[q]
    BY DEF TypeOK
  <1>2. Key(r) = NoKey
    BY DEF Key, NoMessage
  <1>3. UsedKeys \in SUBSET UsedKeys'
    BY <1>1, <1>2 DEF UsedKeys, Key
  <1>4. IsFiniteSet(UsedKeys') /\ Cardinality(UsedKeys') \in Nat
    BY KeysFinite DEF UsedKeys, Key
  <1>5. Cardinality(UsedKeys) <= Cardinality(UsedKeys') /\ Cardinality(UsedKeys) \in Nat
    BY <1>3, <1>4, FS_Subset, FS_CardinalityType
  <1>6. CacheLimit \in Nat
    BY RequestsAssumption
  <1> QED BY <1>4, <1>5, <1>6

-----------------------------------------------------------------------------
(* AutomationRendererBridge *)

(* Nothing was asked yet. *)
LEMMA SendsInit ==
  Init => SendsInv
  <1> SUFFICES ASSUME Init PROVE SendsInv
    OBVIOUS
  <1>1. TypeOK
    <2>1. CacheLimit \in Nat /\ 0 \in 0 .. MaxReloads
      BY RequestsAssumption
    <2> QED BY <2>1 DEF Init, TypeOK
  <1>2. ComingInv
    BY DEF Init, ComingInv, Untouched
  <1>3. CallsInv /\ CacheInv
    BY DEF Init, CallsInv, CacheInv, KeysDistinct
  <1>4. ToldInv
    BY DEF Init, ToldInv, Told
  <1>5. OnceInv
    BY DEF Init, OnceInv, Key, NoMessage
  <1> QED BY <1>1, <1>2, <1>3, <1>4, <1>5 DEF SendsInv

(* A new request has left no trace before it is made
   (automationRendererBridge.node.ts:48-77). *)
LEMMA RequestInv ==
  ASSUME SendsInv, NEW r \in Sends, NEW message \in sendScenario.messages,
         Request(r, message), sendScenario' = sendScenario
  PROVE  SendsInv'
  <1>1. TypeOK /\ ComingInv /\ CallsInv /\ CacheInv /\ ToldInv /\ OnceInv
    BY DEF SendsInv
  <1>2. /\ asked[r] = NoMessage
        /\ asked' = [asked EXCEPT ![r] = message]
        /\ UNCHANGED <<capability, awaits, cache, renderer, toMain, sent, reloads>>
        /\ \/ /\ renderer /\ answer' = answer
              /\ pending' = pending \cup {r} /\ toRenderer' = toRenderer \cup {r}
           \/ /\ ~renderer /\ answer' = [answer EXCEPT ![r] = "unavailable"]
              /\ pending' = pending /\ toRenderer' = toRenderer
    BY DEF Request, handlerVars
  <1>3. message \in Message
    BY <1>1, ScenarioAssumption DEF TypeOK
  <1>4. TypeOK'
    BY <1>1, <1>2, <1>3 DEF TypeOK
  <1>5. /\ asked'[r] = message /\ message # NoMessage
        /\ \A q \in Sends : q # r => asked'[q] = asked[q]
    BY <1>1, <1>2, <1>3, MessageTypes DEF TypeOK
  <1>6. /\ Untouched(r) /\ r \notin pending \cup toRenderer /\ answer[r] = "none"
    BY <1>1, <1>2 DEF ComingInv
  <1>7. \A q \in Sends : q # r => answer'[q] = answer[q]
    BY <1>1, <1>2 DEF TypeOK
  <1>8. /\ \A q \in Sends : Untouched(q)' <=> Untouched(q)
        /\ \A q \in Sends : UnderWay(q)' <=> UnderWay(q)
    BY <1>2 DEF Untouched, UnderWay
  <1>9. ComingInv'
    <2>1. \A q \in Sends : asked'[q] = NoMessage =>
            /\ Untouched(q) /\ q \notin pending' \cup toRenderer'
            /\ answer'[q] = "none"
      BY <1>1, <1>2, <1>5, <1>7 DEF ComingInv
    <2>2. \A q \in toRenderer' : q \in Sends /\ Untouched(q)
      BY <1>1, <1>2, <1>6 DEF ComingInv, TypeOK
    <2> QED BY <1>1, <1>2, <1>8, <2>1, <2>2 DEF ComingInv
  <1>10. CallsInv'
    <2>1. ASSUME NEW q \in Sends, NEW s \in awaits[q], s # q
          PROVE  Joined(q, s)'
      <3>1. Joined(q, s) /\ UnderWay(s) /\ s \in Sends
        BY <1>1, <2>1 DEF CallsInv, TypeOK
      <3>2. q # r /\ s # r
        BY <1>6, <2>1, <3>1 DEF Untouched, UnderWay
      <3> QED BY <1>2, <1>5, <3>1, <3>2 DEF Joined, Key
    <2>2. \A q \in Sends : \A s \in awaits'[q] : s \in Sends /\ s \in awaits[q]
      BY <1>1, <1>2 DEF TypeOK
    <2> QED BY <1>1, <1>2, <1>8, <2>1, <2>2 DEF CallsInv
  <1>11. CacheInv'
    <2>1. ASSUME NEW i \in DOMAIN cache PROVE Remembered(cache[i])'
      <3>1. Remembered(cache[i]) /\ cache[i].call \in Sends
        <4>1. cache[i] \in CacheEntry
          BY <1>1 DEF TypeOK
        <4> QED BY <1>1, <4>1 DEF CacheInv, CacheEntry
      <3>2. cache[i].call # r
        BY <1>6, <3>1 DEF Remembered, Untouched
      <3> QED BY <1>2, <1>5, <3>1, <3>2 DEF Remembered
    <2> QED BY <1>1, <1>2, <2>1 DEF CacheInv, KeysDistinct
  <1>12. ToldInv'
    <2>1. ASSUME NEW q \in Sends, NEW outcome \in Outcomes, Told(q, outcome)'
          PROVE  q # r /\ Told(q, outcome)
      <3>1. answer'[r] \notin Outcomes
        BY <1>1, <1>2, <1>6 DEF TypeOK, Outcomes
      <3> QED BY <1>2, <1>6, <1>7, <2>1, <3>1 DEF Told, Untouched
    <2>2. ASSUME NEW q \in Sends, q # r, IsQueued(q)
          PROVE  IsQueued(q)'
      <3>1. \A s \in sent : s \in Sends /\ s # r
        BY <1>1, <1>6 DEF TypeOK, Untouched
      <3> QED BY <1>2, <1>5, <2>2, <3>1 DEF IsQueued, Key
    <2>3. ASSUME NEW q \in Sends
          PROVE  /\ Told(q, "ok")' => IsQueued(q)' \/ CallsMaySkip
                 /\ Told(q, "error")' \/ Told(q, "conflict")' =>
                       q \notin toRenderer' /\ ~UnderWay(q)'
                 /\ Told(q, "error")' => q \notin sent' \/ CallsMayFailLate
                 /\ Told(q, "conflict")' => q \notin sent'
      BY <1>1, <1>2, <1>8, <2>1, <2>2 DEF ToldInv, Outcomes
    <2>4. ASSUME NEW q \in Sends, answer'[q] = "unavailable"
          PROVE  reloads' > 0
      BY <1>1, <1>2, <1>6, <1>7, <2>4 DEF ToldInv, ComingInv
    <2> QED BY <2>3, <2>4 DEF ToldInv
  <1>13. OnceInv'
    <2>1. Cardinality(UsedKeys') <= CacheLimit => Cardinality(UsedKeys) <= CacheLimit
      BY <1>1, <1>2, <1>4, UsedKeysGrow
    <2>2. \A q \in Sends : Key(q)' # NoKey /\ capability'[q] # "none" =>
            Key(q) # NoKey /\ capability[q] = capability'[q]
      BY <1>2, <1>5, <1>6 DEF Key, Untouched
    <2> QED BY <1>1, <1>2, <2>1, <2>2 DEF OnceInv
  <1> QED BY <1>4, <1>9, <1>10, <1>11, <1>12, <1>13 DEF SendsInv

(* Nothing but what the client and the bridge know changes. *)
LEMMA AnswerInv ==
  ASSUME SendsInv, NEW r \in Sends, NEW outcome \in Outcomes \cup {"unknown"},
         asked[r] # NoMessage,
         UNCHANGED <<asked, capability, awaits, cache, renderer, toRenderer, sent,
                     reloads, sendScenario>>,
         pending' \subseteq pending, toMain' \subseteq toMain,
         answer' \in {answer, [answer EXCEPT ![r] = outcome]},
         outcome \in Outcomes => <<r, outcome>> \in toMain
  PROVE  SendsInv'
  <1>1. TypeOK /\ ComingInv /\ CallsInv /\ CacheInv /\ ToldInv /\ OnceInv
    BY DEF SendsInv
  <1>2. TypeOK'
    <2>1. answer' \in [Sends -> Outcomes \cup {"none", "unknown", "unavailable"}]
      BY <1>1 DEF TypeOK
    <2> QED BY <1>1, <2>1 DEF TypeOK
  <1>3. \A q \in Sends : answer'[q] = answer[q] \/ (q = r /\ answer'[q] = outcome)
    BY <1>1 DEF TypeOK
  <1>4. ComingInv'
    <2>1. \A q \in Sends : Untouched(q) => Untouched(q)'
      BY DEF Untouched
    <2>2. \A q \in toRenderer : q \in Sends
      BY <1>1 DEF TypeOK
    <2> QED BY <1>1, <1>3, <2>1, <2>2 DEF ComingInv
  <1>5. CallsInv' /\ CacheInv' /\ OnceInv'
    BY <1>1 DEF CallsInv, CacheInv, OnceInv, Joined, Remembered, KeysDistinct,
                UnderWay, Key, UsedKeys
  <1>6. ToldInv'
    <2>1. ASSUME NEW q \in Sends, NEW o \in Outcomes, Told(q, o)'
          PROVE  Told(q, o)
      BY <1>3, <2>1 DEF Told
    <2>2. \A q \in Sends : /\ IsQueued(q)' <=> IsQueued(q)
                           /\ UnderWay(q)' <=> UnderWay(q)
      BY DEF IsQueued, UnderWay, Key
    <2>3. \A q \in Sends : answer'[q] = "unavailable" => answer[q] = "unavailable"
      BY <1>3 DEF Outcomes
    <2> QED BY <1>1, <2>1, <2>2, <2>3 DEF ToldInv, Outcomes
  <1> QED BY <1>2, <1>4, <1>5, <1>6 DEF SendsInv

(* The timeout, and a response that is waited for or not
   (automationRendererBridge.node.ts:51-103). *)
LEMMA BridgeInv ==
  ASSUME SendsInv, NEW r \in Sends, sendScenario' = sendScenario,
         TimeOut(r) \/ \E outcome \in Outcomes : HandleResponse(r, outcome)
  PROVE  SendsInv'
  <1>1. CASE TimeOut(r)
    <2>1. asked[r] # NoMessage
      BY <1>1 DEF TimeOut, SendsInv, ComingInv
    <2>2. /\ toMain' \subseteq toMain /\ pending' \subseteq pending
          /\ answer' \in {answer, [answer EXCEPT ![r] = "unknown"]}
          /\ UNCHANGED <<asked, capability, awaits, cache, renderer, toRenderer,
                         sent, reloads>>
      BY <1>1 DEF TimeOut, handlerVars
    <2>3. "unknown" \in Outcomes \cup {"unknown"} /\ "unknown" \notin Outcomes
      BY DEF Outcomes
    <2> QED BY <2>1, <2>2, <2>3, AnswerInv
  <1>2. ASSUME NEW outcome \in Outcomes, HandleResponse(r, outcome) PROVE SendsInv'
    <2>1. asked[r] # NoMessage
      BY <1>2 DEF HandleResponse, SendsInv, ComingInv, Untouched
    <2>2. /\ <<r, outcome>> \in toMain
          /\ toMain' \subseteq toMain /\ pending' \subseteq pending
          /\ answer' \in {answer, [answer EXCEPT ![r] = outcome]}
          /\ UNCHANGED <<asked, capability, awaits, cache, renderer, toRenderer,
                         sent, reloads>>
      BY <1>2 DEF HandleResponse, handlerVars
    <2> QED BY <2>1, <2>2, AnswerInv
  <1> QED BY <1>1, <1>2

(* A new window (automationRuntime.main.ts:400-406). *)
LEMMA NewWindowInv ==
  ASSUME SendsInv, NewWindow, sendScenario' = sendScenario
  PROVE  SendsInv'
  <1>1. /\ renderer' = TRUE
        /\ UNCHANGED <<asked, pending, answer, capability, awaits, cache, toRenderer,
                       toMain, sent, reloads, sendScenario>>
    BY DEF NewWindow, bridgeVars, handlerVars
  <1>2. TypeOK' /\ ComingInv'
    BY <1>1 DEF SendsInv, TypeOK, ComingInv, Untouched
  <1>3. CallsInv' /\ CacheInv' /\ OnceInv'
    BY <1>1 DEF SendsInv, CallsInv, CacheInv, OnceInv, Joined, Remembered,
                KeysDistinct, UnderWay, Key, UsedKeys
  <1>4. ToldInv'
    <2>1. ToldInv
      BY DEF SendsInv
    <2>2. \A q \in Sends : /\ IsQueued(q)' <=> IsQueued(q)
                           /\ UnderWay(q)' <=> UnderWay(q)
                           /\ \A o \in Outcomes : Told(q, o)' <=> Told(q, o)
      BY <1>1 DEF IsQueued, UnderWay, Key, Told
    <2> QED BY <1>1, <2>1, <2>2 DEF ToldInv, Outcomes
  <1> QED BY <1>2, <1>3, <1>4 DEF SendsInv

-----------------------------------------------------------------------------
(* AutomationRendererHandler *)

(* An entry of the cache and what it names. *)
LEMMA CachedCalls ==
  ASSUME SendsInv, NEW i \in DOMAIN cache
  PROVE  /\ cache \in Seq(CacheEntry) /\ cache[i] \in CacheEntry
         /\ cache[i].call \in Sends /\ cache[i].key \in Keys
         /\ Remembered(cache[i])
         /\ asked[cache[i].call] \in Message /\ Key(cache[i].call) = cache[i].key
  <1>1. cache \in Seq(CacheEntry) /\ cache[i] \in CacheEntry
    BY DEF SendsInv, TypeOK
  <1>2. /\ cache[i].call \in Sends /\ cache[i].key \in Keys
        /\ cache[i].content \in Contents
    BY <1>1 DEF CacheEntry
  <1>3. Remembered(cache[i])
    BY DEF SendsInv, CacheInv
  <1>4. asked[cache[i].call] \in Message /\ Key(cache[i].call) = cache[i].key
    BY <1>2, <1>3 DEF Remembered, Message, Key
  <1> QED BY <1>1, <1>2, <1>3, <1>4

(* The entries that have not expired (automationRendererHandler.std.ts:110-115). *)
LEMMA FreshEntries ==
  ASSUME SendsInv
  PROVE  /\ Fresh \in Seq(CacheEntry) /\ Len(Fresh) <= CacheLimit
         /\ KeysDistinct(Fresh)
         /\ \A i \in DOMAIN Fresh : \E k \in DOMAIN cache : Fresh[i] = cache[k]
         /\ \A k \in DOMAIN cache : ~cache[k].expired =>
              \E i \in DOMAIN Fresh : Fresh[i] = cache[k]
  <1> DEFINE I == {i \in DOMAIN cache : ~cache[i].expired}
  <1>1. /\ cache \in Seq(CacheEntry) /\ Len(cache) <= CacheLimit
        /\ KeysDistinct(cache) /\ I \in SUBSET DOMAIN cache
    BY DEF SendsInv, TypeOK, CacheInv
  <1>2. Fresh = ElementsAt(cache, I)
    BY DEF Fresh
  <1>3. \A k \in DOMAIN cache : ~cache[k].expired => k \in I
    OBVIOUS
  <1> HIDE DEF I
  <1>4. /\ Fresh \in Seq(CacheEntry) /\ Len(Fresh) <= Len(cache)
        /\ KeysDistinct(Fresh)
        /\ \A i \in DOMAIN Fresh : \E k \in I : Fresh[i] = cache[k]
        /\ \A k \in I : \E i \in DOMAIN Fresh : Fresh[i] = cache[k]
    BY <1>1, <1>2, KeptEntries
  <1>5. Len(Fresh) <= CacheLimit
    <2>1. Len(Fresh) \in Nat /\ Len(cache) \in Nat /\ CacheLimit \in Nat
      BY <1>1, <1>4, RequestsAssumption
    <2> QED BY <1>1, <1>4, <2>1
  <1> QED BY <1>1, <1>3, <1>4, <1>5

(* A request calls the capability; what the cache becomes is good.
   (automationRendererHandler.std.ts:88-97, 133-146). *)
LEMMA StartInv ==
  ASSUME SendsInv, NEW r \in toRenderer, toRenderer' = toRenderer \ {r},
         StartCall(r),
         UNCHANGED <<asked, pending, answer, renderer, toMain, sent, reloads,
                     sendScenario>>,
         cache' \in Seq(CacheEntry), Len(cache') <= CacheLimit,
         KeysDistinct(cache'),
         \A i \in DOMAIN cache' : \/ cache'[i] = Entry(r) /\ Key(r) # NoKey
                                  \/ \E k \in DOMAIN cache : cache'[i] = cache[k],
         reloads = 0 /\ "expire" \notin sendScenario.faults =>
            /\ \A i \in DOMAIN cache' : ~cache'[i].expired
            /\ Cardinality(UsedKeys) <= CacheLimit =>
                 /\ \A k \in DOMAIN cache : \E i \in DOMAIN cache' : cache'[i] = cache[k]
                 /\ Key(r) # NoKey => \E i \in DOMAIN cache' : cache'[i].call = r
  PROVE  SendsInv'
  <1>1. TypeOK /\ ComingInv /\ CallsInv /\ CacheInv /\ ToldInv /\ OnceInv
    BY DEF SendsInv
  <1>2. /\ r \in Sends /\ Untouched(r) /\ asked[r] # NoMessage
    BY <1>1 DEF TypeOK, ComingInv
  <1>3. /\ capability' = [capability EXCEPT ![r] = "running"]
        /\ awaits' = [awaits EXCEPT ![r] = {r}]
    BY DEF StartCall
  <1>4. /\ capability'[r] = "running" /\ awaits'[r] = {r}
        /\ \A q \in Sends : q # r => /\ capability'[q] = capability[q]
                                     /\ awaits'[q] = awaits[q]
    BY <1>1, <1>2, <1>3 DEF TypeOK
  <1>5. TypeOK'
    <2>1. /\ capability' \in [Sends -> {"none", "running", "queued", "ok", "error"}]
          /\ awaits' \in [Sends -> SUBSET Sends] /\ toRenderer' \subseteq Sends
      BY <1>1, <1>2, <1>3 DEF TypeOK
    <2> QED BY <1>1, <2>1 DEF TypeOK
  <1>6. ComingInv'
    <2>1. \A q \in Sends : q # r /\ Untouched(q) => Untouched(q)'
      BY <1>4 DEF Untouched
    <2>2. \A q \in toRenderer' : q \in toRenderer /\ q # r /\ q \in Sends
      BY <1>1 DEF TypeOK
    <2> QED BY <1>1, <1>2, <2>1, <2>2 DEF ComingInv
  <1>7. CallsInv'
    <2>1. \A q \in Sends :
             /\ capability'[q] = "running" => q \notin sent
             /\ capability'[q] = "queued" => q \in sent
             /\ capability'[q] = "ok" => q \in sent \/ CallsMaySkip
             /\ capability'[q] = "error" => q \notin sent \/ CallsMayFailLate
      BY <1>1, <1>2, <1>4 DEF CallsInv, Untouched
    <2>2. reloads = 0 => \A q \in sent : capability'[q] \in {"queued", "ok", "error"}
      <3>1. \A q \in sent : q \in Sends /\ q # r
        BY <1>1, <1>2 DEF TypeOK, Untouched
      <3> QED BY <1>1, <1>4, <3>1 DEF CallsInv
    <2>3. ASSUME NEW q \in Sends, NEW s \in awaits'[q]
          PROVE  UnderWay(s)' /\ (s # q => Joined(q, s)')
      <3>1. CASE q = r
        BY <1>4, <2>3, <3>1 DEF UnderWay
      <3>2. CASE q # r
        <4>1. s \in awaits[q] /\ s \in Sends
          BY <1>1, <1>4, <2>3, <3>2 DEF TypeOK
        <4>2. UnderWay(s) /\ (s # q => Joined(q, s))
          BY <1>1, <4>1 DEF CallsInv
        <4>3. s # r
          BY <1>2, <4>2 DEF Untouched, UnderWay
        <4> QED BY <1>4, <3>2, <4>1, <4>2, <4>3 DEF UnderWay, Joined, Key
      <3> QED BY <3>1, <3>2
    <2> QED BY <2>1, <2>2, <2>3 DEF CallsInv
  <1>8. CacheInv'
    <2>1. ASSUME NEW i \in DOMAIN cache' PROVE Remembered(cache[i])'
      <3>1. PICK entry : entry = cache'[i]
        OBVIOUS
      <3>2. CASE entry = Entry(r)
        <4>1. asked[r] = [key |-> asked[r].key, content |-> asked[r].content]
          BY <1>1, <1>2, MessageTypes
        <4>2. /\ entry.call = r /\ entry.key = asked[r].key
              /\ entry.content = asked[r].content
          BY ONLY <3>2 DEF Entry, Key
        <4>3. capability'[r] = "running" /\ asked' = asked
          BY <1>4
        <4> QED BY ONLY <3>1, <4>1, <4>2, <4>3 DEF Remembered
      <3>3. CASE \E k \in DOMAIN cache : entry = cache[k]
        <4>1. PICK k \in DOMAIN cache : entry = cache[k]
          BY <3>3
        <4>2. Remembered(entry) /\ entry.call \in Sends
          BY <4>1, CachedCalls
        <4>3. entry.call # r
          BY <1>2, <4>2 DEF Remembered, Untouched
        <4>4. capability'[entry.call] = capability[entry.call] /\ asked' = asked
          BY <1>4, <4>2, <4>3
        <4> QED BY ONLY <3>1, <4>2, <4>4 DEF Remembered
      <3> QED BY <3>1, <3>2, <3>3
    <2>2. KeysDistinct(cache')
      OBVIOUS
    <2> QED BY ONLY <2>1, <2>2 DEF CacheInv, KeysDistinct
  <1>9. ToldInv'
    <2>1. \A q \in Sends : /\ IsQueued(q)' <=> IsQueued(q)
                           /\ \A o \in Outcomes : Told(q, o)' <=> Told(q, o)
      BY DEF IsQueued, Key, Told
    <2>2. ~Told(r, "error") /\ ~Told(r, "conflict")
      BY <1>1, <1>2 DEF ToldInv
    <2>3. \A q \in Sends : q # r => (UnderWay(q)' <=> UnderWay(q))
      BY <1>4 DEF UnderWay
    <2>4. "ok" \in Outcomes /\ "error" \in Outcomes /\ "conflict" \in Outcomes
      BY DEF Outcomes
    <2> QED BY <1>1, <2>1, <2>2, <2>3, <2>4 DEF ToldInv
  <1>10. OnceInv'
    <2>1. UsedKeys' = UsedKeys
      BY DEF UsedKeys, Key
    <2>2. ASSUME reloads = 0, "expire" \notin sendScenario.faults,
                 Cardinality(UsedKeys) <= CacheLimit, NEW q \in Sends,
                 Key(q) # NoKey, capability'[q] \in {"running", "queued", "ok"}
          PROVE  \E i \in DOMAIN cache' : cache'[i].call = q
      <3>1. CASE q = r
        BY <2>2, <3>1
      <3>2. CASE q # r
        <4>1. PICK k \in DOMAIN cache : cache[k].call = q
          BY <1>1, <1>4, <2>2, <3>2 DEF OnceInv
        <4> QED BY <2>2, <4>1
      <3> QED BY <3>1, <3>2
    <2>3. \A q \in Sends : Key(q)' = Key(q)
      BY DEF Key
    <2> QED BY <2>1, <2>2, <2>3 DEF OnceInv
  <1> QED BY <1>5, <1>6, <1>7, <1>8, <1>9, <1>10 DEF SendsInv

(* A request without a key (automationRendererHandler.std.ts:88-97). *)
LEMMA PlainInv ==
  ASSUME SendsInv, NEW r \in toRenderer, toRenderer' = toRenderer \ {r},
         HandlePlain(r),
         UNCHANGED <<asked, pending, answer, renderer, sent, reloads, sendScenario>>
  PROVE  SendsInv'
  <1>1. StartCall(r) /\ UNCHANGED <<cache, toMain>> /\ Key(r) = NoKey
    BY DEF HandlePlain
  <1>2. /\ cache' \in Seq(CacheEntry) /\ Len(cache') <= CacheLimit
        /\ KeysDistinct(cache')
    BY <1>1 DEF SendsInv, TypeOK, CacheInv
  <1>3. reloads = 0 /\ "expire" \notin sendScenario.faults =>
          \A i \in DOMAIN cache' : ~cache'[i].expired
    BY <1>1 DEF SendsInv, OnceInv
  <1>4. \A k \in DOMAIN cache' : cache'[k] = cache[k] /\ k \in DOMAIN cache
    BY <1>1
  <1> HIDE DEF SendsInv, StartCall, Key, Entry
  <1> QED BY <1>1, <1>2, <1>3, <1>4, StartInv

(* A new key is remembered; as long as there is room for every key, no other
   is forgotten for it (automationRendererHandler.std.ts:110-146). *)
LEMMA NewKeyInv ==
  ASSUME SendsInv, NEW r \in toRenderer, toRenderer' = toRenderer \ {r},
         HandleNewKey(r),
         UNCHANGED <<asked, pending, answer, renderer, sent, reloads, sendScenario>>
  PROVE  SendsInv'
  <1>1. /\ StartCall(r) /\ toMain' = toMain /\ Key(r) # NoKey
        /\ cache' = Append(Evicted(Fresh), Entry(r))
    BY DEF HandleNewKey
  <1>2. PICK list : list = Fresh
    OBVIOUS
  <1>3. PICK rest : rest = Evicted(list)
    OBVIOUS
  <1>4. PICK new : new = Entry(r)
    OBVIOUS
  <1>5. /\ TypeOK /\ r \in Sends /\ asked[r] # NoMessage
    <2>1. TypeOK /\ r \in Sends /\ Untouched(r)
      BY DEF SendsInv, TypeOK, ComingInv
    <2> QED BY <2>1 DEF SendsInv, ComingInv
  <1>6. /\ new \in CacheEntry /\ new.key = Key(r) /\ new.call = r /\ ~new.expired
    <2>1. asked[r] \in Message /\ Key(r) \in Keys
      BY <1>1, <1>5, MessageTypes
    <2>2. asked[r].content \in Contents
      BY <2>1 DEF Message
    <2> QED BY ONLY <1>4, <1>5, <2>1, <2>2 DEF Entry, CacheEntry
  <1>7. /\ list \in Seq(CacheEntry) /\ Len(list) <= CacheLimit /\ KeysDistinct(list)
        /\ \A i \in DOMAIN list : \E k \in DOMAIN cache : list[i] = cache[k]
        /\ \A k \in DOMAIN cache : ~cache[k].expired =>
             \E i \in DOMAIN list : list[i] = cache[k]
    BY <1>2, FreshEntries
  <1>8. Lacks(list, new)
    <2>1. EntriesOf(Key(r)) = {}
      BY DEF HandleNewKey
    <2> QED BY ONLY <1>2, <1>6, <2>1 DEF EntriesOf, Range, Lacks
  <1>9. /\ rest \in Seq(CacheEntry) /\ Len(rest) < CacheLimit /\ KeysDistinct(rest)
        /\ \A i \in DOMAIN rest : \E k \in DOMAIN list : rest[i] = list[k]
        /\ Len(list) < CacheLimit => rest = list
    BY ONLY <1>3, <1>7, EvictedKeeps
  <1>10. Lacks(rest, new)
    BY ONLY <1>8, <1>9 DEF Lacks
  <1>11. PICK all : all = Append(rest, new)
    OBVIOUS
  <1>12. /\ cache' \in Seq(CacheEntry) /\ Len(cache') = Len(rest) + 1
         /\ KeysDistinct(cache')
         /\ \A i \in DOMAIN cache' :
              cache'[i] = new \/ \E k \in DOMAIN rest : cache'[i] = rest[k]
         /\ \E i \in DOMAIN cache' : cache'[i] = new
         /\ \A k \in DOMAIN rest : \E i \in DOMAIN cache' : cache'[i] = rest[k]
    <2>1. /\ new \in CacheEntry /\ rest \in Seq(CacheEntry) /\ KeysDistinct(rest)
      BY ONLY <1>6, <1>9
    <2>2. all \in Seq(CacheEntry) /\ Len(all) = Len(rest) + 1 /\ KeysDistinct(all)
      BY ONLY <1>10, <1>11, <2>1, AppendedKey
    <2>3. \A i \in DOMAIN all : all[i] = new \/ \E k \in DOMAIN rest : all[i] = rest[k]
      BY ONLY <1>10, <1>11, <2>1, AppendedKey
    <2>4. \E i \in DOMAIN all : all[i] = new
      BY ONLY <1>10, <1>11, <2>1, AppendedKey
    <2>5. \A k \in DOMAIN rest : \E i \in DOMAIN all : all[i] = rest[k]
      BY ONLY <1>10, <1>11, <2>1, AppendedKey
    <2>6. cache' = all
      BY ONLY <1>1, <1>2, <1>3, <1>4, <1>11
    <2> QED BY ONLY <2>2, <2>3, <2>4, <2>5, <2>6
  <1>13. Len(cache') <= CacheLimit
    <2>1. Len(rest) \in Nat /\ CacheLimit \in Nat
      BY <1>9, RequestsAssumption
    <2> QED BY ONLY <1>9, <1>12, <2>1
  <1>14. \A i \in DOMAIN cache' : \/ cache'[i] = Entry(r) /\ Key(r) # NoKey
                                  \/ \E k \in DOMAIN cache : cache'[i] = cache[k]
    BY ONLY <1>1, <1>4, <1>7, <1>9, <1>12
  <1>15. ASSUME reloads = 0, "expire" \notin sendScenario.faults
         PROVE  \A i \in DOMAIN cache' : ~cache'[i].expired
    <2>1. \A k \in DOMAIN cache : ~cache[k].expired
      BY <1>15 DEF SendsInv, OnceInv
    <2> QED BY ONLY <1>4, <1>6, <1>14, <2>1
  <1>16. ASSUME reloads = 0, "expire" \notin sendScenario.faults,
                Cardinality(UsedKeys) <= CacheLimit
         PROVE  /\ \A k \in DOMAIN cache : \E i \in DOMAIN cache' : cache'[i] = cache[k]
                /\ \E i \in DOMAIN cache' : cache'[i].call = r
    <2>1. \A k \in DOMAIN cache : ~cache[k].expired
      BY <1>16 DEF SendsInv, OnceInv
    <2>2. \A i \in DOMAIN list : list[i].key \in UsedKeys
      <3>1. \A k \in DOMAIN cache : cache[k].key \in UsedKeys
        BY CachedCalls, RequestsAssumption DEF UsedKeys
      <3> QED BY ONLY <1>7, <3>1
    <2>3. Key(r) \in UsedKeys
      BY <1>1, <1>5 DEF UsedKeys
    <2>4. IsFiniteSet(UsedKeys) /\ Cardinality(UsedKeys) \in Nat
      BY KeysFinite DEF UsedKeys, Key
    <2>5. Len(list) < Cardinality(UsedKeys)
      BY ONLY <1>6, <1>7, <1>8, <2>2, <2>3, <2>4, RoomForKey
    <2>6. Len(list) < CacheLimit
      <3>1. Len(list) \in Nat /\ CacheLimit \in Nat
        BY <1>7, RequestsAssumption
      <3> QED BY ONLY <1>16, <2>4, <2>5, <3>1
    <2>7. rest = list
      BY ONLY <1>9, <2>6
    <2> QED BY ONLY <1>6, <1>7, <1>12, <2>1, <2>7
  <1> HIDE DEF SendsInv, StartCall, Key, Entry, KeysDistinct, UsedKeys
  <1> QED BY <1>1, <1>12, <1>13, <1>14, <1>15, <1>16, StartInv

(* The entries that have expired are dropped; nothing else of the calls
   changes (automationRendererHandler.std.ts:110-115). *)
LEMMA FreshInv ==
  ASSUME SendsInv, cache' = Fresh, UNCHANGED <<asked, capability, reloads, sendScenario>>
  PROVE  /\ cache' \in Seq(CacheEntry) /\ Len(cache') <= CacheLimit
         /\ CacheInv' /\ OnceInv'
  <1>1. PICK list : list = Fresh
    OBVIOUS
  <1>2. /\ list \in Seq(CacheEntry) /\ Len(list) <= CacheLimit /\ KeysDistinct(list)
        /\ \A i \in DOMAIN list : \E k \in DOMAIN cache : list[i] = cache[k]
        /\ \A k \in DOMAIN cache : ~cache[k].expired =>
             \E i \in DOMAIN list : list[i] = cache[k]
    BY <1>1, FreshEntries
  <1>3. cache' = list
    BY <1>1
  <1>4. CacheInv'
    <2>1. \A i \in DOMAIN list : Remembered(list[i])
      BY <1>2, CachedCalls
    <2>2. UNCHANGED <<asked, capability>>
      OBVIOUS
    <2> QED BY ONLY <1>2, <1>3, <2>1, <2>2 DEF CacheInv, KeysDistinct, Remembered
  <1>5. OnceInv'
    <2>1. OnceInv
      BY DEF SendsInv
    <2>2. UsedKeys' = UsedKeys /\ \A q \in Sends : Key(q)' = Key(q)
      BY DEF UsedKeys, Key
    <2>3. UNCHANGED <<capability, reloads, sendScenario>>
      OBVIOUS
    <2>4. ASSUME reloads = 0, "expire" \notin sendScenario.faults
          PROVE  /\ \A i \in DOMAIN list : ~list[i].expired
                 /\ \A k \in DOMAIN cache : \E i \in DOMAIN list : list[i] = cache[k]
      <3>1. \A k \in DOMAIN cache : ~cache[k].expired
        BY <2>1, <2>4 DEF OnceInv
      <3> QED BY ONLY <1>2, <3>1
    <2>5. ASSUME reloads = 0, "expire" \notin sendScenario.faults,
                 Cardinality(UsedKeys) <= CacheLimit, NEW q \in Sends,
                 Key(q) # NoKey, capability[q] \in {"running", "queued", "ok"}
          PROVE  \E i \in DOMAIN list : list[i].call = q
      <3>1. PICK k \in DOMAIN cache : cache[k].call = q
        BY ONLY <2>1, <2>5 DEF OnceInv
      <3> QED BY ONLY <2>4, <2>5, <3>1
    <2> QED BY ONLY <1>3, <2>2, <2>3, <2>4, <2>5 DEF OnceInv
  <1> QED BY <1>2, <1>3, <1>4, <1>5

(* A known key: its request is answered or waits for the call of the key
   (automationRendererHandler.std.ts:116-131). *)
LEMMA KnownKeyInv ==
  ASSUME SendsInv, NEW r \in toRenderer, toRenderer' = toRenderer \ {r},
         HandleKnownKey(r),
         UNCHANGED <<asked, pending, answer, renderer, sent, reloads, sendScenario>>
  PROVE  SendsInv'
  <1>1. TypeOK /\ ComingInv /\ CallsInv /\ CacheInv /\ ToldInv /\ OnceInv
    BY DEF SendsInv
  <1>2. /\ r \in Sends /\ Untouched(r) /\ asked[r] # NoMessage
    BY <1>1 DEF TypeOK, ComingInv
  <1>3. Key(r) # NoKey /\ cache' = Fresh /\ capability' = capability
    BY DEF HandleKnownKey
  <1>4. PICK entry \in EntriesOf(Key(r)) :
          IF entry.content # asked[r].content
          THEN toMain' = toMain \cup {<<r, "conflict">>} /\ awaits' = awaits
          ELSE IF capability[entry.call] = "ok"
          THEN toMain' = toMain \cup {<<r, "ok">>} /\ awaits' = awaits
          ELSE awaits' = [awaits EXCEPT ![r] = {entry.call}] /\ toMain' = toMain
    BY DEF HandleKnownKey
  <1>5. PICK s : s = entry.call
    OBVIOUS
  <1>6. /\ s \in Sends /\ capability[s] \in {"running", "queued", "ok"}
        /\ entry.content = asked[r].content => asked[s] = asked[r]
    <2>1. entry \in Range(Fresh) /\ entry.key = Key(r)
      BY DEF EntriesOf
    <2>2. PICK k \in DOMAIN cache : entry = cache[k]
      BY <2>1, FreshEntries DEF Range
    <2>3. Remembered(entry) /\ s \in Sends
      BY <1>5, <2>2, CachedCalls
    <2>4. asked[r] = [key |-> Key(r), content |-> asked[r].content]
      BY <1>1, <1>2, MessageTypes DEF Key
    <2> QED BY ONLY <1>5, <2>1, <2>3, <2>4 DEF Remembered
  <1>7. \/ toMain' = toMain \cup {<<r, "conflict">>} /\ awaits' = awaits
        \/ /\ toMain' = toMain \cup {<<r, "ok">>} /\ awaits' = awaits
           /\ s \in sent \/ CallsMaySkip
           /\ asked[s] = asked[r]
        \/ /\ toMain' = toMain /\ awaits' = [awaits EXCEPT ![r] = {s}]
           /\ UnderWay(s) /\ asked[s] = asked[r]
    BY <1>1, <1>4, <1>5, <1>6 DEF CallsInv, UnderWay
  <1>8. /\ \A q \in Sends : q # r => awaits'[q] = awaits[q]
        /\ awaits'[r] = {} \/ (awaits'[r] = {s} /\ UnderWay(s) /\ asked[s] = asked[r])
        /\ awaits' \in [Sends -> SUBSET Sends]
    BY <1>1, <1>2, <1>6, <1>7 DEF TypeOK, Untouched
  <1>9. /\ cache' \in Seq(CacheEntry) /\ Len(cache') <= CacheLimit
        /\ CacheInv' /\ OnceInv'
    BY <1>3, FreshInv
  <1>10. TypeOK'
    <2>1. toMain' \subseteq Sends \X Outcomes /\ toRenderer' \subseteq Sends
      BY <1>1, <1>2, <1>7 DEF TypeOK, Outcomes
    <2> QED BY <1>1, <1>3, <1>8, <1>9, <2>1 DEF TypeOK
  <1>11. ComingInv'
    <2>1. \A q \in Sends : q # r /\ Untouched(q) => Untouched(q)'
      BY <1>3, <1>7, <1>8 DEF Untouched
    <2>2. \A q \in toRenderer' : q \in toRenderer /\ q # r /\ q \in Sends
      BY <1>1 DEF TypeOK
    <2> QED BY <1>1, <1>2, <2>1, <2>2 DEF ComingInv
  <1>12. CallsInv'
    <2>1. \A q, t \in Sends : /\ UnderWay(q)' <=> UnderWay(q)
                              /\ Joined(q, t)' <=> Joined(q, t)
      BY <1>3 DEF UnderWay, Joined, Key
    <2>2. Joined(r, s) \/ asked[s] # asked[r]
      BY <1>2, <1>3 DEF Joined, Untouched
    <2>3. \A q \in Sends : \A t \in awaits'[q] :
            t \in Sends /\ UnderWay(t) /\ (t # q => Joined(q, t))
      <3> SUFFICES ASSUME NEW q \in Sends, NEW t \in awaits'[q]
                   PROVE  t \in Sends /\ UnderWay(t) /\ (t # q => Joined(q, t))
        OBVIOUS
      <3>1. CASE q = r
        BY <1>6, <1>8, <2>2, <3>1
      <3>2. CASE q # r
        BY <1>1, <1>8, <3>2 DEF CallsInv, TypeOK
      <3> QED BY <3>1, <3>2
    <2> QED BY <1>1, <1>3, <2>1, <2>3 DEF CallsInv
  <1>13. ToldInv'
    <2>1. \A q \in Sends : /\ IsQueued(q)' <=> IsQueued(q)
                           /\ UnderWay(q)' <=> UnderWay(q)
      BY <1>3 DEF IsQueued, Key, UnderWay
    <2>2. r \notin sent /\ ~UnderWay(r) /\ r \notin toRenderer'
      BY <1>2 DEF Untouched, UnderWay
    <2>3. \A q \in Sends : \A o \in Outcomes :
            Told(q, o)' => \/ Told(q, o)
                           \/ q = r /\ o = "conflict"
                           \/ /\ q = r /\ o = "ok"
                              /\ s \in sent \/ CallsMaySkip
                              /\ asked[s] = asked[r]
      BY <1>7 DEF Told
    <2>4. s \in sent /\ asked[s] = asked[r] => IsQueued(r)
      BY <1>3 DEF IsQueued
    <2>5. "ok" \in Outcomes /\ "error" \in Outcomes /\ "conflict" \in Outcomes
      BY DEF Outcomes
    <2>6. toRenderer' \subseteq toRenderer
      OBVIOUS
    <2> QED BY <1>1, <2>1, <2>2, <2>3, <2>4, <2>5, <2>6 DEF ToldInv
  <1> QED BY <1>9, <1>10, <1>11, <1>12, <1>13 DEF SendsInv

(* A request arrives in the page (automationRendererHandler.std.ts:76-156). *)
LEMMA HandleInv ==
  ASSUME SendsInv, NEW r \in Sends, Handle(r), sendScenario' = sendScenario
  PROVE  SendsInv'
  <1>1. /\ r \in toRenderer /\ toRenderer' = toRenderer \ {r}
        /\ UNCHANGED <<asked, pending, answer, renderer, sent, reloads>>
        /\ HandlePlain(r) \/ HandleNewKey(r) \/ HandleKnownKey(r)
    BY DEF Handle, bridgeVars
  <1> QED BY <1>1, PlainInv, NewKeyInv, KnownKeyInv

(* The message of a call is queued (automationRendererHandler.std.ts:157-176,
   sendMessage()). *)
LEMMA QueuesInv ==
  ASSUME SendsInv, NEW r \in Sends, Queues(r), sendScenario' = sendScenario
  PROVE  SendsInv'
  <1>1. TypeOK /\ ComingInv /\ CallsInv /\ CacheInv /\ ToldInv /\ OnceInv
    BY DEF SendsInv
  <1>2. /\ capability[r] = "running"
        /\ capability' = [capability EXCEPT ![r] = "queued"] /\ sent' = sent \cup {r}
        /\ UNCHANGED <<asked, pending, answer, awaits, cache, renderer, toRenderer,
                       toMain, reloads, sendScenario>>
    BY DEF Queues, bridgeVars
  <1>3. /\ capability'[r] = "queued"
        /\ \A q \in Sends : q # r => capability'[q] = capability[q]
    BY <1>1, <1>2 DEF TypeOK
  <1>4. TypeOK'
    <2>1. capability' \in [Sends -> {"none", "running", "queued", "ok", "error"}]
      BY <1>1, <1>2 DEF TypeOK
    <2> QED BY <1>1, <1>2, <2>1 DEF TypeOK
  <1>5. \A q \in Sends : UnderWay(q)' <=> UnderWay(q)
    BY <1>2, <1>3 DEF UnderWay
  <1>6. ComingInv'
    <2>1. \A q \in Sends : Untouched(q) => Untouched(q)'
      BY <1>2, <1>3 DEF Untouched
    <2>2. \A q \in toRenderer : q \in Sends
      BY <1>1 DEF TypeOK
    <2> QED BY <1>1, <1>2, <2>1, <2>2 DEF ComingInv
  <1>7. CallsInv'
    <2>1. \A q, s \in Sends : Joined(q, s) => Joined(q, s)'
      BY <1>2, <1>3 DEF Joined, Key
    <2>2. \A q \in Sends : \A s \in awaits[q] : s \in Sends
      BY <1>1 DEF TypeOK
    <2>3. \A q \in Sends :
             /\ capability'[q] = "running" => q \notin sent'
             /\ capability'[q] = "queued" => q \in sent'
             /\ capability'[q] = "ok" => q \in sent' \/ CallsMaySkip
             /\ capability'[q] = "error" => q \notin sent' \/ CallsMayFailLate
      BY <1>1, <1>2, <1>3 DEF CallsInv
    <2>4. reloads' = 0 => \A q \in sent' : capability'[q] \in {"queued", "ok", "error"}
      <3>1. \A q \in sent : q \in Sends
        BY <1>1 DEF TypeOK
      <3> QED BY <1>1, <1>2, <1>3, <3>1 DEF CallsInv
    <2> QED BY <1>1, <1>2, <1>5, <2>1, <2>2, <2>3, <2>4 DEF CallsInv
  <1>8. CacheInv'
    <2>1. \A i \in DOMAIN cache : Remembered(cache[i])'
      BY <1>2, <1>3, CachedCalls DEF Remembered
    <2> QED BY <1>1, <1>2, <2>1 DEF CacheInv, KeysDistinct
  <1>9. ToldInv'
    <2>1. \A q \in Sends : /\ IsQueued(q) => IsQueued(q)'
                           /\ \A o \in Outcomes : Told(q, o)' <=> Told(q, o)
      BY <1>2 DEF IsQueued, Key, Told
    <2>2. ~Told(r, "error") /\ ~Told(r, "conflict")
      BY <1>1, <1>2 DEF ToldInv, UnderWay
    <2>3. "ok" \in Outcomes /\ "error" \in Outcomes /\ "conflict" \in Outcomes
      BY DEF Outcomes
    <2> QED BY <1>1, <1>2, <1>5, <2>1, <2>2, <2>3 DEF ToldInv
  <1>10. OnceInv'
    <2>1. UsedKeys' = UsedKeys /\ \A q \in Sends : Key(q)' = Key(q)
      BY <1>2 DEF UsedKeys, Key
    <2>2. \A q \in Sends : capability'[q] \in {"running", "queued", "ok"} =>
                           capability[q] \in {"running", "queued", "ok"}
      BY <1>2, <1>3
    <2> QED BY <1>1, <1>2, <2>1, <2>2 DEF OnceInv
  <1> QED BY <1>4, <1>6, <1>7, <1>8, <1>9, <1>10 DEF SendsInv

(* A call ends and every request that waits for it is answered; after an error
   its key is forgotten (automationRendererHandler.std.ts:146-176). *)
LEMMA EndsInv ==
  ASSUME SendsInv, NEW r \in Sends, NEW outcome \in {"ok", "error"},
         CallEnds(r, outcome), sendScenario' = sendScenario,
         outcome = "ok" => \/ capability[r] = "queued"
                           \/ CallsMaySkip /\ capability[r] = "running",
         outcome = "error" => \/ capability[r] = "running"
                              \/ CallsMayFailLate /\ capability[r] = "queued",
         cache' = IF outcome = "ok" THEN cache
                  ELSE ElementsAt(cache, {i \in DOMAIN cache : cache[i].call # r})
  PROVE  SendsInv'
  <1>1. TypeOK /\ ComingInv /\ CallsInv /\ CacheInv /\ ToldInv /\ OnceInv
    BY DEF SendsInv
  <1>2. /\ capability' = [capability EXCEPT ![r] = outcome]
        /\ toMain' = toMain \cup {<<w, outcome>> : w \in {v \in Sends : r \in awaits[v]}}
        /\ awaits' = [w \in Sends |-> awaits[w] \ {r}]
        /\ UNCHANGED <<asked, pending, answer, renderer, toRenderer, sent, reloads,
                       sendScenario>>
    BY DEF CallEnds, bridgeVars
  <1>3. /\ capability'[r] = outcome
        /\ \A q \in Sends : q # r => capability'[q] = capability[q]
        /\ UnderWay(r) /\ (outcome = "ok" => r \in sent \/ CallsMaySkip)
        /\ outcome = "error" => r \notin sent \/ CallsMayFailLate
    BY <1>1, <1>2 DEF TypeOK, CallsInv, UnderWay
  <1>4. \A q \in Sends : r \in awaits[q] =>
          q = r \/ (Joined(q, r) /\ ~UnderWay(q))
    BY <1>1 DEF CallsInv, Joined, UnderWay
  <1>5. /\ cache' \in Seq(CacheEntry) /\ Len(cache') <= CacheLimit
        /\ KeysDistinct(cache')
        /\ \A i \in DOMAIN cache' : \E k \in DOMAIN cache :
             cache'[i] = cache[k] /\ (outcome = "error" => cache[k].call # r)
        /\ \A k \in DOMAIN cache : cache[k].call # r \/ outcome = "ok" =>
             \E i \in DOMAIN cache' : cache'[i] = cache[k]
    <2>1. CASE outcome = "ok"
      BY <1>1, <2>1 DEF TypeOK, CacheInv
    <2>2. CASE outcome = "error"
      <3>1. PICK I : I = {i \in DOMAIN cache : cache[i].call # r}
        OBVIOUS
      <3>2. PICK kept : kept = ElementsAt(cache, I)
        OBVIOUS
      <3>3. /\ cache \in Seq(CacheEntry) /\ Len(cache) <= CacheLimit
            /\ KeysDistinct(cache) /\ I \in SUBSET DOMAIN cache
        BY <1>1, <3>1 DEF TypeOK, CacheInv
      <3>4. /\ kept \in Seq(CacheEntry) /\ Len(kept) <= Len(cache)
            /\ KeysDistinct(kept)
            /\ \A i \in DOMAIN kept : \E k \in I : kept[i] = cache[k]
            /\ \A k \in I : \E i \in DOMAIN kept : kept[i] = cache[k]
        BY ONLY <3>2, <3>3, KeptEntries
      <3>5. cache' = kept
        BY <2>2, <3>1, <3>2
      <3>6. Len(kept) <= CacheLimit
        <4>1. Len(kept) \in Nat /\ Len(cache) \in Nat /\ CacheLimit \in Nat
          BY <3>3, <3>4, RequestsAssumption
        <4> QED BY ONLY <3>3, <3>4, <4>1
      <3> QED BY ONLY <2>2, <3>1, <3>4, <3>5, <3>6
    <2> QED BY <2>1, <2>2
  <1>6. TypeOK'
    <2>1. /\ capability' \in [Sends -> {"none", "running", "queued", "ok", "error"}]
          /\ awaits' \in [Sends -> SUBSET Sends] /\ toMain' \subseteq Sends \X Outcomes
      BY <1>1, <1>2 DEF TypeOK, Outcomes
    <2> QED BY <1>1, <1>2, <1>5, <2>1 DEF TypeOK
  <1>7. ComingInv'
    <2>1. \A q \in Sends : Untouched(q) => Untouched(q)'
      BY <1>2, <1>3 DEF Untouched, UnderWay
    <2>2. \A q \in toRenderer : q \in Sends
      BY <1>1 DEF TypeOK
    <2> QED BY <1>1, <1>2, <2>1, <2>2 DEF ComingInv
  <1>8. CallsInv'
    <2>1. \A q \in Sends :
             /\ capability'[q] = "running" => q \notin sent
             /\ capability'[q] = "queued" => q \in sent
             /\ capability'[q] = "ok" => q \in sent \/ CallsMaySkip
             /\ capability'[q] = "error" => q \notin sent \/ CallsMayFailLate
      BY <1>1, <1>2, <1>3 DEF CallsInv
    <2>2. reloads = 0 => \A q \in sent : capability'[q] \in {"queued", "ok", "error"}
      <3>1. \A q \in sent : q \in Sends
        BY <1>1 DEF TypeOK
      <3> QED BY <1>1, <1>2, <1>3, <3>1 DEF CallsInv
    <2>3. ASSUME NEW q \in Sends, NEW s \in awaits'[q]
          PROVE  UnderWay(s)' /\ (s # q => Joined(q, s)')
      <3>1. s \in awaits[q] /\ s # r /\ s \in Sends
        BY <1>1, <1>2, <2>3 DEF TypeOK
      <3>2. UnderWay(s) /\ (s # q => Joined(q, s))
        BY <1>1, <3>1 DEF CallsInv
      <3>3. s # q => q # r
        BY <1>3, <3>2 DEF Joined, UnderWay
      <3> QED BY <1>2, <1>3, <3>1, <3>2, <3>3 DEF UnderWay, Joined, Key
    <2> QED BY <1>2, <2>1, <2>2, <2>3 DEF CallsInv
  <1>9. CacheInv'
    <2>1. ASSUME NEW i \in DOMAIN cache' PROVE Remembered(cache[i])'
      <3>1. PICK k \in DOMAIN cache :
              cache'[i] = cache[k] /\ (outcome = "error" => cache[k].call # r)
        BY <1>5, <2>1
      <3>2. PICK entry : entry = cache[k]
        OBVIOUS
      <3>3. Remembered(entry) /\ entry.call \in Sends
        BY <3>2, CachedCalls
      <3>4. capability'[entry.call] \in {"running", "queued", "ok"}
        BY <1>3, <3>1, <3>2, <3>3 DEF Remembered
      <3>5. asked' = asked /\ cache'[i] = entry
        BY <1>2, <3>1, <3>2
      <3> QED BY ONLY <3>3, <3>4, <3>5 DEF Remembered
    <2>2. KeysDistinct(cache')
      BY <1>5
    <2> QED BY ONLY <2>1, <2>2 DEF CacheInv, KeysDistinct
  <1>10. ToldInv'
    <2>1. \A q \in Sends : \A o \in Outcomes :
            Told(q, o)' => Told(q, o) \/ (o = outcome /\ r \in awaits[q])
      BY <1>2 DEF Told
    <2>2. \A q \in Sends : /\ IsQueued(q)' <=> IsQueued(q)
                           /\ UnderWay(q)' => UnderWay(q)
      BY <1>2, <1>3 DEF IsQueued, Key, UnderWay
    <2>3. outcome = "ok" =>
             \A q \in Sends : r \in awaits[q] => IsQueued(q) \/ CallsMaySkip
      BY <1>3, <1>4 DEF Joined, IsQueued
    <2>4. ~UnderWay(r)'
      BY <1>3 DEF UnderWay
    <2>5. \A q \in toRenderer : r \notin awaits[q]
      BY <1>1 DEF ComingInv, Untouched
    <2>6. outcome = "error" => \A q \in Sends : r \in awaits[q] =>
            (q \notin sent \/ CallsMayFailLate) /\ ~UnderWay(q)'
      BY <1>3, <1>4, <2>2, <2>4 DEF Joined
    <2>7. "ok" \in Outcomes /\ "error" \in Outcomes /\ "conflict" \in Outcomes
      BY DEF Outcomes
    <2>8. UNCHANGED <<answer, reloads, sent, toRenderer>>
      BY <1>2
    <2> QED BY <1>1, <2>1, <2>2, <2>3, <2>5, <2>6, <2>7, <2>8 DEF ToldInv
  <1>11. OnceInv'
    <2>1. UsedKeys' = UsedKeys /\ \A q \in Sends : Key(q)' = Key(q)
      BY <1>2 DEF UsedKeys, Key
    <2>2. ASSUME NEW q \in Sends, NEW k \in DOMAIN cache, cache[k].call = q,
                 capability'[q] \in {"running", "queued", "ok"}
          PROVE  \E i \in DOMAIN cache' : cache'[i].call = q
      <3>1. cache[k].call # r \/ outcome = "ok"
        BY <1>3, <2>2
      <3> QED BY <1>5, <2>2, <3>1
    <2>3. \A q \in Sends : capability'[q] \in {"running", "queued", "ok"} =>
                           capability[q] \in {"running", "queued", "ok"}
      BY <1>3 DEF UnderWay
    <2>4. (\A k \in DOMAIN cache : ~cache[k].expired) =>
             \A i \in DOMAIN cache' : ~cache'[i].expired
      BY <1>5
    <2>5. UNCHANGED <<reloads, sendScenario>>
      BY <1>2
    <2> QED BY <1>1, <2>1, <2>2, <2>3, <2>4, <2>5 DEF OnceInv
  <1> QED BY <1>6, <1>7, <1>8, <1>9, <1>10, <1>11 DEF SendsInv

(* Time goes by for a key (automationRendererHandler.std.ts:110-115). *)
LEMMA ExpireInv ==
  ASSUME SendsInv, NEW i \in DOMAIN cache, Expire(i), sendScenario' = sendScenario
  PROVE  SendsInv'
  <1>1. TypeOK /\ ComingInv /\ CallsInv /\ CacheInv /\ ToldInv
    BY DEF SendsInv
  <1>2. /\ cache' = [cache EXCEPT ![i].expired = TRUE]
        /\ "expire" \in sendScenario.faults
        /\ UNCHANGED <<asked, pending, answer, capability, awaits, renderer, toRenderer,
                       toMain, sent, reloads, sendScenario>>
    BY DEF Expire, bridgeVars
  <1>3. PICK entry : entry = [cache[i] EXCEPT !.expired = TRUE]
    OBVIOUS
  <1>4. /\ entry \in CacheEntry /\ entry.key = cache[i].key
        /\ entry.content = cache[i].content /\ entry.call = cache[i].call
    <2>1. cache[i] \in CacheEntry
      BY CachedCalls
    <2> QED BY ONLY <1>3, <2>1 DEF CacheEntry
  <1>5. cache \in Seq(CacheEntry) /\ Len(cache) <= CacheLimit
    BY <1>1 DEF TypeOK
  <1>6. cache' = [cache EXCEPT ![i] = entry]
    BY <1>2, <1>3
  <1>7. /\ cache' \in Seq(CacheEntry) /\ Len(cache') = Len(cache)
        /\ DOMAIN cache' = DOMAIN cache
        /\ \A k \in DOMAIN cache : cache'[k] = IF k = i THEN entry ELSE cache[k]
    BY ONLY <1>4, <1>5, <1>6, i \in DOMAIN cache
  <1>8. \A k \in DOMAIN cache : /\ cache'[k].key = cache[k].key
                                /\ cache'[k].content = cache[k].content
                                /\ cache'[k].call = cache[k].call
    BY ONLY <1>4, <1>7
  <1>9. TypeOK'
    BY <1>1, <1>2, <1>5, <1>7 DEF TypeOK
  <1>10. ComingInv' /\ CallsInv'
    BY <1>1, <1>2 DEF ComingInv, CallsInv, Untouched, Joined, UnderWay, Key
  <1>11. CacheInv'
    BY <1>1, <1>2, <1>7, <1>8 DEF CacheInv, KeysDistinct, Remembered
  <1>12. ToldInv'
    <2>1. \A q \in Sends : /\ IsQueued(q)' <=> IsQueued(q)
                           /\ UnderWay(q)' <=> UnderWay(q)
                           /\ \A o \in Outcomes : Told(q, o)' <=> Told(q, o)
      BY <1>2 DEF IsQueued, UnderWay, Key, Told
    <2> QED BY <1>1, <1>2, <2>1 DEF ToldInv, Outcomes
  <1>13. OnceInv'
    BY <1>2 DEF OnceInv
  <1> QED BY <1>9, <1>10, <1>11, <1>12, <1>13 DEF SendsInv

(* The page is loaded anew or lost with its window: its cache and the calls
   in it are gone (automationRendererBridge.node.ts:117-140). *)
LEMMA LosePageInv ==
  ASSUME SendsInv, Reload \/ Destroyed, sendScenario' = sendScenario
  PROVE  SendsInv'
  <1>1. TypeOK /\ ComingInv /\ CallsInv /\ CacheInv /\ ToldInv /\ OnceInv
    BY DEF SendsInv
  <1>2. /\ reloads < sendScenario.reloads /\ reloads' = reloads + 1 /\ cache' = <<>>
        /\ capability' = [r \in Sends |-> IF capability[r] \in {"running", "queued"}
                                          THEN "none" ELSE capability[r]]
        /\ awaits' = [r \in Sends |-> {}] /\ toRenderer' = {}
        /\ UNCHANGED <<asked, toMain, sent, sendScenario>>
        /\ pending' \subseteq pending /\ renderer' \in BOOLEAN
        /\ \/ answer' = answer
           \/ answer' = [r \in Sends |-> IF r \in pending THEN "unavailable"
                                                         ELSE answer[r]]
    BY <1>1 DEF Reload, Destroyed, LosePage, TypeOK
  <1>3. reloads' \in 0 .. MaxReloads /\ reloads' > 0
    <2>1. /\ MaxReloads \in Nat /\ sendScenario.reloads \in 0 .. MaxReloads
          /\ reloads \in 0 .. MaxReloads
      BY <1>1, RequestsAssumption, ScenarioAssumption DEF TypeOK
    <2> QED BY <1>2, <2>1
  <1>4. TypeOK'
    <2>1. /\ capability' \in [Sends -> {"none", "running", "queued", "ok", "error"}]
          /\ awaits' \in [Sends -> SUBSET Sends]
          /\ answer' \in [Sends -> Outcomes \cup {"none", "unknown", "unavailable"}]
      BY <1>1, <1>2 DEF TypeOK
    <2>2. cache' \in Seq(CacheEntry) /\ Len(cache') <= CacheLimit
      BY <1>2, RequestsAssumption
    <2> QED BY <1>1, <1>2, <1>3, <2>1, <2>2 DEF TypeOK
  <1>5. \A q \in Sends : /\ capability'[q] \in {capability[q], "none"} /\ ~UnderWay(q)'
                         /\ awaits'[q] = {}
                         /\ answer'[q] = answer[q]
                              \/ (q \in pending /\ answer'[q] = "unavailable")
    BY <1>1, <1>2 DEF UnderWay
  <1>6. ComingInv'
    <2>1. \A q \in Sends : Untouched(q) => Untouched(q)'
      BY <1>2, <1>5 DEF Untouched
    <2> QED BY <1>1, <1>2, <1>3, <1>5, <2>1 DEF ComingInv
  <1>7. CallsInv'
    BY <1>1, <1>2, <1>3, <1>5 DEF CallsInv
  <1>8. CacheInv' /\ OnceInv'
    BY <1>2, <1>3 DEF CacheInv, KeysDistinct, OnceInv
  <1>9. ToldInv'
    <2>1. \A q \in Sends : \A o \in Outcomes : Told(q, o)' => Told(q, o)
      BY <1>2, <1>5 DEF Told, Outcomes
    <2>2. \A q \in Sends : IsQueued(q)' <=> IsQueued(q)
      BY <1>2 DEF IsQueued, Key
    <2>3. "ok" \in Outcomes /\ "error" \in Outcomes /\ "conflict" \in Outcomes
      BY DEF Outcomes
    <2> QED BY <1>1, <1>2, <1>3, <1>5, <2>1, <2>2, <2>3 DEF ToldInv
  <1> QED BY <1>4, <1>6, <1>7, <1>8, <1>9 DEF SendsInv

(* Every step keeps the invariant. *)
LEMMA SendsNextInv ==
  SendsInv /\ [Next]_vars => SendsInv'
  <1> SUFFICES ASSUME SendsInv, [Next]_vars PROVE SendsInv'
    OBVIOUS
  <1>1. ASSUME Step, sendScenario' = sendScenario PROVE SendsInv'
    <2>1. ASSUME NEW r \in Sends, NEW message \in sendScenario.messages,
                 Request(r, message)
          PROVE  SendsInv'
      BY <1>1, <2>1, RequestInv
    <2>2. ASSUME NEW r \in Sends,
                 TimeOut(r) \/ \E outcome \in Outcomes : HandleResponse(r, outcome)
          PROVE  SendsInv'
      BY <1>1, <2>2, BridgeInv
    <2>3. ASSUME NEW r \in Sends, Handle(r) PROVE SendsInv'
      BY <1>1, <2>3, HandleInv
    <2>4. ASSUME NEW r \in Sends, Queues(r) PROVE SendsInv'
      BY <1>1, <2>4, QueuesInv
    <2>5. ASSUME NEW r \in Sends, Returns(r) PROVE SendsInv'
      <3>1. /\ CallEnds(r, "ok") /\ cache' = cache
            /\ \/ capability[r] = "queued"
               \/ CallsMaySkip /\ capability[r] = "running"
        BY <2>5 DEF Returns
      <3> HIDE DEF SendsInv, CallEnds
      <3> QED BY <1>1, <3>1, EndsInv
    <2>6. ASSUME NEW r \in Sends, Throws(r) PROVE SendsInv'
      <3>1. /\ CallEnds(r, "error")
            /\ \/ capability[r] = "running"
               \/ CallsMayFailLate /\ capability[r] = "queued"
            /\ cache' = ElementsAt(cache, {i \in DOMAIN cache : cache[i].call # r})
        BY <2>6 DEF Throws
      <3> HIDE DEF SendsInv, CallEnds
      <3> QED BY <1>1, <3>1, EndsInv
    <2>7. ASSUME NEW i \in DOMAIN cache, Expire(i) PROVE SendsInv'
      BY <1>1, <2>7, ExpireInv
    <2>8. ASSUME Reload \/ Destroyed PROVE SendsInv'
      BY <1>1, <2>8, LosePageInv
    <2>9. ASSUME NewWindow PROVE SendsInv'
      BY <1>1, <2>9, NewWindowInv
    <2> HIDE DEF SendsInv
    <2> QED BY <1>1, <2>1, <2>2, <2>3, <2>4, <2>5, <2>6, <2>7, <2>8, <2>9
            DEF Step
  <1>2. CASE UNCHANGED vars
    BY <1>2 DEF vars, bridgeVars, handlerVars, SendsInv, TypeOK,
                ComingInv, CallsInv, CacheInv, ToldInv, OnceInv, Untouched, UnderWay,
                Joined, KeysDistinct, Remembered, IsQueued, Told, UsedKeys, Key
  <1>3. \/ Step /\ sendScenario' = sendScenario
        \/ UNCHANGED vars
    BY DEF Next, Rest
  <1> QED BY <1>1, <1>2, <1>3

(* The invariant holds in every state of the requests. *)
THEOREM RequestsInvariant ==
  Spec => []SendsInv
  BY SendsInit, SendsNextInv, PTL DEF Spec

(* A request waits only for a call that is in progress and will answer it,
   and the cache keeps to its limit (automationRendererHandler.std.ts:121-154). *)
THEOREM WaitersAreServed ==
  Spec => []RequestsInv
  <1>1. SendsInv => RequestsInv
    BY DEF SendsInv, CallsInv, UnderWay, RequestsInv, WaitersHaveCalls
  <1> QED BY <1>1, RequestsInvariant, PTL

(* In the lifetime of a page a key that is neither expired nor evicted brings
   about a second message only when the call of one of them has failed after
   it had queued its message (automationRendererHandler.std.ts:110-154). *)
THEOREM OneMessagePerKey ==
  Spec => []SentOncePerKey
  <1>1. SendsInv => SentOncePerKey
    <2> SUFFICES ASSUME SendsInv,
                        reloads = 0, "expire" \notin sendScenario.faults,
                        Cardinality(UsedKeys) <= CacheLimit,
                        NEW r \in sent, NEW s \in sent, Key(r) = Key(s), Key(r) # NoKey,
                        capability[r] # "error", capability[s] # "error"
                 PROVE  r = s
      BY DEF SentOncePerKey, UsedKeys
    <2>1. /\ r \in Sends /\ s \in Sends
          /\ capability[r] \in {"queued", "ok"} /\ capability[s] \in {"queued", "ok"}
      BY DEF SendsInv, TypeOK, CallsInv
    <2>2. PICK i \in DOMAIN cache : cache[i].call = r
      BY <2>1 DEF SendsInv, OnceInv
    <2>3. PICK j \in DOMAIN cache : cache[j].call = s
      BY <2>1 DEF SendsInv, OnceInv
    <2>4. cache[i].key = cache[j].key
      BY <2>2, <2>3, CachedCalls
    <2>5. i = j
      BY <2>4 DEF SendsInv, CacheInv, KeysDistinct
    <2> QED BY <2>2, <2>3, <2>5
  <1> QED BY <1>1, RequestsInvariant, PTL

(* What a client is told of its message is true, unless a call returns without
   having queued it or fails when it has (automationRendererBridge.node.ts:51-64,
   automationRendererHandler.std.ts:116-176). *)
THEOREM ClientsAreToldTheTruth ==
  Spec => []AnswersAreTrue
  <1>1. SendsInv => AnswersAreTrue
    BY DEF SendsInv, ToldInv, Told, IsQueued, AnswersAreTrue
  <1> QED BY <1>1, RequestsInvariant, PTL

-----------------------------------------------------------------------------
(* AutomationRuntime: the server and the job registry, which its tools use. *)

(* A step of the runtime is one of the server or leaves it alone ... *)
LEMMA StepOfServer ==
  [RuntimeNext]_runtimeVars => [ServerNext]_<<serverVars, scenario>>
  <1>1. ASSUME ToolStep, UNCHANGED scenario PROVE ServerNext
    BY <1>1 DEF ToolStep, ServerNext
  <1>2. CASE UNCHANGED runtimeVars
    BY <1>2 DEF runtimeVars
  <1> QED BY <1>1, <1>2 DEF RuntimeNext, ServerNext

(* ... and it is one of the registry or leaves that alone. *)
LEMMA StepOfRegistry ==
  [RuntimeNext]_runtimeVars => [RegistryNext]_registryVars
  <1>1. ASSUME ToolStep PROVE RegistryNext \/ UNCHANGED registryVars
    BY <1>1 DEF ToolStep, JobRequested, RegistryNext
  <1>2. ASSUME JobStep PROVE RegistryNext
    BY <1>2 DEF JobStep, RegistryNext
  <1>3. CASE UNCHANGED runtimeVars
    BY <1>3 DEF runtimeVars
  <1> QED BY <1>1, <1>2, <1>3 DEF RuntimeNext

(* The server behaves as described alone, whatever jobs its tools hand in and
   however these end (automationRuntime.main.ts:168-246, 293-353). *)
THEOREM RuntimeImplementsServer == RuntimeSpec => ServerSpec
  <1>1. RuntimeInit => ServerInit
    BY DEF RuntimeInit
  <1> QED BY <1>1, StepOfServer, PTL DEF RuntimeSpec, ServerSpec

(* The registry behaves as described alone, although the servers whose tools
   hand in its jobs are stopped and started, and their clients leave
   (automationRuntime.main.ts:200-236, jobRegistry.std.ts:51-176). *)
THEOREM RuntimeImplementsRegistry == RuntimeSpec => RegistrySpec
  <1>1. RuntimeInit => RegistryInit
    BY DEF RuntimeInit
  <1> QED BY <1>1, StepOfRegistry, PTL DEF RuntimeSpec, RegistrySpec

(* What is proved of the server and of the registry holds of the runtime, which
   the program is: one server, which fits the settings and which no old token
   opens as long as no webhook operation undoes a change of the file, started by
   one task at a time; and jobs that are counted, bounded and started in their
   order (automationRuntime.main.ts:293-353, 429-451,
   jobRegistry.std.ts:117-176). *)
THEOREM RuntimeIsSafe ==
  RuntimeSpec =>
    /\ [](ServerInv /\ SettledServerFits /\ RevokedTokenIsDead)
    /\ ImplementsExecutor
    /\ [](RegistryInv /\ RegistryKeepsOrder)
  <1>1. ServerSpec => [](ServerInv /\ SettledServerFits /\ RevokedTokenIsDead)
    BY ServerInvariant, SettledServerAlwaysFits, RevokedTokenStaysDead, PTL
  <1>2. RegistrySpec => [](RegistryInv /\ RegistryKeepsOrder)
    BY RegistryInvariant, RegistryAlwaysKeepsOrder, PTL
  <1> QED
    BY <1>1, <1>2, RunnerIsSerialExecutor, RuntimeImplementsServer,
       RuntimeImplementsRegistry, PTL
===============================================================================
