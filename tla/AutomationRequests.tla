-------------------------- MODULE AutomationRequests ---------------------------
(***************************************************************************)
(* sendMessage requests of MCP clients: AutomationRendererBridge in the    *)
(* main process, AutomationRendererHandler with its cache of idempotency   *)
(* keys in the renderer, and the IPC messages between them                 *)
(* (ts/minutes/automation/automationRendererBridge.node.ts,                *)
(* automationRendererHandler.std.ts, wired in automationRuntime.main.ts).  *)
(***************************************************************************)
EXTENDS ArrayFilter, SequencesExt

CONSTANTS
    MaxRequests,  \* bound: requests, numbered in the order they are made
    Keys,         \* idempotency keys
    Contents,     \* conversation, text and attachments of a message
    NoKey,        \* a request without an idempotency key
    CacheLimit,   \* IDEMPOTENCY_CACHE_LIMIT
    MaxReloads,   \* bound: times the renderer starts anew
    SendScenarios \* which messages are asked for, and what may go wrong

SendFaults ==
    {"fail",      \* the capability throws and has not queued the message
     "late",      \* it throws when it has queued the message
     "skip",      \* the conversation takes no message, and nobody is told
     "expire"}    \* IDEMPOTENCY_TTL_MS goes by

ASSUME RequestsAssumption ==
    /\ CacheLimit \in Nat \ {0}
    /\ MaxReloads \in Nat
    /\ NoKey \notin Keys \cup Contents
    /\ MaxRequests \in Nat

Sends == 1..MaxRequests
NoMessage == [key |-> NoKey, content |-> NoKey]
Message == [key : Keys \cup {NoKey}, content : Contents]

ASSUME ScenarioAssumption ==
    SendScenarios \subseteq [messages : SUBSET Message, faults : SUBSET SendFaults,
                             reloads : 0..MaxReloads]

VARIABLES
    asked,      \* key and content of each request, once it is made
    pending,    \* #pending of the bridge
    answer,     \* what the client is told
    renderer,   \* is there a window with a renderer?
    toRenderer, \* requests on their way
    toMain,     \* responses on their way
    capability, \* the call of the capability for each request
    awaits,     \* the call whose outcome a request waits for
    cache,      \* idempotentSendRequests, oldest first
    sent,       \* messages queued for sending: the requests they stem from
    reloads,
    sendScenario \* the choice made from SendScenarios

bridgeVars == <<asked, pending, answer>>
handlerVars == <<capability, awaits, cache>>
vars == <<bridgeVars, handlerVars, renderer, toRenderer, toMain, sent, reloads,
          sendScenario>>

CacheEntry == [key : Keys, content : Contents, call : Sends, expired : BOOLEAN]
Outcomes == {"ok", "error", "conflict"}

TypeOK ==
    /\ asked \in [Sends -> Message \cup {NoMessage}]
    /\ pending \subseteq Sends
    /\ answer \in [Sends -> Outcomes \cup {"none", "unknown", "unavailable"}]
    /\ renderer \in BOOLEAN
    /\ toRenderer \subseteq Sends
    /\ toMain \subseteq Sends \X Outcomes
    /\ capability \in [Sends -> {"none", "running", "queued", "ok", "error"}]
    /\ awaits \in [Sends -> SUBSET Sends]
    /\ cache \in Seq(CacheEntry) /\ Len(cache) <= CacheLimit
    /\ sent \subseteq Sends
    /\ reloads \in 0..MaxReloads
    /\ sendScenario \in SendScenarios

Init ==
    /\ asked = [r \in Sends |-> NoMessage]
    /\ pending = {} /\ toRenderer = {} /\ toMain = {} /\ sent = {}
    /\ answer = [r \in Sends |-> "none"]
    /\ renderer = TRUE
    /\ capability = [r \in Sends |-> "none"]
    /\ awaits = [r \in Sends |-> {}]
    /\ cache = <<>>
    /\ reloads = 0
    /\ sendScenario \in SendScenarios

Key(r) == asked[r].key

-------------------------------------------------------------------------------
(* AutomationRendererBridge *)

\* request(): without a renderer send() throws.
Request(r, message) ==
    /\ asked[r] = NoMessage
    /\ \A q \in Sends : q < r => asked[q] # NoMessage
    /\ asked' = [asked EXCEPT ![r] = message]
    /\ IF renderer
       THEN /\ pending' = pending \cup {r}
            /\ toRenderer' = toRenderer \cup {r}
            /\ UNCHANGED answer
       ELSE /\ answer' = [answer EXCEPT ![r] = "unavailable"]
            /\ UNCHANGED <<pending, toRenderer>>
    /\ UNCHANGED <<handlerVars, renderer, toMain, sent, reloads>>

\* Seeded fault: the timer forgets the request without an answer.
TimeOutSilent(r) ==
    /\ r \in pending
    /\ pending' = pending \ {r}
    /\ UNCHANGED <<answer, asked, handlerVars, renderer, toRenderer, toMain, sent,
                   reloads>>

\* QUEUE_STATUS_UNKNOWN after 15 seconds
TimeOut(r) ==
    /\ r \in pending
    /\ pending' = pending \ {r}
    /\ answer' = [answer EXCEPT ![r] = "unknown"]
    /\ UNCHANGED <<asked, handlerVars, renderer, toRenderer, toMain, sent, reloads>>

\* handleResponse() ignores what it no longer waits for.
HandleResponse(r, outcome) ==
    /\ <<r, outcome>> \in toMain
    /\ toMain' = toMain \ {<<r, outcome>>}
    /\ pending' = pending \ {r}
    /\ answer' = IF r \in pending THEN [answer EXCEPT ![r] = outcome] ELSE answer
    /\ UNCHANGED <<asked, handlerVars, renderer, toRenderer, sent, reloads>>

-------------------------------------------------------------------------------
(* AutomationRendererHandler *)

Fresh == ElementsAt(cache, {i \in DOMAIN cache : ~cache[i].expired})
EntriesOf(key) == {entry \in Range(Fresh) : entry.key = key}

\* The oldest entries make room, whether their calls are over or not.
Evicted(list) ==
    IF Len(list) >= CacheLimit
    THEN SubSeq(list, Len(list) - CacheLimit + 2, Len(list))
    ELSE list

StartCall(r) ==
    /\ capability' = [capability EXCEPT ![r] = "running"]
    /\ awaits' = [awaits EXCEPT ![r] = {r}]

Entry(r) ==
    [key |-> Key(r), content |-> asked[r].content, call |-> r, expired |-> FALSE]

\* A request without a key calls the capability.
HandlePlain(r) ==
    /\ Key(r) = NoKey
    /\ StartCall(r)
    /\ UNCHANGED <<cache, toMain>>

\* Seeded fault: the key is not remembered while its call runs.
HandleNewKeyUncached(r) ==
    /\ Key(r) # NoKey /\ EntriesOf(Key(r)) = {}
    /\ StartCall(r)
    /\ cache' = Fresh
    /\ UNCHANGED toMain

HandleNewKey(r) ==
    /\ Key(r) # NoKey /\ EntriesOf(Key(r)) = {}
    /\ StartCall(r)
    /\ cache' = Append(Evicted(Fresh), Entry(r))
    /\ UNCHANGED toMain

\* Seeded fault: the content is not compared.
HandleKnownKeyUnsigned(r) ==
    /\ Key(r) # NoKey
    /\ \E entry \in EntriesOf(Key(r)) :
          IF capability[entry.call] = "ok"
          THEN toMain' = toMain \cup {<<r, "ok">>} /\ UNCHANGED awaits
          ELSE awaits' = [awaits EXCEPT ![r] = {entry.call}] /\ UNCHANGED toMain
    /\ cache' = Fresh
    /\ UNCHANGED capability

\* A key that is known answers with the outcome of its call, or at once when
\* the call is over; the same key with another content is refused.
HandleKnownKey(r) ==
    /\ Key(r) # NoKey
    /\ \E entry \in EntriesOf(Key(r)) :
          IF entry.content # asked[r].content
          THEN toMain' = toMain \cup {<<r, "conflict">>} /\ UNCHANGED awaits
          ELSE IF capability[entry.call] = "ok"
          THEN toMain' = toMain \cup {<<r, "ok">>} /\ UNCHANGED awaits
          ELSE awaits' = [awaits EXCEPT ![r] = {entry.call}] /\ UNCHANGED toMain
    /\ cache' = Fresh
    /\ UNCHANGED capability

Handle(r) ==
    /\ r \in toRenderer
    /\ toRenderer' = toRenderer \ {r}
    /\ HandlePlain(r) \/ HandleNewKey(r) \/ HandleKnownKey(r)
    /\ UNCHANGED <<bridgeVars, renderer, sent, reloads>>

\* sendMessage(): the message is handed to conversationJobQueue.
Queues(r) ==
    /\ capability[r] = "running"
    /\ capability' = [capability EXCEPT ![r] = "queued"]
    /\ sent' = sent \cup {r}
    /\ UNCHANGED <<awaits, cache, bridgeVars, renderer, toRenderer, toMain, reloads>>

\* Seeded fault: only the request that started the call is answered.
CallEndsForOne(r, outcome) ==
    /\ capability' = [capability EXCEPT ![r] = outcome]
    /\ toMain' = toMain \cup {<<r, outcome>>}
    /\ awaits' = [awaits EXCEPT ![r] = {}]
    /\ UNCHANGED <<bridgeVars, renderer, toRenderer, sent, reloads>>

CallEnds(r, outcome) ==
    /\ capability' = [capability EXCEPT ![r] = outcome]
    /\ toMain' = toMain \cup {<<w, outcome>> : w \in {v \in Sends : r \in awaits[v]}}
    /\ awaits' = [w \in Sends |-> awaits[w] \ {r}]
    /\ UNCHANGED <<bridgeVars, renderer, toRenderer, sent, reloads>>

\* enqueueMessageForSend() returns: when it has queued the message, or without
\* a word when the conversation takes none.
Returns(r) ==
    /\ \/ capability[r] = "queued"
       \/ "skip" \in sendScenario.faults /\ capability[r] = "running"
    /\ CallEnds(r, "ok")
    /\ UNCHANGED cache

\* An error is forgotten, so that a retry tries again, whether the message was
\* queued before it or not.
Throws(r) ==
    /\ \/ "fail" \in sendScenario.faults /\ capability[r] = "running"
       \/ "late" \in sendScenario.faults /\ capability[r] = "queued"
    /\ CallEnds(r, "error")
    /\ cache' = ElementsAt(cache, {i \in DOMAIN cache : cache[i].call # r})

-------------------------------------------------------------------------------
(* The renderer and its window *)

Expire(i) ==
    /\ "expire" \in sendScenario.faults
    /\ ~cache[i].expired
    /\ cache' = [cache EXCEPT ![i].expired = TRUE]
    /\ UNCHANGED <<capability, awaits, bridgeVars, renderer, toRenderer, toMain, sent,
                   reloads>>

\* A page that is loaded anew starts with an empty cache; the calls of the
\* old one end without a response.
LosePage ==
    /\ reloads < sendScenario.reloads
    /\ reloads' = reloads + 1
    /\ cache' = <<>>
    /\ capability' = [r \in Sends |-> IF capability[r] \in {"running", "queued"}
                                      THEN "none" ELSE capability[r]]
    /\ awaits' = [r \in Sends |-> {}]
    /\ toRenderer' = {}
    /\ UNCHANGED <<asked, toMain, sent>>

Reload ==
    /\ renderer
    /\ LosePage
    /\ UNCHANGED <<pending, answer, renderer>>

\* "destroyed": rendererUnavailable() rejects all pending requests.
Destroyed ==
    /\ renderer
    /\ LosePage
    /\ renderer' = FALSE
    /\ pending' = {}
    /\ answer' = [r \in Sends |-> IF r \in pending THEN "unavailable"
                                                   ELSE answer[r]]

NewWindow ==
    /\ ~renderer
    /\ renderer' = TRUE
    /\ UNCHANGED <<bridgeVars, handlerVars, toRenderer, toMain, sent, reloads>>

\* The client asks no more.
Rest ==
    /\ \A r \in Sends : asked[r] # NoMessage /\ r \notin pending
    /\ UNCHANGED vars

Step ==
    \/ \E r \in Sends :
          \/ \E message \in sendScenario.messages : Request(r, message)
          \/ TimeOut(r) \/ Handle(r) \/ Queues(r) \/ Returns(r) \/ Throws(r)
          \/ \E outcome \in Outcomes : HandleResponse(r, outcome)
    \/ \E i \in DOMAIN cache : Expire(i)
    \/ Reload \/ Destroyed \/ NewWindow

Next ==
    \/ Step /\ UNCHANGED sendScenario
    \/ Rest

\* Only the timer of the bridge is sure to act.
Fairness == \A r \in Sends : WF_vars(TimeOut(r) /\ UNCHANGED sendScenario)

Spec == Init /\ [][Next]_vars /\ Fairness

-------------------------------------------------------------------------------

(* However often a client retries with one idempotency key, and whatever its
   earlier requests were told, a second message is sent for the key only when
   the call of one of them has failed after it had queued its message
   (automationRendererHandler.std.ts:110-154, liveMcpCapabilities.node.ts:216
   "reuse it for retries to prevent duplicate delivery").  It holds in the
   lifetime of one page, while no entry of the cache has expired or been
   evicted. *)
SentOncePerKey ==
    /\ reloads = 0 /\ "expire" \notin sendScenario.faults
    /\ Cardinality({Key(r) : r \in Sends} \ {NoKey}) <= CacheLimit
    =>
        \A r, s \in sent :
            /\ Key(r) = Key(s) /\ Key(r) # NoKey
            /\ capability[r] # "error" /\ capability[s] # "error"
            => r = s

(* What a client is told is true: "ok" when the message with its content was
   queued, by its own call or by the earlier one of its key; an error only
   when the call it was answered for has queued nothing; "unknown" otherwise
   (automationRendererBridge.node.ts:51-64).  A conversation that takes no
   message without a word makes the first untrue, a call that fails after it
   has queued the second (conversations.preload.ts:4289-4295, 4437-4500). *)
AnswersAreTrue ==
    \A r \in Sends :
        /\ answer[r] = "ok" =>
             \/ r \in sent
             \/ Key(r) # NoKey /\ \E s \in sent : asked[s] = asked[r]
             \/ "skip" \in sendScenario.faults
        /\ answer[r] \in {"error", "conflict", "unavailable"} /\ r \in sent =>
             \/ answer[r] = "unavailable" /\ reloads > 0
             \/ answer[r] = "error" /\ "late" \in sendScenario.faults

(* A request waits only for a call that is still in progress and will answer
   it: no request joins a call that is over, and none is forgotten when the
   cache evicts or expires the entry of its call
   (automationRendererHandler.std.ts:121-154). *)
WaitersHaveCalls ==
    \A r \in Sends : \A s \in awaits[r] : capability[s] \in {"running", "queued"}

(* WaitersHaveCalls, and the cache stays within its limit
   (automationRendererHandler.std.ts:121-154). *)
RequestsInv == TypeOK /\ WaitersHaveCalls

(* Every request is answered, be it by the timeout. *)
RequestsAreAnswered ==
    \A r \in Sends : r \in pending ~> answer[r] # "none"
===============================================================================
