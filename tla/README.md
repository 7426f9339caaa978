# Tessera (SecureClaw): TLA+ specifications

Specifications of the parts of Tessera whose correctness depends on the order in
which things happen: approvals, the agent loop and what surrounds it, the stores
behind the gateway, and the clients in front of it. Every definition is translated
from the TypeScript under `src/`; `PROJECT.json` names the lines each one stands for.

    tlc -workers 2 -config MCStores.cfg MCStores     # any run of section 3
    tlapm VaultProofs.tla                            # and the other *Proofs modules

## 1. The system

Tessera is a set of Node services that talk gRPC, a gateway that turns HTTP and
WebSockets into gRPC, and clients of the gateway. Each process is single threaded: one
callback runs to its next `await`, then another may run. Nothing locks a session, a chat
or a store.

| Component | State it keeps | Operations | Talks to |
|---|---|---|---|
| Approval gate (`agent-runtime/tools/approval-gate.ts`) | map call_id -> waiting request, a timer and a promise each | wait, respond, time out, cancel a session | agent loop, session manager |
| Session manager (`agent-runtime/session`) | live contexts: history, status, counters | create, look up, terminate, approve | gate, sanitizer |
| Agent loop (`llm/agent-loop.ts`) | per run: turn counter, emitted calls, results | one async generator per SendMessage | provider, gate, executor, audit, memory |
| Tool executor (`llm/tool-executor.ts`) | per call | parallel batch, URL check, audit events | sandbox, skills engine, vault |
| LLM providers (`llm/*.provider.ts`) | per stream: calls held back, usage | build a request, parse a stream | vendors |
| Orchestrator, verifier (`orchestrator/`, `verifier/`) | per task: steps, results, attempt | decompose, work, verify, retry | providers |
| Harness evolution (`harness-evolution/`) | patch store and pending patches, in memory | evolve (daily or on request), apply | audit, memory store |
| Pattern analysis (`harness-evolution/`) | none | rebuild sessions from events, detect, generate patches | audit |
| Input sanitizer | delimiters and score per session | screen, wrap, clear a session, check a URL | alerting |
| Alerting | none | signed webhook with a time limit | audit |
| Audit system | append-only events, cost rows, alerts, quotas | log, record cost, query, acknowledge, dump, restore | every service |
| Memory store | sessions, messages, lessons, vectors, patches | append, search, erase a user, dump, restore | embeddings service |
| Credential vault | `keys.enc.json` or the OS keychain, `vault-refs.db`, its key | set, delete, inject, rotate, dump, restore | file, keychain |
| Sandbox runtime | containers | run with a time limit, stop, remove | Docker |
| Skills engine | registry and marketplace with their files | install, remove, publish, execute, dump, restore | sandbox |
| Gateway | message counters; sockets | REST routes, chat socket, backup fan-out | all services |
| Telegram and Slack adapters | chat -> session, socket, timer; reply buffer | text, click, close, inactivity, stop | gateway |
| Control UI | per panel React state, sockets, timers | chat, approvals, sessions, credentials, costs, audit | gateway |
| CLI, tool images, shared library | none | one request per command; one-shot programs | gateway, sandbox |

### Which behaviours are hard

* **Interleaving.** Runs of one session share its history, handlers of one chat its
  entry, effects of one page its state; each is suspended at every await.
* **Timers.** An answer, a timer and a termination race for one approval; a container's
  end races its limit; a chat's inactivity timer and a page's refresh timer outlive what
  they were armed for.
* **Partial failure.** A stream throws after tool calls were prepared; a Docker call fails
  with a container half made; an alert's insert throws after its event's; a restore
  reaches two of four services; fire-and-forget calls are lost.
* **Stale reads.** "History is empty", "cap not reached", "session is live", the rows a
  search found before its query was embedded, the page offset of a growing log.
* **Crashes and restarts.** Files written in place, restores that wait for the next start,
  journals left beside the file that replaces theirs, maps that live in memory only.
* **Order of delivery.** Patch records, messages, lessons and vectors are sent without
  waiting; polls and edits are answered in any order.
* **Boundaries.** Turn cap, retry limit, message windows, days and billing periods, score
  thresholds.

### What makes each component correct

* Gate: whoever waits is released once, by the answer meant for it. Agent loop: no gated
  tool without its own grant, a history providers accept, an audit trail of what the model
  was shown, nothing left behind by a run that ended, every run ends.
* Chat route: each accepted message gets one end, whatever dies; a session that is over
  begins nothing. Cost: limits overrun only by what was in flight. Message limit: a bound
  on any span of a window.
* Providers: what the loop is told is what the model said. Orchestrator: one attempt's
  answers, verdict and feedback never mix with another's. Analysis: findings match the log.
* Sanitizer: a score is the weight of what its live session was shown. Sandbox: no
  container behind an answered call, no success of one that was killed. Skills: only what
  was verified runs.
* Vault: no acknowledged secret lost, references backed, key id honest. Memory: what was
  erased stays gone, what was said is kept, nobody is told another's words. Search: the
  better match first. Audit: append only, an injection always alerted. Backups: answers
  true, the vault's two halves together. Patches: only what a human approved is applied,
  and stays applied.
* Channels: a chat never keeps a session whose socket is known to be gone, none is untimed or
  forgotten, every reply is shown in full. Chat page: it writes to the session it shows and
  never runs into its token's expiry.
  Lists: what the gateway holds is shown in the end. Audit page: nothing between first and
  last row is hidden.

## 2. Modules

| Module | Models | Used by run | Proved about in |
|---|---|---|---|
| `GateContract` | what the gate promises, without map or timers | refined by `ApprovalGate` | `ClientsProofs` |
| `ApprovalGate` | `approval-gate.ts` | `clients` | `ClientsProofs` |
| `AgentLoop` (instantiates `ApprovalGate`) | session manager, `AgentLoop.run`, tool executor | `agent`, `agent_*` | `AgentLoopProofs` |
| `ChatRoute`, `ChatFrames` | session routes, chat socket, runtime handlers | `runtime` | `GatewayProofs` |
| `ChatRateLimit` | message limit of the chat route | `clients` | `LimitsProofs` |
| `CostGovernance` | cost cap and quota across gateway, runtime, audit | `stores`, `cost_no_reset` | `LimitsProofs` |
| `ProviderStreams` | requests and streams of the four LLM providers | `runtime`, `openai_usage` | `RuntimeProofs` |
| `Orchestrator` | decomposition, workers, verifier, retries | `runtime` | `RuntimeProofs` |
| `PatternAnalysis` | audit events -> sessions -> patterns -> patches | `runtime`, `pattern_loops` | `LimitsProofs` |
| `HarnessEvolution` | patch maps, the table | `runtime`, `evolution_active` | `RuntimeProofs` |
| `Screening` | sanitizer, turn scores, URL check, webhooks | `runtime` | `LimitsProofs` |
| `Sandbox`; `SkillsEngine` (instantiates it), `SkillsState` | containers; registry, marketplace, execution | `runtime` | `RuntimeProofs` |
| `Vault` | vault over the encrypted file | `stores`, `vault_inject` | `VaultProofs` |
| `CredentialCalls`, `CredentialState` | vault over the OS keychain | `stores` | `VaultProofs` |
| `MemoryStore`, `MemoryTables`; `Recall` | history, lessons, vectors, erasure; searches | `stores` | `MemoryStoreProofs` |
| `AuditLog`, `AuditTables` | events, alerts, costs, restore | `stores`, `audit_alerts` | `AuditLogProofs` |
| `AuditViewer` | audit page, its route and query | `stores` | `ClientsProofs` |
| `Backup` | `/backup` routes, their services, the CLI | `stores` | `VaultProofs` |
| `ChatChannel`; `ReplyStream` | a chat of an adapter; its streamed reply | `clients` | `ClientsProofs` |
| `ChatPanel`; `Dashboard` | the control UI's chat; its lists | `clients` | `ClientsProofs` (not `Dashboard`) |
| `MC*` | constants and compositions for TLC | | |

`ChatFrames`, `SkillsState`, `CredentialState`, `MemoryTables` and `AuditTables` declare what
their components keep and state what is promised of it; component, run and proof all extend
them, so that the property a run checks is the definition the theorem names.

**Gate.** A *request* is one call of `waitForApproval`; `idOf` gives the call id the
provider put on it, which nothing makes unique. `pending`, `timer` and `promise` are the map,
the `setTimeout` handles and the returned promises. `WaitForApproval` overwrites an entry with
the same id and leaves its timer; `Timeout` deletes by id whoever is listed; `Respond` and
`CancelSession` resolve, clear and delete. `GateContract` has one `decision` per request and
counts accepted approvals: a grant and an accepted approval are one step, so one answer
never lets two requests through. The refinement mapping is `decision <- promise`.

**Agent loop.** A *run* is one SendMessage; `pc` says which await it stands at: `checking`,
`loading`, `turn`, `streaming`, `approving`, `executing`, then `ended` or `failed`. `exec` follows
one tool call, `log` is its audit trail. Node drains promise continuations before the next I/O
event: an action that only continues a settled promise (`Continuation`) takes precedence over
every external event. Termination removes the session from the map but a run keeps its context,
as in the code; only wrapping a tool result then throws, the delimiters being gone.

**Chat route.** `socket`, `told` and `asked` are the client's side, `sessions` and `run` the runtime's,
`phase` the gateway's handler (cost check, gRPC call, reading), `stream` and `frames` what is
between them. `Stop` kills the runtime with all sessions and runs.

**Cost, message limit.** `pc` walks a message through the gateway's pre-flight, the runtime's
cap and quota checks, the run and the fire-and-forget record; `CheckFails` is the audit service
answering its own failure with "not exceeded". The limit's counter is per session, shared by
its sockets, dropped by the close of any.

**Providers.** One module walks a stream of each vendor chunk by chunk: `block`, `held` and
`order` are the parsers' local variables, `out` what they yield. `Request` is the conversion of
the history, as far as it says which result belongs to which call.

**Orchestrator.** `stage` follows `orchestrate`; a text is its required terms, its marks (stub,
refusal, injection, hallucination) and a length, and the verifier's four checks are
functions of that. `prompted` records what feedback an attempt was given.

**Analysis and patches.** `PatternAnalysis` logs events as the tool executor does, reads them as
the adapter does and takes patches up to the service's `known` map. A list of events is the set
of their places in the log, which order them by time as the queries do; a pattern's frequency is
the number of its places. `HarnessEvolution` starts there: `store` and `pending` are lost by `RuntimeRestart`; `calls` are the
`storeHarnessPatch` calls under way; `rows` the table.

**Screening.** A text is the set of patterns it has plain, encoded and accented, and whether it
has the session's delimiters. `Screen` is one sanitizer call with its score; a tool call goes
from its URL check over its run to the wrapping of its output; `fired` are the webhooks.

**Sandbox and skills.** `pc` is the await `runTool` stands at, `container` what Docker has. The
engine adds its registry, marketplace, their files, pending restores and restarts; `Load` is the
verification at start-up.

**Vault.** `file` is `keys.enc.json` (absent, torn, flat, versioned), each ciphertext known by
the key that made it; `refs` the rows of `vault-refs.db`. These operations are synchronous, so
only a crash falls inside one. With the OS keychain every call awaits, so calls interleave:
`CredentialCalls` follows each from its route over the keychain to its reference.

**Memory.** `MemoryStore` joins the runtime's end (what is said, in which order it is sent) and
the store's (rows, vectors, erasure, restart). Messages and lessons are rows of tables with
numbers of their own; a vector has the table and number of its row. `Recall` holds rows of the messages and lessons
tables, whose ids overlap, and follows a search over the await of its query's embedding; a list
of rows is known by the place of each, the number of rows before it.

**Audit, backup, pages.** `LogEvent` stores, then `Evaluate`s rule after rule; `AuditLog` has the
journal a stop leaves and the file a restore leaves. `Backup` follows each request over its
services; a service's state is a stamp, so an archive can be compared with it. `AuditViewer` and
`Dashboard` keep the fetches under way beside what is shown; an event is known by its place in
the log, and a page is the set of places it shows.

**Clients.** `ChatChannel` names a session by the text that created it: `entry` is the map's
value, `chatSocket` and `chatTimer` belong to sessions that may have lost it. A socket the other
side ends is CLOSING (`"ending"`), still listed, until the action `SocketCloses` is its `close`
event. `ReplyStream` has the calls of a message's edits under way. `ChatPanel` has the refs and
state of `Chat.tsx` and every socket it ever opened; `createSession` and each `refreshToken` under
way are followed from await to await, and each may fail at any of them.

## 3. Runs

The modules of one run share no variable. `part`, chosen initially, says which one moves,
so a run's states are the sum of its parts', not their product; a part that stands still
keeps its initial state, and the properties of all hold throughout. Modules that do
interact are composed inside one part: the gate in `AgentLoop`, the sandbox in
`SkillsEngine`, the contract under the gate.

| Run | Parts and instance | States |
|---|---|---|
| `agent` | *shared*: 2 runs of one session, one call each, of up to 2 turns and of one; *solo*: one run with 3 calls in one turn or over two | 0.5 M |
| `stores` | *vault*: 2 services with one account name, 2 keys, any flat file; *keychain*: 3 calls, 1 crash; *memory*: 2 sessions of one or two users, 3 messages of one and 1 of the other, with a reading, erasing or restoring plan; *audit*: 2 events, one tick; *costs*: one team of 2 users, 3 messages, 2 days; *backups*: a backup, then two restores or one and a backup, over a service that swaps at once and one that waits; *viewer*: pages of 1, 3 fetches; *recall*: 2 searches, 2 rows a table | 1.2 M |
| `clients` | *channel* (both adapters): 2 texts; *reply*: 2 turns of 2 chunks; *panel*: 2 sessions, 3 sockets, 2 refreshes at a time; *limit*: 2 sockets, 2 a window of 3 ticks; *lists* (4 panels): 2 fetches at once, 2 a minute; *gate*: 5 requests over 3 ids | 0.2 M |
| `runtime` | *patches*, *writes*: 2 patches with one call, one with two; *execute*, *store*: a tool in its container under installs, altered files and restarts, or failing writes, torn files, marketplace, dumps, restores; *streams*: 4 vendors, 2 calls of 2 pieces; *tasks*: every setting of retries, 4 texts a step; *analysis*: 3 events, 2 jobs; *route*: one message, 2 steps, a stop; *screens*: 3 texts of one session | 0.4 M |

What they show:

| Property | In words |
|---|---|
| `agent`: `GatedNeedsGrant`, `ConversationPaired`, `ConversationAudited`, `EndedRunLeavesNothing`, `RunsEnd` | no gated tool without its own logged grant; every assistant message directly followed by its results; complete audit trails; no approval open and no tool running behind a run that ended normally (one that threw may leave either); every run ends |
| `stores`: `NoSecretLost`, `RefsBacked`, `KeyIdHonest` | the vault through rotations, restores, crashes, restarts under any key |
| `AcknowledgedHolds` | a credential call that had its credential to itself leaves what it answered, whatever overlapping calls, of which nothing is promised, left before it |
| `MemoryHolds` | erased is gone - messages, lessons and the vectors of both -, late vectors never become another row's in either table, what was said is stored or on its way, nobody is told another's words |
| `SearchHolds` | of two answers the better match comes first; `access_count` counts answers |
| `InjectionAlerted`, `AppendOnly` | an injection has its alert whatever else fails; a running log takes no event, alert or cost back (quotas may change) |
| `OverrunBounded` | cap and quota overrun by what was in flight or unchecked, no more |
| `NothingHidden` | a matching event that is not shown is newer than all shown, or older than the last page while Load more is offered |
| `ArchivesHold` | a service named as restored is; the vault's keys and references match |
| `clients`: `EntriesHold` | a chat lists no session whose socket the adapter closed or saw closed, and the listed one is timed; a text or click is lost unnoticed only between the other side's end of a socket and its close event; no session forgotten but in named ways |
| `RepliesHold` | a completed reply is on the screen in full and no message mixes two turns, unless a call failed or was overtaken, the turn ended in an error or two turns overlapped |
| `PanelHolds` | the chat page writes to no session but the one it shows, with two exceptions: a refresh crossed New Chat, or New Chat failed after it showed its session and before it closed the previous one's socket; an open chat's token is looked after |
| `BurstBounded` | fewer than 2N messages in any span of one window, plus N per close |
| `GateAgrees`, `TerminationDeniesAll`, `KeepsContract` | map, timers and promises agree; termination denies what is listed then under an id of its own; the contract is refined, liveness included |
| `UsersServed` | silent chats end, input is freed, lists catch up, ended items go |
| `runtime`: `OnlyApprovedApplied`, `PatchesAgree`, `AppliedIsFinal` | patches: approved, the same in maps, calls and table, final |
| `RegistryHolds`, `AnswersAreTrue` | only verified manifests run; answered calls leave no container, success is real |
| `NothingMisreported` | calls with their own whole input, finish only when complete, exact usage, traceable results |
| `AttemptsApart` | one answer a step, verdict of the output returned, feedback of the last failure, for integer retry limits |
| `FindingsMatchLog`, `DoneStaysDone` | no finding counts more than was logged, loops of three calls are found; nothing over is begun again |
| `ClosedOnce`, `AllAnswered` | one final frame a message; messages, orphaned runs, tool calls, URL checks and alerts all come to an end |
| `ScoresHold` | live sessions only, each pattern once a text, over the threshold for good |

Each property of a passing run is also checked against a faulty variant of one operation
(operators commented `Mutant:`), which must break it.

Eight runs show what the repository's own comments say and its code does not do
(`findings` of `PROJECT.json`):

| Run | The comment | The code |
|---|---|---|
| `agent_unlogged` | all approval decisions are logged (`approval-gate.ts:13`) | a stream that throws after a gated call skips phase 2, and the user's later decision is never written |
| `agent_prior` | prior history is loaded on the first turn (`agent-loop.ts:276`) | two first messages both see an empty history and both insert it |
| `cost_no_reset` | monthly reset (`schema.ts:124`) | nothing moves `billing_period_start` |
| `evolution_active` | applied patches with confidence > 0.7 are put in the prompt (`memory.client.ts:259`) | the query selects `applied = 0` |
| `vault_inject` | the placeholder is resolved to the actual value (`injector.ts:11`) | every placeholder is read from the first one's service |
| `audit_alerts` | LogEvent must always succeed (`audit.impl.ts:5`) | alert severities the table refuses make it fail after the event was stored |
| `openai_usage` | cost caps at two layers (`README.md:18`) | the usage chunk is skipped, so OpenAI answers cost nothing |
| `pattern_loops` | at least 3 identical consecutive calls (`pattern-detectors.ts:76`) | tool names are read from a field nobody writes, so any three calls are a loop |

### Other divergences met, without a run

Agent loop and chat
* A terminated session's run keeps its context, may start prepared tools and ask for a new
  approval, which waits its five minutes (`agent-loop.ts:658`), though sessions "are
  destroyed completely when terminated" (`session-manager.ts:6`). Its cost is missing
  from the total TerminateSession answers.
* A run that throws in a later turn never reaches `recordCost` (`agent-loop.ts:815`), though the
  runtime "records cost after each session" (`README.md:189`).
* `chat.route.ts:32` describes a sliding window; the code has a fixed one.
* Frames carry only the session, so the replies of two messages sent together cannot be told
  apart; mid-run `error` frames are followed by `complete`; `AGENT_ERROR` may follow
  `complete` when the runtime dies, hence the exception in `ClosedOnce`. An approval that
  comes too late is accepted in silence.
* A skill replaced between a user's approval and its execution runs the new manifest.

Providers, orchestrator, analysis
* A tool call cut off by the token limit is executed with empty input (Anthropic).
* Ollama's request has no link from a result to its call; order is all there is, and blocked
  calls' results come first. `ResultsTraceable` exempts it.
* The orchestrator's `timeout` (`types.ts:21`) is never read; a negative retry limit skips
  verification, and the default of 3 is capped to 2.
* Tool failures and approval bottlenecks are never found: the adapter looks for fields and event
  types nobody logs; firstSeen and lastSeen of a loop are swapped.
* After a restart `evolve()` offers an applied patch for review again, though
  `evolution-service.ts:180` expects approved patches to be skipped. The lessons pipeline
  (243-377), "called from the AgentLoop", has no caller.

Stores
* `restoreState` of the vault renames the key file at once; only the database waits
  (`vault.service.ts:244` against 192). A flat key file is stamped with whatever key is configured,
  so the mismatch ROADMAP.md:258-260 wants detected is not; hence the exemption in `KeyIdHonest`.
* From 80% of the daily cap on every LogEvent fails; rules after the failed insert are skipped; a
  crash between event and alert loses the alert. A restored database beside a left-over journal
  may be read through it.
* Concurrent restores mix archives though both answer 200, and BACKUP_RESTORED is logged into the
  database the restart replaces (`backup.route.ts:14`).
* `deleteUserData` has no caller. A session whose StoreSession is lost has all its messages
  refused. The window of recent messages may start with an orphaned tool result
  (`memory.service.ts:467`, "ready to prepend"). Lessons ranked by `hybridScore` (:571) ignore the
  text rank, which their query does not select.
* Sanitizer: `turn_score_exceeded` and `is_suspicious` are read by nobody; decoded matches do not
  raise `highest_severity`; "does NOT block" (sanitizer) against a loop that rejects critical input.

Clients
* A text or click sent after the other side ended a socket and before its `close` event is
  dropped by `ws` without an error (`bot.ts:133`, `app.ts:155`); a Telegram click is shown as done.
* New Chat shows its session before anything that may still fail (`Chat.tsx:291`): a config that
  does not parse leaves the previous session's socket current, and what is typed goes there.
* "One long-lived WebSocket per Telegram chat" (`bot.ts:5`) fails when two first texts race. Slack
  shows "Approved" without a session, and repeats the buffer after `tool_pending`.
  "Session will time out on the server side" (`gateway-client.ts:80`): the runtime has no idle
  timeout.
* Lists: `getToken` changes with each render, so panels fetch in a loop until the limit of 30 a
  minute and are blind for its rest ("Polls ... every 2 s", `ApprovalQueue.tsx:4`).
* Audit page: severity is filtered after paging, so a short page hides older matches; auto-refresh
  replaces what `AuditLog.tsx:135` says it merges. `NothingHidden` names these as `flaws`.
* The CLI's `apiDelete` parses the body of a 204 and reports a deleted credential as an error.

### Bounds

Every constant is named and given in a `.cfg` or `MC` module. Two is the least that can
interleave, be confused or overtake: two runs on a history, two services with one account
name, two keys, two searches, two texts of a chat, two fetches of a list, two patches' calls.
Three is the least for "granted, denied and free in one batch", for a late call behind an
acknowledged one and a retry (`CredentialCalls`), for dump, restore and a change between
(`Backup`), and for a third fetch after an overtaken one. Two turns, two jobs, two days, one
crash or stop are the least for "the next one"; counters (`Max*`, `Last*`) cap histories only.
The five requests of the gate are a pair colliding across sessions, a pair within one, one alone.
Two levels of confidence, of rank and of nearness suffice where the code compares with one
threshold or with each other. In `costs` the bound in the property is a formula over the
constants and is tight (the mutant overruns it by one).
`Symmetry` is used in `stores` only, over services and keys, whose run has no liveness.
The passing runs say `CHECK_DEADLOCK FALSE`: each part may come to rest, all calls answered or a
bound reached.

### Fairness

All of it is weak, and none of it is owed by users, models, the operator or the network.
* Armed timers fire: approvals (`WF(Timeout)`), the sandbox limit, DNS and webhook
  limits, the adapters' inactivity timers, the pages' intervals, the limiter's minute.
* A ready continuation runs (`AgentLoop!Fairness`, `RouteFairness`): the event loop.
* Awaited calls answer or fail: services (their clients have deadlines or the connection
  breaks), Docker (`SandboxFairness`), the gateway towards a page, session creation
  towards an adapter; a provider's stream ends or throws; a started tool finishes, for the
  sandbox kills it.
* A socket being closed closes (`PanelFairness`).
`RunsEnd`, `OrphansEnd` and the contract hold with no approval ever answered. The lists' first
fetch is under way initially, so `MCClients` asks for their fairness only where that part
moves; all other fair actions are disabled in a part that stands still.

## 4. Proofs

Each theorem holds for every value of the constants. Its proof is an invariant that holds
initially and is kept by every action (one lemma per action or group), and that implies the
property. Where a property of section 3 is not inductive, this is what it needed:

| Module | Properties | Hypotheses | The invariant, and why it is needed |
|---|---|---|---|
| `AgentLoopProofs` | `TypeOK`, `GatedNeedsGrant`, `ConversationPaired`, `ConversationAudited`, `EndedRunLeavesNothing`; `LoopDrivesGate` | `AgentAssumption` | `AgentInv`: how far each call is and what the log holds then (`CallInv`), what a turn's variables hold between the phases of its run (`TurnInv`), what was written to the conversations |
| `ClientsProofs`, gate | `GateAgrees`, `TerminationDeniesAll`, the safety half of `KeepsContract` | `GateAssumption` | `GateInv`: `Respond` clears the timer of whatever is listed, and only `ListedIsWaiting` says that this one waits under that id; that whoever waits is listed follows relative to it |
| `ClientsProofs`, chat | `EntriesHold` | `Distinct` | `ChannelInv`: before its session's request is answered a text has no socket (`SocketsFollow`) |
| `ClientsProofs`, reply | `RepliesHold` | `StreamBounds` | `StreamInv`: while nothing disturbed the stream, every call says a beginning of the turn held, or edits a message that does, and only the last is `complete`'s (`CallsOfTurn`); so none can overwrite what an earlier turn showed |
| `ClientsProofs`, panel | `PanelHolds` | `PanelBounds` | `PanelInv`: which session a connection under way is for, and whether the current socket is closed by then, depends on how far New Chat has come and where it failed (`ConnectsShown`) |
| `ClientsProofs`, audit page | `NothingHidden` | `ViewerAssumption` | `ViewerInv`: with no flaw one page is under way, and the list reaches down to the rank at which the next begins (`Reaches`); that the page appended then leaves no hole needs the ranks of the log read later to be those of the log read first |
| `GatewayProofs` | `ClosedOnce`, `NoneBegunAfterEnd` | none | `RouteInv`: what a stream may hold while its run goes on and after it (`Sound`), read from its head while the run appends |
| `RuntimeProofs`, patches | `OnlyApprovedApplied`, `PatchesAgree`, `AppliedIsFinal` | none | `EvolutionInv`: the table's approvals need those of the calls, of the dump that may replace it and of the service's own map; an applied entry keeps its call until the row is flagged |
| `RuntimeProofs`, orchestrator | `AttemptsApart` | `PipelineBounds` | `PipelineInv`: how attempts are counted, which calls have steps and a worker, and that nothing is passed before it is returned (`AttemptsKept`) |
| `RuntimeProofs`, skills | `RegistryHolds`, `AnswersAreTrue` | `Distinct` | `EngineInv`: every entry in memory is sound whichever way it came in; what the daemon may have for a call at each of its steps, and why it came there (`BoxOK`) |
| `RuntimeProofs`, providers | `NothingMisreported` | `ProviderAssumption` | `ProviderInv`: a parser holds the pieces the vendor sent of each call (`PiecesHeld`), each vendor's has passed on the calls up to a certain one, in order (`CallsSoFar`), and the reason it stopped is the one it will give (`StopHolds`) |
| `VaultProofs`, file | `NoSecretLost`, `RefsBacked`, `KeyIdHonest` | `VaultAssumption` | the first is inductive given the types; the second needs that only a restore leaves references waiting; the third the same of the staged and the archived file, and that a file which does not parse holds nothing (`Honest`) |
| `VaultProofs`, keychain | `AcknowledgedHolds` | `Distinct` | `CallsInv`: a call that is still alone is the only one under way, and the keychain is as it left it |
| `VaultProofs`, backup | `ArchivesHold` | `BackupBounds` | `BackupInv`: the same of a restore and of a dump under way (`StagedIsHeld`, `DumpsMatch`); one that is alone is the only one (`RestoresKnown`) |
| `MemoryStoreProofs` | `MemoryHolds` | `Bounds` | `MemoryInv`: every item on its way is followed - a call, a lesson being extracted, an embedding of either asked for - because what an erasure leaves depends on what was under way; a new row's number is nobody's (`NewId`), so no vector, stored or to come, is another row's |
| `MemoryStoreProofs`, searches | `SearchHolds` | `RecallAssumption` | `RecallInv`: a table's ids are used once, in order (`IdsUsed`), and what a search found is of its table (`SearchKept`); lemmas say that the hybrid score grows in each of its parts and that reranking puts the higher score first |
| `LimitsProofs`, messages | `BurstBounded` | `LimitAssumption` | `LimitInv`: what a span has let through while it lasts (`Allowed`): the counter's share when its window began in the span, and with a window from before less than the limit |
| `LimitsProofs`, costs | `OverrunBounded` | `CostAssumption` | `CostInv`: a user's spending and that of each run past the cap's check at its most (`CapKept`), the same of a team's period (`QuotaKept`), that a team without a quota is let through by failed checks only (`UnsetRefuses`) |
| `LimitsProofs`, scores | `ScoresHold` | `ScreeningAssumption` | `ScoreInv`: a score is the sum of what its session was shown, so it never falls while the session lives (`FlagKept`); it needs that a match weighs what its pattern does, found plain or decoded |
| `LimitsProofs`, patterns | `FindingsMatchLog`; `Idempotent`, of `DoneStaysDone` | `AnalysisAssumption` | `AnalysisInv`: the patterns gathered so far are of the log and those of a type share no event (`PatternsHold`), so that their counts add up to no more than the log's (`CountsAdd`); a job nobody wrote during has gathered what a job over the whole log would (`WholeUnderWay`), and after one such nothing of it is unknown (`WholeKnown`) |
| `AuditLogProofs` | `InjectionAlerted`, `AppendOnly` | `Bounds` | `AuditInv`: the same of the waiting file and of the archive, which become the tables; while rules are evaluated the last event is excused (`Evaluating`) |

Each module also proves the component's type invariant; the runs check them together, as
`TypeOK` or `PartsTypeOK`.

The hypotheses say little. `GateAssumption`, `AgentAssumption` and `VaultAssumption` give
functions their domains and say that "no request", "no call" and "no key" are none. `Distinct`
says the same of a missing entry, call or file, in the module that has it. `Bounds`,
`PanelBounds`, `RecallAssumption` and `ViewerAssumption` say that bounds are numbers and that a
page shows at least one event; `StreamBounds` also that turns are numbered by positive numbers.
`PipelineBounds` says that texts have terms, marks and a length and that retries are configured
as an integer, negative ones included. `BackupBounds` says that the list of services names the
vault and the audit log, as `backup.route.ts` does, and that `"keys"`, which marks a change of
the vault's key file in `disturbed`, names none. `LimitAssumption` has a limit and a window of at
least one. `CostAssumption` has finitely many users and messages, a cap and quotas that are not
negative, some quota above 0, and a run that costs something. `ScreeningAssumption` says that the
patterns are a finite table with the four severities and that the delimiters are none of them.
`AnalysisAssumption` says that limits and bounds are numbers and that "" is no session's id.
`ProviderAssumption` says of the conversations a provider is given what `ConversationPaired`
proves of those the loop writes: a tool result follows the message that made its call, with
results only between. A window loaded from the memory store that begins with an orphaned result
is thereby excluded (section 3, *Stores*). TLC evaluates every assumption that is an `ASSUME`.

`LoopDrivesGate` shows every step of the agent loop to be a step of the gate or a stutter, so
what is proved of the gate holds in the loop. The gate's steps are in turn those of
`GateContract` or stutters (`GateImplementsContract`).

Sums over messages, closes or matches are folds over finite sets. What such a fold computes is
proved in `LimitsProofs` by the well-founded order of strict inclusion: a set that disproves the
claim has a smallest subset that does (`SmallestSet`, `SetInduction`), and from there a sum splits,
grows and is bounded as one expects (`SumSplit`, `SumChange`, `SumBounds`, `SumImage`).

Only model-checked:
* Everything under fairness - `RunsEnd`, `UsersServed`, `AllAnswered`, the liveness half of
  `KeepsContract` - which is out of the prover's reach.
* The types of `Dashboard`, whose other properties are of liveness.

## 5. Not modelled

* Policy rules, prompts, regular expressions, prices, encryption, signatures and token checks are
  pure functions of their input and appear as choices of outcome or facts about abstract texts.
* Reports that only read: team cost, compliance, memory, evolution and skills listings, with their
  routes and pages; `vault-admin`; the plaintext scanner.
* Code without a caller: the lessons pipeline of harness evolution, `checkOutputGuardrails`,
  `detectPii`, `assertNotInjection`, the sanitizer's LLM classifier.
* The LLM router's choice of a provider; rendering; tool images, which are one-shot programs; the
  shared schemas; logging and tracing apart from the audit events properties speak of.

What would come next: an abstract all-or-nothing store refined by `Vault` while nothing is
restored or torn.
