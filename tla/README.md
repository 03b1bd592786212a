# QuantFlow: a TLA+ verification project

QuantFlow is an Electron desk around one SQLite *Kernel*. An operator and a few agents
(an orchestrator called the Director, market workers, critics) do market research
through it. Agents are interactive terminal programs ("native TUI seats"): the desk starts each
in a pseudo-terminal, talks to it by typing into that terminal, and serves its tool calls. Tasks,
sessions, results, reviews and Reports are Kernel rows.

The code is sequential inside a Kernel command and concurrent everywhere else: host handlers
await between reading and writing, terminals die at any time, the application crashes and starts
again over the rows it left, messages are typed with a delay between their text and Enter, and
two human clicks can be half done at once. The project models that part. It has seven component
modules, two abstract specifications, and proofs about every one of them.

Contents

1. The parts of the system
2. Modules and how they correspond to the code
3. Runs, bounds and fairness
4. Disagreements between code and documentation
5. Proofs
6. What is only model-checked, and what is not modelled
7. What is left

## 1. The parts of the system

Paths are relative to `src/`; `main/` stands for `collab-electron/src/main/`.

### Common ground

* **Transactions.** Each Kernel command runs to its end in one synchronous transaction
  (`main/kernel.ts:208-253`: BEGIN IMMEDIATE, or a savepoint inside a caller's transaction). So a
  command is one atomic step of the models, and a command that throws changes nothing.
* **The event loop.** Host code runs without interruption to its next `await`. An action of
  the host models stands for one such stretch; whatever can happen during the await is another action.
* **What survives.** Rows survive a crash. Maps, timers, terminals and handlers in flight do not.

### Components with a model

| Component | State | Operations | Talks to |
|---|---|---|---|
| **Kernel Tasks and sessions** `packages/qf-kernel/src/{execute,create,task-coordination}.ts`, `qf-kernel-schema/src/commands.ts` | session status and reason; Task rows with assignee and delegator; coordination events and receipts; results, read receipts | create, mark_running/stopped/failed/cancelled, close; create_task, clarify, redirect, reassign, cancel, complete, resume, second opinion, receipts and refusals, publish | called by the gateways, IPC and the host |
| **Agent host** `main/{agent-host,host-native-tui,native-tui-orchestration}.ts` | maps of live sessions, roles, terminals; the teardown registry; the cancelling set | admit, close, cancel, terminal exit, stream failure, dispose, cold reconciliation | writes session rows; owns terminals; asks the transport for owed results |
| **Peer delivery** `main/{peer-delivery,peer-role-registry}.ts` | transport rows and their pushed mark; the in-flight set; role registry; input lines of terminals | post, poll, type, Enter, mark, instruct, admit, release | reads roles of the host, writes to terminals |
| **Governed review** `packages/qf-kernel/src/governed-review.ts`, `main/{ipc-kernel,governed-critic-completion}.ts` | source works, attempts, review rows and Tasks, Evaluations, publications; handlers awaiting a critic, deliveries, monitors | bind, request review, second critic, request revision, deliver, read, evaluate, publish, supersede, time out, cancel, restart | acquires critics from the host; delivers by peer messages |
| **Market research** `main/{market-analysis,market-resume-failure,market-runtime-failure}.ts` | the Missions a request holds; the seats it found or admitted; decision Tasks and their runs | analyze, retry, revise, acquire, hand over, type, compensate | Kernel commands; admits, instructs and stops seats of the host |
| **host_acp runtime** `main/host-acp-{turn,permission}.ts`, `species/hermes/host-acp-client.ts` | live entries with their cancelled and in-flight flags; permission requests; the agent's process | admit, run a turn, cancel, stop, close, ask, decide, time out | writes session rows; signals a child process |
| **PTY front end and sidecar** `main/pty.ts`, `main/sidecar/` | ring buffer, reconnect queue, data client; the front end's sockets and sessions | create, reconnect, kill, output, attach, hang up, time out, renew the control connection, exit, crash | two processes over one control connection and one data connection per attachment |

What makes each hard, and what makes it correct:

* **Tasks and sessions.** Several actors hand a Task on, steer it and settle it while the seats
  they name start, fail, close and come back. Correct means: an open Task always has an
  owner that was started and is not closed; the history can be read back as a chain; authority comes from whoever
  was put in charge; a settled Task accepts nothing; a late receipt still names the right addressee; a Task is
  done only on its last owner's own evidence.
* **Agent host.** Every teardown has two starts (the operator's, the terminal's own) that race, and
  half of it is behind an await. Correct means: the maps never outlast the rows, a cancel is
  not recorded as a loss, an orderly quit and a crash leave the next start the same rows, and a
  dead owner is let go.
* **Peer delivery.** At-least-once delivery over a terminal: text, 400 ms, Enter, mark, and a poll every
  800 ms that must not type the same row again. Correct means: nothing typed twice without a reason,
  nothing marked that was not submitted, no message rerouted when a role changes
  hands, order kept, no seat closed over an unread result, no head-of-line blocking.
* **Governed review.** Clicks are retried, critics are acquired across awaits, Evaluations
  arrive after their review was cancelled or its work superseded. Correct means: one decision per click, one
  Report per work resting on its first supporting Evaluation, exactly one current Report per
  authority, and that one the freshest.
* **Market research.** A participant is found idle and becomes busy only awaits later; a failed retry must put back
  what it did and nothing that someone else uses by then. Correct means: one analysis per
  Mission, no worker with two open decision Tasks, no failed retry that leaves the worker it gave up running as owner, and a result
  that races its own failure kept.
* **host_acp.** A turn, a cancel, a stop and a close of one seat each tear the same agent down across awaits. Correct
  means: a settled row never has an agent still at work, one seat's end answers nothing that another seat asked, and a cancel
  settles even if the agent is deaf.
* **Sidecar.** Output goes to a ring, a queue or one client, and connections replace each other. Correct means:
  the ring is the end of the output, no client misses any of it, the end of a terminal is
  reported, and the two processes agree on who is attached, unless the caller was told that its call failed.

### Components without a model

| Component | State and operations | Why it has none |
|---|---|---|
| Kernel dispatch, transactions, object creation (`main/kernel.ts`, `packages/qf-kernel`) | savepoint depth; rows written once | a table of the commands modelled here; savepoints nest as SQLite nests them |
| Kernel upgrade chain | database shape | one generated transaction at start; what could be wrong is the SQL itself |
| Market ingest, context, deterministic runs | content-addressed rows and files | decided by hashes inside one transaction |
| Market desk, capture and evidence | queued captures | I/O around one vendor process; MarketResearch has its failure as a refusal |
| Collaboration gateway (`main/collaboration-gateway.ts`) | result-attempt counters, questions | its commits are in TaskKernel, AgentHost and MarketResearch; the rest checks one call's arguments |
| Runtime selection, launch, MCP readiness | table of waiters | answers and removes in one synchronous block; the outcomes are in AgentHost |
| Operator IPC (`main/ipc-kernel.ts`) | none of its own | its review requests are in GovernedReview, the commands behind the others in TaskKernel |
| Updater, lifecycle, profile migration | status automata, file copies | outside the desk's own logic; the order of shutdown is in AgentHost |
| JSON-RPC server, ontology gateway, CLI and MCP shims | none, or a pending table | stateless transport |
| Windows and components, workspace tools, schema generator, packaging, data tools, agent species | no shared protocol state | UI, build-time, file I/O, parsing, third-party programs |

`PROJECT.json` lists each of them with its sources and the reason, and under `hazards` the
lines where the code is exposed. A hazard without a property says why it has none.

## 2. Modules and how they correspond to the code

```
TaskLedger  <=refines=  TaskKernel <-EXTENDS- AgentHost        PeerDelivery       GovernedReview =refines=> ReportAuthority
                            ^  <---EXTENDS--- MarketResearch   HostAcp            SidecarTerminal

proofs:  TaskKernelProofs <- TaskHistoryProofs <- AgentHostProofs, MarketResearchProofs
         PeerDeliveryProofs         ReviewProofs         HostAcpProofs         SidecarProofs
MCTaskKernel, MCAgentHost, MCPeerDelivery, MCGovernedReview, MCMarketResearch, MCHostAcp, MCSidecarTerminal:
         values of the constants for TLC
```

### TaskKernel

`status`, `reason`: columns of agent_session ("absent" before creation). `task`, `assignee`, `delegator`,
`coordinator`: the Task row and its links. `log`: every coordination event, receipt and refusal in
insertion order. `reads`, `result`, `sourceWork`: the read receipts, trajectories and
source-work binding on which completion and second opinions depend.

One action per command. The guard collects every `throw` on the command's path, in `execute.ts`,
`task-coordination.ts` and the transition table of `commands.ts`; a refused command changes
nothing, so it is simply not enabled. The one exception is `record_task_steering_refusal`, which writes
a row *because* something was refused and is an action. Message texts, titles, hashes and instruction versions are left out:
no guard compares them except for equality with what was stored, and a member of `Attempts` or `RefusalIds` stands for that.

### TaskLedger

The promise behind all this: work is opened once, by one remembered delegator, handed only to seats that
are not retired, settles once, and no seat retires while it owns open work.
`TaskKernel!ImplementsLedger` maps phase and owner to the Task row and `retired` to the closed seats.

### AgentHost

Extends TaskKernel: the Kernel actions, as an agent or an operator calls them, are steps of the composition
(`KernelCommand`), and every step of the host that writes a session row uses the Kernel's guards for it.

| Variables | Code |
|---|---|
| `app`, `live`, `roles`, `mapped` | the process; `liveSessions`; the role registry as the host fills it; the session-to-terminal maps |
| `pty`, `exits` | a terminal; exit events emitted and not yet handled |
| `admission` | where an admission stands: spawning, awaiting readiness, compensating |
| `teardown`, `cancelling` | the teardown registry; seats for which cancelAgentSession awaits the kill |
| `owed` | seats for which the transport holds an unpushed result |

`AdmitBegin`, `Spawned` / `SpawnFails`, `Ready` / `NotReady` and `AdmissionFailed` cut an admission at its
awaits; `CloseSeat` / `TeardownDone` and `CancelBegin` / `CancelEnd` do the same for closing and cancelling.
`PtyExits` is the environment, `ExitHandled` the exit hook, which may run before or
after the maps are released. `Quit` is the disposal loop up to its end or to the seat it throws
on. `ProcessEnds` is a crash at any point; `Restart` is `reconcileStaleSessions`.

### PeerDelivery

The bridge at the level of the terminal's input line. `Poll` is one tick over all rows; typing puts a
message on `line[s]` and notes in `into` where it went; `EnterFires` is the delayed write that submits the
line as a turn and then marks the row. A mark that throws is one of its outcomes, and one of `Poll`'s when the row is malformed (the tick ends there), bounded by `MaxMarkFailures`.
`Instruct` and `InstructionEnter` are the second writer, `submitAgentSessionInstruction`. Admission, role registration, exit, close and restart are here too, as far as
they touch the role registry and the terminals.

`TickAfterEnter` says whether a tick can come between a text and its Enter. With the constants of the code
(400 ms < 800 ms) it cannot, and the constant is TRUE. `peer_seats` sets it FALSE: the in-flight set
alone must then prevent duplicates, so the result does not rest on two numbers in the source staying ordered.

### GovernedReview

`attempt` is the idempotency table; one attempt id stands for one click, with a fixed action and
work. `calls` are handlers that hold a critic and have not been admitted, `owed` the deliveries to be marked,
`watched` the completion monitors: these three die with the process. Deliveries requested by a click are marked in
the same stretch of the handler as the admission (`HandlerDone`), so only a restart comes between;
deliveries of a continued result or of a revision are awaited and anything may come between.
The verdicts "rejects" and "inconclusive" have the same effect on publication and are one value, "blocks".
`BecomesCurrent` decides, as the code does, between taking the authority's place and entering history.

### ReportAuthority

What a reader is promised: at most one Report per work, never withdrawn; exactly one current Report per
authority that has any; the current one changes only by publishing the Report that becomes current.

### MarketResearch

Extends TaskKernel, whose rows and commands it uses; `live` is the host's map, reduced to whether a seat has a
runtime, and a mission link, the workers that executed a decision run for it and the revision link are added to each Task. `req` holds the
calls of the operator's surface: each claims its Mission (`active`) until it ends and stands at one `phase` per await.

`Analyze`, `Retry` and `Revise` are the checks before the first await. `TakeIdle`, `AdmitBegin` / `AdmitStarted` /
`AdmitReturns` / `AdmitFails` and `AcquireFails` are `acquireParticipant`, once for the coordinator and once for the worker;
an idle seat is found, not reserved. `OpenAnalysis`, `OpenRevision` and `HandOver` are the stretch from the
created or resumed Task to the first write of the instruction; `Submitted` and `TypingFails` end it. `Abort`, `FailReplacement`,
`AfterStop` and `StopReturns` are `handleMarketResumeFailure` with its awaited stops. The rest of the desk goes on meanwhile: seats
opened, lost and cancelled, `SendTask`, `SendResult`, `Reassigned`, the steering and cancelling of a Task by its Director or by the operator in
the name of a live one (`Governed`), `Restart`.

### HostAcp

`row`, `live`, `flag` and `busy` are the row's status, the live map and the two flags of its entry; `proc` is the agent, "termed"
after SIGTERM, which is also when Node sets `proc.killed`. `call` holds calls of `runTurn`, `cancelAgentSession` and
`stopResumeParticipantRuntime` at their awaits: the prompt, the cancel notification, the end of the process. `PromptReturns`
branches as `runTurn` does, reading the cancel flag once. `TornDown` is the continuation after `tearDownHostAcp`, whose
escalation is `Escalated`. Row writes the Kernel refuses are swallowed, as in the code (`Closing`, `FailThenClose`). `ask` holds permission
requests; `Denied(s)` is `cancelPendingPermissions`.

### SidecarTerminal

One terminal. The server: `ring` (with the wrap-around of `ring-buffer.ts`), `queue` (the reconnect queue), `client`,
`attached`. `seen` is the output written to the connection it took up last. The front end: `sock`, `ids`, `reported`, and `call`, `joining` for calls at
their awaits. `ctl` and `rsp` are the two directions of the control connection, which keeps its order; data
connections are taken up in the order they were made (`backlog`), and the front end resumes their callers in that order (`joining`).
`Connected` and `Linked` are two steps, because the event loop may deliver an exit notification between a
connection's completion and its caller.

A call has an outcome the server does not know: `TimedOut` is the 10 s timer of `rpc`, after which the request may still be carried out and
its answer finds nobody waiting (`Replied`); `Connected` may fail although the session is listed; `Renewed` is a ping that fails, after which
every pending call is rejected, what the server wrote is lost and the requests it had not read may be. `GivenUp` is what the three and a crash do to their
callers. `latest` and `lost` are history variables: the last reconnect the server carried out, and whether the notification of an exit was lost.

## 3. Runs, bounds and fairness

| Run | Instance | What it asks |
|---|---|---|
| `task_handover` | 2 orchestrators, 2 workers, 1 market Task, 4 events, 1 stopped seat; symmetry | Does an open Task keep an owner that was started and is not closed (`OpenTaskHasSeat`), is history a chain (`HandoverChain`), does each steering name the one in charge (`AuthorityTraceable`), is the ledger implemented (`ImplementsLedger`)? |
| `task_history` | an orchestrator and a critic, a Task and a possible review Task, 1 artifact, a refusal, 4 events, 1 stopped seat | Longer histories, two Tasks in one log: `FinalStaysFinal`, `OneReceiptPerAcceptance`, `DoneOnOwnEvidence` |
| `host_seats` | Director and worker, one Task, 2 events, both may stop | `LiveSeatNotSettled`, `CancelNotMistakenForLoss`, `QuitMatchesCrash`, that the host keeps `ImplementsLedger`, and `DeadOwnerReleased` under fairness |
| `peer_seats` | 2 seats of one role, 2 messages, 1 instruction, 1 failing mark, ticks overtake Enters; symmetry | `NeverRerouted`, `PushedReachesSurvivor`, `InstructionReachesSurvivor`, `NothingStranded`, `NoDuplicateWithoutFailure`, `ResultsReadBeforeClose` |
| `peer_live` | a worker and a director, 3 messages, a malformed legacy row, 1 failing mark, shipped timing | `InOrder`, and `HeldRoleDrains` under fairness |
| `peer_mark` | 2 seats, 1 message | violation, section 4 |
| `review_rows` | a work and its revision (observed later), 2 critics, two clicks for a review of the first work, one for a continued review of the second, a second critic of the first, a revision, one required read, at most 4 review rows; symmetry | `SupersessionChain`, `CurrentIsFreshest`, `ReportOnFirstSupport`, `LifecycleMatchesTask`, `ClickActsOnce`, `ImplementsAuthority` |
| `market_requests` | 2 requests, 2 Missions, a Director and another orchestrator, 2 workers, 2 market Tasks and one of the Director's, 4 events, 1 stopped seat besides restarts and failed replacements; symmetry | `OneAnalysisPerMission`, `ResearchNeverOverlaps`, `FailedRetryLeavesNoOwner`, `RacedResultPreserved` |
| `market_resume` | the same instance | violation, section 4 |
| `acp_turns` | 2 seats, 2 calls, 1 permission request | `SettledSeatStopped`, `OthersAsksKept`, and `CancelSettles` under fairness |
| `acp_orphan` | 1 seat, 2 calls | violation, section 4 |
| `sidecar` | 4 calls, a ring of 3 units, 4 units of output in chunks of any size; symmetry | `RingHoldsTail`, `ClientGapless`, `ScrollbackReplayed`, `EndsAgree` |

The type invariants of TaskKernel, MarketResearch and GovernedReview are checked in a run of each; those of AgentHost,
PeerDelivery, HostAcp and SidecarTerminal are theorems (section 5).

**Why the bounds are enough.**

* *Tasks.* The shortest way to break a hand-over property is create,
  lose the owner, reassign or resume, then receive something late: three seats and three events.
  `task_handover` has four of each, so a second hand-over, to the first owner or to another orchestrator's worker,
  is in range. Receipts are events too, hence `task_history` with fewer seats and a second Task: a creation, a
  settling event, its receipt and a late receipt or refusal fit in four. `MaxStopped` bounds how many seats may leave "running" for good, not which.
  `CHECK_DEADLOCK FALSE` where a finished instance has used up its events or its seats.
* *Host.* A Task has one owner and one delegator; the races are between the steps of a seat and of the seat it works
  with. Two seats have both, through two admissions, a crash and a restart. Two seats that compete for one role are in `peer_seats`.
* *Peer.* A duplicate or a reordering needs two messages and one replaced seat; blocking needs
  a third message behind a malformed one. An instruction and two messages are two writers on one line, in any order of texts and Enters, while a mark fails.
* *Review.* Superseding needs two works, a second critic two reviews of one work, a reuse of
  a critic one critic less than reviews. The first work can have two reviews and a second critic's, hence a first and a later supporting Evaluation and a
  rejecting one before or after its Report, each also after the revision's. One read stands for those an Evaluation needs, because the guard is
  that all are there. Two works observed at the *same* time and chains of three publications are not in range of the run.
* *Market.* The hazards are two requests that take the same seat, and one request against the desk: two
  requests, two seats of each kind, two Tasks have both. Four events cover a creation, a resume and a settlement, and
  also a completed source whose revision is created and cancelled at once. `MaxStopped` bounds the seats lost or cancelled one by one; a
  restart, a failed replacement and a compensation stop more. A seat that a request admitted and a Director's own seat are both there, and either may be lost.
* *host_acp.* Two calls on one seat overlap in any mix, and a second seat is enough to answer the wrong one's
  request. Three calls on one seat add no new pair of steps that write the same entry.
* *Sidecar.* A create and three more calls: two reconnects that overlap and a kill. Chunks of one to four units over a ring of three
  end before and at its end, exceed it, and pass it: the second of two chunks of two is copied in two parts. Any call may time out or lose its connection, and the control
  connection may be replaced any number of times.

**Fairness.**

* `FairHostSpec`: weak fairness of handling an exit event, the end of a teardown or a cancel, the
  outcome of a spawn, of a readiness wait, and of the compensation. Each is a callback the
  runtime has already scheduled (a process event, an answered kill, a promise with a timer); none is an operator's or an agent's
  decision. No fairness for Kernel commands, admission, crash or restart.
* `FairSpec` (peer): weak fairness of the poll (an interval timer) and of each Enter (a timeout).
  Nothing obliges a seat to be admitted or to live: the property is about a role that stays held.
* `FairSpec` (host_acp): weak fairness of the write of a cancel notification and of the end of the teardown's wait, which a
  timer bounds at two seconds. Nothing is assumed of the agent: it may neither answer nor exit.

MarketResearch, GovernedReview and SidecarTerminal state safety only; a request may wait forever for a capture or a founder.

**Mutants.** `PROJECT.json` pairs each property of each passing run with a changed definition that a plausible
mistake would give (a guard dropped from close, a mark set before the write, a comparison of
observation times the wrong way round, an attempt not recorded), under which TLC must find it violated.

## 4. Disagreements between code and documentation

Three are runs that must end in a violation:

* `peer_mark`: `main/peer-delivery.ts:166` says the mark is set only after Enter is written, so that a seat that dies mid-inject
  does not lose the message. At `:180` the `false` that the write returns for a dead terminal is
  ignored and the message is marked.
* `market_resume`: `docs/history/orders/WO-W1-03-UFC-RESEARCH-DECISION.md:118` lets an eligible live coordinator continue on a
  resume. `main/market-analysis.ts:25` asks whether it coordinates *any* open Task, so the coordinator of the Task being
  retried is never eligible because of that very Task; and a new one cannot be admitted beside it.
* `acp_orphan`: `docs/history/orders/WO-008a.md:28` asks for a cancel that leaves no orphan process. `species/hermes/host-acp-client.ts:288` sends
  SIGKILL only if the process was not killed, and Node sets that flag when the SIGTERM before it is sent.

Met while modelling, and described here without a run of their own:

* the open Task of an absent runtime is not reassignable after a cold start, as `main/agent-host.ts:430` says: its owner fails with
  `app_terminated`, and `requireDirector` (`packages/qf-kernel/src/execute.ts:77`) accepts a failed owner only with
  `provider_stream_interrupted`;
* `docs/history/orders/WO-GOLDEN-G5.md:495` lets no recipient be killed while a result addressed to it is undelivered; `main/agent-host.ts:779`
  asks once, before awaiting the kill;
* `docs/history/orders/WO-R15.md:99` makes the exit of a critic fail its running review; no exit handler writes the review, and only a
  continued one has a monitor (`main/governed-critic-completion.ts:106`);
* the exit of a terminal is refused while a result is owed to its seat; the row stays running over a dead
  terminal (`main/agent-host.ts:854`);
* the close of a seat that is still starting is refused and swallowed (`main/agent-host.ts:841`), and the
  readiness mark in transit then starts the row (`main/native-tui-orchestration.ts:151`);
* an instruction typed between a message's text and its Enter is submitted as one line with it
  (`main/peer-delivery.ts:162` and `main/agent-host.ts:216`, against the comment at `:87`), so that no run states that a turn is one whole message; what does hold of the two
  writers is `NothingStranded`;
* a critic spawned for a second opinion is idle until admitted, so that two interleaved requests can let
  one critic review a work twice (`main/ipc-kernel.ts:655`);
* the Director is closed two seconds after an Evaluation (`main/index.ts:1591`), after which the second critic of
  that work throws (`packages/qf-kernel/src/governed-review.ts:741`);
* a rejecting Evaluation of a work already supported still gets the publication id and a `gates` link
  (`governed-review.ts:1098`, against `docs/history/orders/WO-R15.md:192`; `ReportOnFirstSupport` leaves open what it is tied to), and a late Evaluation turns a cancelled review Task done (`:1107`);
* a revision whose delivery fails is cancelled by an event that names no session (`packages/qf-kernel/src/create.ts:677`), where a failed first
  analysis names both, so `AuthorityTraceable` does not hold in MarketResearch;
* a retry that fails before its commit stops the coordinator it started without asking whether another Mission uses it by then
  (`main/market-resume-failure.ts:23`; the branch after the commit asks, `:32`); a first analysis that fails leaves its seats
  running (`main/market-analysis.ts:206`);
* host_acp: closing a seat leaves its live entry; a permission asked after the pending ones were denied can still be allowed; a turn begun while a
  cancel awaits resets the cancelled flag; a cancel in mid-turn announces the end twice;
* the worker's result attempt is counted before anything is checked (`main/collaboration-gateway.ts:308`);
* sidecar: output produced between a reconnect and the attach of the new client is sent twice (`main/sidecar/server.ts:524`); of two reconnects that
  overlap, the second attachment gets no scrollback; the queue is unbounded while no client attaches; a kill reports the exit twice;
  a crash of the sidecar reports none; a terminal that exits before the caller of create or reconnect resumes stays
  recorded as alive (`main/pty.ts:718`), so that `EndsAgree` speaks only of sessions that are listed;
* sidecar: a reconnect whose call timed out (`main/sidecar/client.ts:107`) is still carried out and closes the client (`main/sidecar/server.ts:595`); the front
  end keeps the dead socket, output goes to a queue that nobody drains, and only another reconnect repairs it. An exit that is written to a control connection about to be replaced is
  never reported (`main/pty.ts:274`). `EndsAgree` names both cases;
* guards that look for a `produces` link *from the Task* (`main/market-runtime-failure.ts:51`, `execute.ts:87`,
  `task-coordination.ts:91`) can never find one: the schema has no such link (`qf-kernel-schema` `research.ts:369`).

## 5. Proofs

The theorems hold for any number of seats, roles, messages, Tasks, events, calls and requests. They assume only the
named assumptions of the modules: `RoleAssumption` (the kinds of seats are sets of sessions, no session is both
orchestrator and worker, a market Task is a Task), `NoneAssumption` (None is none of the ids), `BoundAssumption`
(bounds are naturals), `ReasonAssumption` and `HostReasonAssumption` (the failure reasons of the host and of the requests are
among the recorded ones), `MissionAssumption` (None is no Mission; the operator's Directors are orchestrators), `DeliveryAssumption`,
`ReviewAssumption`, `AcpAssumption` and `SidecarAssumption` (the same for the other modules; an instruction is not a message; works
have an authority and a time of observation; the ring has room for a unit). TLC evaluates them in the
runs. The checked bounds (`MaxEvents`, ...) are natural numbers in the theorems, arbitrary ones. One theorem has a hypothesis of its own, which is
the instance `peer_live` checks: `MessagesInOrder` holds under the shipped timing (`TickAfterEnter`); without it TLC finds a counterexample.

| Module | Theorem | Says |
|---|---|---|
| TaskKernelProofs | `TypeCorrect` | `Spec => []TypeOK` |
| | `OpenTaskKeepsSeat` | `Spec => []OpenTaskHasSeat` |
| | `KernelImplementsLedger` | `Spec => ImplementsLedger` |
| TaskHistoryProofs | `HandoversChain` | `Spec => []HandoverChain` |
| | `AuthorityIsTraceable` | `Spec => []AuthorityTraceable` |
| | `FinalStatesHold` | `Spec => []FinalStaysFinal` |
| | `ReceiptsAreUnique` | `Spec => []OneReceiptPerAcceptance` |
| | `CompletionHasEvidence` | `Spec => []DoneOnOwnEvidence` |
| AgentHostProofs | `HostTypeCorrect` | the host's and the Kernel's types together |
| | `HostKeepsSeat` | no step of the host, crash and restart included, orphans an open Task |
| | `HostImplementsLedger` | host over Kernel still implements the ledger |
| | `HostKeepsHistory` | `HostSpec => [](HandoverChain /\ AuthorityTraceable /\ FinalStaysFinal)` |
| | `LiveSeatsAreOpen` | `HostSpec => []LiveSeatNotSettled` |
| | `CancelIsNotLoss` | `HostSpec => CancelNotMistakenForLoss` |
| | `OrderlyQuitIsACrash` | `HostSpec => QuitMatchesCrash` |
| PeerDeliveryProofs | `MessagesNotRerouted` | `Spec => []NeverRerouted` |
| | `HolderKeepsRole` | `Spec => HolderNotDisplaced` |
| | `DeliveryTypeCorrect` | `Spec => []TypeOK` |
| | `MarkedWasSubmitted` | `Spec => []PushedReachesSurvivor` |
| | `DoneWasSubmitted` | `Spec => []InstructionReachesSurvivor` |
| | `CloseAfterResults` | `Spec => ResultsReadBeforeClose` |
| | `NoDuplicates` | `Spec => []NoDuplicateWithoutFailure` |
| | `MessagesInOrder` | `TickAfterEnter => (Spec => []InOrder)` |
| | `NothingIsStranded` | `Spec => []NothingStranded` |
| ReviewProofs | `ReviewTypeCorrect` | `Spec => []TypeOK` |
| | `ChainUnbroken` | `Spec => []SupersessionChain` |
| | `FreshestIsCurrent` | `Spec => []CurrentIsFreshest` |
| | `ReportRestsOnFirstSupport` | `Spec => []ReportOnFirstSupport` |
| | `ReviewEndsWithTask` | `Spec => []LifecycleMatchesTask` |
| | `ClickDecidedOnce` | `Spec => ClickActsOnce` |
| | `ReviewImplementsAuthority` | `Spec => ImplementsAuthority` |
| MarketResearchProofs | `ResearchTypeCorrect` | `ResearchSpec => []ResearchTypeOK` |
| | `MissionAnalyzedOnce` | `ResearchSpec => []OneAnalysisPerMission` |
| | `RacedResultKept` | `ResearchSpec => RacedResultPreserved` |
| | `FailedRetryReleasesTask` | `ResearchSpec => FailedRetryLeavesNoOwner` |
| | `RequestsNeverOverlap` | `ResearchSpec => ResearchNeverOverlaps` |
| | `ResearchKeepsSeat` | `ResearchSpec => []OpenTaskHasSeat` |
| | `ResearchKeepsHistory` | `ResearchSpec => [](HandoverChain /\ FinalStaysFinal /\ DoneOnOwnEvidence)` |
| HostAcpProofs | `AcpTypeCorrect` | `Spec => []AcpTypeOK` |
| | `SettledAgentStopped` | `Spec => []SettledSeatStopped` |
| | `OthersRequestsKept` | `Spec => OthersAsksKept` |
| SidecarProofs | `SidecarTypeCorrect` | `Spec => []SidecarTypeOK` |
| | `RingKeepsTail` | `Spec => []RingHoldsTail` |
| | `ClientHasNoGap` | `Spec => []ClientGapless` |
| | `ScrollbackSent` | `Spec => ScrollbackReplayed` |
| | `EndsMeet` | `Spec => []EndsAgree` |

**TaskKernel.** `TypeOK /\ OpenTaskHasSeat` is inductive. Commands fall into three groups, one lemma each:
those that move one session's status (`SeatAfterSessionStep`: closing is guarded by owning nothing open), those that
open, hand over or settle a Task (`SeatAfterTaskStep`: the new owner is running), and those that touch neither
(`QuietSteps`). The refinement maps every command to a step of the ledger or to a stutter.

**The history of a Task.** The properties quantify over the log, and every command appends at most two events to it. One lemma
(`StepAccounted`) therefore says, for every step and Task, which events are new and what they record of the row before and after; no later
proof looks at a command again. `HistoryInv` then relates the row to its events: the assignee is the one the latest
hand-over names (`OwnerNamed`), the coordinator the one the latest start names (`DirectorNamed`), an absent Task has none
(`Blank`), and consecutive hand-overs meet (`Chained`). The lemmas about chains and ends are stated for any `Recorded` step, with
at most one hand-over and at most one settling event, which comes last, since the modules on top of the Kernel write more than one command in a
stretch. Receipts (`ReceiptsMatch`, `ReceiptsOnce`) and the evidence of a completion
(`Evidenced`) are separate, smaller invariants.

**AgentHost.** The host does not go through one command: it settles several rows at once on quit and
restart. `OpenTaskHasSeat` is kept by any *lawful* change of rows (`LawfulRows`: no closed seat comes
back, no owner of open work is closed), so each action of the host is shown lawful and one
lemma does the rest. This needs one fact the Kernel cannot know: an admission whose terminal is being
spawned concerns a row that is still absent or starting. Without it, `SpawnFails` could close a row
that had been given work. `HostInv` is `HostTypeOK /\ OpenTaskHasSeat /\ Spawning`.

The races of teardowns need to know where each seat stands. `Seated` says it: an admission past its spawn has its terminal and its maps; the transport owes results only to
seats that were started; a seat whose cancel awaits the kill has left the maps through which the exit handler would find it. `LiveInv` adds it to `HostInv`. Then an exit
handled in the middle of a cancel finds no mapping, or an entry already torn down, and cannot record a loss (`CancelIsNotLoss`); a handler that settles a row has
released its entry in the same stretch (`LiveSeatsAreOpen`). `OrderlyQuitIsACrash` is about a single step, the disposal loop: for every seat it reached, and every one
it did not reach because it threw before, the row it leaves and the row a crash leaves are taken to the same row by `reconcileStaleSessions`.

**PeerDelivery.** `NeverRerouted` is not inductive, since a message is typed by role and the property is about the addressee.
`HolderInv` adds that the seat bound to a role has that role and a terminal that is up or whose exit has
not been noticed; `RoutingInv` adds where the in-flight messages are. `HolderKeepsRole` uses `HolderInv`
and, for the second admission, the check made in the same stretch as the registration.

`InputInv` follows a row from its text to its mark: what is in flight was typed and is still on the line or already submitted,
by its own Enter or by another writer's, as long as the terminal is up; what is marked was submitted. Text and Enter lose nothing
(`NothingLost`), and a terminal that was addressed does not come up again (`SeatsAge`), so no later seat inherits the claim.
`CloseAfterResults` needs all of it: a close finds no unmarked result, a marked one was submitted, and to this
seat, because messages of a live addressee are not rerouted.

`TypedOnce` turns this round: what is on the input line of a working terminal is still in flight, and what is in flight is not marked. So a row
is typed again only after a mark of it threw, and `CountInv` counts: submitted plus on the line is at most one more than the marks that failed, whatever the order of ticks and
Enters. Order needs the shipped timing: a tick then finds no Enter outstanding, and the loop over the rows by age types a row only when every
earlier one of its role is marked (`EarlierMarked`).

`NothingStranded` is the same account with the second writer in it. `TypedBy` is what `TypedOnce` says of messages, for instructions: one that stands on the line of a working
terminal was typed there and its Enter is still due. The two writers do clear each other's text, by submitting it; `LineInv` shows that neither leaves any behind.

**GovernedReview.** `SupersessionChain` and `CurrentIsFreshest` are inductive together with `OneCurrent`: an authority with a Report has exactly
one current row, and a work without one an empty row. A supporting Evaluation either finds the work published, or enters its Report
behind the current one (`EnteredKeeps`), or takes its place (`TookKeeps`); nothing else writes these rows. `ReportOnFirstSupport` needs
that an evaluated review stays completed with the reads it had (`Evaluated`), and that in turn that no delivery is owed to a review that
is past pending (`Lifecycle`): a late mark would reopen it. Every other step only moves one review row that is not completed, or adds a
pending one (`RowsStand`), so one lemma answers for all of them. The refinement is the same case split.

**MarketResearch.** A request remembers what it read before its awaits, so its invariant is a statement per phase: `Lawful` says what the record of a request
at each phase may rely on (the seats it found exist, the Task of a retry is a market Task, nothing is committed before the hand-over). `OneRequestPerMission` is the claim in
`active`; with `AnalysisAlone` (while a first analysis waits, its Mission has no open Task) it gives `OneAnalysisPerMission`. That the desk does not break
`AnalysisAlone` meanwhile rests on `FreshTasks` and `RunsUnderMission`: a Task gets its Mission and its decision run in the stretch that creates it, and nobody else gives either. The
three action properties follow from `ResearchInv` and one case per action. Of these `ResearchNeverOverlaps` is the delicate one: two requests may find the same idle worker, and what stops the second
is the Kernel's refusal, inside its own hand-over, not the check it made before.

Requests compose Kernel writes that no single command makes: a Task created and cancelled in one stretch, a resume whose new owner fails at once, a result
published and completed together. `Told` says of each step that it is `Recorded`, closes no owner of open work and keeps the published results. With
the lemmas of the history this gives `ResearchKeepsSeat` and `ResearchKeepsHistory`. TLC checked both on the instance of `market_requests` before they were
proved, and refuted `AuthorityTraceable` there (section 4).

**HostAcp.** `SettledSeatStopped` is strengthened by two facts: a call past the point where it signals has signalled
(`CallsSignal`), and only a spawned agent has a row (`RowsSpawned`). Then no order of overlapping calls can settle a row first.
`OthersRequestsKept` needs no invariant but the types: each action that denies requests changes the seat, the agent or a call of that seat.

**SidecarTerminal.** `RingOf(ring, n)` says cell by cell which unit of the output the ring holds; a chunk keeps it in the three cases
of its length and position, with the arithmetic of the remainder in lemmas of their own, and the snapshot of such a ring is the tail.
`ClientInv` says that a queue and a client are never there together and that each is a run of output ending with the latest unit, so that an attachment,
which gets the tail and the queue, gets a run again.

`EndsAgree` relates two processes that only share three queues. `LinkInv`, which holds as long as the sidecar lives, says: a call has at most one message in transit, as request or as
answer, and then is asked or was given up (`Messages`); the create succeeds before any other call starts (`CreateFirst`); a connection is taken up and its caller resumed at most once (`Connections`); while the session is
listed, no exit and no answered kill is on its way (`Lifetime`); and the last connection made is the same one from both ends: last of the
server's backlog, or its client, and last of the callers still to resume, or the socket (`Agreed`), unless a kill dropped it (`Dropped`) or the last reconnect carried out took the client away
and its caller has not connected yet (`Opening`). With all the queues empty the second exception is a caller that gave up. Calls that are given up, by a timeout or with the control connection, change none of it:
one lemma (`GivenUpLinks`) for both.

**What the proofs changed in the models.** Three attempts failed for good reasons. In MarketResearch a revision whose instruction cannot be delivered left its Task open; the code cancels
it, and so does the model now. A decision run belongs to the worker that executed it, not to the Task alone, so a reassigned Task can be run again and `ran` holds sets of
workers. And `RacedResultPreserved` blamed a request for rows that another actor moved in its step; it now speaks of the request's own steps. In PeerDelivery the number of times a terminal was given a row was a
fold over its turns, which the provers cannot unfold by induction; it is the number of positions at which the row stands, the same number.
The history of the requests showed that three events never reach the cancelled revision; the market runs have four, and its event is now the code's.

## 6. What is only model-checked, and what is not modelled

Every safety invariant and action property that a passing run checks is also a theorem. Model-checked only are `DeadOwnerReleased`, `HeldRoleDrains` and `CancelSettles`:
liveness under fairness, which this prover does not do (neither does it do ENABLED, or induction over recursively defined data). The three
violations of section 4 are counterexamples, and stay with TLC by nature. The modules contain no RECURSIVE operator.

Left out of the modelled components, on purpose:

* TaskKernel: hypothesis, ticket, run and artifact commands beyond what a Task's completion reads; texts and hashes; the table of governed reviews,
  which a resume consults (`task-coordination.ts:94`): MarketResearch has it for revisions (`HandOver`), elsewhere no Task stands for such a row.
* AgentHost: the host_acp lane, which is HostAcp; Precreate has only the row it makes; window and telemetry effects.
* PeerDelivery: the pull path (`main/kernel.ts:602`, `main/index.ts:1545`), which sets the `delivered` flag and never `pushed_at`; `deliverToAgentSession`,
  which writes text and Enter in one burst; the writer at Mission activation; the terminal program's own
  paste heuristics; a terminal whose exit is noticed before its socket is attached, which makes `createPty` throw.
* GovernedReview: `LifecycleMatchesTask` goes from a review row to its Task only; a row left pending or running behind a cancelled Task is reached and
  not excluded, since the code leaves it. The second continuation without a monitor (`main/index.ts:1834`, a fixture path); verdict wording and
  canvas projections. That there is at most one second critic is the guard itself, and is not stated again as a property.
* MarketResearch: the capture, the official evidence and the content of a run, whose failure is one refusal; the operator's wording; how
  a runtime is torn down, which AgentHost and HostAcp have.
* HostAcp: the handshake, prompts and chunks; the allowlist that decides which tools ask; `finalize: false`, which no caller passes; disposal and
  crashes of the application, which AgentHost has.
* SidecarTerminal: the tmux and local backends, resize, signals, captures, foreground queries, the start and idle shutdown of the sidecar,
  session files; a new sidecar after a crash.

The other components are listed in section 1 and, with reasons, in `PROJECT.json`.

## 7. What is left

Tasks were modelled first, since everything else writes them; then the host, which composes with
them; then delivery and review; then the market requests, which compose with Tasks again, and the two runtimes below the host. What the project
would gain from next, in this order:

1. **Seats shared by MarketResearch and AgentHost**: today the first has the host's map as a set. Composing
   the two would put the real teardown under a compensation; the state space needs a proof rather than TLC.
2. **Review calls over real seats**: GovernedReview has a critic's end as a step of its own, AgentHost has the reason for it.

The rest of the program, listed in section 1 without a model, is not waiting for one: it is transport, rendering,
parsing and single transactions, where a model would repeat the code.
